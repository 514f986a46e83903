------------------------------- MODULE SyncLog -------------------------------
(***************************************************************************)
(* The sync log of one user: the tables sync_events, sync_sequences and    *)
(* sync_cursors, the requests that write events and the devices that pull  *)
(* and acknowledge them.  PostgreSQL runs at READ COMMITTED: a statement   *)
(* outside a transaction commits by itself, and a row lock taken in a      *)
(* transaction is held until that transaction ends.                        *)
(*                                                                         *)
(* There are two ways to write.  An AutoWriter is SyncService.             *)
(* RecordEnvelope on the shared connection (messages, settings): the       *)
(* reservation of a sequence number and the insert are two commits.  A     *)
(* TxWriter is RecordEnvelopeWithRepo inside the transaction of a          *)
(* knowledge or contact change: GORM nests the reservation as a savepoint, *)
(* so its row lock lives until the outer commit.                           *)
(***************************************************************************)
EXTENDS SyncPaging

CONSTANTS
  TxWriters,       \* request goroutines that write inside a transaction
  AutoWriters,     \* request goroutines that write statement by statement
  Devices,         \* devices of the user
  Objects,         \* (object_type, object_id, operation) triples
  ClientEventIds,  \* non-empty client_event_id values
  NoId,            \* the empty client_event_id
  None,            \* no row, no envelope, no lock holder
  Limits,          \* the limits devices ask for
  AckSlots,        \* one for each UpdateCursor of a device that may be under way
  RetentionDays,   \* days an event is kept
  MaxSeq,          \* bound on the sequence numbers reserved
  MaxDay           \* bound on the clock

Writers == TxWriters \union AutoWriters

ASSUME WriterAssumption ==
  /\ TxWriters \intersect AutoWriters = {}
  /\ None \notin Writers

ASSUME SyncAssumption ==
  /\ Limits \subseteq Int
  /\ NoId \notin ClientEventIds
  /\ RetentionDays \in Nat
  /\ MaxSeq \in Nat
  /\ MaxDay \in Nat

\* SyncEnvelope, and the row it becomes (model.SyncEvent).
Envelope == [cid : ClientEventIds \union {NoId}, obj : Objects, src : Devices]
Row == [cid : ClientEventIds \union {NoId}, obj : Objects, src : Devices,
        seq : Nat, day : Nat]

VARIABLES
  nextSeq,    \* sync_sequences.next_sequence, as committed
  lock,       \* transaction that holds the row lock on sync_sequences
  events,     \* sync_events, as committed
  cursor,     \* sync_cursors.last_synced_sequence of each device
  pc,         \* where each request stands
  env,        \* the envelope each request is recording
  rsv,        \* the sequence number each request has reserved
  row,        \* the event each request has built or returns
  ack,        \* what each UpdateCursor is about to save, 0 for none
  seen,       \* sequence numbers projected by each device
  high,       \* the largest next_after_sequence each device was given
  pushed,     \* events handed to the hub for each device
  committed,  \* history: every event ever committed
  settled,    \* history: each cursor when no UpdateCursor was last under way
  day         \* the clock

tables  == <<nextSeq, lock, events, committed>>
request == <<pc, env, rsv, row>>
client  == <<seen, high>>
vars    == <<nextSeq, lock, events, cursor, pc, env, rsv, row, ack,
             seen, high, pushed, committed, settled, day>>

Answered == {"idle", "ok", "err"}
InTx     == {"txlookup", "txreserve", "txinsert", "commit"}
Steps    == Answered \union InTx \union
            {"lookup", "reserve", "insert", "replay", "notify"}

Init ==
  /\ nextSeq = 1
  /\ lock = None
  /\ events = {}
  /\ cursor = [d \in Devices |-> 0]
  /\ pc = [w \in Writers |-> "idle"]
  /\ env = [w \in Writers |-> None]
  /\ rsv = [w \in Writers |-> 0]
  /\ row = [w \in Writers |-> None]
  /\ ack = [d \in Devices |-> [k \in AckSlots |-> 0]]
  /\ seen = [d \in Devices |-> {}]
  /\ high = [d \in Devices |-> 0]
  /\ pushed = [d \in Devices |-> {}]
  /\ committed = {}
  /\ settled = [d \in Devices |-> 0]
  /\ day = 0
-----------------------------------------------------------------------------
(* Writing an event. *)

Goto(w, step) == pc' = [pc EXCEPT ![w] = step]

\* The request ends with an error, and nothing of it is kept.
Fail(w) ==
  /\ Goto(w, "err")
  /\ env' = [env EXCEPT ![w] = None]
  /\ rsv' = [rsv EXCEPT ![w] = 0]
  /\ row' = [row EXCEPT ![w] = None]

\* A request arrives.  Its reservation will fit under MaxSeq even when every
\* request in flight reserves a number of its own.
Begin(w, e) ==
  /\ pc[w] \in Answered
  /\ nextSeq + Cardinality({v \in Writers : pc[v] \notin Answered}) <= MaxSeq
  /\ Goto(w, IF w \in TxWriters THEN "replay" ELSE "lookup")
  /\ env' = [env EXCEPT ![w] = e]
  /\ rsv' = [rsv EXCEPT ![w] = 0]
  /\ row' = [row EXCEPT ![w] = None]
  /\ UNCHANGED <<tables, cursor, settled, ack, client, pushed, day>>

GetEventByClientEventID(cid) == {e \in events : cid # NoId /\ e.cid = cid}

\* Mutant of validateIdempotentReplay: any event with the id is accepted.
validateIdempotentReplay_Never(existing, e) == TRUE

validateIdempotentReplay(existing, e) ==
  existing.obj = e.obj /\ existing.src = e.src

Miss(w, step) == Goto(w, step) /\ UNCHANGED <<env, rsv, row>>

\* A lookup by client_event_id: proceed to "miss" when there is none, answer
\* with the existing event from "hit" when it is the same change, fail otherwise.
LookupThen(w, hit, miss) ==
  LET found == GetEventByClientEventID(env[w].cid)
  IN  \/ found = {} /\ Miss(w, miss)
      \/ \E existing \in found :
           /\ validateIdempotentReplay(existing, env[w])
           /\ Goto(w, hit)
           /\ row' = [row EXCEPT ![w] = existing]
           /\ UNCHANGED <<env, rsv>>
      \/ \E existing \in found :
           /\ ~ validateIdempotentReplay(existing, env[w])
           /\ Fail(w)

\* recordEnvelopeWithRepo, the lookup, on the shared connection.  Any error of
\* the query, not just "record not found", counts as a miss.
Lookup(w) ==
  /\ pc[w] = "lookup"
  /\ LookupThen(w, "notify", "reserve") \/ Miss(w, "reserve")
  /\ UNCHANGED <<tables, cursor, settled, ack, client, pushed, day>>

\* idempotentKnowledgeReplay / its contacts twin: the same lookup before the
\* transaction starts; a hit is answered without notifying anyone.
IdempotentReplay(w) ==
  /\ pc[w] = "replay"
  /\ LookupThen(w, "ok", "txlookup") \/ Miss(w, "txlookup")
  /\ UNCHANGED <<tables, cursor, settled, ack, client, pushed, day>>

\* The lookup again, now inside the transaction.  On a hit the transaction
\* commits with nothing in the sync tables, on a mismatch it rolls back.  An
\* error of the query poisons the transaction: that is Abort.
TxLookup(w) ==
  /\ pc[w] = "txlookup"
  /\ LookupThen(w, "notify", "txreserve")
  /\ UNCHANGED <<tables, cursor, settled, ack, client, pushed, day>>

\* Mutant of GetNextSequence: SELECT without FOR UPDATE.
GetNextSequence_NoRowLock(w) ==
  /\ pc[w] = "reserve"
  /\ rsv' = [rsv EXCEPT ![w] = nextSeq]
  /\ nextSeq' = nextSeq + 1
  /\ Goto(w, "insert")
  /\ UNCHANGED <<lock, events, committed, cursor, settled, env, row, ack, client, pushed, day>>

\* GetNextSequence in a transaction of its own: lock, read, increment, commit.
GetNextSequence(w) ==
  /\ pc[w] = "reserve"
  /\ lock = None
  /\ rsv' = [rsv EXCEPT ![w] = nextSeq]
  /\ nextSeq' = nextSeq + 1
  /\ Goto(w, "insert")
  /\ UNCHANGED <<lock, events, committed, cursor, settled, env, row, ack, client, pushed, day>>

\* Mutant of TxGetNextSequence: the reservation runs on the shared connection
\* instead of the transaction's (syncRepo without WithTx).
TxGetNextSequence_SharedConnection(w) ==
  /\ pc[w] = "txreserve"
  /\ rsv' = [rsv EXCEPT ![w] = nextSeq]
  /\ nextSeq' = nextSeq + 1
  /\ Goto(w, "txinsert")
  /\ UNCHANGED <<lock, events, committed, cursor, settled, env, row, ack, client, pushed, day>>

\* GetNextSequence as a savepoint of the outer transaction: the lock stays, and
\* the increment is not visible before Commit.
TxGetNextSequence(w) ==
  /\ pc[w] = "txreserve"
  /\ lock = None
  /\ lock' = w
  /\ rsv' = [rsv EXCEPT ![w] = nextSeq]
  /\ Goto(w, "txinsert")
  /\ UNCHANGED <<nextSeq, events, committed, cursor, settled, env, row, ack, client, pushed,
                 day>>

NewEvent(w) ==
  [cid |-> env[w].cid, obj |-> env[w].obj, src |-> env[w].src,
   seq |-> rsv[w], day |-> day]

\* The unique indexes (user_id, sequence) and (user_id, client_event_id).
SequenceTaken(w) == \E e \in events : e.seq = rsv[w]
ClientIdTaken(w) == GetEventByClientEventID(env[w].cid) # {}
Duplicate(w)     == SequenceTaken(w) \/ ClientIdTaken(w)

\* An insert waits while an uncommitted transaction has the same key.
WaitsForIndex(w) ==
  \E v \in TxWriters : /\ pc[v] = "commit"
                       /\ \/ row[v].cid = env[w].cid /\ env[w].cid # NoId
                          \/ row[v].seq = rsv[w]

\* CreateEvent on the shared connection.
CreateEvent(w) ==
  /\ pc[w] = "insert"
  /\ ~ WaitsForIndex(w)
  /\ \/ /\ ~ Duplicate(w)
        /\ row' = [row EXCEPT ![w] = NewEvent(w)]
        /\ events' = events \union {NewEvent(w)}
        /\ committed' = committed \union {NewEvent(w)}
        /\ Goto(w, "notify")
        /\ UNCHANGED <<env, rsv>>
     \/ /\ Duplicate(w)
        /\ Fail(w)
        /\ UNCHANGED <<events, committed>>
  /\ UNCHANGED <<nextSeq, lock, cursor, settled, ack, client, pushed, day>>

\* Mutant of Unlock: a transaction that ends keeps its row lock.
Unlock_Forgotten(w) == UNCHANGED lock

Unlock(w) == lock' = IF lock = w THEN None ELSE lock

\* Mutant of TxCreateEvent: devices are notified before the commit.
TxCreateEvent_NotifyEarly(w) ==
  /\ pc[w] = "txinsert"
  /\ ~ Duplicate(w)
  /\ row' = [row EXCEPT ![w] = NewEvent(w)]
  /\ pushed' = [d \in Devices |-> pushed[d] \union {NewEvent(w)}]
  /\ Goto(w, "commit")
  /\ UNCHANGED <<lock, nextSeq, events, committed, cursor, settled, env, rsv, ack, client, day>>

\* CreateEvent inside the transaction; a duplicate aborts the transaction.
TxCreateEvent(w) ==
  /\ pc[w] = "txinsert"
  /\ \/ /\ ~ Duplicate(w)
        /\ row' = [row EXCEPT ![w] = NewEvent(w)]
        /\ Goto(w, "commit")
        /\ UNCHANGED <<lock, env, rsv>>
     \/ /\ Duplicate(w)
        /\ Fail(w)
        /\ Unlock(w)
  /\ UNCHANGED <<nextSeq, events, committed, cursor, settled, ack, client, pushed, day>>

Commit(w) ==
  /\ pc[w] = "commit"
  /\ events' = events \union {row[w]}
  /\ committed' = committed \union {row[w]}
  /\ nextSeq' = rsv[w] + 1
  /\ Unlock(w)
  /\ Goto(w, "notify")
  /\ UNCHANGED <<cursor, settled, env, rsv, row, ack, client, pushed, day>>

\* notifyDevices: hand the event to the hub for every device but the source.
\* Nothing waits for the push: the request answers right after it.
notifyDevices(w) ==
  /\ pc[w] = "notify"
  /\ pushed' = [d \in Devices |-> IF d = env[w].src THEN pushed[d]
                                  ELSE pushed[d] \union {row[w]}]
  /\ Goto(w, "ok")
  /\ UNCHANGED <<tables, cursor, settled, env, rsv, row, ack, client, day>>

\* A database error, a lost connection or a crash of the server: an open
\* transaction is rolled back, statements already committed stay.
Abort(w) ==
  /\ pc[w] \notin Answered
  /\ Unlock(w)
  /\ Fail(w)
  /\ UNCHANGED <<nextSeq, events, committed, cursor, settled, ack, client, pushed, day>>
-----------------------------------------------------------------------------
(* Reading and acknowledging. *)

Larger(a, b) == IF a < b THEN b ELSE a

\* The device projects a page and remembers how far it reached.
Project(d, reply) ==
  /\ seen' = [seen EXCEPT ![d] = @ \union {e.seq : e \in reply.events}]
  /\ high' = [high EXCEPT ![d] = Larger(@, reply.next)]
  /\ UNCHANGED <<tables, cursor, settled, request, ack, pushed, day>>

\* A device pulls after a position it names (GetEventsAfter) ...
PullAfter(d, limit) == Project(d, PullReply(events, high[d], high[d], limit))

\* ... or after its stored cursor (GetEvents).
PullFromCursor(d, limit) == Project(d, PullReply(events, cursor[d], 0, limit))

\* Mutant of LoadCursor: the acknowledged number is taken as it is.
LoadCursor_NoClamp(d, n) == n

\* UpdateCursor reads the cursor and never goes below what it read ...
LoadCursor(d, n) == Larger(n, cursor[d])

\* The device acknowledges what it has projected, or repeats an earlier
\* acknowledgement; last_sequence 0 is refused.  Nothing depends on an
\* acknowledgement before UpdateCursor has read the row, so that it is sent and
\* has read the row in one step.
AckEvents(d, k) ==
  /\ ack[d][k] = 0
  /\ \E n \in 1 .. high[d] : ack' = [ack EXCEPT ![d][k] = LoadCursor(d, n)]
  /\ UNCHANGED <<tables, cursor, settled, request, client, pushed, day>>

\* Once no other UpdateCursor of d is between its statements, its cursor is settled.
Settle(d, k) ==
  settled' = IF \E j \in AckSlots \ {k} : ack[d][j] # 0
             THEN settled ELSE [settled EXCEPT ![d] = cursor'[d]]

\* ... and saves the row in a later statement.
SaveCursor(d, k) ==
  /\ ack[d][k] # 0
  /\ cursor' = [cursor EXCEPT ![d] = ack[d][k]]
  /\ ack' = [ack EXCEPT ![d][k] = 0]
  /\ Settle(d, k)
  /\ UNCHANGED <<tables, request, client, pushed, day>>

\* The acknowledgement fails between the two statements.
LoseAck(d, k) ==
  /\ ack[d][k] # 0
  /\ ack' = [ack EXCEPT ![d][k] = 0]
  /\ UNCHANGED cursor
  /\ Settle(d, k)
  /\ UNCHANGED <<tables, request, client, pushed, day>>
-----------------------------------------------------------------------------
(* The clock and the retention job. *)

Tick ==
  /\ day < MaxDay
  /\ day' = day + 1
  /\ UNCHANGED <<tables, cursor, settled, request, ack, client, pushed>>

\* Mutant of CleanupOldEvents: the comparison with the cutoff is turned round.
CleanupOldEvents_Newest ==
  /\ events' = {e \in events : e.day < day - RetentionDays}
  /\ UNCHANGED <<nextSeq, lock, committed, cursor, settled, request, ack, client, pushed, day>>

CleanupOldEvents ==
  /\ events' = {e \in events : e.day >= day - RetentionDays}
  /\ UNCHANGED <<nextSeq, lock, committed, cursor, settled, request, ack, client, pushed, day>>
-----------------------------------------------------------------------------
AutoStep(w) ==
  Lookup(w) \/ GetNextSequence(w) \/ CreateEvent(w)

TxStep(w) ==
  \/ IdempotentReplay(w) \/ TxLookup(w) \/ TxGetNextSequence(w)
  \/ TxCreateEvent(w) \/ Commit(w)

Next ==
  \/ \E w \in Writers : \E e \in Envelope : Begin(w, e)
  \/ \E w \in AutoWriters : AutoStep(w)
  \/ \E w \in TxWriters : TxStep(w)
  \/ \E w \in Writers : notifyDevices(w) \/ Abort(w)
  \/ \E d \in Devices, limit \in Limits :
       PullAfter(d, limit) \/ PullFromCursor(d, limit)
  \/ \E d \in Devices, k \in AckSlots : AckEvents(d, k) \/ SaveCursor(d, k) \/ LoseAck(d, k)
  \/ Tick
  \/ CleanupOldEvents

Spec == Init /\ [][Next]_vars

\* A request runs on as long as the database answers it; row locks and index
\* waits are granted in turn, hence strong fairness for the steps that wait.
\* Devices keep pulling.  Nothing is assumed of Begin, Abort, acks or the jobs.
Fairness ==
  /\ \A w \in AutoWriters : SF_vars(AutoStep(w))
  /\ \A w \in TxWriters : SF_vars(TxStep(w))
  /\ \A w \in Writers : WF_vars(notifyDevices(w))
  /\ \A d \in Devices : WF_vars(\E limit \in Limits : PullAfter(d, limit))

FairSpec == Spec /\ Fairness
-----------------------------------------------------------------------------
(* Properties. *)

\* The type of every variable.
TypeOK ==
  /\ nextSeq \in Nat
  /\ lock \in TxWriters \union {None}
  /\ events \subseteq Row
  /\ cursor \in [Devices -> Nat]
  /\ pc \in [Writers -> Steps]
  /\ env \in [Writers -> Envelope \union {None}]
  /\ rsv \in [Writers -> Nat]
  /\ row \in [Writers -> Row \union {None}]
  /\ ack \in [Devices -> [AckSlots -> Nat]]
  /\ seen \in [Devices -> SUBSET Nat]
  /\ high \in [Devices -> Nat]
  /\ pushed \in [Devices -> SUBSET Row]
  /\ committed \subseteq Row
  /\ settled \in [Devices -> Nat]
  /\ day \in Nat

\* A device never loses an event by reading on: whatever is in sync_events at or
\* below the position a device has reached was handed to that device.  This is
\* what lets a host acknowledge the last sequence of a page and pull after it.
\* It is about the order in which reserved numbers become visible.
NoSkippedEvent ==
  \A d \in Devices : \A e \in events : e.seq <= high[d] => e.seq \in seen[d]

\* A reserved sequence number is never one that sync_events already holds, so an
\* insert can fail on client_event_id only: GetNextSequence keeps its numbers
\* apart from those of transactions that have not committed yet.
ReservedIsFresh ==
  \A w \in Writers :
    pc[w] \in {"insert", "txinsert"} =>
      /\ ~ SequenceTaken(w)
      /\ \A v \in Writers \ {w} :
           pc[v] \in {"insert", "txinsert", "commit"} => rsv[v] # rsv[w]

\* Transactional writers leave no gap: the numbers committed so far are exactly
\* 1 .. next_sequence - 1, whatever was rolled back in between.
GapFree ==
  {e.seq : e \in committed} = 1 .. (nextSeq - 1)

\* An answered request got a committed event that is the change it asked for,
\* also when the answer is the replay of an earlier request's event.
ReplyRecorded ==
  \A w \in Writers :
    pc[w] = "ok" => /\ row[w] \in committed
                    /\ row[w].cid = env[w].cid
                    /\ row[w].obj = env[w].obj
                    /\ row[w].src = env[w].src

\* Devices are told of committed events only, and never of their own.
PushedIsDurable ==
  \A d \in Devices : \A e \in pushed[d] : e \in committed /\ e.src # d

\* The reply a device would get now if it went on from where it stands.
Reply(d, limit) == PullReply(events, high[d], high[d], limit)

\* has_more = false means that the page holds everything after the position: a
\* device that stops there has caught up (the look-ahead row of GetEvents).  With
\* the largest limit the look-ahead row is clamped away, and has_more tells nothing.
HasMoreIsExact ==
  \A d \in Devices, limit \in Limits :
    normalizeSyncLimit(limit) < MaxLimit =>
      (Reply(d, limit).hasMore <=>
         \E e \in events : e.seq > high[d] /\ e \notin Reply(d, limit).events)

\* next_after_sequence never sends a device back, and a page with events moves it
\* forward, so that a host that goes on from it does not loop.
NextMovesOn ==
  \A d \in Devices, limit \in Limits :
    LET r == Reply(d, limit)
    IN  r.next >= high[d] /\ (r.events # {} => r.next > high[d])

\* Acknowledgements of a device that overlap can move its cursor back, since each
\* compares with the row it has read (UpdateCursor), but together not further than to
\* where it stood when the first of them read it: what was saved by then stays. One
\* at a time they never move it back.
CursorMonotone ==
  [][\A d \in Devices : cursor'[d] >= settled[d]]_cursor

\* With transactional writers the log is an ordered feed with prefix retention.
Feed == INSTANCE SyncFeed WITH feed <- events, position <- high
ImplementsFeed == Feed!Spec

\* Every request is answered: nobody keeps the row lock for ever.
EveryRequestAnswered ==
  \A w \in Writers : pc[w] \notin Answered ~> pc[w] \in Answered

\* A device that keeps pulling is handed every event, unless retention takes it.
InLog(s) == \E e \in events : e.seq = s
EveryEventDelivered ==
  \A d \in Devices, s \in 1 .. MaxSeq : InLog(s) ~> (s \in seen[d] \/ ~ InLog(s))
=============================================================================
