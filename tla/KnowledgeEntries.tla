--------------------------- MODULE KnowledgeEntries ---------------------------
(***************************************************************************)
(* The versioned knowledge entries of one user.  A request looks for an    *)
(* earlier answer, checks the entry and the base version outside any       *)
(* transaction, and then changes the entry and records the sync event in   *)
(* one transaction.  The UPDATE takes the entry's row lock, which lives    *)
(* until the commit; PostgreSQL runs at READ COMMITTED.                    *)
(*                                                                         *)
(* The sync log is what SyncLog shows of transactional writers: an event   *)
(* gets the next number when its transaction commits, and the unique index *)
(* on client_event_id can make the insert fail.  An entry's fields are     *)
(* abstracted to its status, its version and the device that wrote it.     *)
(***************************************************************************)
EXTENDS Naturals, FiniteSets

CONSTANTS
  Writers,         \* request goroutines
  Entries,         \* entry ids
  Devices,         \* devices of the user
  ClientEventIds,  \* non-empty client_event_id values
  NoId,            \* the empty client_event_id
  NoBase,          \* a request without base_version
  None,            \* no row, no lock holder, no request
  Bases,           \* the base versions requests may give
  MaxRequests      \* bound on the requests of a behaviour

ASSUME KnowledgeAssumption ==
  /\ NoId \notin ClientEventIds
  /\ NoBase \notin Nat
  /\ Bases \subseteq Nat
  /\ MaxRequests \in Nat

Operations == {"created", "updated", "deleted"}

Entry == [status : {"active", "deleted"}, version : Nat \ {0}, by : Devices]

Request == [op : Operations, entry : Entries, src : Devices,
            cid : ClientEventIds \union {NoId}, base : Bases \union {NoBase}]

\* A sync event: the request it answers, its number and the row in its payload.
Event == [req : Request, seq : Nat, row : Entry]

ASSUME NoneAssumption == None \notin Writers /\ None \notin Entry /\ None \notin Request

VARIABLES
  table,   \* user_knowledge_entries, as committed
  owner,   \* the transaction that holds the row (or the new key) of an entry
  log,     \* sync_events of the user
  next,    \* the next sequence number
  pc,      \* where each request stands
  req,     \* what each request asks for
  draft,   \* the row each transaction has written and read back
  begun    \* requests begun so far

vars == <<table, owner, log, next, pc, req, draft, begun>>

Answered == {"idle", "ok", "err"}
InTx     == {"lookup", "record"}

Init ==
  /\ table = [e \in Entries |-> None]
  /\ owner = [e \in Entries |-> None]
  /\ log = {}
  /\ next = 1
  /\ pc = [w \in Writers |-> "idle"]
  /\ req = [w \in Writers |-> None]
  /\ draft = [w \in Writers |-> None]
  /\ begun = 0
-----------------------------------------------------------------------------
Goto(w, step) == pc' = [pc EXCEPT ![w] = step]

\* Mutant of Release: the row lock outlives the transaction.
Release_Forgotten(w) == UNCHANGED owner

Release(w) == owner' = [e \in Entries |-> IF owner[e] = w THEN None ELSE owner[e]]

\* The request ends with an error; an open transaction is rolled back.
Fail(w) ==
  /\ Goto(w, "err")
  /\ draft' = [draft EXCEPT ![w] = None]
  /\ Release(w)
  /\ UNCHANGED <<table, log, next>>

\* The transaction commits the row, the request is answered.
CommitRow(w) ==
  /\ table' = [table EXCEPT ![req[w].entry] = draft[w]]
  /\ Release(w)
  /\ Goto(w, "ok")
  /\ UNCHANGED draft

Begin(w, r) ==
  /\ pc[w] \in Answered
  /\ begun < MaxRequests
  /\ begun' = begun + 1
  /\ req' = [req EXCEPT ![w] = r]
  /\ draft' = [draft EXCEPT ![w] = None]
  /\ Goto(w, "replay")
  /\ UNCHANGED <<table, owner, log, next>>

GetEventByClientEventID(cid) == {v \in log : cid # NoId /\ v.req.cid = cid}

SameChange(v, r) ==
  v.req.entry = r.entry /\ v.req.op = r.op /\ v.req.src = r.src

\* idempotentKnowledgeReplay: a hit is answered or refused, and a miss goes on.
\* An error of the query is a miss as well.
IdempotentReplay(w) ==
  /\ pc[w] = "replay"
  /\ \/ /\ Goto(w, IF req[w].op = "created" THEN "write" ELSE "check")
        /\ UNCHANGED <<table, owner, log, next, draft>>
     \/ \E v \in GetEventByClientEventID(req[w].cid) :
          /\ SameChange(v, req[w])
          /\ Goto(w, "ok")
          /\ UNCHANGED <<table, owner, log, next, draft>>
     \/ \E v \in GetEventByClientEventID(req[w].cid) :
          ~ SameChange(v, req[w]) /\ Fail(w)
  /\ UNCHANGED <<req, begun>>

validateKnowledgeBaseVersion(base, version) == base = NoBase \/ base = version

\* UpdateEntry and DeleteEntry: the entry as it is before the transaction.
CheckEntry(w) ==
  /\ pc[w] = "check"
  /\ LET row == table[req[w].entry]
         fit == /\ row # None
                /\ row.status = "active"
                /\ validateKnowledgeBaseVersion(req[w].base, row.version)
     IN  \/ /\ fit
            /\ Goto(w, "write")
            /\ UNCHANGED <<table, owner, log, next, draft>>
         \/ ~ fit /\ Fail(w)
  /\ UNCHANGED <<req, begun>>

\* CreateEntry's row.
NewEntry(w) == [status |-> "active", version |-> 1, by |-> req[w].src]

\* The transaction has written row, holds its lock, and goes on.
Written(w, row) ==
  /\ draft' = [draft EXCEPT ![w] = row]
  /\ owner' = [owner EXCEPT ![req[w].entry] = w]
  /\ Goto(w, "lookup")
  /\ UNCHANGED <<table, log, next>>

\* Create: an insert waits for a transaction that has inserted the same key.
Create(w) ==
  /\ pc[w] = "write" /\ req[w].op = "created"
  /\ owner[req[w].entry] = None
  /\ \/ table[req[w].entry] = None /\ Written(w, NewEntry(w))
     \/ table[req[w].entry] # None /\ Fail(w)
  /\ UNCHANGED <<req, begun>>

\* Mutant of UpdateActive: no condition on the status.
UpdateActive_AnyStatus(w) ==
  /\ pc[w] = "write" /\ req[w].op = "updated"
  /\ owner[req[w].entry] = None
  /\ LET row == table[req[w].entry]
     IN  Written(w, [status |-> "active", version |-> row.version + 1,
                     by |-> req[w].src])
  /\ UNCHANGED <<req, begun>>

\* UpdateActive and the read back.  An entry that is no longer active is left as
\* it is, and the transaction goes on with what it reads.
UpdateActive(w) ==
  /\ pc[w] = "write" /\ req[w].op = "updated"
  /\ owner[req[w].entry] = None
  /\ LET row == table[req[w].entry]
     IN  \/ /\ row.status = "active"
            /\ Written(w, [status |-> "active", version |-> row.version + 1,
                           by |-> req[w].src])
         \/ /\ row.status # "active"
            /\ draft' = [draft EXCEPT ![w] = row]
            /\ Goto(w, "lookup")
            /\ UNCHANGED <<table, owner, log, next>>
  /\ UNCHANGED <<req, begun>>

\* Tombstone: no row affected is ErrRecordNotFound.
Tombstone(w) ==
  /\ pc[w] = "write" /\ req[w].op = "deleted"
  /\ owner[req[w].entry] = None
  /\ LET row == table[req[w].entry]
     IN  \/ /\ row.status = "active"
            /\ Written(w, [status |-> "deleted", version |-> row.version + 1,
                           by |-> req[w].src])
         \/ row.status # "active" /\ Fail(w)
  /\ UNCHANGED <<req, begun>>

\* recordEnvelopeWithRepo inside the transaction, the lookup: on a hit of the same
\* change the transaction commits what it has written and records nothing.
TxLookup(w) ==
  /\ pc[w] = "lookup"
  /\ LET found == GetEventByClientEventID(req[w].cid)
     IN  \/ /\ found = {}
            /\ Goto(w, "record")
            /\ UNCHANGED <<table, owner, log, next, draft>>
         \/ \E v \in found :
              SameChange(v, req[w]) /\ CommitRow(w) /\ UNCHANGED <<log, next>>
         \/ \E v \in found : ~ SameChange(v, req[w]) /\ Fail(w)
  /\ UNCHANGED <<req, begun>>

\* Mutant of RecordEvent: the row is committed and its lock released before the
\* event is numbered, so that another change may be recorded in between.
RecordEvent_AfterCommit(w) ==
  /\ pc[w] = "record"
  /\ \/ /\ \E e \in Entries : owner[e] = w
        /\ table' = [table EXCEPT ![req[w].entry] = draft[w]]
        /\ Release(w)
        /\ UNCHANGED <<pc, log, next, draft>>
     \/ /\ \A e \in Entries : owner[e] # w
        /\ log' = log \union {[req |-> req[w], seq |-> next, row |-> draft[w]]}
        /\ next' = next + 1
        /\ Goto(w, "ok")
        /\ UNCHANGED <<table, owner, draft>>
  /\ UNCHANGED <<req, begun>>

\* Mutant of RecordEvent: the payload is the row as it was before the change.
RecordEvent_RowBefore(w) ==
  /\ pc[w] = "record"
  /\ LET before == table[req[w].entry]
     IN  log' = log \union {[req |-> req[w], seq |-> next,
                             row |-> IF before = None THEN draft[w] ELSE before]}
  /\ next' = next + 1
  /\ CommitRow(w)
  /\ UNCHANGED <<req, begun>>

\* The number is reserved, the event inserted and the transaction committed; the
\* lock on sync_sequences makes this one step for the other writers.
RecordEvent(w) ==
  /\ pc[w] = "record"
  /\ \/ /\ GetEventByClientEventID(req[w].cid) = {}
        /\ log' = log \union {[req |-> req[w], seq |-> next, row |-> draft[w]]}
        /\ next' = next + 1
        /\ CommitRow(w)
     \/ /\ GetEventByClientEventID(req[w].cid) # {}
        /\ Fail(w)
  /\ UNCHANGED <<req, begun>>

\* A database error or a crash of the server ends the request.
Abort(w) ==
  /\ pc[w] \notin Answered
  /\ Fail(w)
  /\ UNCHANGED <<req, begun>>

Step(w) ==
  \/ IdempotentReplay(w) \/ CheckEntry(w)
  \/ Create(w) \/ UpdateActive(w) \/ Tombstone(w)
  \/ TxLookup(w) \/ RecordEvent(w)

Next ==
  \E w \in Writers : (\E r \in Request : Begin(w, r)) \/ Step(w) \/ Abort(w)

Spec == Init /\ [][Next]_vars

\* The database answers every statement and grants row locks in turn.
FairSpec == Spec /\ \A w \in Writers : SF_vars(Step(w))
-----------------------------------------------------------------------------
(* Properties. *)

\* The type of every variable.
TypeOK ==
  /\ table \in [Entries -> Entry \union {None}]
  /\ owner \in [Entries -> Writers \union {None}]
  /\ log \subseteq Event
  /\ next \in Nat
  /\ pc \in [Writers -> Answered \union InTx \union {"replay", "check", "write"}]
  /\ req \in [Writers -> Request \union {None}]
  /\ draft \in [Writers -> Entry \union {None}]
  /\ begun \in Nat

\* Devices that apply an entry's events in the order of their numbers see its
\* versions in order, the last of them no newer than the stored row.
EventOrderIsVersionOrder ==
  \A u, v \in log : u.req.entry = v.req.entry =>
    /\ u.seq <= v.seq => u.row.version <= v.row.version
    /\ table[u.req.entry] # None /\ u.row.version <= table[u.req.entry].version

\* A tombstone is final: no request changes or revives a deleted entry, and no
\* entry loses a version.
TombstoneIsFinal ==
  [][\A e \in Entries : table[e] # None =>
       /\ table'[e] # None
       /\ table[e].status = "deleted" => table'[e] = table[e]
       /\ table'[e].version >= table[e].version]_table

\* A device that has applied all events of an entry has the stored row, for an
\* entry whose changes carry no client_event_id.  (With one, two attempts at the
\* same update can both write the row while only the first records an event.)
EventsOf(e) == {v \in log : v.req.entry = e}
UnretriedConverges ==
  \A e \in Entries :
    (\A v \in EventsOf(e) : v.req.cid = NoId) =>
      \/ table[e] = None /\ EventsOf(e) = {}
      \/ \E v \in EventsOf(e) : /\ v.row = table[e]
                               /\ \A u \in EventsOf(e) : u.seq <= v.seq

\* Every request is answered: transactions wait for each other's row locks only
\* as long as those last.
EveryRequestAnswered ==
  \A w \in Writers : pc[w] \notin Answered ~> pc[w] \in Answered
=============================================================================
