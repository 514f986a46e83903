------------------------ MODULE KnowledgeEntriesProofs ------------------------
(***************************************************************************)
(* Proofs about KnowledgeEntries for any number of writers, entries and    *)
(* requests.  The invariant that carries them says what a transaction      *)
(* knows of the row it has written: it holds the row's lock and its draft  *)
(* is the successor of the stored row, or the stored row is a tombstone    *)
(* and the draft is that tombstone.  An entry changed without a            *)
(* client_event_id therefore has the row of its last event.                *)
(***************************************************************************)
EXTENDS KnowledgeEntries, TLAPS

\* A request under way is known, and a change has found its entry.
RequestOK ==
  \A w \in Writers :
    /\ pc[w] # "idle" => req[w] \in Request
    /\ pc[w] = "write" /\ req[w].op # "created" => table[req[w].entry] # None

\* A row lock belongs to the transaction that has written the row.
OwnerOK ==
  \A e \in Entries : owner[e] # None =>
    pc[owner[e]] \in InTx /\ req[owner[e]].entry = e

\* The draft is the successor of the stored row.
Succeeds(new, row) ==
  \/ row = None
  \/ row # None /\ row.status = "active" /\ new.version = row.version + 1

\* What a transaction knows of the row it has written or read back.
TxOK ==
  \A w \in Writers : pc[w] \in InTx =>
    /\ draft[w] \in Entry
    /\ \/ owner[req[w].entry] = w /\ Succeeds(draft[w], table[req[w].entry])
       \/ /\ table[req[w].entry] = draft[w]
          /\ draft[w].status = "deleted"
          /\ owner[req[w].entry] # w

\* Numbers of events are below the next one.
NumbersOK == \A v \in log : v.seq < next

IInv ==
  /\ TypeOK /\ RequestOK /\ OwnerOK /\ TxOK /\ NumbersOK
  /\ EventOrderIsVersionOrder

\* The three kinds of change of the stored row that a step may make.
RowStep ==
  \A e \in Entries : table[e] # None =>
    /\ table'[e] # None
    /\ table[e].status = "deleted" => table'[e] = table[e]
    /\ table'[e].version >= table[e].version
-----------------------------------------------------------------------------
LEMMA InitInd == Init => IInv
<1> SUFFICES ASSUME Init PROVE IInv
  OBVIOUS
<1>1. TypeOK
  BY NoneAssumption DEF Init, TypeOK, Answered, InTx
<1>2. RequestOK /\ OwnerOK /\ TxOK /\ NumbersOK /\ EventOrderIsVersionOrder
  BY DEF Init, RequestOK, OwnerOK, TxOK, NumbersOK, EventOrderIsVersionOrder, InTx
<1> QED BY <1>1, <1>2 DEF IInv

\* A step that leaves the stored rows and the log alone keeps what is said of them.
LEMMA LogFrame ==
  ASSUME IInv, UNCHANGED <<table, log, next>>
  PROVE  NumbersOK' /\ EventOrderIsVersionOrder' /\ RowStep
BY DEF IInv, NumbersOK, EventOrderIsVersionOrder, RowStep, TypeOK, Entry

LEMMA BeginInd ==
  ASSUME IInv, NEW w \in Writers, NEW r \in Request, Begin(w, r)
  PROVE  IInv' /\ RowStep
<1>1. TypeOK'
  BY DEF IInv, TypeOK, Begin, Goto
<1>2. RequestOK'
  BY DEF IInv, TypeOK, RequestOK, Begin, Goto
<1>3. OwnerOK'
  BY DEF IInv, TypeOK, OwnerOK, Begin, Goto, Answered, InTx
<1>4. TxOK'
  BY DEF IInv, TypeOK, TxOK, Begin, Goto, Answered, InTx
<1> QED BY <1>1, <1>2, <1>3, <1>4, LogFrame DEF IInv, Begin

\* An error undoes the transaction and leaves the others as they are.
LEMMA FailInd ==
  ASSUME IInv, NEW w \in Writers, Fail(w), UNCHANGED <<req, begun>>, pc[w] # "idle"
  PROVE  IInv' /\ RowStep
<1>1. TypeOK'
  BY DEF IInv, TypeOK, Fail, Goto, Release, Answered
<1>2. RequestOK'
  BY DEF IInv, TypeOK, RequestOK, Fail, Goto
<1>3. OwnerOK'
  BY DEF IInv, TypeOK, OwnerOK, Fail, Goto, Release, InTx
<1>4. TxOK'
  BY NoneAssumption DEF IInv, TypeOK, TxOK, RequestOK, Request, Fail, Goto, Release, InTx
<1> QED BY <1>1, <1>2, <1>3, <1>4, LogFrame DEF IInv, Fail

\* A request that only moves on, outside a transaction.
LEMMA MoveInd ==
  ASSUME IInv, NEW w \in Writers, NEW step \in {"write", "check", "ok"},
         Goto(w, step), pc[w] \in {"replay", "check"},
         step = "write" /\ req[w].op # "created" => table[req[w].entry] # None,
         UNCHANGED <<table, owner, log, next, draft, req, begun>>
  PROVE  IInv' /\ RowStep
<1>1. TypeOK'
  BY DEF IInv, TypeOK, Goto, Answered
<1>2. RequestOK'
  BY DEF IInv, TypeOK, RequestOK, Goto
<1>3. OwnerOK'
  BY DEF IInv, TypeOK, OwnerOK, Goto, InTx
<1>4. TxOK'
  BY DEF IInv, TypeOK, TxOK, Goto, InTx
<1> QED BY <1>1, <1>2, <1>3, <1>4, LogFrame DEF IInv

\* A transaction that writes a successor of the row takes its lock.
LEMMA WrittenInd ==
  ASSUME IInv, NEW w \in Writers, NEW row \in Entry, Written(w, row),
         pc[w] = "write", owner[req[w].entry] = None,
         Succeeds(row, table[req[w].entry]), UNCHANGED <<req, begun>>
  PROVE  IInv' /\ RowStep
<1>0. req[w] \in Request /\ req[w].entry \in Entries
  BY DEF IInv, RequestOK, Request
<1>1. TypeOK'
  BY <1>0 DEF IInv, TypeOK, Written, Goto, InTx
<1>2. RequestOK'
  BY DEF IInv, TypeOK, RequestOK, Written, Goto
<1>3. OwnerOK'
  BY <1>0, NoneAssumption DEF IInv, TypeOK, OwnerOK, Written, Goto, InTx
<1>4. TxOK'
  <2> SUFFICES ASSUME NEW x \in Writers, pc'[x] \in InTx
               PROVE  /\ draft'[x] \in Entry
                      /\ \/ /\ owner'[req[x].entry] = x
                            /\ Succeeds(draft'[x], table[req[x].entry])
                         \/ /\ table[req[x].entry] = draft'[x]
                            /\ draft'[x].status = "deleted"
                            /\ owner'[req[x].entry] # x
    BY DEF TxOK, Written, Succeeds
  <2>1. CASE x = w
    BY <1>0, <2>1 DEF IInv, TypeOK, Written
  <2>2. CASE x # w
    <3>1. pc[x] \in InTx /\ draft'[x] = draft[x]
      BY <2>2 DEF IInv, TypeOK, Written, Goto
    <3>2. req[x].entry \in Entries
      BY <3>1 DEF IInv, RequestOK, Request, InTx
    <3>3. owner[req[x].entry] = x <=> owner'[req[x].entry] = x
      BY <1>0, <2>2, <3>2, NoneAssumption DEF IInv, TypeOK, Written
    <3> QED BY <3>1, <3>3 DEF IInv, TxOK
  <2> QED BY <2>1, <2>2
<1> QED BY <1>1, <1>2, <1>3, <1>4, LogFrame DEF IInv, Written
-----------------------------------------------------------------------------
\* The commit: the row becomes the draft, and the event, if one is recorded, gets
\* a number above all others and a version no older than the stored one.
LEMMA CommitInd ==
  ASSUME IInv, NEW w \in Writers, pc[w] \in InTx, CommitRow(w),
         UNCHANGED <<req, begun>>,
         \/ UNCHANGED <<log, next>>
         \/ /\ log' = log \union {[req |-> req[w], seq |-> next, row |-> draft[w]]}
            /\ next' = next + 1
  PROVE  IInv' /\ RowStep
<1> DEFINE k == req[w].entry
<1>0. req[w] \in Request /\ k \in Entries /\ draft[w] \in Entry /\ draft[w] # None
  BY NoneAssumption DEF IInv, RequestOK, TxOK, Request, InTx
<1>a. \/ owner[k] = w /\ Succeeds(draft[w], table[k])
      \/ table[k] = draft[w] /\ draft[w].status = "deleted" /\ owner[k] # w
  BY DEF IInv, TxOK
<1>b. /\ table' = [table EXCEPT ![k] = draft[w]]
      /\ owner' = [e \in Entries |-> IF owner[e] = w THEN None ELSE owner[e]]
      /\ pc' = [pc EXCEPT ![w] = "ok"]
      /\ draft' = draft
  BY DEF CommitRow, Release, Goto
<1>1. TypeOK'
  <2>1. [req |-> req[w], seq |-> next, row |-> draft[w]] \in Event
    BY <1>0 DEF IInv, TypeOK, Event
  <2>2. log' \subseteq Event /\ next' \in Nat
    BY <2>1 DEF IInv, TypeOK
  <2> QED BY <1>0, <1>b, <2>2 DEF IInv, TypeOK, Answered
<1>2. RowStep
  <2> SUFFICES ASSUME NEW e \in Entries, table[e] # None
               PROVE  /\ table'[e] # None
                      /\ table[e].status = "deleted" => table'[e] = table[e]
                      /\ table'[e].version >= table[e].version
    BY DEF RowStep
  <2>1. table[e] \in Entry
    BY DEF IInv, TypeOK
  <2>2. CASE e = k
    BY <1>0, <1>a, <1>b, <2>1, <2>2 DEF IInv, TypeOK, Succeeds, Entry
  <2>3. CASE e # k
    BY <1>0, <1>b, <2>1, <2>3 DEF IInv, TypeOK, Entry
  <2> QED BY <2>2, <2>3
<1>3. RequestOK'
  <2> SUFFICES ASSUME NEW x \in Writers
               PROVE  /\ pc'[x] # "idle" => req[x] \in Request
                      /\ pc'[x] = "write" /\ req[x].op # "created" =>
                           table'[req[x].entry] # None
    BY DEF RequestOK
  <2>1. CASE x = w
    BY <1>0, <1>b, <2>1 DEF IInv, TypeOK
  <2>2. CASE x # w
    <3>1. pc'[x] = pc[x]
      BY <1>b, <2>2 DEF IInv, TypeOK
    <3>2. pc[x] # "idle" => req[x] \in Request /\ req[x].entry \in Entries
      BY DEF IInv, RequestOK, Request
    <3> QED BY <1>2, <3>1, <3>2 DEF IInv, RequestOK, RowStep
  <2> QED BY <2>1, <2>2
<1>4. OwnerOK'
  BY <1>b DEF IInv, TypeOK, OwnerOK
<1>5. TxOK'
  <2> SUFFICES ASSUME NEW x \in Writers, pc'[x] \in InTx
               PROVE  /\ draft[x] \in Entry
                      /\ \/ /\ owner'[req[x].entry] = x
                            /\ Succeeds(draft[x], table'[req[x].entry])
                         \/ /\ table'[req[x].entry] = draft[x]
                            /\ draft[x].status = "deleted"
                            /\ owner'[req[x].entry] # x
    BY <1>b DEF TxOK, Succeeds
  <2>1. x # w /\ pc[x] \in InTx
    BY <1>b DEF IInv, TypeOK, InTx
  <2>2. req[x].entry \in Entries
    BY <2>1 DEF IInv, RequestOK, Request, InTx
  <2>3. /\ draft[x] \in Entry
        /\ \/ owner[req[x].entry] = x /\ Succeeds(draft[x], table[req[x].entry])
           \/ /\ table[req[x].entry] = draft[x]
              /\ draft[x].status = "deleted"
              /\ owner[req[x].entry] # x
    BY <2>1 DEF IInv, TxOK
  <2>4. owner'[req[x].entry] = x <=> owner[req[x].entry] = x
    BY <1>b, <2>1, <2>2, NoneAssumption
  \* Only one of the two can hold the lock, and who does not has a tombstone.
  <2>5. table'[req[x].entry] = table[req[x].entry]
    <3>1. CASE req[x].entry # k
      BY <1>b, <2>2, <3>1 DEF IInv, TypeOK
    <3>2. CASE req[x].entry = k
      <4>1. table[k] = draft[w]
        <5>1. CASE owner[k] = w
          <6>1. draft[x] # None
            BY <2>3, NoneAssumption
          <6> QED BY <1>a, <2>1, <2>3, <3>2, <5>1, <6>1 DEF Succeeds
        <5>2. CASE owner[k] # w
          BY <1>a, <5>2
        <5> QED BY <5>1, <5>2
      <4> QED BY <1>0, <1>b, <3>2, <4>1 DEF IInv, TypeOK
    <3> QED BY <3>1, <3>2
  <2> QED BY <2>3, <2>4, <2>5
<1>6. NumbersOK'
  BY DEF IInv, TypeOK, NumbersOK, Event
<1>7. EventOrderIsVersionOrder'
  <2>1. ASSUME NEW v \in log, v.req.entry = k
        PROVE  v.row.version <= draft[w].version
    <3>1. /\ table[k] # None /\ table[k] \in Entry
          /\ v.row.version \in Nat /\ v.row.version <= table[k].version
      BY <1>0, <2>1 DEF IInv, TypeOK, EventOrderIsVersionOrder, Event, Entry
    <3> QED BY <1>0, <1>a, <3>1 DEF Succeeds, Entry
  <2>2. ASSUME NEW v \in log
        PROVE  /\ v.req.entry \in Entries /\ v.seq \in Nat /\ v.seq < next
               /\ table'[v.req.entry] # None
               /\ v.row.version <= table'[v.req.entry].version
    <3>1. /\ v.req.entry \in Entries /\ v.seq \in Nat /\ v.seq < next
          /\ table[v.req.entry] # None
          /\ v.row.version <= table[v.req.entry].version
      BY DEF IInv, TypeOK, EventOrderIsVersionOrder, NumbersOK, Event, Request
    <3>2. CASE v.req.entry = k
      BY <1>0, <1>b, <2>1, <3>1, <3>2 DEF IInv, TypeOK
    <3>3. CASE v.req.entry # k
      BY <1>0, <1>b, <3>1, <3>3 DEF IInv, TypeOK
    <3> QED BY <3>1, <3>2, <3>3
  <2> DEFINE new == [req |-> req[w], seq |-> next, row |-> draft[w]]
  <2>3. /\ table'[k] = draft[w] /\ draft[w].version \in Nat /\ next \in Nat
        /\ new.req.entry = k /\ new.seq = next /\ new.row = draft[w]
    BY <1>0, <1>b DEF IInv, TypeOK, Entry
  <2> SUFFICES ASSUME NEW u \in log', NEW v \in log', u.req.entry = v.req.entry
               PROVE  /\ u.seq <= v.seq => u.row.version <= v.row.version
                      /\ table'[u.req.entry] # None
                      /\ u.row.version <= table'[u.req.entry].version
    BY DEF EventOrderIsVersionOrder
  <2>4. u \in log \/ u = new
    OBVIOUS
  <2>5. v \in log \/ v = new
    OBVIOUS
  <2> HIDE DEF new, k
  <2>6. CASE u \in log /\ v \in log
    BY <2>2, <2>6 DEF IInv, EventOrderIsVersionOrder
  <2>7. CASE u \in log /\ v = new
    BY <2>1, <2>2, <2>3, <2>7
  <2>8. CASE u = new /\ v \in log
    BY <1>0, <2>2, <2>3, <2>8
  <2>9. CASE u = new /\ v = new
    BY <1>0, <2>3, <2>9
  <2> QED BY <2>4, <2>5, <2>6, <2>7, <2>8, <2>9
<1> QED BY <1>1, <1>2, <1>3, <1>4, <1>5, <1>6, <1>7 DEF IInv
-----------------------------------------------------------------------------
\* Every step of a request.
LEMMA StepInd ==
  ASSUME IInv, NEW w \in Writers, Step(w)
  PROVE  IInv' /\ RowStep
<1>1. CASE IdempotentReplay(w)
  BY <1>1, MoveInd, FailInd DEF IdempotentReplay
<1>2. CASE CheckEntry(w)
  BY <1>2, MoveInd, FailInd DEF CheckEntry
<1>3. CASE Create(w)
  <2>1. NewEntry(w) \in Entry
    BY <1>3 DEF IInv, RequestOK, Create, NewEntry, Entry, Request
  <2> QED BY <1>3, <2>1, WrittenInd, FailInd DEF Create, Succeeds
<1>4. CASE UpdateActive(w)
  <2> DEFINE row == table[req[w].entry]
             new == [status |-> "active", version |-> row.version + 1,
                     by |-> req[w].src]
  <2>1. /\ req[w] \in Request /\ req[w].entry \in Entries /\ req[w].src \in Devices
        /\ row # None /\ row \in Entry
    BY <1>4 DEF IInv, RequestOK, TypeOK, UpdateActive, Request
  <2>2. CASE row.status = "active" /\ Written(w, new)
    <3>1. new \in Entry /\ new.version = row.version + 1
      BY <2>1 DEF Entry
    <3> QED BY <1>4, <2>1, <2>2, <3>1, WrittenInd DEF UpdateActive, Succeeds
  <2>3. CASE /\ row.status # "active"
             /\ draft' = [draft EXCEPT ![w] = row]
             /\ Goto(w, "lookup")
             /\ UNCHANGED <<table, owner, log, next>>
    <3>1. TypeOK'
      BY <1>4, <2>1, <2>3 DEF IInv, TypeOK, UpdateActive, Goto, InTx
    <3>2. RequestOK'
      BY <1>4, <2>1, <2>3 DEF IInv, TypeOK, RequestOK, UpdateActive, Goto
    <3>3. OwnerOK'
      BY <1>4, <2>3 DEF IInv, TypeOK, OwnerOK, UpdateActive, Goto, InTx
    <3>4. TxOK'
      <4>1. row.status = "deleted" /\ owner[req[w].entry] # w
        BY <1>4, <2>1, <2>3, NoneAssumption DEF UpdateActive, Entry
      <4> QED BY <1>4, <2>1, <2>3, <4>1 DEF IInv, TypeOK, TxOK, UpdateActive, Goto,
              Succeeds
    <3> QED BY <2>3, <3>1, <3>2, <3>3, <3>4, LogFrame DEF IInv
  <2> QED BY <1>4, <2>2, <2>3 DEF UpdateActive
<1>5. CASE Tombstone(w)
  <2> DEFINE row == table[req[w].entry]
             new == [status |-> "deleted", version |-> row.version + 1,
                     by |-> req[w].src]
  <2>1. /\ req[w] \in Request /\ req[w].src \in Devices
        /\ row # None /\ row \in Entry /\ pc[w] # "idle"
    BY <1>5 DEF IInv, RequestOK, TypeOK, Tombstone, Request
  <2>2. new \in Entry /\ new.version = row.version + 1
    BY <2>1 DEF Entry
  <2>3. CASE row.status = "active" /\ Written(w, new)
    BY <1>5, <2>1, <2>2, <2>3, WrittenInd DEF Tombstone, Succeeds
  <2>4. CASE row.status # "active" /\ Fail(w)
    BY <1>5, <2>1, <2>4, FailInd DEF Tombstone
  <2> QED BY <1>5, <2>3, <2>4 DEF Tombstone
<1>6. CASE TxLookup(w)
  <2>1. pc[w] \in InTx /\ pc[w] # "idle" /\ UNCHANGED <<req, begun>>
    BY <1>6 DEF TxLookup, InTx
  <2>2. CASE /\ Goto(w, "record")
             /\ UNCHANGED <<table, owner, log, next, draft>>
    <3>1. TypeOK' /\ RequestOK'
      BY <2>1, <2>2 DEF IInv, TypeOK, RequestOK, Goto, InTx
    <3>2. OwnerOK' /\ TxOK'
      BY <2>1, <2>2 DEF IInv, TypeOK, OwnerOK, TxOK, Goto, InTx, Succeeds
    <3> QED BY <2>2, <3>1, <3>2, LogFrame DEF IInv
  <2>3. CASE CommitRow(w) /\ UNCHANGED <<log, next>>
    BY <2>1, <2>3, CommitInd
  <2>4. CASE Fail(w)
    BY <2>1, <2>4, FailInd
  <2> QED BY <1>6, <2>2, <2>3, <2>4 DEF TxLookup
<1>7. CASE RecordEvent(w)
  BY <1>7, CommitInd, FailInd DEF RecordEvent, InTx
<1> QED BY <1>1, <1>2, <1>3, <1>4, <1>5, <1>6, <1>7 DEF Step

LEMMA NextInd ==
  ASSUME IInv, [Next]_vars
  PROVE  IInv' /\ [RowStep]_table
<1>1. CASE UNCHANGED vars
  BY <1>1 DEF vars, IInv, TypeOK, RequestOK, OwnerOK, TxOK, Succeeds, NumbersOK,
     EventOrderIsVersionOrder
<1>2. ASSUME NEW w \in Writers, Abort(w) PROVE IInv' /\ RowStep
  BY <1>2, FailInd DEF Abort, Answered
<1> QED BY <1>1, <1>2, BeginInd, StepInd DEF Next

\* The invariant holds of every behaviour.
THEOREM SpecInd == Spec => []IInv
<1>1. IInv /\ [Next]_vars => IInv'
  BY NextInd
<1> QED BY <1>1, InitInd, PTL DEF Spec

\* Type correctness: drafts, rows and events are well formed, versions start at 1.
THEOREM TypeCorrect == Spec => []TypeOK
<1>1. IInv => TypeOK
  BY DEF IInv
<1> QED BY <1>1, SpecInd, PTL

\* The events of an entry carry its versions in the order of their numbers.
THEOREM VersionsInOrder == Spec => []EventOrderIsVersionOrder
<1>1. IInv => EventOrderIsVersionOrder
  BY DEF IInv
<1> QED BY <1>1, SpecInd, PTL

\* No request changes or revives a deleted entry, and no version is lost.
THEOREM TombstonesStay == Spec => TombstoneIsFinal
<1>1. IInv /\ [Next]_vars => [RowStep]_table
  BY NextInd
<1> QED BY <1>1, SpecInd, PTL DEF Spec, TombstoneIsFinal, RowStep
-----------------------------------------------------------------------------
(* Convergence. *)

\* What UnretriedConverges says of one entry.
Converges(e) ==
  (\A v \in EventsOf(e) : v.req.cid = NoId) =>
    \/ table[e] = None /\ EventsOf(e) = {}
    \/ \E v \in EventsOf(e) : v.row = table[e] /\ \A u \in EventsOf(e) : u.seq <= v.seq

LEMMA ConvergesFrame ==
  ASSUME NEW e, Converges(e), UNCHANGED log, table'[e] = table[e]
  PROVE  Converges(e)'
BY DEF Converges, EventsOf

\* The recorded event is the last one, and carries the row that is committed with it.
LEMMA RecordConverges ==
  ASSUME IInv, UnretriedConverges, NEW w \in Writers, pc[w] = "record", CommitRow(w),
         log' = log \union {[req |-> req[w], seq |-> next, row |-> draft[w]]}
  PROVE  UnretriedConverges'
<1> DEFINE k == req[w].entry
           new == [req |-> req[w], seq |-> next, row |-> draft[w]]
<1>1. /\ k \in Entries /\ table' = [table EXCEPT ![k] = draft[w]]
      /\ table \in [Entries -> Entry \union {None}] /\ next \in Nat
  BY DEF IInv, RequestOK, Request, TypeOK, CommitRow
<1>2. new.req.entry = k /\ new.seq = next /\ new.row = draft[w] /\ new \in log'
  OBVIOUS
<1>3. \A v \in log : v.seq \in Nat /\ v.seq < next
  BY DEF IInv, TypeOK, NumbersOK, Event
<1>4. log' = log \union {new}
  OBVIOUS
<1> HIDE DEF new, k
<1>5. ASSUME NEW e \in Entries PROVE Converges(e)'
  <2>1. CASE e = k
    <3>1. new \in EventsOf(e)' /\ new.row = table'[e]
      BY <1>1, <1>2, <2>1 DEF EventsOf
    <3>2. \A u \in EventsOf(e)' : u.seq <= new.seq
      BY <1>1, <1>2, <1>3, <1>4 DEF EventsOf
    <3> QED BY <3>1, <3>2 DEF Converges
  <2>2. CASE e # k
    <3>1. EventsOf(e)' = EventsOf(e) /\ table'[e] = table[e]
      BY <1>1, <1>2, <1>4, <2>2 DEF EventsOf
    <3>2. Converges(e)
      BY DEF UnretriedConverges, Converges
    <3> QED BY <3>1, <3>2 DEF Converges
  <2> QED BY <2>1, <2>2
<1> QED BY <1>5 DEF UnretriedConverges, Converges

\* A transaction that finds its event recorded commits its row without another one; the
\* event it has found carries a client_event_id.
LEMMA HitConverges ==
  ASSUME IInv, UnretriedConverges, NEW w \in Writers, pc[w] = "lookup", CommitRow(w),
         UNCHANGED log, NEW found \in GetEventByClientEventID(req[w].cid),
         SameChange(found, req[w])
  PROVE  UnretriedConverges'
<1> DEFINE k == req[w].entry
<1>1. /\ k \in Entries /\ table' = [table EXCEPT ![k] = draft[w]]
      /\ table \in [Entries -> Entry \union {None}]
  BY DEF IInv, RequestOK, Request, TypeOK, CommitRow
<1>2. found \in log' /\ found.req.entry = k /\ found.req.cid # NoId
  BY DEF GetEventByClientEventID, SameChange
<1>3. ASSUME NEW e \in Entries PROVE Converges(e)'
  <2>1. CASE e = k
    BY <1>2, <2>1 DEF Converges, EventsOf
  <2>2. CASE e # k
    <3>1. table'[e] = table[e]
      BY <1>1, <2>2
    <3>2. Converges(e)
      BY DEF UnretriedConverges, Converges
    <3> QED BY <3>1, <3>2, ConvergesFrame
  <2> QED BY <2>1, <2>2
<1> QED BY <1>3 DEF UnretriedConverges, Converges

\* A device that applies all events of an entry whose changes carry no client_event_id has
\* the stored row, for any number of overlapping updates and deletions.
THEOREM EventsConverge == Spec => []UnretriedConverges
<1>1. Init => UnretriedConverges
  BY DEF Init, UnretriedConverges, EventsOf
<1>2. IInv /\ UnretriedConverges /\ [Next]_vars => UnretriedConverges'
  <2> SUFFICES ASSUME IInv, UnretriedConverges, [Next]_vars PROVE UnretriedConverges'
    OBVIOUS
  <2>1. CASE UNCHANGED <<table, log>>
    BY <2>1 DEF UnretriedConverges, EventsOf
  <2>2. ASSUME NEW w \in Writers, TxLookup(w) PROVE UnretriedConverges'
    <3>1. CASE UNCHANGED <<table, log>>
      BY <2>1, <3>1
    <3>2. ASSUME NEW v \in GetEventByClientEventID(req[w].cid),
                 SameChange(v, req[w]), CommitRow(w), UNCHANGED log
          PROVE  UnretriedConverges'
      BY <2>2, <3>2, HitConverges DEF TxLookup
    <3> QED BY <2>2, <3>1, <3>2 DEF TxLookup, Fail
  <2>3. ASSUME NEW w \in Writers, RecordEvent(w) PROVE UnretriedConverges'
    <3>1. CASE UNCHANGED <<table, log>>
      BY <2>1, <3>1
    <3>2. CASE /\ CommitRow(w)
               /\ log' = log \union {[req |-> req[w], seq |-> next, row |-> draft[w]]}
      BY <2>3, <3>2, RecordConverges DEF RecordEvent
    <3> QED BY <2>3, <3>1, <3>2 DEF RecordEvent, Fail
  <2> QED BY <2>1, <2>2, <2>3 DEF Next, vars, Begin, Step, Abort, IdempotentReplay, CheckEntry,
          Create, UpdateActive, Tombstone, Written, Fail
<1> QED BY <1>1, <1>2, SpecInd, PTL DEF Spec
=============================================================================
