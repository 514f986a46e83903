---------------------------- MODULE SyncLogProofs ----------------------------
(***************************************************************************)
(* What SyncLog guarantees for every number of writers, devices, objects,  *)
(* client event ids, limits and days: first what one pull returns, then    *)
(* what holds for any mix of writers, then for a log that only             *)
(* transactions write, and last what a device relies on.                   *)
(***************************************************************************)
EXTENDS SyncLog, TLAPS, FiniteSetTheorems, WellFoundedInduction
-----------------------------------------------------------------------------
(* What one pull returns, for every log, position and limit. *)

\* A nonempty set of natural numbers has a least element.
LEMMA LeastNatural ==
  ASSUME NEW T \in SUBSET Nat, T # {}
  PROVE  \E m \in T : \A n \in T : m <= n
<1>1. \E m \in T : \A n \in T : ~ (<<n, m>> \in OpToRel(<, Nat))
  BY NatLessThanWellFounded, WFMin
<1>2. PICK m \in T : \A n \in T : ~ (<<n, m>> \in OpToRel(<, Nat))
  BY <1>1
<1>3. \A n \in T : ~ (n < m)
  BY <1>2 DEF OpToRel
<1> QED BY <1>3

\* A page whose numbers are bounded has a last one (LastSequence).
LEMMA LastSequenceIsMax ==
  ASSUME NEW page, page # {}, NEW bound \in Nat,
         \A e \in page : e.seq \in Nat /\ e.seq <= bound
  PROVE  /\ LastSequence(page) \in {e.seq : e \in page}
         /\ \A e \in page : e.seq <= LastSequence(page)
<1> DEFINE U == {n \in Nat : \A e \in page : e.seq <= n}
<1>1. U \in SUBSET Nat /\ bound \in U
  OBVIOUS
<1>2. PICK m \in U : \A n \in U : m <= n
  BY <1>1, LeastNatural
<1>3. \E e \in page : e.seq = m
  <2> SUFFICES ASSUME \A e \in page : e.seq # m PROVE FALSE
    OBVIOUS
  <2>1. \A e \in page : e.seq < m
    BY <1>2
  <2>2. m - 1 \in U
    BY <2>1, <1>2
  <2> QED BY <2>2, <1>2
<1>4. \E s \in {e.seq : e \in page} : \A e \in page : e.seq <= s
  BY <1>2, <1>3
<1> QED BY <1>4 DEF LastSequence

\* The clamp of a limit is a positive limit no larger than the maximum.
LEMMA NormalizedLimit ==
  ASSUME NEW limit \in Int
  PROVE  normalizeSyncLimit(limit) \in 1 .. MaxLimit
BY LimitAssumption DEF normalizeSyncLimit

\* GetEventsSince returns a prefix of what lies after the position.
LEMMA QueryIsPrefix ==
  ASSUME NEW log, IsFiniteSet(log), \A e \in log : e.seq \in Nat,
         NEW since \in Nat, NEW limit \in Nat,
         NEW e \in GetEventsSince(log, since, limit),
         NEW f \in log, since < f.seq, f.seq <= e.seq
  PROVE  f \in GetEventsSince(log, since, limit)
<1> DEFINE Below(x) == {g \in log : since < g.seq /\ g.seq < x.seq}
<1>1. e \in log /\ Cardinality(Below(e)) < limit
  BY DEF GetEventsSince
<1>2. IsFiniteSet(Below(e)) /\ Cardinality(Below(e)) \in Nat
  BY FS_Subset, FS_CardinalityType
<1>3. Below(f) \in SUBSET Below(e)
  BY <1>1
<1>4. IsFiniteSet(Below(f)) /\ Cardinality(Below(f)) \in Nat
  BY <1>2, <1>3, FS_Subset, FS_CardinalityType
<1>5. Cardinality(Below(f)) <= Cardinality(Below(e))
  BY <1>2, <1>3, FS_Subset
<1>6. Cardinality(Below(f)) < limit
  BY <1>1, <1>2, <1>4, <1>5
<1> QED BY <1>6 DEF GetEventsSince

\* A pull returns a prefix of the events after the position, and
\* next_after_sequence is the last number of a nonempty page
\* (SyncHandler.GetEvents).
THEOREM PullReplyIsPrefix ==
  ASSUME NEW log, IsFiniteSet(log),
         NEW bound \in Nat, \A e \in log : e.seq \in Nat /\ e.seq <= bound,
         NEW after \in Nat, NEW given, NEW requested \in Int
  PROVE  LET r == PullReply(log, after, given, requested)
         IN  /\ r.events \subseteq {e \in log : e.seq > after}
             /\ \A e \in r.events : \A f \in log :
                  after < f.seq /\ f.seq <= e.seq => f \in r.events
             /\ r.events = {} => r.next = given
             /\ r.events # {} => /\ r.next \in {e.seq : e \in r.events}
                                 /\ \A e \in r.events : e.seq <= r.next
<1> DEFINE limit == normalizeSyncLimit(requested)
           n     == normalizeSyncLimit(limit + 1)
           got   == GetEventsAfter(log, after, limit + 1)
           page  == IF Cardinality(got) > limit
                      THEN GetEventsSince(got, after, limit) ELSE got
           r     == PullReply(log, after, given, requested)
<1>1. limit \in Nat /\ n \in Nat
  BY NormalizedLimit, LimitAssumption
<1>2. got = GetEventsSince(log, after, n)
  BY DEF GetEventsAfter
<1>3. /\ got \subseteq {e \in log : e.seq > after}
      /\ \A e \in got : \A f \in log :
           after < f.seq /\ f.seq <= e.seq => f \in got
  <2> HIDE DEF n, limit
  <2>1. got \subseteq {e \in log : e.seq > after}
    BY <1>2 DEF GetEventsSince
  <2>2. ASSUME NEW e \in got, NEW f \in log, after < f.seq, f.seq <= e.seq
        PROVE  f \in got
    BY <1>1, <1>2, <2>2, QueryIsPrefix
  <2> QED BY <2>1, <2>2
<1>4. IsFiniteSet(got) /\ \A e \in got : e.seq \in Nat
  BY <1>3, FS_Subset
<1>5. /\ page \subseteq {e \in log : e.seq > after}
      /\ \A e \in page : \A f \in log :
           after < f.seq /\ f.seq <= e.seq => f \in page
  <2>1. CASE ~ (Cardinality(got) > limit)
    BY <2>1, <1>3
  <2>2. CASE Cardinality(got) > limit
    <3> HIDE DEF got, limit
    <3>1. page = GetEventsSince(got, after, limit)
      BY <2>2
    <3>2. page \subseteq got
      BY <3>1 DEF GetEventsSince
    <3>3. ASSUME NEW e \in page, NEW f \in log, after < f.seq, f.seq <= e.seq
          PROVE  f \in page
      <4>1. f \in got
        BY <3>2, <3>3, <1>3
      <4> QED BY <3>1, <3>3, <4>1, <1>1, <1>4, QueryIsPrefix
    <3> QED BY <3>2, <3>3, <1>3
  <2> QED BY <2>1, <2>2
<1>6. r.events = page /\ r.next = IF page = {} THEN given ELSE LastSequence(page)
  BY DEF PullReply
<1>7. page # {} => /\ LastSequence(page) \in {e.seq : e \in page}
                   /\ \A e \in page : e.seq <= LastSequence(page)
  <2> HIDE DEF page
  <2> QED BY <1>5, LastSequenceIsMax
<1> HIDE DEF page, r
<1> QED BY <1>5, <1>6, <1>7 DEF r

\* In a set of events with distinct numbers the last one has all others below it.
LEMMA LastIsBeyond ==
  ASSUME NEW got, IsFiniteSet(got), NEW after \in Nat, NEW limit \in Nat,
         NEW bound \in Nat,
         \A e \in got : e.seq \in Nat /\ e.seq <= bound /\ after < e.seq,
         \A e, f \in got : e.seq = f.seq => e = f,
         Cardinality(got) > limit
  PROVE  \E m \in got : m \notin GetEventsSince(got, after, limit)
<1>1. got # {}
  BY FS_EmptySet
<1>2. PICK m \in got : \A e \in got : e.seq <= m.seq
  <2>1. \A e \in got : e.seq \in Nat /\ e.seq <= bound
    OBVIOUS
  <2>2. /\ LastSequence(got) \in {e.seq : e \in got}
        /\ \A e \in got : e.seq <= LastSequence(got)
    BY <1>1, <2>1, LastSequenceIsMax
  <2> QED BY <2>2
<1>3. {g \in got : after < g.seq /\ g.seq < m.seq} = got \ {m}
  BY <1>2
<1>4. Cardinality(got \ {m}) = Cardinality(got) - 1 /\ Cardinality(got) \in Nat
  BY FS_RemoveElement, FS_CardinalityType
<1>5. ~ (Cardinality(got \ {m}) < limit)
  BY <1>4
<1> QED BY <1>3, <1>5 DEF GetEventsSince

\* When an event after the position is missing from a query, the query is full.
LEMMA MissingMeansFull ==
  ASSUME NEW log, IsFiniteSet(log), \A e \in log : e.seq \in Nat,
         NEW after \in Nat, NEW limit \in Nat,
         NEW x \in log, x.seq > after, x \notin GetEventsSince(log, after, limit)
  PROVE  Cardinality(GetEventsSince(log, after, limit)) >= limit
<1> DEFINE got      == GetEventsSince(log, after, limit)
           Below(e) == {g \in log : after < g.seq /\ g.seq < e.seq}
           Out      == {e \in log : e.seq > after /\ e \notin got}
           T        == {e.seq : e \in Out}
<1>1. T \in SUBSET Nat /\ T # {}
  OBVIOUS
<1>2. PICK n \in T : \A k \in T : n <= k
  BY <1>1, LeastNatural
<1>3. PICK f \in Out : f.seq = n
  BY <1>2
<1>4. Below(f) \subseteq got
  <2> SUFFICES ASSUME NEW g \in Below(f), g \notin got PROVE FALSE
    OBVIOUS
  <2>1. g.seq \in T /\ g.seq < n /\ n \in Nat /\ g.seq \in Nat
    BY <1>1, <1>3
  <2> QED BY <1>2, <2>1
<1>5. ~ (Cardinality(Below(f)) < limit)
  BY <1>3 DEF GetEventsSince
<1>6. got \subseteq log
  BY DEF GetEventsSince
<1> HIDE DEF got
<1>7. IsFiniteSet(got) /\ Cardinality(got) \in Nat
  BY <1>6, FS_Subset, FS_CardinalityType
<1>8. Cardinality(Below(f)) <= Cardinality(got) /\ Cardinality(Below(f)) \in Nat
  BY <1>4, <1>7, FS_Subset, FS_CardinalityType
<1> QED BY <1>5, <1>7, <1>8 DEF got

\* has_more tells exactly whether the page leaves something out, as long as the
\* look-ahead row fits under the service's own maximum (SyncHandler.GetEvents).
THEOREM HasMoreTellsTheTruth ==
  ASSUME NEW log, IsFiniteSet(log),
         NEW bound \in Nat, \A e \in log : e.seq \in Nat /\ e.seq <= bound,
         \A e, f \in log : e.seq = f.seq => e = f,
         NEW after \in Nat, NEW given, NEW requested \in Int,
         normalizeSyncLimit(requested) < MaxLimit
  PROVE  LET r == PullReply(log, after, given, requested)
         IN  r.hasMore <=> \E e \in log : e.seq > after /\ e \notin r.events
<1> DEFINE limit == normalizeSyncLimit(requested)
           got   == GetEventsAfter(log, after, limit + 1)
           page  == IF Cardinality(got) > limit
                      THEN GetEventsSince(got, after, limit) ELSE got
           r     == PullReply(log, after, given, requested)
<1>1. limit \in Nat /\ normalizeSyncLimit(limit + 1) = limit + 1
  BY NormalizedLimit, LimitAssumption DEF normalizeSyncLimit
<1>2. got = GetEventsSince(log, after, limit + 1)
  BY <1>1 DEF GetEventsAfter
<1>3. r.events = page /\ r.hasMore = (Cardinality(got) > limit)
  BY DEF PullReply
<1> HIDE DEF limit
<1>4. got \subseteq log /\ \A e \in got : after < e.seq
  BY <1>2 DEF GetEventsSince
<1> HIDE DEF got
<1>5. IsFiniteSet(got) /\ Cardinality(got) \in Nat
  BY <1>4, FS_Subset, FS_CardinalityType
<1>6. CASE Cardinality(got) > limit
  <2>1. \E m \in got : m \notin GetEventsSince(got, after, limit)
    BY <1>1, <1>4, <1>5, <1>6, LastIsBeyond
  <2> QED BY <1>3, <1>4, <1>6, <2>1
<1>7. CASE ~ (Cardinality(got) > limit)
  <2>1. ASSUME NEW x \in log, x.seq > after, x \notin got PROVE FALSE
    <3>1. Cardinality(got) >= limit + 1
      BY <1>1, <1>2, <2>1, MissingMeansFull
    <3> QED BY <1>1, <1>5, <1>7, <3>1
  <2> QED BY <1>3, <1>7, <2>1
<1> QED BY <1>6, <1>7
-----------------------------------------------------------------------------
(* Any mix of writers. *)

\* The steps a request of each kind goes through.
PhaseOK ==
  /\ \A w \in AutoWriters :
       pc[w] \in Answered \union {"lookup", "reserve", "insert", "notify"}
  /\ \A w \in TxWriters : pc[w] \in Answered \union InTx \union {"replay", "notify"}

\* The row lock belongs to the one transaction between reservation and commit.
LockOK ==
  \A w \in TxWriters : pc[w] \in {"txinsert", "commit"} <=> lock = w

\* Every committed event is numbered below the counter; the counter itself is
\* what the holder of the lock has reserved.
NumbersOK ==
  /\ nextSeq >= 1
  /\ IsFiniteSet(events)
  /\ events \subseteq committed
  /\ \A e \in committed : 1 <= e.seq /\ e.seq < nextSeq
  /\ \A w \in TxWriters : pc[w] \in {"txinsert", "commit"} => rsv[w] = nextSeq
  /\ \A w \in AutoWriters : pc[w] = "insert" => 1 <= rsv[w] /\ rsv[w] < nextSeq

\* Numbers reserved outside a transaction are held by one request each.
ReservedOK ==
  \A w \in AutoWriters : pc[w] = "insert" =>
    /\ \A e \in committed : e.seq # rsv[w]
    /\ \A v \in AutoWriters \ {w} : pc[v] = "insert" => rsv[v] # rsv[w]

\* r is the change that envelope e describes.
Records(r, e) == r.cid = e.cid /\ r.obj = e.obj /\ r.src = e.src

\* The envelope is there while the request runs, and the event it returns is
\* committed and is the change the envelope asks for.
ReplyOK ==
  /\ \A w \in Writers : pc[w] \notin {"idle", "err"} => env[w] \in Envelope
  /\ \A w \in TxWriters :
       pc[w] = "commit" =>
         row[w] \in Row /\ row[w].seq = rsv[w] /\ Records(row[w], env[w])
  /\ \A w \in Writers :
       pc[w] \in {"notify", "ok"} => row[w] \in committed /\ Records(row[w], env[w])

\* No device is ahead of the log, and no cursor ahead of its device.
PositionOK ==
  \A d \in Devices :
    /\ high[d] < nextSeq
    /\ cursor[d] <= high[d]
    /\ \A k \in AckSlots : ack[d][k] <= high[d]

IndInv ==
  TypeOK /\ PhaseOK /\ LockOK /\ NumbersOK /\ ReservedOK /\ ReplyOK /\ PositionOK
         /\ PushedIsDurable

\* With transactional writers only: events are visible in the order of their
\* numbers and of their timestamps.
DayOrder ==
  /\ \A e \in events : e.day <= day
  /\ \A e, f \in events : e.seq <= f.seq => e.day <= f.day
  /\ \A w \in TxWriters : pc[w] = "commit" =>
       row[w].day <= day /\ \A e \in events : e.day <= row[w].day

TxInv == NoSkippedEvent /\ GapFree /\ DayOrder

USE DEF Writers, Answered, InTx, Goto, Miss, tables, request, client

\* A new request holds nothing yet.
LEMMA BeginInd ==
  ASSUME IndInv, NEW w \in Writers, NEW e \in Envelope, Begin(w, e)
  PROVE  IndInv'
<1>1. TypeOK'
  BY DEF IndInv, TypeOK, Steps, Begin
<1>2. PhaseOK' /\ LockOK'
  BY WriterAssumption DEF IndInv, TypeOK, PhaseOK, LockOK, Begin
<1>3. NumbersOK'
  BY WriterAssumption DEF IndInv, TypeOK, PhaseOK, NumbersOK, Begin
<1>4. ReservedOK'
  BY WriterAssumption DEF IndInv, TypeOK, PhaseOK, ReservedOK, NumbersOK,
     Begin
<1>5. ReplyOK'
  BY WriterAssumption DEF IndInv, TypeOK, PhaseOK, ReplyOK, Records, Begin
<1>6. PositionOK' /\ PushedIsDurable'
  BY DEF IndInv, PositionOK, PushedIsDurable, Begin
<1> QED BY <1>1, <1>2, <1>3, <1>4, <1>5, <1>6 DEF IndInv

\* The lookup answers with a committed event or goes on.
LEMMA LookupInd ==
  ASSUME IndInv, NEW w \in AutoWriters, Lookup(w)
  PROVE  IndInv'
<1>1. TypeOK'
  <2>1. GetEventByClientEventID(env[w].cid) \subseteq Row
    BY DEF IndInv, TypeOK, GetEventByClientEventID
  <2>2. pc' \in [Writers -> Steps] /\ env' \in [Writers -> Envelope \union {None}]
    BY DEF IndInv, TypeOK, Steps, Lookup, LookupThen, Fail
  <2>3. rsv' \in [Writers -> Nat] /\ row' \in [Writers -> Row \union {None}]
    <3>1. rsv \in [Writers -> Nat] /\ row \in [Writers -> Row \union {None}]
      BY DEF IndInv, TypeOK
    <3> QED BY <2>1, <3>1 DEF Lookup, LookupThen, Fail
  <2> QED BY <2>2, <2>3 DEF IndInv, TypeOK, Lookup
<1>2. PhaseOK' /\ LockOK'
  BY WriterAssumption DEF IndInv, TypeOK, PhaseOK, LockOK, Lookup, LookupThen,
     Fail
<1>3. NumbersOK'
  BY WriterAssumption DEF IndInv, TypeOK, PhaseOK, NumbersOK, Lookup,
     LookupThen, Fail
<1>4. ReservedOK'
  BY WriterAssumption DEF IndInv, TypeOK, PhaseOK, ReservedOK, NumbersOK,
     Lookup, LookupThen, Fail
<1>5. ReplyOK'
  <2>1. \A x \in GetEventByClientEventID(env[w].cid) :
          validateIdempotentReplay(x, env[w]) => x \in committed /\ Records(x, env[w])
    BY DEF IndInv, NumbersOK, GetEventByClientEventID, validateIdempotentReplay,
       Records
  <2>2. env[w] \in Envelope
    BY DEF IndInv, ReplyOK, Lookup
  <2> QED BY <2>1, <2>2 DEF IndInv, TypeOK, PhaseOK, ReplyOK, Lookup, LookupThen, Fail
<1>6. PositionOK' /\ PushedIsDurable'
  BY DEF IndInv, PositionOK, PushedIsDurable, Lookup, LookupThen, Fail
<1> QED BY <1>1, <1>2, <1>3, <1>4, <1>5, <1>6 DEF IndInv

\* So does the lookup before a transaction ...
LEMMA IdempotentReplayInd ==
  ASSUME IndInv, NEW w \in TxWriters, IdempotentReplay(w)
  PROVE  IndInv'
<1>1. TypeOK'
  <2>1. GetEventByClientEventID(env[w].cid) \subseteq Row
    BY DEF IndInv, TypeOK, GetEventByClientEventID
  <2>2. pc' \in [Writers -> Steps] /\ env' \in [Writers -> Envelope \union {None}]
    BY DEF IndInv, TypeOK, Steps, IdempotentReplay, LookupThen, Fail
  <2>3. rsv' \in [Writers -> Nat] /\ row' \in [Writers -> Row \union {None}]
    <3>1. rsv \in [Writers -> Nat] /\ row \in [Writers -> Row \union {None}]
      BY DEF IndInv, TypeOK
    <3> QED BY <2>1, <3>1 DEF IdempotentReplay, LookupThen, Fail
  <2> QED BY <2>2, <2>3 DEF IndInv, TypeOK, IdempotentReplay
<1>2. PhaseOK' /\ LockOK'
  BY WriterAssumption DEF IndInv, TypeOK, PhaseOK, LockOK, IdempotentReplay,
     LookupThen, Fail
<1>3. NumbersOK'
  BY WriterAssumption DEF IndInv, TypeOK, PhaseOK, NumbersOK,
     IdempotentReplay, LookupThen, Fail
<1>4. ReservedOK'
  BY WriterAssumption DEF IndInv, TypeOK, PhaseOK, ReservedOK, NumbersOK,
     IdempotentReplay, LookupThen, Fail
<1>5. ReplyOK'
  <2>1. \A x \in GetEventByClientEventID(env[w].cid) :
          validateIdempotentReplay(x, env[w]) => x \in committed /\ Records(x, env[w])
    BY DEF IndInv, NumbersOK, GetEventByClientEventID, validateIdempotentReplay,
       Records
  <2>2. env[w] \in Envelope
    BY DEF IndInv, ReplyOK, IdempotentReplay
  <2> QED BY <2>1, <2>2 DEF IndInv, TypeOK, PhaseOK, ReplyOK, IdempotentReplay,
         LookupThen, Fail
<1>6. PositionOK' /\ PushedIsDurable'
  BY DEF IndInv, PositionOK, PushedIsDurable, IdempotentReplay, LookupThen,
     Fail
<1> QED BY <1>1, <1>2, <1>3, <1>4, <1>5, <1>6 DEF IndInv

\* ... and the one inside it.
LEMMA TxLookupInd ==
  ASSUME IndInv, NEW w \in TxWriters, TxLookup(w)
  PROVE  IndInv'
<1>1. TypeOK'
  <2>1. GetEventByClientEventID(env[w].cid) \subseteq Row
    BY DEF IndInv, TypeOK, GetEventByClientEventID
  <2>2. pc' \in [Writers -> Steps] /\ env' \in [Writers -> Envelope \union {None}]
    BY DEF IndInv, TypeOK, Steps, TxLookup, LookupThen, Fail
  <2>3. rsv' \in [Writers -> Nat] /\ row' \in [Writers -> Row \union {None}]
    <3>1. rsv \in [Writers -> Nat] /\ row \in [Writers -> Row \union {None}]
      BY DEF IndInv, TypeOK
    <3> QED BY <2>1, <3>1 DEF TxLookup, LookupThen, Fail
  <2> QED BY <2>2, <2>3 DEF IndInv, TypeOK, TxLookup
<1>2. PhaseOK' /\ LockOK'
  BY WriterAssumption DEF IndInv, TypeOK, PhaseOK, LockOK, TxLookup,
     LookupThen, Fail
<1>3. NumbersOK'
  BY WriterAssumption DEF IndInv, TypeOK, PhaseOK, NumbersOK, TxLookup,
     LookupThen, Fail
<1>4. ReservedOK'
  BY WriterAssumption DEF IndInv, TypeOK, PhaseOK, ReservedOK, NumbersOK,
     TxLookup, LookupThen, Fail
<1>5. ReplyOK'
  <2>1. \A x \in GetEventByClientEventID(env[w].cid) :
          validateIdempotentReplay(x, env[w]) => x \in committed /\ Records(x, env[w])
    BY DEF IndInv, NumbersOK, GetEventByClientEventID, validateIdempotentReplay,
       Records
  <2>2. env[w] \in Envelope
    BY DEF IndInv, ReplyOK, TxLookup
  <2> QED BY <2>1, <2>2 DEF IndInv, TypeOK, PhaseOK, ReplyOK, TxLookup, LookupThen,
         Fail
<1>6. PositionOK' /\ PushedIsDurable'
  BY DEF IndInv, PositionOK, PushedIsDurable, TxLookup, LookupThen, Fail
<1> QED BY <1>1, <1>2, <1>3, <1>4, <1>5, <1>6 DEF IndInv

\* A number reserved outside a transaction is below the counter from then on;
\* that no transaction holds the lock keeps LockOK and NumbersOK together.
LEMMA GetNextSequenceInd ==
  ASSUME IndInv, NEW w \in AutoWriters, GetNextSequence(w)
  PROVE  IndInv'
<1>1. TypeOK'
  BY DEF IndInv, TypeOK, Steps, GetNextSequence
<1>2. PhaseOK' /\ LockOK'
  BY WriterAssumption DEF IndInv, TypeOK, PhaseOK, LockOK, GetNextSequence
<1>3. NumbersOK'
  <2>1. \A x \in committed : x.seq \in Nat
    BY DEF IndInv, TypeOK, Row
  <2>2. \A v \in TxWriters : pc'[v] \notin {"txinsert", "commit"}
    BY WriterAssumption DEF IndInv, TypeOK, LockOK, GetNextSequence
  <2> QED BY <2>1, <2>2 DEF IndInv, TypeOK, NumbersOK, GetNextSequence
<1>4. ReservedOK'
  BY WriterAssumption DEF IndInv, TypeOK, PhaseOK, ReservedOK, NumbersOK,
     GetNextSequence
<1>5. ReplyOK'
  BY WriterAssumption DEF IndInv, TypeOK, PhaseOK, ReplyOK, Records,
     GetNextSequence
<1>6. PositionOK'
  BY DEF IndInv, TypeOK, PositionOK, GetNextSequence
<1>7. PushedIsDurable'
  BY DEF IndInv, PushedIsDurable, GetNextSequence
<1> QED BY <1>1, <1>2, <1>3, <1>4, <1>5, <1>6, <1>7 DEF IndInv

\* A transaction takes the lock together with the number the counter shows.
LEMMA TxGetNextSequenceInd ==
  ASSUME IndInv, NEW w \in TxWriters, TxGetNextSequence(w)
  PROVE  IndInv'
<1>1. TypeOK'
  BY DEF IndInv, TypeOK, Steps, TxGetNextSequence
<1>2. PhaseOK' /\ LockOK'
  BY WriterAssumption DEF IndInv, TypeOK, PhaseOK, LockOK, TxGetNextSequence
<1>3. NumbersOK'
  BY WriterAssumption DEF IndInv, TypeOK, PhaseOK, NumbersOK,
     TxGetNextSequence
<1>4. ReservedOK'
  BY WriterAssumption DEF IndInv, TypeOK, PhaseOK, ReservedOK, NumbersOK,
     TxGetNextSequence
<1>5. ReplyOK'
  BY WriterAssumption DEF IndInv, TypeOK, PhaseOK, ReplyOK, Records,
     TxGetNextSequence
<1>6. PositionOK' /\ PushedIsDurable'
  BY DEF IndInv, PositionOK, PushedIsDurable, TxGetNextSequence
<1> QED BY <1>1, <1>2, <1>3, <1>4, <1>5, <1>6 DEF IndInv

\* The insert makes a number visible that was reserved for this request alone.
LEMMA CreateEventInd ==
  ASSUME IndInv, NEW w \in AutoWriters, CreateEvent(w)
  PROVE  IndInv'
<1>1. TypeOK'
  <2>1. env[w] \in Envelope
    BY DEF IndInv, ReplyOK, CreateEvent
  <2>2. NewEvent(w) \in Row
    BY <2>1 DEF NewEvent, Row, Envelope, IndInv, TypeOK
  <2>3. pc' \in [Writers -> Steps] /\ env' \in [Writers -> Envelope \union {None}]
    BY DEF IndInv, TypeOK, Steps, CreateEvent, Fail
  <2>4. rsv' \in [Writers -> Nat] /\ row' \in [Writers -> Row \union {None}]
    <3>1. \/ rsv' = [rsv EXCEPT ![w] = 0] /\ row' = [row EXCEPT ![w] = None]
          \/ rsv' = rsv /\ row' = [row EXCEPT ![w] = NewEvent(w)]
      BY DEF CreateEvent, Fail
    <3>2. rsv \in [Writers -> Nat] /\ row \in [Writers -> Row \union {None}]
      BY DEF IndInv, TypeOK
    <3> QED BY <3>1, <3>2, <2>2
  <2>5. events' \subseteq Row /\ committed' \subseteq Row
    BY <2>2 DEF IndInv, TypeOK, CreateEvent, Fail
  <2> QED BY <2>3, <2>4, <2>5 DEF IndInv, TypeOK, CreateEvent
<1>2. PhaseOK' /\ LockOK'
  BY WriterAssumption DEF IndInv, TypeOK, PhaseOK, LockOK, CreateEvent, Fail
<1>3. NumbersOK'
  <2>1. NewEvent(w).seq = rsv[w]
    BY DEF NewEvent
  <2>2. IsFiniteSet(events')
    BY FS_AddElement DEF IndInv, NumbersOK, CreateEvent
  <2> QED BY <2>1, <2>2 DEF IndInv, TypeOK, PhaseOK, NumbersOK, CreateEvent, Fail
<1>4. ReservedOK'
  <2>1. NewEvent(w).seq = rsv[w]
    BY DEF NewEvent
  <2>2. /\ pc \in [Writers -> Steps] /\ rsv \in [Writers -> Nat]
        /\ PhaseOK /\ ReservedOK
    BY DEF IndInv, TypeOK
  <2> QED BY <2>1, <2>2 DEF PhaseOK, ReservedOK, CreateEvent, Fail
<1>5. ReplyOK'
  <2>1. env[w] \in Envelope
    BY DEF IndInv, ReplyOK, CreateEvent
  <2>2. NewEvent(w) \in Row /\ NewEvent(w).seq = rsv[w] /\ Records(NewEvent(w), env[w])
    BY <2>1 DEF NewEvent, Row, Envelope, Records, IndInv, TypeOK
  <2> QED BY <2>1, <2>2, WriterAssumption DEF IndInv, TypeOK, PhaseOK, ReplyOK,
         CreateEvent, Fail
<1>6. PushedIsDurable'
  BY DEF IndInv, TypeOK, PushedIsDurable, ReplyOK, Records, CreateEvent, Fail
<1>7. PositionOK'
  BY DEF IndInv, PositionOK, CreateEvent
<1> QED BY <1>1, <1>2, <1>3, <1>4, <1>5, <1>6, <1>7 DEF IndInv

\* The insert inside a transaction changes nothing that others see.
LEMMA TxCreateEventInd ==
  ASSUME IndInv, NEW w \in TxWriters, TxCreateEvent(w)
  PROVE  IndInv'
<1>1. TypeOK'
  <2>1. env[w] \in Envelope
    BY DEF IndInv, ReplyOK, TxCreateEvent
  <2>2. NewEvent(w) \in Row
    BY <2>1 DEF NewEvent, Row, Envelope, IndInv, TypeOK
  <2>3. pc' \in [Writers -> Steps] /\ env' \in [Writers -> Envelope \union {None}]
    BY DEF IndInv, TypeOK, Steps, TxCreateEvent, Fail
  <2>4. rsv' \in [Writers -> Nat] /\ row' \in [Writers -> Row \union {None}]
    <3>1. rsv \in [Writers -> Nat] /\ row \in [Writers -> Row \union {None}]
      BY DEF IndInv, TypeOK
    <3> QED BY <2>2, <3>1 DEF TxCreateEvent, Fail
  <2>5. lock' \in TxWriters \union {None}
    BY DEF IndInv, TypeOK, TxCreateEvent, Unlock
  <2> QED BY <2>3, <2>4, <2>5 DEF IndInv, TypeOK, TxCreateEvent
<1>2. PhaseOK' /\ LockOK'
  BY WriterAssumption DEF IndInv, TypeOK, PhaseOK, LockOK, TxCreateEvent,
     Fail, Unlock
<1>3. NumbersOK'
  BY WriterAssumption DEF IndInv, TypeOK, PhaseOK, NumbersOK, TxCreateEvent,
     Fail, Unlock
<1>4. ReservedOK'
  BY WriterAssumption DEF IndInv, TypeOK, PhaseOK, ReservedOK, NumbersOK,
     TxCreateEvent, Fail, Unlock
<1>5. ReplyOK'
  <2>1. env[w] \in Envelope
    BY DEF IndInv, ReplyOK, TxCreateEvent
  <2>2. NewEvent(w) \in Row /\ NewEvent(w).seq = rsv[w] /\ Records(NewEvent(w), env[w])
    BY <2>1 DEF NewEvent, Row, Envelope, Records, IndInv, TypeOK
  <2> QED BY <2>1, <2>2, WriterAssumption DEF IndInv, TypeOK, PhaseOK, ReplyOK,
         TxCreateEvent, Fail
<1>6. PositionOK' /\ PushedIsDurable'
  BY DEF IndInv, PositionOK, PushedIsDurable, TxCreateEvent
<1> QED BY <1>1, <1>2, <1>3, <1>4, <1>5, <1>6 DEF IndInv

\* The commit moves the counter past the number it makes visible.
LEMMA CommitInd ==
  ASSUME IndInv, NEW w \in TxWriters, Commit(w)
  PROVE  IndInv'
<1>1. TypeOK'
  BY DEF IndInv, TypeOK, ReplyOK, Steps, Commit, Unlock
<1>2. PhaseOK' /\ LockOK'
  BY WriterAssumption DEF IndInv, TypeOK, PhaseOK, LockOK, Commit, Unlock
<1>3. NumbersOK'
  <2>1. row[w].seq = nextSeq /\ rsv[w] = nextSeq
    BY DEF IndInv, NumbersOK, ReplyOK, Commit
  <2>2. IsFiniteSet(events')
    BY FS_AddElement DEF IndInv, NumbersOK, Commit
  <2>3. \A x \in committed : x.seq \in Nat
    BY DEF IndInv, TypeOK, Row
  <2>4. \A v \in TxWriters : pc'[v] \notin {"txinsert", "commit"}
    BY WriterAssumption DEF IndInv, TypeOK, LockOK, Commit
  <2> QED BY <2>1, <2>2, <2>3, <2>4, WriterAssumption DEF IndInv, TypeOK, NumbersOK,
         Commit
<1>4. ReservedOK'
  <2>1. row[w].seq = nextSeq
    BY DEF IndInv, NumbersOK, ReplyOK, Commit
  <2> QED BY <2>1, WriterAssumption DEF IndInv, TypeOK, NumbersOK, ReservedOK, Commit
<1>5. ReplyOK'
  BY WriterAssumption DEF IndInv, TypeOK, PhaseOK, ReplyOK, Records, Commit,
     Unlock
<1>6. PositionOK'
  BY DEF IndInv, TypeOK, NumbersOK, PositionOK, Commit
<1>7. PushedIsDurable'
  BY DEF IndInv, TypeOK, PushedIsDurable, ReplyOK, Records, Commit, Unlock
<1> QED BY <1>1, <1>2, <1>3, <1>4, <1>5, <1>6, <1>7 DEF IndInv

\* Only committed events are pushed, and not to their source.
LEMMA notifyDevicesInd ==
  ASSUME IndInv, NEW w \in Writers, notifyDevices(w)
  PROVE  IndInv'
<1>1. TypeOK'
  <2>1. row[w] \in Row
    BY DEF IndInv, TypeOK, ReplyOK, notifyDevices
  <2> QED BY <2>1 DEF IndInv, TypeOK, Steps, notifyDevices
<1>2. PhaseOK' /\ LockOK'
  BY WriterAssumption DEF IndInv, TypeOK, PhaseOK, LockOK, notifyDevices
<1>3. NumbersOK'
  BY WriterAssumption DEF IndInv, TypeOK, PhaseOK, NumbersOK, notifyDevices
<1>4. ReservedOK'
  BY WriterAssumption DEF IndInv, TypeOK, PhaseOK, ReservedOK, NumbersOK,
     notifyDevices
<1>5. ReplyOK'
  BY WriterAssumption DEF IndInv, TypeOK, PhaseOK, ReplyOK, Records,
     notifyDevices
<1>6. PushedIsDurable'
  BY DEF IndInv, TypeOK, PushedIsDurable, ReplyOK, Records, notifyDevices
<1>7. PositionOK'
  BY DEF IndInv, PositionOK, notifyDevices
<1> QED BY <1>1, <1>2, <1>3, <1>4, <1>5, <1>6, <1>7 DEF IndInv

\* A request that fails gives up the lock and leaves what is committed.
LEMMA AbortInd ==
  ASSUME IndInv, NEW w \in Writers, Abort(w)
  PROVE  IndInv'
<1>1. TypeOK'
  BY DEF IndInv, TypeOK, Steps, Abort, Unlock, Fail
<1>2. PhaseOK' /\ LockOK'
  BY WriterAssumption DEF IndInv, TypeOK, PhaseOK, LockOK, Abort, Unlock, Fail
<1>3. NumbersOK'
  BY WriterAssumption DEF IndInv, TypeOK, PhaseOK, NumbersOK, Abort, Unlock,
     Fail
<1>4. ReservedOK'
  BY WriterAssumption DEF IndInv, TypeOK, PhaseOK, ReservedOK, NumbersOK,
     Abort, Unlock, Fail
<1>5. ReplyOK'
  BY WriterAssumption DEF IndInv, TypeOK, PhaseOK, ReplyOK, Records, Abort,
     Unlock, Fail
<1>6. PositionOK' /\ PushedIsDurable'
  BY DEF IndInv, PositionOK, PushedIsDurable, Abort
<1> QED BY <1>1, <1>2, <1>3, <1>4, <1>5, <1>6 DEF IndInv

\* Acknowledgements carry positions the device has reached, or the stored cursor ...
LEMMA AckEventsInd ==
  ASSUME IndInv, NEW d \in Devices, NEW k \in AckSlots, AckEvents(d, k)
  PROVE  IndInv'
<1>1. PICK n \in 1 .. high[d] : ack' = [ack EXCEPT ![d][k] = LoadCursor(d, n)]
  BY DEF AckEvents
<1>2. LoadCursor(d, n) \in Nat /\ LoadCursor(d, n) <= high[d]
  BY DEF IndInv, TypeOK, PositionOK, LoadCursor, Larger
<1>3. TypeOK'
  BY <1>1, <1>2 DEF IndInv, TypeOK, Steps, AckEvents
<1>4. PositionOK'
  BY <1>1, <1>2 DEF IndInv, TypeOK, PositionOK, AckEvents
<1>5. PhaseOK' /\ LockOK' /\ NumbersOK' /\ ReservedOK' /\ ReplyOK' /\
       PushedIsDurable'
  BY DEF IndInv, PhaseOK, LockOK, NumbersOK, ReservedOK, ReplyOK,
     PushedIsDurable, AckEvents
<1> QED BY <1>3, <1>4, <1>5 DEF IndInv

\* ... and become the cursor.
LEMMA SaveCursorInd ==
  ASSUME IndInv, NEW d \in Devices, NEW k \in AckSlots, SaveCursor(d, k)
  PROVE  IndInv'
<1>1. TypeOK'
  BY DEF IndInv, TypeOK, Steps, SaveCursor, Settle
<1>2. PositionOK'
  BY DEF IndInv, TypeOK, PositionOK, SaveCursor
<1>3. PhaseOK' /\ LockOK' /\ NumbersOK' /\ ReservedOK' /\ ReplyOK' /\
       PushedIsDurable'
  BY DEF IndInv, PhaseOK, LockOK, NumbersOK, ReservedOK, ReplyOK,
     PushedIsDurable, SaveCursor
<1> QED BY <1>1, <1>2, <1>3 DEF IndInv

\* A lost acknowledgement changes nothing else.
LEMMA LoseAckInd ==
  ASSUME IndInv, NEW d \in Devices, NEW k \in AckSlots, LoseAck(d, k)
  PROVE  IndInv'
<1>1. TypeOK'
  BY DEF IndInv, TypeOK, Steps, LoseAck, Settle
<1>2. PositionOK'
  BY DEF IndInv, TypeOK, PositionOK, LoseAck
<1>3. PhaseOK' /\ LockOK' /\ NumbersOK' /\ ReservedOK' /\ ReplyOK' /\
       PushedIsDurable'
  BY DEF IndInv, PhaseOK, LockOK, NumbersOK, ReservedOK, ReplyOK,
     PushedIsDurable, LoseAck
<1> QED BY <1>1, <1>2, <1>3 DEF IndInv

\* The clock is independent of the rest.
LEMMA TickInd ==
  ASSUME IndInv, Tick
  PROVE  IndInv'
<1>1. TypeOK'
  BY DEF IndInv, TypeOK, Steps, Tick
<1>2. PhaseOK' /\ LockOK' /\ NumbersOK' /\ ReservedOK' /\ ReplyOK' /\
       PositionOK' /\ PushedIsDurable'
  BY DEF IndInv, PhaseOK, LockOK, NumbersOK, ReservedOK, ReplyOK, PositionOK,
     PushedIsDurable, Tick
<1> QED BY <1>1, <1>2 DEF IndInv

\* Retention removes events only.
LEMMA CleanupOldEventsInd ==
  ASSUME IndInv, CleanupOldEvents
  PROVE  IndInv'
<1>1. TypeOK'
  BY DEF IndInv, TypeOK, Steps, CleanupOldEvents
<1>2. NumbersOK'
  BY WriterAssumption, FS_Subset DEF IndInv, TypeOK, PhaseOK,
     LockOK, Steps, NumbersOK, CleanupOldEvents
<1>3. PhaseOK' /\ LockOK' /\ ReservedOK' /\ ReplyOK' /\ PositionOK' /\
       PushedIsDurable'
  BY DEF IndInv, PhaseOK, LockOK, ReservedOK, ReplyOK, PositionOK,
     PushedIsDurable, CleanupOldEvents
<1> QED BY <1>1, <1>2, <1>3 DEF IndInv

\* What a device gets from a pull, in terms of the log.
LEMMA ReplyFacts ==
  ASSUME IndInv, NEW after \in Nat, NEW given \in Nat, NEW limit \in Limits
  PROVE  LET r == PullReply(events, after, given, limit)
         IN  /\ r.events \subseteq {e \in events : e.seq > after}
             /\ \A e \in r.events : \A f \in events :
                  after < f.seq /\ f.seq <= e.seq => f \in r.events
             /\ r.events = {} => r.next = given
             /\ r.events # {} => /\ r.next \in {e.seq : e \in r.events}
                                 /\ \A e \in r.events : e.seq <= r.next
             /\ r.next \in Nat
             /\ r.next = given \/ r.next < nextSeq
<1> DEFINE r == PullReply(events, after, given, limit)
<1>1. IsFiniteSet(events) /\ nextSeq \in Nat
  BY DEF IndInv, TypeOK, NumbersOK
<1>2. \A e \in events : e.seq \in Nat /\ e.seq <= nextSeq /\ e.seq < nextSeq
  BY DEF IndInv, TypeOK, NumbersOK, Row
<1>3. limit \in Int
  BY SyncAssumption
<1>4. /\ r.events \subseteq {e \in events : e.seq > after}
      /\ \A e \in r.events : \A f \in events :
           after < f.seq /\ f.seq <= e.seq => f \in r.events
      /\ r.events = {} => r.next = given
      /\ r.events # {} => /\ r.next \in {e.seq : e \in r.events}
                          /\ \A e \in r.events : e.seq <= r.next
  BY <1>1, <1>2, <1>3, PullReplyIsPrefix
<1>5. r.next \in Nat /\ (r.next = given \/ r.next < nextSeq)
  BY <1>2, <1>4
<1> QED BY <1>4, <1>5

\* A pull, in either mode, moves a device no further than the numbers that are
\* committed (SyncHandler.GetEvents and what the host makes of its reply).
LEMMA ProjectInd ==
  ASSUME IndInv, NEW d \in Devices, NEW limit \in Limits,
         NEW after \in Nat, NEW given \in Nat, given <= high[d],
         Project(d, PullReply(events, after, given, limit))
  PROVE  IndInv'
<1> DEFINE r == PullReply(events, after, given, limit)
<1>1. /\ r.events \subseteq events
      /\ r.next \in Nat
      /\ r.next = given \/ r.next < nextSeq
  BY ReplyFacts
<1>2. {e.seq : e \in r.events} \subseteq Nat
  BY <1>1 DEF IndInv, TypeOK, Row
<1> HIDE DEF r
<1>3. /\ seen' = [seen EXCEPT ![d] = @ \union {e.seq : e \in r.events}]
      /\ high' = [high EXCEPT ![d] = Larger(@, r.next)]
      /\ UNCHANGED <<tables, cursor, settled, request, ack, pushed, day>>
  BY DEF Project, r
<1>4. Larger(high[d], r.next) \in Nat /\ high[d] <= Larger(high[d], r.next)
      /\ Larger(high[d], r.next) < nextSeq
  BY <1>1 DEF IndInv, TypeOK, PositionOK, Larger
<1>5. TypeOK'
  BY <1>2, <1>3, <1>4 DEF IndInv, TypeOK
<1>6. PositionOK'
  BY <1>3, <1>4 DEF IndInv, TypeOK, PositionOK
<1>7. PhaseOK' /\ LockOK' /\ NumbersOK' /\ ReservedOK' /\ ReplyOK' /\ PushedIsDurable'
  BY <1>3 DEF IndInv, PhaseOK, LockOK, NumbersOK, ReservedOK, ReplyOK, PushedIsDurable
<1> QED BY <1>5, <1>6, <1>7 DEF IndInv

\* An empty log with no request under way satisfies the invariant.
LEMMA InitInd == Init => IndInv
<1> SUFFICES ASSUME Init PROVE IndInv
  OBVIOUS
<1>1. TypeOK
  BY DEF Init, TypeOK, Steps
<1>2. PhaseOK /\ LockOK /\ ReservedOK /\ ReplyOK /\ PositionOK /\ PushedIsDurable
  BY WriterAssumption DEF Init, PhaseOK, LockOK, ReservedOK, ReplyOK,
     PositionOK, PushedIsDurable
<1>3. NumbersOK
  BY FS_EmptySet DEF Init, NumbersOK
<1> QED BY <1>1, <1>2, <1>3 DEF IndInv

\* Every step of a request, a device, the clock or the retention job keeps it.
LEMMA NextInd == IndInv /\ [Next]_vars => IndInv'
<1> SUFFICES ASSUME IndInv, [Next]_vars PROVE IndInv'
  OBVIOUS
<1>1. CASE UNCHANGED vars
  BY <1>1 DEF IndInv, TypeOK, PhaseOK, LockOK, NumbersOK, ReservedOK, ReplyOK,
              PositionOK, PushedIsDurable, vars
<1>2. ASSUME NEW w \in Writers, NEW e \in Envelope, Begin(w, e) PROVE IndInv'
  BY <1>2, BeginInd
<1>3. ASSUME NEW w \in AutoWriters, AutoStep(w) PROVE IndInv'
  BY <1>3, LookupInd, GetNextSequenceInd, CreateEventInd DEF AutoStep
<1>4. ASSUME NEW w \in TxWriters, TxStep(w) PROVE IndInv'
  BY <1>4, IdempotentReplayInd, TxLookupInd, TxGetNextSequenceInd, TxCreateEventInd,
     CommitInd DEF TxStep
<1>5. ASSUME NEW w \in Writers, notifyDevices(w) \/ Abort(w) PROVE IndInv'
  BY <1>5, notifyDevicesInd, AbortInd
<1>6. ASSUME NEW d \in Devices, NEW limit \in Limits,
             PullAfter(d, limit) \/ PullFromCursor(d, limit)
      PROVE  IndInv'
  <2>1. high[d] \in Nat /\ cursor[d] \in Nat /\ 0 <= high[d] /\ cursor[d] <= high[d]
    BY DEF IndInv, TypeOK, PositionOK
  <2> QED BY <1>6, <2>1, ProjectInd DEF PullAfter, PullFromCursor
<1>7. ASSUME NEW d \in Devices, NEW k \in AckSlots,
             AckEvents(d, k) \/ SaveCursor(d, k) \/ LoseAck(d, k)
      PROVE  IndInv'
  BY <1>7, AckEventsInd, SaveCursorInd, LoseAckInd
<1>8. CASE Tick
  BY <1>8, TickInd
<1>9. CASE CleanupOldEvents
  BY <1>9, CleanupOldEventsInd
<1> QED BY <1>1, <1>2, <1>3, <1>4, <1>5, <1>6, <1>7, <1>8, <1>9 DEF Next

\* The inductive invariant holds in every state of the sync log, whatever mix of
\* transactional and statement-by-statement requests writes it.
THEOREM SpecInd == Spec => []IndInv
BY InitInd, NextInd, PTL DEF Spec

\* The tables, the requests and the devices keep their types.
THEOREM TypeCorrect == Spec => []TypeOK
<1>1. IndInv => TypeOK
  BY DEF IndInv
<1> QED BY <1>1, SpecInd, PTL

\* A request that RecordEnvelope or a knowledge change answers has its event in
\* the log.
THEOREM Durable == Spec => []ReplyRecorded
<1>1. IndInv => ReplyRecorded
  BY DEF IndInv, ReplyOK, Records, ReplyRecorded
<1> QED BY <1>1, SpecInd, PTL

\* notifyDevices pushes committed events only, and none to the device that it came
\* from: a transaction that rolls back has told nobody.
THEOREM PushesDurable == Spec => []PushedIsDurable
<1>1. IndInv => PushedIsDurable
  BY DEF IndInv
<1> QED BY <1>1, SpecInd, PTL

\* GetNextSequence never hands out a number that an event already carries or that
\* another request still holds, so CreateEvent cannot fail on (user_id, sequence).
THEOREM Fresh == Spec => []ReservedIsFresh
<1>1. ASSUME IndInv, NEW w \in Writers, pc[w] \in {"insert", "txinsert"}
      PROVE  /\ ~ SequenceTaken(w)
             /\ \A v \in Writers \ {w} :
                  pc[v] \in {"insert", "txinsert", "commit"} => rsv[v] # rsv[w]
  <2>1. \A e \in events : e \in committed /\ e.seq \in Nat /\ e.seq < nextSeq
    BY <1>1 DEF IndInv, TypeOK, NumbersOK, Row
  <2>2. nextSeq \in Nat /\ \A v \in Writers : rsv[v] \in Nat
    BY <1>1 DEF IndInv, TypeOK
  <2>3. CASE w \in AutoWriters
    <3>1. pc[w] = "insert" /\ rsv[w] < nextSeq
      BY <1>1, <2>3 DEF IndInv, PhaseOK, NumbersOK
    <3> QED BY <1>1, <2>1, <2>2, <2>3, <3>1
            DEF IndInv, PhaseOK, NumbersOK, ReservedOK, SequenceTaken
  <2>4. CASE w \in TxWriters
    <3>1. pc[w] = "txinsert" /\ rsv[w] = nextSeq /\ lock = w
      BY <1>1, <2>4 DEF IndInv, PhaseOK, LockOK, NumbersOK
    <3>2. \A v \in TxWriters \ {w} : pc[v] \notin {"insert", "txinsert", "commit"}
      BY <1>1, <3>1 DEF IndInv, PhaseOK, LockOK
    <3>3. \A v \in AutoWriters :
            pc[v] \in {"insert", "txinsert", "commit"} => rsv[v] < nextSeq
      BY <1>1, WriterAssumption DEF IndInv, PhaseOK, NumbersOK
    <3> QED BY <2>1, <2>2, <3>1, <3>2, <3>3 DEF SequenceTaken
  <2> QED BY <2>3, <2>4
<1>2. IndInv => ReservedIsFresh
  BY <1>1 DEF ReservedIsFresh
<1> QED BY <1>2, SpecInd, PTL
-----------------------------------------------------------------------------
(* A log that only transactions write. *)

\* The step that makes an event visible, and no other, adds to the log; what it
\* adds is numbered by the counter and stamped last.
LEMMA CommitAdds ==
  ASSUME IndInv, TxInv, NEW w \in TxWriters, Commit(w)
  PROVE  /\ row[w] \in Row /\ row[w].seq = nextSeq /\ nextSeq' = nextSeq + 1
         /\ events' = events \union {row[w]}
         /\ committed' = committed \union {row[w]}
         /\ UNCHANGED <<seen, high, day>>
         /\ \A e \in events : e.seq < nextSeq /\ e.day <= row[w].day
         /\ row[w].day <= day
BY DEF IndInv, TxInv, NumbersOK, ReplyOK, DayOrder, Commit, client

\* A commit keeps events visible in the order of their numbers.
LEMMA TxCommitInv ==
  ASSUME IndInv, TxInv, NEW w \in TxWriters, Commit(w)
  PROVE  TxInv'
<1>1. /\ row[w] \in Row /\ row[w].seq = nextSeq /\ nextSeq' = nextSeq + 1
      /\ events' = events \union {row[w]}
      /\ committed' = committed \union {row[w]}
      /\ UNCHANGED <<seen, high, day>>
      /\ \A e \in events : e.seq < nextSeq /\ e.day <= row[w].day
      /\ row[w].day <= day
  BY CommitAdds
<1>2. \A e \in events : e.seq \in Nat /\ e.day \in Nat
  BY DEF IndInv, TypeOK, Row
<1>3. row[w].day \in Nat /\ nextSeq \in Nat \ {0} /\ day \in Nat
  BY <1>1 DEF IndInv, TypeOK, NumbersOK, Row
<1>4. NoSkippedEvent'
  BY <1>1, <1>3 DEF IndInv, TypeOK, PositionOK, TxInv, NoSkippedEvent
<1>5. GapFree'
  <2>1. {e.seq : e \in committed'} = {e.seq : e \in committed} \union {nextSeq}
    BY <1>1
  <2>2. 1 .. (nextSeq' - 1) = (1 .. (nextSeq - 1)) \union {nextSeq}
    BY <1>1, <1>3
  <2> QED BY <2>1, <2>2 DEF TxInv, GapFree
<1>6. DayOrder'
  <2>1. \A v \in TxWriters : pc'[v] # "commit"
    BY WriterAssumption DEF IndInv, TypeOK, LockOK, Commit
  <2>2. \A e, f \in events' : e.seq <= f.seq => e.day <= f.day
    BY <1>1, <1>2, <1>3 DEF TxInv, DayOrder
  <2> QED BY <1>1, <2>1, <2>2 DEF TxInv, DayOrder
<1> QED BY <1>4, <1>5, <1>6 DEF TxInv

\* A device that projects a page has then projected everything up to the last
\* number of the page.
LEMMA TxProjectInv ==
  ASSUME IndInv, TxInv, NEW d \in Devices, NEW limit \in Limits,
         NEW after \in Nat, after <= high[d], NEW given \in Nat, given <= high[d],
         Project(d, PullReply(events, after, given, limit))
  PROVE  TxInv'
<1> DEFINE r == PullReply(events, after, given, limit)
<1>1. /\ r.events \subseteq {e \in events : e.seq > after}
      /\ \A e \in r.events : \A f \in events :
           after < f.seq /\ f.seq <= e.seq => f \in r.events
      /\ r.events = {} => r.next = given
      /\ r.events # {} => r.next \in {e.seq : e \in r.events}
      /\ r.next \in Nat
  BY ReplyFacts
<1> HIDE DEF r
<1>2. /\ seen' = [seen EXCEPT ![d] = @ \union {e.seq : e \in r.events}]
      /\ high' = [high EXCEPT ![d] = Larger(@, r.next)]
      /\ UNCHANGED <<tables, cursor, settled, request, ack, pushed, day>>
  BY DEF Project, r
<1>3. \A e \in events : e.seq \in Nat
  BY DEF IndInv, TypeOK, Row
<1>4. ASSUME NEW f \in events, f.seq <= Larger(high[d], r.next)
      PROVE  f.seq \in seen[d] \union {e.seq : e \in r.events}
  <2>1. CASE f.seq <= high[d]
    BY <2>1 DEF TxInv, NoSkippedEvent
  <2>2. CASE f.seq > high[d]
    <3>1. f.seq <= r.next /\ r.next # given /\ after < f.seq
      BY <1>1, <1>3, <1>4, <2>2 DEF Larger, IndInv, TypeOK
    <3>2. PICK e \in r.events : e.seq = r.next
      BY <1>1, <3>1
    <3> QED BY <1>1, <3>1, <3>2
  <2> QED BY <1>3, <2>1, <2>2 DEF IndInv, TypeOK
<1>5. NoSkippedEvent'
  BY <1>2, <1>4 DEF NoSkippedEvent, TxInv, IndInv, TypeOK, tables
<1>6. GapFree' /\ DayOrder'
  BY <1>2 DEF TxInv, GapFree, DayOrder
<1> QED BY <1>5, <1>6 DEF TxInv

\* A step that leaves the log, the counter, the devices and the clock alone, and
\* brings no transaction to its commit.
LEMMA TxFrame ==
  ASSUME IndInv, TxInv, UNCHANGED <<nextSeq, events, committed, client, day>>,
         \A w \in TxWriters : pc'[w] = "commit" => pc[w] = "commit" /\ row'[w] = row[w]
  PROVE  TxInv'
BY DEF TxInv, NoSkippedEvent, GapFree, DayOrder

\* Every step of a log that only transactions write keeps TxInv.
LEMMA TxNextInv ==
  ASSUME AutoWriters = {}, IndInv, TxInv, [Next]_vars
  PROVE  TxInv'
<1>1. CASE UNCHANGED vars
  BY <1>1, TxFrame DEF vars, tables, client
<1>2. ASSUME NEW w \in Writers, NEW e \in Envelope, Begin(w, e) PROVE TxInv'
  BY <1>2, TxFrame DEF Begin, IndInv, TypeOK
<1>3. ASSUME NEW w \in TxWriters, IdempotentReplay(w) \/ TxLookup(w) PROVE TxInv'
  BY <1>3, TxFrame DEF IdempotentReplay, TxLookup, LookupThen, Fail, IndInv, TypeOK
<1>4. ASSUME NEW w \in TxWriters, TxGetNextSequence(w) PROVE TxInv'
  BY <1>4, TxFrame DEF TxGetNextSequence, IndInv, TypeOK
<1>5. ASSUME NEW w \in TxWriters, TxCreateEvent(w) PROVE TxInv'
  <2>1. NewEvent(w).day = day
    BY DEF NewEvent
  <2>2. day \in Nat
    BY DEF IndInv, TypeOK
  <2>3. UNCHANGED <<nextSeq, events, committed, seen, high, day>>
    BY <1>5 DEF TxCreateEvent
  <2>4. \A v \in TxWriters : pc'[v] = "commit" =>
          row'[v] = NewEvent(w) \/ (pc[v] = "commit" /\ row'[v] = row[v])
    BY <1>5 DEF TxCreateEvent, Fail, IndInv, TypeOK
  <2>5. DayOrder'
    BY <2>1, <2>2, <2>3, <2>4 DEF TxInv, DayOrder
  <2> QED BY <2>3, <2>5 DEF TxInv, NoSkippedEvent, GapFree
<1>6. ASSUME NEW w \in TxWriters, Commit(w) PROVE TxInv'
  BY <1>6, TxCommitInv
<1>7. ASSUME NEW w \in Writers, notifyDevices(w) \/ Abort(w) PROVE TxInv'
  BY <1>7, TxFrame DEF notifyDevices, Abort, Fail, IndInv, TypeOK
<1>8. ASSUME NEW d \in Devices, NEW limit \in Limits,
             PullAfter(d, limit) \/ PullFromCursor(d, limit)
      PROVE  TxInv'
  <2>1. high[d] \in Nat /\ cursor[d] \in Nat /\ 0 <= high[d] /\ cursor[d] <= high[d]
    BY DEF IndInv, TypeOK, PositionOK
  <2> QED BY <1>8, <2>1, TxProjectInv DEF PullAfter, PullFromCursor
<1>9. ASSUME NEW d \in Devices, NEW k \in AckSlots,
             AckEvents(d, k) \/ SaveCursor(d, k) \/ LoseAck(d, k)
      PROVE  TxInv'
  BY <1>9, TxFrame DEF AckEvents, SaveCursor, LoseAck
<1>10. CASE Tick
  <2>1. day \in Nat /\ day' = day + 1 /\ UNCHANGED <<tables, request, client>>
    BY <1>10 DEF Tick, IndInv, TypeOK
  <2>2. \A e \in events : e.day \in Nat
    BY DEF IndInv, TypeOK, Row
  <2>3. \A w \in TxWriters : pc[w] = "commit" => row[w].day \in Nat
    BY DEF IndInv, ReplyOK, Row
  <2> QED BY <2>1, <2>2, <2>3 DEF TxInv, NoSkippedEvent, GapFree, DayOrder
<1>11. CASE CleanupOldEvents
  BY <1>11 DEF CleanupOldEvents, TxInv, NoSkippedEvent, GapFree, DayOrder
<1> QED BY <1>1, <1>2, <1>3, <1>4, <1>5, <1>6, <1>7, <1>8, <1>9, <1>10, <1>11
        DEF Next, TxStep

\* When every writer records its event inside its transaction (RecordEnvelopeWithRepo
\* on WithTx), a device that reads on by next_after_sequence misses no event, and
\* the committed numbers have no gap.
THEOREM NoEventSkipped ==
  ASSUME AutoWriters = {}
  PROVE  Spec => [](NoSkippedEvent /\ GapFree)
<1>1. Init => TxInv
  BY DEF Init, TxInv, NoSkippedEvent, GapFree, DayOrder
<1>2. IndInv /\ TxInv /\ [Next]_vars => TxInv'
  BY TxNextInv
<1>3. TxInv => NoSkippedEvent /\ GapFree
  BY DEF TxInv
<1> QED BY <1>1, <1>2, <1>3, SpecInd, PTL DEF Spec

\* A pull is a read of the feed up to the last number of its page, or changes
\* nothing the feed can see.
LEMMA ProjectIsRead ==
  ASSUME IndInv, TxInv, NEW d \in Devices, NEW limit \in Limits,
         NEW after \in Nat, after <= high[d], NEW given \in Nat, given <= high[d],
         Project(d, PullReply(events, after, given, limit))
  PROVE  [Feed!Next]_(Feed!vars)
<1> DEFINE r == PullReply(events, after, given, limit)
           fresh(k) == {e.seq : e \in {f \in events : high[d] < f.seq /\ f.seq <= k}}
<1>1. /\ r.events \subseteq {e \in events : e.seq > after}
      /\ \A e \in r.events : \A f \in events :
           after < f.seq /\ f.seq <= e.seq => f \in r.events
      /\ r.events = {} => r.next = given
      /\ r.events # {} => /\ r.next \in {e.seq : e \in r.events}
                          /\ \A e \in r.events : e.seq <= r.next
      /\ r.next \in Nat
  BY ReplyFacts
<1> HIDE DEF r
<1>2. /\ seen' = [seen EXCEPT ![d] = @ \union {e.seq : e \in r.events}]
      /\ high' = [high EXCEPT ![d] = Larger(@, r.next)]
      /\ events' = events
  BY DEF Project, r
<1>3. /\ \A e \in events : e.seq \in Nat
      /\ high[d] \in Nat /\ high \in [Devices -> Nat] /\ seen \in [Devices -> SUBSET Nat]
  BY DEF IndInv, TypeOK, Row
<1>4. \A e \in r.events : e.seq <= high[d] => e.seq \in seen[d]
  BY <1>1 DEF TxInv, NoSkippedEvent
<1>5. CASE r.next <= high[d]
  <2>1. \A e \in r.events : e.seq <= high[d]
    BY <1>1, <1>3, <1>5
  <2>2. seen[d] \union {e.seq : e \in r.events} = seen[d]
    BY <1>4, <2>1
  <2>3. Larger(high[d], r.next) = high[d]
    BY <1>1, <1>3, <1>5 DEF Larger
  <2> QED BY <1>2, <1>3, <2>2, <2>3 DEF Feed!vars
<1>6. CASE r.next > high[d]
  <2>1. r.events # {}
    BY <1>1, <1>3, <1>6
  <2>2. PICK e \in events : e.seq = r.next
    BY <1>1, <2>1
  <2>3. seen[d] \union {x.seq : x \in r.events} = seen[d] \union fresh(r.next)
    <3>1. ASSUME NEW x \in r.events PROVE x.seq \in seen[d] \union fresh(r.next)
      BY <1>1, <1>3, <1>4, <2>1
    <3>2. ASSUME NEW f \in events, high[d] < f.seq, f.seq <= r.next
          PROVE  f \in r.events
      <4>1. PICK x \in r.events : x.seq = r.next
        BY <1>1, <2>1
      <4> QED BY <1>1, <1>3, <3>2, <4>1
    <3> QED BY <3>1, <3>2
  <2>4. Larger(high[d], r.next) = r.next
    BY <1>1, <1>3, <1>6 DEF Larger
  <2>5. Feed!Read(d, e.seq)
    <3>1. seen' = [seen EXCEPT ![d] = seen[d] \union fresh(e.seq)]
      BY <1>2, <1>3, <2>2, <2>3
    <3>2. high' = [high EXCEPT ![d] = e.seq] /\ e.seq >= high[d] /\ events' = events
      BY <1>1, <1>2, <1>3, <1>6, <2>2, <2>4
    <3> QED BY <3>1, <3>2 DEF Feed!Read
  <2> QED BY <2>5 DEF Feed!Next
<1> QED BY <1>1, <1>3, <1>5, <1>6

\* Retention removes a prefix, because numbers and timestamps have one order.
LEMMA CleanupIsTrim ==
  ASSUME IndInv, TxInv, CleanupOldEvents
  PROVE  [Feed!Next]_(Feed!vars)
<1> DEFINE old == {e \in events : ~ (e.day >= day - RetentionDays)}
<1>1. /\ \A e \in events : e.seq \in Nat /\ e.day \in Nat /\ e.seq <= nextSeq
      /\ nextSeq \in Nat /\ day \in Nat /\ RetentionDays \in Nat
  BY SyncAssumption DEF IndInv, TypeOK, NumbersOK, Row
<1>2. events' = events \ old /\ UNCHANGED <<seen, high>>
  BY DEF CleanupOldEvents
<1>3. CASE old = {}
  BY <1>2, <1>3 DEF Feed!vars
<1>4. CASE old # {}
  <2>1. PICK m \in old : \A e \in old : e.seq <= m.seq
    <3>1. \A e \in old : e.seq \in Nat /\ e.seq <= nextSeq
      BY <1>1
    <3> HIDE DEF old
    <3>2. /\ LastSequence(old) \in {e.seq : e \in old}
          /\ \A e \in old : e.seq <= LastSequence(old)
      BY <1>1, <1>4, <3>1, LastSequenceIsMax
    <3> QED BY <3>2
  <2>2. \A e \in events : e.seq <= m.seq => e \in old
    <3> SUFFICES ASSUME NEW e \in events, e.seq <= m.seq PROVE e \in old
      OBVIOUS
    <3>1. e.day <= m.day
      BY DEF TxInv, DayOrder
    <3> QED BY <1>1, <3>1
  <2>3. events' = {e \in events : e.seq > m.seq}
    BY <1>1, <1>2, <2>1, <2>2
  <2>4. Feed!Trim(m.seq)
    BY <1>2, <2>3 DEF Feed!Trim
  <2> QED BY <2>4 DEF Feed!Next
<1> QED BY <1>3, <1>4

\* The commit of a transaction appends to the feed: its number is above every
\* event and above every position a device has reached.
LEMMA CommitIsAppend ==
  ASSUME IndInv, TxInv, NEW w \in TxWriters, Commit(w)
  PROVE  [Feed!Next]_(Feed!vars)
<1>1. /\ row[w].seq = nextSeq
      /\ events' = events \union {row[w]}
      /\ UNCHANGED <<seen, high>>
      /\ \A e \in events : e.seq < nextSeq
  BY CommitAdds
<1>2. nextSeq \in Nat /\ row[w] \notin events
  BY <1>1 DEF IndInv, TypeOK
<1>3. \A d \in Devices : high[d] < nextSeq
  BY DEF IndInv, PositionOK
<1>4. row[w] \in events' \ events /\ Feed!Append(row[w])
  BY <1>1, <1>2, <1>3 DEF Feed!Append
<1> QED BY <1>4 DEF Feed!Next

\* Every step of the log is a step of the feed, or one the feed does not see.
LEMMA StepIsFeedStep ==
  ASSUME AutoWriters = {}, IndInv, TxInv, [Next]_vars
  PROVE  [Feed!Next]_(Feed!vars)
<1>1. CASE UNCHANGED vars
  BY <1>1 DEF vars, Feed!vars
<1>2. ASSUME NEW w \in Writers, NEW e \in Envelope, Begin(w, e)
      PROVE  UNCHANGED Feed!vars
  BY <1>2 DEF Begin, Feed!vars
<1>3. ASSUME NEW w \in TxWriters,
             \/ IdempotentReplay(w) \/ TxLookup(w)
             \/ TxGetNextSequence(w) \/ TxCreateEvent(w)
      PROVE  UNCHANGED Feed!vars
  BY <1>3 DEF IdempotentReplay, TxLookup, TxGetNextSequence, TxCreateEvent, Feed!vars
<1>4. ASSUME NEW w \in Writers, notifyDevices(w) \/ Abort(w) PROVE UNCHANGED Feed!vars
  BY <1>4 DEF notifyDevices, Abort, Feed!vars
<1>5. ASSUME NEW d \in Devices, NEW k \in AckSlots,
             AckEvents(d, k) \/ SaveCursor(d, k) \/ LoseAck(d, k)
      PROVE  UNCHANGED Feed!vars
  BY <1>5 DEF AckEvents, SaveCursor, LoseAck, Feed!vars
<1>6. ASSUME Tick PROVE UNCHANGED Feed!vars
  BY <1>6 DEF Tick, Feed!vars
<1>7. ASSUME NEW d \in Devices, NEW limit \in Limits,
             PullAfter(d, limit) \/ PullFromCursor(d, limit)
      PROVE  [Feed!Next]_(Feed!vars)
  <2>1. high[d] \in Nat /\ cursor[d] \in Nat /\ 0 <= high[d] /\ cursor[d] <= high[d]
    BY DEF IndInv, TypeOK, PositionOK
  <2> QED BY <1>7, <2>1, ProjectIsRead DEF PullAfter, PullFromCursor
<1> QED BY <1>1, <1>2, <1>3, <1>4, <1>5, <1>6, <1>7, CommitIsAppend, CleanupIsTrim
        DEF Next, TxStep

\* A log that only transactions write implements the ordered feed of SyncFeed:
\* reservations, rollbacks, replays and pages do not show through.
THEOREM LogImplementsFeed ==
  ASSUME AutoWriters = {}
  PROVE  Spec => ImplementsFeed
<1>1. Init => TxInv
  BY DEF Init, TxInv, NoSkippedEvent, GapFree, DayOrder
<1>2. IndInv /\ TxInv /\ [Next]_vars => TxInv'
  BY TxNextInv
<1>3. Init => Feed!Init
  BY DEF Init, Feed!Init
<1>4. IndInv /\ TxInv /\ [Next]_vars => [Feed!Next]_(Feed!vars)
  BY StepIsFeedStep
<1> QED BY <1>1, <1>2, <1>3, <1>4, SpecInd, PTL DEF Spec, ImplementsFeed, Feed!Spec
-----------------------------------------------------------------------------
(* Acknowledgements, which may overlap. *)

\* What an UpdateCursor is about to save is at least what was settled when the first
\* of those under way read the row, and the cursor is settled when none is.
SettledOK ==
  \A d \in Devices :
    /\ settled[d] <= cursor[d]
    /\ \A k \in AckSlots : ack[d][k] # 0 => settled[d] <= ack[d][k]
    /\ (\A k \in AckSlots : ack[d][k] = 0) => settled[d] = cursor[d]

\* Each step keeps SettledOK, and no cursor that it changes falls below what is settled.
LEMMA SettledStep ==
  ASSUME IndInv, SettledOK, [Next]_vars
  PROVE  SettledOK' /\ [\A d \in Devices : cursor'[d] >= settled[d]]_cursor
<1>1. ASSUME UNCHANGED <<cursor, settled, ack>>
      PROVE  SettledOK' /\ [\A d \in Devices : cursor'[d] >= settled[d]]_cursor
  BY <1>1 DEF SettledOK
<1>2. /\ cursor \in [Devices -> Nat] /\ settled \in [Devices -> Nat]
      /\ ack \in [Devices -> [AckSlots -> Nat]] /\ high \in [Devices -> Nat]
  BY DEF IndInv, TypeOK
<1>3. ASSUME NEW d \in Devices, NEW k \in AckSlots, AckEvents(d, k)
      PROVE  SettledOK' /\ [\A c \in Devices : cursor'[c] >= settled[c]]_cursor
  <2>1. PICK n \in 1 .. high[d] : ack' = [ack EXCEPT ![d][k] = LoadCursor(d, n)]
    BY <1>3 DEF AckEvents
  <2>2. LoadCursor(d, n) \in Nat \ {0} /\ cursor[d] <= LoadCursor(d, n)
    BY <1>2 DEF LoadCursor, Larger
  <2>3. UNCHANGED <<cursor, settled>>
    BY <1>3 DEF AckEvents
  <2> QED BY <1>2, <2>1, <2>2, <2>3 DEF SettledOK
<1>4. ASSUME NEW d \in Devices, NEW k \in AckSlots, SaveCursor(d, k) \/ LoseAck(d, k)
      PROVE  SettledOK' /\ [\A c \in Devices : cursor'[c] >= settled[c]]_cursor
  <2>1. cursor' \in [Devices -> Nat] /\ settled' \in [Devices -> Nat]
    BY <1>2, <1>4 DEF SaveCursor, LoseAck, Settle
  <2>2. /\ ack' = [ack EXCEPT ![d][k] = 0]
        /\ \A c \in Devices \ {d} : cursor'[c] = cursor[c] /\ settled'[c] = settled[c]
        /\ cursor'[d] \in {cursor[d], ack[d][k]} /\ ack[d][k] # 0
    BY <1>2, <1>4 DEF SaveCursor, LoseAck, Settle
  <2>3. settled[d] <= cursor'[d]
    BY <2>2 DEF SettledOK
  <2>4. CASE \E j \in AckSlots \ {k} : ack[d][j] # 0
    <3>1. settled' = settled /\ \E j \in AckSlots : ack'[d][j] # 0
      BY <1>2, <1>4, <2>2, <2>4 DEF SaveCursor, LoseAck, Settle
    <3> QED BY <1>2, <2>1, <2>2, <2>3, <3>1 DEF SettledOK
  <2>5. CASE \A j \in AckSlots \ {k} : ack[d][j] = 0
    <3>1. settled'[d] = cursor'[d] /\ \A j \in AckSlots : ack'[d][j] = 0
      BY <1>2, <1>4, <2>2, <2>5 DEF SaveCursor, LoseAck, Settle
    <3> QED BY <1>2, <2>1, <2>2, <2>3, <3>1 DEF SettledOK
  <2> QED BY <2>4, <2>5
<1>5. ASSUME NEW w \in Writers, NEW e \in Envelope, Begin(w, e)
      PROVE  UNCHANGED <<cursor, settled, ack>>
  BY <1>5 DEF Begin
<1>6. ASSUME NEW w \in Writers, AutoStep(w) \/ TxStep(w)
      PROVE  UNCHANGED <<cursor, settled, ack>>
  BY <1>6 DEF AutoStep, Lookup, GetNextSequence, CreateEvent, TxStep, IdempotentReplay,
              TxLookup, TxGetNextSequence, TxCreateEvent, Commit
<1>7. ASSUME NEW w \in Writers, notifyDevices(w) \/ Abort(w)
      PROVE  UNCHANGED <<cursor, settled, ack>>
  BY <1>7 DEF notifyDevices, Abort
<1>8. ASSUME NEW d \in Devices, NEW limit \in Limits,
             PullAfter(d, limit) \/ PullFromCursor(d, limit)
      PROVE  UNCHANGED <<cursor, settled, ack>>
  BY <1>8 DEF PullAfter, PullFromCursor, Project
<1>9. ASSUME Tick \/ CleanupOldEvents \/ UNCHANGED vars
      PROVE  UNCHANGED <<cursor, settled, ack>>
  BY <1>9 DEF Tick, CleanupOldEvents, vars
<1> QED BY <1>1, <1>3, <1>4, <1>5, <1>6, <1>7, <1>8, <1>9 DEF Next

\* However many acknowledgements of a device overlap, UpdateCursor moves its cursor
\* back at most to where it stood when the first of them read it.
THEOREM CursorKeepsSettled == Spec => CursorMonotone
<1>1. Init => SettledOK
  BY DEF Init, SettledOK
<1>2. IndInv /\ SettledOK /\ [Next]_vars
        => SettledOK' /\ [\A d \in Devices : cursor'[d] >= settled[d]]_cursor
  BY SettledStep
<1> QED BY <1>1, <1>2, SpecInd, PTL DEF Spec, CursorMonotone
-----------------------------------------------------------------------------
(* What a device may conclude from a reply. *)

\* The unique index (user_id, sequence).
UniqueOK == \A e, f \in events : e.seq = f.seq => e = f

\* Each step keeps the numbers of events apart: only an insert or a commit adds one.
LEMMA UniqueStep ==
  ASSUME IndInv, UniqueOK, [Next]_vars
  PROVE  UniqueOK'
<1>1. ASSUME events' \subseteq events PROVE UniqueOK'
  BY <1>1 DEF UniqueOK
<1>2. ASSUME NEW w \in AutoWriters, CreateEvent(w) PROVE UniqueOK'
  <2>1. events' = events \/ events' = events \union {NewEvent(w)}
    BY <1>2 DEF CreateEvent
  <2>2. NewEvent(w).seq = rsv[w] /\ \A e \in events : e.seq # rsv[w]
    BY <1>2 DEF NewEvent, CreateEvent, IndInv, ReservedOK, NumbersOK
  <2> QED BY <2>1, <2>2 DEF UniqueOK
<1>3. ASSUME NEW w \in TxWriters, Commit(w) PROVE UniqueOK'
  <2>1. events' = events \union {row[w]} /\ row[w].seq = nextSeq
    BY <1>3 DEF Commit, IndInv, NumbersOK, ReplyOK
  <2>2. nextSeq \in Nat /\ \A e \in events : e.seq < nextSeq
    BY DEF IndInv, TypeOK, NumbersOK
  <2> QED BY <2>1, <2>2 DEF UniqueOK
<1>4. ASSUME NEW w \in Writers, NEW e \in Envelope, Begin(w, e)
      PROVE  events' \subseteq events
  BY <1>4 DEF Begin
<1>5. ASSUME NEW w \in Writers,
             \/ Lookup(w) \/ GetNextSequence(w) \/ IdempotentReplay(w) \/ TxLookup(w)
             \/ TxGetNextSequence(w) \/ TxCreateEvent(w)
             \/ notifyDevices(w) \/ Abort(w)
      PROVE  events' \subseteq events
  BY <1>5 DEF Lookup, GetNextSequence, IdempotentReplay, TxLookup, TxGetNextSequence,
     TxCreateEvent, notifyDevices, Abort
<1>6. ASSUME NEW d \in Devices, NEW limit \in Limits,
             PullAfter(d, limit) \/ PullFromCursor(d, limit)
      PROVE  events' \subseteq events
  BY <1>6 DEF PullAfter, PullFromCursor, Project
<1>7. ASSUME NEW d \in Devices, NEW k \in AckSlots,
             AckEvents(d, k) \/ SaveCursor(d, k) \/ LoseAck(d, k)
      PROVE  events' \subseteq events
  BY <1>7 DEF AckEvents, SaveCursor, LoseAck
<1>8. ASSUME Tick \/ CleanupOldEvents \/ UNCHANGED vars PROVE events' \subseteq events
  BY <1>8 DEF Tick, CleanupOldEvents, vars
<1> QED BY <1>1, <1>2, <1>3, <1>4, <1>5, <1>6, <1>7, <1>8 DEF Next, AutoStep, TxStep

\* For limits whose look-ahead row is not clamped away, has_more = false means that
\* a device has caught up; for any limit next_after_sequence never sends it back or
\* leaves it where it was with events in hand; for any mix of writers.
THEOREM RepliesAreExact == Spec => [](HasMoreIsExact /\ NextMovesOn)
<1>1. Init => UniqueOK
  BY DEF Init, UniqueOK
<1>2. IndInv /\ UniqueOK /\ [Next]_vars => UniqueOK'
  BY UniqueStep
<1>3. IndInv /\ UniqueOK => HasMoreIsExact /\ NextMovesOn
  <2> SUFFICES ASSUME IndInv, UniqueOK, NEW d \in Devices, NEW limit \in Limits
               PROVE  /\ normalizeSyncLimit(limit) < MaxLimit =>
                           (Reply(d, limit).hasMore <=>
                              \E e \in events : e.seq > high[d] /\ e \notin Reply(d, limit).events)
                      /\ Reply(d, limit).next >= high[d]
                      /\ Reply(d, limit).events # {} => Reply(d, limit).next > high[d]
    BY DEF HasMoreIsExact, NextMovesOn
  <2>1. IsFiniteSet(events) /\ nextSeq \in Nat /\ high[d] \in Nat /\ limit \in Int
    BY SyncAssumption DEF IndInv, TypeOK, NumbersOK
  <2>2. \A e \in events : e.seq \in Nat /\ e.seq <= nextSeq
    BY DEF IndInv, TypeOK, NumbersOK, Row
  <2>3. normalizeSyncLimit(limit) < MaxLimit =>
          (Reply(d, limit).hasMore <=>
             \E e \in events : e.seq > high[d] /\ e \notin Reply(d, limit).events)
    BY <2>1, <2>2, HasMoreTellsTheTruth DEF Reply, UniqueOK
  <2>4. /\ Reply(d, limit).events \subseteq {e \in events : e.seq > high[d]}
        /\ Reply(d, limit).events = {} => Reply(d, limit).next = high[d]
        /\ Reply(d, limit).events # {} =>
             Reply(d, limit).next \in {e.seq : e \in Reply(d, limit).events}
    BY <2>1, ReplyFacts DEF Reply
  <2>5. /\ Reply(d, limit).next >= high[d]
        /\ Reply(d, limit).events # {} => Reply(d, limit).next > high[d]
    BY <2>1, <2>2, <2>4
  <2> QED BY <2>3, <2>5
<1> QED BY <1>1, <1>2, <1>3, SpecInd, PTL DEF Spec
=============================================================================
