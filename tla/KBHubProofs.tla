----------------------------- MODULE KBHubProofs -----------------------------
(***************************************************************************)
(* Proofs about KBHub for every set of workers, users and requests.        *)
(*                                                                         *)
(* Shape says what the local variables of a request hold at each of its    *)
(* steps; with TypeOK it is inductive.  PlanOrder is what makes the plans  *)
(* exclusive: a request that has archived the plans and could still insert *)
(* its own sees no active plan.  Nothing may be inserted in between,       *)
(* because that would take the version the request has read.  Priced says  *)
(* that a pricing request which nothing has overtaken has the collection's *)
(* row to itself, until its plan agrees with it.                           *)
(***************************************************************************)
EXTENDS KBHub, TLAPS

InstallSteps == {"getPublic", "getTracked", "findSub", "createSub", "updateSub"}

ReadSteps == {"getSnapshot", "getActive", "getLatest", "served"}

PlanSteps == {"nextPlan", "archivePlans", "createPlan"}

\* The local variables of a request, by the step it is about to execute.
ShapeOf(w) ==
    /\ pc[w] \in {"readRow", "save"} => req[w] \in PriceRequest \union PlainRequest
    /\ pc[w] = "save" => row[w] \in Collection
    /\ pc[w] \in PlanSteps =>
         /\ req[w] \in PriceRequest
         /\ row[w] \in Collection
         /\ ~PriceRefused(w)
    /\ pc[w] \in InstallSteps => req[w] \in InstallRequest
    /\ pc[w] \in InstallSteps \ {"getPublic"} => row[w] \in Collection
    /\ pc[w] \in {"findSub", "createSub", "updateSub"} =>
         /\ ver[w] \in DOMAIN snaps
         /\ req[w].track \in {0, ver[w]}
    /\ pc[w] \in ReadSteps => req[w] \in ReadRequest

Shape == \A w \in Workers : ShapeOf(w)

\* A version that was read is one the table has or the next one.
VersionsOf(w) ==
    /\ pc[w] = "createSnapshot" => ver[w] \in 1 .. NextVersion(snaps)
    /\ pc[w] \in {"archivePlans", "createPlan"} => ver[w] \in 1 .. NextVersion(plans)

VersionsRead == \A w \in Workers : VersionsOf(w)

\* After the archiving, a version that is still free means no active plan.
PlanOrder ==
  \A w \in Workers :
    pc[w] = "createPlan" /\ ver[w] \notin DOMAIN plans =>
      \A v \in DOMAIN plans : plans[v].status = "archived"

\* A reader whose user has an active subscription, or who has passed the check,
\* has seen one.
HeldOrder ==
  \A w \in Workers :
    /\ pc[w] \in ReadSteps /\ ActiveSub(req[w].user) => held[w]
    /\ pc[w] \in {"getLatest", "served"} => held[w]

TInv == TypeOK /\ Shape /\ VersionsRead

PInv == OneActivePlan /\ PlanOrder

-----------------------------------------------------------------------------
(* Helpers.                                                                *)

\* The largest key of a table whose keys run from 1 to n.
LEMMA MaxKeyInterval ==
  ASSUME NEW n \in Nat
  PROVE  MaxKey(1 .. n) = n
<1>1. n \in (1 .. n) \union {0} /\ \A k \in 1 .. n : k <= n
  OBVIOUS
<1>2. \A m \in (1 .. n) \union {0} : (\A k \in 1 .. n : k <= m) => m = n
  OBVIOUS
<1> QED
  BY <1>1, <1>2 DEF MaxKey

\* The next version of a table numbered without gaps.
LEMMA NextOfInterval ==
  ASSUME NEW n \in Nat, NEW f, DOMAIN f = 1 .. n
  PROVE  NextVersion(f) = n + 1
BY MaxKeyInterval DEF NextVersion

\* Inserting the next version keeps the numbering without gaps.
LEMMA InsertNext ==
  ASSUME NEW n \in Nat, NEW S, NEW f \in [1 .. n -> S], NEW r \in S
  PROVE  Insert(f, n + 1, r) \in [1 .. n + 1 -> S]
BY DEF Insert

\* The resolved entitlement and interval of a pricing that is not refused.
LEMMA AskedTypes ==
  ASSUME NEW w \in Workers, req[w] \in PriceRequest, row[w] \in Collection,
         ~PriceRefused(w)
  PROVE  /\ AskedFree(w) \in BOOLEAN
         /\ AskedMode(w) \in Entitlements
         /\ AskedInterval(w) \in Intervals
<1>1. AskedFree(w) \in BOOLEAN
  BY DEF AskedFree, PriceRequest, Collection
<1>2. AskedMode(w) \in Entitlements
  BY DEF PriceRefused, AskedMode, NormalizeEntitlement, Entitlements
<1>3. AskedInterval(w) \in Intervals
  BY <1>2 DEF PriceRefused, AskedInterval, NormalizeBillingInterval, Entitlements,
     Intervals
<1> QED
  BY <1>1, <1>2, <1>3

\* An installation writes a well-formed row for the snapshot it has read.
LEMMA NewSubscriptionType ==
  ASSUME NEW w \in Workers, req[w] \in InstallRequest, row[w] \in Collection,
         ver[w] \in Versions
  PROVE  NewSubscription(w) \in Subscription
<1>1. InstalledMode(w) \in Entitlements
  BY DEF InstalledMode, NormalizeEntitlement, InstallRequest, Collection, Entitlements
<1>2. InstalledEnd(w) \in Ends
  BY <1>1 DEF InstalledEnd, PeriodEnd, InstallRequest, Entitlements, Ends
<1> QED
  BY <1>1, <1>2 DEF NewSubscription, Subscription, InstallRequest

\* A request that does not move keeps what its steps rely on, whatever rows are
\* added meanwhile.
LEMMA ShapeKept ==
  ASSUME NEW w \in Workers, ShapeOf(w), pc'[w] = pc[w], req'[w] = req[w],
         row'[w] = row[w], ver'[w] = ver[w], DOMAIN snaps \subseteq DOMAIN snaps'
  PROVE  ShapeOf(w)'
<1>1. AskedMode(w)' = AskedMode(w)
  BY DEF AskedMode, AskedFree
<1>2. AskedInterval(w)' = AskedInterval(w)
  BY <1>1 DEF AskedInterval
<1>3. PriceRefused(w)' <=> PriceRefused(w)
  BY <1>1, <1>2 DEF PriceRefused
<1> QED
  BY <1>3 DEF ShapeOf

\* A request that has ended satisfies both conditions.
LEMMA EndedFine ==
  ASSUME NEW w \in Workers, pc'[w] = "idle"
  PROVE  ShapeOf(w)' /\ VersionsOf(w)'
BY DEF ShapeOf, VersionsOf, PlanSteps, InstallSteps, ReadSteps

\* A version that was read stays in range while the tables grow.
LEMMA VersionsKept ==
  ASSUME NEW w \in Workers, VersionsOf(w), pc'[w] = pc[w], ver'[w] = ver[w],
         NextVersion(snaps) \in Nat, NextVersion(plans) \in Nat,
         NextVersion(snaps') \in Nat, NextVersion(plans') \in Nat,
         NextVersion(snaps) <= NextVersion(snaps'),
         NextVersion(plans) <= NextVersion(plans')
  PROVE  VersionsOf(w)'
<1>1. NextVersion(snaps)' = NextVersion(snaps') /\ NextVersion(plans)' = NextVersion(plans')
  BY DEF NextVersion, MaxKey
<1> QED
  BY <1>1 DEF VersionsOf

\* The end of a request leaves well-formed local variables.
LEMMA EndLocals ==
  ASSUME NEW w \in Workers, LocalsOK, End(w), begun' = begun, torn' \in BOOLEAN
  PROVE  LocalsOK'
<1>1. 0 \in 0 .. MaxVersion /\ "idle" \in Steps
  BY HubAssumption DEF Steps
<1> QED
  BY <1>1 DEF LocalsOK, End, Goto

\* A step that only moves a request on.
LEMMA GotoLocals ==
  ASSUME NEW w \in Workers, NEW s \in Steps, LocalsOK, Goto(w, s),
         UNCHANGED <<begun, torn, Locals>>
  PROVE  LocalsOK'
BY DEF LocalsOK, Goto, Locals

\* The initial collection has no rows and no request.
LEMMA TypeInit == Init => TInv
<1> SUFFICES ASSUME Init PROVE TInv
  OBVIOUS
<1>1. snaps \in [1 .. 0 -> SnapshotStatus] /\ plans \in [1 .. 0 -> Plan]
  BY DEF Init
<1>2. 0 \in 0 .. MaxVersion
  BY HubAssumption
<1>3. TypeOK
  <2>1. coll \in Collection
    BY DEF Init, Collection, Entitlements, Intervals
  <2>2. begun \in 0 .. MaxRequests
    BY HubAssumption DEF Init
  <2> QED
    BY <1>1, <1>2, <2>1, <2>2 DEF Init, TypeOK, RowsOK, LocalsOK, Steps
<1>4. Shape /\ VersionsRead
  BY DEF Init, Shape, VersionsRead, ShapeOf, VersionsOf, PlanSteps, InstallSteps, ReadSteps
<1> QED
  BY <1>3, <1>4 DEF TInv

\* Every step keeps the types, the shape of the requests and the numbering.
LEMMA TypeStep == TInv /\ [Next]_vars => TInv'
<1> SUFFICES ASSUME TInv, [Next]_vars PROVE TInv'
  OBVIOUS
<1> USE DEF TInv
<1>ns. PICK ns \in 0 .. MaxVersion : snaps \in [1 .. ns -> SnapshotStatus]
  BY DEF TypeOK, RowsOK
<1>np. PICK np \in 0 .. MaxVersion : plans \in [1 .. np -> Plan]
  BY DEF TypeOK, RowsOK
<1>bd. ns \in Nat /\ np \in Nat /\ MaxVersion \in Nat /\ MaxRequests \in Nat
  BY HubAssumption
<1>nv. NextVersion(snaps) = ns + 1 /\ NextVersion(plans) = np + 1
  BY <1>ns, <1>np, <1>bd, NextOfInterval
<1>vk. ASSUME NEW x \in Workers, pc'[x] = pc[x], ver'[x] = ver[x],
              snaps' = snaps \/ snaps' \in [1 .. ns -> SnapshotStatus]
                \/ snaps' \in [1 .. ns + 1 -> SnapshotStatus],
              plans' = plans \/ plans' \in [1 .. np -> Plan]
                \/ plans' \in [1 .. np + 1 -> Plan]
       PROVE  VersionsOf(x)'
  <2>1. NextVersion(snaps') \in {ns + 1, ns + 2}
    BY <1>vk, <1>nv, <1>ns, <1>bd, NextOfInterval
  <2>2. NextVersion(plans') \in {np + 1, np + 2}
    BY <1>vk, <1>nv, <1>np, <1>bd, NextOfInterval
  <2> QED
    BY <1>vk, <1>nv, <1>bd, <2>1, <2>2, VersionsKept DEF VersionsRead
<1>rk. ASSUME UNCHANGED <<coll, snaps, plans, subs>> PROVE RowsOK'
  BY <1>rk DEF TypeOK, RowsOK
<1>sk. ASSUME NEW x \in Workers, pc'[x] = pc[x], req'[x] = req[x], row'[x] = row[x],
              ver'[x] = ver[x], DOMAIN snaps \subseteq DOMAIN snaps'
       PROVE  ShapeOf(x)'
  BY <1>sk, ShapeKept DEF Shape
<1>1. ASSUME NEW w \in Workers,
             \/ \E r \in Requests : Begin(w, r)
             \/ NextSnapshotVersion(w) \/ CreateSnapshot(w) \/ MarkCollectionPublished(w)
             \/ GetCollection(w) \/ UpdateCollectionDeclarations(w)
             \/ UpdateCollectionPricing(w)
             \/ NextPlanVersion(w) \/ ArchiveActivePlans(w) \/ CreateBillingPlan(w)
             \/ GetPublicCollection(w) \/ GetTrackedSnapshot(w) \/ FindSubscription(w)
             \/ UpsertSubscription(w)
             \/ AuthorizeSnapshot(w) \/ GetActiveSubscription(w) \/ GetLatestSnapshot(w)
             \/ ServeContent(w) \/ Abort(w)
      PROVE  TInv'
  <2>1. ASSUME NEW r \in Requests, Begin(w, r) PROVE TInv'
    <3> USE <2>1 DEF Begin
    <3>1. r \in Request
      BY HubAssumption
    <3>2. r.op \in {"publish", "declare", "price", "install", "read"}
      BY <3>1 DEF Request, PlainRequest, PriceRequest, InstallRequest, ReadRequest
    <3>3. FirstStep(r.op) \in Steps
      BY <3>2 DEF FirstStep, Steps
    <3>4. TypeOK'
      <4>1. RowsOK'
        BY <1>rk
      <4>2. LocalsOK'
        BY <3>1, <3>3, <1>bd DEF TypeOK, LocalsOK, Goto
      <4> QED
        BY <4>1, <4>2 DEF TypeOK
    <3>5. ShapeOf(w)' /\ VersionsOf(w)'
      BY <3>1, <3>2 DEF TypeOK, LocalsOK, ShapeOf, VersionsOf, Goto, FirstStep, PlanSteps, InstallSteps,
         ReadSteps, Request, PlainRequest, PriceRequest, InstallRequest, ReadRequest
    <3>6. ASSUME NEW x \in Workers \ {w} PROVE ShapeOf(x)' /\ VersionsOf(x)'
      BY <1>sk, <1>vk DEF TypeOK, LocalsOK, Goto
    <3> QED
      BY <3>4, <3>5, <3>6 DEF Shape, VersionsRead
  <2>2. CASE NextSnapshotVersion(w)
    <3> USE <2>2 DEF NextSnapshotVersion
    <3>1. TypeOK'
      <4>1. RowsOK'
        BY <1>rk
      <4>2. LocalsOK'
        BY <1>nv, <1>bd DEF TypeOK, LocalsOK, Goto, Steps
      <4> QED
        BY <4>1, <4>2 DEF TypeOK
    <3>2. ShapeOf(w)' /\ VersionsOf(w)'
      BY <1>nv, <1>bd, <1>nv, <1>bd, EndedFine DEF TypeOK, LocalsOK, Shape, VersionsRead, ShapeOf, VersionsOf, Goto,
         End, Locals, PlanSteps, InstallSteps, ReadSteps
    <3>3. ASSUME NEW x \in Workers \ {w} PROVE ShapeOf(x)' /\ VersionsOf(x)'
      BY <1>sk, <1>vk DEF TypeOK, LocalsOK, Goto, End, Locals
    <3> QED
      BY <3>1, <3>2, <3>3 DEF Shape, VersionsRead
  <2>3. CASE CreateSnapshot(w)
    <3> USE <2>3 DEF CreateSnapshot
    <3>1. CASE ver[w] \notin DOMAIN snaps
      <4>0. "active" \in SnapshotStatus
        BY DEF SnapshotStatus
      <4>1. ver[w] = ns + 1
        BY <3>1, <1>ns, <1>nv, <1>bd DEF VersionsRead, VersionsOf
      <4>2. snaps' \in [1 .. ns + 1 -> SnapshotStatus]
        <5>1. snaps' = Insert(snaps, ns + 1, "active")
          BY <3>1, <4>1
        <5> QED
          BY <5>1, <4>0, <1>ns, <1>bd, InsertNext
      <4>3. ns + 1 \in 0 .. MaxVersion
        BY <4>1, <1>bd DEF TypeOK, LocalsOK
      <4>4. TypeOK'
        <5>1. RowsOK'
          <6>1. /\ DOMAIN snaps \subseteq DOMAIN snaps'
                /\ UNCHANGED <<coll, plans, subs>>
            BY <4>2, <1>ns, <1>bd
          <6> QED
            BY <6>1, <4>2, <4>3 DEF TypeOK, RowsOK
        <5>2. LocalsOK'
          BY <3>1, GotoLocals DEF TypeOK, Steps
        <5> QED
          BY <5>1, <5>2 DEF TypeOK
      <4>5. ShapeOf(w)' /\ VersionsOf(w)'
        BY <3>1 DEF TypeOK, LocalsOK, ShapeOf, VersionsOf, Goto, Locals, PlanSteps, InstallSteps, ReadSteps
      <4>6. ASSUME NEW x \in Workers \ {w} PROVE ShapeOf(x)' /\ VersionsOf(x)'
        BY <3>1, <4>2, <1>ns, <1>bd, <1>sk, <1>vk DEF TypeOK, LocalsOK, Goto, Locals
      <4> QED
        BY <4>4, <4>5, <4>6 DEF Shape, VersionsRead
    <3>2. CASE ver[w] \in DOMAIN snaps
      <4>1. TypeOK'
        <5>1. RowsOK'
          BY <3>2, <1>rk
        <5>2. LocalsOK'
          BY <3>2, EndLocals DEF TypeOK, LocalsOK
        <5> QED
          BY <5>1, <5>2 DEF TypeOK
      <4>2. ASSUME NEW x \in Workers PROVE ShapeOf(x)' /\ VersionsOf(x)'
        BY <3>2, <1>sk, <1>vk, EndedFine DEF TypeOK, LocalsOK, Goto, End
      <4> QED
        BY <4>1, <4>2 DEF Shape, VersionsRead
    <3> QED
      BY <3>1, <3>2
  <2>4. CASE MarkCollectionPublished(w)
    <3> USE <2>4 DEF MarkCollectionPublished
    <3>1. TypeOK'
      <4>1. RowsOK'
        BY DEF TypeOK, RowsOK, Collection
      <4>2. LocalsOK'
        BY EndLocals DEF TypeOK, LocalsOK
      <4> QED
        BY <4>1, <4>2 DEF TypeOK
    <3>2. ShapeOf(w)' /\ VersionsOf(w)'
      BY <1>nv, <1>bd, EndedFine DEF TypeOK, LocalsOK, Shape, VersionsRead, ShapeOf, VersionsOf, Goto,
         End, Locals, PlanSteps, InstallSteps, ReadSteps
    <3>3. ASSUME NEW x \in Workers \ {w} PROVE ShapeOf(x)' /\ VersionsOf(x)'
      BY <1>sk, <1>vk DEF TypeOK, LocalsOK, Goto, End, Locals
    <3> QED
      BY <3>1, <3>2, <3>3 DEF Shape, VersionsRead
  <2>5. CASE GetCollection(w)
    <3> USE <2>5 DEF GetCollection
    <3>1. TypeOK'
      <4>1. RowsOK'
        BY <1>rk
      <4>2. LocalsOK'
        BY DEF TypeOK, LocalsOK, RowsOK, Goto, Steps
      <4> QED
        BY <4>1, <4>2 DEF TypeOK
    <3>2. ShapeOf(w)' /\ VersionsOf(w)'
      BY <1>nv, <1>bd, EndedFine DEF TypeOK, RowsOK, LocalsOK, Shape, VersionsRead, ShapeOf, VersionsOf, Goto,
         End, Locals, PlanSteps, InstallSteps, ReadSteps
    <3>3. ASSUME NEW x \in Workers \ {w} PROVE ShapeOf(x)' /\ VersionsOf(x)'
      BY <1>sk, <1>vk DEF TypeOK, LocalsOK, Goto, End, Locals
    <3> QED
      BY <3>1, <3>2, <3>3 DEF Shape, VersionsRead
  <2>6. CASE UpdateCollectionDeclarations(w)
    <3> USE <2>6 DEF UpdateCollectionDeclarations
    <3>1. TypeOK'
      <4>1. RowsOK'
        BY DEF TypeOK, RowsOK, Shape, ShapeOf, Collection
      <4>2. LocalsOK'
        BY EndLocals DEF TypeOK, LocalsOK
      <4> QED
        BY <4>1, <4>2 DEF TypeOK
    <3>2. ShapeOf(w)' /\ VersionsOf(w)'
      BY <1>nv, <1>bd, EndedFine DEF TypeOK, LocalsOK, Shape, VersionsRead, ShapeOf, VersionsOf, Goto,
         End, Locals, PlanSteps, InstallSteps, ReadSteps
    <3>3. ASSUME NEW x \in Workers \ {w} PROVE ShapeOf(x)' /\ VersionsOf(x)'
      BY <1>sk, <1>vk DEF TypeOK, LocalsOK, Goto, End, Locals
    <3> QED
      BY <3>1, <3>2, <3>3 DEF Shape, VersionsRead
  <2>7. CASE UpdateCollectionPricing(w)
    <3> USE <2>7 DEF UpdateCollectionPricing
    <3>1. req[w] \in PriceRequest /\ row[w] \in Collection
      BY DEF Shape, ShapeOf, PlainRequest
    <3>2. CASE ~PriceRefused(w)
      <4>1. coll' \in Collection
        BY <3>1, <3>2, AskedTypes DEF Collection
      <4>2. TypeOK'
        <5>1. RowsOK'
          BY <3>2, <4>1 DEF TypeOK, RowsOK
        <5>2. LocalsOK'
          BY <3>2, GotoLocals DEF TypeOK, Steps
        <5> QED
          BY <5>1, <5>2 DEF TypeOK
      <4>3. ~PriceRefused(w)'
        BY <3>2 DEF Locals, PriceRefused, AskedInterval, AskedMode, AskedFree
      <4>4. ShapeOf(w)' /\ VersionsOf(w)'
        BY <3>1, <3>2, <4>3 DEF TypeOK, LocalsOK, ShapeOf, VersionsOf, Goto, Locals, PlanSteps, InstallSteps,
           ReadSteps
      <4>5. ASSUME NEW x \in Workers \ {w} PROVE ShapeOf(x)' /\ VersionsOf(x)'
        BY <3>2, <1>sk, <1>vk DEF TypeOK, LocalsOK, Goto, Locals
      <4> QED
        BY <4>2, <4>4, <4>5 DEF Shape, VersionsRead
    <3>3. CASE PriceRefused(w)
      <4>1. TypeOK'
        <5>1. RowsOK'
          BY <3>3, <1>rk
        <5>2. LocalsOK'
          BY <3>3, EndLocals DEF TypeOK, LocalsOK
        <5> QED
          BY <5>1, <5>2 DEF TypeOK
      <4>2. ASSUME NEW x \in Workers PROVE ShapeOf(x)' /\ VersionsOf(x)'
        BY <3>3, <1>sk, <1>vk, EndedFine DEF TypeOK, LocalsOK, Goto, End
      <4> QED
        BY <4>1, <4>2 DEF Shape, VersionsRead
    <3> QED
      BY <3>2, <3>3
  <2>8. CASE NextPlanVersion(w)
    <3> USE <2>8 DEF NextPlanVersion
    <3>1. TypeOK'
      <4>1. RowsOK'
        BY <1>rk
      <4>2. LocalsOK'
        BY <1>nv, <1>bd DEF TypeOK, LocalsOK, Goto, Steps
      <4> QED
        BY <4>1, <4>2 DEF TypeOK
    <3>2. PriceRefused(w)' <=> PriceRefused(w)
      BY DEF PriceRefused, AskedInterval, AskedMode, AskedFree
    <3>3. ShapeOf(w)' /\ VersionsOf(w)'
      BY <1>nv, <1>bd, <3>2 DEF TypeOK, LocalsOK, Shape, ShapeOf, VersionsOf, Goto, PlanSteps, InstallSteps,
         ReadSteps
    <3>4. ASSUME NEW x \in Workers \ {w} PROVE ShapeOf(x)' /\ VersionsOf(x)'
      BY <1>sk, <1>vk DEF TypeOK, LocalsOK, Goto
    <3> QED
      BY <3>1, <3>3, <3>4 DEF Shape, VersionsRead
  <2>9. CASE ArchiveActivePlans(w)
    <3> USE <2>9 DEF ArchiveActivePlans
    <3>1. plans' \in [1 .. np -> Plan]
      BY <1>np DEF Plan
    <3>2. TypeOK'
      <4>1. RowsOK'
        BY <3>1 DEF TypeOK, RowsOK
      <4>2. LocalsOK'
        BY GotoLocals DEF TypeOK, Steps
      <4> QED
        BY <4>1, <4>2 DEF TypeOK
    <3>3. PriceRefused(w)' <=> PriceRefused(w)
      BY DEF Locals, PriceRefused, AskedInterval, AskedMode, AskedFree
    <3>4. NextVersion(plans') = np + 1 /\ NextVersion(snaps') = ns + 1
      BY <3>1, <1>bd, <1>nv, NextOfInterval
    <3>5. ShapeOf(w)' /\ VersionsOf(w)'
      BY <1>nv, <1>bd, <3>3, <3>4 DEF TypeOK, LocalsOK, Shape, VersionsRead, ShapeOf, VersionsOf, Goto,
         Locals, PlanSteps, InstallSteps, ReadSteps
    <3>6. ASSUME NEW x \in Workers \ {w} PROVE ShapeOf(x)' /\ VersionsOf(x)'
      BY <3>1, <1>sk, <1>vk DEF TypeOK, LocalsOK, Goto, Locals
    <3> QED
      BY <3>2, <3>5, <3>6 DEF Shape, VersionsRead
  <2>10. CASE CreateBillingPlan(w)
    <3> USE <2>10 DEF CreateBillingPlan
    <3>1. plans' = plans \/ (np + 1 \in 0 .. MaxVersion /\ plans' \in [1 .. np + 1 -> Plan])
      <4>1. CASE ver[w] \in DOMAIN plans
        BY <4>1
      <4>2. CASE ver[w] \notin DOMAIN plans
        <5>1. ver[w] = np + 1
          BY <4>2, <1>np, <1>nv, <1>bd DEF VersionsRead, VersionsOf
        <5>2. np + 1 \in 0 .. MaxVersion
          BY <5>1, <1>bd DEF TypeOK, LocalsOK
        <5>3. [status |-> "active", mode |-> AskedMode(w), interval |-> AskedInterval(w)] \in Plan
          BY AskedTypes DEF Shape, ShapeOf, PlanSteps, Plan
        <5> QED
          BY <4>2, <5>1, <5>2, <5>3, <1>np, <1>bd, InsertNext
      <4> QED
        BY <4>1, <4>2
    <3>2. TypeOK'
      <4>1. RowsOK'
        BY <3>1 DEF TypeOK, RowsOK
      <4>2. LocalsOK'
        BY EndLocals DEF TypeOK, LocalsOK
      <4> QED
        BY <4>1, <4>2 DEF TypeOK
    <3>3. ASSUME NEW x \in Workers PROVE ShapeOf(x)' /\ VersionsOf(x)'
      BY <3>1, <1>sk, <1>vk, EndedFine DEF TypeOK, LocalsOK, Goto, End
    <3> QED
      BY <3>2, <3>3 DEF Shape, VersionsRead
  <2>11. CASE GetPublicCollection(w)
    <3> USE <2>11 DEF GetPublicCollection
    <3>1. TypeOK'
      <4>1. RowsOK'
        BY <1>rk
      <4>2. LocalsOK'
        BY EndLocals DEF TypeOK, LocalsOK, RowsOK, Goto, Steps
      <4> QED
        BY <4>1, <4>2 DEF TypeOK
    <3>2. ShapeOf(w)' /\ VersionsOf(w)'
      BY <1>nv, <1>bd, EndedFine DEF TypeOK, RowsOK, LocalsOK, Shape, VersionsRead, ShapeOf, VersionsOf, Goto,
         End, Locals, PlanSteps, InstallSteps, ReadSteps
    <3>3. ASSUME NEW x \in Workers \ {w} PROVE ShapeOf(x)' /\ VersionsOf(x)'
      BY <1>sk, <1>vk DEF TypeOK, LocalsOK, Goto, End, Locals
    <3> QED
      BY <3>1, <3>2, <3>3 DEF Shape, VersionsRead
  <2>12. CASE GetTrackedSnapshot(w)
    <3> USE <2>12 DEF GetTrackedSnapshot
    <3>0. req[w].track \in 0 .. MaxVersion
      BY DEF Shape, ShapeOf, InstallSteps, InstallRequest
    <3>1. TypeOK'
      <4>1. RowsOK'
        BY <1>rk
      <4>2. LocalsOK'
        <5>1. CASE End(w)
          BY <5>1, EndLocals DEF TypeOK, LocalsOK
        <5>2. CASE ~End(w)
          <6>1. PICK v \in DOMAIN snaps : ver' = [ver EXCEPT ![w] = v]
            BY <5>2
          <6>2. v \in 0 .. MaxVersion
            BY <1>ns, <1>bd
          <6> QED
            BY <5>2, <6>1, <6>2 DEF TypeOK, LocalsOK, Goto, Steps
        <5> QED
          BY <5>1, <5>2
      <4> QED
        BY <4>1, <4>2 DEF TypeOK
    <3>2. ShapeOf(w)' /\ VersionsOf(w)'
      BY EndedFine DEF TypeOK, LocalsOK, Shape, ShapeOf, VersionsOf, Goto, End, PlanSteps, InstallSteps,
         ReadSteps
    <3>3. ASSUME NEW x \in Workers \ {w} PROVE ShapeOf(x)' /\ VersionsOf(x)'
      BY <1>sk, <1>vk DEF TypeOK, LocalsOK, Goto, End
    <3> QED
      BY <3>1, <3>2, <3>3 DEF Shape, VersionsRead
  <2>13. CASE FindSubscription(w)
    <3> USE <2>13 DEF FindSubscription
    <3>1. TypeOK'
      <4>1. RowsOK'
        BY <1>rk
      <4>2. LocalsOK'
        BY GotoLocals DEF TypeOK, Steps
      <4> QED
        BY <4>1, <4>2 DEF TypeOK
    <3>2. ShapeOf(w)' /\ VersionsOf(w)'
      BY <1>nv, <1>bd, EndedFine DEF TypeOK, LocalsOK, Shape, VersionsRead, ShapeOf, VersionsOf, Goto,
         End, Locals, PlanSteps, InstallSteps, ReadSteps
    <3>3. ASSUME NEW x \in Workers \ {w} PROVE ShapeOf(x)' /\ VersionsOf(x)'
      BY <1>sk, <1>vk DEF TypeOK, LocalsOK, Goto, End, Locals
    <3> QED
      BY <3>1, <3>2, <3>3 DEF Shape, VersionsRead
  <2>14. CASE UpsertSubscription(w)
    <3> USE <2>14 DEF UpsertSubscription
    <3>1. /\ req[w] \in InstallRequest /\ row[w] \in Collection
          /\ ver[w] \in DOMAIN snaps /\ req[w].track \in {0, ver[w]}
      BY DEF Shape, ShapeOf, InstallSteps
    <3>2. NewSubscription(w) \in Subscription
      BY <3>1, <1>ns, <1>bd, NewSubscriptionType DEF Versions
    <3>3. NewSubscription(w).snap = ver[w] /\ NewSubscription(w).track = req[w].track
      BY DEF NewSubscription
    <3>4. /\ subs' \in [Users -> Subscription \union {None}]
          /\ \A u \in Users : subs'[u] # None =>
               subs'[u].snap \in DOMAIN snaps /\ subs'[u].track \in {0, subs'[u].snap}
      BY <3>1, <3>2, <3>3 DEF TypeOK, RowsOK, InstallRequest
    <3>5. held' \in [Workers -> BOOLEAN]
      BY DEF TypeOK, LocalsOK, SawInstall
    <3>6. TypeOK'
      <4>1. RowsOK'
        BY <3>4 DEF TypeOK, RowsOK
      <4>2. LocalsOK'
        <5>1. /\ pc' = [pc EXCEPT ![w] = "idle"] /\ req' = [req EXCEPT ![w] = None]
              /\ row' = [row EXCEPT ![w] = None] /\ ver' = [ver EXCEPT ![w] = 0]
              /\ begun' = begun /\ torn' = torn
          BY DEF Goto
        <5>2. pc' \in [Workers -> Steps] /\ ver' \in [Workers -> 0 .. MaxVersion]
          BY <5>1, <1>bd DEF TypeOK, LocalsOK, Steps
        <5>3. /\ req' \in [Workers -> Request \union {None}]
              /\ row' \in [Workers -> Collection \union {None}]
          BY <5>1 DEF TypeOK, LocalsOK
        <5> HIDE <2>14 DEF UpsertSubscription
        <5> QED
          BY <5>1, <5>2, <5>3, <3>5 DEF TypeOK, LocalsOK
      <4> QED
        BY <4>1, <4>2 DEF TypeOK
    <3>7. ASSUME NEW x \in Workers PROVE ShapeOf(x)' /\ VersionsOf(x)'
      BY <1>sk, <1>vk, EndedFine DEF TypeOK, LocalsOK, Goto
    <3> QED
      BY <3>6, <3>7 DEF Shape, VersionsRead
  <2>15. CASE AuthorizeSnapshot(w)
    <3> USE <2>15 DEF AuthorizeSnapshot
    <3>1. TypeOK'
      <4>1. RowsOK'
        BY <1>rk
      <4>2. LocalsOK'
        BY EndLocals, GotoLocals DEF TypeOK, LocalsOK, Steps
      <4> QED
        BY <4>1, <4>2 DEF TypeOK
    <3>2. ShapeOf(w)' /\ VersionsOf(w)'
      BY <1>nv, <1>bd, EndedFine DEF TypeOK, LocalsOK, Shape, VersionsRead, ShapeOf, VersionsOf, Goto,
         End, Locals, PlanSteps, InstallSteps, ReadSteps
    <3>3. ASSUME NEW x \in Workers \ {w} PROVE ShapeOf(x)' /\ VersionsOf(x)'
      BY <1>sk, <1>vk DEF TypeOK, LocalsOK, Goto, End, Locals
    <3> QED
      BY <3>1, <3>2, <3>3 DEF Shape, VersionsRead
  <2>16. CASE GetActiveSubscription(w)
    <3> USE <2>16 DEF GetActiveSubscription
    <3>1. TypeOK'
      <4>1. RowsOK'
        BY <1>rk
      <4>2. LocalsOK'
        BY EndLocals, GotoLocals DEF TypeOK, LocalsOK, Steps
      <4> QED
        BY <4>1, <4>2 DEF TypeOK
    <3>2. ShapeOf(w)' /\ VersionsOf(w)'
      BY <1>nv, <1>bd, EndedFine DEF TypeOK, LocalsOK, Shape, VersionsRead, ShapeOf, VersionsOf, Goto,
         End, Locals, PlanSteps, InstallSteps, ReadSteps
    <3>3. ASSUME NEW x \in Workers \ {w} PROVE ShapeOf(x)' /\ VersionsOf(x)'
      BY <1>sk, <1>vk DEF TypeOK, LocalsOK, Goto, End, Locals
    <3> QED
      BY <3>1, <3>2, <3>3 DEF Shape, VersionsRead
  <2>17. CASE GetLatestSnapshot(w)
    <3> USE <2>17 DEF GetLatestSnapshot
    <3>1. TypeOK'
      <4>1. RowsOK'
        BY <1>rk
      <4>2. LocalsOK'
        BY EndLocals, GotoLocals DEF TypeOK, LocalsOK, Steps
      <4> QED
        BY <4>1, <4>2 DEF TypeOK
    <3>2. ShapeOf(w)' /\ VersionsOf(w)'
      BY <1>nv, <1>bd, EndedFine DEF TypeOK, LocalsOK, Shape, VersionsRead, ShapeOf, VersionsOf, Goto,
         End, Locals, PlanSteps, InstallSteps, ReadSteps
    <3>3. ASSUME NEW x \in Workers \ {w} PROVE ShapeOf(x)' /\ VersionsOf(x)'
      BY <1>sk, <1>vk DEF TypeOK, LocalsOK, Goto, End, Locals
    <3> QED
      BY <3>1, <3>2, <3>3 DEF Shape, VersionsRead
  <2>18. CASE ServeContent(w)
    <3> USE <2>18 DEF ServeContent
    <3>1. TypeOK'
      <4>1. RowsOK'
        BY <1>rk
      <4>2. LocalsOK'
        BY EndLocals DEF TypeOK, LocalsOK
      <4> QED
        BY <4>1, <4>2 DEF TypeOK
    <3>2. ShapeOf(w)' /\ VersionsOf(w)'
      BY <1>nv, <1>bd, EndedFine DEF TypeOK, LocalsOK, Shape, VersionsRead, ShapeOf, VersionsOf, Goto,
         End, Locals, PlanSteps, InstallSteps, ReadSteps
    <3>3. ASSUME NEW x \in Workers \ {w} PROVE ShapeOf(x)' /\ VersionsOf(x)'
      BY <1>sk, <1>vk DEF TypeOK, LocalsOK, Goto, End, Locals
    <3> QED
      BY <3>1, <3>2, <3>3 DEF Shape, VersionsRead
  <2>19. CASE Abort(w)
    <3> USE <2>19 DEF Abort
    <3>1. TypeOK'
      <4>1. RowsOK'
        BY <1>rk
      <4>2. LocalsOK'
        BY EndLocals DEF TypeOK, LocalsOK
      <4> QED
        BY <4>1, <4>2 DEF TypeOK
    <3>2. ShapeOf(w)' /\ VersionsOf(w)'
      BY <1>nv, <1>bd, EndedFine DEF TypeOK, LocalsOK, Shape, VersionsRead, ShapeOf, VersionsOf, Goto,
         End, Locals, PlanSteps, InstallSteps, ReadSteps
    <3>3. ASSUME NEW x \in Workers \ {w} PROVE ShapeOf(x)' /\ VersionsOf(x)'
      BY <1>sk, <1>vk DEF TypeOK, LocalsOK, Goto, End, Locals
    <3> QED
      BY <3>1, <3>2, <3>3 DEF Shape, VersionsRead
  <2> QED
    BY <1>1, <2>1, <2>2, <2>3, <2>4, <2>5, <2>6, <2>7, <2>8, <2>9, <2>10, <2>11, <2>12, <2>13, <2>14, <2>15, <2>16, <2>17, <2>18, <2>19
\* The steps that no request takes leave the local variables alone.
<1>q. ASSUME UNCHANGED <<pc, Locals>>, TypeOK', DOMAIN snaps' = DOMAIN snaps, plans' = plans
      PROVE  TInv'
  <2>1. snaps' \in [1 .. ns -> SnapshotStatus]
    <3>1. PICK n \in 0 .. MaxVersion : snaps' \in [1 .. n -> SnapshotStatus]
      BY <1>q DEF TypeOK, RowsOK
    <3> QED
      BY <3>1, <1>q, <1>ns
  <2>2. ASSUME NEW x \in Workers PROVE ShapeOf(x)' /\ VersionsOf(x)'
    BY <1>q, <2>1, <1>sk, <1>vk DEF Locals
  <2> QED
    BY <1>q, <2>2 DEF Shape, VersionsRead
<1>2. ASSUME NEW v \in Versions, ArchiveSnapshot(v) \/ RestoreSnapshot(v) PROVE TInv'
  <2>1. snaps' \in [1 .. ns -> SnapshotStatus] /\ DOMAIN snaps' = DOMAIN snaps
    BY <1>2, <1>ns DEF ArchiveSnapshot, RestoreSnapshot, SnapshotStatus
  <2>2. TypeOK'
    <3>1. RowsOK'
      BY <1>2, <2>1 DEF ArchiveSnapshot, RestoreSnapshot, TypeOK, RowsOK
    <3>2. LocalsOK'
      BY <1>2 DEF ArchiveSnapshot, RestoreSnapshot, TypeOK, LocalsOK, Locals
    <3> QED
      BY <3>1, <3>2 DEF TypeOK
  <2> QED
    BY <1>2, <2>1, <2>2, <1>q DEF ArchiveSnapshot, RestoreSnapshot
<1>3. ASSUME NEW s \in {"approved", "rejected", "takedown"}, ReviewCollection(s) PROVE TInv'
  <2>1. coll' \in Collection
    BY <1>3 DEF ReviewCollection, TypeOK, RowsOK, Collection
  <2>2. TypeOK'
    <3>1. RowsOK'
      BY <1>3, <2>1 DEF ReviewCollection, TypeOK, RowsOK
    <3>2. LocalsOK'
      BY <1>3 DEF ReviewCollection, TypeOK, LocalsOK, Locals
    <3> QED
      BY <3>1, <3>2 DEF TypeOK
  <2> QED
    BY <1>3, <2>2, <1>q DEF ReviewCollection
<1>4. ASSUME NEW u \in Users, CancelSubscription(u) \/ PeriodEnds(u) PROVE TInv'
  <2>0. subs[u] \in Subscription
    BY <1>4 DEF CancelSubscription, PeriodEnds, ActiveSub, TypeOK, RowsOK
  <2>1. subs' \in [Users -> Subscription \union {None}]
    <3>1. [subs[u] EXCEPT !.status = "cancelled"] \in Subscription
      BY <2>0 DEF Subscription
    <3>2. [subs[u] EXCEPT !.ends = "due"] \in Subscription
      BY <2>0 DEF Subscription, Ends
    <3> QED
      BY <1>4, <3>1, <3>2 DEF CancelSubscription, PeriodEnds, TypeOK, RowsOK
  <2>2. \A x \in Users : subs'[x] # None =>
          subs'[x].snap \in DOMAIN snaps /\ subs'[x].track \in {0, subs'[x].snap}
    BY <1>4 DEF CancelSubscription, PeriodEnds, ActiveSub, TypeOK, RowsOK, Subscription
  <2>3. TypeOK'
    <3>1. RowsOK'
      BY <1>4, <2>1, <2>2 DEF CancelSubscription, PeriodEnds, TypeOK, RowsOK
    <3>2. LocalsOK'
      BY <1>4 DEF CancelSubscription, PeriodEnds, TypeOK, LocalsOK, Locals
    <3> QED
      BY <3>1, <3>2 DEF TypeOK
  <2> QED
    BY <1>4, <2>3, <1>q DEF CancelSubscription, PeriodEnds
<1>5. CASE ExpireSubscriptions
  <2>1. subs' \in [Users -> Subscription \union {None}]
    BY <1>5 DEF ExpireSubscriptions, Overdue, ActiveSub, TypeOK, RowsOK, Subscription
  <2>2. \A x \in Users : subs'[x] # None =>
          subs'[x].snap \in DOMAIN snaps /\ subs'[x].track \in {0, subs'[x].snap}
    BY <1>5 DEF ExpireSubscriptions, Overdue, ActiveSub, TypeOK, RowsOK, Subscription
  <2>3. TypeOK'
    <3>1. RowsOK'
      BY <1>5, <2>1, <2>2 DEF ExpireSubscriptions, TypeOK, RowsOK
    <3>2. LocalsOK'
      BY <1>5 DEF ExpireSubscriptions, TypeOK, LocalsOK, Locals
    <3> QED
      BY <3>1, <3>2 DEF TypeOK
  <2> QED
    BY <1>5, <2>3, <1>q DEF ExpireSubscriptions
<1>6. CASE UNCHANGED vars
  <2>1. TypeOK'
    <3>1. RowsOK'
      BY <1>6, <1>rk DEF vars
    <3>2. LocalsOK'
      BY <1>6 DEF vars, TypeOK, LocalsOK
    <3> QED
      BY <3>1, <3>2 DEF TypeOK
  <2> QED
    BY <1>6, <2>1, <1>q DEF vars, Locals
<1> QED
  BY <1>1, <1>2, <1>3, <1>4, <1>5, <1>6 DEF Next

-----------------------------------------------------------------------------
(* The theorems.                                                           *)

\* The types, the shape of the requests and the numbering of versions hold always.
THEOREM TypeInvariant == Spec => []TInv
BY TypeInit, TypeStep, PTL DEF Spec

\* Rows and requests keep their types, and the versions of snapshots and plans run
\* from 1 without a gap, whatever requests overlap.
THEOREM TypeCorrect == Spec => []TypeOK
<1>1. TInv => TypeOK
  BY DEF TInv
<1> QED
  BY <1>1, TypeInvariant, PTL

\* A publication appends the next version or nothing, and changes no other
\* snapshot: the unique index decides between publishers that read the same MAX.
THEOREM PublicationAppends == Spec => SnapshotsAppended
<1> DEFINE A == \/ UNCHANGED snaps
                \/ DOMAIN snaps' = DOMAIN snaps /\ UNCHANGED pc
                \/ /\ DOMAIN snaps' \ DOMAIN snaps = {NextVersion(snaps)}
                   /\ \A v \in DOMAIN snaps : v \in DOMAIN snaps' /\ snaps'[v] = snaps[v]
<1>1. TInv /\ [Next]_vars => [A]_vars
  <2> SUFFICES ASSUME TInv, Next PROVE A
    OBVIOUS
  <2>1. CASE \E v \in Versions : ArchiveSnapshot(v) \/ RestoreSnapshot(v)
    BY <2>1 DEF ArchiveSnapshot, RestoreSnapshot
  <2>2. ASSUME NEW w \in Workers, CreateSnapshot(w), ver[w] \notin DOMAIN snaps PROVE A
    <3>1. PICK n \in 0 .. MaxVersion : snaps \in [1 .. n -> SnapshotStatus]
      BY DEF TInv, TypeOK, RowsOK
    <3>2. n \in Nat /\ NextVersion(snaps) = n + 1
      BY <3>1, HubAssumption, NextOfInterval
    <3>3. ver[w] = n + 1
      BY <2>2, <3>1, <3>2 DEF TInv, VersionsRead, VersionsOf, CreateSnapshot
    <3>4. snaps' = Insert(snaps, n + 1, "active")
      BY <2>2, <3>3 DEF CreateSnapshot
    <3> QED
      BY <3>1, <3>2, <3>4 DEF Insert
  <2>3. ASSUME NEW w \in Workers, CreateSnapshot(w), ver[w] \in DOMAIN snaps PROVE A
    BY <2>3 DEF CreateSnapshot
  <2>4. CASE UNCHANGED snaps
    BY <2>4
  <2> QED
    BY <2>1, <2>2, <2>3, <2>4 DEF Next, Begin, NextSnapshotVersion, MarkCollectionPublished,
       GetCollection, UpdateCollectionDeclarations, UpdateCollectionPricing, NextPlanVersion,
       ArchiveActivePlans, CreateBillingPlan, GetPublicCollection, GetTrackedSnapshot,
       FindSubscription, UpsertSubscription, AuthorizeSnapshot, GetActiveSubscription,
       GetLatestSnapshot, ServeContent, Abort, ReviewCollection, CancelSubscription, PeriodEnds,
       ExpireSubscriptions
<1> QED
  BY <1>1, TypeInvariant, PTL DEF Spec, SnapshotsAppended

\* The order of the plans survives every step: an insertion takes the version every
\* other request has read, and an archiving leaves nothing active.
LEMMA PlanStep == TInv /\ PInv /\ [Next]_vars => PInv'
<1> SUFFICES ASSUME TInv, PInv, [Next]_vars PROVE PInv'
  OBVIOUS
<1>np. PICK np \in 0 .. MaxVersion : plans \in [1 .. np -> Plan]
  BY DEF TInv, TypeOK, RowsOK
<1>nv. np \in Nat /\ NextVersion(plans) = np + 1
  BY <1>np, HubAssumption, NextOfInterval
<1>pc. pc \in [Workers -> Steps] /\ ver \in [Workers -> 0 .. MaxVersion]
  BY DEF TInv, TypeOK, LocalsOK
<1>1. ASSUME NEW w \in Workers, ArchiveActivePlans(w) PROVE PInv'
  <2>1. \A v \in DOMAIN plans' : plans'[v].status = "archived"
    BY <1>1, <1>np DEF ArchiveActivePlans, Plan
  <2> QED
    BY <2>1 DEF PInv, OneActivePlan, PlanOrder
<1>2. ASSUME NEW w \in Workers, CreateBillingPlan(w) PROVE PInv'
  <2>0. \A x \in Workers : x # w => pc'[x] = pc[x] /\ ver'[x] = ver[x]
    BY <1>2, <1>pc DEF CreateBillingPlan, End, Goto
  <2>w. pc'[w] = "idle"
    BY <1>2, <1>pc DEF CreateBillingPlan, End, Goto
  <2>1. CASE ver[w] \in DOMAIN plans
    <3>1. plans' = plans
      BY <1>2, <2>1 DEF CreateBillingPlan
    <3> QED
      BY <3>1, <2>0, <2>w DEF PInv, OneActivePlan, PlanOrder
  <2>2. CASE ver[w] \notin DOMAIN plans
    <3>1. ver[w] = np + 1
      BY <2>2, <1>2, <1>np, <1>nv DEF TInv, VersionsRead, VersionsOf, CreateBillingPlan
    <3>2. DOMAIN plans' = 1 .. np + 1 /\ \A v \in 1 .. np : plans'[v] = plans[v]
      <4>1. \E r : plans' = Insert(plans, np + 1, r)
        BY <1>2, <2>2, <3>1 DEF CreateBillingPlan
      <4> QED
        BY <4>1, <1>np, <1>nv DEF Insert
    <3>3. \A v \in 1 .. np : plans[v].status = "archived"
      BY <2>2, <1>2, <1>np DEF PInv, PlanOrder, CreateBillingPlan
    <3>4. OneActivePlan'
      BY <3>2, <3>3, <1>nv DEF OneActivePlan
    <3>5. ASSUME NEW x \in Workers, pc'[x] = "createPlan" PROVE ver'[x] \in DOMAIN plans'
      BY <3>5, <3>2, <2>0, <2>w, <1>nv DEF TInv, VersionsRead, VersionsOf
    <3> QED
      BY <3>4, <3>5 DEF PInv, PlanOrder
  <2> QED
    BY <2>1, <2>2
<1>3. ASSUME UNCHANGED plans,
             \A x \in Workers : pc'[x] = "createPlan" => pc[x] = "createPlan" /\ ver'[x] = ver[x]
      PROVE  PInv'
  BY <1>3 DEF PInv, OneActivePlan, PlanOrder
<1>4. ASSUME NEW w \in Workers,
             \/ \E r \in Requests : Begin(w, r)
             \/ NextSnapshotVersion(w) \/ CreateSnapshot(w) \/ MarkCollectionPublished(w)
             \/ GetCollection(w) \/ UpdateCollectionDeclarations(w)
             \/ UpdateCollectionPricing(w) \/ NextPlanVersion(w)
             \/ GetPublicCollection(w) \/ GetTrackedSnapshot(w) \/ FindSubscription(w)
             \/ UpsertSubscription(w)
             \/ AuthorizeSnapshot(w) \/ GetActiveSubscription(w) \/ GetLatestSnapshot(w)
             \/ ServeContent(w) \/ Abort(w)
      PROVE  PInv'
  <2>1. plans' = plans
    BY <1>4 DEF Begin, NextSnapshotVersion, CreateSnapshot, MarkCollectionPublished,
       GetCollection, UpdateCollectionDeclarations, UpdateCollectionPricing, NextPlanVersion,
       GetPublicCollection, GetTrackedSnapshot, FindSubscription, UpsertSubscription,
       AuthorizeSnapshot, GetActiveSubscription, GetLatestSnapshot, ServeContent, Abort
  <2>2. PICK s : pc' = [pc EXCEPT ![w] = s] /\ (s # "createPlan" \/ \E r \in Requests : Begin(w, r))
    BY <1>4 DEF Begin, NextSnapshotVersion, CreateSnapshot, MarkCollectionPublished,
       GetCollection, UpdateCollectionDeclarations, UpdateCollectionPricing, NextPlanVersion,
       GetPublicCollection, GetTrackedSnapshot, FindSubscription, UpsertSubscription,
       AuthorizeSnapshot, GetActiveSubscription, GetLatestSnapshot, ServeContent, Abort,
       End, Goto
  <2>3. pc'[w] # "createPlan"
    <3>1. ASSUME NEW r \in Requests, Begin(w, r) PROVE pc'[w] # "createPlan"
      <4>1. r.op \in {"publish", "declare", "price", "install", "read"}
        BY HubAssumption DEF Request, PlainRequest, PriceRequest, InstallRequest, ReadRequest
      <4> QED
        BY <3>1, <4>1, <1>pc DEF Begin, Goto, FirstStep
    <3> QED
      BY <2>2, <3>1, <1>pc
  <2>4. \A x \in Workers : x # w => ver'[x] = ver[x]
    BY <1>4, <1>pc DEF Begin, NextSnapshotVersion, CreateSnapshot, MarkCollectionPublished,
       GetCollection, UpdateCollectionDeclarations, UpdateCollectionPricing, NextPlanVersion,
       GetPublicCollection, GetTrackedSnapshot, FindSubscription, UpsertSubscription,
       AuthorizeSnapshot, GetActiveSubscription, GetLatestSnapshot, ServeContent, Abort,
       End, Locals
  <2> QED
    BY <2>1, <2>2, <2>3, <2>4, <1>3, <1>pc
<1>5. ASSUME UNCHANGED <<plans, pc, ver>> PROVE PInv'
  BY <1>3, <1>5
<1> QED
  BY <1>1, <1>2, <1>4, <1>5 DEF Next, vars, Locals, ArchiveSnapshot, RestoreSnapshot,
     ReviewCollection, CancelSubscription, PeriodEnds, ExpireSubscriptions

\* A collection never has two active billing plans, however many pricing requests
\* overlap in UpsertBillingPlan.
THEOREM PlansExclusive == Spec => []OneActivePlan
<1>1. Init => PInv
  BY DEF Init, PInv, OneActivePlan, PlanOrder
<1>2. PInv => OneActivePlan
  BY DEF PInv
<1> QED
  BY <1>1, <1>2, PlanStep, TypeInvariant, PTL DEF Spec

\* A reader that may see an active subscription has the history to show for it.
LEMMA HeldStep == TInv /\ HeldOrder /\ [Next]_vars => HeldOrder'
<1> SUFFICES ASSUME TInv, HeldOrder, [Next]_vars PROVE HeldOrder'
  OBVIOUS
<1>ty. /\ pc \in [Workers -> Steps] /\ req \in [Workers -> Request \union {None}]
       /\ held \in [Workers -> BOOLEAN] /\ subs \in [Users -> Subscription \union {None}]
  BY DEF TInv, TypeOK, RowsOK, LocalsOK
<1>rd. \A x \in Workers : pc[x] \in ReadSteps => req[x].op = "read" /\ req[x].user \in Users
  BY DEF TInv, Shape, ShapeOf, ReadRequest
\* Nobody gains a subscription, and each reader stays or ends.
<1>g. ASSUME \A u \in Users : ActiveSub(u)' => ActiveSub(u),
             \A x \in Workers :
               \/ pc'[x] \notin ReadSteps
               \/ UNCHANGED <<pc[x], req[x], held[x]>>
      PROVE  HeldOrder'
  <2> SUFFICES ASSUME NEW x \in Workers, pc'[x] \in ReadSteps
               PROVE  /\ ActiveSub(req[x].user)' => held'[x]
                      /\ pc'[x] \in {"getLatest", "served"} => held'[x]
    BY DEF HeldOrder, ReadSteps
  <2>1. pc'[x] = pc[x] /\ req'[x] = req[x] /\ held'[x] = held[x]
    BY <1>g
  <2>2. ActiveSub(req[x].user)' => ActiveSub(req[x].user)
    BY <1>g, <1>rd, <2>1 DEF ActiveSub
  <2> QED
    BY <2>1, <2>2 DEF HeldOrder
<1>s. ASSUME subs' = subs PROVE \A u \in Users : ActiveSub(u)' => ActiveSub(u)
  BY <1>s DEF ActiveSub
<1>1. ASSUME NEW w \in Workers, NEW r \in Requests, Begin(w, r) PROVE HeldOrder'
  <2>1. r \in Request
    BY HubAssumption
  <2>2. CASE r.op = "read"
    <3>1. pc'[w] = "getSnapshot" /\ req'[w] = r
      BY <1>1, <2>2, <1>ty DEF Begin, Goto, FirstStep
    <3>h. held'[w] = (r.op = "read" /\ ActiveSub(r.user))
      BY <1>1, <1>ty DEF Begin
    <3>2. ActiveSub(req[w].user)' => held'[w]
      BY <1>1, <2>2, <3>1, <3>h DEF Begin, ActiveSub
    <3>3. ASSUME NEW x \in Workers, x # w
          PROVE  UNCHANGED <<pc[x], req[x], held[x]>> /\ (ActiveSub(req[x].user)' <=> ActiveSub(req[x].user))
      BY <1>1, <3>3, <1>ty DEF Begin, Goto, ActiveSub
    <3> QED
      BY <3>1, <3>2, <3>3 DEF HeldOrder
  <2>3. CASE r.op # "read"
    <3>1. r.op \in {"publish", "declare", "price", "install"}
      BY <2>1, <2>3 DEF Request, PlainRequest, PriceRequest, InstallRequest, ReadRequest
    <3>2. pc'[w] \notin ReadSteps
      BY <1>1, <3>1, <1>ty DEF Begin, Goto, FirstStep, ReadSteps
    <3> QED
      BY <1>1, <3>2, <1>g, <1>s, <1>ty DEF Begin, Goto
  <2> QED
    BY <2>2, <2>3
<1>2. ASSUME NEW w \in Workers, UpsertSubscription(w) PROVE HeldOrder'
  <2>1. pc'[w] = "idle" /\ req[w].user \in Users
    BY <1>2, <1>ty DEF UpsertSubscription, Goto, TInv, Shape, ShapeOf, InstallSteps, InstallRequest
  <2>2. ASSUME NEW x \in Workers, x # w
        PROVE  /\ pc'[x] = pc[x] /\ req'[x] = req[x]
               /\ held[x] => held'[x]
               /\ pc[x] \in ReadSteps /\ subs'[req[x].user] # subs[req[x].user] => held'[x]
    <3>1. pc'[x] = pc[x] /\ req'[x] = req[x]
      BY <1>2, <2>2, <1>ty DEF UpsertSubscription, Goto
    <3>2. CASE subs' = subs
      BY <1>2, <2>2, <3>1, <3>2, <1>ty DEF UpsertSubscription, SawInstall
    <3>3. CASE subs' # subs
      <4>1. /\ subs' = [subs EXCEPT ![req[w].user] = NewSubscription(w)]
            /\ held'[x] = (held[x] \/ (pc[x] # "idle" /\ req[x].op = "read" /\ req[x].user = req[w].user))
        BY <1>2, <2>2, <3>3 DEF UpsertSubscription, SawInstall
      <4>2. pc[x] \in ReadSteps => pc[x] # "idle"
        BY DEF ReadSteps
      <4> QED
        BY <3>1, <4>1, <4>2, <1>rd, <1>ty
    <3> QED
      BY <3>2, <3>3
  <2> QED
    BY <2>1, <2>2, <1>rd, <1>ty DEF HeldOrder, ActiveSub, ReadSteps
<1>3. ASSUME NEW w \in Workers, GetActiveSubscription(w) PROVE HeldOrder'
  <2>1. pc'[w] \in ReadSteps =>
          held[w] /\ held'[w] = held[w] /\ req'[w] = req[w]
    BY <1>3, <1>ty DEF GetActiveSubscription, End, Goto, Locals, HeldOrder, ReadSteps
  <2>2. ASSUME NEW x \in Workers, x # w PROVE UNCHANGED <<pc[x], req[x], held[x]>>
    BY <1>3, <2>2, <1>ty DEF GetActiveSubscription, End, Goto, Locals
  <2>3. subs' = subs
    BY <1>3 DEF GetActiveSubscription
  <2> QED
    BY <2>1, <2>2, <2>3 DEF HeldOrder, ActiveSub, ReadSteps
<1>4. ASSUME NEW w \in Workers, AuthorizeSnapshot(w) \/ GetLatestSnapshot(w) PROVE HeldOrder'
  <2>1. pc'[w] \in ReadSteps => pc[w] \in ReadSteps /\ held'[w] = held[w] /\ req'[w] = req[w]
    BY <1>4, <1>ty DEF AuthorizeSnapshot, GetLatestSnapshot, End, Goto, Locals, ReadSteps
  <2>2. ASSUME NEW x \in Workers, x # w PROVE UNCHANGED <<pc[x], req[x], held[x]>>
    BY <1>4, <2>2, <1>ty DEF AuthorizeSnapshot, GetLatestSnapshot, End, Goto, Locals
  <2>3. subs' = subs
    BY <1>4 DEF AuthorizeSnapshot, GetLatestSnapshot
  <2>4. pc'[w] \in {"getLatest", "served"} => pc[w] = "getLatest"
    BY <1>4, <1>ty DEF AuthorizeSnapshot, GetLatestSnapshot, End, Goto
  <2> QED
    BY <2>1, <2>2, <2>3, <2>4 DEF HeldOrder, ActiveSub, ReadSteps
<1>5. ASSUME NEW w \in Workers,
             \/ NextSnapshotVersion(w) \/ CreateSnapshot(w) \/ MarkCollectionPublished(w)
             \/ GetCollection(w) \/ UpdateCollectionDeclarations(w)
             \/ UpdateCollectionPricing(w) \/ NextPlanVersion(w)
             \/ ArchiveActivePlans(w) \/ CreateBillingPlan(w)
             \/ GetPublicCollection(w) \/ GetTrackedSnapshot(w) \/ FindSubscription(w)
             \/ ServeContent(w) \/ Abort(w)
      PROVE  HeldOrder'
  <2>1. subs' = subs
    BY <1>5 DEF NextSnapshotVersion, CreateSnapshot, MarkCollectionPublished, GetCollection,
       UpdateCollectionDeclarations, UpdateCollectionPricing, NextPlanVersion,
       ArchiveActivePlans, CreateBillingPlan, GetPublicCollection, GetTrackedSnapshot,
       FindSubscription, ServeContent, Abort
  <2>2. pc'[w] \notin ReadSteps
    BY <1>5, <1>ty DEF NextSnapshotVersion, CreateSnapshot, MarkCollectionPublished,
       GetCollection, UpdateCollectionDeclarations, UpdateCollectionPricing, NextPlanVersion,
       ArchiveActivePlans, CreateBillingPlan, GetPublicCollection, GetTrackedSnapshot,
       FindSubscription, ServeContent, Abort, End, Goto, ReadSteps
  <2>3. ASSUME NEW x \in Workers, x # w PROVE UNCHANGED <<pc[x], req[x], held[x]>>
    BY <1>5, <2>3, <1>ty DEF NextSnapshotVersion, CreateSnapshot, MarkCollectionPublished,
       GetCollection, UpdateCollectionDeclarations, UpdateCollectionPricing, NextPlanVersion,
       ArchiveActivePlans, CreateBillingPlan, GetPublicCollection, GetTrackedSnapshot,
       FindSubscription, ServeContent, Abort, End, Goto, Locals
  <2> QED
    BY <2>1, <2>2, <2>3, <1>g, <1>s
<1>6. ASSUME NEW u \in Users, CancelSubscription(u) \/ PeriodEnds(u) PROVE HeldOrder'
  <2>1. \A x \in Users : ActiveSub(x)' => ActiveSub(x)
    BY <1>6, <1>ty DEF CancelSubscription, PeriodEnds, ActiveSub, Subscription
  <2> QED
    BY <1>6, <2>1, <1>g DEF CancelSubscription, PeriodEnds, Locals
<1>7. CASE ExpireSubscriptions
  <2>1. \A x \in Users : ActiveSub(x)' => ActiveSub(x)
    BY <1>7, <1>ty DEF ExpireSubscriptions, Overdue, ActiveSub, Subscription
  <2> QED
    BY <1>7, <2>1, <1>g DEF ExpireSubscriptions, Locals
<1>8. ASSUME UNCHANGED <<subs, pc, Locals>> PROVE HeldOrder'
  BY <1>8, <1>g, <1>s DEF Locals
<1> QED
  BY <1>1, <1>2, <1>3, <1>4, <1>5, <1>6, <1>7, <1>8 DEF Next, vars, Locals, ArchiveSnapshot,
     RestoreSnapshot, ReviewCollection

\* No installed download is answered after the subscription has ended: whatever the
\* interleaving with authorizeSnapshotAccess, the user held an active subscription
\* at some time during the request.
THEOREM DownloadsNeedSubscription == Spec => []ServedWhileInstalled
<1>1. Init => HeldOrder
  BY DEF Init, HeldOrder, ReadSteps
<1>2. HeldOrder => ServedWhileInstalled
  BY DEF HeldOrder, ServedWhileInstalled
<1> QED
  BY <1>1, <1>2, HeldStep, TypeInvariant, PTL DEF Spec
-----------------------------------------------------------------------------
(* Pricing: the plan and the collection agree.                             *)

\* A request that writes the collection's row back, and one that prices it.
Writing(w) == pc[w] # "idle" /\ req[w].op \in {"declare", "price"}

Pricing(w) == pc[w] # "idle" /\ req[w].op = "price"

\* Only these requests come to read the row and to save it.
Marked == \A w \in Workers : pc[w] \in {"readRow", "save"} => req[w].op \in {"declare", "price"}

\* A pricing request that nothing has overtaken has the row to itself.
Alone == \A w, x \in Workers : w # x /\ Pricing(w) => ~Writing(x)

\* The row a request is about to save has the pricing of the stored one; once it is saved
\* the stored one has what was asked for, and the version read for the plan stays free.
Agree(w) ==
  /\ pc[w] = "save" => row[w].mode = coll.mode /\ row[w].interval = coll.interval
  /\ pc[w] \in PlanSteps => coll.mode = AskedMode(w) /\ coll.interval = AskedInterval(w)
  /\ pc[w] \in {"archivePlans", "createPlan"} => ver[w] \notin DOMAIN plans

\* A plan that is active and has the collection's pricing.
Matched ==
  \E v \in DOMAIN plans : /\ plans[v].status = "active"
                          /\ plans[v].mode = coll.mode
                          /\ plans[v].interval = coll.interval

Untorn ==
  /\ Alone
  /\ \A w \in Workers : Agree(w)
  /\ (\A w \in Workers : pc[w] \notin PlanSteps) => DOMAIN plans = {} \/ Matched

Priced == Marked /\ (torn \/ Untorn)

\* The other requests stay where they are.
OthersKept(w) ==
  \A x \in Workers \ {w} :
    pc'[x] = pc[x] /\ req'[x] = req[x] /\ row'[x] = row[x] /\ ver'[x] = ver[x]

\* The pricing of the collection, and its plans, stay.
PricesKept == coll'.mode = coll.mode /\ coll'.interval = coll.interval /\ plans' = plans

LEMMA AgreeKept ==
  ASSUME NEW w \in Workers, Agree(w), pc'[w] = pc[w], req'[w] = req[w], row'[w] = row[w],
         ver'[w] = ver[w], PricesKept
  PROVE  Agree(w)'
<1>1. AskedMode(w)' = AskedMode(w)
  BY DEF AskedMode, AskedFree
<1>2. AskedInterval(w)' = AskedInterval(w)
  BY <1>1 DEF AskedInterval
<1> QED BY <1>1, <1>2 DEF Agree, PricesKept

LEMMA MarkedKept ==
  ASSUME NEW w \in Workers, Marked, OthersKept(w),
         pc'[w] \in {"readRow", "save"} => req'[w].op \in {"declare", "price"}
  PROVE  Marked'
BY DEF Marked, OthersKept

LEMMA AloneKept ==
  ASSUME NEW w \in Workers, Alone, OthersKept(w),
         pc'[w] # "idle" => pc[w] # "idle" /\ req'[w] = req[w]
  PROVE  Alone'
<1>1. \A x \in Workers : (Pricing(x)' => Pricing(x)) /\ (Writing(x)' => Writing(x))
  BY DEF OthersKept, Pricing, Writing
<1> QED BY <1>1 DEF Alone

\* A request that does not save, price or plan.
LEMMA QuietStep ==
  ASSUME NEW w \in Workers, Priced, OthersKept(w), PricesKept, torn => torn',
         pc'[w] \notin {"readRow", "save"} \union PlanSteps, pc[w] \notin PlanSteps,
         pc'[w] # "idle" => pc[w] # "idle" /\ req'[w] = req[w]
  PROVE  Priced'
<1>1. Marked'
  BY MarkedKept DEF Priced
<1>2. ASSUME Untorn PROVE Untorn'
  <2>1. Alone'
    BY <1>2, AloneKept DEF Untorn
  <2>2. ASSUME NEW x \in Workers PROVE Agree(x)'
    <3>1. CASE x = w
      BY <3>1 DEF Agree, PlanSteps
    <3>2. CASE x # w
      BY <1>2, <3>2, AgreeKept DEF Untorn, OthersKept
    <3> QED BY <3>1, <3>2
  <2>3. Matched' = Matched
    BY DEF Matched, PricesKept
  <2>4. (\A x \in Workers : pc'[x] \notin PlanSteps) => \A x \in Workers : pc[x] \notin PlanSteps
    BY DEF OthersKept
  <2> QED BY <1>2, <2>1, <2>2, <2>3, <2>4 DEF Untorn, PricesKept
<1> QED BY <1>1, <1>2 DEF Priced

LEMMA PricedBegin ==
  ASSUME TInv, Priced, NEW w \in Workers, NEW r \in Requests, Begin(w, r)
  PROVE  Priced'
<1>0. pc \in [Workers -> Steps] /\ req \in [Workers -> Request \union {None}]
  BY DEF TInv, TypeOK, LocalsOK
<1>1. /\ pc[w] = "idle" /\ pc'[w] = FirstStep(r.op) /\ req'[w] = r /\ OthersKept(w) /\ PricesKept
      /\ torn' = (torn \/ Overlaps(r))
  BY <1>0 DEF Begin, Goto, OthersKept, PricesKept
<1>2. r.op \in {"publish", "declare", "price", "install", "read"}
  BY HubAssumption DEF Request, PlainRequest, PriceRequest, InstallRequest, ReadRequest
<1>3. /\ pc'[w] \notin {"save"} \union PlanSteps
      /\ pc'[w] = "readRow" => req'[w].op \in {"declare", "price"}
  BY <1>1, <1>2 DEF FirstStep, PlanSteps
<1>4. Marked'
  BY <1>1, <1>3, MarkedKept DEF Priced, PlanSteps
<1>5. ASSUME Untorn, ~Overlaps(r) PROVE Untorn'
  <2>1. Alone'
    <3>1. ASSUME NEW x \in Workers \ {w}
          PROVE  /\ Pricing(x)' = Pricing(x) /\ Writing(x)' = Writing(x)
                 /\ Writing(w)' /\ Writing(x) => r.op # "price" /\ req[x].op # "price"
      <4>1. Pricing(x)' = Pricing(x) /\ Writing(x)' = Writing(x)
        BY <1>1 DEF OthersKept, Pricing, Writing
      <4>2. Writing(w)' => r.op \in {"declare", "price"}
        BY <1>1 DEF Writing
      <4>3. Writing(x) => x \in Writers
        BY DEF Writing, Writers
      <4> QED BY <1>5, <4>1, <4>2, <4>3 DEF Overlaps
    <3>2. /\ Pricing(w)' => Writing(w)' /\ r.op = "price"
          /\ \A x \in Workers : Pricing(x) => Writing(x) /\ req[x].op = "price"
      BY <1>1 DEF Pricing, Writing
    <3> QED BY <1>5, <3>1, <3>2 DEF Alone, Untorn
  <2>2. ASSUME NEW x \in Workers PROVE Agree(x)'
    <3>1. CASE x = w
      BY <1>3, <3>1 DEF Agree, PlanSteps
    <3>2. CASE x # w
      BY <1>1, <1>5, <3>2, AgreeKept DEF Untorn, OthersKept
    <3> QED BY <3>1, <3>2
  <2>3. Matched' = Matched
    BY <1>1 DEF Matched, PricesKept
  <2>4. (\A x \in Workers : pc'[x] \notin PlanSteps) => \A x \in Workers : pc[x] \notin PlanSteps
    BY <1>1 DEF OthersKept, PlanSteps
  <2> QED BY <1>1, <1>5, <2>1, <2>2, <2>3, <2>4 DEF Untorn, PricesKept
<1> QED BY <1>1, <1>4, <1>5 DEF Priced

\* A request reads the row, or moves on to the numbering of its plan.
LEMMA PricedMove ==
  ASSUME Priced, NEW w \in Workers, OthersKept(w), PricesKept, torn' = torn, pc[w] # "idle",
         req'[w] = req[w], torn \/ Agree(w)',
         \/ pc[w] = "readRow" /\ pc'[w] = "save"
         \/ pc[w] \in PlanSteps /\ pc'[w] \in PlanSteps
  PROVE  Priced'
<1>1. Marked'
  <2>1. pc'[w] = "readRow" => FALSE
    BY DEF PlanSteps
  <2>2. pc'[w] = "save" => req'[w].op \in {"declare", "price"}
    BY DEF Priced, Marked, PlanSteps
  <2> QED BY <2>1, <2>2, MarkedKept DEF Priced
<1>2. ASSUME Untorn, ~torn PROVE Untorn'
  <2>1. Alone'
    BY <1>2, AloneKept DEF Untorn
  <2>2. ASSUME NEW x \in Workers PROVE Agree(x)'
    <3>1. CASE x = w
      BY <1>2, <3>1
    <3>2. CASE x # w
      BY <1>2, <3>2, AgreeKept DEF Untorn, OthersKept
    <3> QED BY <3>1, <3>2
  <2>3. Matched' = Matched
    BY DEF Matched, PricesKept
  <2>4. (\A x \in Workers : pc'[x] \notin PlanSteps) => \A x \in Workers : pc[x] \notin PlanSteps
    BY DEF OthersKept, PlanSteps
  <2> QED BY <1>2, <2>1, <2>2, <2>3, <2>4 DEF Untorn, PricesKept
<1> QED BY <1>1, <1>2 DEF Priced

\* A saved pricing is alone: no other request has read the row.
LEMMA PricedSave ==
  ASSUME TInv, Priced, NEW w \in Workers, UpdateCollectionPricing(w)
  PROVE  Priced'
<1>0. /\ pc \in [Workers -> Steps] /\ req \in [Workers -> Request \union {None}]
      /\ row \in [Workers -> Collection \union {None}] /\ ver \in [Workers -> 0 .. MaxVersion]
  BY DEF TInv, TypeOK, LocalsOK
<1>1. pc[w] = "save" /\ req[w].op = "price" /\ torn' = torn /\ plans' = plans
  BY DEF UpdateCollectionPricing
<1>2. CASE PriceRefused(w)
  <2>1. OthersKept(w) /\ PricesKept /\ pc'[w] = "idle"
    BY <1>0, <1>2 DEF UpdateCollectionPricing, End, Goto, OthersKept, PricesKept
  <2> QED BY <1>1, <2>1, QuietStep DEF PlanSteps
<1>3. CASE ~PriceRefused(w)
  <2>1. /\ pc' = [pc EXCEPT ![w] = "nextPlan"] /\ UNCHANGED Locals
        /\ coll' = [row[w] EXCEPT !.isFree = AskedFree(w) \/ AskedMode(w) \in {"free", "granted"},
                                  !.mode = AskedMode(w), !.interval = AskedInterval(w)]
    BY <1>3 DEF UpdateCollectionPricing, Goto
  <2>2. OthersKept(w) /\ pc'[w] = "nextPlan" /\ req'[w] = req[w] /\ row'[w] = row[w]
    BY <1>0, <2>1 DEF OthersKept, Locals
  <2>3. row[w] \in Collection
    BY <1>1 DEF TInv, Shape, ShapeOf
  <2>4. coll'.mode = AskedMode(w) /\ coll'.interval = AskedInterval(w)
    BY <2>1, <2>3 DEF Collection
  <2>5. AskedMode(w)' = AskedMode(w)
    BY <2>2 DEF AskedMode, AskedFree
  <2>6. AskedInterval(w)' = AskedInterval(w)
    BY <2>2, <2>5 DEF AskedInterval
  <2>7. Marked'
    BY <2>2, MarkedKept DEF Priced
  <2>8. ASSUME Untorn PROVE Untorn'
    <3>1. Alone'
      BY <1>1, <2>2, <2>8, AloneKept DEF Untorn
    <3>2. ASSUME NEW x \in Workers PROVE Agree(x)'
      <4>1. CASE x = w
        BY <2>2, <2>4, <2>5, <2>6, <4>1 DEF Agree
      <4>2. CASE x # w
        <5>1. pc[x] \notin {"save"} \union PlanSteps
          <6>1. ~Writing(x)
            BY <1>1, <2>8, <4>2 DEF Untorn, Alone, Pricing
          <6>2. pc[x] = "save" => Writing(x)
            BY DEF Priced, Marked, Writing
          <6>3. pc[x] \in PlanSteps => Writing(x)
            BY DEF TInv, Shape, ShapeOf, PlanSteps, PriceRequest, Writing
          <6> QED BY <6>1, <6>2, <6>3
        <5> QED BY <2>2, <4>2, <5>1 DEF OthersKept, Agree, PlanSteps
      <4> QED BY <4>1, <4>2
    <3>3. pc'[w] \in PlanSteps
      BY <2>2 DEF PlanSteps
    <3> QED BY <3>1, <3>2, <3>3 DEF Untorn
  <2> QED BY <1>1, <2>7, <2>8 DEF Priced
<1> QED BY <1>2, <1>3

\* The plans are archived; the request's own is still to come.
LEMMA PricedArchive ==
  ASSUME TInv, Priced, NEW w \in Workers, ArchiveActivePlans(w)
  PROVE  Priced'
<1>0. pc \in [Workers -> Steps]
  BY DEF TInv, TypeOK, LocalsOK
<1>1. /\ pc[w] = "archivePlans" /\ pc'[w] = "createPlan" /\ OthersKept(w) /\ torn' = torn
      /\ UNCHANGED <<coll, req, row, ver>> /\ DOMAIN plans' = DOMAIN plans
  BY <1>0 DEF ArchiveActivePlans, Goto, Locals, OthersKept
<1>2. Marked'
  BY <1>1, MarkedKept DEF Priced
<1>3. ASSUME Untorn PROVE Untorn'
  <2>1. Alone'
    BY <1>1, <1>3, AloneKept DEF Untorn
  <2>2. ASSUME NEW x \in Workers PROVE Agree(x)'
    <3>1. AskedMode(x)' = AskedMode(x)
      BY <1>1 DEF AskedMode, AskedFree
    <3>2. AskedInterval(x)' = AskedInterval(x)
      BY <1>1, <3>1 DEF AskedInterval
    <3>3. Agree(x)
      BY <1>3 DEF Untorn
    <3>4. CASE x = w
      BY <1>1, <3>1, <3>2, <3>3, <3>4 DEF Agree, PlanSteps
    <3>5. CASE x # w
      <4>1. pc'[x] = pc[x]
        BY <1>1, <3>5 DEF OthersKept
      <4> QED BY <1>1, <3>1, <3>2, <3>3, <4>1 DEF Agree
    <3> QED BY <3>4, <3>5
  <2>3. pc'[w] \in PlanSteps
    BY <1>1 DEF PlanSteps
  <2> QED BY <2>1, <2>2, <2>3 DEF Untorn
<1> QED BY <1>1, <1>2, <1>3 DEF Priced

\* The version is still free, so the plan is inserted, with what the collection was given.
LEMMA PricedPlan ==
  ASSUME TInv, Priced, NEW w \in Workers, CreateBillingPlan(w)
  PROVE  Priced'
<1>0. /\ pc \in [Workers -> Steps] /\ req \in [Workers -> Request \union {None}]
      /\ row \in [Workers -> Collection \union {None}] /\ ver \in [Workers -> 0 .. MaxVersion]
  BY DEF TInv, TypeOK, LocalsOK
<1>1. /\ pc[w] = "createPlan" /\ pc'[w] = "idle" /\ OthersKept(w) /\ torn' = torn /\ coll' = coll
  BY <1>0 DEF CreateBillingPlan, End, Goto, OthersKept
<1>2. Marked'
  BY <1>1, MarkedKept DEF Priced
<1>3. ASSUME Untorn PROVE Untorn'
  <2>1. Alone'
    BY <1>1, <1>3, AloneKept DEF Untorn
  <2>2. /\ Agree(w) /\ Pricing(w)
    BY <1>1, <1>3 DEF Untorn, TInv, Shape, ShapeOf, PlanSteps, PriceRequest, Pricing
  <2>3. ASSUME NEW x \in Workers, x # w PROVE pc[x] \notin {"save"} \union PlanSteps
    <3>1. ~Writing(x)
      BY <1>3, <2>2, <2>3 DEF Untorn, Alone
    <3>2. pc[x] = "save" => Writing(x)
      BY DEF Priced, Marked, Writing
    <3>3. pc[x] \in PlanSteps => Writing(x)
      BY DEF TInv, Shape, ShapeOf, PlanSteps, PriceRequest, Writing
    <3> QED BY <3>1, <3>2, <3>3
  <2>4. \A x \in Workers : Agree(x)'
    BY <1>1, <2>3 DEF OthersKept, Agree, PlanSteps
  <2>5. Matched'
    <3>1. plans' = Insert(plans, ver[w], [status |-> "active", mode |-> AskedMode(w),
                                         interval |-> AskedInterval(w)])
      BY <1>1, <2>2 DEF CreateBillingPlan, Agree
    <3>2. coll'.mode = AskedMode(w) /\ coll'.interval = AskedInterval(w)
      BY <1>1, <2>2 DEF Agree, PlanSteps
    <3>3. /\ ver[w] \in DOMAIN plans' /\ plans'[ver[w]].status = "active"
          /\ plans'[ver[w]].mode = AskedMode(w) /\ plans'[ver[w]].interval = AskedInterval(w)
      BY <3>1 DEF Insert
    <3> QED BY <3>2, <3>3 DEF Matched
  <2> QED BY <2>1, <2>4, <2>5 DEF Untorn
<1> QED BY <1>1, <1>2, <1>3 DEF Priced

LEMMA PricedStep == TInv /\ Priced /\ [Next]_vars => Priced'
<1> SUFFICES ASSUME TInv, Priced, [Next]_vars PROVE Priced'
  OBVIOUS
<1>0. /\ pc \in [Workers -> Steps] /\ req \in [Workers -> Request \union {None}]
      /\ row \in [Workers -> Collection \union {None}] /\ ver \in [Workers -> 0 .. MaxVersion]
      /\ coll \in Collection
  BY DEF TInv, TypeOK, LocalsOK, RowsOK
<1>1. CASE PricesKept /\ UNCHANGED <<pc, req, row, ver, torn>>
  <2>1. \A x \in Workers : Agree(x) => Agree(x)'
    BY <1>1, AgreeKept
  <2>2. Matched' = Matched /\ plans' = plans
    BY <1>1 DEF Matched, PricesKept
  <2>3. Alone' = Alone /\ Marked' = Marked
    BY <1>1 DEF Alone, Marked, Writing, Pricing
  <2> QED BY <1>1, <2>1, <2>2, <2>3 DEF Priced, Untorn
<1>2. ASSUME NEW w \in Workers,
             \/ NextSnapshotVersion(w) \/ CreateSnapshot(w)
             \/ GetPublicCollection(w) \/ GetTrackedSnapshot(w) \/ FindSubscription(w)
             \/ UpsertSubscription(w) \/ AuthorizeSnapshot(w) \/ GetActiveSubscription(w)
             \/ GetLatestSnapshot(w) \/ ServeContent(w)
      PROVE  Priced'
  <2>1. /\ UNCHANGED <<coll, plans, torn>>
        /\ pc[w] \in Steps \ ({"idle"} \union PlanSteps)
    BY <1>0, <1>2 DEF NextSnapshotVersion, CreateSnapshot, GetPublicCollection,
       GetTrackedSnapshot, FindSubscription, UpsertSubscription, AuthorizeSnapshot,
       GetActiveSubscription, GetLatestSnapshot, ServeContent, PlanSteps, Steps
  <2>2. \E s \in {"idle", "createSnapshot", "markPublished", "getTracked", "findSub",
                  "createSub", "updateSub", "getActive", "getLatest", "served"} :
          pc' = [pc EXCEPT ![w] = s] /\ (s # "idle" => req' = req)
    BY <1>2 DEF NextSnapshotVersion, CreateSnapshot, GetPublicCollection,
       GetTrackedSnapshot, FindSubscription, UpsertSubscription, AuthorizeSnapshot,
       GetActiveSubscription, GetLatestSnapshot, ServeContent, Goto, End, Locals
  <2>3. \A x \in Workers \ {w} : req'[x] = req[x] /\ row'[x] = row[x] /\ ver'[x] = ver[x]
    BY <1>0, <1>2 DEF NextSnapshotVersion, CreateSnapshot, GetPublicCollection,
       GetTrackedSnapshot, FindSubscription, UpsertSubscription, AuthorizeSnapshot,
       GetActiveSubscription, GetLatestSnapshot, ServeContent, End, Locals
  <2>4. /\ OthersKept(w) /\ PricesKept
        /\ pc'[w] \notin {"readRow", "save"} \union PlanSteps
        /\ pc'[w] # "idle" => req'[w] = req[w]
    BY <1>0, <2>1, <2>2, <2>3 DEF OthersKept, PricesKept, PlanSteps
  <2> QED BY <2>1, <2>4, QuietStep
<1>3. ASSUME NEW w \in Workers, MarkCollectionPublished(w) PROVE Priced'
  <2>1. /\ pc[w] = "markPublished" /\ pc'[w] = "idle" /\ OthersKept(w) /\ torn' = torn
    BY <1>0, <1>3 DEF MarkCollectionPublished, End, Goto, OthersKept
  <2>2. PricesKept
    BY <1>0, <1>3 DEF MarkCollectionPublished, PricesKept, Collection
  <2> QED BY <2>1, <2>2, QuietStep DEF PlanSteps
<1>4. ASSUME NEW w \in Workers, UpdateCollectionDeclarations(w) PROVE Priced'
  <2>1. /\ pc[w] = "save" /\ pc'[w] = "idle" /\ OthersKept(w) /\ torn' = torn /\ plans' = plans
        /\ coll' = [row[w] EXCEPT !.review = "pending"] /\ row[w] \in Collection
    BY <1>0, <1>4 DEF UpdateCollectionDeclarations, End, Goto, OthersKept, TInv, Shape, ShapeOf
  <2>2. coll'.mode = row[w].mode /\ coll'.interval = row[w].interval
    BY <2>1 DEF Collection
  <2>3. CASE Untorn
    <3>1. PricesKept
      BY <2>1, <2>2, <2>3 DEF Untorn, Agree, PricesKept
    <3> QED BY <2>1, <3>1, QuietStep DEF PlanSteps
  <2>4. CASE torn
    BY <2>1, <2>4, MarkedKept DEF Priced
  <2> QED BY <2>3, <2>4 DEF Priced
<1>5. ASSUME NEW w \in Workers, GetCollection(w) PROVE Priced'
  <2>1. /\ pc[w] = "readRow" /\ pc'[w] = "save" /\ OthersKept(w) /\ torn' = torn /\ PricesKept
        /\ req'[w] = req[w] /\ row'[w] = coll /\ coll' = coll
    BY <1>0, <1>5 DEF GetCollection, Goto, OthersKept, PricesKept
  <2>2. Agree(w)'
    BY <2>1 DEF Agree, PlanSteps
  <2> QED BY <2>1, <2>2, PricedMove
<1>6. ASSUME NEW w \in Workers, NextPlanVersion(w) PROVE Priced'
  <2>1. /\ pc[w] = "nextPlan" /\ pc'[w] = "archivePlans" /\ OthersKept(w) /\ torn' = torn
        /\ PricesKept /\ req'[w] = req[w] /\ row'[w] = row[w] /\ ver'[w] = NextVersion(plans)
        /\ coll' = coll /\ plans' = plans
    BY <1>0, <1>6 DEF NextPlanVersion, Goto, OthersKept, PricesKept
  <2>2. NextVersion(plans) \notin DOMAIN plans
    <3>1. PICK n \in 0 .. MaxVersion : plans \in [1 .. n -> Plan]
      BY DEF TInv, TypeOK, RowsOK
    <3>2. n \in Nat /\ NextVersion(plans) = n + 1
      BY <3>1, HubAssumption, NextOfInterval
    <3> QED BY <3>1, <3>2
  <2>3. AskedMode(w)' = AskedMode(w)
    BY <2>1 DEF AskedMode, AskedFree
  <2>4. AskedInterval(w)' = AskedInterval(w)
    BY <2>1, <2>3 DEF AskedInterval
  <2>5. ASSUME Untorn PROVE Agree(w)'
    BY <2>1, <2>2, <2>3, <2>4, <2>5 DEF Untorn, Agree, PlanSteps
  <2>6. torn \/ Agree(w)'
    BY <2>5 DEF Priced
  <2> QED BY <2>1, <2>6, PricedMove DEF PlanSteps
<1>7. ASSUME NEW w \in Workers, Abort(w) PROVE Priced'
  <2>1. /\ pc[w] # "idle" /\ pc'[w] = "idle" /\ OthersKept(w) /\ PricesKept
        /\ torn' = (torn \/ (req[w].op = "price" /\ pc[w] \notin {"readRow", "save"}))
    BY <1>0, <1>7 DEF Abort, End, Goto, OthersKept, PricesKept
  <2>2. CASE pc[w] \in PlanSteps
    <3>1. torn'
      BY <2>1, <2>2 DEF TInv, Shape, ShapeOf, PlanSteps, PriceRequest
    <3> QED BY <2>1, <3>1, MarkedKept DEF Priced
  <2>3. CASE pc[w] \notin PlanSteps
    BY <2>1, <2>3, QuietStep DEF PlanSteps
  <2> QED BY <2>2, <2>3
<1>8. ASSUME NEW status, ReviewCollection(status) PROVE Priced'
  <2>1. PricesKept
    BY <1>0, <1>8 DEF ReviewCollection, PricesKept, Collection
  <2> QED BY <1>1, <1>8, <2>1 DEF ReviewCollection, Locals
<1>9. CASE \/ UNCHANGED vars
           \/ \E v \in Versions : ArchiveSnapshot(v) \/ RestoreSnapshot(v)
           \/ \E u \in Users : CancelSubscription(u) \/ PeriodEnds(u)
           \/ ExpireSubscriptions
  BY <1>1, <1>9 DEF vars, PricesKept, ArchiveSnapshot, RestoreSnapshot, CancelSubscription,
     PeriodEnds, ExpireSubscriptions, Locals
<1> QED
  BY <1>2, <1>3, <1>4, <1>5, <1>6, <1>7, <1>8, <1>9, PricedBegin, PricedSave, PricedArchive,
     PricedPlan DEF Next

\* As long as no pricing request is overtaken or cut off, the active plan is what
\* UpdateCollectionPricing wrote to the collection, whatever reviews, publications and
\* declarations happen in between.
THEOREM PlansAgree == Spec => []PlanMatchesCollection
<1>1. Init => Priced
  BY DEF Init, Priced, Marked, Untorn, Alone, Agree, Pricing, PlanSteps
<1>2. TInv /\ Priced => PlanMatchesCollection
  <2> SUFFICES ASSUME TInv, Priced, ~torn, \A w \in Writers : req[w].op # "price",
                      DOMAIN plans # {}
               PROVE  Matched
    BY DEF PlanMatchesCollection, Matched
  <2>1. \A w \in Workers : pc[w] \notin PlanSteps
    BY DEF TInv, Shape, ShapeOf, PlanSteps, PriceRequest, Writers
  <2> QED BY <2>1 DEF Priced, Untorn
<1> QED BY <1>1, <1>2, PricedStep, TypeInvariant, PTL DEF Spec
=============================================================================
