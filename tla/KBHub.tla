-------------------------------- MODULE KBHub --------------------------------
(***************************************************************************)
(* One collection of the knowledge base hub: its review and pricing, its   *)
(* published snapshots, its billing plans, and the subscriptions through   *)
(* which users read the snapshots.  Only the insertion of a snapshot with  *)
(* its entries is a transaction; elsewhere every statement of a request is *)
(* a step of its own, and Save writes back the whole row that was read.    *)
(*                                                                         *)
(* Left out: the texts of a collection and the content of its snapshots    *)
(* (a snapshot is its version and status), prices, the usage records (the  *)
(* hub passes no unit price, so their amount is zero), the search index.   *)
(* A refusal by governance is one of the errors of Abort.                  *)
(***************************************************************************)
EXTENDS Naturals

CONSTANTS
  Workers,      \* goroutines that serve requests
  Users,        \* users other than the owner
  Requests,     \* the requests made with several statements
  None,         \* no row
  MaxVersion,   \* bound on snapshots, and on billing plans
  MaxRequests   \* bound on the requests of a behaviour

Entitlements == {"free", "paid", "trial", "granted"}
Intervals == {"none", "month", "year"}
Ends == {"never", "later", "due"}   \* expires_at: absent, to come, passed
Versions == 1 .. MaxVersion

Collection == [status : {"draft", "published", "archived"},
               review : {"pending", "approved", "rejected", "takedown"},
               isFree : BOOLEAN, mode : Entitlements, interval : Intervals]

SnapshotStatus == {"active", "archived"}

Plan == [status : {"active", "archived"}, mode : Entitlements, interval : Intervals]

\* track = 0 follows the latest snapshot, another version is pinned.
Subscription == [status : {"active", "cancelled", "expired"}, track : 0 .. MaxVersion,
                 snap : Versions, mode : Entitlements, ends : Ends]

\* A text field of a request may be empty or hold an unknown word.  Requests that
\* fail a check of their own input (no price, no grant_reason) change nothing and
\* are left out.
PlainRequest == [op : {"publish", "declare"}]

PriceRequest == [op : {"price"}, free : {"yes", "no", "keep"},
                 mode : Entitlements \union {"", "other"},
                 interval : Intervals \union {"", "other"}]

InstallRequest == [op : {"install"}, user : Users, track : 0 .. MaxVersion,
                   mode : Entitlements \union {"", "other"}, ends : Ends]

ReadRequest == [op : {"read"}, user : Users, snap : Versions]

Request == PlainRequest \union PriceRequest \union InstallRequest \union ReadRequest

ASSUME HubAssumption ==
  /\ Requests \subseteq Request
  /\ None \notin Collection \union Subscription \union Request
  /\ {MaxVersion, MaxRequests} \subseteq Nat

VARIABLES
  coll,    \* the row of the collection
  snaps,   \* status of the snapshots, by version
  plans,   \* billing plans, by version
  subs,    \* subscription of each user, or None
  pc,      \* the statement each request is about to execute
  req,     \* what each request asks for
  row,     \* the collection as a request has read it
  ver,     \* the version a request has read
  begun,   \* requests begun so far
  held,    \* history: an active subscription existed since the request began
  torn     \* history: a pricing request was overtaken or cut off

vars == <<coll, snaps, plans, subs, pc, req, row, ver, begun, held, torn>>

Steps == {"idle", "nextVersion", "createSnapshot", "markPublished", "readRow", "save",
          "nextPlan", "archivePlans", "createPlan", "getPublic", "getTracked",
          "findSub", "createSub", "updateSub", "getSnapshot", "getActive",
          "getLatest", "served"}

FirstStep(op) ==
  CASE op = "publish" -> "nextVersion"
    [] op \in {"declare", "price"} -> "readRow"
    [] op = "install" -> "getPublic"
    [] op = "read" -> "getSnapshot"

Init ==
  /\ coll = [status |-> "draft", review |-> "pending", isFree |-> TRUE,
             mode |-> "free", interval |-> "month"]
  /\ snaps = [v \in {} |-> "active"]
  /\ plans = [v \in {} |-> None]
  /\ subs = [u \in Users |-> None]
  /\ pc = [w \in Workers |-> "idle"]
  /\ req = [w \in Workers |-> None]
  /\ row = [w \in Workers |-> None]
  /\ ver = [w \in Workers |-> 0]
  /\ begun = 0
  /\ held = [w \in Workers |-> FALSE]
  /\ torn = FALSE

-----------------------------------------------------------------------------
(* Rows and helpers.                                                       *)

MaxKey(S) == CHOOSE m \in S \union {0} : \A k \in S : k <= m

NextVersion(rows) == MaxKey(DOMAIN rows) + 1

Insert(rows, v, r) == [x \in DOMAIN rows \union {v} |-> IF x = v THEN r ELSE rows[x]]

ActiveSnaps == {v \in DOMAIN snaps : snaps[v] = "active"}

LatestSnapshot == MaxKey(ActiveSnaps)   \* 0 when there is none

ActiveSub(u) == subs[u] # None /\ subs[u].status = "active"

\* "" stands for an unknown word; an empty field means free.
NormalizeEntitlement(m) ==
  IF m = "" THEN "free" ELSE IF m \in Entitlements THEN m ELSE ""

\* "" stands for a refused interval.
NormalizeBillingInterval(i, mode) ==
  IF mode \in {"free", "granted"}
    THEN IF i \in {"", "none"} THEN "none" ELSE ""
    ELSE IF i = "" THEN "month"
         ELSE IF i \in {"month", "year"} \/ (i = "none" /\ mode = "trial") THEN i
         ELSE ""

\* addBillingPeriod returns its start for an interval it does not know.
PeriodEnd(interval) == IF interval \in {"month", "year"} THEN "later" ELSE "due"

Goto(w, step) == pc' = [pc EXCEPT ![w] = step]

\* The request returns: its local variables are gone.
End(w) ==
  /\ Goto(w, "idle")
  /\ req' = [req EXCEPT ![w] = None]
  /\ row' = [row EXCEPT ![w] = None]
  /\ ver' = [ver EXCEPT ![w] = 0]
  /\ held' = [held EXCEPT ![w] = FALSE]

Locals == <<req, row, ver, held>>

\* Pricing and declarations write the collection's row back.
Writers == {w \in Workers : pc[w] # "idle" /\ req[w].op \in {"declare", "price"}}

\* Two such requests overlap, one of them a pricing.
Overlaps(r) ==
  /\ r.op \in {"declare", "price"}
  /\ \E w \in Writers : "price" \in {r.op, req[w].op}

Begin(w, r) ==
  /\ pc[w] = "idle"
  /\ begun < MaxRequests
  /\ begun' = begun + 1
  /\ Goto(w, FirstStep(r.op))
  /\ req' = [req EXCEPT ![w] = r]
  /\ held' = [held EXCEPT ![w] = (r.op = "read" /\ ActiveSub(r.user))]
  /\ torn' = (torn \/ Overlaps(r))
  /\ UNCHANGED <<coll, snaps, plans, subs, row, ver>>

-----------------------------------------------------------------------------
(* PublishSnapshot.  The objects of entries and manifest are stored under  *)
(* fresh keys between the first two statements.                            *)

NextSnapshotVersion(w) ==
  /\ pc[w] = "nextVersion"
  /\ NextVersion(snaps) <= MaxVersion
  /\ ver' = [ver EXCEPT ![w] = NextVersion(snaps)]
  /\ Goto(w, "createSnapshot")
  /\ UNCHANGED <<coll, snaps, plans, subs, req, row, begun, held, torn>>

CreateSnapshot_NotUnique(w) ==
  /\ pc[w] = "createSnapshot"
  /\ snaps' = Insert(snaps, ver[w], "active")
  /\ Goto(w, "markPublished")
  /\ UNCHANGED <<coll, plans, subs, begun, torn, req, row, ver, held>>

\* The index on (collection_id, version) is unique.
CreateSnapshot(w) ==
  /\ pc[w] = "createSnapshot"
  /\ \/ /\ ver[w] \notin DOMAIN snaps
        /\ snaps' = Insert(snaps, ver[w], "active")
        /\ Goto(w, "markPublished")
        /\ UNCHANGED Locals
     \/ /\ ver[w] \in DOMAIN snaps
        /\ End(w)
        /\ UNCHANGED snaps
  /\ UNCHANGED <<coll, plans, subs, begun, torn>>

MarkCollectionPublished(w) ==
  /\ pc[w] = "markPublished"
  /\ coll' = [coll EXCEPT !.status = "published", !.review = "approved"]
  /\ End(w)
  /\ UNCHANGED <<snaps, plans, subs, begun, torn>>

ArchiveSnapshot(v) ==
  /\ v \in DOMAIN snaps
  /\ snaps' = [snaps EXCEPT ![v] = "archived"]
  /\ UNCHANGED <<coll, plans, subs, pc, begun, torn, Locals>>

RestoreSnapshot(v) ==
  /\ v \in DOMAIN snaps
  /\ snaps' = [snaps EXCEPT ![v] = "active"]
  /\ UNCHANGED <<coll, plans, subs, pc, begun, torn, Locals>>

-----------------------------------------------------------------------------
(* Review, declarations and pricing.                                       *)

ReviewCollection(status) ==
  /\ coll' = [coll EXCEPT !.review = status,
                !.status = CASE status = "approved" -> "published"
                             [] status = "rejected" -> "draft"
                             [] status = "takedown" -> "archived"]
  /\ UNCHANGED <<snaps, plans, subs, pc, begun, torn, Locals>>

GetCollection(w) ==
  /\ pc[w] = "readRow"
  /\ row' = [row EXCEPT ![w] = coll]
  /\ Goto(w, "save")
  /\ UNCHANGED <<coll, snaps, plans, subs, req, ver, begun, held, torn>>

UpdateCollectionDeclarations(w) ==
  /\ pc[w] = "save" /\ req[w].op = "declare"
  /\ coll' = [row[w] EXCEPT !.review = "pending"]
  /\ End(w)
  /\ UNCHANGED <<snaps, plans, subs, begun, torn>>

AskedFree(w) ==
  IF req[w].free = "keep" THEN row[w].isFree ELSE req[w].free = "yes"

\* The entitlement the pricing asks for; "" when it is an unknown word.
AskedMode(w) ==
  IF req[w].mode # "" THEN NormalizeEntitlement(req[w].mode)
                      ELSE IF AskedFree(w) THEN "free" ELSE "paid"

AskedInterval(w) == NormalizeBillingInterval(req[w].interval, AskedMode(w))

PriceRefused(w) == AskedMode(w) = "" \/ AskedInterval(w) = ""

UpdateCollectionPricing(w) ==
  /\ pc[w] = "save" /\ req[w].op = "price"
  /\ \/ /\ ~PriceRefused(w)
        /\ coll' = [row[w] EXCEPT !.isFree = AskedFree(w) \/ AskedMode(w) \in {"free", "granted"},
                                  !.mode = AskedMode(w), !.interval = AskedInterval(w)]
        /\ Goto(w, "nextPlan")
        /\ UNCHANGED Locals
     \/ /\ PriceRefused(w)
        /\ End(w)
        /\ UNCHANGED coll
  /\ UNCHANGED <<snaps, plans, subs, begun, torn>>

NextPlanVersion(w) ==
  /\ pc[w] = "nextPlan"
  /\ NextVersion(plans) <= MaxVersion
  /\ ver' = [ver EXCEPT ![w] = NextVersion(plans)]
  /\ Goto(w, "archivePlans")
  /\ UNCHANGED <<coll, snaps, plans, subs, req, row, begun, held, torn>>

ArchiveActivePlans(w) ==
  /\ pc[w] = "archivePlans"
  /\ plans' = [v \in DOMAIN plans |-> [plans[v] EXCEPT !.status = "archived"]]
  /\ Goto(w, "createPlan")
  /\ UNCHANGED <<coll, snaps, subs, begun, torn, Locals>>

\* The plan is made from the request's own word.
CreateBillingPlan_Raw(w) ==
  /\ pc[w] = "createPlan"
  /\ IF ver[w] \notin DOMAIN plans
       THEN plans' = Insert(plans, ver[w],
              [status |-> "active", mode |-> NormalizeEntitlement(req[w].mode),
               interval |-> AskedInterval(w)])
       ELSE UNCHANGED plans
  /\ End(w)
  /\ UNCHANGED <<coll, snaps, subs, begun, torn>>

\* Without the index: a plan whose version is taken gets the next one.
CreateBillingPlan_Renumbered(w) ==
  /\ pc[w] = "createPlan"
  /\ NextVersion(plans) <= MaxVersion
  /\ plans' = Insert(plans, NextVersion(plans),
        [status |-> "active", mode |-> AskedMode(w), interval |-> AskedInterval(w)])
  /\ End(w)
  /\ UNCHANGED <<coll, snaps, subs, begun, torn>>

\* The index on (collection_id, version) is unique.
CreateBillingPlan(w) ==
  /\ pc[w] = "createPlan"
  /\ IF ver[w] \notin DOMAIN plans
       THEN plans' = Insert(plans, ver[w],
              [status |-> "active", mode |-> AskedMode(w), interval |-> AskedInterval(w)])
       ELSE UNCHANGED plans
  /\ End(w)
  /\ UNCHANGED <<coll, snaps, subs, begun, torn>>

-----------------------------------------------------------------------------
(* Subscriptions.                                                          *)

\* InstallCollection looks only at a collection that is published and approved.
GetPublicCollection(w) ==
  /\ pc[w] = "getPublic"
  /\ IF coll.status = "published" /\ coll.review = "approved"
       THEN /\ row' = [row EXCEPT ![w] = coll]
            /\ Goto(w, "getTracked")
            /\ UNCHANGED <<req, ver, held>>
       ELSE End(w)
  /\ UNCHANGED <<coll, snaps, plans, subs, begun, torn>>

\* A pinned snapshot may be archived, the latest one is active.
GetTrackedSnapshot(w) ==
  LET v == IF req[w].track = 0 THEN LatestSnapshot ELSE req[w].track IN
  /\ pc[w] = "getTracked"
  /\ IF v \in DOMAIN snaps
       THEN /\ ver' = [ver EXCEPT ![w] = v]
            /\ Goto(w, "findSub")
            /\ UNCHANGED <<req, row, held>>
       ELSE End(w)
  /\ UNCHANGED <<coll, snaps, plans, subs, begun, torn>>

\* An unknown word takes the entitlement of the collection.
InstalledMode(w) ==
  LET m == NormalizeEntitlement(req[w].mode) IN IF m = "" THEN row[w].mode ELSE m

InstalledEnd(w) ==
  IF req[w].ends # "never" THEN req[w].ends
  ELSE CASE InstalledMode(w) = "trial" -> "later"
         [] InstalledMode(w) = "paid" -> PeriodEnd(row[w].interval)
         [] OTHER -> "never"

NewSubscription(w) ==
  [status |-> "active", track |-> req[w].track, snap |-> ver[w],
   mode |-> InstalledMode(w), ends |-> InstalledEnd(w)]

FindSubscription(w) ==
  /\ pc[w] = "findSub"
  /\ Goto(w, IF subs[req[w].user] = None THEN "createSub" ELSE "updateSub")
  /\ UNCHANGED <<coll, snaps, plans, subs, begun, torn, Locals>>

\* Every request of the user still under way has now seen a subscription.
SawInstall(u) ==
  [x \in Workers |-> held[x] \/ (pc[x] # "idle" /\ req[x].op = "read" /\ req[x].user = u)]

\* The index on (user_id, collection_id) is unique.
UpsertSubscription(w) ==
  LET u == req[w].user IN
  /\ pc[w] \in {"createSub", "updateSub"}
  /\ IF pc[w] = "updateSub" \/ subs[u] = None
       THEN /\ subs' = [subs EXCEPT ![u] = NewSubscription(w)]
            /\ held' = [SawInstall(u) EXCEPT ![w] = FALSE]
       ELSE /\ UNCHANGED subs
            /\ held' = [held EXCEPT ![w] = FALSE]
  /\ Goto(w, "idle")
  /\ req' = [req EXCEPT ![w] = None]
  /\ row' = [row EXCEPT ![w] = None]
  /\ ver' = [ver EXCEPT ![w] = 0]
  /\ UNCHANGED <<coll, snaps, plans, begun, torn>>

CancelSubscription(u) ==
  /\ ActiveSub(u)
  /\ subs' = [subs EXCEPT ![u].status = "cancelled"]
  /\ UNCHANGED <<coll, snaps, plans, pc, begun, torn, Locals>>

Overdue == {u \in Users : ActiveSub(u) /\ subs[u].ends = "due"}

ExpireSubscriptions ==
  /\ Overdue # {}
  /\ subs' = [u \in Users |->
       IF u \in Overdue THEN [subs[u] EXCEPT !.status = "expired"] ELSE subs[u]]
  /\ UNCHANGED <<coll, snaps, plans, pc, begun, torn, Locals>>

\* The clock passes expires_at.
PeriodEnds(u) ==
  /\ subs[u] # None /\ subs[u].ends = "later"
  /\ subs' = [subs EXCEPT ![u].ends = "due"]
  /\ UNCHANGED <<coll, snaps, plans, pc, begun, torn, Locals>>

-----------------------------------------------------------------------------
(* The installed downloads: authorizeSnapshotAccess, then the content.     *)

AuthorizeSnapshot(w) ==
  /\ pc[w] = "getSnapshot"
  /\ IF req[w].snap \in DOMAIN snaps
       THEN Goto(w, "getActive") /\ UNCHANGED Locals
       ELSE End(w)
  /\ UNCHANGED <<coll, snaps, plans, subs, begun, torn>>

GetActiveSubscription_AnyStatus(w) ==
  LET s == subs[req[w].user] IN
  /\ pc[w] = "getActive"
  /\ IF /\ s # None
        /\ s.track \in {0, req[w].snap}
       THEN Goto(w, IF s.track = 0 THEN "getLatest" ELSE "served") /\ UNCHANGED Locals
       ELSE End(w)
  /\ UNCHANGED <<coll, snaps, plans, subs, begun, torn>>

GetActiveSubscription(w) ==
  LET s == subs[req[w].user] IN
  /\ pc[w] = "getActive"
  /\ IF /\ ActiveSub(req[w].user)
        /\ s.track \in {0, req[w].snap}
       THEN Goto(w, IF s.track = 0 THEN "getLatest" ELSE "served") /\ UNCHANGED Locals
       ELSE End(w)
  /\ UNCHANGED <<coll, snaps, plans, subs, begun, torn>>

GetLatestSnapshot(w) ==
  /\ pc[w] = "getLatest"
  /\ IF LatestSnapshot = req[w].snap
       THEN Goto(w, "served") /\ UNCHANGED Locals
       ELSE End(w)
  /\ UNCHANGED <<coll, snaps, plans, subs, begun, torn>>

\* The entry is read and its use recorded; the answer goes out.
ServeContent(w) ==
  /\ pc[w] = "served"
  /\ End(w)
  /\ UNCHANGED <<coll, snaps, plans, subs, begun, torn>>

\* A database error, a refusal by governance or a crash ends the request.
Abort(w) ==
  /\ pc[w] \notin {"idle", "served"}
  /\ torn' = (torn \/ (req[w].op = "price" /\ pc[w] \notin {"readRow", "save"}))
  /\ End(w)
  /\ UNCHANGED <<coll, snaps, plans, subs, begun>>

Next ==
  \/ \E w \in Workers :
       \/ \E r \in Requests : Begin(w, r)
       \/ NextSnapshotVersion(w) \/ CreateSnapshot(w) \/ MarkCollectionPublished(w)
       \/ GetCollection(w) \/ UpdateCollectionDeclarations(w) \/ UpdateCollectionPricing(w)
       \/ NextPlanVersion(w) \/ ArchiveActivePlans(w) \/ CreateBillingPlan(w)
       \/ GetPublicCollection(w) \/ GetTrackedSnapshot(w) \/ FindSubscription(w)
       \/ UpsertSubscription(w)
       \/ AuthorizeSnapshot(w) \/ GetActiveSubscription(w) \/ GetLatestSnapshot(w)
       \/ ServeContent(w) \/ Abort(w)
  \/ \E v \in Versions : ArchiveSnapshot(v) \/ RestoreSnapshot(v)
  \/ \E status \in {"approved", "rejected", "takedown"} : ReviewCollection(status)
  \/ \E u \in Users : CancelSubscription(u) \/ PeriodEnds(u)
  \/ ExpireSubscriptions

Spec == Init /\ [][Next]_vars

-----------------------------------------------------------------------------
(* Properties.                                                             *)

RowsOK ==
  /\ coll \in Collection
  /\ \E n \in 0 .. MaxVersion : snaps \in [1 .. n -> SnapshotStatus]
  /\ \E n \in 0 .. MaxVersion : plans \in [1 .. n -> Plan]
  /\ subs \in [Users -> Subscription \union {None}]
  /\ \A u \in Users : subs[u] # None =>
       subs[u].snap \in DOMAIN snaps /\ subs[u].track \in {0, subs[u].snap}

LocalsOK ==
  /\ pc \in [Workers -> Steps]
  /\ req \in [Workers -> Request \union {None}]
  /\ row \in [Workers -> Collection \union {None}]
  /\ ver \in [Workers -> 0 .. MaxVersion]
  /\ held \in [Workers -> BOOLEAN]
  /\ begun \in 0 .. MaxRequests
  /\ torn \in BOOLEAN

\* The rows and the local variables have their types; the versions of snapshots
\* and of plans run from 1 without a gap, as UpsertBillingPlan and PublishSnapshot
\* number them; an installed snapshot exists, and is the pinned one if one is.
TypeOK == RowsOK /\ LocalsOK

\* A collection never has two active billing plans, however its pricing requests
\* overlap: UpsertBillingPlan numbers its plan before it archives the others, so
\* the unique index refuses every plan that could follow an archiving in vain.
OneActivePlan ==
  \A v1, v2 \in DOMAIN plans :
    plans[v1].status = "active" /\ plans[v2].status = "active" => v1 = v2

\* While no pricing request has been overtaken or cut off, the active plan has the
\* entitlement and the interval that UpdateCollectionPricing wrote to the collection.
PlanMatchesCollection ==
  ~torn /\ (\A w \in Writers : req[w].op # "price") /\ DOMAIN plans # {} =>
    \E v \in DOMAIN plans :
      /\ plans[v].status = "active"
      /\ plans[v].mode = coll.mode
      /\ plans[v].interval = coll.interval

\* An installed download is answered only if the user's subscription was active at
\* some time since the request began: after a cancellation or an expiry the next
\* one is refused, however authorizeSnapshotAccess is interleaved with them.
ServedWhileInstalled == \A w \in Workers : pc[w] = "served" => held[w]

\* A publication adds a snapshot with a version above all others or adds nothing:
\* no snapshot disappears, and an archived one comes back only by RestoreSnapshot,
\* never by a publisher that had read the same version ("Publish immutable
\* snapshot", README).
SnapshotsAppended ==
  [][\/ UNCHANGED snaps
     \/ /\ DOMAIN snaps' = DOMAIN snaps
        /\ UNCHANGED pc
     \/ /\ DOMAIN snaps' \ DOMAIN snaps = {NextVersion(snaps)}
        /\ \A v \in DOMAIN snaps : v \in DOMAIN snaps' /\ snaps'[v] = snaps[v]]_vars
=============================================================================
