---------------------------- MODULE PlatformProofs ----------------------------
(***************************************************************************)
(* Proofs about Platform, for any number of workers, requests and rows.    *)
(*                                                                         *)
(* Every step is one of a component and moves one request, to a step of    *)
(* that component: what a component's requests rely on is therefore left   *)
(* alone by the others.  Each property has an inductive invariant of its   *)
(* own component.                                                          *)
(***************************************************************************)
EXTENDS Platform, TLAPS, WellFoundedInduction, FiniteSetTheorems

Locals ==
  /\ pc = [w \in Workers |-> pc[w]] /\ req = [w \in Workers |-> req[w]]
  /\ copy = [w \in Workers |-> copy[w]]

\* The steps that governance may let a request go on with.
Thens == {"", "intent", "url", "delete", "confirm", "grant", "invoke"}

\* A request has its fields, and one of these steps to go on with.
Formed(r) == r = [f \in DOMAIN Request |-> r[f]] /\ r.then \in Thens

\* Where a request waits for governance, or is about to ask it.
Asking == {"active", "known", "enforce", "switch", "rules", "decide"}

Flow == Locals /\ \A w \in Workers : pc[w] \in Asking => Formed(req[w])

\* The request of worker w moves to one of the steps, and the others stay; a row once
\* marked stays marked.
Moves(w, steps) ==
  /\ Locals' /\ stale \subseteq stale'
  /\ pc'[w] \in steps
  /\ \A v \in Workers \ {w} : pc'[v] = pc[v] /\ req'[v] = req[v] /\ copy'[v] = copy[v]

\* The steps that the actions of each component lead to.
GovSteps   == Thens \union {"idle", "switch", "rules", "decide", "receipt"}
ObjSteps   == {"idle", "head", "activate"}
AuditSteps == {"idle", "audit", "append"}
SageSteps  == {"idle", "audit", "submit", "package", "scan", "reviewed", "review", "suspend",
               "installation", "install", "reinstall", "status", "announce", "announce-new",
               "revoke", "reported", "report"}
ReportSteps == {"reported", "report"}
HubSteps   == {"idle", "audit", "new-skill", "skill", "takedown", "asset", "release",
               "restrict", "lift", "rate", "aggregate", "copy", "new-copy", "save-copy",
               "download", "download-new", "announce", "announce-new", "skill-status", "pin"}
SetSteps   == {"idle", "create-contact", "update-contact", "delete-contact", "add",
               "update-server", "remove", "erase", "upsert", "read-back", "announce"}
BillSteps  == {"idle", "audit", "account", "open-account", "debit", "earning", "payout",
               "save-payout", "save-earning"}
AskSteps   == {"idle", "active", "known", "enforce"}
CarrySteps == {"idle", "grant", "new-grant", "save-grant", "announce"}
ChatSteps  == {"idle", "save-conversation", "get-reaction", "react", "unreact", "announce"}
-----------------------------------------------------------------------------
(* How a request moves. *)

LEMMA GotoMoves ==
  ASSUME Locals, NEW w \in Workers, NEW step, Goto(w, step), NEW S, step \in S
  PROVE  Moves(w, S) /\ pc'[w] = step /\ req' = req /\ copy' = copy
BY DEF Locals, Goto, Moves

LEMMA KeepMoves ==
  ASSUME Locals, NEW w \in Workers, NEW row, NEW step, Keep(w, row, step), NEW S, step \in S
  PROVE  Moves(w, S) /\ pc'[w] = step /\ req' = req /\ copy'[w] = row
BY DEF Locals, Keep, Moves

LEMMA AnsweredMoves ==
  ASSUME Locals, NEW w \in Workers, Answered(w), stale \subseteq stale', NEW S, "idle" \in S
  PROVE  Moves(w, S) /\ pc'[w] = "idle"
BY DEF Locals, Answered, Moves

LEMMA AnswerMoves ==
  ASSUME Locals, NEW w \in Workers, Answer(w), NEW S, "idle" \in S
  PROVE  Moves(w, S) /\ pc'[w] = "idle"
BY AnsweredMoves DEF Answer

LEMMA BeginMoves ==
  ASSUME Locals, NEW w \in Workers, NEW r, NEW step, Begin(w, r, step), NEW S, step \in S
  PROVE  Moves(w, S) /\ pc'[w] = step /\ req'[w] = r /\ copy' = copy
BY DEF Locals, Begin, Accepts, Moves

LEMMA BeginReadMoves ==
  ASSUME Locals, NEW w \in Workers, NEW r, NEW row, NEW step, BeginRead(w, r, row, step),
         NEW S, step \in S
  PROVE  Moves(w, S) /\ pc'[w] = step /\ req'[w] = r /\ copy'[w] = row
BY DEF Locals, BeginRead, Accepts, Moves

LEMMA SaveThenMoves ==
  ASSUME Locals, NEW w \in Workers, NEW step, NEW row, NEW outdated,
         SaveThen(w, step, row, outdated), NEW S, step \in S
  PROVE  Moves(w, S) /\ pc'[w] = step /\ (step # "idle" => req' = req /\ copy' = copy)
<1>1. CASE step = "idle"
  BY <1>1, AnsweredMoves DEF SaveThen
<1>2. CASE step # "idle"
  BY <1>2 DEF SaveThen, Locals, Moves
<1> QED BY <1>1, <1>2

\* Governance adds the pass to the request, and sends it on.
LEMMA PassMoves ==
  ASSUME Locals, NEW w \in Workers, NEW by, NEW n, Pass(w, by, n), Formed(req[w]),
         NEW S, Thens \subseteq S
  PROVE  /\ Moves(w, S) /\ pc'[w] = req[w].then
         /\ req'[w] = [req[w] EXCEPT !.pass = [by |-> by, n |-> n]]
         /\ copy' = copy
BY DEF Pass, Locals, Moves, Formed

LEMMA WholeStays ==
  ASSUME Locals, NEW op, Whole(op)
  PROVE  UNCHANGED <<pc, req, copy>>
BY DEF Whole
-----------------------------------------------------------------------------
(* Where the steps of each component lead. *)

LEMMA GovMoves ==
  ASSUME Flow, GovNext
  PROVE  UNCHANGED <<pc, req, copy, stale>> \/ \E w \in Workers : Moves(w, GovSteps)
<1>0. /\ Thens \subseteq GovSteps
      /\ {"idle", "switch", "rules", "decide", "receipt"} \subseteq GovSteps
  BY DEF GovSteps
<1>1. Locals
  BY DEF Flow
<1>2. CASE \/ CreateCapability \/ CreatePolicyRule \/ CreateKillSwitch \/ ExpireSwitch
           \/ CreateApprovalReceipt \/ RevokeApprovalReceipt \/ ReissueApprovalReceiptToken
           \/ ExpireReceipt \/ ConsumeApprovalReceipt \/ ResolveScanResult
  BY <1>2 DEF CreateCapability, CreatePolicyRule, CreateKillSwitch, ExpireSwitch,
              CreateApprovalReceipt, RevokeApprovalReceipt, ReissueApprovalReceiptToken,
              ExpireReceipt, ConsumeApprovalReceipt, ResolveScanResult, Whole, flow
<1>3. ASSUME NEW w \in Workers, BeginEvaluate(w) PROVE Moves(w, GovSteps)
  BY <1>0, <1>1, <1>3, BeginMoves DEF BeginEvaluate
<1>4. ASSUME NEW w \in Workers, Enforce(w) \/ ConsumeForOperation(w) \/ PersistDecision(w)
      PROVE  Moves(w, GovSteps)
  <2>1. Formed(req[w])
    BY <1>4 DEF Flow, Asking, Enforce, ConsumeForOperation, PersistDecision
  <2>2. CASE Enforce(w)
    BY <1>0, <1>1, <2>1, <2>2, PassMoves, GotoMoves DEF Enforce
  <2>3. CASE ConsumeForOperation(w)
    BY <1>0, <1>1, <2>1, <2>3, PassMoves, AnswerMoves DEF ConsumeForOperation
  <2>4. CASE PersistDecision(w)
    BY <1>0, <1>1, <2>1, <2>4, PassMoves, AnswerMoves, KeepMoves DEF PersistDecision
  <2> QED BY <1>4, <2>2, <2>3, <2>4
<1>5. ASSUME NEW w \in Workers, EvaluateSwitch(w) \/ EvaluateRules(w) \/ RequireApproval(w)
      PROVE  Moves(w, GovSteps)
  BY <1>0, <1>1, <1>5, GotoMoves, KeepMoves, AnswerMoves
     DEF EvaluateSwitch, EvaluateRules, RequireApproval
<1> QED BY <1>2, <1>3, <1>4, <1>5 DEF GovNext

\* The actions by which a request of the object or the plugin service comes to ask
\* governance, and those by which it goes on with what it was let through for.
Asks(w) == \/ BeginUpload(w) \/ BeginDownload(w) \/ BeginDelete(w) \/ BeginGrant(w)
           \/ BeginInvocation(w) \/ RequireActiveInstallation(w)
           \/ GetInvocationByClientRequest(w)

Carries(w) == \/ CreateUploadIntent(w) \/ CreateDownloadURL(w) \/ DeleteObject(w)
              \/ ConsumeConfirmation(w) \/ GetGrant(w) \/ CreateGrant(w) \/ SaveGrant(w)
              \/ CreateInvocation(w)

LEMMA ObjMoves ==
  ASSUME Locals, ObjNext
  PROVE  \/ UNCHANGED <<pc, req, copy, stale>>
         \/ \E w \in Workers : Moves(w, ObjSteps) \/ Asks(w) \/ Carries(w)
<1>0. {"idle", "head", "activate"} \subseteq ObjSteps
  BY DEF ObjSteps
<1>1. CASE StoreObject \/ PutContent \/ LapseUpload
  BY <1>1 DEF StoreObject, PutContent, LapseUpload, Whole, flow
<1>2. ASSUME NEW w \in Workers, BeginComplete(w) PROVE Moves(w, ObjSteps)
  BY <1>0, <1>2, BeginMoves, Zenon DEF BeginComplete
<1>3. ASSUME NEW w \in Workers, HeadObject(w) \/ MarkActive(w) PROVE Moves(w, ObjSteps)
  BY <1>0, <1>3, GotoMoves, AnswerMoves, Zenon DEF HeadObject, MarkActive
<1> QED BY <1>1, <1>2, <1>3 DEF ObjNext, Asks, Carries

LEMMA AuditMoves ==
  ASSUME Locals, AuditNext
  PROVE  \E w \in Workers : Moves(w, AuditSteps)
<1>0. {"idle", "audit", "append"} \subseteq AuditSteps
  BY DEF AuditSteps
<1> QED BY <1>0, BeginMoves, KeepMoves, AnswerMoves
        DEF AuditNext, BeginRecord, ReadHead, AppendHashChained

LEMMA ServiceMoves ==
  ASSUME Locals, SageNext
  PROVE  \E w \in Workers : \/ Moves(w, SageSteps \ ReportSteps) \/ Asks(w) \/ Carries(w)
                           \/ BeginReport(w) \/ GetReportByClientID(w) \/ SubmitReport(w)
<1> DEFINE S == SageSteps \ ReportSteps
<1>0. /\ {"idle", "audit", "submit", "package", "scan", "reviewed", "review", "suspend"}
           \subseteq S
      /\ {"installation", "install", "reinstall", "status", "announce", "announce-new",
          "revoke"} \subseteq S
  BY DEF SageSteps, ReportSteps
<1> HIDE DEF S
<1>1. ASSUME NEW w \in Workers, CreatePlugin(w) PROVE Moves(w, S)
  BY <1>0, <1>1, BeginMoves DEF CreatePlugin
<1>2. ASSUME NEW w \in Workers, BeginSubmitVersion(w) PROVE Moves(w, S)
  BY <1>0, <1>2, BeginReadMoves DEF BeginSubmitVersion
<1>3. ASSUME NEW w \in Workers, BeginReview(w) PROVE Moves(w, S)
  BY <1>0, <1>3, BeginReadMoves DEF BeginReview
<1>4. ASSUME NEW w \in Workers, BeginSuspend(w) PROVE Moves(w, S)
  BY <1>0, <1>4, BeginReadMoves DEF BeginSuspend
<1>5. ASSUME NEW w \in Workers, RequireActiveOwnedAsset(w) \/ ScanManifest(w) \/ ReadVersion(w)
      PROVE  Moves(w, S)
  BY <1>0, <1>5, GotoMoves, KeepMoves, AnswerMoves
     DEF RequireActiveOwnedAsset, ScanManifest, ReadVersion
<1>6. ASSUME NEW w \in Workers, SubmitVersion(w) \/ ReviewPlugin(w) \/ SuspendPlugin(w)
      PROVE  Moves(w, S)
  BY <1>0, <1>6, SaveThenMoves, AnswerMoves DEF SubmitVersion, ReviewPlugin, SuspendPlugin
<1>7. ASSUME NEW w \in Workers, BeginInstall(w) PROVE Moves(w, S)
  BY <1>0, <1>7, BeginMoves DEF BeginInstall
<1>8. ASSUME NEW w \in Workers, GetInstallation(w) \/ InstallPlugin(w)
      PROVE  Moves(w, S)
  BY <1>0, <1>8, GotoMoves, KeepMoves, AnswerMoves DEF GetInstallation, InstallPlugin
<1>9. ASSUME NEW w \in Workers, ReinstallPlugin(w) \/ SetInstallationStatus(w)
      PROVE  Moves(w, S)
  BY <1>0, <1>9 DEF ReinstallPlugin, SetInstallationStatus, SaveInstallation, Locals, Moves
<1>10. ASSUME NEW w \in Workers, BeginSetStatus(w) PROVE Moves(w, S)
  BY <1>0, <1>10, BeginReadMoves DEF BeginSetStatus
<1>11. ASSUME NEW w \in Workers, RevokeGrant(w) \/ RecordPluginSync(w)
       PROVE  Moves(w, S)
  BY <1>0, <1>11, GotoMoves, KeepMoves, AnswerMoves DEF RevokeGrant, RecordPluginSync
<1>12. ASSUME NEW w \in Workers, BeginRevokeGrant(w) PROVE Moves(w, S)
  BY <1>0, <1>12, BeginMoves DEF BeginRevokeGrant
<1> QED BY <1>1, <1>2, <1>3, <1>4, <1>5, <1>6, <1>7, <1>8, <1>9, <1>10, <1>11, <1>12
        DEF SageNext, Asks, Carries, S

LEMMA SageMoves ==
  ASSUME Locals, SageNext
  PROVE  \E w \in Workers : Moves(w, SageSteps) \/ Asks(w) \/ Carries(w)
<1>0. {"idle", "reported", "report"} \subseteq SageSteps
  BY DEF SageSteps
<1>1. ASSUME NEW w \in Workers, Moves(w, SageSteps \ ReportSteps) PROVE Moves(w, SageSteps)
  BY <1>1 DEF Moves
<1>2. ASSUME NEW w \in Workers, GetReportByClientID(w) PROVE Moves(w, SageSteps)
  BY <1>0, <1>2, GotoMoves, AnswerMoves DEF GetReportByClientID
<1>3. ASSUME NEW w \in Workers, BeginReport(w) PROVE Moves(w, SageSteps)
  BY <1>0, <1>3, BeginReadMoves DEF BeginReport
<1>4. ASSUME NEW w \in Workers, SubmitReport(w) PROVE Moves(w, SageSteps)
  BY <1>0, <1>4, SaveThenMoves, AnswerMoves DEF SubmitReport
<1> QED BY <1>1, <1>2, <1>3, <1>4, ServiceMoves

LEMMA AskMoves ==
  ASSUME Locals, NEW w \in Workers, Asks(w)
  PROVE  Moves(w, AskSteps)
<1>0. {"idle", "active", "known", "enforce"} \subseteq AskSteps
  BY DEF AskSteps
<1>1. CASE BeginGrant(w)
  BY <1>0, <1>1, BeginMoves DEF BeginGrant
<1>2. CASE BeginInvocation(w)
  BY <1>0, <1>2, BeginMoves DEF BeginInvocation
<1>3. CASE RequireActiveInstallation(w) \/ GetInvocationByClientRequest(w)
  BY <1>0, <1>3, GotoMoves, AnswerMoves
     DEF RequireActiveInstallation, GetInvocationByClientRequest
<1>4. CASE BeginUpload(w) \/ BeginDownload(w) \/ BeginDelete(w)
  BY <1>0, <1>4, BeginMoves, Zenon DEF BeginUpload, BeginDownload, BeginDelete
<1> QED BY <1>1, <1>2, <1>3, <1>4 DEF Asks

LEMMA CarryMoves ==
  ASSUME Locals, NEW w \in Workers, Carries(w)
  PROVE  Moves(w, CarrySteps)
<1>0. {"idle", "grant", "new-grant", "save-grant", "announce"} \subseteq CarrySteps
  BY DEF CarrySteps
<1>1. CASE CreateUploadIntent(w) \/ CreateDownloadURL(w) \/ DeleteObject(w) \/ CreateInvocation(w)
  BY <1>0, <1>1, AnswerMoves
     DEF CreateUploadIntent, CreateDownloadURL, DeleteObject, CreateInvocation
<1>2. CASE ConsumeConfirmation(w) \/ GetGrant(w) \/ CreateGrant(w) \/ SaveGrant(w)
  BY <1>0, <1>2, GotoMoves, KeepMoves, AnswerMoves
     DEF ConsumeConfirmation, GetGrant, CreateGrant, SaveGrant
<1> QED BY <1>1, <1>2 DEF Carries

LEMMA HubMoves ==
  ASSUME Locals, HubNext
  PROVE  \E w \in Workers : Moves(w, HubSteps)
<1>0. /\ {"idle", "audit", "new-skill", "skill", "takedown", "asset", "release", "restrict",
          "lift", "rate", "aggregate"} \subseteq HubSteps
      /\ {"copy", "new-copy", "save-copy", "download", "download-new", "announce",
          "announce-new", "skill-status", "pin"} \subseteq HubSteps
  BY DEF HubSteps
<1>1. ASSUME NEW w \in Workers, BeginCreateSkill(w) PROVE Moves(w, HubSteps)
  BY <1>0, <1>1, BeginMoves DEF BeginCreateSkill, EnsurePublisherAllowed
<1>2. ASSUME NEW w \in Workers, BeginSubmitSkill(w) PROVE Moves(w, HubSteps)
  BY <1>0, <1>2, BeginMoves DEF BeginSubmitSkill, EnsurePublisherAllowed
<1>3. ASSUME NEW w \in Workers, BeginTakedown(w) PROVE Moves(w, HubSteps)
  BY <1>0, <1>3, BeginMoves DEF BeginTakedown
<1>4. ASSUME NEW w \in Workers, BeginRestrict(w) PROVE Moves(w, HubSteps)
  BY <1>0, <1>4, BeginMoves DEF BeginRestrict
<1>5. ASSUME NEW w \in Workers, BeginLift(w) PROVE Moves(w, HubSteps)
  BY <1>0, <1>5, BeginMoves DEF BeginLift
<1>6. ASSUME NEW w \in Workers, BeginRate(w) PROVE Moves(w, HubSteps)
  BY <1>0, <1>6, BeginMoves DEF BeginRate
<1>7. ASSUME NEW w \in Workers, BeginInstallSkill(w) PROVE Moves(w, HubSteps)
  BY <1>0, <1>7, BeginMoves DEF BeginInstallSkill
<1>8. ASSUME NEW w \in Workers, BeginSkillStatus(w) PROVE Moves(w, HubSteps)
  BY <1>0, <1>8, BeginReadMoves DEF BeginSkillStatus
<1>9. ASSUME NEW w \in Workers, BeginUpdateInstallation(w) PROVE Moves(w, HubSteps)
  BY <1>0, <1>9, BeginReadMoves DEF BeginUpdateInstallation
<1>10. ASSUME NEW w \in Workers, CreateSkill(w) \/ ReadSkill(w) \/ RequireSkillAsset(w)
       PROVE  Moves(w, HubSteps)
  BY <1>0, <1>10, GotoMoves, KeepMoves, AnswerMoves DEF CreateSkill, ReadSkill, RequireSkillAsset
<1>11. ASSUME NEW w \in Workers,
              \/ SubmitSkillVersion(w) \/ TakedownSkill(w) \/ RecalculateSkillRatingAggregate(w)
       PROVE  Moves(w, HubSteps)
  BY <1>0, <1>11, SaveThenMoves, AnswerMoves
     DEF SubmitSkillVersion, TakedownSkill, RecalculateSkillRatingAggregate
<1>12. ASSUME NEW w \in Workers,
              \/ RestrictPublisher(w) \/ LiftPublisherRestriction(w) \/ UpsertRating(w)
              \/ GetSkillInstallation(w) \/ InstallSkill(w) \/ IncrementDownloadCount(w)
              \/ RecordInstallationSync(w)
       PROVE  Moves(w, HubSteps)
  BY <1>0, <1>12, GotoMoves, KeepMoves, AnswerMoves
     DEF RestrictPublisher, LiftPublisherRestriction, UpsertRating, GetSkillInstallation,
         InstallSkill, IncrementDownloadCount, RecordInstallationSync
<1>13. ASSUME NEW w \in Workers, ReinstallSkill(w) \/ SetSkillStatus(w)
       PROVE  Moves(w, HubSteps)
  BY <1>0, <1>13 DEF ReinstallSkill, SetSkillStatus, SaveCopy, Locals, Moves
<1>14. ASSUME NEW w \in Workers, UpdateInstallation(w) PROVE Moves(w, HubSteps)
  <2>1. CASE Answer(w)
    BY <1>0, <2>1, AnswerMoves
  <2>2. ASSUME NEW row, SaveCopy(w, row, "announce") PROVE Moves(w, HubSteps)
    BY <1>0, <2>2 DEF SaveCopy, Locals, Moves
  <2> QED BY <1>14, <2>1, <2>2 DEF UpdateInstallation
<1> QED BY <1>1, <1>2, <1>3, <1>4, <1>5, <1>6, <1>7, <1>8, <1>9, <1>10, <1>11, <1>12, <1>13,
           <1>14 DEF HubNext

LEMMA SetMoves ==
  ASSUME Locals, SetNext
  PROVE  \E w \in Workers : Moves(w, SetSteps)
<1>0. {"idle", "create-contact", "update-contact", "delete-contact", "add", "announce",
       "update-server", "remove", "erase", "upsert", "read-back"} \subseteq SetSteps
  BY DEF SetSteps
<1>1. ASSUME NEW w \in Workers, BeginCreateContact(w) PROVE Moves(w, SetSteps)
  BY <1>0, <1>1, BeginReadMoves DEF BeginCreateContact, IdempotentContactReplay
<1>2. ASSUME NEW w \in Workers, BeginChangeContact(w) PROVE Moves(w, SetSteps)
  <2>1. PICK id \in Ids, op \in {"update-contact", "delete-contact"} :
          BeginRead(w, [Request EXCEPT !.op = op, !.id = id, !.row = Contact], contact, op)
    BY <1>2, Zenon DEF BeginChangeContact, IdempotentContactReplay
  <2> QED BY <1>0, <2>1, BeginReadMoves
<1>3. ASSUME NEW w \in Workers, BeginAddServer(w) PROVE Moves(w, SetSteps)
  BY <1>0, <1>3, BeginReadMoves DEF BeginAddServer
<1>4. ASSUME NEW w \in Workers, BeginUpdateServer(w) PROVE Moves(w, SetSteps)
  BY <1>0, <1>4, BeginReadMoves DEF BeginUpdateServer
<1>5. ASSUME NEW w \in Workers, BeginRemoveServer(w) PROVE Moves(w, SetSteps)
  BY <1>0, <1>5, BeginMoves DEF BeginRemoveServer
<1>6. ASSUME NEW w \in Workers, BeginSkillSetting(w) \/ BeginAgentSetting(w)
      PROVE  Moves(w, SetSteps)
  BY <1>0, <1>6, BeginMoves, Zenon DEF BeginSkillSetting, BeginAgentSetting
<1>7. ASSUME NEW w \in Workers, CreateContact(w) \/ UpdateContact(w) \/ DeleteContact(w)
      PROVE  Moves(w, SetSteps)
  BY <1>0, <1>7, AnswerMoves DEF CreateContact, UpdateContact, DeleteContact, CommitContact
<1>8. ASSUME NEW w \in Workers,
             \/ AddServer(w) \/ UpdateServer(w) \/ RemoveServer(w) \/ DeleteServer(w)
      PROVE  Moves(w, SetSteps)
  <2>1. CASE AddServer(w)
    BY <1>0, <2>1, GotoMoves, KeepMoves, AnswerMoves DEF AddServer
  <2>2. CASE UpdateServer(w)
    BY <1>0, <2>2, GotoMoves, KeepMoves, AnswerMoves DEF UpdateServer
  <2>3. CASE RemoveServer(w)
    BY <1>0, <2>3, GotoMoves, KeepMoves, AnswerMoves DEF RemoveServer
  <2>4. CASE DeleteServer(w)
    BY <1>0, <2>4, GotoMoves, KeepMoves, AnswerMoves DEF DeleteServer
  <2> QED BY <1>8, <2>1, <2>2, <2>3, <2>4
<1>9. ASSUME NEW w \in Workers, Upsert(w) \/ ReadBack(w) \/ RecordSetting(w)
      PROVE  Moves(w, SetSteps)
  BY <1>0, <1>9, KeepMoves, AnswerMoves DEF Upsert, ReadBack, RecordSetting
<1> QED BY <1>1, <1>2, <1>3, <1>4, <1>5, <1>6, <1>7, <1>8, <1>9 DEF SetNext

LEMMA BillMoves ==
  ASSUME Locals, BillNext
  PROVE  UNCHANGED <<pc, req, copy, stale>> \/ \E w \in Workers : Moves(w, BillSteps)
<1>0. {"idle", "audit", "account", "open-account", "debit", "earning", "payout",
       "save-payout", "save-earning"} \subseteq BillSteps
  BY DEF BillSteps
<1>1. CASE UseFreely
  BY <1>1 DEF UseFreely, Whole
<1>2. ASSUME NEW w \in Workers, CreateUsageRecord(w) PROVE Moves(w, BillSteps)
  BY <1>0, <1>2, BeginMoves DEF CreateUsageRecord
<1>3. ASSUME NEW w \in Workers,
             \/ MarkPayoutPaid(w) \/ CreateInvoice(w) \/ MarkInvoicePaid(w)
             \/ RequestRefund(w) \/ ResolveRefund(w) \/ OpenDispute(w) \/ ResolveDispute(w)
      PROVE  Moves(w, BillSteps)
  BY <1>0, <1>3, BeginMoves
     DEF MarkPayoutPaid, CreateInvoice, MarkInvoicePaid, RequestRefund, ResolveRefund,
         OpenDispute, ResolveDispute
<1>4. ASSUME NEW w \in Workers,
             GetAccount(w) \/ CreateAccount(w) \/ CreateTransaction(w) \/ GetPayout(w)
      PROVE  Moves(w, BillSteps)
  BY <1>0, <1>4, GotoMoves, KeepMoves, AnswerMoves
     DEF GetAccount, CreateAccount, CreateTransaction, GetPayout, Fails
<1>5. ASSUME NEW w \in Workers, SavePayout(w) \/ SaveEarning(w) PROVE Moves(w, BillSteps)
  BY <1>0, <1>5, SaveThenMoves, AnswerMoves DEF SavePayout, SaveEarning, Fails
<1>6. ASSUME NEW w \in Workers, GetEarning(w) PROVE Moves(w, BillSteps)
  BY <1>0, <1>6, KeepMoves DEF GetEarning
<1> QED BY <1>1, <1>2, <1>3, <1>4, <1>5, <1>6 DEF BillNext

LEMMA ChatMoves ==
  ASSUME Locals, ChatNext
  PROVE  \E w \in Workers : Moves(w, ChatSteps)
<1>0. {"idle", "save-conversation", "get-reaction", "react", "unreact", "announce"}
        \subseteq ChatSteps
  BY DEF ChatSteps
<1>1. ASSUME NEW w \in Workers, BeginUpdateConversation(w) PROVE Moves(w, ChatSteps)
  BY <1>0, <1>1, BeginReadMoves DEF BeginUpdateConversation
<1>2. ASSUME NEW w \in Workers, MarkConversationRead(w) PROVE Moves(w, ChatSteps)
  BY <1>0, <1>2, BeginReadMoves DEF MarkConversationRead
<1>3. ASSUME NEW w \in Workers, BeginAddReaction(w) \/ BeginRemoveReaction(w)
      PROVE  Moves(w, ChatSteps)
  BY <1>0, <1>3, BeginMoves DEF BeginAddReaction, BeginRemoveReaction
<1>4. ASSUME NEW w \in Workers, UpdateConversation(w) PROVE Moves(w, ChatSteps)
  BY <1>0, <1>4, SaveThenMoves DEF UpdateConversation
<1>5. ASSUME NEW w \in Workers,
             \/ AddReaction(w) \/ GetReaction(w) \/ RemoveReaction(w)
             \/ RecordConversationSyncEvents(w) \/ RecordConversationReadSyncEvent(w)
             \/ RecordReactionSyncEvents(w)
      PROVE  Moves(w, ChatSteps)
  BY <1>0, <1>5, GotoMoves, KeepMoves, AnswerMoves
     DEF AddReaction, GetReaction, RemoveReaction, RecordConversationSyncEvents,
         RecordConversationReadSyncEvent, RecordReactionSyncEvents
<1> QED BY <1>1, <1>2, <1>3, <1>4, <1>5 DEF ChatNext

LEMMA AbandonMoves ==
  ASSUME Locals, NEW w \in Workers, Abandon(w)
  PROVE  Moves(w, {"idle"})
BY AnswerMoves DEF Abandon

-----------------------------------------------------------------------------
(* Who asks governance has a well-formed request. *)

LEMMA MoveKeepsFlow ==
  ASSUME Flow, NEW w \in Workers, NEW S, Moves(w, S),
         Formed(req'[w]) \/ S \intersect Asking = {}
  PROVE  Flow'
BY DEF Flow, Moves

LEMMA StayKeepsFlow ==
  ASSUME Flow, UNCHANGED <<pc, req, copy>>
  PROVE  Flow'
BY DEF Flow, Locals

LEMMA GovFlow ==
  ASSUME Flow, GovNext
  PROVE  Flow'
<1>0. Locals /\ Thens \intersect Asking = {} /\ {"idle", "receipt"} \intersect Asking = {}
  BY DEF Flow, Thens, Asking
<1>1. CASE \/ CreateCapability \/ CreatePolicyRule \/ CreateKillSwitch \/ ExpireSwitch
           \/ CreateApprovalReceipt \/ RevokeApprovalReceipt \/ ReissueApprovalReceiptToken
           \/ ExpireReceipt \/ ConsumeApprovalReceipt \/ ResolveScanResult
  BY <1>1, StayKeepsFlow
     DEF CreateCapability, CreatePolicyRule, CreateKillSwitch, ExpireSwitch,
         CreateApprovalReceipt, RevokeApprovalReceipt, ReissueApprovalReceiptToken,
         ExpireReceipt, ConsumeApprovalReceipt, ResolveScanResult, Whole, flow
<1>2. ASSUME NEW w \in Workers, BeginEvaluate(w) PROVE Flow'
  <2>1. PICK r : Begin(w, [Request EXCEPT !.op = "evaluate", !.user = r.user, !.type = r.type,
                                         !.on = r.on, !.cap = r.cap], "switch")
    BY <1>2, Zenon DEF BeginEvaluate
  <2>2. Formed([Request EXCEPT !.op = "evaluate", !.user = r.user, !.type = r.type,
                               !.on = r.on, !.cap = r.cap])
    BY ZenonT(30) DEF Formed, Request, Thens
  <2>3. Moves(w, {"switch"}) /\ Formed(req'[w])
    BY <1>0, <2>1, <2>2, BeginMoves
  <2> QED BY <2>3, MoveKeepsFlow
<1>3. ASSUME NEW w \in Workers, pc[w] \in Asking, NEW by, NEW n, Pass(w, by, n) PROVE Flow'
  <2>1. Formed(req[w])
    BY <1>3 DEF Flow
  <2>2. Moves(w, Thens)
    BY <1>0, <1>3, <2>1, PassMoves
  <2> QED BY <1>0, <2>2, MoveKeepsFlow
<1>4. ASSUME NEW w \in Workers, pc[w] \in Asking, NEW step, Goto(w, step) PROVE Flow'
  <2>1. Formed(req[w]) /\ Moves(w, {step}) /\ req' = req
    BY <1>0, <1>4, GotoMoves DEF Flow
  <2> QED BY <2>1, MoveKeepsFlow
<1>5. ASSUME NEW w \in Workers, pc[w] \in Asking, NEW row, NEW step, Keep(w, row, step)
      PROVE  Flow'
  <2>1. Formed(req[w]) /\ Moves(w, {step}) /\ req' = req
    BY <1>0, <1>5, KeepMoves DEF Flow
  <2> QED BY <2>1, MoveKeepsFlow
<1>6. ASSUME NEW w \in Workers, Answer(w) PROVE Flow'
  <2>1. Moves(w, {"idle"})
    BY <1>0, <1>6, AnswerMoves
  <2> QED BY <1>0, <2>1, MoveKeepsFlow DEF Asking
<1>7. ASSUME NEW w \in Workers,
             \/ Enforce(w) \/ ConsumeForOperation(w) \/ EvaluateSwitch(w) \/ EvaluateRules(w)
             \/ PersistDecision(w) \/ RequireApproval(w)
      PROVE  Flow'
  BY <1>3, <1>4, <1>5, <1>6, <1>7
     DEF Enforce, ConsumeForOperation, EvaluateSwitch, EvaluateRules, PersistDecision,
         RequireApproval, Asking
<1> QED BY <1>1, <1>2, <1>7 DEF GovNext

LEMMA AskFlow ==
  ASSUME Flow, NEW w \in Workers, Asks(w)
  PROVE  Flow'
<1>0. Locals
  BY DEF Flow
<1>1. ASSUME NEW r, NEW step, Formed(r), Begin(w, r, step) PROVE Flow'
  <2>1. Moves(w, {step}) /\ Formed(req'[w])
    BY <1>0, <1>1, BeginMoves
  <2> QED BY <2>1, MoveKeepsFlow
<1>2. CASE BeginGrant(w)
  <2>1. PICK u, p, token : Begin(w, GrantRequest(u, p, token), "enforce")
    BY <1>2 DEF BeginGrant
  <2>2. Formed(GrantRequest(u, p, token))
    BY ZenonT(30) DEF Formed, Request, Thens, GrantRequest
  <2> QED BY <1>1, <2>1, <2>2
<1>3. CASE BeginInvocation(w)
  <2>1. PICK u, c, p :
          Begin(w, [Request EXCEPT !.op = "invoke", !.user = u, !.n = c, !.type = "invocation",
                      !.on = Plugin, !.cap = p, !.risk = "medium", !.then = "invoke"], "active")
    BY <1>3, Zenon DEF BeginInvocation
  <2>2. Formed([Request EXCEPT !.op = "invoke", !.user = u, !.n = c, !.type = "invocation",
                  !.on = Plugin, !.cap = p, !.risk = "medium", !.then = "invoke"])
    BY ZenonT(30) DEF Formed, Request, Thens
  <2> QED BY <1>1, <2>1, <2>2
<1>4. CASE RequireActiveInstallation(w) \/ GetInvocationByClientRequest(w)
  <2>1. ASSUME NEW step, Goto(w, step) PROVE Flow'
    <3>1. Formed(req[w])
      BY <1>4 DEF Flow, RequireActiveInstallation, GetInvocationByClientRequest, Asking
    <3>2. Moves(w, {step}) /\ req' = req
      BY <1>0, <2>1, GotoMoves
    <3> QED BY <3>1, <3>2, MoveKeepsFlow
  <2>2. ASSUME Answer(w) PROVE Flow'
    <3>1. Moves(w, {"idle"})
      BY <1>0, <2>2, AnswerMoves
    <3> QED BY <3>1, MoveKeepsFlow DEF Asking
  <2> QED BY <1>4, <2>1, <2>2 DEF RequireActiveInstallation, GetInvocationByClientRequest
<1>5. CASE BeginUpload(w)
  <2>1. Formed(ObjectRequest("upload", "scope", "intent"))
    BY ZenonT(30) DEF Formed, Request, Thens, ObjectRequest
  <2> QED BY <1>1, <1>5, <2>1 DEF BeginUpload
<1>6. CASE BeginDownload(w)
  <2>1. PICK n \in DOMAIN objects :
          Begin(w, [ObjectRequest("download", ObjectIds[n], "url") EXCEPT
                      !.n = n, !.word = objects[n].status], "enforce")
    BY <1>6, Zenon DEF BeginDownload
  <2>2. Formed([ObjectRequest("download", ObjectIds[n], "url") EXCEPT
                  !.n = n, !.word = objects[n].status])
    BY ZenonT(30) DEF Formed, Request, Thens, ObjectRequest
  <2> QED BY <1>1, <2>1, <2>2
<1>7. CASE BeginDelete(w)
  <2>1. PICK n \in DOMAIN objects :
          Begin(w, [ObjectRequest("delete", ObjectIds[n], "delete") EXCEPT !.n = n], "enforce")
    BY <1>7 DEF BeginDelete
  <2>2. Formed([ObjectRequest("delete", ObjectIds[n], "delete") EXCEPT !.n = n])
    BY ZenonT(30) DEF Formed, Request, Thens, ObjectRequest
  <2> QED BY <1>1, <2>1, <2>2
<1> QED BY <1>2, <1>3, <1>4, <1>5, <1>6, <1>7 DEF Asks

LEMMA FlowStep == Flow /\ [Next]_vars => Flow'
<1> SUFFICES ASSUME Flow, [Next]_vars PROVE Flow'
  OBVIOUS
<1>0. Locals
  BY DEF Flow
<1>1. ASSUME NEW w \in Workers, NEW S, Moves(w, S), S \intersect Asking = {}
      PROVE  Flow'
  BY <1>1, MoveKeepsFlow
<1>2. /\ AuditSteps \intersect Asking = {} /\ HubSteps \intersect Asking = {}
      /\ SetSteps \intersect Asking = {} /\ BillSteps \intersect Asking = {}
      /\ ChatSteps \intersect Asking = {} /\ {"idle"} \intersect Asking = {}
      /\ SageSteps \intersect Asking = {} /\ ObjSteps \intersect Asking = {}
      /\ CarrySteps \intersect Asking = {}
  BY DEF AuditSteps, HubSteps, SetSteps, BillSteps, ChatSteps, SageSteps, ObjSteps,
         CarrySteps, Asking
<1>3. CASE UNCHANGED vars
  BY <1>3, StayKeepsFlow DEF vars, flow
<1>4. CASE GovNext
  BY <1>4, GovFlow
<1>5. CASE ObjNext
  BY <1>0, <1>1, <1>2, <1>5, ObjMoves, AskFlow, CarryMoves, StayKeepsFlow
<1>6. CASE SageNext
  BY <1>0, <1>1, <1>2, <1>6, SageMoves, AskFlow, CarryMoves
<1>7. CASE AuditNext
  BY <1>0, <1>1, <1>2, <1>7, AuditMoves
<1>8. CASE HubNext
  BY <1>0, <1>1, <1>2, <1>8, HubMoves
<1>9. CASE SetNext
  BY <1>0, <1>1, <1>2, <1>9, SetMoves
<1>10. CASE BillNext
  BY <1>0, <1>1, <1>2, <1>10, BillMoves, StayKeepsFlow
<1>11. CASE ChatNext
  BY <1>0, <1>1, <1>2, <1>11, ChatMoves
<1>12. CASE \E w \in Workers : Abandon(w)
  BY <1>0, <1>1, <1>2, <1>12, AbandonMoves
<1> QED BY <1>3, <1>4, <1>5, <1>6, <1>7, <1>8, <1>9, <1>10, <1>11, <1>12 DEF Next

LEMMA FlowHolds == Spec => []Flow
<1>1. Init => Flow
  BY DEF Init, FlowInit, Flow, Locals, Asking
<1>2. Flow /\ [Next]_vars => Flow'
  BY FlowStep
<1> QED BY <1>1, <1>2, PTL DEF Spec
-----------------------------------------------------------------------------
(* What the components leave alone. *)

\* What governance decides by, and what it has let through.
ruled == <<rules, switches, decisions, receipts, config, admitted, calm>>

LEMMA SageApart ==
  ASSUME SageNext
  PROVE  /\ UNCHANGED <<objects, events, attempts, rules, switches, decisions, receipts, config>>
         /\ UNCHANGED <<admitted, calm>> \/ \E w \in Workers : Asks(w) \/ Carries(w)
<1>1. ASSUME NEW w \in Workers,
             \/ CreatePlugin(w) \/ BeginSubmitVersion(w) \/ RequireActiveOwnedAsset(w)
             \/ SubmitVersion(w) \/ BeginReview(w) \/ ReadVersion(w) \/ ReviewPlugin(w)
             \/ BeginSuspend(w) \/ SuspendPlugin(w)
      PROVE  UNCHANGED <<objects, events, attempts, ruled>>
  BY <1>1, Zenon DEF CreatePlugin, BeginSubmitVersion, RequireActiveOwnedAsset, SubmitVersion,
              BeginReview, ReadVersion, ReviewPlugin, BeginSuspend, SuspendPlugin, outside,
              govVars, objVars, auditVars, ruled
<1>2. ASSUME NEW w \in Workers,
             \/ BeginInstall(w) \/ GetInstallation(w) \/ InstallPlugin(w) \/ ReinstallPlugin(w)
             \/ BeginSetStatus(w) \/ SetInstallationStatus(w) \/ BeginRevokeGrant(w)
             \/ RevokeGrant(w) \/ RecordPluginSync(w) \/ BeginReport(w) \/ GetReportByClientID(w)
             \/ SubmitReport(w)
      PROVE  UNCHANGED <<objects, events, attempts, ruled>>
  BY <1>2, Zenon DEF BeginInstall, GetInstallation, InstallPlugin, ReinstallPlugin, BeginSetStatus,
              SetInstallationStatus, SaveInstallation, BeginRevokeGrant, RevokeGrant,
              RecordPluginSync, BeginReport, GetReportByClientID, SubmitReport, outside,
              govVars, objVars, auditVars, ruled
<1>3. ASSUME NEW w \in Workers, ScanManifest(w)
      PROVE  UNCHANGED <<objects, events, attempts, ruled>>
  BY <1>3 DEF ScanManifest, objVars, auditVars, ruled
<1>4. ASSUME NEW w \in Workers,
             \/ BeginGrant(w) \/ ConsumeConfirmation(w) \/ GetGrant(w) \/ CreateGrant(w)
             \/ SaveGrant(w) \/ BeginInvocation(w) \/ RequireActiveInstallation(w)
             \/ GetInvocationByClientRequest(w) \/ CreateInvocation(w)
      PROVE  /\ UNCHANGED <<objects, events, attempts, rules, switches, decisions, receipts,
                            config>>
             /\ Asks(w) \/ Carries(w)
  <2>1. CASE BeginGrant(w)
    BY <2>1 DEF BeginGrant, ungoverned, objVars, auditVars, Asks
  <2>2. CASE ConsumeConfirmation(w) \/ GetGrant(w)
    BY <2>2 DEF ConsumeConfirmation, GetGrant, outside, govVars, objVars, auditVars, Carries
  <2>3. CASE CreateGrant(w) \/ SaveGrant(w) \/ CreateInvocation(w)
    BY <2>3 DEF CreateGrant, SaveGrant, CreateInvocation, ungoverned, objVars, auditVars, Carries
  <2>4. CASE BeginInvocation(w) \/ RequireActiveInstallation(w)
    BY <2>4, Zenon DEF BeginInvocation, RequireActiveInstallation, outside, govVars, objVars,
                auditVars, Asks
  <2>5. CASE GetInvocationByClientRequest(w)
    BY <2>5 DEF GetInvocationByClientRequest, ungoverned, objVars, auditVars, Asks
  <2> QED BY <1>4, <2>1, <2>2, <2>3, <2>4, <2>5
<1>5. UNCHANGED ruled => UNCHANGED <<rules, switches, decisions, receipts, config, admitted, calm>>
  BY DEF ruled
<1> QED BY <1>1, <1>2, <1>3, <1>4, <1>5 DEF SageNext

LEMMA HubApart ==
  ASSUME HubNext
  PROVE  UNCHANGED <<objects, events, attempts, ruled>>
<1>1. ASSUME NEW w \in Workers,
             \/ BeginCreateSkill(w) \/ CreateSkill(w) \/ BeginSubmitSkill(w) \/ ReadSkill(w)
             \/ RequireSkillAsset(w) \/ SubmitSkillVersion(w) \/ BeginTakedown(w)
             \/ TakedownSkill(w) \/ BeginRestrict(w) \/ RestrictPublisher(w) \/ BeginLift(w)
             \/ LiftPublisherRestriction(w)
      PROVE  UNCHANGED <<objects, events, attempts, ruled>>
  BY <1>1, Zenon DEF BeginCreateSkill, CreateSkill, BeginSubmitSkill, ReadSkill, RequireSkillAsset,
              SubmitSkillVersion, BeginTakedown, TakedownSkill, BeginRestrict,
              RestrictPublisher, BeginLift, LiftPublisherRestriction, others, govVars,
              objVars, auditVars, ruled
<1>2. ASSUME NEW w \in Workers,
             \/ BeginRate(w) \/ UpsertRating(w) \/ RecalculateSkillRatingAggregate(w)
             \/ BeginInstallSkill(w) \/ GetSkillInstallation(w) \/ InstallSkill(w)
             \/ ReinstallSkill(w) \/ IncrementDownloadCount(w) \/ BeginSkillStatus(w)
             \/ SetSkillStatus(w) \/ BeginUpdateInstallation(w) \/ UpdateInstallation(w)
             \/ RecordInstallationSync(w)
      PROVE  UNCHANGED <<objects, events, attempts, ruled>>
  BY <1>2, Zenon DEF BeginRate, UpsertRating, RecalculateSkillRatingAggregate, BeginInstallSkill,
              GetSkillInstallation, InstallSkill, ReinstallSkill, SaveCopy,
              IncrementDownloadCount, BeginSkillStatus, SetSkillStatus,
              BeginUpdateInstallation, UpdateInstallation, RecordInstallationSync, others,
              govVars, objVars, auditVars, ruled
<1> QED BY <1>1, <1>2 DEF HubNext
-----------------------------------------------------------------------------
(* The audit log. *)

\* The numbers are at most the attempts, no two are the same, and each event is the
\* first or has its predecessor in the log.
Chained ==
  /\ attempts \in Nat
  /\ \A e \in events :
       /\ e.sequence \in 1 .. attempts
       /\ IF e.sequence = 1 THEN e.previous = Genesis
          ELSE \E f \in events : f.sequence = e.sequence - 1 /\ f.hash = e.previous
       /\ \A f \in events \ {e} : f.sequence # e.sequence

\* Who is about to append has read an event of the log, or that there was none.
Heads == \A w \in Workers :
           pc[w] = "append" => copy[w] \in events \union {[sequence |-> 0, hash |-> Genesis]}

Chain == Chained /\ Heads

\* A set of numbers up to n has a greatest element.
LEMMA Greatest ==
  ASSUME NEW n \in Nat, NEW S \in SUBSET (1 .. n), S # {}
  PROVE  \E a \in S : \A b \in S : b <= a
<1> DEFINE T == {n - a : a \in S}
<1>1. T \in SUBSET Nat /\ T # {}
  <2>1. \A a \in S : n - a \in Nat
    OBVIOUS
  <2>2. PICK a \in S : TRUE
    OBVIOUS
  <2> QED BY <2>1, <2>2
<1>2. PICK t \in T : \A u \in T : ~ (<<u, t>> \in OpToRel(<, Nat))
  BY <1>1, NatLessThanWellFounded, WFMin, Zenon
<1>3. \A u \in T : ~ (u < t)
  BY <1>1, <1>2 DEF OpToRel
<1>4. PICK a \in S : t = n - a
  BY <1>2, Zenon
<1>5. \A b \in S : n - b \in T
  OBVIOUS
<1>6. ASSUME NEW b \in S PROVE b <= a
  <2>1. ~ (n - b < n - a)
    BY <1>3, <1>4, <1>5
  <2> QED BY <2>1
<1> QED BY <1>6

LEMMA NewestIsOne ==
  ASSUME Chained
  PROVE  Newest \in events \union {[sequence |-> 0, hash |-> Genesis]}
<1>1. CASE events = {}
  BY <1>1 DEF Newest
<1>2. CASE events # {}
  <2> DEFINE S == {e.sequence : e \in events}
  <2>1. S \in SUBSET (1 .. attempts) /\ S # {} /\ attempts \in Nat
    BY <1>2 DEF Chained
  <2> HIDE DEF S
  <2>2. PICK a \in S : \A b \in S : b <= a
    BY <2>1, Greatest
  <2>3. \E e \in events : \A f \in events : f.sequence <= e.sequence
    BY <2>2 DEF S
  <2>4. (CHOOSE e \in events : \A f \in events : f.sequence <= e.sequence) \in events
    BY <2>3
  <2> QED BY <1>2, <2>4 DEF Newest
<1> QED BY <1>1, <1>2

\* A step of another component.
LEMMA ChainElsewhere ==
  ASSUME Chain, UNCHANGED <<events, attempts>>,
         \/ UNCHANGED <<pc, req, copy>>
         \/ \E w \in Workers : \E S : Moves(w, S) /\ "append" \notin S
  PROVE  Chain'
<1>1. Chained'
  BY DEF Chain, Chained
<1>2. Heads'
  BY DEF Chain, Heads, Moves
<1> QED BY <1>1, <1>2 DEF Chain

LEMMA ChainAudit ==
  ASSUME Chain, Locals, AuditNext
  PROVE  Chain'
<1>1. ASSUME NEW w \in Workers, BeginRecord(w) PROVE Chain'
  <2>1. Moves(w, {"audit"})
    BY <1>1, BeginMoves DEF BeginRecord
  <2> QED BY <1>1, <2>1, ChainElsewhere DEF BeginRecord, auditVars
<1>2. ASSUME NEW w \in Workers, ReadHead(w) PROVE Chain'
  <2>1. Moves(w, {"append"}) /\ copy'[w] = Newest
    BY <1>2, KeepMoves DEF ReadHead
  <2>2. Chained' /\ UNCHANGED events
    BY <1>2 DEF ReadHead, auditVars, Chain, Chained
  <2>3. Heads'
    BY <2>1, <2>2, NewestIsOne DEF Chain, Heads, Moves
  <2> QED BY <2>2, <2>3 DEF Chain
<1>3. ASSUME NEW w \in Workers, AppendHashChained(w) PROVE Chain'
  <2>1. Moves(w, {"idle"}) /\ events \subseteq events'
    BY <1>3, AnswerMoves DEF AppendHashChained
  <2>2. Heads'
    BY <2>1 DEF Chain, Heads, Moves
  <2>3. CASE UNCHANGED events
    <3>1. attempts \in Nat /\ attempts' = attempts + 1
      BY <1>3 DEF AppendHashChained, Chain, Chained
    <3>2. \A n \in 1 .. attempts : n \in 1 .. attempts'
      BY <3>1
    <3>3. attempts' \in Nat
      BY <3>1
    <3> QED BY <2>2, <2>3, <3>2, <3>3 DEF Chain, Chained
  <2>4. CASE events' # events
    <3>1. PICK time \in Remainders :
            events' = events \union {[sequence |-> copy[w].sequence + 1,
                                      previous |-> copy[w].hash, hash |-> attempts',
                                      hashed |-> time, time |-> Stored(time)]}
      BY <1>3, <2>4 DEF AppendHashChained
    <3>2. \A e \in events : e.sequence # copy[w].sequence + 1
      BY <1>3, <2>4 DEF AppendHashChained
    <3>3. copy[w] \in events \union {[sequence |-> 0, hash |-> Genesis]}
      BY <1>3 DEF AppendHashChained, Chain, Heads
    <3> DEFINE new == [sequence |-> copy[w].sequence + 1, previous |-> copy[w].hash,
                       hash |-> attempts', hashed |-> time, time |-> Stored(time)]
    <3>4. attempts \in Nat /\ attempts' = attempts + 1
      BY <1>3 DEF AppendHashChained, Chain, Chained
    <3>5. new.sequence = copy[w].sequence + 1 /\ new.previous = copy[w].hash
      OBVIOUS
    <3>6. events' = events \union {new}
      BY <3>1
    <3> HIDE DEF new
    <3>7. copy[w].sequence \in 0 .. attempts
      BY <3>3, <3>4 DEF Chain, Chained
    <3>8. IF new.sequence = 1 THEN new.previous = Genesis
          ELSE \E f \in events' : f.sequence = new.sequence - 1 /\ f.hash = new.previous
      <4>1. CASE copy[w] \in events
        <5>1. copy[w].sequence \in 1 .. attempts
          BY <4>1 DEF Chain, Chained
        <5>2. new.sequence # 1 /\ copy[w].sequence = new.sequence - 1
          BY <3>4, <3>5, <5>1
        <5> QED BY <3>5, <3>6, <4>1, <5>2
      <4>2. CASE copy[w] = [sequence |-> 0, hash |-> Genesis]
        BY <3>5, <4>2
      <4> QED BY <3>3, <4>1, <4>2
    <3>9. new.sequence \in 1 .. attempts'
      BY <3>4, <3>5, <3>7
    <3>10. \A f \in events : f.sequence # new.sequence
      BY <3>2, <3>5
    <3>11. ASSUME NEW e \in events
           PROVE  /\ e.sequence \in 1 .. attempts'
                  /\ IF e.sequence = 1 THEN e.previous = Genesis
                     ELSE \E f \in events' : f.sequence = e.sequence - 1 /\ f.hash = e.previous
                  /\ \A f \in events' \ {e} : f.sequence # e.sequence
      <4>1. e.sequence \in 1 .. attempts'
        BY <3>4 DEF Chain, Chained
      <4>2. IF e.sequence = 1 THEN e.previous = Genesis
            ELSE \E f \in events' : f.sequence = e.sequence - 1 /\ f.hash = e.previous
        BY <3>6 DEF Chain, Chained
      <4>3. \A f \in events' \ {e} : f.sequence # e.sequence
        BY <3>6, <3>10 DEF Chain, Chained
      <4> QED BY <4>1, <4>2, <4>3
    <3>12. Chained'
      BY <3>4, <3>6, <3>8, <3>9, <3>10, <3>11 DEF Chained
    <3> QED BY <2>2, <3>12 DEF Chain
  <2> QED BY <2>3, <2>4
<1> QED BY <1>1, <1>2, <1>3 DEF AuditNext

LEMMA ChainStep == Flow /\ Chain /\ [Next]_vars => Chain'
<1> SUFFICES ASSUME Flow, Chain, [Next]_vars PROVE Chain'
  OBVIOUS
<1>0. Locals
  BY DEF Flow
<1>1. ASSUME NEW w \in Workers, NEW S, Moves(w, S), "append" \notin S,
             UNCHANGED <<events, attempts>>
      PROVE  Chain'
  BY <1>1, ChainElsewhere
<1>2. /\ "append" \notin GovSteps /\ "append" \notin ObjSteps /\ "append" \notin SageSteps
      /\ "append" \notin HubSteps /\ "append" \notin SetSteps /\ "append" \notin BillSteps
      /\ "append" \notin ChatSteps /\ "append" \notin AskSteps /\ "append" \notin CarrySteps
      /\ "append" \notin {"idle"}
  BY DEF GovSteps, Thens, ObjSteps, SageSteps, HubSteps, SetSteps, BillSteps, ChatSteps,
         AskSteps, CarrySteps
<1>3. CASE UNCHANGED vars
  BY <1>3, ChainElsewhere DEF vars, flow, auditVars
<1>4. CASE GovNext /\ UNCHANGED auditVars
  BY <1>0, <1>1, <1>2, <1>4, GovMoves, ChainElsewhere DEF auditVars
<1>5. CASE ObjNext /\ UNCHANGED auditVars
  BY <1>0, <1>1, <1>2, <1>5, ObjMoves, AskMoves, CarryMoves, ChainElsewhere DEF auditVars
<1>6. CASE SageNext
  BY <1>0, <1>1, <1>2, <1>6, SageMoves, AskMoves, CarryMoves, SageApart
<1>7. CASE AuditNext
  BY <1>0, <1>7, ChainAudit
<1>8. CASE HubNext
  BY <1>0, <1>1, <1>2, <1>8, HubMoves, HubApart
<1>9. CASE SetNext /\ UNCHANGED auditVars
  BY <1>0, <1>1, <1>2, <1>9, SetMoves DEF auditVars
<1>10. CASE BillNext /\ UNCHANGED auditVars
  BY <1>0, <1>1, <1>2, <1>10, BillMoves, ChainElsewhere DEF auditVars
<1>11. CASE ChatNext /\ UNCHANGED auditVars
  BY <1>0, <1>1, <1>2, <1>11, ChatMoves DEF auditVars
<1>12. CASE \E w \in Workers : Abandon(w) /\ UNCHANGED auditVars
  BY <1>0, <1>1, <1>2, <1>12, AbandonMoves DEF auditVars
<1> QED BY <1>3, <1>4, <1>5, <1>6, <1>7, <1>8, <1>9, <1>10, <1>11, <1>12 DEF Next

LEMMA ChainImpliesUnbroken == Chain => ChainUnbroken
<1> SUFFICES ASSUME Chain, NEW e \in events
             PROVE  /\ Breaks(e) \intersect {"gap", "link"} = {}
                    /\ \A f \in events \ {e} : f.sequence # e.sequence
  BY DEF ChainUnbroken
<1> DEFINE before == {f \in events : f.sequence < e.sequence}
           last   == IF before = {} THEN [sequence |-> 0, hash |-> Genesis]
                     ELSE CHOOSE f \in before : \A g \in before : g.sequence <= f.sequence
<1>0. /\ attempts \in Nat /\ e.sequence \in 1 .. attempts
      /\ \A f \in events : f.sequence \in 1 .. attempts
  BY DEF Chain, Chained
<1>1. e.sequence = last.sequence + 1 /\ e.previous = last.hash
  <2>1. CASE e.sequence = 1
    <3>1. before = {} /\ e.previous = Genesis
      BY <1>0, <2>1 DEF Chain, Chained
    <3> QED BY <2>1, <3>1
  <2>2. CASE e.sequence # 1
    <3>1. PICK p \in events : p.sequence = e.sequence - 1 /\ p.hash = e.previous
      BY <2>2 DEF Chain, Chained
    <3>2. p \in before /\ \A g \in before : g.sequence <= p.sequence
      BY <1>0, <3>1
    <3>3. last \in before /\ \A g \in before : g.sequence <= last.sequence
      BY <3>2
    <3>4. last \in events /\ last.sequence = p.sequence
      BY <1>0, <3>2, <3>3
    <3>5. last = p
      BY <3>4 DEF Chain, Chained
    <3> HIDE DEF last
    <3> QED BY <1>0, <3>1, <3>5
  <2> QED BY <2>1, <2>2
<1>2. Breaks(e) = {why \in {"gap", "link", "hash"} :
                     \/ why = "gap" /\ e.sequence # last.sequence + 1
                     \/ why = "link" /\ e.previous # last.hash
                     \/ why = "hash" /\ e.hashed # e.time}
  BY DEF Breaks
<1> HIDE DEF last
<1>3. Breaks(e) \intersect {"gap", "link"} = {}
  BY <1>1, <1>2
<1> QED BY <1>3 DEF Chain, Chained

\* However many services record at once and whatever the others do, the stored events
\* are numbered without gaps or repetitions, and each holds the hash of the one before
\* it (ChainUnbroken; AppendHashChained): only the unique index refuses the second of
\* two that have read the same event.
THEOREM LogUnbroken == Spec => []ChainUnbroken
<1>1. Init => Chain
  BY DEF Init, FlowInit, AuditInit, Chain, Chained, Heads
<1>2. Flow /\ Chain /\ [Next]_vars => Chain'
  BY ChainStep
<1>3. Spec => []Chain
  BY <1>1, <1>2, FlowHolds, PTL DEF Spec
<1> QED BY <1>3, ChainImpliesUnbroken, PTL
-----------------------------------------------------------------------------
(* Deleted rows. *)

ObjectRow == [status : {"pending", "active", "deleted"}, lapsed : BOOLEAN]

ObjectRows == objects \in Seq(ObjectRow)

\* The change of the object records keeps the deleted ones deleted.
ObjectsStay == \A n \in DOMAIN objects :
                 objects[n].status = "deleted" => objects'[n].status = "deleted"

LEMMA NewObject ==
  ASSUME ObjectRows, NEW row \in ObjectRow, objects' = Append(objects, row)
  PROVE  ObjectRows' /\ ObjectsStay
BY DEF ObjectRows, ObjectsStay

LEMMA ChangedObject ==
  ASSUME ObjectRows, NEW n, NEW row \in ObjectRow, objects' = [objects EXCEPT ![n] = row],
         n \in DOMAIN objects /\ objects[n].status = "deleted" => row.status = "deleted"
  PROVE  ObjectRows' /\ ObjectsStay
<1>1. Len(objects) \in Nat /\ objects \in [1 .. Len(objects) -> ObjectRow]
  BY DEF ObjectRows
<1>2. objects' \in [1 .. Len(objects) -> ObjectRow]
  BY <1>1
<1>3. ObjectRows'
  BY <1>1, <1>2 DEF ObjectRows
<1>4. ObjectsStay
  BY <1>1 DEF ObjectsStay
<1> QED BY <1>3, <1>4

LEMMA ObjectsStep ==
  ASSUME ObjectRows, ObjNext
  PROVE  ObjectRows' /\ ObjectsStay
<1>0. /\ [status |-> "active", lapsed |-> TRUE] \in ObjectRow
      /\ [status |-> "pending", lapsed |-> FALSE] \in ObjectRow
  BY DEF ObjectRow
<1>1. UNCHANGED objects => ObjectRows' /\ ObjectsStay
  BY DEF ObjectRows, ObjectsStay
<1>2. CASE StoreObject
  BY <1>0, <1>2, NewObject DEF StoreObject
<1>3. CASE PutContent
  BY <1>1, <1>3 DEF PutContent
<1>4. CASE LapseUpload
  <2>1. PICK n \in DOMAIN objects : objects' = [objects EXCEPT ![n].lapsed = TRUE]
    BY <1>4 DEF LapseUpload
  <2>2. objects[n] \in ObjectRow
    BY DEF ObjectRows
  <2>3. [objects[n] EXCEPT !.lapsed = TRUE] \in ObjectRow
        /\ [objects[n] EXCEPT !.lapsed = TRUE].status = objects[n].status
    BY <2>2 DEF ObjectRow
  <2> QED BY <2>1, <2>3, ChangedObject
<1>5. ASSUME NEW w \in Workers, CreateUploadIntent(w) PROVE ObjectRows' /\ ObjectsStay
  BY <1>0, <1>5, NewObject DEF CreateUploadIntent
<1>6. ASSUME NEW w \in Workers, NEW status \in {"pending", "active", "deleted"},
             objects' = [objects EXCEPT ![req[w].n].status = status],
             req[w].n \in DOMAIN objects /\ objects[req[w].n].status = "deleted"
               => status = "deleted"
      PROVE  ObjectRows' /\ ObjectsStay
  <2>1. CASE req[w].n \in DOMAIN objects
    <3>1. objects[req[w].n] \in ObjectRow
      BY <2>1 DEF ObjectRows
    <3>2. [objects[req[w].n] EXCEPT !.status = status] \in ObjectRow
          /\ [objects[req[w].n] EXCEPT !.status = status].status = status
      BY <1>6, <3>1 DEF ObjectRow
    <3> QED BY <1>6, <3>2, ChangedObject
  <2>2. CASE req[w].n \notin DOMAIN objects
    <3>1. objects' = objects
      BY <1>6, <2>2 DEF ObjectRows
    <3> QED BY <1>1, <3>1
  <2> QED BY <2>1, <2>2
<1>7. ASSUME NEW w \in Workers, MarkActive(w) PROVE ObjectRows' /\ ObjectsStay
  <2>1. CASE req[w].n \in DOMAIN objects
    <3>1. objects[req[w].n].status \in {"pending", "active", "deleted"}
      <4>1. objects[req[w].n] \in ObjectRow
        BY <2>1 DEF ObjectRows
      <4> QED BY <4>1 DEF ObjectRow
    <3>2. objects' = [objects EXCEPT ![req[w].n].status =
                        IF objects[req[w].n].status = "pending" THEN "active"
                        ELSE objects[req[w].n].status]
      BY <1>7 DEF MarkActive
    <3> QED BY <1>6, <3>1, <3>2
  <2>2. CASE req[w].n \notin DOMAIN objects
    <3>1. objects' = objects
      BY <1>7, <2>2 DEF ObjectRows, MarkActive
    <3> QED BY <1>1, <3>1
  <2> QED BY <2>1, <2>2
<1>8. ASSUME NEW w \in Workers, DeleteObject(w) PROVE ObjectRows' /\ ObjectsStay
  <2>1. \/ UNCHANGED objects
        \/ objects' = [objects EXCEPT ![req[w].n].status = "deleted"]
    BY <1>8 DEF DeleteObject
  <2> QED BY <1>1, <1>6, <2>1
<1>9. ASSUME NEW w \in Workers,
             \/ BeginUpload(w) \/ BeginComplete(w) \/ HeadObject(w) \/ BeginDownload(w)
             \/ CreateDownloadURL(w) \/ BeginDelete(w)
      PROVE  ObjectRows' /\ ObjectsStay
  BY <1>1, <1>9, Zenon DEF BeginUpload, BeginComplete, HeadObject, BeginDownload, CreateDownloadURL,
                    BeginDelete, objVars
<1> QED BY <1>2, <1>3, <1>4, <1>5, <1>7, <1>8, <1>9 DEF ObjNext

\* Only the object service changes object records, and only that of contacts a contact.
LEMMA RowsOfServices ==
  ASSUME [Next]_vars
  PROVE  (UNCHANGED objects \/ ObjNext) /\ (UNCHANGED contact \/ SetNext)
<1>1. UNCHANGED objects \/ ObjNext
  BY SageApart, HubApart DEF Next, vars, objVars
<1>2. UNCHANGED contact \/ SetNext
  BY DEF Next, vars, setVars
<1> QED BY <1>1, <1>2

LEMMA ContactStays ==
  ASSUME SetNext, contact # None, contact.status = "deleted"
  PROVE  contact' = contact
<1>1. ASSUME NEW w \in Workers, CreateContact(w) PROVE contact' = contact
  BY <1>1 DEF CreateContact, setVars
<1>2. ASSUME NEW w \in Workers, UpdateContact(w) PROVE contact' = contact
  BY <1>2 DEF UpdateContact, CommitContact
<1>3. ASSUME NEW w \in Workers, DeleteContact(w) PROVE contact' = contact
  BY <1>3 DEF DeleteContact, setVars
<1>4. ASSUME NEW w \in Workers,
             \/ BeginCreateContact(w) \/ BeginChangeContact(w) \/ BeginAddServer(w)
             \/ AddServer(w) \/ BeginUpdateServer(w) \/ UpdateServer(w) \/ BeginRemoveServer(w)
             \/ RemoveServer(w) \/ DeleteServer(w) \/ BeginSkillSetting(w)
             \/ BeginAgentSetting(w) \/ Upsert(w) \/ ReadBack(w) \/ RecordSetting(w)
      PROVE  contact' = contact
  BY <1>4, Zenon DEF BeginCreateContact, BeginChangeContact, BeginAddServer, AddServer,
              BeginUpdateServer, UpdateServer, BeginRemoveServer, RemoveServer, DeleteServer,
              BeginSkillSetting, BeginAgentSetting, Upsert, ReadBack, RecordSetting, setVars
<1> QED BY <1>1, <1>2, <1>3, <1>4 DEF SetNext

\* Whatever completes, updates or deletes at the same time, a deleted object is never
\* active again and a deleted contact stays as it is (DeletedStays; MarkActive,
\* UpdateActive).
THEOREM DeletionLasts == Spec => DeletedStays
<1>1. Init => ObjectRows
  <2> SUFFICES ASSUME Init PROVE ObjectRows
    OBVIOUS
  <2>1. PICK start \in Scenarios : ObjInit(start)
    BY DEF Init
  <2>2. start.objects \in Seq({"pending", "active", "deleted"})
    BY PlatformAssumption
  <2> QED BY <2>1, <2>2 DEF ObjInit, ObjectRows, ObjectRow
<1>2. ObjectRows /\ [Next]_vars => ObjectRows' /\ ObjectsStay
  <2>1. UNCHANGED objects /\ ObjectRows => ObjectRows' /\ ObjectsStay
    BY DEF ObjectRows, ObjectsStay
  <2> QED BY <2>1, RowsOfServices, ObjectsStep
<1>3. ObjectRows /\ [Next]_vars
        => (contact # None /\ contact.status = "deleted" => contact' = contact)
  BY RowsOfServices, ContactStays
<1>4. ObjectRows /\ [Next]_vars
        => [/\ \A n \in DOMAIN objects :
                 objects[n].status = "deleted" => objects'[n].status = "deleted"
            /\ contact # None /\ contact.status = "deleted" => contact' = contact
           ]_<<objects, contact>>
  BY <1>2, <1>3 DEF ObjectsStay
<1> QED BY <1>1, <1>2, <1>4, PTL DEF Spec, DeletedStays
-----------------------------------------------------------------------------
(* The catalogue of plugins. *)

ReviewRow == [version : Versions, decision : Reviews \union {"approved"}]

PluginRow == [status : {"draft", "submitted", "published", "suspended"},
              review : {"pending", "approved", "rejected", "request_changes", "takedown"},
              public : BOOLEAN, latest : Nat, approved : Nat]

\* The versions that a review has approved.
Approved == {reviews[i].version : i \in {j \in DOMAIN reviews : reviews[j].decision = "approved"}}

\* A row of the plugin, or of an installation, that names only approved versions, A.
SoundPlugin(row, A) == row \in PluginRow /\ (row.review = "approved" => row.approved \in A)

SoundInstall(row, A) == /\ row = [version |-> row.version, status |-> row.status]
                        /\ row.version \in A

Catalogue ==
  /\ reviews \in Seq(ReviewRow)
  /\ plugin # None => SoundPlugin(plugin, Approved)
  /\ installations = [u \in Users |-> installations[u]]
  /\ \A u \in Users : installations[u] # None => SoundInstall(installations[u], Approved)

\* What a request has read is sound, however old it is.
Reading(w) ==
  /\ pc[w] \in {"package", "submit", "reviewed", "suspend"} => SoundPlugin(copy[w], Approved)
  /\ pc[w] = "review" => SoundPlugin(copy[w].plugin, Approved)
  /\ pc[w] \in {"package", "submit", "reviewed", "review"} => req[w].n \in Versions
  /\ pc[w] \in {"reviewed", "review"} => req[w].word \in Reviews
  /\ pc[w] \in {"installation", "install"} => req[w].n \in Approved /\ req[w].user \in Users
  /\ pc[w] \in {"reinstall", "status"} => SoundInstall(copy[w], Approved)

Market == Catalogue /\ \A w \in Workers : Reading(w)

ReadSteps == {"package", "submit", "reviewed", "suspend", "review", "installation", "install",
              "reinstall", "status"}

LEMMA SoundGrows ==
  ASSUME NEW A, NEW B, A \subseteq B, NEW row
  PROVE  /\ SoundPlugin(row, A) => SoundPlugin(row, B)
         /\ SoundInstall(row, A) => SoundInstall(row, B)
BY DEF SoundPlugin, SoundInstall

\* The plugin row after a submission: of a valid manifest, or of another.
Submitted(row, v) == [row EXCEPT !.latest = v, !.status = "submitted", !.review = "pending"]
Drafted(row, v)   == [row EXCEPT !.latest = v]

LEMMA SubmittedSound ==
  ASSUME NEW A, NEW row, SoundPlugin(row, A), NEW v \in Versions
  PROVE  /\ SoundPlugin(Submitted(row, v), A) /\ SoundPlugin(Drafted(row, v), A)
         /\ Submitted(row, v).status = "submitted" /\ Drafted(row, v).status = row.status
BY PlatformAssumption DEF SoundPlugin, PluginRow, Submitted, Drafted

LEMMA SubmissionWrites ==
  ASSUME NEW w \in Workers, SubmitVersion(w), versions[req[w].n] = None
  PROVE  plugin' = Submitted(copy[w], req[w].n) \/ plugin' = Drafted(copy[w], req[w].n)
BY DEF SubmitVersion, Submitted, Drafted

LEMMA SuspendedSound ==
  ASSUME NEW A, NEW row, SoundPlugin(row, A)
  PROVE  /\ SoundPlugin([row EXCEPT !.status = "suspended", !.review = "takedown"], A)
         /\ [row EXCEPT !.status = "suspended", !.review = "takedown"].status = "suspended"
BY DEF SoundPlugin, PluginRow

LEMMA ReviewedSound ==
  ASSUME NEW A, NEW row, SoundPlugin(row, A), NEW v \in Versions, NEW decision,
         decision = "approved" => v \in A
  PROVE  /\ SoundPlugin(ReviewedPlugin(row, decision, v), A)
         /\ decision # "approved" =>
              ReviewedPlugin(row, decision, v).status \in {row.status, "suspended"}
<1>1. CASE decision = "approved"
  BY <1>1, PlatformAssumption DEF SoundPlugin, PluginRow, ReviewedPlugin
<1>2. CASE decision \in {"rejected", "request_changes"}
  BY <1>2 DEF SoundPlugin, PluginRow, ReviewedPlugin
<1>3. CASE decision \in {"takedown", "suspended"}
  BY <1>3, SuspendedSound, Zenon DEF ReviewedPlugin
<1>4. CASE decision \notin {"approved", "rejected", "request_changes", "takedown", "suspended"}
  BY <1>4 DEF ReviewedPlugin
<1> QED BY <1>1, <1>2, <1>3, <1>4

\* A review is added to the others.
LEMMA ReviewAdded ==
  ASSUME reviews \in Seq(ReviewRow), NEW v \in Versions, NEW decision \in Reviews,
         reviews' = Append(reviews, [version |-> v, decision |-> decision])
  PROVE  /\ reviews' \in Seq(ReviewRow) /\ Approved \subseteq Approved'
         /\ decision = "approved" => v \in Approved'
<1>1. [version |-> v, decision |-> decision] \in ReviewRow
  BY DEF ReviewRow
<1>2. /\ reviews' \in Seq(ReviewRow) /\ Len(reviews') = Len(reviews) + 1
      /\ \A i \in DOMAIN reviews : i \in DOMAIN reviews' /\ reviews'[i] = reviews[i]
      /\ Len(reviews') \in DOMAIN reviews'
      /\ reviews'[Len(reviews')] = [version |-> v, decision |-> decision]
  BY <1>1
<1>3. Approved \subseteq Approved'
  BY <1>2 DEF Approved
<1>4. decision = "approved" => v \in Approved'
  BY <1>2 DEF Approved
<1> QED BY <1>2, <1>3, <1>4

\* One request moves, and what the others have read stays sound.
LEMMA ReadingMoves ==
  ASSUME \A v \in Workers : Reading(v), NEW w \in Workers, NEW S, Moves(w, S),
         Approved \subseteq Approved', Reading(w)'
  PROVE  \A v \in Workers : Reading(v)'
<1> SUFFICES ASSUME NEW v \in Workers, v # w PROVE Reading(v)'
  OBVIOUS
<1>1. pc'[v] = pc[v] /\ req'[v] = req[v] /\ copy'[v] = copy[v] /\ Reading(v)
  BY DEF Moves
<1> QED BY <1>1, SoundGrows DEF Reading

LEMMA ReadingIdle ==
  ASSUME NEW w \in Workers, pc'[w] \notin ReadSteps
  PROVE  Reading(w)'
BY DEF Reading, ReadSteps

LEMMA MarketElsewhere ==
  ASSUME Market, UNCHANGED <<plugin, reviews, installations>>,
         \/ UNCHANGED <<pc, req, copy>>
         \/ \E w \in Workers : \E S : Moves(w, S) /\ S \intersect ReadSteps = {}
  PROVE  Market'
<1>0. Approved' = Approved /\ Catalogue'
  BY DEF Market, Catalogue, Approved
<1>1. CASE UNCHANGED <<pc, req, copy>>
  BY <1>0, <1>1 DEF Market, Reading
<1>2. ASSUME NEW w \in Workers, NEW S, Moves(w, S), S \intersect ReadSteps = {} PROVE Market'
  <2>1. Reading(w)'
    BY <1>2, ReadingIdle DEF Moves
  <2> QED BY <1>0, <1>2, <2>1, ReadingMoves DEF Market
<1> QED BY <1>1, <1>2

\* A plugin row is written: it is sound, and so is what there was.
LEMMA PluginWritten ==
  ASSUME Market, UNCHANGED installations, reviews' \in Seq(ReviewRow),
         Approved \subseteq Approved', SoundPlugin(plugin', Approved'),
         NEW w \in Workers, NEW S, Moves(w, S), S \intersect ReadSteps = {}
  PROVE  Market'
<1>1. Catalogue'
  BY SoundGrows DEF Market, Catalogue
<1>2. Reading(w)'
  BY ReadingIdle DEF Moves
<1> QED BY <1>1, <1>2, ReadingMoves DEF Market

\* The row of an installation is written.
LEMMA InstallWritten ==
  ASSUME Market, UNCHANGED <<plugin, reviews>>, NEW row, SoundInstall(row, Approved),
         NEW u, installations' = [installations EXCEPT ![u] = row],
         NEW w \in Workers, NEW S, Moves(w, S), S \intersect ReadSteps = {}
  PROVE  Market'
<1>0. Approved' = Approved
  BY DEF Approved
<1>1. Catalogue'
  BY <1>0 DEF Market, Catalogue
<1>2. Reading(w)'
  BY ReadingIdle DEF Moves
<1> QED BY <1>0, <1>1, <1>2, ReadingMoves DEF Market

\* A request reads, or goes on with what it has read.
LEMMA MarketRead ==
  ASSUME Market, UNCHANGED <<plugin, reviews, installations>>,
         NEW w \in Workers, NEW S, Moves(w, S), Reading(w)'
  PROVE  Market'
<1>0. Approved' = Approved /\ Catalogue'
  BY DEF Market, Catalogue, Approved
<1> QED BY <1>0, ReadingMoves DEF Market

\* Developers and reviewers.
LEMMA MarketReviews ==
  ASSUME Market, Locals, NEW w \in Workers,
         \/ CreatePlugin(w) \/ BeginSubmitVersion(w) \/ RequireActiveOwnedAsset(w)
         \/ SubmitVersion(w) \/ BeginReview(w) \/ ReadVersion(w) \/ ReviewPlugin(w)
         \/ BeginSuspend(w) \/ SuspendPlugin(w)
  PROVE  Market'
<1>0. /\ {"idle"} \intersect ReadSteps = {} /\ {"audit"} \intersect ReadSteps = {}
      /\ {"scan"} \intersect ReadSteps = {}
  BY DEF ReadSteps
<1>1. /\ reviews \in Seq(ReviewRow) /\ Reading(w)
      /\ plugin # None => SoundPlugin(plugin, Approved)
  BY DEF Market, Catalogue
<1>2. ASSUME Answer(w), UNCHANGED <<plugin, reviews, installations>> PROVE Market'
  <2>1. Moves(w, {"idle"})
    BY <1>2, AnswerMoves
  <2> QED BY <1>0, <1>2, <2>1, MarketElsewhere
<1>3. UNCHANGED reviews => Approved' = Approved
  BY DEF Approved
<1>4. CASE CreatePlugin(w)
  <2>1. Moves(w, {"audit"})
    BY <1>4, BeginMoves DEF CreatePlugin
  <2>2. UNCHANGED <<reviews, installations>> /\ plugin' = NewPlugin
    BY <1>4 DEF CreatePlugin
  <2>3. SoundPlugin(NewPlugin, Approved)
    BY DEF SoundPlugin, NewPlugin, PluginRow
  <2> QED BY <1>0, <1>1, <1>3, <2>1, <2>2, <2>3, PluginWritten
<1>5. CASE BeginSubmitVersion(w)
  <2>1. PICK v \in Versions, word \in {"valid", "invalid"}, o \in {0} \union DOMAIN objects :
          BeginRead(w, [Request EXCEPT !.op = "version", !.n = v, !.word = word, !.ref = o],
                    plugin, IF o = 0 THEN "submit" ELSE "package")
    BY <1>5, Zenon DEF BeginSubmitVersion
  <2> DEFINE r == [Request EXCEPT !.op = "version", !.n = v, !.word = word, !.ref = o]
  <2>2. r.n = v /\ BeginRead(w, r, plugin, IF o = 0 THEN "submit" ELSE "package")
    BY <2>1 DEF Request
  <2> HIDE DEF r
  <2>3. (IF o = 0 THEN "submit" ELSE "package") \in {"submit", "package"}
    OBVIOUS
  <2>4. /\ Moves(w, {"submit", "package"}) /\ copy'[w] = plugin
        /\ req'[w].n = v /\ pc'[w] \in {"submit", "package"}
    BY <2>2, <2>3, BeginReadMoves
  <2>5. UNCHANGED <<plugin, reviews, installations>> /\ plugin # None
    BY <1>5, Zenon DEF BeginSubmitVersion, sageVars, catalogue
  <2>6. Reading(w)'
    BY <1>1, <1>3, <2>4, <2>5 DEF Reading
  <2> QED BY <2>4, <2>5, <2>6, MarketRead
<1>6. CASE RequireActiveOwnedAsset(w)
  <2>1. UNCHANGED <<plugin, reviews, installations>> /\ pc[w] = "package"
    BY <1>6 DEF RequireActiveOwnedAsset, sageVars, catalogue
  <2>2. ASSUME Goto(w, "submit") PROVE Market'
    <3>1. Moves(w, {"submit"}) /\ pc'[w] = "submit" /\ req' = req /\ copy' = copy
      BY <2>2, GotoMoves
    <3>2. Reading(w)'
      BY <1>1, <1>3, <2>1, <3>1 DEF Reading
    <3> QED BY <2>1, <3>1, <3>2, MarketRead
  <2> QED BY <1>2, <1>6, <2>1, <2>2 DEF RequireActiveOwnedAsset
<1>7. CASE SubmitVersion(w)
  <2>0. UNCHANGED installations
    BY <1>7 DEF SubmitVersion
  <2>1. CASE versions[req[w].n] # None
    BY <1>2, <1>7, <2>0, <2>1 DEF SubmitVersion, catalogue
  <2>2. CASE versions[req[w].n] = None
    <3>1. SoundPlugin(copy[w], Approved) /\ req[w].n \in Versions
      BY <1>1, <1>7 DEF SubmitVersion, Reading
    <3>2. SaveThen(w, "scan", <<"plugin">>, plugin # copy[w]) /\ UNCHANGED reviews
      BY <1>7, <2>2 DEF SubmitVersion
    <3>3. Moves(w, {"scan"})
      BY <3>2, SaveThenMoves
    <3>4. SoundPlugin(plugin', Approved)
      BY <1>7, <2>2, <3>1, SubmissionWrites, SubmittedSound
    <3> QED BY <1>0, <1>1, <1>3, <2>0, <3>2, <3>3, <3>4, PluginWritten
  <2> QED BY <2>1, <2>2
<1>8. CASE BeginReview(w)
  <2>1. PICK v \in Versions, decision \in Reviews :
          BeginRead(w, [Request EXCEPT !.op = "review", !.n = v, !.word = decision], plugin,
                    "reviewed")
    BY <1>8, Zenon DEF BeginReview
  <2> DEFINE r == [Request EXCEPT !.op = "review", !.n = v, !.word = decision]
  <2>2. r.n = v /\ r.word = decision /\ BeginRead(w, r, plugin, "reviewed")
    BY <2>1 DEF Request
  <2> HIDE DEF r
  <2>3. /\ Moves(w, {"reviewed"}) /\ copy'[w] = plugin /\ pc'[w] = "reviewed"
        /\ req'[w].n = v /\ req'[w].word = decision
    BY <2>2, BeginReadMoves
  <2>4. UNCHANGED <<plugin, reviews, installations>> /\ plugin # None
    BY <1>8, Zenon DEF BeginReview, sageVars, catalogue
  <2>5. Reading(w)'
    BY <1>1, <1>3, <2>3, <2>4 DEF Reading
  <2> QED BY <2>3, <2>4, <2>5, MarketRead
<1>9. CASE ReadVersion(w)
  <2>1. UNCHANGED <<plugin, reviews, installations>> /\ pc[w] = "reviewed"
    BY <1>9 DEF ReadVersion, sageVars, catalogue
  <2>2. ASSUME Keep(w, [plugin |-> copy[w], version |-> versions[req[w].n]], "review")
        PROVE  Market'
    <3>1. /\ Moves(w, {"review"}) /\ pc'[w] = "review" /\ req' = req
          /\ copy'[w].plugin = copy[w]
      BY <2>2, KeepMoves
    <3>2. Reading(w)'
      BY <1>1, <1>3, <2>1, <3>1 DEF Reading
    <3> QED BY <2>1, <3>1, <3>2, MarketRead
  <2> QED BY <1>2, <1>9, <2>1, <2>2 DEF ReadVersion
<1>10. CASE ReviewPlugin(w)
  <2>1. /\ SoundPlugin(copy[w].plugin, Approved) /\ req[w].n \in Versions
        /\ req[w].word \in Reviews
    BY <1>1, <1>10 DEF ReviewPlugin, Reading
  <2>2. /\ reviews' \in Seq(ReviewRow) /\ Approved \subseteq Approved'
        /\ req[w].word = "approved" => req[w].n \in Approved'
    BY <1>1, <1>10, <2>1, ReviewAdded DEF ReviewPlugin
  <2>3. SoundPlugin(copy[w].plugin, Approved')
    BY <2>1, <2>2, SoundGrows
  <2>4. SoundPlugin(plugin', Approved')
    BY <1>10, <2>1, <2>2, <2>3, ReviewedSound DEF ReviewPlugin
  <2>5. Moves(w, {"audit"}) /\ UNCHANGED installations
    BY <1>10, SaveThenMoves DEF ReviewPlugin
  <2> QED BY <1>0, <2>2, <2>4, <2>5, PluginWritten
<1>11. CASE BeginSuspend(w)
  <2>1. /\ Moves(w, {"suspend"}) /\ copy'[w] = plugin /\ pc'[w] = "suspend"
    BY <1>11, BeginReadMoves DEF BeginSuspend
  <2>2. UNCHANGED <<plugin, reviews, installations>> /\ plugin # None
    BY <1>11 DEF BeginSuspend, sageVars, catalogue
  <2>3. Reading(w)'
    BY <1>1, <1>3, <2>1, <2>2 DEF Reading
  <2> QED BY <2>1, <2>2, <2>3, MarketRead
<1>12. CASE SuspendPlugin(w)
  <2>1. SoundPlugin(copy[w], Approved)
    BY <1>1, <1>12 DEF SuspendPlugin, Reading
  <2>2. SoundPlugin(plugin', Approved) /\ UNCHANGED <<reviews, installations>>
    BY <1>12, <2>1, SuspendedSound, Zenon DEF SuspendPlugin
  <2>3. Moves(w, {"audit"})
    BY <1>12, SaveThenMoves DEF SuspendPlugin
  <2> QED BY <1>0, <1>1, <1>3, <2>2, <2>3, PluginWritten
<1> QED BY <1>4, <1>5, <1>6, <1>7, <1>8, <1>9, <1>10, <1>11, <1>12

\* Those who install.
LEMMA MarketInstalls ==
  ASSUME Market, Locals, NEW w \in Workers,
         \/ BeginInstall(w) \/ GetInstallation(w) \/ InstallPlugin(w) \/ ReinstallPlugin(w)
         \/ BeginSetStatus(w) \/ SetInstallationStatus(w)
  PROVE  Market'
<1>0. /\ {"idle"} \intersect ReadSteps = {} /\ {"announce"} \intersect ReadSteps = {}
      /\ {"announce-new"} \intersect ReadSteps = {}
  BY DEF ReadSteps
<1>1. /\ Reading(w)
      /\ plugin # None => SoundPlugin(plugin, Approved)
      /\ installations = [u \in Users |-> installations[u]]
      /\ \A u \in Users : installations[u] # None => SoundInstall(installations[u], Approved)
  BY DEF Market, Catalogue
<1>2. ASSUME Answer(w), UNCHANGED <<plugin, reviews, installations>> PROVE Market'
  <2>1. Moves(w, {"idle"})
    BY <1>2, AnswerMoves
  <2> QED BY <1>0, <1>2, <2>1, MarketElsewhere
<1>3. UNCHANGED reviews => Approved' = Approved
  BY DEF Approved
<1>4. CASE BeginInstall(w)
  <2>1. PICK u \in Users :
          Begin(w, [Request EXCEPT !.op = "install", !.user = u, !.n = plugin.approved,
                                   !.row = <<"plugin", u>>], "installation")
    BY <1>4, Zenon DEF BeginInstall
  <2> DEFINE r == [Request EXCEPT !.op = "install", !.user = u, !.n = plugin.approved,
                                  !.row = <<"plugin", u>>]
  <2>2. r.n = plugin.approved /\ r.user = u /\ Begin(w, r, "installation")
    BY <2>1 DEF Request
  <2> HIDE DEF r
  <2>3. /\ Moves(w, {"installation"}) /\ pc'[w] = "installation"
        /\ req'[w].n = plugin.approved /\ req'[w].user = u
    BY <2>2, BeginMoves
  <2>4. UNCHANGED <<plugin, reviews, installations>> /\ plugin.approved \in Approved
    <3>1. UNCHANGED <<plugin, reviews, installations>>
      BY <1>4, Zenon DEF BeginInstall, sageVars, catalogue
    <3>2. plugin # None /\ plugin.review = "approved"
      BY <1>4, Zenon DEF BeginInstall, GetPublishedPluginByKey
    <3> QED BY <1>1, <3>1, <3>2 DEF SoundPlugin
  <2>5. Reading(w)'
    BY <1>3, <2>3, <2>4 DEF Reading
  <2> QED BY <2>3, <2>4, <2>5, MarketRead
<1>5. CASE GetInstallation(w)
  <2>1. /\ UNCHANGED <<plugin, reviews, installations>> /\ pc[w] = "installation"
        /\ req[w].n \in Approved /\ req[w].user \in Users
    <3>1. UNCHANGED <<plugin, reviews, installations>> /\ pc[w] = "installation"
      BY <1>5 DEF GetInstallation, sageVars, catalogue
    <3>2. req[w].n \in Approved /\ req[w].user \in Users
      BY <1>1, <3>1 DEF Reading
    <3> QED BY <3>1, <3>2
  <2>2. ASSUME Goto(w, "install") PROVE Market'
    <3>1. Moves(w, {"install"}) /\ pc'[w] = "install" /\ req' = req
      BY <2>2, GotoMoves
    <3>2. Reading(w)'
      BY <1>3, <2>1, <3>1 DEF Reading
    <3> QED BY <2>1, <3>1, <3>2, MarketRead
  <2>3. ASSUME Keep(w, installations[req[w].user], "reinstall"),
               installations[req[w].user] # None
        PROVE  Market'
    <3>1. /\ Moves(w, {"reinstall"}) /\ pc'[w] = "reinstall"
          /\ copy'[w] = installations[req[w].user]
      BY <2>3, KeepMoves
    <3>2. Reading(w)'
      BY <1>1, <1>3, <2>1, <2>3, <3>1 DEF Reading
    <3> QED BY <2>1, <3>1, <3>2, MarketRead
  <2> QED BY <1>2, <1>5, <2>1, <2>2, <2>3 DEF GetInstallation
<1>6. CASE InstallPlugin(w)
  <2>1. UNCHANGED <<plugin, reviews>> /\ req[w].n \in Approved
    <3>1. UNCHANGED <<plugin, reviews>> /\ pc[w] = "install"
      BY <1>6 DEF InstallPlugin, catalogue
    <3>2. req[w].n \in Approved
      BY <1>1, <3>1 DEF Reading
    <3> QED BY <3>1, <3>2
  <2>2. CASE installations[req[w].user] # None
    BY <1>2, <1>6, <2>1, <2>2 DEF InstallPlugin
  <2>3. CASE installations[req[w].user] = None
    <3>1. /\ installations' = [installations EXCEPT ![req[w].user] =
                                 [version |-> req[w].n, status |-> "active"]]
          /\ Moves(w, {"announce-new"})
      BY <1>6, <2>3, KeepMoves DEF InstallPlugin
    <3>2. SoundInstall([version |-> req[w].n, status |-> "active"], Approved)
      BY <2>1 DEF SoundInstall
    <3> QED BY <1>0, <2>1, <3>1, <3>2, InstallWritten
  <2> QED BY <2>2, <2>3
<1>7. ASSUME NEW status, SaveInstallation(w, status), SoundInstall(copy[w], Approved)
      PROVE  Market'
  <2>1. /\ UNCHANGED <<plugin, reviews>>
        /\ installations' = [installations EXCEPT ![req[w].user] =
                               [copy[w] EXCEPT !.status = status]]
    BY <1>7 DEF SaveInstallation, catalogue
  <2>2. Moves(w, {"announce"})
    BY <1>7 DEF SaveInstallation, Locals, Moves
  <2>3. SoundInstall([copy[w] EXCEPT !.status = status], Approved)
    BY <1>7 DEF SoundInstall
  <2> QED BY <1>0, <2>1, <2>2, <2>3, InstallWritten
<1>8. CASE ReinstallPlugin(w) \/ SetInstallationStatus(w)
  <2>1. pc[w] \in {"reinstall", "status"} /\ \E status : SaveInstallation(w, status)
    BY <1>8 DEF ReinstallPlugin, SetInstallationStatus
  <2>2. SoundInstall(copy[w], Approved)
    BY <1>1, <2>1 DEF Reading
  <2> QED BY <1>7, <2>1, <2>2
<1>9. CASE BeginSetStatus(w)
  <2>1. PICK u \in Users, status \in {"active", "disabled", "uninstalled"} :
          /\ installations[u] # None
          /\ BeginRead(w, [Request EXCEPT !.op = "status", !.user = u, !.word = status,
                                          !.row = <<"plugin", u>>], installations[u], "status")
    BY <1>9, Zenon DEF BeginSetStatus
  <2>2. Moves(w, {"status"}) /\ pc'[w] = "status" /\ copy'[w] = installations[u]
    BY <2>1, BeginReadMoves
  <2>3. UNCHANGED <<plugin, reviews, installations>>
    BY <1>9, Zenon DEF BeginSetStatus, sageVars, catalogue
  <2>4. Reading(w)'
    BY <1>1, <1>3, <2>1, <2>2, <2>3 DEF Reading
  <2> QED BY <2>2, <2>3, <2>4, MarketRead
<1> QED BY <1>4, <1>5, <1>6, <1>8, <1>9

\* What else the plugin service does leaves the catalogue and the installations alone.
LEMMA CatalogueStays ==
  ASSUME NEW w \in Workers,
         \/ ScanManifest(w) \/ BeginGrant(w) \/ ConsumeConfirmation(w) \/ GetGrant(w)
         \/ CreateGrant(w) \/ SaveGrant(w) \/ BeginRevokeGrant(w) \/ RevokeGrant(w)
         \/ RecordPluginSync(w) \/ BeginInvocation(w) \/ RequireActiveInstallation(w)
         \/ GetInvocationByClientRequest(w) \/ CreateInvocation(w) \/ BeginReport(w)
         \/ GetReportByClientID(w) \/ SubmitReport(w)
  PROVE  UNCHANGED <<plugin, reviews, installations>>
<1>1. CASE ScanManifest(w) \/ BeginGrant(w)
  BY <1>1 DEF ScanManifest, BeginGrant, sageVars, catalogue
<1>2. CASE ConsumeConfirmation(w) \/ GetGrant(w) \/ CreateGrant(w) \/ SaveGrant(w)
  BY <1>2 DEF ConsumeConfirmation, GetGrant, CreateGrant, SaveGrant, sageVars, catalogue
<1>3. CASE BeginRevokeGrant(w) \/ RevokeGrant(w) \/ RecordPluginSync(w)
  BY <1>3, Zenon DEF BeginRevokeGrant, RevokeGrant, RecordPluginSync, sageVars, catalogue
<1>4. CASE \/ BeginInvocation(w) \/ RequireActiveInstallation(w)
           \/ GetInvocationByClientRequest(w) \/ CreateInvocation(w)
  BY <1>4, Zenon DEF BeginInvocation, RequireActiveInstallation, GetInvocationByClientRequest,
              CreateInvocation, sageVars, catalogue
<1>5. CASE BeginReport(w) \/ GetReportByClientID(w) \/ SubmitReport(w)
  BY <1>5, Zenon DEF BeginReport, GetReportByClientID, SubmitReport, sageVars, catalogue
<1> QED BY <1>1, <1>2, <1>3, <1>4, <1>5

LEMMA MarketRest ==
  ASSUME Market, Locals, NEW w \in Workers,
         \/ ScanManifest(w) \/ BeginRevokeGrant(w) \/ RevokeGrant(w) \/ RecordPluginSync(w)
         \/ BeginReport(w) \/ GetReportByClientID(w) \/ SubmitReport(w)
  PROVE  Market'
<1>0. {"idle", "audit", "revoke", "announce", "reported", "report"} \intersect ReadSteps = {}
  BY DEF ReadSteps
<1> DEFINE S == {"idle", "audit", "revoke", "announce", "reported", "report"}
<1>1. /\ "idle" \in S /\ "audit" \in S /\ "revoke" \in S /\ "announce" \in S
      /\ "reported" \in S /\ "report" \in S /\ S \intersect ReadSteps = {}
  BY <1>0
<1> HIDE DEF S
<1>2. UNCHANGED <<plugin, reviews, installations>>
  BY CatalogueStays
<1>3. CASE ScanManifest(w) \/ RevokeGrant(w) \/ RecordPluginSync(w) \/ GetReportByClientID(w)
  <2>1. Moves(w, S)
    BY <1>1, <1>3, GotoMoves, KeepMoves, AnswerMoves
       DEF ScanManifest, RevokeGrant, RecordPluginSync, GetReportByClientID
  <2> QED BY <1>1, <1>2, <2>1, MarketElsewhere
<1>4. CASE BeginRevokeGrant(w)
  <2>1. Moves(w, S)
    BY <1>1, <1>4, BeginMoves, Zenon DEF BeginRevokeGrant
  <2> QED BY <1>1, <1>2, <2>1, MarketElsewhere
<1>5. CASE BeginReport(w)
  <2>1. Moves(w, S)
    <3>1. PICK r, row : BeginRead(w, r, row, "reported")
      BY <1>5, Zenon DEF BeginReport
    <3> QED BY <1>1, <3>1, BeginReadMoves
  <2> QED BY <1>1, <1>2, <2>1, MarketElsewhere
<1>6. CASE SubmitReport(w)
  <2>1. Moves(w, S)
    BY <1>1, <1>6, SaveThenMoves, AnswerMoves DEF SubmitReport
  <2> QED BY <1>1, <1>2, <2>1, MarketElsewhere
<1> QED BY <1>3, <1>4, <1>5, <1>6

LEMMA MarketStep == Flow /\ Market /\ [Next]_vars => Market'
<1> SUFFICES ASSUME Flow, Market, [Next]_vars PROVE Market'
  OBVIOUS
<1>0. Locals
  BY DEF Flow
<1>1. ASSUME NEW w \in Workers, NEW S, Moves(w, S), S \intersect ReadSteps = {},
             UNCHANGED sageVars
      PROVE  Market'
  BY <1>1, MarketElsewhere DEF sageVars, catalogue
<1>2. UNCHANGED <<pc, req, copy>> /\ UNCHANGED sageVars => Market'
  BY MarketElsewhere DEF sageVars, catalogue
<1>3. /\ GovSteps \intersect ReadSteps = {} /\ ObjSteps \intersect ReadSteps = {}
      /\ HubSteps \intersect ReadSteps = {} /\ SetSteps \intersect ReadSteps = {}
      /\ BillSteps \intersect ReadSteps = {} /\ ChatSteps \intersect ReadSteps = {}
      /\ AuditSteps \intersect ReadSteps = {} /\ AskSteps \intersect ReadSteps = {}
      /\ CarrySteps \intersect ReadSteps = {} /\ {"idle"} \intersect ReadSteps = {}
  BY DEF GovSteps, Thens, ObjSteps, HubSteps, SetSteps, BillSteps, ChatSteps, AuditSteps,
         AskSteps, CarrySteps, ReadSteps
<1>4. CASE UNCHANGED vars
  BY <1>2, <1>4 DEF vars, flow
<1>5. CASE GovNext /\ UNCHANGED sageVars
  BY <1>0, <1>1, <1>2, <1>3, <1>5, GovMoves
<1>6. CASE ObjNext /\ UNCHANGED sageVars
  BY <1>0, <1>1, <1>2, <1>3, <1>6, ObjMoves, AskMoves, CarryMoves
<1>7. CASE SageNext
  <2>1. ASSUME NEW w \in Workers,
               \/ BeginGrant(w) \/ ConsumeConfirmation(w) \/ GetGrant(w) \/ CreateGrant(w)
               \/ SaveGrant(w) \/ BeginInvocation(w) \/ RequireActiveInstallation(w)
               \/ GetInvocationByClientRequest(w) \/ CreateInvocation(w)
        PROVE  Market'
    <3>1. UNCHANGED <<plugin, reviews, installations>>
      BY <2>1, CatalogueStays
    <3>2. Asks(w) \/ Carries(w)
      BY <2>1 DEF Asks, Carries
    <3> QED BY <1>0, <1>3, <3>1, <3>2, AskMoves, CarryMoves, MarketElsewhere
  <2> QED BY <1>0, <1>7, <2>1, MarketReviews, MarketInstalls, MarketRest DEF SageNext
<1>8. CASE AuditNext /\ UNCHANGED sageVars
  BY <1>0, <1>1, <1>3, <1>8, AuditMoves
<1>9. CASE HubNext /\ UNCHANGED sageVars
  BY <1>0, <1>1, <1>3, <1>9, HubMoves
<1>10. CASE SetNext /\ UNCHANGED sageVars
  BY <1>0, <1>1, <1>3, <1>10, SetMoves
<1>11. CASE BillNext /\ UNCHANGED sageVars
  BY <1>0, <1>1, <1>2, <1>3, <1>11, BillMoves
<1>12. CASE ChatNext /\ UNCHANGED sageVars
  BY <1>0, <1>1, <1>3, <1>12, ChatMoves
<1>13. CASE \E w \in Workers : Abandon(w) /\ UNCHANGED sageVars
  BY <1>0, <1>1, <1>3, <1>13, AbandonMoves
<1> QED BY <1>4, <1>5, <1>6, <1>7, <1>8, <1>9, <1>10, <1>11, <1>12, <1>13 DEF Next

LEMMA MarketInit == Init => Market
<1> SUFFICES ASSUME Init PROVE Market
  OBVIOUS
<1>1. PICK start \in Scenarios : FlowInit(start.kinds, start.earlier) /\ SageInit(start)
  BY DEF Init
<1>2. \A w \in Workers : pc[w] = "idle"
  BY <1>1 DEF FlowInit
<1>3. \A w \in Workers : Reading(w)
  BY <1>2 DEF Reading
<1>4. reviews \in Seq(ReviewRow) /\ (start.published => 1 \in Approved)
  <2>1. CASE start.published
    <3>1. reviews = <<[version |-> 1, decision |-> "approved"]>>
      BY <1>1, <2>1 DEF SageInit
    <3>2. [version |-> 1, decision |-> "approved"] \in ReviewRow
      BY PlatformAssumption DEF ReviewRow
    <3> HIDE DEF ReviewRow
    <3>3. reviews \in Seq(ReviewRow) /\ DOMAIN reviews = {1}
          /\ reviews[1] = [version |-> 1, decision |-> "approved"]
      BY <3>1, <3>2
    <3>4. 1 \in Approved
      BY <3>3 DEF Approved
    <3> QED BY <3>3, <3>4
  <2>2. CASE ~ start.published
    BY <1>1, <2>2 DEF SageInit
  <2> QED BY <2>1, <2>2
<1>5. plugin # None => SoundPlugin(plugin, Approved)
  <2>1. CASE start.published
    <3>1. SoundPlugin(Published, Approved)
      BY <1>4, <2>1 DEF SoundPlugin, PluginRow, Published
    <3>2. SoundPlugin([Published EXCEPT !.latest = 2, !.status = "submitted",
                                        !.review = "pending"], Approved)
      BY <1>4, <2>1 DEF SoundPlugin, PluginRow, Published
    <3> QED BY <1>1, <2>1, <3>1, <3>2 DEF SageInit
  <2>2. CASE ~ start.published
    BY <1>1, <2>2 DEF SageInit
  <2> QED BY <2>1, <2>2
<1>6. /\ installations = [u \in Users |-> installations[u]]
      /\ \A u \in Users : installations[u] # None => SoundInstall(installations[u], Approved)
  <2>1. installations = [u \in Users |-> IF u \in start.installed
                                           THEN [version |-> 1, status |-> "active"] ELSE None]
    BY <1>1 DEF SageInit
  <2>2. ASSUME NEW u \in start.installed
        PROVE  SoundInstall([version |-> 1, status |-> "active"], Approved)
    <3>1. start.published
      BY <2>2, PlatformAssumption
    <3> QED BY <1>4, <3>1 DEF SoundInstall
  <2> QED BY <2>1, <2>2
<1> QED BY <1>3, <1>4, <1>5, <1>6 DEF Market, Catalogue

LEMMA MarketHolds == Spec => []Market
<1>1. Flow /\ Market /\ [Next]_vars => Market'
  BY MarketStep
<1> QED BY <1>1, MarketInit, FlowHolds, PTL DEF Spec

\* Whatever is submitted, reviewed, suspended and saved from old copies in between,
\* the version a user has installed and the one the catalogue offers were approved by
\* a review (InstalledWasApproved; InstallPlugin, ReviewPlugin).
THEOREM OnlyApproved == Spec => []InstalledWasApproved
<1>1. Market => InstalledWasApproved
  <2> SUFFICES ASSUME Market PROVE InstalledWasApproved
    OBVIOUS
  <2>1. ASSUME NEW u \in Users, installations[u] # None
        PROVE  installations[u].version \in Approved
    BY <2>1 DEF Market, Catalogue, SoundInstall
  <2>2. ASSUME GetPublishedPluginByKey PROVE plugin.approved \in Approved
    BY <2>2 DEF GetPublishedPluginByKey, Market, Catalogue, SoundPlugin
  <2> QED BY <2>1, <2>2 DEF InstalledWasApproved, Approved
<1> QED BY <1>1, MarketHolds, PTL

\* A suspended plugin is published again only by an approval whose request had read it
\* as suspended, or by a row saved from a copy of before (TakedownHolds; SuspendPlugin,
\* ReviewPlugin, SubmitVersion).
THEOREM TakedownLasts == Spec => TakedownHolds
<1> DEFINE A == plugin # None /\ plugin.status = "suspended" /\ plugin'.status = "published"
                  => \/ <<"plugin">> \in stale'
                     \/ \E w \in Workers : /\ pc[w] = "review" /\ req[w].word = "approved"
                                           /\ copy[w].plugin.status = "suspended"
<1>1. Market /\ [Next]_vars => [A]_<<plugin, stale>>
  <2> SUFFICES ASSUME Market, [Next]_vars, plugin # None, plugin.status = "suspended",
                      plugin'.status = "published"
               PROVE  \/ <<"plugin">> \in stale'
                      \/ \E w \in Workers : /\ pc[w] = "review" /\ req[w].word = "approved"
                                            /\ copy[w].plugin.status = "suspended"
    OBVIOUS
  <2>1. plugin' # plugin
    OBVIOUS
  <2>2. PICK w \in Workers : SubmitVersion(w) \/ ReviewPlugin(w) \/ SuspendPlugin(w)
    <3>1. SageNext
      BY <2>1 DEF Next, vars, sageVars, catalogue
    <3>2. ASSUME NEW w \in Workers,
                 \/ CreatePlugin(w) \/ BeginSubmitVersion(w) \/ RequireActiveOwnedAsset(w)
                 \/ BeginReview(w) \/ ReadVersion(w) \/ BeginSuspend(w)
                 \/ BeginInstall(w) \/ GetInstallation(w) \/ InstallPlugin(w)
                 \/ ReinstallPlugin(w) \/ BeginSetStatus(w) \/ SetInstallationStatus(w)
          PROVE  FALSE
      BY <2>1, <3>2, Zenon
         DEF CreatePlugin, BeginSubmitVersion, RequireActiveOwnedAsset, BeginReview, ReadVersion,
             BeginSuspend, BeginInstall, GetInstallation, InstallPlugin, ReinstallPlugin,
             BeginSetStatus, SetInstallationStatus, SaveInstallation, sageVars, catalogue
    <3> QED BY <2>1, <3>1, <3>2, CatalogueStays DEF SageNext
  <2>3. Reading(w)
    BY DEF Market
  <2>4. CASE SubmitVersion(w)
    <3>1. SoundPlugin(copy[w], Approved) /\ req[w].n \in Versions
      BY <2>3, <2>4 DEF SubmitVersion, Reading
    <3>2. /\ versions[req[w].n] = None
          /\ SaveThen(w, "scan", <<"plugin">>, plugin # copy[w])
      BY <2>1, <2>4 DEF SubmitVersion, catalogue
    <3>3. copy[w].status = "published"
      BY <2>4, <3>1, <3>2, SubmissionWrites, SubmittedSound
    <3> QED BY <3>2, <3>3 DEF SaveThen
  <2>5. CASE ReviewPlugin(w)
    <3>1. SoundPlugin(copy[w].plugin, Approved) /\ req[w].n \in Versions /\ pc[w] = "review"
      BY <2>3, <2>5 DEF ReviewPlugin, Reading
    <3>2. /\ plugin' = ReviewedPlugin(copy[w].plugin, req[w].word, req[w].n)
          /\ SaveThen(w, "audit", <<"plugin">>,
                      plugin # copy[w].plugin \/ versions[req[w].n] # copy[w].version)
      BY <2>5 DEF ReviewPlugin
    <3>3. CASE plugin # copy[w].plugin
      BY <3>2, <3>3 DEF SaveThen
    <3>4. CASE plugin = copy[w].plugin
      <4>1. req[w].word # "approved" => plugin'.status \in {copy[w].plugin.status, "suspended"}
        BY <3>1, <3>2, ReviewedSound
      <4> QED BY <3>1, <3>4, <4>1
    <3> QED BY <3>3, <3>4
  <2>6. CASE SuspendPlugin(w)
    <3>1. SoundPlugin(copy[w], Approved)
      BY <2>3, <2>6 DEF SuspendPlugin, Reading
    <3>2. plugin' = [copy[w] EXCEPT !.status = "suspended", !.review = "takedown"]
      BY <2>6 DEF SuspendPlugin
    <3> QED BY <3>1, <3>2, SuspendedSound, Zenon
  <2> QED BY <2>2, <2>4, <2>5, <2>6
<1> QED BY <1>1, MarketHolds, PTL DEF Spec, TakedownHolds
-----------------------------------------------------------------------------
(* Governance: what asking and going on come to. *)

\* The steps at which a request has its pass, and has not used it.
Carrying == {"intent", "url", "delete", "confirm", "grant", "new-grant", "save-grant", "invoke"}

\* The steps that governance has a say in.
GovernedSteps == {"enforce", "switch", "rules", "decide"} \union Carrying

\* A request is refused on the way to governance, or comes to it.
LEMMA AskCases ==
  ASSUME Locals, NEW w \in Workers, Asks(w)
  PROVE  /\ UNCHANGED <<rules, switches, decisions, receipts, config, admitted>>
         /\ \/ Moves(w, {"idle", "active", "known"}) /\ UNCHANGED calm
            \/ \E r : Moves(w, {"enforce"}) /\ req'[w] = r /\ Govern(w, r)
<1>1. CASE BeginUpload(w)
  <2>1. PICK r : Begin(w, r, "enforce") /\ Govern(w, r)
    BY <1>1 DEF BeginUpload
  <2> QED BY <1>1, <2>1, BeginMoves DEF BeginUpload
<1>2. CASE BeginDownload(w)
  <2>1. PICK r : Begin(w, r, "enforce") /\ Govern(w, r)
    BY <1>2 DEF BeginDownload
  <2> QED BY <1>2, <2>1, BeginMoves DEF BeginDownload
<1>3. CASE BeginDelete(w)
  <2>1. PICK r : Begin(w, r, "enforce") /\ Govern(w, r)
    BY <1>3 DEF BeginDelete
  <2> QED BY <1>3, <2>1, BeginMoves DEF BeginDelete
<1>4. CASE BeginGrant(w)
  <2>1. PICK r : Begin(w, r, "enforce") /\ Govern(w, r)
    BY <1>4 DEF BeginGrant
  <2> QED BY <1>4, <2>1, BeginMoves DEF BeginGrant, ungoverned
<1>5. CASE BeginInvocation(w)
  <2>1. PICK r : Begin(w, r, "active")
    BY <1>5 DEF BeginInvocation
  <2>2. "active" \in {"idle", "active", "known"}
    OBVIOUS
  <2>3. Moves(w, {"idle", "active", "known"})
    BY <2>1, <2>2, BeginMoves
  <2> QED BY <1>5, <2>3 DEF BeginInvocation, outside, govVars
<1>6. CASE RequireActiveInstallation(w)
  <2>1. Goto(w, "known") \/ Answer(w)
    BY <1>6 DEF RequireActiveInstallation
  <2>2. Moves(w, {"idle", "active", "known"})
    BY <2>1, GotoMoves, AnswerMoves
  <2> QED BY <1>6, <2>2 DEF RequireActiveInstallation, outside, govVars
<1>7. CASE GetInvocationByClientRequest(w)
  <2>1. \/ Answer(w) /\ UNCHANGED calm
        \/ Goto(w, "enforce") /\ Govern(w, req[w])
    BY <1>7 DEF GetInvocationByClientRequest
  <2>2. ASSUME Answer(w) PROVE Moves(w, {"idle", "active", "known"})
    BY <2>2, AnswerMoves
  <2>3. ASSUME Goto(w, "enforce") PROVE Moves(w, {"enforce"}) /\ req'[w] = req[w]
    BY <2>3, GotoMoves
  <2> QED BY <1>7, <2>1, <2>2, <2>3 DEF GetInvocationByClientRequest, ungoverned
<1> QED BY <1>1, <1>2, <1>3, <1>4, <1>5, <1>6, <1>7 DEF Asks

\* A request with a pass goes on with it, uses it, or ends without.
LEMMA CarryCases ==
  ASSUME Locals, NEW w \in Workers, Carries(w)
  PROVE  /\ UNCHANGED <<rules, switches, decisions, receipts, config, calm>>
         /\ pc[w] \in Carrying
         /\ \/ Moves(w, {"idle", "announce"}) /\ UNCHANGED admitted
            \/ Moves(w, {"idle", "announce"}) /\ Carried(w)
            \/ Moves(w, Carrying) /\ req' = req /\ UNCHANGED admitted
<1>0. "grant" \in Carrying /\ "new-grant" \in Carrying /\ "save-grant" \in Carrying
  BY DEF Carrying
<1>1. ASSUME Answer(w) PROVE Moves(w, {"idle", "announce"})
  BY <1>1, AnswerMoves
<1>2. ASSUME NEW row, Keep(w, row, "announce") PROVE Moves(w, {"idle", "announce"})
  BY <1>2, KeepMoves
<1>3. ASSUME NEW step \in Carrying, Goto(w, step) PROVE Moves(w, Carrying) /\ req' = req
  BY <1>3, GotoMoves
<1>4. ASSUME NEW row, NEW step \in Carrying, Keep(w, row, step)
      PROVE  Moves(w, Carrying) /\ req' = req
  BY <1>4, KeepMoves
<1>5. CASE CreateUploadIntent(w)
  BY <1>1, <1>5 DEF CreateUploadIntent, Carrying
<1>6. CASE CreateDownloadURL(w)
  BY <1>1, <1>6 DEF CreateDownloadURL, Carrying
<1>7. CASE DeleteObject(w)
  BY <1>1, <1>7 DEF DeleteObject, Carrying
<1>8. CASE ConsumeConfirmation(w)
  <2>1. pc[w] \in Carrying
    BY <1>8 DEF ConsumeConfirmation, Carrying
  <2> QED BY <1>0, <1>1, <1>3, <1>8, <2>1 DEF ConsumeConfirmation, outside, govVars
<1>9. CASE GetGrant(w)
  <2>1. pc[w] \in Carrying
    BY <1>9 DEF GetGrant, Carrying
  <2> QED BY <1>0, <1>3, <1>4, <1>9, <2>1 DEF GetGrant, outside, govVars
<1>10. CASE CreateGrant(w)
  <2>1. pc[w] \in Carrying
    BY <1>10 DEF CreateGrant, Carrying
  <2> QED BY <1>1, <1>2, <1>10, <2>1 DEF CreateGrant, ungoverned
<1>11. CASE SaveGrant(w)
  <2>1. pc[w] \in Carrying
    BY <1>11 DEF SaveGrant, Carrying
  <2> QED BY <1>2, <1>11, <2>1 DEF SaveGrant, ungoverned
<1>12. CASE CreateInvocation(w)
  <2>1. pc[w] \in Carrying
    BY <1>12 DEF CreateInvocation, Carrying
  <2> QED BY <1>1, <1>12, <2>1 DEF CreateInvocation, ungoverned
<1> QED BY <1>5, <1>6, <1>7, <1>8, <1>9, <1>10, <1>11, <1>12 DEF Carries

\* Every step of the platform is one of governance, of a request that asks or goes on
\* with its pass, or one that governance has no part in.
LEMMA GovernedCases ==
  ASSUME Flow, [Next]_vars
  PROVE  \/ GovNext
         \/ \E w \in Workers : Asks(w) \/ Carries(w)
         \/ UNCHANGED <<pc, req, copy, ruled>>
         \/ \E w \in Workers : \E S : /\ Moves(w, S) /\ S \intersect GovernedSteps = {}
                                      /\ UNCHANGED ruled
<1>0. Locals
  BY DEF Flow
<1>1. /\ ObjSteps \intersect GovernedSteps = {} /\ SageSteps \intersect GovernedSteps = {}
      /\ HubSteps \intersect GovernedSteps = {} /\ SetSteps \intersect GovernedSteps = {}
      /\ BillSteps \intersect GovernedSteps = {} /\ ChatSteps \intersect GovernedSteps = {}
      /\ AuditSteps \intersect GovernedSteps = {} /\ {"idle"} \intersect GovernedSteps = {}
  BY DEF ObjSteps, SageSteps, HubSteps, SetSteps, BillSteps, ChatSteps, AuditSteps,
         GovernedSteps, Carrying
<1>2. UNCHANGED govVars => UNCHANGED ruled
  BY DEF govVars, ruled
<1>3. CASE UNCHANGED vars
  BY <1>2, <1>3 DEF vars, flow
<1>4. CASE ObjNext
  <2>1. UNCHANGED govVars \/ \E w \in Workers : Asks(w) \/ Carries(w)
    BY <1>4, Zenon DEF ObjNext, StoreObject, PutContent, LapseUpload, BeginComplete, HeadObject,
                MarkActive, Asks, Carries
  <2> QED BY <1>0, <1>1, <1>2, <1>4, <2>1, ObjMoves
<1>5. CASE SageNext
  <2>1. UNCHANGED ruled \/ \E w \in Workers : Asks(w) \/ Carries(w)
    BY <1>5, SageApart DEF ruled
  <2> QED BY <1>0, <1>1, <1>5, <2>1, SageMoves
<1>6. CASE HubNext
  <2>1. UNCHANGED ruled
    BY <1>6, HubApart
  <2> QED BY <1>0, <1>1, <1>6, <2>1, HubMoves
<1>7. CASE AuditNext /\ UNCHANGED govVars
  BY <1>0, <1>1, <1>2, <1>7, AuditMoves
<1>8. CASE SetNext /\ UNCHANGED govVars
  BY <1>0, <1>1, <1>2, <1>8, SetMoves
<1>9. CASE BillNext /\ UNCHANGED govVars
  <2>1. CASE UNCHANGED <<pc, req, copy>>
    BY <1>2, <1>9, <2>1
  <2>2. ASSUME NEW w \in Workers, Moves(w, BillSteps)
        PROVE  \E S : Moves(w, S) /\ S \intersect GovernedSteps = {} /\ UNCHANGED ruled
    BY <1>1, <1>2, <1>9, <2>2
  <2> QED BY <1>0, <1>9, <2>1, <2>2, BillMoves
<1>10. CASE ChatNext /\ UNCHANGED govVars
  BY <1>0, <1>1, <1>2, <1>10, ChatMoves
<1>11. CASE \E w \in Workers : Abandon(w) /\ UNCHANGED govVars
  BY <1>0, <1>1, <1>2, <1>11, AbandonMoves
<1> QED BY <1>3, <1>4, <1>5, <1>6, <1>7, <1>8, <1>9, <1>10, <1>11 DEF Next
-----------------------------------------------------------------------------
(* The kill switches. *)

\* A sequence, of whatever it holds.
List(s) == s \in Seq({s[i] : i \in DOMAIN s})

LEMMA ListAppend ==
  ASSUME NEW s, List(s), NEW x
  PROVE  /\ List(Append(s, x)) /\ Len(s) \in Nat /\ Len(Append(s, x)) = Len(s) + 1
         /\ DOMAIN s = 1 .. Len(s) /\ DOMAIN Append(s, x) = 1 .. Len(s) + 1
         /\ \A i \in DOMAIN s : Append(s, x)[i] = s[i]
         /\ Append(s, x)[Len(s) + 1] = x
<1> DEFINE S == {s[i] : i \in DOMAIN s} \union {x}
<1>1. s \in Seq({s[i] : i \in DOMAIN s})
  BY DEF List
<1>2. s \in Seq(S) /\ x \in S
  BY <1>1
<1> HIDE DEF S
<1>3. /\ Append(s, x) \in Seq(S) /\ Len(s) \in Nat /\ Len(Append(s, x)) = Len(s) + 1
      /\ DOMAIN s = 1 .. Len(s) /\ DOMAIN Append(s, x) = 1 .. Len(s) + 1
      /\ \A i \in DOMAIN s : Append(s, x)[i] = s[i]
      /\ Append(s, x)[Len(s) + 1] = x
  BY <1>2
<1>4. \A t : t \in Seq(S) => t \in Seq({t[i] : i \in DOMAIN t})
  OBVIOUS
<1> QED BY <1>3, <1>4 DEF List

LEMMA FunctionIsSequence ==
  ASSUME NEW S, NEW n \in Nat, NEW f \in [1 .. n -> S]
  PROVE  f \in Seq(S)
OBVIOUS

\* A row of the table is replaced.
LEMMA RowReplaced ==
  ASSUME NEW s, List(s), NEW n \in DOMAIN s, NEW row, NEW t, t = [s EXCEPT ![n] = row]
  PROVE  /\ List(t) /\ DOMAIN t = DOMAIN s /\ t[n] = row
         /\ \A i \in DOMAIN s : i # n => t[i] = s[i]
<1>1. Len(s) \in Nat /\ DOMAIN s = 1 .. Len(s) /\ s = [i \in 1 .. Len(s) |-> s[i]]
  <2> DEFINE S == {s[i] : i \in DOMAIN s}
  <2>1. s \in Seq(S)
    BY DEF List
  <2> HIDE DEF S
  <2> QED BY <2>1
<1>2. /\ DOMAIN t = 1 .. Len(s) /\ t[n] = row /\ \A i \in 1 .. Len(s) : i # n => t[i] = s[i]
      /\ t = [i \in 1 .. Len(s) |-> t[i]]
  BY <1>1
<1>3. List(t)
  <2> DEFINE S == {t[i] : i \in DOMAIN t}
  <2>1. \A i \in 1 .. Len(s) : t[i] \in S
    BY <1>2
  <2>2. S = {t[i] : i \in DOMAIN t}
    OBVIOUS
  <2> HIDE DEF S
  <2>3. t \in [1 .. Len(s) -> S]
    BY <1>2, <2>1
  <2>4. t \in Seq(S)
    BY <1>1, <2>3, FunctionIsSequence
  <2> QED BY <2>2, <2>4 DEF List
<1> QED BY <1>1, <1>2, <1>3

\* Until it is told apart from a stopped one, a request has seen a moment without a
\* switch that covers it, or is stopped now; and a pass says why it was given.
Stops(w) ==
  /\ pc[w] \in {"enforce", "switch"} => calm[w] \/ Stopped(req[w])
  /\ pc[w] = "rules" => calm[w]
  /\ pc[w] = "decide" => calm[w] \/ copy[w] = "deny"
  /\ pc[w] \in Carrying =>
       \/ req[w].pass.by = "disabled" /\ ModeFor(req[w]) = "disabled"
       \/ req[w].pass.by = "observed" /\ ModeFor(req[w]) = "observe"
       \/ req[w].pass.by = "decision" /\ calm[w]
       \/ req[w].pass.by = "receipt"

Stopping == /\ calm \in [Workers -> BOOLEAN] /\ List(admitted) /\ StoppedNeedsReceipt
            /\ \A w \in Workers : Stops(w)

LEMMA ModeStays ==
  ASSUME NEW w \in Workers, config' = config, req'[w].type = req[w].type
  PROVE  ModeFor(req[w])' = ModeFor(req[w])
BY DEF ModeFor

LEMMA StoppedStays ==
  ASSUME NEW w \in Workers, switches \subseteq switches', req'[w] = req[w], Stopped(req[w])
  PROVE  Stopped(req[w])'
BY DEF Stopped, Covers

\* A request that stays where it is.
LEMMA StopsStay ==
  ASSUME NEW w \in Workers, Stops(w), pc'[w] = pc[w], req'[w] = req[w], copy'[w] = copy[w],
         calm'[w] = calm[w], switches \subseteq switches', config' = config
  PROVE  Stops(w)'
<1>1. ModeFor(req[w])' = ModeFor(req[w])
  BY ModeStays
<1>2. Stopped(req[w]) => Stopped(req[w])'
  BY StoppedStays
<1> QED BY <1>1, <1>2 DEF Stops

\* One request moves, and the switches stay, or there are more of them.
LEMMA StopsMove ==
  ASSUME Stopping, NEW w \in Workers, NEW S, Moves(w, S), Stops(w)', switches \subseteq switches',
         config' = config, \A v \in Workers \ {w} : calm'[v] = calm[v]
  PROVE  \A v \in Workers : Stops(v)'
<1> SUFFICES ASSUME NEW v \in Workers, v # w PROVE Stops(v)'
  OBVIOUS
<1>1. /\ Stops(v) /\ pc'[v] = pc[v] /\ req'[v] = req[v] /\ copy'[v] = copy[v]
      /\ calm'[v] = calm[v]
  BY DEF Stopping, Moves
<1> QED BY <1>1, StopsStay

LEMMA StopsIdle ==
  ASSUME NEW w \in Workers, pc'[w] \notin GovernedSteps
  PROVE  Stops(w)'
BY DEF Stops, GovernedSteps

LEMMA StoppingElsewhere ==
  ASSUME Stopping, UNCHANGED <<switches, config, admitted, calm>>, NEW w \in Workers, NEW S,
         Moves(w, S), S \intersect GovernedSteps = {}
  PROVE  Stopping'
<1>1. Stops(w)'
  BY StopsIdle DEF Moves
<1>2. \A v \in Workers : Stops(v)'
  BY <1>1, StopsMove
<1> QED BY <1>2 DEF Stopping, List, StoppedNeedsReceipt

\* A request comes to governance: it has seen a moment without a switch now, or is stopped.
LEMMA StoppingGovern ==
  ASSUME Stopping, UNCHANGED <<switches, config, admitted>>, NEW w \in Workers, NEW S,
         Moves(w, S), NEW r, req'[w] = r, Govern(w, r), S \in {{"enforce"}, {"switch"}}
  PROVE  Stopping'
<1>1. calm' = [calm EXCEPT ![w] = ~ Stopped(r)]
  BY DEF Govern
<1>2. calm' \in [Workers -> BOOLEAN] /\ \A v \in Workers \ {w} : calm'[v] = calm[v]
  BY <1>1 DEF Stopping
<1>3. calm'[w] \/ Stopped(r)
  BY <1>1 DEF Stopping
<1>4. Stopped(r) => Stopped(req[w])'
  BY DEF Stopped, Covers
<1>5. pc'[w] \in {"enforce", "switch"}
  BY DEF Moves
<1>6. Stops(w)'
  BY <1>3, <1>4, <1>5 DEF Stops, Carrying
<1>7. \A v \in Workers : Stops(v)'
  BY <1>2, <1>6, StopsMove
<1> QED BY <1>2, <1>7 DEF Stopping, List, StoppedNeedsReceipt

LEMMA StoppingAsks ==
  ASSUME Stopping, Locals, NEW w \in Workers, Asks(w)
  PROVE  Stopping'
<1>1. {"idle", "active", "known"} \intersect GovernedSteps = {}
  BY DEF GovernedSteps, Carrying
<1> QED BY <1>1, AskCases, StoppingElsewhere, StoppingGovern

LEMMA StoppingCarries ==
  ASSUME Stopping, Locals, NEW w \in Workers, Carries(w)
  PROVE  Stopping'
<1>0. {"idle", "announce"} \intersect GovernedSteps = {}
  BY DEF GovernedSteps, Carrying
<1>1. UNCHANGED <<switches, config, calm>> /\ pc[w] \in Carrying /\ Stops(w)
  BY CarryCases DEF Stopping
<1>2. CASE Moves(w, {"idle", "announce"}) /\ UNCHANGED admitted
  BY <1>0, <1>1, <1>2, StoppingElsewhere
<1>3. CASE Moves(w, {"idle", "announce"}) /\ Carried(w)
  <2>1. Stops(w)'
    BY <1>0, <1>3, StopsIdle DEF Moves
  <2>2. \A v \in Workers : Stops(v)'
    BY <1>1, <1>3, <2>1, StopsMove
  <2> DEFINE new == [request |-> [req[w] EXCEPT !.pass = None], pass |-> req[w].pass,
                     mode |-> ModeFor(req[w]), calm |-> calm[w]]
  <2>3. admitted' = Append(admitted, new)
    BY <1>3 DEF Carried
  <2>4. new.mode = ModeFor(req[w]) /\ new.calm = calm[w] /\ new.pass = req[w].pass
    OBVIOUS
  <2>5. new.mode = "enforce" => new.calm \/ new.pass.by = "receipt"
    BY <1>1, <2>4 DEF Stops
  <2> HIDE DEF new
  <2>6. List(admitted') /\ StoppedNeedsReceipt'
    <3>1. List(admitted)
      BY DEF Stopping
    <3>2. /\ List(admitted') /\ DOMAIN admitted = 1 .. Len(admitted) /\ Len(admitted) \in Nat
          /\ DOMAIN admitted' = 1 .. Len(admitted) + 1
          /\ \A i \in DOMAIN admitted : admitted'[i] = admitted[i]
          /\ admitted'[Len(admitted) + 1] = new
      BY <2>3, <3>1, ListAppend
    <3>3. ASSUME NEW i \in DOMAIN admitted', admitted'[i].mode = "enforce"
          PROVE  admitted'[i].calm \/ admitted'[i].pass.by = "receipt"
      <4>1. CASE i \in DOMAIN admitted
        BY <3>2, <3>3, <4>1 DEF Stopping, StoppedNeedsReceipt
      <4>2. CASE i = Len(admitted) + 1
        BY <2>5, <3>2, <3>3, <4>2
      <4> QED BY <3>2, <4>1, <4>2
    <3> QED BY <3>2, <3>3 DEF StoppedNeedsReceipt
  <2> QED BY <1>1, <2>2, <2>6 DEF Stopping
<1>4. CASE Moves(w, Carrying) /\ req' = req /\ UNCHANGED admitted
  <2>1. pc'[w] \in Carrying /\ ModeFor(req[w])' = ModeFor(req[w])
    BY <1>1, <1>4, ModeStays DEF Moves
  <2>2. Stops(w)'
    BY <1>1, <1>4, <2>1 DEF Stops, Carrying
  <2>3. \A v \in Workers : Stops(v)'
    BY <1>1, <1>4, <2>2, StopsMove
  <2> QED BY <1>1, <1>4, <2>3 DEF Stopping, List, StoppedNeedsReceipt
<1> QED BY <1>2, <1>3, <1>4, CarryCases

\* A request is let through, for one of the reasons.
LEMMA StoppingPass ==
  ASSUME Stopping, Locals, UNCHANGED <<switches, config, admitted, calm>>, NEW w \in Workers,
         NEW by, NEW n, Pass(w, by, n), Formed(req[w]),
         \/ by = "disabled" /\ ModeFor(req[w]) = "disabled"
         \/ by = "observed" /\ ModeFor(req[w]) = "observe"
         \/ by = "decision" /\ calm[w]
         \/ by = "receipt"
  PROVE  Stopping'
<1>1. /\ Moves(w, Thens) /\ pc'[w] = req[w].then
      /\ req'[w] = [req[w] EXCEPT !.pass = [by |-> by, n |-> n]]
  BY PassMoves
<1>2. /\ [req[w] EXCEPT !.pass = [by |-> by, n |-> n]].pass = [by |-> by, n |-> n]
      /\ [req[w] EXCEPT !.pass = [by |-> by, n |-> n]].type = req[w].type
  BY DEF Formed, Request
<1>3. req'[w].pass.by = by /\ req'[w].type = req[w].type
  BY <1>1, <1>2
<1>4. ModeFor(req[w])' = ModeFor(req[w])
  BY <1>3, ModeStays
<1>5. pc'[w] \notin {"enforce", "switch", "rules", "decide"}
  BY <1>1, Zenon DEF Formed, Thens
<1>6. Stops(w)'
  BY <1>3, <1>4, <1>5 DEF Stops
<1>7. \A v \in Workers : Stops(v)'
  BY <1>1, <1>6, StopsMove
<1> QED BY <1>7 DEF Stopping, List, StoppedNeedsReceipt

\* What administrators do lifts no switch.
LEMMA StoppingAdmin ==
  ASSUME Stopping,
         \/ CreateCapability \/ CreatePolicyRule \/ CreateKillSwitch
         \/ CreateApprovalReceipt \/ RevokeApprovalReceipt \/ ReissueApprovalReceiptToken
         \/ ExpireReceipt \/ ConsumeApprovalReceipt \/ ResolveScanResult
  PROVE  Stopping'
<1>1. UNCHANGED <<pc, req, copy>> /\ UNCHANGED <<config, admitted, calm>>
  BY DEF CreateCapability, CreatePolicyRule, CreateKillSwitch, CreateApprovalReceipt,
         RevokeApprovalReceipt, ReissueApprovalReceiptToken, ExpireReceipt,
         ConsumeApprovalReceipt, ResolveScanResult, Whole, flow
<1>2. switches \subseteq switches'
  BY DEF CreateCapability, CreatePolicyRule, CreateKillSwitch, CreateApprovalReceipt,
         RevokeApprovalReceipt, ReissueApprovalReceiptToken, ExpireReceipt,
         ConsumeApprovalReceipt, ResolveScanResult
<1>3. \A v \in Workers : Stops(v)'
  BY <1>1, <1>2, StopsStay DEF Stopping
<1> QED BY <1>1, <1>3 DEF Stopping, List, StoppedNeedsReceipt

LEMMA StoppingExpire ==
  ASSUME Stopping, ExpireSwitch
  PROVE  Stopping'
<1>1. PICK sw \in switches :
        /\ switches' = switches \ {sw}
        /\ calm' = [w \in Workers |->
             calm[w] \/ ~ \E other \in switches \ {sw} : Covers(other, req[w])]
  BY DEF ExpireSwitch
<1>2. UNCHANGED <<pc, req, copy, config, admitted>>
  BY DEF ExpireSwitch, flow
<1>3. calm' \in [Workers -> BOOLEAN]
  BY <1>1
<1>4. ASSUME NEW w \in Workers PROVE Stops(w)'
  <2>1. Stops(w)
    BY DEF Stopping
  <2>2. calm[w] => calm'[w]
    BY <1>1 DEF Stopping
  <2>3. calm'[w] \/ \E other \in switches \ {sw} : Covers(other, req[w])
    BY <1>1
  <2>4. calm'[w] \/ Stopped(req[w])'
    BY <1>1, <1>2, <2>3 DEF Stopped, Covers
  <2>5. ModeFor(req[w])' = ModeFor(req[w])
    BY <1>2, ModeStays
  <2> QED BY <1>2, <2>1, <2>2, <2>4, <2>5 DEF Stops
<1> QED BY <1>2, <1>3, <1>4 DEF Stopping, List, StoppedNeedsReceipt

LEMMA StoppingGov ==
  ASSUME Stopping, Flow, GovNext
  PROVE  Stopping'
<1>0. Locals
  BY DEF Flow
<1>1. ASSUME NEW w \in Workers, Answer(w), UNCHANGED <<switches, config, admitted, calm>>
      PROVE  Stopping'
  <2>1. Moves(w, {"idle"}) /\ {"idle"} \intersect GovernedSteps = {}
    BY <1>0, <1>1, AnswerMoves DEF GovernedSteps, Carrying
  <2> QED BY <1>1, <2>1, StoppingElsewhere
<1>2. ASSUME NEW w \in Workers, NEW S, Moves(w, S), Stops(w)',
             UNCHANGED <<switches, config, admitted, calm>>
      PROVE  Stopping'
  <2>1. \A v \in Workers : Stops(v)'
    BY <1>2, StopsMove
  <2> QED BY <1>2, <2>1 DEF Stopping, List, StoppedNeedsReceipt
<1>3. ASSUME NEW w \in Workers, BeginEvaluate(w) PROVE Stopping'
  <2>1. PICK r : Begin(w, r, "switch") /\ Govern(w, r)
    BY <1>3 DEF BeginEvaluate
  <2>2. Moves(w, {"switch"}) /\ req'[w] = r
    BY <1>0, <2>1, BeginMoves
  <2> QED BY <1>3, <2>1, <2>2, StoppingGovern DEF BeginEvaluate
<1>4. ASSUME NEW w \in Workers, Enforce(w) PROVE Stopping'
  <2>0. UNCHANGED <<switches, config, admitted, calm>> /\ pc[w] = "enforce"
    BY <1>4 DEF Enforce, govVars
  <2>1. Formed(req[w]) /\ Stops(w)
    BY <2>0 DEF Flow, Asking, Stopping
  <2>2. ASSUME ModeFor(req[w]) = "disabled", Pass(w, "disabled", 0) PROVE Stopping'
    BY <1>0, <2>0, <2>1, <2>2, StoppingPass
  <2>3. ASSUME Goto(w, "switch") PROVE Stopping'
    <3>1. Moves(w, {"switch"}) /\ pc'[w] = "switch" /\ req' = req
      BY <1>0, <2>3, GotoMoves
    <3>2. Stopped(req[w]) => Stopped(req[w])'
      BY <2>0, <3>1, StoppedStays
    <3>3. calm'[w] \/ Stopped(req[w])'
      BY <2>0, <2>1, <3>2 DEF Stops
    <3>4. Stops(w)'
      BY <3>1, <3>3 DEF Stops, Carrying
    <3> QED BY <1>2, <2>0, <3>1, <3>4
  <2> QED BY <1>4, <2>2, <2>3 DEF Enforce
<1>5. ASSUME NEW w \in Workers, ConsumeForOperation(w) PROVE Stopping'
  <2>0. UNCHANGED <<switches, config, admitted, calm>> /\ pc[w] = "enforce"
    BY <1>5 DEF ConsumeForOperation
  <2>1. Formed(req[w])
    BY <2>0 DEF Flow, Asking
  <2>2. ASSUME NEW n, Pass(w, "receipt", n) PROVE Stopping'
    BY <1>0, <2>0, <2>1, <2>2, StoppingPass
  <2>3. ASSUME ModeFor(req[w]) = "observe", Pass(w, "observed", 0) PROVE Stopping'
    BY <1>0, <2>0, <2>1, <2>3, StoppingPass
  <2> QED BY <1>1, <1>5, <2>0, <2>2, <2>3 DEF ConsumeForOperation
<1>6. ASSUME NEW w \in Workers, EvaluateSwitch(w) PROVE Stopping'
  <2>0. UNCHANGED <<switches, config, admitted, calm>> /\ pc[w] = "switch"
    BY <1>6 DEF EvaluateSwitch, govVars
  <2>1. calm[w] \/ Stopped(req[w])
    BY <2>0 DEF Stopping, Stops
  <2>2. ASSUME Keep(w, "deny", "decide") PROVE Stopping'
    <3>1. Moves(w, {"decide"}) /\ pc'[w] = "decide" /\ copy'[w] = "deny"
      BY <1>0, <2>2, KeepMoves
    <3>2. Stops(w)'
      BY <3>1 DEF Stops, Carrying
    <3> QED BY <1>2, <2>0, <3>1, <3>2
  <2>3. ASSUME ~ Stopped(req[w]), Goto(w, "rules") PROVE Stopping'
    <3>1. Moves(w, {"rules"}) /\ pc'[w] = "rules"
      BY <1>0, <2>3, GotoMoves
    <3>2. calm'[w]
      BY <2>0, <2>1, <2>3
    <3>3. Stops(w)'
      BY <3>1, <3>2 DEF Stops, Carrying
    <3> QED BY <1>2, <2>0, <3>1, <3>3
  <2> QED BY <1>6, <2>2, <2>3 DEF EvaluateSwitch
<1>7. ASSUME NEW w \in Workers, EvaluateRules(w) PROVE Stopping'
  <2>0. UNCHANGED <<switches, config, admitted, calm>> /\ pc[w] = "rules"
    BY <1>7 DEF EvaluateRules, govVars
  <2>1. calm'[w]
    BY <2>0 DEF Stopping, Stops
  <2>2. PICK row : Keep(w, row, "decide")
    BY <1>7 DEF EvaluateRules
  <2>3. Moves(w, {"decide"}) /\ pc'[w] = "decide"
    BY <1>0, <2>2, KeepMoves
  <2>4. Stops(w)'
    BY <2>1, <2>3 DEF Stops, Carrying
  <2> QED BY <1>2, <2>0, <2>3, <2>4
<1>8. ASSUME NEW w \in Workers, PersistDecision(w) PROVE Stopping'
  <2>0. UNCHANGED <<switches, config, admitted, calm>> /\ pc[w] = "decide"
    BY <1>8 DEF PersistDecision
  <2>1. Formed(req[w]) /\ (calm[w] \/ copy[w] = "deny")
    BY <2>0 DEF Flow, Asking, Stopping, Stops
  <2>2. ASSUME ModeFor(req[w]) = "observe", NEW n, Pass(w, "observed", n) PROVE Stopping'
    BY <1>0, <2>0, <2>1, <2>2, StoppingPass
  <2>3. ASSUME copy[w] = "allow", NEW n, Pass(w, "decision", n) PROVE Stopping'
    BY <1>0, <2>0, <2>1, <2>3, StoppingPass
  <2>4. ASSUME NEW n, Keep(w, n, "receipt") PROVE Stopping'
    <3>1. Moves(w, {"receipt"}) /\ {"receipt"} \intersect GovernedSteps = {}
      BY <1>0, <2>4, KeepMoves DEF GovernedSteps, Carrying
    <3> QED BY <2>0, <3>1, StoppingElsewhere
  <2>5. \/ Answer(w)
        \/ ModeFor(req[w]) = "observe" /\ Pass(w, "observed", Len(decisions'))
        \/ copy[w] = "allow" /\ Pass(w, "decision", Len(decisions'))
        \/ Keep(w, Len(decisions'), "receipt")
    BY <1>8 DEF PersistDecision
  <2> QED BY <1>1, <2>0, <2>2, <2>3, <2>4, <2>5
<1>9. ASSUME NEW w \in Workers, RequireApproval(w) PROVE Stopping'
  BY <1>1, <1>9 DEF RequireApproval
<1> QED BY <1>3, <1>4, <1>5, <1>6, <1>7, <1>8, <1>9, StoppingAdmin, StoppingExpire DEF GovNext

\* Where governance is enforced, an operation that a kill switch covered from before it
\* began until it was carried out has a receipt, whatever switches and rules appear and
\* expire in between (StoppedNeedsReceipt; Enforce, Evaluate).
THEOREM SwitchStops == Spec => []StoppedNeedsReceipt
<1>1. Init => Stopping
  <2> SUFFICES ASSUME Init PROVE Stopping
    OBVIOUS
  <2>1. PICK start \in Scenarios : FlowInit(start.kinds, start.earlier) /\ GovInit(start)
    BY DEF Init
  <2>2. (\A w \in Workers : pc[w] = "idle") /\ admitted = <<>> /\ calm = [w \in Workers |-> TRUE]
    BY <2>1 DEF FlowInit, GovInit
  <2>3. \A w \in Workers : Stops(w)
    BY <2>2 DEF Stops, Carrying
  <2> QED BY <2>2, <2>3 DEF Stopping, List, StoppedNeedsReceipt
<1>2. Flow /\ Stopping /\ [Next]_vars => Stopping'
  <2> SUFFICES ASSUME Flow, Stopping, [Next]_vars PROVE Stopping'
    OBVIOUS
  <2>0. Locals
    BY DEF Flow
  <2>1. CASE UNCHANGED <<pc, req, copy, ruled>>
    <3>1. \A v \in Workers : Stops(v)'
      BY <2>1, StopsStay DEF Stopping, ruled
    <3> QED BY <2>1, <3>1 DEF Stopping, List, StoppedNeedsReceipt, ruled
  <2>2. ASSUME NEW w \in Workers, NEW S, Moves(w, S), S \intersect GovernedSteps = {},
               UNCHANGED ruled
        PROVE  Stopping'
    BY <2>2, StoppingElsewhere DEF ruled
  <2> QED BY <2>0, <2>1, <2>2, GovernedCases, StoppingGov, StoppingAsks, StoppingCarries
<1>3. Stopping => StoppedNeedsReceipt
  BY DEF Stopping
<1> QED BY <1>1, <1>2, <1>3, FlowHolds, PTL DEF Spec
-----------------------------------------------------------------------------
(* Receipts and decisions. *)

\* The tables are sequences, and the receipts have their fields.
GovTables == /\ List(receipts) /\ List(decisions) /\ List(admitted)
           /\ \A n \in DOMAIN receipts : IsReceipt(receipts[n])

\* Nothing takes back a consumed receipt or a decision.
Kept == /\ \A n \in DOMAIN receipts :
             n \in DOMAIN receipts' /\ (receipts[n].state = "consumed" => receipts'[n] = receipts[n])
        /\ \A n \in DOMAIN decisions : n \in DOMAIN decisions' /\ decisions'[n] = decisions[n]

\* The request as it was asked.
Bare(r) == [r EXCEPT !.pass = None]

\* One of the receipts rs or of the decisions ds stands behind the pass of request r.
Backed(pass, r, rs, ds) ==
  /\ pass.by = "receipt" =>
       /\ pass.n \in DOMAIN rs /\ rs[pass.n].state = "consumed"
       /\ rs[pass.n].user = r.user /\ rs[pass.n].type = r.type
       /\ rs[pass.n].on = r.on /\ rs[pass.n].cap = r.cap
  /\ pass.by = "decision" =>
       /\ pass.n \in DOMAIN ds /\ ds[pass.n].decision = "allow" /\ ds[pass.n].request = r

Spends(pass) == pass.by \in {"receipt", "decision"}

\* Every pass is backed, and none that spends a receipt or a decision is there twice:
\* neither with the requests on their way nor with the operations carried out.
Passes ==
  /\ \A w \in Workers : pc[w] \in Carrying =>
       Backed(req[w].pass, Bare(req[w]), receipts, decisions)
  /\ \A v, w \in Workers : v # w /\ pc[v] \in Carrying /\ pc[w] \in Carrying =>
       ~ Spends(req[v].pass) \/ req[v].pass # req[w].pass
  /\ \A i \in DOMAIN admitted :
       Backed(admitted[i].pass, admitted[i].request, receipts, decisions)
  /\ \A i, j \in DOMAIN admitted : i # j =>
       ~ Spends(admitted[i].pass) \/ admitted[i].pass # admitted[j].pass
  /\ \A i \in DOMAIN admitted, w \in Workers : pc[w] \in Carrying =>
       ~ Spends(req[w].pass) \/ req[w].pass # admitted[i].pass

Admission == GovTables /\ Passes

LEMMA BackedStays ==
  ASSUME Kept, NEW pass, NEW r, Backed(pass, r, receipts, decisions)
  PROVE  Backed(pass, r, receipts', decisions')
BY DEF Kept, Backed

\* The other requests, and what was carried out, keep what is behind them.
LEMMA PassesMove ==
  ASSUME Passes, Kept, UNCHANGED admitted, NEW w \in Workers, NEW S, Moves(w, S),
         pc'[w] \in Carrying =>
           /\ Backed(req'[w].pass, Bare(req'[w]), receipts', decisions')
           /\ Spends(req'[w].pass) =>
                /\ \A v \in Workers \ {w} : pc[v] \in Carrying => req[v].pass # req'[w].pass
                /\ \A i \in DOMAIN admitted : admitted[i].pass # req'[w].pass
  PROVE  Passes'
<1>1. \A v \in Workers \ {w} : pc'[v] = pc[v] /\ req'[v] = req[v]
  BY DEF Moves
<1>2. ASSUME NEW v \in Workers, pc'[v] \in Carrying
      PROVE  Backed(req'[v].pass, Bare(req'[v]), receipts', decisions')
  BY <1>1, <1>2, BackedStays DEF Passes
<1>3. ASSUME NEW u \in Workers, NEW v \in Workers, u # v, pc'[u] \in Carrying,
             pc'[v] \in Carrying
      PROVE  ~ Spends(req'[u].pass) \/ req'[u].pass # req'[v].pass
  BY <1>1, <1>3 DEF Passes
<1>4. ASSUME NEW i \in DOMAIN admitted
      PROVE  Backed(admitted[i].pass, admitted[i].request, receipts', decisions')
  BY BackedStays DEF Passes
<1>5. ASSUME NEW i \in DOMAIN admitted, NEW v \in Workers, pc'[v] \in Carrying
      PROVE  ~ Spends(req'[v].pass) \/ req'[v].pass # admitted[i].pass
  BY <1>1, <1>5 DEF Passes
<1>6. \A i, j \in DOMAIN admitted : i # j =>
        ~ Spends(admitted[i].pass) \/ admitted[i].pass # admitted[j].pass
  BY DEF Passes
<1> QED BY <1>2, <1>3, <1>4, <1>5, <1>6 DEF Passes

LEMMA PassesElsewhere ==
  ASSUME Passes, Kept, UNCHANGED admitted, NEW w \in Workers, NEW S, Moves(w, S),
         S \intersect Carrying = {}
  PROVE  Passes'
<1>1. pc'[w] \notin Carrying
  BY DEF Moves
<1> QED BY <1>1, PassesMove

LEMMA KeptUnchanged ==
  ASSUME UNCHANGED <<receipts, decisions>>
  PROVE  Kept
BY DEF Kept

LEMMA AdmissionElsewhere ==
  ASSUME Admission, UNCHANGED <<receipts, decisions, admitted>>, NEW w \in Workers, NEW S,
         Moves(w, S), S \intersect Carrying = {}
  PROVE  Admission'
<1>1. Passes'
  BY KeptUnchanged, PassesElsewhere DEF Admission
<1> QED BY <1>1 DEF Admission, GovTables, List, IsReceipt

LEMMA AdmissionAsks ==
  ASSUME Admission, Locals, NEW w \in Workers, Asks(w)
  PROVE  Admission'
<1>1. {"idle", "active", "known"} \intersect Carrying = {} /\ {"enforce"} \intersect Carrying = {}
  BY DEF Carrying
<1> QED BY <1>1, AskCases, AdmissionElsewhere

LEMMA AdmissionCarries ==
  ASSUME Admission, Locals, NEW w \in Workers, Carries(w)
  PROVE  Admission'
<1>0. {"idle", "announce"} \intersect Carrying = {}
  BY DEF Carrying
<1>1. UNCHANGED <<receipts, decisions>> /\ pc[w] \in Carrying
  BY CarryCases
<1>2. CASE Moves(w, {"idle", "announce"}) /\ UNCHANGED admitted
  BY <1>0, <1>1, <1>2, AdmissionElsewhere
<1>3. CASE Moves(w, {"idle", "announce"}) /\ Carried(w)
  <2> DEFINE new == [request |-> [req[w] EXCEPT !.pass = None], pass |-> req[w].pass,
                     mode |-> ModeFor(req[w]), calm |-> calm[w]]
  <2>1. admitted' = Append(admitted, new)
    BY <1>3 DEF Carried
  <2>2. new.request = Bare(req[w]) /\ new.pass = req[w].pass
    BY DEF Bare
  <2> HIDE DEF new
  <2>3. /\ List(admitted') /\ DOMAIN admitted = 1 .. Len(admitted) /\ Len(admitted) \in Nat
        /\ DOMAIN admitted' = 1 .. Len(admitted) + 1
        /\ \A i \in DOMAIN admitted : admitted'[i] = admitted[i]
        /\ admitted'[Len(admitted) + 1] = new
    BY <2>1, ListAppend DEF Admission, GovTables
  <2>4. pc'[w] \notin Carrying /\ \A v \in Workers \ {w} : pc'[v] = pc[v] /\ req'[v] = req[v]
    BY <1>0, <1>3 DEF Moves
  <2>5. \A i \in DOMAIN admitted' : i \in DOMAIN admitted \/ i = Len(admitted) + 1
    BY <2>3
  <2>6. Passes
    BY DEF Admission
  <2>7. Backed(new.pass, new.request, receipts, decisions)
    BY <1>1, <2>2, <2>6 DEF Passes
  <2>8. \A i \in DOMAIN admitted : /\ ~ Spends(new.pass) \/ new.pass # admitted[i].pass
                                   /\ ~ Spends(admitted[i].pass) \/ admitted[i].pass # new.pass
    BY <1>1, <2>2, <2>6 DEF Passes
  <2>9. \A v \in Workers \ {w} : pc[v] \in Carrying =>
          ~ Spends(req[v].pass) \/ req[v].pass # new.pass
    BY <1>1, <2>2, <2>6 DEF Passes
  <2>10. ASSUME NEW v \in Workers, pc'[v] \in Carrying
         PROVE  /\ v # w /\ pc[v] \in Carrying /\ req'[v] = req[v]
    BY <2>4, <2>10
  <2>11. \A v \in Workers : pc'[v] \in Carrying =>
           Backed(req'[v].pass, Bare(req'[v]), receipts', decisions')
    BY <1>1, <2>6, <2>10 DEF Passes
  <2>12. \A u, v \in Workers : u # v /\ pc'[u] \in Carrying /\ pc'[v] \in Carrying =>
           ~ Spends(req'[u].pass) \/ req'[u].pass # req'[v].pass
    BY <2>6, <2>10 DEF Passes
  <2>13. ASSUME NEW i \in DOMAIN admitted'
         PROVE  Backed(admitted'[i].pass, admitted'[i].request, receipts', decisions')
    BY <1>1, <2>3, <2>5, <2>6, <2>7 DEF Passes
  <2>14. ASSUME NEW i \in DOMAIN admitted', NEW j \in DOMAIN admitted', i # j
         PROVE  ~ Spends(admitted'[i].pass) \/ admitted'[i].pass # admitted'[j].pass
    BY <2>3, <2>5, <2>6, <2>8, <2>14 DEF Passes
  <2>15. ASSUME NEW i \in DOMAIN admitted', NEW v \in Workers, pc'[v] \in Carrying
         PROVE  ~ Spends(req'[v].pass) \/ req'[v].pass # admitted'[i].pass
    BY <2>3, <2>5, <2>6, <2>9, <2>10, <2>15 DEF Passes
  <2>16. Passes'
    BY <2>11, <2>12, <2>13, <2>14, <2>15 DEF Passes
  <2> QED BY <1>1, <2>3, <2>16 DEF Admission, GovTables, List, IsReceipt
<1>4. CASE Moves(w, Carrying) /\ req' = req /\ UNCHANGED admitted
  <2>1. Passes'
    BY <1>1, <1>4, KeptUnchanged, PassesMove DEF Admission, Passes
  <2> QED BY <1>1, <1>4, <2>1 DEF Admission, GovTables, List, IsReceipt
<1> QED BY <1>2, <1>3, <1>4, CarryCases

\* How the tables change: a receipt or a decision is added, a pending receipt changes.
LEMMA ReceiptAdded ==
  ASSUME GovTables, NEW r, NEW d, receipts' = Append(receipts, NewReceipt(r, d)),
         UNCHANGED <<decisions, admitted>>
  PROVE  GovTables' /\ Kept
<1>1. /\ List(receipts') /\ DOMAIN receipts = 1 .. Len(receipts) /\ Len(receipts) \in Nat
      /\ DOMAIN receipts' = 1 .. Len(receipts) + 1
      /\ \A n \in DOMAIN receipts : receipts'[n] = receipts[n]
      /\ receipts'[Len(receipts) + 1] = NewReceipt(r, d)
  BY ListAppend DEF GovTables
<1>2. IsReceipt(NewReceipt(r, d))
  BY DEF IsReceipt, NewReceipt
<1>3. ASSUME NEW n \in DOMAIN receipts' PROVE IsReceipt(receipts'[n])
  <2>1. n \in DOMAIN receipts \/ n = Len(receipts) + 1
    BY <1>1
  <2> QED BY <1>1, <1>2, <2>1 DEF GovTables
<1>4. Kept
  BY <1>1 DEF Kept
<1> QED BY <1>1, <1>3, <1>4 DEF GovTables, List

LEMMA ReceiptChanged ==
  ASSUME GovTables, NEW n \in DOMAIN receipts, receipts[n].state = "pending",
         UNCHANGED <<decisions, admitted>>, NEW row, IsReceipt(row),
         receipts' = [receipts EXCEPT ![n] = row]
  PROVE  GovTables' /\ Kept
<1>1. /\ List(receipts') /\ DOMAIN receipts' = DOMAIN receipts /\ receipts'[n] = row
      /\ \A i \in DOMAIN receipts : i # n => receipts'[i] = receipts[i]
  BY RowReplaced DEF GovTables
<1>2. \A i \in DOMAIN receipts' : IsReceipt(receipts'[i])
  BY <1>1 DEF GovTables
<1>3. Kept
  BY <1>1 DEF Kept
<1> QED BY <1>1, <1>2, <1>3 DEF GovTables, List

LEMMA DecisionAdded ==
  ASSUME GovTables, NEW d, decisions' = Append(decisions, d), UNCHANGED <<receipts, admitted>>
  PROVE  /\ GovTables' /\ Kept
         /\ Len(decisions') \in DOMAIN decisions' /\ Len(decisions') \notin DOMAIN decisions
         /\ decisions'[Len(decisions')] = d
<1>1. /\ List(decisions') /\ DOMAIN decisions = 1 .. Len(decisions) /\ Len(decisions) \in Nat
      /\ DOMAIN decisions' = 1 .. Len(decisions) + 1 /\ Len(decisions') = Len(decisions) + 1
      /\ \A n \in DOMAIN decisions : decisions'[n] = decisions[n]
      /\ decisions'[Len(decisions) + 1] = d
  BY ListAppend DEF GovTables
<1>2. GovTables'
  BY <1>1 DEF GovTables, List, IsReceipt
<1>3. Kept
  BY <1>1 DEF Kept
<1> QED BY <1>1, <1>2, <1>3

\* A receipt whose state, or whose issue, is another one.
LEMMA ReceiptRow ==
  ASSUME GovTables, NEW n \in DOMAIN receipts, NEW x
  PROVE  /\ IsReceipt([receipts[n] EXCEPT !.state = x])
         /\ IsReceipt([receipts[n] EXCEPT !.issue = x])
         /\ LET row == [receipts[n] EXCEPT !.state = x]
            IN  /\ row.state = x /\ row.user = receipts[n].user /\ row.type = receipts[n].type
                /\ row.on = receipts[n].on /\ row.cap = receipts[n].cap
<1>1. IsReceipt(receipts[n])
  BY DEF GovTables
<1> DEFINE row == receipts[n]
<1>2. row = [user |-> row.user, type |-> row.type, on |-> row.on, cap |-> row.cap,
             decision |-> row.decision, state |-> row.state, issue |-> row.issue]
  BY <1>1 DEF IsReceipt
<1> HIDE DEF row
<1>3. /\ IsReceipt([row EXCEPT !.state = x]) /\ IsReceipt([row EXCEPT !.issue = x])
      /\ [row EXCEPT !.state = x].state = x /\ [row EXCEPT !.state = x].user = row.user
      /\ [row EXCEPT !.state = x].type = row.type /\ [row EXCEPT !.state = x].on = row.on
      /\ [row EXCEPT !.state = x].cap = row.cap
  BY <1>2 DEF IsReceipt
<1> QED BY <1>3 DEF row

LEMMA PassesStay ==
  ASSUME Passes, Kept, UNCHANGED <<pc, req, copy, admitted>>
  PROVE  Passes'
BY BackedStays DEF Passes

LEMMA BareStays ==
  ASSUME NEW r, Formed(r), NEW pass
  PROVE  /\ Bare([r EXCEPT !.pass = pass]) = Bare(r)
         /\ [r EXCEPT !.pass = pass].pass = pass
         /\ Bare(r).user = r.user /\ Bare(r).type = r.type
         /\ Bare(r).on = r.on /\ Bare(r).cap = r.cap
<1> DEFINE D == DOMAIN Request
<1>1. r = [f \in D |-> r[f]] /\ "pass" \in D /\ "user" \in D /\ "type" \in D
      /\ "on" \in D /\ "cap" \in D
  BY DEF Formed, Request
<1> HIDE DEF D
<1> QED BY <1>1 DEF Bare

\* A pass nobody can have used yet: nothing in the tables backs it.
Unspent(pass) == \A p, r : Backed(p, r, receipts, decisions) => p # pass

\* A request is let through with a pass that is backed, and nobody else's.
LEMMA NewPass ==
  ASSUME Passes, Kept, UNCHANGED admitted, Locals, NEW w \in Workers, NEW by, NEW n,
         Pass(w, by, n), Formed(req[w]),
         Backed([by |-> by, n |-> n], Bare(req[w]), receipts', decisions'),
         by \in {"receipt", "decision"} => Unspent([by |-> by, n |-> n])
  PROVE  Passes'
<1>1. /\ Moves(w, Thens) /\ req'[w] = [req[w] EXCEPT !.pass = [by |-> by, n |-> n]]
  <2>1. Thens \subseteq Thens
    OBVIOUS
  <2> QED BY ONLY Locals, w \in Workers, Pass(w, by, n), Formed(req[w]), <2>1, PassMoves, ZenonT(30)
<1>2. req'[w].pass = [by |-> by, n |-> n] /\ Bare(req'[w]) = Bare(req[w])
  BY <1>1, BareStays
<1>3. Spends(req'[w].pass) => by \in {"receipt", "decision"}
  BY <1>2 DEF Spends
<1>4. Spends(req'[w].pass) =>
        /\ \A v \in Workers \ {w} : pc[v] \in Carrying => req[v].pass # req'[w].pass
        /\ \A i \in DOMAIN admitted : admitted[i].pass # req'[w].pass
  BY <1>2, <1>3 DEF Passes, Unspent
<1> QED BY <1>1, <1>2, <1>4, PassesMove

LEMMA AdmissionAdmin ==
  ASSUME Admission,
         \/ CreateCapability \/ CreatePolicyRule \/ CreateKillSwitch \/ ExpireSwitch
         \/ CreateApprovalReceipt \/ RevokeApprovalReceipt \/ ReissueApprovalReceiptToken
         \/ ExpireReceipt \/ ConsumeApprovalReceipt \/ ResolveScanResult
  PROVE  Admission'
<1>1. UNCHANGED <<pc, req, copy>> /\ UNCHANGED <<decisions, admitted>>
  BY DEF CreateCapability, CreatePolicyRule, CreateKillSwitch, ExpireSwitch,
         CreateApprovalReceipt, RevokeApprovalReceipt, ReissueApprovalReceiptToken,
         ExpireReceipt, ConsumeApprovalReceipt, ResolveScanResult, Whole, flow
<1>2. GovTables
  BY DEF Admission
<1>3. GovTables' /\ Kept
  <2>1. CASE UNCHANGED receipts
    BY <1>1, <2>1, <1>2, KeptUnchanged DEF GovTables, List, IsReceipt
  <2>2. CASE CreateApprovalReceipt
    BY <1>1, <1>2, <2>2, ReceiptAdded DEF CreateApprovalReceipt
  <2>3. CASE RevokeApprovalReceipt
    <3>1. PICK n \in DOMAIN receipts : /\ receipts[n].state = "pending"
                                       /\ receipts' = [receipts EXCEPT ![n].state = "revoked"]
      BY <2>3 DEF RevokeApprovalReceipt
    <3> QED BY <1>1, <1>2, <3>1, ReceiptRow, ReceiptChanged
  <2>4. CASE ExpireReceipt
    <3>1. PICK n \in DOMAIN receipts : /\ receipts[n].state = "pending"
                                       /\ receipts' = [receipts EXCEPT ![n].state = "expired"]
      BY <2>4 DEF ExpireReceipt
    <3> QED BY <1>1, <1>2, <3>1, ReceiptRow, ReceiptChanged
  <2>5. CASE ConsumeApprovalReceipt
    <3>1. PICK n \in DOMAIN receipts : /\ receipts[n].state = "pending"
                                       /\ receipts' = [receipts EXCEPT ![n].state = "consumed"]
      BY <2>5 DEF ConsumeApprovalReceipt
    <3> QED BY <1>1, <1>2, <3>1, ReceiptRow, ReceiptChanged
  <2>6. CASE ReissueApprovalReceiptToken
    <3>1. PICK n \in DOMAIN receipts :
            /\ receipts[n].state = "pending"
            /\ receipts' = [receipts EXCEPT ![n].issue = receipts[n].issue + 1]
      BY <2>6 DEF ReissueApprovalReceiptToken
    <3> QED BY <1>1, <1>2, <3>1, ReceiptRow, ReceiptChanged
  <2> QED BY <2>1, <2>2, <2>3, <2>4, <2>5, <2>6
          DEF CreateCapability, CreatePolicyRule, CreateKillSwitch, ExpireSwitch,
              ResolveScanResult
<1>4. Passes'
  BY <1>1, <1>3, PassesStay DEF Admission
<1> QED BY <1>3, <1>4 DEF Admission

LEMMA AdmissionGov ==
  ASSUME Admission, Flow, GovNext
  PROVE  Admission'
<1>0. Locals /\ GovTables /\ Passes
  BY DEF Flow, Admission
<1>1. /\ {"idle"} \intersect Carrying = {} /\ {"switch"} \intersect Carrying = {}
      /\ {"rules"} \intersect Carrying = {} /\ {"decide"} \intersect Carrying = {}
      /\ {"receipt"} \intersect Carrying = {}
  BY DEF Carrying
<1>2. ASSUME NEW w \in Workers,
             BeginEvaluate(w) \/ EvaluateSwitch(w) \/ EvaluateRules(w)
      PROVE  Admission'
  <2>1. UNCHANGED <<receipts, decisions, admitted>>
    BY <1>2, Zenon DEF BeginEvaluate, EvaluateSwitch, EvaluateRules, govVars
  <2>2. \/ \E r : Begin(w, r, "switch")
        \/ \E row : Keep(w, row, "decide")
        \/ Goto(w, "rules")
    BY <1>2, Zenon DEF BeginEvaluate, EvaluateSwitch, EvaluateRules
  <2>3. Moves(w, {"switch"}) \/ Moves(w, {"decide"}) \/ Moves(w, {"rules"})
    BY <1>0, <2>2, BeginMoves, KeepMoves, GotoMoves
  <2> QED BY <1>1, <2>1, <2>3, AdmissionElsewhere
<1>3. ASSUME NEW w \in Workers, Enforce(w) PROVE Admission'
  <2>1. UNCHANGED <<receipts, decisions, admitted>> /\ pc[w] = "enforce"
    BY <1>3 DEF Enforce, govVars
  <2>2. Formed(req[w])
    BY <2>1 DEF Flow, Asking
  <2>3. CASE Goto(w, "switch")
    <3>1. Moves(w, {"switch"})
      BY <1>0, <2>3, GotoMoves
    <3> QED BY <1>1, <2>1, <3>1, AdmissionElsewhere
  <2>4. CASE Pass(w, "disabled", 0)
    <3>1. Backed([by |-> "disabled", n |-> 0], Bare(req[w]), receipts', decisions')
      BY DEF Backed
    <3>2. Passes'
      BY <1>0, <2>1, <2>2, <2>4, <3>1, KeptUnchanged, NewPass
    <3> QED BY <1>0, <2>1, <3>2 DEF Admission, GovTables, List, IsReceipt
  <2> QED BY <1>3, <2>3, <2>4 DEF Enforce
<1>4. ASSUME NEW w \in Workers, ConsumeForOperation(w) PROVE Admission'
  <2>1. UNCHANGED <<decisions, admitted>> /\ pc[w] = "enforce"
    BY <1>4 DEF ConsumeForOperation
  <2>2. Formed(req[w])
    BY <2>1 DEF Flow, Asking
  <2>3. ASSUME NEW m \in DOMAIN receipts, Redeems(m, req[w]), Pass(w, "receipt", m),
               receipts' = [receipts EXCEPT ![m].state = "consumed"]
        PROVE  Admission'
    <3>1. /\ receipts[m].state = "pending"
          /\ receipts[m].user = req[w].user /\ receipts[m].type = req[w].type
          /\ receipts[m].on = req[w].on /\ receipts[m].cap = req[w].cap
      BY <2>3 DEF Redeems
    <3> DEFINE row == [receipts[m] EXCEPT !.state = "consumed"]
    <3>2. /\ IsReceipt(row) /\ row.state = "consumed" /\ row.user = req[w].user
          /\ row.type = req[w].type /\ row.on = req[w].on /\ row.cap = req[w].cap
      BY <1>0, <3>1, ReceiptRow
    <3>3. receipts' = [receipts EXCEPT ![m] = row]
      BY <2>3
    <3> HIDE DEF row
    <3>4. GovTables' /\ Kept
      BY <1>0, <2>1, <3>1, <3>2, <3>3, ReceiptChanged
    <3>5. m \in DOMAIN receipts' /\ receipts'[m] = row
      BY <2>3, <3>3, <3>4 DEF Kept
    <3>6. Backed([by |-> "receipt", n |-> m], Bare(req[w]), receipts', decisions')
      BY <2>2, <3>2, <3>5, BareStays DEF Backed
    <3>7. Unspent([by |-> "receipt", n |-> m])
      BY <3>1 DEF Unspent, Backed
    <3>8. Passes'
      BY <1>0, <2>1, <2>2, <2>3, <3>4, <3>6, <3>7, NewPass
    <3> QED BY <3>4, <3>8 DEF Admission
  <2>4. ASSUME UNCHANGED receipts, Pass(w, "observed", 0) PROVE Admission'
    <3>1. Backed([by |-> "observed", n |-> 0], Bare(req[w]), receipts', decisions')
      BY DEF Backed
    <3>2. Passes'
      BY <1>0, <2>1, <2>2, <2>4, <3>1, KeptUnchanged, NewPass
    <3> QED BY <1>0, <2>1, <2>4, <3>2 DEF Admission, GovTables, List, IsReceipt
  <2>5. ASSUME UNCHANGED receipts, Answer(w) PROVE Admission'
    <3>1. Moves(w, {"idle"})
      BY <1>0, <2>5, AnswerMoves
    <3> QED BY <1>1, <2>1, <2>5, <3>1, AdmissionElsewhere
  <2> QED BY <1>4, <2>3, <2>4, <2>5 DEF ConsumeForOperation
<1>5. ASSUME NEW w \in Workers, PersistDecision(w) PROVE Admission'
  <2>1. UNCHANGED <<receipts, admitted>> /\ pc[w] = "decide"
    BY <1>5 DEF PersistDecision
  <2>2. Formed(req[w])
    BY <2>1 DEF Flow, Asking
  <2> DEFINE d == [request |-> [req[w] EXCEPT !.pass = None], decision |-> copy[w]]
  <2>3. decisions' = Append(decisions, d)
    BY <1>5 DEF PersistDecision
  <2>4. d.request = Bare(req[w]) /\ d.decision = copy[w]
    BY DEF Bare
  <2> HIDE DEF d
  <2>5. /\ GovTables' /\ Kept
        /\ Len(decisions') \in DOMAIN decisions' /\ Len(decisions') \notin DOMAIN decisions
        /\ decisions'[Len(decisions')] = d
    BY <1>0, <2>1, <2>3, DecisionAdded
  <2>6. ASSUME NEW S, Moves(w, S), S \intersect Carrying = {} PROVE Admission'
    <3>1. Passes'
      BY <1>0, <2>1, <2>5, <2>6, PassesElsewhere
    <3> QED BY <2>5, <3>1 DEF Admission
  <2>7. CASE Answer(w) \/ Keep(w, Len(decisions'), "receipt")
    <3>1. Moves(w, {"idle"}) \/ Moves(w, {"receipt"})
      BY <1>0, <2>7, AnswerMoves, KeepMoves
    <3> QED BY <1>1, <2>6, <3>1
  <2>8. CASE Pass(w, "observed", Len(decisions'))
    <3>1. Backed([by |-> "observed", n |-> Len(decisions')], Bare(req[w]), receipts', decisions')
      BY DEF Backed
    <3>2. Passes'
      BY <1>0, <2>1, <2>2, <2>5, <2>8, <3>1, NewPass
    <3> QED BY <2>5, <3>2 DEF Admission
  <2>9. CASE copy[w] = "allow" /\ Pass(w, "decision", Len(decisions'))
    <3>1. Backed([by |-> "decision", n |-> Len(decisions')], Bare(req[w]), receipts', decisions')
      BY <2>4, <2>5, <2>9 DEF Backed
    <3>2. Unspent([by |-> "decision", n |-> Len(decisions')])
      BY <2>5 DEF Unspent, Backed
    <3>3. Passes'
      BY <1>0, <2>1, <2>2, <2>5, <2>9, <3>1, <3>2, NewPass
    <3> QED BY <2>5, <3>3 DEF Admission
  <2>10. \/ Answer(w)
         \/ Pass(w, "observed", Len(decisions'))
         \/ copy[w] = "allow" /\ Pass(w, "decision", Len(decisions'))
         \/ Keep(w, Len(decisions'), "receipt")
    BY <1>5 DEF PersistDecision
  <2> QED BY <2>7, <2>8, <2>9, <2>10
<1>6. ASSUME NEW w \in Workers, RequireApproval(w) PROVE Admission'
  <2>1. GovTables' /\ Kept /\ UNCHANGED admitted
    BY <1>0, <1>6, ReceiptAdded DEF RequireApproval
  <2>2. Moves(w, {"idle"})
    BY <1>0, <1>6, AnswerMoves DEF RequireApproval
  <2>3. Passes'
    BY <1>0, <1>1, <2>1, <2>2, PassesElsewhere
  <2> QED BY <2>1, <2>3 DEF Admission
<1> QED BY <1>2, <1>3, <1>4, <1>5, <1>6, AdmissionAdmin DEF GovNext

\* A receipt or a decision lets at most one operation through, the one it is for, and a
\* receipt is spent then, however requests with the same token and the administrators
\* interleave (AdmittedOnce; Enforce, ConsumeApprovalReceiptByTokenHash).
THEOREM PassSpentOnce == Spec => []AdmittedOnce
<1>1. Init => Admission
  <2> SUFFICES ASSUME Init PROVE Admission
    OBVIOUS
  <2>1. PICK start \in Scenarios : FlowInit(start.kinds, start.earlier) /\ GovInit(start)
    BY DEF Init
  <2>2. (\A w \in Workers : pc[w] = "idle") /\ admitted = <<>>
    BY <2>1 DEF FlowInit, GovInit
  <2>3. Passes
    BY <2>2 DEF Passes, Carrying
  <2>4. receipts = start.receipts /\ decisions = start.decisions
    BY <2>1 DEF GovInit
  <2>5. /\ List(start.receipts) /\ List(start.decisions)
        /\ \A n \in DOMAIN start.receipts : IsReceipt(start.receipts[n])
    BY PlatformAssumption DEF List
  <2>6. List(admitted)
    BY <2>2 DEF List
  <2> QED BY <2>3, <2>4, <2>5, <2>6 DEF Admission, GovTables
<1>2. Flow /\ Admission /\ [Next]_vars => Admission'
  <2> SUFFICES ASSUME Flow, Admission, [Next]_vars PROVE Admission'
    OBVIOUS
  <2>0. Locals
    BY DEF Flow
  <2>1. CASE UNCHANGED <<pc, req, copy, ruled>>
    <3>1. UNCHANGED <<pc, req, copy, admitted, receipts, decisions>>
      BY <2>1 DEF ruled
    <3>2. Passes'
      BY <3>1, KeptUnchanged, PassesStay DEF Admission
    <3> QED BY <3>1, <3>2 DEF Admission, GovTables, List, IsReceipt
  <2>2. ASSUME NEW w \in Workers, NEW S, Moves(w, S), S \intersect GovernedSteps = {},
               UNCHANGED ruled
        PROVE  Admission'
    <3>1. S \intersect Carrying = {} /\ UNCHANGED <<receipts, decisions, admitted>>
      BY <2>2 DEF GovernedSteps, ruled
    <3> QED BY <2>2, <3>1, AdmissionElsewhere
  <2> QED BY <2>0, <2>1, <2>2, GovernedCases, AdmissionGov, AdmissionAsks, AdmissionCarries
<1>3. Admission => AdmittedOnce
  <2> SUFFICES ASSUME Admission, NEW i \in DOMAIN admitted
               PROVE  LET pass == admitted[i].pass
                          r    == admitted[i].request
                      IN  /\ pass.by = "receipt" =>
                               /\ receipts[pass.n].state = "consumed"
                               /\ receipts[pass.n].user = r.user
                               /\ receipts[pass.n].type = r.type
                               /\ receipts[pass.n].on = r.on /\ receipts[pass.n].cap = r.cap
                          /\ pass.by = "decision" => /\ decisions[pass.n].decision = "allow"
                                                     /\ decisions[pass.n].request = r
                          /\ pass.by \in {"receipt", "decision"} =>
                               \A j \in DOMAIN admitted \ {i} : admitted[j].pass # pass
    BY DEF AdmittedOnce
  <2>1. Backed(admitted[i].pass, admitted[i].request, receipts, decisions)
    BY DEF Admission, Passes
  <2>2. \A j \in DOMAIN admitted \ {i} :
          ~ Spends(admitted[i].pass) \/ admitted[i].pass # admitted[j].pass
    BY DEF Admission, Passes
  <2> QED BY <2>1, <2>2 DEF Backed, Spends
<1> QED BY <1>1, <1>2, <1>3, FlowHolds, PTL DEF Spec
-----------------------------------------------------------------------------
(* Reports about invocations. *)

IsInvocation(row) == row = [user |-> row.user, id |-> row.id, status |-> row.status]

\* The reports that settle the status of invocation n, and what the last one says.
Conclusive(n) == {i \in DOMAIN reports : reports[i].on = n /\ reports[i].word # "partial"}

Verdict(n) ==
  IF Conclusive(n) = {} THEN "created"
  ELSE reports[CHOOSE i \in Conclusive(n) : \A j \in Conclusive(n) : j <= i].word

UsageTables ==
  /\ List(invocations) /\ List(reports) /\ List(ledger) /\ Len(ledger) = Len(reports)
  /\ \A n \in DOMAIN invocations : IsInvocation(invocations[n])
  /\ \A i \in DOMAIN reports : reports[i].on \in DOMAIN invocations
  /\ \A i, j \in DOMAIN reports :
       reports[i].on = reports[j].on /\ reports[i].id = reports[j].id => i = j
  /\ \A n \in DOMAIN invocations :
       <<"invocation", n>> \notin stale => invocations[n].status = Verdict(n)

\* A request with a report has read the invocation it is about.
Reports(w) ==
  pc[w] \in ReportSteps => req[w].ref \in DOMAIN invocations /\ IsInvocation(copy[w])

Usage == UsageTables /\ \A w \in Workers : Reports(w)

\* The last of some reports is one of them.
LEMMA LastReport ==
  ASSUME List(reports), NEW C, C \subseteq DOMAIN reports, C # {}
  PROVE  (CHOOSE i \in C : \A j \in C : j <= i) \in C
<1>1. DOMAIN reports = 1 .. Len(reports) /\ Len(reports) \in Nat
  BY ListAppend
<1>2. \E i \in C : \A j \in C : j <= i
  BY <1>1, Greatest
<1> QED BY <1>2

\* The verdict on an invocation stays with the reports that settle it.
LEMMA VerdictKept ==
  ASSUME List(reports), NEW n, Conclusive(n)' = Conclusive(n),
         \A i \in DOMAIN reports : reports'[i] = reports[i]
  PROVE  Verdict(n)' = Verdict(n)
<1>1. CASE Conclusive(n) = {}
  BY <1>1 DEF Verdict
<1>2. CASE Conclusive(n) # {}
  <2> DEFINE C == Conclusive(n)
             c == CHOOSE i \in C : \A j \in C : j <= i
  <2>1. c \in DOMAIN reports
    BY <1>2, LastReport DEF Conclusive
  <2>2. Verdict(n) = reports[c].word
    BY <1>2 DEF Verdict
  <2>3. Verdict(n)' = reports'[c].word
    BY <1>2 DEF Verdict
  <2> QED BY <2>1, <2>2, <2>3
<1> QED BY <1>1, <1>2

\* The steps of other requests leave the reports alone.
LEMMA UsageElsewhere ==
  ASSUME Usage, UNCHANGED <<invocations, reports, ledger>>,
         \/ UNCHANGED <<pc, req, copy, stale>>
         \/ \E w \in Workers : \E S : Moves(w, S) /\ S \intersect ReportSteps = {}
  PROVE  Usage'
<1>1. stale \subseteq stale'
  BY DEF Moves
<1>2. \A n : Verdict(n)' = Verdict(n)
  BY DEF Verdict, Conclusive
<1>3. UsageTables'
  BY <1>1, <1>2 DEF Usage, UsageTables, List, IsInvocation
<1>4. CASE UNCHANGED <<pc, req, copy, stale>>
  BY <1>3, <1>4 DEF Usage, Reports, IsInvocation
<1>5. ASSUME NEW w \in Workers, NEW S, Moves(w, S), S \intersect ReportSteps = {} PROVE Usage'
  <2>1. pc'[w] \notin ReportSteps
    BY <1>5 DEF Moves
  <2>2. \A v \in Workers \ {w} : pc'[v] = pc[v] /\ req'[v] = req[v] /\ copy'[v] = copy[v]
    BY <1>5 DEF Moves
  <2> QED BY <1>3, <2>1, <2>2 DEF Usage, Reports, IsInvocation
<1> QED BY <1>4, <1>5

LEMMA UsageReads ==
  ASSUME Usage, Locals, NEW w \in Workers, BeginReport(w) \/ GetReportByClientID(w)
  PROVE  Usage'
<1>0. UNCHANGED <<invocations, reports, ledger>>
  BY Zenon DEF BeginReport, GetReportByClientID, sageVars, usage
<1>1. /\ \E S : Moves(w, S)
      /\ Reports(w)'
  <2>1. CASE BeginReport(w)
    <3>1. PICK n \in DOMAIN invocations, c \in ClientIds, word \in {"completed", "failed", "partial"} :
            BeginRead(w, [Request EXCEPT !.op = "report", !.ref = n, !.n = c, !.word = word],
                      invocations[n], "reported")
      BY <2>1, Zenon DEF BeginReport
    <3> DEFINE r == [Request EXCEPT !.op = "report", !.ref = n, !.n = c, !.word = word]
    <3>2. r.ref = n
      BY DEF Request
    <3> HIDE DEF r
    <3>3. Moves(w, {"reported"}) /\ req'[w] = r /\ copy'[w] = invocations[n]
      BY <3>1, BeginReadMoves DEF r
    <3>4. Reports(w)'
      BY <1>0, <3>2, <3>3 DEF Reports, Usage, UsageTables, IsInvocation
    <3> QED BY <3>3, <3>4
  <2>2. CASE GetReportByClientID(w)
    <3>1. Answer(w) \/ (Goto(w, "report") /\ pc[w] = "reported")
      BY <2>2 DEF GetReportByClientID
    <3>2. CASE Answer(w)
      <4>1. Moves(w, {"idle"}) /\ pc'[w] = "idle"
        BY <3>2, AnswerMoves
      <4> QED BY <4>1 DEF Reports, ReportSteps
    <3>3. CASE Goto(w, "report") /\ pc[w] = "reported"
      <4>1. Moves(w, {"report"}) /\ req' = req /\ copy' = copy
        BY <3>3, GotoMoves
      <4> QED BY <1>0, <3>3, <4>1 DEF Reports, ReportSteps, Usage, IsInvocation
    <3> QED BY <3>1, <3>2, <3>3
  <2> QED BY <2>1, <2>2
<1>2. stale \subseteq stale'
      /\ \A v \in Workers \ {w} : pc'[v] = pc[v] /\ req'[v] = req[v] /\ copy'[v] = copy[v]
  BY <1>1 DEF Moves
<1>3. \A n : Verdict(n)' = Verdict(n)
  BY <1>0 DEF Verdict, Conclusive
<1>4. UsageTables'
  BY <1>0, <1>2, <1>3 DEF Usage, UsageTables, List, IsInvocation
<1> QED BY <1>0, <1>1, <1>2, <1>4 DEF Usage, Reports, IsInvocation

\* A new invocation has no report.
LEMMA UsageInvokes ==
  ASSUME Usage, Locals, NEW w \in Workers, CreateInvocation(w)
  PROVE  Usage'
<1>0. UNCHANGED <<reports, ledger>> /\ Moves(w, {"idle"})
  BY AnswerMoves DEF CreateInvocation
<1>1. CASE UNCHANGED invocations
  BY <1>0, <1>1, UsageElsewhere DEF ReportSteps
<1>2. ASSUME NEW row, IsInvocation(row), row.status = "created",
             invocations' = Append(invocations, row)
      PROVE  Usage'
  <2>1. /\ List(invocations') /\ Len(invocations) \in Nat
        /\ DOMAIN invocations = 1 .. Len(invocations)
        /\ DOMAIN invocations' = 1 .. Len(invocations) + 1
        /\ \A n \in DOMAIN invocations : invocations'[n] = invocations[n]
        /\ invocations'[Len(invocations) + 1] = row
    BY <1>2, ListAppend DEF Usage, UsageTables
  <2>2. \A n : Conclusive(n)' = Conclusive(n) /\ Verdict(n)' = Verdict(n)
    BY <1>0 DEF Verdict, Conclusive
  <2>3. Conclusive(Len(invocations) + 1) = {}
    BY <2>1 DEF Usage, UsageTables, Conclusive
  <2>4. stale \subseteq stale'
        /\ \A v \in Workers \ {w} : pc'[v] = pc[v] /\ req'[v] = req[v] /\ copy'[v] = copy[v]
    BY <1>0 DEF Moves
  <2>5. ASSUME NEW n \in DOMAIN invocations'
        PROVE  /\ IsInvocation(invocations'[n])
               /\ <<"invocation", n>> \notin stale' => invocations'[n].status = Verdict(n)'
    <3>1. CASE n \in DOMAIN invocations
      BY <2>1, <2>2, <2>4, <3>1 DEF Usage, UsageTables
    <3>2. CASE n = Len(invocations) + 1
      BY <1>2, <2>1, <2>2, <2>3, <3>2 DEF Verdict
    <3> QED BY <2>1, <3>1, <3>2
  <2>6. DOMAIN invocations \subseteq DOMAIN invocations'
    BY <2>1
  <2>7. UsageTables'
    <3>1. /\ List(reports') /\ List(ledger') /\ Len(ledger') = Len(reports')
          /\ \A i, j \in DOMAIN reports' :
               reports'[i].on = reports'[j].on /\ reports'[i].id = reports'[j].id => i = j
      BY <1>0 DEF Usage, UsageTables
    <3>2. \A i \in DOMAIN reports' : reports'[i].on \in DOMAIN invocations'
      BY <1>0, <2>6 DEF Usage, UsageTables
    <3> QED BY <2>1, <2>5, <3>1, <3>2 DEF UsageTables, List, IsInvocation
  <2>8. pc'[w] \notin ReportSteps
    BY <1>0 DEF Moves, ReportSteps
  <2>9. ASSUME NEW v \in Workers PROVE Reports(v)'
    BY <2>4, <2>6, <2>8 DEF Usage, Reports, IsInvocation
  <2> QED BY <2>7, <2>9 DEF Usage
<1>3. UNCHANGED invocations \/ \E row : /\ IsInvocation(row) /\ row.status = "created"
                                        /\ invocations' = Append(invocations, row)
  <2> DEFINE new == [user |-> req[w].user, id |-> req[w].n, status |-> "created"]
  <2>1. IsInvocation(new) /\ new.status = "created"
    BY DEF IsInvocation
  <2>2. UNCHANGED invocations \/ invocations' = Append(invocations, new)
    BY DEF CreateInvocation
  <2> HIDE DEF new
  <2> QED BY <2>1, <2>2
<1> QED BY <1>1, <1>2, <1>3

\* The report, the status it gives and the usage are one transaction.
LEMMA UsageReports ==
  ASSUME Usage, Locals, NEW w \in Workers, SubmitReport(w)
  PROVE  Usage'
<1>0. Moves(w, {"idle"})
  BY SaveThenMoves, AnswerMoves DEF SubmitReport
<1>1. CASE UNCHANGED <<invocations, reports, ledger>>
  BY <1>0, <1>1, UsageElsewhere DEF ReportSteps
<1>2. CASE ~ Reported(req[w].ref, req[w].n)
  <2>0. PICK k : k = req[w].ref
    OBVIOUS
  <2> DEFINE new == [on |-> k, id |-> req[w].n, word |-> req[w].word]
             use == [on |-> k, id |-> req[w].n]
             row == IF req[w].word = "partial" THEN copy[w]
                    ELSE [copy[w] EXCEPT !.status = req[w].word]
             m   == Len(reports) + 1
  <2>1. /\ reports' = Append(reports, new) /\ ledger' = Append(ledger, use)
        /\ invocations' = [invocations EXCEPT ![k] = row]
        /\ stale' = IF invocations[k] # copy[w] THEN stale \union {<<"invocation", k>>} ELSE stale
    BY <1>2, <2>0 DEF SubmitReport, SaveThen
  <2>2. k \in DOMAIN invocations /\ IsInvocation(copy[w])
    BY <2>0 DEF SubmitReport, Usage, Reports, ReportSteps
  <2>3. /\ IsInvocation(row)
        /\ req[w].word = "partial" => row = copy[w]
        /\ req[w].word # "partial" => row.status = req[w].word
    <3> DEFINE c == copy[w]
    <3>1. c = [user |-> c.user, id |-> c.id, status |-> c.status]
      BY <2>2 DEF IsInvocation
    <3> HIDE DEF c
    <3>2. \A x : /\ IsInvocation([c EXCEPT !.status = x]) /\ [c EXCEPT !.status = x].status = x
      BY <3>1 DEF IsInvocation
    <3> QED BY <2>2, <3>2 DEF c
  <2>4. new.on = k /\ new.id = req[w].n /\ new.word = req[w].word
    OBVIOUS
  <2> HIDE DEF new, use, row
  <2>5. /\ List(reports') /\ Len(reports) \in Nat /\ Len(reports') = m
        /\ DOMAIN reports = 1 .. Len(reports) /\ DOMAIN reports' = 1 .. m
        /\ \A i \in DOMAIN reports : reports'[i] = reports[i]
        /\ reports'[m] = new
    BY <2>1, ListAppend DEF Usage, UsageTables
  <2>6. List(ledger') /\ Len(ledger') = Len(reports')
    BY <2>1, <2>5, ListAppend DEF Usage, UsageTables
  <2>7. /\ List(invocations') /\ DOMAIN invocations' = DOMAIN invocations
        /\ invocations'[k] = row
        /\ \A n \in DOMAIN invocations : n # k => invocations'[n] = invocations[n]
    BY <2>1, <2>2, RowReplaced DEF Usage, UsageTables
  <2>8. \A i \in DOMAIN reports' : i \in DOMAIN reports \/ i = m
    BY <2>5
  <2>9. ASSUME NEW i \in DOMAIN reports', NEW j \in DOMAIN reports',
               reports'[i].on = reports'[j].on, reports'[i].id = reports'[j].id
        PROVE  i = j
    <3>1. \A x \in DOMAIN reports : ~ (reports[x].on = k /\ reports[x].id = req[w].n)
      BY <1>2, <2>0 DEF Reported
    <3>2. CASE i \in DOMAIN reports /\ j \in DOMAIN reports
      BY <2>5, <2>9, <3>2 DEF Usage, UsageTables
    <3>3. CASE i = m /\ j \in DOMAIN reports
      BY <2>4, <2>5, <2>9, <3>1, <3>3
    <3>4. CASE i \in DOMAIN reports /\ j = m
      BY <2>4, <2>5, <2>9, <3>1, <3>4
    <3> QED BY <2>8, <3>2, <3>3, <3>4
  <2>10. \A i \in DOMAIN reports' : reports'[i].on \in DOMAIN invocations'
    BY <2>2, <2>4, <2>5, <2>7, <2>8 DEF Usage, UsageTables
  <2>11. \A n \in DOMAIN invocations' : IsInvocation(invocations'[n])
    BY <2>3, <2>7 DEF Usage, UsageTables
  <2>12. ASSUME NEW n, n # k \/ req[w].word = "partial" PROVE Verdict(n)' = Verdict(n)
    <3>1. Conclusive(n)' = Conclusive(n)
      BY <2>4, <2>5, <2>8, <2>12 DEF Conclusive
    <3> QED BY <2>5, <3>1, VerdictKept DEF Usage, UsageTables
  <2>13. ASSUME req[w].word # "partial" PROVE Verdict(k)' = req[w].word
    <3> DEFINE C == Conclusive(k)'
    <3>1. m \in C /\ \A j \in C : j <= m /\ j \in Nat
      <4>1. C = {i \in DOMAIN reports' : reports'[i].on = k /\ reports'[i].word # "partial"}
        BY DEF Conclusive
      <4>2. m \in DOMAIN reports' /\ \A j \in DOMAIN reports' : j <= m /\ j \in Nat
        BY <2>5
      <4> QED BY <2>4, <2>5, <2>13, <4>1, <4>2
    <3>2. \A i \in C : (\A j \in C : j <= i) => i = m
      BY <2>5, <3>1
    <3>3. (CHOOSE i \in C : \A j \in C : j <= i) = m
      BY <3>1, <3>2
    <3>4. Verdict(k)' = reports'[m].word
      BY <3>1, <3>3 DEF Verdict
    <3> QED BY <2>4, <2>5, <3>4
  <2>14. ASSUME NEW n \in DOMAIN invocations', <<"invocation", n>> \notin stale'
         PROVE  invocations'[n].status = Verdict(n)'
    <3>1. n \in DOMAIN invocations /\ <<"invocation", n>> \notin stale
      BY <2>1, <2>7, <2>14
    <3>2. invocations[n].status = Verdict(n)
      BY <3>1 DEF Usage, UsageTables
    <3>3. CASE n # k
      BY <2>7, <2>12, <3>1, <3>2, <3>3
    <3>4. CASE n = k /\ req[w].word # "partial"
      BY <2>3, <2>7, <2>13, <3>4
    <3>5. CASE n = k /\ req[w].word = "partial"
      <4>1. invocations[k] = copy[w]
        BY <2>1, <2>14, <3>5
      <4> QED BY <2>3, <2>7, <2>12, <3>2, <3>5, <4>1
    <3> QED BY <3>3, <3>4, <3>5
  <2>15. UsageTables'
    BY <2>5, <2>6, <2>7, <2>9, <2>10, <2>11, <2>14 DEF UsageTables, List, IsInvocation
  <2>16. /\ pc'[w] \notin ReportSteps
         /\ \A v \in Workers \ {w} : pc'[v] = pc[v] /\ req'[v] = req[v] /\ copy'[v] = copy[v]
    BY <1>0 DEF Moves, ReportSteps
  <2>17. ASSUME NEW v \in Workers PROVE Reports(v)'
    BY <2>7, <2>16 DEF Usage, Reports, IsInvocation
  <2> QED BY <2>15, <2>17 DEF Usage
<1> QED BY <1>1, <1>2 DEF SubmitReport, usage

\* Nothing else writes the invocations, the reports or the usage.
LEMMA UsageApart ==
  ASSUME SageNext
  PROVE  \/ UNCHANGED <<invocations, reports, ledger>>
         \/ \E w \in Workers : CreateInvocation(w) \/ SubmitReport(w)
<1>1. ASSUME NEW w \in Workers,
             \/ CreatePlugin(w) \/ BeginSubmitVersion(w) \/ RequireActiveOwnedAsset(w)
             \/ SubmitVersion(w) \/ ScanManifest(w) \/ BeginReview(w) \/ ReadVersion(w)
             \/ ReviewPlugin(w) \/ BeginSuspend(w) \/ SuspendPlugin(w)
      PROVE  UNCHANGED <<invocations, reports, ledger>>
  BY <1>1, Zenon DEF CreatePlugin, BeginSubmitVersion, RequireActiveOwnedAsset, SubmitVersion,
              ScanManifest, BeginReview, ReadVersion, ReviewPlugin, BeginSuspend,
              SuspendPlugin, sageVars, usage
<1>2. ASSUME NEW w \in Workers,
             \/ BeginInstall(w) \/ GetInstallation(w) \/ InstallPlugin(w) \/ ReinstallPlugin(w)
             \/ BeginSetStatus(w) \/ SetInstallationStatus(w) \/ BeginRevokeGrant(w)
             \/ RevokeGrant(w) \/ RecordPluginSync(w) \/ BeginReport(w) \/ GetReportByClientID(w)
      PROVE  UNCHANGED <<invocations, reports, ledger>>
  BY <1>2, Zenon DEF BeginInstall, GetInstallation, InstallPlugin, ReinstallPlugin, BeginSetStatus,
              SetInstallationStatus, SaveInstallation, BeginRevokeGrant, RevokeGrant,
              RecordPluginSync, BeginReport, GetReportByClientID, sageVars, usage
<1>3. ASSUME NEW w \in Workers,
             \/ BeginGrant(w) \/ ConsumeConfirmation(w) \/ GetGrant(w) \/ CreateGrant(w)
             \/ SaveGrant(w)
      PROVE  UNCHANGED <<invocations, reports, ledger>>
  <2>1. CASE BeginGrant(w)
    BY <2>1 DEF BeginGrant, sageVars, usage
  <2>2. CASE ConsumeConfirmation(w) \/ GetGrant(w) \/ CreateGrant(w) \/ SaveGrant(w)
    BY <2>2 DEF ConsumeConfirmation, GetGrant, CreateGrant, SaveGrant, sageVars, usage
  <2> QED BY <1>3, <2>1, <2>2
<1>4. ASSUME NEW w \in Workers,
             \/ BeginInvocation(w) \/ RequireActiveInstallation(w)
             \/ GetInvocationByClientRequest(w)
      PROVE  UNCHANGED <<invocations, reports, ledger>>
  BY <1>4, Zenon DEF BeginInvocation, RequireActiveInstallation, GetInvocationByClientRequest,
              sageVars, usage
<1> QED BY <1>1, <1>2, <1>3, <1>4 DEF SageNext

LEMMA UsageStep == Flow /\ Usage /\ [Next]_vars => Usage'
<1> SUFFICES ASSUME Flow, Usage, [Next]_vars PROVE Usage'
  OBVIOUS
<1>0. Locals
  BY DEF Flow
<1>1. ASSUME NEW w \in Workers, NEW S, Moves(w, S), S \intersect ReportSteps = {},
             UNCHANGED sageVars
      PROVE  Usage'
  BY <1>1, UsageElsewhere DEF sageVars, usage
<1>2. UNCHANGED <<pc, req, copy, stale>> /\ UNCHANGED sageVars => Usage'
  BY UsageElsewhere DEF sageVars, usage
<1>3. /\ GovSteps \intersect ReportSteps = {} /\ ObjSteps \intersect ReportSteps = {}
      /\ HubSteps \intersect ReportSteps = {} /\ SetSteps \intersect ReportSteps = {}
      /\ BillSteps \intersect ReportSteps = {} /\ ChatSteps \intersect ReportSteps = {}
      /\ AuditSteps \intersect ReportSteps = {} /\ AskSteps \intersect ReportSteps = {}
      /\ CarrySteps \intersect ReportSteps = {} /\ {"idle"} \intersect ReportSteps = {}
      /\ (SageSteps \ ReportSteps) \intersect ReportSteps = {}
  BY DEF GovSteps, Thens, ObjSteps, HubSteps, SetSteps, BillSteps, ChatSteps, AuditSteps,
         AskSteps, CarrySteps, ReportSteps
<1>4. CASE UNCHANGED vars
  BY <1>2, <1>4 DEF vars, flow
<1>5. CASE GovNext /\ UNCHANGED sageVars
  BY <1>0, <1>1, <1>2, <1>3, <1>5, GovMoves
<1>6. CASE ObjNext /\ UNCHANGED sageVars
  BY <1>0, <1>1, <1>2, <1>3, <1>6, ObjMoves, AskMoves, CarryMoves
<1>7. CASE SageNext
  <2>1. CASE UNCHANGED <<invocations, reports, ledger>>
    <3>1. ASSUME NEW w \in Workers, NEW S, Moves(w, S), S \intersect ReportSteps = {}
          PROVE  Usage'
      BY <2>1, <3>1, UsageElsewhere
    <3> QED BY <1>0, <1>3, <1>7, <3>1, ServiceMoves, AskMoves, CarryMoves, UsageReads,
               UsageReports
  <2> QED BY <1>0, <1>7, <2>1, UsageApart, UsageInvokes, UsageReports
<1>8. CASE AuditNext /\ UNCHANGED sageVars
  BY <1>0, <1>1, <1>3, <1>8, AuditMoves
<1>9. CASE HubNext /\ UNCHANGED sageVars
  BY <1>0, <1>1, <1>3, <1>9, HubMoves
<1>10. CASE SetNext /\ UNCHANGED sageVars
  BY <1>0, <1>1, <1>3, <1>10, SetMoves
<1>11. CASE BillNext /\ UNCHANGED sageVars
  BY <1>0, <1>1, <1>2, <1>3, <1>11, BillMoves
<1>12. CASE ChatNext /\ UNCHANGED sageVars
  BY <1>0, <1>1, <1>3, <1>12, ChatMoves
<1>13. CASE \E w \in Workers : Abandon(w) /\ UNCHANGED sageVars
  BY <1>0, <1>1, <1>3, <1>13, AbandonMoves
<1> QED BY <1>4, <1>5, <1>6, <1>7, <1>8, <1>9, <1>10, <1>11, <1>12, <1>13 DEF Next

\* Every report is stored and counted once, and unless its row was saved from an old copy
\* an invocation has the status of its last conclusive report, for any number of reports
\* that come at the same time (ReportsAccounted; SubmitReport).
THEOREM ReportsCounted == Spec => []ReportsAccounted
<1>1. Init => Usage
  <2> SUFFICES ASSUME Init PROVE Usage
    OBVIOUS
  <2>1. PICK start \in Scenarios : FlowInit(start.kinds, start.earlier) /\ SageInit(start)
    BY DEF Init
  <2>2. \A w \in Workers : pc[w] = "idle"
    BY <2>1 DEF FlowInit
  <2> DEFINE row == [user |-> CHOOSE u \in start.installed : TRUE, id |-> 0, status |-> "created"]
  <2>3. IsInvocation(row) /\ row.status = "created"
    BY DEF IsInvocation
  <2>4. start.invoked \in Nat /\ invocations = [n \in 1 .. start.invoked |-> row]
    BY <2>1, PlatformAssumption DEF SageInit
  <2> HIDE DEF row
  <2>5. reports = <<>> /\ ledger = <<>>
    BY <2>1 DEF SageInit
  <2>6. List(reports) /\ List(ledger) /\ DOMAIN reports = {} /\ Len(ledger) = Len(reports)
    BY <2>5 DEF List
  <2>7. List(invocations)
    <3>1. invocations \in [1 .. start.invoked -> {row}]
      BY <2>4
    <3>2. invocations \in Seq({row})
      BY <2>4, <3>1, FunctionIsSequence
    <3>3. \A t : t \in Seq({row}) => t \in Seq({t[i] : i \in DOMAIN t})
      OBVIOUS
    <3> QED BY <3>2, <3>3 DEF List
  <2>8. \A n : Verdict(n) = "created"
    BY <2>6 DEF Verdict, Conclusive
  <2> QED BY <2>2, <2>3, <2>4, <2>6, <2>7, <2>8 DEF Usage, UsageTables, Reports, ReportSteps
<1>2. Usage => ReportsAccounted
  <2> SUFFICES ASSUME Usage PROVE ReportsAccounted
    OBVIOUS
  <2>1. ASSUME NEW n \in DOMAIN invocations, <<"invocation", n>> \notin stale
        PROVE  invocations[n].status = Verdict(n)
    BY <2>1 DEF Usage, UsageTables
  <2> QED BY <2>1 DEF Usage, UsageTables, ReportsAccounted, Verdict, Conclusive
<1>3. Flow /\ Usage /\ [Next]_vars => Usage'
  BY UsageStep
<1> QED BY <1>1, <1>2, <1>3, FlowHolds, PTL DEF Spec
-----------------------------------------------------------------------------
(* The ratings of the skill. *)

\* A row of the skill has these fields.
IsSkill(s) == s = [f \in DOMAIN NewSkill |-> s[f]]

\* What a rating transaction has counted, from the ratings that it saw.
Counts(seen, r) == [seen  |-> seen,
                    count |-> Count([seen EXCEPT ![r.user] = r.n]),
                    sum   |-> Sum([seen EXCEPT ![r.user] = r.n])]

\* The steps of requests that have read the skill, or rate it.
RateSteps == {"asset", "release", "takedown", "rate", "aggregate"}

\* A copy of the skill is a row that there was; only a skill that there is is rated.
Rates(w) ==
  /\ pc[w] \in {"asset", "release", "takedown"} => IsSkill(copy[w]) /\ copy[w].status # "none"
  /\ pc[w] \in {"rate", "aggregate"} => skill.status # "none"
  /\ pc[w] = "aggregate" => copy[w] = Counts(copy[w].seen, req[w])

\* The aggregate is true, and before there is a skill it is that of no rating.
Rating ==
  /\ IsSkill(skill)
  /\ skill.status = "none" => skill.count = 0 /\ skill.sum = 0
  /\ AggregateTrue
  /\ \A w \in Workers : Rates(w)

\* The ratings of nobody.
LEMMA NoRatings ==
  ASSUME NEW rated, rated = [u \in Raters |-> 0]
  PROVE  Count(rated) = 0 /\ Sum(rated) = 0
<1>1. {u \in Raters : rated[u] # 0} = {}
  OBVIOUS
<1>2. Count(rated) = 0
  <2>1. Count(rated) = Cardinality({u \in Raters : rated[u] # 0})
    BY Zenon DEF Count, Rated
  <2>2. Cardinality({}) = 0
    BY FS_EmptySet, Zenon
  <2> QED BY <1>1, <2>1, <2>2, Zenon
<1>3. Sum(rated) = Sets!MapThenFoldSet(+, 0, LAMBDA u : rated[u], LAMBDA s : CHOOSE x \in s : TRUE, {})
  <2>1. Sum(rated) = Sets!MapThenSumSet(LAMBDA u : rated[u], {})
    BY <1>1 DEF Sum, Rated
  <2>2. Sets!MapThenSumSet(LAMBDA u : rated[u], {})
          = Sets!MapThenFoldSet(+, 0, LAMBDA u : rated[u], LAMBDA s : CHOOSE x \in s : TRUE, {})
    BY Zenon DEF Sets!MapThenSumSet
  <2> QED BY <2>1, <2>2, Zenon
<1> DEFINE pick(s) == CHOOSE x \in s : TRUE
           fold(f) == [s \in SUBSET {} |-> IF s = {} THEN 0
                                           ELSE rated[pick(s)] + f[s \ {pick(s)}]]
           iter == CHOOSE f : f = fold(f)
<1>4. Sets!MapThenFoldSet(+, 0, LAMBDA u : rated[u], LAMBDA s : CHOOSE x \in s : TRUE, {}) = iter[{}]
  BY DEF Sets!MapThenFoldSet
<1>5. \E f : f = fold(f)
  <2> DEFINE g == [s \in SUBSET {} |-> 0]
  <2>1. \A s \in SUBSET {} : s = {}
    OBVIOUS
  <2>2. g = fold(g)
    BY <2>1
  <2> QED BY <2>2
<1>6. iter = fold(iter)
  BY <1>5, Zenon
<1>7. {} \in SUBSET {}
  OBVIOUS
<1> HIDE DEF iter
<1>8. iter[{}] = 0
  BY <1>6, <1>7
<1> QED BY <1>2, <1>3, <1>4, <1>8, Zenon

\* The other services leave the skill alone, and their requests rate nothing.
LEMMA RatingElsewhere ==
  ASSUME Rating, UNCHANGED <<skill, ratings>>,
         \/ UNCHANGED <<pc, req, copy, stale>>
         \/ \E w \in Workers : \E S : Moves(w, S) /\ S \intersect RateSteps = {}
  PROVE  Rating'
<1>1. stale \subseteq stale'
  BY DEF Moves
<1>2. AggregateTrue'
  BY <1>1 DEF Rating, AggregateTrue
<1>3. \A w \in Workers : Rates(w)'
  BY DEF Rating, Rates, Moves, RateSteps
<1> QED BY <1>2, <1>3 DEF Rating

\* A request that has gone on to a step where it has not read the skill.
LEMMA NotRating ==
  ASSUME NEW w \in Workers, pc'[w] \notin RateSteps
  PROVE  Rates(w)'
BY DEF Rates, RateSteps

\* The other requests, while there is still a skill if there was one.
LEMMA RatesKept ==
  ASSUME Rating, NEW w \in Workers, NEW S, Moves(w, S),
         skill.status # "none" => skill'.status # "none"
  PROVE  \A v \in Workers \ {w} : Rates(v)'
BY DEF Rating, Rates, Moves

\* A request that moves on, reads the skill or the ratings, without a write.
LEMMA RatingReads ==
  ASSUME Locals, Rating, NEW w \in Workers,
         ReadSkill(w) \/ RequireSkillAsset(w) \/ BeginRate(w) \/ UpsertRating(w)
  PROVE  Rating'
<1>0. {"idle", "takedown", "asset", "release", "rate", "aggregate"} \subseteq HubSteps
  BY DEF HubSteps
<1>1. UNCHANGED <<skill, ratings>>
  BY Zenon DEF ReadSkill, RequireSkillAsset, BeginRate, UpsertRating, hubVars
<1>2. stale' = stale /\ IsSkill(skill) /\ Rates(w)
  BY Zenon DEF Rating, ReadSkill, RequireSkillAsset, BeginRate, UpsertRating, Answer, Keep, Goto,
               Begin
<1>3. CASE ReadSkill(w)
  <2>1. ASSUME Answer(w) PROVE Moves(w, HubSteps) /\ Rates(w)'
    BY <1>0, <2>1, AnswerMoves, NotRating DEF RateSteps
  <2>2. ASSUME NEW step \in {"takedown", "asset", "release"}, Keep(w, skill, step),
               skill.status # "none"
        PROVE  Moves(w, HubSteps) /\ Rates(w)'
    BY <1>0, <1>1, <1>2, <2>2, KeepMoves DEF Rates
  <2>3. Moves(w, HubSteps) /\ Rates(w)'
    BY <1>3, <2>1, <2>2 DEF ReadSkill
  <2> QED BY <1>1, <1>2, <2>3, RatesKept DEF Rating, AggregateTrue
<1>4. CASE RequireSkillAsset(w)
  <2>1. Moves(w, HubSteps) /\ Rates(w)'
    <3>1. CASE Answer(w)
      BY <1>0, <3>1, AnswerMoves, NotRating DEF RateSteps
    <3>2. CASE Goto(w, "release") /\ pc[w] = "asset"
      <4>1. Moves(w, HubSteps) /\ pc'[w] = "release" /\ copy' = copy
        BY <1>0, <3>2, GotoMoves
      <4> QED BY <1>2, <3>2, <4>1 DEF Rates
    <3> QED BY <1>4, <3>1, <3>2 DEF RequireSkillAsset
  <2> QED BY <1>1, <1>2, <2>1, RatesKept DEF Rating, AggregateTrue
<1>5. CASE BeginRate(w)
  <2>1. Moves(w, HubSteps) /\ pc'[w] = "rate" /\ skill.status = "published"
    BY <1>0, <1>5, BeginMoves, Zenon DEF BeginRate, GetPublishedSkillByKey
  <2>2. Rates(w)'
    BY <1>1, <2>1 DEF Rates
  <2> QED BY <1>1, <1>2, <2>1, <2>2, RatesKept DEF Rating, AggregateTrue
<1>6. CASE UpsertRating(w)
  <2>1. pc[w] = "rate" /\ Keep(w, Counts(ratings, req[w]), "aggregate")
    BY <1>6 DEF UpsertRating, Counts
  <2>2. /\ Moves(w, HubSteps) /\ pc'[w] = "aggregate" /\ req' = req
        /\ copy'[w] = Counts(ratings, req[w])
    BY <1>0, <2>1, KeepMoves
  <2>3. copy'[w] = Counts(copy'[w].seen, req'[w])
    BY <2>2 DEF Counts
  <2>4. Rates(w)'
    BY <1>1, <1>2, <2>1, <2>2, <2>3 DEF Rates, Counts
  <2> QED BY <1>1, <1>2, <2>2, <2>4, RatesKept DEF Rating, AggregateTrue
<1> QED BY <1>3, <1>4, <1>5, <1>6

\* The row of the skill is written, with the aggregate that it had, or is marked.
LEMMA RowSaved ==
  ASSUME Rating, NEW w \in Workers, NEW S, Moves(w, S), pc'[w] \notin RateSteps,
         ratings' = ratings, IsSkill(skill'), skill'.status # "none",
         <<"skill">> \notin stale' => skill'.count = skill.count /\ skill'.sum = skill.sum
  PROVE  Rating'
<1>1. AggregateTrue'
  BY DEF Rating, AggregateTrue, Moves
<1> QED BY <1>1, NotRating, RatesKept DEF Rating

\* The row is created, changed by its publisher, taken down, or its downloads counted.
LEMMA RatingSaves ==
  ASSUME Locals, Rating, NEW w \in Workers,
         \/ CreateSkill(w) \/ SubmitSkillVersion(w) \/ TakedownSkill(w)
         \/ IncrementDownloadCount(w)
  PROVE  Rating'
<1>0. {"idle", "audit", "announce", "announce-new"} \subseteq HubSteps
  BY DEF HubSteps
<1>1. ratings' = ratings /\ IsSkill(skill) /\ Rates(w)
  BY DEF Rating, CreateSkill, SubmitSkillVersion, TakedownSkill, IncrementDownloadCount
<1>2. ASSUME Answer(w), skill' = skill PROVE Rating'
  <2>1. Moves(w, {"idle"})
    BY <1>2, AnswerMoves
  <2>2. {"idle"} \intersect RateSteps = {}
    BY DEF RateSteps
  <2> QED BY <1>1, <1>2, <2>1, <2>2, RatingElsewhere
<1>3. CASE CreateSkill(w)
  <2>1. CASE Answer(w) /\ UNCHANGED skill
    BY <1>2, <2>1
  <2>2. CASE skill.status = "none" /\ skill' = NewSkill /\ Goto(w, "audit")
    <3>1. Moves(w, HubSteps) /\ pc'[w] = "audit" /\ stale' = stale
      BY <1>0, <2>2, GotoMoves DEF Goto
    <3>2. IsSkill(skill') /\ skill'.status = "draft" /\ skill'.count = 0 /\ skill'.sum = 0
      BY <2>2 DEF IsSkill, NewSkill
    <3>3. skill.count = 0 /\ skill.sum = 0
      BY <2>2 DEF Rating
    <3> QED BY <1>1, <3>1, <3>2, <3>3, RowSaved DEF RateSteps
  <2> QED BY <1>3, <2>1, <2>2 DEF CreateSkill
<1>4. CASE SubmitSkillVersion(w)
  <2>1. CASE Answer(w) /\ UNCHANGED <<skill, releases>>
    BY <1>2, <2>1
  <2>2. ASSUME NEW step \in {"audit", "idle"},
               SaveThen(w, step, <<"skill">>, skill # copy[w]),
               \/ skill' = [copy[w] EXCEPT !.latest = req[w].n, !.published = req[w].n,
                                           !.status = "published", !.public = TRUE]
               \/ skill' = [copy[w] EXCEPT !.latest = req[w].n]
        PROVE  Rating'
    <3>1. IsSkill(copy[w]) /\ copy[w].status # "none"
      BY <1>1, <1>4 DEF Rates, SubmitSkillVersion
    <3>2. Moves(w, HubSteps) /\ pc'[w] = step
      BY <1>0, <2>2, SaveThenMoves
    <3>3. <<"skill">> \notin stale' => skill = copy[w]
      BY <2>2 DEF SaveThen
    <3>4. /\ IsSkill(skill') /\ skill'.status # "none"
          /\ skill'.count = copy[w].count /\ skill'.sum = copy[w].sum
      BY <2>2, <3>1 DEF IsSkill, NewSkill
    <3> QED BY <1>1, <3>2, <3>3, <3>4, RowSaved DEF RateSteps
  <2> QED BY <1>4, <2>1, <2>2 DEF SubmitSkillVersion
<1>5. CASE TakedownSkill(w)
  <2>1. IsSkill(copy[w])
    BY <1>1, <1>5 DEF Rates, TakedownSkill
  <2>2. /\ SaveThen(w, "audit", <<"skill">>, skill # copy[w])
        /\ skill' = [copy[w] EXCEPT !.status = "suspended", !.public = FALSE]
    BY <1>5 DEF TakedownSkill
  <2>3. Moves(w, HubSteps) /\ pc'[w] = "audit"
    BY <1>0, <2>2, SaveThenMoves
  <2>4. <<"skill">> \notin stale' => skill = copy[w]
    BY <2>2 DEF SaveThen
  <2>5. /\ IsSkill(skill') /\ skill'.status # "none"
        /\ skill'.count = copy[w].count /\ skill'.sum = copy[w].sum
    BY <2>1, <2>2 DEF IsSkill, NewSkill
  <2> QED BY <1>1, <2>3, <2>4, <2>5, RowSaved DEF RateSteps
<1>6. CASE IncrementDownloadCount(w)
  <2>1. Moves(w, HubSteps) /\ pc'[w] \in {"announce", "announce-new"} /\ stale' = stale
    BY <1>0, <1>6, GotoMoves DEF IncrementDownloadCount, Goto
  <2>2. /\ IsSkill(skill') /\ skill'.status = skill.status
        /\ skill'.count = skill.count /\ skill'.sum = skill.sum
    BY <1>1, <1>6 DEF IncrementDownloadCount, IsSkill, NewSkill
  <2>3. Rates(w)'
    BY <2>1, NotRating DEF RateSteps
  <2>4. \A v \in Workers \ {w} : Rates(v)'
    BY <2>1, <2>2, RatesKept
  <2> QED BY <1>1, <2>1, <2>2, <2>3, <2>4 DEF Rating, AggregateTrue
<1> QED BY <1>3, <1>4, <1>5, <1>6

\* A rating that has counted what is there now writes the truth; else the row is marked.
LEMMA RatingWrites ==
  ASSUME Locals, Rating, NEW w \in Workers, RecalculateSkillRatingAggregate(w)
  PROVE  Rating'
<1>1. CASE Answer(w) /\ UNCHANGED <<skill, ratings>>
  <2>1. Moves(w, {"idle"})
    BY <1>1, AnswerMoves
  <2>2. {"idle"} \intersect RateSteps = {}
    BY DEF RateSteps
  <2> QED BY <1>1, <2>1, <2>2, RatingElsewhere
<1>2. CASE /\ ratings' = [ratings EXCEPT ![req[w].user] = req[w].n]
           /\ skill' = [skill EXCEPT !.count = copy[w].count, !.sum = copy[w].sum]
           /\ SaveThen(w, "idle", <<"skill">>, ratings # copy[w].seen)
  <2>1. /\ IsSkill(skill) /\ skill.status # "none"
        /\ copy[w] = Counts(copy[w].seen, req[w])
    BY DEF Rating, Rates, RecalculateSkillRatingAggregate
  <2>2. Moves(w, HubSteps) /\ pc'[w] = "idle"
    BY <1>2, SaveThenMoves DEF HubSteps
  <2>3. /\ IsSkill(skill') /\ skill'.status # "none"
        /\ skill'.count = copy[w].count /\ skill'.sum = copy[w].sum
    BY <1>2, <2>1 DEF IsSkill, NewSkill
  <2>4. AggregateTrue'
    <3> SUFFICES ASSUME <<"skill">> \notin stale'
                 PROVE  skill'.count = Count(ratings') /\ skill'.sum = Sum(ratings')
      BY DEF AggregateTrue
    <3>1. ratings = copy[w].seen
      BY <1>2 DEF SaveThen
    <3>2. copy[w].count = Count(ratings') /\ copy[w].sum = Sum(ratings')
      BY <1>2, <2>1, <3>1 DEF Counts
    <3> QED BY <2>3, <3>2
  <2>5. Rates(w)'
    BY <2>2, NotRating DEF RateSteps
  <2>6. \A v \in Workers \ {w} : Rates(v)'
    BY <2>2, <2>3, RatesKept
  <2> QED BY <2>3, <2>4, <2>5, <2>6 DEF Rating
<1> QED BY <1>1, <1>2 DEF RecalculateSkillRatingAggregate

\* The other steps of the skill hub neither write nor read the skill.
LEMMA RatingApart ==
  ASSUME Locals, HubNext
  PROVE  \/ \E w \in Workers :
              \/ ReadSkill(w) \/ RequireSkillAsset(w) \/ BeginRate(w) \/ UpsertRating(w)
              \/ CreateSkill(w) \/ SubmitSkillVersion(w) \/ TakedownSkill(w)
              \/ IncrementDownloadCount(w) \/ RecalculateSkillRatingAggregate(w)
         \/ /\ UNCHANGED <<skill, ratings>>
            /\ \E w \in Workers : Moves(w, HubSteps \ RateSteps)
<1> DEFINE S == HubSteps \ RateSteps
           Apart(w) == Moves(w, S) /\ UNCHANGED <<skill, ratings>>
<1>0. /\ {"idle", "audit", "new-skill", "skill", "restrict", "lift"} \subseteq S
      /\ {"copy", "new-copy", "save-copy", "download", "download-new", "announce",
          "announce-new", "skill-status", "pin"} \subseteq S
  BY DEF HubSteps, RateSteps
<1> HIDE DEF S
<1>1. ASSUME NEW w \in Workers, BeginCreateSkill(w) PROVE Apart(w)
  BY <1>0, <1>1, BeginMoves DEF BeginCreateSkill, EnsurePublisherAllowed
<1>2. ASSUME NEW w \in Workers, BeginSubmitSkill(w) PROVE Apart(w)
  BY <1>0, <1>2, BeginMoves DEF BeginSubmitSkill, EnsurePublisherAllowed
<1>3. ASSUME NEW w \in Workers, BeginTakedown(w) PROVE Apart(w)
  BY <1>0, <1>3, BeginMoves DEF BeginTakedown, hubVars
<1>4. ASSUME NEW w \in Workers, BeginRestrict(w) PROVE Apart(w)
  BY <1>0, <1>4, BeginMoves DEF BeginRestrict, hubVars
<1>5. ASSUME NEW w \in Workers, BeginLift(w) PROVE Apart(w)
  BY <1>0, <1>5, BeginMoves DEF BeginLift, hubVars
<1>6. ASSUME NEW w \in Workers, BeginInstallSkill(w) PROVE Apart(w)
  BY <1>0, <1>6, BeginMoves DEF BeginInstallSkill, hubVars
<1>7. ASSUME NEW w \in Workers, BeginSkillStatus(w) PROVE Apart(w)
  BY <1>0, <1>7, BeginReadMoves DEF BeginSkillStatus, hubVars
<1>8. ASSUME NEW w \in Workers, BeginUpdateInstallation(w) PROVE Apart(w)
  BY <1>0, <1>8, BeginReadMoves DEF BeginUpdateInstallation, hubVars
<1>9. ASSUME NEW w \in Workers,
             \/ RestrictPublisher(w) \/ LiftPublisherRestriction(w) \/ GetSkillInstallation(w)
             \/ InstallSkill(w) \/ RecordInstallationSync(w)
      PROVE  Apart(w)
  BY <1>0, <1>9, GotoMoves, KeepMoves, AnswerMoves
     DEF RestrictPublisher, LiftPublisherRestriction, GetSkillInstallation, InstallSkill,
         RecordInstallationSync, hubVars
<1>10. ASSUME NEW w \in Workers, NEW row, NEW step \in S, SaveCopy(w, row, step) PROVE Apart(w)
  BY <1>10 DEF SaveCopy, Locals, Moves
<1>11. ASSUME NEW w \in Workers, ReinstallSkill(w) \/ SetSkillStatus(w) \/ UpdateInstallation(w)
       PROVE  Apart(w)
  <2>1. CASE Answer(w) /\ UNCHANGED hubVars
    BY <1>0, <2>1, AnswerMoves DEF hubVars
  <2> QED BY <1>0, <1>10, <1>11, <2>1 DEF ReinstallSkill, SetSkillStatus, UpdateInstallation
<1> QED BY <1>1, <1>2, <1>3, <1>4, <1>5, <1>6, <1>7, <1>8, <1>9, <1>11 DEF HubNext, S

LEMMA RatingStep == Flow /\ Rating /\ [Next]_vars => Rating'
<1> SUFFICES ASSUME Flow, Rating, [Next]_vars PROVE Rating'
  OBVIOUS
<1>0. Locals
  BY DEF Flow
<1>1. ASSUME NEW w \in Workers, NEW S, Moves(w, S), S \intersect RateSteps = {},
             UNCHANGED hubVars
      PROVE  Rating'
  BY <1>1, RatingElsewhere DEF hubVars
<1>2. UNCHANGED <<pc, req, copy, stale>> /\ UNCHANGED hubVars => Rating'
  BY RatingElsewhere DEF hubVars
<1>3. /\ GovSteps \intersect RateSteps = {} /\ ObjSteps \intersect RateSteps = {}
      /\ SageSteps \intersect RateSteps = {} /\ SetSteps \intersect RateSteps = {}
      /\ BillSteps \intersect RateSteps = {} /\ ChatSteps \intersect RateSteps = {}
      /\ AuditSteps \intersect RateSteps = {} /\ AskSteps \intersect RateSteps = {}
      /\ CarrySteps \intersect RateSteps = {} /\ {"idle"} \intersect RateSteps = {}
      /\ (HubSteps \ RateSteps) \intersect RateSteps = {}
  BY DEF GovSteps, Thens, ObjSteps, SageSteps, SetSteps, BillSteps, ChatSteps, AuditSteps,
         AskSteps, CarrySteps, RateSteps
<1>4. CASE UNCHANGED vars
  BY <1>2, <1>4 DEF vars, flow
<1>5. CASE GovNext /\ UNCHANGED hubVars
  BY <1>0, <1>1, <1>2, <1>3, <1>5, GovMoves
<1>6. CASE ObjNext /\ UNCHANGED hubVars
  BY <1>0, <1>1, <1>2, <1>3, <1>6, ObjMoves, AskMoves, CarryMoves
<1>7. CASE SageNext /\ UNCHANGED hubVars
  BY <1>0, <1>1, <1>3, <1>7, SageMoves, AskMoves, CarryMoves
<1>8. CASE AuditNext /\ UNCHANGED hubVars
  BY <1>0, <1>1, <1>3, <1>8, AuditMoves
<1>9. CASE HubNext
  BY <1>0, <1>3, <1>9, RatingApart, RatingElsewhere, RatingReads, RatingSaves, RatingWrites
<1>10. CASE SetNext /\ UNCHANGED hubVars
  BY <1>0, <1>1, <1>3, <1>10, SetMoves
<1>11. CASE BillNext /\ UNCHANGED hubVars
  BY <1>0, <1>1, <1>2, <1>3, <1>11, BillMoves
<1>12. CASE ChatNext /\ UNCHANGED hubVars
  BY <1>0, <1>1, <1>3, <1>12, ChatMoves
<1>13. CASE \E w \in Workers : Abandon(w) /\ UNCHANGED hubVars
  BY <1>0, <1>1, <1>3, <1>13, AbandonMoves
<1> QED BY <1>4, <1>5, <1>6, <1>7, <1>8, <1>9, <1>10, <1>11, <1>12, <1>13 DEF Next

\* The aggregate on the skill's row is that of the ratings there are, through every
\* creation, change, deletion and refusal of a rating, unless two rating transactions
\* overlapped or the row was saved from an old copy (AggregateTrue; RateSkill,
\* DeleteRating, RecalculateSkillRatingAggregate).
THEOREM AggregateHolds == Spec => []AggregateTrue
<1>1. Init => Rating
  <2> SUFFICES ASSUME Init PROVE Rating
    OBVIOUS
  <2>1. PICK start \in Scenarios : FlowInit(start.kinds, start.earlier) /\ SkillInit(start)
    BY DEF Init
  <2>2. \A w \in Workers : pc[w] = "idle"
    BY <2>1 DEF FlowInit
  <2>3. Count(ratings) = 0 /\ Sum(ratings) = 0
    BY <2>1, NoRatings DEF SkillInit
  <2>4. IsSkill(skill) /\ skill.count = 0 /\ skill.sum = 0
    BY <2>1 DEF SkillInit, IsSkill, NewSkill
  <2> QED BY <2>2, <2>3, <2>4 DEF Rating, AggregateTrue, Rates
<1>2. Rating => AggregateTrue
  BY DEF Rating
<1>3. Flow /\ Rating /\ [Next]_vars => Rating'
  BY RatingStep
<1> QED BY <1>1, <1>2, <1>3, FlowHolds, PTL DEF Spec
-----------------------------------------------------------------------------
(* Restricted publishers. *)

\* A request that is on its way to publish a version has been asked for its publisher.
Publishing(w) ==
  \/ pc[w] = "skill" /\ req[w].op # "takedown"
  \/ pc[w] \in {"asset", "release"}

Barred ==
  /\ allowed \in [Workers -> BOOLEAN]
  /\ \A w \in Workers : Publishing(w) => allowed[w]

PublishSteps == {"skill", "asset", "release"}

\* Requests of other services, and those of the skill hub that publish nothing.
LEMMA BarredElsewhere ==
  ASSUME Barred, allowed' = allowed,
         \/ UNCHANGED <<pc, req>>
         \/ \E w \in Workers : \E S : Moves(w, S) /\ S \intersect PublishSteps = {}
  PROVE  Barred'
BY DEF Barred, Publishing, PublishSteps, Moves

\* A step of a request that publishes, if it was asked for or is asked for now.
LEMMA BarredMoves ==
  ASSUME Barred, NEW w \in Workers, NEW S, Moves(w, S), allowed' \in [Workers -> BOOLEAN],
         \A v \in Workers : allowed[v] /\ v # w => allowed'[v],
         Publishing(w)' => allowed'[w]
  PROVE  Barred'
BY DEF Barred, Publishing, Moves

\* Requests ask before they read the skill; a lifted restriction is a moment without one.
LEMMA BarredHub ==
  ASSUME Locals, Barred, HubNext
  PROVE  Barred'
<1> USE DEF PublishSteps
<1> DEFINE S == HubSteps \ PublishSteps
<1>1. /\ {"idle", "audit", "new-skill", "restrict", "lift", "takedown"} \subseteq S
      /\ {"copy", "new-copy", "save-copy", "download", "download-new", "announce", "rate",
          "aggregate", "announce-new", "skill-status", "pin"} \subseteq S
      /\ S \intersect PublishSteps = {} /\ "skill" \in HubSteps
  BY DEF HubSteps
<1> HIDE DEF S
<1>2. ASSUME NEW w \in Workers, NEW r, NEW step \in HubSteps, EnsurePublisherAllowed(w, r, step)
      PROVE  Barred'
  <2>1. Moves(w, HubSteps)
    BY <1>2, BeginMoves DEF EnsurePublisherAllowed
  <2>2. allowed' = [allowed EXCEPT ![w] = TRUE]
    BY <1>2 DEF EnsurePublisherAllowed
  <2> QED BY <2>1, <2>2, BarredMoves DEF Barred
<1>3. ASSUME NEW w \in Workers, BeginCreateSkill(w) \/ BeginSubmitSkill(w) PROVE Barred'
  <2>1. "new-skill" \in HubSteps /\ "skill" \in HubSteps
    BY DEF HubSteps
  <2> QED BY <1>2, <1>3, <2>1, Zenon DEF BeginCreateSkill, BeginSubmitSkill
<1>4. ASSUME NEW w \in Workers, BeginTakedown(w) PROVE Barred'
  <2> DEFINE r == [Request EXCEPT !.op = "takedown"]
  <2>1. r.op = "takedown"
    BY DEF Request
  <2> HIDE DEF r
  <2>2. Moves(w, HubSteps) /\ pc'[w] = "skill" /\ req'[w] = r /\ allowed' = allowed
    BY <1>1, <1>4, BeginMoves DEF BeginTakedown, hubVars, r
  <2> QED BY <2>1, <2>2, BarredMoves DEF Barred, Publishing
<1>5. ASSUME NEW w \in Workers, ReadSkill(w) PROVE Barred'
  <2>1. allowed' = allowed /\ pc[w] = "skill"
    BY <1>5 DEF ReadSkill, hubVars
  <2>2. CASE Answer(w)
    <3>1. Moves(w, S)
      BY <1>1, <2>2, AnswerMoves
    <3> QED BY <1>1, <2>1, <3>1, BarredElsewhere
  <2>3. CASE req[w].op = "takedown" /\ Keep(w, skill, "takedown")
    <3>1. Moves(w, S)
      BY <1>1, <2>3, KeepMoves
    <3> QED BY <1>1, <2>1, <3>1, BarredElsewhere
  <2>4. CASE req[w].op # "takedown" /\ \E step \in {"asset", "release"} : Keep(w, skill, step)
    <3>1. Moves(w, {"asset", "release"})
      BY <2>4, KeepMoves
    <3>2. allowed[w]
      BY <2>1, <2>4 DEF Barred, Publishing
    <3> QED BY <2>1, <3>1, <3>2, BarredMoves DEF Barred
  <2> QED BY <1>5, <2>2, <2>3, <2>4 DEF ReadSkill
<1>6. ASSUME NEW w \in Workers, RequireSkillAsset(w) PROVE Barred'
  <2>1. allowed' = allowed /\ allowed[w]
    BY <1>6 DEF RequireSkillAsset, hubVars, Barred, Publishing
  <2>2. Moves(w, HubSteps)
    <3>1. "idle" \in HubSteps /\ "release" \in HubSteps
      BY DEF HubSteps
    <3> QED BY <1>6, <3>1, GotoMoves, AnswerMoves DEF RequireSkillAsset
  <2> QED BY <2>1, <2>2, BarredMoves DEF Barred
<1>7. ASSUME NEW w \in Workers, LiftPublisherRestriction(w) PROVE Barred'
  <2>1. Moves(w, S)
    BY <1>1, <1>7, GotoMoves, SaveThenMoves, AnswerMoves DEF LiftPublisherRestriction
  <2>2. allowed' = allowed \/ allowed' = [v \in Workers |-> TRUE]
    BY <1>7 DEF LiftPublisherRestriction, hubVars
  <2>3. CASE allowed' = allowed
    BY <1>1, <2>1, <2>3, BarredElsewhere
  <2>4. CASE allowed' = [v \in Workers |-> TRUE]
    BY <2>4 DEF Barred
  <2> QED BY <2>2, <2>3, <2>4
<1> DEFINE Free(w) == Moves(w, S) /\ allowed' = allowed
<1>8. ASSUME NEW w \in Workers,
             BeginRestrict(w) \/ BeginLift(w) \/ BeginRate(w) \/ BeginInstallSkill(w)
               \/ BeginSkillStatus(w) \/ BeginUpdateInstallation(w)
      PROVE  Free(w)
  <2>1. allowed' = allowed
    BY <1>8, Zenon DEF BeginRestrict, BeginLift, BeginRate, BeginInstallSkill, BeginSkillStatus,
                BeginUpdateInstallation, hubVars
  <2>2. ASSUME BeginRestrict(w) \/ BeginLift(w) \/ BeginRate(w) \/ BeginInstallSkill(w)
        PROVE  Moves(w, S)
    BY <1>1, <2>2, BeginMoves, ZenonT(30) DEF BeginRestrict, BeginLift, BeginRate, BeginInstallSkill
  <2>3. BeginSkillStatus(w) => Moves(w, S)
    BY <1>1, BeginReadMoves DEF BeginSkillStatus
  <2>4. BeginUpdateInstallation(w) => Moves(w, S)
    BY <1>1, BeginReadMoves DEF BeginUpdateInstallation
  <2> QED BY <1>8, <2>1, <2>2, <2>3, <2>4
<1>9. ASSUME NEW w \in Workers,
             \/ CreateSkill(w) \/ RestrictPublisher(w) \/ GetSkillInstallation(w)
             \/ InstallSkill(w) \/ RecordInstallationSync(w) \/ UpsertRating(w)
             \/ IncrementDownloadCount(w)
      PROVE  Free(w)
  BY <1>1, <1>9, GotoMoves, KeepMoves, AnswerMoves
     DEF CreateSkill, RestrictPublisher, GetSkillInstallation, InstallSkill,
         RecordInstallationSync, UpsertRating, IncrementDownloadCount, hubVars
<1>10. ASSUME NEW w \in Workers,
              SubmitSkillVersion(w) \/ TakedownSkill(w) \/ RecalculateSkillRatingAggregate(w)
       PROVE  Free(w)
  <2>1. ASSUME NEW step \in {"audit", "idle"}, NEW outdated,
               SaveThen(w, step, <<"skill">>, outdated)
        PROVE  Moves(w, S)
    BY <1>1, <2>1, SaveThenMoves
  <2>2. Answer(w) => Moves(w, S)
    BY <1>1, AnswerMoves
  <2> QED BY <1>10, <2>1, <2>2
          DEF SubmitSkillVersion, TakedownSkill, RecalculateSkillRatingAggregate
<1>11. ASSUME NEW w \in Workers, NEW row, NEW step \in S, SaveCopy(w, row, step) PROVE Free(w)
  BY <1>11 DEF SaveCopy, Locals, Moves
<1>12. ASSUME NEW w \in Workers, ReinstallSkill(w) \/ SetSkillStatus(w) \/ UpdateInstallation(w)
       PROVE  Free(w)
  <2>1. CASE Answer(w) /\ UNCHANGED hubVars
    BY <1>1, <2>1, AnswerMoves DEF hubVars
  <2> QED BY <1>1, <1>11, <1>12, <2>1 DEF ReinstallSkill, SetSkillStatus, UpdateInstallation
<1>13. ASSUME NEW w \in Workers, Free(w) PROVE Barred'
  BY <1>1, <1>13, BarredElsewhere
<1> HIDE DEF Free
<1> QED BY <1>3, <1>4, <1>5, <1>6, <1>7, <1>8, <1>9, <1>10, <1>12, <1>13 DEF HubNext

LEMMA BarredStep == Flow /\ Barred /\ [Next]_vars => Barred'
<1> SUFFICES ASSUME Flow, Barred, [Next]_vars PROVE Barred'
  OBVIOUS
<1>0. Locals
  BY DEF Flow
<1>1. ASSUME NEW w \in Workers, NEW S, Moves(w, S), S \intersect PublishSteps = {},
             UNCHANGED hubVars
      PROVE  Barred'
  BY <1>1, BarredElsewhere DEF hubVars
<1>2. UNCHANGED <<pc, req, copy, stale>> /\ UNCHANGED hubVars => Barred'
  BY BarredElsewhere DEF hubVars
<1>3. /\ GovSteps \intersect PublishSteps = {} /\ ObjSteps \intersect PublishSteps = {}
      /\ SageSteps \intersect PublishSteps = {} /\ SetSteps \intersect PublishSteps = {}
      /\ BillSteps \intersect PublishSteps = {} /\ ChatSteps \intersect PublishSteps = {}
      /\ AuditSteps \intersect PublishSteps = {} /\ AskSteps \intersect PublishSteps = {}
      /\ CarrySteps \intersect PublishSteps = {} /\ {"idle"} \intersect PublishSteps = {}
  BY DEF GovSteps, Thens, ObjSteps, SageSteps, SetSteps, BillSteps, ChatSteps, AuditSteps,
         AskSteps, CarrySteps, PublishSteps
<1>4. CASE UNCHANGED vars
  BY <1>2, <1>4 DEF vars, flow
<1>5. CASE GovNext /\ UNCHANGED hubVars
  BY <1>0, <1>1, <1>2, <1>3, <1>5, GovMoves
<1>6. CASE ObjNext /\ UNCHANGED hubVars
  BY <1>0, <1>1, <1>2, <1>3, <1>6, ObjMoves, AskMoves, CarryMoves
<1>7. CASE SageNext /\ UNCHANGED hubVars
  BY <1>0, <1>1, <1>3, <1>7, SageMoves, AskMoves, CarryMoves
<1>8. CASE AuditNext /\ UNCHANGED hubVars
  BY <1>0, <1>1, <1>3, <1>8, AuditMoves
<1>9. CASE HubNext
  BY <1>0, <1>9, BarredHub
<1>10. CASE SetNext /\ UNCHANGED hubVars
  BY <1>0, <1>1, <1>3, <1>10, SetMoves
<1>11. CASE BillNext /\ UNCHANGED hubVars
  BY <1>0, <1>1, <1>2, <1>3, <1>11, BillMoves
<1>12. CASE ChatNext /\ UNCHANGED hubVars
  BY <1>0, <1>1, <1>3, <1>12, ChatMoves
<1>13. CASE \E w \in Workers : Abandon(w) /\ UNCHANGED hubVars
  BY <1>0, <1>1, <1>3, <1>13, AbandonMoves
<1> QED BY <1>4, <1>5, <1>6, <1>7, <1>8, <1>9, <1>10, <1>11, <1>12, <1>13 DEF Next

\* A version of the skill is published only by a request since whose beginning there was
\* a moment without a restriction of its publisher, whatever is restricted and lifted
\* while it runs (RestrictedStaysOut; ensurePublisherAllowed, SubmitVersion).
THEOREM RestrictionHolds == Spec => RestrictedStaysOut
<1>1. Init => Barred
  <2> SUFFICES ASSUME Init PROVE Barred
    OBVIOUS
  <2>1. PICK start \in Scenarios : FlowInit(start.kinds, start.earlier) /\ SkillInit(start)
    BY DEF Init
  <2>2. \A w \in Workers : pc[w] = "idle"
    BY <2>1 DEF FlowInit
  <2>3. allowed = [w \in Workers |-> FALSE]
    BY <2>1 DEF SkillInit
  <2> QED BY <2>2, <2>3 DEF Barred, Publishing
<1>2. Flow /\ Barred /\ [Next]_vars => Barred'
  BY BarredStep
<1>3. Barred => [\A w \in Workers : pc[w] = "release" /\ releases' # releases /\ pc'[w] # pc[w]
                    => allowed[w]]_<<releases, pc>>
  BY DEF Barred, Publishing
<1> QED BY <1>1, <1>2, <1>3, FlowHolds, PTL DEF Spec, RestrictedStaysOut
-----------------------------------------------------------------------------
(* What the devices are told. *)

\* The row that a request is about, and the user in it.
ForPlugin(r)  == \E u \in Users : r.user = u /\ r.row = <<"plugin", u>>
ForGrant(r)   == \E u \in Users, p \in Permissions : r.user = u /\ r.row = <<"grant", u, p>>
ForSkill(r)   == \E u \in Raters : r.user = u /\ r.row = <<"skill", u>>
ForSetting(r) == \E t \in Tables : r.op = t /\ r.row = <<t>>

Announcing    == {"announce", "announce-new"}
Deferring     == {"confirm", "grant"}
PluginChange  == {"installation", "install", "reinstall", "status"}
GrantChange   == {"confirm", "grant", "new-grant", "save-grant", "revoke"}
SkillChange   == {"copy", "new-copy", "save-copy", "download", "download-new", "skill-status",
                  "pin"}
ContactChange == {"create-contact", "update-contact", "delete-contact"}
ServerChange  == {"add", "update-server", "remove", "erase"}
ReactChange   == {"react", "get-reaction", "unreact"}
UseSteps      == {"account", "open-account", "debit", "earning", "payout", "save-payout",
                  "save-earning"}

\* A request at a step that writes a row of the feed, or is on its way there, has that row.
Fits(step, r) ==
  /\ step \in PluginChange => ForPlugin(r)
  /\ step \in GrantChange \/ (step \in Asking /\ r.then \in Deferring) => ForGrant(r)
  /\ step \in SkillChange \/ (step \in Announcing /\ r.row[1] = "skill") => ForSkill(r)
  /\ step \in {"upsert", "read-back"} => ForSetting(r)
  /\ step \in ContactChange => r.row = Contact
  /\ step \in ServerChange => r.row = Server
  /\ step = "save-conversation" => r.row = ConversationRow
  /\ step \in ReactChange => r.row = Reaction
  /\ step \in UseSteps => r.row = Books

\* A request that still has to tell the devices of the row.
Busy(w, row) == req[w].row = row /\ pc[w] \in Telling

\* A reaction that is gone, which nobody is about to announce, was told to be gone.  Who
\* finds it gone while it reads it back may therefore be silent.
GoneIsTold ==
  reaction = FALSE /\ Reaction \notin untold
    /\ (\A w \in Workers : pc[w] = "announce" => req[w].row # Reaction)
    => feed[Reaction] = FALSE

\* The tables that the feed is about.
Shared ==
  /\ installations = [u \in Users |-> installations[u]]
  /\ grants = [g \in Grants |-> grants[g]]
  /\ copies = [u \in Raters |-> copies[u]]
  /\ setting = [t \in Tables |-> setting[t]]
  /\ reaction \in BOOLEAN
  /\ feed = [row \in Rows |-> feed[row]]

Settled == \A row \in Rows : row \in untold \/ (\E w \in Workers : Busy(w, row))
                             \/ feed[row] = CurrentRow(row)

Telltale == Shared /\ Settled /\ GoneIsTold /\ \A w \in Workers : Fits(pc[w], req[w])

shared == <<installations, grants, copies, contact, server, setting, conversation, reaction,
            lastRead>>

\* The steps at which it matters which row a request is about.
Fitted == PluginChange \union GrantChange \union Asking \union SkillChange \union Announcing
            \union {"upsert", "read-back"} \union ContactChange \union ServerChange
            \union {"save-conversation"} \union ReactChange \union UseSteps

LEMMA FitsElsewhere ==
  ASSUME NEW step, step \notin Fitted, NEW r
  PROVE  Fits(step, r)
BY DEF Fits, Fitted

LEMMA FitsAnywhere ==
  ASSUME NEW r
  PROVE  \A step \in {"idle", "audit", "receipt", "head", "activate"} : Fits(step, r)
BY FitsElsewhere
   DEF Fitted, PluginChange, GrantChange, Asking, SkillChange, Announcing, ContactChange,
       ServerChange, ReactChange, UseSteps

LEMMA RowKinds ==
  ASSUME NEW row \in Rows
  PROVE  \/ \E u \in Users : row = <<"plugin", u>>
         \/ \E u \in Users, p \in Permissions : row = <<"grant", u, p>>
         \/ \E u \in Raters : row = <<"skill", u>>
         \/ \E t \in Tables : row = <<t>>
         \/ row \in {Contact, Server} \union ChatRows
BY DEF Rows, Grants

LEMMA BooksNotTold == Books \notin Rows
<1>1. ASSUME NEW row \in Rows PROVE row[1] # "books"
  BY <1>1, RowKinds DEF Tables, Contact, Server, ChatRows, ConversationRow, Reaction, ReadState
<1>2. Books[1] = "books"
  BY DEF Books
<1> QED BY <1>1, <1>2

\* A row of the feed is one row of its table.
LEMMA RowsApart ==
  ASSUME NEW told,
         \A u \in Users : <<"plugin", u>> # told => installations'[u] = installations[u],
         \A u \in Users, p \in Permissions :
           <<"grant", u, p>> # told => grants'[<<u, p>>] = grants[<<u, p>>],
         \A u \in Raters : <<"skill", u>> # told => copies'[u] = copies[u],
         \A t \in Tables : <<t>> # told => setting'[t] = setting[t],
         told # Contact => contact' = contact, told # Server => server' = server,
         told # ConversationRow => conversation' = conversation,
         told # Reaction => reaction' = reaction, told # ReadState => lastRead' = lastRead
  PROVE  \A row \in Rows \ {told} : CurrentRow(row)' = CurrentRow(row)
<1> SUFFICES ASSUME NEW row \in Rows, row # told PROVE CurrentRow(row)' = CurrentRow(row)
  OBVIOUS
<1>1. CASE \E u \in Users : row = <<"plugin", u>>
  BY <1>1 DEF CurrentRow, SageRow
<1>2. CASE \E u \in Users, p \in Permissions : row = <<"grant", u, p>>
  BY <1>2 DEF CurrentRow, SageRow
<1>3. CASE \E u \in Raters : row = <<"skill", u>>
  BY <1>3 DEF CurrentRow
<1>4. CASE \E t \in Tables : row = <<t>>
  BY <1>4 DEF CurrentRow, SettingRow, Tables, ChatRows, ConversationRow, Reaction, ReadState,
              Contact, Server
<1>5. CASE row \in {Contact, Server}
  BY <1>5 DEF CurrentRow, SettingRow, ChatRows, ConversationRow, Reaction, ReadState,
              Contact, Server
<1>6. CASE row \in ChatRows
  BY <1>6 DEF CurrentRow, ChatRow, ChatRows, ConversationRow, Reaction, ReadState
<1> QED BY <1>1, <1>2, <1>3, <1>4, <1>5, <1>6, RowKinds

LEMMA RowsStay ==
  ASSUME UNCHANGED shared
  PROVE  \A row : CurrentRow(row)' = CurrentRow(row)
BY DEF shared, CurrentRow, SageRow, ChatRow, SettingRow

\* The other requests stay as they are.
LEMMA OthersFit ==
  ASSUME Telltale, NEW w \in Workers, NEW S, Moves(w, S), Fits(pc'[w], req'[w])
  PROVE  \A v \in Workers : Fits(pc'[v], req'[v])
BY DEF Telltale, Moves

\* A step that writes no row of the feed, by a request that has nothing to tell, or whose
\* row is marked as untold.
LEMMA QuietStep ==
  ASSUME Telltale, UNCHANGED <<shared, feed>>, untold \subseteq untold',
         NEW w \in Workers, NEW S, Moves(w, S), Fits(pc'[w], req'[w]),
         pc[w] \in Telling => req[w].row \in untold' \/ req[w].row \notin Rows
  PROVE  Telltale'
<1>1. Shared'
  BY DEF Telltale, Shared, shared
<1>2. Settled'
  <2> SUFFICES ASSUME NEW row \in Rows
               PROVE  row \in untold' \/ (\E v \in Workers : Busy(v, row)')
                        \/ feed'[row] = CurrentRow(row)'
    BY DEF Settled
  <2>1. CASE \E v \in Workers : Busy(v, row)
    <3>1. PICK v \in Workers : Busy(v, row)
      BY <2>1
    <3>2. CASE v = w
      BY <3>1, <3>2 DEF Busy
    <3>3. CASE v # w
      <4>1. Busy(v, row)'
        BY <3>1, <3>3 DEF Busy, Moves
      <4> QED BY <4>1
    <3> QED BY <3>2, <3>3
  <2>2. CASE feed[row] = CurrentRow(row)
    BY <2>2, RowsStay
  <2> QED BY <2>1, <2>2 DEF Telltale, Settled
<1>3. GoneIsTold'
  <2> SUFFICES ASSUME reaction' = FALSE, Reaction \notin untold',
                      \A v \in Workers : pc'[v] = "announce" => req'[v].row # Reaction
               PROVE  feed'[Reaction] = FALSE
    BY DEF GoneIsTold
  <2>1. ASSUME NEW v \in Workers, pc[v] = "announce" PROVE req[v].row # Reaction
    <3>1. Reaction \in Rows
      BY DEF Rows, ChatRows
    <3>2. CASE v = w
      BY <2>1, <3>1, <3>2 DEF Telling
    <3>3. CASE v # w
      BY <2>1, <3>3 DEF Moves
    <3> QED BY <3>2, <3>3
  <2> QED BY <2>1 DEF Telltale, GoneIsTold, shared
<1> QED BY <1>1, <1>2, <1>3, OthersFit DEF Telltale

\* A request writes its row, and has still to tell of it.
LEMMA WriteStep ==
  ASSUME Telltale, Shared', UNCHANGED notice, NEW w \in Workers, NEW S, Moves(w, S),
         pc'[w] \in Telling, Fits(pc'[w], req'[w]), GoneIsTold',
         pc[w] \in Telling => req'[w].row = req[w].row,
         \A row \in Rows \ {req'[w].row} : CurrentRow(row)' = CurrentRow(row)
  PROVE  Telltale'
<1>1. Settled'
  <2> SUFFICES ASSUME NEW row \in Rows
               PROVE  row \in untold' \/ (\E v \in Workers : Busy(v, row)')
                        \/ feed'[row] = CurrentRow(row)'
    BY DEF Settled
  <2>0. UNCHANGED <<feed, untold>>
    BY DEF notice
  <2>1. CASE req'[w].row = row
    <3>1. Busy(w, row)'
      BY <2>1 DEF Busy
    <3> QED BY <3>1
  <2>2. CASE req'[w].row # row
    <3>1. ASSUME NEW v \in Workers, Busy(v, row) PROVE Busy(v, row)'
      BY <2>2, <3>1 DEF Busy, Moves
    <3>2. CASE \E v \in Workers : Busy(v, row)
      BY <3>1, <3>2
    <3>3. CASE feed[row] = CurrentRow(row)
      BY <2>0, <2>2, <3>3
    <3> QED BY <2>0, <3>2, <3>3 DEF Telltale, Settled
  <2> QED BY <2>1, <2>2
<1> QED BY <1>1, OthersFit DEF Telltale

\* A request that tells of its row, or marks it, and still has to tell if that is not
\* what the row is.
LEMMA RowStep ==
  ASSUME Telltale, Shared', NEW w \in Workers, NEW S, Moves(w, S), Fits(pc'[w], req'[w]),
         NEW mine, mine = req[w].row, reaction' = reaction, untold \subseteq untold',
         \A row \in Rows \ {mine} : feed'[row] = feed[row] /\ CurrentRow(row)' = CurrentRow(row),
         mine \in Rows => \/ mine \in untold' \/ feed'[mine] = CurrentRow(mine)'
                          \/ mine # Reaction /\ Busy(w, mine)'
  PROVE  Telltale'
<1>1. Settled'
  <2> SUFFICES ASSUME NEW row \in Rows
               PROVE  row \in untold' \/ (\E v \in Workers : Busy(v, row)')
                        \/ feed'[row] = CurrentRow(row)'
    BY DEF Settled
  <2>1. CASE row = mine
    BY <2>1
  <2>2. CASE row # mine
    <3>1. ASSUME NEW v \in Workers, Busy(v, row) PROVE Busy(v, row)'
      BY <2>2, <3>1 DEF Busy, Moves
    <3>2. CASE \E v \in Workers : Busy(v, row)
      BY <3>1, <3>2
    <3>3. CASE feed[row] = CurrentRow(row)
      BY <2>2, <3>3
    <3> QED BY <3>2, <3>3 DEF Telltale, Settled
  <2> QED BY <2>1, <2>2
<1>2. GoneIsTold'
  <2> SUFFICES ASSUME reaction' = FALSE, Reaction \notin untold',
                      \A v \in Workers : pc'[v] = "announce" => req'[v].row # Reaction
               PROVE  feed'[Reaction] = FALSE
    BY DEF GoneIsTold
  <2>0. Reaction \in Rows
    BY DEF Rows, ChatRows
  <2>1. CASE mine = Reaction
    <3>1. CurrentRow(Reaction)' = reaction'
      BY DEF CurrentRow, ChatRow, ChatRows, ConversationRow, Reaction
    <3> QED BY <2>0, <2>1, <3>1
  <2>2. CASE mine # Reaction
    <3>1. ASSUME NEW v \in Workers, pc[v] = "announce" PROVE req[v].row # Reaction
      BY <2>2, <3>1 DEF Moves
    <3> QED BY <2>0, <2>2, <3>1 DEF Telltale, GoneIsTold
  <2> QED BY <2>1, <2>2
<1> QED BY <1>1, <1>2, OthersFit DEF Telltale

\* The event of a request changes no other row of the feed.
LEMMA Told ==
  ASSUME Telltale, NEW w \in Workers, NEW value, NEW late, Tell(w, value, late),
         NEW mine, mine = req[w].row
  PROVE  /\ untold \subseteq untold' /\ feed' = [row \in Rows |-> feed'[row]]
         /\ \A row \in Rows \ {mine} : feed'[row] = feed[row]
         /\ mine \in Rows => mine \in untold' \/ (feed'[mine] = value /\ ~ late)
BY DEF Tell, Telltale, Shared

\* A request tells what its row is, or the row is marked, and has nothing to tell then.
LEMMA TellStep ==
  ASSUME Locals, Telltale, UNCHANGED shared, NEW w \in Workers,
         Answer(w) \/ Goto(w, "audit"), NEW value, NEW late, Tell(w, value, late),
         NEW mine, mine = req[w].row, mine \in Rows => late \/ value = CurrentRow(mine)
  PROVE  Telltale'
<1>1. Moves(w, {"idle", "audit"}) /\ pc'[w] \in {"idle", "audit"}
  BY AnswerMoves, GotoMoves
<1>2. Fits(pc'[w], req'[w])
  BY <1>1, FitsAnywhere
<1>3. Shared'
  BY Told DEF Telltale, Shared, shared
<1>4. reaction' = reaction /\ \A row : CurrentRow(row)' = CurrentRow(row)
  BY RowsStay DEF shared
<1>5. mine \in Rows => mine \in untold' \/ feed'[mine] = CurrentRow(mine)'
  BY <1>4, Told
<1> QED BY <1>1, <1>2, <1>3, <1>4, <1>5, Told, RowStep

\* Where a request fits, by the row it is about.
LEMMA Fitting ==
  ASSUME NEW r
  PROVE  /\ \A s \in PluginChange : ForPlugin(r) => Fits(s, r)
         /\ \A s \in GrantChange : ForGrant(r) => Fits(s, r)
         /\ \A s \in Asking : (r.then \in Deferring => ForGrant(r)) => Fits(s, r)
         /\ \A s \in SkillChange : ForSkill(r) => Fits(s, r)
         /\ \A s \in Announcing : (r.row[1] = "skill" => ForSkill(r)) => Fits(s, r)
         /\ \A s \in {"upsert", "read-back"} : ForSetting(r) => Fits(s, r)
         /\ \A s \in ContactChange : r.row = Contact => Fits(s, r)
         /\ \A s \in ServerChange : r.row = Server => Fits(s, r)
         /\ r.row = ConversationRow => Fits("save-conversation", r)
         /\ \A s \in ReactChange : r.row = Reaction => Fits(s, r)
         /\ \A s \in UseSteps : r.row = Books => Fits(s, r)
BY DEF Fits, PluginChange, GrantChange, Asking, SkillChange, Announcing, ContactChange,
       ServerChange, ReactChange, UseSteps

\* Requests that begin, are answered, or go on, without a write or a word.
LEMMA QuietBegin ==
  ASSUME Locals, Telltale, UNCHANGED <<shared, notice>>, NEW w \in Workers, NEW r, NEW row,
         NEW step, Begin(w, r, step) \/ BeginRead(w, r, row, step), Fits(step, r)
  PROVE  Telltale'
<1>1. Moves(w, {step}) /\ pc'[w] = step /\ req'[w] = r
  BY BeginMoves, BeginReadMoves
<1>2. pc[w] = "idle" /\ "idle" \notin Telling
  BY DEF Begin, BeginRead, Accepts, Telling
<1> QED BY <1>1, <1>2, QuietStep DEF notice

LEMMA QuietAnswer ==
  ASSUME Locals, Telltale, UNCHANGED <<shared, notice>>, NEW w \in Workers, Answer(w),
         pc[w] \notin Telling \/ req[w].row \notin Rows
  PROVE  Telltale'
<1>1. Moves(w, {"idle"}) /\ pc'[w] = "idle"
  BY AnswerMoves
<1>2. Fits("idle", req'[w])
  BY FitsAnywhere
<1> QED BY <1>1, <1>2, QuietStep DEF notice

LEMMA QuietGoto ==
  ASSUME Locals, Telltale, UNCHANGED <<shared, notice>>, NEW w \in Workers, NEW row, NEW step,
         Goto(w, step) \/ Keep(w, row, step), Fits(step, req[w]),
         pc[w] \notin Telling \/ req[w].row \notin Rows
  PROVE  Telltale'
<1>1. Moves(w, {step}) /\ pc'[w] = step /\ req'[w] = req[w]
  BY GotoMoves, KeepMoves
<1> QED BY <1>1, QuietStep DEF notice

\* A step that has nothing to do with reactions.
LEMMA GoneStays ==
  ASSUME Telltale, UNCHANGED <<notice, reaction>>, NEW w \in Workers, NEW S, Moves(w, S),
         pc[w] # "announce"
  PROVE  GoneIsTold'
<1>1. UNCHANGED <<feed, untold>>
  BY DEF notice
<1>2. ASSUME NEW v \in Workers, pc[v] = "announce" PROVE pc'[v] = "announce" /\ req'[v] = req[v]
  BY <1>2 DEF Moves
<1> QED BY <1>1, <1>2 DEF Telltale, GoneIsTold

\* The table of a row that is neither a plugin's, a skill's nor a conversation's.
LEMMA RowOfSetting ==
  ASSUME NEW row, row[1] \in Tables \union {"server"}
  PROVE  CurrentRow(row) = SettingRow(row)
BY DEF CurrentRow, Tables, ChatRows, ConversationRow, Reaction, ReadState

LEMMA FeedBeginsSetting ==
  ASSUME Locals, Telltale, UNCHANGED <<installations, grants, copies, chatVars>>,
         NEW w \in Workers,
         \/ BeginCreateContact(w) \/ BeginChangeContact(w) \/ BeginAddServer(w)
         \/ BeginUpdateServer(w) \/ BeginRemoveServer(w) \/ BeginSkillSetting(w)
         \/ BeginAgentSetting(w)
  PROVE  Telltale'
<1>0. UNCHANGED <<shared, notice>>
  BY Zenon DEF shared, chatVars, setVars, BeginCreateContact, BeginChangeContact, BeginAddServer,
         BeginUpdateServer, BeginRemoveServer, BeginSkillSetting, BeginAgentSetting
<1>1. ASSUME NEW r, NEW row, NEW step, Begin(w, r, step) \/ BeginRead(w, r, row, step),
             \/ step \in ContactChange /\ r.row = Contact
             \/ step \in ServerChange \union {"announce"} /\ r.row = Server
             \/ step = "upsert" /\ ForSetting(r)
      PROVE  Telltale'
  <2>1. Fits(step, r)
    BY <1>1, Fitting DEF Announcing, Server
  <2> QED BY <1>0, <1>1, <2>1, QuietBegin
<1>2. CASE BeginCreateContact(w)
  <2>1. PICK id \in Ids :
          BeginRead(w, [Request EXCEPT !.op = "contact", !.id = id, !.row = Contact], None,
                    "create-contact")
    BY <1>2, Zenon DEF BeginCreateContact, IdempotentContactReplay
  <2> QED BY <1>1, <2>1 DEF Request, ContactChange
<1>3. CASE BeginChangeContact(w)
  <2>1. PICK id \in Ids, op \in {"update-contact", "delete-contact"} :
          BeginRead(w, [Request EXCEPT !.op = op, !.id = id, !.row = Contact], contact, op)
    BY <1>3, Zenon DEF BeginChangeContact, IdempotentContactReplay
  <2> QED BY <1>1, <2>1 DEF Request, ContactChange
<1>4. CASE BeginAddServer(w)
  <2>1. PICK id \in Ids, v \in Values :
          BeginRead(w, [Request EXCEPT !.op = "server", !.id = id, !.word = v, !.row = Server],
                    IF server = None THEN None ELSE server.value,
                    IF server = None THEN "add" ELSE "announce")
    BY <1>4, Zenon DEF BeginAddServer
  <2> QED BY <1>1, <2>1 DEF Request, ServerChange
<1>5. CASE BeginUpdateServer(w)
  <2>1. PICK id \in Ids, v \in Values :
          BeginRead(w, [Request EXCEPT !.op = "update-server", !.id = id, !.word = v,
                                       !.n = server.id, !.row = Server], None, "update-server")
    BY <1>5, Zenon DEF BeginUpdateServer
  <2> QED BY <1>1, <2>1 DEF Request, ServerChange
<1>6. CASE BeginRemoveServer(w)
  <2>1. PICK id \in Ids :
          Begin(w, [Request EXCEPT !.op = "remove", !.id = id, !.n = server.id, !.row = Server],
                "remove")
    BY <1>6, Zenon DEF BeginRemoveServer
  <2> QED BY <1>1, <2>1 DEF Request, ServerChange
<1>7. CASE BeginSkillSetting(w)
  <2>1. PICK id \in Ids, v \in Values :
          Begin(w, [Request EXCEPT !.op = "skill-setting", !.id = id, !.word = v,
                                   !.row = <<"skill-setting">>], "upsert")
    BY <1>7, Zenon DEF BeginSkillSetting
  <2> QED BY <1>1, <2>1 DEF Request, ForSetting, Tables
<1>8. CASE BeginAgentSetting(w)
  <2>1. PICK id \in Ids, v \in Values :
          Begin(w, [Request EXCEPT !.op = "agent-setting", !.id = id, !.word = v,
                                   !.row = <<"agent-setting">>], "upsert")
    BY <1>8, Zenon DEF BeginAgentSetting
  <2> QED BY <1>1, <2>1 DEF Request, ForSetting, Tables
<1> QED BY <1>2, <1>3, <1>4, <1>5, <1>6, <1>7, <1>8

\* The contact is written and told of at once.
LEMMA FeedContacts ==
  ASSUME Locals, Telltale, UNCHANGED <<installations, grants, copies, chatVars>>,
         NEW w \in Workers, CreateContact(w) \/ UpdateContact(w) \/ DeleteContact(w)
  PROVE  Telltale'
<1>1. req[w].row = Contact /\ pc[w] \notin Telling
  BY DEF Telltale, Fits, ContactChange, Telling, CreateContact, UpdateContact, DeleteContact
<1>2. CASE Answer(w) /\ UNCHANGED <<setVars, notice>>
  <2>1. UNCHANGED shared
    BY <1>2 DEF shared, setVars, chatVars
  <2> QED BY <1>1, <1>2, <2>1, QuietAnswer
<1>3. CASE \E row : CommitContact(w, row)
  <2>1. PICK row : CommitContact(w, row)
    BY <1>3
  <2>2. CASE UNCHANGED <<contact, notice>>
    <3>1. UNCHANGED shared /\ Answer(w)
      BY <2>1, <2>2 DEF shared, chatVars, CommitContact
    <3> QED BY <1>1, <2>2, <3>1, QuietAnswer
  <2>3. CASE contact' = row /\ Tell(w, row, FALSE)
    <3>0. Answer(w) /\ UNCHANGED <<server, setting>>
      BY <2>1 DEF CommitContact
    <3>1. Moves(w, {"idle"}) /\ pc'[w] = "idle"
      BY <3>0, AnswerMoves
    <3>2. Fits(pc'[w], req'[w])
      BY <3>1, FitsAnywhere
    <3>3. Shared'
      BY <3>0, <2>3, Told DEF Telltale, Shared, chatVars
    <3>4. \A other \in Rows \ {Contact} : CurrentRow(other)' = CurrentRow(other)
      BY <3>0, RowsApart DEF chatVars
    <3>5. CurrentRow(Contact)' = row
      BY <2>3 DEF CurrentRow, SettingRow, Contact, Server, ChatRows, ConversationRow, Reaction,
                  ReadState
    <3>6. /\ untold \subseteq untold' /\ \A other \in Rows \ {Contact} : feed'[other] = feed[other]
          /\ Contact \in Rows => Contact \in untold' \/ feed'[Contact] = row
      BY <1>1, <2>3 DEF Tell, Telltale, Shared
    <3>7. reaction' = reaction
      BY DEF chatVars
    <3> QED BY <1>1, <3>1, <3>2, <3>3, <3>4, <3>5, <3>6, <3>7, RowStep
  <2> QED BY <2>1, <2>2, <2>3 DEF CommitContact
<1> QED BY <1>2, <1>3 DEF CreateContact, UpdateContact, DeleteContact

LEMMA FeedServers ==
  ASSUME Locals, Telltale, UNCHANGED <<installations, grants, copies, chatVars>>,
         NEW w \in Workers,
         AddServer(w) \/ UpdateServer(w) \/ RemoveServer(w) \/ DeleteServer(w)
  PROVE  Telltale'
<1>1. req[w].row = Server /\ pc[w] \in ServerChange
  BY DEF Telltale, Fits, ServerChange, AddServer, UpdateServer, RemoveServer, DeleteServer
<1>2. Server \in Rows /\ Server # Reaction
  BY DEF Rows, Server, Reaction
<1>3. ASSUME NEW S, Moves(w, S), pc'[w] = "announce", req' = req,
             UNCHANGED <<contact, setting, notice>>, pc[w] \notin Telling
      PROVE  Telltale'
  <2>1. Shared'
    BY <1>3 DEF Telltale, Shared, chatVars, notice
  <2>2. \A row \in Rows \ {Server} : CurrentRow(row)' = CurrentRow(row)
    BY <1>3, RowsApart DEF chatVars
  <2>3. GoneIsTold'
    BY <1>1, <1>3, GoneStays DEF chatVars, ServerChange
  <2>4. Fits(pc'[w], req'[w])
    BY <1>1, <1>3, Fitting DEF Announcing, Server
  <2> QED BY <1>1, <1>3, <2>1, <2>2, <2>3, <2>4, WriteStep DEF Telling
<1>4. ASSUME Answer(w), UNCHANGED <<contact, server, setting, notice>>, pc[w] \notin Telling
      PROVE  Telltale'
  <2>1. UNCHANGED shared
    BY <1>4 DEF shared, chatVars
  <2> QED BY <1>4, <2>1, QuietAnswer
<1>5. CASE AddServer(w)
  <2>1. pc[w] \notin Telling
    BY <1>5 DEF AddServer, Telling
  <2>2. CASE server # None
    BY <1>4, <1>5, <2>1, <2>2 DEF AddServer
  <2>3. CASE server = None
    <3>1. Keep(w, req[w].word, "announce") /\ UNCHANGED <<contact, setting, notice>>
      BY <1>5, <2>3 DEF AddServer
    <3>2. Moves(w, {"announce"}) /\ pc'[w] = "announce" /\ req' = req
      BY <3>1, KeepMoves
    <3> QED BY <1>3, <2>1, <3>1, <3>2
  <2> QED BY <2>2, <2>3
<1>6. CASE UpdateServer(w)
  <2>1. pc[w] \notin Telling
    BY <1>6 DEF UpdateServer, Telling
  <2>2. CASE server # None /\ server.id # req[w].n
    BY <1>4, <1>6, <2>1, <2>2 DEF UpdateServer
  <2>3. CASE ~ (server # None /\ server.id # req[w].n)
    <3>1. Keep(w, req[w].word, "announce") /\ UNCHANGED <<contact, setting, notice>>
      BY <1>6, <2>3 DEF UpdateServer
    <3>2. Moves(w, {"announce"}) /\ pc'[w] = "announce" /\ req' = req
      BY <3>1, KeepMoves
    <3> QED BY <1>3, <2>1, <3>1, <3>2
  <2> QED BY <2>2, <2>3
<1>7. CASE RemoveServer(w)
  <2>1. Goto(w, "erase") /\ Tell(w, None, FALSE) /\ UNCHANGED shared
    BY <1>7 DEF RemoveServer, shared, setVars, chatVars
  <2>2. Moves(w, {"erase"}) /\ pc'[w] = "erase" /\ req' = req
    BY <2>1, GotoMoves
  <2>3. Fits(pc'[w], req'[w])
    BY <1>1, <2>2, Fitting DEF ServerChange
  <2>4. Busy(w, Server)'
    BY <1>1, <2>2 DEF Busy, Telling
  <2>5. Shared' /\ reaction' = reaction
    BY <2>1, Told DEF Telltale, Shared, shared
  <2>6. untold \subseteq untold' /\ \A row \in Rows \ {Server} : feed'[row] = feed[row]
    BY <1>1, <2>1, Told, ZenonT(30)
  <2>7. \A row : CurrentRow(row)' = CurrentRow(row)
    BY <2>1, RowsStay
  <2> QED BY <1>1, <1>2, <2>2, <2>3, <2>4, <2>5, <2>6, <2>7, RowStep
<1>8. CASE DeleteServer(w)
  <2>1. Answer(w) /\ UNCHANGED <<contact, setting, feed>> /\ untold \subseteq untold'
    BY <1>8 DEF DeleteServer
  <2>2. Moves(w, {"idle"}) /\ pc'[w] = "idle"
    BY <2>1, AnswerMoves
  <2>3. Fits(pc'[w], req'[w])
    BY <2>2, FitsAnywhere
  <2>4. Shared' /\ reaction' = reaction
    BY <2>1 DEF Telltale, Shared, chatVars
  <2>5. \A row \in Rows \ {Server} : CurrentRow(row)' = CurrentRow(row)
    BY <2>1, RowsApart DEF chatVars
  <2>6. CurrentRow(Server)' = SettingRow(Server)'
    <3>1. Server[1] \in Tables \union {"server"}
      BY DEF Server
    <3> QED BY <3>1 DEF CurrentRow, Server, ChatRows, ConversationRow, Reaction, ReadState
  <2>7. Server \in untold' \/ feed'[Server] = CurrentRow(Server)'
    BY <1>8, <2>1, <2>6 DEF DeleteServer
  <2> QED BY <1>1, <2>1, <2>2, <2>3, <2>4, <2>5, <2>7, RowStep
<1> QED BY <1>5, <1>6, <1>7, <1>8

LEMMA FeedSettings ==
  ASSUME Locals, Telltale, UNCHANGED <<installations, grants, copies, chatVars>>,
         NEW w \in Workers, Upsert(w) \/ ReadBack(w) \/ RecordSetting(w)
  PROVE  Telltale'
<1>1. CASE Upsert(w)
  <2>1. PICK t \in Tables : req[w].op = t /\ req[w].row = <<t>>
    BY <1>1 DEF Telltale, Fits, Upsert, ForSetting
  <2>2. Keep(w, None, "read-back") /\ UNCHANGED <<contact, server, notice>>
    BY <1>1 DEF Upsert
  <2>3. Moves(w, {"read-back"}) /\ pc'[w] = "read-back" /\ req' = req
    BY <2>2, KeepMoves
  <2>4. /\ setting' = [s \in Tables |-> setting'[s]]
        /\ \A s \in Tables \ {t} : setting'[s] = setting[s]
    BY <1>1, <2>1 DEF Upsert, Telltale, Shared
  <2>5. Shared'
    BY <2>2, <2>4 DEF Telltale, Shared, chatVars, notice
  <2>6. \A row \in Rows \ {<<t>>} : CurrentRow(row)' = CurrentRow(row)
    BY <2>2, <2>4, RowsApart DEF chatVars
  <2>7. Fits(pc'[w], req'[w])
    BY <2>1, <2>3, Fitting DEF ForSetting
  <2>8. GoneIsTold'
    BY <1>1, <2>2, <2>3, GoneStays DEF chatVars, Upsert
  <2>9. pc[w] \notin Telling /\ pc'[w] \in Telling
    BY <1>1, <2>3 DEF Upsert, Telling
  <2> QED BY <2>1, <2>2, <2>3, <2>5, <2>6, <2>7, <2>8, <2>9, WriteStep
<1>2. CASE ReadBack(w)
  <2>1. PICK t \in Tables : req[w].row = <<t>>
    BY <1>2 DEF Telltale, Fits, ReadBack, ForSetting
  <2>2. Keep(w, setting[req[w].op], "announce") /\ UNCHANGED <<shared, notice>>
    BY <1>2 DEF ReadBack, setVars, shared, chatVars
  <2>3. Moves(w, {"announce"}) /\ pc'[w] = "announce" /\ req' = req
    BY <2>2, KeepMoves
  <2>5. Shared'
    BY <2>2 DEF Telltale, Shared, shared, notice
  <2>7. Fits(pc'[w], req'[w])
    BY <2>1, <2>3, Fitting DEF Announcing, Tables
  <2>8. GoneIsTold'
    BY <1>2, <2>2, <2>3, GoneStays DEF shared, ReadBack
  <2> QED BY <2>2, <2>3, <2>5, <2>7, <2>8, RowsStay, WriteStep DEF Telling
<1>3. CASE RecordSetting(w)
  <2>1. UNCHANGED shared
    BY <1>3 DEF RecordSetting, setVars, shared, chatVars
  <2>2. CurrentRow(req[w].row) = SettingRow(req[w].row)
    BY <1>3, RowOfSetting DEF RecordSetting
  <2>3. Answer(w) /\ Tell(w, copy[w], copy[w] # SettingRow(req[w].row))
    BY <1>3 DEF RecordSetting
  <2> QED BY <2>1, <2>2, <2>3, TellStep
<1> QED BY <1>1, <1>2, <1>3

LEMMA FeedSet ==
  ASSUME Locals, Telltale, SetNext, UNCHANGED <<installations, grants, copies, chatVars>>
  PROVE  Telltale'
BY FeedBeginsSetting, FeedContacts, FeedServers, FeedSettings DEF SetNext

LEMMA RowOfChat ==
  /\ CurrentRow(ConversationRow) = conversation
  /\ CurrentRow(Reaction) = reaction
  /\ CurrentRow(ReadState) = lastRead
BY DEF CurrentRow, ChatRow, ChatRows, ConversationRow, Reaction, ReadState

\* Who reads the reaction back and finds it gone leaves the telling to the one who
\* removed it.
LEMMA FeedGone ==
  ASSUME Locals, Telltale, UNCHANGED <<shared, notice>>, NEW w \in Workers, Answer(w),
         pc[w] = "get-reaction", reaction = FALSE
  PROVE  Telltale'
<1>0. req[w].row = Reaction
  BY DEF Telltale, Fits, ReactChange
<1>1. Moves(w, {"idle"}) /\ pc'[w] = "idle"
  BY AnswerMoves
<1>2. Fits(pc'[w], req'[w])
  BY <1>1, FitsAnywhere
<1>3. Shared' /\ UNCHANGED <<reaction, feed, untold>>
  BY DEF Telltale, Shared, shared, notice
<1>4. \A row : CurrentRow(row)' = CurrentRow(row)
  BY RowsStay
<1>5. CASE \E v \in Workers : pc[v] = "announce" /\ req[v].row = Reaction
  <2>1. PICK v \in Workers : pc[v] = "announce" /\ req[v].row = Reaction
    BY <1>5
  <2>2. pc'[v] = "announce" /\ req'[v].row = Reaction
    BY <1>1, <2>1 DEF Moves
  <2>3. GoneIsTold'
    BY <2>2 DEF GoneIsTold
  <2>4. Settled'
    <3> SUFFICES ASSUME NEW row \in Rows
                 PROVE  row \in untold' \/ (\E u \in Workers : Busy(u, row)')
                          \/ feed'[row] = CurrentRow(row)'
      BY DEF Settled
    <3>1. CASE row = Reaction
      <4>1. Busy(v, row)'
        BY <2>2, <3>1 DEF Busy, Telling
      <4> QED BY <4>1
    <3>2. CASE row # Reaction
      <4>1. ASSUME NEW u \in Workers, Busy(u, row) PROVE Busy(u, row)'
        BY <1>0, <1>1, <3>2, <4>1 DEF Busy, Moves
      <4>2. CASE \E u \in Workers : Busy(u, row)
        BY <4>1, <4>2
      <4>3. CASE feed[row] = CurrentRow(row)
        BY <1>3, <1>4, <4>3
      <4> QED BY <1>3, <4>2, <4>3 DEF Telltale, Settled
    <3> QED BY <3>1, <3>2
  <2> QED BY <1>1, <1>2, <1>3, <2>3, <2>4, OthersFit DEF Telltale
<1>6. CASE \A v \in Workers : pc[v] = "announce" => req[v].row # Reaction
  <2>1. Reaction \in untold' \/ feed'[Reaction] = CurrentRow(Reaction)'
    BY <1>3, <1>4, <1>6, RowOfChat DEF Telltale, GoneIsTold
  <2> QED BY <1>0, <1>1, <1>2, <1>3, <1>4, <2>1, RowStep
<1> QED BY <1>5, <1>6

LEMMA FeedReactions ==
  ASSUME Locals, Telltale, NEW w \in Workers,
         UNCHANGED <<installations, grants, copies, contact, server, setting>>,
         AddReaction(w) \/ GetReaction(w) \/ RemoveReaction(w)
  PROVE  Telltale'
<1>0. req[w].row = Reaction /\ reaction \in BOOLEAN
  BY DEF Telltale, Shared, Fits, ReactChange, AddReaction, GetReaction, RemoveReaction
<1>1. ASSUME NEW S, Moves(w, S), pc'[w] \in {"get-reaction", "announce"}, req' = req,
             UNCHANGED <<conversation, lastRead, notice>>, reaction' \in BOOLEAN, GoneIsTold'
      PROVE  Telltale'
  <2>1. Shared'
    BY <1>1 DEF Telltale, Shared, notice
  <2>2. \A row \in Rows \ {Reaction} : CurrentRow(row)' = CurrentRow(row)
    BY <1>1, RowsApart
  <2>3. Fits(pc'[w], req'[w])
    BY <1>0, <1>1, Fitting DEF ReactChange, Announcing, Reaction
  <2> QED BY <1>0, <1>1, <2>1, <2>2, <2>3, WriteStep DEF Telling
<1>2. CASE AddReaction(w)
  <2>1. CASE reaction
    <3>1. Answer(w) /\ UNCHANGED <<shared, notice>> /\ pc[w] \notin Telling
      BY <1>0, <1>2, <2>1 DEF AddReaction, shared, Telling
    <3> QED BY <3>1, QuietAnswer
  <2>2. CASE ~ reaction
    <3>1. /\ Goto(w, "get-reaction") /\ reaction' = TRUE
          /\ UNCHANGED <<conversation, lastRead, notice>>
      BY <1>2, <2>2 DEF AddReaction
    <3>2. Moves(w, {"get-reaction"}) /\ pc'[w] = "get-reaction" /\ req' = req
      BY <3>1, GotoMoves
    <3>3. GoneIsTold'
      BY <3>1 DEF GoneIsTold
    <3> QED BY <1>1, <3>1, <3>2, <3>3
  <2> QED BY <2>1, <2>2
<1>3. CASE GetReaction(w)
  <2>0. UNCHANGED <<shared, notice>> /\ pc[w] = "get-reaction"
    BY <1>3 DEF GetReaction, chatVars, shared
  <2>1. CASE reaction
    <3>1. Keep(w, TRUE, "announce")
      BY <1>3, <2>1 DEF GetReaction
    <3>2. Moves(w, {"announce"}) /\ pc'[w] = "announce" /\ req' = req
      BY <3>1, KeepMoves
    <3>3. GoneIsTold' /\ reaction' \in BOOLEAN /\ UNCHANGED <<conversation, lastRead>>
      BY <1>0, <2>0, <2>1 DEF GoneIsTold, shared
    <3> QED BY <1>1, <2>0, <3>2, <3>3
  <2>2. CASE ~ reaction
    <3>1. Answer(w) /\ reaction = FALSE
      BY <1>0, <1>3, <2>2 DEF GetReaction
    <3> QED BY <2>0, <3>1, FeedGone
  <2> QED BY <2>1, <2>2
<1>4. CASE RemoveReaction(w)
  <2>1. /\ Keep(w, FALSE, "announce") /\ UNCHANGED <<conversation, lastRead, notice>>
        /\ reaction' \in BOOLEAN
    BY <1>4 DEF RemoveReaction
  <2>2. Moves(w, {"announce"}) /\ pc'[w] = "announce" /\ req' = req
    BY <2>1, KeepMoves
  <2>3. GoneIsTold'
    BY <1>0, <2>2 DEF GoneIsTold
  <2> QED BY <1>1, <2>1, <2>2, <2>3
<1> QED BY <1>2, <1>3, <1>4

LEMMA FeedChat ==
  ASSUME Locals, Telltale, ChatNext,
         UNCHANGED <<installations, grants, copies, contact, server, setting>>
  PROVE  Telltale'
<1>0. PICK w \in Workers :
        \/ BeginUpdateConversation(w) \/ UpdateConversation(w) \/ RecordConversationSyncEvents(w)
        \/ MarkConversationRead(w) \/ RecordConversationReadSyncEvent(w)
        \/ BeginAddReaction(w) \/ AddReaction(w) \/ GetReaction(w) \/ BeginRemoveReaction(w)
        \/ RemoveReaction(w) \/ RecordReactionSyncEvents(w)
  BY DEF ChatNext
<1>1. CASE BeginUpdateConversation(w)
  <2>0. UNCHANGED <<shared, notice>>
    BY <1>1 DEF BeginUpdateConversation, chatVars, shared
  <2>1. PICK field \in Fields, content \in Wordings :
          BeginRead(w, [Request EXCEPT !.op = "retitle", !.type = field, !.word = content,
                                       !.row = ConversationRow], conversation,
                    "save-conversation")
    BY <1>1, Zenon DEF BeginUpdateConversation
  <2>2. Fits("save-conversation", [Request EXCEPT !.op = "retitle", !.type = field,
                                     !.word = content, !.row = ConversationRow])
    <3> DEFINE r == [Request EXCEPT !.op = "retitle", !.type = field, !.word = content,
                                    !.row = ConversationRow]
    <3>1. r.row = ConversationRow
      BY DEF Request
    <3> HIDE DEF r
    <3>2. Fits("save-conversation", r)
      BY <3>1, Fitting
    <3> QED BY <3>2 DEF r
  <2> QED BY <2>0, <2>1, <2>2, QuietBegin
<1>2. CASE UpdateConversation(w)
  <2>0. /\ SaveThen(w, "announce", ConversationRow, conversation # copy[w])
        /\ UNCHANGED <<reaction, lastRead, notice>> /\ pc[w] = "save-conversation"
    BY <1>2 DEF UpdateConversation
  <2>1. Moves(w, {"announce"}) /\ pc'[w] = "announce" /\ req' = req
    BY <2>0, SaveThenMoves
  <2>2. req[w].row = ConversationRow
    BY <2>0 DEF Telltale, Fits
  <2>3. Shared'
    BY <2>0 DEF Telltale, Shared, notice
  <2>4. \A row \in Rows \ {ConversationRow} : CurrentRow(row)' = CurrentRow(row)
    BY <2>0, RowsApart
  <2>5. Fits(pc'[w], req'[w])
    BY <2>1, <2>2, Fitting DEF Announcing, ConversationRow
  <2>6. GoneIsTold'
    BY <2>0, <2>1, GoneStays
  <2> QED BY <2>0, <2>1, <2>2, <2>3, <2>4, <2>5, <2>6, WriteStep DEF Telling
<1>3. CASE RecordConversationSyncEvents(w) \/ RecordConversationReadSyncEvent(w)
           \/ RecordReactionSyncEvents(w)
  <2>0. UNCHANGED shared /\ Answer(w)
    BY <1>3 DEF RecordConversationSyncEvents, RecordConversationReadSyncEvent,
                RecordReactionSyncEvents, shared, chatVars
  <2>1. \E value : Tell(w, value, value # CurrentRow(req[w].row))
    <3>1. CASE RecordConversationSyncEvents(w)
      BY <3>1, RowOfChat DEF RecordConversationSyncEvents
    <3>2. CASE RecordConversationReadSyncEvent(w)
      BY <3>2, RowOfChat DEF RecordConversationReadSyncEvent
    <3>3. CASE RecordReactionSyncEvents(w)
      BY <3>3, RowOfChat DEF RecordReactionSyncEvents
    <3> QED BY <1>3, <3>1, <3>2, <3>3
  <2> QED BY <2>0, <2>1, TellStep
<1>4. CASE MarkConversationRead(w)
  <2>0. PICK m \in Messages :
          BeginRead(w, [Request EXCEPT !.op = "read-state", !.row = ReadState], m, "announce")
    BY <1>4 DEF MarkConversationRead
  <2>1. /\ Moves(w, {"announce"}) /\ pc'[w] = "announce"
        /\ req'[w] = [Request EXCEPT !.op = "read-state", !.row = ReadState]
    BY <2>0, BeginReadMoves
  <2>2. req'[w].row = ReadState
    BY <2>1 DEF Request
  <2>3. pc[w] = "idle" /\ UNCHANGED <<conversation, reaction, notice>>
    BY <1>4, <2>0 DEF MarkConversationRead, BeginRead, Accepts
  <2>4. Shared'
    BY <2>3 DEF Telltale, Shared, notice
  <2>5. \A row \in Rows \ {ReadState} : CurrentRow(row)' = CurrentRow(row)
    BY <2>3, RowsApart
  <2>6. Fits(pc'[w], req'[w])
    <3>1. pc'[w] \in Announcing /\ req'[w].row[1] # "skill"
      BY <2>1, <2>2 DEF Announcing, ReadState
    <3> QED BY <3>1, Fitting
  <2>7. GoneIsTold'
    BY <2>1, <2>3, GoneStays
  <2>8. pc[w] \notin Telling /\ pc'[w] \in Telling
    BY <2>1, <2>3 DEF Telling
  <2> QED BY <2>1, <2>2, <2>3, <2>4, <2>5, <2>6, <2>7, <2>8, WriteStep
<1>5. CASE BeginAddReaction(w) \/ BeginRemoveReaction(w)
  <2>0. UNCHANGED <<shared, notice>>
    BY <1>5 DEF BeginAddReaction, BeginRemoveReaction, chatVars, shared
  <2>1. PICK op, step \in ReactChange : Begin(w, [Request EXCEPT !.op = op, !.row = Reaction], step)
    BY <1>5 DEF BeginAddReaction, BeginRemoveReaction, ReactChange
  <2>2. Fits(step, [Request EXCEPT !.op = op, !.row = Reaction])
    <3> DEFINE r == [Request EXCEPT !.op = op, !.row = Reaction]
    <3>1. r.row = Reaction
      BY DEF Request
    <3> HIDE DEF r
    <3>2. Fits(step, r)
      BY <3>1, Fitting
    <3> QED BY <3>2 DEF r
  <2> QED BY <2>0, <2>1, <2>2, QuietBegin
<1>6. CASE AddReaction(w) \/ GetReaction(w) \/ RemoveReaction(w)
  BY <1>6, FeedReactions
<1> QED BY <1>0, <1>1, <1>2, <1>3, <1>4, <1>5, <1>6

\* A step at which it does not matter which row the request is about.
LEMMA QuietMoves ==
  ASSUME Telltale, UNCHANGED <<shared, notice>>, NEW w \in Workers, NEW S, Moves(w, S),
         S \intersect Fitted = {}, pc[w] \notin Telling \/ req[w].row \notin Rows
  PROVE  Telltale'
<1>1. Fits(pc'[w], req'[w])
  BY FitsElsewhere DEF Moves
<1> QED BY <1>1, QuietStep DEF notice

LEMMA QuietStay ==
  ASSUME Telltale, UNCHANGED <<shared, notice, pc, req>>
  PROVE  Telltale'
<1>1. Shared' /\ GoneIsTold' /\ \A w \in Workers : Fits(pc'[w], req'[w])
  BY DEF Telltale, Shared, GoneIsTold, shared, notice
<1>2. Settled'
  <2>1. \A row : CurrentRow(row)' = CurrentRow(row)
    BY RowsStay
  <2> QED BY <2>1 DEF Telltale, Settled, Busy, notice
<1> QED BY <1>1, <1>2 DEF Telltale

LEMMA FeedPass ==
  ASSUME Locals, Telltale, UNCHANGED <<shared, notice>>, NEW w \in Workers, NEW by, NEW n,
         Pass(w, by, n), Formed(req[w]), pc[w] \in Asking
  PROVE  Telltale'
<1>1. /\ Moves(w, Thens) /\ pc'[w] = req[w].then
      /\ req'[w] = [req[w] EXCEPT !.pass = [by |-> by, n |-> n]]
  BY PassMoves, ZenonT(30)
<1>2. req[w].then \in Thens /\ req'[w].row = req[w].row /\ req'[w].user = req[w].user
  BY <1>1 DEF Formed, Request
<1>3. Fits(pc'[w], req'[w])
  <2>1. CASE req[w].then \in Deferring
    <3>1. ForGrant(req[w])
      BY <2>1 DEF Telltale, Fits
    <3>2. ForGrant(req'[w])
      BY <1>2, <3>1 DEF ForGrant
    <3>3. pc'[w] \in GrantChange
      BY <1>1, <2>1 DEF Deferring, GrantChange
    <3> QED BY <3>2, <3>3, Fitting
  <2>2. CASE req[w].then \notin Deferring
    <3>1. pc'[w] \notin Fitted
      BY <1>1, <1>2, <2>2, Zenon
         DEF Thens, Deferring, Fitted, PluginChange, GrantChange, Asking, SkillChange,
             Announcing, ContactChange, ServerChange, ReactChange, UseSteps
    <3> QED BY <3>1, FitsElsewhere
  <2> QED BY <2>1, <2>2
<1> QED BY <1>1, <1>3, QuietStep DEF Asking, Telling, notice

LEMMA FeedGov ==
  ASSUME Flow, Telltale, GovNext, UNCHANGED <<shared, notice>>
  PROVE  Telltale'
<1>0. Locals
  BY DEF Flow
<1>1. CASE \/ CreateCapability \/ CreatePolicyRule \/ CreateKillSwitch \/ ExpireSwitch
           \/ CreateApprovalReceipt \/ RevokeApprovalReceipt \/ ReissueApprovalReceiptToken
           \/ ExpireReceipt \/ ConsumeApprovalReceipt \/ ResolveScanResult
  <2>1. UNCHANGED <<pc, req>>
    BY <1>1 DEF CreateCapability, CreatePolicyRule, CreateKillSwitch, ExpireSwitch,
                CreateApprovalReceipt, RevokeApprovalReceipt, ReissueApprovalReceiptToken,
                ExpireReceipt, ConsumeApprovalReceipt, ResolveScanResult, Whole, flow
  <2> QED BY <2>1, QuietStay
<1>2. ASSUME NEW w \in Workers, BeginEvaluate(w) PROVE Telltale'
  <2>1. PICK r : Begin(w, [Request EXCEPT !.op = "evaluate", !.user = r.user, !.type = r.type,
                                          !.on = r.on, !.cap = r.cap], "switch")
    BY <1>2, Zenon DEF BeginEvaluate
  <2> DEFINE asked == [Request EXCEPT !.op = "evaluate", !.user = r.user, !.type = r.type,
                                      !.on = r.on, !.cap = r.cap]
  <2>2. Begin(w, asked, "switch") /\ asked.then = ""
    BY <2>1 DEF Request
  <2> HIDE DEF asked
  <2>3. Fits("switch", asked)
    BY <2>2, Fitting, Zenon DEF Asking, Deferring
  <2> QED BY <1>0, <2>2, <2>3, QuietBegin, Zenon
<1>3. ASSUME NEW w \in Workers, pc[w] \in Asking,
             \/ Answer(w) \/ (\E by, n : Pass(w, by, n)) \/ Goto(w, "switch")
             \/ Goto(w, "rules") \/ (\E row : Keep(w, row, "decide") \/ Keep(w, row, "receipt"))
      PROVE  Telltale'
  <2>0. pc[w] \notin Telling /\ Formed(req[w])
    BY <1>3 DEF Asking, Telling, Flow
  <2>1. CASE Answer(w)
    BY <1>0, <2>0, <2>1, QuietAnswer
  <2>2. CASE \E by, n : Pass(w, by, n)
    BY <1>0, <1>3, <2>0, <2>2, FeedPass
  <2>3. ASSUME NEW step \in Asking, NEW row, Goto(w, step) \/ Keep(w, row, step)
        PROVE  Telltale'
    <3>1. Fits(step, req[w])
      BY <1>3, Fitting DEF Telltale, Fits
    <3> QED BY <1>0, <2>0, <2>3, <3>1, QuietGoto
  <2>4. ASSUME NEW row, Keep(w, row, "receipt") PROVE Telltale'
    <3>1. Fits("receipt", req[w])
      BY FitsAnywhere
    <3> QED BY <1>0, <2>0, <2>4, <3>1, QuietGoto
  <2> QED BY <1>3, <2>1, <2>2, <2>3, <2>4 DEF Asking
<1>4. ASSUME NEW w \in Workers,
             \/ Enforce(w) \/ ConsumeForOperation(w) \/ EvaluateSwitch(w) \/ EvaluateRules(w)
             \/ PersistDecision(w)
      PROVE  Telltale'
  <2>1. pc[w] \in Asking
    BY <1>4 DEF Enforce, ConsumeForOperation, EvaluateSwitch, EvaluateRules, PersistDecision,
                Asking
  <2>2. CASE Enforce(w) \/ EvaluateSwitch(w)
    BY <1>3, <2>1, <2>2 DEF Enforce, EvaluateSwitch
  <2>3. CASE ConsumeForOperation(w)
    BY <1>3, <2>1, <2>3 DEF ConsumeForOperation
  <2>4. CASE EvaluateRules(w)
    <3>1. \E row : Keep(w, row, "decide")
      BY <2>4 DEF EvaluateRules
    <3> QED BY <1>3, <2>1, <3>1
  <2>5. CASE PersistDecision(w)
    <3>1. Answer(w) \/ (\E by, n : Pass(w, by, n)) \/ \E row : Keep(w, row, "receipt")
      BY <2>5 DEF PersistDecision
    <3> QED BY <1>3, <2>1, <3>1
  <2> QED BY <1>4, <2>2, <2>3, <2>4, <2>5
<1>5. ASSUME NEW w \in Workers, RequireApproval(w) PROVE Telltale'
  <2>1. Answer(w) /\ pc[w] \notin Telling
    BY <1>5 DEF RequireApproval, Telling
  <2> QED BY <1>0, <2>1, QuietAnswer
<1> QED BY <1>1, <1>2, <1>4, <1>5 DEF GovNext

LEMMA FeedAsks ==
  ASSUME Locals, Telltale, UNCHANGED <<shared, notice>>, NEW w \in Workers, Asks(w)
  PROVE  Telltale'
<1>1. ASSUME NEW r, NEW step \in Asking, Begin(w, r, step), r.then \in Deferring => ForGrant(r)
      PROVE  Telltale'
  <2>1. Fits(step, r)
    BY <1>1, Fitting
  <2> QED BY <1>1, <2>1, QuietBegin
<1>2. CASE BeginUpload(w)
  <2>1. Begin(w, ObjectRequest("upload", "scope", "intent"), "enforce")
    BY <1>2 DEF BeginUpload
  <2>2. ObjectRequest("upload", "scope", "intent").then \notin Deferring
    BY DEF ObjectRequest, Request, Deferring
  <2> QED BY <1>1, <2>1, <2>2 DEF Asking
<1>3. CASE BeginDownload(w)
  <2>1. PICK n \in DOMAIN objects :
          Begin(w, [ObjectRequest("download", ObjectIds[n], "url") EXCEPT
                      !.n = n, !.word = objects[n].status], "enforce")
    BY <1>3, Zenon DEF BeginDownload
  <2>2. [ObjectRequest("download", ObjectIds[n], "url") EXCEPT
           !.n = n, !.word = objects[n].status].then \notin Deferring
    BY DEF ObjectRequest, Request, Deferring
  <2> QED BY <1>1, <2>1, <2>2 DEF Asking
<1>4. CASE BeginDelete(w)
  <2>1. PICK n \in DOMAIN objects :
          Begin(w, [ObjectRequest("delete", ObjectIds[n], "delete") EXCEPT !.n = n], "enforce")
    BY <1>4 DEF BeginDelete
  <2>2. [ObjectRequest("delete", ObjectIds[n], "delete") EXCEPT !.n = n].then \notin Deferring
    BY DEF ObjectRequest, Request, Deferring
  <2> QED BY <1>1, <2>1, <2>2 DEF Asking
<1>5. CASE BeginGrant(w)
  <2>1. PICK u \in Users, p \in Permissions,
             token \in {None} \union {<<n, i>> : n \in DOMAIN receipts, i \in 1 .. MaxIssues} :
          Begin(w, GrantRequest(u, p, token), "enforce")
    BY <1>5 DEF BeginGrant
  <2>2. ForGrant(GrantRequest(u, p, token))
    BY DEF ForGrant, GrantRequest, Request
  <2> QED BY <1>1, <2>1, <2>2 DEF Asking
<1>6. CASE BeginInvocation(w)
  <2>1. PICK u, c, p :
          Begin(w, [Request EXCEPT !.op = "invoke", !.user = u, !.n = c, !.type = "invocation",
                      !.on = Plugin, !.cap = p, !.risk = "medium", !.then = "invoke"], "active")
    BY <1>6, Zenon DEF BeginInvocation
  <2>2. [Request EXCEPT !.op = "invoke", !.user = u, !.n = c, !.type = "invocation",
           !.on = Plugin, !.cap = p, !.risk = "medium", !.then = "invoke"].then \notin Deferring
    BY DEF Request, Deferring
  <2> QED BY <1>1, <2>1, <2>2 DEF Asking
<1>7. CASE RequireActiveInstallation(w) \/ GetInvocationByClientRequest(w)
  <2>0. pc[w] \in Asking /\ pc[w] \notin Telling
    BY <1>7 DEF RequireActiveInstallation, GetInvocationByClientRequest, Asking, Telling
  <2>1. Answer(w) \/ Goto(w, "known") \/ Goto(w, "enforce")
    BY <1>7 DEF RequireActiveInstallation, GetInvocationByClientRequest
  <2>2. CASE Answer(w)
    BY <2>0, <2>2, QuietAnswer
  <2>3. ASSUME NEW step \in Asking, Goto(w, step) PROVE Telltale'
    <3>1. Fits(step, req[w])
      BY <2>0, Fitting DEF Telltale, Fits
    <3> QED BY <2>0, <2>3, <3>1, QuietGoto
  <2> QED BY <2>1, <2>2, <2>3 DEF Asking
<1> QED BY <1>2, <1>3, <1>4, <1>5, <1>6, <1>7 DEF Asks

LEMMA FeedObjects ==
  ASSUME Locals, Telltale, ObjNext, UNCHANGED <<shared, notice>>
  PROVE  Telltale'
<1>1. CASE StoreObject \/ PutContent \/ LapseUpload
  <2>1. UNCHANGED <<pc, req>>
    BY <1>1 DEF StoreObject, PutContent, LapseUpload, Whole, flow
  <2> QED BY <2>1, QuietStay
<1>2. ASSUME NEW w \in Workers, BeginUpload(w) \/ BeginDownload(w) \/ BeginDelete(w)
      PROVE  Telltale'
  BY <1>2, FeedAsks DEF Asks
<1>3. ASSUME NEW w \in Workers, BeginComplete(w) PROVE Telltale'
  <2>1. PICK r : Begin(w, r, "head")
    BY <1>3, Zenon DEF BeginComplete
  <2>2. Fits("head", r)
    BY FitsAnywhere
  <2> QED BY <2>1, <2>2, QuietBegin
<1>4. ASSUME NEW w \in Workers,
             \/ CreateUploadIntent(w) \/ HeadObject(w) \/ MarkActive(w)
             \/ CreateDownloadURL(w) \/ DeleteObject(w)
      PROVE  Telltale'
  <2>0. pc[w] \notin Telling
    BY <1>4, Zenon DEF CreateUploadIntent, HeadObject, MarkActive, CreateDownloadURL, DeleteObject,
                Telling
  <2>1. Answer(w) \/ Goto(w, "activate")
    BY <1>4, Zenon DEF CreateUploadIntent, HeadObject, MarkActive, CreateDownloadURL, DeleteObject
  <2>2. Fits("activate", req[w])
    BY FitsAnywhere
  <2> QED BY <2>0, <2>1, <2>2, QuietAnswer, QuietGoto
<1> QED BY <1>1, <1>2, <1>3, <1>4 DEF ObjNext

LEMMA FeedAudit ==
  ASSUME Locals, Telltale, AuditNext, UNCHANGED <<shared, notice>>
  PROVE  Telltale'
<1>1. AuditSteps \intersect Fitted = {}
  BY DEF AuditSteps, Fitted, PluginChange, GrantChange, Asking, SkillChange, Announcing,
         ContactChange, ServerChange, ReactChange, UseSteps
<1>2. PICK w \in Workers : BeginRecord(w) \/ ReadHead(w) \/ AppendHashChained(w)
  BY DEF AuditNext
<1>3. Moves(w, AuditSteps)
  <2>0. {"idle", "audit", "append"} \subseteq AuditSteps
    BY DEF AuditSteps
  <2> QED BY <1>2, <2>0, BeginMoves, KeepMoves, AnswerMoves
          DEF BeginRecord, ReadHead, AppendHashChained
<1>4. pc[w] \notin Telling
  BY <1>2 DEF BeginRecord, ReadHead, AppendHashChained, Begin, Accepts, Telling
<1> QED BY <1>1, <1>3, <1>4, QuietMoves

LEMMA FeedAbandons ==
  ASSUME Locals, Telltale, UNCHANGED shared, NEW w \in Workers, Abandon(w)
  PROVE  Telltale'
<1>1. Moves(w, {"idle"}) /\ pc'[w] = "idle"
  BY AnswerMoves DEF Abandon
<1>2. Fits(pc'[w], req'[w])
  BY <1>1, FitsAnywhere
<1> QED BY <1>1, <1>2, QuietStep DEF Abandon

\* A request writes its row of a plugin, a grant or a skill, and goes on to tell of it.
LEMMA FeedWrites ==
  ASSUME Telltale, NEW w \in Workers, NEW S, Moves(w, S), req' = req, pc[w] \notin Telling,
         pc'[w] \in Telling, Fits(pc'[w], req[w]), Shared',
         UNCHANGED <<contact, server, setting, conversation, reaction, lastRead, notice>>,
         NEW told, told = req[w].row,
         \A u \in Users : <<"plugin", u>> # told => installations'[u] = installations[u],
         \A u \in Users, p \in Permissions :
           <<"grant", u, p>> # told => grants'[<<u, p>>] = grants[<<u, p>>],
         \A u \in Raters : <<"skill", u>> # told => copies'[u] = copies[u]
  PROVE  Telltale'
<1>1. \A row \in Rows \ {told} : CurrentRow(row)' = CurrentRow(row)
  BY RowsApart
<1>2. GoneIsTold'
  BY GoneStays DEF Telling
<1>3. \A row \in Rows \ {req'[w].row} : CurrentRow(row)' = CurrentRow(row)
  BY <1>1
<1> QED BY <1>2, <1>3, WriteStep

LEMMA FeedCatalogue ==
  ASSUME Locals, Telltale, NEW w \in Workers,
         UNCHANGED <<copies, contact, server, setting, conversation, reaction, lastRead>>,
         \/ CreatePlugin(w) \/ BeginSubmitVersion(w) \/ RequireActiveOwnedAsset(w)
         \/ SubmitVersion(w) \/ ScanManifest(w) \/ BeginReview(w) \/ ReadVersion(w)
         \/ ReviewPlugin(w) \/ BeginSuspend(w) \/ SuspendPlugin(w) \/ CreateInvocation(w)
         \/ BeginReport(w) \/ GetReportByClientID(w) \/ SubmitReport(w)
  PROVE  Telltale'
<1> DEFINE S == {"idle", "audit", "submit", "package", "scan", "reviewed", "review", "suspend",
                 "reported", "report"}
<1>0. /\ "idle" \in S /\ "audit" \in S /\ "submit" \in S /\ "package" \in S /\ "scan" \in S
      /\ "reviewed" \in S /\ "review" \in S /\ "suspend" \in S /\ "reported" \in S
      /\ "report" \in S
  OBVIOUS
<1>1. S \intersect Fitted = {}
  BY DEF Fitted, PluginChange, GrantChange, Asking, SkillChange, Announcing, ContactChange,
         ServerChange, ReactChange, UseSteps
<1> HIDE DEF S
<1>2. UNCHANGED <<shared, notice>>
  <2>1. UNCHANGED <<installations, grants, notice>>
    <3>1. CASE \/ CreatePlugin(w) \/ BeginSubmitVersion(w) \/ RequireActiveOwnedAsset(w)
               \/ SubmitVersion(w) \/ ScanManifest(w) \/ BeginReview(w) \/ ReadVersion(w)
      BY <3>1, Zenon DEF sageVars, CreatePlugin, BeginSubmitVersion, RequireActiveOwnedAsset,
                  SubmitVersion, ScanManifest, BeginReview, ReadVersion
    <3>2. CASE \/ ReviewPlugin(w) \/ BeginSuspend(w) \/ SuspendPlugin(w)
               \/ BeginReport(w) \/ GetReportByClientID(w) \/ SubmitReport(w)
      BY <3>2, Zenon DEF sageVars, ReviewPlugin, BeginSuspend, SuspendPlugin, BeginReport,
                  GetReportByClientID, SubmitReport
    <3>3. CASE CreateInvocation(w)
      BY <3>3 DEF CreateInvocation
    <3> QED BY <3>1, <3>2, <3>3
  <2> QED BY <2>1 DEF shared
<1>3. pc[w] \notin Telling
  BY Zenon DEF CreatePlugin, BeginSubmitVersion, RequireActiveOwnedAsset, SubmitVersion,
         ScanManifest, BeginReview, ReadVersion, ReviewPlugin, BeginSuspend, SuspendPlugin,
         CreateInvocation, BeginReport, GetReportByClientID, SubmitReport, Begin, BeginRead,
         Accepts, Telling
<1>4. Moves(w, S)
  <2>1. CASE CreatePlugin(w)
    BY <1>0, <2>1, BeginMoves DEF CreatePlugin
  <2>2. CASE BeginSubmitVersion(w)
    BY <1>0, <2>2, BeginReadMoves, ZenonT(30) DEF BeginSubmitVersion
  <2>3. CASE BeginReview(w)
    BY <1>0, <2>3, BeginReadMoves, Zenon DEF BeginReview
  <2>4. CASE BeginSuspend(w)
    BY <1>0, <2>4, BeginReadMoves DEF BeginSuspend
  <2>5. CASE RequireActiveOwnedAsset(w) \/ ScanManifest(w) \/ ReadVersion(w)
    BY <1>0, <2>5, GotoMoves, KeepMoves, AnswerMoves
       DEF RequireActiveOwnedAsset, ScanManifest, ReadVersion
  <2>6. CASE SubmitVersion(w) \/ ReviewPlugin(w) \/ SuspendPlugin(w)
    BY <1>0, <2>6, SaveThenMoves, AnswerMoves DEF SubmitVersion, ReviewPlugin, SuspendPlugin
  <2>7. CASE CreateInvocation(w) \/ GetReportByClientID(w)
    BY <1>0, <2>7, AnswerMoves, GotoMoves DEF CreateInvocation, GetReportByClientID
  <2>8. CASE BeginReport(w)
    <3>1. \E r, row : BeginRead(w, r, row, "reported")
      BY <2>8, Zenon DEF BeginReport
    <3> QED BY <1>0, <3>1, BeginReadMoves
  <2>9. CASE SubmitReport(w)
    BY <1>0, <2>9, SaveThenMoves, AnswerMoves DEF SubmitReport
  <2> QED BY <2>1, <2>2, <2>3, <2>4, <2>5, <2>6, <2>7, <2>8, <2>9
<1> QED BY <1>1, <1>2, <1>3, <1>4, QuietMoves

LEMMA FeedInstalls ==
  ASSUME Locals, Telltale, NEW w \in Workers,
         UNCHANGED <<copies, contact, server, setting, conversation, reaction, lastRead>>,
         \/ BeginInstall(w) \/ GetInstallation(w) \/ InstallPlugin(w) \/ ReinstallPlugin(w)
         \/ BeginSetStatus(w) \/ SetInstallationStatus(w)
  PROVE  Telltale'
<1>1. ASSUME NEW r, NEW row, NEW step \in PluginChange,
             Begin(w, r, step) \/ BeginRead(w, r, row, step), ForPlugin(r),
             UNCHANGED <<sageVars, notice>>
      PROVE  Telltale'
  <2>1. Fits(step, r)
    BY <1>1, Fitting
  <2>2. UNCHANGED shared
    BY <1>1 DEF sageVars, shared
  <2> QED BY <1>1, <2>1, <2>2, QuietBegin
<1>2. ASSUME NEW S, Moves(w, S), req' = req, pc'[w] \in Announcing, pc[w] \in PluginChange,
             NEW row, installations' = [installations EXCEPT ![req[w].user] = row],
             UNCHANGED <<grants, notice>>
      PROVE  Telltale'
  <2>1. PICK u \in Users : req[w].user = u /\ req[w].row = <<"plugin", u>>
    BY <1>2 DEF Telltale, Fits, ForPlugin
  <2>2. /\ installations' = [v \in Users |-> installations'[v]]
        /\ \A v \in Users \ {u} : installations'[v] = installations[v]
    BY <1>2, <2>1 DEF Telltale, Shared
  <2>3. Shared'
    BY <1>2, <2>2 DEF Telltale, Shared, notice
  <2>4. Fits(pc'[w], req[w])
    BY <1>2, <2>1, Fitting
  <2>5. \A v \in Users : <<"plugin", v>> # req[w].row => installations'[v] = installations[v]
    BY <2>1, <2>2
  <2>6. pc'[w] \in Telling /\ pc[w] \notin Telling
    BY <1>2 DEF Announcing, PluginChange, Telling
  <2> QED BY <1>2, <2>3, <2>4, <2>5, <2>6, FeedWrites
<1>3. CASE BeginInstall(w)
  <2>1. PICK u \in Users :
          Begin(w, [Request EXCEPT !.op = "install", !.user = u, !.n = plugin.approved,
                                   !.row = <<"plugin", u>>], "installation")
    BY <1>3, Zenon DEF BeginInstall
  <2>2. ForPlugin([Request EXCEPT !.op = "install", !.user = u, !.n = plugin.approved,
                                  !.row = <<"plugin", u>>])
    BY DEF ForPlugin, Request
  <2>3. UNCHANGED <<sageVars, notice>> /\ "installation" \in PluginChange
    BY <1>3, Zenon DEF BeginInstall, PluginChange
  <2> QED BY <1>1, <2>1, <2>2, <2>3
<1>4. CASE BeginSetStatus(w)
  <2>1. PICK u \in Users, status \in {"active", "disabled", "uninstalled"} :
          BeginRead(w, [Request EXCEPT !.op = "status", !.user = u, !.word = status,
                                       !.row = <<"plugin", u>>], installations[u], "status")
    BY <1>4, Zenon DEF BeginSetStatus
  <2>2. ForPlugin([Request EXCEPT !.op = "status", !.user = u, !.word = status,
                                  !.row = <<"plugin", u>>])
    BY DEF ForPlugin, Request
  <2>3. UNCHANGED <<sageVars, notice>> /\ "status" \in PluginChange
    BY <1>4, Zenon DEF BeginSetStatus, PluginChange
  <2> QED BY <1>1, <2>1, <2>2, <2>3
<1>5. CASE GetInstallation(w)
  <2>1. UNCHANGED <<shared, notice>> /\ pc[w] = "installation"
    BY <1>5 DEF GetInstallation, sageVars, shared
  <2>2. pc[w] \notin Telling /\ Fits("install", req[w]) /\ Fits("reinstall", req[w])
    BY <2>1, Fitting DEF Telling, Telltale, Fits, PluginChange
  <2>3. Answer(w) \/ Goto(w, "install") \/ \E row : Keep(w, row, "reinstall")
    BY <1>5 DEF GetInstallation
  <2> QED BY <2>1, <2>2, <2>3, QuietAnswer, QuietGoto
<1>6. CASE InstallPlugin(w)
  <2>0. pc[w] = "install" /\ UNCHANGED <<grants, notice>>
    BY <1>6 DEF InstallPlugin
  <2>1. CASE installations[req[w].user] # None
    <3>1. Answer(w) /\ UNCHANGED shared /\ pc[w] \notin Telling
      BY <1>6, <2>1 DEF InstallPlugin, shared, Telling
    <3> QED BY <2>0, <3>1, QuietAnswer
  <2>2. CASE installations[req[w].user] = None
    <3>1. /\ Keep(w, "active", "announce-new")
          /\ \E row : installations' = [installations EXCEPT ![req[w].user] = row]
      BY <1>6, <2>2 DEF InstallPlugin
    <3>2. Moves(w, {"announce-new"}) /\ pc'[w] = "announce-new" /\ req' = req
      BY <3>1, KeepMoves
    <3> QED BY <1>2, <2>0, <3>1, <3>2 DEF Announcing, PluginChange
  <2> QED BY <2>1, <2>2
<1>7. CASE ReinstallPlugin(w) \/ SetInstallationStatus(w)
  <2>1. PICK status : SaveInstallation(w, status)
    BY <1>7 DEF ReinstallPlugin, SetInstallationStatus
  <2>2. /\ Moves(w, {"announce"}) /\ pc'[w] = "announce" /\ req' = req
        /\ UNCHANGED <<grants, notice>>
    BY <2>1 DEF SaveInstallation, Locals, Moves
  <2>3. \E row : installations' = [installations EXCEPT ![req[w].user] = row]
    BY <2>1 DEF SaveInstallation
  <2>4. pc[w] \in PluginChange
    BY <1>7 DEF ReinstallPlugin, SetInstallationStatus, PluginChange
  <2> QED BY <1>2, <2>2, <2>3, <2>4 DEF Announcing
<1> QED BY <1>3, <1>4, <1>5, <1>6, <1>7

LEMMA FeedGrants ==
  ASSUME Locals, Telltale, NEW w \in Workers,
         UNCHANGED <<copies, contact, server, setting, conversation, reaction, lastRead>>,
         \/ ConsumeConfirmation(w) \/ GetGrant(w) \/ CreateGrant(w) \/ SaveGrant(w)
         \/ BeginRevokeGrant(w) \/ RevokeGrant(w)
  PROVE  Telltale'
<1>1. ASSUME NEW S, Moves(w, S), req' = req, pc'[w] = "announce", pc[w] \in GrantChange,
             NEW status, grants' = [grants EXCEPT ![GrantOf(w)] = status],
             UNCHANGED <<installations, notice>>
      PROVE  Telltale'
  <2>1. PICK u \in Users, p \in Permissions : req[w].user = u /\ req[w].row = <<"grant", u, p>>
    BY <1>1 DEF Telltale, Fits, ForGrant
  <2>2. GrantOf(w) = <<u, p>> /\ <<u, p>> \in Grants
    BY <2>1 DEF GrantOf, Grants
  <2>3. /\ grants' = [g \in Grants |-> grants'[g]]
        /\ \A g \in Grants \ {<<u, p>>} : grants'[g] = grants[g]
    BY <1>1, <2>2 DEF Telltale, Shared
  <2>4. Shared'
    BY <1>1, <2>3 DEF Telltale, Shared, notice
  <2>5. Fits(pc'[w], req[w])
    BY <1>1, <2>1, Fitting DEF Announcing
  <2>6. \A v \in Users, q \in Permissions :
          <<"grant", v, q>> # req[w].row => grants'[<<v, q>>] = grants[<<v, q>>]
    <3> SUFFICES ASSUME NEW v \in Users, NEW q \in Permissions, <<"grant", v, q>> # req[w].row
                 PROVE  grants'[<<v, q>>] = grants[<<v, q>>]
      OBVIOUS
    <3>1. <<v, q>> \in Grants /\ <<v, q>> # <<u, p>>
      BY <2>1 DEF Grants
    <3> QED BY <2>3, <3>1
  <2>7. pc'[w] \in Telling /\ pc[w] \notin Telling
    BY <1>1 DEF GrantChange, Telling
  <2> QED BY <1>1, <2>4, <2>5, <2>6, <2>7, FeedWrites
<1>2. CASE ConsumeConfirmation(w) \/ GetGrant(w)
  <2>1. UNCHANGED <<shared, notice>> /\ pc[w] \in GrantChange
    BY <1>2 DEF ConsumeConfirmation, GetGrant, sageVars, shared, GrantChange
  <2>2. /\ pc[w] \notin Telling /\ Fits("grant", req[w]) /\ Fits("new-grant", req[w])
        /\ Fits("save-grant", req[w])
    BY <2>1, Fitting DEF Telling, Telltale, Fits, GrantChange
  <2>3. Answer(w) \/ Goto(w, "grant") \/ Goto(w, "new-grant") \/ \E row : Keep(w, row, "save-grant")
    BY <1>2 DEF ConsumeConfirmation, GetGrant
  <2> QED BY <2>1, <2>2, <2>3, QuietAnswer, QuietGoto
<1>3. CASE CreateGrant(w)
  <2>0. pc[w] = "new-grant" /\ UNCHANGED <<installations, notice>>
    BY <1>3 DEF CreateGrant
  <2>1. CASE grants[GrantOf(w)] # None
    <3>1. Answer(w) /\ UNCHANGED shared /\ pc[w] \notin Telling
      BY <1>3, <2>1 DEF CreateGrant, shared, Telling
    <3> QED BY <2>0, <3>1, QuietAnswer
  <2>2. CASE grants[GrantOf(w)] = None
    <3>1. Keep(w, "active", "announce") /\ grants' = [grants EXCEPT ![GrantOf(w)] = "active"]
      BY <1>3, <2>2 DEF CreateGrant
    <3>2. Moves(w, {"announce"}) /\ pc'[w] = "announce" /\ req' = req
      BY <3>1, KeepMoves
    <3> QED BY <1>1, <2>0, <3>1, <3>2 DEF GrantChange
  <2> QED BY <2>1, <2>2
<1>4. CASE SaveGrant(w) \/ RevokeGrant(w)
  <2>1. PICK status : /\ Keep(w, status, "announce")
                      /\ grants' = [grants EXCEPT ![GrantOf(w)] = status]
    BY <1>4 DEF SaveGrant, RevokeGrant
  <2>2. pc[w] \in GrantChange /\ UNCHANGED <<installations, notice>>
    BY <1>4 DEF SaveGrant, RevokeGrant, GrantChange
  <2>3. Moves(w, {"announce"}) /\ pc'[w] = "announce" /\ req' = req
    BY <2>1, KeepMoves
  <2> QED BY <1>1, <2>1, <2>2, <2>3
<1>5. CASE BeginRevokeGrant(w)
  <2>1. PICK g \in Grants :
          Begin(w, [Request EXCEPT !.op = "revoke", !.user = g[1],
                                   !.row = <<"grant", g[1], g[2]>>], "revoke")
    BY <1>5, Zenon DEF BeginRevokeGrant
  <2> DEFINE r == [Request EXCEPT !.op = "revoke", !.user = g[1],
                                  !.row = <<"grant", g[1], g[2]>>]
  <2>2. ForGrant(r)
    BY DEF ForGrant, Request, Grants
  <2>3. Begin(w, r, "revoke")
    BY <2>1
  <2> HIDE DEF r
  <2>4. Fits("revoke", r)
    BY <2>2, Fitting DEF GrantChange
  <2>5. UNCHANGED <<shared, notice>>
    BY <1>5, Zenon DEF BeginRevokeGrant, sageVars, shared
  <2> QED BY <2>3, <2>4, <2>5, QuietBegin
<1> QED BY <1>2, <1>3, <1>4, <1>5

LEMMA FeedSage ==
  ASSUME Flow, Telltale, SageNext,
         UNCHANGED <<copies, contact, server, setting, conversation, reaction, lastRead>>
  PROVE  Telltale'
<1>0. Locals
  BY DEF Flow
<1>1. ASSUME NEW w \in Workers, RecordPluginSync(w) PROVE Telltale'
  <2>1. UNCHANGED shared /\ (Answer(w) \/ Goto(w, "audit"))
    BY <1>1 DEF RecordPluginSync, sageVars, shared
  <2>2. CurrentRow(req[w].row) = SageRow(req[w].row)
    BY <1>1 DEF RecordPluginSync, CurrentRow
  <2>3. Tell(w, copy[w], copy[w] # SageRow(req[w].row))
    BY <1>1 DEF RecordPluginSync
  <2> QED BY <1>0, <2>1, <2>2, <2>3, TellStep
<1>2. ASSUME NEW w \in Workers,
             \/ BeginGrant(w) \/ BeginInvocation(w) \/ RequireActiveInstallation(w)
             \/ GetInvocationByClientRequest(w)
      PROVE  Telltale'
  <2>1. UNCHANGED <<shared, notice>>
    <3>1. UNCHANGED <<sageVars, notice>>
      <4>1. CASE BeginGrant(w)
        BY <4>1 DEF BeginGrant
      <4>2. CASE BeginInvocation(w)
        BY <4>2 DEF BeginInvocation
      <4>3. CASE RequireActiveInstallation(w) \/ GetInvocationByClientRequest(w)
        BY <4>3 DEF RequireActiveInstallation, GetInvocationByClientRequest
      <4> QED BY <1>2, <4>1, <4>2, <4>3
    <3> QED BY <3>1 DEF sageVars, shared
  <2>2. Asks(w)
    BY <1>2 DEF Asks
  <2> QED BY <1>0, <2>1, <2>2, FeedAsks
<1>3. PICK w \in Workers :
    \/ CreatePlugin(w) \/ BeginSubmitVersion(w) \/ RequireActiveOwnedAsset(w) \/ SubmitVersion(w)
    \/ ScanManifest(w) \/ BeginReview(w) \/ ReadVersion(w) \/ ReviewPlugin(w) \/ BeginSuspend(w)
    \/ SuspendPlugin(w) \/ BeginInstall(w) \/ GetInstallation(w) \/ InstallPlugin(w)
    \/ ReinstallPlugin(w) \/ BeginSetStatus(w) \/ SetInstallationStatus(w) \/ BeginGrant(w)
    \/ ConsumeConfirmation(w) \/ GetGrant(w) \/ CreateGrant(w) \/ SaveGrant(w)
    \/ BeginRevokeGrant(w) \/ RevokeGrant(w) \/ RecordPluginSync(w) \/ BeginInvocation(w)
    \/ RequireActiveInstallation(w) \/ GetInvocationByClientRequest(w) \/ CreateInvocation(w)
    \/ BeginReport(w) \/ GetReportByClientID(w) \/ SubmitReport(w)
  BY DEF SageNext
<1> QED BY <1>0, <1>1, <1>2, <1>3, FeedCatalogue, FeedInstalls, FeedGrants

LEMMA FeedPublishers ==
  ASSUME Locals, Telltale, NEW w \in Workers,
         UNCHANGED <<installations, grants, contact, server, setting, conversation, reaction,
                     lastRead>>,
         \/ BeginCreateSkill(w) \/ CreateSkill(w) \/ BeginSubmitSkill(w) \/ ReadSkill(w)
         \/ RequireSkillAsset(w) \/ SubmitSkillVersion(w) \/ BeginTakedown(w) \/ TakedownSkill(w)
         \/ BeginRestrict(w) \/ RestrictPublisher(w) \/ BeginLift(w) \/ LiftPublisherRestriction(w)
         \/ BeginRate(w) \/ UpsertRating(w) \/ RecalculateSkillRatingAggregate(w)
  PROVE  Telltale'
<1> DEFINE S == {"idle", "audit", "new-skill", "skill", "takedown", "asset", "release",
                 "restrict", "lift", "rate", "aggregate"}
<1>0. /\ "idle" \in S /\ "audit" \in S /\ "new-skill" \in S /\ "skill" \in S /\ "takedown" \in S
      /\ "asset" \in S /\ "release" \in S /\ "restrict" \in S /\ "lift" \in S /\ "rate" \in S
      /\ "aggregate" \in S
  OBVIOUS
<1>1. S \intersect Fitted = {}
  BY DEF Fitted, PluginChange, GrantChange, Asking, SkillChange, Announcing, ContactChange,
         ServerChange, ReactChange, UseSteps
<1> HIDE DEF S
<1>2. UNCHANGED <<shared, notice>> /\ pc[w] \notin Telling
  <2>1. UNCHANGED <<copies, notice>>
    BY Zenon DEF hubVars, BeginCreateSkill, CreateSkill, BeginSubmitSkill, ReadSkill,
           RequireSkillAsset, SubmitSkillVersion, BeginTakedown, TakedownSkill, BeginRestrict,
           RestrictPublisher, BeginLift, LiftPublisherRestriction, BeginRate, UpsertRating,
           RecalculateSkillRatingAggregate
  <2>2. pc[w] \notin Telling
    BY Zenon DEF BeginCreateSkill, CreateSkill, BeginSubmitSkill, ReadSkill, EnsurePublisherAllowed,
           RequireSkillAsset, SubmitSkillVersion, BeginTakedown, TakedownSkill, BeginRestrict,
           RestrictPublisher, BeginLift, LiftPublisherRestriction, BeginRate, UpsertRating,
           RecalculateSkillRatingAggregate, Begin, Accepts, Telling
  <2> QED BY <2>1, <2>2 DEF shared
<1>3. Moves(w, S)
  <2>1. CASE BeginCreateSkill(w)
    BY <1>0, <2>1, BeginMoves DEF BeginCreateSkill, EnsurePublisherAllowed
  <2>2. CASE BeginSubmitSkill(w)
    BY <1>0, <2>2, BeginMoves, Zenon DEF BeginSubmitSkill, EnsurePublisherAllowed
  <2>3. CASE BeginTakedown(w)
    BY <1>0, <2>3, BeginMoves DEF BeginTakedown
  <2>4. CASE BeginRestrict(w)
    BY <1>0, <2>4, BeginMoves DEF BeginRestrict
  <2>5. CASE BeginLift(w)
    BY <1>0, <2>5, BeginMoves, Zenon DEF BeginLift
  <2>6. CASE BeginRate(w)
    BY <1>0, <2>6, BeginMoves, Zenon DEF BeginRate
  <2>7. CASE CreateSkill(w) \/ ReadSkill(w) \/ RequireSkillAsset(w)
    BY <1>0, <2>7, GotoMoves, KeepMoves, AnswerMoves DEF CreateSkill, ReadSkill, RequireSkillAsset
  <2>8. CASE SubmitSkillVersion(w) \/ TakedownSkill(w) \/ RecalculateSkillRatingAggregate(w)
    BY <1>0, <2>8, SaveThenMoves, AnswerMoves
       DEF SubmitSkillVersion, TakedownSkill, RecalculateSkillRatingAggregate
  <2>9. CASE RestrictPublisher(w) \/ LiftPublisherRestriction(w) \/ UpsertRating(w)
    BY <1>0, <2>9, GotoMoves, KeepMoves
       DEF RestrictPublisher, LiftPublisherRestriction, UpsertRating
  <2> QED BY <2>1, <2>2, <2>3, <2>4, <2>5, <2>6, <2>7, <2>8, <2>9
<1> QED BY <1>1, <1>2, <1>3, QuietMoves

LEMMA FeedSkills ==
  ASSUME Locals, Telltale, NEW w \in Workers,
         UNCHANGED <<installations, grants, contact, server, setting, conversation, reaction,
                     lastRead>>,
         \/ BeginInstallSkill(w) \/ GetSkillInstallation(w) \/ InstallSkill(w)
         \/ ReinstallSkill(w) \/ IncrementDownloadCount(w) \/ BeginSkillStatus(w)
         \/ SetSkillStatus(w) \/ BeginUpdateInstallation(w) \/ UpdateInstallation(w)
         \/ RecordInstallationSync(w)
  PROVE  Telltale'
<1>1. ASSUME NEW r, NEW row, NEW step \in SkillChange,
             Begin(w, r, step) \/ BeginRead(w, r, row, step), ForSkill(r),
             UNCHANGED <<hubVars, notice>>
      PROVE  Telltale'
  <2>1. Fits(step, r)
    BY <1>1, Fitting
  <2>2. UNCHANGED shared
    BY <1>1 DEF hubVars, shared
  <2> QED BY <1>1, <2>1, <2>2, QuietBegin
<1>2. ASSUME NEW S, Moves(w, S), req' = req,
             pc'[w] \in Announcing \union {"download", "download-new"},
             pc[w] \in SkillChange \ Telling, NEW row,
             copies' = [copies EXCEPT ![req[w].user] = row], UNCHANGED notice
      PROVE  Telltale'
  <2>0. ForSkill(req[w])
    BY <1>2 DEF Telltale, Fits
  <2>1. PICK u \in Raters : req[w].user = u /\ req[w].row = <<"skill", u>>
    BY <2>0 DEF ForSkill
  <2>2. /\ copies' = [v \in Raters |-> copies'[v]]
        /\ \A v \in Raters \ {u} : copies'[v] = copies[v]
    BY <1>2, <2>1 DEF Telltale, Shared
  <2>3. Shared'
    BY <1>2, <2>2 DEF Telltale, Shared, notice
  <2>4. Fits(pc'[w], req[w])
    BY <1>2, <2>0, Fitting DEF SkillChange
  <2>5. \A v \in Raters : <<"skill", v>> # req[w].row => copies'[v] = copies[v]
    BY <2>1, <2>2
  <2>6. pc'[w] \in Telling /\ pc[w] \notin Telling
    BY <1>2 DEF Announcing, Telling
  <2> QED BY <1>2, <2>3, <2>4, <2>5, <2>6, FeedWrites
<1>3. ASSUME NEW row, NEW step \in {"announce", "download"}, SaveCopy(w, row, step),
             pc[w] \in {"save-copy", "skill-status", "pin"}
      PROVE  Telltale'
  <2>1. /\ Moves(w, {step}) /\ pc'[w] = step /\ req' = req /\ UNCHANGED notice
    BY <1>3 DEF SaveCopy, Locals, Moves
  <2>2. copies' = [copies EXCEPT ![req[w].user] = row]
    BY <1>3 DEF SaveCopy
  <2>3. pc[w] \in SkillChange \ Telling
    BY <1>3 DEF SkillChange, Telling
  <2> QED BY <1>2, <1>3, <2>1, <2>2, <2>3 DEF Announcing
<1>4. CASE BeginInstallSkill(w)
  <2>1. PICK u \in Raters :
          Begin(w, [Request EXCEPT !.op = "install-skill", !.user = u, !.n = skill.published,
                                   !.row = <<"skill", u>>], "copy")
    BY <1>4, Zenon DEF BeginInstallSkill
  <2>2. ForSkill([Request EXCEPT !.op = "install-skill", !.user = u, !.n = skill.published,
                                 !.row = <<"skill", u>>])
    BY DEF ForSkill, Request
  <2>3. UNCHANGED <<hubVars, notice>> /\ "copy" \in SkillChange
    BY <1>4, Zenon DEF BeginInstallSkill, SkillChange
  <2> QED BY <1>1, <2>1, <2>2, <2>3
<1>5. CASE BeginSkillStatus(w)
  <2>1. PICK u \in Raters, status \in {"active", "disabled", "uninstalled"} :
          BeginRead(w, [Request EXCEPT !.op = "skill-status", !.user = u, !.word = status,
                                       !.row = <<"skill", u>>], copies[u], "skill-status")
    BY <1>5, Zenon DEF BeginSkillStatus
  <2>2. ForSkill([Request EXCEPT !.op = "skill-status", !.user = u, !.word = status,
                                 !.row = <<"skill", u>>])
    BY DEF ForSkill, Request
  <2>3. UNCHANGED <<hubVars, notice>> /\ "skill-status" \in SkillChange
    BY <1>5, Zenon DEF BeginSkillStatus, SkillChange
  <2> QED BY <1>1, <2>1, <2>2, <2>3
<1>6. CASE BeginUpdateInstallation(w)
  <2>1. PICK u \in Raters, v \in Releases \union {0} :
          BeginRead(w, [Request EXCEPT !.op = "pin", !.user = u, !.n = v,
                                       !.row = <<"skill", u>>], copies[u], "pin")
    BY <1>6, Zenon DEF BeginUpdateInstallation
  <2>2. ForSkill([Request EXCEPT !.op = "pin", !.user = u, !.n = v, !.row = <<"skill", u>>])
    BY DEF ForSkill, Request
  <2>3. UNCHANGED <<hubVars, notice>> /\ "pin" \in SkillChange
    BY <1>6, Zenon DEF BeginUpdateInstallation, SkillChange
  <2> QED BY <1>1, <2>1, <2>2, <2>3
<1>7. CASE GetSkillInstallation(w)
  <2>1. UNCHANGED <<shared, notice>> /\ pc[w] = "copy"
    BY <1>7 DEF GetSkillInstallation, hubVars, shared
  <2>2. pc[w] \notin Telling /\ Fits("new-copy", req[w]) /\ Fits("save-copy", req[w])
    BY <2>1, Fitting DEF Telling, Telltale, Fits, SkillChange
  <2>3. Goto(w, "new-copy") \/ \E row : Keep(w, row, "save-copy")
    BY <1>7 DEF GetSkillInstallation
  <2> QED BY <2>1, <2>2, <2>3, QuietGoto
<1>8. CASE InstallSkill(w)
  <2>0. pc[w] = "new-copy" /\ UNCHANGED notice
    BY <1>8 DEF InstallSkill
  <2>1. CASE copies[req[w].user] # None
    <3>1. Answer(w) /\ UNCHANGED shared /\ pc[w] \notin Telling
      BY <1>8, <2>1 DEF InstallSkill, shared, Telling
    <3> QED BY <2>0, <3>1, QuietAnswer
  <2>2. CASE copies[req[w].user] = None
    <3>1. PICK row : /\ Keep(w, row, "download-new")
                     /\ copies' = [copies EXCEPT ![req[w].user] = row]
      BY <1>8, <2>2 DEF InstallSkill
    <3>2. Moves(w, {"download-new"}) /\ pc'[w] = "download-new" /\ req' = req
      BY <3>1, KeepMoves
    <3>3. pc[w] \in SkillChange \ Telling
      BY <2>0 DEF SkillChange, Telling
    <3> QED BY <1>2, <2>0, <3>1, <3>2, <3>3
  <2> QED BY <2>1, <2>2
<1>9. CASE ReinstallSkill(w) \/ SetSkillStatus(w)
  <2>1. \E row, step : step \in {"announce", "download"} /\ SaveCopy(w, row, step)
    BY <1>9 DEF ReinstallSkill, SetSkillStatus
  <2>2. pc[w] \in {"save-copy", "skill-status", "pin"}
    BY <1>9 DEF ReinstallSkill, SetSkillStatus
  <2> QED BY <1>3, <2>1, <2>2
<1>10. CASE UpdateInstallation(w)
  <2>1. pc[w] = "pin"
    BY <1>10 DEF UpdateInstallation
  <2>2. CASE \E row : SaveCopy(w, row, "announce")
    BY <1>3, <2>1, <2>2
  <2>3. CASE Answer(w) /\ UNCHANGED <<hubVars, notice>>
    <3>1. UNCHANGED shared /\ pc[w] \notin Telling
      BY <2>1, <2>3 DEF hubVars, shared, Telling
    <3> QED BY <2>3, <3>1, QuietAnswer
  <2> QED BY <1>10, <2>2, <2>3 DEF UpdateInstallation
<1>11. CASE IncrementDownloadCount(w)
  <2>0. UNCHANGED <<shared, notice>> /\ pc[w] \in {"download", "download-new"}
    BY <1>11 DEF IncrementDownloadCount, shared
  <2>1. PICK step \in Announcing : Goto(w, step)
    BY <1>11 DEF IncrementDownloadCount, Announcing
  <2>2. Moves(w, {step}) /\ pc'[w] = step /\ req' = req
    BY <2>1, GotoMoves
  <2>3. Fits(pc'[w], req'[w])
    BY <2>0, <2>2, Fitting DEF Telltale, Fits, SkillChange
  <2>4. GoneIsTold' /\ Shared'
    BY <2>0, <2>2, GoneStays DEF Telltale, Shared, shared, notice
  <2>5. \A row : CurrentRow(row)' = CurrentRow(row)
    BY <2>0, RowsStay
  <2> QED BY <2>0, <2>2, <2>3, <2>4, <2>5, WriteStep DEF Announcing, Telling
<1>12. CASE RecordInstallationSync(w)
  <2>1. UNCHANGED shared /\ (Answer(w) \/ Goto(w, "audit"))
    BY <1>12 DEF RecordInstallationSync, hubVars, shared
  <2>2. ForSkill(req[w])
    BY <1>12 DEF RecordInstallationSync, Telltale, Fits, Announcing
  <2>3. CurrentRow(req[w].row) = copies[req[w].user]
    BY <2>2 DEF ForSkill, CurrentRow
  <2>4. Tell(w, copy[w], copy[w] # copies[req[w].user])
    BY <1>12 DEF RecordInstallationSync
  <2> QED BY <2>1, <2>3, <2>4, TellStep
<1> QED BY <1>4, <1>5, <1>6, <1>7, <1>8, <1>9, <1>10, <1>11, <1>12

LEMMA FeedHub ==
  ASSUME Locals, Telltale, HubNext,
         UNCHANGED <<installations, grants, contact, server, setting, conversation, reaction,
                     lastRead>>
  PROVE  Telltale'
<1>1. PICK w \in Workers :
    \/ BeginCreateSkill(w) \/ CreateSkill(w) \/ BeginSubmitSkill(w) \/ ReadSkill(w)
    \/ RequireSkillAsset(w) \/ SubmitSkillVersion(w) \/ BeginTakedown(w) \/ TakedownSkill(w)
    \/ BeginRestrict(w) \/ RestrictPublisher(w) \/ BeginLift(w) \/ LiftPublisherRestriction(w)
    \/ BeginRate(w) \/ UpsertRating(w) \/ RecalculateSkillRatingAggregate(w)
    \/ BeginInstallSkill(w) \/ GetSkillInstallation(w) \/ InstallSkill(w) \/ ReinstallSkill(w)
    \/ IncrementDownloadCount(w) \/ BeginSkillStatus(w) \/ SetSkillStatus(w)
    \/ BeginUpdateInstallation(w) \/ UpdateInstallation(w) \/ RecordInstallationSync(w)
  BY DEF HubNext
<1> QED BY <1>1, FeedPublishers, FeedSkills

\* The devices are told nothing of the books.
LEMMA FeedBilling ==
  ASSUME Locals, Telltale, BillNext, UNCHANGED shared
  PROVE  Telltale'
<1>1. CASE UseFreely
  <2>1. UNCHANGED <<pc, req, notice>>
    BY <1>1 DEF UseFreely, Whole
  <2> QED BY <2>1, QuietStay
<1>2. ASSUME NEW w \in Workers, CreateUsageRecord(w) PROVE Telltale'
  <2>1. PICK amount \in Amounts, base \in Bases, owned \in BOOLEAN :
          Begin(w, [Request EXCEPT !.op = "use", !.on = base, !.n = amount, !.row = Books,
                                   !.word = IF owned THEN "owned" ELSE ""], "account")
    BY <1>2, Zenon DEF CreateUsageRecord
  <2> DEFINE r == [Request EXCEPT !.op = "use", !.on = base, !.n = amount, !.row = Books,
                                  !.word = IF owned THEN "owned" ELSE ""]
  <2>2. Begin(w, r, "account") /\ r.row = Books
    BY <2>1 DEF Request
  <2> HIDE DEF r
  <2>3. Fits("account", r)
    BY <2>2, Fitting DEF UseSteps
  <2>4. UNCHANGED notice
    BY <1>2 DEF CreateUsageRecord
  <2> QED BY <2>2, <2>3, <2>4, QuietBegin
<1>3. ASSUME NEW w \in Workers,
             \/ MarkPayoutPaid(w) \/ CreateInvoice(w) \/ MarkInvoicePaid(w)
             \/ RequestRefund(w) \/ ResolveRefund(w) \/ OpenDispute(w) \/ ResolveDispute(w)
      PROVE  Telltale'
  <2>1. PICK r : Begin(w, r, "audit")
    BY <1>3 DEF MarkPayoutPaid, CreateInvoice, MarkInvoicePaid, RequestRefund, ResolveRefund,
                OpenDispute, ResolveDispute
  <2>2. UNCHANGED notice
    BY <1>3 DEF MarkPayoutPaid, CreateInvoice, MarkInvoicePaid, RequestRefund, ResolveRefund,
                OpenDispute, ResolveDispute
  <2>3. Fits("audit", r)
    BY FitsAnywhere
  <2> QED BY <2>1, <2>2, <2>3, QuietBegin
<1>4. ASSUME NEW w \in Workers,
             \/ GetAccount(w) \/ CreateAccount(w) \/ CreateTransaction(w) \/ GetEarning(w)
             \/ GetPayout(w) \/ SavePayout(w) \/ SaveEarning(w)
      PROVE  Telltale'
  <2>1. req[w].row = Books /\ Books \notin Rows
    BY <1>4, BooksNotTold
       DEF GetAccount, CreateAccount, CreateTransaction, GetEarning, GetPayout, SavePayout,
           SaveEarning, Telltale, Fits, UseSteps
  <2>2. UNCHANGED feed /\ untold \subseteq untold'
    BY <1>4 DEF GetAccount, CreateAccount, CreateTransaction, GetEarning, GetPayout, SavePayout,
                SaveEarning, Fails, notice
  <2>3. ASSUME NEW step \in UseSteps, Moves(w, {step}), pc'[w] = step, req' = req
        PROVE  Telltale'
    <3>1. Fits(pc'[w], req'[w])
      BY <2>1, <2>3, Fitting
    <3> QED BY <2>1, <2>2, <2>3, <3>1, QuietStep
  <2>4. ASSUME Moves(w, {"idle"}), pc'[w] = "idle" PROVE Telltale'
    <3>1. Fits(pc'[w], req'[w])
      BY <2>4, FitsAnywhere
    <3> QED BY <2>1, <2>2, <2>4, <3>1, QuietStep
  <2>5. ASSUME NEW step \in UseSteps, NEW row, Goto(w, step) \/ Keep(w, row, step)
        PROVE  Telltale'
    BY <2>3, <2>5, GotoMoves, KeepMoves
  <2>6. ASSUME Answer(w) PROVE Telltale'
    BY <2>4, <2>6, AnswerMoves
  <2>7. ASSUME NEW step, step \in {"idle", "save-earning"}, NEW outdated,
               SaveThen(w, step, Books, outdated)
        PROVE  Telltale'
    BY <2>3, <2>4, <2>7, SaveThenMoves DEF UseSteps
  <2>8. /\ "debit" \in UseSteps /\ "open-account" \in UseSteps /\ "earning" \in UseSteps
        /\ "payout" \in UseSteps /\ "save-payout" \in UseSteps
    BY DEF UseSteps
  <2>9. CASE GetAccount(w) \/ CreateAccount(w) \/ CreateTransaction(w)
    BY <2>5, <2>6, <2>8, <2>9 DEF GetAccount, CreateAccount, CreateTransaction, Fails
  <2>10. CASE GetEarning(w)
    <3>1. \E row : Keep(w, row, "payout")
      BY <2>10 DEF GetEarning
    <3> QED BY <2>5, <2>8, <3>1
  <2>11. CASE GetPayout(w)
    BY <2>5, <2>8, <2>11 DEF GetPayout
  <2>12. CASE SavePayout(w)
    BY <2>6, <2>7, <2>12 DEF SavePayout, Fails
  <2>13. CASE SaveEarning(w)
    BY <2>6, <2>7, <2>13 DEF SaveEarning
  <2> QED BY <1>4, <2>9, <2>10, <2>11, <2>12, <2>13
<1> QED BY <1>1, <1>2, <1>3, <1>4 DEF BillNext

LEMMA FeedStep == Flow /\ Telltale /\ [Next]_vars => Telltale'
<1> SUFFICES ASSUME Flow, Telltale, [Next]_vars PROVE Telltale'
  OBVIOUS
<1>0. Locals
  BY DEF Flow
<1>1. CASE UNCHANGED vars
  <2>1. UNCHANGED <<shared, notice, pc, req>>
    BY <1>1 DEF vars, flow, sageVars, hubVars, setVars, chatVars, shared
  <2> QED BY <2>1, QuietStay
<1>2. CASE GovNext /\ UNCHANGED <<notice, sageVars, hubVars, setVars, chatVars>>
  <2>1. UNCHANGED <<shared, notice>>
    BY <1>2 DEF sageVars, hubVars, setVars, chatVars, shared
  <2> QED BY <1>2, <2>1, FeedGov
<1>3. CASE ObjNext /\ UNCHANGED <<notice, sageVars, hubVars, setVars, chatVars>>
  <2>1. UNCHANGED <<shared, notice>>
    BY <1>3 DEF sageVars, hubVars, setVars, chatVars, shared
  <2> QED BY <1>0, <1>3, <2>1, FeedObjects
<1>4. CASE AuditNext /\ UNCHANGED <<notice, sageVars, hubVars, setVars, chatVars>>
  <2>1. UNCHANGED <<shared, notice>>
    BY <1>4 DEF sageVars, hubVars, setVars, chatVars, shared
  <2> QED BY <1>0, <1>4, <2>1, FeedAudit
<1>5. CASE SageNext /\ UNCHANGED <<hubVars, setVars, chatVars>>
  <2>1. UNCHANGED <<copies, contact, server, setting, conversation, reaction, lastRead>>
    BY <1>5 DEF hubVars, setVars, chatVars
  <2> QED BY <1>5, <2>1, FeedSage
<1>6. CASE HubNext /\ UNCHANGED <<sageVars, setVars, chatVars>>
  <2>1. UNCHANGED <<installations, grants, contact, server, setting, conversation, reaction,
                    lastRead>>
    BY <1>6 DEF sageVars, setVars, chatVars
  <2> QED BY <1>0, <1>6, <2>1, FeedHub
<1>7. CASE SetNext /\ UNCHANGED <<sageVars, hubVars, chatVars>>
  <2>1. UNCHANGED <<installations, grants, copies, chatVars>>
    BY <1>7 DEF sageVars, hubVars
  <2> QED BY <1>0, <1>7, <2>1, FeedSet
<1>8. CASE BillNext /\ UNCHANGED <<sageVars, hubVars, setVars, chatVars>>
  <2>1. UNCHANGED shared
    BY <1>8 DEF sageVars, hubVars, setVars, chatVars, shared
  <2> QED BY <1>0, <1>8, <2>1, FeedBilling
<1>9. CASE ChatNext /\ UNCHANGED <<sageVars, hubVars, setVars>>
  <2>1. UNCHANGED <<installations, grants, copies, contact, server, setting>>
    BY <1>9 DEF sageVars, hubVars, setVars
  <2> QED BY <1>0, <1>9, <2>1, FeedChat
<1>10. CASE \E w \in Workers : Abandon(w) /\ UNCHANGED <<sageVars, hubVars, setVars, chatVars>>
  <2>1. UNCHANGED shared
    BY <1>10 DEF sageVars, hubVars, setVars, chatVars, shared
  <2> QED BY <1>0, <1>10, <2>1, FeedAbandons
<1> QED BY <1>1, <1>2, <1>3, <1>4, <1>5, <1>6, <1>7, <1>8, <1>9, <1>10 DEF Next

LEMMA FeedInit == Init => Telltale
<1> SUFFICES ASSUME Init PROVE Telltale
  OBVIOUS
<1>1. PICK start \in Scenarios :
        /\ FlowInit(start.kinds, start.earlier) /\ SageInit(start) /\ SkillInit(start)
        /\ SetInit(start) /\ ChatInit(start) /\ feed = [row \in Rows |-> CurrentRow(row)]
  BY DEF Init
<1>2. reaction \in BOOLEAN
  BY <1>1, PlatformAssumption DEF ChatInit
<1>3. Shared
  <2>1. installations = [u \in Users |-> installations[u]]
    BY <1>1 DEF SageInit
  <2>2. grants = [g \in Grants |-> grants[g]]
    BY <1>1 DEF SageInit
  <2>3. copies = [u \in Raters |-> copies[u]]
    BY <1>1 DEF SkillInit
  <2>4. setting = [t \in Tables |-> setting[t]]
    BY <1>1 DEF SetInit
  <2> QED BY <1>1, <1>2, <2>1, <2>2, <2>3, <2>4 DEF Shared
<1>4. Settled
  BY <1>1 DEF Settled
<1>5. GoneIsTold
  <2>1. Reaction \in Rows
    BY DEF Rows, ChatRows
  <2> QED BY <1>1, <2>1, RowOfChat DEF GoneIsTold
<1>6. ASSUME NEW w \in Workers PROVE Fits(pc[w], req[w])
  <2>1. pc[w] = "idle"
    BY <1>1 DEF FlowInit
  <2> QED BY <2>1, FitsAnywhere
<1> QED BY <1>3, <1>4, <1>5, <1>6 DEF Telltale

\* Once every request that has changed a row has announced it, the last event about the
\* row says what the row is, whatever requests of the services overlap: unless an event
\* came late, was lost with its request, or was taken for one that was recorded before
\* (FeedSettles; recordPluginSync, recordInstallationSync, recordServerEvent,
\* upsertAndSync, recordContactEventWithRepo, recordReactionSyncEvents,
\* recordConversationSyncEvents).
THEOREM FeedTrue == Spec => []FeedSettles
<1>1. Telltale => FeedSettles
  BY DEF Telltale, Settled, Busy, FeedSettles
<1>2. Flow /\ Telltale /\ [Next]_vars => Telltale'
  BY FeedStep
<1>3. Init => Telltale
  BY FeedInit
<1> QED BY <1>1, <1>2, <1>3, FlowHolds, PTL DEF Spec
-----------------------------------------------------------------------------
(* Sums.  Total folds its function over the subsets of the domain, one element *)
(* after the other: the lemmas take away any element, in any order.            *)

\* Of the subsets of a finite set that have a property, one has it and none of the
\* sets that lack one of its elements.
LEMMA Smallest ==
  ASSUME NEW D, IsFiniteSet(D), NEW C, C \subseteq SUBSET D, C # {}
  PROVE  \E S \in C : \A x \in S : S \ {x} \notin C
<1> DEFINE N == {Cardinality(S) : S \in C}
<1>1. \A S \in C : IsFiniteSet(S) /\ Cardinality(S) \in Nat
  BY FS_Subset, FS_CardinalityType
<1>2. N \in SUBSET Nat /\ N # {}
  BY <1>1
<1> HIDE DEF N
<1>3. PICK n \in N : \A m \in N : ~ (<<m, n>> \in OpToRel(<, Nat))
  BY <1>2, NatLessThanWellFounded, WFMin, Zenon
<1> USE DEF N
<1>4. PICK S \in C : Cardinality(S) = n
  BY <1>3, Zenon
<1>5. ASSUME NEW x \in S, S \ {x} \in C PROVE FALSE
  <2>1. Cardinality(S \ {x}) = Cardinality(S) - 1
    BY <1>1, <1>4, FS_RemoveElement
  <2>2. Cardinality(S \ {x}) \in N /\ Cardinality(S \ {x}) \in Nat
    BY <1>1, <1>5
  <2>3. <<Cardinality(S \ {x}), n>> \in OpToRel(<, Nat)
    BY <1>2, <1>4, <2>1, <2>2 DEF OpToRel
  <2> QED BY <1>3, <2>2, <2>3, Zenon
<1> QED BY <1>4, <1>5

\* The sum of some values of a function.
Part(f, S) == Sets!MapThenSumSet(LAMBDA n : f[n], S)

Pick(s) == CHOOSE x \in s : TRUE

\* What the sum of every subset of S is, one element after the other.
Adds(g, f, S) ==
  g = [s \in SUBSET S |-> IF s = {} THEN 0 ELSE f[Pick(s)] + g[s \ {Pick(s)}]]

LEMMA PartUnfolds ==
  ASSUME NEW f, NEW S
  PROVE  Part(f, S) = (CHOOSE g : Adds(g, f, S))[S]
<1>1. Part(f, S) = Sets!MapThenFoldSet(+, 0, LAMBDA n : f[n], LAMBDA s : CHOOSE x \in s : TRUE, S)
  BY Zenon DEF Part, Sets!MapThenSumSet
<1> DEFINE pick(s) == CHOOSE x \in s : TRUE
           fold(g) == [s \in SUBSET S |-> IF s = {} THEN 0 ELSE f[pick(s)] + g[s \ {pick(s)}]]
           iter == CHOOSE g : g = fold(g)
<1>2. Sets!MapThenFoldSet(+, 0, LAMBDA n : f[n], LAMBDA s : CHOOSE x \in s : TRUE, S) = iter[S]
  BY DEF Sets!MapThenFoldSet
<1>3. iter = CHOOSE g : Adds(g, f, S)
  BY DEF Adds, Pick
<1> QED BY <1>1, <1>2, <1>3, Zenon

\* Such sums there are, of the subsets up to any size.
LEMMA AddsExists ==
  ASSUME NEW S, IsFiniteSet(S), NEW f
  PROVE  \E g : Adds(g, f, S)
<1> DEFINE Small(n) == {s \in SUBSET S : Cardinality(s) <= n}
           To(g, n) == g = [s \in Small(n) |-> IF s = {} THEN 0
                                               ELSE f[Pick(s)] + g[s \ {Pick(s)}]]
           Without == {n \in Nat : ~ \E g : To(g, n)}
<1>1. \A s \in SUBSET S : IsFiniteSet(s) /\ Cardinality(s) \in Nat
  BY FS_Subset, FS_CardinalityType
<1>2. \A s \in SUBSET S : s # {} =>
        /\ Pick(s) \in s /\ s \ {Pick(s)} \in SUBSET S
        /\ Cardinality(s \ {Pick(s)}) = Cardinality(s) - 1
  BY <1>1, FS_RemoveElement DEF Pick
<1>3. Without = {}
  <2> SUFFICES ASSUME Without # {} PROVE FALSE
    OBVIOUS
  <2>0. Without \in SUBSET Nat
    OBVIOUS
  <2> HIDE DEF Without
  <2>1. PICK n \in Without : \A m \in Without : ~ (<<m, n>> \in OpToRel(<, Nat))
    BY <2>0, NatLessThanWellFounded, WFMin, Zenon
  <2> USE DEF Without
  <2>2. n # 0
    <3>1. \A s \in Small(0) : s = {}
      BY <1>1, FS_EmptySet
    <3> DEFINE g == [s \in Small(0) |-> 0]
    <3>2. To(g, 0)
      BY <3>1
    <3> QED BY <2>1, <3>2, Zenon
  <2>3. n - 1 \in Nat /\ n - 1 \notin Without
    <3>0. n \in Nat
      BY <2>0
    <3>1. n \in Nat /\ n - 1 \in Nat
      BY <2>2, <3>0
    <3>2. <<n - 1, n>> \in OpToRel(<, Nat)
      BY <3>1 DEF OpToRel
    <3> QED BY <2>1, <3>1, <3>2, Zenon
  <2>4. PICK g : To(g, n - 1)
    BY <2>3
  <2> DEFINE h == [s \in Small(n) |-> IF s = {} THEN 0 ELSE f[Pick(s)] + g[s \ {Pick(s)}]]
  <2>5. ASSUME NEW s \in Small(n), s # {} PROVE h[s \ {Pick(s)}] = g[s \ {Pick(s)}]
    <3>1. s \ {Pick(s)} \in Small(n - 1) /\ s \ {Pick(s)} \in Small(n)
      BY <1>1, <1>2, <2>3, <2>5
    <3> DEFINE t == s \ {Pick(s)}
    <3>2. t \in Small(n - 1) /\ t \in Small(n)
      BY <3>1
    <3>3. g[t] = IF t = {} THEN 0 ELSE f[Pick(t)] + g[t \ {Pick(t)}]
      BY <2>4, <3>2
    <3>4. h[t] = IF t = {} THEN 0 ELSE f[Pick(t)] + g[t \ {Pick(t)}]
      BY <3>2
    <3> QED BY <3>3, <3>4
  <2>6. To(h, n)
    BY <2>5
  <2> QED BY <2>1, <2>6, Zenon
<1>4. PICK g : To(g, Cardinality(S))
  BY <1>1, <1>3
<1>5. Small(Cardinality(S)) = SUBSET S
  BY <1>1, FS_Subset
<1> QED BY <1>4, <1>5 DEF Adds

LEMMA PartIs ==
  ASSUME NEW S, IsFiniteSet(S), NEW f, NEW g, Adds(g, f, S), NEW T \in SUBSET S
  PROVE  Part(f, T) = g[T]
<1>1. IsFiniteSet(T)
  BY FS_Subset
<1>2. PICK h : h = CHOOSE k : Adds(k, f, T)
  OBVIOUS
<1>3. Adds(h, f, T)
  BY <1>1, <1>2, AddsExists
<1>4. \A s \in SUBSET T : h[s] = IF s = {} THEN 0 ELSE f[Pick(s)] + h[s \ {Pick(s)}]
  BY <1>3 DEF Adds
<1>5. \A s \in SUBSET T : g[s] = IF s = {} THEN 0 ELSE f[Pick(s)] + g[s \ {Pick(s)}]
  BY DEF Adds
<1> DEFINE C == {s \in SUBSET T : g[s] # h[s]}
<1>6. C = {}
  <2> SUFFICES ASSUME C # {} PROVE FALSE
    OBVIOUS
  <2>1. PICK s \in C : \A x \in s : s \ {x} \notin C
    BY <1>1, Smallest
  <2>2. s # {}
    BY <1>4, <1>5, <2>1
  <2>3. Pick(s) \in s
    BY <2>2 DEF Pick
  <2>4. s \ {Pick(s)} \in SUBSET T /\ s \ {Pick(s)} \notin C
    BY <2>1, <2>3
  <2>5. g[s \ {Pick(s)}] = h[s \ {Pick(s)}]
    BY <2>4
  <2> QED BY <1>4, <1>5, <2>1, <2>2, <2>5
<1>7. Part(f, T) = h[T]
  BY <1>2, PartUnfolds
<1> QED BY <1>6, <1>7

LEMMA PartEmpty == ASSUME NEW f PROVE Part(f, {}) = 0
<1>1. IsFiniteSet({})
  BY FS_EmptySet
<1>2. PICK g : Adds(g, f, {})
  BY <1>1, AddsExists
<1>3. Part(f, {}) = g[{}]
  BY <1>1, <1>2, PartIs
<1> QED BY <1>2, <1>3 DEF Adds

LEMMA PartPick ==
  ASSUME NEW S, IsFiniteSet(S), S # {}, NEW f
  PROVE  Part(f, S) = f[Pick(S)] + Part(f, S \ {Pick(S)})
<1>1. PICK g : Adds(g, f, S)
  BY AddsExists
<1>2. Part(f, S) = g[S] /\ Part(f, S \ {Pick(S)}) = g[S \ {Pick(S)}]
  <2>1. S \in SUBSET S /\ S \ {Pick(S)} \in SUBSET S
    OBVIOUS
  <2> QED BY <1>1, <2>1, PartIs
<1>3. g[S] = f[Pick(S)] + g[S \ {Pick(S)}]
  BY <1>1 DEF Adds
<1> QED BY <1>2, <1>3

LEMMA PartInt ==
  ASSUME NEW S, IsFiniteSet(S), NEW f, \A x \in S : f[x] \in Int
  PROVE  Part(f, S) \in Int
<1> DEFINE C == {T \in SUBSET S : Part(f, T) \notin Int}
<1>1. C = {}
  <2> SUFFICES ASSUME C # {} PROVE FALSE
    OBVIOUS
  <2>1. PICK T \in C : \A x \in T : T \ {x} \notin C
    BY Smallest
  <2>2. T # {}
    BY <2>1, PartEmpty
  <2>3. Pick(T) \in T
    BY <2>2 DEF Pick
  <2>4. Part(f, T \ {Pick(T)}) \in Int
    BY <2>1, <2>3
  <2>5. Part(f, T) = f[Pick(T)] + Part(f, T \ {Pick(T)})
    BY <2>2, FS_Subset, PartPick
  <2>6. f[Pick(T)] \in Int
    BY <2>3
  <2> QED BY <2>4, <2>5, <2>6
<1> QED BY <1>1

LEMMA PartRemove ==
  ASSUME NEW S, IsFiniteSet(S), NEW f, \A y \in S : f[y] \in Int, NEW x \in S
  PROVE  Part(f, S) = f[x] + Part(f, S \ {x})
<1> DEFINE C == {T \in SUBSET S : \E y \in T : Part(f, T) # f[y] + Part(f, T \ {y})}
<1>1. C = {}
  <2> SUFFICES ASSUME C # {} PROVE FALSE
    OBVIOUS
  <2>1. PICK T \in C : \A y \in T : T \ {y} \notin C
    BY Smallest
  <2>2. PICK y \in T : Part(f, T) # f[y] + Part(f, T \ {y})
    BY <2>1
  <2>3. PICK p : p = Pick(T)
    OBVIOUS
  <2>4. p \in T
    BY <2>2, <2>3 DEF Pick
  <2>5. Part(f, T) = f[p] + Part(f, T \ {p})
    BY <2>2, <2>3, FS_Subset, PartPick
  <2>6. p # y
    BY <2>2, <2>5
  <2>7. Part(f, T \ {p}) = f[y] + Part(f, (T \ {p}) \ {y})
    BY <2>1, <2>4, <2>6
  <2>8. Part(f, T \ {y}) = f[p] + Part(f, (T \ {y}) \ {p})
    BY <2>1, <2>4, <2>6
  <2>9. (T \ {p}) \ {y} = (T \ {y}) \ {p}
    OBVIOUS
  <2>10. f[p] \in Int /\ f[y] \in Int /\ Part(f, (T \ {y}) \ {p}) \in Int
    <3>1. IsFiniteSet((T \ {y}) \ {p}) /\ \A z \in (T \ {y}) \ {p} : f[z] \in Int
      BY FS_Subset
    <3> QED BY <2>4, <3>1, PartInt
  <2>11. PICK r : r = Part(f, (T \ {y}) \ {p})
    OBVIOUS
  <2>12. PICK a : a = f[p]
    OBVIOUS
  <2>13. PICK b : b = f[y]
    OBVIOUS
  <2>14. a \in Int /\ b \in Int /\ r \in Int
    BY <2>10, <2>11, <2>12, <2>13
  <2>15. Part(f, T) = a + (b + r) /\ b + Part(f, T \ {y}) = b + (a + r)
    BY <2>5, <2>7, <2>8, <2>9, <2>11, <2>12, <2>13
  <2>16. a + (b + r) = b + (a + r)
    BY <2>14
  <2> QED BY <2>2, <2>13, <2>15, <2>16
<1> QED BY <1>1

\* Pointwise no more, no more in all.
LEMMA PartLeast ==
  ASSUME NEW S, IsFiniteSet(S), NEW f, NEW g, \A x \in S : f[x] \in Int /\ g[x] \in Int,
         \A x \in S : f[x] <= g[x]
  PROVE  Part(f, S) <= Part(g, S)
<1> DEFINE C == {T \in SUBSET S : ~ (Part(f, T) <= Part(g, T))}
<1>1. C = {}
  <2> SUFFICES ASSUME C # {} PROVE FALSE
    OBVIOUS
  <2>1. PICK T \in C : \A x \in T : T \ {x} \notin C
    BY Smallest
  <2>2. T # {}
    BY <2>1, PartEmpty
  <2>3. PICK x \in T : TRUE
    BY <2>2
  <2>4. Part(f, T \ {x}) <= Part(g, T \ {x})
    BY <2>1
  <2>5. IsFiniteSet(T) /\ IsFiniteSet(T \ {x}) /\ T \subseteq S
    BY FS_Subset
  <2>6. Part(f, T) = f[x] + Part(f, T \ {x}) /\ Part(g, T) = g[x] + Part(g, T \ {x})
    BY <2>5, PartRemove
  <2>7. Part(f, T \ {x}) \in Int /\ Part(g, T \ {x}) \in Int
    BY <2>5, PartInt
  <2> QED BY <2>1, <2>4, <2>6, <2>7
<1> QED BY <1>1

LEMMA PartSame ==
  ASSUME NEW S, IsFiniteSet(S), NEW f, NEW g, \A x \in S : f[x] \in Int /\ g[x] = f[x]
  PROVE  Part(g, S) = Part(f, S)
<1>1. Part(f, S) <= Part(g, S) /\ Part(g, S) <= Part(f, S)
  BY PartLeast
<1> QED BY <1>1, PartInt

LEMMA PartZero ==
  ASSUME NEW S, IsFiniteSet(S), NEW f, \A x \in S : f[x] = 0
  PROVE  Part(f, S) = 0
<1> DEFINE C == {T \in SUBSET S : Part(f, T) # 0}
<1>1. C = {}
  <2> SUFFICES ASSUME C # {} PROVE FALSE
    OBVIOUS
  <2>1. PICK T \in C : \A x \in T : T \ {x} \notin C
    BY Smallest
  <2>2. T # {}
    BY <2>1, PartEmpty
  <2>3. PICK x \in T : TRUE
    BY <2>2
  <2>4. Part(f, T) = f[x] + Part(f, T \ {x})
    BY FS_Subset, PartRemove
  <2> QED BY <2>1, <2>4
<1> QED BY <1>1

LEMMA TotalIsPart == ASSUME NEW f PROVE Total(f) = Part(f, DOMAIN f)
BY DEF Total, Part

LEMMA TotalNat ==
  ASSUME NEW D, IsFiniteSet(D), NEW f \in [D -> Nat]
  PROVE  Total(f) \in Nat
<1> DEFINE z == [x \in D |-> 0]
<1>1. Part(z, D) = 0 /\ Part(z, D) <= Part(f, D)
  BY PartZero, PartLeast
<1>2. Part(f, D) \in Int
  BY PartInt
<1> QED BY <1>1, <1>2, TotalIsPart

LEMMA TotalZero ==
  ASSUME NEW D, IsFiniteSet(D), NEW f \in [D -> {0}]
  PROVE  Total(f) = 0
BY PartZero, TotalIsPart

LEMMA TotalLeast ==
  ASSUME NEW D, IsFiniteSet(D), NEW f \in [D -> Nat], NEW g \in [D -> Nat],
         \A x \in D : f[x] <= g[x]
  PROVE  Total(f) <= Total(g)
BY PartLeast, TotalIsPart

\* One value changes.
LEMMA TotalChange ==
  ASSUME NEW D, IsFiniteSet(D), NEW f \in [D -> Nat], NEW g \in [D -> Nat], NEW d \in D,
         \A x \in D \ {d} : g[x] = f[x]
  PROVE  Total(g) + f[d] = Total(f) + g[d]
<1>1. IsFiniteSet(D \ {d})
  BY FS_Subset
<1>2. Part(f, D) = f[d] + Part(f, D \ {d}) /\ Part(g, D) = g[d] + Part(g, D \ {d})
  BY PartRemove
<1>3. Part(g, D \ {d}) = Part(f, D \ {d}) /\ Part(f, D \ {d}) \in Int
  BY <1>1, PartSame, PartInt
<1>4. f[d] \in Int /\ g[d] \in Int
  OBVIOUS
<1> QED BY <1>2, <1>3, <1>4, TotalIsPart

\* A row is added to a table.
LEMMA TotalAppend ==
  ASSUME NEW n \in Nat, NEW f \in [1 .. n -> Nat], NEW g \in [1 .. n + 1 -> Nat],
         \A i \in 1 .. n : g[i] = f[i]
  PROVE  Total(g) = Total(f) + g[n + 1]
<1>1. IsFiniteSet(1 .. n) /\ IsFiniteSet(1 .. n + 1)
  BY FS_Interval
<1>2. n + 1 \in 1 .. n + 1 /\ (1 .. n + 1) \ {n + 1} = 1 .. n
  OBVIOUS
<1>3. Part(g, 1 .. n + 1) = g[n + 1] + Part(g, 1 .. n)
  BY <1>1, <1>2, PartRemove
<1>4. Part(g, 1 .. n) = Part(f, 1 .. n) /\ Part(f, 1 .. n) \in Int
  BY <1>1, PartSame, PartInt
<1>5. g[n + 1] \in Int
  BY <1>2
<1> QED BY <1>3, <1>4, <1>5, TotalIsPart
-----------------------------------------------------------------------------
(* The books.  First, that no other component's step moves a use. *)

\* The uses stay where they are, no other request becomes one, and what is marked
\* stays marked.
Spared ==
  /\ Locals' /\ stale \subseteq stale'
  /\ \A v \in Workers :
       IF pc[v] \in UseSteps THEN pc'[v] = pc[v] /\ req'[v] = req[v] /\ copy'[v] = copy[v]
                             ELSE pc'[v] \notin UseSteps

\* The other steps.
LEMMA OffUse ==
  /\ \A step \in {"", "idle", "audit", "append", "switch", "rules", "decide", "receipt", "enforce",
                  "active", "known", "intent", "url", "delete", "confirm", "grant", "invoke",
                  "new-grant", "save-grant", "head", "activate"} : step \notin UseSteps
  /\ \A step \in {"submit", "package", "scan", "reviewed", "review", "suspend", "installation",
                  "install", "reinstall", "status", "announce", "announce-new", "revoke",
                  "reported", "report"} : step \notin UseSteps
  /\ \A step \in {"new-skill", "skill", "takedown", "asset", "release", "restrict", "lift",
                  "rate", "aggregate", "copy", "new-copy", "save-copy", "download",
                  "download-new", "skill-status", "pin"} : step \notin UseSteps
  /\ \A step \in {"create-contact", "update-contact", "delete-contact", "add", "update-server",
                  "remove", "erase", "upsert", "read-back", "save-conversation",
                  "get-reaction", "react", "unreact"} : step \notin UseSteps
BY DEF UseSteps

LEMMA SparedMove ==
  ASSUME NEW w \in Workers, NEW S, Moves(w, S), pc[w] \notin UseSteps, pc'[w] \notin UseSteps
  PROVE  Spared
BY DEF Spared, Moves

LEMMA SparedStay ==
  ASSUME Locals, UNCHANGED <<pc, req, copy, stale>>
  PROVE  Spared
BY DEF Spared, Locals

LEMMA SparedBegin ==
  ASSUME Locals, NEW w \in Workers, NEW r, NEW step, Begin(w, r, step), step \notin UseSteps
  PROVE  Spared
<1>1. Moves(w, {step}) /\ pc'[w] = step
  BY BeginMoves
<1>2. pc[w] = "idle"
  BY DEF Begin, Accepts
<1> QED BY <1>1, <1>2, OffUse, SparedMove, Zenon

LEMMA SparedRead ==
  ASSUME Locals, NEW w \in Workers, NEW r, NEW row, NEW step, BeginRead(w, r, row, step),
         step \notin UseSteps
  PROVE  Spared
<1>1. Moves(w, {step}) /\ pc'[w] = step
  BY BeginReadMoves
<1>2. pc[w] = "idle"
  BY DEF BeginRead, Accepts
<1> QED BY <1>1, <1>2, OffUse, SparedMove, Zenon

LEMMA SparedGoto ==
  ASSUME Locals, NEW w \in Workers, NEW step, Goto(w, step), pc[w] \notin UseSteps,
         step \notin UseSteps
  PROVE  Spared
<1>1. Moves(w, {step}) /\ pc'[w] = step
  BY GotoMoves
<1> QED BY <1>1, SparedMove

LEMMA SparedKeep ==
  ASSUME Locals, NEW w \in Workers, NEW row, NEW step, Keep(w, row, step), pc[w] \notin UseSteps,
         step \notin UseSteps
  PROVE  Spared
<1>1. Moves(w, {step}) /\ pc'[w] = step
  BY KeepMoves
<1> QED BY <1>1, SparedMove

LEMMA SparedAnswer ==
  ASSUME Locals, NEW w \in Workers, Answer(w), pc[w] \notin UseSteps
  PROVE  Spared
<1>1. Moves(w, {"idle"}) /\ pc'[w] = "idle"
  BY AnswerMoves
<1> QED BY <1>1, SparedMove, OffUse, Zenon

LEMMA SparedSave ==
  ASSUME Locals, NEW w \in Workers, NEW step, NEW row, NEW outdated,
         SaveThen(w, step, row, outdated), pc[w] \notin UseSteps, step \notin UseSteps
  PROVE  Spared
<1>1. Moves(w, {step}) /\ pc'[w] = step
  BY SaveThenMoves
<1> QED BY <1>1, SparedMove

LEMMA SparedGov ==
  ASSUME Flow, GovNext
  PROVE  Spared
<1>1. Locals
  BY DEF Flow
<1>2. CASE \/ CreateCapability \/ CreatePolicyRule \/ CreateKillSwitch \/ ExpireSwitch
           \/ CreateApprovalReceipt \/ RevokeApprovalReceipt \/ ReissueApprovalReceiptToken
           \/ ExpireReceipt \/ ConsumeApprovalReceipt \/ ResolveScanResult
  <2>1. UNCHANGED <<pc, req, copy, stale>>
    BY <1>2 DEF CreateCapability, CreatePolicyRule, CreateKillSwitch, ExpireSwitch,
                CreateApprovalReceipt, RevokeApprovalReceipt, ReissueApprovalReceiptToken,
                ExpireReceipt, ConsumeApprovalReceipt, ResolveScanResult, Whole, flow
  <2> QED BY <1>1, <2>1, SparedStay
<1>3. ASSUME NEW w \in Workers, BeginEvaluate(w) PROVE Spared
  BY <1>1, <1>3, OffUse, SparedBegin, Zenon DEF BeginEvaluate
<1>4. ASSUME NEW w \in Workers, pc[w] \in Asking, NEW by, NEW n, Pass(w, by, n) PROVE Spared
  <2>1. Formed(req[w])
    BY <1>4 DEF Flow
  <2>2. Moves(w, Thens) /\ pc'[w] \in Thens
    BY <1>1, <1>4, <2>1, PassMoves DEF Formed
  <2>3. pc[w] \notin UseSteps /\ pc'[w] \notin UseSteps
    BY <1>4, <2>2, Zenon DEF Asking, Thens, UseSteps
  <2> QED BY <2>2, <2>3, SparedMove
<1>5. ASSUME NEW w \in Workers,
             \/ Enforce(w) \/ ConsumeForOperation(w) \/ PersistDecision(w)
             \/ EvaluateSwitch(w) \/ EvaluateRules(w) \/ RequireApproval(w)
      PROVE  Spared
  <2>1. CASE Enforce(w)
    BY <1>1, <1>4, <2>1, OffUse, SparedGoto, Zenon DEF Enforce, Asking
  <2>2. CASE ConsumeForOperation(w)
    BY <1>1, <1>4, <2>2, OffUse, SparedAnswer, Zenon DEF ConsumeForOperation, Asking
  <2>3. CASE PersistDecision(w)
    BY <1>1, <1>4, <2>3, OffUse, SparedAnswer, SparedKeep, Zenon DEF PersistDecision, Asking
  <2>4. CASE EvaluateSwitch(w) \/ EvaluateRules(w) \/ RequireApproval(w)
    BY <1>1, <2>4, OffUse, SparedGoto, SparedKeep, SparedAnswer, Zenon
       DEF EvaluateSwitch, EvaluateRules, RequireApproval
  <2> QED BY <1>5, <2>1, <2>2, <2>3, <2>4
<1> QED BY <1>2, <1>3, <1>5 DEF GovNext

LEMMA SparedAsks ==
  ASSUME Locals, NEW w \in Workers, Asks(w)
  PROVE  Spared
<1>1. CASE BeginGrant(w)
  <2>1. PICK r : Begin(w, r, "enforce")
    BY <1>1 DEF BeginGrant
  <2> QED BY <2>1, OffUse, SparedBegin, Zenon
<1>2. CASE BeginInvocation(w)
  BY <1>2, OffUse, SparedBegin, Zenon DEF BeginInvocation
<1>3. CASE RequireActiveInstallation(w) \/ GetInvocationByClientRequest(w)
  BY <1>3, OffUse, SparedGoto, SparedAnswer, Zenon
     DEF RequireActiveInstallation, GetInvocationByClientRequest
<1>4. CASE BeginUpload(w) \/ BeginDownload(w) \/ BeginDelete(w)
  BY <1>4, OffUse, SparedBegin, Zenon DEF BeginUpload, BeginDownload, BeginDelete
<1> QED BY <1>1, <1>2, <1>3, <1>4 DEF Asks

LEMMA SparedCarries ==
  ASSUME Locals, NEW w \in Workers, Carries(w)
  PROVE  Spared
<1>1. pc[w] \in Carrying /\ Moves(w, CarrySteps)
  BY CarryCases, CarryMoves
<1>2. pc[w] \notin UseSteps /\ pc'[w] \notin UseSteps
  BY <1>1 DEF Carrying, CarrySteps, UseSteps, Moves
<1> QED BY <1>1, <1>2, SparedMove

LEMMA SparedObjects ==
  ASSUME Locals, ObjNext
  PROVE  Spared
<1>1. CASE StoreObject \/ PutContent \/ LapseUpload
  <2>1. UNCHANGED <<pc, req, copy, stale>>
    BY <1>1 DEF StoreObject, PutContent, LapseUpload, Whole, flow
  <2> QED BY <2>1, SparedStay
<1>2. ASSUME NEW w \in Workers, BeginComplete(w) PROVE Spared
  BY <1>2, OffUse, SparedBegin, Zenon DEF BeginComplete
<1>3. ASSUME NEW w \in Workers, HeadObject(w) \/ MarkActive(w) PROVE Spared
  BY <1>3, OffUse, SparedGoto, SparedAnswer, Zenon DEF HeadObject, MarkActive
<1> QED BY <1>1, <1>2, <1>3, SparedAsks, SparedCarries DEF ObjNext, Asks, Carries

LEMMA SparedAudit ==
  ASSUME Locals, AuditNext
  PROVE  Spared
BY OffUse, SparedBegin, SparedKeep, SparedAnswer, Zenon
   DEF AuditNext, BeginRecord, ReadHead, AppendHashChained

LEMMA SparedSage ==
  ASSUME Locals, SageNext
  PROVE  Spared
<1>1. ASSUME NEW w \in Workers, CreatePlugin(w) PROVE Spared
  BY <1>1, OffUse, SparedBegin, Zenon DEF CreatePlugin
<1>2. ASSUME NEW w \in Workers, BeginSubmitVersion(w) PROVE Spared
  BY <1>2, OffUse, SparedRead, Zenon DEF BeginSubmitVersion
<1>3. ASSUME NEW w \in Workers, BeginReview(w) PROVE Spared
  BY <1>3, OffUse, SparedRead, Zenon DEF BeginReview
<1>4. ASSUME NEW w \in Workers, BeginSuspend(w) PROVE Spared
  BY <1>4, OffUse, SparedRead, Zenon DEF BeginSuspend
<1>5. ASSUME NEW w \in Workers, RequireActiveOwnedAsset(w) \/ ScanManifest(w) \/ ReadVersion(w)
      PROVE  Spared
  BY <1>5, OffUse, SparedGoto, SparedKeep, SparedAnswer, Zenon
     DEF RequireActiveOwnedAsset, ScanManifest, ReadVersion
<1>6. ASSUME NEW w \in Workers, SubmitVersion(w) \/ ReviewPlugin(w) \/ SuspendPlugin(w)
      PROVE  Spared
  BY <1>6, OffUse, SparedSave, SparedAnswer, ZenonT(30) DEF SubmitVersion, ReviewPlugin,
  SuspendPlugin
<1>7. ASSUME NEW w \in Workers, BeginInstall(w) PROVE Spared
  BY <1>7, OffUse, SparedBegin, Zenon DEF BeginInstall
<1>8. ASSUME NEW w \in Workers, GetInstallation(w) \/ InstallPlugin(w)
      PROVE  Spared
  BY <1>8, OffUse, SparedGoto, SparedKeep, SparedAnswer, Zenon DEF GetInstallation, InstallPlugin
<1>9. ASSUME NEW w \in Workers, ReinstallPlugin(w) \/ SetInstallationStatus(w)
      PROVE  Spared
  <2>1. Moves(w, {"announce"}) /\ pc'[w] = "announce"
    BY <1>9 DEF ReinstallPlugin, SetInstallationStatus, SaveInstallation, Locals, Moves
  <2>2. pc[w] \notin UseSteps
    BY <1>9, OffUse, Zenon DEF ReinstallPlugin, SetInstallationStatus
  <2> QED BY <2>1, <2>2, OffUse, SparedMove, Zenon
<1>10. ASSUME NEW w \in Workers, BeginSetStatus(w) PROVE Spared
  BY <1>10, OffUse, SparedRead, Zenon DEF BeginSetStatus
<1>11. ASSUME NEW w \in Workers, RevokeGrant(w) \/ RecordPluginSync(w)
       PROVE  Spared
  BY <1>11, OffUse, SparedGoto, SparedKeep, SparedAnswer, Zenon DEF RevokeGrant, RecordPluginSync
<1>12. ASSUME NEW w \in Workers, BeginRevokeGrant(w) PROVE Spared
  BY <1>12, OffUse, SparedBegin, Zenon DEF BeginRevokeGrant
<1>13. ASSUME NEW w \in Workers, GetReportByClientID(w) PROVE Spared
  BY <1>13, OffUse, SparedGoto, SparedAnswer, Zenon DEF GetReportByClientID
<1>14. ASSUME NEW w \in Workers, BeginReport(w) PROVE Spared
  BY <1>14, OffUse, SparedRead, Zenon DEF BeginReport
<1>15. ASSUME NEW w \in Workers, SubmitReport(w) PROVE Spared
  BY <1>15, OffUse, SparedSave, SparedAnswer, Zenon DEF SubmitReport
<1> QED BY <1>1, <1>2, <1>3, <1>4, <1>5, <1>6, <1>7, <1>8, <1>9, <1>10, <1>11, <1>12, <1>13,
           <1>14, <1>15, SparedAsks, SparedCarries DEF SageNext, Asks, Carries

LEMMA SparedHub ==
  ASSUME Locals, HubNext
  PROVE  Spared
<1>1. ASSUME NEW w \in Workers, BeginCreateSkill(w) PROVE Spared
  BY <1>1, OffUse, SparedBegin, Zenon DEF BeginCreateSkill, EnsurePublisherAllowed
<1>2. ASSUME NEW w \in Workers, BeginSubmitSkill(w) PROVE Spared
  BY <1>2, OffUse, SparedBegin, Zenon DEF BeginSubmitSkill, EnsurePublisherAllowed
<1>3. ASSUME NEW w \in Workers, BeginTakedown(w) PROVE Spared
  BY <1>3, OffUse, SparedBegin, Zenon DEF BeginTakedown
<1>4. ASSUME NEW w \in Workers, BeginRestrict(w) PROVE Spared
  BY <1>4, OffUse, SparedBegin, Zenon DEF BeginRestrict
<1>5. ASSUME NEW w \in Workers, BeginLift(w) PROVE Spared
  BY <1>5, OffUse, SparedBegin, Zenon DEF BeginLift
<1>6. ASSUME NEW w \in Workers, BeginRate(w) PROVE Spared
  BY <1>6, OffUse, SparedBegin, Zenon DEF BeginRate
<1>7. ASSUME NEW w \in Workers, BeginInstallSkill(w) PROVE Spared
  BY <1>7, OffUse, SparedBegin, Zenon DEF BeginInstallSkill
<1>8. ASSUME NEW w \in Workers, BeginSkillStatus(w) PROVE Spared
  BY <1>8, OffUse, SparedRead, Zenon DEF BeginSkillStatus
<1>9. ASSUME NEW w \in Workers, BeginUpdateInstallation(w) PROVE Spared
  BY <1>9, OffUse, SparedRead, Zenon DEF BeginUpdateInstallation
<1>10. ASSUME NEW w \in Workers, CreateSkill(w) \/ ReadSkill(w) \/ RequireSkillAsset(w)
       PROVE  Spared
  BY <1>10, OffUse, SparedGoto, SparedKeep, SparedAnswer, Zenon
     DEF CreateSkill, ReadSkill, RequireSkillAsset
<1>11. ASSUME NEW w \in Workers,
              \/ SubmitSkillVersion(w) \/ TakedownSkill(w) \/ RecalculateSkillRatingAggregate(w)
       PROVE  Spared
  <2>1. CASE SubmitSkillVersion(w)
    BY <2>1, OffUse, SparedSave, SparedAnswer, Zenon DEF SubmitSkillVersion
  <2>2. CASE TakedownSkill(w)
    BY <2>2, OffUse, SparedSave, SparedAnswer, Zenon DEF TakedownSkill
  <2>3. CASE RecalculateSkillRatingAggregate(w)
    BY <2>3, OffUse, SparedSave, SparedAnswer, Zenon DEF RecalculateSkillRatingAggregate
  <2> QED BY <1>11, <2>1, <2>2, <2>3
<1>12. ASSUME NEW w \in Workers,
              \/ RestrictPublisher(w) \/ LiftPublisherRestriction(w) \/ UpsertRating(w)
              \/ GetSkillInstallation(w) \/ InstallSkill(w) \/ IncrementDownloadCount(w)
              \/ RecordInstallationSync(w)
       PROVE  Spared
  BY <1>12, OffUse, SparedGoto, SparedKeep, SparedAnswer, Zenon
     DEF RestrictPublisher, LiftPublisherRestriction, UpsertRating, GetSkillInstallation,
         InstallSkill, IncrementDownloadCount, RecordInstallationSync
<1>13. ASSUME NEW w \in Workers, NEW row, NEW step, SaveCopy(w, row, step),
              pc[w] \notin UseSteps, step \notin UseSteps
       PROVE  Spared
  <2>1. Moves(w, {step}) /\ pc'[w] = step
    BY <1>13 DEF SaveCopy, Locals, Moves
  <2> QED BY <1>13, <2>1, SparedMove
<1>14. ASSUME NEW w \in Workers, ReinstallSkill(w) \/ SetSkillStatus(w) \/ UpdateInstallation(w)
       PROVE  Spared
  BY <1>13, <1>14, OffUse, SparedAnswer, Zenon DEF ReinstallSkill, SetSkillStatus,
  UpdateInstallation
<1> QED BY <1>1, <1>2, <1>3, <1>4, <1>5, <1>6, <1>7, <1>8, <1>9, <1>10, <1>11, <1>12, <1>14
        DEF HubNext

LEMMA SparedSet ==
  ASSUME Locals, SetNext
  PROVE  Spared
<1>1. ASSUME NEW w \in Workers, BeginCreateContact(w) PROVE Spared
  BY <1>1, OffUse, SparedRead, Zenon DEF BeginCreateContact, IdempotentContactReplay
<1>2. ASSUME NEW w \in Workers, BeginChangeContact(w) PROVE Spared
  <2>1. PICK id \in Ids, op \in {"update-contact", "delete-contact"} :
          BeginRead(w, [Request EXCEPT !.op = op, !.id = id, !.row = Contact], contact, op)
    BY <1>2, Zenon DEF BeginChangeContact, IdempotentContactReplay
  <2> QED BY <2>1, OffUse, SparedRead, Zenon
<1>3. ASSUME NEW w \in Workers, BeginAddServer(w) PROVE Spared
  BY <1>3, OffUse, SparedRead, Zenon DEF BeginAddServer
<1>4. ASSUME NEW w \in Workers, BeginUpdateServer(w) PROVE Spared
  BY <1>4, OffUse, SparedRead, Zenon DEF BeginUpdateServer
<1>5. ASSUME NEW w \in Workers, BeginRemoveServer(w) PROVE Spared
  BY <1>5, OffUse, SparedBegin, Zenon DEF BeginRemoveServer
<1>6. ASSUME NEW w \in Workers, BeginSkillSetting(w) \/ BeginAgentSetting(w)
      PROVE  Spared
  BY <1>6, OffUse, SparedBegin, Zenon DEF BeginSkillSetting, BeginAgentSetting
<1>7. ASSUME NEW w \in Workers, CreateContact(w) \/ UpdateContact(w) \/ DeleteContact(w)
      PROVE  Spared
  BY <1>7, OffUse, SparedAnswer, Zenon DEF CreateContact, UpdateContact, DeleteContact,
                                           CommitContact
<1>8. ASSUME NEW w \in Workers, AddServer(w) \/ UpdateServer(w)
      PROVE  Spared
  BY <1>8, OffUse, SparedKeep, SparedAnswer, Zenon DEF AddServer, UpdateServer
<1>9. ASSUME NEW w \in Workers, RemoveServer(w) \/ DeleteServer(w) PROVE Spared
  BY <1>9, OffUse, SparedGoto, SparedAnswer, Zenon DEF RemoveServer, DeleteServer
<1>10. ASSUME NEW w \in Workers, Upsert(w) \/ ReadBack(w) \/ RecordSetting(w)
      PROVE  Spared
  BY <1>10, OffUse, SparedKeep, SparedAnswer, Zenon DEF Upsert, ReadBack, RecordSetting
<1> QED BY <1>1, <1>2, <1>3, <1>4, <1>5, <1>6, <1>7, <1>8, <1>9, <1>10 DEF SetNext

LEMMA SparedChat ==
  ASSUME Locals, ChatNext
  PROVE  Spared
<1>1. ASSUME NEW w \in Workers, BeginUpdateConversation(w) PROVE Spared
  BY <1>1, OffUse, SparedRead, Zenon DEF BeginUpdateConversation
<1>2. ASSUME NEW w \in Workers, MarkConversationRead(w) PROVE Spared
  BY <1>2, OffUse, SparedRead, Zenon DEF MarkConversationRead
<1>3. ASSUME NEW w \in Workers, BeginAddReaction(w) \/ BeginRemoveReaction(w)
      PROVE  Spared
  BY <1>3, OffUse, SparedBegin, Zenon DEF BeginAddReaction, BeginRemoveReaction
<1>4. ASSUME NEW w \in Workers, UpdateConversation(w) PROVE Spared
  BY <1>4, OffUse, SparedSave, Zenon DEF UpdateConversation
<1>5. ASSUME NEW w \in Workers,
             \/ AddReaction(w) \/ GetReaction(w) \/ RemoveReaction(w)
             \/ RecordConversationSyncEvents(w) \/ RecordConversationReadSyncEvent(w)
             \/ RecordReactionSyncEvents(w)
      PROVE  Spared
  BY <1>5, OffUse, SparedGoto, SparedKeep, SparedAnswer, Zenon
     DEF AddReaction, GetReaction, RemoveReaction, RecordConversationSyncEvents,
         RecordConversationReadSyncEvent, RecordReactionSyncEvents
<1> QED BY <1>1, <1>2, <1>3, <1>4, <1>5 DEF ChatNext

\* A row stays marked, whichever service tells of its own.
LEMMA MarksStay ==
  ASSUME [Next]_vars
  PROVE  untold \subseteq untold'
<1>1. UNCHANGED notice => untold \subseteq untold'
  BY DEF notice
<1>2. ASSUME SageNext PROVE untold \subseteq untold'
  <2>1. ASSUME NEW w \in Workers,
               \/ CreatePlugin(w) \/ BeginSubmitVersion(w) \/ RequireActiveOwnedAsset(w)
               \/ SubmitVersion(w) \/ ScanManifest(w) \/ BeginReview(w) \/ ReadVersion(w)
               \/ ReviewPlugin(w) \/ BeginSuspend(w) \/ SuspendPlugin(w)
        PROVE  untold \subseteq untold'
    BY <1>1, <2>1, Zenon DEF CreatePlugin, BeginSubmitVersion, RequireActiveOwnedAsset,
                      SubmitVersion, ScanManifest, BeginReview, ReadVersion, ReviewPlugin,
                      BeginSuspend, SuspendPlugin
  <2>2. ASSUME NEW w \in Workers,
               \/ BeginInstall(w) \/ GetInstallation(w) \/ InstallPlugin(w) \/ ReinstallPlugin(w)
               \/ BeginSetStatus(w) \/ SetInstallationStatus(w)
        PROVE  untold \subseteq untold'
    BY <1>1, <2>2, Zenon DEF BeginInstall, GetInstallation, InstallPlugin, ReinstallPlugin,
                      BeginSetStatus, SetInstallationStatus, SaveInstallation
  <2>3. ASSUME NEW w \in Workers,
               \/ BeginGrant(w) \/ ConsumeConfirmation(w) \/ GetGrant(w) \/ CreateGrant(w)
               \/ SaveGrant(w)
        PROVE  untold \subseteq untold'
    BY <1>1, <2>3 DEF BeginGrant, ConsumeConfirmation, GetGrant, CreateGrant, SaveGrant
  <2>4. ASSUME NEW w \in Workers,
               \/ BeginRevokeGrant(w) \/ RevokeGrant(w) \/ BeginInvocation(w)
               \/ RequireActiveInstallation(w) \/ GetInvocationByClientRequest(w)
               \/ CreateInvocation(w) \/ BeginReport(w) \/ GetReportByClientID(w) \/ SubmitReport(w)
        PROVE  untold \subseteq untold'
    BY <1>1, <2>4, Zenon DEF BeginRevokeGrant, RevokeGrant, BeginInvocation,
                      RequireActiveInstallation, GetInvocationByClientRequest, CreateInvocation,
                      BeginReport, GetReportByClientID, SubmitReport
  <2>5. ASSUME NEW w \in Workers,
               RecordPluginSync(w)
        PROVE  untold \subseteq untold'
    BY <2>5 DEF RecordPluginSync, Tell
  <2> QED BY <1>2, <2>1, <2>2, <2>3, <2>4, <2>5 DEF SageNext
<1>3. ASSUME HubNext PROVE untold \subseteq untold'
  <2>1. ASSUME NEW w \in Workers,
               \/ BeginCreateSkill(w) \/ CreateSkill(w) \/ BeginSubmitSkill(w) \/ ReadSkill(w)
               \/ RequireSkillAsset(w) \/ SubmitSkillVersion(w) \/ BeginTakedown(w)
               \/ TakedownSkill(w) \/ BeginRestrict(w) \/ RestrictPublisher(w) \/ BeginLift(w)
               \/ LiftPublisherRestriction(w)
        PROVE  untold \subseteq untold'
    BY <1>1, <2>1, Zenon DEF BeginCreateSkill, CreateSkill, BeginSubmitSkill, ReadSkill,
                      RequireSkillAsset, SubmitSkillVersion, BeginTakedown, TakedownSkill,
                      BeginRestrict, RestrictPublisher, BeginLift, LiftPublisherRestriction
  <2>2. ASSUME NEW w \in Workers,
               \/ BeginRate(w) \/ UpsertRating(w) \/ RecalculateSkillRatingAggregate(w)
               \/ BeginInstallSkill(w) \/ GetSkillInstallation(w) \/ InstallSkill(w)
               \/ IncrementDownloadCount(w) \/ BeginSkillStatus(w) \/ BeginUpdateInstallation(w)
        PROVE  untold \subseteq untold'
    BY <1>1, <2>2, Zenon DEF BeginRate, UpsertRating, RecalculateSkillRatingAggregate,
                      BeginInstallSkill, GetSkillInstallation, InstallSkill,
                      IncrementDownloadCount, BeginSkillStatus, BeginUpdateInstallation
  <2>3. ASSUME NEW w \in Workers,
               ReinstallSkill(w) \/ SetSkillStatus(w) \/ UpdateInstallation(w)
        PROVE  untold \subseteq untold'
    BY <1>1, <2>3 DEF ReinstallSkill, SetSkillStatus, UpdateInstallation, SaveCopy
  <2>4. ASSUME NEW w \in Workers,
               RecordInstallationSync(w)
        PROVE  untold \subseteq untold'
    BY <2>4 DEF RecordInstallationSync, Tell
  <2> QED BY <1>3, <2>1, <2>2, <2>3, <2>4 DEF HubNext
<1>4. ASSUME SetNext PROVE untold \subseteq untold'
  <2>1. ASSUME NEW w \in Workers,
               \/ BeginCreateContact(w) \/ BeginChangeContact(w) \/ BeginAddServer(w) \/ AddServer(w)
               \/ BeginUpdateServer(w) \/ UpdateServer(w) \/ BeginRemoveServer(w)
               \/ BeginSkillSetting(w) \/ BeginAgentSetting(w) \/ Upsert(w) \/ ReadBack(w)
        PROVE  untold \subseteq untold'
    BY <1>1, <2>1, Zenon DEF BeginCreateContact, BeginChangeContact, BeginAddServer, AddServer,
                      BeginUpdateServer, UpdateServer, BeginRemoveServer, BeginSkillSetting,
                      BeginAgentSetting, Upsert, ReadBack
  <2>2. ASSUME NEW w \in Workers, NEW row, CommitContact(w, row) PROVE untold \subseteq untold'
    BY <1>1, <2>2 DEF CommitContact, Tell
  <2>3. ASSUME NEW w \in Workers,
               CreateContact(w) \/ UpdateContact(w) \/ DeleteContact(w)
        PROVE  untold \subseteq untold'
    BY <1>1, <2>2, <2>3 DEF CreateContact, UpdateContact, DeleteContact
  <2>4. ASSUME NEW w \in Workers,
               RemoveServer(w)
        PROVE  untold \subseteq untold'
    BY <2>4 DEF RemoveServer, Tell
  <2>5. ASSUME NEW w \in Workers,
               DeleteServer(w)
        PROVE  untold \subseteq untold'
    BY <2>5 DEF DeleteServer
  <2>6. ASSUME NEW w \in Workers,
               RecordSetting(w)
        PROVE  untold \subseteq untold'
    BY <2>6 DEF RecordSetting, Tell
  <2> QED BY <1>4, <2>1, <2>3, <2>4, <2>5, <2>6 DEF SetNext
<1>5. ASSUME ChatNext PROVE untold \subseteq untold'
  <2>1. ASSUME NEW w \in Workers,
               \/ BeginUpdateConversation(w) \/ UpdateConversation(w) \/ MarkConversationRead(w)
               \/ BeginAddReaction(w) \/ AddReaction(w) \/ GetReaction(w) \/ BeginRemoveReaction(w)
               \/ RemoveReaction(w)
        PROVE  untold \subseteq untold'
    BY <1>1, <2>1, Zenon DEF BeginUpdateConversation, UpdateConversation, MarkConversationRead,
                      BeginAddReaction, AddReaction, GetReaction, BeginRemoveReaction,
                      RemoveReaction
  <2>2. ASSUME NEW w \in Workers,
               RecordConversationSyncEvents(w)
        PROVE  untold \subseteq untold'
    BY <2>2 DEF RecordConversationSyncEvents, Tell
  <2>3. ASSUME NEW w \in Workers,
               RecordConversationReadSyncEvent(w)
        PROVE  untold \subseteq untold'
    BY <2>3 DEF RecordConversationReadSyncEvent, Tell
  <2>4. ASSUME NEW w \in Workers,
               RecordReactionSyncEvents(w)
        PROVE  untold \subseteq untold'
    BY <2>4 DEF RecordReactionSyncEvents, Tell
  <2> QED BY <1>5, <2>1, <2>2, <2>3, <2>4 DEF ChatNext
<1>6. ASSUME BillNext PROVE untold \subseteq untold'
  <2>1. CASE UseFreely
    BY <1>1, <2>1 DEF UseFreely
  <2>2. ASSUME NEW w \in Workers,
               \/ CreateUsageRecord(w) \/ GetAccount(w) \/ CreateAccount(w)
               \/ CreateTransaction(w) \/ GetEarning(w) \/ GetPayout(w) \/ SavePayout(w)
               \/ SaveEarning(w)
        PROVE  untold \subseteq untold'
    BY <1>1, <2>2, Zenon DEF CreateUsageRecord, GetAccount, CreateAccount, CreateTransaction,
                      GetEarning, GetPayout, SavePayout, SaveEarning, Fails
  <2>3. ASSUME NEW w \in Workers,
               \/ MarkPayoutPaid(w) \/ CreateInvoice(w) \/ MarkInvoicePaid(w) \/ RequestRefund(w)
               \/ ResolveRefund(w) \/ OpenDispute(w) \/ ResolveDispute(w)
        PROVE  untold \subseteq untold'
    BY <1>1, <2>3 DEF MarkPayoutPaid, CreateInvoice, MarkInvoicePaid, RequestRefund, ResolveRefund,
                      OpenDispute, ResolveDispute
  <2> QED BY <1>6, <2>1, <2>2, <2>3 DEF BillNext
<1>7. ASSUME UNCHANGED vars PROVE untold \subseteq untold'
  BY <1>7 DEF vars, notice
<1>8. ASSUME NEW w \in Workers, Abandon(w) PROVE untold \subseteq untold'
  BY <1>8 DEF Abandon
<1> QED BY <1>1, <1>2, <1>3, <1>4, <1>5, <1>6, <1>7, <1>8 DEF Next
-----------------------------------------------------------------------------
(* What the books rest on. *)

UseRow     == [base : Bases, amount : Nat, owned : BOOLEAN]
EarningRow == [base : Bases, gross : Nat, fee : Nat, net : Nat]

\* The uses that are not yet debited, and those that hold copies of rows.
DebitSteps == {"account", "open-account", "debit"}
CopySteps  == {"payout", "save-payout", "save-earning"}

BookRows ==
  /\ uses \in Seq(UseRow) /\ debits \in Seq(Nat) /\ earnings \in Seq(EarningRow)
  /\ payout \in PayoutRow \union {None}

\* A use knows its base and amount, and its copies are rows of that base.
Using(w) ==
  pc[w] \in UseSteps =>
    /\ req[w].op = "use" /\ req[w].row = Books /\ req[w].n \in Nat /\ req[w].on \in Bases
    /\ pc[w] \notin DebitSteps => req[w].word = "owned"
    /\ pc[w] \in CopySteps =>
         /\ copy[w] \in [id : Nat, payout : PayoutRow \union {None}, earning : EarningRow]
         /\ copy[w].earning.base = req[w].on
         /\ copy[w].id = 0 => /\ copy[w].earning.gross = 0 /\ copy[w].earning.fee = 0
                              /\ copy[w].earning.net = 0
         /\ copy[w].id # 0 => copy[w].id \in DOMAIN earnings /\ earnings[copy[w].id].base = req[w].on

\* What the uses in progress have still to debit, to add to the earnings of a base and
\* to the payout, and what is in the payout but not yet in the earnings.
Undebited == [w \in Workers |-> IF pc[w] \in DebitSteps THEN req[w].n ELSE 0]

Owed(base) == [w \in Workers |-> IF pc[w] \in UseSteps /\ req[w].word = "owned" /\ req[w].on = base
                                 THEN req[w].n ELSE 0]

Unpaid == [w \in Workers |-> IF pc[w] \in UseSteps \ {"save-earning"} /\ req[w].word = "owned"
                             THEN req[w].n ELSE 0]

Ahead    == [w \in Workers |-> IF pc[w] = "save-earning" THEN req[w].n ELSE 0]
AheadFee == [w \in Workers |-> IF pc[w] = "save-earning" THEN Fee(req[w].n) ELSE 0]
AheadNet == [w \in Workers |-> IF pc[w] = "save-earning" THEN req[w].n - Fee(req[w].n) ELSE 0]

\* The columns of the tables.
UseAmount  == [n \in DOMAIN uses |-> uses[n].amount]
UseFor(base) ==
  [n \in DOMAIN uses |-> IF uses[n].owned /\ uses[n].base = base THEN uses[n].amount ELSE 0]
Offered    == [base \in Bases |-> Used(base)]
EarnGross  == [n \in DOMAIN earnings |-> earnings[n].gross]
EarnFee    == [n \in DOMAIN earnings |-> earnings[n].fee]
EarnNet    == [n \in DOMAIN earnings |-> earnings[n].net]
PaidGross  == IF payout = None THEN 0 ELSE payout.gross
PaidFee    == IF payout = None THEN 0 ELSE payout.fee
PaidNet    == IF payout = None THEN 0 ELSE payout.net

\* The values of the earnings of one base.
OfBase(base, column) == [n \in DOMAIN earnings |-> IF earnings[n].base = base THEN column[n] ELSE 0]

Unmarked == Books \notin stale \union untold

Debited ==
  /\ Total(debits) + Total(Undebited) <= Total(UseAmount)
  /\ Books \notin untold => Total(debits) + Total(Undebited) = Total(UseAmount)

\* The most that each earning can have been: a save from an old copy may take away what
\* another use has added, but whatever is copied or saved was used.
EarnedOnce ==
  \E most \in [DOMAIN earnings -> Nat] :
    /\ \A n \in DOMAIN earnings : earnings[n].gross <= most[n]
    /\ \A w \in Workers : pc[w] \in CopySteps /\ copy[w].id # 0 =>
                            copy[w].earning.gross <= most[copy[w].id]
    /\ \A base \in Bases : Total(OfBase(base, most)) + Total(Owed(base)) <= Used(base)

EarnedAll == Unmarked => \A base \in Bases : Earned(base) + Total(Owed(base)) = Used(base)

PaidOnce ==
  /\ PaidGross + Total(Unpaid) <= Total(Offered)
  /\ \A w \in Workers : pc[w] \in CopySteps /\ copy[w].payout # None =>
                          copy[w].payout.gross + Total(Unpaid) <= Total(Offered)

\* The payout is ahead of the earnings by the uses that have added to it alone.
PaidAll ==
  Unmarked =>
    /\ PaidGross = Total(EarnGross) + Total(Ahead)
    /\ PaidFee = Total(EarnFee) + Total(AheadFee)
    /\ PaidNet = Total(EarnNet) + Total(AheadNet)

PaidFirst == payout = None => earnings = <<>> /\ \A w \in Workers : pc[w] # "save-earning"

Sound == BookRows /\ \A w \in Workers : Using(w)

Ledger == /\ Sound /\ Debited /\ EarnedOnce /\ EarnedAll
          /\ PaidOnce /\ PaidAll /\ PaidFirst

LEMMA FeeNat ==
  ASSUME NEW n \in Nat
  PROVE  Fee(n) \in Nat /\ n - Fee(n) \in Nat
BY DEF Fee

\* The amounts are numbers.
LEMMA AmountsNat ==
  ASSUME \A w \in Workers : Using(w)
  PROVE  /\ Undebited \in [Workers -> Nat] /\ Unpaid \in [Workers -> Nat]
         /\ \A base : Owed(base) \in [Workers -> Nat]
         /\ Ahead \in [Workers -> Nat] /\ AheadFee \in [Workers -> Nat]
         /\ AheadNet \in [Workers -> Nat]
<1>1. DebitSteps \subseteq UseSteps /\ "save-earning" \in UseSteps
  BY DEF DebitSteps, UseSteps
<1>2. \A w \in Workers : pc[w] \in UseSteps => req[w].n \in Nat
  BY DEF Using
<1>3. \A w \in Workers : pc[w] \in UseSteps =>
        Fee(req[w].n) \in Nat /\ req[w].n - Fee(req[w].n) \in Nat
  BY <1>2, FeeNat
<1>4. Undebited \in [Workers -> Nat] /\ Unpaid \in [Workers -> Nat]
  BY <1>1, <1>2 DEF Undebited, Unpaid
<1>5. \A base : Owed(base) \in [Workers -> Nat]
  BY <1>2 DEF Owed
<1>6. Ahead \in [Workers -> Nat]
  BY <1>1, <1>2 DEF Ahead
<1>7. AheadFee \in [Workers -> Nat]
  BY <1>1, <1>3 DEF AheadFee
<1>8. AheadNet \in [Workers -> Nat]
  BY <1>1, <1>3 DEF AheadNet
<1> QED BY <1>4, <1>5, <1>6, <1>7, <1>8

LEMMA TotalsNat ==
  ASSUME \A w \in Workers : Using(w)
  PROVE  /\ Total(Undebited) \in Nat /\ Total(Unpaid) \in Nat
         /\ \A base : Total(Owed(base)) \in Nat
         /\ Total(Ahead) \in Nat /\ Total(AheadFee) \in Nat /\ Total(AheadNet) \in Nat
BY AmountsNat, TotalNat, BillingAssumption

LEMMA ColumnsNat ==
  ASSUME BookRows
  PROVE  /\ debits \in [1 .. Len(debits) -> Nat] /\ UseAmount \in [1 .. Len(uses) -> Nat]
         /\ \A base : UseFor(base) \in [1 .. Len(uses) -> Nat]
         /\ EarnGross \in [1 .. Len(earnings) -> Nat] /\ EarnFee \in [1 .. Len(earnings) -> Nat]
         /\ EarnNet \in [1 .. Len(earnings) -> Nat]
         /\ \A base : OfBase(base, EarnGross) \in [1 .. Len(earnings) -> Nat]
         /\ Len(debits) \in Nat /\ Len(uses) \in Nat /\ Len(earnings) \in Nat
<1>1. /\ Len(debits) \in Nat /\ DOMAIN debits = 1 .. Len(debits)
      /\ \A n \in DOMAIN debits : debits[n] \in Nat
  BY DEF BookRows
<1>2. Len(uses) \in Nat /\ DOMAIN uses = 1 .. Len(uses) /\ \A n \in DOMAIN uses : uses[n].amount \in Nat
  <2>1. Len(uses) \in Nat /\ DOMAIN uses = 1 .. Len(uses) /\ \A n \in DOMAIN uses : uses[n] \in UseRow
    BY DEF BookRows
  <2> QED BY <2>1 DEF UseRow
<1>3. /\ Len(earnings) \in Nat /\ DOMAIN earnings = 1 .. Len(earnings)
      /\ \A n \in DOMAIN earnings :
           earnings[n].gross \in Nat /\ earnings[n].fee \in Nat /\ earnings[n].net \in Nat
  <2>1. /\ Len(earnings) \in Nat /\ DOMAIN earnings = 1 .. Len(earnings)
        /\ \A n \in DOMAIN earnings : earnings[n] \in EarningRow
    BY DEF BookRows
  <2> QED BY <2>1 DEF EarningRow
<1>4. debits \in [1 .. Len(debits) -> Nat]
  BY <1>1 DEF BookRows
<1>5. UseAmount \in [1 .. Len(uses) -> Nat]
  BY <1>2 DEF UseAmount
<1>6. \A base : UseFor(base) \in [1 .. Len(uses) -> Nat]
  BY <1>2 DEF UseFor
<1>7. /\ EarnGross \in [1 .. Len(earnings) -> Nat] /\ EarnFee \in [1 .. Len(earnings) -> Nat]
      /\ EarnNet \in [1 .. Len(earnings) -> Nat]
  BY <1>3 DEF EarnGross, EarnFee, EarnNet
<1>8. \A base : OfBase(base, EarnGross) \in [1 .. Len(earnings) -> Nat]
  BY <1>3, <1>7 DEF OfBase
<1> QED BY <1>1, <1>2, <1>3, <1>4, <1>5, <1>6, <1>7, <1>8

LEMMA UsedIs ==
  ASSUME NEW base
  PROVE  Used(base) = Total(UseFor(base))
BY DEF Used, UseFor

LEMMA EarnedIs ==
  ASSUME NEW base
  PROVE  Earned(base) = Total(OfBase(base, EarnGross))
<1>1. [n \in DOMAIN earnings |-> IF earnings[n].base = base THEN earnings[n].gross ELSE 0]
        = OfBase(base, EarnGross)
  BY DEF OfBase, EarnGross
<1> QED BY <1>1 DEF Earned

LEMMA ColumnTotals ==
  ASSUME BookRows
  PROVE  /\ Total(debits) \in Nat /\ Total(UseAmount) \in Nat
         /\ \A base : Used(base) \in Nat /\ Earned(base) \in Nat
         /\ Total(Offered) \in Nat
         /\ Total(EarnGross) \in Nat /\ Total(EarnFee) \in Nat /\ Total(EarnNet) \in Nat
         /\ PaidGross \in Nat /\ PaidFee \in Nat /\ PaidNet \in Nat
<1>0. IsFiniteSet(1 .. Len(debits)) /\ IsFiniteSet(1 .. Len(uses)) /\ IsFiniteSet(1 .. Len(earnings))
  BY ColumnsNat, FS_Interval
<1>1. /\ Total(debits) \in Nat /\ Total(UseAmount) \in Nat
      /\ Total(EarnGross) \in Nat /\ Total(EarnFee) \in Nat /\ Total(EarnNet) \in Nat
  BY <1>0, ColumnsNat, TotalNat
<1>2. \A base : Used(base) \in Nat
  BY <1>0, ColumnsNat, TotalNat, UsedIs
<1>3. \A base : Earned(base) \in Nat
  BY <1>0, ColumnsNat, TotalNat, EarnedIs
<1>4. Total(Offered) \in Nat
  <2>1. Offered \in [Bases -> Nat]
    BY <1>2 DEF Offered
  <2> QED BY <2>1, TotalNat, BillingAssumption
<1>5. PaidGross \in Nat /\ PaidFee \in Nat /\ PaidNet \in Nat
  BY DEF BookRows, PayoutRow, PaidGross, PaidFee, PaidNet
<1> QED BY <1>1, <1>2, <1>3, <1>4, <1>5

\* The invariant says what is wanted.
LEMMA LedgerBalances == Ledger => BooksBalance
<1> SUFFICES ASSUME Ledger PROVE BooksBalance
  OBVIOUS
<1>0. BookRows /\ \A w \in Workers : Using(w)
  BY DEF Ledger, Sound
<1>1. Total(debits) <= Total(UseAmount)
  BY <1>0, ColumnTotals, TotalsNat DEF Ledger, Debited
<1>2. ASSUME NEW base \in Bases PROVE Earned(base) <= Used(base)
  <2>1. PICK most \in [DOMAIN earnings -> Nat] :
          /\ \A n \in DOMAIN earnings : earnings[n].gross <= most[n]
          /\ Total(OfBase(base, most)) + Total(Owed(base)) <= Used(base)
    BY DEF Ledger, EarnedOnce
  <2>2. DOMAIN earnings = 1 .. Len(earnings) /\ IsFiniteSet(1 .. Len(earnings))
    BY <1>0, ColumnsNat, FS_Interval DEF BookRows
  <2>3. OfBase(base, most) \in [1 .. Len(earnings) -> Nat]
    BY <2>1, <2>2 DEF OfBase
  <2>4. \A n \in 1 .. Len(earnings) : OfBase(base, EarnGross)[n] <= OfBase(base, most)[n]
    BY <2>1, <2>2 DEF OfBase, EarnGross
  <2>5. Total(OfBase(base, EarnGross)) <= Total(OfBase(base, most))
    BY <1>0, <2>2, <2>3, <2>4, ColumnsNat, TotalLeast
  <2>6. Total(OfBase(base, most)) \in Nat
    BY <2>2, <2>3, TotalNat
  <2> QED BY <1>0, <2>1, <2>5, <2>6, EarnedIs, ColumnTotals, TotalsNat
<1>3. PaidGross <= Total(Offered)
  BY <1>0, ColumnTotals, TotalsNat DEF Ledger, PaidOnce
<1>4. ASSUME \A w \in Workers : req[w].op # "use", Unmarked
      PROVE  /\ Total(debits) = Total(UseAmount)
             /\ \A base \in Bases : Earned(base) = Used(base)
             /\ PaidGross = Total(EarnGross) /\ PaidFee = Total(EarnFee) /\ PaidNet = Total(EarnNet)
             /\ payout = None => earnings = <<>>
  <2>1. \A w \in Workers : pc[w] \notin UseSteps
    BY <1>0, <1>4 DEF Using
  <2>2. /\ Undebited \in [Workers -> {0}] /\ \A base : Owed(base) \in [Workers -> {0}]
        /\ Ahead \in [Workers -> {0}] /\ AheadFee \in [Workers -> {0}]
        /\ AheadNet \in [Workers -> {0}]
    BY <2>1 DEF Undebited, Owed, Ahead, AheadFee, AheadNet, UseSteps, DebitSteps
  <2>3. /\ Total(Undebited) = 0 /\ \A base : Total(Owed(base)) = 0
        /\ Total(Ahead) = 0 /\ Total(AheadFee) = 0 /\ Total(AheadNet) = 0
    BY <2>2, TotalZero, BillingAssumption
  <2>4. Total(debits) = Total(UseAmount)
    BY <1>0, <1>4, <2>3, ColumnTotals DEF Ledger, Debited, Unmarked
  <2>5. \A base \in Bases : Earned(base) = Used(base)
    BY <1>0, <1>4, <2>3, ColumnTotals DEF Ledger, EarnedAll
  <2>6. PaidGross = Total(EarnGross) /\ PaidFee = Total(EarnFee) /\ PaidNet = Total(EarnNet)
    BY <1>0, <1>4, <2>3, ColumnTotals DEF Ledger, PaidAll
  <2> QED BY <2>4, <2>5, <2>6 DEF Ledger, PaidFirst
<1> QED BY <1>1, <1>2, <1>3, <1>4
        DEF BooksBalance, UseAmount, Offered, EarnGross, EarnFee, EarnNet, PaidGross, PaidFee,
            PaidNet, Unmarked

\* All of it numbers.
Numbered ==
  /\ Undebited \in [Workers -> Nat] /\ Unpaid \in [Workers -> Nat]
  /\ \A base : Owed(base) \in [Workers -> Nat]
  /\ Ahead \in [Workers -> Nat] /\ AheadFee \in [Workers -> Nat] /\ AheadNet \in [Workers -> Nat]
  /\ Total(Undebited) \in Nat /\ Total(Unpaid) \in Nat
  /\ \A base : Total(Owed(base)) \in Nat
  /\ Total(Ahead) \in Nat /\ Total(AheadFee) \in Nat /\ Total(AheadNet) \in Nat
  /\ Total(debits) \in Nat /\ Total(UseAmount) \in Nat
  /\ \A base : Used(base) \in Nat /\ Earned(base) \in Nat
  /\ Total(Offered) \in Nat
  /\ Total(EarnGross) \in Nat /\ Total(EarnFee) \in Nat /\ Total(EarnNet) \in Nat
  /\ PaidGross \in Nat /\ PaidFee \in Nat /\ PaidNet \in Nat

LEMMA Numbers == Sound => Numbered
BY AmountsNat, TotalsNat, ColumnTotals DEF Sound, Numbered

LEMMA NumbersNext == Sound' => Numbered'
BY Numbers, PTL

\* A use that ends early, or goes on, owes no more than before.
LEMMA DebitedKept ==
  ASSUME Ledger, Sound', UNCHANGED <<uses, debits>>, untold \subseteq untold',
         \A v \in Workers : Undebited'[v] <= Undebited[v],
         Books \notin untold' => Undebited' = Undebited
  PROVE  Debited'
<1>1. Numbered /\ Numbered'
  BY Numbers, NumbersNext DEF Ledger
<1>2. Total(Undebited') <= Total(Undebited)
  BY <1>1, TotalLeast, BillingAssumption DEF Numbered
<1>3. UseAmount' = UseAmount /\ debits' = debits
  BY DEF UseAmount
<1>4. Total(debits) + Total(Undebited) <= Total(UseAmount)
  BY DEF Ledger, Debited
<1>5. Total(debits') + Total(Undebited') <= Total(UseAmount')
  BY <1>1, <1>2, <1>3, <1>4 DEF Numbered
<1>6. ASSUME Books \notin untold' PROVE Total(debits') + Total(Undebited') = Total(UseAmount')
  BY <1>3, <1>6 DEF Ledger, Debited
<1> QED BY <1>5, <1>6 DEF Debited

LEMMA EarnedOnceKept ==
  ASSUME Ledger, Sound', UNCHANGED <<uses, earnings>>,
         \A base \in Bases : \A v \in Workers : Owed(base)'[v] <= Owed(base)[v],
         \A v \in Workers : pc'[v] \in CopySteps /\ copy'[v].id # 0 =>
           \/ pc[v] \in CopySteps /\ copy'[v].id = copy[v].id /\ copy'[v].earning = copy[v].earning
           \/ copy'[v].id \in DOMAIN earnings /\ copy'[v].earning = earnings[copy'[v].id]
  PROVE  EarnedOnce'
<1>1. Numbered /\ Numbered'
  BY Numbers, NumbersNext DEF Ledger
<1>2. PICK most \in [DOMAIN earnings -> Nat] :
        /\ \A n \in DOMAIN earnings : earnings[n].gross <= most[n]
        /\ \A w \in Workers : pc[w] \in CopySteps /\ copy[w].id # 0 =>
                                copy[w].earning.gross <= most[copy[w].id]
        /\ \A base \in Bases : Total(OfBase(base, most)) + Total(Owed(base)) <= Used(base)
  BY DEF Ledger, EarnedOnce
<1>3. ASSUME NEW base \in Bases
      PROVE  Total(OfBase(base, most)') + Total(Owed(base)') <= Used(base)'
  <2>1. OfBase(base, most)' = OfBase(base, most) /\ Used(base)' = Used(base)
    BY DEF OfBase, Used
  <2>2. Total(Owed(base)') <= Total(Owed(base))
    BY <1>1, TotalLeast, BillingAssumption DEF Numbered
  <2>3. Total(OfBase(base, most)) \in Nat
    <3>1. DOMAIN earnings = 1 .. Len(earnings) /\ IsFiniteSet(1 .. Len(earnings))
      BY FS_Interval DEF Ledger, Sound, BookRows
    <3>2. OfBase(base, most) \in [1 .. Len(earnings) -> Nat]
      BY <3>1 DEF OfBase
    <3> QED BY <3>1, <3>2, TotalNat
  <2>4. Total(OfBase(base, most)) + Total(Owed(base)) <= Used(base)
    BY <1>2
  <2> QED BY <1>1, <2>1, <2>2, <2>3, <2>4 DEF Numbered
<1>4. \A w \in Workers : pc'[w] \in CopySteps /\ copy'[w].id # 0 =>
                           copy'[w].earning.gross <= most[copy'[w].id]
  BY <1>2
<1>5. most \in [DOMAIN earnings' -> Nat] /\ \A n \in DOMAIN earnings' : earnings'[n].gross <= most[n]
  BY <1>2
<1> QED BY <1>3, <1>4, <1>5 DEF EarnedOnce

LEMMA EarnedAllKept ==
  ASSUME Ledger, UNCHANGED <<uses, earnings>>,
         Unmarked' => Unmarked /\ \A base \in Bases : Owed(base)' = Owed(base)
  PROVE  EarnedAll'
<1>1. \A base : Used(base)' = Used(base) /\ Earned(base)' = Earned(base)
  BY DEF Used, Earned
<1> QED BY <1>1 DEF Ledger, EarnedAll

LEMMA PaidOnceKept ==
  ASSUME Ledger, Sound', UNCHANGED uses, PaidGross' = PaidGross,
         \A v \in Workers : Unpaid'[v] <= Unpaid[v],
         \A v \in Workers : pc'[v] \in CopySteps /\ copy'[v].payout # None =>
           \/ pc[v] \in CopySteps /\ copy'[v].payout = copy[v].payout
           \/ payout # None /\ copy'[v].payout = payout
  PROVE  PaidOnce'
<1>1. Numbered /\ Numbered'
  BY Numbers, NumbersNext DEF Ledger
<1>2. Total(Unpaid') <= Total(Unpaid)
  BY <1>1, TotalLeast, BillingAssumption DEF Numbered
<1>3. Offered' = Offered
  BY DEF Offered, Used
<1>4. PaidGross + Total(Unpaid) <= Total(Offered)
  BY DEF Ledger, PaidOnce
<1>5. ASSUME NEW v \in Workers, pc'[v] \in CopySteps, copy'[v].payout # None
      PROVE  copy'[v].payout.gross + Total(Unpaid') <= Total(Offered)
  <2>1. copy'[v].payout.gross + Total(Unpaid) <= Total(Offered)
    BY <1>4, <1>5 DEF Ledger, PaidOnce, PaidGross
  <2>2. copy'[v].payout.gross \in Nat
    BY <1>5 DEF Sound, Using, CopySteps, UseSteps, PayoutRow
  <2> QED BY <1>1, <1>2, <2>1, <2>2 DEF Numbered
<1>6. PaidGross' + Total(Unpaid') <= Total(Offered')
  BY <1>1, <1>2, <1>3, <1>4 DEF Numbered
<1> QED BY <1>3, <1>5, <1>6 DEF PaidOnce

LEMMA PaidAllKept ==
  ASSUME Ledger, UNCHANGED earnings,
         PaidGross' = PaidGross, PaidFee' = PaidFee, PaidNet' = PaidNet,
         Unmarked' => Unmarked /\ Ahead' = Ahead /\ AheadFee' = AheadFee /\ AheadNet' = AheadNet
  PROVE  PaidAll'
<1>1. EarnGross' = EarnGross /\ EarnFee' = EarnFee /\ EarnNet' = EarnNet
  BY DEF EarnGross, EarnFee, EarnNet
<1> QED BY <1>1 DEF Ledger, PaidAll

\* A use goes on without adding to a table, or a request ends: which is marked when it
\* was a use.
Remains(v) ==
  /\ pc[v] \in UseSteps /\ pc'[v] \in UseSteps /\ req'[v] = req[v]
  /\ pc'[v] \in DebitSteps <=> pc[v] \in DebitSteps
  /\ pc'[v] = "save-earning" <=> pc[v] = "save-earning"

Ends(v) == pc'[v] \notin UseSteps /\ (pc[v] \in UseSteps => Books \in untold')

\* A copy is kept, or made of the rows as they are.
Copies(v) ==
  pc'[v] \in CopySteps =>
    \/ /\ pc[v] \in CopySteps /\ copy'[v].id = copy[v].id /\ copy'[v].earning = copy[v].earning
       /\ copy'[v].payout \in {copy[v].payout, payout}
    \/ /\ copy'[v].payout = None
       /\ copy'[v].id # 0 => copy'[v].id \in DOMAIN earnings /\ copy'[v].earning = earnings[copy'[v].id]

LEMMA LedgerKept ==
  ASSUME Ledger, Sound', UNCHANGED <<uses, debits, earnings>>,
         PaidGross' = PaidGross, PaidFee' = PaidFee, PaidNet' = PaidNet,
         payout' = None => payout = None, stale \subseteq stale', untold \subseteq untold',
         \A v \in Workers : (Remains(v) \/ Ends(v)) /\ Copies(v)
  PROVE  Ledger'
<1>0. Numbered
  BY Numbers DEF Ledger
<1>1. DebitSteps \subseteq UseSteps /\ "save-earning" \in UseSteps
  BY DEF DebitSteps, UseSteps
<1>2. Unmarked' => Unmarked
  BY DEF Unmarked
<1>3. ASSUME NEW v \in Workers
      PROVE  /\ Undebited'[v] <= Undebited[v] /\ Unpaid'[v] <= Unpaid[v]
             /\ \A base : Owed(base)'[v] <= Owed(base)[v]
  <2>0. Undebited[v] \in Nat /\ Unpaid[v] \in Nat /\ \A base : Owed(base)[v] \in Nat
    BY <1>0 DEF Numbered
  <2>1. CASE Remains(v)
    <3>1. Undebited'[v] = Undebited[v] /\ Unpaid'[v] = Unpaid[v]
      BY <1>1, <2>1 DEF Remains, Undebited, Unpaid
    <3>2. \A base : Owed(base)'[v] = Owed(base)[v]
      BY <1>1, <2>1 DEF Remains, Owed
    <3> QED BY <2>0, <3>1, <3>2
  <2>2. CASE Ends(v)
    <3>1. Undebited'[v] = 0 /\ Unpaid'[v] = 0 /\ \A base : Owed(base)'[v] = 0
      BY <1>1, <2>2 DEF Ends, Undebited, Unpaid, Owed
    <3> QED BY <2>0, <3>1
  <2> QED BY <2>1, <2>2
<1>4. ASSUME Books \notin untold'
      PROVE  /\ Undebited' = Undebited /\ \A base : Owed(base)' = Owed(base)
             /\ Ahead' = Ahead /\ AheadFee' = AheadFee /\ AheadNet' = AheadNet
  <2>1. \A v \in Workers : \/ Remains(v)
                           \/ pc[v] \notin UseSteps /\ pc'[v] \notin UseSteps
    BY <1>4 DEF Ends
  <2>2. Undebited' = Undebited
    BY <1>1, <2>1 DEF Undebited, Remains
  <2>3. \A base : Owed(base)' = Owed(base)
    BY <2>1 DEF Owed, Remains
  <2>4. Ahead' = Ahead /\ AheadFee' = AheadFee /\ AheadNet' = AheadNet
    BY <1>1, <2>1 DEF Ahead, AheadFee, AheadNet, Remains
  <2> QED BY <2>2, <2>3, <2>4
<1>5. Debited'
  BY <1>3, <1>4, DebitedKept
<1>6. EarnedOnce'
  BY <1>3, EarnedOnceKept DEF Copies
<1>7. EarnedAll'
  BY <1>2, <1>4, EarnedAllKept DEF Unmarked
<1>8. PaidOnce'
  <2>1. \A v \in Workers : pc'[v] \in CopySteps /\ copy'[v].payout # None =>
          \/ pc[v] \in CopySteps /\ copy'[v].payout = copy[v].payout
          \/ payout # None /\ copy'[v].payout = payout
    BY DEF Copies
  <2> QED BY <1>3, <2>1, PaidOnceKept
<1>9. PaidAll'
  BY <1>2, <1>4, PaidAllKept DEF Unmarked
<1>10. PaidFirst'
  <2>1. \A v \in Workers : pc'[v] = "save-earning" => pc[v] = "save-earning"
    BY <1>1 DEF Remains, Ends
  <2> QED BY <2>1 DEF Ledger, PaidFirst
<1> QED BY <1>5, <1>6, <1>7, <1>8, <1>9, <1>10 DEF Ledger

LEMMA UsingStays ==
  ASSUME NEW v \in Workers, Using(v), pc'[v] = pc[v], req'[v] = req[v], copy'[v] = copy[v],
         \A n \in DOMAIN earnings : n \in DOMAIN earnings' /\ earnings'[n].base = earnings[n].base
  PROVE  Using(v)'
BY DEF Using

LEMMA UsingElse ==
  ASSUME NEW v \in Workers, pc'[v] \notin UseSteps
  PROVE  Using(v)'
BY DEF Using

\* The other services.
LEMMA LedgerElsewhere ==
  ASSUME Ledger, Spared, untold \subseteq untold', UNCHANGED billVars
  PROVE  Ledger'
<1>1. UNCHANGED <<uses, debits, earnings, payout>>
  BY DEF billVars, books
<1>2. Sound'
  <2>1. BookRows'
    BY <1>1 DEF Ledger, Sound, BookRows
  <2>2. ASSUME NEW v \in Workers PROVE Using(v)'
    BY <1>1, UsingStays, UsingElse DEF Ledger, Sound, Spared
  <2> QED BY <2>1, <2>2 DEF Sound
<1>3. PaidGross' = PaidGross /\ PaidFee' = PaidFee /\ PaidNet' = PaidNet
  BY <1>1 DEF PaidGross, PaidFee, PaidNet
<1>4. ASSUME NEW v \in Workers PROVE (Remains(v) \/ Ends(v)) /\ Copies(v)
  BY DEF Spared, Remains, Ends, Copies, CopySteps, UseSteps
<1>5. stale \subseteq stale'
  BY DEF Spared
<1> QED BY <1>1, <1>2, <1>3, <1>4, <1>5, LedgerKept

\* A step of one request that adds nothing.
LEMMA LedgerMoves ==
  ASSUME Ledger, NEW w \in Workers, NEW S, Moves(w, S), BookRows', UNCHANGED <<uses, debits, earnings>>,
         PaidGross' = PaidGross, PaidFee' = PaidFee, PaidNet' = PaidNet,
         payout' = None => payout = None, untold \subseteq untold',
         Using(w)', Remains(w) \/ Ends(w), Copies(w)
  PROVE  Ledger'
<1>1. ASSUME NEW v \in Workers PROVE Using(v)'
  BY UsingStays DEF Moves, Ledger, Sound
<1>2. ASSUME NEW v \in Workers PROVE (Remains(v) \/ Ends(v)) /\ Copies(v)
  <2>1. CASE v # w
    BY <2>1 DEF Moves, Remains, Ends, Copies
  <2> QED BY <2>1
<1> QED BY <1>1, <1>2, LedgerKept DEF Moves, Sound

LEMMA LedgerEnds ==
  ASSUME Ledger, Locals, NEW w \in Workers, Answer(w), UNCHANGED <<uses, debits, earnings, payout>>,
         untold \subseteq untold', pc[w] \in UseSteps => Books \in untold'
  PROVE  Ledger'
<1>1. Moves(w, {"idle"}) /\ pc'[w] = "idle"
  BY AnswerMoves
<1>2. BookRows'
  BY DEF Ledger, Sound, BookRows
<1>3. PaidGross' = PaidGross /\ PaidFee' = PaidFee /\ PaidNet' = PaidNet
  BY DEF PaidGross, PaidFee, PaidNet
<1>4. Using(w)' /\ Ends(w) /\ Copies(w)
  BY <1>1 DEF Using, Ends, Copies, UseSteps, CopySteps
<1> QED BY <1>1, <1>2, <1>3, <1>4, LedgerMoves

LEMMA LedgerAbandons ==
  ASSUME Ledger, Locals, NEW w \in Workers, Abandon(w), UNCHANGED billVars
  PROVE  Ledger'
<1>1. UNCHANGED <<uses, debits, earnings, payout>>
  BY DEF billVars, books
<1>2. pc[w] \in UseSteps => Books \in untold'
  BY DEF Abandon, UseSteps, Telling, Ledger, Sound, Using
<1>3. Answer(w) /\ untold \subseteq untold'
  BY DEF Abandon
<1> QED BY <1>1, <1>2, <1>3, LedgerEnds

\* The account is looked up or opened.
LEMMA LedgerAccount ==
  ASSUME Ledger, Locals, NEW w \in Workers, GetAccount(w) \/ CreateAccount(w)
  PROVE  Ledger'
<1>1. UNCHANGED <<uses, debits, earnings, payout>> /\ pc[w] \in {"account", "open-account"}
  BY DEF GetAccount, CreateAccount, billVars, books
<1>2. ASSUME NEW step \in DebitSteps, Goto(w, step), UNCHANGED untold PROVE Ledger'
  <2>1. Moves(w, {step}) /\ pc'[w] = step /\ req' = req
    BY <1>2, GotoMoves
  <2>2. BookRows'
    BY <1>1 DEF Ledger, Sound, BookRows
  <2>3. PaidGross' = PaidGross /\ PaidFee' = PaidFee /\ PaidNet' = PaidNet
    BY <1>1 DEF PaidGross, PaidFee, PaidNet
  <2>4. Using(w)'
    BY <1>1, <2>1 DEF Ledger, Sound, Using, UseSteps, DebitSteps, CopySteps
  <2>5. Remains(w) /\ Copies(w)
    BY <1>1, <2>1 DEF Remains, Copies, UseSteps, DebitSteps, CopySteps
  <2> QED BY <1>1, <1>2, <2>1, <2>2, <2>3, <2>4, <2>5, LedgerMoves
<1>3. ASSUME Fails(w) PROVE Ledger'
  BY <1>1, <1>3, LedgerEnds DEF Fails
<1>4. CASE GetAccount(w)
  BY <1>2, <1>4 DEF GetAccount, DebitSteps, notice
<1>5. CASE CreateAccount(w)
  BY <1>2, <1>3, <1>5 DEF CreateAccount, DebitSteps, notice
<1> QED BY <1>4, <1>5

\* The rows are read.
LEMMA LedgerReads ==
  ASSUME Ledger, Locals, NEW w \in Workers, GetEarning(w) \/ GetPayout(w)
  PROVE  Ledger'
<1>1. UNCHANGED <<uses, debits, earnings, payout, untold>>
  BY DEF GetEarning, GetPayout, billVars, books, notice
<1>2. BookRows'
  BY <1>1 DEF Ledger, Sound, BookRows
<1>3. PaidGross' = PaidGross /\ PaidFee' = PaidFee /\ PaidNet' = PaidNet
  BY <1>1 DEF PaidGross, PaidFee, PaidNet
<1>4. ASSUME NEW row, NEW step \in {"payout", "save-payout"}, Keep(w, row, step),
             pc[w] \in {"earning", "payout"}, Using(w)', Copies(w)
      PROVE  Ledger'
  <2>1. Moves(w, {step}) /\ pc'[w] = step /\ req' = req
    BY <1>4, KeepMoves
  <2>2. Remains(w)
    BY <1>4, <2>1 DEF Remains, UseSteps, DebitSteps
  <2> QED BY <1>1, <1>2, <1>3, <1>4, <2>1, <2>2, LedgerMoves
<1>5. CASE GetEarning(w)
  <2>0. pc[w] = "earning" /\ req[w].on \in Bases /\ Using(w)
    BY <1>5 DEF GetEarning, Ledger, Sound, Using, UseSteps
  <2> DEFINE rows == {n \in DOMAIN earnings : earnings[n].base = req[w].on}
             new == [base |-> req[w].on, gross |-> 0, fee |-> 0, net |-> 0]
  <2>1. PICK n \in IF rows = {} THEN {0} ELSE rows :
          Keep(w, [id |-> n, payout |-> None, earning |-> IF n = 0 THEN new ELSE earnings[n]], "payout")
    BY <1>5 DEF GetEarning
  <2> DEFINE row == [id |-> n, payout |-> None, earning |-> IF n = 0 THEN new ELSE earnings[n]]
  <2>2. n = 0 \/ (n \in DOMAIN earnings /\ earnings[n].base = req[w].on /\ n # 0)
    <3>1. \A m \in DOMAIN earnings : m # 0
      BY DEF Ledger, Sound, BookRows
    <3>2. \A m \in rows : m \in DOMAIN earnings /\ earnings[m].base = req[w].on
      OBVIOUS
    <3>3. n \in IF rows = {} THEN {0} ELSE rows
      BY <2>1
    <3> HIDE DEF rows
    <3>4. n = 0 \/ n \in rows
      BY <3>3
    <3> QED BY <3>1, <3>2, <3>4
  <2>3. n \in Nat /\ \A m \in DOMAIN earnings : earnings[m] \in EarningRow
    BY <2>2 DEF Ledger, Sound, BookRows
  <2>4. new \in EarningRow
    BY <2>0 DEF EarningRow
  <2>5. /\ row \in [id : Nat, payout : PayoutRow \union {None}, earning : EarningRow]
        /\ row.earning.base = req[w].on /\ row.id = n /\ row.payout = None
        /\ n = 0 => row.earning.gross = 0 /\ row.earning.fee = 0 /\ row.earning.net = 0
        /\ n # 0 => row.earning = earnings[n]
    BY <2>2, <2>3, <2>4
  <2> HIDE DEF row
  <2>6. Keep(w, row, "payout")
    BY <2>1 DEF row
  <2>7. pc'[w] = "payout" /\ req' = req /\ copy'[w] = row
    BY <2>6, KeepMoves, ZenonT(30)
  <2>8. Using(w)'
    BY <1>1, <2>0, <2>2, <2>5, <2>7 DEF Using, UseSteps, DebitSteps, CopySteps
  <2>9. Copies(w)
    BY <2>2, <2>5, <2>7 DEF Copies
  <2> QED BY <1>4, <2>0, <2>6, <2>8, <2>9
<1>6. CASE GetPayout(w)
  <2>0. pc[w] = "payout" /\ Using(w) /\ Keep(w, [copy[w] EXCEPT !.payout = payout], "save-payout")
    BY <1>6 DEF GetPayout, Ledger, Sound
  <2> DEFINE row == [copy[w] EXCEPT !.payout = payout]
  <2>1. copy[w] \in [id : Nat, payout : PayoutRow \union {None}, earning : EarningRow]
    BY <2>0 DEF Using, UseSteps, CopySteps
  <2>2. /\ row \in [id : Nat, payout : PayoutRow \union {None}, earning : EarningRow]
        /\ row.id = copy[w].id /\ row.earning = copy[w].earning /\ row.payout = payout
    BY <2>1 DEF Ledger, Sound, BookRows
  <2> HIDE DEF row
  <2>3. Keep(w, row, "save-payout")
    BY <2>0 DEF row
  <2>4. pc'[w] = "save-payout" /\ req' = req /\ copy'[w] = row
    BY <2>3, KeepMoves
  <2>5. Using(w)'
    BY <1>1, <2>0, <2>2, <2>4 DEF Using, UseSteps, DebitSteps, CopySteps
  <2>6. Copies(w)
    BY <2>0, <2>2, <2>4 DEF Copies, CopySteps
  <2> QED BY <1>4, <2>0, <2>3, <2>5, <2>6
<1> QED BY <1>5, <1>6

\* A payout is paid, and invoices are dealt with.
LEMMA LedgerAudited ==
  ASSUME Ledger, Locals, NEW w \in Workers,
         \/ MarkPayoutPaid(w) \/ CreateInvoice(w) \/ MarkInvoicePaid(w)
         \/ RequestRefund(w) \/ ResolveRefund(w) \/ OpenDispute(w) \/ ResolveDispute(w)
  PROVE  Ledger'
<1>1. PICK r : Begin(w, r, "audit")
  BY DEF MarkPayoutPaid, CreateInvoice, MarkInvoicePaid, RequestRefund, ResolveRefund, OpenDispute,
         ResolveDispute
<1>2. Moves(w, {"audit"}) /\ pc'[w] = "audit" /\ pc[w] = "idle"
  BY <1>1, BeginMoves, ZenonT(30) DEF Begin, Accepts
<1>3. UNCHANGED <<uses, debits, earnings, untold>>
  BY DEF MarkPayoutPaid, CreateInvoice, MarkInvoicePaid, RequestRefund, ResolveRefund, OpenDispute,
         ResolveDispute, notice, books
<1>4. UNCHANGED payout \/ (payout # None /\ payout' = [payout EXCEPT !.status = "paid"])
  BY DEF MarkPayoutPaid, CreateInvoice, MarkInvoicePaid, RequestRefund, ResolveRefund, OpenDispute,
         ResolveDispute, books
<1>5. payout \in PayoutRow \union {None}
  BY DEF Ledger, Sound, BookRows
<1>6. /\ payout' \in PayoutRow \union {None} /\ (payout' = None => payout = None)
      /\ PaidGross' = PaidGross /\ PaidFee' = PaidFee /\ PaidNet' = PaidNet
  <2>1. CASE UNCHANGED payout
    BY <1>5, <2>1 DEF PaidGross, PaidFee, PaidNet
  <2>2. CASE payout # None /\ payout' = [payout EXCEPT !.status = "paid"]
    <3>1. /\ payout' \in PayoutRow /\ payout'.gross = payout.gross /\ payout'.fee = payout.fee
          /\ payout'.net = payout.net
      BY <1>5, <2>2 DEF PayoutRow
    <3> QED BY <2>2, <3>1, BillingAssumption DEF PaidGross, PaidFee, PaidNet
  <2> QED BY <1>4, <2>1, <2>2
<1>7. BookRows'
  BY <1>3, <1>6 DEF Ledger, Sound, BookRows
<1>8. Using(w)' /\ Ends(w) /\ Copies(w)
  BY <1>2 DEF Using, Ends, Copies, UseSteps, CopySteps
<1> QED BY <1>2, <1>3, <1>6, <1>7, <1>8, LedgerMoves

\* One value grows, and the sum by as much.
LEMMA TotalGrows ==
  ASSUME NEW D, IsFiniteSet(D), NEW f \in [D -> Nat], NEW g \in [D -> Nat], NEW d \in D, NEW n \in Nat,
         \A x \in D \ {d} : g[x] = f[x], g[d] = f[d] + n
  PROVE  Total(g) = Total(f) + n
<1>1. Total(g) + f[d] = Total(f) + g[d]
  BY TotalChange
<1>2. Total(f) \in Nat /\ Total(g) \in Nat
  BY TotalNat
<1>3. f[d] \in Nat
  OBVIOUS
<1> QED BY <1>1, <1>2, <1>3

LEMMA OfferedGrows ==
  ASSUME Numbered, Numbered', NEW d \in Bases, NEW n \in Nat,
         \A b \in Bases \ {d} : Used(b)' = Used(b), Used(d)' = Used(d) + n
  PROVE  Total(Offered') = Total(Offered) + n
<1>1. Offered \in [Bases -> Nat] /\ Offered' \in [Bases -> Nat]
  BY DEF Offered, Numbered
<1>2. (\A b \in Bases \ {d} : Offered'[b] = Offered[b]) /\ Offered'[d] = Offered[d] + n
  BY DEF Offered
<1> QED BY <1>1, <1>2, TotalGrows, BillingAssumption

\* One request moves: its amounts change, and the sums by as much.
LEMMA AmountsMove ==
  ASSUME Sound, Sound', NEW w \in Workers, NEW S, Moves(w, S)
  PROVE  /\ Total(Undebited') + Undebited[w] = Total(Undebited) + Undebited'[w]
         /\ Total(Unpaid') + Unpaid[w] = Total(Unpaid) + Unpaid'[w]
         /\ \A base : Total(Owed(base)') + Owed(base)[w] = Total(Owed(base)) + Owed(base)'[w]
         /\ Total(Ahead') + Ahead[w] = Total(Ahead) + Ahead'[w]
         /\ Total(AheadFee') + AheadFee[w] = Total(AheadFee) + AheadFee'[w]
         /\ Total(AheadNet') + AheadNet[w] = Total(AheadNet) + AheadNet'[w]
<1>0. Numbered /\ Numbered'
  BY Numbers, NumbersNext
<1>1. \A v \in Workers \ {w} : pc'[v] = pc[v] /\ req'[v] = req[v]
  BY DEF Moves
<1>2. \A v \in Workers \ {w} : Undebited'[v] = Undebited[v] /\ Unpaid'[v] = Unpaid[v]
  BY <1>1 DEF Undebited, Unpaid
<1>3. \A base : \A v \in Workers \ {w} : Owed(base)'[v] = Owed(base)[v]
  BY <1>1 DEF Owed
<1>4. \A v \in Workers \ {w} : /\ Ahead'[v] = Ahead[v] /\ AheadFee'[v] = AheadFee[v]
                              /\ AheadNet'[v] = AheadNet[v]
  BY <1>1 DEF Ahead, AheadFee, AheadNet
<1>5. /\ Total(Undebited') + Undebited[w] = Total(Undebited) + Undebited'[w]
      /\ Total(Unpaid') + Unpaid[w] = Total(Unpaid) + Unpaid'[w]
  BY <1>0, <1>2, TotalChange, BillingAssumption DEF Numbered
<1>6. ASSUME NEW base
      PROVE  Total(Owed(base)') + Owed(base)[w] = Total(Owed(base)) + Owed(base)'[w]
  BY <1>0, <1>3, TotalChange, BillingAssumption DEF Numbered
<1>7. Total(Ahead') + Ahead[w] = Total(Ahead) + Ahead'[w]
  <2>1. Ahead \in [Workers -> Nat] /\ Ahead' \in [Workers -> Nat] /\ IsFiniteSet(Workers)
    BY <1>0, BillingAssumption DEF Numbered
  <2>2. \A v \in Workers \ {w} : Ahead'[v] = Ahead[v]
    BY <1>4
  <2> QED BY <2>1, <2>2, TotalChange
<1>8. Total(AheadFee') + AheadFee[w] = Total(AheadFee) + AheadFee'[w]
  <2>1. AheadFee \in [Workers -> Nat] /\ AheadFee' \in [Workers -> Nat] /\ IsFiniteSet(Workers)
    BY <1>0, BillingAssumption DEF Numbered
  <2>2. \A v \in Workers \ {w} : AheadFee'[v] = AheadFee[v]
    BY <1>4
  <2> QED BY <2>1, <2>2, TotalChange
<1>9. Total(AheadNet') + AheadNet[w] = Total(AheadNet) + AheadNet'[w]
  <2>1. AheadNet \in [Workers -> Nat] /\ AheadNet' \in [Workers -> Nat] /\ IsFiniteSet(Workers)
    BY <1>0, BillingAssumption DEF Numbered
  <2>2. \A v \in Workers \ {w} : AheadNet'[v] = AheadNet[v]
    BY <1>4
  <2> QED BY <2>1, <2>2, TotalChange
<1> QED BY <1>5, <1>6, <1>7, <1>8, <1>9

\* A use is recorded: what it has to book is what was used more.
LEMMA LedgerUses ==
  ASSUME Ledger, Sound', NEW row \in UseRow, uses' = Append(uses, row),
         UNCHANGED <<debits, earnings, payout, stale, untold>>,
         NEW more \in [Bases -> Nat],
         \A b \in Bases : more[b] = IF row.owned /\ row.base = b THEN row.amount ELSE 0,
         Total(Undebited') = Total(Undebited) + row.amount,
         \A b \in Bases : Total(Owed(b)') = Total(Owed(b)) + more[b],
         Total(Unpaid') = Total(Unpaid) + more[row.base],
         Ahead' = Ahead, AheadFee' = AheadFee, AheadNet' = AheadNet,
         \A v \in Workers : pc'[v] \in CopySteps => pc'[v] = pc[v] /\ copy'[v] = copy[v]
  PROVE  Ledger'
<1>0. Numbered /\ Numbered' /\ row.base \in Bases /\ row.amount \in Nat
  BY Numbers, NumbersNext DEF Ledger, UseRow
<1>1. BookRows /\ Len(uses) \in Nat /\ DOMAIN uses = 1 .. Len(uses)
  BY DEF Ledger, Sound, BookRows
<1>2. BookRows' /\ Len(uses') = Len(uses) + 1 /\ DOMAIN uses' = 1 .. Len(uses) + 1
  BY <1>1 DEF Sound, BookRows
<1>3. (\A n \in 1 .. Len(uses) : uses'[n] = uses[n]) /\ uses'[Len(uses) + 1] = row
  BY <1>1 DEF BookRows
<1>4. /\ UseAmount \in [1 .. Len(uses) -> Nat]
      /\ UseAmount' \in [1 .. Len(uses) + 1 -> Nat]
      /\ \A b : UseFor(b) \in [1 .. Len(uses) -> Nat] /\ UseFor(b)' \in [1 .. Len(uses) + 1 -> Nat]
  <2>1. UseAmount \in [1 .. Len(uses) -> Nat] /\ \A b : UseFor(b) \in [1 .. Len(uses) -> Nat]
    BY <1>1, ColumnsNat
  <2>2. \A n \in 1 .. Len(uses) + 1 : uses'[n].amount \in Nat
    <3>1. \A n \in 1 .. Len(uses) + 1 : uses'[n] \in UseRow
      BY <1>2 DEF BookRows
    <3> QED BY <3>1 DEF UseRow
  <2>3. UseAmount' \in [1 .. Len(uses) + 1 -> Nat]
    BY <1>2, <2>2 DEF UseAmount
  <2>4. \A b : UseFor(b)' \in [1 .. Len(uses) + 1 -> Nat]
    BY <1>2, <2>2 DEF UseFor
  <2> QED BY <2>1, <2>3, <2>4
<1>5. Total(UseAmount') = Total(UseAmount) + row.amount
  <2>1. /\ \A n \in 1 .. Len(uses) : UseAmount'[n] = UseAmount[n]
        /\ UseAmount'[Len(uses) + 1] = row.amount
    BY <1>1, <1>2, <1>3 DEF UseAmount
  <2>2. UseAmount \in [1 .. Len(uses) -> Nat] /\ UseAmount' \in [1 .. Len(uses) + 1 -> Nat]
    BY <1>4
  <2>3. Total(UseAmount') = Total(UseAmount) + UseAmount'[Len(uses) + 1]
    BY <1>1, <2>1, <2>2, TotalAppend
  <2> QED BY <2>1, <2>3
<1>6. ASSUME NEW b \in Bases PROVE Used(b)' = Used(b) + more[b]
  <2>1. /\ \A n \in 1 .. Len(uses) : UseFor(b)'[n] = UseFor(b)[n]
        /\ UseFor(b)'[Len(uses) + 1] = more[b]
    BY <1>1, <1>2, <1>3 DEF UseFor
  <2>2. UseFor(b) \in [1 .. Len(uses) -> Nat] /\ UseFor(b)' \in [1 .. Len(uses) + 1 -> Nat]
    BY <1>4
  <2>3. Total(UseFor(b)') = Total(UseFor(b)) + UseFor(b)'[Len(uses) + 1]
    BY <1>1, <2>1, <2>2, TotalAppend
  <2>4. Used(b) = Total(UseFor(b)) /\ Used(b)' = Total(UseFor(b)')
    BY DEF Used, UseFor
  <2> QED BY <2>1, <2>3, <2>4
<1>7. Total(Offered') = Total(Offered) + more[row.base]
  <2>1. PICK d \in Bases : d = row.base
    BY <1>0
  <2>2. ASSUME NEW b \in Bases \ {d} PROVE Used(b)' = Used(b)
    <3>1. more[b] = 0
      BY <2>1
    <3>2. Used(b) \in Nat
      BY <1>0 DEF Numbered
    <3> QED BY <1>6, <3>1, <3>2
  <2>3. Used(d)' = Used(d) + more[d] /\ more[d] \in Nat
    BY <1>6
  <2>4. Total(Offered') = Total(Offered) + more[d]
    BY <1>0, <2>2, <2>3, OfferedGrows
  <2> QED BY <2>1, <2>4
<1>8. Debited'
  <2>1. /\ Total(debits) \in Nat /\ Total(Undebited) \in Nat /\ Total(UseAmount) \in Nat
        /\ debits' = debits
    BY <1>0 DEF Numbered
  <2>2. ASSUME Total(debits) + Total(Undebited) <= Total(UseAmount)
        PROVE  Total(debits') + Total(Undebited') <= Total(UseAmount')
    BY <1>0, <1>5, <2>1, <2>2
  <2>3. ASSUME Total(debits) + Total(Undebited) = Total(UseAmount)
        PROVE  Total(debits') + Total(Undebited') = Total(UseAmount')
    BY <1>0, <1>5, <2>1, <2>3
  <2> QED BY <2>2, <2>3 DEF Ledger, Debited
<1>9. EarnedOnce'
  <2>1. PICK most \in [DOMAIN earnings -> Nat] :
          /\ \A n \in DOMAIN earnings : earnings[n].gross <= most[n]
          /\ \A w \in Workers : pc[w] \in CopySteps /\ copy[w].id # 0 =>
                                  copy[w].earning.gross <= most[copy[w].id]
          /\ \A b \in Bases : Total(OfBase(b, most)) + Total(Owed(b)) <= Used(b)
    BY DEF Ledger, EarnedOnce
  <2>2. ASSUME NEW b \in Bases
        PROVE  Total(OfBase(b, most)') + Total(Owed(b)') <= Used(b)'
    <3>1. OfBase(b, most)' = OfBase(b, most)
      BY DEF OfBase
    <3>2. Total(OfBase(b, most)) \in Nat
      <4>1. DOMAIN earnings = 1 .. Len(earnings) /\ IsFiniteSet(1 .. Len(earnings))
        BY FS_Interval DEF Ledger, Sound, BookRows
      <4>2. OfBase(b, most) \in [1 .. Len(earnings) -> Nat]
        BY <4>1 DEF OfBase
      <4> QED BY <4>1, <4>2, TotalNat
    <3>3. Total(OfBase(b, most)) + Total(Owed(b)) <= Used(b)
      BY <2>1
    <3>4. Total(Owed(b)) \in Nat /\ Used(b) \in Nat /\ more[b] \in Nat
      BY <1>0 DEF Numbered
    <3>5. Total(Owed(b)') = Total(Owed(b)) + more[b] /\ Used(b)' = Used(b) + more[b]
      BY <1>6
    <3> QED BY <3>1, <3>2, <3>3, <3>4, <3>5
  <2>3. \A w \in Workers : pc'[w] \in CopySteps /\ copy'[w].id # 0 =>
                             copy'[w].earning.gross <= most[copy'[w].id]
    BY <2>1
  <2> QED BY <2>1, <2>2, <2>3 DEF EarnedOnce
<1>10. EarnedAll'
  <2>1. \A b : Earned(b)' = Earned(b)
    BY DEF Earned
  <2>2. Unmarked' = Unmarked
    BY DEF Unmarked
  <2>3. ASSUME NEW b \in Bases, Unmarked PROVE Earned(b)' + Total(Owed(b)') = Used(b)'
    <3>1. Earned(b) + Total(Owed(b)) = Used(b)
      BY <2>3 DEF Ledger, EarnedAll
    <3>2. Total(Owed(b)) \in Nat /\ Used(b) \in Nat /\ Earned(b) \in Nat /\ more[b] \in Nat
      BY <1>0 DEF Numbered
    <3>3. Total(Owed(b)') = Total(Owed(b)) + more[b] /\ Used(b)' = Used(b) + more[b]
      BY <1>6
    <3> QED BY <2>1, <3>1, <3>2, <3>3
  <2> QED BY <2>2, <2>3 DEF EarnedAll
<1>11. PaidOnce'
  <2>0. /\ Total(Unpaid) \in Nat /\ Total(Offered) \in Nat /\ PaidGross \in Nat
        /\ more[row.base] \in Nat
    BY <1>0 DEF Numbered
  <2>1. ASSUME NEW paid \in Nat, paid + Total(Unpaid) <= Total(Offered)
        PROVE  paid + Total(Unpaid') <= Total(Offered')
    BY <1>7, <2>0, <2>1
  <2>2. PaidGross' = PaidGross
    BY DEF PaidGross
  <2>3. PaidGross' + Total(Unpaid') <= Total(Offered')
    BY <2>0, <2>1, <2>2 DEF Ledger, PaidOnce
  <2>4. ASSUME NEW v \in Workers, pc'[v] \in CopySteps, copy'[v].payout # None
        PROVE  copy'[v].payout.gross + Total(Unpaid') <= Total(Offered')
    <3>1. copy'[v].payout.gross + Total(Unpaid) <= Total(Offered)
      BY <2>4 DEF Ledger, PaidOnce
    <3>2. copy'[v].payout.gross \in Nat
      BY <2>4 DEF Sound, Using, CopySteps, UseSteps, PayoutRow
    <3> QED BY <2>1, <3>1, <3>2
  <2> QED BY <2>3, <2>4 DEF PaidOnce
<1>12. PaidAll'
  <2>1. PaidGross' = PaidGross /\ PaidFee' = PaidFee /\ PaidNet' = PaidNet /\ Unmarked' = Unmarked
    BY DEF PaidGross, PaidFee, PaidNet, Unmarked
  <2> QED BY <2>1, PaidAllKept
<1>13. PaidFirst'
  <2>1. "save-earning" \in CopySteps
    BY DEF CopySteps
  <2> QED BY <2>1 DEF Ledger, PaidFirst
<1> QED BY <1>8, <1>9, <1>10, <1>11, <1>12, <1>13 DEF Ledger

LEMMA LedgerRecords ==
  ASSUME Ledger, Locals, NEW w \in Workers, CreateUsageRecord(w)
  PROVE  Ledger'
<1>1. PICK amount \in Amounts, base \in Bases, owned \in BOOLEAN :
        /\ uses' = Append(uses, [base |-> base, amount |-> amount, owned |-> owned])
        /\ Begin(w, [Request EXCEPT !.op = "use", !.on = base, !.n = amount, !.row = Books,
                                    !.word = IF owned THEN "owned" ELSE ""], "account")
  BY Zenon DEF CreateUsageRecord
<1> DEFINE r == [Request EXCEPT !.op = "use", !.on = base, !.n = amount, !.row = Books,
                                !.word = IF owned THEN "owned" ELSE ""]
           row == [base |-> base, amount |-> amount, owned |-> owned]
           more == [b \in Bases |-> IF row.owned /\ row.base = b THEN row.amount ELSE 0]
<1>2. /\ r.op = "use" /\ r.on = base /\ r.n = amount /\ r.row = Books
      /\ r.word = IF owned THEN "owned" ELSE ""
  BY DEF Request
<1>3. amount \in Nat
  BY BillingAssumption
<1>4. row \in UseRow /\ row.base = base /\ row.amount = amount /\ row.owned = owned
  BY <1>3 DEF UseRow
<1>5. more \in [Bases -> Nat]
  BY <1>3
<1>6. \A b \in Bases : more[b] = IF row.owned /\ row.base = b THEN row.amount ELSE 0
  OBVIOUS
<1>7. uses' = Append(uses, row) /\ Begin(w, r, "account")
  BY <1>1
<1> HIDE DEF r, row, more
<1>8. Moves(w, {"account"}) /\ pc'[w] = "account" /\ req'[w] = r /\ pc[w] = "idle"
  BY <1>7, BeginMoves DEF Begin, Accepts
<1>9. UNCHANGED <<debits, earnings, payout, stale, untold>>
  BY <1>7 DEF CreateUsageRecord, Begin, notice
<1>10. Sound'
  <2>1. BookRows'
    BY <1>4, <1>7, <1>9 DEF Ledger, Sound, BookRows
  <2>2. Using(w)'
    BY <1>2, <1>3, <1>8, Zenon DEF Using, DebitSteps, CopySteps
  <2>3. ASSUME NEW v \in Workers PROVE Using(v)'
    <3>1. CASE v # w
      BY <1>8, <1>9, <3>1, UsingStays DEF Moves, Ledger, Sound
    <3> QED BY <2>2, <3>1
  <2> QED BY <2>1, <2>3 DEF Sound
<1>11. /\ Undebited[w] = 0 /\ Unpaid[w] = 0 /\ \A b : Owed(b)[w] = 0
       /\ Undebited'[w] = amount /\ Unpaid'[w] = more[row.base] /\ \A b \in Bases : Owed(b)'[w] = more[b]
  <2>1. Undebited[w] = 0 /\ Unpaid[w] = 0 /\ \A b : Owed(b)[w] = 0
    BY <1>8 DEF Undebited, Unpaid, Owed, DebitSteps, UseSteps
  <2>2. Undebited'[w] = amount
    BY <1>2, <1>8, Zenon DEF Undebited, DebitSteps
  <2>3. ASSUME NEW b \in Bases PROVE Owed(b)'[w] = more[b]
    BY <1>2, <1>4, <1>6, <1>8, ZenonT(30) DEF Owed, UseSteps
  <2>4. Unpaid'[w] = more[row.base]
    BY <1>2, <1>4, <1>6, <1>8, Zenon DEF Unpaid, UseSteps
  <2> QED BY <2>1, <2>2, <2>3, <2>4
<1>12. /\ Total(Undebited') = Total(Undebited) + row.amount
       /\ \A b \in Bases : Total(Owed(b)') = Total(Owed(b)) + more[b]
       /\ Total(Unpaid') = Total(Unpaid) + more[row.base]
  <2>0. Sound /\ Numbered /\ Numbered'
    BY <1>10, Numbers, NumbersNext DEF Ledger
  <2>1. Total(Undebited') + Undebited[w] = Total(Undebited) + Undebited'[w]
    BY <1>8, <1>10, <2>0, AmountsMove
  <2>2. Total(Unpaid') + Unpaid[w] = Total(Unpaid) + Unpaid'[w]
    BY <1>8, <1>10, <2>0, AmountsMove
  <2>3. \A b : Total(Owed(b)') + Owed(b)[w] = Total(Owed(b)) + Owed(b)'[w]
    BY <1>8, <1>10, <2>0, AmountsMove
  <2>4. /\ Total(Undebited) \in Nat /\ Total(Undebited') \in Nat
        /\ Total(Unpaid) \in Nat /\ Total(Unpaid') \in Nat
        /\ \A b : Total(Owed(b)) \in Nat /\ Total(Owed(b)') \in Nat
    BY <2>0 DEF Numbered
  <2>5. Total(Undebited') = Total(Undebited) + row.amount
    BY <1>4, <1>11, <2>1, <2>4
  <2>6. Total(Unpaid') = Total(Unpaid) + more[row.base]
    BY <1>11, <2>2, <2>4
  <2>7. ASSUME NEW b \in Bases PROVE Total(Owed(b)') = Total(Owed(b)) + more[b]
    BY <1>11, <2>3, <2>4
  <2> QED BY <2>5, <2>6, <2>7
<1>13. Ahead' = Ahead /\ AheadFee' = AheadFee /\ AheadNet' = AheadNet
  BY <1>8 DEF Ahead, AheadFee, AheadNet, Moves
<1>14. \A v \in Workers : pc'[v] \in CopySteps => pc'[v] = pc[v] /\ copy'[v] = copy[v]
  BY <1>8 DEF CopySteps, Moves
<1> QED BY <1>4, <1>5, <1>6, <1>7, <1>9, <1>10, <1>12, <1>13, <1>14, LedgerUses

LEMMA LedgerFree ==
  ASSUME Ledger, Locals, UseFreely
  PROVE  Ledger'
<1>1. PICK base \in Bases : uses' = Append(uses, [base |-> base, amount |-> 0, owned |-> TRUE])
  BY DEF UseFreely
<1> DEFINE row == [base |-> base, amount |-> 0, owned |-> TRUE]
           more == [b \in Bases |-> 0]
<1>2. row \in UseRow /\ row.base = base /\ row.amount = 0
  BY DEF UseRow
<1>3. more \in [Bases -> Nat] /\ \A b \in Bases : more[b] = 0
  OBVIOUS
<1>4. uses' = Append(uses, row)
  BY <1>1
<1> HIDE DEF row, more
<1>5. UNCHANGED <<pc, req, copy, stale, untold, debits, earnings, payout>>
  BY DEF UseFreely, Whole, notice
<1>6. /\ Undebited' = Undebited /\ Unpaid' = Unpaid /\ \A b : Owed(b)' = Owed(b)
      /\ Ahead' = Ahead /\ AheadFee' = AheadFee /\ AheadNet' = AheadNet
  BY <1>5 DEF Undebited, Unpaid, Owed, Ahead, AheadFee, AheadNet
<1>7. Sound'
  <2>1. BookRows'
    BY <1>2, <1>4, <1>5 DEF Ledger, Sound, BookRows
  <2>2. ASSUME NEW v \in Workers PROVE Using(v)'
    BY <1>5, UsingStays DEF Ledger, Sound
  <2> QED BY <2>1, <2>2 DEF Sound
<1>8. Numbered
  BY Numbers DEF Ledger
<1>9. /\ Total(Undebited') = Total(Undebited) + row.amount
      /\ Total(Unpaid') = Total(Unpaid) + more[row.base]
      /\ \A b \in Bases : Total(Owed(b)') = Total(Owed(b)) + more[b]
  <2>1. Total(Undebited) \in Nat /\ Total(Unpaid) \in Nat /\ \A b : Total(Owed(b)) \in Nat
    BY <1>8 DEF Numbered
  <2> QED BY <1>2, <1>3, <1>6, <2>1
<1>10. \A b \in Bases : more[b] = IF row.owned /\ row.base = b THEN row.amount ELSE 0
  BY <1>2, <1>3
<1> QED BY <1>2, <1>3, <1>4, <1>5, <1>6, <1>7, <1>9, <1>10, LedgerUses

\* The debit: what was to be debited is.
LEMMA LedgerDebits ==
  ASSUME Ledger, Locals, NEW w \in Workers, CreateTransaction(w)
  PROVE  Ledger'
<1>0. /\ pc[w] = "debit" /\ Using(w) /\ req[w].n \in Nat
  BY DEF CreateTransaction, Ledger, Sound, Using, UseSteps
<1>1. debits' = Append(debits, req[w].n) /\ UNCHANGED <<uses, earnings, payout, untold>>
  BY DEF CreateTransaction, notice
<1>2. /\ Moves(w, {"earning", "idle"}) /\ UNCHANGED stale
      /\ \/ pc'[w] = "earning" /\ req'[w] = req[w] /\ req[w].word = "owned"
         \/ pc'[w] = "idle" /\ req[w].word # "owned"
  <2>1. CASE req[w].word = "owned"
    <3>1. Goto(w, "earning")
      BY <2>1 DEF CreateTransaction
    <3> QED BY <2>1, <3>1, GotoMoves DEF Goto
  <2>2. CASE req[w].word # "owned"
    <3>1. Answer(w)
      BY <2>2 DEF CreateTransaction
    <3> QED BY <2>2, <3>1, AnswerMoves DEF Answer
  <2> QED BY <2>1, <2>2
<1>3. Sound'
  <2>1. BookRows'
    BY <1>0, <1>1 DEF Ledger, Sound, BookRows
  <2>2. Using(w)'
    BY <1>0, <1>2 DEF Using, UseSteps, DebitSteps, CopySteps
  <2>3. ASSUME NEW v \in Workers PROVE Using(v)'
    <3>1. CASE v # w
      BY <1>1, <1>2, <3>1, UsingStays DEF Moves, Ledger, Sound
    <3> QED BY <2>2, <3>1
  <2> QED BY <2>1, <2>3 DEF Sound
<1>4. Numbered /\ Numbered'
  BY <1>3, Numbers, NumbersNext DEF Ledger
<1>5. Unpaid' = Unpaid /\ \A b : Owed(b)' = Owed(b)
  <2>1. Unpaid'[w] = Unpaid[w] /\ \A b : Owed(b)'[w] = Owed(b)[w]
    BY <1>0, <1>2 DEF Unpaid, Owed, UseSteps
  <2>2. \A v \in Workers : Unpaid'[v] = Unpaid[v] /\ \A b : Owed(b)'[v] = Owed(b)[v]
    BY <1>2, <2>1 DEF Unpaid, Owed, Moves
  <2> QED BY <2>2 DEF Unpaid, Owed
<1>6. Ahead' = Ahead /\ AheadFee' = AheadFee /\ AheadNet' = AheadNet
  BY <1>0, <1>2 DEF Ahead, AheadFee, AheadNet, Moves
<1>7. Total(Undebited) = Total(Undebited') + req[w].n
  <2>1. Undebited[w] = req[w].n /\ Undebited'[w] = 0
    BY <1>0, <1>2 DEF Undebited, DebitSteps
  <2>2. Total(Undebited') + Undebited[w] = Total(Undebited) + Undebited'[w]
    BY <1>2, <1>3, AmountsMove DEF Ledger
  <2>3. Total(Undebited') \in Nat /\ Total(Undebited) \in Nat
    BY <1>4 DEF Numbered
  <2> QED BY <1>0, <2>1, <2>2, <2>3
<1>8. Total(debits') = Total(debits) + req[w].n
  <2>1. BookRows /\ BookRows'
    BY <1>3 DEF Ledger, Sound
  <2>2. /\ Len(debits) \in Nat /\ Len(debits') = Len(debits) + 1
        /\ \A n \in 1 .. Len(debits) : debits'[n] = debits[n]
        /\ debits'[Len(debits) + 1] = req[w].n
    BY <1>0, <1>1, <2>1 DEF BookRows
  <2>3. debits \in [1 .. Len(debits) -> Nat] /\ debits' \in [1 .. Len(debits) + 1 -> Nat]
    <3>1. debits \in Seq(Nat) /\ debits' \in Seq(Nat)
      BY <2>1 DEF BookRows
    <3>2. debits \in [1 .. Len(debits) -> Nat] /\ debits' \in [1 .. Len(debits') -> Nat]
      BY <3>1
    <3> QED BY <2>2, <3>2
  <2>4. Total(debits') = Total(debits) + debits'[Len(debits) + 1]
    BY <2>2, <2>3, TotalAppend
  <2> QED BY <2>2, <2>4
<1>9. Debited'
  <2>1. /\ Total(debits) \in Nat /\ Total(Undebited') \in Nat
        /\ UseAmount' = UseAmount /\ untold' = untold
    BY <1>1, <1>4 DEF Numbered, UseAmount
  <2>2. Total(debits') + Total(Undebited') = Total(debits) + Total(Undebited)
    BY <1>0, <1>7, <1>8, <2>1
  <2> QED BY <2>1, <2>2 DEF Ledger, Debited
<1>10. \A v \in Workers : pc'[v] \in CopySteps => pc[v] \in CopySteps /\ copy'[v] = copy[v]
  BY <1>2 DEF Moves, CopySteps
<1>11. Unmarked' = Unmarked
  BY <1>1, <1>2 DEF Unmarked
<1>12. EarnedOnce'
  <2>1. \A b \in Bases : \A v \in Workers : Owed(b)'[v] <= Owed(b)[v]
    BY <1>4, <1>5 DEF Numbered
  <2> QED BY <1>1, <1>3, <1>10, <2>1, EarnedOnceKept
<1>13. EarnedAll'
  BY <1>1, <1>5, <1>11, EarnedAllKept
<1>14. PaidGross' = PaidGross /\ PaidFee' = PaidFee /\ PaidNet' = PaidNet
  BY <1>1 DEF PaidGross, PaidFee, PaidNet
<1>15. PaidOnce'
  <2>1. \A v \in Workers : Unpaid'[v] <= Unpaid[v]
    BY <1>4, <1>5 DEF Numbered
  <2> QED BY <1>1, <1>3, <1>10, <1>14, <2>1, PaidOnceKept
<1>16. PaidAll'
  BY <1>1, <1>6, <1>11, <1>14, PaidAllKept
<1>17. PaidFirst'
  BY <1>1, <1>2 DEF Ledger, PaidFirst, Moves
<1> QED BY <1>3, <1>9, <1>12, <1>13, <1>15, <1>16, <1>17 DEF Ledger

\* What a credited row is.
LEMMA PayoutCredited ==
  ASSUME NEW row \in PayoutRow, NEW n \in Nat, Fee(n) \in Nat, n - Fee(n) \in Nat
  PROVE  /\ Credited(row, n) \in PayoutRow
         /\ Credited(row, n).gross = row.gross + n /\ Credited(row, n).fee = row.fee + Fee(n)
         /\ Credited(row, n).net = row.net + (n - Fee(n))
<1>1. row.gross \in Nat /\ row.fee \in Nat /\ row.net \in Nat
  BY DEF PayoutRow
<1>2. PICK gross \in Nat : gross = row.gross + n
  BY <1>1
<1>3. PICK fee \in Nat : fee = row.fee + Fee(n)
  BY <1>1
<1>4. PICK net \in Nat : net = row.net + (n - Fee(n))
  BY <1>1
<1>5. Credited(row, n) = [row EXCEPT !.gross = gross, !.fee = fee, !.net = net]
  BY <1>2, <1>3, <1>4 DEF Credited, PayoutRow
<1>6. [row EXCEPT !.gross = gross, !.fee = fee, !.net = net] \in PayoutRow
  BY DEF PayoutRow
<1>7. /\ Credited(row, n).gross = gross /\ Credited(row, n).fee = fee /\ Credited(row, n).net = net
  BY <1>5 DEF PayoutRow
<1> QED BY <1>2, <1>3, <1>4, <1>5, <1>6, <1>7

LEMMA EarningCredited ==
  ASSUME NEW row \in EarningRow, NEW n \in Nat, Fee(n) \in Nat, n - Fee(n) \in Nat
  PROVE  /\ Credited(row, n) \in EarningRow /\ Credited(row, n).base = row.base
         /\ Credited(row, n).gross = row.gross + n /\ Credited(row, n).fee = row.fee + Fee(n)
         /\ Credited(row, n).net = row.net + (n - Fee(n))
<1>1. row.gross \in Nat /\ row.fee \in Nat /\ row.net \in Nat
  BY DEF EarningRow
<1>2. PICK gross \in Nat : gross = row.gross + n
  BY <1>1
<1>3. PICK fee \in Nat : fee = row.fee + Fee(n)
  BY <1>1
<1>4. PICK net \in Nat : net = row.net + (n - Fee(n))
  BY <1>1
<1>5. Credited(row, n) = [row EXCEPT !.gross = gross, !.fee = fee, !.net = net]
  BY <1>2, <1>3, <1>4 DEF Credited, EarningRow
<1>6. [row EXCEPT !.gross = gross, !.fee = fee, !.net = net] \in EarningRow
  BY DEF EarningRow
<1>7. /\ Credited(row, n).gross = gross /\ Credited(row, n).fee = fee /\ Credited(row, n).net = net
      /\ Credited(row, n).base = row.base
  BY <1>5 DEF EarningRow
<1> QED BY <1>2, <1>3, <1>4, <1>5, <1>6, <1>7

\* The payout is saved: what was to be paid is, ahead of the earning.  A save from an
\* old copy is marked.
LEMMA LedgerPays ==
  ASSUME Ledger, Locals, NEW w \in Workers, SavePayout(w)
  PROVE  Ledger'
<1>0. /\ pc[w] = "save-payout" /\ Using(w) /\ req[w].n \in Nat /\ req[w].word = "owned"
      /\ copy[w] \in [id : Nat, payout : PayoutRow \union {None}, earning : EarningRow]
  BY DEF SavePayout, Ledger, Sound, Using, UseSteps, CopySteps, DebitSteps
<1>1. UNCHANGED <<uses, debits, earnings>>
  BY DEF SavePayout
<1>2. CASE copy[w].payout = None /\ payout # None
  <2>1. Fails(w) /\ UNCHANGED payout
    BY <1>2 DEF SavePayout
  <2>2. Answer(w) /\ untold \subseteq untold' /\ Books \in untold'
    BY <2>1 DEF Fails
  <2> QED BY <1>1, <2>1, <2>2, LedgerEnds
<1>3. CASE ~ (copy[w].payout = None /\ payout # None)
  <2> DEFINE old == copy[w].payout
             row == IF old = None THEN [status |-> "open", gross |-> 0, fee |-> 0, net |-> 0] ELSE old
             n   == req[w].n
  <2>1. payout' = Credited(row, n) /\ SaveThen(w, "save-earning", Books, payout # old) /\ UNCHANGED notice
    BY <1>3 DEF SavePayout
  <2>2. /\ old \in PayoutRow \union {None} /\ n \in Nat
        /\ row \in PayoutRow
        /\ old = None => row.gross = 0 /\ row.fee = 0 /\ row.net = 0
        /\ old # None => row = old
    <3>1. old \in PayoutRow \union {None}
      BY <1>0
    <3> QED BY <1>0, <3>1 DEF PayoutRow
  <2> HIDE DEF old, row, n
  <2>3. /\ payout' \in PayoutRow /\ payout'.gross = row.gross + n /\ payout'.fee = row.fee + Fee(n)
        /\ payout'.net = row.net + (n - Fee(n)) /\ payout' # None
        /\ row.gross \in Nat /\ row.fee \in Nat /\ row.net \in Nat
        /\ Fee(n) \in Nat /\ n - Fee(n) \in Nat
    <3>1. Fee(n) \in Nat /\ n - Fee(n) \in Nat
      BY <2>2, FeeNat
    <3>2. row.gross \in Nat /\ row.fee \in Nat /\ row.net \in Nat
      BY <2>2 DEF PayoutRow
    <3>3. /\ payout' \in PayoutRow /\ payout'.gross = row.gross + n /\ payout'.fee = row.fee + Fee(n)
          /\ payout'.net = row.net + (n - Fee(n))
      BY <2>1, <2>2, <3>1, PayoutCredited
    <3> QED BY <3>1, <3>2, <3>3, BillingAssumption
  <2>4. PaidGross' = row.gross + n /\ PaidFee' = row.fee + Fee(n) /\ PaidNet' = row.net + (n - Fee(n))
    BY <2>3 DEF PaidGross, PaidFee, PaidNet
  <2>5. /\ Moves(w, {"save-earning"}) /\ pc'[w] = "save-earning" /\ req' = req /\ copy' = copy
        /\ UNCHANGED untold /\ stale \subseteq stale'
        /\ Books \notin stale' => payout = old
    BY <2>1, SaveThenMoves DEF SaveThen, notice
  <2>6. Sound'
    <3>1. BookRows'
      BY <1>1, <2>3 DEF Ledger, Sound, BookRows
    <3>2. Using(w)'
      BY <1>0, <1>1, <2>5 DEF Using, UseSteps, DebitSteps, CopySteps
    <3>3. ASSUME NEW v \in Workers PROVE Using(v)'
      <4>1. CASE v # w
        BY <1>1, <2>5, <4>1, UsingStays DEF Moves, Ledger, Sound
      <4> QED BY <3>2, <4>1
    <3> QED BY <3>1, <3>3 DEF Sound
  <2>7. Numbered /\ Numbered'
    BY <2>6, Numbers, NumbersNext DEF Ledger
  <2>8. Undebited' = Undebited /\ \A b : Owed(b)' = Owed(b)
    <3>1. \A v \in Workers : pc'[v] \in DebitSteps <=> pc[v] \in DebitSteps
      BY <1>0, <2>5 DEF Moves, DebitSteps
    <3>2. \A v \in Workers : pc'[v] \in UseSteps <=> pc[v] \in UseSteps
      BY <1>0, <2>5 DEF Moves, UseSteps
    <3> QED BY <2>5, <3>1, <3>2 DEF Undebited, Owed
  <2>9. /\ Unpaid[w] = n /\ Unpaid'[w] = 0 /\ Ahead[w] = 0 /\ Ahead'[w] = n
        /\ AheadFee[w] = 0 /\ AheadFee'[w] = Fee(n) /\ AheadNet[w] = 0 /\ AheadNet'[w] = n - Fee(n)
    BY <1>0, <2>5 DEF n, Unpaid, Ahead, AheadFee, AheadNet, UseSteps
  <2>10. /\ Total(Unpaid) \in Nat /\ Total(Unpaid') \in Nat /\ Total(Offered) \in Nat
         /\ PaidGross \in Nat /\ Total(Ahead) \in Nat /\ Total(Ahead') \in Nat
         /\ Total(AheadFee) \in Nat /\ Total(AheadFee') \in Nat
         /\ Total(AheadNet) \in Nat /\ Total(AheadNet') \in Nat
    BY <2>7 DEF Numbered
  <2>11. Total(Unpaid) = Total(Unpaid') + n
    <3>1. Total(Unpaid') + Unpaid[w] = Total(Unpaid) + Unpaid'[w]
      BY <2>5, <2>6, AmountsMove DEF Ledger
    <3> QED BY <2>2, <2>9, <2>10, <3>1
  <2>12. /\ Total(Ahead') = Total(Ahead) + n /\ Total(AheadFee') = Total(AheadFee) + Fee(n)
         /\ Total(AheadNet') = Total(AheadNet) + (n - Fee(n))
    <3>1. Total(Ahead') + Ahead[w] = Total(Ahead) + Ahead'[w]
      BY <2>5, <2>6, AmountsMove DEF Ledger
    <3>2. Total(AheadFee') + AheadFee[w] = Total(AheadFee) + AheadFee'[w]
      BY <2>5, <2>6, AmountsMove DEF Ledger
    <3>3. Total(AheadNet') + AheadNet[w] = Total(AheadNet) + AheadNet'[w]
      BY <2>5, <2>6, AmountsMove DEF Ledger
    <3> QED BY <2>2, <2>3, <2>9, <2>10, <3>1, <3>2, <3>3
  <2>13. \A v \in Workers : pc'[v] \in CopySteps => pc[v] \in CopySteps /\ copy'[v] = copy[v]
    BY <1>0, <2>5 DEF Moves, CopySteps
  <2>14. Debited'
    <3>1. \A v \in Workers : Undebited'[v] <= Undebited[v]
      BY <2>7, <2>8 DEF Numbered
    <3> QED BY <1>1, <2>5, <2>6, <2>8, <3>1, DebitedKept
  <2>15. EarnedOnce'
    <3>1. \A b \in Bases : \A v \in Workers : Owed(b)'[v] <= Owed(b)[v]
      BY <2>7, <2>8 DEF Numbered
    <3> QED BY <1>1, <2>6, <2>13, <3>1, EarnedOnceKept
  <2>16. Unmarked' => Unmarked /\ payout = old
    BY <2>5 DEF Unmarked
  <2>17. EarnedAll'
    BY <1>1, <2>8, <2>16, EarnedAllKept
  <2>18. PaidOnce'
    <3>1. Offered' = Offered
      BY <1>1 DEF Offered, Used
    <3>2. row.gross + Total(Unpaid) <= Total(Offered)
      <4>1. CASE old = None
        <5>1. PaidGross + Total(Unpaid) <= Total(Offered)
          BY DEF Ledger, PaidOnce
        <5>2. row.gross = 0
          BY <2>2, <4>1
        <5> QED BY <2>10, <5>1, <5>2
      <4>2. CASE old # None
        <5>1. pc[w] \in CopySteps /\ row = copy[w].payout /\ copy[w].payout # None
          BY <1>0, <2>2, <4>2 DEF CopySteps, old
        <5> QED BY <5>1 DEF Ledger, PaidOnce
      <4> QED BY <4>1, <4>2
    <3>3. PaidGross' + Total(Unpaid') <= Total(Offered)
      BY <2>2, <2>3, <2>4, <2>10, <2>11, <3>2
    <3>4. ASSUME NEW v \in Workers, pc'[v] \in CopySteps, copy'[v].payout # None
          PROVE  copy'[v].payout.gross + Total(Unpaid') <= Total(Offered)
      <4>1. copy'[v].payout.gross + Total(Unpaid) <= Total(Offered)
        BY <2>13, <3>4 DEF Ledger, PaidOnce
      <4>2. copy'[v].payout.gross \in Nat
        BY <2>6, <3>4 DEF Sound, Using, CopySteps, UseSteps, PayoutRow
      <4> QED BY <2>2, <2>10, <2>11, <4>1, <4>2
    <3> QED BY <3>1, <3>3, <3>4 DEF PaidOnce
  <2>19. PaidAll'
    <3>1. EarnGross' = EarnGross /\ EarnFee' = EarnFee /\ EarnNet' = EarnNet
      BY <1>1 DEF EarnGross, EarnFee, EarnNet
    <3>2. Total(EarnGross) \in Nat /\ Total(EarnFee) \in Nat /\ Total(EarnNet) \in Nat
      BY <2>7 DEF Numbered
    <3>3. ASSUME Unmarked'
          PROVE  /\ PaidGross' = Total(EarnGross) + Total(Ahead')
                 /\ PaidFee' = Total(EarnFee) + Total(AheadFee')
                 /\ PaidNet' = Total(EarnNet) + Total(AheadNet')
      <4>1. /\ PaidGross = Total(EarnGross) + Total(Ahead)
            /\ PaidFee = Total(EarnFee) + Total(AheadFee)
            /\ PaidNet = Total(EarnNet) + Total(AheadNet)
        BY <2>16, <3>3 DEF Ledger, PaidAll
      <4>2. row.gross = PaidGross /\ row.fee = PaidFee /\ row.net = PaidNet
        BY <2>2, <2>16, <3>3 DEF PaidGross, PaidFee, PaidNet
      <4>3. PaidGross' = Total(EarnGross) + Total(Ahead')
        BY <2>2, <2>4, <2>10, <2>12, <3>2, <4>1, <4>2
      <4>4. PaidFee' = Total(EarnFee) + Total(AheadFee')
        BY <2>3, <2>4, <2>10, <2>12, <3>2, <4>1, <4>2
      <4>5. PaidNet' = Total(EarnNet) + Total(AheadNet')
        <5>1. PICK m \in Nat : m = n - Fee(n)
          BY <2>3
        <5>2. PaidNet' = row.net + m /\ Total(AheadNet') = Total(AheadNet) + m
          BY <2>4, <2>12, <5>1
        <5> QED BY <2>10, <3>2, <4>1, <4>2, <5>2
      <4> QED BY <4>3, <4>4, <4>5
    <3> QED BY <3>1, <3>3 DEF PaidAll
  <2>20. PaidFirst'
    BY <2>3 DEF PaidFirst
  <2> QED BY <2>6, <2>14, <2>15, <2>17, <2>18, <2>19, <2>20 DEF Ledger
<1> QED BY <1>2, <1>3

\* A number is added as a new value, or to the value at k.
Added(f, g, m, k, n) ==
  \/ /\ k = 0 /\ g \in [1 .. m + 1 -> Nat]
     /\ (\A i \in 1 .. m : g[i] = f[i]) /\ g[m + 1] = n
  \/ /\ k \in 1 .. m /\ g \in [1 .. m -> Nat]
     /\ (\A i \in (1 .. m) \ {k} : g[i] = f[i]) /\ g[k] = f[k] + n

LEMMA AddedTotal ==
  ASSUME NEW m \in Nat, NEW f \in [1 .. m -> Nat], NEW g, NEW k, NEW n \in Nat, Added(f, g, m, k, n)
  PROVE  Total(g) = Total(f) + n
<1>1. CASE /\ k = 0 /\ g \in [1 .. m + 1 -> Nat]
           /\ (\A i \in 1 .. m : g[i] = f[i]) /\ g[m + 1] = n
  <2>1. Total(g) = Total(f) + g[m + 1]
    BY <1>1, TotalAppend
  <2> QED BY <1>1, <2>1
<1>2. CASE /\ k \in 1 .. m /\ g \in [1 .. m -> Nat]
           /\ (\A i \in (1 .. m) \ {k} : g[i] = f[i]) /\ g[k] = f[k] + n
  <2>1. PICK D : D = 1 .. m
    OBVIOUS
  <2>2. IsFiniteSet(D)
    BY <2>1, FS_Interval
  <2>3. f \in [D -> Nat] /\ g \in [D -> Nat] /\ k \in D /\ \A i \in D \ {k} : g[i] = f[i]
    BY <1>2, <2>1
  <2> QED BY <1>2, <2>2, <2>3, TotalGrows
<1> QED BY <1>1, <1>2 DEF Added

\* An earning is added, or takes the place of one of the same base.
Saved(k, row) ==
  \/ k = 0 /\ earnings' = Append(earnings, row)
  \/ /\ k \in DOMAIN earnings /\ earnings' = [earnings EXCEPT ![k] = row]
     /\ earnings[k].base = row.base

\* Where the earnings are then.
LEMMA SavedRows ==
  ASSUME BookRows, NEW row \in EarningRow, NEW k, Saved(k, row)
  PROVE  /\ earnings' \in Seq(EarningRow) /\ Len(earnings) \in Nat
         /\ DOMAIN earnings = 1 .. Len(earnings)
         /\ \/ /\ k = 0 /\ DOMAIN earnings' = 1 .. Len(earnings) + 1
               /\ (\A i \in 1 .. Len(earnings) : earnings'[i] = earnings[i])
               /\ earnings'[Len(earnings) + 1] = row
            \/ /\ k \in 1 .. Len(earnings) /\ DOMAIN earnings' = 1 .. Len(earnings)
               /\ (\A i \in (1 .. Len(earnings)) \ {k} : earnings'[i] = earnings[i])
               /\ earnings'[k] = row /\ earnings[k].base = row.base
<1>1. earnings \in Seq(EarningRow) /\ Len(earnings) \in Nat /\ DOMAIN earnings = 1 .. Len(earnings)
  BY DEF BookRows
<1>2. CASE k = 0 /\ earnings' = Append(earnings, row)
  BY <1>1, <1>2
<1>3. CASE /\ k \in DOMAIN earnings /\ earnings' = [earnings EXCEPT ![k] = row]
           /\ earnings[k].base = row.base
  <2>1. earnings' \in Seq(EarningRow) /\ Len(earnings') = Len(earnings)
    BY <1>1, <1>3
  <2>2. DOMAIN earnings' = 1 .. Len(earnings)
    BY <1>1, <1>3
  <2>3. \A i \in (1 .. Len(earnings)) \ {k} : earnings'[i] = earnings[i]
    BY <1>1, <1>3
  <2>4. k \in 1 .. Len(earnings) /\ earnings'[k] = row /\ earnings[k].base = row.base
    BY <1>1, <1>3
  <2> QED BY <1>1, <2>1, <2>2, <2>3, <2>4
<1> QED BY <1>2, <1>3 DEF Saved

\* What a save adds to the sum of a column, of one base and of them all.
LEMMA SavedColumn ==
  ASSUME NEW m \in Nat, NEW f \in [1 .. m -> Nat], NEW g, NEW k, NEW n \in Nat, NEW row \in EarningRow,
         BookRows, Saved(k, row), m = Len(earnings), Added(f, g, m, k, n), NEW b \in Bases,
         NEW more \in Nat, more = IF row.base = b THEN n ELSE 0
  PROVE  Total(OfBase(b, g)') = Total(OfBase(b, f)) + more
<1>1. DOMAIN earnings = 1 .. m /\ OfBase(b, f) \in [1 .. m -> Nat]
  BY SavedRows DEF OfBase
<1>2. Added(OfBase(b, f), OfBase(b, g)', m, k, more)
  <2>1. CASE k = 0
    <3>1. /\ g \in [1 .. m + 1 -> Nat] /\ (\A i \in 1 .. m : g[i] = f[i]) /\ g[m + 1] = n
      BY <2>1 DEF Added
    <3>2. /\ DOMAIN earnings' = 1 .. m + 1 /\ (\A i \in 1 .. m : earnings'[i] = earnings[i])
          /\ earnings'[m + 1] = row
      BY <2>1, SavedRows
    <3>3. OfBase(b, g)' \in [1 .. m + 1 -> Nat]
      BY <3>1, <3>2 DEF OfBase
    <3>4. \A i \in 1 .. m : OfBase(b, g)'[i] = OfBase(b, f)[i]
      BY <1>1, <3>1, <3>2 DEF OfBase
    <3>5. OfBase(b, g)'[m + 1] = more
      BY <3>1, <3>2 DEF OfBase
    <3> QED BY <2>1, <3>3, <3>4, <3>5 DEF Added
  <2>2. CASE k # 0
    <3>1. /\ k \in 1 .. m /\ g \in [1 .. m -> Nat] /\ (\A i \in (1 .. m) \ {k} : g[i] = f[i])
          /\ g[k] = f[k] + n
      BY <2>2 DEF Added
    <3>2. /\ DOMAIN earnings' = 1 .. m /\ (\A i \in (1 .. m) \ {k} : earnings'[i] = earnings[i])
          /\ earnings'[k] = row /\ earnings[k].base = row.base
      BY <2>2, SavedRows
    <3>3. OfBase(b, g)' \in [1 .. m -> Nat]
      BY <3>1, <3>2 DEF OfBase
    <3>4. \A i \in (1 .. m) \ {k} : OfBase(b, g)'[i] = OfBase(b, f)[i]
      BY <1>1, <3>1, <3>2 DEF OfBase
    <3>5. OfBase(b, g)'[k] = OfBase(b, f)[k] + more
      <4>1. CASE row.base = b
        BY <1>1, <3>1, <3>2, <4>1 DEF OfBase
      <4>2. CASE row.base # b
        BY <1>1, <3>1, <3>2, <4>2 DEF OfBase
      <4> QED BY <4>1, <4>2
    <3> QED BY <3>1, <3>3, <3>4, <3>5 DEF Added
  <2> QED BY <2>1, <2>2
<1> QED BY <1>1, <1>2, AddedTotal

\* The earning is saved: what was owed to the base is, and the payout is no longer
\* ahead by it.  A save from an old copy is marked.
LEMMA LedgerEarns ==
  ASSUME Ledger, Locals, NEW w \in Workers, SaveEarning(w)
  PROVE  Ledger'
<1>0. /\ pc[w] = "save-earning" /\ Using(w) /\ req[w].n \in Nat /\ req[w].word = "owned"
      /\ req[w].on \in Bases
      /\ copy[w] \in [id : Nat, payout : PayoutRow \union {None}, earning : EarningRow]
      /\ copy[w].earning.base = req[w].on
  BY DEF SaveEarning, Ledger, Sound, Using, UseSteps, CopySteps, DebitSteps
<1> DEFINE n   == req[w].n
           k   == copy[w].id
           old == copy[w].earning
           row == Credited(old, n)
<1>1. UNCHANGED <<uses, debits, payout, untold>>
  BY DEF SaveEarning, notice
<1>2. /\ k = 0 => old.gross = 0 /\ old.fee = 0 /\ old.net = 0
      /\ k # 0 => k \in DOMAIN earnings /\ earnings[k].base = old.base
  BY <1>0 DEF Using, UseSteps, CopySteps
<1>3. /\ k = 0 => earnings' = Append(earnings, row) /\ Answer(w)
      /\ k # 0 => /\ earnings' = [earnings EXCEPT ![k] = row]
                  /\ SaveThen(w, "idle", Books, earnings[k] # old)
  BY DEF SaveEarning
<1>4. n \in Nat /\ k \in Nat /\ old \in EarningRow /\ old.base = req[w].on
  BY <1>0
<1>5. pc[w] \in CopySteps /\ copy[w].id = k /\ copy[w].earning = old /\ req[w].n = n
  BY <1>0 DEF CopySteps
<1> HIDE DEF n, k, old
<1>6. PICK fee \in Nat, net \in Nat : fee = Fee(n) /\ net = n - Fee(n)
  BY <1>4, FeeNat
<1>7. /\ row \in EarningRow /\ row.base = old.base /\ row.gross = old.gross + n
      /\ row.fee = old.fee + fee /\ row.net = old.net + net
  BY <1>4, <1>6, EarningCredited
<1> HIDE DEF row
<1>8. Saved(k, row)
  BY <1>2, <1>3, <1>7 DEF Saved
<1>9. /\ Moves(w, {"idle"}) /\ pc'[w] = "idle" /\ stale \subseteq stale'
      /\ Books \notin stale' /\ k # 0 => earnings[k] = old
  <2>1. CASE k = 0
    BY <1>3, <2>1, AnswerMoves DEF Answer
  <2>2. CASE k # 0
    <3>1. SaveThen(w, "idle", Books, earnings[k] # old)
      BY <1>3, <2>2
    <3>2. Moves(w, {"idle"}) /\ pc'[w] = "idle"
      BY <3>1, SaveThenMoves
    <3> QED BY <2>2, <3>1, <3>2 DEF SaveThen
  <2> QED BY <2>1, <2>2
<1>10. BookRows
  BY DEF Ledger, Sound
<1>11. Sound'
  <2>1. BookRows'
    BY <1>1, <1>7, <1>8, <1>10, SavedRows DEF BookRows
  <2>2. \A i \in DOMAIN earnings : i \in DOMAIN earnings' /\ earnings'[i].base = earnings[i].base
    BY <1>7, <1>8, <1>10, SavedRows
  <2>3. ASSUME NEW v \in Workers PROVE Using(v)'
    <3>1. CASE v # w
      BY <1>9, <2>2, <3>1, UsingStays DEF Moves, Ledger, Sound
    <3>2. CASE v = w
      BY <1>9, <3>2, UsingElse DEF UseSteps
    <3> QED BY <3>1, <3>2
  <2> QED BY <2>1, <2>3 DEF Sound
<1>12. Numbered /\ Numbered'
  BY <1>11, Numbers, NumbersNext DEF Ledger
<1>13. Undebited' = Undebited /\ Unpaid' = Unpaid
  <2>1. Undebited'[w] = Undebited[w] /\ Unpaid'[w] = Unpaid[w]
    BY <1>0, <1>9 DEF Undebited, Unpaid, DebitSteps, UseSteps
  <2>2. \A v \in Workers : Undebited'[v] = Undebited[v] /\ Unpaid'[v] = Unpaid[v]
    BY <1>9, <2>1 DEF Undebited, Unpaid, Moves
  <2> QED BY <2>2 DEF Undebited, Unpaid
<1> DEFINE more == [b \in Bases |-> IF row.base = b THEN n ELSE 0]
<1>14. more \in [Bases -> Nat] /\ \A b \in Bases : more[b] = IF row.base = b THEN n ELSE 0
  BY <1>4
<1> HIDE DEF more
<1>15. ASSUME NEW b \in Bases PROVE Total(Owed(b)) = Total(Owed(b)') + more[b]
  <2>1. Owed(b)[w] = more[b] /\ Owed(b)'[w] = 0
    BY <1>0, <1>4, <1>5, <1>7, <1>9, <1>14 DEF Owed, UseSteps
  <2>2. Total(Owed(b)') + Owed(b)[w] = Total(Owed(b)) + Owed(b)'[w]
    BY <1>9, <1>11, AmountsMove DEF Ledger
  <2>3. Total(Owed(b)') \in Nat /\ Total(Owed(b)) \in Nat /\ more[b] \in Nat
    BY <1>12, <1>14 DEF Numbered
  <2> QED BY <2>1, <2>2, <2>3
<1>16. /\ Total(Ahead) = Total(Ahead') + n /\ Total(AheadFee) = Total(AheadFee') + fee
       /\ Total(AheadNet) = Total(AheadNet') + net
  <2>1. /\ Ahead[w] = n /\ Ahead'[w] = 0 /\ AheadFee[w] = fee /\ AheadFee'[w] = 0
        /\ AheadNet[w] = net /\ AheadNet'[w] = 0
    BY <1>0, <1>5, <1>6, <1>9 DEF Ahead, AheadFee, AheadNet
  <2>2. /\ Total(Ahead) \in Nat /\ Total(Ahead') \in Nat
        /\ Total(AheadFee) \in Nat /\ Total(AheadFee') \in Nat
        /\ Total(AheadNet) \in Nat /\ Total(AheadNet') \in Nat
    BY <1>12 DEF Numbered
  <2>3. Total(Ahead') + Ahead[w] = Total(Ahead) + Ahead'[w]
    BY <1>9, <1>11, AmountsMove DEF Ledger
  <2>4. Total(AheadFee') + AheadFee[w] = Total(AheadFee) + AheadFee'[w]
    BY <1>9, <1>11, AmountsMove DEF Ledger
  <2>5. Total(AheadNet') + AheadNet[w] = Total(AheadNet) + AheadNet'[w]
    BY <1>9, <1>11, AmountsMove DEF Ledger
  <2> QED BY <1>4, <2>1, <2>2, <2>3, <2>4, <2>5
<1>17. \A v \in Workers : pc'[v] \in CopySteps => v # w /\ pc[v] \in CopySteps /\ copy'[v] = copy[v]
  BY <1>9 DEF Moves, CopySteps
<1>18. Unmarked' => Unmarked /\ (k # 0 => earnings[k] = old)
  BY <1>1, <1>9 DEF Unmarked
<1>19. Debited'
  <2>1. \A v \in Workers : Undebited'[v] <= Undebited[v]
    BY <1>12, <1>13 DEF Numbered
  <2> QED BY <1>1, <1>11, <1>13, <2>1, DebitedKept
<1>20. PaidOnce'
  <2>1. \A v \in Workers : Unpaid'[v] <= Unpaid[v]
    BY <1>12, <1>13 DEF Numbered
  <2>2. PaidGross' = PaidGross
    BY <1>1 DEF PaidGross
  <2> QED BY <1>1, <1>11, <1>17, <2>1, <2>2, PaidOnceKept
<1>21. PaidFirst'
  BY <1>0, <1>1 DEF Ledger, PaidFirst
<1>22. PICK m \in Nat : m = Len(earnings) /\ DOMAIN earnings = 1 .. m
  BY <1>7, <1>8, <1>10, SavedRows
<1>23. ASSUME NEW f \in [1 .. m -> Nat], NEW g, Added(f, g, m, k, n), NEW b \in Bases
       PROVE  Total(OfBase(b, g)') = Total(OfBase(b, f)) + more[b]
  <2>1. more[b] \in Nat /\ more[b] = IF row.base = b THEN n ELSE 0
    BY <1>14
  <2> QED BY <1>4, <1>7, <1>8, <1>10, <1>22, <1>23, <2>1, SavedColumn
<1>24. EarnedOnce'
  <2>1. PICK most \in [DOMAIN earnings -> Nat] :
          /\ \A i \in DOMAIN earnings : earnings[i].gross <= most[i]
          /\ \A v \in Workers : pc[v] \in CopySteps /\ copy[v].id # 0 =>
                                  copy[v].earning.gross <= most[copy[v].id]
          /\ \A b \in Bases : Total(OfBase(b, most)) + Total(Owed(b)) <= Used(b)
    BY DEF Ledger, EarnedOnce
  <2>2. most \in [1 .. m -> Nat] /\ old.gross \in Nat
    BY <1>4, <1>22 DEF EarningRow
  <2>3. \E now \in [DOMAIN earnings' -> Nat] :
          /\ Added(most, now, m, k, n)
          /\ \A i \in DOMAIN earnings' : earnings'[i].gross <= now[i]
          /\ \A i \in DOMAIN earnings : most[i] <= now[i]
    <3>1. CASE k = 0
      <4> DEFINE now == [i \in 1 .. m + 1 |-> IF i \in 1 .. m THEN most[i] ELSE n]
      <4>1. /\ now \in [1 .. m + 1 -> Nat] /\ (\A i \in 1 .. m : now[i] = most[i]) /\ now[m + 1] = n
        BY <1>4, <2>2
      <4> HIDE DEF now
      <4>2. /\ DOMAIN earnings' = 1 .. m + 1 /\ (\A i \in 1 .. m : earnings'[i] = earnings[i])
            /\ earnings'[m + 1] = row
        BY <1>7, <1>8, <1>10, <1>22, <3>1, SavedRows
      <4>3. row.gross = n
        BY <1>2, <1>4, <1>7, <3>1
      <4>4. \A i \in 1 .. m + 1 : earnings'[i].gross <= now[i]
        <5>1. \A i \in 1 .. m : earnings'[i].gross <= now[i]
          BY <1>22, <2>1, <4>1, <4>2
        <5>2. earnings'[m + 1].gross <= now[m + 1]
          BY <1>4, <4>1, <4>2, <4>3
        <5> QED BY <5>1, <5>2
      <4>5. \A i \in DOMAIN earnings : most[i] <= now[i]
        BY <1>22, <2>2, <4>1
      <4>6. Added(most, now, m, k, n)
        BY <3>1, <4>1 DEF Added
      <4> QED BY <4>1, <4>2, <4>4, <4>5, <4>6
    <3>2. CASE k # 0
      <4> DEFINE now == [i \in 1 .. m |-> IF i = k THEN most[k] + n ELSE most[i]]
      <4>0. k \in 1 .. m
        BY <1>2, <1>22, <3>2
      <4>1. /\ now \in [1 .. m -> Nat] /\ (\A i \in (1 .. m) \ {k} : now[i] = most[i])
            /\ now[k] = most[k] + n
        BY <1>4, <2>2, <4>0
      <4> HIDE DEF now
      <4>2. /\ DOMAIN earnings' = 1 .. m
            /\ (\A i \in (1 .. m) \ {k} : earnings'[i] = earnings[i]) /\ earnings'[k] = row
        BY <1>7, <1>8, <1>10, <1>22, <3>2, SavedRows
      <4>3. row.gross <= now[k] /\ most[k] <= now[k]
        <5>1. old.gross <= most[k] /\ most[k] \in Nat
          BY <1>5, <2>1, <2>2, <3>2, <4>0
        <5> QED BY <1>4, <1>7, <2>2, <4>1, <5>1
      <4>4. \A i \in 1 .. m : earnings'[i].gross <= now[i]
        <5>1. ASSUME NEW i \in 1 .. m, i # k PROVE earnings'[i].gross <= now[i]
          BY <1>22, <2>1, <4>1, <4>2, <5>1
        <5> QED BY <4>2, <4>3, <5>1
      <4>5. \A i \in 1 .. m : most[i] <= now[i]
        <5>1. ASSUME NEW i \in 1 .. m, i # k PROVE most[i] <= now[i]
          BY <2>2, <4>1, <5>1
        <5> QED BY <4>3, <5>1
      <4>6. Added(most, now, m, k, n)
        BY <4>0, <4>1 DEF Added
      <4> QED BY <1>22, <4>1, <4>2, <4>4, <4>5, <4>6
    <3> QED BY <3>1, <3>2
  <2>4. PICK now \in [DOMAIN earnings' -> Nat] :
          /\ Added(most, now, m, k, n)
          /\ \A i \in DOMAIN earnings' : earnings'[i].gross <= now[i]
          /\ \A i \in DOMAIN earnings : most[i] <= now[i]
    BY <2>3
  <2>5. ASSUME NEW b \in Bases PROVE Total(OfBase(b, now)') + Total(Owed(b)') <= Used(b)'
    <3>1. Total(OfBase(b, now)') = Total(OfBase(b, most)) + more[b]
      BY <1>23, <2>2, <2>4
    <3>2. Total(OfBase(b, most)) \in Nat
      <4>1. IsFiniteSet(1 .. m) /\ OfBase(b, most) \in [1 .. m -> Nat]
        BY <1>22, <2>2, FS_Interval DEF OfBase
      <4> QED BY <4>1, TotalNat
    <3>3. Total(Owed(b)) \in Nat /\ Total(Owed(b)') \in Nat /\ more[b] \in Nat /\ Used(b)' = Used(b)
      BY <1>1, <1>12, <1>14 DEF Numbered, Used
    <3>4. Total(OfBase(b, most)) + Total(Owed(b)) <= Used(b)
      BY <2>1
    <3>5. Total(Owed(b)) = Total(Owed(b)') + more[b]
      BY <1>15
    <3>6. Total(OfBase(b, now)') + Total(Owed(b)') = Total(OfBase(b, most)) + Total(Owed(b))
      BY <3>1, <3>2, <3>3, <3>5
    <3> QED BY <3>3, <3>4, <3>6
  <2>6. ASSUME NEW v \in Workers, pc'[v] \in CopySteps, copy'[v].id # 0
        PROVE  copy'[v].earning.gross <= now[copy'[v].id]
    <3>1. /\ copy[v].id \in DOMAIN earnings /\ copy[v].earning.gross \in Nat
          /\ copy[v].earning.gross <= most[copy[v].id]
      <4>1. pc[v] \in UseSteps /\ pc[v] \in CopySteps /\ copy[v].id # 0 /\ Using(v)
        BY <1>17, <2>6 DEF CopySteps, UseSteps, Ledger, Sound
      <4>2. copy[v].id \in DOMAIN earnings /\ copy[v].earning \in EarningRow
        BY <4>1 DEF Using
      <4> QED BY <2>1, <4>1, <4>2 DEF EarningRow
    <3>2. PICK a \in Nat, b \in Nat, c \in Nat :
            a = copy[v].earning.gross /\ b = most[copy[v].id] /\ c = now[copy[v].id] /\ b <= c
      <4>1. copy[v].id \in DOMAIN earnings'
        BY <1>7, <1>8, <1>10, <3>1, SavedRows
      <4> QED BY <2>1, <2>4, <3>1, <4>1
    <3> QED BY <1>17, <2>6, <3>1, <3>2
  <2> QED BY <2>4, <2>5, <2>6 DEF EarnedOnce
<1>25. ASSUME Unmarked'
       PROVE  /\ Added(EarnGross, EarnGross', m, k, n)
              /\ Added(EarnFee, EarnFee', m, k, fee) /\ Added(EarnNet, EarnNet', m, k, net)
  <2>0. /\ EarnGross' = [i \in DOMAIN earnings' |-> earnings'[i].gross]
        /\ EarnFee' = [i \in DOMAIN earnings' |-> earnings'[i].fee]
        /\ EarnNet' = [i \in DOMAIN earnings' |-> earnings'[i].net]
        /\ EarnGross = [i \in 1 .. m |-> earnings[i].gross]
        /\ EarnFee = [i \in 1 .. m |-> earnings[i].fee]
        /\ EarnNet = [i \in 1 .. m |-> earnings[i].net]
    BY <1>22 DEF EarnGross, EarnFee, EarnNet
  <2>1. \A i \in DOMAIN earnings' :
          earnings'[i].gross \in Nat /\ earnings'[i].fee \in Nat /\ earnings'[i].net \in Nat
    <3>1. \A i \in DOMAIN earnings' : earnings'[i] \in EarningRow
      BY <1>11 DEF Sound, BookRows
    <3> QED BY <3>1 DEF EarningRow
  <2>2. CASE k = 0
    <3>1. /\ DOMAIN earnings' = 1 .. m + 1 /\ (\A i \in 1 .. m : earnings'[i] = earnings[i])
          /\ earnings'[m + 1] = row /\ 1 .. m \subseteq 1 .. m + 1 /\ m + 1 \in 1 .. m + 1
      BY <1>7, <1>8, <1>10, <1>22, <2>2, SavedRows
    <3>2. row.gross = n /\ row.fee = fee /\ row.net = net
      BY <1>2, <1>4, <1>7, <2>2
    <3>3. Added(EarnGross, EarnGross', m, k, n)
      BY <2>0, <2>1, <2>2, <3>1, <3>2 DEF Added
    <3>4. Added(EarnFee, EarnFee', m, k, fee)
      BY <2>0, <2>1, <2>2, <3>1, <3>2 DEF Added
    <3>5. Added(EarnNet, EarnNet', m, k, net)
      BY <2>0, <2>1, <2>2, <3>1, <3>2 DEF Added
    <3> QED BY <3>3, <3>4, <3>5
  <2>3. CASE k # 0
    <3>1. /\ k \in 1 .. m /\ DOMAIN earnings' = 1 .. m
          /\ (\A i \in (1 .. m) \ {k} : earnings'[i] = earnings[i]) /\ earnings'[k] = row
      BY <1>7, <1>8, <1>10, <1>22, <2>3, SavedRows
    <3>2. /\ row.gross = earnings[k].gross + n /\ row.fee = earnings[k].fee + fee
          /\ row.net = earnings[k].net + net
      BY <1>7, <1>18, <1>25, <2>3
    <3>3. Added(EarnGross, EarnGross', m, k, n)
      BY <2>0, <2>1, <3>1, <3>2 DEF Added
    <3>4. Added(EarnFee, EarnFee', m, k, fee)
      BY <2>0, <2>1, <3>1, <3>2 DEF Added
    <3>5. Added(EarnNet, EarnNet', m, k, net)
      BY <2>0, <2>1, <3>1, <3>2 DEF Added
    <3> QED BY <3>3, <3>4, <3>5
  <2> QED BY <2>2, <2>3
<1>26. EarnGross \in [1 .. m -> Nat] /\ EarnFee \in [1 .. m -> Nat] /\ EarnNet \in [1 .. m -> Nat]
  BY <1>10, <1>22, ColumnsNat
<1>27. EarnedAll'
  <2>1. ASSUME Unmarked', NEW b \in Bases PROVE Earned(b)' + Total(Owed(b)') = Used(b)'
    <3>1. Earned(b)' = Earned(b) + more[b]
      <4>0. PICK f \in [1 .. m -> Nat] : f = EarnGross
        BY <1>26
      <4>1. PICK g : f = EarnGross /\ g = EarnGross'
        BY <4>0
      <4>2. Added(f, g, m, k, n)
        BY <1>25, <2>1, <4>1
      <4>3. Total(OfBase(b, g)') = Total(OfBase(b, f)) + more[b]
        BY <1>23, <4>2
      <4>4. Earned(b) = Total(OfBase(b, f))
        BY <4>1, EarnedIs
      <4>5. Earned(b)' = Total(OfBase(b, g)')
        <5>1. OfBase(b, g)' =
                [i \in DOMAIN earnings' |-> IF earnings'[i].base = b THEN earnings'[i].gross ELSE 0]
          BY <4>1 DEF OfBase, EarnGross
        <5> QED BY <5>1 DEF Earned
      <4> QED BY <4>3, <4>4, <4>5
    <3>2. Earned(b) + Total(Owed(b)) = Used(b)
      BY <1>18, <2>1 DEF Ledger, EarnedAll
    <3>3. /\ Total(Owed(b)) \in Nat /\ Total(Owed(b)') \in Nat /\ more[b] \in Nat /\ Earned(b) \in Nat
          /\ Used(b)' = Used(b)
      BY <1>1, <1>12, <1>14 DEF Numbered, Used
    <3>4. Total(Owed(b)) = Total(Owed(b)') + more[b]
      BY <1>15
    <3> QED BY <3>1, <3>2, <3>3, <3>4
  <2> QED BY <2>1 DEF EarnedAll
<1>28. PaidAll'
  <2>1. PaidGross' = PaidGross /\ PaidFee' = PaidFee /\ PaidNet' = PaidNet
    BY <1>1 DEF PaidGross, PaidFee, PaidNet
  <2>2. ASSUME Unmarked'
        PROVE  /\ PaidGross = Total(EarnGross') + Total(Ahead')
               /\ PaidFee = Total(EarnFee') + Total(AheadFee')
               /\ PaidNet = Total(EarnNet') + Total(AheadNet')
    <3>1. /\ PaidGross = Total(EarnGross) + Total(Ahead)
          /\ PaidFee = Total(EarnFee) + Total(AheadFee)
          /\ PaidNet = Total(EarnNet) + Total(AheadNet)
      BY <1>18, <2>2 DEF Ledger, PaidAll
    <3>2. Total(EarnGross') = Total(EarnGross) + n
      <4>1. PICK f \in [1 .. m -> Nat] : f = EarnGross
        BY <1>26
      <4>2. PICK g : g = EarnGross'
        OBVIOUS
      <4>3. Added(f, g, m, k, n)
        BY <1>25, <2>2, <4>1, <4>2
      <4>4. Total(g) = Total(f) + n
        BY <1>4, <4>3, AddedTotal
      <4> QED BY <4>1, <4>2, <4>4
    <3>3. Total(EarnFee') = Total(EarnFee) + fee
      <4>1. PICK f \in [1 .. m -> Nat] : f = EarnFee
        BY <1>26
      <4>2. PICK g : g = EarnFee'
        OBVIOUS
      <4>3. Added(f, g, m, k, fee)
        BY <1>25, <2>2, <4>1, <4>2
      <4>4. Total(g) = Total(f) + fee
        BY <4>3, AddedTotal
      <4> QED BY <4>1, <4>2, <4>4
    <3>4. Total(EarnNet') = Total(EarnNet) + net
      <4>1. PICK f \in [1 .. m -> Nat] : f = EarnNet
        BY <1>26
      <4>2. PICK g : g = EarnNet'
        OBVIOUS
      <4>3. Added(f, g, m, k, net)
        BY <1>25, <2>2, <4>1, <4>2
      <4>4. Total(g) = Total(f) + net
        BY <4>3, AddedTotal
      <4> QED BY <4>1, <4>2, <4>4
    <3>5. /\ Total(EarnGross) \in Nat /\ Total(EarnFee) \in Nat /\ Total(EarnNet) \in Nat
          /\ Total(Ahead') \in Nat /\ Total(AheadFee') \in Nat /\ Total(AheadNet') \in Nat
      BY <1>12 DEF Numbered
    <3> QED BY <1>4, <1>16, <3>1, <3>2, <3>3, <3>4, <3>5
  <2> QED BY <2>1, <2>2 DEF PaidAll
<1> QED BY <1>11, <1>19, <1>20, <1>21, <1>24, <1>27, <1>28 DEF Ledger

LEMMA LedgerBilling ==
  ASSUME Ledger, Locals, BillNext
  PROVE  Ledger'
<1>1. CASE UseFreely
  BY <1>1, LedgerFree
<1>2. ASSUME NEW w \in Workers, CreateUsageRecord(w) PROVE Ledger'
  BY <1>2, LedgerRecords
<1>3. ASSUME NEW w \in Workers, GetAccount(w) \/ CreateAccount(w) PROVE Ledger'
  BY <1>3, LedgerAccount
<1>4. ASSUME NEW w \in Workers, CreateTransaction(w) PROVE Ledger'
  BY <1>4, LedgerDebits
<1>5. ASSUME NEW w \in Workers, GetEarning(w) \/ GetPayout(w) PROVE Ledger'
  BY <1>5, LedgerReads
<1>6. ASSUME NEW w \in Workers, SavePayout(w) PROVE Ledger'
  BY <1>6, LedgerPays
<1>7. ASSUME NEW w \in Workers, SaveEarning(w) PROVE Ledger'
  BY <1>7, LedgerEarns
<1>8. ASSUME NEW w \in Workers,
             \/ MarkPayoutPaid(w) \/ CreateInvoice(w) \/ MarkInvoicePaid(w)
             \/ RequestRefund(w) \/ ResolveRefund(w) \/ OpenDispute(w) \/ ResolveDispute(w)
      PROVE  Ledger'
  BY <1>8, LedgerAudited
<1> QED BY <1>1, <1>2, <1>3, <1>4, <1>5, <1>6, <1>7, <1>8 DEF BillNext

LEMMA LedgerStep == Flow /\ Ledger /\ [Next]_vars => Ledger'
<1> SUFFICES ASSUME Flow, Ledger, [Next]_vars PROVE Ledger'
  OBVIOUS
<1>0. Locals
  BY DEF Flow
<1>1. ASSUME Spared, UNCHANGED billVars PROVE Ledger'
  BY <1>1, LedgerElsewhere, MarksStay
<1>2. CASE UNCHANGED vars
  <2>1. UNCHANGED <<pc, req, copy, stale>> /\ UNCHANGED billVars
    BY <1>2 DEF vars, flow
  <2> QED BY <1>0, <1>1, <2>1, SparedStay
<1>3. CASE GovNext /\ UNCHANGED billVars
  BY <1>1, <1>3, SparedGov
<1>4. CASE ObjNext /\ UNCHANGED billVars
  BY <1>0, <1>1, <1>4, SparedObjects
<1>5. CASE AuditNext /\ UNCHANGED billVars
  BY <1>0, <1>1, <1>5, SparedAudit
<1>6. CASE SageNext /\ UNCHANGED billVars
  BY <1>0, <1>1, <1>6, SparedSage
<1>7. CASE HubNext /\ UNCHANGED billVars
  BY <1>0, <1>1, <1>7, SparedHub
<1>8. CASE SetNext /\ UNCHANGED billVars
  BY <1>0, <1>1, <1>8, SparedSet
<1>9. CASE BillNext
  BY <1>0, <1>9, LedgerBilling
<1>10. CASE ChatNext /\ UNCHANGED billVars
  BY <1>0, <1>1, <1>10, SparedChat
<1>11. CASE (\E w \in Workers : Abandon(w)) /\ UNCHANGED billVars
  BY <1>0, <1>11, LedgerAbandons
<1> QED BY <1>2, <1>3, <1>4, <1>5, <1>6, <1>7, <1>8, <1>9, <1>10, <1>11 DEF Next

LEMMA LedgerInit == Init => Ledger
<1> SUFFICES ASSUME Init PROVE Ledger
  OBVIOUS
<1>1. /\ uses = <<>> /\ debits = <<>> /\ earnings = <<>> /\ payout = None
      /\ \A w \in Workers : pc[w] = "idle"
  BY DEF Init, BillInit, FlowInit
<1>2. Sound
  <2>1. BookRows
    BY <1>1 DEF BookRows
  <2>2. \A w \in Workers : Using(w)
    BY <1>1 DEF Using, UseSteps
  <2> QED BY <2>1, <2>2 DEF Sound
<1>3. \A w \in Workers : pc[w] \notin UseSteps /\ pc[w] \notin DebitSteps /\ pc[w] \notin CopySteps
  BY <1>1 DEF UseSteps, DebitSteps, CopySteps
<1>4. /\ Undebited \in [Workers -> {0}] /\ Unpaid \in [Workers -> {0}]
      /\ \A base : Owed(base) \in [Workers -> {0}]
      /\ Ahead \in [Workers -> {0}] /\ AheadFee \in [Workers -> {0}] /\ AheadNet \in [Workers -> {0}]
  BY <1>1, <1>3 DEF Undebited, Unpaid, Owed, Ahead, AheadFee, AheadNet
<1>5. /\ Total(Undebited) = 0 /\ Total(Unpaid) = 0 /\ \A base : Total(Owed(base)) = 0
      /\ Total(Ahead) = 0 /\ Total(AheadFee) = 0 /\ Total(AheadNet) = 0
  BY <1>4, TotalZero, BillingAssumption
<1>6. IsFiniteSet({}) /\ DOMAIN uses = {} /\ DOMAIN debits = {} /\ DOMAIN earnings = {}
  BY <1>1, FS_EmptySet
<1>7. /\ debits \in [{} -> {0}] /\ UseAmount \in [{} -> {0}]
      /\ \A base : UseFor(base) \in [{} -> {0}]
      /\ EarnGross \in [{} -> {0}] /\ EarnFee \in [{} -> {0}] /\ EarnNet \in [{} -> {0}]
      /\ \A base, most : OfBase(base, most) \in [{} -> {0}]
  BY <1>1, <1>6 DEF UseAmount, UseFor, EarnGross, EarnFee, EarnNet, OfBase
<1>8. /\ Total(debits) = 0 /\ Total(UseAmount) = 0 /\ \A base : Total(UseFor(base)) = 0
      /\ Total(EarnGross) = 0 /\ Total(EarnFee) = 0 /\ Total(EarnNet) = 0
      /\ \A base, most : Total(OfBase(base, most)) = 0
  BY <1>6, <1>7, TotalZero
<1>9. \A base : Used(base) = 0 /\ Earned(base) = 0
  BY <1>8, UsedIs, EarnedIs
<1>10. Total(Offered) = 0 /\ PaidGross = 0 /\ PaidFee = 0 /\ PaidNet = 0
  <2>1. Offered \in [Bases -> {0}]
    BY <1>9 DEF Offered
  <2> QED BY <1>1, <2>1, TotalZero, BillingAssumption DEF PaidGross, PaidFee, PaidNet
<1>11. Debited
  BY <1>5, <1>8 DEF Debited
<1>12. EarnedOnce
  <2>1. PICK most \in [DOMAIN earnings -> Nat] : most = [n \in DOMAIN earnings |-> 0]
    OBVIOUS
  <2>2. \A base \in Bases : Total(OfBase(base, most)) + Total(Owed(base)) <= Used(base)
    BY <1>5, <1>8, <1>9
  <2> QED BY <1>3, <1>6, <2>2 DEF EarnedOnce
<1>13. EarnedAll
  BY <1>5, <1>9 DEF EarnedAll
<1>14. PaidOnce
  BY <1>3, <1>5, <1>10 DEF PaidOnce
<1>15. PaidAll
  BY <1>5, <1>8, <1>10 DEF PaidAll
<1>16. PaidFirst
  BY <1>1 DEF PaidFirst
<1> QED BY <1>2, <1>11, <1>12, <1>13, <1>14, <1>15, <1>16 DEF Ledger

\* In every state, nothing of what was used is debited, earned or paid out twice; and
\* once no use is in progress it is all debited, earned and paid out, with the same
\* fees in the payout as in the earnings, unless a use failed half way or saved a row
\* that another use had changed (BooksBalance; RecordUsage, AddContributorEarning,
\* UpsertPayoutPeriod).
THEOREM BooksTrue == Spec => []BooksBalance
<1>1. Spec => []Ledger
  BY LedgerInit, LedgerStep, FlowHolds, PTL DEF Spec
<1> QED BY <1>1, LedgerBalances, PTL
=============================================================================
