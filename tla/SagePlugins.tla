------------------------------ MODULE SagePlugins -----------------------------
(***************************************************************************)
(* The SAGE plugin platform: a developer's plugin and its versions, their  *)
(* review, the catalogue, installations, permission grants, invocations    *)
(* and the reports about them.  Grants and invocations are governed.       *)
(*                                                                         *)
(* There is one plugin.  "Save" writes back the whole row that was read,   *)
(* which is marked as stale when the row has changed since.  A transaction *)
(* is one step.  Manifests are valid or not; texts, scopes and metering    *)
(* are left out, as are the requests that only read.                       *)
(***************************************************************************)
EXTENDS Objects, AuditLog

CONSTANTS
  Users,           \* those who install the plugin
  Versions,        \* version numbers
  Permissions,     \* permission keys
  HighRisk,        \* the permissions of high risk
  ClientIds,       \* client_request_id and client_report_id
  Reviews          \* the decisions a reviewer may take

Plugin == "plugin" \* the id of the plugin

VARIABLES
  plugin,          \* sage_plugins
  versions,        \* sage_plugin_versions
  reviews,         \* sage_plugin_reviews
  installations,   \* sage_plugin_installations, one of a user
  grants,          \* sage_plugin_permission_grants: a status for each permission
  invocations,     \* sage_plugin_invocations
  reports,         \* sage_plugin_execution_reports
  ledger,          \* sage_plugin_usage_ledgers: the report each is for
  confirmed        \* confirmations of the user for high-risk grants, not used yet

catalogue == <<plugin, versions, reviews>>
usage     == <<invocations, reports, ledger>>
sageVars  == <<catalogue, installations, grants, usage, confirmed>>
outside   == <<govVars, objVars, auditVars>>   \* the tables of other components
ungoverned == <<capabilities, rules, switches, decisions, receipts, scans, config>>

Grants == Users \X Permissions

NewPlugin == [status |-> "draft", review |-> "pending", public |-> FALSE, latest |-> 0,
              approved |-> 0]
Published == [status |-> "published", review |-> "approved", public |-> TRUE, latest |-> 1,
              approved |-> 1]

\* Either there is no plugin yet, or its first version was approved; the second may
\* have been submitted.
SageInit(start) ==
  /\ plugin = IF ~ start.published THEN None
              ELSE IF start.submitted
                THEN [Published EXCEPT !.latest = 2, !.status = "submitted", !.review = "pending"]
                ELSE Published
  /\ versions = [v \in Versions |->
       IF v = 1 /\ start.published THEN [status |-> "approved", valid |-> TRUE]
       ELSE IF v = 2 /\ start.submitted THEN [status |-> "submitted", valid |-> TRUE] ELSE None]
  /\ reviews = IF start.published THEN <<[version |-> 1, decision |-> "approved"]>> ELSE <<>>
  /\ installations = [u \in Users |-> IF u \in start.installed
                                        THEN [version |-> 1, status |-> "active"] ELSE None]
  /\ grants = [g \in Grants |-> IF g \in start.granted THEN "active" ELSE None]
  /\ invocations = [n \in 1 .. start.invoked |->
       [user |-> CHOOSE u \in start.installed : TRUE, id |-> 0, status |-> "created"]]
  /\ reports = <<>> /\ ledger = <<>>
  /\ confirmed = start.confirmed
-----------------------------------------------------------------------------
(* Developers and reviewers. *)

\* plugin_key is unique.  An icon, which must be an active object, is left out.
CreatePlugin(w) ==
  /\ plugin = None
  /\ plugin' = NewPlugin
  /\ Begin(w, [Request EXCEPT !.op = "plugin"], "audit")
  /\ UNCHANGED <<versions, reviews, installations, grants, usage, confirmed, outside, notice>>

\* The request names a version, whether its manifest is valid, and perhaps a package.
BeginSubmitVersion(w) ==
  /\ plugin # None
  /\ \E v \in Versions, word \in {"valid", "invalid"}, o \in {0} \union DOMAIN objects :
       BeginRead(w, [Request EXCEPT !.op = "version", !.n = v, !.word = word, !.ref = o], plugin,
                 IF o = 0 THEN "submit" ELSE "package")
  /\ UNCHANGED <<sageVars, outside, notice>>

RequireActiveOwnedAsset(w) ==
  /\ pc[w] = "package"
  /\ IF RequireActiveOwnedObject(req[w].ref) THEN Goto(w, "submit") ELSE Answer(w)
  /\ UNCHANGED <<sageVars, outside, notice>>

\* The version is new, and the plugin is saved with it as its latest one.
SubmitVersion(w) ==
  /\ pc[w] = "submit"
  /\ IF versions[req[w].n] # None
       THEN Answer(w) /\ UNCHANGED catalogue
       ELSE LET valid == req[w].word = "valid"
            IN  /\ versions' = [versions EXCEPT ![req[w].n] =
                     [status |-> IF valid THEN "submitted" ELSE "draft", valid |-> valid]]
                /\ plugin' = IF valid
                     THEN [copy[w] EXCEPT !.latest = req[w].n, !.status = "submitted",
                                          !.review = "pending"]
                     ELSE [copy[w] EXCEPT !.latest = req[w].n]
                /\ SaveThen(w, "scan", <<"plugin">>, plugin # copy[w])
                /\ UNCHANGED reviews
  /\ UNCHANGED <<installations, grants, usage, confirmed, outside, notice>>

\* The scanner's findings about the manifest are stored: none, or some.
ScanManifest(w) ==
  /\ pc[w] = "scan"
  /\ \E n \in 0 .. 1 : PersistFindings(n)
  /\ Goto(w, "audit")
  /\ UNCHANGED <<capabilities, rules, switches, decisions, receipts, config, admitted, calm,
                 objVars, auditVars, sageVars, notice>>

BeginReview(w) ==
  /\ plugin # None
  /\ \E v \in Versions, decision \in Reviews :
       BeginRead(w, [Request EXCEPT !.op = "review", !.n = v, !.word = decision], plugin,
                 "reviewed")
  /\ UNCHANGED <<sageVars, outside, notice>>

ReadVersion(w) ==
  /\ pc[w] = "reviewed"
  /\ IF versions[req[w].n] = None THEN Answer(w)
     ELSE Keep(w, [plugin |-> copy[w], version |-> versions[req[w].n]], "review")
  /\ UNCHANGED <<sageVars, outside, notice>>

\* The rows a decision makes of the plugin and the version that were read.
ReviewedPlugin(row, decision, v) ==
  CASE decision = "approved" -> [row EXCEPT !.status = "published", !.review = "approved",
                                            !.public = TRUE, !.approved = v]
    [] decision \in {"rejected", "request_changes"} -> [row EXCEPT !.review = decision]
    [] decision \in {"takedown", "suspended"} ->
         [row EXCEPT !.status = "suspended", !.review = "takedown"]
    [] OTHER -> row

ReviewedVersion(row, decision) ==
  CASE decision = "approved" -> [row EXCEPT !.status = "approved"]
    [] decision \in {"rejected", "request_changes"} -> [row EXCEPT !.status = "rejected"]
    [] OTHER -> row

\* Mutant of ReviewPlugin: a rejection puts the approved version back in the catalogue.
ReviewPlugin_Restores(w) ==
  /\ pc[w] = "review"
  /\ reviews' = Append(reviews, [version |-> req[w].n, decision |-> req[w].word])
  /\ plugin' = IF req[w].word = "rejected" /\ copy[w].plugin.approved # 0
                 THEN [copy[w].plugin EXCEPT !.status = "published", !.review = "approved"]
                 ELSE ReviewedPlugin(copy[w].plugin, req[w].word, req[w].n)
  /\ versions' = [versions EXCEPT ![req[w].n] = ReviewedVersion(copy[w].version, req[w].word)]
  /\ SaveThen(w, "audit", <<"plugin">>,
              plugin # copy[w].plugin \/ versions[req[w].n] # copy[w].version)
  /\ UNCHANGED <<installations, grants, usage, confirmed, outside, notice>>

\* The review, the plugin and the version are written in one transaction; the two
\* rows were read before it.
ReviewPlugin(w) ==
  /\ pc[w] = "review"
  /\ reviews' = Append(reviews, [version |-> req[w].n, decision |-> req[w].word])
  /\ plugin' = ReviewedPlugin(copy[w].plugin, req[w].word, req[w].n)
  /\ versions' = [versions EXCEPT ![req[w].n] = ReviewedVersion(copy[w].version, req[w].word)]
  /\ SaveThen(w, "audit", <<"plugin">>,
              plugin # copy[w].plugin \/ versions[req[w].n] # copy[w].version)
  /\ UNCHANGED <<installations, grants, usage, confirmed, outside, notice>>

BeginSuspend(w) ==
  /\ plugin # None
  /\ BeginRead(w, [Request EXCEPT !.op = "suspend"], plugin, "suspend")
  /\ UNCHANGED <<sageVars, outside, notice>>

SuspendPlugin(w) ==
  /\ pc[w] = "suspend"
  /\ plugin' = [copy[w] EXCEPT !.status = "suspended", !.review = "takedown"]
  /\ SaveThen(w, "audit", <<"plugin">>, plugin # copy[w])
  /\ UNCHANGED <<versions, reviews, installations, grants, usage, confirmed, outside, notice>>
-----------------------------------------------------------------------------
(* Installations. *)

GetPublishedPluginByKey ==
  plugin # None /\ plugin.status = "published" /\ plugin.review = "approved"

\* Mutant of BeginInstall: the latest version is installed.
BeginInstall_Latest(w) ==
  /\ GetPublishedPluginByKey
  /\ \E u \in Users :
       Begin(w, [Request EXCEPT !.op = "install", !.user = u, !.n = plugin.latest,
                                !.row = <<"plugin", u>>], "installation")
  /\ UNCHANGED <<sageVars, outside, notice>>

\* The plugin must be published and approved; its approved version is remembered.
BeginInstall(w) ==
  /\ GetPublishedPluginByKey /\ plugin.approved # 0
  /\ \E u \in Users :
       Begin(w, [Request EXCEPT !.op = "install", !.user = u, !.n = plugin.approved,
                                !.row = <<"plugin", u>>], "installation")
  /\ UNCHANGED <<sageVars, outside, notice>>

GetInstallation(w) ==
  /\ pc[w] = "installation"
  /\ LET row == installations[req[w].user]
     IN  IF row = None THEN Goto(w, "install")
         ELSE IF row.status = "active" THEN Answer(w) ELSE Keep(w, row, "reinstall")
  /\ UNCHANGED <<sageVars, outside, notice>>

\* One installation of a user: the second of two concurrent ones fails.
InstallPlugin(w) ==
  /\ pc[w] = "install"
  /\ IF installations[req[w].user] # None
       THEN Answer(w) /\ UNCHANGED installations
       ELSE /\ installations' = [installations EXCEPT ![req[w].user] =
                                   [version |-> req[w].n, status |-> "active"]]
            /\ Keep(w, "active", "announce-new")
  /\ UNCHANGED <<catalogue, grants, usage, confirmed, outside, notice>>

\* The row is saved with a status, and goes on to be announced with it.
SaveInstallation(w, status) ==
  /\ installations' = [installations EXCEPT ![req[w].user] = [copy[w] EXCEPT !.status = status]]
  /\ pc' = [pc EXCEPT ![w] = "announce"]
  /\ copy' = [copy EXCEPT ![w] = status]
  /\ stale' = IF installations[req[w].user] # copy[w]
                THEN stale \union {req[w].row} ELSE stale
  /\ UNCHANGED <<req, bound, catalogue, grants, usage, confirmed, outside, notice>>

\* An installation that is back keeps the version it had.
ReinstallPlugin(w) == pc[w] = "reinstall" /\ SaveInstallation(w, "active")

BeginSetStatus(w) ==
  /\ \E u \in Users, status \in {"active", "disabled", "uninstalled"} :
       /\ installations[u] # None
       /\ BeginRead(w, [Request EXCEPT !.op = "status", !.user = u, !.word = status,
                                       !.row = <<"plugin", u>>], installations[u], "status")
  /\ UNCHANGED <<sageVars, outside, notice>>

SetInstallationStatus(w) == pc[w] = "status" /\ SaveInstallation(w, req[w].word)
-----------------------------------------------------------------------------
(* Permission grants. *)

\* What governance is asked; a permission of high risk needs a confirmation as well.
GrantRequest(u, p, token) ==
  [Request EXCEPT !.op = "grant", !.user = u, !.type = "grant", !.on = u, !.cap = p,
                  !.risk = IF p \in HighRisk THEN "high" ELSE "medium",
                  !.token = token, !.row = <<"grant", u, p>>,
                  !.then = IF p \in HighRisk THEN "confirm" ELSE "grant"]

\* The state of the installation is not looked at.
BeginGrant(w) ==
  /\ \E u \in Users, p \in Permissions,
        token \in {None} \union {<<n, i>> : n \in DOMAIN receipts, i \in 1 .. MaxIssues} :
       /\ installations[u] # None
       /\ token # None => token[2] <= receipts[token[1]].issue
       /\ Begin(w, GrantRequest(u, p, token), "enforce")
       /\ Govern(w, GrantRequest(u, p, token))
  /\ UNCHANGED <<ungoverned, admitted, objVars, auditVars, sageVars, notice>>

\* A confirmation is consumed after governance was, and before the grant is written.
ConsumeConfirmation(w) ==
  /\ pc[w] = "confirm"
  /\ IF confirmed > 0 THEN confirmed' = confirmed - 1 /\ Goto(w, "grant")
                      ELSE Answer(w) /\ UNCHANGED confirmed
  /\ UNCHANGED <<catalogue, installations, grants, usage, outside, notice>>

GrantOf(w) == <<req[w].user, req[w].row[3]>>

GetGrant(w) ==
  /\ pc[w] = "grant"
  /\ IF grants[GrantOf(w)] = None THEN Goto(w, "new-grant")
     ELSE Keep(w, grants[GrantOf(w)], "save-grant")
  /\ UNCHANGED <<sageVars, outside, notice>>

CreateGrant(w) ==
  /\ pc[w] = "new-grant"
  /\ IF grants[GrantOf(w)] # None
       THEN Answer(w) /\ UNCHANGED <<grants, admitted>>
       ELSE /\ grants' = [grants EXCEPT ![GrantOf(w)] = "active"]
            /\ Keep(w, "active", "announce") /\ Carried(w)
  /\ UNCHANGED <<ungoverned, calm, objVars, auditVars, catalogue, installations, usage,
                 confirmed, notice>>

SaveGrant(w) ==
  /\ pc[w] = "save-grant"
  /\ grants' = [grants EXCEPT ![GrantOf(w)] = "active"]
  /\ Keep(w, "active", "announce") /\ Carried(w)
  /\ UNCHANGED <<ungoverned, calm, objVars, auditVars, catalogue, installations, usage,
                 confirmed, notice>>

BeginRevokeGrant(w) ==
  /\ \E g \in Grants :
       /\ grants[g] # None
       /\ Begin(w, [Request EXCEPT !.op = "revoke", !.user = g[1],
                                   !.row = <<"grant", g[1], g[2]>>], "revoke")
  /\ UNCHANGED <<sageVars, outside, notice>>

RevokeGrant(w) ==
  /\ pc[w] = "revoke"
  /\ grants' = [grants EXCEPT ![GrantOf(w)] = "revoked"]
  /\ Keep(w, "revoked", "announce")
  /\ UNCHANGED <<catalogue, installations, usage, confirmed, outside, notice>>

\* What a row of the feed is about.
SageRow(row) == IF row[1] = "grant" THEN grants[<<row[2], row[3]>>]
                ELSE IF installations[row[2]] = None THEN None
                ELSE installations[row[2]].status

\* The event is recorded on its own; a new installation is then audited.
RecordPluginSync(w) ==
  /\ pc[w] \in {"announce", "announce-new"} /\ req[w].row[1] \in {"plugin", "grant"}
  /\ Tell(w, copy[w], copy[w] # SageRow(req[w].row))
  /\ IF pc[w] = "announce-new" THEN Goto(w, "audit") ELSE Answer(w)
  /\ UNCHANGED <<sageVars, outside>>
-----------------------------------------------------------------------------
(* Invocations and reports. *)

BeginInvocation(w) ==
  /\ GetPublishedPluginByKey
  /\ \E u \in Users, c \in ClientIds, p \in Permissions :
       Begin(w, [Request EXCEPT !.op = "invoke", !.user = u, !.n = c, !.type = "invocation",
                   !.on = Plugin, !.cap = p, !.risk = "medium", !.then = "invoke"], "active")
  /\ UNCHANGED <<sageVars, outside, notice>>

RequireActiveInstallation(w) ==
  /\ pc[w] = "active"
  /\ IF installations[req[w].user] # None /\ installations[req[w].user].status = "active"
       THEN Goto(w, "known") ELSE Answer(w)
  /\ UNCHANGED <<sageVars, outside, notice>>

Invoked(u, c) == \E n \in DOMAIN invocations : invocations[n].user = u /\ invocations[n].id = c

\* A request with a known client_request_id is answered with what there is.
GetInvocationByClientRequest(w) ==
  /\ pc[w] = "known"
  /\ IF Invoked(req[w].user, req[w].n) THEN Answer(w) /\ UNCHANGED calm
     ELSE Goto(w, "enforce") /\ Govern(w, req[w])
  /\ UNCHANGED <<ungoverned, admitted, objVars, auditVars, sageVars, notice>>

\* The unique index refuses what another attempt has created meanwhile.
CreateInvocation(w) ==
  /\ pc[w] = "invoke"
  /\ IF Invoked(req[w].user, req[w].n) THEN UNCHANGED <<invocations, admitted>>
     ELSE /\ invocations' = Append(invocations,
               [user |-> req[w].user, id |-> req[w].n, status |-> "created"])
          /\ Carried(w)
  /\ Answer(w)
  /\ UNCHANGED <<ungoverned, calm, objVars, auditVars, catalogue, installations, grants,
                 reports, ledger, confirmed, notice>>

\* The report says completed, failed, or something else that changes no status.
BeginReport(w) ==
  /\ \E n \in DOMAIN invocations, c \in ClientIds, word \in {"completed", "failed", "partial"} :
       BeginRead(w, [Request EXCEPT !.op = "report", !.ref = n, !.n = c, !.word = word],
                 invocations[n], "reported")
  /\ UNCHANGED <<sageVars, outside, notice>>

Reported(n, c) == \E i \in DOMAIN reports : reports[i].on = n /\ reports[i].id = c

GetReportByClientID(w) ==
  /\ pc[w] = "reported"
  /\ IF Reported(req[w].ref, req[w].n) THEN Answer(w) ELSE Goto(w, "report")
  /\ UNCHANGED <<sageVars, outside, notice>>

\* Mutant of SubmitReport: an attempt that finds the report stored still counts it.
SubmitReport_Twice(w) ==
  /\ pc[w] = "report"
  /\ ledger' = Append(ledger, [on |-> req[w].ref, id |-> req[w].n])
  /\ IF Reported(req[w].ref, req[w].n) THEN Answer(w) /\ UNCHANGED <<reports, invocations>>
     ELSE /\ reports' = Append(reports, [on |-> req[w].ref, id |-> req[w].n, word |-> req[w].word])
          /\ invocations' = [invocations EXCEPT ![req[w].ref] =
               IF req[w].word = "partial" THEN copy[w] ELSE [copy[w] EXCEPT !.status = req[w].word]]
          /\ SaveThen(w, "idle", <<"invocation", req[w].ref>>, invocations[req[w].ref] # copy[w])
  /\ UNCHANGED <<catalogue, installations, grants, confirmed, outside, notice>>

\* The report, the invocation as it was read with its new status, and the usage are
\* written in one transaction, which the unique index on the reports refuses.
SubmitReport(w) ==
  /\ pc[w] = "report"
  /\ IF Reported(req[w].ref, req[w].n) THEN Answer(w) /\ UNCHANGED usage
     ELSE /\ reports' = Append(reports, [on |-> req[w].ref, id |-> req[w].n, word |-> req[w].word])
          /\ ledger' = Append(ledger, [on |-> req[w].ref, id |-> req[w].n])
          /\ invocations' = [invocations EXCEPT ![req[w].ref] =
               IF req[w].word = "partial" THEN copy[w] ELSE [copy[w] EXCEPT !.status = req[w].word]]
          /\ SaveThen(w, "idle", <<"invocation", req[w].ref>>, invocations[req[w].ref] # copy[w])
  /\ UNCHANGED <<catalogue, installations, grants, confirmed, outside, notice>>

SageNext ==
  \E w \in Workers :
    \/ CreatePlugin(w) \/ BeginSubmitVersion(w) \/ RequireActiveOwnedAsset(w) \/ SubmitVersion(w)
    \/ ScanManifest(w) \/ BeginReview(w) \/ ReadVersion(w) \/ ReviewPlugin(w) \/ BeginSuspend(w)
    \/ SuspendPlugin(w) \/ BeginInstall(w) \/ GetInstallation(w) \/ InstallPlugin(w)
    \/ ReinstallPlugin(w) \/ BeginSetStatus(w) \/ SetInstallationStatus(w) \/ BeginGrant(w)
    \/ ConsumeConfirmation(w) \/ GetGrant(w) \/ CreateGrant(w) \/ SaveGrant(w)
    \/ BeginRevokeGrant(w) \/ RevokeGrant(w) \/ RecordPluginSync(w) \/ BeginInvocation(w)
    \/ RequireActiveInstallation(w) \/ GetInvocationByClientRequest(w) \/ CreateInvocation(w)
    \/ BeginReport(w) \/ GetReportByClientID(w) \/ SubmitReport(w)
-----------------------------------------------------------------------------
(* Properties. *)

\* The version a user has installed, and the one the catalogue offers, were approved
\* by a review: plugin rows saved from old copies, submissions and reviews in between
\* never bring a version there that was not (InstallPlugin, ReviewPlugin).
InstalledWasApproved ==
  LET approved == {reviews[i].version : i \in {j \in DOMAIN reviews :
                                                 reviews[j].decision = "approved"}}
  IN  /\ \A u \in Users : installations[u] # None => installations[u].version \in approved
      /\ GetPublishedPluginByKey => plugin.approved \in approved

\* A suspended plugin is published again only by an approval whose reviewer's request
\* had read it as suspended, or by a row saved from a copy of before, which is marked
\* (SuspendPlugin, ReviewPlugin, SubmitVersion).
TakedownHolds ==
  [][plugin # None /\ plugin.status = "suspended" /\ plugin'.status = "published"
       => \/ <<"plugin">> \in stale'
          \/ \E w \in Workers : /\ pc[w] = "review" /\ req[w].word = "approved"
                                /\ copy[w].plugin.status = "suspended"]_<<plugin, stale>>

\* Every report is stored once and counted once, and an invocation has the status its
\* last conclusive report gave it unless its row was saved from an old copy
\* (SubmitReport).
ReportsAccounted ==
  /\ \A i, j \in DOMAIN reports :
       reports[i].on = reports[j].on /\ reports[i].id = reports[j].id => i = j
  /\ Len(ledger) = Len(reports)
  /\ \A n \in DOMAIN invocations :
       LET conclusive == {i \in DOMAIN reports : reports[i].on = n /\ reports[i].word # "partial"}
       IN  <<"invocation", n>> \notin stale =>
             invocations[n].status =
               IF conclusive = {} THEN "created"
               ELSE reports[CHOOSE i \in conclusive : \A j \in conclusive : j <= i].word
=============================================================================
