------------------------------- MODULE Platform -------------------------------
(***************************************************************************)
(* The services that share governance, the object records, the audit log   *)
(* and the sync log: plugins, skills, billing, the settings of a user's    *)
(* devices and what a conversation shares.                                 *)
(* A scenario is a state of the tables that earlier requests have left,    *)
(* with the kinds of requests that come next.                              *)
(***************************************************************************)
EXTENDS SagePlugins, SkillHub, Settings, Billing, ChatState

CONSTANT Scenarios

IsReceipt(r) == r = [user |-> r.user, type |-> r.type, on |-> r.on, cap |-> r.cap,
                     decision |-> r.decision, state |-> r.state, issue |-> r.issue]

\* What the tables hold at the start: rows of their kind.  Only a published plugin is
\* installed, and only its first version.
ASSUME PlatformAssumption ==
  /\ Versions \subseteq Nat /\ 1 \in Versions
  /\ \A start \in Scenarios :
       /\ start.objects \in Seq({"pending", "active", "deleted"})
       /\ start.invoked \in Nat /\ start.reaction \in BOOLEAN
       /\ start.installed # {} => start.published
       /\ start.decisions \in Seq({start.decisions[n] : n \in DOMAIN start.decisions})
       /\ start.receipts \in Seq({start.receipts[n] : n \in DOMAIN start.receipts})
       /\ \A n \in DOMAIN start.receipts : IsReceipt(start.receipts[n])

vars == <<flow, notice, govVars, objVars, auditVars, sageVars, hubVars, setVars,
          billVars, chatVars>>

\* The rows that the devices learn of by sync events.
Rows == {<<"plugin", u>> : u \in Users} \union {<<"grant", g[1], g[2]>> : g \in Grants}
          \union {<<"skill", u>> : u \in Raters} \union {Contact, Server}
          \union {<<t>> : t \in Tables} \union ChatRows

CurrentRow(row) == IF row[1] \in {"plugin", "grant"} THEN SageRow(row)
                   ELSE IF row[1] = "skill" THEN copies[row[2]]
                   ELSE IF row \in ChatRows THEN ChatRow(row)
                   ELSE SettingRow(row)

\* All that happened before was told.
Init ==
  \E start \in Scenarios :
    /\ FlowInit(start.kinds, start.earlier) /\ GovInit(start) /\ ObjInit(start) /\ AuditInit
    /\ SageInit(start) /\ SkillInit(start) /\ SetInit(start) /\ BillInit /\ ChatInit(start)
    /\ feed = [row \in Rows |-> CurrentRow(row)] /\ untold = {} /\ recorded = {}

Next ==
  \/ GovNext /\ UNCHANGED <<notice, objVars, auditVars, sageVars, hubVars, setVars, billVars, chatVars>>
  \/ ObjNext /\ UNCHANGED <<notice, auditVars, sageVars, hubVars, setVars, billVars, chatVars>>
  \/ AuditNext /\ UNCHANGED <<notice, govVars, objVars, sageVars, hubVars, setVars, billVars, chatVars>>
  \/ SageNext /\ UNCHANGED <<hubVars, setVars, billVars, chatVars>>
  \/ HubNext /\ UNCHANGED <<sageVars, setVars, billVars, chatVars>>
  \/ SetNext /\ UNCHANGED <<govVars, objVars, auditVars, sageVars, hubVars, billVars, chatVars>>
  \/ BillNext /\ UNCHANGED <<govVars, objVars, auditVars, sageVars, hubVars, setVars, chatVars>>
  \/ ChatNext /\ UNCHANGED <<govVars, objVars, auditVars, sageVars, hubVars, setVars, billVars>>
  \/ /\ \E w \in Workers : Abandon(w)
     /\ UNCHANGED <<govVars, objVars, auditVars, sageVars, hubVars, setVars, billVars, chatVars>>

Spec == Init /\ [][Next]_vars
-----------------------------------------------------------------------------
(* Properties. *)

\* Once every request that has changed a row has announced it, the last event about
\* the row says what the row is, for plugins, grants, skills, contacts, servers,
\* settings, conversations, reactions and read markers: unless an event was recorded late, lost with its request, or taken for
\* one that was recorded before (recordPluginSync, recordInstallationSync,
\* recordServerEvent, upsertAndSync, recordContactEventWithRepo,
\* recordReactionSyncEvents, recordConversationSyncEvents).
FeedSettles ==
  \A row \in Rows \ untold :
    (\A w \in Workers : req[w].row = row => pc[w] \notin Telling) => feed[row] = CurrentRow(row)

\* A deleted object is never active again and a deleted contact stays deleted, also
\* when a completion or an update that read them before writes afterwards (MarkActive
\* and UpdateActive are conditional on the status).
DeletedStays ==
  [][/\ \A n \in DOMAIN objects :
          objects[n].status = "deleted" => objects'[n].status = "deleted"
     /\ contact # None /\ contact.status = "deleted" => contact' = contact]_<<objects, contact>>
=============================================================================
