------------------------------ MODULE Governance ------------------------------
(***************************************************************************)
(* Governance: policy rules, kill switches, recorded decisions, approval   *)
(* receipts, and the enforcer that the plugin and the object service ask   *)
(* before they act.                                                        *)
(*                                                                         *)
(* A receipt is taken, revoked and reissued under a lock on its row, which *)
(* makes each of these one step.  A token is the pair of its receipt and   *)
(* its issue: hashes and texts are left out.  Time is the step at which a  *)
(* receipt or a switch expires.                                            *)
(***************************************************************************)
EXTENDS Requests

CONSTANTS
  Capabilities,  \* capability keys
  RuleInputs,    \* the rules an administrator may create
  SwitchInputs,  \* the kill switches an administrator may create
  MaxIssues      \* bound on the tokens of one receipt

Anything == ""        \* an empty field of a rule matches everything

VARIABLES
  capabilities,  \* capability_definitions
  rules,         \* policy_rules in the order of creation
  switches,      \* kill_switches that are active
  decisions,     \* policy_decisions
  receipts,      \* approval_receipts: what for, state, and the issue of its token
  scans,         \* governance_scan_results: open or resolved
  config,        \* the enforcement modes of the configuration
  admitted,      \* operations carried out, each with the pass it had
  calm           \* has each request seen a moment without a switch that covers it

govVars == <<capabilities, rules, switches, decisions, receipts, scans, config,
             admitted, calm>>

GovInit(start) ==
  /\ config = start.config
  /\ rules = start.rules
  /\ switches = start.switches
  /\ receipts = start.receipts
  /\ decisions = start.decisions
  /\ capabilities = {} /\ scans = <<>> /\ admitted = <<>>
  /\ calm = [w \in Workers |-> TRUE]
-----------------------------------------------------------------------------
(* What the rows say of a request: its subject is r.on, of type r.type. *)

Matches(field, value) == field \in {Anything, value}

MatchesRule(rule, r) ==
  /\ rule.status = "active"
  /\ Matches(rule.cap, r.cap) /\ Matches(rule.type, r.type) /\ Matches(rule.on, r.on)
  /\ Matches(rule.risk, r.risk) /\ Matches(rule.user, r.user)

\* Rules by priority, and the older before the newer.
Before(i, j) == \/ rules[i].priority < rules[j].priority
                \/ rules[i].priority = rules[j].priority /\ i < j

\* The first of the rules that match, if any does.
FindMatchingPolicyRules(r) ==
  LET all == {i \in DOMAIN rules : MatchesRule(rules[i], r)}
  IN  {i \in all : \A j \in all \ {i} : Before(i, j)}

\* The scopes FindActiveKillSwitch knows; a switch of any other scope stops nothing.
Covers(sw, r) ==
  \/ sw.scope = "global"
  \/ sw.scope \in {"plugin", "user", "server"} /\ sw.id = r.on
  \/ sw.scope = "capability" /\ sw.id = r.cap
  \/ sw.scope = "user" /\ sw.id = r.user

Stopped(r) == \E sw \in switches : Covers(sw, r)

\* The mode of the subject's part of the configuration, else the general one, else observe.
ModeFor(r) == LET own == IF r.type \in {"grant", "invocation"} THEN config.sage ELSE config.object
              IN  IF own # Anything THEN own
                  ELSE IF config.general # Anything THEN config.general ELSE "observe"
-----------------------------------------------------------------------------
(* What administrators do: one statement, or one transaction, each. *)

CreateCapability ==
  /\ Whole("capability")
  /\ \E c \in Capabilities \ capabilities : capabilities' = capabilities \union {c}
  /\ UNCHANGED <<rules, switches, decisions, receipts, scans, config, admitted, calm>>

CreatePolicyRule ==
  /\ Whole("rule")
  /\ \E rule \in RuleInputs : rules' = Append(rules, rule)
  /\ UNCHANGED <<capabilities, switches, decisions, receipts, scans, config, admitted, calm>>

\* One that is created inactive stops nothing.
CreateKillSwitch ==
  /\ Whole("switch")
  /\ \E sw \in SwitchInputs : switches' = switches \union {sw}
  /\ UNCHANGED <<capabilities, rules, decisions, receipts, scans, config, admitted, calm>>

\* Nothing lifts a switch but its own time; a request that it alone stopped has
\* then seen a moment without one.
ExpireSwitch ==
  /\ \E sw \in switches :
       /\ sw.expires
       /\ switches' = switches \ {sw}
       /\ calm' = [w \in Workers |->
            calm[w] \/ ~ \E other \in switches \ {sw} : Covers(other, req[w])]
  /\ UNCHANGED <<flow, capabilities, rules, decisions, receipts, scans, config, admitted>>

NewReceipt(r, d) == [user |-> r.user, type |-> r.type, on |-> r.on, cap |-> r.cap,
                     decision |-> d, state |-> "pending", issue |-> 1]

\* An administrator makes a receipt for a recorded decision; what it is for is the
\* administrator's own input, and need not be what was decided.
CreateApprovalReceipt ==
  /\ Whole("receipt")
  /\ \E d \in DOMAIN decisions, c \in Capabilities :
       receipts' = Append(receipts, NewReceipt([decisions[d].request EXCEPT !.cap = c], d))
  /\ UNCHANGED <<capabilities, rules, switches, decisions, scans, config, admitted, calm>>

RevokeApprovalReceipt ==
  /\ Whole("revoke-receipt")
  /\ \E n \in DOMAIN receipts :
       /\ receipts[n].state = "pending"
       /\ receipts' = [receipts EXCEPT ![n].state = "revoked"]
  /\ UNCHANGED <<capabilities, rules, switches, decisions, scans, config, admitted, calm>>

\* The new token takes the place of the old one, and the time starts again.
ReissueApprovalReceiptToken ==
  /\ Whole("reissue")
  /\ \E n \in DOMAIN receipts :
       /\ receipts[n].state = "pending" /\ receipts[n].issue < MaxIssues
       /\ receipts' = [receipts EXCEPT ![n].issue = @ + 1]
  /\ UNCHANGED <<capabilities, rules, switches, decisions, scans, config, admitted, calm>>

ExpireReceipt ==
  /\ "expire" \in kinds
  /\ \E n \in DOMAIN receipts :
       /\ receipts[n].state = "pending"
       /\ receipts' = [receipts EXCEPT ![n].state = "expired"]
  /\ UNCHANGED <<flow, capabilities, rules, switches, decisions, scans, config, admitted, calm>>

\* An administrator consumes a receipt by its token, without naming an operation.
ConsumeApprovalReceipt ==
  /\ Whole("consume")
  /\ \E n \in DOMAIN receipts :
       /\ receipts[n].state = "pending"
       /\ receipts' = [receipts EXCEPT ![n].state = "consumed"]
  /\ UNCHANGED <<capabilities, rules, switches, decisions, scans, config, admitted, calm>>

ResolveScanResult ==
  /\ Whole("resolve")
  /\ \E n \in DOMAIN scans : scans' = [scans EXCEPT ![n] = "resolved"]
  /\ UNCHANGED <<capabilities, rules, switches, decisions, receipts, config, admitted, calm>>
-----------------------------------------------------------------------------
(* Evaluate and Enforce, within the request of a worker. *)

\* Governance lets the request go on with its next step.
Pass(w, by, n) == /\ pc' = [pc EXCEPT ![w] = req[w].then]
                  /\ req' = [req EXCEPT ![w].pass = [by |-> by, n |-> n]]
                  /\ UNCHANGED <<copy, bound, stale>>

\* The request begins to be governed here.
Govern(w, r) == calm' = [calm EXCEPT ![w] = ~ Stopped(r)]

\* The administrator's own question; it takes part in nothing else.
BeginEvaluate(w) ==
  /\ \E r \in {receipts[n] : n \in DOMAIN receipts} :
       LET asked == [Request EXCEPT !.op = "evaluate", !.user = r.user, !.type = r.type,
                                   !.on = r.on, !.cap = r.cap]
       IN  Begin(w, asked, "switch") /\ Govern(w, asked)
  /\ UNCHANGED <<capabilities, rules, switches, decisions, receipts, scans, config, admitted>>

Enforce(w) ==
  /\ pc[w] = "enforce"
  /\ \/ ModeFor(req[w]) = "disabled" /\ Pass(w, "disabled", 0)
     \/ ModeFor(req[w]) # "disabled" /\ req[w].token = None /\ Goto(w, "switch")
  /\ UNCHANGED govVars

\* Mutant of Redeems: the receipt of another operation will do.
Redeems_Any(n, r) == receipts[n].state = "pending" /\ r.token = <<n, receipts[n].issue>>

\* Is the token of the request that of receipt n, and the receipt for this operation.
Redeems(n, r) ==
  /\ receipts[n].state = "pending" /\ r.token = <<n, receipts[n].issue>>
  /\ receipts[n].user = r.user /\ receipts[n].type = r.type
  /\ receipts[n].on = r.on /\ receipts[n].cap = r.cap

\* With a token, neither the switches nor the rules are looked at.
ConsumeForOperation(w) ==
  /\ pc[w] = "enforce" /\ ModeFor(req[w]) # "disabled" /\ req[w].token # None
  /\ \/ \E n \in DOMAIN receipts :
          /\ Redeems(n, req[w]) /\ Pass(w, "receipt", n)
          /\ receipts' = [receipts EXCEPT ![n].state = "consumed"]
     \/ /\ ~ \E n \in DOMAIN receipts : Redeems(n, req[w])
        /\ IF ModeFor(req[w]) = "observe" THEN Pass(w, "observed", 0) ELSE Answer(w)
        /\ UNCHANGED receipts
  /\ UNCHANGED <<capabilities, rules, switches, decisions, scans, config, admitted, calm>>

\* Mutant of EvaluateSwitch: the rules come first, the switches only without one.
EvaluateSwitch_Late(w) ==
  /\ pc[w] = "switch"
  /\ IF Stopped(req[w]) /\ FindMatchingPolicyRules(req[w]) = {}
       THEN Keep(w, "deny", "decide") ELSE Goto(w, "rules")
  /\ UNCHANGED govVars

EvaluateSwitch(w) ==
  /\ pc[w] = "switch"
  /\ IF Stopped(req[w]) THEN Keep(w, "deny", "decide") ELSE Goto(w, "rules")
  /\ UNCHANGED govVars

EvaluateRules(w) ==
  /\ pc[w] = "rules"
  /\ LET first == FindMatchingPolicyRules(req[w])
     IN  Keep(w, IF first = {} THEN "allow" ELSE rules[CHOOSE i \in first : TRUE].effect,
              "decide")
  /\ UNCHANGED govVars

\* The decision is stored, and the enforcer acts on it: it observes, lets the
\* request pass, refuses it, or refuses it with a receipt for the one who asked.
PersistDecision(w) ==
  /\ pc[w] = "decide"
  /\ decisions' = Append(decisions, [request |-> [req[w] EXCEPT !.pass = None],
                                     decision |-> copy[w]])
  /\ IF req[w].op = "evaluate" THEN Answer(w)
     ELSE IF ModeFor(req[w]) = "observe" THEN Pass(w, "observed", Len(decisions'))
     ELSE CASE copy[w] = "allow"   -> Pass(w, "decision", Len(decisions'))
            [] copy[w] = "approve" -> Keep(w, Len(decisions'), "receipt")
            [] OTHER               -> Answer(w)
  /\ UNCHANGED <<capabilities, rules, switches, receipts, scans, config, admitted, calm>>

RequireApproval(w) ==
  /\ pc[w] = "receipt"
  /\ receipts' = Append(receipts, NewReceipt(req[w], copy[w]))
  /\ Answer(w)
  /\ UNCHANGED <<capabilities, rules, switches, decisions, scans, config, admitted, calm>>

\* The findings about a manifest are stored, open.
PersistFindings(n) == scans' = scans \o [i \in 1 .. n |-> "open"]

\* The governed operation is carried out now.
Carried(w) == admitted' = Append(admitted, [request |-> [req[w] EXCEPT !.pass = None],
                                            pass |-> req[w].pass, mode |-> ModeFor(req[w]),
                                            calm |-> calm[w]])

GovNext ==
  \/ CreateCapability \/ CreatePolicyRule \/ CreateKillSwitch \/ ExpireSwitch
  \/ CreateApprovalReceipt \/ RevokeApprovalReceipt \/ ReissueApprovalReceiptToken
  \/ ExpireReceipt \/ ConsumeApprovalReceipt \/ ResolveScanResult
  \/ \E w \in Workers :
       \/ BeginEvaluate(w) \/ Enforce(w) \/ ConsumeForOperation(w) \/ EvaluateSwitch(w)
       \/ EvaluateRules(w) \/ PersistDecision(w) \/ RequireApproval(w)
-----------------------------------------------------------------------------
(* Properties. *)

\* A receipt or a decision lets at most one operation through, that of the same
\* user on the same subject with the same capability, and a receipt is spent then
\* (Enforce, ConsumeApprovalReceiptByTokenHash).  Operations that only were observed
\* have used none.
AdmittedOnce ==
  \A i \in DOMAIN admitted :
    LET pass == admitted[i].pass
        r    == admitted[i].request
    IN  /\ pass.by = "receipt" =>
             /\ receipts[pass.n].state = "consumed"
             /\ receipts[pass.n].user = r.user /\ receipts[pass.n].type = r.type
             /\ receipts[pass.n].on = r.on /\ receipts[pass.n].cap = r.cap
        /\ pass.by = "decision" => /\ decisions[pass.n].decision = "allow"
                                   /\ decisions[pass.n].request = r
        /\ pass.by \in {"receipt", "decision"} =>
             \A j \in DOMAIN admitted \ {i} : admitted[j].pass # pass

\* Where governance is enforced, an operation that a kill switch covered from
\* before it began until it was carried out has a receipt: the switches are read
\* before the rules, and only the token is looked at before them (Enforce, Evaluate).
StoppedNeedsReceipt ==
  \A i \in DOMAIN admitted :
    admitted[i].mode = "enforce" => admitted[i].calm \/ admitted[i].pass.by = "receipt"
=============================================================================
