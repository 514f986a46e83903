------------------------------ MODULE MCPlatform ------------------------------
(* Small instances of Platform, side by side: each scenario lets requests that *)
(* meet in the same tables follow one another and overlap.                     *)
EXTENDS Platform, TLC

CONSTANTS u1, u2, read, write, o1, o2

MCObjectIds == <<o1, o2>>

Rule(effect, priority, cap) ==
  [cap |-> cap, type |-> Anything, on |-> Anything, risk |-> Anything, user |-> Anything, effect |-> effect,
   priority |-> priority, status |-> "active"]

MCRules == {Rule("allow", 1, read), Rule("approve", 2, Anything), Rule("deny", 2, write)}

Switch(scope, id, expires) == [scope |-> scope, id |-> id, expires |-> expires]

MCSwitches == {Switch("global", Anything, TRUE), Switch("capability", read, FALSE)}

Modes(general, sage, object) == [general |-> general, sage |-> sage, object |-> object]

\* Nothing there yet, and nothing governed.
Empty ==
  [kinds |-> {}, earlier |-> 0, config |-> Modes("disabled", Anything, Anything), rules |-> <<>>, switches |-> {},
   receipts |-> <<>>, decisions |-> <<>>, objects |-> <<>>, published |-> FALSE,
   submitted |-> FALSE,
   installed |-> {}, granted |-> {}, invoked |-> 0, confirmed |-> 0,
   skill |-> "none", copies |-> {}, restrictions |-> <<>>,
   server |-> 0, reaction |-> FALSE]

Enforced == Modes("enforce", Anything, Anything)

\* The plugin is installed, and a grant was found to need approval.
Asked == GrantRequest(u1, read, None)

Installed == [Empty EXCEPT !.published = TRUE, !.installed = {u1}]

Approvable ==
  [Installed EXCEPT !.config = Enforced, !.rules = <<Rule("approve", 2, Anything)>>,
     !.decisions = <<[request |-> Asked, decision |-> "approve"]>>,
     !.receipts = <<NewReceipt(Asked, 1)>>, !.confirmed = 1]

MCScenarios ==
  {\* Receipts are taken while they are issued again, revoked, used up and expire.
   [Approvable EXCEPT !.kinds = {"grant", "reissue", "revoke-receipt", "expire"}],
   [Approvable EXCEPT !.kinds = {"grant", "receipt", "consume"}],
   \* Switches and rules appear while requests are decided.
   [Approvable EXCEPT !.kinds = {"grant", "rule", "switch"}, !.switches = MCSwitches,
                      !.rules = <<>>],
   [Installed EXCEPT !.kinds = {"invoke", "evaluate", "switch", "capability"},
                     !.config = Modes("disabled", "observe", Anything),
                     !.receipts = Approvable.receipts, !.decisions = Approvable.decisions,
                     !.rules = <<Rule("deny", 1, read)>>],
   [Approvable EXCEPT !.kinds = {"grant", "evaluate"}, !.config = Modes(Anything, Anything, Anything)],
   \* Objects, governed and not.
   [Empty EXCEPT !.kinds = {"upload", "put", "complete", "delete"}, !.objects = <<"pending">>],
   [Empty EXCEPT !.kinds = {"store", "upload", "download", "delete"}, !.config = Enforced,
                 !.switches = {Switch("capability", "delete", TRUE)}, !.objects = <<"active">>],
   \* Plugins: submission and review, with a package; use.
   [Empty EXCEPT !.kinds = {"plugin", "version", "resolve"}, !.objects = <<"active">>],
   [Installed EXCEPT !.kinds = {"version", "review"}, !.earlier = 1],
   [Installed EXCEPT !.kinds = {"version", "install"}],
   [Installed EXCEPT !.kinds = {"review", "install"}, !.earlier = 1, !.submitted = TRUE],
   [Installed EXCEPT !.kinds = {"version", "delete"}, !.objects = <<"active">>],
   [Installed EXCEPT !.kinds = {"review", "suspend", "install"}, !.installed = {}],
   [Installed EXCEPT !.kinds = {"install", "status", "revoke"}, !.granted = {<<u1, read>>}],
   [Installed EXCEPT !.kinds = {"grant", "revoke"}, !.confirmed = 1],
   [Installed EXCEPT !.kinds = {"invoke", "report"}, !.invoked = 1],
   \* Skills.
   [Empty EXCEPT !.kinds = {"skill", "release", "takedown"}, !.skill = "suspended"],
   [Empty EXCEPT !.kinds = {"skill", "release", "delete"}, !.objects = <<"active">>],
   [Empty EXCEPT !.kinds = {"release", "restrict", "lift"}, !.skill = "draft",
                 !.restrictions = <<"active">>],
   [Empty EXCEPT !.kinds = {"rate", "takedown", "record"}, !.skill = "published"],
   [Empty EXCEPT !.kinds = {"install-skill", "skill-status", "pin"}, !.skill = "published",
                 !.copies = {u1}],
   \* Settings.
   [Empty EXCEPT !.kinds = {"contact", "update-contact", "delete-contact"}],
   [Empty EXCEPT !.kinds = {"server", "update-server", "remove"}],
   [Empty EXCEPT !.kinds = {"server", "update-server", "remove"}, !.server = 1],
   [Empty EXCEPT !.kinds = {"skill-setting", "agent-setting"}],
   \* Conversations.
   [Empty EXCEPT !.kinds = {"retitle", "read-state"}],
   [Empty EXCEPT !.kinds = {"react", "unreact"}, !.reaction = TRUE],
   \* Billing.
   [Empty EXCEPT !.kinds = {"use", "pay-out"}],
   [Empty EXCEPT !.kinds = {"invoice", "pay", "refund", "resolve-refund", "dispute",
                            "resolve-dispute"}]}

Symmetry == Permutations(Workers)
=============================================================================
