------------------------------ MODULE MCAccounts ------------------------------
(* A small instance of Accounts: workers are interchangeable. *)
EXTENDS Accounts, TLC

CONSTANTS d1, d2, d3, guest

WorkerSymmetry == Permutations(Workers)

Scenario == [kinds |-> {}, home |-> {d1}, password |-> TRUE, issued |-> <<>>,
             waiting |-> <<>>]

\* Requests that meet in a table are together in one of these.
MCScenarios ==
  {[Scenario EXCEPT !.kinds = {"verify", "decide"}],
   [Scenario EXCEPT !.kinds = {"verify", "decide"}, !.waiting = <<guest>>],
   [Scenario EXCEPT !.kinds = {"verify", "policy"}, !.issued = <<"policy">>],
   [Scenario EXCEPT !.kinds = {"policy", "invite", "issue"}, !.issued = <<"policy", "invite">>],
   [Scenario EXCEPT !.kinds = {"verify", "pair", "claim"}],
   [Scenario EXCEPT !.kinds = {"rename", "revoke", "pair"}, !.home = {d1, d2},
                    !.issued = <<"revoke", "revoke">>],
   [Scenario EXCEPT !.kinds = {"revoke", "issue"}, !.home = {d1, d2},
                    !.issued = <<"revoke">>],
   [Scenario EXCEPT !.kinds = {"revoke", "verify"}, !.home = {d1, d2},
                    !.issued = <<"revoke">>],
   [Scenario EXCEPT !.kinds = {"profile", "setpassword", "changepassword", "issue"},
                    !.password = FALSE]}
=============================================================================
