-------------------------------- MODULE Billing --------------------------------
(***************************************************************************)
(* Billing of knowledge bases: usage, earnings and payouts of one          *)
(* contributor in one month, invoices with refunds and disputes.           *)
(*                                                                         *)
(* RecordUsage runs no transaction: each statement is a step.  No caller   *)
(* in the code sets a unit price yet, only the tests do; the model records *)
(* usage as the service offers it.  Invoices are settled by statements     *)
(* that no status restrains.                                               *)
(***************************************************************************)
EXTENDS AuditLog

CONSTANTS
  Bases,         \* collections
  Amounts        \* what a use or an invoice item may cost

\* A row of contributor_payout_periods.
PayoutRow == [status : {"open", "paid"}, gross : Nat, fee : Nat, net : Nat]

\* There are finitely many requests in progress and collections; a use that costs
\* nothing is not booked; and None is no row.
ASSUME BillingAssumption ==
  /\ IsFiniteSet(Workers) /\ IsFiniteSet(Bases) /\ Amounts \subseteq Nat \ {0}
  /\ None \notin PayoutRow

VARIABLES
  account,       \* billing_accounts: does the user have one
  uses,          \* kb_usage_records
  debits,        \* billing_transactions
  earnings,      \* contributor_earnings, more than one of a base perhaps
  payout,        \* contributor_payout_periods
  invoices, refunds, disputes

books    == <<account, uses, debits, earnings, payout>>
bills    == <<invoices, refunds, disputes>>
billVars == <<books, bills>>

Books == <<"books">>

BillInit ==
  /\ account = FALSE /\ uses = <<>> /\ debits = <<>> /\ earnings = <<>> /\ payout = None
  /\ invoices = <<>> /\ refunds = <<>> /\ disputes = <<>>

Fee(amount) == amount \div 10

\* Mutant of Credited: the fee is taken of the sum.
Credited_Recomputed(row, amount) ==
  LET sum == row.gross + amount
  IN  [row EXCEPT !.gross = sum, !.fee = Fee(sum), !.net = sum - Fee(sum)]

\* Adds an amount and its fee to a payout or an earning.
Credited(row, amount) ==
  [row EXCEPT !.gross = @ + amount, !.fee = @ + Fee(amount), !.net = @ + (amount - Fee(amount))]

Fails(w) == Answer(w) /\ untold' = untold \union {Books} /\ UNCHANGED <<feed, recorded>>
-----------------------------------------------------------------------------
(* Usage. *)

\* The record comes first.
CreateUsageRecord(w) ==
  /\ \E amount \in Amounts, base \in Bases, owned \in BOOLEAN :
       /\ uses' = Append(uses, [base |-> base, amount |-> amount, owned |-> owned])
       /\ Begin(w, [Request EXCEPT !.op = "use", !.on = base, !.n = amount, !.row = Books,
                                   !.word = IF owned THEN "owned" ELSE ""], "account")
  /\ UNCHANGED <<account, debits, earnings, payout, bills, notice>>

\* What is free is not charged: all that a user who is not known may fetch is.
UseFreely ==
  /\ Whole("use")
  /\ \E base \in Bases : uses' = Append(uses, [base |-> base, amount |-> 0, owned |-> TRUE])
  /\ UNCHANGED <<account, debits, earnings, payout, bills, notice>>

GetAccount(w) ==
  /\ pc[w] = "account"
  /\ Goto(w, IF account THEN "debit" ELSE "open-account")
  /\ UNCHANGED <<billVars, notice>>

\* user_id is unique: the second of two attempts fails.
CreateAccount(w) ==
  /\ pc[w] = "open-account"
  /\ account' = TRUE
  /\ IF account THEN Fails(w) ELSE Goto(w, "debit") /\ UNCHANGED notice
  /\ UNCHANGED <<uses, debits, earnings, payout, bills>>

CreateTransaction(w) ==
  /\ pc[w] = "debit"
  /\ debits' = Append(debits, req[w].n)
  /\ IF req[w].word = "owned" THEN Goto(w, "earning") ELSE Answer(w)
  /\ UNCHANGED <<account, uses, earnings, payout, bills, notice>>

\* The earning of the base and month, any one if there are several; 0 if none.
GetEarning(w) ==
  /\ pc[w] = "earning"
  /\ LET rows == {n \in DOMAIN earnings : earnings[n].base = req[w].on}
     IN  \E n \in IF rows = {} THEN {0} ELSE rows :
           Keep(w, [id |-> n, payout |-> None,
                    earning |-> IF n = 0 THEN [base |-> req[w].on, gross |-> 0, fee |-> 0, net |-> 0]
                                ELSE earnings[n]], "payout")
  /\ UNCHANGED <<billVars, notice>>

GetPayout(w) ==
  /\ pc[w] = "payout"
  /\ Keep(w, [copy[w] EXCEPT !.payout = payout], "save-payout")
  /\ UNCHANGED <<billVars, notice>>

\* Contributor and month are unique, so a second creation fails, and the debit stays
\* without an earning.  Save writes back the row that was read, its status as well.
SavePayout(w) ==
  /\ pc[w] = "save-payout"
  /\ LET old == copy[w].payout
         row == IF old = None THEN [status |-> "open", gross |-> 0, fee |-> 0, net |-> 0] ELSE old
     IN  IF old = None /\ payout # None THEN Fails(w) /\ UNCHANGED payout
         ELSE /\ payout' = Credited(row, req[w].n)
              /\ SaveThen(w, "save-earning", Books, payout # old)
              /\ UNCHANGED notice
  /\ UNCHANGED <<account, uses, debits, earnings, bills>>

\* No index keeps a base and month from two earnings.
SaveEarning(w) ==
  /\ pc[w] = "save-earning"
  /\ LET row == Credited(copy[w].earning, req[w].n)
         n   == copy[w].id
     IN  IF n = 0 THEN earnings' = Append(earnings, row) /\ Answer(w)
         ELSE /\ earnings' = [earnings EXCEPT ![n] = row]
              /\ SaveThen(w, "idle", Books, earnings[n] # copy[w].earning)
  /\ UNCHANGED <<account, uses, debits, payout, bills, notice>>

\* An administrator marks the payout as paid, whatever it is.
MarkPayoutPaid(w) ==
  /\ payout # None
  /\ payout' = [payout EXCEPT !.status = "paid"]
  /\ Begin(w, [Request EXCEPT !.op = "pay-out"], "audit")
  /\ UNCHANGED <<account, uses, debits, earnings, bills, notice>>
-----------------------------------------------------------------------------
(* Invoices: every request is one transaction, and audited. *)

\* The fee is part of the total.
CreateInvoice(w) ==
  /\ \E total \in {0} \union Amounts :
       invoices' = Append(invoices, [total |-> total, fee |-> Fee(total), status |-> "issued"])
  /\ Begin(w, [Request EXCEPT !.op = "invoice"], "audit")
  /\ UNCHANGED <<books, refunds, disputes, notice>>

MarkInvoicePaid(w) ==
  /\ \E n \in DOMAIN invoices : invoices' = [invoices EXCEPT ![n].status = "paid"]
  /\ Begin(w, [Request EXCEPT !.op = "pay"], "audit")
  /\ UNCHANGED <<books, refunds, disputes, notice>>

\* Each request is compared with the total, and none with the refunds there are.
RequestRefund(w) ==
  /\ \E n \in DOMAIN invoices : \E amount \in {a \in Amounts : a <= invoices[n].total} :
       refunds' = Append(refunds, [invoice |-> n, amount |-> amount, status |-> "pending"])
  /\ Begin(w, [Request EXCEPT !.op = "refund"], "audit")
  /\ UNCHANGED <<books, invoices, disputes, notice>>

ResolveRefund(w) ==
  /\ \E n \in DOMAIN refunds, status \in {"approved", "rejected", "processed"} :
       refunds' = [refunds EXCEPT ![n].status = status]
  /\ Begin(w, [Request EXCEPT !.op = "resolve-refund"], "audit")
  /\ UNCHANGED <<books, invoices, disputes, notice>>

OpenDispute(w) ==
  /\ \E n \in DOMAIN invoices :
       disputes' = Append(disputes, [invoice |-> n, status |-> "open"])
  /\ Begin(w, [Request EXCEPT !.op = "dispute"], "audit")
  /\ UNCHANGED <<books, invoices, refunds, notice>>

ResolveDispute(w) ==
  /\ \E n \in DOMAIN disputes, status \in {"accepted", "rejected", "cancelled"} :
       disputes' = [disputes EXCEPT ![n].status = status]
  /\ Begin(w, [Request EXCEPT !.op = "resolve-dispute"], "audit")
  /\ UNCHANGED <<books, invoices, refunds, notice>>

BillNext ==
  \/ UseFreely
  \/ \E w \in Workers :
       \/ CreateUsageRecord(w) \/ GetAccount(w) \/ CreateAccount(w) \/ CreateTransaction(w)
       \/ GetEarning(w) \/ GetPayout(w) \/ SavePayout(w) \/ SaveEarning(w)
       \/ MarkPayoutPaid(w) \/ CreateInvoice(w) \/ MarkInvoicePaid(w) \/ RequestRefund(w)
       \/ ResolveRefund(w) \/ OpenDispute(w) \/ ResolveDispute(w)
-----------------------------------------------------------------------------
(* Properties. *)

\* The sum of the values of a function.
Total(f) == Sets!MapThenSumSet(LAMBDA n : f[n], DOMAIN f)

Used(base) ==
  Total([n \in DOMAIN uses |-> IF uses[n].owned /\ uses[n].base = base THEN uses[n].amount ELSE 0])

Earned(base) ==
  Total([n \in DOMAIN earnings |-> IF earnings[n].base = base THEN earnings[n].gross ELSE 0])

\* Of what was used, nothing is debited, earned or paid out twice; and it is all
\* debited, earned and paid out, with the same fees on both sides, once no use is in
\* progress: unless a use has failed half way, or has saved a row that another one
\* had changed (RecordUsage, AddContributorEarning, UpsertPayoutPeriod).
BooksBalance ==
  LET gross == IF payout = None THEN 0 ELSE payout.gross
      quiet == \A w \in Workers : req[w].op # "use"
      used  == Total([n \in DOMAIN uses |-> uses[n].amount])
  IN  /\ Total(debits) <= used
      /\ \A base \in Bases : Earned(base) <= Used(base)
      /\ gross <= Total([base \in Bases |-> Used(base)])
      /\ quiet /\ Books \notin stale \union untold =>
           /\ Total(debits) = used
           /\ \A base \in Bases : Earned(base) = Used(base)
           /\ payout # None =>
                /\ gross = Total([n \in DOMAIN earnings |-> earnings[n].gross])
                /\ payout.fee = Total([n \in DOMAIN earnings |-> earnings[n].fee])
                /\ payout.net = Total([n \in DOMAIN earnings |-> earnings[n].net])
           /\ payout = None => earnings = <<>>
=============================================================================
