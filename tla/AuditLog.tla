------------------------------- MODULE AuditLog -------------------------------
(***************************************************************************)
(* The audit log: events with consecutive sequence numbers, each with the  *)
(* hash of the one before it.  Services record an event when their work is *)
(* done and ignore an error.                                               *)
(*                                                                         *)
(* The transaction that appends locks the newest row.  A transaction that  *)
(* waited for that lock still gets the row its query had found, so that it *)
(* takes the same number as the one it waited for; the unique index on the *)
(* numbers refuses the second.  The lock therefore decides nothing, and is *)
(* left out.  A hash stands for the fields that were hashed.               *)
(***************************************************************************)
EXTENDS Requests

CONSTANT Remainders  \* the nanoseconds below the microsecond that a clock may show

VARIABLES
  events,    \* audit_events: number, hash of the one before, own hash, stored time
  attempts   \* the events there have been, stored or lost: their ids

auditVars == <<events, attempts>>

Genesis == 0  \* the hash before the first event

AuditInit == events = {} /\ attempts = 0

\* The event with the highest number.
Newest == IF events = {} THEN [sequence |-> 0, hash |-> Genesis]
         ELSE CHOOSE e \in events : \A f \in events : f.sequence <= e.sequence

\* PostgreSQL keeps microseconds of a time.
Stored(time) == 0

\* A service that is modelled elsewhere records an event.
BeginRecord(w) ==
  /\ Begin(w, [Request EXCEPT !.op = "record"], "audit")
  /\ UNCHANGED auditVars

\* The newest event, in the transaction.
ReadHead(w) ==
  /\ pc[w] = "audit"
  /\ Keep(w, Newest, "append")
  /\ UNCHANGED auditVars

\* Mutant of AppendHashChained: the numbers have no unique index.
AppendHashChained_Fork(w) ==
  /\ pc[w] = "append"
  /\ attempts' = attempts + 1
  /\ \E time \in Remainders :
       events' = events \union {[sequence |-> copy[w].sequence + 1, previous |-> copy[w].hash,
                                 hash |-> attempts', hashed |-> time, time |-> Stored(time)]}
  /\ Answer(w)

\* The event is stored unless its number is taken; the request is answered as well.
AppendHashChained(w) ==
  /\ pc[w] = "append"
  /\ attempts' = attempts + 1
  /\ IF \E e \in events : e.sequence = copy[w].sequence + 1
       THEN UNCHANGED events
       ELSE \E time \in Remainders :
              events' = events \union {[sequence |-> copy[w].sequence + 1,
                                        previous |-> copy[w].hash, hash |-> attempts',
                                        hashed |-> time, time |-> Stored(time)]}
  /\ Answer(w)

AuditNext == \E w \in Workers : BeginRecord(w) \/ ReadHead(w) \/ AppendHashChained(w)
-----------------------------------------------------------------------------
(* Verification. *)

\* What VerifyHashChain finds wrong with an event, given all of them: its number does
\* not follow, it is not linked to the one before, or the hash of its fields as they
\* are stored is another.
Breaks(e) ==
  LET before == {f \in events : f.sequence < e.sequence}
      last   == IF before = {} THEN [sequence |-> 0, hash |-> Genesis]
                ELSE CHOOSE f \in before : \A g \in before : g.sequence <= f.sequence
  IN  {why \in {"gap", "link", "hash"} :
         \/ why = "gap" /\ e.sequence # last.sequence + 1
         \/ why = "link" /\ e.previous # last.hash
         \/ why = "hash" /\ e.hashed # e.time}
-----------------------------------------------------------------------------
(* Properties. *)

\* However many services record at once, the stored events are numbered from one
\* without gaps or repetitions and each holds the hash of the one before it: an event
\* is lost rather than forked (AppendHashChained).
ChainUnbroken ==
  \A e \in events :
    /\ Breaks(e) \intersect {"gap", "link"} = {}
    /\ \A f \in events \ {e} : f.sequence # e.sequence

\* VerifyHashChain accepts the events that Record has stored.
ChainVerifies == \A e \in events : Breaks(e) = {}

AuditSpec ==
  /\ FlowInit({"record"}, 0) /\ AuditInit
  /\ feed = <<>> /\ untold = {} /\ recorded = {}
  /\ [][\/ AuditNext /\ UNCHANGED notice
        \/ \E w \in Workers : Abandon(w) /\ UNCHANGED auditVars]_<<flow, notice, auditVars>>
=============================================================================
