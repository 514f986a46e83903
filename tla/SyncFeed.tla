------------------------------ MODULE SyncFeed ------------------------------
(***************************************************************************)
(* What the sync log promises to a device, free of transactions, locks and *)
(* pages: an append-only feed of numbered events.  A new event is numbered *)
(* above everything already in the feed and above everything any device    *)
(* has read, retention removes only a prefix, and a device that moves its  *)
(* position from p to q is handed every event in between.                  *)
(***************************************************************************)
EXTENDS Naturals

CONSTANT Devices

VARIABLES
  feed,      \* the events that can be read now
  seen,      \* seen[d]: sequence numbers handed to device d
  position   \* position[d]: the number up to which d has read

vars == <<feed, seen, position>>

Init ==
  /\ feed = {}
  /\ seen = [d \in Devices |-> {}]
  /\ position = [d \in Devices |-> 0]

Append(e) ==
  /\ \A f \in feed : f.seq < e.seq
  /\ \A d \in Devices : position[d] < e.seq
  /\ feed' = feed \union {e}
  /\ UNCHANGED <<seen, position>>

Trim(k) ==
  /\ feed' = {e \in feed : e.seq > k}
  /\ UNCHANGED <<seen, position>>

Read(d, k) ==
  /\ k >= position[d]
  /\ seen' = [seen EXCEPT ![d] = @ \union
                {e.seq : e \in {f \in feed : position[d] < f.seq /\ f.seq <= k}}]
  /\ position' = [position EXCEPT ![d] = k]
  /\ UNCHANGED feed

\* The parameters range over what the step itself shows: the event a step adds,
\* and the numbers of the events it trims or reads up to.
Next ==
  \/ \E e \in feed' \ feed : Append(e)
  \/ \E e \in feed : Trim(e.seq)
  \/ \E d \in Devices, e \in feed : Read(d, e.seq)

Spec == Init /\ [][Next]_vars
=============================================================================
