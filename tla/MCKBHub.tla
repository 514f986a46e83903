------------------------------- MODULE MCKBHub -------------------------------
(* A small instance of KBHub: pricings that resolve to each entitlement, with  *)
(* one that is refused, and installations that follow or pin.                  *)
EXTENDS KBHub, TLC

Priced(f, m, i) == [op |-> "price", free |-> f, mode |-> m, interval |-> i]

Installed(u, t, m) ==
  [op |-> "install", user |-> u, track |-> t, mode |-> m, ends |-> "never"]

MCRequests ==
  {[op |-> "publish"], [op |-> "declare"],
   Priced("no", "", ""), Priced("keep", "", "none"), Priced("keep", "trial", "none")}
    \union {Installed(u, t, m) : u \in Users, t \in {0, 1}, m \in {"paid", "other"}}
    \union {[op |-> "read", user |-> u, snap |-> v] : u \in Users, v \in Versions}

Symmetry == Permutations(Workers)
=============================================================================
