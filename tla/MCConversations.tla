--------------------------- MODULE MCConversations ---------------------------
(* Small instances of Conversations: a founder and user u2, who has all the    *)
(* devices.  Nothing tells one worker or one device from another.            *)
EXTENDS Conversations, TLC

CONSTANT u2

MCUserOf == [d \in Devices |-> u2]

Symmetry == Permutations(Workers) \union Permutations(Devices)
=============================================================================
