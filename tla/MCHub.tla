-------------------------------- MODULE MCHub --------------------------------
(* Two connections of one device (a reconnect); the user has another device   *)
(* that is not connected.                                                     *)
EXTENDS Hub

CONSTANTS c1, c2, d1, d2, u1

MCDeviceOf == [c \in Clients |-> d1]
MCUserOf == [d \in Devices |-> u1]
=============================================================================
