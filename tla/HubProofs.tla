------------------------------ MODULE HubProofs ------------------------------
(***************************************************************************)
(* The goroutine of Hub.Run never panics, for any number of connections    *)
(* and devices and any channel capacities.                                 *)
(***************************************************************************)
EXTENDS Hub, TLAPS, SequenceTheorems

\* The goroutine has a client in hand between its two critical sections.
InHand == hub.at \in {"map", "unmap"} => hub.client \in Clients

\* A client waits in Register only while it has never been registered: its
\* channel is open, it is not in clients, and it waits there once.
Waiting(c) == \E i \in 1 .. Len(registerQ) : registerQ[i] = c
WaitingOK ==
  /\ \A c \in Clients : Waiting(c) => conn[c] # "new" /\ c \notin clients /\ closed[c] = 0
  /\ \A i, j \in 1 .. Len(registerQ) : registerQ[i] = registerQ[j] => i = j
  /\ \A c \in Clients : conn[c] = "new" => c \notin clients /\ closed[c] = 0

HubInv == TypeOK /\ InHand /\ WaitingOK /\ HubNeverPanics

USE DEF Waiting

\* Nothing is registered, nothing is closed.
LEMMA HubInit == Init => HubInv
<1> SUFFICES ASSUME Init PROVE HubInv
  OBVIOUS
<1>1. TypeOK
  <2>1. registerQ \in Seq(Clients) /\ unregisterQ \in Seq(Clients)
    BY EmptySeq DEF Init
  <2>2. /\ queued \in [Clients -> 0 .. SendCap]
        /\ closed \in [Clients -> Nat]
    BY HubAssumption DEF Init
  <2> QED BY <2>1, <2>2 DEF Init, TypeOK
<1>2. Len(registerQ) = 0
  BY DEF Init
<1>3. WaitingOK /\ InHand /\ HubNeverPanics
  BY <1>2 DEF Init, WaitingOK, InHand, HubNeverPanics
<1> QED BY <1>1, <1>3 DEF HubInv

\* A new connection waits once.
LEMMA HandleWSInv ==
  ASSUME HubInv, NEW c \in Clients, HandleWS(c)
  PROVE  HubInv'
<1>1. /\ registerQ \in Seq(Clients) /\ registerQ' = Append(registerQ, c)
      /\ Len(registerQ') = Len(registerQ) + 1
      /\ Len(registerQ) \in Nat
  BY DEF HubInv, TypeOK, HandleWS
<1>2. \A i \in 1 .. Len(registerQ') :
        registerQ'[i] = IF i = Len(registerQ) + 1 THEN c ELSE registerQ[i]
  BY <1>1
<1>3. TypeOK'
  BY <1>1 DEF HubInv, TypeOK, HandleWS
<1>4. ~ Waiting(c)
  BY DEF HubInv, WaitingOK, HandleWS
<1>5. WaitingOK'
  <2>1. \A x \in Clients : Waiting(x)' => Waiting(x) \/ x = c
    BY <1>1, <1>2
  <2>2. \A x \in Clients :
          Waiting(x)' => conn'[x] # "new" /\ x \notin clients' /\ closed'[x] = 0
    BY <2>1 DEF HubInv, TypeOK, WaitingOK, HandleWS
  <2>3. \A i, j \in 1 .. Len(registerQ') : registerQ'[i] = registerQ'[j] => i = j
    BY <1>1, <1>2, <1>4 DEF HubInv, WaitingOK
  <2>4. \A x \in Clients : conn'[x] = "new" => x \notin clients' /\ closed'[x] = 0
    BY DEF HubInv, TypeOK, WaitingOK, HandleWS
  <2> QED BY <2>2, <2>3, <2>4 DEF WaitingOK
<1>6. InHand' /\ HubNeverPanics'
  BY DEF HubInv, InHand, HubNeverPanics, HandleWS
<1> QED BY <1>3, <1>5, <1>6 DEF HubInv

\* The pumps touch neither the hub's tables nor the closing of channels.
LEMMA PumpInv ==
  ASSUME HubInv, NEW c \in Clients,
         ReadFails(c) \/ ReadPumpReturns(c) \/ WritePumpWrites(c) \/ WritePumpReturns(c)
  PROVE  HubInv'
<1>1. TypeOK'
  <2>1. CASE ReadFails(c)
    BY <2>1 DEF HubInv, TypeOK, ReadFails, Broken
  <2>2. CASE ReadPumpReturns(c)
    BY <2>2 DEF HubInv, TypeOK, ReadPumpReturns
  <2>3. CASE WritePumpWrites(c)
    BY <2>3, HubAssumption DEF HubInv, TypeOK, WritePumpWrites
  <2>4. CASE WritePumpReturns(c)
    BY <2>4 DEF HubInv, TypeOK, WritePumpReturns, Broken
  <2> QED BY <2>1, <2>2, <2>3, <2>4
<1>2. /\ UNCHANGED <<registerQ, clients, closed, hub>>
      /\ \A x \in Clients : conn'[x] = "new" <=> conn[x] = "new"
  BY DEF HubInv, TypeOK, ReadFails, ReadPumpReturns, WritePumpWrites, WritePumpReturns,
     Broken
<1>3. WaitingOK'
  BY <1>2 DEF HubInv, WaitingOK
<1>4. InHand' /\ HubNeverPanics'
  BY <1>2 DEF HubInv, InHand, HubNeverPanics
<1> QED BY <1>1, <1>3, <1>4 DEF HubInv

\* The client that is registered leaves the channel for good.
LEMMA RegisterInv ==
  ASSUME HubInv, Register
  PROVE  HubInv'
<1>1. /\ registerQ \in Seq(Clients) /\ registerQ # <<>>
      /\ registerQ' = Tail(registerQ)
      /\ Len(registerQ) \in Nat \ {0}
      /\ Len(registerQ') = Len(registerQ) - 1
      /\ Head(registerQ) = registerQ[1] /\ Head(registerQ) \in Clients
  BY DEF HubInv, TypeOK, Register
<1>2. \A i \in 1 .. Len(registerQ') : registerQ'[i] = registerQ[i + 1]
  BY <1>1
<1>3. TypeOK'
  BY <1>1 DEF HubInv, TypeOK, Register
<1>4. Waiting(Head(registerQ))
  BY <1>1
<1>5. WaitingOK'
  <2>1. \A x \in Clients : Waiting(x)' => Waiting(x) /\ x # Head(registerQ)
    <3> SUFFICES ASSUME NEW x \in Clients, NEW i \in 1 .. Len(registerQ'), registerQ'[i] = x
                 PROVE  Waiting(x) /\ x # Head(registerQ)
      OBVIOUS
    <3>1. i + 1 \in 1 .. Len(registerQ) /\ registerQ[i + 1] = x /\ 1 \in 1 .. Len(registerQ)
      BY <1>1, <1>2
    <3> QED BY <1>1, <3>1 DEF HubInv, WaitingOK
  <2>2. \A x \in Clients :
          Waiting(x)' => conn'[x] # "new" /\ x \notin clients' /\ closed'[x] = 0
    BY <2>1 DEF HubInv, WaitingOK, Register
  <2>3. \A i, j \in 1 .. Len(registerQ') : registerQ'[i] = registerQ'[j] => i = j
    <3> SUFFICES ASSUME NEW i \in 1 .. Len(registerQ'), NEW j \in 1 .. Len(registerQ'),
                        registerQ'[i] = registerQ'[j]
                 PROVE  i = j
      OBVIOUS
    <3>1. i + 1 \in 1 .. Len(registerQ) /\ j + 1 \in 1 .. Len(registerQ)
      BY <1>1
    <3>2. registerQ[i + 1] = registerQ[j + 1]
      BY <1>2
    <3> QED BY <3>1, <3>2 DEF HubInv, WaitingOK
  <2>4. \A x \in Clients : conn'[x] = "new" => x \notin clients' /\ closed'[x] = 0
    BY <1>1, <1>4 DEF HubInv, WaitingOK, Register
  <2> HIDE DEF Waiting
  <2> QED BY <2>2, <2>3, <2>4 DEF WaitingOK
<1>6. HubNeverPanics'
  BY <1>1, <1>4 DEF HubInv, WaitingOK, HubNeverPanics, Register
<1>7. InHand'
  BY <1>1 DEF InHand, Register
<1> QED BY <1>3, <1>5, <1>6, <1>7 DEF HubInv

\* Closing goes with leaving clients, in unregister ...
LEMMA UnregisterInv ==
  ASSUME HubInv, Unregister
  PROVE  HubInv'
<1>1. unregisterQ \in Seq(Clients) /\ unregisterQ # <<>> /\ Head(unregisterQ) \in Clients
  BY DEF HubInv, TypeOK, Unregister
<1>2. TypeOK'
  BY <1>1 DEF HubInv, TypeOK, Unregister
<1>3. HubNeverPanics'
  BY <1>1 DEF HubInv, TypeOK, HubNeverPanics, Unregister
<1>4. WaitingOK'
  BY <1>1 DEF HubInv, TypeOK, WaitingOK, Unregister
<1>5. InHand'
  BY <1>1 DEF InHand, Unregister
<1> QED BY <1>2, <1>3, <1>4, <1>5 DEF HubInv

\* ... and in broadcastToAll.
LEMMA BroadcastInv ==
  ASSUME HubInv, BroadcastPresence
  PROVE  HubInv'
<1>1. TypeOK'
  BY HubAssumption DEF HubInv, TypeOK, BroadcastPresence
<1>2. HubNeverPanics'
  BY DEF HubInv, TypeOK, HubNeverPanics, BroadcastPresence
<1>3. WaitingOK'
  BY DEF HubInv, TypeOK, WaitingOK, BroadcastPresence
<1>4. InHand'
  BY DEF InHand, BroadcastPresence
<1> QED BY <1>1, <1>2, <1>3, <1>4 DEF HubInv

\* The map of devices plays no part in it.
LEMMA MapInv ==
  ASSUME HubInv, MapDevice \/ UnmapDevice
  PROVE  HubInv'
<1>1. TypeOK'
  BY HubAssumption DEF HubInv, TypeOK, InHand, MapDevice, UnmapDevice
<1>2. HubNeverPanics' /\ WaitingOK' /\ InHand'
  BY DEF HubInv, TypeOK, HubNeverPanics, WaitingOK, InHand, MapDevice, UnmapDevice
<1> QED BY <1>1, <1>2 DEF HubInv

\* Neither do the senders: they count messages and never close.
LEMMA PutInv ==
  ASSUME HubInv, NEW reached, Put(reached)
  PROVE  HubInv'
<1>1. UNCHANGED <<conn, writing, registerQ, unregisterQ, clients, userDevices, closed, hub>>
  BY DEF Put
<1>2. queued' \in [Clients -> 0 .. SendCap]
  BY HubAssumption DEF HubInv, TypeOK, Put
<1>3. TypeOK'
  BY <1>1, <1>2 DEF HubInv, TypeOK
<1>4. HubNeverPanics' /\ WaitingOK' /\ InHand'
  BY <1>1 DEF HubInv, HubNeverPanics, WaitingOK, InHand
<1> QED BY <1>3, <1>4 DEF HubInv

\* A process that starts again has no connection and no channel of the one before.
LEMMA CrashInv ==
  ASSUME HubInv, Crash
  PROVE  HubInv'
<1>1. TypeOK'
  <2>1. registerQ' \in Seq(Clients) /\ unregisterQ' \in Seq(Clients)
    BY EmptySeq DEF Crash
  <2>2. queued' \in [Clients -> 0 .. SendCap] /\ closed' \in [Clients -> Nat]
    BY HubAssumption DEF Crash
  <2> QED BY <2>1, <2>2 DEF Crash, TypeOK
<1>2. Len(registerQ') = 0
  BY DEF Crash
<1>3. WaitingOK' /\ InHand' /\ HubNeverPanics'
  BY <1>2 DEF Crash, WaitingOK, InHand, HubNeverPanics
<1> QED BY <1>1, <1>3 DEF HubInv

\* In every behaviour of the hub its variables keep their types, no Send channel
\* is closed twice and no registered client has a closed channel (Hub.Run).
THEOREM HubSafe == Spec => [](TypeOK /\ HubNeverPanics)
<1>1. HubInv /\ [Next]_vars => HubInv'
  <2> SUFFICES ASSUME HubInv, [Next]_vars PROVE HubInv'
    OBVIOUS
  <2>1. CASE UNCHANGED vars
    BY <2>1 DEF HubInv, TypeOK, InHand, WaitingOK, HubNeverPanics, vars
  <2>2. ASSUME NEW c \in Clients,
               \/ HandleWS(c) \/ ReadFails(c) \/ ReadPumpReturns(c)
               \/ WritePumpWrites(c) \/ WritePumpReturns(c)
        PROVE  HubInv'
    BY <2>2, HandleWSInv, PumpInv
  <2>3. CASE HubStep
    BY <2>3, RegisterInv, MapInv, UnregisterInv, BroadcastInv DEF HubStep
  <2>4. ASSUME NEW u \in Users, SendToUser(u) PROVE HubInv'
    BY <2>4, PutInv DEF SendToUser, Deliver
  <2>5. ASSUME NEW d \in Devices, SendToUserExceptDevice(UserOf[d], d) \/ SendToUserDevice(d)
        PROVE  HubInv'
    BY <2>5, PutInv DEF SendToUserExceptDevice, SendToUserDevice, Deliver
  <2>6. ASSUME NEW c \in Clients, HandleMessage(c) PROVE HubInv'
    BY <2>6, PutInv, CrashInv DEF HandleMessage, PumpSends
  <2> QED BY <2>1, <2>2, <2>3, <2>4, <2>5, <2>6 DEF Next
<1>2. HubInv => TypeOK /\ HubNeverPanics
  BY DEF HubInv
<1> QED BY <1>1, <1>2, HubInit, PTL DEF Spec
=============================================================================
