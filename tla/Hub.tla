--------------------------------- MODULE Hub ---------------------------------
(***************************************************************************)
(* The WebSocket hub: connections register and unregister through two      *)
(* channels read by one goroutine (Hub.Run), every connection has a read   *)
(* and a write pump, and request goroutines send to the devices of a user  *)
(* through the userDevices map.  register and unregister each consist of   *)
(* two critical sections (clientsMu, then udMu) and a presence broadcast;  *)
(* other goroutines run in between.                                        *)
(* Messages are not told apart: a Send channel is the number of messages   *)
(* in it.  The capacities 64 and 256 of the code are constants.            *)
(***************************************************************************)
EXTENDS Naturals, Sequences, FiniteSets

CONSTANTS
  Clients,   \* connections (*Client values)
  Devices,   \* device ids
  Users,     \* user ids
  DeviceOf,  \* DeviceOf[c]: the device a connection belongs to
  UserOf,    \* UserOf[d]: the user a device belongs to
  None,      \* no client
  QueueCap,  \* capacity of Register and Unregister (64)
  SendCap    \* capacity of a client's Send channel (256)

ASSUME HubAssumption ==
  /\ DeviceOf \in [Clients -> Devices]
  /\ UserOf \in [Devices -> Users]
  /\ None \notin Clients
  /\ QueueCap \in Nat \ {0}
  /\ SendCap \in Nat \ {0}

VARIABLES
  conn,         \* "new", "open", "failed" (broken or closed), "ended" (unregistered)
  writing,      \* connections whose WritePump runs
  registerQ,    \* the Register channel
  unregisterQ,  \* the Unregister channel
  clients,      \* Hub.clients
  userDevices,  \* Hub.userDevices, by device
  queued,       \* messages in each Send channel
  closed,       \* how often each Send channel was closed
  hub           \* where the goroutine of Run stands, and its client

vars == <<conn, writing, registerQ, unregisterQ, clients, userDevices, queued,
          closed, hub>>

Init ==
  /\ conn = [c \in Clients |-> "new"]
  /\ writing = {}
  /\ registerQ = <<>>
  /\ unregisterQ = <<>>
  /\ clients = {}
  /\ userDevices = [d \in Devices |-> None]
  /\ queued = [c \in Clients |-> 0]
  /\ closed = [c \in Clients |-> 0]
  /\ hub = [at |-> "select", client |-> None]
-----------------------------------------------------------------------------
(* The connection. *)

\* HandleWS: the client is put on the Register channel, then the pumps start.
HandleWS(c) ==
  /\ conn[c] = "new"
  /\ Len(registerQ) < QueueCap
  /\ conn' = [conn EXCEPT ![c] = "open"]
  /\ registerQ' = Append(registerQ, c)
  /\ writing' = writing \union {c}
  /\ UNCHANGED <<unregisterQ, clients, userDevices, queued, closed, hub>>

\* The read loop breaks: the peer left, a deadline passed, Conn was closed.
Broken(c) == [conn EXCEPT ![c] = IF @ = "open" THEN "failed" ELSE @]

ReadFails(c) ==
  /\ conn[c] = "open"
  /\ conn' = Broken(c)
  /\ UNCHANGED <<writing, registerQ, unregisterQ, clients, userDevices, queued,
                 closed, hub>>

\* ReadPump's deferred function: Unregister <- c, then Conn.Close.
ReadPumpReturns(c) ==
  /\ conn[c] = "failed"
  /\ Len(unregisterQ) < QueueCap
  /\ conn' = [conn EXCEPT ![c] = "ended"]
  /\ unregisterQ' = Append(unregisterQ, c)
  /\ UNCHANGED <<writing, registerQ, clients, userDevices, queued, closed, hub>>

\* WritePump writes one message together with all that are queued behind it.
WritePumpWrites(c) ==
  /\ c \in writing
  /\ conn[c] = "open"
  /\ queued[c] > 0
  /\ queued' = [queued EXCEPT ![c] = 0]
  /\ UNCHANGED <<conn, writing, registerQ, unregisterQ, clients, userDevices, closed,
                 hub>>

\* Mutant of WritePumpReturns: failing pings are ignored.
WritePumpReturns_OnlyClosed(c) ==
  /\ c \in writing
  /\ closed[c] > 0 /\ queued[c] = 0
  /\ writing' = writing \ {c}
  /\ conn' = Broken(c)
  /\ UNCHANGED <<registerQ, unregisterQ, clients, userDevices, queued, closed, hub>>

\* WritePump returns: a write or a ping failed, or Send is closed and empty.
\* It closes Conn, which breaks the read loop.
WritePumpReturns(c) ==
  /\ c \in writing
  /\ conn[c] # "open" \/ (closed[c] > 0 /\ queued[c] = 0)
  /\ writing' = writing \ {c}
  /\ conn' = Broken(c)
  /\ UNCHANGED <<registerQ, unregisterQ, clients, userDevices, queued, closed, hub>>
-----------------------------------------------------------------------------
(* Hub.Run. *)

\* case client := <-h.Register, up to the end of the clientsMu section.
Register ==
  /\ hub.at = "select"
  /\ registerQ # <<>>
  /\ registerQ' = Tail(registerQ)
  /\ clients' = clients \union {Head(registerQ)}
  /\ hub' = [at |-> "map", client |-> Head(registerQ)]
  /\ UNCHANGED <<conn, writing, unregisterQ, userDevices, queued, closed>>

\* register, the udMu section.
MapDevice ==
  /\ hub.at = "map"
  /\ userDevices' = [userDevices EXCEPT ![DeviceOf[hub.client]] = hub.client]
  /\ hub' = [hub EXCEPT !.at = "presence"]
  /\ UNCHANGED <<conn, writing, registerQ, unregisterQ, clients, queued, closed>>

\* Mutant of Unregister: the channel is closed without looking at clients.
Unregister_AlwaysClose ==
  /\ hub.at = "select"
  /\ unregisterQ # <<>>
  /\ LET c == Head(unregisterQ)
     IN  /\ closed' = [closed EXCEPT ![c] = @ + 1]
         /\ clients' = clients \ {c}
         /\ hub' = [at |-> "unmap", client |-> c]
  /\ unregisterQ' = Tail(unregisterQ)
  /\ UNCHANGED <<conn, writing, registerQ, userDevices, queued>>

\* case client := <-h.Unregister, up to the end of the clientsMu section.
Unregister ==
  /\ hub.at = "select"
  /\ unregisterQ # <<>>
  /\ LET c == Head(unregisterQ)
     IN  /\ closed' = [closed EXCEPT ![c] = IF c \in clients THEN @ + 1 ELSE @]
         /\ clients' = clients \ {c}
         /\ hub' = [at |-> "unmap", client |-> c]
  /\ unregisterQ' = Tail(unregisterQ)
  /\ UNCHANGED <<conn, writing, registerQ, userDevices, queued>>

\* unregister, the udMu section: the entry of the device goes, whoever it is.
UnmapDevice ==
  /\ hub.at = "unmap"
  /\ userDevices' = [userDevices EXCEPT ![DeviceOf[hub.client]] = None]
  /\ hub' = [hub EXCEPT !.at = "presence"]
  /\ UNCHANGED <<conn, writing, registerQ, unregisterQ, clients, queued, closed>>

\* broadcastPresence / broadcastToAll: a client whose channel is full is closed
\* and dropped from clients, but stays in userDevices.
BroadcastPresence ==
  /\ hub.at = "presence"
  /\ LET full == {c \in clients : queued[c] = SendCap}
     IN  /\ closed' = [c \in Clients |->
                         IF c \in full THEN closed[c] + 1 ELSE closed[c]]
         /\ queued' = [c \in Clients |->
                         IF c \in clients \ full THEN queued[c] + 1 ELSE queued[c]]
         /\ clients' = clients \ full
  /\ hub' = [at |-> "select", client |-> None]
  /\ UNCHANGED <<conn, writing, registerQ, unregisterQ, userDevices>>
-----------------------------------------------------------------------------
(* Senders. *)

\* The clients that userDevices holds for the devices D.
Targets(D) == {userDevices[d] : d \in D} \ {None}

\* SendMessage on each: a full channel drops the message.
Put(reached) ==
  /\ queued' = [c \in Clients |-> IF c \in reached /\ queued[c] < SendCap
                                  THEN queued[c] + 1 ELSE queued[c]]
  /\ UNCHANGED <<conn, writing, registerQ, unregisterQ, clients, userDevices, closed,
                 hub>>

Dead(targets) == {c \in targets : closed[c] > 0}

\* A request sends under udMu to each mapped client in map order; a closed channel
\* panics and ends the loop there.  Gin recovers from the panic, and the deferred
\* calls free the mutexes.
Deliver(D) ==
  LET targets == Targets(D)
  IN  \E reached \in SUBSET (targets \ Dead(targets)) :
        /\ Dead(targets) = {} => reached = targets
        /\ Put(reached)

\* Nothing recovers from a panic in the goroutine of a ReadPump: the process goes
\* down, all its goroutines with it, and is started again.  (The Unregister of the
\* deferred call comes too late to matter.)
Crash ==
  /\ conn' = [c \in Clients |-> IF conn[c] = "new" THEN "new" ELSE "ended"]
  /\ writing' = {} /\ clients' = {}
  /\ registerQ' = <<>> /\ unregisterQ' = <<>>
  /\ userDevices' = [d \in Devices |-> None]
  /\ queued' = [c \in Clients |-> 0]
  /\ closed' = [c \in Clients |-> 0]
  /\ hub' = [at |-> "select", client |-> None]

\* What a ReadPump handles while its connection breaks is still sent.
PumpSends(c, targets) ==
  /\ conn[c] \in {"open", "failed"}
  /\ IF Dead(targets) = {} THEN Put(targets) ELSE Crash

DevicesOf(u) == {d \in Devices : UserOf[d] = u}

SendToUser(u) == Deliver(DevicesOf(u))
SendToUserExceptDevice(u, d) == Deliver(DevicesOf(u) \ {d})
SendToUserDevice(d) == Deliver({d})

\* Dispatcher.HandleMessage: what a message of c makes its ReadPump send, to the
\* devices of a participant (all of them, or all but its own) and as an answer to c.
HandleMessage(c) ==
  \/ \E u \in Users : \/ PumpSends(c, Targets(DevicesOf(u)))
                      \/ PumpSends(c, Targets(DevicesOf(u) \ {DeviceOf[c]}))
  \/ PumpSends(c, {c})
-----------------------------------------------------------------------------
HubStep ==
  Register \/ MapDevice \/ Unregister \/ UnmapDevice \/ BroadcastPresence

Next ==
  \/ \E c \in Clients : \/ HandleWS(c) \/ ReadFails(c) \/ ReadPumpReturns(c)
                        \/ WritePumpWrites(c) \/ WritePumpReturns(c)
                        \/ HandleMessage(c)
  \/ HubStep
  \/ \E u \in Users : SendToUser(u)
  \/ \E d \in Devices : SendToUserExceptDevice(UserOf[d], d) \/ SendToUserDevice(d)

Spec == Init /\ [][Next]_vars

\* The Go scheduler runs every runnable goroutine; select picks among ready
\* channels at random, so neither channel is ignored for ever.
Fairness ==
  /\ WF_vars(HubStep)
  /\ SF_vars(Register)
  /\ SF_vars(Unregister)
  /\ \A c \in Clients : SF_vars(ReadPumpReturns(c)) /\ WF_vars(WritePumpReturns(c))

FairSpec == Spec /\ Fairness
-----------------------------------------------------------------------------
(* Properties. *)

\* The type of every variable.
TypeOK ==
  /\ conn \in [Clients -> {"new", "open", "failed", "ended"}]
  /\ writing \in SUBSET Clients
  /\ registerQ \in Seq(Clients)
  /\ unregisterQ \in Seq(Clients)
  /\ clients \in SUBSET Clients
  /\ userDevices \in [Devices -> Clients \union {None}]
  /\ queued \in [Clients -> 0 .. SendCap]
  /\ closed \in [Clients -> Nat]
  /\ hub \in [at : {"select", "map", "unmap", "presence"},
             client : Clients \union {None}]

\* The hub goroutine itself never panics: no Send channel is closed twice, by
\* unregister after a broadcast dropped the client or the other way round, and
\* no registered client has a closed channel for broadcastToAll to send on.
HubNeverPanics ==
  \A c \in Clients : closed[c] <= 1 /\ (c \in clients => closed[c] = 0)

\* No WritePump goroutine outlives its connection.
WritePumpEnds ==
  \A c \in Clients : conn[c] = "ended" ~> c \notin writing
=============================================================================
