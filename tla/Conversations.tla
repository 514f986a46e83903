---------------------------- MODULE Conversations ----------------------------
(***************************************************************************)
(* One conversation: its participants and their roles, its messages, and   *)
(* the delivery of a message to the devices of the other participants,     *)
(* over the WebSocket hub for those online and as an offline row for the   *)
(* others.  No request runs in a transaction: every statement is a step,   *)
(* and what a request has read may be stale when it writes.                *)
(*                                                                         *)
(* The hub is abstracted to the set of devices it knows as online (module  *)
(* Hub has the detail).  The sync events that the services record at the   *)
(* end of a change are requests of SyncLog's AutoWriters; their errors are *)
(* ignored and nothing here depends on them.                               *)
(***************************************************************************)
EXTENDS Naturals, FiniteSets, Sequences

CONSTANTS
  Workers,         \* goroutines that serve requests
  Users,
  Founder,         \* the user who creates the conversation
  Devices,         \* registered devices
  UserOf,          \* the user of each device
  ClientEventIds,  \* non-empty client_event_id values
  NoId,            \* the empty client_event_id
  None,            \* no value
  BatchLimit,      \* rows in an offline batch
  MaxMessages,     \* bound on the messages of the conversation
  MaxRows,         \* bound on the offline rows
  MaxRequests      \* bound on the requests of a behaviour

ASSUME ConversationAssumption ==
  /\ Founder \in Users
  /\ UserOf \in [Devices -> Users]
  /\ NoId \notin ClientEventIds
  /\ {BatchLimit, MaxMessages, MaxRows, MaxRequests} \subseteq Nat

Roles == {"none", "member", "admin", "owner"}

Message == [sender : Users, cid : ClientEventIds \union {NoId},
            status : {"active", "deleted"}, edits : Nat]

\* A row, and whether its device has acknowledged its message (history).
OfflineRow == [dev : Devices, msg : Nat, st : {"waiting", "delivered", "gone"},
               acked : BOOLEAN]

MsgIds == 1 .. MaxMessages

Request ==
  [op : {"send"}, actor : Users, cid : ClientEventIds \union {NoId}]
    \union [op : {"edit", "delete"}, actor : Users, msg : MsgIds]
    \union [op : {"add", "remove"}, actor : Users, target : Users]
    \union [op : {"role"}, actor : Users, target : Users, role : Roles \ {"none"}]

VARIABLES
  role,      \* conversation_participants
  msgs,      \* messages, in the order of their creation
  rows,      \* offline_messages, in the order of their creation
  online,    \* the devices in Hub.userDevices
  batch,     \* the rows of the batch each device has to acknowledge
  pc,        \* where each request stands
  req,       \* what each request asks for
  job,       \* the local variables of each request
  begun,     \* requests begun so far
  raced      \* history: "roles" or "messages" if a write overtook a reader

vars == <<role, msgs, rows, online, batch, pc, req, job, begun, raced>>

Answered == {"idle", "sent"}

\* The locals: the message, the participants, the online devices as read, what is
\* still to do, and for the properties which devices were served, missed, or
\* connected meanwhile.
Blank == [msg |-> 0, row |-> None, parts |-> {}, seen |-> {}, todo |-> {},
          pushed |-> {}, stored |-> {}, missed |-> {}, joined |-> {}]

\* createGroup makes the founder admin and the others members; createPrivate makes
\* two members.
Init ==
  /\ role \in [Users -> {"none", "member", "admin"}]
  /\ \/ /\ role[Founder] = "admin"
        /\ \A u \in Users \ {Founder} : role[u] # "admin"
     \/ /\ role[Founder] = "member"
        /\ \A u \in Users : role[u] # "admin"
        /\ Cardinality({u \in Users : role[u] = "member"}) = 2
  /\ msgs = <<>>
  /\ rows = <<>>
  /\ online = {}
  /\ batch = [d \in Devices |-> {}]
  /\ pc = [w \in Workers |-> "idle"]
  /\ req = [w \in Workers |-> None]
  /\ job = [w \in Workers |-> Blank]
  /\ begun = 0
  /\ raced = {}
-----------------------------------------------------------------------------
Goto(w, step) == pc' = [pc EXCEPT ![w] = step]

stored   == <<role, msgs, rows>>
presence == <<online, batch>>

\* A request goes on without writing.
Move(w, step) ==
  /\ Goto(w, step)
  /\ UNCHANGED <<stored, presence, req, job, begun, raced>>

Begin(w, r) ==
  /\ pc[w] \in Answered
  /\ begun < MaxRequests
  /\ begun' = begun + 1
  /\ req' = [req EXCEPT ![w] = r]
  /\ job' = [job EXCEPT ![w] = Blank]
  /\ Goto(w, CASE r.op = "send" -> "member"
               [] r.op \in {"edit", "delete"} -> "read"
               [] r.op = "remove" /\ r.actor = r.target -> "target"
               [] OTHER -> "auth")
  /\ UNCHANGED <<stored, presence, raced>>

\* The request is over.
End(w) ==
  /\ Goto(w, "idle")
  /\ req' = [req EXCEPT ![w] = None]
  /\ job' = [job EXCEPT ![w] = Blank]

\* A refusal, a database error, a lost connection.
Abort(w) ==
  /\ pc[w] \notin Answered
  /\ End(w)
  /\ UNCHANGED <<stored, presence, begun, raced>>

\* The writer overtakes a request that has read what it writes.
Overtakes(w, what, readers) ==
  raced' = IF \E x \in Workers \ {w} : pc[x] \in readers THEN raced \union {what}
           ELSE raced
-----------------------------------------------------------------------------
(* Participants. *)

IsParticipant(u) == role[u] # "none"

\* requireAdminOrOwner
RequireAdminOrOwner(w) ==
  /\ pc[w] = "auth"
  /\ role[req[w].actor] \in {"admin", "owner"}
  /\ Move(w, IF req[w].op = "add" THEN "insert" ELSE "target")

\* AddParticipant: the primary key refuses a second row.
AddParticipant(w) ==
  /\ pc[w] = "insert"
  /\ ~ IsParticipant(req[w].target)
  /\ role' = [role EXCEPT ![req[w].target] = "member"]
  /\ End(w)
  /\ Overtakes(w, "roles", {"count", "apply"})
  /\ UNCHANGED <<msgs, rows, presence, begun>>

\* Does the request take the role "owner" away from its target?
TakesOwner(r) == r.op = "remove" \/ r.role # "owner"

\* Mutant of GetTarget: an owner is checked on removal only.
GetTarget_RoleUnchecked(w) ==
  /\ pc[w] = "target"
  /\ IsParticipant(req[w].target)
  /\ Move(w, IF role[req[w].target] = "owner" /\ req[w].op = "remove" THEN "count"
             ELSE "apply")

\* The target as removeParticipant and UpdateParticipant read it.
GetTarget(w) ==
  /\ pc[w] = "target"
  /\ IsParticipant(req[w].target)
  /\ Move(w, IF role[req[w].target] = "owner" /\ TakesOwner(req[w]) THEN "count"
             ELSE "apply")

\* ensureNotLastOwner, when it does not refuse.
EnsureNotLastOwner(w) ==
  /\ pc[w] = "count"
  /\ \/ Cardinality({u \in Users : role[u] = "owner"}) > 1
     \/ role[req[w].target] \notin {"owner", "none"}
  /\ Move(w, "apply")

\* The DELETE, or the Save of the row as read: Save inserts what it does not find.
ApplyParticipant(w) ==
  /\ pc[w] = "apply"
  /\ role' = [role EXCEPT ![req[w].target] =
                IF req[w].op = "remove" THEN "none" ELSE req[w].role]
  /\ End(w)
  /\ Overtakes(w, "roles", {"count", "apply"})
  /\ UNCHANGED <<msgs, rows, presence, begun>>
-----------------------------------------------------------------------------
(* Sending a message. *)

SetJob(w, j) == job' = [job EXCEPT ![w] = j]

CheckMember(w) ==
  /\ pc[w] = "member"
  /\ IsParticipant(req[w].actor)
  /\ Move(w, "find")

\* The messages of this sender with this client_event_id.
FindMessageByClientEventID(r) ==
  {m \in DOMAIN msgs : r.cid # NoId /\ msgs[m].sender = r.actor /\ msgs[m].cid = r.cid}

\* A hit is delivered again; a miss, or an error of the query, creates a message.
FindEarlier(w) ==
  /\ pc[w] = "find"
  /\ \/ Goto(w, "create") /\ UNCHANGED job
     \/ \E m \in FindMessageByClientEventID(req[w]) :
          Goto(w, "parts") /\ SetJob(w, [job[w] EXCEPT !.msg = m])
  /\ UNCHANGED <<stored, presence, req, begun, raced>>

CreateMessage(w) ==
  /\ pc[w] = "create"
  /\ Len(msgs) < MaxMessages
  /\ msgs' = Append(msgs, [sender |-> req[w].actor, cid |-> req[w].cid,
                           status |-> "active", edits |-> 0])
  /\ SetJob(w, [job[w] EXCEPT !.msg = Len(msgs) + 1])
  /\ Goto(w, "parts")
  /\ UNCHANGED <<role, rows, presence, req, begun, raced>>

GetParticipants(w) ==
  /\ pc[w] = "parts"
  /\ SetJob(w, [job[w] EXCEPT !.parts = {u \in Users : IsParticipant(u)}])
  /\ Goto(w, "snapshot")
  /\ UNCHANGED <<stored, presence, req, begun, raced>>

Recipients(w) == job[w].parts \ {req[w].actor}

\* AllOnlineDeviceIDs, before anything is sent.
AllOnlineDeviceIDs(w) ==
  /\ pc[w] = "snapshot"
  /\ SetJob(w, [job[w] EXCEPT !.seen = online, !.todo = Recipients(w)])
  /\ Goto(w, "push")
  /\ UNCHANGED <<stored, presence, req, begun, raced>>

\* SendToUser for one participant; a full send buffer drops the message.
SendToUser(w, u) ==
  /\ pc[w] = "push" /\ u \in job[w].todo
  /\ LET live == {d \in online : UserOf[d] = u}
     IN  \E taken \in SUBSET live :
           SetJob(w, [job[w] EXCEPT !.todo = @ \ {u}, !.pushed = @ \union taken,
                                    !.missed = @ \union (live \ taken)])
  /\ UNCHANGED <<stored, presence, pc, req, begun, raced>>

\* Mutant of ListOffline: the devices online now are skipped, not those that were
\* online before the message was sent.
ListOffline_Now(w) ==
  /\ pc[w] = "push" /\ job[w].todo = {}
  /\ SetJob(w, [job[w] EXCEPT !.todo = {d \in Devices : /\ UserOf[d] \in Recipients(w)
                                                        /\ d \notin online}])
  /\ Goto(w, "store")
  /\ UNCHANGED <<stored, presence, req, begun, raced>>

\* SaveOfflineMessages: the devices to write rows for.
ListOffline(w) ==
  /\ pc[w] = "push" /\ job[w].todo = {}
  /\ SetJob(w, [job[w] EXCEPT !.todo = {d \in Devices : /\ UserOf[d] \in Recipients(w)
                                                        /\ d \notin job[w].seen}])
  /\ Goto(w, "store")
  /\ UNCHANGED <<stored, presence, req, begun, raced>>

\* One row; an error is logged and the loop goes on.
SaveOfflineMessage(w, d) ==
  /\ pc[w] = "store" /\ d \in job[w].todo
  /\ \/ /\ Len(rows) < MaxRows
        /\ rows' = Append(rows, [dev |-> d, msg |-> job[w].msg, st |-> "waiting",
                              acked |-> FALSE])
        /\ SetJob(w, [job[w] EXCEPT !.todo = @ \ {d}, !.stored = @ \union {d}])
     \/ /\ SetJob(w, [job[w] EXCEPT !.todo = @ \ {d}, !.missed = @ \union {d}])
        /\ UNCHANGED rows
  /\ UNCHANGED <<role, msgs, presence, pc, req, begun, raced>>

AckSender(w) ==
  /\ pc[w] = "store" /\ job[w].todo = {}
  /\ Move(w, "sent")
-----------------------------------------------------------------------------
(* Editing and deleting a message. *)

\* Only the sender changes a message.  A deleted one cannot be edited, and deleting
\* it again is answered at once.
ReadMessage(w) ==
  /\ pc[w] = "read"
  /\ req[w].msg \in DOMAIN msgs
  /\ LET m == msgs[req[w].msg]
     IN  /\ m.sender = req[w].actor
         /\ \/ /\ m.status = "active"
               /\ SetJob(w, [job[w] EXCEPT !.row = m])
               /\ Goto(w, "save")
               /\ UNCHANGED req
            \/ m.status = "deleted" /\ req[w].op = "delete" /\ End(w)
  /\ UNCHANGED <<stored, presence, begun, raced>>

\* UpdateMessage saves the whole row as it was read, with the new content.
UpdateMessage(w) ==
  /\ pc[w] = "save" /\ req[w].op = "edit"
  /\ msgs' = [msgs EXCEPT ![req[w].msg] = [job[w].row EXCEPT !.edits = @ + 1]]
  /\ End(w)
  /\ Overtakes(w, "messages", {"save"})
  /\ UNCHANGED <<role, rows, presence, begun>>

\* SoftDeleteMessage updates the status only.
SoftDeleteMessage(w) ==
  /\ pc[w] = "save" /\ req[w].op = "delete"
  /\ msgs' = [msgs EXCEPT ![req[w].msg].status = "deleted"]
  /\ End(w)
  /\ Overtakes(w, "messages", {"save"})
  /\ UNCHANGED <<role, rows, presence, begun>>
-----------------------------------------------------------------------------
(* Devices: presence, the offline queue and its retention. *)

Delivering == {w \in Workers : pc[w] \in {"push", "store"}}

Serves(w, d) == w \in Delivering /\ UserOf[d] \in Recipients(w)

Connect(d) ==
  /\ d \notin online
  /\ online' = online \union {d}
  /\ job' = [w \in Workers |-> IF Serves(w, d)
                               THEN [job[w] EXCEPT !.joined = @ \union {d}] ELSE job[w]]
  /\ UNCHANGED <<stored, batch, pc, req, begun, raced>>

Disconnect(d) ==
  /\ d \in online
  /\ online' = online \ {d}
  /\ job' = [w \in Workers |-> IF Serves(w, d)
                               THEN [job[w] EXCEPT !.missed = @ \union {d}] ELSE job[w]]
  /\ UNCHANGED <<stored, batch, pc, req, begun, raced>>

\* GetUndeliveredMessages: the oldest rows of the device, at most BatchLimit.
GetUndeliveredMessages(d) ==
  {i \in DOMAIN rows :
     /\ rows[i].dev = d /\ rows[i].st = "waiting"
     /\ Cardinality({j \in 1 .. i - 1 : rows[j].dev = d /\ rows[j].st = "waiting"})
          < BatchLimit}

\* offline.fetch answers with messages; the ids of the rows are not in the batch.
FetchOffline(d) ==
  /\ d \in online
  /\ GetUndeliveredMessages(d) # {}
  /\ batch' = [batch EXCEPT ![d] = GetUndeliveredMessages(d)]
  /\ UNCHANGED <<stored, online, pc, req, job, begun, raced>>

\* Rows and messages have ids of their own.
RowId(i) == <<"row", i>>
MsgId(m) == <<"msg", m>>

\* MarkOfflineDelivered: UPDATE ... WHERE id IN ids, over the ids of rows.
MarkOfflineDelivered(i, ids) ==
  IF RowId(i) \in ids /\ rows[i].st = "waiting" THEN "delivered" ELSE rows[i].st

\* message.ack with the message ids of the batch.
AckOffline(d) ==
  /\ d \in online
  /\ batch[d] # {}
  /\ LET ids == {MsgId(rows[i].msg) : i \in batch[d]}
     IN  rows' = [i \in DOMAIN rows |->
                    [rows[i] EXCEPT !.st = MarkOfflineDelivered(i, ids),
                                    !.acked = @ \/ i \in batch[d]]]
  /\ batch' = [batch EXCEPT ![d] = {}]
  /\ UNCHANGED <<role, msgs, online, pc, req, job, begun, raced>>

\* The retention job deletes the rows created before its cutoff.
CleanupExpiredOffline ==
  /\ \E n \in DOMAIN rows :
       rows' = [i \in DOMAIN rows |-> IF i <= n THEN [rows[i] EXCEPT !.st = "gone"]
                                      ELSE rows[i]]
  /\ UNCHANGED <<role, msgs, presence, pc, req, job, begun, raced>>
-----------------------------------------------------------------------------
Step(w) ==
  \/ RequireAdminOrOwner(w) \/ AddParticipant(w) \/ GetTarget(w)
  \/ EnsureNotLastOwner(w) \/ ApplyParticipant(w)
  \/ CheckMember(w) \/ FindEarlier(w) \/ CreateMessage(w) \/ GetParticipants(w)
  \/ AllOnlineDeviceIDs(w) \/ ListOffline(w) \/ AckSender(w)
  \/ \E u \in Users : SendToUser(w, u)
  \/ \E d \in Devices : SaveOfflineMessage(w, d)
  \/ ReadMessage(w) \/ UpdateMessage(w) \/ SoftDeleteMessage(w)

Next ==
  \/ \E w \in Workers : (\E r \in Request : Begin(w, r)) \/ Step(w) \/ Abort(w)
  \/ \E d \in Devices : Connect(d) \/ Disconnect(d) \/ FetchOffline(d) \/ AckOffline(d)
  \/ CleanupExpiredOffline

Spec == Init /\ [][Next]_vars
-----------------------------------------------------------------------------
(* Properties. *)

Locals == [msg : Nat, row : Message \union {None}, parts : SUBSET Users,
           seen : SUBSET Devices, todo : SUBSET (Users \union Devices),
           pushed : SUBSET Devices, stored : SUBSET Devices,
           missed : SUBSET Devices, joined : SUBSET Devices]

\* The type of every variable.
TypeOK ==
  /\ role \in [Users -> Roles]
  /\ msgs \in Seq(Message)
  /\ rows \in Seq(OfflineRow)
  /\ online \subseteq Devices
  /\ batch \in [Devices -> SUBSET Nat]
  /\ pc \in [Workers -> Answered \union
               {"auth", "insert", "target", "count", "apply", "member", "find",
                "create", "parts", "snapshot", "push", "store", "read", "save"}]
  /\ req \in [Workers -> Request \union {None}]
  /\ job \in [Workers -> Locals]
  /\ begun \in Nat
  /\ raced \subseteq {"roles", "messages"}

\* Once a send is acknowledged, every device of a recipient has the message on its
\* connection or as an offline row, unless its connection broke, its buffer was
\* full or its row could not be written after the online devices were read; it
\* has it twice only if it connected meanwhile.
ServedOnce ==
  \A w \in Workers : pc[w] = "sent" =>
    \A d \in Devices : UserOf[d] \in Recipients(w) =>
      /\ d \in job[w].pushed \union job[w].stored \union job[w].missed
      /\ d \in job[w].pushed \intersect job[w].stored => d \in job[w].joined

\* "cannot remove or demote last owner": as long as no request overtakes another,
\* a conversation that has an owner keeps one, and a user who was removed comes
\* back through AddParticipant only.
Owners == {u \in Users : role[u] = "owner"}
LastOwnerKept ==
  [][raced = {} =>
       /\ Owners # {} => Owners' # {}
       /\ \A u \in Users : role[u] = "none" /\ role'[u] # "none" =>
            \E w \in Workers : pc[w] = "insert" /\ req[w].target = u]_role

\* "AckOfflineMessages marks offline messages as delivered": a row whose message
\* its device has acknowledged is not waiting any more.
AckedIsDelivered == \A i \in DOMAIN rows : rows[i].acked => rows[i].st # "waiting"
=============================================================================
