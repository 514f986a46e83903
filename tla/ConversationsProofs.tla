-------------------------- MODULE ConversationsProofs --------------------------
(***************************************************************************)
(* What Conversations guarantees for any number of requests, users and     *)
(* devices: who has a message once its sender is answered, and that the    *)
(* roles keep an owner as long as no request overtakes another.            *)
(***************************************************************************)
EXTENDS Conversations, TLAPS, FiniteSetTheorems

-----------------------------------------------------------------------------
(* The inductive invariant. *)

Sending == {"member", "find", "create", "parts", "snapshot", "push", "store", "sent"}

\* The steps at which a request of each kind can be.
StepsOf(op) ==
  CASE op = "send" -> Sending
    [] op \in {"edit", "delete"} -> {"read", "save"}
    [] op = "add" -> {"auth", "insert"}
    [] OTHER -> {"auth", "target", "count", "apply"}

\* A request stands at a step of its kind; one that saves a message has read it.
Placed(w) ==
  pc[w] # "idle" =>
    /\ req[w] \in Request
    /\ pc[w] \in StepsOf(req[w].op)
    /\ pc[w] = "save" => job[w].row \in Message /\ req[w].msg \in DOMAIN msgs

\* What a delivery knows of device d: pushes and offline rows divide the devices by
\* whether they were online when the delivery read them.
Delivery(w, d) ==
  LET j == job[w]
  IN  /\ pc[w] \in {"push", "store"} /\ d \in online => d \in j.seen \union j.joined
      /\ d \in j.pushed => d \in j.seen \union j.joined
      /\ pc[w] = "push" =>
           (d \in j.seen =>
              IF UserOf[d] \in j.todo THEN d \in online \union j.missed
              ELSE d \in j.pushed \union j.missed)
      /\ pc[w] \in {"store", "sent"} =>
           /\ d \in j.seen => d \in j.pushed \union j.missed
           /\ d \in j.stored => d \notin j.seen
           /\ d \notin j.seen => d \in j.stored \union j.missed
                                   \union (IF pc[w] = "store" THEN j.todo ELSE {})
           /\ pc[w] = "store" /\ d \in j.todo => d \notin j.seen

\* Before its participants are read a request has served nobody.
Served(w) ==
  /\ pc[w] \in Sending \ {"push", "store", "sent"} =>
       job[w].pushed = {} /\ job[w].stored = {}
  /\ pc[w] = "push" => job[w].stored = {}
  /\ pc[w] \in {"push", "store", "sent"} =>
       \A d \in Devices : UserOf[d] \in Recipients(w) => Delivery(w, d)

\* As long as nobody was overtaken: the target of a change of roles is a participant,
\* and one about to lose its ownership is not the only owner.
Counted(w) ==
  raced = {} =>
    /\ pc[w] \in {"count", "apply"} => role[req[w].target] # "none"
    /\ pc[w] = "apply" /\ role[req[w].target] = "owner" /\ TakesOwner(req[w]) =>
         Cardinality(Owners) > 1

IInv ==
  /\ TypeOK
  /\ \A w \in Workers : Placed(w)
  /\ \A w \in Workers : Served(w)
  /\ \A w \in Workers : Counted(w)
-----------------------------------------------------------------------------
(* Requests, steps and locals. *)

\* The fields of a request of each kind.
LEMMA RequestFields ==
  ASSUME NEW r \in Request
  PROVE  /\ r.op \in {"send", "edit", "delete", "add", "remove", "role"}
         /\ r.actor \in Users
         /\ r.op = "send" => r.cid \in ClientEventIds \union {NoId}
         /\ r.op \in {"edit", "delete"} => r.msg \in MsgIds
         /\ r.op \in {"add", "remove", "role"} => r.target \in Users
         /\ r.op = "role" => r.role \in Roles \ {"none"}
BY DEF Request

\* The kind of a request, from the step at which it stands.
LEMMA KindAt ==
  ASSUME NEW w \in Workers, Placed(w), pc[w] # "idle"
  PROVE  /\ req[w] \in Request
         /\ pc[w] \in Sending => req[w].op = "send"
         /\ pc[w] \in {"read", "save"} => req[w].op \in {"edit", "delete"}
         /\ pc[w] = "auth" => req[w].op \in {"add", "remove", "role"}
         /\ pc[w] = "insert" => req[w].op = "add"
         /\ pc[w] \in {"target", "count", "apply"} => req[w].op \in {"remove", "role"}
<1>1. req[w] \in Request /\ pc[w] \in StepsOf(req[w].op)
  BY DEF Placed
<1>2. req[w].op \in {"send", "edit", "delete", "add", "remove", "role"}
  BY <1>1, RequestFields
<1> QED BY <1>1, <1>2 DEF StepsOf, Sending

\* The locals of a request that begins.
LEMMA BlankLocals == Blank \in Locals
BY DEF Blank, Locals

\* A row of a table is replaced, or all of them are.
LEMMA RowsReplaced ==
  ASSUME NEW S, NEW s \in Seq(S), NEW t, t = [i \in DOMAIN s |-> t[i]],
         \A i \in DOMAIN s : t[i] \in S
  PROVE  t \in Seq(S) /\ DOMAIN t = DOMAIN s
<1>1. Len(s) \in Nat /\ DOMAIN s = 1 .. Len(s)
  OBVIOUS
<1>2. t \in [1 .. Len(s) -> S]
  BY <1>1
<1> QED BY <1>1, <1>2

\* The end of a request.
LEMMA EndTypes ==
  ASSUME TypeOK, NEW w \in Workers, End(w)
  PROVE  /\ pc' = [pc EXCEPT ![w] = "idle"]
         /\ req' \in [Workers -> Request \union {None}]
         /\ job' \in [Workers -> Locals]
         /\ pc'[w] = "idle" /\ job'[w] = Blank
         /\ \A x \in Workers \ {w} : pc'[x] = pc[x] /\ req'[x] = req[x] /\ job'[x] = job[x]
BY BlankLocals DEF TypeOK, End, Goto

\* The whole step of a request that only moves on.
LEMMA MoveTypes ==
  ASSUME TypeOK, NEW w \in Workers, NEW step, Move(w, step),
         step \in Answered \union
               {"auth", "insert", "target", "count", "apply", "member", "find",
                "create", "parts", "snapshot", "push", "store", "read", "save"}
  PROVE  TypeOK'
BY DEF TypeOK, Move, Goto, stored, presence
-----------------------------------------------------------------------------
(* Types. *)

\* A request begins.
LEMMA BeginTypes ==
  ASSUME TypeOK, NEW w \in Workers, NEW r \in Request, Begin(w, r)
  PROVE  /\ TypeOK'
         /\ pc'[w] \in {"member", "read", "target", "auth"}
         /\ pc'[w] \in StepsOf(r.op)
         /\ req'[w] = r /\ job'[w] = Blank
         /\ \A x \in Workers \ {w} : pc'[x] = pc[x] /\ req'[x] = req[x] /\ job'[x] = job[x]
<1> DEFINE first == CASE r.op = "send" -> "member"
               [] r.op \in {"edit", "delete"} -> "read"
               [] r.op = "remove" /\ r.actor = r.target -> "target"
               [] OTHER -> "auth"
<1>1. r.op \in {"send", "edit", "delete", "add", "remove", "role"}
  BY RequestFields
<1>2. first \in {"member", "read", "target", "auth"}
  BY Zenon
<1>3. r.op = "send" => first = "member" /\ StepsOf(r.op) = Sending
  BY DEF StepsOf
<1>4. r.op \in {"edit", "delete"} => first = "read" /\ StepsOf(r.op) = {"read", "save"}
  BY DEF StepsOf
<1>5. r.op = "add" => first = "auth" /\ StepsOf(r.op) = {"auth", "insert"}
  BY DEF StepsOf
<1>6. r.op \in {"remove", "role"} =>
        first \in {"auth", "target"} /\ StepsOf(r.op) = {"auth", "target", "count", "apply"}
  BY DEF StepsOf
<1> HIDE DEF first
<1>7. first \in StepsOf(r.op)
  BY <1>1, <1>3, <1>4, <1>5, <1>6 DEF Sending
<1>8. pc' = [pc EXCEPT ![w] = first]
  BY Zenon DEF Begin, Goto, first
<1>9. req' = [req EXCEPT ![w] = r] /\ job' = [job EXCEPT ![w] = Blank]
  /\ begun' = begun + 1 /\ UNCHANGED <<role, msgs, rows, online, batch, raced>>
  BY Zenon DEF Begin, stored, presence
<1> QED BY <1>2, <1>7, <1>8, <1>9, BlankLocals DEF TypeOK

\* What a step of request w leaves alone.
Frame(w) ==
  /\ \A x \in Workers \ {w} : pc'[x] = pc[x] /\ req'[x] = req[x] /\ job'[x] = job[x]
  /\ online' = online /\ batch' = batch
  /\ DOMAIN msgs \subseteq DOMAIN msgs'

\* A request that moves on keeps its kind.
LEMMA MoveFrame ==
  ASSUME TypeOK, NEW w \in Workers, Placed(w), pc[w] # "idle", NEW step, Move(w, step),
         step \in StepsOf(req[w].op), step # "save",
         step \in Sending \union {"insert", "target", "count", "apply"}
  PROVE  TypeOK' /\ Placed(w)' /\ Frame(w)
<1>1. TypeOK'
  BY MoveTypes DEF Sending, Answered
<1>2. pc' = [pc EXCEPT ![w] = step] /\ UNCHANGED <<msgs, online, batch, req, job>>
  BY DEF Move, Goto, stored, presence
<1> QED BY <1>1, <1>2 DEF Placed, Frame, TypeOK

\* The steps by the kind of the request, one equation per kind.
LEMMA StepsByKind ==
  /\ StepsOf("send") = Sending
  /\ \A op \in {"edit", "delete"} : StepsOf(op) = {"read", "save"}
  /\ StepsOf("add") = {"auth", "insert"}
  /\ \A op \in {"remove", "role"} : StepsOf(op) = {"auth", "target", "count", "apply"}
BY DEF StepsOf

\* A request that ends.
LEMMA EndFrame ==
  ASSUME TypeOK, NEW w \in Workers, End(w), UNCHANGED <<rows, online, batch, begun>>,
         DOMAIN msgs \subseteq DOMAIN msgs',
         msgs' \in Seq(Message), role' \in [Users -> Roles],
         raced' \in {raced, raced \union {"roles"}, raced \union {"messages"}}
  PROVE  TypeOK' /\ Placed(w)' /\ Frame(w)
<1>1. Placed(w)' /\ Frame(w)
  BY EndTypes DEF Placed, Frame
<1>2. pc' = [pc EXCEPT ![w] = "idle"] /\ req' \in [Workers -> Request \union {None}]
      /\ job' \in [Workers -> Locals]
  BY EndTypes
<1>3. raced' \subseteq {"roles", "messages"}
  BY DEF TypeOK
<1>4. TypeOK'
  BY <1>2, <1>3 DEF TypeOK, Answered
<1> QED BY <1>1, <1>4

\* A request that writes its locals and moves on.
LEMMA JobFrame ==
  ASSUME TypeOK, NEW w \in Workers, Placed(w), pc[w] # "idle",
         NEW step \in Sending, NEW j \in Locals, req[w].op = "send",
         pc' = [pc EXCEPT ![w] = step], SetJob(w, j),
         UNCHANGED <<role, online, batch, req, begun, raced>>,
         msgs' \in Seq(Message), DOMAIN msgs \subseteq DOMAIN msgs',
         rows' \in Seq(OfflineRow)
  PROVE  TypeOK' /\ Placed(w)' /\ Frame(w) /\ pc'[w] = step /\ job'[w] = j
<1>1. TypeOK'
  BY DEF TypeOK, SetJob, Sending, Answered
<1>2. pc'[w] = step /\ job'[w] = j /\ req'[w] = req[w]
  BY DEF TypeOK, SetJob
<1>3. Placed(w)'
  BY <1>2, StepsByKind DEF Placed, Sending
<1>4. Frame(w)
  BY DEF TypeOK, SetJob, Frame
<1> QED BY <1>1, <1>2, <1>3, <1>4

\* Steps of the requests about participants.
LEMMA RoleStepTypes ==
  ASSUME TypeOK, NEW w \in Workers, Placed(w),
         \/ RequireAdminOrOwner(w) \/ AddParticipant(w) \/ GetTarget(w)
         \/ EnsureNotLastOwner(w) \/ ApplyParticipant(w)
  PROVE  TypeOK' /\ Placed(w)' /\ Frame(w)
<1>1. CASE RequireAdminOrOwner(w)
  <2>1. pc[w] = "auth"
    BY <1>1 DEF RequireAdminOrOwner
  <2>2. req[w].op \in {"add", "remove", "role"}
    BY <2>1, KindAt
  <2>3. Move(w, IF req[w].op = "add" THEN "insert" ELSE "target")
    BY <1>1 DEF RequireAdminOrOwner
  <2>4. CASE req[w].op = "add"
    BY <2>1, <2>3, <2>4, StepsByKind, MoveFrame
  <2>5. CASE req[w].op # "add"
    BY <2>1, <2>2, <2>3, <2>5, StepsByKind, MoveFrame
  <2> QED BY <2>4, <2>5
<1>2. CASE AddParticipant(w)
  <2>1. pc[w] = "insert" /\ End(w) /\ UNCHANGED <<msgs, rows, online, batch, begun>>
        /\ role' = [role EXCEPT ![req[w].target] = "member"]
        /\ raced' \in {raced, raced \union {"roles"}}
    BY <1>2 DEF AddParticipant, presence, Overtakes
  <2>2. role' \in [Users -> Roles]
    BY <2>1 DEF TypeOK, Roles
  <2>3. msgs' \in Seq(Message) /\ DOMAIN msgs \subseteq DOMAIN msgs'
    BY <2>1 DEF TypeOK
  <2> QED BY <2>1, <2>2, <2>3, EndFrame
<1>3. CASE GetTarget(w)
  <2>1. pc[w] = "target"
    BY <1>3 DEF GetTarget
  <2>2. req[w].op \in {"remove", "role"}
    BY <2>1, KindAt
  <2>3. Move(w, "count") \/ Move(w, "apply")
    BY <1>3 DEF GetTarget
  <2> QED BY <2>1, <2>2, <2>3, StepsByKind, MoveFrame
<1>4. CASE EnsureNotLastOwner(w)
  <2>1. pc[w] = "count" /\ Move(w, "apply")
    BY <1>4 DEF EnsureNotLastOwner
  <2>2. req[w].op \in {"remove", "role"}
    BY <2>1, KindAt
  <2> QED BY <2>1, <2>2, StepsByKind, MoveFrame
<1>5. CASE ApplyParticipant(w)
  <2>1. pc[w] = "apply" /\ End(w) /\ UNCHANGED <<msgs, rows, online, batch, begun>>
        /\ role' = [role EXCEPT ![req[w].target] =
                      IF req[w].op = "remove" THEN "none" ELSE req[w].role]
        /\ raced' \in {raced, raced \union {"roles"}}
    BY <1>5 DEF ApplyParticipant, presence, Overtakes
  <2>2. req[w].op \in {"remove", "role"} /\ req[w] \in Request
    BY <2>1, KindAt
  <2>3. (IF req[w].op = "remove" THEN "none" ELSE req[w].role) \in Roles
    BY <2>2, RequestFields DEF Roles
  <2>4. role' \in [Users -> Roles]
    BY <2>1, <2>3 DEF TypeOK
  <2>5. msgs' \in Seq(Message) /\ DOMAIN msgs \subseteq DOMAIN msgs'
    BY <2>1 DEF TypeOK
  <2> QED BY <2>1, <2>4, <2>5, EndFrame
<1> QED BY <1>1, <1>2, <1>3, <1>4, <1>5

\* Steps of a send up to the reading of the online devices.
LEMMA SendStepTypes ==
  ASSUME TypeOK, NEW w \in Workers, Placed(w),
         \/ CheckMember(w) \/ FindEarlier(w) \/ CreateMessage(w) \/ GetParticipants(w)
         \/ AllOnlineDeviceIDs(w)
  PROVE  TypeOK' /\ Placed(w)' /\ Frame(w)
<1>0. pc[w] \in Sending /\ pc[w] # "idle"
  BY DEF CheckMember, FindEarlier, CreateMessage, GetParticipants, AllOnlineDeviceIDs, Sending
<1>1. req[w].op = "send" /\ req[w] \in Request /\ job[w] \in Locals
  BY <1>0, KindAt DEF TypeOK
<1>2. CASE CheckMember(w)
  BY <1>0, <1>1, <1>2, StepsByKind, MoveFrame DEF CheckMember, Sending
<1>3. CASE FindEarlier(w)
  <2>1. UNCHANGED <<role, msgs, rows, online, batch, req, begun, raced>>
    BY <1>3 DEF FindEarlier, stored, presence
  <2>2. CASE Goto(w, "create") /\ UNCHANGED job
    <3>1. job' = [job EXCEPT ![w] = job[w]]
      BY <2>2 DEF TypeOK
    <3> QED BY <1>0, <1>1, <2>1, <2>2, <3>1, JobFrame DEF Sending, Goto, SetJob, TypeOK
  <2>3. CASE \E m \in FindMessageByClientEventID(req[w]) :
               Goto(w, "parts") /\ SetJob(w, [job[w] EXCEPT !.msg = m])
    <3>1. PICK m \in DOMAIN msgs : Goto(w, "parts") /\ SetJob(w, [job[w] EXCEPT !.msg = m])
      BY <2>3 DEF FindMessageByClientEventID
    <3>2. m \in Nat
      BY <3>1 DEF TypeOK
    <3>3. [job[w] EXCEPT !.msg = m] \in Locals
      BY <1>1, <3>2 DEF Locals
    <3> QED BY <1>0, <1>1, <2>1, <3>1, <3>3, JobFrame DEF Sending, Goto, TypeOK
  <2> QED BY <1>3, <2>2, <2>3 DEF FindEarlier
<1>4. CASE CreateMessage(w)
  <2> DEFINE m == [sender |-> req[w].actor, cid |-> req[w].cid,
                   status |-> "active", edits |-> 0]
  <2>1. m \in Message
    BY <1>1, RequestFields DEF Message
  <2>2. msgs' = Append(msgs, m) /\ UNCHANGED <<role, rows, online, batch, req, begun, raced>>
        /\ pc' = [pc EXCEPT ![w] = "parts"] /\ SetJob(w, [job[w] EXCEPT !.msg = Len(msgs) + 1])
    BY <1>4 DEF CreateMessage, Goto, presence
  <2>3. msgs' \in Seq(Message) /\ DOMAIN msgs \subseteq DOMAIN msgs'
    BY <2>1, <2>2 DEF TypeOK
  <2>4. Len(msgs) + 1 \in Nat
    BY DEF TypeOK
  <2>5. [job[w] EXCEPT !.msg = Len(msgs) + 1] \in Locals
    BY <1>1, <2>4 DEF Locals
  <2> QED BY <1>0, <1>1, <2>2, <2>3, <2>5, JobFrame DEF Sending, TypeOK
<1>5. CASE GetParticipants(w)
  <2>1. [job[w] EXCEPT !.parts = {u \in Users : IsParticipant(u)}] \in Locals
    BY <1>1 DEF Locals
  <2>2. pc' = [pc EXCEPT ![w] = "snapshot"]
        /\ SetJob(w, [job[w] EXCEPT !.parts = {u \in Users : IsParticipant(u)}])
        /\ UNCHANGED <<role, msgs, rows, online, batch, req, begun, raced>>
    BY <1>5 DEF GetParticipants, Goto, stored, presence
  <2> QED BY <1>0, <1>1, <2>1, <2>2, JobFrame DEF Sending, TypeOK
<1>6. CASE AllOnlineDeviceIDs(w)
  <2>1. [job[w] EXCEPT !.seen = online, !.todo = Recipients(w)] \in Locals
    BY <1>1 DEF Locals, TypeOK, Recipients
  <2>2. pc' = [pc EXCEPT ![w] = "push"]
        /\ SetJob(w, [job[w] EXCEPT !.seen = online, !.todo = Recipients(w)])
        /\ UNCHANGED <<role, msgs, rows, online, batch, req, begun, raced>>
    BY <1>6 DEF AllOnlineDeviceIDs, Goto, stored, presence
  <2> QED BY <1>0, <1>1, <2>1, <2>2, JobFrame DEF Sending, TypeOK
<1> QED BY <1>2, <1>3, <1>4, <1>5, <1>6

\* Steps of a send that serve the devices of the recipients.
LEMMA ServeStepTypes ==
  ASSUME ConversationAssumption, TypeOK, NEW w \in Workers, Placed(w),
         \/ \E u \in Users : SendToUser(w, u)
         \/ ListOffline(w)
         \/ \E d \in Devices : SaveOfflineMessage(w, d)
         \/ AckSender(w)
  PROVE  TypeOK' /\ Placed(w)' /\ Frame(w)
<1>0. pc[w] \in {"push", "store"}
  BY DEF SendToUser, ListOffline, SaveOfflineMessage, AckSender
<1>1. req[w].op = "send" /\ req[w] \in Request /\ job[w] \in Locals /\ pc[w] # "idle"
  BY <1>0, KindAt DEF TypeOK, Sending
<1>2. pc = [pc EXCEPT ![w] = pc[w]] /\ pc[w] \in Sending
  BY <1>0 DEF TypeOK, Sending
<1>3. msgs \in Seq(Message) /\ rows \in Seq(OfflineRow)
  BY DEF TypeOK
<1>4. ASSUME NEW u \in Users, SendToUser(w, u) PROVE TypeOK' /\ Placed(w)' /\ Frame(w)
  <2> DEFINE live == {d \in online : UserOf[d] = u}
  <2>1. PICK taken \in SUBSET live :
          SetJob(w, [job[w] EXCEPT !.todo = @ \ {u}, !.pushed = @ \union taken,
                                   !.missed = @ \union (live \ taken)])
    BY <1>4 DEF SendToUser
  <2>2. live \subseteq Devices
    BY DEF TypeOK
  <2> HIDE DEF live
  <2>3. [job[w] EXCEPT !.todo = @ \ {u}, !.pushed = @ \union taken,
                       !.missed = @ \union (live \ taken)] \in Locals
    BY <1>1, <2>2 DEF Locals
  <2>4. UNCHANGED <<role, msgs, rows, online, batch, pc, req, begun, raced>>
    BY <1>4 DEF SendToUser, stored, presence
  <2> QED BY <1>1, <1>2, <1>3, <2>1, <2>3, <2>4, JobFrame
<1>5. CASE ListOffline(w)
  <2> DEFINE offline == {d \in Devices : UserOf[d] \in Recipients(w) /\ d \notin job[w].seen}
  <2>1. [job[w] EXCEPT !.todo = offline] \in Locals
    BY <1>1 DEF Locals
  <2>2. SetJob(w, [job[w] EXCEPT !.todo = offline]) /\ pc' = [pc EXCEPT ![w] = "store"]
        /\ UNCHANGED <<role, msgs, rows, online, batch, req, begun, raced>>
    BY <1>5 DEF ListOffline, Goto, stored, presence
  <2> QED BY <1>1, <1>3, <2>1, <2>2, JobFrame DEF Sending
<1>6. ASSUME NEW d \in Devices, SaveOfflineMessage(w, d) PROVE TypeOK' /\ Placed(w)' /\ Frame(w)
  <2>1. UNCHANGED <<role, msgs, online, batch, pc, req, begun, raced>>
    BY <1>6 DEF SaveOfflineMessage, presence
  <2>2. CASE /\ rows' = Append(rows, [dev |-> d, msg |-> job[w].msg, st |-> "waiting",
                                      acked |-> FALSE])
             /\ SetJob(w, [job[w] EXCEPT !.todo = @ \ {d}, !.stored = @ \union {d}])
    <3>1. [dev |-> d, msg |-> job[w].msg, st |-> "waiting", acked |-> FALSE] \in OfflineRow
      BY <1>1 DEF OfflineRow, Locals
    <3>2. rows' \in Seq(OfflineRow)
      BY <1>3, <2>2, <3>1
    <3>3. [job[w] EXCEPT !.todo = @ \ {d}, !.stored = @ \union {d}] \in Locals
      BY <1>1 DEF Locals
    <3> QED BY <1>1, <1>2, <1>3, <2>1, <2>2, <3>2, <3>3, JobFrame
  <2>3. CASE /\ SetJob(w, [job[w] EXCEPT !.todo = @ \ {d}, !.missed = @ \union {d}])
             /\ UNCHANGED rows
    <3>1. [job[w] EXCEPT !.todo = @ \ {d}, !.missed = @ \union {d}] \in Locals
      BY <1>1 DEF Locals
    <3> QED BY <1>1, <1>2, <1>3, <2>1, <2>3, <3>1, JobFrame
  <2> QED BY <1>6, <2>2, <2>3 DEF SaveOfflineMessage
<1>7. CASE AckSender(w)
  BY <1>0, <1>1, <1>7, StepsByKind, MoveFrame DEF AckSender, Sending
<1> QED BY <1>4, <1>5, <1>6, <1>7

\* Steps of an edit or a deletion.
LEMMA EditStepTypes ==
  ASSUME TypeOK, NEW w \in Workers, Placed(w),
         ReadMessage(w) \/ UpdateMessage(w) \/ SoftDeleteMessage(w)
  PROVE  TypeOK' /\ Placed(w)' /\ Frame(w)
<1>0. pc[w] \in {"read", "save"}
  BY DEF ReadMessage, UpdateMessage, SoftDeleteMessage
<1>1. req[w].op \in {"edit", "delete"} /\ req[w] \in Request /\ job[w] \in Locals
      /\ pc[w] # "idle" /\ msgs \in Seq(Message) /\ role \in [Users -> Roles]
      /\ \A i \in DOMAIN msgs : msgs[i] \in Message
  BY <1>0, KindAt DEF TypeOK
<1>2. CASE ReadMessage(w)
  <2>1. req[w].msg \in DOMAIN msgs /\ UNCHANGED <<role, msgs, rows, online, batch, begun, raced>>
    BY <1>2 DEF ReadMessage, stored, presence
  <2>2. CASE End(w)
    BY <1>1, <2>1, <2>2, EndFrame
  <2>3. CASE /\ SetJob(w, [job[w] EXCEPT !.row = msgs[req[w].msg]])
             /\ Goto(w, "save") /\ UNCHANGED req
    <3>1. msgs[req[w].msg] \in Message
      BY <1>1, <2>1
    <3>2. [job[w] EXCEPT !.row = msgs[req[w].msg]] \in Locals
          /\ [job[w] EXCEPT !.row = msgs[req[w].msg]].row = msgs[req[w].msg]
      BY <1>1, <3>1 DEF Locals
    <3>3. pc' = [pc EXCEPT ![w] = "save"] /\ pc'[w] = "save" /\ req'[w] = req[w]
          /\ job'[w] = [job[w] EXCEPT !.row = msgs[req[w].msg]]
      BY <2>3 DEF Goto, SetJob, TypeOK
    <3>4. TypeOK'
      BY <2>1, <2>3, <3>2, <3>3 DEF TypeOK, SetJob, Answered
    <3>5. Placed(w)'
      BY <1>1, <2>1, <3>1, <3>2, <3>3, StepsByKind DEF Placed
    <3>6. Frame(w)
      BY <2>1, <2>3 DEF Frame, SetJob, Goto, TypeOK
    <3> QED BY <3>4, <3>5, <3>6
  <2> QED BY <1>2, <2>2, <2>3 DEF ReadMessage
<1>3. CASE UpdateMessage(w)
  <2>1. pc[w] = "save" /\ End(w) /\ UNCHANGED <<role, rows, online, batch, begun>>
        /\ msgs' = [msgs EXCEPT ![req[w].msg] = [job[w].row EXCEPT !.edits = @ + 1]]
        /\ raced' \in {raced, raced \union {"messages"}}
    BY <1>3 DEF UpdateMessage, presence, Overtakes
  <2>2. job[w].row \in Message
    BY <2>1 DEF Placed
  <2>3. [job[w].row EXCEPT !.edits = @ + 1] \in Message
    BY <2>2 DEF Message
  <2>4. msgs' = [i \in DOMAIN msgs |-> msgs'[i]]
        /\ \A i \in DOMAIN msgs : msgs'[i] \in {msgs[i], [job[w].row EXCEPT !.edits = @ + 1]}
    BY <1>1, <2>1
  <2>5. \A i \in DOMAIN msgs : msgs'[i] \in Message
    BY <1>1, <2>3, <2>4, Zenon
  <2>6. msgs' \in Seq(Message) /\ DOMAIN msgs' = DOMAIN msgs
    BY <1>1, <2>4, <2>5, RowsReplaced
  <2> QED BY <1>1, <2>1, <2>6, EndFrame
<1>4. CASE SoftDeleteMessage(w)
  <2>1. pc[w] = "save" /\ End(w) /\ UNCHANGED <<role, rows, online, batch, begun>>
        /\ msgs' = [msgs EXCEPT ![req[w].msg].status = "deleted"]
        /\ raced' \in {raced, raced \union {"messages"}}
    BY <1>4 DEF SoftDeleteMessage, presence, Overtakes
  <2>2. req[w].msg \in DOMAIN msgs
    BY <2>1 DEF Placed
  <2>3. msgs[req[w].msg] \in Message
    BY <1>1, <2>2
  <2>4. [msgs[req[w].msg] EXCEPT !.status = "deleted"] \in Message
    BY <2>3 DEF Message
  <2>5. msgs' = [i \in DOMAIN msgs |-> msgs'[i]]
        /\ \A i \in DOMAIN msgs :
             msgs'[i] \in {msgs[i], [msgs[req[w].msg] EXCEPT !.status = "deleted"]}
    BY <1>1, <2>1
  <2>6. \A i \in DOMAIN msgs : msgs'[i] \in Message
    BY <1>1, <2>4, <2>5, Zenon
  <2>7. msgs' \in Seq(Message) /\ DOMAIN msgs' = DOMAIN msgs
    BY <1>1, <2>5, <2>6, RowsReplaced
  <2> QED BY <1>1, <2>1, <2>7, EndFrame
<1> QED BY <1>2, <1>3, <1>4

\* A request that is given up.
LEMMA AbortTypes ==
  ASSUME TypeOK, NEW w \in Workers, Abort(w)
  PROVE  TypeOK' /\ Placed(w)' /\ Frame(w)
BY EndFrame DEF TypeOK, Abort, stored, presence

\* The steps of devices and of the retention job leave the requests where they are.
LEMMA DeviceTypes ==
  ASSUME TypeOK,
         \/ \E d \in Devices : Connect(d) \/ Disconnect(d) \/ FetchOffline(d) \/ AckOffline(d)
         \/ CleanupExpiredOffline
  PROVE  /\ TypeOK'
         /\ UNCHANGED <<role, msgs, pc, req, begun, raced>>
         /\ \A w \in Workers : job'[w].row = job[w].row
<1>1. rows \in Seq(OfflineRow) /\ \A i \in DOMAIN rows : i \in Nat /\ rows[i] \in OfflineRow
  BY DEF TypeOK
<1>2. \A w \in Workers : job[w] \in Locals
  BY DEF TypeOK
<1>3. ASSUME NEW d \in Devices, Connect(d) \/ Disconnect(d)
      PROVE  /\ TypeOK'
             /\ UNCHANGED <<role, msgs, pc, req, begun, raced>>
             /\ \A w \in Workers : job'[w].row = job[w].row
  <2>1. UNCHANGED <<role, msgs, rows, batch, pc, req, begun, raced>>
    BY <1>3 DEF Connect, Disconnect, stored
  <2>2. \A w \in Workers : /\ [job[w] EXCEPT !.joined = @ \union {d}] \in Locals
                           /\ [job[w] EXCEPT !.joined = @ \union {d}].row = job[w].row
                           /\ [job[w] EXCEPT !.missed = @ \union {d}] \in Locals
                           /\ [job[w] EXCEPT !.missed = @ \union {d}].row = job[w].row
    BY <1>2 DEF Locals
  <2>3. \/ job' = [w \in Workers |-> IF Serves(w, d)
                     THEN [job[w] EXCEPT !.joined = @ \union {d}] ELSE job[w]]
        \/ job' = [w \in Workers |-> IF Serves(w, d)
                     THEN [job[w] EXCEPT !.missed = @ \union {d}] ELSE job[w]]
    BY <1>3 DEF Connect, Disconnect
  <2>4. job' \in [Workers -> Locals] /\ \A w \in Workers : job'[w].row = job[w].row
    BY <1>2, <2>2, <2>3
  <2>5. online' \subseteq Devices
    BY <1>3 DEF Connect, Disconnect, TypeOK
  <2> QED BY <2>1, <2>4, <2>5 DEF TypeOK
<1>4. ASSUME NEW d \in Devices, FetchOffline(d)
      PROVE  /\ TypeOK'
             /\ UNCHANGED <<role, msgs, pc, req, begun, raced>>
             /\ \A w \in Workers : job'[w].row = job[w].row
  <2>1. UNCHANGED <<role, msgs, rows, online, pc, req, job, begun, raced>>
        /\ batch' = [batch EXCEPT ![d] = GetUndeliveredMessages(d)]
    BY <1>4 DEF FetchOffline, stored
  <2>2. GetUndeliveredMessages(d) \subseteq Nat
    BY <1>1 DEF GetUndeliveredMessages
  <2> QED BY <2>1, <2>2 DEF TypeOK
<1>5. ASSUME NEW d \in Devices, AckOffline(d)
      PROVE  /\ TypeOK'
             /\ UNCHANGED <<role, msgs, pc, req, begun, raced>>
             /\ \A w \in Workers : job'[w].row = job[w].row
  <2>1. UNCHANGED <<role, msgs, online, pc, req, job, begun, raced>>
        /\ batch' = [batch EXCEPT ![d] = {}]
    BY <1>5 DEF AckOffline
  <2> DEFINE ids == {MsgId(rows[i].msg) : i \in batch[d]}
  <2>2. rows' = [i \in DOMAIN rows |->
                   [rows[i] EXCEPT !.st = MarkOfflineDelivered(i, ids),
                                   !.acked = @ \/ i \in batch[d]]]
    BY <1>5 DEF AckOffline
  <2> HIDE DEF ids
  <2>3. \A i \in DOMAIN rows : MarkOfflineDelivered(i, ids) \in {"waiting", "delivered", "gone"}
    BY <1>1 DEF MarkOfflineDelivered, OfflineRow
  <2>4. \A i \in DOMAIN rows : rows'[i] \in OfflineRow
    BY <1>1, <2>2, <2>3 DEF OfflineRow
  <2>5. rows' \in Seq(OfflineRow)
    <3>1. rows' = [i \in DOMAIN rows |-> rows'[i]]
      BY <2>2
    <3> QED BY <1>1, <2>4, <3>1, RowsReplaced
  <2> QED BY <2>1, <2>5 DEF TypeOK
<1>6. CASE CleanupExpiredOffline
  <2>1. UNCHANGED <<role, msgs, online, batch, pc, req, job, begun, raced>>
    BY <1>6 DEF CleanupExpiredOffline, presence
  <2>2. PICK n \in DOMAIN rows :
          rows' = [i \in DOMAIN rows |-> IF i <= n THEN [rows[i] EXCEPT !.st = "gone"]
                                         ELSE rows[i]]
    BY <1>6 DEF CleanupExpiredOffline
  <2>3. \A i \in DOMAIN rows : [rows[i] EXCEPT !.st = "gone"] \in OfflineRow
    BY <1>1 DEF OfflineRow
  <2>4. \A i \in DOMAIN rows : rows'[i] \in OfflineRow
    BY <1>1, <2>2, <2>3
  <2>5. rows' \in Seq(OfflineRow)
    <3>1. rows' = [i \in DOMAIN rows |-> rows'[i]]
      BY <2>2
    <3> QED BY <1>1, <2>4, <3>1, RowsReplaced
  <2> QED BY <2>1, <2>5 DEF TypeOK
<1> QED BY <1>3, <1>4, <1>5, <1>6
-----------------------------------------------------------------------------
(* Delivery. *)

\* A request that is not affected by a step keeps what it knows of the devices.
LEMMA ServedKept ==
  ASSUME NEW x \in Workers, Served(x),
         pc'[x] = pc[x], req'[x] = req[x], job'[x] = job[x], online' = online
  PROVE  Served(x)'
<1>1. Recipients(x)' = Recipients(x)
  BY DEF Recipients
<1> QED BY <1>1 DEF Served, Delivery

\* The steps of a send up to the reading of the online devices serve nobody, and
\* the push starts with every device that is online.
LEMMA SendServes ==
  ASSUME TypeOK, NEW w \in Workers, Placed(w), Served(w),
         \/ CheckMember(w) \/ FindEarlier(w) \/ CreateMessage(w) \/ GetParticipants(w)
         \/ AllOnlineDeviceIDs(w)
  PROVE  Served(w)'
<1> DEFINE before == {"member", "find", "create", "parts", "snapshot"}
<1>0. pc[w] \in before
  BY DEF CheckMember, FindEarlier, CreateMessage, GetParticipants, AllOnlineDeviceIDs
<1>1. job[w] \in Locals /\ job[w].pushed = {} /\ job[w].stored = {}
  BY <1>0 DEF TypeOK, Served, Sending
<1>2. CASE CheckMember(w) \/ FindEarlier(w) \/ CreateMessage(w) \/ GetParticipants(w)
  <2>1. pc'[w] \in before
    BY <1>2 DEF CheckMember, FindEarlier, CreateMessage, GetParticipants, Move, Goto, TypeOK
  <2>2. \/ job'[w] = job[w]
        \/ \E m \in Nat : job'[w] = [job[w] EXCEPT !.msg = m]
        \/ \E p \in SUBSET Users : job'[w] = [job[w] EXCEPT !.parts = p]
    <3>1. CASE CheckMember(w)
      BY <3>1 DEF CheckMember, Move
    <3>0. DOMAIN msgs \subseteq Nat /\ Len(msgs) + 1 \in Nat /\ job \in [Workers -> Locals]
      BY DEF TypeOK
    <3>2. CASE FindEarlier(w)
      BY <3>0, <3>2 DEF FindEarlier, FindMessageByClientEventID, SetJob
    <3>3. CASE CreateMessage(w)
      <4>1. job'[w] = [job[w] EXCEPT !.msg = Len(msgs) + 1]
        BY <3>0, <3>3 DEF CreateMessage, SetJob
      <4> QED BY <3>0, <4>1
    <3>4. CASE GetParticipants(w)
      <4>1. {u \in Users : IsParticipant(u)} \in SUBSET Users
        OBVIOUS
      <4>2. job'[w] = [job[w] EXCEPT !.parts = {u \in Users : IsParticipant(u)}]
        BY <3>4 DEF GetParticipants, SetJob, TypeOK
      <4> QED BY <4>1, <4>2
    <3> QED BY <1>2, <3>1, <3>2, <3>3, <3>4
  <2>3. job'[w].pushed = {} /\ job'[w].stored = {}
    BY <1>1, <2>2 DEF Locals
  <2> QED BY <2>1, <2>3 DEF Served, Sending
<1>3. CASE AllOnlineDeviceIDs(w)
  <2>1. /\ pc'[w] = "push" /\ online' = online /\ req' = req
        /\ job'[w] = [job[w] EXCEPT !.seen = online, !.todo = Recipients(w)]
    BY <1>3 DEF AllOnlineDeviceIDs, SetJob, Goto, TypeOK, presence
  <2>2. /\ job'[w].seen = online /\ job'[w].todo = Recipients(w)
        /\ job'[w].pushed = {} /\ job'[w].stored = {} /\ job'[w].parts = job[w].parts
    BY <1>1, <2>1 DEF Locals
  <2>3. Recipients(w)' = Recipients(w)
    BY <2>1, <2>2 DEF Recipients
  <2> QED BY <2>1, <2>2, <2>3 DEF Served, Delivery, Sending
<1> QED BY <1>2, <1>3

\* A push serves or misses every device of the user that is online.
LEMMA PushServes ==
  ASSUME ConversationAssumption, TypeOK, NEW w \in Workers, Placed(w), Served(w),
         NEW u \in Users, SendToUser(w, u)
  PROVE  Served(w)'
<1> DEFINE live == {d \in online : UserOf[d] = u}
<1>1. PICK taken \in SUBSET live :
        SetJob(w, [job[w] EXCEPT !.todo = @ \ {u}, !.pushed = @ \union taken,
                                 !.missed = @ \union (live \ taken)])
  BY DEF SendToUser
<1>2. /\ pc[w] = "push" /\ pc'[w] = "push" /\ online' = online /\ req' = req
      /\ job[w] \in Locals
      /\ job'[w] = [job[w] EXCEPT !.todo = @ \ {u}, !.pushed = @ \union taken,
                                  !.missed = @ \union (live \ taken)]
  BY <1>1 DEF SendToUser, SetJob, TypeOK, presence
<1>3. live = {d \in online : UserOf[d] = u}
  OBVIOUS
<1> HIDE DEF live
<1>4. /\ job'[w].seen = job[w].seen /\ job'[w].stored = job[w].stored
      /\ job'[w].joined = job[w].joined /\ job'[w].parts = job[w].parts
      /\ job'[w].todo = job[w].todo \ {u}
      /\ job'[w].pushed = job[w].pushed \union taken
      /\ job'[w].missed = job[w].missed \union (live \ taken)
  BY <1>2 DEF Locals
<1>5. Recipients(w)' = Recipients(w)
  BY <1>2, <1>4 DEF Recipients
<1>6. ASSUME NEW d \in Devices, UserOf[d] \in Recipients(w) PROVE Delivery(w, d)'
  <2>1. Delivery(w, d)
    BY <1>2, <1>6 DEF Served
  <2>2. d \in live <=> d \in online /\ UserOf[d] = u
    BY <1>3
  <2> QED BY <1>2, <1>4, <2>1, <2>2 DEF Delivery
<1> QED BY <1>2, <1>4, <1>5, <1>6 DEF Served, Sending

\* Offline rows are listed for exactly the devices that were not online.
LEMMA ListServes ==
  ASSUME ConversationAssumption, TypeOK, NEW w \in Workers, Placed(w), Served(w),
         ListOffline(w)
  PROVE  Served(w)'
<1> DEFINE offline == {d \in Devices : UserOf[d] \in Recipients(w) /\ d \notin job[w].seen}
<1>1. /\ pc[w] = "push" /\ job[w].todo = {} /\ pc'[w] = "store"
      /\ online' = online /\ req' = req /\ job[w] \in Locals
      /\ job'[w] = [job[w] EXCEPT !.todo = offline]
  BY DEF ListOffline, Goto, SetJob, TypeOK, presence
<1>2. /\ job'[w].seen = job[w].seen /\ job'[w].stored = job[w].stored
      /\ job'[w].joined = job[w].joined /\ job'[w].parts = job[w].parts
      /\ job'[w].todo = offline
      /\ job'[w].pushed = job[w].pushed /\ job'[w].missed = job[w].missed
  BY <1>1 DEF Locals
<1>3. Recipients(w)' = Recipients(w)
  BY <1>1, <1>2 DEF Recipients
<1>4. ASSUME NEW d \in Devices, UserOf[d] \in Recipients(w) PROVE Delivery(w, d)'
  <2>1. Delivery(w, d) /\ job[w].stored = {}
    BY <1>1, <1>4 DEF Served
  <2>2. d \in offline <=> d \notin job[w].seen
    BY <1>4
  <2> HIDE DEF offline
  <2> QED BY <1>1, <1>2, <2>1, <2>2 DEF Delivery
<1> QED BY <1>1, <1>2, <1>3, <1>4 DEF Served, Sending

\* A row is written for a device of the list, or the device is missed.
LEMMA StoreServes ==
  ASSUME ConversationAssumption, TypeOK, NEW w \in Workers, Placed(w), Served(w),
         NEW e \in Devices, SaveOfflineMessage(w, e)
  PROVE  Served(w)'
<1>1. /\ pc[w] = "store" /\ pc'[w] = "store" /\ e \in job[w].todo
      /\ online' = online /\ req' = req /\ job[w] \in Locals
      /\ \/ job'[w] = [job[w] EXCEPT !.todo = @ \ {e}, !.stored = @ \union {e}]
         \/ job'[w] = [job[w] EXCEPT !.todo = @ \ {e}, !.missed = @ \union {e}]
  BY DEF SaveOfflineMessage, SetJob, TypeOK, presence
<1>2. /\ job'[w].seen = job[w].seen /\ job'[w].joined = job[w].joined
      /\ job'[w].parts = job[w].parts /\ job'[w].pushed = job[w].pushed
      /\ job'[w].todo = job[w].todo \ {e}
      /\ \/ /\ job'[w].stored = job[w].stored \union {e}
            /\ job'[w].missed = job[w].missed
         \/ /\ job'[w].stored = job[w].stored
            /\ job'[w].missed = job[w].missed \union {e}
  BY <1>1 DEF Locals
<1>3. Recipients(w)' = Recipients(w)
  BY <1>1, <1>2 DEF Recipients
<1>4. ASSUME NEW d \in Devices, UserOf[d] \in Recipients(w) PROVE Delivery(w, d)'
  <2>1. Delivery(w, d)
    BY <1>1, <1>4 DEF Served
  <2> QED BY <1>1, <1>2, <2>1 DEF Delivery
<1> QED BY <1>1, <1>2, <1>3, <1>4 DEF Served, Sending

\* The sender is answered when the list is empty.
LEMMA AckServes ==
  ASSUME TypeOK, NEW w \in Workers, Served(w), AckSender(w)
  PROVE  Served(w)'
<1>1. /\ pc[w] = "store" /\ job[w].todo = {} /\ pc'[w] = "sent"
      /\ online' = online /\ req' = req /\ job' = job
  BY DEF AckSender, Move, Goto, TypeOK, presence
<1>2. Recipients(w)' = Recipients(w)
  BY <1>1 DEF Recipients
<1> QED BY <1>1, <1>2 DEF Served, Delivery, Sending

\* A device that connects or leaves is noted by every delivery that serves it.
LEMMA PresenceServes ==
  ASSUME ConversationAssumption, TypeOK, NEW w \in Workers, Served(w),
         NEW e \in Devices, Connect(e) \/ Disconnect(e)
  PROVE  Served(w)'
<1>1. /\ pc' = pc /\ req' = req /\ job[w] \in Locals
      /\ \/ online' = online \union {e} /\ job'[w] = IF Serves(w, e)
              THEN [job[w] EXCEPT !.joined = @ \union {e}] ELSE job[w]
         \/ online' = online \ {e} /\ job'[w] = IF Serves(w, e)
              THEN [job[w] EXCEPT !.missed = @ \union {e}] ELSE job[w]
  BY DEF Connect, Disconnect, TypeOK
<1>2. /\ job'[w].seen = job[w].seen /\ job'[w].parts = job[w].parts
      /\ job'[w].pushed = job[w].pushed /\ job'[w].todo = job[w].todo
      /\ job'[w].stored = job[w].stored
      /\ job[w].joined \subseteq job'[w].joined /\ job[w].missed \subseteq job'[w].missed
      /\ Serves(w, e) /\ online' = online \union {e} => e \in job'[w].joined
      /\ Serves(w, e) /\ online' # online \union {e} => e \in job'[w].missed
  BY <1>1 DEF Locals
<1>3. Recipients(w)' = Recipients(w)
  BY <1>1, <1>2 DEF Recipients
<1>4. ASSUME NEW d \in Devices, UserOf[d] \in Recipients(w), pc[w] \in {"push", "store", "sent"}
      PROVE Delivery(w, d)'
  <2>1. Delivery(w, d)
    BY <1>4 DEF Served
  <2>2. d = e /\ pc[w] \in {"push", "store"} => Serves(w, e)
    BY <1>4 DEF Serves, Delivering
  <2>3. online' = online \union {e} \/ (online' = online \ {e} /\ (Serves(w, e) => e \in job'[w].missed))
    BY <1>1, <1>2 DEF Locals
  <2> QED BY <1>1, <1>2, <2>1, <2>2, <2>3 DEF Delivery
<1> QED BY <1>1, <1>2, <1>3, <1>4 DEF Served, Sending
-----------------------------------------------------------------------------
(* Roles. *)

\* A step that writes no role and marks no race keeps what others have read.
LEMMA CountedKept ==
  ASSUME NEW x \in Workers, Counted(x),
         pc'[x] = pc[x], req'[x] = req[x], role' = role, raced \subseteq raced'
  PROVE  Counted(x)'
<1>1. Owners' = Owners
  BY DEF Owners
<1> QED BY <1>1 DEF Counted

\* A step to a place where nothing has been counted.
LEMMA NothingCounted ==
  ASSUME NEW x \in Workers, pc'[x] \notin {"count", "apply"}
  PROVE  Counted(x)'
BY DEF Counted

\* A write of a role is noted when it overtakes a request that has read the roles.
LEMMA WriteCounted ==
  ASSUME TypeOK, NEW w \in Workers, NEW x \in Workers,
         AddParticipant(w) \/ ApplyParticipant(w)
  PROVE  Counted(x)'
<1>1. End(w) /\ Overtakes(w, "roles", {"count", "apply"})
  BY DEF AddParticipant, ApplyParticipant
<1>2. CASE x = w
  BY <1>1, <1>2, EndTypes, NothingCounted
<1>3. CASE x # w /\ pc[x] \in {"count", "apply"}
  <2>1. raced' = raced \union {"roles"}
    BY <1>1, <1>3 DEF Overtakes
  <2> QED BY <2>1 DEF Counted
<1>4. CASE x # w /\ pc[x] \notin {"count", "apply"}
  <2>1. pc'[x] = pc[x]
    BY <1>1, <1>4, EndTypes
  <2> QED BY <1>4, <2>1, NothingCounted
<1> QED BY <1>2, <1>3, <1>4

\* The steps of a change of roles count what they act on.
LEMMA StepCounted ==
  ASSUME TypeOK, NEW w \in Workers, Placed(w), Counted(w),
         RequireAdminOrOwner(w) \/ GetTarget(w) \/ EnsureNotLastOwner(w)
  PROVE  Counted(w)' /\ role' = role /\ raced' = raced
<1>1. CASE RequireAdminOrOwner(w)
  <2>1. pc'[w] \in {"insert", "target"} /\ role' = role /\ raced' = raced
    BY <1>1 DEF RequireAdminOrOwner, Move, Goto, TypeOK, stored
  <2> QED BY <2>1, NothingCounted
<1>2. CASE GetTarget(w)
  <2>1. /\ role[req[w].target] # "none" /\ UNCHANGED <<role, raced, req>>
        /\ pc'[w] = IF role[req[w].target] = "owner" /\ TakesOwner(req[w]) THEN "count"
                    ELSE "apply"
    BY <1>2 DEF GetTarget, IsParticipant, Move, Goto, TypeOK, stored
  <2>2. TakesOwner(req[w])' = TakesOwner(req[w])
    BY <2>1 DEF TakesOwner
  <2> QED BY <2>1, <2>2 DEF Counted
<1>3. CASE EnsureNotLastOwner(w)
  <2>1. /\ pc[w] = "count" /\ pc'[w] = "apply" /\ UNCHANGED <<role, raced, req>>
        /\ Cardinality(Owners) > 1 \/ role[req[w].target] \notin {"owner", "none"}
    BY <1>3 DEF EnsureNotLastOwner, Owners, Move, Goto, TypeOK, stored
  <2>2. Owners' = Owners
    BY <2>1 DEF Owners
  <2> QED BY <2>1, <2>2 DEF Counted
<1> QED BY <1>1, <1>2, <1>3
-----------------------------------------------------------------------------
(* The invariant. *)

LEMMA InitInv == Init => IInv
<1> SUFFICES ASSUME Init PROVE IInv
  OBVIOUS
<1>1. TypeOK
  <2>1. <<>> \in Seq(Message) /\ <<>> \in Seq(OfflineRow)
    OBVIOUS
  <2> QED BY <2>1, BlankLocals DEF Init, TypeOK, Roles, Answered
<1>2. \A w \in Workers : pc[w] = "idle"
  BY DEF Init
<1> QED BY <1>1, <1>2 DEF IInv, Placed, Served, Counted, Sending

\* A step of request w, from what it does to w and to the others.
LEMMA FrameInv ==
  ASSUME IInv, NEW w \in Workers, TypeOK', Placed(w)', Frame(w), Served(w)', Counted(w)',
         role' = role /\ raced \subseteq raced'
  PROVE  IInv'
<1>1. ASSUME NEW x \in Workers \ {w} PROVE Placed(x)' /\ Served(x)' /\ Counted(x)'
  <2>1. pc'[x] = pc[x] /\ req'[x] = req[x] /\ job'[x] = job[x] /\ online' = online
        /\ DOMAIN msgs \subseteq DOMAIN msgs'
    BY DEF Frame
  <2>2. Placed(x) /\ Served(x) /\ Counted(x)
    BY DEF IInv
  <2>3. Placed(x)'
    BY <2>1, <2>2 DEF Placed
  <2> QED BY <2>1, <2>2, <2>3, ServedKept, CountedKept
<1> QED BY <1>1 DEF IInv

\* The same for a write of roles.
LEMMA WriteInv ==
  ASSUME IInv, NEW w \in Workers, AddParticipant(w) \/ ApplyParticipant(w)
  PROVE  IInv'
<1>0. TypeOK /\ Placed(w)
  BY DEF IInv
<1>1. TypeOK' /\ Placed(w)' /\ Frame(w)
  BY <1>0, RoleStepTypes
<1>2. End(w)
  BY DEF AddParticipant, ApplyParticipant
<1>3. Served(w)'
  <2>1. pc'[w] = "idle"
    BY <1>0, <1>2, EndTypes
  <2> QED BY <2>1 DEF Served, Sending
<1>4. ASSUME NEW x \in Workers \ {w} PROVE Placed(x)' /\ Served(x)'
  <2>1. pc'[x] = pc[x] /\ req'[x] = req[x] /\ job'[x] = job[x] /\ online' = online
        /\ DOMAIN msgs \subseteq DOMAIN msgs'
    BY <1>1 DEF Frame
  <2>2. Placed(x) /\ Served(x)
    BY DEF IInv
  <2>3. Placed(x)'
    BY <2>1, <2>2 DEF Placed
  <2> QED BY <2>1, <2>2, <2>3, ServedKept
<1>5. \A x \in Workers : Counted(x)'
  BY <1>0, WriteCounted
<1> QED BY <1>1, <1>3, <1>4, <1>5 DEF IInv

\* Every step of a request keeps the invariant.
LEMMA RequestInv ==
  ASSUME ConversationAssumption, IInv, NEW w \in Workers, Step(w)
  PROVE  IInv'
<1>0. TypeOK /\ Placed(w) /\ Served(w) /\ Counted(w)
  BY DEF IInv
<1>1. CASE RequireAdminOrOwner(w) \/ GetTarget(w) \/ EnsureNotLastOwner(w)
  <2>1. TypeOK' /\ Placed(w)' /\ Frame(w)
    BY <1>0, <1>1, RoleStepTypes
  <2>2. Counted(w)' /\ role' = role /\ raced' = raced
    BY <1>0, <1>1, StepCounted
  <2>3. pc'[w] \in {"insert", "target", "count", "apply"}
    BY <1>0, <1>1 DEF RequireAdminOrOwner, GetTarget, EnsureNotLastOwner, Move, Goto, TypeOK
  <2>4. Served(w)'
    BY <2>3 DEF Served, Sending
  <2> QED BY <2>1, <2>2, <2>4, FrameInv
<1>2. CASE AddParticipant(w) \/ ApplyParticipant(w)
  BY <1>2, WriteInv
<1>3. CASE \/ CheckMember(w) \/ FindEarlier(w) \/ CreateMessage(w) \/ GetParticipants(w)
           \/ AllOnlineDeviceIDs(w)
  <2>1. TypeOK' /\ Placed(w)' /\ Frame(w)
    BY <1>0, <1>3, SendStepTypes
  <2>2. Served(w)'
    BY <1>0, <1>3, SendServes
  <2>3. role' = role /\ raced' = raced
    BY <1>3 DEF CheckMember, FindEarlier, CreateMessage, GetParticipants,
                AllOnlineDeviceIDs, Move, stored
  <2>4. pc'[w] \in {"find", "create", "parts", "snapshot", "push"}
    BY <1>0, <1>3 DEF CheckMember, FindEarlier, CreateMessage, GetParticipants,
                AllOnlineDeviceIDs, Move, Goto, TypeOK
  <2>5. Counted(w)'
    BY <2>4, NothingCounted
  <2> QED BY <2>1, <2>2, <2>3, <2>5, FrameInv
<1>4. CASE \/ \E u \in Users : SendToUser(w, u)
           \/ ListOffline(w)
           \/ \E d \in Devices : SaveOfflineMessage(w, d)
           \/ AckSender(w)
  <2>1. TypeOK' /\ Placed(w)' /\ Frame(w)
    BY <1>0, <1>4, ServeStepTypes
  <2>2. Served(w)'
    BY <1>0, <1>4, PushServes, ListServes, StoreServes, AckServes
  <2>3. role' = role /\ raced' = raced
    BY <1>4 DEF SendToUser, ListOffline, SaveOfflineMessage, AckSender, Move, stored
  <2>4. pc'[w] \in {"push", "store", "sent"}
    BY <1>0, <1>4 DEF SendToUser, ListOffline, SaveOfflineMessage, AckSender, Move, Goto, TypeOK
  <2>5. Counted(w)'
    BY <2>4, NothingCounted
  <2> QED BY <2>1, <2>2, <2>3, <2>5, FrameInv
<1>5. CASE ReadMessage(w) \/ UpdateMessage(w) \/ SoftDeleteMessage(w)
  <2>1. TypeOK' /\ Placed(w)' /\ Frame(w)
    BY <1>0, <1>5, EditStepTypes
  <2>2. role' = role /\ raced \subseteq raced'
    BY <1>5 DEF ReadMessage, UpdateMessage, SoftDeleteMessage, Overtakes, stored
  <2>3. pc'[w] \in {"idle", "save"}
    BY <1>0, <1>5 DEF ReadMessage, UpdateMessage, SoftDeleteMessage, End, Goto, TypeOK
  <2>4. Served(w)' /\ Counted(w)'
    BY <2>3, NothingCounted DEF Served, Sending
  <2> QED BY <2>1, <2>2, <2>4, FrameInv
<1> QED BY <1>1, <1>2, <1>3, <1>4, <1>5 DEF Step

\* So do the beginning of a request, its abortion, and the steps of the devices.
LEMMA OtherInv ==
  ASSUME ConversationAssumption, IInv,
         \/ \E w \in Workers : (\E r \in Request : Begin(w, r)) \/ Abort(w)
         \/ \E d \in Devices : Connect(d) \/ Disconnect(d) \/ FetchOffline(d) \/ AckOffline(d)
         \/ CleanupExpiredOffline
  PROVE  IInv'
<1>0. TypeOK
  BY DEF IInv
<1>1. ASSUME NEW w \in Workers, NEW r \in Request, Begin(w, r) PROVE IInv'
  <2>1. /\ TypeOK' /\ pc'[w] \in {"member", "read", "target", "auth"}
        /\ pc'[w] \in StepsOf(r.op) /\ req'[w] = r /\ job'[w] = Blank
        /\ \A x \in Workers \ {w} : pc'[x] = pc[x] /\ req'[x] = req[x] /\ job'[x] = job[x]
    BY <1>0, <1>1, BeginTypes
  <2>2. UNCHANGED <<role, msgs, online, batch, raced>>
    BY <1>1, Zenon DEF Begin, stored, presence
  <2>3. Placed(w)' /\ Frame(w)
    BY <2>1, <2>2 DEF Placed, Frame
  <2>4. Served(w)'
    BY <2>1 DEF Served, Sending, Blank
  <2>5. Counted(w)'
    BY <2>1, NothingCounted
  <2> QED BY <2>1, <2>2, <2>3, <2>4, <2>5, FrameInv
<1>2. ASSUME NEW w \in Workers, Abort(w) PROVE IInv'
  <2>1. TypeOK' /\ Placed(w)' /\ Frame(w)
    BY <1>0, <1>2, AbortTypes
  <2>2. pc'[w] = "idle" /\ role' = role /\ raced' = raced
    BY <1>0, <1>2 DEF Abort, End, Goto, TypeOK, stored
  <2>3. Served(w)' /\ Counted(w)'
    BY <2>2, NothingCounted DEF Served, Sending
  <2> QED BY <2>1, <2>2, <2>3, FrameInv
<1>3. CASE \/ \E d \in Devices : Connect(d) \/ Disconnect(d) \/ FetchOffline(d) \/ AckOffline(d)
           \/ CleanupExpiredOffline
  <2>1. /\ TypeOK' /\ UNCHANGED <<role, msgs, pc, req, begun, raced>>
        /\ \A w \in Workers : job'[w].row = job[w].row
    BY <1>0, <1>3, DeviceTypes
  <2>2. ASSUME NEW w \in Workers PROVE Placed(w)' /\ Counted(w)' /\ Served(w)'
    <3>1. Placed(w) /\ Counted(w) /\ Served(w)
      BY DEF IInv
    <3>2. Placed(w)'
      BY <2>1, <3>1 DEF Placed
    <3>3. Counted(w)'
      BY <2>1, <3>1, CountedKept
    <3>4. CASE \E d \in Devices : Connect(d) \/ Disconnect(d)
      BY <1>0, <3>1, <3>2, <3>3, <3>4, PresenceServes
    <3>5. CASE (\E d \in Devices : FetchOffline(d) \/ AckOffline(d)) \/ CleanupExpiredOffline
      <4>1. online' = online /\ job' = job
        BY <3>5 DEF FetchOffline, AckOffline, CleanupExpiredOffline, presence
      <4> QED BY <2>1, <3>1, <3>2, <3>3, <4>1, ServedKept
    <3> QED BY <1>3, <3>4, <3>5
  <2> QED BY <2>1, <2>2 DEF IInv
<1> QED BY <1>1, <1>2, <1>3

LEMMA StepInv == ASSUME IInv, [Next]_vars PROVE IInv'
<1>1. CASE Next
  BY <1>1, RequestInv, OtherInv, ConversationAssumption DEF Next
<1>2. CASE UNCHANGED vars
  <2>1. UNCHANGED <<role, msgs, rows, online, batch, pc, req, job, begun, raced>>
    BY <1>2 DEF vars
  <2>2. TypeOK'
    BY <2>1 DEF IInv, TypeOK
  <2>3. ASSUME NEW w \in Workers PROVE Placed(w)' /\ Served(w)' /\ Counted(w)'
    <3>1. Placed(w) /\ Served(w) /\ Counted(w)
      BY DEF IInv
    <3>2. Placed(w)'
      BY <2>1, <3>1 DEF Placed
    <3> QED BY <2>1, <3>1, <3>2, ServedKept, CountedKept
  <2> QED BY <2>2, <2>3 DEF IInv
<1> QED BY <1>1, <1>2

\* The invariant holds in every state of the conversation.
THEOREM InvHolds == Spec => []IInv
BY InitInv, StepInv, PTL DEF Spec

\* Every variable keeps its type, the locals of the requests included.
THEOREM TypeCorrect == Spec => []TypeOK
<1>1. IInv => TypeOK
  BY DEF IInv
<1> QED BY <1>1, InvHolds, PTL

\* MessageService.deliverMessage: once the sender is answered every device of a
\* recipient was served on its connection or by an offline row or was missed after
\* the online devices were read, and was served twice only if it connected meanwhile.
THEOREM DevicesServed == Spec => []ServedOnce
<1>1. IInv => ServedOnce
  <2> SUFFICES ASSUME IInv, NEW w \in Workers, pc[w] = "sent",
                      NEW d \in Devices, UserOf[d] \in Recipients(w)
               PROVE  /\ d \in job[w].pushed \union job[w].stored \union job[w].missed
                      /\ d \in job[w].pushed \intersect job[w].stored => d \in job[w].joined
    BY DEF ServedOnce
  <2>1. Delivery(w, d)
    BY DEF IInv, Served
  <2> QED BY <2>1 DEF Delivery
<1> QED BY <1>1, InvHolds, PTL

\* The roles that one step changes, while no request was overtaken.
LEMMA RoleStep ==
  ASSUME IInv, Next, raced = {}
  PROVE  /\ Owners # {} => Owners' # {}
         /\ \A u \in Users : role[u] = "none" /\ role'[u] # "none" =>
              \E w \in Workers : pc[w] = "insert" /\ req[w].target = u
<1>0. role \in [Users -> Roles]
  BY DEF IInv, TypeOK
<1>1. CASE role' = role
  BY <1>1 DEF Owners
<1>2. ASSUME NEW w \in Workers, AddParticipant(w)
      PROVE  /\ Owners # {} => Owners' # {}
             /\ \A u \in Users : role[u] = "none" /\ role'[u] # "none" =>
                  \E x \in Workers : pc[x] = "insert" /\ req[x].target = u
  <2>1. /\ pc[w] = "insert" /\ role[req[w].target] = "none"
        /\ role' = [role EXCEPT ![req[w].target] = "member"]
    BY <1>2 DEF AddParticipant, IsParticipant
  <2>2. Owners \subseteq Owners'
    BY <1>0, <2>1 DEF Owners
  <2>3. \A u \in Users : u # req[w].target => role'[u] = role[u]
    BY <1>0, <2>1
  <2> QED BY <2>1, <2>2, <2>3
<1>3. ASSUME NEW w \in Workers, ApplyParticipant(w)
      PROVE  /\ Owners # {} => Owners' # {}
             /\ \A u \in Users : role[u] = "none" /\ role'[u] # "none" =>
                  \E x \in Workers : pc[x] = "insert" /\ req[x].target = u
  <2> DEFINE t == req[w].target
  <2>1. /\ pc[w] = "apply"
        /\ role' = [role EXCEPT ![t] = IF req[w].op = "remove" THEN "none" ELSE req[w].role]
    BY <1>3 DEF ApplyParticipant
  <2>2. Placed(w) /\ Counted(w)
    BY DEF IInv
  <2>3. t \in Users /\ role[t] # "none"
    BY <2>1, <2>2, KindAt, RequestFields DEF Counted
  <2>4. role[t] = "owner" /\ TakesOwner(req[w]) => \E o \in Owners : o # t
    <3> SUFFICES ASSUME role[t] = "owner", TakesOwner(req[w]) PROVE \E o \in Owners : o # t
      OBVIOUS
    <3>1. Cardinality(Owners) > 1
      BY <2>1, <2>2 DEF Counted
    <3>2. Owners # {t}
      <4>1. Cardinality({t}) = 1
        BY FS_Singleton
      <4> QED BY <3>1, <4>1
    <3>3. t \in Owners
      BY <2>3 DEF Owners
    <3> QED BY <3>2, <3>3
  <2>5. \A u \in Users : u # t => role'[u] = role[u]
    BY <1>0, <2>1
  <2>6. Owners # {} => Owners' # {}
    <3> SUFFICES ASSUME NEW o \in Owners PROVE Owners' # {}
      OBVIOUS
    <3>1. CASE \E p \in Owners : p # t
      BY <2>5, <3>1 DEF Owners
    <3>2. CASE \A p \in Owners : p = t
      <4>1. role[t] = "owner"
        BY <3>2 DEF Owners
      <4>2. ~ TakesOwner(req[w])
        BY <2>4, <3>2, <4>1
      <4>3. role'[t] = "owner"
        BY <1>0, <2>1, <2>3, <4>2 DEF TakesOwner
      <4> QED BY <2>3, <4>3 DEF Owners
    <3> QED BY <3>1, <3>2
  <2> QED BY <2>3, <2>5, <2>6
<1>4. (\A w \in Workers : ~ AddParticipant(w) /\ ~ ApplyParticipant(w)) => role' = role
  <2>1. ASSUME NEW w \in Workers, NEW r \in Request, Begin(w, r) PROVE role' = role
    BY <2>1, Zenon DEF Begin, stored
  <2>2. ASSUME NEW w \in Workers, Step(w), ~ AddParticipant(w), ~ ApplyParticipant(w)
        PROVE  role' = role
    BY <2>2 DEF Step, RequireAdminOrOwner, GetTarget, EnsureNotLastOwner, CheckMember,
         FindEarlier, CreateMessage, GetParticipants, AllOnlineDeviceIDs, ListOffline,
         AckSender, SendToUser, SaveOfflineMessage, ReadMessage, UpdateMessage,
         SoftDeleteMessage, Move, stored
  <2>3. ASSUME \/ \E w \in Workers : Abort(w)
               \/ \E d \in Devices : Connect(d) \/ Disconnect(d) \/ FetchOffline(d) \/ AckOffline(d)
               \/ CleanupExpiredOffline
        PROVE  role' = role
    BY <2>3 DEF Abort, Connect, Disconnect, FetchOffline, AckOffline, CleanupExpiredOffline, stored
  <2> QED BY <2>1, <2>2, <2>3 DEF Next
<1> QED BY <1>1, <1>2, <1>3, <1>4

\* ConversationService.ensureNotLastOwner: as long as no request overtakes another, a
\* conversation that has an owner keeps one, and nobody who was removed comes back
\* except through AddParticipant.
THEOREM OwnerStays == Spec => LastOwnerKept
<1> DEFINE A == raced = {} =>
       /\ Owners # {} => Owners' # {}
       /\ \A u \in Users : role[u] = "none" /\ role'[u] # "none" =>
            \E w \in Workers : pc[w] = "insert" /\ req[w].target = u
<1>1. IInv /\ [Next]_vars => [A]_role
  <2>1. ASSUME UNCHANGED vars PROVE UNCHANGED role
    BY <2>1 DEF vars
  <2> QED BY <2>1, RoleStep
<1>2. Spec => [][A]_role
  BY <1>1, InvHolds, PTL DEF Spec
<1> QED BY <1>2 DEF LastOwnerKept
=============================================================================
