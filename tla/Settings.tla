------------------------------- MODULE Settings -------------------------------
(***************************************************************************)
(* What the user's devices share by the sync log alone: contacts, server   *)
(* connections, skill settings and agent settings.                         *)
(*                                                                         *)
(* A contact is written and its event recorded in one transaction, which   *)
(* is one step.  The others write the row, perhaps read it back, and then  *)
(* record the event on its own; RecordEnvelope answers a client_event_id   *)
(* that it knows with the event there is.  There is one contact, one       *)
(* server, one skill and one agent; values stand for all their fields.     *)
(***************************************************************************)
EXTENDS Requests

CONSTANTS
  Values,        \* what a row may hold
  EventIds,      \* client_event_ids
  MaxVersion     \* bound on the version of the contact

VARIABLES
  contact,       \* contacts: status and version
  server,        \* user_server_connections: id and value
  serverIds,     \* ids given to connections so far
  setting        \* user_skill_settings and user_agent_settings: a value each

setVars == <<contact, server, serverIds, setting>>

Contact == <<"contact">>
Server  == <<"server">>
Tables  == {"skill-setting", "agent-setting"}

\* A server may be connected already.
SetInit(start) ==
  /\ contact = None
  /\ serverIds = start.server
  /\ server = IF start.server = 0 THEN None ELSE [id |-> 1, value |-> CHOOSE v \in Values : TRUE]
  /\ setting = [t \in Tables |-> None]

\* The row of the feed, as it is in its table.
SettingRow(row) == CASE row = Contact -> contact
                     [] row = Server  -> IF server = None THEN None ELSE server.value
                     [] OTHER         -> setting[row[1]]

Ids == EventIds \union {None}
-----------------------------------------------------------------------------
(* Contacts. *)

\* A repeated client_event_id is answered with its event, or refused as a conflict
\* when that was another change; else the request goes on to a step.
IdempotentContactReplay(w, r, row, step) == Known(r.id) = {} /\ BeginRead(w, r, row, step)

BeginCreateContact(w) ==
  /\ \E id \in Ids :
       IdempotentContactReplay(w, [Request EXCEPT !.op = "contact", !.id = id, !.row = Contact],
                               None, "create-contact")
  /\ UNCHANGED <<setVars, notice>>

\* The row is read before the transaction, and must be active; a base version that
\* the request names must be its version.
BeginChangeContact(w) ==
  /\ contact # None /\ contact.status = "active"
  /\ \E id \in Ids, op \in {"update-contact", "delete-contact"} :
       IdempotentContactReplay(w, [Request EXCEPT !.op = op, !.id = id, !.row = Contact],
                               contact, op)
  /\ UNCHANGED <<setVars, notice>>

\* The event says what the row is after the write, in the same transaction.  If its
\* client_event_id was recorded meanwhile, the write stays without an event of its
\* own, or is undone when that was another change.
CommitContact(w, row) ==
  /\ IF \E e \in Known(req[w].id) : e.op # req[w].op \/ e.row # Contact
       THEN UNCHANGED <<contact, notice>>
       ELSE contact' = row /\ Tell(w, row, FALSE)
  /\ Answer(w)
  /\ UNCHANGED <<server, serverIds, setting>>

\* contact_id is unique, and a deleted contact keeps its row.
CreateContact(w) ==
  /\ pc[w] = "create-contact"
  /\ IF contact # None THEN Answer(w) /\ UNCHANGED <<setVars, notice>>
     ELSE CommitContact(w, [status |-> "active", version |-> 1])

\* Only an active row is updated, and to update none is no error.
UpdateContact(w) ==
  /\ pc[w] = "update-contact" /\ contact.version < MaxVersion
  /\ CommitContact(w, IF contact.status = "active"
                        THEN [contact EXCEPT !.version = @ + 1] ELSE contact)

\* To delete none is an error, and nothing is recorded.
DeleteContact(w) ==
  /\ pc[w] = "delete-contact" /\ contact.version < MaxVersion
  /\ IF contact.status = "active"
       THEN CommitContact(w, [status |-> "deleted", version |-> contact.version + 1])
       ELSE Answer(w) /\ UNCHANGED <<setVars, notice>>
-----------------------------------------------------------------------------
(* Server connections. *)

BeginAddServer(w) ==
  /\ \E id \in Ids, v \in Values :
       /\ server # None => id # None
       /\ BeginRead(w, [Request EXCEPT !.op = "server", !.id = id, !.word = v, !.row = Server],
                    IF server = None THEN None ELSE server.value,
                    IF server = None THEN "add" ELSE "announce")
  /\ UNCHANGED <<setVars, notice>>

\* One connection to a server: the second of two concurrent ones fails.
AddServer(w) ==
  /\ pc[w] = "add"
  /\ IF server # None THEN Answer(w) /\ UNCHANGED <<server, serverIds>>
     ELSE /\ serverIds' = serverIds + 1
          /\ server' = [id |-> serverIds', value |-> req[w].word]
          /\ Keep(w, req[w].word, "announce")
  /\ UNCHANGED <<contact, setting, notice>>

BeginUpdateServer(w) ==
  /\ server # None
  /\ \E id \in Ids, v \in Values :
       BeginRead(w, [Request EXCEPT !.op = "update-server", !.id = id, !.word = v,
                                    !.n = server.id, !.row = Server], None, "update-server")
  /\ UNCHANGED <<setVars, notice>>

\* Save writes the row back, and inserts it again when it has been deleted; unless
\* there is another connection to the server now.
UpdateServer(w) ==
  /\ pc[w] = "update-server"
  /\ IF server # None /\ server.id # req[w].n
       THEN Answer(w) /\ UNCHANGED server
       ELSE /\ server' = [id |-> req[w].n, value |-> req[w].word]
            /\ Keep(w, req[w].word, "announce")
  /\ UNCHANGED <<contact, serverIds, setting, notice>>

BeginRemoveServer(w) ==
  /\ server # None
  /\ \E id \in Ids :
       Begin(w, [Request EXCEPT !.op = "remove", !.id = id, !.n = server.id, !.row = Server],
             "remove")
  /\ UNCHANGED <<setVars, notice>>

\* The devices are told first.
RemoveServer(w) ==
  /\ pc[w] = "remove"
  /\ Tell(w, None, FALSE)
  /\ Goto(w, "erase")
  /\ UNCHANGED setVars

\* Then the row is deleted, by its id; what was told since about it is wrong then.
DeleteServer(w) ==
  /\ pc[w] = "erase"
  /\ server' = IF server # None /\ server.id = req[w].n THEN None ELSE server
  /\ untold' = IF feed[Server] # SettingRow(Server)' THEN untold \union {Server} ELSE untold
  /\ Answer(w)
  /\ UNCHANGED <<contact, serverIds, setting, feed, recorded>>
-----------------------------------------------------------------------------
(* Skill and agent settings. *)

\* Enable, disable and update of a skill: the value is what the row becomes.
BeginSkillSetting(w) ==
  /\ \E id \in Ids, v \in Values :
       Begin(w, [Request EXCEPT !.op = "skill-setting", !.id = id, !.word = v,
                                !.row = <<"skill-setting">>], "upsert")
  /\ UNCHANGED <<setVars, notice>>

BeginAgentSetting(w) ==
  /\ \E id \in Ids, v \in Values :
       Begin(w, [Request EXCEPT !.op = "agent-setting", !.id = id, !.word = v,
                                !.row = <<"agent-setting">>], "upsert")
  /\ UNCHANGED <<setVars, notice>>

\* A client_event_id is not looked up before the row is written.
Upsert(w) ==
  /\ pc[w] = "upsert"
  /\ setting' = [setting EXCEPT ![req[w].op] = req[w].word]
  /\ Keep(w, None, "read-back")
  /\ UNCHANGED <<contact, server, serverIds, notice>>

ReadBack(w) ==
  /\ pc[w] = "read-back"
  /\ Keep(w, setting[req[w].op], "announce")
  /\ UNCHANGED <<setVars, notice>>

\* Mutant of RecordSetting: the event carries what was asked for, not what was kept.
RecordSetting_Asked(w) ==
  /\ pc[w] = "announce" /\ req[w].row[1] \in Tables \union {"server"}
  /\ Tell(w, req[w].word, copy[w] # SettingRow(req[w].row))
  /\ Answer(w)
  /\ UNCHANGED setVars

\* The event carries the row that was written, or read back.
RecordSetting(w) ==
  /\ pc[w] = "announce" /\ req[w].row[1] \in Tables \union {"server"}
  /\ Tell(w, copy[w], copy[w] # SettingRow(req[w].row))
  /\ Answer(w)
  /\ UNCHANGED setVars

SetNext ==
  \E w \in Workers :
    \/ BeginCreateContact(w) \/ BeginChangeContact(w) \/ CreateContact(w) \/ UpdateContact(w)
    \/ DeleteContact(w) \/ BeginAddServer(w) \/ AddServer(w) \/ BeginUpdateServer(w)
    \/ UpdateServer(w) \/ BeginRemoveServer(w) \/ RemoveServer(w) \/ DeleteServer(w)
    \/ BeginSkillSetting(w) \/ BeginAgentSetting(w) \/ Upsert(w) \/ ReadBack(w)
    \/ RecordSetting(w)
=============================================================================
