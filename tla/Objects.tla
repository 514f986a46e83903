-------------------------------- MODULE Objects -------------------------------
(***************************************************************************)
(* Object records and the contents in the object store.  An upload is an   *)
(* intent, a PUT of the client to a presigned URL, which the service never *)
(* sees, and a completion.  Uploads, downloads and deletions are governed. *)
(*                                                                         *)
(* All objects have one owner.  A content is the one the intent declared   *)
(* or another one; size and content type are compared like the hash.       *)
(***************************************************************************)
EXTENDS Governance

CONSTANTS
  Owner,        \* the user the objects belong to
  ObjectIds     \* the ids of the records, in the order of creation: a bound on them

Declared == "declared"
Contents == {Declared, "other"}

VARIABLES
  objects,      \* object_records: status, and whether the upload URL has expired
  stored        \* the content at the key of each record

objVars == <<objects, stored>>

ObjInit(start) ==
  /\ objects = [n \in 1 .. Len(start.objects) |->
                  [status |-> start.objects[n], lapsed |-> FALSE]]
  /\ stored = [n \in 1 .. Len(start.objects) |->
                 IF start.objects[n] = "pending" THEN None ELSE Declared]

\* What a request asks governance for: the capability is named after the operation.
ObjectRequest(op, subject, step) ==
  [Request EXCEPT !.op = op, !.user = Owner, !.type = "object", !.on = subject,
                  !.cap = op, !.risk = "medium", !.then = step]
-----------------------------------------------------------------------------
(* Writing objects. *)

\* The server stores a content of its own (a raw file of a collection): it is put
\* in the store before the record is created, active.
StoreObject ==
  /\ Whole("store") /\ Len(objects) < Len(ObjectIds)
  /\ objects' = Append(objects, [status |-> "active", lapsed |-> TRUE])
  /\ stored' = Append(stored, Declared)
  /\ UNCHANGED govVars

BeginUpload(w) ==
  LET r == ObjectRequest("upload", "scope", "intent")
  IN  /\ Begin(w, r, "enforce") /\ Govern(w, r)
      /\ UNCHANGED <<objVars, capabilities, rules, switches, decisions, receipts, scans,
                     config, admitted>>

CreateUploadIntent(w) ==
  /\ pc[w] = "intent" /\ Len(objects) < Len(ObjectIds)
  /\ objects' = Append(objects, [status |-> "pending", lapsed |-> FALSE])
  /\ stored' = Append(stored, None)
  /\ Carried(w) /\ Answer(w)
  /\ UNCHANGED <<capabilities, rules, switches, decisions, receipts, scans, config, calm>>

\* The client writes to the URL as long as it is valid, whatever the record says.
PutContent ==
  /\ "put" \in kinds
  /\ \E n \in DOMAIN objects, c \in Contents :
       /\ ~ objects[n].lapsed /\ stored[n] # c
       /\ stored' = [stored EXCEPT ![n] = c]
  /\ UNCHANGED <<flow, govVars, objects>>

LapseUpload ==
  /\ "put" \in kinds
  /\ \E n \in DOMAIN objects :
       /\ ~ objects[n].lapsed
       /\ objects' = [objects EXCEPT ![n].lapsed = TRUE]
  /\ UNCHANGED <<flow, govVars, stored>>

\* The record must be pending and its intent valid.
BeginComplete(w) ==
  /\ \E n \in DOMAIN objects, claim \in Contents \union {""} :
       /\ objects[n].status = "pending" /\ ~ objects[n].lapsed
       /\ Begin(w, [Request EXCEPT !.op = "complete", !.user = Owner, !.n = n, !.word = claim],
                "head")
  /\ UNCHANGED <<govVars, objVars>>

\* There must be a content.  What the client says it is comes before what the store
\* says, which need not know; what nobody says is not compared.
HeadObject(w) ==
  /\ pc[w] = "head"
  /\ \E shown \in {stored[req[w].n], ""} :
       LET observed == IF req[w].word # "" THEN req[w].word ELSE shown
       IN  IF stored[req[w].n] # None /\ observed \in {"", Declared}
             THEN Goto(w, "activate") ELSE Answer(w)
  /\ UNCHANGED <<govVars, objVars>>

\* Mutant of MarkActive: the statement is not conditional on the pending status.
MarkActive_Always(w) ==
  /\ pc[w] = "activate"
  /\ objects' = [objects EXCEPT ![req[w].n].status = "active"]
  /\ Answer(w)
  /\ UNCHANGED <<govVars, stored>>

\* The update of no row is no error: the answer is then the row as it is.
MarkActive(w) ==
  /\ pc[w] = "activate"
  /\ objects' = [objects EXCEPT ![req[w].n].status = IF @ = "pending" THEN "active" ELSE @]
  /\ Answer(w)
  /\ UNCHANGED <<govVars, stored>>
-----------------------------------------------------------------------------
(* Reading and deleting. *)

\* A plugin or a skill may use the object.
RequireActiveOwnedObject(n) == objects[n].status = "active"

BeginDownload(w) ==
  /\ \E n \in DOMAIN objects :
       LET r == [ObjectRequest("download", ObjectIds[n], "url") EXCEPT
                   !.n = n, !.word = objects[n].status]
       IN  Begin(w, r, "enforce") /\ Govern(w, r)
  /\ UNCHANGED <<objVars, capabilities, rules, switches, decisions, receipts, scans,
                 config, admitted>>

\* The URL is for the record as it was read, before governance was asked.
CreateDownloadURL(w) ==
  /\ pc[w] = "url"
  /\ IF req[w].word = "active" THEN Carried(w) ELSE UNCHANGED admitted
  /\ Answer(w)
  /\ UNCHANGED <<objVars, capabilities, rules, switches, decisions, receipts, scans,
                 config, calm>>

BeginDelete(w) ==
  /\ \E n \in DOMAIN objects :
       LET r == [ObjectRequest("delete", ObjectIds[n], "delete") EXCEPT !.n = n]
       IN  Begin(w, r, "enforce") /\ Govern(w, r)
  /\ UNCHANGED <<objVars, capabilities, rules, switches, decisions, receipts, scans,
                 config, admitted>>

\* A record that is deleted already is not found.  The count of references, which
\* would refuse the deletion, is never raised, and the content stays in the store.
DeleteObject(w) ==
  /\ pc[w] = "delete"
  /\ IF objects[req[w].n].status # "deleted"
       THEN /\ objects' = [objects EXCEPT ![req[w].n].status = "deleted"]
            /\ Carried(w)
       ELSE UNCHANGED <<objects, admitted>>
  /\ Answer(w)
  /\ UNCHANGED <<stored, capabilities, rules, switches, decisions, receipts, scans,
                 config, calm>>

ObjNext ==
  \/ StoreObject \/ PutContent \/ LapseUpload
  \/ \E w \in Workers :
       \/ BeginUpload(w) \/ CreateUploadIntent(w) \/ BeginComplete(w) \/ HeadObject(w)
       \/ MarkActive(w) \/ BeginDownload(w) \/ CreateDownloadURL(w)
       \/ BeginDelete(w) \/ DeleteObject(w)
=============================================================================
