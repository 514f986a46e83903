------------------------------- MODULE Requests -------------------------------
(***************************************************************************)
(* The requests of the platform's services (governance, objects, plugins,  *)
(* skills, settings, billing, conversations), which share no lock: each is *)
(* run by a worker, every statement or transaction of it is a step, and    *)
(* steps of other requests may come between any two of them.               *)
(***************************************************************************)
EXTENDS Naturals, Sequences, FiniteSets

Sets == INSTANCE FiniteSetsExt

CONSTANTS
  Workers,       \* requests that can be in progress at the same time
  None,          \* no row, no value
  MaxRequests    \* bound on the requests

VARIABLES
  pc, req, copy, \* each worker's step, request, and what it has read
  requests,      \* requests so far
  kinds,         \* the kinds of requests there may be
  stale,         \* the rows that were written from a copy that was out of date
  feed,          \* what the last sync event about each row says
  untold,        \* the rows of which an event came late, or an event or a booking was lost
  recorded       \* the recorded events that have a client_event_id

bound  == <<requests, kinds>>
flow   == <<pc, req, copy, bound, stale>>
notice == <<feed, untold, recorded>>

\* op: the kind; user: who asks; type, on: the row it is about; n, word: a number and a
\* word of the input; cap, risk, token: what governance is asked; then: the step
\* after governance lets it through; pass: why it did; row: the row the devices
\* are told about; ref: the number of a row of another table; id: its client_event_id.
Request == [op |-> "none", user |-> None, type |-> "", on |-> None, n |-> 0, word |-> "",
            cap |-> None, risk |-> "", token |-> None, then |-> "", pass |-> None,
            row |-> None, ref |-> 0, id |-> None]

\* The kinds of requests to come, and how many there have been.
FlowInit(chosen, earlier) ==
  /\ pc = [w \in Workers |-> "idle"]
  /\ req = [w \in Workers |-> Request]
  /\ copy = [w \in Workers |-> None]
  /\ requests = earlier /\ kinds = chosen /\ stale = {}

Goto(w, step) == pc' = [pc EXCEPT ![w] = step] /\ UNCHANGED <<req, copy, bound, stale>>

Keep(w, row, step) == /\ pc' = [pc EXCEPT ![w] = step]
                      /\ copy' = [copy EXCEPT ![w] = row]
                      /\ UNCHANGED <<req, bound, stale>>

Answered(w) == /\ pc' = [pc EXCEPT ![w] = "idle"]
               /\ req' = [req EXCEPT ![w] = Request]
               /\ copy' = [copy EXCEPT ![w] = None]
               /\ UNCHANGED bound

Answer(w) == Answered(w) /\ UNCHANGED stale

Accepts(w, r) == /\ pc[w] = "idle" /\ r.op \in kinds /\ requests < MaxRequests
                 /\ requests' = requests + 1
                 /\ req' = [req EXCEPT ![w] = r]

Begin(w, r, step) == /\ Accepts(w, r)
                     /\ pc' = [pc EXCEPT ![w] = step]
                     /\ UNCHANGED <<copy, kinds, stale>>

\* A request whose first statement reads a row.
BeginRead(w, r, row, step) == /\ Accepts(w, r)
                              /\ pc' = [pc EXCEPT ![w] = step]
                              /\ copy' = [copy EXCEPT ![w] = row]
                              /\ UNCHANGED <<kinds, stale>>

\* A request that is one statement: it begins and ends in one step.
Whole(op) == /\ op \in kinds /\ requests < MaxRequests
             /\ requests' = requests + 1
             /\ UNCHANGED <<pc, req, copy, kinds, stale>>

\* "Save" writes back the whole row that was read: it is marked when the row has
\* changed since.
SaveThen(w, step, row, outdated) ==
  /\ IF step = "idle" THEN Answered(w)
                      ELSE pc' = [pc EXCEPT ![w] = step] /\ UNCHANGED <<req, copy, bound>>
  /\ stale' = IF outdated THEN stale \union {row} ELSE stale

\* The recorded events with a client_event_id.
Known(id) == {e \in recorded : e.id = id}

\* The worker's request records a sync event about its row: late, if the row has
\* changed again since it was written.  RecordEnvelope records none for a
\* client_event_id that it knows.
Tell(w, value, late) ==
  LET row == req[w].row
      id  == req[w].id
  IN  IF Known(id) # {}
        THEN untold' = untold \union {row} /\ UNCHANGED <<feed, recorded>>
        ELSE /\ feed' = [feed EXCEPT ![row] = value]
             /\ untold' = IF late THEN untold \union {row} ELSE untold
             /\ recorded' = IF id = None THEN recorded
                            ELSE recorded \union {[id |-> id, row |-> row, op |-> req[w].op]}

\* The steps at which the devices know too little, or too much, or a use is not yet
\* booked everywhere.
Telling == {"read-back", "get-reaction", "download", "download-new", "announce", "announce-new",
            "erase", "account", "open-account", "debit", "earning", "payout", "save-payout",
            "save-earning"}

\* A database error, a check of the input that fails, or a crash of the server: an
\* event that was still to be recorded, a deletion already told of, or a booking is lost.
Abandon(w) ==
  /\ pc[w] # "idle" /\ Answer(w)
  /\ untold' = IF pc[w] \in Telling THEN untold \union {req[w].row} ELSE untold
  /\ UNCHANGED <<feed, recorded>>
=============================================================================
