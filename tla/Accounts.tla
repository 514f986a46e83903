------------------------------- MODULE Accounts -------------------------------
(***************************************************************************)
(* Accounts: signing in with a challenge, admission of new keys, pairing,  *)
(* renaming and revoking devices, the password and the confirmations that  *)
(* sensitive operations ask for.                                           *)
(*                                                                         *)
(* Every statement of a request is a step of the worker that runs it, and  *)
(* any number of steps of other requests may come between two of them.     *)
(* Only the claim of a pairing session is a transaction.  "Save" writes    *)
(* back the whole row that was read.  All requests but the sign-ins are of *)
(* one user, the owner of the account, who is also an administrator.       *)
(*                                                                         *)
(* Names, texts, hashes and signatures are left out: a wrong password, a   *)
(* bad signature or a bad QR payload ends a request, which Fail does.  The *)
(* audit log and the sync log are tables of their own whose errors are     *)
(* ignored here.                                                           *)
(***************************************************************************)
EXTENDS Naturals, Sequences, FiniteSets

CONSTANTS
  Workers,           \* requests that can be in progress at the same time
  Keys,              \* public keys
  Owner,             \* the key of the account
  Devices,           \* device ids
  None,              \* no row
  ConfigPolicy,      \* the admission policy of the configuration
  Policies,          \* the policies an administrator may choose
  MaxChallenges, MaxSessions, MaxConfirmations, MaxApplications, \* bounds on rows
  MaxRequests,       \* bound on the requests
  Scenarios          \* the rows there may be at the start, and the kinds of requests then

PolicyTypes == {"protocol", "invitation", "approval"}
Codes       == {"configured", "updated"}
Operations  == {"revoke", "policy", "invite"}
Kinds       == Operations \union {"verify", "decide", "rename", "pair", "claim",
                                  "profile", "setpassword", "changepassword", "issue"}

Challenges    == 1 .. MaxChallenges
Sessions      == 1 .. MaxSessions
Confirmations == 1 .. MaxConfirmations

\* The rows of the tables.
Challenge    == [dev : Devices, state : {"open", "used", "expired"}]
Device       == [user : Keys, status : {"active", "revoked"}, via : Nat]
Policy       == [type : PolicyTypes, code : Codes]
Application  == [key : Keys, status : {"pending", "approved", "rejected"}]
Session      == [state : {"open", "used", "expired"}, by : Devices \union {None}]
Confirmation == [op : Operations, state : {"open", "used", "expired"}]

\* No key waits twice at the start: two applications of a key come from a race, which
\* is marked when it happens.
ASSUME AccountsAssumption ==
  /\ Owner \in Keys /\ IsFiniteSet(Devices)
  /\ ConfigPolicy \in PolicyTypes /\ Policies \subseteq PolicyTypes
  /\ None \notin Keys \union Devices \union Workers
  /\ None \notin Challenge /\ None \notin Device /\ None \notin Session
  /\ None \notin Confirmation
  /\ {MaxChallenges, MaxSessions, MaxConfirmations, MaxApplications, MaxRequests}
       \subseteq Nat
  /\ \A sc \in Scenarios :
       /\ sc \in [kinds : SUBSET Kinds, home : SUBSET Devices, password : BOOLEAN,
                  issued : Seq(Operations), waiting : Seq(Keys \ {Owner})]
       /\ sc.home # {}
       /\ sc.issued # <<>> => sc.password
       /\ \A a, b \in DOMAIN sc.waiting : sc.waiting[a] = sc.waiting[b] => a = b

VARIABLES
  users,          \* the keys that have an account
  password,       \* has the owner set a password
  devices,        \* devices: their user and status, and the session they came by
  challenges,     \* auth_challenges: device and state
  policy,         \* the row of server_admissions
  applications,   \* admission_requests in the order of creation
  sessions,       \* device_pairing_sessions: state and claimed_by_device_id
  sessionLock,    \* the claim that holds the lock of each session's row
  confirmations,  \* sensitive_operation_confirmations: operation and state
  pc, req, copy,  \* each worker's step, request, and what it has read
  requests,       \* requests so far
  kinds,          \* the kinds of requests there may be
  stale,          \* the kinds of rows written from a copy that was out of date
  inForce,        \* policies that were in force at some time
  approved,       \* keys with an application that was approved at some time
  admits          \* how many requests each confirmation has let through

identity == <<users, challenges, applications>>
worker   == <<pc, req, copy>>
bound    == <<requests, kinds>>
history  == <<stale, inForce, approved, admits>>
vars     == <<users, password, devices, challenges, policy, applications, sessions,
              sessionLock, confirmations, worker, bound, history>>

Request == [op |-> "none", key |-> Owner, dev |-> None, tgt |-> None, n |-> 0,
            word |-> ""]

NewDevice(key, session) == [user |-> key, status |-> "active", via |-> session]

\* The account exists with its devices; confirmations may have been issued and
\* other keys may be waiting for approval.
Init ==
  /\ \E sc \in Scenarios :
       /\ kinds = sc.kinds
       /\ password = sc.password
       /\ devices = [d \in Devices |->
            IF d \in sc.home THEN NewDevice(Owner, 0) ELSE None]
       /\ confirmations = [n \in Confirmations |->
            IF n <= Len(sc.issued) THEN [op |-> sc.issued[n], state |-> "open"] ELSE None]
       /\ applications = [a \in 1 .. Len(sc.waiting) |->
            [key |-> sc.waiting[a], status |-> "pending"]]
  /\ users = {Owner}
  /\ challenges = [c \in Challenges |-> None]
  /\ policy = None
  /\ sessions = [s \in Sessions |-> None]
  /\ sessionLock = [s \in Sessions |-> None]
  /\ pc = [w \in Workers |-> "idle"]
  /\ req = [w \in Workers |-> Request]
  /\ copy = [w \in Workers |-> None]
  /\ requests = 0
  /\ stale = {} /\ approved = {}
  /\ inForce = {ConfigPolicy}
  /\ admits = [n \in Confirmations |-> 0]
-----------------------------------------------------------------------------
(* Requests. *)

Goto(w, step) == pc' = [pc EXCEPT ![w] = step] /\ UNCHANGED <<req, copy, bound>>

Keep(w, row, step) == /\ pc' = [pc EXCEPT ![w] = step]
                      /\ copy' = [copy EXCEPT ![w] = row]
                      /\ UNCHANGED <<req, bound>>

Answer(w) == /\ pc' = [pc EXCEPT ![w] = "idle"]
             /\ req' = [req EXCEPT ![w] = Request]
             /\ copy' = [copy EXCEPT ![w] = None]
             /\ UNCHANGED bound

Begin(w, r, step) == /\ pc[w] = "idle" /\ r.op \in kinds /\ requests < MaxRequests
                     /\ requests' = requests + 1
                     /\ req' = [req EXCEPT ![w] = r]
                     /\ pc' = [pc EXCEPT ![w] = step]
                     /\ UNCHANGED <<copy, kinds>>

\* The write is one of a copy that no longer is the row.
Marked(kind, outdated) == stale' = IF outdated THEN stale \union {kind} ELSE stale

\* A database error, a check of the input that fails, or a crash of the server.
Fail(w) ==
  /\ pc[w] # "idle"
  /\ Answer(w)
  /\ sessionLock' = [s \in Sessions |-> IF sessionLock[s] = w THEN None ELSE sessionLock[s]]
  /\ UNCHANGED <<identity, password, devices, policy, sessions, confirmations, history>>
-----------------------------------------------------------------------------
(* Signing in. *)

\* No request is about to look at this challenge, or to mark it.
Settled(c) == \A w \in Workers : ~ (pc[w] \in {"challenge", "mark"} /\ req[w].n = c)

\* A challenge is stored for a device.  One that is used or has expired is never
\* looked at with success again, so its number may stand for the new one.
InitiateChallenge ==
  /\ "verify" \in kinds
  /\ \E c \in Challenges, d \in Devices :
       /\ challenges[c] # None => challenges[c].state # "open" /\ Settled(c)
       /\ challenges' = [challenges EXCEPT ![c] = [dev |-> d, state |-> "open"]]
  /\ UNCHANGED <<users, password, devices, policy, applications, sessions, sessionLock,
                 confirmations, worker, bound, history>>

ChallengeExpires(c) ==
  /\ challenges[c] # None /\ challenges[c].state = "open"
  /\ challenges' = [challenges EXCEPT ![c].state = "expired"]
  /\ UNCHANGED <<users, password, devices, policy, applications, sessions, sessionLock,
                 confirmations, worker, bound, history>>

VerifySignature(w) ==
  /\ \E k \in Keys, c \in Challenges :
       /\ challenges[c] # None
       /\ Begin(w, [Request EXCEPT !.op = "verify", !.key = k, !.n = c,
                                   !.dev = challenges[c].dev], "challenge")
  /\ UNCHANGED <<identity, password, devices, policy, sessions, sessionLock, confirmations, history>>

GetChallenge(w) ==
  /\ pc[w] = "challenge"
  /\ IF challenges[req[w].n].state = "open" THEN Goto(w, "mark") ELSE Answer(w)
  /\ UNCHANGED <<identity, password, devices, policy, sessions, sessionLock, confirmations, history>>

\* The challenge is used; an error of this write is ignored.
MarkChallengeUsed(w) ==
  /\ pc[w] = "mark"
  /\ \/ challenges' = [challenges EXCEPT ![req[w].n].state = "used"]
     \/ UNCHANGED challenges
  /\ Goto(w, "user")
  /\ UNCHANGED <<users, password, devices, policy, applications, sessions, sessionLock,
                 confirmations, history>>

\* A key that has an account goes on to its device, a new one to its admission; so
\* does any key when the query fails, whatever the error.
FindUser(w) ==
  /\ pc[w] = "user"
  /\ \/ req[w].key \in users /\ Goto(w, "device")
     \/ Goto(w, "policy")
  /\ UNCHANGED <<identity, password, devices, policy, sessions, sessionLock, confirmations, history>>

\* The unique index on the key refuses a second account.
CreateUser(w) ==
  /\ pc[w] = "create"
  /\ IF req[w].key \in users
     THEN Answer(w) /\ UNCHANGED users
     ELSE Goto(w, "device") /\ users' = users \union {req[w].key}
  /\ UNCHANGED <<password, devices, challenges, policy, applications, sessions, sessionLock,
                 confirmations, history>>

\* A device that is there is the user's and active, and gets its token, or the
\* request is refused.  Nothing is changed in either case.  Any error of the query
\* counts as a device that is not there.
FindDevice(w) ==
  /\ pc[w] = "device"
  /\ \/ devices[req[w].dev] # None /\ Answer(w)
     \/ Goto(w, "newdevice")
  /\ UNCHANGED <<identity, password, devices, policy, sessions, sessionLock, confirmations, history>>

\* The unique index on the device id refuses a second device.
CreateDevice(w) ==
  /\ pc[w] = "newdevice"
  /\ devices' = IF devices[req[w].dev] = None
                THEN [devices EXCEPT ![req[w].dev] = NewDevice(req[w].key, 0)]
                ELSE devices
  /\ Answer(w)
  /\ UNCHANGED <<identity, password, policy, sessions, sessionLock, confirmations, history>>
-----------------------------------------------------------------------------
(* Admission. *)

\* What comes after the policy was read.
AfterPolicy(w) == IF req[w].op = "verify" THEN "admit" ELSE "savepolicy"

GetPolicy(w) ==
  /\ pc[w] = "policy"
  /\ IF policy = None THEN Goto(w, "newpolicy") ELSE Keep(w, policy, AfterPolicy(w))
  /\ UNCHANGED <<identity, password, devices, policy, sessions, sessionLock, confirmations, history>>

\* The row is created from the configuration; it is unique.
CreatePolicy(w) ==
  LET row == [type |-> ConfigPolicy, code |-> "configured"]
  IN  /\ pc[w] = "newpolicy"
      /\ IF policy = None
         THEN policy' = row /\ Keep(w, row, AfterPolicy(w))
         ELSE Answer(w) /\ UNCHANGED policy
      /\ UNCHANGED <<identity, password, devices, sessions, sessionLock, confirmations, history>>

CheckAdmission(w) ==
  /\ pc[w] = "admit"
  /\ CASE copy[w].type = "protocol"   -> Goto(w, "create")
       [] copy[w].type = "invitation" -> \E code \in Codes :
                                           IF code = copy[w].code
                                           THEN Goto(w, "create") ELSE Answer(w)
       [] copy[w].type = "approval"   -> Goto(w, "latest")
  /\ UNCHANGED <<identity, password, devices, policy, sessions, sessionLock, confirmations, history>>

Applications(key) == {a \in 1 .. Len(applications) : applications[a].key = key}

\* The status of the application of a key that was created last.
LatestStatus(key) ==
  applications[CHOOSE a \in Applications(key) : \A b \in Applications(key) : b <= a].status

\* Mutant of GetLatestRequest: whoever has applied is let in.
GetLatestRequest_Applied(w) ==
  /\ pc[w] = "latest"
  /\ IF Applications(req[w].key) = {} THEN Goto(w, "apply") ELSE Goto(w, "create")
  /\ UNCHANGED <<identity, password, devices, policy, sessions, sessionLock, confirmations, history>>

GetLatestRequest(w) ==
  /\ pc[w] = "latest"
  /\ IF Applications(req[w].key) = {} THEN Goto(w, "apply")
     ELSE IF LatestStatus(req[w].key) = "approved" THEN Goto(w, "create") ELSE Answer(w)
  /\ UNCHANGED <<identity, password, devices, policy, sessions, sessionLock, confirmations, history>>

\* An application is created; the sign-in is answered that it is pending.
CreateAdmissionRequest(w) ==
  /\ pc[w] = "apply" /\ Len(applications) < MaxApplications
  /\ applications' = Append(applications, [key |-> req[w].key, status |-> "pending"])
  /\ Marked("application", Applications(req[w].key) # {})
  /\ Answer(w)
  /\ UNCHANGED <<users, password, devices, challenges, policy, sessions, sessionLock,
                 confirmations, inForce, approved, admits>>

DecideRequest(w) ==
  /\ \E a \in 1 .. Len(applications), verdict \in {"approved", "rejected"} :
       Begin(w, [Request EXCEPT !.op = "decide", !.n = a, !.word = verdict], "pending")
  /\ UNCHANGED <<identity, password, devices, policy, sessions, sessionLock, confirmations, history>>

\* Mutant of GetAdmissionRequest: a decided request may be decided again.
GetAdmissionRequest_Any(w) ==
  /\ pc[w] = "pending"
  /\ Keep(w, applications[req[w].n].status, "decide")
  /\ UNCHANGED <<identity, password, devices, policy, sessions, sessionLock, confirmations, history>>

GetAdmissionRequest(w) ==
  /\ pc[w] = "pending"
  /\ IF applications[req[w].n].status = "pending"
     THEN Keep(w, "pending", "decide")
     ELSE Answer(w)
  /\ UNCHANGED <<identity, password, devices, policy, sessions, sessionLock, confirmations, history>>

\* ApproveRequest and RejectRequest save the row they have read.
SaveAdmissionRequest(w) ==
  LET a == req[w].n
  IN  /\ pc[w] = "decide"
      /\ applications' = [applications EXCEPT ![a].status = req[w].word]
      /\ approved' = IF req[w].word = "approved"
                     THEN approved \union {applications[a].key} ELSE approved
      /\ Marked("application", applications[a].status # copy[w])
      /\ Answer(w)
      /\ UNCHANGED <<users, password, devices, challenges, policy, sessions, sessionLock,
                     confirmations, inForce, admits>>

\* UpdatePolicy and UpdateInvitationCode, once their confirmation is consumed.
UpdatePolicy(w) ==
  /\ \E n \in Confirmations, type \in Policies :
       Begin(w, [Request EXCEPT !.op = "policy", !.n = n, !.word = type], "confirm")
  /\ UNCHANGED <<identity, password, devices, policy, sessions, sessionLock, confirmations, history>>

UpdateInvitationCode(w) ==
  /\ \E n \in Confirmations :
       Begin(w, [Request EXCEPT !.op = "invite", !.n = n], "confirm")
  /\ UNCHANGED <<identity, password, devices, policy, sessions, sessionLock, confirmations, history>>

SavePolicy(w) ==
  /\ pc[w] = "savepolicy"
  /\ policy' = IF req[w].op = "policy" THEN [copy[w] EXCEPT !.type = req[w].word]
                                       ELSE [copy[w] EXCEPT !.code = "updated"]
  /\ inForce' = inForce \union {policy'.type}
  /\ Marked("policy", policy # copy[w])
  /\ Answer(w)
  /\ UNCHANGED <<identity, password, devices, sessions, sessionLock, confirmations, approved, admits>>
-----------------------------------------------------------------------------
(* The password and the confirmations. *)

UserRequest(w) ==
  /\ \/ \E op \in {"profile", "setpassword", "changepassword"} :
          Begin(w, [Request EXCEPT !.op = op], "getuser")
     \/ \E op \in Operations :
          Begin(w, [Request EXCEPT !.op = "issue", !.word = op], "getuser")
  /\ UNCHANGED <<identity, password, devices, policy, sessions, sessionLock, confirmations, history>>

\* Every request but an update of the profile asks whether there is a password.
GetUser(w) ==
  /\ pc[w] = "getuser"
  /\ CASE req[w].op = "profile"        -> Keep(w, password, "saveuser")
       [] req[w].op = "setpassword"    -> IF password THEN Answer(w)
                                          ELSE Keep(w, password, "saveuser")
       [] req[w].op = "changepassword" -> IF password THEN Keep(w, password, "saveuser")
                                          ELSE Answer(w)
       [] req[w].op = "issue"          -> IF password THEN Goto(w, "issue") ELSE Answer(w)
  /\ UNCHANGED <<identity, password, devices, policy, sessions, sessionLock, confirmations, history>>

\* The whole row is saved, the password of the copy included.
SaveUser(w) ==
  /\ pc[w] = "saveuser"
  /\ password' = IF req[w].op = "profile" THEN copy[w] ELSE TRUE
  /\ Marked("user", password # copy[w])
  /\ Answer(w)
  /\ UNCHANGED <<identity, devices, policy, sessions, sessionLock, confirmations,
                 inForce, approved, admits>>

IssueConfirmation(w) ==
  /\ pc[w] = "issue"
  /\ \E n \in Confirmations :
       /\ confirmations[n] = None /\ \A b \in 1 .. n - 1 : confirmations[b] # None
       /\ confirmations' = [confirmations EXCEPT ![n] = [op |-> req[w].word, state |-> "open"]]
  /\ Answer(w)
  /\ UNCHANGED <<identity, password, devices, policy, sessions, sessionLock, history>>

\* It expires; whether the job has deleted the row too makes no difference.
ConfirmationExpires(n) ==
  /\ confirmations[n] # None /\ confirmations[n].state = "open"
  /\ confirmations' = [confirmations EXCEPT ![n].state = "expired"]
  /\ UNCHANGED <<identity, password, devices, policy, sessions, sessionLock, worker, bound, history>>

GetUsableConfirmation(w) ==
  /\ pc[w] = "confirm"
  /\ IF confirmations[req[w].n] = [op |-> req[w].op, state |-> "open"]
     THEN Goto(w, "consume") ELSE Answer(w)
  /\ UNCHANGED <<identity, password, devices, policy, sessions, sessionLock, confirmations, history>>

AfterConfirmation(w) == IF req[w].op = "revoke" THEN "target" ELSE "policy"

\* Mutant of Used: the row is read but not marked.
Used_Unmarked(n) == confirmations

\* UPDATE ... WHERE used_at IS NULL.
Used(n) == IF confirmations[n].state = "open"
           THEN [confirmations EXCEPT ![n].state = "used"] ELSE confirmations

\* The request goes on whether or not a row was updated.
MarkUsed(w) ==
  /\ pc[w] = "consume"
  /\ confirmations' = Used(req[w].n)
  /\ admits' = [admits EXCEPT ![req[w].n] = @ + 1]
  /\ Marked("confirmation", confirmations[req[w].n].state # "open")
  /\ Goto(w, AfterConfirmation(w))
  /\ UNCHANGED <<identity, password, devices, policy, sessions, sessionLock, inForce, approved>>
-----------------------------------------------------------------------------
(* Devices. *)

Mine(d) == devices[d] # None /\ devices[d].user = Owner

Active == {d \in Devices : Mine(d) /\ devices[d].status = "active"}

RenameDevice(w) ==
  /\ \E d \in Devices : Begin(w, [Request EXCEPT !.op = "rename", !.tgt = d], "named")
  /\ UNCHANGED <<identity, password, devices, policy, sessions, sessionLock, confirmations, history>>

GetNamedDevice(w) ==
  /\ pc[w] = "named"
  /\ IF req[w].tgt \in Active THEN Keep(w, devices[req[w].tgt], "rename") ELSE Answer(w)
  /\ UNCHANGED <<identity, password, devices, policy, sessions, sessionLock, confirmations, history>>

UpdateDevice(w) ==
  /\ pc[w] = "rename"
  /\ devices' = [devices EXCEPT ![req[w].tgt] = copy[w]]
  /\ Marked("device", devices[req[w].tgt] # copy[w])
  /\ Answer(w)
  /\ UNCHANGED <<identity, password, policy, sessions, sessionLock, confirmations,
                 inForce, approved, admits>>

\* A token outlives the revocation of its device, so dev is any device of the owner.
RevokeDevice(w) ==
  /\ \E n \in Confirmations, cur, d \in Devices :
       /\ Mine(cur)
       /\ Begin(w, [Request EXCEPT !.op = "revoke", !.n = n, !.dev = cur, !.tgt = d], "confirm")
  /\ UNCHANGED <<identity, password, devices, policy, sessions, sessionLock, confirmations, history>>

GetTarget(w) ==
  /\ pc[w] = "target"
  /\ IF req[w].tgt \in Active \ {req[w].dev} THEN Goto(w, "count") ELSE Answer(w)
  /\ UNCHANGED <<identity, password, devices, policy, sessions, sessionLock, confirmations, history>>

\* Mutant of Spare: one device is enough.
Spare_One(active) == Cardinality(active) > 0

Spare(active) == Cardinality(active) > 1

CountActiveDevices(w) ==
  /\ pc[w] = "count"
  /\ IF Spare(Active) THEN Keep(w, Active, "revoke") ELSE Answer(w)
  /\ UNCHANGED <<identity, password, devices, policy, sessions, sessionLock, confirmations, history>>

\* UPDATE ... WHERE status = 'active'.
SetRevoked(w) ==
  /\ pc[w] = "revoke"
  /\ devices' = IF devices[req[w].tgt].status = "active"
                THEN [devices EXCEPT ![req[w].tgt].status = "revoked"] ELSE devices
  /\ Marked("count", Active # copy[w])
  /\ Answer(w)
  /\ UNCHANGED <<identity, password, policy, sessions, sessionLock, confirmations,
                 inForce, approved, admits>>

StartPairing(w) ==
  /\ \E d \in Devices : Mine(d) /\ Begin(w, [Request EXCEPT !.op = "pair", !.dev = d], "pairer")
  /\ UNCHANGED <<identity, password, devices, policy, sessions, sessionLock, confirmations, history>>

GetPairer(w) ==
  /\ pc[w] = "pairer"
  /\ IF req[w].dev \in Active THEN Goto(w, "session") ELSE Answer(w)
  /\ UNCHANGED <<identity, password, devices, policy, sessions, sessionLock, confirmations, history>>

CreateSession(w) ==
  /\ pc[w] = "session"
  /\ \E s \in Sessions :
       /\ sessions[s] = None /\ \A b \in 1 .. s - 1 : sessions[b] # None
       /\ sessions' = [sessions EXCEPT ![s] = [state |-> "open", by |-> None]]
  /\ Answer(w)
  /\ UNCHANGED <<identity, password, devices, policy, sessionLock, confirmations, history>>

SessionExpires(s) ==
  /\ sessions[s] # None /\ sessions[s].state = "open"
  /\ sessions' = [sessions EXCEPT ![s].state = "expired"]
  /\ UNCHANGED <<identity, password, devices, policy, sessionLock, confirmations,
                 worker, bound, history>>

ClaimPairing(w) ==
  /\ \E s \in Sessions, d \in Devices :
       /\ sessions[s] # None
       /\ Begin(w, [Request EXCEPT !.op = "claim", !.n = s, !.tgt = d], "claim")
  /\ UNCHANGED <<identity, password, devices, policy, sessions, sessionLock, confirmations, history>>

GetSession(w) ==
  /\ pc[w] = "claim"
  /\ IF sessions[req[w].n].state = "open" THEN Goto(w, "free") ELSE Answer(w)
  /\ UNCHANGED <<identity, password, devices, policy, sessions, sessionLock, confirmations, history>>

GetNewDevice(w) ==
  /\ pc[w] = "free"
  /\ IF devices[req[w].tgt] = None THEN Goto(w, "lock") ELSE Answer(w)
  /\ UNCHANGED <<identity, password, devices, policy, sessions, sessionLock, confirmations, history>>

\* Mutant of LockSession: the session is not looked at again under the lock.
LockSession_NoCheck(w) ==
  /\ pc[w] = "lock" /\ sessionLock[req[w].n] = None
  /\ sessionLock' = [sessionLock EXCEPT ![req[w].n] = w]
  /\ Goto(w, "insert")
  /\ UNCHANGED <<identity, password, devices, policy, sessions, confirmations, history>>

\* SELECT ... FOR UPDATE, and the session is checked once more.
LockSession(w) ==
  /\ pc[w] = "lock" /\ sessionLock[req[w].n] = None
  /\ IF sessions[req[w].n].state = "open"
     THEN Goto(w, "insert") /\ sessionLock' = [sessionLock EXCEPT ![req[w].n] = w]
     ELSE Answer(w) /\ UNCHANGED sessionLock
  /\ UNCHANGED <<identity, password, devices, policy, sessions, confirmations, history>>

\* The device is inserted, the session marked as used, and the transaction commits;
\* it is rolled back when the device id is taken.
ClaimPairingSession(w) ==
  LET s == req[w].n
      d == req[w].tgt
  IN  /\ pc[w] = "insert"
      /\ IF devices[d] = None
         THEN /\ devices' = [devices EXCEPT ![d] = NewDevice(Owner, s)]
              /\ sessions' = [sessions EXCEPT ![s] = [state |-> "used", by |-> d]]
         ELSE UNCHANGED <<devices, sessions>>
      /\ sessionLock' = [sessionLock EXCEPT ![s] = None]
      /\ Answer(w)
      /\ UNCHANGED <<identity, password, policy, confirmations, history>>
-----------------------------------------------------------------------------
SignIn(w) ==
  \/ VerifySignature(w) \/ GetChallenge(w) \/ MarkChallengeUsed(w) \/ FindUser(w)
  \/ CreateUser(w) \/ FindDevice(w) \/ CreateDevice(w)

Admission(w) ==
  \/ GetPolicy(w) \/ CreatePolicy(w) \/ CheckAdmission(w) \/ GetLatestRequest(w)
  \/ CreateAdmissionRequest(w)
  \/ DecideRequest(w) \/ GetAdmissionRequest(w) \/ SaveAdmissionRequest(w)
  \/ UpdatePolicy(w) \/ UpdateInvitationCode(w) \/ SavePolicy(w)

Confirming(w) ==
  \/ UserRequest(w) \/ GetUser(w) \/ SaveUser(w) \/ IssueConfirmation(w)
  \/ GetUsableConfirmation(w) \/ MarkUsed(w)

DeviceRequest(w) ==
  \/ RenameDevice(w) \/ GetNamedDevice(w) \/ UpdateDevice(w)
  \/ RevokeDevice(w) \/ GetTarget(w) \/ CountActiveDevices(w) \/ SetRevoked(w)
  \/ StartPairing(w) \/ GetPairer(w) \/ CreateSession(w)
  \/ ClaimPairing(w) \/ GetSession(w) \/ GetNewDevice(w) \/ LockSession(w)
  \/ ClaimPairingSession(w)

Next ==
  \/ InitiateChallenge
  \/ \E c \in Challenges : ChallengeExpires(c)
  \/ \E n \in Confirmations : ConfirmationExpires(n)
  \/ \E s \in Sessions : SessionExpires(s)
  \/ \E w \in Workers :
       SignIn(w) \/ Admission(w) \/ Confirming(w) \/ DeviceRequest(w) \/ Fail(w)

Spec == Init /\ [][Next]_vars
-----------------------------------------------------------------------------
(* Properties. *)

\* A pairing session makes at most one device, the one it names as claimed_by, and
\* only if it is used, however many claims of it run at the same time.
PairingOnce ==
  \A s \in Sessions :
    {d \in Devices : devices[d] # None /\ devices[d].via = s} =
      IF sessions[s] # None /\ sessions[s].by # None THEN {sessions[s].by} ELSE {}

\* The owner keeps an active device: RevokeDevice refuses to revoke the only one,
\* also for a token whose own device was revoked.  Only a revocation whose count is
\* out of date when it writes can break this.
LastDeviceKept == "count" \in stale \/ Active # {}

\* While approval is the only policy that was ever in force, an account is created
\* only for a key whose application an administrator has approved.
AdmittedByApproval ==
  inForce = {"approval"} => users \ {Owner} \subseteq approved

\* A confirmation lets one request through, unless two requests have read it
\* before either marked it, or it expired in between.
ConfirmationOnce ==
  "confirmation" \in stale \/ \A n \in Confirmations : admits[n] <= 1

\* What was revoked, set or decided stays so: a revoked device is not active again,
\* a password that is set stays set, and a decided application keeps its verdict
\* and remains the latest of its key, unless a Save wrote back a copy that was out
\* of date.
NothingUndone ==
  [][/\ "device" \in stale' \/ \A d \in Devices :
          devices[d] # None /\ devices[d].status = "revoked" => devices'[d] = devices[d]
     /\ "user" \in stale' \/ (password => password')
     /\ "application" \in stale' \/ \A a \in 1 .. Len(applications) :
          applications[a].status # "pending" =>
            /\ applications'[a] = applications[a]
            /\ \A b \in a + 1 .. Len(applications') :
                 applications'[b].key # applications[a].key]_vars
=============================================================================
