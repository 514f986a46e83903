---------------------------- MODULE AccountsProofs ----------------------------
(***************************************************************************)
(* Proofs about Accounts, for any number of keys, devices, workers,        *)
(* requests and rows.                                                      *)
(*                                                                         *)
(* Base is the inductive invariant: the types, what a request relies on at *)
(* each of its steps (Phase), and what the tables say of one another.      *)
(* The properties are proved from it, each by the few steps that change    *)
(* what it is about.                                                       *)
(***************************************************************************)
EXTENDS Accounts, TLAPS, FiniteSetTheorems, WellFoundedInduction

Steps == {"idle", "challenge", "mark", "user", "create", "device", "newdevice", "policy",
          "newpolicy", "admit", "savepolicy", "latest", "apply", "pending", "decide",
          "getuser", "saveuser", "issue", "confirm", "consume", "named", "rename", "target",
          "count", "revoke", "pairer", "session", "claim", "free", "lock", "insert"}

Words == {"", "approved", "rejected"} \union PolicyTypes \union Operations

RequestRow == [op : Kinds \union {"none"}, key : Keys, dev : Devices \union {None},
               tgt : Devices \union {None}, n : Nat, word : Words]

LocalsOK ==
  /\ pc \in [Workers -> Steps] /\ req \in [Workers -> RequestRow]
  /\ copy = [w \in Workers |-> copy[w]]
  /\ requests \in Nat /\ kinds \subseteq Kinds

TablesOK ==
  /\ users \subseteq Keys /\ password \in BOOLEAN
  /\ devices \in [Devices -> Device \union {None}]
  /\ challenges \in [Challenges -> Challenge \union {None}]
  /\ policy \in Policy \union {None}
  /\ applications \in Seq(Application)
  /\ sessions \in [Sessions -> Session \union {None}]
  /\ sessionLock \in [Sessions -> Workers \union {None}]
  /\ confirmations \in [Confirmations -> Confirmation \union {None}]

HistoryOK ==
  /\ stale \subseteq {"application", "policy", "user", "confirmation", "device", "count"}
  /\ inForce \subseteq PolicyTypes /\ approved \subseteq Keys
  /\ admits \in [Confirmations -> Nat]

TypeOK == LocalsOK /\ TablesOK /\ HistoryOK

\* A sign-in: it has a challenge, and comes to create an account only with a policy
\* that was in force, or an approval.
SignInAt(step, r, row) ==
  /\ step \in {"challenge", "mark"} =>
       r.n \in Challenges /\ challenges[r.n] # None
  /\ step \in {"challenge", "mark", "user", "admit", "latest", "apply", "create", "device",
                "newdevice"} =>
       r.op = "verify" /\ r.dev \in Devices
  /\ step \in {"policy", "newpolicy"} =>
       \/ r.op = "verify" /\ r.dev \in Devices
       \/ r.op = "invite"
       \/ r.op = "policy" /\ r.word \in PolicyTypes
  /\ step \in {"admit", "savepolicy"} => row \in Policy /\ row.type \in inForce
  /\ step = "savepolicy" /\ r.op = "policy" => r.word \in PolicyTypes
  /\ step = "create" => (inForce = {"approval"} => r.key \in approved)

\* A decision has found the application pending; a user's row was read; a
\* confirmation that is about to be marked is there.
OwnerAt(step, r, row) ==
  /\ step \in {"pending", "decide"} =>
       r.n \in 1 .. Len(applications) /\ r.word \in {"approved", "rejected"}
  /\ step = "decide" => row = "pending"
  /\ step = "getuser" =>
       \/ r.op \in {"profile", "setpassword", "changepassword"}
       \/ r.op = "issue" /\ r.word \in Operations
  /\ step = "issue" => r.word \in Operations
  /\ step = "saveuser" => row \in BOOLEAN
  /\ step \in {"confirm", "consume"} =>
       /\ r.n \in Confirmations
       /\ \/ r.op = "revoke" /\ r.tgt \in Devices
          \/ r.op = "invite"
          \/ r.op = "policy" /\ r.word \in PolicyTypes
  /\ step = "consume" => confirmations[r.n] # None

\* A device that is renamed or revoked is there, and was active and the owner's when
\* it was read; who inserts a device holds the lock of an unused session.
DeviceAt(w, step, r, row) ==
  /\ step \in {"named", "rename", "target", "count", "revoke", "claim", "free", "lock",
                "insert"} => r.tgt \in Devices
  /\ step \in {"rename", "count", "revoke"} => devices[r.tgt] # None
  /\ step = "rename" =>
       /\ row \in Device
       /\ row.user = Owner /\ row.status = "active"
       /\ row.via = devices[r.tgt].via
  /\ step = "revoke" => row \subseteq Devices /\ Cardinality(row) > 1
  /\ step \in {"claim", "free", "lock", "insert"} =>
       r.n \in Sessions /\ sessions[r.n] # None
  /\ step = "insert" =>
       sessionLock[r.n] = w /\ sessions[r.n].by = None

\* What a request of worker w relies on when it is at a step, with what it has read.
At(w, step, r, row) == SignInAt(step, r, row) /\ OwnerAt(step, r, row) /\ DeviceAt(w, step, r, row)

Phase(w) == At(w, pc[w], req[w], copy[w])

\* A policy that is in the table is or was in force, an approved application is known
\* to be, and a session that nobody used names no device.
RowsOK ==
  /\ ConfigPolicy \in inForce /\ (policy # None => policy.type \in inForce)
  /\ \A a \in 1 .. Len(applications) :
       applications[a].status = "approved" => applications[a].key \in approved
  /\ \A s \in Sessions :
       sessions[s] # None /\ sessions[s].state # "used" => sessions[s].by = None

Base == TypeOK /\ RowsOK /\ \A w \in Workers : Phase(w)

\* A confirmation that has let a request through is not open.
Spent ==
  \A n \in Confirmations :
    admits[n] > 0 => confirmations[n] # None /\ confirmations[n].state # "open"

\* Unless two sign-ins of a key raced, the applications have different keys.
OneApplication ==
  "application" \in stale \/ \A a, b \in 1 .. Len(applications) :
    applications[a].key = applications[b].key => a = b
-----------------------------------------------------------------------------
(* One request moves, and the others stay where they are. *)

tables == <<users, password, devices, challenges, policy, applications, sessions,
            sessionLock, confirmations, history>>

\* Worker w is at a step now, with a request and what it has read.
Moved(w, step, r, row) ==
  /\ LocalsOK'
  /\ pc'[w] = step /\ req'[w] = r /\ copy'[w] = row
  /\ \A v \in Workers \ {w} : pc'[v] = pc[v] /\ req'[v] = req[v] /\ copy'[v] = copy[v]

LEMMA GotoMoves ==
  ASSUME LocalsOK, NEW w \in Workers, NEW step \in Steps, Goto(w, step)
  PROVE  Moved(w, step, req[w], copy[w])
BY DEF LocalsOK, Goto, Moved, bound

LEMMA KeepMoves ==
  ASSUME LocalsOK, NEW w \in Workers, NEW row, NEW step \in Steps, Keep(w, row, step)
  PROVE  Moved(w, step, req[w], row)
<1>1. copy' = [v \in Workers |-> copy'[v]] /\ copy'[w] = row
      /\ \A v \in Workers \ {w} : copy'[v] = copy[v]
  BY DEF LocalsOK, Keep
<1> QED BY <1>1 DEF LocalsOK, Keep, Moved, bound

LEMMA RequestTyped == Request \in RequestRow
<1>1. Owner \in Keys
  BY AccountsAssumption
<1>2. "" \in Words
  BY DEF Words
<1> QED BY <1>1, <1>2 DEF Request, RequestRow

LEMMA AnswerMoves ==
  ASSUME LocalsOK, NEW w \in Workers, Answer(w)
  PROVE  Moved(w, "idle", Request, None)
<1>1. copy' = [v \in Workers |-> copy'[v]] /\ copy'[w] = None
      /\ \A v \in Workers \ {w} : copy'[v] = copy[v]
  BY DEF LocalsOK, Answer
<1>2. req' \in [Workers -> RequestRow] /\ req'[w] = Request
      /\ \A v \in Workers \ {w} : req'[v] = req[v]
  BY RequestTyped DEF LocalsOK, Answer
<1>3. pc' \in [Workers -> Steps] /\ pc'[w] = "idle"
      /\ \A v \in Workers \ {w} : pc'[v] = pc[v]
  BY DEF LocalsOK, Answer, Steps
<1> QED BY <1>1, <1>2, <1>3 DEF LocalsOK, Answer, Moved, bound

LEMMA BeginMoves ==
  ASSUME LocalsOK, NEW w \in Workers, NEW r \in RequestRow, NEW step \in Steps,
         Begin(w, r, step)
  PROVE  Moved(w, step, r, copy[w])
BY DEF LocalsOK, Begin, Moved, bound

\* A request that has ended relies on nothing.
LEMMA IdleFine ==
  ASSUME NEW w \in Workers, pc'[w] = "idle"
  PROVE  Phase(w)'
BY DEF Phase, At, SignInAt, OwnerAt, DeviceAt

\* What a step of another request must leave for worker v: rows stay, and the lock
\* that v holds is kept with the session it is for.
Kept(v) ==
  /\ \A c \in Challenges : challenges[c] # None => challenges'[c] # None
  /\ \A d \in Devices : devices[d] # None =>
       devices'[d] # None /\ devices'[d].via = devices[d].via
  /\ \A s \in Sessions :
       /\ sessions[s] # None => sessions'[s] # None
       /\ sessions[s] # None /\ sessionLock[s] = v =>
            sessionLock'[s] = v /\ sessions'[s].by = sessions[s].by
  /\ \A n \in Confirmations : confirmations[n] # None => confirmations'[n] # None
  /\ Len(applications) <= Len(applications')
  /\ inForce \subseteq inForce' /\ approved \subseteq approved'

LEMMA PhaseKept ==
  ASSUME Base, NEW v \in Workers, Kept(v), TablesOK', HistoryOK',
         pc'[v] = pc[v], req'[v] = req[v], copy'[v] = copy[v]
  PROVE  Phase(v)'
<1>1. SignInAt(pc[v], req[v], copy[v])'
  <2>1. ConfigPolicy \in inForce /\ inForce \subseteq inForce' /\ approved \subseteq approved'
    BY DEF Base, RowsOK, Kept
  <2>2. inForce' = {"approval"} => inForce = {"approval"}
    BY <2>1
  <2> QED BY <2>1, <2>2 DEF Base, Phase, At, SignInAt, Kept
<1>2. OwnerAt(pc[v], req[v], copy[v])'
  <2>1. Len(applications) \in Nat /\ Len(applications') \in Nat /\ Len(applications) <= Len(applications')
    BY DEF Base, TypeOK, TablesOK, Kept
  <2> QED BY <2>1 DEF Base, Phase, At, OwnerAt, Kept
<1>3. DeviceAt(v, pc[v], req[v], copy[v])'
  BY DEF Base, Phase, At, DeviceAt, Kept
<1> QED BY <1>1, <1>2, <1>3 DEF Phase, At

\* The other requests are not disturbed, so that it is left to look at the tables and
\* at the request that made the step.
LEMMA StepKeepsBase ==
  ASSUME Base, NEW w \in Workers, NEW step, NEW r, NEW row, Moved(w, step, r, row),
         TablesOK', HistoryOK', RowsOK', Phase(w)', \A v \in Workers \ {w} : Kept(v)
  PROVE  Base'
<1>1. \A v \in Workers \ {w} : Phase(v)'
  BY PhaseKept DEF Moved
<1> QED BY <1>1 DEF Base, TypeOK, Moved

\* A step that writes no table.
LEMMA ReadKeepsBase ==
  ASSUME Base, NEW w \in Workers, NEW step, NEW r, NEW row, Moved(w, step, r, row),
         UNCHANGED tables, At(w, step, r, row)
  PROVE  Base'
<1>1. TablesOK'
  BY DEF Base, TypeOK, TablesOK, tables
<1>2. HistoryOK'
  BY DEF Base, TypeOK, HistoryOK, tables, history
<1>3. RowsOK'
  BY DEF Base, RowsOK, tables, history
<1>4. \A v \in Workers \ {w} : Kept(v)
  BY DEF Kept, tables, history, Base, TypeOK, TablesOK
<1>5. Phase(w)'
  BY DEF Phase, At, SignInAt, OwnerAt, DeviceAt, Moved, tables, history
<1> QED BY <1>1, <1>2, <1>3, <1>4, <1>5, StepKeepsBase

LEMMA AnswerKeepsBase ==
  ASSUME Base, NEW w \in Workers, Answer(w), UNCHANGED tables
  PROVE  Base'
<1>1. Moved(w, "idle", Request, None)
  BY AnswerMoves DEF Base, TypeOK
<1>2. At(w, "idle", Request, None)
  BY DEF At, SignInAt, OwnerAt, DeviceAt
<1> QED BY <1>1, <1>2, ReadKeepsBase

LEMMA GotoKeepsBase ==
  ASSUME Base, NEW w \in Workers, NEW step \in Steps, Goto(w, step), UNCHANGED tables,
         At(w, step, req[w], copy[w])
  PROVE  Base'
BY GotoMoves, ReadKeepsBase DEF Base, TypeOK

LEMMA KeepKeepsBase ==
  ASSUME Base, NEW w \in Workers, NEW step \in Steps, NEW row, Keep(w, row, step),
         UNCHANGED tables, At(w, step, req[w], row)
  PROVE  Base'
BY KeepMoves, ReadKeepsBase DEF Base, TypeOK

LEMMA BeginKeepsBase ==
  ASSUME Base, NEW w \in Workers, NEW step \in Steps, NEW r \in RequestRow,
         Begin(w, r, step), UNCHANGED tables, At(w, step, r, copy[w])
  PROVE  Base'
BY BeginMoves, ReadKeepsBase DEF Base, TypeOK
-----------------------------------------------------------------------------
(* The steps that only read. *)

LEMMA SignInReads ==
  ASSUME Base, NEW w \in Workers,
         VerifySignature(w) \/ GetChallenge(w) \/ FindUser(w) \/ FindDevice(w)
  PROVE  Base'
<1>0. UNCHANGED tables
  BY DEF VerifySignature, GetChallenge, FindUser, FindDevice, tables, identity
<1>1. At(w, pc[w], req[w], copy[w])
  BY DEF Base, Phase
<1>2. CASE VerifySignature(w)
  <2>1. PICK k \in Keys, c \in Challenges :
          /\ challenges[c] # None
          /\ Begin(w, [Request EXCEPT !.op = "verify", !.key = k, !.n = c,
                                      !.dev = challenges[c].dev], "challenge")
    BY <1>2 DEF VerifySignature
  <2> DEFINE r == [Request EXCEPT !.op = "verify", !.key = k, !.n = c,
                                  !.dev = challenges[c].dev]
  <2>2. challenges[c].dev \in Devices /\ c \in Nat
    BY <2>1 DEF Base, TypeOK, TablesOK, Challenge, Challenges
  <2>3. r \in RequestRow /\ r.op = "verify" /\ r.n = c /\ r.dev \in Devices
    BY <2>2, RequestTyped DEF RequestRow, Kinds
  <2> HIDE DEF r
  <2>4. At(w, "challenge", r, copy[w])
    BY <2>1, <2>3 DEF At, SignInAt, OwnerAt, DeviceAt
  <2>5. "challenge" \in Steps /\ Begin(w, r, "challenge")
    BY <2>1 DEF Steps, r
  <2> QED BY <1>0, <2>3, <2>4, <2>5, BeginKeepsBase
<1>3. CASE GetChallenge(w)
  <2>1. At(w, "mark", req[w], copy[w]) /\ "mark" \in Steps
    BY <1>1, <1>3 DEF GetChallenge, At, SignInAt, OwnerAt, DeviceAt, Steps
  <2> QED BY <1>0, <1>3, <2>1, GotoKeepsBase, AnswerKeepsBase DEF GetChallenge
<1>4. CASE FindUser(w)
  <2>1. At(w, "device", req[w], copy[w]) /\ "device" \in Steps
    BY <1>1, <1>4 DEF FindUser, At, SignInAt, OwnerAt, DeviceAt, Steps
  <2>2. At(w, "policy", req[w], copy[w]) /\ "policy" \in Steps
    BY <1>1, <1>4 DEF FindUser, At, SignInAt, OwnerAt, DeviceAt, Steps
  <2> QED BY <1>0, <1>4, <2>1, <2>2, GotoKeepsBase DEF FindUser
<1>5. CASE FindDevice(w)
  <2>1. At(w, "newdevice", req[w], copy[w]) /\ "newdevice" \in Steps
    BY <1>1, <1>5 DEF FindDevice, At, SignInAt, OwnerAt, DeviceAt, Steps
  <2> QED BY <1>0, <1>5, <2>1, GotoKeepsBase, AnswerKeepsBase DEF FindDevice
<1> QED BY <1>2, <1>3, <1>4, <1>5

\* A set of numbers up to a bound has a greatest element.
LEMMA Greatest ==
  ASSUME NEW n \in Nat, NEW S \in SUBSET (1 .. n), S # {}
  PROVE  \E a \in S : \A b \in S : b <= a
<1> DEFINE T == {n - a : a \in S}
<1>1. T \in SUBSET Nat /\ T # {}
  <2>1. \A a \in S : n - a \in Nat
    OBVIOUS
  <2>2. PICK a \in S : TRUE
    OBVIOUS
  <2> QED BY <2>1, <2>2
<1>2. PICK t \in T : \A u \in T : ~ (<<u, t>> \in OpToRel(<, Nat))
  BY <1>1, NatLessThanWellFounded, WFMin
<1>3. \A u \in T : ~ (u < t)
  BY <1>1, <1>2 DEF OpToRel
<1>4. PICK a \in S : t = n - a
  BY <1>2
<1>5. \A b \in S : n - b \in T
  OBVIOUS
<1>6. ASSUME NEW b \in S PROVE b <= a
  <2>1. ~ (n - b < n - a)
    BY <1>3, <1>4, <1>5
  <2> QED BY <2>1
<1> QED BY <1>6

\* The status of the latest application of a key is that of one of its applications.
LEMMA LatestIsOne ==
  ASSUME TablesOK, NEW key, Applications(key) # {}
  PROVE  \E a \in 1 .. Len(applications) :
           applications[a].key = key /\ LatestStatus(key) = applications[a].status
<1>1. Len(applications) \in Nat /\ Applications(key) \in SUBSET (1 .. Len(applications))
  BY DEF TablesOK, Applications
<1>2. \E a \in Applications(key) : \A b \in Applications(key) : b <= a
  BY <1>1, Greatest
<1>3. (CHOOSE a \in Applications(key) : \A b \in Applications(key) : b <= a)
        \in Applications(key)
  BY <1>2
<1> QED BY <1>3 DEF LatestStatus, Applications

LEMMA AdmissionReads ==
  ASSUME Base, NEW w \in Workers,
         \/ GetPolicy(w) \/ CheckAdmission(w) \/ GetLatestRequest(w) \/ DecideRequest(w)
         \/ GetAdmissionRequest(w) \/ UpdatePolicy(w) \/ UpdateInvitationCode(w)
  PROVE  Base'
<1>0. UNCHANGED tables
  BY DEF GetPolicy, CheckAdmission, GetLatestRequest, DecideRequest, GetAdmissionRequest,
         UpdatePolicy, UpdateInvitationCode, tables, identity
<1>1. At(w, pc[w], req[w], copy[w])
  BY DEF Base, Phase
<1>2. CASE GetPolicy(w)
  <2>1. policy # None => policy \in Policy /\ policy.type \in inForce
    BY DEF Base, TypeOK, TablesOK, RowsOK
  <2>2. At(w, "newpolicy", req[w], copy[w]) /\ "newpolicy" \in Steps
    BY <1>1, <1>2 DEF GetPolicy, At, SignInAt, OwnerAt, DeviceAt, Steps
  <2>3. policy # None => At(w, AfterPolicy(w), req[w], policy) /\ AfterPolicy(w) \in Steps
    BY <1>1, <1>2, <2>1 DEF GetPolicy, At, SignInAt, OwnerAt, DeviceAt, Steps, AfterPolicy
  <2> QED BY <1>0, <1>2, <2>2, <2>3, GotoKeepsBase, KeepKeepsBase DEF GetPolicy
<1>3. CASE CheckAdmission(w)
  <2>1. copy[w].type \in {"protocol", "invitation", "approval"} /\ copy[w].type \in inForce
    BY <1>1, <1>3 DEF CheckAdmission, At, SignInAt, Policy, PolicyTypes
  <2>2. Answer(w) \/ Goto(w, "latest") \/ (copy[w].type # "approval" /\ Goto(w, "create"))
    BY <1>3, <2>1 DEF CheckAdmission
  <2>3. At(w, "latest", req[w], copy[w]) /\ "latest" \in Steps
    BY <1>1, <1>3 DEF CheckAdmission, At, SignInAt, OwnerAt, DeviceAt, Steps
  <2>4. copy[w].type # "approval" => At(w, "create", req[w], copy[w]) /\ "create" \in Steps
    BY <1>1, <1>3, <2>1 DEF CheckAdmission, At, SignInAt, OwnerAt, DeviceAt, Steps
  <2> QED BY <1>0, <2>2, <2>3, <2>4, GotoKeepsBase, AnswerKeepsBase
<1>4. CASE GetLatestRequest(w)
  <2>1. \/ Goto(w, "apply") \/ Answer(w)
        \/ Goto(w, "create") /\ req[w].key \in approved
    BY <1>4, LatestIsOne DEF GetLatestRequest, Base, TypeOK, RowsOK
  <2>2. At(w, "apply", req[w], copy[w]) /\ "apply" \in Steps
    BY <1>1, <1>4 DEF GetLatestRequest, At, SignInAt, OwnerAt, DeviceAt, Steps
  <2>3. req[w].key \in approved => At(w, "create", req[w], copy[w]) /\ "create" \in Steps
    BY <1>1, <1>4 DEF GetLatestRequest, At, SignInAt, OwnerAt, DeviceAt, Steps
  <2> QED BY <1>0, <2>1, <2>2, <2>3, GotoKeepsBase, AnswerKeepsBase
<1>5. CASE DecideRequest(w)
  <2>1. PICK a \in 1 .. Len(applications), verdict \in {"approved", "rejected"} :
          Begin(w, [Request EXCEPT !.op = "decide", !.n = a, !.word = verdict], "pending")
    BY <1>5 DEF DecideRequest
  <2> DEFINE r == [Request EXCEPT !.op = "decide", !.n = a, !.word = verdict]
  <2>2. a \in Nat
    BY DEF Base, TypeOK, TablesOK
  <2>3. r \in RequestRow /\ r.n = a /\ r.word = verdict
    BY <2>2, RequestTyped DEF RequestRow, Kinds, Words
  <2> HIDE DEF r
  <2>4. At(w, "pending", r, copy[w])
    BY <2>3 DEF At, SignInAt, OwnerAt, DeviceAt
  <2>5. "pending" \in Steps /\ Begin(w, r, "pending")
    BY <2>1 DEF Steps, r
  <2> QED BY <1>0, <2>3, <2>4, <2>5, BeginKeepsBase
<1>6. CASE GetAdmissionRequest(w)
  <2>1. At(w, "decide", req[w], "pending") /\ "decide" \in Steps
    BY <1>1, <1>6 DEF GetAdmissionRequest, At, SignInAt, OwnerAt, DeviceAt, Steps
  <2> QED BY <1>0, <1>6, <2>1, KeepKeepsBase, AnswerKeepsBase DEF GetAdmissionRequest
<1>7. CASE UpdatePolicy(w)
  <2>1. PICK n \in Confirmations, type \in Policies :
          Begin(w, [Request EXCEPT !.op = "policy", !.n = n, !.word = type], "confirm")
    BY <1>7 DEF UpdatePolicy
  <2> DEFINE r == [Request EXCEPT !.op = "policy", !.n = n, !.word = type]
  <2>2. n \in Nat /\ type \in PolicyTypes
    BY AccountsAssumption DEF Confirmations
  <2>3. r \in RequestRow /\ r.op = "policy" /\ r.n = n /\ r.word = type
    BY <2>2, RequestTyped DEF RequestRow, Kinds, Words, Operations
  <2> HIDE DEF r
  <2>4. At(w, "confirm", r, copy[w])
    BY <2>2, <2>3 DEF At, SignInAt, OwnerAt, DeviceAt
  <2>5. "confirm" \in Steps /\ Begin(w, r, "confirm")
    BY <2>1 DEF Steps, r
  <2> QED BY <1>0, <2>3, <2>4, <2>5, BeginKeepsBase
<1>8. CASE UpdateInvitationCode(w)
  <2>1. PICK n \in Confirmations : Begin(w, [Request EXCEPT !.op = "invite", !.n = n], "confirm")
    BY <1>8 DEF UpdateInvitationCode
  <2> DEFINE r == [Request EXCEPT !.op = "invite", !.n = n]
  <2>2. n \in Nat
    BY AccountsAssumption DEF Confirmations
  <2>3. r \in RequestRow /\ r.op = "invite" /\ r.n = n
    BY <2>2, RequestTyped DEF RequestRow, Kinds, Operations
  <2> HIDE DEF r
  <2>4. At(w, "confirm", r, copy[w])
    BY <2>3 DEF At, SignInAt, OwnerAt, DeviceAt
  <2>5. "confirm" \in Steps /\ Begin(w, r, "confirm")
    BY <2>1 DEF Steps, r
  <2> QED BY <1>0, <2>3, <2>4, <2>5, BeginKeepsBase
<1> QED BY <1>2, <1>3, <1>4, <1>5, <1>6, <1>7, <1>8

LEMMA ConfirmingReads ==
  ASSUME Base, NEW w \in Workers, UserRequest(w) \/ GetUser(w) \/ GetUsableConfirmation(w)
  PROVE  Base'
<1>0. UNCHANGED tables
  BY DEF UserRequest, GetUser, GetUsableConfirmation, tables, identity
<1>1. At(w, pc[w], req[w], copy[w])
  BY DEF Base, Phase
<1>2. ASSUME NEW r \in RequestRow, Begin(w, r, "getuser"),
             \/ r.op \in {"profile", "setpassword", "changepassword"}
             \/ r.op = "issue" /\ r.word \in Operations
      PROVE  Base'
  <2>1. At(w, "getuser", r, copy[w]) /\ "getuser" \in Steps
    BY <1>2 DEF At, SignInAt, OwnerAt, DeviceAt, Steps
  <2> QED BY <1>0, <1>2, <2>1, BeginKeepsBase
<1>3. CASE UserRequest(w)
  <2>1. ASSUME NEW op \in {"profile", "setpassword", "changepassword"},
               Begin(w, [Request EXCEPT !.op = op], "getuser")
        PROVE  Base'
    <3> DEFINE r == [Request EXCEPT !.op = op]
    <3>1. r \in RequestRow /\ r.op = op
      BY RequestTyped DEF RequestRow, Kinds
    <3> HIDE DEF r
    <3>2. Begin(w, r, "getuser")
      BY <2>1 DEF r
    <3> QED BY <1>2, <3>1, <3>2
  <2>2. ASSUME NEW op \in Operations,
               Begin(w, [Request EXCEPT !.op = "issue", !.word = op], "getuser")
        PROVE  Base'
    <3> DEFINE r == [Request EXCEPT !.op = "issue", !.word = op]
    <3>1. r \in RequestRow /\ r.op = "issue" /\ r.word = op
      BY RequestTyped DEF RequestRow, Kinds, Words
    <3> HIDE DEF r
    <3>2. Begin(w, r, "getuser")
      BY <2>2 DEF r
    <3> QED BY <1>2, <3>1, <3>2
  <2> QED BY <1>3, <2>1, <2>2 DEF UserRequest
<1>4. CASE GetUser(w)
  <2>1. /\ req[w].op \in {"profile", "setpassword", "changepassword", "issue"}
        /\ req[w].op = "issue" => req[w].word \in Operations
        /\ password \in BOOLEAN
    BY <1>1, <1>4 DEF GetUser, At, OwnerAt, Base, TypeOK, TablesOK
  <2>2. \/ Keep(w, password, "saveuser") \/ Answer(w)
        \/ req[w].op = "issue" /\ Goto(w, "issue")
    BY <1>4, <2>1 DEF GetUser
  <2>3. At(w, "saveuser", req[w], password) /\ "saveuser" \in Steps
    BY <2>1 DEF At, SignInAt, OwnerAt, DeviceAt, Steps
  <2>4. req[w].op = "issue" => At(w, "issue", req[w], copy[w]) /\ "issue" \in Steps
    BY <2>1 DEF At, SignInAt, OwnerAt, DeviceAt, Steps
  <2> QED BY <1>0, <2>2, <2>3, <2>4, GotoKeepsBase, KeepKeepsBase, AnswerKeepsBase
<1>5. CASE GetUsableConfirmation(w)
  <2>1. confirmations[req[w].n] = [op |-> req[w].op, state |-> "open"]
          => confirmations[req[w].n] # None
    <3>1. req[w].op \in Operations
      BY <1>1, <1>5 DEF GetUsableConfirmation, At, OwnerAt, Operations
    <3>2. [op |-> req[w].op, state |-> "open"] \in Confirmation
      BY <3>1 DEF Confirmation
    <3> QED BY <3>2, AccountsAssumption
  <2>2. confirmations[req[w].n] # None =>
          At(w, "consume", req[w], copy[w]) /\ "consume" \in Steps
    BY <1>1, <1>5 DEF GetUsableConfirmation, At, SignInAt, OwnerAt, DeviceAt, Steps
  <2> QED BY <1>0, <1>5, <2>1, <2>2, GotoKeepsBase, AnswerKeepsBase DEF GetUsableConfirmation
<1> QED BY <1>3, <1>4, <1>5

\* The devices that count as active are there.
LEMMA ActiveThere ==
  ASSUME TablesOK
  PROVE  /\ Active \subseteq Devices /\ IsFiniteSet(Active)
         /\ \A d \in Active : /\ devices[d] \in Device /\ devices[d] # None
                              /\ devices[d].user = Owner /\ devices[d].status = "active"
<1>1. Active \subseteq Devices /\ IsFiniteSet(Devices)
  BY AccountsAssumption DEF Active
<1>2. IsFiniteSet(Active)
  BY <1>1, FS_Subset
<1> QED BY <1>1, <1>2 DEF Active, Mine, TablesOK

LEMMA DeviceReads ==
  ASSUME Base, NEW w \in Workers,
         \/ RenameDevice(w) \/ GetNamedDevice(w) \/ RevokeDevice(w) \/ GetTarget(w)
         \/ CountActiveDevices(w)
  PROVE  Base'
<1>0. UNCHANGED tables
  BY DEF RenameDevice, GetNamedDevice, RevokeDevice, GetTarget, CountActiveDevices, tables,
         identity
<1>1. At(w, pc[w], req[w], copy[w]) /\ TablesOK
  BY DEF Base, Phase, TypeOK
<1>2. CASE RenameDevice(w)
  <2>1. PICK d \in Devices : Begin(w, [Request EXCEPT !.op = "rename", !.tgt = d], "named")
    BY <1>2 DEF RenameDevice
  <2> DEFINE r == [Request EXCEPT !.op = "rename", !.tgt = d]
  <2>2. r \in RequestRow /\ r.tgt = d
    BY RequestTyped DEF RequestRow, Kinds
  <2> HIDE DEF r
  <2>3. At(w, "named", r, copy[w])
    BY <2>2 DEF At, SignInAt, OwnerAt, DeviceAt
  <2>4. "named" \in Steps /\ Begin(w, r, "named")
    BY <2>1 DEF Steps, r
  <2> QED BY <1>0, <2>2, <2>3, <2>4, BeginKeepsBase
<1>3. CASE GetNamedDevice(w)
  <2>1. req[w].tgt \in Active =>
          At(w, "rename", req[w], devices[req[w].tgt]) /\ "rename" \in Steps
    BY <1>1, <1>3, ActiveThere DEF GetNamedDevice, At, SignInAt, OwnerAt, DeviceAt, Steps
  <2> QED BY <1>0, <1>3, <2>1, KeepKeepsBase, AnswerKeepsBase DEF GetNamedDevice
<1>4. CASE RevokeDevice(w)
  <2>1. PICK n \in Confirmations, cur \in Devices, d \in Devices :
          Begin(w, [Request EXCEPT !.op = "revoke", !.n = n, !.dev = cur, !.tgt = d], "confirm")
    BY <1>4 DEF RevokeDevice
  <2> DEFINE r == [Request EXCEPT !.op = "revoke", !.n = n, !.dev = cur, !.tgt = d]
  <2>2. n \in Nat
    BY AccountsAssumption DEF Confirmations
  <2>3. r \in RequestRow /\ r.op = "revoke" /\ r.n = n /\ r.tgt = d
    BY <2>2, RequestTyped DEF RequestRow, Kinds, Operations
  <2> HIDE DEF r
  <2>4. At(w, "confirm", r, copy[w])
    BY <2>3 DEF At, SignInAt, OwnerAt, DeviceAt
  <2>5. "confirm" \in Steps /\ Begin(w, r, "confirm")
    BY <2>1 DEF Steps, r
  <2> QED BY <1>0, <2>3, <2>4, <2>5, BeginKeepsBase
<1>5. CASE GetTarget(w)
  <2>1. req[w].tgt \in Active => At(w, "count", req[w], copy[w]) /\ "count" \in Steps
    BY <1>1, <1>5, ActiveThere DEF GetTarget, At, SignInAt, OwnerAt, DeviceAt, Steps
  <2> QED BY <1>0, <1>5, <2>1, GotoKeepsBase, AnswerKeepsBase DEF GetTarget
<1>6. CASE CountActiveDevices(w)
  <2>1. Spare(Active) => At(w, "revoke", req[w], Active) /\ "revoke" \in Steps
    BY <1>1, <1>6, ActiveThere
       DEF CountActiveDevices, Spare, At, SignInAt, OwnerAt, DeviceAt, Steps
  <2> QED BY <1>0, <1>6, <2>1, KeepKeepsBase, AnswerKeepsBase DEF CountActiveDevices
<1> QED BY <1>2, <1>3, <1>4, <1>5, <1>6

LEMMA PairingReads ==
  ASSUME Base, NEW w \in Workers,
         StartPairing(w) \/ GetPairer(w) \/ ClaimPairing(w) \/ GetSession(w) \/ GetNewDevice(w)
  PROVE  Base'
<1>0. UNCHANGED tables
  BY DEF StartPairing, GetPairer, ClaimPairing, GetSession, GetNewDevice, tables, identity
<1>1. At(w, pc[w], req[w], copy[w])
  BY DEF Base, Phase
<1>2. CASE StartPairing(w)
  <2>1. PICK d \in Devices : Begin(w, [Request EXCEPT !.op = "pair", !.dev = d], "pairer")
    BY <1>2 DEF StartPairing
  <2> DEFINE r == [Request EXCEPT !.op = "pair", !.dev = d]
  <2>2. r \in RequestRow
    BY RequestTyped DEF RequestRow, Kinds
  <2> HIDE DEF r
  <2>3. At(w, "pairer", r, copy[w])
    BY DEF At, SignInAt, OwnerAt, DeviceAt
  <2>4. "pairer" \in Steps /\ Begin(w, r, "pairer")
    BY <2>1 DEF Steps, r
  <2> QED BY <1>0, <2>2, <2>3, <2>4, BeginKeepsBase
<1>3. CASE GetPairer(w)
  <2>1. At(w, "session", req[w], copy[w]) /\ "session" \in Steps
    BY DEF At, SignInAt, OwnerAt, DeviceAt, Steps
  <2> QED BY <1>0, <1>3, <2>1, GotoKeepsBase, AnswerKeepsBase DEF GetPairer
<1>4. CASE ClaimPairing(w)
  <2>1. PICK s \in Sessions, d \in Devices :
          /\ sessions[s] # None
          /\ Begin(w, [Request EXCEPT !.op = "claim", !.n = s, !.tgt = d], "claim")
    BY <1>4 DEF ClaimPairing
  <2> DEFINE r == [Request EXCEPT !.op = "claim", !.n = s, !.tgt = d]
  <2>2. s \in Nat
    BY AccountsAssumption DEF Sessions
  <2>3. r \in RequestRow /\ r.n = s /\ r.tgt = d
    BY <2>2, RequestTyped DEF RequestRow, Kinds
  <2> HIDE DEF r
  <2>4. At(w, "claim", r, copy[w])
    BY <2>1, <2>3 DEF At, SignInAt, OwnerAt, DeviceAt
  <2>5. "claim" \in Steps /\ Begin(w, r, "claim")
    BY <2>1 DEF Steps, r
  <2> QED BY <1>0, <2>3, <2>4, <2>5, BeginKeepsBase
<1>5. CASE GetSession(w)
  <2>1. At(w, "free", req[w], copy[w]) /\ "free" \in Steps
    BY <1>1, <1>5 DEF GetSession, At, SignInAt, OwnerAt, DeviceAt, Steps
  <2> QED BY <1>0, <1>5, <2>1, GotoKeepsBase, AnswerKeepsBase DEF GetSession
<1>6. CASE GetNewDevice(w)
  <2>1. At(w, "lock", req[w], copy[w]) /\ "lock" \in Steps
    BY <1>1, <1>6 DEF GetNewDevice, At, SignInAt, OwnerAt, DeviceAt, Steps
  <2> QED BY <1>0, <1>6, <2>1, GotoKeepsBase, AnswerKeepsBase DEF GetNewDevice
<1> QED BY <1>2, <1>3, <1>4, <1>5, <1>6
-----------------------------------------------------------------------------
(* The steps that write. *)

\* A request that has written and is answered.
LEMMA AnswerWrites ==
  ASSUME Base, NEW w \in Workers, Answer(w), TablesOK', HistoryOK', RowsOK',
         \A v \in Workers \ {w} : Kept(v)
  PROVE  Base'
<1>1. Moved(w, "idle", Request, None)
  BY AnswerMoves DEF Base, TypeOK
<1>2. Phase(w)'
  BY <1>1, IdleFine DEF Moved
<1> QED BY <1>1, <1>2, StepKeepsBase

\* Time passes, or a client asks for a challenge.
LEMMA TableWrites ==
  ASSUME Base, UNCHANGED <<worker, bound>>, TablesOK', HistoryOK', RowsOK',
         \A v \in Workers : Kept(v)
  PROVE  Base'
<1>1. \A v \in Workers : Phase(v)'
  BY PhaseKept DEF worker
<1>2. LocalsOK'
  BY DEF Base, TypeOK, LocalsOK, worker, bound
<1> QED BY <1>1, <1>2 DEF Base, TypeOK

LEMMA ChallengeSteps ==
  ASSUME Base, InitiateChallenge \/ \E c \in Challenges : ChallengeExpires(c)
  PROVE  Base'
<1>1. /\ UNCHANGED <<users, password, devices, policy, applications, sessions, sessionLock,
                     confirmations, worker, bound, history>>
      /\ challenges' \in [Challenges -> Challenge \union {None}]
      /\ \A c \in Challenges : challenges[c] # None => challenges'[c] # None
  <2>1. challenges \in [Challenges -> Challenge \union {None}] /\ None \notin Challenge
    BY AccountsAssumption DEF Base, TypeOK, TablesOK
  <2>2. CASE InitiateChallenge
    <3>1. PICK c \in Challenges, d \in Devices :
            challenges' = [challenges EXCEPT ![c] = [dev |-> d, state |-> "open"]]
      BY <2>2 DEF InitiateChallenge
    <3>2. [dev |-> d, state |-> "open"] \in Challenge
      BY DEF Challenge
    <3> QED BY <2>1, <2>2, <3>1, <3>2 DEF InitiateChallenge
  <2>3. ASSUME NEW c \in Challenges, ChallengeExpires(c)
        PROVE  /\ UNCHANGED <<users, password, devices, policy, applications, sessions,
                              sessionLock, confirmations, worker, bound, history>>
               /\ challenges' \in [Challenges -> Challenge \union {None}]
               /\ \A e \in Challenges : challenges[e] # None => challenges'[e] # None
    <3>1. [challenges[c] EXCEPT !.state = "expired"] \in Challenge
      BY <2>1, <2>3 DEF ChallengeExpires, Challenge
    <3> QED BY <2>1, <2>3, <3>1 DEF ChallengeExpires
  <2> QED BY <2>2, <2>3
<1>2. TablesOK' /\ HistoryOK' /\ RowsOK'
  BY <1>1 DEF Base, TypeOK, TablesOK, HistoryOK, RowsOK, history
<1>3. \A v \in Workers : Kept(v)
  BY <1>1 DEF Kept, history, Base, TypeOK, TablesOK
<1> QED BY <1>1, <1>2, <1>3, TableWrites

LEMMA ConfirmationLapses ==
  ASSUME Base, NEW n \in Confirmations, ConfirmationExpires(n)
  PROVE  Base'
<1>1. confirmations \in [Confirmations -> Confirmation \union {None}] /\ None \notin Confirmation
  BY AccountsAssumption DEF Base, TypeOK, TablesOK
<1>2. [confirmations[n] EXCEPT !.state = "expired"] \in Confirmation
  BY <1>1 DEF ConfirmationExpires, Confirmation
<1>3. /\ confirmations' \in [Confirmations -> Confirmation \union {None}]
      /\ \A m \in Confirmations : confirmations[m] # None => confirmations'[m] # None
  BY <1>1, <1>2 DEF ConfirmationExpires
<1>4. TablesOK' /\ HistoryOK' /\ RowsOK'
  BY <1>3 DEF ConfirmationExpires, identity, history, Base, TypeOK, TablesOK, HistoryOK, RowsOK
<1>5. \A v \in Workers : Kept(v)
  BY <1>3 DEF ConfirmationExpires, Kept, identity, history, Base, TypeOK, TablesOK
<1> QED BY <1>4, <1>5, TableWrites DEF ConfirmationExpires

LEMMA SessionLapses ==
  ASSUME Base, NEW s \in Sessions, SessionExpires(s)
  PROVE  Base'
<1>1. sessions \in [Sessions -> Session \union {None}] /\ None \notin Session
  BY AccountsAssumption DEF Base, TypeOK, TablesOK
<1>2. sessions[s] \in Session /\ sessions[s].by = None
  BY <1>1 DEF SessionExpires, Base, RowsOK
<1> DEFINE new == [sessions[s] EXCEPT !.state = "expired"]
<1>3. new \in Session /\ new.by = None
  BY <1>2 DEF Session
<1> HIDE DEF new
<1>4. sessions' = [sessions EXCEPT ![s] = new]
  BY DEF SessionExpires, new
<1>5. /\ sessions' \in [Sessions -> Session \union {None}]
      /\ sessions'[s] # None /\ sessions'[s].by = None
      /\ \A t \in Sessions \ {s} : sessions'[t] = sessions[t]
  BY <1>1, <1>3, <1>4
<1>6. TablesOK' /\ HistoryOK' /\ RowsOK'
  BY <1>5 DEF SessionExpires, identity, history, Base, TypeOK, TablesOK, HistoryOK, RowsOK
<1>7. \A v \in Workers : Kept(v)
  <2>1. \A t \in Sessions : /\ sessions[t] # None => sessions'[t] # None
                            /\ sessions'[t].by = sessions[t].by
    BY <1>2, <1>5
  <2> QED BY <2>1 DEF SessionExpires, Kept, identity, history, Base, TypeOK, TablesOK
<1> QED BY <1>6, <1>7, TableWrites DEF SessionExpires

LEMMA ChallengeMarked ==
  ASSUME Base, NEW w \in Workers, MarkChallengeUsed(w)
  PROVE  Base'
<1>1. At(w, pc[w], req[w], copy[w])
  BY DEF Base, Phase
<1>2. /\ challenges' \in [Challenges -> Challenge \union {None}]
      /\ \A c \in Challenges : challenges[c] # None => challenges'[c] # None
  <2>1. challenges \in [Challenges -> Challenge \union {None}] /\ None \notin Challenge
    BY AccountsAssumption DEF Base, TypeOK, TablesOK
  <2>2. req[w].n \in Challenges /\ challenges[req[w].n] \in Challenge
    BY <1>1, <2>1 DEF MarkChallengeUsed, At, SignInAt
  <2>3. [challenges[req[w].n] EXCEPT !.state = "used"] \in Challenge
    BY <2>2 DEF Challenge
  <2> QED BY <2>1, <2>2, <2>3 DEF MarkChallengeUsed
<1>3. TablesOK' /\ HistoryOK' /\ RowsOK'
  BY <1>2 DEF MarkChallengeUsed, history, Base, TypeOK, TablesOK, HistoryOK, RowsOK
<1>4. \A v \in Workers \ {w} : Kept(v)
  BY <1>2 DEF MarkChallengeUsed, Kept, history, Base, TypeOK, TablesOK
<1>5. Moved(w, "user", req[w], copy[w])
  BY GotoMoves DEF MarkChallengeUsed, Base, TypeOK, Steps
<1>6. Phase(w)'
  BY <1>1, <1>5 DEF MarkChallengeUsed, Phase, At, SignInAt, OwnerAt, DeviceAt, Moved
<1> QED BY <1>3, <1>4, <1>5, <1>6, StepKeepsBase

LEMMA UserCreated ==
  ASSUME Base, NEW w \in Workers, CreateUser(w)
  PROVE  Base'
<1>1. At(w, pc[w], req[w], copy[w]) /\ req[w].key \in Keys
  BY DEF Base, TypeOK, LocalsOK, RequestRow, Phase
<1>2. TablesOK' /\ HistoryOK' /\ RowsOK'
  BY <1>1 DEF CreateUser, history, Base, TypeOK, TablesOK, HistoryOK, RowsOK
<1>3. \A v \in Workers \ {w} : Kept(v)
  BY DEF CreateUser, Kept, history, Base, TypeOK, TablesOK
<1>4. CASE Answer(w)
  BY <1>2, <1>3, <1>4, AnswerWrites
<1>5. CASE Goto(w, "device")
  <2>1. Moved(w, "device", req[w], copy[w])
    BY <1>5, GotoMoves DEF Base, TypeOK, Steps
  <2>2. Phase(w)'
    BY <1>1, <2>1 DEF CreateUser, Phase, At, SignInAt, OwnerAt, DeviceAt, Moved
  <2> QED BY <1>2, <1>3, <2>1, <2>2, StepKeepsBase
<1> QED BY <1>4, <1>5 DEF CreateUser

\* A new device's row.
LEMMA NewDeviceTyped ==
  ASSUME NEW key \in Keys, NEW s \in Nat
  PROVE  /\ NewDevice(key, s) \in Device /\ NewDevice(key, s) # None
         /\ NewDevice(key, s).via = s /\ NewDevice(key, s).user = key
         /\ NewDevice(key, s).status = "active"
<1>1. NewDevice(key, s) \in Device
  BY DEF NewDevice, Device
<1> QED BY <1>1, AccountsAssumption DEF NewDevice

LEMMA DeviceCreated ==
  ASSUME Base, NEW w \in Workers, CreateDevice(w)
  PROVE  Base'
<1>1. req[w].dev \in Devices /\ req[w].key \in Keys
  BY DEF CreateDevice, Base, TypeOK, LocalsOK, RequestRow, Phase, At, SignInAt
<1>2. /\ devices' \in [Devices -> Device \union {None}]
      /\ \A d \in Devices : devices[d] # None => devices'[d] = devices[d]
  BY <1>1, NewDeviceTyped DEF CreateDevice, Base, TypeOK, TablesOK
<1>3. TablesOK' /\ HistoryOK' /\ RowsOK'
  BY <1>2 DEF CreateDevice, identity, history, Base, TypeOK, TablesOK, HistoryOK, RowsOK
<1>4. \A v \in Workers \ {w} : Kept(v)
  BY <1>2 DEF CreateDevice, Kept, identity, history, Base, TypeOK, TablesOK
<1> QED BY <1>3, <1>4, AnswerWrites DEF CreateDevice

LEMMA PolicyCreated ==
  ASSUME Base, NEW w \in Workers, CreatePolicy(w)
  PROVE  Base'
<1> DEFINE new == [type |-> ConfigPolicy, code |-> "configured"]
<1>1. At(w, pc[w], req[w], copy[w])
  BY DEF Base, Phase
<1>2. new \in Policy /\ new.type \in inForce
  BY AccountsAssumption DEF Policy, Codes, Base, RowsOK
<1> HIDE DEF new
<1>3. TablesOK' /\ HistoryOK' /\ RowsOK'
  <2>1. policy' \in {policy, new}
    BY DEF CreatePolicy, new
  <2> QED BY <1>2, <2>1 DEF CreatePolicy, identity, history, Base, TypeOK, TablesOK, HistoryOK, RowsOK
<1>4. \A v \in Workers \ {w} : Kept(v)
  BY DEF CreatePolicy, Kept, identity, history, Base, TypeOK, TablesOK
<1>5. CASE Answer(w)
  BY <1>3, <1>4, <1>5, AnswerWrites
<1>6. CASE Keep(w, new, AfterPolicy(w))
  <2>1. AfterPolicy(w) \in Steps
    BY DEF AfterPolicy, Steps
  <2>2. Moved(w, AfterPolicy(w), req[w], new)
    BY <1>6, <2>1, KeepMoves DEF Base, TypeOK
  <2>3. inForce' = inForce
    BY DEF CreatePolicy, history
  <2>4. Phase(w)'
    BY <1>1, <1>2, <2>2, <2>3
       DEF CreatePolicy, AfterPolicy, Phase, At, SignInAt, OwnerAt, DeviceAt, Moved
  <2> QED BY <1>3, <1>4, <2>2, <2>4, StepKeepsBase
<1> QED BY <1>5, <1>6 DEF CreatePolicy, new

LEMMA ApplicationCreated ==
  ASSUME Base, NEW w \in Workers, CreateAdmissionRequest(w)
  PROVE  Base'
<1> DEFINE new == [key |-> req[w].key, status |-> "pending"]
<1>1. new \in Application /\ new.status # "approved"
  BY DEF Base, TypeOK, LocalsOK, RequestRow, Application
<1> HIDE DEF new
<1>2. applications' = Append(applications, new) /\ applications \in Seq(Application)
  BY DEF CreateAdmissionRequest, new, Base, TypeOK, TablesOK
<1>3. /\ applications' \in Seq(Application)
      /\ Len(applications) \in Nat /\ Len(applications') = Len(applications) + 1
      /\ \A a \in 1 .. Len(applications) : applications'[a] = applications[a]
      /\ applications'[Len(applications) + 1] = new
  BY <1>1, <1>2
<1>4. TablesOK'
  BY <1>3 DEF CreateAdmissionRequest, Base, TypeOK, TablesOK
<1>5. HistoryOK'
  BY DEF CreateAdmissionRequest, Marked, Base, TypeOK, HistoryOK
<1>6. RowsOK'
  BY <1>1, <1>3 DEF CreateAdmissionRequest, Base, RowsOK
<1>7. \A v \in Workers \ {w} : Kept(v)
  BY <1>3 DEF CreateAdmissionRequest, Kept, Base, TypeOK, TablesOK
<1> QED BY <1>4, <1>5, <1>6, <1>7, AnswerWrites DEF CreateAdmissionRequest

\* What a decision writes.
LEMMA Decided ==
  ASSUME Base, NEW w \in Workers, SaveAdmissionRequest(w)
  PROVE  /\ req[w].n \in 1 .. Len(applications) /\ copy[w] = "pending"
         /\ applications' \in Seq(Application) /\ Len(applications') = Len(applications)
         /\ \A a \in 1 .. Len(applications) :
              /\ applications'[a].key = applications[a].key
              /\ a # req[w].n => applications'[a] = applications[a]
         /\ applications'[req[w].n].status = req[w].word
<1> DEFINE n == req[w].n
           new == [applications[n] EXCEPT !.status = req[w].word]
<1>1. n \in 1 .. Len(applications) /\ req[w].word \in {"approved", "rejected"} /\ copy[w] = "pending"
  BY DEF SaveAdmissionRequest, Base, Phase, At, OwnerAt
<1>2. applications \in Seq(Application) /\ applications[n] \in Application
  BY <1>1 DEF Base, TypeOK, TablesOK
<1>3. new \in Application /\ new.key = applications[n].key /\ new.status = req[w].word
  BY <1>1, <1>2 DEF Application
<1>4. applications' = [applications EXCEPT ![n] = new]
  BY DEF SaveAdmissionRequest
<1> HIDE DEF n, new
<1>5. /\ applications' \in Seq(Application) /\ Len(applications') = Len(applications)
      /\ applications'[n] = new
      /\ \A a \in 1 .. Len(applications) : a # n => applications'[a] = applications[a]
  BY <1>1, <1>2, <1>3, <1>4
<1> QED BY <1>1, <1>3, <1>5 DEF n

LEMMA ApplicationDecided ==
  ASSUME Base, NEW w \in Workers, SaveAdmissionRequest(w)
  PROVE  Base'
<1> DEFINE n == req[w].n
<1>1. TablesOK'
  BY Decided DEF SaveAdmissionRequest, Base, TypeOK, TablesOK
<1>2. applications[n].key \in Keys
  <2>1. applications[n] \in Application
    BY Decided DEF Base, TypeOK, TablesOK
  <2> QED BY <2>1 DEF Application
<1>3. /\ approved \subseteq approved' /\ approved' \subseteq Keys
      /\ req[w].word = "approved" => applications[n].key \in approved'
  BY <1>2 DEF SaveAdmissionRequest, Base, TypeOK, HistoryOK
<1>4. HistoryOK'
  BY <1>3 DEF SaveAdmissionRequest, Marked, Base, TypeOK, HistoryOK
<1>5. RowsOK'
  BY <1>3, Decided DEF SaveAdmissionRequest, Base, RowsOK
<1>6. \A v \in Workers \ {w} : Kept(v)
  BY <1>3, Decided DEF SaveAdmissionRequest, Kept, Base, TypeOK, TablesOK
<1> QED BY <1>1, <1>4, <1>5, <1>6, AnswerWrites DEF SaveAdmissionRequest

LEMMA PolicySaved ==
  ASSUME Base, NEW w \in Workers, SavePolicy(w)
  PROVE  Base'
<1>1. /\ copy[w] \in Policy
      /\ req[w].op = "policy" => req[w].word \in PolicyTypes
  BY DEF SavePolicy, Base, Phase, At, SignInAt
<1>2. policy' \in Policy
  BY <1>1 DEF SavePolicy, Policy, Codes
<1>3. inForce' = inForce \union {policy'.type} /\ policy'.type \in PolicyTypes
  BY <1>2 DEF SavePolicy, Policy
<1>4. TablesOK' /\ HistoryOK'
  BY <1>2, <1>3 DEF SavePolicy, Marked, identity, Base, TypeOK, TablesOK, HistoryOK
<1>5. RowsOK'
  BY <1>2, <1>3 DEF SavePolicy, identity, Base, RowsOK
<1>6. \A v \in Workers \ {w} : Kept(v)
  BY <1>3 DEF SavePolicy, Kept, identity, Base, TypeOK, TablesOK
<1> QED BY <1>4, <1>5, <1>6, AnswerWrites DEF SavePolicy

LEMMA UserSaved ==
  ASSUME Base, NEW w \in Workers, SaveUser(w)
  PROVE  Base'
<1>1. password' \in BOOLEAN
  BY DEF SaveUser, Base, Phase, At, OwnerAt
<1>2. TablesOK' /\ HistoryOK' /\ RowsOK'
  BY <1>1 DEF SaveUser, Marked, identity, Base, TypeOK, TablesOK, HistoryOK, RowsOK
<1>3. \A v \in Workers \ {w} : Kept(v)
  BY DEF SaveUser, Kept, identity, Base, TypeOK, TablesOK
<1> QED BY <1>2, <1>3, AnswerWrites DEF SaveUser

LEMMA ConfirmationIssued ==
  ASSUME Base, NEW w \in Workers, IssueConfirmation(w)
  PROVE  Base'
<1> DEFINE new == [op |-> req[w].word, state |-> "open"]
<1>1. new \in Confirmation /\ new # None
  BY AccountsAssumption DEF IssueConfirmation, Base, Phase, At, OwnerAt, Confirmation
<1> HIDE DEF new
<1>2. PICK n \in Confirmations : confirmations' = [confirmations EXCEPT ![n] = new]
  BY DEF IssueConfirmation, new
<1>3. /\ confirmations' \in [Confirmations -> Confirmation \union {None}]
      /\ \A m \in Confirmations : confirmations[m] # None => confirmations'[m] # None
  BY <1>1, <1>2 DEF Base, TypeOK, TablesOK
<1>4. TablesOK' /\ HistoryOK' /\ RowsOK'
  BY <1>3 DEF IssueConfirmation, identity, history, Base, TypeOK, TablesOK, HistoryOK, RowsOK
<1>5. \A v \in Workers \ {w} : Kept(v)
  BY <1>3 DEF IssueConfirmation, Kept, identity, history, Base, TypeOK, TablesOK
<1> QED BY <1>4, <1>5, AnswerWrites DEF IssueConfirmation

\* A confirmation that is marked is there, and no longer open.
LEMMA Marks ==
  ASSUME Base, NEW w \in Workers, MarkUsed(w)
  PROVE  /\ req[w].n \in Confirmations
         /\ confirmations[req[w].n] \in Confirmation
         /\ confirmations' \in [Confirmations -> Confirmation \union {None}]
         /\ \A m \in Confirmations \ {req[w].n} : confirmations'[m] = confirmations[m]
         /\ confirmations'[req[w].n] \in Confirmation
         /\ confirmations'[req[w].n].state # "open"
<1>1. confirmations \in [Confirmations -> Confirmation \union {None}]
  BY DEF Base, TypeOK, TablesOK
<1>2. req[w].n \in Confirmations /\ confirmations[req[w].n] \in Confirmation
  BY <1>1 DEF MarkUsed, Base, Phase, At, OwnerAt
<1> DEFINE new == [confirmations[req[w].n] EXCEPT !.state = "used"]
<1>3. new \in Confirmation /\ new.state = "used"
  BY <1>2 DEF Confirmation
<1>4. confirmations' = IF confirmations[req[w].n].state = "open"
                         THEN [confirmations EXCEPT ![req[w].n] = new] ELSE confirmations
  BY DEF MarkUsed, Used
<1> HIDE DEF new
<1> QED BY <1>1, <1>2, <1>3, <1>4

LEMMA ConfirmationMarked ==
  ASSUME Base, NEW w \in Workers, MarkUsed(w)
  PROVE  Base'
<1>1. At(w, pc[w], req[w], copy[w])
  BY DEF Base, Phase
<1>2. \A m \in Confirmations : confirmations[m] # None => confirmations'[m] # None
  BY Marks, AccountsAssumption
<1>3. TablesOK'
  BY Marks DEF MarkUsed, identity, Base, TypeOK, TablesOK
<1>4. HistoryOK'
  <2>1. admits' \in [Confirmations -> Nat]
    <3>1. admits \in [Confirmations -> Nat] /\ req[w].n \in Confirmations
      BY Marks DEF Base, TypeOK, HistoryOK
    <3>2. admits' = [admits EXCEPT ![req[w].n] = admits[req[w].n] + 1]
      BY DEF MarkUsed
    <3> QED BY <3>1, <3>2
  <2> QED BY <2>1 DEF MarkUsed, Marked, Base, TypeOK, HistoryOK
<1>5. RowsOK'
  BY DEF MarkUsed, identity, Base, RowsOK
<1>6. \A v \in Workers \ {w} : Kept(v)
  BY <1>2 DEF MarkUsed, Kept, identity, Base, TypeOK, TablesOK
<1>7. Moved(w, AfterConfirmation(w), req[w], copy[w])
  <2>1. AfterConfirmation(w) \in Steps
    BY DEF AfterConfirmation, Steps
  <2> QED BY <2>1, GotoMoves DEF MarkUsed, Base, TypeOK
<1>8. Phase(w)'
  BY <1>1, <1>7 DEF MarkUsed, AfterConfirmation, Phase, At, SignInAt, OwnerAt, DeviceAt, Moved
<1> QED BY <1>3, <1>4, <1>5, <1>6, <1>7, <1>8, StepKeepsBase

\* A renamed device is the one that was there, as it was when it was read.
LEMMA Renamed ==
  ASSUME Base, NEW w \in Workers, UpdateDevice(w)
  PROVE  /\ req[w].tgt \in Devices /\ devices[req[w].tgt] \in Device
         /\ copy[w] \in Device /\ copy[w] # None
         /\ copy[w].user = Owner /\ copy[w].status = "active"
         /\ copy[w].via = devices[req[w].tgt].via
         /\ devices' \in [Devices -> Device \union {None}]
         /\ devices'[req[w].tgt] = copy[w]
         /\ \A d \in Devices \ {req[w].tgt} : devices'[d] = devices[d]
<1>1. devices \in [Devices -> Device \union {None}] /\ None \notin Device
  BY AccountsAssumption DEF Base, TypeOK, TablesOK
<1>2. /\ req[w].tgt \in Devices /\ devices[req[w].tgt] \in Device
      /\ copy[w] \in Device /\ copy[w].user = Owner /\ copy[w].status = "active"
      /\ copy[w].via = devices[req[w].tgt].via
  BY <1>1 DEF UpdateDevice, Base, Phase, At, DeviceAt
<1> QED BY <1>1, <1>2 DEF UpdateDevice

LEMMA DeviceRenamed ==
  ASSUME Base, NEW w \in Workers, UpdateDevice(w)
  PROVE  Base'
<1>1. TablesOK'
  BY Renamed DEF UpdateDevice, identity, Base, TypeOK, TablesOK
<1>2. HistoryOK' /\ RowsOK'
  BY DEF UpdateDevice, Marked, identity, Base, TypeOK, HistoryOK, RowsOK
<1>3. \A d \in Devices : devices[d] # None => devices'[d] # None /\ devices'[d].via = devices[d].via
  BY Renamed
<1>4. \A v \in Workers \ {w} : Kept(v)
  BY <1>3 DEF UpdateDevice, Kept, identity, Base, TypeOK, TablesOK
<1> QED BY <1>1, <1>2, <1>4, AnswerWrites DEF UpdateDevice

\* A revocation changes the status of one device that was active, if any.
LEMMA Revoked ==
  ASSUME Base, NEW w \in Workers, SetRevoked(w)
  PROVE  /\ req[w].tgt \in Devices /\ devices[req[w].tgt] \in Device
         /\ devices' \in [Devices -> Device \union {None}]
         /\ \A d \in Devices \ {req[w].tgt} : devices'[d] = devices[d]
         /\ devices'[req[w].tgt] \in Device
         /\ devices'[req[w].tgt].via = devices[req[w].tgt].via
         /\ devices[req[w].tgt].status = "revoked" => devices'[req[w].tgt] = devices[req[w].tgt]
<1>1. devices \in [Devices -> Device \union {None}] /\ None \notin Device
  BY AccountsAssumption DEF Base, TypeOK, TablesOK
<1>2. req[w].tgt \in Devices /\ devices[req[w].tgt] \in Device
  BY <1>1 DEF SetRevoked, Base, Phase, At, DeviceAt
<1> DEFINE new == [devices[req[w].tgt] EXCEPT !.status = "revoked"]
<1>3. new \in Device /\ new.via = devices[req[w].tgt].via
  BY <1>2 DEF Device
<1>4. devices' = IF devices[req[w].tgt].status = "active"
                   THEN [devices EXCEPT ![req[w].tgt] = new] ELSE devices
  BY DEF SetRevoked
<1> HIDE DEF new
<1> QED BY <1>1, <1>2, <1>3, <1>4

LEMMA DeviceRevoked ==
  ASSUME Base, NEW w \in Workers, SetRevoked(w)
  PROVE  Base'
<1>1. TablesOK'
  BY Revoked DEF SetRevoked, identity, Base, TypeOK, TablesOK
<1>2. HistoryOK' /\ RowsOK'
  BY DEF SetRevoked, Marked, identity, Base, TypeOK, HistoryOK, RowsOK
<1>3. \A d \in Devices : devices[d] # None => devices'[d] # None /\ devices'[d].via = devices[d].via
  <2>1. None \notin Device
    BY AccountsAssumption
  <2> QED BY <2>1, Revoked
<1>4. \A v \in Workers \ {w} : Kept(v)
  BY <1>3 DEF SetRevoked, Kept, identity, Base, TypeOK, TablesOK
<1> QED BY <1>1, <1>2, <1>4, AnswerWrites DEF SetRevoked

\* A new session has a number of its own.
LEMMA Opened ==
  ASSUME Base, NEW w \in Workers, CreateSession(w)
  PROVE  \E s \in Sessions :
           /\ sessions[s] = None
           /\ sessions' \in [Sessions -> Session \union {None}]
           /\ sessions'[s] # None /\ sessions'[s].by = None
           /\ \A t \in Sessions \ {s} : sessions'[t] = sessions[t]
<1> DEFINE new == [state |-> "open", by |-> None]
<1>1. new \in Session /\ new # None /\ new.by = None
  BY AccountsAssumption DEF Session
<1> HIDE DEF new
<1>2. PICK s \in Sessions : sessions[s] = None /\ sessions' = [sessions EXCEPT ![s] = new]
  BY DEF CreateSession, new
<1> QED BY <1>1, <1>2 DEF Base, TypeOK, TablesOK

LEMMA SessionCreated ==
  ASSUME Base, NEW w \in Workers, CreateSession(w)
  PROVE  Base'
<1>1. PICK s \in Sessions :
        /\ sessions[s] = None
        /\ sessions' \in [Sessions -> Session \union {None}]
        /\ sessions'[s] # None /\ sessions'[s].by = None
        /\ \A t \in Sessions \ {s} : sessions'[t] = sessions[t]
  BY Opened
<1>2. TablesOK' /\ HistoryOK' /\ RowsOK'
  BY <1>1 DEF CreateSession, identity, history, Base, TypeOK, TablesOK, HistoryOK, RowsOK
<1>3. \A v \in Workers \ {w} : Kept(v)
  BY <1>1 DEF CreateSession, Kept, identity, history, Base, TypeOK, TablesOK
<1> QED BY <1>2, <1>3, AnswerWrites DEF CreateSession

LEMMA SessionLocked ==
  ASSUME Base, NEW w \in Workers, LockSession(w)
  PROVE  Base'
<1>1. At(w, pc[w], req[w], copy[w])
  BY DEF Base, Phase
<1>2. /\ req[w].n \in Sessions /\ sessions[req[w].n] # None /\ req[w].tgt \in Devices
      /\ sessionLock[req[w].n] = None /\ None \notin Workers
  BY <1>1, AccountsAssumption DEF LockSession, At, DeviceAt
<1>3. CASE Answer(w) /\ UNCHANGED sessionLock
  <2>1. UNCHANGED tables
    BY <1>3 DEF LockSession, tables, identity
  <2> QED BY <1>3, <2>1, AnswerKeepsBase
<1>4. CASE /\ sessions[req[w].n].state = "open" /\ Goto(w, "insert")
           /\ sessionLock' = [sessionLock EXCEPT ![req[w].n] = w]
  <2>1. TablesOK' /\ HistoryOK' /\ RowsOK'
    BY <1>2, <1>4 DEF LockSession, identity, history, Base, TypeOK, TablesOK, HistoryOK, RowsOK
  <2>2. \A v \in Workers \ {w} : Kept(v)
    BY <1>2, <1>4 DEF LockSession, Kept, identity, history, Base, TypeOK, TablesOK
  <2>3. Moved(w, "insert", req[w], copy[w])
    BY <1>4, GotoMoves DEF Base, TypeOK, Steps
  <2>4. /\ sessions'[req[w].n] # None /\ sessions'[req[w].n].by = None
        /\ sessionLock'[req[w].n] = w
    BY <1>2, <1>4 DEF LockSession, Base, TypeOK, TablesOK, RowsOK
  <2>5. Phase(w)'
    BY <1>2, <2>3, <2>4 DEF Phase, At, SignInAt, OwnerAt, DeviceAt, Moved
  <2> QED BY <2>1, <2>2, <2>3, <2>5, StepKeepsBase
<1> QED BY <1>3, <1>4 DEF LockSession

\* Who inserts holds the lock of a session that nobody has used: either a new device
\* and the session name one another then, or nothing is written.
LEMMA Claimed ==
  ASSUME Base, NEW w \in Workers, ClaimPairingSession(w)
  PROVE  /\ req[w].n \in Sessions /\ req[w].tgt \in Devices
         /\ sessionLock[req[w].n] = w /\ sessions[req[w].n].by = None
         /\ sessions[req[w].n] # None
         /\ \/ UNCHANGED <<devices, sessions>>
            \/ /\ devices[req[w].tgt] = None
               /\ devices' \in [Devices -> Device \union {None}]
               /\ sessions' \in [Sessions -> Session \union {None}]
               /\ devices'[req[w].tgt] = NewDevice(Owner, req[w].n)
               /\ sessions'[req[w].n] # None
               /\ sessions'[req[w].n].state = "used" /\ sessions'[req[w].n].by = req[w].tgt
               /\ \A d \in Devices \ {req[w].tgt} : devices'[d] = devices[d]
               /\ \A s \in Sessions \ {req[w].n} : sessions'[s] = sessions[s]
<1>1. /\ devices \in [Devices -> Device \union {None}]
      /\ sessions \in [Sessions -> Session \union {None}]
      /\ None \notin Session /\ Owner \in Keys
  BY AccountsAssumption DEF Base, TypeOK, TablesOK
<1>2. /\ req[w].n \in Sessions /\ req[w].tgt \in Devices
      /\ sessionLock[req[w].n] = w /\ sessions[req[w].n].by = None
      /\ sessions[req[w].n] # None
  BY DEF ClaimPairingSession, Base, Phase, At, DeviceAt
<1> DEFINE new == [state |-> "used", by |-> req[w].tgt]
<1>3. new \in Session /\ new.state = "used" /\ new.by = req[w].tgt
  BY <1>2 DEF Session
<1>4. NewDevice(Owner, req[w].n) \in Device
  BY <1>1, <1>2, NewDeviceTyped, AccountsAssumption DEF Sessions
<1>5. \/ UNCHANGED <<devices, sessions>>
      \/ /\ devices[req[w].tgt] = None
         /\ devices' = [devices EXCEPT ![req[w].tgt] = NewDevice(Owner, req[w].n)]
         /\ sessions' = [sessions EXCEPT ![req[w].n] = new]
  BY DEF ClaimPairingSession
<1> HIDE DEF new
<1> QED BY <1>1, <1>2, <1>3, <1>4, <1>5

LEMMA SessionClaimed ==
  ASSUME Base, NEW w \in Workers, ClaimPairingSession(w)
  PROVE  Base'
<1>1. sessionLock' = [sessionLock EXCEPT ![req[w].n] = None]
  BY DEF ClaimPairingSession
<1>2. TablesOK'
  BY <1>1, Claimed DEF ClaimPairingSession, identity, Base, TypeOK, TablesOK
<1>3. HistoryOK'
  BY DEF ClaimPairingSession, history, Base, TypeOK, HistoryOK
<1>4. RowsOK'
  BY Claimed DEF ClaimPairingSession, identity, history, Base, RowsOK
<1>5. /\ \A d \in Devices : devices[d] # None => devices'[d] = devices[d]
      /\ \A s \in Sessions : sessions[s] # None => sessions'[s] # None
  BY Claimed
<1>6. ASSUME NEW v \in Workers \ {w}, NEW s \in Sessions, sessionLock[s] = v
      PROVE  sessionLock'[s] = v /\ sessions'[s].by = sessions[s].by
  <2>1. s # req[w].n
    BY <1>6, Claimed
  <2> QED BY <1>1, <1>6, <2>1, Claimed DEF Base, TypeOK, TablesOK
<1>7. \A v \in Workers \ {w} : Kept(v)
  BY <1>5, <1>6 DEF ClaimPairingSession, Kept, identity, history, Base, TypeOK, TablesOK
<1> QED BY <1>2, <1>3, <1>4, <1>7, AnswerWrites DEF ClaimPairingSession

LEMMA Failed ==
  ASSUME Base, NEW w \in Workers, Fail(w)
  PROVE  Base'
<1>1. /\ sessionLock' \in [Sessions -> Workers \union {None}]
      /\ \A v \in Workers \ {w} : \A s \in Sessions : sessionLock[s] = v => sessionLock'[s] = v
  BY DEF Fail, Base, TypeOK, TablesOK
<1>2. TablesOK' /\ HistoryOK' /\ RowsOK'
  BY <1>1 DEF Fail, identity, history, Base, TypeOK, TablesOK, HistoryOK, RowsOK
<1>3. \A v \in Workers \ {w} : Kept(v)
  BY <1>1 DEF Fail, Kept, identity, history, Base, TypeOK, TablesOK
<1> QED BY <1>2, <1>3, AnswerWrites DEF Fail

\* Every step keeps the inductive invariant.
LEMMA BaseStep == Base /\ [Next]_vars => Base'
<1> SUFFICES ASSUME Base, [Next]_vars PROVE Base'
  OBVIOUS
<1>1. CASE UNCHANGED vars
  <2>1. UNCHANGED tables /\ UNCHANGED <<worker, bound>>
    BY <1>1 DEF vars, tables
  <2>2. TablesOK' /\ HistoryOK' /\ RowsOK'
    BY <2>1 DEF tables, history, Base, TypeOK, TablesOK, HistoryOK, RowsOK
  <2>3. \A v \in Workers : Kept(v)
    BY <2>1 DEF tables, history, Kept, Base, TypeOK, TablesOK
  <2> QED BY <2>1, <2>2, <2>3, TableWrites
<1>2. ASSUME NEW w \in Workers, SignIn(w) PROVE Base'
  BY <1>2, SignInReads, ChallengeMarked, UserCreated, DeviceCreated DEF SignIn
<1>3. ASSUME NEW w \in Workers, Admission(w) PROVE Base'
  BY <1>3, AdmissionReads, PolicyCreated, ApplicationCreated, ApplicationDecided, PolicySaved
     DEF Admission
<1>4. ASSUME NEW w \in Workers, Confirming(w) PROVE Base'
  BY <1>4, ConfirmingReads, UserSaved, ConfirmationIssued, ConfirmationMarked DEF Confirming
<1>5. ASSUME NEW w \in Workers, DeviceRequest(w) PROVE Base'
  BY <1>5, DeviceReads, PairingReads, DeviceRenamed, DeviceRevoked, SessionCreated,
     SessionLocked, SessionClaimed DEF DeviceRequest
<1> QED BY <1>1, <1>2, <1>3, <1>4, <1>5, ChallengeSteps, ConfirmationLapses, SessionLapses,
           Failed DEF Next

LEMMA BaseInit == Init => Base
<1> SUFFICES ASSUME Init PROVE Base
  OBVIOUS
<1>1. PICK sc \in Scenarios :
        /\ kinds = sc.kinds
        /\ password = sc.password
        /\ devices = [d \in Devices |->
             IF d \in sc.home THEN NewDevice(Owner, 0) ELSE None]
        /\ confirmations = [n \in Confirmations |->
             IF n <= Len(sc.issued) THEN [op |-> sc.issued[n], state |-> "open"] ELSE None]
        /\ applications = [a \in 1 .. Len(sc.waiting) |->
             [key |-> sc.waiting[a], status |-> "pending"]]
  BY DEF Init
<1>2. /\ sc.kinds \subseteq Kinds /\ sc.password \in BOOLEAN
      /\ sc.issued \in Seq(Operations) /\ sc.waiting \in Seq(Keys \ {Owner})
  BY AccountsAssumption
<1>3. LocalsOK
  BY <1>1, <1>2, RequestTyped DEF Init, LocalsOK, Steps
<1>4. devices \in [Devices -> Device \union {None}]
  BY <1>1, NewDeviceTyped, AccountsAssumption
<1>5. confirmations \in [Confirmations -> Confirmation \union {None}]
  <2>1. ASSUME NEW n \in Confirmations, n <= Len(sc.issued)
        PROVE  [op |-> sc.issued[n], state |-> "open"] \in Confirmation
    <3>1. sc.issued[n] \in Operations
      BY <1>2, <2>1, AccountsAssumption DEF Confirmations
    <3> QED BY <3>1 DEF Confirmation
  <2> QED BY <1>1, <2>1
<1>6. /\ applications \in Seq(Application)
      /\ \A a \in 1 .. Len(applications) : applications[a].status = "pending"
  <2>1. \A a \in 1 .. Len(sc.waiting) : sc.waiting[a] \in Keys
    BY <1>2
  <2>2. \A a \in 1 .. Len(sc.waiting) :
          [key |-> sc.waiting[a], status |-> "pending"] \in Application
    BY <2>1 DEF Application
  <2>3. Len(sc.waiting) \in Nat
    BY <1>2
  <2>4. applications \in Seq(Application) /\ Len(applications) = Len(sc.waiting)
    BY <1>1, <2>2, <2>3
  <2> QED BY <1>1, <2>4
<1>7. TablesOK
  BY <1>1, <1>2, <1>4, <1>5, <1>6, AccountsAssumption DEF Init, TablesOK
<1>8. HistoryOK
  BY AccountsAssumption DEF Init, HistoryOK
<1>9. RowsOK
  BY <1>6 DEF Init, RowsOK
<1>10. \A w \in Workers : Phase(w)
  BY DEF Init, Phase, At, SignInAt, OwnerAt, DeviceAt
<1> QED BY <1>3, <1>7, <1>8, <1>9, <1>10 DEF Base, TypeOK

\* Every variable keeps its type, and every request finds at each of its steps what
\* it relies on: the row it is about to write is there, it has read what it is going
\* to compare, and who inserts a paired device holds the lock of its session.
THEOREM BaseHolds == Spec => []Base
<1>1. Init => Base
  BY BaseInit
<1>2. Base /\ [Next]_vars => Base'
  BY BaseStep
<1> QED BY <1>1, <1>2, PTL DEF Spec
-----------------------------------------------------------------------------
(* The steps that change what the properties are about. *)

rows == <<users, password, devices, applications, sessions, confirmations, stale, inForce,
          approved, admits>>

Writes(w) ==
  \/ CreateUser(w) \/ CreateDevice(w) \/ UpdateDevice(w) \/ SetRevoked(w)
  \/ CreateSession(w) \/ ClaimPairingSession(w)
  \/ CreateAdmissionRequest(w) \/ SaveAdmissionRequest(w) \/ SavePolicy(w)
  \/ SaveUser(w) \/ IssueConfirmation(w) \/ MarkUsed(w)

LEMMA Writers ==
  ASSUME [Next]_vars
  PROVE  \/ UNCHANGED rows
         \/ \E w \in Workers : Writes(w)
         \/ \E n \in Confirmations : ConfirmationExpires(n)
         \/ \E s \in Sessions : SessionExpires(s)
<1>1. CASE UNCHANGED vars
  BY <1>1 DEF vars, history, rows
<1>2. CASE InitiateChallenge \/ \E c \in Challenges : ChallengeExpires(c)
  BY <1>2 DEF InitiateChallenge, ChallengeExpires, history, rows
<1>3. ASSUME NEW w \in Workers, SignIn(w) PROVE UNCHANGED rows \/ Writes(w)
  BY <1>3 DEF SignIn, Writes, VerifySignature, GetChallenge, MarkChallengeUsed, FindUser,
              FindDevice, identity, history, rows
<1>4. ASSUME NEW w \in Workers, Admission(w) PROVE UNCHANGED rows \/ Writes(w)
  BY <1>4 DEF Admission, Writes, GetPolicy, CreatePolicy, CheckAdmission, GetLatestRequest,
              DecideRequest, GetAdmissionRequest, UpdatePolicy, UpdateInvitationCode,
              identity, history, rows
<1>5. ASSUME NEW w \in Workers, Confirming(w) PROVE UNCHANGED rows \/ Writes(w)
  BY <1>5 DEF Confirming, Writes, UserRequest, GetUser, GetUsableConfirmation,
              identity, history, rows
<1>6. ASSUME NEW w \in Workers, DeviceRequest(w) PROVE UNCHANGED rows \/ Writes(w)
  BY <1>6 DEF DeviceRequest, Writes, RenameDevice, GetNamedDevice, RevokeDevice, GetTarget,
              CountActiveDevices, StartPairing, GetPairer, ClaimPairing, GetSession,
              GetNewDevice, LockSession, identity, history, rows
<1>7. ASSUME NEW w \in Workers, Fail(w) PROVE UNCHANGED rows
  BY <1>7 DEF Fail, identity, history, rows
<1> QED BY <1>1, <1>2, <1>3, <1>4, <1>5, <1>6, <1>7 DEF Next

\* While approval is the only policy that was ever in force, an account is created only
\* for a key whose application was approved: a sign-in reads the policy, the latest
\* application and the account in three statements, and decisions and changes of the
\* policy come between them.
THEOREM ApprovalAdmits == Spec => []AdmittedByApproval
<1>1. Init => AdmittedByApproval
  BY DEF Init, AdmittedByApproval
<1>2. ASSUME Base, AdmittedByApproval, [Next]_vars PROVE AdmittedByApproval'
  <2>1. CASE UNCHANGED rows
    BY <1>2, <2>1 DEF rows, AdmittedByApproval
  <2>2. ASSUME NEW w \in Workers, CreateUser(w) PROVE AdmittedByApproval'
    <3>1. inForce = {"approval"} => req[w].key \in approved
      BY <1>2, <2>2 DEF CreateUser, Base, Phase, At, SignInAt
    <3> QED BY <1>2, <2>2, <3>1 DEF CreateUser, history, AdmittedByApproval
  <2>3. ASSUME NEW w \in Workers, SaveAdmissionRequest(w) PROVE AdmittedByApproval'
    BY <1>2, <2>3 DEF SaveAdmissionRequest, AdmittedByApproval
  <2>4. ASSUME NEW w \in Workers, SavePolicy(w) PROVE AdmittedByApproval'
    BY <1>2, <2>4 DEF SavePolicy, identity, Base, RowsOK, AdmittedByApproval
  <2>5. ASSUME NEW w \in Workers, Writes(w), ~ CreateUser(w), ~ SaveAdmissionRequest(w),
               ~ SavePolicy(w)
        PROVE  UNCHANGED <<users, inForce, approved>>
    BY <2>5 DEF Writes, CreateDevice, UpdateDevice, SetRevoked, CreateSession,
                ClaimPairingSession, CreateAdmissionRequest, SaveUser, IssueConfirmation,
                MarkUsed, identity, history
  <2>6. ASSUME NEW n \in Confirmations, ConfirmationExpires(n)
        PROVE  UNCHANGED <<users, inForce, approved>>
    BY <2>6 DEF ConfirmationExpires, identity, history
  <2>7. ASSUME NEW s \in Sessions, SessionExpires(s)
        PROVE  UNCHANGED <<users, inForce, approved>>
    BY <2>7 DEF SessionExpires, identity, history
  <2>8. UNCHANGED <<users, inForce, approved>> => AdmittedByApproval'
    BY <1>2 DEF AdmittedByApproval
  <2> QED BY <1>2, <2>1, <2>2, <2>3, <2>4, <2>5, <2>6, <2>7, <2>8, Writers
<1> QED BY <1>1, <1>2, BaseHolds, PTL DEF Spec

\* A device came by a session exactly if the session names it.
Paired ==
  \A s \in Sessions, d \in Devices :
    devices[d] # None /\ devices[d].via = s <=> sessions[s] # None /\ sessions[s].by = d

LEMMA PairedSaysOnce == Base => (PairingOnce <=> Paired)
<1> SUFFICES ASSUME Base, NEW s \in Sessions
    PROVE ({d \in Devices : devices[d] # None /\ devices[d].via = s} =
             IF sessions[s] # None /\ sessions[s].by # None THEN {sessions[s].by} ELSE {})
          <=> \A d \in Devices : devices[d] # None /\ devices[d].via = s <=>
                                 sessions[s] # None /\ sessions[s].by = d
  BY DEF PairingOnce, Paired
<1>1. sessions[s] \in Session \union {None}
  BY DEF Base, TypeOK, TablesOK
<1>2. sessions[s] # None => sessions[s].by \in Devices \union {None}
  BY <1>1 DEF Session
<1>3. None \notin Devices
  BY AccountsAssumption
<1> QED BY <1>2, <1>3

LEMMA PairedStep == Base /\ Paired /\ [Next]_vars => Paired'
<1> SUFFICES ASSUME Base, Paired, [Next]_vars PROVE Paired'
  OBVIOUS
<1>0. UNCHANGED <<devices, sessions>> => Paired'
  BY DEF Paired
<1>1. CASE UNCHANGED rows
  BY <1>0, <1>1 DEF rows
<1>2. ASSUME NEW w \in Workers, CreateDevice(w) PROVE Paired'
  <2>1. req[w].dev \in Devices /\ req[w].key \in Keys
    BY <1>2 DEF CreateDevice, Base, TypeOK, LocalsOK, RequestRow, Phase, At, SignInAt
  <2>2. NewDevice(req[w].key, 0).via = 0
    BY DEF NewDevice
  <2>3. 0 \notin Sessions
    BY AccountsAssumption DEF Sessions
  <2>4. ASSUME devices[req[w].dev] = None,
               devices' = [devices EXCEPT ![req[w].dev] = NewDevice(req[w].key, 0)]
        PROVE  Paired'
    <3>1. /\ devices'[req[w].dev] = NewDevice(req[w].key, 0)
          /\ \A d \in Devices \ {req[w].dev} : devices'[d] = devices[d]
          /\ sessions' = sessions
      BY <1>2, <2>1, <2>4 DEF CreateDevice, Base, TypeOK, TablesOK
    <3> QED BY <2>1, <2>2, <2>3, <2>4, <3>1 DEF Paired
  <2> QED BY <1>0, <1>2, <2>4 DEF CreateDevice
<1>3. ASSUME NEW w \in Workers, UpdateDevice(w) PROVE Paired'
  <2>1. /\ \A d \in Devices : devices[d] # None <=> devices'[d] # None
        /\ \A d \in Devices : devices[d] # None => devices'[d].via = devices[d].via
    BY <1>3, Renamed, AccountsAssumption
  <2>2. sessions' = sessions
    BY <1>3 DEF UpdateDevice
  <2> QED BY <2>1, <2>2 DEF Paired
<1>4. ASSUME NEW w \in Workers, SetRevoked(w) PROVE Paired'
  <2>1. None \notin Device
    BY AccountsAssumption
  <2>2. /\ \A d \in Devices : devices[d] # None <=> devices'[d] # None
        /\ \A d \in Devices : devices[d] # None => devices'[d].via = devices[d].via
    BY <1>4, <2>1, Revoked
  <2>3. sessions' = sessions
    BY <1>4 DEF SetRevoked
  <2> QED BY <2>2, <2>3 DEF Paired
<1>5. ASSUME NEW w \in Workers, CreateSession(w) PROVE Paired'
  <2>1. PICK s \in Sessions :
          /\ sessions[s] = None
          /\ sessions'[s] # None /\ sessions'[s].by = None
          /\ \A t \in Sessions \ {s} : sessions'[t] = sessions[t]
    BY <1>5, Opened
  <2>2. devices' = devices /\ None \notin Devices
    BY <1>5, AccountsAssumption DEF CreateSession
  <2> QED BY <2>1, <2>2 DEF Paired
<1>6. ASSUME NEW s \in Sessions, SessionExpires(s) PROVE Paired'
  <2>1. sessions[s] \in Session /\ sessions[s].by = None
    BY <1>6 DEF SessionExpires, Base, TypeOK, TablesOK, RowsOK
  <2> DEFINE new == [sessions[s] EXCEPT !.state = "expired"]
  <2>2. new \in Session /\ new.by = None
    BY <2>1 DEF Session
  <2> HIDE DEF new
  <2>3. sessions' = [sessions EXCEPT ![s] = new] /\ devices' = devices
    BY <1>6 DEF SessionExpires, new
  <2>4. /\ sessions'[s] # None /\ sessions'[s].by = None /\ sessions[s] # None
        /\ \A t \in Sessions \ {s} : sessions'[t] = sessions[t]
    BY <2>1, <2>2, <2>3, AccountsAssumption DEF Base, TypeOK, TablesOK
  <2> QED BY <2>1, <2>3, <2>4 DEF Paired
<1>7. ASSUME NEW w \in Workers, ClaimPairingSession(w) PROVE Paired'
  <2>1. CASE UNCHANGED <<devices, sessions>>
    BY <1>0, <2>1
  <2>2. CASE ~ UNCHANGED <<devices, sessions>>
    <3>1. /\ req[w].n \in Sessions /\ req[w].tgt \in Devices
          /\ sessions[req[w].n].by = None
          /\ devices[req[w].tgt] = None
          /\ devices'[req[w].tgt] = NewDevice(Owner, req[w].n)
          /\ sessions'[req[w].n] # None /\ sessions'[req[w].n].by = req[w].tgt
          /\ \A d \in Devices \ {req[w].tgt} : devices'[d] = devices[d]
          /\ \A s \in Sessions \ {req[w].n} : sessions'[s] = sessions[s]
      BY <1>7, <2>2, Claimed
    <3>2. NewDevice(Owner, req[w].n) # None /\ NewDevice(Owner, req[w].n).via = req[w].n
      BY <3>1, NewDeviceTyped, AccountsAssumption DEF Sessions
    <3>3. None \notin Devices
      BY AccountsAssumption
    <3> QED BY <3>1, <3>2, <3>3 DEF Paired
  <2> QED BY <2>1, <2>2
<1>8. ASSUME NEW w \in Workers, Writes(w), ~ CreateDevice(w), ~ UpdateDevice(w),
             ~ SetRevoked(w), ~ CreateSession(w), ~ ClaimPairingSession(w)
      PROVE  UNCHANGED <<devices, sessions>>
  BY <1>8 DEF Writes, CreateUser, CreateAdmissionRequest, SaveAdmissionRequest, SavePolicy,
              SaveUser, IssueConfirmation, MarkUsed, identity, history
<1>9. ASSUME NEW n \in Confirmations, ConfirmationExpires(n)
      PROVE  UNCHANGED <<devices, sessions>>
  BY <1>9 DEF ConfirmationExpires
<1> QED BY <1>0, <1>1, <1>2, <1>3, <1>4, <1>5, <1>6, <1>7, <1>8, <1>9, Writers

\* A pairing session makes at most one device, the one it names, and only if it is used,
\* however many claims of it run and fail at the same time.
THEOREM SessionPairsOnce == Spec => []PairingOnce
<1>1. Init => Paired
  <2> SUFFICES ASSUME Init, NEW d \in Devices, NEW s \in Sessions
      PROVE ~ (devices[d] # None /\ devices[d].via = s) /\ sessions[s] = None
    BY DEF Init, Paired
  <2>1. s # 0 /\ NewDevice(Owner, 0).via = 0
    BY AccountsAssumption DEF Sessions, NewDevice
  <2>2. devices[d] \in {NewDevice(Owner, 0), None}
    BY DEF Init
  <2>3. sessions[s] = None
    BY DEF Init
  <2> QED BY <2>1, <2>2, <2>3
<1>2. Base /\ Paired /\ [Next]_vars => Paired'
  BY PairedStep
<1>3. Base /\ Paired => PairingOnce
  BY PairedSaysOnce
<1> QED BY <1>1, <1>2, <1>3, BaseHolds, PTL DEF Spec

\* Among two devices or more there is another one than the given one.
LEMMA AnotherOne ==
  ASSUME NEW S, NEW x, Cardinality(S) > 1
  PROVE  S \ {x} # {}
<1> SUFFICES ASSUME S \subseteq {x} PROVE FALSE
  OBVIOUS
<1>1. S = {} \/ S = {x}
  OBVIOUS
<1>2. Cardinality(S) = 0 \/ Cardinality(S) = 1
  BY <1>1, FS_EmptySet, FS_Singleton
<1> QED BY <1>2

\* The owner keeps an active device, unless a revocation wrote with a count that was
\* out of date: renamings write back whole rows, claims and sign-ins add devices, and
\* a revocation has counted at least two.
THEOREM OneDeviceStays == Spec => []LastDeviceKept
<1>1. Init => LastDeviceKept
  <2> SUFFICES ASSUME Init PROVE Active # {}
    BY DEF LastDeviceKept
  <2>1. PICK sc \in Scenarios : devices = [d \in Devices |->
             IF d \in sc.home THEN NewDevice(Owner, 0) ELSE None]
    BY DEF Init
  <2>2. PICK d \in Devices : d \in sc.home
    BY AccountsAssumption
  <2>3. devices[d] = NewDevice(Owner, 0)
    BY <2>1, <2>2
  <2> QED BY <2>3, NewDeviceTyped, AccountsAssumption DEF Active, Mine
<1>2. ASSUME Base, LastDeviceKept, [Next]_vars PROVE LastDeviceKept'
  <2>0. /\ UNCHANGED <<devices, stale>> => LastDeviceKept'
        /\ Active \subseteq Active' /\ stale \subseteq stale' => LastDeviceKept'
    BY <1>2 DEF LastDeviceKept, Active, Mine
  <2>1. CASE UNCHANGED rows
    BY <2>0, <2>1 DEF rows
  <2>2. ASSUME NEW w \in Workers, CreateDevice(w) PROVE LastDeviceKept'
    <3>1. \A d \in Devices : devices[d] # None => devices'[d] = devices[d]
      BY <1>2, <2>2 DEF CreateDevice, Base, TypeOK, TablesOK
    <3> QED BY <2>0, <2>2, <3>1 DEF CreateDevice, history, Active, Mine
  <2>3. ASSUME NEW w \in Workers, UpdateDevice(w) PROVE LastDeviceKept'
    <3>1. Active \subseteq Active'
      BY <1>2, <2>3, Renamed DEF Active, Mine
    <3> QED BY <2>0, <2>3, <3>1 DEF UpdateDevice, Marked
  <2>4. ASSUME NEW w \in Workers, SetRevoked(w) PROVE LastDeviceKept'
    <3>1. CASE Active # copy[w]
      BY <2>4, <3>1 DEF SetRevoked, Marked, LastDeviceKept
    <3>2. CASE Active = copy[w]
      <4>1. Cardinality(Active) > 1
        BY <1>2, <2>4, <3>2 DEF SetRevoked, Base, Phase, At, DeviceAt
      <4>2. PICK d \in Active : d # req[w].tgt
        BY <4>1, AnotherOne
      <4>3. d \in Devices /\ devices'[d] = devices[d]
        BY <1>2, <2>4, <4>2, Revoked DEF Active
      <4> QED BY <4>2, <4>3 DEF Active, Mine, LastDeviceKept
    <3> QED BY <3>1, <3>2
  <2>5. ASSUME NEW w \in Workers, ClaimPairingSession(w) PROVE LastDeviceKept'
    <3>1. \A d \in Devices : devices[d] # None => devices'[d] = devices[d]
      BY <1>2, <2>5, Claimed
    <3> QED BY <2>0, <2>5, <3>1 DEF ClaimPairingSession, history, Active, Mine
  <2>6. ASSUME NEW w \in Workers, Writes(w), ~ CreateDevice(w), ~ UpdateDevice(w),
               ~ SetRevoked(w), ~ ClaimPairingSession(w)
        PROVE  devices' = devices /\ stale \subseteq stale'
    BY <2>6 DEF Writes, CreateUser, CreateAdmissionRequest, SaveAdmissionRequest, SavePolicy,
                SaveUser, IssueConfirmation, MarkUsed, CreateSession, Marked, identity, history
  <2>7. devices' = devices /\ stale \subseteq stale' => LastDeviceKept'
    BY <1>2 DEF LastDeviceKept, Active, Mine
  <2>8. ASSUME NEW n \in Confirmations, ConfirmationExpires(n)
        PROVE  UNCHANGED <<devices, stale>>
    BY <2>8 DEF ConfirmationExpires, history
  <2>9. ASSUME NEW s \in Sessions, SessionExpires(s)
        PROVE  UNCHANGED <<devices, stale>>
    BY <2>9 DEF SessionExpires, history
  <2> QED BY <1>2, <2>0, <2>1, <2>2, <2>3, <2>4, <2>5, <2>6, <2>7, <2>8, <2>9, Writers
<1> QED BY <1>1, <1>2, BaseHolds, PTL DEF Spec

LEMMA SpentStep == Base /\ Spent /\ [Next]_vars => Spent'
<1> SUFFICES ASSUME Base, Spent, [Next]_vars PROVE Spent'
  OBVIOUS
<1>0. UNCHANGED <<confirmations, admits>> => Spent'
  BY DEF Spent
<1>1. /\ confirmations \in [Confirmations -> Confirmation \union {None}]
      /\ None \notin Confirmation /\ admits \in [Confirmations -> Nat]
  BY AccountsAssumption DEF Base, TypeOK, TablesOK, HistoryOK
<1>2. CASE UNCHANGED rows
  BY <1>0, <1>2 DEF rows
<1>3. ASSUME NEW w \in Workers, IssueConfirmation(w) PROVE Spent'
  <2>1. PICK n \in Confirmations :
          /\ confirmations[n] = None
          /\ confirmations' = [confirmations EXCEPT ![n] = [op |-> req[w].word, state |-> "open"]]
    BY <1>3 DEF IssueConfirmation
  <2>2. \A m \in Confirmations : admits[m] > 0 => m # n /\ confirmations'[m] = confirmations[m]
    BY <1>1, <2>1 DEF Spent
  <2>3. admits' = admits
    BY <1>3 DEF IssueConfirmation, history
  <2> QED BY <2>2, <2>3 DEF Spent
<1>4. ASSUME NEW w \in Workers, MarkUsed(w) PROVE Spent'
  <2>1. \A m \in Confirmations \ {req[w].n} : admits'[m] = admits[m]
    BY <1>1, <1>4, Marks DEF MarkUsed
  <2> QED BY <1>1, <1>4, <2>1, Marks DEF Spent
<1>5. ASSUME NEW n \in Confirmations, ConfirmationExpires(n) PROVE Spent'
  <2> DEFINE new == [confirmations[n] EXCEPT !.state = "expired"]
  <2>1. new \in Confirmation /\ new.state = "expired"
    BY <1>1, <1>5 DEF ConfirmationExpires, Confirmation
  <2> HIDE DEF new
  <2>2. confirmations' = [confirmations EXCEPT ![n] = new] /\ admits' = admits
    BY <1>5 DEF ConfirmationExpires, history, new
  <2>3. /\ confirmations'[n] # None /\ confirmations'[n].state # "open"
        /\ \A m \in Confirmations \ {n} : confirmations'[m] = confirmations[m]
    BY <1>1, <2>1, <2>2
  <2> QED BY <2>2, <2>3 DEF Spent
<1>6. ASSUME NEW w \in Workers, Writes(w), ~ IssueConfirmation(w), ~ MarkUsed(w)
      PROVE  UNCHANGED <<confirmations, admits>>
  BY <1>6 DEF Writes, CreateUser, CreateDevice, UpdateDevice, SetRevoked, CreateSession,
              ClaimPairingSession, CreateAdmissionRequest, SaveAdmissionRequest, SavePolicy,
              SaveUser, identity, history
<1>7. ASSUME NEW s \in Sessions, SessionExpires(s) PROVE UNCHANGED <<confirmations, admits>>
  BY <1>7 DEF SessionExpires, history
<1> QED BY <1>0, <1>2, <1>3, <1>4, <1>5, <1>6, <1>7, Writers

\* A confirmation lets one request through, unless a request marked it that had read it
\* before another one did, or before it expired.
THEOREM ConfirmsOnce == Spec => []ConfirmationOnce
<1>1. Init => Spent /\ ConfirmationOnce
  BY DEF Init, Spent, ConfirmationOnce
<1>2. Base /\ Spent /\ [Next]_vars => Spent'
  BY SpentStep
<1>3. ASSUME Base, Spent, ConfirmationOnce, [Next]_vars PROVE ConfirmationOnce'
  <2>0. admits' = admits /\ stale \subseteq stale' => ConfirmationOnce'
    BY <1>3 DEF ConfirmationOnce
  <2>1. CASE UNCHANGED rows
    BY <2>0, <2>1 DEF rows
  <2>2. ASSUME NEW w \in Workers, MarkUsed(w) PROVE ConfirmationOnce'
    <3>1. CASE confirmations[req[w].n].state # "open"
      BY <2>2, <3>1 DEF MarkUsed, Marked, ConfirmationOnce
    <3>2. CASE confirmations[req[w].n].state = "open"
      <4>1. admits \in [Confirmations -> Nat] /\ req[w].n \in Confirmations
        BY <1>3, <2>2, Marks DEF Base, TypeOK, HistoryOK
      <4>2. admits[req[w].n] = 0
        BY <1>3, <3>2, <4>1 DEF Spent
      <4>3. /\ admits'[req[w].n] = 1
            /\ \A m \in Confirmations \ {req[w].n} : admits'[m] = admits[m]
        BY <2>2, <4>1, <4>2 DEF MarkUsed
      <4>4. stale' = stale
        BY <2>2, <3>2 DEF MarkUsed, Marked
      <4> QED BY <1>3, <4>3, <4>4 DEF ConfirmationOnce
    <3> QED BY <3>1, <3>2
  <2>3. ASSUME NEW w \in Workers, Writes(w), ~ MarkUsed(w)
        PROVE  admits' = admits /\ stale \subseteq stale'
    BY <2>3 DEF Writes, CreateUser, CreateDevice, UpdateDevice, SetRevoked, CreateSession,
                ClaimPairingSession, CreateAdmissionRequest, SaveAdmissionRequest, SavePolicy,
                SaveUser, IssueConfirmation, Marked, history
  <2>4. ASSUME NEW n \in Confirmations, ConfirmationExpires(n)
        PROVE  admits' = admits /\ stale \subseteq stale'
    BY <2>4 DEF ConfirmationExpires, history
  <2>5. ASSUME NEW s \in Sessions, SessionExpires(s)
        PROVE  admits' = admits /\ stale \subseteq stale'
    BY <2>5 DEF SessionExpires, history
  <2> QED BY <1>3, <2>0, <2>1, <2>2, <2>3, <2>4, <2>5, Writers
<1> QED BY <1>1, <1>2, <1>3, BaseHolds, PTL DEF Spec

\* The application that is created gets the next number.
LEMMA Applied ==
  ASSUME Base, NEW w \in Workers, CreateAdmissionRequest(w)
  PROVE  /\ Len(applications) \in Nat /\ Len(applications') = Len(applications) + 1
         /\ \A a \in 1 .. Len(applications) : applications'[a] = applications[a]
         /\ applications'[Len(applications) + 1].key = req[w].key
<1> DEFINE new == [key |-> req[w].key, status |-> "pending"]
<1>1. new \in Application /\ new.key = req[w].key
  BY DEF Base, TypeOK, LocalsOK, RequestRow, Application
<1> HIDE DEF new
<1>2. applications' = Append(applications, new) /\ applications \in Seq(Application)
  BY DEF CreateAdmissionRequest, new, Base, TypeOK, TablesOK
<1> QED BY <1>1, <1>2

\* The writes that neither add nor decide an application.
LEMMA ApplicationsKept ==
  ASSUME NEW w \in Workers, Writes(w), ~ CreateAdmissionRequest(w), ~ SaveAdmissionRequest(w)
  PROVE  applications' = applications /\ stale \subseteq stale'
BY DEF Writes, CreateUser, CreateDevice, UpdateDevice, SetRevoked, CreateSession,
       ClaimPairingSession, SavePolicy, SaveUser, IssueConfirmation, MarkUsed, Marked,
       identity, history

LEMMA OneApplicationStep == Base /\ OneApplication /\ [Next]_vars => OneApplication'
<1> SUFFICES ASSUME Base, OneApplication, [Next]_vars PROVE OneApplication'
  OBVIOUS
<1>0. applications' = applications /\ stale \subseteq stale' => OneApplication'
  BY DEF OneApplication
<1>1. CASE UNCHANGED rows
  BY <1>0, <1>1 DEF rows
<1>2. ASSUME NEW w \in Workers, CreateAdmissionRequest(w) PROVE OneApplication'
  <2>1. CASE Applications(req[w].key) # {}
    BY <1>2, <2>1 DEF CreateAdmissionRequest, Marked, OneApplication
  <2>2. CASE Applications(req[w].key) = {}
    <3>1. \A a \in 1 .. Len(applications) : applications[a].key # req[w].key
      BY <2>2 DEF Applications
    <3>2. stale' = stale
      BY <1>2, <2>2 DEF CreateAdmissionRequest, Marked
    <3> QED BY <1>2, <3>1, <3>2, Applied DEF OneApplication
  <2> QED BY <2>1, <2>2
<1>3. ASSUME NEW w \in Workers, SaveAdmissionRequest(w) PROVE OneApplication'
  <2>1. stale \subseteq stale'
    BY <1>3 DEF SaveAdmissionRequest, Marked
  <2> QED BY <1>3, <2>1, Decided DEF OneApplication
<1>4. ASSUME NEW n \in Confirmations, ConfirmationExpires(n)
      PROVE  applications' = applications /\ stale \subseteq stale'
  BY <1>4 DEF ConfirmationExpires, identity, history
<1>5. ASSUME NEW s \in Sessions, SessionExpires(s)
      PROVE  applications' = applications /\ stale \subseteq stale'
  BY <1>5 DEF SessionExpires, identity, history
<1> QED BY <1>0, <1>1, <1>2, <1>3, <1>4, <1>5, ApplicationsKept, Writers

\* The three parts of NothingUndone, for one step.
RevokedStays ==
  "device" \in stale' \/ \A d \in Devices :
    devices[d] # None /\ devices[d].status = "revoked" => devices'[d] = devices[d]

VerdictStays ==
  "application" \in stale' \/ \A a \in 1 .. Len(applications) :
    applications[a].status # "pending" =>
      /\ applications'[a] = applications[a]
      /\ \A b \in a + 1 .. Len(applications') : applications'[b].key # applications[a].key

LEMMA RevokedStep == Base /\ [Next]_vars => RevokedStays
<1> SUFFICES ASSUME Base, [Next]_vars PROVE RevokedStays
  OBVIOUS
<1>0. devices' = devices => RevokedStays
  BY DEF RevokedStays
<1>1. CASE UNCHANGED rows
  BY <1>0, <1>1 DEF rows
<1>2. ASSUME NEW w \in Workers, CreateDevice(w) PROVE RevokedStays
  BY <1>2 DEF CreateDevice, Base, TypeOK, TablesOK, RevokedStays
<1>3. ASSUME NEW w \in Workers, UpdateDevice(w) PROVE RevokedStays
  <2>1. CASE devices[req[w].tgt] # copy[w]
    BY <1>3, <2>1 DEF UpdateDevice, Marked, RevokedStays
  <2>2. CASE devices[req[w].tgt] = copy[w]
    BY <1>3, <2>2, Renamed DEF RevokedStays
  <2> QED BY <2>1, <2>2
<1>4. ASSUME NEW w \in Workers, SetRevoked(w) PROVE RevokedStays
  BY <1>4, Revoked DEF RevokedStays
<1>5. ASSUME NEW w \in Workers, ClaimPairingSession(w) PROVE RevokedStays
  BY <1>5, Claimed DEF RevokedStays
<1>6. ASSUME NEW w \in Workers, Writes(w), ~ CreateDevice(w), ~ UpdateDevice(w),
             ~ SetRevoked(w), ~ ClaimPairingSession(w)
      PROVE  devices' = devices
  BY <1>6 DEF Writes, CreateUser, CreateAdmissionRequest, SaveAdmissionRequest, SavePolicy,
              SaveUser, IssueConfirmation, MarkUsed, CreateSession
<1>7. ASSUME NEW n \in Confirmations, ConfirmationExpires(n) PROVE devices' = devices
  BY <1>7 DEF ConfirmationExpires
<1>8. ASSUME NEW s \in Sessions, SessionExpires(s) PROVE devices' = devices
  BY <1>8 DEF SessionExpires
<1> QED BY <1>0, <1>1, <1>2, <1>3, <1>4, <1>5, <1>6, <1>7, <1>8, Writers

LEMMA PasswordStep == Base /\ [Next]_vars => "user" \in stale' \/ (password => password')
<1> SUFFICES ASSUME Base, [Next]_vars PROVE "user" \in stale' \/ (password => password')
  OBVIOUS
<1>1. CASE UNCHANGED rows
  BY <1>1 DEF rows
<1>2. ASSUME NEW w \in Workers, SaveUser(w) PROVE "user" \in stale' \/ (password => password')
  BY <1>2 DEF SaveUser, Marked
<1>3. ASSUME NEW w \in Workers, Writes(w), ~ SaveUser(w) PROVE password' = password
  BY <1>3 DEF Writes, CreateUser, CreateDevice, UpdateDevice, SetRevoked, CreateSession,
              ClaimPairingSession, CreateAdmissionRequest, SaveAdmissionRequest, SavePolicy,
              IssueConfirmation, MarkUsed
<1>4. ASSUME NEW n \in Confirmations, ConfirmationExpires(n) PROVE password' = password
  BY <1>4 DEF ConfirmationExpires
<1>5. ASSUME NEW s \in Sessions, SessionExpires(s) PROVE password' = password
  BY <1>5 DEF SessionExpires
<1> QED BY <1>1, <1>2, <1>3, <1>4, <1>5, Writers

LEMMA VerdictStep == Base /\ OneApplication /\ [Next]_vars => VerdictStays
<1> SUFFICES ASSUME Base, OneApplication, [Next]_vars PROVE VerdictStays
  OBVIOUS
<1>0. Len(applications) \in Nat
  BY DEF Base, TypeOK, TablesOK
<1>1. ASSUME applications' = applications, stale \subseteq stale' PROVE VerdictStays
  BY <1>0, <1>1 DEF OneApplication, VerdictStays
<1>2. CASE UNCHANGED rows
  BY <1>1, <1>2 DEF rows
<1>3. ASSUME NEW w \in Workers, CreateAdmissionRequest(w) PROVE VerdictStays
  <2>1. CASE Applications(req[w].key) # {}
    BY <1>3, <2>1 DEF CreateAdmissionRequest, Marked, VerdictStays
  <2>2. CASE Applications(req[w].key) = {}
    <3>1. \A a \in 1 .. Len(applications) : applications[a].key # req[w].key
      BY <2>2 DEF Applications
    <3>2. stale' = stale
      BY <1>3, <2>2 DEF CreateAdmissionRequest, Marked
    <3>3. ASSUME "application" \notin stale, NEW a \in 1 .. Len(applications),
                 NEW b \in a + 1 .. Len(applications')
          PROVE  applications'[b].key # applications[a].key
      <4>1. b \in 1 .. Len(applications) \/ b = Len(applications) + 1
        BY <1>0, <1>3, Applied
      <4>2. CASE b \in 1 .. Len(applications)
        BY <1>0, <1>3, <3>3, <4>2, Applied DEF OneApplication
      <4>3. CASE b = Len(applications) + 1
        BY <1>3, <3>1, <4>3, Applied
      <4> QED BY <4>1, <4>2, <4>3
    <3> QED BY <1>3, <3>2, <3>3, Applied DEF VerdictStays
  <2> QED BY <2>1, <2>2
<1>4. ASSUME NEW w \in Workers, SaveAdmissionRequest(w) PROVE VerdictStays
  <2>1. CASE applications[req[w].n].status # copy[w]
    BY <1>4, <2>1 DEF SaveAdmissionRequest, Marked, VerdictStays
  <2>2. CASE applications[req[w].n].status = copy[w]
    <3>1. stale' = stale
      BY <1>4, <2>2 DEF SaveAdmissionRequest, Marked
    <3>2. \A a \in 1 .. Len(applications) :
            applications[a].status # "pending" => applications'[a] = applications[a]
      BY <1>4, <2>2, Decided
    <3>3. ASSUME "application" \notin stale, NEW a \in 1 .. Len(applications),
                 NEW b \in a + 1 .. Len(applications')
          PROVE  applications'[b].key # applications[a].key
      <4>1. b \in 1 .. Len(applications) /\ b # a
        BY <1>0, <1>4, Decided
      <4>2. applications'[b].key = applications[b].key
        BY <1>4, <4>1, Decided
      <4> QED BY <3>3, <4>1, <4>2 DEF OneApplication
    <3> QED BY <3>1, <3>2, <3>3 DEF VerdictStays
  <2> QED BY <2>1, <2>2
<1>5. ASSUME NEW n \in Confirmations, ConfirmationExpires(n)
      PROVE  applications' = applications /\ stale \subseteq stale'
  BY <1>5 DEF ConfirmationExpires, identity, history
<1>6. ASSUME NEW s \in Sessions, SessionExpires(s)
      PROVE  applications' = applications /\ stale \subseteq stale'
  BY <1>6 DEF SessionExpires, identity, history
<1> QED BY <1>1, <1>2, <1>3, <1>4, <1>5, <1>6, ApplicationsKept, Writers

LEMMA OneApplicationInit == Init => OneApplication
<1> SUFFICES ASSUME Init PROVE OneApplication
  OBVIOUS
<1>1. PICK sc \in Scenarios : applications = [a \in 1 .. Len(sc.waiting) |->
             [key |-> sc.waiting[a], status |-> "pending"]]
  BY DEF Init
<1>2. /\ sc.waiting \in Seq(Keys \ {Owner})
      /\ \A a, b \in DOMAIN sc.waiting : sc.waiting[a] = sc.waiting[b] => a = b
  BY AccountsAssumption
<1>3. Len(applications) = Len(sc.waiting) /\ DOMAIN sc.waiting = 1 .. Len(sc.waiting)
  <2>1. Len(sc.waiting) \in Nat /\ DOMAIN applications = 1 .. Len(sc.waiting)
    BY <1>1, <1>2
  <2>2. applications \in Seq(Application)
    BY BaseInit DEF Base, TypeOK, TablesOK
  <2> QED BY <1>2, <2>1, <2>2
<1> QED BY <1>1, <1>2, <1>3 DEF OneApplication

\* What was revoked, set or decided stays so, in every step: a revoked device is not
\* active again, a password stays set, a verdict stands and no later application of
\* the same key takes its place, unless a Save wrote back a copy that was out of date.
THEOREM DoneStays == Spec => NothingUndone
<1>1. Base /\ OneApplication /\ [Next]_vars =>
        [/\ "device" \in stale' \/ \A d \in Devices :
              devices[d] # None /\ devices[d].status = "revoked" => devices'[d] = devices[d]
         /\ "user" \in stale' \/ (password => password')
         /\ "application" \in stale' \/ \A a \in 1 .. Len(applications) :
              applications[a].status # "pending" =>
                /\ applications'[a] = applications[a]
                /\ \A b \in a + 1 .. Len(applications') :
                     applications'[b].key # applications[a].key]_vars
  BY RevokedStep, PasswordStep, VerdictStep DEF RevokedStays, VerdictStays
<1>2. Base /\ OneApplication /\ [Next]_vars => OneApplication'
  BY OneApplicationStep
<1>3. Init => OneApplication
  BY OneApplicationInit
<1> QED BY <1>1, <1>2, <1>3, BaseHolds, PTL DEF Spec, NothingUndone
=============================================================================
