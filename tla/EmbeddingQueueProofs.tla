------------------------- MODULE EmbeddingQueueProofs -------------------------
(* Proofs about EmbeddingQueue, for any number of workers, documents and         *)
(* attempts.  The inductive invariant says what a claim has locked, what a       *)
(* worker holds, and that a job which can still be claimed has attempts left.    *)
EXTENDS EmbeddingQueue, TLAPS, WellFoundedInduction

\* A claim holds the locks of its batch, and its rows are still claimable.
ClaimsLocked ==
  \A w \in Workers : pc[w] = "claim" =>
    \A d \in batch[w] : rowLock[d] = w /\ Claimable(d)

\* A job that may be claimed again has an attempt left.
AttemptsLeft ==
  \A d \in Docs : jobs[d] # None /\ jobs[d].status \in {"pending", "retrying"} =>
    jobs[d].attempts < MaxAttempts

\* No job is in the batches of two workers, and a worker at a job has a job.
HoldersDisjoint ==
  \A v, w \in Workers : v # w /\ Holding(v) /\ Holding(w) =>
    batch[v] \intersect batch[w] = {}

AtAJob == \A w \in Workers : Holding(w) \/ pc[w] = "claim" => batch[w] # {}

Inv ==
  TypeOK /\ ClaimsLocked /\ AttemptsLeft /\ HoldersDisjoint /\ AtAJob /\ HeldIsLocked

\* A nonempty set of document numbers has a least element.
LEMMA LeastDoc ==
  ASSUME NEW D \in SUBSET Docs, D # {}
  PROVE  \E d \in D : \A e \in D : d <= e
<1>1. Docs \subseteq Nat
  BY QueueAssumption DEF Docs
<1>2. \E d \in D : \A e \in D : ~ (<<e, d>> \in OpToRel(<, Nat))
  BY <1>1, NatLessThanWellFounded, WFMin
<1>3. PICK d \in D : \A e \in D : ~ (<<e, d>> \in OpToRel(<, Nat))
  BY <1>2
<1>4. \A e \in D : ~ (e < d)
  BY <1>1, <1>3 DEF OpToRel
<1> QED
  BY <1>1, <1>4

\* The job at hand is one of the batch.
LEMMA CurrentIn ==
  ASSUME TypeOK, AtAJob, NEW w \in Workers, Holding(w)
  PROVE  Current(w) \in batch[w] /\ Current(w) \in Docs
<1>1. batch[w] \in SUBSET Docs /\ batch[w] # {}
  BY DEF TypeOK, AtAJob
<1>2. \E d \in batch[w] : \A e \in batch[w] : d <= e
  BY <1>1, LeastDoc
<1>3. Current(w) \in batch[w]
  BY <1>2 DEF Current
<1> QED
  BY <1>1, <1>3

LEMMA InvInit == Init => Inv
<1> SUFFICES ASSUME Init PROVE Inv
  OBVIOUS
<1>1. TypeOK
  BY QueueAssumption DEF Init, TypeOK
<1>2. ClaimsLocked /\ AttemptsLeft
  BY DEF Init, ClaimsLocked, AttemptsLeft
<1>3. HoldersDisjoint /\ AtAJob /\ HeldIsLocked
  BY DEF Init, HoldersDisjoint, AtAJob, HeldIsLocked, Holding
<1> QED
  BY <1>1, <1>2, <1>3 DEF Inv

\* New and retried jobs are not in anybody's hands.
LEMMA JobsEnter ==
  ASSUME Inv, IndexSnapshot \/ RetryFailedJobs \/ (\E d \in Docs : BackoffPasses(d))
  PROVE  Inv'
<1> USE QueueAssumption DEF Inv
<1>0. UNCHANGED <<embedded, rowLock, pc, batch, attempt, cancelled>>
  BY DEF IndexSnapshot, RetryFailedJobs, BackoffPasses, worker
<1>1. NewJob \in Job
  BY DEF NewJob, Job, Statuses
<1>2. /\ jobs' \in [Docs -> Job \union {None}]
      /\ \A d \in Docs :
           \/ jobs'[d] = jobs[d]
           \/ jobs'[d] = NewJob
              /\ (jobs[d] = None \/ jobs[d].status = "failed")
           \/ jobs'[d] = [jobs[d] EXCEPT !.due = TRUE]
              /\ jobs[d] # None /\ jobs[d].status = "retrying"
  <2>1. CASE IndexSnapshot
    BY <1>1, <2>1 DEF IndexSnapshot, ReplaceSnapshotDocuments, TypeOK
  <2>2. CASE RetryFailedJobs
    BY <1>1, <2>2 DEF RetryFailedJobs, Indexed, TypeOK
  <2>3. CASE \E d \in Docs : BackoffPasses(d)
    <3>1. PICK d \in Docs : BackoffPasses(d)
      BY <2>3
    <3>2. /\ jobs \in [Docs -> Job \union {None}] /\ jobs[d] \in Job
          /\ jobs[d].status = "retrying"
          /\ jobs' = [jobs EXCEPT ![d] = [jobs[d] EXCEPT !.due = TRUE]]
      BY <3>1 DEF BackoffPasses, Indexed, TypeOK
    <3>3. [jobs[d] EXCEPT !.due = TRUE] \in Job
      BY <3>2 DEF Job
    <3> QED
      BY <3>2, <3>3
  <2> QED
    BY <2>1, <2>2, <2>3
<1>3. retries' \in 0 .. MaxRetries
  BY DEF IndexSnapshot, RetryFailedJobs, BackoffPasses, TypeOK
<1>4. TypeOK'
  BY <1>0, <1>2, <1>3 DEF TypeOK
<1>5. AttemptsLeft'
  BY <1>2 DEF AttemptsLeft, TypeOK, Job, NewJob
<1>6. ClaimsLocked'
  <2> SUFFICES ASSUME NEW w \in Workers, pc'[w] = "claim", NEW d \in batch'[w]
               PROVE  rowLock'[d] = w /\ Claimable(d)'
    BY DEF ClaimsLocked
  <2>1. d \in Docs /\ rowLock[d] = w /\ Claimable(d)
    BY <1>0 DEF ClaimsLocked, TypeOK
  <2>2. jobs[d] \in Job /\ jobs[d].status \in {"pending", "retrying"} /\ jobs[d].due = TRUE
    BY <2>1 DEF Claimable, Indexed, TypeOK, Job
  <2>3. jobs'[d] = jobs[d] \/ jobs'[d] = [jobs[d] EXCEPT !.due = TRUE]
    BY <1>2, <2>1, <2>2
  <2>4. jobs'[d] # None /\ jobs'[d].status = jobs[d].status /\ jobs'[d].due = TRUE
    BY <2>2, <2>3 DEF Job
  <2> QED
    BY <1>0, <2>1, <2>2, <2>4 DEF Claimable, Indexed
<1>7. (HoldersDisjoint /\ AtAJob)'
  BY <1>0 DEF HoldersDisjoint, AtAJob, Holding
<1>8. HeldIsLocked'
  <2> SUFFICES ASSUME NEW w \in Workers, Holding(w)', NEW d \in batch'[w]
               PROVE  /\ jobs'[d] # None /\ jobs'[d].attempts = attempt'[w][d]
                      /\ \/ jobs'[d].status = "processing" /\ jobs'[d].by = w
                         \/ jobs'[d].status = "ready" /\ pc'[w] = "fail" /\ d = Current(w)'
    BY DEF HeldIsLocked
  <2>1. Holding(w) /\ d \in batch[w] /\ d \in Docs /\ Current(w)' = Current(w)
    BY <1>0 DEF Holding, Current, TypeOK
  <2>2. jobs[d] # None /\ jobs[d].status \in {"processing", "ready"}
    BY <2>1 DEF HeldIsLocked
  <2>3. jobs'[d] = jobs[d]
    BY <1>2, <2>1, <2>2
  <2> QED
    BY <1>0, <2>1, <2>3 DEF HeldIsLocked
<1> QED
  BY <1>4, <1>5, <1>6, <1>7, <1>8

\* SELECT ... FOR UPDATE SKIP LOCKED changes no row.
LEMMA Selects ==
  ASSUME Inv, NEW w \in Workers, SelectJobs(w)
  PROVE  Inv'
<1> USE QueueAssumption DEF Inv
<1> DEFINE free == {d \in Docs : Claimable(d) /\ rowLock[d] = None}
           C == FirstOf(free)
<1>1. C \subseteq free /\ C \subseteq Docs
  BY DEF FirstOf
<1>2. /\ pc[w] = "poll" /\ pc' = [pc EXCEPT ![w] = "claim"] /\ C # {}
      /\ batch' = [batch EXCEPT ![w] = C]
      /\ rowLock' = [d \in Docs |-> IF d \in C THEN w ELSE rowLock[d]]
      /\ UNCHANGED <<jobs, embedded, attempt, cancelled, retries>>
  BY DEF SelectJobs, Goto, table
<1> HIDE DEF C
<1>3. TypeOK'
  BY <1>1, <1>2 DEF TypeOK
<1>4. \A v \in Workers : v # w => pc'[v] = pc[v] /\ batch'[v] = batch[v]
  BY <1>2 DEF TypeOK
<1>5. pc'[w] = "claim" /\ batch'[w] = C
  BY <1>2 DEF TypeOK
<1>6. ClaimsLocked'
  <2> SUFFICES ASSUME NEW v \in Workers, pc'[v] = "claim", NEW d \in batch'[v]
               PROVE  rowLock'[d] = v /\ Claimable(d)'
    BY DEF ClaimsLocked
  <2>1. Claimable(d)' <=> Claimable(d)
    BY <1>2 DEF Claimable, Indexed
  <2>2. CASE v = w
    BY <1>1, <1>2, <1>5, <2>1, <2>2
  <2>3. CASE v # w
    <3>1. d \in Docs /\ rowLock[d] = v /\ Claimable(d)
      BY <1>4, <2>3 DEF ClaimsLocked, TypeOK
    <3>2. d \notin C
      BY <1>1, <3>1
    <3> QED
      BY <1>2, <2>1, <3>1, <3>2
  <2> QED
    BY <2>2, <2>3
<1>7. AttemptsLeft'
  BY <1>2 DEF AttemptsLeft
<1>8. (HoldersDisjoint /\ AtAJob)'
  BY <1>2, <1>4, <1>5 DEF HoldersDisjoint, AtAJob, Holding
<1>9. HeldIsLocked'
  BY <1>2, <1>4, <1>5 DEF HeldIsLocked, Holding, Current
<1> QED
  BY <1>3, <1>6, <1>7, <1>8, <1>9

\* The claim commits: nobody held the rows it had locked.
LEMMA Claims ==
  ASSUME Inv, NEW w \in Workers, ClaimJobs(w)
  PROVE  Inv'
<1> USE QueueAssumption DEF Inv
<1>1. /\ pc[w] = "claim" /\ pc' = [pc EXCEPT ![w] = "read"]
      /\ jobs' = [d \in Docs |-> IF d \in batch[w] THEN Claimed(w, d) ELSE jobs[d]]
      /\ attempt' = [attempt EXCEPT ![w] = [d \in Docs |->
                        IF d \in batch[w] THEN jobs[d].attempts + 1 ELSE 0]]
      /\ rowLock' = Unlocked(w)
      /\ UNCHANGED <<embedded, batch, cancelled, retries>>
  BY DEF ClaimJobs, Goto
<1>2. \A d \in batch[w] : /\ d \in Docs /\ rowLock[d] = w /\ Claimable(d)
                          /\ jobs[d] \in Job /\ jobs[d].attempts + 1 \in 0 .. MaxAttempts
                          /\ jobs[d].status \in {"pending", "retrying"}
  BY <1>1 DEF ClaimsLocked, Claimable, Indexed, AttemptsLeft, TypeOK, Job
<1>3. \A d \in batch[w] : /\ Claimed(w, d) \in Job
                          /\ Claimed(w, d).status = "processing" /\ Claimed(w, d).by = w
                          /\ Claimed(w, d).attempts = jobs[d].attempts + 1
  BY <1>2 DEF Claimed, Job, Statuses
<1>4. TypeOK'
  BY <1>1, <1>2, <1>3 DEF TypeOK, Unlocked
<1>5. \A v \in Workers : v # w => /\ pc'[v] = pc[v] /\ attempt'[v] = attempt[v]
                                  /\ \A d \in batch[v] : pc[v] = "claim" => d \notin batch[w]
                                  /\ \A d \in batch[v] : Holding(v) => d \notin batch[w]
  BY <1>1, <1>2 DEF TypeOK, ClaimsLocked, HeldIsLocked
<1>6. pc'[w] = "read"
  BY <1>1 DEF TypeOK
<1>7. ClaimsLocked'
  <2> SUFFICES ASSUME NEW v \in Workers, pc'[v] = "claim", NEW d \in batch'[v]
               PROVE  rowLock'[d] = v /\ Claimable(d)'
    BY DEF ClaimsLocked
  <2>1. v # w /\ pc[v] = "claim" /\ d \in batch[v] /\ d \in Docs
    BY <1>1, <1>5, <1>6 DEF TypeOK
  <2>2. rowLock[d] = v /\ Claimable(d) /\ d \notin batch[w]
    BY <1>5, <2>1 DEF ClaimsLocked
  <2> QED
    BY <1>1, <2>1, <2>2 DEF Claimable, Indexed, Unlocked
<1>8. AttemptsLeft'
  BY <1>1, <1>3 DEF AttemptsLeft
<1>9. AtAJob' /\ HoldersDisjoint'
  <2>1. batch[w] # {}
    BY <1>1 DEF AtAJob
  <2> QED
    BY <1>1, <1>5, <1>6, <2>1 DEF AtAJob, HoldersDisjoint, Holding
<1>10. HeldIsLocked'
  BY <1>1, <1>2, <1>3, <1>5, <1>6 DEF HeldIsLocked, Holding, Current, TypeOK
<1> QED
  BY <1>4, <1>7, <1>8, <1>9, <1>10

\* The worker lets go of its whole batch: a failed claim, a crash, and the other
\* steps of the process.
LEMMA LetsGo ==
  ASSUME Inv, NEW w \in Workers,
         ClaimFails(w) \/ Cancel(w) \/ Return(w) \/ Crash(w) \/ Start(w)
  PROVE  Inv'
<1> USE QueueAssumption DEF Inv
<1>1. /\ UNCHANGED <<jobs, embedded, retries>>
      /\ cancelled' \subseteq Workers
      /\ attempt' \in [Workers -> [Docs -> 0 .. MaxAttempts]]
      /\ \/ UNCHANGED <<pc, batch, rowLock, attempt>>
         \/ /\ pc' \in [Workers -> {"poll", "claim", "read", "embed", "complete",
                                    "fail", "down"}]
            /\ pc'[w] \in {"poll", "down"}
            /\ \A v \in Workers : v # w => /\ pc'[v] = pc[v] /\ batch'[v] = batch[v]
                                            /\ attempt'[v] = attempt[v]
            /\ batch' \in [Workers -> SUBSET Docs]
            /\ rowLock' \in {rowLock, Unlocked(w)}
  <2>1. CASE ClaimFails(w)
    BY <2>1 DEF ClaimFails, Goto, table, TypeOK
  <2>2. CASE Cancel(w)
    BY <2>2 DEF Cancel, table, worker, TypeOK
  <2>3. CASE Return(w)
    BY <2>3 DEF Return, Goto, table, TypeOK
  <2>4. CASE Crash(w)
    BY <2>4 DEF Crash, Goto, DropBatch, table, TypeOK
  <2>5. CASE Start(w)
    BY <2>5 DEF Start, Goto, table, TypeOK
  <2> QED
    BY <2>1, <2>2, <2>3, <2>4, <2>5
<1>2. rowLock' \in [Docs -> Workers \union {None}]
  BY <1>1 DEF Unlocked, TypeOK
<1>3. TypeOK'
  BY <1>1, <1>2 DEF TypeOK
<1>4. ClaimsLocked'
  <2> SUFFICES ASSUME NEW v \in Workers, pc'[v] = "claim", NEW d \in batch'[v]
               PROVE  rowLock'[d] = v /\ Claimable(d)'
    BY DEF ClaimsLocked
  <2>1. pc[v] = "claim" /\ d \in batch[v] /\ d \in Docs /\ rowLock'[d] = rowLock[d]
    BY <1>1 DEF TypeOK, ClaimsLocked, Unlocked
  <2> QED
    BY <1>1, <2>1 DEF ClaimsLocked, Claimable, Indexed
<1>5. AttemptsLeft'
  BY <1>1 DEF AttemptsLeft
<1>6. (HoldersDisjoint /\ AtAJob)'
  BY <1>1 DEF HoldersDisjoint, AtAJob, Holding
<1>7. HeldIsLocked'
  BY <1>1 DEF HeldIsLocked, Holding, Current
<1> QED
  BY <1>3, <1>4, <1>5, <1>6, <1>7

\* A row that worker w holds is in no other batch.
LEMMA OthersKeepOff ==
  ASSUME Inv, NEW w \in Workers, Holding(w), NEW d \in batch[w],
         NEW v \in Workers, v # w, Holding(v) \/ pc[v] = "claim"
  PROVE  d \notin batch[v]
BY DEF Inv, TypeOK, HoldersDisjoint, HeldIsLocked, ClaimsLocked, Claimable

\* Steps of a worker at a job: it may change the row of that job, it keeps or
\* shortens its batch, and the job left at hand is processing or just completed.
LEMMA AtTheJob ==
  ASSUME Inv, NEW w \in Workers, Holding(w),
         UNCHANGED <<rowLock, cancelled, retries>>,
         embedded' \subseteq Docs,
         jobs' \in [Docs -> Job \union {None}],
         \A e \in Docs \ {Current(w)} : jobs'[e] = jobs[e],
         jobs'[Current(w)] # None,
         jobs'[Current(w)].status \in {"pending", "retrying"} =>
           jobs'[Current(w)].attempts < MaxAttempts,
         pc' \in [Workers -> {"poll", "claim", "read", "embed", "complete", "fail", "down"}],
         pc'[w] # "claim",
         batch' \in [Workers -> SUBSET Docs], batch'[w] \subseteq batch[w],
         attempt' \in [Workers -> [Docs -> 0 .. MaxAttempts]],
         \A v \in Workers : v # w => /\ pc'[v] = pc[v] /\ batch'[v] = batch[v]
                                    /\ attempt'[v] = attempt[v],
         Holding(w)' =>
           /\ batch'[w] # {}
           /\ \A d \in batch'[w] :
                /\ jobs'[d] # None /\ jobs'[d].attempts = attempt'[w][d]
                /\ \/ jobs'[d].status = "processing" /\ jobs'[d].by = w
                   \/ jobs'[d].status = "ready" /\ pc'[w] = "fail" /\ d = Current(w)'
  PROVE  Inv'
<1> USE DEF Inv
<1>1. Current(w) \in batch[w] /\ Current(w) \in Docs
  BY CurrentIn
<1>2. TypeOK'
  BY DEF TypeOK
<1>3. \A v \in Workers : v # w /\ (Holding(v) \/ pc[v] = "claim") =>
        \A d \in batch[v] : d \in Docs /\ jobs'[d] = jobs[d]
  BY <1>1, OthersKeepOff DEF TypeOK
<1>4. ClaimsLocked'
  <2> SUFFICES ASSUME NEW v \in Workers, pc'[v] = "claim", NEW d \in batch'[v]
               PROVE  rowLock'[d] = v /\ Claimable(d)'
    BY DEF ClaimsLocked
  <2>1. v # w /\ pc[v] = "claim" /\ d \in batch[v]
    OBVIOUS
  <2>2. d \in Docs /\ jobs'[d] = jobs[d] /\ rowLock[d] = v /\ Claimable(d)
    BY <1>3, <2>1 DEF ClaimsLocked
  <2> QED
    BY <2>2 DEF Claimable, Indexed
<1>5. AttemptsLeft'
  BY DEF AttemptsLeft
<1>6. (HoldersDisjoint /\ AtAJob)'
  <2>1. \A v \in Workers : v # w => (Holding(v)' <=> Holding(v))
    BY DEF Holding
  <2>2. AtAJob'
    BY <2>1 DEF AtAJob
  <2>3. HoldersDisjoint'
    <3> SUFFICES ASSUME NEW u \in Workers, NEW v \in Workers, u # v,
                        Holding(u)', Holding(v)'
                 PROVE  batch'[u] \intersect batch'[v] = {}
      BY DEF HoldersDisjoint
    <3>1. \A x \in {u, v} : Holding(x) /\ batch'[x] \subseteq batch[x]
      BY <2>1
    <3> QED
      BY <3>1 DEF HoldersDisjoint
  <2> QED
    BY <2>2, <2>3
<1>7. HeldIsLocked'
  <2>1. \A v \in Workers : v # w => (Holding(v)' <=> Holding(v)) /\ Current(v)' = Current(v)
    BY DEF Holding, Current
  <2> QED
    BY <1>3, <2>1 DEF HeldIsLocked
<1> QED
  BY <1>2, <1>4, <1>5, <1>6, <1>7

\* The vector is stored and the job marked in one transaction.
LEMMA CompletedRow ==
  ASSUME Inv, NEW w \in Workers, Holding(w), Completed(w)
  PROVE  /\ jobs' \in [Docs -> Job \union {None}]
         /\ \A e \in Docs \ {Current(w)} : jobs'[e] = jobs[e]
         /\ jobs'[Current(w)] \in Job /\ jobs'[Current(w)].status = "ready"
         /\ jobs'[Current(w)].attempts = jobs[Current(w)].attempts
         /\ embedded' = embedded \union {Current(w)}
<1> DEFINE d == Current(w)
<1>1. d \in batch[w] /\ d \in Docs
  BY CurrentIn DEF Inv
<1>2. jobs \in [Docs -> Job \union {None}] /\ jobs[d] \in Job
  BY <1>1 DEF Inv, TypeOK, HeldIsLocked
<1> HIDE DEF d
<1>3. jobs' = [jobs EXCEPT ![d] = [jobs[d] EXCEPT !.status = "ready", !.by = None]]
  BY <1>1, <1>2 DEF Completed, d
<1>4. [jobs[d] EXCEPT !.status = "ready", !.by = None] \in Job
  BY <1>2 DEF Job, Statuses
<1>5. jobs'[d] \in Job /\ jobs'[d].status = "ready" /\ jobs'[d].attempts = jobs[d].attempts
  BY <1>1, <1>2, <1>3, <1>4 DEF Job
<1> QED
  BY <1>1, <1>2, <1>3, <1>4, <1>5 DEF Completed, d

\* The rest of the batch after the job at hand.
LEMMA NextJobRest ==
  ASSUME Inv, NEW w \in Workers, Holding(w), NextJob(w)
  PROVE  /\ pc' \in [Workers -> {"poll", "claim", "read", "embed", "complete", "fail", "down"}]
         /\ batch' \in [Workers -> SUBSET Docs]
         /\ attempt' \in [Workers -> [Docs -> 0 .. MaxAttempts]]
         /\ \A v \in Workers : v # w => /\ pc'[v] = pc[v] /\ batch'[v] = batch[v]
                                        /\ attempt'[v] = attempt[v]
         /\ batch'[w] = batch[w] \ {Current(w)}
         /\ \A d \in batch'[w] : attempt'[w][d] = attempt[w][d]
         /\ pc'[w] \in {"poll", "read"} /\ (pc'[w] = "read" => batch'[w] # {})
<1>1. Current(w) \in batch[w] /\ Current(w) \in Docs
  BY CurrentIn DEF Inv
<1>2. /\ pc' \in [Workers -> {"poll", "claim", "read", "embed", "complete", "fail", "down"}]
      /\ pc'[w] = (IF batch[w] = {Current(w)} THEN "poll" ELSE "read")
      /\ \A v \in Workers : v # w => pc'[v] = pc[v]
  BY DEF NextJob, Goto, Inv, TypeOK
<1>3. /\ batch' \in [Workers -> SUBSET Docs] /\ batch'[w] = batch[w] \ {Current(w)}
      /\ \A v \in Workers : v # w => batch'[v] = batch[v]
  BY DEF NextJob, Inv, TypeOK
<1>4. attempt' = [attempt EXCEPT ![w] = [attempt[w] EXCEPT ![Current(w)] = 0]]
  BY DEF NextJob
<1>5. [attempt[w] EXCEPT ![Current(w)] = 0] \in [Docs -> 0 .. MaxAttempts]
  <2>1. 0 \in 0 .. MaxAttempts
    BY QueueAssumption
  <2>2. attempt[w] \in [Docs -> 0 .. MaxAttempts]
    BY DEF Inv, TypeOK
  <2> QED
    BY <2>1, <2>2
<1>6. /\ attempt' \in [Workers -> [Docs -> 0 .. MaxAttempts]]
      /\ \A v \in Workers : v # w => attempt'[v] = attempt[v]
      /\ attempt'[w] = [attempt[w] EXCEPT ![Current(w)] = 0]
  BY <1>4, <1>5 DEF Inv, TypeOK
<1>7. \A d \in batch'[w] : attempt'[w][d] = attempt[w][d]
  BY <1>3, <1>6 DEF Inv, TypeOK
<1> QED
  BY <1>1, <1>2, <1>3, <1>6, <1>7

\* Reading the document and calling the provider.
LEMMA Reads ==
  ASSUME Inv, NEW w \in Workers, GetDocument(w) \/ EmbedTexts(w)
  PROVE  Inv'
<1>1. /\ Holding(w) /\ pc[w] # "fail"
      /\ UNCHANGED <<jobs, embedded, rowLock, batch, attempt, cancelled, retries>>
      /\ pc' = [pc EXCEPT ![w] = pc'[w]] /\ pc'[w] \in {"embed", "complete", "fail"}
  BY DEF GetDocument, EmbedTexts, Goto, Holding, table, Inv, TypeOK
<1>2. \A v \in Workers : v # w => pc'[v] = pc[v]
  BY <1>1 DEF Inv, TypeOK
<1>3. pc' \in [Workers -> {"poll", "claim", "read", "embed", "complete", "fail", "down"}]
  BY <1>1 DEF Inv, TypeOK
<1>4. Current(w) \in batch[w] /\ Current(w) \in Docs /\ batch[w] # {}
  BY <1>1, CurrentIn DEF Inv
<1>5. \A d \in batch[w] : /\ jobs[d] # None /\ jobs[d].attempts = attempt[w][d]
                          /\ jobs[d].status = "processing" /\ jobs[d].by = w
  BY <1>1 DEF Inv, HeldIsLocked
<1>6. jobs \in [Docs -> Job \union {None}] /\ embedded \subseteq Docs
  BY DEF Inv, TypeOK
<1>7. batch \in [Workers -> SUBSET Docs] /\ attempt \in [Workers -> [Docs -> 0 .. MaxAttempts]]
  BY DEF Inv, TypeOK
<1> QED
  BY <1>1, <1>2, <1>3, <1>4, <1>5, <1>6, <1>7, AtTheJob

\* CompleteJob, in each of its outcomes.
LEMMA Completes ==
  ASSUME Inv, NEW w \in Workers, CompleteJob(w)
  PROVE  Inv'
<1>1. Holding(w) /\ pc[w] = "complete" /\ UNCHANGED <<rowLock, cancelled, retries>>
  BY DEF CompleteJob, Holding
<1>2. Current(w) \in batch[w] /\ Current(w) \in Docs
  BY <1>1, CurrentIn DEF Inv
<1>3. \A d \in batch[w] : /\ d \in Docs /\ jobs[d] # None /\ jobs[d].attempts = attempt[w][d]
                          /\ jobs[d].status = "processing" /\ jobs[d].by = w
  BY <1>1 DEF Inv, TypeOK, HeldIsLocked
<1>4. /\ jobs \in [Docs -> Job \union {None}] /\ embedded \subseteq Docs
      /\ batch \in [Workers -> SUBSET Docs]
      /\ attempt \in [Workers -> [Docs -> 0 .. MaxAttempts]]
      /\ None \notin Job
  BY QueueAssumption DEF Inv, TypeOK
<1>5. CASE Completed(w) /\ NextJob(w)
  <2>1. \A d \in batch'[w] : jobs'[d] = jobs[d] /\ attempt'[w][d] = attempt[w][d]
                             /\ d \in batch[w]
    BY <1>1, <1>3, <1>5, CompletedRow, NextJobRest
  <2>2. /\ jobs' \in [Docs -> Job \union {None}]
        /\ \A e \in Docs \ {Current(w)} : jobs'[e] = jobs[e]
        /\ jobs'[Current(w)] # None /\ jobs'[Current(w)].status = "ready"
        /\ embedded' \subseteq Docs
    BY <1>1, <1>2, <1>4, <1>5, CompletedRow
  <2>3. /\ pc' \in [Workers -> {"poll", "claim", "read", "embed", "complete", "fail", "down"}]
        /\ batch' \in [Workers -> SUBSET Docs] /\ batch'[w] \subseteq batch[w]
        /\ attempt' \in [Workers -> [Docs -> 0 .. MaxAttempts]]
        /\ \A v \in Workers : v # w => /\ pc'[v] = pc[v] /\ batch'[v] = batch[v]
                                       /\ attempt'[v] = attempt[v]
        /\ pc'[w] \in {"poll", "read"} /\ (pc'[w] = "read" => batch'[w] # {})
    BY <1>1, <1>5, NextJobRest
  <2>4. \A d \in batch'[w] : /\ jobs'[d] # None /\ jobs'[d].attempts = attempt'[w][d]
                             /\ jobs'[d].status = "processing" /\ jobs'[d].by = w
    BY <1>3, <2>1
  <2>5. pc'[w] # "claim" /\ (Holding(w)' => batch'[w] # {})
    BY <2>3 DEF Holding
  <2> QED
    BY <1>1, <2>2, <2>3, <2>4, <2>5, AtTheJob
<1>6. ASSUME Goto(w, "fail"), UNCHANGED <<batch, attempt>>
      PROVE  /\ pc' \in [Workers -> {"poll", "claim", "read", "embed", "complete", "fail", "down"}]
             /\ pc'[w] = "fail" /\ \A v \in Workers : v # w => pc'[v] = pc[v]
             /\ Current(w)' = Current(w)
  BY <1>6 DEF Goto, Inv, TypeOK, Current
<1>7. CASE Completed(w) /\ Goto(w, "fail") /\ UNCHANGED <<batch, attempt>>
  BY <1>1, <1>2, <1>3, <1>4, <1>6, <1>7, CompletedRow, AtTheJob
<1>8. CASE Goto(w, "fail") /\ UNCHANGED <<table, batch, attempt>>
  BY <1>1, <1>2, <1>3, <1>4, <1>6, <1>8, AtTheJob DEF table
<1> QED
  BY <1>5, <1>7, <1>8 DEF CompleteJob

\* FailJob: the row it writes is its own, and has attempts left if it is to be retried.
LEMMA Fails ==
  ASSUME Inv, NEW w \in Workers, FailJob(w)
  PROVE  Inv'
<1> DEFINE c == Current(w)
<1>1. Holding(w) /\ pc[w] = "fail" /\ UNCHANGED <<embedded, rowLock, cancelled, retries>>
  BY DEF FailJob, Holding
<1>2. c \in batch[w] /\ c \in Docs
  BY <1>1, CurrentIn DEF Inv
<1>3. \A d \in batch[w] : /\ d \in Docs /\ jobs[d] # None /\ jobs[d].attempts = attempt[w][d]
                          /\ d # c => jobs[d].status = "processing" /\ jobs[d].by = w
  BY <1>1 DEF Inv, TypeOK, HeldIsLocked
<1>4. jobs[c].status \in {"processing", "ready"}
  BY <1>1, <1>2 DEF Inv, HeldIsLocked
<1>5. /\ jobs \in [Docs -> Job \union {None}] /\ embedded \subseteq Docs
      /\ batch \in [Workers -> SUBSET Docs]
      /\ attempt \in [Workers -> [Docs -> 0 .. MaxAttempts]]
      /\ None \notin Job /\ jobs[c] \in Job /\ MaxAttempts \in Nat \ {0}
  BY <1>2, <1>3, QueueAssumption DEF Inv, TypeOK
<1>6. /\ FailedRow(w, c) \in Job
      /\ FailedRow(w, c).status \in {"pending", "retrying"} =>
           FailedRow(w, c).attempts < MaxAttempts
  <2>1. FailedRow(w, c) \in Job
    BY <1>2, <1>5 DEF FailedRow, Job, Statuses
  <2>2. FailedRow(w, c).attempts = jobs[c].attempts /\ jobs[c].attempts \in Nat
    BY <1>5 DEF FailedRow, Job
  <2>3. FailedRow(w, c).status \in {"pending", "retrying"} => ~ (attempt[w][c] >= MaxAttempts)
    BY <1>5 DEF FailedRow, Job
  <2> QED
    BY <1>2, <1>3, <1>5, <2>1, <2>2, <2>3
<1>7. /\ jobs' \in [Docs -> Job \union {None}]
      /\ \A e \in Docs \ {c} : jobs'[e] = jobs[e]
      /\ jobs'[c] # None
      /\ jobs'[c].status \in {"pending", "retrying"} => jobs'[c].attempts < MaxAttempts
  <2>1. CASE jobs' = [jobs EXCEPT ![c] = FailedRow(w, c)]
    BY <1>2, <1>5, <1>6, <2>1
  <2>2. CASE UNCHANGED jobs
    BY <1>2, <1>4, <1>5, <2>2
  <2> QED
    BY <2>1, <2>2 DEF FailJob
<1>8. CASE NextJob(w)
  <2>1. \A d \in batch'[w] : jobs'[d] = jobs[d] /\ attempt'[w][d] = attempt[w][d]
                             /\ d \in batch[w] /\ d # c
    BY <1>1, <1>3, <1>7, <1>8, NextJobRest
  <2> HIDE DEF c
  <2> QED
    BY <1>1, <1>2, <1>3, <1>4, <1>5, <1>7, <1>8, <2>1, NextJobRest, AtTheJob DEF Holding, c
<1>9. CASE DropBatch(w) /\ Goto(w, "poll")
  <2>1. /\ pc' \in [Workers -> {"poll", "claim", "read", "embed", "complete", "fail", "down"}]
        /\ pc'[w] = "poll" /\ \A v \in Workers : v # w => pc'[v] = pc[v]
    BY <1>9 DEF Goto, Inv, TypeOK
  <2>2. /\ batch' \in [Workers -> SUBSET Docs] /\ batch'[w] = {}
        /\ \A v \in Workers : v # w => batch'[v] = batch[v]
    BY <1>5, <1>9 DEF DropBatch
  <2>3. /\ attempt' \in [Workers -> [Docs -> 0 .. MaxAttempts]]
        /\ \A v \in Workers : v # w => attempt'[v] = attempt[v]
    BY <1>5, <1>9 DEF DropBatch
  <2>4. ~ Holding(w)'
    BY <2>1 DEF Holding
  <2> QED
    BY <1>1, <1>5, <1>7, <2>1, <2>2, <2>3, <2>4, AtTheJob
<1> QED
  BY <1>8, <1>9 DEF FailJob

LEMMA InvStep == Inv /\ [Next]_vars => Inv'
<1> SUFFICES ASSUME Inv, [Next]_vars PROVE Inv'
  OBVIOUS
<1>1. CASE IndexSnapshot \/ RetryFailedJobs \/ (\E d \in Docs : BackoffPasses(d))
  BY <1>1, JobsEnter
<1>2. ASSUME NEW w \in Workers, SelectJobs(w) PROVE Inv'
  BY <1>2, Selects
<1>3. ASSUME NEW w \in Workers, ClaimJobs(w) PROVE Inv'
  BY <1>3, Claims
<1>4. ASSUME NEW w \in Workers,
             ClaimFails(w) \/ Cancel(w) \/ Return(w) \/ Crash(w) \/ Start(w)
      PROVE  Inv'
  BY <1>4, LetsGo
<1>5. ASSUME NEW w \in Workers, ProcessJob(w) PROVE Inv'
  BY <1>5, Reads, Completes, Fails DEF ProcessJob
<1>6. CASE UNCHANGED vars
  <2>1. UNCHANGED <<jobs, embedded, rowLock, pc, batch, attempt, cancelled, retries>>
    BY <1>6 DEF vars
  <2>2. TypeOK'
    BY <2>1 DEF Inv, TypeOK
  <2>3. (ClaimsLocked /\ AttemptsLeft)'
    BY <2>1 DEF Inv, ClaimsLocked, AttemptsLeft, Claimable, Indexed
  <2>4. (HoldersDisjoint /\ AtAJob /\ HeldIsLocked)'
    BY <2>1 DEF Inv, HoldersDisjoint, AtAJob, HeldIsLocked, Holding, Current
  <2> QED
    BY <2>2, <2>3, <2>4 DEF Inv
<1> QED
  BY <1>1, <1>2, <1>3, <1>4, <1>5, <1>6 DEF Next

\* A row becomes ready only in the transaction that stores its vector, and no step
\* takes a vector away.
LEMMA ReadyStep == Inv /\ ReadyHasEmbedding /\ [Next]_vars => ReadyHasEmbedding'
<1> SUFFICES ASSUME Inv, ReadyHasEmbedding, [Next]_vars PROVE ReadyHasEmbedding'
  OBVIOUS
<1> SUFFICES ASSUME NEW d \in Docs, jobs'[d] # None, jobs'[d].status = "ready"
             PROVE  d \in embedded'
  BY DEF ReadyHasEmbedding
<1>0. jobs \in [Docs -> Job \union {None}] /\ None \notin Job
  BY QueueAssumption DEF Inv, TypeOK
<1>1. ASSUME embedded \subseteq embedded', jobs'[d] = jobs[d] PROVE d \in embedded'
  BY <1>1 DEF ReadyHasEmbedding
<1>2. CASE IndexSnapshot \/ RetryFailedJobs
  <2>1. UNCHANGED embedded /\ (jobs'[d] = jobs[d] \/ jobs'[d] = NewJob)
    BY <1>0, <1>2 DEF IndexSnapshot, ReplaceSnapshotDocuments, RetryFailedJobs
  <2> QED
    BY <1>1, <2>1 DEF NewJob
<1>3. ASSUME NEW e \in Docs, BackoffPasses(e) PROVE d \in embedded'
  <2>1. UNCHANGED embedded /\ jobs[e] \in Job /\ jobs[e].status = "retrying"
    BY <1>0, <1>3 DEF BackoffPasses, Indexed
  <2>2. jobs' = [jobs EXCEPT ![e] = [jobs[e] EXCEPT !.due = TRUE]]
    BY <1>3 DEF BackoffPasses
  <2>3. d # e
    BY <1>0, <2>1, <2>2 DEF Job
  <2> QED
    BY <1>0, <1>1, <2>1, <2>2, <2>3
<1>4. ASSUME NEW w \in Workers, ClaimJobs(w) PROVE d \in embedded'
  <2>1. /\ UNCHANGED embedded
        /\ jobs'[d] = IF d \in batch[w] THEN Claimed(w, d) ELSE jobs[d]
    BY <1>4 DEF ClaimJobs
  <2>2. d \in batch[w] => jobs[d] \in Job
    BY <1>0, <1>4 DEF Inv, ClaimsLocked, Claimable, Indexed, ClaimJobs
  <2>3. d \notin batch[w]
    BY <2>1, <2>2 DEF Claimed, Job
  <2> QED
    BY <1>1, <2>1, <2>3
<1>5. ASSUME NEW w \in Workers, CompleteJob(w) PROVE d \in embedded'
  <2>1. Holding(w)
    BY <1>5 DEF CompleteJob, Holding
  <2>2. CASE Completed(w)
    BY <1>1, <2>1, <2>2, CompletedRow
  <2>3. CASE UNCHANGED table
    BY <1>1, <2>3 DEF table
  <2> QED
    BY <1>5, <2>2, <2>3 DEF CompleteJob
<1>6. ASSUME NEW w \in Workers, FailJob(w) PROVE d \in embedded'
  <2>1. Holding(w) /\ UNCHANGED embedded
    BY <1>6 DEF FailJob, Holding
  <2>2. Current(w) \in batch[w] /\ Current(w) \in Docs
    BY <2>1, CurrentIn DEF Inv
  <2>3. jobs[Current(w)] \in Job
    BY <1>0, <2>1, <2>2 DEF Inv, HeldIsLocked
  <2>4. FailedRow(w, Current(w)).status # "ready"
    BY <2>3 DEF FailedRow, Job
  <2>5. UNCHANGED jobs \/ jobs' = [jobs EXCEPT ![Current(w)] = FailedRow(w, Current(w))]
    BY <1>6 DEF FailJob
  <2>6. jobs'[d] = jobs[d]
    BY <1>0, <2>4, <2>5
  <2> QED
    BY <1>1, <2>1, <2>6
<1>7. CASE UNCHANGED table
  BY <1>1, <1>7 DEF table
<1>8. ASSUME NEW w \in Workers,
             \/ SelectJobs(w) \/ ClaimFails(w) \/ GetDocument(w) \/ EmbedTexts(w)
             \/ Cancel(w) \/ Return(w) \/ Crash(w) \/ Start(w)
      PROVE  UNCHANGED table
  BY <1>8 DEF SelectJobs, ClaimFails, GetDocument, EmbedTexts, Cancel, Return, Crash, Start
<1>9. CASE UNCHANGED vars
  BY <1>7, <1>9 DEF vars, table
<1> QED
  BY <1>2, <1>3, <1>4, <1>5, <1>6, <1>7, <1>8, <1>9 DEF Next, ProcessJob

\* The invariant holds in every state of the embedding queue.
THEOREM InductiveInvariant == Spec => [](Inv /\ ReadyHasEmbedding)
<1>1. Init => Inv /\ ReadyHasEmbedding
  BY InvInit DEF Init, ReadyHasEmbedding
<1>2. Inv /\ ReadyHasEmbedding /\ [Next]_vars => (Inv /\ ReadyHasEmbedding)'
  BY InvStep, ReadyStep
<1> QED
  BY <1>1, <1>2, PTL DEF Spec

\* Attempts are bounded by max_attempts, whatever fails: ClaimJobs counts one more
\* only for rows that FailJob or the enqueueing left below the limit.
THEOREM AttemptsBounded == Spec => []TypeOK
<1>1. Inv => TypeOK
  BY DEF Inv
<1> QED
  BY <1>1, InductiveInvariant, PTL

\* No worker completes or fails a job that another one has claimed, although
\* CompleteJob and FailJob find the row by its id alone.
THEOREM ClaimsExclusive == Spec => []HeldIsLocked
<1>1. Inv => HeldIsLocked
  BY DEF Inv
<1> QED
  BY <1>1, InductiveInvariant, PTL

\* A job is ready only if the vector of its document is stored (CompleteJob).
THEOREM ReadyIsEmbedded == Spec => []ReadyHasEmbedding
BY InductiveInvariant, PTL
=============================================================================
