---------------------------- MODULE EmbeddingQueue ----------------------------
(***************************************************************************)
(* The embedding queue of the search index: a published snapshot puts one  *)
(* job per search document into kb_embedding_jobs, and worker processes    *)
(* claim jobs in batches, ask the embedding provider for a vector and      *)
(* store it.  A claim is a transaction that selects due jobs FOR UPDATE    *)
(* SKIP LOCKED and then marks them; completing or failing a job finds its  *)
(* row by id alone.                                                        *)
(*                                                                         *)
(* Documents are numbered in the order of their creation, which is the     *)
(* order of the claims (all jobs have the default priority), and a job     *)
(* goes by the number of its document.  No code changes or deletes a       *)
(* document once it is indexed, so its hash always matches its job's.      *)
(* Texts, vectors and their dimensions are left out: an unusable answer of *)
(* the provider is one of its errors.                                      *)
(***************************************************************************)
EXTENDS Naturals, FiniteSets

CONSTANTS
  Workers,      \* worker processes
  None,         \* no row, no worker
  BatchSize,    \* jobs in a claim (8)
  MaxAttempts,  \* attempts before a job is failed (5)
  MaxDocs,      \* bound on the documents
  MaxRetries    \* bound on the calls of RetryFailedJobs

Docs == 1 .. MaxDocs

Statuses == {"pending", "processing", "ready", "retrying", "failed"}

\* A row: due says that available_at has come, by is locked_by.
Job == [status : Statuses, attempts : 0 .. MaxAttempts, due : BOOLEAN,
        by : Workers \union {None}]

ASSUME QueueAssumption ==
  /\ None \notin Workers /\ None \notin Job
  /\ {BatchSize, MaxAttempts} \subseteq Nat \ {0}
  /\ {MaxDocs, MaxRetries} \subseteq Nat

VARIABLES
  jobs,       \* kb_embedding_jobs; None for a document that is not indexed yet
  embedded,   \* the documents in kb_search_embeddings
  rowLock,    \* the claim that holds the lock of each job's row
  pc,         \* where each worker stands
  batch,      \* the claimed jobs each worker has still to process
  attempt,    \* the attempts in each worker's copy of a job of its batch
  cancelled,  \* workers whose context is cancelled
  retries     \* calls of RetryFailedJobs so far

table  == <<jobs, embedded>>
worker == <<pc, batch, attempt>>
vars   == <<jobs, embedded, rowLock, pc, batch, attempt, cancelled, retries>>

Init ==
  /\ jobs = [d \in Docs |-> None]
  /\ embedded = {}
  /\ rowLock = [d \in Docs |-> None]
  /\ pc = [w \in Workers |-> "poll"]
  /\ batch = [w \in Workers |-> {}]
  /\ attempt = [w \in Workers |-> [d \in Docs |-> 0]]
  /\ cancelled = {}
  /\ retries = 0

Goto(w, step) == pc' = [pc EXCEPT ![w] = step]
-----------------------------------------------------------------------------
(* The index and its owner. *)

Indexed == {d \in Docs : jobs[d] # None}

NewJob == [status |-> "pending", attempts |-> 0, due |-> TRUE, by |-> None]

\* The documents up to n and their jobs are inserted in one transaction.
ReplaceSnapshotDocuments(n) ==
  jobs' = [d \in Docs |-> IF d <= n /\ jobs[d] = None THEN NewJob ELSE jobs[d]]

\* A snapshot with one or more new documents is indexed.
IndexSnapshot ==
  /\ \E n \in Docs \ Indexed : ReplaceSnapshotDocuments(n)
  /\ UNCHANGED <<embedded, rowLock, worker, cancelled, retries>>

\* The owner has the failed jobs of a snapshot tried again from the start.
RetryFailedJobs ==
  /\ retries < MaxRetries
  /\ retries' = retries + 1
  /\ jobs' = [d \in Docs |-> IF d \in Indexed /\ jobs[d].status = "failed"
                             THEN NewJob ELSE jobs[d]]
  /\ UNCHANGED <<embedded, rowLock, worker, cancelled>>

\* The time passes available_at of a job that waits to be retried.
BackoffPasses(d) ==
  /\ d \in Indexed /\ jobs[d].status = "retrying" /\ ~ jobs[d].due
  /\ jobs' = [jobs EXCEPT ![d].due = TRUE]
  /\ UNCHANGED <<embedded, rowLock, worker, cancelled, retries>>
-----------------------------------------------------------------------------
(* The claim of a batch. *)

\* Mutant of Claimable: a job that waits to be retried is forgotten.
Claimable_PendingOnly(d) ==
  d \in Indexed /\ jobs[d].status = "pending" /\ jobs[d].due

Claimable(d) ==
  d \in Indexed /\ jobs[d].status \in {"pending", "retrying"} /\ jobs[d].due

\* The first BatchSize elements of D.
FirstOf(D) == {d \in D : Cardinality({e \in D : e < d}) < BatchSize}

\* Mutant of SelectJobs: without SKIP LOCKED and without the lock.
SelectJobs_Unlocked(w) ==
  LET candidates == FirstOf({d \in Docs : Claimable(d)})
  IN  /\ pc[w] = "poll"
      /\ candidates # {}
      /\ batch' = [batch EXCEPT ![w] = candidates]
      /\ Goto(w, "claim")
      /\ UNCHANGED <<table, rowLock, attempt, cancelled, retries>>

\* SELECT ... FOR UPDATE SKIP LOCKED.
SelectJobs(w) ==
  LET candidates == FirstOf({d \in Docs : Claimable(d) /\ rowLock[d] = None})
  IN  /\ pc[w] = "poll"
      /\ candidates # {}
      /\ batch' = [batch EXCEPT ![w] = candidates]
      /\ rowLock' = [d \in Docs |-> IF d \in candidates THEN w ELSE rowLock[d]]
      /\ Goto(w, "claim")
      /\ UNCHANGED <<table, attempt, cancelled, retries>>

Unlocked(w) == [d \in Docs |-> IF rowLock[d] = w THEN None ELSE rowLock[d]]

Claimed(w, d) == [jobs[d] EXCEPT !.status = "processing", !.by = w,
                                 !.attempts = @ + 1]

\* The rows are marked, read again and committed.
ClaimJobs(w) ==
  /\ pc[w] = "claim"
  /\ jobs' = [d \in Docs |-> IF d \in batch[w] THEN Claimed(w, d) ELSE jobs[d]]
  /\ attempt' = [attempt EXCEPT ![w] = [d \in Docs |->
                   IF d \in batch[w] THEN jobs[d].attempts + 1 ELSE 0]]
  /\ rowLock' = Unlocked(w)
  /\ Goto(w, "read")
  /\ UNCHANGED <<embedded, batch, cancelled, retries>>

\* The claim fails and is rolled back.
ClaimFails(w) ==
  /\ pc[w] = "claim"
  /\ batch' = [batch EXCEPT ![w] = {}]
  /\ rowLock' = Unlocked(w)
  /\ Goto(w, "poll")
  /\ UNCHANGED <<table, attempt, cancelled, retries>>
-----------------------------------------------------------------------------
(* The jobs of the batch, one after the other. *)

\* The worker forgets its batch.
DropBatch(w) ==
  /\ batch' = [batch EXCEPT ![w] = {}]
  /\ attempt' = [attempt EXCEPT ![w] = [d \in Docs |-> 0]]

Current(w) == CHOOSE d \in batch[w] : \A e \in batch[w] : d <= e

\* The job is done with; the loop goes on, or ends with the last one.
NextJob(w) ==
  /\ batch' = [batch EXCEPT ![w] = @ \ {Current(w)}]
  /\ attempt' = [attempt EXCEPT ![w][Current(w)] = 0]
  /\ Goto(w, IF batch[w] = {Current(w)} THEN "poll" ELSE "read")

\* The document is read, or the read fails.
GetDocument(w) ==
  /\ pc[w] = "read"
  /\ Goto(w, "embed") \/ Goto(w, "fail")
  /\ UNCHANGED <<table, rowLock, batch, attempt, cancelled, retries>>

\* The provider answers with a vector or with an error.
EmbedTexts(w) ==
  /\ pc[w] = "embed"
  /\ Goto(w, "complete") \/ Goto(w, "fail")
  /\ UNCHANGED <<table, rowLock, batch, attempt, cancelled, retries>>

\* Mutant of Completed: only the job is marked, the vector is stored later.
Completed_JobFirst(w) ==
  /\ jobs' = [jobs EXCEPT ![Current(w)].status = "ready", ![Current(w)].by = None]
  /\ UNCHANGED embedded

\* The transaction that stores the vector and marks the job.
Completed(w) ==
  /\ jobs' = [jobs EXCEPT ![Current(w)].status = "ready", ![Current(w)].by = None]
  /\ embedded' = embedded \union {Current(w)}

\* It commits; it commits and the answer is lost; or it is rolled back.
CompleteJob(w) ==
  /\ pc[w] = "complete"
  /\ \/ Completed(w) /\ NextJob(w)
     \/ Completed(w) /\ Goto(w, "fail") /\ UNCHANGED <<batch, attempt>>
     \/ Goto(w, "fail") /\ UNCHANGED <<table, batch, attempt>>
  /\ UNCHANGED <<rowLock, cancelled, retries>>

FailedRow(w, d) ==
  [jobs[d] EXCEPT !.status = IF attempt[w][d] >= MaxAttempts THEN "failed" ELSE "retrying",
                  !.due = FALSE, !.by = None]

\* The failure is written, or its write fails too, which is ignored.  A worker
\* whose context is cancelled drops the rest of its batch.
FailJob(w) ==
  /\ pc[w] = "fail"
  /\ \/ jobs' = [jobs EXCEPT ![Current(w)] = FailedRow(w, Current(w))]
     \/ UNCHANGED jobs
  /\ IF w \in cancelled
     THEN DropBatch(w) /\ Goto(w, "poll")
     ELSE NextJob(w)
  /\ UNCHANGED <<embedded, rowLock, cancelled, retries>>
-----------------------------------------------------------------------------
(* The worker process. *)

\* SIGTERM cancels the context of the worker.
Cancel(w) ==
  /\ pc[w] # "down"
  /\ cancelled' = cancelled \union {w}
  /\ UNCHANGED <<table, rowLock, worker, retries>>

\* Run returns: the select sees that the context is done.
Return(w) ==
  /\ pc[w] = "poll" /\ w \in cancelled
  /\ Goto(w, "down")
  /\ UNCHANGED <<table, rowLock, batch, attempt, cancelled, retries>>

\* The process is killed; PostgreSQL rolls its open transaction back.
Crash(w) ==
  /\ pc[w] # "down"
  /\ Goto(w, "down")
  /\ DropBatch(w)
  /\ rowLock' = Unlocked(w)
  /\ UNCHANGED <<table, cancelled, retries>>

\* The process is started (again).
Start(w) ==
  /\ pc[w] = "down"
  /\ Goto(w, "poll")
  /\ cancelled' = cancelled \ {w}
  /\ UNCHANGED <<table, rowLock, batch, attempt, retries>>

ProcessJob(w) == GetDocument(w) \/ EmbedTexts(w) \/ CompleteJob(w) \/ FailJob(w)

Next ==
  \/ IndexSnapshot \/ RetryFailedJobs
  \/ \E d \in Docs : BackoffPasses(d)
  \/ \E w \in Workers :
       \/ SelectJobs(w) \/ ClaimJobs(w) \/ ClaimFails(w) \/ ProcessJob(w)
       \/ Cancel(w) \/ Return(w) \/ Crash(w) \/ Start(w)

Spec == Init /\ [][Next]_vars

\* Time passes.  A worker that runs polls again, its claims do not fail for ever,
\* and the calls it makes return.
Fairness ==
  /\ \A d \in Docs : WF_vars(BackoffPasses(d))
  /\ \A w \in Workers :
       /\ SF_vars(SelectJobs(w)) /\ SF_vars(ClaimJobs(w))
       /\ WF_vars(ClaimJobs(w) \/ ClaimFails(w) \/ ProcessJob(w))

FairSpec == Spec /\ Fairness
-----------------------------------------------------------------------------
(* Properties. *)

\* The type of every variable; no job is claimed more than MaxAttempts times
\* between two calls of RetryFailedJobs, whatever fails.
TypeOK ==
  /\ jobs \in [Docs -> Job \union {None}]
  /\ embedded \subseteq Docs
  /\ rowLock \in [Docs -> Workers \union {None}]
  /\ pc \in [Workers -> {"poll", "claim", "read", "embed", "complete", "fail", "down"}]
  /\ batch \in [Workers -> SUBSET Docs]
  /\ attempt \in [Workers -> [Docs -> 0 .. MaxAttempts]]
  /\ cancelled \subseteq Workers
  /\ retries \in 0 .. MaxRetries

\* The worker has committed the claim of its batch.
Holding(w) == pc[w] \in {"read", "embed", "complete", "fail"}

Settled(d) == jobs[d] # None /\ jobs[d].status \in {"ready", "failed"}

\* CompleteJob and FailJob find the row by its id alone; still no worker ever
\* overwrites the claim of another: the jobs left in a worker's batch are marked
\* processing, by it, with the attempts of its copy.  (Only the job at hand can be
\* ready already, when the answer to its commit was lost.)
HeldIsLocked ==
  \A w \in Workers : Holding(w) => \A d \in batch[w] :
    /\ jobs[d] # None /\ jobs[d].attempts = attempt[w][d]
    /\ \/ jobs[d].status = "processing" /\ jobs[d].by = w
       \/ jobs[d].status = "ready" /\ pc[w] = "fail" /\ d = Current(w)

\* A job that is ready has its vector, and a document without one is never
\* reported as embedded.
ReadyHasEmbedding ==
  \A d \in Docs : jobs[d] # None /\ jobs[d].status = "ready" => d \in embedded

\* Every job is settled in the end, unless no worker runs or the worker that had
\* claimed it was lost, was stopped in the middle of its batch or could not write
\* the failure down: then nothing takes the job from "processing" again.
Stranded(d) == /\ jobs[d] # None /\ jobs[d].status = "processing"
               /\ \A w \in Workers : ~ (Holding(w) /\ d \in batch[w])
AllDown == \A w \in Workers : pc[w] = "down"
EveryJobSettles ==
  \A d \in Docs : jobs[d] # None ~> (Settled(d) \/ Stranded(d) \/ AllDown)
=============================================================================
