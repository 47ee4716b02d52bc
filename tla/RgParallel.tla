----------------------------- MODULE RgParallel -----------------------------
(***************************************************************************)
(* The parallel search of src/src/search/rg_parallel.c for operands that   *)
(* the work-stealing scheduler does not take: the main thread walks the    *)
(* operands and packs paths into batches, workers of a WorkPool search a   *)
(* batch and publish its result under one lock, in any order.              *)
(*                                                                         *)
(* Every step of the pool is the step of its module, joined to the step of *)
(* the search that calls it.  Quiet searches never come here               *)
(* (bx_search_parallel_rg_supported), so only a fatal error cancels.       *)
(***************************************************************************)
EXTENDS Naturals, FiniteSets

CONSTANTS NumThreads,      \* thread_count
          QueueCapacity,   \* queue_capacity, 64 per thread in the code
          BatchMax,        \* BX_SEARCH_PARALLEL_JOB_BATCH_MAX_FILES
          NumFiles         \* bound: files the walk of all operands meets

ASSUME SearchAssumption ==
    /\ NumThreads \in Nat \ {0} /\ QueueCapacity \in Nat \ {0}
    /\ BatchMax \in Nat \ {0} /\ NumFiles \in Nat

Files == 1 .. NumFiles
Flags == {"match", "error"}

MainStates == {"setup",      \* in bx_work_pool_init
               "abort",      \* in the join and dispose of a failed init
               "walk",       \* at the next entry or operand
               "add",        \* in queue_path, the full batch is submitted
               "submit",     \* in bx_work_pool_submit
               "error",      \* in submit_path_error, about to publish
               "refused",    \* queue_path or submit_path_error returned false
               "fatal",      \* in set_fatal, about to set fatal_error
               "request",    \* about to request cancellation
               "wake",       \* about to wake the pool
               "done",       \* at the label done
               "close",      \* about to close the pool
               "join",       \* in bx_work_pool_join
               "report", "dispose", "reclaim", "free", "end"}

WorkerSteps == {"idle",       \* not in a callback of the search
                "search",     \* in the loop over the batch
                "fatal_init", "fatal_merge", "fatal_free",
                              \* in set_fatal, about to request cancellation
                "failed",     \* worker_init, about to return NULL
                "merge",      \* loop left, about to publish
                "free"}       \* about to free the batch and return

VARIABLES
    \* the pool
    items, head, tail, count, closed, failed, joined, started, worker, hand, owner, next, place,
    cancel,
    main,
    then,             \* where main goes after a submit or set_fatal
    file,             \* the file the walk meets next
    pending,          \* files in pending_job
    batch,            \* job -> files in it
    fatal_error, walk_error, exit_status,
    step,             \* worker -> where its callback is
    left,             \* worker -> files of its batch not searched yet
    got,              \* worker -> job_match_seen and job_error_seen
    searched,         \* file -> how often it was searched (ghost)
    freed             \* job -> how often it was freed (ghost)

Pool == INSTANCE WorkPool WITH NumJobs <- NumFiles

pool   == <<items, head, tail, count, closed, failed, joined, started, worker, hand, owner, next,
            place>>
walk   == <<then, file, pending, batch>>
result == <<fatal_error, walk_error, exit_status>>
work   == <<step, left, got, searched>>
vars   == <<pool, cancel, main, walk, result, work, freed>>

Init ==
    /\ Pool!Init
    /\ main = "setup" /\ then = "done"
    /\ file = 1 /\ pending = {} /\ batch = [j \in Pool!Jobs |-> {}]
    /\ fatal_error = FALSE /\ walk_error = FALSE /\ exit_status = 1
    /\ step = [w \in Pool!Workers |-> "idle"]
    /\ left = [w \in Pool!Workers |-> {}]
    /\ got = [w \in Pool!Workers |-> {}]
    /\ searched = [f \in Files |-> 0]
    /\ freed = [j \in Pool!Jobs |-> 0]

Requested == Pool!Requested

\* The pool was initialised and not disposed: pool_ready, state.pool.
PoolReady == owner # "disposed"

Free(S) == freed' = [j \in Pool!Jobs |-> IF j \in S THEN freed[j] + 1 ELSE freed[j]]

\* Deviation: a match demotes an earlier error.
StatusLastWins(s, r) == IF "error" \in r THEN 2 ELSE IF "match" \in r THEN 0 ELSE s
\* merge_direct_result, and the aggregate of an emitted record.
ApplyResult(s, r) ==
    IF "error" \in r THEN 2 ELSE IF "match" \in r /\ s # 2 THEN 0 ELSE s

-----------------------------------------------------------------------------
(* Main thread: set-up, and set_fatal. *)

CreatePool ==
    /\ main = "setup"
    /\ \/ Pool!CreateThread /\ main' = IF owner' = "ready" THEN "walk" ELSE "setup"
       \/ Pool!CreateThreadFails /\ main' = "abort"
       \/ Pool!InitAllocFails /\ main' = "fatal"
    /\ UNCHANGED <<walk, result, work, freed>>

AbortPool ==
    /\ main = "abort"
    /\ \/ Pool!JoinReturns /\ UNCHANGED main
       \/ Pool!Reclaim /\ main' = "fatal"
    /\ UNCHANGED <<walk, result, work, freed>>

SetFatal ==
    /\ main = "fatal"
    /\ fatal_error' = TRUE
    /\ main' = "request"
    /\ UNCHANGED <<pool, cancel, walk, walk_error, exit_status, work, freed>>

RequestCancel ==
    /\ main = "request"
    /\ Pool!OwnerCancels /\ cancel' = cancel \cup {"requested"}
    /\ IF PoolReady THEN owner' = "waking" /\ main' = "wake"
                    ELSE main' = then
    /\ UNCHANGED <<walk, result, work, freed>>

WakePool ==
    /\ main = "wake"
    /\ Pool!OwnerWakes
    /\ main' = then
    /\ UNCHANGED <<walk, result, work, freed>>

-----------------------------------------------------------------------------
(* Main thread: the walk, bx_search_parallel_queue_path. *)

\* Detach the pending batch and submit it.
Detach(files, next_stop) ==
    /\ batch' = [batch EXCEPT ![next] = files]
    /\ pending' = {}
    /\ main' = "submit" /\ then' = next_stop

\* The path does not fit into the bytes left in the batch.
FlushFirst ==
    /\ main = "walk" /\ ~Requested /\ file \in Files
    /\ pending # {}
    /\ Detach(pending, "add")
    /\ UNCHANGED <<pool, cancel, file, result, work, freed>>

\* A batch is flushed when its array is full ...
Full(files) == Cardinality(files) >= BatchMax

AddFile ==
    /\ (main = "walk" /\ ~Requested) \/ main = "add"
    /\ file \in Files
    /\ file' = file + 1
    /\ LET files == pending \cup {file} IN
         \/ /\ ~Full(files)
            /\ pending' = files /\ main' = "walk"
            /\ UNCHANGED <<then, batch>>
         \/ Detach(files, "walk")       \* ... or its bytes are used up
    /\ UNCHANGED <<pool, cancel, result, work, freed>>

\* No memory for the batch or for the copy of the path.
AddFails ==
    /\ (main = "walk" /\ ~Requested) \/ main = "add"
    /\ file \in Files
    /\ main' = "refused" /\ then' = "add"
    /\ UNCHANGED <<pool, cancel, file, pending, batch, result, work, freed>>

\* submit_path_error, for a directory that cannot be read or an operand that
\* does not exist: flush first.
PathError ==
    /\ main = "walk" /\ file \in Files
    /\ file' = file + 1
    /\ IF pending # {} THEN Detach(pending, "error")
                       ELSE main' = "error" /\ UNCHANGED <<then, pending, batch>>
    /\ UNCHANGED <<pool, cancel, result, work, freed>>

PublishError ==
    /\ main = "error"
    /\ exit_status' = ApplyResult(exit_status, {"error"})
    /\ main' = "walk"
    /\ UNCHANGED <<pool, cancel, walk, fatal_error, walk_error, work, freed>>

\* No memory for the record, before or after the flush.
PublishErrorFails ==
    /\ main = "error" \/ (main = "walk" /\ file \in Files)
    /\ file' = IF main = "walk" THEN file + 1 ELSE file
    /\ main' = "refused" /\ then' = "error"
    /\ UNCHANGED <<pool, cancel, pending, batch, result, work, freed>>

SubmitBatch ==
    /\ main = "submit"
    /\ \/ Pool!SubmitWaits /\ UNCHANGED main
       \/ Pool!SubmitAccepted /\ main' = then
    /\ UNCHANGED <<walk, result, work, freed>>

\* The batch stays with its builder, who frees it.
SubmitRefused ==
    /\ main = "submit"
    /\ Pool!SubmitRefused
    /\ Free({next})
    /\ main' = IF then = "close" THEN "fatal" ELSE "refused"
    /\ UNCHANGED <<walk, result, work>>

\* Deviation: the file that was not queued is met again.
RefusedRetries ==
    /\ main = "refused"
    /\ walk_error' = (walk_error \/ then = "error" \/ ~Requested)
    /\ main' = "walk"
    /\ UNCHANGED <<pool, cancel, then, file, pending, batch, fatal_error, exit_status, work, freed>>

\* In a directory: STOP if cancelled, else ERROR.  The search goes on with the
\* next operand.  A failed submit_path_error is always an ERROR.
RefusedInWalk ==
    /\ main = "refused"
    /\ walk_error' = (walk_error \/ then = "error" \/ ~Requested)
    /\ \E f \in file .. NumFiles + 1 :
         /\ then = "add" => f > file        \* the file that was not queued
         /\ file' = f
    /\ main' = "walk"
    /\ UNCHANGED <<pool, cancel, then, pending, batch, fatal_error, exit_status, work, freed>>

\* For an operand that is a file: the search ends, except that the operands
\* after a directory that was not asked to be searched are looked at.
RefusedOperand ==
    /\ main = "refused"
    /\ main' = IF Requested /\ then # "error" THEN "done" ELSE "fatal"
    /\ then' \in IF then = "error" THEN {"done", "walk"} ELSE {"done"}
    /\ UNCHANGED <<pool, cancel, file, pending, batch, result, work, freed>>

WalkEnds ==
    /\ main = "walk"
    /\ file \notin Files \/ Requested
    /\ main' = "done"
    /\ UNCHANGED <<pool, cancel, walk, result, work, freed>>

-----------------------------------------------------------------------------
(* Main thread: the label done. *)

\* fatal_error is read without the lock that its writers hold: a worker's
\* write may be missed.
LastFlush ==
    /\ main = "done"
    /\ \/ /\ fatal_error \/ pending = {}
          /\ main' = "close"
          /\ UNCHANGED <<then, pending, batch>>
       \/ /\ pending # {}
          /\ Detach(pending, "close")
    /\ UNCHANGED <<pool, cancel, file, result, work, freed>>

ClosePool ==
    /\ main = "close"
    /\ IF PoolReady THEN Pool!Close /\ main' = "join"
                    ELSE main' = "report" /\ UNCHANGED <<pool, cancel>>
    /\ UNCHANGED <<walk, result, work, freed>>

JoinPool ==
    /\ main = "join"
    /\ \/ Pool!Join /\ UNCHANGED <<main, then>>
       \/ /\ Pool!JoinReturns
          /\ IF failed /\ ~fatal_error
             THEN main' = "fatal" /\ then' = "report"
             ELSE main' = "report" /\ UNCHANGED then
    /\ UNCHANGED <<file, pending, batch, result, work, freed>>

Report ==
    /\ main = "report"
    /\ IF Requested THEN Pool!OwnerPublishes ELSE UNCHANGED <<pool, cancel>>
    /\ exit_status' = IF fatal_error \/ walk_error THEN 2 ELSE exit_status
    /\ main' = IF PoolReady THEN "dispose" ELSE "free"
    /\ UNCHANGED <<walk, fatal_error, walk_error, work, freed>>

DisposePool ==
    /\ main = "dispose"
    /\ Pool!DisposeJoined
    /\ main' = "reclaim"
    /\ UNCHANGED <<walk, result, work, freed>>

ReclaimJobs ==
    /\ main = "reclaim"
    /\ Pool!Reclaim
    /\ Free({j \in Pool!Jobs : \E i \in Pool!Slots : items[i] = j})
    /\ main' = "free"
    /\ UNCHANGED <<walk, result, work>>

FreePending ==
    /\ main = "free"
    /\ pending' = {}
    /\ main' = "end"
    /\ UNCHANGED <<pool, cancel, then, file, batch, result, work, freed>>

-----------------------------------------------------------------------------
(* Workers: bx_search_parallel_worker_init and _process_job. *)

PoolStep(w) ==
    /\ \/ Pool!Sleep(w) \/ Pool!Exit(w) \/ Pool!WorkerWakes(w)
       \/ step[w] = "idle" /\ Pool!WorkerInit(w)
    /\ UNCHANGED <<main, walk, result, work, freed>>

\* No memory for the worker: no message, but the pool fails.
WorkerInitFails(w) ==
    /\ step[w] \in {"idle", "failed"}
    /\ Pool!WorkerInitFails(w)
    /\ step' = [step EXCEPT ![w] = "idle"]
    /\ UNCHANGED <<main, walk, result, left, got, searched, freed>>

RaiseFatal(w, s) == fatal_error' = TRUE /\ step' = [step EXCEPT ![w] = s]

\* The pattern does not compile: set_fatal.
CompileFails(w) ==
    /\ worker[w] = "init" /\ step[w] = "idle"
    /\ RaiseFatal(w, "fatal_init")
    /\ UNCHANGED <<pool, cancel, main, walk, walk_error, exit_status, left, got, searched, freed>>

\* Deviation: the worker also marks a phase that is the publisher's.
WorkerDrains(w) ==
    /\ step[w] \in {"fatal_init", "fatal_merge", "fatal_free"}
    /\ cancel' = cancel \cup {"requested", "observed", "draining"}
    /\ step' = [step EXCEPT ![w] = CASE step[w] = "fatal_init" -> "failed"
                                     [] step[w] = "fatal_merge" -> "merge"
                                     [] step[w] = "fatal_free" -> "free"]
    /\ UNCHANGED <<pool, main, walk, result, left, got, searched, freed>>

\* The rest of set_fatal.  A second request only wakes threads once more.
WorkerRequests(w) ==
    /\ step[w] \in {"fatal_init", "fatal_merge", "fatal_free"}
    /\ IF Requested THEN UNCHANGED <<pool, cancel>> ELSE Pool!WorkerCancels(w)
    /\ step' = [step EXCEPT ![w] = CASE step[w] = "fatal_init" -> "failed"
                                     [] step[w] = "fatal_merge" -> "merge"
                                     [] step[w] = "fatal_free" -> "free"]
    /\ UNCHANGED <<main, walk, result, left, got, searched, freed>>

TakeJob(w) ==
    /\ Pool!Take(w)
    /\ left' = [left EXCEPT ![w] = batch[items[head]]]
    /\ got' = [got EXCEPT ![w] = {}]
    /\ step' = [step EXCEPT ![w] = "search"]
    /\ UNCHANGED <<main, walk, result, searched, freed>>

\* Files are searched in order; a batch is searched to its end even when the
\* search was cancelled.
SearchFile(w) ==
    /\ worker[w] = "run" /\ step[w] = "search"
    /\ \E f \in left[w] :
         /\ \A g \in left[w] : f <= g
         /\ left' = [left EXCEPT ![w] = @ \ {f}]
         /\ searched' = [searched EXCEPT ![f] = @ + 1]
    /\ \E r \in {{}, {"match"}, {"error"}} : got' = [got EXCEPT ![w] = @ \cup r]
    /\ UNCHANGED <<pool, cancel, main, walk, result, step, freed>>

\* A path of the batch cannot be resolved: the loop ends.
PathLost(w) ==
    /\ worker[w] = "run" /\ step[w] = "search" /\ left[w] # {}
    /\ RaiseFatal(w, "fatal_merge")
    /\ left' = [left EXCEPT ![w] = {}]
    /\ got' = [got EXCEPT ![w] = @ \cup {"error"}]
    /\ UNCHANGED <<pool, cancel, main, walk, walk_error, exit_status, searched, freed>>

LoopEnds(w) ==
    /\ worker[w] = "run" /\ step[w] = "search" /\ left[w] = {}
    /\ step' = [step EXCEPT ![w] = "merge"]
    /\ UNCHANGED <<pool, cancel, main, walk, result, left, got, searched, freed>>

\* No memory for captured output or for the record: the result is dropped.
PublishFails(w) ==
    /\ worker[w] = "run" /\ step[w] = "merge"
    /\ RaiseFatal(w, "fatal_free")
    /\ UNCHANGED <<pool, cancel, main, walk, walk_error, exit_status, left, got, searched, freed>>

\* Merge the result, or emit the record, under the publication's lock.
Publish(w) ==
    /\ worker[w] = "run" /\ step[w] = "merge"
    /\ exit_status' = ApplyResult(exit_status, got[w])
    /\ step' = [step EXCEPT ![w] = "free"]
    /\ UNCHANGED <<pool, cancel, main, walk, fatal_error, walk_error, left, got, searched, freed>>

\* Deviation: the batch is freed before its result is published.
FreeEarly(w) ==
    /\ worker[w] = "run" /\ step[w] \in {"merge", "free"}
    /\ Free({hand[w]})
    /\ step' = [step EXCEPT ![w] = "idle"]
    /\ IF step[w] = "free" THEN Pool!Finish(w) ELSE UNCHANGED <<pool, cancel>>
    /\ UNCHANGED <<main, walk, result, left, got, searched>>

FinishJob(w) ==
    /\ worker[w] = "run" /\ step[w] = "free"
    /\ Free({hand[w]})
    /\ Pool!Finish(w)
    /\ step' = [step EXCEPT ![w] = "idle"]
    /\ UNCHANGED <<main, walk, result, left, got, searched>>

SpuriousWakeup ==
    Pool!SpuriousWakeup /\ UNCHANGED <<main, walk, result, work, freed>>

-----------------------------------------------------------------------------

MainNext ==
    \/ CreatePool \/ AbortPool \/ SetFatal \/ RequestCancel \/ WakePool
    \/ FlushFirst \/ AddFile \/ AddFails \/ PathError \/ PublishError \/ PublishErrorFails
    \/ SubmitBatch \/ SubmitRefused \/ RefusedInWalk \/ RefusedOperand \/ WalkEnds
    \/ LastFlush \/ ClosePool \/ JoinPool \/ Report \/ DisposePool \/ ReclaimJobs \/ FreePending

WorkerNext(w) ==
    \/ PoolStep(w) \/ WorkerInitFails(w) \/ CompileFails(w) \/ WorkerRequests(w)
    \/ TakeJob(w) \/ SearchFile(w) \/ PathLost(w) \/ LoopEnds(w)
    \/ PublishFails(w) \/ Publish(w) \/ FinishJob(w)

Terminated == main = "end" /\ UNCHANGED vars

Next ==
    \/ MainNext
    \/ \E w \in Pool!Workers : WorkerNext(w)
    \/ SpuriousWakeup
    \/ Terminated

Spec == Init /\ [][Next]_vars

\* The main thread and every worker keep running; a search of a file ends.
Fairness == WF_vars(MainNext) /\ \A w \in Pool!Workers : WF_vars(WorkerNext(w))

FairSpec == Spec /\ Fairness

-----------------------------------------------------------------------------
(* Properties. *)

\* A search that ends without an error status has searched every file, once:
\* no batch is lost between the walk, the queue and a worker that failed.
SuccessIsComplete ==
    main = "end" /\ exit_status # 2 => \A f \in Files : searched[f] = 1

\* Every batch that was submitted is freed once: by its worker, by its builder
\* when the pool refused it, or when the pool is disposed; and not while a
\* worker works on it.
BatchLifetime ==
    /\ \A j \in Pool!Jobs : freed[j] <= 1
    /\ \A w \in Pool!Workers : worker[w] = "run" => freed[hand[w]] = 0
    /\ main = "end" => \A j \in Pool!Jobs : freed[j] = IF j < next THEN 1 ELSE 0

\* The search uses the pool as its module says.
PoolUse == Pool!Spec

\* The search ends, whatever fails: the walk is not left waiting for a queue
\* that nobody empties.
SearchEnds == <>(main = "end")

=============================================================================
