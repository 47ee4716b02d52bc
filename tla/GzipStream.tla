----------------------------- MODULE GzipStream -----------------------------
(***************************************************************************)
(* The multithreaded gzip filter of src/src/applets/archive/archive_gzip.c *)
(* (bx_archive_run_gzip_filter_mt_stream): the main thread cuts its input  *)
(* into chunks, workers of a WorkPool compress them, and an                *)
(* OrderedPublication window writes the results in input order.            *)
(*                                                                         *)
(* Every step of the pool and of the window is the step of its module,     *)
(* joined to the step of the filter that calls it.  Chunk s is packet s of *)
(* the window and job s + 1 of the pool.                                   *)
(***************************************************************************)
EXTENDS Naturals, Sequences, FiniteSets

CONSTANTS NumThreads,        \* thread_count
          WantedInflight,    \* max_inflight_chunks, 0 for the default
          MemberLimit,       \* bx_backpressure_limit_default(PENDING_ARCHIVE_MEMBERS)
          NumChunks          \* bound: chunks in the longest input

ASSUME StreamAssumption ==
    /\ NumThreads \in Nat \ {0}
    /\ WantedInflight \in Nat /\ MemberLimit \in Nat /\ NumChunks \in Nat

\* state.max_inflight_chunks: the window and the pool's queue have this size.
MaxInflight ==
    LET wanted == IF WantedInflight # 0 THEN WantedInflight ELSE NumThreads * 4
        capped == IF MemberLimit > 0 /\ wanted > MemberLimit THEN MemberLimit ELSE wanted
    IN  IF capped < NumThreads THEN NumThreads ELSE capped

\* Deviation: a queue one shorter than the window.
ShortQueue == MaxInflight - 1
QueueSize == MaxInflight

Chunks == 0 .. NumChunks - 1
Statuses == {"none", "ok", "failed", "cancelled"}

MainStates == {"setup",      \* in bx_work_pool_init
               "abort",      \* in the join and dispose of a failed init
               "window",     \* about to initialise the window
               "produce",    \* in the producer
               "reserve",    \* in submit_chunk, in reserve_slot
               "submit",     \* in submit_chunk, about to call bx_work_pool_submit
               "release",    \* the pool refused the chunk
               "closed",     \* input complete, pool closed
               "drain",      \* in bx_ordered_publication_drain
               "out_join",   \* at the label out_join
               "join",       \* in bx_work_pool_join
               "out",        \* at the label out
               "reclaim",    \* about to call state_cleanup
               "dispose",    \* in bx_work_pool_dispose
               "cleanup",    \* about to clean up the window
               "done"}

VARIABLES
    \* the pool
    items, head, tail, count, closed, failed, joined, started, worker, hand, owner, next, place,
    \* the window
    pending, inflight, next_submit_seq, next_publish_seq, caller, op, current, verdict,
    reserved, away, out, disposed,
    \* shared
    cancel,
    \* the filter
    main,
    status,      \* chunk -> job->status
    freed,       \* chunk -> how often its job was freed (ghost)
    ok           \* the filter's result

Pool == INSTANCE WorkPool
          WITH NumJobs <- NumChunks, QueueCapacity <- QueueSize
Win == INSTANCE OrderedPublication
         WITH NumPackets <- NumChunks

filter == <<main, status, freed, ok>>
pool == <<items, head, tail, count, closed, failed, joined, started, worker, hand, owner, next,
          place>>
win == <<pending, inflight, next_submit_seq, next_publish_seq, caller, op, current, verdict,
         reserved, away, out, disposed>>
vars == <<pool, win, cancel, filter>>

Init ==
    /\ Pool!Init /\ Win!Init
    /\ main = "setup"
    /\ status = [s \in Chunks |-> "none"]
    /\ freed = [s \in Chunks |-> 0]
    /\ ok = FALSE

Free(f, S) == [s \in Chunks |-> IF s \in S THEN f[s] + 1 ELSE f[s]]

-----------------------------------------------------------------------------
(* Set-up. *)

CreatePool ==
    /\ main = "setup"
    /\ \/ Pool!CreateThread /\ main' = IF owner' = "ready" THEN "window" ELSE "setup"
       \/ Pool!CreateThreadFails /\ main' = "abort"
       \/ Pool!InitAllocFails /\ main' = "cleanup"
    /\ UNCHANGED <<win, status, freed, ok>>

InitWindow ==
    /\ main = "window"
    /\ main' \in {"produce", "out"}       \* "out": a mutex or condition failed
    /\ UNCHANGED <<pool, win, cancel, status, freed, ok>>

-----------------------------------------------------------------------------
(* The producer's writes: submit_chunk. *)

ChunkFull ==
    /\ main = "produce" /\ Win!ReserveBegins
    /\ main' = "reserve"
    /\ UNCHANGED <<pool, status, freed, ok>>

\* The producer reports an error of its own.
ProducerFails ==
    /\ main = "produce"
    /\ cancel' = cancel \cup {"requested"}
    /\ main' = "out_join"
    /\ UNCHANGED <<pool, win, status, freed, ok>>

\* Steps of reserve_slot and drain that neither publish nor return.
WindowStep ==
    /\ main \in {"reserve", "drain"}
    /\ \/ Win!FlushTakes \/ Win!FlushEnds \/ Win!WaitChecks
       \/ Win!TestReserve /\ ~Win!WindowOpen
       \/ Win!TestDrain /\ inflight # 0
    /\ UNCHANGED <<pool, filter>>

\* Deviation: the callback does not look at job->status.
WriteChunkUnchecked ==
    /\ main \in {"reserve", "drain"}
    /\ Win!PublishOk
    /\ UNCHANGED <<pool, filter>>

\* The publish callback: a chunk that was compressed is written ...
WriteChunk ==
    /\ main \in {"reserve", "drain"}
    /\ Win!PublishOk /\ status[current] = "ok"
    /\ UNCHANGED <<pool, filter>>

\* ... and fails if it was not, or if the write fails.
WriteFails ==
    /\ main \in {"reserve", "drain"}
    /\ Win!PublishFails
    /\ UNCHANGED <<pool, filter>>

\* The job is freed; after a failure reserve_slot or drain returns false.
SettleChunk ==
    /\ main \in {"reserve", "drain"}
    /\ Win!Settle
    /\ freed' = Free(freed, {current})
    /\ main' = IF verdict = "ok" THEN main ELSE "out_join"
    /\ cancel' = cancel
    /\ UNCHANGED <<pool, status, ok>>

SlotReserved ==
    /\ main = "reserve"
    /\ Win!TestReserve /\ Win!WindowOpen
    /\ main' = "submit"
    /\ UNCHANGED <<pool, status, freed, ok>>

SubmitChunk ==
    /\ main = "submit"
    /\ Pool!SubmitAccepted /\ Win!HandOver
    /\ main' = "produce"
    /\ UNCHANGED <<status, freed, ok>>

SubmitRefused ==
    /\ main = "submit"
    /\ Pool!SubmitRefused
    /\ main' = "release"
    /\ UNCHANGED <<win, status, freed, ok>>

\* Deviation: the refused job is not freed.
ReleaseWithoutFree ==
    /\ main = "release"
    /\ Win!ReleaseSlot
    /\ main' = "out_join"
    /\ UNCHANGED <<pool, status, freed, ok>>

\* Release the slot, free the job, return false.  The request for cancellation
\* that comes first changes nothing: the pool refuses only a cancelled run.
ReleaseChunk ==
    /\ main = "release"
    /\ Win!ReleaseSlot
    /\ freed' = Free(freed, {next_submit_seq - 1})
    /\ main' = "out_join"
    /\ UNCHANGED <<pool, status, ok>>

-----------------------------------------------------------------------------
(* The end of the input. *)

InputEnds ==
    /\ main = "produce"
    /\ Pool!Close
    /\ main' = "closed"
    /\ UNCHANGED <<win, status, freed, ok>>

DrainBegins ==
    /\ main = "closed"
    /\ Win!DrainBegins
    /\ main' = "drain"
    /\ UNCHANGED <<pool, status, freed, ok>>

DrainEnds ==
    /\ main = "drain"
    /\ Win!TestDrain /\ inflight = 0
    /\ ok' = TRUE
    /\ main' = "out_join"
    /\ UNCHANGED <<pool, status, freed>>

CloseAgain ==
    /\ main = "out_join" /\ ~joined
    /\ Pool!Close
    /\ main' = "join"
    /\ UNCHANGED <<win, status, freed, ok>>

JoinPool ==
    /\ main = "join"
    /\ \/ Pool!Join /\ UNCHANGED <<main, ok>>
       \/ /\ Pool!JoinReturns
          /\ ok' = (ok /\ ~failed)
          /\ main' = "out"
    /\ UNCHANGED <<win, status, freed>>

\* A cancelled run marks PUBLISHED.
MarkPublished ==
    /\ main = "out"
    /\ IF Pool!Requested THEN Pool!OwnerPublishes ELSE UNCHANGED <<pool, cancel>>
    /\ main' = "reclaim"
    /\ UNCHANGED <<win, status, freed, ok>>

\* state_cleanup: bx_work_pool_dispose, which joins first after a failed
\* window initialisation ...
DisposePool ==
    /\ main = "reclaim"
    /\ Pool!Dispose \/ Pool!DisposeJoined
    /\ main' = "dispose"
    /\ UNCHANGED <<win, status, freed, ok>>

DisposeJoins ==
    /\ main \in {"abort", "dispose"}
    /\ Pool!JoinReturns
    /\ UNCHANGED <<win, filter>>

ReclaimJobs ==
    /\ main \in {"abort", "dispose"}
    /\ Pool!Reclaim
    /\ freed' = Free(freed, {s \in Chunks : \E i \in Pool!Slots : items[i] = s + 1})
    /\ main' = "cleanup"
    /\ UNCHANGED <<win, status, ok>>

\* ... then bx_ordered_publication_cleanup.
CleanupWindow ==
    /\ main = "cleanup"
    /\ Win!Cleanup
    /\ freed' = Free(freed, pending)
    /\ main' = "done"
    /\ UNCHANGED <<pool, status, ok>>

-----------------------------------------------------------------------------
(* Workers: bx_archive_gzip_stream_process_job. *)

PoolStep(w) ==
    /\ Pool!WorkerInit(w) \/ Pool!Sleep(w) \/ Pool!Take(w) \/ Pool!Exit(w)
    /\ UNCHANGED <<win, filter>>

\* The job in w's hand was not compressed yet.
Fresh(w) == worker[w] = "run" /\ status[hand[w] - 1] = "none"
SetStatus(w, v) == status' = [status EXCEPT ![hand[w] - 1] = v]

CompressSkipped(w) ==
    /\ Fresh(w) /\ Pool!Requested
    /\ SetStatus(w, "cancelled")
    /\ UNCHANGED <<pool, win, cancel, main, freed, ok>>

Compress(w) ==
    /\ Fresh(w) /\ ~Pool!Requested
    /\ SetStatus(w, "ok")
    /\ UNCHANGED <<pool, win, cancel, main, freed, ok>>

\* Deviation: the worker also marks a phase that is the publisher's.
CompressFailsDraining(w) ==
    /\ Fresh(w) /\ ~Pool!Requested
    /\ SetStatus(w, "failed")
    /\ cancel' = cancel \cup {"requested", "draining"}
    /\ UNCHANGED <<pool, win, main, freed, ok>>

CompressFails(w) ==
    /\ Fresh(w) /\ ~Pool!Requested
    /\ SetStatus(w, "failed")
    /\ cancel' = cancel \cup {"requested"}
    /\ UNCHANGED <<pool, win, main, freed, ok>>

\* Deviation: a cancelled job is dropped instead of published.
ReturnUnlessCancelled(w) ==
    /\ worker[w] = "run" /\ status[hand[w] - 1] # "none"
    /\ Pool!Finish(w)
    /\ IF status[hand[w] - 1] = "cancelled"
       THEN freed' = Free(freed, {hand[w] - 1}) /\ away' = away \ {hand[w] - 1}
            /\ UNCHANGED <<pending, inflight, next_submit_seq, next_publish_seq, caller, op,
                           current, verdict, reserved, out, disposed, main, status, ok>>
       ELSE Win!PublishPacket(hand[w] - 1) /\ UNCHANGED filter

\* Publish the packet, whatever its status, and return to the pool.
ReturnChunk(w) ==
    /\ worker[w] = "run" /\ status[hand[w] - 1] # "none"
    /\ Pool!Finish(w)
    /\ Win!PublishPacket(hand[w] - 1)
    /\ UNCHANGED filter

SpuriousWakeup ==
    \/ Pool!SpuriousWakeup /\ UNCHANGED <<win, filter>>
    \/ Win!SpuriousWakeup /\ UNCHANGED <<pool, filter>>

-----------------------------------------------------------------------------

MainNext ==
    \/ CreatePool \/ InitWindow
    \/ ChunkFull \/ ProducerFails \/ WindowStep \/ WriteChunk \/ WriteFails \/ SettleChunk
    \/ SlotReserved \/ SubmitChunk \/ SubmitRefused \/ ReleaseChunk
    \/ InputEnds \/ DrainBegins \/ DrainEnds
    \/ CloseAgain \/ JoinPool \/ MarkPublished \/ DisposePool \/ DisposeJoins \/ ReclaimJobs \/ CleanupWindow

WorkerNext(w) ==
    \/ PoolStep(w)
    \/ CompressSkipped(w) \/ Compress(w) \/ CompressFails(w) \/ ReturnChunk(w)

Terminated == main = "done" /\ UNCHANGED vars

Next ==
    \/ MainNext
    \/ \E w \in Pool!Workers : WorkerNext(w)
    \/ SpuriousWakeup
    \/ Terminated

Spec == Init /\ [][Next]_vars

\* The main thread and every worker keep running; the producer keeps reading.
Fairness == WF_vars(MainNext) /\ \A w \in Pool!Workers : WF_vars(WorkerNext(w))

FairSpec == Spec /\ Fairness

-----------------------------------------------------------------------------
(* Properties. *)

\* The output is chunk 0, then 1, ..., each compressed successfully, even when
\* a later chunk finished first, failed or was cancelled; and a filter that
\* reports success wrote every chunk it was given and recorded no failure.
OutputIsFaithful ==
    /\ \A i \in 1 .. Len(out) : out[i] = i - 1 /\ status[i - 1] = "ok"
    /\ ok => Len(out) = reserved /\ ~Pool!Requested

\* Every job is freed exactly once on every path: published, failed to
\* publish, refused by the pool, left in the window or left in the queue; and
\* not while a worker compresses it.
ChunkLifetime ==
    /\ \A s \in Chunks : freed[s] <= 1
    /\ \A w \in Pool!Workers : worker[w] = "run" => freed[hand[w] - 1] = 0
    /\ main = "done" => \A s \in Chunks : freed[s] = IF s < reserved THEN 1 ELSE 0

\* submit never blocks: the queue is as long as the window, so a reserved
\* chunk always finds room, and the only thread that publishes never sleeps
\* in the pool.
SubmitNeverBlocks == main = "submit" => count < QueueSize

\* The filter keeps the rules of both parts: its owner calls, cancellations and
\* worker callbacks are all steps of WorkPool, it reserves no slot of the window
\* after a failure, and it cleans up only when no worker owns a packet.
PartsUse == Pool!Spec /\ Win!Spec

\* The filter ends, whatever fails.
FilterEnds == <>(main = "done")

=============================================================================
