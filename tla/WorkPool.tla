------------------------------ MODULE WorkPool ------------------------------
(***************************************************************************)
(* The bounded job queue and thread pool of src/src/lib/work_pool.c.       *)
(*                                                                         *)
(* One owner thread creates the pool, submits jobs, closes, joins and      *)
(* disposes; NumThreads workers take jobs from a ring of QueueCapacity     *)
(* slots.  A critical section of pool->lock is one action, split where it  *)
(* calls pthread_cond_wait: a sleeping thread is in state "wait" (workers, *)
(* can_pop) or "asleep" (the owner, can_push), and a woken one goes back   *)
(* to the head of its while loop.  Both callers of the pool (the parallel  *)
(* search and the parallel gzip) submit from one thread only.              *)
(***************************************************************************)
EXTENDS Naturals, FiniteSets

CONSTANTS NumThreads,      \* opts->thread_count
          QueueCapacity,   \* opts->queue_capacity
          NumJobs          \* bound: how many submit calls the owner makes

\* bx_work_pool_init refuses a pool with no thread or no slot.
ASSUME PoolAssumption ==
    /\ NumThreads \in Nat \ {0}
    /\ QueueCapacity \in Nat \ {0}
    /\ NumJobs \in Nat

Workers == 0 .. NumThreads - 1
Slots   == 0 .. QueueCapacity - 1
Jobs    == 1 .. NumJobs
NoJob   == 0                 \* the NULL pointer

Phases  == {"requested", "observed", "draining", "joined", "published"}

WorkerStates == {"none",     \* no thread created at this index
                 "init",     \* in opts.worker_init
                 "loop",     \* about to lock and test the queue
                 "wait",     \* in pthread_cond_wait(&can_pop)
                 "run",      \* in opts.process_job
                 "waking",   \* in process_job, about to call bx_work_pool_wake
                 "gone",     \* left the loop, ran worker_fini
                 "dead"}     \* worker_init returned NULL

OwnerStates == {"create",    \* in the pthread_create loop of init
                "ready",     \* between two calls
                "retry",     \* in submit, woken, about to test the loop
                "asleep",    \* in submit, in pthread_cond_wait(&can_push)
                "waking",    \* requested cancellation, about to call wake
                "join",      \* in bx_work_pool_join called by the client
                "abort",     \* in the join of a failed init
                "dispose",   \* in the join of bx_work_pool_dispose
                "reclaim",   \* joined, about to reclaim the leftovers
                "disposed"}

Places == {"builder", "queued", "worker", "finished", "reclaimed"}

VARIABLES
    items,      \* the ring
    head, tail, count,
    closed, failed, joined,
    started,    \* started_threads
    worker,     \* worker -> its state
    hand,       \* worker -> the job its process_job runs on
    owner,      \* where the owner thread is
    next,       \* the next job the owner submits
    place,      \* job -> who owns it (ghost)
    cancel      \* phases set in *opts.cancel

ring  == <<items, head, tail, count>>
flags == <<closed, failed, joined, started>>
vars  == <<ring, flags, worker, hand, owner, next, place, cancel>>

Init ==
    /\ items = [i \in Slots |-> NoJob]
    /\ head = 0 /\ tail = 0 /\ count = 0
    /\ closed = FALSE /\ failed = FALSE /\ joined = FALSE
    /\ started = 0
    /\ worker = [w \in Workers |-> "none"]
    /\ hand = [w \in Workers |-> NoJob]
    /\ owner = "create"
    /\ next = 1
    /\ place = [j \in Jobs |-> "builder"]
    /\ cancel = {}

-----------------------------------------------------------------------------
(* Shared steps. *)

Requested == "requested" \in cancel

\* Deviation: the index does not move.
NextSlotStays(i) == i
NextSlot(i) == (i + 1) % QueueCapacity

Waiting == {w \in Workers : worker[w] = "wait"}
Stopped(w) == worker[w] \in {"none", "gone", "dead"}

\* pthread_cond_broadcast(&can_pop) and pthread_cond_broadcast(&can_push).
WakeWorkers == [w \in Workers |-> IF worker[w] = "wait" THEN "loop" ELSE worker[w]]
WakeOwner   == IF owner = "asleep" THEN "retry" ELSE owner

\* Deviation: signal only a queue that was empty.
SignalsOnlyFirst(n) == n = 1
\* submit signals can_pop only while the queue is no longer than the pool.
SignalsConsumer(n) == n <= NumThreads

-----------------------------------------------------------------------------
(* Owner: bx_work_pool_init. *)

\* calloc fails before any thread exists: dispose, return false.
InitAllocFails ==
    /\ owner = "create" /\ started = 0
    /\ owner' = "disposed"
    /\ UNCHANGED <<ring, flags, worker, hand, next, place, cancel>>

CreateThread ==
    /\ owner = "create" /\ started < NumThreads
    /\ worker' = [worker EXCEPT ![started] = "init"]
    /\ started' = started + 1
    /\ owner' = IF started + 1 = NumThreads THEN "ready" ELSE "create"
    /\ UNCHANGED <<ring, closed, failed, joined, hand, next, place, cancel>>

\* pthread_create fails: stop the started workers, then join and dispose.
CreateThreadFails ==
    /\ owner = "create"
    /\ closed' = TRUE /\ failed' = TRUE
    /\ worker' = WakeWorkers
    /\ owner' = "abort"
    /\ UNCHANGED <<ring, joined, started, hand, next, place, cancel>>

-----------------------------------------------------------------------------
(* Owner: bx_work_pool_submit(job `next'). *)

InSubmit == owner \in {"ready", "retry"} /\ next \in Jobs

SubmitWaits ==
    /\ InSubmit
    /\ ~closed /\ ~failed /\ ~Requested
    /\ count = QueueCapacity
    /\ owner' = "asleep"
    /\ UNCHANGED <<ring, flags, worker, hand, next, place, cancel>>

\* Returns false; the job stays with its builder, who does not retry it.
SubmitRefused ==
    /\ InSubmit
    /\ closed \/ failed \/ Requested
    /\ cancel' = IF ~closed /\ ~failed THEN cancel \cup {"observed"} ELSE cancel
    /\ next' = next + 1
    /\ owner' = "ready"
    /\ UNCHANGED <<ring, flags, worker, hand, place>>

\* The tests after submit's wait loop.
Accepts == ~closed /\ ~failed /\ ~Requested

\* A signal wakes one sleeping worker, if there is one.
SubmitAccepted ==
    /\ InSubmit
    /\ Accepts
    /\ count < QueueCapacity
    /\ items' = [items EXCEPT ![tail] = next]
    /\ tail' = NextSlot(tail)
    /\ count' = count + 1
    /\ place' = [place EXCEPT ![next] = "queued"]
    /\ \/ /\ ~SignalsConsumer(count + 1) \/ Waiting = {}
          /\ UNCHANGED worker
       \/ /\ SignalsConsumer(count + 1)
          /\ \E w \in Waiting : worker' = [worker EXCEPT ![w] = "loop"]
    /\ next' = next + 1
    /\ owner' = "ready"
    /\ UNCHANGED <<head, flags, hand, cancel>>

-----------------------------------------------------------------------------
(* Owner: cancellation, bx_work_pool_close, _wake, _join, _dispose. *)

\* The client sets phases of the shared cancel flag without the pool's lock: a
\* bare request, or the three phases of a failed publication.  The search also
\* does so when join reports a failed pool.
OwnerCancels ==
    /\ owner \in {"ready", "disposed"}
    /\ \E p \in {{"requested"}, {"requested", "observed", "draining"}} : cancel' = cancel \cup p
    /\ \/ UNCHANGED owner
       \/ owner = "ready" /\ owner' = "waking"
    /\ UNCHANGED <<ring, flags, worker, hand, next, place>>

\* The client has joined the pool, or its init failed, and reports the outcome of a cancelled run.
OwnerPublishes ==
    /\ (owner = "ready" /\ joined) \/ owner = "disposed"
    /\ Requested
    /\ cancel' = cancel \cup {"published"}
    /\ UNCHANGED <<ring, flags, worker, hand, owner, next, place>>

OwnerWakes ==
    /\ owner = "waking"
    /\ worker' = WakeWorkers
    /\ owner' = "ready"
    /\ UNCHANGED <<ring, flags, hand, next, place, cancel>>

\* bx_work_pool_close.  The owner is the caller, so can_push has no sleeper.
CloseEffect ==
    /\ closed' = TRUE
    /\ cancel' = IF Requested THEN cancel \cup {"observed", "draining"} ELSE cancel
    /\ worker' = WakeWorkers

Close ==
    /\ owner = "ready"
    /\ CloseEffect
    /\ UNCHANGED <<ring, failed, joined, started, hand, owner, next, place>>

\* Clients close before they join.
Join ==
    /\ owner = "ready" /\ closed /\ ~joined
    /\ owner' = "join"
    /\ UNCHANGED <<ring, flags, worker, hand, next, place, cancel>>

\* dispose of a pool that was not joined closes it first, then joins.
Dispose ==
    /\ owner = "ready" /\ ~joined
    /\ CloseEffect
    /\ owner' = "dispose"
    /\ UNCHANGED <<ring, failed, joined, started, hand, next, place>>

DisposeJoined ==
    /\ owner = "ready" /\ joined
    /\ owner' = "reclaim"
    /\ UNCHANGED <<ring, flags, worker, hand, next, place, cancel>>

\* Deviation: join waits only for the workers that are not busy.
BusyForgotten == \A w \in Workers : w < started => Stopped(w) \/ worker[w] = "run"
\* pthread_join of every started thread has returned.
AllJoined == \A w \in Workers : w < started => Stopped(w)

JoinReturns ==
    /\ owner \in {"join", "abort", "dispose"}
    /\ AllJoined
    /\ joined' = TRUE
    /\ cancel' = CASE Requested -> cancel \cup {"observed", "draining", "joined"}
                   [] ~Requested /\ "draining" \in cancel -> cancel \cup {"joined"}
                   [] OTHER -> cancel
    /\ owner' = IF owner = "join" THEN "ready" ELSE "reclaim"
    /\ UNCHANGED <<ring, closed, failed, started, worker, hand, next, place>>

\* dispose_job on every slot that is not NULL, free, memset(pool, 0).
Reclaim ==
    /\ owner = "reclaim"
    /\ place' = [j \in Jobs |-> IF \E i \in Slots : items[i] = j
                                THEN "reclaimed" ELSE place[j]]
    /\ items' = [i \in Slots |-> NoJob]
    /\ head' = 0 /\ tail' = 0 /\ count' = 0
    /\ closed' = FALSE /\ failed' = FALSE /\ joined' = FALSE /\ started' = 0
    /\ owner' = "disposed"
    /\ UNCHANGED <<worker, hand, next, cancel>>

-----------------------------------------------------------------------------
(* Worker: bx_work_pool_worker_main. *)

WorkerInit(w) ==
    /\ worker[w] = "init"
    /\ worker' = [worker EXCEPT ![w] = "loop"]
    /\ UNCHANGED <<ring, flags, hand, owner, next, place, cancel>>

\* failed is set and both conditions broadcast, but the pool is not closed.
WorkerInitFails(w) ==
    /\ worker[w] = "init"
    /\ failed' = TRUE
    /\ worker' = [WakeWorkers EXCEPT ![w] = "dead"]
    /\ owner' = WakeOwner
    /\ UNCHANGED <<ring, closed, joined, started, hand, next, place, cancel>>

Sleep(w) ==
    /\ worker[w] = "loop"
    /\ count = 0 /\ ~closed
    /\ worker' = [worker EXCEPT ![w] = "wait"]
    /\ UNCHANGED <<ring, flags, hand, owner, next, place, cancel>>

\* Deviation: the newest job is taken.
TakeNewest(w) ==
    /\ worker[w] = "loop"
    /\ count > 0
    /\ LET last == (tail + QueueCapacity - 1) % QueueCapacity
       IN  /\ hand' = [hand EXCEPT ![w] = items[last]]
           /\ place' = [place EXCEPT ![items[last]] = "worker"]
           /\ items' = [items EXCEPT ![last] = NoJob]
           /\ tail' = last
    /\ count' = count - 1
    /\ owner' = IF count = QueueCapacity THEN WakeOwner ELSE owner
    /\ worker' = [worker EXCEPT ![w] = "run"]
    /\ UNCHANGED <<head, flags, next, cancel>>

\* Deviation: the sleeping producer is not signalled.
TakeQuietly(w) ==
    /\ worker[w] = "loop"
    /\ count > 0
    /\ hand' = [hand EXCEPT ![w] = items[head]]
    /\ place' = [place EXCEPT ![items[head]] = "worker"]
    /\ items' = [items EXCEPT ![head] = NoJob]
    /\ head' = NextSlot(head)
    /\ count' = count - 1
    /\ worker' = [worker EXCEPT ![w] = "run"]
    /\ UNCHANGED <<tail, flags, owner, next, cancel>>

\* The producer is signalled only by the take that finds the queue full.
Take(w) ==
    /\ worker[w] = "loop"
    /\ count > 0
    /\ hand' = [hand EXCEPT ![w] = items[head]]
    /\ place' = [place EXCEPT ![items[head]] = "worker"]
    /\ items' = [items EXCEPT ![head] = NoJob]
    /\ head' = NextSlot(head)
    /\ count' = count - 1
    /\ owner' = IF count = QueueCapacity THEN WakeOwner ELSE owner
    /\ worker' = [worker EXCEPT ![w] = "run"]
    /\ UNCHANGED <<tail, flags, next, cancel>>

\* process_job returns.
Finish(w) ==
    /\ worker[w] = "run"
    /\ place' = [place EXCEPT ![hand[w]] = "finished"]
    /\ hand' = [hand EXCEPT ![w] = NoJob]
    /\ worker' = [worker EXCEPT ![w] = "loop"]
    /\ UNCHANGED <<ring, flags, owner, next, cancel>>

\* process_job asks for cancellation: the search then calls wake, gzip does not.
\* The search's worker_init does so too before it fails, which wakes everybody.
WorkerCancels(w) ==
    /\ worker[w] \in {"init", "run"} /\ ~Requested
    /\ cancel' = cancel \cup {"requested"}
    /\ \/ UNCHANGED worker
       \/ worker[w] = "run" /\ worker' = [worker EXCEPT ![w] = "waking"]
    /\ UNCHANGED <<ring, flags, hand, owner, next, place>>

WorkerWakes(w) ==
    /\ worker[w] = "waking"
    /\ worker' = [WakeWorkers EXCEPT ![w] = "run"]
    /\ owner' = WakeOwner
    /\ UNCHANGED <<ring, flags, hand, next, place, cancel>>

\* Deviation: a worker leaves a closed pool without draining it.
ExitWhenClosed(w) ==
    /\ worker[w] = "loop"
    /\ closed
    /\ worker' = [worker EXCEPT ![w] = "gone"]
    /\ UNCHANGED <<ring, flags, hand, owner, next, place, cancel>>

Exit(w) ==
    /\ worker[w] = "loop"
    /\ count = 0 /\ closed
    /\ worker' = [worker EXCEPT ![w] = "gone"]
    /\ UNCHANGED <<ring, flags, hand, owner, next, place, cancel>>

\* pthread_cond_wait may return without a signal.
SpuriousWakeup ==
    /\ \/ /\ \E w \in Waiting : worker' = [worker EXCEPT ![w] = "loop"]
          /\ UNCHANGED owner
       \/ /\ owner = "asleep"
          /\ owner' = "retry"
          /\ UNCHANGED worker
    /\ UNCHANGED <<ring, flags, hand, next, place, cancel>>

-----------------------------------------------------------------------------

OwnerNext ==
    \/ InitAllocFails \/ CreateThread \/ CreateThreadFails
    \/ SubmitWaits \/ SubmitRefused \/ SubmitAccepted
    \/ OwnerCancels \/ OwnerWakes \/ OwnerPublishes
    \/ Close \/ Join \/ Dispose \/ DisposeJoined \/ JoinReturns \/ Reclaim

WorkerNext(w) ==
    \/ WorkerInit(w) \/ WorkerInitFails(w)
    \/ Sleep(w) \/ Take(w) \/ Finish(w) \/ Exit(w)
    \/ WorkerCancels(w) \/ WorkerWakes(w)

\* The owner returned from dispose and every thread has ended.
Terminated ==
    /\ owner = "disposed"
    /\ \A w \in Workers : Stopped(w)
    /\ UNCHANGED vars

Next ==
    \/ OwnerNext
    \/ \E w \in Workers : WorkerNext(w)
    \/ SpuriousWakeup
    \/ Terminated

Spec == Init /\ [][Next]_vars

\* A thread the scheduler can run is run: worker callbacks return, and a call
\* the owner is inside makes progress.  Nothing obliges the owner to make its
\* next call, a cancellation to be requested or a wakeup to be spurious.
Fairness ==
    /\ \A w \in Workers :
         WF_vars(WorkerInit(w) \/ WorkerInitFails(w) \/ Sleep(w) \/ Take(w)
                 \/ Finish(w) \/ Exit(w) \/ WorkerWakes(w))
    /\ WF_vars(owner = "retry" /\ OwnerNext)
    /\ WF_vars(CreateThread \/ CreateThreadFails)
    /\ WF_vars(OwnerWakes) /\ WF_vars(JoinReturns) /\ WF_vars(Reclaim)

FairSpec == Spec /\ Fairness

-----------------------------------------------------------------------------
(* Properties. *)

\* The type invariant of the pool's fields and of the two kinds of thread.
TypeOK ==
    /\ items \in [Slots -> Jobs \cup {NoJob}]
    /\ head \in Slots /\ tail \in Slots /\ count \in 0 .. QueueCapacity
    /\ closed \in BOOLEAN /\ failed \in BOOLEAN /\ joined \in BOOLEAN
    /\ started \in 0 .. NumThreads
    /\ worker \in [Workers -> WorkerStates]
    /\ hand \in [Workers -> Jobs \cup {NoJob}]
    /\ owner \in OwnerStates
    /\ next \in 1 .. NumJobs + 1
    /\ place \in [Jobs -> Places]
    /\ cancel \in SUBSET Phases

\* Slot i is one of the `count' slots that start at head.
Occupied(i) ==
    IF head + count <= QueueCapacity
    THEN head <= i /\ i < head + count
    ELSE head <= i \/ i < head + count - QueueCapacity

\* The slots that are not NULL are exactly the `count' ones from head, and
\* tail is the first after them: what dispose's scan for leftovers relies on.
RingConsistent ==
    /\ tail = IF head + count < QueueCapacity
              THEN head + count ELSE head + count - QueueCapacity
    /\ \A i \in Slots : items[i] # NoJob <=> Occupied(i)

\* "Single-owner job lifecycle" of work_pool.h: a queued job is in exactly one
\* slot of the ring, a job being processed in the hand of exactly one worker,
\* and any other job in neither.
SingleOwner ==
    /\ \A i \in Slots : items[i] # NoJob => place[items[i]] = "queued"
    /\ \A i, k \in Slots : items[i] = items[k] /\ items[i] # NoJob => i = k
    /\ \A j \in Jobs : place[j] = "queued" => \E i \in Slots : items[i] = j
    /\ \A w \in Workers : hand[w] # NoJob => place[hand[w]] = "worker"
    /\ \A v, w \in Workers : hand[v] = hand[w] /\ hand[v] # NoJob => v = w
    /\ \A j \in Jobs : place[j] = "worker" => \E w \in Workers : hand[w] = j

Awake == {w \in Workers : worker[w] \in {"loop", "run", "waking"}}

\* No wakeup of a worker is lost: while a worker sleeps on can_pop there are at
\* least as many awake workers as queued jobs, although submit does not signal
\* once the queue is longer than the pool.
WaitersCovered == Waiting = {} \/ count <= Cardinality(Awake)

\* No wakeup of the producer is lost: it sleeps on can_push only while the
\* queue is full, open and not failed, although a take signals only when it
\* found the queue full.
OwnerSleepsOnlyWhenFull ==
    owner = "asleep" => count = QueueCapacity /\ ~closed /\ ~failed

\* No wakeup is lost on either condition variable: with a full ring and every
\* thread asleep one of the two parts fails.
NoLostWakeup == WaitersCovered /\ OwnerSleepsOnlyWhenFull

\* bx_work_pool_join returning true means every accepted job was processed,
\* cancelled or not: workers leave only when the closed queue is empty.
JoinOkMeansDrained ==
    joined /\ ~failed => \A j \in Jobs : place[j] \in {"builder", "finished"}

\* The phases in *opts.cancel are set in order, and JOINED and PUBLISHED are set
\* only once no worker runs: a reader of JOINED may free what workers use.
CancelPhasesInOrder ==
    /\ "observed" \in cancel => Requested
    /\ "draining" \in cancel => "observed" \in cancel
    /\ "joined" \in cancel => "draining" \in cancel
    /\ "published" \in cancel => Requested
    /\ cancel \cap {"joined", "published"} # {} => \A w \in Workers : Stopped(w)

\* "dispose joins all started workers before reclaiming any queued leftovers
\* with dispose_job" (work_pool.h): a job is reclaimed, and the pool's memory
\* freed, only in a step in which no worker lives.
QuiescentReclaim ==
    [][(owner' = "disposed" /\ owner # "disposed")
        \/ (\E j \in Jobs : place'[j] = "reclaimed" /\ place[j] # "reclaimed")
       => \A w \in Workers : Stopped(w)]_vars

\* A job that was finished or reclaimed is never touched again, and one that
\* was accepted never returns to its builder.
JobsNeverReturn ==
    [][\A j \in Jobs :
         /\ place[j] \in {"finished", "reclaimed"} => place'[j] = place[j]
         /\ place[j] # "builder" => place'[j] # "builder"]_vars

\* Jobs leave the ring in the order they were submitted, across the wrap.
FifoOrder ==
    [][\A j, k \in Jobs :
         j < k /\ place[j] = "queued" /\ place[k] = "queued" /\ place'[k] # "queued"
           => place'[j] # "queued"]_vars

\* submit and join end.  A full queue is emptied by workers, and if every
\* worker failed its init the producer is told; closing the pool reaches every
\* worker, asleep, busy or still in its init.
CallReturns ==
    /\ owner \in {"asleep", "retry"} ~> owner = "ready"
    /\ owner \in {"join", "abort", "dispose"} ~> owner \in {"ready", "disposed"}

=============================================================================
