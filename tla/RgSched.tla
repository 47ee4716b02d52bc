------------------------------ MODULE RgSched ------------------------------
(***************************************************************************)
(* The work-stealing subtree scheduler of src/src/search/rg_sched.c, which *)
(* runs a recursive search on several threads.                             *)
(*                                                                         *)
(* Each worker has a slot, a list of work items under its own lock.  It    *)
(* pops its newest item or steals the oldest of another worker, walks the  *)
(* directory and donates subdirectories to its own slot while some worker  *)
(* is idle.  Three counters under the global lock decide who sleeps on     *)
(* work_ready and when everybody stops.  A critical section is one action; *)
(* taking an item and counting it (note_work_claimed) are two.             *)
(*                                                                         *)
(* An item is a directory or a batch of explicit files (no children).      *)
(* Inside one walk only the subdirectories at depth 1 can be donated, so a *)
(* directory that is not donated is walked with everything below it.       *)
(***************************************************************************)
EXTENDS Naturals, Sequences, FiniteSets

CONSTANTS NumThreads,   \* thread_count
          Items,        \* directories and file batches of the search
          Roots,        \* the frontier: the items of the operands, in order
          Kids,         \* item -> its subdirectories at depth 1
          Below         \* item -> itself and everything below it

\* bx_rg_sched_supported asks for several threads; the operands and what is
\* below them form a forest.
ASSUME ForestAssumption ==
    /\ NumThreads \in Nat \ {0}
    /\ IsFiniteSet(Items)
    /\ Roots \in Seq(Items) /\ Roots # <<>>
    /\ Kids \in [Items -> SUBSET Items] /\ Below \in [Items -> SUBSET Items]
    /\ \A d \in Items : /\ d \in Below[d]
                        /\ \A k \in Kids[d] : Below[k] \subseteq Below[d] \ {d}
                        /\ \A e \in Below[d] : e = d \/ \E k \in Kids[d] : e \in Below[k]
    /\ \A d \in Items : \A k, l \in Kids[d] : k # l => Below[k] \cap Below[l] = {}
    /\ \A i, j \in 1 .. Len(Roots) : i # j => Below[Roots[i]] \cap Below[Roots[j]] = {}
    /\ \A d \in Items : \E i \in 1 .. Len(Roots) : d \in Below[Roots[i]]

Workers == 0 .. NumThreads - 1
Flags   == {"match", "error"}

WorkerStates == {"none",      \* no thread created at this index
                 "init",      \* in bx_rg_sched_worker_init
                 "top",       \* at the head of the loop of worker_main
                 "scan",      \* about to look into a slot
                 "claim",     \* took an item, about to call note_work_claimed
                 "walk",      \* in the walk of an item
                 "donate",    \* saw an idle worker, about to enqueue
                 "cancel",    \* in set_fatal, about to request cancellation
                 "publish",   \* walk over, about to publish its result
                 "finish",    \* about to call finish_work
                 "sync",      \* found no work, about to take the global lock
                 "wait",      \* in pthread_cond_wait(&work_ready)
                 "woken",     \* woken, about to test the wait loop
                 "gone"}      \* returned

MainStates == {"seed",        \* building the frontier
               "create",      \* in the pthread_create loop
               "cancel",      \* in set_fatal, about to request cancellation
               "join",        \* joining the started threads
               "report",      \* joined, about to report
               "done"}

VARIABLES
    slots,            \* worker -> its list, oldest first
    pending_work, active_workers, idle_workers,
    shutdown, fatal_error,
    exit_status,
    cancel,           \* phases set in sched.cancel
    pc,               \* worker -> where it is
    offset,           \* worker -> offset of the slot it looks into
    hand,             \* worker -> the item it took
    todo,             \* worker -> subdirectories its walk has not reached
    kid,              \* worker -> the subdirectory it wants to donate
    flags,            \* worker -> job_match_seen and job_error_seen
    after,            \* worker -> where set_fatal returns to
    main, started,
    visits            \* item -> how often it was walked (ghost)

counters == <<pending_work, active_workers, idle_workers>>
status   == <<shutdown, fatal_error, exit_status, cancel>>
local    == <<offset, hand, todo, kid, flags, after>>
coord    == <<main, started>>
vars     == <<slots, counters, status, pc, local, coord, visits>>

AnItem == CHOOSE d \in Items : TRUE     \* value of hand and kid when unused

Init ==
    /\ slots = [w \in Workers |-> <<>>]
    /\ pending_work = 0 /\ active_workers = 0 /\ idle_workers = 0
    /\ shutdown = FALSE /\ fatal_error = FALSE /\ exit_status = 1 /\ cancel = {}
    /\ pc = [w \in Workers |-> "none"]
    /\ offset = [w \in Workers |-> 0]
    /\ hand = [w \in Workers |-> AnItem]
    /\ todo = [w \in Workers |-> {}]
    /\ kid = [w \in Workers |-> AnItem]
    /\ flags = [w \in Workers |-> {}]
    /\ after = [w \in Workers |-> "finish"]
    /\ main = "seed" /\ started = 0
    /\ visits = [d \in Items |-> 0]

-----------------------------------------------------------------------------
(* Shared steps. *)

Requested == "requested" \in cancel

\* bx_rg_sched_cancel_requested marks the phases of whoever sees the request.
NoticeCancel ==
    cancel' = IF Requested THEN cancel \cup {"observed", "draining"} ELSE cancel

\* pthread_cond_broadcast(&work_ready), by a worker that has set its state.
WakeAll(p) == [w \in Workers |-> IF p[w] = "wait" THEN "woken" ELSE p[w]]

Goto(w, s) == pc' = [pc EXCEPT ![w] = s]

\* bx_rg_sched_set_fatal: the critical section; the request follows outside
\* the lock.
RaiseFatal(w, then) ==
    /\ fatal_error' = TRUE /\ shutdown' = TRUE
    /\ pc' = WakeAll([pc EXCEPT ![w] = "cancel"])
    /\ after' = [after EXCEPT ![w] = then]

\* Deviation: a match demotes an earlier error.
StatusLastWins(s, r) == IF "error" \in r THEN 2 ELSE IF "match" \in r THEN 0 ELSE s
\* bx_rg_sched_apply_result_unlocked.
ApplyResult(s, r) ==
    IF "error" \in r THEN 2 ELSE IF "match" \in r /\ s # 2 THEN 0 ELSE s

\* A walk of d that has been counted.
Walk(S) == visits' = [d \in Items |-> IF d \in S THEN visits[d] + 1 ELSE visits[d]]

-----------------------------------------------------------------------------
(* Main thread: bx_rg_sched_run. *)

\* stat of an operand failed.
OperandMissing ==
    /\ main = "seed"
    /\ exit_status' = ApplyResult(exit_status, {"error"})
    /\ UNCHANGED <<slots, counters, shutdown, fatal_error, cancel, pc, local, coord, visits>>

\* bx_rg_sched_seed_frontier: item i goes to worker i % thread_count.
SeedFrontier ==
    /\ main = "seed"
    /\ slots' = [w \in Workers |->
                   [i \in 1 .. Cardinality({j \in 1 .. Len(Roots) : (j - 1) % NumThreads = w})
                      |-> Roots[(i - 1) * NumThreads + w + 1]]]
    /\ pending_work' = Len(Roots)
    /\ main' = "create"
    /\ UNCHANGED <<active_workers, idle_workers, status, pc, local, started, visits>>

\* Every operand was missing or skipped: no work, and no thread.
NothingSelected ==
    /\ main = "seed"
    /\ main' = "join"
    /\ UNCHANGED <<slots, counters, status, pc, local, started, visits>>

\* No memory for the frontier, the slots, the publication or the threads.
SeedFails ==
    /\ main = "seed"
    /\ fatal_error' = TRUE /\ shutdown' = TRUE
    /\ main' = "cancel"
    /\ UNCHANGED <<slots, counters, exit_status, cancel, pc, local, started, visits>>

CreateThread ==
    /\ main = "create"
    /\ Goto(started, "init")
    /\ started' = started + 1
    /\ main' = IF started + 1 = NumThreads THEN "join" ELSE "create"
    /\ UNCHANGED <<slots, counters, status, local, visits>>

CreateThreadFails ==
    /\ main = "create"
    /\ fatal_error' = TRUE /\ shutdown' = TRUE
    /\ pc' = WakeAll(pc)
    /\ main' = "cancel"
    /\ UNCHANGED <<slots, counters, exit_status, cancel, local, started, visits>>

MainCancels ==
    /\ main = "cancel"
    /\ cancel' = cancel \cup {"requested", "draining"}
    /\ main' = "join"
    /\ UNCHANGED <<slots, counters, shutdown, fatal_error, exit_status, pc, local, started, visits>>

JoinThreads ==
    /\ main = "join"
    /\ \A w \in Workers : w < started => pc[w] = "gone"
    /\ cancel' = IF Requested THEN cancel \cup {"draining", "joined"} ELSE cancel
    /\ main' = "report"
    /\ UNCHANGED <<slots, counters, shutdown, fatal_error, exit_status, pc, local, started, visits>>

\* Report, then free the leftovers of the frontier and of the slots.
Report ==
    /\ main = "report"
    /\ cancel' = IF Requested THEN cancel \cup {"published"} ELSE cancel
    /\ exit_status' = IF fatal_error THEN 2 ELSE exit_status
    /\ slots' = [w \in Workers |-> <<>>]
    /\ main' = "done"
    /\ UNCHANGED <<counters, shutdown, fatal_error, pc, local, started, visits>>

-----------------------------------------------------------------------------
(* Worker: the loop of bx_rg_sched_worker_main. *)

WorkerInit(w) ==
    /\ pc[w] = "init"
    /\ Goto(w, "top")
    /\ UNCHANGED <<slots, counters, status, local, coord, visits>>

\* calloc fails: the worker returns without a word.
WorkerInitFails(w) ==
    /\ pc[w] = "init"
    /\ Goto(w, "gone")
    /\ UNCHANGED <<slots, counters, status, local, coord, visits>>

CompileFails(w) ==
    /\ pc[w] = "init"
    /\ RaiseFatal(w, "gone")
    /\ UNCHANGED <<slots, counters, exit_status, cancel, offset, hand, todo, kid, flags, coord, visits>>

\* The rest of bx_rg_sched_set_fatal.
RequestCancel(w) ==
    /\ pc[w] = "cancel"
    /\ cancel' = cancel \cup {"requested", "draining"}
    /\ Goto(w, after[w])
    /\ UNCHANGED <<slots, counters, shutdown, fatal_error, exit_status, local, coord, visits>>

Top(w) ==
    /\ pc[w] = "top"
    /\ NoticeCancel
    /\ Goto(w, IF Requested THEN "gone" ELSE "scan")
    /\ offset' = [offset EXCEPT ![w] = 0]
    /\ UNCHANGED <<slots, counters, shutdown, fatal_error, exit_status, hand, todo, kid, flags, after,
                   coord, visits>>

Victim(w) == (w + offset[w]) % NumThreads

\* An empty slot: look into the next one.
ScanEmpty(w) ==
    /\ pc[w] = "scan"
    /\ slots[Victim(w)] = <<>>
    /\ offset' = [offset EXCEPT ![w] = @ + 1]
    /\ Goto(w, IF offset[w] + 1 = NumThreads THEN "sync" ELSE "scan")
    /\ UNCHANGED <<slots, counters, status, hand, todo, kid, flags, after, coord, visits>>

\* Deviation: the thief leaves the item in the slot.
TakeItemKeeps(w) ==
    /\ pc[w] = "scan"
    /\ LET v == Victim(w) IN
         /\ slots[v] # <<>>
         /\ IF offset[w] = 0
            THEN /\ hand' = [hand EXCEPT ![w] = slots[v][Len(slots[v])]]
                 /\ slots' = [slots EXCEPT ![v] = SubSeq(@, 1, Len(@) - 1)]
            ELSE /\ hand' = [hand EXCEPT ![w] = Head(slots[v])]
                 /\ UNCHANGED slots
    /\ Goto(w, "claim")
    /\ UNCHANGED <<counters, status, offset, todo, kid, flags, after, coord, visits>>

\* try_pop_local_work takes the newest item, try_steal_work the oldest.
TakeItem(w) ==
    /\ pc[w] = "scan"
    /\ LET v == Victim(w) IN
         /\ slots[v] # <<>>
         /\ IF offset[w] = 0
            THEN /\ hand' = [hand EXCEPT ![w] = slots[v][Len(slots[v])]]
                 /\ slots' = [slots EXCEPT ![v] = SubSeq(@, 1, Len(@) - 1)]
            ELSE /\ hand' = [hand EXCEPT ![w] = Head(slots[v])]
                 /\ slots' = [slots EXCEPT ![v] = Tail(@)]
    /\ Goto(w, "claim")
    /\ UNCHANGED <<counters, status, offset, todo, kid, flags, after, coord, visits>>

\* note_work_claimed, then the walk begins.
Claim(w) ==
    /\ pc[w] = "claim"
    /\ pending_work' = IF pending_work > 0 THEN pending_work - 1 ELSE pending_work
    /\ active_workers' = active_workers + 1
    /\ Walk({hand[w]})
    /\ todo' = [todo EXCEPT ![w] = Kids[hand[w]]]
    /\ flags' = [flags EXCEPT ![w] = {}]
    /\ Goto(w, "walk")
    /\ UNCHANGED <<slots, idle_workers, status, offset, hand, kid, after, coord>>

-----------------------------------------------------------------------------
(* Worker: the walk of an item, bx_rg_sched_process_work and walk_visit. *)

\* Files of the item are searched on the way: they match or fail.
SearchFile(w) ==
    /\ pc[w] = "walk"
    /\ \E f \in Flags : flags' = [flags EXCEPT ![w] = @ \cup {f}]
    /\ UNCHANGED <<slots, counters, status, pc, offset, hand, todo, kid, after, coord, visits>>

\* No idle worker, too deep, or the directory cannot be opened for a donation.
VisitInline(w) ==
    /\ pc[w] = "walk" /\ ~Requested
    /\ \E k \in todo[w] : /\ Walk(Below[k])
                          /\ todo' = [todo EXCEPT ![w] = @ \ {k}]
    /\ UNCHANGED <<slots, counters, status, pc, offset, hand, kid, flags, after, coord>>

\* has_idle_worker said yes.
VisitIdle(w) ==
    /\ pc[w] = "walk" /\ ~Requested
    /\ idle_workers > 0 /\ ~shutdown
    /\ \E k \in todo[w] : /\ kid' = [kid EXCEPT ![w] = k]
                          /\ todo' = [todo EXCEPT ![w] = @ \ {k}]
    /\ Goto(w, "donate")
    /\ UNCHANGED <<slots, counters, status, offset, hand, flags, after, coord, visits>>

\* Deviation: the item is queued without being counted.
DonateUncounted(w) ==
    /\ pc[w] = "donate"
    /\ idle_workers > 0 /\ ~shutdown
    /\ slots' = [slots EXCEPT ![w] = Append(@, kid[w])]
    /\ pc' = WakeAll([pc EXCEPT ![w] = "walk"])
    /\ UNCHANGED <<counters, status, local, coord, visits>>

\* enqueue_local_work_if_idle queued the item: the walk prunes it.
Donate(w) ==
    /\ pc[w] = "donate"
    /\ idle_workers > 0 /\ ~shutdown
    /\ slots' = [slots EXCEPT ![w] = Append(@, kid[w])]
    /\ pending_work' = pending_work + 1
    /\ pc' = WakeAll([pc EXCEPT ![w] = "walk"])
    /\ UNCHANGED <<active_workers, idle_workers, status, local, coord, visits>>

\* Nobody is idle any more: the walk goes on into the directory.
DonateLate(w) ==
    /\ pc[w] = "donate"
    /\ idle_workers = 0 \/ shutdown
    /\ Walk(Below[kid[w]])
    /\ Goto(w, "walk")
    /\ UNCHANGED <<slots, counters, status, local, coord>>

\* No memory for the donation: the walk fails.
DonateFails(w) ==
    /\ pc[w] = "donate"
    /\ RaiseFatal(w, "publish")
    /\ flags' = [flags EXCEPT ![w] = @ \cup {"error"}]
    /\ UNCHANGED <<slots, counters, exit_status, cancel, offset, hand, todo, kid, coord, visits>>

\* No memory for output or diagnostics of a file: the walk goes on to the next
\* entry.  A queued path that cannot be resolved: the item is dropped at once.
\* After a request a second fatal error is no more than a failed file.
SearchFatal(w) ==
    /\ pc[w] = "walk" /\ ~Requested
    /\ \/ /\ RaiseFatal(w, "walk")
          /\ flags' = [flags EXCEPT ![w] = @ \cup {"error"}]
       \/ /\ todo[w] = Kids[hand[w]]
          /\ RaiseFatal(w, "finish")
          /\ UNCHANGED flags
    /\ UNCHANGED <<slots, counters, exit_status, cancel, offset, hand, todo, kid, coord, visits>>

\* The walk stops at an entry because of a cancellation.
WalkStops(w) ==
    /\ pc[w] = "walk" /\ Requested
    /\ NoticeCancel
    /\ Goto(w, "publish")
    /\ UNCHANGED <<slots, counters, shutdown, fatal_error, exit_status, local, coord, visits>>

\* The walk returns an error before it has seen every entry.
WalkFails(w) ==
    /\ pc[w] = "walk" /\ todo[w] # {}
    /\ flags' = [flags EXCEPT ![w] = @ \cup {"error"}]
    /\ Goto(w, "publish")
    /\ UNCHANGED <<slots, counters, status, offset, hand, todo, kid, after, coord, visits>>

WalkEnds(w) ==
    /\ pc[w] = "walk" /\ todo[w] = {}
    /\ Goto(w, "publish")
    /\ UNCHANGED <<slots, counters, status, local, coord, visits>>

\* merge_direct_result, or a submit that emits the record, under the
\* publication's lock.
Publish(w) ==
    /\ pc[w] = "publish"
    /\ exit_status' = ApplyResult(exit_status, flags[w])
    /\ Goto(w, "finish")
    /\ UNCHANGED <<slots, counters, shutdown, fatal_error, cancel, local, coord, visits>>

\* No memory for the record, or its submit fails.
PublishFails(w) ==
    /\ pc[w] = "publish"
    /\ RaiseFatal(w, "finish")
    /\ UNCHANGED <<slots, counters, exit_status, cancel, offset, hand, todo, kid, flags, coord, visits>>

-----------------------------------------------------------------------------
(* Worker: bx_rg_sched_finish_work and the part of the loop without work. *)

NoWork(p, a) == p = 0 /\ a = 0

\* Deviation: the worker stays active.
FinishStaysActive(w) ==
    /\ pc[w] = "finish"
    /\ Goto(w, "top")
    /\ UNCHANGED <<slots, counters, status, local, coord, visits>>

Finish(w) ==
    /\ pc[w] = "finish"
    /\ active_workers' = IF active_workers > 0 THEN active_workers - 1 ELSE active_workers
    /\ IF fatal_error \/ (NoWork(pending_work, active_workers') /\ idle_workers > 0)
       THEN /\ shutdown' = (shutdown \/ NoWork(pending_work, active_workers'))
            /\ pc' = WakeAll([pc EXCEPT ![w] = "top"])
       ELSE Goto(w, "top") /\ UNCHANGED shutdown
    /\ UNCHANGED <<slots, pending_work, idle_workers, fatal_error, exit_status, cancel, local, coord,
                   visits>>

Stopping == fatal_error \/ shutdown \/ Requested

\* Stopping is evaluated from left to right.
NoticeUnlessStopped == IF fatal_error \/ shutdown THEN UNCHANGED cancel ELSE NoticeCancel

SyncStops(w) ==
    /\ pc[w] = "sync" /\ Stopping
    /\ NoticeUnlessStopped
    /\ Goto(w, "gone")
    /\ UNCHANGED <<slots, counters, shutdown, fatal_error, exit_status, local, coord, visits>>

\* Work is queued, or taken and not yet counted: look again.
SyncRetries(w) ==
    /\ pc[w] = "sync" /\ ~Stopping
    /\ pending_work > 0
    /\ Goto(w, "top")
    /\ UNCHANGED <<slots, counters, status, local, coord, visits>>

\* Deviation: a worker without work ends the search while others are active.
SyncEndsEarly(w) ==
    /\ pc[w] = "sync" /\ ~Stopping
    /\ pending_work = 0
    /\ shutdown' = TRUE
    /\ pc' = WakeAll([pc EXCEPT ![w] = "gone"])
    /\ UNCHANGED <<slots, counters, fatal_error, exit_status, cancel, local, coord, visits>>

\* Nobody has work: the search is over.
SyncEnds(w) ==
    /\ pc[w] = "sync" /\ ~Stopping
    /\ NoWork(pending_work, active_workers)
    /\ shutdown' = TRUE
    /\ pc' = WakeAll([pc EXCEPT ![w] = "gone"])
    /\ UNCHANGED <<slots, counters, fatal_error, exit_status, cancel, local, coord, visits>>

\* Others are active and may donate.
SyncSleeps(w) ==
    /\ pc[w] = "sync" /\ ~Stopping
    /\ pending_work = 0 /\ active_workers > 0
    /\ idle_workers' = idle_workers + 1
    /\ Goto(w, "wait")
    /\ UNCHANGED <<slots, pending_work, active_workers, status, local, coord, visits>>

WokenSleeps(w) ==
    /\ pc[w] = "woken" /\ ~Stopping
    /\ pending_work = 0 /\ active_workers > 0
    /\ Goto(w, "wait")
    /\ UNCHANGED <<slots, counters, status, local, coord, visits>>

WokenLeaves(w) ==
    /\ pc[w] = "woken"
    /\ Stopping \/ pending_work > 0 \/ active_workers = 0
    /\ idle_workers' = idle_workers - 1
    /\ NoticeUnlessStopped
    /\ IF ~Stopping /\ NoWork(pending_work, active_workers)
       THEN shutdown' = TRUE /\ pc' = WakeAll([pc EXCEPT ![w] = "gone"])
       ELSE Goto(w, IF Stopping THEN "gone" ELSE "top") /\ UNCHANGED shutdown
    /\ UNCHANGED <<slots, pending_work, active_workers, fatal_error, exit_status, local, coord, visits>>

SpuriousWakeup(w) ==
    /\ pc[w] = "wait"
    /\ Goto(w, "woken")
    /\ UNCHANGED <<slots, counters, status, local, coord, visits>>

-----------------------------------------------------------------------------

MainNext ==
    \/ OperandMissing \/ SeedFrontier \/ NothingSelected \/ SeedFails \/ CreateThread \/ CreateThreadFails
    \/ MainCancels \/ JoinThreads \/ Report

\* Steps a running worker has to take, and those it may take.
LoopStep(w) ==
    \/ WorkerInit(w) \/ WorkerInitFails(w) \/ CompileFails(w) \/ RequestCancel(w)
    \/ Top(w) \/ ScanEmpty(w) \/ TakeItem(w) \/ Claim(w)
    \/ Finish(w) \/ SyncStops(w) \/ SyncRetries(w) \/ SyncEnds(w) \/ SyncSleeps(w)
    \/ WokenSleeps(w) \/ WokenLeaves(w)

WalkStep(w) ==
    \/ VisitInline(w) \/ VisitIdle(w) \/ Donate(w) \/ DonateLate(w) \/ DonateFails(w)
    \/ WalkStops(w) \/ WalkFails(w) \/ WalkEnds(w) \/ Publish(w) \/ PublishFails(w)

WorkerNext(w) ==
    \/ LoopStep(w) \/ WalkStep(w)
    \/ SearchFile(w) \/ SearchFatal(w) \/ SpuriousWakeup(w)

Terminated == main = "done" /\ UNCHANGED vars

Next ==
    \/ MainNext
    \/ \E w \in Workers : WorkerNext(w)
    \/ Terminated

Spec == Init /\ [][Next]_vars

\* Every thread keeps running, and a walk of a finite tree ends.
Fairness ==
    /\ WF_vars(SeedFrontier \/ NothingSelected \/ SeedFails \/ CreateThread \/ CreateThreadFails
               \/ MainCancels \/ JoinThreads \/ Report)
    /\ \A w \in Workers : WF_vars(LoopStep(w)) /\ WF_vars(WalkStep(w))

FairSpec == Spec /\ Fairness

-----------------------------------------------------------------------------
(* Properties. *)

Active(w) ==
    \/ pc[w] \in {"walk", "donate", "publish", "finish"}
    \/ pc[w] = "cancel" /\ after[w] # "gone"

InSlots(d) == \E w \in Workers : \E i \in 1 .. Len(slots[w]) : slots[w][i] = d

\* The type invariant of the scheduler.
TypeOK ==
    /\ slots \in [Workers -> Seq(Items)]
    /\ pending_work \in Nat /\ active_workers \in Nat /\ idle_workers \in Nat
    /\ shutdown \in BOOLEAN /\ fatal_error \in BOOLEAN
    /\ exit_status \in 0 .. 2
    /\ cancel \in SUBSET {"requested", "observed", "draining", "joined", "published"}
    /\ pc \in [Workers -> WorkerStates]
    /\ offset \in [Workers -> 0 .. NumThreads]
    /\ hand \in [Workers -> Items] /\ kid \in [Workers -> Items]
    /\ todo \in [Workers -> SUBSET Items]
    /\ flags \in [Workers -> SUBSET Flags]
    /\ after \in [Workers -> {"walk", "publish", "finish", "gone"}]
    /\ main \in MainStates /\ started \in 0 .. NumThreads
    /\ visits \in [Items -> Nat]

\* The counters say what the workers do, although an item leaves its slot
\* before it is counted as claimed: pending_work counts the items in slots and
\* those just taken, active_workers the items being walked, idle_workers the
\* workers at the condition variable.
CountersAgree ==
    /\ TypeOK
    /\ main # "done" =>
         /\ pending_work = Cardinality({d \in Items : InSlots(d)})
                             + Cardinality({w \in Workers : pc[w] = "claim"})
         /\ active_workers = Cardinality({w \in Workers : Active(w)})
         /\ idle_workers = Cardinality({w \in Workers : pc[w] \in {"wait", "woken"}})

\* Sleep and shutdown exclude each other's mistakes.  The search is not shut
\* down while work is left, unless something failed; and no wakeup is lost: a
\* worker sleeps only while nothing is queued, somebody is active (and will
\* donate or finish) and the search goes on.
SleepAndShutdown ==
    /\ shutdown /\ ~fatal_error =>
         /\ \A w \in Workers : slots[w] = <<>>
         /\ \A w \in Workers : pc[w] # "claim" /\ ~Active(w)
    /\ (\E w \in Workers : pc[w] = "wait") =>
         /\ pending_work = 0 /\ ~shutdown /\ ~fatal_error
         /\ \E v \in Workers : Active(v)

\* Nothing is searched twice: popped, stolen, donated and inline walks of a
\* directory exclude each other.
WalkedOnce == \A d \in Items : visits[d] <= 1

\* A run that ends without an error status has searched everything, provided
\* one worker got the memory to start.
SuccessIsComplete ==
    main = "done" /\ exit_status # 2 /\ shutdown => \A d \in Items : visits[d] = 1

\* The run ends: no worker sleeps or spins for ever.
RunEnds == <>(main = "done")

=============================================================================
