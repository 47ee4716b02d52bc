--------------------------- MODULE RgParallelProofs ---------------------------
(***************************************************************************)
(* Proofs about the searches of rg that are divided by batches, and about  *)
(* the commands rg runs on a file.                                         *)
(*                                                                         *)
(* The parallel search is its pool and what the callbacks do.  The first   *)
(* part proves of the pool, for NumFiles jobs, the invariant the search    *)
(* needs; the lemmas are those of WorkPoolProofs, which cannot be cited    *)
(* for an instance.  The second shows that each step of the search is one  *)
(* the pool allows.  The third follows every file from the walk into the   *)
(* pending batch, the batch from there through the queue to the worker     *)
(* that frees it, and each failure to the exit status.  The last part is   *)
(* about RgCapture.                                                        *)
(***************************************************************************)
EXTENDS RgParallel, RgCapture, Integers, FiniteSetTheorems, TLAPS

-----------------------------------------------------------------------------
(* Part 1: the pool.  Its ring first, then its types. *)

\* The ring index wraps to 0 after the last slot.
LEMMA NextSlotWraps ==
    ASSUME NEW i \in Pool!Slots
    PROVE  /\ Pool!NextSlot(i) = IF i + 1 = QueueCapacity THEN 0 ELSE i + 1
           /\ Pool!NextSlot(i) \in Pool!Slots
<1>1. QueueCapacity \in Nat \ {0}
  BY SearchAssumption
<1>2. i \in Nat /\ i < QueueCapacity
  BY <1>1 DEF Pool!Slots
<1>3. CASE i + 1 = QueueCapacity
  <2>1. QueueCapacity % QueueCapacity = 0
    BY <1>1
  <2> QED BY <1>1, <1>2, <1>3, <2>1 DEF Pool!NextSlot, Pool!Slots
<1>4. CASE i + 1 # QueueCapacity
  <2>1. i + 1 \in 0 .. QueueCapacity - 1
    BY <1>1, <1>2, <1>4
  <2>2. (i + 1) % QueueCapacity = i + 1
    BY <1>1, <2>1
  <2> QED BY <2>1, <2>2, <1>4 DEF Pool!NextSlot, Pool!Slots
<1> QED BY <1>3, <1>4

\* A broadcast keeps the type of the workers' states and leaves none asleep.
LEMMA WakeWorkersEffect ==
    ASSUME worker \in [Pool!Workers -> Pool!WorkerStates]
    PROVE  /\ Pool!WakeWorkers \in [Pool!Workers -> Pool!WorkerStates]
           /\ \A w \in Pool!Workers : Pool!WakeWorkers[w] # "wait"
           /\ \A w \in Pool!Workers : worker[w] # "wait" => Pool!WakeWorkers[w] = worker[w]
           /\ \A w \in Pool!Workers : worker[w] = "wait" => Pool!WakeWorkers[w] = "loop"
BY DEF Pool!WakeWorkers, Pool!WorkerStates

-----------------------------------------------------------------------------

LEMMA FirstSlot == 0 \in Pool!Slots
BY SearchAssumption DEF Pool!Slots

LEMMA PoolTypeInit == Pool!Init => Pool!TypeOK
<1> SUFFICES ASSUME Pool!Init PROVE Pool!TypeOK
  OBVIOUS
<1> USE SearchAssumption DEF Pool!Init
<1>1. items \in [Pool!Slots -> Pool!Jobs \cup {Pool!NoJob}] /\ hand \in [Pool!Workers -> Pool!Jobs \cup {Pool!NoJob}]
  OBVIOUS
<1>2. head \in Pool!Slots /\ tail \in Pool!Slots
  BY FirstSlot
<1>3. count \in 0 .. QueueCapacity /\ started \in 0 .. NumThreads /\ next \in 1 .. NumFiles + 1
  OBVIOUS
<1>4. worker \in [Pool!Workers -> Pool!WorkerStates] /\ place \in [Pool!Jobs -> Pool!Places]
  BY DEF Pool!WorkerStates, Pool!Places
<1>5. owner \in Pool!OwnerStates /\ cancel \in SUBSET Pool!Phases
  BY DEF Pool!OwnerStates
<1> QED BY <1>1, <1>2, <1>3, <1>4, <1>5 DEF Pool!TypeOK

\* Steps of the owner keep the types.
LEMMA PoolTypeOwner == Pool!TypeOK /\ Pool!OwnerNext => Pool!TypeOK'
<1> SUFFICES ASSUME Pool!TypeOK, Pool!OwnerNext PROVE Pool!TypeOK'
  OBVIOUS
<1> USE SearchAssumption
<1>1. CASE Pool!InitAllocFails
  BY <1>1 DEF Pool!TypeOK, Pool!InitAllocFails, Pool!ring, Pool!flags, Pool!OwnerStates
<1>2. CASE Pool!CreateThread
  BY <1>2 DEF Pool!TypeOK, Pool!CreateThread, Pool!ring, Pool!OwnerStates, Pool!Workers, Pool!WorkerStates
<1>3. CASE Pool!CreateThreadFails
  BY <1>3, WakeWorkersEffect DEF Pool!TypeOK, Pool!CreateThreadFails, Pool!ring, Pool!OwnerStates
<1>4. CASE Pool!SubmitWaits
  BY <1>4 DEF Pool!TypeOK, Pool!SubmitWaits, Pool!ring, Pool!flags, Pool!OwnerStates
<1>5. CASE Pool!SubmitRefused
  BY <1>5 DEF Pool!TypeOK, Pool!SubmitRefused, Pool!InSubmit, Pool!Jobs, Pool!ring, Pool!flags, Pool!OwnerStates, Pool!Phases
<1>6. CASE Pool!SubmitAccepted
  <2>1. next \in Pool!Jobs /\ tail \in Pool!Slots
    BY <1>6 DEF Pool!SubmitAccepted, Pool!InSubmit, Pool!TypeOK
  <2>2. items' \in [Pool!Slots -> Pool!Jobs \cup {Pool!NoJob}] /\ tail' \in Pool!Slots
    BY <1>6, <2>1, NextSlotWraps DEF Pool!SubmitAccepted, Pool!TypeOK
  <2>3. count' \in 0 .. QueueCapacity
    BY <1>6 DEF Pool!SubmitAccepted, Pool!TypeOK
  <2>4. worker' \in [Pool!Workers -> Pool!WorkerStates]
    BY <1>6 DEF Pool!SubmitAccepted, Pool!TypeOK, Pool!Waiting, Pool!WorkerStates
  <2>5. place' \in [Pool!Jobs -> Pool!Places] /\ next' \in 1 .. NumFiles + 1
    BY <1>6, <2>1 DEF Pool!SubmitAccepted, Pool!TypeOK, Pool!Places, Pool!Jobs
  <2> QED BY <1>6, <2>2, <2>3, <2>4, <2>5
      DEF Pool!SubmitAccepted, Pool!TypeOK, Pool!flags, Pool!OwnerStates
<1>7. CASE Pool!OwnerCancels \/ Pool!OwnerPublishes
  BY <1>7 DEF Pool!TypeOK, Pool!OwnerCancels, Pool!OwnerPublishes, Pool!ring, Pool!flags, Pool!OwnerStates, Pool!Phases
<1>8. CASE Pool!OwnerWakes
  BY <1>8, WakeWorkersEffect DEF Pool!TypeOK, Pool!OwnerWakes, Pool!ring, Pool!flags, Pool!OwnerStates
<1>9. CASE Pool!Close
  BY <1>9, WakeWorkersEffect DEF Pool!TypeOK, Pool!Close, Pool!CloseEffect, Pool!ring, Pool!Phases
<1>10. CASE Pool!Join
  BY <1>10 DEF Pool!TypeOK, Pool!Join, Pool!ring, Pool!flags, Pool!OwnerStates
<1>11. CASE Pool!Dispose
  BY <1>11, WakeWorkersEffect DEF Pool!TypeOK, Pool!Dispose, Pool!CloseEffect, Pool!ring, Pool!Phases, Pool!OwnerStates
<1>12. CASE Pool!DisposeJoined
  BY <1>12 DEF Pool!TypeOK, Pool!DisposeJoined, Pool!ring, Pool!flags, Pool!OwnerStates
<1>13. CASE Pool!JoinReturns
  <2>1. cancel' \in SUBSET Pool!Phases
    BY <1>13 DEF Pool!TypeOK, Pool!JoinReturns, Pool!Phases
  <2> QED BY <1>13, <2>1 DEF Pool!TypeOK, Pool!JoinReturns, Pool!ring, Pool!OwnerStates
<1>14. CASE Pool!Reclaim
  <2>1. head' \in Pool!Slots /\ tail' \in Pool!Slots /\ count' \in 0 .. QueueCapacity
        /\ started' \in 0 .. NumThreads
    BY <1>14, FirstSlot DEF Pool!Reclaim
  <2>2. place' \in [Pool!Jobs -> Pool!Places]
    BY <1>14 DEF Pool!Reclaim, Pool!TypeOK, Pool!Places
  <2>3. items' \in [Pool!Slots -> Pool!Jobs \cup {Pool!NoJob}] /\ owner' \in Pool!OwnerStates
    BY <1>14 DEF Pool!Reclaim, Pool!OwnerStates
  <2> QED BY <1>14, <2>1, <2>2, <2>3 DEF Pool!TypeOK, Pool!Reclaim
<1> QED BY <1>1, <1>2, <1>3, <1>4, <1>5, <1>6, <1>7, <1>8, <1>9, <1>10,
           <1>11, <1>12, <1>13, <1>14 DEF Pool!OwnerNext

\* Steps of a worker keep the types.
LEMMA PoolTypeWorker == Pool!TypeOK /\ (\E w \in Pool!Workers : Pool!WorkerNext(w)) => Pool!TypeOK'
<1> SUFFICES ASSUME Pool!TypeOK, NEW w \in Pool!Workers, Pool!WorkerNext(w) PROVE Pool!TypeOK'
  OBVIOUS
<1> USE SearchAssumption
<1>1. CASE Pool!WorkerInit(w)
  BY <1>1 DEF Pool!TypeOK, Pool!WorkerInit, Pool!ring, Pool!flags, Pool!WorkerStates
<1>2. CASE Pool!WorkerInitFails(w)
  BY <1>2, WakeWorkersEffect
  DEF Pool!TypeOK, Pool!WorkerInitFails, Pool!WakeOwner, Pool!ring, Pool!WorkerStates, Pool!OwnerStates
<1>3. CASE Pool!Sleep(w)
  BY <1>3 DEF Pool!TypeOK, Pool!Sleep, Pool!ring, Pool!flags, Pool!WorkerStates
<1>4. CASE Pool!Take(w)
  <2>1. head' \in Pool!Slots
    BY <1>4, NextSlotWraps DEF Pool!Take, Pool!TypeOK
  <2>2. items' \in [Pool!Slots -> Pool!Jobs \cup {Pool!NoJob}] /\ hand' \in [Pool!Workers -> Pool!Jobs \cup {Pool!NoJob}]
    BY <1>4 DEF Pool!Take, Pool!TypeOK
  <2>3. count' \in 0 .. QueueCapacity
    BY <1>4 DEF Pool!Take, Pool!TypeOK
  <2>4. place' \in [Pool!Jobs -> Pool!Places]
    BY <1>4 DEF Pool!Take, Pool!TypeOK, Pool!Places
  <2> QED BY <1>4, <2>1, <2>2, <2>3, <2>4
      DEF Pool!Take, Pool!TypeOK, Pool!WakeOwner, Pool!flags, Pool!WorkerStates, Pool!OwnerStates
<1>5. CASE Pool!Finish(w)
  BY <1>5 DEF Pool!TypeOK, Pool!Finish, Pool!ring, Pool!flags, Pool!WorkerStates, Pool!Places
<1>6. CASE Pool!Exit(w)
  BY <1>6 DEF Pool!TypeOK, Pool!Exit, Pool!ring, Pool!flags, Pool!WorkerStates
<1>7. CASE Pool!WorkerCancels(w)
  BY <1>7 DEF Pool!TypeOK, Pool!WorkerCancels, Pool!ring, Pool!flags, Pool!WorkerStates, Pool!Phases
<1>8. CASE Pool!WorkerWakes(w)
  BY <1>8, WakeWorkersEffect
  DEF Pool!TypeOK, Pool!WorkerWakes, Pool!WakeOwner, Pool!ring, Pool!flags, Pool!WorkerStates, Pool!OwnerStates
<1> QED BY <1>1, <1>2, <1>3, <1>4, <1>5, <1>6, <1>7, <1>8 DEF Pool!WorkerNext

LEMMA PoolTypeSpurious == Pool!TypeOK /\ Pool!SpuriousWakeup => Pool!TypeOK'
BY DEF Pool!TypeOK, Pool!SpuriousWakeup, Pool!Waiting, Pool!ring, Pool!flags, Pool!WorkerStates, Pool!OwnerStates

-----------------------------------------------------------------------------
(***************************************************************************)
(* Control: which threads exist and what the owner knows where it is.      *)
(***************************************************************************)

\* A worker holds a job exactly while process_job runs.
HandsMatchState ==
    \A w \in Pool!Workers : hand[w] # Pool!NoJob <=> worker[w] \in {"run", "waking"}

\* What holds of the threads and flags at each point of the owner's calls.
OwnerKnows ==
    /\ owner = "create" => started < NumThreads /\ ~closed /\ ~joined
    /\ owner \in {"ready", "retry", "asleep", "waking", "join", "dispose"}
         => started = NumThreads
    /\ owner \in {"join", "abort", "dispose", "reclaim"} => closed
    /\ owner = "abort" => failed
    /\ owner = "reclaim" => joined /\ (failed \/ started = NumThreads)
    /\ joined => closed /\ owner \in {"ready", "waking", "reclaim"}
    /\ owner = "disposed" => ~joined /\ ~closed /\ count = 0
    /\ owner = "create" => count = 0

\* What holds of each worker; "gone" is final and needs a closed, empty queue.
WorkersKnow ==
    /\ closed => \A w \in Pool!Workers : worker[w] # "wait"
    /\ joined \/ owner = "disposed" => \A w \in Pool!Workers : Pool!Stopped(w)
    /\ owner # "disposed" =>
         \A w \in Pool!Workers :
           /\ w < started <=> worker[w] # "none"
           /\ worker[w] = "gone" => closed /\ count = 0
           /\ worker[w] = "dead" => failed

PoolControlInv ==
    /\ HandsMatchState
    /\ OwnerKnows
    /\ WorkersKnow

LEMMA PoolControlInit == Pool!Init => PoolControlInv
BY SearchAssumption
DEF Pool!Init, PoolControlInv, HandsMatchState, OwnerKnows, WorkersKnow, Pool!Stopped, Pool!Workers

LEMMA PoolControlOwner == Pool!TypeOK /\ PoolControlInv /\ Pool!OwnerNext => PoolControlInv'
<1> SUFFICES ASSUME Pool!TypeOK, PoolControlInv, Pool!OwnerNext PROVE PoolControlInv'
  OBVIOUS
<1> USE SearchAssumption DEF PoolControlInv
<1>1. CASE Pool!InitAllocFails
  <2>1. \A w \in Pool!Workers : worker[w] = "none"
    BY <1>1 DEF Pool!InitAllocFails, WorkersKnow, Pool!Workers, Pool!TypeOK
  <2> QED BY <1>1, <2>1
      DEF Pool!InitAllocFails, HandsMatchState, OwnerKnows, WorkersKnow, Pool!Stopped, Pool!ring, Pool!flags
<1>2. CASE Pool!CreateThread
  <2> USE <1>2 DEF Pool!CreateThread, Pool!ring
  <2>1. worker[started] = "none"
    BY DEF WorkersKnow, Pool!Workers, Pool!TypeOK
  <2>2. HandsMatchState'
    BY <2>1 DEF HandsMatchState, Pool!TypeOK, Pool!Workers
  <2>3. OwnerKnows'
    BY DEF OwnerKnows, Pool!TypeOK
  <2>4. WorkersKnow'
    BY <2>1 DEF OwnerKnows, WorkersKnow, Pool!Stopped, Pool!TypeOK, Pool!Workers
  <2> QED BY <2>2, <2>3, <2>4
<1>3. CASE Pool!CreateThreadFails
  <2> USE <1>3, WakeWorkersEffect DEF Pool!CreateThreadFails, Pool!ring, Pool!TypeOK
  <2>1. HandsMatchState'
    BY DEF HandsMatchState
  <2>2. OwnerKnows'
    BY DEF OwnerKnows
  <2>3. WorkersKnow'
    BY DEF OwnerKnows, WorkersKnow, Pool!Stopped
  <2> QED BY <2>1, <2>2, <2>3
<1>4. CASE Pool!SubmitWaits
  BY <1>4 DEF Pool!SubmitWaits, Pool!InSubmit, HandsMatchState, OwnerKnows, WorkersKnow, Pool!Stopped, Pool!ring, Pool!flags
<1>5. CASE Pool!SubmitRefused
  BY <1>5 DEF Pool!SubmitRefused, Pool!InSubmit, HandsMatchState, OwnerKnows, WorkersKnow, Pool!Stopped, Pool!ring, Pool!flags
<1>6. CASE Pool!SubmitAccepted
  <2> USE <1>6 DEF Pool!SubmitAccepted, Pool!Accepts, Pool!InSubmit, Pool!Waiting, Pool!flags, Pool!TypeOK
  <2>1. HandsMatchState'
    BY DEF HandsMatchState
  <2>2. OwnerKnows'
    BY DEF OwnerKnows
  <2>3. WorkersKnow'
    BY DEF WorkersKnow, OwnerKnows, Pool!Stopped
  <2> QED BY <2>1, <2>2, <2>3
<1>7. CASE Pool!OwnerCancels \/ Pool!OwnerPublishes
  BY <1>7 DEF Pool!OwnerCancels, Pool!OwnerPublishes, HandsMatchState, OwnerKnows, WorkersKnow, Pool!Stopped, Pool!ring, Pool!flags
<1>8. CASE Pool!OwnerWakes
  <2> USE <1>8, WakeWorkersEffect DEF Pool!OwnerWakes, Pool!ring, Pool!flags, Pool!TypeOK
  <2>1. HandsMatchState'
    BY DEF HandsMatchState
  <2>2. OwnerKnows' /\ WorkersKnow'
    BY DEF OwnerKnows, WorkersKnow, Pool!Stopped
  <2> QED BY <2>1, <2>2
<1>9. CASE Pool!Close
  <2> USE <1>9, WakeWorkersEffect DEF Pool!Close, Pool!CloseEffect, Pool!ring, Pool!TypeOK
  <2>1. HandsMatchState'
    BY DEF HandsMatchState
  <2>2. OwnerKnows' /\ WorkersKnow'
    BY DEF OwnerKnows, WorkersKnow, Pool!Stopped
  <2> QED BY <2>1, <2>2
<1>10. CASE Pool!Join
  BY <1>10 DEF Pool!Join, HandsMatchState, OwnerKnows, WorkersKnow, Pool!Stopped, Pool!ring, Pool!flags
<1>11. CASE Pool!Dispose
  <2> USE <1>11, WakeWorkersEffect DEF Pool!Dispose, Pool!CloseEffect, Pool!ring, Pool!TypeOK
  <2>1. HandsMatchState'
    BY DEF HandsMatchState
  <2>2. OwnerKnows' /\ WorkersKnow'
    BY DEF OwnerKnows, WorkersKnow, Pool!Stopped
  <2> QED BY <2>1, <2>2
<1>12. CASE Pool!DisposeJoined
  BY <1>12 DEF Pool!DisposeJoined, HandsMatchState, OwnerKnows, WorkersKnow, Pool!Stopped, Pool!ring, Pool!flags
<1>13. CASE Pool!JoinReturns
  <2> USE <1>13 DEF Pool!JoinReturns, Pool!ring, Pool!TypeOK
  <2>1. \A w \in Pool!Workers : Pool!Stopped(w)
    BY DEF Pool!AllJoined, WorkersKnow, Pool!Stopped
  <2>2. OwnerKnows'
    BY DEF OwnerKnows
  <2>3. HandsMatchState' /\ WorkersKnow'
    BY <2>1 DEF HandsMatchState, WorkersKnow, Pool!Stopped
  <2> QED BY <2>2, <2>3
<1>14. CASE Pool!Reclaim
  BY <1>14 DEF Pool!Reclaim, HandsMatchState, OwnerKnows, WorkersKnow, Pool!Stopped
<1> QED BY <1>1, <1>2, <1>3, <1>4, <1>5, <1>6, <1>7, <1>8, <1>9, <1>10,
           <1>11, <1>12, <1>13, <1>14 DEF Pool!OwnerNext

\* The oldest job is in slot head.
LEMMA HeadHoldsJob ==
    ASSUME Pool!TypeOK, Pool!RingConsistent, count > 0
    PROVE  items[head] \in Pool!Jobs
BY SearchAssumption DEF Pool!TypeOK, Pool!RingConsistent, Pool!Occupied, Pool!Slots, Pool!Jobs, Pool!NoJob

LEMMA PoolControlWorker ==
    Pool!TypeOK /\ Pool!RingConsistent /\ PoolControlInv /\ (\E w \in Pool!Workers : Pool!WorkerNext(w)) => PoolControlInv'
<1> SUFFICES ASSUME Pool!TypeOK, Pool!RingConsistent, PoolControlInv, NEW w \in Pool!Workers, Pool!WorkerNext(w)
             PROVE  PoolControlInv'
  OBVIOUS
<1> USE SearchAssumption DEF PoolControlInv
<1>1. CASE Pool!WorkerInit(w)
  <2> USE <1>1 DEF Pool!WorkerInit, Pool!ring, Pool!flags, Pool!TypeOK
  <2>1. HandsMatchState' /\ OwnerKnows'
    BY DEF HandsMatchState, OwnerKnows
  <2>2. WorkersKnow'
    BY DEF WorkersKnow, Pool!Stopped
  <2> QED BY <2>1, <2>2
<1>2. CASE Pool!WorkerInitFails(w)
  <2> USE <1>2, WakeWorkersEffect DEF Pool!WorkerInitFails, Pool!WakeOwner, Pool!ring, Pool!TypeOK
  <2>1. HandsMatchState' /\ OwnerKnows'
    BY DEF HandsMatchState, OwnerKnows
  <2>2. WorkersKnow'
    BY DEF WorkersKnow, Pool!Stopped
  <2> QED BY <2>1, <2>2
<1>3. CASE Pool!Sleep(w)
  <2> USE <1>3 DEF Pool!Sleep, Pool!ring, Pool!flags, Pool!TypeOK
  <2>1. HandsMatchState' /\ OwnerKnows'
    BY DEF HandsMatchState, OwnerKnows
  <2>2. WorkersKnow'
    BY DEF WorkersKnow, Pool!Stopped
  <2> QED BY <2>1, <2>2
<1>4. CASE Pool!Take(w)
  <2> USE <1>4 DEF Pool!Take, Pool!WakeOwner, Pool!flags, Pool!TypeOK
  <2>1. items[head] \in Pool!Jobs
    BY HeadHoldsJob
  <2>2. items[head] # Pool!NoJob
    BY <2>1 DEF Pool!Jobs, Pool!NoJob
  <2>3. HandsMatchState' /\ OwnerKnows'
    BY <2>2 DEF HandsMatchState, OwnerKnows
  <2>4. WorkersKnow'
    BY DEF WorkersKnow, Pool!Stopped
  <2> QED BY <2>3, <2>4
<1>5. CASE Pool!Finish(w)
  <2> USE <1>5 DEF Pool!Finish, Pool!ring, Pool!flags, Pool!TypeOK
  <2>1. HandsMatchState' /\ OwnerKnows'
    BY DEF HandsMatchState, OwnerKnows
  <2>2. WorkersKnow'
    BY DEF WorkersKnow, Pool!Stopped
  <2> QED BY <2>1, <2>2
<1>6. CASE Pool!Exit(w)
  <2> USE <1>6 DEF Pool!Exit, Pool!ring, Pool!flags, Pool!TypeOK
  <2>1. HandsMatchState' /\ OwnerKnows'
    BY DEF HandsMatchState, OwnerKnows
  <2>2. WorkersKnow'
    BY DEF WorkersKnow, Pool!Stopped
  <2> QED BY <2>1, <2>2
<1>7. CASE Pool!WorkerCancels(w)
  <2> USE <1>7 DEF Pool!WorkerCancels, Pool!ring, Pool!flags, Pool!TypeOK
  <2>1. HandsMatchState' /\ OwnerKnows'
    BY DEF HandsMatchState, OwnerKnows
  <2>2. WorkersKnow'
    BY DEF WorkersKnow, Pool!Stopped
  <2> QED BY <2>1, <2>2
<1>8. CASE Pool!WorkerWakes(w)
  <2> USE <1>8, WakeWorkersEffect DEF Pool!WorkerWakes, Pool!WakeOwner, Pool!ring, Pool!flags, Pool!TypeOK
  <2>1. HandsMatchState' /\ OwnerKnows'
    BY DEF HandsMatchState, OwnerKnows
  <2>2. WorkersKnow'
    BY DEF WorkersKnow, Pool!Stopped
  <2> QED BY <2>1, <2>2
<1> QED BY <1>1, <1>2, <1>3, <1>4, <1>5, <1>6, <1>7, <1>8 DEF Pool!WorkerNext

LEMMA PoolControlSpurious == Pool!TypeOK /\ PoolControlInv /\ Pool!SpuriousWakeup => PoolControlInv'
<1> SUFFICES ASSUME Pool!TypeOK, PoolControlInv, Pool!SpuriousWakeup PROVE PoolControlInv'
  OBVIOUS
<1> USE DEF PoolControlInv, Pool!SpuriousWakeup, Pool!Waiting, Pool!ring, Pool!flags, Pool!TypeOK
<1>1. HandsMatchState' /\ OwnerKnows'
  BY DEF HandsMatchState, OwnerKnows
<1>2. WorkersKnow'
  BY DEF WorkersKnow, Pool!Stopped
<1> QED BY <1>1, <1>2

-----------------------------------------------------------------------------
(***************************************************************************)
(* Jobs: the ring and the ownership of each job.                           *)
(***************************************************************************)

\* Jobs not yet passed to submit are with their builder; nothing is reclaimed
\* before dispose.
PlacesInv ==
    /\ \A j \in Pool!Jobs : j >= next => place[j] = "builder"
    /\ \A j \in Pool!Jobs : place[j] = "reclaimed" => owner = "disposed"

JobsInv == Pool!RingConsistent /\ Pool!SingleOwner /\ PlacesInv

LEMMA JobsInit == Pool!Init => JobsInv
BY SearchAssumption
DEF Pool!Init, JobsInv, Pool!RingConsistent, Pool!Occupied, Pool!SingleOwner, PlacesInv, Pool!Slots, Pool!Jobs, Pool!NoJob

LEMMA JobsAccepted ==
    ASSUME Pool!TypeOK, PoolControlInv, JobsInv, Pool!SubmitAccepted
    PROVE  JobsInv'
<1> USE SearchAssumption DEF Pool!SubmitAccepted, Pool!InSubmit, Pool!TypeOK, JobsInv
<1>1. ~Pool!Occupied(tail)
  BY DEF Pool!RingConsistent, Pool!Occupied, Pool!Slots
<1>2. items[tail] = Pool!NoJob
  BY <1>1 DEF Pool!RingConsistent
<1>3. place[next] = "builder" /\ next # Pool!NoJob
  BY DEF PlacesInv, Pool!Jobs, Pool!NoJob
<1>4. tail' = IF tail + 1 = QueueCapacity THEN 0 ELSE tail + 1
  BY NextSlotWraps
<1>5. tail' = (IF head + count < QueueCapacity
              THEN head + count ELSE head + count - QueueCapacity)'
  BY <1>4 DEF Pool!RingConsistent, Pool!Slots
<1>6. \A i \in Pool!Slots : Pool!Occupied(i)' <=> Pool!Occupied(i) \/ i = tail
  BY DEF Pool!RingConsistent, Pool!Occupied, Pool!Slots
<1>7. Pool!RingConsistent'
  BY <1>3, <1>5, <1>6 DEF Pool!RingConsistent
<1>8. Pool!SingleOwner'
  <2>1. \A i \in Pool!Slots : (items[i] # Pool!NoJob => place[items[i]] = "queued")'
    BY <1>3 DEF Pool!SingleOwner
  <2>2. \A i, k \in Pool!Slots : (items[i] = items[k] /\ items[i] # Pool!NoJob => i = k)'
    BY <1>3 DEF Pool!SingleOwner
  <2>3. \A j \in Pool!Jobs : (place[j] = "queued" => \E i \in Pool!Slots : items[i] = j)'
    <3> SUFFICES ASSUME NEW j \in Pool!Jobs, place'[j] = "queued"
                 PROVE  \E i \in Pool!Slots : items'[i] = j
      OBVIOUS
    <3>1. CASE j = next
      BY <3>1
    <3>2. CASE j # next
      <4>1. place[j] = "queued"
        BY <3>2
      <4>2. PICK i \in Pool!Slots : items[i] = j
        BY <4>1 DEF Pool!SingleOwner
      <4>3. i # tail
        BY <4>2, <1>2 DEF Pool!Jobs, Pool!NoJob
      <4> QED BY <4>2, <4>3
    <3> QED BY <3>1, <3>2
  <2>4. \A w \in Pool!Workers : (hand[w] # Pool!NoJob => place[hand[w]] = "worker")'
    BY <1>3 DEF Pool!SingleOwner
  <2>5. \A v, w \in Pool!Workers : (hand[v] = hand[w] /\ hand[v] # Pool!NoJob => v = w)'
    BY DEF Pool!SingleOwner
  <2>6. \A j \in Pool!Jobs : (place[j] = "worker" => \E w \in Pool!Workers : hand[w] = j)'
    BY DEF Pool!SingleOwner
  <2> QED BY <2>1, <2>2, <2>3, <2>4, <2>5, <2>6 DEF Pool!SingleOwner
<1>9. PlacesInv'
  BY <1>3 DEF PlacesInv, Pool!Jobs
<1> QED BY <1>7, <1>8, <1>9

LEMMA JobsTake ==
    ASSUME Pool!TypeOK, PoolControlInv, JobsInv, NEW w \in Pool!Workers, Pool!Take(w)
    PROVE  JobsInv'
<1> USE SearchAssumption DEF Pool!Take, Pool!TypeOK, JobsInv
<1> DEFINE job == items[head]
<1>1. job \in Pool!Jobs /\ job # Pool!NoJob
  BY HeadHoldsJob DEF Pool!Jobs, Pool!NoJob
<1>2. place[job] = "queued" /\ place' = [place EXCEPT ![job] = "worker"]
  BY <1>1 DEF Pool!SingleOwner
<1>3. hand[w] = Pool!NoJob
  BY DEF PoolControlInv, HandsMatchState
<1>4. head' = IF head + 1 = QueueCapacity THEN 0 ELSE head + 1
  BY NextSlotWraps
<1>5. \A i \in Pool!Slots : Pool!Occupied(i)' <=> Pool!Occupied(i) /\ i # head
  BY <1>4 DEF Pool!Occupied, Pool!Slots
<1>6. Pool!RingConsistent'
  <2>1. tail = (IF head + count < QueueCapacity
               THEN head + count ELSE head + count - QueueCapacity)'
    BY <1>4 DEF Pool!RingConsistent, Pool!Slots
  <2> QED BY <1>1, <1>5, <2>1 DEF Pool!RingConsistent
<1>7. Pool!SingleOwner'
  <2>1. \A i \in Pool!Slots : i # head /\ items[i] # Pool!NoJob => items[i] # job
    BY <1>1 DEF Pool!SingleOwner
  <2>2. \A i \in Pool!Slots : (items[i] # Pool!NoJob => place[items[i]] = "queued")'
    BY <1>2, <2>1 DEF Pool!SingleOwner
  <2>3. \A i, k \in Pool!Slots : (items[i] = items[k] /\ items[i] # Pool!NoJob => i = k)'
    BY DEF Pool!SingleOwner
  <2>4. \A j \in Pool!Jobs : (place[j] = "queued" => \E i \in Pool!Slots : items[i] = j)'
    BY <1>2 DEF Pool!SingleOwner
  <2>5. \A v \in Pool!Workers : (hand[v] # Pool!NoJob => place[hand[v]] = "worker")'
    BY <1>1, <1>2 DEF Pool!SingleOwner
  <2>6. \A u, v \in Pool!Workers : (hand[u] = hand[v] /\ hand[u] # Pool!NoJob => u = v)'
    <3>1. \A v \in Pool!Workers : hand[v] # job
      BY <1>1, <1>2 DEF Pool!SingleOwner
    <3> QED BY <3>1 DEF Pool!SingleOwner
  <2>7. \A j \in Pool!Jobs : (place[j] = "worker" => \E v \in Pool!Workers : hand[v] = j)'
    <3> SUFFICES ASSUME NEW j \in Pool!Jobs, place'[j] = "worker"
                 PROVE  \E v \in Pool!Workers : hand'[v] = j
      OBVIOUS
    <3>1. CASE j = job
      BY <3>1
    <3>2. CASE j # job
      <4>1. PICK v \in Pool!Workers : hand[v] = j
        BY <3>2, <1>2 DEF Pool!SingleOwner
      <4>2. v # w
        BY <4>1, <1>3 DEF Pool!Jobs, Pool!NoJob
      <4> QED BY <4>1, <4>2
    <3> QED BY <3>1, <3>2
  <2> QED BY <2>2, <2>3, <2>4, <2>5, <2>6, <2>7 DEF Pool!SingleOwner
<1>8. PlacesInv'
  <2>1. job < next
    BY <1>1, <1>2 DEF PlacesInv, Pool!Jobs
  <2>2. \A j \in Pool!Jobs : place'[j] = "reclaimed" => place[j] = "reclaimed"
    BY <1>2
  <2>3. owner = "disposed" => owner' = "disposed"
    BY DEF Pool!WakeOwner
  <2> QED BY <1>2, <2>1, <2>2, <2>3 DEF PlacesInv, Pool!Jobs
<1> QED BY <1>6, <1>7, <1>8

LEMMA JobsFinish ==
    ASSUME Pool!TypeOK, PoolControlInv, JobsInv, NEW w \in Pool!Workers, Pool!Finish(w)
    PROVE  JobsInv'
<1> USE DEF Pool!Finish, Pool!TypeOK, JobsInv, Pool!ring, Pool!flags
<1> DEFINE job == hand[w]
<1>1. job \in Pool!Jobs /\ job # Pool!NoJob
  BY DEF PoolControlInv, HandsMatchState, Pool!Jobs, Pool!NoJob
<1>2. place[job] = "worker" /\ place' = [place EXCEPT ![job] = "finished"]
  BY <1>1 DEF Pool!SingleOwner
<1>3. Pool!RingConsistent'
  BY DEF Pool!RingConsistent, Pool!Occupied
<1>4. Pool!SingleOwner'
  <2>1. \A i \in Pool!Slots : items[i] # job
    BY <1>1, <1>2 DEF Pool!SingleOwner
  <2>2. \A v \in Pool!Workers : v # w => hand[v] # job
    BY <1>1 DEF Pool!SingleOwner
  <2>3. \A j \in Pool!Jobs : (place[j] = "worker" => \E v \in Pool!Workers : hand[v] = j)'
    <3> SUFFICES ASSUME NEW j \in Pool!Jobs, place'[j] = "worker"
                 PROVE  \E v \in Pool!Workers : hand'[v] = j
      OBVIOUS
    <3>1. j # job /\ place[j] = "worker"
      BY <1>2
    <3>2. PICK v \in Pool!Workers : hand[v] = j
      BY <3>1 DEF Pool!SingleOwner
    <3> QED BY <3>1, <3>2
  <2>4. \A v \in Pool!Workers : (hand[v] # Pool!NoJob => place[hand[v]] = "worker")'
    BY <2>2, <1>2 DEF Pool!SingleOwner
  <2>5. \A u, v \in Pool!Workers : (hand[u] = hand[v] /\ hand[u] # Pool!NoJob => u = v)'
    BY DEF Pool!SingleOwner
  <2>6. \A i \in Pool!Slots : (items[i] # Pool!NoJob => place[items[i]] = "queued")'
    BY <2>1, <1>2 DEF Pool!SingleOwner
  <2>7. \A i, k \in Pool!Slots : (items[i] = items[k] /\ items[i] # Pool!NoJob => i = k)'
    BY DEF Pool!SingleOwner
  <2>8. \A j \in Pool!Jobs : (place[j] = "queued" => \E i \in Pool!Slots : items[i] = j)'
    BY <1>2 DEF Pool!SingleOwner
  <2> QED BY <2>3, <2>4, <2>5, <2>6, <2>7, <2>8 DEF Pool!SingleOwner
<1>5. PlacesInv'
  BY <1>1, <1>2 DEF PlacesInv
<1> QED BY <1>3, <1>4, <1>5

\* Reclaiming happens with no worker alive, so no job is in a hand.
LEMMA JobsReclaim ==
    ASSUME Pool!TypeOK, PoolControlInv, JobsInv, Pool!Reclaim
    PROVE  JobsInv'
<1> USE SearchAssumption, FirstSlot DEF Pool!Reclaim, Pool!TypeOK, JobsInv
<1>1. \A w \in Pool!Workers : hand[w] = Pool!NoJob
  BY DEF PoolControlInv, OwnerKnows, WorkersKnow, HandsMatchState, Pool!Stopped
<1>2. Pool!RingConsistent'
  BY DEF Pool!RingConsistent, Pool!Occupied, Pool!Slots
<1>3. Pool!SingleOwner'
  BY <1>1 DEF Pool!SingleOwner
<1>4. PlacesInv'
  <2>1. \A j \in Pool!Jobs : j >= next => ~ \E i \in Pool!Slots : items[i] = j
    BY DEF PlacesInv, Pool!SingleOwner, Pool!Jobs, Pool!NoJob
  <2> QED BY <2>1 DEF PlacesInv
<1> QED BY <1>2, <1>3, <1>4

\* Every other step leaves the ring, the hands and the places alone; none of
\* them leaves "disposed".
LEMMA JobsFrame ==
    ASSUME JobsInv, Pool!TypeOK,
           UNCHANGED <<Pool!ring, hand, place>>,
           next' \in Nat, next' >= next,
           owner = "disposed" => owner' = "disposed"
    PROVE  JobsInv'
<1> USE DEF JobsInv, Pool!ring
<1>1. Pool!RingConsistent' /\ Pool!SingleOwner'
  BY DEF Pool!RingConsistent, Pool!Occupied, Pool!SingleOwner
<1>2. PlacesInv'
  BY DEF PlacesInv, Pool!TypeOK, Pool!Jobs
<1> QED BY <1>1, <1>2

LEMMA JobsNext == Pool!TypeOK /\ PoolControlInv /\ JobsInv /\ [Pool!Next]_(Pool!vars) => JobsInv'
<1> SUFFICES ASSUME Pool!TypeOK, PoolControlInv, JobsInv, [Pool!Next]_(Pool!vars) PROVE JobsInv'
  OBVIOUS
<1> USE SearchAssumption
<1>0. next \in Nat
  BY DEF Pool!TypeOK
<1>1. CASE Pool!OwnerNext
  <2>1. CASE Pool!SubmitAccepted
    BY <2>1, JobsAccepted
  <2>2. CASE Pool!Reclaim
    BY <2>2, JobsReclaim
  <2>3. CASE Pool!SubmitRefused
    BY <2>3, <1>0, JobsFrame DEF Pool!SubmitRefused, Pool!InSubmit
  <2>4. CASE Pool!InitAllocFails \/ Pool!CreateThread \/ Pool!CreateThreadFails \/ Pool!SubmitWaits
    BY <2>4, <1>0, JobsFrame
    DEF Pool!InitAllocFails, Pool!CreateThread, Pool!CreateThreadFails, Pool!SubmitWaits, Pool!InSubmit
  <2>5. CASE Pool!OwnerCancels \/ Pool!OwnerPublishes \/ Pool!OwnerWakes \/ Pool!Close \/ Pool!Join \/ Pool!Dispose
             \/ Pool!DisposeJoined \/ Pool!JoinReturns
    BY <2>5, <1>0, JobsFrame
    DEF Pool!OwnerCancels, Pool!OwnerPublishes, Pool!OwnerWakes, Pool!Close, Pool!Join, Pool!Dispose, Pool!DisposeJoined, Pool!JoinReturns
  <2> QED BY <1>1, <2>1, <2>2, <2>3, <2>4, <2>5 DEF Pool!OwnerNext
<1>2. ASSUME NEW w \in Pool!Workers, Pool!WorkerNext(w) PROVE JobsInv'
  <2>1. CASE Pool!Take(w)
    BY <2>1, JobsTake
  <2>2. CASE Pool!Finish(w)
    BY <2>2, JobsFinish
  <2>3. CASE Pool!WorkerInit(w) \/ Pool!WorkerInitFails(w) \/ Pool!Sleep(w) \/ Pool!Exit(w)
             \/ Pool!WorkerCancels(w) \/ Pool!WorkerWakes(w)
    BY <2>3, <1>0, JobsFrame
    DEF Pool!WorkerInit, Pool!WorkerInitFails, Pool!Sleep, Pool!Exit, Pool!WorkerCancels, Pool!WorkerWakes, Pool!WakeOwner
  <2> QED BY <1>2, <2>1, <2>2, <2>3 DEF Pool!WorkerNext
<1>3. CASE Pool!SpuriousWakeup
  BY <1>3, <1>0, JobsFrame DEF Pool!SpuriousWakeup
<1>4. CASE UNCHANGED Pool!vars
  BY <1>4, <1>0, JobsFrame DEF Pool!vars
<1> QED BY <1>1, <1>2, <1>3, <1>4 DEF Pool!Next, Pool!Terminated

\* Together: the inductive invariant behind the theorems below.
PoolInv == Pool!TypeOK /\ PoolControlInv /\ JobsInv

LEMMA PoolInvInit == Pool!Init => PoolInv
BY PoolTypeInit, PoolControlInit, JobsInit DEF PoolInv

LEMMA PoolInvNext == PoolInv /\ [Pool!Next]_(Pool!vars) => PoolInv'
<1> SUFFICES ASSUME PoolInv, [Pool!Next]_(Pool!vars) PROVE PoolInv'
  OBVIOUS
<1>1. Pool!TypeOK'
  <2>1. Pool!TypeOK /\ UNCHANGED Pool!vars => Pool!TypeOK'
    BY DEF Pool!TypeOK, Pool!vars, Pool!ring, Pool!flags
  <2> QED BY <2>1, PoolTypeOwner, PoolTypeWorker, PoolTypeSpurious DEF PoolInv, Pool!Next, Pool!Terminated
<1>2. PoolControlInv'
  <2>1. PoolControlInv /\ UNCHANGED Pool!vars => PoolControlInv'
    BY DEF PoolControlInv, HandsMatchState, OwnerKnows, WorkersKnow, Pool!Stopped, Pool!vars, Pool!ring, Pool!flags
  <2> QED BY <2>1, PoolControlOwner, PoolControlWorker, PoolControlSpurious
      DEF PoolInv, JobsInv, Pool!Next, Pool!Terminated
<1>3. JobsInv'
  BY JobsNext DEF PoolInv
<1> QED BY <1>1, <1>2, <1>3 DEF PoolInv

-----------------------------------------------------------------------------
(***************************************************************************)
(* Every step of the search is a step of the pool, or leaves it alone.     *)
(***************************************************************************)

LEMMA MainUsesOwner == MainNext => Pool!OwnerNext \/ UNCHANGED <<pool, cancel>>
<1>1. CASE CreatePool \/ AbortPool \/ SubmitBatch \/ SubmitRefused \/ JoinPool
  BY <1>1 DEF CreatePool, AbortPool, SubmitBatch, SubmitRefused, JoinPool, Pool!OwnerNext
<1>2. CASE SetFatal \/ FlushFirst \/ AddFile \/ AddFails \/ PathError \/ PublishError \/ PublishErrorFails
           \/ RefusedInWalk \/ RefusedOperand \/ WalkEnds \/ LastFlush \/ FreePending
  BY <1>2 DEF SetFatal, FlushFirst, AddFile, AddFails, PathError, PublishError, PublishErrorFails, RefusedInWalk,
     RefusedOperand, WalkEnds, LastFlush, FreePending
<1>3. CASE RequestCancel \/ WakePool \/ ClosePool \/ Report \/ DisposePool \/ ReclaimJobs
  BY <1>3 DEF RequestCancel, WakePool, ClosePool, Report, DisposePool, ReclaimJobs, Pool!OwnerNext
<1> QED BY <1>1, <1>2, <1>3 DEF MainNext

LEMMA WorkerUsesPool ==
    ASSUME NEW w \in Pool!Workers, WorkerNext(w)
    PROVE  Pool!WorkerNext(w) \/ UNCHANGED <<pool, cancel>>
<1>1. CASE PoolStep(w) \/ WorkerInitFails(w) \/ TakeJob(w) \/ FinishJob(w)
  BY <1>1 DEF PoolStep, WorkerInitFails, TakeJob, FinishJob, Pool!WorkerNext
<1>2. CASE CompileFails(w) \/ SearchFile(w) \/ PathLost(w) \/ LoopEnds(w) \/ PublishFails(w) \/ Publish(w)
  BY <1>2 DEF CompileFails, SearchFile, PathLost, LoopEnds, PublishFails, Publish
<1>3. CASE WorkerRequests(w)
  BY <1>3 DEF WorkerRequests, Pool!WorkerNext
<1> QED BY <1>1, <1>2, <1>3 DEF WorkerNext

LEMMA PoolSimulated == [Next]_vars => [Pool!Next]_(Pool!vars)
<1>1. MainNext \/ (\E w \in Pool!Workers : WorkerNext(w)) => [Pool!Next]_(Pool!vars)
  BY MainUsesOwner, WorkerUsesPool DEF Pool!Next, Pool!vars, Pool!ring, Pool!flags, pool
<1>2. SpuriousWakeup => Pool!Next
  BY DEF SpuriousWakeup, Pool!Next
<1>3. UNCHANGED vars => UNCHANGED Pool!vars
  BY DEF vars, pool, Pool!vars, Pool!ring, Pool!flags
<1> QED BY <1>1, <1>2, <1>3 DEF Next, Terminated

\* The search calls the pool only as its module says: it submits from one
\* thread, joins what it closed, and disposes of what it joined.
THEOREM SearchUsesPool == Spec => PoolUse
<1>1. Init => Pool!Init
  BY DEF Init
<1> QED BY <1>1, PoolSimulated, PTL DEF Spec, PoolUse, Pool!Spec

LEMMA PoolInvStays == PoolInv /\ [Next]_vars => PoolInv'
BY PoolSimulated, PoolInvNext

-----------------------------------------------------------------------------
-----------------------------------------------------------------------------
(* The search. *)

Stops == {"done", "add", "walk", "error", "close", "report"}

SearchType ==
    /\ main \in MainStates /\ then \in Stops
    /\ file \in 1 .. NumFiles + 1 /\ pending \in SUBSET Files
    /\ batch \in [Pool!Jobs -> SUBSET Files]
    /\ fatal_error \in BOOLEAN /\ walk_error \in BOOLEAN /\ exit_status \in 0 .. 2
    /\ step \in [Pool!Workers -> WorkerSteps]
    /\ left \in [Pool!Workers -> SUBSET Files] /\ got \in [Pool!Workers -> SUBSET Flags]
    /\ searched \in [Files -> Nat] /\ freed \in [Pool!Jobs -> Nat]

WalkOver == {"done", "close", "join", "report", "dispose", "reclaim", "free", "end"}
AfterFlush == WalkOver \ {"done"}
AfterJoin == {"report", "dispose", "reclaim", "free", "end"}

Holding(w) == worker[w] \in {"run", "waking"}

\* Where the callback of a worker is, as the pool and the search see it.
StepInv ==
    \A w \in Pool!Workers :
      /\ Holding(w) <=> step[w] \in {"search", "fatal_merge", "merge", "fatal_free", "free"}
      /\ step[w] \in {"fatal_init", "failed"} => worker[w] = "init"
      /\ step[w] # "search" => left[w] = {}
      /\ step[w] \in {"fatal_init", "fatal_merge", "fatal_free"} => fatal_error

\* Nothing but a fatal error cancels.
CancelInv == Requested \/ main \in {"request", "wake"} => fatal_error

\* Where the main thread is in the life of the pool, and where it goes after a
\* fatal error.
LifeInv ==
    /\ main \in {"setup", "abort"} => next = 1 /\ then = "done"
    /\ main = "setup" => owner = "create"
    /\ owner = "disposed" => main \in {"free", "end", "fatal"} \/ fatal_error
    /\ main \in {"free", "end"} => owner = "disposed"
    /\ main \in {"fatal", "request", "wake"} => then \in {"done", "walk", "close", "report"}
    /\ main \in AfterJoin \/ (main \in {"fatal", "request", "wake"} /\ then = "report") =>
         joined \/ owner = "disposed"

\* There are never more batches than files, and where the main thread goes
\* after a submit.
RoomInv ==
    /\ next <= file
    /\ pending # {} \/ main = "submit" => next < file
    /\ main = "submit" => pending = {} /\ then \in {"add", "error", "walk", "close"}
    /\ main = "refused" => then \in {"add", "error", "walk"}
    /\ main = "add" \/ (main = "submit" /\ then = "add") => file \in Files

MainInv == CancelInv /\ LifeInv /\ RoomInv

\* A file goes from the pending batch to one submitted batch: the batches are
\* disjoint, and what the walk has not met is in none.
Batches ==
    /\ \A f \in pending : f < file /\ \A j \in Pool!Jobs : f \notin batch[j]
    /\ \A j \in Pool!Jobs : \A f \in batch[j] : f < file
    /\ \A j, k \in Pool!Jobs : j # k => batch[j] \cap batch[k] = {}
    /\ \A j \in Pool!Jobs : j < next \/ (j = next /\ main = "submit") \/ batch[j] = {}

\* No file is searched twice, and one that has been was in a batch a worker has
\* or had.
SearchedOnce ==
    /\ \A f \in Files : searched[f] <= 1
    /\ \A f \in Files : searched[f] = 1 =>
         \E j \in Pool!Jobs : f \in batch[j] /\ place[j] \in {"worker", "finished"}
    /\ \A w \in Pool!Workers : \A f \in left[w] :
         hand[w] # Pool!NoJob /\ f \in batch[hand[w]] /\ searched[f] = 0

\* A batch is freed when its worker is done, or the pool refused it, or
\* dispose reclaimed it.
FreedInv ==
    \A j \in Pool!Jobs :
      freed[j] = IF j < next /\ place[j] \in {"builder", "finished", "reclaimed"} THEN 1 ELSE 0

\* Something has failed, and the exit status will be 2.
Trouble ==
    \/ fatal_error \/ walk_error \/ exit_status = 2 \/ failed
    \/ main \in {"abort", "refused", "fatal", "error"} \/ (main = "submit" /\ then = "error")

\* Until something fails every file the walk has met is pending, or in a batch
\* that is on its way or whose files are searched.
Kept ==
    /\ \A f \in Files : f < file => f \in pending \/ \E j \in Pool!Jobs : f \in batch[j]
    /\ \A j \in Pool!Jobs : j < next => place[j] \in {"queued", "worker", "finished"}
    /\ \A j \in Pool!Jobs : place[j] = "finished" => \A f \in batch[j] : searched[f] = 1
    /\ \A w \in Pool!Workers : hand[w] # Pool!NoJob =>
         \A f \in batch[hand[w]] : f \in left[w] \/ searched[f] = 1

\* The walk ends with the last file, the last batch is flushed before the pool
\* is closed, and the workers are joined with no job left.
Flushed ==
    /\ main \in WalkOver \/ (main = "submit" /\ then = "close") => file = NumFiles + 1
    /\ main \in AfterFlush => pending = {}
    /\ main \in AfterJoin => \A j \in Pool!Jobs : place[j] \notin {"queued", "worker"}

NothingLost == ~Trouble => Kept /\ Flushed

\* A failure is not forgotten before the status is told.
Told ==
    /\ failed /\ main \in AfterJoin => fatal_error
    /\ main \in AfterJoin \ {"report"} /\ (fatal_error \/ walk_error) => exit_status = 2

SearchInv ==
    /\ PoolInv /\ SearchType /\ StepInv /\ MainInv
    /\ Batches /\ SearchedOnce /\ FreedInv /\ NothingLost /\ Told


-----------------------------------------------------------------------------

LEMMA SearchInvInit == Init => SearchInv
<1> SUFFICES ASSUME Init PROVE SearchInv
  OBVIOUS
<1> USE SearchAssumption DEF Init
<1>1. PoolInv
  BY PoolInvInit
<1>2. /\ next = 1 /\ owner = "create" /\ cancel = {} /\ ~failed
      /\ place = [j \in Pool!Jobs |-> "builder"] /\ hand = [w \in Pool!Workers |-> Pool!NoJob]
      /\ worker = [w \in Pool!Workers |-> "none"]
  BY DEF Pool!Init
<1>3. SearchType
  <2>1. main \in MainStates /\ then \in Stops /\ file \in 1 .. NumFiles + 1 /\ exit_status \in 0 .. 2
    BY DEF MainStates, Stops
  <2>2. step \in [Pool!Workers -> WorkerSteps]
    BY DEF WorkerSteps
  <2> QED BY <2>1, <2>2 DEF SearchType
<1>4. StepInv
  BY <1>2 DEF StepInv, Holding
<1>5. MainInv
  BY <1>2 DEF MainInv, CancelInv, LifeInv, RoomInv, Requested, Pool!Requested, AfterJoin
<1>6. Batches /\ SearchedOnce /\ FreedInv
  <2>1. Batches
    BY <1>2 DEF Batches
  <2>2. SearchedOnce
    BY <1>2 DEF SearchedOnce
  <2>3. FreedInv
    BY <1>2 DEF FreedInv, Pool!Jobs
  <2> QED BY <2>1, <2>2, <2>3
<1>7. NothingLost /\ Told
  <2>1. \A f \in Files : ~(f < file)
    BY DEF Files
  <2>2. \A j \in Pool!Jobs : ~(j < next) /\ place[j] = "builder"
    BY <1>2 DEF Pool!Jobs
  <2>3. NothingLost
    BY <1>2, <2>1, <2>2 DEF NothingLost, Kept, Flushed, WalkOver, AfterFlush, AfterJoin
  <2> QED BY <1>2, <2>3 DEF Told, AfterJoin
<1> QED BY <1>1, <1>3, <1>4, <1>5, <1>6, <1>7 DEF SearchInv

\* What a detached batch does to the walk's variables, when there is room for
\* one more batch.
LEMMA DetachTypes ==
    ASSUME SearchType, NEW files \in SUBSET Files, NEW stop \in Stops, Detach(files, stop)
    PROVE  /\ batch' \in [Pool!Jobs -> SUBSET Files] /\ pending' \in SUBSET Files
           /\ main' \in MainStates /\ then' \in Stops
BY DEF Detach, SearchType, MainStates

LEMMA TypeMain == PoolInv /\ SearchType /\ MainNext => SearchType'
<1> SUFFICES ASSUME PoolInv, SearchType, MainNext PROVE SearchType'
  OBVIOUS
<1> USE SearchAssumption DEF SearchType
<1>0. /\ \A s \in {"done", "add", "walk", "error", "close", "report", "setup", "abort", "submit", "refused",
                   "fatal", "request", "wake", "join", "dispose", "reclaim", "free", "end"} : s \in MainStates
      /\ \A s \in Stops : s \in MainStates
      /\ {"done", "add", "walk", "error", "close", "report"} \subseteq Stops
      /\ \A f \in Files : f \in 1 .. NumFiles + 1 /\ f + 1 \in 1 .. NumFiles + 1
      /\ 2 \in 0 .. 2 /\ 1 \in 0 .. 2
  BY DEF MainStates, Stops, Files
<1>1. CASE CreatePool \/ AbortPool \/ SetFatal \/ RequestCancel \/ WakePool \/ SubmitBatch \/ WalkEnds
           \/ ClosePool \/ DisposePool \/ RefusedOperand \/ AddFails
  BY <1>1, <1>0 DEF CreatePool, AbortPool, SetFatal, RequestCancel, WakePool, SubmitBatch, WalkEnds, ClosePool,
     DisposePool, RefusedOperand, AddFails, walk, result, work
<1>2. CASE FlushFirst
  BY <1>2, <1>0, DetachTypes DEF FlushFirst, result, work
<1>3. CASE AddFile
  <2> DEFINE files == pending \cup {file}
  <2>1. files \in SUBSET Files /\ file' \in 1 .. NumFiles + 1
    BY <1>3, <1>0 DEF AddFile
  <2>2. UNCHANGED <<fatal_error, walk_error, exit_status, step, left, got, searched, freed>>
    BY <1>3 DEF AddFile, result, work
  <2>3. CASE pending' = files /\ main' = "walk" /\ UNCHANGED <<then, batch>>
    BY <2>1, <2>2, <2>3, <1>0
  <2>4. CASE Detach(files, "walk")
    BY <2>1, <2>2, <2>4, <1>0, DetachTypes
  <2> QED BY <1>3, <2>3, <2>4 DEF AddFile
<1>4. CASE PathError
  <2>1. file' \in 1 .. NumFiles + 1 /\ UNCHANGED <<fatal_error, walk_error, exit_status, step, left, got, searched, freed>>
    BY <1>4, <1>0 DEF PathError, result, work
  <2>2. CASE pending # {}
    BY <1>4, <2>1, <2>2, <1>0, DetachTypes DEF PathError
  <2>3. CASE pending = {}
    BY <1>4, <2>1, <2>3, <1>0 DEF PathError
  <2> QED BY <2>2, <2>3
<1>5. CASE PublishError
  BY <1>5, <1>0 DEF PublishError, ApplyResult, walk, work
<1>6. CASE PublishErrorFails \/ RefusedInWalk
  <2>1. file' \in 1 .. NumFiles + 1
    BY <1>6, <1>0 DEF PublishErrorFails, RefusedInWalk
  <2>2. walk_error' \in BOOLEAN
    BY <1>6, Zenon DEF PublishErrorFails, RefusedInWalk, result
  <2> QED BY <1>6, <2>1, <2>2, <1>0 DEF PublishErrorFails, RefusedInWalk, result, work
<1>7. CASE SubmitRefused \/ ReclaimJobs
  BY <1>7, <1>0 DEF SubmitRefused, ReclaimJobs, Free, walk, result, work
<1>8. CASE LastFlush
  <2>1. CASE main' = "close" /\ UNCHANGED <<then, pending, batch>>
    BY <1>8, <2>1, <1>0 DEF LastFlush, result, work
  <2>2. CASE Detach(pending, "close")
    BY <1>8, <2>2, <1>0, DetachTypes DEF LastFlush, result, work
  <2> QED BY <1>8, <2>1, <2>2 DEF LastFlush
<1>9. CASE JoinPool
  BY <1>9, <1>0 DEF JoinPool, result, work
<1>10. CASE Report \/ FreePending
  BY <1>10, <1>0 DEF Report, FreePending, walk, result, work
<1> QED BY <1>1, <1>2, <1>3, <1>4, <1>5, <1>6, <1>7, <1>8, <1>9, <1>10 DEF MainNext

LEMMA TypeWorker ==
    ASSUME PoolInv, SearchType, NEW w \in Pool!Workers, WorkerNext(w)
    PROVE  SearchType'
<1> USE SearchAssumption DEF SearchType
<1>0. {"idle", "search", "fatal_init", "fatal_merge", "fatal_free", "failed", "merge", "free"} \subseteq WorkerSteps
  BY DEF WorkerSteps
<1>1. CASE PoolStep(w) \/ WorkerInitFails(w) \/ LoopEnds(w)
  BY <1>1, <1>0 DEF PoolStep, WorkerInitFails, LoopEnds, walk, result, work
<1>2. CASE CompileFails(w) \/ PublishFails(w)
  BY <1>2, <1>0 DEF CompileFails, PublishFails, RaiseFatal, walk
<1>3. CASE WorkerRequests(w)
  BY <1>3, <1>0 DEF WorkerRequests, walk, result
<1>4. CASE TakeJob(w)
  <2>1. items[head] \in Pool!Jobs
    BY <1>4, HeadHoldsJob DEF TakeJob, Pool!Take, PoolInv, JobsInv, Pool!TypeOK
  <2> QED BY <1>4, <2>1, <1>0 DEF TakeJob, walk, result
<1>5. CASE SearchFile(w)
  <2>1. PICK f \in left[w] : left' = [left EXCEPT ![w] = left[w] \ {f}]
                             /\ searched' = [searched EXCEPT ![f] = searched[f] + 1]
    BY <1>5 DEF SearchFile
  <2>2. PICK r \in {{}, {"match"}, {"error"}} : got' = [got EXCEPT ![w] = got[w] \cup r]
    BY <1>5 DEF SearchFile
  <2>3. f \in Files /\ r \in SUBSET Flags
    BY <2>1 DEF Flags
  <2>4. searched' \in [Files -> Nat]
    BY <2>1, <2>3
  <2>5. left' \in [Pool!Workers -> SUBSET Files]
    BY <2>1
  <2>6. got' \in [Pool!Workers -> SUBSET Flags]
    BY <2>2, <2>3
  <2> QED BY <1>5, <2>4, <2>5, <2>6 DEF SearchFile, walk, result
<1>6. CASE PathLost(w)
  BY <1>6, <1>0 DEF PathLost, RaiseFatal, Flags, walk
<1>7. CASE Publish(w)
  BY <1>7, <1>0 DEF Publish, ApplyResult, walk
<1>8. CASE FinishJob(w)
  BY <1>8, <1>0 DEF FinishJob, Free, walk, result
<1> QED BY <1>1, <1>2, <1>3, <1>4, <1>5, <1>6, <1>7, <1>8 DEF WorkerNext

LEMMA TypeStays == PoolInv /\ SearchType /\ [Next]_vars => SearchType'
<1>1. SearchType /\ (SpuriousWakeup \/ UNCHANGED vars) => SearchType'
  BY DEF SearchType, SpuriousWakeup, vars, walk, result, work
<1> QED BY <1>1, TypeMain, TypeWorker DEF Next, Terminated

-----------------------------------------------------------------------------
(* Where the callbacks are. *)

\* The others only wake a worker that sleeps; the owner also starts one.
Woken(v) == worker'[v] = worker[v] \/ (worker[v] \in {"none", "wait"} /\ worker'[v] \in {"init", "loop"})

LEMMA OwnerWakesOnly == PoolInv /\ Pool!OwnerNext => \A v \in Pool!Workers : Woken(v)
<1> SUFFICES ASSUME PoolInv, Pool!OwnerNext PROVE \A v \in Pool!Workers : Woken(v)
  OBVIOUS
<1>0. worker \in [Pool!Workers -> Pool!WorkerStates]
  BY DEF PoolInv, Pool!TypeOK
<1>1. CASE Pool!CreateThread
  <2>1. worker[started] = "none"
    BY <1>1, SearchAssumption
    DEF Pool!CreateThread, PoolInv, PoolControlInv, WorkersKnow, Pool!Workers, Pool!TypeOK
  <2> QED BY <1>0, <1>1, <2>1 DEF Pool!CreateThread, Woken
<1>2. CASE Pool!CreateThreadFails \/ Pool!OwnerWakes \/ Pool!Close \/ Pool!Dispose
  BY <1>0, <1>2, WakeWorkersEffect DEF Pool!CreateThreadFails, Pool!OwnerWakes, Pool!Close, Pool!Dispose, Pool!CloseEffect, Woken
<1>3. CASE Pool!SubmitAccepted
  BY <1>0, <1>3 DEF Pool!SubmitAccepted, Pool!Waiting, Woken
<1>4. CASE Pool!InitAllocFails \/ Pool!SubmitWaits \/ Pool!SubmitRefused \/ Pool!OwnerCancels \/ Pool!OwnerPublishes
           \/ Pool!Join \/ Pool!DisposeJoined \/ Pool!JoinReturns \/ Pool!Reclaim
  BY <1>4 DEF Pool!InitAllocFails, Pool!SubmitWaits, Pool!SubmitRefused, Pool!OwnerCancels, Pool!OwnerPublishes,
     Pool!Join, Pool!DisposeJoined, Pool!JoinReturns, Pool!Reclaim, Woken
<1> QED BY <1>1, <1>2, <1>3, <1>4 DEF Pool!OwnerNext

LEMMA MainWakesOnly == PoolInv /\ MainNext => \A v \in Pool!Workers : Woken(v)
<1>1. MainNext => Pool!OwnerNext \/ UNCHANGED worker
  BY MainUsesOwner DEF pool
<1> QED BY <1>1, OwnerWakesOnly DEF Woken

\* What a callback that is not the worker's own leaves of StepInv.
LEMMA StepFrame ==
    ASSUME StepInv, NEW v \in Pool!Workers, Woken(v),
           step'[v] = step[v], left'[v] = left[v], fatal_error => fatal_error'
    PROVE  /\ Holding(v)' <=> step'[v] \in {"search", "fatal_merge", "merge", "fatal_free", "free"}
           /\ step'[v] \in {"fatal_init", "failed"} => worker'[v] = "init"
           /\ step'[v] # "search" => left'[v] = {}
           /\ step'[v] \in {"fatal_init", "fatal_merge", "fatal_free"} => fatal_error'
BY DEF StepInv, Woken, Holding

\* Nothing takes a fatal error back.
LEMMA FatalStays == [Next]_vars => (fatal_error => fatal_error')
<1> SUFFICES ASSUME [Next]_vars, fatal_error PROVE fatal_error'
  OBVIOUS
<1>1. CASE MainNext
  BY <1>1 DEF MainNext, CreatePool, AbortPool, SetFatal, RequestCancel, WakePool, FlushFirst, AddFile, AddFails,
     PathError, PublishError, PublishErrorFails, SubmitBatch, SubmitRefused, RefusedInWalk, RefusedOperand, WalkEnds,
     LastFlush, ClosePool, JoinPool, Report, DisposePool, ReclaimJobs, FreePending, result
<1>2. ASSUME NEW w \in Pool!Workers, WorkerNext(w) PROVE fatal_error'
  BY <1>2 DEF WorkerNext, PoolStep, WorkerInitFails, CompileFails, WorkerRequests, TakeJob, SearchFile, PathLost,
     LoopEnds, PublishFails, Publish, FinishJob, RaiseFatal, result
<1>3. CASE SpuriousWakeup \/ UNCHANGED vars
  BY <1>3 DEF SpuriousWakeup, vars, result
<1> QED BY <1>1, <1>2, <1>3 DEF Next, Terminated

LEMMA StepMain == PoolInv /\ StepInv /\ MainNext => StepInv'
<1> SUFFICES ASSUME PoolInv, StepInv, MainNext PROVE StepInv'
  OBVIOUS
<1>1. UNCHANGED <<step, left>>
  BY DEF MainNext, CreatePool, AbortPool, SetFatal, RequestCancel, WakePool, FlushFirst, AddFile, AddFails,
     PathError, PublishError, PublishErrorFails, SubmitBatch, SubmitRefused, RefusedInWalk, RefusedOperand, WalkEnds,
     LastFlush, ClosePool, JoinPool, Report, DisposePool, ReclaimJobs, FreePending, work
<1>2. fatal_error => fatal_error'
  BY FatalStays DEF Next
<1> QED BY <1>1, <1>2, MainWakesOnly, StepFrame DEF StepInv

\* A worker's step wakes others at most.
LEMMA OthersWoken ==
    ASSUME PoolInv, NEW w \in Pool!Workers, WorkerNext(w), NEW v \in Pool!Workers, v # w
    PROVE  Woken(v)
<1>0. worker \in [Pool!Workers -> Pool!WorkerStates]
  BY DEF PoolInv, Pool!TypeOK
<1>1. CASE Pool!WorkerNext(w)
  BY <1>0, <1>1, WakeWorkersEffect
  DEF Pool!WorkerNext, Pool!WorkerInit, Pool!WorkerInitFails, Pool!Sleep, Pool!Take, Pool!Finish, Pool!Exit,
      Pool!WorkerCancels, Pool!WorkerWakes, Woken
<1>2. CASE UNCHANGED <<pool, cancel>>
  BY <1>2 DEF pool, Woken
<1> QED BY <1>1, <1>2, WorkerUsesPool

LEMMA StepWorker ==
    ASSUME PoolInv, SearchType, StepInv, NEW w \in Pool!Workers, WorkerNext(w)
    PROVE  StepInv'
<1> USE DEF SearchType
<1>0. worker \in [Pool!Workers -> Pool!WorkerStates]
  BY DEF PoolInv, Pool!TypeOK
<1>1. \A v \in Pool!Workers : v # w => step'[v] = step[v] /\ left'[v] = left[v]
  BY DEF WorkerNext, PoolStep, WorkerInitFails, CompileFails, WorkerRequests, TakeJob, SearchFile, PathLost,
     LoopEnds, PublishFails, Publish, FinishJob, RaiseFatal, work
<1>2. fatal_error => fatal_error'
  BY FatalStays DEF Next
<1> DEFINE Own == /\ Holding(w)' <=> step'[w] \in {"search", "fatal_merge", "merge", "fatal_free", "free"}
                  /\ step'[w] \in {"fatal_init", "failed"} => worker'[w] = "init"
                  /\ step'[w] # "search" => left'[w] = {}
                  /\ step'[w] \in {"fatal_init", "fatal_merge", "fatal_free"} => fatal_error'
<1>3. Own
  <2> USE <1>0 DEF StepInv, Holding
  <2>1. CASE PoolStep(w)
    BY <2>1, WakeWorkersEffect DEF PoolStep, Pool!Sleep, Pool!Exit, Pool!WorkerWakes, Pool!WorkerInit, result, work
  <2>2. CASE WorkerInitFails(w)
    BY <2>2, WakeWorkersEffect DEF WorkerInitFails, Pool!WorkerInitFails, result
  <2>3. CASE CompileFails(w) \/ LoopEnds(w) \/ PublishFails(w) \/ Publish(w) \/ PathLost(w)
    BY <2>3 DEF CompileFails, LoopEnds, PublishFails, Publish, PathLost, RaiseFatal, pool, result
  <2>4. CASE WorkerRequests(w)
    BY <2>4 DEF WorkerRequests, Pool!WorkerCancels, pool, result
  <2>5. CASE TakeJob(w)
    BY <2>5 DEF TakeJob, Pool!Take, result
  <2>6. CASE SearchFile(w)
    BY <2>6 DEF SearchFile, pool, result
  <2>7. CASE FinishJob(w)
    BY <2>7 DEF FinishJob, Pool!Finish, result
  <2> QED BY <2>1, <2>2, <2>3, <2>4, <2>5, <2>6, <2>7 DEF WorkerNext
<1>4. ASSUME NEW v \in Pool!Workers, v # w
      PROVE  /\ Holding(v)' <=> step'[v] \in {"search", "fatal_merge", "merge", "fatal_free", "free"}
             /\ step'[v] \in {"fatal_init", "failed"} => worker'[v] = "init"
             /\ step'[v] # "search" => left'[v] = {}
             /\ step'[v] \in {"fatal_init", "fatal_merge", "fatal_free"} => fatal_error'
  BY <1>1, <1>2, <1>4, OthersWoken, StepFrame
<1> QED BY <1>3, <1>4 DEF StepInv

LEMMA StepStays == PoolInv /\ SearchType /\ StepInv /\ [Next]_vars => StepInv'
<1>1. ASSUME PoolInv, StepInv, SpuriousWakeup \/ UNCHANGED vars PROVE StepInv'
  <2>1. \A v \in Pool!Workers : Woken(v)
    BY <1>1 DEF PoolInv, Pool!TypeOK, SpuriousWakeup, Pool!SpuriousWakeup, Pool!Waiting, Woken, vars, pool
  <2>2. UNCHANGED <<step, left, fatal_error>>
    BY <1>1 DEF SpuriousWakeup, vars, result, work
  <2> QED BY <1>1, <2>1, <2>2, StepFrame DEF StepInv
<1> QED BY <1>1, StepMain, StepWorker DEF Next, Terminated

-----------------------------------------------------------------------------
(* Where the main thread is. *)

\* A worker leaves the walk and the life of the pool alone.
LEMMA WorkerLeaves ==
    ASSUME NEW w \in Pool!Workers, WorkerNext(w) \/ SpuriousWakeup \/ UNCHANGED vars
    PROVE  /\ UNCHANGED <<main, walk, next, joined, walk_error>>
           /\ owner' = owner \/ (owner = "asleep" /\ owner' = "retry")
<1>1. UNCHANGED <<main, walk, walk_error>>
  BY DEF WorkerNext, PoolStep, WorkerInitFails, CompileFails, WorkerRequests, TakeJob, SearchFile, PathLost,
     LoopEnds, PublishFails, Publish, FinishJob, RaiseFatal, SpuriousWakeup, vars, result
<1>2. Pool!WorkerNext(w) \/ Pool!SpuriousWakeup \/ UNCHANGED <<pool, cancel>>
  BY WorkerUsesPool DEF SpuriousWakeup, vars
<1>3. UNCHANGED <<next, joined>> /\ (owner' = owner \/ (owner = "asleep" /\ owner' = "retry"))
  BY <1>2
  DEF Pool!WorkerNext, Pool!WorkerInit, Pool!WorkerInitFails, Pool!Sleep, Pool!Take, Pool!Finish, Pool!Exit,
      Pool!WorkerCancels, Pool!WorkerWakes, Pool!WakeOwner, Pool!SpuriousWakeup, Pool!flags, pool
<1> QED BY <1>1, <1>3

LEMMA CancelStays == SearchType /\ CancelInv /\ StepInv /\ [Next]_vars => CancelInv'
<1> SUFFICES ASSUME SearchType, CancelInv, StepInv, [Next]_vars PROVE CancelInv'
  OBVIOUS
<1>1. fatal_error => fatal_error'
  BY FatalStays
<1>2. CASE MainNext
  <2>1. CASE RequestCancel \/ SetFatal
    BY <1>1, <2>1 DEF RequestCancel, SetFatal, CancelInv
  <2>2. CASE SubmitRefused \/ JoinPool \/ ClosePool \/ AbortPool \/ Report
    <3>1. Requested' <=> Requested
      BY <2>2
      DEF SubmitRefused, JoinPool, ClosePool, AbortPool, Report, Pool!SubmitRefused, Pool!Join, Pool!JoinReturns,
          Pool!Close, Pool!CloseEffect, Pool!Reclaim, Pool!OwnerPublishes, Requested, Pool!Requested
    <3>2. main' \notin {"request", "wake"}
      BY <2>2 DEF SubmitRefused, JoinPool, ClosePool, AbortPool, Report
    <3> QED BY <1>1, <3>1, <3>2 DEF CancelInv
  <2>3. CASE CreatePool \/ WakePool \/ SubmitBatch \/ DisposePool \/ ReclaimJobs
    <3>1. cancel' = cancel
      BY <2>3
      DEF CreatePool, WakePool, SubmitBatch, DisposePool, ReclaimJobs, Pool!CreateThread, Pool!CreateThreadFails,
          Pool!InitAllocFails, Pool!OwnerWakes, Pool!SubmitWaits, Pool!SubmitAccepted, Pool!DisposeJoined, Pool!Reclaim
    <3>2. main' \notin {"request", "wake"} \/ fatal_error
      BY <2>3 DEF CreatePool, WakePool, SubmitBatch, DisposePool, ReclaimJobs, CancelInv, SearchType, Stops
    <3> QED BY <1>1, <3>1, <3>2 DEF CancelInv, Requested, Pool!Requested
  <2>4. CASE FlushFirst \/ AddFile \/ AddFails \/ PathError \/ PublishError \/ PublishErrorFails
             \/ RefusedInWalk \/ RefusedOperand \/ WalkEnds \/ LastFlush \/ FreePending
    <3>1. UNCHANGED cancel /\ main' \notin {"request", "wake"}
      BY <2>4 DEF FlushFirst, AddFile, AddFails, PathError, PublishError, PublishErrorFails, RefusedInWalk,
         RefusedOperand, WalkEnds, LastFlush, FreePending, Detach
    <3> QED BY <1>1, <3>1 DEF CancelInv, Requested, Pool!Requested
  <2> QED BY <1>2, <2>1, <2>2, <2>3, <2>4 DEF MainNext
<1>3. ASSUME NEW w \in Pool!Workers, WorkerNext(w) PROVE CancelInv'
  <2>1. main' = main
    BY <1>3, WorkerLeaves
  <2>2. CASE WorkerRequests(w)
    BY <1>1, <2>1, <2>2 DEF WorkerRequests, StepInv, CancelInv
  <2>3. CASE ~WorkerRequests(w)
    <3>1. cancel' = cancel
      BY <1>3, <2>3
      DEF WorkerNext, PoolStep, WorkerInitFails, CompileFails, TakeJob, SearchFile, PathLost, LoopEnds,
          PublishFails, Publish, FinishJob, Pool!WorkerInit, Pool!WorkerInitFails, Pool!Sleep, Pool!Take,
          Pool!Finish, Pool!Exit, Pool!WorkerWakes
    <3> QED BY <1>1, <2>1, <3>1 DEF CancelInv, Requested, Pool!Requested
  <2> QED BY <2>2, <2>3
<1>4. CASE SpuriousWakeup \/ UNCHANGED vars
  <2>1. UNCHANGED <<cancel, main>>
    BY <1>4 DEF SpuriousWakeup, Pool!SpuriousWakeup, vars
  <2> QED BY <1>1, <2>1 DEF CancelInv, Requested, Pool!Requested
<1> QED BY <1>2, <1>3, <1>4 DEF Next, Terminated

LEMMA LifeMain == PoolInv /\ SearchType /\ CancelInv /\ LifeInv /\ RoomInv /\ MainNext => LifeInv'
<1> SUFFICES ASSUME PoolInv, SearchType, CancelInv, LifeInv, RoomInv, MainNext PROVE LifeInv'
  OBVIOUS
<1> USE DEF LifeInv, AfterJoin
<1>1. CASE CreatePool
  BY <1>1 DEF CreatePool, Pool!CreateThread, Pool!CreateThreadFails, Pool!InitAllocFails, walk, result
<1>2. CASE AbortPool
  BY <1>2 DEF AbortPool, Pool!JoinReturns, Pool!Reclaim, walk, result
<1>3. CASE SetFatal
  BY <1>3 DEF SetFatal, pool, walk
<1>4. CASE RequestCancel
  BY <1>4 DEF RequestCancel, Pool!OwnerCancels, PoolReady, CancelInv, Pool!flags, walk, result
<1>5. CASE WakePool
  BY <1>5 DEF WakePool, Pool!OwnerWakes, CancelInv, Pool!flags, walk, result
<1>6. CASE FlushFirst \/ AddFile \/ AddFails \/ PathError \/ PublishError \/ PublishErrorFails \/ WalkEnds
           \/ LastFlush \/ RefusedInWalk
  <2>1. /\ main' \in {"submit", "walk", "refused", "error", "done", "close"}
        /\ main \in {"walk", "add", "error", "done", "refused"} /\ UNCHANGED <<pool, fatal_error>>
    BY <1>6 DEF FlushFirst, AddFile, AddFails, PathError, PublishError, PublishErrorFails, WalkEnds, LastFlush,
       RefusedInWalk, Detach, result
  <2> QED BY <2>1 DEF pool
<1>7. CASE RefusedOperand
  BY <1>7 DEF RefusedOperand, pool, result
<1>8. CASE SubmitBatch
  BY <1>8 DEF SubmitBatch, Pool!SubmitWaits, Pool!SubmitAccepted, Pool!InSubmit, RoomInv, walk, result
<1>9. CASE SubmitRefused
  BY <1>9 DEF SubmitRefused, Pool!SubmitRefused, Pool!InSubmit, RoomInv, walk, result
<1>10. CASE ClosePool
  BY <1>10 DEF ClosePool, Pool!Close, PoolReady, pool, walk, result
<1>11. CASE JoinPool
  BY <1>11 DEF JoinPool, Pool!Join, Pool!JoinReturns, result
<1>12. CASE Report
  <2>1. UNCHANGED <<owner, joined, next, then, fatal_error>>
    BY <1>12 DEF Report, Pool!OwnerPublishes, Pool!flags, pool, walk
  <2> QED BY <1>12, <2>1 DEF Report, PoolReady
<1>13. CASE DisposePool
  BY <1>13 DEF DisposePool, Pool!DisposeJoined, Pool!flags, walk, result
<1>14. CASE ReclaimJobs
  BY <1>14 DEF ReclaimJobs, Pool!Reclaim, walk, result
<1>15. CASE FreePending
  BY <1>15 DEF FreePending, pool, result
<1> QED BY <1>1, <1>2, <1>3, <1>4, <1>5, <1>6, <1>7, <1>8, <1>9, <1>10, <1>11, <1>12, <1>13, <1>14, <1>15 DEF MainNext

LEMMA RoomMain == PoolInv /\ SearchType /\ LifeInv /\ RoomInv /\ MainNext => RoomInv'
<1> SUFFICES ASSUME PoolInv, SearchType, LifeInv, RoomInv, MainNext PROVE RoomInv'
  OBVIOUS
<1>0. next \in Nat /\ file \in Nat /\ NumFiles \in Nat
  BY SearchAssumption DEF PoolInv, Pool!TypeOK, SearchType
<1> USE <1>0 DEF RoomInv
<1>1. CASE CreatePool \/ AbortPool \/ SetFatal \/ RequestCancel \/ WakePool \/ WalkEnds \/ ClosePool \/ JoinPool
           \/ Report \/ DisposePool \/ ReclaimJobs
  <2>1. UNCHANGED <<file, pending>> /\ (main' \notin {"submit", "refused", "add"})
    BY <1>1 DEF CreatePool, AbortPool, SetFatal, RequestCancel, WakePool, WalkEnds, ClosePool, JoinPool, Report,
       DisposePool, ReclaimJobs, walk, LifeInv
  <2>2. next' = next
    BY <1>1 DEF CreatePool, AbortPool, SetFatal, RequestCancel, WakePool, WalkEnds, ClosePool, JoinPool, Report,
       DisposePool, ReclaimJobs, Pool!CreateThread, Pool!CreateThreadFails, Pool!InitAllocFails, Pool!JoinReturns,
       Pool!Reclaim, Pool!OwnerCancels, Pool!OwnerWakes, Pool!Close, Pool!Join, Pool!OwnerPublishes,
       Pool!DisposeJoined, pool
  <2> QED BY <2>1, <2>2
<1>2. CASE FlushFirst
  BY <1>2 DEF FlushFirst, Detach, pool
<1>3. CASE AddFile
  <2>1. file \in Files /\ file' = file + 1 /\ next' = next
    BY <1>3 DEF AddFile, pool
  <2>2. CASE main' = "walk"
    BY <2>1, <2>2
  <2>3. CASE Detach(pending \cup {file}, "walk")
    BY <2>1, <2>3 DEF Detach
  <2> QED BY <1>3, <2>2, <2>3 DEF AddFile
<1>4. CASE PathError
  BY <1>4 DEF PathError, Detach, pool
<1>5. CASE AddFails \/ PublishError \/ RefusedOperand \/ FreePending
  BY <1>5 DEF AddFails, PublishError, RefusedOperand, FreePending, pool, walk
<1>6. CASE PublishErrorFails
  BY <1>6 DEF PublishErrorFails, pool
<1>7. CASE RefusedInWalk
  <2>1. file' \in Nat /\ file' >= file
    BY <1>7 DEF RefusedInWalk
  <2> QED BY <1>7, <2>1 DEF RefusedInWalk, pool
<1>8. CASE SubmitBatch
  BY <1>8 DEF SubmitBatch, Pool!SubmitWaits, Pool!SubmitAccepted, walk
<1>9. CASE SubmitRefused
  BY <1>9 DEF SubmitRefused, Pool!SubmitRefused, walk
<1>10. CASE LastFlush
  BY <1>10 DEF LastFlush, Detach, pool
<1> QED BY <1>1, <1>2, <1>3, <1>4, <1>5, <1>6, <1>7, <1>8, <1>9, <1>10 DEF MainNext

LEMMA MainStays == PoolInv /\ SearchType /\ StepInv /\ MainInv /\ [Next]_vars => MainInv'
<1> SUFFICES ASSUME PoolInv, SearchType, StepInv, MainInv, [Next]_vars PROVE MainInv'
  OBVIOUS
<1>1. CancelInv'
  BY CancelStays DEF MainInv
<1>2. CASE MainNext
  BY <1>1, <1>2, LifeMain, RoomMain DEF MainInv
<1>3. CASE SpuriousWakeup \/ UNCHANGED vars \/ \E w \in Pool!Workers : WorkerNext(w)
  <2>1. 0 \in Pool!Workers
    BY SearchAssumption DEF Pool!Workers
  <2>2. /\ UNCHANGED <<main, walk, next, joined>>
        /\ owner' = owner \/ (owner = "asleep" /\ owner' = "retry")
    BY <1>3, <2>1, WorkerLeaves
  <2>3. fatal_error => fatal_error'
    BY FatalStays
  <2>4. LifeInv'
    BY <2>2, <2>3 DEF MainInv, LifeInv, walk
  <2>5. RoomInv'
    BY <2>2 DEF MainInv, RoomInv, walk
  <2> QED BY <1>1, <2>4, <2>5 DEF MainInv
<1> QED BY <1>2, <1>3 DEF Next, Terminated

-----------------------------------------------------------------------------
(***************************************************************************)
(* The batches.  Most steps leave them alone; the others detach a batch,   *)
(* hand it to the pool or are refused, reclaim what is left, or are steps  *)
(* of the worker that has it.                                              *)
(***************************************************************************)

jobs == <<hand, place, next, batch, searched, left, freed>>

\* A batch that is new, or that the pool has not seen, is with its builder.
LEMMA BuilderHasNew ==
    ASSUME PoolInv
    PROVE  /\ next \in Nat
           /\ \A j \in Pool!Jobs : j \in Nat /\ (place[j] # "builder" => j < next)
           /\ \A w \in Pool!Workers : hand[w] # Pool!NoJob =>
                hand[w] \in Pool!Jobs /\ place[hand[w]] = "worker" /\ hand[w] < next
           /\ \A v, w \in Pool!Workers : hand[v] = hand[w] /\ hand[v] # Pool!NoJob => v = w
           /\ \A i \in Pool!Slots : items[i] # Pool!NoJob =>
                items[i] \in Pool!Jobs /\ place[items[i]] = "queued"
           /\ \A j \in Pool!Jobs : j # Pool!NoJob
<1> USE DEF PoolInv, JobsInv
<1>1. next \in Nat /\ \A j \in Pool!Jobs : j \in Nat /\ j # Pool!NoJob
  BY DEF Pool!TypeOK, Pool!Jobs, Pool!NoJob
<1>2. \A j \in Pool!Jobs : place[j] # "builder" => j < next
  BY <1>1 DEF PlacesInv
<1>3. \A w \in Pool!Workers : hand[w] # Pool!NoJob => hand[w] \in Pool!Jobs /\ place[hand[w]] = "worker"
  BY DEF Pool!TypeOK, Pool!SingleOwner
<1>4. \A v, w \in Pool!Workers : hand[v] = hand[w] /\ hand[v] # Pool!NoJob => v = w
  BY DEF Pool!SingleOwner
<1>5. \A i \in Pool!Slots : items[i] # Pool!NoJob => items[i] \in Pool!Jobs /\ place[items[i]] = "queued"
  BY DEF Pool!TypeOK, Pool!SingleOwner
<1> QED BY <1>1, <1>2, <1>3, <1>4, <1>5

\* The pending batch is detached, for which there is a job; with the file the
\* walk is at, or before that file is looked at.
DetachStep ==
    /\ main \in {"walk", "add", "done"} /\ main' = "submit"
    /\ next \in Pool!Jobs /\ pending' = {}
    /\ UNCHANGED <<hand, place, next, searched, left, freed>>
    /\ \E files \in SUBSET Files :
         /\ batch' = [batch EXCEPT ![next] = files]
         /\ \/ files = pending /\ file' = file /\ then' \in {"add", "close"}
            \/ files = pending /\ file' = file + 1 /\ then' = "error"
            \/ file \in Files /\ files = pending \cup {file} /\ file' = file + 1 /\ then' = "walk"

AcceptStep ==
    /\ main = "submit" /\ Pool!SubmitAccepted /\ main' = then
    /\ UNCHANGED <<walk, searched, left, freed>>

\* The walk may take a file into the pending batch, or go past files because of
\* an error; in the end what is pending is thrown away.
QuietMain ==
    /\ UNCHANGED jobs
    /\ main' = "submit" <=> main = "submit"
    /\ \/ UNCHANGED <<file, pending>>
       \/ file \in Files /\ pending' = pending \cup {file} /\ file' = file + 1
       \/ file' \in Nat /\ file' >= file /\ pending' = pending /\ Trouble'
       \/ main = "free" /\ file' = file /\ pending' = {}

LEMMA MainSteps ==
    ASSUME PoolInv, SearchType, MainInv, MainNext
    PROVE  QuietMain \/ DetachStep \/ AcceptStep \/ SubmitRefused \/ ReclaimJobs
<1>0. next \in Nat /\ file \in Nat /\ NumFiles \in Nat
  BY SearchAssumption DEF PoolInv, Pool!TypeOK, SearchType
<1>1. CASE CreatePool \/ RequestCancel \/ WakePool \/ ClosePool \/ JoinPool \/ Report \/ DisposePool
  <2>1. UNCHANGED jobs
    BY <1>1
    DEF CreatePool, RequestCancel, WakePool, ClosePool, JoinPool, Report, DisposePool, jobs, walk, work, pool,
        Pool!CreateThread, Pool!CreateThreadFails, Pool!InitAllocFails, Pool!OwnerCancels, Pool!OwnerWakes,
        Pool!Close, Pool!Join, Pool!JoinReturns, Pool!OwnerPublishes, Pool!DisposeJoined
  <2>2. UNCHANGED <<file, pending>> /\ main # "submit" /\ main' # "submit"
    BY <1>1
    DEF CreatePool, RequestCancel, WakePool, ClosePool, JoinPool, Report, DisposePool, walk, SearchType, Stops
  <2> QED BY <2>1, <2>2 DEF QuietMain
<1>2. CASE AbortPool
  <2>1. UNCHANGED <<hand, next>> /\ place' = place
    <3>1. CASE Pool!JoinReturns
      BY <3>1 DEF Pool!JoinReturns
    <3>2. CASE Pool!Reclaim
      <4>1. next = 1
        BY <1>2 DEF AbortPool, MainInv, LifeInv
      <4>2. \A j \in Pool!Jobs : ~ \E i \in Pool!Slots : items[i] = j
        BY <4>1, BuilderHasNew DEF Pool!Jobs
      <4> QED BY <3>2, <4>2 DEF Pool!Reclaim, PoolInv, Pool!TypeOK
    <3> QED BY <1>2, <3>1, <3>2 DEF AbortPool
  <2> QED BY <1>2, <2>1 DEF AbortPool, QuietMain, jobs, walk, work
<1>3. CASE SetFatal \/ AddFails \/ PublishError \/ RefusedOperand \/ WalkEnds
  BY <1>3 DEF SetFatal, AddFails, PublishError, RefusedOperand, WalkEnds, QuietMain, jobs, pool, walk, work
<1>4. CASE FlushFirst
  <2>1. next \in Pool!Jobs
    BY <1>0, <1>4 DEF FlushFirst, MainInv, RoomInv, Files, Pool!Jobs, PoolInv, Pool!TypeOK
  <2> QED BY <1>4, <2>1 DEF FlushFirst, Detach, DetachStep, SearchType, pool, work
<1>5. CASE AddFile
  <2>1. file \in Files /\ file' = file + 1 /\ UNCHANGED <<hand, place, next, searched, left, freed>>
        /\ main \in {"walk", "add"}
    BY <1>5 DEF AddFile, pool, work
  <2>2. CASE pending' = pending \cup {file} /\ main' = "walk" /\ UNCHANGED <<then, batch>>
    BY <2>1, <2>2 DEF QuietMain, jobs
  <2>3. CASE Detach(pending \cup {file}, "walk")
    <3>1. next \in Pool!Jobs
      BY <1>0, <2>1 DEF MainInv, RoomInv, Files, Pool!Jobs, PoolInv, Pool!TypeOK
    <3>2. pending \cup {file} \in SUBSET Files
      BY <2>1 DEF SearchType
    <3> QED BY <2>1, <2>3, <3>1, <3>2 DEF Detach, DetachStep
  <2> QED BY <1>5, <2>2, <2>3 DEF AddFile
<1>6. CASE PathError
  <2>1. main = "walk" /\ file \in Files /\ file' = file + 1 /\ UNCHANGED <<hand, place, next, searched, left, freed>>
    BY <1>6 DEF PathError, pool, work
  <2>2. CASE pending # {}
    <3>1. Detach(pending, "error")
      BY <1>6, <2>2 DEF PathError
    <3>2. next \in Pool!Jobs
      BY <1>0, <2>1 DEF MainInv, RoomInv, Files, Pool!Jobs, PoolInv, Pool!TypeOK
    <3> QED BY <2>1, <3>1, <3>2 DEF Detach, DetachStep, SearchType
  <2>3. CASE pending = {}
    <3>1. main' = "error" /\ UNCHANGED <<pending, batch>>
      BY <1>6, <2>3 DEF PathError
    <3> QED BY <1>0, <2>1, <3>1 DEF QuietMain, jobs, Trouble
  <2> QED BY <2>2, <2>3
<1>7. CASE PublishErrorFails
  BY <1>0, <1>7 DEF PublishErrorFails, QuietMain, jobs, pool, work, Trouble
<1>8. CASE SubmitBatch
  <2>1. CASE Pool!SubmitWaits /\ UNCHANGED main
    BY <1>8, <2>1 DEF SubmitBatch, Pool!SubmitWaits, QuietMain, jobs, walk, work
  <2>2. CASE Pool!SubmitAccepted /\ main' = then
    BY <1>8, <2>2 DEF SubmitBatch, AcceptStep, work
  <2> QED BY <1>8, <2>1, <2>2 DEF SubmitBatch
<1>9. CASE RefusedInWalk
  <2>1. file' \in Nat /\ file' >= file
    BY <1>0, <1>9 DEF RefusedInWalk
  <2>2. fatal_error' \/ walk_error'
    BY <1>9 DEF RefusedInWalk, MainInv, CancelInv
  <2> QED BY <1>9, <2>1, <2>2 DEF RefusedInWalk, QuietMain, jobs, pool, work, Trouble
<1>10. CASE LastFlush
  <2>1. CASE main' = "close" /\ UNCHANGED <<then, pending, batch>>
    BY <1>10, <2>1 DEF LastFlush, QuietMain, jobs, pool, work
  <2>2. CASE pending # {} /\ Detach(pending, "close")
    <3>1. next \in Pool!Jobs
      BY <1>0, <2>2 DEF MainInv, RoomInv, SearchType, Pool!Jobs, PoolInv, Pool!TypeOK
    <3> QED BY <1>10, <2>2, <3>1 DEF LastFlush, Detach, DetachStep, SearchType, pool, work
  <2> QED BY <1>10, <2>1, <2>2 DEF LastFlush
<1>11. CASE FreePending
  BY <1>11 DEF FreePending, QuietMain, jobs, pool, work
<1> QED BY <1>1, <1>2, <1>3, <1>4, <1>5, <1>6, <1>7, <1>8, <1>9, <1>10, <1>11 DEF MainNext

LEMMA WorkerDoes ==
    ASSUME NEW w \in Pool!Workers, WorkerNext(w) \/ SpuriousWakeup \/ UNCHANGED vars
    PROVE  UNCHANGED jobs \/ TakeJob(w) \/ SearchFile(w) \/ PathLost(w) \/ FinishJob(w)
BY DEF WorkerNext, PoolStep, WorkerInitFails, CompileFails, WorkerRequests, LoopEnds, PublishFails, Publish,
   SpuriousWakeup, RaiseFatal, vars, jobs, pool, walk, work, Pool!WorkerInit, Pool!WorkerInitFails, Pool!Sleep,
   Pool!Exit, Pool!WorkerWakes, Pool!WorkerCancels, Pool!SpuriousWakeup

LEMMA BatchesMain ==
    ASSUME PoolInv, SearchType, MainInv, Batches, MainNext
    PROVE  Batches'
<1>0. next \in Nat /\ file \in Nat /\ \A f \in Files : f \in Nat
  BY DEF PoolInv, Pool!TypeOK, SearchType, Files
<1> USE DEF Batches, SearchType
<1>1. CASE QuietMain
  <2>1. UNCHANGED <<batch, next>> /\ (main' = "submit" <=> main = "submit")
    BY <1>1 DEF QuietMain, jobs
  <2>2. \/ file' \in Nat /\ file' >= file /\ pending' \in SUBSET pending
        \/ file \in Files /\ pending' = pending \cup {file} /\ file' = file + 1
    BY <1>0, <1>1 DEF QuietMain
  <2>3. \A j \in Pool!Jobs : \A f \in batch'[j] : f < file'
    BY <1>0, <2>1, <2>2
  <2>4. \A f \in pending' : f < file' /\ \A j \in Pool!Jobs : f \notin batch'[j]
    <3>1. CASE file' \in Nat /\ file' >= file /\ pending' \in SUBSET pending
      BY <1>0, <2>1, <3>1
    <3>2. CASE file \in Files /\ pending' = pending \cup {file} /\ file' = file + 1
      <4>1. \A j \in Pool!Jobs : file \notin batch[j]
        BY <1>0
      <4> QED BY <1>0, <2>1, <3>2, <4>1
    <3> QED BY <2>2, <3>1, <3>2
  <2> QED BY <2>1, <2>3, <2>4
<1>2. CASE DetachStep
  <2>1. PICK files \in SUBSET Files :
          /\ batch' = [batch EXCEPT ![next] = files]
          /\ \/ files = pending /\ file' = file
             \/ files = pending /\ file' = file + 1
             \/ file \in Files /\ files = pending \cup {file} /\ file' = file + 1
    BY <1>2 DEF DetachStep
  <2>2. next \in Pool!Jobs /\ pending' = {} /\ next' = next /\ main' = "submit" /\ main # "submit"
    BY <1>2 DEF DetachStep
  <2>3. batch[next] = {} /\ batch'[next] = files /\ \A j \in Pool!Jobs : j # next => batch'[j] = batch[j]
    BY <1>0, <2>1, <2>2
  <2>4. \A f \in files : f < file' /\ \A j \in Pool!Jobs : f \notin batch[j]
    BY <1>0, <2>1
  <2>5. \A j \in Pool!Jobs : \A f \in batch'[j] : f < file'
    BY <1>0, <2>1, <2>3, <2>4
  <2>6. \A j, k \in Pool!Jobs : j # k => batch'[j] \cap batch'[k] = {}
    BY <2>3, <2>4
  <2>7. \A j \in Pool!Jobs : j < next' \/ (j = next' /\ main' = "submit") \/ batch'[j] = {}
    BY <2>2, <2>3
  <2> QED BY <2>2, <2>5, <2>6, <2>7
<1>3. CASE AcceptStep \/ SubmitRefused
  <2>1. UNCHANGED <<file, pending, batch>> /\ next' = next + 1 /\ main = "submit" /\ next \in Pool!Jobs
    BY <1>3 DEF AcceptStep, SubmitRefused, Pool!SubmitAccepted, Pool!SubmitRefused, Pool!InSubmit, walk
  <2> QED BY <1>0, <2>1 DEF Pool!Jobs
<1>4. CASE ReclaimJobs
  <2>1. UNCHANGED <<file, pending, batch, next>> /\ main # "submit"
    BY <1>4 DEF ReclaimJobs, Pool!Reclaim, walk
  <2> QED BY <2>1
<1> QED BY <1>1, <1>2, <1>3, <1>4, MainSteps

LEMMA BatchesStays == PoolInv /\ SearchType /\ MainInv /\ Batches /\ [Next]_vars => Batches'
<1>1. 0 \in Pool!Workers
  BY SearchAssumption DEF Pool!Workers
<1>2. ASSUME Batches, SpuriousWakeup \/ UNCHANGED vars \/ \E w \in Pool!Workers : WorkerNext(w) PROVE Batches'
  <2>1. UNCHANGED <<main, walk, next>>
    BY <1>1, <1>2, WorkerLeaves
  <2> QED BY <1>2, <2>1 DEF Batches, walk
<1> QED BY <1>2, BatchesMain DEF Next, Terminated

\* What reclaiming does to a job.
LEMMA ReclaimMoves ==
    ASSUME PoolInv, Pool!Reclaim, NEW j \in Pool!Jobs
    PROVE  /\ place[j] = "queued" <=> \E i \in Pool!Slots : items[i] = j
           /\ place'[j] = IF place[j] = "queued" THEN "reclaimed" ELSE place[j]
           /\ UNCHANGED <<hand, next>>
<1>1. place[j] = "queued" <=> \E i \in Pool!Slots : items[i] = j
  BY BuilderHasNew DEF PoolInv, JobsInv, Pool!SingleOwner
<1> QED BY <1>1 DEF Pool!Reclaim

\* The job a worker takes was queued and is in no hand.
LEMMA TakeMoves ==
    ASSUME PoolInv, NEW w \in Pool!Workers, Pool!Take(w)
    PROVE  \E j \in Pool!Jobs :
             /\ j = items[head] /\ place[j] = "queued" /\ hand[w] = Pool!NoJob /\ j # Pool!NoJob
             /\ \A v \in Pool!Workers : hand[v] # j
             /\ place' = [place EXCEPT ![j] = "worker"] /\ hand' = [hand EXCEPT ![w] = j]
             /\ next' = next
<1>1. items[head] \in Pool!Jobs
  BY HeadHoldsJob DEF Pool!Take, PoolInv, JobsInv, Pool!TypeOK
<1>2. place[items[head]] = "queued" /\ items[head] # Pool!NoJob
  BY <1>1, BuilderHasNew DEF PoolInv, Pool!TypeOK
<1>3. hand[w] = Pool!NoJob
  BY DEF Pool!Take, PoolInv, PoolControlInv, HandsMatchState
<1>4. \A v \in Pool!Workers : hand[v] # items[head]
  BY <1>2, BuilderHasNew
<1> QED BY <1>1, <1>2, <1>3, <1>4 DEF Pool!Take

\* A worker in process_job has a job.
LEMMA HandsHold ==
    ASSUME PoolInv, NEW w \in Pool!Workers
    PROVE  Holding(w) <=> hand[w] # Pool!NoJob
BY DEF Holding, PoolInv, PoolControlInv, HandsMatchState

LEMMA FinishMoves ==
    ASSUME PoolInv, NEW w \in Pool!Workers, Pool!Finish(w)
    PROVE  /\ hand[w] # Pool!NoJob /\ hand[w] \in Pool!Jobs /\ place[hand[w]] = "worker" /\ hand[w] < next
           /\ \A v \in Pool!Workers : v # w => hand[v] # hand[w]
           /\ place' = [place EXCEPT ![hand[w]] = "finished"] /\ hand' = [hand EXCEPT ![w] = Pool!NoJob]
           /\ next' = next
<1>1. hand[w] # Pool!NoJob
  BY HandsHold DEF Pool!Finish, Holding
<1> QED BY <1>1, BuilderHasNew DEF Pool!Finish

LEMMA SearchedMain ==
    ASSUME PoolInv, SearchType, MainInv, SearchedOnce, MainNext
    PROVE  SearchedOnce'
<1> USE DEF SearchedOnce, SearchType
<1>0. hand \in [Pool!Workers -> Pool!Jobs \cup {Pool!NoJob}] /\ place \in [Pool!Jobs -> Pool!Places]
  BY DEF PoolInv, Pool!TypeOK
<1>1. CASE QuietMain
  BY <1>1 DEF QuietMain, jobs
<1>2. CASE DetachStep
  <2>1. PICK files : batch' = [batch EXCEPT ![next] = files]
    BY <1>2 DEF DetachStep
  <2>2. next \in Pool!Jobs /\ UNCHANGED <<hand, place, searched, left>>
    BY <1>2 DEF DetachStep
  <2>3. place[next] = "builder" /\ \A w \in Pool!Workers : hand[w] # Pool!NoJob => hand[w] # next /\ hand[w] \in Pool!Jobs
    BY <2>2, BuilderHasNew
  <2>4. \A j \in Pool!Jobs : j # next => batch'[j] = batch[j]
    BY <2>1
  <2>5. \A f \in Files : searched'[f] = 1 =>
          \E j \in Pool!Jobs : f \in batch'[j] /\ place'[j] \in {"worker", "finished"}
    <3> SUFFICES ASSUME NEW f \in Files, searched[f] = 1
                 PROVE  \E j \in Pool!Jobs : f \in batch'[j] /\ place[j] \in {"worker", "finished"}
      BY <2>2
    <3>1. PICK j \in Pool!Jobs : f \in batch[j] /\ place[j] \in {"worker", "finished"}
      OBVIOUS
    <3> QED BY <2>3, <2>4, <3>1
  <2>6. \A w \in Pool!Workers : \A f \in left'[w] :
          hand'[w] # Pool!NoJob /\ f \in batch'[hand'[w]] /\ searched'[f] = 0
    BY <2>2, <2>3, <2>4
  <2> QED BY <2>2, <2>5, <2>6
<1>3. CASE AcceptStep
  <2>1. /\ UNCHANGED <<batch, hand, searched, left>> /\ next \in Pool!Jobs
        /\ place' = [place EXCEPT ![next] = "queued"] /\ place[next] = "builder"
    BY <1>3, BuilderHasNew DEF AcceptStep, Pool!SubmitAccepted, Pool!InSubmit, walk
  <2>2. \A j \in Pool!Jobs : place[j] \in {"worker", "finished"} => place'[j] = place[j]
    BY <1>0, <2>1
  <2> QED BY <2>1, <2>2
<1>4. CASE SubmitRefused
  BY <1>4 DEF SubmitRefused, Pool!SubmitRefused, Pool!flags, walk, work
<1>5. CASE ReclaimJobs
  <2>1. UNCHANGED <<batch, hand, searched, left>>
    BY <1>5 DEF ReclaimJobs, Pool!Reclaim, walk, work
  <2>2. \A j \in Pool!Jobs : place[j] \in {"worker", "finished"} => place'[j] = place[j]
    BY <1>5, ReclaimMoves DEF ReclaimJobs
  <2> QED BY <2>1, <2>2
<1> QED BY <1>1, <1>2, <1>3, <1>4, <1>5, MainSteps

LEMMA SearchedWorker ==
    ASSUME PoolInv, SearchType, StepInv, Batches, SearchedOnce, NEW w \in Pool!Workers, WorkerNext(w)
    PROVE  SearchedOnce'
<1> USE DEF SearchType
<1>0. hand \in [Pool!Workers -> Pool!Jobs \cup {Pool!NoJob}] /\ place \in [Pool!Jobs -> Pool!Places]
  BY DEF PoolInv, Pool!TypeOK
<1>1. CASE UNCHANGED jobs
  BY <1>1 DEF jobs, SearchedOnce
<1>2. CASE TakeJob(w)
  <2>1. PICK j \in Pool!Jobs : /\ j = items[head] /\ place[j] = "queued" /\ j # Pool!NoJob
                               /\ place' = [place EXCEPT ![j] = "worker"] /\ hand' = [hand EXCEPT ![w] = j]
    BY <1>2, TakeMoves DEF TakeJob
  <2>2. left' = [left EXCEPT ![w] = batch[j]] /\ UNCHANGED <<batch, searched>>
    BY <1>2, <2>1 DEF TakeJob, walk
  <2>3. \A f \in batch[j] : searched[f] = 0
    <3> SUFFICES ASSUME NEW f \in batch[j], searched[f] = 1 PROVE FALSE
      BY DEF SearchedOnce
    <3>1. PICK k \in Pool!Jobs : f \in batch[k] /\ place[k] \in {"worker", "finished"}
      BY DEF SearchedOnce
    <3> QED BY <2>1, <3>1 DEF Batches
  <2>4. \A k \in Pool!Jobs : place[k] \in {"worker", "finished"} => place'[k] = place[k]
    BY <1>0, <2>1
  <2>5. \A v \in Pool!Workers : \A f \in left'[v] :
          hand'[v] # Pool!NoJob /\ f \in batch'[hand'[v]] /\ searched'[f] = 0
    <3>1. \A f \in left'[w] : hand'[w] # Pool!NoJob /\ f \in batch'[hand'[w]] /\ searched'[f] = 0
      BY <1>0, <2>1, <2>2, <2>3
    <3>2. \A v \in Pool!Workers : v # w => left'[v] = left[v] /\ hand'[v] = hand[v]
      BY <1>0, <2>1, <2>2
    <3> QED BY <2>2, <3>1, <3>2 DEF SearchedOnce
  <2> QED BY <2>2, <2>4, <2>5 DEF SearchedOnce
<1>3. CASE SearchFile(w)
  <2>1. PICK f \in left[w] : /\ left' = [left EXCEPT ![w] = left[w] \ {f}]
                             /\ searched' = [searched EXCEPT ![f] = searched[f] + 1]
    BY <1>3 DEF SearchFile
  <2>2. UNCHANGED <<hand, place, batch>>
    BY <1>3 DEF SearchFile, pool, walk
  <2>3. f \in Files /\ hand[w] # Pool!NoJob /\ f \in batch[hand[w]] /\ searched[f] = 0
    BY <2>1 DEF SearchedOnce
  <2>4. hand[w] \in Pool!Jobs /\ place[hand[w]] = "worker"
        /\ \A v \in Pool!Workers : v # w /\ hand[v] # Pool!NoJob => hand[v] # hand[w] /\ hand[v] \in Pool!Jobs
    BY <2>3, BuilderHasNew
  <2>5. searched'[f] = 1 /\ \A g \in Files : g # f => searched'[g] = searched[g]
    BY <2>1, <2>3
  <2>6. \A v \in Pool!Workers : \A g \in left'[v] :
          hand'[v] # Pool!NoJob /\ g \in batch'[hand'[v]] /\ searched'[g] = 0
    <3> SUFFICES ASSUME NEW v \in Pool!Workers, NEW g \in left'[v]
                 PROVE  hand[v] # Pool!NoJob /\ g \in batch[hand[v]] /\ searched'[g] = 0
      BY <2>2
    <3>1. g \in left[v] /\ g \in Files
      BY <2>1
    <3>2. hand[v] # Pool!NoJob /\ g \in batch[hand[v]] /\ searched[g] = 0
      BY <3>1 DEF SearchedOnce
    <3>3. g # f
      <4>1. CASE v = w
        BY <2>1, <4>1
      <4>2. CASE v # w
        BY <2>3, <2>4, <3>2, <4>2 DEF Batches
      <4> QED BY <4>1, <4>2
    <3> QED BY <2>5, <3>1, <3>2, <3>3
  <2>7. \A g \in Files : searched'[g] <= 1
    BY <2>5 DEF SearchedOnce
  <2>8. \A g \in Files : searched'[g] = 1 =>
          \E j \in Pool!Jobs : g \in batch'[j] /\ place'[j] \in {"worker", "finished"}
    BY <2>2, <2>3, <2>4, <2>5 DEF SearchedOnce
  <2> QED BY <2>6, <2>7, <2>8 DEF SearchedOnce
<1>4. CASE PathLost(w)
  BY <1>4 DEF PathLost, pool, walk, SearchedOnce
<1>5. CASE FinishJob(w)
  <2>1. /\ hand[w] \in Pool!Jobs /\ place[hand[w]] = "worker"
        /\ place' = [place EXCEPT ![hand[w]] = "finished"] /\ hand' = [hand EXCEPT ![w] = Pool!NoJob]
    BY <1>5, FinishMoves DEF FinishJob
  <2>2. UNCHANGED <<batch, searched, left>> /\ step[w] = "free"
    BY <1>5 DEF FinishJob, walk
  <2>3. \A k \in Pool!Jobs : place[k] \in {"worker", "finished"} => place'[k] \in {"worker", "finished"}
    BY <1>0, <2>1
  <2>4. left[w] = {}
    BY <1>5 DEF FinishJob, StepInv
  <2> QED BY <1>0, <2>1, <2>2, <2>3, <2>4 DEF SearchedOnce
<1> QED BY <1>1, <1>2, <1>3, <1>4, <1>5, WorkerDoes

LEMMA SearchedStays ==
    PoolInv /\ SearchType /\ StepInv /\ MainInv /\ Batches /\ SearchedOnce /\ [Next]_vars => SearchedOnce'
<1>1. ASSUME SearchedOnce, SpuriousWakeup \/ UNCHANGED vars PROVE SearchedOnce'
  BY <1>1 DEF SearchedOnce, SpuriousWakeup, Pool!SpuriousWakeup, vars, pool, walk, work
<1> QED BY <1>1, SearchedMain, SearchedWorker DEF Next, Terminated

LEMMA FreedMain ==
    ASSUME PoolInv, SearchType, MainInv, FreedInv, MainNext
    PROVE  FreedInv'
<1> USE DEF FreedInv, SearchType
<1>0. place \in [Pool!Jobs -> Pool!Places]
  BY DEF PoolInv, Pool!TypeOK
<1>1. CASE QuietMain \/ DetachStep
  BY <1>1 DEF QuietMain, DetachStep, jobs
<1>2. CASE AcceptStep
  <2>1. /\ next' = next + 1 /\ next \in Pool!Jobs /\ freed' = freed
        /\ place' = [place EXCEPT ![next] = "queued"] /\ place[next] = "builder"
    BY <1>2, BuilderHasNew DEF AcceptStep, Pool!SubmitAccepted, Pool!InSubmit
  <2> QED BY <1>0, <2>1, BuilderHasNew
<1>3. CASE SubmitRefused
  <2>1. /\ next' = next + 1 /\ next \in Pool!Jobs /\ place' = place /\ place[next] = "builder"
        /\ freed' = [j \in Pool!Jobs |-> IF j \in {next} THEN freed[j] + 1 ELSE freed[j]]
    BY <1>3, BuilderHasNew DEF SubmitRefused, Pool!SubmitRefused, Pool!InSubmit, Free
  <2> QED BY <1>0, <2>1, BuilderHasNew
<1>4. CASE ReclaimJobs
  <2> SUFFICES ASSUME NEW j \in Pool!Jobs
               PROVE  freed'[j] = IF j < next' /\ place'[j] \in {"builder", "finished", "reclaimed"} THEN 1 ELSE 0
    OBVIOUS
  <2>1. /\ place[j] = "queued" <=> \E i \in Pool!Slots : items[i] = j
        /\ place'[j] = IF place[j] = "queued" THEN "reclaimed" ELSE place[j]
        /\ next' = next
    BY <1>4, ReclaimMoves DEF ReclaimJobs
  <2>2. freed'[j] = IF \E i \in Pool!Slots : items[i] = j THEN freed[j] + 1 ELSE freed[j]
    BY <1>4 DEF ReclaimJobs, Free
  <2>3. place[j] # "builder" => j < next
    BY BuilderHasNew
  <2> QED BY <2>1, <2>2, <2>3
<1> QED BY <1>1, <1>2, <1>3, <1>4, MainSteps

LEMMA FreedWorker ==
    ASSUME PoolInv, SearchType, FreedInv, NEW w \in Pool!Workers, WorkerNext(w)
    PROVE  FreedInv'
<1> USE DEF FreedInv, SearchType
<1>0. place \in [Pool!Jobs -> Pool!Places]
  BY DEF PoolInv, Pool!TypeOK
<1>1. CASE UNCHANGED jobs \/ SearchFile(w) \/ PathLost(w)
  BY <1>1 DEF jobs, SearchFile, PathLost, pool
<1>2. CASE TakeJob(w)
  <2>1. PICK j \in Pool!Jobs : place[j] = "queued" /\ place' = [place EXCEPT ![j] = "worker"] /\ next' = next
    BY <1>2, TakeMoves DEF TakeJob
  <2> QED BY <1>0, <1>2, <2>1 DEF TakeJob
<1>3. CASE FinishJob(w)
  <2>1. /\ hand[w] \in Pool!Jobs /\ place[hand[w]] = "worker" /\ hand[w] < next
        /\ place' = [place EXCEPT ![hand[w]] = "finished"] /\ next' = next
    BY <1>3, FinishMoves DEF FinishJob
  <2>2. freed' = [j \in Pool!Jobs |-> IF j \in {hand[w]} THEN freed[j] + 1 ELSE freed[j]]
    BY <1>3 DEF FinishJob, Free
  <2> QED BY <1>0, <2>1, <2>2
<1> QED BY <1>1, <1>2, <1>3, WorkerDoes

LEMMA FreedStays == PoolInv /\ SearchType /\ MainInv /\ FreedInv /\ [Next]_vars => FreedInv'
<1>1. ASSUME FreedInv, SpuriousWakeup \/ UNCHANGED vars PROVE FreedInv'
  BY <1>1 DEF FreedInv, SpuriousWakeup, Pool!SpuriousWakeup, vars, pool
<1> QED BY <1>1, FreedMain, FreedWorker DEF Next, Terminated

-----------------------------------------------------------------------------
(* Until something fails nothing is lost, and a failure is not forgotten. *)

LEMMA TroubleMain ==
    ASSUME SearchType, MainInv, Told, MainNext, Trouble
    PROVE  Trouble'
<1> USE DEF Trouble
<1>0. fatal_error => fatal_error'
  BY FatalStays DEF Next
<1>1. CASE CreatePool
  BY <1>0, <1>1 DEF CreatePool, Pool!CreateThread, Pool!CreateThreadFails, Pool!InitAllocFails, Pool!flags, result
<1>2. CASE AbortPool
  BY <1>2 DEF AbortPool
<1>3. CASE SetFatal
  BY <1>3 DEF SetFatal
<1>4. CASE RequestCancel \/ WakePool
  BY <1>0, <1>4 DEF RequestCancel, WakePool, MainInv, CancelInv
<1>5. CASE FlushFirst \/ AddFile
  BY <1>5 DEF FlushFirst, AddFile, pool, result
<1>6. CASE AddFails \/ PublishErrorFails
  BY <1>6 DEF AddFails, PublishErrorFails
<1>7. CASE PathError
  BY <1>7 DEF PathError, Detach
<1>8. CASE PublishError
  BY <1>8 DEF PublishError, ApplyResult
<1>9. CASE SubmitBatch
  BY <1>0, <1>9 DEF SubmitBatch, Pool!SubmitWaits, Pool!SubmitAccepted, Pool!flags, walk, result
<1>10. CASE SubmitRefused
  BY <1>10 DEF SubmitRefused
<1>11. CASE RefusedInWalk
  BY <1>11 DEF RefusedInWalk, MainInv, CancelInv, result
<1>12. CASE RefusedOperand
  BY <1>12 DEF RefusedOperand, MainInv, CancelInv, result
<1>13. CASE WalkEnds \/ LastFlush \/ FreePending
  BY <1>13 DEF WalkEnds, LastFlush, FreePending, pool, result
<1>14. CASE ClosePool
  BY <1>14 DEF ClosePool, Pool!Close, pool, result
<1>15. CASE JoinPool
  BY <1>0, <1>15 DEF JoinPool, Pool!Join, Pool!JoinReturns, Pool!flags, result
<1>16. CASE Report
  BY <1>16 DEF Report, Pool!OwnerPublishes, Pool!flags, pool
<1>17. CASE DisposePool
  BY <1>17 DEF DisposePool, Pool!DisposeJoined, Pool!flags, result
<1>18. CASE ReclaimJobs
  BY <1>0, <1>18 DEF ReclaimJobs, Told, AfterJoin, result
<1> QED BY <1>1, <1>2, <1>3, <1>4, <1>5, <1>6, <1>7, <1>8, <1>9, <1>10, <1>11, <1>12, <1>13, <1>14, <1>15,
           <1>16, <1>17, <1>18 DEF MainNext

LEMMA TroubleWorker ==
    ASSUME NEW w \in Pool!Workers, WorkerNext(w) \/ SpuriousWakeup \/ UNCHANGED vars, Trouble
    PROVE  Trouble'
<1>1. UNCHANGED <<main, walk, walk_error>> /\ (fatal_error => fatal_error')
  BY WorkerLeaves, FatalStays DEF Next
<1>2. exit_status = 2 => exit_status' = 2
  BY DEF WorkerNext, PoolStep, WorkerInitFails, CompileFails, WorkerRequests, TakeJob, SearchFile, PathLost,
     LoopEnds, PublishFails, Publish, FinishJob, ApplyResult, SpuriousWakeup, vars, result
<1>3. failed => failed'
  <2>1. Pool!WorkerNext(w) \/ Pool!SpuriousWakeup \/ UNCHANGED <<pool, cancel>>
    BY WorkerUsesPool DEF SpuriousWakeup, vars
  <2> QED BY <2>1
      DEF Pool!WorkerNext, Pool!WorkerInit, Pool!WorkerInitFails, Pool!Sleep, Pool!Take, Pool!Finish, Pool!Exit,
          Pool!WorkerCancels, Pool!WorkerWakes, Pool!SpuriousWakeup, Pool!flags, pool
<1> QED BY <1>1, <1>2, <1>3 DEF Trouble, walk

LEMMA KeptMain ==
    ASSUME PoolInv, SearchType, MainInv, Batches, Kept, Flushed, MainNext, ~Trouble'
    PROVE  Kept'
<1> USE DEF Kept, SearchType
<1>0. /\ hand \in [Pool!Workers -> Pool!Jobs \cup {Pool!NoJob}] /\ place \in [Pool!Jobs -> Pool!Places]
      /\ \A f \in Files : f \in Nat
      /\ file \in Nat
  BY DEF PoolInv, Pool!TypeOK, Files
<1>1. CASE QuietMain
  <2>1. \/ UNCHANGED <<file, pending>>
        \/ file \in Files /\ pending' = pending \cup {file} /\ file' = file + 1
        \/ file' = file /\ pending = {} /\ pending' = {}
    BY <1>1 DEF QuietMain, Flushed, AfterFlush, WalkOver
  <2>2. \A f \in Files : f < file' => f \in pending' \/ \E j \in Pool!Jobs : f \in batch[j]
    BY <1>0, <2>1
  <2> QED BY <1>1, <2>2 DEF QuietMain, jobs
<1>2. CASE DetachStep
  <2>1. PICK files \in SUBSET Files :
          /\ batch' = [batch EXCEPT ![next] = files]
          /\ \/ files = pending /\ file' = file
             \/ file \in Files /\ files = pending \cup {file} /\ file' = file + 1
    BY <1>2 DEF DetachStep, Trouble
  <2>2. next \in Pool!Jobs /\ UNCHANGED <<hand, place, next, searched, left>> /\ batch[next] = {}
    <3>1. next \in Pool!Jobs /\ UNCHANGED <<hand, place, next, searched, left>> /\ main # "submit"
      BY <1>2 DEF DetachStep
    <3> QED BY <3>1, BuilderHasNew DEF Batches
  <2>3. place[next] = "builder" /\ \A w \in Pool!Workers : hand[w] # Pool!NoJob => hand[w] # next /\ hand[w] \in Pool!Jobs
    BY <2>2, BuilderHasNew
  <2>4. batch'[next] = files /\ \A j \in Pool!Jobs : j # next => batch'[j] = batch[j]
    BY <2>1, <2>2
  <2>5. \A f \in Files : f < file' => \E j \in Pool!Jobs : f \in batch'[j]
    <3> SUFFICES ASSUME NEW f \in Files, f < file' PROVE \E j \in Pool!Jobs : f \in batch'[j]
      OBVIOUS
    <3>1. CASE f \in files
      BY <2>2, <2>4, <3>1
    <3>2. CASE f \notin files
      <4>1. f < file
        BY <1>0, <2>1, <3>2
      <4>2. PICK j \in Pool!Jobs : f \in batch[j]
        BY <2>1, <3>2, <4>1
      <4> QED BY <2>2, <2>4, <4>2
    <3> QED BY <3>1, <3>2
  <2>6. \A w \in Pool!Workers : hand'[w] # Pool!NoJob =>
          \A f \in batch'[hand'[w]] : f \in left'[w] \/ searched'[f] = 1
    BY <2>2, <2>3, <2>4
  <2>7. \A j \in Pool!Jobs : place'[j] = "finished" => \A f \in batch'[j] : searched'[f] = 1
    BY <2>2, <2>3, <2>4
  <2> QED BY <2>2, <2>5, <2>6, <2>7
<1>3. CASE AcceptStep
  <2>1. /\ UNCHANGED <<batch, file, pending, hand, searched, left>> /\ next \in Pool!Jobs /\ next' = next + 1
        /\ place' = [place EXCEPT ![next] = "queued"]
    BY <1>3 DEF AcceptStep, Pool!SubmitAccepted, Pool!InSubmit, walk
  <2>2. \A j \in Pool!Jobs : j < next' => place'[j] \in {"queued", "worker", "finished"}
    BY <1>0, <2>1, BuilderHasNew
  <2>3. \A j \in Pool!Jobs : place'[j] = "finished" => place[j] = "finished"
    BY <1>0, <2>1
  <2> QED BY <2>1, <2>2, <2>3
<1>4. CASE SubmitRefused
  BY <1>4 DEF SubmitRefused, Trouble
<1>5. CASE ReclaimJobs
  <2>1. \A j \in Pool!Jobs : place[j] # "queued"
    BY <1>5 DEF ReclaimJobs, Flushed, AfterJoin
  <2>2. \A j \in Pool!Jobs : place'[j] = place[j]
    BY <1>5, <2>1, ReclaimMoves DEF ReclaimJobs
  <2>3. UNCHANGED <<batch, file, pending, hand, searched, left, next>>
    BY <1>5 DEF ReclaimJobs, Pool!Reclaim, walk, work
  <2> QED BY <2>2, <2>3
<1> QED BY <1>1, <1>2, <1>3, <1>4, <1>5, MainSteps

LEMMA KeptWorker ==
    ASSUME PoolInv, SearchType, StepInv, SearchedOnce, Kept, NEW w \in Pool!Workers,
           WorkerNext(w) \/ SpuriousWakeup \/ UNCHANGED vars, ~Trouble'
    PROVE  Kept'
<1> USE DEF SearchType
<1>0. hand \in [Pool!Workers -> Pool!Jobs \cup {Pool!NoJob}] /\ place \in [Pool!Jobs -> Pool!Places]
  BY DEF PoolInv, Pool!TypeOK
<1>1. UNCHANGED <<file, pending, batch, next>>
  BY WorkerLeaves DEF walk
<1>2. CASE UNCHANGED jobs
  BY <1>1, <1>2 DEF jobs, Kept
<1>3. CASE TakeJob(w)
  <2>1. PICK j \in Pool!Jobs : /\ j = items[head] /\ j # Pool!NoJob
                               /\ place' = [place EXCEPT ![j] = "worker"] /\ hand' = [hand EXCEPT ![w] = j]
    BY <1>3, TakeMoves DEF TakeJob
  <2>2. left' = [left EXCEPT ![w] = batch[j]] /\ UNCHANGED searched
    BY <1>3, <2>1 DEF TakeJob
  <2>3. \A k \in Pool!Jobs : place'[k] = "finished" => place[k] = "finished"
    BY <1>0, <2>1
  <2>4. \A k \in Pool!Jobs : k < next => place'[k] \in {"queued", "worker", "finished"}
    BY <1>0, <2>1 DEF Kept
  <2>5. \A v \in Pool!Workers : hand'[v] # Pool!NoJob =>
          \A f \in batch[hand'[v]] : f \in left'[v] \/ searched[f] = 1
    <3>1. \A f \in batch[hand'[w]] : f \in left'[w]
      BY <1>0, <2>1, <2>2
    <3>2. \A v \in Pool!Workers : v # w => left'[v] = left[v] /\ hand'[v] = hand[v]
      BY <1>0, <2>1, <2>2
    <3> QED BY <3>1, <3>2 DEF Kept
  <2> QED BY <1>1, <2>2, <2>3, <2>4, <2>5 DEF Kept
<1>4. CASE SearchFile(w)
  <2>1. PICK f \in left[w] : /\ left' = [left EXCEPT ![w] = left[w] \ {f}]
                             /\ searched' = [searched EXCEPT ![f] = searched[f] + 1]
    BY <1>4 DEF SearchFile
  <2>2. UNCHANGED <<hand, place>> /\ f \in Files /\ searched[f] = 0
    BY <1>4, <2>1 DEF SearchFile, pool, SearchedOnce
  <2>3. searched'[f] = 1 /\ \A g \in Files : searched[g] = 1 => searched'[g] = 1
    BY <2>1, <2>2
  <2>4. \A v \in Pool!Workers : \A g \in left[v] : g \in left'[v] \/ searched'[g] = 1
    BY <2>1, <2>3
  <2>5. \A v \in Pool!Workers : hand[v] # Pool!NoJob =>
          hand[v] \in Pool!Jobs /\ \A g \in batch[hand[v]] : g \in left'[v] \/ searched'[g] = 1
    BY <1>0, <2>3, <2>4 DEF Kept
  <2> QED BY <1>1, <2>2, <2>3, <2>5 DEF Kept
<1>5. CASE PathLost(w)
  BY <1>5 DEF PathLost, RaiseFatal, Trouble
<1>6. CASE FinishJob(w)
  <2>1. /\ hand[w] # Pool!NoJob /\ hand[w] \in Pool!Jobs
        /\ place' = [place EXCEPT ![hand[w]] = "finished"] /\ hand' = [hand EXCEPT ![w] = Pool!NoJob]
    BY <1>6, FinishMoves DEF FinishJob
  <2>2. UNCHANGED <<searched, left>> /\ left[w] = {}
    BY <1>6 DEF FinishJob, StepInv
  <2>3. \A f \in batch[hand[w]] : searched[f] = 1
    BY <2>1, <2>2 DEF Kept
  <2>4. \A k \in Pool!Jobs : k < next => place'[k] \in {"queued", "worker", "finished"}
    BY <1>0, <2>1 DEF Kept
  <2>5. \A k \in Pool!Jobs : place'[k] = "finished" => \A f \in batch[k] : searched[f] = 1
    BY <1>0, <2>1, <2>3 DEF Kept
  <2>6. \A v \in Pool!Workers : hand'[v] # Pool!NoJob => v # w /\ hand'[v] = hand[v]
    BY <1>0, <2>1
  <2> QED BY <1>1, <2>2, <2>4, <2>5, <2>6 DEF Kept
<1> QED BY <1>2, <1>3, <1>4, <1>5, <1>6, WorkerDoes

\* The join has returned: with every thread gone the queue is empty.
LEMMA JoinedEmpty ==
    ASSUME PoolInv, Pool!JoinReturns, ~failed
    PROVE  \A j \in Pool!Jobs : place[j] \notin {"queued", "worker"}
<1> USE SearchAssumption DEF PoolInv, PoolControlInv, JobsInv
<1>1. \A w \in Pool!Workers : worker[w] = "gone"
  <2> SUFFICES ASSUME NEW w \in Pool!Workers PROVE worker[w] = "gone"
    OBVIOUS
  <2>1. w < started
    BY DEF OwnerKnows, Pool!JoinReturns, Pool!Workers
  <2> QED BY <2>1 DEF Pool!JoinReturns, Pool!AllJoined, Pool!Stopped, WorkersKnow
<1>2. \A w \in Pool!Workers : hand[w] = Pool!NoJob
  BY <1>1 DEF HandsMatchState
<1>3. 0 \in Pool!Workers
  BY DEF Pool!Workers
<1>4. count = 0
  BY <1>1, <1>3 DEF WorkersKnow, Pool!JoinReturns
<1>5. \A i \in Pool!Slots : items[i] = Pool!NoJob
  BY <1>4 DEF Pool!RingConsistent, Pool!Occupied, Pool!Slots, Pool!TypeOK
<1> QED BY <1>2, <1>5, BuilderHasNew DEF Pool!SingleOwner

LEMMA FlushedMain ==
    ASSUME PoolInv, SearchType, MainInv, Flushed, MainNext, ~Trouble, ~Trouble'
    PROVE  Flushed'
<1> USE SearchAssumption DEF WalkOver, AfterFlush, AfterJoin
<1>0. ~fatal_error /\ ~Requested /\ ~failed
  BY DEF Trouble, MainInv, CancelInv
<1>1. CASE CreatePool \/ AddFails \/ PublishErrorFails \/ PublishError \/ SetFatal \/ RequestCancel \/ WakePool
           \/ AbortPool \/ SubmitRefused \/ RefusedInWalk \/ RefusedOperand
  <2>1. main' \in {"setup", "walk"}
    BY <1>0, <1>1
    DEF CreatePool, AddFails, PublishErrorFails, PublishError, SetFatal, RequestCancel, WakePool, AbortPool,
        SubmitRefused, RefusedInWalk, RefusedOperand, Trouble, MainInv, CancelInv
  <2> QED BY <2>1 DEF Flushed
<1>2. CASE FlushFirst \/ AddFile \/ PathError
  <2>1. main' = "walk" \/ (main' = "submit" /\ then' # "close")
    BY <1>2 DEF FlushFirst, AddFile, PathError, Detach, Trouble
  <2> QED BY <2>1 DEF Flushed
<1>3. CASE SubmitBatch
  <2>1. UNCHANGED <<then, file, pending>> /\ main = "submit"
    BY <1>3 DEF SubmitBatch, walk
  <2>2. main' = "submit" \/ main' = then
    BY <1>3 DEF SubmitBatch
  <2> QED BY <2>1, <2>2 DEF Flushed, MainInv, RoomInv
<1>4. CASE WalkEnds
  <2>1. file = NumFiles + 1 /\ main' = "done" /\ file' = file
    BY <1>0, <1>4 DEF WalkEnds, SearchType, Files, walk
  <2> QED BY <2>1 DEF Flushed
<1>5. CASE LastFlush
  <2>1. CASE main' = "close" /\ UNCHANGED pending /\ pending = {}
    BY <1>5, <2>1 DEF LastFlush, Flushed
  <2>2. CASE Detach(pending, "close")
    BY <1>5, <2>2 DEF LastFlush, Detach, Flushed
  <2> QED BY <1>0, <1>5, <2>1, <2>2 DEF LastFlush
<1>6. CASE ClosePool
  <2>1. PoolReady
    BY <1>0, <1>6 DEF ClosePool, PoolReady, MainInv, LifeInv
  <2>2. main' = "join" /\ main = "close" /\ UNCHANGED <<file, pending>>
    BY <1>6, <2>1 DEF ClosePool, walk
  <2> QED BY <2>2 DEF Flushed
<1>7. CASE JoinPool
  <2>1. main = "join" /\ UNCHANGED <<file, pending>>
    BY <1>7 DEF JoinPool
  <2>2. CASE main' = "join"
    BY <2>1, <2>2 DEF Flushed
  <2>3. CASE Pool!JoinReturns /\ main' = "report"
    <3>1. place' = place
      BY <2>3 DEF Pool!JoinReturns
    <3>2. \A j \in Pool!Jobs : place'[j] \notin {"queued", "worker"}
      BY <1>0, <2>3, <3>1, JoinedEmpty
    <3> QED BY <2>1, <2>3, <3>2 DEF Flushed
  <2> QED BY <1>0, <1>7, <2>1, <2>2, <2>3 DEF JoinPool
<1>8. CASE Report \/ DisposePool
  <2>1. UNCHANGED <<file, pending, place>> /\ main \in {"report", "dispose"} /\ main' \in {"dispose", "free", "reclaim"}
    BY <1>8 DEF Report, DisposePool, Pool!OwnerPublishes, Pool!DisposeJoined, pool, walk
  <2> QED BY <2>1 DEF Flushed
<1>9. CASE ReclaimJobs
  <2>1. UNCHANGED <<file, pending>> /\ main = "reclaim" /\ main' = "free"
    BY <1>9 DEF ReclaimJobs, walk
  <2>2. \A j \in Pool!Jobs : place'[j] = place[j]
    BY <1>9, <2>1, ReclaimMoves DEF ReclaimJobs, Flushed
  <2> QED BY <2>1, <2>2 DEF Flushed
<1>10. CASE FreePending
  <2>1. UNCHANGED <<file, place>> /\ main = "free" /\ main' = "end" /\ pending' = {}
    BY <1>10 DEF FreePending, pool
  <2> QED BY <2>1 DEF Flushed
<1> QED BY <1>1, <1>2, <1>3, <1>4, <1>5, <1>6, <1>7, <1>8, <1>9, <1>10 DEF MainNext

LEMMA FlushedWorker ==
    ASSUME PoolInv, Flushed, NEW w \in Pool!Workers, WorkerNext(w) \/ SpuriousWakeup \/ UNCHANGED vars
    PROVE  Flushed'
<1>0. place \in [Pool!Jobs -> Pool!Places]
  BY DEF PoolInv, Pool!TypeOK
<1>1. UNCHANGED <<main, then, file, pending>>
  BY WorkerLeaves DEF walk
<1>2. (\A j \in Pool!Jobs : place[j] \notin {"queued", "worker"})
        => \A j \in Pool!Jobs : place'[j] \notin {"queued", "worker"}
  <2> SUFFICES ASSUME \A j \in Pool!Jobs : place[j] \notin {"queued", "worker"} PROVE place' = place
    OBVIOUS
  <2>1. ~TakeJob(w)
    BY TakeMoves DEF TakeJob
  <2>2. ~FinishJob(w)
    BY FinishMoves DEF FinishJob
  <2>3. SearchFile(w) \/ PathLost(w) => place' = place
    BY DEF SearchFile, PathLost, pool
  <2> QED BY <2>1, <2>2, <2>3, WorkerDoes DEF jobs
<1> QED BY <1>1, <1>2 DEF Flushed

LEMMA NothingLostStays == SearchInv /\ [Next]_vars => NothingLost'
<1> SUFFICES ASSUME SearchInv, [Next]_vars, ~Trouble' PROVE Kept' /\ Flushed'
  BY DEF NothingLost
<1>1. CASE MainNext
  <2>1. ~Trouble
    BY <1>1, TroubleMain DEF SearchInv
  <2> QED BY <1>1, <2>1, KeptMain, FlushedMain DEF SearchInv, NothingLost
<1>2. ASSUME NEW w \in Pool!Workers, WorkerNext(w) \/ SpuriousWakeup \/ UNCHANGED vars PROVE Kept' /\ Flushed'
  <2>1. ~Trouble
    BY <1>2, TroubleWorker
  <2> QED BY <1>2, <2>1, KeptWorker, FlushedWorker DEF SearchInv, NothingLost
<1>3. 0 \in Pool!Workers
  BY SearchAssumption DEF Pool!Workers
<1> QED BY <1>1, <1>2, <1>3 DEF Next, Terminated

LEMMA ToldMain ==
    ASSUME PoolInv, SearchType, MainInv, Told, MainNext
    PROVE  Told'
<1> USE DEF Told, AfterJoin
<1>0. fatal_error => fatal_error'
  BY FatalStays DEF Next
<1>1. CASE CreatePool \/ AbortPool \/ SetFatal \/ FlushFirst \/ AddFile \/ AddFails \/ PathError \/ PublishError
           \/ PublishErrorFails \/ SubmitRefused \/ RefusedInWalk \/ RefusedOperand \/ WalkEnds \/ LastFlush
  <2>1. main' \notin AfterJoin
    BY <1>1
    DEF CreatePool, AbortPool, SetFatal, FlushFirst, AddFile, AddFails, PathError, PublishError, PublishErrorFails,
        SubmitRefused, RefusedInWalk, RefusedOperand, WalkEnds, LastFlush, Detach
  <2> QED BY <2>1
<1>2. CASE RequestCancel \/ WakePool
  <2>1. fatal_error /\ main' \notin AfterJoin \ {"report"}
    BY <1>2 DEF RequestCancel, WakePool, MainInv, CancelInv, LifeInv
  <2> QED BY <1>0, <2>1
<1>3. CASE SubmitBatch
  <2>1. main' \notin AfterJoin
    BY <1>3 DEF SubmitBatch, MainInv, RoomInv
  <2> QED BY <2>1
<1>4. CASE ClosePool
  <2>1. main' \notin AfterJoin \ {"report"}
    BY <1>4 DEF ClosePool
  <2>2. main' = "report" => fatal_error
    BY <1>4 DEF ClosePool, PoolReady, MainInv, LifeInv
  <2> QED BY <1>0, <2>1, <2>2
<1>5. CASE JoinPool
  <2>1. main' \notin AfterJoin \ {"report"}
    BY <1>5 DEF JoinPool
  <2>2. main' = "report" => failed' = failed /\ (failed => fatal_error)
    BY <1>5 DEF JoinPool, Pool!JoinReturns
  <2> QED BY <1>0, <2>1, <2>2
<1>6. CASE Report
  <2>1. failed' = failed /\ UNCHANGED <<fatal_error, walk_error>> /\ main = "report"
    BY <1>6 DEF Report, Pool!OwnerPublishes, Pool!flags, pool
  <2>2. fatal_error \/ walk_error => exit_status' = 2
    BY <1>6 DEF Report
  <2> QED BY <2>1, <2>2
<1>7. CASE DisposePool
  BY <1>7 DEF DisposePool, Pool!DisposeJoined, Pool!flags, result
<1>8. CASE ReclaimJobs
  BY <1>8 DEF ReclaimJobs, Pool!Reclaim, result
<1>9. CASE FreePending
  BY <1>9 DEF FreePending, pool, result
<1> QED BY <1>1, <1>2, <1>3, <1>4, <1>5, <1>6, <1>7, <1>8, <1>9 DEF MainNext

\* After the join no worker runs a callback.
LEMMA ToldWorker ==
    ASSUME PoolInv, StepInv, MainInv, Told, NEW w \in Pool!Workers,
           WorkerNext(w) \/ SpuriousWakeup \/ UNCHANGED vars
    PROVE  Told'
<1>1. main' = main /\ walk_error' = walk_error
  BY WorkerLeaves
<1>2. main \in AfterJoin => UNCHANGED <<failed, fatal_error, exit_status>>
  <2> SUFFICES ASSUME main \in AfterJoin PROVE UNCHANGED <<failed, fatal_error, exit_status>>
    OBVIOUS
  <2>1. joined \/ owner = "disposed"
    BY DEF MainInv, LifeInv
  <2>2. worker[w] \in {"none", "gone", "dead"}
    BY <2>1 DEF PoolInv, PoolControlInv, WorkersKnow, Pool!Stopped
  <2>3. step[w] \notin {"fatal_init", "fatal_merge", "fatal_free", "failed", "search", "merge", "free"}
    BY <2>2 DEF StepInv, Holding
  <2>4. ~WorkerNext(w)
    BY <2>2, <2>3
    DEF WorkerNext, PoolStep, WorkerInitFails, CompileFails, WorkerRequests, TakeJob, SearchFile, PathLost, LoopEnds,
        PublishFails, Publish, FinishJob, Pool!Sleep, Pool!Exit, Pool!WorkerWakes, Pool!WorkerInit,
        Pool!WorkerInitFails, Pool!Take
  <2> QED BY <2>4 DEF SpuriousWakeup, Pool!SpuriousWakeup, Pool!flags, vars, pool, result
<1> QED BY <1>1, <1>2 DEF Told, AfterJoin

LEMMA ToldStays == SearchInv /\ [Next]_vars => Told'
<1>1. 0 \in Pool!Workers
  BY SearchAssumption DEF Pool!Workers
<1> QED BY <1>1, ToldMain, ToldWorker DEF SearchInv, Next, Terminated

-----------------------------------------------------------------------------
(* The theorems. *)

\* Whatever fails, and in whatever order the workers go on, the batches, the
\* pool, the main thread and the exit status agree as SearchInv says.
THEOREM SearchInvInductive == Spec => []SearchInv
<1>1. SearchInv /\ [Next]_vars => SearchInv'
  BY PoolInvStays, TypeStays, StepStays, MainStays, BatchesStays, SearchedStays, FreedStays, NothingLostStays,
     ToldStays DEF SearchInv
<1> QED BY <1>1, SearchInvInit, PTL DEF Spec

\* rg does not exit with the status of a complete search unless every file was
\* searched once.
THEOREM ParallelSuccessIsComplete == Spec => []SuccessIsComplete
<1>1. SearchInv => SuccessIsComplete
  <2> SUFFICES ASSUME SearchInv, main = "end", exit_status # 2, NEW f \in Files
               PROVE  searched[f] = 1
    BY DEF SuccessIsComplete
  <2>1. ~Trouble
    BY DEF SearchInv, Told, AfterJoin, Trouble
  <2>2. Kept /\ Flushed
    BY <2>1 DEF SearchInv, NothingLost
  <2>3. f < file /\ pending = {}
    BY <2>2, SearchAssumption DEF Flushed, WalkOver, AfterFlush, Files
  <2>4. PICK j \in Pool!Jobs : f \in batch[j]
    BY <2>2, <2>3 DEF Kept
  <2>5. j < next
    BY <2>4 DEF SearchInv, Batches
  <2>6. place[j] = "finished"
    BY <2>2, <2>5 DEF Kept, Flushed, AfterJoin
  <2> QED BY <2>2, <2>4, <2>6 DEF Kept
<1> QED BY <1>1, SearchInvInductive, PTL

\* A batch is freed once, by whoever has it last, and never under a worker.
THEOREM BatchesFreedOnce == Spec => []BatchLifetime
<1>1. SearchInv => BatchLifetime
  <2> SUFFICES ASSUME SearchInv PROVE BatchLifetime
    OBVIOUS
  <2>0. PoolInv /\ FreedInv
    BY DEF SearchInv
  <2>1. \A j \in Pool!Jobs : freed[j] <= 1
    BY <2>0 DEF FreedInv
  <2>2. \A w \in Pool!Workers : worker[w] = "run" => freed[hand[w]] = 0
    <3> SUFFICES ASSUME NEW w \in Pool!Workers, worker[w] = "run" PROVE freed[hand[w]] = 0
      OBVIOUS
    <3>1. hand[w] # Pool!NoJob
      BY <2>0, HandsHold DEF Holding
    <3> QED BY <2>0, <3>1, BuilderHasNew DEF FreedInv
  <2>3. main = "end" => \A j \in Pool!Jobs : freed[j] = IF j < next THEN 1 ELSE 0
    <3> SUFFICES ASSUME main = "end", NEW j \in Pool!Jobs
                 PROVE  place[j] \notin {"queued", "worker"}
      BY <2>0 DEF FreedInv, PoolInv, Pool!TypeOK, Pool!Places
    <3>1. owner = "disposed"
      BY DEF SearchInv, MainInv, LifeInv
    <3>2. \A w \in Pool!Workers : hand[w] = Pool!NoJob
      BY <2>0, <3>1 DEF PoolInv, PoolControlInv, WorkersKnow, HandsMatchState, Pool!Stopped
    <3>3. \A i \in Pool!Slots : items[i] = Pool!NoJob
      BY <2>0, <3>1, SearchAssumption
      DEF PoolInv, PoolControlInv, OwnerKnows, JobsInv, Pool!RingConsistent, Pool!Occupied, Pool!Slots, Pool!TypeOK
    <3> QED BY <2>0, <3>2, <3>3, BuilderHasNew DEF PoolInv, JobsInv, Pool!SingleOwner
  <2> QED BY <2>1, <2>2, <2>3 DEF BatchLifetime
<1> QED BY <1>1, SearchInvInductive, PTL

-----------------------------------------------------------------------------
(***************************************************************************)
(* The commands of a search with one worker, RgCapture: rg tells of each   *)
(* file how the command of that file ended.  waitpid(-1) returns any child *)
(* of the process, so what has to be shown is that a lone worker never has *)
(* a child but the one in its row: every way out of bx_rg_run_capture, the *)
(* failures included, leaves none behind.  With two workers this is false, *)
(* and so is the theorem: the run rg_capture_parallel shows how.           *)
(***************************************************************************)

CaptureType ==
    /\ todo \in SUBSET Paths
    /\ pc \in [Workers -> {"off", "idle", "stdout", "stderr", "reap", "drain", "result", "fail", "faildrain"}]
    /\ path \in [Workers -> Paths \cup {NoPath}] /\ row \in [Workers -> Paths \cup {NoPath}]
    /\ called \in [Workers -> BOOLEAN] /\ status \in [Workers -> {"ok", "failed"}]
    /\ proc \in [Paths -> {"none", "runs", "closed", "zombie", "gone"}]
    /\ exit \in [Paths -> {"ok", "failed"}]
    /\ errors \in [Paths -> Nat] /\ pipe \in [Paths -> Nat]
    /\ answer \in [Paths -> {"none", "error", "ok", "failed"}]
    /\ \A w \in Workers : pc[w] \notin {"off", "idle"} => path[w] \in Paths

\* All other workers of the search are off.
Lone(w) == pc[w] # "off" /\ \A v \in Workers : v # w => pc[v] = "off"

\* The children of the process are the one in the worker's row.
OnlyChild(w) == Children = {row[w]} \ {NoPath}

\* Where the worker is with its child.
Position(w) ==
    /\ pc[w] # "drain"
    /\ pc[w] \in {"stdout", "stderr", "reap"} => row[w] = path[w] /\ path[w] \in Paths
    /\ pc[w] \in {"fail", "faildrain"} => path[w] \in Paths /\ row[w] \in {path[w], NoPath}
    /\ pc[w] = "faildrain" => row[w] = NoPath
    /\ pc[w] \in {"result", "idle"} => row[w] = NoPath
    /\ pc[w] = "result" => path[w] \in Paths /\ called[w] /\ status[w] = exit[path[w]]

CaptureInv ==
    /\ CaptureType
    /\ \A w \in Workers : Lone(w) => OnlyChild(w) /\ Position(w) /\ OwnStatus

-----------------------------------------------------------------------------

LEMMA CaptureInvInit == CaptureInit => CaptureInv
<1> SUFFICES ASSUME CaptureInit PROVE CaptureInv
  OBVIOUS
<1>1. PICK team \in SUBSET Workers : pc = [w \in Workers |-> IF w \in team THEN "idle" ELSE "off"]
  BY DEF CaptureInit
<1>2. \A n \in 0 .. MaxErrors : n \in Nat
  BY CaptureAssumption
<1>3. CaptureType
  BY <1>1, <1>2, CaptureAssumption DEF CaptureInit, CaptureType
<1>4. \A w \in Workers : OnlyChild(w) /\ Position(w)
  BY <1>1 DEF CaptureInit, OnlyChild, Position, Children
<1>5. OwnStatus
  BY DEF CaptureInit, OwnStatus
<1> QED BY <1>3, <1>4, <1>5 DEF CaptureInv

\* Nobody is switched on or off.
LEMMA TeamIsFixed ==
    ASSUME CaptureType, NEW w \in Workers, Work(w) \/ SpawnFails(w) \/ ReadFails(w)
    PROVE  /\ pc[w] # "off" /\ pc'[w] # "off"
           /\ \A v \in Workers : v # w => pc'[v] = pc[v]
BY DEF CaptureType, Work, Spawn, SpawnFails, StdoutEnds, ReadFails, ReadStderr, ReapTakes, ReapNothing, Finish, FailTakes,
   Fail, FailEnds, Goto, capture

LEMMA CaptureTypeWorker ==
    ASSUME CaptureType, NEW w \in Workers, Work(w) \/ SpawnFails(w) \/ ReadFails(w)
    PROVE  CaptureType'
<1>1. CASE Spawn(w)
  BY <1>1 DEF Spawn, CaptureType, Goto
<1>2. CASE SpawnFails(w)
  BY <1>2 DEF SpawnFails, CaptureType, capture, command
<1>3. CASE StdoutEnds(w)
  BY <1>3 DEF StdoutEnds, CaptureType, Goto, command
<1>4. CASE ReadFails(w)
  BY <1>4 DEF ReadFails, CaptureType, Goto
<1>5. CASE ReadStderr(w)
  BY <1>5 DEF ReadStderr, CaptureType, Goto
<1>6. CASE ReapTakes(w)
  BY <1>6 DEF ReapTakes, CaptureType, Goto, Zombies
<1>7. CASE ReapNothing(w)
  BY <1>7 DEF ReapNothing, CaptureType, Goto, command
<1>8. CASE Finish(w)
  BY <1>8 DEF Finish, CaptureType, Goto, command
<1>9. CASE FailTakes(w)
  BY <1>9 DEF FailTakes, CaptureType, Goto, Zombies
<1>10. CASE Fail(w)
  BY <1>10 DEF Fail, CaptureType, Goto, command
<1> QED BY <1>1, <1>2, <1>3, <1>4, <1>5, <1>6, <1>7, <1>8, <1>9, <1>10 DEF Work

LEMMA CaptureTypeCommand ==
    ASSUME CaptureType, NEW f \in Paths, Command(f)
    PROVE  CaptureType'
<1>1. CASE WriteError(f)
  <2>1. errors[f] - 1 \in Nat /\ pipe[f] + 1 \in Nat
    BY <1>1 DEF WriteError, CaptureType
  <2> QED BY <1>1, <2>1 DEF WriteError, CaptureType, capture
<1>2. CASE Closes(f) \/ Ends(f)
  BY <1>2 DEF Closes, Ends, CaptureType, capture
<1> QED BY <1>1, <1>2 DEF Command

\* What a command does leaves the worker where it is, and the set of children
\* what it was.
LEMMA CommandKeeps ==
    ASSUME CaptureType, NEW f \in Paths, Command(f), NEW w \in Workers, OnlyChild(w), Position(w), OwnStatus
    PROVE  OnlyChild(w)' /\ Position(w)' /\ OwnStatus'
<1>1. UNCHANGED <<pc, path, row, called, status, exit, answer>>
  BY DEF Command, WriteError, Closes, Ends, capture
<1>2. Children' = Children
  BY DEF Command, WriteError, Closes, Ends, Children, CaptureType
<1> QED BY <1>1, <1>2 DEF OnlyChild, Position, OwnStatus

\* A lone worker leaves no child behind, and passes on the status of the file's
\* own command.
LEMMA LoneWorker ==
    ASSUME CaptureType, NEW w \in Workers, Work(w) \/ SpawnFails(w) \/ ReadFails(w),
           OnlyChild(w), Position(w), OwnStatus
    PROVE  OnlyChild(w)' /\ Position(w)' /\ OwnStatus'
<1> USE CaptureAssumption DEF CaptureType, Goto
<1>1. CASE Spawn(w)
  <2>1. PICK f \in todo : /\ path' = [path EXCEPT ![w] = f] /\ row' = [row EXCEPT ![w] = f]
                          /\ proc' = [proc EXCEPT ![f] = "runs"]
    BY <1>1 DEF Spawn
  <2>2. pc[w] = "idle" /\ pc'[w] = "stdout" /\ row'[w] = f /\ path'[w] = f /\ f \in Paths /\ row[w] = NoPath
        /\ UNCHANGED <<exit, answer>>
    BY <1>1, <2>1 DEF Spawn, Position
  <2>3. Children' = Children \cup {f}
    BY <2>1, <2>2 DEF Children
  <2>4. OnlyChild(w)'
    BY <2>2, <2>3 DEF OnlyChild
  <2> QED BY <2>2, <2>4 DEF Position, OwnStatus
<1>2. CASE SpawnFails(w)
  BY <1>2 DEF SpawnFails, capture, command, OnlyChild, Children, Position, OwnStatus
<1>3. CASE StdoutEnds(w)
  BY <1>3 DEF StdoutEnds, command, OnlyChild, Children, Position, OwnStatus
<1>4. CASE ReadFails(w)
  BY <1>4 DEF ReadFails, OnlyChild, Children, Position, OwnStatus
<1>5. CASE ReadStderr(w)
  BY <1>5 DEF ReadStderr, OnlyChild, Children, Position, OwnStatus
<1>6. CASE ReapTakes(w)
  <2>1. PICK f \in Zombies : /\ proc' = [proc EXCEPT ![f] = "gone"]
                             /\ row' = [row EXCEPT ![w] = IF row[w] = f THEN NoPath ELSE row[w]]
                             /\ called' = [called EXCEPT ![w] = TRUE]
                             /\ status' = [status EXCEPT ![w] = exit[f]]
                             /\ pc' = [pc EXCEPT ![w] = IF row[w] = f THEN "result" ELSE "drain"]
    BY <1>6 DEF ReapTakes
  <2>2. f \in Paths /\ f \in Children
    BY DEF Zombies, Children
  <2>3. row[w] = f /\ path[w] = f /\ UNCHANGED <<path, exit, answer>>
    BY <1>6, <2>2 DEF ReapTakes, OnlyChild, Position
  <2>4. Children' = Children \ {f}
    BY <2>1, <2>2 DEF Children
  <2>5. row'[w] = NoPath /\ called'[w] /\ status'[w] = exit[f] /\ pc'[w] = "result"
    BY <2>1, <2>3
  <2>6. OnlyChild(w)'
    BY <2>3, <2>4, <2>5 DEF OnlyChild
  <2> QED BY <2>2, <2>3, <2>5, <2>6 DEF Position, OwnStatus
<1>7. CASE ReapNothing(w)
  <2>1. pc[w] = "reap" /\ Children = {}
    BY <1>7 DEF ReapNothing, Position
  <2>2. row[w] \in Paths
    BY <2>1 DEF Position
  <2>3. Children = {row[w]}
    BY <2>2 DEF OnlyChild
  <2> QED BY <2>1, <2>3
<1>8. CASE Finish(w)
  <2>1. pc[w] = "result" /\ called[w] /\ path[w] \in Paths /\ row[w] = NoPath /\ status[w] = exit[path[w]]
    BY <1>8 DEF Finish, Position
  <2>2. /\ answer' = [answer EXCEPT ![path[w]] = exit[path[w]]]
        /\ row'[w] = NoPath /\ pc'[w] = "idle" /\ UNCHANGED <<proc, exit>>
    BY <1>8, <2>1 DEF Finish, command
  <2>3. OwnStatus'
    BY <2>1, <2>2 DEF OwnStatus
  <2>4. OnlyChild(w)'
    BY <2>1, <2>2 DEF OnlyChild, Children
  <2> QED BY <2>2, <2>3, <2>4 DEF Position
<1>9. CASE FailTakes(w)
  <2>1. PICK f \in Zombies : /\ proc' = [proc EXCEPT ![f] = "gone"]
                             /\ row' = [row EXCEPT ![w] = IF row[w] = f THEN NoPath ELSE row[w]]
    BY <1>9 DEF FailTakes
  <2>2. f \in Paths /\ f \in Children
    BY DEF Zombies, Children
  <2>3. row[w] = f /\ path[w] = f /\ pc'[w] = "faildrain" /\ UNCHANGED <<path, exit, answer>>
    BY <1>9, <2>2 DEF FailTakes, OnlyChild, Position
  <2>4. Children' = Children \ {f}
    BY <2>1, <2>2 DEF Children
  <2>5. row'[w] = NoPath
    BY <2>1, <2>3
  <2>6. OnlyChild(w)'
    BY <2>3, <2>4, <2>5 DEF OnlyChild
  <2> QED BY <2>2, <2>3, <2>5, <2>6 DEF Position, OwnStatus
<1>10. CASE Fail(w)
  <2>1. pc[w] \in {"fail", "faildrain"} /\ path[w] \in Paths
    BY <1>10 DEF Fail, FailEnds, Position
  <2>2. Children = {}
    BY <1>10 DEF Fail, FailEnds, OnlyChild, Position
  <2>3. /\ row'[w] = NoPath /\ pc'[w] = "idle" /\ UNCHANGED <<proc, exit>>
        /\ answer' = [answer EXCEPT ![path[w]] = "error"]
    BY <1>10, <2>1 DEF Fail, command
  <2>4. OwnStatus'
    BY <2>1, <2>3 DEF OwnStatus
  <2>5. OnlyChild(w)'
    BY <2>2, <2>3 DEF OnlyChild, Children
  <2> QED BY <2>3, <2>4, <2>5 DEF Position
<1> QED BY <1>1, <1>2, <1>3, <1>4, <1>5, <1>6, <1>7, <1>8, <1>9, <1>10 DEF Work

\* No step of a worker or of a command leaves the invariant.
THEOREM CaptureInvInductive == CaptureSpec => []CaptureInv
<1>1. CaptureInv /\ [CaptureNext]_captureVars => CaptureInv'
  <2> SUFFICES ASSUME CaptureInv, [CaptureNext]_captureVars PROVE CaptureInv'
    OBVIOUS
  <2>0. CaptureType
    BY DEF CaptureInv
  <2>1. ASSUME NEW u \in Workers, Work(u) \/ SpawnFails(u) \/ ReadFails(u) PROVE CaptureInv'
    <3>1. CaptureType'
      BY <2>0, <2>1, CaptureTypeWorker
    <3>2. pc[u] # "off" /\ \A v \in Workers : v # u => pc'[v] = pc[v]
      BY <2>0, <2>1, TeamIsFixed
    <3>3. ASSUME NEW w \in Workers, Lone(w)' PROVE OnlyChild(w)' /\ Position(w)' /\ OwnStatus'
      <4>1. u = w /\ Lone(w)
        BY <2>0, <2>1, <3>2, <3>3, TeamIsFixed DEF Lone
      <4> QED BY <2>0, <2>1, <4>1, LoneWorker DEF CaptureInv
    <3> QED BY <3>1, <3>3 DEF CaptureInv
  <2>2. ASSUME NEW f \in Paths, Command(f) PROVE CaptureInv'
    <3>1. CaptureType' /\ pc' = pc
      BY <2>0, <2>2, CaptureTypeCommand DEF Command, WriteError, Closes, Ends, capture
    <3>2. \A w \in Workers : Lone(w)' <=> Lone(w)
      BY <3>1 DEF Lone
    <3> QED BY <2>0, <2>2, <3>1, <3>2, CommandKeeps DEF CaptureInv
  <2>3. CASE UNCHANGED captureVars
    <3>1. CaptureType'
      BY <2>0, <2>3 DEF captureVars, capture, command, CaptureType
    <3> QED BY <2>3, <3>1 DEF captureVars, capture, command, CaptureInv, Lone, OnlyChild, Children, Position, OwnStatus
  <2> QED BY <2>1, <2>2, <2>3 DEF CaptureNext
<1> QED BY <1>1, CaptureInvInit, PTL DEF CaptureSpec

\* A search with a single worker reports of each file what the file's own
\* command ended with: whatever number of files, and whatever fails.
THEOREM LoneWorkerOwnStatus == CaptureSpec => []OwnStatusAlone
<1>1. CaptureInv => OwnStatusAlone
  <2> SUFFICES ASSUME CaptureInv, Cardinality({v \in Workers : pc[v] # "off"}) = 1 PROVE OwnStatus
    BY DEF OwnStatusAlone
  <2>1. IsFiniteSet({v \in Workers : pc[v] # "off"})
    BY CaptureAssumption, FS_Subset
  <2>2. PICK w : {v \in Workers : pc[v] # "off"} = {w}
    BY <2>1, FS_Singleton
  <2>3. w \in Workers /\ Lone(w)
    BY <2>2 DEF Lone
  <2> QED BY <2>3 DEF CaptureInv
<1> QED BY <1>1, CaptureInvInductive, PTL

=============================================================================
