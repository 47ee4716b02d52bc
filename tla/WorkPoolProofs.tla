--------------------------- MODULE WorkPoolProofs ---------------------------
(***************************************************************************)
(* Proofs about WorkPool, for every number of threads, slots and jobs.     *)
(***************************************************************************)
EXTENDS WorkPool, FiniteSetTheorems, TLAPS

\* The ring index wraps to 0 after the last slot.
LEMMA NextSlotWraps ==
    ASSUME NEW i \in Slots
    PROVE  /\ NextSlot(i) = IF i + 1 = QueueCapacity THEN 0 ELSE i + 1
           /\ NextSlot(i) \in Slots
<1>1. QueueCapacity \in Nat \ {0}
  BY PoolAssumption
<1>2. i \in Nat /\ i < QueueCapacity
  BY <1>1 DEF Slots
<1>3. CASE i + 1 = QueueCapacity
  <2>1. QueueCapacity % QueueCapacity = 0
    BY <1>1
  <2> QED BY <1>1, <1>2, <1>3, <2>1 DEF NextSlot, Slots
<1>4. CASE i + 1 # QueueCapacity
  <2>1. i + 1 \in 0 .. QueueCapacity - 1
    BY <1>1, <1>2, <1>4
  <2>2. (i + 1) % QueueCapacity = i + 1
    BY <1>1, <2>1
  <2> QED BY <2>1, <2>2, <1>4 DEF NextSlot, Slots
<1> QED BY <1>3, <1>4

\* A broadcast keeps the type of the workers' states and leaves none asleep.
LEMMA WakeWorkersEffect ==
    ASSUME worker \in [Workers -> WorkerStates]
    PROVE  /\ WakeWorkers \in [Workers -> WorkerStates]
           /\ \A w \in Workers : WakeWorkers[w] # "wait"
           /\ \A w \in Workers : worker[w] # "wait" => WakeWorkers[w] = worker[w]
           /\ \A w \in Workers : worker[w] = "wait" => WakeWorkers[w] = "loop"
BY DEF WakeWorkers, WorkerStates

-----------------------------------------------------------------------------

LEMMA FirstSlot == 0 \in Slots
BY PoolAssumption DEF Slots

LEMMA TypeInit == Init => TypeOK
<1> SUFFICES ASSUME Init PROVE TypeOK
  OBVIOUS
<1> USE PoolAssumption DEF Init
<1>1. items \in [Slots -> Jobs \cup {NoJob}] /\ hand \in [Workers -> Jobs \cup {NoJob}]
  OBVIOUS
<1>2. head \in Slots /\ tail \in Slots
  BY FirstSlot
<1>3. count \in 0 .. QueueCapacity /\ started \in 0 .. NumThreads /\ next \in 1 .. NumJobs + 1
  OBVIOUS
<1>4. worker \in [Workers -> WorkerStates] /\ place \in [Jobs -> Places]
  BY DEF WorkerStates, Places
<1>5. owner \in OwnerStates /\ cancel \in SUBSET Phases
  BY DEF OwnerStates
<1> QED BY <1>1, <1>2, <1>3, <1>4, <1>5 DEF TypeOK

\* Steps of the owner keep the types.
LEMMA TypeOwner == TypeOK /\ OwnerNext => TypeOK'
<1> SUFFICES ASSUME TypeOK, OwnerNext PROVE TypeOK'
  OBVIOUS
<1> USE PoolAssumption
<1>1. CASE InitAllocFails
  BY <1>1 DEF TypeOK, InitAllocFails, ring, flags, OwnerStates
<1>2. CASE CreateThread
  BY <1>2 DEF TypeOK, CreateThread, ring, OwnerStates, Workers, WorkerStates
<1>3. CASE CreateThreadFails
  BY <1>3, WakeWorkersEffect DEF TypeOK, CreateThreadFails, ring, OwnerStates
<1>4. CASE SubmitWaits
  BY <1>4 DEF TypeOK, SubmitWaits, ring, flags, OwnerStates
<1>5. CASE SubmitRefused
  BY <1>5 DEF TypeOK, SubmitRefused, InSubmit, Jobs, ring, flags, OwnerStates, Phases
<1>6. CASE SubmitAccepted
  <2>1. next \in Jobs /\ tail \in Slots
    BY <1>6 DEF SubmitAccepted, InSubmit, TypeOK
  <2>2. items' \in [Slots -> Jobs \cup {NoJob}] /\ tail' \in Slots
    BY <1>6, <2>1, NextSlotWraps DEF SubmitAccepted, TypeOK
  <2>3. count' \in 0 .. QueueCapacity
    BY <1>6 DEF SubmitAccepted, TypeOK
  <2>4. worker' \in [Workers -> WorkerStates]
    BY <1>6 DEF SubmitAccepted, TypeOK, Waiting, WorkerStates
  <2>5. place' \in [Jobs -> Places] /\ next' \in 1 .. NumJobs + 1
    BY <1>6, <2>1 DEF SubmitAccepted, TypeOK, Places, Jobs
  <2> QED BY <1>6, <2>2, <2>3, <2>4, <2>5
      DEF SubmitAccepted, TypeOK, flags, OwnerStates
<1>7. CASE OwnerCancels \/ OwnerPublishes
  BY <1>7 DEF TypeOK, OwnerCancels, OwnerPublishes, ring, flags, OwnerStates, Phases
<1>8. CASE OwnerWakes
  BY <1>8, WakeWorkersEffect DEF TypeOK, OwnerWakes, ring, flags, OwnerStates
<1>9. CASE Close
  BY <1>9, WakeWorkersEffect DEF TypeOK, Close, CloseEffect, ring, Phases
<1>10. CASE Join
  BY <1>10 DEF TypeOK, Join, ring, flags, OwnerStates
<1>11. CASE Dispose
  BY <1>11, WakeWorkersEffect DEF TypeOK, Dispose, CloseEffect, ring, Phases, OwnerStates
<1>12. CASE DisposeJoined
  BY <1>12 DEF TypeOK, DisposeJoined, ring, flags, OwnerStates
<1>13. CASE JoinReturns
  <2>1. cancel' \in SUBSET Phases
    BY <1>13 DEF TypeOK, JoinReturns, Phases
  <2> QED BY <1>13, <2>1 DEF TypeOK, JoinReturns, ring, OwnerStates
<1>14. CASE Reclaim
  <2>1. head' \in Slots /\ tail' \in Slots /\ count' \in 0 .. QueueCapacity
        /\ started' \in 0 .. NumThreads
    BY <1>14, FirstSlot DEF Reclaim
  <2>2. place' \in [Jobs -> Places]
    BY <1>14 DEF Reclaim, TypeOK, Places
  <2>3. items' \in [Slots -> Jobs \cup {NoJob}] /\ owner' \in OwnerStates
    BY <1>14 DEF Reclaim, OwnerStates
  <2> QED BY <1>14, <2>1, <2>2, <2>3 DEF TypeOK, Reclaim
<1> QED BY <1>1, <1>2, <1>3, <1>4, <1>5, <1>6, <1>7, <1>8, <1>9, <1>10,
           <1>11, <1>12, <1>13, <1>14 DEF OwnerNext

\* Steps of a worker keep the types.
LEMMA TypeWorker == TypeOK /\ (\E w \in Workers : WorkerNext(w)) => TypeOK'
<1> SUFFICES ASSUME TypeOK, NEW w \in Workers, WorkerNext(w) PROVE TypeOK'
  OBVIOUS
<1> USE PoolAssumption
<1>1. CASE WorkerInit(w)
  BY <1>1 DEF TypeOK, WorkerInit, ring, flags, WorkerStates
<1>2. CASE WorkerInitFails(w)
  BY <1>2, WakeWorkersEffect
  DEF TypeOK, WorkerInitFails, WakeOwner, ring, WorkerStates, OwnerStates
<1>3. CASE Sleep(w)
  BY <1>3 DEF TypeOK, Sleep, ring, flags, WorkerStates
<1>4. CASE Take(w)
  <2>1. head' \in Slots
    BY <1>4, NextSlotWraps DEF Take, TypeOK
  <2>2. items' \in [Slots -> Jobs \cup {NoJob}] /\ hand' \in [Workers -> Jobs \cup {NoJob}]
    BY <1>4 DEF Take, TypeOK
  <2>3. count' \in 0 .. QueueCapacity
    BY <1>4 DEF Take, TypeOK
  <2>4. place' \in [Jobs -> Places]
    BY <1>4 DEF Take, TypeOK, Places
  <2> QED BY <1>4, <2>1, <2>2, <2>3, <2>4
      DEF Take, TypeOK, WakeOwner, flags, WorkerStates, OwnerStates
<1>5. CASE Finish(w)
  BY <1>5 DEF TypeOK, Finish, ring, flags, WorkerStates, Places
<1>6. CASE Exit(w)
  BY <1>6 DEF TypeOK, Exit, ring, flags, WorkerStates
<1>7. CASE WorkerCancels(w)
  BY <1>7 DEF TypeOK, WorkerCancels, ring, flags, WorkerStates, Phases
<1>8. CASE WorkerWakes(w)
  BY <1>8, WakeWorkersEffect
  DEF TypeOK, WorkerWakes, WakeOwner, ring, flags, WorkerStates, OwnerStates
<1> QED BY <1>1, <1>2, <1>3, <1>4, <1>5, <1>6, <1>7, <1>8 DEF WorkerNext

LEMMA TypeSpurious == TypeOK /\ SpuriousWakeup => TypeOK'
BY DEF TypeOK, SpuriousWakeup, Waiting, ring, flags, WorkerStates, OwnerStates

\* Every reachable state of the pool is well typed: in particular head, tail
\* and count stay inside the ring whatever threads, slots and jobs there are.
THEOREM PoolTypeCorrect == Spec => []TypeOK
<1>1. TypeOK /\ [Next]_vars => TypeOK'
  <2>1. TypeOK /\ UNCHANGED vars => TypeOK'
    BY DEF TypeOK, vars, ring, flags
  <2> QED BY <2>1, TypeOwner, TypeWorker, TypeSpurious DEF Next, Terminated
<1> QED BY <1>1, TypeInit, PTL DEF Spec

-----------------------------------------------------------------------------
(***************************************************************************)
(* Control: which threads exist and what the owner knows where it is.      *)
(***************************************************************************)

\* A worker holds a job exactly while process_job runs.
HandsMatchState ==
    \A w \in Workers : hand[w] # NoJob <=> worker[w] \in {"run", "waking"}

\* What holds of the threads and flags at each point of the owner's calls.
OwnerKnows ==
    /\ owner = "create" => started < NumThreads /\ ~closed /\ ~joined
    /\ owner \in {"ready", "retry", "asleep", "waking", "join", "dispose"}
         => started = NumThreads
    /\ owner \in {"join", "abort", "dispose", "reclaim"} => closed
    /\ owner = "abort" => failed
    /\ owner = "reclaim" => joined /\ (failed \/ started = NumThreads)
    /\ joined => closed /\ owner \in {"ready", "waking", "reclaim"}
    /\ owner = "disposed" => ~joined /\ ~closed

\* What holds of each worker; "gone" is final and needs a closed, empty queue.
WorkersKnow ==
    /\ closed => \A w \in Workers : worker[w] # "wait"
    /\ joined \/ owner = "disposed" => \A w \in Workers : Stopped(w)
    /\ owner # "disposed" =>
         \A w \in Workers :
           /\ w < started <=> worker[w] # "none"
           /\ worker[w] = "gone" => closed /\ count = 0
           /\ worker[w] = "dead" => failed

ControlInv ==
    /\ HandsMatchState
    /\ OwnerKnows
    /\ WorkersKnow
    /\ OwnerSleepsOnlyWhenFull

LEMMA ControlInit == Init => ControlInv
BY PoolAssumption
DEF Init, ControlInv, HandsMatchState, OwnerKnows, WorkersKnow, Stopped, Workers,
    OwnerSleepsOnlyWhenFull

LEMMA ControlOwner == TypeOK /\ ControlInv /\ OwnerNext => ControlInv'
<1> SUFFICES ASSUME TypeOK, ControlInv, OwnerNext PROVE ControlInv'
  OBVIOUS
<1> USE PoolAssumption DEF ControlInv
<1>1. CASE InitAllocFails
  <2>1. \A w \in Workers : worker[w] = "none"
    BY <1>1 DEF InitAllocFails, WorkersKnow, Workers, TypeOK
  <2> QED BY <1>1, <2>1
      DEF InitAllocFails, HandsMatchState, OwnerKnows, WorkersKnow, Stopped,
          OwnerSleepsOnlyWhenFull, ring, flags
<1>2. CASE CreateThread
  <2> USE <1>2 DEF CreateThread, ring
  <2>1. worker[started] = "none"
    BY DEF WorkersKnow, Workers, TypeOK
  <2>2. HandsMatchState'
    BY <2>1 DEF HandsMatchState, TypeOK, Workers
  <2>3. OwnerKnows'
    BY DEF OwnerKnows, TypeOK
  <2>4. WorkersKnow'
    BY <2>1 DEF OwnerKnows, WorkersKnow, Stopped, TypeOK, Workers
  <2> QED BY <2>2, <2>3, <2>4 DEF OwnerSleepsOnlyWhenFull
<1>3. CASE CreateThreadFails
  <2> USE <1>3, WakeWorkersEffect DEF CreateThreadFails, ring, TypeOK
  <2>1. HandsMatchState'
    BY DEF HandsMatchState
  <2>2. OwnerKnows'
    BY DEF OwnerKnows
  <2>3. WorkersKnow'
    BY DEF OwnerKnows, WorkersKnow, Stopped
  <2> QED BY <2>1, <2>2, <2>3 DEF OwnerSleepsOnlyWhenFull
<1>4. CASE SubmitWaits
  BY <1>4 DEF SubmitWaits, InSubmit, HandsMatchState, OwnerKnows, WorkersKnow, Stopped,
              OwnerSleepsOnlyWhenFull, ring, flags
<1>5. CASE SubmitRefused
  BY <1>5 DEF SubmitRefused, InSubmit, HandsMatchState, OwnerKnows, WorkersKnow, Stopped,
              OwnerSleepsOnlyWhenFull, ring, flags
<1>6. CASE SubmitAccepted
  <2> USE <1>6 DEF SubmitAccepted, Accepts, InSubmit, Waiting, flags, TypeOK
  <2>1. HandsMatchState'
    BY DEF HandsMatchState
  <2>2. OwnerKnows'
    BY DEF OwnerKnows
  <2>3. WorkersKnow'
    BY DEF WorkersKnow, OwnerKnows, Stopped
  <2> QED BY <2>1, <2>2, <2>3 DEF OwnerSleepsOnlyWhenFull
<1>7. CASE OwnerCancels \/ OwnerPublishes
  BY <1>7 DEF OwnerCancels, OwnerPublishes, HandsMatchState, OwnerKnows, WorkersKnow, Stopped,
              OwnerSleepsOnlyWhenFull, ring, flags
<1>8. CASE OwnerWakes
  <2> USE <1>8, WakeWorkersEffect DEF OwnerWakes, ring, flags, TypeOK
  <2>1. HandsMatchState'
    BY DEF HandsMatchState
  <2>2. OwnerKnows' /\ WorkersKnow'
    BY DEF OwnerKnows, WorkersKnow, Stopped
  <2> QED BY <2>1, <2>2 DEF OwnerSleepsOnlyWhenFull
<1>9. CASE Close
  <2> USE <1>9, WakeWorkersEffect DEF Close, CloseEffect, ring, TypeOK
  <2>1. HandsMatchState'
    BY DEF HandsMatchState
  <2>2. OwnerKnows' /\ WorkersKnow'
    BY DEF OwnerKnows, WorkersKnow, Stopped
  <2> QED BY <2>1, <2>2 DEF OwnerSleepsOnlyWhenFull
<1>10. CASE Join
  BY <1>10 DEF Join, HandsMatchState, OwnerKnows, WorkersKnow, Stopped,
               OwnerSleepsOnlyWhenFull, ring, flags
<1>11. CASE Dispose
  <2> USE <1>11, WakeWorkersEffect DEF Dispose, CloseEffect, ring, TypeOK
  <2>1. HandsMatchState'
    BY DEF HandsMatchState
  <2>2. OwnerKnows' /\ WorkersKnow'
    BY DEF OwnerKnows, WorkersKnow, Stopped
  <2> QED BY <2>1, <2>2 DEF OwnerSleepsOnlyWhenFull
<1>12. CASE DisposeJoined
  BY <1>12 DEF DisposeJoined, HandsMatchState, OwnerKnows, WorkersKnow, Stopped,
               OwnerSleepsOnlyWhenFull, ring, flags
<1>13. CASE JoinReturns
  <2> USE <1>13 DEF JoinReturns, ring, TypeOK
  <2>1. \A w \in Workers : Stopped(w)
    BY DEF AllJoined, WorkersKnow, Stopped
  <2>2. OwnerKnows'
    BY DEF OwnerKnows
  <2>3. HandsMatchState' /\ WorkersKnow'
    BY <2>1 DEF HandsMatchState, WorkersKnow, Stopped
  <2> QED BY <2>2, <2>3 DEF OwnerSleepsOnlyWhenFull
<1>14. CASE Reclaim
  BY <1>14 DEF Reclaim, HandsMatchState, OwnerKnows, WorkersKnow, Stopped,
               OwnerSleepsOnlyWhenFull
<1> QED BY <1>1, <1>2, <1>3, <1>4, <1>5, <1>6, <1>7, <1>8, <1>9, <1>10,
           <1>11, <1>12, <1>13, <1>14 DEF OwnerNext

\* The oldest job is in slot head.
LEMMA HeadHoldsJob ==
    ASSUME TypeOK, RingConsistent, count > 0
    PROVE  items[head] \in Jobs
BY PoolAssumption DEF TypeOK, RingConsistent, Occupied, Slots, Jobs, NoJob

LEMMA ControlWorker ==
    TypeOK /\ RingConsistent /\ ControlInv /\ (\E w \in Workers : WorkerNext(w)) => ControlInv'
<1> SUFFICES ASSUME TypeOK, RingConsistent, ControlInv, NEW w \in Workers, WorkerNext(w)
             PROVE  ControlInv'
  OBVIOUS
<1> USE PoolAssumption DEF ControlInv
<1>1. CASE WorkerInit(w)
  <2> USE <1>1 DEF WorkerInit, ring, flags, TypeOK
  <2>1. HandsMatchState' /\ OwnerKnows' /\ OwnerSleepsOnlyWhenFull'
    BY DEF HandsMatchState, OwnerKnows, OwnerSleepsOnlyWhenFull
  <2>2. WorkersKnow'
    BY DEF WorkersKnow, Stopped
  <2> QED BY <2>1, <2>2
<1>2. CASE WorkerInitFails(w)
  <2> USE <1>2, WakeWorkersEffect DEF WorkerInitFails, WakeOwner, ring, TypeOK
  <2>1. HandsMatchState' /\ OwnerKnows' /\ OwnerSleepsOnlyWhenFull'
    BY DEF HandsMatchState, OwnerKnows, OwnerSleepsOnlyWhenFull
  <2>2. WorkersKnow'
    BY DEF WorkersKnow, Stopped
  <2> QED BY <2>1, <2>2
<1>3. CASE Sleep(w)
  <2> USE <1>3 DEF Sleep, ring, flags, TypeOK
  <2>1. HandsMatchState' /\ OwnerKnows' /\ OwnerSleepsOnlyWhenFull'
    BY DEF HandsMatchState, OwnerKnows, OwnerSleepsOnlyWhenFull
  <2>2. WorkersKnow'
    BY DEF WorkersKnow, Stopped
  <2> QED BY <2>1, <2>2
<1>4. CASE Take(w)
  <2> USE <1>4 DEF Take, WakeOwner, flags, TypeOK
  <2>1. items[head] \in Jobs
    BY HeadHoldsJob
  <2>2. items[head] # NoJob
    BY <2>1 DEF Jobs, NoJob
  <2>3. HandsMatchState' /\ OwnerKnows'
    BY <2>2 DEF HandsMatchState, OwnerKnows
  <2>4. WorkersKnow'
    BY DEF WorkersKnow, Stopped
  <2> QED BY <2>3, <2>4 DEF OwnerSleepsOnlyWhenFull
<1>5. CASE Finish(w)
  <2> USE <1>5 DEF Finish, ring, flags, TypeOK
  <2>1. HandsMatchState' /\ OwnerKnows' /\ OwnerSleepsOnlyWhenFull'
    BY DEF HandsMatchState, OwnerKnows, OwnerSleepsOnlyWhenFull
  <2>2. WorkersKnow'
    BY DEF WorkersKnow, Stopped
  <2> QED BY <2>1, <2>2
<1>6. CASE Exit(w)
  <2> USE <1>6 DEF Exit, ring, flags, TypeOK
  <2>1. HandsMatchState' /\ OwnerKnows' /\ OwnerSleepsOnlyWhenFull'
    BY DEF HandsMatchState, OwnerKnows, OwnerSleepsOnlyWhenFull
  <2>2. WorkersKnow'
    BY DEF WorkersKnow, Stopped
  <2> QED BY <2>1, <2>2
<1>7. CASE WorkerCancels(w)
  <2> USE <1>7 DEF WorkerCancels, ring, flags, TypeOK
  <2>1. HandsMatchState' /\ OwnerKnows' /\ OwnerSleepsOnlyWhenFull'
    BY DEF HandsMatchState, OwnerKnows, OwnerSleepsOnlyWhenFull
  <2>2. WorkersKnow'
    BY DEF WorkersKnow, Stopped
  <2> QED BY <2>1, <2>2
<1>8. CASE WorkerWakes(w)
  <2> USE <1>8, WakeWorkersEffect DEF WorkerWakes, WakeOwner, ring, flags, TypeOK
  <2>1. HandsMatchState' /\ OwnerKnows' /\ OwnerSleepsOnlyWhenFull'
    BY DEF HandsMatchState, OwnerKnows, OwnerSleepsOnlyWhenFull
  <2>2. WorkersKnow'
    BY DEF WorkersKnow, Stopped
  <2> QED BY <2>1, <2>2
<1> QED BY <1>1, <1>2, <1>3, <1>4, <1>5, <1>6, <1>7, <1>8 DEF WorkerNext

LEMMA ControlSpurious == TypeOK /\ ControlInv /\ SpuriousWakeup => ControlInv'
<1> SUFFICES ASSUME TypeOK, ControlInv, SpuriousWakeup PROVE ControlInv'
  OBVIOUS
<1> USE DEF ControlInv, SpuriousWakeup, Waiting, ring, flags, TypeOK
<1>1. HandsMatchState' /\ OwnerKnows' /\ OwnerSleepsOnlyWhenFull'
  BY DEF HandsMatchState, OwnerKnows, OwnerSleepsOnlyWhenFull
<1>2. WorkersKnow'
  BY DEF WorkersKnow, Stopped
<1> QED BY <1>1, <1>2

-----------------------------------------------------------------------------
(***************************************************************************)
(* Jobs: the ring and the ownership of each job.                           *)
(***************************************************************************)

\* Jobs not yet passed to submit are with their builder; nothing is reclaimed
\* before dispose.
PlacesInv ==
    /\ \A j \in Jobs : j >= next => place[j] = "builder"
    /\ \A j \in Jobs : place[j] = "reclaimed" => owner = "disposed"

\* How many jobs in the ring are older than the one in slot i.
Age(i) == IF head <= i THEN i - head ELSE i + QueueCapacity - head

\* From head on, the ring holds jobs in the order they were submitted.
RingSorted ==
    /\ \A i \in Slots : Occupied(i) => items[i] < next
    /\ \A i, k \in Slots :
         Occupied(i) /\ Occupied(k) /\ Age(i) < Age(k) => items[i] < items[k]

JobsInv == RingConsistent /\ SingleOwner /\ PlacesInv /\ RingSorted

LEMMA JobsInit == Init => JobsInv
BY PoolAssumption
DEF Init, JobsInv, RingConsistent, Occupied, SingleOwner, PlacesInv, RingSorted, Slots, Jobs, NoJob

LEMMA JobsAccepted ==
    ASSUME TypeOK, ControlInv, JobsInv, SubmitAccepted
    PROVE  JobsInv'
<1> USE PoolAssumption DEF SubmitAccepted, InSubmit, TypeOK, JobsInv
<1>1. ~Occupied(tail)
  BY DEF RingConsistent, Occupied, Slots
<1>2. items[tail] = NoJob
  BY <1>1 DEF RingConsistent
<1>3. place[next] = "builder" /\ next # NoJob
  BY DEF PlacesInv, Jobs, NoJob
<1>4. tail' = IF tail + 1 = QueueCapacity THEN 0 ELSE tail + 1
  BY NextSlotWraps
<1>5. tail' = (IF head + count < QueueCapacity
              THEN head + count ELSE head + count - QueueCapacity)'
  BY <1>4 DEF RingConsistent, Slots
<1>6. \A i \in Slots : Occupied(i)' <=> Occupied(i) \/ i = tail
  BY DEF RingConsistent, Occupied, Slots
<1>7. RingConsistent'
  BY <1>3, <1>5, <1>6 DEF RingConsistent
<1>8. SingleOwner'
  <2>1. \A i \in Slots : (items[i] # NoJob => place[items[i]] = "queued")'
    BY <1>3 DEF SingleOwner
  <2>2. \A i, k \in Slots : (items[i] = items[k] /\ items[i] # NoJob => i = k)'
    BY <1>3 DEF SingleOwner
  <2>3. \A j \in Jobs : (place[j] = "queued" => \E i \in Slots : items[i] = j)'
    <3> SUFFICES ASSUME NEW j \in Jobs, place'[j] = "queued"
                 PROVE  \E i \in Slots : items'[i] = j
      OBVIOUS
    <3>1. CASE j = next
      BY <3>1
    <3>2. CASE j # next
      <4>1. place[j] = "queued"
        BY <3>2
      <4>2. PICK i \in Slots : items[i] = j
        BY <4>1 DEF SingleOwner
      <4>3. i # tail
        BY <4>2, <1>2 DEF Jobs, NoJob
      <4> QED BY <4>2, <4>3
    <3> QED BY <3>1, <3>2
  <2>4. \A w \in Workers : (hand[w] # NoJob => place[hand[w]] = "worker")'
    BY <1>3 DEF SingleOwner
  <2>5. \A v, w \in Workers : (hand[v] = hand[w] /\ hand[v] # NoJob => v = w)'
    BY DEF SingleOwner
  <2>6. \A j \in Jobs : (place[j] = "worker" => \E w \in Workers : hand[w] = j)'
    BY DEF SingleOwner
  <2> QED BY <2>1, <2>2, <2>3, <2>4, <2>5, <2>6 DEF SingleOwner
<1>9. PlacesInv'
  BY <1>3 DEF PlacesInv, Jobs
<1>10. RingSorted'
  <2>1. \A i \in Slots : (Occupied(i) => items[i] < next)'
    BY <1>6 DEF RingSorted, Jobs, NoJob
  <2>2. \A i \in Slots : Occupied(i) => Age(i) < Age(tail)
    BY DEF RingConsistent, Occupied, Age, Slots
  <2>3. \A i \in Slots : Age(i)' = Age(i) /\ Age(i) \in Int
    BY DEF Age, Slots
  <2>4. ASSUME NEW i \in Slots, NEW k \in Slots, Occupied(i)', Occupied(k)', Age(i)' < Age(k)'
        PROVE  items'[i] < items'[k]
    <3>1. Occupied(i) /\ i # tail
      BY <1>6, <2>2, <2>3, <2>4
    <3>2. CASE k = tail
      BY <3>1, <3>2 DEF RingSorted
    <3>3. CASE k # tail
      BY <3>1, <3>3, <1>6, <2>3, <2>4 DEF RingSorted
    <3> QED BY <3>2, <3>3
  <2> QED BY <2>1, <2>4 DEF RingSorted
<1> QED BY <1>7, <1>8, <1>9, <1>10

LEMMA JobsTake ==
    ASSUME TypeOK, ControlInv, JobsInv, NEW w \in Workers, Take(w)
    PROVE  JobsInv'
<1> USE PoolAssumption DEF Take, TypeOK, JobsInv
<1> DEFINE job == items[head]
<1>1. job \in Jobs /\ job # NoJob
  BY HeadHoldsJob DEF Jobs, NoJob
<1>2. place[job] = "queued" /\ place' = [place EXCEPT ![job] = "worker"]
  BY <1>1 DEF SingleOwner
<1>3. hand[w] = NoJob
  BY DEF ControlInv, HandsMatchState
<1>4. head' = IF head + 1 = QueueCapacity THEN 0 ELSE head + 1
  BY NextSlotWraps
<1>5. \A i \in Slots : Occupied(i)' <=> Occupied(i) /\ i # head
  BY <1>4 DEF Occupied, Slots
<1>6. RingConsistent'
  <2>1. tail = (IF head + count < QueueCapacity
               THEN head + count ELSE head + count - QueueCapacity)'
    BY <1>4 DEF RingConsistent, Slots
  <2> QED BY <1>1, <1>5, <2>1 DEF RingConsistent
<1>7. SingleOwner'
  <2>1. \A i \in Slots : i # head /\ items[i] # NoJob => items[i] # job
    BY <1>1 DEF SingleOwner
  <2>2. \A i \in Slots : (items[i] # NoJob => place[items[i]] = "queued")'
    BY <1>2, <2>1 DEF SingleOwner
  <2>3. \A i, k \in Slots : (items[i] = items[k] /\ items[i] # NoJob => i = k)'
    BY DEF SingleOwner
  <2>4. \A j \in Jobs : (place[j] = "queued" => \E i \in Slots : items[i] = j)'
    BY <1>2 DEF SingleOwner
  <2>5. \A v \in Workers : (hand[v] # NoJob => place[hand[v]] = "worker")'
    BY <1>1, <1>2 DEF SingleOwner
  <2>6. \A u, v \in Workers : (hand[u] = hand[v] /\ hand[u] # NoJob => u = v)'
    <3>1. \A v \in Workers : hand[v] # job
      BY <1>1, <1>2 DEF SingleOwner
    <3> QED BY <3>1 DEF SingleOwner
  <2>7. \A j \in Jobs : (place[j] = "worker" => \E v \in Workers : hand[v] = j)'
    <3> SUFFICES ASSUME NEW j \in Jobs, place'[j] = "worker"
                 PROVE  \E v \in Workers : hand'[v] = j
      OBVIOUS
    <3>1. CASE j = job
      BY <3>1
    <3>2. CASE j # job
      <4>1. PICK v \in Workers : hand[v] = j
        BY <3>2, <1>2 DEF SingleOwner
      <4>2. v # w
        BY <4>1, <1>3 DEF Jobs, NoJob
      <4> QED BY <4>1, <4>2
    <3> QED BY <3>1, <3>2
  <2> QED BY <2>2, <2>3, <2>4, <2>5, <2>6, <2>7 DEF SingleOwner
<1>8. PlacesInv'
  <2>1. job < next
    BY <1>1, <1>2 DEF PlacesInv, Jobs
  <2>2. \A j \in Jobs : place'[j] = "reclaimed" => place[j] = "reclaimed"
    BY <1>2
  <2>3. owner = "disposed" => owner' = "disposed"
    BY DEF WakeOwner
  <2> QED BY <1>2, <2>1, <2>2, <2>3 DEF PlacesInv, Jobs
<1>9. RingSorted'
  <2>1. \A i \in Slots : Occupied(i) /\ i # head => Age(i)' = Age(i) - 1 /\ Age(i) \in Int
    BY <1>4 DEF Occupied, Age, Slots
  <2> QED BY <1>5, <2>1 DEF RingSorted
<1> QED BY <1>6, <1>7, <1>8, <1>9

LEMMA JobsFinish ==
    ASSUME TypeOK, ControlInv, JobsInv, NEW w \in Workers, Finish(w)
    PROVE  JobsInv'
<1> USE DEF Finish, TypeOK, JobsInv, ring, flags
<1> DEFINE job == hand[w]
<1>1. job \in Jobs /\ job # NoJob
  BY DEF ControlInv, HandsMatchState, Jobs, NoJob
<1>2. place[job] = "worker" /\ place' = [place EXCEPT ![job] = "finished"]
  BY <1>1 DEF SingleOwner
<1>3. RingConsistent' /\ RingSorted'
  BY DEF RingConsistent, RingSorted, Occupied, Age
<1>4. SingleOwner'
  <2>1. \A i \in Slots : items[i] # job
    BY <1>1, <1>2 DEF SingleOwner
  <2>2. \A v \in Workers : v # w => hand[v] # job
    BY <1>1 DEF SingleOwner
  <2>3. \A j \in Jobs : (place[j] = "worker" => \E v \in Workers : hand[v] = j)'
    <3> SUFFICES ASSUME NEW j \in Jobs, place'[j] = "worker"
                 PROVE  \E v \in Workers : hand'[v] = j
      OBVIOUS
    <3>1. j # job /\ place[j] = "worker"
      BY <1>2
    <3>2. PICK v \in Workers : hand[v] = j
      BY <3>1 DEF SingleOwner
    <3> QED BY <3>1, <3>2
  <2>4. \A v \in Workers : (hand[v] # NoJob => place[hand[v]] = "worker")'
    BY <2>2, <1>2 DEF SingleOwner
  <2>5. \A u, v \in Workers : (hand[u] = hand[v] /\ hand[u] # NoJob => u = v)'
    BY DEF SingleOwner
  <2>6. \A i \in Slots : (items[i] # NoJob => place[items[i]] = "queued")'
    BY <2>1, <1>2 DEF SingleOwner
  <2>7. \A i, k \in Slots : (items[i] = items[k] /\ items[i] # NoJob => i = k)'
    BY DEF SingleOwner
  <2>8. \A j \in Jobs : (place[j] = "queued" => \E i \in Slots : items[i] = j)'
    BY <1>2 DEF SingleOwner
  <2> QED BY <2>3, <2>4, <2>5, <2>6, <2>7, <2>8 DEF SingleOwner
<1>5. PlacesInv'
  BY <1>1, <1>2 DEF PlacesInv
<1> QED BY <1>3, <1>4, <1>5

\* Reclaiming happens with no worker alive, so no job is in a hand.
LEMMA JobsReclaim ==
    ASSUME TypeOK, ControlInv, JobsInv, Reclaim
    PROVE  JobsInv'
<1> USE PoolAssumption, FirstSlot DEF Reclaim, TypeOK, JobsInv
<1>1. \A w \in Workers : hand[w] = NoJob
  BY DEF ControlInv, OwnerKnows, WorkersKnow, HandsMatchState, Stopped
<1>2. RingConsistent' /\ RingSorted'
  BY DEF RingConsistent, RingSorted, Occupied, Slots
<1>3. SingleOwner'
  BY <1>1 DEF SingleOwner
<1>4. PlacesInv'
  <2>1. \A j \in Jobs : j >= next => ~ \E i \in Slots : items[i] = j
    BY DEF PlacesInv, SingleOwner, Jobs, NoJob
  <2> QED BY <2>1 DEF PlacesInv
<1> QED BY <1>2, <1>3, <1>4

\* Every other step leaves the ring, the hands and the places alone; none of
\* them leaves "disposed".
LEMMA JobsFrame ==
    ASSUME JobsInv, TypeOK,
           UNCHANGED <<ring, hand, place>>,
           next' \in Nat, next' >= next,
           owner = "disposed" => owner' = "disposed"
    PROVE  JobsInv'
<1> USE DEF JobsInv, ring
<1>1. RingConsistent' /\ SingleOwner'
  BY DEF RingConsistent, Occupied, SingleOwner
<1>2. PlacesInv'
  BY DEF PlacesInv, TypeOK, Jobs
<1>3. RingSorted'
  BY DEF RingSorted, Occupied, Age, TypeOK, Jobs, NoJob
<1> QED BY <1>1, <1>2, <1>3

LEMMA JobsNext == TypeOK /\ ControlInv /\ JobsInv /\ [Next]_vars => JobsInv'
<1> SUFFICES ASSUME TypeOK, ControlInv, JobsInv, [Next]_vars PROVE JobsInv'
  OBVIOUS
<1> USE PoolAssumption
<1>0. next \in Nat
  BY DEF TypeOK
<1>1. CASE OwnerNext
  <2>1. CASE SubmitAccepted
    BY <2>1, JobsAccepted
  <2>2. CASE Reclaim
    BY <2>2, JobsReclaim
  <2>3. CASE SubmitRefused
    BY <2>3, <1>0, JobsFrame DEF SubmitRefused, InSubmit
  <2>4. CASE InitAllocFails \/ CreateThread \/ CreateThreadFails \/ SubmitWaits
    BY <2>4, <1>0, JobsFrame
    DEF InitAllocFails, CreateThread, CreateThreadFails, SubmitWaits, InSubmit
  <2>5. CASE OwnerCancels \/ OwnerPublishes \/ OwnerWakes \/ Close \/ Join \/ Dispose
             \/ DisposeJoined \/ JoinReturns
    BY <2>5, <1>0, JobsFrame
    DEF OwnerCancels, OwnerPublishes, OwnerWakes, Close, Join, Dispose, DisposeJoined, JoinReturns
  <2> QED BY <1>1, <2>1, <2>2, <2>3, <2>4, <2>5 DEF OwnerNext
<1>2. ASSUME NEW w \in Workers, WorkerNext(w) PROVE JobsInv'
  <2>1. CASE Take(w)
    BY <2>1, JobsTake
  <2>2. CASE Finish(w)
    BY <2>2, JobsFinish
  <2>3. CASE WorkerInit(w) \/ WorkerInitFails(w) \/ Sleep(w) \/ Exit(w)
             \/ WorkerCancels(w) \/ WorkerWakes(w)
    BY <2>3, <1>0, JobsFrame
    DEF WorkerInit, WorkerInitFails, Sleep, Exit, WorkerCancels, WorkerWakes, WakeOwner
  <2> QED BY <1>2, <2>1, <2>2, <2>3 DEF WorkerNext
<1>3. CASE SpuriousWakeup
  BY <1>3, <1>0, JobsFrame DEF SpuriousWakeup
<1>4. CASE UNCHANGED vars
  BY <1>4, <1>0, JobsFrame DEF vars
<1> QED BY <1>1, <1>2, <1>3, <1>4 DEF Next, Terminated

\* Together: the inductive invariant behind the theorems below.
PoolInv == TypeOK /\ ControlInv /\ JobsInv

LEMMA PoolInvInductive == Spec => []PoolInv
<1>1. Init => PoolInv
  BY TypeInit, ControlInit, JobsInit DEF PoolInv
<1>2. PoolInv /\ [Next]_vars => PoolInv'
  <2> SUFFICES ASSUME PoolInv, [Next]_vars PROVE PoolInv'
    OBVIOUS
  <2>1. TypeOK'
    <3>1. TypeOK /\ UNCHANGED vars => TypeOK'
      BY DEF TypeOK, vars, ring, flags
    <3> QED BY <3>1, TypeOwner, TypeWorker, TypeSpurious DEF PoolInv, Next, Terminated
  <2>2. ControlInv'
    <3>1. ControlInv /\ UNCHANGED vars => ControlInv'
      BY DEF ControlInv, HandsMatchState, OwnerKnows, WorkersKnow, Stopped,
             OwnerSleepsOnlyWhenFull, vars, ring, flags
    <3> QED BY <3>1, ControlOwner, ControlWorker, ControlSpurious
        DEF PoolInv, JobsInv, Next, Terminated
  <2>3. JobsInv'
    BY JobsNext DEF PoolInv
  <2> QED BY <2>1, <2>2, <2>3 DEF PoolInv
<1> QED BY <1>1, <1>2, PTL DEF Spec

\* The slots dispose scans are exactly the queued jobs, in any ring.
THEOREM PoolRingConsistent == Spec => []RingConsistent
<1>1. PoolInv => RingConsistent
  BY DEF PoolInv, JobsInv
<1> QED BY <1>1, PoolInvInductive, PTL

\* Every job has exactly one owner, whatever threads, slots and jobs there are.
THEOREM PoolSingleOwner == Spec => []SingleOwner
<1>1. PoolInv => SingleOwner
  BY DEF PoolInv, JobsInv
<1> QED BY <1>1, PoolInvInductive, PTL

\* The producer sleeps only while the queue is full, open and not failed.
THEOREM PoolOwnerSleepsOnlyWhenFull == Spec => []OwnerSleepsOnlyWhenFull
<1>1. PoolInv => OwnerSleepsOnlyWhenFull
  BY DEF PoolInv, ControlInv
<1> QED BY <1>1, PoolInvInductive, PTL

\* A join that reports success has processed every accepted job.
THEOREM PoolJoinOkMeansDrained == Spec => []JoinOkMeansDrained
<1>1. PoolInv => JoinOkMeansDrained
  <2> SUFFICES ASSUME PoolInv, joined, ~failed, NEW j \in Jobs
               PROVE  place[j] \in {"builder", "finished"}
    BY DEF JoinOkMeansDrained
  <2> USE PoolAssumption DEF PoolInv, ControlInv, JobsInv
  <2>1. started = NumThreads /\ owner # "disposed" /\ \A w \in Workers : Stopped(w)
    BY DEF OwnerKnows, WorkersKnow
  <2>2. 0 \in Workers /\ 0 < started
    BY <2>1 DEF Workers
  <2>3. worker[0] = "gone"
    BY <2>1, <2>2 DEF WorkersKnow, Stopped
  <2>4. count = 0
    BY <2>1, <2>2, <2>3 DEF WorkersKnow
  <2>5. \A i \in Slots : items[i] = NoJob
    BY <2>4 DEF RingConsistent, Occupied, Slots, TypeOK
  <2>6. \A w \in Workers : hand[w] = NoJob
    BY <2>1 DEF HandsMatchState, Stopped
  <2>7. place[j] # "queued" /\ place[j] # "worker"
    BY <2>5, <2>6 DEF SingleOwner, Jobs, NoJob
  <2>8. place[j] # "reclaimed"
    BY <2>1 DEF PlacesInv
  <2> QED BY <2>7, <2>8 DEF TypeOK, Places
<1> QED BY <1>1, PoolInvInductive, PTL

\* Leftovers are reclaimed, and the pool freed, only when no worker lives.
THEOREM PoolQuiescentReclaim == Spec => QuiescentReclaim
<1> DEFINE A == (owner' = "disposed" /\ owner # "disposed")
                \/ (\E j \in Jobs : place'[j] = "reclaimed" /\ place[j] # "reclaimed")
                => \A w \in Workers : Stopped(w)
<1>1. PoolInv /\ [Next]_vars => [A]_vars
  <2> SUFFICES ASSUME PoolInv, Next PROVE A
    OBVIOUS
  <2> USE PoolAssumption DEF PoolInv, ControlInv
  <2>1. CASE Reclaim
    BY <2>1 DEF Reclaim, OwnerKnows, WorkersKnow
  <2>2. CASE InitAllocFails
    BY <2>2 DEF InitAllocFails, WorkersKnow, Stopped, Workers, TypeOK
  <2>3. CASE OwnerNext /\ ~Reclaim /\ ~InitAllocFails
    <3>1. owner # "disposed" => owner' # "disposed"
      BY <2>3 DEF OwnerNext, CreateThread, CreateThreadFails, SubmitWaits, SubmitRefused,
         SubmitAccepted, OwnerCancels, OwnerPublishes, OwnerWakes, Close, Join, Dispose, DisposeJoined, JoinReturns
    <3>2. \A j \in Jobs : place'[j] # place[j] => place'[j] = "queued"
      BY <2>3 DEF OwnerNext, CreateThread, CreateThreadFails, SubmitWaits, SubmitRefused,
         SubmitAccepted, OwnerCancels, OwnerPublishes, OwnerWakes, Close, Join, Dispose, DisposeJoined, JoinReturns,
         TypeOK
    <3> QED BY <3>1, <3>2
  <2>4. ASSUME NEW w \in Workers, WorkerNext(w) PROVE A
    <3>1. owner # "disposed" => owner' # "disposed"
      BY <2>4 DEF WorkerNext, WorkerInit, WorkerInitFails, Sleep, Take, Finish, Exit,
         WorkerCancels, WorkerWakes, WakeOwner
    <3>2. \A j \in Jobs : place'[j] # place[j] => place'[j] \in {"worker", "finished"}
      BY <2>4 DEF WorkerNext, WorkerInit, WorkerInitFails, Sleep, Take, Finish, Exit,
         WorkerCancels, WorkerWakes, TypeOK
    <3> QED BY <3>1, <3>2
  <2>5. CASE SpuriousWakeup
    BY <2>5 DEF SpuriousWakeup
  <2>6. CASE Terminated
    BY <2>6 DEF Terminated, vars
  <2> QED BY <2>1, <2>2, <2>3, <2>4, <2>5, <2>6 DEF Next
<1> QED BY <1>1, PoolInvInductive, PTL DEF Spec, QuiescentReclaim

-----------------------------------------------------------------------------
(***************************************************************************)
(* Wakeups: counting the awake workers.                                    *)
(***************************************************************************)

LEMMA AwakeFinite ==
    /\ IsFiniteSet(Awake)
    /\ Cardinality(Awake) \in Nat
    /\ Cardinality(Awake) <= NumThreads
    /\ Waiting # {} => Cardinality(Awake) + 1 <= NumThreads
<1> USE PoolAssumption
<1>1. IsFiniteSet(Workers) /\ Cardinality(Workers) = NumThreads
  BY FS_Interval DEF Workers
<1>2. Awake \in SUBSET Workers
  BY DEF Awake
<1>3. IsFiniteSet(Awake) /\ Cardinality(Awake) <= NumThreads
  BY <1>1, <1>2, FS_Subset
<1>4. Cardinality(Awake) \in Nat
  BY <1>3, FS_CardinalityType
<1>5. ASSUME Waiting # {} PROVE Cardinality(Awake) + 1 <= NumThreads
  <2>1. PICK w \in Workers : worker[w] = "wait"
    BY <1>5 DEF Waiting
  <2>2. w \notin Awake
    BY <2>1 DEF Awake
  <2>3. Awake \cup {w} \in SUBSET Workers
    BY <1>2, <2>1
  <2>4. Cardinality(Awake \cup {w}) = Cardinality(Awake) + 1
    BY <1>3, <2>2, FS_AddElement
  <2>5. Cardinality(Awake \cup {w}) <= NumThreads
    BY <1>1, <2>3, FS_Subset
  <2> QED BY <2>4, <2>5
<1> QED BY <1>3, <1>4, <1>5

\* A worker that joins the awake ones makes them one more.
LEMMA OneMoreAwake ==
    ASSUME NEW w \in Workers, w \notin Awake, Awake' = Awake \cup {w}
    PROVE  Cardinality(Awake') = Cardinality(Awake) + 1
BY AwakeFinite, FS_AddElement

LEMMA WaitersOwner ==
    ASSUME PoolInv, WaitersCovered, OwnerNext
    PROVE  WaitersCovered'
<1> USE PoolAssumption DEF PoolInv, ControlInv, TypeOK
<1>1. CASE CreateThreadFails \/ OwnerWakes \/ Close \/ Dispose
  <2>1. worker' = WakeWorkers
    BY <1>1 DEF CreateThreadFails, OwnerWakes, Close, Dispose, CloseEffect
  <2> QED BY <2>1, WakeWorkersEffect DEF WaitersCovered, Waiting
<1>2. CASE CreateThread
  <2>1. worker[started] = "none"
    BY <1>2 DEF CreateThread, WorkersKnow, Workers
  <2>2. Waiting' = Waiting /\ Awake' = Awake /\ count' = count
    BY <1>2, <2>1 DEF CreateThread, Waiting, Awake, ring, Workers
  <2> QED BY <2>2 DEF WaitersCovered
<1>3. CASE SubmitAccepted
  <2>1. CASE Waiting = {} /\ UNCHANGED worker
    BY <2>1 DEF WaitersCovered, Waiting
  <2>2. CASE ~SignalsConsumer(count + 1)
    <3>1. Waiting = {}
      BY <2>2, AwakeFinite DEF WaitersCovered, SignalsConsumer
    <3>2. UNCHANGED worker
      BY <1>3, <2>2 DEF SubmitAccepted
    <3> QED BY <3>1, <3>2 DEF WaitersCovered, Waiting
  <2>3. CASE \E w \in Waiting : worker' = [worker EXCEPT ![w] = "loop"]
    <3>1. PICK w \in Waiting : worker' = [worker EXCEPT ![w] = "loop"]
      BY <2>3
    <3>2. w \in Workers /\ w \notin Awake /\ Awake' = Awake \cup {w}
      BY <3>1 DEF Waiting, Awake
    <3>3. Cardinality(Awake') = Cardinality(Awake) + 1
      BY <3>2, OneMoreAwake
    <3>4. count <= Cardinality(Awake) /\ count' = count + 1
      BY <1>3, <3>1 DEF WaitersCovered, SubmitAccepted
    <3> QED BY <3>3, <3>4, AwakeFinite DEF WaitersCovered
  <2> QED BY <1>3, <2>1, <2>2, <2>3 DEF SubmitAccepted
<1>4. CASE Reclaim
  BY <1>4 DEF Reclaim, OwnerKnows, WorkersKnow, Stopped, WaitersCovered, Waiting
<1>5. CASE InitAllocFails \/ SubmitWaits \/ SubmitRefused \/ OwnerCancels \/ OwnerPublishes \/ Join
           \/ DisposeJoined \/ JoinReturns
  <2>1. UNCHANGED <<worker, count>>
    BY <1>5 DEF InitAllocFails, SubmitWaits, SubmitRefused, OwnerCancels, OwnerPublishes, Join,
                DisposeJoined, JoinReturns, ring
  <2> QED BY <2>1 DEF WaitersCovered, Waiting, Awake
<1> QED BY <1>1, <1>2, <1>3, <1>4, <1>5 DEF OwnerNext

LEMMA WaitersWorker ==
    ASSUME PoolInv, WaitersCovered, NEW w \in Workers, WorkerNext(w)
    PROVE  WaitersCovered'
<1> USE PoolAssumption DEF PoolInv, ControlInv, TypeOK
<1>1. CASE WorkerInit(w)
  <2>1. w \notin Awake /\ Awake' = Awake \cup {w} /\ Waiting' = Waiting /\ count' = count
    BY <1>1 DEF WorkerInit, Awake, Waiting, ring
  <2> QED BY <2>1, OneMoreAwake, AwakeFinite DEF WaitersCovered
<1>2. CASE WorkerInitFails(w) \/ WorkerWakes(w)
  <2>1. \A v \in Workers : worker'[v] # "wait"
    BY <1>2, WakeWorkersEffect DEF WorkerInitFails, WorkerWakes, WorkerStates
  <2> QED BY <2>1 DEF WaitersCovered, Waiting
<1>3. CASE Sleep(w)
  <2>1. IsFiniteSet(Awake')
    <3>1. Awake' \in SUBSET Awake
      BY <1>3 DEF Sleep, Awake
    <3> QED BY <3>1, AwakeFinite, FS_Subset
  <2>2. Cardinality(Awake') \in Nat /\ count' = 0
    BY <1>3, <2>1, FS_CardinalityType DEF Sleep, ring
  <2> QED BY <2>2 DEF WaitersCovered
<1>4. CASE Take(w)
  <2>1. Awake' = Awake /\ Waiting' = Waiting /\ count' = count - 1
    BY <1>4 DEF Take, Awake, Waiting
  <2> QED BY <2>1, AwakeFinite DEF WaitersCovered
<1>5. CASE Finish(w) \/ WorkerCancels(w)
  <2>1. Awake' = Awake /\ Waiting' = Waiting /\ count' = count
    BY <1>5 DEF Finish, WorkerCancels, Awake, Waiting, ring
  <2> QED BY <2>1 DEF WaitersCovered
<1>6. CASE Exit(w)
  <2>1. \A v \in Workers : worker'[v] # "wait"
    BY <1>6 DEF Exit, WorkersKnow
  <2> QED BY <2>1 DEF WaitersCovered, Waiting
<1> QED BY <1>1, <1>2, <1>3, <1>4, <1>5, <1>6 DEF WorkerNext

LEMMA WaitersSpurious ==
    ASSUME PoolInv, WaitersCovered, SpuriousWakeup
    PROVE  WaitersCovered'
<1> USE DEF PoolInv, TypeOK
<1>1. count' = count
  BY DEF SpuriousWakeup, ring
<1>2. CASE UNCHANGED worker
  BY <1>1, <1>2 DEF WaitersCovered, Waiting, Awake
<1>3. CASE \E w \in Waiting : worker' = [worker EXCEPT ![w] = "loop"]
  <2>1. PICK w \in Waiting : worker' = [worker EXCEPT ![w] = "loop"]
    BY <1>3
  <2>2. w \in Workers /\ w \notin Awake /\ Awake' = Awake \cup {w}
    BY <2>1 DEF Waiting, Awake
  <2>3. Cardinality(Awake') = Cardinality(Awake) + 1
    BY <2>2, OneMoreAwake
  <2>4. count <= Cardinality(Awake)
    BY <2>1 DEF WaitersCovered
  <2> QED BY <1>1, <2>3, <2>4, AwakeFinite DEF WaitersCovered
<1> QED BY <1>2, <1>3 DEF SpuriousWakeup

\* No wakeup of a worker is lost, whatever threads, slots and jobs there are:
\* signalling one worker per submit, and none once the queue is longer than
\* the pool, is enough.
THEOREM PoolWaitersCovered == Spec => []WaitersCovered
<1>1. Init => WaitersCovered
  BY DEF Init, WaitersCovered, Waiting
<1>2. PoolInv /\ WaitersCovered /\ [Next]_vars => WaitersCovered'
  <2>1. WaitersCovered /\ UNCHANGED vars => WaitersCovered'
    BY DEF WaitersCovered, Waiting, Awake, vars, ring
  <2> QED BY <2>1, WaitersOwner, WaitersWorker, WaitersSpurious DEF Next, Terminated
<1> QED BY <1>1, <1>2, PoolInvInductive, PTL DEF Spec

-----------------------------------------------------------------------------
(***************************************************************************)
(* Order of the jobs and of the cancellation phases.                       *)
(***************************************************************************)

\* The job in slot head is the oldest one queued.
LEMMA HeadIsOldest ==
    ASSUME PoolInv, count > 0, NEW j \in Jobs, place[j] = "queued", j # items[head]
    PROVE  items[head] < j
<1> USE PoolAssumption DEF PoolInv, JobsInv, TypeOK
<1>1. PICK i \in Slots : items[i] = j
  BY DEF SingleOwner
<1>2. Occupied(i) /\ Occupied(head)
  BY <1>1 DEF RingConsistent, Occupied, Slots, Jobs, NoJob
<1>3. Age(head) < Age(i)
  BY <1>1, <1>2 DEF Age, Slots
<1> QED BY <1>1, <1>2, <1>3 DEF RingSorted

\* No wakeup is lost on can_pop or can_push.
THEOREM PoolNoLostWakeup == Spec => []NoLostWakeup
<1>1. WaitersCovered /\ OwnerSleepsOnlyWhenFull => NoLostWakeup
  BY DEF NoLostWakeup
<1> QED
  BY <1>1, PoolWaitersCovered, PoolOwnerSleepsOnlyWhenFull, PTL

\* Jobs leave the ring in the order they were submitted, however often it wraps.
THEOREM PoolFifoOrder == Spec => FifoOrder
<1> DEFINE A == \A j, k \in Jobs :
                  j < k /\ place[j] = "queued" /\ place[k] = "queued" /\ place'[k] # "queued"
                    => place'[j] # "queued"
<1>1. PoolInv /\ [Next]_vars => [A]_vars
  <2> SUFFICES ASSUME PoolInv, Next, NEW j \in Jobs, NEW k \in Jobs, j < k,
                      place[j] = "queued", place[k] = "queued", place'[k] # "queued"
               PROVE  place'[j] # "queued"
    OBVIOUS
  <2> USE DEF PoolInv, TypeOK
  <2>1. CASE Reclaim
    BY <2>1 DEF Reclaim, JobsInv, SingleOwner
  <2>2. CASE OwnerNext /\ ~Reclaim
    BY <2>2 DEF OwnerNext, InitAllocFails, CreateThread, CreateThreadFails, SubmitWaits,
       SubmitRefused, SubmitAccepted, InSubmit, OwnerCancels, OwnerPublishes, OwnerWakes, Close, Join, Dispose,
       DisposeJoined, JoinReturns
  <2>3. ASSUME NEW w \in Workers, WorkerNext(w) PROVE FALSE
    <3>1. CASE Take(w)
      <4>1. count > 0 /\ k = items[head]
        BY <3>1 DEF Take
      <4>2. items[head] < j
        BY <4>1, HeadIsOldest DEF Jobs
      <4> QED BY <4>1, <4>2 DEF Jobs
    <3>2. CASE Finish(w)
      BY <3>2 DEF Finish, JobsInv, SingleOwner, ControlInv, HandsMatchState
    <3>3. CASE UNCHANGED place
      BY <3>3
    <3> QED BY <2>3, <3>1, <3>2, <3>3
        DEF WorkerNext, WorkerInit, WorkerInitFails, Sleep, Exit, WorkerCancels, WorkerWakes
  <2>4. CASE SpuriousWakeup \/ Terminated
    BY <2>4 DEF SpuriousWakeup, Terminated, vars
  <2> QED BY <2>1, <2>2, <2>3, <2>4 DEF Next
<1> QED BY <1>1, PoolInvInductive, PTL DEF Spec, FifoOrder

CancelInv ==
    /\ "observed" \in cancel => Requested
    /\ "draining" \in cancel => "observed" \in cancel
    /\ "joined" \in cancel => "draining" \in cancel
    /\ "published" \in cancel => Requested
    /\ cancel \cap {"joined", "published"} # {} => joined \/ owner = "disposed"

\* The cancellation phases are set in order and JOINED means no worker runs.
THEOREM PoolCancelPhasesInOrder == Spec => []CancelPhasesInOrder
<1>1. Init => CancelInv
  BY DEF Init, CancelInv
<1>2. PoolInv /\ CancelInv /\ [Next]_vars => CancelInv'
  <2> SUFFICES ASSUME PoolInv, CancelInv, [Next]_vars PROVE CancelInv'
    OBVIOUS
  <2> USE DEF PoolInv, ControlInv, CancelInv, Requested
  <2>1. CASE OwnerNext
    <3>1. CASE JoinReturns
      BY <3>1 DEF JoinReturns
    <3>2. CASE Close \/ Dispose
      BY <3>2 DEF Close, Dispose, CloseEffect
    <3>3. CASE SubmitRefused \/ OwnerCancels \/ OwnerPublishes
      BY <3>3 DEF SubmitRefused, InSubmit, OwnerCancels, OwnerPublishes, flags, OwnerKnows
    <3>4. CASE Reclaim
      BY <3>4 DEF Reclaim
    <3>5. CASE InitAllocFails \/ CreateThread \/ CreateThreadFails \/ SubmitWaits
               \/ SubmitAccepted \/ OwnerWakes \/ Join \/ DisposeJoined
      BY <3>5 DEF InitAllocFails, CreateThread, CreateThreadFails, SubmitWaits, SubmitAccepted,
         InSubmit, OwnerWakes, Join, DisposeJoined, flags, OwnerKnows
    <3> QED BY <2>1, <3>1, <3>2, <3>3, <3>4, <3>5 DEF OwnerNext
  <2>2. ASSUME NEW w \in Workers, WorkerNext(w) PROVE CancelInv'
    BY <2>2 DEF WorkerNext, WorkerInit, WorkerInitFails, Sleep, Take, Finish, Exit,
       WorkerCancels, WorkerWakes, WakeOwner, flags
  <2>3. CASE SpuriousWakeup
    BY <2>3 DEF SpuriousWakeup, flags
  <2>4. CASE UNCHANGED vars
    BY <2>4 DEF vars, flags
  <2> QED BY <2>1, <2>2, <2>3, <2>4 DEF Next, Terminated
<1>3. PoolInv /\ CancelInv => CancelPhasesInOrder
  BY DEF PoolInv, ControlInv, WorkersKnow, CancelInv, CancelPhasesInOrder
<1> QED BY <1>1, <1>2, <1>3, PoolInvInductive, PTL DEF Spec

\* Finished and reclaimed jobs are never touched again, accepted ones never
\* return to their builder.
THEOREM PoolJobsNeverReturn == Spec => JobsNeverReturn
<1> DEFINE A == \A j \in Jobs :
                  /\ place[j] \in {"finished", "reclaimed"} => place'[j] = place[j]
                  /\ place[j] # "builder" => place'[j] # "builder"
<1>1. PoolInv /\ [Next]_vars => [A]_vars
  <2> SUFFICES ASSUME PoolInv, Next, NEW j \in Jobs
               PROVE  /\ place[j] \in {"finished", "reclaimed"} => place'[j] = place[j]
                      /\ place[j] # "builder" => place'[j] # "builder"
    OBVIOUS
  <2> USE DEF PoolInv, JobsInv, TypeOK
  <2>1. CASE Reclaim
    BY <2>1 DEF Reclaim, SingleOwner, Jobs, NoJob
  <2>2. CASE SubmitAccepted
    <3>1. place[next] = "builder"
      BY <2>2 DEF SubmitAccepted, InSubmit, PlacesInv, Jobs
    <3> QED BY <2>2, <3>1 DEF SubmitAccepted
  <2>3. CASE OwnerNext /\ ~Reclaim /\ ~SubmitAccepted
    BY <2>3 DEF OwnerNext, InitAllocFails, CreateThread, CreateThreadFails, SubmitWaits,
       SubmitRefused, OwnerCancels, OwnerPublishes, OwnerWakes, Close, Join, Dispose, DisposeJoined, JoinReturns
  <2>4. ASSUME NEW w \in Workers, WorkerNext(w)
        PROVE  \/ place'[j] = place[j]
               \/ place[j] \in {"queued", "worker"} /\ place'[j] \in {"worker", "finished"}
    <3>1. CASE Take(w)
      <4>1. place[items[head]] = "queued"
        BY <3>1, HeadHoldsJob DEF Take, SingleOwner, Jobs, NoJob
      <4> QED BY <3>1, <4>1 DEF Take
    <3>2. CASE Finish(w)
      <4>1. place[hand[w]] = "worker"
        BY <3>2 DEF Finish, ControlInv, HandsMatchState, SingleOwner
      <4> QED BY <3>2, <4>1 DEF Finish
    <3>3. CASE UNCHANGED place
      BY <3>3
    <3> QED BY <2>4, <3>1, <3>2, <3>3
        DEF WorkerNext, WorkerInit, WorkerInitFails, Sleep, Exit, WorkerCancels, WorkerWakes
  <2>5. CASE SpuriousWakeup \/ Terminated
    BY <2>5 DEF SpuriousWakeup, Terminated, vars
  <2> QED BY <2>1, <2>2, <2>3, <2>4, <2>5 DEF Next
<1> QED BY <1>1, PoolInvInductive, PTL DEF Spec, JobsNeverReturn

=============================================================================
