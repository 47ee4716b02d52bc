--------------------------- MODULE GzipStreamProofs ---------------------------
(***************************************************************************)
(* Proofs about GzipStream, for every number of threads and chunks and     *)
(* every limit on the chunks in flight.                                    *)
(*                                                                         *)
(* The invariant says how the three parts agree: the window's numbers are  *)
(* the jobs of the pool, the ring holds the last of them in order, and the *)
(* packets that workers own are those in the ring or in a worker's hand.   *)
(***************************************************************************)
EXTENDS GzipStream, Integers, TLAPS

\* A number was reserved that no packet will ever carry: the pool refused it.
Released == caller = "stopped" /\ verdict = "ok"
Busy == caller \in {"publish", "settle"}
InCall == {"flush", "publish", "settle", "test", "check", "asleep"}

\* How many chunks were handed to the pool.
Handed == next_submit_seq - (IF caller = "holding" \/ Released THEN 1 ELSE 0)

FilterType ==
    /\ main \in MainStates
    /\ status \in [Chunks -> Statuses]
    /\ freed \in [Chunks -> Nat]
    /\ ok \in BOOLEAN

\* What workers own or have returned are the numbers from the next to publish
\* to the last handed over.
Numbers ==
    /\ next_publish_seq <= Handed
    /\ away \cap pending = {}
    /\ \A s \in Chunks : s \in away \cup pending <=> next_publish_seq <= s /\ s < Handed

\* inflight counts those numbers, the reserved one and the one in the callback.
Accounting ==
    /\ inflight = next_submit_seq - next_publish_seq
                    + (IF Busy THEN 1 ELSE 0) - (IF Released THEN 1 ELSE 0)
    /\ inflight <= MaxInflight

\* The packet in the callback is the last taken; out stops at a failure.
Progress ==
    /\ Busy => current = next_publish_seq - 1 /\ next_publish_seq > 0
    /\ verdict = "failed" => caller \in {"settle", "stopped"} /\ next_publish_seq > 0
    /\ Len(out) = next_publish_seq - (IF caller = "publish" \/ verdict = "failed" THEN 1 ELSE 0)
    /\ reserved = next_submit_seq
    /\ op = "reserve" /\ caller \in InCall => next_submit_seq < NumChunks

WindowInv ==
    /\ caller # "cleaned" => Numbers /\ Accounting /\ Progress
    /\ caller = "cleaned" => away = {} /\ pending = {}

\* Where the main thread is, as the window and the pool see it.
Control ==
    /\ caller \in InCall => main = op
    /\ main \in {"reserve", "drain"} => caller \in InCall
    /\ caller = "holding" <=> main \in {"submit", "release"}
    /\ caller = "stopped" => main \in {"out_join", "join", "out", "reclaim", "dispose", "cleanup"}
    /\ caller = "cleaned" <=> main = "done"
    /\ main \in {"setup", "abort", "window"} => next_submit_seq = 0
    /\ main = "setup" => owner = "create"
    /\ main = "abort" => owner \in {"abort", "reclaim"}
    /\ main = "join" => owner \in {"ready", "join"}
    /\ main = "dispose" => owner \in {"dispose", "reclaim"}
    /\ main \in {"cleanup", "done"} => owner = "disposed"
    /\ main \notin {"setup", "abort", "join", "dispose", "cleanup", "done"} => owner = "ready"
    /\ main \in {"setup", "window", "produce", "reserve", "submit", "closed", "drain"} => next = Handed + 1

Idle(w) == worker[w] \in {"none", "gone"}

\* A worker leaves only an empty, closed pool; join waits for all of them.
Threads ==
    /\ \A w \in Pool!Workers : worker[w] \in {"none", "init", "loop", "wait", "run", "gone"}
    /\ \A w \in Pool!Workers : worker[w] = "gone" => count = 0 /\ (closed \/ owner = "disposed")
    /\ owner # "disposed" => \A w \in Pool!Workers : worker[w] = "none" <=> w >= started
    /\ owner \notin {"asleep", "retry", "waking"}
    /\ owner \in {"create", "abort"} => count = 0 /\ ~joined
    /\ owner \in {"ready", "join", "dispose"} => started = NumThreads
    /\ owner \in {"join", "abort", "dispose"} => closed
    /\ joined \/ owner \in {"reclaim", "disposed"} =>
         count = 0 /\ (closed \/ owner = "disposed") /\ \A w \in Pool!Workers : Idle(w)

\* Slot i is the Offset(i)-th from the head; it holds a job if that is less
\* than count.
Offset(i) == IF i >= head THEN i - head ELSE i + MaxInflight - head

\* The ring holds the last chunks handed over, oldest first: chunk s is job s + 1.
Queue ==
    /\ tail = IF head + count < MaxInflight THEN head + count ELSE head + count - MaxInflight
    /\ \A i \in Pool!Slots :
         items[i] = IF Offset(i) < count THEN Handed - count + 1 + Offset(i) ELSE Pool!NoJob
    /\ count <= Handed

\* Workers have earlier chunks in hand, each its own, and own what is in the
\* ring or in a hand.
Hands ==
    /\ \A w \in Pool!Workers : hand[w] # Pool!NoJob <=> worker[w] = "run"
    /\ \A w \in Pool!Workers : worker[w] = "run" => hand[w] <= Handed - count
    /\ \A v, w \in Pool!Workers : worker[v] = "run" /\ hand[v] = hand[w] => v = w
    /\ \A s \in Chunks : s \in away <=>
          \/ Handed - count <= s /\ s < Handed
          \/ \E w \in Pool!Workers : worker[w] = "run" /\ hand[w] = s + 1

\* A chunk is freed when it is published, or its callback failed, or the pool
\* refused it, or the window is cleaned up.
Settled(s) ==
    \/ s < next_publish_seq - (IF Busy THEN 1 ELSE 0)
    \/ Released /\ s = Handed
Freed ==
    /\ caller # "cleaned" => \A s \in Chunks : freed[s] = IF Settled(s) THEN 1 ELSE 0
    /\ caller = "cleaned" => \A s \in Chunks : freed[s] = IF s < reserved THEN 1 ELSE 0

\* Main has not given up: an error of the producer itself ends this.
Working == {"setup", "window", "produce", "reserve", "submit", "release", "closed", "drain"}
Ended == {"out_join", "join", "out", "reclaim", "dispose", "cleanup", "done"}

\* A cancellation has a chunk to show for it, which will not be written; a
\* filter that has succeeded has written what it reserved, and no worker is left
\* that could still fail.
Result ==
    /\ \A s \in Chunks : status[s] # "none" => s < reserved
    /\ \A i \in 1 .. Len(out) : out[i] = i - 1 /\ status[i - 1] = "ok"
    /\ Pool!Requested /\ main \in Working => verdict = "failed" \/ \E s \in Chunks : status[s] = "failed"
    /\ ok => /\ main \in Ended /\ Len(out) = reserved /\ ~Pool!Requested
             /\ caller \in {"idle", "cleaned"}
             /\ caller = "idle" => next_publish_seq = next_submit_seq

StreamInv ==
    /\ Pool!TypeOK /\ Win!TypeOK /\ FilterType
    /\ WindowInv /\ Control /\ Threads /\ Queue /\ Hands /\ Freed /\ Result

-----------------------------------------------------------------------------

LEMMA Sizes ==
    /\ MaxInflight \in Nat /\ MaxInflight > 0 /\ QueueSize = MaxInflight
    /\ NumThreads \in Nat /\ NumThreads > 0 /\ NumChunks \in Nat
BY StreamAssumption DEF MaxInflight, QueueSize

-----------------------------------------------------------------------------
(* The window. *)

\* A step of the window, whoever takes it.
WindowStepOf ==
    \/ Win!CallerNext
    \/ \E s \in Chunks : Win!PublishPacket(s)
    \/ Win!SpuriousWakeup

LEMMA WindowTypeKeeps ==
    ASSUME Win!TypeOK, WindowInv, WindowStepOf, cancel' \in SUBSET Win!Phases
    PROVE  Win!TypeOK'
<1> USE Sizes DEF Win!TypeOK, Win!CallerStates, Win!Packets, Win!None, Win!window, Win!ghosts
<1>1. CASE Win!ReserveBegins \/ Win!DrainBegins \/ Win!FlushEnds \/ Win!PublishFails \/ Win!TestDrain
           \/ Win!WaitChecks \/ Win!SpuriousWakeup
  BY <1>1 DEF Win!ReserveBegins, Win!DrainBegins, Win!FlushEnds, Win!PublishFails, Win!TestDrain,
     Win!WaitChecks, Win!SpuriousWakeup
<1>2. CASE Win!FlushTakes
  BY <1>2 DEF Win!FlushTakes, Win!HasTurn
<1>3. CASE Win!PublishOk
  <2>1. current \in 0 .. NumChunks - 1
    BY <1>3 DEF Win!PublishOk, WindowInv, Progress, Busy
  <2> QED BY <1>3, <2>1 DEF Win!PublishOk
<1>4. CASE Win!Settle
  <2>1. current \in 0 .. NumChunks - 1
    BY <1>4 DEF Win!Settle, WindowInv, Progress, Busy
  <2> QED BY <1>4, <2>1 DEF Win!Settle, Win!DropSlot
<1>5. CASE Win!TestReserve
  <2>1. next_submit_seq < NumChunks /\ reserved = next_submit_seq
    BY <1>5 DEF Win!TestReserve, WindowInv, Progress, InCall
  <2> QED BY <1>5, <2>1 DEF Win!TestReserve
<1>6. CASE Win!HandOver
  <2>1. next_submit_seq - 1 \in 0 .. NumChunks - 1
    BY <1>6 DEF Win!HandOver, WindowInv, Numbers, Handed
  <2> QED BY <1>6, <2>1 DEF Win!HandOver
<1>7. CASE Win!ReleaseSlot
  BY <1>7 DEF Win!ReleaseSlot, Win!DropSlot
<1>8. CASE Win!Cleanup
  BY <1>8 DEF Win!Cleanup
<1>9. CASE \E s \in Chunks : Win!PublishPacket(s)
  BY <1>9 DEF Win!PublishPacket, Win!WakeCaller, Chunks
<1> QED BY <1>1, <1>2, <1>3, <1>4, <1>5, <1>6, <1>7, <1>8, <1>9 DEF WindowStepOf, Win!CallerNext

\* Steps that leave the numbers alone.
LEMMA WindowQuietSteps ==
    ASSUME Win!TypeOK, WindowInv,
           \/ Win!ReserveBegins \/ Win!DrainBegins \/ Win!FlushEnds \/ Win!PublishFails \/ Win!TestDrain
           \/ Win!WaitChecks \/ Win!SpuriousWakeup
    PROVE  WindowInv' /\ Handed' = Handed
<1>1. /\ UNCHANGED <<pending, inflight, next_submit_seq, next_publish_seq, current, reserved, away, out>>
      /\ caller \in {"idle", "flush", "publish", "test", "check", "asleep"}
      /\ caller' \in (InCall \ {"publish"}) \cup {"idle"}
      /\ (caller' = "settle") <=> (caller = "publish")
      /\ (verdict' = verdict /\ verdict = "ok" /\ caller # "publish") \/ (verdict' = "failed" /\ caller = "publish" /\ verdict = "ok")
      /\ caller = "idle" \/ op' = op
      /\ caller = "idle" /\ op' = "reserve" => next_submit_seq < NumChunks
  BY DEF Win!ReserveBegins, Win!DrainBegins, Win!FlushEnds, Win!PublishFails, Win!TestDrain,
         Win!WaitChecks, Win!SpuriousWakeup, Win!window, Win!ghosts, InCall, WindowInv, Progress, Win!TypeOK
<1>2. Handed' = Handed
  BY <1>1 DEF Handed, Released, InCall
<1>3. Numbers'
  BY <1>1, <1>2 DEF WindowInv, Numbers
<1>4. Accounting'
  BY <1>1 DEF WindowInv, Accounting, Busy, Released, InCall
<1>5. Progress'
  BY <1>1 DEF WindowInv, Progress, Busy, InCall, Win!TypeOK, Handed
<1> QED BY <1>1, <1>2, <1>3, <1>4, <1>5 DEF WindowInv, InCall

\* flush_ready takes the packet whose turn it is.
LEMMA WindowTakes ==
    ASSUME Win!TypeOK, WindowInv, Win!FlushTakes
    PROVE  WindowInv' /\ Handed' = Handed /\ next_publish_seq \in pending /\ current' = next_publish_seq
<1>1. /\ caller = "flush" /\ caller' = "publish"
      /\ next_publish_seq \in pending /\ pending' = pending \ {next_publish_seq}
      /\ current' = next_publish_seq /\ next_publish_seq' = next_publish_seq + 1
      /\ UNCHANGED <<inflight, next_submit_seq, op, verdict, reserved, away, out>>
  BY DEF Win!FlushTakes, Win!HasTurn, Win!ghosts
<1>2. verdict = "ok" /\ next_publish_seq \in 0 .. NumChunks - 1
  BY <1>1, Sizes DEF WindowInv, Progress, Win!TypeOK, Win!Packets
<1>3. Handed' = Handed
  BY <1>1 DEF Handed, Released
<1>4. Numbers /\ Accounting /\ Progress
  BY <1>1 DEF WindowInv
<1>5. next_publish_seq < Handed
  BY <1>1, <1>2, <1>4 DEF Numbers, Chunks
<1>6. next_submit_seq \in Nat /\ next_publish_seq \in Nat /\ inflight \in Nat /\ Handed \in Int
  BY DEF Win!TypeOK, Handed
<1>7. Numbers'
  BY <1>1, <1>2, <1>3, <1>4, <1>5, <1>6, Sizes DEF Numbers, Chunks
<1>8. Accounting'
  BY <1>1, <1>4, <1>6 DEF Accounting, Busy, Released
<1>9. Progress'
  BY <1>1, <1>2, <1>4, <1>6 DEF Progress, Busy, InCall
<1> QED BY <1>1, <1>3, <1>7, <1>8, <1>9 DEF WindowInv

LEMMA WindowPublishes ==
    ASSUME Win!TypeOK, WindowInv, Win!PublishOk
    PROVE  WindowInv' /\ Handed' = Handed /\ Len(out') = Len(out) + 1 /\ current = Len(out)
           /\ \A i \in 1 .. Len(out') : out'[i] = IF i = Len(out) + 1 THEN current ELSE out[i]
<1>1. /\ caller = "publish" /\ caller' = "settle" /\ out' = Append(out, current) /\ verdict' = "ok"
      /\ UNCHANGED <<pending, inflight, next_submit_seq, next_publish_seq, op, current, reserved, away>>
  BY DEF Win!PublishOk, Win!window
<1>2. Numbers /\ Accounting /\ Progress /\ verdict = "ok"
  BY <1>1 DEF WindowInv, Progress, Win!TypeOK
<1>3. next_publish_seq \in Nat /\ Len(out) \in Nat /\ out \in Seq(0 .. NumChunks - 1)
  BY DEF Win!TypeOK, Win!Packets
<1>4. current = next_publish_seq - 1 /\ current = Len(out)
  BY <1>1, <1>2, <1>3 DEF Progress, Busy
<1>5. current \in 0 .. NumChunks - 1
  BY <1>2, <1>4, <1>1, Sizes DEF Win!TypeOK, Progress, Busy
<1>6. Len(out') = Len(out) + 1 /\ \A i \in 1 .. Len(out') : out'[i] = IF i = Len(out) + 1 THEN current ELSE out[i]
  BY <1>1, <1>3, <1>5
<1>7. Handed' = Handed
  BY <1>1 DEF Handed, Released
<1>8. Numbers' /\ Accounting'
  BY <1>1, <1>2, <1>7 DEF Numbers, Accounting, Busy, Released
<1>9. Progress'
  BY <1>1, <1>2, <1>3, <1>4, <1>6 DEF Progress, Busy, InCall
<1> QED BY <1>1, <1>4, <1>6, <1>7, <1>8, <1>9 DEF WindowInv

LEMMA WindowSettles ==
    ASSUME Win!TypeOK, WindowInv, Win!Settle
    PROVE  WindowInv' /\ Handed' = Handed
<1>1. /\ caller = "settle" /\ caller' = IF verdict = "ok" THEN "flush" ELSE "stopped"
      /\ inflight' = IF inflight > 0 THEN inflight - 1 ELSE inflight
      /\ UNCHANGED <<pending, next_submit_seq, next_publish_seq, op, verdict, reserved, away, out>>
  BY DEF Win!Settle, Win!DropSlot
<1>2. Numbers /\ Accounting /\ Progress
  BY <1>1 DEF WindowInv
<1>3. inflight \in Nat /\ next_submit_seq \in Nat /\ next_publish_seq \in Nat /\ verdict \in {"ok", "failed"}
  BY DEF Win!TypeOK
<1>4. Handed' = Handed
  BY <1>1 DEF Handed, Released
<1>5. Numbers'
  BY <1>1, <1>2, <1>4 DEF Numbers
<1>6. Accounting'
  BY <1>1, <1>2, <1>3, Sizes DEF Accounting, Busy, Released, Numbers, Handed
<1>7. Progress'
  BY <1>1, <1>2, <1>3 DEF Progress, Busy, InCall
<1> QED BY <1>1, <1>4, <1>5, <1>6, <1>7 DEF WindowInv

LEMMA WindowReserves ==
    ASSUME Win!TypeOK, WindowInv, Win!TestReserve
    PROVE  WindowInv' /\ Handed' = Handed
<1>1. /\ caller = "test" /\ op = "reserve"
      /\ UNCHANGED <<pending, next_publish_seq, op, current, verdict, away, out>>
      /\ \/ /\ inflight < MaxInflight /\ caller' = "holding"
            /\ next_submit_seq' = next_submit_seq + 1 /\ reserved' = reserved + 1 /\ inflight' = inflight + 1
         \/ caller' = "check" /\ UNCHANGED <<next_submit_seq, reserved, inflight>>
  BY DEF Win!TestReserve, Win!WindowOpen
<1>2. Numbers /\ Accounting /\ Progress
  BY <1>1 DEF WindowInv
<1>3. inflight \in Nat /\ next_submit_seq \in Nat /\ next_publish_seq \in Nat /\ verdict = "ok"
  BY <1>1, <1>2 DEF Win!TypeOK, Progress
<1>4. Handed' = Handed
  BY <1>1, <1>3 DEF Handed, Released
<1>5. Numbers'
  BY <1>1, <1>2, <1>4 DEF Numbers
<1>6. Accounting'
  BY <1>1, <1>2, <1>3, Sizes DEF Accounting, Busy, Released
<1>7. Progress'
  BY <1>1, <1>2, <1>3 DEF Progress, Busy, InCall
<1> QED BY <1>1, <1>4, <1>5, <1>6, <1>7 DEF WindowInv

\* The packet goes to the pool, or the pool refuses it.
LEMMA WindowHandsOver ==
    ASSUME Win!TypeOK, WindowInv, Win!HandOver
    PROVE  WindowInv' /\ Handed' = Handed + 1 /\ away' = away \cup {Handed} /\ Handed \in Chunks
<1>1. /\ caller = "holding" /\ caller' = "idle" /\ away' = away \cup {next_submit_seq - 1}
      /\ UNCHANGED <<pending, inflight, next_submit_seq, next_publish_seq, op, current, verdict, reserved, out>>
  BY DEF Win!HandOver, Win!window
<1>2. Numbers /\ Accounting /\ Progress
  BY <1>1 DEF WindowInv
<1>3. inflight \in Nat /\ next_submit_seq \in 0 .. NumChunks /\ next_publish_seq \in Nat
  BY DEF Win!TypeOK
<1>4. Handed = next_submit_seq - 1 /\ Handed' = next_submit_seq /\ Handed \in Int
  BY <1>1, <1>3 DEF Handed, Released
<1>5. Handed \in Chunks /\ Handed' = Handed + 1
  BY <1>2, <1>3, <1>4, Sizes DEF Numbers, Chunks
<1>6. Numbers'
  BY <1>1, <1>2, <1>3, <1>4, <1>5, Sizes DEF Numbers, Chunks
<1>7. Accounting'
  BY <1>1, <1>2 DEF Accounting, Busy, Released
<1>8. Progress'
  BY <1>1, <1>2 DEF Progress, Busy, InCall
<1> QED BY <1>1, <1>4, <1>5, <1>6, <1>7, <1>8 DEF WindowInv

LEMMA WindowReleases ==
    ASSUME Win!TypeOK, WindowInv, Win!ReleaseSlot
    PROVE  WindowInv' /\ Handed' = Handed /\ Released'
<1>1. /\ caller = "holding" /\ caller' = "stopped"
      /\ inflight' = IF inflight > 0 THEN inflight - 1 ELSE inflight
      /\ UNCHANGED <<pending, next_submit_seq, next_publish_seq, op, current, verdict, reserved, away, out>>
  BY DEF Win!ReleaseSlot, Win!DropSlot, Win!ghosts
<1>2. Numbers /\ Accounting /\ Progress
  BY <1>1 DEF WindowInv
<1>3. inflight \in Nat /\ next_submit_seq \in Nat /\ next_publish_seq \in Nat /\ verdict = "ok"
  BY <1>1, <1>2 DEF Win!TypeOK, Progress
<1>4. Handed' = Handed /\ Released' /\ Handed = next_submit_seq - 1
  BY <1>1, <1>3 DEF Handed, Released
<1>5. Numbers'
  BY <1>1, <1>2, <1>4 DEF Numbers
<1>6. Accounting'
  BY <1>1, <1>2, <1>3, <1>4, Sizes DEF Accounting, Busy, Released, Numbers
<1>7. Progress'
  BY <1>1, <1>2, <1>3 DEF Progress, Busy, InCall
<1> QED BY <1>1, <1>4, <1>5, <1>6, <1>7 DEF WindowInv

LEMMA WindowReturns ==
    ASSUME Win!TypeOK, WindowInv, NEW s \in Chunks, Win!PublishPacket(s)
    PROVE  WindowInv' /\ Handed' = Handed /\ away' = away \ {s}
<1>1. /\ s \in away /\ away' = away \ {s} /\ pending' = pending \cup {s}
      /\ caller' = IF caller = "asleep" THEN "check" ELSE caller
      /\ UNCHANGED <<inflight, next_submit_seq, next_publish_seq, op, current, verdict, reserved, out>>
  BY DEF Win!PublishPacket, Win!WakeCaller
<1>2. Numbers /\ Accounting /\ Progress /\ caller # "cleaned"
  BY <1>1 DEF WindowInv
<1>3. Handed' = Handed
  BY <1>1 DEF Handed, Released
<1>4. Numbers'
  BY <1>1, <1>2, <1>3 DEF Numbers
<1>5. Accounting' /\ Progress'
  BY <1>1, <1>2 DEF Accounting, Progress, Busy, Released, InCall
<1> QED BY <1>1, <1>2, <1>3, <1>4, <1>5 DEF WindowInv

LEMMA WindowCleanup ==
    ASSUME WindowInv, Win!Cleanup
    PROVE  WindowInv' /\ Handed' = 0 /\ away' = {}
BY DEF Win!Cleanup, WindowInv, Handed, Released

-----------------------------------------------------------------------------
(* The pool. *)

\* The steps of the pool that are not joined to one of the window, ...
OwnerCall ==
    \/ Pool!InitAllocFails \/ Pool!CreateThread \/ Pool!CreateThreadFails
    \/ Pool!SubmitRefused \/ Pool!OwnerPublishes
    \/ Pool!Close \/ Pool!Join \/ Pool!Dispose \/ Pool!DisposeJoined \/ Pool!JoinReturns \/ Pool!Reclaim

ThreadCall(w) ==
    \/ Pool!WorkerInit(w) \/ Pool!Sleep(w) \/ Pool!Take(w) \/ Pool!Exit(w)

\* ... and all of them.
OwnerStep == OwnerCall \/ Pool!SubmitAccepted
ThreadStep(w) == ThreadCall(w) \/ Pool!Finish(w)

\* The ring index wraps to 0 after the last slot.
LEMMA SlotWraps ==
    ASSUME NEW i \in Pool!Slots
    PROVE  /\ Pool!NextSlot(i) = IF i + 1 = MaxInflight THEN 0 ELSE i + 1
           /\ Pool!NextSlot(i) \in Pool!Slots /\ 0 \in Pool!Slots
<1> USE Sizes
<1>1. i \in Nat /\ i < MaxInflight
  BY DEF Pool!Slots
<1>2. CASE i + 1 = MaxInflight
  <2>1. MaxInflight % MaxInflight = 0
    OBVIOUS
  <2> QED BY <1>1, <1>2, <2>1 DEF Pool!NextSlot, Pool!Slots
<1>3. CASE i + 1 # MaxInflight
  <2>1. i + 1 \in 0 .. MaxInflight - 1
    BY <1>1, <1>3
  <2>2. (i + 1) % MaxInflight = i + 1
    BY <1>1, <2>1
  <2> QED BY <2>1, <2>2, <1>3 DEF Pool!NextSlot, Pool!Slots
<1> QED BY <1>2, <1>3

\* A broadcast leaves no worker asleep and changes nothing else.
LEMMA WakeEffect ==
    ASSUME Pool!TypeOK
    PROVE  /\ Pool!WakeWorkers \in [Pool!Workers -> Pool!WorkerStates]
           /\ \A w \in Pool!Workers :
                Pool!WakeWorkers[w] = IF worker[w] = "wait" THEN "loop" ELSE worker[w]
BY DEF Pool!TypeOK, Pool!WakeWorkers, Pool!WorkerStates

LEMMA PoolTypeOwner ==
    ASSUME Pool!TypeOK, OwnerStep
    PROVE  Pool!TypeOK'
<1> USE Sizes DEF Pool!ring, Pool!flags, Pool!OwnerStates
<1>1. CASE Pool!InitAllocFails \/ Pool!Join \/ Pool!DisposeJoined
  BY <1>1 DEF Pool!TypeOK, Pool!InitAllocFails, Pool!Join, Pool!DisposeJoined
<1>2. CASE Pool!CreateThread
  BY <1>2 DEF Pool!TypeOK, Pool!CreateThread, Pool!Workers, Pool!WorkerStates
<1>3. CASE Pool!CreateThreadFails
  BY <1>3, WakeEffect DEF Pool!TypeOK, Pool!CreateThreadFails
<1>4. CASE Pool!SubmitRefused
  BY <1>4 DEF Pool!TypeOK, Pool!SubmitRefused, Pool!InSubmit, Pool!Jobs, Pool!Phases
<1>5. CASE Pool!SubmitAccepted
  <2>1. next \in Pool!Jobs /\ tail \in Pool!Slots
    BY <1>5 DEF Pool!SubmitAccepted, Pool!InSubmit, Pool!TypeOK
  <2>2. items' \in [Pool!Slots -> Pool!Jobs \cup {Pool!NoJob}] /\ tail' \in Pool!Slots
    BY <1>5, <2>1, SlotWraps DEF Pool!SubmitAccepted, Pool!TypeOK
  <2>3. count' \in 0 .. QueueSize
    BY <1>5 DEF Pool!SubmitAccepted, Pool!TypeOK
  <2>4. worker' \in [Pool!Workers -> Pool!WorkerStates]
    BY <1>5 DEF Pool!SubmitAccepted, Pool!TypeOK, Pool!Waiting, Pool!WorkerStates
  <2>5. place' \in [Pool!Jobs -> Pool!Places] /\ next' \in 1 .. NumChunks + 1
    BY <1>5, <2>1 DEF Pool!SubmitAccepted, Pool!TypeOK, Pool!Places, Pool!Jobs
  <2> QED BY <1>5, <2>2, <2>3, <2>4, <2>5 DEF Pool!SubmitAccepted, Pool!TypeOK
<1>6. CASE Pool!OwnerPublishes
  BY <1>6 DEF Pool!TypeOK, Pool!OwnerPublishes, Pool!Phases
<1>7. CASE Pool!Close \/ Pool!Dispose
  BY <1>7, WakeEffect DEF Pool!TypeOK, Pool!Close, Pool!Dispose, Pool!CloseEffect, Pool!Phases
<1>8. CASE Pool!JoinReturns
  <2>1. cancel' \in SUBSET Pool!Phases
    BY <1>8 DEF Pool!TypeOK, Pool!JoinReturns, Pool!Phases
  <2> QED BY <1>8, <2>1 DEF Pool!TypeOK, Pool!JoinReturns
<1>9. CASE Pool!Reclaim
  <2>1. head' \in Pool!Slots /\ tail' \in Pool!Slots /\ count' \in 0 .. QueueSize /\ started' \in 0 .. NumThreads
    BY <1>9 DEF Pool!Reclaim, Pool!Slots
  <2>2. place' \in [Pool!Jobs -> Pool!Places]
    BY <1>9 DEF Pool!Reclaim, Pool!TypeOK, Pool!Places
  <2>3. items' \in [Pool!Slots -> Pool!Jobs \cup {Pool!NoJob}]
    BY <1>9 DEF Pool!Reclaim
  <2> QED BY <1>9, <2>1, <2>2, <2>3 DEF Pool!TypeOK, Pool!Reclaim
<1> QED BY <1>1, <1>2, <1>3, <1>4, <1>5, <1>6, <1>7, <1>8, <1>9 DEF OwnerStep, OwnerCall

LEMMA PoolTypeThread ==
    ASSUME Pool!TypeOK, (\E w \in Pool!Workers : ThreadStep(w)) \/ Pool!SpuriousWakeup
    PROVE  Pool!TypeOK'
<1> USE Sizes DEF Pool!ring, Pool!flags, Pool!OwnerStates, Pool!WorkerStates
<1>1. ASSUME NEW w \in Pool!Workers, ThreadStep(w) PROVE Pool!TypeOK'
  <2>1. CASE Pool!WorkerInit(w) \/ Pool!Sleep(w) \/ Pool!Exit(w)
    BY <2>1 DEF Pool!TypeOK, Pool!WorkerInit, Pool!Sleep, Pool!Exit
  <2>2. CASE Pool!Take(w)
    <3>1. head' \in Pool!Slots
      BY <2>2, SlotWraps DEF Pool!Take, Pool!TypeOK
    <3>2. items' \in [Pool!Slots -> Pool!Jobs \cup {Pool!NoJob}] /\ hand' \in [Pool!Workers -> Pool!Jobs \cup {Pool!NoJob}]
      BY <2>2 DEF Pool!Take, Pool!TypeOK
    <3>3. count' \in 0 .. QueueSize
      BY <2>2 DEF Pool!Take, Pool!TypeOK
    <3>4. place' \in [Pool!Jobs -> Pool!Places]
      BY <2>2 DEF Pool!Take, Pool!TypeOK, Pool!Places
    <3> QED BY <2>2, <3>1, <3>2, <3>3, <3>4 DEF Pool!Take, Pool!TypeOK, Pool!WakeOwner
  <2>3. CASE Pool!Finish(w)
    BY <2>3 DEF Pool!TypeOK, Pool!Finish, Pool!Places
  <2> QED BY <1>1, <2>1, <2>2, <2>3 DEF ThreadStep, ThreadCall
<1>2. CASE Pool!SpuriousWakeup
  BY <1>2 DEF Pool!TypeOK, Pool!SpuriousWakeup, Pool!Waiting
<1> QED BY <1>1, <1>2

LEMMA ThreadsOwner ==
    ASSUME Pool!TypeOK, Threads, OwnerStep
    PROVE  Threads'
<1> USE Sizes DEF Pool!ring, Pool!flags, Pool!Workers, Idle
<1>1. CASE Pool!InitAllocFails
  BY <1>1 DEF Threads, Pool!TypeOK, Pool!InitAllocFails
<1>2. CASE Pool!CreateThread
  BY <1>2 DEF Threads, Pool!TypeOK, Pool!CreateThread
<1>3. CASE Pool!CreateThreadFails \/ Pool!Close \/ Pool!Dispose
  BY <1>3, WakeEffect DEF Threads, Pool!TypeOK, Pool!CreateThreadFails, Pool!Close, Pool!Dispose, Pool!CloseEffect
<1>4. CASE Pool!SubmitRefused \/ Pool!OwnerPublishes
  BY <1>4 DEF Threads, Pool!SubmitRefused, Pool!InSubmit, Pool!OwnerPublishes
<1>8. CASE Pool!Join
  BY <1>8 DEF Threads, Pool!Join
<1>9. CASE Pool!DisposeJoined
  BY <1>9 DEF Threads, Pool!DisposeJoined
<1>5. CASE Pool!SubmitAccepted
  <2>1. owner' = "ready" /\ owner = "ready" /\ ~closed /\ ~joined
    BY <1>5 DEF Threads, Pool!SubmitAccepted, Pool!InSubmit, Pool!Accepts
  <2>2. \A w \in Pool!Workers : worker'[w] = worker[w] \/ (worker[w] = "wait" /\ worker'[w] = "loop")
    BY <1>5 DEF Pool!SubmitAccepted, Pool!Waiting, Pool!TypeOK
  <2> QED BY <1>5, <2>1, <2>2 DEF Threads, Pool!TypeOK, Pool!SubmitAccepted
<1>6. CASE Pool!JoinReturns
  <2>1. \A w \in Pool!Workers : Idle(w)
    BY <1>6 DEF Threads, Pool!JoinReturns, Pool!AllJoined, Pool!Stopped, Pool!TypeOK
  <2>2. count = 0 /\ closed
    <3>1. CASE owner = "abort"
      BY <3>1 DEF Threads
    <3>2. CASE owner # "abort"
      <4>1. 0 \in Pool!Workers /\ worker[0] = "gone"
        BY <1>6, <3>2 DEF Threads, Pool!JoinReturns, Pool!AllJoined, Pool!Stopped, Pool!TypeOK
      <4> QED BY <1>6, <3>2, <4>1 DEF Threads, Pool!JoinReturns
    <3> QED BY <3>1, <3>2
  <2> QED BY <1>6, <2>1, <2>2 DEF Threads, Pool!TypeOK, Pool!JoinReturns
<1>7. CASE Pool!Reclaim
  BY <1>7 DEF Threads, Pool!TypeOK, Pool!Reclaim
<1> QED BY <1>1, <1>2, <1>3, <1>4, <1>5, <1>6, <1>7, <1>8, <1>9 DEF OwnerStep, OwnerCall

LEMMA ThreadsThread ==
    ASSUME Pool!TypeOK, Threads, (\E w \in Pool!Workers : ThreadStep(w)) \/ Pool!SpuriousWakeup
    PROVE  Threads' /\ owner' = owner
<1> USE Sizes DEF Pool!ring, Pool!flags, Idle
<1>1. ASSUME NEW w \in Pool!Workers, ThreadStep(w) PROVE Threads' /\ owner' = owner
  <2>1. CASE Pool!WorkerInit(w) \/ Pool!Sleep(w) \/ Pool!Exit(w) \/ Pool!Finish(w)
    BY <2>1 DEF Threads, Pool!TypeOK, Pool!WorkerInit, Pool!Sleep, Pool!Exit, Pool!Finish
  <2>2. CASE Pool!Take(w)
    <3>1. owner' = owner /\ count # 0
      BY <2>2 DEF Pool!Take, Pool!WakeOwner, Pool!TypeOK, Threads
    <3> QED BY <2>2, <3>1 DEF Threads, Pool!TypeOK, Pool!Take
  <2> QED BY <1>1, <2>1, <2>2 DEF ThreadStep, ThreadCall
<1>2. CASE Pool!SpuriousWakeup
  BY <1>2 DEF Threads, Pool!TypeOK, Pool!SpuriousWakeup, Pool!Waiting
<1> QED BY <1>1, <1>2

-----------------------------------------------------------------------------
(* The ring and the hands: which chunks workers own. *)

\* A step that touches neither, and starts or ends no callback.
LEMMA RingUntouched ==
    ASSUME Queue, Hands, UNCHANGED <<items, head, tail, count, hand>>,
           \A w \in Pool!Workers : worker'[w] = "run" <=> worker[w] = "run",
           Handed' = Handed, away' = away
    PROVE  Queue' /\ Hands'
<1>1. Queue'
  BY DEF Queue, Offset
<1>2. Hands'
  BY DEF Hands
<1> QED BY <1>1, <1>2

LEMMA RingReclaimed ==
    ASSUME Pool!TypeOK, Queue, Hands, Threads, Pool!Reclaim, Handed \in Nat, Handed' = Handed, away' = away
    PROVE  Queue' /\ Hands'
<1> USE Sizes
<1>1. count = 0 /\ count' = 0 /\ head' = 0 /\ tail' = 0 /\ UNCHANGED <<worker, hand>>
      /\ \A i \in Pool!Slots : items'[i] = Pool!NoJob
  BY DEF Pool!Reclaim, Threads
<1>2. Queue'
  BY <1>1 DEF Queue, Offset, Pool!Slots
<1>3. Hands'
  BY <1>1 DEF Hands
<1> QED BY <1>2, <1>3

\* The slot at the tail is the first that holds no job.
LEMMA TailIsFree ==
    ASSUME Pool!TypeOK, Queue, count < MaxInflight
    PROVE  \A i \in Pool!Slots : Offset(i) \in 0 .. MaxInflight - 1 /\ (Offset(i) = count <=> i = tail)
BY Sizes DEF Pool!TypeOK, Pool!Slots, Queue, Offset

\* submit_chunk: the chunk joins the ring behind the others.
LEMMA RingGrows ==
    ASSUME Pool!TypeOK, Win!TypeOK, WindowInv, Queue, Hands, next = Handed + 1,
           Pool!SubmitAccepted, Win!HandOver
    PROVE  Queue' /\ Hands'
<1> USE Sizes DEF Pool!flags
<1>1. Handed' = Handed + 1 /\ away' = away \cup {Handed} /\ Handed \in Chunks
  BY WindowHandsOver
<1>2. /\ count' = count + 1 /\ count < MaxInflight /\ head' = head /\ hand' = hand
      /\ items' = [items EXCEPT ![tail] = Handed + 1] /\ tail' = Pool!NextSlot(tail)
  BY DEF Pool!SubmitAccepted
<1>3. \A w \in Pool!Workers : worker'[w] = "run" <=> worker[w] = "run"
  BY DEF Pool!SubmitAccepted, Pool!Waiting, Pool!TypeOK
<1>4. /\ count \in Nat /\ head \in Nat /\ tail \in Pool!Slots /\ tail \in Nat /\ Handed \in Nat
      /\ head < MaxInflight /\ tail < MaxInflight
      /\ items \in [Pool!Slots -> Pool!Jobs \cup {Pool!NoJob}]
  BY <1>1 DEF Pool!TypeOK, Pool!Slots, Chunks
<1>5. tail' = IF head' + count' < MaxInflight THEN head' + count' ELSE head' + count' - MaxInflight
  BY <1>2, <1>4, SlotWraps DEF Queue
<1>6. \A i \in Pool!Slots :
        items'[i] = IF Offset(i) < count' THEN Handed' - count' + 1 + Offset(i) ELSE Pool!NoJob
  BY <1>1, <1>2, <1>4, TailIsFree DEF Queue
<1>7. Queue'
  BY <1>1, <1>2, <1>4, <1>5, <1>6 DEF Queue, Offset
<1>8. \A s \in Chunks : s \in away' <=> \/ Handed' - count' <= s /\ s < Handed'
                                        \/ \E w \in Pool!Workers : worker'[w] = "run" /\ hand'[w] = s + 1
  BY <1>1, <1>2, <1>3, <1>4 DEF Hands, Queue, Chunks
<1>9. Hands'
  BY <1>1, <1>2, <1>3, <1>4, <1>8 DEF Hands
<1> QED BY <1>7, <1>9

\* A worker takes the oldest chunk of the ring.
LEMMA RingShrinks ==
    ASSUME Pool!TypeOK, Queue, Hands, NEW w \in Pool!Workers, Pool!Take(w),
           Handed \in Nat, Handed' = Handed, away' = away
    PROVE  Queue' /\ Hands' /\ hand'[w] = Handed - count + 1
<1> USE Sizes DEF Pool!flags
<1>1. /\ count > 0 /\ count' = count - 1 /\ head' = Pool!NextSlot(head) /\ tail' = tail
      /\ items' = [items EXCEPT ![head] = Pool!NoJob]
      /\ hand' = [hand EXCEPT ![w] = items[head]]
      /\ worker' = [worker EXCEPT ![w] = "run"] /\ worker[w] = "loop"
  BY DEF Pool!Take
<1>2. /\ count \in Nat /\ count <= MaxInflight /\ head \in Pool!Slots /\ head \in Nat /\ head < MaxInflight
      /\ items \in [Pool!Slots -> Pool!Jobs \cup {Pool!NoJob}]
      /\ worker \in [Pool!Workers -> Pool!WorkerStates] /\ hand \in [Pool!Workers -> Pool!Jobs \cup {Pool!NoJob}]
  BY DEF Pool!TypeOK, Pool!Slots
<1>3. head' = IF head + 1 = MaxInflight THEN 0 ELSE head + 1
  BY <1>1, <1>2, SlotWraps
<1>4. items[head] = Handed - count + 1 /\ hand'[w] = Handed - count + 1 /\ count <= Handed
  BY <1>1, <1>2 DEF Queue, Offset
<1>5. \A i \in Pool!Slots :
        items'[i] = IF Offset(i)' < count' THEN Handed' - count' + 1 + Offset(i)' ELSE Pool!NoJob
  <2> TAKE i \in Pool!Slots
  <2>1. i \in Nat /\ i < MaxInflight
    BY DEF Pool!Slots
  <2>2. Offset(i)' = IF i = head THEN MaxInflight - 1 ELSE Offset(i) - 1
    BY <1>2, <1>3, <2>1 DEF Offset
  <2>3. items'[i] = IF i = head THEN Pool!NoJob ELSE items[i]
    BY <1>1, <1>2
  <2>4. items[i] = IF Offset(i) < count THEN Handed - count + 1 + Offset(i) ELSE Pool!NoJob
    BY DEF Queue
  <2>5. Offset(i) \in Nat
    BY <1>2, <2>1 DEF Offset
  <2> QED BY <1>1, <1>2, <2>2, <2>3, <2>4, <2>5
<1>6. Queue'
  BY <1>1, <1>2, <1>3, <1>4, <1>5 DEF Queue
<1>7. \A v \in Pool!Workers : (worker'[v] = "run" <=> worker[v] = "run" \/ v = w)
                              /\ hand'[v] = (IF v = w THEN Handed - count + 1 ELSE hand[v])
  BY <1>1, <1>2, <1>4
<1>8. \A s \in Chunks : s \in away' <=> \/ Handed' - count' <= s /\ s < Handed'
                                        \/ \E v \in Pool!Workers : worker'[v] = "run" /\ hand'[v] = s + 1
  <2> TAKE s \in Chunks
  <2>1. s \in Nat
    BY DEF Chunks
  <2>2. CASE s = Handed - count
    BY <1>1, <1>2, <1>4, <1>7, <2>1, <2>2 DEF Hands
  <2>3. CASE s # Handed - count
    <3>1. (\E v \in Pool!Workers : worker'[v] = "run" /\ hand'[v] = s + 1)
            <=> \E v \in Pool!Workers : worker[v] = "run" /\ hand[v] = s + 1
      BY <1>1, <1>2, <1>7, <2>1, <2>3
    <3>2. Handed' - count' <= s /\ s < Handed' <=> Handed - count <= s /\ s < Handed
      BY <1>1, <1>2, <2>1, <2>3
    <3> QED BY <3>1, <3>2 DEF Hands
  <2> QED BY <2>2, <2>3
<1>9. Hands'
  <2>1. \A v \in Pool!Workers : hand'[v] # Pool!NoJob <=> worker'[v] = "run"
    BY <1>1, <1>2, <1>4, <1>7 DEF Hands, Pool!NoJob
  <2>2. \A v \in Pool!Workers : worker'[v] = "run" => hand'[v] <= Handed' - count'
    BY <1>1, <1>2, <1>4, <1>7 DEF Hands, Pool!Jobs, Pool!NoJob
  <2>3. \A u, v \in Pool!Workers : worker'[u] = "run" /\ hand'[u] = hand'[v] => u = v
    BY <1>1, <1>2, <1>4, <1>7, <2>1, <2>2 DEF Hands, Pool!Jobs, Pool!NoJob
  <2> QED BY <2>1, <2>2, <2>3, <1>8 DEF Hands
<1> QED BY <1>4, <1>6, <1>9

\* A worker returns the chunk in its hand to the window.
LEMMA HandEmpties ==
    ASSUME Pool!TypeOK, Win!TypeOK, Queue, Hands, NEW w \in Pool!Workers, Pool!Finish(w),
           Handed \in Nat, Handed' = Handed, away' = away \ {hand[w] - 1}
    PROVE  Queue' /\ Hands'
<1> USE Sizes
<1>1. /\ UNCHANGED <<items, head, tail, count>> /\ worker[w] = "run"
      /\ hand' = [hand EXCEPT ![w] = Pool!NoJob]
      /\ worker' = [worker EXCEPT ![w] = "loop"]
  BY DEF Pool!Finish, Pool!ring
<1>2. /\ count \in Nat
      /\ worker \in [Pool!Workers -> Pool!WorkerStates] /\ hand \in [Pool!Workers -> Pool!Jobs \cup {Pool!NoJob}]
  BY DEF Pool!TypeOK
<1>3. Queue'
  BY <1>1 DEF Queue, Offset
<1>4. \A v \in Pool!Workers : (worker'[v] = "run" <=> worker[v] = "run" /\ v # w)
                              /\ hand'[v] = (IF v = w THEN Pool!NoJob ELSE hand[v])
  BY <1>1, <1>2
<1>5. hand[w] \in Nat /\ hand[w] > 0 /\ hand[w] <= Handed - count
  BY <1>1, <1>2 DEF Hands, Pool!Jobs, Pool!NoJob
<1>6. \A s \in Chunks : s \in away' <=> \/ Handed' - count' <= s /\ s < Handed'
                                        \/ \E v \in Pool!Workers : worker'[v] = "run" /\ hand'[v] = s + 1
  <2> TAKE s \in Chunks
  <2>1. s \in Nat
    BY DEF Chunks
  <2>2. CASE s = hand[w] - 1
    <3>1. ~\E v \in Pool!Workers : worker'[v] = "run" /\ hand'[v] = s + 1
      BY <1>1, <1>4, <1>5, <2>2 DEF Hands
    <3>2. ~(Handed' - count' <= s)
      BY <1>1, <1>2, <1>5, <2>2
    <3> QED BY <2>2, <3>1, <3>2
  <2>3. CASE s # hand[w] - 1
    <3>1. (\E v \in Pool!Workers : worker'[v] = "run" /\ hand'[v] = s + 1)
            <=> \E v \in Pool!Workers : worker[v] = "run" /\ hand[v] = s + 1
      BY <1>4, <1>5, <2>1, <2>3
    <3> QED BY <1>1, <2>3, <3>1 DEF Hands
  <2> QED BY <2>2, <2>3
<1>7. Hands'
  <2>1. \A v \in Pool!Workers : hand'[v] # Pool!NoJob <=> worker'[v] = "run"
    BY <1>4 DEF Hands
  <2>2. \A v \in Pool!Workers : worker'[v] = "run" => hand'[v] <= Handed' - count'
    BY <1>1, <1>4 DEF Hands
  <2>3. \A u, v \in Pool!Workers : worker'[u] = "run" /\ hand'[u] = hand'[v] => u = v
    BY <1>4, <2>1 DEF Hands
  <2> QED BY <1>6, <2>1, <2>2, <2>3 DEF Hands
<1> QED BY <1>3, <1>7

-----------------------------------------------------------------------------
(* The steps of the filter, by what they do to the two parts. *)

\* Neither part moves; at most a request for cancellation is made.
StepsNone == UNCHANGED <<pool, win>> /\ cancel' \in {cancel, cancel \cup {"requested"}}
StepsPool ==
    /\ OwnerCall \/ (\E w \in Pool!Workers : ThreadCall(w)) \/ Pool!SpuriousWakeup
    /\ UNCHANGED win
StepsWindow ==
    /\ \/ Win!ReserveBegins \/ Win!DrainBegins \/ Win!FlushEnds \/ Win!PublishFails \/ Win!TestDrain
          \/ Win!WaitChecks \/ Win!SpuriousWakeup
       \/ Win!FlushTakes \/ Win!PublishOk \/ Win!Settle \/ Win!TestReserve \/ Win!ReleaseSlot
       \/ main = "cleanup" /\ Win!Cleanup
    /\ UNCHANGED pool
StepsSubmit == main = "submit" /\ Pool!SubmitAccepted /\ Win!HandOver
StepsReturn ==
    \E w \in Pool!Workers :
      worker[w] = "run" /\ Pool!Finish(w) /\ Win!PublishPacket(hand[w] - 1)

LEMMA StepKinds ==
    ASSUME [Next]_vars
    PROVE  StepsNone \/ StepsPool \/ StepsWindow \/ StepsSubmit \/ StepsReturn
<1>1. CASE MainNext
  <2>1. CASE CreatePool \/ SubmitRefused \/ InputEnds \/ CloseAgain \/ JoinPool \/ DisposePool \/ DisposeJoins
             \/ ReclaimJobs
    BY <2>1 DEF CreatePool, SubmitRefused, InputEnds, CloseAgain, JoinPool, DisposePool, DisposeJoins,
       ReclaimJobs, StepsPool, OwnerCall
  <2>2. CASE InitWindow \/ ProducerFails
    BY <2>2 DEF InitWindow, ProducerFails, StepsNone
  <2>3. CASE MarkPublished
    BY <2>3 DEF MarkPublished, StepsNone, StepsPool, OwnerCall
  <2>4. CASE ChunkFull \/ WindowStep \/ WriteChunk \/ WriteFails \/ SettleChunk \/ SlotReserved \/ ReleaseChunk
             \/ DrainBegins \/ DrainEnds \/ CleanupWindow
    BY <2>4 DEF ChunkFull, WindowStep, WriteChunk, WriteFails, SettleChunk, SlotReserved, ReleaseChunk,
       DrainBegins, DrainEnds, CleanupWindow, StepsWindow
  <2>5. CASE SubmitChunk
    BY <2>5 DEF SubmitChunk, StepsSubmit
  <2> QED BY <1>1, <2>1, <2>2, <2>3, <2>4, <2>5 DEF MainNext
<1>2. ASSUME NEW w \in Pool!Workers, WorkerNext(w)
      PROVE  StepsNone \/ StepsPool \/ StepsReturn
  BY <1>2 DEF WorkerNext, PoolStep, CompressSkipped, Compress, CompressFails, ReturnChunk,
     StepsNone, StepsPool, ThreadCall, StepsReturn
<1>3. CASE SpuriousWakeup
  BY <1>3 DEF SpuriousWakeup, StepsPool, StepsWindow
<1>4. CASE Terminated \/ UNCHANGED vars
  BY <1>4 DEF Terminated, vars, StepsNone
<1> QED BY <1>1, <1>2, <1>3, <1>4 DEF Next

LEMMA HandedIsNat ==
    ASSUME Win!TypeOK, WindowInv
    PROVE  Handed \in Nat /\ Handed <= NumChunks
BY Sizes DEF Win!TypeOK, WindowInv, Numbers, Handed, Released

\* A worker's hand holds the job of a chunk.
LEMMA HandIsChunk ==
    ASSUME Pool!TypeOK, Hands, NEW w \in Pool!Workers, worker[w] = "run"
    PROVE  hand[w] \in Nat /\ hand[w] - 1 \in Chunks
BY Sizes DEF Pool!TypeOK, Hands, Pool!Jobs, Pool!NoJob, Chunks

LEMMA PartsKeep ==
    ASSUME StreamInv, [Next]_vars
    PROVE  /\ Pool!TypeOK' /\ Win!TypeOK' /\ WindowInv' /\ Threads' /\ Queue' /\ Hands'
           /\ ~(StepsSubmit \/ caller' = "cleaned") => Handed' = Handed
<1> USE DEF StreamInv, pool, win
<1>a. StepsNone \/ StepsPool \/ StepsWindow \/ StepsSubmit \/ StepsReturn
  BY StepKinds
<1>b. Handed \in Nat
  BY HandedIsNat
<1>c. UNCHANGED win => WindowInv' /\ Handed' = Handed /\ away' = away
  BY DEF WindowInv, Numbers, Accounting, Progress, Handed, Released, Busy
<1>d. UNCHANGED pool => Threads' /\ (cancel' \in SUBSET Pool!Phases => Pool!TypeOK')
  BY DEF Threads, Idle, Pool!TypeOK
<1>e. UNCHANGED win => (cancel' \in SUBSET Win!Phases => Win!TypeOK')
  BY DEF Win!TypeOK
<1>f. UNCHANGED pool /\ Handed' = Handed /\ away' = away => Queue' /\ Hands'
  BY RingUntouched
<1>1. CASE StepsNone
  <2>1. cancel' \in SUBSET Pool!Phases
    BY <1>1 DEF StepsNone, Pool!TypeOK, Pool!Phases
  <2>2. cancel' \in SUBSET Win!Phases
    BY <2>1 DEF Pool!Phases, Win!Phases
  <2> QED BY <1>1, <1>c, <1>d, <1>e, <1>f, <2>1, <2>2 DEF StepsNone
<1>2. CASE StepsPool
  <2>1. Pool!TypeOK' /\ Threads'
    BY <1>2, PoolTypeOwner, PoolTypeThread, ThreadsOwner, ThreadsThread DEF StepsPool, OwnerStep, ThreadStep
  <2>a. cancel' \in SUBSET Win!Phases
    BY <2>1 DEF Pool!TypeOK, Pool!Phases, Win!Phases
  <2>2. Win!TypeOK' /\ WindowInv' /\ Handed' = Handed /\ away' = away
    BY <1>2, <1>c, <1>e, <2>a DEF StepsPool
  <2>3. ASSUME OwnerCall PROVE Queue' /\ Hands'
    <3>1. CASE Pool!Reclaim
      BY <1>b, <2>2, <3>1, RingReclaimed
    <3>2. CASE ~Pool!Reclaim
      <4>1. UNCHANGED <<items, head, tail, count, hand>>
        BY <2>3, <3>2 DEF OwnerCall, Pool!ring, Pool!InitAllocFails, Pool!CreateThread, Pool!CreateThreadFails,
           Pool!SubmitRefused, Pool!OwnerPublishes, Pool!Close, Pool!Join, Pool!Dispose, Pool!DisposeJoined,
           Pool!JoinReturns
      <4>2. \A w \in Pool!Workers : worker'[w] = "run" <=> worker[w] = "run"
        <5>1. CASE Pool!CreateThread
          <6>1. started \in Pool!Workers /\ worker[started] = "none" /\ worker \in [Pool!Workers -> Pool!WorkerStates]
            BY <5>1, Sizes DEF Pool!CreateThread, Threads, Pool!TypeOK, Pool!Workers
          <6> QED BY <5>1, <6>1 DEF Pool!CreateThread
        <5>2. CASE Pool!CreateThreadFails \/ Pool!Close \/ Pool!Dispose
          BY <5>2, WakeEffect DEF Pool!CreateThreadFails, Pool!Close, Pool!Dispose, Pool!CloseEffect
        <5>3. CASE ~(Pool!CreateThread \/ Pool!CreateThreadFails \/ Pool!Close \/ Pool!Dispose)
          BY <2>3, <3>2, <5>3 DEF OwnerCall, Pool!InitAllocFails, Pool!SubmitRefused, Pool!OwnerPublishes,
             Pool!Join, Pool!DisposeJoined, Pool!JoinReturns
        <5> QED BY <5>1, <5>2, <5>3
      <4> QED BY <2>2, <4>1, <4>2, RingUntouched
    <3> QED BY <3>1, <3>2
  <2>4. ASSUME NEW w \in Pool!Workers, ThreadCall(w) PROVE Queue' /\ Hands'
    <3>1. CASE Pool!Take(w)
      BY <1>b, <2>2, <3>1, RingShrinks
    <3>2. CASE Pool!WorkerInit(w) \/ Pool!Sleep(w) \/ Pool!Exit(w)
      <4>1. UNCHANGED <<items, head, tail, count, hand>>
        BY <3>2 DEF Pool!ring, Pool!WorkerInit, Pool!Sleep, Pool!Exit
      <4>2. worker[w] # "run" /\ \E v \in {"loop", "wait", "gone"} : worker' = [worker EXCEPT ![w] = v]
        BY <3>2 DEF Pool!WorkerInit, Pool!Sleep, Pool!Exit
      <4>3. \A v \in Pool!Workers : worker'[v] = "run" <=> worker[v] = "run"
        BY <4>2 DEF Pool!TypeOK
      <4> QED BY <2>2, <4>1, <4>3, RingUntouched
    <3> QED BY <2>4, <3>1, <3>2 DEF ThreadCall
  <2>5. ASSUME Pool!SpuriousWakeup PROVE Queue' /\ Hands'
    <3>1. UNCHANGED <<items, head, tail, count, hand>>
          /\ \A v \in Pool!Workers : worker'[v] = "run" <=> worker[v] = "run"
      BY <2>5 DEF Pool!ring, Pool!SpuriousWakeup, Pool!Waiting, Pool!TypeOK
    <3> QED BY <2>2, <3>1, RingUntouched
  <2> QED BY <1>2, <2>1, <2>2, <2>3, <2>4, <2>5 DEF StepsPool
<1>3. CASE StepsWindow
  <2>1. cancel' \in SUBSET Win!Phases
    BY <1>3 DEF StepsWindow, Win!TypeOK, Win!Phases, Win!ReserveBegins, Win!DrainBegins,
       Win!FlushTakes, Win!FlushEnds, Win!PublishOk, Win!PublishFails, Win!Settle, Win!TestReserve,
       Win!TestDrain, Win!WaitChecks, Win!ReleaseSlot, Win!Cleanup, Win!SpuriousWakeup
  <2>2. Pool!TypeOK' /\ Threads' /\ Win!TypeOK'
    BY <1>3, <1>d, <2>1, WindowTypeKeeps DEF StepsWindow, WindowStepOf, Win!CallerNext, Pool!Phases, Win!Phases
  <2>3. CASE Win!Cleanup
    <3>1. WindowInv' /\ Handed' = 0 /\ away' = {} /\ caller' = "cleaned" /\ away = {}
      BY <2>3, WindowCleanup DEF Win!Cleanup
    <3>2. count = 0 /\ \A w \in Pool!Workers : worker[w] # "run"
      <4>1. owner = "disposed"
        BY <1>3, <2>3 DEF StepsWindow, Control, Win!Cleanup, Win!ReserveBegins, Win!DrainBegins,
           Win!FlushTakes, Win!FlushEnds, Win!PublishOk, Win!PublishFails, Win!Settle, Win!TestReserve,
           Win!TestDrain, Win!WaitChecks, Win!ReleaseSlot, Win!SpuriousWakeup
      <4> QED BY <4>1 DEF Threads, Idle
    <3>3. Queue'
      BY <1>3, <3>1, <3>2, Sizes DEF StepsWindow, Queue, Offset, Pool!TypeOK, Pool!Slots
    <3>4. Hands'
      <4>1. \A s \in Chunks : ~(Handed' - count' <= s /\ s < Handed')
        BY <1>3, <3>1, <3>2 DEF StepsWindow, Chunks
      <4> QED BY <1>3, <3>1, <3>2, <4>1 DEF StepsWindow, Hands
    <3> QED BY <2>2, <3>1, <3>3, <3>4
  <2>4. CASE ~Win!Cleanup
    <3>1. WindowInv' /\ Handed' = Handed
      BY <1>3, <2>4, WindowQuietSteps, WindowTakes, WindowPublishes, WindowSettles, WindowReserves, WindowReleases
         DEF StepsWindow
    <3>2. away' = away
      BY <1>3, <2>4 DEF StepsWindow, Win!window, Win!ghosts, Win!ReserveBegins, Win!DrainBegins,
         Win!FlushTakes, Win!FlushEnds, Win!PublishOk, Win!PublishFails, Win!Settle, Win!TestReserve,
         Win!TestDrain, Win!WaitChecks, Win!ReleaseSlot, Win!SpuriousWakeup
    <3> QED BY <1>3, <1>f, <2>2, <3>1, <3>2 DEF StepsWindow
  <2> QED BY <2>3, <2>4
<1>4. CASE StepsSubmit
  <2>1. Pool!TypeOK' /\ Threads'
    BY <1>4, PoolTypeOwner, ThreadsOwner DEF StepsSubmit, OwnerStep
  <2>2. Win!TypeOK'
    BY <1>4, <2>1, WindowTypeKeeps DEF StepsSubmit, WindowStepOf, Win!CallerNext, Pool!TypeOK, Pool!Phases, Win!Phases
  <2>3. WindowInv'
    BY <1>4, WindowHandsOver DEF StepsSubmit
  <2>4. Queue' /\ Hands'
    BY <1>4, RingGrows DEF StepsSubmit, Control
  <2> QED BY <1>4, <2>1, <2>2, <2>3, <2>4
<1>5. CASE StepsReturn
  <2> PICK w \in Pool!Workers : worker[w] = "run" /\ Pool!Finish(w) /\ Win!PublishPacket(hand[w] - 1)
    BY <1>5 DEF StepsReturn
  <2>1. hand[w] - 1 \in Chunks
    BY HandIsChunk
  <2>2. Pool!TypeOK' /\ Threads'
    BY PoolTypeThread, ThreadsThread DEF ThreadStep
  <2>3. Win!TypeOK'
    BY <2>1, <2>2, WindowTypeKeeps DEF WindowStepOf, Pool!TypeOK, Pool!Phases, Win!Phases
  <2>4. WindowInv' /\ Handed' = Handed /\ away' = away \ {hand[w] - 1}
    BY <2>1, WindowReturns
  <2>5. Queue' /\ Hands'
    BY <1>b, <2>4, HandEmpties
  <2> QED BY <2>2, <2>3, <2>4, <2>5
<1> QED BY <1>a, <1>1, <1>2, <1>3, <1>4, <1>5

-----------------------------------------------------------------------------
(* The main thread. *)

LEMMA ControlMain ==
    ASSUME StreamInv, MainNext
    PROVE  Control'
<1> USE DEF StreamInv, Control, InCall
<1>a. ~(StepsSubmit \/ caller' = "cleaned") => Handed' = Handed
  BY PartsKeep DEF Next
<1>b. op \in {"reserve", "drain"} /\ main \in MainStates
  BY DEF Win!TypeOK, FilterType
<1>c. UNCHANGED win => caller' = caller /\ op' = op /\ next_submit_seq' = next_submit_seq /\ Handed' = Handed
  BY DEF win, Handed, Released
<1>d. UNCHANGED pool => owner' = owner /\ next' = next
  BY DEF pool
<1> USE <1>b
<1>1. CASE CreatePool
  <2>1. owner = "create" /\ next' = next
    BY <1>1 DEF CreatePool, Pool!CreateThread, Pool!CreateThreadFails, Pool!InitAllocFails
  <2>2. (main' = "window" /\ owner' = "ready") \/ (main' = "setup" /\ owner' = "create")
        \/ (main' = "abort" /\ owner' = "abort") \/ (main' = "cleanup" /\ owner' = "disposed")
    BY <1>1 DEF CreatePool, Pool!CreateThread, Pool!CreateThreadFails, Pool!InitAllocFails
  <2> QED BY <1>1, <1>c, <2>1, <2>2 DEF CreatePool
<1>2. CASE InitWindow
  BY <1>2, <1>c, <1>d DEF InitWindow
<1>3. CASE ChunkFull
  BY <1>3, <1>a, <1>d DEF ChunkFull, Win!ReserveBegins, StepsSubmit
<1>4. CASE ProducerFails
  BY <1>4, <1>c, <1>d DEF ProducerFails
<1>5. CASE WindowStep
  <2>1. op' = op /\ caller \in InCall /\ caller' \in InCall /\ main' = main
    BY <1>5 DEF WindowStep, filter, Win!FlushTakes, Win!FlushEnds, Win!WaitChecks, Win!TestReserve, Win!TestDrain
  <2> QED BY <1>5, <1>a, <1>d, <2>1 DEF WindowStep, StepsSubmit
<1>6. CASE WriteChunk \/ WriteFails
  <2>1. op' = op /\ caller \in InCall /\ caller' \in InCall /\ main' = main /\ UNCHANGED pool
    BY <1>6 DEF WriteChunk, WriteFails, filter, Win!PublishOk, Win!PublishFails
  <2>2. main \in {"reserve", "drain"}
    BY <1>6 DEF WriteChunk, WriteFails
  <2> QED BY <1>a, <1>d, <2>1, <2>2 DEF StepsSubmit
<1>7. CASE SettleChunk
  <2>1. op' = op /\ caller = "settle" /\ UNCHANGED pool /\ main \in {"reserve", "drain"}
    BY <1>7 DEF SettleChunk, Win!Settle
  <2>2. (main' = main /\ caller' = "flush") \/ (main' = "out_join" /\ caller' = "stopped")
    BY <1>7 DEF SettleChunk, Win!Settle
  <2> QED BY <1>a, <1>d, <2>1, <2>2 DEF StepsSubmit
<1>8. CASE SlotReserved
  BY <1>8, <1>a, <1>d DEF SlotReserved, Win!TestReserve, StepsSubmit
<1>9. CASE SubmitChunk
  <2>1. Handed' = Handed + 1
    BY <1>9, WindowHandsOver DEF SubmitChunk
  <2> QED BY <1>9, <2>1 DEF SubmitChunk, Pool!SubmitAccepted, Win!HandOver
<1>10. CASE SubmitRefused
  BY <1>10, <1>c DEF SubmitRefused, Pool!SubmitRefused
<1>11. CASE ReleaseChunk
  BY <1>11, <1>a, <1>d DEF ReleaseChunk, Win!ReleaseSlot
<1>12. CASE InputEnds
  BY <1>12, <1>c DEF InputEnds, Pool!Close
<1>13. CASE DrainBegins
  BY <1>13, <1>a, <1>d DEF DrainBegins, Win!DrainBegins, StepsSubmit
<1>14. CASE DrainEnds
  BY <1>14, <1>a, <1>d DEF DrainEnds, Win!TestDrain
<1>15. CASE CloseAgain
  BY <1>15, <1>c DEF CloseAgain, Pool!Close
<1>16. CASE JoinPool
  BY <1>16, <1>c DEF JoinPool, Pool!Join, Pool!JoinReturns
<1>17. CASE MarkPublished
  BY <1>17, <1>c DEF MarkPublished, Pool!OwnerPublishes, pool
<1>18. CASE DisposePool
  BY <1>18, <1>c DEF DisposePool, Pool!Dispose, Pool!DisposeJoined
<1>19. CASE DisposeJoins
  BY <1>19, <1>c DEF DisposeJoins, Pool!JoinReturns, filter
<1>20. CASE ReclaimJobs
  BY <1>20, <1>c DEF ReclaimJobs, Pool!Reclaim
<1>21. CASE CleanupWindow
  BY <1>21, <1>d DEF CleanupWindow, Win!Cleanup
<1> QED BY <1>1, <1>2, <1>3, <1>4, <1>5, <1>6, <1>7, <1>8, <1>9, <1>10, <1>11, <1>12, <1>13, <1>14, <1>15,
           <1>16, <1>17, <1>18, <1>19, <1>20, <1>21 DEF MainNext

\* A worker's step moves the main thread only from its sleep in the window.
LEMMA ControlWorkers ==
    ASSUME StreamInv, (\E w \in Pool!Workers : WorkerNext(w)) \/ SpuriousWakeup \/ Terminated \/ UNCHANGED vars
    PROVE  /\ Control' /\ main' = main /\ Handed' = Handed
           /\ UNCHANGED <<inflight, next_submit_seq, next_publish_seq, op, current, verdict, reserved, out, freed, ok>>
           /\ caller' = caller \/ (caller = "asleep" /\ caller' = "check")
<1> USE DEF StreamInv
<1>1. /\ main' = main /\ next' = next
      /\ UNCHANGED <<inflight, next_submit_seq, next_publish_seq, op, current, verdict, reserved, out, freed, ok>>
      /\ caller' = caller \/ (caller = "asleep" /\ caller' = "check")
  <2>1. ASSUME NEW w \in Pool!Workers, WorkerNext(w)
       PROVE  /\ main' = main /\ next' = next
              /\ UNCHANGED <<inflight, next_submit_seq, next_publish_seq, op, current, verdict, reserved, out, freed, ok>>
              /\ caller' = caller \/ (caller = "asleep" /\ caller' = "check")
    <3>1. CASE PoolStep(w)
      BY <3>1 DEF PoolStep, win, filter, Pool!WorkerInit, Pool!Sleep, Pool!Take, Pool!Exit
    <3>2. CASE CompressSkipped(w) \/ Compress(w) \/ CompressFails(w)
      BY <3>2 DEF CompressSkipped, Compress, CompressFails, pool, win
    <3>3. CASE ReturnChunk(w)
      BY <3>3 DEF ReturnChunk, Pool!Finish, Win!PublishPacket, Win!WakeCaller, filter
    <3> QED BY <2>1, <3>1, <3>2, <3>3 DEF WorkerNext
  <2>2. CASE SpuriousWakeup
    BY <2>2 DEF SpuriousWakeup, Pool!SpuriousWakeup, Win!SpuriousWakeup, Win!window, Win!ghosts, win, pool, filter
  <2>3. CASE Terminated \/ UNCHANGED vars
    BY <2>3 DEF Terminated, vars, pool, win, filter
  <2> QED BY <2>1, <2>2, <2>3
<1>2. owner' = owner
  <2>1. ASSUME NEW w \in Pool!Workers, WorkerNext(w) PROVE owner' = owner
    BY <2>1, ThreadsThread DEF WorkerNext, PoolStep, ReturnChunk, CompressSkipped, Compress, CompressFails, pool,
       ThreadStep, ThreadCall
  <2>2. CASE SpuriousWakeup
    BY <2>2, ThreadsThread DEF SpuriousWakeup, pool
  <2>3. CASE Terminated \/ UNCHANGED vars
    BY <2>3 DEF Terminated, vars, pool
  <2> QED BY <2>1, <2>2, <2>3
<1>3. Handed' = Handed
  BY <1>1 DEF Handed, Released
<1> QED BY <1>1, <1>2, <1>3 DEF Control, InCall

-----------------------------------------------------------------------------
(* Freed jobs. *)

LEMMA FilterTypeKeeps ==
    ASSUME StreamInv, [Next]_vars
    PROVE  FilterType'
<1> USE DEF StreamInv, FilterType
<1>a. \A S : Free(freed, S) \in [Chunks -> Nat]
  BY DEF Free
<1>1. CASE MainNext
  <2>1. main' \in MainStates
    BY <1>1 DEF MainNext, CreatePool, InitWindow, ChunkFull, ProducerFails, WindowStep, WriteChunk, WriteFails,
       SettleChunk, SlotReserved, SubmitChunk, SubmitRefused, ReleaseChunk, InputEnds, DrainBegins, DrainEnds,
       CloseAgain, JoinPool, MarkPublished, DisposePool, DisposeJoins, ReclaimJobs, CleanupWindow, MainStates, filter
  <2>2. status' = status
    BY <1>1 DEF MainNext, CreatePool, InitWindow, ChunkFull, ProducerFails, WindowStep, WriteChunk, WriteFails,
       SettleChunk, SlotReserved, SubmitChunk, SubmitRefused, ReleaseChunk, InputEnds, DrainBegins, DrainEnds,
       CloseAgain, JoinPool, MarkPublished, DisposePool, DisposeJoins, ReclaimJobs, CleanupWindow, filter
  <2>3. ok' \in BOOLEAN
    BY <1>1 DEF MainNext, CreatePool, InitWindow, ChunkFull, ProducerFails, WindowStep, WriteChunk, WriteFails,
       SettleChunk, SlotReserved, SubmitChunk, SubmitRefused, ReleaseChunk, InputEnds, DrainBegins, DrainEnds,
       CloseAgain, JoinPool, MarkPublished, DisposePool, DisposeJoins, ReclaimJobs, CleanupWindow, filter
  <2>4. freed' = freed \/ \E S : freed' = Free(freed, S)
    BY <1>1 DEF MainNext, CreatePool, InitWindow, ChunkFull, ProducerFails, WindowStep, WriteChunk, WriteFails,
       SettleChunk, SlotReserved, SubmitChunk, SubmitRefused, ReleaseChunk, InputEnds, DrainBegins, DrainEnds,
       CloseAgain, JoinPool, MarkPublished, DisposePool, DisposeJoins, ReclaimJobs, CleanupWindow, filter
  <2> QED BY <1>a, <2>1, <2>2, <2>3, <2>4
<1>2. CASE (\E w \in Pool!Workers : WorkerNext(w)) \/ SpuriousWakeup \/ Terminated \/ UNCHANGED vars
  <2>1. UNCHANGED <<main, freed, ok>>
    BY <1>2, ControlWorkers
  <2>2. ASSUME NEW w \in Pool!Workers, WorkerNext(w) PROVE status' \in [Chunks -> Statuses]
    BY <2>2, HandIsChunk DEF WorkerNext, PoolStep, CompressSkipped, Compress, CompressFails, ReturnChunk,
       Fresh, SetStatus, Statuses, filter
  <2>3. CASE SpuriousWakeup \/ Terminated \/ UNCHANGED vars
    BY <2>3 DEF SpuriousWakeup, Terminated, vars, filter
  <2> QED BY <1>2, <2>1, <2>2, <2>3
<1> QED BY <1>1, <1>2 DEF Next

LEMMA FreedMain ==
    ASSUME StreamInv, MainNext
    PROVE  Freed'
<1> USE DEF StreamInv
<1>a. ~(StepsSubmit \/ caller' = "cleaned") => Handed' = Handed
  BY PartsKeep DEF Next
<1>b. next_publish_seq \in Nat /\ next_submit_seq \in Nat /\ Handed \in Nat /\ freed \in [Chunks -> Nat]
  BY HandedIsNat DEF Win!TypeOK, FilterType
<1>c. caller # "cleaned" => Numbers /\ Progress
  BY DEF WindowInv
<1>1. CASE CreatePool \/ InitWindow \/ ProducerFails \/ SubmitRefused \/ InputEnds \/ CloseAgain \/ JoinPool
           \/ MarkPublished \/ DisposePool \/ DisposeJoins
  <2>1. UNCHANGED <<freed, caller, verdict, next_publish_seq, next_submit_seq, reserved>>
    BY <1>1 DEF CreatePool, InitWindow, ProducerFails, SubmitRefused, InputEnds, CloseAgain, JoinPool,
       MarkPublished, DisposePool, DisposeJoins, win, filter
  <2> QED BY <2>1 DEF Freed, Settled, Busy, Released, Handed
<1>2. CASE ReclaimJobs
  <2>1. /\ UNCHANGED <<caller, verdict, next_publish_seq, next_submit_seq, reserved>>
        /\ freed' = Free(freed, {s \in Chunks : \E i \in Pool!Slots : items[i] = s + 1})
    BY <1>2 DEF ReclaimJobs, win
  <2>2. \A i \in Pool!Slots : items[i] = Pool!NoJob
    <3>1. count = 0
      BY <1>2 DEF ReclaimJobs, Pool!Reclaim, Threads
    <3>2. \A i \in Pool!Slots : ~(Offset(i) < 0)
      BY Sizes DEF Pool!TypeOK, Offset, Pool!Slots
    <3> QED BY <3>1, <3>2 DEF Queue
  <2>3. \A s \in Chunks : freed'[s] = freed[s]
    BY <1>b, <2>1, <2>2 DEF Free, Pool!NoJob, Chunks
  <2> QED BY <2>1, <2>3 DEF Freed, Settled, Busy, Released, Handed
<1>3. CASE ChunkFull \/ DrainBegins \/ SlotReserved \/ DrainEnds \/ WriteChunk \/ WriteFails \/ SubmitChunk
  <2>1. /\ UNCHANGED <<freed, next_publish_seq>>
        /\ Busy' <=> Busy
        /\ caller \in {"idle", "test", "publish", "holding"} /\ caller' \notin {"stopped", "cleaned"}
    <3>1. CASE ChunkFull \/ DrainBegins
      BY <3>1 DEF ChunkFull, DrainBegins, Win!ReserveBegins, Win!DrainBegins, Win!window, Busy
    <3>2. CASE SlotReserved \/ DrainEnds
      BY <3>2 DEF SlotReserved, DrainEnds, Win!TestReserve, Win!TestDrain, Win!window, Busy
    <3>3. CASE WriteChunk \/ WriteFails
      BY <3>3 DEF WriteChunk, WriteFails, Win!PublishOk, Win!PublishFails, Win!window, filter, Busy
    <3>4. CASE SubmitChunk
      BY <3>4 DEF SubmitChunk, Win!HandOver, Win!window, Busy
    <3> QED BY <1>3, <3>1, <3>2, <3>3, <3>4
  <2> QED BY <2>1 DEF Freed, Settled, Released
<1>4. CASE WindowStep
  <2>1. freed' = freed /\ caller \in {"flush", "check", "test"} /\ caller' \notin {"stopped", "cleaned"}
    BY <1>4 DEF WindowStep, filter, Win!FlushTakes, Win!FlushEnds, Win!WaitChecks, Win!TestReserve, Win!TestDrain
  <2>2. next_publish_seq' - (IF Busy' THEN 1 ELSE 0) = next_publish_seq - (IF Busy THEN 1 ELSE 0)
    BY <1>4, <1>b DEF WindowStep, Busy, Win!FlushTakes, Win!FlushEnds, Win!WaitChecks, Win!TestReserve, Win!TestDrain,
       Win!window
  <2> QED BY <2>1, <2>2 DEF Freed, Settled, Released
<1>5. CASE SettleChunk
  <2>1. /\ caller = "settle" /\ freed' = Free(freed, {current})
        /\ next_publish_seq' = next_publish_seq /\ verdict' = verdict
        /\ caller' = IF verdict = "ok" THEN "flush" ELSE "stopped"
    BY <1>5 DEF SettleChunk, Win!Settle
  <2>2. current = next_publish_seq - 1
    BY <1>c, <2>1 DEF Progress, Busy
  <2>3. \A s \in Chunks : freed[s] = IF s < next_publish_seq - 1 THEN 1 ELSE 0
    BY <2>1 DEF Freed, Settled, Busy, Released
  <2>4. \A s \in Chunks : freed'[s] = IF s < next_publish_seq THEN 1 ELSE 0
    BY <1>b, <2>1, <2>2, <2>3 DEF Free, Chunks
  <2>5. ~Busy' /\ ~Released' /\ caller' # "cleaned"
    BY <2>1 DEF Busy, Released
  <2>6. \A s \in Chunks : Settled(s)' <=> s < next_publish_seq
    BY <1>b, <2>1, <2>5 DEF Settled, Chunks
  <2> QED BY <2>4, <2>5, <2>6 DEF Freed
<1>6. CASE ReleaseChunk
  <2>1. /\ caller = "holding" /\ freed' = Free(freed, {next_submit_seq - 1}) /\ caller' = "stopped"
        /\ UNCHANGED <<next_publish_seq, next_submit_seq, verdict>>
    BY <1>6 DEF ReleaseChunk, Win!ReleaseSlot
  <2>2. verdict = "ok" /\ Handed = next_submit_seq - 1 /\ Handed' = Handed /\ next_publish_seq <= Handed
    BY <1>b, <1>c, <2>1 DEF Progress, Handed, Released, Numbers, Win!TypeOK
  <2>3. \A s \in Chunks : freed[s] = IF s < next_publish_seq THEN 1 ELSE 0
    BY <1>b, <2>1 DEF Freed, Settled, Busy, Released
  <2>4. \A s \in Chunks : freed'[s] = IF s < next_publish_seq \/ s = Handed THEN 1 ELSE 0
    BY <1>b, <2>1, <2>2, <2>3 DEF Free, Chunks
  <2> QED BY <1>b, <2>1, <2>2, <2>4 DEF Freed, Settled, Busy, Released
<1>7. CASE CleanupWindow
  <2>1. /\ caller \in {"idle", "stopped"} /\ away = {} /\ caller' = "cleaned" /\ reserved' = reserved
        /\ freed' = Free(freed, pending)
    BY <1>7 DEF CleanupWindow, Win!Cleanup
  <2>2. \A s \in Chunks : s \in pending <=> next_publish_seq <= s /\ s < Handed
    BY <1>c, <2>1 DEF Numbers
  <2>3. \A s \in Chunks : freed[s] = IF s < next_publish_seq \/ (Released /\ s = Handed) THEN 1 ELSE 0
    BY <1>b, <2>1 DEF Freed, Settled, Busy
  <2>4. reserved = Handed + (IF Released THEN 1 ELSE 0) /\ next_publish_seq <= Handed
    BY <1>b, <1>c, <2>1 DEF Progress, Numbers, Handed
  <2>5. \A s \in Chunks : freed'[s] = IF s < reserved THEN 1 ELSE 0
    BY <1>b, <2>1, <2>2, <2>3, <2>4 DEF Free, Chunks
  <2> QED BY <2>1, <2>5 DEF Freed
<1> QED BY <1>1, <1>2, <1>3, <1>4, <1>5, <1>6, <1>7 DEF MainNext

LEMMA FreedKeeps ==
    ASSUME StreamInv, [Next]_vars
    PROVE  Freed'
<1>1. CASE MainNext
  BY <1>1, FreedMain
<1>2. CASE (\E w \in Pool!Workers : WorkerNext(w)) \/ SpuriousWakeup \/ Terminated \/ UNCHANGED vars
  <2>1. /\ UNCHANGED <<next_publish_seq, verdict, reserved, freed>> /\ Handed' = Handed
        /\ caller' = caller \/ (caller = "asleep" /\ caller' = "check")
    BY <1>2, ControlWorkers
  <2> QED BY <2>1 DEF StreamInv, Freed, Settled, Busy, Released
<1> QED BY <1>1, <1>2 DEF Next

-----------------------------------------------------------------------------
(* The output and the result. *)

\* Only two steps of the main thread ask for cancellation.
LEMMA MainRequests ==
    ASSUME MainNext, Pool!Requested'
    PROVE  Pool!Requested \/ ProducerFails \/ WriteFails
BY DEF MainNext, CreatePool, InitWindow, ChunkFull, WindowStep, WriteChunk,
   SettleChunk, SlotReserved, SubmitChunk, SubmitRefused, ReleaseChunk, InputEnds, DrainBegins, DrainEnds,
   CloseAgain, JoinPool, MarkPublished, DisposePool, DisposeJoins, ReclaimJobs, CleanupWindow, pool, Pool!Requested,
   Pool!CreateThread, Pool!CreateThreadFails, Pool!InitAllocFails, Pool!SubmitAccepted, Pool!SubmitRefused,
   Pool!Close, Pool!CloseEffect, Pool!Join, Pool!JoinReturns, Pool!OwnerPublishes, Pool!Dispose, Pool!DisposeJoined,
   Pool!Reclaim, Win!ReserveBegins, Win!DrainBegins, Win!FlushTakes, Win!FlushEnds, Win!PublishOk, Win!Settle,
   Win!TestReserve, Win!TestDrain, Win!WaitChecks, Win!HandOver, Win!ReleaseSlot, Win!Cleanup

LEMMA ResultMain ==
    ASSUME StreamInv, MainNext
    PROVE  Result'
<1> USE DEF StreamInv
<1>a. status' = status
  BY DEF MainNext, CreatePool, InitWindow, ChunkFull, ProducerFails, WindowStep, WriteChunk, WriteFails,
     SettleChunk, SlotReserved, SubmitChunk, SubmitRefused, ReleaseChunk, InputEnds, DrainBegins, DrainEnds,
     CloseAgain, JoinPool, MarkPublished, DisposePool, DisposeJoins, ReclaimJobs, CleanupWindow, filter
<1>b. /\ reserved \in Nat /\ out \in Seq(0 .. NumChunks - 1) /\ next_publish_seq \in Nat /\ next_submit_seq \in Nat
      /\ caller # "cleaned" => Numbers /\ Accounting /\ Progress
  BY DEF Win!TypeOK, Win!Packets, WindowInv
\* A chunk that was compressed was reserved.
<1>1. reserved' \in {reserved, reserved + 1}
  BY DEF MainNext, CreatePool, InitWindow, ChunkFull, ProducerFails, WindowStep, WriteChunk, WriteFails,
     SettleChunk, SlotReserved, SubmitChunk, SubmitRefused, ReleaseChunk, InputEnds, DrainBegins, DrainEnds,
     CloseAgain, JoinPool, MarkPublished, DisposePool, DisposeJoins, ReclaimJobs, CleanupWindow, win, Win!ghosts,
     Win!ReserveBegins, Win!DrainBegins, Win!FlushTakes, Win!FlushEnds, Win!PublishOk, Win!PublishFails, Win!Settle,
     Win!TestReserve, Win!TestDrain, Win!WaitChecks, Win!HandOver, Win!ReleaseSlot, Win!Cleanup
<1>2. \A s \in Chunks : status'[s] # "none" => s < reserved'
  BY <1>a, <1>b, <1>1 DEF Result, Chunks
\* What is written is the next chunk, and it was compressed.
<1>3. \A i \in 1 .. Len(out') : out'[i] = i - 1 /\ status'[i - 1] = "ok"
  <2>1. CASE WriteChunk
    <3>1. Win!PublishOk /\ status[current] = "ok"
      BY <2>1 DEF WriteChunk
    <3>2. Len(out') = Len(out) + 1 /\ current = Len(out)
          /\ \A i \in 1 .. Len(out') : out'[i] = IF i = Len(out) + 1 THEN current ELSE out[i]
      BY <3>1, WindowPublishes
    <3>3. Len(out) \in Nat
      BY <1>b
    <3> QED BY <1>a, <3>1, <3>2, <3>3 DEF Result
  <2>2. CASE ~WriteChunk
    <3>1. out' = out
      BY <2>2 DEF MainNext, CreatePool, InitWindow, ChunkFull, ProducerFails, WindowStep, WriteFails,
         SettleChunk, SlotReserved, SubmitChunk, SubmitRefused, ReleaseChunk, InputEnds, DrainBegins, DrainEnds,
         CloseAgain, JoinPool, MarkPublished, DisposePool, DisposeJoins, ReclaimJobs, CleanupWindow, win, Win!ghosts,
         Win!ReserveBegins, Win!DrainBegins, Win!FlushTakes, Win!FlushEnds, Win!PublishFails, Win!Settle,
         Win!TestReserve, Win!TestDrain, Win!WaitChecks, Win!HandOver, Win!ReleaseSlot, Win!Cleanup
    <3> QED BY <1>a, <3>1 DEF Result
  <2> QED BY <2>1, <2>2
\* A cancelled run has a failure to show.
<1>4. Pool!Requested' /\ main' \in Working => verdict' = "failed" \/ \E s \in Chunks : status'[s] = "failed"
  <2>1. CASE ProducerFails
    BY <2>1 DEF ProducerFails, Working
  <2>2. CASE WriteFails
    BY <2>2 DEF WriteFails, Win!PublishFails
  <2>3. ASSUME Pool!Requested', main' \in Working, ~ProducerFails, ~WriteFails
        PROVE  verdict' = "failed" \/ \E s \in Chunks : status[s] = "failed"
    <3>1. Pool!Requested
      BY <2>3, MainRequests
    <3>2. main \in Working
      BY <2>3 DEF MainNext, CreatePool, InitWindow, ChunkFull, WindowStep, WriteChunk,
         SettleChunk, SlotReserved, SubmitChunk, SubmitRefused, ReleaseChunk, InputEnds, DrainBegins, DrainEnds,
         CloseAgain, JoinPool, MarkPublished, DisposePool, DisposeJoins, ReclaimJobs, CleanupWindow, filter, Working
    <3>3. verdict = "failed" => verdict' = "failed"
      <4>1. CASE WriteChunk
        BY <1>b, <4>1 DEF WriteChunk, Win!PublishOk, Progress
      <4>2. CASE ~WriteChunk
        BY <2>3, <4>2 DEF MainNext, CreatePool, InitWindow, ChunkFull, WindowStep,
           SettleChunk, SlotReserved, SubmitChunk, SubmitRefused, ReleaseChunk, InputEnds, DrainBegins, DrainEnds,
           CloseAgain, JoinPool, MarkPublished, DisposePool, DisposeJoins, ReclaimJobs, CleanupWindow, win,
           Win!ReserveBegins, Win!DrainBegins, Win!FlushTakes, Win!FlushEnds, Win!Settle,
           Win!TestReserve, Win!TestDrain, Win!WaitChecks, Win!HandOver, Win!ReleaseSlot, Win!Cleanup
      <4> QED BY <4>1, <4>2
    <3> QED BY <3>1, <3>2, <3>3 DEF Result
  <2> QED BY <1>a, <2>1, <2>2, <2>3
\* The filter succeeds at the end of the drain ...
<1>5. CASE DrainEnds
  <2>1. main = "drain" /\ caller = "test" /\ inflight = 0 /\ main' = "out_join" /\ caller' = "idle"
        /\ UNCHANGED <<next_publish_seq, next_submit_seq, reserved, out, verdict, cancel>>
    BY <1>5 DEF DrainEnds, Win!TestDrain, Win!window, Win!ghosts
  <2>2. next_publish_seq = next_submit_seq /\ verdict = "ok" /\ Len(out) = reserved
    BY <1>b, <2>1 DEF Accounting, Progress, Busy, Released, Win!TypeOK
  <2>3. \A s \in Chunks : status[s] # "failed"
    <3> SUFFICES ASSUME NEW s \in Chunks, status[s] = "failed" PROVE FALSE
      OBVIOUS
    <3>1. s \in Nat /\ s < Len(out) /\ Len(out) \in Nat
      BY <1>b, <2>2 DEF Result, Chunks
    <3>2. s + 1 \in 1 .. Len(out) /\ (s + 1) - 1 = s
      BY <3>1
    <3>3. status[s] = "ok"
      BY <3>2 DEF Result
    <3> QED BY <3>3
  <2>4. ~Pool!Requested
    BY <2>1, <2>2, <2>3 DEF Result, Working
  <2>5. ~Pool!Requested'
    BY <2>1, <2>4 DEF Pool!Requested
  <2> QED BY <1>2, <1>3, <1>4, <2>1, <2>2, <2>5 DEF Result, Ended
\* ... and stays successful unless join finds a failed pool.
<1>6. CASE ~DrainEnds
  <2> SUFFICES ASSUME ok'
               PROVE  /\ main' \in Ended /\ Len(out') = reserved' /\ ~Pool!Requested'
                      /\ caller' \in {"idle", "cleaned"}
                      /\ caller' = "idle" => next_publish_seq' = next_submit_seq'
    BY <1>2, <1>3, <1>4 DEF Result
  <2>1. ok
    BY <1>6 DEF MainNext, CreatePool, InitWindow, ChunkFull, ProducerFails, WindowStep, WriteChunk, WriteFails,
       SettleChunk, SlotReserved, SubmitChunk, SubmitRefused, ReleaseChunk, InputEnds, DrainBegins,
       CloseAgain, JoinPool, MarkPublished, DisposePool, DisposeJoins, ReclaimJobs, CleanupWindow, filter
  <2>2. /\ main \in Ended /\ Len(out) = reserved /\ ~Pool!Requested
        /\ caller \in {"idle", "cleaned"}
        /\ caller = "idle" => next_publish_seq = next_submit_seq
    BY <2>1 DEF Result
  <2>3. ~ProducerFails /\ ~WriteFails
    BY <2>2 DEF Ended, ProducerFails, WriteFails
  <2>4. ~Pool!Requested'
    BY <2>2, <2>3, MainRequests
  <2>5. CASE CleanupWindow
    BY <2>2, <2>4, <2>5 DEF CleanupWindow, Win!Cleanup, Ended
  <2>6. CASE ~CleanupWindow
    <3>1. UNCHANGED win /\ main' \in Ended
      BY <2>2, <2>6 DEF MainNext, CreatePool, InitWindow, ChunkFull, ProducerFails, WindowStep, WriteChunk, WriteFails,
         SettleChunk, SlotReserved, SubmitChunk, SubmitRefused, ReleaseChunk, InputEnds, DrainBegins, DrainEnds,
         CloseAgain, JoinPool, MarkPublished, DisposePool, DisposeJoins, ReclaimJobs, filter, Ended
    <3> QED BY <2>2, <2>4, <3>1 DEF win
  <2> QED BY <2>5, <2>6
<1> QED BY <1>5, <1>6

\* A worker compresses the chunk in its hand; after a success none is in a hand.
LEMMA ResultWorkers ==
    ASSUME StreamInv, (\E w \in Pool!Workers : WorkerNext(w)) \/ SpuriousWakeup \/ Terminated \/ UNCHANGED vars
    PROVE  Result'
<1> USE DEF StreamInv
<1>1. /\ main' = main
      /\ UNCHANGED <<next_submit_seq, next_publish_seq, verdict, reserved, out, ok>>
      /\ caller' = caller \/ (caller = "asleep" /\ caller' = "check")
  BY ControlWorkers
<1>2. reserved \in Nat /\ out \in Seq(Chunks) /\ Len(out) \in Nat /\ Handed \in Nat
  BY HandedIsNat DEF Win!TypeOK, Win!Packets, Chunks
<1>3. CASE status' = status /\ (Pool!Requested' => Pool!Requested)
  <2>1. \A s \in Chunks : status'[s] # "none" => s < reserved'
    BY <1>1, <1>3 DEF Result
  <2>2. \A i \in 1 .. Len(out') : out'[i] = i - 1 /\ status'[i - 1] = "ok"
    BY <1>1, <1>3 DEF Result
  <2>3. Pool!Requested' /\ main' \in Working => verdict' = "failed" \/ \E s \in Chunks : status'[s] = "failed"
    BY <1>1, <1>3 DEF Result
  <2> QED BY <1>1, <1>3, <2>1, <2>2, <2>3 DEF Result
<1>4. ASSUME NEW w \in Pool!Workers, CompressSkipped(w) \/ Compress(w) \/ CompressFails(w)
      PROVE  Result'
  <2>1. PICK c \in Chunks : c = hand[w] - 1
    BY <1>4, HandIsChunk DEF CompressSkipped, Compress, CompressFails, Fresh
  <2>2. worker[w] = "run" /\ status[c] = "none"
        /\ \E v \in {"ok", "failed", "cancelled"} : status' = [status EXCEPT ![c] = v]
    BY <1>4, <2>1 DEF CompressSkipped, Compress, CompressFails, Fresh, SetStatus
  <2>3. \A s \in Chunks : s # c => status'[s] = status[s]
    BY <2>2 DEF FilterType
  <2>4. c \in away /\ c \in Nat
    BY <2>1, <2>2, HandIsChunk DEF Hands, Chunks
  <2>5. caller # "cleaned" /\ Numbers /\ Progress
    BY <2>4 DEF WindowInv
  <2>6. next_publish_seq <= c /\ c < reserved
    BY <2>4, <2>5 DEF Numbers, Progress, Handed, Win!TypeOK
  <2>7. \A i \in 1 .. Len(out) : i - 1 \in Chunks /\ i - 1 # c
    <3> TAKE i \in 1 .. Len(out)
    <3>1. out[i] = i - 1 /\ status[i - 1] = "ok"
      BY DEF Result
    <3>2. out[i] \in Chunks
      BY <1>2
    <3> QED BY <2>2, <3>1, <3>2
  <2>8. ~ok
    BY <2>4, <2>5, <2>6 DEF Result, Progress, Numbers, Handed, Released, Win!TypeOK
  <2>9. \A s \in Chunks : status[s] = "failed" => status'[s] = "failed"
    BY <2>2, <2>3
  <2>10. Pool!Requested' => Pool!Requested \/ status'[c] = "failed"
    BY <1>4, <2>1 DEF CompressSkipped, Compress, CompressFails, SetStatus, FilterType, Pool!Requested
  <2>11. \A s \in Chunks : status'[s] # "none" => s < reserved'
    BY <1>1, <2>3, <2>6 DEF Result
  <2>12. \A i \in 1 .. Len(out') : out'[i] = i - 1 /\ status'[i - 1] = "ok"
    BY <1>1, <2>3, <2>7 DEF Result
  <2>13. Pool!Requested' /\ main' \in Working => verdict' = "failed" \/ \E s \in Chunks : status'[s] = "failed"
    BY <1>1, <2>9, <2>10 DEF Result
  <2> QED BY <1>1, <2>8, <2>11, <2>12, <2>13 DEF Result
<1>5. ASSUME NEW w \in Pool!Workers, PoolStep(w) \/ ReturnChunk(w)
      PROVE  status' = status /\ cancel' = cancel
  BY <1>5 DEF PoolStep, ReturnChunk, filter, Pool!WorkerInit, Pool!Sleep, Pool!Take, Pool!Exit, Pool!Finish
<1>6. CASE SpuriousWakeup \/ Terminated \/ UNCHANGED vars
  <2>1. status' = status /\ cancel' = cancel
    BY <1>6 DEF SpuriousWakeup, Pool!SpuriousWakeup, Win!SpuriousWakeup, Terminated, vars, filter
  <2> QED BY <1>3, <2>1 DEF Pool!Requested
<1> QED BY <1>3, <1>4, <1>5, <1>6 DEF WorkerNext, Pool!Requested

-----------------------------------------------------------------------------
(* Theorems. *)

LEMMA StreamInvInit == Init => StreamInv
<1> SUFFICES ASSUME Init PROVE StreamInv
  OBVIOUS
<1> USE Sizes DEF Init, Pool!Init, Win!Init
<1>1. Pool!TypeOK
  <2>1. 0 \in Pool!Slots /\ 0 \in 0 .. QueueSize /\ 0 \in 0 .. NumThreads /\ 1 \in 1 .. NumChunks + 1
    BY DEF Pool!Slots
  <2>2. /\ items \in [Pool!Slots -> Pool!Jobs \cup {Pool!NoJob}]
        /\ worker \in [Pool!Workers -> Pool!WorkerStates]
        /\ hand \in [Pool!Workers -> Pool!Jobs \cup {Pool!NoJob}]
        /\ place \in [Pool!Jobs -> Pool!Places]
    BY DEF Pool!WorkerStates, Pool!Places
  <2> QED BY <2>1, <2>2 DEF Pool!TypeOK, Pool!OwnerStates
<1>2. Win!TypeOK
  BY DEF Win!TypeOK, Win!Packets, Win!None, Win!CallerStates, Win!Phases
<1>3. FilterType
  BY DEF FilterType, MainStates, Statuses
<1>4. WindowInv
  BY DEF WindowInv, Numbers, Accounting, Progress, Busy, Released, Handed, InCall, Chunks
<1>5. Control
  BY DEF Control, InCall, Handed, Released
<1>6. Threads
  BY DEF Threads, Pool!Workers
<1>7. Queue
  BY DEF Queue, Handed, Released, Offset, Pool!Slots
<1>8. Hands
  BY DEF Hands, Handed, Released, Chunks
<1>9. Freed
  BY DEF Freed, Settled, Busy, Released, Chunks
<1>10. Result
  BY DEF Result, Pool!Requested
<1> QED BY <1>1, <1>2, <1>3, <1>4, <1>5, <1>6, <1>7, <1>8, <1>9, <1>10 DEF StreamInv

LEMMA StreamInvNext == StreamInv /\ [Next]_vars => StreamInv'
<1> SUFFICES ASSUME StreamInv, [Next]_vars PROVE StreamInv'
  OBVIOUS
<1>1. Pool!TypeOK' /\ Win!TypeOK' /\ WindowInv' /\ Threads' /\ Queue' /\ Hands'
  BY PartsKeep
<1>2. Control' /\ Result'
  BY ControlMain, ControlWorkers, ResultMain, ResultWorkers DEF Next
<1> QED BY <1>1, <1>2, FilterTypeKeeps, FreedKeeps DEF StreamInv

\* The invariant of the filter holds throughout: bx_archive_run_gzip_filter_mt_stream.
THEOREM StreamInvInductive == Spec => []StreamInv
BY StreamInvInit, StreamInvNext, PTL DEF Spec

\* The chunks come out in input order, each compressed, and a success has
\* written all of them: the publish callback of the filter and its result.
THEOREM StreamOutputIsFaithful == Spec => []OutputIsFaithful
<1>1. StreamInv => OutputIsFaithful
  BY DEF StreamInv, Result, OutputIsFaithful
<1> QED BY <1>1, StreamInvInductive, PTL

\* Every job is freed once, on whatever path, and never under a worker:
\* the dispose callback, release_slot, the cleanup of the window and dispose.
THEOREM StreamChunkLifetime == Spec => []ChunkLifetime
<1>1. StreamInv => ChunkLifetime
  <2> SUFFICES ASSUME StreamInv PROVE ChunkLifetime
    OBVIOUS
  <2> USE DEF StreamInv
  <2>1. \A s \in Chunks : freed[s] <= 1
    BY DEF Freed
  <2>2. ASSUME NEW w \in Pool!Workers, worker[w] = "run" PROVE freed[hand[w] - 1] = 0
    <3>1. PICK c \in Chunks : c = hand[w] - 1
      BY <2>2, HandIsChunk
    <3>2. c \in away /\ c \in Nat
      BY <2>2, <3>1, HandIsChunk DEF Hands, Chunks
    <3>3. caller # "cleaned" /\ next_publish_seq <= c /\ c < Handed /\ next_publish_seq \in Nat
      BY <3>2 DEF WindowInv, Numbers, Win!TypeOK
    <3>4. ~Settled(c)
      BY <3>2, <3>3, HandedIsNat DEF Settled
    <3> QED BY <3>1, <3>3, <3>4 DEF Freed
  <2>3. main = "done" => \A s \in Chunks : freed[s] = IF s < reserved THEN 1 ELSE 0
    BY DEF Control, Freed
  <2> QED BY <2>1, <2>2, <2>3 DEF ChunkLifetime
<1> QED BY <1>1, StreamInvInductive, PTL

\* A reserved chunk always finds room in the queue: bx_work_pool_submit in
\* submit_chunk never waits for space.
THEOREM StreamSubmitNeverBlocks == Spec => []SubmitNeverBlocks
<1>1. StreamInv => SubmitNeverBlocks
  <2> SUFFICES ASSUME StreamInv, main = "submit" PROVE count < QueueSize
    BY DEF SubmitNeverBlocks
  <2> USE DEF StreamInv
  <2>1. caller = "holding"
    BY DEF Control
  <2>2. Handed = next_submit_seq - 1 /\ Numbers /\ Accounting
    BY <2>1 DEF Handed, Released, WindowInv, Win!TypeOK
  <2>3. Handed - next_publish_seq < MaxInflight
    BY <2>1, <2>2, Sizes DEF Accounting, Busy, Released, Win!TypeOK
  <2>4. CASE count = 0
    BY <2>4, Sizes
  <2>5. CASE count # 0
    <3>1. PICK c : c = Handed - count
      OBVIOUS
    <3>2. c \in Chunks /\ c \in Nat /\ count \in Nat /\ c < Handed
      BY <2>5, <3>1, HandedIsNat, Sizes DEF Queue, Pool!TypeOK, Chunks
    <3>3. c \in away
      BY <3>1, <3>2, HandedIsNat DEF Hands
    <3>4. next_publish_seq <= Handed - count
      BY <2>2, <3>1, <3>2, <3>3 DEF Numbers
    <3> QED BY <2>3, <3>2, <3>4, HandedIsNat, Sizes DEF Win!TypeOK
  <2> QED BY <2>4, <2>5
<1> QED BY <1>1, StreamInvInductive, PTL

-----------------------------------------------------------------------------
(* The filter is a client that keeps the rules of both parts. *)

\* Outside the pool's own steps three steps of the filter set the cancel flag.
LEMMA CancelSteps ==
    ASSUME [Next]_vars
    PROVE  \/ StepsPool \/ StepsSubmit \/ StepsReturn \/ UNCHANGED <<pool, cancel>>
           \/ ProducerFails \/ WriteFails \/ \E w \in Pool!Workers : CompressFails(w)
<1>1. CASE MainNext
  <2>1. CASE CreatePool \/ SubmitRefused \/ InputEnds \/ CloseAgain \/ JoinPool \/ DisposePool \/ DisposeJoins
             \/ ReclaimJobs
    BY <2>1 DEF CreatePool, SubmitRefused, InputEnds, CloseAgain, JoinPool, DisposePool, DisposeJoins,
       ReclaimJobs, StepsPool, OwnerCall
  <2>2. CASE InitWindow \/ SubmitChunk
    BY <2>2 DEF InitWindow, SubmitChunk, StepsSubmit
  <2>3. CASE MarkPublished
    BY <2>3 DEF MarkPublished, StepsPool, OwnerCall
  <2>4. CASE ChunkFull \/ WindowStep \/ WriteChunk \/ SettleChunk \/ SlotReserved \/ ReleaseChunk
             \/ DrainBegins \/ DrainEnds \/ CleanupWindow
    BY <2>4 DEF ChunkFull, WindowStep, WriteChunk, SettleChunk, SlotReserved, ReleaseChunk,
       DrainBegins, DrainEnds, CleanupWindow, Win!ReserveBegins, Win!DrainBegins,
       Win!FlushTakes, Win!FlushEnds, Win!PublishOk, Win!Settle, Win!TestReserve,
       Win!TestDrain, Win!WaitChecks, Win!ReleaseSlot, Win!Cleanup
  <2> QED BY <1>1, <2>1, <2>2, <2>3, <2>4 DEF MainNext
<1>2. ASSUME NEW w \in Pool!Workers, WorkerNext(w)
      PROVE  StepsPool \/ StepsReturn \/ UNCHANGED <<pool, cancel>> \/ CompressFails(w)
  BY <1>2 DEF WorkerNext, PoolStep, CompressSkipped, Compress, ReturnChunk, StepsPool, ThreadCall, StepsReturn
<1>3. CASE SpuriousWakeup
  BY <1>3 DEF SpuriousWakeup, StepsPool, Win!SpuriousWakeup
<1>4. CASE Terminated \/ UNCHANGED vars
  BY <1>4 DEF Terminated, vars
<1> QED BY <1>1, <1>2, <1>3, <1>4 DEF Next

LEMMA PoolSimulated ==
    ASSUME StreamInv, [Next]_vars
    PROVE  [Pool!Next]_(Pool!vars)
<1>1. CASE StepsPool
  BY <1>1 DEF StepsPool, OwnerCall, ThreadCall, Pool!Next, Pool!OwnerNext, Pool!WorkerNext
<1>2. CASE StepsSubmit
  BY <1>2 DEF StepsSubmit, Pool!Next, Pool!OwnerNext
<1>3. CASE StepsReturn
  BY <1>3 DEF StepsReturn, Pool!Next, Pool!WorkerNext
<1>4. CASE UNCHANGED <<pool, cancel>>
  BY <1>4 DEF pool, Pool!vars, Pool!ring, Pool!flags
<1>5. CASE ProducerFails
  <2>1. Pool!OwnerCancels
    BY <1>5 DEF ProducerFails, StreamInv, Control, pool, Pool!OwnerCancels, Pool!ring, Pool!flags
  <2> QED BY <2>1 DEF Pool!Next, Pool!OwnerNext
<1>6. CASE WriteFails
  <2>1. Pool!OwnerCancels
    BY <1>6 DEF WriteFails, Win!PublishFails, StreamInv, Control, pool, Pool!OwnerCancels, Pool!ring, Pool!flags
  <2> QED BY <2>1 DEF Pool!Next, Pool!OwnerNext
<1>7. ASSUME NEW w \in Pool!Workers, CompressFails(w)
      PROVE  Pool!Next
  <2>1. Pool!WorkerCancels(w)
    BY <1>7 DEF CompressFails, Fresh, pool, Pool!WorkerCancels, Pool!ring, Pool!flags
  <2> QED BY <2>1 DEF Pool!Next, Pool!WorkerNext
<1> QED BY CancelSteps, <1>1, <1>2, <1>3, <1>4, <1>5, <1>6, <1>7

LEMMA WindowSimulated ==
    ASSUME StreamInv, [Next]_vars
    PROVE  [Win!Next]_(Win!vars)
<1>1. CASE StepsWindow
  BY <1>1 DEF StepsWindow, Win!Next, Win!CallerNext
<1>2. CASE StepsSubmit
  BY <1>2 DEF StepsSubmit, Win!Next, Win!CallerNext
<1>3. CASE StepsReturn
  BY <1>3, HandIsChunk DEF StreamInv, StepsReturn, Win!Next, Win!Packets, Chunks
<1>4. CASE StepsNone \/ StepsPool
  <2>1. UNCHANGED win
    BY <1>4 DEF StepsNone, StepsPool
  <2>2. cancel' \in SUBSET Win!Phases
    BY PartsKeep DEF Win!TypeOK
  <2>3. cancel \subseteq cancel'
    <3>1. CASE StepsNone
      BY <3>1 DEF StepsNone
    <3>2. CASE OwnerCall
      BY <3>2 DEF OwnerCall, Pool!InitAllocFails, Pool!CreateThread, Pool!CreateThreadFails,
         Pool!SubmitRefused, Pool!OwnerPublishes, Pool!Close, Pool!CloseEffect, Pool!Join, Pool!Dispose,
         Pool!DisposeJoined, Pool!JoinReturns, Pool!Reclaim
    <3>3. CASE (\E w \in Pool!Workers : ThreadCall(w)) \/ Pool!SpuriousWakeup
      BY <3>3 DEF ThreadCall, Pool!WorkerInit, Pool!Sleep, Pool!Take, Pool!Exit, Pool!SpuriousWakeup
    <3> QED BY <1>4, <3>1, <3>2, <3>3 DEF StepsPool
  <2>4. Win!OthersCancel
    <3>1. cancel' = cancel \cup cancel'
      BY <2>3
    <3> QED BY <2>1, <2>2, <3>1 DEF win, Win!OthersCancel, Win!window, Win!ghosts
  <2> QED BY <2>4 DEF Win!Next
<1> QED BY StepKinds, <1>1, <1>2, <1>3, <1>4

\* The filter as a client of the pool and of the window: its owner calls,
\* cancellations and callbacks are steps of work_pool.c, and its reserve, hand
\* over, publish and cleanup are steps of ordered_publication.c in their order.
THEOREM StreamPartsUse == Spec => PartsUse
<1>1. Init => Pool!Init /\ Win!Init
  BY DEF Init
<1>2. StreamInv /\ [Next]_vars => [Pool!Next]_(Pool!vars)
  BY PoolSimulated
<1>3. StreamInv /\ [Next]_vars => [Win!Next]_(Win!vars)
  BY WindowSimulated
<1> QED BY <1>1, <1>2, <1>3, StreamInvInductive, PTL DEF Spec, PartsUse, Pool!Spec, Win!Spec

=============================================================================
