---------------------- MODULE OrderedPublicationProofs ----------------------
(***************************************************************************)
(* Proofs about OrderedPublication, for every window and number of packets. *)
(***************************************************************************)
EXTENDS OrderedPublication, FiniteSetTheorems, TLAPS

\* A number was reserved that no packet will ever carry.
Released == caller = "stopped" /\ verdict = "ok"
Busy == caller \in {"publish", "settle"}

\* The numbers that are with a worker or pending are exactly those between the
\* next to publish and the last handed over.
Numbers ==
    /\ next_publish_seq <= next_submit_seq
    /\ away \cap pending = {}
    /\ \A s \in Packets :
         s \in away \cup pending
           <=> /\ next_publish_seq <= s
               /\ s < next_submit_seq - (IF caller = "holding" \/ Released THEN 1 ELSE 0)
    /\ caller = "holding" \/ Released => next_publish_seq < next_submit_seq

\* inflight counts those numbers, the reserved one and the one in the callback.
Accounting ==
    /\ inflight = next_submit_seq - next_publish_seq
                    + (IF Busy THEN 1 ELSE 0) - (IF Released THEN 1 ELSE 0)
    /\ inflight <= MaxInflight

\* The packet in the callback is the last taken; out stops at a failure.
Progress ==
    /\ Busy <=> current # None
    /\ Busy => current = next_publish_seq - 1 /\ next_publish_seq > 0
    /\ verdict = "failed" => caller \in {"settle", "stopped"} /\ next_publish_seq > 0
    /\ Len(out) = next_publish_seq - (IF caller = "publish" \/ verdict = "failed" THEN 1 ELSE 0)
    /\ reserved = next_submit_seq
    /\ caller = "asleep" => ~Ready /\ inflight > 0
    /\ op = "reserve" /\ caller \in {"flush", "publish", "settle", "test", "check", "asleep"}
         => next_submit_seq < NumPackets
    /\ \A s \in disposed : s < next_publish_seq - (IF Busy THEN 1 ELSE 0)

WindowInv ==
    /\ TypeOK
    /\ PublishedInOrder
    /\ caller # "cleaned" => Numbers /\ Accounting /\ Progress
    /\ caller = "cleaned" => pending = {} /\ away = {} /\ current = None

LEMMA WindowInit == Init => WindowInv
<1> SUFFICES ASSUME Init PROVE WindowInv
  OBVIOUS
<1> USE WindowAssumption DEF Init
<1>1. TypeOK
  BY DEF TypeOK, CallerStates, Packets
<1>2. PublishedInOrder
  BY DEF PublishedInOrder
<1>3. Numbers
  BY DEF Numbers, Released, Packets
<1>4. Accounting
  BY DEF Accounting, Released, Busy
<1>5. Progress
  BY DEF Progress, Busy, Released
<1> QED BY <1>1, <1>2, <1>3, <1>4, <1>5 DEF WindowInv

\* flush_ready finds a packet exactly when the number whose turn it is is pending.
LEMMA ReadyIff ==
    ASSUME TypeOK, Numbers
    PROVE  Ready <=> next_publish_seq \in pending
BY WindowAssumption DEF Ready, IsPendingHead, HasTurn, Numbers, TypeOK, Packets

\* Steps of the caller preserve the invariant.
LEMMA WindowCaller == WindowInv /\ CallerNext => WindowInv'
<1> SUFFICES ASSUME WindowInv, CallerNext PROVE WindowInv'
  OBVIOUS
<1>0. caller # "cleaned" /\ TypeOK /\ PublishedInOrder /\ Numbers /\ Accounting /\ Progress
  BY DEF CallerNext, ReserveBegins, DrainBegins, FlushTakes, FlushEnds, PublishOk, PublishFails,
     Settle, TestReserve, TestDrain, WaitChecks, HandOver, ReleaseSlot, Cleanup, WindowInv
<1> USE <1>0, WindowAssumption
<1>1. CASE ReserveBegins
  <2> USE <1>1 DEF ReserveBegins, window, ghosts
  <2>1. TypeOK' /\ PublishedInOrder'
    BY DEF TypeOK, PublishedInOrder, CallerStates, None
  <2>2. Numbers'
    BY DEF Numbers, Released, TypeOK, Packets
  <2>3. Accounting'
    BY DEF Accounting, Busy, Released, Numbers, TypeOK, Packets
  <2>4. Progress'
    BY DEF Progress, Busy, Ready, IsPendingHead, HasTurn, TypeOK, Packets, None
  <2> QED BY <2>1, <2>2, <2>3, <2>4 DEF WindowInv
<1>2. CASE DrainBegins
  <2> USE <1>2 DEF DrainBegins, window, ghosts
  <2>1. TypeOK' /\ PublishedInOrder'
    BY DEF TypeOK, PublishedInOrder, CallerStates, None
  <2>2. Numbers'
    BY DEF Numbers, Released, TypeOK, Packets
  <2>3. Accounting'
    BY DEF Accounting, Busy, Released, Numbers, TypeOK, Packets
  <2>4. Progress'
    BY DEF Progress, Busy, Ready, IsPendingHead, HasTurn, TypeOK, Packets, None
  <2> QED BY <2>1, <2>2, <2>3, <2>4 DEF WindowInv
<1>3. CASE FlushEnds
  <2> USE <1>3 DEF FlushEnds, window, ghosts
  <2>1. TypeOK' /\ PublishedInOrder'
    BY DEF TypeOK, PublishedInOrder, CallerStates, None
  <2>2. Numbers'
    BY DEF Numbers, Released, TypeOK, Packets
  <2>3. Accounting'
    BY DEF Accounting, Busy, Released, Numbers, TypeOK, Packets
  <2>4. Progress'
    BY DEF Progress, Busy, Ready, IsPendingHead, HasTurn, TypeOK, Packets, None
  <2> QED BY <2>1, <2>2, <2>3, <2>4 DEF WindowInv
<1>4. CASE PublishFails
  <2> USE <1>4 DEF PublishFails, window, ghosts
  <2>1. TypeOK' /\ PublishedInOrder'
    BY DEF TypeOK, PublishedInOrder, CallerStates, None, Phases
  <2>2. Numbers'
    BY DEF Numbers, Released, TypeOK, Packets
  <2>3. Accounting'
    BY DEF Accounting, Busy, Released, Numbers, TypeOK, Packets
  <2>4. Progress'
    BY DEF Progress, Busy, Ready, IsPendingHead, HasTurn, TypeOK, Packets, None
  <2> QED BY <2>1, <2>2, <2>3, <2>4 DEF WindowInv
<1>5. CASE Settle
  <2> USE <1>5 DEF Settle, window, ghosts, DropSlot
  <2>1. TypeOK' /\ PublishedInOrder'
    BY DEF TypeOK, PublishedInOrder, CallerStates, None, Progress, Busy
  <2>2. Numbers'
    BY DEF Numbers, Released, TypeOK, Packets
  <2>3. Accounting'
    BY DEF Accounting, Busy, Released, Numbers, TypeOK, Packets
  <2>4. Progress'
    BY DEF Progress, Busy, Ready, IsPendingHead, HasTurn, TypeOK, Packets, None
  <2> QED BY <2>1, <2>2, <2>3, <2>4 DEF WindowInv
<1>6. CASE TestDrain
  <2> USE <1>6 DEF TestDrain, window, ghosts
  <2>1. TypeOK' /\ PublishedInOrder'
    BY DEF TypeOK, PublishedInOrder, CallerStates, None
  <2>2. Numbers'
    BY DEF Numbers, Released, TypeOK, Packets
  <2>3. Accounting'
    BY DEF Accounting, Busy, Released, Numbers, TypeOK, Packets
  <2>4. Progress'
    BY DEF Progress, Busy, Ready, IsPendingHead, HasTurn, TypeOK, Packets, None
  <2> QED BY <2>1, <2>2, <2>3, <2>4 DEF WindowInv
<1>7. CASE WaitChecks
  <2> USE <1>7 DEF WaitChecks, window, ghosts
  <2>1. TypeOK' /\ PublishedInOrder'
    BY DEF TypeOK, PublishedInOrder, CallerStates, None
  <2>2. Numbers'
    BY DEF Numbers, Released, TypeOK, Packets
  <2>3. Accounting'
    BY DEF Accounting, Busy, Released, Numbers, TypeOK, Packets
  <2>4. Progress'
    BY DEF Progress, Busy, Ready, IsPendingHead, HasTurn, TypeOK, Packets, None
  <2> QED BY <2>1, <2>2, <2>3, <2>4 DEF WindowInv
<1>8. CASE ReleaseSlot
  <2> USE <1>8 DEF ReleaseSlot, window, ghosts, DropSlot
  <2>0. verdict = "ok"
    BY DEF Progress, TypeOK
  <2>1. TypeOK' /\ PublishedInOrder'
    BY DEF TypeOK, PublishedInOrder, CallerStates, None
  <2>2. Numbers'
    BY <2>0 DEF Numbers, Released, TypeOK, Packets
  <2>3. Accounting'
    BY <2>0 DEF Accounting, Busy, Released, Numbers, TypeOK, Packets
  <2>4. Progress'
    BY <2>0 DEF Progress, Busy, Ready, IsPendingHead, HasTurn, TypeOK, Packets, None
  <2> QED BY <2>1, <2>2, <2>3, <2>4 DEF WindowInv
<1>9. CASE FlushTakes
  <2>0. PICK s \in pending : /\ IsPendingHead(s) /\ HasTurn(s)
                             /\ current' = s /\ pending' = pending \ {s}
    BY <1>9 DEF FlushTakes
  <2> USE <1>9, <2>0 DEF FlushTakes, HasTurn, ghosts
  <2>1. TypeOK' /\ PublishedInOrder'
    BY DEF TypeOK, PublishedInOrder, CallerStates, Packets
  <2>2. Numbers'
    BY DEF Numbers, Released, TypeOK, Packets
  <2>3. Accounting'
    BY DEF Accounting, Busy, Released, Numbers, TypeOK, Packets
  <2>4. Progress'
    BY DEF Progress, Busy, TypeOK, Packets, None
  <2> QED BY <2>1, <2>2, <2>3, <2>4 DEF WindowInv
<1>10. CASE PublishOk
  <2> USE <1>10 DEF PublishOk, window
  <2>0. current \in Packets /\ current = Len(out) /\ Len(out) \in Nat /\ verdict = "ok"
    BY DEF Progress, Busy, TypeOK, None, Packets
  <2>1. TypeOK'
    BY <2>0 DEF TypeOK, CallerStates
  <2>2. PublishedInOrder'
    BY <2>0 DEF PublishedInOrder, TypeOK, Packets
  <2>3. Numbers'
    BY <2>0 DEF Numbers, Released, TypeOK, Packets
  <2>4. Accounting'
    BY <2>0 DEF Accounting, Busy, Released, Numbers, TypeOK, Packets
  <2>5. Progress'
    <3>1. Len(out)' = Len(out) + 1
      BY <2>0 DEF TypeOK
    <3> QED BY <2>0, <3>1 DEF Progress, Busy, TypeOK, Packets, None
  <2> QED BY <2>1, <2>2, <2>3, <2>4, <2>5 DEF WindowInv
<1>11. CASE TestReserve
  <2> USE <1>11 DEF TestReserve, WindowOpen, window
  <2>0. verdict = "ok" /\ next_submit_seq < NumPackets /\ reserved = next_submit_seq
    BY DEF Progress, TypeOK
  <2>1. TypeOK' /\ PublishedInOrder'
    BY <2>0 DEF TypeOK, PublishedInOrder, CallerStates
  <2>2. Numbers'
    BY DEF Numbers, Released, TypeOK, Packets
  <2>3. Accounting'
    BY DEF Accounting, Busy, Released, Numbers, TypeOK, Packets
  <2>4. Progress'
    BY <2>0 DEF Progress, Busy, Ready, IsPendingHead, HasTurn, TypeOK, Packets, None
  <2> QED BY <2>1, <2>2, <2>3, <2>4 DEF WindowInv
<1>12. CASE HandOver
  <2> USE <1>12 DEF HandOver, window
  <2>1. TypeOK' /\ PublishedInOrder'
    BY DEF TypeOK, PublishedInOrder, CallerStates, Numbers, Packets
  <2>2. Numbers'
    BY DEF Numbers, Released, TypeOK, Packets
  <2>3. Accounting'
    BY DEF Accounting, Busy, Released, Numbers, TypeOK, Packets
  <2>4. Progress'
    BY DEF Progress, Busy, Ready, IsPendingHead, HasTurn, TypeOK, Packets, None
  <2> QED BY <2>1, <2>2, <2>3, <2>4 DEF WindowInv
<1>13. CASE Cleanup
  <2> USE <1>13 DEF Cleanup
  <2>1. TypeOK' /\ PublishedInOrder'
    BY DEF TypeOK, PublishedInOrder, CallerStates
  <2>2. current' = None
    BY DEF Progress, Busy
  <2> QED BY <2>1, <2>2 DEF WindowInv
<1> QED BY <1>1, <1>2, <1>3, <1>4, <1>5, <1>6, <1>7, <1>8, <1>9, <1>10, <1>11,
           <1>12, <1>13 DEF CallerNext

\* So do a worker returning a packet, other cancellations and spurious wakeups.
LEMMA WindowOthers ==
    ASSUME WindowInv, (\E s \in Packets : PublishPacket(s)) \/ OthersCancel \/ SpuriousWakeup
    PROVE  WindowInv'
<1> USE WindowAssumption
<1>1. ASSUME NEW s \in Packets, PublishPacket(s) PROVE WindowInv'
  <2> USE <1>1 DEF PublishPacket, WakeCaller
  <2>0. caller # "cleaned" /\ TypeOK /\ PublishedInOrder /\ Numbers /\ Accounting /\ Progress
    BY DEF WindowInv
  <2>1. TypeOK' /\ PublishedInOrder'
    BY <2>0 DEF TypeOK, PublishedInOrder, CallerStates
  <2>2. Numbers'
    BY <2>0 DEF Numbers, Released, TypeOK, Packets
  <2>3. Accounting'
    BY <2>0 DEF Accounting, Busy, Released, Numbers, TypeOK, Packets
  <2>4. Progress'
    BY <2>0 DEF Progress, Busy, TypeOK, Packets, None
  <2> QED BY <2>0, <2>1, <2>2, <2>3, <2>4 DEF WindowInv
<1>2. CASE OthersCancel
  <2>1. TypeOK'
    BY <1>2 DEF OthersCancel, WindowInv, TypeOK, window, ghosts
  <2> QED BY <1>2, <2>1
      DEF OthersCancel, WindowInv, PublishedInOrder, Numbers, Accounting, Progress, Released,
          Busy, Ready, IsPendingHead, HasTurn, window, ghosts
<1>3. CASE SpuriousWakeup
  <2>1. TypeOK'
    BY <1>3 DEF SpuriousWakeup, WindowInv, TypeOK, CallerStates, window, ghosts
  <2> QED BY <1>3, <2>1
      DEF SpuriousWakeup, WindowInv, PublishedInOrder, Numbers, Accounting, Progress, Released,
          Busy, window, ghosts
<1> QED BY <1>1, <1>2, <1>3

\* The inductive invariant of the window.
LEMMA WindowInvInductive == Spec => []WindowInv
<1>1. WindowInv /\ [Next]_vars => WindowInv'
  <2>1. WindowInv /\ UNCHANGED vars => WindowInv'
    BY DEF WindowInv, TypeOK, PublishedInOrder, Numbers, Accounting, Progress, Released, Busy,
           Ready, IsPendingHead, HasTurn, vars, window, ghosts
  <2> QED BY <2>1, WindowCaller, WindowOthers DEF Next, Terminated
<1> QED BY <1>1, WindowInit, PTL DEF Spec

\* The window's fields and its caller keep their types.
THEOREM WindowTypeCorrect == Spec => []TypeOK
<1>1. WindowInv => TypeOK
  BY DEF WindowInv
<1> QED BY <1>1, WindowInvInductive, PTL

\* Packets are published as 0, 1, 2, ... for every window and every schedule.
THEOREM WindowPublishedInOrder == Spec => []PublishedInOrder
<1>1. WindowInv => PublishedInOrder
  BY DEF WindowInv
<1> QED BY <1>1, WindowInvInductive, PTL

\* The caller never sleeps without a worker that will wake it.
THEOREM WindowSleepsForAWorker == Spec => []SleepsForAWorker
<1>1. WindowInv => SleepsForAWorker
  <2> SUFFICES ASSUME WindowInv, caller = "asleep" PROVE next_publish_seq \in away
    BY DEF SleepsForAWorker
  <2> USE WindowAssumption DEF WindowInv
  <2>1. inflight > 0 /\ ~Ready
    BY DEF Progress
  <2>2. next_publish_seq < next_submit_seq /\ next_publish_seq \in Packets
    BY <2>1 DEF Accounting, Busy, Released, TypeOK, Packets
  <2>3. next_publish_seq \in away \cup pending
    BY <2>2 DEF Numbers, Released, TypeOK, Packets
  <2> QED BY <2>1, <2>3, ReadyIff
<1> QED BY <1>1, WindowInvInductive, PTL

\* A packet given to the dispose callback is nowhere else.
THEOREM WindowDisposedIsDead == Spec => []DisposedIsDead
<1>1. WindowInv => DisposedIsDead
  <2> SUFFICES ASSUME WindowInv PROVE DisposedIsDead
    OBVIOUS
  <2> USE WindowAssumption DEF WindowInv, DisposedIsDead, Unsettled
  <2>1. CASE caller = "cleaned"
    BY <2>1
  <2>2. CASE caller # "cleaned"
    BY <2>2 DEF Numbers, Progress, Busy, TypeOK, Packets, None
  <2> QED BY <2>1, <2>2
<1> QED BY <1>1, WindowInvInductive, PTL

\* What is not settled is a run of consecutive numbers.
LEMMA UnsettledIsInterval ==
    ASSUME WindowInv, caller # "cleaned"
    PROVE  Unsettled = (next_publish_seq - (IF Busy THEN 1 ELSE 0)) ..
                       (next_submit_seq - (IF caller = "holding" \/ Released THEN 1 ELSE 0) - 1)
<1> USE WindowAssumption DEF WindowInv, TypeOK, Packets, None
<1> DEFINE lo == next_publish_seq - (IF Busy THEN 1 ELSE 0)
           hi == next_submit_seq - (IF caller = "holding" \/ Released THEN 1 ELSE 0) - 1
<1>1. ASSUME NEW s \in Unsettled PROVE s \in lo .. hi
  BY <1>1 DEF Unsettled, Numbers, Progress, Busy, Released
<1>2. ASSUME NEW s \in lo .. hi PROVE s \in Unsettled
  <2>1. CASE s = next_publish_seq - 1 /\ Busy
    BY <2>1 DEF Unsettled, Progress
  <2>2. CASE next_publish_seq <= s
    BY <1>2, <2>2 DEF Unsettled, Numbers
  <2> QED BY <1>2, <2>1, <2>2
<1> QED BY <1>1, <1>2

LEMMA IntervalCardinality ==
    ASSUME NEW a \in Int, NEW b \in Int, b - a + 1 >= 0
    PROVE  Cardinality(a .. b) = b - a + 1
BY FS_Interval

\* inflight counts exactly the packets not settled, and never exceeds the limit.
THEOREM WindowIsBounded == Spec => []WindowBounded
<1>1. WindowInv => WindowBounded
  <2> SUFFICES ASSUME WindowInv, caller # "cleaned"
               PROVE  /\ inflight <= MaxInflight
                      /\ Cardinality(Unsettled) + (IF caller = "holding" THEN 1 ELSE 0) = inflight
    BY DEF WindowBounded
  <2> USE WindowAssumption DEF WindowInv, TypeOK
  <2> DEFINE lo == next_publish_seq - (IF Busy THEN 1 ELSE 0)
             hi == next_submit_seq - (IF caller = "holding" \/ Released THEN 1 ELSE 0) - 1
  <2>1. lo \in Int /\ hi \in Int /\ hi - lo + 1 >= 0
    BY DEF Numbers
  <2>2. Cardinality(lo .. hi) = hi - lo + 1
    <3> HIDE DEF lo, hi
    <3> QED BY <2>1, IntervalCardinality
  <2>3. hi - lo + 1 + (IF caller = "holding" THEN 1 ELSE 0) = inflight
    BY DEF Accounting, Busy, Released
  <2>4. Cardinality(Unsettled) = hi - lo + 1
    BY <2>2, UnsettledIsInterval
  <2> QED BY <2>3, <2>4 DEF Accounting
<1> QED BY <1>1, WindowInvInductive, PTL

\* The window implements the abstract ordered channel.
THEOREM WindowImplementsChannel == Spec => ChannelSpec
<1> USE WindowAssumption
<1>1. Init => Channel!Init
  BY DEF Init, Channel!Init
<1>2. WindowInv /\ [Next]_vars => [Channel!Next]_(Channel!vars)
  <2> SUFFICES ASSUME WindowInv, [Next]_vars PROVE [Channel!Next]_(Channel!vars)
    OBVIOUS
  <2>1. CASE TestReserve
    <3>1. CASE WindowOpen
      <4>1. reserved - Len(out) < MaxInflight
        BY <2>1, <3>1 DEF TestReserve, WindowOpen, WindowInv, Accounting, Progress, Busy, Released,
           TypeOK
      <4> QED BY <2>1, <3>1, <4>1 DEF TestReserve, Channel!Next, Channel!Send
    <3>2. CASE ~WindowOpen
      BY <2>1, <3>2 DEF TestReserve, Channel!vars
    <3> QED BY <3>1, <3>2
  <2>2. CASE PublishOk
    <3>1. current = Len(out) /\ Len(out) < reserved
      BY <2>2 DEF PublishOk, WindowInv, Progress, Numbers, Busy, TypeOK
    <3> QED BY <2>2, <3>1 DEF PublishOk, Channel!Next, Channel!Deliver
  <2>3. CASE UNCHANGED <<reserved, out>>
    BY <2>3 DEF Channel!vars
  <2> QED BY <2>1, <2>2, <2>3
      DEF Next, CallerNext, ReserveBegins, DrainBegins, FlushTakes, FlushEnds, PublishFails,
          Settle, TestDrain, WaitChecks, HandOver, ReleaseSlot, Cleanup, PublishPacket,
          OthersCancel, SpuriousWakeup, Terminated, vars, ghosts
<1> QED BY <1>1, <1>2, WindowInvInductive, PTL DEF Spec, ChannelSpec, Channel!Spec

=============================================================================
