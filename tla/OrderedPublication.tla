------------------------- MODULE OrderedPublication -------------------------
(***************************************************************************)
(* The ordered-publication window of src/src/lib/ordered_publication.c.    *)
(*                                                                         *)
(* One caller reserves sequence numbers, hands each packet to a worker and *)
(* publishes the packets that came back, in sequence.  Workers only call   *)
(* publish_packet.  A critical section of state->lock is one action; the   *)
(* publish callback runs outside the lock, between FlushTakes and Settle.  *)
(* The pending list, kept sorted by insert_pending with each number at     *)
(* most once, is the set of its numbers; its head is the least of them.    *)
(***************************************************************************)
EXTENDS Naturals, Sequences, FiniteSets

CONSTANTS MaxInflight,     \* opts->max_inflight
          NumPackets       \* bound: how many slots the caller reserves

\* bx_ordered_publication_init refuses an empty window.
ASSUME WindowAssumption ==
    /\ MaxInflight \in Nat \ {0}
    /\ NumPackets \in Nat

Packets == 0 .. NumPackets - 1
None == NumPackets           \* no packet
Phases == {"requested", "observed", "draining", "joined", "published"}

CallerStates == {"idle",       \* between two calls
                 "flush",      \* in flush_ready, about to look at the head
                 "publish",    \* in the publish callback, lock released
                 "settle",     \* callback returned, about to lock again
                 "test",       \* flush_ready returned true: test inflight
                 "check",      \* in wait_for_ready, about to test its loop
                 "asleep",     \* in wait_for_ready, in pthread_cond_wait
                 "holding",    \* reserve_slot returned true, packet not yet handed over
                 "stopped",    \* a call failed: only cleanup may follow
                 "cleaned"}

VARIABLES
    pending,            \* the pending list
    inflight,
    next_submit_seq,
    next_publish_seq,
    caller,             \* where the caller is
    op,                 \* the call it is in: "reserve" or "drain"
    current,            \* the packet in the callback
    verdict,            \* what the callback returned
    reserved,           \* how many numbers reserve_slot handed out (ghost)
    away,               \* packets that workers own (ghost)
    out,                \* numbers successfully published, in order (ghost)
    disposed,           \* packets given to the dispose callback (ghost)
    cancel              \* phases set in *state->cancel

window == <<pending, inflight, next_submit_seq, next_publish_seq>>
ghosts == <<reserved, away, out, disposed>>
vars == <<window, caller, op, current, verdict, ghosts, cancel>>

Init ==
    /\ pending = {} /\ inflight = 0
    /\ next_submit_seq = 0 /\ next_publish_seq = 0
    /\ caller = "idle" /\ op = "reserve"
    /\ current = None /\ verdict = "ok"
    /\ reserved = 0 /\ away = {} /\ out = <<>> /\ disposed = {}
    /\ cancel = {}

-----------------------------------------------------------------------------

\* insert_pending keeps the list sorted: its head has the least number.
IsPendingHead(s) == s \in pending /\ \A t \in pending : s <= t

HasTurn(s) == s = next_publish_seq

Ready == \E s \in pending : IsPendingHead(s) /\ HasTurn(s)

\* The guarded decrement of inflight in flush_ready and release_slot.
DropSlot == IF inflight > 0 THEN inflight - 1 ELSE inflight

WakeCaller == IF caller = "asleep" THEN "check" ELSE caller

\* reserve_slot and drain both start with flush_ready.
ReserveBegins ==
    /\ caller = "idle" /\ next_submit_seq < NumPackets
    /\ op' = "reserve" /\ caller' = "flush"
    /\ UNCHANGED <<window, current, verdict, ghosts, cancel>>

DrainBegins ==
    /\ caller = "idle"
    /\ op' = "drain" /\ caller' = "flush"
    /\ UNCHANGED <<window, current, verdict, ghosts, cancel>>

\* Deviation: the packet stays on the list.
FlushKeepsPacket ==
    /\ caller = "flush"
    /\ \E s \in pending :
         /\ IsPendingHead(s) /\ HasTurn(s)
         /\ current' = s
    /\ next_publish_seq' = next_publish_seq + 1
    /\ caller' = "publish"
    /\ UNCHANGED <<pending, inflight, next_submit_seq, op, verdict, ghosts, cancel>>

\* flush_ready: detach the packet whose turn it is ...
FlushTakes ==
    /\ caller = "flush"
    /\ \E s \in pending :
         /\ IsPendingHead(s) /\ HasTurn(s)
         /\ current' = s
         /\ pending' = pending \ {s}
    /\ next_publish_seq' = next_publish_seq + 1
    /\ caller' = "publish"
    /\ UNCHANGED <<inflight, next_submit_seq, op, verdict, ghosts, cancel>>

\* ... or return true when there is none.
FlushEnds ==
    /\ caller = "flush" /\ ~Ready
    /\ caller' = "test"
    /\ UNCHANGED <<window, op, current, verdict, ghosts, cancel>>

\* The applet's publish callback returns true.
PublishOk ==
    /\ caller = "publish"
    /\ out' = Append(out, current)
    /\ verdict' = "ok"
    /\ caller' = "settle"
    /\ UNCHANGED <<window, op, current, reserved, away, disposed, cancel>>

\* The callback returns false: cancellation is requested.
PublishFails ==
    /\ caller = "publish"
    /\ verdict' = "failed"
    /\ cancel' = cancel \cup {"requested", "observed", "draining"}
    /\ caller' = "settle"
    /\ UNCHANGED <<window, op, current, ghosts>>

\* Deviation: after a failed callback flush_ready goes on with the next packet.
SettleIgnoresFailure ==
    /\ caller = "settle"
    /\ inflight' = DropSlot
    /\ disposed' = disposed \cup {current}
    /\ current' = None
    /\ caller' = "flush"
    /\ UNCHANGED <<pending, next_submit_seq, next_publish_seq, op, verdict, reserved, away, out,
                   cancel>>

\* Give the slot back, broadcast, dispose of the packet; go on or return false.
Settle ==
    /\ caller = "settle"
    /\ inflight' = DropSlot
    /\ disposed' = disposed \cup {current}
    /\ current' = None
    /\ caller' = IF verdict = "ok" THEN "flush" ELSE "stopped"
    /\ UNCHANGED <<pending, next_submit_seq, next_publish_seq, op, verdict, reserved, away, out,
                   cancel>>

WindowOpen == inflight < MaxInflight

\* reserve_slot assigns the next number, or goes to wait.
TestReserve ==
    /\ caller = "test" /\ op = "reserve"
    /\ IF WindowOpen
       THEN /\ next_submit_seq' = next_submit_seq + 1
            /\ reserved' = reserved + 1
            /\ inflight' = inflight + 1
            /\ caller' = "holding"
       ELSE /\ caller' = "check"
            /\ UNCHANGED <<next_submit_seq, reserved, inflight>>
    /\ UNCHANGED <<pending, next_publish_seq, op, current, verdict, away, out, disposed, cancel>>

\* drain returns true when nothing is in flight, or goes to wait.
TestDrain ==
    /\ caller = "test" /\ op = "drain"
    /\ caller' = IF inflight = 0 THEN "idle" ELSE "check"
    /\ UNCHANGED <<window, op, current, verdict, ghosts, cancel>>

WaitChecks ==
    /\ caller = "check"
    /\ caller' = IF ~Ready /\ inflight > 0 THEN "asleep" ELSE "flush"
    /\ UNCHANGED <<window, op, current, verdict, ghosts, cancel>>

-----------------------------------------------------------------------------

\* The caller hands the reserved packet to the worker queue.
HandOver ==
    /\ caller = "holding"
    /\ away' = away \cup {next_submit_seq - 1}
    /\ caller' = "idle"
    /\ UNCHANGED <<window, op, current, verdict, reserved, out, disposed, cancel>>

\* The worker queue refused it: release_slot.  The number stays a hole, so the
\* caller may not reserve again.
ReleaseSlot ==
    /\ caller = "holding"
    /\ inflight' = DropSlot
    /\ caller' = "stopped"
    /\ UNCHANGED <<pending, next_submit_seq, next_publish_seq, op, current, verdict, ghosts, cancel>>

\* Deviation: publish_packet does not broadcast.
PublishPacketQuietly(s) ==
    /\ s \in away
    /\ away' = away \ {s}
    /\ pending' = pending \cup {s}
    /\ UNCHANGED <<inflight, next_submit_seq, next_publish_seq, caller, op, current, verdict,
                   reserved, out, disposed, cancel>>

\* A worker returns a packet: bx_ordered_publication_publish_packet.
PublishPacket(s) ==
    /\ s \in away
    /\ away' = away \ {s}
    /\ pending' = pending \cup {s}
    /\ caller' = WakeCaller
    /\ UNCHANGED <<inflight, next_submit_seq, next_publish_seq, op, current, verdict,
                   reserved, out, disposed, cancel>>

\* bx_ordered_publication_cleanup, once no worker owns a packet any more.
Cleanup ==
    /\ caller \in {"idle", "stopped"} /\ away = {}
    /\ disposed' = disposed \cup pending
    /\ pending' = {} /\ inflight' = 0
    /\ next_submit_seq' = 0 /\ next_publish_seq' = 0
    /\ caller' = "cleaned"
    /\ UNCHANGED <<op, current, verdict, reserved, away, out, cancel>>

\* The other users of the cancel flag.
OthersCancel ==
    /\ \E p \in SUBSET Phases : cancel' = cancel \cup p
    /\ UNCHANGED <<window, caller, op, current, verdict, ghosts>>

SpuriousWakeup ==
    /\ caller = "asleep" /\ caller' = "check"
    /\ UNCHANGED <<window, op, current, verdict, ghosts, cancel>>

CallerNext ==
    \/ ReserveBegins \/ DrainBegins
    \/ FlushTakes \/ FlushEnds \/ PublishOk \/ PublishFails \/ Settle
    \/ TestReserve \/ TestDrain \/ WaitChecks
    \/ HandOver \/ ReleaseSlot \/ Cleanup

Terminated == caller = "cleaned" /\ UNCHANGED vars

Next ==
    \/ CallerNext
    \/ \E s \in Packets : PublishPacket(s)
    \/ OthersCancel
    \/ SpuriousWakeup
    \/ Terminated

Spec == Init /\ [][Next]_vars

\* A call the caller is inside proceeds, and workers return their packets.
Fairness ==
    /\ WF_vars(FlushTakes \/ FlushEnds \/ PublishOk \/ PublishFails \/ Settle
               \/ TestReserve \/ TestDrain \/ WaitChecks)
    /\ \A s \in Packets : WF_vars(PublishPacket(s))

FairSpec == Spec /\ Fairness

-----------------------------------------------------------------------------
(* Properties. *)

\* The type invariant of the window.
TypeOK ==
    /\ pending \in SUBSET Packets
    /\ inflight \in Nat
    /\ next_submit_seq \in 0 .. NumPackets
    /\ next_publish_seq \in 0 .. NumPackets
    /\ caller \in CallerStates
    /\ op \in {"reserve", "drain"}
    /\ current \in Packets \cup {None}
    /\ verdict \in {"ok", "failed"}
    /\ reserved \in 0 .. NumPackets
    /\ away \in SUBSET Packets
    /\ out \in Seq(Packets)
    /\ disposed \in SUBSET Packets
    /\ cancel \in SUBSET Phases

\* Output order: what the publish callback accepted is 0, 1, 2, ... without a
\* gap, whatever order workers finish in and wherever publication fails.
PublishedInOrder == \A i \in 1 .. Len(out) : out[i] = i - 1

\* "bounding queued, active, and completed-not-yet-published packets with one
\* max_inflight limit": a packet that is with a worker, pending or in the
\* callback is counted by inflight, which never exceeds the limit.
Unsettled == (away \cup pending \cup {current}) \ {None}
WindowBounded ==
    caller # "cleaned" =>
      /\ inflight <= MaxInflight
      /\ Cardinality(Unsettled) + (IF caller = "holding" THEN 1 ELSE 0) = inflight

\* No lost wakeup: the caller sleeps only while the packet whose turn it is is
\* still with a worker, who will broadcast when it returns it.
SleepsForAWorker == caller = "asleep" => next_publish_seq \in away

\* Every packet is disposed of at most once and only after its last use.
DisposedIsDead ==
    /\ disposed \cap Unsettled = {}
    /\ caller = "cleaned" => Unsettled = {}

\* The window implements the channel of module OrderedChannel.
Channel == INSTANCE OrderedChannel
             WITH Window <- MaxInflight,
                  sent <- reserved,
                  delivered <- out

ChannelSpec == Channel!Spec

\* A reserve or drain that was called returns, successfully or not.
CallReturns ==
    caller \in {"flush", "publish", "settle", "test", "check", "asleep"}
      ~> caller \in {"idle", "holding", "stopped"}

=============================================================================
