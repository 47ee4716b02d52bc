----------------------------- MODULE ChildRunner -----------------------------
(***************************************************************************)
(* The table of running children of src/lib/child_runner.c, with the       *)
(* kernel's side of it: processes that exit, wait to be reaped and are     *)
(* reaped by waitpid(-1), which returns any child of the process.          *)
(*                                                                         *)
(* A client owns the array `children' of `cap' rows.  It picks a slot,     *)
(* spawns into the first free row, polls or waits for the children, and on *)
(* a signal kills and reaps what is left.  A row is removed by moving the  *)
(* last row into its place.                                                *)
(*                                                                         *)
(* Children the process had before (it was exec'd by a shell that had      *)
(* some) are in Inherited: waitpid returns them too.  AutoReap says that   *)
(* the process was started with SIGCHLD ignored, so that its children      *)
(* leave no zombie.                                                        *)
(***************************************************************************)
EXTENDS Integers, Sequences, FiniteSets

CONSTANTS Pids,       \* process ids
          Inherited,  \* children of the process from before its exec
          FirstCaps,  \* rows a table may have at the start
          MaxCap,     \* bound on its growth
          AutoReap    \* SIGCHLD was inherited as SIG_IGN

VARIABLES
    children,   \* the rows in use, children[0 .. running - 1]
    cap,        \* rows allocated: max_procs
    proc,       \* the kernel's view of each pid
    call,       \* the wait call the client is inside
    cancelling, \* the client is in bx_child_finish_cancelled_run
    phases      \* its struct bx_cancel_state

table == <<children, cap>>
vars == <<children, cap, proc, call, cancelling, phases>>

Rows == [pid : Pids, slot : Nat, exec_failed : BOOLEAN]

\* bx_child_reap(block, drain_all): "one" is (true, false), "all" (true, true)
\* before its first child, "poll" (false, true) or what "all" becomes then.
Calls == {"none", "one", "all", "poll"}
Phases == {"requested", "observed", "draining", "killed", "joined"}

Running == Len(children)
RowPids == {children[i].pid : i \in 1 .. Running}
Alive == {p \in Pids : proc[p] = "runs"}
Zombies == {p \in Pids : proc[p] = "zombie"}

\* Deviation: a row is removed only if it is the last.
DropIfLast(rows, p) ==
    IF rows # <<>> /\ rows[Len(rows)].pid = p THEN SubSeq(rows, 1, Len(rows) - 1) ELSE rows
\* *child = children[--*running], when the pid has a row.
DropRow(rows, p) ==
    LET last == Len(rows) IN
    IF \E i \in 1 .. last : rows[i].pid = p
    THEN LET k == CHOOSE i \in 1 .. last :
                    rows[i].pid = p /\ \A j \in 1 .. i - 1 : rows[j].pid # p
         IN  [i \in 1 .. last - 1 |-> IF i = k THEN rows[last] ELSE rows[i]]
    ELSE rows

\* Deviation: the slot is the number of the row.
SlotIsRow(rows, n) == Len(rows)
\* The lowest slot below n that no row has; 0 if every one is taken.
PickSlot(rows, n) ==
    LET open == {s \in 0 .. n - 1 : \A i \in 1 .. Len(rows) : rows[i].slot # s}
    IN  IF open = {} THEN 0 ELSE CHOOSE s \in open : \A t \in open : s <= t

Init ==
    /\ children = <<>> /\ cap \in FirstCaps
    /\ proc = [p \in Pids |-> IF p \in Inherited THEN "runs" ELSE "unborn"]
    /\ call = "none" /\ cancelling = FALSE
    /\ phases = {}

\* Between two calls; a client makes none after a cancelled run.
Idle == call = "none" /\ ~cancelling /\ "joined" \notin phases

-----------------------------------------------------------------------------
(* The client. *)

\* A client without a limit enlarges its array.
Grow ==
    /\ Idle
    /\ Running >= cap
    /\ cap' = IF cap < 4 THEN 4 ELSE cap * 2
    /\ cap' <= MaxCap
    /\ UNCHANGED <<children, proc, call, cancelling, phases>>

\* bx_child_spawn_argv from fork to the end of the error pipe.  Whether the
\* command could be executed is known when it returns.
Spawn(p, failed) ==
    /\ Idle
    /\ Running < cap
    /\ proc[p] = "unborn"
    /\ children' = Append(children, [pid |-> p, slot |-> PickSlot(children, cap), exec_failed |-> failed])
    /\ proc' = [proc EXCEPT ![p] = "runs"]
    /\ UNCHANGED <<cap, call, cancelling, phases>>

BeginWait(kind) ==
    /\ Idle
    /\ call' = kind
    /\ UNCHANGED <<children, cap, proc, cancelling, phases>>

\* bx_child_finish_cancelled_run up to its loop: phases, then the signal to
\* every row.  A signalled child ends as any other does.
CancelRun ==
    /\ Idle
    /\ cancelling' = TRUE
    /\ phases' = phases \cup {"requested", "observed", "draining"}
                        \cup (IF Running > 0 THEN {"killed"} ELSE {})
    /\ UNCHANGED <<children, cap, proc, call>>

\* Its loop: reap until no row is left.
CancelLoop ==
    /\ cancelling /\ call = "none"
    /\ IF Running > 0
       THEN call' = "all" /\ UNCHANGED <<cancelling, phases>>
       ELSE cancelling' = FALSE /\ phases' = phases \cup {"joined"} /\ UNCHANGED call
    /\ UNCHANGED <<children, cap, proc>>

-----------------------------------------------------------------------------
(* bx_child_reap: one iteration of its loop per step. *)

ReapTakes(p) ==
    /\ call # "none"
    /\ p \in Zombies
    /\ proc' = [proc EXCEPT ![p] = "gone"]
    /\ children' = DropRow(children, p)
    /\ call' = IF call = "one" \/ Len(children') = 0 THEN "none" ELSE "poll"
    /\ UNCHANGED <<cap, cancelling, phases>>

\* waitpid finds nothing to reap, or no child at all (ECHILD): 0 either way.
ReapNothing ==
    /\ call # "none"
    /\ Zombies = {}
    /\ call = "poll" \/ Alive = {}
    /\ call' = "none"
    /\ UNCHANGED <<children, cap, proc, cancelling, phases>>

\* A signal handler interrupts the sleep in waitpid: 0 again.
ReapInterrupted ==
    /\ call \in {"one", "all"}
    /\ Zombies = {} /\ Alive # {}
    /\ call' = "none"
    /\ UNCHANGED <<children, cap, proc, cancelling, phases>>

-----------------------------------------------------------------------------
(* The kernel. *)

Exit(p) ==
    /\ proc[p] = "runs"
    /\ proc' = [proc EXCEPT ![p] = IF AutoReap THEN "gone" ELSE "zombie"]
    /\ UNCHANGED <<children, cap, call, cancelling, phases>>

-----------------------------------------------------------------------------

WaitStep == (\E p \in Pids : ReapTakes(p)) \/ ReapNothing \/ CancelLoop

\* The client is done with the table.
Terminated == "joined" \in phases /\ Alive = {} /\ UNCHANGED vars

Next ==
    \/ Grow
    \/ \E p \in Pids, failed \in BOOLEAN : Spawn(p, failed)
    \/ \E kind \in Calls \ {"none"} : BeginWait(kind)
    \/ CancelRun
    \/ WaitStep
    \/ ReapInterrupted
    \/ \E p \in Pids : Exit(p)
    \/ Terminated

Spec == Init /\ [][Next]_vars

-----------------------------------------------------------------------------
(* Properties. *)

\* The type invariant of the table and of the kernel's view.
TypeOK ==
    /\ children \in Seq(Rows) /\ cap \in Nat
    /\ proc \in [Pids -> {"unborn", "runs", "zombie", "gone"}]
    /\ call \in Calls /\ cancelling \in BOOLEAN /\ phases \in SUBSET Phases

\* The rows are exactly the children this process spawned and has not reaped,
\* whatever order they end in and whoever else waitpid returns: a pid in the
\* table is never one the kernel may have given to a stranger, so
\* bx_child_signal_all kills nobody else's process.
TableIsExact ==
    /\ \A i, j \in 1 .. Running : children[i].pid = children[j].pid => i = j
    /\ RowPids = (Alive \cup Zombies) \ Inherited

\* No two running children share a slot number (--process-slot-var), no slot is
\* beyond the table, and the phase JOINED says that every child was reaped.
SlotsAndPhases ==
    /\ \A i \in 1 .. Running : children[i].slot < cap
    /\ \A i, j \in 1 .. Running : children[i].slot = children[j].slot => i = j
    /\ "joined" \in phases => Running = 0

\* The table, its slots and the phases of a cancelled run.
TableOK == TypeOK /\ TableIsExact /\ SlotsAndPhases

=============================================================================
