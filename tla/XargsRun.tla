------------------------------ MODULE XargsRun -------------------------------
(***************************************************************************)
(* A run of xargs: xargs_run_streaming_batches of                          *)
(* src/applets/base/xargs/xargs_exec.c over the child table of             *)
(* ChildRunner.                                                            *)
(*                                                                         *)
(* The reader delivers items one by one to the sink.  With -I (mode        *)
(* "replace") each item is a command; otherwise items gather in a batch    *)
(* that is flushed when it is full.  Either way the sink waits for a slot, *)
(* spawns, and polls for children that ended; their statuses are folded    *)
(* into final_rc, and some of them abort the launching.  SIGINT, SIGTERM   *)
(* and SIGHUP only set a flag.                                             *)
(***************************************************************************)
EXTENDS Integers, Sequences, FiniteSets

CONSTANTS Pids, Inherited, AutoReap,
          ProcLimits, \* values of -P; 0 is no limit
          MaxArgs,    \* -n
          NumItems,   \* bound on the input
          Modes       \* which of "replace" and "batch" are tried

ASSUME XargsAssumption ==
    /\ IsFiniteSet(Pids) /\ Inherited \subseteq Pids /\ AutoReap \in BOOLEAN
    /\ ProcLimits \subseteq Nat /\ MaxArgs \in Nat \ {0} /\ NumItems \in Nat
    /\ Modes \subseteq {"replace", "batch"}

VARIABLES
    children, cap, proc, call, cancelling, phases,  \* ChildRunner
    max_procs,     \* opts->max_procs
    mode,          \* opts->replace_mode
    item,          \* items delivered so far
    batch,         \* ctx.batch: the items gathered
    main,          \* where the main thread is
    then,          \* whose slot it waits for: "replace", "sink" or "last"
    read_ok, failed, abort_launch, final_rc,
    interrupt,     \* xargs_interrupt_signal # 0
    args,          \* pid -> the items of its command
    settled,       \* items whose command ended with 0, or was declined
    rc             \* the value returned

\* Rows at the start.
FirstCap(limit) == IF limit > 0 THEN limit ELSE 1
Tab == INSTANCE ChildRunner WITH FirstCaps <- {FirstCap(n) : n \in ProcLimits}, MaxCap <- 4

tab == <<children, cap, proc, call, cancelling, phases>>
status == <<abort_launch, final_rc>>
input == <<max_procs, mode, item, batch>>
end == <<read_ok, failed, rc>>
vars == <<tab, input, main, then, status, end, interrupt, args, settled>>

Items == 1 .. NumItems
MainStates == {"read",   \* in xargs_read_stream
               "slot",   \* xargs_stream_wait_for_slot: the test of its loop
               "taken",  \* ... and its bx_child_reap
               "spawn", "drain", "polled",  \* spawn, the poll after it
               "append", \* the sink stores the item in the batch
               "last", "empty", "wait", "waited", "end", "cancel", "done"}

Outcomes == {"ok", "bad", "abort"}
RcOf == [ok |-> 0, bad |-> 123, abort |-> 124]

Init ==
    /\ Tab!Init
    /\ max_procs \in ProcLimits /\ cap = FirstCap(max_procs)
    /\ mode \in Modes
    /\ item = 0 /\ batch = {}
    /\ main = "read" /\ then = "sink"
    /\ read_ok = TRUE /\ failed = FALSE /\ abort_launch = FALSE
    /\ final_rc = 0 /\ interrupt = FALSE
    /\ args = [p \in Pids |-> {}] /\ settled = {} /\ rc = 0

Returned(at) == main = at /\ call = "none"
Stop == interrupt \/ abort_launch

\* Deviation: the last status wins.
LaterStatus(old, new) == new
\* if (rc > *final_rc) *final_rc = rc
WorseStatus(old, new) == IF new > old THEN new ELSE old

\* The sink returns false.
SinkStops == main' = "last" /\ read_ok' = FALSE

-----------------------------------------------------------------------------
(* xargs_read_stream and the sink. *)

\* The next item reaches the sink, in replace mode ...
ReadReplace ==
    /\ main = "read" /\ mode = "replace" /\ item < NumItems
    /\ item' = item + 1
    /\ main' = "slot" /\ then' = "replace"
    /\ UNCHANGED <<tab, max_procs, mode, batch, status, end, interrupt, args, settled>>

\* ... or in batch mode, where a batch full by number, lines or bytes goes
\* first.
ReadFlush ==
    /\ main = "read" /\ mode = "batch" /\ item < NumItems
    /\ batch # {}
    /\ item' = item + 1
    /\ main' = "slot" /\ then' = "sink"
    /\ UNCHANGED <<tab, max_procs, mode, batch, status, end, interrupt, args, settled>>

ReadAppend ==
    /\ main = "read" /\ mode = "batch" /\ item < NumItems
    /\ Cardinality(batch) < MaxArgs
    /\ item' = item + 1
    /\ main' = "append"
    /\ UNCHANGED <<tab, max_procs, mode, batch, then, status, end, interrupt, args, settled>>

\* The item joins the batch; it does not if it is longer than a command line
\* may be, or without memory.
AppendItem ==
    /\ main = "append"
    /\ batch' = batch \cup {item}
    /\ main' = "read"
    /\ UNCHANGED <<tab, max_procs, mode, item, then, status, end, interrupt, args, settled>>

AppendFails ==
    /\ main = "append"
    /\ failed' = TRUE /\ SinkStops
    /\ UNCHANGED <<tab, input, then, status, rc, interrupt, args, settled>>

\* End of input, or a malformed or unreadable one.
ReadEnds ==
    /\ main = "read"
    /\ main' = "last"
    /\ read_ok' \in BOOLEAN
    /\ UNCHANGED <<tab, input, then, status, failed, rc, interrupt, args, settled>>

-----------------------------------------------------------------------------
(* xargs_stream_wait_for_slot. *)

HasRoom == Len(children) < cap

SlotFree ==
    /\ main = "slot" /\ HasRoom
    /\ main' = "spawn"
    /\ UNCHANGED <<tab, input, then, status, end, interrupt, args, settled>>

SlotGrows ==
    /\ main = "slot" /\ ~HasRoom /\ max_procs = 0
    /\ Tab!Grow
    /\ main' = "spawn"
    /\ UNCHANGED <<input, then, status, end, interrupt, args, settled>>

\* Without memory for a larger table, the sink fails, or the last flush.
SlotGrowFails ==
    /\ main = "slot" /\ ~HasRoom /\ max_procs = 0
    /\ failed' = TRUE
    /\ read_ok' = FALSE
    /\ main' = IF then = "last" THEN "empty" ELSE "last"
    /\ UNCHANGED <<tab, input, then, status, rc, interrupt, args, settled>>

SlotWaits ==
    /\ main = "slot" /\ ~HasRoom /\ max_procs # 0
    /\ Tab!BeginWait("one")
    /\ main' = "taken"
    /\ UNCHANGED <<input, then, status, end, interrupt, args, settled>>

\* After each reap the loop looks at the flags.  A batch that finds no slot
\* stays unflushed.
SlotTaken ==
    /\ Returned("taken")
    /\ IF ~Stop THEN main' = "slot" /\ UNCHANGED read_ok
       ELSE IF then = "last" THEN main' = "empty" /\ UNCHANGED read_ok
       ELSE SinkStops
    /\ UNCHANGED <<tab, input, then, status, failed, rc, interrupt, args, settled>>

-----------------------------------------------------------------------------
(* xargs_spawn_replacement, xargs_spawn_batch, and the poll after them. *)

\* The items of the command.
Given == IF then = "replace" THEN {item} ELSE batch
NewPid == CHOOSE p \in Pids : proc[p] = "unborn"
Unborn == {p \in Pids : proc[p] = "unborn"}

\* A child runs the command, or could not: the error pipe says which, and a
\* failure to execute is recorded at once.
SpawnChild(cannot) ==
    /\ main = "spawn"
    /\ Unborn # {}
    /\ LET p == NewPid IN
         /\ Tab!Spawn(p, cannot)
         /\ args' = [args EXCEPT ![p] = Given]
    /\ abort_launch' = (abort_launch \/ cannot)
    /\ final_rc' = IF cannot THEN WorseStatus(final_rc, 127) ELSE final_rc
    /\ batch' = IF then = "replace" THEN batch ELSE {}
    /\ main' = "drain"
    /\ UNCHANGED <<max_procs, mode, item, then, end, interrupt, settled>>

\* With -p the user may decline the command.
SpawnDeclined ==
    /\ main = "spawn"
    /\ settled' = settled \cup Given
    /\ batch' = IF then = "replace" THEN batch ELSE {}
    /\ main' = "drain"
    /\ UNCHANGED <<tab, max_procs, mode, item, then, status, end, interrupt, args>>

\* No memory, no pipe, no process, or a command line that is too long.
SpawnFails ==
    /\ main = "spawn"
    /\ failed' = TRUE
    /\ read_ok' = FALSE
    /\ main' = IF then = "last" THEN "empty" ELSE "last"
    /\ UNCHANGED <<tab, input, then, status, rc, interrupt, args, settled>>

Drain ==
    /\ main = "drain"
    /\ IF Len(children) > 0 THEN Tab!BeginWait("poll") ELSE UNCHANGED tab
    /\ main' = "polled"
    /\ UNCHANGED <<input, then, status, end, interrupt, args, settled>>

\* Deviation: the sink goes on after a command that aborts the launching.
PolledGoesOn ==
    /\ Returned("polled")
    /\ main' = CASE then = "replace" -> "read" [] then = "sink" -> "append" [] then = "last" -> "empty"
    /\ UNCHANGED <<tab, input, then, status, end, interrupt, args, settled>>

\* Where the flush came from decides: the sink for -I just returns, the other
\* one looks at the flags first.
Polled ==
    /\ Returned("polled")
    /\ IF then = "sink" /\ Stop THEN SinkStops
       ELSE /\ main' = CASE then = "replace" -> "read" [] then = "sink" -> "append"
                         [] then = "last" -> "empty"
            /\ UNCHANGED read_ok
    /\ UNCHANGED <<tab, input, then, status, failed, rc, interrupt, args, settled>>

-----------------------------------------------------------------------------
(* After the input. *)

\* A sink that stopped for a flag is no failure; the last batch is flushed.
LastFlush ==
    /\ main = "last"
    /\ read_ok' = (read_ok \/ (~failed /\ Stop))
    /\ main' = IF read_ok' /\ batch # {} /\ ~Stop THEN "slot" ELSE "empty"
    /\ then' = "last"
    /\ UNCHANGED <<tab, input, status, failed, rc, interrupt, args, settled>>

\* Without -r an empty input still runs the command once ...
EmptyRuns(cannot) ==
    /\ main = "empty" /\ read_ok /\ item = 0 /\ mode = "batch"
    /\ Unborn # {}
    /\ Tab!Spawn(NewPid, cannot)
    /\ abort_launch' = (abort_launch \/ cannot)
    /\ final_rc' = IF cannot THEN WorseStatus(final_rc, 127) ELSE final_rc
    /\ main' = "wait"
    /\ UNCHANGED <<input, then, end, interrupt, args, settled>>

EmptyFails ==
    /\ main = "empty" /\ read_ok /\ item = 0 /\ mode = "batch"
    /\ read_ok' = FALSE
    /\ main' = "wait"
    /\ UNCHANGED <<tab, input, then, status, failed, rc, interrupt, args, settled>>

\* ... with -r, with -I or after some item it does not.
EmptySkips ==
    /\ main = "empty"
    /\ main' = "wait"
    /\ UNCHANGED <<tab, input, then, status, end, interrupt, args, settled>>

\* xargs_wait_for_running_children: only if reading went well, and until a
\* signal arrives.
Wait ==
    /\ main = "wait"
    /\ IF read_ok /\ Len(children) > 0 /\ ~interrupt
       THEN Tab!BeginWait("all") /\ main' = "waited"
       ELSE UNCHANGED tab /\ main' = "end"
    /\ UNCHANGED <<input, then, status, end, interrupt, args, settled>>

Waited ==
    /\ Returned("waited")
    /\ main' = "wait"
    /\ UNCHANGED <<tab, input, then, status, end, interrupt, args, settled>>

Cancel ==
    /\ main = "end" /\ interrupt
    /\ Tab!CancelRun
    /\ rc' = 130
    /\ main' = "cancel"
    /\ UNCHANGED <<input, then, status, read_ok, failed, interrupt, args, settled>>

CancelLoop ==
    /\ main = "cancel"
    /\ Tab!CancelLoop
    /\ main' = IF cancelling' THEN "cancel" ELSE "done"
    /\ UNCHANGED <<input, then, status, end, interrupt, args, settled>>

Return ==
    /\ main = "end" /\ ~interrupt
    /\ rc' = IF read_ok /\ ~failed THEN final_rc ELSE 1
    /\ main' = "done"
    /\ UNCHANGED <<tab, input, then, status, read_ok, failed, interrupt, args, settled>>

-----------------------------------------------------------------------------
(* bx_child_reap with xargs_reap_status_cb, the children and the signals. *)

\* The status of a child that ran counts, an inherited child's too; while a
\* cancelled run is drained nothing is recorded.
ReapTakes(p, o) ==
    /\ Tab!ReapTakes(p)
    /\ LET known == \E i \in 1 .. Len(children) : children[i].pid = p /\ children[i].exec_failed
       IN  IF known \/ main = "cancel" THEN UNCHANGED <<status, settled>>
           ELSE /\ final_rc' = WorseStatus(final_rc, RcOf[o])
                /\ abort_launch' = (abort_launch \/ o = "abort")
                /\ settled' = IF o = "ok" THEN settled \cup args[p] ELSE settled
    /\ UNCHANGED <<input, main, then, end, interrupt, args>>

ReapNothing ==
    /\ Tab!ReapNothing
    /\ UNCHANGED <<input, main, then, status, end, interrupt, args, settled>>

\* A signal: it may end a sleep in waitpid.
Signal ==
    /\ main # "done" /\ ~interrupt
    /\ interrupt' = TRUE
    /\ UNCHANGED <<tab, input, main, then, status, end, args, settled>>

SignalInWait ==
    /\ Tab!ReapInterrupted
    /\ interrupt' = TRUE
    /\ UNCHANGED <<input, main, then, status, end, args, settled>>

Exit(p) ==
    /\ Tab!Exit(p)
    /\ UNCHANGED <<input, main, then, status, end, interrupt, args, settled>>

MainNext ==
    \/ ReadReplace \/ ReadFlush \/ ReadAppend \/ AppendItem \/ AppendFails \/ ReadEnds
    \/ SlotFree \/ SlotGrows \/ SlotGrowFails \/ SlotWaits \/ SlotTaken
    \/ (\E cannot \in BOOLEAN : SpawnChild(cannot) \/ EmptyRuns(cannot))
    \/ SpawnDeclined \/ SpawnFails \/ Drain \/ Polled
    \/ LastFlush \/ EmptyFails \/ EmptySkips \/ Wait \/ Waited
    \/ Cancel \/ CancelLoop \/ Return
    \/ (\E p \in Pids, o \in Outcomes : ReapTakes(p, o)) \/ ReapNothing

Terminated == main = "done" /\ UNCHANGED vars

Next ==
    \/ MainNext
    \/ Signal \/ SignalInWait
    \/ \E p \in Pids : Exit(p)
    \/ Terminated

Spec == Init /\ [][Next]_vars

\* xargs keeps running, its input ends, and so does every command.
FairSpec == Spec /\ WF_vars(MainNext) /\ \A p \in Pids : WF_vars(Exit(p))

-----------------------------------------------------------------------------
(* Properties. *)

\* xargs returns 0 only after every item it read went to a command that ended
\* with 0 (or that the user declined), and every child was reaped: no status is
\* lost between the polls, the waits and the flags that cut them short.
SuccessIsComplete ==
    main = "done" /\ rc = 0 => settled = 1 .. item /\ Len(children) = 0

\* A command was started.
Launches == \E p \in Pids : proc[p] = "unborn" /\ proc'[p] = "runs"

\* xargs keeps the rules of the table: a row is free when a child is spawned
\* (bx_child_spawn_argv does not look), and no call is made after a cancelled
\* run.  In batch mode nothing is launched after a status that aborts.
TableUse ==
    /\ Tab!Spec
    /\ [][mode = "batch" /\ abort_launch => ~Launches]_vars

\* "exited with status 255; aborting" and "failed to run command": no further
\* command is started, in either mode.
AbortStopsLaunching == [][abort_launch => ~Launches]_vars

\* "stop spawning before join/reap": when xargs returns, it has reaped the
\* children it started.
ReapedAtEnd == main = "done" => Len(children) = 0

\* The table of ChildRunner is in order, whatever xargs does with it.
TableOK == Tab!TableOK

\* xargs ends if its commands do, a cancelled run included.
RunEnds == <>(main = "done")

=============================================================================
