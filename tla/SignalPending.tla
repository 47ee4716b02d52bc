---------------------------- MODULE SignalPending ----------------------------
(***************************************************************************)
(* The signal recorder of src/lib/signal_pending.c and the shell's traps   *)
(* on it (src/applets/shell/ash/traps.c): one thread, whose handler notes  *)
(* a signal and whose main line later runs the trap.  The handler may run  *)
(* between any two steps unless the signal is blocked; what stands in one  *)
(* step below is done with the signals blocked.                            *)
(*                                                                         *)
(* The shell executes one command at a time: a trap command, a wait for    *)
(* its child, or any other, and looks at the recorder after each.  Signals *)
(* that were ignored when the shell started, whose traps change nothing,   *)
(* are left out, and the mask the shell started with is empty.             *)
(***************************************************************************)
EXTENDS Naturals

CONSTANT NumSignals

ASSUME SignalAssumption == NumSignals \in Nat \ {0}

Signals == 1 .. NumSignals
CHLD == 0
Dispositions == {"default", "ignored", "recorded"}

VARIABLES
    disp, mask, queued,   \* the kernel's: dispositions, blocked and pending signals
    notify,               \* SIGCHLD has its handler
    child,                \* the shell's child: "none", "running", "ended"
    recorded, flags, any, \* the recorder; recorded stands for count too
    active,               \* active points to it
    traps,                \* the entries: "none", "ignored", "caught"
    running,              \* signal_running
    pc, call,             \* where the shell is; the locals of its call
    owed                  \* signals that arrived for a trap and were not taken

kernel == <<disp, mask, queued, notify, child>>
recorder == <<recorded, flags, any, active>>
shell == <<traps, running>>
vars == <<kernel, recorder, shell, pc, call, owed>>

Least(S) == CHOOSE x \in S : \A y \in S : x <= y
NoCall == [sig |-> 0]

Init ==
    /\ disp = [s \in Signals |-> "default"] /\ mask = {} /\ queued = {}
    /\ notify = FALSE /\ child = "none"
    /\ recorded = {} /\ flags = {} /\ any = FALSE /\ active = FALSE
    /\ traps = [s \in Signals |-> "none"] /\ running = FALSE
    /\ pc = "idle" /\ call = NoCall /\ owed = {}

Alive == pc \notin {"killed", "exited"}

-----------------------------------------------------------------------------
(* The kernel. *)

Raise(s) ==
    /\ Alive
    /\ s \in mask \/ disp[s] # "ignored"
    /\ queued' = queued \cup {s}
    /\ owed' = IF disp[s] = "recorded" THEN owed \cup {s} ELSE owed
    /\ UNCHANGED <<disp, mask, notify, child, recorder, shell, pc, call>>

StartChild ==
    /\ pc = "idle" /\ child = "none"
    /\ child' = "running" /\ pc' = "dispatch"
    /\ UNCHANGED <<disp, mask, queued, notify, recorder, shell, call, owed>>

\* SIGCHLD stays pending if it is blocked or has a handler.
ChildEnds ==
    /\ Alive /\ child = "running"
    /\ child' = "ended"
    /\ queued' = IF notify \/ CHLD \in mask THEN queued \cup {CHLD} ELSE queued
    /\ UNCHANGED <<disp, mask, notify, recorder, shell, pc, call, owed>>

BlockedInWait == recorded \cup {CHLD}

\* A handler ends sigsuspend, which blocks the signals again.
Wake ==
    /\ pc' = IF pc = "suspended" THEN "check" ELSE pc
    /\ mask' = IF pc = "suspended" THEN BlockedInWait ELSE mask

\* bx_signal_pending_handler.
Record(s) ==
    /\ disp[s] = "recorded"
    /\ flags' = IF active THEN flags \cup {s} ELSE flags
    /\ any' = (any \/ active)
    /\ Wake
    /\ UNCHANGED <<recorded, active>>

Deliver(s) ==
    /\ Alive
    /\ s \in queued \ mask
    /\ queued' = queued \ {s}
    /\ \/ s = CHLD /\ IF notify THEN Wake /\ UNCHANGED recorder ELSE UNCHANGED <<pc, mask, recorder>>
       \/ s \in Signals /\ Record(s)
       \/ s \in Signals /\ disp[s] = "ignored" /\ UNCHANGED <<pc, mask, recorder>>
       \/ s \in Signals /\ disp[s] = "default" /\ pc' = "killed" /\ UNCHANGED <<mask, recorder>>
    /\ UNCHANGED <<disp, notify, child, shell, call, owed>>

-----------------------------------------------------------------------------
(* ash_trap_signal_set and bx_signal_pending_set.                            *)

Wanted == [recorded |-> "caught", ignored |-> "ignored", default |-> "none"]

\* All signals are blocked.  A trap that changes nothing ends before (in a
\* subshell the calls are made, to no effect).
SetEnter(s, to) ==
    /\ pc = "idle"
    /\ to # "recorded" => traps[s] # Wanted[to]
    /\ mask' = Signals \cup {CHLD}
    /\ call' = [sig |-> s, to |-> to, disp |-> disp[s], recorded |-> recorded,
                flagged |-> s \in flags, active |-> active]
    /\ pc' = "set"
    /\ UNCHANGED <<disp, queued, notify, child, recorder, shell, owed>>

\* What happens to the flag of s: only a signal recorded before and after
\* keeps it.
KeptFlags(s, to) == IF to = "recorded" /\ s \in recorded THEN flags ELSE flags \ {s}

\* sigaction, which forgets a pending signal that becomes ignored, and the
\* bookkeeping.
SetChange ==
    /\ pc = "set"
    /\ LET s == call.sig  to == call.to
       IN  /\ disp' = [disp EXCEPT ![s] = to]
           /\ queued' = IF to = "ignored" THEN queued \ {s} ELSE queued
           /\ recorded' = IF to = "recorded" THEN recorded \cup {s} ELSE recorded \ {s}
           /\ flags' = KeptFlags(s, to)
           /\ active' = (recorded' # {} /\ (active \/ to = "recorded"))
           /\ owed' = IF to = "recorded" THEN owed ELSE owed \ {s}
    /\ pc' = "set_restore"
    /\ UNCHANGED <<mask, notify, child, any, shell, call>>

\* sigaction fails: nothing has changed.
SetFails ==
    /\ pc = "set"
    /\ mask' = {} /\ pc' = "dispatch" /\ call' = NoCall
    /\ UNCHANGED <<disp, queued, notify, child, recorder, shell, owed>>

SetRestore ==
    /\ pc = "set_restore"
    /\ mask' = {}
    /\ traps' = [traps EXCEPT ![call.sig] = Wanted[call.to]]
    /\ pc' = "dispatch" /\ call' = NoCall
    /\ UNCHANGED <<disp, queued, notify, child, recorder, running, owed>>

\* The mask is not restored at first: the registration goes back to what it
\* was, with the flag it had.
SetRestoreFails ==
    /\ pc = "set_restore"
    /\ LET s == call.sig
       IN  /\ disp' = [disp EXCEPT ![s] = call.disp]
           /\ queued' = IF call.disp = "ignored" THEN queued \ {s} ELSE queued
           /\ recorded' = call.recorded
           /\ flags' = IF call.flagged THEN flags \cup {s} ELSE flags \ {s}
           /\ active' = call.active
           /\ owed' = IF call.flagged THEN owed \cup {s}
                      ELSE IF call.disp # "recorded" THEN owed \ {s} ELSE owed
    /\ mask' = {} /\ pc' = "dispatch" /\ call' = NoCall
    /\ UNCHANGED <<notify, child, any, shell>>

-----------------------------------------------------------------------------
(* ash_trap_signal_prepare and bx_signal_pending_take.                       *)

\* After a command, and after a trap's action.
Dispatch ==
    /\ pc = "dispatch"
    /\ pc' = IF ~running /\ any /\ active THEN "take" ELSE "idle"
    /\ UNCHANGED <<kernel, recorder, shell, call, owed>>

TakeEnter ==
    /\ pc = "take"
    /\ mask' = recorded /\ pc' = "scan"
    /\ UNCHANGED <<disp, queued, notify, child, recorder, shell, call, owed>>

\* The signals cannot be blocked: the shell exits.
TakeFails ==
    /\ pc = "take"
    /\ pc' = "exited"
    /\ UNCHANGED <<kernel, recorder, shell, call, owed>>

\* Deviation: any is cleared although more signals are recorded.
ClearAny(s) == FALSE

\* Whether any stays set after s was taken.
StillAny(s) == flags \ {s} # {}

Scan ==
    /\ pc = "scan"
    /\ LET s == IF flags = {} THEN 0 ELSE Least(flags)
       IN  /\ flags' = flags \ {s}
           /\ any' = StillAny(s)
           /\ call' = [sig |-> s]
    /\ pc' = "take_restore"
    /\ UNCHANGED <<kernel, recorded, active, shell, owed>>

\* The trap's action starts, or nothing was recorded.
Taken ==
    /\ pc = "take_restore"
    /\ mask' = {}
    /\ owed' = owed \ {call.sig}
    /\ running' = (call.sig # 0)
    /\ pc' = "idle" /\ call' = NoCall
    /\ UNCHANGED <<disp, queued, notify, child, recorder, traps>>

\* The mask is not restored at first: the signal goes back and the shell exits.
TakenFails ==
    /\ pc = "take_restore"
    /\ mask' = {}
    /\ flags' = IF call.sig # 0 THEN flags \cup {call.sig} ELSE flags
    /\ any' = (any \/ call.sig # 0)
    /\ pc' = "exited" /\ call' = NoCall
    /\ UNCHANGED <<disp, queued, notify, child, recorded, active, shell, owed>>

ActionEnds ==
    /\ pc = "idle" /\ running
    /\ running' = FALSE /\ pc' = "dispatch"
    /\ UNCHANGED <<kernel, recorder, traps, call, owed>>

-----------------------------------------------------------------------------
(* The wait builtin: bx_signal_pending_wait_child, then waitpid.             *)

\* Deviation: SIGCHLD is not blocked.
WaitEnterOpen ==
    /\ pc = "idle" /\ child # "none"
    /\ ~running /\ recorded # {} /\ active
    /\ mask' = recorded /\ notify' = TRUE /\ pc' = "check"
    /\ UNCHANGED <<disp, queued, child, recorder, shell, call, owed>>

WaitEnter ==
    /\ pc = "idle" /\ child # "none"
    /\ ~running /\ recorded # {} /\ active
    /\ mask' = BlockedInWait /\ notify' = TRUE /\ pc' = "check"
    /\ UNCHANGED <<disp, queued, child, recorder, shell, call, owed>>

\* Inside a trap's action, and without traps, the shell waits in waitpid.
WaitPlain ==
    /\ pc = "idle" /\ child # "none"
    /\ running \/ recorded = {} \/ ~active
    /\ pc' = "waitpid"
    /\ UNCHANGED <<kernel, recorder, shell, call, owed>>

Check ==
    /\ pc = "check"
    /\ pc' = IF flags # {} THEN "interrupted" ELSE IF child = "ended" THEN "ready" ELSE "suspend"
    /\ UNCHANGED <<kernel, recorder, shell, call, owed>>

Suspend ==
    /\ pc = "suspend"
    /\ mask' = {} /\ pc' = "suspended"
    /\ UNCHANGED <<disp, queued, notify, child, recorder, shell, call, owed>>

\* The disposition of SIGCHLD and the mask come back; a recorded signal ends
\* the command, a child that ended is reaped.
WaitEnd ==
    /\ pc \in {"interrupted", "ready"}
    /\ notify' = FALSE /\ mask' = {}
    /\ pc' = IF pc = "ready" THEN "waitpid" ELSE "dispatch"
    /\ UNCHANGED <<disp, queued, child, recorder, shell, call, owed>>

Waitpid ==
    /\ pc = "waitpid" /\ child = "ended"
    /\ child' = "none" /\ pc' = "dispatch"
    /\ UNCHANGED <<disp, mask, queued, notify, recorder, shell, call, owed>>

-----------------------------------------------------------------------------

\* A subshell: from here on the model follows the forked process, whose caught
\* signals went back to their default before the recorder was detached.
Fork ==
    /\ pc = "idle"
    /\ disp' = [s \in Signals |-> IF disp[s] = "recorded" THEN "default" ELSE disp[s]]
    /\ queued' = {} /\ child' = "none"
    /\ recorded' = {} /\ flags' = {} /\ any' = FALSE /\ active' = FALSE
    /\ traps' = [s \in Signals |-> IF traps[s] = "caught" THEN "none" ELSE traps[s]]
    /\ running' = FALSE /\ owed' = {}
    /\ UNCHANGED <<mask, notify, pc, call>>

Command ==
    \/ \E s \in Signals, to \in Dispositions : SetEnter(s, to)
    \/ StartChild \/ WaitEnter \/ WaitPlain \/ ActionEnds \/ Fork

Shell ==
    \/ SetChange \/ SetFails \/ SetRestore \/ SetRestoreFails
    \/ Dispatch \/ TakeEnter \/ TakeFails \/ Scan \/ Taken \/ TakenFails
    \/ Check \/ Suspend \/ WaitEnd \/ Waitpid

Next ==
    \/ Command \/ Shell \/ ChildEnds
    \/ \E s \in Signals : Raise(s)
    \/ \E s \in Signals \cup {CHLD} : Deliver(s)

Spec == Init /\ [][Next]_vars

\* The shell goes on and the kernel delivers; a child need not end, and nobody
\* has to send a signal or a command.
Fairness == WF_vars(Shell) /\ \A s \in Signals \cup {CHLD} : WF_vars(Deliver(s))
LiveSpec == Spec /\ Fairness

-----------------------------------------------------------------------------
(* Properties. *)

\* A signal that arrived for a trap is pending, recorded or in the shell's
\* hand, and announced by any, until its action starts; and what the recorder
\* holds, or hands out, has a trap to run (the assertion of traps.c:306),
\* whatever resets, masks and failures of the mask came in between.
TrappedSignalsKept ==
    /\ Alive \/ pc = "exited" =>
         /\ owed \subseteq queued \cup flags \cup {call.sig}
         /\ flags # {} => active /\ (any \/ pc = "take_restore")
    /\ flags \subseteq recorded
    /\ pc = "take_restore" /\ call.sig # 0 => traps[call.sig] = "caught"
    /\ pc = "idle" => \A s \in Signals : (traps[s] = "caught") = (disp[s] = "recorded" /\ s \in recorded)

\* A wait that may be interrupted ends once the child has ended or a trapped
\* signal has arrived, at whatever point between the test and the sleep.
Waiting == pc \in {"check", "suspend", "suspended"}
WaitEnds == (Waiting /\ (child = "ended" \/ queued \cap recorded # {} \/ flags # {})) ~> ~Waiting

=============================================================================
