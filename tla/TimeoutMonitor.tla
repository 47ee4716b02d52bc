---------------------------- MODULE TimeoutMonitor ----------------------------
(***************************************************************************)
(* The loop of timeout, src/applets/system/timeout/timeout.c: it polls     *)
(* the command, passes on one recorded signal, and watches the duration    *)
(* and the delay before SIGKILL, in this order, and then sleeps a little.  *)
(*                                                                         *)
(* Time has no origin: left and killLeft are what remains of the two       *)
(* deadlines, age is how old the variable now is, and Tick lets one unit   *)
(* pass for all of them.  Signals may come between any two steps.          *)
(***************************************************************************)
EXTENDS Naturals

CONSTANTS
    Duration, KillAfter,   \* the two delays where they are given, in units
    MaxSignals             \* bound on the signals sent to timeout

ASSUME TimeoutAssumption ==
    /\ Duration \in Nat \ {0} /\ KillAfter \in Nat \ {0}
    /\ MaxSignals \in Nat

Signals == {"ALRM", "TERM", "INT"}

VARIABLES
    options,            \* foreground, signal, duration and kill_after (0: none)
    denied,             \* the command may not be signalled (EPERM)
    pc,
    pending, ignored,   \* bx_timeout_pending_signal; signals without effect
    timed_out, kill_sent, armed,   \* armed: kill_timer_armed
    left, killLeft, age,
    since,              \* ghost: time since the timer of SIGKILL was first armed
    child, other,       \* the command; a child from before the exec of timeout
    result,             \* whose end timeout reports
    arrivals

time == <<left, killLeft, age, since>>
flags == <<timed_out, kill_sent, armed>>
fixed == <<options, denied>>
timeoutVars == <<fixed, pc, pending, ignored, flags, time, child, other, result, arrivals>>

\* bx_timeout_install_signal_handlers leaves a signal ignored that was ignored,
\* but for SIGALRM and the signal of the timeout.
TimeoutInit ==
    /\ options \in [foreground : BOOLEAN, signal : {"TERM", "KILL"},
                    duration : {0, Duration}, kill_after : {0, KillAfter}]
    /\ denied \in BOOLEAN
    /\ pc = "reap"
    /\ pending = "none" /\ ignored \in SUBSET (Signals \ {"ALRM", options.signal})
    /\ timed_out = FALSE /\ kill_sent = FALSE /\ armed = FALSE
    /\ left = options.duration /\ killLeft = 0 /\ age = 0 /\ since = 0
    /\ child = "runs" /\ other \in {"none", "runs"}
    /\ result = "none" /\ arrivals = 0

Over == pc \in {"done", "dead"}
AtMost(n, bound) == IF n < bound THEN n ELSE bound
Less(n) == IF n = 0 THEN 0 ELSE n - 1

-----------------------------------------------------------------------------
(* The surroundings. *)

Tick ==
    /\ ~Over
    /\ left' = Less(left) /\ killLeft' = Less(killLeft)
    /\ age' = AtMost(age + 1, KillAfter)
    /\ since' = IF armed THEN AtMost(since + 1, KillAfter) ELSE 0
    /\ UNCHANGED <<fixed, pc, pending, ignored, flags, child, other, result, arrivals>>

\* A second signal is dropped while one is recorded.
Arrive(s) ==
    /\ ~Over /\ arrivals < MaxSignals
    /\ s \notin ignored
    /\ arrivals' = arrivals + 1
    /\ pending' = IF pending = "none" THEN s ELSE pending
    /\ UNCHANGED <<fixed, pc, ignored, flags, time, child, other, result>>

CommandEnds ==
    /\ child = "runs" /\ child' = "ended"
    /\ UNCHANGED <<fixed, pc, pending, ignored, flags, time, other, result, arrivals>>

OtherEnds ==
    /\ other = "runs" /\ other' = "ended"
    /\ UNCHANGED <<fixed, pc, pending, ignored, flags, time, child, result, arrivals>>

-----------------------------------------------------------------------------
(* Steps of the loop. *)

\* Its failure path kills the command before it waits for it.
GiveUp ==
    /\ pc' = "force"
    /\ child' = IF denied THEN child ELSE "ended"
    /\ UNCHANGED ignored

\* bx_timeout_send_signal.  Without --foreground the whole group gets the signal;
\* timeout ignores it from then on, but SIGKILL ends timeout too.
Send(s) ==
    IF denied THEN GiveUp
    ELSE /\ child' = IF s = "KILL" THEN "ended" ELSE child
         /\ pc' = IF s = "KILL" /\ ~options.foreground THEN "dead" ELSE "reap"
         /\ ignored' = IF options.foreground THEN ignored ELSE ignored \cup ({s} \ {"KILL"})

\* Deviation: the clock is not read again before the timer is set.
ArmFromNow ==
    /\ armed' = TRUE /\ killLeft' = KillAfter - age
    /\ since' = IF armed THEN since ELSE 0
    /\ UNCHANGED age

\* The timer of SIGKILL is set from the present.
Arm ==
    /\ armed' = TRUE /\ killLeft' = KillAfter /\ age' = 0
    /\ since' = IF armed THEN since ELSE 0

\* bx_child_reap without block: all ended children up to the command.
Reap ==
    /\ pc = "reap"
    /\ other' = IF other = "ended" /\ child = "runs" THEN "gone" ELSE other
    /\ IF child = "ended" \/ other = "ended"
       THEN /\ pc' = "done"
            /\ result' = IF child = "ended" THEN "command" ELSE "other"
       ELSE pc' = "signal" /\ UNCHANGED result
    /\ UNCHANGED <<fixed, pending, ignored, flags, time, child, arrivals>>

PassOn ==
    LET s == IF pending = "ALRM" THEN options.signal ELSE pending IN
    /\ pc = "signal" /\ pending # "none"
    /\ pending' = "none"
    /\ timed_out' = (timed_out \/ pending = "ALRM")
    /\ kill_sent' = (kill_sent \/ s = "KILL")
    /\ IF options.kill_after > 0 /\ ~armed /\ ~kill_sent'
       THEN Arm /\ UNCHANGED left
       ELSE UNCHANGED <<armed, time>>
    /\ Send(s)
    /\ UNCHANGED <<fixed, other, result, arrivals>>

NoSignal ==
    /\ pc = "signal" /\ pending = "none"
    /\ pc' = "clock"
    /\ UNCHANGED <<fixed, pending, ignored, flags, time, child, other, result, arrivals>>

TimedOut == ~timed_out /\ options.duration > 0 /\ left = 0

\* Deviation: only a signal passed on arms the timer.
DeadlineArmsNot == FALSE

DeadlineArms == options.kill_after > 0 /\ options.signal # "KILL" /\ ~kill_sent

Deadline ==
    /\ pc = "clock" /\ TimedOut
    /\ timed_out' = TRUE
    /\ kill_sent' = (kill_sent \/ options.signal = "KILL")
    /\ IF DeadlineArms
       THEN Arm /\ UNCHANGED left
       ELSE age' = 0 /\ UNCHANGED <<armed, left, killLeft, since>>
    /\ Send(options.signal)
    /\ UNCHANGED <<fixed, pending, other, result, arrivals>>

KillDue == armed /\ ~kill_sent /\ killLeft = 0

Kill ==
    /\ pc = "clock" /\ ~TimedOut /\ KillDue
    /\ kill_sent' = TRUE /\ age' = 0
    /\ Send("KILL")
    /\ UNCHANGED <<fixed, pending, timed_out, armed, left, killLeft, since, other, result, arrivals>>

\* A short sleep, which a signal may end.
Sleep ==
    /\ pc = "clock" /\ ~TimedOut /\ ~KillDue
    /\ pc' = "reap" /\ age' = 0
    /\ UNCHANGED <<fixed, pending, ignored, flags, left, killLeft, since, child, other, result, arrivals>>

\* The clock or the sleep fails.
ClockFails ==
    /\ pc = "clock"
    /\ GiveUp
    /\ UNCHANGED <<fixed, pending, flags, time, other, result, arrivals>>

\* bx_timeout_force_reap_child waits until the row of the command is empty.
ForceReap ==
    /\ pc = "force" /\ child = "ended"
    /\ pc' = "done" /\ result' = "error"
    /\ UNCHANGED <<fixed, pending, ignored, flags, time, child, other, arrivals>>

-----------------------------------------------------------------------------

Monitor == Reap \/ PassOn \/ NoSignal \/ Deadline \/ Kill \/ Sleep \/ ForceReap

TimeoutNext ==
    \/ Monitor \/ ClockFails
    \/ Tick \/ CommandEnds \/ OtherEnds
    \/ \E s \in Signals : Arrive(s)

TimeoutSpec == TimeoutInit /\ [][TimeoutNext]_timeoutVars

\* timeout runs on and time passes; the command need not end.
LiveSpec == TimeoutSpec /\ WF_timeoutVars(Monitor) /\ WF_timeoutVars(Tick)

-----------------------------------------------------------------------------
(* Properties. *)

\* SIGKILL as second resort comes no earlier than kill_after after the first
\* signal: the timer is set from the present and not from an old reading of
\* the clock, and setting it again never brings it forward.
GraceKept ==
    [][kill_sent' /\ ~kill_sent /\ options.signal # "KILL" => since = KillAfter]_timeoutVars

\* "Start COMMAND, and kill it if still running after DURATION": with a duration
\* and a delay before SIGKILL a command that ignores every other signal ends,
\* whichever signals timeout is sent and at whichever moment.  That may fail
\* next to another child: its end is taken for that of the command, and timeout
\* ends while the command runs.
Escalates ==
    options.duration > 0 /\ options.kill_after > 0 /\ ~denied /\ other = "none"
        => <>(child = "ended")

=============================================================================
