--------------------------- MODULE InitSupervisor ----------------------------
(***************************************************************************)
(* The supervisor of src/applets/system/init/init_runtime.c: one process   *)
(* that starts the commands of an inittab, restarts those to be kept, and  *)
(* takes its orders as signals.  All signals but SIGTSTP and SIGCONT are   *)
(* blocked and taken one by one; SIGTSTP is a handler, which may run       *)
(* between any two steps and reaps children itself until SIGCONT.          *)
(*                                                                         *)
(* An entry of the inittab is one command on one terminal.  The entries    *)
(* are looked at in any order.  A reap, from waitpid to the callback, is   *)
(* one step, and so are fork and the row it adds to the child table.  An   *)
(* askfirst entry is kept like a respawn one; SIGQUIT, which replaces init *)
(* by another program, is left out.                                        *)
(***************************************************************************)
EXTENDS Integers, Sequences, FiniteSets

CONSTANTS
    Entries, Nobody, Pids,
    Inittabs,      \* what /etc/inittab may hold: functions from Entries to Types
    Orders,        \* the signals that may be sent: a subset of {"hup", "int", "halt"}
    MaxFaults,     \* bound on the forks that fail and the SIGTSTP that are sent
    KillRemoved    \* the build option init_kill_removed

Types == {"absent", "sysinit", "wait", "once", "respawn", "ctrlaltdel", "shutdown"}

ASSUME InitAssumption ==
    /\ Nobody \notin Entries
    /\ Pids \subseteq Nat \ {0}
    /\ Inittabs # {} /\ Inittabs \subseteq [Entries -> Types]
    /\ Orders \subseteq {"hup", "int", "halt"}
    /\ MaxFaults \in Nat /\ KillRemoved \in BOOLEAN

VARIABLES
    proc,      \* the processes: "free", "alive", "zombie"
    owner,     \* the entry each one runs
    sent,      \* signals pending for init
    stopped,   \* the SIGTSTP handler runs
    table,     \* the entries in runtime->actions
    type, pid, \* action_type, 0 of a removed one as "absent"; action->pid
    rows,      \* runtime->children up to running
    waited, waitedDone,
    pc,        \* where the main line is
    phase,     \* how far boot is: "sysinit", "wait", "once", or "respawn", the main loop
    kind,      \* what run_actions was called for: the phase, or an order
    todo,      \* the entries run_actions has still to start
    cur, old, ret,   \* the entry being started, old_running, the pid of spawn
    misread,   \* spawn has returned the pid of another process (ghost)
    shot,      \* pids that reload has sent SIGTERM, -1 for every process
    faults     \* forks that failed and SIGTSTP sent

kernel == <<proc, owner>>
wait == <<waited, waitedDone>>
call == <<cur, old, ret, misread>>
vars == <<kernel, sent, stopped, table, type, pid, rows, wait, pc, phase, kind, todo, call, shot, faults>>

NoPid == 0
Failed == -1

Waits == {"sysinit", "wait", "ctrlaltdel", "shutdown"}

\* The entries a run_actions for the type t starts.
Started(t) == {e \in table : type[e] = t}

Init ==
    /\ \E tab \in Inittabs :
         /\ type = tab
         /\ table = {e \in Entries : tab[e] # "absent"}
    /\ proc = [p \in Pids |-> "free"] /\ owner = [p \in Pids |-> Nobody]
    /\ sent = {} /\ stopped = FALSE
    /\ pid = [e \in Entries |-> NoPid] /\ rows = <<>>
    /\ waited = NoPid /\ waitedDone = FALSE
    /\ pc = "run" /\ phase = "sysinit" /\ kind = "sysinit" /\ todo = Started("sysinit")
    /\ cur = Nobody /\ old = 0 /\ ret = NoPid /\ misread = FALSE /\ shot = {} /\ faults = 0

Up == pc # "down"
Main == Up /\ ~stopped

-----------------------------------------------------------------------------
(* Processes and signals. *)

\* SIGCHLD is blocked: it stays pending.
Exit(p) ==
    /\ Up /\ proc[p] = "alive"
    /\ proc' = [proc EXCEPT ![p] = "zombie"]
    /\ sent' = sent \cup {"chld"}
    /\ UNCHANGED <<owner, stopped, table, type, pid, rows, wait, pc, phase, kind, todo, call, shot, faults>>

Send(s) ==
    /\ Up /\ s \in Orders
    /\ sent' = sent \cup {s}
    /\ UNCHANGED <<kernel, stopped, table, type, pid, rows, wait, pc, phase, kind, todo, call, shot, faults>>

\* bx_child_find and the removal of the row: the last row takes its place.
DropRow(p) ==
    rows' = IF \E i \in 1 .. Len(rows) : rows[i] = p
            THEN LET i == CHOOSE i \in 1 .. Len(rows) : rows[i] = p
                 IN  SubSeq([rows EXCEPT ![i] = rows[Len(rows)]], 1, Len(rows) - 1)
            ELSE rows

\* bx_init_mark_terminated: the first action with that pid.
MarkTerminated(p) ==
    \/ /\ \A e \in table : pid[e] # p
       /\ UNCHANGED pid
    \/ \E e \in table : pid[e] = p /\ pid' = [pid EXCEPT ![e] = NoPid]

\* waitpid returns p, and the callback runs.
Reap(p) ==
    /\ proc[p] = "zombie"
    /\ proc' = [proc EXCEPT ![p] = "free"]
    /\ owner' = [owner EXCEPT ![p] = Nobody]
    /\ DropRow(p)
    /\ MarkTerminated(p)
    /\ waitedDone' = (waitedDone \/ waited = p)

Zombies == {p \in Pids : proc[p] = "zombie"}
Children == {p \in Pids : proc[p] # "free"}

-----------------------------------------------------------------------------
(* bx_init_stop_handler. *)

\* A shutdown has put the default back.
Stop ==
    /\ Main /\ kind # "shutdown" /\ faults < MaxFaults
    /\ stopped' = TRUE
    /\ faults' = faults + 1
    /\ UNCHANGED <<kernel, sent, table, type, pid, rows, wait, pc, phase, kind, todo, call, shot>>

StopReaps ==
    /\ stopped
    /\ \E p \in Pids : Reap(p)
    /\ UNCHANGED <<sent, stopped, table, type, waited, pc, phase, kind, todo, call, shot, faults>>

\* The signal wait does not restart after a handler; waitpid does.
Continue ==
    /\ stopped
    /\ stopped' = FALSE
    /\ pc' = IF pc = "sigwait" THEN "after" ELSE pc
    /\ UNCHANGED <<kernel, sent, table, type, pid, rows, wait, phase, kind, todo, call, shot, faults>>

-----------------------------------------------------------------------------
(* bx_init_run_actions and bx_init_spawn. *)

\* A pid nobody remembers.
Fresh(p) == proc[p] = "free" /\ \A e \in Entries : pid[e] # p

\* An entry to keep is started when it has no pid.
Wanted(e) == type[e] = "respawn" => pid[e] = NoPid

Skip ==
    /\ Main /\ pc = "run"
    /\ \E e \in todo : ~Wanted(e) /\ todo' = todo \ {e}
    /\ UNCHANGED <<kernel, sent, stopped, table, type, pid, rows, wait, pc, phase, kind, call, shot, faults>>

Fork ==
    /\ Main /\ pc = "run"
    /\ \E e \in todo, p \in Pids :
         /\ Wanted(e) /\ Fresh(p)
         /\ \A q \in Pids : Fresh(q) => p <= q
         /\ proc' = [proc EXCEPT ![p] = "alive"]
         /\ owner' = [owner EXCEPT ![p] = e]
         /\ rows' = Append(rows, p)
         /\ cur' = e /\ old' = Len(rows)
         /\ todo' = todo \ {e}
    /\ pc' = "forked"
    /\ UNCHANGED <<sent, stopped, table, type, pid, wait, phase, kind, ret, misread, shot, faults>>

\* fork, a pipe or the command line fails: "can't fork", and -1.
ForkFails ==
    /\ Main /\ pc = "run" /\ faults < MaxFaults
    /\ \E e \in todo : Wanted(e) /\ cur' = e /\ todo' = todo \ {e}
    /\ ret' = Failed /\ pc' = "spawned"
    /\ faults' = faults + 1
    /\ UNCHANGED <<kernel, sent, stopped, table, type, pid, rows, wait, phase, kind, old, misread, shot>>

\* The pid is read from the last row, whatever that row is by now.  Without a
\* row it is read from before the table.
Spawned ==
    /\ Main /\ pc = "forked"
    /\ \/ Len(rows) = old /\ ret' = Failed
       \/ Len(rows) # old /\ rows # <<>> /\ ret' = rows[Len(rows)]
       \/ Len(rows) # old /\ rows = <<>> /\ ret' \in Pids \cup {NoPid, Failed}
    /\ misread' = (misread \/ (ret' \in Pids /\ owner[ret'] # cur))
    /\ pc' = "spawned"
    /\ UNCHANGED <<kernel, sent, stopped, table, type, pid, rows, wait, phase, kind, todo, cur, old, shot, faults>>

Keep ==
    /\ Main /\ pc = "spawned" /\ type[cur] \in {"respawn", "once"}
    /\ pid' = IF type[cur] = "respawn" THEN [pid EXCEPT ![cur] = ret] ELSE pid
    /\ pc' = "run"
    /\ UNCHANGED <<kernel, sent, stopped, table, type, rows, wait, phase, kind, todo, call, shot, faults>>

\* bx_init_wait_for.
StartWait ==
    /\ Main /\ pc = "spawned" /\ type[cur] \in Waits
    /\ IF ret > 0 THEN waited' = ret /\ waitedDone' = FALSE /\ pc' = "waittest"
       ELSE UNCHANGED wait /\ pc' = "run"
    /\ UNCHANGED <<kernel, sent, stopped, table, type, pid, rows, phase, kind, todo, call, shot, faults>>

WaitTest ==
    /\ Main /\ pc = "waittest"
    /\ IF waitedDone THEN pc' = "run" /\ waited' = NoPid ELSE pc' = "waitpid" /\ UNCHANGED waited
    /\ UNCHANGED <<kernel, sent, stopped, table, type, pid, rows, waitedDone, phase, kind, todo, call, shot, faults>>

\* Deviation: only the end of the process waited for is noted.
WaitReapsOnly ==
    /\ Main /\ pc = "waitpid"
    /\ \E p \in Zombies :
         /\ proc' = [proc EXCEPT ![p] = "free"] /\ owner' = [owner EXCEPT ![p] = Nobody]
         /\ DropRow(p) /\ waitedDone' = (waited = p)
    /\ pc' = "killtest"
    /\ UNCHANGED <<sent, stopped, table, type, pid, waited, phase, kind, todo, call, shot, faults>>

\* It waits for any child, then for kill to say whether the one it waits for is
\* still there.
WaitReaps ==
    /\ Main /\ pc = "waitpid"
    /\ \E p \in Pids : Reap(p)
    /\ pc' = "killtest"
    /\ UNCHANGED <<sent, stopped, table, type, waited, phase, kind, todo, call, shot, faults>>

WaitNothing ==
    /\ Main /\ pc = "waitpid" /\ Children = {}
    /\ pc' = "killtest"
    /\ UNCHANGED <<kernel, sent, stopped, table, type, pid, rows, wait, phase, kind, todo, call, shot, faults>>

KillTest ==
    /\ Main /\ pc = "killtest"
    /\ waitedDone' = (waitedDone \/ proc[waited] = "free")
    /\ pc' = "waittest"
    /\ UNCHANGED <<kernel, sent, stopped, table, type, pid, rows, waited, phase, kind, todo, call, shot, faults>>

-----------------------------------------------------------------------------
(* bx_init_run and bx_init_check_delayed_signals. *)

Run(t) == kind' = t /\ todo' = Started(t) /\ pc' = "run"

\* After a boot phase, and in each round of the main loop, one signal is taken.
RunEnds ==
    /\ Main /\ pc = "run" /\ todo = {}
    /\ \/ kind = "once" /\ phase' = "respawn" /\ Run("respawn")
       \/ kind \in {"sysinit", "wait", "respawn"} /\ pc' = "sigwait" /\ UNCHANGED <<phase, kind, todo>>
       \/ kind = "ctrlaltdel" /\ pc' = "after" /\ UNCHANGED <<phase, kind, todo>>
       \/ kind = "shutdown" /\ pc' = "down" /\ UNCHANGED <<phase, kind, todo>>
    /\ UNCHANGED <<kernel, sent, stopped, table, type, pid, rows, wait, call, shot, faults>>

NoSignal ==
    /\ Main /\ pc = "sigwait" /\ phase # "respawn" /\ sent = {}
    /\ pc' = "after"
    /\ UNCHANGED <<kernel, sent, stopped, table, type, pid, rows, wait, phase, kind, todo, call, shot, faults>>

TakeSignal ==
    /\ Main /\ pc = "sigwait"
    /\ \E s \in sent \ {"hup"} :
         /\ sent' = sent \ {s}
         /\ \/ s = "chld" /\ pc' = "after" /\ UNCHANGED <<kind, todo>>
            \/ s = "int" /\ Run("ctrlaltdel")
            \/ s = "halt" /\ Run("shutdown")
    /\ UNCHANGED <<kernel, stopped, table, type, pid, rows, wait, phase, call, shot, faults>>

\* Deviation: an entry is freed although its process runs.
FreedRunning(tab, tp) == {e \in tab : tp[e] \in {"absent", "sysinit"}}

\* Removed entries stay as long as their process.
Freed(tab, tp) == {e \in tab : tp[e] \in {"absent", "sysinit"} /\ pid[e] = NoPid}

\* bx_init_reload.
Reload ==
    /\ Main /\ pc = "sigwait" /\ "hup" \in sent
    /\ sent' = sent \ {"hup"}
    /\ \E new \in Inittabs :
         LET all == table \cup {e \in Entries : new[e] # "absent"}
             gone == Freed(all, new)
         IN  /\ type' = [e \in Entries |-> IF e \in gone THEN "absent" ELSE new[e]]
             /\ table' = all \ gone
             /\ shot' = IF KillRemoved THEN {pid[e] : e \in {e \in all : new[e] = "absent"}} \ {NoPid} ELSE {}
             /\ pid' = [e \in Entries |-> IF e \in gone THEN NoPid ELSE pid[e]]
    /\ pc' = "after"
    /\ UNCHANGED <<kernel, stopped, rows, wait, phase, kind, todo, call, faults>>

\* Boot goes on, or the main loop.
After ==
    /\ Main /\ pc = "after"
    /\ \/ phase = "sysinit" /\ phase' = "wait" /\ Run("wait")
       \/ phase = "wait" /\ phase' = "once" /\ Run("once")
       \/ phase = "respawn" /\ pc' = "reap" /\ UNCHANGED <<phase, kind, todo>>
    /\ shot' = {}
    /\ UNCHANGED <<kernel, sent, stopped, table, type, pid, rows, wait, call, faults>>

\* bx_child_reap_all_waitable, then the next round.
ReapOne ==
    /\ Main /\ pc = "reap"
    /\ \E p \in Pids : Reap(p)
    /\ UNCHANGED <<sent, stopped, table, type, waited, pc, phase, kind, todo, call, shot, faults>>

ReapDone ==
    /\ Main /\ pc = "reap" /\ Zombies = {}
    /\ Run("respawn")
    /\ UNCHANGED <<kernel, sent, stopped, table, type, pid, rows, wait, phase, call, shot, faults>>

-----------------------------------------------------------------------------

MainStep ==
    \/ Skip \/ Fork \/ ForkFails \/ Spawned \/ Keep
    \/ StartWait \/ WaitTest \/ WaitReaps \/ WaitNothing \/ KillTest
    \/ RunEnds \/ NoSignal \/ TakeSignal \/ Reload \/ After \/ ReapOne \/ ReapDone

Next ==
    \/ MainStep
    \/ Stop \/ StopReaps \/ Continue
    \/ \E p \in Pids : Exit(p)
    \/ \E s \in Orders : Send(s)

Spec == Init /\ [][Next]_vars

\* The main line goes on; the commands it waits for end.  Others need not, and
\* no order or stop signal has to come, nor SIGCONT.
Fairness ==
    /\ WF_vars(MainStep)
    /\ \A p \in Pids : WF_vars(Exit(p) /\ owner[p] \in table /\ type[owner[p]] \in Waits)
LiveSpec == Spec /\ Fairness

-----------------------------------------------------------------------------
(* Properties. *)

Live(e) == \E p \in Pids : proc[p] = "alive" /\ owner[p] = e

\* init --help: "It (re)spawns children according to /etc/inittab."  A command
\* to be kept that does not run is started, whoever reaped the last one and
\* whatever order came, unless init halts or the entry goes.  It is not so
\* once a fork has failed, the -1 being kept as a pid, or once the SIGTSTP
\* handler may have reaped a command before its pid was kept.
RespawnKept ==
    \A e \in Entries :
        (faults = 0 /\ type[e] = "respawn" /\ ~Live(e))
            ~> (Live(e) \/ type[e] # "respawn" \/ faults > 0 \/ ~Up)

\* A command that every inittab keeps or leaves out never runs twice, also if
\* it is removed and comes back while it runs, or a fork fails.  It is not so
\* once the SIGTSTP handler has reaped two of three or more other children
\* before the pid of a new one was read: the pid kept is then that of another
\* process, whose end starts the command again.
KeptOnly == {e \in Entries : \A tab \in Inittabs : tab[e] \in {"absent", "respawn"}}
OneProcess ==
    ~misread => \A e \in KeptOnly : \A p, q \in Pids : owner[p] = e /\ owner[q] = e => p = q

\* A reload stops the processes of removed entries and no others.  After a
\* failed fork it may send SIGTERM to -1, every process there is.
ReloadStopsRemoved ==
    faults = 0 => \A p \in shot : p \in Pids /\ owner[p] \in table /\ type[owner[p]] = "absent"

=============================================================================
