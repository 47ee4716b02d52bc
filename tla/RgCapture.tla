------------------------------ MODULE RgCapture ------------------------------
(***************************************************************************)
(* How rg runs a command on a file and reads its output: --pre and         *)
(* --search-zip in src/search/rg_transform.c, bx_rg_run_capture.           *)
(*                                                                         *)
(* Each worker of the search has a child table of one row on its stack,    *)
(* and reaps with waitpid(-1), which knows only one process: with more     *)
(* workers than one any of them may be handed the child of another.  The   *)
(* single-threaded search has one worker.                                  *)
(*                                                                         *)
(* The command's standard output is read to its end, then its standard     *)
(* error; both end with the command or before it.                          *)
(***************************************************************************)
EXTENDS Naturals, FiniteSets

CONSTANTS
    Workers, Paths, NoPath,
    PipeSize,   \* what a pipe holds, in writes of a command
    MaxErrors   \* bound on the writes of one command to standard error

ASSUME CaptureAssumption ==
    /\ IsFiniteSet(Workers) /\ NoPath \notin Paths
    /\ PipeSize \in Nat \ {0} /\ MaxErrors \in Nat

VARIABLES
    todo,       \* files no worker has taken
    pc, path,   \* of a worker; its file
    row,        \* the file whose command is in the row of the table: running = 1
    called, status,   \* bx_rg_capture_reap
    proc,       \* the command of a file: "none", "runs", "closed", "zombie", "gone"
    exit,       \* the status it ends with: "ok" or "failed"
    errors,     \* writes to standard error it has still to make
    pipe,       \* writes in the pipe
    answer      \* what the search is told of a file

capture == <<pc, path, row, called, status>>
command == <<proc, exit, errors, pipe>>
captureVars == <<todo, capture, command, answer>>

CaptureInit ==
    /\ todo = Paths
    /\ \E team \in SUBSET Workers \ {{}} :
         pc = [w \in Workers |-> IF w \in team THEN "idle" ELSE "off"]
    /\ path = [w \in Workers |-> NoPath] /\ row = [w \in Workers |-> NoPath]
    /\ called = [w \in Workers |-> FALSE] /\ status = [w \in Workers |-> "ok"]
    /\ proc = [f \in Paths |-> "none"]
    /\ exit \in [Paths -> {"ok", "failed"}]
    /\ errors \in [Paths -> 0 .. MaxErrors]
    /\ pipe = [f \in Paths |-> 0]
    /\ answer = [f \in Paths |-> "none"]

Goto(w, l) == pc' = [pc EXCEPT ![w] = l]
Zombies == {f \in Paths : proc[f] = "zombie"}
Children == {f \in Paths : proc[f] \in {"runs", "closed", "zombie"}}

-----------------------------------------------------------------------------
(* The command. *)

WriteError(f) ==
    /\ proc[f] = "runs" /\ errors[f] > 0
    /\ pipe[f] < PipeSize
    /\ errors' = [errors EXCEPT ![f] = @ - 1]
    /\ pipe' = [pipe EXCEPT ![f] = @ + 1]
    /\ UNCHANGED <<todo, capture, proc, exit, answer>>

\* A command may close its outputs some time before it ends.
Closes(f) ==
    /\ proc[f] = "runs" /\ errors[f] = 0
    /\ proc' = [proc EXCEPT ![f] = "closed"]
    /\ UNCHANGED <<todo, capture, exit, errors, pipe, answer>>

Ends(f) ==
    /\ proc[f] \in {"runs", "closed"} /\ errors[f] = 0
    /\ proc' = [proc EXCEPT ![f] = "zombie"]
    /\ UNCHANGED <<todo, capture, exit, errors, pipe, answer>>

-----------------------------------------------------------------------------
(* bx_rg_run_capture. *)

Spawn(w) ==
    /\ pc[w] = "idle"
    /\ \E f \in todo :
         /\ todo' = todo \ {f}
         /\ path' = [path EXCEPT ![w] = f] /\ row' = [row EXCEPT ![w] = f]
         /\ proc' = [proc EXCEPT ![f] = "runs"]
    /\ called' = [called EXCEPT ![w] = FALSE]
    /\ status' = [status EXCEPT ![w] = "ok"]
    /\ Goto(w, "stdout")
    /\ UNCHANGED <<exit, errors, pipe, answer>>

\* A pipe or fork fails: there is no child.
SpawnFails(w) ==
    /\ pc[w] = "idle"
    /\ \E f \in todo : todo' = todo \ {f} /\ answer' = [answer EXCEPT ![f] = "error"]
    /\ UNCHANGED <<capture, command>>

\* Standard output has ended.
StdoutEnds(w) ==
    /\ pc[w] = "stdout" /\ proc[path[w]] # "runs"
    /\ Goto(w, "stderr")
    /\ UNCHANGED <<todo, path, row, called, status, command, answer>>

\* Reading may fail at any time.  The pipes are closed: the command does not
\* stop at a full one any more.
ReadFails(w) ==
    /\ pc[w] \in {"stdout", "stderr"}
    /\ errors' = [errors EXCEPT ![path[w]] = 0]
    /\ Goto(w, "fail")
    /\ UNCHANGED <<todo, path, row, called, status, proc, exit, pipe, answer>>

\* What is left in the pipe of standard error is read.
ReadStderr(w) ==
    /\ pc[w] = "stderr"
    /\ pipe' = [pipe EXCEPT ![path[w]] = 0]
    /\ Goto(w, "reap")
    /\ UNCHANGED <<todo, path, row, called, status, proc, exit, errors, answer>>

\* bx_child_reap with block and drain_all: one child is waited for, then those
\* that have ended, until the row is empty.  The callback keeps the last.
ReapTakes(w) ==
    /\ pc[w] \in {"reap", "drain"}
    /\ \E f \in Zombies :
         /\ proc' = [proc EXCEPT ![f] = "gone"]
         /\ row' = [row EXCEPT ![w] = IF @ = f THEN NoPath ELSE @]
         /\ called' = [called EXCEPT ![w] = TRUE]
         /\ status' = [status EXCEPT ![w] = exit[f]]
         /\ Goto(w, IF row[w] = f THEN "result" ELSE "drain")
    /\ UNCHANGED <<todo, path, exit, errors, pipe, answer>>

\* Deviation: that there is no child is not noticed.
ReapIgnoresNone(w) ==
    /\ pc[w] = "drain" /\ Zombies = {}
    /\ Goto(w, "result")
    /\ UNCHANGED <<todo, path, row, called, status, command, answer>>

\* No child at all, or none that has ended after the first.
ReapNothing(w) ==
    /\ \/ pc[w] = "reap" /\ Children = {}
       \/ pc[w] = "drain" /\ Zombies = {}
    /\ Goto(w, "result")
    /\ UNCHANGED <<todo, path, row, called, status, command, answer>>

\* If nothing was reaped the capture fails.
Finish(w) ==
    /\ pc[w] = "result"
    /\ IF called[w]
       THEN /\ answer' = [answer EXCEPT ![path[w]] = status[w]]
            /\ path' = [path EXCEPT ![w] = NoPath] /\ row' = [row EXCEPT ![w] = NoPath]
            /\ Goto(w, "idle")
       ELSE Goto(w, "fail") /\ UNCHANGED <<path, row, answer>>
    /\ UNCHANGED <<todo, called, status, command>>

\* Deviation: the failure path leaves the child.
FailMayEnd(w) == pc[w] \in {"fail", "faildrain"}

\* The row is empty, there is no child, or one was taken and no other has ended.
FailEnds(w) ==
    \/ pc[w] \in {"fail", "faildrain"} /\ row[w] = NoPath
    \/ pc[w] = "fail" /\ Children = {}
    \/ pc[w] = "faildrain" /\ Zombies = {}

\* The failure path reaps in the same way, without looking at the status.
FailTakes(w) ==
    /\ pc[w] \in {"fail", "faildrain"} /\ row[w] # NoPath
    /\ \E f \in Zombies :
         /\ proc' = [proc EXCEPT ![f] = "gone"]
         /\ row' = [row EXCEPT ![w] = IF @ = f THEN NoPath ELSE @]
    /\ Goto(w, "faildrain")
    /\ UNCHANGED <<todo, path, called, status, exit, errors, pipe, answer>>

Fail(w) ==
    /\ FailEnds(w)
    /\ answer' = [answer EXCEPT ![path[w]] = "error"]
    /\ path' = [path EXCEPT ![w] = NoPath] /\ row' = [row EXCEPT ![w] = NoPath]
    /\ Goto(w, "idle")
    /\ UNCHANGED <<todo, called, status, command>>

-----------------------------------------------------------------------------

Work(w) ==
    \/ Spawn(w) \/ StdoutEnds(w) \/ ReadStderr(w)
    \/ ReapTakes(w) \/ ReapNothing(w) \/ Finish(w) \/ FailTakes(w) \/ Fail(w)

Command(f) == WriteError(f) \/ Closes(f) \/ Ends(f)

CaptureNext ==
    \/ \E w \in Workers : Work(w) \/ SpawnFails(w) \/ ReadFails(w)
    \/ \E f \in Paths : Command(f)

CaptureSpec == CaptureInit /\ [][CaptureNext]_captureVars

\* The workers go on, and a command ends unless it waits for its reader.  No
\* failure has to happen.
LiveSpec ==
    CaptureSpec /\ (\A w \in Workers : WF_captureVars(Work(w))) /\ (\A f \in Paths : WF_captureVars(Command(f)))

-----------------------------------------------------------------------------
(* Properties. *)

\* A file is searched or reported as its own command ended: "preprocessor
\* command failed" (rg_transform.c:488) names the file and its command.
OwnStatus == \A f \in Paths : answer[f] \in {"none", "error", exit[f]}

\* So it is with a single worker, whatever was left behind by the captures
\* before it and although the output of a command may end before the command.
OwnStatusAlone ==
    Cardinality({w \in Workers : pc[w] # "off"}) = 1 => OwnStatus

\* A command waits for room in the pipe of its standard error, which is read
\* only after its standard output has ended.
Stuck(f) == proc[f] = "runs" /\ errors[f] > 0 /\ pipe[f] = PipeSize

\* Every capture ends, also if another worker took the child or the read
\* failed, unless a command has more messages than a pipe holds.
CaptureEnds == \A f \in Paths : <>(answer[f] # "none" \/ \E g \in Paths : Stuck(g))

=============================================================================
