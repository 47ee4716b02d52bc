------------------------------- MODULE MCInit --------------------------------
(* InitSupervisor with three entries and the inittabs a reload may find.     *)
EXTENDS InitSupervisor

CONSTANTS shell, getty, script

MCEntries == {shell, getty, script}

\* A shell to be kept, with or without a second one, and a script.
Both(t) == [e \in MCEntries |-> IF e = script THEN t ELSE "respawn"]
One(t) == [e \in MCEntries |-> IF e = script THEN t ELSE IF e = shell THEN "respawn" ELSE "absent"]
\* The second shell comes and goes, and the script changes its kind.
MCInittabs == {Both("wait"), One("ctrlaltdel"), One("shutdown")}
=============================================================================
