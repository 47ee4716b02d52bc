---------------------------- MODULE FdTransaction ----------------------------
(***************************************************************************)
(* Descriptor transactions of src/lib/fd_transaction.c, as the shell's     *)
(* redirections use them (src/applets/shell/ash/redirection.c).            *)
(*                                                                         *)
(* The descriptors the script changes are saved in private descriptors of  *)
(* the same process, so the two kinds share one table: a script may name   *)
(* any number, also one that holds a backup, which then has to move.  The  *)
(* stack keeps the backups of all active transactions; they finish in      *)
(* last-in, first-out order.                                               *)
(*                                                                         *)
(* It implements DescriptorFrames: what the script sees is the table       *)
(* without the backups.                                                    *)
(***************************************************************************)
EXTENDS Integers, Sequences, FiniteSets

CONSTANTS MaxFd,         \* RLIMIT_NOFILE - 1
          FirstPrivate,  \* backups start here: 10
          Files, NoFile,
          MaxFrames,     \* bound on the nesting
          MaxRefs        \* bound on the descriptors one command names

ASSUME FdAssumption ==
    /\ MaxFd \in Nat /\ FirstPrivate \in Nat
    /\ NoFile \notin Files
    /\ MaxFrames \in Nat /\ MaxRefs \in Nat

VARIABLES
    fds,       \* the process's descriptors
    entries,   \* stack->entries, the oldest first
    frames     \* the active transactions, the outermost first

fdVars == <<fds, entries, frames>>

Fds == 0 .. MaxFd
Desc == [file : Files \cup {NoFile}, cloexec : BOOLEAN]
Closed == [file |-> NoFile, cloexec |-> FALSE]
Descs == {d \in Desc : d.file = NoFile => d = Closed}

None == -1
Entries == [target : Fds, saved : Fds \cup {None}, flags : BOOLEAN]
Frames == [refs : SUBSET Fds, start : Nat, next : Nat]

Open(tab, fd) == tab[fd] # Closed
FreeFrom(tab, least) == {fd \in Fds : fd >= least /\ ~Open(tab, fd)}
Lowest(S) == CHOOSE x \in S : \A y \in S : x <= y
Highest(S) == CHOOSE x \in S : \A y \in S : x >= y

Top == frames[Len(frames)]
TopEntries == Top.start + 1 .. Len(entries)
IsSaved(fd) == \E i \in TopEntries : entries[i].target = fd

\* The descriptors some transaction of fs has declared.
Declared(fs) == UNION {fs[k].refs : k \in 1 .. Len(fs)}

FdInit ==
    /\ fds \in [Fds -> Descs]
    /\ \A fd \in Fds : fd > 1 => fds[fd] = Closed
    /\ entries = <<>> /\ frames = <<>>

-----------------------------------------------------------------------------
(* bx_fd_transaction_dup_private: the kernel offers the lowest free number   *)
(* from the transaction's minimum; numbers a transaction declared are given  *)
(* back, and the minimum moves behind every number that was offered.         *)

\* Deviation: only the numbers the new transaction declared are avoided.
AllowedInFrame(tab, least, fs) == FreeFrom(tab, least) \ fs[Len(fs)].refs
Allowed(tab, least, fs) == FreeFrom(tab, least) \ Declared(fs)

NextBackup(tab, least, fs) ==
    IF Allowed(tab, least, fs) # {} THEN Lowest(Allowed(tab, least, fs)) + 1
    ELSE IF FreeFrom(tab, least) # {} THEN Highest(FreeFrom(tab, least)) + 1 ELSE least

Dup(tab, from, to) == [tab EXCEPT ![to] = [file |-> tab[from].file, cloexec |-> TRUE]]

-----------------------------------------------------------------------------
(* Begin and add_reference: backups that stand in the way move.              *)

\* fd holds the backup of entry i; move it for the transactions fs.
MoveBackup(s, i) ==
    LET fd == s.entries[i].saved
        to == Lowest(Allowed(s.fds, s.next, s.fs))
    IN  [s EXCEPT !.fds = [Dup(s.fds, fd, to) EXCEPT ![fd] = Closed],
                  !.entries = [s.entries EXCEPT ![i].saved = to],
                  !.next = NextBackup(s.fds, s.next, s.fs)]

\* One round of the loop, for entry i; nothing more moves once one cannot.
MoveStep(s, i) ==
    IF ~s.ok \/ s.entries[i].saved \notin s.fs[Len(s.fs)].refs THEN s
    ELSE IF Allowed(s.fds, s.next, s.fs) = {} THEN [s EXCEPT !.ok = FALSE]
    ELSE MoveBackup(s, i)

\* The stack after the loop has been through all entries.
MoveAll(s) ==
    LET after[i \in 0 .. Len(entries)] == IF i = 0 THEN s ELSE MoveStep(after[i - 1], i)
    IN  after[Len(entries)]

\* The stack while the transactions fs are tried, and whether every move succeeded.
Moved(fs) ==
    MoveAll([fds |-> fds, entries |-> entries, next |-> fs[Len(fs)].next, fs |-> fs, ok |-> TRUE])

\* A command that names the descriptors R.  If a backup cannot be moved, what
\* was moved before stays moved and the transaction does not start.
Begin(R) ==
    /\ Len(frames) < MaxFrames
    /\ LET fs == Append(frames, [refs |-> R, start |-> Len(entries), next |-> FirstPrivate])
           s == Moved(fs)
       IN  /\ fds' = s.fds
           /\ entries' = s.entries
           /\ frames' = IF s.ok THEN [fs EXCEPT ![Len(fs)].next = s.next] ELSE frames

\* A descriptor that only the expansion of a word names.
AddReference(fd) ==
    /\ frames # <<>>
    /\ fd \notin Top.refs /\ Cardinality(Top.refs) < MaxRefs
    /\ LET fs == [frames EXCEPT ![Len(frames)].refs = @ \cup {fd}]
           s == Moved(fs)
       IN  IF s.ok
           THEN /\ fds' = s.fds /\ entries' = s.entries
                /\ frames' = [fs EXCEPT ![Len(fs)].next = s.next]
           ELSE UNCHANGED fdVars

-----------------------------------------------------------------------------
(* Save, and the changes the shell then makes.                               *)

\* Save fd once per transaction: a closed descriptor needs no backup.  Without
\* a free number for the backup nothing is recorded but the minimum.
Save(fd) ==
    /\ frames # <<>>
    /\ fd \in Top.refs /\ ~IsSaved(fd)
    /\ LET least == Top.next
           free == Allowed(fds, least, frames)
           Entry(saved) == [target |-> fd, saved |-> saved, flags |-> fds[fd].cloexec]
       IN  IF ~Open(fds, fd)
           THEN entries' = Append(entries, Entry(None)) /\ UNCHANGED <<fds, frames>>
           ELSE /\ frames' = [frames EXCEPT ![Len(frames)].next = NextBackup(fds, least, frames)]
                /\ IF free = {} THEN UNCHANGED <<fds, entries>>
                   ELSE /\ fds' = Dup(fds, fd, Lowest(free))
                        /\ entries' = Append(entries, Entry(Lowest(free)))

\* ">&source": the source is declared; ">&-"; or a file, opened on the lowest
\* free number and moved to fd.  The result is inherited by commands.
Redirect(fd) ==
    /\ frames # <<>> /\ IsSaved(fd)
    /\ \/ \E source \in Top.refs \ {fd} :
            Open(fds, source) /\ fds' = [fds EXCEPT ![fd] = [file |-> fds[source].file, cloexec |-> FALSE]]
       \/ fds' = [fds EXCEPT ![fd] = Closed]
       \/ /\ FreeFrom(fds, 0) # {}
          /\ \E f \in Files : fds' = [fds EXCEPT ![fd] = [file |-> f, cloexec |-> FALSE]]
    /\ UNCHANGED <<entries, frames>>

-----------------------------------------------------------------------------
(* Rollback, commit and discard.                                             *)

SavedFds(from) == {entries[i].saved : i \in from .. Len(entries)} \ {None}

Finish ==
    /\ entries' = SubSeq(entries, 1, Top.start)
    /\ frames' = SubSeq(frames, 1, Len(frames) - 1)

\* Deviation: the flags are not restored.
RestoredPlain(i) ==
    LET e == entries[i]
    IN  IF e.saved = None THEN Closed ELSE [file |-> fds[e.saved].file, cloexec |-> FALSE]

\* The backup's description comes back with the target's own flag.
Restored(i) ==
    LET e == entries[i]
    IN  IF e.saved = None THEN Closed ELSE [file |-> fds[e.saved].file, cloexec |-> e.flags]

\* One dup2 and one close per entry, the newest first.
Rollback ==
    /\ frames # <<>>
    /\ fds' = [fd \in Fds |->
                 IF IsSaved(fd) THEN Restored(CHOOSE i \in TopEntries : entries[i].target = fd)
                 ELSE IF fd \in SavedFds(Top.start + 1) THEN Closed ELSE fds[fd]]
    /\ Finish

Commit ==
    /\ frames # <<>>
    /\ fds' = [fd \in Fds |-> IF fd \in SavedFds(Top.start + 1) THEN Closed ELSE fds[fd]]
    /\ Finish

\* In a forked child: all backups are closed, nothing is restored.
Discard ==
    /\ fds' = [fd \in Fds |-> IF fd \in SavedFds(1) THEN Closed ELSE fds[fd]]
    /\ entries' = <<>> /\ frames' = <<>>

-----------------------------------------------------------------------------

FdNext ==
    \/ \E R \in SUBSET Fds : Cardinality(R) <= MaxRefs /\ Begin(R)
    \/ \E fd \in Fds : AddReference(fd) \/ Save(fd) \/ Redirect(fd)
    \/ Rollback \/ Commit \/ Discard

FdSpec == FdInit /\ [][FdNext]_fdVars

-----------------------------------------------------------------------------
(* Properties. *)

\* The descriptors the script sees.
Visible == [fd \in Fds |-> IF fd \in SavedFds(1) THEN Closed ELSE fds[fd]]

\* The entries of transaction k, and what it remembers of each target.
FrameEntries(k) == frames[k].start + 1 .. IF k = Len(frames) THEN Len(entries) ELSE frames[k + 1].start
Remembered(k) ==
    [fd \in {entries[i].target : i \in FrameEntries(k)} |->
        Restored(CHOOSE i \in FrameEntries(k) : entries[i].target = fd)]

Scripts == INSTANCE DescriptorFrames
             WITH table <- Visible, frames <- [k \in 1 .. Len(frames) |-> Remembered(k)]

\* A script never notices the backups: redirections nest, are undone whatever
\* step of them failed, and are kept, as DescriptorFrames says.
FramesSpec == Scripts!Spec

\* bx_fd_transaction_stack_invariants, asserted after every operation: a backup
\* is open, close-on-exec, held by one entry, and never a descriptor that an
\* active transaction declared; a target is saved once per transaction.
StackInvariants ==
    /\ entries \in Seq(Entries) /\ frames \in Seq(Frames)
    /\ frames = <<>> => entries = <<>>
    /\ \A i \in 1 .. Len(entries) :
         /\ entries[i].saved # entries[i].target
         /\ entries[i].saved # None =>
              /\ Open(fds, entries[i].saved) /\ fds[entries[i].saved].cloexec
              /\ entries[i].saved \notin Declared(frames)
              /\ \A j \in 1 .. i - 1 : entries[j].saved # entries[i].saved
    /\ \A k \in 1 .. Len(frames) :
         /\ \A i \in FrameEntries(k) : entries[i].target \in frames[k].refs
         /\ \A i, j \in FrameEntries(k) : entries[i].target = entries[j].target => i = j

=============================================================================
