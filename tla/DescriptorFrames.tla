-------------------------- MODULE DescriptorFrames ---------------------------
(***************************************************************************)
(* What nested redirections promise a script: a table of descriptors, and  *)
(* a frame for each redirected command in progress that remembers what a   *)
(* descriptor was before the frame first changed it.  Undoing the newest   *)
(* frame puts exactly those descriptors back, flags included; keeping its  *)
(* changes forgets them.  Nothing else in the table ever moves.            *)
(***************************************************************************)
EXTENDS Naturals, Sequences

CONSTANTS Fds, Descs    \* descriptor numbers; what one can be, closed included

VARIABLES table,   \* [Fds -> Descs]
          frames   \* a sequence of functions from some of Fds to Descs

Last == Len(frames)
Known == DOMAIN frames[Last]

Init == table \in [Fds -> Descs] /\ frames = <<>>

Begin == frames' = Append(frames, [fd \in {} |-> table[fd]]) /\ UNCHANGED table

Remember(fd) ==
    /\ frames # <<>> /\ fd \notin Known
    /\ frames' = [frames EXCEPT ![Last] =
                    [x \in Known \cup {fd} |-> IF x = fd THEN table[fd] ELSE frames[Last][x]]]
    /\ UNCHANGED table

Change(fd, d) ==
    /\ frames # <<>> /\ fd \in Known
    /\ table' = [table EXCEPT ![fd] = d]
    /\ UNCHANGED frames

Undo ==
    /\ frames # <<>>
    /\ table' = [fd \in Fds |-> IF fd \in Known THEN frames[Last][fd] ELSE table[fd]]
    /\ frames' = SubSeq(frames, 1, Last - 1)

Keep == frames # <<>> /\ frames' = SubSeq(frames, 1, Last - 1) /\ UNCHANGED table

\* A forked child keeps the table and has no frames.
Forget == frames' = <<>> /\ UNCHANGED table

Next ==
    \/ Begin \/ Undo \/ Keep \/ Forget
    \/ \E fd \in Fds : Remember(fd) \/ \E d \in Descs : Change(fd, d)

Spec == Init /\ [][Next]_<<table, frames>>

=============================================================================
