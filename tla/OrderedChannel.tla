--------------------------- MODULE OrderedChannel ---------------------------
(***************************************************************************)
(* What the ordered-publication window promises its caller (the comment of *)
(* src/src/lib/ordered_publication.h): sequence numbers are handed out one *)
(* by one, results come out in exactly that order, and at most Window of   *)
(* them are outstanding.                                                   *)
(***************************************************************************)
EXTENDS Naturals, Sequences

CONSTANT Window

VARIABLES sent,        \* how many sequence numbers were handed out
          delivered    \* the sequence numbers delivered, oldest first

vars == <<sent, delivered>>

Init == sent = 0 /\ delivered = <<>>

Send ==
    /\ sent - Len(delivered) < Window
    /\ sent' = sent + 1
    /\ UNCHANGED delivered

Deliver ==
    /\ Len(delivered) < sent
    /\ delivered' = Append(delivered, Len(delivered))
    /\ UNCHANGED sent

Next == Send \/ Deliver

Spec == Init /\ [][Next]_vars
=============================================================================
