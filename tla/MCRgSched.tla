----------------------------- MODULE MCRgSched -----------------------------
(* An instance of RgSched: a directory with subdirectories on two levels and *)
(* an explicit file operand.                                                 *)
EXTENDS RgSched

CONSTANTS r, a, b, c, f

MCItems == {r, a, b, c, f}
MCRoots == <<r, f>>
MCKids  == [d \in MCItems |-> CASE d = r -> {a, b} [] d = a -> {c} [] OTHER -> {}]
MCBelow == [d \in MCItems |-> CASE d = r -> {r, a, b, c} [] d = a -> {a, c} [] OTHER -> {d}]

=============================================================================
