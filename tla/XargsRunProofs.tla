---------------------------- MODULE XargsRunProofs ----------------------------
(***************************************************************************)
(* Proofs about the child table of src/lib/child_runner.c and about xargs, *)
(* which uses it.  The first part is about the table alone: whatever its   *)
(* client calls, and in whatever order children end, the rows stay exact.  *)
(* The second part shows that xargs is such a client, and the third that   *)
(* it loses no item and no status.                                         *)
(*                                                                         *)
(* The theorems about the table have a hypothesis, ~AutoReap: a process    *)
(* that was started with SIGCHLD ignored leaves no zombie, its rows stay,  *)
(* and they do not hold.                                                   *)
(***************************************************************************)
EXTENDS XargsRun, TimeoutMonitor, FiniteSetTheorems, WellFoundedInduction, TLAPS

\* Two rows differ in their pid and in their slot.
Apart(rows) ==
    \A i, j \in 1 .. Len(rows) : i # j => rows[i].pid # rows[j].pid /\ rows[i].slot # rows[j].slot

\* The rows are the children of this process that are not reaped, and an
\* inherited child, which the kernel knew from the start, never gets one.
TableInv ==
    /\ Tab!TypeOK
    /\ Apart(children) /\ Len(children) <= cap
    /\ \A i \in 1 .. Len(children) : children[i].slot < cap
    /\ \A i \in 1 .. Len(children) : children[i].pid \notin Inherited /\ proc[children[i].pid] \in {"runs", "zombie"}
    /\ \A p \in Pids \ Inherited : proc[p] \in {"runs", "zombie"} => \E i \in 1 .. Len(children) : children[i].pid = p
    /\ \A p \in Inherited : proc[p] # "unborn"
    /\ "joined" \in phases => Len(children) = 0

\* Something has happened that the value returned will show.
Trouble == final_rc > 0 \/ ~read_ok \/ failed \/ interrupt

\* The item the main thread holds outside its batch.
InHand ==
    IF \/ main \in {"slot", "taken", "spawn"} /\ then # "last"
       \/ main \in {"drain", "polled"} /\ then = "sink"
       \/ main = "append"
    THEN {item} ELSE {}

\* The command of the item has a row.
Running(x) == \E i \in 1 .. Len(children) : x \in args[children[i].pid]

RunType ==
    /\ mode \in {"replace", "batch"} /\ max_procs \in Nat
    /\ item \in Nat /\ batch \in SUBSET (1 .. item) /\ settled \in SUBSET (1 .. item)
    /\ main \in MainStates /\ then \in {"replace", "sink", "last"}
    /\ read_ok \in BOOLEAN /\ failed \in BOOLEAN /\ abort_launch \in BOOLEAN /\ interrupt \in BOOLEAN
    /\ final_rc \in Nat /\ rc \in Nat
    /\ args \in [Pids -> SUBSET (1 .. item)]

\* The states of a slot, a spawn and the poll after it, for which some item was
\* read, and in which `then' says what for.
Launching == {"slot", "taken", "spawn", "drain", "polled"}

RunControl ==
    /\ call # "none" => main \in {"taken", "polled", "waited", "cancel"}
    /\ main \in Launching \cup {"append"} => item > 0
    /\ mode = "replace" => batch = {} /\ main # "append" /\ (main \in Launching => then # "sink")
    /\ mode = "batch" => then # "replace"
    /\ main \in {"drain", "polled"} => batch = {}
    /\ main = "cancel" => rc > 0 /\ interrupt
    /\ main \in {"read", "append"} \/ (main \in Launching /\ then # "last") => read_ok

\* A status that aborts the launching shows in the value returned, as does a
\* command that could not be executed; in batch mode the sink has stopped.
Aborting ==
    /\ abort_launch => final_rc > 0
    /\ \A i \in 1 .. Len(children) : children[i].exec_failed => final_rc > 0
    /\ abort_launch => item > 0 \/ main \in {"wait", "waited", "end", "cancel", "done"}
    /\ abort_launch /\ mode = "batch" => main \notin {"read", "append", "slot", "spawn"}

\* While nothing has gone wrong each item is settled, in the batch, in a
\* running command or in hand.
NothingDropped ==
    ~Trouble =>
        /\ \A x \in 1 .. item : x \in settled \cup batch \cup InHand \/ Running(x)
        /\ main \in {"empty", "wait", "waited", "end"} => batch = {}
        /\ main = "end" => Len(children) = 0

RunInv == TableInv /\ RunType /\ RunControl /\ Aborting /\ NothingDropped /\ SuccessIsComplete

-----------------------------------------------------------------------------
(* The operators of the table. *)

LEMMA RowFields ==
    ASSUME NEW rows \in Seq(Tab!Rows)
    PROVE  /\ Len(rows) \in Nat
           /\ \A i \in 1 .. Len(rows) :
                rows[i] \in Tab!Rows /\ rows[i].pid \in Pids /\ rows[i].slot \in Nat
<1>1. \A row \in Tab!Rows : row.pid \in Pids /\ row.slot \in Nat
  BY DEF Tab!Rows
<1>2. Len(rows) \in Nat /\ \A i \in 1 .. Len(rows) : rows[i] \in Tab!Rows
  OBVIOUS
<1> QED BY <1>1, <1>2

\* The rows but the k-th, in some order.
Without(rows, k, rest) ==
    /\ rest \in Seq(Tab!Rows) /\ Len(rest) = Len(rows) - 1
    /\ \A i \in 1 .. Len(rest) : \E j \in 1 .. Len(rows) : j # k /\ rest[i] = rows[j]
    /\ \A j \in 1 .. Len(rows) : j # k => \E i \in 1 .. Len(rest) : rest[i] = rows[j]
    /\ Apart(rest)

\* A row is removed by moving the last one into its place: what is left are the
\* other rows, each once.
LEMMA DropRowRemoves ==
    ASSUME NEW rows \in Seq(Tab!Rows), Apart(rows), NEW k \in 1 .. Len(rows),
           NEW rest, rest = Tab!DropRow(rows, rows[k].pid)
    PROVE  Without(rows, k, rest)
<1> DEFINE last == Len(rows)
           moved == [i \in 1 .. last - 1 |-> IF i = k THEN rows[last] ELSE rows[i]]
<1>1. last \in Nat /\ last > 0 /\ \A i \in 1 .. last : rows[i] \in Tab!Rows
  OBVIOUS
<1>2. \A i \in 1 .. last : rows[i].pid = rows[k].pid => i = k
  BY DEF Apart
<1>3. rest = moved
  <2> DEFINE first == CHOOSE i \in 1 .. last :
                        rows[i].pid = rows[k].pid /\ \A j \in 1 .. i - 1 : rows[j].pid # rows[k].pid
  <2>1. \E i \in 1 .. last : rows[i].pid = rows[k].pid /\ \A j \in 1 .. i - 1 : rows[j].pid # rows[k].pid
    <3>1. \A j \in 1 .. k - 1 : j \in 1 .. last /\ j # k
      BY <1>1
    <3> QED BY <1>2, <3>1
  <2>2. first \in 1 .. last /\ rows[first].pid = rows[k].pid
    BY <2>1
  <2>3. first = k
    BY <1>2, <2>2
  <2> QED BY <2>3 DEF Tab!DropRow
<1>4. rest \in Seq(Tab!Rows) /\ Len(rest) = last - 1
  BY <1>1, <1>3
<1>5. \A i \in 1 .. last - 1 : rest[i] = rows[IF i = k THEN last ELSE i]
  BY <1>3
<1>6. \A i \in 1 .. Len(rest) : \E j \in 1 .. last : j # k /\ rest[i] = rows[j]
  <2> SUFFICES ASSUME NEW i \in 1 .. last - 1 PROVE \E j \in 1 .. last : j # k /\ rest[i] = rows[j]
    BY <1>4
  <2>1. (IF i = k THEN last ELSE i) \in 1 .. last /\ (IF i = k THEN last ELSE i) # k
    BY <1>1
  <2> QED BY <1>5, <2>1
<1>7. \A j \in 1 .. last : j # k => \E i \in 1 .. Len(rest) : rest[i] = rows[j]
  <2> SUFFICES ASSUME NEW j \in 1 .. last, j # k PROVE \E i \in 1 .. last - 1 : rest[i] = rows[j]
    BY <1>4
  <2>1. CASE j = last
    <3>1. k \in 1 .. last - 1
      BY <1>1, <2>1
    <3> QED BY <1>5, <2>1, <3>1
  <2>2. CASE j # last
    <3>1. j \in 1 .. last - 1
      BY <1>1, <2>2
    <3> QED BY <1>5, <3>1
  <2> QED BY <2>1, <2>2
<1>8. Apart(rest)
  <2> SUFFICES ASSUME NEW i \in 1 .. last - 1, NEW j \in 1 .. last - 1, i # j
               PROVE  rest[i].pid # rest[j].pid /\ rest[i].slot # rest[j].slot
    BY <1>4 DEF Apart
  <2>1. PICK u \in 1 .. last : u = (IF i = k THEN last ELSE i)
    BY <1>1
  <2>2. PICK v \in 1 .. last : v = (IF j = k THEN last ELSE j)
    BY <1>1
  <2>3. u # v
    BY <1>1, <2>1, <2>2
  <2>4. rest[i] = rows[u] /\ rest[j] = rows[v]
    BY <1>5, <2>1, <2>2
  <2> QED BY <2>3, <2>4 DEF Apart
<1> QED BY <1>4, <1>6, <1>7, <1>8 DEF Without

\* A pid without a row leaves the rows alone.
LEMMA DropRowOther ==
    ASSUME NEW rows, NEW p, \A i \in 1 .. Len(rows) : rows[i].pid # p
    PROVE  Tab!DropRow(rows, p) = rows
BY DEF Tab!DropRow

\* As long as the table has room there is a slot nobody has, and PickSlot finds
\* one.
LEMMA PickSlotIsFree ==
    ASSUME NEW rows \in Seq(Tab!Rows), NEW n \in Nat, Len(rows) < n
    PROVE  /\ Tab!PickSlot(rows, n) \in 0 .. n - 1
           /\ \A i \in 1 .. Len(rows) : rows[i].slot # Tab!PickSlot(rows, n)
<1> DEFINE slot == [i \in 1 .. Len(rows) |-> rows[i].slot]
           taken == {slot[i] : i \in 1 .. Len(rows)}
           open == {s \in 0 .. n - 1 : \A i \in 1 .. Len(rows) : rows[i].slot # s}
<1>1. Len(rows) \in Nat
  OBVIOUS
<1>2. open # {}
  <2> SUFFICES ASSUME open = {} PROVE FALSE
    OBVIOUS
  <2>1. 0 .. n - 1 \subseteq taken
    OBVIOUS
  <2>2. slot \in Surjection(1 .. Len(rows), taken)
    BY DEF Surjection
  <2>3. IsFiniteSet(1 .. Len(rows)) /\ Cardinality(1 .. Len(rows)) = Len(rows)
    <3>1. 1 \in Int /\ Len(rows) \in Int
      BY <1>1
    <3>2. IsFiniteSet(1 .. Len(rows))
      BY <3>1, FS_Interval
    <3>3. Cardinality(1 .. Len(rows)) = IF 1 > Len(rows) THEN 0 ELSE Len(rows) - 1 + 1
      BY <3>1, FS_Interval, Zenon
    <3>4. Cardinality(1 .. Len(rows)) = Len(rows)
      BY <1>1, <3>3
    <3> QED BY <3>2, <3>4
  <2>4. IsFiniteSet(taken) /\ Cardinality(taken) <= Len(rows)
    BY <2>2, <2>3, FS_Surjection
  <2>5. Cardinality(0 .. n - 1) = n
    BY FS_Interval
  <2>6. Cardinality(0 .. n - 1) <= Cardinality(taken)
    BY <2>1, <2>4, FS_Subset
  <2>7. Cardinality(taken) \in Nat
    BY <2>4, FS_CardinalityType
  <2> QED BY <1>1, <2>4, <2>5, <2>6, <2>7
<1>3. \E s \in open : \A t \in open : s <= t
  <2>1. open \subseteq Nat
    OBVIOUS
  <2>2. PICK s \in open : \A t \in open : ~(<<t, s>> \in OpToRel(<, Nat))
    BY <1>2, <2>1, NatLessThanWellFounded, WFMin
  <2>3. ASSUME NEW t \in open, t < s PROVE FALSE
    <3>1. <<t, s>> \in Nat \X Nat /\ <<t, s>>[1] = t /\ <<t, s>>[2] = s
      BY <2>1
    <3>2. <<t, s>> \in OpToRel(<, Nat)
      BY <2>3, <3>1 DEF OpToRel
    <3> QED BY <2>2, <3>2
  <2>4. \A t \in open : s <= t
    BY <2>1, <2>3
  <2> QED BY <2>4
<1>4. Tab!PickSlot(rows, n) = CHOOSE s \in open : \A t \in open : s <= t
  BY <1>2 DEF Tab!PickSlot
<1>5. Tab!PickSlot(rows, n) \in open
  BY <1>3, <1>4
<1> QED BY <1>5

-----------------------------------------------------------------------------
(* The table alone, under any client. *)

LEMMA Parameters ==
    /\ Inherited \subseteq Pids /\ ProcLimits \subseteq Nat
    /\ \A n \in ProcLimits : FirstCap(n) \in Nat \ {0}
BY XargsAssumption DEF FirstCap

LEMMA TableInvImpliesOK == TableInv => Tab!TableOK
<1> SUFFICES ASSUME TableInv PROVE Tab!TableOK
  OBVIOUS
<1>1. Tab!TypeOK
  BY DEF TableInv
<1>2. \A i, j \in 1 .. Len(children) : children[i].pid = children[j].pid => i = j
  BY DEF TableInv, Apart
<1>3. \A i, j \in 1 .. Len(children) : children[i].slot = children[j].slot => i = j
  BY DEF TableInv, Apart
<1>4. Tab!RowPids = (Tab!Alive \cup Tab!Zombies) \ Inherited
  <2>1. \A i \in 1 .. Len(children) : children[i].pid \in Pids
    BY <1>1, RowFields DEF Tab!TypeOK
  <2> QED BY <2>1 DEF TableInv, Tab!RowPids, Tab!Running, Tab!Alive, Tab!Zombies
<1>5. Tab!TableIsExact
  BY <1>2, <1>4 DEF Tab!TableIsExact, Tab!Running
<1>6. Tab!SlotsAndPhases
  BY <1>3 DEF TableInv, Tab!SlotsAndPhases, Tab!Running
<1> QED BY <1>1, <1>5, <1>6 DEF Tab!TableOK

LEMMA TableInitInv == Tab!Init => TableInv
<1> SUFFICES ASSUME Tab!Init PROVE TableInv
  OBVIOUS
<1>1. Len(children) = 0 /\ children \in Seq(Tab!Rows)
  BY DEF Tab!Init
<1>2. Tab!TypeOK
  BY <1>1, Parameters DEF Tab!Init, Tab!TypeOK, Tab!Calls, Tab!Phases
<1> QED BY <1>1, <1>2, Parameters DEF Tab!Init, TableInv, Tab!TypeOK, Apart

\* A spawn adds a row with a new pid and a free slot.
LEMMA SpawnKeepsTable ==
    ASSUME TableInv, NEW p \in Pids, NEW cannot \in BOOLEAN, Tab!Spawn(p, cannot)
    PROVE  TableInv'
<1> DEFINE row == [pid |-> p, slot |-> Tab!PickSlot(children, cap), exec_failed |-> cannot]
<1>1. /\ children \in Seq(Tab!Rows) /\ cap \in Nat /\ Len(children) < cap /\ Len(children) \in Nat
      /\ proc \in [Pids -> {"unborn", "runs", "zombie", "gone"}] /\ proc[p] = "unborn"
      /\ children' = Append(children, row) /\ proc' = [proc EXCEPT ![p] = "runs"]
      /\ UNCHANGED <<cap, call, cancelling, phases>> /\ "joined" \notin phases
  BY DEF TableInv, Tab!TypeOK, Tab!Spawn, Tab!Idle, Tab!Running
<1>2. /\ Tab!PickSlot(children, cap) \in 0 .. cap - 1
      /\ \A i \in 1 .. Len(children) : children[i].slot # Tab!PickSlot(children, cap)
  BY <1>1, PickSlotIsFree
<1>3. row \in Tab!Rows
  BY <1>2 DEF Tab!Rows
<1>4. /\ children' \in Seq(Tab!Rows) /\ Len(children') = Len(children) + 1
      /\ children'[Len(children) + 1] = row
      /\ \A i \in 1 .. Len(children) : children'[i] = children[i]
  BY <1>1, <1>3
<1>5. \A i \in 1 .. Len(children') : i \in 1 .. Len(children) \/ i = Len(children) + 1
  BY <1>1, <1>4
<1>6. \A i \in 1 .. Len(children) : children[i].pid \in Pids /\ children[i].pid # p
  BY <1>1, RowFields DEF TableInv
<1>7. Tab!TypeOK'
  BY <1>1, <1>4 DEF TableInv, Tab!TypeOK
<1>8. Apart(children)'
  BY <1>2, <1>4, <1>5, <1>6 DEF TableInv, Apart
<1>9. \A i \in 1 .. Len(children') : children'[i].slot < cap'
  BY <1>1, <1>2, <1>4, <1>5 DEF TableInv
<1>10. \A i \in 1 .. Len(children') : children'[i].pid \notin Inherited /\ proc'[children'[i].pid] \in {"runs", "zombie"}
  BY <1>1, <1>4, <1>5, <1>6 DEF TableInv
<1>11. \A q \in Pids \ Inherited : proc'[q] \in {"runs", "zombie"} => \E i \in 1 .. Len(children') : children'[i].pid = q
  <2> SUFFICES ASSUME NEW q \in Pids \ Inherited, proc'[q] \in {"runs", "zombie"}
               PROVE  \E i \in 1 .. Len(children') : children'[i].pid = q
    OBVIOUS
  <2>1. CASE q = p
    BY <1>1, <1>4, <2>1
  <2>2. CASE q # p
    <3>1. PICK i \in 1 .. Len(children) : children[i].pid = q
      BY <1>1, <2>2 DEF TableInv
    <3> QED BY <1>1, <1>4, <3>1
  <2> QED BY <2>1, <2>2
<1>12. \A q \in Inherited : proc'[q] # "unborn"
  BY <1>1, Parameters DEF TableInv
<1> QED BY <1>1, <1>4, <1>7, <1>8, <1>9, <1>10, <1>11, <1>12 DEF TableInv

\* A reap takes the row of its child, if it has one, and no other.
LEMMA ReapKeepsTable ==
    ASSUME TableInv, NEW p \in Pids, Tab!ReapTakes(p)
    PROVE  /\ TableInv'
           /\ \A i \in 1 .. Len(children') : \E j \in 1 .. Len(children) : children'[i] = children[j]
           /\ \A j \in 1 .. Len(children) : children[j].pid # p =>
                \E i \in 1 .. Len(children') : children'[i] = children[j]
<1>1. /\ children \in Seq(Tab!Rows) /\ cap \in Nat /\ Len(children) <= cap /\ Len(children) \in Nat
      /\ proc \in [Pids -> {"unborn", "runs", "zombie", "gone"}] /\ proc[p] = "zombie"
      /\ children' = Tab!DropRow(children, p) /\ proc' = [proc EXCEPT ![p] = "gone"]
      /\ UNCHANGED <<cap, cancelling, phases>> /\ call' \in Tab!Calls
      /\ Apart(children)
  BY DEF TableInv, Tab!TypeOK, Tab!ReapTakes, Tab!Zombies, Tab!Calls
<1>2. /\ children' \in Seq(Tab!Rows) /\ Len(children') <= Len(children)
      /\ \A i \in 1 .. Len(children') :
           children'[i].pid # p /\ \E j \in 1 .. Len(children) : children'[i] = children[j]
      /\ \A j \in 1 .. Len(children) : children[j].pid # p =>
           \E i \in 1 .. Len(children') : children'[i] = children[j]
      /\ Apart(children')
  <2>1. CASE \A i \in 1 .. Len(children) : children[i].pid # p
    <3>1. children' = children
      BY <1>1, <2>1, DropRowOther
    <3> QED BY <1>1, <2>1, <3>1
  <2>2. CASE \E i \in 1 .. Len(children) : children[i].pid = p
    <3>1. PICK k \in 1 .. Len(children) : children[k].pid = p
      BY <2>2
    <3>2. PICK rest : rest = children'
      OBVIOUS
    <3>3. rest = Tab!DropRow(children, children[k].pid) /\ children \in Seq(Tab!Rows) /\ Apart(children)
      BY <1>1, <3>1, <3>2
    <3>4. Without(children, k, rest)
      BY <3>1, <3>3, DropRowRemoves
    <3>5. \A j \in 1 .. Len(children) : children[j].pid # p <=> j # k
      BY <1>1, <3>1 DEF Apart
    <3>6. Len(rest) <= Len(children)
      BY <1>1, <3>4 DEF Without
    <3>7. \A i \in 1 .. Len(rest) : rest[i].pid # p /\ \E j \in 1 .. Len(children) : rest[i] = children[j]
      BY <3>4, <3>5 DEF Without
    <3>8. \A j \in 1 .. Len(children) : children[j].pid # p => \E i \in 1 .. Len(rest) : rest[i] = children[j]
      BY <3>4, <3>5 DEF Without
    <3> QED BY <3>2, <3>4, <3>6, <3>7, <3>8 DEF Without
  <2> QED BY <2>1, <2>2
<1>3. Tab!TypeOK'
  BY <1>1, <1>2 DEF TableInv, Tab!TypeOK
<1>4. \A i \in 1 .. Len(children') : children'[i].slot < cap'
  BY <1>1, <1>2 DEF TableInv
<1>5. \A i \in 1 .. Len(children') : children'[i].pid \notin Inherited /\ proc'[children'[i].pid] \in {"runs", "zombie"}
  <2> SUFFICES ASSUME NEW i \in 1 .. Len(children')
               PROVE  children'[i].pid \notin Inherited /\ proc'[children'[i].pid] \in {"runs", "zombie"}
    OBVIOUS
  <2>1. PICK j \in 1 .. Len(children) : children'[i] = children[j]
    BY <1>2
  <2>2. children[j].pid # p /\ children[j].pid \in Pids
    BY <1>1, <1>2, <2>1, RowFields
  <2> QED BY <1>1, <2>1, <2>2 DEF TableInv
<1>6. \A q \in Pids \ Inherited : proc'[q] \in {"runs", "zombie"} => \E i \in 1 .. Len(children') : children'[i].pid = q
  <2> SUFFICES ASSUME NEW q \in Pids \ Inherited, proc'[q] \in {"runs", "zombie"}
               PROVE  \E i \in 1 .. Len(children') : children'[i].pid = q
    OBVIOUS
  <2>1. q # p /\ proc[q] \in {"runs", "zombie"}
    BY <1>1
  <2>2. PICK j \in 1 .. Len(children) : children[j].pid = q
    BY <2>1 DEF TableInv
  <2> QED BY <1>2, <2>1, <2>2
<1>7. \A q \in Inherited : proc'[q] # "unborn"
  BY <1>1, Parameters DEF TableInv
<1>8. "joined" \in phases' => Len(children') = 0
  <2>1. Len(children') \in Nat
    BY <1>2
  <2> QED BY <1>1, <1>2, <2>1 DEF TableInv
<1>9. Len(children') <= cap'
  <2>1. Len(children') \in Nat
    BY <1>2
  <2> QED BY <1>1, <1>2, <2>1
<1>10. Apart(children)'
  BY <1>2 DEF Apart
<1> QED BY <1>2, <1>3, <1>4, <1>5, <1>6, <1>7, <1>8, <1>9, <1>10 DEF TableInv

\* Every other step leaves the rows where they are.
LEMMA RowsStay ==
    ASSUME TableInv, UNCHANGED <<children, proc>>, cap' \in Nat, cap <= cap', call' \in Tab!Calls,
           cancelling' \in BOOLEAN, phases' \in SUBSET Tab!Phases, "joined" \in phases' => Len(children) = 0
    PROVE  TableInv'
<1>1. Tab!TypeOK'
  BY DEF TableInv, Tab!TypeOK
<1>2. Apart(children)'
  BY DEF TableInv, Apart
<1>3. Len(children) \in Nat /\ cap \in Nat /\ \A i \in 1 .. Len(children) : children[i].slot \in Nat
  BY RowFields DEF TableInv, Tab!TypeOK
<1>4. \A i \in 1 .. Len(children) : children[i].slot < cap'
  BY <1>3 DEF TableInv
<1> QED BY <1>1, <1>2, <1>3, <1>4 DEF TableInv

LEMMA TableStep == ~AutoReap /\ TableInv /\ [Tab!Next]_(Tab!vars) => TableInv'
<1> SUFFICES ASSUME ~AutoReap, TableInv, [Tab!Next]_(Tab!vars) PROVE TableInv'
  OBVIOUS
<1>0. Tab!TypeOK /\ cap \in Nat /\ ("joined" \in phases => Len(children) = 0)
  BY DEF TableInv, Tab!TypeOK
<1>1. CASE Tab!Grow
  <2>1. cap' \in Nat /\ cap <= cap'
    BY <1>0, <1>1 DEF Tab!Grow
  <2> QED BY <1>0, <1>1, <2>1, RowsStay DEF Tab!Grow, Tab!TypeOK
<1>2. ASSUME NEW p \in Pids, NEW f \in BOOLEAN, Tab!Spawn(p, f) PROVE TableInv'
  BY <1>2, SpawnKeepsTable
<1>3. ASSUME NEW kind \in Tab!Calls \ {"none"}, Tab!BeginWait(kind) PROVE TableInv'
  BY <1>0, <1>3, RowsStay DEF Tab!BeginWait, Tab!TypeOK
<1>4. CASE Tab!CancelRun
  BY <1>0, <1>4, RowsStay DEF Tab!CancelRun, Tab!TypeOK, Tab!Phases
<1>5. ASSUME NEW p \in Pids, Tab!ReapTakes(p) PROVE TableInv'
  BY <1>5, ReapKeepsTable
<1>6. CASE Tab!ReapNothing \/ Tab!ReapInterrupted
  BY <1>0, <1>6, RowsStay DEF Tab!ReapNothing, Tab!ReapInterrupted, Tab!TypeOK, Tab!Calls
<1>7. CASE Tab!CancelLoop
  <2>1. Len(children) \in Nat
    BY <1>0, RowFields DEF Tab!TypeOK
  <2>2. call' \in Tab!Calls /\ cancelling' \in BOOLEAN /\ phases' \in SUBSET Tab!Phases
        /\ ("joined" \in phases' => Len(children) = 0)
    <3>1. CASE Len(children) > 0
      BY <1>0, <1>7, <2>1, <3>1 DEF Tab!CancelLoop, Tab!TypeOK, Tab!Calls, Tab!Phases, Tab!Running
    <3>2. CASE ~(Len(children) > 0)
      <4>1. phases' = phases \cup {"joined"} /\ cancelling' = FALSE /\ call' = call
        BY <1>7, <3>2 DEF Tab!CancelLoop, Tab!Running
      <4>2. Len(children) = 0
        BY <2>1, <3>2
      <4> QED BY <1>0, <4>1, <4>2 DEF Tab!TypeOK, Tab!Phases
    <3> QED BY <3>1, <3>2
  <2> QED BY <1>0, <1>7, <2>2, RowsStay DEF Tab!CancelLoop
<1>8. ASSUME NEW p \in Pids, Tab!Exit(p) PROVE TableInv'
  <2>1. /\ proc \in [Pids -> {"unborn", "runs", "zombie", "gone"}] /\ proc[p] = "runs"
        /\ proc' = [proc EXCEPT ![p] = "zombie"] /\ UNCHANGED <<children, cap, call, cancelling, phases>>
    BY <1>0, <1>8 DEF Tab!Exit, Tab!TypeOK
  <2>2. \A q \in Pids : proc'[q] = IF q = p THEN "zombie" ELSE proc[q]
    BY <2>1
  <2>3. \A i \in 1 .. Len(children) : children[i].pid \in Pids
    BY <1>0, RowFields DEF Tab!TypeOK
  <2>4. Tab!TypeOK'
    BY <1>0, <2>1 DEF Tab!TypeOK
  <2>5. Apart(children)'
    BY <2>1 DEF TableInv, Apart
  <2> QED BY <2>1, <2>2, <2>3, <2>4, <2>5, Parameters DEF TableInv
<1>9. CASE UNCHANGED Tab!vars
  BY <1>0, <1>9, RowsStay DEF Tab!vars, Tab!TypeOK
<1> QED BY <1>1, <1>2, <1>3, <1>4, <1>5, <1>6, <1>7, <1>8, <1>9 DEF Tab!Next, Tab!WaitStep, Tab!Terminated

\* Whatever a client does with its table, the rows are the children it spawned
\* and has not reaped, no two share a slot, and a joined run has none left:
\* the guarantees of bx_child_spawn_argv and bx_child_reap, for any number of
\* processes, rows and inherited children.  SIGCHLD must not be ignored.
THEOREM TableStaysExact == ~AutoReap => (Tab!Spec => []Tab!TableOK)
<1> SUFFICES ASSUME ~AutoReap PROVE Tab!Spec => []Tab!TableOK
  OBVIOUS
<1>1. TableInv /\ [Tab!Next]_(Tab!vars) => TableInv'
  BY TableStep
<1> QED BY <1>1, TableInitInv, TableInvImpliesOK, PTL DEF Tab!Spec

-----------------------------------------------------------------------------
(* xargs is a client of the table. *)

LEMMA NewPidIsUnborn == Unborn # {} => NewPid \in Pids /\ proc[NewPid] = "unborn"
BY DEF Unborn, NewPid

LEMMA ClientStep == Next => [Tab!Next]_(Tab!vars)
<1> SUFFICES ASSUME Next PROVE [Tab!Next]_(Tab!vars)
  OBVIOUS
<1>1. CASE \/ ReadReplace \/ ReadFlush \/ ReadAppend \/ AppendItem \/ AppendFails \/ ReadEnds
           \/ SlotFree \/ SlotGrowFails \/ SlotTaken \/ SpawnDeclined \/ SpawnFails \/ Polled
           \/ LastFlush \/ EmptyFails \/ EmptySkips \/ Waited \/ Return \/ Signal \/ Terminated
  BY <1>1 DEF ReadReplace, ReadFlush, ReadAppend, AppendItem, AppendFails, ReadEnds, SlotFree,
     SlotGrowFails, SlotTaken, SpawnDeclined, SpawnFails, Polled, LastFlush, EmptyFails, EmptySkips,
     Waited, Return, Signal, Terminated, vars, tab, Tab!vars
<1>2. CASE SlotGrows
  BY <1>2 DEF SlotGrows, Tab!Next
<1>3. CASE SlotWaits
  <2>1. "one" \in Tab!Calls \ {"none"} /\ Tab!BeginWait("one")
    BY <1>3 DEF SlotWaits, Tab!Calls
  <2> QED BY <2>1 DEF Tab!Next
<1>4. ASSUME NEW cannot \in BOOLEAN, SpawnChild(cannot) \/ EmptyRuns(cannot) PROVE Tab!Next
  <2>1. NewPid \in Pids /\ Tab!Spawn(NewPid, cannot)
    BY <1>4, NewPidIsUnborn DEF SpawnChild, EmptyRuns
  <2> QED BY <2>1 DEF Tab!Next
<1>5. CASE Drain
  <2>1. "poll" \in Tab!Calls \ {"none"} /\ (Tab!BeginWait("poll") \/ UNCHANGED tab)
    BY <1>5 DEF Drain, Tab!Calls
  <2> QED BY <2>1 DEF Tab!Next, tab, Tab!vars
<1>6. CASE Wait
  <2>1. "all" \in Tab!Calls \ {"none"} /\ (Tab!BeginWait("all") \/ UNCHANGED tab)
    BY <1>6 DEF Wait, Tab!Calls
  <2> QED BY <2>1 DEF Tab!Next, tab, Tab!vars
<1>7. CASE Cancel \/ CancelLoop \/ ReapNothing \/ SignalInWait
  BY <1>7 DEF Cancel, CancelLoop, ReapNothing, SignalInWait, Tab!Next, Tab!WaitStep
<1>8. ASSUME NEW p \in Pids, NEW o \in Outcomes, ReapTakes(p, o) PROVE Tab!Next
  BY <1>8 DEF ReapTakes, Tab!Next, Tab!WaitStep
<1>9. ASSUME NEW p \in Pids, Exit(p) PROVE Tab!Next
  BY <1>9 DEF Exit, Tab!Next
<1> QED BY <1>1, <1>2, <1>3, <1>4, <1>5, <1>6, <1>7, <1>8, <1>9 DEF Next, MainNext

LEMMA TableOfXargs == ~AutoReap /\ TableInv /\ [Next]_vars => TableInv'
<1> SUFFICES ASSUME ~AutoReap, TableInv, [Next]_vars PROVE TableInv'
  OBVIOUS
<1>1. [Tab!Next]_(Tab!vars)
  BY ClientStep DEF vars, tab, Tab!vars
<1> QED BY <1>1, TableStep

-----------------------------------------------------------------------------
(* The main thread. *)

LEMMA OneMore ==
    ASSUME NEW n \in Nat
    PROVE  /\ n + 1 \in Nat /\ n + 1 > 0 /\ n + 1 \in 1 .. n + 1
           /\ 1 .. n \subseteq 1 .. n + 1 /\ 1 .. n + 1 = (1 .. n) \cup {n + 1}
OBVIOUS

\* A new item leaves the sets of items as they were.
LEMMA ItemsGrow ==
    ASSUME RunType, item' = item + 1, UNCHANGED <<batch, settled, args>>
    PROVE  /\ item' \in Nat /\ item' > 0 /\ batch' \in SUBSET (1 .. item') /\ settled' \in SUBSET (1 .. item')
           /\ args' \in [Pids -> SUBSET (1 .. item')]
<1>1. item \in Nat /\ 1 .. item \subseteq 1 .. item'
  BY OneMore DEF RunType
<1>2. \A p \in Pids : args[p] \in SUBSET (1 .. item')
  BY <1>1 DEF RunType
<1>3. args' \in [Pids -> SUBSET (1 .. item')]
  BY <1>2 DEF RunType
<1>4. batch' \in SUBSET (1 .. item') /\ settled' \in SUBSET (1 .. item')
  BY <1>1 DEF RunType
<1> QED BY <1>1, <1>3, <1>4, OneMore

LEMMA GivenIsRead == RunType /\ RunControl /\ main = "spawn" => Given \in SUBSET (1 .. item)
BY DEF RunType, RunControl, Launching, Given

LEMMA WorseIsNat ==
    ASSUME NEW a \in Nat, NEW b \in Nat
    PROVE  WorseStatus(a, b) \in Nat /\ (WorseStatus(a, b) = 0 <=> a = 0 /\ b = 0)
BY DEF WorseStatus

LEMMA RcOfOutcome == \A o \in Outcomes : RcOf[o] \in Nat /\ (RcOf[o] = 0 <=> o = "ok")
BY DEF RcOf, Outcomes

LEMMA TypeStep == RunType /\ RunControl /\ [Next]_vars => RunType'
<1> SUFFICES ASSUME RunType, RunControl, [Next]_vars PROVE RunType'
  OBVIOUS
<1>0. /\ item \in Nat /\ final_rc \in Nat
      /\ {"read", "slot", "taken", "spawn", "drain", "polled", "append", "last", "empty", "wait", "waited", "end",
          "cancel", "done"} = MainStates
  BY DEF RunType, MainStates
<1>1. CASE ReadReplace \/ ReadFlush \/ ReadAppend
  <2>1. item' = item + 1 /\ UNCHANGED <<batch, settled, args>>
    BY <1>1 DEF ReadReplace, ReadFlush, ReadAppend
  <2>2. /\ UNCHANGED <<max_procs, mode, read_ok, failed, abort_launch, interrupt, final_rc, rc>>
        /\ main' \in {"slot", "append"} /\ then' \in {then, "replace", "sink"}
    BY <1>1 DEF ReadReplace, ReadFlush, ReadAppend, status, end
  <2> QED BY <1>0, <2>1, <2>2, ItemsGrow DEF RunType
<1>2. CASE AppendItem
  <2>1. batch' \in SUBSET (1 .. item)
    BY <1>2 DEF AppendItem, RunType, RunControl
  <2> QED BY <1>0, <1>2, <2>1 DEF AppendItem, RunType, status, end
<1>3. CASE AppendFails \/ ReadEnds \/ SlotFree \/ SlotGrowFails \/ SlotTaken \/ SpawnFails
  BY <1>0, <1>3 DEF AppendFails, ReadEnds, SlotFree, SlotGrowFails, SlotTaken, SpawnFails, SinkStops, RunType,
     input, status, end
<1>4. CASE SlotGrows \/ SlotWaits \/ Drain \/ Polled
  BY <1>0, <1>4 DEF SlotGrows, SlotWaits, Drain, Polled, SinkStops, RunType, input, status, end
<1>5. ASSUME NEW cannot \in BOOLEAN, SpawnChild(cannot) PROVE RunType'
  <2>1. args' \in [Pids -> SUBSET (1 .. item)]
    BY <1>5, NewPidIsUnborn, GivenIsRead DEF SpawnChild, RunType
  <2>2. final_rc' \in Nat
    BY <1>0, <1>5, WorseIsNat DEF SpawnChild
  <2>3. batch' \in SUBSET (1 .. item)
    BY <1>5 DEF SpawnChild, RunType
  <2> QED BY <1>0, <1>5, <2>1, <2>2, <2>3 DEF SpawnChild, RunType, end
<1>6. CASE SpawnDeclined
  <2>1. settled' \in SUBSET (1 .. item) /\ batch' \in SUBSET (1 .. item)
    BY <1>6, GivenIsRead DEF SpawnDeclined, RunType
  <2> QED BY <1>0, <1>6, <2>1 DEF SpawnDeclined, RunType, status, end
<1>7. CASE LastFlush \/ EmptyFails \/ EmptySkips
  BY <1>0, <1>7 DEF LastFlush, EmptyFails, EmptySkips, RunType, input, status, end
<1>8. ASSUME NEW cannot \in BOOLEAN, EmptyRuns(cannot) PROVE RunType'
  <2>1. /\ final_rc' = final_rc \/ final_rc' = WorseStatus(final_rc, 127)
        /\ abort_launch' = (abort_launch \/ cannot) /\ main' = "wait"
        /\ UNCHANGED <<input, then, end, interrupt, args, settled>>
    BY <1>8 DEF EmptyRuns
  <2>2. final_rc' \in Nat
    <3>1. 127 \in Nat
      OBVIOUS
    <3>2. WorseStatus(final_rc, 127) \in Nat
      BY <1>0, <3>1, WorseIsNat
    <3> QED BY <1>0, <2>1, <3>2
  <2>3. abort_launch' \in BOOLEAN /\ main' \in MainStates
    BY <1>0, <2>1 DEF RunType
  <2> QED BY <2>1, <2>2, <2>3 DEF RunType, input, end
<1>9. CASE Wait \/ Waited \/ Cancel \/ CancelLoop \/ Return
  <2>1. rc' \in Nat
    BY <1>0, <1>9 DEF Wait, Waited, Cancel, CancelLoop, Return, RunType, end
  <2>2. main' \in MainStates
    BY <1>0, <1>9 DEF Wait, Waited, Cancel, CancelLoop, Return
  <2>3. UNCHANGED <<input, then, status, read_ok, failed, interrupt, args, settled>>
    BY <1>9 DEF Wait, Waited, Cancel, CancelLoop, Return, end
  <2> QED BY <2>1, <2>2, <2>3 DEF RunType, input, status
<1>10. ASSUME NEW p \in Pids, NEW o \in Outcomes, ReapTakes(p, o) PROVE RunType'
  <2>1. final_rc' \in Nat
    <3>1. RcOf[o] \in Nat
      BY RcOfOutcome
    <3>2. CASE UNCHANGED status
      BY <1>0, <3>2 DEF status
    <3>3. CASE final_rc' = WorseStatus(final_rc, RcOf[o])
      BY <1>0, <3>1, <3>3, WorseIsNat
    <3> QED BY <1>10, <3>2, <3>3 DEF ReapTakes
  <2>2. settled' \in SUBSET (1 .. item)
    BY <1>10 DEF ReapTakes, RunType
  <2>3. abort_launch' \in BOOLEAN
    BY <1>10 DEF ReapTakes, RunType, status
  <2> QED BY <1>10, <2>1, <2>2, <2>3 DEF ReapTakes, RunType, input, end
<1>11. CASE ReapNothing \/ Signal \/ SignalInWait \/ (\E p \in Pids : Exit(p))
  BY <1>11 DEF ReapNothing, Signal, SignalInWait, Exit, RunType, input, status, end
<1>12. CASE UNCHANGED vars
  BY <1>12 DEF vars, RunType, input, status, end
<1> QED BY <1>1, <1>2, <1>3, <1>4, <1>5, <1>6, <1>7, <1>8, <1>9, <1>10, <1>11, <1>12 DEF Next, MainNext, Terminated

LEMMA ControlStep == RunType /\ RunControl /\ [Next]_vars => RunControl'
<1> SUFFICES ASSUME RunType, RunControl, [Next]_vars PROVE RunControl'
  OBVIOUS
<1>0. item \in Nat /\ batch \subseteq 1 .. item /\ then \in {"replace", "sink", "last"}
  BY DEF RunType
<1>1. CASE ReadReplace \/ ReadFlush \/ ReadAppend
  <2>1. item' > 0
    BY <1>0, <1>1, OneMore DEF ReadReplace, ReadFlush, ReadAppend
  <2>2. CASE ReadReplace
    BY <2>1, <2>2 DEF ReadReplace, RunControl, Launching, tab, end
  <2>3. CASE ReadFlush
    BY <2>1, <2>3 DEF ReadFlush, RunControl, Launching, tab, end
  <2>4. CASE ReadAppend
    BY <2>1, <2>4 DEF ReadAppend, RunControl, Launching, tab, end
  <2> QED BY <1>1, <2>2, <2>3, <2>4
<1>2. CASE AppendItem \/ AppendFails \/ ReadEnds
  BY <1>2 DEF AppendItem, AppendFails, ReadEnds, SinkStops, RunControl, Launching, tab, input, end
<1>3. CASE SlotFree \/ SlotGrows \/ SlotGrowFails \/ SlotWaits \/ SlotTaken
  <2>1. CASE SlotFree \/ SlotGrows \/ SlotGrowFails
    BY <2>1 DEF SlotFree, SlotGrows, SlotGrowFails, Tab!Grow, RunControl, Launching, tab, input, end
  <2>2. CASE SlotWaits \/ SlotTaken
    BY <2>2 DEF SlotWaits, SlotTaken, SinkStops, Returned, Tab!BeginWait, RunControl, Launching, tab, input, end
  <2> QED BY <1>3, <2>1, <2>2
<1>4. ASSUME NEW cannot \in BOOLEAN, SpawnChild(cannot) PROVE RunControl'
  BY <1>4 DEF SpawnChild, Tab!Spawn, RunControl, RunType, Launching, end
<1>5. CASE SpawnDeclined \/ SpawnFails
  BY <1>5 DEF SpawnDeclined, SpawnFails, RunControl, RunType, Launching, tab, input, end
<1>6. CASE Drain \/ Polled
  BY <1>6 DEF Drain, Polled, SinkStops, Returned, Tab!BeginWait, RunControl, RunType, Launching, tab, input, end
<1>7. CASE LastFlush
  <2>1. ASSUME NEW x \in batch PROVE item > 0
    <3>1. x \in 1 .. item
      BY <1>0
    <3> QED BY <1>0, <3>1
  <2> QED BY <1>7, <2>1 DEF LastFlush, RunControl, Launching, tab, input, end
<1>8. CASE EmptyFails \/ EmptySkips
  BY <1>8 DEF EmptyFails, EmptySkips, RunControl, Launching, tab, input, end
<1>9. ASSUME NEW cannot \in BOOLEAN, EmptyRuns(cannot) PROVE RunControl'
  BY <1>9 DEF EmptyRuns, Tab!Spawn, RunControl, Launching, input, end
<1>10. CASE Wait \/ Waited
  BY <1>10 DEF Wait, Waited, Returned, Tab!BeginWait, RunControl, Launching, tab, input, end
<1>11. CASE Cancel \/ CancelLoop
  BY <1>11 DEF Cancel, CancelLoop, Tab!CancelRun, Tab!CancelLoop, RunControl, Launching, input, end
<1>12. CASE Return
  BY <1>12 DEF Return, RunControl, Launching, tab, input
<1>13. ASSUME NEW p \in Pids, NEW o \in Outcomes, ReapTakes(p, o) PROVE RunControl'
  BY <1>13 DEF ReapTakes, Tab!ReapTakes, RunControl, Launching, input, end
<1>14. CASE ReapNothing \/ Signal \/ SignalInWait \/ (\E p \in Pids : Exit(p))
  BY <1>14 DEF ReapNothing, Signal, SignalInWait, Exit, Tab!ReapNothing, Tab!ReapInterrupted, Tab!Exit, RunControl,
     Launching, tab, input, end
<1>15. CASE UNCHANGED vars
  BY <1>15 DEF vars, tab, RunControl, Launching, input, end
<1> QED BY <1>1, <1>2, <1>3, <1>4, <1>5, <1>6, <1>7, <1>8, <1>9, <1>10, <1>11, <1>12, <1>13, <1>14, <1>15
        DEF Next, MainNext, Terminated

\* A status that aborts, and a command that cannot be executed, are not
\* forgotten.
LEMMA AbortingStep == TableInv /\ RunType /\ RunControl /\ Aborting /\ [Next]_vars => Aborting'
<1> SUFFICES ASSUME TableInv, RunType, RunControl, Aborting, [Next]_vars PROVE Aborting'
  OBVIOUS
<1>0. item \in Nat /\ final_rc \in Nat /\ children \in Seq(Tab!Rows) /\ Len(children) \in Nat
  BY RowFields DEF RunType, TableInv, Tab!TypeOK
<1>1. CASE ReadReplace \/ ReadFlush \/ ReadAppend
  <2>1. item' > 0
    BY <1>0, <1>1, OneMore DEF ReadReplace, ReadFlush, ReadAppend
  <2>2. UNCHANGED <<children, final_rc, abort_launch, mode>> /\ main = "read"
    BY <1>1 DEF ReadReplace, ReadFlush, ReadAppend, tab, status
  <2>3. abort_launch => mode # "batch"
    BY <2>2 DEF Aborting
  <2> QED BY <2>1, <2>2, <2>3 DEF Aborting
<1>2. CASE AppendItem \/ AppendFails \/ ReadEnds
  BY <1>2 DEF AppendItem, AppendFails, ReadEnds, SinkStops, Aborting, tab, input, status
<1>3. CASE SlotFree \/ SlotGrows \/ SlotGrowFails \/ SlotWaits \/ SlotTaken
  <2>1. UNCHANGED <<children, final_rc, abort_launch, mode, item>> /\ main \in {"slot", "taken"}
    BY <1>3 DEF SlotFree, SlotGrows, SlotGrowFails, SlotWaits, SlotTaken, Tab!Grow, Tab!BeginWait, Returned,
       tab, input, status
  <2>2. main' \in {"slot", "spawn"} => main = "slot" \/ ~abort_launch
    BY <1>3 DEF SlotFree, SlotGrows, SlotGrowFails, SlotWaits, SlotTaken, Stop, SinkStops
  <2>3. main' \in {"slot", "spawn", "taken", "last", "empty"}
    BY <1>3 DEF SlotFree, SlotGrows, SlotGrowFails, SlotWaits, SlotTaken, SinkStops
  <2> QED BY <2>1, <2>2, <2>3 DEF Aborting
<1>4. ASSUME NEW cannot \in BOOLEAN, SpawnChild(cannot) \/ EmptyRuns(cannot) PROVE Aborting'
  <2>1. /\ children' = Append(children, [pid |-> NewPid, slot |-> Tab!PickSlot(children, cap), exec_failed |-> cannot])
        /\ abort_launch' = (abort_launch \/ cannot)
        /\ final_rc' = IF cannot THEN WorseStatus(final_rc, 127) ELSE final_rc
        /\ item' = item /\ mode' = mode
    BY <1>4 DEF SpawnChild, EmptyRuns, Tab!Spawn, input
  <2>2. /\ Len(children') = Len(children) + 1
        /\ \A i \in 1 .. Len(children') : children'[i].exec_failed =>
             cannot \/ (i \in 1 .. Len(children) /\ children[i].exec_failed)
    BY <1>0, <2>1
  <2>3. final_rc > 0 \/ cannot => final_rc' > 0
    BY <1>0, <2>1 DEF WorseStatus
  <2>4. main' \in {"drain", "wait"} /\ (main' = "drain" => item > 0)
    BY <1>4 DEF SpawnChild, EmptyRuns, RunControl, Launching
  <2> QED BY <2>1, <2>2, <2>3, <2>4 DEF Aborting
<1>5. CASE SpawnDeclined \/ SpawnFails
  BY <1>5 DEF SpawnDeclined, SpawnFails, Aborting, tab, input, status
<1>6. CASE Drain
  BY <1>6 DEF Drain, Tab!BeginWait, Aborting, tab, input, status
<1>7. CASE Polled
  BY <1>7 DEF Polled, Returned, Stop, SinkStops, RunControl, RunType, Launching, Aborting, tab, input, status
<1>8. CASE LastFlush \/ EmptyFails \/ EmptySkips
  BY <1>8 DEF LastFlush, EmptyFails, EmptySkips, Stop, Aborting, tab, input, status
<1>9. CASE Wait \/ Waited
  BY <1>9 DEF Wait, Waited, Returned, Tab!BeginWait, Aborting, tab, input, status
<1>10. CASE Cancel \/ CancelLoop \/ Return
  BY <1>10 DEF Cancel, CancelLoop, Return, Tab!CancelRun, Tab!CancelLoop, Aborting, tab, input, status
<1>11. ASSUME NEW p \in Pids, NEW o \in Outcomes, ReapTakes(p, o) PROVE Aborting'
  <2>1. \A i \in 1 .. Len(children') : \E j \in 1 .. Len(children) : children'[i] = children[j]
    BY <1>11, ReapKeepsTable DEF ReapTakes
  <2>2. main \in {"taken", "polled", "waited", "cancel"} /\ item' = item /\ mode' = mode /\ main' = main
    BY <1>11 DEF ReapTakes, Tab!ReapTakes, RunControl, input
  <2>3. \/ UNCHANGED <<abort_launch, final_rc>>
        \/ /\ final_rc' = WorseStatus(final_rc, RcOf[o])
           /\ abort_launch' = (abort_launch \/ o = "abort")
    BY <1>11 DEF ReapTakes, status
  <2>4. RcOf["abort"] = 124 /\ RcOf[o] \in Nat
    BY RcOfOutcome DEF RcOf
  <2>5. (final_rc > 0 => final_rc' > 0) /\ (abort_launch' => abort_launch \/ final_rc' > 0)
    <3>1. final_rc > 0 => final_rc' > 0
      BY <1>0, <2>3, <2>4 DEF WorseStatus
    <3>2. ASSUME abort_launch', ~abort_launch PROVE final_rc' > 0
      <4>1. o = "abort" /\ final_rc' = WorseStatus(final_rc, 124)
        BY <2>3, <2>4, <3>2
      <4> QED BY <1>0, <4>1 DEF WorseStatus
    <3> QED BY <3>1, <3>2
  <2>6. \A i \in 1 .. Len(children') : children'[i].exec_failed => final_rc > 0
    BY <2>1 DEF Aborting
  <2>7. main \in {"taken", "polled"} => item > 0
    BY DEF RunControl, Launching
  <2> QED BY <2>2, <2>5, <2>6, <2>7 DEF Aborting
<1>12. CASE ReapNothing \/ Signal \/ SignalInWait \/ (\E p \in Pids : Exit(p))
  BY <1>12 DEF ReapNothing, Signal, SignalInWait, Exit, Tab!ReapNothing, Tab!ReapInterrupted, Tab!Exit, Aborting,
     tab, input, status
<1>13. CASE UNCHANGED vars
  BY <1>13 DEF vars, tab, Aborting, input, status
<1> QED BY <1>1, <1>2, <1>3, <1>4, <1>5, <1>6, <1>7, <1>8, <1>9, <1>10, <1>11, <1>12, <1>13
        DEF Next, MainNext, Terminated

\* The items of a new command have a row, and those of the others keep theirs.
LEMMA SpawnedRuns ==
    ASSUME TableInv, RunType, NEW p \in Pids, NEW cannot \in BOOLEAN, Tab!Spawn(p, cannot), NEW items,
           args' = [args EXCEPT ![p] = items]
    PROVE  \A x : (Running(x) => Running(x)') /\ (x \in items => Running(x)')
<1>1. /\ children \in Seq(Tab!Rows) /\ Len(children) \in Nat /\ proc[p] = "unborn"
      /\ \E s : children' = Append(children, [pid |-> p, slot |-> s, exec_failed |-> cannot])
      /\ args \in [Pids -> SUBSET (1 .. item)]
  BY RowFields DEF TableInv, Tab!TypeOK, Tab!Spawn, RunType
<1>2. /\ Len(children') = Len(children) + 1 /\ children'[Len(children) + 1].pid = p
      /\ \A i \in 1 .. Len(children) : children'[i] = children[i]
  BY <1>1
<1>3. \A i \in 1 .. Len(children) : children[i].pid \in Pids /\ children[i].pid # p
  BY <1>1, RowFields DEF TableInv
<1>4. args'[p] = items /\ \A q \in Pids : q # p => args'[q] = args[q]
  BY <1>1
<1> SUFFICES ASSUME NEW x PROVE (Running(x) => Running(x)') /\ (x \in items => Running(x)')
  OBVIOUS
<1>5. ASSUME Running(x) PROVE Running(x)'
  <2>1. PICK i \in 1 .. Len(children) : x \in args[children[i].pid]
    BY <1>5 DEF Running
  <2>2. i \in 1 .. Len(children') /\ x \in args'[children'[i].pid]
    BY <1>1, <1>2, <1>3, <1>4, <2>1
  <2> QED BY <2>2 DEF Running
<1>6. ASSUME x \in items PROVE Running(x)'
  <2>1. Len(children) + 1 \in 1 .. Len(children')
    BY <1>1, <1>2
  <2> QED BY <1>2, <1>4, <1>6, <2>1 DEF Running
<1> QED BY <1>5, <1>6

\* After a step that keeps the commands and what is settled, an item can only
\* get out of hand or out of the batch.
LEMMA KeptItems ==
    ASSUME NothingDropped, UNCHANGED <<children, args, settled, item>>, Trouble => Trouble',
           ~Trouble' => batch \cup InHand \subseteq batch' \cup InHand',
           ~Trouble' /\ main' \in {"empty", "wait", "waited", "end"} => batch' = {},
           ~Trouble' /\ main' = "end" => Len(children) = 0
    PROVE  NothingDropped'
<1> SUFFICES ASSUME ~Trouble'
             PROVE  \A x \in 1 .. item' : x \in settled' \cup batch' \cup InHand' \/ Running(x)'
  BY DEF NothingDropped
<1>1. \A x : Running(x) => Running(x)'
  BY DEF Running
<1> QED BY <1>1 DEF NothingDropped

LEMMA DroppedReads ==
    ASSUME TableInv, RunType, RunControl, NothingDropped, ReadReplace \/ ReadFlush \/ ReadAppend
    PROVE  NothingDropped'
<1>1. /\ item \in Nat /\ item' = item + 1 /\ UNCHANGED <<children, args, settled, batch>>
      /\ UNCHANGED <<final_rc, read_ok, failed, interrupt>>
      /\ main = "read" /\ main' \in {"slot", "append"} /\ (main' = "slot" => then' # "last")
  BY DEF ReadReplace, ReadFlush, ReadAppend, RunType, tab, status, end
<1>2. InHand = {} /\ InHand' = {item'}
  BY <1>1 DEF InHand
<1>3. 1 .. item' = (1 .. item) \cup {item'}
  BY <1>1, OneMore
<1>4. \A x : Running(x) => Running(x)'
  BY <1>1 DEF Running
<1>5. Trouble' <=> Trouble
  BY <1>1 DEF Trouble
<1>6. main' \notin {"empty", "wait", "waited", "end"}
  BY <1>1
<1> QED BY <1>1, <1>2, <1>3, <1>4, <1>5, <1>6 DEF NothingDropped

LEMMA DroppedLaunch ==
    ASSUME TableInv, RunType, RunControl, NothingDropped, NEW cannot \in BOOLEAN, SpawnChild(cannot)
    PROVE  NothingDropped'
<1> SUFFICES ASSUME ~Trouble' PROVE NothingDropped'
  BY DEF NothingDropped
<1>1. /\ item' = item /\ settled' = settled /\ main = "spawn" /\ main' = "drain" /\ then' = then
      /\ args' = [args EXCEPT ![NewPid] = Given] /\ Tab!Spawn(NewPid, cannot) /\ NewPid \in Pids
      /\ batch' = IF then = "replace" THEN batch ELSE {}
      /\ UNCHANGED <<read_ok, failed, interrupt>>
  BY NewPidIsUnborn DEF SpawnChild, end
<1>2. ~Trouble
  BY <1>1 DEF SpawnChild, WorseStatus, Trouble, RunType
<1>3. \A x : (Running(x) => Running(x)') /\ (x \in Given => Running(x)')
  BY <1>1, SpawnedRuns
<1>4. then \in {"replace", "sink", "last"}
  BY DEF RunType
<1>5. batch \cup InHand \subseteq Given \cup batch' \cup InHand'
  BY <1>1, <1>4 DEF InHand, Given
<1> QED BY <1>1, <1>2, <1>3, <1>5 DEF NothingDropped

LEMMA DroppedReap ==
    ASSUME TableInv, RunType, RunControl, Aborting, NothingDropped, NEW p \in Pids, NEW o \in Outcomes, ReapTakes(p, o)
    PROVE  NothingDropped'
<1> SUFFICES ASSUME ~Trouble' PROVE NothingDropped'
  BY DEF NothingDropped
<1>1. /\ UNCHANGED <<item, batch, main, then, args, read_ok, failed, interrupt>> /\ Tab!ReapTakes(p)
      /\ call # "none"
  BY DEF ReapTakes, Tab!ReapTakes, input, end
<1>2. main \in {"taken", "polled", "waited", "cancel"}
  BY <1>1 DEF RunControl
<1>3. \A j \in 1 .. Len(children) : children[j].pid # p => \E i \in 1 .. Len(children') : children'[i] = children[j]
  BY <1>1, ReapKeepsTable
<1>4. CASE main = "cancel"
  BY <1>1, <1>4 DEF RunControl, Trouble
<1>5. CASE main # "cancel"
  <2> DEFINE known == \E i \in 1 .. Len(children) : children[i].pid = p /\ children[i].exec_failed
  <2>1. CASE known
    <3>1. final_rc' = final_rc
      BY <2>1 DEF ReapTakes, status
    <3>2. final_rc > 0
      BY <2>1 DEF Aborting
    <3> QED BY <3>1, <3>2 DEF Trouble
  <2>2. CASE ~known
    <3>1. /\ final_rc' = WorseStatus(final_rc, RcOf[o])
          /\ settled' = IF o = "ok" THEN settled \cup args[p] ELSE settled
      BY <1>5, <2>2 DEF ReapTakes
    <3>2. final_rc = 0 /\ o = "ok"
      <4>1. final_rc \in Nat /\ RcOf[o] \in Nat /\ final_rc' = 0
        <5>1. final_rc \in Nat /\ RcOf[o] \in Nat
          BY RcOfOutcome DEF RunType
        <5>2. final_rc' \in Nat
          BY <3>1, <5>1, WorseIsNat
        <5> QED BY <5>1, <5>2 DEF Trouble
      <4> QED BY <3>1, <4>1, WorseIsNat, RcOfOutcome
    <3>3. settled' = settled \cup args[p] /\ ~Trouble
      BY <1>1, <3>1, <3>2 DEF Trouble
    <3>4. \A x : Running(x) => x \in settled' \/ Running(x)'
      <4> SUFFICES ASSUME NEW x, Running(x), x \notin args[p] PROVE Running(x)'
        BY <3>3
      <4>1. PICK j \in 1 .. Len(children) : x \in args[children[j].pid]
        BY DEF Running
      <4>2. PICK i \in 1 .. Len(children') : children'[i] = children[j]
        BY <1>3, <4>1
      <4> QED BY <1>1, <4>1, <4>2 DEF Running
    <3>5. InHand' = InHand
      BY <1>1 DEF InHand
    <3> QED BY <1>1, <1>2, <3>3, <3>4, <3>5 DEF NothingDropped
  <2> QED BY <2>1, <2>2
<1> QED BY <1>4, <1>5

LEMMA DroppedStep ==
    TableInv /\ RunType /\ RunControl /\ Aborting /\ NothingDropped /\ [Next]_vars => NothingDropped'
<1> SUFFICES ASSUME TableInv, RunType, RunControl, Aborting, NothingDropped, [Next]_vars PROVE NothingDropped'
  OBVIOUS
<1>0. then \in {"replace", "sink", "last"}
  BY DEF RunType
<1>1. CASE ReadReplace \/ ReadFlush \/ ReadAppend
  BY <1>1, DroppedReads
<1>2. CASE AppendItem
  <2>1. /\ UNCHANGED <<children, args, settled, item, final_rc, read_ok, failed, interrupt>>
        /\ batch' = batch \cup {item} /\ main = "append" /\ main' = "read"
    BY <1>2 DEF AppendItem, tab, status, end
  <2> QED BY <2>1, KeptItems DEF Trouble, InHand
<1>3. CASE AppendFails \/ SlotGrowFails \/ SpawnFails
  <2>1. failed'
    BY <1>3 DEF AppendFails, SlotGrowFails, SpawnFails
  <2> QED BY <2>1 DEF NothingDropped, Trouble
<1>4. CASE ReadEnds
  <2>1. /\ UNCHANGED <<children, args, settled, item, batch, final_rc, failed, interrupt>>
        /\ main = "read" /\ main' = "last"
    BY <1>4 DEF ReadEnds, tab, input, status
  <2>2. InHand = {}
    BY <2>1 DEF InHand
  <2>3. read_ok
    BY <2>1 DEF RunControl
  <2> QED BY <2>1, <2>2, <2>3, KeptItems DEF Trouble
<1>5. CASE SlotFree \/ SlotGrows \/ SlotWaits
  <2>1. /\ UNCHANGED <<children, args, settled, item, batch, then, final_rc, read_ok, failed, interrupt>>
        /\ main = "slot" /\ main' \in {"spawn", "taken"}
    BY <1>5 DEF SlotFree, SlotGrows, SlotWaits, Tab!Grow, Tab!BeginWait, tab, input, status, end
  <2>2. InHand' = InHand
    BY <2>1 DEF InHand
  <2> QED BY <2>1, <2>2, KeptItems DEF Trouble
<1>6. CASE SlotTaken
  <2>1. CASE Stop
    <3>1. interrupt \/ final_rc > 0
      BY <2>1 DEF Stop, Aborting
    <3>2. UNCHANGED <<interrupt, final_rc>>
      BY <1>6 DEF SlotTaken, status
    <3> QED BY <3>1, <3>2 DEF NothingDropped, Trouble
  <2>2. CASE ~Stop
    <3>1. /\ UNCHANGED <<children, args, settled, item, batch, then, final_rc, read_ok, failed, interrupt>>
          /\ main = "taken" /\ main' = "slot"
      BY <1>6, <2>2 DEF SlotTaken, Returned, tab, input, status, end
    <3>2. InHand' = InHand
      BY <3>1 DEF InHand
    <3> QED BY <3>1, <3>2, KeptItems DEF Trouble
  <2> QED BY <2>1, <2>2
<1>7. ASSUME NEW cannot \in BOOLEAN, SpawnChild(cannot) PROVE NothingDropped'
  BY <1>7, DroppedLaunch
<1>8. CASE SpawnDeclined
  <2>1. /\ UNCHANGED <<children, args, item, then, final_rc, read_ok, failed, interrupt>>
        /\ main = "spawn" /\ main' = "drain" /\ settled' = settled \cup Given
        /\ batch' = IF then = "replace" THEN batch ELSE {}
    BY <1>8 DEF SpawnDeclined, tab, status, end
  <2>2. batch \cup InHand \subseteq Given \cup batch' \cup InHand'
    BY <1>0, <2>1 DEF InHand, Given
  <2>3. \A x : Running(x) => Running(x)'
    BY <2>1 DEF Running
  <2>4. Trouble' <=> Trouble
    BY <2>1 DEF Trouble
  <2> QED BY <2>1, <2>2, <2>3, <2>4 DEF NothingDropped
<1>9. CASE Drain
  <2>1. /\ UNCHANGED <<children, args, settled, item, batch, then, final_rc, read_ok, failed, interrupt>>
        /\ main = "drain" /\ main' = "polled"
    BY <1>9 DEF Drain, Tab!BeginWait, tab, input, status, end
  <2>2. InHand' = InHand
    BY <2>1 DEF InHand
  <2> QED BY <2>1, <2>2, KeptItems DEF Trouble
<1>10. CASE Polled
  <2>1. CASE then = "sink" /\ Stop
    <3>1. interrupt \/ final_rc > 0
      BY <2>1 DEF Stop, Aborting
    <3>2. UNCHANGED <<interrupt, final_rc>>
      BY <1>10 DEF Polled, status
    <3> QED BY <3>1, <3>2 DEF NothingDropped, Trouble
  <2>2. CASE ~(then = "sink" /\ Stop)
    <3>1. /\ UNCHANGED <<children, args, settled, item, batch, then, final_rc, read_ok, failed, interrupt>>
          /\ main = "polled" /\ batch = {}
          /\ \/ then = "replace" /\ main' = "read"
             \/ then = "sink" /\ main' = "append"
             \/ then = "last" /\ main' = "empty"
      BY <1>0, <1>10, <2>2 DEF Polled, Returned, RunControl, tab, input, status, end
    <3>2. InHand' = InHand
      BY <3>1 DEF InHand
    <3> QED BY <3>1, <3>2, KeptItems DEF Trouble
  <2> QED BY <2>1, <2>2
<1>11. CASE LastFlush
  <2>1. /\ UNCHANGED <<children, args, settled, item, batch, final_rc, failed, interrupt, abort_launch>>
        /\ read_ok' = (read_ok \/ (~failed /\ Stop)) /\ then' = "last" /\ main = "last"
        /\ main' = IF read_ok' /\ batch # {} /\ ~Stop THEN "slot" ELSE "empty"
    BY <1>11 DEF LastFlush, tab, input, status
  <2>2. InHand = {} /\ InHand' = {}
    BY <2>1 DEF InHand
  <2>3. Stop => Trouble /\ Trouble'
    BY <2>1 DEF Stop, Trouble, Aborting
  <2>4. Trouble => Trouble'
    BY <2>1, <2>3 DEF Trouble, RunType
  <2>5. ~Trouble' /\ main' = "empty" => batch' = {}
    BY <2>1, <2>3 DEF Trouble
  <2>6. main' \in {"slot", "empty"}
    BY <2>1
  <2> QED BY <2>1, <2>2, <2>4, <2>5, <2>6, KeptItems
<1>12. CASE EmptyFails
  BY <1>12 DEF EmptyFails, NothingDropped, Trouble
<1>13. CASE EmptySkips
  <2>1. /\ UNCHANGED <<children, args, settled, item, batch, final_rc, read_ok, failed, interrupt>>
        /\ main = "empty" /\ main' = "wait"
    BY <1>13 DEF EmptySkips, tab, input, status, end
  <2>2. InHand = {} /\ (~Trouble => batch = {})
    BY <2>1 DEF InHand, NothingDropped
  <2> QED BY <2>1, <2>2, KeptItems DEF Trouble
<1>14. ASSUME NEW cannot \in BOOLEAN, EmptyRuns(cannot) PROVE NothingDropped'
  <2>1. item' = 0 /\ UNCHANGED <<batch, read_ok, failed, interrupt>> /\ main = "empty" /\ main' = "wait"
    BY <1>14 DEF EmptyRuns, input, end
  <2>2. ~Trouble' => ~Trouble
    BY <1>14, <2>1 DEF EmptyRuns, WorseStatus, Trouble, RunType
  <2> QED BY <2>1, <2>2 DEF NothingDropped
<1>15. CASE Wait
  <2>1. /\ UNCHANGED <<children, args, settled, item, batch, final_rc, read_ok, failed, interrupt>>
        /\ main = "wait" /\ main' \in {"waited", "end"}
        /\ main' = "end" => ~(read_ok /\ Len(children) > 0 /\ ~interrupt)
    BY <1>15 DEF Wait, Tab!BeginWait, tab, input, status, end
  <2>2. Len(children) \in Nat
    BY RowFields DEF TableInv, Tab!TypeOK
  <2>3. InHand = {} /\ (~Trouble => batch = {})
    BY <2>1 DEF InHand, NothingDropped
  <2>4. ~Trouble' /\ main' = "end" => Len(children) = 0
    BY <2>1, <2>2 DEF Trouble
  <2> QED BY <2>1, <2>3, <2>4, KeptItems DEF Trouble
<1>16. CASE Waited
  <2>1. /\ UNCHANGED <<children, args, settled, item, batch, final_rc, read_ok, failed, interrupt>>
        /\ main = "waited" /\ main' = "wait"
    BY <1>16 DEF Waited, Returned, tab, input, status, end
  <2>2. InHand = {} /\ (~Trouble => batch = {})
    BY <2>1 DEF InHand, NothingDropped
  <2> QED BY <2>1, <2>2, KeptItems DEF Trouble
<1>17. CASE Cancel \/ CancelLoop
  <2>1. interrupt'
    BY <1>17 DEF Cancel, CancelLoop, RunControl
  <2> QED BY <2>1 DEF NothingDropped, Trouble
<1>18. CASE Return
  <2>1. /\ UNCHANGED <<children, args, settled, item, batch, final_rc, read_ok, failed, interrupt>>
        /\ main = "end" /\ main' = "done"
    BY <1>18 DEF Return, tab, input, status
  <2>2. InHand = {}
    BY <2>1 DEF InHand
  <2> QED BY <2>1, <2>2, KeptItems DEF Trouble
<1>19. ASSUME NEW p \in Pids, NEW o \in Outcomes, ReapTakes(p, o) PROVE NothingDropped'
  BY <1>19, DroppedReap
<1>20. CASE Signal \/ SignalInWait
  BY <1>20 DEF Signal, SignalInWait, NothingDropped, Trouble
<1>21. CASE ReapNothing \/ (\E p \in Pids : Exit(p)) \/ UNCHANGED vars
  <2>1. UNCHANGED <<children, args, settled, item, batch, main, then, final_rc, read_ok, failed, interrupt>>
    BY <1>21 DEF ReapNothing, Exit, Tab!ReapNothing, Tab!Exit, vars, tab, input, status, end
  <2>2. InHand' = InHand
    BY <2>1 DEF InHand
  <2>3. ~Trouble =>
          /\ main \in {"empty", "wait", "waited", "end"} => batch = {}
          /\ main = "end" => Len(children) = 0
    BY DEF NothingDropped
  <2> QED BY <2>1, <2>2, <2>3, KeptItems DEF Trouble
<1> QED BY <1>1, <1>2, <1>3, <1>4, <1>5, <1>6, <1>7, <1>8, <1>9, <1>10, <1>11, <1>12, <1>13, <1>14, <1>15,
           <1>16, <1>17, <1>18, <1>19, <1>20, <1>21 DEF Next, MainNext, Terminated

LEMMA SuccessStep ==
    TableInv /\ RunType /\ RunControl /\ NothingDropped /\ SuccessIsComplete /\ [Next]_vars => SuccessIsComplete'
<1> SUFFICES ASSUME TableInv, RunType, RunControl, NothingDropped, SuccessIsComplete, [Next]_vars,
                    main' = "done", rc' = 0
             PROVE  settled' = 1 .. item' /\ Len(children)' = 0
  BY DEF SuccessIsComplete
<1>1. CASE main = "done"
  <2>1. call = "none"
    BY <1>1 DEF RunControl
  <2>2. UNCHANGED <<children, settled, item, rc>>
    BY <1>1, <2>1 DEF Next, MainNext, Terminated, ReadReplace, ReadFlush, ReadAppend, AppendItem, AppendFails, ReadEnds,
       SlotFree, SlotGrows, SlotGrowFails, SlotWaits, SlotTaken, SpawnChild, SpawnDeclined, SpawnFails, Drain, Polled,
       LastFlush, EmptyRuns, EmptyFails, EmptySkips, Wait, Waited, Cancel, CancelLoop, Return, ReapTakes, ReapNothing,
       Signal, SignalInWait, Exit, Returned, Tab!ReapTakes, Tab!ReapNothing, Tab!ReapInterrupted, Tab!Exit,
       vars, tab, input, end
  <2> QED BY <1>1, <2>2 DEF SuccessIsComplete
<1>2. CASE main # "done"
  <2>1. Return \/ CancelLoop
    <3>1. CASE ReadReplace \/ ReadFlush \/ ReadAppend \/ AppendItem \/ AppendFails \/ ReadEnds \/ SlotFree
               \/ SlotGrows \/ SlotGrowFails \/ SlotWaits \/ SlotTaken
      BY <3>1 DEF ReadReplace, ReadFlush, ReadAppend, AppendItem, AppendFails, ReadEnds, SlotFree, SlotGrows,
         SlotGrowFails, SlotWaits, SlotTaken, SinkStops
    <3>2. CASE Polled
      BY <3>2 DEF Polled, SinkStops, RunType
    <3>3. CASE \/ \E cannot \in BOOLEAN : SpawnChild(cannot) \/ EmptyRuns(cannot)
               \/ SpawnDeclined \/ SpawnFails \/ Drain \/ LastFlush \/ EmptyFails \/ EmptySkips \/ Wait \/ Waited
               \/ Cancel
      BY <3>3 DEF SpawnChild, EmptyRuns, SpawnDeclined, SpawnFails, Drain, LastFlush, EmptyFails, EmptySkips, Wait,
         Waited, Cancel
    <3>4. CASE \/ \E p \in Pids, o \in Outcomes : ReapTakes(p, o)
               \/ ReapNothing \/ Signal \/ SignalInWait \/ (\E p \in Pids : Exit(p)) \/ UNCHANGED vars
      BY <1>2, <3>4 DEF ReapTakes, ReapNothing, Signal, SignalInWait, Exit, vars
    <3> QED BY <3>1, <3>2, <3>3, <3>4 DEF Next, MainNext, Terminated
  <2>2. CASE CancelLoop
    BY <2>2 DEF CancelLoop, RunControl, end
  <2>3. CASE Return
    <3>1. UNCHANGED <<children, settled, item>> /\ main = "end" /\ ~Trouble
      BY <2>3 DEF Return, Trouble, RunType, tab, input
    <3>2. batch = {} /\ InHand = {} /\ Len(children) = 0
      BY <3>1 DEF NothingDropped, InHand
    <3>3. \A x : ~Running(x)
      BY <3>2 DEF Running
    <3>4. 1 .. item \subseteq settled
      BY <3>1, <3>2, <3>3 DEF NothingDropped
    <3> QED BY <3>1, <3>2, <3>4 DEF RunType
  <2> QED BY <2>1, <2>2, <2>3
<1> QED BY <1>1, <1>2

LEMMA RunInitInv == Init => RunInv
<1> SUFFICES ASSUME Init PROVE RunInv
  OBVIOUS
<1>1. TableInv
  BY TableInitInv DEF Init
<1>2. max_procs \in Nat /\ mode \in {"replace", "batch"}
  BY XargsAssumption DEF Init
<1>3. RunType
  BY <1>2 DEF Init, RunType, MainStates
<1>4. RunControl
  BY DEF Init, RunControl, Launching, Tab!Init
<1>5. Len(children) = 0
  BY DEF Init, Tab!Init
<1>6. Aborting
  BY <1>5 DEF Init, Aborting
<1>7. NothingDropped /\ SuccessIsComplete
  BY DEF Init, NothingDropped, SuccessIsComplete
<1> QED BY <1>1, <1>3, <1>4, <1>6, <1>7 DEF RunInv

\* No step of xargs, of a child or of a signal leaves the invariant.
THEOREM RunInvInductive == ~AutoReap => (Spec => []RunInv)
<1> SUFFICES ASSUME ~AutoReap PROVE Spec => []RunInv
  OBVIOUS
<1>1. RunInv /\ [Next]_vars => RunInv'
  BY TableOfXargs, TypeStep, ControlStep, AbortingStep, DroppedStep, SuccessStep DEF RunInv
<1> QED BY <1>1, RunInitInv, PTL DEF Spec

\* xargs returns 0 only if every item it read went to a command that ended
\* with 0, or was declined, and every child is reaped: for any number of items,
\* any -P and -n, with and without -I, and whichever children end first.
THEOREM XargsSuccessIsComplete == ~AutoReap => (Spec => []SuccessIsComplete)
<1> SUFFICES ASSUME ~AutoReap PROVE Spec => []SuccessIsComplete
  OBVIOUS
<1> QED BY RunInvInductive, PTL DEF RunInv

\* The table is in order whatever xargs does with it.
THEOREM XargsTableOK == ~AutoReap => (Spec => []TableOK)
<1> SUFFICES ASSUME ~AutoReap PROVE Spec => []TableOK
  OBVIOUS
<1>1. RunInv => TableOK
  BY TableInvImpliesOK DEF RunInv, TableOK
<1> QED BY <1>1, RunInvInductive, PTL

\* xargs keeps the rules of bx_child_spawn_argv and of a cancelled run, and in
\* batch mode it starts nothing after a status that aborts.
THEOREM XargsTableUse == ~AutoReap => (Spec => TableUse)
<1> SUFFICES ASSUME ~AutoReap PROVE Spec => TableUse
  OBVIOUS
<1>1. Init => Tab!Init
  BY DEF Init
<1>2. [Next]_vars => [Tab!Next]_(Tab!vars)
  BY ClientStep DEF vars, tab, Tab!vars
<1>3. RunInv /\ [Next]_vars => [mode = "batch" /\ abort_launch => ~Launches]_vars
  <2> SUFFICES ASSUME RunInv, Next, mode = "batch", abort_launch, Launches PROVE FALSE
    OBVIOUS
  <2>0. PICK q \in Pids : proc[q] = "unborn" /\ proc'[q] = "runs"
    BY DEF Launches
  <2>1. proc \in [Pids -> {"unborn", "runs", "zombie", "gone"}]
    BY DEF RunInv, TableInv, Tab!TypeOK
  <2>2. ASSUME NEW p \in Pids, Tab!ReapTakes(p) PROVE FALSE
    BY <2>0, <2>1, <2>2 DEF Tab!ReapTakes, Tab!Zombies
  <2>3. ASSUME NEW p \in Pids, Tab!Exit(p) PROVE FALSE
    BY <2>0, <2>1, <2>3 DEF Tab!Exit
  <2>4. ASSUME NEW cannot \in BOOLEAN, SpawnChild(cannot) PROVE FALSE
    BY <2>4 DEF SpawnChild, RunInv, Aborting
  <2>5. ASSUME NEW cannot \in BOOLEAN, EmptyRuns(cannot) PROVE FALSE
    BY <2>5 DEF EmptyRuns, RunInv, Aborting
  <2>6. CASE UNCHANGED proc
    BY <2>0, <2>6
  <2> QED BY <2>2, <2>3, <2>4, <2>5, <2>6 DEF Next, MainNext, Terminated, ReadReplace, ReadFlush, ReadAppend, AppendItem,
       AppendFails, ReadEnds, SlotFree, SlotGrows, SlotGrowFails, SlotWaits, SlotTaken, SpawnDeclined, SpawnFails, Drain,
       Polled, LastFlush, EmptyFails, EmptySkips, Wait, Waited, Cancel, CancelLoop, Return, ReapTakes, ReapNothing,
       Signal, SignalInWait, Exit, Tab!Grow, Tab!BeginWait, Tab!CancelRun, Tab!CancelLoop, Tab!ReapNothing,
       Tab!ReapInterrupted, vars, tab
<1> QED BY <1>1, <1>2, <1>3, RunInvInductive, PTL DEF Spec, TableUse, Tab!Spec


-----------------------------------------------------------------------------
(* Timeout. *)

\* The timer of SIGKILL and the time since it was first armed run in step: until
\* SIGKILL is sent they make up kill_after together, or the time is long enough.
\* Only a request for SIGKILL sends it without the timer.
GraceInv ==
    /\ since \in 0 .. KillAfter /\ killLeft \in 0 .. KillAfter
    /\ pending \in Signals \cup {"none"}
    /\ armed => since + killLeft >= KillAfter

LEMMA GraceInvInit == TimeoutInit => GraceInv
BY TimeoutAssumption DEF TimeoutInit, GraceInv, Signals

LEMMA GraceInvStep == GraceInv /\ [TimeoutNext]_timeoutVars => GraceInv'
<1> SUFFICES ASSUME GraceInv, [TimeoutNext]_timeoutVars PROVE GraceInv'
  OBVIOUS
<1> USE TimeoutAssumption DEF GraceInv
<1>1. ASSUME Arm PROVE /\ since' \in 0 .. KillAfter /\ killLeft' \in 0 .. KillAfter
                       /\ armed' => since' + killLeft' >= KillAfter
  BY <1>1 DEF Arm
<1>2. CASE Tick
  BY <1>2 DEF Tick, AtMost, Less, flags
<1>3. ASSUME NEW s \in Signals, Arrive(s) PROVE GraceInv'
  BY <1>3 DEF Arrive, flags, time
<1>4. CASE PassOn
  <2>1. pending' \in Signals \cup {"none"}
    BY <1>4 DEF PassOn
  <2>2. CASE Arm
    BY <1>1, <2>1, <2>2
  <2>3. CASE UNCHANGED <<armed, time>>
    BY <2>1, <2>3 DEF time
  <2> QED BY <1>4, <2>2, <2>3 DEF PassOn
<1>5. CASE Deadline
  <2>1. pending' = pending
    BY <1>5 DEF Deadline
  <2>2. CASE Arm
    BY <1>1, <2>1, <2>2
  <2>3. CASE UNCHANGED <<armed, left, killLeft, since>>
    BY <2>1, <2>3
  <2> QED BY <1>5, <2>2, <2>3 DEF Deadline
<1>6. CASE Kill
  BY <1>6 DEF Kill
<1>7. CASE Reap \/ NoSignal \/ Sleep \/ ClockFails \/ ForceReap \/ CommandEnds \/ OtherEnds
  BY <1>7 DEF Reap, NoSignal, Sleep, ClockFails, ForceReap, CommandEnds, OtherEnds, flags, time
<1>8. CASE UNCHANGED timeoutVars
  BY <1>8 DEF timeoutVars, flags, time
<1> QED BY <1>2, <1>3, <1>4, <1>5, <1>6, <1>7, <1>8 DEF TimeoutNext, Monitor

\* Whatever the delays, the options and the signals timeout is sent, SIGKILL as
\* second resort comes no earlier than kill_after after the first signal.
THEOREM TimeoutGraceKept == LiveSpec => GraceKept
<1>1. GraceInv /\ [TimeoutNext]_timeoutVars
      => [kill_sent' /\ ~kill_sent /\ options.signal # "KILL" => since = KillAfter]_timeoutVars
  <2> SUFFICES ASSUME GraceInv, TimeoutNext, kill_sent', ~kill_sent, options.signal # "KILL"
               PROVE since = KillAfter
    OBVIOUS
  <2>1. CASE PassOn
    BY <2>1 DEF PassOn, GraceInv, Signals
  <2>2. CASE Deadline
    BY <2>2 DEF Deadline
  <2>3. CASE Kill
    BY <2>3, TimeoutAssumption DEF Kill, KillDue, GraceInv
  <2>4. CASE UNCHANGED kill_sent
    BY <2>4
  <2> QED BY <2>1, <2>2, <2>3, <2>4 DEF TimeoutNext, Monitor, Reap, NoSignal, Sleep, ForceReap, ClockFails,
       Tick, CommandEnds, OtherEnds, Arrive, flags
<1> QED BY <1>1, GraceInvInit, GraceInvStep, PTL DEF LiveSpec, TimeoutSpec, GraceKept

=============================================================================
