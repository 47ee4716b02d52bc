---------------------------- MODULE RgSchedProofs -----------------------------
(***************************************************************************)
(* Proofs about RgSched, for every number of threads and every forest.     *)
(*                                                                         *)
(* An unvisited item has at most one holder: a worker that will walk it,   *)
(* or a queued item it is below.  That each item is walked at most once    *)
(* follows (Holders); that none is left out unless something failed is     *)
(* the other half (NothingLost).  The counters count the holders, and      *)
(* sleep and shutdown go by the counters.                                  *)
(***************************************************************************)
EXTENDS RgSched, FiniteSetTheorems, TLAPS

\* The worker is in the walk of hand[w] and may go on to what is in todo[w].
Walking(w) == pc[w] \in {"walk", "donate"} \/ (pc[w] = "cancel" /\ after[w] = "walk")

\* The worker has taken d upon itself.
Owns(w, d) ==
    \/ pc[w] = "claim" /\ d \in Below[hand[w]]
    \/ Walking(w) /\ \E k \in todo[w] : d \in Below[k]
    \/ pc[w] = "donate" /\ d \in Below[kid[w]]

\* d waits in a slot, in or below the item at position i.
Queued(v, i, d) == i \in 1 .. Len(slots[v]) /\ d \in Below[slots[v][i]]
InQueue(v, d) == \E i \in 1 .. Len(slots[v]) : d \in Below[slots[v][i]]

\* Where the threads are, and what a request for cancellation presupposes.
Untouched ==
    /\ started = 0 /\ slots = [w \in Workers |-> <<>>]
    /\ pending_work = 0 /\ active_workers = 0 /\ idle_workers = 0
    /\ ~shutdown /\ ~fatal_error /\ cancel = {}
    /\ visits = [d \in Items |-> 0]
Control ==
    /\ \A w \in Workers : pc[w] = "none" <=> w >= started
    /\ \A w \in Workers : pc[w] = "scan" => offset[w] < NumThreads
    /\ main = "seed" => Untouched
    /\ main = "create" => started < NumThreads
    /\ main \in {"report", "done"} => \A w \in Workers : pc[w] \in {"gone", "none"}
    /\ Requested \/ main = "cancel" \/ (\E w \in Workers : pc[w] = "cancel") => fatal_error
    /\ fatal_error => shutdown
    /\ shutdown => fatal_error \/ started > 0
    /\ main = "done" /\ fatal_error => exit_status = 2

Holders ==
    /\ \A w \in Workers : Walking(w) => todo[w] \subseteq Kids[hand[w]]
    /\ \A w \in Workers : pc[w] = "donate" => kid[w] \in Kids[hand[w]] \ todo[w]
    /\ \A v, w \in Workers, d \in Items : v # w => ~(Owns(v, d) /\ Owns(w, d))
    /\ \A v, w \in Workers, d \in Items : Owns(v, d) => ~InQueue(w, d)
    /\ \A v, w \in Workers, i, j \in Nat, d \in Items : Queued(v, i, d) /\ Queued(w, j, d) => v = w /\ i = j
    /\ \A w \in Workers, d \in Items : Owns(w, d) \/ InQueue(w, d) => visits[d] = 0
    /\ WalkedOnce

\* A walk that will end in an error.
Failing(w) == pc[w] \in {"walk", "donate", "publish"} /\ "error" \in flags[w]

NothingLost ==
    (main = "create" \/ started > 0) /\ main # "done" /\ ~fatal_error /\ exit_status # 2 =>
        \/ \E w \in Workers : Failing(w)
        \/ \A d \in Items : visits[d] = 1 \/ \E w \in Workers : Owns(w, d) \/ InQueue(w, d)

SchedInv ==
    CountersAgree /\ Control /\ Holders /\ SleepAndShutdown /\ NothingLost /\ SuccessIsComplete

-----------------------------------------------------------------------------
(* The parameters, and what a step of one worker leaves to the others. *)

LEMMA Parameters ==
    /\ NumThreads \in Nat \ {0} /\ AnItem \in Items
    /\ Kids \in [Items -> SUBSET Items] /\ Below \in [Items -> SUBSET Items]
    /\ IsFiniteSet(Items)
<1>1. Roots[1] \in Items
  BY ForestAssumption
<1> QED BY <1>1, ForestAssumption DEF AnItem

LEMMA WakeEffect ==
    ASSUME NEW p \in [Workers -> WorkerStates]
    PROVE  /\ WakeAll(p) \in [Workers -> WorkerStates]
           /\ \A v \in Workers : WakeAll(p)[v] = IF p[v] = "wait" THEN "woken" ELSE p[v]
BY DEF WakeAll, WorkerStates

\* A broadcast wakes everybody else and takes w to s.
LEMMA WakeAndGo ==
    ASSUME TypeOK, NEW w \in Workers, NEW s \in WorkerStates \ {"wait"}, pc' = WakeAll([pc EXCEPT ![w] = s])
    PROVE  /\ pc' \in [Workers -> WorkerStates] /\ pc'[w] = s
           /\ \A v \in Workers \ {w} : pc'[v] = IF pc[v] = "wait" THEN "woken" ELSE pc[v]
           /\ \A v \in Workers : pc'[v] # "wait"
<1> DEFINE p == [pc EXCEPT ![w] = s]
<1>1. p \in [Workers -> WorkerStates] /\ p[w] = s /\ \A v \in Workers \ {w} : p[v] = pc[v]
  BY DEF TypeOK
<1> HIDE DEF p
<1>2. /\ WakeAll(p) \in [Workers -> WorkerStates]
      /\ \A v \in Workers : WakeAll(p)[v] = IF p[v] = "wait" THEN "woken" ELSE p[v]
  BY <1>1, WakeEffect
<1>3. pc' = WakeAll(p)
  BY DEF p
<1>4. \A v \in Workers : pc'[v] # "wait"
  BY <1>2, <1>3
<1> QED BY <1>1, <1>2, <1>3, <1>4

-----------------------------------------------------------------------------
(* bx_rg_sched_seed_frontier: the items are dealt out like cards. *)

LEMMA DivMod ==
    ASSUME NEW n \in Nat \ {0}, NEW q \in Nat, NEW r \in 0 .. n - 1
    PROVE  (q * n + r) % n = r /\ (q * n + r) \div n = q
<1> DEFINE a == q * n + r
           x == a \div n
           y == a % n
<1>1. a \in Nat /\ x \in Int /\ y \in 0 .. n - 1 /\ a = x * n + y
  OBVIOUS
<1> HIDE DEF x, y
<1>2. (q - x) * n = y - r /\ y - r < n /\ r - y < n
  BY <1>1
<1>3. q = x
  <2>1. CASE q >= x + 1
    <3>1. (q - x) * n >= n
      BY <1>1, <2>1
    <3> QED BY <1>1, <1>2, <3>1
  <2>2. CASE q + 1 <= x
    <3>1. (x - q) * n >= n /\ (x - q) * n = r - y
      BY <1>1, <1>2, <2>2
    <3> QED BY <1>1, <1>2, <3>1
  <2> QED BY <1>1, <2>1, <2>2
<1>4. r = y
  BY <1>1, <1>3
<1> QED BY <1>3, <1>4 DEF x, y

\* How many items worker w gets, and which of Roots is its i-th.
Dealt(w) == {j \in 1 .. Len(Roots) : (j - 1) % NumThreads = w}
Deal(w, i) == (i - 1) * NumThreads + w + 1

LEMMA DealPosition ==
    ASSUME NEW w \in Workers, NEW i \in Nat \ {0}
    PROVE  Deal(w, i) \in Nat \ {0} /\ (Deal(w, i) - 1) % NumThreads = w /\ (Deal(w, i) - 1) \div NumThreads = i - 1
<1>1. NumThreads \in Nat \ {0} /\ w \in 0 .. NumThreads - 1 /\ i - 1 \in Nat
  BY Parameters DEF Workers
<1>2. (i - 1) * NumThreads \in Nat
  BY <1>1
<1>3. ((i - 1) * NumThreads + w) % NumThreads = w /\ ((i - 1) * NumThreads + w) \div NumThreads = i - 1
  BY <1>1, DivMod
<1>4. Deal(w, i) - 1 = (i - 1) * NumThreads + w
  BY <1>1, <1>2 DEF Deal
<1> QED BY <1>1, <1>2, <1>3, <1>4 DEF Deal

LEMMA DealtIsDealt ==
    ASSUME NEW j \in 1 .. Len(Roots)
    PROVE  /\ (j - 1) % NumThreads \in Workers /\ (j - 1) \div NumThreads \in Nat
           /\ Deal((j - 1) % NumThreads, (j - 1) \div NumThreads + 1) = j
<1>1. NumThreads \in Nat \ {0} /\ j - 1 \in Nat
  BY Parameters
<1>2. /\ (j - 1) % NumThreads \in 0 .. NumThreads - 1 /\ (j - 1) \div NumThreads \in Nat
      /\ j - 1 = ((j - 1) \div NumThreads) * NumThreads + ((j - 1) % NumThreads)
  BY <1>1
<1> QED BY <1>1, <1>2 DEF Deal, Workers

\* Worker w gets its i-th item exactly if there is one.
LEMMA DealtOut ==
    ASSUME NEW w \in Workers
    PROVE  /\ Cardinality(Dealt(w)) \in Nat
           /\ \A i \in Nat \ {0} : i <= Cardinality(Dealt(w)) <=> Deal(w, i) <= Len(Roots)
<1> DEFINE L == Len(Roots)
           m == IF w + 1 > L THEN 0 ELSE (L - 1 - w) \div NumThreads + 1
<1>1. L \in Nat /\ NumThreads \in Nat \ {0} /\ w \in Nat
  BY Parameters, ForestAssumption DEF Workers
<1>2. m \in Nat /\ \A i \in Nat \ {0} : i <= m <=> Deal(w, i) <= L
  <2>1. CASE w + 1 > L
    <3>1. ASSUME NEW i \in Nat \ {0} PROVE Deal(w, i) >= w + 1
      <4>1. (i - 1) * NumThreads >= 0
        BY <1>1
      <4> QED BY <1>1, <4>1 DEF Deal
    <3> QED BY <1>1, <2>1, <3>1 DEF Deal
  <2>2. CASE w + 1 <= L
    <3> DEFINE q == (L - 1 - w) \div NumThreads
               r == (L - 1 - w) % NumThreads
    <3>1. q \in Nat /\ r \in 0 .. NumThreads - 1 /\ L - 1 - w = q * NumThreads + r
      BY <1>1, <2>2
    <3> HIDE DEF q, r
    <3>2. ASSUME NEW i \in Nat \ {0} PROVE i <= q + 1 <=> (i - 1) * NumThreads <= L - 1 - w
      <4>1. CASE i <= q + 1
        <5>1. (i - 1) * NumThreads <= q * NumThreads
          BY <1>1, <3>1, <4>1
        <5> QED BY <1>1, <3>1, <4>1, <5>1
      <4>2. CASE i >= q + 2
        <5>1. (i - 1) * NumThreads >= (q + 1) * NumThreads
          BY <1>1, <3>1, <4>2
        <5>2. (q + 1) * NumThreads = q * NumThreads + NumThreads
          BY <1>1, <3>1
        <5> QED BY <1>1, <3>1, <4>2, <5>1, <5>2
      <4> QED BY <3>1, <4>1, <4>2
    <3>3. m = q + 1
      BY <1>1, <2>2 DEF q
    <3>4. ASSUME NEW i \in Nat \ {0} PROVE Deal(w, i) <= L <=> (i - 1) * NumThreads <= L - 1 - w
      <4>1. (i - 1) * NumThreads \in Nat
        BY <1>1
      <4> QED BY <1>1, <4>1 DEF Deal
    <3> QED BY <3>1, <3>2, <3>3, <3>4
  <2> QED BY <1>1, <2>1, <2>2
<1> HIDE DEF m
<1> DEFINE f == [i \in 1 .. m |-> Deal(w, i)]
<1>3. f \in Bijection(1 .. m, Dealt(w))
  <2>1. ASSUME NEW i \in 1 .. m PROVE f[i] \in Dealt(w)
    <3>1. Deal(w, i) \in 1 .. L
      BY <1>1, <1>2, DealPosition
    <3> QED BY <1>2, <3>1, DealPosition DEF Dealt
  <2>2. ASSUME NEW i \in 1 .. m, NEW k \in 1 .. m, f[i] = f[k] PROVE i = k
    <3>1. i - 1 = k - 1
      BY <1>2, <2>2, DealPosition
    <3> QED BY <1>2, <3>1
  <2>3. ASSUME NEW j \in Dealt(w) PROVE \E i \in 1 .. m : f[i] = j
    <3>1. j \in 1 .. L /\ (j - 1) % NumThreads = w
      BY DEF Dealt
    <3> DEFINE i == (j - 1) \div NumThreads + 1
    <3>2. i \in Nat \ {0} /\ Deal(w, i) = j
      BY <3>1, DealtIsDealt
    <3> HIDE DEF i
    <3>3. i \in 1 .. m
      BY <1>1, <1>2, <3>1, <3>2
    <3> QED BY <3>2, <3>3
  <2>4. f \in [1 .. m -> Dealt(w)]
    BY <2>1
  <2> HIDE DEF f
  <2>5. f \in Injection(1 .. m, Dealt(w))
    BY <2>2, <2>4 DEF Injection, IsInjective
  <2>6. f \in Surjection(1 .. m, Dealt(w))
    BY <2>3, <2>4 DEF Surjection
  <2> QED BY <2>5, <2>6 DEF Bijection
<1>4. Cardinality(Dealt(w)) = m
  <2>1. IsFiniteSet(1 .. m) /\ Cardinality(1 .. m) = m
    BY <1>2, FS_Interval
  <2> QED BY <1>3, <2>1, FS_Bijection DEF ExistsBijection
<1> QED BY <1>2, <1>4

\* After seeding, slot w holds the items dealt to w.
LEMMA SeedEffect ==
    ASSUME SeedFrontier
    PROVE  /\ slots' \in [Workers -> Seq(Items)]
           /\ \A w \in Workers : Len(slots'[w]) = Cardinality(Dealt(w))
           /\ \A w \in Workers : \A i \in 1 .. Len(slots'[w]) :
                Deal(w, i) \in 1 .. Len(Roots) /\ slots'[w][i] = Roots[Deal(w, i)]
<1>1. ASSUME NEW w \in Workers, NEW i \in 1 .. Cardinality(Dealt(w))
      PROVE  Deal(w, i) \in 1 .. Len(Roots) /\ Roots[Deal(w, i)] \in Items
  <2>1. i \in Nat \ {0} /\ i <= Cardinality(Dealt(w))
    BY DealtOut
  <2>2. Len(Roots) \in Nat
    BY ForestAssumption
  <2>3. Deal(w, i) \in 1 .. Len(Roots)
    BY <2>1, <2>2, DealtOut, DealPosition
  <2> QED BY <2>3, ForestAssumption
<1>2. slots' = [w \in Workers |-> [i \in 1 .. Cardinality(Dealt(w)) |-> Roots[Deal(w, i)]]]
  BY DEF SeedFrontier, Dealt, Deal
<1>3. ASSUME NEW w \in Workers
      PROVE  /\ [i \in 1 .. Cardinality(Dealt(w)) |-> Roots[Deal(w, i)]] \in Seq(Items)
             /\ Len([i \in 1 .. Cardinality(Dealt(w)) |-> Roots[Deal(w, i)]]) = Cardinality(Dealt(w))
  <2>1. Cardinality(Dealt(w)) \in Nat
    BY DealtOut
  <2> QED BY <1>1, <2>1
<1> QED BY <1>1, <1>2, <1>3

-----------------------------------------------------------------------------

LEMMA TypeInit == Init => TypeOK
<1> SUFFICES ASSUME Init PROVE TypeOK
  OBVIOUS
<1> USE Parameters DEF Init
<1>1. slots \in [Workers -> Seq(Items)] /\ visits \in [Items -> Nat]
  OBVIOUS
<1>2. pc \in [Workers -> WorkerStates] /\ main \in MainStates
  BY DEF WorkerStates, MainStates
<1>3. /\ offset \in [Workers -> 0 .. NumThreads] /\ started \in 0 .. NumThreads
      /\ hand \in [Workers -> Items] /\ kid \in [Workers -> Items]
  OBVIOUS
<1>4. flags \in [Workers -> SUBSET Flags] /\ todo \in [Workers -> SUBSET Items]
  OBVIOUS
<1>5. after \in [Workers -> {"walk", "publish", "finish", "gone"}]
  OBVIOUS
<1>6. pending_work \in Nat /\ active_workers \in Nat /\ idle_workers \in Nat /\ exit_status \in 0 .. 2
  OBVIOUS
<1>7. cancel \in SUBSET {"requested", "observed", "draining", "joined", "published"}
  OBVIOUS
<1> QED BY <1>1, <1>2, <1>3, <1>4, <1>5, <1>6, <1>7 DEF TypeOK

LEMMA TypeMain == TypeOK /\ Control /\ MainNext => TypeOK'
<1> SUFFICES ASSUME TypeOK, Control, MainNext PROVE TypeOK'
  OBVIOUS
<1> USE Parameters DEF MainStates
<1>1. CASE OperandMissing
  <2>1. exit_status' = 2
    BY <1>1 DEF OperandMissing, ApplyResult
  <2> QED BY <1>1, <2>1 DEF TypeOK, OperandMissing, counters, local, coord
<1>2. CASE SeedFrontier
  <2>1. slots' \in [Workers -> Seq(Items)]
    BY <1>2, SeedEffect
  <2>2. Len(Roots) \in Nat
    BY ForestAssumption
  <2> QED BY <1>2, <2>1, <2>2 DEF TypeOK, SeedFrontier, status, local
<1>3. CASE NothingSelected
  BY <1>3 DEF TypeOK, NothingSelected, counters, status, local
<1>4. CASE SeedFails
  BY <1>4 DEF TypeOK, SeedFails, counters, local
<1>5. CASE CreateThread
  <2>1. started \in Workers /\ started + 1 \in 0 .. NumThreads
    BY <1>5 DEF TypeOK, CreateThread, Control, Workers
  <2>2. pc' \in [Workers -> WorkerStates]
    BY <1>5, <2>1 DEF TypeOK, CreateThread, Goto, WorkerStates
  <2> QED BY <1>5, <2>1, <2>2 DEF TypeOK, CreateThread, counters, status, local
<1>6. CASE CreateThreadFails
  BY <1>6, WakeEffect DEF TypeOK, CreateThreadFails, counters, local
<1>7. CASE MainCancels \/ JoinThreads
  BY <1>7 DEF TypeOK, MainCancels, JoinThreads, counters, local
<1>8. CASE Report
  BY <1>8 DEF TypeOK, Report, counters, local
<1> QED BY <1>1, <1>2, <1>3, <1>4, <1>5, <1>6, <1>7, <1>8 DEF MainNext

LEMMA VictimIsWorker == TypeOK => \A w \in Workers : Victim(w) \in Workers
<1> SUFFICES ASSUME TypeOK, NEW w \in Workers PROVE Victim(w) \in Workers
  OBVIOUS
<1>1. NumThreads \in Nat \ {0} /\ w + offset[w] \in Nat
  BY Parameters DEF TypeOK, Workers
<1> QED BY <1>1 DEF Victim, Workers

\* What leaves the slot of v, at position p; the others move up by s.
LEMMA TakenFrom ==
    ASSUME TypeOK, NEW w \in Workers, TakeItem(w)
    PROVE  LET v == Victim(w) IN
           /\ v \in Workers /\ slots' \in [Workers -> Seq(Items)] /\ slots[v] # <<>>
           /\ \A u \in Workers \ {v} : slots'[u] = slots[u]
           /\ Len(slots'[v]) = Len(slots[v]) - 1 /\ Len(slots[v]) \in Nat \ {0}
           /\ \E p \in 1 .. Len(slots[v]), s \in {0, 1} :
                /\ (s = 0 /\ p = Len(slots[v])) \/ (s = 1 /\ p = 1)
                /\ hand' = [hand EXCEPT ![w] = slots[v][p]] /\ slots[v][p] \in Items
                /\ \A i \in 1 .. Len(slots'[v]) : slots'[v][i] = slots[v][i + s]
<1> DEFINE v == Victim(w)
           q == slots[v]
<1>1. v \in Workers /\ q \in Seq(Items) /\ q # <<>>
  BY VictimIsWorker DEF TakeItem, TypeOK
<1>2. Len(q) \in Nat \ {0} /\ q[1] \in Items /\ q[Len(q)] \in Items
  BY <1>1
<1>3. CASE offset[w] = 0
  <2>1. /\ hand' = [hand EXCEPT ![w] = q[Len(q)]]
        /\ slots' = [slots EXCEPT ![v] = SubSeq(q, 1, Len(q) - 1)]
    BY <1>1, <1>3 DEF TakeItem, TypeOK
  <2>2. /\ SubSeq(q, 1, Len(q) - 1) \in Seq(Items) /\ Len(SubSeq(q, 1, Len(q) - 1)) = Len(q) - 1
        /\ \A i \in 1 .. Len(q) - 1 : SubSeq(q, 1, Len(q) - 1)[i] = q[i + 0]
    BY <1>1, <1>2
  <2> HIDE DEF v
  <2>3. /\ slots' \in [Workers -> Seq(Items)] /\ slots'[v] = SubSeq(q, 1, Len(q) - 1)
        /\ \A u \in Workers \ {v} : slots'[u] = slots[u]
    BY <1>1, <2>1, <2>2 DEF TypeOK
  <2>4. Len(q) \in 1 .. Len(q) /\ 0 \in {0, 1}
    BY <1>2
  <2>5. /\ hand' = [hand EXCEPT ![w] = q[Len(q)]] /\ q[Len(q)] \in Items
        /\ Len(slots'[v]) = Len(q) - 1
        /\ \A i \in 1 .. Len(slots'[v]) : slots'[v][i] = q[i + 0]
    BY <1>2, <2>1, <2>2, <2>3
  <2>6. \E p \in 1 .. Len(q), s \in {0, 1} :
          /\ (s = 0 /\ p = Len(q)) \/ (s = 1 /\ p = 1)
          /\ hand' = [hand EXCEPT ![w] = q[p]] /\ q[p] \in Items
          /\ \A i \in 1 .. Len(slots'[v]) : slots'[v][i] = q[i + s]
    BY <2>4, <2>5
  <2> QED BY <1>1, <1>2, <2>3, <2>5, <2>6 DEF v
<1>4. CASE offset[w] # 0
  <2>1. hand' = [hand EXCEPT ![w] = q[1]] /\ slots' = [slots EXCEPT ![v] = Tail(q)]
    BY <1>1, <1>4 DEF TakeItem, TypeOK
  <2>2. /\ Tail(q) \in Seq(Items) /\ Len(Tail(q)) = Len(q) - 1
        /\ \A i \in 1 .. Len(q) - 1 : Tail(q)[i] = q[i + 1]
    BY <1>1, <1>2
  <2> HIDE DEF v
  <2>3. /\ slots' \in [Workers -> Seq(Items)] /\ slots'[v] = Tail(q)
        /\ \A u \in Workers \ {v} : slots'[u] = slots[u]
    BY <1>1, <2>1, <2>2 DEF TypeOK
  <2>4. 1 \in 1 .. Len(q) /\ 1 \in {0, 1}
    BY <1>2
  <2>5. /\ hand' = [hand EXCEPT ![w] = q[1]] /\ q[1] \in Items
        /\ Len(slots'[v]) = Len(q) - 1
        /\ \A i \in 1 .. Len(slots'[v]) : slots'[v][i] = q[i + 1]
    BY <1>2, <2>1, <2>2, <2>3
  <2>6. \E p \in 1 .. Len(q), s \in {0, 1} :
          /\ (s = 0 /\ p = Len(q)) \/ (s = 1 /\ p = 1)
          /\ hand' = [hand EXCEPT ![w] = q[p]] /\ q[p] \in Items
          /\ \A i \in 1 .. Len(slots'[v]) : slots'[v][i] = q[i + s]
    BY <2>4, <2>5
  <2> QED BY <1>1, <1>2, <2>3, <2>5, <2>6 DEF v
<1> QED BY <1>3, <1>4

\* A worker at the condition variable is counted as idle.
LEMMA IdleCounted ==
    ASSUME CountersAgree, Control, NEW w \in Workers, pc[w] \in {"wait", "woken"}
    PROVE  idle_workers - 1 \in Nat
<1> DEFINE S == {v \in Workers : pc[v] \in {"wait", "woken"}}
<1>1. IsFiniteSet(Workers)
  BY Parameters, FS_Interval DEF Workers
<1>2. IsFiniteSet(S) /\ S # {}
  BY <1>1, FS_Subset
<1>3. Cardinality(S) \in Nat /\ Cardinality(S) # 0
  BY <1>2, FS_CardinalityType, FS_EmptySet
<1>4. main # "done"
  BY DEF Control
<1> QED BY <1>3, <1>4 DEF CountersAgree

LEMMA TypeWorker ==
    ASSUME CountersAgree, Control, NEW w \in Workers, WorkerNext(w)
    PROVE  TypeOK'
<1>0. TypeOK
  BY DEF CountersAgree
<1> USE <1>0, Parameters DEF WorkerStates, Goto
<1>1. CASE WorkerInit(w) \/ WorkerInitFails(w) \/ SyncRetries(w) \/ WokenSleeps(w) \/ SpuriousWakeup(w) \/ WalkEnds(w)
  BY <1>1 DEF TypeOK, WorkerInit, WorkerInitFails, SyncRetries, WokenSleeps, SpuriousWakeup, WalkEnds,
     counters, status, local, coord
<1>2. CASE CompileFails(w) \/ PublishFails(w)
  <2>1. pc' \in [Workers -> WorkerStates]
    BY <1>2, WakeAndGo DEF CompileFails, PublishFails, RaiseFatal
  <2> QED BY <1>2, <2>1 DEF TypeOK, CompileFails, PublishFails, RaiseFatal, counters, coord
<1>3. CASE DonateFails(w)
  <2>1. pc' \in [Workers -> WorkerStates]
    BY <1>3, WakeAndGo DEF DonateFails, RaiseFatal
  <2> QED BY <1>3, <2>1 DEF TypeOK, DonateFails, RaiseFatal, Flags, counters, coord
<1>4. CASE SearchFatal(w)
  <2>1. pc' \in [Workers -> WorkerStates]
    BY <1>4, WakeAndGo DEF SearchFatal, RaiseFatal
  <2>2. flags' = flags \/ flags' = [flags EXCEPT ![w] = @ \cup {"error"}]
    BY <1>4 DEF SearchFatal
  <2>3. flags' \in [Workers -> SUBSET Flags]
    <3>1. flags[w] \cup {"error"} \in SUBSET Flags
      BY DEF TypeOK, Flags
    <3> QED BY <2>2, <3>1 DEF TypeOK
  <2>4. after' \in [Workers -> {"walk", "publish", "finish", "gone"}] /\ shutdown' = TRUE /\ fatal_error' = TRUE
    BY <1>4 DEF TypeOK, SearchFatal, RaiseFatal
  <2> QED BY <1>4, <2>1, <2>3, <2>4 DEF TypeOK, SearchFatal, counters, coord
<1>5. CASE RequestCancel(w)
  BY <1>5 DEF TypeOK, RequestCancel, counters, local, coord
<1>6. CASE Top(w)
  BY <1>6 DEF TypeOK, Top, NoticeCancel, counters, coord
<1>7. CASE ScanEmpty(w)
  <2>1. offset[w] + 1 \in 0 .. NumThreads
    BY <1>7 DEF TypeOK, ScanEmpty, Control
  <2> QED BY <1>7, <2>1 DEF TypeOK, ScanEmpty, counters, status, coord
<1>8. CASE TakeItem(w)
  <2>1. slots' \in [Workers -> Seq(Items)] /\ hand' \in [Workers -> Items]
    BY <1>8, TakenFrom DEF TypeOK
  <2> QED BY <1>8, <2>1 DEF TypeOK, TakeItem, counters, status, coord
<1>9. CASE Claim(w)
  BY <1>9 DEF TypeOK, Claim, Walk, status, coord
<1>10. CASE SearchFile(w) \/ WalkFails(w)
  <2>1. \E f \in Flags : flags' = [flags EXCEPT ![w] = @ \cup {f}]
    BY <1>10 DEF SearchFile, WalkFails, Flags
  <2>2. flags' \in [Workers -> SUBSET Flags]
    BY <2>1 DEF TypeOK
  <2>3. pc' \in [Workers -> WorkerStates]
    BY <1>10 DEF TypeOK, SearchFile, WalkFails
  <2>4. UNCHANGED <<slots, counters, status, coord, hand, todo, kid, offset, after, visits>>
    <3>1. CASE SearchFile(w)
      BY <3>1 DEF SearchFile
    <3>2. CASE WalkFails(w)
      BY <3>2 DEF WalkFails
    <3> QED BY <1>10, <3>1, <3>2
  <2> QED BY <2>2, <2>3, <2>4 DEF TypeOK, counters, status, coord
<1>11. CASE VisitInline(w) \/ VisitIdle(w)
  <2>1. PICK k \in todo[w] : /\ todo' = [todo EXCEPT ![w] = @ \ {k}]
                             /\ kid' = kid \/ kid' = [kid EXCEPT ![w] = k]
    BY <1>11 DEF VisitInline, VisitIdle
  <2>2. todo' \in [Workers -> SUBSET Items] /\ kid' \in [Workers -> Items]
    <3>1. todo \in [Workers -> SUBSET Items] /\ kid \in [Workers -> Items] /\ k \in Items
      BY <2>1 DEF TypeOK
    <3>2. todo' \in [Workers -> SUBSET Items]
      BY <2>1, <3>1
    <3> QED BY <2>1, <3>1, <3>2
  <2>3. pc' \in [Workers -> WorkerStates]
    BY <1>11 DEF TypeOK, VisitInline, VisitIdle
  <2>4. visits' \in [Items -> Nat]
    <3>1. visits' = visits \/ \E S \in SUBSET Items : Walk(S)
      BY <1>11 DEF TypeOK, VisitInline, VisitIdle
    <3> QED BY <3>1 DEF TypeOK, Walk
  <2> QED BY <1>11, <2>2, <2>3, <2>4 DEF TypeOK, VisitInline, VisitIdle, counters, status, coord
<1>12. CASE Donate(w)
  <2>1. pc' \in [Workers -> WorkerStates]
    BY <1>12, WakeAndGo DEF Donate
  <2>2. Append(slots[w], kid[w]) \in Seq(Items)
    BY DEF TypeOK
  <2>3. slots' \in [Workers -> Seq(Items)]
    BY <1>12, <2>2 DEF TypeOK, Donate
  <2>4. pending_work' \in Nat
    BY <1>12 DEF TypeOK, Donate
  <2> QED BY <1>12, <2>1, <2>3, <2>4 DEF TypeOK, Donate, status, local, coord
<1>13. CASE DonateLate(w)
  BY <1>13 DEF TypeOK, DonateLate, Walk, counters, status, local, coord
<1>14. CASE WalkStops(w) \/ SyncStops(w)
  BY <1>14 DEF TypeOK, WalkStops, SyncStops, NoticeUnlessStopped, NoticeCancel, counters, local, coord
<1>15. CASE Publish(w)
  <2>1. exit_status' \in 0 .. 2
    BY <1>15 DEF TypeOK, Publish, ApplyResult
  <2> QED BY <1>15, <2>1 DEF TypeOK, Publish, counters, local, coord
<1>16. CASE Finish(w)
  <2>1. pc' \in [Workers -> WorkerStates]
    BY <1>16, WakeAndGo DEF TypeOK, Finish
  <2>2. active_workers' \in Nat
    BY <1>16 DEF TypeOK, Finish
  <2>3. shutdown' \in BOOLEAN
    BY <1>16 DEF TypeOK, Finish
  <2> QED BY <1>16, <2>1, <2>2, <2>3 DEF TypeOK, Finish, local, coord
<1>17. CASE SyncEnds(w)
  <2>1. pc' \in [Workers -> WorkerStates]
    BY <1>17, WakeAndGo DEF SyncEnds
  <2> QED BY <1>17, <2>1 DEF TypeOK, SyncEnds, counters, local, coord
<1>18. CASE SyncSleeps(w)
  BY <1>18 DEF TypeOK, SyncSleeps, status, local, coord
<1>19. CASE WokenLeaves(w)
  <2>1. pc' \in [Workers -> WorkerStates]
    BY <1>19, WakeAndGo DEF TypeOK, WokenLeaves
  <2>2. idle_workers' \in Nat
    BY <1>19, IdleCounted DEF WokenLeaves
  <2>3. /\ shutdown' \in BOOLEAN
        /\ cancel' \in SUBSET {"requested", "observed", "draining", "joined", "published"}
    BY <1>19 DEF TypeOK, WokenLeaves, NoticeUnlessStopped, NoticeCancel
  <2> QED BY <1>19, <2>1, <2>2, <2>3 DEF TypeOK, WokenLeaves, local, coord
<1> QED BY <1>1, <1>2, <1>3, <1>4, <1>5, <1>6, <1>7, <1>8, <1>9, <1>10, <1>11, <1>12, <1>13, <1>14,
           <1>15, <1>16, <1>17, <1>18, <1>19 DEF WorkerNext, LoopStep, WalkStep

\* What a step of w does to the others: a sleeper may be woken.
OthersKeep(w) ==
    \A v \in Workers \ {w} :
        /\ pc'[v] = pc[v] \/ (pc[v] = "wait" /\ pc'[v] = "woken")
        /\ offset'[v] = offset[v] /\ hand'[v] = hand[v] /\ todo'[v] = todo[v] /\ kid'[v] = kid[v]
        /\ flags'[v] = flags[v] /\ after'[v] = after[v]

\* Where a step of w may lead.
Moves(w) ==
    /\ pc[w] \notin {"none", "gone"} /\ pc'[w] # "none"
    /\ pc'[w] = "scan" => offset'[w] < NumThreads
    /\ pc'[w] = "cancel" => fatal_error'
    /\ fatal_error => fatal_error'
    /\ shutdown => shutdown'
    /\ fatal_error' => fatal_error \/ shutdown'
    /\ Requested' => Requested \/ pc[w] = "cancel"
    /\ main' = main /\ started' = started

LEMMA WorkerStep ==
    ASSUME TypeOK, Control, NEW w \in Workers, WorkerNext(w)
    PROVE  OthersKeep(w) /\ Moves(w)
<1> USE Parameters DEF OthersKeep, Moves, Goto
<1>1. CASE WorkerInit(w) \/ WorkerInitFails(w) \/ SyncRetries(w) \/ WokenSleeps(w) \/ SpuriousWakeup(w) \/ WalkEnds(w)
  BY <1>1 DEF TypeOK, WorkerInit, WorkerInitFails, SyncRetries, WokenSleeps, SpuriousWakeup, WalkEnds,
     status, local, coord, Requested
<1>2. CASE CompileFails(w)
  <2>1. pc'[w] = "cancel" /\ \A v \in Workers \ {w} : pc'[v] = IF pc[v] = "wait" THEN "woken" ELSE pc[v]
    BY <1>2, WakeAndGo DEF CompileFails, RaiseFatal, WorkerStates
  <2> QED BY <1>2, <2>1 DEF TypeOK, CompileFails, RaiseFatal, coord, Requested
<1>3. CASE PublishFails(w)
  <2>1. pc'[w] = "cancel" /\ \A v \in Workers \ {w} : pc'[v] = IF pc[v] = "wait" THEN "woken" ELSE pc[v]
    BY <1>3, WakeAndGo DEF PublishFails, RaiseFatal, WorkerStates
  <2> QED BY <1>3, <2>1 DEF TypeOK, PublishFails, RaiseFatal, coord, Requested
<1>4. CASE DonateFails(w)
  <2>1. pc'[w] = "cancel" /\ \A v \in Workers \ {w} : pc'[v] = IF pc[v] = "wait" THEN "woken" ELSE pc[v]
    BY <1>4, WakeAndGo DEF DonateFails, RaiseFatal, WorkerStates
  <2> QED BY <1>4, <2>1 DEF TypeOK, DonateFails, RaiseFatal, coord, Requested
<1>5. CASE SearchFatal(w)
  <2>1. pc'[w] = "cancel" /\ \A v \in Workers \ {w} : pc'[v] = IF pc[v] = "wait" THEN "woken" ELSE pc[v]
    BY <1>5, WakeAndGo DEF SearchFatal, RaiseFatal, WorkerStates
  <2>2. \A v \in Workers \ {w} : flags'[v] = flags[v] /\ after'[v] = after[v]
    BY <1>5 DEF SearchFatal, RaiseFatal, TypeOK
  <2> QED BY <1>5, <2>1, <2>2 DEF TypeOK, SearchFatal, RaiseFatal, coord, Requested
<1>6. CASE RequestCancel(w)
  <2>1. after[w] \in {"walk", "publish", "finish", "gone"}
    BY DEF TypeOK
  <2> QED BY <1>6, <2>1 DEF TypeOK, RequestCancel, local, coord
<1>7. CASE Top(w)
  BY <1>7 DEF TypeOK, Top, NoticeCancel, coord, Requested
<1>8. CASE ScanEmpty(w)
  BY <1>8 DEF TypeOK, ScanEmpty, Control, status, coord, Requested
<1>9. CASE TakeItem(w)
  <2>1. \A v \in Workers \ {w} : hand'[v] = hand[v]
    BY <1>9 DEF TakeItem, TypeOK
  <2> QED BY <1>9, <2>1 DEF TypeOK, TakeItem, status, coord, Requested
<1>10. CASE Claim(w)
  BY <1>10 DEF TypeOK, Claim, status, coord, Requested
<1>11. CASE SearchFile(w) \/ WalkFails(w)
  <2>1. \A v \in Workers \ {w} : flags'[v] = flags[v]
    BY <1>11 DEF SearchFile, WalkFails, TypeOK
  <2> QED BY <1>11, <2>1 DEF TypeOK, SearchFile, WalkFails, status, coord, Requested
<1>12. CASE VisitInline(w) \/ VisitIdle(w)
  <2>1. \A v \in Workers \ {w} : todo'[v] = todo[v] /\ kid'[v] = kid[v]
    BY <1>12 DEF VisitInline, VisitIdle, TypeOK
  <2> QED BY <1>12, <2>1 DEF TypeOK, VisitInline, VisitIdle, status, coord, Requested
<1>13. CASE Donate(w)
  <2>1. pc'[w] = "walk" /\ \A v \in Workers \ {w} : pc'[v] = IF pc[v] = "wait" THEN "woken" ELSE pc[v]
    BY <1>13, WakeAndGo DEF Donate, WorkerStates
  <2> QED BY <1>13, <2>1 DEF TypeOK, Donate, status, local, coord, Requested
<1>14. CASE DonateLate(w)
  BY <1>14 DEF TypeOK, DonateLate, status, local, coord, Requested
<1>15. CASE WalkStops(w) \/ SyncStops(w)
  BY <1>15 DEF TypeOK, WalkStops, SyncStops, NoticeUnlessStopped, NoticeCancel, local, coord, Requested
<1>16. CASE Publish(w)
  BY <1>16 DEF TypeOK, Publish, local, coord, Requested
<1>17. CASE Finish(w)
  <2>1. pc'[w] = "top" /\ \A v \in Workers \ {w} : pc'[v] = pc[v] \/ (pc[v] = "wait" /\ pc'[v] = "woken")
    BY <1>17, WakeAndGo DEF TypeOK, Finish, WorkerStates
  <2>2. shutdown => shutdown'
    BY <1>17 DEF Finish
  <2> QED BY <1>17, <2>1, <2>2 DEF TypeOK, Finish, local, coord, Requested
<1>18. CASE SyncEnds(w)
  <2>1. pc'[w] = "gone" /\ \A v \in Workers \ {w} : pc'[v] = IF pc[v] = "wait" THEN "woken" ELSE pc[v]
    BY <1>18, WakeAndGo DEF SyncEnds, WorkerStates
  <2> QED BY <1>18, <2>1 DEF TypeOK, SyncEnds, local, coord, Requested
<1>19. CASE SyncSleeps(w)
  BY <1>19 DEF TypeOK, SyncSleeps, status, local, coord, Requested
<1>20. CASE WokenLeaves(w)
  <2>1. pc'[w] \in {"gone", "top"} /\ \A v \in Workers \ {w} : pc'[v] = pc[v] \/ (pc[v] = "wait" /\ pc'[v] = "woken")
    BY <1>20, WakeAndGo DEF TypeOK, WokenLeaves, WorkerStates
  <2>2. (shutdown => shutdown') /\ (Requested' => Requested)
    BY <1>20 DEF WokenLeaves, NoticeUnlessStopped, NoticeCancel, Requested
  <2> QED BY <1>20, <2>1, <2>2 DEF TypeOK, WokenLeaves, local, coord
<1> QED BY <1>1, <1>2, <1>3, <1>4, <1>5, <1>6, <1>7, <1>8, <1>9, <1>10, <1>11, <1>12, <1>13, <1>14,
           <1>15, <1>16, <1>17, <1>18, <1>19, <1>20 DEF WorkerNext, LoopStep, WalkStep

\* Workers run between the creation of the first and the report.
LEMMA WorkersRun ==
    ASSUME TypeOK, Control, NEW w \in Workers, WorkerNext(w)
    PROVE  w < started /\ main \notin {"seed", "report", "done"}
<1>1. pc[w] \notin {"none", "gone"}
  BY WorkerStep DEF Moves
<1> QED BY <1>1, Parameters DEF Control, Untouched, TypeOK, Workers

LEMMA ControlWorker ==
    ASSUME TypeOK, Control, NEW w \in Workers, WorkerNext(w)
    PROVE  Control'
<1>1. OthersKeep(w) /\ Moves(w)
  BY WorkerStep
<1>2. w < started /\ main \notin {"seed", "report", "done"}
  BY WorkersRun
<1>3. \A v \in Workers : pc'[v] = "none" <=> v >= started'
  <2>1. ASSUME NEW v \in Workers \ {w} PROVE pc'[v] = "none" <=> pc[v] = "none"
    BY <1>1 DEF OthersKeep
  <2> QED BY <1>1, <1>2, <2>1 DEF Moves, Control, TypeOK, Workers
<1>4. \A v \in Workers : pc'[v] = "scan" => offset'[v] < NumThreads
  BY <1>1 DEF OthersKeep, Moves, Control
<1>5. (\E v \in Workers : pc'[v] = "cancel") => fatal_error'
  <2>1. ASSUME NEW v \in Workers \ {w}, pc'[v] = "cancel" PROVE fatal_error
    BY <1>1, <2>1 DEF OthersKeep, Control
  <2> QED BY <1>1, <2>1 DEF Moves
<1>6. Requested' \/ main' = "cancel" => fatal_error'
  BY <1>1 DEF Moves, Control
<1>7. started' > 0
  BY <1>1, <1>2 DEF Moves, Workers, TypeOK
<1> QED BY <1>1, <1>2, <1>3, <1>4, <1>5, <1>6, <1>7 DEF Moves, Control

LEMMA ControlMain == TypeOK /\ Control /\ MainNext => Control'
<1> SUFFICES ASSUME TypeOK, Control, MainNext PROVE Control'
  OBVIOUS
<1> USE Parameters
<1>1. CASE OperandMissing
  BY <1>1 DEF Control, Untouched, OperandMissing, counters, local, coord, Requested
<1>2. CASE SeedFrontier \/ NothingSelected \/ SeedFails
  BY <1>2 DEF Control, Untouched, TypeOK, SeedFrontier, NothingSelected, SeedFails, counters, status, local, Requested
<1>3. CASE CreateThread
  <2>1. /\ started \in Workers /\ started < NumThreads /\ started \in Nat
        /\ pc' = [pc EXCEPT ![started] = "init"] /\ started' = started + 1
        /\ main = "create" /\ main' \in {"create", "join"} /\ (main' = "create" => started + 1 # NumThreads)
        /\ UNCHANGED <<shutdown, fatal_error, exit_status, cancel, offset>>
    BY <1>3 DEF Control, TypeOK, CreateThread, Goto, Workers, status, local
  <2>2. \A v \in Workers : pc'[v] = IF v = started THEN "init" ELSE pc[v]
    BY <2>1 DEF TypeOK
  <2>3. \A v \in Workers : pc'[v] = "none" <=> v >= started'
    BY <2>1, <2>2 DEF Control, Workers
  <2>4. \A v \in Workers : pc'[v] = "scan" => offset'[v] < NumThreads
    BY <2>1, <2>2 DEF Control
  <2>5. (\E v \in Workers : pc'[v] = "cancel") => fatal_error
    BY <2>2 DEF Control
  <2> QED BY <2>1, <2>3, <2>4, <2>5 DEF Control, Requested
<1>4. CASE CreateThreadFails
  <2>1. \A v \in Workers : pc'[v] = IF pc[v] = "wait" THEN "woken" ELSE pc[v]
    BY <1>4, WakeEffect DEF CreateThreadFails, TypeOK
  <2>2. \A v \in Workers : (pc'[v] = "none" <=> pc[v] = "none") /\ (pc'[v] = "scan" <=> pc[v] = "scan")
    BY <2>1
  <2>3. /\ main' = "cancel" /\ fatal_error' /\ shutdown'
        /\ UNCHANGED <<exit_status, cancel, started, offset>>
    BY <1>4 DEF CreateThreadFails, local
  <2> QED BY <2>2, <2>3 DEF Control, Requested
<1>5. CASE MainCancels
  BY <1>5 DEF Control, TypeOK, MainCancels, counters, local, Requested
<1>6. CASE JoinThreads
  BY <1>6 DEF Control, TypeOK, JoinThreads, Workers, counters, local, Requested
<1>7. CASE Report
  BY <1>7 DEF Control, TypeOK, Report, counters, local, Requested
<1> QED BY <1>1, <1>2, <1>3, <1>4, <1>5, <1>6, <1>7 DEF MainNext

-----------------------------------------------------------------------------
(* Who holds what.                                                           *)

LEMMA Forest ==
    ASSUME NEW d \in Items
    PROVE  /\ d \in Below[d] /\ Below[d] \subseteq Items /\ Kids[d] \subseteq Items
           /\ \A k \in Kids[d] : Below[k] \subseteq Below[d] /\ d \notin Below[k]
           /\ \A k, l \in Kids[d], e \in Items : e \in Below[k] /\ e \in Below[l] => k = l
           /\ \A e \in Below[d] : e = d \/ \E k \in Kids[d] : e \in Below[k]
<1>1. d \in Below[d] /\ Below[d] \subseteq Items /\ Kids[d] \subseteq Items
  BY ForestAssumption
<1>2. \A k \in Kids[d] : Below[k] \subseteq Below[d] /\ d \notin Below[k]
  <2>1. \A k \in Kids[d] : Below[k] \subseteq Below[d] \ {d}
    BY ForestAssumption
  <2> QED BY <2>1
<1>3. \A k, l \in Kids[d], e \in Items : e \in Below[k] /\ e \in Below[l] => k = l
  <2>1. \A k, l \in Kids[d] : k # l => Below[k] \cap Below[l] = {}
    BY ForestAssumption
  <2> QED BY <2>1
<1>4. \A e \in Below[d] : e = d \/ \E k \in Kids[d] : e \in Below[k]
  BY ForestAssumption
<1> QED BY <1>1, <1>2, <1>3, <1>4

LEMMA OthersOwn ==
    ASSUME NEW w \in Workers, OthersKeep(w), NEW v \in Workers \ {w}
    PROVE  /\ Walking(v)' <=> Walking(v)
           /\ \A d \in Items : Owns(v, d)' <=> Owns(v, d)
BY DEF OthersKeep, Walking, Owns

\* A step that only gives up items, or walks some it held.
LEMMA HoldersWalk ==
    ASSUME TypeOK, Holders, NEW w \in Workers, OthersKeep(w), slots' = slots,
           NEW S, \A d \in Items : visits'[d] = IF d \in S THEN visits[d] + 1 ELSE visits[d],
           \A d \in Items : Owns(w, d)' => Owns(w, d) /\ d \notin S,
           \A d \in Items : d \in S => Owns(w, d),
           Walking(w)' => todo'[w] \subseteq Kids[hand'[w]],
           pc'[w] = "donate" => kid'[w] \in Kids[hand'[w]] \ todo'[w]
    PROVE  Holders'
<1>1. \A v \in Workers, d \in Items : Owns(v, d)' => Owns(v, d)
  BY OthersOwn
<1>2. \A v \in Workers, d \in Items, i \in Nat :
         (InQueue(v, d)' <=> InQueue(v, d)) /\ (Queued(v, i, d)' <=> Queued(v, i, d))
  BY DEF InQueue, Queued
<1>3. /\ \A v \in Workers : Walking(v)' => todo'[v] \subseteq Kids[hand'[v]]
      /\ \A v \in Workers : pc'[v] = "donate" => kid'[v] \in Kids[hand'[v]] \ todo'[v]
  <2>1. ASSUME NEW v \in Workers \ {w}
        PROVE  /\ Walking(v)' => todo'[v] \subseteq Kids[hand'[v]]
               /\ pc'[v] = "donate" => kid'[v] \in Kids[hand'[v]] \ todo'[v]
    BY OthersOwn DEF OthersKeep, Holders
  <2> QED BY <2>1
<1>4. /\ \A u, v \in Workers, d \in Items : u # v => ~(Owns(u, d)' /\ Owns(v, d)')
      /\ \A u, v \in Workers, d \in Items : Owns(u, d)' => ~InQueue(v, d)'
      /\ \A u, v \in Workers, i, j \in Nat, d \in Items :
            Queued(u, i, d)' /\ Queued(v, j, d)' => u = v /\ i = j
  BY <1>1, <1>2 DEF Holders
<1>5. ASSUME NEW d \in Items PROVE visits'[d] <= 1
  <2>1. CASE d \in S
    <3>1. visits[d] = 0
      BY <2>1 DEF Holders
    <3> QED BY <2>1, <3>1
  <2>2. CASE d \notin S
    BY <2>2 DEF Holders, WalkedOnce
  <2> QED BY <2>1, <2>2
<1>6. ASSUME NEW v \in Workers, NEW d \in Items, Owns(v, d)' \/ InQueue(v, d)' PROVE visits'[d] = 0
  <2>1. visits[d] = 0
    BY <1>1, <1>2, <1>6 DEF Holders
  <2>2. d \notin S
    <3>1. CASE Owns(v, d)' /\ v # w
      BY <1>1, <3>1 DEF Holders
    <3>2. CASE InQueue(v, d)'
      BY <1>2, <3>2 DEF Holders
    <3> QED BY <1>6, <3>1, <3>2
  <2> QED BY <2>1, <2>2
<1> QED BY <1>3, <1>4, <1>5, <1>6 DEF Holders, WalkedOnce

\* The same for a step without a visit.
LEMMA HoldersShrink ==
    ASSUME TypeOK, Holders, NEW w \in Workers, OthersKeep(w), slots' = slots, visits' = visits,
           \A d \in Items : Owns(w, d)' => Owns(w, d),
           Walking(w)' => todo'[w] \subseteq Kids[hand'[w]],
           pc'[w] = "donate" => kid'[w] \in Kids[hand'[w]] \ todo'[w]
    PROVE  Holders'
<1> DEFINE nothing == {}
<1>1. \A d \in Items : visits'[d] = IF d \in nothing THEN visits[d] + 1 ELSE visits[d]
  OBVIOUS
<1>2. \A d \in Items : d \in nothing => Owns(w, d)
  OBVIOUS
<1>3. \A d \in Items : Owns(w, d)' => Owns(w, d) /\ d \notin nothing
  OBVIOUS
<1> HIDE DEF nothing
<1> QED BY <1>1, <1>2, <1>3, HoldersWalk

\* An item that leaves its slot is in the hand of the worker.
LEMMA TakenQueues ==
    ASSUME TypeOK, NEW w \in Workers, TakeItem(w)
    PROVE  \E v \in Workers, p \in Nat, s \in {0, 1} :
             /\ \A d \in Items : Owns(w, d)' <=> Queued(v, p, d)
             /\ \A d \in Items, i \in Nat : Queued(v, i, d)' => Queued(v, i + s, d) /\ i + s # p
             /\ \A d \in Items, i \in Nat : Queued(v, i, d) /\ i # p => i - s \in Nat /\ Queued(v, i - s, d)'
             /\ \A u \in Workers \ {v} : slots'[u] = slots[u]
<1>0. PICK v \in Workers : v = Victim(w)
  BY VictimIsWorker
<1>1. /\ \A u \in Workers \ {v} : slots'[u] = slots[u]
      /\ Len(slots'[v]) = Len(slots[v]) - 1 /\ Len(slots[v]) \in Nat \ {0}
  BY <1>0, TakenFrom
<1>2. PICK p \in 1 .. Len(slots[v]), s \in {0, 1} :
         /\ (s = 0 /\ p = Len(slots[v])) \/ (s = 1 /\ p = 1)
         /\ hand' = [hand EXCEPT ![w] = slots[v][p]] /\ slots[v][p] \in Items
         /\ \A i \in 1 .. Len(slots'[v]) : slots'[v][i] = slots[v][i + s]
  BY <1>0, TakenFrom
<1>3. pc'[w] = "claim" /\ hand'[w] = slots[v][p]
  BY <1>2 DEF TakeItem, Goto, TypeOK
<1>4. \A d \in Items : Owns(w, d)' <=> Queued(v, p, d)
  BY <1>3 DEF Owns, Walking, Queued
<1>5. ASSUME NEW d \in Items, NEW i \in Nat, Queued(v, i, d)' PROVE Queued(v, i + s, d) /\ i + s # p
  <2>1. i \in 1 .. Len(slots'[v]) /\ d \in Below[slots'[v][i]]
    BY <1>5 DEF Queued
  <2>2. i + s \in 1 .. Len(slots[v]) /\ i + s # p
    BY <1>1, <1>2, <2>1
  <2>3. slots'[v][i] = slots[v][i + s]
    BY <1>2, <2>1
  <2> QED BY <2>1, <2>2, <2>3 DEF Queued
<1>6. ASSUME NEW d \in Items, NEW i \in Nat, Queued(v, i, d), i # p PROVE i - s \in Nat /\ Queued(v, i - s, d)'
  <2>1. i \in 1 .. Len(slots[v]) /\ d \in Below[slots[v][i]]
    BY <1>6 DEF Queued
  <2>2. PICK j \in 1 .. Len(slots'[v]) : j = i - s /\ i = j + s
    <3>1. CASE s = 0 /\ p = Len(slots[v])
      BY <1>1, <1>6, <2>1, <3>1
    <3>2. CASE s = 1 /\ p = 1
      BY <1>1, <1>6, <2>1, <3>2
    <3> QED BY <1>2, <3>1, <3>2
  <2>3. slots'[v][j] = slots[v][j + s]
    BY <1>2
  <2>4. slots'[v][j] = slots[v][i]
    BY <2>2, <2>3
  <2>5. j \in Nat /\ Queued(v, j, d)'
    BY <2>1, <2>4 DEF Queued
  <2> QED BY <2>2, <2>5
<1>7. p \in Nat
  BY <1>1
<1>8. /\ \A d \in Items : Owns(w, d)' <=> Queued(v, p, d)
      /\ \A d \in Items, i \in Nat : Queued(v, i, d)' => Queued(v, i + s, d) /\ i + s # p
      /\ \A d \in Items, i \in Nat : Queued(v, i, d) /\ i # p => i - s \in Nat /\ Queued(v, i - s, d)'
      /\ \A u \in Workers \ {v} : slots'[u] = slots[u]
  BY <1>1, <1>4, <1>5, <1>6
<1> QED BY <1>7, <1>8, Zenon

LEMMA InQueueIff ==
    ASSUME NEW v \in Workers, NEW d \in Items, slots \in [Workers -> Seq(Items)]
    PROVE  InQueue(v, d) <=> \E i \in Nat : Queued(v, i, d)
BY DEF InQueue, Queued

LEMMA HoldersTake ==
    ASSUME TypeOK, TypeOK', Holders, NEW w \in Workers, OthersKeep(w), TakeItem(w)
    PROVE  Holders'
<1>1. PICK v \in Workers, p \in Nat, s \in {0, 1} :
         /\ \A d \in Items : Owns(w, d)' <=> Queued(v, p, d)
         /\ \A d \in Items, i \in Nat : Queued(v, i, d)' => Queued(v, i + s, d) /\ i + s # p
         /\ \A d \in Items, i \in Nat : Queued(v, i, d) /\ i # p => i - s \in Nat /\ Queued(v, i - s, d)'
         /\ \A u \in Workers \ {v} : slots'[u] = slots[u]
  BY TakenQueues
<1>2. \A u \in Workers \ {v}, d \in Items, i \in Nat : Queued(u, i, d)' <=> Queued(u, i, d)
  BY <1>1 DEF Queued
<1>3. \A u \in Workers \ {w}, d \in Items : Owns(u, d)' <=> Owns(u, d)
  BY OthersOwn
<1>4. \A u \in Workers, d \in Items : InQueue(u, d) <=> \E i \in Nat : Queued(u, i, d)
  BY InQueueIff DEF TypeOK
<1>5. \A u \in Workers, d \in Items : InQueue(u, d)' <=> \E i \in Nat : Queued(u, i, d)'
  <2>1. \A u \in Workers : Len(slots'[u]) \in Nat
    BY DEF TypeOK
  <2> QED BY <2>1 DEF InQueue, Queued
<1>6. \A u \in Workers, d \in Items : InQueue(u, d)' => InQueue(u, d)
  BY <1>1, <1>2, <1>4, <1>5
<1>7. pc'[w] = "claim" /\ ~Walking(w)' /\ visits' = visits
  BY DEF TakeItem, Goto, TypeOK, Walking
<1>8. /\ \A u \in Workers : Walking(u)' => todo'[u] \subseteq Kids[hand'[u]]
      /\ \A u \in Workers : pc'[u] = "donate" => kid'[u] \in Kids[hand'[u]] \ todo'[u]
  <2>1. ASSUME NEW u \in Workers \ {w}
        PROVE  /\ Walking(u)' => todo'[u] \subseteq Kids[hand'[u]]
               /\ pc'[u] = "donate" => kid'[u] \in Kids[hand'[u]] \ todo'[u]
    BY OthersOwn DEF OthersKeep, Holders
  <2> QED BY <1>7, <2>1
<1>9. \A d \in Items : Owns(w, d)' => InQueue(v, d)
  BY <1>1, <1>4
<1>10. \A t, u \in Workers, d \in Items : t # u => ~(Owns(t, d)' /\ Owns(u, d)')
  BY <1>3, <1>9 DEF Holders
<1>11. ASSUME NEW t \in Workers, NEW u \in Workers, NEW d \in Items, Owns(t, d)', InQueue(u, d)' PROVE FALSE
  <2>1. CASE t # w
    BY <1>3, <1>6, <1>11, <2>1 DEF Holders
  <2>2. CASE t = w
    <3>1. PICK i \in Nat : Queued(u, i, d)'
      BY <1>5, <1>11
    <3>2. Queued(v, p, d)
      BY <1>1, <1>11, <2>2
    <3>3. CASE u = v
      <4>1. Queued(v, i + s, d) /\ i + s # p /\ i + s \in Nat
        BY <1>1, <3>1, <3>3
      <4> QED BY <3>2, <4>1 DEF Holders
    <3>4. CASE u # v
      BY <1>2, <3>1, <3>2, <3>4 DEF Holders
    <3> QED BY <3>3, <3>4
  <2> QED BY <2>1, <2>2
<1>12. ASSUME NEW t \in Workers, NEW u \in Workers, NEW i \in Nat, NEW j \in Nat, NEW d \in Items,
              Queued(t, i, d)', Queued(u, j, d)'
       PROVE  t = u /\ i = j
  <2> DEFINE up(x) == IF x = v THEN s ELSE 0
  <2>1. Queued(t, i + up(t), d) /\ i + up(t) \in Nat
    BY <1>1, <1>2, <1>12
  <2>2. Queued(u, j + up(u), d) /\ j + up(u) \in Nat
    BY <1>1, <1>2, <1>12
  <2>3. t = u /\ i + up(t) = j + up(u)
    BY <2>1, <2>2 DEF Holders
  <2> QED BY <2>3
<1>13. \A u \in Workers, d \in Items : Owns(u, d)' \/ InQueue(u, d)' => visits'[d] = 0
  BY <1>3, <1>6, <1>7, <1>9 DEF Holders
<1>14. WalkedOnce'
  BY <1>7 DEF Holders, WalkedOnce
<1> QED BY <1>8, <1>10, <1>11, <1>12, <1>13, <1>14 DEF Holders

LEMMA HoldersDonate ==
    ASSUME TypeOK, TypeOK', Holders, NEW w \in Workers, OthersKeep(w), Donate(w)
    PROVE  Holders'
<1> DEFINE n == Len(slots[w]) + 1
           new == kid[w]
<1>0. /\ pc[w] = "donate" /\ Walking(w) /\ visits' = visits /\ new \in Items /\ n \in Nat
      /\ slots' = [slots EXCEPT ![w] = Append(slots[w], new)]
      /\ todo'[w] = todo[w] /\ hand'[w] = hand[w] /\ new \in Kids[hand[w]] \ todo[w]
  BY DEF Donate, Walking, local, TypeOK, Holders
<1>1. pc'[w] = "walk"
  BY WakeAndGo DEF Donate, WorkerStates
<1>2. \A d \in Items : /\ d \in Below[new] => Owns(w, d)
                       /\ Owns(w, d)' => Owns(w, d) /\ d \notin Below[new]
  <2>1. ASSUME NEW d \in Items, Owns(w, d)' PROVE Owns(w, d) /\ d \notin Below[new]
    <3>1. PICK k \in todo[w] : d \in Below[k]
      BY <1>0, <1>1, <2>1 DEF Owns
    <3>2. k \in Kids[hand[w]] /\ hand[w] \in Items
      BY <1>0, <3>1 DEF Holders, TypeOK
    <3> QED BY <1>0, <3>1, <3>2, Forest DEF Owns
  <2> QED BY <1>0, <2>1 DEF Owns
<1>3. \A u \in Workers \ {w}, d \in Items : Owns(u, d)' <=> Owns(u, d)
  BY OthersOwn
<1>4. /\ \A u \in Workers \ {w} : slots'[u] = slots[u]
      /\ Len(slots'[w]) = n /\ slots'[w][n] = new /\ Len(slots[w]) \in Nat
      /\ \A i \in 1 .. n - 1 : slots'[w][i] = slots[w][i]
  BY <1>0 DEF TypeOK
<1> HIDE DEF n, new
<1>5. \A u \in Workers, i \in Nat, d \in Items :
         Queued(u, i, d)' => Queued(u, i, d) \/ (u = w /\ i = n /\ d \in Below[new])
  <2>1. n - 1 = Len(slots[w])
    BY <1>4 DEF n
  <2>2. ASSUME NEW i \in Nat, NEW d \in Items, Queued(w, i, d)', i # n PROVE Queued(w, i, d)
    <3>1. i \in 1 .. n - 1 /\ d \in Below[slots'[w][i]]
      BY <1>0, <1>4, <2>2 DEF Queued
    <3> QED BY <1>4, <2>1, <3>1 DEF Queued
  <2> QED BY <1>4, <2>2 DEF Queued
<1>6. \A i \in Nat, d \in Items : Queued(w, i, d) => i # n
  BY <1>4 DEF Queued, n
<1>7. \A u \in Workers, d \in Items : InQueue(u, d)' => InQueue(u, d) \/ (u = w /\ d \in Below[new])
  <2>1. \A u \in Workers : Len(slots'[u]) \in Nat /\ Len(slots[u]) \in Nat
    <3>1. slots' \in [Workers -> Seq(Items)] /\ slots \in [Workers -> Seq(Items)]
      BY DEF TypeOK
    <3> QED BY <3>1
  <2>2. ASSUME NEW u \in Workers, NEW d \in Items, InQueue(u, d)' PROVE \E i \in Nat : Queued(u, i, d)'
    BY <2>1, <2>2 DEF InQueue, Queued
  <2>3. ASSUME NEW u \in Workers, NEW d \in Items, NEW i \in Nat, Queued(u, i, d) PROVE InQueue(u, d)
    BY <2>3 DEF InQueue, Queued
  <2> QED BY <1>5, <2>2, <2>3
<1>8. /\ \A u \in Workers : Walking(u)' => todo'[u] \subseteq Kids[hand'[u]]
      /\ \A u \in Workers : pc'[u] = "donate" => kid'[u] \in Kids[hand'[u]] \ todo'[u]
  <2>1. ASSUME NEW u \in Workers \ {w}
        PROVE  /\ Walking(u)' => todo'[u] \subseteq Kids[hand'[u]]
               /\ pc'[u] = "donate" => kid'[u] \in Kids[hand'[u]] \ todo'[u]
    BY OthersOwn DEF OthersKeep, Holders
  <2> QED BY <1>0, <1>1, <2>1 DEF Holders
<1>9. \A t, u \in Workers, d \in Items : t # u => ~(Owns(t, d)' /\ Owns(u, d)')
  BY <1>2, <1>3 DEF Holders
<1>10. \A t, u \in Workers, d \in Items : Owns(t, d)' => ~InQueue(u, d)'
  <2>1. ASSUME NEW t \in Workers, NEW d \in Items, Owns(t, d)' PROVE Owns(t, d) /\ d \notin Below[new]
    <3>1. CASE t = w
      BY <1>2, <2>1, <3>1
    <3>2. CASE t # w
      BY <1>2, <1>3, <2>1, <3>2 DEF Holders
    <3> QED BY <3>1, <3>2
  <2> QED BY <1>7, <2>1 DEF Holders
<1>11. ASSUME NEW t \in Workers, NEW u \in Workers, NEW i \in Nat, NEW j \in Nat, NEW d \in Items,
              Queued(t, i, d)', Queued(u, j, d)'
       PROVE  t = u /\ i = j
  <2>1. ASSUME NEW v \in Workers, NEW k \in Nat, Queued(v, k, d), d \in Below[new] PROVE FALSE
    <3>1. InQueue(v, d) /\ Owns(w, d)
      BY <1>2, <2>1 DEF Queued, InQueue
    <3> QED BY <3>1 DEF Holders
  <2> QED BY <1>5, <1>11, <2>1 DEF Holders
<1>12. \A u \in Workers, d \in Items : Owns(u, d)' \/ InQueue(u, d)' => visits'[d] = 0
  <2>1. \A u \in Workers, d \in Items : Owns(u, d)' => Owns(u, d)
    BY <1>2, <1>3
  <2> QED BY <1>0, <1>2, <1>7, <2>1 DEF Holders
<1>13. WalkedOnce'
  BY <1>0 DEF Holders, WalkedOnce
<1> QED BY <1>8, <1>9, <1>10, <1>11, <1>12, <1>13 DEF Holders

LEMMA HoldersClaim ==
    ASSUME TypeOK, Holders, NEW w \in Workers, OthersKeep(w), Claim(w)
    PROVE  Holders'
<1> DEFINE S == {hand[w]}
<1>1. /\ pc[w] = "claim" /\ hand[w] \in Items /\ hand'[w] = hand[w] /\ slots' = slots
      /\ todo'[w] = Kids[hand[w]] /\ pc'[w] = "walk"
      /\ \A d \in Items : visits'[d] = IF d \in S THEN visits[d] + 1 ELSE visits[d]
  BY DEF Claim, Walk, Goto, TypeOK
<1>2. \A d \in Items : Owns(w, d)' => Owns(w, d) /\ d \notin S
  BY <1>1, Forest DEF Owns
<1>3. \A d \in Items : d \in S => Owns(w, d)
  BY <1>1, Forest DEF Owns
<1> HIDE DEF S
<1> QED BY <1>1, <1>2, <1>3, HoldersWalk

LEMMA HoldersVisit ==
    ASSUME TypeOK, Holders, NEW w \in Workers, OthersKeep(w), VisitInline(w)
    PROVE  Holders'
<1>1. PICK k \in todo[w] : Walk(Below[k]) /\ todo' = [todo EXCEPT ![w] = @ \ {k}]
  BY DEF VisitInline
<1>2. /\ pc[w] = "walk" /\ pc'[w] = "walk" /\ Walking(w) /\ slots' = slots /\ hand[w] \in Items
      /\ hand'[w] = hand[w] /\ todo'[w] = todo[w] \ {k} /\ todo[w] \subseteq Kids[hand[w]]
  BY <1>1 DEF VisitInline, TypeOK, Walking, Holders
<1> DEFINE S == Below[k]
<1>3. \A d \in Items : visits'[d] = IF d \in S THEN visits[d] + 1 ELSE visits[d]
  BY <1>1 DEF Walk
<1>4. \A d \in Items : Owns(w, d)' => Owns(w, d) /\ d \notin S
  BY <1>1, <1>2, Forest DEF Owns
<1>5. \A d \in Items : d \in S => Owns(w, d)
  BY <1>2 DEF Owns
<1> HIDE DEF S
<1> QED BY <1>2, <1>3, <1>4, <1>5, HoldersWalk

LEMMA HoldersLate ==
    ASSUME TypeOK, Holders, NEW w \in Workers, OthersKeep(w), DonateLate(w)
    PROVE  Holders'
<1>1. /\ pc[w] = "donate" /\ pc'[w] = "walk" /\ Walking(w) /\ slots' = slots /\ hand[w] \in Items
      /\ hand'[w] = hand[w] /\ todo'[w] = todo[w] /\ todo[w] \subseteq Kids[hand[w]]
      /\ kid[w] \in Kids[hand[w]] \ todo[w]
  BY DEF DonateLate, Goto, TypeOK, Walking, Holders, local
<1> DEFINE S == Below[kid[w]]
<1>2. \A d \in Items : visits'[d] = IF d \in S THEN visits[d] + 1 ELSE visits[d]
  BY DEF DonateLate, Walk
<1>3. \A d \in Items : Owns(w, d)' => Owns(w, d) /\ d \notin S
  BY <1>1, Forest DEF Owns
<1>4. \A d \in Items : d \in S => Owns(w, d)
  BY <1>1 DEF Owns
<1> HIDE DEF S
<1> QED BY <1>1, <1>2, <1>3, <1>4, HoldersWalk

LEMMA HoldersWorker ==
    ASSUME TypeOK, TypeOK', Control, Holders, NEW w \in Workers, WorkerNext(w)
    PROVE  Holders'
<1>0. OthersKeep(w)
  BY WorkerStep
<1> USE <1>0 DEF Goto
<1>1. CASE \/ WorkerInit(w) \/ WorkerInitFails(w) \/ SyncRetries(w) \/ WokenSleeps(w) \/ SpuriousWakeup(w)
           \/ SyncStops(w) \/ SyncSleeps(w) \/ Publish(w)
  <2>1. ~Walking(w)' /\ slots' = slots /\ visits' = visits /\ \A d \in Items : ~Owns(w, d)'
    BY <1>1 DEF TypeOK, WorkerInit, WorkerInitFails, SyncRetries, WokenSleeps, SpuriousWakeup, SyncStops,
       SyncSleeps, Publish, Walking, Owns
  <2> QED BY <2>1, HoldersShrink DEF Walking
<1>2. CASE Top(w) \/ ScanEmpty(w) \/ WalkEnds(w) \/ WalkStops(w) \/ WalkFails(w)
  <2>1. ~Walking(w)' /\ slots' = slots /\ visits' = visits /\ \A d \in Items : ~Owns(w, d)'
    BY <1>2 DEF TypeOK, Top, ScanEmpty, WalkEnds, WalkStops, WalkFails, Walking, Owns
  <2> QED BY <2>1, HoldersShrink DEF Walking
<1>3. CASE CompileFails(w) \/ PublishFails(w) \/ DonateFails(w)
  <2>1. pc'[w] = "cancel" /\ slots' = slots /\ visits' = visits
    BY <1>3, WakeAndGo DEF CompileFails, PublishFails, DonateFails, RaiseFatal, WorkerStates
  <2>2. after'[w] # "walk"
    BY <1>3 DEF CompileFails, PublishFails, DonateFails, RaiseFatal, TypeOK
  <2>3. ~Walking(w)' /\ \A d \in Items : ~Owns(w, d)'
    BY <2>1, <2>2 DEF Walking, Owns
  <2> QED BY <2>1, <2>3, HoldersShrink DEF Walking
<1>4. CASE SearchFatal(w)
  <2>1. pc'[w] = "cancel" /\ slots' = slots /\ visits' = visits /\ todo' = todo /\ hand' = hand /\ Walking(w)
    BY <1>4, WakeAndGo DEF SearchFatal, RaiseFatal, WorkerStates, Walking
  <2>2. \A d \in Items : Owns(w, d)' => Owns(w, d)
    BY <2>1 DEF Walking, Owns
  <2> QED BY <2>1, <2>2, HoldersShrink DEF Holders
<1>5. CASE RequestCancel(w)
  <2>1. /\ pc'[w] = after[w] /\ pc[w] = "cancel" /\ slots' = slots /\ visits' = visits /\ todo' = todo
        /\ hand' = hand /\ after' = after /\ after[w] \in {"walk", "publish", "finish", "gone"}
    BY <1>5 DEF RequestCancel, TypeOK, local
  <2>2. (Walking(w)' => Walking(w)) /\ \A d \in Items : Owns(w, d)' => Owns(w, d)
    BY <2>1 DEF Walking, Owns
  <2> QED BY <2>1, <2>2, HoldersShrink DEF Holders
<1>6. CASE SearchFile(w)
  <2>1. UNCHANGED <<pc, after, slots, visits, todo, hand, kid>>
    BY <1>6 DEF SearchFile
  <2>2. (Walking(w)' <=> Walking(w)) /\ \A d \in Items : Owns(w, d)' <=> Owns(w, d)
    BY <2>1 DEF Walking, Owns
  <2> QED BY <2>1, <2>2, HoldersShrink DEF Holders
<1>7. CASE VisitIdle(w)
  <2>1. PICK k \in todo[w] : kid' = [kid EXCEPT ![w] = k] /\ todo' = [todo EXCEPT ![w] = @ \ {k}]
    BY <1>7 DEF VisitIdle
  <2>2. /\ pc[w] = "walk" /\ pc'[w] = "donate" /\ Walking(w) /\ slots' = slots /\ visits' = visits
        /\ hand'[w] = hand[w] /\ todo'[w] = todo[w] \ {k} /\ kid'[w] = k
    BY <1>7, <2>1 DEF VisitIdle, TypeOK, Walking
  <2>3. \A d \in Items : Owns(w, d)' => Owns(w, d)
    BY <2>2 DEF Owns
  <2>4. todo[w] \subseteq Kids[hand[w]]
    BY <2>2 DEF Holders
  <2> QED BY <2>2, <2>3, <2>4, HoldersShrink
<1>8. CASE Finish(w) \/ SyncEnds(w) \/ WokenLeaves(w)
  <2>0. slots' = slots /\ visits' = visits
    BY <1>8 DEF Finish, SyncEnds, WokenLeaves
  <2>1. pc'[w] \in {"gone", "top"}
    <3>1. \/ \E s \in {"gone", "top"} : pc' = [pc EXCEPT ![w] = s]
          \/ \E s \in {"gone", "top"} : pc' = WakeAll([pc EXCEPT ![w] = s])
      BY <1>8 DEF Finish, SyncEnds, WokenLeaves
    <3>2. ASSUME NEW s \in {"gone", "top"}, pc' = WakeAll([pc EXCEPT ![w] = s]) PROVE pc'[w] = s
      BY <3>2, WakeAndGo DEF WorkerStates
    <3> QED BY <3>1, <3>2 DEF TypeOK
  <2>2. ~Walking(w)' /\ \A d \in Items : ~Owns(w, d)'
    BY <2>1 DEF Walking, Owns
  <2> QED BY <2>0, <2>1, <2>2, HoldersShrink DEF Walking
<1> QED BY <1>1, <1>2, <1>3, <1>4, <1>5, <1>6, <1>7, <1>8, HoldersTake, HoldersClaim, HoldersVisit,
           HoldersDonate, HoldersLate DEF WorkerNext, LoopStep, WalkStep

\* Nobody holds anything before the first worker runs.
LEMMA NoOwner ==
    ASSUME NEW v \in Workers, pc[v] \in {"none", "init", "gone"}
    PROVE  ~Walking(v) /\ pc[v] # "donate" /\ \A d \in Items : ~Owns(v, d)
BY DEF Walking, Owns

LEMMA HoldersInit == Init => Holders
<1> SUFFICES ASSUME Init PROVE Holders
  OBVIOUS
<1>1. \A v \in Workers : ~Walking(v) /\ pc[v] # "donate" /\ \A d \in Items : ~Owns(v, d)
  BY NoOwner DEF Init
<1>2. \A v \in Workers, d \in Items : ~InQueue(v, d) /\ \A i \in Nat : ~Queued(v, i, d)
  BY DEF Init, InQueue, Queued
<1>3. WalkedOnce
  BY DEF Init, WalkedOnce
<1> QED BY <1>1, <1>2, <1>3 DEF Holders

\* A step of the main thread that leaves slots and visits alone.
LEMMA HoldersKept ==
    ASSUME Holders, UNCHANGED <<visits, local>>,
           \/ UNCHANGED slots
           \/ \A v \in Workers, d \in Items, i \in Nat : ~InQueue(v, d)' /\ ~Queued(v, i, d)',
           \A v \in Workers : \/ pc'[v] = pc[v]
                              \/ pc'[v] \in {"init", "woken"} /\ pc[v] \in {"none", "wait"}
    PROVE  Holders'
<1>1. \A v \in Workers : /\ Walking(v)' <=> Walking(v)
                         /\ pc'[v] = "donate" <=> pc[v] = "donate"
                         /\ \A d \in Items : Owns(v, d)' <=> Owns(v, d)
  BY DEF local, Walking, Owns
<1>2. \A v \in Workers, d \in Items, i \in Nat :
        (InQueue(v, d)' => InQueue(v, d)) /\ (Queued(v, i, d)' => Queued(v, i, d))
  BY DEF InQueue, Queued
<1> QED BY <1>1, <1>2 DEF Holders, WalkedOnce, local

LEMMA HoldersSeed ==
    ASSUME TypeOK, Control, SeedFrontier
    PROVE  Holders'
<1>1. \A v \in Workers : pc'[v] = "none"
  BY Parameters DEF SeedFrontier, Control, Untouched, Workers
<1>2. \A v \in Workers : ~Walking(v)' /\ pc'[v] # "donate" /\ \A d \in Items : ~Owns(v, d)'
  BY <1>1 DEF Walking, Owns
<1>3. visits' = [d \in Items |-> 0]
  BY DEF SeedFrontier, Control, Untouched
<1>4. ASSUME NEW v \in Workers, NEW i \in Nat, NEW d \in Items, Queued(v, i, d)'
      PROVE  i # 0 /\ Deal(v, i) \in 1 .. Len(Roots) /\ d \in Below[Roots[Deal(v, i)]]
  <2>1. i \in 1 .. Len(slots'[v]) /\ d \in Below[slots'[v][i]]
    BY <1>4 DEF Queued
  <2> QED BY <2>1, SeedEffect
<1>5. ASSUME NEW v \in Workers, NEW w \in Workers, NEW i \in Nat, NEW j \in Nat, NEW d \in Items,
             Queued(v, i, d)', Queued(w, j, d)'
      PROVE  v = w /\ i = j
  <2>1. /\ i \in Nat \ {0} /\ j \in Nat \ {0}
        /\ Deal(v, i) \in 1 .. Len(Roots) /\ d \in Below[Roots[Deal(v, i)]]
        /\ Deal(w, j) \in 1 .. Len(Roots) /\ d \in Below[Roots[Deal(w, j)]]
    BY <1>4, <1>5
  <2>2. \A k, l \in 1 .. Len(Roots) : k # l => Below[Roots[k]] \cap Below[Roots[l]] = {}
    BY ForestAssumption
  <2>3. Deal(v, i) = Deal(w, j)
    BY <2>1, <2>2
  <2>4. /\ (Deal(v, i) - 1) % NumThreads = v /\ (Deal(v, i) - 1) \div NumThreads = i - 1
        /\ (Deal(w, j) - 1) % NumThreads = w /\ (Deal(w, j) - 1) \div NumThreads = j - 1
    BY <2>1, DealPosition
  <2>5. v = w /\ i - 1 = j - 1
    BY <2>3, <2>4
  <2> QED BY <2>1, <2>5
<1>6. WalkedOnce'
  BY <1>3 DEF WalkedOnce
<1> QED BY <1>2, <1>3, <1>5, <1>6 DEF Holders

LEMMA HoldersMain == TypeOK /\ Control /\ Holders /\ MainNext => Holders'
<1> SUFFICES ASSUME TypeOK, Control, Holders, MainNext PROVE Holders'
  OBVIOUS
<1>1. CASE OperandMissing \/ NothingSelected \/ SeedFails \/ MainCancels \/ JoinThreads
  BY <1>1, HoldersKept DEF OperandMissing, NothingSelected, SeedFails, MainCancels, JoinThreads, Holders
<1>2. CASE CreateThread
  <2>1. pc[started] = "none" /\ started \in Workers
    BY <1>2, Parameters DEF CreateThread, Control, TypeOK, Workers
  <2>2. \A v \in Workers : pc'[v] = pc[v] \/ (pc'[v] \in {"init", "woken"} /\ pc[v] \in {"none", "wait"})
    BY <1>2, <2>1 DEF CreateThread, Goto, TypeOK
  <2> QED BY <1>2, <2>2, HoldersKept DEF CreateThread
<1>3. CASE CreateThreadFails
  <2>1. \A v \in Workers : pc'[v] = pc[v] \/ (pc'[v] \in {"init", "woken"} /\ pc[v] \in {"none", "wait"})
    BY <1>3, WakeEffect DEF CreateThreadFails, TypeOK
  <2> QED BY <1>3, <2>1, HoldersKept DEF CreateThreadFails
<1>4. CASE Report
  <2>1. \A v \in Workers, d \in Items, i \in Nat : ~InQueue(v, d)' /\ ~Queued(v, i, d)'
    BY <1>4 DEF Report, InQueue, Queued
  <2> QED BY <1>4, <2>1, HoldersKept DEF Report
<1> QED BY <1>1, <1>2, <1>3, <1>4, HoldersSeed DEF MainNext

-----------------------------------------------------------------------------
(* The counters.                                                             *)

Slotted == {d \in Items : InSlots(d)}
Claiming == {v \in Workers : pc[v] = "claim"}
Actives == {v \in Workers : Active(v)}
Idle == {v \in Workers : pc[v] \in {"wait", "woken"}}

One(p) == IF p THEN 1 ELSE 0

\* The size of a set in which only the membership of w may have changed.
LEMMA SizeMove ==
    ASSUME NEW S \in SUBSET Workers, NEW T \in SUBSET Workers, NEW w \in Workers,
           \A v \in Workers \ {w} : v \in T <=> v \in S
    PROVE  /\ Cardinality(S) \in Nat /\ Cardinality(T) \in Nat
           /\ Cardinality(T) = Cardinality(S) + One(w \in T) - One(w \in S)
<1>1. IsFiniteSet(Workers)
  BY Parameters, FS_Interval DEF Workers
<1>2. IsFiniteSet(S) /\ IsFiniteSet(T)
  BY <1>1, FS_Subset
<1>3. Cardinality(S) \in Nat /\ Cardinality(T) \in Nat
  BY <1>2, FS_CardinalityType
<1>4. CASE w \in S <=> w \in T
  <2>1. S = T
    BY <1>4
  <2> QED BY <1>3, <1>4, <2>1 DEF One
<1>5. CASE w \in T /\ w \notin S
  <2>1. T = S \cup {w}
    BY <1>5
  <2> QED BY <1>2, <1>3, <1>5, <2>1, FS_AddElement DEF One
<1>6. CASE w \in S /\ w \notin T
  <2>1. T = S \ {w}
    BY <1>6
  <2> QED BY <1>2, <1>3, <1>6, <2>1, FS_RemoveElement DEF One
<1> QED BY <1>4, <1>5, <1>6

LEMMA SlottedSize == IsFiniteSet(Slotted) /\ Cardinality(Slotted) \in Nat
<1>1. IsFiniteSet(Slotted)
  BY Parameters, FS_Subset DEF Slotted
<1> QED BY <1>1, FS_CardinalityType

\* How the numbers of workers change with a step of w.
LEMMA Recount ==
    ASSUME NEW w \in Workers, OthersKeep(w)
    PROVE  /\ Cardinality(Claiming)' = Cardinality(Claiming) + One(pc'[w] = "claim") - One(pc[w] = "claim")
           /\ Cardinality(Actives)' = Cardinality(Actives) + One(Active(w)') - One(Active(w))
           /\ Cardinality(Idle)' = Cardinality(Idle) + One(pc'[w] \in {"wait", "woken"}) - One(pc[w] \in {"wait", "woken"})
           /\ Cardinality(Claiming) \in Nat /\ Cardinality(Actives) \in Nat /\ Cardinality(Idle) \in Nat
           /\ Cardinality(Claiming)' \in Nat /\ Cardinality(Actives)' \in Nat /\ Cardinality(Idle)' \in Nat
<1>1. \A v \in Workers \ {w} : /\ v \in Claiming' <=> v \in Claiming
                               /\ v \in Actives' <=> v \in Actives
                               /\ v \in Idle' <=> v \in Idle
  BY DEF OthersKeep, Claiming, Actives, Idle, Active
<1>2. /\ w \in Claiming' <=> pc'[w] = "claim"
      /\ w \in Claiming <=> pc[w] = "claim"
      /\ w \in Actives' <=> Active(w)'
      /\ w \in Actives <=> Active(w)
      /\ w \in Idle' <=> pc'[w] \in {"wait", "woken"}
      /\ w \in Idle <=> pc[w] \in {"wait", "woken"}
  BY DEF Claiming, Actives, Idle
<1>3. /\ Claiming \in SUBSET Workers /\ Claiming' \in SUBSET Workers
      /\ Actives \in SUBSET Workers /\ Actives' \in SUBSET Workers
      /\ Idle \in SUBSET Workers /\ Idle' \in SUBSET Workers
  BY DEF Claiming, Actives, Idle
<1>4. /\ Cardinality(Claiming') = Cardinality(Claiming) + One(w \in Claiming') - One(w \in Claiming)
      /\ Cardinality(Claiming) \in Nat /\ Cardinality(Claiming') \in Nat
  BY <1>1, <1>3, SizeMove
<1>5. /\ Cardinality(Actives') = Cardinality(Actives) + One(w \in Actives') - One(w \in Actives)
      /\ Cardinality(Actives) \in Nat /\ Cardinality(Actives') \in Nat
  BY <1>1, <1>3, SizeMove
<1>6. /\ Cardinality(Idle') = Cardinality(Idle) + One(w \in Idle') - One(w \in Idle)
      /\ Cardinality(Idle) \in Nat /\ Cardinality(Idle') \in Nat
  BY <1>1, <1>3, SizeMove
<1> QED BY <1>2, <1>4, <1>5, <1>6 DEF One

LEMMA SlottedTake ==
    ASSUME TypeOK, Holders, NEW w \in Workers, TakeItem(w)
    PROVE  Cardinality(Slotted)' = Cardinality(Slotted) - 1
<1>0. PICK v \in Workers : v = Victim(w)
  BY VictimIsWorker
<1>1. /\ \A u \in Workers \ {v} : slots'[u] = slots[u]
      /\ Len(slots'[v]) = Len(slots[v]) - 1 /\ Len(slots[v]) \in Nat \ {0}
  BY <1>0, TakenFrom
<1>2. PICK p \in 1 .. Len(slots[v]), s \in {0, 1} :
         /\ (s = 0 /\ p = Len(slots[v])) \/ (s = 1 /\ p = 1)
         /\ hand' = [hand EXCEPT ![w] = slots[v][p]] /\ slots[v][p] \in Items
         /\ \A i \in 1 .. Len(slots'[v]) : slots'[v][i] = slots[v][i + s]
  BY <1>0, TakenFrom
<1>3. PICK x \in Items : x = slots[v][p]
  BY <1>2
<1>4. x \in Slotted
  BY <1>3 DEF Slotted, InSlots
<1>5. \A u \in Workers : \A i \in 1 .. Len(slots[u]) : slots[u][i] = x => u = v /\ i = p
  <2>0. x \in Below[x]
    BY Forest
  <2>1. \A u \in Workers : \A i \in 1 .. Len(slots[u]) : slots[u][i] = x => Queued(u, i, x) /\ i \in Nat
    BY <2>0 DEF Queued, TypeOK
  <2>2. Queued(v, p, x) /\ p \in Nat
    BY <1>3, <2>1
  <2> QED BY <2>1, <2>2 DEF Holders
<1>6. Slotted' = Slotted \ {x}
  <2>1. ASSUME NEW e \in Slotted' PROVE e \in Slotted /\ e # x
    <3>1. PICK u \in Workers, i \in Nat : i \in 1 .. Len(slots'[u]) /\ slots'[u][i] = e
      BY DEF Slotted, InSlots
    <3>2. CASE u = v
      <4>1. i + s \in 1 .. Len(slots[v]) /\ slots[v][i + s] = e /\ i + s # p
        BY <1>1, <1>2, <3>1, <3>2
      <4> QED BY <1>5, <4>1 DEF Slotted, InSlots
    <3>3. CASE u # v
      <4>1. i \in 1 .. Len(slots[u]) /\ slots[u][i] = e
        BY <1>1, <3>1, <3>3
      <4> QED BY <1>5, <3>3, <4>1 DEF Slotted, InSlots
    <3> QED BY <3>2, <3>3
  <2>2. ASSUME NEW e \in Slotted, e # x PROVE e \in Slotted'
    <3>1. PICK u \in Workers, i \in Nat : i \in 1 .. Len(slots[u]) /\ slots[u][i] = e
      BY DEF Slotted, InSlots
    <3>2. CASE u = v
      <4>1. i # p
        BY <1>3, <2>2, <3>1, <3>2
      <4>2. i - s \in 1 .. Len(slots'[v]) /\ (i - s) + s = i
        BY <1>1, <1>2, <3>1, <3>2, <4>1
      <4>3. slots'[v][i - s] = e
        BY <1>2, <3>1, <3>2, <4>2
      <4> QED BY <4>2, <4>3 DEF Slotted, InSlots
    <3>3. CASE u # v
      <4>1. i \in 1 .. Len(slots'[u]) /\ slots'[u][i] = e
        BY <1>1, <3>1, <3>3
      <4> QED BY <4>1 DEF Slotted, InSlots
    <3> QED BY <3>2, <3>3
  <2> QED BY <2>1, <2>2
<1> QED BY <1>4, <1>6, SlottedSize, FS_RemoveElement

LEMMA SlottedDonate ==
    ASSUME TypeOK, Holders, NEW w \in Workers, Donate(w)
    PROVE  Cardinality(Slotted)' = Cardinality(Slotted) + 1
<1>1. /\ pc[w] = "donate" /\ kid[w] \in Items
      /\ slots' = [slots EXCEPT ![w] = Append(slots[w], kid[w])]
  BY DEF Donate, TypeOK
<1>2. /\ \A u \in Workers \ {w} : slots'[u] = slots[u]
      /\ Len(slots[w]) \in Nat /\ Len(slots'[w]) = Len(slots[w]) + 1 /\ slots'[w][Len(slots[w]) + 1] = kid[w]
      /\ \A i \in 1 .. Len(slots[w]) : slots'[w][i] = slots[w][i]
  BY <1>1 DEF TypeOK
<1>3. PICK x \in Items : x = kid[w]
  BY <1>1
<1>4. x \notin Slotted
  <2>1. Owns(w, x)
    BY <1>1, <1>3, Forest DEF Owns
  <2>2. \A u \in Workers : ~InQueue(u, x)
    BY <2>1 DEF Holders
  <2> QED BY <2>2, Forest DEF Slotted, InSlots, InQueue
<1>5. Slotted' = Slotted \cup {x}
  <2>1. ASSUME NEW e \in Slotted' PROVE e \in Slotted \/ e = x
    <3>1. PICK u \in Workers, i \in Nat : i \in 1 .. Len(slots'[u]) /\ slots'[u][i] = e
      BY DEF Slotted, InSlots
    <3>2. e = x \/ (i \in 1 .. Len(slots[u]) /\ slots[u][i] = e)
      BY <1>2, <1>3, <3>1
    <3> QED BY <3>2 DEF Slotted, InSlots
  <2>2. ASSUME NEW e \in Slotted PROVE e \in Slotted'
    <3>1. PICK u \in Workers, i \in Nat : i \in 1 .. Len(slots[u]) /\ slots[u][i] = e
      BY DEF Slotted, InSlots
    <3>2. i \in 1 .. Len(slots'[u]) /\ slots'[u][i] = e
      BY <1>2, <3>1
    <3> QED BY <3>2 DEF Slotted, InSlots
  <2>3. x \in Slotted'
    <3>1. Len(slots[w]) + 1 \in 1 .. Len(slots'[w])
      BY <1>2
    <3> QED BY <1>2, <1>3, <3>1 DEF Slotted, InSlots
  <2> QED BY <2>1, <2>2, <2>3 DEF Slotted
<1> QED BY <1>4, <1>5, SlottedSize, FS_AddElement

LEMMA SlottedSeed ==
    ASSUME SeedFrontier
    PROVE  Cardinality(Slotted)' = Len(Roots)
<1> DEFINE L == Len(Roots)
           f == [j \in 1 .. L |-> Roots[j]]
<1>0. L \in Nat /\ \A j \in 1 .. L : Roots[j] \in Items
  BY ForestAssumption
<1>1. ASSUME NEW j \in 1 .. L PROVE Roots[j] \in Slotted'
  <2>1. PICK w \in Workers, i \in Nat \ {0} : Deal(w, i) = j
    <3>1. /\ (j - 1) % NumThreads \in Workers /\ (j - 1) \div NumThreads + 1 \in Nat \ {0}
          /\ Deal((j - 1) % NumThreads, (j - 1) \div NumThreads + 1) = j
      BY DealtIsDealt
    <3> QED BY <3>1
  <2>2. i \in 1 .. Len(slots'[w])
    BY <1>0, <2>1, DealtOut, SeedEffect
  <2>3. slots'[w][i] = Roots[j]
    BY <2>1, <2>2, SeedEffect
  <2> QED BY <1>0, <2>2, <2>3 DEF Slotted, InSlots
<1>2. ASSUME NEW d \in Slotted' PROVE \E j \in 1 .. L : Roots[j] = d
  <2>1. PICK w \in Workers, i \in Nat : i \in 1 .. Len(slots'[w]) /\ slots'[w][i] = d
    BY DEF Slotted, InSlots
  <2> QED BY <2>1, SeedEffect
<1>3. ASSUME NEW j \in 1 .. L, NEW k \in 1 .. L, Roots[j] = Roots[k] PROVE j = k
  <2>1. \A m, n \in 1 .. Len(Roots) : m # n => Below[Roots[m]] \cap Below[Roots[n]] = {}
    BY ForestAssumption
  <2>2. Roots[j] \in Below[Roots[j]]
    BY <1>0, Forest
  <2> QED BY <1>3, <2>1, <2>2
<1>4. f \in [1 .. L -> Slotted']
  BY <1>1
<1>5. f \in Injection(1 .. L, Slotted')
  BY <1>3, <1>4 DEF Injection, IsInjective
<1>6. f \in Surjection(1 .. L, Slotted')
  BY <1>2, <1>4 DEF Surjection
<1>7. ExistsBijection(1 .. L, Slotted')
  BY <1>5, <1>6 DEF ExistsBijection, Bijection
<1>8. IsFiniteSet(1 .. L) /\ Cardinality(1 .. L) = L
  BY <1>0, FS_Interval
<1> QED BY <1>7, <1>8, FS_Bijection

\* CountersAgree in the terms of this module.
Counted ==
    main # "done" =>
         /\ pending_work = Cardinality(Slotted) + Cardinality(Claiming)
         /\ active_workers = Cardinality(Actives)
         /\ idle_workers = Cardinality(Idle)

LEMMA CountersAgreeIff == CountersAgree <=> TypeOK /\ Counted
BY DEF CountersAgree, Counted, Slotted, Claiming, Actives, Idle

LEMMA CountersWorker ==
    ASSUME TypeOK, Control, Holders, Counted, NEW w \in Workers, WorkerNext(w)
    PROVE  Counted'
<1>0. OthersKeep(w) /\ Moves(w) /\ main # "done" /\ main' # "done"
  BY WorkerStep DEF Moves, Control
<1> DEFINE S == Cardinality(Slotted)
           C == Cardinality(Claiming)
           A == Cardinality(Actives)
           I == Cardinality(Idle)
<1>1. /\ C' = C + One(pc'[w] = "claim") - One(pc[w] = "claim")
      /\ A' = A + One(Active(w)') - One(Active(w))
      /\ I' = I + One(pc'[w] \in {"wait", "woken"}) - One(pc[w] \in {"wait", "woken"})
      /\ C \in Nat /\ A \in Nat /\ I \in Nat /\ S \in Nat
      /\ C' \in Nat /\ A' \in Nat /\ I' \in Nat
  BY <1>0, Recount, SlottedSize
<1>2. pending_work = S + C /\ active_workers = A /\ idle_workers = I
  BY <1>0 DEF Counted
<1>3. slots' = slots => S' = S
  BY DEF Slotted, InSlots
<1> HIDE DEF S, C, A, I
<1> SUFFICES pending_work' = S' + C' /\ active_workers' = A' /\ idle_workers' = I'
  BY DEF Counted, S, C, A, I
<1> USE DEF Goto
<1>4. ASSUME UNCHANGED <<slots, counters>>, pc[w] # "claim", pc'[w] # "claim",
             Active(w)' <=> Active(w), pc[w] \in {"wait", "woken"} <=> pc'[w] \in {"wait", "woken"}
      PROVE  pending_work' = S' + C' /\ active_workers' = A' /\ idle_workers' = I'
  BY <1>1, <1>2, <1>3, <1>4 DEF counters, One
<1>5. CASE WorkerInit(w) \/ WorkerInitFails(w) \/ SyncRetries(w) \/ WokenSleeps(w) \/ SpuriousWakeup(w) \/ SyncStops(w)
  <2>1. /\ UNCHANGED <<slots, counters>> /\ pc[w] \in {"init", "sync", "woken", "wait"}
        /\ pc'[w] \in {"top", "gone", "woken", "wait"}
        /\ pc[w] \in {"wait", "woken"} <=> pc'[w] \in {"wait", "woken"}
    BY <1>5 DEF TypeOK, WorkerInit, WorkerInitFails, SyncRetries, WokenSleeps, SpuriousWakeup, SyncStops
  <2> QED BY <1>4, <2>1 DEF Active
<1>6. CASE Top(w) \/ ScanEmpty(w)
  <2>1. UNCHANGED <<slots, counters>> /\ pc[w] \in {"top", "scan"} /\ pc'[w] \in {"gone", "scan", "sync"}
    BY <1>6 DEF TypeOK, Top, ScanEmpty
  <2> QED BY <1>4, <2>1 DEF Active
<1>7. CASE \/ SearchFile(w) \/ VisitInline(w) \/ VisitIdle(w) \/ DonateLate(w) \/ WalkStops(w) \/ WalkFails(w)
           \/ WalkEnds(w) \/ Publish(w)
  <2>1. /\ UNCHANGED <<slots, counters>> /\ pc[w] \in {"walk", "donate", "publish"}
        /\ pc'[w] \in {"walk", "donate", "publish", "finish"}
    BY <1>7 DEF TypeOK, SearchFile, VisitInline, VisitIdle, DonateLate, WalkStops, WalkFails, WalkEnds, Publish
  <2> QED BY <1>4, <2>1 DEF Active
<1>8. CASE CompileFails(w)
  <2>1. UNCHANGED <<slots, counters>> /\ pc[w] = "init" /\ pc'[w] = "cancel" /\ after'[w] = "gone"
    BY <1>8, WakeAndGo DEF TypeOK, CompileFails, RaiseFatal, WorkerStates
  <2> QED BY <1>4, <2>1 DEF Active
<1>9. CASE PublishFails(w) \/ DonateFails(w) \/ SearchFatal(w)
  <2>1. /\ UNCHANGED <<slots, counters>> /\ pc[w] \in {"walk", "donate", "publish"}
        /\ \E s \in {"walk", "publish", "finish"} : RaiseFatal(w, s)
    BY <1>9 DEF PublishFails, DonateFails, SearchFatal
  <2>2. pc'[w] = "cancel" /\ after'[w] # "gone"
    BY <2>1, WakeAndGo DEF RaiseFatal, TypeOK, WorkerStates
  <2> QED BY <1>4, <2>1, <2>2 DEF Active
<1>10. CASE RequestCancel(w)
  <2>1. /\ UNCHANGED <<slots, counters>> /\ pc[w] = "cancel" /\ pc'[w] = after[w]
        /\ after[w] \in {"walk", "publish", "finish", "gone"}
    BY <1>10 DEF RequestCancel, TypeOK
  <2> QED BY <1>4, <2>1 DEF Active
<1>11. CASE SyncEnds(w)
  <2>1. UNCHANGED <<slots, counters>> /\ pc[w] = "sync" /\ pc'[w] = "gone"
    BY <1>11, WakeAndGo DEF SyncEnds, WorkerStates
  <2> QED BY <1>4, <2>1 DEF Active
<1>12. CASE TakeItem(w)
  <2>1. S' = S - 1
    BY <1>12, SlottedTake DEF S
  <2>2. pc[w] = "scan" /\ pc'[w] = "claim" /\ UNCHANGED counters
    BY <1>12 DEF TakeItem, TypeOK
  <2> QED BY <1>1, <1>2, <2>1, <2>2 DEF counters, One, Active
<1>13. CASE Claim(w)
  <2>1. /\ pc[w] = "claim" /\ pc'[w] = "walk" /\ slots' = slots /\ idle_workers' = idle_workers
        /\ active_workers' = active_workers + 1
        /\ pending_work' = IF pending_work > 0 THEN pending_work - 1 ELSE pending_work
    BY <1>13 DEF Claim, TypeOK
  <2>2. C' = C - 1 /\ A' = A + 1 /\ I' = I
    BY <1>1, <2>1 DEF One, Active
  <2> QED BY <1>1, <1>2, <1>3, <2>1, <2>2
<1>14. CASE Donate(w)
  <2>1. S' = S + 1
    BY <1>14, SlottedDonate DEF S
  <2>2. /\ pc[w] = "donate" /\ pending_work' = pending_work + 1
        /\ active_workers' = active_workers /\ idle_workers' = idle_workers
    BY <1>14 DEF Donate
  <2>3. pc'[w] = "walk"
    BY <1>14, WakeAndGo DEF Donate, WorkerStates
  <2> QED BY <1>1, <1>2, <2>1, <2>2, <2>3 DEF One, Active
<1>15. CASE Finish(w)
  <2>1. /\ pc[w] = "finish" /\ slots' = slots /\ idle_workers' = idle_workers /\ pending_work' = pending_work
        /\ active_workers' = IF active_workers > 0 THEN active_workers - 1 ELSE active_workers
    BY <1>15 DEF Finish
  <2>2. pc'[w] = "top"
    BY <1>15, WakeAndGo DEF Finish, TypeOK, WorkerStates
  <2>3. C' = C /\ A' = A - 1 /\ I' = I
    BY <1>1, <2>1, <2>2 DEF One, Active
  <2> QED BY <1>1, <1>2, <1>3, <2>1, <2>3
<1>16. CASE SyncSleeps(w)
  <2>1. /\ pc[w] = "sync" /\ pc'[w] = "wait" /\ slots' = slots /\ idle_workers' = idle_workers + 1
        /\ pending_work' = pending_work /\ active_workers' = active_workers
    BY <1>16 DEF SyncSleeps, TypeOK
  <2> QED BY <1>1, <1>2, <1>3, <2>1 DEF One, Active
<1>17. CASE WokenLeaves(w)
  <2>1. /\ pc[w] = "woken" /\ slots' = slots /\ idle_workers' = idle_workers - 1
        /\ pending_work' = pending_work /\ active_workers' = active_workers
    BY <1>17 DEF WokenLeaves
  <2>2. pc'[w] \in {"gone", "top"}
    BY <1>17, WakeAndGo DEF WokenLeaves, TypeOK, WorkerStates
  <2> QED BY <1>1, <1>2, <1>3, <2>1, <2>2 DEF One, Active
<1> QED BY <1>5, <1>6, <1>7, <1>8, <1>9, <1>10, <1>11, <1>12, <1>13, <1>14, <1>15, <1>16, <1>17
       DEF WorkerNext, LoopStep, WalkStep

LEMMA CountersMain == TypeOK /\ Control /\ Counted /\ MainNext => Counted'
<1> SUFFICES ASSUME TypeOK, Control, Counted, MainNext PROVE Counted'
  OBVIOUS
<1>1. ASSUME UNCHANGED <<slots, counters, after>>, main # "done",
             \A v \in Workers : \/ pc'[v] = pc[v]
                                \/ pc'[v] = "init" /\ pc[v] = "none"
                                \/ pc'[v] = "woken" /\ pc[v] = "wait"
      PROVE  Counted'
  <2>1. Slotted' = Slotted /\ Claiming' = Claiming /\ Actives' = Actives /\ Idle' = Idle
    BY <1>1 DEF Slotted, InSlots, Claiming, Actives, Active, Idle
  <2> QED BY <1>1, <2>1 DEF Counted, counters
<1>2. CASE OperandMissing \/ NothingSelected \/ SeedFails \/ MainCancels \/ JoinThreads
  BY <1>1, <1>2 DEF OperandMissing, NothingSelected, SeedFails, MainCancels, JoinThreads, local
<1>3. CASE SeedFrontier
  <2>1. \A v \in Workers : pc[v] = "none" /\ pc'[v] = "none"
    BY <1>3, Parameters DEF SeedFrontier, Control, Untouched, Workers
  <2>2. Claiming' = {} /\ Actives' = {} /\ Idle' = {}
    BY <2>1 DEF Claiming, Actives, Active, Idle
  <2>3. Cardinality(Claiming') = 0 /\ Cardinality(Actives') = 0 /\ Cardinality(Idle') = 0
    BY <2>2, FS_EmptySet
  <2>4. /\ pending_work' = Len(Roots) /\ active_workers' = 0 /\ idle_workers' = 0 /\ Len(Roots) \in Nat
    BY <1>3, ForestAssumption DEF SeedFrontier, Control, Untouched
  <2> QED BY <1>3, <2>3, <2>4, SlottedSeed DEF Counted
<1>4. CASE CreateThread
  <2>1. pc[started] = "none" /\ started \in Workers
    BY <1>4, Parameters DEF CreateThread, Control, TypeOK, Workers
  <2>2. \A v \in Workers : pc'[v] = pc[v] \/ (pc'[v] = "init" /\ pc[v] = "none")
    BY <1>4, <2>1 DEF CreateThread, Goto, TypeOK
  <2> QED BY <1>1, <1>4, <2>2 DEF CreateThread, local
<1>5. CASE CreateThreadFails
  <2>1. \A v \in Workers : pc'[v] = pc[v] \/ (pc'[v] = "woken" /\ pc[v] = "wait")
    BY <1>5, WakeEffect DEF CreateThreadFails, TypeOK
  <2> QED BY <1>1, <1>5, <2>1 DEF CreateThreadFails, local
<1>6. CASE Report
  BY <1>6 DEF Report, Counted
<1> QED BY <1>2, <1>3, <1>4, <1>5, <1>6 DEF MainNext

-----------------------------------------------------------------------------
(* Sleep and shutdown.                                                       *)

LEMMA NoneCounted ==
    ASSUME NEW S \in SUBSET Workers
    PROVE  Cardinality(S) \in Nat /\ (Cardinality(S) = 0 <=> S = {})
<1>1. IsFiniteSet(Workers)
  BY Parameters, FS_Interval DEF Workers
<1>2. IsFiniteSet(S)
  BY <1>1, FS_Subset
<1> QED BY <1>2, FS_CardinalityType, FS_EmptySet

\* What counters at zero mean.
LEMMA ZeroCounts ==
    ASSUME TypeOK, Counted, main # "done"
    PROVE  /\ pending_work = 0 => \A v \in Workers : slots[v] = <<>> /\ pc[v] # "claim"
           /\ active_workers = 0 <=> \A v \in Workers : ~Active(v)
           /\ idle_workers = 0 <=> \A v \in Workers : pc[v] \notin {"wait", "woken"}
<1>1. /\ Cardinality(Claiming) \in Nat /\ (Cardinality(Claiming) = 0 <=> Claiming = {})
      /\ Cardinality(Actives) \in Nat /\ (Cardinality(Actives) = 0 <=> Actives = {})
      /\ Cardinality(Idle) \in Nat /\ (Cardinality(Idle) = 0 <=> Idle = {})
  BY NoneCounted DEF Claiming, Actives, Idle
<1>2. Cardinality(Slotted) \in Nat /\ (Cardinality(Slotted) = 0 <=> Slotted = {})
  BY SlottedSize, FS_EmptySet
<1>3. ASSUME pending_work = 0, NEW v \in Workers PROVE slots[v] = <<>> /\ pc[v] # "claim"
  <2>1. Slotted = {} /\ Claiming = {}
    BY <1>1, <1>2, <1>3 DEF Counted
  <2>2. ASSUME slots[v] # <<>> PROVE FALSE
    <3>1. slots[v] \in Seq(Items) /\ Len(slots[v]) \in Nat \ {0} /\ slots[v][1] \in Items
      BY <2>2 DEF TypeOK
    <3>2. 1 \in 1 .. Len(slots[v])
      BY <3>1
    <3>3. slots[v][1] \in Slotted
      BY <3>1, <3>2 DEF Slotted, InSlots
    <3> QED BY <2>1, <3>3
  <2> QED BY <2>1, <2>2 DEF Claiming
<1>4. active_workers = 0 <=> \A v \in Workers : ~Active(v)
  BY <1>1 DEF Counted, Actives
<1>5. idle_workers = 0 <=> \A v \in Workers : pc[v] \notin {"wait", "woken"}
  BY <1>1 DEF Counted, Idle
<1> QED BY <1>3, <1>4, <1>5

\* A worker without work finds none while the slots are empty.
LEMMA StaysWithout ==
    ASSUME TypeOK, Control, NEW w \in Workers, WorkerNext(w), ~fatal_error',
           pc[w] # "claim", ~Active(w), \A v \in Workers : slots[v] = <<>>
    PROVE  slots' = slots /\ pc'[w] # "claim" /\ ~Active(w)'
<1> USE DEF Goto
<1>1. CASE WorkerInit(w) \/ WorkerInitFails(w) \/ SyncRetries(w) \/ WokenSleeps(w) \/ SpuriousWakeup(w)
           \/ SyncStops(w) \/ SyncSleeps(w) \/ Top(w) \/ ScanEmpty(w)
  <2>1. slots' = slots /\ pc'[w] \in {"top", "gone", "scan", "sync", "wait", "woken"}
    BY <1>1 DEF TypeOK, WorkerInit, WorkerInitFails, SyncRetries, WokenSleeps, SpuriousWakeup, SyncStops,
       SyncSleeps, Top, ScanEmpty
  <2> QED BY <2>1 DEF Active
<1>2. CASE TakeItem(w)
  BY <1>2, VictimIsWorker DEF TakeItem
<1>3. CASE CompileFails(w) \/ PublishFails(w) \/ DonateFails(w) \/ SearchFatal(w)
  BY <1>3 DEF CompileFails, PublishFails, DonateFails, SearchFatal, RaiseFatal
<1>4. CASE RequestCancel(w)
  BY <1>4 DEF RequestCancel, Control
<1>5. CASE Claim(w) \/ SearchFile(w) \/ VisitInline(w) \/ VisitIdle(w) \/ Donate(w) \/ DonateLate(w) \/ WalkStops(w)
           \/ WalkFails(w) \/ WalkEnds(w) \/ Publish(w) \/ Finish(w)
  BY <1>5 DEF Claim, SearchFile, VisitInline, VisitIdle, Donate, DonateLate, WalkStops, WalkFails, WalkEnds,
     Publish, Finish, Active
<1>6. CASE SyncEnds(w)
  <2>1. slots' = slots /\ pc'[w] = "gone"
    BY <1>6, WakeAndGo DEF SyncEnds, WorkerStates
  <2> QED BY <2>1 DEF Active
<1>7. CASE WokenLeaves(w)
  <2>1. slots' = slots /\ pc'[w] \in {"gone", "top"}
    BY <1>7, WakeAndGo DEF WokenLeaves, TypeOK, WorkerStates
  <2> QED BY <2>1 DEF Active
<1> QED BY <1>1, <1>2, <1>3, <1>4, <1>5, <1>6, <1>7 DEF WorkerNext, LoopStep, WalkStep

\* Shutdown is declared, without a failure, only when all work is done.
LEMMA ShutdownWorker ==
    ASSUME TypeOK, Control, Counted, Counted', NEW w \in Workers, WorkerNext(w), OthersKeep(w),
           ~shutdown, shutdown', ~fatal_error', main # "done", main' # "done"
    PROVE  /\ \A v \in Workers : slots'[v] = <<>>
           /\ \A v \in Workers : pc'[v] # "claim" /\ ~Active(v)'
<1>1. /\ Finish(w) \/ SyncEnds(w) \/ WokenLeaves(w)
      /\ slots' = slots /\ pending_work = 0
  <2>1. ~(CompileFails(w) \/ PublishFails(w) \/ DonateFails(w) \/ SearchFatal(w))
    BY DEF CompileFails, PublishFails, DonateFails, SearchFatal, RaiseFatal
  <2>2. ~(WorkerInit(w) \/ WorkerInitFails(w) \/ SyncRetries(w) \/ WokenSleeps(w) \/ SpuriousWakeup(w)
           \/ SyncStops(w) \/ SyncSleeps(w) \/ Top(w) \/ ScanEmpty(w) \/ RequestCancel(w) \/ TakeItem(w))
    BY DEF WorkerInit, WorkerInitFails, SyncRetries, WokenSleeps, SpuriousWakeup, SyncStops,
       SyncSleeps, Top, ScanEmpty, RequestCancel, TakeItem, status
  <2>3. ~(Claim(w) \/ SearchFile(w) \/ VisitInline(w) \/ VisitIdle(w) \/ Donate(w) \/ DonateLate(w) \/ WalkStops(w)
           \/ WalkFails(w) \/ WalkEnds(w) \/ Publish(w))
    BY DEF Claim, SearchFile, VisitInline, VisitIdle, Donate, DonateLate, WalkStops, WalkFails, WalkEnds,
       Publish, status
  <2>4. Finish(w) \/ SyncEnds(w) \/ WokenLeaves(w)
    BY <2>1, <2>2, <2>3 DEF WorkerNext, LoopStep, WalkStep
  <2> QED BY <2>4 DEF Finish, SyncEnds, WokenLeaves, NoWork
<1>2. pending_work' = pending_work /\ active_workers' = 0
  BY <1>1 DEF Finish, SyncEnds, WokenLeaves, NoWork, counters
<1>3. \A v \in Workers : slots'[v] = <<>> /\ pc[v] # "claim"
  BY <1>1, ZeroCounts
<1>4. pc'[w] \in {"top", "gone"}
  BY <1>1, WakeAndGo DEF Finish, SyncEnds, WokenLeaves, Goto, TypeOK, WorkerStates
<1>5. Actives' = {}
  <2>1. Actives' \in SUBSET Workers
    BY DEF Actives
  <2>2. Cardinality(Actives') = 0
    BY <1>2 DEF Counted
  <2> QED BY <2>1, <2>2, NoneCounted
<1> QED BY <1>3, <1>4, <1>5 DEF OthersKeep, Actives

\* What a step of w means for the sleepers: it wakes them all, or it leaves
\* what they wait for alone.
LEMMA StepKinds ==
    ASSUME TypeOK, NEW w \in Workers, WorkerNext(w)
    PROVE  \/ \A v \in Workers : pc'[v] # "wait"
           \/ Claim(w)
           \/ /\ Finish(w) /\ pc'[w] # "wait" /\ UNCHANGED <<pending_work, shutdown, fatal_error>>
              /\ ~(NoWork(pending_work, active_workers') /\ idle_workers > 0)
           \/ /\ UNCHANGED <<pending_work, active_workers, shutdown, fatal_error>>
              /\ pc'[w] = "wait" => ~Stopping /\ pending_work = 0 /\ active_workers > 0
<1> USE DEF Goto
<1>1. CASE WorkerInit(w) \/ WorkerInitFails(w) \/ SyncRetries(w) \/ WokenSleeps(w) \/ SpuriousWakeup(w)
           \/ SyncStops(w) \/ SyncSleeps(w) \/ Top(w) \/ ScanEmpty(w) \/ TakeItem(w)
  BY <1>1 DEF WorkerInit, WorkerInitFails, SyncRetries, WokenSleeps, SpuriousWakeup, SyncStops,
     SyncSleeps, Top, ScanEmpty, TakeItem, counters, status, TypeOK
<1>2. CASE RequestCancel(w)
  <2>1. pc'[w] # "wait" /\ UNCHANGED <<pending_work, active_workers, shutdown, fatal_error>>
    BY <1>2 DEF RequestCancel, TypeOK, counters
  <2> QED BY <2>1
<1>3. CASE CompileFails(w) \/ PublishFails(w) \/ DonateFails(w) \/ SearchFatal(w)
  <2>1. pc' = WakeAll([pc EXCEPT ![w] = "cancel"])
    BY <1>3 DEF CompileFails, PublishFails, DonateFails, SearchFatal, RaiseFatal
  <2> QED BY <2>1, WakeAndGo DEF WorkerStates
<1>4. CASE SearchFile(w) \/ VisitInline(w) \/ VisitIdle(w) \/ DonateLate(w) \/ WalkStops(w)
           \/ WalkFails(w) \/ WalkEnds(w) \/ Publish(w)
  BY <1>4 DEF SearchFile, VisitInline, VisitIdle, DonateLate, WalkStops, WalkFails, WalkEnds,
     Publish, counters, status, TypeOK
<1>5. CASE Donate(w) \/ SyncEnds(w)
  BY <1>5, WakeAndGo DEF Donate, SyncEnds, WorkerStates
<1>6. CASE Finish(w)
  <2>1. CASE pc' = WakeAll([pc EXCEPT ![w] = "top"])
    BY <2>1, WakeAndGo DEF WorkerStates
  <2>2. CASE pc' = [pc EXCEPT ![w] = "top"] /\ UNCHANGED shutdown
             /\ ~(NoWork(pending_work, active_workers') /\ idle_workers > 0)
    BY <1>6, <2>2 DEF Finish, TypeOK
  <2> QED BY <1>6, <2>1, <2>2 DEF Finish
<1>7. CASE WokenLeaves(w)
  <2>1. CASE pc' = WakeAll([pc EXCEPT ![w] = "gone"])
    BY <2>1, WakeAndGo DEF WorkerStates
  <2>2. CASE UNCHANGED shutdown /\ pc' = [pc EXCEPT ![w] = IF Stopping THEN "gone" ELSE "top"]
    BY <1>7, <2>2 DEF WokenLeaves, TypeOK
  <2> QED BY <1>7, <2>1, <2>2 DEF WokenLeaves
<1> QED BY <1>1, <1>2, <1>3, <1>4, <1>5, <1>6, <1>7 DEF WorkerNext, LoopStep, WalkStep

LEMMA SleepWorker ==
    ASSUME TypeOK, TypeOK', Control, Counted, Counted', SleepAndShutdown, NEW w \in Workers, WorkerNext(w)
    PROVE  SleepAndShutdown'
<1>1. OthersKeep(w) /\ Moves(w) /\ main # "done" /\ main' # "done"
  BY WorkerStep DEF Moves, Control
<1>2. ASSUME shutdown', ~fatal_error'
      PROVE  /\ \A v \in Workers : slots'[v] = <<>>
             /\ \A v \in Workers : pc'[v] # "claim" /\ ~Active(v)'
  <2>1. CASE ~shutdown
    BY <1>1, <1>2, <2>1, ShutdownWorker
  <2>2. CASE shutdown
    <3>1. ~fatal_error
      BY <1>1, <1>2 DEF Moves
    <3>2. \A v \in Workers : slots[v] = <<>> /\ pc[v] # "claim" /\ ~Active(v)
      BY <2>2, <3>1 DEF SleepAndShutdown
    <3>3. slots' = slots /\ pc'[w] # "claim" /\ ~Active(w)'
      BY <1>2, <3>2, StaysWithout
    <3> QED BY <1>1, <3>2, <3>3 DEF OthersKeep, Active
  <2> QED BY <2>1, <2>2
<1>3. ASSUME NEW v \in Workers, pc'[v] = "wait"
      PROVE  pending_work' = 0 /\ ~shutdown' /\ ~fatal_error' /\ active_workers' # 0
  <2>1. v # w => /\ pc[v] = "wait" /\ pending_work = 0 /\ ~shutdown /\ ~fatal_error
                 /\ \E u \in Workers : Active(u)
    BY <1>1, <1>3 DEF OthersKeep, SleepAndShutdown
  <2>2. v # w => active_workers # 0 /\ idle_workers # 0 /\ \A u \in Workers : pc[u] # "claim"
    BY <1>1, <2>1, ZeroCounts
  <2>3. CASE Claim(w)
    BY <1>3, <2>2, <2>3 DEF Claim, Goto, TypeOK
  <2>4. CASE /\ Finish(w) /\ pc'[w] # "wait" /\ UNCHANGED <<pending_work, shutdown, fatal_error>>
             /\ ~(NoWork(pending_work, active_workers') /\ idle_workers > 0)
    <3>1. v # w /\ idle_workers \in Nat
      BY <1>3, <2>4 DEF TypeOK
    <3> QED BY <2>1, <2>2, <2>4, <3>1 DEF NoWork
  <2>5. CASE /\ UNCHANGED <<pending_work, active_workers, shutdown, fatal_error>>
             /\ pc'[w] = "wait" => ~Stopping /\ pending_work = 0 /\ active_workers > 0
    <3>1. CASE v = w
      <4>1. ~Stopping /\ pending_work = 0 /\ active_workers > 0
        BY <1>3, <2>5, <3>1
      <4>2. active_workers # 0
        BY <4>1 DEF TypeOK
      <4> QED BY <2>5, <4>1, <4>2 DEF Stopping
    <3>2. CASE v # w
      BY <2>1, <2>2, <2>5, <3>2
    <3> QED BY <3>1, <3>2
  <2> QED BY <1>3, <2>3, <2>4, <2>5, StepKinds
<1>4. active_workers' # 0 => \E u \in Workers : Active(u)'
  <2>1. Actives' \in SUBSET Workers
    BY DEF Actives
  <2>2. active_workers' = Cardinality(Actives')
    BY <1>1 DEF Counted
  <2>3. active_workers' # 0 => Actives' # {}
    BY <2>1, <2>2, NoneCounted
  <2> QED BY <2>3 DEF Actives
<1> QED BY <1>2, <1>3, <1>4 DEF SleepAndShutdown

LEMMA SleepMain == TypeOK /\ Control /\ SleepAndShutdown /\ MainNext => SleepAndShutdown'
<1> SUFFICES ASSUME TypeOK, Control, SleepAndShutdown, MainNext PROVE SleepAndShutdown'
  OBVIOUS
<1>1. CASE OperandMissing \/ MainCancels \/ JoinThreads \/ NothingSelected
  <2>1. UNCHANGED <<pc, after, slots, pending_work, shutdown, fatal_error>>
    BY <1>1 DEF OperandMissing, MainCancels, JoinThreads, NothingSelected, counters, local, status
  <2>2. \A v \in Workers : Active(v)' <=> Active(v)
    BY <2>1 DEF Active
  <2> QED BY <2>1, <2>2 DEF SleepAndShutdown
<1>2. CASE SeedFrontier \/ SeedFails
  <2>1. \A v \in Workers : pc'[v] = "none"
    BY <1>2, Parameters DEF SeedFrontier, SeedFails, Control, Untouched, Workers
  <2>2. shutdown' => fatal_error'
    BY <1>2 DEF SeedFrontier, SeedFails, Control, Untouched, status
  <2> QED BY <2>1, <2>2 DEF SleepAndShutdown
<1>3. CASE CreateThread
  <2>1. started \in Workers
    BY <1>3, Parameters DEF CreateThread, Control, TypeOK, Workers
  <2>2. \A v \in Workers : pc'[v] = IF v = started THEN "init" ELSE pc[v]
    BY <1>3, <2>1 DEF CreateThread, Goto, TypeOK
  <2>3. pc[started] = "none"
    BY <1>3, <2>1, Parameters DEF CreateThread, Control, TypeOK, Workers
  <2>4. \A v \in Workers : (Active(v)' <=> Active(v)) /\ (pc'[v] = "wait" <=> pc[v] = "wait") /\ (pc'[v] = "claim" <=> pc[v] = "claim")
    BY <1>3, <2>1, <2>2, <2>3 DEF CreateThread, Active, local
  <2> QED BY <1>3, <2>4 DEF SleepAndShutdown, CreateThread, counters, status
<1>4. CASE CreateThreadFails
  BY <1>4, WakeEffect DEF SleepAndShutdown, CreateThreadFails, TypeOK
<1>5. CASE Report
  <2>1. \A v \in Workers : pc'[v] \in {"gone", "none"}
    BY <1>5 DEF Report, Control
  <2> QED BY <1>5, <2>1 DEF SleepAndShutdown, Report, Active
<1> QED BY <1>1, <1>2, <1>3, <1>4, <1>5 DEF MainNext

-----------------------------------------------------------------------------
(* Nothing is lost.                                                          *)

\* What a step of w does with the items it has, and with those in the slots.
Covers(w) ==
    /\ \A d \in Items : Owns(w, d) =>
          Owns(w, d)' \/ (\E u \in Workers : InQueue(u, d)') \/ visits'[d] = 1 \/ Failing(w)'
    /\ \A u \in Workers, d \in Items : InQueue(u, d) => InQueue(u, d)' \/ Owns(w, d)'
    /\ \A d \in Items : visits'[d] >= visits[d]

LEMMA CoversKept ==
    ASSUME NEW w \in Workers, slots' = slots, visits' = visits, TypeOK, \A d \in Items : Owns(w, d) => Owns(w, d)'
    PROVE  Covers(w)
BY DEF Covers, InQueue, TypeOK

\* Part of the tree is walked: the others of Covers for the items of S.
LEMMA CoversWalk ==
    ASSUME NEW w \in Workers, slots' = slots, TypeOK, Holders,
           NEW S, \A d \in Items : visits'[d] = IF d \in S THEN visits[d] + 1 ELSE visits[d],
           \A d \in Items : Owns(w, d) => Owns(w, d)' \/ d \in S
    PROVE  Covers(w)
<1>1. ASSUME NEW d \in Items, Owns(w, d) PROVE Owns(w, d)' \/ visits'[d] = 1
  <2>1. visits[d] = 0
    BY <1>1 DEF Holders
  <2> QED BY <1>1, <2>1
<1>2. \A d \in Items : visits'[d] >= visits[d]
  <2>1. \A d \in Items : visits[d] \in Nat
    BY DEF TypeOK
  <2> QED BY <2>1
<1> QED BY <1>1, <1>2 DEF Covers, InQueue

LEMMA CoversWorker ==
    ASSUME TypeOK, Control, Holders, NEW w \in Workers, WorkerNext(w), ~fatal_error'
    PROVE  Covers(w)
<1> USE DEF Goto
<1>0. ~fatal_error /\ pc[w] # "cancel" /\ ~Requested
  BY WorkerStep DEF Moves, Control
<1>1. CASE \/ WorkerInit(w) \/ WorkerInitFails(w) \/ SyncRetries(w) \/ WokenSleeps(w) \/ SpuriousWakeup(w)
           \/ SyncStops(w) \/ SyncSleeps(w) \/ Publish(w) \/ Top(w) \/ ScanEmpty(w) \/ RequestCancel(w)
  <2>1. slots' = slots /\ visits' = visits /\ \A d \in Items : ~Owns(w, d)
    BY <1>0, <1>1 DEF WorkerInit, WorkerInitFails, SyncRetries, WokenSleeps, SpuriousWakeup, SyncStops,
       SyncSleeps, Publish, Top, ScanEmpty, RequestCancel, Owns, Walking
  <2> QED BY <2>1, CoversKept
<1>2. CASE Finish(w) \/ SyncEnds(w) \/ WokenLeaves(w)
  <2>1. slots' = slots /\ visits' = visits /\ \A d \in Items : ~Owns(w, d)
    BY <1>2 DEF Finish, SyncEnds, WokenLeaves, Owns, Walking
  <2> QED BY <2>1, CoversKept
<1>3. CASE CompileFails(w) \/ PublishFails(w) \/ DonateFails(w) \/ SearchFatal(w)
  BY <1>3 DEF CompileFails, PublishFails, DonateFails, SearchFatal, RaiseFatal
<1>4. CASE WalkStops(w)
  BY <1>0, <1>4 DEF WalkStops
<1>5. CASE WalkEnds(w)
  <2>1. slots' = slots /\ visits' = visits /\ \A d \in Items : ~Owns(w, d)
    BY <1>5 DEF WalkEnds, Owns
  <2> QED BY <2>1, CoversKept
<1>6. CASE SearchFile(w)
  <2>1. UNCHANGED <<pc, after, slots, visits, todo, hand, kid>>
    BY <1>6 DEF SearchFile
  <2>2. \A d \in Items : Owns(w, d) => Owns(w, d)'
    BY <2>1 DEF Walking, Owns
  <2> QED BY <2>1, <2>2, CoversKept
<1>7. CASE WalkFails(w)
  <2>1. Failing(w)'
    <3>1. flags'[w] = flags[w] \cup {"error"} /\ pc'[w] = "publish"
      BY <1>7 DEF WalkFails, TypeOK
    <3> QED BY <3>1 DEF Failing
  <2>2. slots' = slots /\ visits' = visits
    BY <1>7 DEF WalkFails
  <2> QED BY <2>1, <2>2 DEF Covers, InQueue, TypeOK
<1>8. CASE VisitIdle(w)
  <2>1. PICK k \in todo[w] : kid' = [kid EXCEPT ![w] = k] /\ todo' = [todo EXCEPT ![w] = @ \ {k}]
    BY <1>8 DEF VisitIdle
  <2>2. /\ pc[w] = "walk" /\ pc'[w] = "donate" /\ slots' = slots /\ visits' = visits
        /\ todo'[w] = todo[w] \ {k} /\ kid'[w] = k
    BY <1>8, <2>1 DEF VisitIdle, TypeOK
  <2>3. \A d \in Items : Owns(w, d) => Owns(w, d)'
    BY <2>2 DEF Owns, Walking
  <2> QED BY <2>2, <2>3, CoversKept
<1>9. CASE VisitInline(w)
  <2>1. PICK k \in todo[w] : Walk(Below[k]) /\ todo' = [todo EXCEPT ![w] = @ \ {k}]
    BY <1>9 DEF VisitInline
  <2>2. pc[w] = "walk" /\ pc'[w] = "walk" /\ slots' = slots /\ todo'[w] = todo[w] \ {k}
    BY <1>9, <2>1 DEF VisitInline, TypeOK
  <2> DEFINE S == Below[k]
  <2>3. \A d \in Items : visits'[d] = IF d \in S THEN visits[d] + 1 ELSE visits[d]
    BY <2>1 DEF Walk
  <2>4. \A d \in Items : Owns(w, d) => Owns(w, d)' \/ d \in S
    BY <2>2 DEF Owns, Walking
  <2> HIDE DEF S
  <2> QED BY <2>2, <2>3, <2>4, CoversWalk
<1>10. CASE DonateLate(w)
  <2>1. pc[w] = "donate" /\ pc'[w] = "walk" /\ slots' = slots /\ todo'[w] = todo[w]
    BY <1>10 DEF DonateLate, TypeOK, local
  <2> DEFINE S == Below[kid[w]]
  <2>2. \A d \in Items : visits'[d] = IF d \in S THEN visits[d] + 1 ELSE visits[d]
    BY <1>10 DEF DonateLate, Walk
  <2>3. \A d \in Items : Owns(w, d) => Owns(w, d)' \/ d \in S
    BY <2>1 DEF Owns, Walking
  <2> HIDE DEF S
  <2> QED BY <2>1, <2>2, <2>3, CoversWalk
<1>11. CASE Claim(w)
  <2> DEFINE S == {hand[w]}
  <2>1. /\ pc[w] = "claim" /\ hand[w] \in Items /\ slots' = slots
        /\ todo'[w] = Kids[hand[w]] /\ pc'[w] = "walk"
        /\ \A d \in Items : visits'[d] = IF d \in S THEN visits[d] + 1 ELSE visits[d]
    BY <1>11 DEF Claim, Walk, TypeOK
  <2>2. \A d \in Items : Owns(w, d) => Owns(w, d)' \/ d \in S
    BY <2>1, Forest DEF Owns, Walking
  <2> HIDE DEF S
  <2> QED BY <2>1, <2>2, CoversWalk
<1>12. CASE Donate(w)
  <2>1. /\ pc[w] = "donate" /\ visits' = visits /\ todo' = todo
        /\ slots' = [slots EXCEPT ![w] = Append(slots[w], kid[w])]
    BY <1>12 DEF Donate, TypeOK, local
  <2>2. pc'[w] = "walk"
    BY <1>12, WakeAndGo DEF Donate, WorkerStates
  <2>3. /\ \A u \in Workers \ {w} : slots'[u] = slots[u]
        /\ Len(slots[w]) \in Nat /\ Len(slots'[w]) = Len(slots[w]) + 1 /\ slots'[w][Len(slots[w]) + 1] = kid[w]
        /\ \A i \in 1 .. Len(slots[w]) : slots'[w][i] = slots[w][i]
    BY <2>1 DEF TypeOK
  <2>4. ASSUME NEW d \in Items, Owns(w, d) PROVE Owns(w, d)' \/ InQueue(w, d)'
    <3>1. CASE d \in Below[kid[w]]
      <4>1. Len(slots[w]) + 1 \in 1 .. Len(slots'[w])
        BY <2>3
      <4> QED BY <2>3, <3>1, <4>1 DEF InQueue
    <3>2. CASE d \notin Below[kid[w]]
      BY <2>1, <2>2, <2>4, <3>2 DEF Owns, Walking
    <3> QED BY <3>1, <3>2
  <2>5. ASSUME NEW u \in Workers, NEW d \in Items, InQueue(u, d) PROVE InQueue(u, d)'
    <3>1. PICK i \in 1 .. Len(slots[u]) : d \in Below[slots[u][i]]
      BY <2>5 DEF InQueue
    <3>2. i \in 1 .. Len(slots'[u]) /\ slots'[u][i] = slots[u][i]
      BY <2>3, <3>1
    <3> QED BY <3>1, <3>2 DEF InQueue
  <2> QED BY <2>1, <2>4, <2>5 DEF Covers, TypeOK
<1>13. CASE TakeItem(w)
  <2>1. pc[w] = "scan" /\ visits' = visits /\ \A d \in Items : ~Owns(w, d)
    BY <1>13 DEF TakeItem, Owns, Walking
  <2>2. PICK v \in Workers, p \in Nat, s \in {0, 1} :
         /\ \A d \in Items : Owns(w, d)' <=> Queued(v, p, d)
         /\ \A d \in Items, i \in Nat : Queued(v, i, d) /\ i # p => i - s \in Nat /\ Queued(v, i - s, d)'
         /\ \A u \in Workers \ {v} : slots'[u] = slots[u]
    BY <1>13, TakenQueues
  <2>3. ASSUME NEW u \in Workers, NEW d \in Items, InQueue(u, d) PROVE InQueue(u, d)' \/ Owns(w, d)'
    <3>0. slots \in [Workers -> Seq(Items)]
      BY DEF TypeOK
    <3>1. PICK i \in Nat : Queued(u, i, d)
      BY <2>3, <3>0, InQueueIff
    <3>2. CASE u # v
      BY <2>2, <2>3, <3>2 DEF InQueue
    <3>3. CASE u = v /\ i # p
      BY <2>2, <3>1, <3>3 DEF InQueue, Queued
    <3>4. CASE u = v /\ i = p
      BY <2>2, <3>1, <3>4
    <3> QED BY <3>2, <3>3, <3>4
  <2> QED BY <2>1, <2>3 DEF Covers, TypeOK
<1> QED BY <1>1, <1>2, <1>3, <1>4, <1>5, <1>6, <1>7, <1>8, <1>9, <1>10, <1>11, <1>12, <1>13
       DEF WorkerNext, LoopStep, WalkStep

\* A walk with an error ends in an error status.
LEMMA FailingWorker ==
    ASSUME TypeOK, Control, NEW w \in Workers, WorkerNext(w), Failing(w), ~fatal_error'
    PROVE  exit_status' = 2 \/ Failing(w)'
<1> USE DEF Goto
<1>1. CASE Publish(w)
  BY <1>1 DEF Publish, ApplyResult, Failing
<1>2. CASE SearchFile(w) \/ WalkFails(w)
  <2>1. \E f \in Flags : flags' = [flags EXCEPT ![w] = @ \cup {f}]
    BY <1>2 DEF SearchFile, WalkFails, Flags
  <2>2. flags[w] \subseteq flags'[w]
    BY <2>1 DEF TypeOK
  <2>3. pc'[w] \in {"walk", "publish"}
    BY <1>2 DEF SearchFile, WalkFails, TypeOK
  <2> QED BY <2>2, <2>3 DEF Failing
<1>3. CASE VisitInline(w) \/ VisitIdle(w) \/ DonateLate(w) \/ WalkStops(w) \/ WalkEnds(w)
  BY <1>3 DEF VisitInline, VisitIdle, DonateLate, WalkStops, WalkEnds, Failing, TypeOK, local
<1>4. CASE Donate(w)
  <2>1. pc'[w] = "walk" /\ flags' = flags
    BY <1>4, WakeAndGo DEF Donate, WorkerStates, local
  <2> QED BY <2>1 DEF Failing
<1>5. CASE PublishFails(w) \/ DonateFails(w) \/ SearchFatal(w) \/ CompileFails(w)
  BY <1>5 DEF PublishFails, DonateFails, SearchFatal, CompileFails, RaiseFatal
<1>6. CASE \/ WorkerInit(w) \/ WorkerInitFails(w) \/ SyncRetries(w) \/ WokenSleeps(w) \/ SpuriousWakeup(w)
           \/ SyncStops(w) \/ SyncSleeps(w) \/ Top(w) \/ ScanEmpty(w) \/ RequestCancel(w) \/ TakeItem(w)
           \/ Claim(w) \/ Finish(w) \/ SyncEnds(w) \/ WokenLeaves(w)
  BY <1>6 DEF WorkerInit, WorkerInitFails, SyncRetries, WokenSleeps, SpuriousWakeup, SyncStops, SyncSleeps,
     Top, ScanEmpty, RequestCancel, TakeItem, Claim, Finish, SyncEnds, WokenLeaves, Failing
<1> QED BY <1>1, <1>2, <1>3, <1>4, <1>5, <1>6 DEF WorkerNext, LoopStep, WalkStep

LEMMA LostWorker ==
    ASSUME TypeOK, TypeOK', Control, Holders, Holders', NothingLost, NEW w \in Workers, WorkerNext(w)
    PROVE  NothingLost'
<1>1. OthersKeep(w) /\ Moves(w)
  BY WorkerStep
<1>2. w < started /\ main \notin {"seed", "report", "done"}
  BY WorkersRun
<1> SUFFICES ASSUME ~fatal_error', exit_status' # 2
             PROVE  \/ \E u \in Workers : Failing(u)'
                    \/ \A d \in Items : visits'[d] = 1 \/ \E u \in Workers : Owns(u, d)' \/ InQueue(u, d)'
  BY DEF NothingLost
<1>3. ~fatal_error /\ started > 0
  BY <1>1, <1>2 DEF Moves, TypeOK, Workers
<1>4. exit_status # 2
  <2>1. exit_status' = exit_status \/ Publish(w)
    BY DEF WorkerNext, LoopStep, WalkStep, WorkerInit, WorkerInitFails, SyncRetries, WokenSleeps, SpuriousWakeup,
       SyncStops, SyncSleeps, Top, ScanEmpty, RequestCancel, TakeItem, Claim, Finish, SyncEnds, WokenLeaves,
       CompileFails, SearchFile, SearchFatal, VisitInline, VisitIdle, Donate, DonateLate, DonateFails,
       WalkStops, WalkFails, WalkEnds, PublishFails, status
  <2> QED BY <2>1 DEF Publish, ApplyResult
<1>5. CASE \E u \in Workers : Failing(u)
  <2>1. PICK u \in Workers : Failing(u)
    BY <1>5
  <2>2. CASE u = w
    BY <2>1, <2>2, FailingWorker
  <2>3. CASE u # w
    BY <1>1, <2>1, <2>3 DEF OthersKeep, Failing
  <2> QED BY <2>2, <2>3
<1>6. CASE \A d \in Items : visits[d] = 1 \/ \E u \in Workers : Owns(u, d) \/ InQueue(u, d)
  <2>1. Covers(w)
    BY CoversWorker
  <2>2. ASSUME NEW d \in Items, ~Failing(w)'
        PROVE  visits'[d] = 1 \/ \E u \in Workers : Owns(u, d)' \/ InQueue(u, d)'
    <3>1. CASE visits[d] = 1
      <4>1. visits'[d] >= 1 /\ visits'[d] <= 1 /\ visits'[d] \in Nat
        BY <2>1, <3>1 DEF Covers, Holders, WalkedOnce, TypeOK
      <4> QED BY <4>1
    <3>2. ASSUME NEW u \in Workers, Owns(u, d)
          PROVE  visits'[d] = 1 \/ \E v \in Workers : Owns(v, d)' \/ InQueue(v, d)'
      <4>1. CASE u = w
        BY <2>1, <2>2, <3>2, <4>1 DEF Covers
      <4>2. CASE u # w
        BY <1>1, <3>2, <4>2, OthersOwn
      <4> QED BY <4>1, <4>2
    <3>3. ASSUME NEW u \in Workers, InQueue(u, d)
          PROVE  \E v \in Workers : Owns(v, d)' \/ InQueue(v, d)'
      BY <2>1, <3>3 DEF Covers
    <3> QED BY <1>6, <3>1, <3>2, <3>3
  <2> QED BY <2>2
<1> QED BY <1>2, <1>3, <1>4, <1>5, <1>6 DEF NothingLost

LEMMA LostSeed ==
    ASSUME SeedFrontier
    PROVE  \A d \in Items : \E u \in Workers : InQueue(u, d)'
<1> SUFFICES ASSUME NEW d \in Items PROVE \E u \in Workers : InQueue(u, d)'
  OBVIOUS
<1>1. PICK j \in 1 .. Len(Roots) : d \in Below[Roots[j]]
  BY ForestAssumption
<1>2. PICK w \in Workers, i \in Nat \ {0} : Deal(w, i) = j
  <2>1. /\ (j - 1) % NumThreads \in Workers /\ (j - 1) \div NumThreads + 1 \in Nat \ {0}
        /\ Deal((j - 1) % NumThreads, (j - 1) \div NumThreads + 1) = j
    BY DealtIsDealt
  <2> QED BY <2>1
<1>3. i \in 1 .. Len(slots'[w])
  <2>1. Len(Roots) \in Nat
    BY ForestAssumption
  <2> QED BY <1>2, <2>1, DealtOut, SeedEffect
<1>4. slots'[w][i] = Roots[j]
  BY <1>2, <1>3, SeedEffect
<1> QED BY <1>1, <1>3, <1>4 DEF InQueue

LEMMA LostMain == TypeOK /\ Control /\ NothingLost /\ MainNext => NothingLost'
<1> SUFFICES ASSUME TypeOK, Control, NothingLost, MainNext PROVE NothingLost'
  OBVIOUS
<1>1. CASE OperandMissing
  BY <1>1 DEF OperandMissing, ApplyResult, NothingLost
<1>2. CASE SeedFrontier
  BY <1>2, LostSeed DEF NothingLost
<1>3. CASE NothingSelected \/ SeedFails \/ CreateThreadFails
  BY <1>3 DEF NothingSelected, SeedFails, CreateThreadFails, NothingLost, Control, Untouched
<1>4. CASE CreateThread
  <2>1. pc[started] = "none" /\ started \in Workers /\ main = "create"
    BY <1>4, Parameters DEF CreateThread, Control, TypeOK, Workers
  <2>2. \A v \in Workers : pc'[v] = IF v = started THEN "init" ELSE pc[v]
    BY <1>4, <2>1 DEF CreateThread, Goto, TypeOK
  <2>3. \A v \in Workers, d \in Items : /\ Owns(v, d) => Owns(v, d)'
                                        /\ InQueue(v, d) => InQueue(v, d)'
                                        /\ Failing(v) => Failing(v)'
    BY <1>4, <2>1, <2>2 DEF CreateThread, Owns, Walking, InQueue, Failing, local
  <2>4. UNCHANGED <<fatal_error, exit_status, visits>>
    BY <1>4 DEF CreateThread, status
  <2> SUFFICES ASSUME ~fatal_error', exit_status' # 2
               PROVE  \/ \E w \in Workers : Failing(w)'
                      \/ \A d \in Items : visits'[d] = 1 \/ \E w \in Workers : Owns(w, d)' \/ InQueue(w, d)'
    BY DEF NothingLost
  <2>5. \/ \E w \in Workers : Failing(w)'
        \/ \A d \in Items : visits'[d] = 1 \/ \E w \in Workers : Owns(w, d)' \/ InQueue(w, d)'
    <3>1. \/ \E w \in Workers : Failing(w)
          \/ \A d \in Items : visits[d] = 1 \/ \E w \in Workers : Owns(w, d) \/ InQueue(w, d)
      BY <2>1, <2>4 DEF NothingLost
    <3>2. CASE \E w \in Workers : Failing(w)
      BY <2>3, <3>2, Parameters
    <3>3. CASE \A d \in Items : visits[d] = 1 \/ \E w \in Workers : Owns(w, d) \/ InQueue(w, d)
      BY <2>3, <2>4, <3>3
    <3> QED BY <3>1, <3>2, <3>3
  <2> QED BY <2>5
<1>5. CASE MainCancels
  BY <1>5 DEF MainCancels, Control, NothingLost
<1>6. CASE JoinThreads
  <2>1. UNCHANGED <<pc, slots, hand, todo, kid, flags, after, visits, fatal_error, exit_status, started>> /\ main = "join"
    BY <1>6 DEF JoinThreads, local
  <2>2. \A v \in Workers, d \in Items : /\ Owns(v, d) <=> Owns(v, d)'
                                        /\ InQueue(v, d) <=> InQueue(v, d)'
                                        /\ Failing(v) <=> Failing(v)'
    BY <2>1 DEF Owns, Walking, InQueue, Failing
  <2> SUFFICES ASSUME started > 0, ~fatal_error, exit_status # 2
               PROVE  \/ \E w \in Workers : Failing(w)'
                      \/ \A d \in Items : visits'[d] = 1 \/ \E w \in Workers : Owns(w, d)' \/ InQueue(w, d)'
    BY <2>1, <1>6 DEF NothingLost, JoinThreads
  <2>3. \/ \E w \in Workers : Failing(w)
        \/ \A d \in Items : visits[d] = 1 \/ \E w \in Workers : Owns(w, d) \/ InQueue(w, d)
    BY <2>1 DEF NothingLost
  <2>4. CASE \E w \in Workers : Failing(w)
    BY <2>2, <2>4, Parameters
  <2>5. CASE \A d \in Items : visits[d] = 1 \/ \E w \in Workers : Owns(w, d) \/ InQueue(w, d)
    BY <2>1, <2>2, <2>5
  <2> QED BY <2>3, <2>4, <2>5
<1>7. CASE Report
  BY <1>7 DEF Report, NothingLost
<1> QED BY <1>1, <1>2, <1>3, <1>4, <1>5, <1>6, <1>7 DEF MainNext

\* At the report nothing is in anybody's hands, and after a clean shutdown
\* nothing is in the slots.
LEMMA ReportComplete ==
    ASSUME TypeOK, Control, SleepAndShutdown, NothingLost, Report
    PROVE  SuccessIsComplete'
<1> SUFFICES ASSUME exit_status' # 2, shutdown' PROVE \A d \in Items : visits'[d] = 1
  BY DEF SuccessIsComplete
<1>1. main = "report" /\ ~fatal_error /\ exit_status # 2 /\ shutdown /\ visits' = visits
  BY DEF Report
<1>2. \A v \in Workers : pc[v] \in {"gone", "none"}
  BY <1>1 DEF Control
<1>3. \A v \in Workers, d \in Items : ~Owns(v, d) /\ ~Failing(v)
  BY <1>2 DEF Owns, Walking, Failing
<1>4. \A v \in Workers : slots[v] = <<>>
  BY <1>1 DEF SleepAndShutdown
<1>5. \A v \in Workers, d \in Items : ~InQueue(v, d)
  BY <1>4 DEF InQueue
<1>6. started > 0
  BY <1>1 DEF Control
<1> QED BY <1>1, <1>3, <1>5, <1>6 DEF NothingLost

-----------------------------------------------------------------------------

LEMMA InitInv == Init => SchedInv
<1> SUFFICES ASSUME Init PROVE SchedInv
  OBVIOUS
<1>1. TypeOK
  BY TypeInit
<1>2. Control
  BY Parameters DEF Init, Control, Untouched, Workers, Requested
<1>3. Holders
  BY HoldersInit
<1>4. Counted
  <2>1. Slotted = {} /\ Claiming = {} /\ Actives = {} /\ Idle = {}
    BY DEF Init, Slotted, InSlots, Claiming, Actives, Active, Idle
  <2>2. Cardinality({}) = 0
    BY FS_EmptySet
  <2> QED BY <2>1, <2>2 DEF Init, Counted
<1>5. SleepAndShutdown /\ NothingLost /\ SuccessIsComplete
  BY DEF Init, SleepAndShutdown, NothingLost, SuccessIsComplete
<1> QED BY <1>1, <1>2, <1>3, <1>4, <1>5, CountersAgreeIff DEF SchedInv

\* No step of the code leaves the invariant: the counters, the holders, sleep
\* and shutdown, and completeness hold together or not at all.
THEOREM SchedInvInductive == Spec => []SchedInv
<1>1. SchedInv /\ [Next]_vars => SchedInv'
  <2> SUFFICES ASSUME SchedInv, [Next]_vars PROVE SchedInv'
    OBVIOUS
  <2>0. TypeOK /\ Counted /\ Control /\ Holders /\ SleepAndShutdown /\ NothingLost /\ SuccessIsComplete
    BY CountersAgreeIff DEF SchedInv
  <2>1. CASE MainNext
    <3>1. TypeOK' /\ Control' /\ Holders' /\ Counted' /\ SleepAndShutdown' /\ NothingLost'
      BY <2>0, <2>1, TypeMain, ControlMain, HoldersMain, CountersMain, SleepMain, LostMain
    <3>2. SuccessIsComplete'
      <4>1. CASE Report
        BY <2>0, <4>1, ReportComplete
      <4>2. CASE ~Report
        BY <2>1, <4>2 DEF MainNext, OperandMissing, SeedFrontier, NothingSelected, SeedFails, CreateThread,
           CreateThreadFails, MainCancels, JoinThreads, SuccessIsComplete, coord
      <4> QED BY <4>1, <4>2
    <3>3. CountersAgree'
      BY <3>1 DEF CountersAgree, Counted, Slotted, Claiming, Actives, Idle
    <3> QED BY <3>1, <3>2, <3>3 DEF SchedInv
  <2>2. ASSUME NEW w \in Workers, WorkerNext(w) PROVE SchedInv'
    <3>1. TypeOK'
      BY <2>0, <2>2, TypeWorker DEF SchedInv
    <3>2. Control'
      BY <2>0, <2>2, ControlWorker
    <3>3. Holders'
      BY <2>0, <2>2, <3>1, HoldersWorker
    <3>4. Counted'
      BY <2>0, <2>2, CountersWorker
    <3>5. SleepAndShutdown'
      BY <2>0, <2>2, <3>1, <3>4, SleepWorker
    <3>6. NothingLost'
      BY <2>0, <2>2, <3>1, <3>3, LostWorker
    <3>7. main' # "done"
      BY <2>0, <2>2, WorkersRun, WorkerStep DEF Moves
    <3>8. CountersAgree' /\ SuccessIsComplete'
      BY <3>1, <3>4, <3>7 DEF CountersAgree, Counted, Slotted, Claiming, Actives, Idle, SuccessIsComplete
    <3> QED BY <3>2, <3>3, <3>5, <3>6, <3>8 DEF SchedInv
  <2>3. CASE UNCHANGED vars
    <3>1. UNCHANGED <<slots, pending_work, active_workers, idle_workers, shutdown, fatal_error, exit_status, cancel,
                      pc, offset, hand, todo, kid, flags, after, main, started, visits>>
      BY <2>3 DEF vars, counters, status, local, coord
    <3>2. CountersAgree'
      BY <3>1 DEF SchedInv, CountersAgree, TypeOK, InSlots, Active
    <3>3. Control' /\ SleepAndShutdown' /\ SuccessIsComplete'
      BY <3>1 DEF SchedInv, Control, Untouched, Requested, SleepAndShutdown, SuccessIsComplete, Active
    <3>4. Holders' /\ NothingLost'
      BY <3>1 DEF SchedInv, Holders, NothingLost, Walking, Owns, Queued, InQueue, Failing, WalkedOnce
    <3> QED BY <3>2, <3>3, <3>4 DEF SchedInv
  <2> QED BY <2>1, <2>2, <2>3 DEF Next, Terminated
<1> QED BY <1>1, InitInv, PTL DEF Spec

\* pending_work, active_workers and idle_workers say what the workers do,
\* although note_work_claimed comes after the item has left its slot.
THEOREM SchedCountersAgree == Spec => []CountersAgree
BY SchedInvInductive, PTL DEF SchedInv

\* Nobody sleeps on work_ready while there is work or nobody to bring any, and
\* the search is not shut down while work is left.
THEOREM SchedSleepAndShutdown == Spec => []SleepAndShutdown
BY SchedInvInductive, PTL DEF SchedInv

\* Popping, stealing, donating and walking on never search an item twice.
THEOREM SchedWalkedOnce == Spec => []WalkedOnce
BY SchedInvInductive, PTL DEF SchedInv, Holders

\* A run that reports no error has searched the whole forest.
THEOREM SchedSuccessIsComplete == Spec => []SuccessIsComplete
BY SchedInvInductive, PTL DEF SchedInv

===============================================================================
