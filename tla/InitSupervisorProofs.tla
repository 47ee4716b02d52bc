------------------------- MODULE InitSupervisorProofs -------------------------
(***************************************************************************)
(* Proofs about InitSupervisor, for every set of entries, every table that *)
(* /etc/inittab may hold, and every number of processes and of faults.     *)
(***************************************************************************)
EXTENDS InitSupervisor, TLAPS

PidValues == Pids \cup {NoPid, Failed}

PcValues == {"run", "forked", "spawned", "waittest", "waitpid", "killtest",
             "sigwait", "after", "reap", "down"}

TypeInv ==
    /\ proc \in [Pids -> {"free", "alive", "zombie"}]
    /\ owner \in [Pids -> Entries \cup {Nobody}]
    /\ stopped \in BOOLEAN
    /\ table \in SUBSET Entries
    /\ type \in [Entries -> Types]
    /\ pid \in [Entries -> PidValues]
    /\ rows \in Seq(Pids)
    /\ pc \in PcValues
    /\ kind \in Types \ {"absent"}
    /\ todo \in SUBSET table
    /\ old \in Nat /\ ret \in PidValues /\ misread \in BOOLEAN
    /\ faults \in Nat

\* A process runs an entry, and its row is still there.
Processes ==
    /\ \A p \in Pids : owner[p] = Nobody <=> proc[p] = "free"
    /\ \A p \in Pids : proc[p] # "free" => \E i \in 1 .. Len(rows) : rows[i] = p

\* What is started, or still to be, is of the kind run_actions was called for:
\* no reload comes before its end.
Starting ==
    /\ \A e \in todo : type[e] = kind
    /\ pc \in {"sigwait", "after", "reap", "down"} => todo = {}
    /\ pc \in {"forked", "spawned"} =>
         cur \in table /\ type[cur] = kind /\ (kind = "respawn" => pid[cur] = NoPid)
    /\ \A e \in KeptOnly : type[e] \in {"absent", "respawn"}

\* The process of a kept command keeps its entry from being started again: its
\* pid, or the -1 of a failed spawn, is in the entry or on its way to it.
Remembered ==
    ~misread => \A e \in KeptOnly, p \in Pids : owner[p] = e =>
        \/ pid[e] \in {p, Failed}
        \/ pc = "forked" /\ cur = e
        \/ pc = "spawned" /\ cur = e /\ ret \in {p, Failed}

\* As long as no fork failed and no SIGTSTP came, a pid that is kept is that of
\* the entry's process.
Undisturbed ==
    faults = 0 =>
        /\ ~stopped
        /\ \A e \in Entries : pid[e] # NoPid => e \in table /\ pid[e] \in Pids /\ owner[pid[e]] = e
        /\ pc = "forked" => Len(rows) = old + 1 /\ owner[rows[Len(rows)]] = cur
        /\ pc = "spawned" => ret \in Pids /\ owner[ret] = cur
        /\ shot # {} => pc = "after"

InitInv ==
    /\ TypeInv /\ Processes /\ Starting
    /\ Remembered /\ OneProcess
    /\ Undisturbed /\ ReloadStopsRemoved

-----------------------------------------------------------------------------
(* Processes end and are reaped. *)

\* A pid is none of the values that stand for none.
LEMMA PidsArePositive == NoPid \notin Pids /\ Failed \notin Pids /\ \A p \in Pids : p > 0
BY InitAssumption DEF NoPid, Failed

\* bx_child_find and the move of the last row lose no other row, also when two
\* rows were the same.
LEMMA DropRowKeepsOthers ==
    ASSUME NEW p \in Pids, rows \in Seq(Pids), DropRow(p)
    PROVE  /\ rows' \in Seq(Pids)
           /\ \A q \in Pids \ {p} : (\E i \in 1 .. Len(rows) : rows[i] = q)
                                      => \E i \in 1 .. Len(rows') : rows'[i] = q
<1>1. CASE ~ \E i \in 1 .. Len(rows) : rows[i] = p
  BY <1>1 DEF DropRow
<1>2. CASE \E i \in 1 .. Len(rows) : rows[i] = p
  <2> DEFINE k == CHOOSE i \in 1 .. Len(rows) : rows[i] = p
             moved == [rows EXCEPT ![k] = rows[Len(rows)]]
             m == Len(rows) - 1
  <2>1. k \in 1 .. Len(rows) /\ rows[k] = p
    BY <1>2
  <2>2. rows' = SubSeq(moved, 1, m)
    BY <1>2 DEF DropRow
  <2> HIDE DEF k
  <2>3. /\ moved \in Seq(Pids) /\ Len(moved) = Len(rows) /\ m \in Nat
        /\ \A i \in 1 .. Len(rows) : moved[i] = IF i = k THEN rows[Len(rows)] ELSE rows[i]
    BY <2>1
  <2> HIDE DEF moved
  <2>4. rows' \in Seq(Pids) /\ Len(rows') = m /\ \A i \in 1 .. m : rows'[i] = moved[i]
    BY <2>2, <2>3
  <2>5. ASSUME NEW q \in Pids \ {p}, NEW i \in 1 .. Len(rows), rows[i] = q
        PROVE  \E j \in 1 .. Len(rows') : rows'[j] = q
    <3>1. CASE i = Len(rows)
      <4>1. k # i /\ k \in 1 .. m
        BY <2>1, <2>5, <3>1
      <4> QED BY <2>3, <2>4, <2>5, <3>1, <4>1
    <3>2. CASE i # Len(rows)
      <4>1. i # k /\ i \in 1 .. m
        BY <2>1, <2>5, <3>2
      <4> QED BY <2>3, <2>4, <2>5, <4>1
    <3> QED BY <3>1, <3>2
  <2> QED BY <2>4, <2>5
<1> QED BY <1>1, <1>2

\* What a reap leaves of the invariant, whoever calls waitpid: it takes a pid out
\* of no entry but one that remembers the process that ended.
Reaped(p) ==
    /\ proc' \in [Pids -> {"free", "alive", "zombie"}]
    /\ owner' \in [Pids -> Entries \cup {Nobody}]
    /\ pid' \in [Entries -> PidValues]
    /\ rows' \in Seq(Pids)
    /\ Processes'
    /\ \A q \in Pids : owner'[q] = IF q = p THEN Nobody ELSE owner[q]
    /\ \A e \in Entries : pid'[e] = pid[e] \/ (pid[e] = p /\ pid'[e] = NoPid)
    /\ \A e \in table : (\A f \in table : pid[f] = p => f = e) => pid'[e] # p

LEMMA ReapSettles ==
    ASSUME InitInv, NEW p \in Pids, Reap(p)
    PROVE  Reaped(p)
<1> USE DEF InitInv, TypeInv, Reap
<1>1. proc' \in [Pids -> {"free", "alive", "zombie"}] /\ owner' \in [Pids -> Entries \cup {Nobody}]
  OBVIOUS
<1>2. \A q \in Pids : owner'[q] = IF q = p THEN Nobody ELSE owner[q]
  OBVIOUS
<1>3. \A q \in Pids : proc'[q] = IF q = p THEN "free" ELSE proc[q]
  OBVIOUS
<1>4. /\ rows' \in Seq(Pids)
      /\ \A q \in Pids \ {p} : (\E i \in 1 .. Len(rows) : rows[i] = q)
                                 => \E i \in 1 .. Len(rows') : rows'[i] = q
  BY DropRowKeepsOthers
<1>5. Processes'
  BY <1>2, <1>3, <1>4 DEF Processes
<1>6. /\ pid' \in [Entries -> PidValues]
      /\ \A e \in Entries : pid'[e] = pid[e] \/ (pid[e] = p /\ pid'[e] = NoPid)
      /\ \A e \in table : (\A f \in table : pid[f] = p => f = e) => pid'[e] # p
  BY PidsArePositive DEF MarkTerminated, PidValues
<1> QED BY <1>1, <1>2, <1>4, <1>5, <1>6 DEF Reaped

\* The entries' side of a reap, while run_actions and reload stand still.
LEMMA ReapKeepsEntries ==
    ASSUME InitInv, NEW p \in Pids, Reaped(p),
           pc' = pc \/ (pc = "waitpid" /\ pc' = "killtest"),
           UNCHANGED <<type, call>>
    PROVE  Remembered' /\ OneProcess'
<1> USE DEF InitInv, Reaped, call
<1>1. OneProcess'
  BY InitAssumption DEF OneProcess, KeptOnly
<1>2. Remembered'
  <2> SUFFICES ASSUME ~misread', NEW e \in KeptOnly, NEW q \in Pids, owner'[q] = e
               PROVE  \/ pid'[e] \in {q, Failed}
                      \/ pc' = "forked" /\ cur' = e
                      \/ pc' = "spawned" /\ cur' = e /\ ret' \in {q, Failed}
    BY DEF Remembered, KeptOnly
  <2>1. q # p /\ owner[q] = e /\ e \in Entries
    BY InitAssumption DEF KeptOnly
  <2>2. \/ pid[e] \in {q, Failed}
        \/ pc = "forked" /\ cur = e
        \/ pc = "spawned" /\ cur = e /\ ret \in {q, Failed}
    BY <2>1 DEF Remembered
  <2>3. pid[e] \in {q, Failed} => pid'[e] = pid[e]
    BY <2>1, PidsArePositive
  <2> QED BY <2>2, <2>3
<1> QED BY <1>1, <1>2

LEMMA StopReapsKeeps ==
    ASSUME InitInv, StopReaps
    PROVE  InitInv'
<1> USE DEF InitInv, StopReaps, wait, call
<1>1. PICK p \in Pids : Reap(p)
  OBVIOUS
<1>2. Reaped(p)
  BY <1>1, ReapSettles
<1>3. TypeInv' /\ Processes' /\ Starting'
  BY <1>2 DEF Reaped, TypeInv, Starting, KeptOnly
<1>4. Remembered' /\ OneProcess'
  BY <1>2, ReapKeepsEntries
<1>5. Undisturbed' /\ ReloadStopsRemoved'
  BY DEF Undisturbed, ReloadStopsRemoved
<1> QED BY <1>3, <1>4, <1>5

LEMMA MainReaps ==
    ASSUME InitInv, WaitReaps \/ ReapOne
    PROVE  InitInv'
<1> USE DEF InitInv, WaitReaps, ReapOne, wait, call
<1>1. PICK p \in Pids : Reap(p)
  OBVIOUS
<1>2. Reaped(p)
  BY <1>1, ReapSettles
<1>3. TypeInv' /\ Processes' /\ Starting'
  <2>1. waitedDone' = (waitedDone \/ waited = p)
    BY <1>1 DEF Reap
  <2> QED BY <1>2, <2>1 DEF Reaped, TypeInv, Starting, KeptOnly, PcValues
<1>4. Remembered' /\ OneProcess'
  BY <1>2, ReapKeepsEntries
<1>5. Undisturbed'
  <2> SUFFICES ASSUME faults = 0
               PROVE  /\ \A e \in Entries : pid'[e] # NoPid =>
                             e \in table' /\ pid'[e] \in Pids /\ owner'[pid'[e]] = e
                      /\ ~stopped' /\ pc' \notin {"forked", "spawned"} /\ (shot' # {} => pc' = "after")
    BY DEF Undisturbed
  <2>1. pc' \notin {"forked", "spawned"} /\ ~stopped' /\ (shot' # {} => pc' = "after")
    BY DEF Undisturbed
  <2>2. ASSUME NEW e \in Entries, pid'[e] # NoPid
        PROVE  e \in table' /\ pid'[e] \in Pids /\ owner'[pid'[e]] = e
    <3>1. pid'[e] = pid[e] /\ e \in table /\ pid[e] \in Pids /\ owner[pid[e]] = e
      BY <1>2, <2>2 DEF Undisturbed, Reaped
    <3>2. \A f \in table : pid[f] = pid[e] => f = e
      BY <3>1, PidsArePositive DEF Undisturbed, TypeInv
    <3>3. pid[e] # p
      BY <1>2, <3>1, <3>2 DEF Reaped
    <3> QED BY <1>2, <3>1, <3>3 DEF Reaped
  <2> QED BY <2>1, <2>2
<1>6. ReloadStopsRemoved'
  BY DEF ReloadStopsRemoved, Undisturbed
<1> QED BY <1>3, <1>4, <1>5, <1>6

-----------------------------------------------------------------------------
(* The start of a command, bx_init_run_actions and bx_init_spawn. *)

\* An entry of a kept command that may be started has no process.
LEMMA WantedHasNone ==
    ASSUME InitInv, pc = "run", ~misread, NEW e \in todo, e \in KeptOnly, Wanted(e)
    PROVE  \A p \in Pids : owner[p] # e
<1>1. type[e] = "respawn" /\ pid[e] = NoPid
  BY DEF InitInv, Starting, TypeInv, Wanted
<1> QED BY <1>1, PidsArePositive DEF InitInv, Remembered, NoPid, Failed

LEMMA ForkKeeps ==
    ASSUME InitInv, Fork
    PROVE  InitInv'
<1> USE DEF InitInv, Fork, wait
<1>1. PICK e \in todo, p \in Pids :
         /\ Wanted(e) /\ Fresh(p)
         /\ proc' = [proc EXCEPT ![p] = "alive"]
         /\ owner' = [owner EXCEPT ![p] = e]
         /\ rows' = Append(rows, p)
         /\ cur' = e /\ old' = Len(rows)
         /\ todo' = todo \ {e}
  OBVIOUS
<1>2. /\ proc[p] = "free" /\ owner[p] = Nobody /\ \A f \in Entries : pid[f] # p
      /\ e \in Entries /\ e # Nobody /\ type[e] = kind
  BY <1>1, InitAssumption DEF Fresh, Processes, Starting, TypeInv
<1>3. /\ rows' \in Seq(Pids) /\ Len(rows') = Len(rows) + 1 /\ rows'[Len(rows')] = p
      /\ \A i \in 1 .. Len(rows) : rows'[i] = rows[i]
  BY <1>1 DEF TypeInv
<1>4. /\ \A q \in Pids : owner'[q] = IF q = p THEN e ELSE owner[q]
      /\ \A q \in Pids : proc'[q] = IF q = p THEN "alive" ELSE proc[q]
  BY <1>1 DEF TypeInv
<1>5. TypeInv'
  BY <1>1, <1>3 DEF TypeInv, PcValues
<1>6. Processes'
  <2>1. \A q \in Pids : owner'[q] = Nobody <=> proc'[q] = "free"
    BY <1>2, <1>4 DEF Processes
  <2>2. ASSUME NEW q \in Pids, proc'[q] # "free"
        PROVE  \E i \in 1 .. Len(rows') : rows'[i] = q
    <3>1. CASE q = p
      BY <1>3, <3>1 DEF TypeInv
    <3>2. CASE q # p
      <4>1. PICK i \in 1 .. Len(rows) : rows[i] = q
        BY <1>4, <2>2, <3>2 DEF Processes
      <4> QED BY <1>3, <4>1 DEF TypeInv
    <3> QED BY <3>1, <3>2
  <2> QED BY <2>1, <2>2 DEF Processes
<1>7. Starting'
  BY <1>1, <1>2 DEF Starting, KeptOnly, TypeInv, Wanted
<1>8. OneProcess'
  BY <1>1, <1>2, <1>4, WantedHasNone DEF OneProcess, KeptOnly
<1>9. Remembered'
  BY <1>1, <1>2, <1>4, WantedHasNone DEF Remembered, KeptOnly
<1>10. Undisturbed' /\ ReloadStopsRemoved'
  BY <1>1, <1>2, <1>3, <1>4 DEF Undisturbed, ReloadStopsRemoved, TypeInv
<1> QED BY <1>5, <1>6, <1>7, <1>8, <1>9, <1>10

LEMMA ForkFailsKeeps ==
    ASSUME InitInv, ForkFails
    PROVE  InitInv'
<1> USE DEF InitInv, ForkFails, wait, kernel
<1>1. PICK e \in todo : Wanted(e) /\ cur' = e /\ todo' = todo \ {e}
  OBVIOUS
<1>2. TypeInv'
  BY <1>1 DEF TypeInv, PcValues, PidValues
<1>3. Processes' /\ OneProcess'
  BY DEF Processes, OneProcess, KeptOnly
<1>4. Starting'
  BY <1>1 DEF Starting, KeptOnly, TypeInv, Wanted
<1>5. Remembered'
  BY DEF Remembered, KeptOnly
<1>6. faults' > 0
  BY DEF TypeInv
<1>7. Undisturbed' /\ ReloadStopsRemoved'
  BY <1>6 DEF Undisturbed, ReloadStopsRemoved
<1> QED BY <1>2, <1>3, <1>4, <1>5, <1>7

LEMMA SpawnedKeeps ==
    ASSUME InitInv, Spawned
    PROVE  InitInv'
<1> USE DEF InitInv, Spawned, wait, kernel
<1>1. ret' \in PidValues /\ (rows # <<>> => rows[Len(rows)] \in Pids)
  BY DEF PidValues, TypeInv
<1>2. TypeInv'
  BY <1>1 DEF TypeInv, PcValues
<1>3. Processes' /\ Starting'
  BY DEF Processes, Starting, KeptOnly
<1>4. OneProcess'
  BY DEF OneProcess, KeptOnly
<1>5. Remembered'
  <2> SUFFICES ASSUME ~misread', NEW e \in KeptOnly, NEW q \in Pids, owner[q] = e
               PROVE  pid[e] \in {q, Failed} \/ (cur = e /\ ret' \in {q, Failed})
    BY DEF Remembered, KeptOnly
  <2>1. ~misread /\ (ret' \in Pids => owner[ret'] = cur)
    BY DEF TypeInv
  <2>2. CASE pid[e] \in {q, Failed}
    BY <2>2
  <2>3. CASE cur = e
    <3>1. rows # <<>>
      BY InitAssumption DEF Processes, KeptOnly
    <3>2. CASE ret' = Failed
      BY <2>3, <3>2
    <3>3. CASE ret' = rows[Len(rows)]
      <4>1. ret' \in Pids /\ owner[ret'] = e
        BY <1>1, <2>1, <2>3, <3>1, <3>3
      <4> QED BY <2>1, <2>3, <4>1 DEF OneProcess
    <3> QED BY <3>1, <3>2, <3>3
  <2> QED BY <2>1, <2>2, <2>3 DEF Remembered
<1>6. Undisturbed'
  BY <1>1 DEF Undisturbed, TypeInv
<1>7. ReloadStopsRemoved'
  BY DEF ReloadStopsRemoved
<1> QED BY <1>2, <1>3, <1>4, <1>5, <1>6, <1>7

LEMMA KeepKeeps ==
    ASSUME InitInv, Keep
    PROVE  InitInv'
<1> USE DEF InitInv, Keep, wait, kernel, call
<1>1. cur \in table /\ cur \in Entries /\ type[cur] = kind
  BY DEF Starting, TypeInv
<1>2. \A e \in Entries : pid'[e] = IF e = cur /\ type[cur] = "respawn" THEN ret ELSE pid[e]
  BY <1>1 DEF TypeInv
<1>3. TypeInv'
  BY <1>1 DEF TypeInv, PcValues
<1>4. Processes' /\ Starting' /\ OneProcess'
  BY DEF Processes, Starting, KeptOnly, OneProcess
<1>5. Remembered'
  <2> SUFFICES ASSUME ~misread, NEW e \in KeptOnly, NEW p \in Pids, owner[p] = e
               PROVE  pid'[e] \in {p, Failed}
    BY DEF Remembered, KeptOnly
  <2>1. CASE e = cur
    <3>1. type[e] = "respawn" /\ pid[e] = NoPid /\ pid'[e] = ret
      BY <1>1, <1>2, <2>1 DEF Starting
    <3> QED BY <2>1, <3>1, PidsArePositive DEF Remembered, NoPid, Failed
  <2>2. CASE e # cur
    BY <1>2, <2>2 DEF Remembered, KeptOnly
  <2> QED BY <2>1, <2>2
<1>6. Undisturbed' /\ ReloadStopsRemoved'
  BY <1>1, <1>2 DEF Undisturbed, ReloadStopsRemoved
<1> QED BY <1>3, <1>4, <1>5, <1>6

LEMMA StartWaitKeeps ==
    ASSUME InitInv, StartWait
    PROVE  InitInv'
<1> USE DEF InitInv, StartWait, wait, kernel, call
<1>1. cur \notin KeptOnly
  BY DEF Starting, Waits
<1>2. TypeInv'
  BY DEF TypeInv, PcValues
<1>3. Processes' /\ Starting' /\ OneProcess'
  BY DEF Processes, Starting, KeptOnly, OneProcess
<1>4. Remembered'
  BY <1>1 DEF Remembered, KeptOnly
<1>5. Undisturbed' /\ ReloadStopsRemoved'
  BY DEF Undisturbed, ReloadStopsRemoved
<1> QED BY <1>2, <1>3, <1>4, <1>5

-----------------------------------------------------------------------------
(* Signals, reload and the main loop. *)

LEMMA ReloadKeeps ==
    ASSUME InitInv, Reload
    PROVE  InitInv'
<1> USE DEF InitInv, Reload, wait, kernel, call
<1>1. PICK new \in Inittabs :
         LET all == table \cup {e \in Entries : new[e] # "absent"}
             gone == Freed(all, new)
         IN  /\ type' = [e \in Entries |-> IF e \in gone THEN "absent" ELSE new[e]]
             /\ table' = all \ gone
             /\ shot' = IF KillRemoved THEN {pid[e] : e \in {e \in all : new[e] = "absent"}} \ {NoPid} ELSE {}
             /\ pid' = [e \in Entries |-> IF e \in gone THEN NoPid ELSE pid[e]]
  OBVIOUS
<1> DEFINE all == table \cup {e \in Entries : new[e] # "absent"}
           gone == Freed(all, new)
<1>2. new \in [Entries -> Types] /\ all \in SUBSET Entries /\ \A e \in gone : e \in all /\ pid[e] = NoPid
  BY InitAssumption DEF TypeInv, Freed
<1>3. pid' = pid
  BY <1>1, <1>2 DEF TypeInv
<1>4. type' \in [Entries -> Types] /\ todo = {}
  BY <1>1, <1>2 DEF Types, Starting
<1>5. TypeInv'
  BY <1>1, <1>2, <1>3, <1>4 DEF TypeInv, PcValues
<1>6. Processes' /\ OneProcess'
  BY DEF Processes, OneProcess, KeptOnly
<1>7. Starting'
  BY <1>1, <1>2, <1>4 DEF Starting, KeptOnly
<1>8. Remembered'
  BY <1>3 DEF Remembered, KeptOnly
<1>9. Undisturbed'
  BY <1>1, <1>2, <1>3 DEF Undisturbed
<1>10. ReloadStopsRemoved'
  <2> SUFFICES ASSUME faults = 0, NEW p \in shot'
               PROVE  p \in Pids /\ owner[p] \in table' /\ type'[owner[p]] = "absent"
    BY DEF ReloadStopsRemoved
  <2>1. PICK e \in all : new[e] = "absent" /\ p = pid[e] /\ p # NoPid
    BY <1>1
  <2>2. e \in Entries /\ e \notin gone /\ p \in Pids /\ owner[p] = e
    BY <1>2, <2>1 DEF Undisturbed
  <2> QED BY <1>1, <2>1, <2>2
<1> QED BY <1>5, <1>6, <1>7, <1>8, <1>9, <1>10

\* The steps after which run_actions begins anew, with what the table holds.
LEMMA RoundSteps ==
    ASSUME InitInv, RunEnds \/ TakeSignal \/ After \/ ReapDone
    PROVE  InitInv'
<1> USE DEF InitInv, wait, kernel, call
<1>1. /\ pc \notin {"forked", "spawned"} /\ pc' \in PcValues \ {"forked", "spawned"}
      /\ \/ todo' = todo /\ kind' = kind /\ (todo = {} \/ pc' = "run")
         \/ pc' = "run" /\ kind' \in Types \ {"absent"} /\ todo' = Started(kind')
      /\ UNCHANGED <<kernel, stopped, table, type, pid, rows, wait, call, faults>>
  BY DEF RunEnds, TakeSignal, After, ReapDone, Run, PcValues, Types, Starting, TypeInv
<1>2. TypeInv'
  BY <1>1 DEF TypeInv, Started, PcValues
<1>3. Starting'
  BY <1>1 DEF Starting, Started, KeptOnly
<1>4. Processes' /\ OneProcess'
  BY <1>1 DEF Processes, OneProcess, KeptOnly
<1>5. Remembered'
  BY <1>1 DEF Remembered, KeptOnly
<1>6. (shot' = shot /\ pc # "after") \/ shot' = {}
  BY DEF RunEnds, TakeSignal, After, ReapDone, Run
<1>7. Undisturbed' /\ ReloadStopsRemoved'
  BY <1>1, <1>6 DEF Undisturbed, ReloadStopsRemoved
<1> QED BY <1>2, <1>3, <1>4, <1>5, <1>7

\* Steps that only move the main line or the signals.
LEMMA OtherSteps ==
    ASSUME InitInv,
           \/ Skip \/ WaitTest \/ WaitNothing \/ KillTest \/ NoSignal
           \/ Stop \/ Continue \/ (\E s \in Orders : Send(s))
    PROVE  InitInv'
<1> USE DEF InitInv, wait, kernel, call
<1>1. /\ UNCHANGED <<kernel, table, type, pid, rows, kind, call, shot>>
      /\ \/ UNCHANGED <<pc, todo>>
         \/ pc = "run" /\ pc' = "run" /\ todo' \in SUBSET todo
         \/ pc \notin {"forked", "spawned", "after"} /\ todo' = todo
            /\ pc' \in {"run", "waitpid", "waittest", "killtest"} /\ pc \notin {"sigwait", "after"}
         \/ pc = "sigwait" /\ pc' = "after" /\ todo' = todo
  BY DEF Skip, WaitTest, WaitNothing, KillTest, NoSignal, Stop, Continue, Send
<1>2. faults' \in Nat /\ stopped' \in BOOLEAN /\ (faults' = 0 => faults = 0 /\ ~stopped')
  <2>1. CASE Stop
    BY <2>1 DEF Stop, TypeInv
  <2>2. CASE Skip \/ WaitTest \/ WaitNothing \/ KillTest \/ NoSignal \/ Continue \/ (\E s \in Orders : Send(s))
    <3>1. faults' = faults /\ (stopped' = stopped \/ stopped' = FALSE)
      BY <2>2 DEF Skip, WaitTest, WaitNothing, KillTest, NoSignal, Continue, Send
    <3>2. faults \in Nat /\ stopped \in BOOLEAN /\ (faults = 0 => ~stopped)
      BY DEF TypeInv, Undisturbed
    <3>3. stopped' \in BOOLEAN
      BY <3>1, <3>2
    <3>4. faults' = 0 => faults = 0 /\ ~stopped'
      BY <3>1, <3>2
    <3> QED BY <3>1, <3>2, <3>3, <3>4
  <2> QED BY <2>1, <2>2
<1>3. TypeInv'
  BY <1>1, <1>2 DEF TypeInv, PcValues
<1>4. Processes' /\ OneProcess'
  BY <1>1 DEF Processes, OneProcess, KeptOnly
<1>5. Starting'
  BY <1>1 DEF Starting, KeptOnly
<1>6. Remembered'
  BY <1>1 DEF Remembered, KeptOnly
<1>7. Undisturbed' /\ ReloadStopsRemoved'
  BY <1>1, <1>2 DEF Undisturbed, ReloadStopsRemoved
<1> QED BY <1>3, <1>4, <1>5, <1>6, <1>7

LEMMA ExitKeeps ==
    ASSUME InitInv, NEW p \in Pids, Exit(p)
    PROVE  InitInv'
<1> USE DEF InitInv, Exit, wait, call
<1>1. TypeInv'
  BY DEF TypeInv
<1>2. Processes'
  BY DEF Processes, TypeInv
<1>3. Starting' /\ Remembered' /\ OneProcess'
  BY DEF Starting, Remembered, OneProcess, KeptOnly
<1>4. Undisturbed' /\ ReloadStopsRemoved'
  BY DEF Undisturbed, ReloadStopsRemoved
<1> QED BY <1>1, <1>2, <1>3, <1>4

-----------------------------------------------------------------------------

LEMMA InitHolds == Init => InitInv
<1> SUFFICES ASSUME Init PROVE InitInv
  OBVIOUS
<1> USE InitAssumption DEF Init
<1>1. TypeInv
  <2>1. PICK tab \in Inittabs : type = tab /\ table = {e \in Entries : tab[e] # "absent"}
    OBVIOUS
  <2>2. type \in [Entries -> Types] /\ rows \in Seq(Pids)
    BY <2>1
  <2> QED BY <2>1, <2>2 DEF TypeInv, PcValues, PidValues, Started, Types, NoPid
<1>2. Processes /\ Starting /\ Remembered /\ OneProcess
  BY DEF Processes, Starting, Remembered, OneProcess, Started, KeptOnly
<1>3. Undisturbed /\ ReloadStopsRemoved
  BY DEF Undisturbed, ReloadStopsRemoved
<1> QED BY <1>1, <1>2, <1>3 DEF InitInv

THEOREM InitInvInductive == Spec => []InitInv
<1>1. InitInv /\ [Next]_vars => InitInv'
  <2> SUFFICES ASSUME InitInv, [Next]_vars PROVE InitInv'
    OBVIOUS
  <2>1. CASE UNCHANGED vars
    BY <2>1 DEF vars, kernel, wait, call, InitInv, TypeInv, Processes, Starting, Remembered,
       OneProcess, Undisturbed, ReloadStopsRemoved, KeptOnly
  <2> QED BY <2>1, StopReapsKeeps, MainReaps, ForkKeeps, ForkFailsKeeps, SpawnedKeeps, KeepKeeps,
             StartWaitKeeps, ReloadKeeps, RoundSteps, OtherSteps, ExitKeeps DEF Next, MainStep
<1> QED BY <1>1, InitHolds, PTL DEF Spec

\* bx_init_run_actions starts no command twice that every inittab keeps: also
\* when it comes back in a reload while it runs, when a fork failed and left -1
\* in place of its pid, and when the SIGTSTP handler reaps; only a pid read
\* from the row of another process may lead to it.
THEOREM InitOneProcess == Spec => []OneProcess
<1>1. InitInv => OneProcess
  BY DEF InitInv
<1> QED BY <1>1, InitInvInductive, PTL

\* bx_init_reload sends SIGTERM to the processes of removed entries and to no
\* others, as long as no fork failed and no SIGTSTP came.
THEOREM InitReloadStops == Spec => []ReloadStopsRemoved
<1>1. InitInv => ReloadStopsRemoved
  BY DEF InitInv
<1> QED BY <1>1, InitInvInductive, PTL

=============================================================================
