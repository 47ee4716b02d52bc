----------------------------- MODULE ShellProofs ------------------------------
(***************************************************************************)
(* Proofs about the two parts of the shell that are modelled: its traps    *)
(* with the signal recorder, SignalPending, for every number of signals,   *)
(* and its redirections, FdTransaction, for every number of descriptors    *)
(* and every nesting.                                                      *)
(***************************************************************************)
EXTENDS SignalPending, FdTransaction, WellFoundedInduction, TLAPS

-----------------------------------------------------------------------------
(* Traps and recorded signals.                                               *)

States == {"idle", "dispatch", "set", "set_restore", "take", "scan", "take_restore",
           "check", "suspend", "suspended", "interrupted", "ready", "waitpid", "killed", "exited"}
Setting == pc \in {"set", "set_restore"}

SetCalls == [sig : Signals, to : Dispositions, disp : Dispositions, recorded : SUBSET Signals,
             flagged : BOOLEAN, active : BOOLEAN]
TakeCalls == [sig : Signals \cup {0}]

TypeInv ==
    /\ disp \in [Signals -> Dispositions]
    /\ mask \in SUBSET (Signals \cup {CHLD}) /\ queued \in SUBSET (Signals \cup {CHLD})
    /\ notify \in BOOLEAN /\ child \in {"none", "running", "ended"}
    /\ recorded \in SUBSET Signals /\ flags \in SUBSET Signals
    /\ any \in BOOLEAN /\ active \in BOOLEAN
    /\ traps \in [Signals -> {"none", "ignored", "caught"}] /\ running \in BOOLEAN
    /\ pc \in States
    /\ call \in IF Setting THEN SetCalls ELSE TakeCalls
    /\ ~Setting /\ pc \notin {"take_restore", "killed"} => call = NoCall
    /\ owed \in SUBSET Signals

\* What is blocked, where it matters.
MaskInv ==
    /\ Setting => mask = Signals \cup {CHLD}
    /\ pc \in {"scan", "take_restore"} => mask = recorded
    /\ pc \in {"check", "suspend"} => mask = BlockedInWait

\* The recorder's view of a disposition is the kernel's, and the traps are what
\* the shell made of it; while a trap is set, of what the call remembers.
Registered ==
    /\ \A s \in Signals : s \in recorded <=> disp[s] = "recorded"
    /\ active <=> recorded # {}
    /\ ~Setting => \A s \in Signals : traps[s] = "caught" <=> s \in recorded

\* What the call to bx_signal_pending_set remembers for the case that it fails.
CallRemembers ==
    Setting =>
        /\ \A s \in Signals : traps[s] = "caught" <=> s \in call.recorded
        /\ call.active <=> call.recorded # {}
        /\ call.sig \in call.recorded <=> call.disp = "recorded"
        /\ \A s \in Signals : s # call.sig => (s \in call.recorded <=> s \in recorded)
        /\ call.flagged => call.sig \in call.recorded /\ any
        /\ ~call.flagged => call.sig \notin flags
        /\ pc = "set" => recorded = call.recorded
        /\ pc = "set_restore" => (call.sig \in recorded <=> call.to = "recorded")

\* Flags are raised for recorded signals only, and any tells of them.
Announced ==
    /\ flags \subseteq recorded
    /\ flags # {} => any
    /\ pc = "take_restore" /\ call.sig # 0 => call.sig \in recorded

\* A signal that is owed is on its way: pending, flagged, or taken.
OnItsWay ==
    /\ owed \subseteq recorded
    /\ pc # "killed" => \A s \in owed : s \in queued \cup flags \/ (pc = "take_restore" /\ s = call.sig)

\* The shell falls asleep in a wait only with nothing to wake up for, and what
\* comes then ends the sleep.
NoMissedWakeup ==
    pc \in {"suspend", "suspended"} => flags = {} /\ (child = "ended" => CHLD \in queued)
WaitInv ==
    /\ pc \in {"check", "suspend", "suspended"} => notify /\ child # "none"
    /\ NoMissedWakeup

SignalInv == TypeInv /\ MaskInv /\ Registered /\ CallRemembers /\ Announced /\ OnItsWay /\ WaitInv

-----------------------------------------------------------------------------

\* The lowest of a set of signals is one of them.
LEMMA LeastIsMember ==
    ASSUME NEW S \in SUBSET Signals, S # {}
    PROVE  Least(S) \in S
<1>1. S \subseteq Nat
  BY SignalAssumption DEF Signals
<1>2. PICK x \in S : \A y \in S : ~(<<y, x>> \in OpToRel(<, Nat))
  BY <1>1, NatLessThanWellFounded, WFMin
<1>3. ASSUME NEW y \in S, y < x PROVE FALSE
  <2>1. <<y, x>> \in Nat \X Nat /\ <<y, x>>[1] = y /\ <<y, x>>[2] = x
    BY <1>1
  <2>2. <<y, x>> \in OpToRel(<, Nat)
    BY <1>3, <2>1 DEF OpToRel
  <2> QED BY <1>2, <2>2
<1>4. \A y \in S : x <= y
  BY <1>1, <1>3
<1> QED BY <1>4 DEF Least

LEMMA InitInv == Init => SignalInv
<1> SUFFICES ASSUME Init PROVE SignalInv
  OBVIOUS
<1> USE DEF Init, Setting, NoCall
<1>1. TypeInv
  BY DEF TypeInv, Dispositions, States, TakeCalls
<1>2. MaskInv /\ Registered /\ CallRemembers /\ Announced /\ OnItsWay /\ WaitInv
  BY DEF MaskInv, Registered, CallRemembers, Announced, OnItsWay, WaitInv, NoMissedWakeup
<1> QED BY <1>1, <1>2 DEF SignalInv

\* Steps of the kernel.
LEMMA KernelSteps ==
    ASSUME SignalInv, ChildEnds \/ (\E s \in Signals : Raise(s)) \/ (\E s \in Signals \cup {CHLD} : Deliver(s))
    PROVE  SignalInv'
<1> USE SignalAssumption DEF SignalInv, Signals, CHLD, Setting
<1>1. CASE ChildEnds
  <2> USE <1>1 DEF ChildEnds, recorder, shell, Alive
  <2>1. TypeInv' /\ MaskInv' /\ Registered' /\ CallRemembers'
    BY DEF TypeInv, MaskInv, Registered, CallRemembers, BlockedInWait
  <2>2. Announced' /\ OnItsWay'
    BY DEF Announced, OnItsWay
  <2>3. WaitInv'
    BY DEF WaitInv, NoMissedWakeup, MaskInv, BlockedInWait
  <2> QED BY <2>1, <2>2, <2>3
<1>2. ASSUME NEW s \in Signals, Raise(s) PROVE SignalInv'
  <2> USE <1>2 DEF Raise, recorder, shell, Alive
  <2>1. TypeInv' /\ MaskInv' /\ Registered' /\ CallRemembers'
    BY DEF TypeInv, MaskInv, Registered, CallRemembers, BlockedInWait
  <2>2. Announced' /\ OnItsWay'
    BY DEF Announced, OnItsWay, Registered
  <2>3. WaitInv'
    BY DEF WaitInv, NoMissedWakeup
  <2> QED BY <2>1, <2>2, <2>3
<1>3. ASSUME NEW s \in Signals \cup {CHLD}, Deliver(s) PROVE SignalInv'
  <2> USE <1>3 DEF Deliver, shell, Alive
  <2>0. ~Setting /\ s \in queued /\ s \notin mask
    BY DEF MaskInv
  <2>1. CASE Wake /\ UNCHANGED recorder /\ s = CHLD
    <3> USE <2>0, <2>1 DEF Wake, recorder
    <3>1. TypeInv'
      BY DEF TypeInv, States, BlockedInWait
    <3>2. MaskInv' /\ Registered' /\ CallRemembers'
      BY DEF MaskInv, Registered, CallRemembers, BlockedInWait
    <3>3. Announced' /\ OnItsWay'
      BY DEF Announced, OnItsWay, TypeInv
    <3>4. WaitInv'
      BY DEF WaitInv, NoMissedWakeup, MaskInv, BlockedInWait
    <3> QED BY <3>1, <3>2, <3>3, <3>4
  <2>2. CASE UNCHANGED <<pc, mask, recorder>>
    <3> USE <2>0, <2>2 DEF recorder
    <3>1. TypeInv' /\ MaskInv' /\ Registered' /\ CallRemembers'
      BY DEF TypeInv, MaskInv, Registered, CallRemembers, BlockedInWait
    <3>2. Announced' /\ OnItsWay'
      BY DEF Announced, OnItsWay, TypeInv, Registered, Record, Wake
    <3>3. WaitInv'
      BY DEF WaitInv, NoMissedWakeup, MaskInv, BlockedInWait, Wake, Record
    <3> QED BY <3>1, <3>2, <3>3
  <2>3. CASE s \in Signals /\ Record(s)
    <3> USE <2>0, <2>3 DEF Record, Wake
    <3>0. active /\ s \in recorded /\ pc \notin {"scan", "take_restore", "check", "suspend"}
      BY DEF Registered, MaskInv, BlockedInWait
    <3>1. TypeInv'
      BY <3>0 DEF TypeInv, States, BlockedInWait
    <3>2. MaskInv' /\ Registered' /\ CallRemembers'
      BY <3>0 DEF MaskInv, Registered, CallRemembers, BlockedInWait
    <3>3. Announced' /\ OnItsWay'
      BY <3>0 DEF Announced, OnItsWay
    <3>4. WaitInv'
      BY <3>0 DEF WaitInv, NoMissedWakeup
    <3> QED BY <3>1, <3>2, <3>3, <3>4
  <2>4. CASE s \in Signals /\ disp[s] = "default" /\ pc' = "killed" /\ UNCHANGED <<mask, recorder>>
    <3> USE <2>0, <2>4 DEF recorder
    <3>1. TypeInv' /\ MaskInv' /\ Registered' /\ CallRemembers'
      BY DEF TypeInv, MaskInv, Registered, CallRemembers, BlockedInWait, States
    <3>2. Announced' /\ OnItsWay' /\ WaitInv'
      BY DEF Announced, OnItsWay, WaitInv, NoMissedWakeup
    <3> QED BY <3>1, <3>2
  <2> QED BY <2>1, <2>2, <2>3, <2>4
<1> QED BY <1>1, <1>2, <1>3

\* ash_trap_signal_set and bx_signal_pending_set.
LEMMA SetSteps ==
    ASSUME SignalInv,
           (\E s \in Signals, to \in Dispositions : SetEnter(s, to))
              \/ SetChange \/ SetFails \/ SetRestore \/ SetRestoreFails
    PROVE  SignalInv'
<1> USE SignalAssumption DEF SignalInv, Signals, CHLD, Setting
<1>1. ASSUME NEW s \in Signals, NEW to \in Dispositions, SetEnter(s, to) PROVE SignalInv'
  <2> USE <1>1 DEF SetEnter, recorder, shell
  <2>1. call' \in SetCalls
    BY DEF TypeInv, SetCalls
  <2>2. TypeInv'
    BY <2>1 DEF TypeInv, States
  <2>3. MaskInv' /\ Registered'
    BY DEF MaskInv, Registered
  <2>4. CallRemembers'
    BY DEF CallRemembers, Registered, Announced, TypeInv
  <2>5. Announced' /\ OnItsWay' /\ WaitInv'
    BY DEF Announced, OnItsWay, WaitInv, NoMissedWakeup
  <2> QED BY <2>2, <2>3, <2>4, <2>5
<1>2. CASE SetChange
  <2> DEFINE s == call.sig
             to == call.to
  <2>0. /\ call \in SetCalls /\ s \in Signals /\ to \in Dispositions
        /\ disp' = [disp EXCEPT ![s] = to]
        /\ queued' = IF to = "ignored" THEN queued \ {s} ELSE queued
        /\ recorded' = IF to = "recorded" THEN recorded \cup {s} ELSE recorded \ {s}
        /\ flags' = KeptFlags(s, to)
        /\ active' = (recorded' # {} /\ (active \/ to = "recorded"))
        /\ owed' = IF to = "recorded" THEN owed ELSE owed \ {s}
        /\ pc = "set" /\ pc' = "set_restore"
        /\ UNCHANGED <<mask, notify, child, any, traps, running, call>>
    BY <1>2 DEF SetChange, TypeInv, SetCalls, shell
  <2> HIDE DEF s, to
  <2>1. TypeInv'
    BY <2>0 DEF TypeInv, States, KeptFlags
  <2>2. MaskInv' /\ WaitInv'
    BY <2>0 DEF MaskInv, WaitInv, NoMissedWakeup
  <2>3. Registered'
    BY <2>0 DEF Registered, TypeInv
  <2>4. CallRemembers'
    BY <2>0 DEF CallRemembers, KeptFlags, s, to
  <2>5. Announced' /\ OnItsWay'
    BY <2>0 DEF Announced, OnItsWay, KeptFlags
  <2> QED BY <2>1, <2>2, <2>3, <2>4, <2>5
<1>3. CASE SetFails
  <2> USE <1>3 DEF SetFails, recorder, shell, NoCall
  <2>1. TypeInv'
    BY DEF TypeInv, States, TakeCalls
  <2>2. MaskInv' /\ Registered' /\ CallRemembers'
    BY DEF MaskInv, Registered, CallRemembers
  <2>3. Announced' /\ OnItsWay' /\ WaitInv'
    BY DEF Announced, OnItsWay, WaitInv, NoMissedWakeup
  <2> QED BY <2>1, <2>2, <2>3
<1>4. CASE SetRestore
  <2> USE <1>4 DEF SetRestore, recorder
  <2>0. call \in SetCalls /\ call.sig \in Signals /\ call.to \in Dispositions
    BY DEF TypeInv, SetCalls
  <2>1. Wanted[call.to] \in {"none", "ignored", "caught"} /\ (Wanted[call.to] = "caught" <=> call.to = "recorded")
    BY <2>0 DEF Wanted, Dispositions
  <2>2. TypeInv'
    BY <2>0, <2>1 DEF TypeInv, States, TakeCalls, NoCall
  <2>3. MaskInv' /\ CallRemembers'
    BY DEF MaskInv, CallRemembers
  <2>4. Registered'
    BY <2>0, <2>1 DEF Registered, CallRemembers, TypeInv
  <2>5. Announced' /\ OnItsWay' /\ WaitInv'
    BY DEF Announced, OnItsWay, WaitInv, NoMissedWakeup
  <2> QED BY <2>2, <2>3, <2>4, <2>5
<1>5. CASE SetRestoreFails
  <2> DEFINE s == call.sig
  <2>0. /\ call \in SetCalls /\ s \in Signals
        /\ disp' = [disp EXCEPT ![s] = call.disp]
        /\ queued' = IF call.disp = "ignored" THEN queued \ {s} ELSE queued
        /\ recorded' = call.recorded
        /\ flags' = IF call.flagged THEN flags \cup {s} ELSE flags \ {s}
        /\ active' = call.active
        /\ owed' = IF call.flagged THEN owed \cup {s}
                   ELSE IF call.disp # "recorded" THEN owed \ {s} ELSE owed
        /\ mask' = {} /\ pc = "set_restore" /\ pc' = "dispatch" /\ call' = NoCall
        /\ UNCHANGED <<notify, child, any, traps, running>>
    BY <1>5 DEF SetRestoreFails, TypeInv, SetCalls, shell
  <2>1. TypeInv'
    BY <2>0 DEF TypeInv, States, TakeCalls, SetCalls, NoCall
  <2>2. MaskInv' /\ CallRemembers' /\ WaitInv'
    BY <2>0 DEF MaskInv, CallRemembers, WaitInv, NoMissedWakeup
  <2>3. Registered'
    BY <2>0 DEF Registered, CallRemembers, TypeInv, SetCalls
  <2>4. Announced' /\ OnItsWay'
    BY <2>0 DEF Announced, OnItsWay, CallRemembers, SetCalls, TypeInv
  <2> QED BY <2>1, <2>2, <2>3, <2>4
<1> QED BY <1>1, <1>2, <1>3, <1>4, <1>5

\* ash_trap_signal_prepare, bx_signal_pending_take, and the end of an action.
LEMMA TakeSteps ==
    ASSUME SignalInv,
           Dispatch \/ TakeEnter \/ TakeFails \/ Scan \/ Taken \/ TakenFails \/ ActionEnds
    PROVE  SignalInv'
<1> USE SignalAssumption DEF SignalInv, Signals, CHLD, Setting
<1>1. CASE Dispatch \/ TakeEnter \/ TakeFails \/ ActionEnds
  <2> USE <1>1 DEF Dispatch, TakeEnter, TakeFails, ActionEnds, kernel, recorder, shell
  <2>1. TypeInv'
    BY DEF TypeInv, States
  <2>2. MaskInv' /\ Registered' /\ CallRemembers'
    BY DEF MaskInv, Registered, CallRemembers, BlockedInWait
  <2>3. Announced' /\ OnItsWay' /\ WaitInv'
    BY DEF Announced, OnItsWay, WaitInv, NoMissedWakeup
  <2> QED BY <2>1, <2>2, <2>3
<1>2. CASE Scan
  <2> DEFINE s == IF flags = {} THEN 0 ELSE Least(flags)
  <2>0. /\ s \in Signals \cup {0} /\ (s # 0 => s \in flags) /\ (flags # {} => s \in flags)
        /\ 0 \notin flags
    <3>1. flags \subseteq Signals /\ 0 \notin Signals
      BY DEF TypeInv
    <3>2. CASE flags = {}
      BY <3>1, <3>2
    <3>3. CASE flags # {}
      <4>1. Least(flags) \in flags
        BY <3>1, <3>3, LeastIsMember
      <4> QED BY <3>1, <3>3, <4>1
    <3> QED BY <3>2, <3>3
  <2>1. /\ flags' = flags \ {s} /\ any' = StillAny(s) /\ call' = [sig |-> s]
        /\ pc = "scan" /\ pc' = "take_restore"
        /\ UNCHANGED <<disp, mask, queued, notify, child, recorded, active, traps, running, owed>>
    BY <1>2 DEF Scan, kernel, shell
  <2> HIDE DEF s
  <2>2. TypeInv'
    BY <2>0, <2>1 DEF TypeInv, States, TakeCalls, StillAny
  <2>3. MaskInv' /\ Registered' /\ CallRemembers'
    BY <2>1 DEF MaskInv, Registered, CallRemembers, BlockedInWait
  <2>4. Announced' /\ OnItsWay' /\ WaitInv'
    BY <2>0, <2>1 DEF Announced, OnItsWay, WaitInv, NoMissedWakeup, StillAny
  <2> QED BY <2>2, <2>3, <2>4
<1>3. CASE Taken
  <2> USE <1>3 DEF Taken, recorder
  <2>0. call \in TakeCalls /\ call.sig \in Signals \cup {0} /\ pc = "take_restore"
    BY DEF TypeInv, TakeCalls
  <2>1. TypeInv'
    BY <2>0 DEF TypeInv, States, TakeCalls, NoCall
  <2>2. MaskInv' /\ Registered' /\ CallRemembers'
    BY DEF MaskInv, Registered, CallRemembers, BlockedInWait
  <2>3. Announced' /\ OnItsWay' /\ WaitInv'
    BY <2>0 DEF Announced, OnItsWay, WaitInv, NoMissedWakeup, TypeInv
  <2> QED BY <2>1, <2>2, <2>3
<1>4. CASE TakenFails
  <2> USE <1>4 DEF TakenFails, shell
  <2>0. call \in TakeCalls /\ call.sig \in Signals \cup {0} /\ pc = "take_restore"
    BY DEF TypeInv, TakeCalls
  <2>1. TypeInv'
    BY <2>0 DEF TypeInv, States, TakeCalls, NoCall
  <2>2. MaskInv' /\ Registered' /\ CallRemembers'
    BY DEF MaskInv, Registered, CallRemembers, BlockedInWait
  <2>3. Announced' /\ WaitInv'
    BY <2>0 DEF Announced, WaitInv, NoMissedWakeup
  <2>4. OnItsWay'
    <3>1. owed' = owed /\ UNCHANGED <<queued, recorded>> /\ pc' = "exited" /\ flags \subseteq flags'
      OBVIOUS
    <3>2. ASSUME NEW s \in owed PROVE s \in queued \cup flags'
      <4>1. s \in queued \cup flags \/ s = call.sig
        BY <2>0 DEF OnItsWay
      <4>2. CASE s = call.sig
        <5>1. call.sig # 0
          BY <4>2 DEF TypeInv
        <5> QED BY <5>1, <4>2
      <4> QED BY <3>1, <4>1, <4>2
    <3> QED BY <3>1, <3>2 DEF OnItsWay
  <2> QED BY <2>1, <2>2, <2>3, <2>4
<1> QED BY <1>1, <1>2, <1>3, <1>4

\* Waits, children and subshells.
LEMMA WaitSteps ==
    ASSUME SignalInv,
           WaitEnter \/ WaitPlain \/ Check \/ Suspend \/ WaitEnd \/ Waitpid \/ StartChild \/ Fork
    PROVE  SignalInv'
<1> USE SignalAssumption DEF SignalInv, Signals, CHLD, Setting
<1>1. CASE Fork
  <2> USE <1>1 DEF Fork
  <2>1. TypeInv'
    BY DEF TypeInv, States, Dispositions
  <2>2. MaskInv' /\ Registered' /\ CallRemembers'
    BY DEF MaskInv, Registered, CallRemembers, TypeInv, Dispositions
  <2>3. Announced' /\ OnItsWay' /\ WaitInv'
    BY DEF Announced, OnItsWay, WaitInv, NoMissedWakeup
  <2> QED BY <2>1, <2>2, <2>3
<1>2. CASE WaitEnter \/ WaitPlain \/ Check \/ Suspend \/ WaitEnd \/ Waitpid \/ StartChild
  <2> USE <1>2 DEF WaitEnter, WaitPlain, Check, Suspend, WaitEnd, Waitpid, StartChild, kernel, recorder, shell
  <2>1. TypeInv'
    BY DEF TypeInv, States, BlockedInWait
  <2>2. MaskInv' /\ Registered' /\ CallRemembers'
    BY DEF MaskInv, Registered, CallRemembers, BlockedInWait
  <2>3. Announced' /\ OnItsWay'
    BY DEF Announced, OnItsWay
  <2>4. WaitInv'
    BY DEF WaitInv, NoMissedWakeup, TypeInv
  <2> QED BY <2>1, <2>2, <2>3, <2>4
<1> QED BY <1>1, <1>2

THEOREM SignalInvInductive == Spec => []SignalInv
<1>1. SignalInv /\ [Next]_vars => SignalInv'
  <2> SUFFICES ASSUME SignalInv, [Next]_vars PROVE SignalInv'
    OBVIOUS
  <2>1. CASE UNCHANGED vars
    BY <2>1 DEF vars, kernel, recorder, shell, SignalInv, TypeInv, MaskInv, Registered, CallRemembers,
       Announced, OnItsWay, WaitInv, NoMissedWakeup, Setting, BlockedInWait
  <2> QED BY <2>1, KernelSteps, SetSteps, TakeSteps, WaitSteps DEF Next, Command, Shell
<1> QED BY <1>1, InitInv, PTL DEF Spec

\* A signal that arrived for a trap is kept until its action starts, and what
\* the recorder holds has a trap to run: bx_signal_pending_set, _take and the
\* handler, with every failure, between any two steps.
THEOREM SignalsKept == Spec => []TrappedSignalsKept
<1>1. SignalInv => TrappedSignalsKept
  BY DEF SignalInv, TrappedSignalsKept, OnItsWay, Announced, Registered, TypeInv, Alive, Setting
<1> QED BY <1>1, SignalInvInductive, PTL

\* The safety half of WaitEnds: the test of flags and child and the sleep of
\* bx_signal_pending_wait_child leave no gap.
THEOREM WaitsMissNothing == Spec => []NoMissedWakeup
<1>1. SignalInv => NoMissedWakeup
  BY DEF SignalInv, WaitInv
<1> QED BY <1>1, SignalInvInductive, PTL

-----------------------------------------------------------------------------
(* Descriptor transactions: the loop that moves backups, and numbers.        *)

\* A set of numbers that is not empty has a least one.
LEMMA LowestOfSome ==
    ASSUME NEW S \in SUBSET Nat, S # {}
    PROVE  Lowest(S) \in S /\ \A y \in S : Lowest(S) <= y
<1>1. PICK s \in S : \A t \in S : ~(<<t, s>> \in OpToRel(<, Nat))
  BY NatLessThanWellFounded, WFMin
<1>2. ASSUME NEW t \in S PROVE s <= t
  <2>1. <<t, s>> \in Nat \X Nat /\ <<t, s>>[1] = t /\ <<t, s>>[2] = s
    OBVIOUS
  <2>2. ~(t < s)
    BY <1>1, <2>1 DEF OpToRel
  <2> QED BY <2>2
<1> QED BY <1>2 DEF Lowest

\* A set of descriptors that is not empty has a highest.
LEMMA HighestOfSome ==
    ASSUME NEW S \in SUBSET Fds, S # {}
    PROVE  Highest(S) \in S
<1> DEFINE D == {MaxFd - x : x \in S}
<1>0. MaxFd \in Nat
  BY FdAssumption
<1>1. D \in SUBSET Nat /\ D # {}
  <2>1. ASSUME NEW x \in S PROVE MaxFd - x \in Nat
    <3>1. x \in Nat /\ x <= MaxFd
      BY <1>0 DEF Fds
    <3> QED BY <1>0, <3>1
  <2>2. D # {}
    OBVIOUS
  <2> QED BY <2>1, <2>2
<1>2. PICK d \in D : \A t \in D : d <= t
  BY <1>1, LowestOfSome
<1>3. PICK x \in S : d = MaxFd - x
  OBVIOUS
<1>4. ASSUME NEW y \in S PROVE x >= y
  <2>1. MaxFd - y \in D
    OBVIOUS
  <2>2. MaxFd - x <= MaxFd - y
    BY <1>2, <1>3, <2>1
  <2> QED BY <1>0, <2>2 DEF Fds
<1> QED BY <1>4 DEF Highest

\* The loop has a round for every entry, in their order.
LEMMA MoveAllRounds ==
    ASSUME NEW s, Len(entries) \in Nat
    PROVE  \E after :
             /\ after[0] = s
             /\ \A i \in 1 .. Len(entries) : after[i] = MoveStep(after[i - 1], i)
             /\ MoveAll(s) = after[Len(entries)]
<1> DEFINE Rounds(n, g) == g = [i \in 0 .. n |-> IF i = 0 THEN s ELSE MoveStep(g[i - 1], i)]
           Bad == {n \in Nat : ~ \E g : Rounds(n, g)}
<1>1. Bad = {}
  <2> SUFFICES ASSUME Bad # {} PROVE FALSE
    OBVIOUS
  <2>1. PICK n \in Bad : \A m \in Bad : n <= m
    BY LowestOfSome
  <2>2. CASE n = 0
    <3>1. Rounds(0, [i \in 0 .. 0 |-> s])
      OBVIOUS
    <3> QED BY <2>2, <3>1
  <2>3. CASE n # 0
    <3>1. n - 1 \in Nat /\ n - 1 \notin Bad
      <4>1. n \in Nat
        BY <2>1
      <4> HIDE DEF Bad
      <4> QED BY <2>1, <2>3, <4>1
    <3>2. PICK g : Rounds(n - 1, g)
      BY <3>1
    <3> DEFINE h == [i \in 0 .. n |-> IF i < n THEN g[i] ELSE MoveStep(g[n - 1], n)]
    <3> HIDE DEF Rounds
    <3>3. g[0] = s /\ \A i \in 1 .. n - 1 : g[i] = MoveStep(g[i - 1], i)
      BY <3>1, <3>2 DEF Rounds
    <3>4. \A i \in 0 .. n : h[i] = IF i = 0 THEN s ELSE MoveStep(h[i - 1], i)
      <4> SUFFICES ASSUME NEW i \in 0 .. n PROVE h[i] = IF i = 0 THEN s ELSE MoveStep(h[i - 1], i)
        OBVIOUS
      <4>1. CASE i = 0
        BY <2>3, <3>3, <4>1
      <4>2. CASE i # 0 /\ i < n
        BY <3>3, <4>2
      <4>3. CASE i = n /\ n # 0
        BY <4>3
      <4> QED BY <4>1, <4>2, <4>3, <2>3
    <3>5. Rounds(n, h)
      BY <3>4 DEF Rounds
    <3> QED BY <2>1, <3>5
  <2> QED BY <2>2, <2>3
<1>2. \E g : Rounds(Len(entries), g)
  BY <1>1
<1> DEFINE after == CHOOSE g : Rounds(Len(entries), g)
<1>3. Rounds(Len(entries), after)
  BY <1>2
<1>4. MoveAll(s) = after[Len(entries)]
  BY DEF MoveAll
<1>5. after[0] = s /\ \A i \in 1 .. Len(entries) : after[i] = MoveStep(after[i - 1], i)
  <2> HIDE DEF after
  <2> QED BY <1>3
<1> QED BY <1>4, <1>5

-----------------------------------------------------------------------------

\* A number that is offered is free and not declared, and it is the least.
LEMMA AllowedNumber ==
    ASSUME NEW tab \in [Fds -> Descs], NEW least \in Nat, NEW fs, Allowed(tab, least, fs) # {}
    PROVE  /\ Lowest(Allowed(tab, least, fs)) \in Fds
           /\ tab[Lowest(Allowed(tab, least, fs))] = Closed
           /\ Lowest(Allowed(tab, least, fs)) \notin Declared(fs)
<1>1. Allowed(tab, least, fs) \in SUBSET Nat
  BY FdAssumption DEF Allowed, FreeFrom, Fds
<1>2. Lowest(Allowed(tab, least, fs)) \in Allowed(tab, least, fs)
  BY <1>1, LowestOfSome
<1> QED BY <1>2 DEF Allowed, FreeFrom, Open

\* The minimum that a search for a free number leaves is a number.
LEMMA NextBackupType ==
    ASSUME NEW tab \in [Fds -> Descs], NEW least \in Nat, NEW fs
    PROVE  NextBackup(tab, least, fs) \in Nat
<1>1. CASE Allowed(tab, least, fs) # {}
  BY <1>1, AllowedNumber, FdAssumption DEF NextBackup, Fds
<1>2. CASE Allowed(tab, least, fs) = {} /\ FreeFrom(tab, least) # {}
  <2>1. FreeFrom(tab, least) \in SUBSET Fds
    BY DEF FreeFrom
  <2>2. Highest(FreeFrom(tab, least)) \in Fds
    BY <1>2, <2>1, HighestOfSome
  <2> QED BY <1>2, <2>2, FdAssumption DEF NextBackup, Fds
<1>3. CASE Allowed(tab, least, fs) = {} /\ FreeFrom(tab, least) = {}
  BY <1>3 DEF NextBackup
<1> QED BY <1>1, <1>2, <1>3

\* A closed descriptor is one of the things a descriptor can be.
LEMMA ClosedIsDesc == Closed \in Descs
BY DEF Closed, Descs, Desc

\* A descriptor that is open can be passed on, with either flag.
LEMMA OpenIsDesc ==
    ASSUME NEW d \in Descs, d # Closed, NEW c \in BOOLEAN
    PROVE  [file |-> d.file, cloexec |-> c] \in Descs
BY DEF Closed, Descs, Desc

\* A duplicate is open and close-on-exec, and changes one descriptor.
LEMMA DupType ==
    ASSUME NEW tab \in [Fds -> Descs], NEW from \in Fds, NEW to \in Fds, tab[from] # Closed
    PROVE  /\ Dup(tab, from, to) \in [Fds -> Descs]
           /\ Dup(tab, from, to)[to] # Closed
           /\ Dup(tab, from, to)[to] = [file |-> tab[from].file, cloexec |-> TRUE]
           /\ \A fd \in Fds \ {to} : Dup(tab, from, to)[fd] = tab[fd]
<1>1. [file |-> tab[from].file, cloexec |-> TRUE] \in Descs
  BY OpenIsDesc
<1> QED BY <1>1 DEF Dup, Closed

-----------------------------------------------------------------------------
(* The invariant. *)

\* The backups of a stack of entries, in a table, where D is declared: each is
\* open, close-on-exec, nobody's declared number and of one entry only.
Backups(tab, ents, D) ==
    \A i \in 1 .. Len(ents) : ents[i].saved # None =>
        /\ tab[ents[i].saved] # Closed /\ tab[ents[i].saved].cloexec
        /\ ents[i].saved \notin D
        /\ \A j \in 1 .. Len(ents) : j # i => ents[j].saved # ents[i].saved

\* What the script sees of one descriptor.
Seen(tab, ents, fd) == IF \E i \in 1 .. Len(ents) : ents[i].saved = fd THEN Closed ELSE tab[fd]

FdType ==
    /\ fds \in [Fds -> Descs]
    /\ entries \in Seq(Entries) /\ frames \in Seq(Frames)

\* The entries of a transaction follow those of the transactions around it.
Nested ==
    \A k \in 1 .. Len(frames) :
        /\ frames[k].start <= Len(entries)
        /\ \A l \in k .. Len(frames) : frames[k].start <= frames[l].start

\* Every entry is of some transaction that has declared its target.
Owned ==
    \A i \in 1 .. Len(entries) :
        \E k \in 1 .. Len(frames) : frames[k].start < i /\ entries[i].target \in frames[k].refs

\* A transaction saves what it has declared, each target once.
SavedOnce ==
    \A k \in 1 .. Len(frames) :
        /\ \A i \in FrameEntries(k) : entries[i].target \in frames[k].refs
        /\ \A i, j \in FrameEntries(k) : entries[i].target = entries[j].target => i = j

FdInv == FdType /\ Backups(fds, entries, Declared(frames)) /\ Nested /\ Owned /\ SavedOnce

\* The invariant implies the assertion of fd_transaction.c.
LEMMA FdInvGivesStack == FdInv => StackInvariants
<1> SUFFICES ASSUME FdInv PROVE StackInvariants
  OBVIOUS
<1> USE DEF FdInv, FdType
<1>1. frames = <<>> => entries = <<>>
  <2>1. frames = <<>> => ~ \E i \in 1 .. Len(entries) : TRUE
    BY DEF Owned
  <2>2. Len(entries) \in Nat
    OBVIOUS
  <2> QED BY <2>1, <2>2
<1>2. ASSUME NEW i \in 1 .. Len(entries)
      PROVE  /\ entries[i].saved # entries[i].target
             /\ entries[i].saved # None =>
                  /\ Open(fds, entries[i].saved) /\ fds[entries[i].saved].cloexec
                  /\ entries[i].saved \notin Declared(frames)
                  /\ \A j \in 1 .. i - 1 : entries[j].saved # entries[i].saved
  <2>1. entries[i].target \in Fds /\ entries[i].target # None
    <3>1. entries[i] \in Entries
      OBVIOUS
    <3> QED BY <3>1, FdAssumption DEF Entries, Fds, None
  <2>2. entries[i].target \in Declared(frames)
    BY DEF Owned, Declared
  <2>3. \A j \in 1 .. i - 1 : j \in 1 .. Len(entries) /\ j # i
    OBVIOUS
  <2> QED BY <2>1, <2>2, <2>3 DEF Backups, Open
<1> QED BY <1>1, <1>2 DEF StackInvariants, SavedOnce

-----------------------------------------------------------------------------
(* The loop that moves backups.                                              *)

Candidates == [fds : [Fds -> Descs], entries : Seq(Entries), next : Nat, fs : Seq(Frames), ok : BOOLEAN]

\* What the loop leaves as it was: the entries but for the number of their
\* backup, what each backup keeps open, and what the script sees.
SameContents(s) ==
    /\ Len(s.entries) = Len(entries)
    /\ \A i \in 1 .. Len(entries) :
        /\ s.entries[i].target = entries[i].target /\ s.entries[i].flags = entries[i].flags
        /\ s.entries[i].saved = None <=> entries[i].saved = None
        /\ entries[i].saved # None => s.fds[s.entries[i].saved].file = fds[entries[i].saved].file
    /\ \A fd \in Fds : Seen(s.fds, s.entries, fd) = Seen(fds, entries, fd)

Relocated(s, fs) ==
    /\ s \in Candidates /\ s.fs = fs
    /\ Backups(s.fds, s.entries, Declared(frames))
    /\ SameContents(s)

\* The transactions that are tried are the active ones and more descriptors for
\* the newest.
Extends(fs) ==
    /\ fs \in Seq(Frames) /\ Len(fs) > 0
    /\ Declared(fs) = Declared(frames) \cup fs[Len(fs)].refs

\* A backup that moves is out of the way and shows nowhere.
LEMMA MoveBackupKeeps ==
    ASSUME FdInv, NEW fs, Extends(fs), NEW s, Relocated(s, fs), NEW i \in 1 .. Len(entries),
           s.entries[i].saved # None, Allowed(s.fds, s.next, s.fs) # {}
    PROVE  /\ Relocated(MoveBackup(s, i), fs)
           /\ MoveBackup(s, i).entries[i].saved \notin fs[Len(fs)].refs
           /\ \A j \in 1 .. Len(entries) \ {i} : MoveBackup(s, i).entries[j] = s.entries[j]
<1> DEFINE fd == s.entries[i].saved
           to == Lowest(Allowed(s.fds, s.next, s.fs))
           tab == [Dup(s.fds, fd, to) EXCEPT ![fd] = Closed]
           ents == [s.entries EXCEPT ![i].saved = to]
           t == MoveBackup(s, i)
<1>0. s.fds \in [Fds -> Descs] /\ s.entries \in Seq(Entries) /\ s.next \in Nat /\ s.fs = fs /\ s.ok \in BOOLEAN
  BY DEF Relocated, Candidates
<1>1. i \in 1 .. Len(s.entries) /\ Len(s.entries) = Len(entries) /\ Len(entries) \in Nat
  BY DEF Relocated, SameContents, FdInv, FdType
<1>2. s.entries[i] \in Entries /\ fd \in Fds
  <2>1. s.entries[i] \in Entries
    BY <1>0, <1>1
  <2> QED BY <2>1 DEF Entries
<1>3. to \in Fds /\ s.fds[to] = Closed /\ to \notin Declared(fs)
  BY <1>0, AllowedNumber
<1>4. s.fds[fd] # Closed /\ fd \notin Declared(frames)
      /\ \A j \in 1 .. Len(entries) : j # i => s.entries[j].saved # fd
  BY <1>1 DEF Relocated, Backups
<1>5. fd # to
  BY <1>3, <1>4
<1>6. t = [s EXCEPT !.fds = tab, !.entries = ents, !.next = NextBackup(s.fds, s.next, s.fs)]
  BY DEF MoveBackup
<1>7. /\ tab \in [Fds -> Descs] /\ tab[fd] = Closed
      /\ tab[to] = [file |-> s.fds[fd].file, cloexec |-> TRUE] /\ tab[to] # Closed
      /\ \A x \in Fds \ {fd, to} : tab[x] = s.fds[x]
  <2>1. Dup(s.fds, fd, to) \in [Fds -> Descs]
        /\ Dup(s.fds, fd, to)[to] # Closed
        /\ Dup(s.fds, fd, to)[to] = [file |-> s.fds[fd].file, cloexec |-> TRUE]
        /\ \A x \in Fds \ {to} : Dup(s.fds, fd, to)[x] = s.fds[x]
    BY <1>0, <1>2, <1>3, <1>4, DupType
  <2> HIDE DEF fd, to
  <2> QED BY <2>1, <1>2, <1>3, <1>5, ClosedIsDesc
<1>8. /\ ents \in Seq(Entries) /\ Len(ents) = Len(entries)
      /\ ents[i].saved = to /\ ents[i].target = s.entries[i].target /\ ents[i].flags = s.entries[i].flags
      /\ \A j \in 1 .. Len(entries) \ {i} : ents[j] = s.entries[j]
  <2>1. [s.entries[i] EXCEPT !.saved = to] \in Entries
    BY <1>2, <1>3 DEF Entries
  <2>2. ents = [s.entries EXCEPT ![i] = [s.entries[i] EXCEPT !.saved = to]]
    BY <1>0, <1>1
  <2>3. [s.entries[i] EXCEPT !.saved = to].saved = to
        /\ [s.entries[i] EXCEPT !.saved = to].target = s.entries[i].target
        /\ [s.entries[i] EXCEPT !.saved = to].flags = s.entries[i].flags
    BY <1>2 DEF Entries
  <2> HIDE DEF fd, to, ents
  <2> QED BY <1>0, <1>1, <2>1, <2>2, <2>3
<1>9. t \in Candidates /\ t.fds = tab /\ t.entries = ents /\ t.fs = fs
  <2>1. NextBackup(s.fds, s.next, s.fs) \in Nat
    BY <1>0, NextBackupType
  <2> HIDE DEF fd, to, tab, ents, t
  <2> QED BY <1>0, <1>6, <1>7, <1>8, <2>1 DEF Candidates, Relocated
<1> HIDE DEF fd, to, tab, ents, t
<1>10. \A j \in 1 .. Len(entries) \ {i} : s.entries[j].saved # None =>
         /\ s.entries[j].saved \in Fds \ {fd, to}
         /\ tab[s.entries[j].saved] = s.fds[s.entries[j].saved]
  <2> SUFFICES ASSUME NEW j \in 1 .. Len(entries) \ {i}, s.entries[j].saved # None
               PROVE  s.entries[j].saved \in Fds \ {fd, to}
    BY <1>7
  <2>1. s.entries[j] \in Entries
    BY <1>0, <1>1
  <2>2. s.entries[j].saved \in Fds /\ s.entries[j].saved # fd
    BY <1>4, <2>1 DEF Entries
  <2>3. s.fds[s.entries[j].saved] # Closed
    BY <1>1 DEF Relocated, Backups
  <2> QED BY <1>3, <2>2, <2>3
<1>11. Backups(tab, ents, Declared(frames))
  <2> SUFFICES ASSUME NEW j \in 1 .. Len(entries), ents[j].saved # None
               PROVE  /\ tab[ents[j].saved] # Closed /\ tab[ents[j].saved].cloexec
                      /\ ents[j].saved \notin Declared(frames)
                      /\ \A k \in 1 .. Len(entries) : k # j => ents[k].saved # ents[j].saved
    BY <1>8 DEF Backups
  <2>1. to # None
    BY <1>3, FdAssumption DEF Fds, None
  <2>2. CASE j = i
    <3>1. to \notin Declared(frames)
      BY <1>3 DEF Extends
    <3>2. \A k \in 1 .. Len(entries) : k # i => ents[k].saved # to
      BY <1>8, <1>10, <2>1
    <3> QED BY <1>7, <1>8, <2>2, <3>1, <3>2
  <2>3. CASE j # i
    <3>1. ents[j] = s.entries[j] /\ s.entries[j].saved # to
      BY <1>8, <1>10, <2>3
    <3>2. \A k \in 1 .. Len(entries) : k # j => ents[k].saved # ents[j].saved
      BY <1>1, <1>8, <2>3, <3>1 DEF Relocated, Backups
    <3>3. s.fds[s.entries[j].saved] # Closed /\ s.fds[s.entries[j].saved].cloexec
          /\ s.entries[j].saved \notin Declared(frames)
      BY <1>1, <3>1 DEF Relocated, Backups
    <3> QED BY <1>10, <2>3, <3>1, <3>2, <3>3
  <2> QED BY <2>2, <2>3
<1>12. ASSUME NEW x \in Fds PROVE Seen(tab, ents, x) = Seen(fds, entries, x)
  <2>1. Seen(s.fds, s.entries, x) = Seen(fds, entries, x)
    BY DEF Relocated, SameContents
  <2>2. Len(ents) = Len(s.entries)
    BY <1>1, <1>8
  <2>3. CASE x = to
    <3>1. \E j \in 1 .. Len(ents) : ents[j].saved = to
      BY <1>1, <1>8
    <3>2. Seen(s.fds, s.entries, to) = Closed
      BY <1>3 DEF Seen
    <3> QED BY <2>1, <2>3, <3>1, <3>2 DEF Seen
  <2>4. CASE x = fd
    <3>1. Seen(s.fds, s.entries, fd) = Closed
      BY <1>1 DEF Seen, fd
    <3>2. Seen(tab, ents, fd) = Closed
      BY <1>7 DEF Seen
    <3> QED BY <2>1, <2>4, <3>1, <3>2
  <2>5. CASE x # fd /\ x # to
    <3>1. (\E j \in 1 .. Len(ents) : ents[j].saved = x) <=> (\E j \in 1 .. Len(s.entries) : s.entries[j].saved = x)
      BY <1>1, <1>8, <2>2, <2>5 DEF fd
    <3>2. tab[x] = s.fds[x]
      BY <1>7, <2>5
    <3> QED BY <2>1, <3>1, <3>2 DEF Seen
  <2> QED BY <2>3, <2>4, <2>5
<1>13. ASSUME NEW j \in 1 .. Len(entries)
       PROVE  /\ ents[j].target = entries[j].target /\ ents[j].flags = entries[j].flags
              /\ ents[j].saved = None <=> entries[j].saved = None
              /\ entries[j].saved # None => tab[ents[j].saved].file = fds[entries[j].saved].file
  <2>1. /\ s.entries[j].target = entries[j].target /\ s.entries[j].flags = entries[j].flags
        /\ s.entries[j].saved = None <=> entries[j].saved = None
        /\ entries[j].saved # None => s.fds[s.entries[j].saved].file = fds[entries[j].saved].file
    BY DEF Relocated, SameContents
  <2>2. to # None
    BY <1>3, FdAssumption DEF Fds, None
  <2>3. CASE j = i
    <3>1. tab[to].file = s.fds[fd].file
      BY <1>7
    <3> QED BY <1>8, <2>1, <2>2, <2>3, <3>1 DEF fd
  <2>4. CASE j # i
    BY <1>8, <1>10, <2>1, <2>4
  <2> QED BY <2>3, <2>4
<1>14. Relocated(t, fs)
  BY <1>8, <1>9, <1>11, <1>12, <1>13 DEF Relocated, SameContents
<1>15. to \notin fs[Len(fs)].refs
  BY <1>3 DEF Extends
<1> QED BY <1>8, <1>9, <1>14, <1>15 DEF t

\* So does a round of the loop, whether it moves a backup, fails or does nothing.
LEMMA MoveStepKeeps ==
    ASSUME FdInv, NEW fs, Extends(fs), NEW s, Relocated(s, fs), NEW i \in 1 .. Len(entries)
    PROVE  /\ Relocated(MoveStep(s, i), fs)
           /\ MoveStep(s, i).ok => /\ s.ok
                                   /\ MoveStep(s, i).entries[i].saved \notin fs[Len(fs)].refs
                                   /\ \A j \in 1 .. Len(entries) \ {i} : MoveStep(s, i).entries[j] = s.entries[j]
<1>0. s.fs = fs /\ s \in Candidates
  BY DEF Relocated
<1>1. CASE ~s.ok \/ s.entries[i].saved \notin fs[Len(fs)].refs
  BY <1>0, <1>1 DEF MoveStep
<1>2. CASE s.ok /\ s.entries[i].saved \in fs[Len(fs)].refs /\ Allowed(s.fds, s.next, s.fs) = {}
  <2> DEFINE t == [s EXCEPT !.ok = FALSE]
  <2>1. MoveStep(s, i) = t
    BY <1>0, <1>2 DEF MoveStep
  <2>2. t \in Candidates /\ t.fs = fs /\ t.fds = s.fds /\ t.entries = s.entries /\ ~t.ok
    BY <1>0 DEF Candidates
  <2> HIDE DEF t
  <2>3. Relocated(t, fs)
    BY <2>2 DEF Relocated, SameContents
  <2> QED BY <2>1, <2>2, <2>3
<1>3. CASE s.ok /\ s.entries[i].saved \in fs[Len(fs)].refs /\ Allowed(s.fds, s.next, s.fs) # {}
  <2>1. MoveStep(s, i) = MoveBackup(s, i)
    BY <1>0, <1>3 DEF MoveStep
  <2>2. s.entries[i].saved # None
    <3>1. fs[Len(fs)] \in Frames
      BY DEF Extends
    <3> QED BY <1>3, <3>1, FdAssumption DEF Frames, Fds, None
  <2> QED BY <1>3, <2>1, <2>2, MoveBackupKeeps
<1> QED BY <1>1, <1>2, <1>3

\* After the loop nothing has changed but where backups are, and if it came to
\* its end none is in the way.
LEMMA MovedKeeps ==
    ASSUME FdInv, NEW fs, Extends(fs)
    PROVE  /\ Relocated(Moved(fs), fs)
           /\ Moved(fs).ok => Backups(Moved(fs).fds, Moved(fs).entries, Declared(fs))
<1> DEFINE s == [fds |-> fds, entries |-> entries, next |-> fs[Len(fs)].next, fs |-> fs, ok |-> TRUE]
           n == Len(entries)
<1>0. n \in Nat
  BY DEF FdInv, FdType
<1>1. Relocated(s, fs)
  <2>1. fs[Len(fs)] \in Frames
    BY DEF Extends
  <2>2. s \in Candidates
    BY <2>1 DEF Candidates, Extends, Frames, FdInv, FdType
  <2> QED BY <2>2 DEF Relocated, SameContents, FdInv
<1>2. PICK after : /\ after[0] = s
                   /\ \A i \in 1 .. n : after[i] = MoveStep(after[i - 1], i)
                   /\ MoveAll(s) = after[n]
  BY <1>0, MoveAllRounds
<1> HIDE DEF s, n
<1> DEFINE Good(i) == /\ Relocated(after[i], fs)
                      /\ after[i].ok => \A j \in 1 .. i : after[i].entries[j].saved \notin fs[Len(fs)].refs
           Bad == {i \in 0 .. n : ~Good(i)}
<1>3. Bad = {}
  <2> SUFFICES ASSUME Bad # {} PROVE FALSE
    OBVIOUS
  <2>0. Bad \in SUBSET Nat
    BY <1>0
  <2>1. PICK i \in Bad : \A m \in Bad : i <= m
    <3> HIDE DEF Bad
    <3> QED BY <2>0, LowestOfSome
  <2>2. CASE i = 0
    BY <1>1, <1>2, <2>2
  <2>3. CASE i # 0
    <3>1. i - 1 \in 0 .. n /\ i \in 1 .. n /\ i - 1 \notin Bad
      BY <1>0, <2>1, <2>3
    <3>2. Good(i - 1)
      BY <3>1
    <3>3. /\ Relocated(after[i], fs)
          /\ after[i].ok => /\ after[i - 1].ok
                            /\ after[i].entries[i].saved \notin fs[Len(fs)].refs
                            /\ \A j \in 1 .. n \ {i} : after[i].entries[j] = after[i - 1].entries[j]
      BY <1>2, <3>1, <3>2, MoveStepKeeps DEF n
    <3>4. ASSUME after[i].ok, NEW j \in 1 .. i PROVE after[i].entries[j].saved \notin fs[Len(fs)].refs
      <4>1. CASE j = i
        BY <3>3, <3>4, <4>1
      <4>2. CASE j # i
        <5>1. j \in 1 .. i - 1 /\ j \in 1 .. n \ {i}
          BY <1>0, <3>1, <4>2
        <5> QED BY <3>2, <3>3, <3>4, <5>1
      <4> QED BY <4>1, <4>2
    <3>5. Good(i)
      BY <3>3, <3>4
    <3> QED BY <2>1, <3>5
  <2> QED BY <2>2, <2>3
<1>4. Good(n)
  BY <1>0, <1>3
<1>5. Moved(fs) = after[n]
  BY <1>2 DEF Moved, s
<1> HIDE DEF Bad
<1>6. ASSUME after[n].ok PROVE Backups(after[n].fds, after[n].entries, Declared(fs))
  <2>1. Len(after[n].entries) = n /\ Backups(after[n].fds, after[n].entries, Declared(frames))
    BY <1>4 DEF Relocated, SameContents, n
  <2> QED BY <1>4, <1>6, <2>1 DEF Backups, Extends
<1> QED BY <1>4, <1>5, <1>6

-----------------------------------------------------------------------------
(* Every step keeps the invariant.                                           *)

\* The entries of a transaction are entries of the stack.
LEMMA FrameEntriesInStack ==
    ASSUME FdType, Nested, NEW k \in 1 .. Len(frames)
    PROVE  /\ FrameEntries(k) \subseteq 1 .. Len(entries)
           /\ frames[k] \in Frames /\ frames[k].start \in Nat
           /\ k = Len(frames) => FrameEntries(k) = TopEntries
<1>1. frames[k] \in Frames /\ Len(frames) \in Nat /\ Len(entries) \in Nat
  BY DEF FdType
<1>2. frames[k].start \in Nat /\ frames[k].start <= Len(entries)
  BY <1>1 DEF Frames, Nested
<1>3. CASE k = Len(frames)
  BY <1>1, <1>2, <1>3 DEF FrameEntries, TopEntries, Top
<1>4. CASE k # Len(frames)
  <2>1. k + 1 \in 1 .. Len(frames)
    BY <1>1, <1>4
  <2>2. frames[k + 1] \in Frames
    BY <2>1 DEF FdType
  <2>3. frames[k + 1].start \in Nat /\ frames[k + 1].start <= Len(entries)
    BY <2>1, <2>2 DEF Frames, Nested
  <2> QED BY <1>1, <1>2, <1>4, <2>3 DEF FrameEntries
<1> QED BY <1>1, <1>2, <1>3, <1>4

\* A step that keeps the transactions, up to more declarations, and the entries,
\* up to the numbers of the backups.
SameShape ==
    /\ Len(frames') = Len(frames) /\ Len(entries') = Len(entries)
    /\ \A k \in 1 .. Len(frames) : frames'[k].start = frames[k].start /\ frames[k].refs \subseteq frames'[k].refs
    /\ \A i \in 1 .. Len(entries) : entries'[i].target = entries[i].target

\* Such a step keeps what the invariant says of transactions and entries.
LEMMA SameShapeKeeps ==
    ASSUME FdInv, FdType', SameShape
    PROVE  /\ Nested' /\ Owned' /\ SavedOnce'
           /\ \A k \in 1 .. Len(frames) : FrameEntries(k)' = FrameEntries(k)
<1>0. Len(frames) \in Nat /\ Len(entries) \in Nat
  BY DEF FdInv, FdType
<1>1. Nested'
  BY DEF FdInv, Nested, SameShape
<1>2. Owned'
  <2> SUFFICES ASSUME NEW i \in 1 .. Len(entries)
               PROVE  \E k \in 1 .. Len(frames) : frames'[k].start < i /\ entries'[i].target \in frames'[k].refs
    BY DEF Owned, SameShape
  <2>1. PICK k \in 1 .. Len(frames) : frames[k].start < i /\ entries[i].target \in frames[k].refs
    BY DEF FdInv, Owned
  <2> QED BY <2>1 DEF SameShape
<1>3. ASSUME NEW k \in 1 .. Len(frames) PROVE FrameEntries(k)' = FrameEntries(k)
  <2>1. CASE k = Len(frames)
    BY <2>1 DEF FrameEntries, SameShape
  <2>2. CASE k # Len(frames)
    <3>1. k + 1 \in 1 .. Len(frames)
      BY <1>0, <2>2
    <3> QED BY <2>2, <3>1 DEF FrameEntries, SameShape
  <2> QED BY <2>1, <2>2
<1>4. SavedOnce'
  <2> SUFFICES ASSUME NEW k \in 1 .. Len(frames)
               PROVE  /\ \A i \in FrameEntries(k) : entries'[i].target \in frames'[k].refs
                      /\ \A i, j \in FrameEntries(k) : entries'[i].target = entries'[j].target => i = j
    BY <1>3 DEF SavedOnce, SameShape
  <2>1. FrameEntries(k) \subseteq 1 .. Len(entries)
    BY FrameEntriesInStack DEF FdInv
  <2>2. /\ \A i \in FrameEntries(k) : entries[i].target \in frames[k].refs
        /\ \A i, j \in FrameEntries(k) : entries[i].target = entries[j].target => i = j
    BY DEF FdInv, SavedOnce
  <2> QED BY <2>1, <2>2 DEF SameShape
<1> QED BY <1>1, <1>2, <1>3, <1>4

\* At first there are no transactions.
LEMMA FdInvInit == FdInit => FdInv
<1> SUFFICES ASSUME FdInit PROVE FdInv
  OBVIOUS
<1>1. entries = <<>> /\ frames = <<>> /\ fds \in [Fds -> Descs]
  BY DEF FdInit
<1>2. Len(entries) = 0 /\ Len(frames) = 0
  BY <1>1
<1> QED BY <1>1, <1>2 DEF FdInv, FdType, Backups, Nested, Owned, SavedOnce

NewFrame(R) == [refs |-> R, start |-> Len(entries), next |-> FirstPrivate]

\* A new transaction declares more, and nothing else changes.
LEMMA BeginExtends ==
    ASSUME FdInv, NEW R \in SUBSET Fds
    PROVE  /\ NewFrame(R) \in Frames /\ Extends(Append(frames, NewFrame(R)))
           /\ Append(frames, NewFrame(R))[Len(frames) + 1] = NewFrame(R)
           /\ \A k \in 1 .. Len(frames) : Append(frames, NewFrame(R))[k] = frames[k]
<1> DEFINE fs == Append(frames, NewFrame(R))
<1>1. Len(frames) \in Nat /\ Len(entries) \in Nat /\ FirstPrivate \in Nat
  BY FdAssumption DEF FdInv, FdType
<1>2. NewFrame(R) \in Frames
  BY <1>1 DEF Frames, NewFrame
<1>3. fs \in Seq(Frames) /\ Len(fs) = Len(frames) + 1 /\ fs[Len(frames) + 1] = NewFrame(R)
      /\ \A k \in 1 .. Len(frames) : fs[k] = frames[k]
  BY <1>2 DEF FdInv, FdType
<1> HIDE DEF fs
<1>4. 1 .. Len(fs) = 1 .. Len(frames) \cup {Len(frames) + 1}
  BY <1>1, <1>3
<1>5. Declared(fs) = Declared(frames) \cup NewFrame(R).refs
  BY <1>3, <1>4 DEF Declared
<1>6. Extends(fs)
  BY <1>1, <1>3, <1>5 DEF Extends, NewFrame
<1> QED BY <1>2, <1>3, <1>6 DEF fs

\* A change of the newest transaction leaves the others.
LEMMA ReplaceLast ==
    ASSUME NEW fs \in Seq(Frames), Len(fs) > 0, NEW f \in Frames
    PROVE  LET gs == [fs EXCEPT ![Len(fs)] = f] IN
           /\ gs \in Seq(Frames) /\ Len(gs) = Len(fs) /\ gs[Len(fs)] = f
           /\ \A k \in 1 .. Len(fs) : k # Len(fs) => gs[k] = fs[k]
<1>1. Len(fs) \in 1 .. Len(fs) /\ Len(fs) \in Nat
  OBVIOUS
<1> QED BY <1>1

\* So does a reference that is added to the newest.
LEMMA AddExtends ==
    ASSUME FdInv, frames # <<>>, NEW fd \in Fds, NEW fs, fs = [frames EXCEPT ![Len(frames)].refs = @ \cup {fd}]
    PROVE  /\ Extends(fs) /\ Len(fs) = Len(frames)
           /\ \A k \in 1 .. Len(frames) : fs[k].start = frames[k].start /\ frames[k].refs \subseteq fs[k].refs
<1>1. Len(frames) \in 1 .. Len(frames) /\ frames \in Seq(Frames) /\ Len(frames) \in Nat
  <2>1. frames \in Seq(Frames) /\ Len(frames) \in Nat /\ Len(frames) # 0
    BY DEF FdInv, FdType
  <2> QED BY <2>1
<1>2. frames[Len(frames)] \in Frames
  BY <1>1
<1> DEFINE f == [frames[Len(frames)] EXCEPT !.refs = @ \cup {fd}]
<1>3. f \in Frames /\ f.start = frames[Len(frames)].start /\ f.refs = frames[Len(frames)].refs \cup {fd}
  BY <1>2 DEF Frames
<1>4. fs = [frames EXCEPT ![Len(frames)] = f]
  BY <1>1
<1> HIDE DEF f
<1>5. fs \in Seq(Frames) /\ Len(fs) = Len(frames) /\ fs[Len(frames)] = f
      /\ \A k \in 1 .. Len(frames) : k # Len(frames) => fs[k] = frames[k]
  <2>1. Len(frames) > 0
    BY <1>1
  <2> DEFINE gs == [frames EXCEPT ![Len(frames)] = f]
  <2>2. gs \in Seq(Frames) /\ Len(gs) = Len(frames) /\ gs[Len(frames)] = f
        /\ \A k \in 1 .. Len(frames) : k # Len(frames) => gs[k] = frames[k]
    BY <1>1, <1>3, <2>1, ReplaceLast
  <2>3. fs = gs
    BY <1>4
  <2> HIDE DEF gs
  <2> QED BY <2>2, <2>3
<1>6. Declared(fs) = Declared(frames) \cup fs[Len(fs)].refs
  <2>1. ASSUME NEW x \in Declared(fs) PROVE x \in Declared(frames) \cup fs[Len(fs)].refs
    BY <1>1, <1>5, <2>1 DEF Declared
  <2>2. ASSUME NEW x \in Declared(frames) PROVE x \in Declared(fs)
    BY <1>1, <1>3, <1>5, <2>2 DEF Declared
  <2>3. fs[Len(fs)].refs \subseteq Declared(fs)
    BY <1>1, <1>5 DEF Declared
  <2> QED BY <2>1, <2>2, <2>3
<1>7. \A k \in 1 .. Len(frames) : fs[k].start = frames[k].start /\ frames[k].refs \subseteq fs[k].refs
  BY <1>3, <1>5
<1>8. Extends(fs)
  <2>1. Len(fs) > 0
    BY <1>1, <1>5
  <2> QED BY <1>5, <1>6, <2>1 DEF Extends
<1> QED BY <1>5, <1>7, <1>8

\* The minimum of the newest transaction is of no other concern.
LEMMA NewMinimum ==
    ASSUME NEW fs \in Seq(Frames), Len(fs) > 0, NEW n \in Nat, NEW gs, gs = [fs EXCEPT ![Len(fs)].next = n]
    PROVE  /\ gs \in Seq(Frames) /\ Len(gs) = Len(fs) /\ Declared(gs) = Declared(fs)
           /\ \A k \in 1 .. Len(fs) : gs[k].start = fs[k].start /\ gs[k].refs = fs[k].refs
<1>1. Len(fs) \in 1 .. Len(fs) /\ Len(fs) \in Nat
  OBVIOUS
<1> DEFINE f == [fs[Len(fs)] EXCEPT !.next = n]
<1>2. fs[Len(fs)] \in Frames
  BY <1>1
<1>3. f \in Frames /\ f.start = fs[Len(fs)].start /\ f.refs = fs[Len(fs)].refs
  BY <1>2 DEF Frames
<1>4. gs = [fs EXCEPT ![Len(fs)] = f]
  BY <1>1
<1> HIDE DEF f
<1>5. gs \in Seq(Frames) /\ Len(gs) = Len(fs) /\ gs[Len(fs)] = f
      /\ \A k \in 1 .. Len(fs) : k # Len(fs) => gs[k] = fs[k]
  BY <1>1, <1>3, <1>4
<1>6. \A k \in 1 .. Len(fs) : gs[k].start = fs[k].start /\ gs[k].refs = fs[k].refs
  BY <1>3, <1>5
<1> QED BY <1>5, <1>6 DEF Declared

\* What is assumed about a stack that was moved while fs was tried, and follows.
LEMMA MovedStack ==
    ASSUME FdInv, NEW fs, Extends(fs), fds' = Moved(fs).fds, entries' = Moved(fs).entries
    PROVE  /\ fds' \in [Fds -> Descs] /\ entries' \in Seq(Entries) /\ Len(entries') = Len(entries)
           /\ \A i \in 1 .. Len(entries) : entries'[i].target = entries[i].target
           /\ Backups(fds', entries', Declared(frames))
           /\ Moved(fs).ok => Backups(fds', entries', Declared(fs))
           /\ Moved(fs).next \in Nat
<1> DEFINE s == Moved(fs)
<1>1. Relocated(s, fs) /\ (s.ok => Backups(s.fds, s.entries, Declared(fs)))
  BY MovedKeeps
<1> HIDE DEF s
<1>2. s.fds \in [Fds -> Descs] /\ s.entries \in Seq(Entries) /\ s.next \in Nat
  BY <1>1 DEF Relocated, Candidates
<1> QED BY <1>1, <1>2 DEF s, Relocated, SameContents

\* Begin, whether all backups in the way could move or not.
LEMMA BeginKeeps == ASSUME FdInv, NEW R \in SUBSET Fds, Begin(R) PROVE FdInv'
<1> DEFINE fs == Append(frames, NewFrame(R))
           s == Moved(fs)
<1>0. Len(frames) \in Nat /\ Len(entries) \in Nat
  BY DEF FdInv, FdType
<1>1. /\ fds' = s.fds /\ entries' = s.entries
      /\ frames' = IF s.ok THEN [fs EXCEPT ![Len(fs)].next = s.next] ELSE frames
  BY DEF Begin, NewFrame
<1>2. /\ NewFrame(R) \in Frames /\ Extends(fs) /\ fs[Len(frames) + 1] = NewFrame(R)
      /\ Len(fs) = Len(frames) + 1 /\ \A k \in 1 .. Len(frames) : fs[k] = frames[k]
  BY BeginExtends DEF FdInv, FdType
<1>3. /\ fds' \in [Fds -> Descs] /\ entries' \in Seq(Entries) /\ Len(entries') = Len(entries)
      /\ \A i \in 1 .. Len(entries) : entries'[i].target = entries[i].target
      /\ Backups(fds', entries', Declared(frames))
      /\ s.ok => Backups(fds', entries', Declared(fs))
      /\ s.next \in Nat
  BY <1>1, <1>2, MovedStack
<1> HIDE DEF s, fs
<1>4. CASE ~s.ok
  <2>1. frames' = frames
    BY <1>1, <1>4
  <2>2. FdType' /\ SameShape /\ Backups(fds', entries', Declared(frames'))
    BY <1>3, <2>1 DEF FdType, SameShape, FdInv
  <2> QED BY <2>2, SameShapeKeeps DEF FdInv
<1>5. CASE s.ok
  <2>1. /\ frames' \in Seq(Frames) /\ Len(frames') = Len(frames) + 1 /\ Declared(frames') = Declared(fs)
        /\ \A k \in 1 .. Len(fs) : frames'[k].start = fs[k].start /\ frames'[k].refs = fs[k].refs
    <3>1. fs \in Seq(Frames) /\ Len(fs) > 0 /\ frames' = [fs EXCEPT ![Len(fs)].next = s.next]
      BY <1>1, <1>2, <1>5 DEF Extends
    <3>2. /\ frames' \in Seq(Frames) /\ Len(frames') = Len(fs) /\ Declared(frames') = Declared(fs)
          /\ \A k \in 1 .. Len(fs) : frames'[k].start = fs[k].start /\ frames'[k].refs = fs[k].refs
      <4>1. s.next \in Nat
        BY <1>3
      <4> DEFINE gs == [fs EXCEPT ![Len(fs)].next = s.next]
      <4>2. /\ gs \in Seq(Frames) /\ Len(gs) = Len(fs) /\ Declared(gs) = Declared(fs)
            /\ \A k \in 1 .. Len(fs) : gs[k].start = fs[k].start /\ gs[k].refs = fs[k].refs
        <5>1. fs \in Seq(Frames) /\ Len(fs) > 0
          BY <3>1
        <5> HIDE DEF gs
        <5> QED BY <4>1, <5>1, NewMinimum DEF gs
      <4>3. frames' = gs
        BY <3>1
      <4> HIDE DEF gs
      <4> QED BY <4>2, <4>3
    <3> QED BY <1>2, <3>2
  <2>2. /\ \A k \in 1 .. Len(frames) : frames'[k].start = frames[k].start /\ frames'[k].refs = frames[k].refs
        /\ frames'[Len(frames) + 1].start = Len(entries)
    BY <1>0, <1>2, <2>1 DEF NewFrame
  <2>3. FdType'
    BY <1>3, <2>1 DEF FdType
  <2>4. Nested'
    <3> SUFFICES ASSUME NEW k \in 1 .. Len(frames) + 1
                 PROVE  /\ frames'[k].start <= Len(entries)
                        /\ \A l \in k .. Len(frames) + 1 : frames'[k].start <= frames'[l].start
      BY <1>3, <2>1 DEF Nested
    <3>1. CASE k = Len(frames) + 1
      BY <1>0, <2>2, <3>1
    <3>2. CASE k \in 1 .. Len(frames)
      <4>1. frames[k].start <= Len(entries) /\ \A l \in k .. Len(frames) : frames[k].start <= frames[l].start
        BY <3>2 DEF FdInv, Nested
      <4>2. \A l \in k .. Len(frames) + 1 : l = Len(frames) + 1 \/ (l \in k .. Len(frames) /\ l \in 1 .. Len(frames))
        BY <1>0, <3>2
      <4> QED BY <2>2, <3>2, <4>1, <4>2
    <3> QED BY <1>0, <3>1, <3>2
  <2>5. Owned'
    <3> SUFFICES ASSUME NEW i \in 1 .. Len(entries)
                 PROVE  \E k \in 1 .. Len(frames) + 1 : frames'[k].start < i /\ entries'[i].target \in frames'[k].refs
      BY <1>3, <2>1 DEF Owned
    <3>1. PICK k \in 1 .. Len(frames) : frames[k].start < i /\ entries[i].target \in frames[k].refs
      BY DEF FdInv, Owned
    <3>2. k \in 1 .. Len(frames) + 1
      BY <1>0
    <3> QED BY <1>3, <2>2, <3>1, <3>2
  <2>6. ASSUME NEW k \in 1 .. Len(frames) PROVE FrameEntries(k)' = FrameEntries(k)
    <3>1. CASE k = Len(frames)
      BY <1>0, <2>1, <2>2, <3>1 DEF FrameEntries
    <3>2. CASE k # Len(frames)
      <4>1. k + 1 \in 1 .. Len(frames) /\ k # Len(frames) + 1
        BY <1>0, <3>2
      <4> QED BY <2>1, <2>2, <3>2, <4>1 DEF FrameEntries
    <3> QED BY <3>1, <3>2
  <2>7. ASSUME NEW k, k = Len(frames) + 1 PROVE FrameEntries(k)' = {}
    BY <1>0, <1>3, <2>1, <2>2, <2>7 DEF FrameEntries
  <2>8. SavedOnce'
    <3> DEFINE E(k) == IF k = Len(frames) + 1 THEN {} ELSE FrameEntries(k)
    <3>0. \A k \in 1 .. Len(frames) + 1 : FrameEntries(k)' = E(k)
      BY <1>0, <2>6, <2>7
    <3> SUFFICES ASSUME NEW k \in 1 .. Len(frames) + 1
                 PROVE  /\ \A i \in E(k) : entries'[i].target \in frames'[k].refs
                        /\ \A i, j \in E(k) : entries'[i].target = entries'[j].target => i = j
      BY <2>1, <3>0 DEF SavedOnce
    <3>1. CASE k = Len(frames) + 1
      BY <3>1
    <3>2. CASE k \in 1 .. Len(frames)
      <4>1. FrameEntries(k) \subseteq 1 .. Len(entries)
        BY <3>2, FrameEntriesInStack DEF FdInv
      <4>2. /\ \A i \in FrameEntries(k) : entries[i].target \in frames[k].refs
            /\ \A i, j \in FrameEntries(k) : entries[i].target = entries[j].target => i = j
        BY <3>2 DEF FdInv, SavedOnce
      <4>3. E(k) = FrameEntries(k)
        BY <1>0, <3>2
      <4> QED BY <1>3, <2>2, <3>2, <4>1, <4>2, <4>3
    <3> QED BY <1>0, <3>1, <3>2
  <2> QED BY <1>3, <1>5, <2>1, <2>3, <2>4, <2>5, <2>8 DEF FdInv
<1> QED BY <1>4, <1>5

\* A reference that is added.
LEMMA AddReferenceKeeps == ASSUME FdInv, NEW fd \in Fds, AddReference(fd) PROVE FdInv'
<1> DEFINE fs == [frames EXCEPT ![Len(frames)].refs = @ \cup {fd}]
           s == Moved(fs)
<1>1. /\ frames # <<>>
      /\ IF s.ok THEN /\ fds' = s.fds /\ entries' = s.entries
                      /\ frames' = [fs EXCEPT ![Len(fs)].next = s.next]
         ELSE UNCHANGED fdVars
  BY DEF AddReference
<1>2. /\ Extends(fs) /\ Len(fs) = Len(frames)
      /\ \A k \in 1 .. Len(frames) : fs[k].start = frames[k].start /\ frames[k].refs \subseteq fs[k].refs
  BY <1>1, AddExtends
<1> HIDE DEF fs
<1>3. CASE ~s.ok
  BY <1>1, <1>3 DEF fdVars, FdInv, FdType, Nested, Owned, SavedOnce, FrameEntries
<1>4. CASE s.ok
  <2>1. /\ fds' \in [Fds -> Descs] /\ entries' \in Seq(Entries) /\ Len(entries') = Len(entries)
        /\ \A i \in 1 .. Len(entries) : entries'[i].target = entries[i].target
        /\ Backups(fds', entries', Declared(fs))
        /\ s.next \in Nat
    BY <1>1, <1>2, <1>4, MovedStack
  <2> HIDE DEF s
  <2>2. /\ frames' \in Seq(Frames) /\ Len(frames') = Len(frames) /\ Declared(frames') = Declared(fs)
        /\ \A k \in 1 .. Len(fs) : frames'[k].start = fs[k].start /\ frames'[k].refs = fs[k].refs
    <3> DEFINE gs == [fs EXCEPT ![Len(fs)].next = s.next]
    <3>1. gs \in Seq(Frames) /\ Len(gs) = Len(fs) /\ Declared(gs) = Declared(fs)
          /\ \A k \in 1 .. Len(fs) : gs[k].start = fs[k].start /\ gs[k].refs = fs[k].refs
      <4>1. fs \in Seq(Frames) /\ Len(fs) > 0
        BY <1>2 DEF Extends
      <4>2. s.next \in Nat
        BY <2>1
      <4> HIDE DEF gs
      <4> QED BY <4>1, <4>2, NewMinimum DEF gs
    <3>2. frames' = gs
      BY <1>1, <1>4
    <3> HIDE DEF gs
    <3> QED BY <1>2, <3>1, <3>2
  <2>3. FdType' /\ SameShape
    BY <1>2, <2>1, <2>2 DEF FdType, SameShape
  <2> QED BY <2>1, <2>2, <2>3, SameShapeKeeps DEF FdInv
<1> QED BY <1>3, <1>4

\* A change of a descriptor that was saved.
LEMMA RedirectKeeps == ASSUME FdInv, NEW fd \in Fds, Redirect(fd) PROVE FdInv'
<1>0. Len(frames) \in Nat /\ Len(entries) \in Nat
  BY DEF FdInv, FdType
<1>1. fd \in Declared(frames)
  <2>1. PICK i \in TopEntries : entries[i].target = fd
    BY DEF Redirect, IsSaved
  <2>2. Len(frames) \in 1 .. Len(frames)
    BY <1>0 DEF Redirect, FdInv, FdType
  <2>3. TopEntries = FrameEntries(Len(frames))
    BY <2>2, FrameEntriesInStack DEF FdInv
  <2>4. fd \in frames[Len(frames)].refs
    BY <2>1, <2>2, <2>3 DEF FdInv, SavedOnce
  <2> QED BY <2>2, <2>4 DEF Declared
<1>2. fds' \in [Fds -> Descs] /\ \A x \in Fds \ {fd} : fds'[x] = fds[x]
  <2>1. ASSUME NEW source \in Top.refs, Open(fds, source), fds' = [fds EXCEPT ![fd] = [file |-> fds[source].file, cloexec |-> FALSE]]
        PROVE  fds' \in [Fds -> Descs]
    <3>1. Len(frames) \in 1 .. Len(frames)
      BY <1>0 DEF Redirect, FdInv, FdType
    <3>2. frames[Len(frames)] \in Frames
      BY <3>1 DEF FdInv, FdType
    <3>3. source \in Fds
      BY <3>2 DEF Frames, Top
    <3> QED BY <2>1, <3>3, OpenIsDesc DEF Open, FdInv, FdType
  <2>2. ASSUME NEW f \in Files PROVE [file |-> f, cloexec |-> FALSE] \in Descs
    BY FdAssumption DEF Descs, Desc, Closed
  <2>3. fds \in [Fds -> Descs]
    BY DEF FdInv, FdType
  <2>4. fds' = [fds EXCEPT ![fd] = fds'[fd]]
    BY <2>3 DEF Redirect
  <2>5. fds' \in [Fds -> Descs]
    BY <2>1, <2>2, <2>3, ClosedIsDesc DEF Redirect
  <2> QED BY <2>3, <2>4, <2>5
<1>3. UNCHANGED <<entries, frames>>
  BY DEF Redirect
<1>4. FdType' /\ SameShape
  BY <1>2, <1>3 DEF FdInv, FdType, SameShape
<1>5. Backups(fds', entries', Declared(frames'))
  <2> SUFFICES ASSUME NEW i \in 1 .. Len(entries), entries[i].saved # None
               PROVE  fds'[entries[i].saved] = fds[entries[i].saved]
    BY <1>3 DEF FdInv, Backups
  <2>1. entries[i] \in Entries
    BY DEF FdInv, FdType
  <2>2. entries[i].saved \in Fds \ {fd}
    BY <1>1, <2>1 DEF Entries, FdInv, Backups
  <2> QED BY <1>2, <2>2
<1> QED BY <1>4, <1>5, SameShapeKeeps DEF FdInv

\* An entry more for the newest transaction.
LEMMA EntryAdded ==
    ASSUME FdInv, FdType', frames # <<>>, NEW e \in Entries, entries' = Append(entries, e),
           e.target \in Top.refs, ~IsSaved(e.target),
           Len(frames') = Len(frames),
           \A k \in 1 .. Len(frames) : frames'[k].start = frames[k].start /\ frames'[k].refs = frames[k].refs
    PROVE  /\ Nested' /\ Owned' /\ SavedOnce'
           /\ \A k \in 1 .. Len(frames) : FrameEntries(k)' =
                IF k = Len(frames) THEN FrameEntries(k) \cup {Len(entries) + 1} ELSE FrameEntries(k)
           /\ Len(entries') = Len(entries) + 1 /\ entries'[Len(entries) + 1] = e
           /\ \A i \in 1 .. Len(entries) : entries'[i] = entries[i]
<1>0. Len(frames) \in Nat /\ Len(entries) \in Nat /\ Len(frames) \in 1 .. Len(frames)
  BY DEF FdInv, FdType
<1>1. /\ Len(entries') = Len(entries) + 1 /\ entries'[Len(entries) + 1] = e
      /\ \A i \in 1 .. Len(entries) : entries'[i] = entries[i]
  BY DEF FdInv, FdType
<1>2. Nested'
  <2> SUFFICES ASSUME NEW k \in 1 .. Len(frames)
               PROVE  /\ frames[k].start <= Len(entries) + 1
                      /\ \A l \in k .. Len(frames) : frames'[k].start <= frames'[l].start
    BY <1>1 DEF Nested
  <2>1. frames[k].start <= Len(entries) /\ frames[k].start \in Nat
    BY FrameEntriesInStack DEF FdInv, Nested
  <2>2. \A l \in k .. Len(frames) : l \in 1 .. Len(frames) /\ frames[k].start <= frames[l].start
    BY <1>0 DEF FdInv, Nested
  <2> QED BY <1>0, <2>1, <2>2
<1>3. Owned'
  <2> SUFFICES ASSUME NEW i \in 1 .. Len(entries) + 1
               PROVE  \E k \in 1 .. Len(frames) : frames[k].start < i /\ entries'[i].target \in frames[k].refs
    BY <1>1 DEF Owned
  <2>1. CASE i = Len(entries) + 1
    <3>1. frames[Len(frames)].start <= Len(entries) /\ frames[Len(frames)].start \in Nat
      BY <1>0, FrameEntriesInStack DEF FdInv, Nested
    <3>2. frames[Len(frames)].start < i
      BY <1>0, <2>1, <3>1
    <3> QED BY <1>0, <1>1, <2>1, <3>2 DEF Top
  <2>2. CASE i \in 1 .. Len(entries)
    <3>1. PICK k \in 1 .. Len(frames) : frames[k].start < i /\ entries[i].target \in frames[k].refs
      BY <2>2 DEF FdInv, Owned
    <3> QED BY <1>1, <2>2, <3>1
  <2> QED BY <1>0, <2>1, <2>2
<1>4. ASSUME NEW k \in 1 .. Len(frames)
      PROVE  FrameEntries(k)' = IF k = Len(frames) THEN FrameEntries(k) \cup {Len(entries) + 1} ELSE FrameEntries(k)
  <2>1. CASE k = Len(frames)
    <3>1. frames[k].start <= Len(entries) /\ frames[k].start \in Nat
      BY FrameEntriesInStack DEF FdInv, Nested
    <3>2. frames[k].start + 1 .. Len(entries) + 1 = (frames[k].start + 1 .. Len(entries)) \cup {Len(entries) + 1}
      BY <1>0, <3>1
    <3> QED BY <1>1, <2>1, <3>2 DEF FrameEntries
  <2>2. CASE k # Len(frames)
    <3>1. k + 1 \in 1 .. Len(frames)
      BY <1>0, <2>2
    <3> QED BY <2>2, <3>1 DEF FrameEntries
  <2> QED BY <2>1, <2>2
<1>5. SavedOnce'
  <2> DEFINE E(k) == IF k = Len(frames) THEN FrameEntries(k) \cup {Len(entries) + 1} ELSE FrameEntries(k)
  <2>1. \A k \in 1 .. Len(frames) : FrameEntries(k)' = E(k)
    BY <1>4
  <2> HIDE DEF E
  <2> SUFFICES ASSUME NEW k \in 1 .. Len(frames)
               PROVE  /\ \A i \in E(k) : entries'[i].target \in frames'[k].refs
                      /\ \A i, j \in E(k) : entries'[i].target = entries'[j].target => i = j
    BY <2>1 DEF SavedOnce
  <2>2. FrameEntries(k) \subseteq 1 .. Len(entries)
    BY FrameEntriesInStack DEF FdInv
  <2>3. /\ \A i \in FrameEntries(k) : entries'[i].target \in frames[k].refs
        /\ \A i, j \in FrameEntries(k) : entries'[i].target = entries'[j].target => i = j
    BY <1>1, <2>2 DEF FdInv, SavedOnce
  <2>4. CASE k # Len(frames)
    BY <2>3, <2>4 DEF E
  <2>5. CASE k = Len(frames)
    <3>1. FrameEntries(k) = TopEntries
      BY <2>5, FrameEntriesInStack DEF FdInv
    <3>2. \A i \in FrameEntries(k) : entries'[i].target # e.target
      BY <1>1, <2>2, <3>1 DEF IsSaved
    <3>3. e.target \in frames[k].refs
      BY <2>5 DEF Top
    <3>4. E(k) = FrameEntries(k) \cup {Len(entries) + 1}
      BY <2>5 DEF E
    <3>5. frames'[k].refs = frames[k].refs
      OBVIOUS
    <3> QED BY <1>1, <2>3, <3>2, <3>3, <3>4, <3>5
  <2> QED BY <2>4, <2>5
<1> QED BY <1>1, <1>2, <1>3, <1>4, <1>5

\* Save, with a free number, without, and of a closed descriptor.
LEMMA SaveKeeps == ASSUME FdInv, NEW fd \in Fds, Save(fd) PROVE FdInv'
<1> DEFINE least == Top.next
           free == Allowed(fds, least, frames)
           to == Lowest(free)
           Entry(saved) == [target |-> fd, saved |-> saved, flags |-> fds[fd].cloexec]
<1>0. /\ Len(frames) \in Nat /\ Len(entries) \in Nat /\ Len(frames) \in 1 .. Len(frames) /\ Len(frames) > 0
      /\ frames # <<>> /\ fds \in [Fds -> Descs] /\ entries \in Seq(Entries) /\ frames \in Seq(Frames)
  BY DEF Save, FdInv, FdType
<1>1. fd \in Top.refs /\ ~IsSaved(fd) /\ fd \in Declared(frames)
  BY <1>0 DEF Save, Declared, Top
<1>2. least \in Nat
  <2>1. frames[Len(frames)] \in Frames
    BY <1>0
  <2> QED BY <2>1 DEF Frames, Top
<1>3. fds[fd].cloexec \in BOOLEAN /\ \A saved \in Fds \cup {None} : Entry(saved) \in Entries
  BY <1>0 DEF Entries, Descs, Desc
<1>4. NextBackup(fds, least, frames) \in Nat
  BY <1>0, <1>2, NextBackupType
<1>5. CASE ~Open(fds, fd)
  <2>1. entries' = Append(entries, Entry(None)) /\ UNCHANGED <<fds, frames>>
    BY <1>5 DEF Save
  <2>2. Entry(None) \in Entries /\ Entry(None).target = fd /\ Entry(None).saved = None
    BY <1>3
  <2> HIDE DEF Entry
  <2>3. FdType'
    BY <1>0, <2>1, <2>2 DEF FdType
  <2>4. /\ Nested' /\ Owned' /\ SavedOnce'
        /\ Len(entries') = Len(entries) + 1 /\ entries'[Len(entries) + 1] = Entry(None)
        /\ \A i \in 1 .. Len(entries) : entries'[i] = entries[i]
    BY <1>0, <1>1, <2>1, <2>2, <2>3, EntryAdded
  <2>5. Backups(fds', entries', Declared(frames'))
    <3> SUFFICES ASSUME NEW i \in 1 .. Len(entries) + 1, entries'[i].saved # None
                 PROVE  /\ fds[entries'[i].saved] # Closed /\ fds[entries'[i].saved].cloexec
                        /\ entries'[i].saved \notin Declared(frames)
                        /\ \A j \in 1 .. Len(entries) + 1 : j # i => entries'[j].saved # entries'[i].saved
      BY <2>1, <2>4 DEF Backups
    <3>1. i \in 1 .. Len(entries) /\ entries'[i] = entries[i]
      BY <1>0, <2>2, <2>4
    <3>2. \A j \in 1 .. Len(entries) + 1 : j = Len(entries) + 1 \/ j \in 1 .. Len(entries)
      BY <1>0
    <3> QED BY <2>2, <2>4, <3>1, <3>2 DEF FdInv, Backups
  <2> QED BY <2>3, <2>4, <2>5 DEF FdInv
<1>6. CASE Open(fds, fd)
  <2>1. /\ frames' = [frames EXCEPT ![Len(frames)].next = NextBackup(fds, least, frames)]
        /\ IF free = {} THEN UNCHANGED <<fds, entries>>
           ELSE fds' = Dup(fds, fd, to) /\ entries' = Append(entries, Entry(to))
    BY <1>6 DEF Save
  <2> HIDE DEF least, free, to, Entry
  <2>2. /\ frames' \in Seq(Frames) /\ Len(frames') = Len(frames) /\ Declared(frames') = Declared(frames)
        /\ \A k \in 1 .. Len(frames) : frames'[k].start = frames[k].start /\ frames'[k].refs = frames[k].refs
    <3> DEFINE gs == [frames EXCEPT ![Len(frames)].next = NextBackup(fds, least, frames)]
    <3>1. /\ gs \in Seq(Frames) /\ Len(gs) = Len(frames) /\ Declared(gs) = Declared(frames)
          /\ \A k \in 1 .. Len(frames) : gs[k].start = frames[k].start /\ gs[k].refs = frames[k].refs
      <4> HIDE DEF gs
      <4> QED BY <1>0, <1>4, NewMinimum DEF gs
    <3>2. frames' = gs
      BY <2>1
    <3> HIDE DEF gs
    <3> QED BY <3>1, <3>2
  <2>3. CASE free = {}
    <3>1. FdType' /\ SameShape /\ Backups(fds', entries', Declared(frames'))
      BY <1>0, <2>1, <2>2, <2>3 DEF FdType, SameShape, FdInv
    <3> QED BY <3>1, SameShapeKeeps DEF FdInv
  <2>4. CASE free # {}
    <3>1. to \in Fds /\ fds[to] = Closed /\ to \notin Declared(frames)
      BY <1>0, <1>2, <2>4, AllowedNumber DEF free, to
    <3>2. Entry(to) \in Entries /\ Entry(to).target = fd /\ Entry(to).saved = to
      BY <1>3, <3>1 DEF Entry
    <3>3. /\ fds' \in [Fds -> Descs] /\ fds'[to] # Closed /\ fds'[to].cloexec
          /\ \A x \in Fds \ {to} : fds'[x] = fds[x]
      <4>1. /\ fds' \in [Fds -> Descs] /\ fds'[to] # Closed
            /\ fds'[to] = [file |-> fds[fd].file, cloexec |-> TRUE]
            /\ \A x \in Fds \ {to} : fds'[x] = fds[x]
        BY <1>0, <1>6, <2>1, <2>4, <3>1, DupType DEF Open
      <4> QED BY <4>1
    <3>4. FdType'
      <4>1. entries' = Append(entries, Entry(to))
        BY <2>1, <2>4
      <4>2. entries' \in Seq(Entries)
        BY <1>0, <3>2, <4>1
      <4> QED BY <2>2, <3>3, <4>2 DEF FdType
    <3>5. /\ Nested' /\ Owned' /\ SavedOnce'
          /\ Len(entries') = Len(entries) + 1 /\ entries'[Len(entries) + 1] = Entry(to)
          /\ \A i \in 1 .. Len(entries) : entries'[i] = entries[i]
      BY <1>0, <1>1, <2>1, <2>2, <2>4, <3>2, <3>4, EntryAdded
    <3>6. ASSUME NEW i \in 1 .. Len(entries), entries[i].saved # None
          PROVE  entries[i].saved \in Fds \ {to}
      <4>1. entries[i] \in Entries
        BY <1>0
      <4>2. entries[i].saved \in Fds /\ fds[entries[i].saved] # Closed
        BY <3>6, <4>1 DEF Entries, FdInv, Backups
      <4> QED BY <3>1, <4>2
    <3>7. to # None
      BY <3>1, FdAssumption DEF Fds, None
    <3>8. Backups(fds', entries', Declared(frames'))
      <4> SUFFICES ASSUME NEW i \in 1 .. Len(entries) + 1, entries'[i].saved # None
                   PROVE  /\ fds'[entries'[i].saved] # Closed /\ fds'[entries'[i].saved].cloexec
                          /\ entries'[i].saved \notin Declared(frames)
                          /\ \A j \in 1 .. Len(entries) + 1 : j # i => entries'[j].saved # entries'[i].saved
        BY <2>2, <3>5 DEF Backups
      <4>1. \A j \in 1 .. Len(entries) + 1 : j = Len(entries) + 1 \/ j \in 1 .. Len(entries)
        BY <1>0
      <4>2. CASE i = Len(entries) + 1
        <5>1. entries'[i].saved = to
          BY <3>2, <3>5, <4>2
        <5>2. \A j \in 1 .. Len(entries) : entries'[j].saved # to
          BY <3>5, <3>6, <3>7
        <5> QED BY <3>1, <3>3, <4>1, <4>2, <5>1, <5>2
      <4>3. CASE i \in 1 .. Len(entries)
        <5>1. entries'[i] = entries[i] /\ entries[i].saved \in Fds \ {to}
          BY <3>5, <3>6, <4>3
        <5>2. fds'[entries[i].saved] = fds[entries[i].saved]
          BY <3>3, <5>1
        <5>3. entries'[Len(entries) + 1].saved # entries[i].saved
          BY <3>2, <3>5, <5>1
        <5>4. /\ fds[entries[i].saved] # Closed /\ fds[entries[i].saved].cloexec
              /\ entries[i].saved \notin Declared(frames)
              /\ \A j \in 1 .. Len(entries) : j # i => entries[j].saved # entries[i].saved
          BY <4>3, <5>1 DEF FdInv, Backups
        <5> QED BY <3>5, <4>1, <5>1, <5>2, <5>3, <5>4
      <4> QED BY <4>1, <4>2, <4>3
    <3> QED BY <3>4, <3>5, <3>8 DEF FdInv
  <2> QED BY <2>3, <2>4
<1> QED BY <1>5, <1>6

\* The newest transaction goes with its entries.
LEMMA FinishKeeps ==
    ASSUME FdInv, frames # <<>>, Finish
    PROVE  /\ entries' \in Seq(Entries) /\ frames' \in Seq(Frames)
           /\ Len(entries') = Top.start /\ Top.start \in 0 .. Len(entries)
           /\ Len(frames') = Len(frames) - 1 /\ Len(frames) \in Nat \ {0} /\ Len(entries) \in Nat
           /\ \A i \in 1 .. Len(entries') : entries'[i] = entries[i]
           /\ \A k \in 1 .. Len(frames) - 1 : frames'[k] = frames[k]
           /\ Declared(frames') \subseteq Declared(frames)
           /\ Nested' /\ Owned' /\ SavedOnce'
           /\ \A k \in 1 .. Len(frames) - 1 : FrameEntries(k)' = FrameEntries(k)
<1>0. /\ Len(frames) \in Nat \ {0} /\ Len(entries) \in Nat /\ Len(frames) \in 1 .. Len(frames)
      /\ entries \in Seq(Entries) /\ frames \in Seq(Frames)
  BY DEF FdInv, FdType
<1>1. Top.start \in 0 .. Len(entries)
  <2>1. frames[Len(frames)].start \in Nat /\ frames[Len(frames)].start <= Len(entries)
    BY <1>0, FrameEntriesInStack DEF FdInv, Nested
  <2> QED BY <1>0, <2>1 DEF Top
<1>2. /\ entries' \in Seq(Entries) /\ Len(entries') = Top.start
      /\ \A i \in 1 .. Len(entries') : entries'[i] = entries[i]
  BY <1>0, <1>1 DEF Finish
<1>3. /\ frames' \in Seq(Frames) /\ Len(frames') = Len(frames) - 1
      /\ \A k \in 1 .. Len(frames) - 1 : frames'[k] = frames[k]
  <2> DEFINE n == Len(frames) - 1
  <2>1. n \in 0 .. Len(frames) /\ frames' = SubSeq(frames, 1, n)
    BY <1>0 DEF Finish
  <2> HIDE DEF n
  <2>2. frames' \in Seq(Frames) /\ Len(frames') = n /\ \A k \in 1 .. n : frames'[k] = frames[k]
    BY <1>0, <2>1
  <2> QED BY <2>2 DEF n
<1>4. 1 .. Len(frames) - 1 \subseteq 1 .. Len(frames)
  BY <1>0
<1>5. Declared(frames') \subseteq Declared(frames)
  BY <1>3, <1>4 DEF Declared
<1>6. Nested'
  <2> SUFFICES ASSUME NEW k \in 1 .. Len(frames) - 1
               PROVE  /\ frames'[k].start <= Top.start
                      /\ \A l \in k .. Len(frames) - 1 : frames'[k].start <= frames'[l].start
    BY <1>2, <1>3 DEF Nested
  <2>1. \A l \in k .. Len(frames) : frames[k].start <= frames[l].start
    BY <1>4 DEF FdInv, Nested
  <2>2. Len(frames) \in k .. Len(frames)
    BY <1>0
  <2>3. \A l \in k .. Len(frames) - 1 : l \in k .. Len(frames) /\ l \in 1 .. Len(frames) - 1
    BY <1>0
  <2> QED BY <1>3, <2>1, <2>2, <2>3 DEF Top
<1>7. Owned'
  <2> SUFFICES ASSUME NEW i \in 1 .. Top.start
               PROVE  \E k \in 1 .. Len(frames) - 1 : frames'[k].start < i /\ entries'[i].target \in frames'[k].refs
    BY <1>2, <1>3 DEF Owned
  <2>1. i \in 1 .. Len(entries) /\ entries'[i] = entries[i]
    BY <1>0, <1>1, <1>2
  <2>2. PICK k \in 1 .. Len(frames) : frames[k].start < i /\ entries[i].target \in frames[k].refs
    BY <2>1 DEF FdInv, Owned
  <2>3. k \in 1 .. Len(frames) - 1
    BY <1>0, <1>1, <2>2 DEF Top
  <2> QED BY <1>3, <2>1, <2>2, <2>3
<1>8. ASSUME NEW k \in 1 .. Len(frames) - 1 PROVE FrameEntries(k)' = FrameEntries(k)
  <2>1. k # Len(frames)
    BY <1>0
  <2>2. CASE k = Len(frames) - 1
    <3>1. k + 1 = Len(frames)
      BY <1>0, <2>2
    <3> QED BY <1>2, <1>3, <2>1, <2>2, <3>1 DEF FrameEntries, Top
  <2>3. CASE k # Len(frames) - 1
    <3>1. k + 1 \in 1 .. Len(frames) - 1
      BY <1>0, <2>3
    <3> QED BY <1>3, <2>1, <2>3, <3>1 DEF FrameEntries
  <2> QED BY <2>2, <2>3
<1>9. SavedOnce'
  <2> SUFFICES ASSUME NEW k \in 1 .. Len(frames) - 1
               PROVE  /\ \A i \in FrameEntries(k) : entries'[i].target \in frames'[k].refs
                      /\ \A i, j \in FrameEntries(k) : entries'[i].target = entries'[j].target => i = j
    BY <1>3, <1>8 DEF SavedOnce
  <2>1. FrameEntries(k) \subseteq 1 .. Len(entries')
    <3>1. FrameEntries(k)' \subseteq 1 .. Len(entries')
      <4>1. k \in 1 .. Len(frames) /\ k + 1 \in 1 .. Len(frames) /\ k # Len(frames)
        BY <1>0
      <4>2. frames[k].start \in Nat /\ frames[k + 1].start \in Nat /\ frames[k + 1].start <= frames[Len(frames)].start
        <5>1. Len(frames) \in k + 1 .. Len(frames)
          BY <1>0
        <5> QED BY <4>1, <5>1, FrameEntriesInStack DEF FdInv, Nested
      <4>3. FrameEntries(k) \subseteq 1 .. Top.start
        BY <1>0, <1>1, <4>1, <4>2 DEF FrameEntries, Top
      <4> QED BY <1>2, <1>8, <4>3
    <3> QED BY <1>8, <3>1
  <2>2. /\ \A i \in FrameEntries(k) : entries[i].target \in frames[k].refs
        /\ \A i, j \in FrameEntries(k) : entries[i].target = entries[j].target => i = j
    BY <1>4 DEF FdInv, SavedOnce
  <2> QED BY <1>2, <1>3, <2>1, <2>2
<1> QED BY <1>0, <1>1, <1>2, <1>3, <1>5, <1>6, <1>7, <1>8, <1>9

\* What the newest transaction saved is declared, so no backup has its number.
LEMMA SavedIsDeclared ==
    ASSUME FdInv, frames # <<>>, NEW x, IsSaved(x)
    PROVE  /\ x \in Fds /\ x \in Declared(frames) /\ TopEntries = FrameEntries(Len(frames))
           /\ x \in {entries[i].target : i \in FrameEntries(Len(frames))}
<1>1. Len(frames) \in 1 .. Len(frames)
  BY DEF FdInv, FdType
<1>2. PICK i \in TopEntries : entries[i].target = x
  BY DEF IsSaved
<1>3. TopEntries = FrameEntries(Len(frames)) /\ FrameEntries(Len(frames)) \subseteq 1 .. Len(entries)
  BY <1>1, FrameEntriesInStack DEF FdInv
<1>4. entries[i] \in Entries
  BY <1>2, <1>3 DEF FdInv, FdType
<1>5. x \in frames[Len(frames)].refs
  BY <1>1, <1>2, <1>3 DEF FdInv, SavedOnce
<1> QED BY <1>1, <1>2, <1>3, <1>4, <1>5 DEF Entries, Declared

\* The backups of the other transactions stay where they are.
LEMMA FinishKeepsBackups ==
    ASSUME FdInv, frames # <<>>, Finish,
           \A x \in Fds : ~IsSaved(x) /\ x \notin SavedFds(Top.start + 1) => fds'[x] = fds[x]
    PROVE  /\ Backups(fds', entries', Declared(frames'))
           /\ \A i \in 1 .. Top.start : entries[i].saved # None =>
                entries[i].saved \in Fds /\ fds'[entries[i].saved] = fds[entries[i].saved]
<1>1. /\ Len(entries') = Top.start /\ Top.start \in 0 .. Len(entries) /\ Len(entries) \in Nat
      /\ \A i \in 1 .. Len(entries') : entries'[i] = entries[i]
      /\ Declared(frames') \subseteq Declared(frames)
  BY FinishKeeps
<1>2. ASSUME NEW i \in 1 .. Top.start, entries[i].saved # None
      PROVE  entries[i].saved \in Fds /\ fds'[entries[i].saved] = fds[entries[i].saved]
  <2>1. i \in 1 .. Len(entries)
    BY <1>1
  <2>2. entries[i] \in Entries
    BY <2>1 DEF FdInv, FdType
  <2>3. entries[i].saved \in Fds /\ entries[i].saved \notin Declared(frames)
        /\ \A j \in 1 .. Len(entries) : j # i => entries[j].saved # entries[i].saved
    BY <1>2, <2>1, <2>2 DEF Entries, FdInv, Backups
  <2>4. ~IsSaved(entries[i].saved)
    BY <2>3, SavedIsDeclared
  <2>5. entries[i].saved \notin SavedFds(Top.start + 1)
    <3>1. \A j \in Top.start + 1 .. Len(entries) : j \in 1 .. Len(entries) /\ j # i
      BY <1>1
    <3> QED BY <2>3, <3>1 DEF SavedFds
  <2> QED BY <2>3, <2>4, <2>5
<1>3. ASSUME NEW i \in 1 .. Top.start, entries[i].saved # None
      PROVE  /\ fds'[entries[i].saved] # Closed /\ fds'[entries[i].saved].cloexec
             /\ entries[i].saved \notin Declared(frames')
             /\ \A j \in 1 .. Top.start : j # i => entries[j].saved # entries[i].saved
  <2>1. 1 .. Top.start \subseteq 1 .. Len(entries)
    BY <1>1
  <2>2. fds'[entries[i].saved] = fds[entries[i].saved]
    BY <1>2, <1>3
  <2>3. /\ fds[entries[i].saved] # Closed /\ fds[entries[i].saved].cloexec
        /\ entries[i].saved \notin Declared(frames)
        /\ \A j \in 1 .. Len(entries) : j # i => entries[j].saved # entries[i].saved
    BY <1>3, <2>1 DEF FdInv, Backups
  <2> QED BY <1>1, <2>1, <2>2, <2>3
<1>4. Backups(fds', entries', Declared(frames'))
  BY <1>1, <1>3 DEF Backups
<1> QED BY <1>2, <1>4

\* What an entry brings back is a descriptor.
LEMMA RestoredType ==
    ASSUME FdInv, NEW i \in 1 .. Len(entries)
    PROVE  Restored(i) \in Descs
<1>1. entries[i] \in Entries
  BY DEF FdInv, FdType
<1>2. CASE entries[i].saved = None
  BY <1>2, ClosedIsDesc DEF Restored
<1>3. CASE entries[i].saved # None
  <2>1. entries[i].saved \in Fds /\ entries[i].flags \in BOOLEAN
    BY <1>1, <1>3 DEF Entries
  <2>2. fds[entries[i].saved] \in Descs /\ fds[entries[i].saved] # Closed
    BY <1>3, <2>1 DEF FdInv, FdType, Backups
  <2> QED BY <1>3, <2>1, <2>2, OpenIsDesc DEF Restored
<1> QED BY <1>2, <1>3

\* Rollback.
LEMMA RollbackKeeps == ASSUME FdInv, Rollback PROVE FdInv'
<1> DEFINE old(fd) == CHOOSE i \in TopEntries : entries[i].target = fd
<1>1. /\ frames # <<>> /\ Finish
      /\ fds' = [fd \in Fds |-> IF IsSaved(fd) THEN Restored(old(fd))
                                ELSE IF fd \in SavedFds(Top.start + 1) THEN Closed ELSE fds[fd]]
  BY DEF Rollback
<1>2. ASSUME NEW fd \in Fds, IsSaved(fd) PROVE Restored(old(fd)) \in Descs
  <2>1. Len(frames) \in 1 .. Len(frames)
    BY <1>1 DEF FdInv, FdType
  <2>2. TopEntries \subseteq 1 .. Len(entries)
    BY <2>1, FrameEntriesInStack DEF FdInv
  <2>3. old(fd) \in TopEntries
    BY <1>2 DEF IsSaved
  <2> HIDE DEF old
  <2> QED BY <2>2, <2>3, RestoredType
<1> HIDE DEF old
<1>3. fds' \in [Fds -> Descs]
  BY <1>1, <1>2, ClosedIsDesc DEF FdInv, FdType
<1>4. Backups(fds', entries', Declared(frames'))
  BY <1>1, FinishKeepsBackups
<1> QED BY <1>1, <1>3, <1>4, FinishKeeps DEF FdInv, FdType

\* Commit.
LEMMA CommitKeeps == ASSUME FdInv, Commit PROVE FdInv'
<1>1. /\ frames # <<>> /\ Finish
      /\ fds' = [fd \in Fds |-> IF fd \in SavedFds(Top.start + 1) THEN Closed ELSE fds[fd]]
  BY DEF Commit
<1>2. fds' \in [Fds -> Descs]
  BY <1>1, ClosedIsDesc DEF FdInv, FdType
<1>3. Backups(fds', entries', Declared(frames'))
  BY <1>1, FinishKeepsBackups
<1> QED BY <1>1, <1>2, <1>3, FinishKeeps DEF FdInv, FdType

\* Discard.
LEMMA DiscardKeeps == ASSUME FdInv, Discard PROVE FdInv'
<1>1. entries' = <<>> /\ frames' = <<>> /\ fds' \in [Fds -> Descs]
  BY ClosedIsDesc DEF Discard, FdInv, FdType
<1>2. Len(entries') = 0 /\ Len(frames') = 0
  BY <1>1
<1> QED BY <1>1, <1>2 DEF FdInv, FdType, Backups, Nested, Owned, SavedOnce

\* Every step keeps the invariant.
LEMMA FdInvStep == FdInv /\ [FdNext]_fdVars => FdInv'
<1> SUFFICES ASSUME FdInv, [FdNext]_fdVars PROVE FdInv'
  OBVIOUS
<1>1. ASSUME NEW R \in SUBSET Fds, Begin(R) PROVE FdInv'
  BY <1>1, BeginKeeps
<1>2. ASSUME NEW fd \in Fds, AddReference(fd) \/ Save(fd) \/ Redirect(fd) PROVE FdInv'
  BY <1>2, AddReferenceKeeps, SaveKeeps, RedirectKeeps
<1>3. CASE Rollback \/ Commit \/ Discard
  BY <1>3, RollbackKeeps, CommitKeeps, DiscardKeeps
<1>4. CASE UNCHANGED fdVars
  BY <1>4 DEF fdVars, FdInv, FdType, Nested, Owned, SavedOnce, FrameEntries
<1> QED BY <1>1, <1>2, <1>3, <1>4 DEF FdNext

\* For every limit on descriptors, every nesting and every order of redirections,
\* failed ones included, the assertion of fd_transaction.c holds.
THEOREM FdStackInvariants == FdSpec => []StackInvariants
BY FdInvInit, FdInvStep, FdInvGivesStack, PTL DEF FdSpec

-----------------------------------------------------------------------------
(* FdTransaction implements DescriptorFrames.                                *)

\* The stack of frames that DescriptorFrames is shown, and what they may be.
Memory == [k \in 1 .. Len(frames) |-> Remembered(k)]
Memories == UNION {[T -> Descs] : T \in SUBSET Fds}

BackupsHidden == Visible = [fd \in Fds |-> Seen(fds, entries, fd)]

\* The table the script sees is that without the backups.
LEMMA VisibleIsSeen == FdInv => BackupsHidden
<1> SUFFICES ASSUME FdInv, NEW fd \in Fds PROVE Seen(fds, entries, fd) = IF fd \in SavedFds(1) THEN Closed ELSE fds[fd]
  BY DEF Visible, BackupsHidden
<1>1. fd # None
  BY FdAssumption DEF Fds, None
<1>2. fd \in SavedFds(1) <=> \E i \in 1 .. Len(entries) : entries[i].saved = fd
  BY <1>1 DEF SavedFds
<1> QED BY <1>2 DEF Seen

\* What a transaction remembers of a target is the one entry it has for it.
RemembersEntries ==
    \A k \in 1 .. Len(frames) :
        /\ Remembered(k) \in [{entries[i].target : i \in FrameEntries(k)} -> Descs]
        /\ \A i \in FrameEntries(k) : Remembered(k)[entries[i].target] = Restored(i)

\* Every transaction remembers what its entries say.
LEMMA RememberedIs == FdInv => RemembersEntries
<1> SUFFICES ASSUME FdInv, NEW k \in 1 .. Len(frames)
             PROVE  /\ Remembered(k) \in [{entries[i].target : i \in FrameEntries(k)} -> Descs]
                    /\ \A i \in FrameEntries(k) : Remembered(k)[entries[i].target] = Restored(i)
  BY DEF RemembersEntries
<1> DEFINE T == {entries[i].target : i \in FrameEntries(k)}
           old(fd) == CHOOSE i \in FrameEntries(k) : entries[i].target = fd
<1>1. FrameEntries(k) \subseteq 1 .. Len(entries)
  BY FrameEntriesInStack DEF FdInv
<1>2. ASSUME NEW fd \in T PROVE old(fd) \in FrameEntries(k) /\ entries[old(fd)].target = fd
  OBVIOUS
<1>3. Remembered(k) = [fd \in T |-> Restored(old(fd))]
  BY DEF Remembered
<1> HIDE DEF old
<1>4. ASSUME NEW fd \in T PROVE Restored(old(fd)) \in Descs
  BY <1>1, <1>2, RestoredType
<1>5. ASSUME NEW i \in FrameEntries(k) PROVE old(entries[i].target) = i
  <2>1. entries[i].target \in T
    OBVIOUS
  <2> QED BY <1>2, <2>1 DEF FdInv, SavedOnce
<1>6. ASSUME NEW i \in FrameEntries(k) PROVE Remembered(k)[entries[i].target] = Restored(i)
  BY <1>3, <1>5
<1> QED BY <1>3, <1>4, <1>6

\* The frames that DescriptorFrames is shown are frames.
LEMMA MemoryType == FdInv => Memory \in Seq(Memories) /\ Len(Memory) = Len(frames)
<1> SUFFICES ASSUME FdInv PROVE Memory \in Seq(Memories) /\ Len(Memory) = Len(frames)
  OBVIOUS
<1>1. Len(frames) \in Nat
  BY DEF FdInv, FdType
<1>2. ASSUME NEW k \in 1 .. Len(frames) PROVE Remembered(k) \in Memories
  <2>1. \A i \in FrameEntries(k) : entries[i].target \in Fds
    <3>1. FrameEntries(k) \subseteq 1 .. Len(entries)
      BY FrameEntriesInStack DEF FdInv
    <3>2. \A i \in 1 .. Len(entries) : entries[i] \in Entries
      BY DEF FdInv, FdType
    <3> QED BY <3>1, <3>2 DEF Entries
  <2> DEFINE T == {entries[i].target : i \in FrameEntries(k)}
  <2>2. T \in SUBSET Fds /\ Remembered(k) \in [T -> Descs]
    BY <2>1, RememberedIs DEF RemembersEntries
  <2> HIDE DEF T
  <2> QED BY <2>2 DEF Memories
<1> QED BY <1>1, <1>2 DEF Memory

\* A transaction remembers the same as long as its entries say the same.
LEMMA RememberedKept ==
    ASSUME FdInv, FdInv', NEW k \in 1 .. Len(frames), k \in 1 .. Len(frames'),
           FrameEntries(k)' = FrameEntries(k),
           \A i \in FrameEntries(k) : entries'[i].target = entries[i].target /\ Restored(i)' = Restored(i)
    PROVE  Remembered(k)' = Remembered(k)
<1> DEFINE T == {entries[i].target : i \in FrameEntries(k)}
<1>1. /\ Remembered(k) \in [T -> Descs]
      /\ \A i \in FrameEntries(k) : Remembered(k)[entries[i].target] = Restored(i)
  BY RememberedIs DEF RemembersEntries
<1>2. /\ Remembered(k)' \in [{entries'[i].target : i \in FrameEntries(k)'} -> Descs]
      /\ \A i \in FrameEntries(k)' : Remembered(k)'[entries'[i].target] = Restored(i)'
  <2>1. RemembersEntries'
    BY RememberedIs, PTL
  <2> QED BY <2>1 DEF RemembersEntries
<1>3. {entries'[i].target : i \in FrameEntries(k)'} = T
  OBVIOUS
<1>4. ASSUME NEW fd \in T PROVE Remembered(k)'[fd] = Remembered(k)[fd]
  BY <1>1, <1>2
<1> QED BY <1>1, <1>2, <1>3, <1>4

\* All transactions remember the same as long as no entry changes its contents.
LEMMA MemoryKept ==
    ASSUME FdInv, FdInv', Len(frames') = Len(frames),
           \A k \in 1 .. Len(frames) : FrameEntries(k)' = FrameEntries(k),
           \A i \in 1 .. Len(entries) : entries'[i].target = entries[i].target /\ Restored(i)' = Restored(i)
    PROVE  Memory' = Memory
<1>1. ASSUME NEW k \in 1 .. Len(frames) PROVE Remembered(k)' = Remembered(k)
  <2>1. FrameEntries(k) \subseteq 1 .. Len(entries)
    BY FrameEntriesInStack DEF FdInv
  <2> QED BY <2>1, RememberedKept
<1> QED BY <1>1 DEF Memory

\* Moving backups shows nowhere.
LEMMA MovedShowsNot ==
    ASSUME FdInv, FdInv', NEW fs, Extends(fs), fds' = Moved(fs).fds, entries' = Moved(fs).entries
    PROVE  /\ Visible' = Visible /\ Len(entries') = Len(entries)
           /\ \A i \in 1 .. Len(entries) : entries'[i].target = entries[i].target /\ Restored(i)' = Restored(i)
<1>1. SameContents(Moved(fs))
  BY MovedKeeps DEF Relocated
<1>2. /\ Len(entries') = Len(entries)
      /\ \A i \in 1 .. Len(entries) :
          /\ entries'[i].target = entries[i].target /\ entries'[i].flags = entries[i].flags
          /\ entries'[i].saved = None <=> entries[i].saved = None
          /\ entries[i].saved # None => fds'[entries'[i].saved].file = fds[entries[i].saved].file
      /\ \A fd \in Fds : Seen(fds', entries', fd) = Seen(fds, entries, fd)
  BY <1>1 DEF SameContents
<1>3. Visible' = Visible
  <2>1. BackupsHidden'
    BY VisibleIsSeen, PTL
  <2> QED BY <1>2, <2>1, VisibleIsSeen DEF BackupsHidden
<1>4. ASSUME NEW i \in 1 .. Len(entries) PROVE Restored(i)' = Restored(i)
  BY <1>2 DEF Restored
<1> QED BY <1>2, <1>3, <1>4

\* Begin is a new frame without memories, or nothing.
LEMMA BeginShows ==
    ASSUME FdInv, FdInv', NEW R \in SUBSET Fds, Begin(R)
    PROVE  \/ Visible' = Visible /\ Memory' = Memory
           \/ Visible' = Visible /\ Memory' = Append(Memory, [fd \in {} |-> Visible[fd]])
<1> DEFINE fs == Append(frames, NewFrame(R))
           s == Moved(fs)
<1>0. Len(frames) \in Nat /\ Len(entries) \in Nat
  BY DEF FdInv, FdType
<1>1. /\ fds' = s.fds /\ entries' = s.entries
      /\ frames' = IF s.ok THEN [fs EXCEPT ![Len(fs)].next = s.next] ELSE frames
  BY DEF Begin, NewFrame
<1>2. /\ Extends(fs) /\ fs[Len(frames) + 1] = NewFrame(R)
      /\ Len(fs) = Len(frames) + 1 /\ \A k \in 1 .. Len(frames) : fs[k] = frames[k]
  BY BeginExtends DEF FdInv, FdType
<1>3. /\ Visible' = Visible /\ Len(entries') = Len(entries)
      /\ \A i \in 1 .. Len(entries) : entries'[i].target = entries[i].target /\ Restored(i)' = Restored(i)
  BY <1>1, <1>2, MovedShowsNot
<1>4. s.next \in Nat
  BY <1>1, <1>2, MovedStack
<1> HIDE DEF s, fs
<1>5. CASE ~s.ok
  <2>1. frames' = frames
    BY <1>1, <1>5
  <2>2. \A k \in 1 .. Len(frames) : FrameEntries(k)' = FrameEntries(k)
    BY <1>3, <2>1 DEF FrameEntries
  <2> QED BY <1>3, <2>1, <2>2, MemoryKept
<1>6. CASE s.ok
  <2>1. /\ Len(frames') = Len(fs)
        /\ \A k \in 1 .. Len(fs) : frames'[k].start = fs[k].start
    <3> DEFINE gs == [fs EXCEPT ![Len(fs)].next = s.next]
    <3>1. Len(gs) = Len(fs) /\ \A k \in 1 .. Len(fs) : gs[k].start = fs[k].start
      <4>1. fs \in Seq(Frames) /\ Len(fs) > 0
        BY <1>2 DEF Extends
      <4> HIDE DEF gs
      <4> QED BY <1>4, <4>1, NewMinimum DEF gs
    <3>2. frames' = gs
      BY <1>1, <1>6
    <3> HIDE DEF gs
    <3> QED BY <3>1, <3>2
  <2>2. /\ Len(frames') = Len(frames) + 1
        /\ \A k \in 1 .. Len(frames) : frames'[k].start = frames[k].start
        /\ frames'[Len(frames) + 1].start = Len(entries)
    BY <1>0, <1>2, <2>1 DEF NewFrame
  <2>3. ASSUME NEW k \in 1 .. Len(frames) PROVE Remembered(k)' = Remembered(k)
    <3>1. FrameEntries(k)' = FrameEntries(k)
      <4>1. CASE k = Len(frames)
        BY <1>0, <2>2, <4>1 DEF FrameEntries
      <4>2. CASE k # Len(frames)
        <5>1. k + 1 \in 1 .. Len(frames) /\ k # Len(frames) + 1
          BY <1>0, <4>2
        <5> QED BY <2>2, <4>2, <5>1 DEF FrameEntries
      <4> QED BY <4>1, <4>2
    <3>2. FrameEntries(k) \subseteq 1 .. Len(entries)
      BY FrameEntriesInStack DEF FdInv
    <3>3. k \in 1 .. Len(frames')
      BY <1>0, <2>2
    <3> QED BY <1>3, <3>1, <3>2, <3>3, RememberedKept
  <2>4. ASSUME NEW k, k = Len(frames) + 1 PROVE Remembered(k)' = [fd \in {} |-> Visible[fd]]
    <3>1. FrameEntries(k)' = {}
      BY <1>0, <1>3, <2>2, <2>4 DEF FrameEntries
    <3>2. k \in 1 .. Len(frames')
      BY <1>0, <2>2, <2>4
    <3>3. RemembersEntries'
      BY RememberedIs, PTL
    <3>4. Remembered(k)' \in [{} -> Descs]
      BY <3>1, <3>2, <3>3 DEF RemembersEntries
    <3> QED BY <3>4
  <2> DEFINE e == [fd \in {} |-> Visible[fd]]
  <2>5. Memory \in Seq(Memories) /\ Len(Memory) = Len(frames)
    BY MemoryType
  <2>6. e \in Memories
    BY DEF Memories
  <2> HIDE DEF e
  <2>7. Memory' = [k \in 1 .. Len(frames) + 1 |-> IF k = Len(frames) + 1 THEN e ELSE Memory[k]]
    <3>1. ASSUME NEW k \in 1 .. Len(frames) + 1
          PROVE  Remembered(k)' = IF k = Len(frames) + 1 THEN e ELSE Memory[k]
      <4>1. CASE k = Len(frames) + 1
        BY <2>4, <4>1 DEF e
      <4>2. CASE k # Len(frames) + 1
        <5>1. k \in 1 .. Len(frames)
          BY <1>0, <4>2
        <5> QED BY <2>3, <4>2, <5>1 DEF Memory
      <4> QED BY <4>1, <4>2
    <3> QED BY <2>2, <3>1 DEF Memory
  <2>8. Memory' = Append(Memory, e)
    <3> DEFINE a == Append(Memory, e)
    <3>1. a \in Seq(Memories) /\ Len(a) = Len(frames) + 1 /\ a[Len(frames) + 1] = e
          /\ \A k \in 1 .. Len(frames) : a[k] = Memory[k]
      BY <1>0, <2>5, <2>6
    <3> HIDE DEF a
    <3>2. a = [k \in 1 .. Len(frames) + 1 |-> a[k]]
      BY <3>1
    <3>3. \A k \in 1 .. Len(frames) + 1 : a[k] = IF k = Len(frames) + 1 THEN e ELSE Memory[k]
      BY <1>0, <3>1
    <3> QED BY <2>7, <3>2, <3>3 DEF a
  <2> QED BY <1>3, <2>8 DEF e
<1> QED BY <1>5, <1>6

\* A reference that is added shows nowhere.
LEMMA AddReferenceShows ==
    ASSUME FdInv, FdInv', NEW fd \in Fds, AddReference(fd)
    PROVE  Visible' = Visible /\ Memory' = Memory
<1> DEFINE fs == [frames EXCEPT ![Len(frames)].refs = @ \cup {fd}]
           s == Moved(fs)
<1>1. /\ frames # <<>>
      /\ IF s.ok THEN /\ fds' = s.fds /\ entries' = s.entries
                      /\ frames' = [fs EXCEPT ![Len(fs)].next = s.next]
         ELSE UNCHANGED fdVars
  BY DEF AddReference
<1>2. /\ Extends(fs) /\ Len(fs) = Len(frames)
      /\ \A k \in 1 .. Len(frames) : fs[k].start = frames[k].start /\ frames[k].refs \subseteq fs[k].refs
  BY <1>1, AddExtends
<1> HIDE DEF fs
<1>3. CASE ~s.ok
  <2>1. UNCHANGED <<fds, entries, frames>>
    BY <1>1, <1>3 DEF fdVars
  <2>2. Visible' = Visible
    BY <2>1 DEF Visible, SavedFds
  <2>3. Memory' = Memory
    BY <2>1 DEF Memory, Remembered, FrameEntries, Restored
  <2> QED BY <2>2, <2>3
<1>4. CASE s.ok
  <2>1. /\ Visible' = Visible /\ Len(entries') = Len(entries)
        /\ \A i \in 1 .. Len(entries) : entries'[i].target = entries[i].target /\ Restored(i)' = Restored(i)
    BY <1>1, <1>2, <1>4, MovedShowsNot
  <2>2. s.next \in Nat
    BY <1>1, <1>2, <1>4, MovedStack
  <2> HIDE DEF s
  <2>3. /\ Len(frames') = Len(frames)
        /\ \A k \in 1 .. Len(fs) : frames'[k].start = fs[k].start /\ frames'[k].refs = fs[k].refs
    <3> DEFINE gs == [fs EXCEPT ![Len(fs)].next = s.next]
    <3>1. Len(gs) = Len(fs)
          /\ \A k \in 1 .. Len(fs) : gs[k].start = fs[k].start /\ gs[k].refs = fs[k].refs
      <4>1. fs \in Seq(Frames) /\ Len(fs) > 0
        BY <1>2 DEF Extends
      <4> HIDE DEF gs
      <4> QED BY <2>2, <4>1, NewMinimum DEF gs
    <3>2. frames' = gs
      BY <1>1, <1>4
    <3> HIDE DEF gs
    <3> QED BY <1>2, <3>1, <3>2
  <2>4. SameShape
    BY <1>2, <2>1, <2>3 DEF SameShape
  <2>5. \A k \in 1 .. Len(frames) : FrameEntries(k)' = FrameEntries(k)
    BY <2>4, SameShapeKeeps DEF FdInv
  <2> QED BY <2>1, <2>3, <2>5, MemoryKept
<1> QED BY <1>3, <1>4

\* What the newest transaction remembers.
Newest == Memory[Len(Memory)]

\* The newest frame knows the targets the newest transaction has saved.
LEMMA NewestIs ==
    ASSUME FdInv, frames # <<>>
    PROVE  /\ Len(frames) \in Nat /\ Len(frames) \in 1 .. Len(frames) /\ Len(entries) \in Nat
           /\ Memory # <<>> /\ Memory \in Seq(Memories) /\ Len(Memory) = Len(frames)
           /\ Newest = Remembered(Len(frames)) /\ FrameEntries(Len(frames)) = TopEntries
           /\ TopEntries \subseteq 1 .. Len(entries)
           /\ Newest \in [{entries[i].target : i \in TopEntries} -> Descs]
           /\ \A i \in TopEntries : Newest[entries[i].target] = Restored(i)
           /\ \A x : x \in DOMAIN Newest <=> IsSaved(x)
<1>1. Len(frames) \in Nat /\ Len(frames) \in 1 .. Len(frames) /\ Len(entries) \in Nat
  BY DEF FdInv, FdType
<1>2. Memory \in Seq(Memories) /\ Len(Memory) = Len(frames)
  BY MemoryType
<1>3. Memory # <<>>
  BY <1>1, <1>2
<1>4. Newest = Remembered(Len(frames))
  BY <1>1, <1>2 DEF Newest, Memory
<1>5. FrameEntries(Len(frames)) = TopEntries /\ FrameEntries(Len(frames)) \subseteq 1 .. Len(entries)
  BY <1>1, FrameEntriesInStack DEF FdInv
<1>6. /\ Newest \in [{entries[i].target : i \in TopEntries} -> Descs]
      /\ \A i \in TopEntries : Newest[entries[i].target] = Restored(i)
  BY <1>1, <1>4, <1>5, RememberedIs DEF RemembersEntries
<1>7. \A x : x \in DOMAIN Newest <=> IsSaved(x)
  BY <1>6 DEF IsSaved
<1> QED BY <1>1, <1>2, <1>3, <1>4, <1>5, <1>6, <1>7

\* A declared descriptor holds no backup: the script sees what is there.
LEMMA DeclaredIsSeen ==
    ASSUME FdInv, NEW x \in Fds, x \in Declared(frames)
    PROVE  Visible[x] = fds[x] /\ Seen(fds, entries, x) = fds[x]
<1>1. x # None
  BY FdAssumption DEF Fds, None
<1>2. \A i \in 1 .. Len(entries) : entries[i].saved # x
  BY <1>1 DEF FdInv, Backups
<1>3. Seen(fds, entries, x) = fds[x]
  BY <1>2 DEF Seen
<1> QED BY <1>3, VisibleIsSeen DEF BackupsHidden

\* An entry that holds what the script sees in its target is a memory more.
LEMMA EntryShows ==
    ASSUME FdInv, FdInv', frames # <<>>, NEW e \in Entries, entries' = Append(entries, e),
           e.target \in Top.refs, ~IsSaved(e.target),
           Len(frames') = Len(frames),
           \A k \in 1 .. Len(frames) : frames'[k].start = frames[k].start /\ frames'[k].refs = frames[k].refs,
           \A i \in 1 .. Len(entries) : Restored(i)' = Restored(i),
           \A i : i = Len(entries) + 1 => Restored(i)' = Visible[e.target]
    PROVE  /\ e.target \notin DOMAIN Newest
           /\ Memory' = [Memory EXCEPT ![Len(Memory)] =
                [x \in DOMAIN Newest \cup {e.target} |-> IF x = e.target THEN Visible[e.target] ELSE Newest[x]]]
<1>0. /\ Len(frames) \in Nat /\ Len(frames) \in 1 .. Len(frames) /\ Len(entries) \in Nat
      /\ Memory \in Seq(Memories) /\ Len(Memory) = Len(frames)
      /\ FrameEntries(Len(frames)) = TopEntries /\ TopEntries \subseteq 1 .. Len(entries)
      /\ Newest \in [{entries[i].target : i \in TopEntries} -> Descs]
      /\ \A i \in TopEntries : Newest[entries[i].target] = Restored(i)
      /\ \A x : x \in DOMAIN Newest <=> IsSaved(x)
  BY NewestIs
<1>1. /\ \A k \in 1 .. Len(frames) : FrameEntries(k)' =
           IF k = Len(frames) THEN FrameEntries(k) \cup {Len(entries) + 1} ELSE FrameEntries(k)
      /\ Len(entries') = Len(entries) + 1 /\ entries'[Len(entries) + 1] = e
      /\ \A i \in 1 .. Len(entries) : entries'[i] = entries[i]
  <2>1. FdType'
    BY DEF FdInv
  <2> QED BY <2>1, EntryAdded
<1> DEFINE T == DOMAIN Newest \cup {e.target}
           m == [x \in T |-> IF x = e.target THEN Visible[e.target] ELSE Newest[x]]
<1>2. ASSUME NEW k \in 1 .. Len(frames), k # Len(frames) PROVE Remembered(k)' = Remembered(k)
  <2>1. FrameEntries(k)' = FrameEntries(k) /\ k \in 1 .. Len(frames')
    BY <1>1, <1>2
  <2>2. FrameEntries(k) \subseteq 1 .. Len(entries)
    BY FrameEntriesInStack DEF FdInv
  <2> QED BY <1>1, <2>1, <2>2, RememberedKept
<1>3. ASSUME NEW k, k = Len(frames) PROVE Remembered(k)' = m
  <2>1. FrameEntries(k)' = TopEntries \cup {Len(entries) + 1} /\ k \in 1 .. Len(frames')
    BY <1>0, <1>1, <1>3
  <2>2. RemembersEntries'
    BY RememberedIs, PTL
  <2>3. /\ Remembered(k)' \in [{entries'[i].target : i \in FrameEntries(k)'} -> Descs]
        /\ \A i \in FrameEntries(k)' : Remembered(k)'[entries'[i].target] = Restored(i)'
    BY <2>1, <2>2 DEF RemembersEntries
  <2>4. {entries'[i].target : i \in FrameEntries(k)'} = {entries[i].target : i \in TopEntries} \cup {e.target}
    <3> DEFINE next == Len(entries) + 1
               top == TopEntries
    <3>1. entries'[next].target = e.target /\ \A i \in top : entries'[i].target = entries[i].target
      BY <1>0, <1>1
    <3>2. FrameEntries(k)' = top \cup {next}
      BY <2>1
    <3> HIDE DEF next, top
    <3>3. {entries'[i].target : i \in top \cup {next}} = {entries[i].target : i \in top} \cup {e.target}
      BY <3>1
    <3> QED BY <3>2, <3>3 DEF top
  <2>5. T = {entries[i].target : i \in TopEntries} \cup {e.target}
    BY <1>0
  <2>6. ASSUME NEW x \in T PROVE Remembered(k)'[x] = IF x = e.target THEN Visible[e.target] ELSE Newest[x]
    <3>1. CASE x = e.target
      BY <1>1, <2>1, <2>3, <3>1
    <3>2. CASE x # e.target
      <4>1. PICK i \in TopEntries : entries[i].target = x
        BY <2>5, <3>2
      <4>2. i \in 1 .. Len(entries) /\ i \in FrameEntries(k)'
        BY <1>0, <2>1
      <4> QED BY <1>0, <1>1, <2>3, <3>2, <4>1, <4>2
    <3> QED BY <3>1, <3>2
  <2> HIDE DEF T
  <2>7. Remembered(k)' \in [T -> Descs]
    BY <2>3, <2>4, <2>5
  <2> QED BY <2>6, <2>7
<1> HIDE DEF m
<1>4. Memory' = [k \in 1 .. Len(frames) |-> IF k = Len(frames) THEN m ELSE Memory[k]]
  <2>1. ASSUME NEW k \in 1 .. Len(frames) PROVE Remembered(k)' = IF k = Len(frames) THEN m ELSE Memory[k]
    BY <1>2, <1>3 DEF Memory
  <2> QED BY <2>1 DEF Memory
<1>5. Memory = [k \in 1 .. Len(frames) |-> Memory[k]]
  BY DEF Memory
<1>6. Memory' = [Memory EXCEPT ![Len(Memory)] = m]
  BY <1>0, <1>4, <1>5
<1> QED BY <1>0, <1>6 DEF m

\* Save is a memory more, or nothing when there was no free number.
LEMMA SaveShows ==
    ASSUME FdInv, FdInv', NEW fd \in Fds, Save(fd)
    PROVE  /\ Visible' = Visible
           /\ \/ Memory' = Memory
              \/ /\ fd \notin DOMAIN Newest
                 /\ Memory' = [Memory EXCEPT ![Len(Memory)] =
                      [x \in DOMAIN Newest \cup {fd} |-> IF x = fd THEN Visible[fd] ELSE Newest[x]]]
<1> DEFINE least == Top.next
           free == Allowed(fds, least, frames)
           to == Lowest(free)
           Entry(saved) == [target |-> fd, saved |-> saved, flags |-> fds[fd].cloexec]
<1>0. /\ Len(frames) \in Nat /\ Len(entries) \in Nat /\ Len(frames) \in 1 .. Len(frames) /\ Len(frames) > 0
      /\ frames # <<>> /\ fds \in [Fds -> Descs] /\ entries \in Seq(Entries) /\ frames \in Seq(Frames)
  BY DEF Save, FdInv, FdType
<1>1. fd \in Top.refs /\ ~IsSaved(fd) /\ fd \in Declared(frames)
  BY <1>0 DEF Save, Declared, Top
<1>2. least \in Nat
  <2>1. frames[Len(frames)] \in Frames
    BY <1>0
  <2> QED BY <2>1 DEF Frames, Top
<1>3. fds[fd].cloexec \in BOOLEAN /\ \A saved \in Fds \cup {None} : Entry(saved) \in Entries
  BY <1>0 DEF Entries, Descs, Desc
<1>4. NextBackup(fds, least, frames) \in Nat
  BY <1>0, <1>2, NextBackupType
<1>5. Visible[fd] = fds[fd]
  BY <1>1, DeclaredIsSeen
<1>6. CASE ~Open(fds, fd)
  <2>1. entries' = Append(entries, Entry(None)) /\ UNCHANGED <<fds, frames>>
    BY <1>6 DEF Save
  <2>2. Entry(None) \in Entries /\ Entry(None).target = fd /\ Entry(None).saved = None
    BY <1>3
  <2> HIDE DEF Entry
  <2>3. /\ Len(entries') = Len(entries) + 1 /\ entries'[Len(entries) + 1] = Entry(None)
        /\ \A i \in 1 .. Len(entries) : entries'[i] = entries[i]
    BY <1>0, <2>1, <2>2
  <2>4. \A i \in 1 .. Len(entries) : Restored(i)' = Restored(i)
    BY <2>1, <2>3 DEF Restored
  <2>5. \A i : i = Len(entries) + 1 => Restored(i)' = Visible[fd]
    BY <1>5, <1>6, <2>2, <2>3 DEF Restored, Open
  <2>6. Visible' = Visible
    <3>1. \A x \in Fds : x # None
      BY FdAssumption DEF Fds, None
    <3>2. \A x \in Fds : (\E i \in 1 .. Len(entries) + 1 : entries'[i].saved = x) <=> (\E i \in 1 .. Len(entries) : entries[i].saved = x)
      <4>1. \A i \in 1 .. Len(entries) + 1 : i = Len(entries) + 1 \/ i \in 1 .. Len(entries)
        BY <1>0
      <4>2. \A i \in 1 .. Len(entries) : i \in 1 .. Len(entries) + 1
        BY <1>0
      <4> QED BY <2>2, <2>3, <3>1, <4>1, <4>2
    <3>3. BackupsHidden'
      BY VisibleIsSeen, PTL
    <3> QED BY <2>1, <2>3, <3>2, <3>3, VisibleIsSeen DEF BackupsHidden, Seen
  <2> QED BY <1>0, <1>1, <2>1, <2>2, <2>4, <2>5, <2>6, EntryShows
<1>7. CASE Open(fds, fd)
  <2>1. /\ frames' = [frames EXCEPT ![Len(frames)].next = NextBackup(fds, least, frames)]
        /\ IF free = {} THEN UNCHANGED <<fds, entries>>
           ELSE fds' = Dup(fds, fd, to) /\ entries' = Append(entries, Entry(to))
    BY <1>7 DEF Save
  <2> HIDE DEF least, free, to
  <2>2. /\ Len(frames') = Len(frames)
        /\ \A k \in 1 .. Len(frames) : frames'[k].start = frames[k].start /\ frames'[k].refs = frames[k].refs
    <3> DEFINE gs == [frames EXCEPT ![Len(frames)].next = NextBackup(fds, least, frames)]
    <3>1. /\ Len(gs) = Len(frames)
          /\ \A k \in 1 .. Len(frames) : gs[k].start = frames[k].start /\ gs[k].refs = frames[k].refs
      <4> HIDE DEF gs
      <4> QED BY <1>0, <1>4, NewMinimum DEF gs
    <3>2. frames' = gs
      BY <2>1
    <3> HIDE DEF gs
    <3> QED BY <3>1, <3>2
  <2>3. CASE free = {}
    <3>1. UNCHANGED <<fds, entries>>
      BY <2>1, <2>3
    <3>2. SameShape
      BY <2>2, <3>1 DEF SameShape
    <3>3. \A k \in 1 .. Len(frames) : FrameEntries(k)' = FrameEntries(k)
      BY <3>2, SameShapeKeeps DEF FdInv
    <3>4. Visible' = Visible /\ \A i \in 1 .. Len(entries) : Restored(i)' = Restored(i)
      BY <3>1 DEF Visible, SavedFds, Restored
    <3> QED BY <2>2, <3>1, <3>3, <3>4, MemoryKept
  <2>4. CASE free # {}
    <3>1. to \in Fds /\ fds[to] = Closed /\ to # fd
      BY <1>0, <1>2, <1>7, <2>4, AllowedNumber DEF free, to, Open
    <3>2. Entry(to) \in Entries /\ Entry(to).target = fd /\ Entry(to).saved = to /\ Entry(to).flags = fds[fd].cloexec
      BY <1>3, <3>1
    <3> HIDE DEF Entry
    <3>3. /\ fds'[to] = [file |-> fds[fd].file, cloexec |-> TRUE]
          /\ \A x \in Fds \ {to} : fds'[x] = fds[x]
      BY <1>0, <1>7, <2>1, <2>4, <3>1, DupType DEF Open
    <3>4. entries' = Append(entries, Entry(to))
      BY <2>1, <2>4
    <3>5. /\ Len(entries') = Len(entries) + 1 /\ entries'[Len(entries) + 1] = Entry(to)
          /\ \A i \in 1 .. Len(entries) : entries'[i] = entries[i]
      BY <1>0, <3>2, <3>4
    <3>6. ASSUME NEW i \in 1 .. Len(entries), entries[i].saved # None
          PROVE  entries[i].saved \in Fds \ {to}
      <4>1. entries[i] \in Entries
        BY <1>0
      <4>2. entries[i].saved \in Fds /\ fds[entries[i].saved] # Closed
        BY <3>6, <4>1 DEF Entries, FdInv, Backups
      <4> QED BY <3>1, <4>2
    <3>7. to # None
      BY <3>1, FdAssumption DEF Fds, None
    <3>8. ASSUME NEW i \in 1 .. Len(entries) PROVE Restored(i)' = Restored(i)
      <4>1. CASE entries[i].saved = None
        BY <3>5, <4>1 DEF Restored
      <4>2. CASE entries[i].saved # None
        <5>1. fds'[entries[i].saved] = fds[entries[i].saved]
          BY <3>3, <3>6, <4>2
        <5> QED BY <3>5, <4>2, <5>1 DEF Restored
      <4> QED BY <4>1, <4>2
    <3>9. ASSUME NEW i, i = Len(entries) + 1 PROVE Restored(i)' = Visible[fd]
      <4>1. Restored(i)' = [file |-> fds'[to].file, cloexec |-> fds[fd].cloexec]
        BY <3>2, <3>5, <3>7, <3>9 DEF Restored
      <4>2. [file |-> fds[fd].file, cloexec |-> fds[fd].cloexec] = fds[fd]
        <5>1. fds[fd] \in Desc
          BY <1>0 DEF Descs
        <5> QED BY <5>1 DEF Desc
      <4> QED BY <1>5, <3>3, <4>1, <4>2
    <3>10. Visible' = Visible
      <4>1. ASSUME NEW x \in Fds PROVE Seen(fds', entries', x) = Seen(fds, entries, x)
        <5>1. CASE x = to
          <6>1. Seen(fds', entries', x) = Closed
            <7>1. Len(entries) + 1 \in 1 .. Len(entries')
              BY <1>0, <3>5
            <7> QED BY <3>2, <3>5, <5>1, <7>1 DEF Seen
          <6>2. Seen(fds, entries, x) = Closed
            BY <3>1, <5>1 DEF Seen
          <6> QED BY <6>1, <6>2
        <5>2. CASE x # to
          <6>1. (\E i \in 1 .. Len(entries) + 1 : entries'[i].saved = x) <=> (\E i \in 1 .. Len(entries) : entries[i].saved = x)
            <7>1. \A i \in 1 .. Len(entries) + 1 : i = Len(entries) + 1 \/ i \in 1 .. Len(entries)
              BY <1>0
            <7>2. \A i \in 1 .. Len(entries) : i \in 1 .. Len(entries) + 1
              BY <1>0
            <7> QED BY <3>2, <3>5, <5>2, <7>1, <7>2
          <6> QED BY <3>3, <3>5, <5>2, <6>1 DEF Seen
        <5> QED BY <5>1, <5>2
      <4>2. BackupsHidden'
        BY VisibleIsSeen, PTL
      <4> QED BY <4>1, <4>2, VisibleIsSeen DEF BackupsHidden
    <3> QED BY <1>0, <1>1, <2>2, <3>2, <3>4, <3>8, <3>9, <3>10, EntryShows
  <2> QED BY <2>3, <2>4
<1> QED BY <1>6, <1>7

\* A redirection changes one descriptor that the newest frame knows.
LEMMA RedirectShows ==
    ASSUME FdInv, FdInv', NEW fd \in Fds, Redirect(fd)
    PROVE  /\ frames # <<>> /\ fd \in DOMAIN Newest /\ fds'[fd] \in Descs
           /\ Visible' = [Visible EXCEPT ![fd] = fds'[fd]] /\ Memory' = Memory
<1>1. frames # <<>> /\ IsSaved(fd) /\ UNCHANGED <<entries, frames>> /\ fds' = [fds EXCEPT ![fd] = fds'[fd]]
  BY DEF Redirect, FdInv, FdType
<1>2. fd \in Declared(frames)
  BY <1>1, SavedIsDeclared
<1>3. fds \in [Fds -> Descs] /\ fds' \in [Fds -> Descs] /\ fds'[fd] \in Descs
  BY DEF FdInv, FdType
<1>4. fd \in DOMAIN Newest
  BY <1>1, NewestIs
<1>5. \A x \in Fds \ {fd} : fds'[x] = fds[x]
  BY <1>1, <1>3
<1>6. ASSUME NEW i \in 1 .. Len(entries), entries[i].saved # None
      PROVE  entries[i].saved \in Fds \ {fd}
  <2>1. entries[i] \in Entries
    BY DEF FdInv, FdType
  <2> QED BY <1>2, <1>6, <2>1 DEF Entries, FdInv, Backups
<1>7. ASSUME NEW i \in 1 .. Len(entries) PROVE Restored(i)' = Restored(i)
  <2>1. CASE entries[i].saved = None
    BY <1>1, <2>1 DEF Restored
  <2>2. CASE entries[i].saved # None
    <3>1. fds'[entries[i].saved] = fds[entries[i].saved]
      BY <1>5, <1>6, <2>2
    <3> QED BY <1>1, <2>2, <3>1 DEF Restored
  <2> QED BY <2>1, <2>2
<1>8. Memory' = Memory
  <2>1. SameShape
    BY <1>1 DEF SameShape
  <2>2. \A k \in 1 .. Len(frames) : FrameEntries(k)' = FrameEntries(k)
    BY <2>1, SameShapeKeeps DEF FdInv
  <2> QED BY <1>1, <1>7, <2>2, MemoryKept
<1>9. Visible' = [Visible EXCEPT ![fd] = fds'[fd]]
  <2>1. BackupsHidden'
    BY VisibleIsSeen, PTL
  <2>2. Visible = [x \in Fds |-> Seen(fds, entries, x)] /\ Visible' = [x \in Fds |-> Seen(fds', entries', x)]
    BY <2>1, VisibleIsSeen DEF BackupsHidden
  <2>3. ASSUME NEW x \in Fds PROVE Seen(fds', entries', x) = IF x = fd THEN fds'[fd] ELSE Seen(fds, entries, x)
    <3>1. CASE x = fd
      <4>1. \A i \in 1 .. Len(entries) : entries[i].saved # fd
        <5>1. fd # None
          BY FdAssumption DEF Fds, None
        <5> QED BY <1>6, <5>1
      <4> QED BY <1>1, <3>1, <4>1 DEF Seen
    <3>2. CASE x # fd
      BY <1>1, <1>5, <3>2 DEF Seen
    <3> QED BY <3>1, <3>2
  <2> QED BY <2>2, <2>3
<1> QED BY <1>1, <1>3, <1>4, <1>8, <1>9

\* The end of the newest transaction: the others remember what they did.
LEMMA FinishShows ==
    ASSUME FdInv, FdInv', frames # <<>>, Finish,
           \A x \in Fds : ~IsSaved(x) /\ x \notin SavedFds(Top.start + 1) => fds'[x] = fds[x]
    PROVE  /\ Memory' = SubSeq(Memory, 1, Len(Memory) - 1)
           /\ \A x \in Fds : Visible'[x] = IF \E i \in 1 .. Top.start : entries[i].saved = x THEN Closed ELSE fds'[x]
<1>0. /\ Len(frames) \in Nat /\ Len(frames) \in 1 .. Len(frames) /\ Len(entries) \in Nat
      /\ Memory \in Seq(Memories) /\ Len(Memory) = Len(frames)
  BY NewestIs
<1>1. /\ Len(entries') = Top.start /\ Top.start \in 0 .. Len(entries) /\ Len(frames') = Len(frames) - 1
      /\ \A i \in 1 .. Len(entries') : entries'[i] = entries[i]
      /\ \A k \in 1 .. Len(frames) - 1 : FrameEntries(k)' = FrameEntries(k)
  BY FinishKeeps
<1>2. \A i \in 1 .. Top.start : entries[i].saved # None =>
        entries[i].saved \in Fds /\ fds'[entries[i].saved] = fds[entries[i].saved]
  BY FinishKeepsBackups
<1>3. ASSUME NEW i \in 1 .. Top.start PROVE Restored(i)' = Restored(i)
  BY <1>1, <1>2 DEF Restored
<1>4. ASSUME NEW k \in 1 .. Len(frames) - 1 PROVE Remembered(k)' = Remembered(k)
  <2>1. k \in 1 .. Len(frames) /\ k \in 1 .. Len(frames')
    BY <1>0, <1>1
  <2>2. FrameEntries(k) \subseteq 1 .. Top.start
    <3>1. k + 1 \in 1 .. Len(frames) /\ k # Len(frames) /\ Len(frames) \in k + 1 .. Len(frames)
      BY <1>0
    <3>2. frames[k].start \in Nat /\ frames[k + 1].start \in Nat /\ frames[k + 1].start <= frames[Len(frames)].start
      BY <2>1, <3>1, FrameEntriesInStack DEF FdInv, Nested
    <3> QED BY <1>0, <1>1, <3>1, <3>2 DEF FrameEntries, Top
  <2> QED BY <1>1, <1>3, <2>1, <2>2, RememberedKept
<1>5. Memory' = SubSeq(Memory, 1, Len(Memory) - 1)
  <2> DEFINE n == Len(frames) - 1
             a == SubSeq(Memory, 1, n)
  <2>1. n \in 0 .. Len(Memory) /\ Len(frames') = n
    BY <1>0, <1>1
  <2>2. Memory' = [k \in 1 .. n |-> Memory[k]]
    <3>1. \A k \in 1 .. n : Memory[k] = Remembered(k)
      BY <1>0 DEF Memory
    <3>2. Memory' = [k \in 1 .. n |-> Remembered(k)']
      BY <2>1 DEF Memory
    <3> QED BY <1>4, <3>1, <3>2
  <2> HIDE DEF n
  <2>3. a = [k \in 1 .. n |-> Memory[k]]
    BY <1>0, <2>1
  <2> QED BY <1>0, <2>2, <2>3 DEF n
<1>6. ASSUME NEW x \in Fds
      PROVE  Visible'[x] = IF \E i \in 1 .. Top.start : entries[i].saved = x THEN Closed ELSE fds'[x]
  <2>1. BackupsHidden'
    BY VisibleIsSeen, PTL
  <2>2. Visible'[x] = Seen(fds', entries', x)
    BY <2>1 DEF BackupsHidden
  <2> QED BY <1>1, <2>2 DEF Seen
<1> QED BY <1>5, <1>6

\* What is seen of a descriptor that the newest transaction did not save.
LEMMA OthersSeen ==
    ASSUME FdInv, frames # <<>>, NEW x \in Fds
    PROVE  /\ x \in SavedFds(Top.start + 1) => Visible[x] = Closed /\ ~ \E i \in 1 .. Top.start : entries[i].saved = x
           /\ x \notin SavedFds(Top.start + 1) =>
                Visible[x] = IF \E i \in 1 .. Top.start : entries[i].saved = x THEN Closed ELSE fds[x]
<1>0. Len(entries) \in Nat /\ Top.start \in 0 .. Len(entries)
  <2>1. Len(frames) \in 1 .. Len(frames) /\ Len(entries) \in Nat
    BY NewestIs
  <2>2. frames[Len(frames)].start \in Nat /\ frames[Len(frames)].start <= Len(entries)
    BY <2>1, FrameEntriesInStack DEF FdInv, Nested
  <2> QED BY <2>1, <2>2 DEF Top
<1>1. x # None
  BY FdAssumption DEF Fds, None
<1>2. x \in SavedFds(Top.start + 1) <=> \E i \in Top.start + 1 .. Len(entries) : entries[i].saved = x
  BY <1>1 DEF SavedFds
<1>3. \A i : i \in 1 .. Len(entries) <=> i \in 1 .. Top.start \/ i \in Top.start + 1 .. Len(entries)
  BY <1>0
<1>4. Visible[x] = Seen(fds, entries, x)
  BY VisibleIsSeen DEF BackupsHidden
<1>5. \A i \in 1 .. Top.start, j \in Top.start + 1 .. Len(entries) : entries[i].saved = x => entries[j].saved # x
  <2> SUFFICES ASSUME NEW i \in 1 .. Top.start, NEW j \in Top.start + 1 .. Len(entries), entries[i].saved = x
               PROVE  entries[j].saved # x
    OBVIOUS
  <2>1. i \in 1 .. Len(entries) /\ j \in 1 .. Len(entries) /\ j # i
    BY <1>0
  <2> QED BY <1>1, <2>1 DEF FdInv, Backups
<1> QED BY <1>2, <1>3, <1>4, <1>5 DEF Seen

\* Rollback undoes the newest frame.
LEMMA RollbackShows ==
    ASSUME FdInv, FdInv', Rollback
    PROVE  /\ frames # <<>> /\ Memory' = SubSeq(Memory, 1, Len(Memory) - 1)
           /\ Visible' = [fd \in Fds |-> IF fd \in DOMAIN Newest THEN Newest[fd] ELSE Visible[fd]]
<1> DEFINE old(fd) == CHOOSE i \in TopEntries : entries[i].target = fd
<1>1. /\ frames # <<>> /\ Finish
      /\ fds' = [fd \in Fds |-> IF IsSaved(fd) THEN Restored(old(fd))
                                ELSE IF fd \in SavedFds(Top.start + 1) THEN Closed ELSE fds[fd]]
  BY DEF Rollback
<1>2. ASSUME NEW fd \in Fds, IsSaved(fd) PROVE Restored(old(fd)) = Newest[fd]
  <2>1. old(fd) \in TopEntries /\ entries[old(fd)].target = fd
    BY <1>2 DEF IsSaved
  <2> HIDE DEF old
  <2> QED BY <1>1, <2>1, NewestIs
<1> HIDE DEF old
<1>3. /\ Memory' = SubSeq(Memory, 1, Len(Memory) - 1)
      /\ \A x \in Fds : Visible'[x] = IF \E i \in 1 .. Top.start : entries[i].saved = x THEN Closed ELSE fds'[x]
  BY <1>1, FinishShows
<1>4. ASSUME NEW x \in Fds PROVE Visible'[x] = IF x \in DOMAIN Newest THEN Newest[x] ELSE Visible[x]
  <2>1. CASE IsSaved(x)
    <3>1. x \in DOMAIN Newest
      BY <1>1, <2>1, NewestIs
    <3>2. ~ \E i \in 1 .. Top.start : entries[i].saved = x
      <4>1. x \in Declared(frames)
        BY <1>1, <2>1, SavedIsDeclared
      <4>2. x # None
        BY FdAssumption DEF Fds, None
      <4>3. \A i \in 1 .. Top.start : i \in 1 .. Len(entries)
        BY <1>1, FinishKeeps
      <4> QED BY <4>1, <4>2, <4>3 DEF FdInv, Backups
    <3>3. fds'[x] = Newest[x]
      BY <1>1, <1>2, <2>1
    <3> QED BY <1>3, <3>1, <3>2, <3>3
  <2>2. CASE ~IsSaved(x)
    <3>1. x \notin DOMAIN Newest
      BY <1>1, <2>2, NewestIs
    <3>2. fds'[x] = IF x \in SavedFds(Top.start + 1) THEN Closed ELSE fds[x]
      BY <1>1, <2>2
    <3> QED BY <1>1, <1>3, <3>1, <3>2, OthersSeen
  <2> QED BY <2>1, <2>2
<1>5. Visible' = [fd \in Fds |-> Visible'[fd]]
  BY DEF Visible
<1> QED BY <1>1, <1>3, <1>4, <1>5

\* Commit keeps its changes.
LEMMA CommitShows ==
    ASSUME FdInv, FdInv', Commit
    PROVE  /\ frames # <<>> /\ Memory' = SubSeq(Memory, 1, Len(Memory) - 1)
           /\ Visible' = Visible
<1>1. /\ frames # <<>> /\ Finish
      /\ fds' = [fd \in Fds |-> IF fd \in SavedFds(Top.start + 1) THEN Closed ELSE fds[fd]]
  BY DEF Commit
<1>2. /\ Memory' = SubSeq(Memory, 1, Len(Memory) - 1)
      /\ \A x \in Fds : Visible'[x] = IF \E i \in 1 .. Top.start : entries[i].saved = x THEN Closed ELSE fds'[x]
  BY <1>1, FinishShows
<1>3. ASSUME NEW x \in Fds PROVE Visible'[x] = Visible[x]
  BY <1>1, <1>2, OthersSeen
<1>4. Visible' = [fd \in Fds |-> Visible'[fd]] /\ Visible = [fd \in Fds |-> Visible[fd]]
  BY DEF Visible
<1> QED BY <1>1, <1>2, <1>3, <1>4

\* Discard forgets the frames.
LEMMA DiscardShows ==
    ASSUME FdInv, Discard
    PROVE  Memory' = <<>> /\ Visible' = Visible
<1>1. entries' = <<>> /\ frames' = <<>> /\ fds' = [fd \in Fds |-> IF fd \in SavedFds(1) THEN Closed ELSE fds[fd]]
  BY DEF Discard
<1>2. Len(entries') = 0 /\ Len(frames') = 0
  BY <1>1
<1>3. Memory' = <<>>
  BY <1>2 DEF Memory
<1>4. SavedFds(1)' = {}
  BY <1>2 DEF SavedFds
<1>5. Visible' = Visible
  BY <1>1, <1>4 DEF Visible
<1> QED BY <1>3, <1>5

\* The initial states are those of DescriptorFrames.
LEMMA FdInitShows == FdInit => Scripts!Init
<1> SUFFICES ASSUME FdInit PROVE Scripts!Init
  OBVIOUS
<1>1. entries = <<>> /\ frames = <<>> /\ fds \in [Fds -> Descs]
  BY DEF FdInit
<1>2. Len(entries) = 0 /\ Len(frames) = 0
  BY <1>1
<1>3. SavedFds(1) = {}
  BY <1>2 DEF SavedFds
<1>4. Visible \in [Fds -> Descs]
  BY <1>1, <1>3 DEF Visible
<1>5. Memory = <<>>
  BY <1>2 DEF Memory
<1> QED BY <1>4, <1>5 DEF Scripts!Init, Memory

\* Every step is one of DescriptorFrames or shows nowhere.
LEMMA FdStepShows ==
    FdInv /\ FdInv' /\ [FdNext]_fdVars => [Scripts!Next]_<<Visible, Memory>>
<1> SUFFICES ASSUME FdInv, FdInv', [FdNext]_fdVars PROVE Scripts!Next \/ (Visible' = Visible /\ Memory' = Memory)
  OBVIOUS
<1>1. ASSUME NEW R \in SUBSET Fds, Begin(R) PROVE Scripts!Begin \/ (Visible' = Visible /\ Memory' = Memory)
  BY <1>1, BeginShows DEF Scripts!Begin, Memory
<1>2. ASSUME NEW fd \in Fds, AddReference(fd) PROVE Visible' = Visible /\ Memory' = Memory
  BY <1>2, AddReferenceShows
<1>3. ASSUME NEW fd \in Fds, Save(fd) PROVE Scripts!Remember(fd) \/ (Visible' = Visible /\ Memory' = Memory)
  <2>1. Memory # <<>>
    BY <1>3, NewestIs DEF Save
  <2> QED BY <1>3, <2>1, SaveShows DEF Scripts!Remember, Scripts!Known, Scripts!Last, Memory, Newest
<1>4. ASSUME NEW fd \in Fds, Redirect(fd) PROVE \E d \in Descs : Scripts!Change(fd, d)
  <2>1. /\ frames # <<>> /\ fd \in DOMAIN Newest /\ fds'[fd] \in Descs
        /\ Visible' = [Visible EXCEPT ![fd] = fds'[fd]] /\ Memory' = Memory
    BY <1>4, RedirectShows
  <2>2. Memory # <<>>
    BY <2>1, NewestIs
  <2>3. Scripts!Change(fd, fds'[fd])
    BY <2>1, <2>2 DEF Scripts!Change, Scripts!Known, Scripts!Last, Memory, Newest
  <2> QED BY <2>1, <2>3
<1>5. CASE Rollback
  <2>1. Memory # <<>>
    BY <1>5, NewestIs DEF Rollback
  <2> QED BY <1>5, <2>1, RollbackShows DEF Scripts!Next, Scripts!Undo, Scripts!Known, Scripts!Last, Memory, Newest
<1>6. CASE Commit
  <2>1. Memory # <<>>
    BY <1>6, NewestIs DEF Commit
  <2> QED BY <1>6, <2>1, CommitShows DEF Scripts!Next, Scripts!Keep, Scripts!Last, Memory
<1>7. CASE Discard
  BY <1>7, DiscardShows DEF Scripts!Next, Scripts!Forget, Memory
<1>8. CASE UNCHANGED fdVars
  <2>1. Visible' = Visible
    BY <1>8 DEF fdVars, Visible, SavedFds
  <2>2. Memory' = Memory
    BY <1>8 DEF fdVars, Memory, Remembered, FrameEntries, Restored
  <2> QED BY <2>1, <2>2
<1> QED BY <1>1, <1>2, <1>3, <1>4, <1>5, <1>6, <1>7, <1>8 DEF FdNext, Scripts!Next

\* For every limit on descriptors and every nesting, a script sees what
\* DescriptorFrames promises: descriptors come back with their flags, whatever
\* numbers the backups took and whichever steps failed.
THEOREM FdImplementsFrames == FdSpec => FramesSpec
<1>1. FdInit => Scripts!Init
  BY FdInitShows
<1>2. FdInv /\ FdInv' /\ [FdNext]_fdVars => [Scripts!Next]_<<Visible, [k \in 1 .. Len(frames) |-> Remembered(k)]>>
  BY FdStepShows DEF Memory
<1> QED BY <1>1, <1>2, FdInvInit, FdInvStep, PTL DEF FdSpec, FramesSpec, Scripts!Spec

=============================================================================
