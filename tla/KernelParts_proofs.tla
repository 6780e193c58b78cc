------------------------- MODULE KernelParts_proofs -------------------------
(***************************************************************************)
(* The waits, the descriptor tables, the heaps and the pages, for every    *)
(* number of processes, interrupts, descriptors, blocks and pages.         *)
(*                                                                         *)
(* Waits: a stretch under ProcessSwitchLock is exclusive, every signal     *)
(* ends one wait, and nobody's sleep is cut short.                         *)
(*                                                                         *)
(* Descriptors: the invariant adds to the counts that numbers not handed   *)
(* out yet are nobody's and that nothing redirects to them, so that a new  *)
(* descriptor starts with the redirects its count covers: none.            *)
(*                                                                         *)
(* Heap: whether anybody is inside an allocation or not, the free list as  *)
(* it is or will be linked again, the blocks callers hold, the block being *)
(* taken and the ones that are lost tile the heap.                         *)
(*                                                                         *)
(* Pages: what a process has by the stage of its life, because only that   *)
(* says which tables must still be there.                                  *)
(***************************************************************************)
EXTENDS KernelParts, FiniteSetTheorems, SequenceTheorems, WellFoundedInduction, TLAPS

-----------------------------------------------------------------------------
(* Waits *)


\* Who waits for an interrupt has said for which one.
IrqIsKnown == \A p \in Proc : status[p] = "WAIT_INT" \/ polling[p] = "int" => irq[p] \in IRQ

\* Lock is not entered, and does not go on, inside a ProcessSwitchLock.
LockWaitsOutside == \A p \in Proc : lock[p] = "waiting" => depth[p] = 0

IInv == TypeOK /\ SwitchLockIsExclusive /\ IrqIsKnown /\ LockWaitsOutside

THEOREM InitHolds == Init => IInv
<1> SUFFICES ASSUME Init PROVE IInv
  OBVIOUS
<1>1. TypeOK
  <2>1. sleep \in [Proc -> [since : Nat, ms : Nat]] /\ irq \in [Proc -> IRQ \cup {None}]
    BY DEF Init
  <2>2. depth \in [Proc -> 0 .. MaxDepth] /\ pending \in [IRQ -> 0 .. MaxPending]
    BY BoundsAssumption DEF Init, MaxDepth
  <2>3. status \in [Proc -> {"RUN"} \cup Waiting] /\ polling \in [Proc -> Polls]
    BY DEF Init, Waiting, Polls
  <2>4. /\ event \in [Proc -> BOOLEAN]
        /\ command \in [Proc -> {"none", "issued", "answered"}]
        /\ lock \in [Proc -> {"out", "waiting", "in"}]
    BY DEF Init
  <2>5. noSwitch \in Proc \cup {None} /\ ticks \in 0 .. MaxTicks
    BY BoundsAssumption DEF Init
  <2>6. busy \in BOOLEAN
    BY Zenon DEF Init
  <2>7. QED BY <2>1, <2>2, <2>3, <2>4, <2>5, <2>6 DEF TypeOK
<1>2. SwitchLockIsExclusive
  <2> SUFFICES ASSUME NEW p \in Proc PROVE depth[p] > 0 <=> noSwitch = p
    BY DEF SwitchLockIsExclusive
  <2>1. depth[p] = 0 /\ noSwitch # p
    BY NoneAssumption DEF Init
  <2>2. QED BY <2>1
<1>3. IrqIsKnown /\ LockWaitsOutside
  BY DEF Init, IrqIsKnown, LockWaitsOutside
<1>4. QED BY <1>1, <1>2, <1>3 DEF IInv

\* A wait keeps the invariant if its state says what it waits for.
LEMMA WaitKeeps ==
  ASSUME IInv, NEW p \in Proc, NEW x \in Polls, NEW s \in Waiting,
         InUserCode(p), PollOrYield(p, x, s),
         s = "WAIT_INT" \/ x = "int" => irq'[p] \in IRQ,
         irq' = irq \/ (\E i \in IRQ : irq' = [irq EXCEPT ![p] = i]),
         sleep' \in [Proc -> [since : Nat, ms : Nat]],
         UNCHANGED <<signals, mutex>>
  PROVE  IInv'
<1>1. irq' \in [Proc -> IRQ \cup {None}] /\ \A q \in Proc \ {p} : irq'[q] = irq[q]
  BY DEF IInv, TypeOK
<1>2. CASE DoPollWait(p)
  BY ZenonT(40), <1>1, <1>2 DEF IInv, TypeOK, SwitchLockIsExclusive, IrqIsKnown, LockWaitsOutside,
     PollOrYield, DoPollWait, signals, mutex, Polls, Waiting, InUserCode, CanRun
<1>3. CASE ~DoPollWait(p)
  BY ZenonT(40), <1>1, <1>3, NoneAssumption DEF IInv, TypeOK, SwitchLockIsExclusive, IrqIsKnown,
     LockWaitsOutside, PollOrYield, YieldAs, DoPollWait, signals, mutex, Polls, Waiting,
     InUserCode, CanRun
<1>4. QED BY <1>2, <1>3

\* What Consume takes was there.
LEMMA TakeKeepsType ==
  ASSUME IInv, NEW p \in Proc, NEW kind, Take(p, kind),
         kind = "int" => irq[p] \in IRQ /\ pending[irq[p]] > 0
  PROVE  /\ pending' \in [IRQ -> 0 .. MaxPending]
         /\ event' \in [Proc -> BOOLEAN]
         /\ command' \in [Proc -> {"none", "issued", "answered"}]
         /\ ticks' = ticks
         /\ kind = "int" => pending'[irq[p]] < pending[irq[p]]
  BY BoundsAssumption DEF IInv, TypeOK, Take

LEMMA StepKeeps == IInv /\ [Next]_vars => IInv'
<1> SUFFICES ASSUME IInv, [Next]_vars PROVE IInv'
  OBVIOUS
<1> USE BoundsAssumption, NoneAssumption
<1>1. ASSUME NEW p \in Proc, Enter(p) PROVE IInv'
  BY <1>1 DEF Enter, IInv, TypeOK, SwitchLockIsExclusive, IrqIsKnown, LockWaitsOutside,
     MaxDepth, data, signals, mutex, InUserCode, CanRun
<1>2. ASSUME NEW p \in Proc, Leave(p) PROVE IInv'
  BY <1>2 DEF Leave, IInv, TypeOK, SwitchLockIsExclusive, IrqIsKnown, LockWaitsOutside,
     MaxDepth, data, signals, mutex, InUserCode, CanRun
<1>3. ASSUME NEW p \in Proc, NEW ms \in Durations, Sleep(p, ms) PROVE IInv'
  <2>1. ticks \in Nat /\ ms \in Nat
    BY DEF IInv, TypeOK
  <2>2. sleep' \in [Proc -> [since : Nat, ms : Nat]]
    BY <1>3, <2>1 DEF Sleep, IInv, TypeOK
  <2>3. QED
    BY <1>3, <2>2, WaitKeeps DEF Sleep, Polls, Waiting
<1>4. ASSUME NEW p \in Proc, NEW i \in IRQ, WaitOnInterrupt(p, i) PROVE IInv'
  BY <1>4, WaitKeeps DEF WaitOnInterrupt, IInv, TypeOK, Polls, Waiting
<1>5. ASSUME NEW p \in Proc, WaitForEvent(p) PROVE IInv'
  BY <1>5, WaitKeeps DEF WaitForEvent, IInv, TypeOK, Polls, Waiting, data
<1>6. ASSUME NEW p \in Proc, Lock(p) PROVE IInv'
  <2>1. noSwitch = None
    BY <1>6 DEF Lock, InUserCode, CanRun, IInv, SwitchLockIsExclusive
  <2>2. TypeOK'
    BY <1>6 DEF Lock, YieldAs, IInv, TypeOK, data, signals, Waiting
  <2>3. SwitchLockIsExclusive' /\ IrqIsKnown'
    BY <1>6, <2>1 DEF Lock, YieldAs, IInv, TypeOK, SwitchLockIsExclusive, IrqIsKnown, data
  <2>4. LockWaitsOutside'
    BY <1>6 DEF Lock, YieldAs, IInv, TypeOK, LockWaitsOutside
  <2>5. QED
    BY <2>2, <2>3, <2>4 DEF IInv
<1>7. ASSUME NEW p \in Proc, Locked(p) PROVE IInv'
  BY <1>7 DEF Locked, IInv, TypeOK, SwitchLockIsExclusive, IrqIsKnown, LockWaitsOutside,
     data, signals, CanRun
<1>8. ASSUME NEW p \in Proc, UnLock(p) PROVE IInv'
  BY <1>8 DEF UnLock, IInv, TypeOK, SwitchLockIsExclusive, IrqIsKnown, LockWaitsOutside,
     data, signals
<1>9. ASSUME NEW p \in Proc, EndPoll(p) PROVE IInv'
  <2>1. polling[p] = "int" => irq[p] \in IRQ /\ pending[irq[p]] > 0
    BY <1>9 DEF EndPoll, PollOver, IInv, IrqIsKnown
  <2>2. Take(p, polling[p])
    BY <1>9 DEF EndPoll
  <2>3. QED
    BY <1>9, <2>1, <2>2, TakeKeepsType DEF EndPoll, IInv, TypeOK, SwitchLockIsExclusive,
       IrqIsKnown, LockWaitsOutside, data, mutex, Polls
<1>10. ASSUME NEW p \in Proc, WakeUp(p) PROVE IInv'
  <2> DEFINE kind == CASE status[p] = "WAIT_INT" -> "int"
                       [] status[p] = "WAIT_EVENT" -> "event"
                       [] OTHER -> "none"
  <2>1. kind = "int" => status[p] = "WAIT_INT"
    OBVIOUS
  <2>2. kind = "int" => irq[p] \in IRQ /\ pending[irq[p]] > 0
    BY <1>10, <2>1 DEF WakeUp, WaitOver, IInv, IrqIsKnown
  <2>3. Take(p, kind)
    BY <1>10 DEF WakeUp
  <2> HIDE DEF kind
  <2>4. QED
    BY <1>10, <2>2, <2>3, TakeKeepsType DEF WakeUp, IInv, TypeOK, SwitchLockIsExclusive,
       IrqIsKnown, LockWaitsOutside, data, mutex
<1>11. CASE Tick
  BY <1>11 DEF Tick, IInv, TypeOK, SwitchLockIsExclusive, IrqIsKnown, LockWaitsOutside,
     data, mutex
<1>12. ASSUME NEW i \in IRQ, Signal(i) PROVE IInv'
  BY <1>12 DEF Signal, IInv, TypeOK, SwitchLockIsExclusive, IrqIsKnown, LockWaitsOutside,
     data, mutex
<1>13. ASSUME NEW p \in Proc, EventCompleted(p) PROVE IInv'
  BY <1>13 DEF EventCompleted, IInv, TypeOK, SwitchLockIsExclusive, IrqIsKnown,
     LockWaitsOutside, data, mutex
<1>14. ASSUME NEW p \in Proc, InitiateCommand(p) PROVE IInv'
  BY <1>14 DEF InitiateCommand, IInv, TypeOK, SwitchLockIsExclusive, IrqIsKnown,
     LockWaitsOutside, data, mutex
<1>15. CASE UNCHANGED vars
  BY <1>15 DEF vars, IInv, TypeOK, SwitchLockIsExclusive, IrqIsKnown, LockWaitsOutside
<1>16. QED
  BY <1>1, <1>2, <1>3, <1>4, <1>5, <1>6, <1>7, <1>8, <1>9, <1>10, <1>11, <1>12, <1>13,
     <1>14, <1>15 DEF Next, Calls, Continues, Interrupts, Spin

THEOREM InductiveInvariant == Spec => []IInv
  BY InitHolds, StepKeeps, PTL DEF Spec

\* The state of the waits has its type.
THEOREM TypeCorrect == Spec => []TypeOK
  BY InductiveInvariant, PTL DEF IInv

\* ProcessSwitchLock excludes everybody else, nested locks and waits included.
THEOREM SwitchLockExcludes == Spec => []SwitchLockIsExclusive
  BY InductiveInvariant, PTL DEF IInv

\* A step that ends a wait for an interrupt takes one of its signals.
LEMMA WaitConsumes ==
  ASSUME IInv, [Next]_vars, NEW p \in Proc, EndsInt(p)
  PROVE  pending'[irq[p]] < pending[irq[p]]
<1>1. ASSUME NEW q \in Proc, EndPoll(q) PROVE pending'[irq[p]] < pending[irq[p]]
  <2>1. p = q /\ polling[q] = "int"
    BY <1>1 DEF EndPoll, EndsInt, IInv, TypeOK, Polls, Waiting
  <2>2. irq[q] \in IRQ /\ pending[irq[q]] > 0 /\ Take(q, "int")
    BY <1>1, <2>1 DEF EndPoll, PollOver, IInv, IrqIsKnown
  <2>3. QED BY <2>1, <2>2, TakeKeepsType
<1>2. ASSUME NEW q \in Proc, WakeUp(q) PROVE pending'[irq[p]] < pending[irq[p]]
  <2>1. p = q /\ status[q] = "WAIT_INT"
    BY <1>2 DEF WakeUp, EndsInt, IInv, TypeOK
  <2>2. irq[q] \in IRQ /\ pending[irq[q]] > 0 /\ Take(q, "int")
    BY <1>2, <2>1 DEF WakeUp, WaitOver, IInv, IrqIsKnown
  <2>3. QED BY <2>1, <2>2, TakeKeepsType
<1>3. ASSUME status' = status \/ (\E q \in Proc, s \in Waiting : status' = [status EXCEPT ![q] = s]),
             polling' = polling \/ (\E q \in Proc, x \in {"sleep", "int", "event"} :
                                      polling' = [polling EXCEPT ![q] = x])
      PROVE  FALSE
  BY <1>3 DEF EndsInt, IInv, TypeOK, Waiting, Polls
<1>4. QED
  BY <1>1, <1>2, <1>3 DEF Next, Calls, Continues, Interrupts, Spin, vars, Enter, Leave, Sleep,
     WaitOnInterrupt, WaitForEvent, Lock, Locked, UnLock, Tick, Signal, EventCompleted,
     InitiateCommand, PollOrYield, YieldAs, data, signals, mutex, Waiting

\* IRQ::Consume: one signal ends one wait.
THEOREM OneWaitPerSignal == Spec => SignalsAreConsumed
<1>1. IInv /\ [Next]_vars
        => [\A p \in Proc : EndsInt(p) => pending'[irq[p]] < pending[irq[p]]]_vars
  BY WaitConsumes
<1>2. QED
  BY <1>1, InductiveInvariant, PTL DEF Spec, SignalsAreConsumed
-----------------------------------------------------------------------------
(* The clock of Sleep and KernelUtil::Wait wraps *)

\* A sleep began in the past.
SleepsBegan == \A p \in Proc : sleep[p].since <= ticks

LEMMA BeganKeeps == IInv /\ SleepsBegan /\ [Next]_vars => SleepsBegan'
<1> SUFFICES ASSUME IInv, SleepsBegan, [Next]_vars PROVE SleepsBegan'
  OBVIOUS
<1>1. ticks \in Nat /\ \A p \in Proc : sleep[p].since \in Nat
  BY BoundsAssumption DEF IInv, TypeOK
<1>2. ASSUME NEW p \in Proc, NEW ms \in Durations, Sleep(p, ms) PROVE SleepsBegan'
  <2>1. /\ ticks' = ticks
        /\ sleep' = [sleep EXCEPT ![p] = [since |-> ticks, ms |-> ms]]
    BY <1>2 DEF Sleep, signals
  <2>2. ASSUME NEW q \in Proc PROVE sleep'[q].since <= ticks'
    BY <1>1, <2>1 DEF SleepsBegan, IInv, TypeOK
  <2>3. QED BY <2>2 DEF SleepsBegan
<1>3. CASE Tick
  BY <1>1, <1>3 DEF Tick, data, SleepsBegan
<1>4. ASSUME sleep' = sleep, ticks' = ticks PROVE SleepsBegan'
  BY <1>4 DEF SleepsBegan
<1>5. QED
  BY <1>2, <1>3, <1>4 DEF Next, Calls, Continues, Interrupts, Spin, vars, Enter, Leave,
     WaitOnInterrupt, WaitForEvent, Lock, Locked, UnLock, Signal, EventCompleted, EndPoll, WakeUp,
     InitiateCommand, Take, data, signals

\* Division with a remainder, by the period of the clock.
LEMMA Division ==
  ASSUME NEW n \in Nat
  PROVE  \E k \in Nat : n = ClockPeriod * k + (n % ClockPeriod) /\ n % ClockPeriod \in 0 .. ClockPeriod - 1
<1>1. n \div ClockPeriod \in Nat
  BY BoundsAssumption
<1>2. n % ClockPeriod \in 0 .. ClockPeriod - 1
  BY BoundsAssumption
<1>3. n = ClockPeriod * (n \div ClockPeriod) + (n % ClockPeriod)
  BY BoundsAssumption
<1>4. QED BY <1>1, <1>2, <1>3

\* How far apart two values of the clock are says at least how much time has passed.
LEMMA ClockDifference ==
  ASSUME NEW s \in Nat, NEW t \in Nat, s <= t
  PROVE  /\ ClockAt(s) \in 0 .. ClockPeriod - 1 /\ ClockAt(t) \in 0 .. ClockPeriod - 1
         /\ ClockAt(t) - ClockAt(s) <= t - s
         /\ ClockAt(t) < ClockAt(s) => ClockAt(t) + ClockPeriod - ClockAt(s) <= t - s
<1>1. ClockPeriod \in Nat \ {0} /\ Boot \in Nat
  BY BoundsAssumption
<1>2. PICK i \in Nat : /\ Boot + s = ClockPeriod * i + ClockAt(s)
                       /\ ClockAt(s) \in 0 .. ClockPeriod - 1
  <2> DEFINE n == Boot + s
  <2>1. n \in Nat /\ ClockAt(s) = n % ClockPeriod
    BY <1>1 DEF ClockAt
  <2> HIDE DEF n
  <2>2. \E k \in Nat : n = ClockPeriod * k + ClockAt(s) /\ ClockAt(s) \in 0 .. ClockPeriod - 1
    BY <2>1, Division
  <2>3. QED BY <2>2 DEF n
<1>3. PICK j \in Nat : /\ Boot + t = ClockPeriod * j + ClockAt(t)
                       /\ ClockAt(t) \in 0 .. ClockPeriod - 1
  <2> DEFINE n == Boot + t
  <2>1. n \in Nat /\ ClockAt(t) = n % ClockPeriod
    BY <1>1 DEF ClockAt
  <2> HIDE DEF n
  <2>2. \E k \in Nat : n = ClockPeriod * k + ClockAt(t) /\ ClockAt(t) \in 0 .. ClockPeriod - 1
    BY <2>1, Division
  <2>3. QED BY <2>2 DEF n
<1>4. ASSUME NEW m \in Nat, NEW n \in Nat, m < n
      PROVE  ClockPeriod * m + ClockPeriod <= ClockPeriod * n
  <2>1. n - m - 1 \in Nat /\ n = m + 1 + (n - m - 1)
    BY <1>4
  <2>2. PICK d \in Nat : n = m + 1 + d
    BY <2>1
  <2>3. ClockPeriod * n = ClockPeriod * m + ClockPeriod + ClockPeriod * d /\ ClockPeriod * d \in Nat
    BY <1>1, <2>2
  <2>4. ClockPeriod * m \in Nat
    BY <1>1
  <2>5. QED BY <1>1, <2>3, <2>4
<1> DEFINE x == ClockPeriod * i
           y == ClockPeriod * j
           c == ClockAt(s)
           d == ClockAt(t)
<1>5. x \in Nat /\ y \in Nat /\ (i < j => x + ClockPeriod <= y) /\ (j < i => y + ClockPeriod <= x)
  BY <1>1, <1>4
<1>6. /\ c \in 0 .. ClockPeriod - 1 /\ d \in 0 .. ClockPeriod - 1
      /\ Boot + s = x + c /\ Boot + t = y + d /\ (i = j => x = y)
  BY <1>2, <1>3
<1> HIDE DEF x, y, c, d
<1>7. x <= y /\ (d < c => x + ClockPeriod <= y)
  BY <1>1, <1>5, <1>6
<1>8. c \in 0 .. ClockPeriod - 1 /\ d \in 0 .. ClockPeriod - 1 /\ d - c <= t - s
      /\ (d < c => d + ClockPeriod - c <= t - s)
  BY <1>1, <1>5, <1>6, <1>7
<1>9. QED
  BY <1>8 DEF c, d

\* DoContextSwitch's comparison, as long as the clock does not wrap in the sleep.
LEMMA SleepOverInTime ==
  ASSUME NEW s \in Nat, NEW t \in Nat, NEW ms \in Nat, s <= t,
         ClockAt(s) + ms < ClockPeriod, ClockAt(t) >= (ClockAt(s) + ms) % ClockPeriod
  PROVE  t >= s + ms
<1>1. ClockAt(s) \in Nat /\ ClockAt(t) \in Nat /\ ClockAt(t) - ClockAt(s) <= t - s
  BY ClockDifference, BoundsAssumption
<1>2. (ClockAt(s) + ms) % ClockPeriod = ClockAt(s) + ms
  <2>1. ASSUME NEW n \in Nat, n < ClockPeriod PROVE n % ClockPeriod = n
    BY <2>1, BoundsAssumption
  <2>2. QED BY <1>1, <2>1
<1>3. QED BY <1>1, <1>2

\* KernelUtil::Wait's comparison, wherever the clock wraps.
LEMMA PollOverInTime ==
  ASSUME NEW s \in Nat, NEW t \in Nat, NEW ms \in Nat, s <= t,
         (ClockAt(t) + ClockPeriod - ClockAt(s)) % ClockPeriod >= ms
  PROVE  t >= s + ms
<1> DEFINE c == ClockAt(s)
           d == ClockAt(t)
<1>1. /\ c \in 0 .. ClockPeriod - 1 /\ d \in 0 .. ClockPeriod - 1 /\ d - c <= t - s
      /\ d < c => d + ClockPeriod - c <= t - s
      /\ ClockPeriod \in Nat \ {0}
      /\ (d + ClockPeriod - c) % ClockPeriod >= ms
  BY ClockDifference, BoundsAssumption
<1> HIDE DEF c, d
<1>2. (d + ClockPeriod - c) % ClockPeriod = IF d < c THEN d + ClockPeriod - c ELSE d - c
  <2>1. ASSUME NEW n \in 0 .. ClockPeriod - 1 PROVE n % ClockPeriod = n /\ (n + ClockPeriod) % ClockPeriod = n
    BY <1>1
  <2>2. CASE d < c
    <3>1. d + ClockPeriod - c \in 0 .. ClockPeriod - 1
      BY <1>1, <2>2
    <3>2. QED BY <2>1, <2>2, <3>1
  <2>3. CASE ~(d < c)
    <3>1. d - c \in 0 .. ClockPeriod - 1 /\ d + ClockPeriod - c = (d - c) + ClockPeriod
      BY <1>1, <2>3
    <3>2. QED BY <2>1, <2>3, <3>1
  <2>4. QED BY <2>2, <2>3
<1>3. QED BY <1>1, <1>2

EndsEarly(p) ==
  /\ \/ status[p] = "WAIT_SLEEP" /\ status'[p] = "RUN" /\ ~WrapsInSleep(p)
     \/ polling[p] = "sleep" /\ polling'[p] = "no"
  /\ ~(ticks >= sleep[p].since + sleep[p].ms)

LEMMA NobodyIsEarly ==
  ASSUME IInv, SleepsBegan, [Next]_vars, NEW p \in Proc, EndsEarly(p)
  PROVE  FALSE
<1>1. /\ ticks \in Nat /\ sleep[p].since \in Nat /\ sleep[p].ms \in Nat /\ sleep[p].since <= ticks
  BY BoundsAssumption DEF IInv, TypeOK, SleepsBegan
<1>2. ASSUME NEW q \in Proc, EndPoll(q) PROVE FALSE
  <2>1. p = q /\ polling[q] = "sleep"
    BY <1>2 DEF EndPoll, EndsEarly, IInv, TypeOK, Polls, Waiting
  <2>2. (ClockAt(ticks) + ClockPeriod - ClockAt(sleep[p].since)) % ClockPeriod >= sleep[p].ms
    BY <1>2, <2>1 DEF EndPoll, PollOver
  <2>3. QED BY <1>1, <2>2, PollOverInTime DEF EndsEarly
<1>3. ASSUME NEW q \in Proc, WakeUp(q) PROVE FALSE
  <2>1. p = q /\ status[q] = "WAIT_SLEEP" /\ ~WrapsInSleep(p)
    BY <1>3 DEF WakeUp, EndsEarly, IInv, TypeOK
  <2>2. ClockAt(ticks) >= (ClockAt(sleep[p].since) + sleep[p].ms) % ClockPeriod
    BY <1>3, <2>1 DEF WakeUp, WaitOver, SleepOver
  <2>3. ClockAt(sleep[p].since) \in Nat /\ ClockPeriod \in Nat
    BY <1>1, ClockDifference, BoundsAssumption
  <2>4. ClockAt(sleep[p].since) + sleep[p].ms < ClockPeriod
    BY <1>1, <2>1, <2>3 DEF WrapsInSleep
  <2>5. QED BY <1>1, <2>2, <2>4, SleepOverInTime DEF EndsEarly
<1>4. ASSUME status' = status \/ (\E q \in Proc, s \in Waiting : status' = [status EXCEPT ![q] = s]),
             polling' = polling \/ (\E q \in Proc, x \in {"sleep", "int", "event"} :
                                      polling' = [polling EXCEPT ![q] = x])
      PROVE  FALSE
  BY <1>4 DEF EndsEarly, IInv, TypeOK, Waiting, Polls
<1>5. QED
  BY <1>2, <1>3, <1>4 DEF Next, Calls, Continues, Interrupts, Spin, vars, Enter, Leave, Sleep,
     WaitOnInterrupt, WaitForEvent, Lock, Locked, UnLock, Tick, Signal, EventCompleted,
     InitiateCommand, PollOrYield, YieldAs, data, signals, mutex, Waiting

\* Sleep and KernelUtil::Wait last at least as long as they were asked to, whatever the clock's
\* value was at their start; a sleep that crosses the clock's wrap is the exception.
THEOREM NobodyWakesEarly == Spec => NeverEarly
<1>1. Init => SleepsBegan
  <2> SUFFICES ASSUME Init, NEW p \in Proc PROVE sleep[p].since <= ticks
    BY DEF SleepsBegan
  <2>1. sleep[p] = [since |-> 0, ms |-> 0] /\ ticks = 0
    BY DEF Init
  <2>2. QED BY <2>1
<1>2. Spec => []SleepsBegan
  BY <1>1, InductiveInvariant, BeganKeeps, PTL DEF Spec
<1>3. IInv /\ SleepsBegan /\ [Next]_vars
        => [\A p \in Proc :
              \/ status[p] = "WAIT_SLEEP" /\ status'[p] = "RUN" /\ ~WrapsInSleep(p)
              \/ polling[p] = "sleep" /\ polling'[p] = "no"
              => ticks >= sleep[p].since + sleep[p].ms]_vars
  BY NobodyIsEarly DEF EndsEarly
<1>4. QED
  BY <1>2, <1>3, InductiveInvariant, PTL DEF Spec, NeverEarly

-----------------------------------------------------------------------------
(* Least and greatest numbers of a set *)

LEMMA MinIsThere ==
  ASSUME NEW S \in SUBSET Nat, S # {}
  PROVE  Min(S) \in S /\ \A y \in S : Min(S) <= y
<1> DEFINE R == {ss \in Nat \X Nat : ss[1] < ss[2]}
<1>1. IsWellFoundedOn(R, Nat)
  BY NatLessThanWellFounded DEF OpToRel
<1>2. PICK x \in S : \A y \in S : ~(<<y, x>> \in R)
  BY <1>1, WFMin
<1>3. \A y \in S : x <= y
  <2> SUFFICES ASSUME NEW y \in S PROVE x <= y
    OBVIOUS
  <2>1. ~(<<y, x>> \in R) /\ x \in Nat /\ y \in Nat
    BY <1>2
  <2> QED BY <2>1
<1> QED BY <1>3 DEF Min

LEMMA MaxIsThere ==
  ASSUME NEW S \in SUBSET Int, S # {}, NEW n \in Int, \A y \in S : y <= n
  PROVE  Max(S) \in S /\ \A y \in S : Max(S) >= y
<1> DEFINE R == {ss \in Nat \X Nat : ss[1] < ss[2]}
           T == {m \in Nat : n - m \in S}
<1>1. IsWellFoundedOn(R, Nat)
  BY NatLessThanWellFounded DEF OpToRel
<1>2. T # {}
  <2>1. PICK y \in S : TRUE
    OBVIOUS
  <2>2. n - y \in Nat /\ n - (n - y) = y
    OBVIOUS
  <2> QED BY <2>1, <2>2
<1>3. PICK x \in T : \A y \in T : ~(<<y, x>> \in R)
  BY <1>1, <1>2, WFMin
<1>4. \A y \in S : n - x >= y
  <2> SUFFICES ASSUME NEW y \in S PROVE n - x >= y
    OBVIOUS
  <2>1. n - y \in Nat /\ n - (n - y) = y
    OBVIOUS
  <2>2. ~(<<n - y, x>> \in R)
    BY <1>3, <2>1
  <2> QED BY <2>1, <2>2
<1>5. n - x \in S
  OBVIOUS
<1> QED BY <1>4, <1>5 DEF Max

-----------------------------------------------------------------------------
(* Descriptor tables: the counts cover the redirects *)

Descriptor == [count : Int, to : Handle \cup {Nowhere}]
IodMap == UNION {[S -> Descriptor] : S \in SUBSET Fd}

\* The same for any table t and any processes A.
ExistsIn(t, A, h) == h[1] \in A /\ h[2] \in DOMAIN t[h[1]]
Entry(t, h) == t[h[1]][h[2]]
RedirectsIn(t, A, h) == {x \in Handle : ExistsIn(t, A, x) /\ Entry(t, x).to = h}
Covered(t, A) ==
  \A h \in Handle : ExistsIn(t, A, h) => Entry(t, h).count >= 1 + Cardinality(RedirectsIn(t, A, h))

\* Numbers that were not handed out yet are nobody's, and nothing redirects to them.
NumbersHandedOut(t, A, n) ==
  \A x \in Handle : ExistsIn(t, A, x) =>
    /\ x[2] < n[x[1]]
    /\ Entry(t, x).to # Nowhere => Entry(t, x).to[2] < n[Entry(t, x).to[1]]

DescriptorsIInv ==
  /\ DescriptorsTypeOK
  /\ tableOf \in [Owner -> IodMap]
  /\ ~crossed => NumbersHandedOut(tableOf, alive, nextFd) /\ Covered(tableOf, alive)

LEMMA HandleParts ==
  /\ \A h \in Handle : h[1] \in Owner /\ h[2] \in Fd /\ h = <<h[1], h[2]>>
  /\ \A p \in Owner, fd \in Fd : <<p, fd>> \in Handle
  /\ Nowhere \notin Handle
BY DEF Handle, Nowhere, Fd

LEMMA HandlesFinite == IsFiniteSet(Handle)
<1>1. IsFiniteSet(Owner)
  BY DescriptorAssumption, FS_AddElement DEF Owner
<1>2. IsFiniteSet(Fd)
  BY DescriptorAssumption, FS_Interval DEF Fd
<1> QED BY <1>1, <1>2, FS_Product DEF Handle

LEMMA RedirectsFinite ==
  ASSUME NEW t, NEW A, NEW h
  PROVE  IsFiniteSet(RedirectsIn(t, A, h)) /\ Cardinality(RedirectsIn(t, A, h)) \in Nat
<1>1. RedirectsIn(t, A, h) \subseteq Handle
  BY DEF RedirectsIn
<1> QED BY <1>1, HandlesFinite, FS_Subset, FS_CardinalityType

LEMMA TableParts ==
  ASSUME NEW f \in IodMap
  PROVE  /\ DOMAIN f \in SUBSET Fd
         /\ \A fd \in DOMAIN f : f[fd] \in Descriptor /\ f[fd].count \in Int
                                 /\ f[fd].to \in Handle \cup {Nowhere}
<1>1. PICK S \in SUBSET Fd : f \in [S -> Descriptor]
  BY DEF IodMap
<1>2. \A fd \in S : f[fd] \in Descriptor
  BY <1>1
<1> QED BY <1>1, <1>2 DEF Descriptor

LEMMA IntoTable ==
  ASSUME NEW S \in SUBSET Fd, NEW f \in [S -> Descriptor]
  PROVE  f \in IodMap
BY DEF IodMap

\* What each change of a table does to the others, to itself and to what it leaves alone.
LEMMA PutTable ==
  ASSUME NEW t \in [Owner -> IodMap], NEW h \in Handle, NEW d \in Descriptor
  PROVE  /\ Put(t, h, d) \in [Owner -> IodMap]
         /\ \A p \in Owner : DOMAIN Put(t, h, d)[p] = DOMAIN t[p] \cup (IF p = h[1] THEN {h[2]} ELSE {})
         /\ Entry(Put(t, h, d), h) = d
         /\ \A x \in Handle : x # h /\ x[2] \in DOMAIN t[x[1]] => Entry(Put(t, h, d), x) = Entry(t, x)
<1> DEFINE f == [fd \in DOMAIN t[h[1]] \cup {h[2]} |-> IF fd = h[2] THEN d ELSE t[h[1]][fd]]
           V == [t EXCEPT ![h[1]] = f]
<1>1. V = Put(t, h, d)
  BY HandleParts DEF Put
<1>2. h[1] \in Owner /\ h[2] \in Fd
  BY HandleParts
<1>3. t[h[1]] \in IodMap
  BY <1>2
<1>4. DOMAIN t[h[1]] \cup {h[2]} \in SUBSET Fd
  BY <1>2, <1>3, TableParts
<1>5. f \in [DOMAIN t[h[1]] \cup {h[2]} -> Descriptor]
  BY <1>3, TableParts
<1>6. f \in IodMap
  BY <1>4, <1>5, IntoTable
<1>7. DOMAIN f = DOMAIN t[h[1]] \cup {h[2]} /\ f[h[2]] = d
      /\ \A fd \in DOMAIN t[h[1]] : fd # h[2] => f[fd] = t[h[1]][fd]
  OBVIOUS
<1> HIDE DEF f
<1>8. V \in [Owner -> IodMap] /\ V[h[1]] = f /\ \A p \in Owner : p # h[1] => V[p] = t[p]
  BY <1>2, <1>6
<1> HIDE DEF V
<1>9. \A x \in Handle : x # h /\ x[2] \in DOMAIN t[x[1]] => V[x[1]][x[2]] = t[x[1]][x[2]]
  <2> SUFFICES ASSUME NEW x \in Handle, x # h, x[2] \in DOMAIN t[x[1]]
               PROVE  V[x[1]][x[2]] = t[x[1]][x[2]]
    OBVIOUS
  <2>1. x[1] # h[1] \/ x[2] # h[2]
    BY HandleParts
  <2>2. x[1] \in Owner
    BY HandleParts
  <2> QED BY <2>1, <2>2, <1>7, <1>8
<1>10. \A p \in Owner : DOMAIN V[p] = DOMAIN t[p] \cup (IF p = h[1] THEN {h[2]} ELSE {})
  BY <1>7, <1>8
<1>11. V[h[1]][h[2]] = d
  BY <1>7, <1>8
<1>12. Entry(V, h) = d
  BY <1>11 DEF Entry
<1>13. \A x \in Handle : x # h /\ x[2] \in DOMAIN t[x[1]] => Entry(V, x) = Entry(t, x)
  BY <1>9 DEF Entry
<1> QED BY <1>1, <1>8, <1>10, <1>12, <1>13

LEMMA DropTable ==
  ASSUME NEW t \in [Owner -> IodMap], NEW h \in Handle
  PROVE  /\ Drop(t, h) \in [Owner -> IodMap]
         /\ \A p \in Owner : DOMAIN Drop(t, h)[p] = DOMAIN t[p] \ (IF p = h[1] THEN {h[2]} ELSE {})
         /\ \A x \in Handle : x # h /\ x[2] \in DOMAIN t[x[1]] => Entry(Drop(t, h), x) = Entry(t, x)
<1> DEFINE f == [fd \in DOMAIN t[h[1]] \ {h[2]} |-> t[h[1]][fd]]
           V == [t EXCEPT ![h[1]] = f]
<1>1. V = Drop(t, h)
  BY HandleParts DEF Drop
<1>2. h[1] \in Owner /\ h[2] \in Fd
  BY HandleParts
<1>3. t[h[1]] \in IodMap
  BY <1>2
<1>4. DOMAIN t[h[1]] \ {h[2]} \in SUBSET Fd
  BY <1>3, TableParts
<1>5. f \in [DOMAIN t[h[1]] \ {h[2]} -> Descriptor]
  BY <1>3, TableParts
<1>6. f \in IodMap
  BY <1>4, <1>5, IntoTable
<1>7. DOMAIN f = DOMAIN t[h[1]] \ {h[2]} /\ \A fd \in DOMAIN f : f[fd] = t[h[1]][fd]
  OBVIOUS
<1> HIDE DEF f
<1>8. V \in [Owner -> IodMap] /\ V[h[1]] = f /\ \A p \in Owner : p # h[1] => V[p] = t[p]
  BY <1>2, <1>6
<1> HIDE DEF V
<1>9. \A x \in Handle : x # h /\ x[2] \in DOMAIN t[x[1]] => V[x[1]][x[2]] = t[x[1]][x[2]]
  <2> SUFFICES ASSUME NEW x \in Handle, x # h, x[2] \in DOMAIN t[x[1]]
               PROVE  V[x[1]][x[2]] = t[x[1]][x[2]]
    OBVIOUS
  <2>1. x[1] # h[1] \/ x[2] # h[2]
    BY HandleParts
  <2>2. x[1] \in Owner
    BY HandleParts
  <2> QED BY <2>1, <2>2, <1>7, <1>8
<1>10. \A p \in Owner : DOMAIN V[p] = DOMAIN t[p] \ (IF p = h[1] THEN {h[2]} ELSE {})
  BY <1>7, <1>8
<1>11. \A x \in Handle : x # h /\ x[2] \in DOMAIN t[x[1]] => Entry(V, x) = Entry(t, x)
  BY <1>9 DEF Entry
<1> QED BY <1>1, <1>8, <1>10, <1>11

\* The end of a chain is known by its parts only.
LEMMA CountTable ==
  ASSUME NEW t \in [Owner -> IodMap], NEW h, h[1] \in Owner, h[2] \in DOMAIN t[h[1]], NEW by \in Int
  PROVE  /\ Count(t, h, by) \in [Owner -> IodMap]
         /\ \A p \in Owner : DOMAIN Count(t, h, by)[p] = DOMAIN t[p]
         /\ Entry(Count(t, h, by), h) = [Entry(t, h) EXCEPT !.count = @ + by]
         /\ \A x \in Handle : h \in Handle /\ x # h /\ x[2] \in DOMAIN t[x[1]]
                                => Entry(Count(t, h, by), x) = Entry(t, x)
<1> DEFINE d == [t[h[1]][h[2]] EXCEPT !.count = @ + by]
           f == [t[h[1]] EXCEPT ![h[2]] = d]
           V == [t EXCEPT ![h[1]] = f]
<1>1. V = Count(t, h, by)
  BY DEF Count
<1>2. t[h[1]] \in IodMap
  OBVIOUS
<1>3. PICK S \in SUBSET Fd : t[h[1]] \in [S -> Descriptor]
  BY <1>2 DEF IodMap
<1>4. d \in Descriptor
  <2>1. t[h[1]][h[2]] \in Descriptor
    BY <1>3
  <2> QED BY <2>1 DEF Descriptor
<1>5. f \in [S -> Descriptor] /\ DOMAIN f = DOMAIN t[h[1]] /\ f[h[2]] = d
      /\ \A fd \in DOMAIN f : fd # h[2] => f[fd] = t[h[1]][fd]
  <2> HIDE DEF d
  <2> QED BY <1>3, <1>4
<1>6. f \in IodMap
  BY <1>5, IntoTable
<1> HIDE DEF f
<1>8. V \in [Owner -> IodMap] /\ V[h[1]] = f /\ \A p \in Owner : p # h[1] => V[p] = t[p]
  BY <1>2, <1>6
<1> HIDE DEF V
<1>9. \A x \in Handle : h \in Handle /\ x # h /\ x[2] \in DOMAIN t[x[1]] => V[x[1]][x[2]] = t[x[1]][x[2]]
  <2> SUFFICES ASSUME NEW x \in Handle, h \in Handle, x # h, x[2] \in DOMAIN t[x[1]]
               PROVE  V[x[1]][x[2]] = t[x[1]][x[2]]
    OBVIOUS
  <2>1. x[1] # h[1] \/ x[2] # h[2]
    BY HandleParts
  <2>2. x[1] \in Owner
    BY HandleParts
  <2> QED BY <2>1, <2>2, <1>5, <1>8
<1>10. \A p \in Owner : DOMAIN V[p] = DOMAIN t[p]
  BY <1>5, <1>8
<1>11. V[h[1]][h[2]] = d
  BY <1>5, <1>8
<1>12. Entry(V, h) = [Entry(t, h) EXCEPT !.count = @ + by]
  BY <1>11 DEF Entry
<1>13. \A x \in Handle : h \in Handle /\ x # h /\ x[2] \in DOMAIN t[x[1]] => Entry(V, x) = Entry(t, x)
  BY <1>9 DEF Entry
<1> QED BY <1>1, <1>8, <1>10, <1>12, <1>13

\* The end of a chain, if there is one, is a descriptor that does not redirect.
LEMMA RealOfEnd ==
  ASSUME NEW h, RealOf(h) # Nowhere
  PROVE  Exists(RealOf(h)) /\ ~Redirects(RealOf(h))
BY DEF RealOf

\* A descriptor that nothing redirects to is closed; the one it redirects to counts one less.
LEMMA FreedCovers ==
  ASSUME NEW t \in [Owner -> IodMap], NEW A \in SUBSET Owner, NEW h \in Handle,
         ExistsIn(t, A, h), Entry(t, h).count <= 1, Covered(t, A), NEW V,
         \/ Entry(t, h).to = Nowhere /\ V = Drop(t, h)
         \/ /\ Entry(t, h).to # Nowhere /\ Entry(t, h).to # h /\ ExistsIn(t, A, Entry(t, h).to)
            /\ V = Count(Drop(t, h), Entry(t, h).to, -1)
  PROVE  /\ V \in [Owner -> IodMap]
         /\ \A x \in Handle : ExistsIn(V, A, x) <=> ExistsIn(t, A, x) /\ x # h
         /\ \A x \in Handle : ExistsIn(V, A, x) => Entry(V, x).to = Entry(t, x).to
         /\ \A p \in Owner : DOMAIN V[p] \subseteq DOMAIN t[p]
         /\ Covered(V, A)
         /\ RedirectsIn(V, A, h) = {}
<1> DEFINE D == Drop(t, h)
           e == Entry(t, h).to
<1>1. /\ D \in [Owner -> IodMap]
      /\ \A p \in Owner : DOMAIN D[p] = DOMAIN t[p] \ (IF p = h[1] THEN {h[2]} ELSE {})
      /\ \A x \in Handle : x # h /\ x[2] \in DOMAIN t[x[1]] => Entry(D, x) = Entry(t, x)
  BY DropTable
<1>2. \A x \in Handle : ExistsIn(D, A, x) <=> ExistsIn(t, A, x) /\ x # h
  BY <1>1, HandleParts DEF ExistsIn
<1>3. t[h[1]] \in IodMap /\ h[2] \in DOMAIN t[h[1]]
  BY HandleParts DEF ExistsIn
<1>4. e \in Handle \cup {Nowhere}
  BY <1>3, TableParts DEF Entry
<1>5. \A x \in Handle : ExistsIn(t, A, x) => Entry(t, x).count \in Int /\ Entry(t, x) \in Descriptor
  <2> SUFFICES ASSUME NEW x \in Handle, ExistsIn(t, A, x)
               PROVE  Entry(t, x).count \in Int /\ Entry(t, x) \in Descriptor
    OBVIOUS
  <2>1. x[1] \in Owner /\ x[2] \in DOMAIN t[x[1]] /\ t[x[1]] \in IodMap
    BY HandleParts DEF ExistsIn
  <2> QED BY <2>1, TableParts DEF Entry
<1>6. RedirectsIn(t, A, h) = {}
  <2>1. 1 >= 1 + Cardinality(RedirectsIn(t, A, h))
    <3>1. Entry(t, h).count >= 1 + Cardinality(RedirectsIn(t, A, h)) /\ Entry(t, h).count \in Int
      BY <1>5 DEF Covered
    <3> QED BY <3>1, RedirectsFinite
  <2>2. Cardinality(RedirectsIn(t, A, h)) = 0
    BY <2>1, RedirectsFinite
  <2> QED BY <2>2, RedirectsFinite, FS_EmptySet
<1> HIDE DEF D, e
<1>7. CASE e = Nowhere
  <2>1. V = D
    BY <1>7 DEF D, e
  <2>2. \A x \in Handle : ExistsIn(V, A, x) => Entry(V, x) = Entry(t, x)
    BY <2>1, <1>1, <1>2 DEF ExistsIn
  <2>3. \A x \in Handle : RedirectsIn(V, A, x) \subseteq RedirectsIn(t, A, x)
    BY <2>1, <2>2, <1>2 DEF RedirectsIn
  <2>4. Covered(V, A)
    <3> SUFFICES ASSUME NEW x \in Handle, ExistsIn(V, A, x)
                 PROVE  Entry(V, x).count >= 1 + Cardinality(RedirectsIn(V, A, x))
      BY DEF Covered
    <3>1. Entry(t, x).count >= 1 + Cardinality(RedirectsIn(t, A, x)) /\ Entry(t, x).count \in Int
      BY <2>1, <1>2, <1>5 DEF Covered
    <3>2. Cardinality(RedirectsIn(V, A, x)) <= Cardinality(RedirectsIn(t, A, x))
      BY <2>3, RedirectsFinite, FS_Subset
    <3>3. Entry(V, x).count = Entry(t, x).count
      BY <2>2
    <3> QED BY <3>1, <3>2, <3>3, RedirectsFinite
  <2>5. RedirectsIn(V, A, h) = {}
    BY <2>3, <1>6
  <2> QED BY <2>1, <2>2, <2>4, <2>5, <1>1, <1>2
<1>8. CASE e # Nowhere
  <2>1. V = Count(D, e, -1) /\ e # h /\ ExistsIn(t, A, e) /\ e \in Handle
    BY <1>4, <1>8 DEF D, e
  <2>2. ExistsIn(D, A, e) /\ e[1] \in Owner /\ e[2] \in DOMAIN D[e[1]]
    BY <2>1, <1>2, HandleParts DEF ExistsIn
  <2>3. /\ V \in [Owner -> IodMap]
        /\ \A p \in Owner : DOMAIN V[p] = DOMAIN D[p]
        /\ Entry(V, e) = [Entry(D, e) EXCEPT !.count = @ + -1]
        /\ \A x \in Handle : x # e /\ x[2] \in DOMAIN D[x[1]] => Entry(V, x) = Entry(D, x)
    BY <1>1, <2>1, <2>2, CountTable
  <2>4. \A x \in Handle : ExistsIn(V, A, x) <=> ExistsIn(t, A, x) /\ x # h
    BY <2>3, <1>2, HandleParts DEF ExistsIn
  <2>5. Entry(D, e) = Entry(t, e) /\ Entry(t, e) \in Descriptor
    BY <1>1, <2>1, <1>5 DEF ExistsIn
  <2>6. Entry(V, e).to = Entry(t, e).to /\ Entry(V, e).count = Entry(t, e).count - 1
    BY <2>3, <2>5 DEF Descriptor
  <2>7. \A x \in Handle : ExistsIn(V, A, x) /\ x # e => Entry(V, x) = Entry(t, x)
    BY <2>3, <2>4, <1>1, <1>2 DEF ExistsIn
  <2>8. \A x \in Handle : ExistsIn(V, A, x) => Entry(V, x).to = Entry(t, x).to
    BY <2>6, <2>7
  <2>9. \A x \in Handle : RedirectsIn(V, A, x) \subseteq RedirectsIn(t, A, x) \ {h}
    BY <2>8, <2>4 DEF RedirectsIn
  <2>10. h \in RedirectsIn(t, A, e)
    BY DEF RedirectsIn, e
  <2>11. Covered(V, A)
    <3> SUFFICES ASSUME NEW x \in Handle, ExistsIn(V, A, x)
                 PROVE  Entry(V, x).count >= 1 + Cardinality(RedirectsIn(V, A, x))
      BY DEF Covered
    <3> DEFINE old == RedirectsIn(t, A, x)
               new == RedirectsIn(V, A, x)
    <3>1. Entry(t, x).count >= 1 + Cardinality(old) /\ Entry(t, x).count \in Int
      BY <2>4, <1>5 DEF Covered
    <3>2. IsFiniteSet(old) /\ Cardinality(old) \in Nat /\ Cardinality(new) \in Nat
      BY RedirectsFinite
    <3>3. IsFiniteSet(old \ {h}) /\ Cardinality(old \ {h}) = IF h \in old THEN Cardinality(old) - 1 ELSE Cardinality(old)
      BY <3>2, FS_RemoveElement
    <3>4. Cardinality(new) <= Cardinality(old \ {h})
      BY <2>9, <3>3, FS_Subset
    <3> HIDE DEF old, new
    <3>5. CASE x = e
      <4>1. h \in old
        BY <3>5, <2>10 DEF old
      <4> QED BY <4>1, <3>1, <3>2, <3>3, <3>4, <3>5, <2>6 DEF new
    <3>6. CASE x # e
      <4>1. Entry(V, x).count = Entry(t, x).count
        BY <3>6, <2>7
      <4> QED BY <4>1, <3>1, <3>2, <3>3, <3>4 DEF new
    <3> QED BY <3>5, <3>6
  <2>12. RedirectsIn(V, A, h) = {}
    BY <2>9, <1>6
  <2> QED BY <2>3, <2>4, <2>8, <2>11, <2>12, <1>1
<1> QED BY <1>7, <1>8

\* What Close does to the table when it counts nothing wrongly.
LEMMA FreedSafely ==
  ASSUME DescriptorsIInv, ~crossed, NEW h \in Handle, Closable(h), h[1] \in alive,
         ~Crosses(h)
  PROVE  /\ Freed(h) \in [Owner -> IodMap]
         /\ \A x \in Handle : ExistsIn(Freed(h), alive, x) <=> ExistsIn(tableOf, alive, x) /\ x # h
         /\ \A x \in Handle : ExistsIn(Freed(h), alive, x) => Entry(Freed(h), x).to = Entry(tableOf, x).to
         /\ \A p \in Owner : DOMAIN Freed(h)[p] \subseteq DOMAIN tableOf[p]
         /\ Covered(Freed(h), alive)
         /\ RedirectsIn(Freed(h), alive, h) = {}
<1>1. /\ tableOf \in [Owner -> IodMap] /\ alive \in SUBSET Owner
      /\ Covered(tableOf, alive)
  BY DEF DescriptorsIInv, DescriptorsTypeOK
<1>2. ExistsIn(tableOf, alive, h) /\ Entry(tableOf, h).count <= 1
  BY DEF Closable, Exists, ExistsIn, Iod, Entry
<1>3. CASE ~Redirects(h)
  <2>1. Entry(tableOf, h).to = Nowhere /\ Freed(h) = Drop(tableOf, h)
    BY <1>3 DEF Redirects, Iod, Entry, Freed
  <2> QED BY <1>1, <1>2, <2>1, FreedCovers
<1>4. CASE Redirects(h)
  <2>1. RealOf(h) = Entry(tableOf, h).to /\ Entry(tableOf, h).to # Nowhere
    BY <1>4 DEF Crosses, Redirects, Iod, Entry
  <2>2. Exists(RealOf(h)) /\ ~Redirects(RealOf(h))
    BY <2>1, RealOfEnd
  <2>3. Entry(tableOf, h).to # h /\ ExistsIn(tableOf, alive, Entry(tableOf, h).to)
    BY <1>4, <2>1, <2>2 DEF Exists, ExistsIn
  <2>4. Freed(h) = Count(Drop(tableOf, h), Entry(tableOf, h).to, -1)
    BY <1>4, <2>1 DEF Freed
  <2> QED BY <1>1, <1>2, <2>1, <2>3, <2>4, FreedCovers
<1> QED BY <1>3, <1>4

LEMMA FreedType ==
  ASSUME DescriptorsIInv, NEW h \in Handle, Exists(h), ~Breaks(h)
  PROVE  /\ Freed(h) \in [Owner -> IodMap]
         /\ \A p \in Owner : DOMAIN Freed(h)[p] = DOMAIN tableOf[p] \ (IF p = h[1] THEN {h[2]} ELSE {})
<1> DEFINE D == Drop(tableOf, h)
           e == RealOf(h)
<1>1. tableOf \in [Owner -> IodMap] /\ alive \subseteq Owner
  BY DEF DescriptorsIInv, DescriptorsTypeOK
<1>2. /\ D \in [Owner -> IodMap]
      /\ \A p \in Owner : DOMAIN D[p] = DOMAIN tableOf[p] \ (IF p = h[1] THEN {h[2]} ELSE {})
  BY <1>1, DropTable
<1>3. CASE ~Redirects(h)
  BY <1>2, <1>3 DEF Freed
<1>4. CASE Redirects(h)
  <2>1. e # Nowhere
    BY <1>4 DEF Breaks
  <2>2. Exists(e) /\ ~Redirects(e)
    BY <2>1, RealOfEnd
  <2> HIDE DEF e
  <2>3. ~(e[1] = h[1] /\ e[2] = h[2])
    BY <1>4, <2>2 DEF Redirects, Iod
  <2>4. e[1] \in Owner /\ e[2] \in DOMAIN tableOf[e[1]]
    BY <1>1, <2>2 DEF Exists
  <2>5. e[2] \in DOMAIN D[e[1]]
    BY <1>2, <2>3, <2>4
  <2> HIDE DEF D
  <2>6. /\ Count(D, e, -1) \in [Owner -> IodMap]
        /\ \A p \in Owner : DOMAIN Count(D, e, -1)[p] = DOMAIN D[p]
    BY <1>2, <2>4, <2>5, CountTable
  <2>7. Freed(h) = Count(D, e, -1)
    BY <1>4 DEF Freed, D, e
  <2> QED BY <1>2, <2>6, <2>7
<1> QED BY <1>3, <1>4

\* A redirect from n to o is made, and o counts it.
LEMMA RedirectCovers ==
  ASSUME NEW t \in [Owner -> IodMap], NEW A \in SUBSET Owner, Covered(t, A),
         NEW n \in Handle, n[1] \in A, ~ExistsIn(t, A, n), RedirectsIn(t, A, n) = {},
         NEW o \in Handle, ExistsIn(t, A, o), NEW V,
         V = Put(Count(t, o, 1), n, RedirectTo(o))
  PROVE  /\ V \in [Owner -> IodMap]
         /\ Covered(V, A)
         /\ \A x \in Handle : ExistsIn(V, A, x) <=> ExistsIn(t, A, x) \/ x = n
         /\ \A x \in Handle : ExistsIn(t, A, x) => Entry(V, x).to = Entry(t, x).to
         /\ Entry(V, n).to = o
<1> DEFINE C == Count(t, o, 1)
<1>1. o[1] \in Owner /\ o[2] \in DOMAIN t[o[1]] /\ o # n
  BY HandleParts DEF ExistsIn
<1>2. /\ C \in [Owner -> IodMap]
      /\ \A p \in Owner : DOMAIN C[p] = DOMAIN t[p]
      /\ Entry(C, o) = [Entry(t, o) EXCEPT !.count = @ + 1]
      /\ \A x \in Handle : x # o /\ x[2] \in DOMAIN t[x[1]] => Entry(C, x) = Entry(t, x)
  BY <1>1, CountTable
<1>3. RedirectTo(o) \in Descriptor /\ RedirectTo(o).count = 1 /\ RedirectTo(o).to = o
  BY DEF RedirectTo, Descriptor
<1> HIDE DEF C
<1>4. /\ V \in [Owner -> IodMap]
      /\ \A p \in Owner : DOMAIN V[p] = DOMAIN C[p] \cup (IF p = n[1] THEN {n[2]} ELSE {})
      /\ Entry(V, n) = RedirectTo(o)
      /\ \A x \in Handle : x # n /\ x[2] \in DOMAIN C[x[1]] => Entry(V, x) = Entry(C, x)
  BY <1>2, <1>3, PutTable DEF C
<1>5. \A x \in Handle : ExistsIn(V, A, x) <=> ExistsIn(t, A, x) \/ x = n
  BY <1>2, <1>4, HandleParts DEF ExistsIn
<1>6. \A x \in Handle : ExistsIn(t, A, x) /\ x # o => Entry(V, x) = Entry(t, x)
  BY <1>2, <1>4, HandleParts DEF ExistsIn
<1>7. \A x \in Handle : ExistsIn(t, A, x) => Entry(t, x) \in Descriptor
  <2> SUFFICES ASSUME NEW x \in Handle, ExistsIn(t, A, x) PROVE Entry(t, x) \in Descriptor
    OBVIOUS
  <2>1. x[1] \in Owner /\ x[2] \in DOMAIN t[x[1]] /\ t[x[1]] \in IodMap
    BY HandleParts DEF ExistsIn
  <2> QED BY <2>1, TableParts DEF Entry
<1>8. Entry(V, o).to = Entry(t, o).to /\ Entry(V, o).count = Entry(t, o).count + 1
  <2>1. Entry(V, o) = Entry(C, o) /\ Entry(t, o) \in Descriptor
    BY <1>1, <1>2, <1>4, <1>7
  <2> QED BY <1>2, <2>1 DEF Descriptor
<1>9. \A x \in Handle : ExistsIn(t, A, x) => Entry(V, x).to = Entry(t, x).to
  BY <1>6, <1>8
<1>10. \A x \in Handle : x # o => RedirectsIn(V, A, x) \subseteq RedirectsIn(t, A, x)
  BY <1>3, <1>4, <1>5, <1>9 DEF RedirectsIn
<1>11. RedirectsIn(V, A, o) \subseteq RedirectsIn(t, A, o) \cup {n}
  BY <1>5, <1>9 DEF RedirectsIn
<1>12. Covered(V, A)
  <2> SUFFICES ASSUME NEW x \in Handle, ExistsIn(V, A, x)
               PROVE  Entry(V, x).count >= 1 + Cardinality(RedirectsIn(V, A, x))
    BY DEF Covered
  <2> DEFINE old == RedirectsIn(t, A, x)
             new == RedirectsIn(V, A, x)
  <2>1. IsFiniteSet(old) /\ Cardinality(old) \in Nat /\ Cardinality(new) \in Nat
    BY RedirectsFinite
  <2>2. ExistsIn(t, A, x) => Entry(t, x).count >= 1 + Cardinality(old) /\ Entry(t, x).count \in Int
    BY <1>7 DEF Covered, Descriptor
  <2>3. CASE x = n
    <3>1. new \subseteq {}
      BY <2>3, <1>1, <1>10
    <3>2. Cardinality(new) = 0
      BY <3>1, FS_EmptySet
    <3> QED BY <3>2, <2>3, <1>3, <1>4
  <2>4. CASE x = o
    <3>1. new \subseteq old \cup {n}
      BY <2>4, <1>11
    <3>2. IsFiniteSet(old \cup {n}) /\ Cardinality(old \cup {n}) <= Cardinality(old) + 1
          /\ Cardinality(old \cup {n}) \in Nat
      <4>1. /\ IsFiniteSet(old \cup {n})
            /\ Cardinality(old \cup {n}) = IF n \in old THEN Cardinality(old) ELSE Cardinality(old) + 1
        BY <2>1, FS_AddElement
      <4> HIDE DEF old
      <4> QED BY <2>1, <4>1
    <3>3. Cardinality(new) <= Cardinality(old \cup {n})
      BY <3>1, <3>2, FS_Subset
    <3> HIDE DEF new, old
    <3> QED BY <2>1, <2>2, <2>4, <3>2, <3>3, <1>8 DEF new
  <2>5. CASE x # n /\ x # o
    <3>1. ExistsIn(t, A, x) /\ Entry(V, x) = Entry(t, x)
      BY <2>5, <1>5, <1>6
    <3>2. Cardinality(new) <= Cardinality(old)
      BY <2>1, <2>5, <1>10, FS_Subset
    <3> HIDE DEF new, old
    <3> QED BY <2>1, <2>2, <3>1, <3>2 DEF new
  <2> QED BY <2>3, <2>4, <2>5
<1> QED BY <1>3, <1>4, <1>5, <1>9, <1>12

LEMMA InvFrom ==
  ASSUME NEW t \in [Owner -> IodMap]
  PROVE  \A p \in Owner : /\ DOMAIN t[p] \subseteq Fd
                          /\ \A fd \in DOMAIN t[p] : t[p][fd] \in [count : Int, to : Handle \cup {Nowhere}]
<1> SUFFICES ASSUME NEW p \in Owner
             PROVE  /\ DOMAIN t[p] \subseteq Fd
                    /\ \A fd \in DOMAIN t[p] : t[p][fd] \in [count : Int, to : Handle \cup {Nowhere}]
  OBVIOUS
<1>1. t[p] \in IodMap
  OBVIOUS
<1> QED BY <1>1, TableParts DEF Descriptor

LEMMA InvParts ==
  ASSUME DescriptorsIInv
  PROVE  /\ tableOf \in [Owner -> IodMap] /\ alive \subseteq Owner /\ Root \in alive
         /\ nextFd \in [Owner -> 0 .. MaxFd + 1] /\ crossed \in BOOLEAN
         /\ \A h \in Handle : ExistsIn(tableOf, alive, h) => Entry(tableOf, h) \in Descriptor
<1>1. tableOf \in [Owner -> IodMap] /\ alive \subseteq Owner
  BY DEF DescriptorsIInv, DescriptorsTypeOK
<1>2. ASSUME NEW h \in Handle, ExistsIn(tableOf, alive, h) PROVE Entry(tableOf, h) \in Descriptor
  <2>1. h[1] \in Owner /\ h[2] \in DOMAIN tableOf[h[1]] /\ tableOf[h[1]] \in IodMap
    BY <1>1, <1>2, HandleParts DEF ExistsIn
  <2> QED BY <2>1, TableParts DEF Entry
<1> QED BY <1>1, <1>2 DEF DescriptorsIInv, DescriptorsTypeOK

\* The type part of the invariant, from the four variables.
LEMMA NewInv ==
  ASSUME tableOf' \in [Owner -> IodMap], nextFd' \in [Owner -> 0 .. MaxFd + 1],
         alive' \subseteq Owner, Root \in alive', crossed' \in BOOLEAN,
         ~crossed' => NumbersHandedOut(tableOf', alive', nextFd') /\ Covered(tableOf', alive')
  PROVE  DescriptorsIInv'
BY InvFrom DEF DescriptorsIInv, DescriptorsTypeOK

LEMMA FdNat == \A fd \in Fd : fd \in Nat /\ fd <= MaxFd
BY DescriptorAssumption DEF Fd

LEMMA OpenKeeps == ASSUME DescriptorsIInv, ~crossed, NEW p \in Owner, Open(p) PROVE DescriptorsIInv'
<1> DEFINE n == <<p, nextFd[p]>>
           V == Put(tableOf, n, Stream)
<1>1. /\ tableOf \in [Owner -> IodMap] /\ alive \subseteq Owner /\ Root \in alive
      /\ nextFd \in [Owner -> 0 .. MaxFd + 1] /\ crossed \in BOOLEAN
      /\ \A h \in Handle : ExistsIn(tableOf, alive, h) => Entry(tableOf, h) \in Descriptor
  BY InvParts
<1>2. NumbersHandedOut(tableOf, alive, nextFd) /\ Covered(tableOf, alive)
  BY DEF DescriptorsIInv
<1>3. p \in alive /\ nextFd[p] \in Fd /\ tableOf' = V /\ nextFd' = [nextFd EXCEPT ![p] = @ + 1]
      /\ UNCHANGED <<alive, crossed>>
  BY <1>1, DescriptorAssumption DEF Open, Fd
<1>4. n \in Handle /\ n[1] = p /\ n[2] = nextFd[p]
  BY <1>3, HandleParts
<1>5. Stream \in Descriptor /\ Stream.to = Nowhere /\ Stream.count = 1
  BY DEF Stream, Descriptor
<1> HIDE DEF n
<1>6. /\ V \in [Owner -> IodMap]
      /\ \A q \in Owner : DOMAIN V[q] = DOMAIN tableOf[q] \cup (IF q = n[1] THEN {n[2]} ELSE {})
      /\ Entry(V, n) = Stream
      /\ \A x \in Handle : x # n /\ x[2] \in DOMAIN tableOf[x[1]] => Entry(V, x) = Entry(tableOf, x)
  BY <1>1, <1>4, <1>5, PutTable
<1>7. ~ExistsIn(tableOf, alive, n)
  <2>1. ~(nextFd[p] < nextFd[p])
    BY <1>1
  <2> QED BY <2>1, <1>2, <1>4 DEF NumbersHandedOut
<1>8. \A x \in Handle : ExistsIn(V, alive, x) <=> ExistsIn(tableOf, alive, x) \/ x = n
  BY <1>3, <1>4, <1>6, <1>1, HandleParts DEF ExistsIn
<1>9. \A x \in Handle : ExistsIn(tableOf, alive, x) => Entry(V, x) = Entry(tableOf, x)
  BY <1>6, <1>7 DEF ExistsIn
<1> HIDE DEF V
<1>10. nextFd' \in [Owner -> 0 .. MaxFd + 1] /\ \A q \in Owner : nextFd[q] <= nextFd'[q]
  BY <1>1, <1>3, DescriptorAssumption DEF Fd
<1>11. NumbersHandedOut(V, alive, nextFd')
  <2> SUFFICES ASSUME NEW x \in Handle, ExistsIn(V, alive, x)
               PROVE  /\ x[2] < nextFd'[x[1]]
                      /\ Entry(V, x).to # Nowhere => Entry(V, x).to[2] < nextFd'[Entry(V, x).to[1]]
    BY DEF NumbersHandedOut
  <2>1. CASE x = n
    BY <2>1, <1>1, <1>3, <1>4, <1>5, <1>6
  <2>2. CASE x # n
    <3>1. ExistsIn(tableOf, alive, x) /\ Entry(V, x) = Entry(tableOf, x) /\ Entry(tableOf, x) \in Descriptor
      BY <2>2, <1>1, <1>8, <1>9
    <3>2. /\ x[2] < nextFd[x[1]]
          /\ Entry(V, x).to # Nowhere => Entry(V, x).to[2] < nextFd[Entry(V, x).to[1]]
      BY <3>1, <1>2 DEF NumbersHandedOut
    <3>3. Entry(V, x).to \in Handle \cup {Nowhere}
      BY <3>1 DEF Descriptor
    <3> HIDE DEF NumbersHandedOut
    <3>4. x[1] \in Owner /\ x[2] \in Nat
      BY HandleParts, FdNat
    <3>5. Entry(V, x).to # Nowhere => Entry(V, x).to[1] \in Owner /\ Entry(V, x).to[2] \in Nat
      BY <3>3, HandleParts, FdNat
    <3>6. \A q \in Owner : nextFd[q] \in Nat /\ nextFd'[q] \in Nat
      BY <1>1, <1>10
    <3> QED BY <3>2, <3>4, <3>5, <3>6, <1>10
  <2> QED BY <2>1, <2>2
<1>12. \A x \in Handle : RedirectsIn(V, alive, x) \subseteq RedirectsIn(tableOf, alive, x)
  <2> SUFFICES ASSUME NEW x \in Handle, NEW y \in Handle, ExistsIn(V, alive, y), Entry(V, y).to = x
               PROVE  ExistsIn(tableOf, alive, y) /\ Entry(tableOf, y).to = x
    BY DEF RedirectsIn
  <2>1. y # n
    BY <1>5, <1>6, HandleParts
  <2> QED BY <2>1, <1>8, <1>9
<1>13. RedirectsIn(tableOf, alive, n) = {}
  <2> SUFFICES ASSUME NEW y \in Handle, ExistsIn(tableOf, alive, y), Entry(tableOf, y).to = n PROVE FALSE
    BY DEF RedirectsIn
  <2>1. n[2] < nextFd[n[1]]
    BY <1>2, <1>4, HandleParts DEF NumbersHandedOut
  <2> QED BY <2>1, <1>1, <1>4
<1>14. Covered(V, alive)
  <2> SUFFICES ASSUME NEW x \in Handle, ExistsIn(V, alive, x)
               PROVE  Entry(V, x).count >= 1 + Cardinality(RedirectsIn(V, alive, x))
    BY DEF Covered
  <2>1. CASE x = n
    <3>1. RedirectsIn(V, alive, x) = {}
      BY <2>1, <1>12, <1>13
    <3>2. Cardinality(RedirectsIn(V, alive, x)) = 0
      BY <3>1, FS_EmptySet
    <3> QED BY <2>1, <3>2, <1>5, <1>6
  <2>2. CASE x # n
    <3>1. ExistsIn(tableOf, alive, x) /\ Entry(V, x) = Entry(tableOf, x) /\ Entry(tableOf, x).count \in Int
      BY <2>2, <1>1, <1>8, <1>9 DEF Descriptor
    <3>2. Entry(V, x).count >= 1 + Cardinality(RedirectsIn(tableOf, alive, x))
      BY <3>1, <1>2 DEF Covered
    <3>3. Cardinality(RedirectsIn(V, alive, x)) <= Cardinality(RedirectsIn(tableOf, alive, x))
      BY <1>12, RedirectsFinite, FS_Subset
    <3> QED BY <3>1, <3>2, <3>3, RedirectsFinite
  <2> QED BY <2>1, <2>2
<1> QED BY <1>1, <1>3, <1>6, <1>10, <1>11, <1>14, NewInv

LEMMA CloseKeeps ==
  ASSUME DescriptorsIInv, ~crossed, NEW h \in Handle, Close(h)
  PROVE  DescriptorsIInv'
<1>1. /\ tableOf \in [Owner -> IodMap] /\ alive \subseteq Owner /\ Root \in alive
      /\ nextFd \in [Owner -> 0 .. MaxFd + 1] /\ crossed \in BOOLEAN
      /\ \A x \in Handle : ExistsIn(tableOf, alive, x) => Entry(tableOf, x) \in Descriptor
  BY InvParts
<1>2. /\ h[1] \in alive /\ Closable(h) /\ Exists(h)
      /\ crossed' = (crossed \/ Crosses(h))
      /\ UNCHANGED <<nextFd, alive>>
  BY DEF Close, Closable
<1>3. crossed' \in BOOLEAN
  BY <1>1, <1>2 DEF Crosses
<1>4. CASE Breaks(h)
  <2>1. crossed'
    BY <1>2, <1>4 DEF Breaks, Crosses, Redirects
  <2>2. h[1] \in Owner /\ h[2] \in DOMAIN tableOf[h[1]]
    BY <1>1, <1>2 DEF Exists
  <2>3. tableOf' = Count(tableOf, h, -1) /\ tableOf' \in [Owner -> IodMap]
    <3>1. tableOf' = Count(tableOf, h, -1)
      BY <1>4 DEF Close
    <3>2. Count(tableOf, h, -1) \in [Owner -> IodMap]
      BY <1>1, <2>2, CountTable
    <3> QED BY <3>1, <3>2
  <2> QED BY <2>1, <2>3, <1>1, <1>2, <1>3, NewInv
<1>5. CASE ~Breaks(h)
  <2>1. tableOf' = Freed(h)
    BY <1>5 DEF Close
  <2>2. tableOf' \in [Owner -> IodMap]
    BY <2>1, <1>2, <1>5, FreedType
  <2>3. ASSUME ~crossed' PROVE NumbersHandedOut(tableOf', alive', nextFd') /\ Covered(tableOf', alive')
    <3>1. ~Crosses(h)
      BY <2>3, <1>2
    <3>2. /\ \A x \in Handle : ExistsIn(tableOf', alive, x) => ExistsIn(tableOf, alive, x)
          /\ \A x \in Handle : ExistsIn(tableOf', alive, x) => Entry(tableOf', x).to = Entry(tableOf, x).to
          /\ Covered(tableOf', alive)
      BY <2>1, <1>2, <3>1, FreedSafely
    <3>3. NumbersHandedOut(tableOf, alive, nextFd)
      BY DEF DescriptorsIInv
    <3>4. NumbersHandedOut(tableOf', alive, nextFd)
      BY <3>2, <3>3 DEF NumbersHandedOut
    <3> QED BY <1>2, <3>2, <3>4
  <2> QED BY <2>2, <2>3, <1>1, <1>2, <1>3, NewInv
<1> QED BY <1>4, <1>5

LEMMA Dup2Keeps ==
  ASSUME DescriptorsIInv, ~crossed, NEW p \in Owner, NEW old \in Fd, NEW new \in Fd, Dup2(p, old, new)
  PROVE  DescriptorsIInv'
<1> DEFINE o == <<p, old>>
           n == <<p, new>>
<1>1. /\ tableOf \in [Owner -> IodMap] /\ alive \subseteq Owner /\ Root \in alive
      /\ nextFd \in [Owner -> 0 .. MaxFd + 1] /\ crossed \in BOOLEAN
      /\ \A x \in Handle : ExistsIn(tableOf, alive, x) => Entry(tableOf, x) \in Descriptor
  BY InvParts
<1>2. o \in Handle /\ n \in Handle /\ o[1] = p /\ n[1] = p /\ o[2] = old /\ n[2] = new
  BY HandleParts
<1>3. /\ p \in alive /\ Exists(o) /\ Closable(n) /\ Exists(n) /\ ~Breaks(n)
      /\ crossed' = (crossed \/ Crosses(n))
      /\ UNCHANGED <<nextFd, alive>>
  BY DEF Dup2, Closable
<1>4. crossed' \in BOOLEAN
  BY <1>1, <1>3 DEF Crosses
<1>5. o = n <=> old = new
  OBVIOUS
<1>6. tableOf' = IF old = new THEN Freed(n) ELSE Put(Count(Freed(n), o, 1), n, RedirectTo(o))
  BY DEF Dup2
<1> HIDE DEF o, n
<1>7. /\ Freed(n) \in [Owner -> IodMap]
      /\ \A q \in Owner : DOMAIN Freed(n)[q] = DOMAIN tableOf[q] \ (IF q = n[1] THEN {n[2]} ELSE {})
  BY <1>2, <1>3, FreedType
<1>8. NumbersHandedOut(tableOf, alive, nextFd)
  BY DEF DescriptorsIInv
<1>9. ~crossed' =>
        /\ \A x \in Handle : ExistsIn(Freed(n), alive, x) <=> ExistsIn(tableOf, alive, x) /\ x # n
        /\ \A x \in Handle : ExistsIn(Freed(n), alive, x) => Entry(Freed(n), x).to = Entry(tableOf, x).to
        /\ Covered(Freed(n), alive)
        /\ RedirectsIn(Freed(n), alive, n) = {}
  BY <1>2, <1>3, FreedSafely
<1>10. CASE old = new
  <2>1. tableOf' = Freed(n)
    BY <1>6, <1>10
  <2>2. ~crossed' => NumbersHandedOut(Freed(n), alive, nextFd)
    BY <1>8, <1>9 DEF NumbersHandedOut
  <2> QED BY <2>1, <2>2, <1>1, <1>3, <1>4, <1>7, <1>9, NewInv
<1>11. CASE old # new
  <2> DEFINE V == Put(Count(Freed(n), o, 1), n, RedirectTo(o))
  <2>1. tableOf' = V
    BY <1>6, <1>11
  <2>2. o[1] \in Owner /\ o[2] \in DOMAIN Freed(n)[o[1]] /\ ExistsIn(tableOf, alive, o) /\ o # n
    BY <1>1, <1>2, <1>3, <1>5, <1>7, <1>11 DEF Exists, ExistsIn
  <2>3. Count(Freed(n), o, 1) \in [Owner -> IodMap]
    BY <1>7, <2>2, CountTable
  <2>4. RedirectTo(o) \in Descriptor
    BY <1>2 DEF RedirectTo, Descriptor
  <2>5. V \in [Owner -> IodMap]
    BY <2>3, <2>4, <1>2, PutTable
  <2> HIDE DEF V
  <2>6. ASSUME ~crossed' PROVE NumbersHandedOut(V, alive, nextFd) /\ Covered(V, alive)
    <3>1. /\ \A x \in Handle : ExistsIn(Freed(n), alive, x) <=> ExistsIn(tableOf, alive, x) /\ x # n
          /\ \A x \in Handle : ExistsIn(Freed(n), alive, x) => Entry(Freed(n), x).to = Entry(tableOf, x).to
          /\ Covered(Freed(n), alive)
          /\ RedirectsIn(Freed(n), alive, n) = {}
      BY <1>9, <2>6
    <3>2. ExistsIn(Freed(n), alive, o) /\ ~ExistsIn(Freed(n), alive, n)
      BY <1>2, <2>2, <3>1
    <3>3. /\ Covered(V, alive)
          /\ \A x \in Handle : ExistsIn(V, alive, x) <=> ExistsIn(Freed(n), alive, x) \/ x = n
          /\ \A x \in Handle : ExistsIn(Freed(n), alive, x) => Entry(V, x).to = Entry(Freed(n), x).to
          /\ Entry(V, n).to = o
      BY <1>1, <1>2, <1>3, <1>7, <3>1, <3>2, RedirectCovers DEF V
    <3>4. ExistsIn(tableOf, alive, n)
      BY <1>3 DEF Exists, ExistsIn
    <3>5. NumbersHandedOut(V, alive, nextFd)
      <4> SUFFICES ASSUME NEW x \in Handle, ExistsIn(V, alive, x)
                   PROVE  /\ x[2] < nextFd[x[1]]
                          /\ Entry(V, x).to # Nowhere => Entry(V, x).to[2] < nextFd[Entry(V, x).to[1]]
        BY DEF NumbersHandedOut
      <4>1. CASE x = n
        BY <4>1, <1>2, <1>8, <3>3, <3>4, <2>2 DEF NumbersHandedOut
      <4>2. CASE x # n
        <5>1. ExistsIn(tableOf, alive, x) /\ Entry(V, x).to = Entry(tableOf, x).to
          BY <4>2, <3>1, <3>3
        <5> QED BY <5>1, <1>8 DEF NumbersHandedOut
      <4> QED BY <4>1, <4>2
    <3> QED BY <3>3, <3>5
  <2> QED BY <2>1, <2>5, <2>6, <1>1, <1>3, <1>4, NewInv
<1> QED BY <1>10, <1>11

LEMMA StartProcessKeeps ==
  ASSUME DescriptorsIInv, ~crossed, NEW p \in Owner, NEW c \in User, StartProcess(p, c)
  PROVE  DescriptorsIInv'
<1> DEFINE I == Inherited(p)
           f == [fd \in DOMAIN tableOf[p] |->
                    IF fd \in I THEN [tableOf[p][fd] EXCEPT !.count = @ + 1] ELSE tableOf[p][fd]]
           C == [tableOf EXCEPT ![p] = f]
           g == [fd \in I |-> RedirectTo(<<p, fd>>)]
           V == [C EXCEPT ![c] = g]
<1>1. /\ tableOf \in [Owner -> IodMap] /\ alive \subseteq Owner /\ Root \in alive
      /\ nextFd \in [Owner -> 0 .. MaxFd + 1] /\ crossed \in BOOLEAN
      /\ \A x \in Handle : ExistsIn(tableOf, alive, x) => Entry(tableOf, x) \in Descriptor
  BY InvParts
<1>2. NumbersHandedOut(tableOf, alive, nextFd) /\ Covered(tableOf, alive)
  BY DEF DescriptorsIInv
<1>3. /\ p \in alive /\ c \in Owner \ alive /\ nextFd[c] = 0 /\ c # p
      /\ nextFd' = [nextFd EXCEPT ![c] = 3]
      /\ IF Cardinality(I) = 3 THEN alive' = alive \cup {c} /\ tableOf' = V
                               ELSE tableOf' = C /\ alive' = alive
      /\ crossed' = crossed
  BY DEF StartProcess, Owner
<1>4. I \subseteq DOMAIN tableOf[p] /\ I \subseteq {STDIN, STDOUT, STDERR} /\ tableOf[p] \in IodMap
  <2>1. \A fd \in I : fd \in {STDIN, STDOUT, STDERR} /\ \A lower \in 0 .. fd : lower \in DOMAIN tableOf[p]
    BY DEF Inherited
  <2>2. \A fd \in {STDIN, STDOUT, STDERR} : fd \in 0 .. fd
    BY DEF STDIN, STDOUT, STDERR
  <2> QED BY <2>1, <2>2, <1>1
<1>5. I \subseteq Fd /\ \A fd \in I : fd \in Fd /\ fd < 3
  BY <1>4, DescriptorAssumption DEF STDIN, STDOUT, STDERR, Fd
<1> HIDE DEF I
<1>6. DOMAIN tableOf[p] \in SUBSET Fd /\ \A fd \in DOMAIN tableOf[p] : tableOf[p][fd] \in Descriptor
  BY <1>4, TableParts
<1>7. f \in IodMap /\ DOMAIN f = DOMAIN tableOf[p]
  <2>1. \A fd \in DOMAIN tableOf[p] : f[fd] \in Descriptor
    BY <1>6 DEF Descriptor
  <2>2. f \in [DOMAIN tableOf[p] -> Descriptor]
    BY <2>1
  <2> QED BY <2>2, <1>6, IntoTable
<1>8. \A fd \in DOMAIN tableOf[p] :
         /\ f[fd].to = tableOf[p][fd].to
         /\ f[fd].count = IF fd \in I THEN tableOf[p][fd].count + 1 ELSE tableOf[p][fd].count
  BY <1>6 DEF Descriptor
<1>9. g \in IodMap /\ DOMAIN g = I /\ \A fd \in I : g[fd].to = <<p, fd>> /\ g[fd].count = 1
  <2>1. \A fd \in I : RedirectTo(<<p, fd>>) \in Descriptor
    BY <1>5, HandleParts DEF RedirectTo, Descriptor
  <2>2. g \in [I -> Descriptor]
    BY <2>1
  <2> QED BY <2>2, <1>5, IntoTable DEF RedirectTo
<1> HIDE DEF f, g
<1>10. /\ C \in [Owner -> IodMap] /\ C[p] = f
       /\ \A q \in Owner : DOMAIN C[q] = DOMAIN tableOf[q] /\ (q # p => C[q] = tableOf[q])
  BY <1>1, <1>7
<1>11. /\ V \in [Owner -> IodMap] /\ V[c] = g
       /\ \A q \in Owner : q # c => V[q] = C[q]
  BY <1>3, <1>9, <1>10
<1> HIDE DEF C, V
<1>12. nextFd' \in [Owner -> 0 .. MaxFd + 1] /\ \A q \in Owner : nextFd[q] <= nextFd'[q] /\ nextFd[q] \in Nat
                                                              /\ nextFd'[q] \in Nat
  <2>1. 3 \in 0 .. MaxFd + 1
    BY DescriptorAssumption
  <2> QED BY <2>1, <1>1, <1>3, DescriptorAssumption
\* The processes that were there keep their redirects; what the new one redirects to counts it.
<1>13. ASSUME NEW x \in Handle, ExistsIn(tableOf, alive, x)
       PROVE  /\ Entry(C, x).to = Entry(tableOf, x).to /\ Entry(tableOf, x).count \in Int
              /\ Entry(C, x).count = IF x[1] = p /\ x[2] \in I THEN Entry(tableOf, x).count + 1
                                                               ELSE Entry(tableOf, x).count
              /\ x[1] # c /\ Entry(V, x) = Entry(C, x)
  <2>1. x[1] \in Owner /\ x[2] \in DOMAIN tableOf[x[1]] /\ x[1] # c
    BY <1>3, <1>13, HandleParts DEF ExistsIn
  <2>2. Entry(tableOf, x).count \in Int
    BY <1>1, <1>13 DEF Descriptor
  <2>3. Entry(V, x) = Entry(C, x)
    BY <2>1, <1>11 DEF Entry
  <2>4. CASE x[1] = p
    BY <2>1, <2>2, <2>3, <2>4, <1>8, <1>10 DEF Entry
  <2>5. CASE x[1] # p
    BY <2>1, <2>2, <2>3, <2>5, <1>10 DEF Entry
  <2> QED BY <2>4, <2>5
<1>14. ASSUME NEW x \in Handle, ExistsIn(tableOf, alive, x)
       PROVE  /\ x[2] < nextFd'[x[1]]
              /\ Entry(tableOf, x).to # Nowhere => Entry(tableOf, x).to[2] < nextFd'[Entry(tableOf, x).to[1]]
              /\ Entry(tableOf, x).to # Nowhere => Entry(tableOf, x).to[1] # c
  <2>1. /\ x[2] < nextFd[x[1]]
        /\ Entry(tableOf, x).to # Nowhere => Entry(tableOf, x).to[2] < nextFd[Entry(tableOf, x).to[1]]
    BY <1>2, <1>14 DEF NumbersHandedOut
  <2>2. Entry(tableOf, x).to \in Handle \cup {Nowhere}
    BY <1>1, <1>14 DEF Descriptor
  <2>3. x[1] \in Owner /\ x[2] \in Nat
    BY HandleParts, FdNat
  <2>4. Entry(tableOf, x).to # Nowhere => Entry(tableOf, x).to[1] \in Owner /\ Entry(tableOf, x).to[2] \in Nat
    BY <2>2, HandleParts, FdNat
  <2> QED BY <2>1, <2>3, <2>4, <1>3, <1>12
<1>15. CASE Cardinality(I) # 3
  <2>1. alive' = alive /\ tableOf' = C
    BY <1>3, <1>15
  <2>2. \A x \in Handle : ExistsIn(C, alive, x) <=> ExistsIn(tableOf, alive, x)
    BY <1>1, <1>10 DEF ExistsIn
  <2>3. NumbersHandedOut(C, alive, nextFd')
    BY <2>2, <1>13, <1>14 DEF NumbersHandedOut
  <2>4. \A x \in Handle : RedirectsIn(C, alive, x) = RedirectsIn(tableOf, alive, x)
    BY <2>2, <1>13 DEF RedirectsIn
  <2>5. Covered(C, alive)
    <3> SUFFICES ASSUME NEW x \in Handle, ExistsIn(C, alive, x)
                 PROVE  Entry(C, x).count >= 1 + Cardinality(RedirectsIn(C, alive, x))
      BY DEF Covered
    <3>1. Entry(tableOf, x).count >= 1 + Cardinality(RedirectsIn(tableOf, alive, x))
      BY <2>2, <1>2 DEF Covered
    <3>2. RedirectsIn(C, alive, x) = RedirectsIn(tableOf, alive, x)
      BY <2>4
    <3> QED BY <3>1, <3>2, <2>2, <1>13, RedirectsFinite
  <2> QED BY <2>1, <2>3, <2>5, <1>1, <1>3, <1>10, <1>12, NewInv
<1>16. CASE Cardinality(I) = 3
  <2>1. alive' = alive \cup {c} /\ tableOf' = V
    BY <1>3, <1>16
  <2>2. ASSUME NEW x \in Handle, ExistsIn(V, alive', x)
        PROVE  \/ ExistsIn(tableOf, alive, x) /\ x[1] # c
               \/ /\ x[1] = c /\ x[2] \in I /\ x = <<c, x[2]>>
                  /\ Entry(V, x).to = <<p, x[2]>> /\ Entry(V, x).count = 1
    <3>1. x[1] \in Owner /\ x[2] \in DOMAIN V[x[1]] /\ x[1] \in alive \cup {c} /\ x = <<x[1], x[2]>>
      BY <2>1, <2>2, <1>1, <1>3, HandleParts DEF ExistsIn
    <3>2. CASE x[1] # c
      BY <3>1, <3>2, <1>10, <1>11 DEF ExistsIn
    <3>3. CASE x[1] = c
      BY <3>1, <3>3, <1>9, <1>11 DEF Entry
    <3> QED BY <3>2, <3>3
  <2>3. NumbersHandedOut(V, alive', nextFd')
    <3> SUFFICES ASSUME NEW x \in Handle, ExistsIn(V, alive', x)
                 PROVE  /\ x[2] < nextFd'[x[1]]
                        /\ Entry(V, x).to # Nowhere => Entry(V, x).to[2] < nextFd'[Entry(V, x).to[1]]
      BY DEF NumbersHandedOut
    <3>1. CASE ExistsIn(tableOf, alive, x)
      BY <3>1, <1>13, <1>14
    <3>2. CASE x[1] = c /\ x[2] \in I /\ Entry(V, x).to = <<p, x[2]>>
      <4>1. nextFd'[c] = 3 /\ x[2] < 3
        BY <3>2, <1>1, <1>3, <1>5
      <4>2. <<p, x[2]>> \in Handle /\ ExistsIn(tableOf, alive, <<p, x[2]>>)
        BY <3>2, <1>3, <1>4, <1>5, HandleParts DEF ExistsIn
      <4>3. x[2] < nextFd'[p]
        BY <4>2, <1>14
      <4> QED BY <3>2, <4>1, <4>3
    <3> QED BY <2>2, <3>1, <3>2
  <2>4. ASSUME NEW x \in Handle, NEW y \in RedirectsIn(V, alive', x)
        PROVE  /\ x[1] # c
               /\ y \in RedirectsIn(tableOf, alive, x) \/ (x[1] = p /\ x[2] \in I /\ y = <<c, x[2]>>)
    <3>1. y \in Handle /\ ExistsIn(V, alive', y) /\ Entry(V, y).to = x
      BY <2>4 DEF RedirectsIn
    <3>2. CASE ExistsIn(tableOf, alive, y) /\ y[1] # c
      <4>1. Entry(tableOf, y).to = x
        BY <3>1, <3>2, <1>13
      <4> QED BY <3>1, <3>2, <4>1, <1>14, HandleParts DEF RedirectsIn
    <3>3. CASE y[1] = c /\ y[2] \in I /\ y = <<c, y[2]>> /\ Entry(V, y).to = <<p, y[2]>>
      BY <3>1, <3>3, <1>3
    <3> QED BY <2>2, <3>1, <3>2, <3>3
  <2>5. Covered(V, alive')
    <3> SUFFICES ASSUME NEW x \in Handle, ExistsIn(V, alive', x)
                 PROVE  Entry(V, x).count >= 1 + Cardinality(RedirectsIn(V, alive', x))
      BY DEF Covered
    <3> DEFINE old == RedirectsIn(tableOf, alive, x)
               new == RedirectsIn(V, alive', x)
               y == <<c, x[2]>>
    <3>1. IsFiniteSet(old) /\ Cardinality(old) \in Nat /\ Cardinality(new) \in Nat
      BY RedirectsFinite
    <3>2. CASE x[1] = c
      <4>1. new = {}
        BY <3>2, <2>4
      <4>2. Cardinality(new) = 0
        BY <4>1, FS_EmptySet
      <4>3. Entry(V, x).count = 1
        BY <3>2, <2>2
      <4> QED BY <4>2, <4>3
    <3>3. CASE x[1] # c
      <4>1. ExistsIn(tableOf, alive, x)
        BY <3>3, <2>2
      <4>2. Entry(tableOf, x).count >= 1 + Cardinality(old) /\ Entry(tableOf, x).count \in Int
        BY <4>1, <1>2, <1>13 DEF Covered
      <4>3. CASE x[1] = p /\ x[2] \in I
        <5>1. Entry(V, x).count = Entry(tableOf, x).count + 1
          BY <4>1, <4>3, <1>13
        <5>2. new \subseteq old \cup {y}
          BY <2>4
        <5>3. /\ IsFiniteSet(old \cup {y})
              /\ Cardinality(old \cup {y}) = IF y \in old THEN Cardinality(old) ELSE Cardinality(old) + 1
          BY <3>1, FS_AddElement
        <5>4. Cardinality(new) <= Cardinality(old \cup {y})
          BY <5>2, <5>3, FS_Subset
        <5> HIDE DEF old, new, y
        <5> QED BY <5>1, <5>3, <5>4, <4>2, <3>1 DEF new
      <4>4. CASE ~(x[1] = p /\ x[2] \in I)
        <5>1. Entry(V, x).count = Entry(tableOf, x).count
          BY <4>1, <4>4, <1>13
        <5>2. new \subseteq old
          BY <4>4, <2>4
        <5>3. Cardinality(new) <= Cardinality(old)
          BY <5>2, <3>1, FS_Subset
        <5> HIDE DEF old, new, y
        <5> QED BY <5>1, <5>3, <4>2, <3>1 DEF new
      <4> QED BY <4>3, <4>4
    <3> QED BY <3>2, <3>3
  <2>6. alive' \subseteq Owner /\ Root \in alive'
    BY <2>1, <1>1, <1>3
  <2> QED BY <2>1, <2>3, <2>5, <2>6, <1>1, <1>3, <1>11, <1>12, NewInv
<1> QED BY <1>15, <1>16

LEMMA SetupAsTtyKeeps ==
  ASSUME DescriptorsIInv, NEW p \in Owner, SetupAsTty(p)
  PROVE  DescriptorsIInv'
<1>1. /\ tableOf \in [Owner -> IodMap] /\ alive \subseteq Owner /\ Root \in alive
      /\ nextFd \in [Owner -> 0 .. MaxFd + 1]
  BY InvParts
<1>2. <<p, STDIN>> \in Handle /\ <<p, STDOUT>> \in Handle /\ Stream \in Descriptor
  BY HandleParts, DescriptorAssumption DEF STDIN, STDOUT, Fd, Stream, Descriptor
<1>3. Put(tableOf, <<p, STDIN>>, Stream) \in [Owner -> IodMap]
  BY <1>1, <1>2, PutTable
<1>4. Put(Put(tableOf, <<p, STDIN>>, Stream), <<p, STDOUT>>, Stream) \in [Owner -> IodMap]
  BY <1>2, <1>3, PutTable
<1> QED BY <1>1, <1>4, NewInv DEF SetupAsTty

LEMMA ExitProcessKeeps ==
  ASSUME DescriptorsIInv, NEW p \in Owner, ExitProcess(p)
  PROVE  DescriptorsIInv'
<1> DEFINE e == [fd \in {} |-> Stream]
           V == [tableOf EXCEPT ![p] = e]
<1>1. /\ tableOf \in [Owner -> IodMap] /\ alive \subseteq Owner /\ Root \in alive
      /\ nextFd \in [Owner -> 0 .. MaxFd + 1] /\ crossed \in BOOLEAN
      /\ \A x \in Handle : ExistsIn(tableOf, alive, x) => Entry(tableOf, x) \in Descriptor
  BY InvParts
<1>2. /\ p \in alive /\ p \in User /\ alive' = alive \ {p} /\ tableOf' = V
      /\ UNCHANGED <<nextFd, crossed>>
  BY DEF ExitProcess
<1>3. Root \in alive'
  BY <1>1, <1>2, DescriptorAssumption
<1>4. e \in IodMap
  <2>1. e \in [{} -> Descriptor]
    OBVIOUS
  <2> QED BY <2>1, IntoTable
<1> HIDE DEF e
<1>5. V \in [Owner -> IodMap] /\ \A q \in Owner : q # p => V[q] = tableOf[q]
  BY <1>1, <1>4
<1> HIDE DEF V
<1>6. ASSUME NEW x \in Handle, ExistsIn(V, alive', x)
      PROVE  ExistsIn(tableOf, alive, x) /\ Entry(V, x) = Entry(tableOf, x)
  <2>1. x[1] # p /\ x[1] \in alive /\ V[x[1]] = tableOf[x[1]]
    BY <1>2, <1>5, <1>6, HandleParts DEF ExistsIn
  <2> QED BY <2>1, <1>6 DEF ExistsIn, Entry
<1>7. ASSUME ~crossed PROVE NumbersHandedOut(V, alive', nextFd) /\ Covered(V, alive')
  <2>1. NumbersHandedOut(tableOf, alive, nextFd) /\ Covered(tableOf, alive)
    BY <1>7 DEF DescriptorsIInv
  <2>2. NumbersHandedOut(V, alive', nextFd)
    BY <2>1, <1>6 DEF NumbersHandedOut
  <2>3. Covered(V, alive')
    <3> SUFFICES ASSUME NEW x \in Handle, ExistsIn(V, alive', x)
                 PROVE  Entry(V, x).count >= 1 + Cardinality(RedirectsIn(V, alive', x))
      BY DEF Covered
    <3>1. Entry(tableOf, x).count >= 1 + Cardinality(RedirectsIn(tableOf, alive, x))
          /\ Entry(tableOf, x).count \in Int /\ Entry(V, x) = Entry(tableOf, x)
      BY <2>1, <1>1, <1>6 DEF Covered, Descriptor
    <3>2. RedirectsIn(V, alive', x) \subseteq RedirectsIn(tableOf, alive, x)
      BY <1>6 DEF RedirectsIn
    <3>3. Cardinality(RedirectsIn(V, alive', x)) <= Cardinality(RedirectsIn(tableOf, alive, x))
      BY <3>2, RedirectsFinite, FS_Subset
    <3> QED BY <3>1, <3>3, RedirectsFinite
  <2> QED BY <2>2, <2>3
<1> QED BY <1>1, <1>2, <1>3, <1>5, <1>7, NewInv

LEMMA InitDescriptors == DescriptorsInit => DescriptorsIInv
<1> SUFFICES ASSUME DescriptorsInit PROVE DescriptorsIInv
  OBVIOUS
<1> DEFINE e == [fd \in {} |-> Stream]
<1>1. /\ tableOf = [p \in Owner |-> IF p = Root THEN RootTable ELSE e]
      /\ nextFd = [p \in Owner |-> IF p = Root THEN 3 ELSE 0]
      /\ alive = {Root} /\ crossed = FALSE
  BY DEF DescriptorsInit
<1>2. e \in IodMap
  <2>1. e \in [{} -> Descriptor]
    OBVIOUS
  <2> QED BY <2>1, IntoTable
<1> HIDE DEF e
<1>3. Root \in Owner /\ STDIN = 0 /\ STDOUT = 1 /\ STDERR = 2 /\ {STDIN, STDOUT, STDERR} \in SUBSET Fd
      /\ \A fd \in {STDIN, STDOUT, STDERR} : fd < 3
  BY DescriptorAssumption DEF Owner, STDIN, STDOUT, STDERR, Fd
<1>4. /\ RootTable[STDIN] = Stream /\ RootTable[STDOUT] = [Stream EXCEPT !.count = 2]
      /\ RootTable[STDERR] = RedirectTo(<<Root, STDOUT>>) /\ DOMAIN RootTable = {STDIN, STDOUT, STDERR}
  BY <1>3 DEF RootTable
<1>5. /\ Stream \in Descriptor /\ Stream.count = 1 /\ Stream.to = Nowhere
      /\ [Stream EXCEPT !.count = 2] \in Descriptor
      /\ [Stream EXCEPT !.count = 2].count = 2 /\ [Stream EXCEPT !.count = 2].to = Nowhere
  BY DEF Stream, Descriptor
<1>6. RedirectTo(<<Root, STDOUT>>) \in Descriptor /\ RedirectTo(<<Root, STDOUT>>).count = 1
      /\ RedirectTo(<<Root, STDOUT>>).to = <<Root, STDOUT>>
  BY <1>3, HandleParts DEF RedirectTo, Descriptor
<1>7. RootTable \in IodMap
  <2>1. \A fd \in {STDIN, STDOUT, STDERR} : RootTable[fd] \in Descriptor
    BY <1>4, <1>5, <1>6
  <2>2. RootTable = [fd \in {STDIN, STDOUT, STDERR} |-> RootTable[fd]]
    BY <1>4 DEF RootTable
  <2>3. RootTable \in [{STDIN, STDOUT, STDERR} -> Descriptor]
    BY <2>1, <2>2
  <2> QED BY <2>3, <1>3, IntoTable
<1>8. tableOf \in [Owner -> IodMap] /\ tableOf[Root] = RootTable
  BY <1>1, <1>2, <1>3, <1>7
<1>9. ASSUME NEW x \in Handle, ExistsIn(tableOf, alive, x)
      PROVE  /\ x[1] = Root /\ x[2] \in {STDIN, STDOUT, STDERR} /\ x = <<Root, x[2]>>
             /\ Entry(tableOf, x) = RootTable[x[2]]
  BY <1>9, <1>1, <1>4, <1>8, HandleParts DEF ExistsIn, Entry
<1>10. ASSUME NEW x \in Handle, ExistsIn(tableOf, alive, x)
       PROVE  /\ Entry(tableOf, x).count = IF x[2] = STDOUT THEN 2 ELSE 1
              /\ Entry(tableOf, x).to = IF x[2] = STDERR THEN <<Root, STDOUT>> ELSE Nowhere
  BY ZenonT(40), <1>9, <1>10, <1>3, <1>4, <1>5, <1>6
<1>11. nextFd \in [Owner -> 0 .. MaxFd + 1] /\ nextFd[Root] = 3
  <2>1. 3 \in 0 .. MaxFd + 1 /\ 0 \in 0 .. MaxFd + 1
    BY DescriptorAssumption
  <2> QED BY <2>1, <1>1, <1>3
<1>12. NumbersHandedOut(tableOf, alive, nextFd)
  <2> SUFFICES ASSUME NEW x \in Handle, ExistsIn(tableOf, alive, x)
               PROVE  /\ x[2] < nextFd[x[1]]
                      /\ Entry(tableOf, x).to # Nowhere
                           => Entry(tableOf, x).to[2] < nextFd[Entry(tableOf, x).to[1]]
    BY DEF NumbersHandedOut
  <2> QED BY <1>3, <1>9, <1>10, <1>11
<1>13. Covered(tableOf, alive)
  <2> SUFFICES ASSUME NEW x \in Handle, ExistsIn(tableOf, alive, x)
               PROVE  Entry(tableOf, x).count >= 1 + Cardinality(RedirectsIn(tableOf, alive, x))
    BY DEF Covered
  <2> DEFINE R == RedirectsIn(tableOf, alive, x)
  <2>1. \A y \in R : y = <<Root, STDERR>> /\ x = <<Root, STDOUT>>
    BY <1>9, <1>10, HandleParts DEF RedirectsIn
  <2>2. CASE x = <<Root, STDOUT>>
    <3>1. R \subseteq {<<Root, STDERR>>}
      BY <2>1
    <3>2. IsFiniteSet({<<Root, STDERR>>}) /\ Cardinality({<<Root, STDERR>>}) = 1
      BY FS_Singleton
    <3>3. Cardinality(R) <= 1 /\ Cardinality(R) \in Nat
      BY <3>1, <3>2, FS_Subset, RedirectsFinite
    <3>4. Entry(tableOf, x).count = 2
      BY <2>2, <1>10
    <3> QED BY <3>3, <3>4
  <2>3. CASE x # <<Root, STDOUT>>
    <3>1. R = {}
      BY <2>1, <2>3
    <3>2. Cardinality(R) = 0
      BY <3>1, FS_EmptySet
    <3>3. Entry(tableOf, x).count >= 1
      BY <1>10
    <3> QED BY <3>2, <3>3
  <2> QED BY <2>2, <2>3
<1>14. DescriptorsTypeOK
  BY <1>1, <1>3, <1>8, <1>11, InvFrom DEF DescriptorsTypeOK
<1> QED BY <1>8, <1>12, <1>13, <1>14 DEF DescriptorsIInv

LEMMA NextDescriptors == DescriptorsIInv /\ [DescriptorsNext]_descriptorVars => DescriptorsIInv'
<1> SUFFICES ASSUME DescriptorsIInv, [DescriptorsNext]_descriptorVars PROVE DescriptorsIInv'
  OBVIOUS
<1>1. CASE UNCHANGED descriptorVars
  BY <1>1 DEF descriptorVars, DescriptorsIInv, DescriptorsTypeOK, NumbersHandedOut, Covered, RedirectsIn,
              ExistsIn, Entry
<1>2. ASSUME ~crossed, NEW p \in Owner, DescriptorCalls(p) PROVE DescriptorsIInv'
  <2>1. \A fd \in Fd : <<p, fd>> \in Handle
    BY HandleParts
  <2>2. CASE Open(p)
    BY <1>2, <2>2, OpenKeeps
  <2>3. CASE \E c \in User : StartProcess(p, c)
    BY <1>2, <2>3, StartProcessKeeps
  <2>4. CASE \E fd \in Fd : Close(<<p, fd>>)
    BY <1>2, <2>1, <2>4, CloseKeeps
  <2>5. CASE \E old, new \in Fd : Dup2(p, old, new)
    BY <1>2, <2>5, Dup2Keeps
  <2>6. CASE SetupAsTty(p)
    BY <2>6, SetupAsTtyKeeps
  <2>7. CASE ExitProcess(p)
    BY <2>7, ExitProcessKeeps
  <2> QED BY <1>2, <2>2, <2>3, <2>4, <2>5, <2>6, <2>7 DEF DescriptorCalls
<1> QED BY <1>1, <1>2 DEF DescriptorsNext

\* Whichever processes open, duplicate, close, are started and exit: while no redirect to a
\* redirect is closed and no standard stream replaced, each descriptor counts itself and every
\* redirect to it, so no close takes a descriptor away from what redirects to it.
THEOREM RedirectsAreCounted == DescriptorsSpec => []CountsCoverRedirects
<1>1. DescriptorsIInv => CountsCoverRedirects
  <2> SUFFICES ASSUME DescriptorsIInv, ~crossed, NEW h \in Handle, Exists(h)
               PROVE  Iod(h).count >= 1 + Cardinality(RedirectsTo(h))
    BY DEF CountsCoverRedirects
  <2>1. RedirectsTo(h) = RedirectsIn(tableOf, alive, h)
    BY DEF RedirectsTo, RedirectsIn, Exists, ExistsIn, Iod, Entry
  <2>2. ExistsIn(tableOf, alive, h) /\ Iod(h) = Entry(tableOf, h)
    BY DEF Exists, ExistsIn, Iod, Entry
  <2> QED BY <2>1, <2>2 DEF DescriptorsIInv, Covered
<1> QED BY <1>1, InitDescriptors, NextDescriptors, PTL DEF DescriptorsSpec

-----------------------------------------------------------------------------
(* The heap: free blocks, blocks in use and lost blocks tile it *)

Within == {b \in Block : b.at + b.size <= HeapSize}
Apart(a, b) == a.at + a.size <= b.at \/ b.at + b.size <= a.at
InBlock(byte, b) == b.at <= byte /\ byte < b.at + b.size

\* Every byte is in a block of list F, of the pieces H or of the blocks C, and no two of
\* those have a byte in common.
Tiles(F, H, C) ==
  /\ \A byte \in 0 .. HeapSize - 1 : \/ \E i \in DOMAIN F : InBlock(byte, F[i])
                                     \/ \E p \in H : InBlock(byte, p)
                                     \/ \E c \in C : InBlock(byte, c)
  /\ \A i, j \in DOMAIN F : i # j => Apart(F[i], F[j])
  /\ \A i \in DOMAIN F : (\A p \in H : Apart(F[i], p)) /\ (\A c \in C : Apart(F[i], c))
  /\ \A p, q \in H : p # q => Apart(p, q)
  /\ \A c, d \in C : c # d => Apart(c, d)
  /\ \A p \in H, c \in C : Apart(p, c)

\* The list before i, followed by rest.
Spliced(list, i, rest) == SubSeq(list, 1, i - 1) \o rest

\* The list as it will be when the allocation under way has linked it again.
Relinked == Spliced(free, place.index, place.rest)

\* The block an allocation gets.
TakenBlock(b, need) == [at |-> b.at, size |-> Taken(b, need)]

\* The free list ends at the block that is being taken, of which it knows a part.
TakingBlock ==
  /\ place.index \in DOMAIN free /\ place.index = Len(free)
  /\ free[place.index].at = place.block.at /\ free[place.index].size <= place.block.size
  /\ place.block \notin cut
  /\ Tiles(Relinked, held, cut \cup {place.block})

HeapIInv ==
  /\ HeapTypeOK
  /\ free \in Seq(Within) /\ cut \subseteq Within /\ (\A p \in held : BlockOf(p) \in Within)
  /\ place.block \in Within /\ place.rest \in Seq(Within)
  /\ heapMutex = Nobody <=> place.step = "out"
  /\ kernelHeap => place.step = "out"
  /\ ~started => free = <<>> /\ held = {} /\ cut = {} /\ place.step = "out"
  /\ started /\ ~emptied =>
       CASE place.step = "out" -> Tiles(free, held, cut)
         [] place.step \in {"split", "link"} -> TakingBlock
         [] place.step = "touch" -> place.block \notin cut /\ Tiles(free, held, cut \cup {place.block})

LEMMA HeapNumbers == HeapSize \in Nat /\ HeaderSize \in Nat /\ HeaderSize >= 1 /\ HeapSize >= 2
BY HeapAssumption

LEMMA WithinParts ==
  ASSUME NEW b \in Within
  PROVE  /\ b \in Block /\ b = [at |-> b.at, size |-> b.size]
         /\ b.at \in Nat /\ b.size \in Nat /\ b.size >= 1 /\ b.at + b.size <= HeapSize
BY HeapNumbers DEF Within, Block

LEMMA IsWithin ==
  ASSUME NEW a \in Nat, NEW n \in Nat, n >= 1, a + n <= HeapSize
  PROVE  [at |-> a, size |-> n] \in Within
BY HeapNumbers DEF Within, Block

\* What an allocation needs of a block, and what it takes and leaves.
LEMMA PadIsNat == ASSUME NEW a \in Nat, NEW al \in Aligns PROVE Pad(a, al) \in Nat
<1>1. al \in Nat /\ HeaderSize \in Nat
  BY HeapAssumption
<1>2. CASE al = 0 \/ (a + HeaderSize) % al = 0
  BY <1>2 DEF Pad
<1>3. CASE ~(al = 0 \/ (a + HeaderSize) % al = 0)
  <2>1. al > 0 /\ (a + HeaderSize) % al \in 0 .. al - 1
    BY <1>1, <1>3
  <2> QED BY <1>1, <1>3, <2>1 DEF Pad
<1> QED BY <1>2, <1>3

LEMMA Cuts ==
  ASSUME NEW b \in Within, NEW need \in Nat, need >= 1, need <= b.size
  PROVE  /\ Taken(b, need) \in Nat /\ need <= Taken(b, need) /\ Taken(b, need) <= b.size
         /\ [at |-> b.at, size |-> Taken(b, need)] \in Within
         /\ Remainder(b, need) \in Seq(Within) /\ Len(Remainder(b, need)) \in {0, 1}
         /\ Len(Remainder(b, need)) = 0 => Taken(b, need) = b.size
         /\ Len(Remainder(b, need)) = 1 =>
              /\ Remainder(b, need)[1].at = b.at + Taken(b, need)
              /\ Remainder(b, need)[1].size = b.size - Taken(b, need)
<1>1. /\ b.at \in Nat /\ b.size \in Nat /\ b.size >= 1 /\ b.at + b.size <= HeapSize
  BY WithinParts
<1>2. CASE Splits(b, need)
  <2> DEFINE r == [at |-> b.at + need, size |-> b.size - need]
  <2>1. b.size - need > HeaderSize + 1
    BY <1>2 DEF Splits
  <2>2. b.size - need \in Nat /\ b.size - need >= 1 /\ b.at + need \in Nat
        /\ (b.at + need) + (b.size - need) <= HeapSize /\ b.at + need <= HeapSize
    BY <1>1, <2>1, HeapNumbers
  <2>3. r \in Within /\ [at |-> b.at, size |-> need] \in Within
    BY <1>1, <2>2, IsWithin
  <2>4. Remainder(b, need) = <<r>> /\ Taken(b, need) = need
    BY <1>2 DEF Remainder, Taken
  <2>5. r.at = b.at + need /\ r.size = b.size - need
    OBVIOUS
  <2> HIDE DEF r
  <2>6. <<r>> \in Seq(Within) /\ Len(<<r>>) = 1 /\ <<r>>[1] = r
    BY <2>3
  <2> QED BY <2>3, <2>4, <2>5, <2>6
<1>3. CASE ~Splits(b, need)
  <2>1. Remainder(b, need) = <<>> /\ Taken(b, need) = b.size
    BY <1>3 DEF Remainder, Taken
  <2>2. [at |-> b.at, size |-> b.size] \in Within
    BY <1>1, IsWithin
  <2>3. <<>> \in Seq(Within) /\ Len(<<>>) = 0
    BY EmptySeq
  <2> QED BY <1>1, <2>1, <2>2, <2>3
<1> QED BY <1>2, <1>3

\* The list L with the block at i replaced by at most one other.
LEMMA WithoutParts ==
  ASSUME NEW L \in Seq(Within), NEW i \in 1 .. Len(L), NEW R \in Seq(Within), Len(R) \in {0, 1}
  PROVE  /\ Without(L, i, R) \in Seq(Within)
         /\ Len(Without(L, i, R)) = Len(L) - 1 + Len(R)
         /\ Len(R) = 0 => \A k \in 1 .. Len(L) - 1 : Without(L, i, R)[k] = IF k < i THEN L[k] ELSE L[k + 1]
         /\ Len(R) = 1 => \A k \in 1 .. Len(L) : Without(L, i, R)[k] = IF k = i THEN R[1] ELSE L[k]
<1> DEFINE A == SubSeq(L, 1, i - 1)
           B == SubSeq(L, i + 1, Len(L))
<1>1. Len(L) \in Nat /\ \A k \in 1 .. Len(L) : L[k] \in Within
  BY LenProperties, ElementOfSeq
<1>2. A \in Seq(Within) /\ Len(A) = i - 1 /\ \A k \in 1 .. i - 1 : A[k] = L[k]
  <2>1. \A k \in 1 .. i - 1 : L[k] \in Within
    BY <1>1
  <2>2. /\ A \in Seq(Within) /\ Len(A) = IF 1 <= i - 1 THEN (i - 1) - 1 + 1 ELSE 0
        /\ \A k \in 1 .. (i - 1) - 1 + 1 : A[k] = L[1 + k - 1]
    BY <2>1, SubSeqProperties
  <2> HIDE DEF A
  <2> QED BY <2>2
<1>3. B \in Seq(Within) /\ Len(B) = Len(L) - i /\ \A k \in 1 .. Len(L) - i : B[k] = L[i + k]
  <2>1. \A k \in i + 1 .. Len(L) : L[k] \in Within
    BY <1>1
  <2>2. /\ B \in Seq(Within) /\ Len(B) = IF i + 1 <= Len(L) THEN Len(L) - (i + 1) + 1 ELSE 0
        /\ \A k \in 1 .. Len(L) - (i + 1) + 1 : B[k] = L[(i + 1) + k - 1]
    BY <1>1, <2>1, SubSeqProperties
  <2> HIDE DEF B
  <2>3. \A k \in 1 .. Len(L) - i : L[(i + 1) + k - 1] = L[i + k] /\ k \in 1 .. Len(L) - (i + 1) + 1
    BY <1>1
  <2> QED BY <1>1, <2>2, <2>3
<1> HIDE DEF A, B
<1>4. /\ A \o R \in Seq(Within) /\ Len(A \o R) = (i - 1) + Len(R)
      /\ \A k \in 1 .. (i - 1) + Len(R) : (A \o R)[k] = IF k <= i - 1 THEN A[k] ELSE R[k - (i - 1)]
  <2>1. /\ A \o R \in Seq(Within) /\ Len(A \o R) = Len(A) + Len(R)
        /\ \A k \in 1 .. Len(A) + Len(R) : (A \o R)[k] = IF k <= Len(A) THEN A[k] ELSE R[k - Len(A)]
    BY <1>2, ConcatProperties, Zenon
  <2> QED BY <1>2, <2>1
<1> DEFINE AR == A \o R
<1> HIDE DEF AR
<1>5. /\ AR \o B \in Seq(Within) /\ Len(AR \o B) = Len(AR) + Len(B)
      /\ \A k \in 1 .. Len(AR) + Len(B) : (AR \o B)[k] = IF k <= Len(AR) THEN AR[k] ELSE B[k - Len(AR)]
  <2>1. AR \in Seq(Within)
    BY <1>4 DEF AR
  <2> QED BY <1>3, <2>1, ConcatProperties, Zenon
<1>6. Without(L, i, R) = AR \o B
  BY DEF Without, A, B, AR
<1> DEFINE W == AR \o B
<1> HIDE DEF W
<1>7. W \in Seq(Within) /\ Len(W) = Len(L) - 1 + Len(R)
  BY <1>1, <1>3, <1>4, <1>5 DEF W, AR
<1>8. ASSUME Len(R) = 0, NEW k \in 1 .. Len(L) - 1
      PROVE  W[k] = IF k < i THEN L[k] ELSE L[k + 1]
  <2>1. Len(AR) = i - 1
    BY <1>4, <1>8 DEF AR
  <2>2. CASE k < i
    <3>1. W[k] = AR[k] /\ k \in 1 .. (i - 1) + Len(R) /\ k <= i - 1
      BY <1>1, <1>3, <1>5, <2>1, <2>2, <1>8 DEF W
    <3>2. AR[k] = A[k]
      BY <3>1, <1>4 DEF AR
    <3> QED BY <2>2, <3>1, <3>2, <1>2
  <2>3. CASE k >= i
    <3>1. W[k] = B[k - (i - 1)]
      BY SMTT(40), <1>1, <1>3, <1>5, <2>1, <2>3 DEF W
    <3>2. k - (i - 1) \in 1 .. Len(L) - i /\ i + (k - (i - 1)) = k + 1
      BY <1>1, <2>3
    <3>3. B[k - (i - 1)] = L[k + 1]
      BY <1>3, <3>2
    <3> QED BY <2>3, <3>1, <3>3
  <2> QED BY <2>2, <2>3
<1>9. ASSUME Len(R) = 1, NEW k \in 1 .. Len(L)
      PROVE  W[k] = IF k = i THEN R[1] ELSE L[k]
  <2>1. Len(AR) = i
    BY <1>4, <1>9 DEF AR
  <2>2. CASE k < i
    <3>1. W[k] = AR[k] /\ k \in 1 .. (i - 1) + Len(R) /\ k <= i - 1
      BY <1>1, <1>3, <1>5, <2>1, <2>2, <1>9 DEF W
    <3>2. AR[k] = A[k]
      BY <3>1, <1>4 DEF AR
    <3> QED BY <2>2, <3>1, <3>2, <1>2
  <2>3. CASE k = i
    <3>1. W[k] = AR[k] /\ k \in 1 .. (i - 1) + Len(R) /\ ~(k <= i - 1) /\ k - (i - 1) = 1
      BY <1>1, <1>3, <1>5, <2>1, <2>3, <1>9 DEF W
    <3>2. AR[k] = R[1]
      BY <3>1, <1>4 DEF AR
    <3> QED BY <2>3, <3>1, <3>2
  <2>4. CASE k > i
    <3>1. W[k] = B[k - i]
      BY <1>1, <1>3, <1>5, <2>1, <2>4 DEF W
    <3>2. k - i \in 1 .. Len(L) - i /\ i + (k - i) = k
      BY <1>1, <2>4
    <3>3. B[k - i] = L[k]
      BY <1>3, <3>2
    <3> QED BY <2>4, <3>1, <3>3
  <2> QED BY <2>2, <2>3, <2>4
<1> QED BY <1>6, <1>7, <1>8, <1>9 DEF W

\* Where a block is, whichever record describes it.
Sized(x) == x.at \in Nat /\ x.size \in Nat /\ x.size >= 1
Inside(a, b) == b.at <= a.at /\ a.at + a.size <= b.at + b.size

LEMMA InsideApart ==
  ASSUME NEW a, NEW b, NEW x, Sized(a), Sized(b), Sized(x), Inside(a, b)
  PROVE  /\ Apart(b, x) => Apart(a, x) /\ Apart(x, a)
         /\ Apart(x, b) => Apart(a, x) /\ Apart(x, a)
BY DEF Sized, Inside, Apart

LEMMA ApartTurned == ASSUME NEW a, NEW b, Apart(a, b) PROVE Apart(b, a)
BY DEF Apart

LEMMA SizedBlocks ==
  ASSUME NEW F \in Seq(Within), NEW H, \A p \in H : BlockOf(p) \in Within, NEW C \in SUBSET Within
  PROVE  /\ \A i \in 1 .. Len(F) : F[i] \in Within /\ Sized(F[i])
         /\ \A p \in H : Sized(p)
         /\ \A c \in C : Sized(c)
         /\ DOMAIN F = 1 .. Len(F) /\ Len(F) \in Nat
<1>1. \A b \in Within : Sized(b)
  BY WithinParts DEF Sized
<1>2. \A i \in 1 .. Len(F) : F[i] \in Within
  BY ElementOfSeq
<1>3. ASSUME NEW p \in H PROVE Sized(p)
  <2>1. Sized(BlockOf(p)) /\ BlockOf(p).at = p.at /\ BlockOf(p).size = p.size
    BY <1>1 DEF BlockOf
  <2> QED BY <2>1 DEF Sized
<1> QED BY <1>1, <1>2, <1>3, LenProperties

Cuttable(L, i, need) == i \in 1 .. Len(L) /\ need \in Nat /\ need >= 1 /\ need <= L[i].size

\* Taking the first bytes of a free block, or all of it, keeps the heap tiled.
LEMMA TakeTiles ==
  ASSUME NEW L \in Seq(Within), NEW H, \A p \in H : BlockOf(p) \in Within, NEW C \in SUBSET Within,
         Tiles(L, H, C), NEW i, NEW need, Cuttable(L, i, need),
         NEW t, t = TakenBlock(L[i], need)
  PROVE  /\ t \in Within /\ t \notin C
         /\ Tiles(Without(L, i, Remainder(L[i], need)), H, C \cup {t})
<1> USE DEF TakenBlock
<1>0. i \in 1 .. Len(L) /\ need \in Nat /\ need >= 1 /\ need <= L[i].size
  BY DEF Cuttable
<1> USE <1>0
<1> DEFINE b == L[i]
           R == Remainder(b, need)
           W == Without(L, i, R)
<1>1. /\ \A k \in 1 .. Len(L) : L[k] \in Within /\ Sized(L[k])
      /\ \A p \in H : Sized(p)
      /\ \A c \in C : Sized(c)
      /\ DOMAIN L = 1 .. Len(L) /\ Len(L) \in Nat
  BY SizedBlocks
<1>2. /\ Taken(b, need) \in Nat /\ need <= Taken(b, need) /\ Taken(b, need) <= b.size
      /\ t \in Within
      /\ R \in Seq(Within) /\ Len(R) \in {0, 1}
      /\ Len(R) = 0 => Taken(b, need) = b.size
      /\ Len(R) = 1 => R[1].at = b.at + Taken(b, need) /\ R[1].size = b.size - Taken(b, need)
  BY <1>1, Cuts
<1>3. /\ W \in Seq(Within)
      /\ Len(W) = Len(L) - 1 + Len(R)
      /\ Len(R) = 0 => \A k \in 1 .. Len(L) - 1 : W[k] = IF k < i THEN L[k] ELSE L[k + 1]
      /\ Len(R) = 1 => \A k \in 1 .. Len(L) : W[k] = IF k = i THEN R[1] ELSE L[k]
  BY <1>2, WithoutParts
<1>4. /\ \A k \in 1 .. Len(W) : W[k] \in Within /\ Sized(W[k])
      /\ DOMAIN W = 1 .. Len(W) /\ Len(W) \in Nat
  BY <1>3, SizedBlocks
<1>5. Len(R) = 1 => Sized(R[1]) /\ Inside(R[1], b) /\ Apart(R[1], t) /\ Apart(t, R[1])
  <2> SUFFICES ASSUME Len(R) = 1
               PROVE  Sized(R[1]) /\ Inside(R[1], b) /\ Apart(R[1], t) /\ Apart(t, R[1])
    OBVIOUS
  <2>1. Sized(R[1])
    BY <1>3, <1>4, <1>1
  <2>2. Sized(b) /\ t.at = b.at /\ t.size = Taken(b, need)
    BY <1>1
  <2> HIDE DEF R, b
  <2> QED BY <2>1, <2>2, <1>2 DEF Sized, Inside, Apart
<1>6. Sized(t) /\ Sized(b) /\ Inside(t, b)
  <2>1. Sized(b) /\ t.at = b.at /\ t.size = Taken(b, need)
    BY <1>1
  <2> HIDE DEF b
  <2> QED BY <2>1, <1>2 DEF Sized, Inside
<1>7. ASSUME NEW byte, byte \in Nat, InBlock(byte, b)
      PROVE  InBlock(byte, t) \/ (Len(R) = 1 /\ InBlock(byte, R[1]))
  <2>1. Sized(b) /\ t.at = b.at /\ t.size = Taken(b, need)
    BY <1>1
  <2> HIDE DEF R, b
  <2> QED BY <2>1, <1>2, <1>7 DEF Sized, InBlock
\* Each block of the new list is a block of the old one, or a part of the one that was cut.
<1> DEFINE src == [k \in 1 .. Len(W) |-> IF Len(R) = 1 \/ k < i THEN k ELSE k + 1]
<1>8. /\ \A k \in 1 .. Len(W) : src[k] \in 1 .. Len(L) /\ (src[k] # i => W[k] = L[src[k]])
                              /\ (src[k] = i => Len(R) = 1 /\ W[k] = R[1])
      /\ \A j, k \in 1 .. Len(W) : j # k => src[j] # src[k]
      /\ \A j \in 1 .. Len(L) : j # i => \E k \in 1 .. Len(W) : src[k] = j
      /\ Len(R) = 1 => i \in 1 .. Len(W) /\ src[i] = i
  <2> HIDE DEF R, b, W
  <2>1. CASE Len(R) = 1
    <3>1. Len(W) = Len(L) /\ src = [k \in 1 .. Len(W) |-> k]
      BY <2>1, <1>1, <1>3
    <3> HIDE DEF src
    <3> QED BY <2>1, <3>1, <1>1, <1>3
  <2>2. CASE Len(R) = 0
    <3>1. Len(W) = Len(L) - 1 /\ src = [k \in 1 .. Len(W) |-> IF k < i THEN k ELSE k + 1]
      BY <2>2, <1>1, <1>3
    <3> HIDE DEF src
    <3>2. \A j \in 1 .. Len(L) : j # i => \E k \in 1 .. Len(W) : src[k] = j
      <4> SUFFICES ASSUME NEW j \in 1 .. Len(L), j # i PROVE \E k \in 1 .. Len(W) : src[k] = j
        OBVIOUS
      <4>1. CASE j < i
        <5>1. j \in 1 .. Len(W) /\ src[j] = j
          BY <4>1, <3>1, <1>1
        <5> QED BY <5>1
      <4>2. CASE j > i
        <5>1. j - 1 \in 1 .. Len(W) /\ src[j - 1] = j
          BY <4>2, <3>1, <1>1
        <5> QED BY <5>1
      <4> QED BY <4>1, <4>2
    <3> QED BY <2>2, <3>1, <3>2, <1>1, <1>3
  <2> QED BY <2>1, <2>2, <1>2
<1>9. \A k \in 1 .. Len(W) : Inside(W[k], L[src[k]])
  <2> SUFFICES ASSUME NEW k \in 1 .. Len(W) PROVE Inside(W[k], L[src[k]])
    OBVIOUS
  <2>1. CASE src[k] = i
    BY <2>1, <1>5, <1>8
  <2>2. CASE src[k] # i
    <3>1. W[k] = L[src[k]] /\ Sized(L[src[k]])
      BY <2>2, <1>1, <1>8
    <3> QED BY <3>1 DEF Inside, Sized
  <2> QED BY <2>1, <2>2
<1>10. /\ \A j, k \in DOMAIN L : j # k => Apart(L[j], L[k])
       /\ \A j \in DOMAIN L : (\A p \in H : Apart(L[j], p)) /\ (\A c \in C : Apart(L[j], c))
       /\ \A p, q \in H : p # q => Apart(p, q)
       /\ \A c, d \in C : c # d => Apart(c, d)
       /\ \A p \in H, c \in C : Apart(p, c)
  BY DEF Tiles
<1>11. i \in DOMAIN L /\ \A k \in 1 .. Len(W) : src[k] \in DOMAIN L
  BY <1>1, <1>8
<1>12. t \notin C
  <2> SUFFICES ASSUME t \in C PROVE FALSE
    OBVIOUS
  <2>1. Apart(b, t)
    BY <1>10, <1>11
  <2> HIDE DEF b
  <2> QED BY <2>1, <1>6 DEF Apart, Inside, Sized
<1> HIDE DEF src, W, R, b
<1>13. \A j, k \in 1 .. Len(W) : j # k => Apart(W[j], W[k])
  <2> SUFFICES ASSUME NEW j \in 1 .. Len(W), NEW k \in 1 .. Len(W), j # k PROVE Apart(W[j], W[k])
    OBVIOUS
  <2>1. Apart(L[src[j]], L[src[k]])
    BY <1>8, <1>10, <1>11
  <2>2. Sized(W[j]) /\ Sized(W[k]) /\ Sized(L[src[j]]) /\ Sized(L[src[k]])
    BY <1>1, <1>4, <1>8
  <2>3. Apart(W[j], L[src[k]])
    BY <2>1, <2>2, <1>9, InsideApart
  <2> QED BY <2>2, <2>3, <1>9, InsideApart
<1>14. ASSUME NEW k \in 1 .. Len(W)
       PROVE  (\A p \in H : Apart(W[k], p)) /\ (\A c \in C \cup {t} : Apart(W[k], c))
  <2>1. Sized(W[k]) /\ Sized(L[src[k]]) /\ Inside(W[k], L[src[k]])
    BY <1>1, <1>4, <1>8, <1>9
  <2>2. \A p \in H : Apart(W[k], p)
    BY <2>1, <1>1, <1>10, <1>11, InsideApart
  <2>3. \A c \in C : Apart(W[k], c)
    BY <2>1, <1>1, <1>10, <1>11, InsideApart
  <2>4. Apart(W[k], t)
    <3>1. CASE src[k] = i
      BY <3>1, <1>5, <1>8
    <3>2. CASE src[k] # i
      <4>1. Apart(L[src[k]], b)
        BY <3>2, <1>10, <1>11 DEF b
      <4>2. Apart(W[k], b)
        BY <4>1, <2>1, <1>6, InsideApart
      <4> QED BY <4>2, <2>1, <1>6, InsideApart
    <3> QED BY <3>1, <3>2
  <2> QED BY <2>2, <2>3, <2>4
<1>15. \A p \in H : Apart(p, t) /\ Apart(t, p)
  <2> SUFFICES ASSUME NEW p \in H PROVE Apart(p, t) /\ Apart(t, p)
    OBVIOUS
  <2>1. Apart(b, p)
    BY <1>10, <1>11 DEF b
  <2> QED BY <2>1, <1>1, <1>6, InsideApart
<1>16. \A c \in C : Apart(c, t) /\ Apart(t, c)
  <2> SUFFICES ASSUME NEW c \in C PROVE Apart(c, t) /\ Apart(t, c)
    OBVIOUS
  <2>1. Apart(b, c)
    BY <1>10, <1>11 DEF b
  <2> QED BY <2>1, <1>1, <1>6, InsideApart
<1>17. ASSUME NEW byte \in 0 .. HeapSize - 1
       PROVE  \/ \E k \in DOMAIN W : InBlock(byte, W[k])
              \/ \E p \in H : InBlock(byte, p)
              \/ \E c \in C \cup {t} : InBlock(byte, c)
  <2>0. byte \in Nat
    BY HeapNumbers
  <2>1. \/ \E k \in DOMAIN L : InBlock(byte, L[k])
        \/ \E p \in H : InBlock(byte, p)
        \/ \E c \in C : InBlock(byte, c)
    BY DEF Tiles
  <2>2. ASSUME NEW k \in DOMAIN L, InBlock(byte, L[k])
        PROVE  (\E j \in DOMAIN W : InBlock(byte, W[j])) \/ InBlock(byte, t)
    <3>1. CASE k = i
      <4>1. InBlock(byte, t) \/ (Len(R) = 1 /\ InBlock(byte, R[1]))
        BY <2>0, <2>2, <3>1, <1>7 DEF b
      <4>2. Len(R) = 1 => i \in DOMAIN W /\ W[i] = R[1]
        BY <1>4, <1>8
      <4> QED BY <4>1, <4>2
    <3>2. CASE k # i
      <4>1. PICK j \in 1 .. Len(W) : src[j] = k
        BY <3>2, <1>1, <1>8
      <4>2. W[j] = L[k] /\ j \in DOMAIN W
        BY <4>1, <3>2, <1>4, <1>8
      <4> QED BY <4>2, <2>2
    <3> QED BY <3>1, <3>2
  <2> QED BY <2>1, <2>2
<1>18. Tiles(W, H, C \cup {t})
  BY <1>4, <1>10, <1>13, <1>14, <1>15, <1>16, <1>17 DEF Tiles
<1> QED BY <1>2, <1>12, <1>18 DEF W, R, b

\* A block goes from the thread to the caller.
LEMMA HandOverTiles ==
  ASSUME NEW F \in Seq(Within), NEW H, \A p \in H : BlockOf(p) \in Within, NEW C \in SUBSET Within,
         NEW t \in Within, t \notin C, Tiles(F, H, C \cup {t}),
         NEW h, BlockOf(h) = t
  PROVE  Tiles(F, H \cup {h}, C)
<1>1. h.at = t.at /\ h.size = t.size
  BY DEF BlockOf
<1>2. /\ \A x : Apart(x, h) <=> Apart(x, t)
      /\ \A x : Apart(h, x) <=> Apart(t, x)
      /\ \A byte : InBlock(byte, h) <=> InBlock(byte, t)
  BY <1>1 DEF Apart, InBlock
<1>3. /\ \A p \in H : Apart(p, t) /\ Apart(t, p)
      /\ \A c \in C : Apart(c, t) /\ Apart(t, c)
  BY ApartTurned DEF Tiles
<1> QED BY <1>2, <1>3 DEF Tiles

\* A block goes back to the head of the free list.
LEMMA ReleaseTiles ==
  ASSUME NEW F \in Seq(Within), NEW H, \A p \in H : BlockOf(p) \in Within, NEW C \in SUBSET Within,
         Tiles(F, H, C), NEW h \in H
  PROVE  <<BlockOf(h)>> \o F \in Seq(Within) /\ Tiles(<<BlockOf(h)>> \o F, H \ {h}, C)
<1> DEFINE t == BlockOf(h)
           s == <<t>>
           G == s \o F
<1>1. /\ \A i \in 1 .. Len(F) : F[i] \in Within /\ Sized(F[i])
      /\ \A p \in H : Sized(p)
      /\ \A c \in C : Sized(c)
      /\ DOMAIN F = 1 .. Len(F) /\ Len(F) \in Nat
  BY SizedBlocks
<1>2. /\ h.at = t.at /\ h.size = t.size
  BY DEF BlockOf
<1>3. /\ \A x : Apart(x, h) <=> Apart(x, t)
      /\ \A x : Apart(h, x) <=> Apart(t, x)
      /\ \A byte : InBlock(byte, h) <=> InBlock(byte, t)
  BY <1>2 DEF Apart, InBlock
<1>4. t \in Within
  OBVIOUS
<1> HIDE DEF t
<1>5. s \in Seq(Within) /\ Len(s) = 1 /\ s[1] = t
  BY <1>4
<1> HIDE DEF s
<1>6. /\ G \in Seq(Within) /\ Len(G) = Len(s) + Len(F)
      /\ \A k \in 1 .. Len(s) + Len(F) : G[k] = IF k <= Len(s) THEN s[k] ELSE F[k - Len(s)]
  BY <1>5, ConcatProperties, Zenon
<1> HIDE DEF G
<1>7. /\ DOMAIN G = 1 .. Len(F) + 1 /\ G[1] = t
      /\ \A k \in 2 .. Len(F) + 1 : G[k] = F[k - 1] /\ k - 1 \in DOMAIN F
      /\ \A k \in DOMAIN F : k + 1 \in DOMAIN G /\ G[k + 1] = F[k]
  <2>1. DOMAIN G = 1 .. Len(G)
    BY <1>6, LenProperties
  <2> QED BY <2>1, <1>1, <1>5, <1>6
<1>8. /\ \A j, k \in DOMAIN F : j # k => Apart(F[j], F[k])
      /\ \A j \in DOMAIN F : (\A p \in H : Apart(F[j], p)) /\ (\A c \in C : Apart(F[j], c))
      /\ \A p, q \in H : p # q => Apart(p, q)
      /\ \A c, d \in C : c # d => Apart(c, d)
      /\ \A p \in H, c \in C : Apart(p, c)
  BY DEF Tiles
<1>9. \A j, k \in DOMAIN G : j # k => Apart(G[j], G[k])
  <2> SUFFICES ASSUME NEW j \in DOMAIN G, NEW k \in DOMAIN G, j # k PROVE Apart(G[j], G[k])
    OBVIOUS
  <2>1. CASE j = 1
    <3>1. G[j] = t /\ G[k] = F[k - 1] /\ k - 1 \in DOMAIN F
      BY <2>1, <1>1, <1>7
    <3>2. Apart(F[k - 1], h)
      BY <3>1, <1>8
    <3> QED BY <3>1, <3>2, <1>3, ApartTurned
  <2>2. CASE k = 1
    <3>1. G[k] = t /\ G[j] = F[j - 1] /\ j - 1 \in DOMAIN F
      BY <2>2, <1>1, <1>7
    <3>2. Apart(F[j - 1], h)
      BY <3>1, <1>8
    <3> QED BY <3>1, <3>2, <1>3
  <2>3. CASE j # 1 /\ k # 1
    <3>1. G[j] = F[j - 1] /\ j - 1 \in DOMAIN F /\ G[k] = F[k - 1] /\ k - 1 \in DOMAIN F /\ j - 1 # k - 1
      BY <2>3, <1>1, <1>7
    <3> QED BY <3>1, <1>8
  <2> QED BY <2>1, <2>2, <2>3
<1>10. ASSUME NEW k \in DOMAIN G
       PROVE  (\A p \in H \ {h} : Apart(G[k], p)) /\ (\A c \in C : Apart(G[k], c))
  <2>1. CASE k = 1
    BY <2>1, <1>3, <1>7, <1>8
  <2>2. CASE k # 1
    <3>1. G[k] = F[k - 1] /\ k - 1 \in DOMAIN F
      BY <2>2, <1>1, <1>7
    <3> QED BY <3>1, <1>8
  <2> QED BY <2>1, <2>2
<1>11. ASSUME NEW byte \in 0 .. HeapSize - 1
       PROVE  \/ \E k \in DOMAIN G : InBlock(byte, G[k])
              \/ \E p \in H \ {h} : InBlock(byte, p)
              \/ \E c \in C : InBlock(byte, c)
  <2>1. \/ \E k \in DOMAIN F : InBlock(byte, F[k])
        \/ \E p \in H : InBlock(byte, p)
        \/ \E c \in C : InBlock(byte, c)
    BY DEF Tiles
  <2>2. CASE \E k \in DOMAIN F : InBlock(byte, F[k])
    BY <2>2, <1>7
  <2>3. CASE InBlock(byte, h)
    <3>1. 1 \in DOMAIN G /\ InBlock(byte, G[1])
      BY <2>3, <1>1, <1>3, <1>7
    <3> QED BY <3>1
  <2> QED BY <2>1, <2>2, <2>3
<1>12. Tiles(G, H \ {h}, C)
  BY <1>8, <1>9, <1>10, <1>11 DEF Tiles
<1> QED BY <1>6, <1>12 DEF G, s, t

SplicedParts(F, i, rest, G) ==
  /\ G \in Seq(Within) /\ DOMAIN G = 1 .. (i - 1) + Len(rest)
  /\ \A k \in 1 .. i - 1 : G[k] = F[k] /\ k \in DOMAIN G
  /\ \A m \in 1 .. Len(rest) : G[(i - 1) + m] = rest[m] /\ (i - 1) + m \in DOMAIN G

LEMMA SpliceParts ==
  ASSUME NEW F \in Seq(Within), NEW i, i \in 1 .. Len(F), NEW rest \in Seq(Within), NEW G,
         G = Spliced(F, i, rest)
  PROVE  SplicedParts(F, i, rest, G)
<1> DEFINE A == SubSeq(F, 1, i - 1)
<1>1. Len(F) \in Nat /\ \A k \in 1 .. Len(F) : F[k] \in Within
  BY LenProperties, ElementOfSeq
<1>2. A \in Seq(Within) /\ Len(A) = i - 1 /\ \A k \in 1 .. i - 1 : A[k] = F[k]
  <2>1. \A k \in 1 .. i - 1 : F[k] \in Within
    BY <1>1
  <2>2. /\ A \in Seq(Within) /\ Len(A) = IF 1 <= i - 1 THEN (i - 1) - 1 + 1 ELSE 0
        /\ \A k \in 1 .. (i - 1) - 1 + 1 : A[k] = F[1 + k - 1]
    BY <2>1, SubSeqProperties
  <2> HIDE DEF A
  <2> QED BY <2>2
<1> HIDE DEF A
<1>3. /\ A \o rest \in Seq(Within) /\ Len(A \o rest) = Len(A) + Len(rest)
      /\ \A k \in 1 .. Len(A) + Len(rest) : (A \o rest)[k] = IF k <= Len(A) THEN A[k] ELSE rest[k - Len(A)]
  BY <1>2, ConcatProperties, Zenon
<1>4. /\ G \in Seq(Within) /\ Len(G) = Len(A) + Len(rest)
      /\ \A k \in 1 .. Len(A) + Len(rest) : G[k] = IF k <= Len(A) THEN A[k] ELSE rest[k - Len(A)]
  BY <1>3 DEF A, Spliced
<1>5. Len(rest) \in Nat /\ DOMAIN G = 1 .. Len(G)
  BY <1>4, LenProperties
<1>6. Len(G) = (i - 1) + Len(rest)
  BY <1>2, <1>4
<1>7. \A k \in 1 .. i - 1 : G[k] = F[k] /\ k \in DOMAIN G
  BY <1>1, <1>2, <1>4, <1>5, <1>6
<1>8. \A m \in 1 .. Len(rest) : G[(i - 1) + m] = rest[m] /\ (i - 1) + m \in DOMAIN G
  BY <1>1, <1>2, <1>4, <1>5, <1>6
<1> QED BY <1>4, <1>5, <1>6, <1>7, <1>8 DEF SplicedParts

\* What a thread leaves behind that dies before the list is linked again.
LEMMA DyingTiles ==
  ASSUME NEW F \in Seq(Within), NEW H, \A p \in H : BlockOf(p) \in Within, NEW C \in SUBSET Within,
         NEW i \in 1 .. Len(F), i = Len(F), NEW rest \in Seq(Within), NEW b \in Within, b \notin C,
         F[i].at = b.at, F[i].size <= b.size,
         Tiles(Spliced(F, i, rest), H, C \cup {b})
  PROVE  /\ Range(rest) \cup EndOf(b, F[i].size) \subseteq Within
         /\ Tiles(F, H, C \cup (Range(rest) \cup EndOf(b, F[i].size)))
<1> DEFINE G == Spliced(F, i, rest)
           n == F[i].size
           e == [at |-> b.at + n, size |-> b.size - n]
           E == EndOf(b, n)
           N == C \cup (Range(rest) \cup E)
<1>1. /\ \A k \in 1 .. Len(F) : F[k] \in Within /\ Sized(F[k])
      /\ \A p \in H : Sized(p)
      /\ \A c \in C : Sized(c)
      /\ DOMAIN F = 1 .. Len(F) /\ Len(F) \in Nat
  BY SizedBlocks
<1>2. /\ G \in Seq(Within) /\ DOMAIN G = 1 .. (i - 1) + Len(rest)
      /\ \A k \in 1 .. i - 1 : G[k] = F[k] /\ k \in DOMAIN G
      /\ \A m \in 1 .. Len(rest) : G[(i - 1) + m] = rest[m] /\ (i - 1) + m \in DOMAIN G
  <2>1. G = Spliced(F, i, rest)
    OBVIOUS
  <2> HIDE DEF G
  <2>2. SplicedParts(F, i, rest, G)
    BY <2>1, SpliceParts
  <2> QED BY <2>2 DEF SplicedParts
<1>3. /\ \A m \in 1 .. Len(rest) : rest[m] \in Within /\ Sized(rest[m])
      /\ DOMAIN rest = 1 .. Len(rest) /\ Len(rest) \in Nat
  BY SizedBlocks
<1>4. /\ \A byte \in 0 .. HeapSize - 1 : \/ \E k \in DOMAIN G : InBlock(byte, G[k])
                                         \/ \E p \in H : InBlock(byte, p)
                                         \/ \E c \in C \cup {b} : InBlock(byte, c)
      /\ \A j, k \in DOMAIN G : j # k => Apart(G[j], G[k])
      /\ \A j \in DOMAIN G : (\A p \in H : Apart(G[j], p)) /\ (\A c \in C \cup {b} : Apart(G[j], c))
      /\ \A p, q \in H : p # q => Apart(p, q)
      /\ \A c, d \in C \cup {b} : c # d => Apart(c, d)
      /\ \A p \in H, c \in C \cup {b} : Apart(p, c)
  BY DEF Tiles
<1>5. Sized(b) /\ b.at + b.size <= HeapSize
  BY WithinParts DEF Sized
<1> HIDE DEF G
<1>6. n \in Nat /\ n >= 1
  BY <1>1 DEF Sized
<1>7. Sized(F[i]) /\ Inside(F[i], b)
  BY <1>1, <1>5 DEF Inside, Sized
<1> HIDE DEF n
<1>8. /\ E \subseteq {e}
      /\ b.size > n => E = {e} /\ e \in Within /\ Sized(e) /\ Inside(e, b)
      /\ ~(b.size > n) => E = {}
  <2>1. E = IF b.size > n THEN {e} ELSE {}
    BY DEF EndOf
  <2>2. ASSUME b.size > n PROVE e \in Within /\ Sized(e) /\ Inside(e, b)
    <3>1. b.at + n \in Nat /\ b.size - n \in Nat /\ b.size - n >= 1 /\ (b.at + n) + (b.size - n) <= HeapSize
      BY <1>5, <1>6, <2>2, HeapNumbers DEF Sized
    <3>2. e \in Within
      BY <3>1, IsWithin
    <3>3. e.at = b.at + n /\ e.size = b.size - n
      OBVIOUS
    <3> HIDE DEF e
    <3> QED BY <3>1, <3>2, <3>3, <1>5, <1>6 DEF Sized, Inside
  <2> QED BY <2>1, <2>2
<1>9. e.at = b.at + n /\ e.size = b.size - n
  OBVIOUS
<1> HIDE DEF e, E
<1>10. Range(rest) \subseteq Within /\ \A r \in Range(rest) : Sized(r) /\ \E m \in 1 .. Len(rest) : r = rest[m]
  BY <1>3 DEF Range
<1>11. \A x \in E : x \in Within /\ Sized(x) /\ Inside(x, b) /\ x = e
  BY <1>8
<1>12. \A r \in Range(rest) : Apart(r, b) /\ Apart(b, r)
  <2> SUFFICES ASSUME NEW r \in Range(rest) PROVE Apart(r, b) /\ Apart(b, r)
    OBVIOUS
  <2>1. PICK m \in 1 .. Len(rest) : r = rest[m]
    BY <1>10
  <2>2. Apart(r, b)
    BY <2>1, <1>2, <1>4
  <2> QED BY <2>2, ApartTurned
<1>13. \A c \in C : Apart(c, b) /\ Apart(b, c)
  BY <1>4
<1>14. \A c, d \in N : c # d => Apart(c, d)
  <2>1. \A c, d \in C : c # d => Apart(c, d)
    BY <1>4
  <2>2. ASSUME NEW c \in C, NEW r \in Range(rest) PROVE Apart(c, r) /\ Apart(r, c)
    <3>1. PICK m \in 1 .. Len(rest) : r = rest[m]
      BY <1>10
    <3>2. (i - 1) + m \in DOMAIN G /\ G[(i - 1) + m] = r
      BY <3>1, <1>2
    <3>3. Apart(r, c)
      BY <3>2, <1>4
    <3> QED BY <3>3, ApartTurned
  <2>3. ASSUME NEW c \in C, NEW x \in E PROVE Apart(c, x) /\ Apart(x, c)
    BY <1>1, <1>5, <1>11, <1>13, InsideApart
  <2>4. ASSUME NEW r \in Range(rest), NEW q \in Range(rest), r # q PROVE Apart(r, q)
    <3>1. PICK k \in 1 .. Len(rest), m \in 1 .. Len(rest) : r = rest[k] /\ q = rest[m]
      BY <1>10
    <3>2. k # m /\ (i - 1) + k # (i - 1) + m
      BY <2>4, <3>1, <1>3
    <3> QED BY ZenonT(40), <3>1, <3>2, <1>2, <1>4
  <2>5. ASSUME NEW r \in Range(rest), NEW x \in E PROVE Apart(r, x) /\ Apart(x, r)
    BY <1>5, <1>10, <1>11, <1>12, InsideApart
  <2>6. \A x, y \in E : x = y
    BY <1>11
  <2> QED BY <2>1, <2>2, <2>3, <2>4, <2>5, <2>6
<1>15. \A p \in H, c \in N : Apart(p, c)
  <2> SUFFICES ASSUME NEW p \in H, NEW c \in N PROVE Apart(p, c)
    OBVIOUS
  <2>1. CASE c \in C
    BY <2>1, <1>4
  <2>2. CASE c \in Range(rest)
    BY <2>2, <1>2, <1>4, <1>10, ApartTurned
  <2>3. CASE c \in E
    <3>1. Apart(p, b)
      BY <1>4
    <3> QED BY <3>1, <2>3, <1>1, <1>5, <1>11, InsideApart
  <2> QED BY <2>1, <2>2, <2>3
<1>16. ASSUME NEW k \in DOMAIN F
       PROVE  /\ \A j \in DOMAIN F : j # k => Apart(F[k], F[j])
              /\ \A p \in H : Apart(F[k], p)
              /\ \A c \in N : Apart(F[k], c)
  <2>1. CASE k = i
    <3>1. \A j \in DOMAIN F : j # k => j \in 1 .. i - 1
      BY <2>1, <1>1
    <3>2. \A j \in DOMAIN F : j # k => Apart(F[j], b) /\ Sized(F[j])
      BY <3>1, <1>1, <1>2, <1>4
    <3>3. \A j \in DOMAIN F : j # k => Apart(F[k], F[j])
      BY <3>2, <2>1, <1>5, <1>7, InsideApart
    <3>4. \A p \in H : Apart(F[k], p)
      <4>1. \A p \in H : Apart(p, b)
        BY <1>4
      <4> QED BY <4>1, <2>1, <1>1, <1>5, <1>7, InsideApart
    <3>5. \A c \in C : Apart(F[k], c)
      BY <2>1, <1>1, <1>5, <1>7, <1>13, InsideApart
    <3>6. \A r \in Range(rest) : Apart(F[k], r)
      BY <2>1, <1>5, <1>7, <1>10, <1>12, InsideApart
    <3>7. \A x \in E : Apart(F[k], x)
      <4>1. F[k].at = b.at /\ F[k].size = n
        BY <2>1 DEF n
      <4>2. \A x \in E : x.at = b.at + n
        BY <1>9, <1>11
      <4> QED BY <4>1, <4>2, <1>5, <1>6 DEF Apart, Sized
    <3> QED BY <3>3, <3>4, <3>5, <3>6, <3>7
  <2>2. CASE k # i
    <3>1. k \in 1 .. i - 1 /\ G[k] = F[k] /\ k \in DOMAIN G /\ Sized(F[k])
      BY SMTT(40), <2>2, <1>1, <1>2
    <3>2. \A j \in DOMAIN F : j # k => Apart(F[k], F[j])
      <4> SUFFICES ASSUME NEW j \in DOMAIN F, j # k PROVE Apart(F[k], F[j])
        OBVIOUS
      <4>1. CASE j = i
        <5>1. Apart(F[k], b)
          BY <3>1, <1>4
        <5> QED BY <5>1, <4>1, <3>1, <1>5, <1>7, InsideApart
      <4>2. CASE j # i
        <5>1. j \in 1 .. i - 1
          BY <4>2, <1>1
        <5>2. G[j] = F[j] /\ j \in DOMAIN G
          BY <5>1, <1>2
        <5> QED BY <5>2, <3>1, <1>4
      <4> QED BY <4>1, <4>2
    <3>3. \A p \in H : Apart(F[k], p)
      BY <3>1, <1>4
    <3>4. \A c \in C : Apart(F[k], c)
      BY <3>1, <1>4
    <3>5. \A r \in Range(rest) : Apart(F[k], r)
      <4> SUFFICES ASSUME NEW r \in Range(rest) PROVE Apart(F[k], r)
        OBVIOUS
      <4>1. PICK m \in 1 .. Len(rest) : r = rest[m]
        BY <1>10
      <4>2. k # (i - 1) + m /\ (i - 1) + m \in DOMAIN G /\ G[(i - 1) + m] = r
        BY <4>1, <3>1, <1>2, <1>3
      <4> QED BY <4>2, <3>1, <1>4
    <3>6. \A x \in E : Apart(F[k], x)
      <4>1. Apart(F[k], b)
        BY <3>1, <1>4
      <4> QED BY <4>1, <3>1, <1>5, <1>11, InsideApart
    <3> QED BY <3>2, <3>3, <3>4, <3>5, <3>6
  <2> QED BY <2>1, <2>2
<1>17. ASSUME NEW byte \in 0 .. HeapSize - 1
       PROVE  \/ \E k \in DOMAIN F : InBlock(byte, F[k])
              \/ \E p \in H : InBlock(byte, p)
              \/ \E c \in N : InBlock(byte, c)
  <2>0. byte \in Nat
    BY HeapNumbers
  <2>1. \/ \E k \in DOMAIN G : InBlock(byte, G[k])
        \/ \E p \in H : InBlock(byte, p)
        \/ \E c \in C \cup {b} : InBlock(byte, c)
    BY <1>4
  <2>2. ASSUME NEW k \in DOMAIN G, InBlock(byte, G[k])
        PROVE  (\E j \in DOMAIN F : InBlock(byte, F[j])) \/ (\E r \in Range(rest) : InBlock(byte, r))
    <3>1. CASE k <= i - 1
      <4>1. k \in 1 .. i - 1 /\ k \in DOMAIN F
        BY <3>1, <1>1, <1>2
      <4>2. G[k] = F[k]
        BY <4>1, <1>2
      <4> QED BY <2>2, <4>1, <4>2
    <3>2. CASE ~(k <= i - 1)
      <4>1. k - (i - 1) \in 1 .. Len(rest) /\ (i - 1) + (k - (i - 1)) = k
        BY <3>2, <1>2, <1>3
      <4>2. G[k] = rest[k - (i - 1)]
        BY <4>1, <1>2
      <4>3. rest[k - (i - 1)] \in Range(rest)
        BY <4>1, <1>3 DEF Range
      <4> QED BY <2>2, <4>2, <4>3
    <3> QED BY <3>1, <3>2
  <2>3. ASSUME InBlock(byte, b) PROVE InBlock(byte, F[i]) \/ \E x \in E : InBlock(byte, x)
    <3>1. F[i].at = b.at /\ F[i].size = n
      BY DEF n
    <3>2. byte < b.at + n \/ (b.size > n /\ InBlock(byte, e))
      BY <2>0, <2>3, <1>5, <1>6, <1>9 DEF InBlock, Sized
    <3> QED BY <2>3, <3>1, <3>2, <1>8 DEF InBlock
  <2>4. i \in DOMAIN F
    BY <1>1
  <2> QED BY <2>1, <2>2, <2>3, <2>4
<1>18. Tiles(F, H, N)
  BY <1>4, <1>14, <1>15, <1>16, <1>17 DEF Tiles
<1> QED BY <1>10, <1>11, <1>18 DEF N, E, n

LEMMA HeapParts ==
  ASSUME HeapIInv
  PROVE  /\ free \in Seq(Within) /\ cut \in SUBSET Within /\ (\A p \in held : BlockOf(p) \in Within)
         /\ held \subseteq Piece
         /\ place.block \in Within /\ place.rest \in Seq(Within)
         /\ place \in [step : {"out", "split", "link", "touch"}, block : Block, rest : Seq(Block), index : Nat]
BY DEF HeapIInv, HeapTypeOK

LEMMA WithinSeq == \A s : s \in Seq(Within) => s \in Seq(Block)
<1>1. Within \subseteq Block
  BY DEF Within
<1> QED BY <1>1, SeqMonotonic

LEMMA OutsideParts == Outside \in [step : {"out"}, block : Within, rest : Seq(Within), index : Nat]
<1>1. NoBlock \in Within
  BY HeapNumbers, IsWithin DEF NoBlock
<1>2. <<>> \in Seq(Within)
  BY EmptySeq
<1> QED BY <1>1, <1>2 DEF Outside

\* The list an allocation searches.
LEMMA ListParts ==
  ASSUME HeapIInv
  PROVE  /\ List \in Seq(Within)
         /\ Start /\ ~emptied' /\ place.step = "out" => Tiles(List, held, cut)
<1> DEFINE w == [at |-> 0, size |-> HeapSize]
<1>1. w \in Within /\ w.at = 0 /\ w.size = HeapSize
  BY HeapNumbers, IsWithin
<1>2. Whole = <<w>>
  BY DEF Whole
<1> HIDE DEF w
<1>3. Whole \in Seq(Within) /\ Len(Whole) = 1 /\ Whole[1] = w
  BY <1>1, <1>2
<1>4. free \in Seq(Within)
  BY HeapParts
<1>5. CASE free # <<>>
  <2>1. List = free
    BY <1>5 DEF List
  <2>2. Start /\ ~emptied' => ~emptied
    BY DEF Start
  <2>3. started
    BY <1>5 DEF HeapIInv
  <2> QED BY <2>1, <2>2, <2>3, <1>4 DEF HeapIInv
<1>6. CASE free = <<>>
  <2>1. List = Whole
    BY <1>6 DEF List
  <2>2. Start /\ ~emptied' => ~started
    BY <1>6 DEF Start
  <2>3. ASSUME ~started PROVE Tiles(List, held, cut)
    <3>1. held = {} /\ cut = {}
      BY <2>3 DEF HeapIInv
    <3>2. DOMAIN List = {1} /\ List[1] = w
      BY <2>1, <1>3, LenProperties
    <3>3. \A byte \in 0 .. HeapSize - 1 : InBlock(byte, List[1])
      BY <3>2, <1>1, HeapNumbers DEF InBlock
    <3> QED BY <3>1, <3>2, <3>3 DEF Tiles
  <2> QED BY <2>1, <2>2, <2>3, <1>3
<1> QED BY <1>5, <1>6

\* The block the search ends at, and what is taken of it.
LEMMA Chosen ==
  ASSUME HeapIInv, NEW size \in Requests, NEW align \in Aligns \cup {0}, Fits(size, align, List) # {}, NEW i,
         i = Min(Fits(size, align, List))
  PROVE  /\ i \in 1 .. Len(List) /\ List[i] \in Within
         /\ Need(size, align, List[i]) \in Nat /\ Need(size, align, List[i]) >= 1
         /\ Need(size, align, List[i]) <= List[i].size
         /\ Pad(List[i].at, align) \in Nat /\ Pad(List[i].at, align) <= HeapSize
<1>1. List \in Seq(Within)
  BY ListParts
<1>2. DOMAIN List = 1 .. Len(List) /\ Len(List) \in Nat /\ \A k \in 1 .. Len(List) : List[k] \in Within
  BY <1>1, LenProperties, ElementOfSeq
<1>3. Fits(size, align, List) \in SUBSET Nat
  BY <1>2 DEF Fits
<1>4. i \in Fits(size, align, List)
  BY <1>3, MinIsThere
<1>5. i \in 1 .. Len(List) /\ Need(size, align, List[i]) <= List[i].size
  BY <1>2, <1>4 DEF Fits
<1>6. List[i].at \in Nat /\ List[i].size \in Nat /\ List[i].size <= HeapSize
  BY <1>2, <1>5, WithinParts, HeapNumbers
<1>7. Pad(List[i].at, align) \in Nat
  <2>1. CASE align \in Aligns
    BY <2>1, <1>6, PadIsNat
  <2>2. CASE align = 0
    BY <2>2 DEF Pad
  <2> QED BY <2>1, <2>2
<1>8. size \in Nat /\ HeaderSize \in Nat /\ HeaderSize >= 1 /\ HeapSize \in Nat
  BY HeapAssumption
<1>9. Need(size, align, List[i]) = size + HeaderSize + Pad(List[i].at, align)
  BY DEF Need
<1> QED BY <1>2, <1>5, <1>6, <1>7, <1>8, <1>9

\* The invariant in a state in which nobody is inside an allocation.
LEMMA NewHeapInv ==
  ASSUME kernelHeap' \in BOOLEAN, started' = TRUE, emptied' \in BOOLEAN,
         free' \in Seq(Within), held' \subseteq Piece, \A p \in held' : BlockOf(p) \in Within, cut' \subseteq Within,
         heapMutex' = Nobody, place' \in [step : {"out"}, block : Within, rest : Seq(Within), index : Nat],
         ~emptied' => Tiles(free', held', cut')
  PROVE  HeapIInv'
<1>1. place'.step = "out" /\ place'.block \in Within /\ place'.rest \in Seq(Within)
  OBVIOUS
<1>2. place' \in [step : {"out", "split", "link", "touch"}, block : Block, rest : Seq(Block), index : Nat]
  BY WithinSeq DEF Within
<1>3. free' \in Seq(Block) /\ cut' \subseteq Block
  BY WithinSeq DEF Within
<1>4. HeapTypeOK'
  BY <1>2, <1>3 DEF HeapTypeOK
<1> QED BY <1>1, <1>4 DEF HeapIInv

LEMMA AllocateForKernelKeeps ==
  ASSUME HeapIInv, ~emptied, NEW size \in Requests, NEW align \in Aligns, AllocateForKernel(size, align)
  PROVE  HeapIInv'
<1> DEFINE i == Min(Fits(size, align, List))
           b == List[i]
           need == Need(size, align, b)
           piece == [at |-> b.at, size |-> Taken(b, need), pad |-> Pad(b.at, align)]
           t == TakenBlock(b, need)
<1>1. /\ kernelHeap /\ Start
      /\ IF Fits(size, align, List) = {} THEN free' = List /\ held' = held
         ELSE free' = Without(List, i, Remainder(b, need)) /\ held' = held \cup {piece}
      /\ UNCHANGED <<kernelHeap, heapMutex, place, cut>>
  BY DEF AllocateForKernel
<1>2. /\ free \in Seq(Within) /\ cut \in SUBSET Within /\ (\A p \in held : BlockOf(p) \in Within)
      /\ held \subseteq Piece
      /\ place.block \in Within /\ place.rest \in Seq(Within)
      /\ place \in [step : {"out", "split", "link", "touch"}, block : Block, rest : Seq(Block), index : Nat]
  BY HeapParts
<1>3. place.step = "out" /\ heapMutex = Nobody /\ emptied' \in BOOLEAN /\ started' = TRUE
  BY <1>1 DEF HeapIInv, HeapTypeOK, Start
<1>4. place' \in [step : {"out"}, block : Within, rest : Seq(Within), index : Nat]
  BY <1>1, <1>2, <1>3
<1>5. List \in Seq(Within) /\ (~emptied' => Tiles(List, held, cut))
  BY <1>1, <1>3, ListParts
<1>6. CASE Fits(size, align, List) = {}
  BY <1>1, <1>2, <1>3, <1>4, <1>5, <1>6, NewHeapInv
<1>7. CASE Fits(size, align, List) # {}
  <2>1. /\ i \in 1 .. Len(List) /\ b \in Within
        /\ need \in Nat /\ need >= 1 /\ need <= b.size
        /\ Pad(b.at, align) \in Nat /\ Pad(b.at, align) <= HeapSize
    BY <1>7, Chosen
  <2> HIDE DEF i, need
  <2>2. /\ t \in Within /\ Remainder(b, need) \in Seq(Within) /\ Len(Remainder(b, need)) \in {0, 1}
    BY <2>1, Cuts DEF TakenBlock
  <2>3. free' \in Seq(Within)
    BY <2>1, <2>2, <1>1, <1>5, <1>7, WithoutParts
  <2>4. BlockOf(piece) = t /\ piece \in Piece
    <3>1. t.at = b.at /\ t.size = Taken(b, need) /\ t \in Block
      BY <2>2 DEF Within, TakenBlock
    <3>2. b.at \in 0 .. HeapSize - 1 /\ Taken(b, need) \in 1 .. HeapSize /\ Pad(b.at, align) \in 0 .. HeapSize
      BY <3>1, <2>1, HeapNumbers DEF Block
    <3> QED BY <3>2 DEF BlockOf, Piece, TakenBlock
  <2>5. \A p \in held' : BlockOf(p) \in Within
    BY <2>2, <2>4, <1>1, <1>2, <1>7
  <2>6. ASSUME ~emptied' PROVE Tiles(free', held', cut)
    <3>0. t = TakenBlock(List[i], need) /\ Tiles(List, held, cut) /\ Cuttable(List, i, need)
      BY <2>1, <2>6, <1>5 DEF Cuttable
    <3>2. List \in Seq(Within) /\ (\A p \in held : BlockOf(p) \in Within) /\ cut \in SUBSET Within
      BY <1>2, <1>5
    <3> HIDE DEF t, piece
    <3>1. /\ t \in Within /\ t \notin cut
          /\ Tiles(Without(List, i, Remainder(List[i], need)), held, cut \cup {t})
      BY <3>0, <3>2, TakeTiles, Zenon
    <3>3. free' = Without(List, i, Remainder(List[i], need))
      BY <1>1, <1>7
    <3>4. t \notin cut /\ Tiles(free', held, cut \cup {t})
      BY <3>1, <3>3
    <3>5. Tiles(free', held \cup {piece}, cut)
      BY <3>1, <3>4, <2>3, <2>4, <1>2, HandOverTiles
    <3> QED BY <3>5, <1>1, <1>7
  <2>7. held' \subseteq Piece
    BY <2>4, <1>1, <1>2, <1>7
  <2> QED BY <2>3, <2>5, <2>6, <2>7, <1>1, <1>2, <1>3, <1>4, NewHeapInv DEF HeapIInv, HeapTypeOK
<1> QED BY <1>6, <1>7

LEMMA AllocateFailsKeeps ==
  ASSUME HeapIInv, ~emptied, NEW t \in Threads, NEW size \in Requests, AllocateFails(t, size)
  PROVE  HeapIInv'
<1>1. /\ heapMutex = Nobody /\ Start /\ free' = List
      /\ UNCHANGED <<kernelHeap, held, heapMutex, place, cut>>
  BY DEF AllocateFails
<1>2. /\ free \in Seq(Within) /\ cut \in SUBSET Within /\ (\A p \in held : BlockOf(p) \in Within)
      /\ held \subseteq Piece
      /\ place.block \in Within /\ place.rest \in Seq(Within)
      /\ place \in [step : {"out", "split", "link", "touch"}, block : Block, rest : Seq(Block), index : Nat]
  BY HeapParts
<1>3. place.step = "out" /\ emptied' \in BOOLEAN /\ started' = TRUE /\ kernelHeap' \in BOOLEAN
  BY <1>1 DEF HeapIInv, HeapTypeOK, Start
<1>4. place' \in [step : {"out"}, block : Within, rest : Seq(Within), index : Nat]
  BY <1>1, <1>2, <1>3
<1>5. List \in Seq(Within) /\ (~emptied' => Tiles(List, held, cut))
  BY <1>1, <1>3, ListParts
<1> QED BY <1>1, <1>2, <1>3, <1>4, <1>5, NewHeapInv

LEMMA ReleaseKeeps ==
  ASSUME HeapIInv, ~emptied, NEW p \in held, place.step = "out",
         free' = <<BlockOf(p)>> \o free, held' = held \ {p},
         UNCHANGED <<kernelHeap, started, heapMutex, place, cut, emptied>>
  PROVE  HeapIInv'
<1>1. /\ free \in Seq(Within) /\ cut \in SUBSET Within /\ (\A q \in held : BlockOf(q) \in Within)
      /\ held \subseteq Piece
      /\ place.block \in Within /\ place.rest \in Seq(Within)
      /\ place \in [step : {"out", "split", "link", "touch"}, block : Block, rest : Seq(Block), index : Nat]
  BY HeapParts
<1>2. started = TRUE /\ kernelHeap \in BOOLEAN /\ emptied \in BOOLEAN /\ heapMutex = Nobody
      /\ Tiles(free, held, cut)
  BY DEF HeapIInv, HeapTypeOK
<1>3. <<BlockOf(p)>> \o free \in Seq(Within) /\ Tiles(<<BlockOf(p)>> \o free, held \ {p}, cut)
  BY <1>1, <1>2, ReleaseTiles
<1>4. place' \in [step : {"out"}, block : Within, rest : Seq(Within), index : Nat]
  BY <1>1
<1>5. free' \in Seq(Within) /\ Tiles(free', held', cut')
  BY <1>3
<1> QED BY <1>1, <1>2, <1>4, <1>5, NewHeapInv

\* The list L ends at the block at i, of which one is known, and rest follows when it is linked.
CutAt(L, i, R, one, N, rest) ==
  N = Spliced(L, i, <<one>>) /\ rest = R \o SubSeq(L, i + 1, Len(L))

LinkedAgain(L, i, R, one, N, rest) ==
  /\ N \in Seq(Within) /\ DOMAIN N = 1 .. i /\ Len(N) = i /\ N[i] = one
  /\ rest \in Seq(Within)
  /\ Spliced(N, i, rest) = Without(L, i, R)

\* Cutting the list at a block and linking it again takes out just that block.
LEMMA RelinkParts ==
  ASSUME NEW L \in Seq(Within), NEW i, i \in 1 .. Len(L), NEW R \in Seq(Within), NEW one \in Within,
         NEW N, NEW rest, CutAt(L, i, R, one, N, rest)
  PROVE  LinkedAgain(L, i, R, one, N, rest)
<1>0. N = Spliced(L, i, <<one>>) /\ rest = R \o SubSeq(L, i + 1, Len(L))
  BY DEF CutAt
<1> DEFINE s == <<one>>
<1>1. s \in Seq(Within) /\ Len(s) = 1 /\ s[1] = one
  OBVIOUS
<1>2. N = Spliced(L, i, s)
  BY <1>0
<1> HIDE DEF s
<1>3. SplicedParts(L, i, s, N)
  BY <1>1, <1>2, SpliceParts
<1>4. Len(L) \in Nat /\ \A k \in 1 .. Len(L) : L[k] \in Within
  BY LenProperties, ElementOfSeq
<1>5. N \in Seq(Within) /\ DOMAIN N = 1 .. i /\ \A k \in 1 .. i - 1 : N[k] = L[k]
  BY <1>1, <1>3, <1>4 DEF SplicedParts
<1>6. N[i] = one
  <2>1. N[(i - 1) + 1] = s[1]
    BY <1>1, <1>3 DEF SplicedParts
  <2> QED BY <2>1, <1>1, <1>4
<1>7. Len(N) = i
  BY <1>4, <1>5, LenProperties
<1> DEFINE A == SubSeq(L, 1, i - 1)
           M == SubSeq(N, 1, i - 1)
           B == SubSeq(L, i + 1, Len(L))
<1>i. i \in Nat /\ i >= 1 /\ i <= Len(L) /\ i - 1 \in Int /\ 1 \in Int
  BY <1>4
<1>8. A \in Seq(Within) /\ Len(A) = i - 1 /\ \A k \in 1 .. i - 1 : A[k] = L[k]
  <2>1. \A k \in 1 .. i - 1 : L[k] \in Within
    BY <1>4
  <2>2. /\ A \in Seq(Within) /\ Len(A) = IF 1 <= i - 1 THEN (i - 1) - 1 + 1 ELSE 0
        /\ \A k \in 1 .. (i - 1) - 1 + 1 : A[k] = L[1 + k - 1]
    BY <2>1, SubSeqProperties
  <2> HIDE DEF A
  <2> QED BY <2>2, <1>4
<1>9. M \in Seq(Within) /\ Len(M) = i - 1 /\ \A k \in 1 .. i - 1 : M[k] = N[k]
  <2>1. \A k \in 1 .. i - 1 : N[k] \in Within
    <3>1. \A k \in 1 .. i - 1 : k \in 1 .. Len(L)
      BY <1>4, <1>i
    <3> QED BY <3>1, <1>4, <1>5
  <2>2. /\ M \in Seq(Within) /\ Len(M) = IF 1 <= i - 1 THEN (i - 1) - 1 + 1 ELSE 0
        /\ \A k \in 1 .. (i - 1) - 1 + 1 : M[k] = N[1 + k - 1]
    BY <2>1, <1>i, SubSeqProperties
  <2> HIDE DEF M
  <2> QED BY <2>2, <1>i
<1>10. B \in Seq(Within)
  <2>1. \A k \in i + 1 .. Len(L) : L[k] \in Within
    BY <1>4
  <2> QED BY <1>4, <2>1, SubSeqProperties
<1> HIDE DEF A, M, B
<1>11. A = M
  <2>1. Len(A) = Len(M) /\ \A k \in 1 .. Len(A) : A[k] = M[k]
    BY <1>5, <1>8, <1>9
  <2> QED BY <2>1, <1>8, <1>9, SeqEqual
<1>12. R \o B \in Seq(Within) /\ (A \o R) \o B = A \o (R \o B)
  <2>1. A \in Seq(Within) /\ B \in Seq(Within)
    BY <1>8, <1>10
  <2>2. (A \o R) \o B = A \o (R \o B)
    BY <2>1
  <2>3. R \o B \in Seq(Within)
    BY <2>1, ConcatProperties, Zenon
  <2> QED BY <2>2, <2>3
<1>13. rest = R \o B
  BY <1>0 DEF B
<1>14. Spliced(N, i, rest) = M \o rest
  BY DEF Spliced, M
<1>15. Without(L, i, R) = (A \o R) \o B
  BY DEF Without, A, B
<1> QED BY <1>5, <1>6, <1>7, <1>11, <1>12, <1>13, <1>14, <1>15 DEF LinkedAgain

\* The invariant in a state in which a thread is taking a block.
LEMMA TakingHeapInv ==
  ASSUME kernelHeap' = FALSE, started' = TRUE, emptied' \in BOOLEAN,
         free' \in Seq(Within), held' \subseteq Piece, \A p \in held' : BlockOf(p) \in Within, cut' \subseteq Within,
         heapMutex' \in Threads, 
         place' \in [step : {"split", "link", "touch"}, block : Within, rest : Seq(Within), index : Nat],
         ~emptied' => IF place'.step = "touch"
                        THEN place'.block \notin cut' /\ Tiles(free', held', cut' \cup {place'.block})
                        ELSE TakingBlock'
  PROVE  HeapIInv'
<1>1. /\ place'.step \in {"split", "link", "touch"} /\ place'.block \in Within /\ place'.rest \in Seq(Within)
  OBVIOUS
<1>2. place' \in [step : {"out", "split", "link", "touch"}, block : Block, rest : Seq(Block), index : Nat]
  BY WithinSeq DEF Within
<1>3. free' \in Seq(Block) /\ cut' \subseteq Block
  BY WithinSeq DEF Within
<1>4. HeapTypeOK'
  BY <1>2, <1>3 DEF HeapTypeOK
<1>5. heapMutex' # Nobody
  BY NobodyAssumption
<1> QED BY <1>1, <1>4, <1>5 DEF HeapIInv

LEMMA BeginAllocateKeeps ==
  ASSUME HeapIInv, ~emptied, NEW t \in Threads, NEW size \in Requests, BeginAllocate(t, size)
  PROVE  HeapIInv'
<1> DEFINE i == Min(Fits(size, 0, List))
           b == List[i]
           need == Need(size, 0, b)
           one == [at |-> b.at, size |-> need]
           R == Remainder(b, need)
           rest == R \o SubSeq(List, i + 1, Len(List))
           new == TakenBlock(b, need)
           s == IF Splits(b, need) THEN "split" ELSE "link"
<1>1. /\ ~kernelHeap /\ heapMutex = Nobody /\ heapMutex' = t /\ Start
      /\ Fits(size, 0, List) # {}
      /\ free' = Spliced(List, i, <<one>>)
      /\ place' = [step |-> s, index |-> i, block |-> new, rest |-> rest]
      /\ UNCHANGED <<kernelHeap, held, cut>>
  BY DEF BeginAllocate, TakeHeapMutex, Spliced, TakenBlock
<1>2. /\ free \in Seq(Within) /\ cut \in SUBSET Within /\ (\A p \in held : BlockOf(p) \in Within)
      /\ held \subseteq Piece
  BY HeapParts
<1>3. place.step = "out" /\ emptied' \in BOOLEAN /\ started' = TRUE /\ kernelHeap' = FALSE
  BY <1>1 DEF HeapIInv, HeapTypeOK, Start
<1>4. List \in Seq(Within) /\ (~emptied' => Tiles(List, held, cut))
  BY <1>1, <1>3, ListParts
<1>5. /\ i \in 1 .. Len(List) /\ b \in Within
      /\ need \in Nat /\ need >= 1 /\ need <= b.size
  BY <1>1, Chosen
<1>6. Cuttable(List, i, need)
  BY <1>5 DEF Cuttable
<1> HIDE DEF i, need
<1>7. /\ new \in Within /\ R \in Seq(Within) /\ need <= new.size /\ new.at = b.at
  <2>1. /\ need <= Taken(b, need) /\ [at |-> b.at, size |-> Taken(b, need)] \in Within /\ R \in Seq(Within)
    BY <1>5, Cuts
  <2> QED BY <2>1 DEF TakenBlock
<1>8. one \in Within /\ one.at = b.at /\ one.size = need
  <2>1. b.at \in Nat /\ b.size \in Nat /\ b.at + b.size <= HeapSize
    BY <1>5, WithinParts
  <2>2. b.at + need <= HeapSize
    BY <2>1, <1>5, HeapNumbers
  <2> QED BY <2>1, <2>2, <1>5, IsWithin
<1> HIDE DEF one, R, b, new, s
<1>9. rest = R \o SubSeq(List, i + 1, Len(List))
  OBVIOUS
<1> HIDE DEF rest
<1>10. /\ free' \in Seq(Within) /\ DOMAIN free' = 1 .. i /\ Len(free') = i /\ free'[i] = one
       /\ rest \in Seq(Within)
       /\ Spliced(free', i, rest) = Without(List, i, R)
  <2>1. /\ List \in Seq(Within) /\ i \in 1 .. Len(List) /\ R \in Seq(Within) /\ one \in Within
        /\ free' = Spliced(List, i, <<one>>)
    BY <1>1, <1>4, <1>5, <1>7, <1>8
  <2>2. CutAt(List, i, R, one, free', rest)
    BY <2>1, <1>9 DEF CutAt
  <2>3. LinkedAgain(List, i, R, one, free', rest)
    BY <2>1, <2>2, RelinkParts
  <2> QED BY <2>3 DEF LinkedAgain
<1>11. s \in {"split", "link"} /\ i \in Nat /\ i >= 1
  BY <1>4, <1>5, LenProperties DEF s
<1>12. place' \in [step : {"split", "link", "touch"}, block : Within, rest : Seq(Within), index : Nat]
  BY <1>1, <1>7, <1>10, <1>11
<1>13. ASSUME ~emptied' PROVE TakingBlock'
  <2>1. List \in Seq(Within) /\ (\A p \in held : BlockOf(p) \in Within) /\ cut \in SUBSET Within
        /\ Tiles(List, held, cut) /\ new = TakenBlock(List[i], need)
    BY <1>2, <1>4, <1>13 DEF new, b
  <2>2. /\ new \in Within /\ new \notin cut
        /\ Tiles(Without(List, i, Remainder(List[i], need)), held, cut \cup {new})
    BY <2>1, <1>6, TakeTiles, Zenon
  <2>3. Tiles(Spliced(free', i, rest), held, cut \cup {new})
    BY <2>2, <1>10 DEF R, b
  <2>4. place'.index = i /\ place'.block = new /\ place'.rest = rest
    BY <1>1
  <2>5. i \in DOMAIN free'
    BY <1>10, <1>11
  <2> QED BY <2>2, <2>3, <2>4, <2>5, <1>1, <1>7, <1>8, <1>10 DEF TakingBlock, Relinked
<1>14. place'.step # "touch"
  BY <1>1, <1>11
<1> QED BY <1>1, <1>2, <1>3, <1>10, <1>12, <1>13, <1>14, TakingHeapInv

\* What is known of a thread that is inside an allocation.
LEMMA InsideParts ==
  ASSUME HeapIInv, ~emptied, NEW t \in Threads, heapMutex = t
  PROVE  /\ kernelHeap = FALSE /\ started = TRUE /\ emptied = FALSE /\ place.step \in {"split", "link", "touch"}
         /\ place.step # "touch" => TakingBlock
         /\ place.step = "touch" => place.block \notin cut /\ Tiles(free, held, cut \cup {place.block})
         /\ place \in [step : {"split", "link", "touch"}, block : Within, rest : Seq(Within), index : Nat]
<1>1. heapMutex # Nobody
  BY NobodyAssumption
<1>2. place \in [step : {"out", "split", "link", "touch"}, block : Block, rest : Seq(Block), index : Nat]
      /\ place.block \in Within /\ place.rest \in Seq(Within)
  BY HeapParts
<1>3. place.step # "out" /\ place.step \in {"split", "link", "touch"}
  BY <1>1, <1>2 DEF HeapIInv
<1>4. started /\ ~kernelHeap /\ started \in BOOLEAN /\ kernelHeap \in BOOLEAN /\ emptied \in BOOLEAN
  BY <1>3 DEF HeapIInv, HeapTypeOK
<1>5. place.step = "split" \/ place.step = "link" => TakingBlock
  BY <1>4 DEF HeapIInv
<1>6. place.step = "touch" => place.block \notin cut /\ Tiles(free, held, cut \cup {place.block})
  BY <1>4 DEF HeapIInv
<1> QED BY <1>2, <1>3, <1>4, <1>5, <1>6

LEMMA WriteRemainderKeeps ==
  ASSUME HeapIInv, ~emptied, NEW t \in Threads, WriteRemainder(t)
  PROVE  HeapIInv'
<1>1. /\ heapMutex = t /\ place.step = "split" /\ place' = [place EXCEPT !.step = "link"]
      /\ UNCHANGED <<kernelHeap, started, free, held, heapMutex, cut, emptied>>
  BY DEF WriteRemainder, Goto
<1>2. /\ free \in Seq(Within) /\ cut \in SUBSET Within /\ (\A p \in held : BlockOf(p) \in Within)
      /\ held \subseteq Piece
  BY HeapParts
<1>3. /\ kernelHeap = FALSE /\ started = TRUE /\ emptied = FALSE /\ TakingBlock
      /\ place \in [step : {"split", "link", "touch"}, block : Within, rest : Seq(Within), index : Nat]
  BY <1>1, InsideParts
<1>4. /\ place' \in [step : {"split", "link", "touch"}, block : Within, rest : Seq(Within), index : Nat]
      /\ place'.step = "link" /\ place'.index = place.index /\ place'.block = place.block /\ place'.rest = place.rest
  BY <1>1, <1>3
<1>5. TakingBlock'
  BY <1>1, <1>3, <1>4 DEF TakingBlock, Relinked
<1> QED BY <1>1, <1>2, <1>3, <1>4, <1>5, TakingHeapInv

LEMMA RelinkedParts ==
  ASSUME HeapIInv, TakingBlock
  PROVE  Relinked \in Seq(Within) /\ place.index \in 1 .. Len(free) /\ place.index = Len(free)
<1>1. free \in Seq(Within) /\ place.rest \in Seq(Within)
  BY HeapParts
<1>2. place.index \in 1 .. Len(free) /\ place.index = Len(free)
  BY <1>1, LenProperties DEF TakingBlock
<1>3. SplicedParts(free, place.index, place.rest, Relinked)
  BY <1>1, <1>2, SpliceParts DEF Relinked
<1> QED BY <1>2, <1>3 DEF SplicedParts

LEMMA LinkKeeps ==
  ASSUME HeapIInv, ~emptied, NEW t \in Threads, Link(t)
  PROVE  HeapIInv'
<1>1. /\ heapMutex = t /\ place.step = "link" /\ place' = [place EXCEPT !.step = "touch"]
      /\ free' = Relinked
      /\ UNCHANGED <<kernelHeap, started, held, heapMutex, cut, emptied>>
  BY DEF Link, Goto, Relinked, Spliced
<1>2. /\ cut \in SUBSET Within /\ (\A p \in held : BlockOf(p) \in Within) /\ held \subseteq Piece
  BY HeapParts
<1>3. /\ kernelHeap = FALSE /\ started = TRUE /\ emptied = FALSE /\ TakingBlock
      /\ place \in [step : {"split", "link", "touch"}, block : Within, rest : Seq(Within), index : Nat]
  BY <1>1, InsideParts
<1>4. /\ place' \in [step : {"split", "link", "touch"}, block : Within, rest : Seq(Within), index : Nat]
      /\ place'.step = "touch" /\ place'.block = place.block
  BY <1>1, <1>3
<1>5. free' \in Seq(Within)
  BY <1>1, <1>3, RelinkedParts
<1>6. place.block \notin cut /\ Tiles(Relinked, held, cut \cup {place.block})
  BY <1>3 DEF TakingBlock
<1>7. place'.block \notin cut' /\ Tiles(free', held', cut' \cup {place'.block})
  BY <1>1, <1>4, <1>6
<1> QED BY <1>1, <1>2, <1>3, <1>4, <1>5, <1>7, TakingHeapInv

LEMMA EndAllocateKeeps ==
  ASSUME HeapIInv, ~emptied, NEW t \in Threads, EndAllocate(t)
  PROVE  HeapIInv'
<1> DEFINE b == place.block
           h == [at |-> b.at, size |-> b.size, pad |-> 0]
<1>1. /\ heapMutex = t /\ place.step = "touch" /\ held' = held \cup {h}
      /\ place' = Outside /\ heapMutex' = Nobody
      /\ UNCHANGED <<kernelHeap, started, free, cut, emptied>>
  BY DEF EndAllocate
<1>2. /\ free \in Seq(Within) /\ cut \in SUBSET Within /\ (\A p \in held : BlockOf(p) \in Within)
      /\ held \subseteq Piece /\ b \in Within
  BY HeapParts
<1>3. /\ kernelHeap = FALSE /\ started = TRUE /\ emptied = FALSE
      /\ b \notin cut /\ Tiles(free, held, cut \cup {b})
  BY <1>1, InsideParts
<1>4. BlockOf(h) = b /\ h \in Piece
  <2>1. b = [at |-> b.at, size |-> b.size] /\ b \in Block
    BY <1>2, WithinParts
  <2>2. b.at \in 0 .. HeapSize - 1 /\ b.size \in 1 .. HeapSize /\ 0 \in 0 .. HeapSize
    BY <2>1, HeapNumbers DEF Block
  <2>3. BlockOf(h) = [at |-> b.at, size |-> b.size]
    BY DEF BlockOf
  <2>4. h \in Piece
    BY <2>2 DEF Piece
  <2> HIDE DEF b, h
  <2> QED BY <2>1, <2>3, <2>4
<1> HIDE DEF b, h
<1>5. Tiles(free, held \cup {h}, cut)
  BY <1>2, <1>3, <1>4, HandOverTiles
<1>6. place' \in [step : {"out"}, block : Within, rest : Seq(Within), index : Nat]
  BY <1>1, OutsideParts
<1>7. held' \subseteq Piece /\ (\A p \in held' : BlockOf(p) \in Within)
  BY <1>1, <1>2, <1>4
<1>8. free' \in Seq(Within) /\ cut' \subseteq Within /\ Tiles(free', held', cut')
  BY <1>1, <1>2, <1>5
<1> QED BY <1>1, <1>3, <1>6, <1>7, <1>8, NewHeapInv

LEMMA DieInAllocateKeeps ==
  ASSUME HeapIInv, ~emptied, NEW t \in Threads, DieInAllocate(t)
  PROVE  HeapIInv'
<1> DEFINE b == place.block
           i == place.index
           rest == place.rest
<1>1. /\ heapMutex = t /\ cut' = cut \cup Lost
      /\ place' = Outside /\ heapMutex' = Nobody
      /\ UNCHANGED <<kernelHeap, started, free, held, emptied>>
  BY DEF DieInAllocate
<1>2. /\ free \in Seq(Within) /\ cut \in SUBSET Within /\ (\A p \in held : BlockOf(p) \in Within)
      /\ held \subseteq Piece /\ b \in Within /\ rest \in Seq(Within)
  BY HeapParts
<1>3. /\ kernelHeap = FALSE /\ started = TRUE /\ emptied = FALSE
      /\ place.step # "touch" => TakingBlock
      /\ place.step = "touch" => b \notin cut /\ Tiles(free, held, cut \cup {b})
  BY <1>1, InsideParts
<1>4. Lost \subseteq Within /\ Tiles(free, held, cut \cup Lost)
  <2>1. CASE place.step = "touch"
    <3>1. Lost = {b}
      BY <2>1 DEF Lost
    <3> QED BY <2>1, <3>1, <1>2, <1>3
  <2>2. CASE place.step # "touch"
    <3>1. Lost = Range(rest) \cup EndOf(b, free[i].size)
      BY <2>2 DEF Lost
    <3>2. TakingBlock
      BY <2>2, <1>3
    <3>3. i \in 1 .. Len(free) /\ i = Len(free)
      BY <3>2, RelinkedParts
    <3>4. /\ free[i].at = b.at /\ free[i].size <= b.size /\ b \notin cut
          /\ Tiles(Spliced(free, i, rest), held, cut \cup {b})
      BY <3>2 DEF TakingBlock, Relinked
    <3> HIDE DEF b, i, rest
    <3>5. /\ Range(rest) \cup EndOf(b, free[i].size) \subseteq Within
          /\ Tiles(free, held, cut \cup (Range(rest) \cup EndOf(b, free[i].size)))
      BY <1>2, <3>3, <3>4, DyingTiles
    <3> QED BY <3>1, <3>5
  <2> QED BY <2>1, <2>2
<1>5. place' \in [step : {"out"}, block : Within, rest : Seq(Within), index : Nat]
  BY <1>1, OutsideParts
<1>6. free' \in Seq(Within) /\ cut' \subseteq Within /\ Tiles(free', held', cut')
  BY <1>1, <1>2, <1>4
<1> QED BY <1>1, <1>2, <1>3, <1>5, <1>6, NewHeapInv

LEMMA InitHeap == HeapInit => HeapIInv
<1> SUFFICES ASSUME HeapInit PROVE HeapIInv
  OBVIOUS
<1>1. /\ kernelHeap \in BOOLEAN /\ started = FALSE /\ free = <<>> /\ held = {}
      /\ heapMutex = Nobody /\ place = Outside /\ cut = {} /\ emptied = FALSE
  BY DEF HeapInit
<1>2. place \in [step : {"out"}, block : Within, rest : Seq(Within), index : Nat]
  BY <1>1, OutsideParts
<1>3. place \in [step : {"out", "split", "link", "touch"}, block : Block, rest : Seq(Block), index : Nat]
      /\ place.step = "out" /\ place.block \in Within /\ place.rest \in Seq(Within)
  BY <1>2, WithinSeq DEF Within
<1>4. free \in Seq(Block) /\ free \in Seq(Within)
  BY <1>1, EmptySeq
<1>5. HeapTypeOK
  BY <1>1, <1>3, <1>4 DEF HeapTypeOK
<1> QED BY <1>1, <1>3, <1>4, <1>5 DEF HeapIInv

LEMMA NextHeap == HeapIInv /\ [HeapNext]_heapVars => HeapIInv'
<1> SUFFICES ASSUME HeapIInv, [HeapNext]_heapVars PROVE HeapIInv'
  OBVIOUS
<1>1. CASE UNCHANGED heapVars
  BY <1>1 DEF heapVars, HeapIInv, HeapTypeOK, TakingBlock, Relinked
<1>2. CASE HeapNext
  <2> ~emptied
    BY <1>2 DEF HeapNext
  <2>1. CASE KernelCalls
    <3>1. ASSUME NEW size \in Requests, NEW align \in Aligns, AllocateForKernel(size, align) PROVE HeapIInv'
      BY <3>1, AllocateForKernelKeeps
    <3>2. ASSUME NEW p \in held, DeAllocateForKernel(p) PROVE HeapIInv'
      <4>1. /\ kernelHeap /\ free' = <<BlockOf(p)>> \o free /\ held' = held \ {p}
            /\ UNCHANGED <<kernelHeap, started, heapMutex, place, cut, emptied>>
        BY <3>2 DEF DeAllocateForKernel
      <4>2. place.step = "out"
        BY <4>1 DEF HeapIInv
      <4> QED BY <4>1, <4>2, ReleaseKeeps
    <3> QED BY <2>1, <3>1, <3>2 DEF KernelCalls
  <2>2. ASSUME NEW t \in Threads, ThreadSteps(t) PROVE HeapIInv'
    <3>1. ASSUME NEW size \in Requests, BeginAllocate(t, size) PROVE HeapIInv'
      BY <3>1, BeginAllocateKeeps
    <3>2. ASSUME NEW size \in Requests, AllocateFails(t, size) PROVE HeapIInv'
      BY <3>2, AllocateFailsKeeps
    <3>3. ASSUME NEW p \in held, DeAllocate(t, p) PROVE HeapIInv'
      <4>1. /\ heapMutex = Nobody /\ free' = <<BlockOf(p)>> \o free /\ held' = held \ {p}
            /\ UNCHANGED <<kernelHeap, started, heapMutex, place, cut, emptied>>
        BY <3>3 DEF DeAllocate
      <4>2. place.step = "out"
        BY <4>1 DEF HeapIInv
      <4> QED BY <4>1, <4>2, ReleaseKeeps
    <3>4. CASE WriteRemainder(t)
      BY <3>4, WriteRemainderKeeps
    <3>5. CASE Link(t)
      BY <3>5, LinkKeeps
    <3>6. CASE EndAllocate(t)
      BY <3>6, EndAllocateKeeps
    <3>7. CASE DieInAllocate(t)
      BY <3>7, DieInAllocateKeeps
    <3> QED BY <2>2, <3>1, <3>2, <3>3, <3>4, <3>5, <3>6, <3>7 DEF ThreadSteps
  <2> QED BY <1>2, <2>1, <2>2 DEF HeapNext
<1> QED BY <1>1, <1>2

\* A byte that two claims have in common shows that they are one claim.
LEMMA OneClaimEach == ASSUME HeapIInv PROVE HeapTiles
<1> SUFFICES ASSUME started, ~emptied, place.step = "out", NEW byte \in 0 .. HeapSize - 1
             PROVE  Cardinality({c \in Claims : byte \in Bytes(c[2])}) = 1
  BY DEF HeapTiles
<1> DEFINE S == {c \in Claims : byte \in Bytes(c[2])}
<1>1. Tiles(free, held, cut)
  BY DEF HeapIInv
<1>2. /\ free \in Seq(Within) /\ cut \in SUBSET Within /\ (\A p \in held : BlockOf(p) \in Within)
  BY HeapParts
<1>3. /\ \A i \in 1 .. Len(free) : free[i] \in Within /\ Sized(free[i])
      /\ \A p \in held : Sized(p)
      /\ \A c \in cut : Sized(c)
      /\ DOMAIN free = 1 .. Len(free) /\ Len(free) \in Nat
  BY <1>2, SizedBlocks
<1>4. byte \in Nat
  BY HeapNumbers
<1>5. \A x : Sized(x) => (byte \in Bytes(x) <=> InBlock(byte, x))
  BY <1>4 DEF Sized, Bytes, InBlock
<1>6. \A p \in held : Sized(BlockOf(p)) /\ (byte \in Bytes(BlockOf(p)) <=> InBlock(byte, p))
  BY <1>3, <1>4, <1>5 DEF BlockOf, Sized, InBlock
<1>7. \A x, y : Sized(x) /\ Sized(y) /\ InBlock(byte, x) /\ InBlock(byte, y) => ~Apart(x, y)
  BY <1>4 DEF Sized, InBlock, Apart
<1>8. \A c : c \in S <=>
        \/ \E i \in DOMAIN free : c = <<i, free[i]>> /\ InBlock(byte, free[i])
        \/ \E p \in held : c = <<0, BlockOf(p)>> /\ InBlock(byte, p)
        \/ \E b \in cut : c = <<Len(free) + 1, b>> /\ InBlock(byte, b)
  BY <1>3, <1>5, <1>6 DEF Claims
<1> HIDE DEF S
<1>9. /\ \A i, j \in DOMAIN free : InBlock(byte, free[i]) /\ InBlock(byte, free[j]) => i = j
      /\ \A p, q \in held : InBlock(byte, p) /\ InBlock(byte, q) => p = q
      /\ \A b, c \in cut : InBlock(byte, b) /\ InBlock(byte, c) => b = c
      /\ \A i \in DOMAIN free, p \in held : ~(InBlock(byte, free[i]) /\ InBlock(byte, p))
      /\ \A i \in DOMAIN free, b \in cut : ~(InBlock(byte, free[i]) /\ InBlock(byte, b))
      /\ \A p \in held, b \in cut : ~(InBlock(byte, p) /\ InBlock(byte, b))
  <2>1. \A i, j \in DOMAIN free : InBlock(byte, free[i]) /\ InBlock(byte, free[j]) => i = j
    BY <1>1, <1>3, <1>7 DEF Tiles
  <2>2. \A p, q \in held : InBlock(byte, p) /\ InBlock(byte, q) => p = q
    BY <1>1, <1>3, <1>7 DEF Tiles
  <2>3. \A b, c \in cut : InBlock(byte, b) /\ InBlock(byte, c) => b = c
    BY <1>1, <1>3, <1>7 DEF Tiles
  <2>4. \A i \in DOMAIN free, p \in held : ~(InBlock(byte, free[i]) /\ InBlock(byte, p))
    BY <1>1, <1>3, <1>7 DEF Tiles
  <2>5. \A i \in DOMAIN free, b \in cut : ~(InBlock(byte, free[i]) /\ InBlock(byte, b))
    BY <1>1, <1>3, <1>7 DEF Tiles
  <2>6. \A p \in held, b \in cut : ~(InBlock(byte, p) /\ InBlock(byte, b))
    BY <1>1, <1>3, <1>7 DEF Tiles
  <2> QED BY <2>1, <2>2, <2>3, <2>4, <2>5, <2>6
<1>10. \A c, d \in S : c = d
  <2> SUFFICES ASSUME NEW c \in S, NEW d \in S PROVE c = d
    OBVIOUS
  <2>1. CASE \E i \in DOMAIN free : c = <<i, free[i]>> /\ InBlock(byte, free[i])
    <3>1. \E i \in DOMAIN free : d = <<i, free[i]>> /\ InBlock(byte, free[i])
      BY <2>1, <1>8, <1>9
    <3> QED BY <2>1, <3>1, <1>9
  <2>2. CASE \E p \in held : c = <<0, BlockOf(p)>> /\ InBlock(byte, p)
    <3>1. \E p \in held : d = <<0, BlockOf(p)>> /\ InBlock(byte, p)
      BY <2>2, <1>8, <1>9
    <3> QED BY <2>2, <3>1, <1>9
  <2>3. CASE \E b \in cut : c = <<Len(free) + 1, b>> /\ InBlock(byte, b)
    <3>1. \E b \in cut : d = <<Len(free) + 1, b>> /\ InBlock(byte, b)
      BY <2>3, <1>8, <1>9
    <3> QED BY <2>3, <3>1, <1>9
  <2> QED BY <2>1, <2>2, <2>3, <1>8
<1>11. \E c : c \in S
  <2>1. \/ \E i \in DOMAIN free : InBlock(byte, free[i])
        \/ \E p \in held : InBlock(byte, p)
        \/ \E b \in cut : InBlock(byte, b)
    BY <1>1 DEF Tiles
  <2> QED BY <2>1, <1>8
<1>12. PICK c : S = {c}
  BY <1>10, <1>11
<1>13. Cardinality(S) = 1
  BY <1>12, FS_Singleton
<1> QED BY <1>13 DEF S

\* Whatever is allocated and released in whatever order, and whichever threads die while
\* they allocate, every byte of a heap is in exactly one block: a free one, one that a
\* caller holds, or one that a dying thread left behind.
THEOREM HeapIsTiled == HeapSpec => []HeapTiles
<1>1. HeapInit => HeapIInv
  BY InitHeap
<1>2. HeapIInv /\ [HeapNext]_heapVars => HeapIInv'
  BY NextHeap
<1>3. HeapIInv => HeapTiles
  BY OneClaimEach
<1> QED BY <1>1, <1>2, <1>3, PTL DEF HeapSpec

-----------------------------------------------------------------------------
(* Pages: every page that is marked has one owner *)

\* Page is one that process p finds, or a kernel stack, or nobody any more.
Found(page, m, sb, lost) ==
  \/ \E p \in UserProc, k \in Kinds : page \in m[p][k]
  \/ \E b \in StackBlocks : page \in sb[b].pages
  \/ page \in lost

OwnedOnce(marked, m, sb, lost) ==
  /\ \A page \in Page : page \in marked <=> Found(page, m, sb, lost)
  /\ \A page \in Page, p, q \in UserProc, k, l \in Kinds :
       page \in m[p][k] /\ page \in m[q][l] => p = q /\ k = l
  /\ \A page \in Page, b, c \in StackBlocks : page \in sb[b].pages /\ page \in sb[c].pages => b = c
  /\ \A page \in Page, p \in UserProc, k \in Kinds, b \in StackBlocks :
       ~(page \in m[p][k] /\ page \in sb[b].pages)
  /\ \A page \in Page, p \in UserProc, k \in Kinds : ~(page \in m[p][k] /\ page \in lost)
  /\ \A page \in Page, b \in StackBlocks : ~(page \in sb[b].pages /\ page \in lost)

\* What a process has, by the stage of its life: s is that, m its pages, w its second
\* thread, f the page faults of its threads and x whether somebody holds its mutex.
BeforeLoad(m) == \A k \in Kinds : m[k] = {}
DuringLoad(m, next) ==
  /\ next \in 1 .. Len(LoadOrder)
  /\ \A j \in 1 .. Len(LoadOrder) : m[LoadOrder[j]] # {} <=> j < next
  /\ \A k \in Kinds : (\A j \in 1 .. Len(LoadOrder) : k # LoadOrder[j]) => m[k] = {}
InUse(m, w) ==
  /\ \A j \in 1 .. Len(LoadOrder) : m[LoadOrder[j]] # {}
  /\ m["dll"] # {} => m["dllpte"] # {}
  /\ \A k \in HeapPages : m[k] # {} => m["heappte"] # {}
  /\ w = "none" => m["threadpte"] = {} /\ m["threadstack"] = {}
  /\ w = "new" => m["threadpte"] # {} /\ m["threadstack"] = {}
  /\ w = "up" => m["threadpte"] # {}
DuringEnd(m, next) ==
  /\ \A j \in 1 .. Len(EndOrder) : j < next => m[EndOrder[j]] = {}
  /\ next <= Len(EndOrder) => m["pde"] # {}
  /\ \A k \in DOMAIN Table : m[k] # {} => m[Table[k]] # {}

\* A service that is between the look-up and the mapping holds the mutex, alone, and what it
\* found missing is still missing.
Mapping(f, who) == f[who].at \in {"table", "page"}
StillMissing(m, f, x) ==
  /\ \A who \in Who : f[who].at = "table" => m["heappte"] = {}
  /\ \A who \in Who : f[who].at = "page" => m["heappte"] # {} /\ m[f[who].on] = {}
  /\ \A who \in Who : Mapping(f, who) => x /\ f[who].on \in HeapPages
  /\ \A who, other \in Who : Mapping(f, who) /\ Mapping(f, other) => who = other

Lives(s, m, w, f, x) ==
  /\ s.at = "none" => BeforeLoad(m)
  /\ s.at = "load" => DuringLoad(m, s.next) /\ \A who \in Who : f[who].at = "no"
  /\ s.at \in {"none", "load"} => w = "none"
  /\ s.at = "up" => InUse(m, w) /\ StillMissing(m, f, x)
  /\ s.at = "end" => DuringEnd(m, s.next) /\ (s.next > 1 => w = "none")

PagesIInv ==
  /\ PagesTypeOK
  /\ OwnedOnce(pageMap, mapped, stackBlock, unreachable)
  /\ \A b \in StackBlocks : ~stackBlock[b].used => stackBlock[b].pages = {}
  /\ \A p \in UserProc : Lives(stage[p], mapped[p], thread[p], fault[p], pageMutex[p])

LEMMA Orders ==
  /\ Len(LoadOrder) = 7 /\ LoadOrder[1] = "pde" /\ LoadOrder[2] = "pte" /\ LoadOrder[3] = "stackpte"
  /\ LoadOrder[4] = "image" /\ LoadOrder[5] = "stack" /\ LoadOrder[6] = "header" /\ LoadOrder[7] = "env"
  /\ Len(EndOrder) = 16 /\ EndOrder[1] = "threadstack" /\ EndOrder[2] = "threadpte" /\ EndOrder[3] = "guipte"
  /\ EndOrder[4] = "dll" /\ EndOrder[5] = "dllpte" /\ EndOrder[6] = "header" /\ EndOrder[7] = "heap1"
  /\ EndOrder[8] = "heap2" /\ EndOrder[9] = "heap3" /\ EndOrder[10] = "heappte" /\ EndOrder[11] = "env"
  /\ EndOrder[12] = "image" /\ EndOrder[13] = "stack" /\ EndOrder[14] = "pte" /\ EndOrder[15] = "stackpte"
  /\ EndOrder[16] = "pde"
BY DEF LoadOrder, EndOrder

LEMMA KindsAre ==
  /\ Kinds = {"threadstack", "threadpte", "guipte", "dll", "dllpte", "header", "heap1", "heap2", "heap3",
              "heappte", "env", "image", "stack", "pte", "stackpte", "pde"}
  /\ \A k : k \in Kinds <=> \E j \in 1 .. 16 : k = EndOrder[j]
<1>1. DOMAIN EndOrder = 1 .. 16
  BY DEF EndOrder
<1>2. \A k : k \in Kinds <=> \E j \in 1 .. 16 : k = EndOrder[j]
  BY <1>1 DEF Kinds, Range
<1> HIDE DEF Kinds
<1>3. \A j \in 1 .. 16 : \/ j = 1 \/ j = 2 \/ j = 3 \/ j = 4 \/ j = 5 \/ j = 6 \/ j = 7 \/ j = 8 \/ j = 9
                         \/ j = 10 \/ j = 11 \/ j = 12 \/ j = 13 \/ j = 14 \/ j = 15 \/ j = 16
  OBVIOUS
<1>4. \A k \in Kinds : k \in {"threadstack", "threadpte", "guipte", "dll", "dllpte", "header", "heap1", "heap2",
                             "heap3", "heappte", "env", "image", "stack", "pte", "stackpte", "pde"}
  BY <1>2, <1>3, Orders
<1>5. /\ 1 \in 1 .. 16 /\ 2 \in 1 .. 16 /\ 3 \in 1 .. 16 /\ 4 \in 1 .. 16 /\ 5 \in 1 .. 16 /\ 6 \in 1 .. 16
      /\ 7 \in 1 .. 16 /\ 8 \in 1 .. 16 /\ 9 \in 1 .. 16 /\ 10 \in 1 .. 16 /\ 11 \in 1 .. 16
      /\ 12 \in 1 .. 16 /\ 13 \in 1 .. 16 /\ 14 \in 1 .. 16 /\ 15 \in 1 .. 16 /\ 16 \in 1 .. 16
  OBVIOUS
<1>6. {"threadstack", "threadpte", "guipte", "dll", "dllpte", "header", "heap1", "heap2", "heap3",
       "heappte", "env", "image", "stack", "pte", "stackpte", "pde"} \subseteq Kinds
  BY <1>2, <1>5, Orders
<1> QED BY <1>2, <1>4, <1>6

LEMMA HeapPagesAre ==
  /\ HeapPages = {"heap1", "heap2", "heap3"} /\ HeapPages \subseteq Kinds
  /\ "heappte" \notin HeapPages /\ "dll" \notin HeapPages /\ "dllpte" \notin HeapPages
  /\ "guipte" \notin HeapPages /\ "threadpte" \notin HeapPages /\ "threadstack" \notin HeapPages
  /\ \A j \in 1 .. 7 : LoadOrder[j] \notin HeapPages
<1>1. \A j \in 1 .. 7 : \/ j = 1 \/ j = 2 \/ j = 3 \/ j = 4 \/ j = 5 \/ j = 6 \/ j = 7
  OBVIOUS
<1> QED BY <1>1, KindsAre, Orders DEF HeapPages

LEMMA OrdersAreInjective ==
  /\ \A i, j \in 1 .. 7 : LoadOrder[i] = LoadOrder[j] => i = j
  /\ \A i, j \in 1 .. 16 : EndOrder[i] = EndOrder[j] => i = j
  /\ \A j \in 1 .. 7 : LoadOrder[j] \in Kinds
  /\ \A j \in 1 .. 16 : EndOrder[j] \in Kinds
<1>1. ASSUME NEW i \in 1 .. 7 PROVE \/ i = 1 \/ i = 2 \/ i = 3 \/ i = 4 \/ i = 5 \/ i = 6 \/ i = 7
  OBVIOUS
<1>2. ASSUME NEW i \in 1 .. 16
      PROVE  \/ i = 1 \/ i = 2 \/ i = 3 \/ i = 4 \/ i = 5 \/ i = 6 \/ i = 7 \/ i = 8 \/ i = 9
             \/ i = 10 \/ i = 11 \/ i = 12 \/ i = 13 \/ i = 14 \/ i = 15 \/ i = 16
  OBVIOUS
<1>3. \A j \in 1 .. 16 : EndOrder[j] \in Kinds
  BY KindsAre
<1>4. \A j \in 1 .. 7 : LoadOrder[j] \in Kinds
  BY <1>1, KindsAre, Orders
<1>5. \A i, j \in 1 .. 7 : LoadOrder[i] = LoadOrder[j] => i = j
  BY <1>1, Orders
<1>6. \A i, j \in 1 .. 16 : EndOrder[i] = EndOrder[j] => i = j
  BY <1>2, Orders, SMTT(20)
<1> QED BY <1>3, <1>4, <1>5, <1>6

LEMMA TableIs ==
  /\ DOMAIN Table = {"image", "header", "env", "stack", "dll", "threadstack"} \cup HeapPages
  /\ Table["image"] = "pte" /\ Table["header"] = "pte" /\ Table["env"] = "pte" /\ Table["stack"] = "stackpte"
  /\ Table["dll"] = "dllpte" /\ Table["threadstack"] = "threadpte"
  /\ \A k \in HeapPages : Table[k] = "heappte"
  /\ \A k \in DOMAIN Table : Table[k] \notin HeapPages
BY DEF Table, HeapPages

\* Each table is given back after what it maps.
LEMMA TablesAreLater ==
  \A k \in DOMAIN Table : \E i, j \in 1 .. 16 : j < i /\ EndOrder[j] = k /\ EndOrder[i] = Table[k]
<1> SUFFICES ASSUME NEW k \in DOMAIN Table
             PROVE  \E i, j \in 1 .. 16 : j < i /\ EndOrder[j] = k /\ EndOrder[i] = Table[k]
  OBVIOUS
<1>1. CASE k = "image"
  <2> WITNESS 14 \in 1 .. 16, 12 \in 1 .. 16
  <2> QED BY <1>1, Orders, TableIs
<1>2. CASE k = "header"
  <2> WITNESS 14 \in 1 .. 16, 6 \in 1 .. 16
  <2> QED BY <1>2, Orders, TableIs
<1>3. CASE k = "env"
  <2> WITNESS 14 \in 1 .. 16, 11 \in 1 .. 16
  <2> QED BY <1>3, Orders, TableIs
<1>4. CASE k = "stack"
  <2> WITNESS 15 \in 1 .. 16, 13 \in 1 .. 16
  <2> QED BY <1>4, Orders, TableIs
<1>5. CASE k = "dll"
  <2> WITNESS 5 \in 1 .. 16, 4 \in 1 .. 16
  <2> QED BY <1>5, Orders, TableIs
<1>6. CASE k = "heap1"
  <2> WITNESS 10 \in 1 .. 16, 7 \in 1 .. 16
  <2> QED BY <1>6, Orders, TableIs, HeapPagesAre
<1>7. CASE k = "heap2"
  <2> WITNESS 10 \in 1 .. 16, 8 \in 1 .. 16
  <2> QED BY <1>7, Orders, TableIs, HeapPagesAre
<1>8. CASE k = "heap3"
  <2> WITNESS 10 \in 1 .. 16, 9 \in 1 .. 16
  <2> QED BY <1>8, Orders, TableIs, HeapPagesAre
<1>9. CASE k = "threadstack"
  <2> WITNESS 2 \in 1 .. 16, 1 \in 1 .. 16
  <2> QED BY <1>9, Orders, TableIs
<1> QED BY <1>1, <1>2, <1>3, <1>4, <1>5, <1>6, <1>7, <1>8, <1>9, TableIs, HeapPagesAre

\* The life of one process, its pages m a function of the kinds.
LEMMA LoadingOn ==
  ASSUME NEW m, NEW n, NEW i, DuringLoad(m, i), NEW kind, kind = LoadOrder[i], n[kind] # {},
         \A k \in Kinds : k # kind => n[k] = m[k], NEW next, next = i + 1
  PROVE  /\ i < 7 => DuringLoad(n, next)
         /\ i = 7 => InUse(n, "none")
<1>1. /\ i \in 1 .. 7
      /\ \A j \in 1 .. 7 : m[LoadOrder[j]] # {} <=> j < i
      /\ \A k \in Kinds : (\A j \in 1 .. 7 : k # LoadOrder[j]) => m[k] = {}
  BY Orders DEF DuringLoad
<1>2. \A j \in 1 .. 7 : n[LoadOrder[j]] # {} <=> j < i + 1
  <2> SUFFICES ASSUME NEW j \in 1 .. 7 PROVE n[LoadOrder[j]] # {} <=> j < i + 1
    OBVIOUS
  <2>1. CASE j = i
    BY <2>1, <1>1
  <2>2. CASE j # i
    <3>1. LoadOrder[j] # LoadOrder[i] /\ LoadOrder[j] \in Kinds
      BY <2>2, <1>1, OrdersAreInjective
    <3>2. n[LoadOrder[j]] = m[LoadOrder[j]]
      BY <3>1
    <3> QED BY <3>2, <2>2, <1>1
  <2> QED BY <2>1, <2>2
<1>3. \A k \in Kinds : (\A j \in 1 .. 7 : k # LoadOrder[j]) => n[k] = {}
  BY <1>1
<1>4. i < 7 => DuringLoad(n, i + 1)
  BY <1>1, <1>2, <1>3, Orders DEF DuringLoad
<1>5. ASSUME i = 7 PROVE InUse(n, "none")
  <2>1. \A j \in 1 .. 7 : n[LoadOrder[j]] # {}
    BY <1>2, <1>5
  <2>2. /\ n["dll"] = {} /\ n["threadpte"] = {} /\ n["threadstack"] = {}
        /\ \A k \in HeapPages : n[k] = {}
    <3>1. ASSUME NEW k \in {"dll", "threadpte", "threadstack"} \cup HeapPages PROVE n[k] = {}
      <4>1. \A j \in 1 .. 7 : \/ j = 1 \/ j = 2 \/ j = 3 \/ j = 4 \/ j = 5 \/ j = 6 \/ j = 7
        OBVIOUS
      <4>2. \A j \in 1 .. 7 : k # LoadOrder[j]
        BY <4>1, Orders, HeapPagesAre
      <4>3. k \in Kinds
        BY KindsAre, HeapPagesAre
      <4> QED BY <4>2, <4>3, <1>3
    <3> QED BY <3>1
  <2> QED BY <2>1, <2>2, Orders DEF InUse
<1> QED BY <1>4, <1>5

LEMMA InUseParts ==
  ASSUME NEW m, NEW w, InUse(m, w)
  PROVE  /\ m["pde"] # {} /\ m["pte"] # {} /\ m["stackpte"] # {}
         /\ m["image"] # {} /\ m["stack"] # {} /\ m["header"] # {} /\ m["env"] # {}
<1>1. \A j \in 1 .. 7 : m[LoadOrder[j]] # {}
  BY Orders DEF InUse
<1> QED BY <1>1, Orders

LEMMA IsInUse ==
  ASSUME NEW m, NEW w,
         m["pde"] # {}, m["pte"] # {}, m["stackpte"] # {},
         m["image"] # {}, m["stack"] # {}, m["header"] # {}, m["env"] # {},
         m["dll"] # {} => m["dllpte"] # {}, \A k \in HeapPages : m[k] # {} => m["heappte"] # {},
         w = "none" => m["threadpte"] = {} /\ m["threadstack"] = {},
         w = "new" => m["threadpte"] # {} /\ m["threadstack"] = {},
         w = "up" => m["threadpte"] # {}
  PROVE  InUse(m, w)
<1>1. \A j \in 1 .. 7 : \/ j = 1 \/ j = 2 \/ j = 3 \/ j = 4 \/ j = 5 \/ j = 6 \/ j = 7
  OBVIOUS
<1>2. \A j \in 1 .. 7 : m[LoadOrder[j]] # {}
  BY <1>1, Orders
<1> QED BY <1>2, Orders DEF InUse

\* What is still missing when other pages come or go, or when a service gives up.
LEMMA MissingAsBefore ==
  ASSUME NEW m, NEW n, NEW f, NEW g, NEW x, NEW y, StillMissing(m, f, x),
         n["heappte"] = m["heappte"], \A k \in HeapPages : n[k] = m[k],
         \A who \in Who : Mapping(g, who) => g[who] = f[who] /\ y = x
  PROVE  StillMissing(n, g, y)
BY DEF StillMissing, Mapping

LEMMA EndingBegins ==
  ASSUME NEW m, NEW w \in {"none", "new", "up"}, InUse(m, w)
  PROVE  DuringEnd(m, 1)
<1>1. \A k \in DOMAIN Table : m[k] # {} => m[Table[k]] # {}
  <2>1. /\ m["dll"] # {} => m["dllpte"] # {}
        /\ \A k \in HeapPages : m[k] # {} => m["heappte"] # {}
        /\ m["threadstack"] # {} => m["threadpte"] # {}
    BY DEF InUse
  <2>2. m["pte"] # {} /\ m["stackpte"] # {}
    BY InUseParts
  <2> QED BY <2>1, <2>2, TableIs
<1>2. m["pde"] # {}
  BY InUseParts
<1>3. \A j \in 1 .. Len(EndOrder) : ~(j < 1)
  BY Orders
<1> QED BY <1>1, <1>2, <1>3 DEF DuringEnd

\* The pages of one kind are given back, and pages of the heap may be forgotten.
LEMMA EndingGoesOn ==
  ASSUME NEW m, NEW n, NEW i \in 1 .. 16, DuringEnd(m, i), n[EndOrder[i]] = {},
         \A k \in Kinds : k # EndOrder[i] => n[k] = m[k] \/ (k \in HeapPages /\ n[k] = {})
  PROVE  DuringEnd(n, i + 1)
<1>1. /\ \A j \in 1 .. 16 : j < i => m[EndOrder[j]] = {}
      /\ m["pde"] # {}
      /\ \A k \in DOMAIN Table : m[k] # {} => m[Table[k]] # {}
  BY Orders DEF DuringEnd
<1>2. ASSUME NEW j \in 1 .. 16, j < i + 1 PROVE n[EndOrder[j]] = {}
  <2>1. CASE j = i
    BY <2>1
  <2>2. CASE j # i
    <3>1. EndOrder[j] # EndOrder[i] /\ EndOrder[j] \in Kinds /\ j < i
      BY <2>2, <1>2, OrdersAreInjective
    <3> QED BY <3>1, <1>1
  <2> QED BY <2>1, <2>2
<1>3. ASSUME i + 1 <= 16 PROVE n["pde"] # {}
  <2>1. 16 \in 1 .. 16 /\ EndOrder[16] = "pde" /\ i # 16
    BY <1>3, Orders
  <2>2. EndOrder[16] # EndOrder[i] /\ EndOrder[16] \in Kinds
    BY <2>1, OrdersAreInjective
  <2> QED BY <2>1, <2>2, <1>1, HeapPagesAre
<1>4. ASSUME NEW k \in DOMAIN Table, n[k] # {} PROVE n[Table[k]] # {}
  <2>1. PICK t \in 1 .. 16, j \in 1 .. 16 : j < t /\ EndOrder[j] = k /\ EndOrder[t] = Table[k]
    BY TablesAreLater
  <2>2. k \in Kinds /\ Table[k] \in Kinds
    BY <2>1, OrdersAreInjective
  <2>3. k # EndOrder[i] /\ m[k] # {}
    BY <1>4, <2>2
  <2>4. ~(j < i)
    BY <1>1, <2>1, <2>3
  <2>5. t # i /\ EndOrder[t] # EndOrder[i]
    BY <2>1, <2>4, OrdersAreInjective
  <2>6. m[Table[k]] # {} /\ Table[k] \notin HeapPages
    BY <1>1, <2>3, TableIs
  <2> QED BY <2>1, <2>2, <2>5, <2>6
<1> QED BY <1>2, <1>3, <1>4, Orders DEF DuringEnd

LEMMA EndingIsOver ==
  ASSUME NEW m, NEW i \in Int, DuringEnd(m, i), i > 16
  PROVE  BeforeLoad(m)
<1>1. \A j \in 1 .. 16 : m[EndOrder[j]] = {}
  BY Orders DEF DuringEnd
<1> QED BY <1>1, KindsAre DEF BeforeLoad

LEMMA LoadBegins == ASSUME NEW m, BeforeLoad(m) PROVE DuringLoad(m, 1)
<1>1. \A j \in 1 .. 7 : m[LoadOrder[j]] = {} /\ ~(j < 1)
  BY OrdersAreInjective DEF BeforeLoad
<1> QED BY <1>1, Orders DEF DuringLoad, BeforeLoad

\* Whatever the stage, no table is gone before what it maps.
LEMMA TablesAreThere ==
  ASSUME NEW s, s.at \in {"none", "load", "up", "end"}, s.next \in 1 .. 17,
         NEW m, NEW w \in {"none", "new", "up"}, NEW f, NEW x, Lives(s, m, w, f, x)
  PROVE  /\ \A k \in DOMAIN Table : m[k] # {} => m[Table[k]] # {}
         /\ (\E k \in Kinds : m[k] # {}) => m["pde"] # {}
<1>1. CASE s.at = "none"
  <2>1. \A k \in Kinds : m[k] = {}
    BY <1>1 DEF Lives, BeforeLoad
  <2>2. \A k \in DOMAIN Table : k \in Kinds
    BY TableIs, KindsAre, HeapPagesAre
  <2> QED BY <2>1, <2>2
<1>2. CASE s.at = "load"
  <2>1. DuringLoad(m, s.next)
    BY <1>2 DEF Lives
  <2>2. /\ \A j \in 1 .. 7 : m[LoadOrder[j]] # {} <=> j < s.next
        /\ \A k \in Kinds : (\A j \in 1 .. 7 : k # LoadOrder[j]) => m[k] = {}
    BY <2>1, Orders DEF DuringLoad
  <2>3. /\ 1 \in 1 .. 7 /\ 2 \in 1 .. 7 /\ 3 \in 1 .. 7 /\ 4 \in 1 .. 7 /\ 5 \in 1 .. 7 /\ 6 \in 1 .. 7 /\ 7 \in 1 .. 7
    OBVIOUS
  <2>4. /\ m["pde"] # {} <=> 1 < s.next
        /\ m["pte"] # {} <=> 2 < s.next
        /\ m["stackpte"] # {} <=> 3 < s.next
        /\ m["image"] # {} <=> 4 < s.next
        /\ m["stack"] # {} <=> 5 < s.next
        /\ m["header"] # {} <=> 6 < s.next
        /\ m["env"] # {} <=> 7 < s.next
    BY <2>2, <2>3, Orders
  <2>5. m["dll"] = {} /\ m["threadstack"] = {} /\ \A k \in HeapPages : m[k] = {}
    <3>1. ASSUME NEW k \in {"dll", "threadstack"} \cup HeapPages PROVE m[k] = {}
      <4>1. \A j \in 1 .. 7 : \/ j = 1 \/ j = 2 \/ j = 3 \/ j = 4 \/ j = 5 \/ j = 6 \/ j = 7
        OBVIOUS
      <4>2. \A j \in 1 .. 7 : k # LoadOrder[j]
        BY <4>1, Orders, HeapPagesAre
      <4>3. k \in Kinds
        BY KindsAre, HeapPagesAre
      <4> QED BY <4>2, <4>3, <2>2
    <3> QED BY <3>1
  <2>6. \A k \in DOMAIN Table : m[k] # {} => m[Table[k]] # {}
    BY <2>4, <2>5, TableIs
  <2>7. ASSUME NEW k \in Kinds, m[k] # {} PROVE m["pde"] # {}
    <3>1. PICK j \in 1 .. 7 : k = LoadOrder[j]
      BY <2>2, <2>7
    <3>2. j < s.next
      BY <3>1, <2>2, <2>7
    <3> QED BY <3>2, <2>4
  <2> QED BY <2>6, <2>7
<1>3. CASE s.at = "up"
  <2>1. InUse(m, w)
    BY <1>3 DEF Lives
  <2>2. DuringEnd(m, 1) /\ m["pde"] # {}
    BY <2>1, EndingBegins, InUseParts
  <2> QED BY <2>2 DEF DuringEnd
<1>4. CASE s.at = "end"
  <2>1. DuringEnd(m, s.next)
    BY <1>4 DEF Lives
  <2>2. CASE s.next <= 16
    BY <2>1, <2>2, Orders DEF DuringEnd
  <2>3. CASE s.next > 16
    <3>1. BeforeLoad(m)
      BY <2>1, <2>3, EndingIsOver
    <3> QED BY <2>1, <3>1 DEF BeforeLoad, DuringEnd
  <2> QED BY <2>2, <2>3
<1> QED BY <1>1, <1>2, <1>3, <1>4

\* S is new in the pages n that processes have, of kind k in process p; those of kinds K
\* are gone.
Adds(m, n, p, k, S) ==
  /\ n[p][k] = m[p][k] \cup S
  /\ \A q \in UserProc, l \in Kinds : q # p \/ l # k => n[q][l] = m[q][l]
Empties(m, n, p, K) ==
  \A q \in UserProc, l \in Kinds : n[q][l] = IF q = p /\ l \in K THEN {} ELSE m[q][l]

\* What each kind of step does to the owners.
LEMMA TakenByProcess ==
  ASSUME NEW marked \in SUBSET Page, NEW m, NEW n, NEW sb, NEW lost, OwnedOnce(marked, m, sb, lost),
         NEW p \in UserProc, NEW k \in Kinds, NEW S \in SUBSET (Page \ marked), Adds(m, n, p, k, S),
         NEW after, after = marked \cup S
  PROVE  OwnedOnce(after, n, sb, lost)
<1> USE DEF Adds
<1>1. \A page \in S : page \in Page /\ ~Found(page, m, sb, lost)
  BY DEF OwnedOnce
<1>2. \A page \in S : /\ \A q \in UserProc, l \in Kinds : page \notin m[q][l]
                      /\ \A b \in StackBlocks : page \notin sb[b].pages
                      /\ page \notin lost
  BY <1>1 DEF Found
<1>3. \A page, q \in UserProc, l \in Kinds :
        page \in n[q][l] <=> page \in m[q][l] \/ (q = p /\ l = k /\ page \in S)
  OBVIOUS
<1>4. \A page \in Page : page \in marked \cup S <=> Found(page, n, sb, lost)
  BY <1>3 DEF OwnedOnce, Found
<1>5. \A page \in Page, q, r \in UserProc, l, j \in Kinds : page \in n[q][l] /\ page \in n[r][j] => q = r /\ l = j
  BY <1>2, <1>3 DEF OwnedOnce
<1> QED BY <1>2, <1>3, <1>4, <1>5 DEF OwnedOnce

LEMMA TakenByNobody ==
  ASSUME NEW marked \in SUBSET Page, NEW m, NEW sb, NEW lost, OwnedOnce(marked, m, sb, lost),
         NEW S \in SUBSET (Page \ marked), NEW after, after = marked \cup S, NEW gone, gone = lost \cup S
  PROVE  OwnedOnce(after, m, sb, gone)
<1>1. \A page \in S : page \in Page /\ ~Found(page, m, sb, lost)
  BY DEF OwnedOnce
<1>2. \A page \in S : /\ \A q \in UserProc, l \in Kinds : page \notin m[q][l]
                      /\ \A b \in StackBlocks : page \notin sb[b].pages
  BY <1>1 DEF Found
<1>3. \A page \in Page : page \in marked \cup S <=> Found(page, m, sb, lost \cup S)
  BY DEF OwnedOnce, Found
<1> QED BY <1>2, <1>3 DEF OwnedOnce

LEMMA TakenByStack ==
  ASSUME NEW marked \in SUBSET Page, NEW m, NEW sb, NEW tb, NEW lost, OwnedOnce(marked, m, sb, lost),
         NEW b \in StackBlocks, NEW S \in SUBSET (Page \ marked), sb[b].pages = {}, tb[b].pages = S,
         \A c \in StackBlocks : c # b => tb[c] = sb[c], NEW after, after = marked \cup S
  PROVE  OwnedOnce(after, m, tb, lost)
<1>1. \A page \in S : page \in Page /\ ~Found(page, m, sb, lost)
  BY DEF OwnedOnce
<1>2. \A page \in S : /\ \A q \in UserProc, l \in Kinds : page \notin m[q][l]
                      /\ \A c \in StackBlocks : page \notin sb[c].pages
                      /\ page \notin lost
  BY <1>1 DEF Found
<1>3. \A page, c \in StackBlocks : page \in tb[c].pages <=> page \in sb[c].pages \/ (c = b /\ page \in S)
  OBVIOUS
<1>4. \A page \in Page : page \in marked \cup S <=> Found(page, m, tb, lost)
  BY <1>3 DEF OwnedOnce, Found
<1>5. \A page \in Page, c, d \in StackBlocks : page \in tb[c].pages /\ page \in tb[d].pages => c = d
  BY <1>2, <1>3 DEF OwnedOnce
<1> QED BY <1>2, <1>3, <1>4, <1>5 DEF OwnedOnce

LEMMA GivenByProcess ==
  ASSUME NEW marked \in SUBSET Page, NEW m, NEW n, NEW sb, NEW lost, OwnedOnce(marked, m, sb, lost),
         NEW p \in UserProc, NEW K \in SUBSET Kinds, NEW S,
         \A page \in Page : page \in S <=> \E k \in K : page \in m[p][k],
         Empties(m, n, p, K)
  PROVE  /\ OwnedOnce(marked \ S, n, sb, lost)
         /\ OwnedOnce(marked, n, sb, lost \cup S)
<1> USE DEF Empties
<1>1. \A page, q \in UserProc, l \in Kinds : page \in n[q][l] <=> page \in m[q][l] /\ ~(q = p /\ l \in K)
  OBVIOUS
<1>2. \A page \in Page, q \in UserProc, l \in Kinds : page \in m[q][l] /\ page \in S => q = p /\ l \in K
  BY DEF OwnedOnce
<1>3. \A page \in Page : page \in S => page \notin lost /\ \A b \in StackBlocks : page \notin sb[b].pages
  BY DEF OwnedOnce
<1>4. \A page \in Page : page \in marked \ S <=> Found(page, n, sb, lost)
  <2> SUFFICES ASSUME NEW page \in Page PROVE page \in marked \ S <=> Found(page, n, sb, lost)
    OBVIOUS
  <2>1. page \in marked <=> Found(page, m, sb, lost)
    BY DEF OwnedOnce
  <2>2. CASE page \in S
    BY <2>2, <1>1, <1>2, <1>3 DEF Found
  <2>3. CASE page \notin S
    BY <2>1, <2>3, <1>1 DEF Found
  <2> QED BY <2>2, <2>3
<1>5. \A page \in Page : page \in marked <=> Found(page, n, sb, lost \cup S)
  <2> SUFFICES ASSUME NEW page \in Page PROVE page \in marked <=> Found(page, n, sb, lost \cup S)
    OBVIOUS
  <2>1. page \in marked <=> Found(page, m, sb, lost)
    BY DEF OwnedOnce
  <2>2. CASE page \in S
    BY <2>1, <2>2 DEF Found
  <2>3. CASE page \notin S
    BY <2>1, <2>3, <1>1 DEF Found
  <2> QED BY <2>2, <2>3
<1>6. OwnedOnce(marked \ S, n, sb, lost)
  BY <1>1, <1>4 DEF OwnedOnce
<1>7. OwnedOnce(marked, n, sb, lost \cup S)
  <2>1. \A page \in Page, q \in UserProc, l \in Kinds : ~(page \in n[q][l] /\ page \in lost \cup S)
    <3>1. \A page \in Page, q \in UserProc, l \in Kinds : ~(page \in n[q][l] /\ page \in lost)
      BY <1>1 DEF OwnedOnce
    <3>2. \A page \in Page, q \in UserProc, l \in Kinds : ~(page \in n[q][l] /\ page \in S)
      BY <1>1, <1>2
    <3> QED BY <3>1, <3>2
  <2>2. \A page \in Page, b \in StackBlocks : ~(page \in sb[b].pages /\ page \in lost \cup S)
    BY <1>3 DEF OwnedOnce
  <2>3. \A page \in Page, q, r \in UserProc, k, l \in Kinds :
          page \in n[q][k] /\ page \in n[r][l] => q = r /\ k = l
    BY <1>1 DEF OwnedOnce
  <2>4. \A page \in Page, q \in UserProc, k \in Kinds, b \in StackBlocks :
          ~(page \in n[q][k] /\ page \in sb[b].pages)
    BY <1>1 DEF OwnedOnce
  <2>5. \A page \in Page, b, c \in StackBlocks : page \in sb[b].pages /\ page \in sb[c].pages => b = c
    BY DEF OwnedOnce
  <2> QED BY <1>5, <2>1, <2>2, <2>3, <2>4, <2>5 DEF OwnedOnce
<1> QED BY <1>6, <1>7

LEMMA GivenByStack ==
  ASSUME NEW marked \in SUBSET Page, NEW m, NEW sb, NEW tb, NEW lost, OwnedOnce(marked, m, sb, lost),
         NEW b \in StackBlocks, tb[b].pages = {}, \A c \in StackBlocks : c # b => tb[c] = sb[c],
         NEW after, after = marked \ sb[b].pages
  PROVE  OwnedOnce(after, m, tb, lost)
<1>1. \A page, c \in StackBlocks : page \in tb[c].pages <=> page \in sb[c].pages /\ c # b
  OBVIOUS
<1>2. \A page \in Page : page \in sb[b].pages =>
        /\ page \notin lost
        /\ \A q \in UserProc, l \in Kinds : page \notin m[q][l]
        /\ \A c \in StackBlocks : c # b => page \notin sb[c].pages
  BY DEF OwnedOnce
<1>3. \A page \in Page : page \in marked \ sb[b].pages <=> Found(page, m, tb, lost)
  <2> SUFFICES ASSUME NEW page \in Page PROVE page \in marked \ sb[b].pages <=> Found(page, m, tb, lost)
    OBVIOUS
  <2>1. page \in marked <=> Found(page, m, sb, lost)
    BY DEF OwnedOnce
  <2>2. CASE page \in sb[b].pages
    BY <2>2, <1>1, <1>2 DEF Found
  <2>3. CASE page \notin sb[b].pages
    BY <2>1, <2>3, <1>1 DEF Found
  <2> QED BY <2>2, <2>3
<1> QED BY <1>1, <1>3 DEF OwnedOnce

LEMMA Free ==
  ASSUME PagesTypeOK, FreePages # {}
  PROVE  NextPage \in Page /\ NextPage \notin pageMap
<1>1. FreePages \in SUBSET Nat
  BY PageAssumption DEF FreePages
<1>2. NextPage \in FreePages
  BY <1>1, MinIsThere DEF NextPage
<1> QED BY <1>2 DEF FreePages

LEMMA FirstAreFree ==
  ASSUME NEW n
  PROVE  FirstPages(n) \in SUBSET (Page \ pageMap)
BY DEF FirstPages, FreePages

\* One page more for a kind of pages of a process.
LEMMA PutInParts ==
  ASSUME PagesIInv, NEW p \in UserProc, NEW kind \in Kinds, Allocate, PutIn(p, kind)
  PROVE  /\ pageMap' \in SUBSET Page /\ mapped' \in [UserProc -> [Kinds -> SUBSET Page]]
         /\ OwnedOnce(pageMap', mapped', stackBlock, unreachable)
         /\ mapped'[p][kind] # {}
         /\ \A k \in Kinds : k # kind => mapped'[p][k] = mapped[p][k]
         /\ \A q \in UserProc : q # p => mapped'[q] = mapped[q]
<1>1. /\ pageMap \in SUBSET Page /\ mapped \in [UserProc -> [Kinds -> SUBSET Page]]
      /\ OwnedOnce(pageMap, mapped, stackBlock, unreachable)
  BY DEF PagesIInv, PagesTypeOK
<1>2. NextPage \in Page /\ NextPage \notin pageMap
  BY Free DEF PagesIInv, Allocate
<1>3. pageMap' = pageMap \cup {NextPage}
  BY DEF Allocate
<1>4. mapped' = [mapped EXCEPT ![p][kind] = @ \cup {NextPage}]
  BY DEF PutIn
<1> HIDE DEF NextPage
<1>5. /\ mapped'[p][kind] = mapped[p][kind] \cup {NextPage}
      /\ \A k \in Kinds : k # kind => mapped'[p][k] = mapped[p][k]
      /\ \A q \in UserProc : q # p => mapped'[q] = mapped[q]
      /\ mapped' \in [UserProc -> [Kinds -> SUBSET Page]]
  BY <1>1, <1>2, <1>4
<1>6. {NextPage} \in SUBSET (Page \ pageMap)
  BY <1>2
<1>7. \A q \in UserProc, l \in Kinds : q # p \/ l # kind => mapped'[q][l] = mapped[q][l]
  BY <1>5
<1>8. OwnedOnce(pageMap', mapped', stackBlock, unreachable)
  <2> DEFINE S == {NextPage}
             n == mapped'
  <2>1. /\ pageMap \in SUBSET Page /\ OwnedOnce(pageMap, mapped, stackBlock, unreachable)
        /\ S \in SUBSET (Page \ pageMap) /\ Adds(mapped, n, p, kind, S)
        /\ pageMap' = pageMap \cup S
    BY <1>1, <1>3, <1>5, <1>6, <1>7 DEF Adds
  <2> HIDE DEF S, n
  <2>2. OwnedOnce(pageMap', n, stackBlock, unreachable)
    BY <2>1, TakenByProcess
  <2> QED BY <2>2 DEF n
<1> QED BY <1>1, <1>2, <1>3, <1>5, <1>8

\* The invariant after a step of process p.
LEMMA StepOfProcess ==
  ASSUME PagesIInv, PagesTypeOK', OwnedOnce(pageMap, mapped, stackBlock, unreachable)', stackBlock' = stackBlock,
         NEW p \in UserProc,
         \A q \in UserProc : q # p =>
           /\ stage'[q] = stage[q] /\ mapped'[q] = mapped[q] /\ thread'[q] = thread[q]
           /\ fault'[q] = fault[q] /\ pageMutex'[q] = pageMutex[q],
         Lives(stage'[p], mapped'[p], thread'[p], fault'[p], pageMutex'[p])
  PROVE  PagesIInv'
BY DEF PagesIInv

\* What is known of a process before a step of it.
Faults == [at : {"no", "asked", "table", "page", "served", "refused", "stuck"}, on : HeapPages \cup {"stack"}]

LEMMA ProcessParts ==
  ASSUME PagesIInv, NEW p \in UserProc
  PROVE  /\ stage[p] \in [at : {"none", "load", "up", "end"}, next : 1 .. 17]
         /\ mapped[p] \in [Kinds -> SUBSET Page]
         /\ thread[p] \in {"none", "new", "up"} /\ fault[p] \in [Who -> Faults]
         /\ pageMutex[p] \in BOOLEAN
         /\ Lives(stage[p], mapped[p], thread[p], fault[p], pageMutex[p])
<1>1. /\ stage[p] \in [at : {"none", "load", "up", "end"}, next : 1 .. 17]
      /\ thread[p] \in {"none", "new", "up"} /\ mapped[p] \in [Kinds -> SUBSET Page]
  BY Orders DEF PagesIInv, PagesTypeOK
<1>2. fault[p] \in [Who -> Faults] /\ pageMutex[p] \in BOOLEAN
  BY DEF PagesIInv, PagesTypeOK, Faults
<1> QED BY <1>1, <1>2 DEF PagesIInv

\* One fault changes.
LEMMA FaultIs ==
  ASSUME PagesTypeOK, NEW p \in UserProc, NEW who \in Who, NEW v \in Faults,
         fault' = [fault EXCEPT ![p][who] = v]
  PROVE  /\ fault' \in [UserProc -> [Who -> Faults]]
         /\ fault'[p][who] = v /\ \A other \in Who : other # who => fault'[p][other] = fault[p][other]
         /\ \A q \in UserProc : q # p => fault'[q] = fault[q]
<1>1. fault \in [UserProc -> [Who -> Faults]]
  BY DEF PagesTypeOK, Faults
<1>2. fault[p] \in [Who -> Faults]
  BY <1>1
<1>3. [fault[p] EXCEPT ![who] = v] \in [Who -> Faults]
  BY <1>2
<1>4. fault' = [fault EXCEPT ![p] = [fault[p] EXCEPT ![who] = v]]
  OBVIOUS
<1> QED BY <1>1, <1>2, <1>3, <1>4

LEMMA FaultBecomes ==
  ASSUME PagesTypeOK, NEW p \in UserProc, NEW who \in Who,
         NEW at \in {"no", "asked", "table", "page", "served", "refused", "stuck"}, Becomes(p, who, at)
  PROVE  /\ fault' \in [UserProc -> [Who -> Faults]]
         /\ fault'[p][who].at = at /\ fault'[p][who].on = fault[p][who].on
         /\ \A other \in Who : other # who => fault'[p][other] = fault[p][other]
         /\ \A q \in UserProc : q # p => fault'[q] = fault[q]
<1> DEFINE v == [fault[p][who] EXCEPT !.at = at]
<1>1. fault[p][who] \in Faults
  BY DEF PagesTypeOK, Faults
<1>2. v \in Faults /\ v.at = at /\ v.on = fault[p][who].on
  BY <1>1 DEF Faults
<1>3. fault' = [fault EXCEPT ![p][who] = v]
  BY DEF Becomes
<1> HIDE DEF v
<1> QED BY <1>2, <1>3, FaultIs

\* A step of one of the services and threads that moves no page.
LEMMA OnlyFaults ==
  ASSUME PagesIInv, NEW p \in UserProc,
         UNCHANGED <<pageMap, mapped, stage, thread, stackBlock, wild, unreachable, created>>,
         stray' \in BOOLEAN,
         fault' \in [UserProc -> [Who -> Faults]], pageMutex' \in [UserProc -> BOOLEAN],
         \A q \in UserProc : q # p => fault'[q] = fault[q] /\ pageMutex'[q] = pageMutex[q],
         stage[p].at # "load",
         stage[p].at = "up" => StillMissing(mapped[p], fault'[p], pageMutex'[p])
  PROVE  PagesIInv'
<1>1. Lives(stage[p], mapped[p], thread[p], fault[p], pageMutex[p])
  BY ProcessParts
<1>2. Lives(stage'[p], mapped'[p], thread'[p], fault'[p], pageMutex'[p])
  BY <1>1 DEF Lives
<1>3. PagesTypeOK'
  BY DEF PagesIInv, PagesTypeOK, Faults
<1>4. OwnedOnce(pageMap, mapped, stackBlock, unreachable)'
  BY DEF PagesIInv, OwnedOnce, Found
<1> QED BY <1>2, <1>3, <1>4, StepOfProcess

LEMMA StageType ==
  /\ \A s \in {"none", "load", "up", "end"}, n \in 1 .. 17 :
       [at |-> s, next |-> n] \in [at : {"none", "load", "up", "end"}, next : 1 .. Len(EndOrder) + 1]
  /\ Len(EndOrder) + 1 = 17 /\ NoStage = [at |-> "none", next |-> 1]
BY Orders DEF NoStage

LEMMA CreateKeeps ==
  ASSUME PagesIInv, NEW p \in UserProc, Create(p)
  PROVE  PagesIInv'
<1>1. /\ stage[p].at = "none" /\ created < MaxCreated /\ created' = created + 1
      /\ \A who \in Who : fault[p][who] = NoFault
      /\ stage' = [stage EXCEPT ![p] = [at |-> "load", next |-> 1]]
      /\ pageMutex' = [pageMutex EXCEPT ![p] = FALSE]
      /\ UNCHANGED <<pageMap, mapped, thread, fault, stackBlock, stray, wild, unreachable>>
  BY DEF Create, At, oddities
<1>2. /\ mapped[p] \in [Kinds -> SUBSET Page]
      /\ Lives(stage[p], mapped[p], thread[p], fault[p], pageMutex[p])
  BY ProcessParts
<1>3. BeforeLoad(mapped[p]) /\ thread[p] = "none" /\ \A who \in Who : fault[p][who].at = "no"
  BY <1>1, <1>2 DEF Lives, NoFault
<1>4. DuringLoad(mapped[p], 1)
  BY <1>3, LoadBegins
<1>5. /\ stage'[p] = [at |-> "load", next |-> 1] /\ \A q \in UserProc : q # p => stage'[q] = stage[q]
      /\ pageMutex' \in [UserProc -> BOOLEAN] /\ \A q \in UserProc : q # p => pageMutex'[q] = pageMutex[q]
  BY <1>1 DEF PagesIInv, PagesTypeOK
<1>6. Lives(stage'[p], mapped'[p], thread'[p], fault'[p], pageMutex'[p])
  <2>1. stage'[p].at = "load" /\ stage'[p].next = 1
    BY <1>5
  <2>2. \A who \in Who : fault'[p][who].at = "no"
    BY <1>1, <1>3
  <2>3. mapped'[p] = mapped[p] /\ thread'[p] = thread[p]
    BY <1>1
  <2> QED BY <1>3, <1>4, <2>1, <2>2, <2>3 DEF Lives
<1>7. created' \in 0 .. MaxCreated
  BY <1>1, PageAssumption DEF PagesIInv, PagesTypeOK
<1>8. PagesTypeOK'
  BY <1>1, <1>5, <1>7, StageType DEF PagesIInv, PagesTypeOK
<1>9. OwnedOnce(pageMap, mapped, stackBlock, unreachable)'
  BY <1>1 DEF PagesIInv, OwnedOnce, Found
<1> QED BY <1>1, <1>5, <1>6, <1>8, <1>9, StepOfProcess

LEMMA LoadPageKeeps ==
  ASSUME PagesIInv, NEW p \in UserProc, LoadPage(p)
  PROVE  PagesIInv'
<1> DEFINE i == stage[p].next
           s == IF i = Len(LoadOrder) THEN [at |-> "up", next |-> 1] ELSE [stage[p] EXCEPT !.next = i + 1]
<1>1. /\ stage[p].at = "load" /\ Allocate /\ PutIn(p, LoadOrder[i])
      /\ stage' = [stage EXCEPT ![p] = s]
      /\ UNCHANGED <<thread, fault, pageMutex, stackBlock, stray, wild, unreachable, created>>
  BY DEF LoadPage, At, oddities, faults
<1>2. /\ stage[p] \in [at : {"none", "load", "up", "end"}, next : 1 .. 17]
      /\ mapped[p] \in [Kinds -> SUBSET Page]
      /\ Lives(stage[p], mapped[p], thread[p], fault[p], pageMutex[p])
  BY ProcessParts
<1>3. /\ DuringLoad(mapped[p], i) /\ thread[p] = "none" /\ \A who \in Who : fault[p][who].at = "no"
  BY <1>1, <1>2 DEF Lives
<1>4. i \in 1 .. 7 /\ LoadOrder[i] \in Kinds
  BY <1>3, Orders, OrdersAreInjective DEF DuringLoad
<1>5. /\ pageMap' \in SUBSET Page /\ mapped' \in [UserProc -> [Kinds -> SUBSET Page]]
      /\ OwnedOnce(pageMap', mapped', stackBlock, unreachable)
      /\ mapped'[p][LoadOrder[i]] # {}
      /\ \A k \in Kinds : k # LoadOrder[i] => mapped'[p][k] = mapped[p][k]
      /\ \A q \in UserProc : q # p => mapped'[q] = mapped[q]
  BY <1>1, <1>4, PutInParts
<1>6. /\ i < 7 => DuringLoad(mapped'[p], i + 1)
      /\ i = 7 => InUse(mapped'[p], "none")
  <2> DEFINE m == mapped[p]
             n == mapped'[p]
             kind == LoadOrder[i]
             next == i + 1
  <2>1. /\ DuringLoad(m, i) /\ kind = LoadOrder[i] /\ n[kind] # {}
        /\ \A k \in Kinds : k # kind => n[k] = m[k]
        /\ next = i + 1
    BY <1>3, <1>5
  <2> HIDE DEF m, n, i, kind, next
  <2>2. i < 7 => DuringLoad(n, next)
    BY <2>1, LoadingOn
  <2>3. ASSUME i = 7 PROVE InUse(n, "none")
    BY ZenonT(40), <2>1, <2>3, LoadingOn
  <2> QED BY <2>2, <2>3 DEF n, next
<1>7. /\ i = 7 => s = [at |-> "up", next |-> 1]
      /\ i < 7 => s = [at |-> "load", next |-> i + 1]
  BY <1>1, <1>2, <1>4, Orders
<1>8. /\ s \in [at : {"none", "load", "up", "end"}, next : 1 .. 17]
      /\ i = 7 => s.at = "up"
      /\ i < 7 => s.at = "load" /\ s.next = i + 1
  BY <1>4, <1>7
<1> HIDE DEF s
<1>9. stage'[p] = s /\ \A q \in UserProc : q # p => stage'[q] = stage[q]
  BY <1>1 DEF PagesIInv, PagesTypeOK
<1>10. Lives(stage'[p], mapped'[p], thread'[p], fault'[p], pageMutex'[p])
  <2>1. CASE i = 7
    <3>1. StillMissing(mapped'[p], fault'[p], pageMutex'[p])
      BY <1>1, <1>3 DEF StillMissing, Mapping
    <3> QED BY <2>1, <3>1, <1>1, <1>3, <1>6, <1>8, <1>9 DEF Lives
  <2>2. CASE i < 7
    BY <2>2, <1>1, <1>3, <1>6, <1>8, <1>9 DEF Lives
  <2> QED BY <2>1, <2>2, <1>4
<1>11. PagesTypeOK'
  BY <1>1, <1>5, <1>8, StageType DEF PagesIInv, PagesTypeOK
<1>12. OwnedOnce(pageMap, mapped, stackBlock, unreachable)'
  BY <1>1, <1>5
<1> QED BY <1>1, <1>5, <1>9, <1>10, <1>11, <1>12, StepOfProcess

LEMMA LoadFailsKeeps ==
  ASSUME PagesIInv, NEW p \in UserProc, LoadFails(p)
  PROVE  PagesIInv'
<1>1. /\ stage[p].at = "load"
      /\ unreachable' = unreachable \cup All(p)
      /\ mapped' = [mapped EXCEPT ![p] = Nothing]
      /\ stage' = [stage EXCEPT ![p] = NoStage]
      /\ UNCHANGED <<pageMap, thread, fault, pageMutex, stackBlock, stray, wild, created>>
  BY DEF LoadFails, Forget, At, oddities, faults
<1>2. /\ mapped[p] \in [Kinds -> SUBSET Page]
      /\ Lives(stage[p], mapped[p], thread[p], fault[p], pageMutex[p])
  BY ProcessParts
<1>3. thread[p] = "none"
  BY <1>1, <1>2 DEF Lives
<1>4. /\ Nothing \in [Kinds -> SUBSET Page] /\ BeforeLoad(Nothing)
      /\ \A k \in Kinds : Nothing[k] = {}
  BY DEF Nothing, BeforeLoad
<1>5. /\ stage'[p] = NoStage /\ mapped'[p] = Nothing
      /\ \A q \in UserProc : q # p => stage'[q] = stage[q] /\ mapped'[q] = mapped[q]
      /\ mapped' \in [UserProc -> [Kinds -> SUBSET Page]]
  BY <1>1, <1>4 DEF PagesIInv, PagesTypeOK
<1>6. Lives(stage'[p], mapped'[p], thread'[p], fault'[p], pageMutex'[p])
  BY <1>1, <1>3, <1>4, <1>5, StageType DEF Lives
<1>7. All(p) \subseteq Page /\ \A page : page \in All(p) <=> \E k \in Kinds : page \in mapped[p][k]
  BY <1>2 DEF All
<1>8. PagesTypeOK'
  BY <1>1, <1>5, <1>7, StageType DEF PagesIInv, PagesTypeOK
<1>9. OwnedOnce(pageMap, mapped, stackBlock, unreachable)'
  <2> DEFINE S == All(p)
             n == mapped'
  <2>1. /\ pageMap \in SUBSET Page /\ OwnedOnce(pageMap, mapped, stackBlock, unreachable)
        /\ Empties(mapped, n, p, Kinds)
        /\ \A page \in Page : page \in S <=> \E k \in Kinds : page \in mapped[p][k]
    BY <1>4, <1>5, <1>7 DEF PagesIInv, PagesTypeOK, Empties
  <2> HIDE DEF S, n
  <2>2. OwnedOnce(pageMap, n, stackBlock, unreachable \cup S)
    BY <2>1, GivenByProcess
  <2> QED BY <2>2, <1>1 DEF S, n
<1> QED BY <1>1, <1>5, <1>6, <1>8, <1>9, StepOfProcess

LEMMA CopyImageFailsKeeps ==
  ASSUME PagesIInv, NEW p \in UserProc, CopyImageFails(p)
  PROVE  PagesIInv'
<1>1. /\ wild' = TRUE
      /\ UNCHANGED <<pageMap, mapped, stage, thread, fault, pageMutex, created, stackBlock, stray,
                     unreachable>>
  BY DEF CopyImageFails, space, faults
<1> QED BY <1>1 DEF PagesIInv, PagesTypeOK, OwnedOnce, Found

\* A page more for a process that is in use.
LEMMA UsedMore ==
  ASSUME NEW m, NEW n, NEW w, InUse(m, w), NEW kind \in Kinds, n[kind] # {},
         \A k \in Kinds : k # kind => n[k] = m[k],
         kind = "dll" => m["dllpte"] # {}, kind \in HeapPages => m["heappte"] # {},
         kind = "threadpte" => w = "up", kind = "threadstack" => w = "up"
  PROVE  InUse(n, w)
<1>1. /\ m["pde"] # {} /\ m["pte"] # {} /\ m["stackpte"] # {}
      /\ m["image"] # {} /\ m["stack"] # {} /\ m["header"] # {} /\ m["env"] # {}
      /\ m["dll"] # {} => m["dllpte"] # {}
      /\ \A k \in HeapPages : m[k] # {} => m["heappte"] # {}
      /\ w = "none" => m["threadpte"] = {} /\ m["threadstack"] = {}
      /\ w = "new" => m["threadpte"] # {} /\ m["threadstack"] = {}
      /\ w = "up" => m["threadpte"] # {}
  BY InUseParts DEF InUse
<1>2. /\ n["pde"] # {} /\ n["pte"] # {} /\ n["stackpte"] # {}
      /\ n["image"] # {} /\ n["stack"] # {} /\ n["header"] # {} /\ n["env"] # {}
  BY <1>1, KindsAre
<1>3. /\ n["dll"] # {} => n["dllpte"] # {}
      /\ \A k \in HeapPages : n[k] # {} => n["heappte"] # {}
  BY <1>1, KindsAre, HeapPagesAre
<1>4. /\ w = "none" => n["threadpte"] = {} /\ n["threadstack"] = {}
      /\ w = "new" => n["threadpte"] # {} /\ n["threadstack"] = {}
      /\ w = "up" => n["threadpte"] # {}
  BY <1>1, KindsAre
<1> QED BY <1>2, <1>3, <1>4, IsInUse

LEMMA AllocateGUIFramebufferKeeps ==
  ASSUME PagesIInv, NEW p \in UserProc, AllocateGUIFramebuffer(p)
  PROVE  PagesIInv'
<1>1. /\ stage[p].at = "up"
      /\ IF FreePages = {} THEN Becomes(p, "main", "stuck") /\ UNCHANGED <<pageMap, mapped>>
                           ELSE Allocate /\ PutIn(p, "guipte") /\ fault' = fault
      /\ UNCHANGED <<stage, thread, pageMutex, stackBlock, stray, wild, unreachable, created>>
  BY DEF AllocateGUIFramebuffer, Runs, Alive, Stuck, At, oddities
<1>2. Lives(stage[p], mapped[p], thread[p], fault[p], pageMutex[p])
  BY ProcessParts
<1>3. InUse(mapped[p], thread[p]) /\ StillMissing(mapped[p], fault[p], pageMutex[p])
  BY <1>1, <1>2 DEF Lives
<1>4. CASE FreePages = {}
  <2>1. "main" \in Who /\ PagesTypeOK
    BY DEF Who, PagesIInv
  <2>2. /\ fault' \in [UserProc -> [Who -> Faults]] /\ fault'[p]["main"].at = "stuck"
        /\ \A other \in Who : other # "main" => fault'[p][other] = fault[p][other]
        /\ \A q \in UserProc : q # p => fault'[q] = fault[q]
    BY <1>1, <1>4, <2>1, FaultBecomes
  <2>3. StillMissing(mapped[p], fault'[p], pageMutex'[p])
    <3>1. \A who \in Who : Mapping(fault'[p], who) =>
            fault'[p][who] = fault[p][who] /\ pageMutex'[p] = pageMutex[p]
      BY <1>1, <2>2 DEF Mapping
    <3> QED BY <1>3, <3>1, MissingAsBefore
  <2>4. pageMutex' \in [UserProc -> BOOLEAN] /\ stray' \in BOOLEAN
    BY <1>1 DEF PagesIInv, PagesTypeOK
  <2> QED BY <1>1, <1>4, <2>2, <2>3, <2>4, OnlyFaults
<1>5. CASE FreePages # {}
  <2>1. "guipte" \in Kinds /\ "guipte" \notin HeapPages
    BY KindsAre, HeapPagesAre
  <2>2. /\ pageMap' \in SUBSET Page /\ mapped' \in [UserProc -> [Kinds -> SUBSET Page]]
        /\ OwnedOnce(pageMap', mapped', stackBlock, unreachable)
        /\ mapped'[p]["guipte"] # {}
        /\ \A k \in Kinds : k # "guipte" => mapped'[p][k] = mapped[p][k]
        /\ \A q \in UserProc : q # p => mapped'[q] = mapped[q]
    BY <1>1, <1>5, <2>1, PutInParts
  <2>3. InUse(mapped'[p], thread[p])
    BY <1>3, <2>1, <2>2, UsedMore
  <2>4. mapped'[p]["heappte"] = mapped[p]["heappte"] /\ \A k \in HeapPages : mapped'[p][k] = mapped[p][k]
    BY <2>1, <2>2, KindsAre, HeapPagesAre
  <2>5. StillMissing(mapped'[p], fault'[p], pageMutex'[p])
    BY <1>1, <1>3, <1>5, <2>4 DEF StillMissing, Mapping
  <2>6. Lives(stage'[p], mapped'[p], thread'[p], fault'[p], pageMutex'[p])
    BY <1>1, <1>2, <2>3, <2>5 DEF Lives
  <2>7. PagesTypeOK'
    BY <1>1, <1>5, <2>2 DEF PagesIInv, PagesTypeOK
  <2>8. OwnedOnce(pageMap, mapped, stackBlock, unreachable)'
    BY <1>1, <2>2
  <2> QED BY <1>1, <1>5, <2>2, <2>6, <2>7, <2>8, StepOfProcess
<1> QED BY <1>4, <1>5

LEMMA MapDLLPagesKeeps ==
  ASSUME PagesIInv, NEW p \in UserProc, MapDLLPages(p)
  PROVE  PagesIInv'
<1> DEFINE tables == IF mapped[p]["dllpte"] = {} THEN 1 ELSE 0
           got == FirstPages(tables + 1)
           new == FirstPages(tables)
<1>1. /\ stage[p].at = "up" /\ mapped[p]["dll"] = {}
      /\ pageMap' = pageMap \cup got
      /\ IF Cardinality(FreePages) < tables + 1
           THEN unreachable' = unreachable \cup got /\ mapped' = mapped
           ELSE /\ mapped' = [mapped EXCEPT ![p]["dllpte"] = @ \cup new, ![p]["dll"] = got \ new]
                /\ unreachable' = unreachable
      /\ UNCHANGED <<stage, thread, fault, pageMutex, stackBlock, stray, wild, created>>
  BY DEF MapDLLPages, Runs, Alive, At, oddities, faults
<1>2. /\ mapped[p] \in [Kinds -> SUBSET Page]
      /\ Lives(stage[p], mapped[p], thread[p], fault[p], pageMutex[p])
  BY ProcessParts
<1>3. InUse(mapped[p], thread[p]) /\ StillMissing(mapped[p], fault[p], pageMutex[p])
  BY <1>1, <1>2 DEF Lives
<1>4. /\ pageMap \in SUBSET Page /\ mapped \in [UserProc -> [Kinds -> SUBSET Page]]
      /\ unreachable \in SUBSET Page
      /\ OwnedOnce(pageMap, mapped, stackBlock, unreachable)
  BY DEF PagesIInv, PagesTypeOK
<1>5. got \in SUBSET (Page \ pageMap) /\ new \in SUBSET (Page \ pageMap)
  BY FirstAreFree
<1>6. new \subseteq got
  <2>1. \A p1 : Cardinality({q \in FreePages : q < p1}) \in Nat
    <3> SUFFICES ASSUME NEW p1 PROVE Cardinality({q \in FreePages : q < p1}) \in Nat
      OBVIOUS
    <3>1. IsFiniteSet(Page) /\ {q \in FreePages : q < p1} \subseteq Page
      BY PageAssumption DEF FreePages
    <3>2. IsFiniteSet({q \in FreePages : q < p1})
      BY <3>1, FS_Subset
    <3> QED BY <3>2, FS_CardinalityType
  <2>2. tables \in Nat
    OBVIOUS
  <2> HIDE DEF tables
  <2> QED BY <2>1, <2>2 DEF FirstPages
<1>7. mapped[p]["dllpte"] = {} /\ got # {} => new # {}
  <2> SUFFICES ASSUME mapped[p]["dllpte"] = {}, got # {} PROVE new # {}
    OBVIOUS
  <2>1. FreePages # {} /\ FreePages \in SUBSET Nat
    BY PageAssumption DEF FirstPages, FreePages
  <2>2. NextPage \in FreePages /\ \A q \in FreePages : NextPage <= q
    BY <2>1, MinIsThere DEF NextPage
  <2>3. {q \in FreePages : q < NextPage} = {}
    <3>1. ASSUME NEW q \in FreePages, q < NextPage PROVE FALSE
      <4>1. q \in Nat /\ NextPage \in Nat /\ NextPage <= q
        BY <2>1, <2>2
      <4> HIDE DEF NextPage
      <4> QED BY <3>1, <4>1
    <3> QED BY <3>1
  <2>4. Cardinality({q \in FreePages : q < NextPage}) = 0
    BY <2>3, FS_EmptySet
  <2>5. NextPage \in FirstPages(1)
    BY <2>2, <2>4 DEF FirstPages
  <2> QED BY <2>5
<1> HIDE DEF got, new, tables
<1>8. CASE Cardinality(FreePages) < tables + 1
  <2>1. OwnedOnce(pageMap', mapped, stackBlock, unreachable')
    BY <1>1, <1>4, <1>5, <1>8, TakenByNobody
  <2>2. Lives(stage'[p], mapped'[p], thread'[p], fault'[p], pageMutex'[p])
    BY <1>1, <1>2, <1>8
  <2>3. PagesTypeOK'
    BY <1>1, <1>4, <1>5, <1>8 DEF PagesIInv, PagesTypeOK
  <2>4. OwnedOnce(pageMap, mapped, stackBlock, unreachable)'
    BY <2>1, <1>1, <1>8
  <2> QED BY <2>2, <2>3, <2>4, <1>1, <1>8, StepOfProcess
<1>9. CASE ~(Cardinality(FreePages) < tables + 1)
  <2>0. "dll" \in Kinds /\ "dllpte" \in Kinds
    BY KindsAre
  <2> DEFINE half == [mapped EXCEPT ![p]["dllpte"] = @ \cup new]
             last == got \ new
             n == mapped'
             middle == pageMap \cup new
  <2>1. n = [mapped EXCEPT ![p]["dllpte"] = @ \cup new, ![p]["dll"] = last]
    BY <1>1, <1>9
  <2>2. /\ half[p]["dllpte"] = mapped[p]["dllpte"] \cup new /\ half[p]["dll"] = {}
        /\ \A k \in Kinds : k # "dllpte" => half[p][k] = mapped[p][k]
        /\ \A q \in UserProc : q # p => half[q] = mapped[q]
    BY <1>1, <1>4, <2>0
  <2>3. /\ n[p]["dllpte"] = half[p]["dllpte"] /\ n[p]["dll"] = last
        /\ \A k \in Kinds : k # "dll" => n[p][k] = half[p][k]
        /\ \A q \in UserProc : q # p => n[q] = half[q]
    BY <1>4, <2>0, <2>1
  <2>4. n \in [UserProc -> [Kinds -> SUBSET Page]]
    BY <1>4, <1>5, <2>0, <2>1
  <2> HIDE DEF half, n
  <2>5. Adds(mapped, half, p, "dllpte", new) /\ Adds(half, n, p, "dll", last)
    BY <2>2, <2>3 DEF Adds
  <2>6. middle \in SUBSET Page /\ last \in SUBSET (Page \ middle) /\ pageMap' = middle \cup last
    BY <1>1, <1>4, <1>5, <1>6
  <2>7. middle = pageMap \cup new
    OBVIOUS
  <2> HIDE DEF middle, last
  <2>8. OwnedOnce(middle, half, stackBlock, unreachable)
    BY <1>4, <1>5, <2>0, <2>5, <2>7, TakenByProcess
  <2>9. OwnedOnce(pageMap', n, stackBlock, unreachable)
    BY <2>0, <2>5, <2>6, <2>8, TakenByProcess
  <2>10. InUse(n[p], thread[p])
    <3>1. /\ mapped[p]["pde"] # {} /\ mapped[p]["pte"] # {} /\ mapped[p]["stackpte"] # {}
          /\ mapped[p]["image"] # {} /\ mapped[p]["stack"] # {} /\ mapped[p]["header"] # {}
          /\ mapped[p]["env"] # {}
      BY <1>3, InUseParts
    <3>2. \A k \in Kinds : k # "dll" /\ k # "dllpte" => n[p][k] = mapped[p][k]
      BY <2>2, <2>3
    <3>3. n[p]["dll"] # {} => n[p]["dllpte"] # {}
      BY <1>7, <2>2, <2>3 DEF last
    <3>4. /\ n[p]["pde"] # {} /\ n[p]["pte"] # {} /\ n[p]["stackpte"] # {}
          /\ n[p]["image"] # {} /\ n[p]["stack"] # {} /\ n[p]["header"] # {} /\ n[p]["env"] # {}
          /\ n[p]["heappte"] = mapped[p]["heappte"] /\ \A k \in HeapPages : n[p][k] = mapped[p][k]
          /\ n[p]["threadpte"] = mapped[p]["threadpte"] /\ n[p]["threadstack"] = mapped[p]["threadstack"]
      BY <3>1, <3>2, KindsAre, HeapPagesAre
    <3>5. /\ \A k \in HeapPages : n[p][k] # {} => n[p]["heappte"] # {}
          /\ thread[p] = "none" => n[p]["threadpte"] = {} /\ n[p]["threadstack"] = {}
          /\ thread[p] = "new" =>
               n[p]["threadpte"] # {} /\ n[p]["threadstack"] = {}
          /\ thread[p] = "up" => n[p]["threadpte"] # {}
      BY <1>3, <3>4 DEF InUse
    <3> QED BY <3>3, <3>4, <3>5, IsInUse
  <2>11. Lives(stage'[p], mapped'[p], thread'[p], fault'[p], pageMutex'[p])
    <3>1. n[p]["heappte"] = mapped[p]["heappte"] /\ \A k \in HeapPages : n[p][k] = mapped[p][k]
      BY <2>2, <2>3, KindsAre, HeapPagesAre
    <3>2. StillMissing(n[p], fault[p], pageMutex[p])
      BY <1>3, <3>1 DEF StillMissing, Mapping
    <3> QED BY <1>1, <1>2, <2>10, <3>2 DEF Lives, n
  <2>12. PagesTypeOK'
    BY <1>1, <1>4, <1>5, <1>9, <2>4 DEF PagesIInv, PagesTypeOK, n
  <2>13. OwnedOnce(pageMap, mapped, stackBlock, unreachable)'
    BY <1>1, <1>9, <2>9 DEF n
  <2>14. \A q \in UserProc : q # p => mapped'[q] = mapped[q]
    BY <2>2, <2>3 DEF n
  <2> QED BY <1>1, <2>11, <2>12, <2>13, <2>14, StepOfProcess
<1> QED BY <1>8, <1>9

LEMMA DropThreadKeeps ==
  ASSUME PagesIInv, NEW p \in UserProc, stage[p].at = "up", DropThread(p),
         UNCHANGED <<pageMutex, stackBlock, stray, wild, unreachable, created>>
  PROVE  PagesIInv'
<1> DEFINE S == mapped[p]["threadstack"] \cup mapped[p]["threadpte"]
           K == {"threadstack", "threadpte"}
           n == mapped'
<1>1. /\ pageMap' = pageMap \ S
      /\ n = [mapped EXCEPT ![p]["threadstack"] = {}, ![p]["threadpte"] = {}]
      /\ thread' = [thread EXCEPT ![p] = "none"] /\ stage' = stage
  BY DEF DropThread, Give
<1>2. /\ mapped[p] \in [Kinds -> SUBSET Page]
      /\ Lives(stage[p], mapped[p], thread[p], fault[p], pageMutex[p])
  BY ProcessParts
<1>3. InUse(mapped[p], thread[p]) /\ StillMissing(mapped[p], fault[p], pageMutex[p])
  BY <1>2 DEF Lives
<1>4. /\ pageMap \in SUBSET Page /\ mapped \in [UserProc -> [Kinds -> SUBSET Page]]
      /\ OwnedOnce(pageMap, mapped, stackBlock, unreachable) /\ thread \in [UserProc -> {"none", "new", "up"}]
  BY DEF PagesIInv, PagesTypeOK
<1>5. "threadstack" \in Kinds /\ "threadpte" \in Kinds /\ K \in SUBSET Kinds
  BY KindsAre
<1>6. /\ n[p]["threadstack"] = {} /\ n[p]["threadpte"] = {}
      /\ \A k \in Kinds : k \notin K => n[p][k] = mapped[p][k]
      /\ \A q \in UserProc : q # p => n[q] = mapped[q]
      /\ n \in [UserProc -> [Kinds -> SUBSET Page]]
  BY <1>1, <1>4, <1>5
<1>7. thread'[p] = "none" /\ \A q \in UserProc : q # p => thread'[q] = thread[q]
  BY <1>1, <1>4
<1> HIDE DEF n
<1>8. Empties(mapped, n, p, K)
  BY <1>6 DEF Empties
<1>9. \A page \in Page : page \in S <=> \E k \in K : page \in mapped[p][k]
  OBVIOUS
<1> HIDE DEF S, K
<1>10. OwnedOnce(pageMap \ S, n, stackBlock, unreachable)
  BY <1>4, <1>5, <1>8, <1>9, GivenByProcess
<1>11. /\ mapped[p]["pde"] # {} /\ mapped[p]["pte"] # {} /\ mapped[p]["stackpte"] # {}
       /\ mapped[p]["image"] # {} /\ mapped[p]["stack"] # {} /\ mapped[p]["header"] # {}
       /\ mapped[p]["env"] # {}
       /\ mapped[p]["dll"] # {} => mapped[p]["dllpte"] # {}
       /\ \A k \in HeapPages : mapped[p][k] # {} => mapped[p]["heappte"] # {}
  BY <1>3, InUseParts DEF InUse
<1>12. InUse(n[p], "none")
  <2>1. /\ n[p]["pde"] # {} /\ n[p]["pte"] # {} /\ n[p]["stackpte"] # {}
        /\ n[p]["image"] # {} /\ n[p]["stack"] # {} /\ n[p]["header"] # {} /\ n[p]["env"] # {}
        /\ n[p]["dll"] # {} => n[p]["dllpte"] # {}
        /\ \A k \in HeapPages : n[p][k] # {} => n[p]["heappte"] # {}
    BY <1>6, <1>11, KindsAre, HeapPagesAre DEF K
  <2> QED BY <2>1, <1>6, IsInUse
<1>13. /\ fault' \in [UserProc -> [Who -> Faults]]
       /\ fault'[p]["thread"] = fault[p]["thread"] \/ fault'[p]["thread"] = NoFault
       /\ fault'[p]["main"] = fault[p]["main"]
       /\ \A q \in UserProc : q # p => fault'[q] = fault[q]
  <2>1. "thread" \in Who /\ "main" \in Who /\ PagesTypeOK
    BY DEF Who, PagesIInv
  <2>2. StillServed(p, "thread") \in Faults
        /\ (StillServed(p, "thread") = fault[p]["thread"] \/ StillServed(p, "thread") = NoFault)
    BY <2>1, ProcessParts DEF StillServed, NoFault, Faults
  <2>3. fault' = [fault EXCEPT ![p]["thread"] = StillServed(p, "thread")]
    BY DEF DropThread
  <2> QED BY <2>1, <2>2, <2>3, FaultIs
<1>14. StillMissing(n[p], fault'[p], pageMutex'[p])
  <2>1. n[p]["heappte"] = mapped[p]["heappte"] /\ \A k \in HeapPages : n[p][k] = mapped[p][k]
    BY <1>6, KindsAre, HeapPagesAre DEF K
  <2>2. \A who \in Who : Mapping(fault'[p], who) =>
          fault'[p][who] = fault[p][who] /\ pageMutex'[p] = pageMutex[p]
    BY <1>13 DEF Mapping, Who, NoFault
  <2> QED BY <1>3, <2>1, <2>2, MissingAsBefore
<1>15. Lives(stage'[p], mapped'[p], thread'[p], fault'[p], pageMutex'[p])
  BY <1>1, <1>7, <1>12, <1>14 DEF Lives, n
<1>16. PagesTypeOK'
  BY <1>1, <1>4, <1>6, <1>7, <1>13 DEF PagesIInv, PagesTypeOK, Faults, n
<1>17. OwnedOnce(pageMap, mapped, stackBlock, unreachable)'
  BY <1>1, <1>10 DEF n
<1> QED BY ZenonT(40), <1>1, <1>6, <1>7, <1>13, <1>15, <1>16, <1>17, StepOfProcess DEF n

LEMMA BeginEndKeeps ==
  ASSUME PagesIInv, NEW p \in UserProc, stage[p].at = "up", BeginEnd(p), stray' \in BOOLEAN,
         UNCHANGED <<pageMap, mapped, thread, pageMutex, stackBlock, wild, unreachable, created>>
  PROVE  PagesIInv'
<1>1. /\ stage' = [stage EXCEPT ![p] = [at |-> "end", next |-> 1]]
      /\ fault' = [fault EXCEPT ![p] = [who \in Who |-> StillServed(p, who)]]
  BY DEF BeginEnd
<1>2. /\ mapped[p] \in [Kinds -> SUBSET Page] /\ thread[p] \in {"none", "new", "up"}
      /\ fault[p] \in [Who -> Faults]
      /\ Lives(stage[p], mapped[p], thread[p], fault[p], pageMutex[p])
  BY ProcessParts
<1>3. InUse(mapped[p], thread[p])
  BY <1>2 DEF Lives
<1>4. DuringEnd(mapped[p], 1)
  BY <1>2, <1>3, EndingBegins
<1>5. stage'[p] = [at |-> "end", next |-> 1] /\ \A q \in UserProc : q # p => stage'[q] = stage[q]
  BY <1>1 DEF PagesIInv, PagesTypeOK
<1>6. stage'[p].at = "end" /\ stage'[p].next = 1
  BY <1>5
<1>7. Lives(stage'[p], mapped'[p], thread'[p], fault'[p], pageMutex'[p])
  BY <1>4, <1>6 DEF Lives
<1>8. fault' \in [UserProc -> [Who -> Faults]] /\ \A q \in UserProc : q # p => fault'[q] = fault[q]
  <2>1. fault \in [UserProc -> [Who -> Faults]]
    BY DEF PagesIInv, PagesTypeOK, Faults
  <2>2. NoFault \in Faults
    BY DEF NoFault, Faults
  <2>3. [who \in Who |-> StillServed(p, who)] \in [Who -> Faults]
    BY <1>2, <2>2 DEF StillServed
  <2> QED BY <1>1, <2>1, <2>3
<1>9. PagesTypeOK'
  BY <1>1, <1>8, StageType DEF PagesIInv, PagesTypeOK, Faults
<1>10. OwnedOnce(pageMap, mapped, stackBlock, unreachable)'
  BY DEF PagesIInv, OwnedOnce, Found
<1> QED BY <1>5, <1>7, <1>8, <1>9, <1>10, StepOfProcess

\* A process or its second thread exits in the middle of a page fault.
LEMMA ExitKeeps ==
  ASSUME PagesIInv, NEW p \in UserProc, stage[p].at = "up", NEW who, Exit(p, who),
         UNCHANGED <<pageMutex, stackBlock, stray, wild, unreachable, created>>
  PROVE  PagesIInv'
<1>1. CASE who = "main"
  <2>1. BeginEnd(p) /\ UNCHANGED <<pageMap, mapped, thread>>
    BY <1>1 DEF Exit
  <2>2. stray' \in BOOLEAN
    BY DEF PagesIInv, PagesTypeOK
  <2> QED BY <2>1, <2>2, BeginEndKeeps
<1>2. CASE who # "main"
  <2>1. DropThread(p)
    BY <1>2 DEF Exit
  <2> QED BY <2>1, DropThreadKeeps
<1> QED BY <1>1, <1>2

LEMMA CreateThreadKeeps ==
  ASSUME PagesIInv, NEW p \in UserProc, CreateThread(p)
  PROVE  PagesIInv'
<1> DEFINE kind == IF thread[p] = "none" THEN "threadpte" ELSE "threadstack"
           w == IF thread[p] = "none" THEN "new" ELSE "up"
<1>1. /\ stage[p].at = "up" /\ thread[p] # "up"
      /\ IF FreePages = {}
           THEN /\ unreachable' = unreachable \cup mapped[p]["threadpte"]
                /\ mapped' = [mapped EXCEPT ![p]["threadpte"] = {}]
                /\ thread' = [thread EXCEPT ![p] = "none"]
                /\ pageMap' = pageMap
           ELSE /\ Allocate /\ PutIn(p, kind)
                /\ thread' = [thread EXCEPT ![p] = w]
                /\ unreachable' = unreachable
      /\ UNCHANGED <<stage, fault, pageMutex, stackBlock, stray, wild, created>>
  BY DEF CreateThread, Runs, Alive, At, faults, oddities
<1>2. /\ mapped[p] \in [Kinds -> SUBSET Page] /\ thread[p] \in {"none", "new", "up"}
      /\ Lives(stage[p], mapped[p], thread[p], fault[p], pageMutex[p])
  BY ProcessParts
<1>3. InUse(mapped[p], thread[p]) /\ StillMissing(mapped[p], fault[p], pageMutex[p])
  BY <1>1, <1>2 DEF Lives
<1>4. /\ mapped[p]["pde"] # {} /\ mapped[p]["pte"] # {} /\ mapped[p]["stackpte"] # {}
      /\ mapped[p]["image"] # {} /\ mapped[p]["stack"] # {} /\ mapped[p]["header"] # {}
      /\ mapped[p]["env"] # {}
      /\ mapped[p]["dll"] # {} => mapped[p]["dllpte"] # {}
      /\ \A k \in HeapPages : mapped[p][k] # {} => mapped[p]["heappte"] # {}
      /\ mapped[p]["threadstack"] = {}
      /\ thread[p] = "none" => mapped[p]["threadpte"] = {}
      /\ thread[p] = "new" => mapped[p]["threadpte"] # {}
  BY <1>1, <1>2, <1>3, InUseParts DEF InUse
<1>5. /\ pageMap \in SUBSET Page /\ mapped \in [UserProc -> [Kinds -> SUBSET Page]]
      /\ unreachable \in SUBSET Page /\ thread \in [UserProc -> {"none", "new", "up"}]
      /\ OwnedOnce(pageMap, mapped, stackBlock, unreachable)
  BY DEF PagesIInv, PagesTypeOK
<1>6. CASE FreePages = {}
  <2> DEFINE n == mapped'
             S == mapped[p]["threadpte"]
             K == {"threadpte"}
  <2>1. "threadpte" \in Kinds /\ K \in SUBSET Kinds
    BY KindsAre
  <2>2. /\ n[p]["threadpte"] = {}
        /\ \A k \in Kinds : k # "threadpte" => n[p][k] = mapped[p][k]
        /\ \A q \in UserProc : q # p => n[q] = mapped[q]
        /\ n \in [UserProc -> [Kinds -> SUBSET Page]]
    <3>1. n = [mapped EXCEPT ![p]["threadpte"] = {}]
      BY <1>1, <1>6
    <3> HIDE DEF n
    <3> QED BY <1>5, <2>1, <3>1
  <2>3. thread'[p] = "none" /\ (\A q \in UserProc : q # p => thread'[q] = thread[q]) /\ S \subseteq Page
    <3>1. thread' = [thread EXCEPT ![p] = "none"]
      BY <1>1, <1>6
    <3>2. thread'[p] = "none" /\ \A q \in UserProc : q # p => thread'[q] = thread[q]
      BY <1>5, <3>1
    <3>3. S \subseteq Page
      BY <1>2, <2>1
    <3> QED BY <3>2, <3>3
  <2> HIDE DEF n
  <2>4. Empties(mapped, n, p, K)
    BY <2>2 DEF Empties
  <2>5. \A page \in Page : page \in S <=> \E k \in K : page \in mapped[p][k]
    OBVIOUS
  <2> HIDE DEF S, K
  <2>6. OwnedOnce(pageMap, n, stackBlock, unreachable \cup S)
    BY <1>5, <2>1, <2>4, <2>5, GivenByProcess
  <2>7. /\ n[p]["pde"] # {} /\ n[p]["pte"] # {} /\ n[p]["stackpte"] # {}
        /\ n[p]["image"] # {} /\ n[p]["stack"] # {} /\ n[p]["header"] # {} /\ n[p]["env"] # {}
        /\ n[p]["dll"] # {} => n[p]["dllpte"] # {}
        /\ \A k \in HeapPages : n[p][k] # {} => n[p]["heappte"] # {}
        /\ n[p]["threadstack"] = {}
    BY <1>4, <2>2, KindsAre, HeapPagesAre
  <2>8. InUse(n[p], "none")
    BY <2>2, <2>7, IsInUse
  <2>12. StillMissing(n[p], fault'[p], pageMutex'[p])
    <3>1. n[p]["heappte"] = mapped[p]["heappte"] /\ \A k \in HeapPages : n[p][k] = mapped[p][k]
      BY <2>2, KindsAre, HeapPagesAre
    <3>2. \A who \in Who : Mapping(fault'[p], who) =>
            fault'[p][who] = fault[p][who] /\ pageMutex'[p] = pageMutex[p]
      BY <1>1
    <3> QED BY <1>3, <3>1, <3>2, MissingAsBefore
  <2>13. Lives(stage'[p], mapped'[p], thread'[p], fault'[p], pageMutex'[p])
    BY <1>1, <2>3, <2>8, <2>12 DEF Lives, n
  <2>10. PagesTypeOK'
    <3>1. thread' \in [UserProc -> {"none", "new", "up"}] /\ pageMap' \in SUBSET Page /\ unreachable' \in SUBSET Page
      BY <1>1, <1>5, <1>6, <2>3 DEF S
    <3> QED BY <1>1, <2>2, <3>1 DEF PagesIInv, PagesTypeOK, n
  <2>11. OwnedOnce(pageMap, mapped, stackBlock, unreachable)'
    BY <1>1, <1>6, <2>6 DEF n, S
  <2> QED BY <1>1, <1>6, <2>2, <2>3, <2>10, <2>11, <2>13, StepOfProcess DEF n
<1>7. CASE FreePages # {}
  <2>1. kind \in Kinds
    BY KindsAre
  <2>2. thread'[p] = w /\ (\A q \in UserProc : q # p => thread'[q] = thread[q]) /\ w \in {"none", "new", "up"}
    BY <1>1, <1>5, <1>7
  <2>3. \/ thread[p] = "none" /\ kind = "threadpte" /\ w = "new"
        \/ thread[p] = "new" /\ kind = "threadstack" /\ w = "up"
    BY <1>1, <1>2
  <2> HIDE DEF kind, w
  <2>4. /\ pageMap' \in SUBSET Page /\ mapped' \in [UserProc -> [Kinds -> SUBSET Page]]
        /\ OwnedOnce(pageMap', mapped', stackBlock, unreachable)
        /\ mapped'[p][kind] # {}
        /\ \A k \in Kinds : k # kind => mapped'[p][k] = mapped[p][k]
        /\ \A q \in UserProc : q # p => mapped'[q] = mapped[q]
    BY <1>1, <1>7, <2>1, PutInParts
  <2> DEFINE n == mapped'
  <2>5. n[p][kind] # {} /\ \A k \in Kinds : k # kind => n[p][k] = mapped[p][k]
    BY <2>4
  <2> HIDE DEF n
  <2>6. InUse(n[p], w)
    <3>1. kind \in {"threadpte", "threadstack"}
      BY <2>3
    <3>2. /\ n[p]["pde"] # {} /\ n[p]["pte"] # {} /\ n[p]["stackpte"] # {}
          /\ n[p]["image"] # {} /\ n[p]["stack"] # {} /\ n[p]["header"] # {} /\ n[p]["env"] # {}
          /\ n[p]["dll"] # {} => n[p]["dllpte"] # {}
          /\ \A k \in HeapPages : n[p][k] # {} => n[p]["heappte"] # {}
      BY <1>4, <2>5, <3>1, KindsAre, HeapPagesAre
    <3>3. /\ w = "new" => n[p]["threadpte"] # {} /\ n[p]["threadstack"] = {}
          /\ w = "up" => n[p]["threadpte"] # {}
          /\ w # "none"
      BY <1>4, <2>3, <2>5, KindsAre
    <3> QED BY <3>2, <3>3, IsInUse
  <2>7. Lives(stage'[p], mapped'[p], thread'[p], fault'[p], pageMutex'[p])
    <3>1. n[p]["heappte"] = mapped[p]["heappte"] /\ \A k \in HeapPages : n[p][k] = mapped[p][k]
      BY <2>3, <2>5, KindsAre, HeapPagesAre
    <3>2. StillMissing(n[p], fault[p], pageMutex[p])
      BY <1>3, <3>1 DEF StillMissing, Mapping
    <3> QED BY <1>1, <1>7, <2>2, <2>6, <3>2 DEF Lives, n
  <2>8. PagesTypeOK'
    BY <1>1, <1>7, <2>2, <2>4 DEF PagesIInv, PagesTypeOK
  <2>9. OwnedOnce(pageMap, mapped, stackBlock, unreachable)'
    BY <1>1, <1>7, <2>4
  <2> QED BY <1>1, <1>7, <2>2, <2>4, <2>7, <2>8, <2>9, StepOfProcess
<1> QED BY <1>6, <1>7

LEMMA EndThreadKeeps ==
  ASSUME PagesIInv, NEW p \in UserProc, EndThread(p)
  PROVE  PagesIInv'
<1>1. /\ stage[p].at = "up" /\ DropThread(p)
      /\ UNCHANGED <<pageMutex, stackBlock, stray, wild, unreachable, created>>
  BY DEF EndThread, Alive, At, oddities
<1> QED BY <1>1, DropThreadKeeps

LEMMA EndKeeps ==
  ASSUME PagesIInv, NEW p \in UserProc, End(p)
  PROVE  PagesIInv'
<1>1. /\ stage[p].at = "up" /\ BeginEnd(p) /\ stray' \in BOOLEAN
      /\ UNCHANGED <<pageMap, mapped, thread, pageMutex, stackBlock, wild, unreachable, created>>
  BY DEF End, At
<1> QED BY <1>1, BeginEndKeeps

\* Page faults, step by step.
LEMMA FaultKeeps ==
  ASSUME PagesIInv, NEW p \in UserProc, NEW who \in Who, NEW on \in HeapPages \cup {"stack"}, Fault(p, who, on)
  PROVE  PagesIInv'
<1> DEFINE v == [at |-> "asked", on |-> on]
<1>1. /\ stage[p].at = "up" /\ fault' = [fault EXCEPT ![p][who] = v]
      /\ UNCHANGED <<pageMap, mapped, stage, thread, pageMutex, stackBlock, stray, wild, unreachable, created>>
  BY DEF Fault, Runs, Alive, At, oddities
<1>2. v \in Faults /\ v.at = "asked"
  BY DEF Faults
<1> HIDE DEF v
<1>3. /\ PagesTypeOK /\ Lives(stage[p], mapped[p], thread[p], fault[p], pageMutex[p])
      /\ pageMutex' \in [UserProc -> BOOLEAN] /\ stray' \in BOOLEAN
  BY <1>1, ProcessParts DEF PagesIInv, PagesTypeOK
<1>4. /\ fault' \in [UserProc -> [Who -> Faults]] /\ fault'[p][who] = v
      /\ \A other \in Who : other # who => fault'[p][other] = fault[p][other]
      /\ \A q \in UserProc : q # p => fault'[q] = fault[q]
  BY <1>1, <1>2, <1>3, FaultIs
<1>5. StillMissing(mapped[p], fault[p], pageMutex[p])
  BY <1>1, <1>3 DEF Lives
<1>6. \A other \in Who : Mapping(fault'[p], other) =>
        fault'[p][other] = fault[p][other] /\ pageMutex'[p] = pageMutex[p]
  BY <1>1, <1>2, <1>4 DEF Mapping
<1>7. StillMissing(mapped[p], fault'[p], pageMutex'[p])
  BY <1>5, <1>6, MissingAsBefore
<1> QED BY <1>1, <1>3, <1>4, <1>7, OnlyFaults

LEMMA RefuseKeeps ==
  ASSUME PagesIInv, NEW p \in UserProc, NEW who \in Who, Refuse(p, who)
  PROVE  PagesIInv'
<1>1. /\ stage[p].at = "up" /\ Becomes(p, who, "refused")
      /\ UNCHANGED <<pageMap, mapped, stage, thread, pageMutex, stackBlock, stray, wild, unreachable, created>>
  BY DEF Refuse, At, oddities
<1>2. /\ PagesTypeOK /\ Lives(stage[p], mapped[p], thread[p], fault[p], pageMutex[p])
      /\ pageMutex' \in [UserProc -> BOOLEAN] /\ stray' \in BOOLEAN
  BY <1>1, ProcessParts DEF PagesIInv, PagesTypeOK
<1>3. /\ fault' \in [UserProc -> [Who -> Faults]] /\ fault'[p][who].at = "refused"
      /\ \A other \in Who : other # who => fault'[p][other] = fault[p][other]
      /\ \A q \in UserProc : q # p => fault'[q] = fault[q]
  BY <1>1, <1>2, FaultBecomes
<1>4. StillMissing(mapped[p], fault[p], pageMutex[p])
  BY <1>1, <1>2 DEF Lives
<1>5. \A other \in Who : Mapping(fault'[p], other) =>
        fault'[p][other] = fault[p][other] /\ pageMutex'[p] = pageMutex[p]
  BY <1>1, <1>3 DEF Mapping
<1>6. StillMissing(mapped[p], fault'[p], pageMutex'[p])
  BY <1>4, <1>5, MissingAsBefore
<1> QED BY <1>1, <1>2, <1>3, <1>6, OnlyFaults

LEMMA LookUpKeeps ==
  ASSUME PagesIInv, NEW p \in UserProc, NEW who \in Who, LookUp(p, who)
  PROVE  PagesIInv'
<1> DEFINE at == Missing(p, fault[p][who].on)
<1>1. /\ stage[p].at = "up" /\ fault[p][who].on \in HeapPages /\ ~pageMutex[p] /\ Becomes(p, who, at)
      /\ pageMutex' = [pageMutex EXCEPT ![p] = at \in {"table", "page"}]
      /\ UNCHANGED <<pageMap, mapped, stage, thread, stackBlock, stray, wild, unreachable, created>>
  BY DEF LookUp, UnlockedAfter, At, oddities
<1>2. /\ at \in {"table", "page", "served"}
      /\ at = "table" => mapped[p]["heappte"] = {}
      /\ at = "page" => mapped[p]["heappte"] # {} /\ mapped[p][fault[p][who].on] = {}
  BY DEF Missing
<1> HIDE DEF at
<1>3. /\ PagesTypeOK /\ Lives(stage[p], mapped[p], thread[p], fault[p], pageMutex[p])
      /\ pageMutex \in [UserProc -> BOOLEAN] /\ stray' \in BOOLEAN
  BY <1>1, ProcessParts DEF PagesIInv, PagesTypeOK
<1>4. /\ fault' \in [UserProc -> [Who -> Faults]] /\ fault'[p][who].at = at
      /\ fault'[p][who].on = fault[p][who].on
      /\ \A other \in Who : other # who => fault'[p][other] = fault[p][other]
      /\ \A q \in UserProc : q # p => fault'[q] = fault[q]
  BY <1>1, <1>2, <1>3, FaultBecomes
<1>5. /\ pageMutex' \in [UserProc -> BOOLEAN] /\ pageMutex'[p] = (at \in {"table", "page"})
      /\ \A q \in UserProc : q # p => pageMutex'[q] = pageMutex[q]
  BY <1>1, <1>3
<1>6. \A other \in Who : ~Mapping(fault[p], other)
  BY <1>1, <1>3 DEF Lives, StillMissing
<1>7. \A other \in Who : Mapping(fault'[p], other) => other = who
  BY <1>4, <1>6 DEF Mapping
<1>8. StillMissing(mapped[p], fault'[p], pageMutex'[p])
  <2>1. \A other \in Who : fault'[p][other].at = "table" => mapped[p]["heappte"] = {}
    BY <1>2, <1>4, <1>7 DEF Mapping
  <2>2. \A other \in Who : fault'[p][other].at = "page" =>
          mapped[p]["heappte"] # {} /\ mapped[p][fault'[p][other].on] = {}
    BY <1>2, <1>4, <1>7 DEF Mapping
  <2>3. \A other \in Who : Mapping(fault'[p], other) => pageMutex'[p] /\ fault'[p][other].on \in HeapPages
    BY <1>1, <1>4, <1>5, <1>7 DEF Mapping
  <2> QED BY <1>7, <2>1, <2>2, <2>3 DEF StillMissing
<1> QED BY <1>1, <1>3, <1>4, <1>5, <1>8, OnlyFaults

\* A page for the heap, kind being its table or the page.
LEMMA MappedKeeps ==
  ASSUME PagesIInv, NEW p \in UserProc, NEW kind \in HeapPages \cup {"heappte"}, stage[p].at = "up",
         kind \in HeapPages => mapped[p]["heappte"] # {}, Allocate, PutIn(p, kind),
         UNCHANGED <<stage, thread, stackBlock, stray, wild, unreachable, created>>,
         fault' \in [UserProc -> [Who -> Faults]], pageMutex' \in [UserProc -> BOOLEAN],
         \A q \in UserProc : q # p => fault'[q] = fault[q] /\ pageMutex'[q] = pageMutex[q],
         StillMissing(mapped'[p], fault'[p], pageMutex'[p])
  PROVE  PagesIInv'
<1>1. /\ kind \in Kinds /\ kind # "dll" /\ kind # "threadpte" /\ kind # "threadstack"
  BY KindsAre, HeapPagesAre
<1>2. /\ pageMap' \in SUBSET Page /\ mapped' \in [UserProc -> [Kinds -> SUBSET Page]]
      /\ OwnedOnce(pageMap', mapped', stackBlock, unreachable)
      /\ mapped'[p][kind] # {}
      /\ \A k \in Kinds : k # kind => mapped'[p][k] = mapped[p][k]
      /\ \A q \in UserProc : q # p => mapped'[q] = mapped[q]
  BY <1>1, PutInParts
<1>3. Lives(stage[p], mapped[p], thread[p], fault[p], pageMutex[p])
  BY ProcessParts
<1>4. InUse(mapped[p], thread[p])
  BY <1>3 DEF Lives
<1>5. InUse(mapped'[p], thread[p])
  BY <1>1, <1>2, <1>4, UsedMore
<1>6. Lives(stage'[p], mapped'[p], thread'[p], fault'[p], pageMutex'[p])
  BY <1>5 DEF Lives
<1>7. PagesTypeOK'
  BY <1>2 DEF PagesIInv, PagesTypeOK, Faults
<1>8. OwnedOnce(pageMap, mapped, stackBlock, unreachable)'
  BY <1>2
<1> QED BY <1>2, <1>6, <1>7, <1>8, StepOfProcess

LEMMA MapTableKeeps ==
  ASSUME PagesIInv, NEW p \in UserProc, NEW who \in Who, MapTable(p, who)
  PROVE  PagesIInv'
<1>1. /\ stage[p].at = "up" /\ fault[p][who].at = "table" /\ Allocate
      /\ mapped' = [mapped EXCEPT ![p] = [k \in Kinds |-> IF k = "heappte" THEN {NextPage}
                                                           ELSE IF k \in HeapPages THEN {} ELSE @[k]]]
      /\ Becomes(p, who, "page")
      /\ UNCHANGED <<stage, thread, pageMutex, stackBlock, stray, wild, unreachable, created>>
  BY DEF MapTable, At, oddities
<1>2. /\ PagesTypeOK /\ Lives(stage[p], mapped[p], thread[p], fault[p], pageMutex[p])
      /\ pageMutex' \in [UserProc -> BOOLEAN]
      /\ mapped[p] \in [Kinds -> SUBSET Page] /\ mapped \in [UserProc -> [Kinds -> SUBSET Page]]
  BY <1>1, ProcessParts DEF PagesIInv, PagesTypeOK
<1>3. StillMissing(mapped[p], fault[p], pageMutex[p]) /\ InUse(mapped[p], thread[p])
  BY <1>1, <1>2 DEF Lives
<1>4. mapped[p]["heappte"] = {} /\ \A k \in HeapPages : mapped[p][k] = {}
  BY <1>1, <1>3 DEF StillMissing, InUse
<1>5. /\ fault' \in [UserProc -> [Who -> Faults]] /\ fault'[p][who].at = "page"
      /\ fault'[p][who].on = fault[p][who].on
      /\ \A other \in Who : other # who => fault'[p][other] = fault[p][other]
      /\ \A q \in UserProc : q # p => fault'[q] = fault[q]
  BY <1>1, <1>2, FaultBecomes
<1> HIDE DEF NextPage
<1>6. PutIn(p, "heappte")
  <2> DEFINE a == [k \in Kinds |-> IF k = "heappte" THEN {NextPage} ELSE IF k \in HeapPages THEN {} ELSE mapped[p][k]]
             b == [mapped[p] EXCEPT !["heappte"] = @ \cup {NextPage}]
  <2>1. \A k \in Kinds : a[k] = b[k]
    BY <1>2, <1>4, KindsAre, HeapPagesAre
  <2>2. a = b
    BY <1>2, <2>1
  <2>3. mapped' = [mapped EXCEPT ![p] = a]
    BY <1>1
  <2> HIDE DEF a
  <2>4. mapped' = [mapped EXCEPT ![p] = [mapped[p] EXCEPT !["heappte"] = @ \cup {NextPage}]]
    BY <2>2, <2>3
  <2> QED BY <2>4 DEF PutIn
<1>7. mapped'[p]["heappte"] # {} /\ \A k \in HeapPages : mapped'[p][k] = {}
  BY <1>1, <1>2, KindsAre, HeapPagesAre
<1>8. /\ \A other \in Who : Mapping(fault[p], other) => other = who
      /\ pageMutex[p] /\ fault[p][who].on \in HeapPages
  BY <1>1, <1>3 DEF StillMissing, Mapping
<1>9. \A other \in Who : Mapping(fault'[p], other) => other = who
  BY <1>5, <1>8 DEF Mapping
<1>10. StillMissing(mapped'[p], fault'[p], pageMutex'[p])
  <2>1. \A other \in Who : ~(fault'[p][other].at = "table")
    BY <1>5, <1>9 DEF Mapping
  <2>2. \A other \in Who : fault'[p][other].at = "page" =>
          mapped'[p]["heappte"] # {} /\ mapped'[p][fault'[p][other].on] = {}
    BY <1>5, <1>7, <1>8, <1>9 DEF Mapping
  <2>3. \A other \in Who : Mapping(fault'[p], other) => pageMutex'[p] /\ fault'[p][other].on \in HeapPages
    BY <1>1, <1>5, <1>8, <1>9
  <2> QED BY <1>9, <2>1, <2>2, <2>3 DEF StillMissing
<1> QED BY <1>1, <1>2, <1>5, <1>6, <1>10, HeapPagesAre, MappedKeeps

LEMMA MapPageKeeps ==
  ASSUME PagesIInv, NEW p \in UserProc, NEW who \in Who, MapPage(p, who)
  PROVE  PagesIInv'
<1> DEFINE on == fault[p][who].on
<1>1. /\ stage[p].at = "up" /\ fault[p][who].at = "page" /\ Allocate
      /\ mapped' = [mapped EXCEPT ![p][on] = {NextPage}]
      /\ Becomes(p, who, "served")
      /\ pageMutex' = [pageMutex EXCEPT ![p] = FALSE]
      /\ UNCHANGED <<stage, thread, stackBlock, stray, wild, unreachable, created>>
  <2>1. ("served" \in {"table", "page"}) = FALSE
    OBVIOUS
  <2>2. UnlockedAfter(p, "served")
    BY DEF MapPage
  <2>3. pageMutex' = [pageMutex EXCEPT ![p] = FALSE]
    BY <2>1, <2>2 DEF UnlockedAfter
  <2> QED BY <2>3 DEF MapPage, At, oddities
<1>2. /\ PagesTypeOK /\ Lives(stage[p], mapped[p], thread[p], fault[p], pageMutex[p])
      /\ pageMutex \in [UserProc -> BOOLEAN] /\ mapped \in [UserProc -> [Kinds -> SUBSET Page]]
  BY ProcessParts DEF PagesIInv, PagesTypeOK
<1>3. StillMissing(mapped[p], fault[p], pageMutex[p])
  BY <1>1, <1>2 DEF Lives
<1>4. /\ on \in HeapPages /\ mapped[p]["heappte"] # {} /\ mapped[p][on] = {}
      /\ \A other \in Who : Mapping(fault[p], other) => other = who
  BY <1>1, <1>3 DEF StillMissing, Mapping
<1>5. /\ fault' \in [UserProc -> [Who -> Faults]] /\ fault'[p][who].at = "served"
      /\ \A other \in Who : other # who => fault'[p][other] = fault[p][other]
      /\ \A q \in UserProc : q # p => fault'[q] = fault[q]
  BY <1>1, <1>2, FaultBecomes
<1>6. /\ pageMutex' \in [UserProc -> BOOLEAN]
      /\ \A q \in UserProc : q # p => pageMutex'[q] = pageMutex[q]
  BY <1>1, <1>2
<1> HIDE DEF on, NextPage
<1>7. PutIn(p, on)
  BY <1>1, <1>4 DEF PutIn
<1>8. \A other \in Who : ~Mapping(fault'[p], other)
  BY <1>4, <1>5 DEF Mapping
<1>9. StillMissing(mapped'[p], fault'[p], pageMutex'[p])
  BY <1>8 DEF StillMissing, Mapping
<1> QED BY <1>1, <1>4, <1>5, <1>6, <1>7, <1>9, MappedKeeps

LEMMA NoPageLeftKeeps ==
  ASSUME PagesIInv, NEW p \in UserProc, NEW who \in Who, NoPageLeft(p, who)
  PROVE  PagesIInv'
<1>1. /\ stage[p].at = "up" /\ fault[p][who].at \in {"table", "page"} /\ Becomes(p, who, "stuck")
      /\ \E locked \in BOOLEAN : pageMutex' = [pageMutex EXCEPT ![p] = locked]
      /\ UNCHANGED <<pageMap, mapped, stage, thread, stackBlock, stray, wild, unreachable, created>>
  BY DEF NoPageLeft, Stuck, At, oddities
<1>2. /\ PagesTypeOK /\ Lives(stage[p], mapped[p], thread[p], fault[p], pageMutex[p])
      /\ pageMutex \in [UserProc -> BOOLEAN] /\ stray' \in BOOLEAN
  BY <1>1, ProcessParts DEF PagesIInv, PagesTypeOK
<1>3. /\ fault' \in [UserProc -> [Who -> Faults]] /\ fault'[p][who].at = "stuck"
      /\ \A other \in Who : other # who => fault'[p][other] = fault[p][other]
      /\ \A q \in UserProc : q # p => fault'[q] = fault[q]
  BY <1>1, <1>2, FaultBecomes
<1>4. \A other \in Who : Mapping(fault[p], other) => other = who
  BY <1>1, <1>2 DEF Lives, StillMissing, Mapping
<1>5. \A other \in Who : ~Mapping(fault'[p], other)
  BY <1>3, <1>4 DEF Mapping
<1>6. StillMissing(mapped[p], fault'[p], pageMutex'[p])
  BY <1>5 DEF StillMissing, Mapping
<1>7. pageMutex' \in [UserProc -> BOOLEAN] /\ \A q \in UserProc : q # p => pageMutex'[q] = pageMutex[q]
  BY <1>1, <1>2
<1> QED BY <1>1, <1>2, <1>3, <1>6, <1>7, OnlyFaults

\* Nobody waits for the fault any more.
LEMMA FaultOverKeeps ==
  ASSUME PagesIInv, NEW p \in UserProc, NEW who \in Who, stage[p].at # "load",
         fault' = [fault EXCEPT ![p][who] = NoFault],
         UNCHANGED <<pageMap, mapped, stage, thread, pageMutex, stackBlock, stray, wild, unreachable, created>>
  PROVE  PagesIInv'
<1>1. /\ PagesTypeOK /\ Lives(stage[p], mapped[p], thread[p], fault[p], pageMutex[p])
      /\ pageMutex' \in [UserProc -> BOOLEAN] /\ stray' \in BOOLEAN
  BY ProcessParts DEF PagesIInv, PagesTypeOK
<1>2. NoFault \in Faults /\ NoFault.at = "no"
  BY DEF NoFault, Faults
<1>3. /\ fault' \in [UserProc -> [Who -> Faults]] /\ fault'[p][who] = NoFault
      /\ \A other \in Who : other # who => fault'[p][other] = fault[p][other]
      /\ \A q \in UserProc : q # p => fault'[q] = fault[q]
  BY <1>1, <1>2, FaultIs
<1>4. \A other \in Who : Mapping(fault'[p], other) =>
        fault'[p][other] = fault[p][other] /\ pageMutex'[p] = pageMutex[p]
  BY <1>2, <1>3 DEF Mapping
<1>5. ASSUME stage[p].at = "up" PROVE StillMissing(mapped[p], fault'[p], pageMutex'[p])
  <2> DEFINE m == mapped[p]
             f == fault[p]
             g == fault'[p]
             x == pageMutex[p]
             y == pageMutex'[p]
  <2>1. StillMissing(m, f, x)
    BY <1>1, <1>5 DEF Lives
  <2>2. \A other \in Who : Mapping(g, other) => g[other] = f[other] /\ y = x
    BY <1>4
  <2> HIDE DEF m, f, g, x, y
  <2>3. StillMissing(m, g, y)
    BY <2>1, <2>2, MissingAsBefore
  <2> QED BY <2>3 DEF m, g, y
<1>6. \A q \in UserProc : q # p => fault'[q] = fault[q] /\ pageMutex'[q] = pageMutex[q]
  BY <1>3
<1>7. UNCHANGED <<pageMap, mapped, stage, thread, stackBlock, wild, unreachable, created>>
  OBVIOUS
<1>8. /\ stage[p].at = "up" => StillMissing(mapped[p], fault'[p], pageMutex'[p])
      /\ fault' \in [UserProc -> [Who -> Faults]] /\ pageMutex' \in [UserProc -> BOOLEAN] /\ stray' \in BOOLEAN
  BY <1>1, <1>3, <1>5
<1> QED BY <1>6, <1>7, <1>8, OnlyFaults

LEMMA GoOnKeeps ==
  ASSUME PagesIInv, NEW p \in UserProc, NEW who \in Who, GoOn(p, who)
  PROVE  PagesIInv'
<1>1. /\ stage[p].at = "up"
      /\ UNCHANGED <<pageMutex, stackBlock, stray, wild, unreachable, created>>
      /\ \/ Exit(p, who)
         \/ fault' = [fault EXCEPT ![p][who] = NoFault] /\ UNCHANGED <<pageMap, mapped, stage, thread>>
  BY DEF GoOn, At, oddities
<1>2. CASE Exit(p, who)
  BY <1>1, <1>2, ExitKeeps
<1>3. CASE fault' = [fault EXCEPT ![p][who] = NoFault] /\ UNCHANGED <<pageMap, mapped, stage, thread>>
  BY <1>1, <1>3, FaultOverKeeps
<1> QED BY <1>1, <1>2, <1>3

LEMMA NoClientKeeps ==
  ASSUME PagesIInv, NEW p \in UserProc, NEW who \in Who, NoClient(p, who)
  PROVE  PagesIInv'
<1>1. /\ fault[p][who].at \in {"asked", "stuck"} /\ fault' = [fault EXCEPT ![p][who] = NoFault]
      /\ UNCHANGED <<pageMap, mapped, stage, thread, pageMutex, stackBlock, stray, wild, unreachable, created>>
  BY DEF NoClient, oddities
<1>2. stage[p].at # "load"
  BY <1>1, ProcessParts DEF Lives
<1> QED BY <1>1, <1>2, FaultOverKeeps

LEMMA StraysKeeps ==
  ASSUME PagesIInv, NEW p \in UserProc, NEW who \in Who, Strays(p, who)
  PROVE  PagesIInv'
<1>1. /\ stray' = TRUE
      /\ UNCHANGED <<pageMap, mapped, stage, thread, fault, pageMutex, created, stackBlock, wild, unreachable>>
  BY DEF Strays, space, faults
<1> QED BY <1>1 DEF PagesIInv, PagesTypeOK, OwnedOnce, Found

LEMMA FaultStepsKeep ==
  ASSUME PagesIInv, NEW p \in UserProc, NEW who \in Who, FaultSteps(p, who)
  PROVE  PagesIInv'
BY FaultKeeps, RefuseKeeps, LookUpKeeps, MapTableKeeps, MapPageKeeps, NoPageLeftKeeps, GoOnKeeps,
   NoClientKeeps, StraysKeeps DEF FaultSteps

LEMMA EndPagesKeeps ==
  ASSUME PagesIInv, NEW p \in UserProc, EndPages(p)
  PROVE  PagesIInv'
<1> DEFINE i == stage[p].next
           kind == EndOrder[i]
           forgotten == Behind(p, kind)
           S == mapped[p][kind]
           F == UNION {mapped[p][k] : k \in forgotten}
           K == forgotten \cup {kind}
           n == mapped'
           after == pageMap \ S
           hidden == unreachable \cup F
           next == i + 1
<1>1. /\ stage[p].at = "end" /\ i <= 16
      /\ pageMap' = after
      /\ n = [mapped EXCEPT ![p] = [k \in Kinds |-> IF k \in K THEN {} ELSE @[k]]]
      /\ unreachable' = hidden
      /\ stage' = [stage EXCEPT ![p].next = next]
      /\ thread' = [thread EXCEPT ![p] = "none"]
      /\ UNCHANGED <<fault, pageMutex, stackBlock, stray, wild, created>>
  BY Orders DEF EndPages, GivenBack, Give, At, oddities, faults
<1>2. /\ stage[p] \in [at : {"none", "load", "up", "end"}, next : 1 .. 17]
      /\ mapped[p] \in [Kinds -> SUBSET Page]
      /\ Lives(stage[p], mapped[p], thread[p], fault[p], pageMutex[p])
  BY ProcessParts
<1>3. DuringEnd(mapped[p], i)
  BY <1>1, <1>2 DEF Lives
<1>4. i \in 1 .. 16 /\ kind \in Kinds /\ next \in 1 .. 17 /\ next > 1
  BY <1>1, <1>2, OrdersAreInjective
<1>5. /\ pageMap \in SUBSET Page /\ mapped \in [UserProc -> [Kinds -> SUBSET Page]]
      /\ thread \in [UserProc -> {"none", "new", "up"}] /\ unreachable \in SUBSET Page
      /\ stage \in [UserProc -> [at : {"none", "load", "up", "end"}, next : 1 .. 17]]
      /\ OwnedOnce(pageMap, mapped, stackBlock, unreachable)
  BY StageType DEF PagesIInv, PagesTypeOK
<1>6. after \in SUBSET Page
  BY <1>5
<1>7. kind = EndOrder[i] /\ next = i + 1 /\ after = pageMap \ S /\ hidden = unreachable \cup F
  OBVIOUS
<1>8. /\ forgotten = {} \/ (forgotten = HeapPages /\ kind \in HeapPages /\ S = {})
      /\ forgotten \in SUBSET Kinds /\ forgotten \subseteq HeapPages /\ K \in SUBSET Kinds
  BY <1>4, HeapPagesAre DEF Behind
<1>9. \A page \in Page : page \in S <=> \E k \in {kind} : page \in mapped[p][k]
  OBVIOUS
<1>10. \A page \in Page : page \in F <=> \E k \in forgotten : page \in mapped[p][k]
  OBVIOUS
<1>11. F \in SUBSET Page
  BY <1>2, <1>8
<1>12. K = forgotten \cup {kind}
  OBVIOUS
<1>13. forgotten = {} => F = {}
  OBVIOUS
<1> HIDE DEF kind, n, next, S, F, K, after, hidden, forgotten
<1>14. /\ \A k \in Kinds : n[p][k] = IF k \in K THEN {} ELSE mapped[p][k]
       /\ \A q \in UserProc : q # p => n[q] = mapped[q]
       /\ n \in [UserProc -> [Kinds -> SUBSET Page]]
  <2> DEFINE v == [k \in Kinds |-> IF k \in K THEN {} ELSE mapped[p][k]]
  <2>1. v \in [Kinds -> SUBSET Page] /\ \A k \in Kinds : v[k] = IF k \in K THEN {} ELSE mapped[p][k]
    BY <1>2
  <2>2. n = [mapped EXCEPT ![p] = v]
    BY <1>1
  <2> HIDE DEF v
  <2> QED BY <1>5, <2>1, <2>2
<1>15. /\ thread'[p] = "none" /\ \A q \in UserProc : q # p => thread'[q] = thread[q]
       /\ thread' \in [UserProc -> {"none", "new", "up"}]
  BY <1>1, <1>5
<1>16. /\ stage' \in [UserProc -> [at : {"none", "load", "up", "end"}, next : 1 .. 17]]
       /\ stage'[p].at = "end" /\ stage'[p].next = next
       /\ \A q \in UserProc : q # p => stage'[q] = stage[q]
  <2> HIDE DEF i
  <2>1. stage' = [stage EXCEPT ![p] = [stage[p] EXCEPT !.next = next]]
    BY <1>1, <1>5
  <2>2. [stage[p] EXCEPT !.next = next] = [at |-> "end", next |-> next]
    BY <1>1, <1>2
  <2> QED BY <1>4, <1>5, <2>1, <2>2
<1>17. Empties(mapped, n, p, K)
  BY <1>14 DEF Empties
<1>18. OwnedOnce(after, n, stackBlock, hidden)
  <2>1. CASE forgotten = {}
    <3>1. K = {kind} /\ hidden = unreachable /\ {kind} \in SUBSET Kinds
      BY <1>4, <1>7, <1>12, <1>13, <2>1
    <3>2. Empties(mapped, n, p, {kind})
      BY <1>17, <3>1
    <3>3. OwnedOnce(pageMap \ S, n, stackBlock, unreachable)
      BY <1>5, <1>9, <3>1, <3>2, GivenByProcess
    <3> QED BY <1>7, <3>1, <3>3
  <2>2. CASE forgotten = HeapPages /\ kind \in HeapPages /\ S = {}
    <3>1. K = forgotten /\ after = pageMap
      BY <1>7, <1>12, <2>2
    <3>2. Empties(mapped, n, p, forgotten)
      BY <1>17, <3>1
    <3>3. OwnedOnce(pageMap, n, stackBlock, unreachable \cup F)
      BY <1>5, <1>8, <1>10, <3>2, GivenByProcess
    <3> QED BY <1>7, <3>1, <3>3
  <2> QED BY <1>8, <2>1, <2>2
<1>19. DuringEnd(n[p], next)
  <2> HIDE DEF i
  <2> DEFINE m == mapped[p]
             l == n[p]
  <2>1. /\ DuringEnd(m, i) /\ l[EndOrder[i]] = {}
        /\ \A k \in Kinds : k # EndOrder[i] => l[k] = m[k] \/ (k \in HeapPages /\ l[k] = {})
    BY <1>3, <1>4, <1>7, <1>8, <1>12, <1>14
  <2> HIDE DEF m, l
  <2>2. DuringEnd(l, i + 1)
    BY <1>4, <2>1, EndingGoesOn
  <2> QED BY <1>7, <2>2 DEF l
<1>20. Lives(stage'[p], mapped'[p], thread'[p], fault'[p], pageMutex'[p])
  BY <1>15, <1>16, <1>19 DEF Lives, n
<1>21. hidden \in SUBSET Page
  BY <1>5, <1>7, <1>11
<1>22. PagesTypeOK'
  BY <1>1, <1>6, <1>14, <1>15, <1>16, <1>21, StageType DEF PagesIInv, PagesTypeOK, n
<1>23. OwnedOnce(pageMap, mapped, stackBlock, unreachable)'
  BY <1>1, <1>18 DEF n
<1>24. \A q \in UserProc : q # p =>
         /\ stage'[q] = stage[q] /\ mapped'[q] = mapped[q] /\ thread'[q] = thread[q]
         /\ fault'[q] = fault[q] /\ pageMutex'[q] = pageMutex[q]
  BY <1>1, <1>14, <1>15, <1>16 DEF n
<1>25. stackBlock' = stackBlock
  BY <1>1
<1> HIDE DEF i
<1> QED BY <1>20, <1>22, <1>23, <1>24, <1>25, StepOfProcess

LEMMA EndedKeeps ==
  ASSUME PagesIInv, NEW p \in UserProc, Ended(p)
  PROVE  PagesIInv'
<1>1. /\ stage[p].at = "end" /\ stage[p].next > 16
      /\ stage' = [stage EXCEPT ![p] = NoStage]
      /\ UNCHANGED <<pageMap, mapped, thread, fault, pageMutex, stackBlock, stray, wild, unreachable, created>>
  BY Orders DEF Ended, At, oddities, faults
<1>2. /\ stage[p] \in [at : {"none", "load", "up", "end"}, next : 1 .. 17]
      /\ Lives(stage[p], mapped[p], thread[p], fault[p], pageMutex[p])
  BY ProcessParts
<1>3. DuringEnd(mapped[p], stage[p].next) /\ thread[p] = "none"
  <2>1. stage[p].next \in Int /\ stage[p].next > 1
    BY <1>1, <1>2
  <2> QED BY <1>1, <1>2, <2>1 DEF Lives
<1>4. BeforeLoad(mapped[p])
  <2>1. stage[p].next \in Int
    BY <1>2
  <2> QED BY <1>1, <1>3, <2>1, EndingIsOver
<1>5. stage'[p] = NoStage /\ \A q \in UserProc : q # p => stage'[q] = stage[q]
  BY <1>1 DEF PagesIInv, PagesTypeOK
<1>6. Lives(stage'[p], mapped'[p], thread'[p], fault'[p], pageMutex'[p])
  BY <1>1, <1>3, <1>4, <1>5, StageType DEF Lives
<1>7. PagesTypeOK'
  BY <1>1, StageType DEF PagesIInv, PagesTypeOK
<1>8. OwnedOnce(pageMap, mapped, stackBlock, unreachable)'
  BY <1>1 DEF PagesIInv, OwnedOnce, Found
<1> QED BY <1>1, <1>5, <1>6, <1>7, <1>8, StepOfProcess

LEMMA AllocateKernelStackKeeps ==
  ASSUME PagesIInv, NEW b \in StackBlocks, AllocateKernelStack(b)
  PROVE  PagesIInv'
<1> DEFINE enough == Cardinality(FreePages) >= KernelStackPages
           got == FirstPages(KernelStackPages)
           block == [used |-> TRUE, pages |-> got, live |-> enough]
           after == pageMap \cup got
<1>1. /\ ~stackBlock[b].used /\ pageMap' = after
      /\ stackBlock' = [stackBlock EXCEPT ![b] = block]
      /\ UNCHANGED <<mapped, stage, thread, fault, pageMutex, created, stray, wild, unreachable>>
  BY DEF AllocateKernelStack, FreeBlocks, space, oddities, faults
<1>2. /\ pageMap \in SUBSET Page /\ OwnedOnce(pageMap, mapped, stackBlock, unreachable)
      /\ stackBlock \in [StackBlocks -> [used : BOOLEAN, pages : SUBSET Page, live : BOOLEAN]]
      /\ stackBlock[b].pages = {}
  BY <1>1 DEF PagesIInv, PagesTypeOK
<1>3. got \in SUBSET (Page \ pageMap)
  BY FirstAreFree
<1>4. enough \in BOOLEAN
  OBVIOUS
<1>5. after = pageMap \cup got /\ after \in SUBSET Page
  BY <1>2, <1>3
<1> HIDE DEF enough, got
<1>6. /\ block.used = TRUE /\ block.pages = got
      /\ block \in [used : BOOLEAN, pages : SUBSET Page, live : BOOLEAN]
  BY <1>3, <1>4
<1> HIDE DEF block, after
<1>7. /\ stackBlock'[b] = block /\ \A c \in StackBlocks : c # b => stackBlock'[c] = stackBlock[c]
      /\ stackBlock' \in [StackBlocks -> [used : BOOLEAN, pages : SUBSET Page, live : BOOLEAN]]
  BY <1>1, <1>2, <1>6
<1>8. OwnedOnce(pageMap, mapped, stackBlock, unreachable)'
  <2> DEFINE tb == stackBlock'
  <2>1. /\ pageMap \in SUBSET Page /\ OwnedOnce(pageMap, mapped, stackBlock, unreachable)
        /\ got \in SUBSET (Page \ pageMap) /\ stackBlock[b].pages = {} /\ tb[b].pages = got
        /\ \A c \in StackBlocks : c # b => tb[c] = stackBlock[c]
        /\ after = pageMap \cup got
    BY <1>2, <1>3, <1>5, <1>6, <1>7
  <2> HIDE DEF tb
  <2>2. OwnedOnce(after, mapped, tb, unreachable)
    BY <2>1, TakenByStack, Zenon
  <2> QED BY <1>1, <2>2 DEF tb
<1>9. PagesTypeOK'
  BY <1>1, <1>5, <1>7 DEF PagesIInv, PagesTypeOK
<1>10. \A c \in StackBlocks : ~stackBlock'[c].used => stackBlock'[c].pages = {}
  BY <1>6, <1>7 DEF PagesIInv
<1>11. (\A p \in UserProc : Lives(stage[p], mapped[p], thread[p], fault[p], pageMutex[p]))'
  BY <1>1 DEF PagesIInv
<1> QED BY <1>8, <1>9, <1>10, <1>11 DEF PagesIInv

LEMMA DeAllocateKernelStackKeeps ==
  ASSUME PagesIInv, NEW b \in StackBlocks, DeAllocateKernelStack(b)
  PROVE  PagesIInv'
<1> DEFINE after == pageMap \ stackBlock[b].pages
<1>1. /\ pageMap' = after
      /\ stackBlock' = [stackBlock EXCEPT ![b] = NoStack]
      /\ UNCHANGED <<mapped, stage, thread, fault, pageMutex, created, stray, wild, unreachable>>
  BY DEF DeAllocateKernelStack, Give, space, oddities, faults
<1>2. /\ pageMap \in SUBSET Page /\ OwnedOnce(pageMap, mapped, stackBlock, unreachable)
      /\ stackBlock \in [StackBlocks -> [used : BOOLEAN, pages : SUBSET Page, live : BOOLEAN]]
  BY DEF PagesIInv, PagesTypeOK
<1>3. after = pageMap \ stackBlock[b].pages /\ after \in SUBSET Page
  BY <1>2
<1>4. NoStack.pages = {} /\ NoStack \in [used : BOOLEAN, pages : SUBSET Page, live : BOOLEAN]
  BY DEF NoStack
<1> HIDE DEF after
<1>5. /\ stackBlock'[b] = NoStack /\ \A c \in StackBlocks : c # b => stackBlock'[c] = stackBlock[c]
      /\ stackBlock' \in [StackBlocks -> [used : BOOLEAN, pages : SUBSET Page, live : BOOLEAN]]
  BY <1>1, <1>2, <1>4
<1>6. OwnedOnce(pageMap, mapped, stackBlock, unreachable)'
  <2> DEFINE tb == stackBlock'
  <2>1. tb[b].pages = {} /\ \A c \in StackBlocks : c # b => tb[c] = stackBlock[c]
    BY <1>4, <1>5
  <2> HIDE DEF tb
  <2>2. OwnedOnce(after, mapped, tb, unreachable)
    BY <1>2, <1>3, <2>1, GivenByStack
  <2> QED BY <1>1, <2>2 DEF tb
<1>7. PagesTypeOK'
  BY <1>1, <1>3, <1>5 DEF PagesIInv, PagesTypeOK
<1>8. \A c \in StackBlocks : ~stackBlock'[c].used => stackBlock'[c].pages = {}
  BY <1>4, <1>5 DEF PagesIInv
<1>9. (\A p \in UserProc : Lives(stage[p], mapped[p], thread[p], fault[p], pageMutex[p]))'
  BY <1>1 DEF PagesIInv
<1> QED BY <1>6, <1>7, <1>8, <1>9 DEF PagesIInv

LEMMA InitPages == PagesInit => PagesIInv
<1> SUFFICES ASSUME PagesInit PROVE PagesIInv
  OBVIOUS
<1>1. /\ unreachable \in SUBSET Page /\ pageMap = unreachable
      /\ mapped = [p \in UserProc |-> Nothing]
      /\ stackBlock = [b \in StackBlocks |-> NoStack]
  BY PageAssumption DEF PagesInit
<1>2. /\ \A p \in UserProc, k \in Kinds : mapped[p][k] = {}
      /\ mapped \in [UserProc -> [Kinds -> SUBSET Page]]
  BY <1>1 DEF Nothing
<1>3. /\ \A b \in StackBlocks : stackBlock[b].pages = {}
      /\ stackBlock \in [StackBlocks -> [used : BOOLEAN, pages : SUBSET Page, live : BOOLEAN]]
  BY <1>1 DEF NoStack
<1>4. OwnedOnce(pageMap, mapped, stackBlock, unreachable)
  BY <1>1, <1>2, <1>3 DEF OwnedOnce, Found
<1>5. NoStage \in [at : {"none", "load", "up", "end"}, next : 1 .. Len(EndOrder) + 1] /\ NoStage.at = "none"
  BY StageType
<1>6. PagesTypeOK
  <2>1. stage \in [UserProc -> [at : {"none", "load", "up", "end"}, next : 1 .. Len(EndOrder) + 1]]
    BY <1>5 DEF PagesInit
  <2>2. /\ thread \in [UserProc -> {"none", "new", "up"}] /\ pageMutex \in [UserProc -> BOOLEAN]
        /\ stray \in BOOLEAN /\ wild \in BOOLEAN
    BY DEF PagesInit
  <2>5. fault \in [UserProc -> [Who -> Faults]]
    <3>1. NoFault \in Faults
      BY DEF NoFault, Faults
    <3> QED BY <3>1 DEF PagesInit
  <2>3. created \in 0 .. MaxCreated
    BY PageAssumption DEF PagesInit
  <2>4. pageMap \subseteq Page /\ unreachable \subseteq Page
    BY <1>1
  <2> QED BY <1>2, <1>3, <2>1, <2>2, <2>3, <2>4, <2>5 DEF PagesTypeOK, Faults
<1>7. \A p \in UserProc : stage[p].at = "none" /\ thread[p] = "none"
  BY <1>5 DEF PagesInit
<1>8. \A p \in UserProc : Lives(stage[p], mapped[p], thread[p], fault[p], pageMutex[p])
  BY <1>2, <1>7 DEF Lives, BeforeLoad
<1> QED BY <1>3, <1>4, <1>6, <1>8 DEF PagesIInv

LEMMA NextPages == PagesIInv /\ [PagesNext]_pagesVars => PagesIInv'
<1> SUFFICES ASSUME PagesIInv, [PagesNext]_pagesVars PROVE PagesIInv'
  OBVIOUS
<1>1. CASE UNCHANGED pagesVars
  BY <1>1 DEF pagesVars, PagesIInv, PagesTypeOK, OwnedOnce, Found
<1>2. ASSUME NEW p \in UserProc, ProcessSteps(p) PROVE PagesIInv'
  <2>1. CASE Create(p)
    BY <2>1, CreateKeeps
  <2>2. CASE LoadPage(p)
    BY <2>2, LoadPageKeeps
  <2>3. CASE LoadFails(p)
    BY <2>3, LoadFailsKeeps
  <2>4. CASE CopyImageFails(p)
    BY <2>4, CopyImageFailsKeeps
  <2>5. CASE AllocateGUIFramebuffer(p)
    BY <2>5, AllocateGUIFramebufferKeeps
  <2>6. CASE MapDLLPages(p)
    BY <2>6, MapDLLPagesKeeps
  <2>7. CASE CreateThread(p)
    BY <2>7, CreateThreadKeeps
  <2>8. CASE EndThread(p)
    BY <2>8, EndThreadKeeps
  <2>9. CASE \E who \in Who : FaultSteps(p, who)
    BY <2>9, FaultStepsKeep
  <2>10. CASE End(p)
    BY <2>10, EndKeeps
  <2>11. CASE EndPages(p)
    BY <2>11, EndPagesKeeps
  <2>12. CASE Ended(p)
    BY <2>12, EndedKeeps
  <2> QED BY <1>2, <2>1, <2>2, <2>3, <2>4, <2>5, <2>6, <2>7, <2>8, <2>9, <2>10, <2>11, <2>12 DEF ProcessSteps
<1>3. CASE \E b \in StackBlocks : AllocateKernelStack(b) \/ DeAllocateKernelStack(b)
  BY <1>3, AllocateKernelStackKeeps, DeAllocateKernelStackKeeps
<1> QED BY <1>1, <1>2, <1>3 DEF PagesNext

LEMMA OneHolderEach == PagesIInv => PagesHaveOneOwner
<1> SUFFICES ASSUME PagesIInv PROVE PagesHaveOneOwner
  OBVIOUS
<1>1. OwnedOnce(pageMap, mapped, stackBlock, unreachable)
  BY DEF PagesIInv
<1>2. ASSUME NEW page \in Page
      PROVE  Cardinality(HoldersOf(page)) = IF page \in pageMap THEN 1 ELSE 0
  <2> DEFINE S == HoldersOf(page)
  <2>1. \A h : h \in S <=>
          \/ \E p \in UserProc, k \in Kinds : h = <<"process", p, k>> /\ page \in mapped[p][k]
          \/ \E b \in StackBlocks : h = <<"stack", b>> /\ page \in stackBlock[b].pages
          \/ h = <<"nobody">> /\ page \in unreachable
    BY DEF HoldersOf
  <2>2. page \in pageMap <=> Found(page, mapped, stackBlock, unreachable)
    BY <1>1 DEF OwnedOnce
  <2> HIDE DEF S
  <2>3. CASE page \notin pageMap
    <3>1. S = {}
      BY <2>1, <2>2, <2>3 DEF Found
    <3> QED BY <2>3, <3>1, FS_EmptySet DEF S
  <2>4. CASE page \in pageMap
    <3>1. CASE \E p \in UserProc, k \in Kinds : page \in mapped[p][k]
      <4>1. PICK p \in UserProc, k \in Kinds : page \in mapped[p][k]
        BY <3>1
      <4>2. page \notin unreachable /\ \A b \in StackBlocks : page \notin stackBlock[b].pages
        BY <1>1, <4>1 DEF OwnedOnce
      <4>3. \A q \in UserProc, l \in Kinds : page \in mapped[q][l] => q = p /\ l = k
        BY <1>1, <4>1 DEF OwnedOnce
      <4>4. S = {<<"process", p, k>>}
        BY <2>1, <4>1, <4>2, <4>3
      <4> QED BY <2>4, <4>4, FS_Singleton DEF S
    <3>2. CASE \E b \in StackBlocks : page \in stackBlock[b].pages
      <4>1. PICK b \in StackBlocks : page \in stackBlock[b].pages
        BY <3>2
      <4>2. page \notin unreachable /\ \A q \in UserProc, l \in Kinds : page \notin mapped[q][l]
        BY <1>1, <4>1 DEF OwnedOnce
      <4>3. \A c \in StackBlocks : page \in stackBlock[c].pages => c = b
        BY <1>1, <4>1 DEF OwnedOnce
      <4>4. S = {<<"stack", b>>}
        BY <2>1, <4>1, <4>2, <4>3
      <4> QED BY <2>4, <4>4, FS_Singleton DEF S
    <3>3. CASE page \in unreachable
      <4>1. /\ \A q \in UserProc, l \in Kinds : page \notin mapped[q][l]
            /\ \A b \in StackBlocks : page \notin stackBlock[b].pages
        BY <1>1, <3>3 DEF OwnedOnce
      <4>2. S = {<<"nobody">>}
        BY <2>1, <3>3, <4>1
      <4> QED BY <2>4, <4>2, FS_Singleton DEF S
    <3> QED BY <2>2, <2>4, <3>1, <3>2, <3>3 DEF Found
  <2> QED BY <2>3, <2>4
<1>3. ASSUME NEW p \in UserProc, At(p, "none") PROVE All(p) = {}
  <2>1. Lives(stage[p], mapped[p], thread[p], fault[p], pageMutex[p])
    BY ProcessParts
  <2>2. \A k \in Kinds : mapped[p][k] = {}
    BY <1>3, <2>1 DEF Lives, BeforeLoad, At
  <2> QED BY <2>2 DEF All
<1> QED BY <1>2, <1>3 DEF PagesHaveOneOwner

LEMMA TablesStay == PagesIInv => TablesOutliveTheirPages
<1> SUFFICES ASSUME PagesIInv, NEW p \in UserProc
             PROVE  /\ \A k \in DOMAIN Table : mapped[p][k] # {} => mapped[p][Table[k]] # {}
                    /\ All(p) # {} => mapped[p]["pde"] # {}
  BY DEF TablesOutliveTheirPages
<1>1. /\ stage[p].at \in {"none", "load", "up", "end"} /\ stage[p].next \in 1 .. 17
      /\ thread[p] \in {"none", "new", "up"}
      /\ Lives(stage[p], mapped[p], thread[p], fault[p], pageMutex[p])
  BY ProcessParts
<1> DEFINE s == stage[p]
           m == mapped[p]
           w == thread[p]
           f == fault[p]
           x == pageMutex[p]
<1> HIDE DEF s, m, w, f, x
<1>2. /\ \A k \in DOMAIN Table : m[k] # {} => m[Table[k]] # {}
      /\ (\E k \in Kinds : m[k] # {}) => m["pde"] # {}
  <2>1. /\ s.at \in {"none", "load", "up", "end"} /\ s.next \in 1 .. 17
        /\ w \in {"none", "new", "up"} /\ Lives(s, m, w, f, x)
    BY <1>1 DEF s, m, w, f, x
  <2> QED BY <2>1, TablesAreThere
<1>3. All(p) # {} => \E k \in Kinds : m[k] # {}
  BY DEF All, m
<1> QED BY <1>2, <1>3 DEF m

\* Whichever processes are created, fault on the same pages or others, start threads,
\* are killed while a service maps a page, run out of pages half-way and end, page by page and
\* in any order: every page that is marked has exactly one owner, counting nobody for those
\* behind a failure or a hole in the heap, a process that has ended has none left, and no table
\* is given back before what it maps.
THEOREM PagesHaveOwners == PagesSpec => []PagesAreHeld
<1>1. PagesIInv => PagesAreHeld
  BY OneHolderEach, TablesStay DEF PagesAreHeld
<1> QED BY <1>1, InitPages, NextPages, PTL DEF PagesSpec

-----------------------------------------------------------------------------
(* The parts together *)

\* Whichever part moves, each of them does what its own specification allows, so what was
\* proved of the parts holds in every behaviour of the kernel below the processes.
THEOREM EachPartBehaves == KernelSpec => Spec /\ HeapSpec /\ PagesSpec /\ DescriptorsSpec
<1>1. KernelInit => Init /\ HeapInit /\ PagesInit /\ DescriptorsInit
  BY DEF KernelInit
<1>2. [KernelNext]_kernelVars =>
        [Next]_vars /\ [HeapNext]_heapVars /\ [PagesNext]_pagesVars /\ [DescriptorsNext]_descriptorVars
  <2> SUFFICES ASSUME [KernelNext]_kernelVars
               PROVE  [Next]_vars /\ [HeapNext]_heapVars /\ [PagesNext]_pagesVars
                      /\ [DescriptorsNext]_descriptorVars
    OBVIOUS
  <2>1. CASE UNCHANGED kernelVars
    BY <2>1 DEF kernelVars
  <2>2. CASE KernelNext
    BY <2>2 DEF KernelNext
  <2> QED BY <2>1, <2>2
<1> QED BY <1>1, <1>2, PTL DEF KernelSpec, Spec, HeapSpec, PagesSpec, DescriptorsSpec

\* The state of every part keeps its type, whichever part moves and however often.
THEOREM KernelTypes == KernelSpec => []KernelTypeOK
<1>1. HeapSpec => []HeapTypeOK
  <2>1. HeapIInv => HeapTypeOK
    BY DEF HeapIInv
  <2> QED BY <2>1, InitHeap, NextHeap, PTL DEF HeapSpec
<1>2. PagesSpec => []PagesTypeOK
  <2>1. PagesIInv => PagesTypeOK
    BY DEF PagesIInv
  <2> QED BY <2>1, InitPages, NextPages, PTL DEF PagesSpec
<1>3. DescriptorsSpec => []DescriptorsTypeOK
  <2>1. DescriptorsIInv => DescriptorsTypeOK
    BY DEF DescriptorsIInv
  <2> QED BY <2>1, InitDescriptors, NextDescriptors, PTL DEF DescriptorsSpec
<1>4. KernelSpec => [](part \in {"waits", "heap", "pages", "stacks", "faults", "descriptors"})
  <2>1. KernelInit => part \in {"waits", "heap", "pages", "stacks", "faults", "descriptors"}
    BY DEF KernelInit
  <2>2. part \in {"waits", "heap", "pages", "stacks", "faults", "descriptors"} /\ [KernelNext]_kernelVars
          => (part \in {"waits", "heap", "pages", "stacks", "faults", "descriptors"})'
    BY DEF KernelNext, kernelVars
  <2> QED BY <2>1, <2>2, PTL DEF KernelSpec
<1>5. /\ TypeOK /\ HeapTypeOK /\ PagesTypeOK /\ DescriptorsTypeOK
      /\ part \in {"waits", "heap", "pages", "stacks", "faults", "descriptors"}
      => KernelTypeOK
  BY DEF KernelTypeOK
<1> QED BY <1>1, <1>2, <1>3, <1>4, <1>5, TypeCorrect, EachPartBehaves, PTL
=============================================================================
