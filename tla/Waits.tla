------------------------------- MODULE Waits -------------------------------
(***************************************************************************)
(* How a process gives the CPU away and gets it back: sleeping, waiting    *)
(* for an interrupt, an event or a resource, and the task-switch flag that *)
(* ProcessSwitchLock and the waits themselves take.                        *)
(*                                                                         *)
(* One CPU.  noSwitch is the process that runs with the flag cleared: only *)
(* it, the interrupt handlers and the timer's tick take steps.  A wait     *)
(* clears the flag, sets the process's state and yields; the scheduler     *)
(* sets the flag again, so a wait is one action.  A process that must not  *)
(* be switched from polls instead.                                         *)
(***************************************************************************)
EXTENDS Naturals

CONSTANTS
  Proc,
  IRQ,          \* the interrupts processes wait for
  MaxPending,   \* bound on the signals of an interrupt not yet consumed
  MaxTicks,     \* bound on time
  ClockPeriod,  \* PIT_ClockCountForSleep is an unsigned of this many values
  Boot,         \* its value at the first state
  Durations,    \* milliseconds for Sleep
  None

ASSUME BoundsAssumption == /\ MaxPending \in Nat \ {0} /\ MaxTicks \in Nat
                           /\ ClockPeriod \in Nat \ {0} /\ Boot \in Nat
                           /\ Durations \subseteq Nat
ASSUME NoneAssumption == None \notin Proc \cup IRQ

MaxDepth == 2   \* bound on nested ProcessSwitchLocks

VARIABLES
  noSwitch,  \* who runs with Process_iTaskSwitch = 0
  depth,     \* how many ProcessSwitchLocks each process is inside
  status,    \* _status of each process
  polling,   \* who is in a poll loop instead of waiting, and for what
  sleep,     \* when each process began its sleep, and for how long
  irq,       \* the interrupt each process waits for
  pending,   \* _interruptCount of each interrupt
  event,     \* _eventCompleted of each process
  command,   \* each process's command to a controller: "none", "issued" or "answered"
  busy,      \* _resourceList of the resource
  lock,      \* where each process is with the ResourceMutex of the resource
  ticks      \* timer interrupts so far

vars == <<noSwitch, depth, status, polling, sleep, irq, pending, event, command, busy, lock, ticks>>
signals == <<pending, event, command, ticks>>
data == <<sleep, irq>>
mutex == <<busy, lock>>

Waiting == {"WAIT_SLEEP", "WAIT_INT", "WAIT_EVENT", "WAIT_RESOURCE"}
Polls == {"no", "sleep", "int", "event"}

TypeOK ==
  /\ noSwitch \in Proc \cup {None}
  /\ depth \in [Proc -> 0 .. MaxDepth]
  /\ status \in [Proc -> {"RUN"} \cup Waiting]
  /\ polling \in [Proc -> Polls]
  /\ sleep \in [Proc -> [since : Nat, ms : Nat]]
  /\ irq \in [Proc -> IRQ \cup {None}]
  /\ pending \in [IRQ -> 0 .. MaxPending]
  /\ event \in [Proc -> BOOLEAN]
  /\ command \in [Proc -> {"none", "issued", "answered"}]
  /\ busy \in BOOLEAN
  /\ lock \in [Proc -> {"out", "waiting", "in"}]
  /\ ticks \in 0 .. MaxTicks

\* PIT_ClockCountForSleep after n ticks.
ClockAt(n) == (Boot + n) % ClockPeriod

-----------------------------------------------------------------------------
(* Running processes *)

CanRun(p) == status[p] = "RUN" /\ noSwitch \in {p, None}
InUserCode(p) == CanRun(p) /\ polling[p] = "no" /\ lock[p] # "waiting"

\* Mutation of DoPollWait: it looks at KERNEL_MODE only.
NeverPolls(p) == FALSE
DoPollWait(p) == noSwitch = p

\* ProcessSwitchLock's constructor and destructor: only the outermost owns the flag.
Enter(p) ==
  /\ InUserCode(p) /\ depth[p] < MaxDepth
  /\ depth' = [depth EXCEPT ![p] = @ + 1]
  /\ noSwitch' = p
  /\ UNCHANGED <<status, polling, data, signals, mutex>>

\* Mutation of Leave: nobody is the owner.
LeaveNever(p) ==
  /\ InUserCode(p) /\ depth[p] > 0
  /\ depth' = [depth EXCEPT ![p] = @ - 1]
  /\ UNCHANGED <<noSwitch, status, polling, data, signals, mutex>>

Leave(p) ==
  /\ InUserCode(p) /\ depth[p] > 0
  /\ depth' = [depth EXCEPT ![p] = @ - 1]
  /\ noSwitch' = IF depth[p] = 1 THEN None ELSE p
  /\ UNCHANGED <<status, polling, data, signals, mutex>>

\* Disable, set the state, yield: the scheduler enables the task switch afterwards.
YieldAs(p, s) ==
  /\ status' = [status EXCEPT ![p] = s]
  /\ noSwitch' = None
  /\ UNCHANGED <<depth, polling>>

\* Poll for x if the task switch is off, else wait in state s.
PollOrYield(p, x, s) ==
  IF DoPollWait(p)
    THEN /\ polling' = [polling EXCEPT ![p] = x]
         /\ UNCHANGED <<noSwitch, depth, status>>
    ELSE YieldAs(p, s)

Sleep(p, ms) ==
  /\ InUserCode(p) /\ ticks + ms <= MaxTicks
  /\ sleep' = [sleep EXCEPT ![p] = [since |-> ticks, ms |-> ms]]
  /\ PollOrYield(p, "sleep", "WAIT_SLEEP")
  /\ UNCHANGED <<irq, signals, mutex>>

WaitOnInterrupt(p, i) ==
  /\ InUserCode(p)
  /\ irq' = [irq EXCEPT ![p] = i]
  /\ PollOrYield(p, "int", "WAIT_INT")
  /\ UNCHANGED <<sleep, signals, mutex>>

\* XHCIController::InitiateCommand, after which the process waits for the answer.
InitiateCommand(p) ==
  /\ InUserCode(p) /\ command[p] = "none"
  /\ command' = [command EXCEPT ![p] = "issued"]
  /\ UNCHANGED <<noSwitch, depth, status, polling, data, pending, event, ticks, mutex>>

WaitForEvent(p) ==
  /\ InUserCode(p) /\ command[p] # "none"
  /\ PollOrYield(p, "event", "WAIT_EVENT")
  /\ UNCHANGED <<data, signals, mutex>>

\* ResourceMutex::Lock(true), outside any ProcessSwitchLock as in UHCIController.
Lock(p) ==
  /\ InUserCode(p) /\ depth[p] = 0 /\ lock[p] = "out"
  /\ IF busy
       THEN /\ lock' = [lock EXCEPT ![p] = "waiting"]
            /\ YieldAs(p, "WAIT_RESOURCE")
            /\ busy' = busy
       ELSE /\ busy' = TRUE
            /\ lock' = [lock EXCEPT ![p] = "in"]
            /\ UNCHANGED <<noSwitch, depth, status, polling>>
  /\ UNCHANGED <<data, signals>>

\* The rest of Lock after the wait: it only enables the task switch.
Locked(p) ==
  /\ CanRun(p) /\ lock[p] = "waiting"
  /\ lock' = [lock EXCEPT ![p] = "in"]
  /\ noSwitch' = None
  /\ UNCHANGED <<depth, status, polling, data, signals, busy>>

UnLock(p) ==
  /\ InUserCode(p) /\ lock[p] = "in"
  /\ busy' = FALSE
  /\ lock' = [lock EXCEPT ![p] = "out"]
  /\ UNCHANGED <<noSwitch, depth, status, polling, data, signals>>

\* Consume and IsEventCompleted take what they find.
Take(p, kind) ==
  /\ pending' = IF kind = "int" THEN [pending EXCEPT ![irq[p]] = @ - 1] ELSE pending
  /\ event' = IF kind = "event" THEN [event EXCEPT ![p] = FALSE] ELSE event
  /\ command' = IF kind = "event" THEN [command EXCEPT ![p] = "none"] ELSE command
  /\ ticks' = ticks

\* KernelUtil::Wait compares a difference of clocks.
PollOver(p) ==
  CASE polling[p] = "sleep" ->
         (ClockAt(ticks) + ClockPeriod - ClockAt(sleep[p].since)) % ClockPeriod >= sleep[p].ms
    [] polling[p] = "int" -> pending[irq[p]] > 0
    [] polling[p] = "event" -> event[p]
    [] OTHER -> FALSE

EndPoll(p) ==
  /\ CanRun(p) /\ PollOver(p)
  /\ polling' = [polling EXCEPT ![p] = "no"]
  /\ Take(p, polling[p])
  /\ UNCHANGED <<noSwitch, depth, status, data, mutex>>

-----------------------------------------------------------------------------
(* The scheduler and the interrupts *)

\* Mutation of SleepOver: the clock is compared with the duration.
SleepOverTooSoon(p) == ClockAt(ticks) >= sleep[p].ms

\* Sleep compares the clock with the clock's value at the end of the sleep.
SleepOver(p) == ClockAt(ticks) >= (ClockAt(sleep[p].since) + sleep[p].ms) % ClockPeriod

\* Mutation of WaitOver: Consume does not look at the count.
WaitOverUncounted(p) == status[p] = "WAIT_INT"

\* DoContextSwitch's case for a waiting process.
WaitOver(p) ==
  CASE status[p] = "WAIT_SLEEP" -> SleepOver(p)
    [] status[p] = "WAIT_INT" -> pending[irq[p]] > 0
    [] status[p] = "WAIT_EVENT" -> event[p]
    [] status[p] = "WAIT_RESOURCE" -> ~busy
    [] OTHER -> FALSE

\* Mutation of WakeUp: the signal is left for the next who asks.
WakeWithout(p) ==
  /\ noSwitch = None /\ WaitOver(p)
  /\ status' = [status EXCEPT ![p] = "RUN"]
  /\ UNCHANGED <<noSwitch, depth, polling, data, signals, mutex>>

WakeUp(p) ==
  /\ noSwitch = None /\ WaitOver(p)
  /\ status' = [status EXCEPT ![p] = "RUN"]
  /\ Take(p, CASE status[p] = "WAIT_INT" -> "int"
               [] status[p] = "WAIT_EVENT" -> "event"
               [] OTHER -> "none")
  /\ UNCHANGED <<noSwitch, depth, polling, data, mutex>>

Tick == /\ ticks < MaxTicks
        /\ ticks' = ticks + 1
        /\ UNCHANGED <<noSwitch, depth, status, polling, data, pending, event, command, mutex>>

\* IRQ::Signal in an interrupt handler.
Signal(i) ==
  /\ pending[i] < MaxPending
  /\ pending' = [pending EXCEPT ![i] = @ + 1]
  /\ UNCHANGED <<noSwitch, depth, status, polling, data, event, command, ticks, mutex>>

\* Mutation of EventCompleted: only a process that waits already is told.
EventToWaiter(p) ==
  /\ command[p] = "issued"
  /\ command' = [command EXCEPT ![p] = "answered"]
  /\ event' = [event EXCEPT ![p] = status[p] = "WAIT_EVENT"]
  /\ UNCHANGED <<noSwitch, depth, status, polling, data, pending, ticks, mutex>>

\* The controller's interrupt handler.
EventCompleted(p) ==
  /\ command[p] = "issued"
  /\ command' = [command EXCEPT ![p] = "answered"]
  /\ event' = [event EXCEPT ![p] = TRUE]
  /\ UNCHANGED <<noSwitch, depth, status, polling, data, pending, ticks, mutex>>

\* A poll loop, or the scheduler's pass over a list in which nobody can run.
Spin == /\ \/ \E p \in Proc : CanRun(p) /\ polling[p] # "no" /\ ~PollOver(p)
           \/ noSwitch = None /\ \A p \in Proc : status[p] # "RUN" /\ ~WaitOver(p)
        /\ UNCHANGED vars

-----------------------------------------------------------------------------
Init ==
  /\ noSwitch = None
  /\ depth = [p \in Proc |-> 0]
  /\ status = [p \in Proc |-> "RUN"]
  /\ polling = [p \in Proc |-> "no"]
  /\ sleep = [p \in Proc |-> [since |-> 0, ms |-> 0]]
  /\ irq = [p \in Proc |-> None]
  /\ pending = [i \in IRQ |-> 0]
  /\ event = [p \in Proc |-> FALSE] /\ command = [p \in Proc |-> "none"]
  /\ busy = FALSE /\ lock = [p \in Proc |-> "out"]
  /\ ticks = 0

Calls(p) ==
  \/ Enter(p) \/ InitiateCommand(p) \/ WaitForEvent(p) \/ Lock(p)
  \/ \E ms \in Durations : Sleep(p, ms)
  \/ \E i \in IRQ : WaitOnInterrupt(p, i)

Continues(p) == Leave(p) \/ Locked(p) \/ UnLock(p) \/ EndPoll(p)

Interrupts == Tick \/ (\E i \in IRQ : Signal(i)) \/ (\E p \in Proc : EventCompleted(p))

Next == \/ \E p \in Proc : Calls(p) \/ Continues(p) \/ WakeUp(p)
        \/ Interrupts
        \/ Spin

Spec == Init /\ [][Next]_vars

\* Time passes, the controller completes events, stretches under ProcessSwitchLock end,
\* the interrupts they poll for arrive, and nobody hides from the timer behind the flag
\* for ever: the scheduler comes to a process whose sleep or event is over, and stays so.
Fairness ==
  /\ WF_vars(Tick)
  /\ \A i \in IRQ : WF_vars(Signal(i))
  /\ \A p \in Proc : /\ WF_vars(EventCompleted(p))
                     /\ SF_vars(Leave(p)) /\ SF_vars(depth[p] = 1 /\ Leave(p)) /\ SF_vars(EndPoll(p))
                     /\ SF_vars(status[p] \in {"WAIT_SLEEP", "WAIT_EVENT"} /\ WakeUp(p))

FairSpec == Spec /\ Fairness

-----------------------------------------------------------------------------
(* Properties *)

\* A stretch under ProcessSwitchLock runs without anybody in between, whatever waits
\* and inner locks it contains; and outside of it the task switch is on.
SwitchLockIsExclusive == \A p \in Proc : depth[p] > 0 <=> noSwitch = p

\* Sleep(ms) lasts at least ms milliseconds: always if it polls, else unless the clock
\* wraps before its end, which makes the comparison of DoContextSwitch true at once.
WrapsInSleep(p) == ClockAt(sleep[p].since) + sleep[p].ms >= ClockPeriod
NeverEarly ==
  [][\A p \in Proc :
       \/ status[p] = "WAIT_SLEEP" /\ status'[p] = "RUN" /\ ~WrapsInSleep(p)
       \/ polling[p] = "sleep" /\ polling'[p] = "no"
       => ticks >= sleep[p].since + sleep[p].ms]_vars

\* One signal ends one wait: two processes that wait for an interrupt, one polling and
\* one asleep, are not both woken by it.
EndsInt(p) == \/ status[p] = "WAIT_INT" /\ status'[p] = "RUN"
              \/ polling[p] = "int" /\ polling'[p] = "no"
SignalsAreConsumed ==
  [][\A p \in Proc : EndsInt(p) => pending'[irq[p]] < pending[irq[p]]]_vars

\* A sleeping process wakes up, although others may keep the task switch off for a while.
SleepEnds ==
  \A p \in Proc : status[p] = "WAIT_SLEEP" \/ polling[p] = "sleep"
               ~> status[p] # "WAIT_SLEEP" /\ polling[p] # "sleep"

\* Nor is a process left behind that waits for the event of a transfer or command, even
\* if the controller completed it before the process began to wait.
EventWaitEnds ==
  \A p \in Proc : status[p] = "WAIT_EVENT" \/ polling[p] = "event"
               ~> status[p] # "WAIT_EVENT" /\ polling[p] # "event"

\* At most one process is between Lock and UnLock.
MutualExclusion == \A p, q \in Proc : lock[p] = "in" /\ lock[q] = "in" => p = q
=============================================================================
