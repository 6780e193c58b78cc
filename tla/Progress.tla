------------------------------ MODULE Progress ------------------------------
(***************************************************************************)
(* Who waits goes on: the clients of the kernel service, and the processes *)
(* of Waits that sleep or wait for an event, under the fairness of both    *)
(* modules.  The two share no state here; a behaviour is one of the one or *)
(* of the other, while the rest stays at its initial state.                *)
(***************************************************************************)
EXTENDS KernelService

CONSTANTS IRQ, MaxPending, MaxTicks, ClockPeriod, Boot, Durations

VARIABLES
  noSwitch, depth, wstatus, polling, sleep, irq, pending, event, command, busy, lock, ticks,
  served   \* whether this is a behaviour of the kernel service

W == INSTANCE Waits WITH status <- wstatus

waitVars == <<noSwitch, depth, wstatus, polling, sleep, irq, pending, event, command, busy, lock, ticks>>
progressVars == <<vars, waitVars, served>>

ProgressInit == Init /\ W!Init /\ served \in BOOLEAN

InService(A) == served /\ A /\ UNCHANGED <<waitVars, served>>
InWaits(A) == ~served /\ A /\ UNCHANGED <<vars, served>>

ProgressNext == InService(Next) \/ InWaits(W!Next)

ServiceIsFair ==
  /\ \A p \in Proc : WF_progressVars(InService(Continues(p)))
  /\ \A s \in Server : WF_progressVars(InService(Serves(s)))

WaitsAreFair ==
  /\ WF_progressVars(InWaits(W!Tick))
  /\ \A i \in IRQ : WF_progressVars(InWaits(W!Signal(i)))
  /\ \A p \in Proc :
       /\ WF_progressVars(InWaits(W!EventCompleted(p)))
       /\ SF_progressVars(InWaits(W!Leave(p))) /\ SF_progressVars(InWaits(depth[p] = 1 /\ W!Leave(p)))
       /\ SF_progressVars(InWaits(W!EndPoll(p)))
       /\ SF_progressVars(InWaits(wstatus[p] \in {"WAIT_SLEEP", "WAIT_EVENT"} /\ W!WakeUp(p)))

ProgressSpec == ProgressInit /\ [][ProgressNext]_progressVars /\ ServiceIsFair /\ WaitsAreFair

-----------------------------------------------------------------------------
\* A sleeping process wakes up, although others may keep the task switch off for a while.
SleepEnds == W!SleepEnds

\* Nor is a process left behind that waits for the event of a transfer or command.
EventWaitEnds == W!EventWaitEnds
=============================================================================
