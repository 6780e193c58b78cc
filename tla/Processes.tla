----------------------------- MODULE Processes -----------------------------
(***************************************************************************)
(* Two kinds of behaviour of the process manager: of many processes that   *)
(* nobody kills, and of fewer that kill one another.                       *)
(***************************************************************************)
EXTENDS ProcessManager

CONSTANTS
  MaxPidOfKills,  \* bound on _nextPid where processes kill
  CalmServers,    \* the servers where they do not
  CalmDetached    \* whether processes are created there with no parent

VARIABLE kills   \* whether they do

processesVars == <<vars, kills>>

CalmRoles == [killers |-> {}, servers |-> CalmServers, detached |-> CalmDetached]

ProcessesInit == Init /\ kills \in BOOLEAN

ProcessesNext ==
  \/ ~kills /\ NextOf(CalmRoles) /\ UNCHANGED kills
  \/ kills /\ Next /\ nextPid' <= MaxPidOfKills /\ UNCHANGED kills

ProcessesSpec == ProcessesInit /\ [][ProcessesNext]_processesVars

CalmInit == ProcessesInit /\ ~kills

\* Nobody kills, and the scheduler and the timer do their work.
CalmFairSpec == CalmInit /\ [][ProcessesNext]_processesVars /\ Fairness

\* Rule 6a of Destroy, where nobody kills.
OrphansHaveAParent == ~kills => ChildrenAreHandedOn

\* Where nobody kills, no wake-up and no redirect brings a process back from the dead; a
\* killer that was preempted before its mark can turn a released target into a terminated one.
DeathIsFinalUnlessKilled == [][~kills => StaysDead]_processesVars
=============================================================================
