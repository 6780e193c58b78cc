--------------------------- MODULE ProcessManager ---------------------------
(***************************************************************************)
(* The process table of Upanix and the life of a process: creation by a    *)
(* running process or on behalf of another one, the two-level round robin  *)
(* of StartScheduler and forSchedule, waiting for a child, Kill, exit,     *)
(* Destroy and the final release of the process object.                    *)
(*                                                                         *)
(* One CPU runs either the scheduler (cur = Scheduler, KERNEL_MODE, not    *)
(* preemptible) or one process (cur = its pid, preemptible by the timer    *)
(* between any two steps unless the step holds a ProcessSwitchLock).  Code *)
(* the scheduler runs is therefore one action; code a process runs is one  *)
(* action per stretch that a preemption can separate, with pc and arg as   *)
(* the process's place in it.                                              *)
(*                                                                         *)
(* The other waits (sleep, interrupt, event, descriptor, resource) end by  *)
(* conditions other modules own: here they are the single status WAIT,     *)
(* left at any time.  A kernel service is requested and served here        *)
(* without the queue's own races, which KernelService has.  The order of   *)
(* the scheduler's lists is left open: a pass visits every member once.    *)
(***************************************************************************)
EXTENDS Integers, FiniteSets

CONSTANTS
  MaxPid,          \* bound on _nextPid: pids are 0 .. MaxPid-1
  MAX_NO_PROCESS,  \* capacity of the process map
  Killers,         \* the pids that may run the console's kill command
  Servers,         \* the pids that run KernelService's server loop
  Detached         \* TRUE: processes are also created with NO_PROCESS_ID as parent

ASSUME MaxPidAssumption == MaxPid \in Nat \ {0}
ASSUME MaxProcessAssumption == MAX_NO_PROCESS \in Nat
ASSUME RolesAssumption == Killers \cup Servers \subseteq 0 .. MaxPid - 1
ASSUME DetachedAssumption == Detached \in BOOLEAN

Pid == 0 .. MaxPid - 1
NO_PROCESS_ID == -1
Scheduler == -2                \* value of cur while the kernel's scheduler runs
UpanixKernelProcessID == 0     \* "kerparent", the first process created

Dead == {"TERMINATED", "RELEASED"}
Status == {"NEW", "RUN", "WAIT", "WAIT_CHILD", "WAIT_KERNEL_SERVICE"} \cup Dead

\* Places at which a process can be preempted inside a call.
KillSteps == {"kill_mark", "kill_threads", "kill_clear", "kill_children", "kill_free"}
CreateSteps == {"create_link", "create_publish"}
Steps == {"user", "thread_publish"} \cup CreateSteps \cup KillSteps

\* The fields of a SchedulableProcess (of an AutonomousProcess) this module needs.
PCB == [status : Status, parent : Pid \cup {NO_PROCESS_ID}, children : SUBSET Pid,
        main : Pid, group : Pid, waitChild : Pid \cup {NO_PROCESS_ID},
        threads : SUBSET Pid, turn : SUBSET Pid,
        held : BOOLEAN]   \* stack, pages and descriptors not given back

VARIABLES
  pcb,        \* the process objects, indexed by _processID
  live,       \* pids whose object is allocated
  procMap,    \* pids in _processMap
  members,    \* group |-> _iProcessCount
  groups,     \* the process groups that are allocated
  list,       \* _processSchedulerList
  pass,       \* its members still to be visited in this pass
  cur,        \* who runs
  nextPid,    \* _nextPid
  pc, arg,    \* where each process is, and the pid that call is about
  requests,   \* processes with a request in KernelService's queue
  serving,    \* server |-> the process whose request it executes
  fault       \* a deleted process or group was used: behaviour is undefined

table == <<pcb, live, procMap, members, groups>>
calls == <<pc, arg, requests, serving>>
vars == <<pcb, live, procMap, members, groups, list, pass, cur, nextPid, pc, arg, requests, serving, fault>>

TypeOK ==
  /\ pcb \in [Pid -> PCB]
  /\ live \subseteq Pid
  /\ procMap \subseteq Pid
  /\ members \in [Pid -> Int]
  /\ groups \subseteq Pid
  /\ list \subseteq Pid
  /\ pass \subseteq Pid
  /\ cur \in Pid \cup {Scheduler}
  /\ nextPid \in 0 .. MaxPid
  /\ pc \in [Pid -> Steps]
  /\ arg \in [Pid -> Pid \cup {NO_PROCESS_ID}]
  /\ requests \subseteq Pid
  /\ serving \in [Pid -> Pid \cup {NO_PROCESS_ID}]
  /\ fault \in BOOLEAN

-----------------------------------------------------------------------------
(* Destroy, as functions on the table W = [pcb, live, map, members, groups] *)

World == [pcb |-> pcb, live |-> live, map |-> procMap, members |-> members, groups |-> groups]

Becomes(W) ==
  /\ pcb' = W.pcb
  /\ live' = W.live
  /\ procMap' = W.map
  /\ members' = W.members
  /\ groups' = W.groups

SetStatus(W, p, s) == [W EXCEPT !.pcb[p].status = s]

\* Children found in the map are released if they have terminated, else handed to
\* heir (if heir is itself in the map).
Redirect(W, kids, heir) ==
  LET found == kids \cap W.map
      moved == IF heir \in W.map
                 THEN {k \in found : W.pcb[k].status # "TERMINATED"} ELSE {}
  IN  [W EXCEPT !.pcb = [q \in Pid |->
         [W.pcb[q] EXCEPT
            !.status = IF q \in found /\ @ = "TERMINATED" THEN "RELEASED" ELSE @,
            !.parent = IF q \in moved THEN heir ELSE @,
            !.children = IF q = heir THEN @ \cup moved ELSE @]]]

\* RemoveProcess for the members of set ps, deleting each group that becomes empty.
LeaveGroups(W, ps) ==
  LET left == [g \in Pid |-> W.members[g] - Cardinality({p \in ps : W.pcb[p].group = g})]
  IN  [W EXCEPT !.members = left,
                !.groups = {g \in W.groups : left[g] # 0}]

\* Destroy, Release and delete every thread of p, leaving the list itself as it is.
DeleteThreads(W, p) ==
  LET ths == W.pcb[p].threads
      dying == {t \in ths : W.pcb[t].status \notin Dead}
      V == LeaveGroups(Redirect(W, UNION {W.pcb[t].children : t \in dying}, p), dying)
  IN  [V EXCEPT !.pcb = [q \in Pid |-> IF q \in ths THEN [V.pcb[q] EXCEPT !.status = "RELEASED", !.held = FALSE]
                                                    ELSE V.pcb[q]],
                !.live = @ \ ths, !.map = @ \ ths]

\* _threadSchedulerList.clear(); _nextThreadIt keeps its value.
ClearThreads(W, p) == [W EXCEPT !.pcb[p].threads = {}]

\* Mutation of RedirectChildren: only the children that have terminated are seen to.
KeepChildren(W, p) ==
  Redirect(W, {k \in W.pcb[p].children : W.pcb[k].status = "TERMINATED"}, W.pcb[p].parent)
RedirectChildren(W, p) == Redirect(W, W.pcb[p].children, W.pcb[p].parent)

\* Mutation of FreeResources: DeAllocateResources is forgotten.
LeaveGroupOnly(W, p) ==
  LET V == LeaveGroups(W, {p})
  IN  IF V.pcb[p].parent = NO_PROCESS_ID THEN SetStatus(V, p, "RELEASED") ELSE V

\* DeAllocateResources, leaving the group, and Release when nobody can wait for p.
FreeResources(W, p) ==
  LET V == [LeaveGroups(W, {p}) EXCEPT !.pcb[p].held = FALSE]
  IN  IF V.pcb[p].parent = NO_PROCESS_ID THEN SetStatus(V, p, "RELEASED") ELSE V

Destroy(W, p) ==
  FreeResources(RedirectChildren(ClearThreads(DeleteThreads(SetStatus(W, p, "TERMINATED"),
                                                             p), p), p), p)

\* The objects Destroy goes through are all allocated, and no resource is given back twice.
SafeToLeave(p) == /\ pcb[p].held
                  /\ pcb[p].group \in groups
SafeThreads(p) == /\ pcb[p].threads \subseteq live
                  /\ \A t \in pcb[p].threads : pcb[t].status \notin Dead => SafeToLeave(t)
SafeToDestroy(p) == p \in live /\ SafeThreads(p) /\ SafeToLeave(p)

DeleteProcess(W, p) == [W EXCEPT !.live = @ \ {p}, !.map = @ \ {p}]

-----------------------------------------------------------------------------
(* The scheduler *)

Threadless(p) == pcb[p].main = p      \* ~isChildThread()

Undefined == /\ fault' = TRUE
             /\ UNCHANGED <<table, list, pass, cur, nextPid, calls>>

\* The pass StartScheduler is in; it starts over at the end of the list.
Pass == IF pass = {} THEN list ELSE pass

\* Mutation of MainTurn: the list starts over without the main thread's turn.
ThreadsFirst(b) ==
  IF pcb[b].threads = {} THEN [p |-> b, gone |-> {}, turn |-> {}]
  ELSE LET t == CHOOSE t \in pcb[b].threads : TRUE
       IN  [p |-> t, gone |-> {}, turn |-> pcb[b].threads \ {t}]

\* _nextThreadIt at the end of the list: the main thread's turn, then the list again.
MainTurn(b) == [p |-> b, gone |-> {}, turn |-> pcb[b].threads]

\* forSchedule of b: the process it returns, the threads it deletes on the way and
\* the threads left in front of _nextThreadIt.
ForSchedule(b) ==
  LET released == {t \in pcb[b].threads : pcb[t].status = "RELEASED"}
      turn == pcb[b].turn
      rest == pcb[b].threads \ turn
      Result(p, gone, next) == [p |-> p, gone |-> gone, turn |-> next]
  IN  IF pcb[b].status \in Dead THEN {Result(b, {}, turn)}
      ELSE IF turn = {} THEN {MainTurn(b)}
      ELSE IF ~(turn \subseteq released)
        THEN UNION {{Result(p, gone, turn \ (gone \cup {p})) :
                       gone \in SUBSET (turn \cap released)} : p \in turn \ released}
      ELSE IF ~(rest \subseteq released)
        THEN UNION {{Result(p, turn \cup gone, rest \ (gone \cup {p})) :
                       gone \in SUBSET (rest \cap released)} : p \in rest \ released}
      ELSE {Result(b, pcb[b].threads, {})}

\* Mutation of AfterForSchedule: the released threads stay in the list.
KeepReleasedThreads(b, r) ==
  [World EXCEPT !.pcb[b].turn = r.turn, !.live = @ \ r.gone, !.map = @ \ r.gone]

AfterForSchedule(b, r) ==
  [World EXCEPT !.pcb[b] = [pcb[b] EXCEPT !.threads = @ \ r.gone, !.turn = r.turn],
                !.live = @ \ r.gone, !.map = @ \ r.gone]

\* WAIT_CHILD in DoContextSwitch: is the wait over?
ChildGone(W, p) ==
  LET c == W.pcb[p].waitChild
  IN  \/ c = NO_PROCESS_ID
      \/ c \notin W.map
      \/ W.pcb[c].parent # p
\* Mutation of ChildDone: it looks for the wrong state.
ChildReleased(W, p) ==
  ~ChildGone(W, p) /\ W.pcb[W.pcb[p].waitChild].status = "RELEASED"

ChildDone(W, p) ==
  /\ ~ChildGone(W, p)
  /\ W.pcb[W.pcb[p].waitChild].status = "TERMINATED"

\* removeChildProcessID, WaitChildProcId(NO_PROCESS_ID), RUN.
EndChildWait(W, p) ==
  [W EXCEPT !.pcb[p] = [W.pcb[p] EXCEPT !.children = @ \ {W.pcb[p].waitChild},
                                        !.waitChild = NO_PROCESS_ID, !.status = "RUN"]]

\* IsKernelServiceComplete: the server that took p's request is done with it.
Served(p) == p \notin requests /\ \A s \in Pid : serving[s] # p

\* Mutation of Runnable: a state without a case of its own is run.
RunnableByDefault(W, p) ==
  IF W.pcb[p].status \in {"WAIT_CHILD", "WAIT_KERNEL_SERVICE"} THEN {} ELSE {SetStatus(W, p, "RUN")}

\* The states DoContextSwitch may switch to p in, p's wait being over.
Runnable(W, p) ==
  CASE W.pcb[p].status = "RUN" -> {W}
    [] W.pcb[p].status = "WAIT" -> {SetStatus(W, p, "RUN")}
    [] W.pcb[p].status = "WAIT_KERNEL_SERVICE" /\ Served(p) -> {SetStatus(W, p, "RUN")}
    [] W.pcb[p].status = "WAIT_CHILD" /\ ChildGone(W, p) -> {EndChildWait(W, p)}
    [] W.pcb[p].status = "WAIT_CHILD" /\ ChildDone(W, p)
         -> {EndChildWait(SetStatus(W, W.pcb[p].waitChild, "RELEASED"), p)}
    [] OTHER -> {}

\* Mutation of Skipped: kerparent is expected to wait for its children.
LeaveZombies(W, p) == W

\* What DoContextSwitch leaves when it returns without running p.
Skipped(W, p) ==
  IF W.pcb[p].status = "TERMINATED" /\ W.pcb[p].parent = UpanixKernelProcessID
    THEN SetStatus(W, p, "RELEASED") ELSE W

\* The end of a turn: a released process leaves the list, the map and memory.
EndOfTurn(W, p) ==
  /\ cur' = Scheduler
  /\ IF W.pcb[p].main = p /\ W.pcb[p].status = "RELEASED"
       THEN /\ Becomes(DeleteProcess(W, p))
            /\ list' = list \ {p}
       ELSE /\ Becomes(W)
            /\ list' = list

Dispatch(b) ==
  /\ cur = Scheduler /\ ~fault
  /\ b \in Pass
  /\ \E r \in ForSchedule(b) : \E W \in Runnable(AfterForSchedule(b, r), r.p) :
       /\ Becomes(W)
       /\ cur' = r.p
  /\ pass' = Pass \ {b}
  /\ UNCHANGED <<list, nextPid, calls, fault>>

Skip(b) ==
  /\ cur = Scheduler /\ ~fault
  /\ b \in Pass
  /\ \E r \in ForSchedule(b) :
       LET W == AfterForSchedule(b, r)
       IN  /\ \/ Runnable(W, r.p) = {}
              \/ W.pcb[r.p].status = "WAIT"
           /\ EndOfTurn(Skipped(W, r.p), r.p)
  /\ pass' = Pass \ {b}
  /\ UNCHANGED <<nextPid, calls, fault>>

\* Back in DoContextSwitch after the lcall, with the table W the process left behind.
SwitchBack(W, destroy) ==
  IF cur \notin live \/ (destroy /\ ~SafeToDestroy(cur))
    THEN Undefined
    ELSE /\ EndOfTurn(IF destroy THEN Destroy(W, cur) ELSE W, cur)
         /\ UNCHANGED <<pass, nextPid, calls, fault>>

-----------------------------------------------------------------------------
(* What a running process does *)

Running(p) == cur = p /\ ~fault

InUserCode(p) == Running(p) /\ pc[p] = "user"

Goto(p, step, x) == /\ pc' = [pc EXCEPT ![p] = step]
                    /\ arg' = [arg EXCEPT ![p] = x]

\* A server takes q's request from the queue and keeps it until it answers.
Serve(p, q) == /\ requests' = requests \ {q}
               /\ serving' = [serving EXCEPT ![p] = IF q = p THEN NO_PROCESS_ID ELSE q]
Answer(p) == /\ requests' = requests
             /\ serving' = [serving EXCEPT ![p] = NO_PROCESS_ID]

\* PIT_Handler: the timer takes the CPU from a process, wherever it is.
Preempt == cur \in Pid /\ ~fault /\ SwitchBack(World, FALSE)

\* ProcessManager_Exit.  kerparent's loop never ends.
Exit(p) ==
  /\ InUserCode(p)
  /\ p # UpanixKernelProcessID
  /\ SwitchBack(World, TRUE)

\* A wait sets the state of GetCurrentPAS(), which must be in the map, and yields.
Block(p, row) == IF p \in procMap THEN SwitchBack([World EXCEPT !.pcb[p] = row], FALSE)
                                  ELSE Undefined

\* Any of the waits other modules describe.
Wait(p) ==
  /\ InUserCode(p)
  /\ Block(p, [pcb[p] EXCEPT !.status = "WAIT"])

\* A pid that is not below MAX_NO_PROCESS is not waited for.
WaitOnChild(p, c) ==
  /\ InUserCode(p) /\ c < MAX_NO_PROCESS
  /\ Block(p, [pcb[p] EXCEPT !.waitChild = c, !.status = "WAIT_CHILD"])

\* RequestProcessExec and RequestThreadExec.
RequestKernelService(p) ==
  /\ InUserCode(p)
  /\ IF p \notin procMap \cap live THEN Undefined
     ELSE /\ EndOfTurn(SetStatus(World, p, "WAIT_KERNEL_SERVICE"), p)
          /\ requests' = requests \cup {p}
          /\ UNCHANGED <<pass, nextPid, pc, arg, serving, fault>>

\* Who may do what.
Roles == [killers |-> Killers, servers |-> Servers, detached |-> Detached]

\* The requests a server can take; a requester may have been terminated meanwhile.
Requesters(p, roles) == IF p \in roles.servers THEN requests \cap procMap ELSE {}

NewProcess(c, par, main, s) ==
  [status |-> s, parent |-> par, children |-> {}, main |-> main,
   group |-> IF par \in procMap THEN pcb[par].group ELSE c,
   waitChild |-> NO_PROCESS_ID, threads |-> {}, turn |-> {}, held |-> TRUE]

\* Mutation of Construct: AddProcess only for a new group.
CountLeaderOnly(W, c, row) ==
  [W EXCEPT !.pcb[c] = row, !.live = @ \cup {c},
            !.members[row.group] = IF row.group = c THEN @ + 1 ELSE @,
            !.groups = IF row.group = c THEN @ \cup {c} ELSE @]

\* The constructor of SchedulableProcess: a pid, and the parent's group or a new one.
Construct(W, c, row) ==
  [W EXCEPT !.pcb[c] = row, !.live = @ \cup {c},
            !.members[row.group] = @ + 1, !.groups = IF row.group = c THEN @ \cup {c} ELSE @]

\* The parents a process can name: itself, nobody, or the requester it serves.
ParentsFor(p, roles) ==
  {p} \cup Requesters(p, roles) \cup {par \in {NO_PROCESS_ID} : roles.detached}

CreateProcess(p, par) ==
  /\ InUserCode(p)
  /\ nextPid < MaxPid
  /\ par \in procMap \cup {NO_PROCESS_ID}
  /\ LET row == NewProcess(nextPid, par, nextPid, "NEW")
     IN  IF row.group \in groups \cup {nextPid}
           THEN /\ Becomes(Construct(World, nextPid, row))
                /\ nextPid' = nextPid + 1
                /\ Goto(p, "create_link", nextPid)
                /\ Serve(p, IF par = NO_PROCESS_ID THEN p ELSE par)
                /\ UNCHANGED <<list, pass, cur, fault>>
           ELSE Undefined

\* The constructor throws (no such image, no page left): the object goes; the pid, the place
\* in the group and the pages taken so far stay taken, and who asked is answered.
CreateFails(p, par, q) ==
  /\ InUserCode(p)
  /\ nextPid < MaxPid
  /\ \E taken \in BOOLEAN :
       LET row == [NewProcess(nextPid, par, nextPid, "NEW") EXCEPT !.held = taken]
       IN  IF row.group \in groups \cup {nextPid}
             THEN /\ Becomes(DeleteProcess(Construct(World, nextPid, row), nextPid))
                  /\ nextPid' = nextPid + 1
                  /\ requests' = requests \ {q}
                  /\ UNCHANGED <<list, pass, cur, pc, arg, serving, fault>>
             ELSE Undefined

\* The same in the constructor of a thread for requester q.
CreateThreadFails(p, q) == pcb[q].main \in live /\ CreateFails(p, pcb[q].main, q)

\* The end of the KernelProcess and UserProcess constructors.
LinkToParent(p) ==
  /\ Running(p)
  /\ pc[p] = "create_link"
  /\ LET par == pcb[arg[p]].parent
     IN  IF par \in procMap
           THEN pcb' = [pcb EXCEPT ![par].children = @ \cup {arg[p]}]
           ELSE pcb' = pcb
  /\ Goto(p, "create_publish", arg[p])
  /\ UNCHANGED <<live, procMap, members, groups, list, pass, cur, nextPid,
                 requests, serving, fault>>

\* AddToSchedulerList.  Beyond the limit it throws when newPAS has been released already:
\* the new object is left behind, NEW for ever, with all it holds.
AddToSchedulerList(p) ==
  /\ Running(p)
  /\ pc[p] = "create_publish"
  /\ IF Cardinality(procMap) + 1 > MAX_NO_PROCESS
       THEN UNCHANGED <<pcb, procMap, list, pass>>
       ELSE /\ procMap' = procMap \cup {arg[p]}
            /\ pcb' = [pcb EXCEPT ![arg[p]].status = "RUN"]
            /\ list' = list \cup {arg[p]}
            /\ pass' = pass \cup {arg[p]}
  /\ Goto(p, "user", NO_PROCESS_ID)
  /\ Answer(p)
  /\ UNCHANGED <<live, members, groups, cur, nextPid, fault>>

\* CreateThreadTask for requester q: the thread joins its main thread's list at once ...
CreateThread(p, q) ==
  /\ InUserCode(p)
  /\ nextPid < MaxPid
  /\ LET m == pcb[q].main
         t == nextPid
         row == NewProcess(t, m, m, "RUN")
         W == Construct(World, t, row)
     IN  IF m \in live /\ row.group \in groups \cup {t}
           THEN /\ Becomes([W EXCEPT !.pcb[m].threads = @ \cup {t},
                                     !.pcb[m].turn = IF @ = {} THEN {} ELSE @ \cup {t}])
                /\ nextPid' = t + 1
                /\ Goto(p, "thread_publish", t)
                /\ Serve(p, q)
                /\ UNCHANGED <<list, pass, cur, fault>>
           ELSE Undefined

\* ... and the process map only afterwards.
AddToProcessMap(p) ==
  /\ Running(p)
  /\ pc[p] = "thread_publish"
  /\ IF arg[p] \notin live
       THEN Undefined
       ELSE /\ procMap' = IF Cardinality(procMap) + 1 > MAX_NO_PROCESS
                            THEN procMap ELSE procMap \cup {arg[p]}
            /\ Goto(p, "user", NO_PROCESS_ID)
            /\ Answer(p)
            /\ UNCHANGED <<pcb, live, members, groups, list, pass, cur, nextPid, fault>>

-----------------------------------------------------------------------------
(* Kill *)

KillSelf(p) ==
  /\ InUserCode(p)
  /\ SwitchBack(SetStatus(World, p, "TERMINATED"), TRUE)

\* The check; from here on the killer holds a reference to the target.
Kill(p, q) ==
  /\ InUserCode(p)
  /\ q \in procMap \ {p}
  /\ pcb[q].status \notin Dead
  /\ Goto(p, "kill_mark", q)
  /\ UNCHANGED <<table, list, pass, cur, nextPid, requests, serving, fault>>

KillStep(p, step, next, safe, W) ==
  /\ Running(p)
  /\ pc[p] = step
  /\ IF arg[p] \in live /\ safe
       THEN /\ Becomes(W)
            /\ Goto(p, next, IF next = "user" THEN NO_PROCESS_ID ELSE arg[p])
            /\ UNCHANGED <<list, pass, cur, nextPid, requests, serving, fault>>
       ELSE Undefined

\* Mutation of KillMark: the target is marked only when its threads are gone.
KillMarkLater(p) == KillStep(p, "kill_mark", "kill_threads", TRUE, World)

KillMark(p) == KillStep(p, "kill_mark", "kill_threads", TRUE,
                        SetStatus(World, arg[p], "TERMINATED"))
KillThreads(p) == KillStep(p, "kill_threads", "kill_clear",
                           SafeThreads(arg[p]) /\ p \notin pcb[arg[p]].threads,
                           DeleteThreads(World, arg[p]))
KillClear(p) == KillStep(p, "kill_clear", "kill_children", TRUE, ClearThreads(World, arg[p]))
KillChildren(p) == KillStep(p, "kill_children", "kill_free", TRUE,
                            RedirectChildren(World, arg[p]))
KillFree(p) == KillStep(p, "kill_free", "user", SafeToLeave(arg[p]),
                        FreeResources(World, arg[p]))

-----------------------------------------------------------------------------
\* UpanixMain has created kerparent and entered StartScheduler.
Init ==
  /\ pcb = [p \in Pid |->
       [status |-> IF p = 0 THEN "RUN" ELSE "NEW", parent |-> NO_PROCESS_ID, children |-> {},
        main |-> p, group |-> p, waitChild |-> NO_PROCESS_ID, threads |-> {}, turn |-> {},
        held |-> p = 0]]
  /\ live = {0} /\ procMap = {0} /\ list = {0} /\ pass = {0}
  /\ members = [g \in Pid |-> IF g = 0 THEN 1 ELSE 0] /\ groups = {0}
  /\ cur = Scheduler /\ nextPid = 1
  /\ pc = [p \in Pid |-> "user"] /\ arg = [p \in Pid |-> NO_PROCESS_ID]
  /\ requests = {} /\ serving = [p \in Pid |-> NO_PROCESS_ID]
  /\ fault = FALSE

Calls(p, roles) ==
  \/ Exit(p) \/ Wait(p) \/ RequestKernelService(p)
  \/ \E c \in Pid : WaitOnChild(p, c)
  \/ \E q \in Requesters(p, roles) : CreateThread(p, q) \/ CreateThreadFails(p, q)
  \/ \E par \in ParentsFor(p, roles) : CreateProcess(p, par) \/ CreateFails(p, par, par)
  \/ p \in roles.killers /\ (KillSelf(p) \/ \E q \in Pid : Kill(p, q))

Continues(p) ==
  \/ LinkToParent(p) \/ AddToSchedulerList(p) \/ AddToProcessMap(p)
  \/ KillMark(p) \/ KillThreads(p) \/ KillClear(p) \/ KillChildren(p) \/ KillFree(p)

\* Once behaviour is undefined, or the last process is gone, nothing more is said.
Stop == (fault \/ (list = {} /\ cur = Scheduler)) /\ UNCHANGED vars

NextOf(roles) ==
  \/ \E b \in Pid : Dispatch(b) \/ Skip(b)
  \/ Preempt
  \/ \E p \in Pid : Calls(p, roles) \/ Continues(p)
  \/ Stop

Next == NextOf(Roles)

Spec == Init /\ [][Next]_vars

\* StartScheduler never stops, and the 1 kHz timer takes the CPU from whoever keeps it.
Fairness == /\ WF_vars(\E b \in Pid : Dispatch(b) \/ Skip(b))
            /\ WF_vars(Preempt)

FairSpec == Spec /\ Fairness

-----------------------------------------------------------------------------
(* Properties *)

\* StartScheduler and forSchedule walk lists of raw pointers: whatever Kill does while
\* it is preempted, no list the scheduler may still walk holds a deleted object, and
\* the pass under way only meets members of the list.
NoDanglingSchedule ==
  /\ pass \subseteq list
  /\ list \subseteq live
  /\ \A b \in list : pcb[b].status \notin Dead => pcb[b].threads \subseteq live

\* A terminated process never becomes anything but released, and a released one
\* nothing else: no wake-up, kill or redirect brings a process back.
StaysDead ==
  \A p \in live :
    /\ pcb[p].status = "TERMINATED" => pcb'[p].status \in Dead
    /\ pcb[p].status = "RELEASED" => pcb'[p].status = "RELEASED"

\* Rule 6a of Destroy: a process that has not terminated has a parent that has not
\* been destroyed, which can still wait for it or hand it on.  A thread can be destroyed
\* while a server creates a process for it: that one has no parent then, and when it
\* ends it has nobody to hand its own children to.
HasParent(p) == pcb[p].parent \in live /\ pcb[pcb[p].parent].held
Fatherless(p) == pcb[p].status \notin Dead /\ pcb[p].parent # NO_PROCESS_ID /\ ~HasParent(p)
ChildrenAreHandedOn ==
  \A p \in procMap : Fatherless(p) /\ Threadless(pcb[p].parent) => ~HasParent(pcb[p].parent)

\* Rule 6b of Destroy: no thread outlives its process.
ThreadsDieFirst ==
  \A p \in live : Threadless(p) \/ (pcb[p].main \in live /\ pcb[pcb[p].main].held)

\* A process holds its stack, pages and place in a group only as long as a list the
\* scheduler walks has it, it has not terminated and can still end, or a killer is at it.
\* What a creation took that failed, or that was given up with its creator, stays NEW and
\* is never given back; nor is a thread that is made for a process while that is killed.
Scheduled(p) == p \in list \/ p \in pcb[pcb[p].main].threads
Targets == {arg[q] : q \in {k \in Pid : pc[k] \in KillSteps \ {"kill_mark"}}}
NothingLeaks ==
  \A p \in Pid : pcb[p].held =>
    \/ p \in Targets
    \/ pcb[p].status = "NEW"
    \/ pcb[p].status \notin Dead /\ (Scheduled(p) \/ pcb[pcb[p].main].status \in Dead)

\* _iProcessCount covers every process that has not left the group yet, so that no
\* group is deleted under a process that has not terminated.
GroupCountsHolders ==
  \A g \in Pid :
    /\ members[g] >= Cardinality({p \in Pid : pcb[p].held /\ pcb[p].group = g})
    /\ g \in groups <=> members[g] # 0

\* Whoever ends or kills whom, what a process held that was created goes back, and a group
\* lasts until its last member has left it.
EndsLeakNothing == GroupCountsHolders /\ NothingLeaks

\* forSchedule and StartScheduler are a fair round robin: neither a process nor one of
\* its threads keeps being passed over while it can run or what it waited for is done
\* (a child that is handed back to its waiting grandparent makes it wait again).
Ready(p) == pcb[p].status # "WAIT" /\ Runnable(World, p) # {}
NoStarvation ==
  \A p \in Pid : Scheduled(p) /\ Ready(p) ~> cur = p \/ ~Ready(p) \/ fault

\* A wait for a child that has terminated comes to an end, whoever released the child.
Waiting(p, c) == pcb[p].status = "WAIT_CHILD" /\ pcb[p].waitChild = c /\ Scheduled(p)
ChildWaitEnds ==
  \A p, c \in Pid :
    Waiting(p, c) /\ pcb[c].status \in Dead ~> ~Waiting(p, c) \/ fault

\* What terminates with nobody but kerparent to wait for it does not stay in the table.
ZombiesAreReaped ==
  \A p \in Pid : p \in procMap /\ Scheduled(p) /\ pcb[p].status \in Dead
                     /\ pcb[p].parent \in {NO_PROCESS_ID, UpanixKernelProcessID}
                  ~> p \notin live \/ fault

=============================================================================
