----------------------- MODULE ProcessManager_proofs -----------------------
(***************************************************************************)
(* Proofs about the process table and the scheduler: type correctness,     *)
(* that the scheduler's lists never hold a deleted object, that no process *)
(* ends with its stack, its pages or its group not given back, and, where  *)
(* nobody kills, that the children of a process that ends are handed on    *)
(* and that a process that ended never runs again.                         *)
(***************************************************************************)
EXTENDS Processes, FiniteSetTheorems, TLAPS

-----------------------------------------------------------------------------
(* The inductive invariant *)

Created == 0 .. nextPid - 1

\* A thread is in the lists of its main thread and in no other, and is not itself one.
ThreadsBelong ==
  \A b \in Pid : \A t \in pcb[b].threads \cup pcb[b].turn :
    pcb[t].main = b /\ t # b /\ t \in Created

\* The scheduler's list holds main threads that are allocated.
ListOfMains == /\ pass \subseteq list
               /\ list \subseteq live
               /\ live \cup procMap \subseteq Created
               /\ \A b \in list : pcb[b].main = b

\* The process that runs is alive and has had its turn of this pass.
CurrentAlive ==
  cur \in Pid => cur \in Created \ pass /\ pcb[cur].status \notin Dead

Creating(p) == pc[p] \in CreateSteps
Killing(p) == pc[p] \in KillSteps
Busy(p) == pc[p] # "user"

\* A process under construction is known to its creator alone.
NewIsPrivate ==
  \A p \in Pid : Creating(p) =>
    /\ arg[p] \in live \ (list \cup procMap \cup {cur})
    /\ pcb[arg[p]].main = arg[p]
    /\ pcb[arg[p]].status \notin Dead

ArgsDiffer ==
  \A p, q \in Pid : p # q /\ Creating(p) /\ Busy(q) => arg[p] # arg[q]

BusyArgs == \A p \in Pid : Busy(p) => arg[p] \in Created

\* Kill's target is not the killer; from the mark on it counts as dead.
KillTarget ==
  \A p \in Pid : Killing(p) =>
    /\ arg[p] \in Created \ {p}
    /\ pc[p] \in {"kill_threads", "kill_clear"} => pcb[arg[p]].status \in Dead

LiveThreads == \A b \in Pid : pcb[b].status \notin Dead => pcb[b].threads \subseteq live

IInv == /\ TypeOK
        /\ ThreadsBelong
        /\ ListOfMains
        /\ CurrentAlive
        /\ NewIsPrivate
        /\ ArgsDiffer
        /\ BusyArgs
        /\ KillTarget
        /\ LiveThreads

-----------------------------------------------------------------------------
(* Types *)

WorldType == [pcb : [Pid -> PCB], live : SUBSET Pid, map : SUBSET Pid,
              members : [Pid -> Int], groups : SUBSET Pid]

LEMMA SpecialPids == NO_PROCESS_ID \notin Pid /\ Scheduler \notin Pid
BY DEF NO_PROCESS_ID, Scheduler, Pid

LEMMA PidFinite == IsFiniteSet(Pid)
BY MaxPidAssumption, FS_Interval DEF Pid

LEMMA StepKinds == \A p \in Pid : Creating(p) \/ Killing(p) => Busy(p)
BY DEF Creating, Killing, Busy, CreateSteps, KillSteps

LEMMA WorldHasType == TypeOK => World \in WorldType
BY DEF TypeOK, World, WorldType

LEMMA BecomesType ==
  ASSUME NEW W \in WorldType, Becomes(W)
  PROVE  /\ pcb' \in [Pid -> PCB]
         /\ live' \subseteq Pid
         /\ procMap' \subseteq Pid
         /\ members' \in [Pid -> Int]
         /\ groups' \subseteq Pid
BY DEF Becomes, WorldType

LEMMA RowType ==
  ASSUME NEW W \in WorldType, NEW p \in Pid
  PROVE  W.pcb[p] \in PCB
BY DEF WorldType

LEMMA SetStatusType ==
  ASSUME NEW W \in WorldType, NEW p \in Pid, NEW s \in Status
  PROVE  SetStatus(W, p, s) \in WorldType
<1>1. [W.pcb[p] EXCEPT !.status = s] \in PCB
  BY DEF WorldType, PCB
<1>2. [W.pcb EXCEPT ![p] = [W.pcb[p] EXCEPT !.status = s]] \in [Pid -> PCB]
  BY <1>1 DEF WorldType
<1>3. [W EXCEPT !.pcb = [W.pcb EXCEPT ![p] = [W.pcb[p] EXCEPT !.status = s]]] \in WorldType
  BY <1>2 DEF WorldType
<1> QED BY <1>3 DEF SetStatus, WorldType

LEMMA RedirectType ==
  ASSUME NEW W \in WorldType, NEW kids \in SUBSET Pid, NEW heir \in Pid \cup {NO_PROCESS_ID}
  PROVE  Redirect(W, kids, heir) \in WorldType
<1> DEFINE found == kids \cap W.map
           moved == IF heir \in W.map
                 THEN {k \in found : W.pcb[k].status # "TERMINATED"} ELSE {}
           row(q) == [W.pcb[q] EXCEPT
            !.status = IF q \in found /\ @ = "TERMINATED" THEN "RELEASED" ELSE @,
            !.parent = IF q \in moved THEN heir ELSE @,
            !.children = IF q = heir THEN @ \cup moved ELSE @]
<1>1. moved \subseteq Pid
  BY DEF WorldType
<1>2. ASSUME NEW q \in Pid PROVE row(q) \in PCB
  <2>1. W.pcb[q] \in PCB
    BY DEF WorldType
  <2> QED BY ZenonT(40), <2>1, <1>1 DEF PCB, Status, Dead
<1>3. [q \in Pid |-> row(q)] \in [Pid -> PCB]
  BY ZenonT(40), <1>2
<1> QED BY <1>3 DEF Redirect, WorldType

LEMMA LeaveGroupsType ==
  ASSUME NEW W \in WorldType, NEW ps \in SUBSET Pid
  PROVE  LeaveGroups(W, ps) \in WorldType
<1>1. \A g \in Pid : Cardinality({p \in ps : W.pcb[p].group = g}) \in Nat
  <2> SUFFICES ASSUME NEW g \in Pid PROVE Cardinality({p \in ps : W.pcb[p].group = g}) \in Nat
    OBVIOUS
  <2>1. {p \in ps : W.pcb[p].group = g} \subseteq Pid
    OBVIOUS
  <2> QED BY <2>1, PidFinite, FS_Subset, FS_CardinalityType
<1> DEFINE left == [g \in Pid |-> W.members[g] - Cardinality({p \in ps : W.pcb[p].group = g})]
<1>2. left \in [Pid -> Int]
  BY <1>1 DEF WorldType
<1> HIDE DEF left
<1>3. [W EXCEPT !.members = left, !.groups = {g \in W.groups : left[g] # 0}] \in WorldType
  BY <1>2 DEF WorldType
<1> QED BY <1>3 DEF LeaveGroups, left

LEMMA DeleteThreadsType ==
  ASSUME NEW W \in WorldType, NEW p \in Pid
  PROVE  DeleteThreads(W, p) \in WorldType
<1> DEFINE ths == W.pcb[p].threads
           dying == {t \in ths : W.pcb[t].status \notin Dead}
           R == Redirect(W, UNION {W.pcb[t].children : t \in dying}, p)
           V == LeaveGroups(R, dying)
<1>1. ths \in SUBSET Pid /\ dying \in SUBSET Pid
  BY DEF WorldType, PCB
<1>2. UNION {W.pcb[t].children : t \in dying} \in SUBSET Pid
  BY <1>1 DEF WorldType, PCB
<1>3. R \in WorldType
  BY <1>2, RedirectType
<1>4. V \in WorldType
  BY <1>1, <1>3, LeaveGroupsType
<1> HIDE DEF V
<1>5. [q \in Pid |-> IF q \in ths THEN [V.pcb[q] EXCEPT !.status = "RELEASED", !.held = FALSE]
                                  ELSE V.pcb[q]] \in [Pid -> PCB]
  <2> SUFFICES ASSUME NEW q \in Pid
               PROVE  /\ V.pcb[q] \in PCB
                      /\ [V.pcb[q] EXCEPT !.status = "RELEASED", !.held = FALSE] \in PCB
    OBVIOUS
  <2>1. V.pcb[q] \in PCB
    BY <1>4, RowType
  <2> QED BY <2>1 DEF PCB, Status, Dead
<1>6. [V EXCEPT !.pcb = [q \in Pid |-> IF q \in ths THEN [V.pcb[q] EXCEPT !.status = "RELEASED", !.held = FALSE]
                                                    ELSE V.pcb[q]],
                !.live = @ \ ths, !.map = @ \ ths] \in WorldType
  BY ZenonT(40), <1>4, <1>5 DEF WorldType
<1> QED BY ZenonT(40), <1>6 DEF DeleteThreads, V

LEMMA ClearThreadsType ==
  ASSUME NEW W \in WorldType, NEW p \in Pid
  PROVE  ClearThreads(W, p) \in WorldType
<1>1. [W.pcb[p] EXCEPT !.threads = {}] \in PCB
  BY RowType DEF PCB
<1>2. [W.pcb EXCEPT ![p] = [W.pcb[p] EXCEPT !.threads = {}]] \in [Pid -> PCB]
  BY <1>1 DEF WorldType
<1>3. [W EXCEPT !.pcb = [W.pcb EXCEPT ![p] = [W.pcb[p] EXCEPT !.threads = {}]]] \in WorldType
  BY <1>2 DEF WorldType
<1> QED BY <1>3 DEF ClearThreads, WorldType

LEMMA RedirectChildrenType ==
  ASSUME NEW W \in WorldType, NEW p \in Pid
  PROVE  RedirectChildren(W, p) \in WorldType
<1>1. W.pcb[p].children \in SUBSET Pid /\ W.pcb[p].parent \in Pid \cup {NO_PROCESS_ID}
  BY DEF WorldType, PCB
<1> QED BY <1>1, RedirectType DEF RedirectChildren

LEMMA FreeResourcesType ==
  ASSUME NEW W \in WorldType, NEW p \in Pid
  PROVE  FreeResources(W, p) \in WorldType
<1> DEFINE L == LeaveGroups(W, {p})
           V == [L EXCEPT !.pcb[p].held = FALSE]
<1>1. L \in WorldType
  BY LeaveGroupsType
<1> HIDE DEF L
<1>2. V \in WorldType
  <2>1. [L.pcb[p] EXCEPT !.held = FALSE] \in PCB
    <3>1. L.pcb[p] \in PCB
      BY <1>1, RowType
    <3> QED BY <3>1 DEF PCB
  <2>2. [L.pcb EXCEPT ![p] = [L.pcb[p] EXCEPT !.held = FALSE]] \in [Pid -> PCB]
    BY <1>1, <2>1 DEF WorldType
  <2>3. [L EXCEPT !.pcb = [L.pcb EXCEPT ![p] = [L.pcb[p] EXCEPT !.held = FALSE]]] \in WorldType
    BY <1>1, <2>2 DEF WorldType
  <2> QED BY <1>1, <2>3 DEF WorldType
<1>3. SetStatus(V, p, "RELEASED") \in WorldType
  BY <1>2, SetStatusType DEF Status, Dead
<1> QED BY <1>2, <1>3 DEF FreeResources, L

LEMMA DestroyType ==
  ASSUME NEW W \in WorldType, NEW p \in Pid
  PROVE  Destroy(W, p) \in WorldType
<1>1. SetStatus(W, p, "TERMINATED") \in WorldType
  BY SetStatusType DEF Status, Dead
<1> QED BY <1>1, DeleteThreadsType, ClearThreadsType, RedirectChildrenType, FreeResourcesType
        DEF Destroy

LEMMA UpdateType ==
  ASSUME NEW W \in WorldType, NEW p \in Pid, NEW row \in PCB
  PROVE  [W EXCEPT !.pcb[p] = row] \in WorldType
<1>1. [W.pcb EXCEPT ![p] = row] \in [Pid -> PCB]
  BY DEF WorldType
<1>2. [W EXCEPT !.pcb = [W.pcb EXCEPT ![p] = row]] \in WorldType
  BY <1>1 DEF WorldType
<1> QED BY <1>2 DEF WorldType

LEMMA DeleteProcessType ==
  ASSUME NEW W \in WorldType, NEW p \in Pid
  PROVE  DeleteProcess(W, p) \in WorldType
BY DEF DeleteProcess, WorldType

LEMMA NewProcessType ==
  ASSUME TypeOK, NEW c \in Pid, NEW par \in Pid \cup {NO_PROCESS_ID}, NEW m \in Pid,
         NEW s \in Status
  PROVE  NewProcess(c, par, m, s) \in PCB
<1>1. par \in procMap => pcb[par].group \in Pid
  BY DEF TypeOK, PCB
<1>2. (IF par \in procMap THEN pcb[par].group ELSE c) \in Pid
  BY <1>1
<1> QED BY <1>2 DEF NewProcess, PCB

LEMMA ConstructType ==
  ASSUME NEW W \in WorldType, NEW c \in Pid, NEW row \in PCB
  PROVE  Construct(W, c, row) \in WorldType
<1>1. row.group \in Pid
  BY DEF PCB
<1>2. [W.pcb EXCEPT ![c] = row] \in [Pid -> PCB]
  BY DEF WorldType
<1>3. [W.members EXCEPT ![row.group] = @ + 1] \in [Pid -> Int]
  BY <1>1 DEF WorldType
<1>4. W.live \cup {c} \in SUBSET Pid
  BY DEF WorldType
<1>5. (IF row.group = c THEN W.groups \cup {c} ELSE W.groups) \in SUBSET Pid
  BY DEF WorldType
<1> HIDE <1>1
<1> DEFINE P == [W.pcb EXCEPT ![c] = row]
           Ms == [W.members EXCEPT ![row.group] = @ + 1]
           G == IF row.group = c THEN W.groups \cup {c} ELSE W.groups
           V == [W EXCEPT !.pcb = P, !.live = W.live \cup {c}, !.members = Ms, !.groups = G]
<1>6. V = Construct(W, c, row)
  BY DEF Construct
<1> HIDE DEF P, Ms, G
<1>7. V \in WorldType
  BY <1>2, <1>3, <1>4, <1>5 DEF WorldType, P, Ms, G
<1> QED BY <1>6, <1>7

-----------------------------------------------------------------------------
(* What the scheduler picks *)

LEMMA ForScheduleResult ==
  ASSUME TypeOK, NEW b \in Pid, NEW r \in ForSchedule(b)
  PROVE  /\ r.p \in {b} \cup pcb[b].threads \cup pcb[b].turn
         /\ r.p \in Pid
         /\ r.gone \subseteq pcb[b].threads
         /\ r.turn \subseteq pcb[b].threads \cup pcb[b].turn
<1>1. pcb[b].threads \subseteq Pid /\ pcb[b].turn \subseteq Pid
  BY DEF TypeOK, PCB
<1> DEFINE released == {t \in pcb[b].threads : pcb[t].status = "RELEASED"}
           turn == pcb[b].turn
           rest == pcb[b].threads \ turn
           Result(p, gone, next) == [p |-> p, gone |-> gone, turn |-> next]
<1>2. CASE pcb[b].status \in Dead
  <2>1. r = Result(b, {}, turn)
    BY <1>2 DEF ForSchedule
  <2> QED BY <2>1
<1>3. CASE pcb[b].status \notin Dead /\ turn = {}
  <2>1. r = MainTurn(b)
    BY <1>3 DEF ForSchedule
  <2> QED BY <2>1 DEF MainTurn
<1>4. CASE pcb[b].status \notin Dead /\ turn # {} /\ ~(turn \subseteq released)
  <2>1. r \in UNION {{Result(p, gone, turn \ (gone \cup {p})) :
                       gone \in SUBSET (turn \cap released)} : p \in turn \ released}
    BY <1>4 DEF ForSchedule
  <2>2. PICK p \in turn \ released, gone \in SUBSET (turn \cap released) :
           r = Result(p, gone, turn \ (gone \cup {p}))
    BY <2>1
  <2> QED BY <2>2, <1>1
<1>5. CASE /\ pcb[b].status \notin Dead /\ turn # {} /\ turn \subseteq released
           /\ ~(rest \subseteq released)
  <2>1. r \in UNION {{Result(p, turn \cup gone, rest \ (gone \cup {p})) :
                       gone \in SUBSET (rest \cap released)} : p \in rest \ released}
    BY <1>5 DEF ForSchedule
  <2>2. PICK p \in rest \ released, gone \in SUBSET (rest \cap released) :
           r = Result(p, turn \cup gone, rest \ (gone \cup {p}))
    BY <2>1
  <2> QED BY <2>2, <1>1, <1>5
<1>6. CASE /\ pcb[b].status \notin Dead /\ turn # {} /\ turn \subseteq released
           /\ rest \subseteq released
  <2>1. r = Result(b, pcb[b].threads, {})
    BY <1>6 DEF ForSchedule
  <2> QED BY <2>1
<1> QED BY <1>2, <1>3, <1>4, <1>5, <1>6

-----------------------------------------------------------------------------
(* What an operation on the table leaves alone *)

\* From W to V the objects of L are deleted, nobody comes back from the dead, only
\* members of D die, and threads only ever leave the lists.
Frame(W, V, D, L) ==
  /\ V \in WorldType
  /\ V.live \subseteq W.live
  /\ W.live \ L \subseteq V.live
  /\ V.map \subseteq W.map
  /\ \A q \in Pid :
       /\ V.pcb[q].main = W.pcb[q].main
       /\ V.pcb[q].threads \subseteq W.pcb[q].threads
       /\ V.pcb[q].turn \subseteq W.pcb[q].threads \cup W.pcb[q].turn
       /\ W.pcb[q].status \in Dead => V.pcb[q].status \in Dead
       /\ W.pcb[q].status \notin Dead /\ q \notin D => V.pcb[q].status \notin Dead

LEMMA FrameTrans ==
  ASSUME NEW W \in WorldType, NEW V, NEW U, NEW C, NEW D, NEW K, NEW L,
         Frame(W, V, C, K), Frame(V, U, D, L)
  PROVE  Frame(W, U, C \cup D, K \cup L)
<1>1. U \in WorldType /\ U.live \subseteq W.live /\ U.map \subseteq W.map
  BY DEF Frame
<1>2. W.live \ (K \cup L) \subseteq U.live
  BY DEF Frame
<1>3. ASSUME NEW q \in Pid
      PROVE  /\ U.pcb[q].main = W.pcb[q].main
             /\ U.pcb[q].threads \subseteq W.pcb[q].threads
             /\ U.pcb[q].turn \subseteq W.pcb[q].threads \cup W.pcb[q].turn
             /\ W.pcb[q].status \in Dead => U.pcb[q].status \in Dead
             /\ W.pcb[q].status \notin Dead /\ q \notin C \cup D => U.pcb[q].status \notin Dead
  BY Zenon DEF Frame
<1> QED BY <1>1, <1>2, <1>3 DEF Frame

LEMMA StatusFacts ==
  /\ Dead \subseteq Status
  /\ "TERMINATED" \in Dead /\ "RELEASED" \in Dead
  /\ \A s \in {"RUN", "WAIT", "WAIT_CHILD", "WAIT_KERNEL_SERVICE"} : s \in Status /\ s \notin Dead
BY DEF Status, Dead

LEMMA SetStatusRows ==
  ASSUME NEW W \in WorldType, NEW p \in Pid, NEW s \in Status, NEW q \in Pid
  PROVE  /\ SetStatus(W, p, s).live = W.live
         /\ SetStatus(W, p, s).map = W.map
         /\ SetStatus(W, p, s).pcb[q].main = W.pcb[q].main
         /\ SetStatus(W, p, s).pcb[q].threads = W.pcb[q].threads
         /\ SetStatus(W, p, s).pcb[q].turn = W.pcb[q].turn
         /\ SetStatus(W, p, s).pcb[q].parent = W.pcb[q].parent
         /\ SetStatus(W, p, s).pcb[q].status = IF q = p THEN s ELSE W.pcb[q].status
<1>1. W.pcb[q] \in PCB /\ W.pcb[p] \in PCB
  BY RowType
<1> QED BY <1>1 DEF SetStatus, WorldType, PCB

LEMMA SetStatusFrame ==
  ASSUME NEW W \in WorldType, NEW p \in Pid, NEW s \in Status
  PROVE  /\ s \in Dead => Frame(W, SetStatus(W, p, s), {p}, {})
         /\ s \notin Dead /\ W.pcb[p].status \notin Dead => Frame(W, SetStatus(W, p, s), {}, {})
         /\ s \in Dead /\ W.pcb[p].status \in Dead => Frame(W, SetStatus(W, p, s), {}, {})
BY SetStatusType, SetStatusRows DEF Frame

LEMMA RedirectFrame ==
  ASSUME NEW W \in WorldType, NEW kids \in SUBSET Pid, NEW heir \in Pid \cup {NO_PROCESS_ID}
  PROVE  Frame(W, Redirect(W, kids, heir), {}, {})
<1> DEFINE V == Redirect(W, kids, heir)
<1>1. V \in WorldType
  BY RedirectType
<1>2. V.live = W.live /\ V.map = W.map
  BY DEF Redirect, WorldType
<1>3. ASSUME NEW q \in Pid
      PROVE  /\ V.pcb[q].main = W.pcb[q].main
             /\ V.pcb[q].threads = W.pcb[q].threads
             /\ V.pcb[q].turn = W.pcb[q].turn
             /\ V.pcb[q].status = IF q \in kids \cap W.map /\ W.pcb[q].status = "TERMINATED"
                                    THEN "RELEASED" ELSE W.pcb[q].status
  <2>1. W.pcb[q] \in PCB
    BY RowType
  <2> QED BY <2>1 DEF Redirect, WorldType, PCB
<1> QED BY <1>1, <1>2, <1>3 DEF Frame, Dead

LEMMA LeaveGroupsFrame ==
  ASSUME NEW W \in WorldType, NEW ps \in SUBSET Pid
  PROVE  /\ Frame(W, LeaveGroups(W, ps), {}, {})
         /\ LeaveGroups(W, ps).pcb = W.pcb
<1>1. LeaveGroups(W, ps) \in WorldType
  BY LeaveGroupsType
<1>2. /\ LeaveGroups(W, ps).live = W.live
      /\ LeaveGroups(W, ps).map = W.map
      /\ LeaveGroups(W, ps).pcb = W.pcb
  BY DEF LeaveGroups, WorldType
<1> QED BY <1>1, <1>2 DEF Frame

LEMMA DeleteThreadsFrame ==
  ASSUME NEW W \in WorldType, NEW p \in Pid
  PROVE  Frame(W, DeleteThreads(W, p), W.pcb[p].threads, W.pcb[p].threads)
<1> DEFINE ths == W.pcb[p].threads
           dying == {t \in ths : W.pcb[t].status \notin Dead}
           kids == UNION {W.pcb[t].children : t \in dying}
           R == Redirect(W, kids, p)
           V == LeaveGroups(R, dying)
           U == DeleteThreads(W, p)
<1>1. ths \in SUBSET Pid /\ dying \in SUBSET Pid
  BY DEF WorldType, PCB
<1>2. kids \in SUBSET Pid
  BY <1>1 DEF WorldType, PCB
<1>3. R \in WorldType /\ Frame(W, R, {}, {})
  BY <1>2, RedirectType, RedirectFrame
<1>4. V \in WorldType /\ Frame(R, V, {}, {})
  BY <1>1, <1>3, LeaveGroupsType, LeaveGroupsFrame
<1>5. Frame(W, V, {} \cup {}, {} \cup {})
  <2> HIDE DEF R, V
  <2> QED BY <1>3, <1>4, FrameTrans
<1>6. U \in WorldType
  BY DeleteThreadsType
<1>7. U = [V EXCEPT !.pcb = [q \in Pid |-> IF q \in ths THEN [V.pcb[q] EXCEPT !.status = "RELEASED", !.held = FALSE]
                                                    ELSE V.pcb[q]],
                !.live = @ \ ths, !.map = @ \ ths]
  BY DEF DeleteThreads
<1> HIDE DEF U, V, ths
<1>8. U.live = V.live \ ths /\ U.map = V.map \ ths
  BY <1>4, <1>7 DEF WorldType
<1>9. ASSUME NEW q \in Pid
      PROVE  /\ U.pcb[q].main = V.pcb[q].main
             /\ U.pcb[q].threads = V.pcb[q].threads
             /\ U.pcb[q].turn = V.pcb[q].turn
             /\ U.pcb[q].status = IF q \in ths THEN "RELEASED" ELSE V.pcb[q].status
  <2>1. V.pcb[q] \in PCB
    BY <1>4, RowType
  <2>2. U.pcb[q] = IF q \in ths THEN [V.pcb[q] EXCEPT !.status = "RELEASED", !.held = FALSE]
                                ELSE V.pcb[q]
    BY <1>4, <1>7 DEF WorldType
  <2> QED BY <2>1, <2>2 DEF PCB
<1>10. Frame(V, U, ths, ths)
  BY <1>6, <1>8, <1>9 DEF Frame, Dead
<1>11. Frame(W, U, ({} \cup {}) \cup ths, ({} \cup {}) \cup ths)
  BY <1>5, <1>10, FrameTrans
<1>12. ({} \cup {}) \cup ths = ths
  OBVIOUS
<1> QED BY <1>11, <1>12 DEF U, ths

LEMMA ClearThreadsFrame ==
  ASSUME NEW W \in WorldType, NEW p \in Pid
  PROVE  Frame(W, ClearThreads(W, p), {}, {})
<1>1. ClearThreads(W, p) \in WorldType
  BY ClearThreadsType
<1>2. ClearThreads(W, p).live = W.live /\ ClearThreads(W, p).map = W.map
  BY DEF ClearThreads, WorldType
<1>3. ASSUME NEW q \in Pid
      PROVE  /\ ClearThreads(W, p).pcb[q].main = W.pcb[q].main
             /\ ClearThreads(W, p).pcb[q].threads \subseteq W.pcb[q].threads
             /\ ClearThreads(W, p).pcb[q].turn = W.pcb[q].turn
             /\ ClearThreads(W, p).pcb[q].status = W.pcb[q].status
  <2>1. W.pcb[q] \in PCB
    BY RowType
  <2> QED BY <2>1 DEF ClearThreads, WorldType, PCB
<1> QED BY <1>1, <1>2, <1>3 DEF Frame

LEMMA RedirectChildrenFrame ==
  ASSUME NEW W \in WorldType, NEW p \in Pid
  PROVE  Frame(W, RedirectChildren(W, p), {}, {})
<1>1. W.pcb[p].children \in SUBSET Pid /\ W.pcb[p].parent \in Pid \cup {NO_PROCESS_ID}
  BY RowType DEF PCB
<1> QED BY <1>1, RedirectFrame DEF RedirectChildren

LEMMA FreeResourcesFrame ==
  ASSUME NEW W \in WorldType, NEW p \in Pid
  PROVE  Frame(W, FreeResources(W, p), {p}, {})
<1> DEFINE L == LeaveGroups(W, {p})
           V == [L EXCEPT !.pcb[p].held = FALSE]
           U == FreeResources(W, p)
<1>1. L \in WorldType /\ Frame(W, L, {}, {})
  BY LeaveGroupsType, LeaveGroupsFrame
<1>2. L.pcb[p] \in PCB
  BY <1>1, RowType
<1>3. U = IF V.pcb[p].parent = NO_PROCESS_ID THEN SetStatus(V, p, "RELEASED") ELSE V
  BY DEF FreeResources
<1> HIDE DEF L, U
<1>4. V = [L EXCEPT !.pcb[p] = [L.pcb[p] EXCEPT !.held = FALSE]]
  BY <1>1 DEF WorldType
<1>5. V \in WorldType
  <2>1. [L.pcb[p] EXCEPT !.held = FALSE] \in PCB
    BY <1>2 DEF PCB
  <2> QED BY <1>1, <1>4, <2>1, UpdateType
<1>6. Frame(L, V, {}, {})
  <2>1. V.live = L.live /\ V.map = L.map
    BY <1>1 DEF WorldType
  <2>2. ASSUME NEW q \in Pid
        PROVE  /\ V.pcb[q].main = L.pcb[q].main
               /\ V.pcb[q].threads = L.pcb[q].threads
               /\ V.pcb[q].turn = L.pcb[q].turn
               /\ V.pcb[q].status = L.pcb[q].status
    <3>1. L.pcb[q] \in PCB
      BY <1>1, RowType
    <3> QED BY <1>1, <3>1 DEF WorldType, PCB
  <2> QED BY <1>5, <2>1, <2>2 DEF Frame
<1> HIDE DEF V
<1>7. Frame(V, U, {p}, {})
  <2>1. CASE V.pcb[p].parent = NO_PROCESS_ID
    BY <1>3, <1>5, <2>1, SetStatusFrame DEF Status, Dead
  <2>2. CASE V.pcb[p].parent # NO_PROCESS_ID
    BY <1>3, <1>5, <2>2 DEF Frame
  <2> QED BY <2>1, <2>2
<1>8. Frame(W, V, {} \cup {}, {} \cup {})
  BY <1>1, <1>6, FrameTrans
<1>9. Frame(W, U, ({} \cup {}) \cup {p}, ({} \cup {}) \cup {})
  BY <1>7, <1>8, FrameTrans
<1>10. ({} \cup {}) \cup {p} = {p} /\ ({} \cup {}) \cup {} = {}
  OBVIOUS
<1> QED BY <1>9, <1>10 DEF U

LEMMA DestroyFrame ==
  ASSUME NEW W \in WorldType, NEW p \in Pid
  PROVE  /\ Frame(W, Destroy(W, p), {p} \cup W.pcb[p].threads, W.pcb[p].threads)
         /\ Destroy(W, p).pcb[p].status \in Dead
<1> DEFINE ths == W.pcb[p].threads
           V == SetStatus(W, p, "TERMINATED")
           T == DeleteThreads(V, p)
           C == ClearThreads(T, p)
           R == RedirectChildren(C, p)
           U == FreeResources(R, p)
<1>1. /\ V \in WorldType /\ Frame(W, V, {p}, {})
      /\ V.pcb[p].threads = ths /\ V.pcb[p].status \in Dead
  BY StatusFacts, SetStatusType, SetStatusFrame, SetStatusRows
<1> HIDE DEF V, ths
<1>2. T \in WorldType /\ Frame(V, T, ths, ths)
  BY <1>1, DeleteThreadsType, DeleteThreadsFrame
<1> HIDE DEF T
<1>3. C \in WorldType /\ Frame(T, C, {}, {})
  BY <1>2, ClearThreadsType, ClearThreadsFrame
<1> HIDE DEF C
<1>4. R \in WorldType /\ Frame(C, R, {}, {})
  BY <1>3, RedirectChildrenType, RedirectChildrenFrame
<1> HIDE DEF R
<1>5. U \in WorldType /\ Frame(R, U, {p}, {})
  BY <1>4, FreeResourcesType, FreeResourcesFrame
<1> HIDE DEF U
<1>6. Frame(W, U, {p} \cup ths, ths)
  <2>1. Frame(W, T, {p} \cup ths, {} \cup ths)
    BY <1>1, <1>2, FrameTrans
  <2>2. Frame(W, C, ({p} \cup ths) \cup {}, ({} \cup ths) \cup {})
    BY <1>3, <2>1, FrameTrans
  <2>3. Frame(W, R, (({p} \cup ths) \cup {}) \cup {}, (({} \cup ths) \cup {}) \cup {})
    BY <1>4, <2>2, FrameTrans
  <2>4. Frame(W, U, ((({p} \cup ths) \cup {}) \cup {}) \cup {p}, ((({} \cup ths) \cup {}) \cup {}) \cup {})
    BY <1>5, <2>3, FrameTrans
  <2>5. /\ ((({p} \cup ths) \cup {}) \cup {}) \cup {p} = {p} \cup ths
        /\ ((({} \cup ths) \cup {}) \cup {}) \cup {} = ths
    OBVIOUS
  <2> QED BY <2>4, <2>5
<1>7. U.pcb[p].status \in Dead
  BY <1>1, <1>2, <1>3, <1>4, <1>5 DEF Frame
<1>8. U = Destroy(W, p)
  BY DEF Destroy, U, R, C, T, V
<1> QED BY <1>6, <1>7, <1>8 DEF ths

LEMMA AfterForScheduleFrame ==
  ASSUME TypeOK, NEW b \in Pid, NEW r \in ForSchedule(b)
  PROVE  /\ Frame(World, AfterForSchedule(b, r), {}, r.gone)
         /\ \A q \in Pid : AfterForSchedule(b, r).pcb[q].status = pcb[q].status
         /\ AfterForSchedule(b, r).pcb[b].threads = pcb[b].threads \ r.gone
<1> DEFINE V == AfterForSchedule(b, r)
           row == [pcb[b] EXCEPT !.threads = @ \ r.gone, !.turn = r.turn]
<1>1. World \in WorldType
  BY WorldHasType
<1>2. pcb[b] \in PCB /\ pcb[b].threads \subseteq Pid
  BY DEF TypeOK, PCB
<1>3. /\ r.gone \subseteq pcb[b].threads
      /\ r.turn \subseteq pcb[b].threads \cup pcb[b].turn
  BY ForScheduleResult
<1>4. row \in PCB
  BY <1>2, <1>3 DEF PCB
<1>5. /\ V.pcb = [pcb EXCEPT ![b] = row]
      /\ V.live = live \ r.gone
      /\ V.map = procMap \ r.gone
      /\ V.members = members
      /\ V.groups = groups
  BY <1>2 DEF AfterForSchedule, World, TypeOK, PCB
<1>6. V \in WorldType
  <2> DEFINE P == [pcb EXCEPT ![b] = row]
             U == [World EXCEPT !.pcb = P, !.live = live \ r.gone, !.map = procMap \ r.gone]
  <2>1. P \in [Pid -> PCB]
    BY <1>4 DEF TypeOK
  <2>2. V = U
    BY DEF AfterForSchedule, World
  <2> HIDE DEF P
  <2>3. live \ r.gone \in SUBSET Pid /\ procMap \ r.gone \in SUBSET Pid
    BY DEF TypeOK
  <2>4. U \in WorldType
    BY <1>1, <2>1, <2>3 DEF WorldType
  <2> QED BY <2>2, <2>4
<1> HIDE DEF V
<1>7. ASSUME NEW q \in Pid
      PROVE  /\ V.pcb[q].main = pcb[q].main
             /\ V.pcb[q].threads \subseteq pcb[q].threads
             /\ V.pcb[q].turn \subseteq pcb[q].threads \cup pcb[q].turn
             /\ V.pcb[q].status = pcb[q].status
             /\ q = b => V.pcb[q].threads = pcb[q].threads \ r.gone
  <2>1. CASE q = b
    <3>1. V.pcb[q] = row
      BY <1>5, <2>1 DEF TypeOK
    <3> QED BY <1>2, <1>3, <2>1, <3>1 DEF PCB
  <2>2. CASE q # b
    <3>1. V.pcb[q] = pcb[q]
      BY <1>5, <2>2 DEF TypeOK
    <3> QED BY <2>2, <3>1
  <2> QED BY <2>1, <2>2
<1>8. /\ World.pcb = pcb /\ World.live = live /\ World.map = procMap
  BY DEF World
<1>9. Frame(World, V, {}, r.gone)
  BY <1>5, <1>6, <1>7, <1>8 DEF Frame
<1> QED BY <1>7, <1>9 DEF V

LEMMA EndChildWaitFrame ==
  ASSUME NEW W \in WorldType, NEW p \in Pid, W.pcb[p].status \notin Dead
  PROVE  /\ Frame(W, EndChildWait(W, p), {}, {})
         /\ EndChildWait(W, p).pcb[p].status = "RUN"
<1> DEFINE row == [W.pcb[p] EXCEPT !.children = @ \ {W.pcb[p].waitChild},
                                 !.waitChild = NO_PROCESS_ID, !.status = "RUN"]
           V == EndChildWait(W, p)
<1>1. row \in PCB
  <2>1. W.pcb[p] \in PCB
    BY RowType
  <2> QED BY <2>1 DEF PCB, Status
<1>2. V = [W EXCEPT !.pcb[p] = row]
  BY DEF EndChildWait
<1>3. V \in WorldType
  BY <1>1, <1>2, UpdateType
<1>4. V.live = W.live /\ V.map = W.map
  BY <1>2 DEF WorldType
<1>5. ASSUME NEW q \in Pid
      PROVE  /\ V.pcb[q].main = W.pcb[q].main
             /\ V.pcb[q].threads = W.pcb[q].threads
             /\ V.pcb[q].turn = W.pcb[q].turn
             /\ V.pcb[q].status = IF q = p THEN "RUN" ELSE W.pcb[q].status
  <2>1. W.pcb[q] \in PCB /\ W.pcb[p] \in PCB
    BY RowType
  <2>2. V.pcb[q] = IF q = p THEN row ELSE W.pcb[q]
    BY <1>2 DEF WorldType
  <2> QED BY <2>1, <2>2 DEF PCB
<1>6. "RUN" \notin Dead
  BY DEF Dead
<1> QED BY <1>3, <1>4, <1>5, <1>6 DEF Frame

LEMMA RunnableFrame ==
  ASSUME NEW W \in WorldType, NEW p \in Pid, NEW V \in Runnable(W, p)
  PROVE  /\ Frame(W, V, {}, {})
         /\ V.pcb[p].status \notin Dead
<1>1. W.pcb[p] \in PCB
  BY RowType
<1>2. CASE W.pcb[p].status = "RUN"
  <2>1. V = W
    BY <1>2 DEF Runnable
  <2> QED BY <1>2, <2>1 DEF Frame, Dead
<1>3. CASE W.pcb[p].status = "WAIT"
  <2>1. V = SetStatus(W, p, "RUN")
    BY <1>3 DEF Runnable
  <2>2. "RUN" \in Status /\ "RUN" \notin Dead /\ W.pcb[p].status \notin Dead
    BY <1>3, StatusFacts
  <2>3. Frame(W, V, {}, {})
    BY <2>1, <2>2, SetStatusFrame
  <2>4. V.pcb[p].status = "RUN"
    BY <2>1, <2>2, SetStatusRows
  <2> QED BY <2>2, <2>3, <2>4
<1>4. CASE W.pcb[p].status = "WAIT_KERNEL_SERVICE"
  <2>1. V = SetStatus(W, p, "RUN")
    BY <1>4 DEF Runnable
  <2>2. "RUN" \in Status /\ "RUN" \notin Dead /\ W.pcb[p].status \notin Dead
    BY <1>4, StatusFacts
  <2>3. Frame(W, V, {}, {})
    BY <2>1, <2>2, SetStatusFrame
  <2>4. V.pcb[p].status = "RUN"
    BY <2>1, <2>2, SetStatusRows
  <2> QED BY <2>2, <2>3, <2>4
<1>5. CASE W.pcb[p].status = "WAIT_CHILD"
  <2>1. W.pcb[p].status \notin Dead
    BY <1>5 DEF Dead
  <2>2. CASE ChildGone(W, p)
    <3>1. V = EndChildWait(W, p)
      BY <1>5, <2>2 DEF Runnable, ChildDone
    <3> QED BY <2>1, <3>1, EndChildWaitFrame DEF Dead
  <2>3. CASE ~ChildGone(W, p)
    <3> DEFINE c == W.pcb[p].waitChild
               X == SetStatus(W, c, "RELEASED")
    <3>1. V = EndChildWait(X, p) /\ ChildDone(W, p)
      BY <1>5, <2>3 DEF Runnable
    <3>2. c \in Pid /\ W.pcb[c].status = "TERMINATED"
      BY <1>1, <2>3, <3>1 DEF ChildGone, ChildDone, PCB
    <3>3. c # p
      BY <1>5, <3>2
    <3> HIDE DEF c
    <3>4. X \in WorldType /\ Frame(W, X, {}, {}) /\ X.pcb[p].status = W.pcb[p].status
      <4>1. "RELEASED" \in Status /\ "RELEASED" \in Dead /\ W.pcb[c].status \in Dead
        BY <3>2, StatusFacts
      <4>2. X \in WorldType
        BY <3>2, <4>1, SetStatusType
      <4>3. Frame(W, X, {}, {})
        BY <3>2, <4>1, SetStatusFrame
      <4>4. X.pcb[p].status = W.pcb[p].status
        BY <3>2, <3>3, <4>1, SetStatusRows
      <4> QED BY <4>2, <4>3, <4>4
    <3> HIDE DEF X
    <3>5. Frame(X, V, {}, {}) /\ V.pcb[p].status = "RUN"
      BY <2>1, <3>1, <3>4, EndChildWaitFrame DEF c, X
    <3>6. Frame(W, V, {} \cup {}, {} \cup {})
      BY <3>4, <3>5, FrameTrans
    <3> QED BY <3>5, <3>6 DEF Dead
  <2> QED BY <2>2, <2>3
<1>6. W.pcb[p].status \in {"RUN", "WAIT", "WAIT_KERNEL_SERVICE", "WAIT_CHILD"}
  BY DEF Runnable
<1> QED BY <1>2, <1>3, <1>4, <1>5, <1>6

LEMMA SkippedFrame ==
  ASSUME NEW W \in WorldType, NEW p \in Pid
  PROVE  Frame(W, Skipped(W, p), {}, {})
<1>1. Frame(W, W, {}, {})
  BY DEF Frame
<1> QED BY <1>1, SetStatusFrame DEF Skipped, Status, Dead

-----------------------------------------------------------------------------
(* Steps that change the table within a frame *)

LEMMA CreatedPids == TypeOK => Created \subseteq Pid
BY MaxPidAssumption DEF TypeOK, Created, Pid

LEMMA TableStep ==
  ASSUME IInv, NEW V, NEW D, NEW L, Frame(World, V, D, L), Becomes(V), nextPid' = nextPid,
         \A q \in Pid : V.pcb[q].status \notin Dead => V.pcb[q].threads \cap L = {}
  PROVE  /\ ThreadsBelong'
         /\ LiveThreads'
         /\ live' \subseteq live /\ live \ L \subseteq live' /\ procMap' \subseteq procMap
         /\ live' \cup procMap' \subseteq Created'
         /\ \A q \in Pid :
              /\ pcb'[q].main = pcb[q].main
              /\ pcb[q].status \in Dead => pcb'[q].status \in Dead
              /\ pcb[q].status \notin Dead /\ q \notin D => pcb'[q].status \notin Dead
         /\ pcb' \in [Pid -> PCB] /\ live' \subseteq Pid /\ procMap' \subseteq Pid
         /\ members' \in [Pid -> Int] /\ groups' \subseteq Pid
<1>1. /\ pcb' = V.pcb /\ live' = V.live /\ procMap' = V.map
      /\ World.pcb = pcb /\ World.live = live /\ World.map = procMap
  BY DEF Becomes, World
<1>2. /\ V.live \subseteq live /\ live \ L \subseteq V.live /\ V.map \subseteq procMap
      /\ \A q \in Pid :
           /\ V.pcb[q].main = pcb[q].main
           /\ V.pcb[q].threads \subseteq pcb[q].threads
           /\ V.pcb[q].turn \subseteq pcb[q].threads \cup pcb[q].turn
           /\ pcb[q].status \in Dead => V.pcb[q].status \in Dead
           /\ pcb[q].status \notin Dead /\ q \notin D => V.pcb[q].status \notin Dead
  BY <1>1 DEF Frame
<1>2a. ASSUME NEW q \in Pid
       PROVE  /\ pcb'[q].main = pcb[q].main
              /\ pcb'[q].threads \subseteq pcb[q].threads
              /\ pcb'[q].turn \subseteq pcb[q].threads \cup pcb[q].turn
              /\ pcb'[q].status \notin Dead => pcb[q].status \notin Dead
              /\ pcb'[q].status \notin Dead => pcb'[q].threads \cap L = {}
  <2>1. /\ V.pcb[q].main = pcb[q].main
        /\ V.pcb[q].threads \subseteq pcb[q].threads
        /\ V.pcb[q].turn \subseteq pcb[q].threads \cup pcb[q].turn
        /\ pcb[q].status \in Dead => V.pcb[q].status \in Dead
        /\ V.pcb[q].status \notin Dead => V.pcb[q].threads \cap L = {}
    BY <1>2
  <2> QED BY <1>1, <2>1
<1>3. Created' = Created
  BY DEF Created
<1>4. ThreadsBelong'
  <2> SUFFICES ASSUME NEW b \in Pid, NEW t \in pcb'[b].threads \cup pcb'[b].turn
               PROVE  pcb'[t].main = b /\ t # b /\ t \in Created
    BY <1>3 DEF ThreadsBelong
  <2>1. t \in pcb[b].threads \cup pcb[b].turn
    BY <1>2a
  <2>2. pcb[t].main = b /\ t # b /\ t \in Created
    BY <2>1 DEF IInv, ThreadsBelong
  <2>3. t \in Pid
    BY <2>1 DEF IInv, TypeOK, PCB
  <2> QED BY <1>2a, <2>2, <2>3
<1>5. LiveThreads'
  <2> SUFFICES ASSUME NEW b \in Pid, pcb'[b].status \notin Dead, NEW t \in pcb'[b].threads
               PROVE  t \in live'
    BY DEF LiveThreads
  <2>1. pcb[b].status \notin Dead /\ t \in pcb[b].threads /\ t \notin L
    BY <1>2a
  <2>2. t \in live
    BY <2>1 DEF IInv, LiveThreads
  <2> QED BY <1>1, <1>2, <2>1, <2>2
<1>6. live' \cup procMap' \subseteq Created'
  BY <1>1, <1>2, <1>3 DEF IInv, ListOfMains
<1> QED BY <1>1, <1>2, <1>4, <1>5, <1>6, BecomesType DEF Frame

LEMMA DeleteProcessFrame ==
  ASSUME NEW W \in WorldType, NEW p \in Pid
  PROVE  /\ Frame(W, DeleteProcess(W, p), {}, {p})
         /\ DeleteProcess(W, p).pcb = W.pcb
<1>1. /\ DeleteProcess(W, p).live = W.live \ {p}
      /\ DeleteProcess(W, p).map = W.map \ {p}
      /\ DeleteProcess(W, p).pcb = W.pcb
  BY DEF DeleteProcess, WorldType
<1> QED BY <1>1, DeleteProcessType DEF Frame

\* The end of a turn of p, after which the table is W or W without p.
LEMMA EndOfTurnStep ==
  ASSUME IInv, NEW p \in Pid, NEW W, NEW D, NEW L, Frame(World, W, D, L), EndOfTurn(W, p),
         \A q \in Pid : W.pcb[q].status \notin Dead => W.pcb[q].threads \cap L = {},
         L \cap list = {}, pass' \subseteq list, pcb[p].main = p => p \notin pass',
         \A q \in Pid : Creating(q) => arg[q] \notin D \cup L \cup {p},
         UNCHANGED <<nextPid, pc, arg, serving>>, requests' \subseteq Pid, fault' \in BOOLEAN
  PROVE  IInv'
<1> DEFINE gone == W.pcb[p].main = p /\ W.pcb[p].status = "RELEASED"
           V == IF gone THEN DeleteProcess(W, p) ELSE W
           K == IF gone THEN L \cup {p} ELSE L
<1>1. Becomes(V) /\ list' = IF gone THEN list \ {p} ELSE list
  BY DEF EndOfTurn
<1>2. W \in WorldType /\ World \in WorldType
  BY WorldHasType DEF Frame, IInv
<1>3. Frame(World, V, D, K) /\ V.pcb = W.pcb
  <2>1. CASE gone
    <3>1. Frame(W, DeleteProcess(W, p), {}, {p}) /\ DeleteProcess(W, p).pcb = W.pcb
      BY <1>2, DeleteProcessFrame
    <3>2. Frame(World, DeleteProcess(W, p), D \cup {}, L \cup {p})
      BY <1>2, <3>1, FrameTrans
    <3>3. D \cup {} = D
      OBVIOUS
    <3> QED BY <2>1, <3>1, <3>2, <3>3
  <2>2. CASE ~gone
    BY <2>2
  <2> QED BY <2>1, <2>2
<1>4. World.pcb = pcb
  BY DEF World
<1>5. \A q \in Pid : W.pcb[q].main = pcb[q].main /\ W.pcb[q].threads \subseteq pcb[q].threads
  BY <1>4 DEF Frame
<1>6. gone => \A q \in Pid : p \notin W.pcb[q].threads
  BY <1>5 DEF IInv, ThreadsBelong
<1>7. \A q \in Pid : V.pcb[q].status \notin Dead => V.pcb[q].threads \cap K = {}
  BY <1>3, <1>6
<1>8. K \cap list' = {} /\ list' \subseteq list /\ pass' \subseteq list'
  BY <1>1, <1>5
<1>9. \A q \in Pid : Creating(q) => arg[q] \notin D \cup K
  OBVIOUS
<1> HIDE DEF V, K, gone
<1>10. nextPid' = nextPid
  OBVIOUS
<1>11. /\ ThreadsBelong'
       /\ LiveThreads'
       /\ live' \subseteq live /\ live \ K \subseteq live' /\ procMap' \subseteq procMap
       /\ live' \cup procMap' \subseteq Created'
       /\ \A q \in Pid :
            /\ pcb'[q].main = pcb[q].main
            /\ pcb[q].status \in Dead => pcb'[q].status \in Dead
            /\ pcb[q].status \notin Dead /\ q \notin D => pcb'[q].status \notin Dead
       /\ pcb' \in [Pid -> PCB] /\ live' \subseteq Pid /\ procMap' \subseteq Pid
       /\ members' \in [Pid -> Int] /\ groups' \subseteq Pid
  BY <1>1, <1>3, <1>7, <1>10, TableStep
<1>11a. ASSUME NEW q \in Pid
        PROVE  /\ pcb'[q].main = pcb[q].main
               /\ pcb[q].status \in Dead => pcb'[q].status \in Dead
               /\ pcb[q].status \notin Dead /\ q \notin D => pcb'[q].status \notin Dead
  BY <1>11, Zenon
<1>12. cur' = Scheduler
  BY DEF EndOfTurn
<1>13. TypeOK'
  BY <1>8, <1>11, <1>12 DEF IInv, TypeOK
<1>14. ListOfMains'
  <2>1. list' \subseteq live'
    BY <1>8, <1>11 DEF IInv, ListOfMains
  <2>2. ASSUME NEW b \in list' PROVE pcb'[b].main = b
    <3>1. b \in Pid /\ pcb[b].main = b
      BY <1>8 DEF IInv, ListOfMains, TypeOK
    <3> QED BY <1>11a, <3>1
  <2> QED BY <1>8, <1>11, <2>1, <2>2 DEF ListOfMains
<1>15. CurrentAlive'
  BY <1>12, SpecialPids DEF CurrentAlive
<1>16. NewIsPrivate'
  <2> SUFFICES ASSUME NEW q \in Pid, Creating(q)
               PROVE  /\ arg[q] \in live' \ (list' \cup procMap' \cup {cur'})
                      /\ pcb'[arg[q]].main = arg[q]
                      /\ pcb'[arg[q]].status \notin Dead
    BY DEF NewIsPrivate, Creating
  <2>1. /\ arg[q] \in live \ (list \cup procMap \cup {cur})
        /\ pcb[arg[q]].main = arg[q]
        /\ pcb[arg[q]].status \notin Dead
    BY DEF IInv, NewIsPrivate
  <2>2. arg[q] \in Pid
    BY <2>1 DEF IInv, TypeOK
  <2>3. arg[q] # cur'
    BY <1>12, <2>2, SpecialPids
  <2>4. arg[q] \notin D /\ arg[q] \notin K
    BY <1>9
  <2>5. pcb'[arg[q]].main = arg[q] /\ pcb'[arg[q]].status \notin Dead
    BY <1>11a, <2>1, <2>2, <2>4
  <2>6. arg[q] \in live' /\ arg[q] \notin list' /\ arg[q] \notin procMap'
    BY <1>8, <1>11, <2>1, <2>4
  <2> QED BY <2>3, <2>5, <2>6
<1>17. ArgsDiffer'
  BY DEF IInv, ArgsDiffer, Creating, Busy
<1>17a. BusyArgs'
  BY DEF IInv, BusyArgs, Busy, Created
<1>18. KillTarget'
  <2> SUFFICES ASSUME NEW q \in Pid, Killing(q)
               PROVE  /\ arg[q] \in Created \ {q}
                      /\ pc[q] \in {"kill_threads", "kill_clear"} => pcb'[arg[q]].status \in Dead
    BY DEF KillTarget, Killing, Created
  <2>1. /\ arg[q] \in Created \ {q}
        /\ pc[q] \in {"kill_threads", "kill_clear"} => pcb[arg[q]].status \in Dead
    BY DEF IInv, KillTarget
  <2>2. arg[q] \in Pid
    BY <2>1, CreatedPids DEF IInv
  <2>3. pcb[arg[q]].status \in Dead => pcb'[arg[q]].status \in Dead
    BY <1>11a, <2>2
  <2> QED BY <2>1, <2>3
<1> QED BY <1>11, <1>13, <1>14, <1>15, <1>16, <1>17, <1>17a, <1>18 DEF IInv

LEMMA UndefinedStep == IInv /\ Undefined => IInv'
<1> SUFFICES ASSUME IInv, Undefined PROVE IInv'
  OBVIOUS
<1>1. UNCHANGED <<pcb, live, procMap, members, groups, list, pass, cur, nextPid, pc, arg,
                  requests, serving>> /\ fault' = TRUE
  BY DEF Undefined, table, calls
<1> QED BY <1>1 DEF IInv, TypeOK, ThreadsBelong, Created, ListOfMains, CurrentAlive,
                    NewIsPrivate, Creating, ArgsDiffer, Busy, BusyArgs, Killing, KillTarget,
                    LiveThreads

\* What is under construction is neither in a scheduler list nor a thread.
LEMMA CreatedApart ==
  ASSUME IInv, NEW q \in Pid, Creating(q), NEW b \in Pid
  PROVE  /\ arg[q] \in Pid
         /\ arg[q] \notin pcb[b].threads \cup pcb[b].turn
         /\ arg[q] \notin list
         /\ arg[q] # cur
<1>1. arg[q] \in live \ (list \cup procMap \cup {cur}) /\ pcb[arg[q]].main = arg[q]
  BY DEF IInv, NewIsPrivate
<1>2. \A t \in pcb[b].threads \cup pcb[b].turn : pcb[t].main = b /\ t # b
  BY DEF IInv, ThreadsBelong
<1> QED BY <1>1, <1>2 DEF IInv, TypeOK

LEMMA ThreadsApart ==
  ASSUME IInv, NEW a \in Pid, NEW b \in Pid
  PROVE  /\ pcb[a].threads \cap list = {}
         /\ a # b => pcb[a].threads \cap pcb[b].threads = {}
<1>1. \A t \in pcb[a].threads : pcb[t].main = a /\ t # a
  BY DEF IInv, ThreadsBelong
<1>2. \A t \in pcb[b].threads : pcb[t].main = b
  BY DEF IInv, ThreadsBelong
<1>3. \A t \in list : pcb[t].main = t
  BY DEF IInv, ListOfMains
<1> QED BY <1>1, <1>2, <1>3

\* One stretch of Destroy run by a killer.
LEMMA KillStepStep ==
  ASSUME IInv, NEW p \in Pid, NEW next \in KillSteps \cup {"user"}, NEW W, NEW D, NEW L,
         Killing(p), cur = p, Frame(World, W, D, L), Becomes(W),
         D \subseteq {arg[p]} \cup pcb[arg[p]].threads, L \subseteq pcb[arg[p]].threads, p \notin D,
         \A q \in Pid : W.pcb[q].status \notin Dead => W.pcb[q].threads \cap L = {},
         next \in {"kill_threads", "kill_clear"} => W.pcb[arg[p]].status \in Dead,
         Goto(p, next, IF next = "user" THEN NO_PROCESS_ID ELSE arg[p]),
         UNCHANGED <<list, pass, cur, nextPid, requests, serving, fault>>
  PROVE  IInv'
<1> DEFINE a == arg[p]
<1>1. a \in Pid /\ a \in Created /\ a # p
  BY CreatedPids DEF IInv, KillTarget
<1>2. nextPid' = nextPid /\ Created' = Created
  BY DEF Created
<1>3. /\ ThreadsBelong'
      /\ LiveThreads'
      /\ live' \subseteq live /\ live \ L \subseteq live' /\ procMap' \subseteq procMap
      /\ live' \cup procMap' \subseteq Created'
      /\ \A q \in Pid :
           /\ pcb'[q].main = pcb[q].main
           /\ pcb[q].status \in Dead => pcb'[q].status \in Dead
           /\ pcb[q].status \notin Dead /\ q \notin D => pcb'[q].status \notin Dead
      /\ pcb' \in [Pid -> PCB] /\ live' \subseteq Pid /\ procMap' \subseteq Pid
      /\ members' \in [Pid -> Int] /\ groups' \subseteq Pid
  BY <1>2, TableStep
<1>4. ASSUME NEW q \in Pid
      PROVE  /\ pcb'[q].main = pcb[q].main
             /\ pcb[q].status \in Dead => pcb'[q].status \in Dead
             /\ pcb[q].status \notin Dead /\ q \notin D => pcb'[q].status \notin Dead
  BY <1>3
<1>5. /\ pc \in [Pid -> Steps] /\ arg \in [Pid -> Pid \cup {NO_PROCESS_ID}]
      /\ pc' = [pc EXCEPT ![p] = next]
      /\ arg' = [arg EXCEPT ![p] = IF next = "user" THEN NO_PROCESS_ID ELSE a]
  BY DEF Goto, IInv, TypeOK
<1>6. next \in Steps /\ next \notin CreateSteps
  BY DEF Steps, KillSteps, CreateSteps
<1>7. TypeOK'
  <2>1. pc' \in [Pid -> Steps] /\ arg' \in [Pid -> Pid \cup {NO_PROCESS_ID}]
    BY <1>1, <1>5, <1>6
  <2> QED BY <1>3, <2>1 DEF IInv, TypeOK
<1>8. ListOfMains'
  <2>1. L \cap list = {}
    BY <1>1, ThreadsApart
  <2>2. list' \subseteq live' /\ pass' \subseteq list'
    BY <1>3, <2>1 DEF IInv, ListOfMains
  <2>3. ASSUME NEW b \in list' PROVE pcb'[b].main = b
    <3>1. b \in Pid /\ pcb[b].main = b
      BY DEF IInv, ListOfMains, TypeOK
    <3> QED BY <1>4, <3>1
  <2> QED BY <1>3, <2>2, <2>3 DEF ListOfMains
<1>9. CurrentAlive'
  <2>1. cur' = p /\ p \notin pass' /\ p \in Created /\ pcb[p].status \notin Dead
    BY DEF IInv, CurrentAlive
  <2> QED BY <1>2, <1>4, <2>1 DEF CurrentAlive
<1>10. ASSUME NEW q \in Pid
       PROVE  /\ Creating(q)' => q # p /\ Creating(q)
              /\ q # p => pc'[q] = pc[q] /\ arg'[q] = arg[q]
              /\ Killing(p)' => arg'[p] = arg[p]
  BY <1>5, <1>6 DEF Creating, Killing, KillSteps
<1>11. NewIsPrivate'
  <2> SUFFICES ASSUME NEW q \in Pid, Creating(q)'
               PROVE  /\ arg'[q] \in live' \ (list' \cup procMap' \cup {cur'})
                      /\ pcb'[arg'[q]].main = arg'[q]
                      /\ pcb'[arg'[q]].status \notin Dead
    BY DEF NewIsPrivate
  <2>1. q # p /\ Creating(q) /\ arg'[q] = arg[q]
    BY <1>10
  <2>2. /\ arg[q] \in live \ (list \cup procMap \cup {cur})
        /\ pcb[arg[q]].main = arg[q]
        /\ pcb[arg[q]].status \notin Dead
    BY <2>1 DEF IInv, NewIsPrivate
  <2>3. arg[q] \in Pid /\ arg[q] \notin pcb[a].threads
    BY <1>1, <2>1, CreatedApart
  <2>4. arg[q] # a
    BY <2>1, StepKinds DEF IInv, ArgsDiffer
  <2>5. pcb'[arg[q]].main = arg[q] /\ pcb'[arg[q]].status \notin Dead
    BY <1>4, <2>2, <2>3, <2>4
  <2>6. arg[q] \in live' /\ arg[q] \notin list' /\ arg[q] \notin procMap' /\ arg[q] # cur'
    BY <1>3, <2>2, <2>3
  <2> QED BY <2>1, <2>5, <2>6
<1>12. ArgsDiffer'
  <2> SUFFICES ASSUME NEW q \in Pid, NEW r \in Pid, q # r, Creating(q)', Busy(r)'
               PROVE  arg'[q] # arg'[r]
    BY DEF ArgsDiffer
  <2>1. q # p /\ Creating(q) /\ arg'[q] = arg[q]
    BY <1>10
  <2>2. CASE r = p
    <3>1. Killing(p)'
      BY <1>5, <2>2 DEF Busy, Killing
    <3>2. arg'[r] = arg[p] /\ Busy(p)
      BY <1>10, <2>2, <3>1, StepKinds
    <3> QED BY <2>1, <2>2, <3>2 DEF IInv, ArgsDiffer
  <2>3. CASE r # p
    <3>1. arg'[r] = arg[r] /\ Busy(r)
      BY <1>10, <2>3 DEF Busy
    <3> QED BY <2>1, <3>1 DEF IInv, ArgsDiffer
  <2> QED BY <2>2, <2>3
<1>12a. BusyArgs'
  <2> SUFFICES ASSUME NEW q \in Pid, Busy(q)' PROVE arg'[q] \in Created'
    BY DEF BusyArgs
  <2>1. CASE q = p
    BY <1>1, <1>2, <1>5, <2>1 DEF Busy
  <2>2. CASE q # p
    BY <1>2, <1>10, <2>2 DEF IInv, BusyArgs, Busy
  <2> QED BY <2>1, <2>2
<1>13. KillTarget'
  <2> SUFFICES ASSUME NEW q \in Pid, Killing(q)'
               PROVE  /\ arg'[q] \in Created' \ {q}
                      /\ pc'[q] \in {"kill_threads", "kill_clear"} => pcb'[arg'[q]].status \in Dead
    BY DEF KillTarget
  <2>1. CASE q = p
    <3>1. arg'[q] = a /\ pc'[q] = next
      BY <1>5, <1>10, <2>1
    <3>2. pcb' = W.pcb
      BY DEF Becomes
    <3> QED BY <1>1, <1>2, <2>1, <3>1, <3>2
  <2>2. CASE q # p
    <3>1. arg'[q] = arg[q] /\ pc'[q] = pc[q] /\ Killing(q)
      BY <1>10, <2>2 DEF Killing
    <3>2. /\ arg[q] \in Created \ {q}
          /\ pc[q] \in {"kill_threads", "kill_clear"} => pcb[arg[q]].status \in Dead
      BY <3>1 DEF IInv, KillTarget
    <3>3. arg[q] \in Pid
      BY <3>2, CreatedPids DEF IInv
    <3>4. pcb[arg[q]].status \in Dead => pcb'[arg[q]].status \in Dead
      BY <1>4, <3>3
    <3> QED BY <1>2, <3>1, <3>2, <3>4
  <2> QED BY <2>1, <2>2
<1> QED BY <1>3, <1>7, <1>8, <1>9, <1>11, <1>12, <1>12a, <1>13 DEF IInv

-----------------------------------------------------------------------------
(* Steps that create *)

LEMMA ConstructRows ==
  ASSUME NEW W \in WorldType, NEW c \in Pid, NEW row \in PCB
  PROVE  /\ Construct(W, c, row).pcb = [W.pcb EXCEPT ![c] = row]
         /\ Construct(W, c, row).live = W.live \cup {c}
         /\ Construct(W, c, row).map = W.map
BY DEF Construct, WorldType

LEMMA NextPidFresh ==
  ASSUME IInv, nextPid < MaxPid, nextPid' = nextPid + 1
  PROVE  /\ nextPid \in Pid
         /\ nextPid' \in 0 .. MaxPid
         /\ nextPid \notin Created
         /\ Created' = Created \cup {nextPid}
BY MaxPidAssumption DEF IInv, TypeOK, Created, Pid

\* The object with pid nextPid appears; it may join the list of its main thread.
NewObject(row) ==
  /\ nextPid < MaxPid /\ nextPid' = nextPid + 1
  /\ row \in PCB /\ row.threads = {} /\ row.turn = {}
  /\ pcb' \in [Pid -> PCB] /\ pcb'[nextPid] = row
  /\ \A b \in Pid \ {nextPid} :
       /\ pcb'[b].main = pcb[b].main
       /\ pcb'[b].status = pcb[b].status
       /\ pcb'[b].threads \cup pcb'[b].turn \subseteq pcb[b].threads \cup pcb[b].turn \cup {nextPid}
       /\ pcb'[b].threads \subseteq pcb[b].threads \cup {nextPid}
       /\ nextPid \in pcb'[b].threads \cup pcb'[b].turn => row.main = b /\ nextPid \in live'
  /\ live \subseteq live' /\ live' \subseteq live \cup {nextPid} /\ procMap' = procMap
  /\ members' \in [Pid -> Int] /\ groups' \subseteq Pid
  /\ requests' \subseteq Pid /\ serving' \in [Pid -> Pid \cup {NO_PROCESS_ID}]
  /\ UNCHANGED <<list, pass, cur, fault>>

\* The creator p goes on at step s with argument x.
GoesOn(p, s, x, row) ==
  /\ cur = p /\ pc[p] = "user"
  /\ s \in Steps \ KillSteps /\ x \in Pid \cup {NO_PROCESS_ID}
  /\ pc' = [pc EXCEPT ![p] = s] /\ arg' = [arg EXCEPT ![p] = x]
  /\ s # "user" => x = nextPid
  /\ s \in CreateSteps => x = nextPid /\ x \in live' /\ row.main = x /\ row.status \notin Dead

LEMMA FreshStep ==
  ASSUME IInv, NEW p \in Pid, NEW row, NewObject(row), NEW s, NEW x, GoesOn(p, s, x, row)
  PROVE  IInv'
<1> USE DEF NewObject, GoesOn
<1> DEFINE c == nextPid
<1>1. c \in Pid /\ c \notin Created /\ Created' = Created \cup {c} /\ nextPid' \in 0 .. MaxPid
  BY NextPidFresh
<1> HIDE DEF c
<1>2. ASSUME NEW b \in Pid, b # c
      PROVE  /\ pcb'[b].main = pcb[b].main
             /\ pcb'[b].status = pcb[b].status
             /\ pcb'[b].threads \cup pcb'[b].turn \subseteq pcb[b].threads \cup pcb[b].turn \cup {c}
             /\ pcb'[b].threads \subseteq pcb[b].threads \cup {c}
             /\ c \in pcb'[b].threads \cup pcb'[b].turn => row.main = b /\ c \in live'
  BY <1>2 DEF c
<1>3. pcb'[c] = row /\ live' \subseteq live \cup {c}
  BY DEF c
<1>4. TypeOK'
  <2>1. pc' \in [Pid -> Steps] /\ arg' \in [Pid -> Pid \cup {NO_PROCESS_ID}]
    BY DEF IInv, TypeOK
  <2> QED BY <1>1, <2>1 DEF IInv, TypeOK, c
<1>5. ThreadsBelong'
  <2> SUFFICES ASSUME NEW b \in Pid, NEW t \in pcb'[b].threads \cup pcb'[b].turn
               PROVE  pcb'[t].main = b /\ t # b /\ t \in Created'
    BY DEF ThreadsBelong
  <2>1. b # c
    BY <1>3
  <2>2. CASE t = c
    BY <1>1, <1>2, <1>3, <2>1, <2>2
  <2>3. CASE t # c
    <3>1. t \in pcb[b].threads \cup pcb[b].turn
      BY <1>2, <2>1, <2>3
    <3>2. t \in Pid
      BY <3>1 DEF IInv, TypeOK, PCB
    <3>3. pcb[t].main = b /\ t # b /\ t \in Created
      BY <3>1 DEF IInv, ThreadsBelong
    <3> QED BY <1>1, <1>2, <2>3, <3>2, <3>3
  <2> QED BY <2>2, <2>3
<1>6. ListOfMains'
  <2>1. live' \cup procMap' \subseteq Created'
    BY <1>1, <1>3 DEF IInv, ListOfMains
  <2>2. ASSUME NEW b \in list' PROVE pcb'[b].main = b
    <3>1. b \in Pid /\ b # c /\ pcb[b].main = b
      BY <1>1 DEF IInv, ListOfMains, TypeOK
    <3> QED BY <1>2, <3>1
  <2> QED BY <2>1, <2>2 DEF IInv, ListOfMains
<1>7. p \in Created /\ p # c /\ p \notin pass /\ pcb[p].status \notin Dead
  BY <1>1 DEF IInv, CurrentAlive
<1>8. CurrentAlive'
  <2>1. pcb'[p].status \notin Dead
    BY <1>2, <1>7
  <2> QED BY <1>1, <1>7, <2>1 DEF CurrentAlive
<1>9. LiveThreads'
  <2> SUFFICES ASSUME NEW b \in Pid, pcb'[b].status \notin Dead, NEW t \in pcb'[b].threads
               PROVE  t \in live'
    BY DEF LiveThreads
  <2>1. b # c
    BY <1>3
  <2>2. CASE t = c
    BY <1>2, <2>1, <2>2
  <2>3. CASE t # c
    <3>1. pcb[b].status \notin Dead /\ t \in pcb[b].threads
      BY <1>2, <2>1, <2>3
    <3> QED BY <3>1 DEF IInv, LiveThreads
  <2> QED BY <2>2, <2>3
<1>10. ASSUME NEW q \in Pid
       PROVE  /\ q # p => pc'[q] = pc[q] /\ arg'[q] = arg[q]
              /\ Busy(q)' => (q = p /\ arg'[q] = c) \/ (q # p /\ Busy(q))
              /\ Killing(q)' => q # p /\ Killing(q)
              /\ Creating(q)' => \/ q = p /\ s \in CreateSteps /\ arg'[q] = c
                                 \/ q # p /\ Creating(q)
  <2>1. pc'[p] = s /\ arg'[p] = x /\ (q # p => pc'[q] = pc[q] /\ arg'[q] = arg[q])
    BY DEF IInv, TypeOK
  <2>2. s # "user" => x = c
    BY DEF c
  <2>3. s \in CreateSteps => s # "user"
    BY DEF CreateSteps
  <2>4. q # p => pc'[q] = pc[q] /\ arg'[q] = arg[q]
    BY <2>1
  <2>5. Busy(q)' => (q = p /\ arg'[q] = c) \/ (q # p /\ Busy(q))
    BY <2>1, <2>2 DEF Busy
  <2>6. Killing(q)' => q # p /\ Killing(q)
    BY <2>1 DEF Killing
  <2>7. Creating(q)' => \/ q = p /\ s \in CreateSteps /\ arg'[q] = c
                        \/ q # p /\ Creating(q)
    BY <2>1, <2>2, <2>3 DEF Creating
  <2> QED BY <2>4, <2>5, <2>6, <2>7
<1>11. ASSUME NEW q \in Pid, Busy(q)
       PROVE  arg[q] \in Created
  BY <1>11 DEF IInv, BusyArgs
<1>12. NewIsPrivate'
  <2> SUFFICES ASSUME NEW q \in Pid, Creating(q)'
               PROVE  /\ arg'[q] \in live' \ (list' \cup procMap' \cup {cur'})
                      /\ pcb'[arg'[q]].main = arg'[q]
                      /\ pcb'[arg'[q]].status \notin Dead
    BY DEF NewIsPrivate
  <2>1. CASE q = p
    <3>1. s \in CreateSteps /\ arg'[q] = c
      BY <1>10, <2>1
    <3>2. c \in live' /\ row.main = c /\ row.status \notin Dead
      BY <3>1 DEF c
    <3>3. c \notin list /\ c \notin procMap
      BY <1>1 DEF IInv, ListOfMains
    <3> QED BY <1>3, <1>7, <3>1, <3>2, <3>3
  <2>2. CASE q # p
    <3>1. Creating(q) /\ arg'[q] = arg[q]
      BY <1>10, <2>2
    <3>2. /\ arg[q] \in live \ (list \cup procMap \cup {cur})
          /\ pcb[arg[q]].main = arg[q]
          /\ pcb[arg[q]].status \notin Dead
      BY <3>1 DEF IInv, NewIsPrivate
    <3>3. arg[q] \in Pid /\ arg[q] # c
      BY <1>1, <1>11, <3>1, <3>2, StepKinds DEF IInv, TypeOK
    <3>4. pcb'[arg[q]].main = arg[q] /\ pcb'[arg[q]].status \notin Dead
      BY <1>2, <3>2, <3>3
    <3> QED BY <3>1, <3>2, <3>4
  <2> QED BY <2>1, <2>2
<1>13. ArgsDiffer'
  <2> SUFFICES ASSUME NEW q \in Pid, NEW r \in Pid, q # r, Creating(q)', Busy(r)'
               PROVE  arg'[q] # arg'[r]
    BY DEF ArgsDiffer
  <2>1. CASE q = p
    <3>1. arg'[q] = c /\ arg'[r] = arg[r] /\ Busy(r)
      BY <1>10, <2>1
    <3> QED BY <1>1, <1>11, <3>1
  <2>2. CASE r = p
    <3>1. arg'[r] = c /\ arg'[q] = arg[q] /\ Busy(q)
      BY <1>10, <2>2, StepKinds
    <3> QED BY <1>1, <1>11, <3>1
  <2>3. CASE q # p /\ r # p
    <3>1. arg'[q] = arg[q] /\ arg'[r] = arg[r] /\ Creating(q) /\ Busy(r)
      BY <1>10, <2>3
    <3> QED BY <3>1 DEF IInv, ArgsDiffer
  <2> QED BY <2>1, <2>2, <2>3
<1>13a. BusyArgs'
  BY <1>1, <1>10, <1>11 DEF BusyArgs
<1>14. KillTarget'
  <2> SUFFICES ASSUME NEW q \in Pid, Killing(q)'
               PROVE  /\ arg'[q] \in Created' \ {q}
                      /\ pc'[q] \in {"kill_threads", "kill_clear"} => pcb'[arg'[q]].status \in Dead
    BY DEF KillTarget
  <2>1. q # p /\ Killing(q) /\ arg'[q] = arg[q] /\ pc'[q] = pc[q]
    BY <1>10
  <2>2. /\ arg[q] \in Created \ {q}
        /\ pc[q] \in {"kill_threads", "kill_clear"} => pcb[arg[q]].status \in Dead
    BY <2>1 DEF IInv, KillTarget
  <2>3. arg[q] \in Pid /\ arg[q] # c
    BY <1>1, <2>2, CreatedPids DEF IInv
  <2>4. pcb'[arg[q]].status = pcb[arg[q]].status
    BY <1>2, <2>3
  <2> QED BY <1>1, <2>1, <2>2, <2>4
<1> QED BY <1>4, <1>5, <1>6, <1>8, <1>9, <1>12, <1>13, <1>13a, <1>14 DEF IInv

\* Steps of a creation or of Kill that leave the scheduler's rows and lists alone.
LEMMA LocalStep ==
  ASSUME IInv, NEW p \in Pid, cur = p, NEW s \in Steps, NEW x \in Pid \cup {NO_PROCESS_ID},
         pc' = [pc EXCEPT ![p] = s], arg' = [arg EXCEPT ![p] = x],
         pcb' \in [Pid -> PCB],
         \A b \in Pid : /\ pcb'[b].main = pcb[b].main
                        /\ pcb'[b].status = pcb[b].status
                        /\ pcb'[b].threads = pcb[b].threads
                        /\ pcb'[b].turn = pcb[b].turn,
         UNCHANGED <<live, members, groups, list, pass, cur, nextPid, fault>>,
         procMap \subseteq procMap', procMap' \subseteq Created,
         \A q \in Pid \ {p} : Creating(q) => arg[q] \notin procMap',
         requests' \subseteq Pid, serving' \in [Pid -> Pid \cup {NO_PROCESS_ID}],
         s \in CreateSteps => Creating(p) /\ x = arg[p] /\ procMap' = procMap,
         s \in KillSteps => s = "kill_mark" /\ x \in procMap \ {p},
         s \in CreateSteps \cup KillSteps \cup {"user"}
  PROVE  IInv'
<1>1. Created' = Created /\ Created \subseteq Pid
  BY CreatedPids DEF Created, IInv
<1>2. TypeOK'
  <2>1. pc' \in [Pid -> Steps] /\ arg' \in [Pid -> Pid \cup {NO_PROCESS_ID}]
    BY DEF IInv, TypeOK
  <2> QED BY <1>1, <2>1 DEF IInv, TypeOK
<1>3. ThreadsBelong'
  <2> SUFFICES ASSUME NEW b \in Pid, NEW t \in pcb'[b].threads \cup pcb'[b].turn
               PROVE  pcb'[t].main = b /\ t # b /\ t \in Created'
    BY DEF ThreadsBelong
  <2>1. pcb[t].main = b /\ t # b /\ t \in Created
    BY DEF IInv, ThreadsBelong
  <2> QED BY <1>1, <2>1
<1>4. ListOfMains'
  <2>1. ASSUME NEW b \in list' PROVE pcb'[b].main = b
    <3>1. b \in Pid /\ pcb[b].main = b
      BY DEF IInv, ListOfMains, TypeOK
    <3> QED BY <3>1
  <2> QED BY <1>1, <2>1 DEF IInv, ListOfMains
<1>5. CurrentAlive'
  BY <1>1 DEF IInv, CurrentAlive
<1>6. LiveThreads'
  BY DEF IInv, LiveThreads
<1>7. ASSUME NEW q \in Pid
      PROVE  /\ q # p => pc'[q] = pc[q] /\ arg'[q] = arg[q]
             /\ pc'[p] = s /\ arg'[p] = x
             /\ Creating(q)' => Creating(q) /\ arg'[q] = arg[q] /\ (q = p => procMap' = procMap)
             /\ Killing(q)' => \/ q = p /\ pc'[p] = "kill_mark" /\ arg'[p] \in procMap \ {p}
                               \/ q # p /\ Killing(q)
             /\ Busy(q)' => \/ q = p /\ ((Creating(p) /\ arg'[p] = arg[p]) \/ arg'[p] \in procMap \ {p})
                            \/ q # p /\ Busy(q)
  <2>1. pc'[p] = s /\ arg'[p] = x /\ (q # p => pc'[q] = pc[q] /\ arg'[q] = arg[q])
    BY DEF IInv, TypeOK
  <2> QED BY <2>1 DEF Creating, Killing, Busy
<1>8. NewIsPrivate'
  <2> SUFFICES ASSUME NEW q \in Pid, Creating(q)'
               PROVE  /\ arg'[q] \in live' \ (list' \cup procMap' \cup {cur'})
                      /\ pcb'[arg'[q]].main = arg'[q]
                      /\ pcb'[arg'[q]].status \notin Dead
    BY DEF NewIsPrivate
  <2>1. Creating(q) /\ arg'[q] = arg[q]
    BY <1>7
  <2>2. /\ arg[q] \in live \ (list \cup procMap \cup {cur})
        /\ pcb[arg[q]].main = arg[q]
        /\ pcb[arg[q]].status \notin Dead
    BY <2>1 DEF IInv, NewIsPrivate
  <2>3. arg[q] \notin procMap'
    BY <1>7, <2>1, <2>2
  <2>4. arg[q] \in Pid
    BY <2>2 DEF IInv, TypeOK
  <2> QED BY <2>1, <2>2, <2>3, <2>4
<1>9. ArgsDiffer'
  <2> SUFFICES ASSUME NEW q \in Pid, NEW r \in Pid, q # r, Creating(q)', Busy(r)'
               PROVE  arg'[q] # arg'[r]
    BY DEF ArgsDiffer
  <2>1. Creating(q) /\ arg'[q] = arg[q] /\ arg[q] \notin procMap
    BY <1>7 DEF IInv, NewIsPrivate
  <2>2. CASE r = p
    <3>1. CASE Creating(p) /\ arg'[p] = arg[p]
      BY <2>1, <2>2, <3>1, StepKinds DEF IInv, ArgsDiffer
    <3>2. CASE arg'[p] \in procMap
      BY <2>1, <2>2, <3>2
    <3> QED BY <1>7, <2>2, <3>1, <3>2
  <2>3. CASE r # p
    <3>1. Busy(r) /\ arg'[r] = arg[r]
      BY <1>7, <2>3
    <3> QED BY <2>1, <3>1 DEF IInv, ArgsDiffer
  <2> QED BY <2>2, <2>3
<1>9a. BusyArgs'
  <2> SUFFICES ASSUME NEW q \in Pid, Busy(q)' PROVE arg'[q] \in Created'
    BY DEF BusyArgs
  <2>1. CASE q = p
    <3>1. procMap \subseteq Created /\ (Creating(p) => arg[p] \in Created)
      BY StepKinds DEF IInv, ListOfMains, BusyArgs
    <3> QED BY <1>1, <1>7, <2>1, <3>1
  <2>2. CASE q # p
    BY <1>1, <1>7, <2>2 DEF IInv, BusyArgs
  <2> QED BY <2>1, <2>2
<1>10. KillTarget'
  <2> SUFFICES ASSUME NEW q \in Pid, Killing(q)'
               PROVE  /\ arg'[q] \in Created' \ {q}
                      /\ pc'[q] \in {"kill_threads", "kill_clear"} => pcb'[arg'[q]].status \in Dead
    BY DEF KillTarget
  <2>1. CASE q = p
    <3>1. pc'[q] = "kill_mark" /\ arg'[q] \in procMap \ {q}
      BY <1>7, <2>1 DEF Killing, KillSteps
    <3> QED BY <1>1, <3>1
  <2>2. CASE q # p
    <3>1. Killing(q) /\ arg'[q] = arg[q] /\ pc'[q] = pc[q]
      BY <1>7, <2>2
    <3>2. /\ arg[q] \in Created \ {q}
          /\ pc[q] \in {"kill_threads", "kill_clear"} => pcb[arg[q]].status \in Dead
      BY <3>1 DEF IInv, KillTarget
    <3> QED BY <1>1, <3>1, <3>2
  <2> QED BY <2>1, <2>2
<1> QED BY <1>2, <1>3, <1>4, <1>5, <1>6, <1>8, <1>9, <1>9a, <1>10 DEF IInv

LEMMA LinkToParentStep == ASSUME IInv, NEW p \in Pid, LinkToParent(p) PROVE IInv'
<1> DEFINE c == arg[p]
           par == pcb[c].parent
<1>1. Creating(p) /\ cur = p
  BY DEF LinkToParent, Running, Creating, CreateSteps
<1>2. c \in Pid /\ c \in live
  BY <1>1 DEF IInv, NewIsPrivate, TypeOK
<1>3. /\ pcb' = IF par \in procMap THEN [pcb EXCEPT ![par].children = @ \cup {c}] ELSE pcb
      /\ pc' = [pc EXCEPT ![p] = "create_publish"] /\ arg' = [arg EXCEPT ![p] = c]
      /\ UNCHANGED <<live, procMap, members, groups, list, pass, cur, nextPid, requests, serving, fault>>
  BY DEF LinkToParent, Goto
<1>4. pcb \in [Pid -> PCB] /\ procMap \subseteq Pid
  BY DEF IInv, TypeOK
<1>5. pcb' \in [Pid -> PCB]
  <2>1. CASE par \in procMap
    <3>1. pcb[par] \in PCB
      BY <1>4, <2>1
    <3>2. [pcb[par] EXCEPT !.children = @ \cup {c}] \in PCB
      BY <1>2, <3>1 DEF PCB
    <3>3. pcb' = [pcb EXCEPT ![par] = [pcb[par] EXCEPT !.children = @ \cup {c}]]
      BY <1>3, <2>1
    <3> HIDE DEF c, par
    <3> QED BY ZenonT(40), <1>4, <3>2, <3>3
  <2>2. CASE par \notin procMap
    BY <1>3, <1>4, <2>2
  <2> QED BY <2>1, <2>2
<1>6. ASSUME NEW b \in Pid
      PROVE  /\ pcb'[b].main = pcb[b].main
             /\ pcb'[b].status = pcb[b].status
             /\ pcb'[b].threads = pcb[b].threads
             /\ pcb'[b].turn = pcb[b].turn
  <2>1. pcb[b] \in PCB
    BY <1>4
  <2> QED BY <1>3, <1>4, <2>1 DEF PCB
<1>7. procMap \subseteq Created /\ \A q \in Pid : Creating(q) => arg[q] \notin procMap
  BY DEF IInv, ListOfMains, NewIsPrivate
<1>8. "create_publish" \in Steps /\ "create_publish" \in CreateSteps /\ "create_publish" \notin KillSteps
  BY DEF Steps, CreateSteps, KillSteps
<1>9. /\ UNCHANGED <<live, members, groups, list, pass, cur, nextPid, fault>>
      /\ procMap' = procMap /\ requests' \subseteq Pid /\ serving' \in [Pid -> Pid \cup {NO_PROCESS_ID}]
  BY <1>3 DEF IInv, TypeOK
<1> HIDE DEF par
<1> QED BY <1>1, <1>2, <1>3, <1>5, <1>6, <1>7, <1>8, <1>9, LocalStep

LEMMA KillBegins == ASSUME IInv, NEW p \in Pid, NEW q \in Pid, Kill(p, q) PROVE IInv'
<1>1. /\ cur = p /\ q \in procMap \ {p}
      /\ pc' = [pc EXCEPT ![p] = "kill_mark"] /\ arg' = [arg EXCEPT ![p] = q]
      /\ UNCHANGED <<pcb, live, procMap, members, groups, list, pass, cur, nextPid, requests, serving, fault>>
  BY DEF Kill, InUserCode, Running, Goto, table
<1>2. procMap \subseteq Created /\ \A r \in Pid : Creating(r) => arg[r] \notin procMap
  BY DEF IInv, ListOfMains, NewIsPrivate
<1>3. "kill_mark" \in Steps /\ "kill_mark" \in KillSteps /\ "kill_mark" \notin CreateSteps
  BY DEF Steps, CreateSteps, KillSteps
<1>4. pcb' \in [Pid -> PCB] /\ requests' \subseteq Pid /\ serving' \in [Pid -> Pid \cup {NO_PROCESS_ID}]
  BY <1>1 DEF IInv, TypeOK
<1> QED BY <1>1, <1>2, <1>3, <1>4, LocalStep

LEMMA AddToProcessMapStep == ASSUME IInv, NEW p \in Pid, AddToProcessMap(p) PROVE IInv'
<1>1. CASE arg[p] \notin live
  <2>1. Undefined
    BY <1>1 DEF AddToProcessMap
  <2> QED BY <2>1, UndefinedStep
<1>2. CASE arg[p] \in live
  <2>1. /\ cur = p /\ pc[p] = "thread_publish"
        /\ procMap \subseteq procMap' /\ procMap' \subseteq procMap \cup {arg[p]}
        /\ pc' = [pc EXCEPT ![p] = "user"] /\ arg' = [arg EXCEPT ![p] = NO_PROCESS_ID]
        /\ UNCHANGED <<pcb, live, members, groups, list, pass, cur, nextPid, fault, requests>>
        /\ serving' = [serving EXCEPT ![p] = NO_PROCESS_ID]
    BY <1>2 DEF AddToProcessMap, Running, Goto, Answer
  <2>2. procMap \cup {arg[p]} \subseteq Created
    BY <1>2 DEF IInv, ListOfMains
  <2>3. "user" \in Steps /\ "user" \notin CreateSteps /\ "user" \notin KillSteps
    BY DEF Steps, CreateSteps, KillSteps
  <2>4. pcb' \in [Pid -> PCB] /\ requests' \subseteq Pid /\ serving' \in [Pid -> Pid \cup {NO_PROCESS_ID}]
    BY <2>1 DEF IInv, TypeOK
  <2>5. ASSUME NEW q \in Pid \ {p}, Creating(q) PROVE arg[q] \notin procMap'
    <3>1. arg[q] # arg[p] /\ arg[q] \notin procMap
      BY <2>1, <2>5 DEF IInv, ArgsDiffer, Busy, NewIsPrivate
    <3> QED BY <2>1, <3>1
  <2> QED BY <2>1, <2>2, <2>3, <2>4, <2>5, LocalStep
<1> QED BY <1>1, <1>2

-----------------------------------------------------------------------------
(* Steps that end a turn *)

LEMMA RowFrame ==
  ASSUME NEW W \in WorldType, NEW p \in Pid, NEW row \in PCB,
         row.main = W.pcb[p].main, row.threads = W.pcb[p].threads, row.turn = W.pcb[p].turn,
         row.status \notin Dead, W.pcb[p].status \notin Dead
  PROVE  Frame(W, [W EXCEPT !.pcb[p] = row], {}, {})
<1> DEFINE V == [W EXCEPT !.pcb[p] = row]
<1>1. V \in WorldType
  BY UpdateType
<1>2. V.live = W.live /\ V.map = W.map /\ V.pcb = [W.pcb EXCEPT ![p] = row]
  BY DEF WorldType
<1>3. ASSUME NEW q \in Pid
      PROVE  /\ V.pcb[q].main = W.pcb[q].main
             /\ V.pcb[q].threads = W.pcb[q].threads
             /\ V.pcb[q].turn = W.pcb[q].turn
             /\ W.pcb[q].status \in Dead => V.pcb[q].status \in Dead
             /\ W.pcb[q].status \notin Dead => V.pcb[q].status \notin Dead
  <2>1. V.pcb[q] = IF q = p THEN row ELSE W.pcb[q]
    BY <1>2 DEF WorldType
  <2> QED BY <2>1
<1> HIDE DEF V
<1>4. Frame(W, V, {}, {})
  BY <1>1, <1>2, <1>3 DEF Frame
<1> QED BY <1>4 DEF V

\* The running process leaves the CPU, alive or destroyed, with the table W.
LEMMA SwitchBackStep ==
  ASSUME IInv, cur \in Pid, NEW W, NEW destroy \in BOOLEAN,
         Frame(World, W, {cur}, {}), SwitchBack(W, destroy)
  PROVE  IInv'
<1> DEFINE D == {cur}
<1>1. CASE Undefined
  BY <1>1, UndefinedStep
<1>2. CASE ~Undefined
  <2> DEFINE ths == W.pcb[cur].threads
             U == IF destroy THEN Destroy(W, cur) ELSE W
             E == IF destroy THEN D \cup ({cur} \cup ths) ELSE D
             L == IF destroy THEN ths ELSE {}
  <2>1. EndOfTurn(U, cur) /\ UNCHANGED <<pass, nextPid, calls, fault>>
    BY <1>2 DEF SwitchBack
  <2>2. World \in WorldType /\ W \in WorldType /\ World.pcb = pcb
    BY WorldHasType DEF IInv, Frame, World
  <2>3. \A q \in Pid : W.pcb[q].threads \subseteq pcb[q].threads
    BY <2>2 DEF Frame
  <2>4. Frame(World, U, E, L)
    <3>1. CASE destroy
      <4>1. Frame(W, Destroy(W, cur), {cur} \cup ths, ths)
        BY <2>2, DestroyFrame
      <4>2. Frame(World, Destroy(W, cur), D \cup ({cur} \cup ths), {} \cup ths)
        BY <2>2, <4>1, FrameTrans
      <4>3. {} \cup ths = ths
        OBVIOUS
      <4> QED BY <3>1, <4>2, <4>3
    <3>2. CASE ~destroy
      BY <3>2
    <3> QED BY <3>1, <3>2
  <2>5. destroy => U.pcb[cur].status \in Dead
    BY <2>2, DestroyFrame
  <2>6. ASSUME NEW q \in Pid
        PROVE  U.pcb[q].threads \subseteq pcb[q].threads
    BY <2>2, <2>4 DEF Frame
  <2>7. L \subseteq pcb[cur].threads /\ E \subseteq {cur} \cup pcb[cur].threads
    BY <2>3
  <2>8. L \cap list = {}
    BY <2>7, ThreadsApart
  <2>9. ASSUME NEW q \in Pid, U.pcb[q].status \notin Dead
        PROVE  U.pcb[q].threads \cap L = {}
    <3>1. CASE destroy
      <4>1. q # cur
        BY <2>5, <2>9, <3>1
      <4>2. pcb[q].threads \cap pcb[cur].threads = {}
        BY <4>1, ThreadsApart
      <4> QED BY <2>6, <2>7, <4>2
    <3>2. CASE ~destroy
      BY <3>2
    <3> QED BY <3>1, <3>2
  <2>10. ASSUME NEW q \in Pid, Creating(q)
         PROVE  arg[q] \notin E \cup L \cup {cur}
    <3>1. arg[q] \notin pcb[cur].threads /\ arg[q] # cur
      BY <2>10, CreatedApart
    <3> QED BY <2>7, <3>1
  <2> HIDE DEF U, E, L
  <2>11. pass' \subseteq list /\ cur \notin pass' /\ nextPid' = nextPid
    BY <2>1 DEF IInv, ListOfMains, CurrentAlive
  <2>12. UNCHANGED <<nextPid, pc, arg, serving>> /\ requests' \subseteq Pid /\ fault' \in BOOLEAN
    BY <2>1 DEF calls, IInv, TypeOK
  <2> QED BY <2>1, <2>4, <2>8, <2>9, <2>10, <2>11, <2>12, EndOfTurnStep
<1> QED BY <1>1, <1>2

LEMMA PreemptStep == IInv /\ Preempt => IInv'
<1> SUFFICES ASSUME IInv, Preempt PROVE IInv'
  OBVIOUS
<1>1. cur \in Pid /\ SwitchBack(World, FALSE)
  BY DEF Preempt
<1>2. Frame(World, World, {cur}, {})
  BY WorldHasType DEF Frame, IInv
<1> QED BY <1>1, <1>2, SwitchBackStep

LEMMA ExitStep == ASSUME IInv, NEW p \in Pid, Exit(p) PROVE IInv'
<1>1. cur \in Pid /\ SwitchBack(World, TRUE)
  BY DEF Exit, InUserCode, Running
<1>2. Frame(World, World, {cur}, {})
  BY WorldHasType DEF Frame, IInv
<1> QED BY <1>1, <1>2, SwitchBackStep

LEMMA KillSelfStep == ASSUME IInv, NEW p \in Pid, KillSelf(p) PROVE IInv'
<1>1. cur = p /\ SwitchBack(SetStatus(World, p, "TERMINATED"), TRUE)
  BY DEF KillSelf, InUserCode, Running
<1>2. Frame(World, SetStatus(World, p, "TERMINATED"), {p}, {})
  BY WorldHasType, StatusFacts, SetStatusFrame DEF IInv
<1> QED BY <1>1, <1>2, SwitchBackStep

LEMMA BlockStep ==
  ASSUME IInv, NEW p \in Pid, cur = p, NEW row \in PCB, Block(p, row),
         row.main = pcb[p].main, row.threads = pcb[p].threads, row.turn = pcb[p].turn,
         row.status \notin Dead
  PROVE  IInv'
<1>1. CASE p \in procMap
  <2>1. SwitchBack([World EXCEPT !.pcb[p] = row], FALSE)
    BY <1>1 DEF Block
  <2>2. pcb[p].status \notin Dead
    BY DEF IInv, CurrentAlive
  <2>3. World \in WorldType /\ World.pcb = pcb
    BY WorldHasType DEF IInv, World
  <2>4. Frame(World, [World EXCEPT !.pcb[p] = row], {}, {})
    BY <2>2, <2>3, RowFrame
  <2>5. Frame(World, [World EXCEPT !.pcb[p] = row], {cur}, {})
    BY <2>4 DEF Frame
  <2> QED BY <2>1, <2>5, SwitchBackStep
<1>2. CASE p \notin procMap
  BY <1>2, UndefinedStep DEF Block
<1> QED BY <1>1, <1>2

LEMMA WaitStep == ASSUME IInv, NEW p \in Pid, Wait(p) PROVE IInv'
<1> DEFINE row == [pcb[p] EXCEPT !.status = "WAIT"]
<1>1. cur = p /\ Block(p, row)
  BY DEF Wait, InUserCode, Running
<1>2. pcb[p] \in PCB /\ "WAIT" \in Status /\ "WAIT" \notin Dead
  BY StatusFacts DEF IInv, TypeOK
<1>3. /\ row \in PCB
      /\ row.main = pcb[p].main /\ row.threads = pcb[p].threads /\ row.turn = pcb[p].turn
      /\ row.status = "WAIT"
  BY <1>2 DEF PCB
<1> HIDE DEF row
<1> QED BY <1>1, <1>2, <1>3, BlockStep

LEMMA WaitOnChildStep ==
  ASSUME IInv, NEW p \in Pid, NEW c \in Pid, WaitOnChild(p, c) PROVE IInv'
<1> DEFINE row == [pcb[p] EXCEPT !.waitChild = c, !.status = "WAIT_CHILD"]
<1>1. cur = p /\ Block(p, row)
  BY DEF WaitOnChild, InUserCode, Running
<1>2. pcb[p] \in PCB /\ "WAIT_CHILD" \in Status /\ "WAIT_CHILD" \notin Dead
  BY StatusFacts DEF IInv, TypeOK
<1>3. /\ row \in PCB
      /\ row.main = pcb[p].main /\ row.threads = pcb[p].threads /\ row.turn = pcb[p].turn
      /\ row.status = "WAIT_CHILD"
  BY <1>2 DEF PCB
<1> HIDE DEF row
<1> QED BY <1>1, <1>2, <1>3, BlockStep

LEMMA RequestKernelServiceStep ==
  ASSUME IInv, NEW p \in Pid, RequestKernelService(p) PROVE IInv'
<1> DEFINE W == SetStatus(World, p, "WAIT_KERNEL_SERVICE")
<1>1. CASE p \notin procMap \cap live
  BY <1>1, UndefinedStep DEF RequestKernelService
<1>2. CASE p \in procMap \cap live
  <2>1. /\ cur = p /\ EndOfTurn(W, p)
        /\ requests' = requests \cup {p}
        /\ UNCHANGED <<pass, nextPid, pc, arg, serving, fault>>
    BY <1>2 DEF RequestKernelService, InUserCode, Running
  <2>2. World \in WorldType /\ World.pcb = pcb
    BY WorldHasType DEF IInv, World
  <2>3. pcb[p].status \notin Dead /\ p \notin pass
    BY <2>1 DEF IInv, CurrentAlive
  <2>4. Frame(World, W, {}, {})
    BY <2>2, <2>3, StatusFacts, SetStatusFrame
  <2>5. requests' \subseteq Pid /\ pass' \subseteq list /\ p \notin pass' /\ fault' \in BOOLEAN
    BY <2>1, <2>3 DEF IInv, TypeOK, ListOfMains
  <2>6. \A q \in Pid : Creating(q) => arg[q] \notin {} \cup {} \cup {p}
    BY <2>1, CreatedApart
  <2>7. \A q \in Pid : W.pcb[q].threads \cap {} = {}
    OBVIOUS
  <2>8. {} \cap list = {}
    OBVIOUS
  <2> HIDE DEF W
  <2> QED BY <2>1, <2>4, <2>5, <2>6, <2>7, <2>8, EndOfTurnStep
<1> QED BY <1>1, <1>2

-----------------------------------------------------------------------------
(* Steps of the scheduler *)

LEMMA PickedProcess ==
  ASSUME IInv, NEW b \in Pid, b \in Pass, NEW r \in ForSchedule(b)
  PROVE  /\ b \in list /\ Pass \ {b} \subseteq list
         /\ r.p \in Created /\ r.p \notin Pass \ {b}
         /\ r.gone \subseteq pcb[b].threads /\ r.gone \cap list = {}
         /\ \A q \in Pid : Creating(q) => arg[q] \notin r.gone \cup {r.p}
<1>1. b \in list /\ Pass \subseteq list
  BY DEF Pass, IInv, ListOfMains
<1>2. /\ r.p \in {b} \cup pcb[b].threads \cup pcb[b].turn
      /\ r.gone \subseteq pcb[b].threads
  BY ForScheduleResult DEF IInv
<1>3. \A t \in pcb[b].threads \cup pcb[b].turn : pcb[t].main = b /\ t # b /\ t \in Created
  BY DEF IInv, ThreadsBelong
<1>4. b \in Created /\ \A m \in list : pcb[m].main = m
  BY <1>1 DEF IInv, ListOfMains
<1>5. r.p \in Created /\ r.p \notin Pass \ {b}
  BY <1>1, <1>2, <1>3, <1>4
<1>6. r.gone \cap list = {}
  BY <1>2, ThreadsApart
<1>7. \A q \in Pid : Creating(q) => arg[q] \notin r.gone \cup {r.p}
  BY <1>1, <1>2, CreatedApart
<1> QED BY <1>1, <1>2, <1>5, <1>6, <1>7

\* Once forSchedule has deleted threads of b, no process that is alive lists them.
LEMMA GoneFromLists ==
  ASSUME IInv, NEW b \in Pid, NEW r \in ForSchedule(b), NEW V,
         Frame(AfterForSchedule(b, r), V, {}, {}), NEW q \in Pid
  PROVE  V.pcb[q].threads \cap r.gone = {}
<1> DEFINE W == AfterForSchedule(b, r)
<1>1. Frame(World, W, {}, r.gone) /\ W.pcb[b].threads = pcb[b].threads \ r.gone
  BY AfterForScheduleFrame DEF IInv
<1> HIDE DEF W
<1>2. World.pcb = pcb
  BY DEF World
<1>3. V.pcb[q].threads \subseteq W.pcb[q].threads
  BY DEF Frame, W
<1>4. W.pcb[q].threads \subseteq pcb[q].threads
  BY <1>1, <1>2 DEF Frame
<1>5. r.gone \subseteq pcb[b].threads
  BY ForScheduleResult DEF IInv
<1>6. CASE q = b
  BY <1>1, <1>3, <1>6
<1>7. CASE q # b
  <2>1. pcb[q].threads \cap pcb[b].threads = {}
    BY <1>7, ThreadsApart
  <2> QED BY <1>3, <1>4, <1>5, <2>1
<1> QED BY <1>6, <1>7

LEMMA SkipStep == ASSUME IInv, NEW b \in Pid, Skip(b) PROVE IInv'
<1>1. PICK r \in ForSchedule(b) : EndOfTurn(Skipped(AfterForSchedule(b, r), r.p), r.p)
  BY DEF Skip
<1> DEFINE W == AfterForSchedule(b, r)
           V == Skipped(W, r.p)
<1>2. b \in Pass /\ pass' = Pass \ {b} /\ UNCHANGED <<nextPid, calls, fault>>
  BY DEF Skip
<1>3. r.p \in Pid /\ World \in WorldType
  BY ForScheduleResult, WorldHasType DEF IInv
<1>4. W \in WorldType /\ Frame(World, W, {}, r.gone)
  BY AfterForScheduleFrame DEF IInv, Frame
<1>5. Frame(W, V, {}, {})
  BY <1>3, <1>4, SkippedFrame
<1>6. \A q \in Pid : V.pcb[q].threads \cap r.gone = {}
  BY <1>5, GoneFromLists
<1> HIDE DEF W, V
<1>7. Frame(World, V, {}, r.gone)
  <2>1. Frame(World, V, {} \cup {}, r.gone \cup {})
    BY <1>3, <1>4, <1>5, FrameTrans
  <2>2. {} \cup {} = {} /\ r.gone \cup {} = r.gone
    OBVIOUS
  <2> QED BY <2>1, <2>2
<1>8. /\ pass' \subseteq list /\ r.p \notin pass'
      /\ r.gone \cap list = {}
      /\ \A q \in Pid : Creating(q) => arg[q] \notin {} \cup r.gone \cup {r.p}
  BY <1>2, PickedProcess
<1>9. UNCHANGED <<nextPid, pc, arg, serving>> /\ requests' \subseteq Pid /\ fault' \in BOOLEAN
  BY <1>2 DEF calls, IInv, TypeOK
<1>10. EndOfTurn(V, r.p)
  BY <1>1 DEF V, W
<1> QED BY <1>3, <1>6, <1>7, <1>8, <1>9, <1>10, EndOfTurnStep

LEMMA DispatchStep == ASSUME IInv, NEW b \in Pid, Dispatch(b) PROVE IInv'
<1>1. PICK r \in ForSchedule(b) : \E V \in Runnable(AfterForSchedule(b, r), r.p) :
                                    Becomes(V) /\ cur' = r.p
  BY DEF Dispatch
<1> DEFINE W == AfterForSchedule(b, r)
<1>2. PICK V \in Runnable(W, r.p) : Becomes(V) /\ cur' = r.p
  BY <1>1
<1>3. b \in Pass /\ pass' = Pass \ {b} /\ UNCHANGED <<list, nextPid, calls, fault>>
  BY DEF Dispatch
<1>4. r.p \in Pid /\ World \in WorldType
  BY ForScheduleResult, WorldHasType DEF IInv
<1>5. W \in WorldType /\ Frame(World, W, {}, r.gone)
  BY AfterForScheduleFrame DEF IInv, Frame
<1>6. Frame(W, V, {}, {}) /\ V.pcb[r.p].status \notin Dead
  BY <1>2, <1>4, <1>5, RunnableFrame
<1>7. \A q \in Pid : V.pcb[q].status \notin Dead => V.pcb[q].threads \cap r.gone = {}
  BY <1>6, GoneFromLists
<1> HIDE DEF W
<1>8. Frame(World, V, {}, r.gone)
  <2>1. Frame(World, V, {} \cup {}, r.gone \cup {})
    BY <1>4, <1>5, <1>6, FrameTrans
  <2>2. {} \cup {} = {} /\ r.gone \cup {} = r.gone
    OBVIOUS
  <2> QED BY <2>1, <2>2
<1>9. /\ b \in list /\ pass' \subseteq list /\ r.p \in Created /\ r.p \notin pass'
      /\ r.gone \cap list = {}
      /\ \A q \in Pid : Creating(q) => arg[q] \notin r.gone \cup {r.p}
  BY <1>3, PickedProcess
<1>10. nextPid' = nextPid /\ Created' = Created
  BY <1>3 DEF Created
<1>11. /\ ThreadsBelong'
       /\ LiveThreads'
       /\ live' \subseteq live /\ live \ r.gone \subseteq live' /\ procMap' \subseteq procMap
       /\ live' \cup procMap' \subseteq Created'
       /\ \A q \in Pid :
            /\ pcb'[q].main = pcb[q].main
            /\ pcb[q].status \in Dead => pcb'[q].status \in Dead
            /\ pcb[q].status \notin Dead /\ q \notin {} => pcb'[q].status \notin Dead
       /\ pcb' \in [Pid -> PCB] /\ live' \subseteq Pid /\ procMap' \subseteq Pid
       /\ members' \in [Pid -> Int] /\ groups' \subseteq Pid
  BY <1>2, <1>7, <1>8, <1>10, TableStep
<1>12. ASSUME NEW q \in Pid
       PROVE  /\ pcb'[q].main = pcb[q].main
              /\ pcb[q].status \in Dead => pcb'[q].status \in Dead
              /\ pcb[q].status \notin Dead => pcb'[q].status \notin Dead
  BY <1>11
<1>13. cur' = r.p /\ UNCHANGED <<pc, arg, requests, serving>> /\ pcb' = V.pcb
  BY <1>2, <1>3 DEF calls, Becomes
<1>14. TypeOK'
  BY <1>3, <1>4, <1>9, <1>11, <1>13 DEF IInv, TypeOK
<1>15. ListOfMains'
  <2>1. list' \subseteq live'
    BY <1>3, <1>9, <1>11 DEF IInv, ListOfMains
  <2>2. ASSUME NEW m \in list' PROVE pcb'[m].main = m
    <3>1. m \in Pid /\ pcb[m].main = m
      BY <1>3 DEF IInv, ListOfMains, TypeOK
    <3> QED BY <1>12, <3>1
  <2> QED BY <1>3, <1>9, <1>11, <2>1, <2>2 DEF ListOfMains
<1>16. CurrentAlive'
  BY <1>6, <1>9, <1>10, <1>13 DEF CurrentAlive
<1>17. NewIsPrivate'
  <2> SUFFICES ASSUME NEW q \in Pid, Creating(q)
               PROVE  /\ arg[q] \in live' \ (list' \cup procMap' \cup {cur'})
                      /\ pcb'[arg[q]].main = arg[q]
                      /\ pcb'[arg[q]].status \notin Dead
    BY <1>13 DEF NewIsPrivate, Creating
  <2>1. /\ arg[q] \in live \ (list \cup procMap \cup {cur})
        /\ pcb[arg[q]].main = arg[q]
        /\ pcb[arg[q]].status \notin Dead
    BY DEF IInv, NewIsPrivate
  <2>2. arg[q] \in Pid
    BY <2>1 DEF IInv, TypeOK
  <2>3. arg[q] # cur' /\ arg[q] \notin r.gone
    BY <1>9, <1>13
  <2>4. pcb'[arg[q]].main = arg[q] /\ pcb'[arg[q]].status \notin Dead
    BY <1>12, <2>1, <2>2
  <2> QED BY <1>3, <1>11, <2>1, <2>3, <2>4
<1>18. ArgsDiffer' /\ BusyArgs'
  BY <1>10, <1>13 DEF IInv, ArgsDiffer, BusyArgs, Creating, Busy
<1>19. KillTarget'
  <2> SUFFICES ASSUME NEW q \in Pid, Killing(q)
               PROVE  /\ arg[q] \in Created \ {q}
                      /\ pc[q] \in {"kill_threads", "kill_clear"} => pcb'[arg[q]].status \in Dead
    BY <1>10, <1>13 DEF KillTarget, Killing
  <2>1. /\ arg[q] \in Created \ {q}
        /\ pc[q] \in {"kill_threads", "kill_clear"} => pcb[arg[q]].status \in Dead
    BY DEF IInv, KillTarget
  <2>2. arg[q] \in Pid
    BY <2>1, CreatedPids DEF IInv
  <2>3. pcb[arg[q]].status \in Dead => pcb'[arg[q]].status \in Dead
    BY <1>12, <2>2
  <2> QED BY <2>1, <2>3
<1> QED BY <1>11, <1>14, <1>15, <1>16, <1>17, <1>18, <1>19 DEF IInv

-----------------------------------------------------------------------------
(* Steps of Kill *)

LEMMA KillTargetFacts ==
  ASSUME IInv, NEW p \in Pid, Killing(p)
  PROVE  arg[p] \in Pid /\ arg[p] # p /\ World \in WorldType /\ World.pcb = pcb
BY CreatedPids, WorldHasType DEF IInv, KillTarget, World

LEMMA KillMarkStep == ASSUME IInv, NEW p \in Pid, KillMark(p) PROVE IInv'
<1> DEFINE W == SetStatus(World, arg[p], "TERMINATED")
<1>1. CASE Undefined
  BY <1>1, UndefinedStep
<1>2. CASE ~Undefined
  <2>1. /\ cur = p /\ pc[p] = "kill_mark" /\ Becomes(W)
        /\ Goto(p, "kill_threads", IF "kill_threads" = "user" THEN NO_PROCESS_ID ELSE arg[p])
        /\ UNCHANGED <<list, pass, cur, nextPid, requests, serving, fault>>
    BY <1>2 DEF KillMark, KillStep, Running
  <2>2. Killing(p) /\ "kill_threads" \in KillSteps \cup {"user"}
    BY <2>1 DEF Killing, KillSteps
  <2>3. arg[p] \in Pid /\ arg[p] # p /\ World \in WorldType
    BY <2>2, KillTargetFacts
  <2>4. Frame(World, W, {arg[p]}, {}) /\ W.pcb[arg[p]].status \in Dead
    <3>1. "TERMINATED" \in Dead /\ "TERMINATED" \in Status
      BY StatusFacts
    <3> QED BY <2>3, <3>1, SetStatusFrame, SetStatusRows
  <2>5. /\ {arg[p]} \subseteq {arg[p]} \cup pcb[arg[p]].threads /\ p \notin {arg[p]}
        /\ {} \subseteq pcb[arg[p]].threads
        /\ \A q \in Pid : W.pcb[q].status \notin Dead => W.pcb[q].threads \cap {} = {}
    BY <2>3
  <2> HIDE DEF W
  <2> QED BY <2>1, <2>2, <2>4, <2>5, KillStepStep
<1> QED BY <1>1, <1>2

LEMMA KillThreadsStep == ASSUME IInv, NEW p \in Pid, KillThreads(p) PROVE IInv'
<1> DEFINE W == DeleteThreads(World, arg[p])
           L == pcb[arg[p]].threads
<1>1. CASE Undefined
  BY <1>1, UndefinedStep
<1>2. CASE ~Undefined
  <2>1. /\ cur = p /\ pc[p] = "kill_threads" /\ Becomes(W) /\ p \notin L
        /\ Goto(p, "kill_clear", IF "kill_clear" = "user" THEN NO_PROCESS_ID ELSE arg[p])
        /\ UNCHANGED <<list, pass, cur, nextPid, requests, serving, fault>>
    BY <1>2 DEF KillThreads, KillStep, Running
  <2>2. Killing(p) /\ "kill_clear" \in KillSteps \cup {"user"}
    BY <2>1 DEF Killing, KillSteps
  <2>3. arg[p] \in Pid /\ World \in WorldType /\ World.pcb = pcb
    BY <2>2, KillTargetFacts
  <2>4. Frame(World, W, L, L)
    BY <2>3, DeleteThreadsFrame
  <2>5. W.pcb[arg[p]].status \in Dead
    <3>1. pcb[arg[p]].status \in Dead
      BY <2>1, <2>2 DEF IInv, KillTarget
    <3> QED BY <2>3, <2>4, <3>1 DEF Frame
  <2>6. ASSUME NEW q \in Pid, W.pcb[q].status \notin Dead
        PROVE  W.pcb[q].threads \cap L = {}
    <3>1. q # arg[p]
      BY <2>5, <2>6
    <3>2. pcb[q].threads \cap L = {}
      BY <2>3, <3>1, ThreadsApart
    <3>3. W.pcb[q].threads \subseteq pcb[q].threads
      BY <2>3, <2>4 DEF Frame
    <3> QED BY <3>2, <3>3
  <2> HIDE DEF W
  <2> QED BY <2>1, <2>2, <2>4, <2>5, <2>6, KillStepStep
<1> QED BY <1>1, <1>2

LEMMA KillClearStep == ASSUME IInv, NEW p \in Pid, KillClear(p) PROVE IInv'
<1> DEFINE W == ClearThreads(World, arg[p])
<1>1. CASE Undefined
  BY <1>1, UndefinedStep
<1>2. CASE ~Undefined
  <2>1. /\ cur = p /\ pc[p] = "kill_clear" /\ Becomes(W)
        /\ Goto(p, "kill_children", IF "kill_children" = "user" THEN NO_PROCESS_ID ELSE arg[p])
        /\ UNCHANGED <<list, pass, cur, nextPid, requests, serving, fault>>
    BY <1>2 DEF KillClear, KillStep, Running
  <2>2. /\ Killing(p) /\ "kill_children" \in KillSteps \cup {"user"}
        /\ "kill_children" \notin {"kill_threads", "kill_clear"}
    BY <2>1 DEF Killing, KillSteps
  <2>3. arg[p] \in Pid /\ World \in WorldType
    BY <2>2, KillTargetFacts
  <2>4. Frame(World, W, {}, {})
    BY <2>3, ClearThreadsFrame
  <2>5. Frame(World, W, {arg[p]}, {})
    BY <2>4 DEF Frame
  <2>6. /\ {arg[p]} \subseteq {arg[p]} \cup pcb[arg[p]].threads /\ p \notin {arg[p]}
        /\ {} \subseteq pcb[arg[p]].threads
        /\ \A q \in Pid : W.pcb[q].status \notin Dead => W.pcb[q].threads \cap {} = {}
    BY <2>2, KillTargetFacts
  <2> HIDE DEF W
  <2> QED BY <2>1, <2>2, <2>5, <2>6, KillStepStep
<1> QED BY <1>1, <1>2

LEMMA KillChildrenStep == ASSUME IInv, NEW p \in Pid, KillChildren(p) PROVE IInv'
<1> DEFINE W == RedirectChildren(World, arg[p])
<1>1. CASE Undefined
  BY <1>1, UndefinedStep
<1>2. CASE ~Undefined
  <2>1. /\ cur = p /\ pc[p] = "kill_children" /\ Becomes(W)
        /\ Goto(p, "kill_free", IF "kill_free" = "user" THEN NO_PROCESS_ID ELSE arg[p])
        /\ UNCHANGED <<list, pass, cur, nextPid, requests, serving, fault>>
    BY <1>2 DEF KillChildren, KillStep, Running
  <2>2. /\ Killing(p) /\ "kill_free" \in KillSteps \cup {"user"}
        /\ "kill_free" \notin {"kill_threads", "kill_clear"}
    BY <2>1 DEF Killing, KillSteps
  <2>3. arg[p] \in Pid /\ World \in WorldType
    BY <2>2, KillTargetFacts
  <2>4. Frame(World, W, {}, {})
    BY <2>3, RedirectChildrenFrame
  <2>5. Frame(World, W, {arg[p]}, {})
    BY <2>4 DEF Frame
  <2>6. /\ {arg[p]} \subseteq {arg[p]} \cup pcb[arg[p]].threads /\ p \notin {arg[p]}
        /\ {} \subseteq pcb[arg[p]].threads
        /\ \A q \in Pid : W.pcb[q].status \notin Dead => W.pcb[q].threads \cap {} = {}
    BY <2>2, KillTargetFacts
  <2> HIDE DEF W
  <2> QED BY <2>1, <2>2, <2>5, <2>6, KillStepStep
<1> QED BY <1>1, <1>2

LEMMA KillFreeStep == ASSUME IInv, NEW p \in Pid, KillFree(p) PROVE IInv'
<1> DEFINE W == FreeResources(World, arg[p])
<1>1. CASE Undefined
  BY <1>1, UndefinedStep
<1>2. CASE ~Undefined
  <2>1. /\ cur = p /\ pc[p] = "kill_free" /\ Becomes(W)
        /\ Goto(p, "user", IF "user" = "user" THEN NO_PROCESS_ID ELSE arg[p])
        /\ UNCHANGED <<list, pass, cur, nextPid, requests, serving, fault>>
    BY <1>2 DEF KillFree, KillStep, Running
  <2>2. /\ Killing(p) /\ "user" \in KillSteps \cup {"user"}
        /\ "user" \notin {"kill_threads", "kill_clear"}
    BY <2>1 DEF Killing, KillSteps
  <2>3. arg[p] \in Pid /\ World \in WorldType
    BY <2>2, KillTargetFacts
  <2>4. Frame(World, W, {arg[p]}, {})
    BY <2>3, FreeResourcesFrame
  <2>5. /\ {arg[p]} \subseteq {arg[p]} \cup pcb[arg[p]].threads /\ p \notin {arg[p]}
        /\ {} \subseteq pcb[arg[p]].threads
        /\ \A q \in Pid : W.pcb[q].status \notin Dead => W.pcb[q].threads \cap {} = {}
    BY <2>2, KillTargetFacts
  <2> HIDE DEF W
  <2> QED BY <2>1, <2>2, <2>4, <2>5, KillStepStep
<1> QED BY <1>1, <1>2

LEMMA NewRow ==
  ASSUME IInv, nextPid \in Pid, NEW par \in Pid \cup {NO_PROCESS_ID}, NEW m \in Pid,
         NEW s \in Status
  PROVE  LET row == NewProcess(nextPid, par, m, s)
         IN  /\ row \in PCB /\ row.threads = {} /\ row.turn = {}
             /\ row.main = m /\ row.status = s
<1>1. NewProcess(nextPid, par, m, s) \in PCB
  BY NewProcessType DEF IInv
<1> QED BY <1>1 DEF NewProcess

LEMMA CreateProcessStep ==
  ASSUME IInv, NEW p \in Pid, NEW par \in Pid \cup {NO_PROCESS_ID}, CreateProcess(p, par)
  PROVE  IInv'
<1> DEFINE n == nextPid
           row == NewProcess(n, par, n, "NEW")
           W == Construct(World, n, row)
<1>1. CASE Undefined
  BY <1>1, UndefinedStep
<1>2. CASE ~Undefined
  <2>1. /\ cur = p /\ pc[p] = "user" /\ n < MaxPid /\ nextPid' = n + 1
        /\ Becomes(W)
        /\ Goto(p, "create_link", n)
        /\ Serve(p, IF par = NO_PROCESS_ID THEN p ELSE par)
        /\ UNCHANGED <<list, pass, cur, fault>>
    BY <1>2 DEF CreateProcess, InUserCode, Running
  <2>2. n \in Pid /\ n \notin Created
    BY <2>1, NextPidFresh
  <2>3. /\ row \in PCB /\ row.threads = {} /\ row.turn = {}
        /\ row.main = n /\ row.status = "NEW"
    BY <2>2, NewRow DEF Status
  <2> HIDE DEF row
  <2>4. World \in WorldType /\ World.pcb = pcb /\ World.live = live /\ World.map = procMap
    BY WorldHasType DEF IInv, World
  <2>5. W \in WorldType
    BY <2>2, <2>3, <2>4, ConstructType
  <2>6. /\ W.pcb = [pcb EXCEPT ![n] = row] /\ W.live = live \cup {n} /\ W.map = procMap
    BY <2>2, <2>3, <2>4, ConstructRows
  <2> HIDE DEF W
  <2>7. /\ pcb' = [pcb EXCEPT ![n] = row] /\ live' = live \cup {n} /\ procMap' = procMap
        /\ pcb' \in [Pid -> PCB] /\ members' \in [Pid -> Int] /\ groups' \subseteq Pid
    BY <2>1, <2>5, <2>6 DEF Becomes, WorldType
  <2>8. pcb \in [Pid -> PCB]
    BY DEF IInv, TypeOK
  <2>9. pcb'[n] = row
    BY <2>2, <2>7, <2>8
  <2>10. ASSUME NEW b \in Pid \ {n}
         PROVE  /\ pcb'[b].main = pcb[b].main
                /\ pcb'[b].status = pcb[b].status
                /\ pcb'[b].threads \cup pcb'[b].turn \subseteq pcb[b].threads \cup pcb[b].turn \cup {n}
                /\ pcb'[b].threads \subseteq pcb[b].threads \cup {n}
                /\ n \in pcb'[b].threads \cup pcb'[b].turn => row.main = b /\ n \in live'
    <3>1. pcb'[b] = pcb[b]
      BY <2>7, <2>8
    <3>2. n \notin pcb[b].threads \cup pcb[b].turn
      BY <2>2 DEF IInv, ThreadsBelong
    <3> QED BY <3>1, <3>2
  <2>11. /\ requests' \subseteq Pid /\ serving' \in [Pid -> Pid \cup {NO_PROCESS_ID}]
         /\ pc' = [pc EXCEPT ![p] = "create_link"] /\ arg' = [arg EXCEPT ![p] = n]
    BY <2>1 DEF Serve, Goto, IInv, TypeOK
  <2>12. /\ "create_link" \in Steps /\ "create_link" \notin KillSteps
         /\ row.status \notin Dead
    BY <2>3 DEF Steps, CreateSteps, KillSteps, Dead
  <2>13. /\ live \subseteq live' /\ live' \subseteq live \cup {n} /\ n \in live'
    BY <2>7
  <2>14. NewObject(row)
    BY <2>1, <2>3, <2>7, <2>9, <2>10, <2>11, <2>13 DEF NewObject
  <2>15. GoesOn(p, "create_link", n, row)
    BY <2>1, <2>2, <2>3, <2>11, <2>12, <2>13 DEF GoesOn
  <2> QED BY <2>14, <2>15, FreshStep
<1> QED BY <1>1, <1>2

LEMMA CreateFailsStep ==
  ASSUME IInv, NEW p \in Pid, NEW par \in Pid \cup {NO_PROCESS_ID}, NEW q, CreateFails(p, par, q)
  PROVE  IInv'
<1> DEFINE n == nextPid
           new == NewProcess(n, par, n, "NEW")
<1>1. CASE Undefined
  BY <1>1, UndefinedStep
<1>2. CASE ~Undefined
  <2>0. PICK taken \in BOOLEAN :
          /\ Becomes(DeleteProcess(Construct(World, n, [new EXCEPT !.held = taken]), n))
          /\ cur = p /\ pc[p] = "user" /\ n < MaxPid /\ nextPid' = n + 1
          /\ requests' = requests \ {q}
          /\ UNCHANGED <<list, pass, cur, pc, arg, serving, fault>>
    BY ZenonT(40), <1>2 DEF CreateFails, InUserCode, Running
  <2> DEFINE row == [new EXCEPT !.held = taken]
             V == Construct(World, n, row)
             W == DeleteProcess(V, n)
  <2>1. /\ cur = p /\ pc[p] = "user" /\ n < MaxPid /\ nextPid' = n + 1
        /\ Becomes(W)
        /\ requests' = requests \ {q}
        /\ UNCHANGED <<list, pass, cur, pc, arg, serving, fault>>
    BY <2>0
  <2>2. n \in Pid /\ n \notin Created
    BY <2>1, NextPidFresh
  <2>3. new \in PCB /\ new.threads = {} /\ new.turn = {} /\ new.main = n
    BY <2>2, NewRow DEF Status
  <2> HIDE DEF new
  <2>4. row \in PCB /\ row.threads = {} /\ row.turn = {}
    BY <2>3 DEF PCB
  <2> HIDE DEF row
  <2>5. World \in WorldType /\ World.pcb = pcb /\ World.live = live /\ World.map = procMap
    BY WorldHasType DEF IInv, World
  <2>6. V \in WorldType
    BY <2>2, <2>4, <2>5, ConstructType
  <2>7. V.pcb = [pcb EXCEPT ![n] = row] /\ V.live = live \cup {n} /\ V.map = procMap
    BY <2>2, <2>4, <2>5, ConstructRows
  <2> HIDE DEF V
  <2>8. W \in WorldType
    BY <2>2, <2>6, DeleteProcessType
  <2>9. W.pcb = V.pcb /\ W.live = V.live \ {n} /\ W.map = V.map \ {n}
    BY <2>6 DEF DeleteProcess, WorldType
  <2> HIDE DEF W
  <2>10. n \notin live /\ n \notin procMap
    BY <2>2 DEF IInv, ListOfMains
  <2>11. /\ pcb' = [pcb EXCEPT ![n] = row] /\ live' = live /\ procMap' = procMap
         /\ pcb' \in [Pid -> PCB] /\ members' \in [Pid -> Int] /\ groups' \subseteq Pid
    <3>1. W.pcb = [pcb EXCEPT ![n] = row] /\ W.live = live /\ W.map = procMap
      BY <2>7, <2>9, <2>10
    <3>2. pcb' = W.pcb /\ live' = W.live /\ procMap' = W.map
      BY <2>1 DEF Becomes
    <3> QED BY <2>1, <2>8, <3>1, <3>2, BecomesType
  <2>12. pcb \in [Pid -> PCB]
    BY DEF IInv, TypeOK
  <2>13. pcb'[n] = row
    BY <2>2, <2>11, <2>12
  <2>14. ASSUME NEW b \in Pid \ {n}
         PROVE  /\ pcb'[b].main = pcb[b].main
                /\ pcb'[b].status = pcb[b].status
                /\ pcb'[b].threads \cup pcb'[b].turn \subseteq pcb[b].threads \cup pcb[b].turn \cup {n}
                /\ pcb'[b].threads \subseteq pcb[b].threads \cup {n}
                /\ n \in pcb'[b].threads \cup pcb'[b].turn => row.main = b /\ n \in live'
    <3>1. pcb'[b] = pcb[b]
      BY <2>11, <2>12
    <3>2. n \notin pcb[b].threads \cup pcb[b].turn
      BY <2>2 DEF IInv, ThreadsBelong
    <3> QED BY <3>1, <3>2
  <2>15. requests' \subseteq Pid /\ serving' \in [Pid -> Pid \cup {NO_PROCESS_ID}]
    BY <2>1 DEF IInv, TypeOK
  <2>16. /\ pc' = [pc EXCEPT ![p] = "user"] /\ arg' = [arg EXCEPT ![p] = arg[p]]
         /\ arg[p] \in Pid \cup {NO_PROCESS_ID}
    BY <2>1 DEF IInv, TypeOK
  <2>17. /\ "user" \in Steps /\ "user" \notin KillSteps /\ "user" \notin CreateSteps
    BY DEF Steps, CreateSteps, KillSteps
  <2>18. /\ live \subseteq live' /\ live' \subseteq live \cup {n}
    BY <2>11
  <2>19. NewObject(row)
    BY <2>1, <2>4, <2>11, <2>13, <2>14, <2>15, <2>18 DEF NewObject
  <2>20. GoesOn(p, "user", arg[p], row)
    BY <2>1, <2>16, <2>17 DEF GoesOn
  <2> QED BY <2>19, <2>20, FreshStep
<1> QED BY <1>1, <1>2

LEMMA CreateThreadStep ==
  ASSUME IInv, NEW p \in Pid, NEW q \in Pid, CreateThread(p, q)
  PROVE  IInv'
<1> DEFINE t == nextPid
           m == pcb[q].main
           row == NewProcess(t, m, m, "RUN")
           W == Construct(World, t, row)
           next == IF W.pcb[m].turn = {} THEN {} ELSE W.pcb[m].turn \cup {t}
           mrow == [W.pcb[m] EXCEPT !.threads = @ \cup {t}, !.turn = next]
           V == [W EXCEPT !.pcb[m] = mrow]
<1>1. CASE Undefined
  BY <1>1, UndefinedStep
<1>2. CASE ~Undefined
  <2>1. /\ cur = p /\ pc[p] = "user" /\ t < MaxPid /\ nextPid' = t + 1 /\ m \in live
        /\ Becomes([W EXCEPT !.pcb[m].threads = @ \cup {t},
                             !.pcb[m].turn = IF @ = {} THEN {} ELSE @ \cup {t}])
        /\ Goto(p, "thread_publish", t)
        /\ Serve(p, q)
        /\ UNCHANGED <<list, pass, cur, fault>>
    BY SMTT(40), <1>2 DEF CreateThread, InUserCode, Running
  <2>2. t \in Pid /\ t \notin Created
    BY SMTT(40), <2>1, NextPidFresh
  <2>3. m \in Pid /\ m # t
    BY <2>1, <2>2 DEF IInv, TypeOK, ListOfMains
  <2>4. row \in PCB /\ row.threads = {} /\ row.turn = {} /\ row.main = m
    BY <2>2, <2>3, NewRow, StatusFacts
  <2> HIDE DEF row
  <2>5. World \in WorldType /\ World.pcb = pcb /\ World.live = live /\ World.map = procMap
    BY WorldHasType DEF IInv, World
  <2>6. W \in WorldType
    BY <2>2, <2>4, <2>5, ConstructType
  <2>7. W.pcb = [pcb EXCEPT ![t] = row] /\ W.live = live \cup {t} /\ W.map = procMap
    BY <2>2, <2>4, <2>5, ConstructRows
  <2> HIDE DEF W, m
  <2>8. pcb \in [Pid -> PCB] /\ W.pcb[m] = pcb[m] /\ W.pcb[m] \in PCB
    BY <2>2, <2>3, <2>7 DEF IInv, TypeOK
  <2>9. mrow \in PCB
    BY ZenonT(40), <2>2, <2>8 DEF PCB
  <2>10. [W EXCEPT !.pcb[m].threads = @ \cup {t},
                   !.pcb[m].turn = IF @ = {} THEN {} ELSE @ \cup {t}] = V
    BY ZenonT(40), <2>3, <2>6, <2>8 DEF WorldType, PCB
  <2>11. V \in WorldType
    BY <2>3, <2>6, <2>9, UpdateType
  <2>12. V.pcb = [W.pcb EXCEPT ![m] = mrow] /\ V.live = W.live /\ V.map = W.map
    BY <2>6 DEF WorldType
  <2>13. /\ mrow.main = pcb[m].main /\ mrow.status = pcb[m].status
         /\ mrow.threads = pcb[m].threads \cup {t}
         /\ mrow.turn \subseteq pcb[m].turn \cup {t}
    BY <2>8 DEF PCB
  <2> HIDE DEF mrow, V
  <2>14. /\ pcb' = V.pcb /\ pcb' \in [Pid -> PCB] /\ members' \in [Pid -> Int]
         /\ groups' \subseteq Pid /\ live' = live \cup {t} /\ procMap' = procMap
    <3>1. Becomes(V)
      BY <2>1, <2>10
    <3> QED BY <2>7, <2>11, <2>12, <3>1, BecomesType DEF Becomes
  <2>15. pcb'[t] = row
    BY <2>2, <2>3, <2>7, <2>8, <2>12, <2>14
  <2>16. ASSUME NEW b \in Pid \ {t}
         PROVE  /\ pcb'[b].main = pcb[b].main
                /\ pcb'[b].status = pcb[b].status
                /\ pcb'[b].threads \cup pcb'[b].turn \subseteq pcb[b].threads \cup pcb[b].turn \cup {t}
                /\ pcb'[b].threads \subseteq pcb[b].threads \cup {t}
                /\ t \in pcb'[b].threads \cup pcb'[b].turn => row.main = b /\ t \in live'
    <3>1. CASE b = m
      <4>1. pcb'[b] = mrow
        BY <2>3, <2>6, <2>12, <2>14, <3>1 DEF WorldType
      <4> QED BY <2>4, <2>13, <2>14, <3>1, <4>1
    <3>2. CASE b # m
      <4>1. pcb'[b] = pcb[b]
        BY <2>7, <2>8, <2>12, <2>14, <3>2
      <4>2. t \notin pcb[b].threads \cup pcb[b].turn
        BY <2>2 DEF IInv, ThreadsBelong
      <4> QED BY <4>1, <4>2
    <3> QED BY <3>1, <3>2
  <2>17. /\ requests' \subseteq Pid /\ serving' \in [Pid -> Pid \cup {NO_PROCESS_ID}]
         /\ pc' = [pc EXCEPT ![p] = "thread_publish"] /\ arg' = [arg EXCEPT ![p] = t]
    BY <2>1 DEF Serve, Goto, IInv, TypeOK
  <2>18. /\ "thread_publish" \in Steps /\ "thread_publish" \notin KillSteps
         /\ "thread_publish" \notin CreateSteps
    BY DEF Steps, CreateSteps, KillSteps
  <2>19. NewObject(row)
    BY <2>1, <2>4, <2>14, <2>15, <2>16, <2>17 DEF NewObject
  <2>20. GoesOn(p, "thread_publish", t, row)
    BY <2>1, <2>2, <2>17, <2>18 DEF GoesOn
  <2> QED BY SMTT(40), <2>19, <2>20, FreshStep
<1> QED BY <1>1, <1>2

LEMMA AddToSchedulerListStep ==
  ASSUME IInv, NEW p \in Pid, AddToSchedulerList(p)
  PROVE  IInv'
<1> DEFINE c == arg[p]
<1>1. /\ Creating(p) /\ cur = p /\ Busy(p)
      /\ pc' = [pc EXCEPT ![p] = "user"] /\ arg' = [arg EXCEPT ![p] = NO_PROCESS_ID]
      /\ requests' = requests /\ serving' = [serving EXCEPT ![p] = NO_PROCESS_ID]
      /\ UNCHANGED <<live, members, groups, cur, nextPid, fault>>
  BY DEF AddToSchedulerList, Running, Goto, Answer, Creating, CreateSteps, Busy
<1>2. /\ c \in live \ (list \cup procMap \cup {cur}) /\ pcb[c].main = c
      /\ pcb[c].status \notin Dead /\ c \in Pid /\ c \in Created
  BY <1>1 DEF IInv, NewIsPrivate, BusyArgs, TypeOK
<1>3. "user" \in Steps /\ "user" \notin CreateSteps /\ "user" \notin KillSteps
  BY DEF Steps, CreateSteps, KillSteps
<1>4. CASE UNCHANGED <<pcb, procMap, list, pass>>
  <2>1. pcb' \in [Pid -> PCB] /\ requests' \subseteq Pid /\ serving' \in [Pid -> Pid \cup {NO_PROCESS_ID}]
    BY <1>1, <1>4 DEF IInv, TypeOK
  <2>2. procMap \subseteq Created /\ \A q \in Pid : Creating(q) => arg[q] \notin procMap
    BY DEF IInv, ListOfMains, NewIsPrivate
  <2> QED BY <1>1, <1>3, <1>4, <2>1, <2>2, LocalStep
<1>5. CASE /\ procMap' = procMap \cup {c} /\ pcb' = [pcb EXCEPT ![c].status = "RUN"]
           /\ list' = list \cup {c} /\ pass' = pass \cup {c}
  <2>1. Created' = Created /\ Created \subseteq Pid
    BY <1>1, CreatedPids DEF Created, IInv
  <2>2. pcb \in [Pid -> PCB] /\ pcb[c] \in PCB /\ "RUN" \in Status /\ "RUN" \notin Dead
    BY <1>2, StatusFacts DEF IInv, TypeOK
  <2> DEFINE row == [pcb[c] EXCEPT !.status = "RUN"]
  <2>3. /\ row \in PCB /\ row.main = pcb[c].main /\ row.threads = pcb[c].threads
        /\ row.turn = pcb[c].turn /\ row.status = "RUN"
    BY <2>2 DEF PCB
  <2>4. pcb' = [pcb EXCEPT ![c] = row]
    BY <1>5
  <2> HIDE DEF row, c
  <2>5. ASSUME NEW b \in Pid
        PROVE  /\ pcb'[b].main = pcb[b].main
               /\ pcb'[b].threads = pcb[b].threads
               /\ pcb'[b].turn = pcb[b].turn
               /\ pcb'[b].status \in Dead <=> pcb[b].status \in Dead
    <3>1. pcb'[b] = IF b = c THEN row ELSE pcb[b]
      BY <2>2, <2>4
    <3> QED BY <1>2, <2>2, <2>3, <3>1
  <2>6. TypeOK'
    <3>1. pcb' \in [Pid -> PCB]
      BY <1>2, <2>2, <2>3, <2>4
    <3>2. /\ pc' \in [Pid -> Steps] /\ arg' \in [Pid -> Pid \cup {NO_PROCESS_ID}]
          /\ serving' \in [Pid -> Pid \cup {NO_PROCESS_ID}]
      BY <1>1, <1>3 DEF IInv, TypeOK
    <3> QED BY <1>1, <1>2, <1>5, <3>1, <3>2 DEF IInv, TypeOK
  <2>7. ThreadsBelong'
    <3> SUFFICES ASSUME NEW b \in Pid, NEW t \in pcb'[b].threads \cup pcb'[b].turn
                 PROVE  pcb'[t].main = b /\ t # b /\ t \in Created
      BY <2>1 DEF ThreadsBelong
    <3>1. t \in pcb[b].threads \cup pcb[b].turn
      BY <2>5
    <3>2. pcb[t].main = b /\ t # b /\ t \in Created
      BY <3>1 DEF IInv, ThreadsBelong
    <3> QED BY <2>1, <2>5, <3>2
  <2>8. ListOfMains'
    <3>1. pass' \subseteq list' /\ list' \subseteq live' /\ live' \cup procMap' \subseteq Created'
      BY <1>1, <1>2, <1>5, <2>1 DEF IInv, ListOfMains
    <3>2. ASSUME NEW b \in list' PROVE pcb'[b].main = b
      <4>1. b \in Pid /\ pcb[b].main = b
        BY <1>2, <1>5 DEF IInv, ListOfMains, TypeOK
      <4> QED BY <2>5, <4>1
    <3> QED BY <3>1, <3>2 DEF ListOfMains
  <2>9. CurrentAlive'
    <3>1. p \in Created /\ p \notin pass /\ p # c /\ pcb[p].status \notin Dead
      BY <1>1, <1>2 DEF IInv, CurrentAlive
    <3> QED BY <1>1, <1>5, <2>1, <2>5, <3>1 DEF CurrentAlive
  <2>10. LiveThreads'
    BY <1>1, <2>5 DEF IInv, LiveThreads
  <2>11. ASSUME NEW q \in Pid
         PROVE  /\ Busy(q)' => q # p /\ Busy(q)
                /\ Creating(q)' => q # p /\ Creating(q)
                /\ Killing(q)' => q # p /\ Killing(q)
                /\ q # p => pc'[q] = pc[q] /\ arg'[q] = arg[q]
    <3>1. pc'[p] = "user" /\ (q # p => pc'[q] = pc[q] /\ arg'[q] = arg[q])
      BY <1>1 DEF IInv, TypeOK
    <3> QED BY <1>3, <3>1 DEF Busy, Creating, Killing
  <2>12. NewIsPrivate'
    <3> SUFFICES ASSUME NEW q \in Pid, Creating(q)'
                 PROVE  /\ arg'[q] \in live' \ (list' \cup procMap' \cup {cur'})
                        /\ pcb'[arg'[q]].main = arg'[q]
                        /\ pcb'[arg'[q]].status \notin Dead
      BY DEF NewIsPrivate
    <3>1. q # p /\ Creating(q) /\ arg'[q] = arg[q]
      BY <2>11
    <3>2. /\ arg[q] \in live \ (list \cup procMap \cup {cur})
          /\ pcb[arg[q]].main = arg[q]
          /\ pcb[arg[q]].status \notin Dead
      BY <3>1 DEF IInv, NewIsPrivate
    <3>3. arg[q] \in Pid /\ arg[q] # c
      BY <1>1, <3>1, <3>2 DEF IInv, TypeOK, ArgsDiffer, c
    <3>4. pcb'[arg[q]].main = arg[q] /\ pcb'[arg[q]].status \notin Dead
      BY <2>5, <3>2, <3>3
    <3> QED BY <1>1, <1>5, <3>1, <3>2, <3>3, <3>4
  <2>13. ArgsDiffer'
    BY <2>11 DEF IInv, ArgsDiffer
  <2>14. BusyArgs'
    BY <2>1, <2>11 DEF IInv, BusyArgs
  <2>15. KillTarget'
    <3> SUFFICES ASSUME NEW q \in Pid, Killing(q)'
                 PROVE  /\ arg'[q] \in Created' \ {q}
                        /\ pc'[q] \in {"kill_threads", "kill_clear"} => pcb'[arg'[q]].status \in Dead
      BY DEF KillTarget
    <3>1. Killing(q) /\ arg'[q] = arg[q] /\ pc'[q] = pc[q]
      BY <2>11
    <3>2. /\ arg[q] \in Created \ {q}
          /\ pc[q] \in {"kill_threads", "kill_clear"} => pcb[arg[q]].status \in Dead
      BY <3>1 DEF IInv, KillTarget
    <3> QED BY <2>1, <2>5, <3>1, <3>2
  <2> QED BY <2>6, <2>7, <2>8, <2>9, <2>10, <2>12, <2>13, <2>14, <2>15 DEF IInv
<1> QED BY <1>4, <1>5 DEF AddToSchedulerList

-----------------------------------------------------------------------------
(* The theorems *)

LEMMA InitIInv == Init => IInv
<1> SUFFICES ASSUME Init PROVE IInv
  OBVIOUS
<1>1. 0 \in Pid /\ Pid \subseteq Int /\ NO_PROCESS_ID \notin Pid /\ Scheduler \notin Pid
  BY MaxPidAssumption, SpecialPids DEF Pid
<1>2. ASSUME NEW p \in Pid
      PROVE  /\ pcb[p] \in PCB
             /\ pcb[p].main = p /\ pcb[p].threads = {} /\ pcb[p].turn = {}
  BY <1>1 DEF Init, PCB, Status, Dead
<1>3. pcb \in [Pid -> PCB]
  <2>1. DOMAIN pcb = Pid /\ pcb = [p \in Pid |-> pcb[p]]
    BY DEF Init
  <2> QED BY <1>2, <2>1
<1>4. nextPid = 1 /\ Created = {0}
  BY DEF Init, Created
<1>5. "user" \in Steps /\ \A p \in Pid : pc[p] = "user"
  BY DEF Init, Steps
<1>6. TypeOK
  <2>1. /\ members \in [Pid -> Int] /\ pc \in [Pid -> Steps]
        /\ arg \in [Pid -> Pid \cup {NO_PROCESS_ID}]
        /\ serving \in [Pid -> Pid \cup {NO_PROCESS_ID}]
    BY <1>5 DEF Init
  <2>2. nextPid \in 0 .. MaxPid
    BY <1>4, MaxPidAssumption
  <2> QED BY <1>1, <1>3, <2>1, <2>2 DEF Init, TypeOK
<1>7. ThreadsBelong /\ LiveThreads
  BY <1>2 DEF ThreadsBelong, LiveThreads
<1>8. ListOfMains
  BY <1>1, <1>2, <1>4 DEF Init, ListOfMains
<1>9. CurrentAlive
  BY <1>1 DEF Init, CurrentAlive
<1>10. \A p \in Pid : ~Creating(p) /\ ~Killing(p) /\ ~Busy(p)
  BY <1>5 DEF Creating, Killing, Busy, CreateSteps, KillSteps
<1>11. NewIsPrivate /\ ArgsDiffer /\ BusyArgs /\ KillTarget
  BY <1>10 DEF NewIsPrivate, ArgsDiffer, BusyArgs, KillTarget
<1> QED BY <1>6, <1>7, <1>8, <1>9, <1>11 DEF IInv

LEMMA UnchangedIInv == IInv /\ UNCHANGED vars => IInv'
BY DEF vars, IInv, TypeOK, ThreadsBelong, Created, ListOfMains, CurrentAlive, NewIsPrivate,
       Creating, ArgsDiffer, Busy, BusyArgs, Killing, KillTarget, LiveThreads

\* Every step of the scheduler, of a process or of a killer keeps the invariant.
\* What a process does, whatever the roles.
AnyCall(p) ==
  \/ Exit(p) \/ Wait(p) \/ RequestKernelService(p) \/ KillSelf(p)
  \/ \E c \in Pid : WaitOnChild(p, c) \/ CreateThread(p, c) \/ Kill(p, c)
  \/ \E par \in Pid \cup {NO_PROCESS_ID} : CreateProcess(p, par) \/ \E q : CreateFails(p, par, q)

LEMMA CallsAreCalls ==
  ASSUME TypeOK, NEW p \in Pid, NEW roles, Calls(p, roles)
  PROVE  AnyCall(p)
<1>1. Requesters(p, roles) \subseteq Pid
  BY DEF Requesters, TypeOK
<1>2. ParentsFor(p, roles) \subseteq Pid \cup {NO_PROCESS_ID}
  BY <1>1 DEF ParentsFor
<1>3. \A q \in Requesters(p, roles) : pcb[q].main \in Pid
  BY <1>1 DEF TypeOK, PCB
<1> QED BY <1>1, <1>2, <1>3 DEF Calls, AnyCall, CreateThreadFails

LEMMA NextIInv == ASSUME NEW roles PROVE IInv /\ [NextOf(roles)]_vars => IInv'
<1> SUFFICES ASSUME IInv, [NextOf(roles)]_vars PROVE IInv'
  OBVIOUS
<1>1. ASSUME NEW b \in Pid, Dispatch(b) \/ Skip(b) PROVE IInv'
  BY <1>1, DispatchStep, SkipStep
<1>2. CASE Preempt
  BY <1>2, PreemptStep
<1>3. ASSUME NEW p \in Pid, AnyCall(p) PROVE IInv'
  <2>1. CASE Exit(p) \/ Wait(p) \/ RequestKernelService(p) \/ KillSelf(p)
    BY <2>1, ExitStep, WaitStep, RequestKernelServiceStep, KillSelfStep
  <2>2. ASSUME NEW c \in Pid, WaitOnChild(p, c) \/ CreateThread(p, c) \/ Kill(p, c) PROVE IInv'
    BY <2>2, WaitOnChildStep, CreateThreadStep, KillBegins
  <2>3. ASSUME NEW par \in Pid \cup {NO_PROCESS_ID}, CreateProcess(p, par) \/ \E q : CreateFails(p, par, q)
        PROVE  IInv'
    BY <2>3, CreateProcessStep, CreateFailsStep
  <2> QED BY <1>3, <2>1, <2>2, <2>3 DEF AnyCall
<1>4. ASSUME NEW p \in Pid, Continues(p) PROVE IInv'
  <2>1. CASE LinkToParent(p) \/ AddToSchedulerList(p) \/ AddToProcessMap(p)
    BY <2>1, LinkToParentStep, AddToSchedulerListStep, AddToProcessMapStep
  <2>2. CASE KillMark(p) \/ KillThreads(p) \/ KillClear(p) \/ KillChildren(p) \/ KillFree(p)
    BY <2>2, KillMarkStep, KillThreadsStep, KillClearStep, KillChildrenStep, KillFreeStep
  <2> QED BY <1>4, <2>1, <2>2 DEF Continues
<1>5. CASE Stop
  BY <1>5, UnchangedIInv DEF Stop
<1>6. CASE UNCHANGED vars
  BY <1>6, UnchangedIInv
<1>7. TypeOK
  BY DEF IInv
<1> QED BY <1>1, <1>2, <1>3, <1>4, <1>5, <1>6, <1>7, CallsAreCalls DEF NextOf

THEOREM InductiveInvariant == Spec => []IInv
<1>1. Init => IInv
  BY InitIInv
<1>2. IInv /\ [Next]_vars => IInv'
  BY NextIInv DEF Next
<1> QED BY <1>1, <1>2, PTL DEF Spec

\* The state of the process manager always has its type.
THEOREM TypeCorrect == Spec => []TypeOK
<1>1. IInv => TypeOK
  BY DEF IInv
<1> QED BY <1>1, InductiveInvariant, PTL

LEMMA IInvSchedules == IInv => NoDanglingSchedule
<1> SUFFICES ASSUME IInv PROVE NoDanglingSchedule
  OBVIOUS
<1>1. pass \subseteq list /\ list \subseteq live
  BY DEF IInv, ListOfMains
<1>2. \A b \in list : pcb[b].status \notin Dead => pcb[b].threads \subseteq live
  BY DEF IInv, LiveThreads, TypeOK
<1> QED BY <1>1, <1>2 DEF NoDanglingSchedule

\* The lists StartScheduler and forSchedule walk never hold a deleted process, however
\* kills, exits, creations and preemptions interleave.
THEOREM ScheduleNeverDangles == Spec => []NoDanglingSchedule
BY IInvSchedules, InductiveInvariant, PTL

-----------------------------------------------------------------------------
(* What the processes hold: stack, pages and a place in their group *)

Holders(W, g) == {p \in Pid : W.pcb[p].held /\ W.pcb[p].group = g}

\* The counts of the groups cover the holders, and who holds something has not ended or
\* is in K.
Counted(W) ==
  \A g \in Pid : /\ W.members[g] >= Cardinality(Holders(W, g))
                 /\ g \in W.groups <=> W.members[g] # 0
InHand(W, K) ==
  /\ Counted(W)
  /\ \A p \in Pid : W.pcb[p].held => W.pcb[p].status \notin Dead \/ p \in K

\* From W to V nobody takes or gives back anything.
SameHoldings(W, V) ==
  /\ V.members = W.members /\ V.groups = W.groups
  /\ \A q \in Pid : V.pcb[q].held = W.pcb[q].held /\ V.pcb[q].group = W.pcb[q].group

LEMMA HoldersFinite ==
  ASSUME NEW W, NEW g
  PROVE  IsFiniteSet(Holders(W, g)) /\ Cardinality(Holders(W, g)) \in Nat
<1>1. Holders(W, g) \in SUBSET Pid
  BY DEF Holders
<1>2. IsFiniteSet(Holders(W, g))
  BY <1>1, PidFinite, FS_Subset
<1> QED BY <1>2, FS_CardinalityType

LEMMA KeepsInHand ==
  ASSUME NEW W, NEW V, NEW D, NEW L, NEW K, InHand(W, K), Frame(W, V, D, L), SameHoldings(W, V),
         \A q \in Pid : V.pcb[q].held /\ q \in D => q \in K
  PROVE  InHand(V, K)
<1>1. \A g \in Pid : Holders(V, g) = Holders(W, g)
  BY DEF Holders, SameHoldings
<1>2. Counted(V)
  BY <1>1 DEF InHand, Counted, SameHoldings
<1>3. ASSUME NEW q \in Pid, V.pcb[q].held, q \notin K
      PROVE  V.pcb[q].status \notin Dead
  <2>1. W.pcb[q].held /\ q \notin D
    BY <1>3 DEF SameHoldings
  <2>2. W.pcb[q].status \notin Dead
    BY <1>3, <2>1 DEF InHand
  <2> QED BY <2>1, <2>2 DEF Frame
<1> QED BY <1>2, <1>3 DEF InHand

\* The holders of ps leave their groups, and hold nothing in V.
LEMMA LeavingInHand ==
  ASSUME NEW W \in WorldType, NEW V, NEW ps \in SUBSET Pid, NEW D, NEW L, NEW K,
         InHand(W, K), Frame(W, V, D, L),
         V.members = LeaveGroups(W, ps).members, V.groups = LeaveGroups(W, ps).groups,
         \A p \in ps : W.pcb[p].held,
         \A q \in Pid : V.pcb[q].held => W.pcb[q].held /\ V.pcb[q].group = W.pcb[q].group /\ q \notin ps,
         \A q \in Pid : V.pcb[q].held /\ q \in D => q \in K
  PROVE  InHand(V, K)
<1>1. /\ V.members = [g \in Pid |-> W.members[g] - Cardinality({p \in ps : W.pcb[p].group = g})]
      /\ V.groups = {g \in W.groups : V.members[g] # 0}
  BY DEF LeaveGroups, WorldType
<1>2. ASSUME NEW g \in Pid
      PROVE  V.members[g] >= Cardinality(Holders(V, g)) /\ (g \in V.groups <=> V.members[g] # 0)
  <2> DEFINE left == {p \in ps : W.pcb[p].group = g}
             H == Holders(W, g)
             n == Cardinality(left)
  <2>1. left \subseteq H /\ Holders(V, g) \subseteq H \ left
    BY DEF Holders
  <2>2. IsFiniteSet(H) /\ Cardinality(H) \in Nat
    BY HoldersFinite
  <2>3. V.members[g] = W.members[g] - n
    BY <1>1
  <2> HIDE DEF left, H
  <2>4. /\ IsFiniteSet(H \ left) /\ H \cap left = left
        /\ Cardinality(H \ left) = Cardinality(H) - Cardinality(H \cap left)
    BY <2>1, <2>2, FS_Difference
  <2>5. n \in Nat /\ n <= Cardinality(H)
    <3>1. IsFiniteSet(left) /\ Cardinality(left) <= Cardinality(H)
      BY <2>1, <2>2, FS_Subset
    <3> QED BY <3>1, FS_CardinalityType
  <2>6. Cardinality(Holders(V, g)) <= Cardinality(H \ left) /\ Cardinality(Holders(V, g)) \in Nat
    BY <2>1, <2>4, FS_Subset, HoldersFinite
  <2>7. Cardinality(H \ left) = Cardinality(H) - n
    BY <2>4
  <2>8. W.members[g] \in Int /\ W.members[g] >= Cardinality(H) /\ (g \in W.groups <=> W.members[g] # 0)
    BY DEF InHand, Counted, WorldType, H
  <2> HIDE DEF n
  <2>9. V.members[g] >= Cardinality(Holders(V, g))
    BY <2>2, <2>3, <2>5, <2>6, <2>7, <2>8
  <2>10. g \in V.groups <=> W.members[g] # 0 /\ V.members[g] # 0
    BY <1>1, <2>8
  <2>11. W.members[g] = 0 => V.members[g] = 0
    BY <2>2, <2>3, <2>5, <2>8
  <2> QED BY <2>9, <2>10, <2>11
<1>3. ASSUME NEW q \in Pid, V.pcb[q].held, q \notin K
      PROVE  V.pcb[q].status \notin Dead
  <2>1. W.pcb[q].held /\ q \notin D
    BY <1>3
  <2>2. W.pcb[q].status \notin Dead
    BY <1>3, <2>1 DEF InHand
  <2> QED BY <2>1, <2>2 DEF Frame
<1> QED BY <1>2, <1>3 DEF InHand, Counted

LEMMA SameTrans ==
  ASSUME NEW W, NEW V, NEW U, SameHoldings(W, V), SameHoldings(V, U)
  PROVE  SameHoldings(W, U)
BY DEF SameHoldings

\* Who holds nothing, or is in K anyway, need not be in K.
LEMMA FewerInHand ==
  ASSUME NEW W, NEW K, NEW L, InHand(W, K), \A q \in Pid : q \in K /\ W.pcb[q].held => q \in L
  PROVE  InHand(W, L)
BY DEF InHand

-----------------------------------------------------------------------------
(* The operations on the table *)

LEMMA UpdateSame ==
  ASSUME NEW W \in WorldType, NEW p \in Pid, NEW row \in PCB,
         row.held = W.pcb[p].held, row.group = W.pcb[p].group
  PROVE  SameHoldings(W, [W EXCEPT !.pcb[p] = row])
<1> DEFINE V == [W EXCEPT !.pcb[p] = row]
<1>1. V.members = W.members /\ V.groups = W.groups /\ V.pcb = [W.pcb EXCEPT ![p] = row]
  BY DEF WorldType
<1>2. ASSUME NEW q \in Pid PROVE V.pcb[q].held = W.pcb[q].held /\ V.pcb[q].group = W.pcb[q].group
  <2>1. V.pcb[q] = IF q = p THEN row ELSE W.pcb[q]
    BY <1>1 DEF WorldType
  <2> QED BY <2>1
<1> QED BY <1>1, <1>2 DEF SameHoldings

LEMMA SetStatusSame ==
  ASSUME NEW W \in WorldType, NEW p \in Pid, NEW s \in Status
  PROVE  SameHoldings(W, SetStatus(W, p, s))
<1> DEFINE row == [W.pcb[p] EXCEPT !.status = s]
<1>1. row \in PCB /\ row.held = W.pcb[p].held /\ row.group = W.pcb[p].group
  BY RowType DEF PCB
<1>2. SetStatus(W, p, s) = [W EXCEPT !.pcb[p] = row]
  BY DEF SetStatus, WorldType
<1> HIDE DEF row
<1> QED BY <1>1, <1>2, UpdateSame

LEMMA RedirectSame ==
  ASSUME NEW W \in WorldType, NEW kids \in SUBSET Pid, NEW heir \in Pid \cup {NO_PROCESS_ID}
  PROVE  SameHoldings(W, Redirect(W, kids, heir))
<1> DEFINE V == Redirect(W, kids, heir)
<1>1. V.members = W.members /\ V.groups = W.groups
  BY DEF Redirect, WorldType
<1>2. ASSUME NEW q \in Pid PROVE V.pcb[q].held = W.pcb[q].held /\ V.pcb[q].group = W.pcb[q].group
  <2>1. W.pcb[q] \in PCB
    BY RowType
  <2> QED BY <2>1 DEF Redirect, WorldType, PCB
<1> QED BY <1>1, <1>2 DEF SameHoldings

LEMMA RedirectInHand ==
  ASSUME NEW W \in WorldType, NEW kids \in SUBSET Pid, NEW heir \in Pid \cup {NO_PROCESS_ID},
         NEW K, InHand(W, K)
  PROVE  InHand(Redirect(W, kids, heir), K)
BY RedirectFrame, RedirectSame, KeepsInHand

LEMMA ClearThreadsSame ==
  ASSUME NEW W \in WorldType, NEW p \in Pid
  PROVE  SameHoldings(W, ClearThreads(W, p))
<1> DEFINE row == [W.pcb[p] EXCEPT !.threads = {}]
<1>1. row \in PCB /\ row.held = W.pcb[p].held /\ row.group = W.pcb[p].group
  BY RowType DEF PCB
<1>2. ClearThreads(W, p) = [W EXCEPT !.pcb[p] = row]
  BY DEF ClearThreads, WorldType
<1> HIDE DEF row
<1> QED BY <1>1, <1>2, UpdateSame

LEMMA ClearThreadsInHand ==
  ASSUME NEW W \in WorldType, NEW p \in Pid, NEW K, InHand(W, K)
  PROVE  InHand(ClearThreads(W, p), K)
BY ClearThreadsFrame, ClearThreadsSame, KeepsInHand

LEMMA RedirectChildrenSame ==
  ASSUME NEW W \in WorldType, NEW p \in Pid
  PROVE  SameHoldings(W, RedirectChildren(W, p))
<1>1. W.pcb[p].children \in SUBSET Pid /\ W.pcb[p].parent \in Pid \cup {NO_PROCESS_ID}
  BY RowType DEF PCB
<1> QED BY <1>1, RedirectSame DEF RedirectChildren

LEMMA RedirectChildrenInHand ==
  ASSUME NEW W \in WorldType, NEW p \in Pid, NEW K, InHand(W, K)
  PROVE  InHand(RedirectChildren(W, p), K)
BY RedirectChildrenFrame, RedirectChildrenSame, KeepsInHand

\* DeleteThreads: what dies holds something, and what is deleted holds nothing afterwards.
LEMMA DeleteThreadsInHand ==
  ASSUME NEW W \in WorldType, NEW p \in Pid, NEW K, InHand(W, K),
         \A t \in W.pcb[p].threads : W.pcb[t].status \notin Dead => W.pcb[t].held
  PROVE  /\ InHand(DeleteThreads(W, p), K)
         /\ \A q \in Pid \ W.pcb[p].threads : DeleteThreads(W, p).pcb[q].held = W.pcb[q].held
<1> DEFINE ths == W.pcb[p].threads
           dying == {t \in ths : W.pcb[t].status \notin Dead}
           kids == UNION {W.pcb[t].children : t \in dying}
           R == Redirect(W, kids, p)
           V == LeaveGroups(R, dying)
           U == DeleteThreads(W, p)
<1>1. ths \in SUBSET Pid /\ dying \in SUBSET Pid
  BY DEF WorldType, PCB
<1>2. kids \in SUBSET Pid
  BY <1>1 DEF WorldType, PCB
<1>3. R \in WorldType /\ SameHoldings(W, R) /\ InHand(R, K)
  BY <1>2, RedirectType, RedirectSame, RedirectInHand
<1>4. V \in WorldType /\ Frame(R, V, {}, {}) /\ V.pcb = R.pcb
  BY <1>1, <1>3, LeaveGroupsType, LeaveGroupsFrame
<1>5. U \in WorldType
  BY DeleteThreadsType
<1>6. U = [V EXCEPT !.pcb = [q \in Pid |-> IF q \in ths THEN [V.pcb[q] EXCEPT !.status = "RELEASED", !.held = FALSE]
                                                    ELSE V.pcb[q]],
                !.live = @ \ ths, !.map = @ \ ths]
  BY SMTT(40) DEF DeleteThreads
<1>7. \A t \in dying : R.pcb[t].held
  BY <1>1, <1>3 DEF SameHoldings
<1> HIDE DEF U, V, R, ths, dying
<1>8. /\ U.live = V.live \ ths /\ U.map = V.map \ ths
      /\ U.members = V.members /\ U.groups = V.groups
  BY <1>4, <1>6 DEF WorldType
<1>9. ASSUME NEW q \in Pid
      PROVE  /\ U.pcb[q].main = V.pcb[q].main
             /\ U.pcb[q].threads = V.pcb[q].threads
             /\ U.pcb[q].turn = V.pcb[q].turn
             /\ U.pcb[q].status = IF q \in ths THEN "RELEASED" ELSE V.pcb[q].status
             /\ U.pcb[q].group = V.pcb[q].group
             /\ U.pcb[q].held = IF q \in ths THEN FALSE ELSE V.pcb[q].held
  <2>1. V.pcb[q] \in PCB
    BY <1>4, RowType
  <2>2. U.pcb[q] = IF q \in ths THEN [V.pcb[q] EXCEPT !.status = "RELEASED", !.held = FALSE]
                                ELSE V.pcb[q]
    BY <1>4, <1>6 DEF WorldType
  <2> QED BY <2>1, <2>2 DEF PCB
<1>10. Frame(V, U, ths, ths)
  BY <1>5, <1>8, <1>9 DEF Frame, Dead
<1>11. Frame(R, U, ths, ths)
  <2>1. Frame(R, U, {} \cup ths, {} \cup ths)
    BY <1>3, <1>4, <1>10, FrameTrans
  <2>2. {} \cup ths = ths
    OBVIOUS
  <2> QED BY <2>1, <2>2
<1>12. dying \subseteq ths
  BY DEF dying
<1>13. \A q \in Pid : U.pcb[q].held => R.pcb[q].held /\ U.pcb[q].group = R.pcb[q].group /\ q \notin ths
  BY <1>4, <1>9
<1>14. InHand(U, K)
  <2>1. U.members = LeaveGroups(R, dying).members /\ U.groups = LeaveGroups(R, dying).groups
    BY <1>8 DEF V
  <2>2. \A q \in Pid : U.pcb[q].held => R.pcb[q].held /\ U.pcb[q].group = R.pcb[q].group /\ q \notin dying
    BY <1>12, <1>13
  <2>3. \A q \in Pid : U.pcb[q].held /\ q \in ths => q \in K
    BY <1>13
  <2> QED BY ZenonT(40), <1>1, <1>3, <1>7, <1>11, <2>1, <2>2, <2>3, LeavingInHand
<1>15. \A q \in Pid \ ths : U.pcb[q].held = W.pcb[q].held
  BY ZenonT(40), <1>3, <1>4, <1>9 DEF SameHoldings
<1> QED BY <1>14, <1>15 DEF U, ths

LEMMA FreeResourcesInHand ==
  ASSUME NEW W \in WorldType, NEW p \in Pid, NEW K, InHand(W, K), W.pcb[p].held
  PROVE  InHand(FreeResources(W, p), K) /\ ~FreeResources(W, p).pcb[p].held
<1> DEFINE L == LeaveGroups(W, {p})
           row == [L.pcb[p] EXCEPT !.held = FALSE]
           V == [L EXCEPT !.pcb[p] = row]
           U == FreeResources(W, p)
<1>1. L \in WorldType /\ L.pcb = W.pcb /\ Frame(W, L, {}, {})
  BY LeaveGroupsType, LeaveGroupsFrame
<1>2. row \in PCB /\ row.group = L.pcb[p].group /\ ~row.held /\ row.parent = L.pcb[p].parent
  <2>1. L.pcb[p] \in PCB
    BY <1>1, RowType
  <2> QED BY <2>1 DEF PCB
<1>3. U = IF V.pcb[p].parent = NO_PROCESS_ID THEN SetStatus(V, p, "RELEASED") ELSE V
  <2>1. [L EXCEPT !.pcb[p].held = FALSE] = V
    BY <1>1 DEF WorldType
  <2> QED BY <2>1 DEF FreeResources
<1> HIDE DEF L, U, row
<1>4. V \in WorldType /\ V.pcb = [L.pcb EXCEPT ![p] = row] /\ V.members = L.members /\ V.groups = L.groups
  BY <1>1, <1>2, UpdateType DEF WorldType
<1> HIDE DEF V
<1>5. U \in WorldType /\ SameHoldings(V, U)
  <2>1. "RELEASED" \in Status
    BY DEF Status, Dead
  <2>2. SetStatus(V, p, "RELEASED") \in WorldType /\ SameHoldings(V, SetStatus(V, p, "RELEASED"))
    BY <1>4, <2>1, SetStatusType, SetStatusSame
  <2>3. SameHoldings(V, V)
    BY DEF SameHoldings
  <2> QED BY <1>3, <1>4, <2>2, <2>3
<1>6. ASSUME NEW q \in Pid
      PROVE  U.pcb[q].group = W.pcb[q].group /\ (U.pcb[q].held <=> W.pcb[q].held /\ q # p)
  <2>1. V.pcb[q] = IF q = p THEN row ELSE W.pcb[q]
    BY <1>1, <1>4 DEF WorldType
  <2>2. V.pcb[q].group = W.pcb[q].group /\ (V.pcb[q].held <=> W.pcb[q].held /\ q # p)
    BY <1>1, <1>2, <2>1
  <2> QED BY <1>5, <2>2 DEF SameHoldings
<1>7. U.members = LeaveGroups(W, {p}).members /\ U.groups = LeaveGroups(W, {p}).groups
  BY <1>4, <1>5 DEF SameHoldings, L
<1>8. Frame(W, U, {p}, {})
  BY FreeResourcesFrame DEF U
<1>9. InHand(U, K)
  <2>1. \A q \in Pid : U.pcb[q].held => W.pcb[q].held /\ U.pcb[q].group = W.pcb[q].group /\ q \notin {p}
    BY <1>6
  <2>2. \A q \in Pid : U.pcb[q].held /\ q \in {p} => q \in K
    BY <1>6
  <2>3. \A q \in {p} : W.pcb[q].held
    OBVIOUS
  <2> QED BY <1>7, <1>8, <2>1, <2>2, <2>3, LeavingInHand
<1> QED BY <1>6, <1>9 DEF U

\* Destroy: a process that held what it needs, and whose threads did, holds nothing any more.
LEMMA DestroyInHand ==
  ASSUME NEW W \in WorldType, NEW p \in Pid, NEW K, InHand(W, K \cup {p}), W.pcb[p].held,
         p \notin W.pcb[p].threads,
         \A t \in W.pcb[p].threads : W.pcb[t].status \notin Dead => W.pcb[t].held
  PROVE  InHand(Destroy(W, p), K)
<1> DEFINE ths == W.pcb[p].threads
           V == SetStatus(W, p, "TERMINATED")
           T == DeleteThreads(V, p)
           C == ClearThreads(T, p)
           R == RedirectChildren(C, p)
           U == FreeResources(R, p)
           M == K \cup {p}
<1>1. /\ V \in WorldType /\ Frame(W, V, {p}, {}) /\ SameHoldings(W, V)
      /\ V.pcb[p].threads = ths
      /\ \A q \in Pid \ {p} : V.pcb[q].status = W.pcb[q].status
  BY StatusFacts, SetStatusType, SetStatusFrame, SetStatusSame, SetStatusRows
<1> HIDE DEF V
<1>2. InHand(V, M) /\ V.pcb[p].held
  <2>1. \A q \in Pid : V.pcb[q].held /\ q \in {p} => q \in M
    OBVIOUS
  <2>2. V.pcb[p].held
    BY <1>1 DEF SameHoldings
  <2> HIDE DEF M
  <2> QED BY <1>1, <2>1, <2>2, KeepsInHand DEF M
<1>3. \A t \in V.pcb[p].threads : V.pcb[t].status \notin Dead => V.pcb[t].held
  <2>1. ths \subseteq Pid
    BY DEF WorldType, PCB
  <2> QED BY <1>1, <2>1 DEF SameHoldings
<1> HIDE DEF ths, M
<1>4. T \in WorldType /\ InHand(T, M) /\ T.pcb[p].held
  BY <1>1, <1>2, <1>3, DeleteThreadsType, DeleteThreadsInHand DEF ths
<1> HIDE DEF T
<1>5. C \in WorldType /\ InHand(C, M) /\ C.pcb[p].held
  BY <1>4, ClearThreadsType, ClearThreadsInHand, ClearThreadsSame DEF SameHoldings
<1> HIDE DEF C
<1>6. R \in WorldType /\ InHand(R, M) /\ R.pcb[p].held
  BY <1>5, RedirectChildrenType, RedirectChildrenInHand, RedirectChildrenSame DEF SameHoldings
<1> HIDE DEF R
<1>7. InHand(U, M) /\ ~U.pcb[p].held
  BY <1>6, FreeResourcesInHand
<1> HIDE DEF U
<1>8. InHand(U, K)
  <2>1. \A q \in Pid : q \in M /\ U.pcb[q].held => q \in K
    BY <1>7 DEF M
  <2> QED BY <1>7, <2>1, FewerInHand
<1>9. U = Destroy(W, p)
  BY DEF Destroy, U, R, C, T, V
<1> QED BY <1>8, <1>9

LEMMA DeleteProcessInHand ==
  ASSUME NEW W \in WorldType, NEW p \in Pid, NEW K, InHand(W, K)
  PROVE  InHand(DeleteProcess(W, p), K)
<1>1. SameHoldings(W, DeleteProcess(W, p))
  BY DEF SameHoldings, DeleteProcess, WorldType
<1>2. Frame(W, DeleteProcess(W, p), {}, {p}) /\ DeleteProcess(W, p).pcb = W.pcb
  BY DeleteProcessFrame
<1> QED BY <1>1, <1>2, KeepsInHand

LEMMA GoneAreReleased ==
  ASSUME TypeOK, NEW b \in Pid, NEW r \in ForSchedule(b), NEW t \in r.gone
  PROVE  pcb[t].status = "RELEASED"
<1> DEFINE released == {u \in pcb[b].threads : pcb[u].status = "RELEASED"}
           turn == pcb[b].turn
           rest == pcb[b].threads \ turn
           Result(p, gone, next) == [p |-> p, gone |-> gone, turn |-> next]
<1>1. CASE pcb[b].status \in Dead
  <2>1. r = Result(b, {}, turn)
    BY <1>1 DEF ForSchedule
  <2> QED BY <2>1
<1>2. CASE pcb[b].status \notin Dead /\ turn = {}
  <2>1. r = MainTurn(b)
    BY <1>2 DEF ForSchedule
  <2> QED BY <2>1 DEF MainTurn
<1>3. CASE pcb[b].status \notin Dead /\ turn # {} /\ ~(turn \subseteq released)
  <2>1. r \in UNION {{Result(p, gone, turn \ (gone \cup {p})) :
                       gone \in SUBSET (turn \cap released)} : p \in turn \ released}
    BY <1>3 DEF ForSchedule
  <2>2. PICK p \in turn \ released, gone \in SUBSET (turn \cap released) :
           r = Result(p, gone, turn \ (gone \cup {p}))
    BY <2>1
  <2> QED BY <2>2
<1>4. CASE /\ pcb[b].status \notin Dead /\ turn # {} /\ turn \subseteq released
           /\ ~(rest \subseteq released)
  <2>1. r \in UNION {{Result(p, turn \cup gone, rest \ (gone \cup {p})) :
                       gone \in SUBSET (rest \cap released)} : p \in rest \ released}
    BY <1>4 DEF ForSchedule
  <2>2. PICK p \in rest \ released, gone \in SUBSET (rest \cap released) :
           r = Result(p, turn \cup gone, rest \ (gone \cup {p}))
    BY <2>1
  <2> QED BY <2>2, <1>4
<1>5. CASE /\ pcb[b].status \notin Dead /\ turn # {} /\ turn \subseteq released
           /\ rest \subseteq released
  <2>1. r = Result(b, pcb[b].threads, {})
    BY <1>5 DEF ForSchedule
  <2>2. t \in turn \/ t \in rest
    BY <2>1
  <2> QED BY <1>5, <2>2
<1> QED BY <1>1, <1>2, <1>3, <1>4, <1>5

LEMMA AfterForScheduleInHand ==
  ASSUME TypeOK, NEW b \in Pid, NEW r \in ForSchedule(b), NEW K, InHand(World, K)
  PROVE  InHand(AfterForSchedule(b, r), K)
<1> DEFINE V == AfterForSchedule(b, r)
           row == [pcb[b] EXCEPT !.threads = @ \ r.gone, !.turn = r.turn]
<1>1. Frame(World, V, {}, r.gone)
  BY AfterForScheduleFrame
<1>2. pcb[b] \in PCB /\ row.held = pcb[b].held /\ row.group = pcb[b].group
  BY DEF TypeOK, PCB
<1>3. /\ V.pcb = [pcb EXCEPT ![b] = row] /\ V.members = members /\ V.groups = groups
      /\ World.pcb = pcb /\ World.members = members /\ World.groups = groups
  BY <1>2 DEF AfterForSchedule, World, TypeOK, PCB
<1> HIDE DEF V, row
<1>4. ASSUME NEW q \in Pid PROVE V.pcb[q].held = pcb[q].held /\ V.pcb[q].group = pcb[q].group
  <2>1. V.pcb[q] = IF q = b THEN row ELSE pcb[q]
    BY <1>3 DEF TypeOK
  <2> QED BY <1>2, <2>1
<1>5. SameHoldings(World, V)
  BY <1>3, <1>4 DEF SameHoldings
<1> QED BY <1>1, <1>5, KeepsInHand DEF V

LEMMA EndChildWaitSame ==
  ASSUME NEW W \in WorldType, NEW p \in Pid
  PROVE  SameHoldings(W, EndChildWait(W, p))
<1> DEFINE row == [W.pcb[p] EXCEPT !.children = @ \ {W.pcb[p].waitChild},
                                 !.waitChild = NO_PROCESS_ID, !.status = "RUN"]
<1>1. W.pcb[p] \in PCB /\ "RUN" \in Status
  BY RowType DEF Status
<1>2. row \in PCB /\ row.held = W.pcb[p].held /\ row.group = W.pcb[p].group
  BY <1>1 DEF PCB
<1>3. EndChildWait(W, p) = [W EXCEPT !.pcb[p] = row]
  BY DEF EndChildWait
<1> HIDE DEF row
<1> QED BY <1>2, <1>3, UpdateSame

LEMMA RunnableSame ==
  ASSUME NEW W \in WorldType, NEW p \in Pid, NEW V \in Runnable(W, p)
  PROVE  SameHoldings(W, V)
<1>1. W.pcb[p] \in PCB /\ "RUN" \in Status /\ "RELEASED" \in Status
  BY RowType DEF Status, Dead
<1>2. CASE W.pcb[p].status = "RUN"
  BY <1>2 DEF Runnable, SameHoldings
<1>3. CASE W.pcb[p].status \in {"WAIT", "WAIT_KERNEL_SERVICE"}
  <2>1. V = SetStatus(W, p, "RUN")
    BY <1>3 DEF Runnable
  <2> QED BY <1>1, <2>1, SetStatusSame
<1>4. CASE W.pcb[p].status = "WAIT_CHILD"
  <2> DEFINE c == W.pcb[p].waitChild
             X == SetStatus(W, c, "RELEASED")
  <2>1. CASE ChildGone(W, p)
    <3>1. V = EndChildWait(W, p)
      BY <1>4, <2>1 DEF Runnable, ChildDone
    <3> QED BY <3>1, EndChildWaitSame
  <2>2. CASE ~ChildGone(W, p)
    <3>1. V = EndChildWait(X, p)
      BY <1>4, <2>2 DEF Runnable
    <3>2. c \in Pid
      BY <1>1, <2>2 DEF ChildGone, PCB
    <3> HIDE DEF c
    <3>3. X \in WorldType /\ SameHoldings(W, X)
      BY <1>1, <3>2, SetStatusType, SetStatusSame
    <3> HIDE DEF X
    <3>4. SameHoldings(X, V)
      BY <3>1, <3>3, EndChildWaitSame DEF X, c
    <3> QED BY <3>3, <3>4, SameTrans
  <2> QED BY <2>1, <2>2
<1>5. W.pcb[p].status \in {"RUN", "WAIT", "WAIT_KERNEL_SERVICE", "WAIT_CHILD"}
  BY DEF Runnable
<1> QED BY <1>2, <1>3, <1>4, <1>5

LEMMA SkippedSame ==
  ASSUME NEW W \in WorldType, NEW p \in Pid
  PROVE  SameHoldings(W, Skipped(W, p))
<1>1. "RELEASED" \in Status /\ SameHoldings(W, W)
  BY DEF Status, Dead, SameHoldings
<1> QED BY <1>1, SetStatusSame DEF Skipped

\* A new object joins its group.
LEMMA ConstructInHand ==
  ASSUME NEW W \in WorldType, NEW c \in Pid, NEW row \in PCB, NEW K, InHand(W, K),
         ~W.pcb[c].held, row.status \notin Dead, row.group \in W.groups \cup {c}
  PROVE  InHand(Construct(W, c, row), K)
<1> DEFINE V == Construct(W, c, row)
           h == row.group
<1>1. /\ V.pcb = [W.pcb EXCEPT ![c] = row] /\ V.live = W.live \cup {c}
      /\ V.members = [W.members EXCEPT ![h] = @ + 1]
      /\ V.groups = IF h = c THEN W.groups \cup {c} ELSE W.groups
  BY DEF Construct, WorldType
<1> HIDE DEF V
<1>2. h \in Pid
  BY DEF PCB
<1>3. ASSUME NEW q \in Pid PROVE V.pcb[q] = IF q = c THEN row ELSE W.pcb[q]
  BY <1>1 DEF WorldType
<1> HIDE DEF h
<1>4. ASSUME NEW g \in Pid
      PROVE  V.members[g] >= Cardinality(Holders(V, g)) /\ (g \in V.groups <=> V.members[g] # 0)
  <2>1. /\ W.members[g] \in Int /\ W.members[g] >= Cardinality(Holders(W, g))
        /\ g \in W.groups <=> W.members[g] # 0
    BY DEF InHand, Counted, WorldType
  <2>2. V.members[g] = IF g = h THEN W.members[g] + 1 ELSE W.members[g]
    BY <1>1, <1>2 DEF WorldType
  <2>3. Cardinality(Holders(W, g)) \in Nat /\ Cardinality(Holders(V, g)) \in Nat
    BY HoldersFinite
  <2>4. CASE g = h
    <3>1. Holders(V, g) \subseteq Holders(W, g) \cup {c}
      BY <1>3 DEF Holders
    <3>2. /\ IsFiniteSet(Holders(W, g) \cup {c})
          /\ Cardinality(Holders(W, g) \cup {c}) <= Cardinality(Holders(W, g)) + 1
      <4> DEFINE H == Holders(W, g)
      <4>1. IsFiniteSet(H) /\ Cardinality(H) \in Nat
        BY HoldersFinite
      <4> HIDE DEF H
      <4>2. /\ IsFiniteSet(H \cup {c})
            /\ Cardinality(H \cup {c}) = IF c \in H THEN Cardinality(H) ELSE Cardinality(H) + 1
        BY <4>1, FS_AddElement
      <4> QED BY <4>1, <4>2 DEF H
    <3>3. Cardinality(Holders(V, g)) <= Cardinality(Holders(W, g) \cup {c})
      BY <3>1, <3>2, FS_Subset
    <3>4. Cardinality(Holders(W, g) \cup {c}) \in Nat
      BY <3>2, FS_CardinalityType
    <3>5. V.members[g] >= Cardinality(Holders(V, g)) /\ V.members[g] # 0
      BY <2>1, <2>2, <2>3, <2>4, <3>2, <3>3, <3>4
    <3>6. g \in V.groups
      BY <1>1, <2>4 DEF h
    <3> QED BY <3>5, <3>6
  <2>5. CASE g # h
    <3>1. Holders(V, g) = Holders(W, g)
      BY <1>3, <2>5 DEF Holders, h
    <3>2. g \in V.groups <=> g \in W.groups
      BY <1>1, <2>5
    <3> QED BY <2>1, <2>2, <2>5, <3>1, <3>2
  <2> QED BY <2>4, <2>5
<1>5. ASSUME NEW q \in Pid, V.pcb[q].held, q \notin K
      PROVE  V.pcb[q].status \notin Dead
  BY <1>1, <1>3, <1>5 DEF InHand
<1> QED BY <1>4, <1>5 DEF InHand, Counted, V

-----------------------------------------------------------------------------
(* Who is listed *)

\* On a table W with the scheduler's list l: who is no longer new and has not ended is in the
\* list, or is in the list of its main thread, unless that has ended.
Listing(W, l) ==
  \A p \in Pid : \/ W.pcb[p].status \in Dead \cup {"NEW"}
                 \/ p \in l \/ p \in W.pcb[W.pcb[p].main].threads
                 \/ W.pcb[W.pcb[p].main].status \in Dead

\* Who runs is not new; a pid that has not been given out holds nothing, and is no main thread
\* but its own.
Listed == /\ Listing(World, list)
          /\ cur \in Pid => pcb[cur].status # "NEW"
          /\ \A p \in Pid \ Created : ~pcb[p].held
          /\ \A p \in Pid : pcb[p].main \in Created \cup {p}

\* From W to V who is new stays new or dies, who is dead stays dead, nobody takes anything,
\* and only the dead leave the list of a main thread that lives.
Spares(W, V) ==
  \A q \in Pid :
    /\ V.pcb[q].main = W.pcb[q].main
    /\ W.pcb[q].status \in Dead => V.pcb[q].status \in Dead
    /\ W.pcb[q].status = "NEW" => V.pcb[q].status \in Dead \cup {"NEW"}
    /\ V.pcb[q].status = "NEW" => W.pcb[q].status = "NEW"
    /\ V.pcb[q].held => W.pcb[q].held
    /\ V.pcb[q].status \notin Dead =>
         \A t \in W.pcb[q].threads : t \in V.pcb[q].threads \/ V.pcb[t].status \in Dead

LEMMA SparesTrans ==
  ASSUME NEW W \in WorldType, NEW V, NEW U, Spares(W, V), Spares(V, U)
  PROVE  Spares(W, U)
<1>1. \A q \in Pid : W.pcb[q].threads \subseteq Pid
  BY RowType DEF PCB
<1>2. ASSUME NEW q \in Pid, U.pcb[q].status \notin Dead, NEW t \in W.pcb[q].threads
      PROVE  t \in U.pcb[q].threads \/ U.pcb[t].status \in Dead
  <2>1. V.pcb[q].status \notin Dead
    BY <1>2 DEF Spares
  <2>2. CASE t \in V.pcb[q].threads
    BY <1>2, <2>2 DEF Spares
  <2>3. CASE V.pcb[t].status \in Dead
    BY <1>1, <2>3 DEF Spares
  <2> QED BY <1>2, <2>1, <2>2, <2>3 DEF Spares
<1>3. ASSUME NEW q \in Pid
      PROVE  /\ U.pcb[q].main = W.pcb[q].main
             /\ W.pcb[q].status \in Dead => U.pcb[q].status \in Dead
             /\ W.pcb[q].status = "NEW" => U.pcb[q].status \in Dead \cup {"NEW"}
             /\ U.pcb[q].status = "NEW" => W.pcb[q].status = "NEW"
             /\ U.pcb[q].held => W.pcb[q].held
  BY Zenon DEF Spares
<1> QED BY <1>2, <1>3 DEF Spares

LEMMA RowsSpared ==
  ASSUME NEW W, NEW V,
         \A q \in Pid : /\ V.pcb[q].main = W.pcb[q].main /\ V.pcb[q].threads = W.pcb[q].threads
                        /\ V.pcb[q].held => W.pcb[q].held
                        /\ \/ V.pcb[q].status = W.pcb[q].status
                           \/ V.pcb[q].status \in Dead
                           \/ V.pcb[q].status # "NEW" /\ W.pcb[q].status \notin Dead \cup {"NEW"}
  PROVE  Spares(W, V)
BY DEF Spares, Dead

LEMMA SetStatusSpares ==
  ASSUME NEW W \in WorldType, NEW p \in Pid, NEW s \in Status,
         s \in Dead \/ (s # "NEW" /\ W.pcb[p].status \notin Dead \cup {"NEW"})
  PROVE  Spares(W, SetStatus(W, p, s))
<1> DEFINE V == SetStatus(W, p, s)
<1>1. ASSUME NEW q \in Pid
      PROVE  /\ V.pcb[q].main = W.pcb[q].main /\ V.pcb[q].threads = W.pcb[q].threads
             /\ V.pcb[q].held = W.pcb[q].held
             /\ V.pcb[q].status = IF q = p THEN s ELSE W.pcb[q].status
  BY SetStatusRows, SetStatusSame DEF SameHoldings
<1> HIDE DEF V
<1>2. Spares(W, V)
  BY <1>1, RowsSpared
<1> QED BY <1>2 DEF V

LEMMA RedirectSpares ==
  ASSUME NEW W \in WorldType, NEW kids \in SUBSET Pid, NEW heir \in Pid \cup {NO_PROCESS_ID}
  PROVE  Spares(W, Redirect(W, kids, heir))
<1> DEFINE V == Redirect(W, kids, heir)
<1>1. ASSUME NEW q \in Pid
      PROVE  /\ V.pcb[q].main = W.pcb[q].main
             /\ V.pcb[q].threads = W.pcb[q].threads
             /\ V.pcb[q].held = W.pcb[q].held
             /\ V.pcb[q].status = IF q \in kids \cap W.map /\ W.pcb[q].status = "TERMINATED"
                                    THEN "RELEASED" ELSE W.pcb[q].status
  <2>1. W.pcb[q] \in PCB
    BY RowType
  <2> QED BY <2>1 DEF Redirect, WorldType, PCB
<1> HIDE DEF V
<1>2. Spares(W, V)
  BY <1>1, RowsSpared DEF Dead
<1> QED BY <1>2 DEF V

LEMMA DeleteThreadsSpares ==
  ASSUME NEW W \in WorldType, NEW p \in Pid
  PROVE  Spares(W, DeleteThreads(W, p))
<1> DEFINE ths == W.pcb[p].threads
           dying == {t \in ths : W.pcb[t].status \notin Dead}
           kids == UNION {W.pcb[t].children : t \in dying}
           R == Redirect(W, kids, p)
           V == LeaveGroups(R, dying)
           U == DeleteThreads(W, p)
<1>1. ths \in SUBSET Pid /\ dying \in SUBSET Pid
  BY DEF WorldType, PCB
<1>2. kids \in SUBSET Pid
  BY <1>1 DEF WorldType, PCB
<1>3. R \in WorldType /\ Spares(W, R)
  BY <1>2, RedirectType, RedirectSpares
<1>4. V \in WorldType /\ V.pcb = R.pcb
  BY <1>1, <1>3, LeaveGroupsType, LeaveGroupsFrame
<1>5. U = [V EXCEPT !.pcb = [q \in Pid |-> IF q \in ths THEN [V.pcb[q] EXCEPT !.status = "RELEASED", !.held = FALSE]
                                                    ELSE V.pcb[q]],
                !.live = @ \ ths, !.map = @ \ ths]
  BY DEF DeleteThreads
<1> HIDE DEF U, V, ths, R
<1>6. ASSUME NEW q \in Pid
      PROVE  /\ U.pcb[q].main = R.pcb[q].main /\ U.pcb[q].threads = R.pcb[q].threads
             /\ U.pcb[q].held => R.pcb[q].held
             /\ U.pcb[q].status = IF q \in ths THEN "RELEASED" ELSE R.pcb[q].status
  <2>1. V.pcb[q] \in PCB
    BY <1>4, RowType
  <2>2. U.pcb[q] = IF q \in ths THEN [V.pcb[q] EXCEPT !.status = "RELEASED", !.held = FALSE]
                                ELSE V.pcb[q]
    BY <1>4, <1>5 DEF WorldType
  <2> QED BY <1>4, <2>1, <2>2 DEF PCB
<1>7. Spares(R, U)
  BY <1>6, RowsSpared DEF Dead
<1>8. Spares(W, U)
  BY <1>3, <1>7, SparesTrans
<1> QED BY <1>8 DEF U

LEMMA ClearThreadsSpares ==
  ASSUME NEW W \in WorldType, NEW p \in Pid, W.pcb[p].status \in Dead
  PROVE  Spares(W, ClearThreads(W, p))
<1> DEFINE V == ClearThreads(W, p)
<1>1. ASSUME NEW q \in Pid
      PROVE  /\ V.pcb[q].main = W.pcb[q].main /\ V.pcb[q].status = W.pcb[q].status
             /\ V.pcb[q].held = W.pcb[q].held
             /\ q # p => V.pcb[q].threads = W.pcb[q].threads
  <2>1. W.pcb[q] \in PCB
    BY RowType
  <2> QED BY <2>1 DEF ClearThreads, WorldType, PCB
<1> HIDE DEF V
<1>2. Spares(W, V)
  BY <1>1 DEF Spares, Dead
<1> QED BY <1>2 DEF V

LEMMA RedirectChildrenSpares ==
  ASSUME NEW W \in WorldType, NEW p \in Pid
  PROVE  Spares(W, RedirectChildren(W, p))
<1>1. W.pcb[p].children \in SUBSET Pid /\ W.pcb[p].parent \in Pid \cup {NO_PROCESS_ID}
  BY RowType DEF PCB
<1> QED BY <1>1, RedirectSpares DEF RedirectChildren

LEMMA FreeResourcesSpares ==
  ASSUME NEW W \in WorldType, NEW p \in Pid
  PROVE  Spares(W, FreeResources(W, p))
<1> DEFINE L == LeaveGroups(W, {p})
           row == [L.pcb[p] EXCEPT !.held = FALSE]
           V == [L EXCEPT !.pcb[p] = row]
           U == FreeResources(W, p)
<1>1. L \in WorldType /\ L.pcb = W.pcb
  BY LeaveGroupsType, LeaveGroupsFrame
<1>2. L.pcb[p] \in PCB
  BY <1>1, RowType
<1>3. U = IF V.pcb[p].parent = NO_PROCESS_ID THEN SetStatus(V, p, "RELEASED") ELSE V
  <2>1. [L EXCEPT !.pcb[p].held = FALSE] = V
    BY <1>1 DEF WorldType
  <2> QED BY <2>1 DEF FreeResources
<1> HIDE DEF L, U
<1>4. /\ row \in PCB /\ row.main = L.pcb[p].main /\ row.threads = L.pcb[p].threads
      /\ ~row.held /\ row.status = L.pcb[p].status
  BY <1>2 DEF PCB
<1> HIDE DEF row
<1>5. V \in WorldType
  BY <1>1, <1>4, UpdateType
<1>6. ASSUME NEW q \in Pid
      PROVE  /\ V.pcb[q].main = W.pcb[q].main /\ V.pcb[q].threads = W.pcb[q].threads
             /\ V.pcb[q].held => W.pcb[q].held
             /\ V.pcb[q].status = W.pcb[q].status
  <2>1. V.pcb[q] = IF q = p THEN row ELSE W.pcb[q]
    BY <1>1 DEF WorldType
  <2> QED BY <1>1, <1>4, <2>1
<1> HIDE DEF V
<1>7. Spares(W, V)
  BY <1>6, RowsSpared
<1>8. Spares(V, SetStatus(V, p, "RELEASED"))
  BY <1>5, StatusFacts, SetStatusSpares
<1>9. Spares(W, SetStatus(V, p, "RELEASED"))
  BY <1>7, <1>8, SparesTrans
<1> QED BY <1>3, <1>7, <1>9 DEF U

LEMMA DestroySpares ==
  ASSUME NEW W \in WorldType, NEW p \in Pid
  PROVE  Spares(W, Destroy(W, p))
<1> DEFINE A == SetStatus(W, p, "TERMINATED")
           B == DeleteThreads(A, p)
           C == ClearThreads(B, p)
           D == RedirectChildren(C, p)
           E == FreeResources(D, p)
<1>1. A \in WorldType /\ Spares(W, A) /\ A.pcb[p].status \in Dead
  BY StatusFacts, SetStatusType, SetStatusSpares, SetStatusRows
<1> HIDE DEF A
<1>2. B \in WorldType /\ Spares(A, B)
  BY <1>1, DeleteThreadsType, DeleteThreadsSpares
<1> HIDE DEF B
<1>3. B.pcb[p].status \in Dead
  BY <1>1, <1>2 DEF Spares
<1>4. C \in WorldType /\ Spares(B, C)
  BY <1>2, <1>3, ClearThreadsType, ClearThreadsSpares
<1> HIDE DEF C
<1>5. D \in WorldType /\ Spares(C, D)
  BY <1>4, RedirectChildrenType, RedirectChildrenSpares
<1> HIDE DEF D
<1>6. Spares(D, E)
  BY <1>5, FreeResourcesSpares
<1> HIDE DEF E
<1>7. Spares(A, C)
  BY <1>1, <1>2, <1>4, SparesTrans
<1>8. Spares(C, E)
  BY <1>4, <1>5, <1>6, SparesTrans
<1>9. Spares(W, C)
  BY <1>1, <1>7, SparesTrans
<1>10. Spares(W, E)
  BY <1>8, <1>9, SparesTrans
<1> QED BY <1>10 DEF A, B, C, D, E, Destroy

LEMMA AfterForScheduleSpares ==
  ASSUME TypeOK, NEW b \in Pid, NEW r \in ForSchedule(b)
  PROVE  Spares(World, AfterForSchedule(b, r))
<1> DEFINE V == AfterForSchedule(b, r)
           row == [pcb[b] EXCEPT !.threads = @ \ r.gone, !.turn = r.turn]
<1>1. /\ pcb[b] \in PCB /\ row.held = pcb[b].held /\ row.main = pcb[b].main
      /\ row.status = pcb[b].status /\ row.threads = pcb[b].threads \ r.gone
  BY DEF TypeOK, PCB
<1>2. V.pcb = [pcb EXCEPT ![b] = row] /\ World.pcb = pcb
  BY <1>1 DEF AfterForSchedule, World, TypeOK, PCB
<1> HIDE DEF V, row
<1>3. ASSUME NEW q \in Pid PROVE V.pcb[q] = IF q = b THEN row ELSE pcb[q]
  BY <1>2 DEF TypeOK
<1>4. pcb[b].threads \subseteq Pid
  BY <1>1 DEF PCB
<1>5. ASSUME NEW t \in pcb[b].threads, t \in r.gone PROVE V.pcb[t].status \in Dead
  BY <1>1, <1>3, <1>4, <1>5, GoneAreReleased DEF Dead
<1>6. Spares(World, V)
  BY <1>1, <1>2, <1>3, <1>5 DEF Spares, Dead
<1> QED BY <1>6 DEF V

LEMMA EndChildWaitSpares ==
  ASSUME NEW W \in WorldType, NEW p \in Pid, W.pcb[p].status = "WAIT_CHILD"
  PROVE  Spares(W, EndChildWait(W, p))
<1> DEFINE V == EndChildWait(W, p)
<1>1. ASSUME NEW q \in Pid
      PROVE  /\ V.pcb[q].main = W.pcb[q].main /\ V.pcb[q].threads = W.pcb[q].threads
             /\ V.pcb[q].held = W.pcb[q].held
             /\ V.pcb[q].status = IF q = p THEN "RUN" ELSE W.pcb[q].status
  <2>1. W.pcb[q] \in PCB
    BY RowType
  <2> QED BY <2>1 DEF EndChildWait, WorldType, PCB
<1> HIDE DEF V
<1>2. Spares(W, V)
  BY <1>1, RowsSpared DEF Dead
<1> QED BY <1>2 DEF V

\* Whoever the scheduler switches to was neither new nor dead, and runs.
LEMMA RunnableSpares ==
  ASSUME NEW W \in WorldType, NEW p \in Pid, NEW V \in Runnable(W, p)
  PROVE  Spares(W, V) /\ V.pcb[p].status = "RUN"
<1>1. W.pcb[p] \in PCB
  BY RowType
<1>2. \A X \in WorldType : EndChildWait(X, p).pcb[p].status = "RUN"
  <2> SUFFICES ASSUME NEW X \in WorldType PROVE EndChildWait(X, p).pcb[p].status = "RUN"
    OBVIOUS
  <2>1. X.pcb[p] \in PCB
    BY RowType
  <2> QED BY <2>1 DEF EndChildWait, WorldType, PCB
<1>3. CASE W.pcb[p].status = "RUN"
  <2>1. V = W
    BY <1>3 DEF Runnable
  <2> QED BY <1>3, <2>1, RowsSpared
<1>4. CASE W.pcb[p].status \in {"WAIT", "WAIT_KERNEL_SERVICE"}
  <2>1. V = SetStatus(W, p, "RUN") /\ "RUN" \in Status /\ W.pcb[p].status \notin Dead \cup {"NEW"}
    BY <1>4, StatusFacts DEF Runnable
  <2> QED BY <2>1, SetStatusSpares, SetStatusRows
<1>5. CASE W.pcb[p].status = "WAIT_CHILD"
  <2>1. CASE ChildGone(W, p)
    <3>1. V = EndChildWait(W, p)
      BY <1>5, <2>1 DEF Runnable, ChildDone
    <3> QED BY <1>2, <1>5, <3>1, EndChildWaitSpares
  <2>2. CASE ~ChildGone(W, p)
    <3> DEFINE c == W.pcb[p].waitChild
               X == SetStatus(W, c, "RELEASED")
    <3>1. V = EndChildWait(X, p) /\ ChildDone(W, p)
      BY <1>5, <2>2 DEF Runnable
    <3>2. c \in Pid /\ W.pcb[c].status = "TERMINATED" /\ c # p /\ "RELEASED" \in Status /\ "RELEASED" \in Dead
      BY <1>1, <1>5, <2>2, <3>1 DEF ChildGone, ChildDone, PCB, Status, Dead
    <3> HIDE DEF c
    <3>3. X \in WorldType /\ Spares(W, X) /\ X.pcb[p].status = "WAIT_CHILD"
      BY <1>5, <3>2, SetStatusType, SetStatusSpares, SetStatusRows
    <3> HIDE DEF X
    <3>4. Spares(X, EndChildWait(X, p)) /\ EndChildWait(X, p).pcb[p].status = "RUN"
      BY <1>2, <3>3, EndChildWaitSpares
    <3> QED BY <3>1, <3>3, <3>4, SparesTrans DEF X, c
  <2> QED BY <2>1, <2>2
<1>6. W.pcb[p].status \in {"RUN", "WAIT", "WAIT_KERNEL_SERVICE", "WAIT_CHILD"}
  BY DEF Runnable
<1> QED BY <1>3, <1>4, <1>5, <1>6

LEMMA SkippedSpares ==
  ASSUME NEW W \in WorldType, NEW p \in Pid
  PROVE  Spares(W, Skipped(W, p))
<1>1. Spares(W, W)
  BY RowsSpared
<1>2. Spares(W, SetStatus(W, p, "RELEASED"))
  BY StatusFacts, SetStatusSpares
<1> QED BY <1>1, <1>2 DEF Skipped

-----------------------------------------------------------------------------
(* Each step keeps them listed *)

LEMMA ListingSpared ==
  ASSUME NEW W, NEW V, NEW l, NEW k, W \in WorldType, Listing(W, l), Spares(W, V),
         \A q \in Pid : q \in l => q \in k \/ V.pcb[q].status \in Dead
  PROVE  Listing(V, k)
<1> SUFFICES ASSUME NEW p \in Pid, V.pcb[p].status \notin Dead \cup {"NEW"}
             PROVE  \/ p \in k \/ p \in V.pcb[V.pcb[p].main].threads
                    \/ V.pcb[V.pcb[p].main].status \in Dead
  BY DEF Listing
<1> DEFINE m == W.pcb[p].main
<1>1. V.pcb[p].main = m /\ m \in Pid
  BY RowType DEF Spares, PCB
<1>2. W.pcb[p].status \notin Dead \cup {"NEW"}
  BY DEF Spares
<1> HIDE DEF m
<1>3. p \in l \/ p \in W.pcb[m].threads \/ W.pcb[m].status \in Dead
  BY <1>2 DEF Listing, m
<1> QED BY <1>1, <1>3 DEF Spares

LEMMA TableListed ==
  ASSUME TypeOK, Listed, NEW W, Spares(World, W), pcb' = W.pcb, nextPid' = nextPid,
         \A q \in Pid : q \in list => q \in list' \/ W.pcb[q].status \in Dead,
         cur' \in Pid => cur' = cur \/ W.pcb[cur'].status # "NEW"
  PROVE  Listed'
<1>1. World \in WorldType /\ World.pcb = pcb /\ World'.pcb = W.pcb
  BY WorldHasType DEF World
<1>2. Listing(W, list')
  BY <1>1, ListingSpared DEF Listed
<1>3. Listing(World, list)'
  BY <1>1, <1>2 DEF Listing
<1>4. cur' \in Pid => pcb'[cur'].status # "NEW"
  BY <1>1 DEF Listed, Spares
<1>5. /\ \A p \in Pid \ Created' : ~pcb'[p].held
      /\ \A p \in Pid : pcb'[p].main \in Created' \cup {p}
  <2>1. Created' = Created
    BY DEF Created
  <2> QED BY <1>1, <2>1 DEF Listed, Spares
<1> QED BY <1>3, <1>4, <1>5 DEF Listed

LEMMA SameListed == ASSUME TypeOK, Listed, UNCHANGED <<pcb, list, cur, nextPid>> PROVE Listed'
<1>1. Spares(World, World) /\ World.pcb = pcb
  BY RowsSpared DEF World
<1> QED BY <1>1, TableListed

LEMMA UndefinedListed == ASSUME TypeOK, Listed, Undefined PROVE Listed'
BY SameListed DEF Undefined, table

LEMMA EndOfTurnListed ==
  ASSUME TypeOK, Listed, NEW W \in WorldType, NEW p \in Pid, Spares(World, W), EndOfTurn(W, p), nextPid' = nextPid
  PROVE  Listed'
<1>1. pcb' = W.pcb /\ cur' \notin Pid
  BY SpecialPids DEF EndOfTurn, Becomes, DeleteProcess, WorldType
<1>2. \A q \in Pid : q \in list => q \in list' \/ W.pcb[q].status \in Dead
  BY DEF EndOfTurn, Dead
<1> QED BY <1>1, <1>2, TableListed

LEMMA SwitchBackListed ==
  ASSUME TypeOK, Listed, cur \in Pid, NEW W \in WorldType, Spares(World, W), NEW destroy \in BOOLEAN,
         SwitchBack(W, destroy)
  PROVE  Listed'
<1>1. CASE Undefined
  BY <1>1, UndefinedListed
<1>2. CASE ~Undefined
  <2> DEFINE U == IF destroy THEN Destroy(W, cur) ELSE W
  <2>1. EndOfTurn(U, cur) /\ nextPid' = nextPid
    BY <1>2 DEF SwitchBack
  <2>2. U \in WorldType /\ Spares(World, U)
    <3>1. Destroy(W, cur) \in WorldType /\ Spares(World, Destroy(W, cur))
      <4>1. Spares(W, Destroy(W, cur)) /\ Destroy(W, cur) \in WorldType
        BY DestroySpares, DestroyType
      <4> QED BY <4>1, WorldHasType, SparesTrans
    <3> QED BY <3>1
  <2> HIDE DEF U
  <2> QED BY <2>1, <2>2, EndOfTurnListed
<1> QED BY <1>1, <1>2

LEMMA SchedulerListed == ASSUME TypeOK, Listed, NEW b \in Pid, Dispatch(b) \/ Skip(b) PROVE Listed'
<1>1. PICK r \in ForSchedule(b) :
        \/ /\ \E V \in Runnable(AfterForSchedule(b, r), r.p) : Becomes(V)
           /\ cur' = r.p /\ list' = list
        \/ EndOfTurn(Skipped(AfterForSchedule(b, r), r.p), r.p)
  BY DEF Dispatch, Skip
<1> DEFINE p == r.p
           A == AfterForSchedule(b, r)
<1>2. World \in WorldType /\ p \in Pid /\ A \in WorldType /\ Spares(World, A) /\ nextPid' = nextPid
  BY WorldHasType, ForScheduleResult, AfterForScheduleFrame, AfterForScheduleSpares DEF Frame, Dispatch, Skip
<1> HIDE DEF p, A
<1>3. ASSUME NEW V \in Runnable(A, p), Becomes(V), cur' = p, list' = list PROVE Listed'
  <2>1. Spares(A, V) /\ V.pcb[p].status = "RUN"
    BY <1>2, RunnableSpares
  <2>2. Spares(World, V)
    BY <1>2, <2>1, SparesTrans
  <2>3. pcb' = V.pcb /\ V.pcb[cur'].status # "NEW"
    BY <1>3, <2>1 DEF Becomes
  <2> QED BY <1>2, <1>3, <2>2, <2>3, TableListed
<1>4. CASE EndOfTurn(Skipped(A, p), p)
  <2>1. Spares(A, Skipped(A, p)) /\ Skipped(A, p) \in WorldType
    BY <1>2, SkippedSpares, SkippedFrame DEF Frame
  <2>2. Spares(World, Skipped(A, p))
    BY <1>2, <2>1, SparesTrans
  <2> QED BY <1>2, <1>4, <2>1, <2>2, EndOfTurnListed
<1> QED BY <1>1, <1>3, <1>4 DEF p, A

LEMMA BlockListed ==
  ASSUME IInv, Listed, NEW p \in Pid, cur = p, NEW row \in PCB, Block(p, row),
         row.main = pcb[p].main, row.threads = pcb[p].threads, row.held = pcb[p].held, row.status # "NEW"
  PROVE  Listed'
<1> DEFINE W == [World EXCEPT !.pcb[p] = row]
<1>1. World \in WorldType /\ World.pcb = pcb /\ pcb[p].status \notin Dead \cup {"NEW"} /\ TypeOK
  BY WorldHasType DEF World, IInv, CurrentAlive, Listed
<1>2. W \in WorldType
  BY <1>1, UpdateType
<1>3. \A q \in Pid : W.pcb[q] = IF q = p THEN row ELSE pcb[q]
  BY <1>1 DEF WorldType
<1> HIDE DEF W
<1>4. Spares(World, W)
  BY <1>1, <1>3, RowsSpared
<1>5. CASE SwitchBack(W, FALSE)
  BY <1>1, <1>2, <1>4, <1>5, SwitchBackListed
<1> QED BY <1>1, <1>5, UndefinedListed DEF Block, W

LEMMA CallsListed ==
  ASSUME IInv, Listed, NEW p \in Pid,
         Exit(p) \/ Wait(p) \/ RequestKernelService(p) \/ KillSelf(p)
           \/ \E c \in Pid : WaitOnChild(p, c) \/ Kill(p, c)
  PROVE  Listed'
<1>1. World \in WorldType /\ World.pcb = pcb /\ Spares(World, World) /\ TypeOK /\ pcb[p] \in PCB
  BY WorldHasType, RowsSpared DEF World, IInv, TypeOK
<1>2. CASE Exit(p)
  BY <1>1, <1>2, SwitchBackListed DEF Exit, InUserCode, Running
<1>3. CASE Wait(p)
  <2> DEFINE row == [pcb[p] EXCEPT !.status = "WAIT"]
  <2>1. /\ row \in PCB /\ row.main = pcb[p].main /\ row.threads = pcb[p].threads
        /\ row.held = pcb[p].held /\ row.status # "NEW"
    BY <1>1 DEF PCB, Status
  <2>2. cur = p /\ Block(p, row)
    BY <1>3 DEF Wait, InUserCode, Running
  <2> HIDE DEF row
  <2> QED BY <2>1, <2>2, BlockListed
<1>4. ASSUME NEW c \in Pid, WaitOnChild(p, c) PROVE Listed'
  <2> DEFINE row == [pcb[p] EXCEPT !.waitChild = c, !.status = "WAIT_CHILD"]
  <2>1. /\ row \in PCB /\ row.main = pcb[p].main /\ row.threads = pcb[p].threads
        /\ row.held = pcb[p].held /\ row.status # "NEW"
    BY <1>1 DEF PCB, Status
  <2>2. cur = p /\ Block(p, row)
    BY <1>4 DEF WaitOnChild, InUserCode, Running
  <2> HIDE DEF row
  <2> QED BY <2>1, <2>2, BlockListed
<1>5. CASE RequestKernelService(p)
  <2> DEFINE W == SetStatus(World, p, "WAIT_KERNEL_SERVICE")
  <2>1. /\ pcb[p].status \notin Dead \cup {"NEW"} /\ "WAIT_KERNEL_SERVICE" \in Status
    BY <1>5, StatusFacts DEF IInv, RequestKernelService, InUserCode, Running, CurrentAlive, Listed
  <2>2. W \in WorldType /\ Spares(World, W)
    BY <1>1, <2>1, SetStatusType, SetStatusSpares
  <2>3. Undefined \/ (EndOfTurn(W, p) /\ nextPid' = nextPid)
    BY <1>5 DEF RequestKernelService
  <2> HIDE DEF W
  <2> QED BY <1>1, <2>2, <2>3, UndefinedListed, EndOfTurnListed
<1>6. CASE KillSelf(p)
  <2> DEFINE W == SetStatus(World, p, "TERMINATED")
  <2>1. cur = p /\ SwitchBack(W, TRUE)
    BY <1>6 DEF KillSelf, InUserCode, Running
  <2>2. W \in WorldType /\ Spares(World, W)
    BY <1>1, StatusFacts, SetStatusType, SetStatusSpares
  <2> HIDE DEF W
  <2> QED BY <1>1, <2>1, <2>2, SwitchBackListed
<1>7. ASSUME NEW c \in Pid, Kill(p, c) PROVE Listed'
  BY <1>1, <1>7, SameListed DEF Kill, table
<1> QED BY <1>2, <1>3, <1>4, <1>5, <1>6, <1>7

\* A new object: nobody else changes, but for a thread that joins the list of its main thread.
LEMMA FreshListed ==
  ASSUME IInv, Listed, NEW n \in Pid, n = nextPid, nextPid' = n + 1, cur' = cur, list' = list,
         NEW row \in PCB, pcb'[n] = row,
         \A b \in Pid \ {n} : /\ pcb'[b].main = pcb[b].main /\ pcb'[b].status = pcb[b].status
                              /\ pcb'[b].held = pcb[b].held /\ pcb[b].threads \subseteq pcb'[b].threads,
         row.status = "NEW" \/ n \in pcb'[row.main].threads, row.main \in Created \cup {n}
  PROVE  Listed'
<1>1. n \notin Created /\ Created' = Created \cup {n} /\ World.pcb = pcb /\ World'.pcb = pcb'
  BY DEF Created, World, IInv, TypeOK, Pid
<1>2. cur \in Pid => cur # n
  BY <1>1 DEF IInv, CurrentAlive
<1>3. ASSUME NEW p \in Pid, pcb'[p].status \notin Dead \cup {"NEW"}
      PROVE  \/ p \in list' \/ p \in pcb'[pcb'[p].main].threads
             \/ pcb'[pcb'[p].main].status \in Dead
  <2>1. CASE p = n
    BY <1>3, <2>1
  <2>2. CASE p # n
    <3> DEFINE m == pcb[p].main
    <3>1. pcb'[p].main = m /\ pcb[p].status \notin Dead \cup {"NEW"} /\ m \in Pid
      BY <1>3, <2>2 DEF IInv, TypeOK, PCB
    <3> HIDE DEF m
    <3>2. p \in list \/ p \in pcb[m].threads \/ pcb[m].status \in Dead
      BY <1>1, <3>1 DEF Listed, Listing, m
    <3>3. m # n
      BY <1>1, <2>2 DEF Listed, m
    <3> QED BY <3>1, <3>2, <3>3
  <2> QED BY <2>1, <2>2
<1>4. Listing(World, list)'
  BY <1>1, <1>3 DEF Listing
<1>5. cur' \in Pid => pcb'[cur'].status # "NEW"
  BY <1>2 DEF Listed
<1>6. \A p \in Pid \ Created' : ~pcb'[p].held
  BY <1>1 DEF Listed
<1>7. \A p \in Pid : pcb'[p].main \in Created' \cup {p}
  BY <1>1 DEF Listed
<1> QED BY <1>4, <1>5, <1>6, <1>7 DEF Listed

\* The row of a creation that fails, and a construction in the present state.
LEMMA FailedRow ==
  ASSUME IInv, nextPid \in Pid, NEW par \in Pid \cup {NO_PROCESS_ID}
  PROVE  LET row == NewProcess(nextPid, par, nextPid, "NEW")
         IN  row \in PCB /\ row.main = nextPid /\ row.status = "NEW"
<1>1. "NEW" \in Status
  BY DEF Status
<1> QED BY <1>1, NewRow

LEMMA ConstructOnWorld ==
  ASSUME TypeOK, NEW c \in Pid, NEW row \in PCB
  PROVE  /\ Construct(World, c, row) \in WorldType
         /\ Construct(World, c, row).pcb = [pcb EXCEPT ![c] = row]
<1>1. World \in WorldType /\ World.pcb = pcb
  BY WorldHasType DEF World
<1>2. Construct(World, c, row) \in WorldType
  BY <1>1, ConstructType
<1>3. Construct(World, c, row).pcb = [World.pcb EXCEPT ![c] = row]
  BY <1>1, ConstructRows
<1> QED BY <1>1, <1>2, <1>3

LEMMA CreateListed ==
  ASSUME IInv, Listed, NEW p \in Pid,
         \/ \E par \in Pid \cup {NO_PROCESS_ID} : CreateProcess(p, par) \/ \E q : CreateFails(p, par, q)
         \/ \E q \in Pid : CreateThread(p, q)
  PROVE  Listed'
<1> DEFINE n == nextPid
<1>0. TypeOK
  BY DEF IInv
<1>1. CASE Undefined
  BY <1>0, <1>1, UndefinedListed
<1>2. CASE ~Undefined
  <2>1. n < MaxPid /\ nextPid' = n + 1 /\ cur' = cur /\ list' = list
    BY ZenonT(40), <1>2 DEF CreateProcess, CreateFails, CreateThread
  <2>2. n \in Pid /\ n \notin Created
    BY <2>1, NextPidFresh
  <2>3. World \in WorldType /\ World.pcb = pcb /\ pcb \in [Pid -> PCB] /\ "NEW" \in Status
    BY <1>0, WorldHasType DEF World, TypeOK, Status
  <2>4. ASSUME NEW row \in PCB, row.main = n, row.status = "NEW", pcb' = [pcb EXCEPT ![n] = row] PROVE Listed'
    <3>1. pcb'[n] = row /\ \A b \in Pid \ {n} : pcb'[b] = pcb[b]
      BY <2>2, <2>3, <2>4
    <3> QED BY <2>1, <2>2, <2>4, <3>1, FreshListed
  <2>5. ASSUME NEW par \in Pid \cup {NO_PROCESS_ID}, CreateProcess(p, par) PROVE Listed'
    <3> DEFINE row == NewProcess(n, par, n, "NEW")
    <3>1. Becomes(Construct(World, n, row))
      BY <1>2, <2>5 DEF CreateProcess
    <3>2. row \in PCB /\ row.main = n /\ row.status = "NEW"
      <4>1. nextPid \in Pid /\ "NEW" \in Status
        BY <2>2, <2>3
      <4> QED BY <4>1, NewRow
    <3> HIDE DEF row, n
    <3> DEFINE V == Construct(World, n, row)
    <3>3. V.pcb = [World.pcb EXCEPT ![n] = row]
      <4>1. n \in Pid /\ row \in PCB
        BY <2>2, <3>2
      <4> QED BY <1>0, <2>3, <4>1, ConstructOnWorld
    <3>4. pcb' = V.pcb
      BY <3>1 DEF Becomes
    <3>5. pcb' = [pcb EXCEPT ![n] = row]
      BY <2>3, <3>3, <3>4
    <3> QED BY <2>4, <3>2, <3>5
  <2>6. ASSUME NEW par \in Pid \cup {NO_PROCESS_ID}, NEW q, CreateFails(p, par, q) PROVE Listed'
    <3> DEFINE new == NewProcess(n, par, n, "NEW")
    <3>1. PICK taken \in BOOLEAN : Becomes(DeleteProcess(Construct(World, n, [new EXCEPT !.held = taken]), n))
      BY ZenonT(40), <1>2, <2>6 DEF CreateFails
    <3>2. new \in PCB /\ new.main = n /\ new.status = "NEW"
      BY <2>2, FailedRow
    <3> DEFINE row == [new EXCEPT !.held = taken]
               V == Construct(World, n, row)
    <3>3. Becomes(DeleteProcess(V, n))
      BY <3>1
    <3> HIDE DEF new
    <3>4. row \in PCB /\ row.main = n /\ row.status = "NEW"
      BY <3>2 DEF PCB
    <3> HIDE DEF row, n
    <3>5. V \in WorldType /\ V.pcb = [pcb EXCEPT ![n] = row]
      <4>1. n \in Pid /\ row \in PCB
        BY <2>2, <3>4
      <4> QED BY <1>0, <4>1, ConstructOnWorld
    <3> HIDE DEF V
    <3>6. pcb' = [pcb EXCEPT ![n] = row]
      BY <3>3, <3>5 DEF Becomes, DeleteProcess, WorldType
    <3> QED BY <2>4, <3>4, <3>6
  <2>7. ASSUME NEW q \in Pid, CreateThread(p, q) PROVE Listed'
    <3> DEFINE m == pcb[q].main
               row == NewProcess(n, m, m, "RUN")
               W == Construct(World, n, row)
    <3>1. /\ Becomes([W EXCEPT !.pcb[m].threads = @ \cup {n},
                               !.pcb[m].turn = IF @ = {} THEN {} ELSE @ \cup {n}])
          /\ m \in live
      BY ZenonT(40), <1>2, <2>7 DEF CreateThread
    <3>2. m \in Created /\ m \in Pid /\ m # n
      BY <2>2, <3>1 DEF IInv, ListOfMains, TypeOK
    <3>3. row \in PCB /\ row.main = m
      BY SMTT(40), <2>2, <3>2, NewRow, StatusFacts
    <3>9. n = nextPid
      OBVIOUS
    <3> HIDE DEF row, n, m
    <3>4. W \in WorldType /\ W.pcb = [pcb EXCEPT ![n] = row]
      <4>1. n \in Pid /\ row \in PCB
        BY <2>2, <3>3
      <4> QED BY <1>0, <4>1, ConstructOnWorld
    <3> HIDE DEF W
    <3>5. pcb' = [W.pcb EXCEPT ![m].threads = @ \cup {n}, ![m].turn = IF @ = {} THEN {} ELSE @ \cup {n}]
      BY <3>1, <3>4 DEF Becomes, WorldType
    <3>6. W.pcb[n] = row /\ \A b \in Pid \ {n} : W.pcb[b] = pcb[b]
      BY <2>2, <2>3, <3>4
    <3>7. pcb'[n] = row /\ \A b \in Pid \ {n, m} : pcb'[b] = pcb[b]
      BY <2>2, <2>3, <3>2, <3>4, <3>5, <3>6
    <3>8. /\ pcb'[m].main = pcb[m].main /\ pcb'[m].status = pcb[m].status /\ pcb'[m].held = pcb[m].held
          /\ pcb'[m].threads = pcb[m].threads \cup {n}
      <4>1. W.pcb[m] = pcb[m] /\ pcb[m] \in PCB
        BY <2>3, <3>2, <3>6
      <4> QED BY <2>3, <3>2, <3>4, <3>5, <4>1 DEF PCB
    <3>10. \A b \in Pid \ {n} : /\ pcb'[b].main = pcb[b].main /\ pcb'[b].status = pcb[b].status
                               /\ pcb'[b].held = pcb[b].held /\ pcb[b].threads \subseteq pcb'[b].threads
      BY <3>7, <3>8
    <3>11. n \in pcb'[row.main].threads
      BY <3>3, <3>8
    <3>12. n \in Pid /\ pcb'[n] = row /\ row \in PCB /\ row.main \in Created
      BY <2>2, <3>2, <3>3, <3>7
    <3> QED BY <2>1, <3>9, <3>10, <3>11, <3>12, FreshListed
  <2> QED BY <2>5, <2>6, <2>7
<1> QED BY <1>1, <1>2

LEMMA PublishListed ==
  ASSUME IInv, Listed, NEW p \in Pid, LinkToParent(p) \/ AddToSchedulerList(p) \/ AddToProcessMap(p)
  PROVE  Listed'
<1>1. TypeOK /\ pcb \in [Pid -> PCB] /\ World.pcb = pcb
  BY DEF IInv, TypeOK, World
<1>2. CASE LinkToParent(p)
  <2> DEFINE W == [World EXCEPT !.pcb = pcb']
  <2>1. \A q \in Pid : /\ pcb'[q].main = pcb[q].main /\ pcb'[q].threads = pcb[q].threads
                       /\ pcb'[q].held = pcb[q].held /\ pcb'[q].status = pcb[q].status
    BY <1>1, <1>2 DEF LinkToParent, PCB
  <2>2. W.pcb = pcb' /\ list' = list /\ cur' = cur /\ nextPid' = nextPid
    BY <1>2 DEF World, LinkToParent
  <2> HIDE DEF W
  <2>3. Spares(World, W)
    BY <1>1, <2>1, <2>2, RowsSpared
  <2> QED BY <1>1, <2>2, <2>3, TableListed
<1>3. CASE AddToSchedulerList(p)
  <2> DEFINE c == arg[p]
  <2>1. Creating(p) /\ UNCHANGED <<cur, nextPid>>
    BY <1>3 DEF AddToSchedulerList, Creating, CreateSteps
  <2>2. CASE UNCHANGED <<pcb, list>>
    BY <1>1, <2>1, <2>2, SameListed
  <2>3. CASE pcb' = [pcb EXCEPT ![c].status = "RUN"] /\ list' = list \cup {c}
    <3>1. c # cur /\ pcb[c].status \notin Dead
      BY <2>1 DEF IInv, NewIsPrivate
    <3> HIDE DEF c
    <3>2. ASSUME NEW q \in Pid
          PROVE  /\ pcb'[q].main = pcb[q].main /\ pcb'[q].threads = pcb[q].threads
                 /\ pcb'[q].held = pcb[q].held
                 /\ pcb'[q].status = IF q = c THEN "RUN" ELSE pcb[q].status
      BY <1>1, <2>3 DEF PCB
    <3>3. \A q \in Pid : pcb[q].main \in Pid
      BY <1>1 DEF PCB
    <3>4. Listing(World, list)'
      <4> SUFFICES ASSUME NEW q \in Pid, pcb'[q].status \notin Dead \cup {"NEW"}
                   PROVE  \/ q \in list' \/ q \in pcb'[pcb'[q].main].threads
                          \/ pcb'[pcb'[q].main].status \in Dead
        BY DEF Listing, World
      <4>1. CASE q = c
        BY <2>3, <4>1
      <4>2. CASE q # c
        <5>1. \/ q \in list \/ q \in pcb[pcb[q].main].threads
              \/ pcb[pcb[q].main].status \in Dead
          BY <1>1, <3>2, <4>2 DEF Listed, Listing
        <5> QED BY <2>3, <3>1, <3>2, <3>3, <5>1
      <4> QED BY <4>1, <4>2
    <3>5. cur' \in Pid => pcb'[cur'].status # "NEW"
      BY <2>1, <3>2 DEF Listed
    <3>6. /\ \A q \in Pid \ Created' : ~pcb'[q].held
          /\ \A q \in Pid : pcb'[q].main \in Created' \cup {q}
      <4>1. Created' = Created
        BY <2>1 DEF Created
      <4> QED BY <3>2, <4>1 DEF Listed
    <3> QED BY <3>4, <3>5, <3>6 DEF Listed
  <2> QED BY <1>3, <2>2, <2>3 DEF AddToSchedulerList
<1>4. CASE AddToProcessMap(p)
  BY <1>1, <1>4, SameListed, UndefinedListed DEF AddToProcessMap
<1> QED BY <1>2, <1>3, <1>4

LEMMA KillListed ==
  ASSUME IInv, Listed, NEW p \in Pid,
         KillMark(p) \/ KillThreads(p) \/ KillClear(p) \/ KillChildren(p) \/ KillFree(p)
  PROVE  Listed'
<1> DEFINE a == arg[p]
<1>0. TypeOK
  BY DEF IInv
<1>1. CASE Undefined
  BY <1>0, <1>1, UndefinedListed
<1>2. CASE ~Undefined
  <2>1. Killing(p) /\ UNCHANGED <<list, cur, nextPid>>
    BY <1>2 DEF KillMark, KillThreads, KillClear, KillChildren, KillFree, KillStep, Killing, KillSteps
  <2>2. a \in Pid /\ World \in WorldType /\ World.pcb = pcb
    BY <2>1, KillTargetFacts
  <2>3. ASSUME NEW W, Becomes(W), Spares(World, W) PROVE Listed'
    <3>1. pcb' = W.pcb
      BY <2>3 DEF Becomes
    <3> QED BY <1>0, <2>1, <2>3, <3>1, TableListed
  <2>4. CASE KillMark(p)
    <3>1. Becomes(SetStatus(World, a, "TERMINATED"))
      BY <1>2, <2>4 DEF KillMark, KillStep
    <3>2. Spares(World, SetStatus(World, a, "TERMINATED"))
      BY <2>2, StatusFacts, SetStatusSpares
    <3> QED BY <2>3, <3>1, <3>2
  <2>5. CASE KillThreads(p)
    <3>1. Becomes(DeleteThreads(World, a))
      BY <1>2, <2>5 DEF KillThreads, KillStep
    <3>2. Spares(World, DeleteThreads(World, a))
      BY <2>2, DeleteThreadsSpares
    <3> QED BY <2>3, <3>1, <3>2
  <2>6. CASE KillClear(p)
    <3>1. Becomes(ClearThreads(World, a)) /\ pc[p] = "kill_clear"
      BY <1>2, <2>6 DEF KillClear, KillStep
    <3>2. World.pcb[a].status \in Dead
      BY <2>1, <2>2, <3>1 DEF IInv, KillTarget
    <3>3. Spares(World, ClearThreads(World, a))
      BY <2>2, <3>2, ClearThreadsSpares
    <3> QED BY <2>3, <3>1, <3>3
  <2>7. CASE KillChildren(p)
    <3>1. Becomes(RedirectChildren(World, a))
      BY <1>2, <2>7 DEF KillChildren, KillStep
    <3>2. Spares(World, RedirectChildren(World, a))
      BY <2>2, RedirectChildrenSpares
    <3> QED BY <2>3, <3>1, <3>2
  <2>8. CASE KillFree(p)
    <3>1. Becomes(FreeResources(World, a))
      BY <1>2, <2>8 DEF KillFree, KillStep
    <3>2. Spares(World, FreeResources(World, a))
      BY <2>2, FreeResourcesSpares
    <3> QED BY <2>3, <3>1, <3>2
  <2> QED BY <2>4, <2>5, <2>6, <2>7, <2>8
<1> QED BY <1>1, <1>2

LEMMA InitListed == Init => Listed
<1> SUFFICES ASSUME Init PROVE Listed
  OBVIOUS
<1>1. World.pcb = pcb /\ list = {0} /\ Created = {0} /\ cur \notin Pid
  BY SpecialPids DEF Init, World, Created
<1>2. \A p \in Pid : /\ pcb[p].status = (IF p = 0 THEN "RUN" ELSE "NEW") /\ pcb[p].main = p
                     /\ pcb[p].held = (p = 0)
  BY DEF Init
<1> QED BY <1>1, <1>2 DEF Listed, Listing

LEMMA NextListed == ASSUME NEW roles PROVE IInv /\ Listed /\ [NextOf(roles)]_vars => Listed'
<1> SUFFICES ASSUME IInv, Listed, [NextOf(roles)]_vars PROVE Listed'
  OBVIOUS
<1>0. TypeOK
  BY DEF IInv
<1>1. ASSUME NEW b \in Pid, Dispatch(b) \/ Skip(b) PROVE Listed'
  BY <1>0, <1>1, SchedulerListed
<1>2. CASE Preempt
  <2>1. World \in WorldType /\ Spares(World, World)
    BY <1>0, WorldHasType, RowsSpared
  <2> QED BY <1>0, <1>2, <2>1, SwitchBackListed DEF Preempt
<1>3. ASSUME NEW p \in Pid, AnyCall(p) PROVE Listed'
  BY <1>3, CallsListed, CreateListed DEF AnyCall
<1>4. ASSUME NEW p \in Pid, Continues(p) PROVE Listed'
  BY <1>4, PublishListed, KillListed DEF Continues
<1>5. CASE UNCHANGED vars
  BY <1>0, <1>5, SameListed DEF vars
<1> QED BY <1>0, <1>1, <1>2, <1>3, <1>4, <1>5, CallsAreCalls DEF NextOf, Stop

-----------------------------------------------------------------------------
(* The steps and what the processes hold *)

AllInHand == InHand(World, Targets)

LEMMA HandsOver ==
  ASSUME NEW W, NEW K, InHand(W, K), Becomes(W), K \subseteq Targets'
  PROVE  AllInHand'
<1>1. /\ World'.pcb = W.pcb /\ World'.live = W.live
      /\ World'.members = W.members /\ World'.groups = W.groups
  BY DEF Becomes, World
<1>2. \A g \in Pid : Holders(World, g)' = Holders(W, g)
  BY <1>1 DEF Holders
<1>3. Counted(World)'
  BY <1>1, <1>2 DEF InHand, Counted
<1>4. \A p \in Pid : World'.pcb[p].held
        => World'.pcb[p].status \notin Dead \/ p \in Targets'
  BY <1>1 DEF InHand
<1> QED BY <1>3, <1>4 DEF AllInHand, InHand

LEMMA SameTargets == UNCHANGED <<pc, arg>> => Targets' = Targets
BY DEF Targets

\* A process that is not at a kill goes on with something else.
LEMMA OtherTargets ==
  ASSUME IInv, NEW p \in Pid, pc[p] \notin KillSteps \ {"kill_mark"}, NEW s, NEW x, Goto(p, s, x)
  PROVE  Targets \subseteq Targets'
<1> SUFFICES ASSUME NEW q \in Pid, pc[q] \in KillSteps \ {"kill_mark"} PROVE arg[q] \in Targets'
  BY DEF Targets
<1>1. pc'[q] = pc[q] /\ arg'[q] = arg[q]
  BY DEF Goto, IInv, TypeOK
<1> QED BY <1>1 DEF Targets

LEMMA EndOfTurnInHand ==
  ASSUME NEW W \in WorldType, NEW p \in Pid, InHand(W, Targets), EndOfTurn(W, p), UNCHANGED <<pc, arg>>
  PROVE  AllInHand'
<1>1. Targets \subseteq Targets'
  BY SameTargets
<1>2. CASE W.pcb[p].main = p /\ W.pcb[p].status = "RELEASED"
  <2>1. Becomes(DeleteProcess(W, p))
    BY <1>2 DEF EndOfTurn
  <2>2. InHand(DeleteProcess(W, p), Targets)
    BY DeleteProcessInHand
  <2> QED BY <1>1, <2>1, <2>2, HandsOver
<1>3. CASE ~(W.pcb[p].main = p /\ W.pcb[p].status = "RELEASED")
  <2>1. Becomes(W)
    BY <1>3 DEF EndOfTurn
  <2> QED BY <1>1, <2>1, HandsOver
<1> QED BY <1>2, <1>3

LEMMA UndefinedInHand == AllInHand /\ Undefined => AllInHand'
<1> SUFFICES ASSUME AllInHand, Undefined PROVE AllInHand'
  OBVIOUS
<1>1. Becomes(World) /\ UNCHANGED <<pc, arg>>
  BY DEF Undefined, table, calls, Becomes, World
<1> QED BY <1>1, SameTargets, HandsOver DEF AllInHand

LEMMA SwitchBackInHand ==
  ASSUME IInv, AllInHand, cur \in Pid, NEW W, NEW destroy \in BOOLEAN, SameHoldings(World, W),
         Frame(World, W, {cur}, {}), ~destroy => Frame(World, W, {}, {}), SwitchBack(W, destroy)
  PROVE  AllInHand'
<1>1. CASE Undefined
  BY <1>1, UndefinedInHand
<1>2. CASE ~Undefined
  <2> DEFINE U == IF destroy THEN Destroy(W, cur) ELSE W
  <2>1. EndOfTurn(U, cur) /\ UNCHANGED <<pc, arg>> /\ (destroy => SafeToDestroy(cur))
    BY <1>2 DEF SwitchBack, calls
  <2>2. W \in WorldType /\ World.pcb = pcb
    BY DEF Frame, World
  <2>3. InHand(U, Targets) /\ U \in WorldType
    <3>1. CASE destroy
      <4> DEFINE M == Targets \cup {cur}
      <4>1. InHand(World, M)
        BY FewerInHand DEF AllInHand
      <4>2. InHand(W, M)
        <5>1. \A q \in Pid : W.pcb[q].held /\ q \in {cur} => q \in M
          OBVIOUS
        <5> HIDE DEF M
        <5> QED BY <4>1, <5>1, KeepsInHand
      <4>3. pcb[cur].held /\ \A t \in pcb[cur].threads : pcb[t].status \notin Dead => pcb[t].held
        BY <2>1, <3>1 DEF SafeToDestroy, SafeThreads, SafeToLeave
      <4>4. /\ W.pcb[cur].held
            /\ W.pcb[cur].threads \subseteq pcb[cur].threads
            /\ cur \notin pcb[cur].threads
        BY <2>2, <4>3 DEF SameHoldings, Frame, IInv, ThreadsBelong
      <4>5. ASSUME NEW t \in W.pcb[cur].threads, W.pcb[t].status \notin Dead PROVE W.pcb[t].held
        <5>1. t \in pcb[cur].threads /\ t \in Pid
          BY <2>2, <4>4 DEF IInv, TypeOK, PCB
        <5>2. pcb[t].status \notin Dead
          BY <2>2, <4>5, <5>1 DEF Frame
        <5> QED BY <2>2, <4>3, <5>1, <5>2 DEF SameHoldings
      <4>6. InHand(Destroy(W, cur), Targets)
        BY <2>2, <4>2, <4>4, <4>5, DestroyInHand
      <4> QED BY <2>2, <3>1, <4>6, DestroyType
    <3>2. CASE ~destroy
      <4>1. InHand(W, Targets)
        BY <3>2, KeepsInHand DEF AllInHand
      <4> QED BY <2>2, <3>2, <4>1
    <3> QED BY <3>1, <3>2
  <2> HIDE DEF U
  <2> QED BY <2>1, <2>3, EndOfTurnInHand
<1> QED BY <1>1, <1>2

LEMMA WorldSame == SameHoldings(World, World)
BY DEF SameHoldings

LEMMA RowInHand ==
  ASSUME IInv, AllInHand, NEW p \in Pid, cur = p, NEW row \in PCB, Block(p, row),
         row.main = pcb[p].main, row.threads = pcb[p].threads, row.turn = pcb[p].turn,
         row.status \notin Dead, row.held = pcb[p].held, row.group = pcb[p].group
  PROVE  AllInHand'
<1>1. CASE p \in procMap
  <2>1. SwitchBack([World EXCEPT !.pcb[p] = row], FALSE)
    BY <1>1 DEF Block
  <2>2. pcb[p].status \notin Dead
    BY DEF IInv, CurrentAlive
  <2>3. World \in WorldType /\ World.pcb = pcb
    BY WorldHasType DEF IInv, World
  <2>4. /\ Frame(World, [World EXCEPT !.pcb[p] = row], {}, {})
        /\ SameHoldings(World, [World EXCEPT !.pcb[p] = row])
    BY <2>2, <2>3, RowFrame, UpdateSame
  <2>5. Frame(World, [World EXCEPT !.pcb[p] = row], {cur}, {})
    BY <2>4 DEF Frame
  <2> QED BY <2>1, <2>4, <2>5, SwitchBackInHand
<1>2. CASE p \notin procMap
  BY <1>2, UndefinedInHand DEF Block
<1> QED BY <1>1, <1>2

LEMMA CallsInHand ==
  ASSUME IInv, AllInHand, NEW p \in Pid,
         Exit(p) \/ Wait(p) \/ RequestKernelService(p) \/ KillSelf(p)
           \/ \E c \in Pid : WaitOnChild(p, c) \/ Kill(p, c)
  PROVE  AllInHand'
<1>1. World \in WorldType /\ World.pcb = pcb /\ Frame(World, World, {}, {})
  BY WorldHasType DEF IInv, World, Frame
<1>2. Frame(World, World, {cur}, {})
  BY <1>1 DEF Frame
<1>3. pcb[p] \in PCB /\ \A s \in {"RUN", "WAIT", "WAIT_CHILD", "WAIT_KERNEL_SERVICE"} : s \in Status /\ s \notin Dead
  BY StatusFacts DEF IInv, TypeOK
<1>4. CASE Exit(p)
  BY <1>1, <1>2, <1>4, WorldSame, SwitchBackInHand DEF Exit, InUserCode, Running
<1>5. CASE Wait(p)
  <2> DEFINE row == [pcb[p] EXCEPT !.status = "WAIT"]
  <2>1. cur = p /\ Block(p, row)
    BY <1>5 DEF Wait, InUserCode, Running
  <2>2. /\ row \in PCB /\ row.main = pcb[p].main /\ row.threads = pcb[p].threads
        /\ row.turn = pcb[p].turn /\ row.status \notin Dead
        /\ row.held = pcb[p].held /\ row.group = pcb[p].group
    BY <1>3 DEF PCB
  <2> HIDE DEF row
  <2> QED BY <2>1, <2>2, RowInHand
<1>6. ASSUME NEW c \in Pid, WaitOnChild(p, c) PROVE AllInHand'
  <2> DEFINE row == [pcb[p] EXCEPT !.waitChild = c, !.status = "WAIT_CHILD"]
  <2>1. cur = p /\ Block(p, row)
    BY <1>6 DEF WaitOnChild, InUserCode, Running
  <2>2. /\ row \in PCB /\ row.main = pcb[p].main /\ row.threads = pcb[p].threads
        /\ row.turn = pcb[p].turn /\ row.status \notin Dead
        /\ row.held = pcb[p].held /\ row.group = pcb[p].group
    BY <1>3 DEF PCB
  <2> HIDE DEF row
  <2> QED BY <2>1, <2>2, RowInHand
<1>7. CASE RequestKernelService(p)
  <2> DEFINE W == SetStatus(World, p, "WAIT_KERNEL_SERVICE")
  <2>1. CASE p \notin procMap \cap live
    BY <1>7, <2>1, UndefinedInHand DEF RequestKernelService
  <2>2. CASE p \in procMap \cap live
    <3>1. cur = p /\ EndOfTurn(W, p) /\ UNCHANGED <<pc, arg>>
      BY <1>7, <2>2 DEF RequestKernelService, InUserCode, Running
    <3>2. pcb[p].status \notin Dead
      BY <3>1 DEF IInv, CurrentAlive
    <3>3. W \in WorldType /\ Frame(World, W, {}, {}) /\ SameHoldings(World, W)
      BY <1>1, <1>3, <3>2, SetStatusType, SetStatusFrame, SetStatusSame
    <3> HIDE DEF W
    <3>4. InHand(W, Targets)
      BY <3>3, KeepsInHand DEF AllInHand
    <3> QED BY <3>1, <3>3, <3>4, EndOfTurnInHand
  <2> QED BY <2>1, <2>2
<1>8. CASE KillSelf(p)
  <2> DEFINE W == SetStatus(World, p, "TERMINATED")
  <2>1. cur = p /\ SwitchBack(W, TRUE)
    BY <1>8 DEF KillSelf, InUserCode, Running
  <2>2. Frame(World, W, {cur}, {}) /\ SameHoldings(World, W)
    BY <1>1, <2>1, StatusFacts, SetStatusFrame, SetStatusSame
  <2> HIDE DEF W
  <2> QED BY <2>1, <2>2, SwitchBackInHand
<1>9. ASSUME NEW c \in Pid, Kill(p, c) PROVE AllInHand'
  <2>1. pc[p] = "user" /\ Goto(p, "kill_mark", c) /\ Becomes(World)
    BY <1>9 DEF Kill, InUserCode, Becomes, World, table
  <2>2. Targets \subseteq Targets'
    BY <2>1, OtherTargets DEF KillSteps
  <2> QED BY <2>1, <2>2, HandsOver DEF AllInHand
<1> QED BY <1>4, <1>5, <1>6, <1>7, <1>8, <1>9

LEMMA CreateInHand ==
  ASSUME IInv, AllInHand, Listed, NEW p \in Pid,
         \/ \E par \in Pid \cup {NO_PROCESS_ID} : CreateProcess(p, par) \/ \E q : CreateFails(p, par, q)
         \/ \E q \in Pid : CreateThread(p, q)
  PROVE  AllInHand'
<1> DEFINE n == nextPid
<1>1. CASE Undefined
  BY <1>1, UndefinedInHand
<1>2. CASE ~Undefined
  <2>1. n < MaxPid /\ nextPid' = n + 1 /\ pc[p] = "user"
    BY ZenonT(40), <1>2 DEF CreateProcess, CreateFails, CreateThread, InUserCode
  <2>2. n \in Pid /\ n \notin Created
    BY <2>1, NextPidFresh
  <2>3. ~pcb[n].held
    BY <2>2 DEF Listed
  <2>4. World \in WorldType /\ World.pcb = pcb /\ World.groups = groups
    BY WorldHasType DEF IInv, World
  <2>5. pc[p] \notin KillSteps \ {"kill_mark"}
    BY <2>1 DEF KillSteps
  <2>6. ASSUME NEW row \in PCB, row.status \notin Dead, row.group \in groups \cup {n}
        PROVE  Construct(World, n, row) \in WorldType /\ InHand(Construct(World, n, row), Targets)
    BY <2>2, <2>3, <2>4, <2>6, ConstructType, ConstructInHand DEF AllInHand
  <2>7. ASSUME NEW par \in Pid \cup {NO_PROCESS_ID}, CreateProcess(p, par) PROVE AllInHand'
    <3> DEFINE row == NewProcess(n, par, n, "NEW")
    <3>1. Becomes(Construct(World, n, row)) /\ Goto(p, "create_link", n) /\ row.group \in groups \cup {n}
      BY <1>2, <2>7 DEF CreateProcess
    <3>2. row \in PCB /\ row.status = "NEW"
      <4>1. "NEW" \in Status
        BY DEF Status
      <4> QED BY SMTT(40), <2>2, <4>1, NewRow
    <3> HIDE DEF row
    <3>3. InHand(Construct(World, n, row), Targets)
      BY <2>6, <3>1, <3>2 DEF Dead
    <3> QED BY <2>5, <3>1, <3>3, OtherTargets, HandsOver
  <2>8. ASSUME NEW par \in Pid \cup {NO_PROCESS_ID}, NEW q, CreateFails(p, par, q) PROVE AllInHand'
    <3>1. PICK taken \in BOOLEAN :
            LET row == [NewProcess(n, par, n, "NEW") EXCEPT !.held = taken]
            IN  /\ Becomes(DeleteProcess(Construct(World, n, row), n))
                /\ UNCHANGED <<pc, arg>> /\ row.group \in groups \cup {n}
      BY ZenonT(40), <1>2, <2>8 DEF CreateFails
    <3> DEFINE new == NewProcess(n, par, n, "NEW")
               row == [new EXCEPT !.held = taken]
               V == Construct(World, n, row)
    <3>2. Becomes(DeleteProcess(V, n)) /\ UNCHANGED <<pc, arg>> /\ row.group \in groups \cup {n}
      BY <3>1
    <3>3. new \in PCB /\ new.status = "NEW"
      <4>1. "NEW" \in Status
        BY DEF Status
      <4> QED BY <2>2, <4>1, NewRow
    <3> HIDE DEF new
    <3>4. row \in PCB /\ row.status = "NEW"
      BY <3>3 DEF PCB
    <3> HIDE DEF row
    <3>5. V \in WorldType /\ InHand(V, Targets)
      BY <2>6, <3>2, <3>4 DEF Dead
    <3> HIDE DEF V
    <3>6. InHand(DeleteProcess(V, n), Targets)
      BY <2>2, <3>5, DeleteProcessInHand
    <3>7. Targets \subseteq Targets'
      BY <3>2, SameTargets
    <3> QED BY <3>2, <3>6, <3>7, HandsOver
  <2>9. ASSUME NEW q \in Pid, CreateThread(p, q) PROVE AllInHand'
    <3> DEFINE m == pcb[q].main
               row == NewProcess(n, m, m, "RUN")
               W == Construct(World, n, row)
               next == IF W.pcb[m].turn = {} THEN {} ELSE W.pcb[m].turn \cup {n}
               mrow == [W.pcb[m] EXCEPT !.threads = @ \cup {n}, !.turn = next]
               V == [W EXCEPT !.pcb[m] = mrow]
    <3>1. /\ Becomes([W EXCEPT !.pcb[m].threads = @ \cup {n},
                               !.pcb[m].turn = IF @ = {} THEN {} ELSE @ \cup {n}])
          /\ Goto(p, "thread_publish", n) /\ row.group \in groups \cup {n}
      BY ZenonT(40), <1>2, <2>9 DEF CreateThread
    <3>2. m \in Pid
      BY DEF IInv, TypeOK, PCB
    <3>3. row \in PCB /\ row.status \notin Dead
      BY <2>2, <3>2, NewRow, StatusFacts
    <3> HIDE DEF row
    <3>4. W \in WorldType /\ InHand(W, Targets)
      BY <2>6, <3>1, <3>3
    <3> HIDE DEF W, m
    <3>5. W.pcb[m] \in PCB
      BY <3>2, <3>4, RowType
    <3>6. [W EXCEPT !.pcb[m].threads = @ \cup {n},
                    !.pcb[m].turn = IF @ = {} THEN {} ELSE @ \cup {n}] = V
      BY <3>2, <3>4, <3>5 DEF WorldType, PCB
    <3>7. /\ mrow \in PCB /\ mrow.held = W.pcb[m].held /\ mrow.group = W.pcb[m].group
          /\ mrow.status = W.pcb[m].status
      BY ZenonT(40), <2>2, <3>5 DEF PCB
    <3>8. SameHoldings(W, V)
      BY <3>2, <3>4, <3>7, UpdateSame
    <3>9. V.live = W.live /\ \A b \in Pid : V.pcb[b].status = W.pcb[b].status
      <4>1. V.live = W.live /\ V.pcb = [W.pcb EXCEPT ![m] = mrow]
        BY <3>4 DEF WorldType
      <4>2. ASSUME NEW b \in Pid PROVE V.pcb[b] = IF b = m THEN mrow ELSE W.pcb[b]
        BY <3>4, <4>1 DEF WorldType
      <4> QED BY ZenonT(40), <3>7, <4>1, <4>2
    <3> HIDE DEF mrow, V
    <3>10. InHand(V, Targets)
      <4>1. Counted(V)
        <5>1. \A g \in Pid : Holders(V, g) = Holders(W, g)
          BY <3>8 DEF Holders, SameHoldings
        <5> QED BY <3>4, <3>8, <5>1 DEF InHand, Counted, SameHoldings
      <4>2. \A b \in Pid : V.pcb[b].held => V.pcb[b].status \notin Dead \/ b \in Targets
        BY <3>4, <3>8, <3>9 DEF InHand, SameHoldings
      <4> QED BY <4>1, <4>2 DEF InHand
    <3>11. Becomes(V)
      BY <3>1, <3>6
    <3> QED BY <2>5, <3>1, <3>10, <3>11, OtherTargets, HandsOver
  <2> QED BY <2>7, <2>8, <2>9
<1> QED BY <1>1, <1>2

\* A step after which the same processes hold the same, and nobody has died.
LEMMA LocalInHand ==
  ASSUME AllInHand, Targets \subseteq Targets', UNCHANGED <<live, members, groups>>,
         \A q \in Pid : /\ pcb'[q].held = pcb[q].held /\ pcb'[q].group = pcb[q].group
                        /\ pcb[q].status \notin Dead => pcb'[q].status \notin Dead
  PROVE  AllInHand'
<1>1. /\ World.pcb = pcb /\ World.live = live /\ World.members = members /\ World.groups = groups
      /\ World'.pcb = pcb' /\ World'.live = live /\ World'.members = members /\ World'.groups = groups
  BY DEF World
<1>2. \A g \in Pid : Holders(World, g)' = Holders(World, g)
  BY <1>1 DEF Holders
<1>3. Counted(World)'
  BY <1>1, <1>2 DEF AllInHand, InHand, Counted
<1>4. \A p \in Pid : World'.pcb[p].held
        => World'.pcb[p].status \notin Dead \/ p \in Targets'
  BY <1>1 DEF AllInHand, InHand
<1> QED BY <1>3, <1>4 DEF AllInHand, InHand

LEMMA PublishInHand ==
  ASSUME IInv, AllInHand, NEW p \in Pid, LinkToParent(p) \/ AddToSchedulerList(p) \/ AddToProcessMap(p)
  PROVE  AllInHand'
<1>1. CASE Undefined
  BY <1>1, UndefinedInHand
<1>2. CASE ~Undefined
  <2>1. pcb \in [Pid -> PCB]
    BY DEF IInv, TypeOK
  <2>2. CASE LinkToParent(p)
    <3> DEFINE par == pcb[arg[p]].parent
    <3>1. pc[p] = "create_link" /\ Goto(p, "create_publish", arg[p]) /\ UNCHANGED <<live, members, groups>>
      BY <2>2 DEF LinkToParent
    <3>2. pcb' = pcb \/ (par \in Pid /\ pcb' = [pcb EXCEPT ![par].children = @ \cup {arg[p]}])
      BY <2>2 DEF LinkToParent, IInv, TypeOK
    <3> HIDE DEF par
    <3>3. ASSUME NEW q \in Pid
          PROVE  pcb'[q].held = pcb[q].held /\ pcb'[q].group = pcb[q].group /\ pcb'[q].status = pcb[q].status
      BY <2>1, <3>2 DEF PCB
    <3>4. Targets \subseteq Targets'
      BY <3>1, OtherTargets DEF KillSteps
    <3> QED BY <3>1, <3>3, <3>4, LocalInHand
  <2>3. CASE AddToSchedulerList(p)
    <3> DEFINE c == arg[p]
    <3>1. pc[p] = "create_publish" /\ Goto(p, "user", NO_PROCESS_ID) /\ UNCHANGED <<live, members, groups>>
      BY <2>3 DEF AddToSchedulerList
    <3>2. pcb' = pcb \/ pcb' = [pcb EXCEPT ![c].status = "RUN"]
      BY <2>3 DEF AddToSchedulerList
    <3> HIDE DEF c
    <3>3. ASSUME NEW q \in Pid
          PROVE  /\ pcb'[q].held = pcb[q].held /\ pcb'[q].group = pcb[q].group
                 /\ pcb[q].status \notin Dead => pcb'[q].status \notin Dead
      BY <2>1, <3>2 DEF PCB, Dead
    <3>4. Targets \subseteq Targets'
      BY <3>1, OtherTargets DEF KillSteps
    <3> QED BY <3>1, <3>3, <3>4, LocalInHand
  <2>4. CASE AddToProcessMap(p)
    <3>1. /\ pc[p] = "thread_publish" /\ Goto(p, "user", NO_PROCESS_ID)
          /\ UNCHANGED <<live, members, groups>> /\ pcb' = pcb
      BY <1>2, <2>4 DEF AddToProcessMap
    <3>2. Targets \subseteq Targets'
      BY <3>1, OtherTargets DEF KillSteps
    <3> QED BY <3>1, <3>2, LocalInHand
  <2> QED BY <2>2, <2>3, <2>4
<1> QED BY <1>1, <1>2

\* One stretch of Destroy run by a killer, which moves on to the next.
LEMMA KillStepInHand ==
  ASSUME IInv, NEW p \in Pid, pc[p] \in KillSteps, NEW next \in KillSteps \cup {"user"}, next # "kill_mark",
         NEW W, NEW K, InHand(W, K), Becomes(W),
         Goto(p, next, IF next = "user" THEN NO_PROCESS_ID ELSE arg[p]),
         K \subseteq Targets \cup {arg[p]}, next = "user" => arg[p] \notin K
  PROVE  AllInHand'
<1>1. /\ pc' = [pc EXCEPT ![p] = next]
      /\ arg' = [arg EXCEPT ![p] = IF next = "user" THEN NO_PROCESS_ID ELSE arg[p]]
  BY DEF Goto
<1>2. ASSUME NEW q \in Pid PROVE pc'[q] = (IF q = p THEN next ELSE pc[q])
                                 /\ (q # p \/ next # "user" => arg'[q] = arg[q])
  BY <1>1 DEF IInv, TypeOK
<1>3. ASSUME NEW a \in K PROVE a \in Targets'
  <2>1. CASE a = arg[p]
    <3>1. next \in KillSteps \ {"kill_mark"} /\ pc'[p] = next /\ arg'[p] = a
      BY <1>2, <1>3, <2>1 DEF KillSteps
    <3> QED BY <3>1 DEF Targets
  <2>2. CASE a # arg[p]
    <3>1. PICK q \in Pid : pc[q] \in KillSteps \ {"kill_mark"} /\ arg[q] = a
      BY <1>3, <2>2 DEF Targets
    <3>2. q # p
      BY <2>2, <3>1
    <3>3. pc'[q] = pc[q] /\ arg'[q] = a
      BY <1>2, <3>1, <3>2
    <3> QED BY <3>1, <3>3 DEF Targets
  <2> QED BY <2>1, <2>2
<1>4. K \subseteq Targets'
  BY <1>3
<1> QED BY <1>4, HandsOver

LEMMA KillInHand ==
  ASSUME IInv, AllInHand, NEW p \in Pid,
         KillMark(p) \/ KillThreads(p) \/ KillClear(p) \/ KillChildren(p) \/ KillFree(p)
  PROVE  AllInHand'
<1> DEFINE a == arg[p]
<1>1. CASE Undefined
  BY <1>1, UndefinedInHand
<1>2. CASE ~Undefined
  <2>1. pc[p] \in KillSteps /\ Killing(p)
    BY DEF KillMark, KillThreads, KillClear, KillChildren, KillFree, KillStep, Killing, KillSteps
  <2>2. a \in Pid /\ World \in WorldType /\ World.pcb = pcb
    BY <2>1, KillTargetFacts
  <2>3. {"kill_threads", "kill_clear", "kill_children", "kill_free"} \subseteq KillSteps
    BY DEF KillSteps
  <2>4. InHand(World, Targets) /\ Targets \subseteq Targets \cup {a}
    BY DEF AllInHand
  <2>5. CASE KillMark(p)
    <3> DEFINE W == SetStatus(World, a, "TERMINATED")
               K == Targets \cup {a}
    <3>1. Becomes(W) /\ Goto(p, "kill_threads", IF "kill_threads" = "user" THEN NO_PROCESS_ID ELSE a)
      BY <1>2, <2>5 DEF KillMark, KillStep
    <3>2. Frame(World, W, {a}, {}) /\ SameHoldings(World, W)
      BY <2>2, StatusFacts, SetStatusFrame, SetStatusSame
    <3> HIDE DEF W
    <3>3. InHand(World, K) /\ \A q \in Pid : W.pcb[q].held /\ q \in {a} => q \in K
      BY <2>4, FewerInHand
    <3> HIDE DEF K
    <3>4. InHand(W, K)
      BY <3>2, <3>3, KeepsInHand
    <3> QED BY <2>1, <2>3, <3>1, <3>4, KillStepInHand DEF K
  <2>6. CASE KillThreads(p)
    <3> DEFINE W == DeleteThreads(World, a)
    <3>1. /\ Becomes(W) /\ Goto(p, "kill_clear", IF "kill_clear" = "user" THEN NO_PROCESS_ID ELSE a)
          /\ SafeThreads(a)
      BY <1>2, <2>6 DEF KillThreads, KillStep
    <3>2. \A t \in World.pcb[a].threads : World.pcb[t].status \notin Dead => World.pcb[t].held
      BY <2>2, <3>1 DEF SafeThreads, SafeToLeave
    <3>3. InHand(W, Targets)
      BY <2>2, <2>4, <3>2, DeleteThreadsInHand
    <3> HIDE DEF W
    <3> QED BY <2>1, <2>3, <2>4, <3>1, <3>3, KillStepInHand
  <2>7. CASE KillClear(p)
    <3> DEFINE W == ClearThreads(World, a)
    <3>1. Becomes(W) /\ Goto(p, "kill_children", IF "kill_children" = "user" THEN NO_PROCESS_ID ELSE a)
      BY <1>2, <2>7 DEF KillClear, KillStep
    <3>2. InHand(W, Targets)
      BY <2>2, <2>4, ClearThreadsInHand
    <3> HIDE DEF W
    <3> QED BY <2>1, <2>3, <2>4, <3>1, <3>2, KillStepInHand
  <2>8. CASE KillChildren(p)
    <3> DEFINE W == RedirectChildren(World, a)
    <3>1. Becomes(W) /\ Goto(p, "kill_free", IF "kill_free" = "user" THEN NO_PROCESS_ID ELSE a)
      BY <1>2, <2>8 DEF KillChildren, KillStep
    <3>2. InHand(W, Targets)
      BY <2>2, <2>4, RedirectChildrenInHand
    <3> HIDE DEF W
    <3> QED BY <2>1, <2>3, <2>4, <3>1, <3>2, KillStepInHand
  <2>9. CASE KillFree(p)
    <3> DEFINE W == FreeResources(World, a)
               K == Targets \ {a}
    <3>1. /\ Becomes(W) /\ Goto(p, "user", IF "user" = "user" THEN NO_PROCESS_ID ELSE a)
          /\ SafeToLeave(a)
      BY <1>2, <2>9 DEF KillFree, KillStep
    <3>2. InHand(W, Targets) /\ ~W.pcb[a].held
      BY <2>2, <2>4, <3>1, FreeResourcesInHand DEF SafeToLeave
    <3> HIDE DEF W
    <3>3. \A q \in Pid : q \in Targets /\ W.pcb[q].held => q \in K
      BY <3>2
    <3>4. K \subseteq Targets \cup {a} /\ a \notin K
      OBVIOUS
    <3> HIDE DEF K
    <3>5. InHand(W, K)
      BY <3>2, <3>3, FewerInHand
    <3>6. "user" \in KillSteps \cup {"user"} /\ "user" # "kill_mark"
      OBVIOUS
    <3> QED BY <2>1, <3>1, <3>4, <3>5, <3>6, KillStepInHand
  <2> QED BY <2>5, <2>6, <2>7, <2>8, <2>9
<1> QED BY <1>1, <1>2

LEMMA SchedulerInHand ==
  ASSUME IInv, AllInHand, NEW b \in Pid, Dispatch(b) \/ Skip(b)
  PROVE  AllInHand'
<1>1. ASSUME NEW r \in ForSchedule(b)
      PROVE  /\ r.p \in Pid /\ AfterForSchedule(b, r) \in WorldType
             /\ InHand(AfterForSchedule(b, r), Targets)
  BY ForScheduleResult, AfterForScheduleFrame, AfterForScheduleInHand DEF IInv, AllInHand, Frame
<1>2. CASE Dispatch(b)
  <2>1. PICK r \in ForSchedule(b) : \E V \in Runnable(AfterForSchedule(b, r), r.p) : Becomes(V)
    BY <1>2 DEF Dispatch
  <2> DEFINE W == AfterForSchedule(b, r)
  <2>2. PICK V \in Runnable(W, r.p) : Becomes(V)
    BY <2>1
  <2>3. r.p \in Pid /\ W \in WorldType /\ InHand(W, Targets)
    BY <1>1
  <2> HIDE DEF W
  <2>4. InHand(V, Targets)
    BY <2>2, <2>3, RunnableFrame, RunnableSame, KeepsInHand
  <2>5. Targets \subseteq Targets'
    BY <1>2, SameTargets DEF Dispatch, calls
  <2> QED BY <2>2, <2>4, <2>5, HandsOver
<1>3. CASE Skip(b)
  <2>1. PICK r \in ForSchedule(b) : EndOfTurn(Skipped(AfterForSchedule(b, r), r.p), r.p)
    BY <1>3 DEF Skip
  <2> DEFINE W == AfterForSchedule(b, r)
             V == Skipped(W, r.p)
  <2>2. r.p \in Pid /\ W \in WorldType /\ InHand(W, Targets)
    BY <1>1
  <2> HIDE DEF W
  <2>3. V \in WorldType /\ InHand(V, Targets)
    <3>1. Frame(W, V, {}, {}) /\ SameHoldings(W, V)
      BY <2>2, SkippedFrame, SkippedSame
    <3>2. V \in WorldType
      BY <3>1 DEF Frame
    <3>3. InHand(V, Targets)
      BY <2>2, <3>1, KeepsInHand
    <3> QED BY <3>2, <3>3
  <2>4. UNCHANGED <<pc, arg>>
    BY <1>3 DEF Skip, calls
  <2> QED BY <2>1, <2>2, <2>3, <2>4, EndOfTurnInHand DEF W
<1> QED BY <1>2, <1>3

LEMMA InitInHand == Init => AllInHand
<1> SUFFICES ASSUME Init PROVE AllInHand
  OBVIOUS
<1>1. 0 \in Pid /\ Pid \subseteq Nat
  BY MaxPidAssumption DEF Pid
<1>2. ASSUME NEW p \in Pid PROVE pcb[p].held = (p = 0) /\ pcb[p].group = p /\ pcb[p].status \notin Dead
  BY DEF Init, Dead
<1>3. ASSUME NEW g \in Pid PROVE Cardinality(Holders(World, g)) = IF g = 0 THEN 1 ELSE 0
  <2>1. Holders(World, g) = IF g = 0 THEN {0} ELSE {}
    BY <1>1, <1>2 DEF Holders, World
  <2> QED BY <2>1, FS_EmptySet, FS_Singleton
<1>4. ASSUME NEW g \in Pid PROVE members[g] = (IF g = 0 THEN 1 ELSE 0) /\ (g \in groups <=> g = 0)
  BY DEF Init
<1>5. Counted(World)
  BY <1>3, <1>4 DEF Counted, World
<1>6. \A p \in Pid : pcb[p].held => pcb[p].status \notin Dead
  BY <1>2 DEF Init
<1> QED BY <1>5, <1>6 DEF AllInHand, InHand, World

LEMMA NextInHand == ASSUME NEW roles PROVE IInv /\ AllInHand /\ Listed /\ [NextOf(roles)]_vars => AllInHand'
<1> SUFFICES ASSUME IInv, AllInHand, Listed, [NextOf(roles)]_vars PROVE AllInHand'
  OBVIOUS
<1>1. ASSUME NEW b \in Pid, Dispatch(b) \/ Skip(b) PROVE AllInHand'
  BY <1>1, SchedulerInHand
<1>2. CASE Preempt
  <2>1. cur \in Pid /\ SwitchBack(World, FALSE)
    BY <1>2 DEF Preempt
  <2>2. Frame(World, World, {cur}, {}) /\ Frame(World, World, {}, {})
    BY WorldHasType DEF Frame, IInv
  <2> QED BY <2>1, <2>2, WorldSame, SwitchBackInHand
<1>3. ASSUME NEW p \in Pid, AnyCall(p) PROVE AllInHand'
  BY <1>3, CallsInHand, CreateInHand DEF AnyCall
<1>4. ASSUME NEW p \in Pid, Continues(p) PROVE AllInHand'
  BY <1>4, PublishInHand, KillInHand DEF Continues
<1>5. CASE UNCHANGED vars
  <2>1. Becomes(World) /\ UNCHANGED <<pc, arg>>
    BY <1>5 DEF vars, Becomes, World
  <2> QED BY <2>1, SameTargets, HandsOver DEF AllInHand
<1>6. TypeOK
  BY DEF IInv
<1> QED BY <1>1, <1>2, <1>3, <1>4, <1>5, <1>6, CallsAreCalls DEF NextOf, Stop

LEMMA InHandLeaksNothing == AllInHand /\ Listed => EndsLeakNothing
<1> SUFFICES ASSUME AllInHand, Listed PROVE EndsLeakNothing
  OBVIOUS
<1>1. \A g \in Pid : Holders(World, g) = {p \in Pid : pcb[p].held /\ pcb[p].group = g}
  BY DEF Holders, World
<1>2. GroupCountsHolders
  BY <1>1 DEF AllInHand, InHand, Counted, World, GroupCountsHolders
<1>3. ASSUME NEW p \in Pid, pcb[p].held, p \notin Targets
      PROVE  \/ pcb[p].status = "NEW"
             \/ pcb[p].status \notin Dead /\ (Scheduled(p) \/ pcb[pcb[p].main].status \in Dead)
  <2>1. pcb[p].status \notin Dead
    BY <1>3 DEF AllInHand, InHand, World
  <2> QED BY <2>1 DEF Listed, Listing, World, Scheduled
<1> QED BY <1>2, <1>3 DEF EndsLeakNothing, NothingLeaks

\* A process gives back its stack, pages and place in the group when it ends: until then a list
\* the scheduler walks has it, afterwards its killer is still at it; and no group goes before its
\* last member, however creations fail, processes exit and killers are preempted between the
\* steps of Kill.  What a failed creation took is not given back, and not claimed to be.
THEOREM NothingIsLost == Spec => []EndsLeakNothing
<1>1. Spec => [](AllInHand /\ Listed)
  <2>1. IInv /\ AllInHand /\ Listed /\ [Next]_vars => AllInHand' /\ Listed'
    BY NextInHand, NextListed DEF Next
  <2> QED BY <2>1, InitInHand, InitListed, InductiveInvariant, PTL DEF Spec
<1> QED BY <1>1, InHandLeaksNothing, PTL

-----------------------------------------------------------------------------
(* Where nobody kills *)

\* On a table W: who has not terminated, who is not a thread, and HasParent.
Living(W, p) == W.pcb[p].status \notin Dead
Leads(W, p) == W.pcb[p].main = p
Fathered(W, p) == W.pcb[p].parent \in W.live /\ W.pcb[W.pcb[p].parent].held

\* Memory holds what the map holds, and who ends gives everything back at once.
EndsAtOnce(W, N) ==
  /\ W.map \subseteq W.live /\ W.live \subseteq N
  /\ \A p \in W.live : W.pcb[p].held <=> Living(W, p)

\* A thread does not outlive its main thread, which is its parent and has it in its list.
ThreadsHaveMains(W, N) ==
  /\ \A p \in Pid : Leads(W, W.pcb[p].main) /\ W.pcb[p].main \in N \cup {p}
  /\ \A t \in W.live : ~Leads(W, t) /\ Living(W, t) =>
       /\ t \in W.pcb[W.pcb[t].main].threads /\ W.pcb[t].parent = W.pcb[t].main
       /\ W.pcb[t].main \in W.map /\ Living(W, W.pcb[t].main)
  /\ \A p \in Pid : Living(W, p) => W.pcb[p].turn \subseteq W.pcb[p].threads

\* Parents and children agree, and no pid is used before it is given out.
Kinship(W, N) ==
  /\ \A p \in Pid : W.pcb[p].parent \in N \cup {NO_PROCESS_ID} /\ W.pcb[p].children \subseteq N
  /\ \A p \in W.live : W.pcb[p].parent \in W.live => W.pcb[p].parent \in W.map
  /\ \A p \in W.live : Living(W, p) => \A k \in W.pcb[p].children : W.pcb[k].parent = p

\* The parent of p can hand it on, or it has ended with nobody to hand it to.
Cared(W, p) ==
  LET par == W.pcb[p].parent
  IN  \/ par \in W.map /\ Living(W, par) /\ p \in W.pcb[par].children
      \/ ~(par \in W.live /\ Living(W, par)) /\ ~Fathered(W, par)
EachIsCaredFor(W) ==
  \A p \in W.map :
    /\ Living(W, p) /\ Leads(W, p)
    /\ W.pcb[p].parent \in Pid /\ Leads(W, W.pcb[p].parent)
    => Cared(W, p)

Family(W, N) == EndsAtOnce(W, N) /\ ThreadsHaveMains(W, N) /\ Kinship(W, N) /\ EachIsCaredFor(W)

Alive(p) == pcb[p].status \notin Dead
Asked(q) == q \in requests \/ \E s \in Pid : serving[s] = q

\* Who runs or is in the middle of a call does not wait, and is in the map if it is no thread.
BusyRun ==
  /\ cur \in Pid => cur \in live
  /\ \A p \in Pid :
       (cur = p \/ Busy(p)) /\ Alive(p) =>
         /\ pcb[p].status = "RUN"
         /\ Threadless(p) => p \in procMap

\* Who has asked for a kernel service waits for it, unless it was a thread and is gone.
AskersWait ==
  \A q \in Pid : Asked(q) => \/ pcb[q].status = "WAIT_KERNEL_SERVICE" /\ q \in procMap
                             \/ q \notin live /\ ~Threadless(q)

\* A new process has its creator, the client of its creator or nobody as its parent, and is
\* linked to it before anybody can find it.
Linked(p) ==
  /\ Creating(p) => pcb[arg[p]].parent \in {p, serving[p], NO_PROCESS_ID}
  /\ pc[p] = "create_publish" =>
       LET par == pcb[arg[p]].parent
       IN  par \in Pid /\ Threadless(par) => par \in procMap /\ Alive(par) /\ arg[p] \in pcb[par].children
  /\ pc[p] = "thread_publish" => ~Threadless(arg[p])
LinkedFirst == \A p \in Pid : Linked(p)

AtWork == /\ list \subseteq procMap
          /\ \A p \in Pid : pc[p] \notin KillSteps /\ (Busy(p) \/ Asked(p) => p \in Created)
          /\ BusyRun /\ AskersWait /\ LinkedFirst

CalmIInv == Family(World, Created) /\ AtWork

LEMMA CalmAnswers == IInv /\ CalmIInv => ChildrenAreHandedOn
<1> SUFFICES ASSUME IInv, CalmIInv, NEW p \in procMap, Fatherless(p), Threadless(pcb[p].parent)
             PROVE  ~HasParent(pcb[p].parent)
  BY DEF ChildrenAreHandedOn
<1> DEFINE par == pcb[p].parent
<1>1. /\ World.pcb = pcb /\ World.live = live /\ World.map = procMap
      /\ p \in Pid /\ p \in live /\ par \in Pid
  BY DEF World, IInv, TypeOK, PCB, CalmIInv, Family, EndsAtOnce, Fatherless
<1>2. Leads(World, p)
  <2> SUFFICES ASSUME ~Leads(World, p) PROVE FALSE
    OBVIOUS
  <2>1. Living(World, p)
    BY <1>1 DEF Fatherless, Living
  <2>2. par \in procMap /\ Living(World, par)
    BY <1>1, <2>1 DEF CalmIInv, Family, ThreadsHaveMains
  <2>3. HasParent(p)
    BY <1>1, <2>2 DEF CalmIInv, Family, EndsAtOnce, HasParent
  <2> QED BY <2>3 DEF Fatherless
<1>3. Cared(World, p)
  BY <1>1, <1>2 DEF CalmIInv, Family, EachIsCaredFor, Living, Leads, Fatherless, Threadless
<1>4. CASE par \in procMap /\ Living(World, par)
  <2>1. HasParent(p)
    BY <1>1, <1>4 DEF CalmIInv, Family, EndsAtOnce, HasParent
  <2> QED BY <2>1 DEF Fatherless
<1> QED BY <1>1, <1>3, <1>4 DEF Cared, Fathered, HasParent

-----------------------------------------------------------------------------
(* Steps that end nobody *)

\* From W to V dead objects G are deleted, p may change its state and lose children that are
\* no concern of its, and threads that are dead leave the lists.
Gentle(W, V, G, p) ==
  /\ V \in WorldType
  /\ V.live = W.live \ G /\ V.map = W.map \ G
  /\ \A q \in G : q \in Pid /\ ~Living(W, q)
  /\ \A q \in Pid :
       /\ V.pcb[q].main = W.pcb[q].main
       /\ V.pcb[q].parent = W.pcb[q].parent
       /\ V.pcb[q].held = W.pcb[q].held
       /\ Living(V, q) <=> Living(W, q)
       /\ q # p /\ Living(W, q) => V.pcb[q].status = W.pcb[q].status
       /\ \A t \in W.pcb[q].threads : Living(W, t) => t \in V.pcb[q].threads
       /\ Living(W, q) /\ W.pcb[q].turn \subseteq W.pcb[q].threads => V.pcb[q].turn \subseteq V.pcb[q].threads
       /\ V.pcb[q].children \subseteq W.pcb[q].children
       /\ q # p => V.pcb[q].children = W.pcb[q].children
       /\ \A k \in W.pcb[q].children :
            k \in W.map /\ Living(W, k) /\ W.pcb[k].parent = q => k \in V.pcb[q].children

LEMMA GentleFamily ==
  ASSUME NEW N \in SUBSET Pid, NEW W \in WorldType, NEW V, NEW G, NEW p, Family(W, N), Gentle(W, V, G, p)
  PROVE  Family(V, N)
<1> USE DEF Family
<1>0. \A q \in Pid : W.pcb[q].main \in Pid /\ W.pcb[q].children \in SUBSET Pid
  BY DEF WorldType, PCB
<1>1. EndsAtOnce(V, N)
  BY DEF EndsAtOnce, Gentle
<1>2. ThreadsHaveMains(V, N)
  <2>1. \A q \in Pid : Leads(V, V.pcb[q].main) /\ V.pcb[q].main \in N \cup {q}
    BY <1>0 DEF ThreadsHaveMains, Gentle, Leads
  <2>2. ASSUME NEW t \in V.live, ~Leads(V, t), Living(V, t)
        PROVE  /\ t \in V.pcb[V.pcb[t].main].threads /\ V.pcb[t].parent = V.pcb[t].main
               /\ V.pcb[t].main \in V.map /\ Living(V, V.pcb[t].main)
    <3> DEFINE m == W.pcb[t].main
    <3>1. t \in W.live /\ t \in Pid /\ m \in Pid
      BY <1>0, <2>2 DEF Gentle, WorldType
    <3>2. V.pcb[t].main = m /\ V.pcb[t].parent = W.pcb[t].parent /\ Living(W, t) /\ ~Leads(W, t)
      BY <2>2, <3>1 DEF Gentle, Leads
    <3>3. t \in W.pcb[m].threads /\ W.pcb[t].parent = m /\ m \in W.map /\ Living(W, m)
      BY <3>1, <3>2 DEF ThreadsHaveMains
    <3>4. t \in V.pcb[m].threads /\ m \in V.map /\ Living(V, m)
      BY <3>1, <3>2, <3>3 DEF Gentle
    <3> QED BY <3>2, <3>3, <3>4
  <2>3. \A q \in Pid : Living(V, q) => V.pcb[q].turn \subseteq V.pcb[q].threads
    BY DEF ThreadsHaveMains, Gentle
  <2> QED BY <2>1, <2>2, <2>3 DEF ThreadsHaveMains
<1>3. Kinship(V, N)
  <2>1. \A q \in Pid : V.pcb[q].parent \in N \cup {NO_PROCESS_ID} /\ V.pcb[q].children \subseteq N
    BY DEF Kinship, Gentle
  <2>2. \A q \in V.live : V.pcb[q].parent \in V.live => V.pcb[q].parent \in V.map
    BY DEF Kinship, Gentle, WorldType
  <2>3. ASSUME NEW q \in V.live, Living(V, q), NEW k \in V.pcb[q].children
        PROVE  V.pcb[k].parent = q
    <3>1. q \in Pid /\ q \in W.live /\ Living(W, q) /\ k \in W.pcb[q].children /\ k \in Pid
      BY <1>0, <2>3 DEF Gentle, WorldType
    <3> QED BY <3>1 DEF Kinship, Gentle
  <2> QED BY <2>1, <2>2, <2>3 DEF Kinship
<1>4. EachIsCaredFor(V)
  <2> SUFFICES ASSUME NEW q \in V.map, Living(V, q), Leads(V, q), V.pcb[q].parent \in Pid, Leads(V, V.pcb[q].parent)
               PROVE  Cared(V, q)
    BY DEF EachIsCaredFor
  <2> DEFINE par == W.pcb[q].parent
  <2>1. q \in Pid /\ q \in W.map
    BY DEF Gentle, WorldType
  <2>2. V.pcb[q].parent = par /\ par \in Pid /\ Living(W, q) /\ Leads(W, q) /\ Leads(W, par)
    BY <2>1 DEF Gentle, Leads
  <2>3. Cared(W, q)
    BY <2>1, <2>2 DEF EachIsCaredFor
  <2>4. CASE par \in W.map /\ Living(W, par) /\ q \in W.pcb[par].children
    <3>1. par \in V.map /\ Living(V, par) /\ q \in V.pcb[par].children
      BY <2>1, <2>2, <2>4 DEF Gentle
    <3> QED BY <2>2, <3>1 DEF Cared
  <2>5. CASE ~(par \in W.live /\ Living(W, par)) /\ ~Fathered(W, par)
    <3>1. ~(par \in V.live /\ Living(V, par))
      BY <2>2, <2>5 DEF Gentle
    <3>2. V.pcb[par].parent = W.pcb[par].parent /\ W.live \subseteq Pid
      BY SMTT(40), <2>2 DEF Gentle, WorldType
    <3>3. ~Fathered(V, par)
      BY <2>5, <3>2 DEF Gentle, Fathered
    <3> QED BY <2>2, <3>1, <3>3 DEF Cared
  <2> QED BY <2>3, <2>4, <2>5 DEF Cared
<1> QED BY <1>1, <1>2, <1>3, <1>4

LEMMA GentleTrans ==
  ASSUME NEW W \in WorldType, NEW V, NEW U, NEW G, NEW H, NEW p, Gentle(W, V, G, p), Gentle(V, U, H, p)
  PROVE  Gentle(W, U, G \cup H, p)
<1>1. U \in WorldType /\ U.live = W.live \ (G \cup H) /\ U.map = W.map \ (G \cup H)
  BY DEF Gentle
<1>2. \A q \in G \cup H : q \in Pid /\ ~Living(W, q)
  BY DEF Gentle
<1>3. ASSUME NEW q \in Pid
      PROVE  /\ U.pcb[q].main = W.pcb[q].main
             /\ U.pcb[q].parent = W.pcb[q].parent
             /\ U.pcb[q].held = W.pcb[q].held
             /\ Living(U, q) <=> Living(W, q)
             /\ q # p /\ Living(W, q) => U.pcb[q].status = W.pcb[q].status
             /\ q # p => U.pcb[q].children = W.pcb[q].children
             /\ U.pcb[q].children \subseteq W.pcb[q].children
             /\ Living(W, q) /\ W.pcb[q].turn \subseteq W.pcb[q].threads => U.pcb[q].turn \subseteq U.pcb[q].threads
  BY DEF Gentle
<1>4. ASSUME NEW q \in Pid, NEW t \in W.pcb[q].threads, Living(W, t)
      PROVE  t \in U.pcb[q].threads
  <2>1. t \in Pid
    BY DEF WorldType, PCB
  <2> QED BY <1>4, <2>1 DEF Gentle
<1>5. ASSUME NEW q \in Pid, NEW k \in W.pcb[q].children, k \in W.map, Living(W, k), W.pcb[k].parent = q
      PROVE  k \in U.pcb[q].children
  <2>1. k \in Pid
    BY DEF WorldType, PCB
  <2>2. k \in V.pcb[q].children /\ k \in V.map /\ Living(V, k) /\ V.pcb[k].parent = q
    BY <1>5, <2>1 DEF Gentle
  <2> QED BY <2>2 DEF Gentle
<1> QED BY <1>1, <1>2, <1>3, <1>4, <1>5 DEF Gentle

LEMMA GentleSelf == ASSUME NEW W \in WorldType, NEW p PROVE Gentle(W, W, {}, p)
BY DEF Gentle

\* A new row that keeps all but the state, threads that are dead and children of no concern.
SameKin(W, p, row) ==
  /\ row.main = W.pcb[p].main /\ row.parent = W.pcb[p].parent /\ row.held = W.pcb[p].held
  /\ row.status \in Dead <=> W.pcb[p].status \in Dead
  /\ \A t \in W.pcb[p].threads : Living(W, t) => t \in row.threads
  /\ Living(W, p) /\ W.pcb[p].turn \subseteq W.pcb[p].threads => row.turn \subseteq row.threads
  /\ row.children \subseteq W.pcb[p].children
  /\ \A k \in W.pcb[p].children \ row.children :
       ~(k \in W.map /\ Living(W, k) /\ W.pcb[k].parent = p)

LEMMA RowGentle ==
  ASSUME NEW W \in WorldType, NEW V \in WorldType, NEW b \in Pid, NEW row, SameKin(W, b, row), NEW G, NEW p,
         V.live = W.live \ G, V.map = W.map \ G, \A q \in G : q \in Pid /\ ~Living(W, q),
         \A q \in Pid : V.pcb[q] = IF q = b THEN row ELSE W.pcb[q],
         p = b \/ row.children = W.pcb[b].children,
         p = b \/ row.status = W.pcb[b].status \/ row.status \in Dead
  PROVE  Gentle(W, V, G, p)
<1>1. ASSUME NEW q \in Pid
      PROVE  /\ V.pcb[q].main = W.pcb[q].main
             /\ V.pcb[q].parent = W.pcb[q].parent
             /\ V.pcb[q].held = W.pcb[q].held
             /\ Living(V, q) <=> Living(W, q)
             /\ q # p /\ Living(W, q) => V.pcb[q].status = W.pcb[q].status
             /\ \A t \in W.pcb[q].threads : Living(W, t) => t \in V.pcb[q].threads
             /\ Living(W, q) /\ W.pcb[q].turn \subseteq W.pcb[q].threads => V.pcb[q].turn \subseteq V.pcb[q].threads
             /\ V.pcb[q].children \subseteq W.pcb[q].children
             /\ q # p => V.pcb[q].children = W.pcb[q].children
             /\ \A k \in W.pcb[q].children :
                  k \in W.map /\ Living(W, k) /\ W.pcb[k].parent = q => k \in V.pcb[q].children
  <2>1. CASE q # b
    BY <2>1 DEF Living
  <2>2. CASE q = b
    <3>1. V.pcb[q] = row
      BY <2>2
    <3> QED BY <2>2, <3>1 DEF SameKin, Living
  <2> QED BY <2>1, <2>2
<1> QED BY <1>1 DEF Gentle

LEMMA SetStatusGentle ==
  ASSUME NEW W \in WorldType, NEW p \in Pid, NEW s \in Status, s \in Dead <=> W.pcb[p].status \in Dead, NEW q,
         q = p \/ s \in Dead
  PROVE  Gentle(W, SetStatus(W, p, s), {}, q)
<1> DEFINE V == SetStatus(W, p, s)
           row == [W.pcb[p] EXCEPT !.status = s]
<1>1. V \in WorldType
  BY SetStatusType
<1>2. W.pcb[p] \in PCB
  BY RowType
<1>3. /\ V.live = W.live /\ V.map = W.map
      /\ \A x \in Pid : V.pcb[x] = IF x = p THEN row ELSE W.pcb[x]
  BY DEF WorldType, SetStatus
<1>4. /\ row.status = s /\ row.main = W.pcb[p].main /\ row.parent = W.pcb[p].parent
      /\ row.held = W.pcb[p].held /\ row.threads = W.pcb[p].threads /\ row.turn = W.pcb[p].turn
      /\ row.children = W.pcb[p].children
  BY <1>2 DEF PCB
<1> HIDE DEF V, row
<1>5. SameKin(W, p, row)
  BY <1>4 DEF SameKin
<1>6. Gentle(W, V, {}, q)
  BY <1>1, <1>3, <1>4, <1>5, RowGentle
<1> QED BY <1>6 DEF V

LEMMA DeleteGentle ==
  ASSUME NEW W \in WorldType, NEW p \in Pid, ~Living(W, p), NEW q
  PROVE  Gentle(W, DeleteProcess(W, p), {p}, q)
<1>1. DeleteProcess(W, p) \in WorldType
  BY DeleteProcessType
<1>2. /\ DeleteProcess(W, p).live = W.live \ {p} /\ DeleteProcess(W, p).map = W.map \ {p}
      /\ DeleteProcess(W, p).pcb = W.pcb
  BY DEF DeleteProcess, WorldType
<1> QED BY <1>1, <1>2 DEF Gentle, Living

LEMMA TurnStaysListed ==
  ASSUME TypeOK, NEW b \in Pid, NEW r \in ForSchedule(b), pcb[b].status \notin Dead,
         pcb[b].turn \subseteq pcb[b].threads
  PROVE  r.turn \subseteq pcb[b].threads \ r.gone
<1> DEFINE released == {t \in pcb[b].threads : pcb[t].status = "RELEASED"}
           turn == pcb[b].turn
           rest == pcb[b].threads \ turn
           Result(p, gone, next) == [p |-> p, gone |-> gone, turn |-> next]
<1>1. CASE turn = {}
  BY <1>1 DEF ForSchedule, MainTurn
<1>2. CASE turn # {} /\ ~(turn \subseteq released)
  <2>1. PICK p \in turn \ released, gone \in SUBSET (turn \cap released) :
           r = Result(p, gone, turn \ (gone \cup {p}))
    BY <1>2 DEF ForSchedule
  <2> QED BY <2>1
<1>3. CASE turn # {} /\ turn \subseteq released /\ ~(rest \subseteq released)
  <2>1. PICK p \in rest \ released, gone \in SUBSET (rest \cap released) :
           r = Result(p, turn \cup gone, rest \ (gone \cup {p}))
    BY <1>3 DEF ForSchedule
  <2> QED BY <2>1
<1>4. CASE turn # {} /\ turn \subseteq released /\ rest \subseteq released
  <2>1. r = Result(b, pcb[b].threads, {})
    BY <1>4 DEF ForSchedule
  <2> QED BY <2>1
<1> QED BY <1>1, <1>2, <1>3, <1>4

LEMMA AfterForScheduleGentle ==
  ASSUME TypeOK, NEW b \in Pid, NEW r \in ForSchedule(b), NEW p
  PROVE  Gentle(World, AfterForSchedule(b, r), r.gone, p)
<1> DEFINE V == AfterForSchedule(b, r)
           row == [pcb[b] EXCEPT !.threads = @ \ r.gone, !.turn = r.turn]
<1>1. V \in WorldType /\ r.gone \subseteq pcb[b].threads
  BY AfterForScheduleFrame, ForScheduleResult DEF Frame
<1>2. /\ World \in WorldType /\ World.pcb = pcb /\ World.live = live /\ World.map = procMap
      /\ pcb \in [Pid -> PCB] /\ pcb[b] \in PCB
  BY WorldHasType DEF World, TypeOK
<1>3. /\ V.live = live \ r.gone /\ V.map = procMap \ r.gone
      /\ \A q \in Pid : V.pcb[q] = IF q = b THEN row ELSE pcb[q]
  BY <1>2 DEF AfterForSchedule, World
<1>4. /\ row.status = pcb[b].status /\ row.main = pcb[b].main /\ row.parent = pcb[b].parent
      /\ row.held = pcb[b].held /\ row.threads = pcb[b].threads \ r.gone /\ row.turn = r.turn
      /\ row.children = pcb[b].children
  BY <1>2 DEF PCB
<1>5. \A q \in r.gone : q \in Pid /\ ~Living(World, q)
  <2> SUFFICES ASSUME NEW q \in r.gone PROVE q \in Pid /\ ~Living(World, q)
    OBVIOUS
  <2>1. q \in Pid
    BY <1>1, <1>2 DEF PCB
  <2>2. pcb[q].status = "RELEASED"
    BY GoneAreReleased
  <2> QED BY <1>2, <2>1, <2>2 DEF Living, Dead
<1> HIDE DEF V, row
<1>6. SameKin(World, b, row)
  BY <1>2, <1>4, <1>5, TurnStaysListed DEF SameKin, Living
<1>7. Gentle(World, V, r.gone, p)
  BY <1>1, <1>2, <1>3, <1>4, <1>5, <1>6, RowGentle
<1> QED BY <1>7 DEF V

LEMMA EndChildWaitGentle ==
  ASSUME NEW W \in WorldType, NEW p \in Pid, W.pcb[p].status \notin Dead, 
         LET c == W.pcb[p].waitChild IN ~(c \in W.map /\ Living(W, c) /\ W.pcb[c].parent = p)
  PROVE  Gentle(W, EndChildWait(W, p), {}, p)
<1> DEFINE row == [W.pcb[p] EXCEPT !.children = @ \ {W.pcb[p].waitChild},
                                   !.waitChild = NO_PROCESS_ID, !.status = "RUN"]
<1>1. W.pcb[p] \in PCB
  BY RowType
<1>2. row \in PCB
  BY <1>1 DEF PCB, Status
<1>3. /\ row.status = "RUN" /\ row.main = W.pcb[p].main /\ row.parent = W.pcb[p].parent
      /\ row.held = W.pcb[p].held /\ row.threads = W.pcb[p].threads /\ row.turn = W.pcb[p].turn
      /\ row.children = W.pcb[p].children \ {W.pcb[p].waitChild}
  BY <1>1 DEF PCB
<1>4. /\ EndChildWait(W, p) = [W EXCEPT !.pcb[p] = row]
      /\ [W EXCEPT !.pcb[p] = row] \in WorldType
  BY <1>2, UpdateType DEF EndChildWait
<1> DEFINE V == EndChildWait(W, p)
<1>5. /\ V \in WorldType /\ V.live = W.live /\ V.map = W.map
      /\ \A x \in Pid : V.pcb[x] = IF x = p THEN row ELSE W.pcb[x]
  BY <1>4 DEF WorldType
<1> HIDE DEF row, V
<1>6. SameKin(W, p, row)
  BY <1>3 DEF SameKin, Dead
<1>7. Gentle(W, V, {}, p)
  BY <1>5, <1>6, RowGentle
<1> QED BY <1>7 DEF V

\* What a process that may run has become, and that a client that is not served yet does not run.
LEMMA RunnableGentle ==
  ASSUME NEW W \in WorldType, NEW p \in Pid, NEW V \in Runnable(W, p)
  PROVE  /\ Gentle(W, V, {}, p)
         /\ V.pcb[p].status = "RUN"
         /\ W.pcb[p].status = "WAIT_KERNEL_SERVICE" => ~Asked(p)
         /\ W.pcb[p].status # "WAIT_CHILD" => V.pcb[p].children = W.pcb[p].children
<1>1. W.pcb[p] \in PCB
  BY RowType
<1>2. CASE W.pcb[p].status = "RUN"
  <2>1. V = W
    BY <1>2 DEF Runnable
  <2> QED BY <1>2, <2>1, GentleSelf
<1>3. CASE W.pcb[p].status \in {"WAIT", "WAIT_KERNEL_SERVICE"}
  <2>1. /\ V = SetStatus(W, p, "RUN")
        /\ W.pcb[p].status = "WAIT_KERNEL_SERVICE" => Served(p)
    BY <1>3 DEF Runnable
  <2>2. "RUN" \in Status /\ "RUN" \notin Dead /\ W.pcb[p].status \notin Dead
    BY <1>3, StatusFacts
  <2>3. Gentle(W, V, {}, p)
    BY <2>1, <2>2, SetStatusGentle
  <2>4. V.pcb[p].status = "RUN" /\ V.pcb[p].children = W.pcb[p].children
    BY <1>1, <2>1 DEF SetStatus, WorldType, PCB
  <2>5. W.pcb[p].status = "WAIT_KERNEL_SERVICE" => ~Asked(p)
    BY <2>1 DEF Served, Asked
  <2> QED BY <2>3, <2>4, <2>5
<1>4. CASE W.pcb[p].status = "WAIT_CHILD"
  <2>1. W.pcb[p].status \notin Dead
    BY <1>4 DEF Dead
  <2>2. CASE ChildGone(W, p)
    <3>1. V = EndChildWait(W, p)
      BY <1>4, <2>2 DEF Runnable, ChildDone
    <3>2. LET c == W.pcb[p].waitChild IN ~(c \in W.map /\ Living(W, c) /\ W.pcb[c].parent = p)
      BY <2>2, SpecialPids DEF ChildGone, WorldType
    <3> QED BY <1>4, <2>1, <3>1, <3>2, EndChildWaitGentle, EndChildWaitFrame
  <2>3. CASE ~ChildGone(W, p)
    <3> DEFINE c == W.pcb[p].waitChild
               X == SetStatus(W, c, "RELEASED")
    <3>1. V = EndChildWait(X, p) /\ ChildDone(W, p)
      BY <1>4, <2>3 DEF Runnable
    <3>2. c \in Pid /\ W.pcb[c].status = "TERMINATED" /\ c # p
      BY <1>1, <1>4, <2>3, <3>1 DEF ChildGone, ChildDone, PCB
    <3>3. "RELEASED" \in Status /\ "RELEASED" \in Dead /\ W.pcb[c].status \in Dead
      BY <3>2, StatusFacts
    <3>4. X \in WorldType /\ Gentle(W, X, {}, p)
      BY <3>2, <3>3, SetStatusType, SetStatusGentle
    <3>5. X.pcb[p] = W.pcb[p] /\ X.pcb[c].status = "RELEASED"
      BY <3>2 DEF SetStatus, WorldType, PCB
    <3> HIDE DEF X
    <3>6. LET d == X.pcb[p].waitChild IN ~(d \in X.map /\ Living(X, d) /\ X.pcb[d].parent = p)
      BY SMTT(40), <3>3, <3>5 DEF Living
    <3>7. Gentle(X, V, {}, p) /\ V.pcb[p].status = "RUN"
      BY <2>1, <3>1, <3>4, <3>5, <3>6, EndChildWaitGentle, EndChildWaitFrame DEF X
    <3>8. Gentle(W, V, {} \cup {}, p)
      BY <3>4, <3>7, GentleTrans
    <3>9. {} \cup {} = {}
      OBVIOUS
    <3> QED BY <1>4, <3>7, <3>8, <3>9
  <2> QED BY <2>2, <2>3
<1>5. W.pcb[p].status \in {"RUN", "WAIT", "WAIT_KERNEL_SERVICE", "WAIT_CHILD"}
  BY DEF Runnable
<1> QED BY <1>2, <1>3, <1>4, <1>5

LEMMA SkippedGentle ==
  ASSUME NEW W \in WorldType, NEW p \in Pid, NEW q
  PROVE  Gentle(W, Skipped(W, p), {}, q)
<1>1. CASE Skipped(W, p) = W
  BY <1>1, GentleSelf
<1>2. CASE Skipped(W, p) # W
  <2>1. Skipped(W, p) = SetStatus(W, p, "RELEASED") /\ W.pcb[p].status = "TERMINATED"
    BY <1>2 DEF Skipped
  <2>2. "RELEASED" \in Status /\ "RELEASED" \in Dead /\ W.pcb[p].status \in Dead
    BY <2>1, StatusFacts
  <2> QED BY <2>1, <2>2, SetStatusGentle
<1> QED BY <1>1, <1>2

\* The end of a turn takes the process out of the table if it is released.
LEMMA EndOfTurnGentle ==
  ASSUME NEW W \in WorldType, NEW p \in Pid, EndOfTurn(W, p), list \subseteq W.map
  PROVE  \E V \in WorldType, G \in SUBSET {p} :
           Gentle(W, V, G, p) /\ Becomes(V) /\ list' \subseteq V.map /\ V.pcb = W.pcb
<1>1. CASE W.pcb[p].main = p /\ W.pcb[p].status = "RELEASED"
  <2> DEFINE V == DeleteProcess(W, p)
  <2>1. Becomes(V) /\ list' = list \ {p}
    BY <1>1 DEF EndOfTurn
  <2>2. ~Living(W, p)
    BY <1>1 DEF Living, Dead
  <2>3. V \in WorldType /\ V.map = W.map \ {p} /\ V.pcb = W.pcb
    BY DeleteProcessType DEF DeleteProcess, WorldType
  <2>4. Gentle(W, V, {p}, p)
    BY <2>2, DeleteGentle
  <2> QED BY <2>1, <2>3, <2>4
<1>2. CASE ~(W.pcb[p].main = p /\ W.pcb[p].status = "RELEASED")
  <2>1. Becomes(W) /\ list' = list
    BY <1>2 DEF EndOfTurn
  <2> QED BY <2>1, GentleSelf
<1> QED BY <1>1, <1>2

\* What the state around the table must be after a step that ends nobody: the process p that the
\* step is about stops, is run, asks for a service or waits.
LEMMA GentleStep ==
  ASSUME IInv, CalmIInv, NEW p \in Pid, p \in Created, NEW V, NEW G, Gentle(World, V, G, p), Becomes(V), nextPid' = nextPid,
         UNCHANGED <<pc, arg, serving>>, requests \subseteq requests', requests' \subseteq requests \cup {p},
         list' \subseteq procMap',
         cur' \in {p, Scheduler}, cur' = p => p \in live' /\ (Threadless(p) => p \in procMap'),
         cur' = p \/ (Busy(p) /\ Living(V, p)) => V.pcb[p].status = "RUN",
         Asked(p)' => \/ V.pcb[p].status = "WAIT_KERNEL_SERVICE" /\ p \in procMap'
                      \/ p \notin live' /\ ~Threadless(p),
         pcb[p].status # "WAIT_CHILD" => V.pcb[p].children = pcb[p].children
  PROVE  CalmIInv'
<1>1. /\ World \in WorldType /\ World.pcb = pcb /\ World.live = live /\ World.map = procMap
      /\ World'.pcb = V.pcb /\ World'.live = V.live /\ World'.map = V.map
      /\ pcb' = V.pcb /\ live' = V.live /\ procMap' = V.map
      /\ Created' = Created /\ Created \in SUBSET Pid
  BY SMTT(40), WorldHasType, CreatedPids DEF World, Becomes, IInv, Created
<1>2. Family(World, Created)'
  <2>1. Family(V, Created)
    BY <1>1, GentleFamily DEF CalmIInv
  <2> QED BY <1>1, <2>1 DEF Family, EndsAtOnce, ThreadsHaveMains, Kinship, EachIsCaredFor, Cared, Living, Leads, Fathered
<1>3. \A q \in Pid :
        /\ pcb'[q].main = pcb[q].main /\ pcb'[q].parent = pcb[q].parent
        /\ pcb'[q].status \notin Dead <=> pcb[q].status \notin Dead
        /\ q # p /\ pcb[q].status \notin Dead => pcb'[q].status = pcb[q].status
        /\ q # p => pcb'[q].children = pcb[q].children
        /\ q \in procMap /\ pcb[q].status \notin Dead => q \in procMap'
        /\ q \in procMap' => q \in procMap
  BY <1>1 DEF Gentle, Living
<1>4. live' \subseteq live
  BY <1>1 DEF Gentle
<1>5. BusyRun'
  <2>1. cur' \in Pid => cur' \in live'
    BY SpecialPids
  <2>2. ASSUME NEW q \in Pid, cur' = q \/ Busy(q)', Alive(q)'
        PROVE  pcb'[q].status = "RUN" /\ (Threadless(q)' => q \in procMap')
    <3>1. Alive(q) /\ (Busy(q)' <=> Busy(q)) /\ (Threadless(q)' <=> Threadless(q))
      BY <1>3, <2>2 DEF Alive, Busy, Threadless
    <3>2. CASE cur' = q
      <4>1. q = p
        BY <3>2, SpecialPids
      <4> QED BY <1>1, <3>1, <3>2, <4>1
    <3>3. CASE Busy(q)
      <4>1. pcb[q].status = "RUN" /\ (Threadless(q) => q \in procMap)
        BY <3>1, <3>3 DEF CalmIInv, AtWork, BusyRun
      <4>2. pcb'[q].status = "RUN"
        BY <1>1, <1>3, <2>2, <3>1, <3>3, <4>1 DEF Alive, Living
      <4> QED BY <1>3, <3>1, <4>1, <4>2 DEF Alive
    <3> QED BY <2>2, <3>1, <3>2, <3>3
  <2> QED BY <2>1, <2>2 DEF BusyRun
<1>6. AskersWait'
  <2> SUFFICES ASSUME NEW q \in Pid, Asked(q)'
               PROVE  \/ pcb'[q].status = "WAIT_KERNEL_SERVICE" /\ q \in procMap'
                      \/ q \notin live' /\ ~Threadless(q)'
    BY DEF AskersWait
  <2>1. Threadless(q)' <=> Threadless(q)
    BY <1>3 DEF Threadless
  <2>2. CASE q = p
    BY <1>1, <2>1, <2>2
  <2>3. CASE q # p
    <3>1. Asked(q)
      BY <2>3 DEF Asked
    <3>2. CASE pcb[q].status = "WAIT_KERNEL_SERVICE" /\ q \in procMap
      BY <1>3, <2>3, <3>2 DEF Dead
    <3>3. CASE q \notin live /\ ~Threadless(q)
      BY <1>4, <2>1, <3>3
    <3> QED BY <3>1, <3>2, <3>3 DEF CalmIInv, AtWork, AskersWait
  <2> QED BY <2>2, <2>3
<1>7. LinkedFirst'
  <2> SUFFICES ASSUME NEW q \in Pid PROVE Linked(q)'
    BY DEF LinkedFirst
  <2>0. Linked(q)
    BY DEF CalmIInv, AtWork, LinkedFirst
  <2>1. Busy(q) => arg[q] \in Pid
    BY <1>1 DEF IInv, BusyArgs
  <2>2. Creating(q)' => (pcb[arg[q]].parent \in {q, serving[q], NO_PROCESS_ID})'
    BY <1>3, <2>0, <2>1, StepKinds DEF Linked, Creating
  <2>3. ASSUME pc[q] = "create_publish", NEW par, par = pcb[arg[q]].parent, par \in Pid, Threadless(par)
        PROVE  par \in procMap' /\ Alive(par)' /\ arg[q] \in pcb'[par].children
    <3>1. par \in procMap /\ Alive(par) /\ arg[q] \in pcb[par].children
      BY <2>0, <2>3 DEF Linked
    <3>2. par \in {q, serving[q]}
      BY <2>0, <2>3, SpecialPids DEF Linked, Creating, CreateSteps
    <3>3. pcb[par].status \in {"RUN", "WAIT_KERNEL_SERVICE"}
      <4>1. CASE par = q
        <5>1. Busy(q)
          BY <2>3 DEF Busy
        <5> QED BY <3>1, <4>1, <5>1 DEF CalmIInv, AtWork, BusyRun
      <4>2. CASE par = serving[q]
        <5>1. Asked(par)
          BY <4>2 DEF Asked
        <5>2. par \in live
          BY <1>1, <3>1 DEF CalmIInv, Family, EndsAtOnce
        <5> QED BY <2>3, <5>1, <5>2 DEF CalmIInv, AtWork, AskersWait
      <4> QED BY <3>2, <4>1, <4>2
    <3>4. pcb'[par].children = pcb[par].children
      BY <1>1, <1>3, <2>3, <3>3
    <3> QED BY <1>3, <2>3, <3>1, <3>4 DEF Alive
  <2>4. pc[q] = "thread_publish" => ~Threadless(arg[q])'
    <3>1. pc[q] = "thread_publish" => Busy(q) /\ ~Threadless(arg[q])
      BY <2>0 DEF Busy, Linked
    <3> QED BY <1>3, <2>1, <3>1 DEF Threadless
  <2>5. pc[q] = "create_publish" => Busy(q)
    BY DEF Busy
  <2>6. Busy(q) => pcb'[arg[q]].parent = pcb[arg[q]].parent
    BY <1>3, <2>1
  <2> QED BY <1>3, <2>1, <2>2, <2>3, <2>4, <2>5 DEF Threadless, Linked
<1>8. \A q \in Pid : pc'[q] \notin KillSteps /\ ((Busy(q) \/ Asked(q))' => q \in Created')
  BY <1>1 DEF CalmIInv, AtWork, Busy, Asked
<1> QED BY <1>2, <1>5, <1>6, <1>7, <1>8 DEF CalmIInv, AtWork

\* Nothing the invariant is about has changed.
LEMMA SameCalm ==
  ASSUME CalmIInv, UNCHANGED <<table, list, cur, nextPid, calls>>
  PROVE  CalmIInv'
<1>1. World' = World /\ Created' = Created
  BY SMTT(40) DEF World, table, Created
<1>2. Family(World, Created)'
  BY <1>1 DEF CalmIInv, Family, EndsAtOnce, ThreadsHaveMains, Kinship, EachIsCaredFor, Cared, Living, Leads, Fathered
<1>3. AtWork'
  BY <1>1 DEF CalmIInv, AtWork, BusyRun, AskersWait, LinkedFirst, Linked, table, calls, Busy, Alive, Threadless, Asked, Creating
<1> QED BY <1>2, <1>3 DEF CalmIInv

LEMMA SchedulerCalm ==
  ASSUME IInv, CalmIInv, NEW b \in Pid, Dispatch(b) \/ Skip(b)
  PROVE  CalmIInv'
<1>1. PICK r \in ForSchedule(b) :
        \/ /\ \E V \in Runnable(AfterForSchedule(b, r), r.p) : Becomes(V)
           /\ cur' = r.p /\ list' = list
        \/ EndOfTurn(Skipped(AfterForSchedule(b, r), r.p), r.p)
  BY DEF Dispatch, Skip
<1> DEFINE p == r.p
           A == AfterForSchedule(b, r)
<1>2. /\ cur = Scheduler /\ UNCHANGED <<nextPid, pc, arg, requests, serving>> /\ b \in Pass
  BY DEF Dispatch, Skip, calls
<1>3. /\ TypeOK /\ World \in WorldType /\ World.pcb = pcb /\ World.live = live /\ World.map = procMap
  BY WorldHasType DEF World, IInv
<1>4. /\ b \in list /\ p \in Pid /\ p \in {b} \cup pcb[b].threads \cup pcb[b].turn
      /\ r.gone \cap list = {} /\ list \subseteq procMap /\ procMap \subseteq live
  BY <1>2, <1>3, PickedProcess, ForScheduleResult DEF CalmIInv, AtWork, Family, EndsAtOnce
<1>4a. p \in Created
  BY <1>4 DEF IInv, ListOfMains, ThreadsBelong
<1>5. Gentle(World, A, r.gone, p) /\ A \in WorldType
  <2>1. Gentle(World, A, r.gone, p)
    BY <1>3, AfterForScheduleGentle
  <2> QED BY <2>1 DEF Gentle
<1>6. /\ A.pcb[p].status = pcb[p].status /\ A.pcb[p].children = pcb[p].children
      /\ A.map = procMap \ r.gone /\ A.live = live \ r.gone
  <2>1. A.pcb[p].status = pcb[p].status
    BY <1>3, <1>4, AfterForScheduleFrame
  <2>2. A.pcb[p].children = pcb[p].children
    BY <1>3, <1>4 DEF AfterForSchedule, World, TypeOK, PCB
  <2> QED BY <1>3, <1>5, <2>1, <2>2 DEF Gentle
<1>7. Asked(p) => \/ pcb[p].status = "WAIT_KERNEL_SERVICE" /\ p \in procMap
                  \/ p \notin live /\ ~Threadless(p)
  BY <1>4 DEF CalmIInv, AtWork, AskersWait
<1> HIDE DEF A, p
<1>8. CASE /\ \E V \in Runnable(A, p) : Becomes(V)
           /\ cur' = p /\ list' = list
  <2>1. PICK V \in Runnable(A, p) : Becomes(V)
    BY <1>8
  <2>2. /\ Gentle(A, V, {}, p) /\ V.pcb[p].status = "RUN"
        /\ pcb[p].status = "WAIT_KERNEL_SERVICE" => ~Asked(p)
        /\ pcb[p].status # "WAIT_CHILD" => V.pcb[p].children = pcb[p].children
    BY <1>4, <1>5, <1>6, RunnableGentle
  <2>3. r.gone \cup {} = r.gone
    OBVIOUS
  <2>4. Gentle(World, V, r.gone, p)
    BY <1>3, <1>5, <2>2, <2>3, GentleTrans
  <2>5. live' = live \ r.gone /\ procMap' = procMap \ r.gone
    BY <1>3, <2>1, <2>4 DEF Gentle, Becomes
  <2>6. pcb[p].status \notin Dead /\ p \notin r.gone
    <3>1. "RUN" \notin Dead
      BY DEF Dead
    <3>2. pcb[p].status \notin Dead
      BY <1>3, <1>4, <2>2, <2>4, <3>1 DEF Gentle, Living
    <3>3. \A t \in r.gone : pcb[t].status = "RELEASED"
      BY <1>3, GoneAreReleased
    <3> QED BY <3>2, <3>3 DEF Dead
  <2>7. p \in live /\ (Threadless(p) => p \in procMap)
    <3>1. CASE p = b
      BY <1>4, <3>1
    <3>2. CASE p # b
      <4>1. pcb[p].main = b /\ p \in pcb[b].threads \cup pcb[b].turn
        BY <1>4, <3>2 DEF IInv, ThreadsBelong
      <4>2. ~Threadless(p)
        BY <3>2, <4>1 DEF Threadless
      <4>3. pcb[b].status \notin Dead
        BY <3>2 DEF ForSchedule, p
      <4>4. pcb[b].turn \subseteq pcb[b].threads /\ pcb[b].threads \subseteq live
        BY <1>3, <4>3 DEF CalmIInv, Family, ThreadsHaveMains, Living, IInv, LiveThreads
      <4> QED BY <4>1, <4>2, <4>4
    <3> QED BY <3>1, <3>2
  <2>8. p \in live' /\ (Threadless(p) => p \in procMap')
    BY <2>5, <2>6, <2>7
  <2>9. ~Asked(p)' /\ list' \subseteq procMap'
    <3>1. ~Asked(p)
      BY <1>7, <2>2, <2>7
    <3>2. ~Asked(p)'
      BY <1>2, <3>1 DEF Asked
    <3> QED BY <1>4, <1>8, <2>5, <3>2
  <2> HIDE <1>8
  <2>10. cur' = p
    BY <1>8
  <2> QED BY <1>2, <1>4, <1>4a, <2>1, <2>2, <2>4, <2>8, <2>9, <2>10, GentleStep
<1>9. CASE EndOfTurn(Skipped(A, p), p)
  <2> DEFINE S == Skipped(A, p)
  <2>1. Gentle(A, S, {}, p) /\ S \in WorldType
    <3>1. Gentle(A, S, {}, p)
      BY <1>4, <1>5, SkippedGentle
    <3> QED BY <3>1 DEF Gentle
  <2>2. r.gone \cup {} = r.gone
    OBVIOUS
  <2>3. Gentle(World, S, r.gone, p)
    BY <1>3, <1>5, <2>1, <2>2, GentleTrans
  <2>4. S.map = procMap \ r.gone /\ list \subseteq S.map /\ S.pcb[p].children = pcb[p].children
    <3>1. S.map = procMap \ r.gone
      BY <1>3, <2>3 DEF Gentle
    <3>2. S.pcb[p].children = A.pcb[p].children
      BY <1>4, <1>5 DEF Skipped, SetStatus, WorldType, PCB
    <3> QED BY <1>4, <1>6, <3>1, <3>2
  <2>5. S.pcb[p].status = pcb[p].status \/ pcb[p].status \in Dead
    BY <1>6 DEF Skipped, Dead
  <2> HIDE DEF S
  <2>6. PICK V \in WorldType, H \in SUBSET {p} :
          Gentle(S, V, H, p) /\ Becomes(V) /\ list' \subseteq V.map /\ V.pcb = S.pcb
    BY <1>4, <1>9, <2>1, <2>4, EndOfTurnGentle DEF S
  <2>7. Gentle(World, V, r.gone \cup H, p)
    BY <1>3, <2>3, <2>6, GentleTrans
  <2>8. /\ live' = live \ (r.gone \cup H) /\ procMap' = procMap \ (r.gone \cup H)
        /\ \A q \in r.gone \cup H : pcb[q].status \in Dead
        /\ V.pcb[p].status \notin Dead <=> pcb[p].status \notin Dead
    BY <1>3, <1>4, <2>6, <2>7 DEF Gentle, Becomes, Living
  <2>9. cur' = Scheduler /\ list' \subseteq procMap'
    BY <1>9, <2>6 DEF EndOfTurn, Becomes
  <2>10. Busy(p) /\ Living(V, p) => V.pcb[p].status = "RUN"
    BY <1>4, <2>5, <2>6, <2>8 DEF Living, CalmIInv, AtWork, BusyRun, Alive
  <2>11. Asked(p)' => \/ V.pcb[p].status = "WAIT_KERNEL_SERVICE" /\ p \in procMap'
                      \/ p \notin live' /\ ~Threadless(p)
    <3>1. Asked(p)' => Asked(p)
      BY <1>2 DEF Asked
    <3>2. pcb[p].status = "WAIT_KERNEL_SERVICE" /\ p \in procMap
            => V.pcb[p].status = "WAIT_KERNEL_SERVICE" /\ p \in procMap'
      BY <2>5, <2>6, <2>8 DEF Dead
    <3>3. p \notin live => p \notin live'
      BY <2>8
    <3> QED BY <1>7, <3>1, <3>2, <3>3
  <2>12. V.pcb[p].children = pcb[p].children /\ cur' # p
    BY <1>4, <2>4, <2>6, <2>9, SpecialPids
  <2> QED BY <1>2, <1>4, <1>4a, <2>6, <2>7, <2>9, <2>10, <2>11, <2>12, GentleStep
<1> QED BY <1>1, <1>8, <1>9 DEF A, p

-----------------------------------------------------------------------------
(* Exit *)

\* From W to V process D ends with its threads ths: M1 are the children of these that D gets, M2
\* those of D, or got by D, that its parent gets.
Ends(W, V, D, ths, H, M1, M2) ==
  /\ V \in WorldType
  /\ V.live = W.live \ ths /\ V.map = W.map \ ths
  /\ M1 \subseteq UNION {W.pcb[t].children : t \in {u \in ths : Living(W, u)}}
  /\ M2 \subseteq W.pcb[D].children \cup M1
  /\ M2 # {} => H \in V.map
  /\ M1 # {} => D \in W.map
  /\ H \in V.map => \A k \in (W.pcb[D].children \cup M1) \cap V.map : Living(W, k) /\ k # D => k \in M2
  /\ D \notin M1 /\ M1 \cup M2 \subseteq W.map
  /\ \A t \in ths : Living(W, t) =>
       \A k \in W.pcb[t].children \cap W.map : Living(W, k) /\ k # D => k \in M1
  /\ \A q \in Pid :
       /\ V.pcb[q].main = W.pcb[q].main
       /\ V.pcb[q].held <=> W.pcb[q].held /\ q \notin {D} \cup ths
       /\ Living(V, q) <=> Living(W, q) /\ q \notin {D} \cup ths
       /\ Living(V, q) => V.pcb[q].status = W.pcb[q].status
       /\ V.pcb[q].parent = IF q \in M2 THEN H ELSE IF q \in M1 THEN D ELSE W.pcb[q].parent
       /\ V.pcb[q].threads = IF q = D THEN {} ELSE W.pcb[q].threads
       /\ V.pcb[q].turn = W.pcb[q].turn
       /\ V.pcb[q].children = W.pcb[q].children \cup (IF q = D THEN M1 ELSE {})
                                \cup (IF q = H THEN M2 ELSE {})

LEMMA DestroyRows ==
  ASSUME NEW N \in SUBSET Pid, NEW W \in WorldType, Family(W, N), NEW D \in W.live, Living(W, D),
         Leads(W, D) => D \in W.map, W.pcb[D].threads \subseteq W.live,
         \A t \in W.pcb[D].threads : W.pcb[t].main = D /\ t # D
  PROVE  \E M1, M2 : Ends(W, Destroy(W, D), D, W.pcb[D].threads, W.pcb[D].parent, M1, M2)
<1> DEFINE ths == W.pcb[D].threads
           H == W.pcb[D].parent
           dying == {t \in ths : Living(W, t)}
           kids1 == UNION {W.pcb[t].children : t \in dying}
           W1 == SetStatus(W, D, "TERMINATED")
           M1 == IF D \in W.map THEN {k \in kids1 \cap W.map : W1.pcb[k].status # "TERMINATED"} ELSE {}
           R1 == Redirect(W1, kids1, D)
           L1 == LeaveGroups(R1, dying)
           T1 == DeleteThreads(W1, D)
           C1 == ClearThreads(T1, D)
           M2 == IF H \in C1.map THEN {k \in C1.pcb[D].children \cap C1.map : C1.pcb[k].status # "TERMINATED"} ELSE {}
           R2 == RedirectChildren(C1, D)
           V == Destroy(W, D)
<1>1. /\ D \in Pid /\ ths \in SUBSET Pid /\ H \in Pid \cup {NO_PROCESS_ID} /\ D \notin ths
      /\ \A q \in Pid : W.pcb[q] \in PCB
      /\ \A t \in Pid : W.pcb[t].children \in SUBSET Pid
  BY DEF WorldType, PCB
<1>2. /\ W1 \in WorldType /\ W1.live = W.live /\ W1.map = W.map
      /\ \A q \in Pid : W1.pcb[q] = IF q = D THEN [W.pcb[q] EXCEPT !.status = "TERMINATED"] ELSE W.pcb[q]
  <2>1. "TERMINATED" \in Status
    BY StatusFacts
  <2> QED BY ZenonT(40), <1>1, <2>1, SetStatusType DEF SetStatus, WorldType
<1>3. /\ \A q \in Pid : /\ W1.pcb[q].main = W.pcb[q].main /\ W1.pcb[q].parent = W.pcb[q].parent
                        /\ W1.pcb[q].held = W.pcb[q].held /\ W1.pcb[q].threads = W.pcb[q].threads
                        /\ W1.pcb[q].turn = W.pcb[q].turn /\ W1.pcb[q].children = W.pcb[q].children
                        /\ W1.pcb[q].status = IF q = D THEN "TERMINATED" ELSE W.pcb[q].status
      /\ kids1 \in SUBSET Pid /\ dying \in SUBSET Pid
      /\ dying = {t \in W1.pcb[D].threads : W1.pcb[t].status \notin Dead}
      /\ kids1 = UNION {W1.pcb[t].children : t \in dying}
  <2>1. \A q \in Pid : /\ W1.pcb[q].main = W.pcb[q].main /\ W1.pcb[q].parent = W.pcb[q].parent
                        /\ W1.pcb[q].held = W.pcb[q].held /\ W1.pcb[q].threads = W.pcb[q].threads
                        /\ W1.pcb[q].turn = W.pcb[q].turn /\ W1.pcb[q].children = W.pcb[q].children
                        /\ W1.pcb[q].status = IF q = D THEN "TERMINATED" ELSE W.pcb[q].status
    BY ZenonT(40), <1>1, <1>2 DEF PCB
  <2> HIDE DEF W1
  <2>2. kids1 \in SUBSET Pid /\ dying \in SUBSET Pid
    BY <1>1
  <2>3. dying = {t \in W1.pcb[D].threads : W1.pcb[t].status \notin Dead}
    BY <1>1, <2>1 DEF Living
  <2>4. kids1 = UNION {W1.pcb[t].children : t \in dying}
    BY <2>1, <2>2
  <2> QED BY <2>1, <2>2, <2>3, <2>4
<1> HIDE DEF W1, dying, kids1
<1>4. /\ R1 \in WorldType /\ R1.live = W1.live /\ R1.map = W1.map
      /\ \A q \in Pid :
           R1.pcb[q] = [W1.pcb[q] EXCEPT
             !.status = IF q \in kids1 \cap W1.map /\ @ = "TERMINATED" THEN "RELEASED" ELSE @,
             !.parent = IF q \in M1 THEN D ELSE @,
             !.children = IF q = D THEN @ \cup M1 ELSE @]
  <2>1. R1 \in WorldType
    BY <1>1, <1>2, <1>3, RedirectType
  <2> QED BY ZenonT(40), <1>2, <2>1 DEF Redirect, WorldType
<1>5. M1 \in SUBSET Pid /\ D \notin M1
  BY <1>1, <1>3
<1> HIDE DEF M1, R1
<1>6. \A q \in Pid :
        /\ R1.pcb[q].main = W.pcb[q].main /\ R1.pcb[q].held = W.pcb[q].held
        /\ R1.pcb[q].threads = W.pcb[q].threads /\ R1.pcb[q].turn = W.pcb[q].turn
        /\ R1.pcb[q].parent = IF q \in M1 THEN D ELSE W.pcb[q].parent
        /\ R1.pcb[q].children = IF q = D THEN W.pcb[q].children \cup M1 ELSE W.pcb[q].children
        /\ R1.pcb[q].status = W1.pcb[q].status \/ (R1.pcb[q].status \in Dead /\ W1.pcb[q].status \in Dead)
  <2> TAKE q \in Pid
  <2>1. W1.pcb[q] \in PCB
    BY <1>2 DEF WorldType
  <2>2. R1.pcb[q] = [W1.pcb[q] EXCEPT
             !.status = IF q \in kids1 \cap W1.map /\ @ = "TERMINATED" THEN "RELEASED" ELSE @,
             !.parent = IF q \in M1 THEN D ELSE @,
             !.children = IF q = D THEN @ \cup M1 ELSE @]
    BY <1>4
  <2>3. /\ R1.pcb[q].main = W1.pcb[q].main /\ R1.pcb[q].held = W1.pcb[q].held
        /\ R1.pcb[q].threads = W1.pcb[q].threads /\ R1.pcb[q].turn = W1.pcb[q].turn
        /\ R1.pcb[q].parent = IF q \in M1 THEN D ELSE W1.pcb[q].parent
        /\ R1.pcb[q].children = IF q = D THEN W1.pcb[q].children \cup M1 ELSE W1.pcb[q].children
        /\ R1.pcb[q].status = W1.pcb[q].status \/ (R1.pcb[q].status = "RELEASED" /\ W1.pcb[q].status = "TERMINATED")
    BY <2>1, <2>2 DEF PCB
  <2> QED BY <1>3, <2>3 DEF Dead
<1>7. /\ T1 \in WorldType /\ T1.live = W.live \ ths /\ T1.map = W.map \ ths
      /\ \A q \in Pid :
           T1.pcb[q] = IF q \in ths THEN [R1.pcb[q] EXCEPT !.status = "RELEASED", !.held = FALSE] ELSE R1.pcb[q]
  <2>1. L1 \in WorldType /\ L1.pcb = R1.pcb
    BY <1>3, <1>4, LeaveGroupsType, LeaveGroupsFrame
  <2>2. L1.live = R1.live /\ L1.map = R1.map
    BY <1>4 DEF LeaveGroups, WorldType
  <2>3. T1 \in WorldType
    BY <1>1, <1>2, DeleteThreadsType
  <2> HIDE DEF L1
  <2>4. T1 = [L1 EXCEPT !.pcb = [q \in Pid |-> IF q \in ths THEN [L1.pcb[q] EXCEPT !.status = "RELEASED", !.held = FALSE]
                                                ELSE L1.pcb[q]],
                        !.live = @ \ ths, !.map = @ \ ths]
    BY ZenonT(40), <1>1, <1>3 DEF DeleteThreads, L1, R1
  <2> HIDE DEF T1, ths
  <2> QED BY ZenonT(40), <1>2, <1>4, <2>1, <2>2, <2>3, <2>4 DEF WorldType
<1> HIDE DEF T1
<1>8. \A q \in Pid :
        /\ T1.pcb[q].main = W.pcb[q].main /\ (T1.pcb[q].held <=> W.pcb[q].held /\ q \notin ths)
        /\ T1.pcb[q].threads = W.pcb[q].threads /\ T1.pcb[q].turn = W.pcb[q].turn
        /\ T1.pcb[q].parent = IF q \in M1 THEN D ELSE W.pcb[q].parent
        /\ T1.pcb[q].children = IF q = D THEN W.pcb[q].children \cup M1 ELSE W.pcb[q].children
        /\ q \in ths => T1.pcb[q].status = "RELEASED"
        /\ q \notin ths => T1.pcb[q].status = R1.pcb[q].status
  <2> TAKE q \in Pid
  <2>1. R1.pcb[q] \in PCB
    BY <1>4 DEF WorldType
  <2>2. CASE q \in ths
    <3>1. T1.pcb[q] = [R1.pcb[q] EXCEPT !.status = "RELEASED", !.held = FALSE]
      BY <1>7, <2>2
    <3>2. /\ T1.pcb[q].main = R1.pcb[q].main /\ T1.pcb[q].held = FALSE
          /\ T1.pcb[q].threads = R1.pcb[q].threads /\ T1.pcb[q].turn = R1.pcb[q].turn
          /\ T1.pcb[q].parent = R1.pcb[q].parent /\ T1.pcb[q].children = R1.pcb[q].children
          /\ T1.pcb[q].status = "RELEASED"
      BY <2>1, <3>1 DEF PCB
    <3> QED BY <1>6, <2>2, <3>2
  <2>3. CASE q \notin ths
    <3>1. T1.pcb[q] = R1.pcb[q]
      BY <1>7, <2>3
    <3> QED BY <1>6, <2>3, <3>1
  <2> QED BY <2>2, <2>3
<1>9. /\ C1 \in WorldType /\ C1.live = T1.live /\ C1.map = T1.map
      /\ \A q \in Pid : C1.pcb[q] = IF q = D THEN [T1.pcb[q] EXCEPT !.threads = {}] ELSE T1.pcb[q]
  <2>1. C1 \in WorldType
    BY <1>1, <1>7, ClearThreadsType
  <2>2. C1 = [T1 EXCEPT !.pcb = [T1.pcb EXCEPT ![D] = [T1.pcb[D] EXCEPT !.threads = {}]]]
    BY DEF ClearThreads
  <2> HIDE DEF C1, ths
  <2> QED BY <1>1, <1>7, <2>1, <2>2 DEF WorldType
<1> HIDE DEF C1
<1>10. \A q \in Pid :
        /\ C1.pcb[q].main = W.pcb[q].main /\ C1.pcb[q].held = T1.pcb[q].held
        /\ C1.pcb[q].threads = IF q = D THEN {} ELSE W.pcb[q].threads
        /\ C1.pcb[q].turn = W.pcb[q].turn
        /\ C1.pcb[q].parent = T1.pcb[q].parent /\ C1.pcb[q].children = T1.pcb[q].children
        /\ C1.pcb[q].status = T1.pcb[q].status
  <2> TAKE q \in Pid
  <2>1. T1.pcb[q] \in PCB
    BY <1>7 DEF WorldType
  <2>2. CASE q = D
    <3>1. C1.pcb[q] = [T1.pcb[q] EXCEPT !.threads = {}]
      BY <1>9, <2>2
    <3>2. /\ C1.pcb[q].main = T1.pcb[q].main /\ C1.pcb[q].held = T1.pcb[q].held
          /\ C1.pcb[q].threads = {} /\ C1.pcb[q].turn = T1.pcb[q].turn
          /\ C1.pcb[q].parent = T1.pcb[q].parent /\ C1.pcb[q].children = T1.pcb[q].children
          /\ C1.pcb[q].status = T1.pcb[q].status
      BY <2>1, <3>1 DEF PCB
    <3> QED BY <1>8, <2>2, <3>2
  <2>3. CASE q # D
    <3>1. C1.pcb[q] = T1.pcb[q]
      BY <1>9, <2>3
    <3> QED BY ZenonT(40), <1>8, <2>3, <3>1
  <2> QED BY <2>2, <2>3
<1>11. C1.pcb[D].parent = H /\ C1.pcb[D].children = W.pcb[D].children \cup M1 /\ M2 \in SUBSET Pid
  BY ZenonT(40), <1>1, <1>5, <1>8, <1>10
<1>12. /\ R2 \in WorldType /\ R2.live = C1.live /\ R2.map = C1.map
       /\ \A q \in Pid :
            R2.pcb[q] = [C1.pcb[q] EXCEPT
              !.status = IF q \in C1.pcb[D].children \cap C1.map /\ @ = "TERMINATED" THEN "RELEASED" ELSE @,
              !.parent = IF q \in M2 THEN H ELSE @,
              !.children = IF q = H THEN @ \cup M2 ELSE @]
  <2>1. R2 \in WorldType
    BY <1>1, <1>9, RedirectChildrenType
  <2> QED BY ZenonT(40), <1>9, <1>11, <2>1 DEF RedirectChildren, Redirect, WorldType
<1> HIDE DEF R2, M2
<1>13. \A q \in Pid :
        /\ R2.pcb[q].main = C1.pcb[q].main /\ R2.pcb[q].held = C1.pcb[q].held
        /\ R2.pcb[q].threads = C1.pcb[q].threads /\ R2.pcb[q].turn = C1.pcb[q].turn
        /\ R2.pcb[q].parent = IF q \in M2 THEN H ELSE C1.pcb[q].parent
        /\ R2.pcb[q].children = IF q = H THEN C1.pcb[q].children \cup M2 ELSE C1.pcb[q].children
        /\ R2.pcb[q].status = C1.pcb[q].status \/ (R2.pcb[q].status \in Dead /\ C1.pcb[q].status \in Dead)
  <2> TAKE q \in Pid
  <2>1. C1.pcb[q] \in PCB
    BY <1>9 DEF WorldType
  <2>2. R2.pcb[q] = [C1.pcb[q] EXCEPT
              !.status = IF q \in C1.pcb[D].children \cap C1.map /\ @ = "TERMINATED" THEN "RELEASED" ELSE @,
              !.parent = IF q \in M2 THEN H ELSE @,
              !.children = IF q = H THEN @ \cup M2 ELSE @]
    BY <1>12
  <2>3. /\ R2.pcb[q].main = C1.pcb[q].main /\ R2.pcb[q].held = C1.pcb[q].held
        /\ R2.pcb[q].threads = C1.pcb[q].threads /\ R2.pcb[q].turn = C1.pcb[q].turn
        /\ R2.pcb[q].parent = IF q \in M2 THEN H ELSE C1.pcb[q].parent
        /\ R2.pcb[q].children = IF q = H THEN C1.pcb[q].children \cup M2 ELSE C1.pcb[q].children
        /\ R2.pcb[q].status = C1.pcb[q].status \/ (R2.pcb[q].status = "RELEASED" /\ C1.pcb[q].status = "TERMINATED")
    BY <2>1, <2>2 DEF PCB
  <2> QED BY <2>3 DEF Dead
<1>14. /\ V \in WorldType /\ V.live = R2.live /\ V.map = R2.map
       /\ \A q \in Pid :
            /\ V.pcb[q].main = R2.pcb[q].main /\ (V.pcb[q].held <=> R2.pcb[q].held /\ q # D)
            /\ V.pcb[q].threads = R2.pcb[q].threads /\ V.pcb[q].turn = R2.pcb[q].turn
            /\ V.pcb[q].parent = R2.pcb[q].parent /\ V.pcb[q].children = R2.pcb[q].children
            /\ V.pcb[q].status = R2.pcb[q].status \/ (q = D /\ V.pcb[q].status \in Dead)
  <2> DEFINE L2 == LeaveGroups(R2, {D})
             F2 == [L2 EXCEPT !.pcb[D].held = FALSE]
  <2>1. V = FreeResources(R2, D) /\ V \in WorldType
    BY <1>1, DestroyType DEF Destroy, R2, C1, T1, W1
  <2>2. L2 \in WorldType /\ L2.pcb = R2.pcb
    BY <1>1, <1>12, LeaveGroupsType, LeaveGroupsFrame
  <2>3. L2.live = R2.live /\ L2.map = R2.map
    BY <1>12 DEF LeaveGroups, WorldType
  <2> HIDE DEF L2
  <2>4. /\ F2.live = R2.live /\ F2.map = R2.map /\ F2 \in WorldType
        /\ \A q \in Pid : F2.pcb[q] = IF q = D THEN [R2.pcb[q] EXCEPT !.held = FALSE] ELSE R2.pcb[q]
    <3>1. [R2.pcb[D] EXCEPT !.held = FALSE] \in PCB
      <4>1. R2.pcb[D] \in PCB
        BY <1>1, <1>12 DEF WorldType
      <4> QED BY <4>1 DEF PCB
    <3>2. [R2.pcb EXCEPT ![D] = [R2.pcb[D] EXCEPT !.held = FALSE]] \in [Pid -> PCB]
      BY <1>1, <1>12, <3>1 DEF WorldType
    <3> QED BY <1>1, <2>2, <2>3, <3>1, <3>2 DEF WorldType
  <2>5. V = IF F2.pcb[D].parent = NO_PROCESS_ID THEN SetStatus(F2, D, "RELEASED") ELSE F2
    BY <2>1 DEF FreeResources, L2
  <2> HIDE DEF F2
  <2>6. \A q \in Pid : V.pcb[q] = F2.pcb[q] \/ (q = D /\ V.pcb[q] = [F2.pcb[q] EXCEPT !.status = "RELEASED"])
    BY <1>1, <2>4, <2>5 DEF SetStatus, WorldType
  <2>7. V.live = R2.live /\ V.map = R2.map
    BY <2>4, <2>5 DEF SetStatus, WorldType
  <2>8. ASSUME NEW q \in Pid
        PROVE  /\ V.pcb[q].main = R2.pcb[q].main /\ (V.pcb[q].held <=> R2.pcb[q].held /\ q # D)
               /\ V.pcb[q].threads = R2.pcb[q].threads /\ V.pcb[q].turn = R2.pcb[q].turn
               /\ V.pcb[q].parent = R2.pcb[q].parent /\ V.pcb[q].children = R2.pcb[q].children
               /\ V.pcb[q].status = R2.pcb[q].status \/ (q = D /\ V.pcb[q].status \in Dead)
    <3>1. R2.pcb[q] \in PCB /\ F2.pcb[q] \in PCB
      BY <1>12, <2>4 DEF WorldType
    <3>2. CASE q # D
      BY <2>4, <2>6, <3>2
    <3>3. CASE q = D
      <4>1. F2.pcb[q] = [R2.pcb[q] EXCEPT !.held = FALSE]
        BY <2>4, <3>3
      <4>2. /\ F2.pcb[q].main = R2.pcb[q].main /\ ~F2.pcb[q].held
            /\ F2.pcb[q].threads = R2.pcb[q].threads /\ F2.pcb[q].turn = R2.pcb[q].turn
            /\ F2.pcb[q].parent = R2.pcb[q].parent /\ F2.pcb[q].children = R2.pcb[q].children
            /\ F2.pcb[q].status = R2.pcb[q].status
        BY <3>1, <4>1 DEF PCB
      <4>3. /\ V.pcb[q].main = F2.pcb[q].main /\ V.pcb[q].held = F2.pcb[q].held
            /\ V.pcb[q].threads = F2.pcb[q].threads /\ V.pcb[q].turn = F2.pcb[q].turn
            /\ V.pcb[q].parent = F2.pcb[q].parent /\ V.pcb[q].children = F2.pcb[q].children
            /\ V.pcb[q].status = F2.pcb[q].status \/ V.pcb[q].status = "RELEASED"
        <5>1. CASE V.pcb[q] = F2.pcb[q]
          BY <5>1
        <5>2. CASE V.pcb[q] = [F2.pcb[q] EXCEPT !.status = "RELEASED"]
          BY <3>1, <5>2 DEF PCB
        <5> QED BY <2>6, <5>1, <5>2
      <4> QED BY <3>3, <4>2, <4>3 DEF Dead
    <3> QED BY <3>2, <3>3
  <2> HIDE DEF V
  <2> QED BY <2>1, <2>7, <2>8
<1> HIDE DEF V
<1>15. V.live = W.live \ ths /\ V.map = W.map \ ths /\ V \in WorldType
  BY ZenonT(40), <1>7, <1>9, <1>12, <1>14
<1>16. \A q \in Pid : V.pcb[q].status = W1.pcb[q].status \/ (V.pcb[q].status \in Dead /\ (W1.pcb[q].status \in Dead \/ q \in ths))
  <2> TAKE q \in Pid
  <2>1. V.pcb[q].status = R2.pcb[q].status \/ (V.pcb[q].status \in Dead /\ W1.pcb[q].status \in Dead)
    BY <1>3, <1>14 DEF Dead
  <2>2. R2.pcb[q].status = C1.pcb[q].status \/ (R2.pcb[q].status \in Dead /\ C1.pcb[q].status \in Dead)
    BY <1>13
  <2>3. C1.pcb[q].status = T1.pcb[q].status
    BY <1>10
  <2>4. (q \in ths /\ T1.pcb[q].status \in Dead) \/ T1.pcb[q].status = R1.pcb[q].status
    BY <1>8 DEF Dead
  <2>5. R1.pcb[q].status = W1.pcb[q].status \/ (R1.pcb[q].status \in Dead /\ W1.pcb[q].status \in Dead)
    BY <1>6
  <2> QED BY <2>1, <2>2, <2>3, <2>4, <2>5
<1>17. \A q \in ths : V.pcb[q].status \in Dead
  <2> TAKE q \in ths
  <2>1. q \in Pid /\ q # D
    BY <1>1
  <2>2. V.pcb[q].status = R2.pcb[q].status
    BY <1>14, <2>1
  <2>3. R2.pcb[q].status = C1.pcb[q].status \/ R2.pcb[q].status \in Dead
    BY <1>13, <2>1
  <2>4. C1.pcb[q].status = T1.pcb[q].status
    BY <1>10, <2>1
  <2>5. T1.pcb[q].status = "RELEASED"
    BY <1>8, <2>1
  <2> QED BY <2>2, <2>3, <2>4, <2>5 DEF Dead
<1>18. \A q \in Pid :
                       /\ V.pcb[q].main = W.pcb[q].main
                       /\ V.pcb[q].held <=> W.pcb[q].held /\ q \notin {D} \cup ths
                       /\ Living(V, q) <=> Living(W, q) /\ q \notin {D} \cup ths
                       /\ Living(V, q) => V.pcb[q].status = W.pcb[q].status
                       /\ V.pcb[q].parent = IF q \in M2 THEN H ELSE IF q \in M1 THEN D ELSE W.pcb[q].parent
                       /\ V.pcb[q].threads = IF q = D THEN {} ELSE W.pcb[q].threads
                       /\ V.pcb[q].turn = W.pcb[q].turn
                       /\ V.pcb[q].children = W.pcb[q].children \cup (IF q = D THEN M1 ELSE {})
                                                \cup (IF q = H THEN M2 ELSE {})
  <2> TAKE q \in Pid
  <2> HIDE DEF ths, H
  <2>1. V.pcb[q].main = W.pcb[q].main /\ (V.pcb[q].held <=> W.pcb[q].held /\ q \notin {D} \cup ths)
    <3>1. V.pcb[q].main = R2.pcb[q].main /\ (V.pcb[q].held <=> R2.pcb[q].held /\ q # D)
      BY <1>14
    <3>2. R2.pcb[q].main = C1.pcb[q].main /\ R2.pcb[q].held = C1.pcb[q].held
      BY <1>13
    <3>3. C1.pcb[q].main = W.pcb[q].main /\ C1.pcb[q].held = T1.pcb[q].held
      BY <1>10
    <3>4. T1.pcb[q].held <=> W.pcb[q].held /\ q \notin ths
      BY <1>8
    <3> QED BY <3>1, <3>2, <3>3, <3>4
  <2>2. /\ Living(V, q) <=> Living(W, q) /\ q \notin {D} \cup ths
        /\ Living(V, q) => V.pcb[q].status = W.pcb[q].status
    BY <1>3, <1>16, <1>17 DEF Living, Dead
  <2>3. /\ V.pcb[q].parent = IF q \in M2 THEN H ELSE IF q \in M1 THEN D ELSE W.pcb[q].parent
        /\ V.pcb[q].threads = IF q = D THEN {} ELSE W.pcb[q].threads
        /\ V.pcb[q].turn = W.pcb[q].turn
    <3>1. V.pcb[q].parent = R2.pcb[q].parent /\ V.pcb[q].threads = R2.pcb[q].threads /\ V.pcb[q].turn = R2.pcb[q].turn
      BY <1>14
    <3>2. /\ R2.pcb[q].parent = IF q \in M2 THEN H ELSE C1.pcb[q].parent
          /\ R2.pcb[q].threads = C1.pcb[q].threads /\ R2.pcb[q].turn = C1.pcb[q].turn
      BY <1>13
    <3>3. /\ C1.pcb[q].parent = T1.pcb[q].parent /\ C1.pcb[q].turn = W.pcb[q].turn
          /\ C1.pcb[q].threads = IF q = D THEN {} ELSE W.pcb[q].threads
      BY <1>10
    <3>4. T1.pcb[q].parent = IF q \in M1 THEN D ELSE W.pcb[q].parent
      BY <1>8
    <3> QED BY <3>1, <3>2, <3>3, <3>4
  <2>4. V.pcb[q].children = W.pcb[q].children \cup (IF q = D THEN M1 ELSE {}) \cup (IF q = H THEN M2 ELSE {})
    <3>1. V.pcb[q].children = IF q = H THEN C1.pcb[q].children \cup M2 ELSE C1.pcb[q].children
      BY ZenonT(40), <1>13, <1>14
    <3>2. C1.pcb[q].children = IF q = D THEN W.pcb[q].children \cup M1 ELSE W.pcb[q].children
      BY <1>8, <1>10
    <3> HIDE DEF V
    <3> QED BY <3>1, <3>2
  <2> QED BY <2>1, <2>2, <2>3, <2>4
<1>19. M1 \subseteq kids1 /\ (M1 # {} => D \in W.map) /\ kids1 = UNION {W.pcb[t].children : t \in {u \in ths : Living(W, u)}}
  BY DEF M1, kids1, dying
<1>20. /\ M2 \subseteq W.pcb[D].children \cup M1
       /\ M2 # {} => H \in V.map
       /\ H \in V.map => \A k \in (W.pcb[D].children \cup M1) \cap V.map : Living(W, k) /\ k # D => k \in M2
  <2>1. V.map = C1.map /\ C1.pcb[D].children = W.pcb[D].children \cup M1
    BY ZenonT(40), <1>11, <1>12, <1>14
  <2>2. ASSUME NEW k \in (W.pcb[D].children \cup M1) \cap V.map, Living(W, k), k # D, H \in V.map PROVE k \in M2
    <3>1. k \in Pid /\ k \notin ths
      BY <1>15, <2>2 DEF WorldType
    <3>2. C1.pcb[k].status = R1.pcb[k].status
      BY <1>8, <1>10, <3>1
    <3>3. W1.pcb[k].status = W.pcb[k].status /\ W.pcb[k].status \notin Dead
      BY <1>3, <2>2, <3>1 DEF Living
    <3>4. R1.pcb[k].status = W.pcb[k].status
      BY <1>6, <3>1, <3>3
    <3>5. C1.pcb[k].status # "TERMINATED"
      BY <3>2, <3>3, <3>4 DEF Dead
    <3> QED BY <2>1, <2>2, <3>5 DEF M2
  <2> QED BY <2>1, <2>2 DEF M2
<1>21. \A t \in ths : Living(W, t) => \A k \in W.pcb[t].children \cap W.map : Living(W, k) /\ k # D => k \in M1
  <2> SUFFICES ASSUME NEW t \in ths, Living(W, t), NEW k \in W.pcb[t].children \cap W.map, Living(W, k), k # D
               PROVE  k \in M1
    OBVIOUS
  <2>1. t \in dying /\ k \in kids1 /\ k \in Pid
    BY <1>1 DEF dying, kids1, WorldType
  <2>2. W1.pcb[k].status = W.pcb[k].status
    BY <1>3, <2>1
  <2>3. D \in W.map
    <3>1. W.pcb[t].main = D /\ t \in Pid
      BY <1>1
    <3>2. Leads(W, D)
      BY <3>1 DEF Family, ThreadsHaveMains
    <3> QED BY <3>2
  <2> QED BY <2>1, <2>2, <2>3 DEF M1, Living, Dead
<1>22. D \notin M1 /\ M1 \cup M2 \subseteq W.map
  BY <1>5, <1>7, <1>9 DEF M1, M2
<1> HIDE DEF V, ths, H
<1>23. Ends(W, V, D, ths, H, M1, M2)
  BY <1>15, <1>18, <1>19, <1>20, <1>21, <1>22 DEF Ends
<1> QED BY <1>23 DEF V, ths, H

\* Whom nobody could hand on is not the child of one who ends, so that this stays.
LEMMA EndsFatherless ==
  ASSUME NEW N \in SUBSET Pid, NEW W \in WorldType, Family(W, N), NEW D \in W.live, Living(W, D),
         NEW V, NEW ths \in SUBSET Pid, NEW H, NEW M1, NEW M2, Ends(W, V, D, ths, H, M1, M2), ths \subseteq W.live,
         NEW q \in Pid, ~Fathered(W, q)
  PROVE  ~Fathered(V, q) /\ V.pcb[q].parent = W.pcb[q].parent
<1>1. ASSUME NEW x \in W.live, Living(W, x), q \in W.pcb[x].children PROVE FALSE
  <2>1. W.pcb[q].parent = x
    BY <1>1 DEF Family, Kinship
  <2>2. W.pcb[x].held
    BY <1>1 DEF Family, EndsAtOnce
  <2> QED BY <2>1, <2>2 DEF Fathered
<1>2. q \notin M1 /\ q \notin M2
  BY <1>1 DEF Ends
<1>3. V.pcb[q].parent = W.pcb[q].parent
  BY <1>2 DEF Ends
<1>4. \A x \in Pid : V.pcb[x].held => W.pcb[x].held
  BY DEF Ends
<1>5. V.live \subseteq W.live /\ W.live \subseteq Pid
  BY DEF Ends, WorldType
<1> QED BY <1>3, <1>4, <1>5 DEF Fathered

LEMMA EndsFamily ==
  ASSUME NEW N \in SUBSET Pid, NEW W \in WorldType, Family(W, N), NEW D \in W.live, Living(W, D),
         NEW V, NEW ths, NEW H, NEW M1, NEW M2, Ends(W, V, D, ths, H, M1, M2),
         ths = W.pcb[D].threads, H = W.pcb[D].parent,
         Leads(W, D) => D \in W.map, ths \subseteq W.live, \A t \in ths : W.pcb[t].main = D /\ t # D
  PROVE  Family(V, N)
<1> USE DEF Family
<1>0. /\ \A q \in Pid : W.pcb[q].main \in Pid /\ W.pcb[q].children \in SUBSET Pid
      /\ D \in Pid /\ ths \in SUBSET Pid /\ D \notin ths /\ W.live \subseteq Pid /\ W.map \subseteq W.live
  BY DEF WorldType, PCB, EndsAtOnce
<1>1. EndsAtOnce(V, N)
  <2>1. V.map \subseteq V.live /\ V.live \subseteq N
    BY DEF Ends, EndsAtOnce
  <2>2. \A q \in V.live : V.pcb[q].held <=> Living(V, q)
    BY <1>0 DEF Ends, EndsAtOnce
  <2> QED BY <2>1, <2>2 DEF EndsAtOnce
\* Whose child a process that is handed on was.
<1>2. ASSUME NEW k \in M1 \cup M2
      PROVE  k \in Pid /\ k \in N /\ (W.pcb[k].parent = D \/ W.pcb[k].parent \in ths) /\ (k \in M1 => W.pcb[k].parent \in ths)
  <2>1. k \in Pid
    BY <1>0, <1>2 DEF Ends
  <2>2. \A x \in W.live : Living(W, x) /\ k \in W.pcb[x].children => W.pcb[k].parent = x /\ k \in N
    BY <1>0 DEF Kinship
  <2>3. k \in M1 => \E t \in ths : Living(W, t) /\ k \in W.pcb[t].children
    BY DEF Ends
  <2>4. k \in M2 => k \in W.pcb[D].children \/ k \in M1
    BY DEF Ends
  <2> QED BY <1>0, <1>2, <2>1, <2>2, <2>3, <2>4
<1>3. ThreadsHaveMains(V, N)
  <2>1. \A q \in Pid : Leads(V, V.pcb[q].main) /\ V.pcb[q].main \in N \cup {q}
    BY <1>0 DEF ThreadsHaveMains, Ends, Leads
  <2>2. ASSUME NEW t \in V.live, ~Leads(V, t), Living(V, t)
        PROVE  /\ t \in V.pcb[V.pcb[t].main].threads /\ V.pcb[t].parent = V.pcb[t].main
               /\ V.pcb[t].main \in V.map /\ Living(V, V.pcb[t].main)
    <3> DEFINE m == W.pcb[t].main
    <3>1. t \in W.live /\ t \in Pid /\ m \in Pid /\ t \notin ths /\ t # D /\ V.pcb[t].main = m
      BY <1>0, <2>2 DEF Ends
    <3>2. Living(W, t) /\ ~Leads(W, t)
      BY <2>2, <3>1 DEF Ends, Leads
    <3>3. t \in W.pcb[m].threads /\ W.pcb[t].parent = m /\ m \in W.map /\ Living(W, m) /\ Leads(W, m)
      BY <3>1, <3>2 DEF ThreadsHaveMains
    <3>4. m # D /\ m \notin ths
      BY <3>1, <3>3 DEF Leads
    <3>5. t \notin M1 \cup M2
      BY <1>2, <3>3, <3>4
    <3>6. V.pcb[t].parent = m
      BY <3>1, <3>3, <3>5 DEF Ends
    <3>7. t \in V.pcb[m].threads /\ m \in V.map /\ Living(V, m)
      BY <3>1, <3>3, <3>4 DEF Ends
    <3> QED BY <3>1, <3>6, <3>7
  <2>3. \A q \in Pid : Living(V, q) => V.pcb[q].turn \subseteq V.pcb[q].threads
    BY DEF ThreadsHaveMains, Ends
  <2> QED BY <2>1, <2>2, <2>3 DEF ThreadsHaveMains
<1>4. Kinship(V, N)
  <2>1. ASSUME NEW q \in Pid
        PROVE  V.pcb[q].parent \in N \cup {NO_PROCESS_ID} /\ V.pcb[q].children \subseteq N
    <3>1. W.pcb[q].parent \in N \cup {NO_PROCESS_ID} /\ W.pcb[q].children \subseteq N /\ H \in N \cup {NO_PROCESS_ID}
      BY <1>0 DEF Kinship
    <3>2. M1 \subseteq N /\ M2 \subseteq N /\ D \in N
      BY <1>2 DEF EndsAtOnce
    <3> QED BY <3>1, <3>2 DEF Ends
  <2>2. ASSUME NEW q \in V.live, V.pcb[q].parent \in V.live PROVE V.pcb[q].parent \in V.map
    <3>1. q \in Pid /\ q \in W.live
      BY <1>0 DEF Ends
    <3>2. CASE q \in M2
      <4>1. V.pcb[q].parent = H /\ H \in V.map
        BY <3>1, <3>2 DEF Ends
      <4> QED BY <4>1
    <3>3. CASE q \in M1 /\ q \notin M2
      <4>1. V.pcb[q].parent = D /\ D \in V.map
        BY <1>0, <3>1, <3>3 DEF Ends
      <4> QED BY <4>1
    <3>4. CASE q \notin M1 \cup M2
      <4>1. V.pcb[q].parent = W.pcb[q].parent
        BY <3>1, <3>4 DEF Ends
      <4> QED BY <2>2, <3>1, <4>1 DEF Ends, Kinship
    <3> QED BY <3>2, <3>3, <3>4
  <2>3. ASSUME NEW q \in V.live, Living(V, q), NEW k \in V.pcb[q].children
        PROVE  V.pcb[k].parent = q
    <3>1. q \in Pid /\ q \in W.live /\ Living(W, q) /\ q # D /\ q \notin ths
      BY <1>0, <2>3 DEF Ends
    <3>2. CASE q = H /\ k \in M2
      BY <1>2, <3>2 DEF Ends
    <3>3. CASE ~(q = H /\ k \in M2)
      <4>1. k \in W.pcb[q].children
        BY <2>3, <3>1, <3>3 DEF Ends
      <4>2. W.pcb[k].parent = q /\ k \in Pid
        BY <1>0, <3>1, <4>1 DEF Kinship
      <4>3. k \notin M1 \cup M2
        BY <1>2, <3>1, <4>2
      <4> QED BY <4>2, <4>3 DEF Ends
    <3> QED BY <3>2, <3>3
  <2> QED BY <2>1, <2>2, <2>3 DEF Kinship
<1>5. EachIsCaredFor(V)
  <2> SUFFICES ASSUME NEW q \in V.map, Living(V, q), Leads(V, q), V.pcb[q].parent \in Pid, Leads(V, V.pcb[q].parent)
               PROVE  Cared(V, q)
    BY DEF EachIsCaredFor
  <2>1. q \in Pid /\ q \in W.map /\ q \in W.live /\ Living(W, q) /\ Leads(W, q) /\ q # D /\ q \notin ths
    <3>1. q \in W.map /\ q \notin ths
      BY DEF Ends
    <3>2. q \in W.live /\ q \in Pid
      BY <1>0, <3>1
    <3> QED BY <3>1, <3>2 DEF Ends, Leads
  \* D is dead, and can be told nothing by a parent that is not in the map.
  <2>2. ASSUME V.pcb[q].parent = D, H \notin V.map PROVE Cared(V, q)
    <3>1. ~Living(V, D)
      BY <1>0 DEF Ends
    <3>2. D \notin M2 /\ D \notin M1
      BY <2>2 DEF Ends
    <3>3. V.pcb[D].parent = H
      BY <1>0, <3>2 DEF Ends
    <3>4. H \notin V.live
      BY <1>4, <2>2, <3>3, <1>0 DEF Kinship, Ends
    <3> QED BY <2>2, <3>1, <3>3, <3>4 DEF Cared, Fathered
  <2>3. CASE q \in M2
    <3>1. V.pcb[q].parent = H /\ H \in V.map /\ H \in Pid /\ H \in W.map /\ H \notin ths /\ Leads(W, H)
      <4>1. V.pcb[q].parent = H /\ H \in V.map
        BY <2>1, <2>3 DEF Ends
      <4>2. H \in Pid
        BY <4>1
      <4> QED BY <4>1, <4>2 DEF Ends, Leads
    <3>2. q \in V.pcb[H].children
      BY <2>3, <3>1 DEF Ends
    <3>3. CASE Living(V, H)
      BY <3>1, <3>2, <3>3 DEF Cared
    <3>4. CASE ~Living(V, H)
      <4>1. ~Fathered(V, H)
        <5>1. CASE H = D
          <6>1. V.pcb[D].parent = D
            BY ZenonT(40), <1>0, <5>1 DEF Ends
          <6>2. ~V.pcb[D].held
            BY <1>0 DEF Ends
          <6> QED BY <5>1, <6>1, <6>2 DEF Fathered
        <5>2. CASE H # D
          <6>1. ~Living(W, H)
            BY <3>1, <3>4, <5>2 DEF Ends
          <6>2. Leads(W, D)
            BY <6>1 DEF ThreadsHaveMains
          <6>3. Cared(W, D)
            BY <3>1, <6>2 DEF EachIsCaredFor
          <6>4. ~Fathered(W, H)
            BY <6>1, <6>3 DEF Cared
          <6> QED BY <1>0, <3>1, <6>4, EndsFatherless
        <5> QED BY <5>1, <5>2
      <4> QED BY <3>1, <3>4, <4>1 DEF Cared
    <3> QED BY <3>3, <3>4
  <2>4. CASE q \in M1 /\ q \notin M2
    <3>1. V.pcb[q].parent = D
      BY <2>1, <2>4 DEF Ends
    <3>2. H \notin V.map
      BY <2>1, <2>4 DEF Ends
    <3> QED BY <2>2, <3>1, <3>2
  <2>5. CASE q \notin M1 \cup M2
    <3> DEFINE par == W.pcb[q].parent
    <3>1. V.pcb[q].parent = par /\ par \in Pid /\ Leads(W, par) /\ par \notin ths
      <4>1. V.pcb[q].parent = par
        BY <2>1, <2>5 DEF Ends
      <4>2. par \in Pid
        BY <4>1
      <4>3. Leads(W, par)
        BY <4>1, <4>2 DEF Ends, Leads
      <4> QED BY <4>1, <4>2, <4>3 DEF Leads
    <3>2. Cared(W, q)
      BY <2>1, <3>1 DEF EachIsCaredFor
    <3>3. CASE par \in W.map /\ Living(W, par) /\ q \in W.pcb[par].children
      <4>1. CASE par = D
        <5>1. H \notin V.map
          BY <2>1, <2>5, <3>3, <4>1 DEF Ends
        <5> QED BY <2>2, <3>1, <4>1, <5>1
      <4>2. CASE par # D
        <5>1. par \in V.map /\ Living(V, par) /\ q \in V.pcb[par].children
          BY <3>1, <3>3, <4>2 DEF Ends
        <5> QED BY <3>1, <5>1 DEF Cared
      <4> QED BY <4>1, <4>2
    <3>4. CASE ~(par \in W.live /\ Living(W, par)) /\ ~Fathered(W, par)
      <4>1. ~Fathered(V, par)
        BY <1>0, <3>1, <3>4, EndsFatherless
      <4>2. ~(par \in V.live /\ Living(V, par))
        BY <3>1, <3>4 DEF Ends
      <4> QED BY <3>1, <4>1, <4>2 DEF Cared
    <3> QED BY <3>2, <3>3, <3>4 DEF Cared
  <2> QED BY <2>3, <2>4, <2>5
<1> QED BY <1>1, <1>3, <1>4, <1>5

\* The state after an exit, the table being V and the scheduler having come back.
LEMMA EndsStep ==
  ASSUME IInv, CalmIInv, cur \in live, Living(World, cur), pc[cur] = "user",
         NEW V, NEW M1, NEW M2, Ends(World, V, cur, pcb[cur].threads, pcb[cur].parent, M1, M2),
         NEW G \in SUBSET {cur}, NEW U, Gentle(V, U, G, cur), Becomes(U), U.pcb = V.pcb,
         nextPid' = nextPid, UNCHANGED calls, cur' = Scheduler, list' \subseteq procMap'
  PROVE  CalmIInv'
<1> DEFINE D == cur
           ths == pcb[D].threads
           H == pcb[D].parent
<1>1. /\ World \in WorldType /\ World.pcb = pcb /\ World.live = live /\ World.map = procMap
      /\ World'.pcb = U.pcb /\ World'.live = U.live /\ World'.map = U.map
      /\ pcb' = V.pcb /\ live' = V.live \ G /\ procMap' = V.map \ G
      /\ Created' = Created /\ Created \in SUBSET Pid
      /\ UNCHANGED <<pc, arg, requests, serving>>
  BY WorldHasType, CreatedPids DEF World, Becomes, IInv, Created, Gentle, calls
<1>2. /\ D \in Pid /\ ths \subseteq live /\ \A t \in ths : pcb[t].main = D /\ t # D
      /\ pcb[D].status = "RUN" /\ (Threadless(D) => D \in procMap) /\ Alive(D)
      /\ Family(World, Created)
  <2>1. D \in Pid /\ Alive(D)
    <3>1. live \subseteq Pid
      BY DEF IInv, TypeOK
    <3> QED BY <1>1, <3>1 DEF Living, Alive
  <2>2. ths \subseteq live /\ \A t \in ths : pcb[t].main = D /\ t # D
    BY <2>1 DEF IInv, ThreadsBelong, LiveThreads, Alive
  <2>3. pcb[D].status = "RUN" /\ (Threadless(D) => D \in procMap)
    BY <2>1 DEF CalmIInv, AtWork, BusyRun
  <2> QED BY <2>1, <2>2, <2>3 DEF CalmIInv
<1>3. Family(V, Created) /\ V \in WorldType
  <2>1. Leads(World, D) => D \in procMap
    BY <1>1, <1>2 DEF Leads, Threadless
  <2>2. Family(V, Created)
    BY SMTT(40), <1>1, <1>2, <2>1, EndsFamily
  <2> QED BY <2>2 DEF Ends
<1> HIDE DEF ths, H
<1>4. Family(World, Created)'
  <2>1. Family(U, Created)
    BY <1>1, <1>3, GentleFamily
  <2> QED BY SMTT(40), <1>1, <2>1 DEF Family, EndsAtOnce, ThreadsHaveMains, Kinship, EachIsCaredFor, Cared, Living, Leads, Fathered
<1>5. \A q \in Pid :
        /\ pcb'[q].main = pcb[q].main
        /\ pcb'[q].status \notin Dead <=> pcb[q].status \notin Dead /\ q # D /\ q \notin ths
        /\ pcb'[q].status \notin Dead => pcb'[q].status = pcb[q].status
        /\ q \in procMap /\ q # D /\ q \notin ths => q \in procMap'
        /\ pcb[q].children \subseteq pcb'[q].children
        /\ q \notin procMap => pcb'[q].parent = pcb[q].parent
  <2> SUFFICES ASSUME NEW q \in Pid
               PROVE  /\ pcb'[q].main = pcb[q].main
                      /\ pcb'[q].status \notin Dead <=> pcb[q].status \notin Dead /\ q # D /\ q \notin ths
                      /\ pcb'[q].status \notin Dead => pcb'[q].status = pcb[q].status
                      /\ q \in procMap /\ q # D /\ q \notin ths => q \in procMap'
                      /\ pcb[q].children \subseteq pcb'[q].children
                      /\ q \notin procMap => pcb'[q].parent = pcb[q].parent
    OBVIOUS
  <2>1. /\ pcb'[q].main = pcb[q].main
        /\ pcb'[q].status \notin Dead <=> pcb[q].status \notin Dead /\ q # D /\ q \notin ths
        /\ pcb'[q].status \notin Dead => pcb'[q].status = pcb[q].status
        /\ pcb[q].children \subseteq pcb'[q].children
    BY <1>1 DEF Ends, Living, ths
  <2>2. q \in procMap /\ q # D /\ q \notin ths => q \in procMap'
    BY <1>1 DEF Ends, ths
  <2>3. q \notin procMap => pcb'[q].parent = pcb[q].parent
    BY <1>1 DEF Ends, ths
  <2> QED BY <2>1, <2>2, <2>3
<1>6. live' \subseteq live /\ procMap \subseteq live /\ live \subseteq Pid
  BY <1>1, <1>2 DEF Ends, Family, EndsAtOnce, WorldType
<1>7. BusyRun'
  <2> SUFFICES ASSUME NEW q \in Pid, Busy(q)', Alive(q)'
               PROVE  pcb'[q].status = "RUN" /\ (Threadless(q)' => q \in procMap')
    BY SpecialPids DEF BusyRun
  <2>1. Busy(q) /\ Alive(q) /\ q # D /\ q \notin ths /\ (Threadless(q)' <=> Threadless(q))
    BY <1>1, <1>5 DEF Busy, Alive, Threadless
  <2>2. pcb[q].status = "RUN" /\ (Threadless(q) => q \in procMap)
    BY <2>1 DEF CalmIInv, AtWork, BusyRun
  <2> QED BY <1>5, <2>1, <2>2 DEF Alive
<1>8. AskersWait'
  <2> SUFFICES ASSUME NEW q \in Pid, Asked(q)'
               PROVE  \/ pcb'[q].status = "WAIT_KERNEL_SERVICE" /\ q \in procMap'
                      \/ q \notin live' /\ ~Threadless(q)'
    BY DEF AskersWait
  <2>1. Asked(q) /\ (Threadless(q)' <=> Threadless(q))
    BY <1>1, <1>5 DEF Asked, Threadless
  <2>2. CASE pcb[q].status = "WAIT_KERNEL_SERVICE" /\ q \in procMap
    <3>1. q # D
      BY <1>2, <2>2
    <3>2. CASE q \in ths
      <4>1. ~Threadless(q)
        BY <1>2, <3>2 DEF Threadless, ths
      <4>2. q \notin live'
        BY <1>1, <3>2 DEF Ends, ths
      <4> QED BY <2>1, <4>1, <4>2
    <3>3. CASE q \notin ths
      BY <1>5, <2>2, <3>1, <3>3 DEF Dead
    <3> QED BY <3>2, <3>3
  <2>3. CASE q \notin live /\ ~Threadless(q)
    BY <1>6, <2>1, <2>3
  <2> QED BY <2>1, <2>2, <2>3 DEF CalmIInv, AtWork, AskersWait
<1>9. LinkedFirst'
  <2> SUFFICES ASSUME NEW q \in Pid PROVE Linked(q)'
    BY DEF LinkedFirst
  <2>0. Linked(q)
    BY DEF CalmIInv, AtWork, LinkedFirst
  <2>1. Busy(q) => arg[q] \in Pid
    BY <1>1 DEF IInv, BusyArgs
  <2>2. Creating(q) => Busy(q) /\ arg[q] \in Pid /\ pcb'[arg[q]].parent = pcb[arg[q]].parent
    BY <1>5, <2>1, StepKinds DEF IInv, NewIsPrivate
  <2>3. Creating(q)' => (pcb[arg[q]].parent \in {q, serving[q], NO_PROCESS_ID})'
    BY <1>1, <2>0, <2>2 DEF Linked, Creating
  <2>4. ASSUME pc[q] = "create_publish", NEW par, par = pcb[arg[q]].parent, par \in Pid, Threadless(par)
        PROVE  par \in procMap' /\ Alive(par)' /\ arg[q] \in pcb'[par].children
    <3>1. par \in procMap /\ Alive(par) /\ arg[q] \in pcb[par].children
      BY <2>0, <2>4 DEF Linked
    <3>2. par \in {q, serving[q]}
      BY <2>0, <2>4, SpecialPids DEF Linked, Creating, CreateSteps
    <3>3. par # D
      <4>1. CASE par = q
        BY <2>4, <4>1
      <4>2. CASE par = serving[q]
        <5>1. Asked(par)
          BY <4>2 DEF Asked
        <5>2. par \in live
          BY <1>6, <3>1
        <5>3. pcb[par].status = "WAIT_KERNEL_SERVICE"
          BY <2>4, <5>1, <5>2 DEF CalmIInv, AtWork, AskersWait
        <5> QED BY <1>2, <5>3
      <4> QED BY <3>2, <4>1, <4>2
    <3>4. par \notin ths
      BY <1>2, <2>4, <3>3 DEF Threadless, ths
    <3> QED BY <1>5, <2>4, <3>1, <3>3, <3>4 DEF Alive
  <2>5. pc[q] = "thread_publish" => ~Threadless(arg[q])'
    <3>1. pc[q] = "thread_publish" => Busy(q) /\ ~Threadless(arg[q])
      BY <2>0 DEF Busy, Linked
    <3> QED BY <1>1, <1>5, <2>1, <3>1 DEF Threadless
  <2>6. pc[q] = "create_publish" => Creating(q)
    BY DEF Creating, CreateSteps
  <2> QED BY <1>1, <1>5, <2>1, <2>2, <2>3, <2>4, <2>5, <2>6 DEF Threadless, Linked
<1>10. \A q \in Pid : pc'[q] \notin KillSteps /\ ((Busy(q) \/ Asked(q))' => q \in Created')
  BY <1>1 DEF CalmIInv, AtWork, Busy, Asked
<1> QED BY <1>4, <1>7, <1>8, <1>9, <1>10 DEF CalmIInv, AtWork

LEMMA SwitchBackCalm ==
  ASSUME IInv, CalmIInv, NEW p \in Pid, cur = p, NEW W, Gentle(World, W, {}, p), SwitchBack(W, FALSE),
         Busy(p) => W.pcb[p].status = "RUN",
         W.pcb[p].children = pcb[p].children
  PROVE  CalmIInv'
<1>1. CASE Undefined
  BY <1>1, SameCalm DEF Undefined
<1>2. CASE EndOfTurn(W, p) /\ UNCHANGED <<pass, nextPid, calls, fault>>
  <2>1. /\ World \in WorldType /\ World.pcb = pcb /\ World.live = live /\ World.map = procMap
        /\ W \in WorldType /\ W.map = procMap /\ list \subseteq procMap
        /\ p \in live /\ p \in Created /\ UNCHANGED <<pc, arg, requests, serving>>
    <3>1. W \in WorldType /\ W.map = World.map
      BY DEF Gentle
    <3> QED BY <1>2, <3>1, WorldHasType DEF World, IInv, CurrentAlive, CalmIInv, AtWork, BusyRun, calls
  <2>2. PICK V \in WorldType, G \in SUBSET {p} :
           Gentle(W, V, G, p) /\ Becomes(V) /\ list' \subseteq V.map /\ V.pcb = W.pcb
    BY <1>2, <2>1, EndOfTurnGentle
  <2>3. {} \cup G = G
    OBVIOUS
  <2>4. Gentle(World, V, G, p)
    BY <2>1, <2>2, <2>3, GentleTrans
  <2>5. cur' = Scheduler /\ cur' # p /\ list' \subseteq procMap' /\ nextPid' = nextPid
    BY <1>2, <2>2, SpecialPids DEF EndOfTurn, Becomes
  <2>6. ~Asked(p)'
    <3>1. pcb[p].status = "RUN"
      BY DEF IInv, CurrentAlive, CalmIInv, AtWork, BusyRun, Alive
    <3>2. ~Asked(p)
      BY <2>1, <3>1 DEF CalmIInv, AtWork, AskersWait
    <3> QED BY <2>1, <3>2 DEF Asked
  <2> QED BY <2>1, <2>2, <2>4, <2>5, <2>6, GentleStep
<1> QED BY <1>1, <1>2 DEF SwitchBack

LEMMA PreemptCalm == ASSUME IInv, CalmIInv, Preempt PROVE CalmIInv'
<1>1. World \in WorldType /\ World.pcb = pcb /\ cur \in Pid
  BY WorldHasType DEF World, IInv, Preempt
<1>2. PICK p \in Pid : p = cur
  BY <1>1
<1>3. Gentle(World, World, {}, p)
  BY <1>1, GentleSelf
<1>4. Busy(p) => World.pcb[p].status = "RUN"
  BY <1>1, <1>2 DEF IInv, CurrentAlive, CalmIInv, AtWork, BusyRun, Alive
<1>5. SwitchBack(World, FALSE)
  BY DEF Preempt
<1> QED BY <1>1, <1>2, <1>3, <1>4, <1>5, SwitchBackCalm

\* Of a process that begins to wait only the state and what it waits for change.
LEMMA BlockCalm ==
  ASSUME IInv, CalmIInv, NEW p \in Pid, InUserCode(p), NEW row \in PCB, Block(p, row),
         row.status \notin Dead, row.main = pcb[p].main, row.parent = pcb[p].parent, row.held = pcb[p].held,
         row.threads = pcb[p].threads, row.turn = pcb[p].turn, row.children = pcb[p].children
  PROVE  CalmIInv'
<1> DEFINE W == [World EXCEPT !.pcb[p] = row]
<1>1. /\ World \in WorldType /\ World.pcb = pcb /\ cur = p /\ ~Busy(p)
      /\ pcb[p].status \notin Dead
  BY WorldHasType DEF World, IInv, TypeOK, InUserCode, Running, CurrentAlive, Busy
<1>2. CASE Undefined
  BY <1>2, SameCalm DEF Undefined
<1>3. CASE SwitchBack(W, FALSE)
  <2>1. /\ W \in WorldType /\ W.live = World.live /\ W.map = World.map
        /\ \A q \in Pid : W.pcb[q] = IF q = p THEN row ELSE World.pcb[q]
    <3>1. W \in WorldType
      BY <1>1, UpdateType
    <3> QED BY <1>1, <3>1 DEF WorldType
  <2> HIDE DEF W
  <2>2. SameKin(World, p, row)
    BY <1>1 DEF SameKin
  <2>3. Gentle(World, W, {}, p)
    BY <1>1, <2>1, <2>2, RowGentle
  <2>4. W.pcb[p].children = pcb[p].children
    BY <2>1
  <2> QED BY <1>1, <1>3, <2>3, <2>4, SwitchBackCalm
<1> QED BY <1>2, <1>3 DEF Block

LEMMA WaitsCalm ==
  ASSUME IInv, CalmIInv, NEW p \in Pid, Wait(p) \/ \E c \in Pid : WaitOnChild(p, c)
  PROVE  CalmIInv'
<1>0. pcb[p] \in PCB
  BY DEF IInv, TypeOK
<1>1. CASE Wait(p)
  <2> DEFINE row == [pcb[p] EXCEPT !.status = "WAIT"]
  <2>1. /\ row \in PCB /\ row.status \notin Dead /\ row.main = pcb[p].main /\ row.parent = pcb[p].parent
        /\ row.held = pcb[p].held /\ row.threads = pcb[p].threads /\ row.turn = pcb[p].turn
        /\ row.children = pcb[p].children
    BY <1>0 DEF PCB, Dead, Status
  <2>2. InUserCode(p) /\ Block(p, row)
    BY <1>1 DEF Wait
  <2> HIDE DEF row
  <2> QED BY <2>1, <2>2, BlockCalm
<1>2. ASSUME NEW c \in Pid, WaitOnChild(p, c) PROVE CalmIInv'
  <2> DEFINE row == [pcb[p] EXCEPT !.waitChild = c, !.status = "WAIT_CHILD"]
  <2>1. /\ row \in PCB /\ row.status \notin Dead /\ row.main = pcb[p].main /\ row.parent = pcb[p].parent
        /\ row.held = pcb[p].held /\ row.threads = pcb[p].threads /\ row.turn = pcb[p].turn
        /\ row.children = pcb[p].children
    BY <1>0 DEF PCB, Dead, Status
  <2>2. InUserCode(p) /\ Block(p, row)
    BY <1>2 DEF WaitOnChild
  <2> HIDE DEF row
  <2> QED BY <2>1, <2>2, BlockCalm
<1> QED BY <1>1, <1>2

LEMMA RequestCalm ==
  ASSUME IInv, CalmIInv, NEW p \in Pid, RequestKernelService(p)
  PROVE  CalmIInv'
<1> DEFINE W == SetStatus(World, p, "WAIT_KERNEL_SERVICE")
<1>1. CASE Undefined
  BY <1>1, SameCalm DEF Undefined
<1>2. CASE p \in procMap \cap live /\ EndOfTurn(W, p)
  <2>1. /\ World \in WorldType /\ World.pcb = pcb /\ World.live = live /\ World.map = procMap
        /\ cur = p /\ pcb[p].status \notin Dead /\ ~Busy(p) /\ list \subseteq procMap /\ p \in Created
        /\ UNCHANGED <<nextPid, pc, arg, serving>> /\ requests' = requests \cup {p}
    BY <1>2, WorldHasType DEF World, IInv, InUserCode, Running, CurrentAlive, Busy, RequestKernelService,
       CalmIInv, AtWork
  <2>2. "WAIT_KERNEL_SERVICE" \in Status /\ "WAIT_KERNEL_SERVICE" \notin Dead
    BY StatusFacts
  <2>3. Gentle(World, W, {}, p)
    BY <2>1, <2>2, SetStatusGentle
  <2>4. /\ W \in WorldType /\ W.map = procMap /\ W.pcb[p].status = "WAIT_KERNEL_SERVICE"
        /\ W.pcb[p].children = pcb[p].children
    <3>1. pcb[p] \in PCB /\ pcb \in [Pid -> PCB]
      BY DEF IInv, TypeOK
    <3>2. W \in WorldType
      BY <2>1, <2>2, SetStatusType
    <3>3. W.map = World.map /\ W.pcb = [World.pcb EXCEPT ![p] = [World.pcb[p] EXCEPT !.status = "WAIT_KERNEL_SERVICE"]]
      BY <2>1 DEF SetStatus, WorldType
    <3>4. W.pcb[p] = [pcb[p] EXCEPT !.status = "WAIT_KERNEL_SERVICE"]
      BY <2>1, <3>1, <3>3
    <3> HIDE DEF W
    <3> QED BY <2>1, <3>1, <3>2, <3>3, <3>4 DEF PCB
  <2> HIDE DEF W
  <2>5. PICK V \in WorldType, G \in SUBSET {p} :
           Gentle(W, V, G, p) /\ Becomes(V) /\ list' \subseteq V.map /\ V.pcb = W.pcb
    BY <1>2, <2>1, <2>4, EndOfTurnGentle
  <2>6. {} \cup G = G
    OBVIOUS
  <2>7. Gentle(World, V, G, p)
    BY <2>1, <2>3, <2>5, <2>6, GentleTrans
  <2>8. cur' = Scheduler /\ cur' # p /\ list' \subseteq procMap'
    BY <1>2, <2>5, SpecialPids DEF EndOfTurn, Becomes
  <2>9. p \in procMap'
    <3>1. p \notin G
      BY <2>2, <2>4, <2>5 DEF Gentle, Living
    <3> QED BY <1>2, <2>4, <2>5, <3>1 DEF Gentle, Becomes
  <2> QED BY <2>1, <2>4, <2>5, <2>7, <2>8, <2>9, GentleStep
<1> QED BY <1>1, <1>2 DEF RequestKernelService

LEMMA ExitCalm == ASSUME IInv, CalmIInv, NEW p \in Pid, Exit(p) PROVE CalmIInv'
<1>1. CASE Undefined
  BY <1>1, SameCalm DEF Undefined
<1>2. CASE p \in live /\ EndOfTurn(Destroy(World, p), p) /\ UNCHANGED <<nextPid, calls>>
  <2>1. /\ World \in WorldType /\ World.pcb = pcb /\ World.live = live /\ World.map = procMap
        /\ cur = p /\ pcb[p].status \notin Dead /\ ~Busy(p) /\ list \subseteq procMap /\ pc[p] = "user"
        /\ Created \in SUBSET Pid /\ Family(World, Created) /\ (Threadless(p) => p \in procMap)
    BY WorldHasType, CreatedPids DEF World, IInv, InUserCode, Running, CurrentAlive, Busy, Exit,
       CalmIInv, AtWork, BusyRun, Alive
  <2>2. pcb[p].threads \subseteq live /\ \A t \in pcb[p].threads : pcb[t].main = p /\ t # p
    BY <2>1 DEF IInv, LiveThreads, ThreadsBelong
  <2>3. PICK M1, M2 : Ends(World, Destroy(World, p), p, pcb[p].threads, pcb[p].parent, M1, M2)
    BY <1>2, <2>1, <2>2, DestroyRows DEF Living, Leads, Threadless
  <2> DEFINE W == Destroy(World, p)
  <2> HIDE DEF W
  <2>4. W \in WorldType /\ list \subseteq W.map
    <3>1. W.map = procMap \ pcb[p].threads /\ W \in WorldType
      BY <2>1, <2>3 DEF Ends, W
    <3>2. pcb[p].threads \cap list = {}
      BY ThreadsApart
    <3> QED BY <2>1, <3>1, <3>2
  <2>5. PICK V \in WorldType, G \in SUBSET {p} :
           Gentle(W, V, G, p) /\ Becomes(V) /\ list' \subseteq V.map /\ V.pcb = W.pcb
    BY <1>2, <2>1, <2>4, EndOfTurnGentle DEF W
  <2>6. cur' = Scheduler /\ list' \subseteq procMap'
    BY <1>2, <2>5 DEF EndOfTurn, Becomes
  <2> QED BY <1>2, <2>1, <2>3, <2>5, <2>6, EndsStep DEF Living, W
<1> QED BY <1>1, <1>2 DEF Exit, SwitchBack, InUserCode, Running

-----------------------------------------------------------------------------
(* Creations *)

\* A new object c is nobody's parent yet, and what it knows of the others is so.
NewKin(c) ==
  /\ procMap' = procMap /\ live \subseteq live' /\ live' \subseteq live \cup {c}
  /\ \A q \in Pid \ {c} :
       /\ pcb'[q].main = pcb[q].main /\ pcb'[q].parent = pcb[q].parent /\ pcb'[q].held = pcb[q].held
       /\ pcb'[q].status = pcb[q].status /\ pcb'[q].children = pcb[q].children
       /\ pcb[q].threads \subseteq pcb'[q].threads
       /\ pcb[q].turn \subseteq pcb[q].threads => pcb'[q].turn \subseteq pcb'[q].threads
  /\ pcb'[c].children = {} /\ pcb'[c].turn = {}
  /\ pcb'[c].parent \in Created \cup {NO_PROCESS_ID}
  /\ pcb'[c].main \in Created \cup {c}
  /\ pcb'[c].main # c => pcb[pcb'[c].main].main = pcb'[c].main
  /\ c \in live' =>
       /\ pcb'[c].status \notin Dead /\ pcb'[c].held
       /\ pcb'[c].parent \in live => pcb'[c].parent \in procMap
       /\ pcb'[c].main # c =>
            /\ pcb'[c].main \in procMap /\ pcb[pcb'[c].main].status \notin Dead
            /\ pcb'[c].parent = pcb'[c].main /\ c \in pcb'[pcb'[c].main].threads

LEMMA RowsStay ==
  ASSUME TypeOK, \A q \in Pid : q \in live => pcb'[q].status = pcb[q].status \/ pcb[q].status \notin Dead
  PROVE  StaysDead
<1>1. live \subseteq Pid
  BY DEF TypeOK
<1>2. "TERMINATED" \in Dead /\ "RELEASED" \in Dead
  BY DEF Dead
<1> QED BY <1>1, <1>2 DEF StaysDead

LEMMA UndefinedStay == ASSUME TypeOK, Undefined PROVE StaysDead
BY RowsStay DEF Undefined, table

LEMMA FreshFamily ==
  ASSUME IInv, CalmIInv, NEW c \in Pid, c \notin Created, Created' = Created \cup {c}, NewKin(c)
  PROVE  Family(World, Created)'
<1>1. /\ World.pcb = pcb /\ World.live = live /\ World.map = procMap
      /\ World'.pcb = pcb' /\ World'.live = live' /\ World'.map = procMap'
      /\ Created \in SUBSET Pid /\ Family(World, Created) /\ procMap \subseteq Created /\ live \subseteq Created
  BY CreatedPids DEF World, IInv, ListOfMains, CalmIInv
<1>2. /\ \A q \in Pid : pcb[q].main \in Pid /\ pcb[q].children \in SUBSET Pid
      /\ \A q \in Created : q # c /\ q \in Pid
      /\ \A q \in Pid : pcb[q].parent \in Created \cup {NO_PROCESS_ID} /\ pcb[q].children \subseteq Created
  BY <1>1 DEF IInv, TypeOK, PCB, Family, Kinship
<1>3. EndsAtOnce(World, Created)'
  <2>1. procMap' \subseteq live' /\ live' \subseteq Created'
    BY <1>1 DEF NewKin, Family, EndsAtOnce
  <2>2. ASSUME NEW q \in live' PROVE pcb'[q].held <=> pcb'[q].status \notin Dead
    <3>1. CASE q = c
      BY <2>2, <3>1 DEF NewKin
    <3>2. CASE q # c
      <4>1. q \in live /\ q \in Pid
        BY <1>1, <2>2, <3>2 DEF NewKin
      <4>2. pcb[q].held <=> pcb[q].status \notin Dead
        BY <1>1, <4>1 DEF Family, EndsAtOnce, Living
      <4> QED BY <3>2, <4>1, <4>2 DEF NewKin
    <3> QED BY <3>1, <3>2
  <2> QED BY <1>1, <2>1, <2>2 DEF EndsAtOnce, Living
<1>4. ThreadsHaveMains(World, Created)'
  <2>1. ASSUME NEW q \in Pid
        PROVE  pcb'[pcb'[q].main].main = pcb'[q].main /\ pcb'[q].main \in Created' \cup {q}
    <3>1. CASE q # c
      <4>1. pcb'[q].main = pcb[q].main
        BY <3>1 DEF NewKin
      <4>2. pcb[pcb[q].main].main = pcb[q].main /\ pcb[q].main \in Created \cup {q}
        BY <1>1 DEF Family, ThreadsHaveMains, Leads
      <4>3. pcb[q].main # c /\ pcb[q].main \in Pid
        BY <1>2, <3>1, <4>2
      <4>4. pcb'[pcb[q].main].main = pcb[pcb[q].main].main
        BY <4>3 DEF NewKin
      <4> QED BY <4>1, <4>2, <4>4
    <3>2. CASE q = c
      <4>1. pcb'[c].main \in Created \cup {c}
        BY DEF NewKin
      <4>2. CASE pcb'[c].main = c
        BY <3>2, <4>2
      <4>3. CASE pcb'[c].main # c
        <5>1. pcb'[c].main \in Pid /\ pcb[pcb'[c].main].main = pcb'[c].main
          BY <1>2, <4>1, <4>3 DEF NewKin
        <5>2. pcb'[pcb'[c].main].main = pcb[pcb'[c].main].main
          BY <4>3, <5>1 DEF NewKin
        <5> QED BY <3>2, <4>1, <5>1, <5>2
      <4> QED BY <4>2, <4>3
    <3> QED BY <3>1, <3>2
  <2>2. ASSUME NEW t \in live', pcb'[t].main # t, pcb'[t].status \notin Dead
        PROVE  /\ t \in pcb'[pcb'[t].main].threads /\ pcb'[t].parent = pcb'[t].main
               /\ pcb'[t].main \in procMap' /\ pcb'[pcb'[t].main].status \notin Dead
    <3>1. CASE t = c
      <4> DEFINE m == pcb'[c].main
      <4>1. m \in procMap /\ pcb[m].status \notin Dead /\ pcb'[c].parent = m /\ c \in pcb'[m].threads
        BY <2>2, <3>1 DEF NewKin
      <4>2. m # c /\ m \in Pid
        BY <1>1, <1>2, <4>1
      <4>3. pcb'[m].status = pcb[m].status /\ procMap' = procMap
        BY <4>2 DEF NewKin
      <4> QED BY <3>1, <4>1, <4>3
    <3>2. CASE t # c
      <4> DEFINE m == pcb[t].main
      <4>1. t \in live /\ t \in Pid
        BY <1>1, <2>2, <3>2 DEF NewKin
      <4>2. pcb'[t].main = m /\ pcb'[t].status = pcb[t].status /\ pcb'[t].parent = pcb[t].parent
        BY <3>2, <4>1 DEF NewKin
      <4>3. t \in pcb[m].threads /\ pcb[t].parent = m /\ m \in procMap /\ pcb[m].status \notin Dead
        BY <1>1, <2>2, <4>1, <4>2 DEF Family, ThreadsHaveMains, Leads, Living
      <4>4. m # c /\ m \in Pid
        BY <1>1, <1>2, <4>3
      <4>5. t \in pcb'[m].threads /\ pcb'[m].status = pcb[m].status /\ procMap' = procMap
        BY <4>3, <4>4 DEF NewKin
      <4> QED BY <4>2, <4>3, <4>5
    <3> QED BY <3>1, <3>2
  <2>3. ASSUME NEW q \in Pid, pcb'[q].status \notin Dead PROVE pcb'[q].turn \subseteq pcb'[q].threads
    <3>1. CASE q = c
      BY <3>1 DEF NewKin
    <3>2. CASE q # c
      <4>1. pcb[q].turn \subseteq pcb[q].threads
        BY <1>1, <2>3, <3>2 DEF NewKin, Family, ThreadsHaveMains, Living
      <4> QED BY <3>2, <4>1 DEF NewKin
    <3> QED BY <3>1, <3>2
  <2> QED BY <1>1, <2>1, <2>2, <2>3 DEF ThreadsHaveMains, Leads, Living
<1>5. Kinship(World, Created)'
  <2>1. ASSUME NEW q \in Pid PROVE pcb'[q].parent \in Created' \cup {NO_PROCESS_ID} /\ pcb'[q].children \subseteq Created'
    BY <1>2 DEF NewKin
  <2>2. ASSUME NEW q \in live', pcb'[q].parent \in live' PROVE pcb'[q].parent \in procMap'
    <3>1. pcb'[q].parent \in live /\ procMap' = procMap
      <4>1. q \in Pid
        BY <1>1, <2>2 DEF NewKin
      <4>2. pcb'[q].parent # c
        BY <1>2, <4>1, SpecialPids DEF NewKin
      <4> QED BY <2>2, <4>2 DEF NewKin
    <3>2. CASE q = c
      BY <2>2, <3>1, <3>2 DEF NewKin
    <3>3. CASE q # c
      <4>1. q \in live /\ q \in Pid /\ pcb'[q].parent = pcb[q].parent
        BY <1>1, <2>2, <3>3 DEF NewKin
      <4> QED BY <1>1, <3>1, <4>1 DEF Family, Kinship
    <3> QED BY <3>2, <3>3
  <2>3. ASSUME NEW q \in live', pcb'[q].status \notin Dead, NEW k \in pcb'[q].children PROVE pcb'[k].parent = q
    <3>1. q # c /\ q \in live /\ q \in Pid
      BY <1>1, <2>3 DEF NewKin
    <3>2. k \in pcb[q].children /\ pcb[q].status \notin Dead
      BY <2>3, <3>1 DEF NewKin
    <3>3. pcb[k].parent = q /\ k \in Pid /\ k # c
      BY <1>1, <1>2, <3>1, <3>2 DEF Family, Kinship, Living
    <3> QED BY <3>3 DEF NewKin
  <2> QED BY <1>1, <2>1, <2>2, <2>3 DEF Kinship, Living
<1>6. EachIsCaredFor(World)'
  <2> SUFFICES ASSUME NEW q \in procMap', pcb'[q].status \notin Dead, pcb'[q].main = q,
                      pcb'[q].parent \in Pid, pcb'[pcb'[q].parent].main = pcb'[q].parent
               PROVE  Cared(World, q)'
    BY <1>1 DEF EachIsCaredFor, Living, Leads
  <2> DEFINE par == pcb[q].parent
  <2>1. q \in procMap /\ q # c /\ q \in Pid
    BY <1>1, <1>2 DEF NewKin
  <2>2. pcb'[q].parent = par /\ pcb[q].main = q /\ pcb[q].status \notin Dead
    BY <2>1 DEF NewKin
  <2>3. par # c /\ par \in Pid /\ pcb[par].main = par /\ pcb[par].parent # c
    <3>1. par # c /\ par \in Pid
      BY <1>2, <2>1, <2>2, SpecialPids
    <3> QED BY <1>2, <2>2, <3>1, SpecialPids DEF NewKin
  <2>4. pcb'[par].status = pcb[par].status /\ pcb'[par].children = pcb[par].children /\ pcb'[par].parent = pcb[par].parent
    BY <2>3 DEF NewKin
  <2>5. Cared(World, q)
    BY <1>1, <2>1, <2>2, <2>3 DEF Family, EachIsCaredFor, Living, Leads
  <2>6. CASE par \in procMap /\ pcb[par].status \notin Dead /\ q \in pcb[par].children
    <3>1. par \in procMap' /\ pcb'[par].status \notin Dead /\ q \in pcb'[par].children
      BY <2>4, <2>6 DEF NewKin
    <3> QED BY <1>1, <2>2, <3>1 DEF Cared, Living
  <2>7. CASE ~(par \in live /\ pcb[par].status \notin Dead) /\ ~(pcb[par].parent \in live /\ pcb[pcb[par].parent].held)
    <3>1. ~(par \in live' /\ pcb'[par].status \notin Dead)
      BY <2>3, <2>4, <2>7 DEF NewKin
    <3>2. ~(pcb'[par].parent \in live' /\ pcb'[pcb'[par].parent].held)
      BY <1>1, <2>3, <2>4, <2>7 DEF NewKin
    <3> QED BY <1>1, <2>2, <3>1, <3>2 DEF Cared, Living, Fathered
  <2> QED BY <1>1, <2>5, <2>6, <2>7 DEF Cared, Living, Fathered
<1> QED BY <1>3, <1>4, <1>5, <1>6 DEF Family

\* The creator goes on with the new object, or as if nothing had been.
LEMMA FreshCalm ==
  ASSUME IInv, CalmIInv, NEW p \in Pid, cur = p, NEW c \in Pid, c = nextPid, nextPid' = c + 1, NewKin(c),
         UNCHANGED <<list, cur>>,
         \A q \in Pid \ {p} : pc'[q] = pc[q] /\ arg'[q] = arg[q],
         \A q \in Pid : Asked(q)' => Asked(q), \A q \in Pid \ {p} : serving'[q] = serving[q],
         \/ pc'[p] = "user"
         \/ pc'[p] = "create_link" /\ arg'[p] = c /\ pcb'[c].parent \in {p, serving'[p], NO_PROCESS_ID}
         \/ pc'[p] = "thread_publish" /\ arg'[p] = c /\ pcb'[c].main # c
  PROVE  CalmIInv' /\ StaysDead
<1>1. c \notin Created /\ Created' = Created \cup {c} /\ Created \in SUBSET Pid
  BY CreatedPids DEF Created, IInv, TypeOK
<1>2. Family(World, Created)'
  BY <1>1, FreshFamily
<1>3. \A q \in Pid \ {p} : pc'[q] = pc[q] /\ arg'[q] = arg[q]
  OBVIOUS
<1>4. /\ \A q \in Created : q # c /\ q \in Pid
      /\ live \subseteq Created /\ procMap \subseteq Created /\ procMap' = procMap /\ p \in Created
  BY <1>1 DEF IInv, ListOfMains, CurrentAlive, NewKin
<1>5. \A q \in Pid : Busy(q) \/ Asked(q) => q \in Created
  BY DEF CalmIInv, AtWork
<1>6. \A q \in Pid : pc'[q] \notin KillSteps /\ ((Busy(q) \/ Asked(q))' => q \in Created')
  <2> SUFFICES ASSUME NEW q \in Pid PROVE pc'[q] \notin KillSteps /\ ((Busy(q) \/ Asked(q))' => q \in Created')
    OBVIOUS
  <2>1. CASE q = p
    BY <1>1, <1>3, <1>4, <2>1 DEF KillSteps
  <2>2. CASE q # p
    BY <1>1, <1>3, <1>5, <2>2 DEF Busy, CalmIInv, AtWork
  <2> QED BY <2>1, <2>2
<1>7. BusyRun'
  <2>1. cur' \in Pid => cur' \in live'
    BY DEF CalmIInv, AtWork, BusyRun, NewKin
  <2>2. ASSUME NEW q \in Pid, cur' = q \/ Busy(q)', Alive(q)'
        PROVE  pcb'[q].status = "RUN" /\ (Threadless(q)' => q \in procMap')
    <3>1. (cur = q \/ Busy(q)) /\ q \in Created
      BY <1>3, <1>4, <1>5, <2>2 DEF Busy
    <3>2. q # c /\ pcb'[q].status = pcb[q].status /\ pcb'[q].main = pcb[q].main
      BY <1>4, <3>1 DEF NewKin
    <3>3. pcb[q].status = "RUN" /\ (Threadless(q) => q \in procMap)
      BY <2>2, <3>1, <3>2 DEF CalmIInv, AtWork, BusyRun, Alive
    <3> QED BY <1>4, <3>2, <3>3 DEF Threadless
  <2> QED BY <2>1, <2>2 DEF BusyRun
<1>8. AskersWait'
  <2> SUFFICES ASSUME NEW q \in Pid, Asked(q)'
               PROVE  \/ pcb'[q].status = "WAIT_KERNEL_SERVICE" /\ q \in procMap'
                      \/ q \notin live' /\ ~Threadless(q)'
    BY DEF AskersWait
  <2>1. Asked(q) /\ q \in Created /\ q # c
    BY <1>4, <1>5
  <2>2. pcb'[q].status = pcb[q].status /\ pcb'[q].main = pcb[q].main /\ (q \in live' => q \in live)
    BY <2>1 DEF NewKin
  <2>3. \/ pcb[q].status = "WAIT_KERNEL_SERVICE" /\ q \in procMap
        \/ q \notin live /\ ~Threadless(q)
    BY <2>1 DEF CalmIInv, AtWork, AskersWait
  <2> QED BY <1>4, <2>2, <2>3 DEF Threadless
<1>9. LinkedFirst'
  <2> SUFFICES ASSUME NEW q \in Pid PROVE Linked(q)'
    BY DEF LinkedFirst
  <2>1. CASE q = p
    BY <1>3, <2>1 DEF Linked, Creating, CreateSteps, Threadless
  <2>2. CASE q # p /\ Busy(q)
    <3>1. PICK a \in Pid : a = arg[q]
      BY <1>4, <2>2 DEF IInv, BusyArgs
    <3>2. /\ Linked(q) /\ a \in Created /\ a # c /\ pc'[q] = pc[q] /\ arg'[q] = a
          /\ serving'[q] = serving[q]
      BY <1>3, <1>4, <2>2, <3>1 DEF CalmIInv, AtWork, LinkedFirst, IInv, BusyArgs
    <3>3. pcb'[a].parent = pcb[a].parent /\ pcb'[a].main = pcb[a].main
      BY <3>2 DEF NewKin
    <3>4. PICK par : par = pcb[a].parent
      OBVIOUS
    <3>5. par # c
      BY <1>1, <3>4, SpecialPids DEF CalmIInv, Family, Kinship, World
    <3>6. par \in Pid => /\ pcb'[par].main = pcb[par].main /\ pcb'[par].status = pcb[par].status
                         /\ pcb'[par].children = pcb[par].children
      BY <3>5 DEF NewKin
    <3>7. pc'[q] \in CreateSteps => par \in {q, serving'[q], NO_PROCESS_ID}
      BY <3>1, <3>2, <3>4 DEF Linked, Creating
    <3>8. pc'[q] = "thread_publish" => pcb'[a].main # a
      BY <3>1, <3>2, <3>3 DEF Linked, Threadless
    <3>9. ASSUME pc'[q] = "create_publish", par \in Pid, pcb'[par].main = par
          PROVE  par \in procMap' /\ pcb'[par].status \notin Dead /\ a \in pcb'[par].children
      BY <1>4, <3>1, <3>2, <3>4, <3>6, <3>9 DEF Linked, Threadless, Alive
    <3> QED BY <3>2, <3>3, <3>4, <3>7, <3>8, <3>9 DEF Linked, Creating, Threadless, Alive
  <2>3. CASE q # p /\ ~Busy(q)
    BY <1>3, <2>3 DEF Linked, Busy, Creating, CreateSteps
  <2> QED BY <2>1, <2>2, <2>3
<1>10. list' \subseteq procMap'
  BY <1>4 DEF CalmIInv, AtWork
<1>11. StaysDead
  <2>1. TypeOK /\ \A q \in Pid : q \in live => pcb'[q].status = pcb[q].status
    BY <1>1, <1>4 DEF IInv, NewKin
  <2> QED BY <2>1, RowsStay
<1> QED BY <1>2, <1>6, <1>7, <1>8, <1>9, <1>10, <1>11 DEF CalmIInv, AtWork

LEMMA CreateProcessCalm ==
  ASSUME IInv, CalmIInv, NEW p \in Pid, NEW roles, roles.killers = {}, NEW par \in ParentsFor(p, roles), CreateProcess(p, par)
  PROVE  CalmIInv' /\ StaysDead
<1>1. CASE Undefined
  BY <1>1, SameCalm, UndefinedStay DEF Undefined, IInv
<1>2. CASE ~Undefined
  <2>1. PICK c : c = nextPid
    OBVIOUS
  <2> DEFINE row == NewProcess(c, par, c, "NEW")
             W == Construct(World, c, row)
  <2>2. /\ cur = p /\ pc[p] = "user" /\ c < MaxPid /\ nextPid' = c + 1 /\ par \in procMap \cup {NO_PROCESS_ID}
        /\ Becomes(W)
        /\ Goto(p, "create_link", c)
        /\ Serve(p, IF par = NO_PROCESS_ID THEN p ELSE par)
        /\ UNCHANGED <<list, cur>>
    BY <1>2, <2>1 DEF CreateProcess, InUserCode, Running
  <2>3. c \in Pid /\ c \notin Created
    BY <2>1, <2>2, NextPidFresh
  <2>4. /\ World \in WorldType /\ World.pcb = pcb /\ World.live = live /\ World.map = procMap
        /\ pcb \in [Pid -> PCB] /\ live \cup procMap \subseteq Created /\ procMap \subseteq live
        /\ Created \in SUBSET Pid
    BY WorldHasType, CreatedPids DEF World, IInv, TypeOK, ListOfMains, CalmIInv, Family, EndsAtOnce
  <2>5. /\ row \in PCB /\ row.main = c /\ row.status = "NEW" /\ row.parent = par /\ row.children = {}
        /\ row.turn = {} /\ row.held
    <3>1. row \in PCB
      BY <2>1, <2>2, <2>3, <2>4, NewRow DEF Status
    <3> QED BY <2>1, <3>1 DEF NewProcess
  <2> HIDE DEF row
  <2>6. W.pcb = [pcb EXCEPT ![c] = row] /\ W.live = live \cup {c} /\ W.map = procMap
    <3>1. c \in Pid /\ row \in PCB /\ World \in WorldType
      BY <2>3, <2>4, <2>5
    <3>2. W.pcb = [World.pcb EXCEPT ![c] = row] /\ W.live = World.live \cup {c} /\ W.map = World.map
      BY <3>1, ConstructRows
    <3> QED BY <2>4, <3>2
  <2> HIDE DEF W
  <2>7. pcb' = [pcb EXCEPT ![c] = row] /\ live' = live \cup {c} /\ procMap' = procMap
    BY <2>2, <2>6 DEF Becomes
  <2>8. NewKin(c)
    <3>1. pcb'[c] = row /\ \A q \in Pid \ {c} : pcb'[q] = pcb[q]
      BY <2>3, <2>4, <2>7
    <3>2. par \in Created \cup {NO_PROCESS_ID} /\ (par \in live => par \in procMap) /\ "NEW" \notin Dead
      BY <2>2, <2>4, SpecialPids DEF Dead
    <3> QED BY <2>5, <2>7, <3>1, <3>2 DEF NewKin
  <2>9. pcb'[c].parent = par
    BY <2>3, <2>4, <2>5, <2>7
  <2>10. /\ par \in {p, serving'[p], NO_PROCESS_ID}
         /\ \A q \in Pid : Asked(q)' => Asked(q)
         /\ \A q \in Pid \ {p} : serving'[q] = serving[q]
    <3>1. par = p \/ par \in requests \/ par = NO_PROCESS_ID
      BY DEF ParentsFor, Requesters
    <3>2. serving \in [Pid -> Pid \cup {NO_PROCESS_ID}] /\ requests \subseteq Pid
      BY DEF IInv, TypeOK
    <3>3. PICK g : g = IF par = NO_PROCESS_ID THEN p ELSE par
      OBVIOUS
    <3>4. requests' = requests \ {g} /\ serving' = [serving EXCEPT ![p] = IF g = p THEN NO_PROCESS_ID ELSE g]
      BY <2>2, <3>3 DEF Serve
    <3>5. g = p \/ g \in requests
      BY <3>1, <3>3
    <3>6. par \in {p, serving'[p], NO_PROCESS_ID} /\ \A q \in Pid \ {p} : serving'[q] = serving[q]
      BY <3>2, <3>3, <3>4
    <3>7. \A q \in Pid : Asked(q)' => Asked(q)
      BY <3>2, <3>4, <3>5, SpecialPids DEF Asked
    <3> QED BY <3>6, <3>7
  <2>11. /\ pc'[p] = "create_link" /\ arg'[p] = c
         /\ \A q \in Pid \ {p} : pc'[q] = pc[q] /\ arg'[q] = arg[q]
    BY <2>2 DEF Goto, IInv, TypeOK
  <2> QED BY <2>1, <2>2, <2>3, <2>8, <2>9, <2>10, <2>11, FreshCalm
<1> QED BY <1>1, <1>2

LEMMA CreateFailsCalm ==
  ASSUME IInv, CalmIInv, NEW p \in Pid, NEW par \in Created \cup {NO_PROCESS_ID}, NEW a, CreateFails(p, par, a)
  PROVE  CalmIInv' /\ StaysDead
<1>1. CASE Undefined
  BY <1>1, SameCalm, UndefinedStay DEF Undefined, IInv
<1>2. CASE ~Undefined
  <2>1. PICK c : c = nextPid
    OBVIOUS
  <2> DEFINE new == NewProcess(c, par, c, "NEW")
  <2>0. PICK taken \in BOOLEAN :
          /\ Becomes(DeleteProcess(Construct(World, c, [new EXCEPT !.held = taken]), c))
          /\ cur = p /\ pc[p] = "user" /\ c < MaxPid /\ nextPid' = c + 1
          /\ requests' = requests \ {a}
          /\ UNCHANGED <<list, cur, pc, arg, serving>>
    BY ZenonT(40), <1>2, <2>1 DEF CreateFails, InUserCode, Running
  <2> DEFINE row == [new EXCEPT !.held = taken]
             V == Construct(World, c, row)
             W == DeleteProcess(V, c)
  <2>2. /\ cur = p /\ pc[p] = "user" /\ c < MaxPid /\ nextPid' = c + 1
        /\ Becomes(W)
        /\ requests' = requests \ {a}
        /\ UNCHANGED <<list, cur, pc, arg, serving>>
    BY <2>0
  <2>3. c \in Pid /\ c \notin Created
    BY <2>1, <2>2, NextPidFresh
  <2>4. /\ World \in WorldType /\ World.pcb = pcb /\ World.live = live /\ World.map = procMap
        /\ pcb \in [Pid -> PCB] /\ live \cup procMap \subseteq Created /\ procMap \subseteq live
        /\ Created \in SUBSET Pid /\ p \in Created
    BY <2>2, WorldHasType, CreatedPids DEF World, IInv, TypeOK, ListOfMains, CurrentAlive, CalmIInv, Family, EndsAtOnce
  <2>5. par \in Created \cup {NO_PROCESS_ID} /\ par \in Pid \cup {NO_PROCESS_ID}
    BY <2>4
  <2>6. /\ new \in PCB /\ new.main = c /\ new.parent = par /\ new.children = {} /\ new.turn = {}
    <3>1. new \in PCB
      BY <2>1, <2>3, <2>4, <2>5, NewRow DEF Status
    <3> QED BY <2>1, <3>1 DEF NewProcess
  <2> HIDE DEF new
  <2>7. row \in PCB /\ row.main = c /\ row.parent = par /\ row.children = {} /\ row.turn = {}
    BY <2>6 DEF PCB
  <2> HIDE DEF row
  <2>8. /\ V.pcb = [pcb EXCEPT ![c] = row] /\ V.live = live \cup {c} /\ V.map = procMap /\ V \in WorldType
    <3>1. c \in Pid /\ row \in PCB /\ World \in WorldType
      BY <2>3, <2>4, <2>7
    <3>2. V.pcb = [World.pcb EXCEPT ![c] = row] /\ V.live = World.live \cup {c} /\ V.map = World.map
      BY <3>1, ConstructRows
    <3>3. V \in WorldType
      BY <3>1, ConstructType
    <3> QED BY <2>4, <3>2, <3>3
  <2> HIDE DEF V
  <2>9. W.pcb = V.pcb /\ W.live = V.live \ {c} /\ W.map = V.map \ {c}
    BY <2>1, <2>8 DEF DeleteProcess, WorldType
  <2> HIDE DEF W
  <2>10. pcb' = [pcb EXCEPT ![c] = row] /\ live' = live /\ procMap' = procMap
    <3>1. c \notin live /\ c \notin procMap
      BY <2>3, <2>4
    <3> QED BY <2>2, <2>8, <2>9, <3>1 DEF Becomes
  <2>11. NewKin(c)
    <3>1. pcb'[c] = row /\ \A q \in Pid \ {c} : pcb'[q] = pcb[q]
      BY <2>3, <2>4, <2>10
    <3>2. c \notin live'
      BY <2>3, <2>4, <2>10
    <3> QED BY <2>5, <2>7, <2>10, <3>1, <3>2 DEF NewKin
  <2>12. pc'[p] = "user" /\ \A q \in Pid \ {p} : pc'[q] = pc[q] /\ arg'[q] = arg[q] /\ serving'[q] = serving[q]
    BY <2>2
  <2>13. \A q \in Pid : Asked(q)' => Asked(q)
    BY <2>2 DEF Asked
  <2> QED BY <2>1, <2>2, <2>3, <2>11, <2>12, <2>13, FreshCalm
<1> QED BY <1>1, <1>2

\* Whom a process creates for has been created.
LEMMA ParentsAreCreated ==
  ASSUME IInv, NEW p \in Pid, NEW roles, NEW par \in ParentsFor(p, roles), cur = p
  PROVE  par \in Created \cup {NO_PROCESS_ID}
BY DEF ParentsFor, Requesters, IInv, ListOfMains, CurrentAlive

LEMMA MainsAreCreated ==
  ASSUME IInv, CalmIInv, NEW p \in Pid, NEW roles, NEW q \in Requesters(p, roles)
  PROVE  pcb[q].main \in Created
<1>1. q \in Created /\ q \in Pid /\ World.pcb = pcb
  BY DEF Requesters, IInv, TypeOK, ListOfMains, World
<1> QED BY <1>1 DEF CalmIInv, Family, ThreadsHaveMains

\* The client of a server waits, so that its main thread is there.
LEMMA ClientLeader ==
  ASSUME IInv, CalmIInv, NEW q \in procMap, Asked(q)
  PROVE  pcb[q].main \in procMap /\ Alive(pcb[q].main) /\ Threadless(pcb[q].main)
<1>1. q \in Pid /\ q \in live /\ World.pcb = pcb /\ World.live = live /\ World.map = procMap
  BY DEF IInv, TypeOK, World, CalmIInv, Family, EndsAtOnce
<1>2. pcb[q].status = "WAIT_KERNEL_SERVICE"
  BY <1>1 DEF CalmIInv, AtWork, AskersWait
<1>3. Alive(q)
  BY <1>2 DEF Alive, Dead
<1>4. Threadless(pcb[q].main)
  BY <1>1 DEF CalmIInv, Family, ThreadsHaveMains, Leads, Threadless
<1>5. CASE pcb[q].main = q
  BY <1>3, <1>4, <1>5
<1>6. CASE pcb[q].main # q
  BY <1>1, <1>3, <1>4, <1>6 DEF CalmIInv, Family, ThreadsHaveMains, Leads, Living, Alive
<1> QED BY <1>5, <1>6

LEMMA CreateThreadCalm ==
  ASSUME IInv, CalmIInv, NEW p \in Pid, NEW q \in requests \cap procMap, CreateThread(p, q)
  PROVE  CalmIInv' /\ StaysDead
<1>1. CASE Undefined
  BY <1>1, SameCalm, UndefinedStay DEF Undefined, IInv
<1>2. CASE ~Undefined
  <2>1. PICK c, m : c = nextPid /\ m = pcb[q].main
    BY SMTT(40)
  <2> DEFINE row == NewProcess(c, m, m, "RUN")
             W == Construct(World, c, row)
             next == IF W.pcb[m].turn = {} THEN {} ELSE W.pcb[m].turn \cup {c}
             mrow == [W.pcb[m] EXCEPT !.threads = @ \cup {c}, !.turn = next]
             V == [W EXCEPT !.pcb[m] = mrow]
  <2>2. /\ cur = p /\ pc[p] = "user" /\ c < MaxPid /\ nextPid' = c + 1 /\ m \in live
        /\ Becomes([W EXCEPT !.pcb[m].threads = @ \cup {c},
                             !.pcb[m].turn = IF @ = {} THEN {} ELSE @ \cup {c}])
        /\ Goto(p, "thread_publish", c)
        /\ Serve(p, q)
        /\ UNCHANGED <<list, cur>>
    BY SMTT(40), <1>2, <2>1 DEF CreateThread, InUserCode, Running
  <2>3. c \in Pid /\ c \notin Created
    BY <2>1, <2>2, NextPidFresh
  <2>4. /\ World \in WorldType /\ World.pcb = pcb /\ World.live = live /\ World.map = procMap
        /\ pcb \in [Pid -> PCB] /\ live \cup procMap \subseteq Created /\ procMap \subseteq live
        /\ Created \in SUBSET Pid
    BY WorldHasType, CreatedPids DEF World, IInv, TypeOK, ListOfMains, CalmIInv, Family, EndsAtOnce
  <2>5. q \in Pid /\ m \in procMap /\ Alive(m) /\ pcb[m].main = m /\ m \in Pid /\ m # c
    <3>1. Asked(q)
      BY DEF Asked
    <3> QED BY <2>1, <2>3, <2>4, <3>1, ClientLeader DEF Threadless
  <2>6. /\ row \in PCB /\ row.main = m /\ row.status = "RUN" /\ row.parent = m /\ row.children = {}
        /\ row.turn = {} /\ row.held
    <3>1. row \in PCB
      BY <2>1, <2>3, <2>5, NewRow, StatusFacts
    <3> QED BY <3>1 DEF NewProcess
  <2> HIDE DEF row
  <2>7. W \in WorldType /\ W.pcb = [pcb EXCEPT ![c] = row] /\ W.live = live \cup {c} /\ W.map = procMap
    <3>1. c \in Pid /\ row \in PCB /\ World \in WorldType
      BY <2>3, <2>4, <2>6
    <3>2. W.pcb = [World.pcb EXCEPT ![c] = row] /\ W.live = World.live \cup {c} /\ W.map = World.map
      BY <3>1, ConstructRows
    <3>3. W \in WorldType
      BY <3>1, ConstructType
    <3> QED BY <2>4, <3>2, <3>3
  <2> HIDE DEF W
  <2>8. W.pcb[m] = pcb[m] /\ pcb[m] \in PCB
    BY <2>3, <2>4, <2>5, <2>7
  <2>9. [W EXCEPT !.pcb[m].threads = @ \cup {c},
                  !.pcb[m].turn = IF @ = {} THEN {} ELSE @ \cup {c}] = V
    BY ZenonT(40), <2>5, <2>7, <2>8 DEF WorldType, PCB
  <2>10. V.pcb = [W.pcb EXCEPT ![m] = mrow] /\ V.live = W.live /\ V.map = W.map
    BY <2>7 DEF WorldType
  <2>11. /\ mrow.main = pcb[m].main /\ mrow.status = pcb[m].status /\ mrow.parent = pcb[m].parent
         /\ mrow.held = pcb[m].held /\ mrow.children = pcb[m].children
         /\ mrow.threads = pcb[m].threads \cup {c}
         /\ mrow.turn \subseteq pcb[m].turn \cup {c}
    BY <2>8 DEF PCB
  <2> HIDE DEF mrow, V
  <2>12. Becomes(V)
    BY <2>2, <2>9
  <2>13. /\ live' = live \cup {c} /\ procMap' = procMap
         /\ pcb'[c] = row /\ pcb'[m] = mrow /\ \A b \in Pid \ {c, m} : pcb'[b] = pcb[b]
    <3>1. pcb' = [W.pcb EXCEPT ![m] = mrow]
      BY <2>10, <2>12 DEF Becomes
    <3> QED BY <2>3, <2>4, <2>5, <2>7, <2>10, <2>12, <3>1 DEF Becomes
  <2>14. NewKin(c)
    <3>1. \A b \in Pid \ {c} :
            /\ pcb'[b].main = pcb[b].main /\ pcb'[b].parent = pcb[b].parent /\ pcb'[b].held = pcb[b].held
            /\ pcb'[b].status = pcb[b].status /\ pcb'[b].children = pcb[b].children
            /\ pcb[b].threads \subseteq pcb'[b].threads
            /\ pcb[b].turn \subseteq pcb[b].threads => pcb'[b].turn \subseteq pcb'[b].threads
      <4> SUFFICES ASSUME NEW b \in Pid \ {c}
                   PROVE  /\ pcb'[b].main = pcb[b].main /\ pcb'[b].parent = pcb[b].parent /\ pcb'[b].held = pcb[b].held
                          /\ pcb'[b].status = pcb[b].status /\ pcb'[b].children = pcb[b].children
                          /\ pcb[b].threads \subseteq pcb'[b].threads
                          /\ pcb[b].turn \subseteq pcb[b].threads => pcb'[b].turn \subseteq pcb'[b].threads
        OBVIOUS
      <4>1. CASE b = m
        BY <2>11, <2>13, <4>1
      <4>2. CASE b # m
        BY <2>13, <4>2
      <4> QED BY <4>1, <4>2
    <3>2. "RUN" \notin Dead /\ m \in Created /\ pcb[m].status \notin Dead /\ c \in pcb'[m].threads
      BY <2>4, <2>5, <2>11, <2>13 DEF Dead, Alive
    <3> QED BY <2>5, <2>6, <2>13, <3>1, <3>2 DEF NewKin
  <2>15. /\ \A s \in Pid : Asked(s)' => Asked(s)
         /\ \A s \in Pid \ {p} : serving'[s] = serving[s]
    <3>1. serving \in [Pid -> Pid \cup {NO_PROCESS_ID}] /\ requests \subseteq Pid
      BY DEF IInv, TypeOK
    <3>2. requests' = requests \ {q} /\ serving' = [serving EXCEPT ![p] = IF q = p THEN NO_PROCESS_ID ELSE q]
      BY <2>2 DEF Serve
    <3> QED BY <3>1, <3>2, SpecialPids DEF Asked
  <2>16. /\ pc'[p] = "thread_publish" /\ arg'[p] = c /\ pcb'[c].main # c
         /\ \A s \in Pid \ {p} : pc'[s] = pc[s] /\ arg'[s] = arg[s]
    BY <2>2, <2>5, <2>6, <2>13 DEF Goto, IInv, TypeOK
  <2> QED BY <2>1, <2>2, <2>3, <2>14, <2>15, <2>16, FreshCalm
<1> QED BY <1>1, <1>2

-----------------------------------------------------------------------------
(* The rest of a creation *)

\* The creator goes on: its object is linked to its parent or published.
LEMMA PublishCalm ==
  ASSUME IInv, CalmIInv, NEW p \in Pid, cur = p,
         UNCHANGED <<nextPid, live, cur, requests>>, procMap \subseteq procMap', procMap' \subseteq live,
         list' \subseteq procMap',
         \A q \in Pid :
           /\ pcb'[q].main = pcb[q].main /\ pcb'[q].parent = pcb[q].parent /\ pcb'[q].held = pcb[q].held
           /\ pcb'[q].threads = pcb[q].threads /\ pcb'[q].turn = pcb[q].turn
           /\ \/ pcb'[q].status = pcb[q].status
              \/ pcb'[q].status = "RUN" /\ q \in live \ procMap /\ pcb[q].status \notin Dead
           /\ pcb[q].children \subseteq pcb'[q].children
           /\ \A k \in pcb'[q].children \ pcb[q].children : k \in Created /\ pcb[k].parent = q,
         \A q \in procMap' \ procMap : Threadless(q) =>
           LET par == pcb[q].parent
           IN  par \in Pid /\ Threadless(par) => par \in procMap /\ Alive(par) /\ q \in pcb[par].children,
         \A q \in Pid \ {p} : pc'[q] = pc[q] /\ arg'[q] = arg[q] /\ serving'[q] = serving[q],
         serving'[p] \in {serving[p], NO_PROCESS_ID},
         pc'[p] = "user" \/ (Busy(p) /\ pc'[p] \notin KillSteps /\ Linked(p)')
  PROVE  CalmIInv'
<1>1. /\ World.pcb = pcb /\ World.live = live /\ World.map = procMap
      /\ World'.pcb = pcb' /\ World'.live = live' /\ World'.map = procMap'
      /\ Created' = Created /\ Created \in SUBSET Pid /\ Family(World, Created) /\ live \subseteq Pid /\ procMap \subseteq live
  BY CreatedPids DEF World, IInv, TypeOK, CalmIInv, Created, Family, EndsAtOnce
<1>2. /\ \A q \in Pid : pcb[q].main \in Pid /\ pcb[q].children \in SUBSET Pid
      /\ \A q \in Pid : pcb'[q].status \notin Dead <=> pcb[q].status \notin Dead
  <2>1. "RUN" \notin Dead
    BY DEF Dead
  <2> QED BY <2>1 DEF IInv, TypeOK, PCB
<1>3. Family(World, Created)'
  <2>1. EndsAtOnce(World, Created)'
    BY <1>1, <1>2 DEF Family, EndsAtOnce, Living
  <2>2. ThreadsHaveMains(World, Created)'
    <3>1. ASSUME NEW q \in Pid
          PROVE  pcb'[pcb'[q].main].main = pcb'[q].main /\ pcb'[q].main \in Created' \cup {q}
      BY <1>1, <1>2 DEF Family, ThreadsHaveMains, Leads
    <3>2. ASSUME NEW t \in live', pcb'[t].main # t, pcb'[t].status \notin Dead
          PROVE  /\ t \in pcb'[pcb'[t].main].threads /\ pcb'[t].parent = pcb'[t].main
                 /\ pcb'[t].main \in procMap' /\ pcb'[pcb'[t].main].status \notin Dead
      <4>1. t \in live /\ t \in Pid /\ pcb[t].main # t /\ pcb[t].status \notin Dead
        BY <1>1, <1>2, <3>2
      <4>2. /\ t \in pcb[pcb[t].main].threads /\ pcb[t].parent = pcb[t].main
            /\ pcb[t].main \in procMap /\ pcb[pcb[t].main].status \notin Dead
        BY <1>1, <4>1 DEF Family, ThreadsHaveMains, Leads, Living
      <4> QED BY <1>2, <4>1, <4>2
    <3>3. ASSUME NEW q \in Pid, pcb'[q].status \notin Dead PROVE pcb'[q].turn \subseteq pcb'[q].threads
      BY <1>1, <1>2, <3>3 DEF Family, ThreadsHaveMains, Living
    <3> QED BY <1>1, <3>1, <3>2, <3>3 DEF ThreadsHaveMains, Leads, Living
  <2>3. Kinship(World, Created)'
    <3>1. ASSUME NEW q \in Pid PROVE pcb'[q].parent \in Created' \cup {NO_PROCESS_ID} /\ pcb'[q].children \subseteq Created'
      BY <1>1 DEF Family, Kinship
    <3>2. ASSUME NEW q \in live', pcb'[q].parent \in live' PROVE pcb'[q].parent \in procMap'
      BY <1>1, <3>2 DEF Family, Kinship
    <3>3. ASSUME NEW q \in live', pcb'[q].status \notin Dead, NEW k \in pcb'[q].children PROVE pcb'[k].parent = q
      <4>1. q \in live /\ q \in Pid /\ pcb[q].status \notin Dead
        BY <1>1, <1>2, <3>3
      <4>2. CASE k \in pcb[q].children
        BY <1>1, <1>2, <4>1, <4>2 DEF Family, Kinship, Living
      <4>3. CASE k \notin pcb[q].children
        BY <1>1, <3>3, <4>1, <4>3
      <4> QED BY <4>2, <4>3
    <3> QED BY <1>1, <3>1, <3>2, <3>3 DEF Kinship, Living
  <2>4. EachIsCaredFor(World)'
    <3> SUFFICES ASSUME NEW q \in procMap', pcb'[q].status \notin Dead, pcb'[q].main = q,
                        pcb'[q].parent \in Pid, pcb'[pcb'[q].parent].main = pcb'[q].parent
                 PROVE  Cared(World, q)'
      BY <1>1 DEF EachIsCaredFor, Living, Leads
    <3> DEFINE par == pcb[q].parent
    <3>1. q \in Pid /\ pcb'[q].parent = par /\ pcb[q].main = q /\ pcb[q].status \notin Dead
      BY <1>1, <1>2
    <3>2. par \in Pid /\ pcb[par].main = par
      BY <3>1
    <3>3. CASE par \in procMap /\ pcb[par].status \notin Dead /\ q \in pcb[par].children
      <4>1. par \in procMap' /\ pcb'[par].status \notin Dead /\ q \in pcb'[par].children
        BY <1>2, <3>2, <3>3
      <4> QED BY <1>1, <3>1, <4>1 DEF Cared, Living
    <3>4. CASE ~(par \in live /\ pcb[par].status \notin Dead) /\ ~(pcb[par].parent \in live /\ pcb[pcb[par].parent].held)
      <4>1. ~(par \in live' /\ pcb'[par].status \notin Dead)
        BY <1>2, <3>2, <3>4
      <4>2. ~(pcb'[par].parent \in live' /\ pcb'[pcb'[par].parent].held)
        BY <1>1, <3>2, <3>4
      <4> QED BY <1>1, <3>1, <4>1, <4>2 DEF Cared, Living, Fathered
    <3>5. CASE q \in procMap
      <4>1. Cared(World, q)
        BY <1>1, <3>1, <3>2, <3>5 DEF Family, EachIsCaredFor, Living, Leads
      <4> QED BY <1>1, <3>3, <3>4, <4>1 DEF Cared, Living, Fathered
    <3>6. CASE q \notin procMap
      BY <3>1, <3>2, <3>3, <3>6 DEF Threadless, Alive
    <3> QED BY <3>5, <3>6
  <2> QED BY <2>1, <2>2, <2>3, <2>4 DEF Family
<1>4. \A q \in Pid : (Busy(q)' => Busy(q)) /\ (Asked(q)' => Asked(q)) /\ (Threadless(q)' <=> Threadless(q))
  <2> SUFFICES ASSUME NEW q \in Pid PROVE (Busy(q)' => Busy(q)) /\ (Asked(q)' => Asked(q)) /\ (Threadless(q)' <=> Threadless(q))
    OBVIOUS
  <2>1. Busy(q)' => Busy(q)
    BY DEF Busy
  <2>2. Asked(q)' => Asked(q)
    BY SpecialPids DEF Asked
  <2> QED BY <2>1, <2>2 DEF Threadless
<1>5. \A q \in Pid : pc'[q] \notin KillSteps /\ ((Busy(q) \/ Asked(q))' => q \in Created')
  <2>1. "user" \notin KillSteps
    BY DEF KillSteps
  <2>2. \A q \in Pid : pc'[q] \notin KillSteps
    BY <2>1 DEF CalmIInv, AtWork
  <2> QED BY <1>1, <1>4, <2>2 DEF CalmIInv, AtWork
<1>6. BusyRun'
  <2>1. cur' \in Pid => cur' \in live'
    BY DEF CalmIInv, AtWork, BusyRun
  <2>2. ASSUME NEW q \in Pid, cur' = q \/ Busy(q)', Alive(q)'
        PROVE  pcb'[q].status = "RUN" /\ (Threadless(q)' => q \in procMap')
    <3>1. (cur = q \/ Busy(q)) /\ Alive(q)
      BY <1>2, <1>4, <2>2 DEF Alive
    <3>2. pcb[q].status = "RUN" /\ (Threadless(q) => q \in procMap)
      BY <3>1 DEF CalmIInv, AtWork, BusyRun
    <3> QED BY <1>4, <3>2
  <2> QED BY <2>1, <2>2 DEF BusyRun
<1>7. AskersWait'
  <2> SUFFICES ASSUME NEW q \in Pid, Asked(q)'
               PROVE  \/ pcb'[q].status = "WAIT_KERNEL_SERVICE" /\ q \in procMap'
                      \/ q \notin live' /\ ~Threadless(q)'
    BY DEF AskersWait
  <2>1. \/ pcb[q].status = "WAIT_KERNEL_SERVICE" /\ q \in procMap
        \/ q \notin live /\ ~Threadless(q)
    BY <1>4 DEF CalmIInv, AtWork, AskersWait
  <2> QED BY <1>4, <2>1
<1>8. LinkedFirst'
  <2> SUFFICES ASSUME NEW q \in Pid PROVE Linked(q)'
    BY DEF LinkedFirst
  <2>1. CASE pc'[q] = "user"
    BY <2>1 DEF Linked, Creating, CreateSteps
  <2>2. CASE q # p /\ Busy(q)
    <3>1. PICK a \in Pid : a = arg[q]
      BY <1>1, <2>2 DEF IInv, BusyArgs
    <3>2. Linked(q) /\ pc'[q] = pc[q] /\ arg'[q] = a /\ serving'[q] = serving[q]
      BY <2>2, <3>1 DEF CalmIInv, AtWork, LinkedFirst
    <3>3. pcb'[a].parent = pcb[a].parent /\ pcb'[a].main = pcb[a].main
      BY <3>2
    <3>4. PICK par : par = pcb[a].parent
      OBVIOUS
    <3>5. pc'[q] \in CreateSteps => par \in {q, serving'[q], NO_PROCESS_ID}
      BY <3>1, <3>2, <3>4 DEF Linked, Creating
    <3>6. pc'[q] = "thread_publish" => pcb'[a].main # a
      BY <3>1, <3>2, <3>3 DEF Linked, Threadless
    <3>7. ASSUME pc'[q] = "create_publish", par \in Pid, pcb'[par].main = par
          PROVE  par \in procMap' /\ pcb'[par].status \notin Dead /\ a \in pcb'[par].children
      <4>1. par \in procMap /\ pcb[par].status \notin Dead /\ a \in pcb[par].children
        BY <3>1, <3>2, <3>4, <3>7 DEF Linked, Threadless, Alive
      <4> QED BY <1>2, <3>7, <4>1
    <3> QED BY <3>2, <3>3, <3>4, <3>5, <3>6, <3>7 DEF Linked, Creating, Threadless, Alive
  <2>3. CASE q # p /\ ~Busy(q)
    BY <2>1, <2>3 DEF Busy
  <2> QED BY <2>1, <2>2, <2>3
<1> QED BY <1>3, <1>5, <1>6, <1>7, <1>8 DEF CalmIInv, AtWork

\* The parent of an object under construction is in the map, if it is not a thread.
LEMMA ParentListens ==
  ASSUME IInv, CalmIInv, NEW p \in Pid, cur = p, Creating(p), NEW par \in Pid, par = pcb[arg[p]].parent, Threadless(par)
  PROVE  par \in procMap /\ Alive(par)
<1>1. par = p \/ par = serving[p]
  BY SpecialPids DEF CalmIInv, AtWork, LinkedFirst, Linked
<1>2. CASE par = p
  BY <1>2 DEF IInv, CurrentAlive, CalmIInv, AtWork, BusyRun, Alive
<1>3. CASE par = serving[p]
  <2>1. Asked(par)
    BY <1>3 DEF Asked
  <2> QED BY <2>1 DEF CalmIInv, AtWork, AskersWait, Alive, Dead
<1> QED BY <1>1, <1>2, <1>3

LEMMA LinkToParentCalm == ASSUME IInv, CalmIInv, NEW p \in Pid, LinkToParent(p) PROVE CalmIInv'
<1>1. PICK c, par : c = arg[p] /\ par = pcb[c].parent
  OBVIOUS
<1>2. /\ cur = p /\ Creating(p) /\ Busy(p) /\ pc[p] = "create_link"
      /\ pcb' = IF par \in procMap THEN [pcb EXCEPT ![par].children = @ \cup {c}] ELSE pcb
      /\ pc' = [pc EXCEPT ![p] = "create_publish"] /\ arg' = [arg EXCEPT ![p] = c]
      /\ UNCHANGED <<live, procMap, list, cur, nextPid, requests, serving>>
  BY <1>1 DEF LinkToParent, Running, Goto, Creating, CreateSteps, Busy
<1>3. /\ pcb \in [Pid -> PCB] /\ procMap \subseteq Pid /\ c \in Pid /\ c \in Created /\ procMap \subseteq live
      /\ list \subseteq procMap /\ Linked(p)
  BY <1>1, <1>2 DEF IInv, TypeOK, NewIsPrivate, BusyArgs, CalmIInv, AtWork, LinkedFirst, Family, EndsAtOnce, World
<1>4. ASSUME NEW q \in Pid
      PROVE  /\ pcb'[q].main = pcb[q].main /\ pcb'[q].parent = pcb[q].parent /\ pcb'[q].held = pcb[q].held
             /\ pcb'[q].threads = pcb[q].threads /\ pcb'[q].turn = pcb[q].turn
             /\ pcb'[q].status = pcb[q].status
             /\ pcb'[q].children = pcb[q].children \cup (IF q = par /\ par \in procMap THEN {c} ELSE {})
  BY <1>2, <1>3 DEF PCB
<1>5. /\ pc'[p] = "create_publish" /\ arg'[p] = c /\ serving'[p] = serving[p]
      /\ \A q \in Pid \ {p} : pc'[q] = pc[q] /\ arg'[q] = arg[q] /\ serving'[q] = serving[q]
  BY <1>2 DEF IInv, TypeOK
<1>6. Linked(p)' /\ pc'[p] \notin KillSteps
  <2>1. par \in {p, serving[p], NO_PROCESS_ID}
    BY <1>1, <1>2, <1>3 DEF Linked
  <2>2. ASSUME par \in Pid, pcb'[par].main = par
        PROVE  par \in procMap' /\ pcb'[par].status \notin Dead /\ c \in pcb'[par].children
    <3>1. par \in procMap /\ pcb[par].status \notin Dead
      BY <1>1, <1>2, <1>4, <2>2, ParentListens DEF Threadless, Alive
    <3> QED BY SMTT(40), <1>2, <1>4, <2>2, <3>1
  <2>3. pcb'[c].parent = par
    BY <1>1, <1>3, <1>4
  <2> QED BY <1>5, <2>1, <2>2, <2>3 DEF Linked, Creating, Threadless, Alive, KillSteps
<1>7. \A q \in Pid : \A k \in pcb'[q].children \ pcb[q].children : k \in Created /\ pcb[k].parent = q
  BY <1>1, <1>3, <1>4
<1>8. procMap' = procMap /\ list' = list
  BY <1>2
<1> QED BY <1>2, <1>3, <1>4, <1>5, <1>6, <1>7, <1>8, PublishCalm

LEMMA AddToSchedulerListCalm == ASSUME IInv, CalmIInv, NEW p \in Pid, AddToSchedulerList(p) PROVE CalmIInv'
<1>1. PICK c : c = arg[p]
  OBVIOUS
<1>2. /\ cur = p /\ Creating(p) /\ pc[p] = "create_publish"
      /\ \/ UNCHANGED <<pcb, procMap, list>>
         \/ /\ procMap' = procMap \cup {c} /\ list' = list \cup {c}
            /\ pcb' = [pcb EXCEPT ![c].status = "RUN"]
      /\ pc' = [pc EXCEPT ![p] = "user"] /\ arg' = [arg EXCEPT ![p] = NO_PROCESS_ID]
      /\ serving' = [serving EXCEPT ![p] = NO_PROCESS_ID]
      /\ UNCHANGED <<live, cur, nextPid, requests>>
  BY <1>1 DEF AddToSchedulerList, Running, Goto, Answer, Creating, CreateSteps
<1>3. /\ pcb \in [Pid -> PCB] /\ procMap \subseteq live /\ c \in live /\ c \in Pid /\ c \notin procMap
      /\ pcb[c].status \notin Dead /\ list \subseteq procMap /\ Linked(p)
  BY <1>1, <1>2 DEF IInv, TypeOK, NewIsPrivate, CalmIInv, AtWork, LinkedFirst, Family, EndsAtOnce, World
<1>4. /\ pc'[p] = "user" /\ serving'[p] = NO_PROCESS_ID
      /\ \A q \in Pid \ {p} : pc'[q] = pc[q] /\ arg'[q] = arg[q] /\ serving'[q] = serving[q]
  BY <1>2 DEF IInv, TypeOK
<1>5. ASSUME NEW q \in Pid
      PROVE  /\ pcb'[q].main = pcb[q].main /\ pcb'[q].parent = pcb[q].parent /\ pcb'[q].held = pcb[q].held
             /\ pcb'[q].threads = pcb[q].threads /\ pcb'[q].turn = pcb[q].turn
             /\ \/ pcb'[q].status = pcb[q].status
                \/ pcb'[q].status = "RUN" /\ q \in live \ procMap /\ pcb[q].status \notin Dead
             /\ pcb'[q].children = pcb[q].children
  <2>1. CASE pcb' = pcb
    BY <2>1
  <2>2. CASE pcb' = [pcb EXCEPT ![c].status = "RUN"]
    BY <1>3, <2>2 DEF PCB
  <2> QED BY <1>2, <2>1, <2>2
<1>6. procMap \subseteq procMap' /\ procMap' \subseteq live /\ list' \subseteq procMap' /\ procMap' \ procMap \subseteq {c}
  BY <1>2, <1>3
<1>7. LET par == pcb[c].parent
      IN  par \in Pid /\ Threadless(par) => par \in procMap /\ Alive(par) /\ c \in pcb[par].children
  BY <1>1, <1>2, <1>3 DEF Linked
<1> QED BY <1>2, <1>4, <1>5, <1>6, <1>7, PublishCalm

LEMMA AddToProcessMapCalm == ASSUME IInv, CalmIInv, NEW p \in Pid, AddToProcessMap(p) PROVE CalmIInv'
<1>1. CASE Undefined
  BY <1>1, SameCalm DEF Undefined
<1>2. CASE ~Undefined
  <2>1. PICK c : c = arg[p]
    OBVIOUS
  <2>2. /\ cur = p /\ pc[p] = "thread_publish" /\ c \in live
        /\ procMap' = procMap \/ procMap' = procMap \cup {c}
        /\ pc' = [pc EXCEPT ![p] = "user"] /\ arg' = [arg EXCEPT ![p] = NO_PROCESS_ID]
        /\ serving' = [serving EXCEPT ![p] = NO_PROCESS_ID]
        /\ UNCHANGED <<pcb, live, list, cur, nextPid, requests>>
    BY <1>2, <2>1 DEF AddToProcessMap, Running, Goto, Answer
  <2>3. procMap \subseteq live /\ list \subseteq procMap /\ ~Threadless(c)
    BY <2>1, <2>2 DEF CalmIInv, AtWork, LinkedFirst, Linked, Family, EndsAtOnce, World
  <2>4. /\ pc'[p] = "user" /\ serving'[p] = NO_PROCESS_ID
        /\ \A q \in Pid \ {p} : pc'[q] = pc[q] /\ arg'[q] = arg[q] /\ serving'[q] = serving[q]
    BY <2>2 DEF IInv, TypeOK
  <2>5. procMap \subseteq procMap' /\ procMap' \subseteq live /\ list' \subseteq procMap' /\ procMap' \ procMap \subseteq {c}
    BY <2>2, <2>3
  <2> QED BY <2>2, <2>3, <2>4, <2>5, PublishCalm
<1> QED BY <1>1, <1>2

-----------------------------------------------------------------------------
(* Every step *)

LEMMA CallsCalm ==
  ASSUME NEW roles, roles.killers = {}, IInv, CalmIInv, NEW p \in Pid, Calls(p, roles) \/ Continues(p)
  PROVE  CalmIInv'
<1>1. CASE Calls(p, roles)
  <2>1. ASSUME NEW q \in Requesters(p, roles), CreateThread(p, q) PROVE CalmIInv'
    BY <2>1, CreateThreadCalm DEF Requesters
  <2>2. ASSUME NEW par \in ParentsFor(p, roles), CreateProcess(p, par) \/ CreateFails(p, par, par) PROVE CalmIInv'
    BY <2>2, CreateProcessCalm, CreateFailsCalm, ParentsAreCreated DEF CreateFails, InUserCode, Running
  <2>3. ASSUME NEW q \in Requesters(p, roles), CreateThreadFails(p, q) PROVE CalmIInv'
    BY <2>3, CreateFailsCalm, MainsAreCreated DEF CreateThreadFails
  <2> QED BY <1>1, <2>1, <2>2, <2>3, ExitCalm, WaitsCalm, RequestCalm DEF Calls
<1>2. CASE Continues(p)
  <2>1. pc[p] \notin KillSteps
    BY DEF CalmIInv, AtWork
  <2>2. ~(KillMark(p) \/ KillThreads(p) \/ KillClear(p) \/ KillChildren(p) \/ KillFree(p))
    BY <2>1 DEF KillMark, KillThreads, KillClear, KillChildren, KillFree, KillStep, KillSteps
  <2> QED BY <1>2, <2>2, LinkToParentCalm, AddToSchedulerListCalm, AddToProcessMapCalm DEF Continues
<1> QED BY <1>1, <1>2

LEMMA NextCalm ==
  ASSUME NEW roles, roles.killers = {}, IInv, CalmIInv, [NextOf(roles)]_vars
  PROVE  CalmIInv'
<1>1. CASE UNCHANGED vars
  BY <1>1, SameCalm DEF vars, table, calls
<1>2. ASSUME NEW p \in Pid, Dispatch(p) \/ Skip(p) PROVE CalmIInv'
  BY <1>2, SchedulerCalm
<1>3. ASSUME NEW p \in Pid, Calls(p, roles) \/ Continues(p) PROVE CalmIInv'
  BY <1>3, CallsCalm
<1> QED BY <1>1, <1>2, <1>3, PreemptCalm DEF NextOf, Stop

LEMMA InitCalm == Init => CalmIInv
<1> SUFFICES ASSUME Init PROVE CalmIInv
  OBVIOUS
<1>1. 0 \in Pid /\ Created = {0} /\ NO_PROCESS_ID \notin Pid /\ Scheduler \notin Pid
  <2>1. Created = {0}
    BY DEF Init, Created
  <2> QED BY <2>1, MaxPidAssumption, SpecialPids DEF Pid
<1>2. /\ World.pcb = pcb /\ World.live = {0} /\ World.map = {0}
      /\ \A p \in Pid : /\ pcb[p].status = (IF p = 0 THEN "RUN" ELSE "NEW") /\ pcb[p].parent = NO_PROCESS_ID
                        /\ pcb[p].children = {} /\ pcb[p].main = p /\ pcb[p].threads = {} /\ pcb[p].turn = {}
                        /\ pcb[p].held = (p = 0)
  BY DEF Init, World
<1>3. "RUN" \notin Dead
  BY DEF Dead
<1>4. EndsAtOnce(World, Created)
  <2>1. World.map \subseteq World.live /\ World.live \subseteq Created
    BY <1>1, <1>2
  <2>2. ASSUME NEW p \in World.live PROVE World.pcb[p].held <=> Living(World, p)
    <3>1. p = 0 /\ World.pcb[p] = pcb[p]
      BY <1>2, <2>2
    <3>2. pcb[0].held /\ pcb[0].status = "RUN"
      BY <1>1, <1>2
    <3>3. World.pcb[p].held /\ World.pcb[p].status = "RUN"
      BY <3>1, <3>2
    <3> QED BY <1>3, <3>3 DEF Living
  <2> QED BY <2>1, <2>2 DEF EndsAtOnce
<1>5. ThreadsHaveMains(World, Created)
  BY <1>1, <1>2 DEF ThreadsHaveMains, Leads
<1>6. Kinship(World, Created)
  BY <1>1, <1>2 DEF Kinship
<1>7. EachIsCaredFor(World)
  BY <1>1, <1>2 DEF EachIsCaredFor
<1>8. \A p \in Pid : pc[p] = "user" /\ ~Busy(p) /\ ~Asked(p) /\ ~Creating(p)
  BY <1>1 DEF Init, Busy, Asked, Creating, CreateSteps
<1>9. AtWork
  <2>1. BusyRun
    BY <1>1, <1>8 DEF BusyRun, Init
  <2>2. AskersWait /\ LinkedFirst
    BY <1>8 DEF AskersWait, LinkedFirst, Linked
  <2> QED BY <1>8, <2>1, <2>2 DEF AtWork, KillSteps, Init
<1> QED BY <1>4, <1>5, <1>6, <1>7, <1>9 DEF CalmIInv, Family

-----------------------------------------------------------------------------
(* Nobody comes back *)

\* From W to V no process leaves the state it died in, except to be released.
DeadStay(W, V) ==
  \A q \in Pid : /\ W.pcb[q].status = "TERMINATED" => V.pcb[q].status \in Dead
                 /\ W.pcb[q].status = "RELEASED" => V.pcb[q].status = "RELEASED"

LEMMA StayTrans == ASSUME NEW W, NEW V, NEW U, DeadStay(W, V), DeadStay(V, U) PROVE DeadStay(W, U)
BY DEF DeadStay, Dead

LEMMA SameStay == ASSUME NEW W, NEW V, \A q \in Pid : V.pcb[q].status = W.pcb[q].status PROVE DeadStay(W, V)
BY DEF DeadStay, Dead

LEMMA SetStatusStay ==
  ASSUME NEW W \in WorldType, NEW p \in Pid, NEW s \in Status, W.pcb[p].status \notin Dead \/ s = "RELEASED"
  PROVE  DeadStay(W, SetStatus(W, p, s))
BY SetStatusRows DEF DeadStay, Dead

LEMMA RedirectStay ==
  ASSUME NEW W \in WorldType, NEW kids \in SUBSET Pid, NEW heir \in Pid \cup {NO_PROCESS_ID}
  PROVE  DeadStay(W, Redirect(W, kids, heir))
<1> DEFINE V == Redirect(W, kids, heir)
<1>1. ASSUME NEW q \in Pid
      PROVE  V.pcb[q].status = IF q \in kids \cap W.map /\ W.pcb[q].status = "TERMINATED"
                                 THEN "RELEASED" ELSE W.pcb[q].status
  <2>1. W.pcb[q] \in PCB
    BY RowType
  <2> QED BY <2>1 DEF Redirect, WorldType, PCB
<1> QED BY <1>1 DEF DeadStay, Dead

LEMMA DeleteThreadsStay ==
  ASSUME NEW W \in WorldType, NEW p \in Pid
  PROVE  DeadStay(W, DeleteThreads(W, p))
<1> DEFINE ths == W.pcb[p].threads
           dying == {t \in ths : W.pcb[t].status \notin Dead}
           kids == UNION {W.pcb[t].children : t \in dying}
           R == Redirect(W, kids, p)
           V == LeaveGroups(R, dying)
           U == DeleteThreads(W, p)
<1>1. ths \in SUBSET Pid /\ dying \in SUBSET Pid
  BY DEF WorldType, PCB
<1>2. kids \in SUBSET Pid
  BY <1>1 DEF WorldType, PCB
<1>3. R \in WorldType /\ DeadStay(W, R)
  BY <1>2, RedirectType, RedirectStay
<1>4. V \in WorldType /\ V.pcb = R.pcb
  BY <1>1, <1>3, LeaveGroupsType, LeaveGroupsFrame
<1>5. U = [V EXCEPT !.pcb = [q \in Pid |-> IF q \in ths THEN [V.pcb[q] EXCEPT !.status = "RELEASED", !.held = FALSE]
                                                    ELSE V.pcb[q]],
                !.live = @ \ ths, !.map = @ \ ths]
  BY DEF DeleteThreads
<1> HIDE DEF U, V, ths, R
<1>6. ASSUME NEW q \in Pid
      PROVE  U.pcb[q].status = IF q \in ths THEN "RELEASED" ELSE V.pcb[q].status
  <2>1. V.pcb[q] \in PCB
    BY <1>4, RowType
  <2>2. U.pcb[q] = IF q \in ths THEN [V.pcb[q] EXCEPT !.status = "RELEASED", !.held = FALSE]
                                ELSE V.pcb[q]
    BY <1>4, <1>5 DEF WorldType
  <2> QED BY <2>1, <2>2 DEF PCB
<1>7. DeadStay(W, U)
  BY <1>3, <1>4, <1>6 DEF DeadStay, Dead
<1> QED BY <1>7 DEF U

LEMMA FreeResourcesStay ==
  ASSUME NEW W \in WorldType, NEW p \in Pid
  PROVE  DeadStay(W, FreeResources(W, p))
<1> DEFINE L == LeaveGroups(W, {p})
           V == [L EXCEPT !.pcb[p].held = FALSE]
           U == FreeResources(W, p)
<1>1. L \in WorldType /\ L.pcb = W.pcb
  BY LeaveGroupsType, LeaveGroupsFrame
<1>2. L.pcb[p] \in PCB
  BY <1>1, RowType
<1>3. U = IF V.pcb[p].parent = NO_PROCESS_ID THEN SetStatus(V, p, "RELEASED") ELSE V
  BY DEF FreeResources
<1> HIDE DEF L, U
<1>4. V = [L EXCEPT !.pcb[p] = [L.pcb[p] EXCEPT !.held = FALSE]]
  BY <1>1 DEF WorldType
<1>5. V \in WorldType
  <2>1. [L.pcb[p] EXCEPT !.held = FALSE] \in PCB
    BY <1>2 DEF PCB
  <2> QED BY <1>1, <1>4, <2>1, UpdateType
<1>6. \A q \in Pid : V.pcb[q].status = L.pcb[q].status
  BY <1>1, <1>2 DEF WorldType, PCB
<1> HIDE DEF V
<1>7. DeadStay(W, V)
  BY <1>1, <1>6, SameStay
<1>8. DeadStay(V, U)
  <2>1. "RELEASED" \in Status
    BY DEF Status, Dead
  <2>2. DeadStay(V, V)
    BY SameStay
  <2> QED BY <1>3, <1>5, <2>1, <2>2, SetStatusStay
<1>9. DeadStay(W, U)
  BY <1>7, <1>8, StayTrans
<1> QED BY <1>9 DEF U

LEMMA DestroyStay ==
  ASSUME NEW W \in WorldType, NEW p \in Pid, W.pcb[p].status \notin Dead
  PROVE  DeadStay(W, Destroy(W, p))
<1> DEFINE A == SetStatus(W, p, "TERMINATED")
           B == DeleteThreads(A, p)
           C == ClearThreads(B, p)
           D == RedirectChildren(C, p)
           E == FreeResources(D, p)
<1>1. "TERMINATED" \in Status
  BY DEF Status, Dead
<1>2. A \in WorldType /\ DeadStay(W, A)
  BY <1>1, SetStatusType, SetStatusStay
<1> HIDE DEF A
<1>3. B \in WorldType /\ DeadStay(A, B)
  BY <1>2, DeleteThreadsType, DeleteThreadsStay
<1> HIDE DEF B
<1>4. C \in WorldType /\ DeadStay(B, C)
  <2>1. ASSUME NEW q \in Pid PROVE C.pcb[q].status = B.pcb[q].status
    <3>1. B.pcb[q] \in PCB
      BY <1>3, RowType
    <3> QED BY <1>3, <3>1 DEF ClearThreads, WorldType, PCB
  <2> QED BY <1>3, <2>1, ClearThreadsType, SameStay
<1> HIDE DEF C
<1>5. D \in WorldType /\ DeadStay(C, D)
  <2>1. C.pcb[p].children \in SUBSET Pid /\ C.pcb[p].parent \in Pid \cup {NO_PROCESS_ID}
    BY <1>4, RowType DEF PCB
  <2> QED BY <1>4, <2>1, RedirectType, RedirectStay DEF RedirectChildren
<1> HIDE DEF D
<1>6. DeadStay(D, E)
  BY <1>5, FreeResourcesStay
<1> HIDE DEF E
<1>7. DeadStay(W, E)
  BY <1>2, <1>3, <1>4, <1>5, <1>6, StayTrans
<1> QED BY <1>7 DEF A, B, C, D, E, Destroy

LEMMA RunnableStay ==
  ASSUME NEW W \in WorldType, NEW p \in Pid, NEW V \in Runnable(W, p)
  PROVE  DeadStay(W, V)
<1>1. W.pcb[p] \in PCB
  BY RowType
<1>2. ASSUME NEW X \in WorldType, X.pcb[p].status = "WAIT_CHILD" PROVE DeadStay(X, EndChildWait(X, p))
  <2>1. \A q \in Pid : X.pcb[q] \in PCB
    BY RowType
  <2>2. \A q \in Pid : EndChildWait(X, p).pcb[q].status = IF q = p THEN "RUN" ELSE X.pcb[q].status
    BY <2>1 DEF EndChildWait, WorldType, PCB
  <2> QED BY <1>2, <2>2 DEF DeadStay, Dead
<1>3. CASE W.pcb[p].status = "RUN"
  <2>1. V = W
    BY <1>3 DEF Runnable
  <2> QED BY <2>1, SameStay
<1>4. CASE W.pcb[p].status \in {"WAIT", "WAIT_KERNEL_SERVICE"}
  <2>1. V = SetStatus(W, p, "RUN") /\ "RUN" \in Status /\ W.pcb[p].status \notin Dead
    BY <1>4, StatusFacts DEF Runnable
  <2> QED BY <2>1, SetStatusStay
<1>5. CASE W.pcb[p].status = "WAIT_CHILD"
  <2>1. CASE ChildGone(W, p)
    <3>1. V = EndChildWait(W, p)
      BY <1>5, <2>1 DEF Runnable, ChildDone
    <3> QED BY <1>2, <1>5, <3>1
  <2>2. CASE ~ChildGone(W, p)
    <3> DEFINE c == W.pcb[p].waitChild
               X == SetStatus(W, c, "RELEASED")
    <3>1. V = EndChildWait(X, p) /\ ChildDone(W, p)
      BY <1>5, <2>2 DEF Runnable
    <3>2. c \in Pid /\ W.pcb[c].status = "TERMINATED" /\ c # p /\ "RELEASED" \in Status
      BY <1>1, <1>5, <2>2, <3>1 DEF ChildGone, ChildDone, PCB, Status, Dead
    <3> HIDE DEF c
    <3>3. X \in WorldType /\ DeadStay(W, X) /\ X.pcb[p].status = "WAIT_CHILD"
      BY <1>5, <3>2, SetStatusType, SetStatusStay, SetStatusRows
    <3> HIDE DEF X
    <3>4. DeadStay(X, EndChildWait(X, p))
      BY <1>2, <3>3
    <3> QED BY <3>1, <3>3, <3>4, StayTrans DEF X, c
  <2> QED BY <2>1, <2>2
<1>6. W.pcb[p].status \in {"RUN", "WAIT", "WAIT_KERNEL_SERVICE", "WAIT_CHILD"}
  BY DEF Runnable
<1> QED BY <1>3, <1>4, <1>5, <1>6

\* The end of a turn changes no state.
LEMMA EndOfTurnStay ==
  ASSUME TypeOK, NEW W \in WorldType, NEW p, EndOfTurn(W, p), DeadStay(World, W)
  PROVE  StaysDead
<1>1. pcb' = W.pcb /\ World.pcb = pcb
  BY DEF EndOfTurn, Becomes, DeleteProcess, World, WorldType
<1>2. live \subseteq Pid
  BY DEF TypeOK
<1> QED BY <1>1, <1>2 DEF StaysDead, DeadStay

LEMMA SchedulerStay == ASSUME IInv, NEW b \in Pid, Dispatch(b) \/ Skip(b) PROVE StaysDead
<1>1. PICK r \in ForSchedule(b) :
        \/ \E V \in Runnable(AfterForSchedule(b, r), r.p) : Becomes(V)
        \/ EndOfTurn(Skipped(AfterForSchedule(b, r), r.p), r.p)
  BY DEF Dispatch, Skip
<1> DEFINE p == r.p
           A == AfterForSchedule(b, r)
<1>2. /\ TypeOK /\ World \in WorldType /\ World.pcb = pcb /\ p \in Pid /\ A \in WorldType
      /\ \A q \in Pid : A.pcb[q].status = pcb[q].status
  BY WorldHasType, ForScheduleResult, AfterForScheduleFrame DEF World, IInv, Frame
<1> HIDE DEF p, A
<1>3. DeadStay(World, A)
  BY <1>2, SameStay
<1>4. ASSUME NEW V \in Runnable(A, p), Becomes(V) PROVE StaysDead
  <2>1. DeadStay(World, V)
    BY <1>2, <1>3, RunnableStay, StayTrans
  <2>2. pcb' = V.pcb /\ live \subseteq Pid
    BY <1>2, <1>4 DEF Becomes, TypeOK
  <2> QED BY <1>2, <2>1, <2>2 DEF StaysDead, DeadStay
<1>5. CASE EndOfTurn(Skipped(A, p), p)
  <2>1. "RELEASED" \in Status
    BY DEF Status, Dead
  <2>2. DeadStay(A, Skipped(A, p)) /\ Skipped(A, p) \in WorldType
    <3>1. CASE Skipped(A, p) = A
      BY <1>2, <3>1, SameStay
    <3>2. CASE Skipped(A, p) = SetStatus(A, p, "RELEASED")
      BY <1>2, <2>1, <3>2, SetStatusStay, SetStatusType
    <3> QED BY <3>1, <3>2 DEF Skipped
  <2>3. DeadStay(World, Skipped(A, p))
    BY <1>3, <2>2, StayTrans
  <2> QED BY <1>2, <1>5, <2>2, <2>3, EndOfTurnStay
<1> QED BY <1>1, <1>4, <1>5 DEF p, A

LEMMA SwitchBackStay ==
  ASSUME IInv, NEW W \in WorldType, DeadStay(World, W), SwitchBack(W, FALSE)
  PROVE  StaysDead
BY UndefinedStay, EndOfTurnStay DEF SwitchBack, IInv

LEMMA ExitStay == ASSUME IInv, NEW p \in Pid, Exit(p) PROVE StaysDead
<1>1. World \in WorldType /\ World.pcb = pcb /\ cur = p /\ pcb[p].status \notin Dead /\ TypeOK
  BY WorldHasType DEF World, IInv, Exit, InUserCode, Running, CurrentAlive
<1>2. DeadStay(World, Destroy(World, p)) /\ Destroy(World, p) \in WorldType
  BY <1>1, DestroyStay, DestroyType
<1> QED BY <1>1, <1>2, UndefinedStay, EndOfTurnStay DEF Exit, SwitchBack

LEMMA BlockStay ==
  ASSUME IInv, NEW p \in Pid, InUserCode(p), NEW row \in PCB, Block(p, row)
  PROVE  StaysDead
<1> DEFINE W == [World EXCEPT !.pcb[p] = row]
<1>1. World \in WorldType /\ World.pcb = pcb /\ pcb[p].status \notin Dead /\ TypeOK
  BY WorldHasType DEF World, IInv, InUserCode, Running, CurrentAlive
<1>2. W \in WorldType
  BY <1>1, UpdateType
<1>3. \A q \in Pid : q # p => W.pcb[q] = pcb[q]
  BY <1>1 DEF WorldType
<1> HIDE DEF W
<1>4. DeadStay(World, W)
  BY <1>1, <1>3 DEF DeadStay, Dead
<1>5. CASE SwitchBack(W, FALSE)
  BY <1>2, <1>4, <1>5, SwitchBackStay
<1> QED BY <1>1, <1>5, UndefinedStay DEF Block, W

LEMMA WaitsStay ==
  ASSUME IInv, NEW p \in Pid, Wait(p) \/ RequestKernelService(p) \/ \E c \in Pid : WaitOnChild(p, c)
  PROVE  StaysDead
<1>1. pcb[p] \in PCB /\ TypeOK
  BY DEF IInv, TypeOK
<1>2. CASE Wait(p)
  <2> DEFINE row == [pcb[p] EXCEPT !.status = "WAIT"]
  <2>1. row \in PCB
    BY <1>1 DEF PCB, Status
  <2>2. InUserCode(p) /\ Block(p, row)
    BY <1>2 DEF Wait
  <2> HIDE DEF row
  <2> QED BY <2>1, <2>2, BlockStay
<1>3. ASSUME NEW c \in Pid, WaitOnChild(p, c) PROVE StaysDead
  <2> DEFINE row == [pcb[p] EXCEPT !.waitChild = c, !.status = "WAIT_CHILD"]
  <2>1. row \in PCB
    BY <1>1 DEF PCB, Status
  <2>2. InUserCode(p) /\ Block(p, row)
    BY <1>3 DEF WaitOnChild
  <2> HIDE DEF row
  <2> QED BY <2>1, <2>2, BlockStay
<1>4. CASE RequestKernelService(p)
  <2> DEFINE W == SetStatus(World, p, "WAIT_KERNEL_SERVICE")
  <2>1. World \in WorldType /\ World.pcb = pcb /\ pcb[p].status \notin Dead /\ "WAIT_KERNEL_SERVICE" \in Status
    BY <1>4, WorldHasType, StatusFacts DEF World, IInv, RequestKernelService, InUserCode, Running, CurrentAlive
  <2>2. W \in WorldType /\ DeadStay(World, W)
    BY <2>1, SetStatusType, SetStatusStay
  <2>3. Undefined \/ EndOfTurn(W, p)
    BY <1>4 DEF RequestKernelService
  <2> HIDE DEF W
  <2> QED BY <1>1, <2>2, <2>3, UndefinedStay, EndOfTurnStay
<1> QED BY <1>2, <1>3, <1>4

LEMMA PublishStay ==
  ASSUME IInv, NEW p \in Pid, LinkToParent(p) \/ AddToSchedulerList(p) \/ AddToProcessMap(p)
  PROVE  StaysDead
<1>1. TypeOK /\ pcb \in [Pid -> PCB]
  BY DEF IInv, TypeOK
<1>2. CASE LinkToParent(p)
  <2>1. \A q \in Pid : pcb'[q].status = pcb[q].status
    BY <1>1, <1>2 DEF LinkToParent, PCB
  <2> QED BY <1>1, <2>1, RowsStay
<1>3. CASE AddToSchedulerList(p)
  <2>1. Creating(p)
    BY <1>3 DEF AddToSchedulerList, Creating, CreateSteps
  <2>2. pcb[arg[p]].status \notin Dead
    BY <2>1 DEF IInv, NewIsPrivate
  <2>3. pcb' = pcb \/ pcb' = [pcb EXCEPT ![arg[p]].status = "RUN"]
    BY <1>3 DEF AddToSchedulerList
  <2>4. \A q \in Pid : pcb'[q].status = pcb[q].status \/ pcb[q].status \notin Dead
    BY <1>1, <2>2, <2>3
  <2> QED BY <1>1, <2>4, RowsStay
<1>4. CASE AddToProcessMap(p)
  <2>1. pcb' = pcb
    BY <1>4 DEF AddToProcessMap, Undefined, table
  <2> QED BY <1>1, <2>1, RowsStay
<1> QED BY <1>2, <1>3, <1>4

LEMMA NextStay ==
  ASSUME NEW roles, roles.killers = {}, IInv, CalmIInv, [NextOf(roles)]_vars
  PROVE  StaysDead
<1>0. TypeOK
  BY DEF IInv
<1>1. CASE UNCHANGED vars
  BY <1>0, <1>1, RowsStay DEF vars
<1>2. ASSUME NEW p \in Pid, Dispatch(p) \/ Skip(p) PROVE StaysDead
  BY <1>2, SchedulerStay
<1>3. CASE Preempt
  <2>1. World \in WorldType /\ DeadStay(World, World)
    BY <1>0, WorldHasType, SameStay
  <2> QED BY <1>3, <2>1, SwitchBackStay DEF Preempt
<1>4. ASSUME NEW p \in Pid, Calls(p, roles) PROVE StaysDead
  <2>1. ASSUME NEW q \in Requesters(p, roles), CreateThread(p, q) PROVE StaysDead
    BY <2>1, CreateThreadCalm DEF Requesters
  <2>2. ASSUME NEW par \in ParentsFor(p, roles), CreateProcess(p, par) \/ CreateFails(p, par, par) PROVE StaysDead
    BY <2>2, CreateProcessCalm, CreateFailsCalm, ParentsAreCreated DEF CreateFails, InUserCode, Running
  <2>3. ASSUME NEW q \in Requesters(p, roles), CreateThreadFails(p, q) PROVE StaysDead
    BY <2>3, CreateFailsCalm, MainsAreCreated DEF CreateThreadFails
  <2> QED BY <1>4, <2>1, <2>2, <2>3, ExitStay, WaitsStay DEF Calls
<1>5. ASSUME NEW p \in Pid, Continues(p) PROVE StaysDead
  <2>1. pc[p] \notin KillSteps
    BY DEF CalmIInv, AtWork
  <2>2. ~(KillMark(p) \/ KillThreads(p) \/ KillClear(p) \/ KillChildren(p) \/ KillFree(p))
    BY <2>1 DEF KillMark, KillThreads, KillClear, KillChildren, KillFree, KillStep, KillSteps
  <2> QED BY <1>5, <2>2, PublishStay DEF Continues
<1> QED BY <1>1, <1>2, <1>3, <1>4, <1>5 DEF NextOf, Stop

-----------------------------------------------------------------------------
(* Both kinds of behaviour *)

ProcessesIInv == IInv /\ AllInHand /\ Listed /\ (~kills => CalmIInv)

LEMMA ProcessesInductive == ProcessesSpec => []ProcessesIInv
<1>1. ProcessesInit => ProcessesIInv
  BY InitIInv, InitInHand, InitListed, InitCalm DEF ProcessesInit, ProcessesIInv
<1>2. ProcessesIInv /\ [ProcessesNext]_processesVars => ProcessesIInv'
  <2> SUFFICES ASSUME ProcessesIInv, [ProcessesNext]_processesVars PROVE ProcessesIInv'
    OBVIOUS
  <2>1. kills' = kills
    BY DEF ProcessesNext, processesVars
  <2>2. CASE [NextOf(CalmRoles)]_vars
    <3>1. IInv' /\ AllInHand' /\ Listed'
      BY <2>2, NextIInv, NextInHand, NextListed DEF ProcessesIInv
    <3>2. ~kills => CalmIInv'
      BY <2>2, NextCalm DEF ProcessesIInv, CalmRoles
    <3> QED BY <2>1, <3>1, <3>2 DEF ProcessesIInv
  <2>3. CASE kills /\ [NextOf(Roles)]_vars
    <3>1. IInv' /\ AllInHand' /\ Listed'
      BY <2>3, NextIInv, NextInHand, NextListed DEF ProcessesIInv
    <3> QED BY <2>1, <2>3, <3>1 DEF ProcessesIInv
  <2> QED BY <2>2, <2>3 DEF ProcessesNext, processesVars, Next
<1> QED BY <1>1, <1>2, PTL DEF ProcessesSpec

\* Where nobody kills, a process that has not terminated has a parent that can still wait for it
\* or hand it on: Destroy of a process and of its threads, creation on behalf of others, waiting
\* parents and preemption between any two steps never lose a child.
THEOREM NoOrphans == ProcessesSpec => []OrphansHaveAParent
<1>1. ProcessesIInv => OrphansHaveAParent
  BY CalmAnswers DEF ProcessesIInv, OrphansHaveAParent
<1> QED BY <1>1, ProcessesInductive, PTL

\* Where nobody kills, no wake-up, redirect or scheduling brings a terminated process back.
THEOREM DeathIsFinal == ProcessesSpec => DeathIsFinalUnlessKilled
<1>1. ProcessesIInv /\ [ProcessesNext]_processesVars => [~kills => StaysDead]_processesVars
  <2> SUFFICES ASSUME ProcessesIInv, ProcessesNext, ~kills PROVE StaysDead
    OBVIOUS
  <2>1. [NextOf(CalmRoles)]_vars
    BY DEF ProcessesNext
  <2> QED BY <2>1, NextStay DEF ProcessesIInv, CalmRoles
<1> QED BY <1>1, ProcessesInductive, PTL DEF ProcessesSpec, DeathIsFinalUnlessKilled

\* What holds of Spec holds of both kinds: the types, the lists the scheduler walks, and what the
\* processes hold.
THEOREM BothKinds == ProcessesSpec => [](TypeOK /\ NoDanglingSchedule /\ EndsLeakNothing)
<1>1. ProcessesIInv => TypeOK /\ NoDanglingSchedule /\ EndsLeakNothing
  BY IInvSchedules, InHandLeaksNothing DEF ProcessesIInv, IInv
<1> QED BY <1>1, ProcessesInductive, PTL

=============================================================================
