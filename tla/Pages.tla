------------------------------- MODULE Pages -------------------------------
(***************************************************************************)
(* Physical pages: the page map of MemManager, and the address spaces,     *)
(* stacks, libraries, heaps and kernel stacks that take pages from it and  *)
(* give them back.                                                         *)
(*                                                                         *)
(* One page stands for each loop of UserProcess that takes or gives back   *)
(* the pages of one kind.  The page map is used under ProcessSwitchLock,   *)
(* so a step that takes or gives back one page is atomic; creations and    *)
(* ends of several processes interleave page by page.  A page fault is     *)
(* served by a kernel service, which can be preempted as well, while the   *)
(* thread that met it waits; a process or a thread may be killed meanwhile. *)
(***************************************************************************)
EXTENDS Naturals, SequencesExt, FiniteSetsExt

CONSTANTS
  Page,          \* the numbers of the pages beyond the reserved ones
  UserProc,
  StackBlocks,   \* kernel stack blocks
  Forgotten,     \* sets of pages that earlier failures have left marked
  KernelStackPages,
  MaxCreated     \* bound on the creations of processes

ASSUME PageAssumption == /\ Page \subseteq Nat /\ IsFiniteSet(Page)
                         /\ \A f \in Forgotten : f \subseteq Page
                         /\ KernelStackPages \in Nat /\ MaxCreated \in Nat

\* The kinds of pages of a process, in the order Load takes and DeAllocateResources
\* gives them back.
LoadOrder == <<"pde", "pte", "stackpte", "image", "stack", "header", "env">>
EndOrder == <<"threadstack", "threadpte", "guipte", "dll", "dllpte", "header", "heap1", "heap2", "heap3",
              "heappte", "env", "image", "stack", "pte", "stackpte", "pde">>
Kinds == Range(EndOrder)

\* The pages of the heap, by their addresses; one table maps them.
HeapPages == {"heap1", "heap2", "heap3"}
Who == {"main", "thread"}

VARIABLES
  pageMap,      \* m_uiPageMap: the pages marked as allocated
  mapped,       \* the pages each process reaches through its tables
  stage,        \* where the life of each process is
  thread,       \* the second thread of each process
  fault,        \* the page fault each thread waits for, and how far a service is with it
  pageMutex,    \* _pageFaultMutex of each process, which its threads share: held
  stackBlock,   \* each kernel stack block: marked as used, its pages, its user
  stray,        \* a service went on with a process that was killed meanwhile
  wild,         \* pages were given back through an uninitialised page directory
  unreachable,  \* pages whose owner has forgotten them
  created       \* processes created so far

pagesVars == <<pageMap, mapped, stage, thread, fault, pageMutex, stackBlock, stray, wild, unreachable,
               created>>
faults == <<fault, pageMutex>>
space == <<mapped, stage, thread, faults, created>>
oddities == <<stray, wild>>

NoStage == [at |-> "none", next |-> 1]
NoStack == [used |-> FALSE, pages |-> {}, live |-> FALSE]
NoFault == [at |-> "no", on |-> "stack"]
Nothing == [k \in Kinds |-> {}]
FreePages == Page \ pageMap

PagesTypeOK ==
  /\ pageMap \subseteq Page
  /\ mapped \in [UserProc -> [Kinds -> SUBSET Page]]
  /\ stage \in [UserProc -> [at : {"none", "load", "up", "end"}, next : 1 .. Len(EndOrder) + 1]]
  /\ thread \in [UserProc -> {"none", "new", "up"}]
  /\ fault \in [UserProc -> [Who -> [at : {"no", "asked", "table", "page", "served", "refused", "stuck"},
                                    on : HeapPages \cup {"stack"}]]]
  /\ pageMutex \in [UserProc -> BOOLEAN]
  /\ stackBlock \in [StackBlocks -> [used : BOOLEAN, pages : SUBSET Page, live : BOOLEAN]]
  /\ stray \in BOOLEAN /\ wild \in BOOLEAN
  /\ unreachable \subseteq Page
  /\ created \in 0 .. MaxCreated

-----------------------------------------------------------------------------
(* The page map *)

\* AllocatePhysicalPage takes the first page whose bit is clear, and throws if there is none.
NextPage == Min(FreePages)
Allocate == /\ FreePages # {}
            /\ pageMap' = pageMap \cup {NextPage}

Give(ps) == pageMap' = pageMap \ ps

\* The pages that n calls one after the other get, or all that are free.
FirstPages(n) == {p \in FreePages : Cardinality({q \in FreePages : q < p}) < n}

PutIn(p, kind) == mapped' = [mapped EXCEPT ![p][kind] = @ \cup {NextPage}]
At(p, s) == stage[p].at = s
All(p) == UNION {mapped[p][k] : k \in Kinds}

-----------------------------------------------------------------------------
(* Creation *)

\* A process identifier is never used again, a member of UserProc once nobody is served
\* for the last process it stood for.
Create(p) ==
  /\ At(p, "none") /\ created < MaxCreated
  /\ \A who \in Who : fault[p][who] = NoFault
  /\ created' = created + 1
  /\ stage' = [stage EXCEPT ![p] = [at |-> "load", next |-> 1]]
  /\ pageMutex' = [pageMutex EXCEPT ![p] = FALSE]
  /\ UNCHANGED <<pageMap, mapped, thread, fault, stackBlock, oddities, unreachable>>

\* One more page of Load, in the order of AllocateAddressSpace,
\* DynamicLinkLoader_Initialize and ProcessEnv_Initialize.
LoadPage(p) ==
  LET i == stage[p].next
  IN  /\ At(p, "load") /\ Allocate
      /\ PutIn(p, LoadOrder[i])
      /\ stage' = [stage EXCEPT ![p] = IF i = Len(LoadOrder) THEN [at |-> "up", next |-> 1]
                                       ELSE [@ EXCEPT !.next = i + 1]]
      /\ UNCHANGED <<thread, faults, stackBlock, oddities, unreachable, created>>

\* What the process had reached is forgotten.
Forget(p) ==
  /\ unreachable' = unreachable \cup All(p)
  /\ mapped' = [mapped EXCEPT ![p] = Nothing]
  /\ stage' = [stage EXCEPT ![p] = NoStage]

Loaded(p, kind) == At(p, "load") /\ LoadOrder[stage[p].next - 1] = kind

\* An exception of AllocatePhysicalPage or PushProgramInitStackData leaves Load and the
\* constructor; nobody gives back what had been taken.
LoadFails(p) ==
  /\ At(p, "load")
  /\ \/ FreePages = {}
     \/ stage[p].next > 1 /\ Loaded(p, "header")
  /\ Forget(p)
  /\ UNCHANGED <<pageMap, thread, faults, stackBlock, oddities, created>>

\* CopyProcessImage fails: DeAllocateAddressSpace follows CR3_PDBR, which is not set yet.
CopyImageFails(p) ==
  /\ stage[p].next > 1 /\ Loaded(p, "header")
  /\ wild' = TRUE
  /\ UNCHANGED <<pageMap, space, stackBlock, stray, unreachable>>

-----------------------------------------------------------------------------
(* The life of a process *)

\* The second thread exists from the end of its construction until its kill; the main
\* thread waits while a service constructs it.
Alive(p, who) == At(p, "up") /\ (who = "thread" => thread[p] = "up")
Runs(p, who) == Alive(p, who) /\ thread[p] # "new" /\ fault[p][who] = NoFault

Becomes(p, who, at) == fault' = [fault EXCEPT ![p][who].at = at]

\* What a service throws in a request it does not catch stops it, and the thread that made
\* the request is not woken.
Stuck(p, who) == Becomes(p, who, "stuck")

\* allocateGUIFramebuffer, once per process.
AllocateGUIFramebuffer(p) ==
  /\ Runs(p, "main") /\ mapped[p]["guipte"] = {}
  /\ IF FreePages = {} THEN Stuck(p, "main") /\ UNCHANGED <<pageMap, mapped>>
                       ELSE Allocate /\ PutIn(p, "guipte") /\ fault' = fault
  /\ UNCHANGED <<stage, thread, pageMutex, stackBlock, oddities, unreachable, created>>

\* MapDLLPagesToProcess: a page table first, if there is none, then the pages.  If there are
\* too few, the counts that DeAllocateDLLPages goes by are not updated.
MapDLLPages(p) ==
  LET tables == IF mapped[p]["dllpte"] = {} THEN 1 ELSE 0
      got == FirstPages(tables + 1)
      new == FirstPages(tables)
  IN  /\ Runs(p, "main") /\ mapped[p]["dll"] = {}
      /\ pageMap' = pageMap \cup got
      /\ IF Cardinality(FreePages) < tables + 1
           THEN unreachable' = unreachable \cup got /\ mapped' = mapped
           ELSE /\ mapped' = [mapped EXCEPT ![p]["dllpte"] = @ \cup new, ![p]["dll"] = got \ new]
                /\ unreachable' = unreachable
      /\ UNCHANGED <<stage, thread, faults, stackBlock, oddities, created>>

\* UserThread's constructor: its table, then its stack; without a page it throws, which
\* CreateThreadTask catches, and the table is forgotten.
CreateThread(p) ==
  LET kind == IF thread[p] = "none" THEN "threadpte" ELSE "threadstack"
  IN  /\ \/ Runs(p, "main") /\ thread[p] = "none" /\ fault[p]["thread"] = NoFault
         \/ At(p, "up") /\ thread[p] = "new"
      /\ IF FreePages = {}
           THEN /\ unreachable' = unreachable \cup mapped[p]["threadpte"]
                /\ mapped' = [mapped EXCEPT ![p]["threadpte"] = {}]
                /\ thread' = [thread EXCEPT ![p] = "none"]
                /\ pageMap' = pageMap
           ELSE /\ Allocate /\ PutIn(p, kind)
                /\ thread' = [thread EXCEPT ![p] = IF @ = "none" THEN "new" ELSE "up"]
                /\ unreachable' = unreachable
      /\ UNCHANGED <<stage, faults, stackBlock, oddities, created>>

-----------------------------------------------------------------------------
(* Threads and processes end, by themselves or killed by others *)

\* A service goes on with the request of a thread that is gone.
Unanswered == {"asked", "table", "page"}
StillServed(p, who) == IF fault[p][who].at \in Unanswered THEN fault[p][who] ELSE NoFault

\* Destroy sees to the threads first.  Nobody knows of the one that is under construction.
BeginEnd(p) ==
  /\ stage' = [stage EXCEPT ![p] = [at |-> "end", next |-> 1]]
  /\ fault' = [fault EXCEPT ![p] = [who \in Who |-> StillServed(p, who)]]

End(p) ==
  /\ At(p, "up") /\ BeginEnd(p)
  /\ stray' = (thread[p] = "new")
  /\ UNCHANGED <<pageMap, mapped, thread, pageMutex, stackBlock, wild, unreachable, created>>

\* UserThread::DeAllocateResources.
DropThread(p) ==
  /\ Give(mapped[p]["threadstack"] \cup mapped[p]["threadpte"])
  /\ mapped' = [mapped EXCEPT ![p]["threadstack"] = {}, ![p]["threadpte"] = {}]
  /\ thread' = [thread EXCEPT ![p] = "none"]
  /\ fault' = [fault EXCEPT ![p]["thread"] = StillServed(p, "thread")]
  /\ stage' = stage

EndThread(p) ==
  /\ Alive(p, "thread")
  /\ DropThread(p)
  /\ UNCHANGED <<pageMutex, stackBlock, oddities, unreachable, created>>

\* The process ends with its main thread, or the second thread ends.
Exit(p, who) ==
  IF who = "main" THEN BeginEnd(p) /\ UNCHANGED <<pageMap, mapped, thread>> ELSE DropThread(p)

-----------------------------------------------------------------------------
(* Page faults *)

\* A thread touches a page that is not there: of its stack, or of the heap, which is used
\* from its beginning.  DMM_Allocate touches the pages of a block, the remainder's before
\* those between; not only inside heapMutex: an allocation that throws leaves the DMM flag on.
Fault(p, who, on) ==
  /\ Runs(p, who)
  /\ on \in HeapPages => mapped[p][on] = {} /\ (on = "heap1" \/ mapped[p]["heap1"] # {})
  /\ fault' = [fault EXCEPT ![p][who] = [at |-> "asked", on |-> on]]
  /\ UNCHANGED <<pageMap, mapped, stage, thread, pageMutex, stackBlock, oddities, unreachable, created>>

UnlockedAfter(p, at) == pageMutex' = [pageMutex EXCEPT ![p] = at \in {"table", "page"}]

\* AllocatePage refuses what is no address of the heap, those of the stacks included, and
\* an address of the heap if the DMM flag of the thread is off.
Refuse(p, who) ==
  /\ At(p, "up") /\ fault[p][who].at = "asked" /\ ~pageMutex[p]
  /\ Becomes(p, who, "refused")
  /\ UNCHANGED <<pageMap, mapped, stage, thread, pageMutex, stackBlock, oddities, unreachable, created>>

\* What is there already: the table, the page, which another thread's fault may have got.
Missing(p, on) == IF mapped[p]["heappte"] = {} THEN "table"
                  ELSE IF mapped[p][on] = {} THEN "page" ELSE "served"

\* Mutation of LookUp: nobody keeps two services apart.
LookUpUnlocked(p, who) ==
  /\ At(p, "up") /\ fault[p][who].at = "asked" /\ fault[p][who].on \in HeapPages
  /\ Becomes(p, who, Missing(p, fault[p][who].on))
  /\ UNCHANGED <<pageMap, mapped, stage, thread, pageMutex, stackBlock, oddities, unreachable, created>>

\* AllocatePage looks at the page directory and the table.
LookUp(p, who) ==
  /\ At(p, "up") /\ fault[p][who].at = "asked" /\ fault[p][who].on \in HeapPages
  /\ ~pageMutex[p]
  /\ Becomes(p, who, Missing(p, fault[p][who].on))
  /\ UnlockedAfter(p, Missing(p, fault[p][who].on))
  /\ UNCHANGED <<pageMap, mapped, stage, thread, stackBlock, oddities, unreachable, created>>

\* The new table takes the place of what the directory had; the page is missing in it.
MapTable(p, who) ==
  /\ At(p, "up") /\ fault[p][who].at = "table" /\ Allocate
  /\ mapped' = [mapped EXCEPT ![p] = [k \in Kinds |-> IF k = "heappte" THEN {NextPage}
                                                       ELSE IF k \in HeapPages THEN {} ELSE @[k]]]
  /\ Becomes(p, who, "page")
  /\ UNCHANGED <<stage, thread, pageMutex, stackBlock, oddities, unreachable, created>>

MapPage(p, who) ==
  /\ At(p, "up") /\ fault[p][who].at = "page" /\ Allocate
  /\ mapped' = [mapped EXCEPT ![p][fault[p][who].on] = {NextPage}]
  /\ Becomes(p, who, "served")
  /\ UnlockedAfter(p, "served")
  /\ UNCHANGED <<stage, thread, stackBlock, oddities, unreachable, created>>

\* AllocatePhysicalPage throws, which nothing in PageFault::Execute or Server catches.  The
\* table stays.  Whether the mutex is unlocked depends on what unwinds the stack.
NoPageLeft(p, who) ==
  /\ At(p, "up") /\ fault[p][who].at \in {"table", "page"} /\ FreePages = {}
  /\ Stuck(p, who)
  /\ \E locked \in BOOLEAN : pageMutex' = [pageMutex EXCEPT ![p] = locked]
  /\ UNCHANGED <<pageMap, mapped, stage, thread, stackBlock, oddities, unreachable, created>>

\* The thread is woken, and exits if its fault was refused.
GoOn(p, who) ==
  /\ At(p, "up") /\ fault[p][who].at \in {"served", "refused"}
  /\ IF fault[p][who].at = "refused" /\ Alive(p, who)
       THEN Exit(p, who)
       ELSE /\ fault' = [fault EXCEPT ![p][who] = NoFault]
            /\ UNCHANGED <<pageMap, mapped, stage, thread>>
  /\ UNCHANGED <<pageMutex, stackBlock, oddities, unreachable, created>>

\* The thread has left the process map: value() throws before the mutex is locked, and
\* nobody waits any more.
NoClient(p, who) ==
  /\ fault[p][who].at \in {"asked", "stuck"} /\ ~Alive(p, who)
  /\ fault' = [fault EXCEPT ![p][who] = NoFault]
  /\ UNCHANGED <<pageMap, mapped, stage, thread, pageMutex, stackBlock, oddities, unreachable, created>>

\* The process has been killed: AllocatePage uses tables that are being, or were, given back.
Strays(p, who) ==
  /\ ~At(p, "up") /\ fault[p][who].at \in Unanswered
  /\ stray' = TRUE
  /\ UNCHANGED <<pageMap, space, stackBlock, wild, unreachable>>

-----------------------------------------------------------------------------
(* The pages of a process are given back *)

\* Mutation of GivenBack: the page directory goes first.
GivenBackUpward(i) == EndOrder[Len(EndOrder) + 1 - i]
\* Mutation of GivenBack: the libraries' pages are not given back.
GivenBackButDLLs(i) == IF EndOrder[i] = "dll" THEN "dllpte" ELSE EndOrder[i]

GivenBack(i) == EndOrder[i]

\* DMM_DeAllocatePhysicalPages stops at the first page of the heap that is not there.
Behind(p, kind) == IF kind \in HeapPages /\ mapped[p][kind] = {} THEN HeapPages ELSE {}

EndPages(p) ==
  LET i == stage[p].next
      kind == GivenBack(i)
      forgotten == Behind(p, kind)
  IN  /\ At(p, "end") /\ i <= Len(EndOrder)
      /\ Give(mapped[p][kind])
      /\ mapped' = [mapped EXCEPT ![p] =
                      [k \in Kinds |-> IF k \in forgotten \cup {kind} THEN {} ELSE @[k]]]
      /\ unreachable' = unreachable \cup UNION {mapped[p][k] : k \in forgotten}
      /\ stage' = [stage EXCEPT ![p].next = i + 1]
      /\ thread' = [thread EXCEPT ![p] = "none"]
      /\ UNCHANGED <<faults, stackBlock, oddities, created>>

Ended(p) ==
  /\ At(p, "end") /\ stage[p].next > Len(EndOrder)
  /\ stage' = [stage EXCEPT ![p] = NoStage]
  /\ UNCHANGED <<pageMap, mapped, thread, faults, stackBlock, oddities, unreachable, created>>

-----------------------------------------------------------------------------
(* Kernel stacks *)

FreeBlocks == {b \in StackBlocks : ~stackBlock[b].used}

\* AllocateKernelStack: without enough pages it throws, and block and pages stay marked.
AllocateKernelStack(b) ==
  LET enough == Cardinality(FreePages) >= KernelStackPages
      got == FirstPages(KernelStackPages)
  IN  /\ b \in FreeBlocks /\ \A c \in FreeBlocks : b <= c
      /\ pageMap' = pageMap \cup got
      /\ stackBlock' = [stackBlock EXCEPT ![b] = [used |-> TRUE, pages |-> got, live |-> enough]]
      /\ UNCHANGED <<space, oddities, unreachable>>

DeAllocateKernelStack(b) ==
  /\ stackBlock[b].live
  /\ Give(stackBlock[b].pages)
  /\ stackBlock' = [stackBlock EXCEPT ![b] = NoStack]
  /\ UNCHANGED <<space, oddities, unreachable>>

-----------------------------------------------------------------------------
PagesInit ==
  /\ unreachable \in Forgotten /\ pageMap = unreachable
  /\ mapped = [p \in UserProc |-> Nothing]
  /\ stage = [p \in UserProc |-> NoStage]
  /\ thread = [p \in UserProc |-> "none"]
  /\ fault = [p \in UserProc |-> [who \in Who |-> NoFault]]
  /\ pageMutex = [p \in UserProc |-> FALSE]
  /\ stackBlock = [b \in StackBlocks |-> NoStack]
  /\ stray = FALSE /\ wild = FALSE /\ created = 0

\* Steps of a thread, and of the service that serves it.
FaultSteps(p, who) ==
  \/ \E on \in HeapPages \cup {"stack"} : Fault(p, who, on)
  \/ Refuse(p, who) \/ LookUp(p, who) \/ MapTable(p, who) \/ MapPage(p, who)
  \/ NoPageLeft(p, who) \/ GoOn(p, who) \/ NoClient(p, who) \/ Strays(p, who)

ProcessSteps(p) ==
  \/ Create(p) \/ LoadPage(p) \/ LoadFails(p) \/ CopyImageFails(p)
  \/ AllocateGUIFramebuffer(p) \/ MapDLLPages(p)
  \/ CreateThread(p) \/ EndThread(p)
  \/ \E who \in Who : FaultSteps(p, who)
  \/ End(p) \/ EndPages(p) \/ Ended(p)

\* After a wild or a stray access nothing more is said.
PagesNext ==
  /\ ~wild /\ ~stray
  /\ \/ \E p \in UserProc : ProcessSteps(p)
     \/ \E b \in StackBlocks : AllocateKernelStack(b) \/ DeAllocateKernelStack(b)

PagesSpec == PagesInit /\ [][PagesNext]_pagesVars

-----------------------------------------------------------------------------
(* Properties *)

\* Every page that is marked has one owner: one table of one process, one kernel stack,
\* or nobody, if a creation or a mapping failed half-way or a hole in the heap hid it; and
\* a process that has ended left no page marked that it still finds.
HoldersOf(page) ==
  {h \in {"process"} \X UserProc \X Kinds : page \in mapped[h[2]][h[3]]}
  \cup {h \in {"stack"} \X StackBlocks : page \in stackBlock[h[2]].pages}
  \cup {h \in {<<"nobody">>} : page \in unreachable}
PagesHaveOneOwner ==
  /\ \A page \in Page : Cardinality(HoldersOf(page)) = IF page \in pageMap THEN 1 ELSE 0
  /\ \A p \in UserProc : At(p, "none") => All(p) = {}

\* While processes begin and end page by page, tables outlive what they map: nobody reads
\* a table or a page directory to find pages to give back after giving back the table.
Table == [image |-> "pte", header |-> "pte", env |-> "pte", stack |-> "stackpte", dll |-> "dllpte",
          heap1 |-> "heappte", heap2 |-> "heappte", heap3 |-> "heappte", threadstack |-> "threadpte"]
TablesOutliveTheirPages ==
  \A p \in UserProc :
    /\ \A k \in DOMAIN Table : mapped[p][k] # {} => mapped[p][Table[k]] # {}
    /\ All(p) # {} => mapped[p]["pde"] # {}

\* Pages are owned by the tables that find them, in every order of creations, faults and
\* ends, two faults of one process on one page included.
PagesAreHeld == PagesHaveOneOwner /\ TablesOutliveTheirPages

\* "Further expansion of user stack ... will happen as part of regular page fault handling
\* flow": the fault of a thread that needs another page of its stack is not refused.
StacksGrow == \A p \in UserProc, who \in Who : fault[p][who].at = "refused" => fault[p][who].on # "stack"
=============================================================================
