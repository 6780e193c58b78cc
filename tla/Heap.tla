-------------------------------- MODULE Heap --------------------------------
(***************************************************************************)
(* The first-fit heap of DMM.cpp: a list of free blocks that is searched   *)
(* from its head, split or used up by an allocation, and extended at the   *)
(* head by a release.  Neighbouring free blocks are never joined.  Each    *)
(* block begins with a header (AllocationUnitTracker), whose link field    *)
(* and alignment padding are a union.                                      *)
(*                                                                         *)
(* The kernel's heap serves callers under IrqGuard: one action per call.   *)
(* The heap of a process is used by its threads under heapMutex, which do  *)
(* not ask for alignment and can die at a page fault in the middle of the  *)
(* call; Destroy unlocks the mutex for the threads that are left.          *)
(***************************************************************************)
EXTENDS Naturals, SequencesExt

CONSTANTS
  HeapSize,    \* MEM_KERNEL_HEAP_SIZE or PROCESS_HEAP_SIZE
  HeaderSize,  \* sizeof(AllocationUnitTracker)
  Requests,    \* sizes callers ask for
  Aligns,      \* alignments the kernel's callers ask for, with 0
  Threads,     \* of the process whose heap it is
  Nobody

ASSUME HeapAssumption == /\ HeapSize \in Nat /\ HeaderSize \in Nat \ {0}
                         /\ HeapSize > HeaderSize
                         /\ Requests \subseteq Nat /\ Aligns \subseteq Nat
ASSUME NobodyAssumption == Nobody \notin Threads

MaxHeld == 3    \* bound on the blocks callers hold at a time

VARIABLES
  kernelHeap,  \* whose heap this is
  started,     \* the first block has been made
  free,        \* the free blocks, from the head of the list
  held,        \* the blocks callers hold: where, how long, and the padding
  heapMutex,   \* who is inside DMM_Allocate or DMM_DeAllocate
  place,       \* where that thread is, and the block it is about to get
  cut,         \* blocks that no list leads to any more
  emptied      \* the head of the list was NULL when the heap was in use

heapVars == <<kernelHeap, started, free, held, heapMutex, place, cut, emptied>>

Block == [at : 0 .. HeapSize - 1, size : 1 .. HeapSize]
Piece == [at : 0 .. HeapSize - 1, size : 1 .. HeapSize, pad : 0 .. HeapSize]
NoBlock == [at |-> 0, size |-> 1]
Outside == [step |-> "out", block |-> NoBlock, rest |-> <<>>, index |-> 0]

HeapTypeOK ==
  /\ kernelHeap \in BOOLEAN /\ started \in BOOLEAN /\ emptied \in BOOLEAN
  /\ free \in Seq(Block)
  /\ held \subseteq Piece
  /\ heapMutex \in Threads \cup {Nobody}
  /\ place \in [step : {"out", "split", "link", "touch"}, block : Block, rest : Seq(Block), index : Nat]
  /\ cut \subseteq Block

-----------------------------------------------------------------------------
(* What an allocation does to the list *)

\* DMM_GetByteStuffForAlign: the padding that aligns what the caller gets.
Pad(at, align) ==
  IF align = 0 \/ (at + HeaderSize) % align = 0 THEN 0 ELSE align - ((at + HeaderSize) % align)

Whole == <<[at |-> 0, size |-> HeapSize]>>

\* The head node is made whenever the list has no head.
List == IF free = <<>> THEN Whole ELSE free

Need(size, align, b) == size + HeaderSize + Pad(b.at, align)
Fits(size, align, list) == {i \in DOMAIN list : Need(size, align, list[i]) <= list[i].size}

\* The remainder becomes a free block only if a header and more than one byte fit in it.
Splits(b, need) == b.size - need > HeaderSize + 1

\* Mutation of Taken: the rest of a block that is used up belongs to nobody.
TakenNarrow(b, need) == need

\* How much of a free block an allocation takes.
Taken(b, need) == IF Splits(b, need) THEN need ELSE b.size

\* What stays in the list where the block was.
Remainder(b, need) ==
  IF Splits(b, need) THEN <<[at |-> b.at + need, size |-> b.size - need]>> ELSE <<>>

Without(list, i, new) == SubSeq(list, 1, i - 1) \o new \o SubSeq(list, i + 1, Len(list))

Start == /\ started' = TRUE
         /\ emptied' = (emptied \/ (started /\ free = <<>>))

-----------------------------------------------------------------------------
(* The kernel's heap *)

AllocateForKernel(size, align) ==
  LET i == Min(Fits(size, align, List))
      b == List[i]
      need == Need(size, align, b)
  IN  /\ kernelHeap /\ Cardinality(held) < MaxHeld
      /\ Start
      /\ IF Fits(size, align, List) = {}
           THEN free' = List /\ held' = held      \* throws "out of memory!"
           ELSE /\ free' = Without(List, i, Remainder(b, need))
                /\ held' = held \cup {[at |-> b.at, size |-> Taken(b, need), pad |-> Pad(b.at, align)]}
      /\ UNCHANGED <<kernelHeap, heapMutex, place, cut>>

\* A release finds the start of the block through the padding kept in the header.
BlockOf(p) == [at |-> p.at, size |-> p.size]

\* DMM_DeAllocateForKernel: a block that is held passes both of its checks.
DeAllocateForKernel(p) ==
  /\ kernelHeap /\ p \in held
  /\ free' = <<BlockOf(p)>> \o free
  /\ held' = held \ {p}
  /\ UNCHANGED <<kernelHeap, started, heapMutex, place, cut, emptied>>

-----------------------------------------------------------------------------
(* The heap of a process *)

TakeHeapMutex(t) == /\ ~kernelHeap /\ heapMutex = Nobody
            /\ heapMutex' = t

\* The header of the block is written over the free block's, link included: until the
\* list is linked again it ends here.
BeginAllocate(t, size) ==
  LET i == Min(Fits(size, 0, List))
      b == List[i]
      need == Need(size, 0, b)
  IN  /\ TakeHeapMutex(t) /\ Cardinality(held) < MaxHeld
      /\ Start
      /\ Fits(size, 0, List) # {}
      /\ free' = SubSeq(List, 1, i - 1) \o <<[at |-> b.at, size |-> need]>>
      /\ place' = [step |-> IF Splits(b, need) THEN "split" ELSE "link", index |-> i,
                   block |-> [at |-> b.at, size |-> Taken(b, need)],
                   rest |-> Remainder(b, need) \o SubSeq(List, i + 1, Len(List))]
      /\ UNCHANGED <<kernelHeap, held, cut>>

\* It throws, and the guard's destructor unlocks.
AllocateFails(t, size) ==
  /\ ~kernelHeap /\ heapMutex = Nobody
  /\ Start
  /\ Fits(size, 0, List) = {}
  /\ free' = List
  /\ UNCHANGED <<kernelHeap, held, heapMutex, place, cut>>

Goto(s) == place' = [place EXCEPT !.step = s]

\* The header of the remainder is written; its page may not be there yet.
WriteRemainder(t) ==
  /\ heapMutex = t /\ place.step = "split"
  /\ Goto("link")
  /\ UNCHANGED <<kernelHeap, started, free, held, heapMutex, cut, emptied>>

Link(t) ==
  /\ heapMutex = t /\ place.step = "link"
  /\ free' = SubSeq(free, 1, place.index - 1) \o place.rest
  /\ Goto("touch")
  /\ UNCHANGED <<kernelHeap, started, held, heapMutex, cut, emptied>>

\* Every page of the block has been read, and the caller gets it.
EndAllocate(t) ==
  /\ heapMutex = t /\ place.step = "touch"
  /\ held' = held \cup {[at |-> place.block.at, size |-> place.block.size, pad |-> 0]}
  /\ place' = Outside
  /\ heapMutex' = Nobody
  /\ UNCHANGED <<kernelHeap, started, free, cut, emptied>>

\* DMM_DeAllocate touches no page that is not there.
DeAllocate(t, p) ==
  /\ ~kernelHeap /\ heapMutex = Nobody /\ p \in held
  /\ free' = <<BlockOf(p)>> \o free
  /\ held' = held \ {p}
  /\ UNCHANGED <<kernelHeap, started, heapMutex, place, cut, emptied>>

\* The block that is left of b when its first bytes are taken away.
EndOf(b, bytes) ==
  IF b.size > bytes THEN {[at |-> b.at + bytes, size |-> b.size - bytes]} ELSE {}

\* What no list leads to if the thread stops here: the block once it is unlinked, before
\* that everything behind it.
Lost ==
  IF place.step = "touch" THEN {place.block}
  ELSE Range(place.rest) \cup EndOf(place.block, free[place.index].size)

\* The thread exits because no page is left for a page fault, or is killed: Destroy
\* unlocks heapMutex and leaves the list as it is.
DieInAllocate(t) ==
  /\ heapMutex = t
  /\ cut' = cut \cup Lost
  /\ heapMutex' = Nobody
  /\ place' = Outside
  /\ UNCHANGED <<kernelHeap, started, free, held, emptied>>

-----------------------------------------------------------------------------
HeapInit ==
  /\ kernelHeap \in BOOLEAN
  /\ started = FALSE /\ free = <<>> /\ held = {}
  /\ heapMutex = Nobody /\ place = Outside
  /\ cut = {} /\ emptied = FALSE

KernelCalls ==
  \/ \E size \in Requests, align \in Aligns : AllocateForKernel(size, align)
  \/ \E p \in held : DeAllocateForKernel(p)

ThreadSteps(t) ==
  \/ \E size \in Requests : BeginAllocate(t, size) \/ AllocateFails(t, size)
  \/ \E p \in held : DeAllocate(t, p)
  \/ WriteRemainder(t) \/ Link(t) \/ EndAllocate(t) \/ DieInAllocate(t)

\* Once the heap was started a second time, nothing more is said.
HeapNext == ~emptied /\ (KernelCalls \/ \E t \in Threads : ThreadSteps(t))

HeapSpec == HeapInit /\ [][HeapNext]_heapVars

-----------------------------------------------------------------------------
(* Properties *)

Bytes(b) == b.at .. b.at + b.size - 1

\* No byte of the heap is in two blocks that callers hold, even when threads die while
\* they allocate.
HeldAreDisjoint == \A p, q \in held : p # q => Bytes(p) \cap Bytes(q) = {}

\* Unless the list ran empty while the heap was in use, every byte is in exactly one block
\* whenever nobody is inside an allocation: a free one, one that is held, or one that a
\* dying thread left behind.  Splitting, padding and releasing in any order lose nothing
\* and free nothing twice.
Claims == {<<i, free[i]>> : i \in DOMAIN free}
          \cup {<<0, BlockOf(p)>> : p \in held}
          \cup {<<Len(free) + 1, b>> : b \in cut}
HeapTiles ==
  started /\ ~emptied /\ place.step = "out" =>
    \A byte \in 0 .. HeapSize - 1 : Cardinality({c \in Claims : byte \in Bytes(c[2])}) = 1
=============================================================================
