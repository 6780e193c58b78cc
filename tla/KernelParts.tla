---------------------------- MODULE KernelParts ----------------------------
(***************************************************************************)
(* The parts of the kernel below the processes that share no state: waits, *)
(* the heaps, the pages and the descriptor tables.  A behaviour is one of  *)
(* one part, while the others stay at their initial states.  The pages are *)
(* three: several processes, one process beside kernel stacks, both with   *)
(* fewer pages, and one process whose threads meet page faults.            *)
(***************************************************************************)
EXTENDS Waits, Heap, Pages, Descriptors

VARIABLE part

kernelVars == <<vars, heapVars, pagesVars, descriptorVars, part>>

KernelTypeOK ==
  /\ TypeOK /\ HeapTypeOK /\ PagesTypeOK /\ DescriptorsTypeOK
  /\ part \in {"waits", "heap", "pages", "stacks", "faults", "descriptors"}

KernelInit ==
  /\ part \in {"waits", "heap", "pages", "stacks", "faults", "descriptors"}
  /\ Init /\ HeapInit /\ PagesInit /\ DescriptorsInit
  /\ part # "heap" => kernelHeap
  /\ part \in {"pages", "stacks"} <=> unreachable # {}

KernelNext ==
  \/ /\ part = "waits" /\ Next
     /\ UNCHANGED <<heapVars, pagesVars, descriptorVars, part>>
  \/ /\ part = "heap" /\ HeapNext
     /\ UNCHANGED <<vars, pagesVars, descriptorVars, part>>
  \/ /\ PagesNext
     /\ \/ part = "pages" /\ fault' = fault /\ stackBlock' = stackBlock
        \/ part = "stacks" /\ fault' = fault /\ created' <= 1
        \/ part = "faults" /\ stackBlock' = stackBlock /\ created' <= 1
     /\ UNCHANGED <<vars, heapVars, descriptorVars, part>>
  \/ /\ part = "descriptors" /\ DescriptorsNext
     /\ UNCHANGED <<vars, heapVars, pagesVars, part>>

KernelSpec == KernelInit /\ [][KernelNext]_kernelVars
=============================================================================
