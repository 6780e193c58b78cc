----------------------------- MODULE UhciFrames -----------------------------
(***************************************************************************)
(* The frame list of a UHCI controller.  A transfer claims the first free  *)
(* frame, allocates a queue head and its descriptors, links the queue head *)
(* into the frame and, when it is over, queues the frame for a timed task  *)
(* that unlinks it, frees what was recorded for it and makes the frame     *)
(* free again.  Probe enumerates the ports before that task exists, with   *)
(* the exceptions the device and its driver can throw on the way.          *)
(*                                                                         *)
(* The descriptors are never linked into the queue head (SetQHAttribute    *)
(* has no case for that link): PollWait finds the end of the list at once, *)
(* what a device says is whatever was in the buffer, and only the queue    *)
(* head is recorded; the other blocks of a transfer are never freed.       *)
(***************************************************************************)
EXTENDS Integers, Sequences, FiniteSets

CONSTANTS
  NumPorts,       \* the ports of the root hub; a port's device has one caller at a time
  NumFrames,      \* entries of the frame list
  QueueSize,      \* capacity of _frameQueue
  HeapBlocks,     \* bound on the blocks of the kernel heap
  BulkTDs,        \* MAX_UHCI_TD_PER_BULK_RW
  DescriptorReads,\* how many descriptors a device is asked for after its configuration
  HeldBefore,     \* how many blocks others hold when Probe begins
  MaxUses         \* bound on the calls of the disks

VARIABLES
  entry,      \* _pFrameList: <<queue head, terminate bit>>
  local,      \* _pLocalFrameList: the blocks to free with each frame
  queueHeads, \* the queue heads allocated
  kept,       \* blocks of the heap that nobody will free
  frameQueue, \* _frameQueue
  cleaner,    \* the timed task: which of its steps is next, and its frame
  phase,      \* where Probe is
  port,       \* the port it is at
  disks,      \* the ports with a disk
  call,       \* the transfers on each port's device
  uses,       \* how often the disks were used so far
  bulkTDs,    \* the directions each device has its descriptors for, _ppBulkReadTDs and _ppBulkWriteTDs
  undefined   \* whether the behaviour is undefined from here on

frameVars == <<entry, local, queueHeads, kept>>
probeVars == <<phase, port, disks>>
uhciVars == <<frameVars, frameQueue, cleaner, probeVars, call, uses, bulkTDs, undefined>>

Port == 1 .. NumPorts
Frame == 1 .. NumFrames
Block == 1 .. HeapBlocks
NoFrame == 0
Free == <<0, 1>>
Claimed == <<0, 0>>

Bulk == {"BulkRead", "BulkWrite"}
Transfer == Bulk \cup {"SetAddress", "GetDescriptor", "GetConfiguration", "SetConfiguration",
                       "CommandReset", "ClearHaltEndPoint"}

\* What a transfer allocates besides its queue head: descriptors, request and buffer.
SetAddress == 3
GetDescriptor == 5
GetConfiguration == 5
SetConfiguration == 3
CommandReset == 3
ClearHaltEndPoint == 3
BulkRead == 0    \* its descriptors are allocated once and for all
BulkWrite == 0

BesidesQH == [SetAddress |-> SetAddress, GetDescriptor |-> GetDescriptor,
              GetConfiguration |-> GetConfiguration, SetConfiguration |-> SetConfiguration,
              CommandReset |-> CommandReset, ClearHaltEndPoint |-> ClearHaltEndPoint,
              BulkRead |-> BulkRead, BulkWrite |-> BulkWrite]

Idle(rest) == [rest |-> rest, step |-> "idle", frame |-> NoFrame, qh |-> 0]
Asleep == [step |-> 0, frame |-> NoFrame]

UhciTypeOK ==
  /\ entry \in [Frame -> (0 .. HeapBlocks) \X {0, 1}]
  /\ local \in [Frame -> SUBSET Block] /\ queueHeads \subseteq Block /\ kept \in 0 .. HeapBlocks
  /\ frameQueue \in Seq(Frame) /\ Len(frameQueue) <= QueueSize
  /\ cleaner.step \in 0 .. 4 /\ cleaner.frame \in 0 .. NumFrames
  /\ phase \in {"ports", "identify", "configure", "driver", "up", "failed", "absent"}
  /\ port \in 1 .. NumPorts + 1 /\ disks \subseteq Port
  /\ \A p \in Port : /\ call[p].rest \in Seq(Transfer)
                     /\ call[p].step \in {"idle", "claimed", "built", "linked"}
                     /\ call[p].frame \in 0 .. NumFrames /\ call[p].qh \in 0 .. HeapBlocks
  /\ bulkTDs \in [Port -> SUBSET Bulk]
  /\ uses \in 0 .. MaxUses /\ undefined \in BOOLEAN

-----------------------------------------------------------------------------
(* One transfer *)

Least(S) == CHOOSE x \in S : \A y \in S : x <= y
Room == HeapBlocks - Cardinality(queueHeads) - kept
At(p, step) == call[p].step = step /\ call[p].rest # <<>>
Doing(p) == Head(call[p].rest)

\* An exception ends the rest of what the caller was doing.  In Probe nobody catches it
\* while the device is made; FindDriver catches what the driver throws.
Throw(p) ==
  /\ call' = [call EXCEPT ![p] = Idle(<<>>)]
  /\ CASE phase \in {"identify", "configure"} -> phase' = "failed" /\ UNCHANGED <<port, disks>>
       [] phase = "driver" -> phase' = "ports" /\ port' = port + 1 /\ disks' = disks
       [] OTHER -> UNCHANGED probeVars

\* The first bulk transfer in a direction allocates; a device for which that fails is not
\* used again.
MakeBulkTDs(p) ==
  /\ At(p, "idle") /\ Doing(p) \in Bulk \ bulkTDs[p]
  /\ bulkTDs' = [bulkTDs EXCEPT ![p] = @ \cup {Doing(p)}]
  /\ IF Room >= BulkTDs THEN kept' = kept + BulkTDs /\ UNCHANGED <<probeVars, call>>
                        ELSE kept' = kept + Room /\ Throw(p)
  /\ UNCHANGED <<entry, local, queueHeads, frameQueue, cleaner, uses, undefined>>

\* The frame queue is taken from under the lock that also guards the search.
GetNextFreeFrame(p) ==
  LET free == {f \in Frame : entry[f] = Free}
  IN  /\ At(p, "idle") /\ cleaner.step # 1
      /\ Doing(p) \notin Bulk \ bulkTDs[p]
      /\ IF free = {} THEN Throw(p) /\ entry' = entry
         ELSE /\ entry' = [entry EXCEPT ![Least(free)] = Claimed]
              /\ call' = [call EXCEPT ![p].step = "claimed", ![p].frame = Least(free)]
              /\ UNCHANGED probeVars
      /\ UNCHANGED <<local, queueHeads, kept, frameQueue, cleaner, uses, bulkTDs, undefined>>

\* A transfer that cannot have all its blocks leaves the frame claimed, and keeps those it has.
BuildTransfer(p) ==
  LET qh == Least(Block \ queueHeads)
  IN  /\ At(p, "claimed")
      /\ IF Room > BesidesQH[Doing(p)]
           THEN /\ queueHeads' = queueHeads \cup {qh}
                /\ kept' = kept + BesidesQH[Doing(p)]
                /\ call' = [call EXCEPT ![p].step = "built", ![p].qh = qh]
                /\ UNCHANGED probeVars
           ELSE /\ kept' = kept + Room /\ queueHeads' = queueHeads
                /\ Throw(p)
      /\ UNCHANGED <<entry, local, frameQueue, cleaner, uses, bulkTDs, undefined>>

\* BuildFrameEntryForDeAlloc finds the queue head and, after it, the end of the list.
SetFrameListEntry(p) ==
  LET f == call[p].frame
  IN  /\ At(p, "built")
      /\ local' = [local EXCEPT ![f] = @ \cup {call[p].qh}]
      /\ entry' = [entry EXCEPT ![f] = <<call[p].qh, 0>>]
      /\ call' = [call EXCEPT ![p].step = "linked"]
      /\ UNCHANGED <<queueHeads, kept, frameQueue, cleaner, probeVars, uses, bulkTDs, undefined>>

\* Mutation of Queued: one frame waits for the task at a time.
QueuedAlone(q, f) == IF q # <<>> THEN q ELSE <<f>>

\* A frame the queue has no place for is not cleaned.
Queued(q, f) == IF Len(q) = QueueSize THEN q ELSE Append(q, f)

\* PollWait has returned.  The lock of the push is not that of the pop: in the middle of a
\* pop it finds the queue in pieces.
CleanFrame(p) ==
  /\ At(p, "linked")
  /\ frameQueue' = Queued(frameQueue, call[p].frame)
  /\ undefined' = (cleaner.step = 1)
  /\ call' = [call EXCEPT ![p] = Idle(Tail(@.rest))]
  /\ UNCHANGED <<frameVars, cleaner, probeVars, uses, bulkTDs>>

-----------------------------------------------------------------------------
(* TimerTrigger, every 100 ms *)

Terminate(f) == entry' = [entry EXCEPT ![f][2] = 1] /\ UNCHANGED <<local, queueHeads>>
ReleaseFrameResource(f) ==
  /\ queueHeads' = queueHeads \ local[f]
  /\ local' = [local EXCEPT ![f] = {}]
  /\ entry' = entry
MakeFree(f) == entry' = [entry EXCEPT ![f] = Free] /\ UNCHANGED <<local, queueHeads>>

\* Mutation of TimerTrigger: the frame is free before its resources are.
TimerTriggerFreesFirst(step, f) ==
  CASE step = 2 -> Terminate(f) [] step = 3 -> MakeFree(f) [] step = 4 -> ReleaseFrameResource(f)

TimerTrigger(step, f) ==
  CASE step = 2 -> Terminate(f) [] step = 3 -> ReleaseFrameResource(f) [] step = 4 -> MakeFree(f)

\* GetNextFrameToClean, up to its pop and from there on.
GetNextFrameToClean ==
  /\ phase = "up" /\ cleaner.step \in {0, 1} /\ frameQueue # <<>>
  /\ IF cleaner.step = 0
       THEN cleaner' = [cleaner EXCEPT !.step = 1] /\ frameQueue' = frameQueue
       ELSE cleaner' = [step |-> 2, frame |-> Head(frameQueue)] /\ frameQueue' = Tail(frameQueue)
  /\ UNCHANGED <<frameVars, probeVars, call, uses, bulkTDs, undefined>>

CleanerGoesOn ==
  /\ cleaner.step \in 2 .. 4
  /\ TimerTrigger(cleaner.step, cleaner.frame)
  /\ cleaner' = IF cleaner.step = 4 THEN Asleep ELSE [cleaner EXCEPT !.step = @ + 1]
  /\ UNCHANGED <<kept, frameQueue, probeVars, call, uses, bulkTDs, undefined>>

-----------------------------------------------------------------------------
(* Probe *)

Identify == <<"SetAddress", "GetDescriptor", "GetDescriptor", "GetConfiguration">>
Reads(n) == [i \in 1 .. n |-> "GetDescriptor"]
DoReset == <<"CommandReset", "ClearHaltEndPoint", "ClearHaltEndPoint">>
Command == <<"BulkWrite", "BulkRead">>

Begin(script) == call' = [call EXCEPT ![port] = Idle(script)]
Between(ph) == phase = ph /\ call[port].rest = <<>>
Reaches(ph) == phase' = ph /\ UNCHANGED <<port, disks>>
NextPort(more) == phase' = "ports" /\ port' = port + 1 /\ disks' = disks \cup more
ProbeFrame == UNCHANGED <<frameVars, frameQueue, cleaner, uses, bulkTDs, undefined>>

\* The interrupt is taken, or the controller does not come up.
ProbeRefused == phase = "ports" /\ port = 1 /\ Reaches("absent") /\ call' = call /\ ProbeFrame

ProbePort ==
  /\ phase = "ports" /\ port <= NumPorts
  /\ \/ Reaches("identify") /\ Begin(Identify)
     \/ NextPort({}) /\ call' = call
  /\ ProbeFrame

\* A device may claim any number of configurations, and any of them to be the current one.
CheckConfiguration ==
  /\ Between("identify")
  /\ \/ Throw(port)
     \/ \E n \in DescriptorReads, set \in {<<>>, <<"SetConfiguration">>} :
          Begin(set \o Reads(n)) /\ Reaches("configure")
  /\ ProbeFrame

\* FindDriver: the interface is any, or none that a driver is for.
FindDriver ==
  /\ Between("configure")
  /\ \/ Begin(DoReset \o Command) /\ Reaches("driver")
     \/ NextPort({}) /\ call' = call
  /\ ProbeFrame

DriverReturns ==
  /\ Between("driver")
  /\ \E more \in {{}, {port}} : NextPort(more)
  /\ call' = call /\ ProbeFrame

\* What was queued so far will never be cleaned.
ProbeEnds ==
  /\ phase = "ports" /\ port > NumPorts
  /\ Reaches("up") /\ frameQueue' = <<>>
  /\ UNCHANGED <<frameVars, cleaner, call, uses, bulkTDs, undefined>>

-----------------------------------------------------------------------------
\* The disks that were found are used, be it without the task.
Use(p) ==
  /\ phase \in {"up", "failed"} /\ p \in disks /\ call[p].rest = <<>>
  /\ uses < MaxUses /\ uses' = uses + 1
  /\ \E script \in {Command, DoReset} : call' = [call EXCEPT ![p] = Idle(script)]
  /\ UNCHANGED <<frameVars, frameQueue, cleaner, probeVars, bulkTDs, undefined>>

UhciInit ==
  /\ entry = [f \in Frame |-> Free] /\ local = [f \in Frame |-> {}]
  /\ queueHeads = {} /\ kept \in HeldBefore
  /\ frameQueue = <<>> /\ cleaner = Asleep
  /\ phase = "ports" /\ port = 1 /\ disks = {}
  /\ call = [p \in Port |-> Idle(<<>>)]
  /\ bulkTDs = [p \in Port |-> {}]
  /\ uses = 0 /\ undefined = FALSE

Transfers(p) == \/ MakeBulkTDs(p) \/ GetNextFreeFrame(p) \/ BuildTransfer(p)
                \/ SetFrameListEntry(p) \/ CleanFrame(p)
Probes == \/ ProbeRefused \/ ProbePort \/ CheckConfiguration \/ FindDriver \/ DriverReturns \/ ProbeEnds
Cleans == GetNextFrameToClean \/ CleanerGoesOn

UhciNext == ~undefined /\ (Cleans \/ Probes \/ \E p \in Port : Transfers(p) \/ Use(p))
UhciSpec == UhciInit /\ [][UhciNext]_uhciVars

-----------------------------------------------------------------------------
(* Properties *)

Users(f) == {p \in Port : call[p].rest # <<>> /\ call[p].frame = f}
Waiting(f) == {i \in DOMAIN frameQueue : frameQueue[i] = f}

Lost == {f \in Frame : /\ entry[f] # Free /\ Users(f) = {} /\ Waiting(f) = {}
                       /\ cleaner.frame # f}

\* A frame is free, with one transfer, once in the queue or with the task, never two of
\* these; a transfer in progress is linked in its frame with a queue head of its own that
\* is allocated, and what will be freed with a frame is allocated and is no other frame's.
FramesHaveOneUser == ~undefined =>
  /\ \A f \in Frame :
       /\ Cardinality(Users(f)) + Cardinality(Waiting(f)) <= 1
       /\ Users(f) # {} \/ Waiting(f) # {} => entry[f] # Free /\ cleaner.frame # f
       /\ local[f] \subseteq queueHeads
       /\ \A g \in Frame \ {f} : local[f] \cap local[g] = {}
  /\ \A p \in Port : call[p].step = "linked" =>
       /\ entry[call[p].frame] = <<call[p].qh, 0>>
       /\ local[call[p].frame] = {call[p].qh}

\* Once the task is there, no frame is lost but by a transfer that finds the heap full.
LosesNoFrame == phase = "up" /\ Room > 1 + GetDescriptor /\ ~undefined' => Lost' \subseteq Lost
FramesAreNotLost == [][LosesNoFrame]_uhciVars
=============================================================================
