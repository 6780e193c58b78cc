--------------------------- MODULE Volumes_proofs ---------------------------
(***************************************************************************)
(* The frame list of a UHCI controller, for every number of ports, frames  *)
(* and blocks, and what is proved of each part of the storage for the      *)
(* specification that holds them together.                                 *)
(*                                                                         *)
(* Who has a frame: a transfer from GetNextFreeFrame to CleanFrame, then   *)
(* the queue, then the cleaner, each alone.  To keep it, the invariant     *)
(* adds which blocks each frame will free, and that a queue head that is   *)
(* built but not linked is in no frame's list yet.                         *)
(***************************************************************************)
EXTENDS Volumes, UsbDisk_proofs, FileSystem_proofs

\* Volumes has the library's cardinality twice: as its own and as that of the controller's module.
LEMMA UhciCounts == ASSUME NEW S PROVE Uhci!Cardinality(S) = Cardinality(S)
BY DEF Uhci!IsFiniteSet, IsFiniteSet, Uhci!Cardinality, Cardinality
TransferCall == [rest : Seq(Uhci!Transfer), step : {"idle", "claimed", "built", "linked"},
              frame : 0 .. NumFrames, qh : 0 .. HeapBlocks]

Shapes ==
  /\ call \in [Uhci!Port -> TransferCall]
  /\ cleaner \in [step : 0 .. 4, frame : 0 .. NumFrames]
  /\ cleaner.step \in {0, 1} <=> cleaner.frame = Uhci!NoFrame
  /\ phase \in {"identify", "configure", "driver"} => port \in Uhci!Port
  /\ IsFiniteSet(queueHeads) /\ Uhci!Room >= 0

\* A transfer has a frame from GetNextFreeFrame to CleanFrame.
CallsHold == \A p \in Uhci!Port :
  IF call[p].step = "idle" THEN call[p].frame = Uhci!NoFrame
  ELSE /\ call[p].rest # <<>> /\ call[p].frame \in Uhci!Frame
       /\ entry[call[p].frame] # Uhci!Free /\ cleaner.frame # call[p].frame

HoldAlone == \A p, q \in Uhci!Port : call[p].frame = call[q].frame /\ call[p].frame # Uhci!NoFrame => p = q

Queues ==
  /\ \A i \in DOMAIN frameQueue :
       /\ entry[frameQueue[i]][1] # 0 /\ cleaner.frame # frameQueue[i]
       /\ \A p \in Uhci!Port : call[p].frame # frameQueue[i]
  /\ \A i, j \in DOMAIN frameQueue : frameQueue[i] = frameQueue[j] => i = j

Cleaning == cleaner.step >= 2 =>
  /\ entry[cleaner.frame][1] # 0
  /\ cleaner.step = 4 => local[cleaner.frame] = {}

OwnBlocks ==
  /\ \A f \in Uhci!Frame : local[f] \subseteq queueHeads /\ (entry[f] = Uhci!Free => local[f] = {})
  /\ \A f, g \in Uhci!Frame : f # g => local[f] \cap local[g] = {}

Built == \A p \in Uhci!Port : call[p].step = "built" =>
  /\ call[p].qh \in queueHeads
  /\ \A f \in Uhci!Frame : call[p].qh \notin local[f]
  /\ \A q \in Uhci!Port : call[q].step = "built" /\ call[q].qh = call[p].qh => p = q

Steps == \A p \in Uhci!Port :
  /\ call[p].step \in {"claimed", "built"} => local[call[p].frame] = {}
  /\ call[p].step = "linked" => /\ entry[call[p].frame] = <<call[p].qh, 0>>
                                /\ local[call[p].frame] = {call[p].qh}

FramesGood == CallsHold /\ HoldAlone /\ Queues /\ Cleaning /\ OwnBlocks /\ Built /\ Steps
UhciIInv == Uhci!UhciTypeOK /\ Shapes /\ (~undefined => FramesGood)

LEMMA UhciLeast ==
  ASSUME NEW S \in SUBSET Nat, S # {}
  PROVE  Uhci!Least(S) \in S
<1> DEFINE R == {ss \in Nat \X Nat : ss[1] < ss[2]}
<1>1. IsWellFoundedOn(R, Nat)
  BY NatLessThanWellFounded DEF OpToRel
<1>2. PICK x \in S : \A y \in S : ~(<<y, x>> \in R)
  BY <1>1, WFMin
<1>3. \A y \in S : x <= y
  <2> SUFFICES ASSUME NEW y \in S PROVE x <= y
    OBVIOUS
  <2>1. ~(<<y, x>> \in R) /\ x \in Nat /\ y \in Nat
    BY <1>2
  <2> QED BY <2>1
<1> QED BY <1>3 DEF Uhci!Least

LEMMA UhciScripts ==
         /\ Uhci!Identify \in Seq(Uhci!Transfer) /\ Uhci!DoReset \in Seq(Uhci!Transfer)
         /\ Uhci!Command \in Seq(Uhci!Transfer)
         /\ Uhci!DoReset \o Uhci!Command \in Seq(Uhci!Transfer)
         /\ \A n \in DescriptorReads, set \in {<<>>, <<"SetConfiguration">>} :
              set \o Uhci!Reads(n) \in Seq(Uhci!Transfer)
<1>1. /\ Uhci!Identify \in Seq(Uhci!Transfer) /\ Uhci!DoReset \in Seq(Uhci!Transfer)
      /\ Uhci!Command \in Seq(Uhci!Transfer)
  BY DEF Uhci!Identify, Uhci!DoReset, Uhci!Command, Uhci!Transfer, Uhci!Bulk
<1>2. Uhci!DoReset \o Uhci!Command \in Seq(Uhci!Transfer)
  BY <1>1, ConcatProperties
<1>3. ASSUME NEW n \in DescriptorReads, NEW set \in {<<>>, <<"SetConfiguration">>}
      PROVE  set \o Uhci!Reads(n) \in Seq(Uhci!Transfer)
  <2>1. n \in Nat
    BY UhciAssumption
  <2>2. Uhci!Reads(n) \in Seq(Uhci!Transfer)
    BY <2>1 DEF Uhci!Reads, Uhci!Transfer
  <2>3. <<>> \in Seq(Uhci!Transfer) /\ <<"SetConfiguration">> \in Seq(Uhci!Transfer)
    BY DEF Uhci!Transfer
  <2> QED BY <2>2, <2>3, ConcatProperties
<1> QED BY <1>1, <1>2, <1>3

LEMMA IdleIsCall ==
  ASSUME NEW rest \in Seq(Uhci!Transfer)
  PROVE  Uhci!Idle(rest) \in TransferCall
BY UhciAssumption DEF Uhci!Idle, TransferCall, Uhci!NoFrame

\* What is asked of the calls, and what Throw, Begin and Use do to them.
LEMMA CallsKeep ==
  ASSUME Uhci!UhciTypeOK, Shapes, FramesGood,
         NEW p \in Uhci!Port, NEW rest \in Seq(Uhci!Transfer),
         call' = [call EXCEPT ![p] = Uhci!Idle(rest)],
         UNCHANGED <<entry, local, queueHeads, frameQueue, cleaner>>
  PROVE  FramesGood'
<1> USE DEF Shapes, FramesGood
<1>1. /\ call'[p].step = "idle" /\ call'[p].frame = Uhci!NoFrame
      /\ \A q \in Uhci!Port : q # p => call'[q] = call[q]
  BY DEF Uhci!Idle
<1>2. frameQueue \in Seq(Uhci!Frame)
  BY DEF Uhci!UhciTypeOK
<1>3. \A i \in DOMAIN frameQueue : frameQueue[i] # Uhci!NoFrame
  <2> SUFFICES ASSUME NEW i \in DOMAIN frameQueue PROVE frameQueue[i] # Uhci!NoFrame
    OBVIOUS
  <2>1. frameQueue[i] \in Uhci!Frame
    BY <1>2, ElementOfSeq
  <2> QED BY <2>1, UhciAssumption DEF Uhci!Frame, Uhci!NoFrame
<1>4. CallsHold'
  BY <1>1 DEF CallsHold
<1>5. HoldAlone'
  BY <1>1 DEF HoldAlone
<1>6. Queues'
  BY <1>1, <1>3 DEF Queues
<1>7. Cleaning' /\ OwnBlocks'
  BY DEF Cleaning, OwnBlocks
<1>8. Built'
  BY <1>1 DEF Built
<1>9. Steps'
  BY <1>1 DEF Steps
<1> QED BY <1>4, <1>5, <1>6, <1>7, <1>8, <1>9

LEMMA FramesSame ==
  ASSUME FramesGood, UNCHANGED <<call, entry, local, queueHeads, frameQueue, cleaner>>
  PROVE  FramesGood'
BY DEF FramesGood, CallsHold, HoldAlone, Queues, Cleaning, OwnBlocks, Built, Steps

LEMMA ThrowTypes ==
  ASSUME Uhci!UhciTypeOK, Shapes, NEW p \in Uhci!Port, Uhci!Throw(p)
  PROVE  /\ call' \in [Uhci!Port -> TransferCall]
         /\ phase' \in {"ports", "identify", "configure", "driver", "up", "failed", "absent"}
         /\ port' \in 1 .. NumPorts + 1 /\ disks' \subseteq Uhci!Port
         /\ phase' \in {"identify", "configure", "driver"} => port' \in Uhci!Port
         /\ call' = [call EXCEPT ![p] = Uhci!Idle(<<>>)]
<1>1. Uhci!Idle(<<>>) \in TransferCall
  <2>1. <<>> \in Seq(Uhci!Transfer)
    OBVIOUS
  <2> QED BY <2>1, IdleIsCall
<1>2. call' = [call EXCEPT ![p] = Uhci!Idle(<<>>)]
  BY DEF Uhci!Throw
<1>3. call' \in [Uhci!Port -> TransferCall]
  BY <1>1, <1>2 DEF Shapes
<1>4. CASE phase \in {"identify", "configure"}
  BY <1>2, <1>3, <1>4 DEF Uhci!Throw, Uhci!UhciTypeOK, Shapes
<1>5. CASE phase = "driver"
  <2>1. phase' = "ports" /\ port' = port + 1 /\ disks' = disks /\ port \in Uhci!Port
    BY <1>5 DEF Uhci!Throw, Shapes
  <2> QED BY <1>2, <1>3, <2>1, UhciAssumption DEF Uhci!Port, Uhci!UhciTypeOK
<1>6. CASE phase \notin {"identify", "configure", "driver"}
  BY <1>2, <1>3, <1>6 DEF Uhci!Throw, Uhci!probeVars, Uhci!UhciTypeOK, Shapes
<1> QED BY <1>4, <1>5, <1>6

-----------------------------------------------------------------------------
(* The steps of a transfer *)

LEMMA MakeBulkTDsKeeps ==
  ASSUME Uhci!UhciTypeOK, Shapes, FramesGood, NEW p \in Uhci!Port, ~undefined, Uhci!MakeBulkTDs(p)
  PROVE  Uhci!UhciTypeOK' /\ Shapes' /\ FramesGood'
<1>1. bulkTDs' \in [Uhci!Port -> SUBSET Uhci!Bulk]
  BY DEF Uhci!MakeBulkTDs, Uhci!UhciTypeOK
<1>2. UNCHANGED <<entry, local, queueHeads, frameQueue, cleaner, uses, undefined>>
  BY DEF Uhci!MakeBulkTDs
<1>3. Cardinality(queueHeads) \in Nat
  BY FS_CardinalityType DEF Shapes
<1>4. CASE Uhci!Room >= BulkTDs
  <2>1. kept' = kept + BulkTDs /\ UNCHANGED <<phase, port, disks, call>>
    BY <1>4 DEF Uhci!MakeBulkTDs, Uhci!probeVars
  <2>2. kept' \in 0 .. HeapBlocks /\ Uhci!Room' >= 0
    BY <1>2, <1>3, <1>4, <2>1, UhciAssumption, UhciCounts DEF Uhci!Room, Uhci!UhciTypeOK, Shapes
  <2>3. Uhci!UhciTypeOK' /\ Shapes'
    BY <1>1, <1>2, <2>1, <2>2 DEF Uhci!UhciTypeOK, Shapes
  <2> QED BY <1>2, <2>1, <2>3, FramesSame
<1>5. CASE ~(Uhci!Room >= BulkTDs)
  <2>1. kept' = kept + Uhci!Room /\ Uhci!Throw(p)
    BY <1>5 DEF Uhci!MakeBulkTDs
  <2>2. kept' \in 0 .. HeapBlocks /\ Uhci!Room' >= 0
    BY <1>2, <1>3, <2>1, UhciAssumption, UhciCounts DEF Uhci!Room, Uhci!UhciTypeOK, Shapes
  <2>3. /\ call' \in [Uhci!Port -> TransferCall]
        /\ phase' \in {"ports", "identify", "configure", "driver", "up", "failed", "absent"}
        /\ port' \in 1 .. NumPorts + 1 /\ disks' \subseteq Uhci!Port
        /\ phase' \in {"identify", "configure", "driver"} => port' \in Uhci!Port
        /\ call' = [call EXCEPT ![p] = Uhci!Idle(<<>>)]
    BY <2>1, ThrowTypes
  <2>4. Uhci!UhciTypeOK'
    BY <1>1, <1>2, <2>2, <2>3 DEF Uhci!UhciTypeOK, TransferCall
  <2>5. Shapes'
    BY <1>2, <2>2, <2>3 DEF Shapes
  <2>6. <<>> \in Seq(Uhci!Transfer)
    OBVIOUS
  <2> QED BY <1>2, <2>3, <2>4, <2>5, <2>6, CallsKeep
<1> QED BY <1>4, <1>5

LEMMA GetNextFreeFrameKeeps ==
  ASSUME Uhci!UhciTypeOK, Shapes, FramesGood, NEW p \in Uhci!Port, ~undefined, Uhci!GetNextFreeFrame(p)
  PROVE  Uhci!UhciTypeOK' /\ Shapes' /\ FramesGood'
<1> DEFINE free == {f \in Uhci!Frame : entry[f] = Uhci!Free}
           f0 == Uhci!Least(free)
<1>1. UNCHANGED <<local, queueHeads, kept, frameQueue, cleaner, uses, bulkTDs, undefined>>
  BY DEF Uhci!GetNextFreeFrame
<1>2. Uhci!Room' = Uhci!Room
  BY <1>1, UhciCounts DEF Uhci!Room
<1>3. CASE free = {}
  <2>1. Uhci!Throw(p) /\ entry' = entry
    BY <1>3 DEF Uhci!GetNextFreeFrame
  <2>3. /\ call' \in [Uhci!Port -> TransferCall]
        /\ phase' \in {"ports", "identify", "configure", "driver", "up", "failed", "absent"}
        /\ port' \in 1 .. NumPorts + 1 /\ disks' \subseteq Uhci!Port
        /\ phase' \in {"identify", "configure", "driver"} => port' \in Uhci!Port
        /\ call' = [call EXCEPT ![p] = Uhci!Idle(<<>>)]
    BY <2>1, ThrowTypes
  <2>4. Uhci!UhciTypeOK'
    BY <1>1, <2>1, <2>3 DEF Uhci!UhciTypeOK, TransferCall
  <2>5. Shapes'
    BY <1>1, <1>2, <2>3 DEF Shapes
  <2>6. <<>> \in Seq(Uhci!Transfer)
    OBVIOUS
  <2> QED BY <1>1, <2>1, <2>3, <2>4, <2>5, <2>6, CallsKeep
<1>4. CASE free # {}
  <2>1. f0 \in free
    <3>1. free \in SUBSET Nat
      BY UhciAssumption DEF Uhci!Frame
    <3> QED BY <1>4, <3>1, UhciLeast
  <2>2. /\ entry' = [entry EXCEPT ![f0] = Uhci!Claimed]
        /\ call' = [call EXCEPT ![p].step = "claimed", ![p].frame = f0]
        /\ UNCHANGED <<phase, port, disks>>
        /\ call[p].step = "idle" /\ call[p].rest # <<>>
    BY <1>4 DEF Uhci!GetNextFreeFrame, Uhci!probeVars, Uhci!At
  <2> DEFINE f == f0
  <2>3. f \in Uhci!Frame /\ entry[f] = Uhci!Free
    BY <2>1
  <2> HIDE DEF f, f0, free
  <2>4. /\ entry' = [entry EXCEPT ![f] = Uhci!Claimed]
        /\ call' = [call EXCEPT ![p].step = "claimed", ![p].frame = f]
    BY <2>2 DEF f
  <2>5. /\ call' \in [Uhci!Port -> TransferCall]
        /\ call'[p].step = "claimed" /\ call'[p].frame = f /\ call'[p].rest = call[p].rest
        /\ \A q \in Uhci!Port : q # p => call'[q] = call[q]
    <3>1. f \in 0 .. NumFrames
      BY <2>3, UhciAssumption DEF Uhci!Frame
    <3> QED BY <2>4, <3>1 DEF Shapes, TransferCall
  <2>6. /\ entry' \in [Uhci!Frame -> (0 .. HeapBlocks) \X {0, 1}]
        /\ entry'[f] = Uhci!Claimed
        /\ \A g \in Uhci!Frame : g # f => entry'[g] = entry[g]
    BY SMTT(40), <2>3, <2>4, UhciAssumption DEF Uhci!UhciTypeOK, Uhci!Claimed
  <2>7. Uhci!UhciTypeOK'
    BY <1>1, <2>2, <2>5, <2>6 DEF Uhci!UhciTypeOK, TransferCall
  <2>8. Shapes'
    BY <1>1, <1>2, <2>2, <2>5 DEF Shapes
  \* The frame is nobody's: it is free.
  <2>9. /\ \A q \in Uhci!Port : call[q].frame # f
        /\ \A i \in DOMAIN frameQueue : frameQueue[i] # f
        /\ cleaner.frame # f /\ local[f] = {}
    <3>1. entry[f][1] = 0
      BY <2>3 DEF Uhci!Free
    <3>2. f # Uhci!NoFrame
      BY <2>3, UhciAssumption DEF Uhci!Frame, Uhci!NoFrame
    <3>3. \A q \in Uhci!Port : call[q].frame # f
      BY <2>3, <3>2 DEF FramesGood, CallsHold
    <3>4. \A i \in DOMAIN frameQueue : frameQueue[i] # f
      BY <3>1 DEF FramesGood, Queues
    <3>5. cleaner.frame # f
      <4>1. cleaner.step \in 0 .. 4
        BY DEF Shapes
      <4>2. cleaner.frame = f => cleaner.step >= 2
        BY <3>2, <4>1 DEF Shapes
      <4> QED BY <3>1, <4>2 DEF FramesGood, Cleaning
    <3>6. local[f] = {}
      BY <2>3 DEF FramesGood, OwnBlocks
    <3> QED BY <3>3, <3>4, <3>5, <3>6
  <2>10. Uhci!Claimed # Uhci!Free
    BY DEF Uhci!Claimed, Uhci!Free
  <2>11. CallsHold'
    BY <1>1, <2>2, <2>3, <2>5, <2>6, <2>9, <2>10 DEF FramesGood, CallsHold
  <2>12. HoldAlone'
    BY <2>5, <2>9 DEF FramesGood, HoldAlone
  <2>13. Queues'
    <3>1. \A i \in DOMAIN frameQueue : frameQueue[i] \in Uhci!Frame
      BY ElementOfSeq DEF Uhci!UhciTypeOK
    <3>2. \A i \in DOMAIN frameQueue : entry'[frameQueue[i]] = entry[frameQueue[i]]
      BY <3>1, <2>6, <2>9
    <3> QED BY <1>1, <2>5, <2>9, <3>2 DEF FramesGood, Queues
  <2>14. Cleaning'
    <3>1. cleaner.step >= 2 => cleaner.frame \in Uhci!Frame
      BY UhciAssumption DEF Shapes, Uhci!NoFrame, Uhci!Frame
    <3> QED BY <1>1, <2>6, <2>9, <3>1 DEF FramesGood, Cleaning
  <2>15. OwnBlocks'
    BY <1>1, <2>6, <2>10 DEF FramesGood, OwnBlocks
  <2>16. Built'
    BY <1>1, <2>5 DEF FramesGood, Built
  <2>17. Steps'
    <3> SUFFICES ASSUME NEW q \in Uhci!Port
                 PROVE  /\ call'[q].step \in {"claimed", "built"} => local[call'[q].frame] = {}
                        /\ call'[q].step = "linked" => /\ entry'[call'[q].frame] = <<call'[q].qh, 0>>
                                                       /\ local[call'[q].frame] = {call'[q].qh}
      BY <1>1 DEF Steps
    <3>1. CASE q = p
      BY <2>5, <2>9, <3>1
    <3>2. CASE q # p
      <4>1. call'[q] = call[q] /\ call[q].frame # f
        BY <2>5, <2>9, <3>2
      <4>2. call[q].step = "linked" => entry'[call[q].frame] = entry[call[q].frame]
        BY <2>6, <4>1 DEF FramesGood, CallsHold
      <4> QED BY <4>1, <4>2 DEF FramesGood, Steps
    <3> QED BY <3>1, <3>2
  <2> QED BY <2>7, <2>8, <2>11, <2>12, <2>13, <2>14, <2>15, <2>16, <2>17 DEF FramesGood
<1> QED BY <1>3, <1>4

LEMMA BuildTransferKeeps ==
  ASSUME Uhci!UhciTypeOK, Shapes, FramesGood, NEW p \in Uhci!Port, ~undefined, Uhci!BuildTransfer(p)
  PROVE  Uhci!UhciTypeOK' /\ Shapes' /\ FramesGood'
<1> DEFINE new == Uhci!Block \ queueHeads
           qh == Uhci!Least(new)
           n == Uhci!BesidesQH[Uhci!Doing(p)]
<1>1. /\ UNCHANGED <<entry, local, frameQueue, cleaner, uses, bulkTDs, undefined>>
      /\ call[p].step = "claimed" /\ call[p].rest # <<>>
  BY DEF Uhci!BuildTransfer, Uhci!At
<1>2. Cardinality(queueHeads) \in Nat /\ queueHeads \in SUBSET Uhci!Block /\ IsFiniteSet(queueHeads)
  BY FS_CardinalityType DEF Shapes, Uhci!UhciTypeOK
<1>3. n \in Nat
  <2>1. Uhci!Doing(p) \in Uhci!Transfer
    BY <1>1 DEF Uhci!Doing, Shapes, TransferCall
  <2> QED BY <2>1 DEF Uhci!BesidesQH, Uhci!Transfer, Uhci!Bulk, Uhci!SetAddress, Uhci!GetDescriptor,
             Uhci!GetConfiguration, Uhci!SetConfiguration,
                     Uhci!CommandReset, Uhci!ClearHaltEndPoint, Uhci!BulkRead, Uhci!BulkWrite
<1>4. CASE ~(Uhci!Room > n)
  <2>1. kept' = kept + Uhci!Room /\ queueHeads' = queueHeads /\ Uhci!Throw(p)
    BY <1>4 DEF Uhci!BuildTransfer
  <2>2. kept' \in 0 .. HeapBlocks /\ Uhci!Room' >= 0
    BY <1>2, <2>1, UhciAssumption, UhciCounts DEF Uhci!Room, Uhci!UhciTypeOK, Shapes
  <2>3. /\ call' \in [Uhci!Port -> TransferCall]
        /\ phase' \in {"ports", "identify", "configure", "driver", "up", "failed", "absent"}
        /\ port' \in 1 .. NumPorts + 1 /\ disks' \subseteq Uhci!Port
        /\ phase' \in {"identify", "configure", "driver"} => port' \in Uhci!Port
        /\ call' = [call EXCEPT ![p] = Uhci!Idle(<<>>)]
    BY <2>1, ThrowTypes
  <2>4. Uhci!UhciTypeOK'
    BY <1>1, <2>1, <2>2, <2>3 DEF Uhci!UhciTypeOK, TransferCall
  <2>5. Shapes'
    BY <1>1, <2>1, <2>2, <2>3 DEF Shapes
  <2>6. <<>> \in Seq(Uhci!Transfer)
    OBVIOUS
  <2> QED BY <1>1, <2>1, <2>3, <2>4, <2>5, <2>6, CallsKeep
<1>5. CASE Uhci!Room > n
  <2>1. /\ queueHeads' = queueHeads \cup {qh}
        /\ kept' = kept + n
        /\ call' = [call EXCEPT ![p].step = "built", ![p].qh = qh]
        /\ UNCHANGED <<phase, port, disks>>
    BY <1>5 DEF Uhci!BuildTransfer, Uhci!probeVars
  <2>2. qh \in new
    <3>1. new \in SUBSET Nat
      BY UhciAssumption DEF Uhci!Block
    <3>2. new # {}
      <4>1. SUFFICES ASSUME Uhci!Block = queueHeads PROVE FALSE
        BY <1>2
      <4>2. Cardinality(1 .. HeapBlocks) = HeapBlocks
        BY FS_Interval, UhciAssumption
      <4>3. Cardinality(queueHeads) = HeapBlocks
        BY <4>1, <4>2 DEF Uhci!Block
      <4> QED BY <1>2, <1>3, <1>5, <4>3, UhciAssumption, UhciCounts DEF Uhci!Room, Uhci!UhciTypeOK
    <3> QED BY <3>1, <3>2, UhciLeast
  <2>3. qh \in Uhci!Block /\ qh \notin queueHeads
    BY <2>2
  <2> DEFINE h == qh
  <2>4. /\ queueHeads' = queueHeads \cup {h}
        /\ call' = [call EXCEPT ![p].step = "built", ![p].qh = h]
        /\ h \in Uhci!Block /\ h \notin queueHeads
    BY <2>1, <2>3
  <2> HIDE DEF h, qh, new
  <2>5. IsFiniteSet(queueHeads') /\ Cardinality(queueHeads') = Cardinality(queueHeads) + 1
    BY <1>2, <2>4, FS_AddElement
  <2>6. kept' \in 0 .. HeapBlocks /\ Uhci!Room' >= 0
    <3> HIDE DEF n
    <3>1. HeapBlocks - Cardinality(queueHeads) - kept > n
      BY <1>5, UhciCounts DEF Uhci!Room
    <3>2. kept \in 0 .. HeapBlocks /\ HeapBlocks \in Nat
      BY UhciAssumption DEF Uhci!UhciTypeOK
    <3>3. kept' \in 0 .. HeapBlocks
      BY <1>2, <1>3, <2>1, <3>1, <3>2
    <3>4. HeapBlocks - Cardinality(queueHeads') - kept' >= 0
      BY <1>2, <1>3, <2>1, <2>5, <3>1, <3>2
    <3> QED BY <3>3, <3>4, UhciCounts DEF Uhci!Room
  <2>7. /\ call' \in [Uhci!Port -> TransferCall]
        /\ call'[p].step = "built" /\ call'[p].qh = h /\ call'[p].frame = call[p].frame
        /\ call'[p].rest = call[p].rest
        /\ \A q \in Uhci!Port : q # p => call'[q] = call[q]
    <3>1. h \in 0 .. HeapBlocks
      BY <2>4, UhciAssumption DEF Uhci!Block
    <3> QED BY <2>4, <3>1 DEF Shapes, TransferCall
  <2>8. Uhci!UhciTypeOK'
    BY <1>1, <1>2, <2>1, <2>4, <2>6, <2>7 DEF Uhci!UhciTypeOK, TransferCall
  <2>9. Shapes'
    BY <1>1, <2>1, <2>5, <2>6, <2>7 DEF Shapes
  <2>10. CallsHold'
    BY <1>1, <2>7 DEF FramesGood, CallsHold
  <2>11. HoldAlone'
    BY <2>7 DEF FramesGood, HoldAlone
  <2>12. Queues'
    BY <1>1, <2>7 DEF FramesGood, Queues
  <2>13. Cleaning' /\ OwnBlocks'
    BY <1>1, <2>4 DEF FramesGood, Cleaning, OwnBlocks
  <2>14. Built'
    BY <1>1, <2>4, <2>7 DEF FramesGood, Built, OwnBlocks
  <2>15. Steps'
    BY <1>1, <2>7 DEF FramesGood, Steps
  <2> QED BY <2>8, <2>9, <2>10, <2>11, <2>12, <2>13, <2>14, <2>15 DEF FramesGood
<1> QED BY <1>4, <1>5

LEMMA SetFrameListEntryKeeps ==
  ASSUME Uhci!UhciTypeOK, Shapes, FramesGood, NEW p \in Uhci!Port, ~undefined, Uhci!SetFrameListEntry(p)
  PROVE  Uhci!UhciTypeOK' /\ Shapes' /\ FramesGood'
<1> DEFINE f == call[p].frame
           h == call[p].qh
<1>1. /\ call[p].step = "built" /\ call[p].rest # <<>>
      /\ local' = [local EXCEPT ![f] = local[f] \cup {h}]
      /\ entry' = [entry EXCEPT ![f] = <<h, 0>>]
      /\ call' = [call EXCEPT ![p].step = "linked"]
      /\ UNCHANGED <<queueHeads, kept, frameQueue, cleaner, phase, port, disks, uses, bulkTDs, undefined>>
  BY DEF Uhci!SetFrameListEntry, Uhci!At, Uhci!probeVars
<1>2. /\ f \in Uhci!Frame /\ entry[f] # Uhci!Free /\ cleaner.frame # f
      /\ h \in queueHeads /\ h \in Uhci!Block /\ local[f] = {}
      /\ \A g \in Uhci!Frame : h \notin local[g]
      /\ \A q \in Uhci!Port : call[q].step = "built" /\ call[q].qh = h => p = q
  BY <1>1 DEF FramesGood, CallsHold, Built, Steps, Uhci!UhciTypeOK
<1>3. /\ \A q \in Uhci!Port : q # p => call[q].frame # f
      /\ \A i \in DOMAIN frameQueue : frameQueue[i] # f
  BY <1>2, UhciAssumption DEF FramesGood, HoldAlone, Queues, Uhci!Frame, Uhci!NoFrame
<1>4. /\ call' \in [Uhci!Port -> TransferCall]
      /\ call'[p].step = "linked" /\ call'[p].qh = h /\ call'[p].frame = f
      /\ call'[p].rest = call[p].rest
      /\ \A q \in Uhci!Port : q # p => call'[q] = call[q]
  BY <1>1 DEF Shapes, TransferCall
<1> HIDE DEF f, h
<1>5. /\ entry' \in [Uhci!Frame -> (0 .. HeapBlocks) \X {0, 1}]
      /\ entry'[f] = <<h, 0>> /\ h # 0
      /\ \A g \in Uhci!Frame : g # f => entry'[g] = entry[g]
  <2>1. h \in 0 .. HeapBlocks /\ h # 0
    BY <1>2, UhciAssumption DEF Uhci!Block
  <2> QED BY <1>1, <1>2, <2>1 DEF Uhci!UhciTypeOK
<1>6. /\ local' \in [Uhci!Frame -> SUBSET Uhci!Block]
      /\ local'[f] = {h}
      /\ \A g \in Uhci!Frame : g # f => local'[g] = local[g]
  BY <1>1, <1>2 DEF Uhci!UhciTypeOK
<1>7. Uhci!UhciTypeOK'
  BY <1>1, <1>4, <1>5, <1>6 DEF Uhci!UhciTypeOK, TransferCall
<1>8. Shapes'
  <2>1. Uhci!Room' = Uhci!Room
    BY <1>1, UhciCounts DEF Uhci!Room
  <2> QED BY <1>1, <1>4, <2>1 DEF Shapes
<1>9. <<h, 0>> # Uhci!Free
  BY <1>5 DEF Uhci!Free
<1>10. CallsHold'
  BY <1>1, <1>2, <1>3, <1>4, <1>5, <1>9 DEF FramesGood, CallsHold
<1>11. HoldAlone'
  <2>1. \A q \in Uhci!Port : call'[q].frame = call[q].frame
    BY <1>4 DEF f
  <2> QED BY <2>1 DEF FramesGood, HoldAlone
<1>12. Queues'
  <2>1. \A i \in DOMAIN frameQueue : frameQueue[i] \in Uhci!Frame
    BY ElementOfSeq DEF Uhci!UhciTypeOK
  <2>2. \A i \in DOMAIN frameQueue : entry'[frameQueue[i]] = entry[frameQueue[i]]
    BY <2>1, <1>3, <1>5
  <2>3. \A q \in Uhci!Port : call'[q].frame = call[q].frame
    BY <1>4 DEF f
  <2> QED BY <1>1, <2>2, <2>3 DEF FramesGood, Queues
<1>13. Cleaning'
  <2>1. cleaner.step >= 2 => cleaner.frame \in Uhci!Frame
    BY UhciAssumption DEF Shapes, Uhci!NoFrame, Uhci!Frame
  <2> QED BY <1>1, <1>2, <1>5, <1>6, <2>1 DEF FramesGood, Cleaning
<1>14. OwnBlocks'
  BY <1>1, <1>2, <1>5, <1>6, <1>9 DEF FramesGood, OwnBlocks
<1>15. Built'
  <2> SUFFICES ASSUME NEW q \in Uhci!Port, call'[q].step = "built"
               PROVE  /\ call'[q].qh \in queueHeads
                      /\ \A g \in Uhci!Frame : call'[q].qh \notin local'[g]
                      /\ \A r \in Uhci!Port : call'[r].step = "built" /\ call'[r].qh = call'[q].qh => q = r
    BY <1>1 DEF Built
  <2>1. q # p /\ call'[q] = call[q]
    BY <1>4
  <2>2. call[q].qh # h
    BY <1>2, <2>1
  <2>3. \A r \in Uhci!Port : call'[r].step = "built" => call'[r] = call[r]
    BY <1>4
  <2> QED BY <1>6, <2>1, <2>2, <2>3 DEF FramesGood, Built
<1>16. Steps'
  <2> SUFFICES ASSUME NEW q \in Uhci!Port
               PROVE  /\ call'[q].step \in {"claimed", "built"} => local'[call'[q].frame] = {}
                      /\ call'[q].step = "linked" => /\ entry'[call'[q].frame] = <<call'[q].qh, 0>>
                                                     /\ local'[call'[q].frame] = {call'[q].qh}
    BY DEF Steps
  <2>1. CASE q = p
    BY <1>4, <1>5, <1>6, <2>1
  <2>2. CASE q # p
    <3>1. call'[q] = call[q] /\ call[q].frame # f
      BY <1>3, <1>4, <2>2
    <3>2. CASE call[q].step = "idle"
      BY <3>1, <3>2
    <3>3. CASE call[q].step # "idle"
      <4>1. call[q].frame \in Uhci!Frame
        BY <3>3 DEF FramesGood, CallsHold
      <4>2. /\ call[q].step \in {"claimed", "built"} => local[call[q].frame] = {}
            /\ call[q].step = "linked" => /\ entry[call[q].frame] = <<call[q].qh, 0>>
                                          /\ local[call[q].frame] = {call[q].qh}
        BY DEF FramesGood, Steps
      <4>3. entry'[call[q].frame] = entry[call[q].frame] /\ local'[call[q].frame] = local[call[q].frame]
        BY <1>5, <1>6, <3>1, <4>1
      <4> QED BY <3>1, <4>2, <4>3
    <3> QED BY <3>2, <3>3
  <2> QED BY <2>1, <2>2
<1> QED BY <1>7, <1>8, <1>10, <1>11, <1>12, <1>13, <1>14, <1>15, <1>16 DEF FramesGood

\* The frames in the queue differ from each other and from that of a transfer: there is a
\* place for one more.
LEMMA QueueHasRoom ==
  ASSUME Uhci!UhciTypeOK, FramesGood,
         NEW f \in Uhci!Frame, \A i \in DOMAIN frameQueue : frameQueue[i] # f
  PROVE  Len(frameQueue) < QueueSize
<1> DEFINE N == 1 .. Len(frameQueue)
           T == Uhci!Frame \ {f}
           g == [i \in N |-> frameQueue[i]]
<1>1. frameQueue \in Seq(Uhci!Frame) /\ Len(frameQueue) \in Nat /\ DOMAIN frameQueue = N
  BY LenProperties DEF Uhci!UhciTypeOK
<1>2. \A i \in N : frameQueue[i] \in T
  BY <1>1, ElementOfSeq
<1>3. Cardinality(N) = Len(frameQueue)
  BY <1>1, FS_Interval
<1>4. IsFiniteSet(T) /\ Cardinality(T) = NumFrames - 1
  <2>1. IsFiniteSet(Uhci!Frame) /\ Cardinality(Uhci!Frame) = NumFrames
    BY FS_Interval, UhciAssumption DEF Uhci!Frame
  <2> QED BY <2>1, FS_RemoveElement
<1>5. g \in Injection(N, T)
  <2>1. g \in [N -> T]
    BY <1>2
  <2>2. \A i, j \in N : g[i] = g[j] => i = j
    BY <1>1 DEF FramesGood, Queues
  <2> QED BY <2>1, <2>2 DEF Injection, IsInjective
<1>6. Cardinality(N) <= Cardinality(T)
  BY <1>4, <1>5, FS_Injection
<1> QED BY <1>1, <1>3, <1>4, <1>6, UhciAssumption

LEMMA CleanFrameKeeps ==
  ASSUME Uhci!UhciTypeOK, Shapes, FramesGood, NEW p \in Uhci!Port, ~undefined, Uhci!CleanFrame(p)
  PROVE  Uhci!UhciTypeOK' /\ Shapes' /\ FramesGood'
<1> DEFINE f == call[p].frame
           rest == Tail(call[p].rest)
<1>1. /\ call[p].step = "linked" /\ call[p].rest # <<>>
      /\ frameQueue' = Uhci!Queued(frameQueue, f)
      /\ call' = [call EXCEPT ![p] = Uhci!Idle(rest)]
      /\ undefined' \in BOOLEAN
      /\ UNCHANGED <<entry, local, queueHeads, kept, cleaner, phase, port, disks, uses, bulkTDs>>
  BY DEF Uhci!CleanFrame, Uhci!At, Uhci!probeVars, Uhci!frameVars
<1>2. /\ f \in Uhci!Frame /\ entry[f] = <<call[p].qh, 0>> /\ entry[f] # Uhci!Free /\ cleaner.frame # f
      /\ \A q \in Uhci!Port : q # p => call[q].frame # f
      /\ \A i \in DOMAIN frameQueue : frameQueue[i] # f
  <2>1. f \in Uhci!Frame /\ entry[f] # Uhci!Free /\ cleaner.frame # f
    BY <1>1 DEF FramesGood, CallsHold
  <2>2. entry[f] = <<call[p].qh, 0>>
    BY <1>1 DEF FramesGood, Steps
  <2>3. f # Uhci!NoFrame
    BY <2>1, UhciAssumption DEF Uhci!Frame, Uhci!NoFrame
  <2>4. \A q \in Uhci!Port : q # p => call[q].frame # f
    BY <2>3 DEF FramesGood, HoldAlone
  <2>5. \A i \in DOMAIN frameQueue : frameQueue[i] # f
    BY DEF FramesGood, Queues
  <2> QED BY <2>1, <2>2, <2>4, <2>5
<1>3. entry[f][1] # 0
  <2>1. call[p].qh \in Uhci!Block
    BY <1>1, <1>2 DEF FramesGood, Steps, Uhci!UhciTypeOK
  <2> QED BY <1>2, <2>1, UhciAssumption DEF Uhci!Block
<1>4. rest \in Seq(Uhci!Transfer)
  <2>1. call[p].rest \in Seq(Uhci!Transfer)
    BY DEF Shapes, TransferCall
  <2> QED BY <1>1, <2>1, HeadTailProperties
<1>5. /\ call' \in [Uhci!Port -> TransferCall]
      /\ call'[p].step = "idle" /\ call'[p].frame = Uhci!NoFrame
      /\ \A q \in Uhci!Port : q # p => call'[q] = call[q]
  <2>1. Uhci!Idle(rest) \in TransferCall
    BY <1>4, IdleIsCall
  <2>2. Uhci!Idle(rest).step = "idle" /\ Uhci!Idle(rest).frame = Uhci!NoFrame
    BY DEF Uhci!Idle
  <2> HIDE DEF rest
  <2> QED BY <1>1, <2>1, <2>2 DEF Shapes
<1> HIDE DEF f, rest
<1>6. \/ frameQueue' = frameQueue
      \/ Len(frameQueue) # QueueSize /\ frameQueue' = Append(frameQueue, f)
  BY <1>1 DEF Uhci!Queued
<1>7. frameQueue \in Seq(Uhci!Frame) /\ Len(frameQueue) <= QueueSize
  BY DEF Uhci!UhciTypeOK
<1>8. frameQueue' \in Seq(Uhci!Frame) /\ Len(frameQueue') <= QueueSize
  <2>1. CASE frameQueue' = frameQueue
    BY <2>1, <1>7
  <2>2. CASE Len(frameQueue) # QueueSize /\ frameQueue' = Append(frameQueue, f)
    BY <1>2, <1>7, <2>2, AppendProperties, UhciAssumption
  <2> QED BY <1>6, <2>1, <2>2
<1>9. Uhci!UhciTypeOK'
  BY <1>1, <1>5, <1>8 DEF Uhci!UhciTypeOK, TransferCall
<1>10. Shapes'
  BY <1>1, <1>5, UhciCounts DEF Shapes, Uhci!Room
<1>11. CallsHold'
  BY <1>1, <1>5 DEF FramesGood, CallsHold
<1>12. HoldAlone'
  BY <1>5 DEF FramesGood, HoldAlone
<1>13. Queues'
  <2>1. CASE frameQueue' = frameQueue
    <3>1. \A i \in DOMAIN frameQueue : frameQueue[i] # Uhci!NoFrame
      <4> SUFFICES ASSUME NEW i \in DOMAIN frameQueue PROVE frameQueue[i] # Uhci!NoFrame
        OBVIOUS
      <4>1. frameQueue[i] \in Uhci!Frame
        BY <1>7, ElementOfSeq
      <4> QED BY <4>1, UhciAssumption DEF Uhci!Frame, Uhci!NoFrame
    <3> QED BY <1>1, <1>5, <2>1, <3>1 DEF FramesGood, Queues
  <2>2. CASE frameQueue' = Append(frameQueue, f)
    <3> DEFINE n == Len(frameQueue)
    <3>1. /\ DOMAIN frameQueue = 1 .. n /\ n \in Nat
          /\ DOMAIN frameQueue' = 1 .. n + 1
          /\ frameQueue'[n + 1] = f
          /\ \A i \in 1 .. n : frameQueue'[i] = frameQueue[i] /\ frameQueue[i] \in Uhci!Frame
      BY <1>2, <1>7, <2>2, AppendProperties, LenProperties, ElementOfSeq
    <3> HIDE DEF n
    <3>2. \A i \in DOMAIN frameQueue' : i \in DOMAIN frameQueue \/ i = n + 1
      BY <3>1
    <3>3. \A i \in DOMAIN frameQueue : i # n + 1
      BY <3>1
    <3>4. \A i \in DOMAIN frameQueue : frameQueue'[i] = frameQueue[i] /\ frameQueue[i] # Uhci!NoFrame
      BY <3>1, UhciAssumption DEF Uhci!Frame, Uhci!NoFrame
    <3>5. f # Uhci!NoFrame
      BY <1>2, UhciAssumption DEF Uhci!Frame, Uhci!NoFrame
    <3>6. ASSUME NEW i \in DOMAIN frameQueue'
          PROVE  /\ entry'[frameQueue'[i]][1] # 0 /\ cleaner'.frame # frameQueue'[i]
                 /\ \A q \in Uhci!Port : call'[q].frame # frameQueue'[i]
      <4>1. CASE i = n + 1
        BY <1>1, <1>2, <1>3, <1>5, <3>1, <3>5, <4>1
      <4>2. CASE i \in DOMAIN frameQueue
        BY <1>1, <1>5, <3>4, <4>2 DEF FramesGood, Queues
      <4> QED BY <3>2, <4>1, <4>2
    <3>7. ASSUME NEW i \in DOMAIN frameQueue', NEW j \in DOMAIN frameQueue',
                 frameQueue'[i] = frameQueue'[j]
          PROVE  i = j
      <4>1. CASE i = n + 1 /\ j = n + 1
        BY <4>1
      <4>2. CASE i = n + 1 /\ j \in DOMAIN frameQueue
        BY <1>2, <3>1, <3>4, <3>7, <4>2
      <4>3. CASE i \in DOMAIN frameQueue /\ j = n + 1
        BY <1>2, <3>1, <3>4, <3>7, <4>3
      <4>4. CASE i \in DOMAIN frameQueue /\ j \in DOMAIN frameQueue
        BY <3>4, <3>7, <4>4 DEF FramesGood, Queues
      <4> QED BY <3>2, <4>1, <4>2, <4>3, <4>4
    <3> QED BY <3>6, <3>7 DEF Queues
  <2> QED BY <1>6, <2>1, <2>2
<1>14. Cleaning' /\ OwnBlocks'
  BY <1>1 DEF FramesGood, Cleaning, OwnBlocks
<1>15. Built' /\ Steps'
  BY <1>1, <1>5 DEF FramesGood, Built, Steps
<1> QED BY <1>9, <1>10, <1>11, <1>12, <1>13, <1>14, <1>15 DEF FramesGood

-----------------------------------------------------------------------------
(* The cleaner *)

LEMMA GetNextFrameToCleanKeeps ==
  ASSUME Uhci!UhciTypeOK, Shapes, FramesGood, ~undefined, Uhci!GetNextFrameToClean
  PROVE  Uhci!UhciTypeOK' /\ Shapes' /\ FramesGood'
<1>1. /\ cleaner.step \in {0, 1} /\ frameQueue # <<>> /\ cleaner.frame = Uhci!NoFrame
      /\ UNCHANGED <<entry, local, queueHeads, kept, phase, port, disks, call, uses, bulkTDs, undefined>>
  BY DEF Uhci!GetNextFrameToClean, Uhci!probeVars, Uhci!frameVars, Shapes
<1>2. frameQueue \in Seq(Uhci!Frame) /\ Len(frameQueue) <= QueueSize /\ Len(frameQueue) \in Nat
      /\ DOMAIN frameQueue = 1 .. Len(frameQueue)
  BY LenProperties DEF Uhci!UhciTypeOK
<1>3. CASE cleaner.step = 0
  <2>1. cleaner' = [cleaner EXCEPT !.step = 1] /\ frameQueue' = frameQueue
    BY <1>3 DEF Uhci!GetNextFrameToClean
  <2>2. /\ cleaner' \in [step : 0 .. 4, frame : 0 .. NumFrames]
        /\ cleaner'.step = 1 /\ cleaner'.frame = Uhci!NoFrame
    BY <1>1, <2>1 DEF Shapes
  <2>3. Uhci!UhciTypeOK' /\ Shapes'
    <3>1. Uhci!Room' = Uhci!Room
      BY <1>1, UhciCounts DEF Uhci!Room
    <3>2. cleaner'.step \in 0 .. 4 /\ cleaner'.frame \in 0 .. NumFrames
      BY <2>2
    <3> QED BY <1>1, <2>1, <2>2, <3>1, <3>2 DEF Uhci!UhciTypeOK, Shapes
  <2>4. CallsHold'
    BY <1>1, <2>2 DEF FramesGood, CallsHold
  <2>5. HoldAlone'
    BY <1>1 DEF FramesGood, HoldAlone
  <2>6. Queues'
    BY <1>1, <2>1, <2>2 DEF FramesGood, Queues
  <2>7. Cleaning'
    BY <2>2 DEF Cleaning
  <2>8. OwnBlocks' /\ Built' /\ Steps'
    BY <1>1 DEF FramesGood, OwnBlocks, Built, Steps
  <2> QED BY <2>3, <2>4, <2>5, <2>6, <2>7, <2>8 DEF FramesGood
<1>4. CASE cleaner.step # 0
  <2> DEFINE f == Head(frameQueue)
  <2>1. cleaner' = [step |-> 2, frame |-> f] /\ frameQueue' = Tail(frameQueue)
    BY <1>1, <1>4 DEF Uhci!GetNextFrameToClean
  <2>2. f = frameQueue[1] /\ 1 \in DOMAIN frameQueue /\ f \in Uhci!Frame
    BY <1>1, <1>2, HeadTailProperties, ElementOfSeq, EmptySeq
  <2>3. /\ frameQueue' \in Seq(Uhci!Frame) /\ Len(frameQueue') <= QueueSize
        /\ \A i \in DOMAIN frameQueue' : i + 1 \in DOMAIN frameQueue /\ i + 1 # 1
                                         /\ frameQueue'[i] = frameQueue[i + 1]
        /\ \A i, j \in DOMAIN frameQueue' : i + 1 = j + 1 => i = j
    <3>1. /\ Tail(frameQueue) \in Seq(Uhci!Frame) /\ Len(Tail(frameQueue)) = Len(frameQueue) - 1
          /\ \A i \in 1 .. Len(Tail(frameQueue)) : Tail(frameQueue)[i] = frameQueue[i + 1]
      BY <1>1, <1>2, HeadTailProperties
    <3>2. DOMAIN Tail(frameQueue) = 1 .. Len(Tail(frameQueue))
      BY <3>1, LenProperties
    <3> QED BY <1>1, <1>2, <2>1, <3>1, <3>2, UhciAssumption
  <2> HIDE DEF f
  <2>4. cleaner'.step = 2 /\ cleaner'.frame = f
        /\ cleaner' \in [step : 0 .. 4, frame : 0 .. NumFrames] /\ f # Uhci!NoFrame
    BY <2>1, <2>2, UhciAssumption DEF Uhci!Frame, Uhci!NoFrame
  <2>5. Uhci!UhciTypeOK'
    BY <1>1, <2>3, <2>4 DEF Uhci!UhciTypeOK
  <2>6. Shapes'
    BY <1>1, <2>4, UhciCounts DEF Shapes, Uhci!Room
  <2>7. /\ entry[f][1] # 0
        /\ \A q \in Uhci!Port : call[q].frame # f
        /\ \A i \in DOMAIN frameQueue : i # 1 => frameQueue[i] # f
    BY <2>2 DEF FramesGood, Queues
  <2>8. CallsHold'
    BY <1>1, <2>4, <2>7 DEF FramesGood, CallsHold
  <2>9. HoldAlone'
    BY <1>1 DEF FramesGood, HoldAlone
  <2>10. Queues'
    <3>1. ASSUME NEW i \in DOMAIN frameQueue'
          PROVE  /\ entry'[frameQueue'[i]][1] # 0 /\ cleaner'.frame # frameQueue'[i]
                 /\ \A q \in Uhci!Port : call'[q].frame # frameQueue'[i]
      <4>1. i + 1 \in DOMAIN frameQueue /\ i + 1 # 1 /\ frameQueue'[i] = frameQueue[i + 1]
        BY <2>3
      <4> QED BY <1>1, <2>4, <2>7, <4>1 DEF FramesGood, Queues
    <3>2. ASSUME NEW i \in DOMAIN frameQueue', NEW j \in DOMAIN frameQueue',
                 frameQueue'[i] = frameQueue'[j]
          PROVE  i = j
      <4>1. i + 1 = j + 1
        BY <2>3, <3>2 DEF FramesGood, Queues
      <4> QED BY <2>3, <4>1
    <3> QED BY <3>1, <3>2 DEF Queues
  <2>11. Cleaning'
    BY <1>1, <2>4, <2>7 DEF Cleaning
  <2>12. OwnBlocks' /\ Built' /\ Steps'
    BY <1>1 DEF FramesGood, OwnBlocks, Built, Steps
  <2> QED BY <2>5, <2>6, <2>8, <2>9, <2>10, <2>11, <2>12 DEF FramesGood
<1> QED BY <1>3, <1>4

LEMMA CleanerGoesOnKeeps ==
  ASSUME Uhci!UhciTypeOK, Shapes, FramesGood, ~undefined, Uhci!CleanerGoesOn
  PROVE  Uhci!UhciTypeOK' /\ Shapes' /\ FramesGood'
<1> DEFINE f == cleaner.frame
<1>1. /\ cleaner.step \in 2 .. 4 /\ Uhci!TimerTrigger(cleaner.step, f)
      /\ cleaner' = IF cleaner.step = 4 THEN Uhci!Asleep ELSE [cleaner EXCEPT !.step = cleaner.step + 1]
      /\ UNCHANGED <<kept, frameQueue, phase, port, disks, call, uses, bulkTDs, undefined>>
  BY DEF Uhci!CleanerGoesOn, Uhci!probeVars
<1>2. f \in Uhci!Frame /\ entry[f][1] # 0 /\ entry[f] # Uhci!Free /\ cleaner.step \in {2, 3, 4}
      /\ (cleaner.step = 4 => local[f] = {})
  <2>1. cleaner.step \in {2, 3, 4} /\ cleaner.step >= 2 /\ cleaner.step \notin {0, 1}
    BY <1>1
  <2>2. f \in Uhci!Frame
    BY <2>1, UhciAssumption DEF Shapes, Uhci!Frame, Uhci!NoFrame
  <2>3. entry[f][1] # 0
    BY <2>1 DEF FramesGood, Cleaning
  <2> QED BY <2>1, <2>2, <2>3 DEF FramesGood, Cleaning, Uhci!Free
<1>3. /\ \A q \in Uhci!Port : call[q].frame # f
      /\ \A i \in DOMAIN frameQueue : frameQueue[i] # f /\ frameQueue[i] \in Uhci!Frame
  <2>1. f # Uhci!NoFrame
    BY <1>2, UhciAssumption DEF Uhci!Frame, Uhci!NoFrame
  <2>2. \A i \in DOMAIN frameQueue : frameQueue[i] \in Uhci!Frame
    BY ElementOfSeq DEF Uhci!UhciTypeOK
  <2> QED BY <2>1, <2>2 DEF FramesGood, CallsHold, Queues
<1>4. /\ cleaner' \in [step : 0 .. 4, frame : 0 .. NumFrames]
      /\ IF cleaner.step = 4 THEN cleaner'.step = 0 /\ cleaner'.frame = Uhci!NoFrame
                             ELSE cleaner'.step = cleaner.step + 1 /\ cleaner'.frame = f
  <2>1. CASE cleaner.step = 4
    BY <1>1, <2>1, UhciAssumption DEF Uhci!Asleep, Uhci!NoFrame
  <2>2. CASE cleaner.step # 4
    BY <1>1, <1>2, <2>2 DEF Shapes
  <2> QED BY <2>1, <2>2
\* The entry of another frame, and its blocks, stay as they are.
<1>5. CASE cleaner.step = 2
  <2>1. entry' = [entry EXCEPT ![f][2] = 1] /\ UNCHANGED <<local, queueHeads>>
    BY <1>1, <1>5 DEF Uhci!TimerTrigger, Uhci!Terminate
  <2>2. /\ entry' \in [Uhci!Frame -> (0 .. HeapBlocks) \X {0, 1}] /\ entry'[f] = <<entry[f][1], 1>>
        /\ \A g \in Uhci!Frame : g # f => entry'[g] = entry[g]
    <3>1. PICK a \in 0 .. HeapBlocks, b \in {0, 1} : entry[f] = <<a, b>>
      BY <1>2 DEF Uhci!UhciTypeOK
    <3>2. [<<a, b>> EXCEPT ![2] = 1] = <<a, 1>>
      OBVIOUS
    <3>3. entry' = [entry EXCEPT ![f] = <<a, 1>>]
      BY <1>2, <2>1, <3>1, <3>2 DEF Uhci!UhciTypeOK
    <3> QED BY <1>2, <3>1, <3>3 DEF Uhci!UhciTypeOK
  <2> HIDE DEF f
  <2>3. entry'[f][1] # 0 /\ entry'[f] # Uhci!Free
    BY <1>2, <2>2 DEF Uhci!Free
  <2>4. cleaner'.step = 3 /\ cleaner'.frame = f
    BY <1>4, <1>5
  <2>5. Uhci!UhciTypeOK'
    BY <1>1, <1>4, <2>1, <2>2 DEF Uhci!UhciTypeOK
  <2>6. Shapes'
    <3>1. f # Uhci!NoFrame
      BY <1>2, UhciAssumption DEF Uhci!Frame, Uhci!NoFrame
    <3> QED BY <1>1, <1>4, <2>1, <2>4, <3>1, UhciCounts DEF Shapes, Uhci!Room
  <2>7. CallsHold'
    BY <1>1, <1>3, <2>2, <2>4 DEF FramesGood, CallsHold
  <2>8. HoldAlone'
    BY <1>1 DEF FramesGood, HoldAlone
  <2>9. Queues'
    BY <1>1, <1>3, <2>2, <2>4 DEF FramesGood, Queues
  <2>10. Cleaning'
    BY <2>3, <2>4 DEF Cleaning
  <2>11. OwnBlocks'
    BY <1>2, <2>1, <2>2, <2>3 DEF FramesGood, OwnBlocks
  <2>12. Built'
    BY <1>1, <2>1 DEF FramesGood, Built
  <2>13. Steps'
    BY <1>1, <1>3, <2>1, <2>2 DEF FramesGood, Steps, CallsHold
  <2> QED BY <2>5, <2>6, <2>7, <2>8, <2>9, <2>10, <2>11, <2>12, <2>13 DEF FramesGood
<1>6. CASE cleaner.step = 3
  <2>1. /\ queueHeads' = queueHeads \ local[f] /\ local' = [local EXCEPT ![f] = {}] /\ entry' = entry
    BY <1>1, <1>6 DEF Uhci!TimerTrigger, Uhci!ReleaseFrameResource
  <2>2. /\ local' \in [Uhci!Frame -> SUBSET Uhci!Block] /\ local'[f] = {}
        /\ \A g \in Uhci!Frame : g # f => local'[g] = local[g]
    BY <1>2, <2>1 DEF Uhci!UhciTypeOK
  <2> HIDE DEF f
  <2>3. cleaner'.step = 4 /\ cleaner'.frame = f
    BY <1>4, <1>6
  <2>4. Uhci!UhciTypeOK'
    BY <1>1, <1>4, <2>1, <2>2 DEF Uhci!UhciTypeOK
  <2>5. IsFiniteSet(queueHeads') /\ Uhci!Room' >= 0
    <3>1. queueHeads' \in SUBSET queueHeads /\ IsFiniteSet(queueHeads)
      BY <2>1 DEF Shapes
    <3>2. IsFiniteSet(queueHeads') /\ Cardinality(queueHeads') <= Cardinality(queueHeads)
      BY <3>1, FS_Subset
    <3>3. Cardinality(queueHeads) \in Nat /\ Cardinality(queueHeads') \in Nat
      BY <3>1, <3>2, FS_CardinalityType
    <3> QED BY SMTT(40), <1>1, <3>2, <3>3, UhciAssumption, UhciCounts DEF Uhci!Room, Shapes, Uhci!UhciTypeOK
  <2>6. Shapes'
    <3>1. f # Uhci!NoFrame
      BY <1>2, UhciAssumption DEF Uhci!Frame, Uhci!NoFrame
    <3> QED BY <1>1, <1>4, <2>3, <2>5, <3>1 DEF Shapes
  <2>7. CallsHold'
    BY <1>1, <1>3, <2>1, <2>3 DEF FramesGood, CallsHold
  <2>8. HoldAlone'
    BY <1>1 DEF FramesGood, HoldAlone
  <2>9. Queues'
    BY <1>1, <1>3, <2>1, <2>3 DEF FramesGood, Queues
  <2>10. Cleaning'
    BY <1>2, <2>1, <2>2, <2>3 DEF Cleaning
  <2>11. OwnBlocks'
    <3>1. \A g \in Uhci!Frame : local'[g] \subseteq queueHeads'
      BY <1>2, <2>1, <2>2 DEF FramesGood, OwnBlocks
    <3>2. \A g, h \in Uhci!Frame : g # h => local'[g] \cap local'[h] = {}
      BY <1>2, <2>2 DEF FramesGood, OwnBlocks
    <3> QED BY <2>1, <2>2, <3>1, <3>2 DEF FramesGood, OwnBlocks
  <2>12. Built'
    BY <1>1, <1>2, <2>1, <2>2 DEF FramesGood, Built
  <2>13. Steps'
    BY <1>1, <1>3, <2>1, <2>2 DEF FramesGood, Steps, CallsHold
  <2> QED BY <2>4, <2>6, <2>7, <2>8, <2>9, <2>10, <2>11, <2>12, <2>13 DEF FramesGood
<1>7. CASE cleaner.step = 4
  <2>1. entry' = [entry EXCEPT ![f] = Uhci!Free] /\ UNCHANGED <<local, queueHeads>>
    BY <1>1, <1>7 DEF Uhci!TimerTrigger, Uhci!MakeFree
  <2>2. /\ entry' \in [Uhci!Frame -> (0 .. HeapBlocks) \X {0, 1}] /\ entry'[f] = Uhci!Free
        /\ \A g \in Uhci!Frame : g # f => entry'[g] = entry[g]
    BY <1>2, <2>1, UhciAssumption DEF Uhci!UhciTypeOK, Uhci!Free
  <2>3. local[f] = {} /\ cleaner'.step = 0 /\ cleaner'.frame = Uhci!NoFrame
    BY <1>2, <1>4, <1>7
  <2> HIDE DEF f
  <2>4. Uhci!UhciTypeOK'
    BY <1>1, <1>4, <2>1, <2>2 DEF Uhci!UhciTypeOK
  <2>5. Shapes'
    BY <1>1, <1>4, <2>1, <2>3, UhciCounts DEF Shapes, Uhci!Room
  <2>6. CallsHold'
    BY <1>1, <1>3, <2>2, <2>3, UhciAssumption DEF FramesGood, CallsHold, Uhci!Frame, Uhci!NoFrame
  <2>7. HoldAlone'
    BY <1>1 DEF FramesGood, HoldAlone
  <2>8. Queues'
    BY <1>1, <1>3, <2>2, <2>3, UhciAssumption DEF FramesGood, Queues, Uhci!Frame, Uhci!NoFrame
  <2>9. Cleaning'
    BY <2>3 DEF Cleaning
  <2>10. OwnBlocks'
    BY <1>2, <2>1, <2>2, <2>3 DEF FramesGood, OwnBlocks
  <2>11. Built'
    BY <1>1, <2>1 DEF FramesGood, Built
  <2>12. Steps'
    BY <1>1, <1>3, <2>1, <2>2 DEF FramesGood, Steps, CallsHold
  <2> QED BY <2>4, <2>5, <2>6, <2>7, <2>8, <2>9, <2>10, <2>11, <2>12 DEF FramesGood
<1> QED BY <1>2, <1>5, <1>6, <1>7

-----------------------------------------------------------------------------
(* Probe and the users of its disks *)

LEMMA ScriptBegins ==
  ASSUME Uhci!UhciTypeOK, Shapes, FramesGood, NEW p \in Uhci!Port, NEW rest \in Seq(Uhci!Transfer),
         call' = [call EXCEPT ![p] = Uhci!Idle(rest)],
         UNCHANGED <<entry, local, queueHeads, kept, frameQueue, cleaner, bulkTDs>>,
         undefined' = undefined, uses' \in 0 .. MaxUses,
         phase' \in {"ports", "identify", "configure", "driver", "up", "failed", "absent"},
         port' \in 1 .. NumPorts + 1, disks' \subseteq Uhci!Port,
         phase' \in {"identify", "configure", "driver"} => port' \in Uhci!Port
  PROVE  Uhci!UhciTypeOK' /\ Shapes' /\ FramesGood'
<1>1. call' \in [Uhci!Port -> TransferCall]
  BY IdleIsCall DEF Shapes
<1>2. Uhci!UhciTypeOK'
  BY <1>1 DEF Uhci!UhciTypeOK, TransferCall
<1>3. Shapes'
  BY <1>1, UhciCounts DEF Shapes, Uhci!Room
<1> QED BY <1>2, <1>3, CallsKeep

LEMMA ProbeMovesKeep ==
  ASSUME Uhci!UhciTypeOK, Shapes, FramesGood,
         UNCHANGED <<call, entry, local, queueHeads, kept, frameQueue, cleaner, uses, bulkTDs>>,
         undefined' = undefined,
         phase' \in {"ports", "identify", "configure", "driver", "up", "failed", "absent"},
         port' \in 1 .. NumPorts + 1, disks' \subseteq Uhci!Port,
         phase' \in {"identify", "configure", "driver"} => port' \in Uhci!Port
  PROVE  Uhci!UhciTypeOK' /\ Shapes' /\ FramesGood'
<1>1. Uhci!UhciTypeOK'
  BY DEF Uhci!UhciTypeOK
<1>2. Shapes'
  BY UhciCounts DEF Shapes, Uhci!Room
<1> QED BY <1>1, <1>2, FramesSame

LEMMA ProbesKeep ==
  ASSUME Uhci!UhciTypeOK, Shapes, FramesGood, ~undefined, Uhci!Probes
  PROVE  Uhci!UhciTypeOK' /\ Shapes' /\ FramesGood'
<1> DEFINE PhaseFine == /\ phase' \in {"ports", "identify", "configure", "driver", "up", "failed", "absent"}
                        /\ port' \in 1 .. NumPorts + 1 /\ disks' \subseteq Uhci!Port
                        /\ phase' \in {"identify", "configure", "driver"} => port' \in Uhci!Port
<1>1. port \in 1 .. NumPorts + 1 /\ disks \subseteq Uhci!Port /\ NumPorts \in Nat /\ uses \in 0 .. MaxUses
      /\ Uhci!Port = 1 .. NumPorts
  BY UhciAssumption DEF Uhci!UhciTypeOK, Uhci!Port
<1>2. Uhci!ProbeFrame => /\ UNCHANGED <<entry, local, queueHeads, kept, frameQueue, cleaner, uses, bulkTDs>>
                         /\ undefined' = undefined
  BY DEF Uhci!ProbeFrame, Uhci!frameVars
<1>3. \A more \in SUBSET Uhci!Port : port \in Uhci!Port /\ Uhci!NextPort(more) => PhaseFine
  BY <1>1 DEF Uhci!NextPort
<1>4. \A ph \in {"identify", "configure", "driver",
  "absent"} : Uhci!Reaches(ph) /\ port \in Uhci!Port => PhaseFine
  BY <1>1 DEF Uhci!Reaches
<1>5. CASE Uhci!ProbeRefused
  <2>1. port \in Uhci!Port
    BY <1>1, <1>5, UhciAssumption DEF Uhci!ProbeRefused
  <2> QED BY <1>1, <1>2, <1>4, <1>5, <2>1, ProbeMovesKeep DEF Uhci!ProbeRefused
<1>6. CASE Uhci!ProbePort
  <2>1. port \in Uhci!Port
    BY <1>1, <1>6 DEF Uhci!ProbePort
  <2>2. CASE Uhci!Reaches("identify") /\ Uhci!Begin(Uhci!Identify)
    <3>1. Uhci!Identify \in Seq(Uhci!Transfer)
      BY UhciScripts
    <3>2. PhaseFine
      BY <1>4, <2>1, <2>2
    <3>3. call' = [call EXCEPT ![port] = Uhci!Idle(Uhci!Identify)]
      BY <2>2 DEF Uhci!Begin
    <3> QED BY <1>1, <1>2, <1>6, <2>1, <3>1, <3>2, <3>3, ScriptBegins DEF Uhci!ProbePort
  <2>3. CASE Uhci!NextPort({}) /\ call' = call
    <3>1. PhaseFine
      BY <1>3, <2>1, <2>3
    <3> QED BY <1>1, <1>2, <1>6, <2>3, <3>1, ProbeMovesKeep DEF Uhci!ProbePort
  <2> QED BY <1>6, <2>2, <2>3 DEF Uhci!ProbePort
<1>7. CASE Uhci!CheckConfiguration
  <2>1. port \in Uhci!Port
    BY <1>7 DEF Uhci!CheckConfiguration, Uhci!Between, Shapes
  <2>2. CASE Uhci!Throw(port)
    <3>1. <<>> \in Seq(Uhci!Transfer)
      OBVIOUS
    <3>2. PhaseFine /\ call' = [call EXCEPT ![port] = Uhci!Idle(<<>>)]
      BY <2>1, <2>2, ThrowTypes
    <3> QED BY <1>1, <1>2, <1>7, <2>1, <3>1, <3>2, ScriptBegins DEF Uhci!CheckConfiguration
  <2>3. CASE ~Uhci!Throw(port)
    <3>1. PICK n \in DescriptorReads, set \in {<<>>, <<"SetConfiguration">>} :
            Uhci!Begin(set \o Uhci!Reads(n)) /\ Uhci!Reaches("configure")
      BY <1>7, <2>3 DEF Uhci!CheckConfiguration
    <3> DEFINE s == set \o Uhci!Reads(n)
    <3>2. s \in Seq(Uhci!Transfer)
      BY UhciScripts
    <3>3. call' = [call EXCEPT ![port] = Uhci!Idle(s)]
      BY <3>1 DEF Uhci!Begin
    <3>4. PhaseFine
      BY <1>4, <2>1, <3>1
    <3> HIDE DEF s
    <3> QED BY <1>1, <1>2, <1>7, <2>1, <3>2, <3>3, <3>4, ScriptBegins DEF Uhci!CheckConfiguration
  <2> QED BY <2>2, <2>3
<1>8. CASE Uhci!FindDriver
  <2>1. port \in Uhci!Port
    BY <1>8 DEF Uhci!FindDriver, Uhci!Between, Shapes
  <2>2. CASE Uhci!Begin(Uhci!DoReset \o Uhci!Command) /\ Uhci!Reaches("driver")
    <3> DEFINE s == Uhci!DoReset \o Uhci!Command
    <3>1. s \in Seq(Uhci!Transfer)
      BY UhciScripts
    <3>2. PhaseFine
      BY <1>4, <2>1, <2>2
    <3>3. call' = [call EXCEPT ![port] = Uhci!Idle(s)]
      BY <2>2 DEF Uhci!Begin
    <3> HIDE DEF s
    <3> QED BY <1>1, <1>2, <1>8, <2>1, <3>1, <3>2, <3>3, ScriptBegins DEF Uhci!FindDriver
  <2>3. CASE Uhci!NextPort({}) /\ call' = call
    <3>1. PhaseFine
      BY <1>3, <2>1, <2>3
    <3> QED BY <1>1, <1>2, <1>8, <2>3, <3>1, ProbeMovesKeep DEF Uhci!FindDriver
  <2> QED BY <1>8, <2>2, <2>3 DEF Uhci!FindDriver
<1>9. CASE Uhci!DriverReturns
  <2>1. port \in Uhci!Port
    BY <1>9 DEF Uhci!DriverReturns, Uhci!Between, Shapes
  <2>2. PhaseFine
    BY <1>3, <1>9, <2>1 DEF Uhci!DriverReturns
  <2> QED BY <1>1, <1>2, <1>9, <2>2, ProbeMovesKeep DEF Uhci!DriverReturns
<1>10. CASE Uhci!ProbeEnds
  <2>1. /\ PhaseFine /\ frameQueue' = <<>>
        /\ UNCHANGED <<entry, local, queueHeads, kept, cleaner, call, uses, bulkTDs, undefined>>
    BY <1>1, <1>10 DEF Uhci!ProbeEnds, Uhci!Reaches, Uhci!frameVars
  <2>2. frameQueue' \in Seq(Uhci!Frame) /\ Len(frameQueue') = 0 /\ DOMAIN frameQueue' = {}
    BY <2>1
  <2>3. Uhci!UhciTypeOK'
    BY <2>1, <2>2, UhciAssumption DEF Uhci!UhciTypeOK
  <2>4. Shapes'
    BY <2>1, UhciCounts DEF Shapes, Uhci!Room
  <2>5. Queues'
    BY <2>2 DEF Queues
  <2> QED BY <2>1, <2>3, <2>4, <2>5 DEF FramesGood, CallsHold, HoldAlone, Cleaning, OwnBlocks, Built, Steps
<1> QED BY <1>5, <1>6, <1>7, <1>8, <1>9, <1>10 DEF Uhci!Probes

LEMMA UseKeeps ==
  ASSUME Uhci!UhciTypeOK, Shapes, FramesGood, ~undefined, NEW p \in Uhci!Port, Uhci!Use(p)
  PROVE  Uhci!UhciTypeOK' /\ Shapes' /\ FramesGood'
<1>1. PICK script \in {Uhci!Command, Uhci!DoReset} : call' = [call EXCEPT ![p] = Uhci!Idle(script)]
  BY DEF Uhci!Use
<1>2. script \in Seq(Uhci!Transfer)
  BY <1>1, UhciScripts
<1>3. uses' \in 0 .. MaxUses
  BY UhciAssumption DEF Uhci!Use, Uhci!UhciTypeOK
<1>4. /\ UNCHANGED <<entry, local, queueHeads, kept, frameQueue, cleaner, bulkTDs, phase, port, disks>>
      /\ undefined' = undefined
  BY DEF Uhci!Use, Uhci!frameVars, Uhci!probeVars
<1>5. /\ phase' \in {"ports", "identify", "configure", "driver", "up", "failed", "absent"}
      /\ port' \in 1 .. NumPorts + 1 /\ disks' \subseteq Uhci!Port
      /\ phase' \in {"identify", "configure", "driver"} => port' \in Uhci!Port
  BY <1>4 DEF Uhci!UhciTypeOK, Shapes
<1> QED BY <1>1, <1>2, <1>3, <1>4, <1>5, ScriptBegins

-----------------------------------------------------------------------------
(* The invariant *)

LEMMA UhciStarts ==
  ASSUME Uhci!UhciInit
  PROVE  UhciIInv
<1>1. /\ entry = [f \in Uhci!Frame |-> Uhci!Free] /\ local = [f \in Uhci!Frame |-> {}]
      /\ queueHeads = {} /\ kept \in HeldBefore /\ frameQueue = <<>> /\ cleaner = Uhci!Asleep
      /\ phase = "ports" /\ port = 1 /\ disks = {} /\ call = [p \in Uhci!Port |-> Uhci!Idle(<<>>)]
      /\ bulkTDs = [p \in Uhci!Port |-> {}] /\ uses = 0 /\ undefined = FALSE
  BY DEF Uhci!UhciInit
<1>2. call \in [Uhci!Port -> TransferCall]
  <2>1. <<>> \in Seq(Uhci!Transfer)
    OBVIOUS
  <2> QED BY <1>1, <2>1, IdleIsCall
<1>3. \A p \in Uhci!Port : call[p].step = "idle" /\ call[p].frame = Uhci!NoFrame
  BY <1>1 DEF Uhci!Idle
<1>4. Cardinality(queueHeads) = 0 /\ IsFiniteSet(queueHeads)
  BY <1>1, FS_EmptySet
<1>5. kept \in 0 .. HeapBlocks
  BY <1>1, UhciAssumption
<1>6. Uhci!UhciTypeOK
  <2>1. entry \in [Uhci!Frame -> (0 .. HeapBlocks) \X {0, 1}] /\ local \in [Uhci!Frame -> SUBSET Uhci!Block]
    BY <1>1, UhciAssumption DEF Uhci!Free
  <2>2. frameQueue \in Seq(Uhci!Frame) /\ Len(frameQueue) = 0
    BY <1>1
  <2>3. cleaner.step \in 0 .. 4 /\ cleaner.frame \in 0 .. NumFrames
    BY <1>1, UhciAssumption DEF Uhci!Asleep, Uhci!NoFrame
  <2>4. bulkTDs \in [Uhci!Port -> SUBSET Uhci!Bulk]
    BY <1>1
  <2>5. /\ frameQueue \in Seq(Uhci!Frame) /\ Len(frameQueue) <= QueueSize
        /\ port \in 1 .. NumPorts + 1 /\ uses \in 0 .. MaxUses
    BY <1>1, <2>2, UhciAssumption
  <2>7. disks \subseteq Uhci!Port /\ queueHeads \subseteq Uhci!Block
    BY <1>1
  <2>8. undefined \in BOOLEAN
    BY <1>1, Zenon
  <2>6. \A p \in Uhci!Port : /\ call[p].rest \in Seq(Uhci!Transfer)
                             /\ call[p].step \in {"idle", "claimed", "built", "linked"}
                             /\ call[p].frame \in 0 .. NumFrames /\ call[p].qh \in 0 .. HeapBlocks
    BY <1>2 DEF TransferCall
  <2> QED BY <1>1, <1>5, <2>1, <2>3, <2>4, <2>5, <2>6, <2>7, <2>8 DEF Uhci!UhciTypeOK
<1>7. Shapes
  BY <1>1, <1>2, <1>4, <1>5, UhciAssumption, UhciCounts DEF Shapes, Uhci!Asleep, Uhci!NoFrame, Uhci!Room
<1>8. DOMAIN frameQueue = {}
  BY <1>1
<1>9. FramesGood
  BY <1>1, <1>3, <1>8 DEF FramesGood, CallsHold, HoldAlone, Queues, Cleaning, OwnBlocks, Built, Steps,
     Uhci!Asleep
<1> QED BY <1>6, <1>7, <1>9 DEF UhciIInv

LEMMA UhciGoesOn ==
  ASSUME UhciIInv, Uhci!UhciNext \/ UNCHANGED Uhci!uhciVars
  PROVE  UhciIInv'
<1>1. CASE UNCHANGED Uhci!uhciVars
  <2>1. /\ UNCHANGED <<call, entry, local, queueHeads, kept, frameQueue, cleaner, uses, bulkTDs>>
        /\ UNCHANGED <<phase, port, disks, undefined>>
    BY <1>1 DEF Uhci!uhciVars, Uhci!frameVars, Uhci!probeVars
  <2>2. Uhci!UhciTypeOK' /\ Shapes'
    BY <2>1, UhciCounts DEF UhciIInv, Uhci!UhciTypeOK, Shapes, Uhci!Room
  <2> QED BY <2>1, <2>2, FramesSame DEF UhciIInv
<1>2. CASE Uhci!UhciNext
  <2>1. Uhci!UhciTypeOK /\ Shapes /\ FramesGood /\ ~undefined
    BY <1>2 DEF Uhci!UhciNext, UhciIInv
  <2>2. CASE Uhci!Cleans
    BY <2>1, <2>2, GetNextFrameToCleanKeeps, CleanerGoesOnKeeps DEF Uhci!Cleans, UhciIInv
  <2>3. CASE Uhci!Probes
    BY <2>1, <2>3, ProbesKeep DEF UhciIInv
  <2>4. ASSUME NEW p \in Uhci!Port, Uhci!Transfers(p) PROVE UhciIInv'
    BY <2>1, <2>4, MakeBulkTDsKeeps, GetNextFreeFrameKeeps, BuildTransferKeeps, SetFrameListEntryKeeps,
       CleanFrameKeeps DEF Uhci!Transfers, UhciIInv
  <2>5. ASSUME NEW p \in Uhci!Port, Uhci!Use(p) PROVE UhciIInv'
    BY <2>1, <2>5, UseKeeps DEF UhciIInv
  <2> QED BY <1>2, <2>2, <2>3, <2>4, <2>5 DEF Uhci!UhciNext
<1> QED BY <1>1, <1>2

LEMMA FewUsers ==
  ASSUME FramesGood, NEW f \in Uhci!Frame, Uhci!UhciTypeOK
  PROVE  /\ Uhci!Users(f) # {} => Uhci!Waiting(f) = {}
         /\ Cardinality(Uhci!Users(f)) \in {0, 1} /\ Cardinality(Uhci!Waiting(f)) \in {0, 1}
         /\ Uhci!Users(f) = {} => Cardinality(Uhci!Users(f)) = 0
         /\ Uhci!Waiting(f) = {} => Cardinality(Uhci!Waiting(f)) = 0
<1>1. f # Uhci!NoFrame
  BY UhciAssumption DEF Uhci!Frame, Uhci!NoFrame
<1>2. Uhci!Users(f) # {} => Uhci!Waiting(f) = {}
  BY DEF Uhci!Users, Uhci!Waiting, FramesGood, Queues
<1>3. \A p, q \in Uhci!Users(f) : p = q
  BY <1>1 DEF Uhci!Users, FramesGood, HoldAlone
<1>4. \A i, j \in Uhci!Waiting(f) : i = j
  BY DEF Uhci!Waiting, FramesGood, Queues
<1>5. ASSUME NEW S, \A x, y \in S : x = y
      PROVE  Cardinality(S) \in {0, 1} /\ (S = {} => Cardinality(S) = 0)
  <2>1. CASE S = {}
    BY <2>1, FS_EmptySet
  <2>2. CASE S # {}
    <3>1. PICK x \in S : TRUE
      BY <2>2
    <3>2. S = {x}
      BY <1>5, <3>1
    <3> QED BY <2>2, <3>2, FS_Singleton
  <2> QED BY <2>1, <2>2
<1>6. Cardinality(Uhci!Users(f)) \in {0, 1} /\ (Uhci!Users(f) = {} => Cardinality(Uhci!Users(f)) = 0)
  BY <1>3, <1>5
<1>7. Cardinality(Uhci!Waiting(f)) \in {0, 1} /\ (Uhci!Waiting(f) = {} => Cardinality(Uhci!Waiting(f)) = 0)
  BY <1>4, <1>5
<1> QED BY <1>2, <1>6, <1>7

LEMMA OneUserFollows ==
  ASSUME UhciIInv
  PROVE  Uhci!FramesHaveOneUser
<1> SUFFICES ASSUME ~undefined
             PROVE  /\ \A f \in Uhci!Frame :
                         /\ Cardinality(Uhci!Users(f)) + Cardinality(Uhci!Waiting(f)) <= 1
                         /\ Uhci!Users(f) # {} \/ Uhci!Waiting(f) # {} => entry[f] # Uhci!Free /\ cleaner.frame # f
                         /\ local[f] \subseteq queueHeads
                         /\ \A g \in Uhci!Frame \ {f} : local[f] \cap local[g] = {}
                    /\ \A p \in Uhci!Port : call[p].step = "linked" =>
                         /\ entry[call[p].frame] = <<call[p].qh, 0>>
                         /\ local[call[p].frame] = {call[p].qh}
  BY UhciCounts DEF Uhci!FramesHaveOneUser
<1>1. Uhci!UhciTypeOK /\ Shapes /\ FramesGood
  BY DEF UhciIInv
<1>2. ASSUME NEW f \in Uhci!Frame PROVE Cardinality(Uhci!Users(f)) + Cardinality(Uhci!Waiting(f)) <= 1
  BY <1>1, FewUsers
<1>3. ASSUME NEW f \in Uhci!Frame, Uhci!Users(f) # {} PROVE entry[f] # Uhci!Free /\ cleaner.frame # f
  <2>1. PICK p \in Uhci!Port : call[p].frame = f
    BY <1>3 DEF Uhci!Users
  <2>2. f # Uhci!NoFrame
    BY UhciAssumption DEF Uhci!Frame, Uhci!NoFrame
  <2> QED BY <1>1, <2>1, <2>2 DEF FramesGood, CallsHold
<1>4. ASSUME NEW f \in Uhci!Frame, Uhci!Waiting(f) # {} PROVE entry[f] # Uhci!Free /\ cleaner.frame # f
  <2>1. PICK i \in DOMAIN frameQueue : frameQueue[i] = f
    BY <1>4 DEF Uhci!Waiting
  <2> QED BY <1>1, <2>1 DEF FramesGood, Queues, Uhci!Free
<1>5. \A f \in Uhci!Frame : local[f] \subseteq queueHeads
  BY <1>1 DEF FramesGood, OwnBlocks
<1>6. \A f \in Uhci!Frame : \A g \in Uhci!Frame \ {f} : local[f] \cap local[g] = {}
  BY <1>1 DEF FramesGood, OwnBlocks
<1>7. \A p \in Uhci!Port : call[p].step = "linked" =>
        /\ entry[call[p].frame] = <<call[p].qh, 0>>
        /\ local[call[p].frame] = {call[p].qh}
  BY <1>1 DEF FramesGood, Steps
<1> QED BY <1>2, <1>3, <1>4, <1>5, <1>6, <1>7

\* A frame that a step takes out of a transfer's, the queue's or the cleaner's hands goes
\* to another of them or is free.
LEMMA FramesStayKnown ==
  ASSUME UhciIInv, Uhci!UhciNext
  PROVE  Uhci!LosesNoFrame
<1> SUFFICES ASSUME phase = "up", Uhci!Room > 1 + Uhci!GetDescriptor,
                    NEW f \in Uhci!Frame, entry'[f] # Uhci!Free, Uhci!Users(f)' = {},
                    Uhci!Waiting(f)' = {}, cleaner'.frame # f
             PROVE  f \in Uhci!Lost
  BY DEF Uhci!LosesNoFrame, Uhci!Lost
<1>1. Uhci!UhciTypeOK /\ Shapes /\ FramesGood /\ ~undefined /\ Uhci!Room > 6
  BY DEF Uhci!UhciNext, UhciIInv, Uhci!GetDescriptor
<1>2. f # Uhci!NoFrame
  BY UhciAssumption DEF Uhci!Frame, Uhci!NoFrame
<1>3. /\ \A p \in Uhci!Port : call'[p].rest # <<>> => call'[p].frame # f
      /\ \A i \in DOMAIN frameQueue' : frameQueue'[i] # f
  BY DEF Uhci!Users, Uhci!Waiting
<1> SUFFICES /\ entry[f] # Uhci!Free /\ cleaner.frame # f
             /\ \A p \in Uhci!Port : call[p].rest # <<>> => call[p].frame # f
             /\ \A i \in DOMAIN frameQueue : frameQueue[i] # f
  BY DEF Uhci!Lost, Uhci!Users, Uhci!Waiting
\* Steps of calls that have no frame.
<1>4. ASSUME NEW p \in Uhci!Port, call[p].step = "idle",
             \/ UNCHANGED call
             \/ \E rest : call' = [call EXCEPT ![p] = Uhci!Idle(rest)],
             UNCHANGED <<entry, frameQueue, cleaner>>
      PROVE  /\ entry[f] # Uhci!Free /\ cleaner.frame # f
             /\ \A q \in Uhci!Port : call[q].rest # <<>> => call[q].frame # f
             /\ \A i \in DOMAIN frameQueue : frameQueue[i] # f
  <2>1. call[p].frame = Uhci!NoFrame
    BY <1>1, <1>4 DEF FramesGood, CallsHold
  <2>2. \A q \in Uhci!Port : q # p => call'[q] = call[q]
    BY <1>1, <1>4 DEF Shapes
  <2> QED BY <1>2, <1>3, <1>4, <2>1, <2>2
<1>5. ASSUME NEW p \in Uhci!Port, call[p].rest = <<>> PROVE call[p].step = "idle"
  BY <1>1, <1>5 DEF FramesGood, CallsHold
<1>6. CASE Uhci!GetNextFrameToClean
  <2>1. /\ cleaner.step \in {0, 1} /\ frameQueue # <<>> /\ cleaner.frame = Uhci!NoFrame
        /\ UNCHANGED <<entry, call>>
    BY <1>1, <1>6 DEF Uhci!GetNextFrameToClean, Uhci!frameVars, Shapes
  <2>2. CASE cleaner.step = 0
    BY <1>2, <1>3, <1>6, <2>1, <2>2 DEF Uhci!GetNextFrameToClean
  <2>3. CASE cleaner.step # 0
    <3>1. cleaner'.frame = Head(frameQueue) /\ frameQueue' = Tail(frameQueue)
      BY <1>6, <2>3 DEF Uhci!GetNextFrameToClean
    <3>2. frameQueue \in Seq(Uhci!Frame)
      BY <1>1 DEF Uhci!UhciTypeOK
    <3>3. ASSUME NEW i \in DOMAIN frameQueue PROVE frameQueue[i] # f
      <4>1. i \in 1 .. Len(frameQueue) /\ Len(frameQueue) \in Nat
        BY <3>2, <3>3, LenProperties
      <4>2. CASE i = 1
        BY <3>1, <3>2, <2>1, <4>2, HeadTailProperties
      <4>3. CASE i # 1
        <5>1. /\ Tail(frameQueue) \in Seq(Uhci!Frame) /\ Len(Tail(frameQueue)) = Len(frameQueue) - 1
              /\ \A j \in 1 .. Len(Tail(frameQueue)) : Tail(frameQueue)[j] = frameQueue[j + 1]
          BY <2>1, <3>2, HeadTailProperties
        <5>2. i - 1 \in 1 .. Len(Tail(frameQueue)) /\ (i - 1) + 1 = i
          BY <4>1, <4>3, <5>1
        <5>3. i - 1 \in DOMAIN frameQueue' /\ frameQueue'[i - 1] = frameQueue[i]
          BY <3>1, <5>1, <5>2, LenProperties
        <5> QED BY <1>3, <5>3
      <4> QED BY <4>2, <4>3
    <3> QED BY <1>2, <1>3, <2>1, <3>3
  <2> QED BY <2>2, <2>3
<1>7. CASE Uhci!CleanerGoesOn
  <2>1. /\ cleaner.step \in 2 .. 4 /\ Uhci!TimerTrigger(cleaner.step, cleaner.frame)
        /\ cleaner' = IF cleaner.step = 4 THEN Uhci!Asleep ELSE [cleaner EXCEPT !.step = cleaner.step + 1]
        /\ UNCHANGED <<frameQueue, call>>
    BY <1>7 DEF Uhci!CleanerGoesOn
  <2>2. cleaner.frame # f
    <3>1. CASE cleaner.step = 4
      <4>1. entry' = [entry EXCEPT ![cleaner.frame] = Uhci!Free]
        BY <2>1, <3>1 DEF Uhci!TimerTrigger, Uhci!MakeFree
      <4> QED BY <1>1, <4>1 DEF Uhci!UhciTypeOK
    <3>2. CASE cleaner.step # 4
      <4>1. cleaner'.frame = cleaner.frame
        BY <1>1, <2>1, <3>2 DEF Shapes
      <4> QED BY <4>1
    <3> QED BY <3>1, <3>2
  <2>3. entry'[f] = entry[f]
    <3>1. cleaner.step \in {2, 3, 4}
      BY <2>1
    <3>2. CASE cleaner.step = 2
      BY <1>1, <2>1, <2>2, <3>2 DEF Uhci!TimerTrigger, Uhci!Terminate, Uhci!UhciTypeOK
    <3>3. CASE cleaner.step = 3
      BY <2>1, <3>3 DEF Uhci!TimerTrigger, Uhci!ReleaseFrameResource
    <3>4. CASE cleaner.step = 4
      BY <1>1, <2>1, <2>2, <3>4 DEF Uhci!TimerTrigger, Uhci!MakeFree, Uhci!UhciTypeOK
    <3> QED BY <3>1, <3>2, <3>3, <3>4
  <2> QED BY <1>3, <2>1, <2>2, <2>3
<1>8. CASE Uhci!Probes
  BY <1>8 DEF Uhci!Probes, Uhci!ProbeRefused, Uhci!ProbePort, Uhci!CheckConfiguration, Uhci!FindDriver,
     Uhci!DriverReturns, Uhci!ProbeEnds, Uhci!Between
<1>9. ASSUME NEW p \in Uhci!Port, Uhci!Use(p)
      PROVE  /\ entry[f] # Uhci!Free /\ cleaner.frame # f
             /\ \A q \in Uhci!Port : call[q].rest # <<>> => call[q].frame # f
             /\ \A i \in DOMAIN frameQueue : frameQueue[i] # f
  <2>1. call[p].step = "idle"
    BY <1>5, <1>9 DEF Uhci!Use
  <2> QED BY <1>4, <1>9, <2>1 DEF Uhci!Use, Uhci!frameVars
<1>10. ASSUME NEW p \in Uhci!Port, Uhci!MakeBulkTDs(p)
      PROVE  /\ entry[f] # Uhci!Free /\ cleaner.frame # f
             /\ \A q \in Uhci!Port : call[q].rest # <<>> => call[q].frame # f
             /\ \A i \in DOMAIN frameQueue : frameQueue[i] # f
  <2>1. UNCHANGED call \/ call' = [call EXCEPT ![p] = Uhci!Idle(<<>>)]
    BY <1>10 DEF Uhci!MakeBulkTDs, Uhci!Throw
  <2> QED BY <1>4, <1>10, <2>1 DEF Uhci!MakeBulkTDs, Uhci!At
<1>11. ASSUME NEW p \in Uhci!Port, Uhci!GetNextFreeFrame(p)
      PROVE  /\ entry[f] # Uhci!Free /\ cleaner.frame # f
             /\ \A q \in Uhci!Port : call[q].rest # <<>> => call[q].frame # f
             /\ \A i \in DOMAIN frameQueue : frameQueue[i] # f
  <2> DEFINE free == {g \in Uhci!Frame : entry[g] = Uhci!Free}
             f0 == Uhci!Least(free)
  <2>1. UNCHANGED <<frameQueue, cleaner>> /\ call[p].step = "idle" /\ call[p].rest # <<>>
    BY <1>11 DEF Uhci!GetNextFreeFrame, Uhci!At
  <2>2. CASE free = {}
    <3>1. entry' = entry /\ call' = [call EXCEPT ![p] = Uhci!Idle(<<>>)]
      BY <1>11, <2>2 DEF Uhci!GetNextFreeFrame, Uhci!Throw
    <3> QED BY <1>4, <2>1, <3>1
  <2>3. CASE free # {}
    <3>1. /\ entry' = [entry EXCEPT ![f0] = Uhci!Claimed]
          /\ call' = [call EXCEPT ![p].step = "claimed", ![p].frame = f0]
      BY <1>11, <2>3 DEF Uhci!GetNextFreeFrame
    <3> HIDE DEF f0, free
    <3>2. call'[p].rest # <<>> /\ call'[p].frame = f0 /\ \A q \in Uhci!Port : q # p => call'[q] = call[q]
      BY <1>1, <2>1, <3>1 DEF Shapes, TransferCall
    <3>3. f0 # f
      BY <1>3, <3>2
    <3>4. entry'[f] = entry[f]
      BY <1>1, <3>1, <3>3 DEF Uhci!UhciTypeOK
    <3>5. call[p].frame # f
      BY <1>1, <1>2, <2>1 DEF FramesGood, CallsHold
    <3> QED BY <1>3, <2>1, <3>2, <3>4, <3>5
  <2> QED BY <2>2, <2>3
<1>12. ASSUME NEW p \in Uhci!Port, Uhci!BuildTransfer(p)
      PROVE  /\ entry[f] # Uhci!Free /\ cleaner.frame # f
             /\ \A q \in Uhci!Port : call[q].rest # <<>> => call[q].frame # f
             /\ \A i \in DOMAIN frameQueue : frameQueue[i] # f
  <2> DEFINE n == Uhci!BesidesQH[Uhci!Doing(p)]
             h == Uhci!Least(Uhci!Block \ queueHeads)
  <2>1. call[p].rest # <<>> /\ UNCHANGED <<entry, frameQueue, cleaner>>
    BY <1>12 DEF Uhci!BuildTransfer, Uhci!At
  <2>2. n \in 0 .. 5
    <3>1. Uhci!Doing(p) \in Uhci!Transfer
      BY <1>1, <2>1 DEF Uhci!Doing, Shapes, TransferCall
    <3> QED BY <3>1 DEF Uhci!BesidesQH, Uhci!Transfer, Uhci!Bulk, Uhci!SetAddress, Uhci!GetDescriptor,
               Uhci!GetConfiguration, Uhci!SetConfiguration,
                       Uhci!CommandReset, Uhci!ClearHaltEndPoint, Uhci!BulkRead, Uhci!BulkWrite
  <2>3. Uhci!Room > n
    <3>1. Uhci!Room \in Int
      <4>1. Cardinality(queueHeads) \in Nat
        BY <1>1, FS_CardinalityType DEF Shapes
      <4> QED BY <1>1, <4>1, UhciAssumption, UhciCounts DEF Uhci!Room, Uhci!UhciTypeOK
    <3> HIDE DEF n
    <3> QED BY <1>1, <2>2, <3>1
  <2>4. call' = [call EXCEPT ![p].step = "built", ![p].qh = h]
    BY <1>12, <2>3 DEF Uhci!BuildTransfer
  <2> HIDE DEF h
  <2>5. /\ call'[p].rest = call[p].rest /\ call'[p].frame = call[p].frame
        /\ \A q \in Uhci!Port : q # p => call'[q] = call[q]
    BY <1>1, <2>4 DEF Shapes, TransferCall
  <2> QED BY <1>3, <2>1, <2>5
<1>13. ASSUME NEW p \in Uhci!Port, Uhci!SetFrameListEntry(p)
      PROVE  /\ entry[f] # Uhci!Free /\ cleaner.frame # f
             /\ \A q \in Uhci!Port : call[q].rest # <<>> => call[q].frame # f
             /\ \A i \in DOMAIN frameQueue : frameQueue[i] # f
  <2>1. /\ call[p].rest # <<>>
        /\ entry' = [entry EXCEPT ![call[p].frame] = <<call[p].qh, 0>>]
        /\ call' = [call EXCEPT ![p].step = "linked"]
        /\ UNCHANGED <<frameQueue, cleaner>>
    BY <1>13 DEF Uhci!SetFrameListEntry, Uhci!At
  <2>2. /\ call'[p].rest = call[p].rest /\ call'[p].frame = call[p].frame
        /\ \A q \in Uhci!Port : q # p => call'[q] = call[q]
    BY <1>1, <2>1 DEF Shapes, TransferCall
  <2>3. call[p].frame # f
    BY <1>3, <2>1, <2>2
  <2>4. entry'[f] = entry[f]
    BY <1>1, <2>1, <2>3 DEF Uhci!UhciTypeOK
  <2> QED BY <1>3, <2>1, <2>2, <2>4
<1>14. ASSUME NEW p \in Uhci!Port, Uhci!CleanFrame(p)
      PROVE  /\ entry[f] # Uhci!Free /\ cleaner.frame # f
             /\ \A q \in Uhci!Port : call[q].rest # <<>> => call[q].frame # f
             /\ \A i \in DOMAIN frameQueue : frameQueue[i] # f
  <2> DEFINE c == call[p].frame
  <2>1. /\ call[p].step = "linked" /\ frameQueue' = Uhci!Queued(frameQueue, c)
        /\ call' = [call EXCEPT ![p] = Uhci!Idle(Tail(call[p].rest))]
        /\ UNCHANGED <<entry, cleaner>>
    BY <1>14 DEF Uhci!CleanFrame, Uhci!At, Uhci!frameVars
  <2>2. c \in Uhci!Frame /\ \A i \in DOMAIN frameQueue : frameQueue[i] # c
    BY <1>1, <2>1 DEF FramesGood, CallsHold, Queues
  <2>3. Len(frameQueue) < QueueSize
    BY <1>1, <2>2, QueueHasRoom
  <2>4. frameQueue \in Seq(Uhci!Frame) /\ Len(frameQueue) \in Nat
    BY <1>1, LenProperties DEF Uhci!UhciTypeOK
  <2> HIDE DEF c
  <2>5. frameQueue' = Append(frameQueue, c)
    BY <2>1, <2>3, <2>4, UhciAssumption DEF Uhci!Queued
  <2>6. /\ DOMAIN frameQueue = 1 .. Len(frameQueue)
        /\ DOMAIN frameQueue' = 1 .. Len(frameQueue) + 1
        /\ frameQueue'[Len(frameQueue) + 1] = c
        /\ \A i \in 1 .. Len(frameQueue) : frameQueue'[i] = frameQueue[i]
    BY <2>2, <2>4, <2>5, AppendProperties, LenProperties
  <2>7. c # f /\ \A i \in DOMAIN frameQueue : frameQueue[i] # f
    <3>1. Len(frameQueue) + 1 \in DOMAIN frameQueue'
      BY <2>4, <2>6
    <3>2. \A i \in DOMAIN frameQueue : i \in DOMAIN frameQueue' /\ frameQueue'[i] = frameQueue[i]
      BY <2>4, <2>6
    <3> QED BY <1>3, <2>6, <3>1, <3>2
  <2>8. \A q \in Uhci!Port : q # p => call'[q] = call[q]
    BY <1>1, <2>1 DEF Shapes
  <2> QED BY <1>3, <2>1, <2>7, <2>8 DEF c
<1> QED BY <1>6, <1>7, <1>8, <1>9, <1>10, <1>11, <1>12, <1>13, <1>14
           DEF Uhci!UhciNext, Uhci!Cleans, Uhci!Transfers
-----------------------------------------------------------------------------
(* The parts together *)

LEMMA UhciTuples == UNCHANGED uhciVars <=> UNCHANGED Uhci!uhciVars
BY DEF uhciVars, Uhci!uhciVars, Uhci!frameVars, Uhci!probeVars

LEMMA PartsGoOn ==
  ASSUME [VolumesNext]_volumesVars
  PROVE  [Next]_vars /\ [UsbNext]_usbVars /\ [Uhci!UhciNext]_Uhci!uhciVars /\ volumePart' = volumePart
<1>1. CASE volumePart = "table" /\ Next /\ UNCHANGED <<usbVars, uhciVars, volumePart>>
  BY <1>1, UhciTuples
<1>2. CASE volumePart = "usb" /\ UsbNext /\ UNCHANGED <<vars, uhciVars, volumePart>>
  BY <1>2, UhciTuples
<1>3. CASE volumePart = "uhci" /\ Uhci!UhciNext /\ UNCHANGED <<vars, usbVars, volumePart>>
  BY <1>3
<1>4. CASE UNCHANGED volumesVars
  BY <1>4, UhciTuples DEF volumesVars
<1> QED BY <1>1, <1>2, <1>3, <1>4 DEF VolumesNext

\* The table of a file system, the USB disk and the frame list each behave as their own
\* specification says: what is proved of one of them holds of the storage as a whole.
THEOREM StorageBehaves == VolumesSpec => Spec /\ UsbSpec /\ Uhci!UhciSpec
<1>1. VolumesInit => Init /\ UsbInit /\ Uhci!UhciInit
  BY DEF VolumesInit
<1>2. [VolumesNext]_volumesVars => [Next]_vars /\ [UsbNext]_usbVars /\ [Uhci!UhciNext]_Uhci!uhciVars
  BY PartsGoOn
<1> QED BY <1>1, <1>2, PTL DEF VolumesSpec, Spec, UsbSpec, Uhci!UhciSpec

VolumesIInv == ChainsIInv /\ UsbIInv /\ UhciIInv /\ volumePart \in {"table", "usb", "uhci"}

LEMMA VolumesStart == VolumesInit => VolumesIInv
BY ChainsInit, UsbStarts, UhciStarts DEF VolumesInit, VolumesIInv

LEMMA VolumesGoOn == VolumesIInv /\ [VolumesNext]_volumesVars => VolumesIInv'
<1> SUFFICES ASSUME VolumesIInv, [VolumesNext]_volumesVars PROVE VolumesIInv'
  OBVIOUS
<1>1. [Next]_vars /\ [UsbNext]_usbVars /\ [Uhci!UhciNext]_Uhci!uhciVars /\ volumePart' = volumePart
  BY PartsGoOn
<1>2. ChainsIInv /\ UsbIInv /\ UhciIInv /\ volumePart \in {"table", "usb", "uhci"}
  BY DEF VolumesIInv
<1>3. ChainsIInv'
  BY <1>1, <1>2, ChainsStep
<1>4. UsbIInv'
  BY <1>1, <1>2, UsbGoesOn
<1>5. UhciIInv'
  BY <1>1, <1>2, UhciGoesOn
<1> QED BY <1>1, <1>2, <1>3, <1>4, <1>5 DEF VolumesIInv

\* The steps of the table, of the USB disk and of the controller keep their types.
THEOREM VolumesTypes == VolumesSpec => []VolumesTypeOK
<1>1. VolumesIInv => VolumesTypeOK
  BY UsbTypesGive DEF VolumesIInv, VolumesTypeOK, ChainsIInv, UsbIInv, UhciIInv
<1> QED BY <1>1, VolumesStart, VolumesGoOn, PTL DEF VolumesSpec

\* A transfer has its frame to itself from GetNextFreeFrame until CleanFrame, the frame is not
\* free while it waits in _frameQueue, the queue has each frame once, and a queue head is in the
\* list of one frame only: CleanFrame frees no block that a transfer still uses.
THEOREM OneUserEach == VolumesSpec => []FramesHaveOneUser
<1>1. VolumesIInv => FramesHaveOneUser
  BY OneUserFollows DEF VolumesIInv, FramesHaveOneUser
<1> QED BY <1>1, VolumesStart, VolumesGoOn, PTL DEF VolumesSpec

\* TimerTrigger gives every frame back that it takes off the queue, and no transfer drops its
\* frame without queueing it, unless the heap is full.
THEOREM NoFrameIsLost == VolumesSpec => FramesAreNotLost
<1>1. VolumesIInv /\ [VolumesNext]_volumesVars => [volumePart = "uhci" => Uhci!LosesNoFrame]_volumesVars
  <2> SUFFICES ASSUME VolumesIInv, [VolumesNext]_volumesVars, volumesVars' # volumesVars, volumePart = "uhci"
               PROVE  Uhci!LosesNoFrame
    OBVIOUS
  <2>1. Uhci!UhciNext
    BY DEF VolumesNext
  <2> QED BY <2>1, FramesStayKnown DEF VolumesIInv
<1> QED BY <1>1, VolumesStart, VolumesGoOn, PTL DEF VolumesSpec, FramesAreNotLost
=============================================================================
