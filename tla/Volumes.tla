------------------------------ MODULE Volumes ------------------------------
(***************************************************************************)
(* Parts of the storage that share no state here: the sector table of a    *)
(* file system, a USB disk, and the frame list of a UHCI controller.  A    *)
(* behaviour is one of one part, while the others stay at an initial       *)
(* state.                                                                  *)
(***************************************************************************)
EXTENDS FileSystem, UsbDisk

CONSTANTS NumPorts, NumFrames, QueueSize, HeapBlocks, BulkTDs, DescriptorReads, HeldBefore, MaxUses

\* The frame list and _frameQueue are both made for 1024 frames.
ASSUME UhciAssumption == /\ NumPorts \in Nat \ {0} /\ NumFrames \in Nat \ {0} /\ HeapBlocks \in Nat
                         /\ QueueSize \in Nat /\ BulkTDs \in Nat /\ DescriptorReads \subseteq Nat
                         /\ HeldBefore \subseteq 0 .. HeapBlocks /\ MaxUses \in Nat
                         /\ QueueSize >= NumFrames

VARIABLES entry, local, queueHeads, kept, frameQueue, cleaner, phase, port, disks, call, uses, bulkTDs, undefined

VARIABLE volumePart

Uhci == INSTANCE UhciFrames

uhciVars == <<entry, local, queueHeads, kept, frameQueue, cleaner, phase, port, disks, call, uses, bulkTDs, undefined>>
volumesVars == <<vars, usbVars, uhciVars, volumePart>>

VolumesTypeOK == /\ TypeOK /\ UsbTypeOK /\ (volumePart = "uhci" => Uhci!UhciTypeOK)
                 /\ volumePart \in {"table", "usb", "uhci"}

VolumesInit ==
  /\ volumePart \in {"table", "usb", "uhci"}
  /\ Init /\ UsbInit /\ Uhci!UhciInit
  /\ volumePart # "usb" => controller = "uhci"
  /\ volumePart # "uhci" => kept = CHOOSE n \in HeldBefore : TRUE

VolumesNext ==
  \/ volumePart = "table" /\ Next /\ UNCHANGED <<usbVars, uhciVars, volumePart>>
  \/ volumePart = "usb" /\ UsbNext /\ UNCHANGED <<vars, uhciVars, volumePart>>
  \/ volumePart = "uhci" /\ Uhci!UhciNext /\ UNCHANGED <<vars, usbVars, volumePart>>

VolumesSpec == VolumesInit /\ [][VolumesNext]_volumesVars

-----------------------------------------------------------------------------
\* A UHCI frame has one user at a time, and a transfer in it keeps its queue head.
FramesHaveOneUser == volumePart = "uhci" => Uhci!FramesHaveOneUser

\* With the cleaner at work, frames are lost to a full heap only.
FramesAreNotLost == [][volumePart = "uhci" => Uhci!LosesNoFrame]_volumesVars
=============================================================================
