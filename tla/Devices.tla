------------------------------ MODULE Devices ------------------------------
(***************************************************************************)
(* Drivers whose other half is hardware: the channels of an IDE controller *)
(* and a transfer of a disk on one of them, the schedule of an EHCI        *)
(* controller, the rings of an xHCI controller, the PCI buses, the clock,  *)
(* a floppy drive; and the way of the input: a keyboard and its handler,   *)
(* and the windows that a key or a click may be for.  They share no state: *)
(* a behaviour is one of one part, the others stay at an initial state.    *)
(***************************************************************************)
EXTENDS AtaTransfers, Clock, SequencesExt

CONSTANTS MaxDrives, NumEhciPorts, NumBlocks, MaxGivenUp,
          XhciSlots, EventSlots, MaxReports, MaxBeside, MaxIos, MaxBad,
          PciDevices, PciFunctions, MaxPciDevices,
          DriveNo, SectorsPerTrack, NoOfHeads, Tracks, SectorBytes, DmaWord, MaxRequests,
          QueueSize, MaxEvents, UserProcs

\* Sizes of a floppy: sectors of more than a byte, of which the DMA channel's word is a multiple.
ASSUME FloppyAssumption == /\ {SectorsPerTrack, NoOfHeads} \subseteq Nat \ {0} /\ SectorBytes \in Nat \ {0, 1}
                           /\ DmaWord \in Nat \ {0} /\ DmaWord % SectorBytes = 0

VARIABLES chip, earlier, hdMode, hdIrq, ataPorts, udma, timing8, ataStage, nextPort
VARIABLES link, qh, mem, hc, dev, probe, tds, bell, seqDevAddr, leaked, givenUp
VARIABLES plugged, ring, pipe, eventRing, results, eventMode, prober, woken, poller, reports, pressed, served,
          bulkMoved, ios, badEvents
VARIABLES machine, pciBridge, scan, noOfBuses, pciEntries, pciStage
VARIABLES fdc, cylinder, target, senses, dmaBytes, spinning, floppyIrqs, step, seekTry, opTry, wanted, replyBuffer,
          motorOn, requestMotorOff, motorTask, outcome, requests, raced
VARIABLES keyboard, keys, held, events, atEvent, pressedKeys, mods, caps, queue, irqs, owed, kbed, session, thrown,
          given, unseen
VARIABLES fgProcesses, guiBaseStack, inputEventFGProcess, life, frame, isGuiBase, adding, moed, strayed

VARIABLE devicePart

\* A keyboard, a disk, both with an empty port between them, and a device no driver takes.
Plugs == {<<"keyboard">>, <<"disk">>, <<"disk", "none", "keyboard">>, <<"other", "none">>}

\* Two devices of two functions on the first bus, nothing, a device or a bridge at each place;
\* behind the bridges nothing, a device, or two bridges with something behind one and beside them.
Places == (0 .. 1) \X (0 .. 1)
Behind == {[fns |-> {}, bridges |-> {}],
           [fns |-> {<<p>> : p \in {<<0, 0>>, <<0, 1>>}}, bridges |-> {}],
           [fns |-> {<<p>> : p \in {<<0, 0>>, <<0, 1>>, <<1, 0>>}} \cup {<<<<0, 1>>, <<0, 0>>>>},
            bridges |-> {<<p>> : p \in {<<0, 0>>, <<0, 1>>}}]}
Machine(kind, behind, mechanism, firmware, deaf) ==
  LET first == {<<p>> : p \in {q \in Places : kind[q] # "none"}}
      bridges == {<<p>> : p \in {q \in Places : kind[q] = "bridge"}}
      limit == IF mechanism = "two" THEN PciDevices \div 2 ELSE PciDevices
      fns == {p \in first \cup {b \o q : b \in bridges, q \in behind.fns} : \A i \in DOMAIN p : p[i][1] < limit}
      others(p) == {q \in fns : q # p /\ Front(q) = Front(p) /\ Last(q)[1] = Last(p)[1]}
  IN  [mechanism |-> mechanism, firmware |-> firmware, fns |-> fns,
       bridges |-> fns \cap (bridges \cup {b \o q : b \in bridges, q \in behind.bridges}),
       deaf |-> IF deaf THEN {p \in fns : others(p) = {}} ELSE {}]
PciMachines == {Machine(k, b, mechanism, firmware, deaf) :
                  k \in [Places -> {"none", "device", "bridge"}], b \in Behind,
                  mechanism \in {"one", "two", "none"}, firmware \in {"none", "close", "spare"}, deaf \in BOOLEAN}
OneMachine == CHOOSE m \in PciMachines : m.mechanism = "none"

\* The ends of a year and of a February, leap years and others, around the seed date.
DatesShown == {a \in {[y |-> y, m |-> p[1], d |-> p[2]] :
                          y \in {1946, 1947, 1948, 1951}, p \in {<<12, 31>>, <<8, 14>>, <<8, 15>>, <<2, 28>>, <<2, 29>>}} :
                  IsValid(a)}

\* Within a track, over the end of a cylinder, to the last sector, more than the DMA channel takes.
Transfers == {<<0, 1>>, <<3, 5>>, <<5, 7>>, <<6, 8>>, <<0, 6>>}

\* Two keys of a kind; Caps Lock with a shift; a modifier and a plain key that are sent with a prefix.
KeySets == {{"a", "left shift", "right shift"}, {"a", "caps", "left shift"}, {"1", "right ctrl"}, {"up", "F1"}}

Ata == INSTANCE AtaPorts
Ehci == INSTANCE EhciPorts
Xhci == INSTANCE XhciRings
Pci == INSTANCE PciBus
Flop == INSTANCE Floppy
Kbd == INSTANCE Keyboard
Win == INSTANCE Windows

ataVars == <<chip, earlier, hdMode, hdIrq, ataPorts, udma, timing8, ataStage, nextPort>>
ehciVars == <<link, qh, mem, hc, dev, probe, tds, bell, seqDevAddr, leaked, givenUp>>
xhciVars == <<plugged, ring, pipe, eventRing, results, eventMode, prober, woken, poller, reports, pressed, served,
              bulkMoved, ios, badEvents>>
pciVars == <<machine, pciBridge, scan, noOfBuses, pciEntries, pciStage>>
floppyVars == <<fdc, cylinder, target, senses, dmaBytes, spinning, floppyIrqs, step, seekTry, opTry, wanted,
                replyBuffer, motorOn, requestMotorOff, motorTask, outcome, requests, raced>>
keyboardVars == <<keyboard, keys, held, events, atEvent, pressedKeys, mods, caps, queue, irqs, owed, kbed, session,
                  thrown, given, unseen>>
windowsVars == <<fgProcesses, guiBaseStack, inputEventFGProcess, life, frame, isGuiBase, adding, moed, strayed>>
restVars == <<floppyVars, keyboardVars, windowsVars>>
devicesVars == <<transferVars, ataVars, ehciVars, xhciVars, pciVars, clockVars, restVars, devicePart>>

DeviceParts == {"channels", "transfer", "ehci", "xhci", "pci", "clock", "floppy", "keyboard", "windows"}
DevicesTypeOK == /\ devicePart \in DeviceParts
                 /\ devicePart = "transfer" => TransferTypeOK
                 /\ devicePart = "channels" => Ata!AtaTypeOK
                 /\ devicePart = "ehci" => Ehci!EhciTypeOK
                 /\ devicePart = "xhci" => Xhci!XhciTypeOK
                 /\ devicePart = "pci" => Pci!PciTypeOK
                 /\ devicePart = "clock" => ClockTypeOK
                 /\ devicePart = "floppy" => Flop!FloppyTypeOK
                 /\ devicePart = "keyboard" => Kbd!KeyboardTypeOK
                 /\ devicePart = "windows" => Win!WindowsTypeOK

\* A part that stays where it is needs one of its initial states only.
DevicesInit ==
  /\ devicePart \in DeviceParts
  /\ TransferInit /\ (devicePart # "transfer" => speed = "dma")
  /\ Ata!AtaInit
  /\ devicePart # "channels" => /\ chip = CHOOSE c \in Ata!Chip : TRUE
                                /\ earlier = "none" /\ udma = [n \in DOMAIN udma |-> FALSE]
  /\ Ehci!EhciInit
  /\ Xhci!XhciInit /\ (devicePart # "xhci" => plugged = <<"disk">> /\ eventMode = "Interrupt")
  /\ (devicePart # "pci" => machine = OneMachine) /\ Pci!PciInit
  /\ (devicePart # "clock" => chipDate = seedDate /\ chipSecond = 0) /\ ClockInit
  /\ (devicePart # "floppy" => cylinder = 0) /\ Flop!FloppyInit
  /\ (devicePart # "keyboard" => keyboard = "usb" /\ keys = {"up", "F1"}) /\ Kbd!KeyboardInit
  /\ Win!WindowsInit

DevicesNext ==
  \/ devicePart = "transfer" /\ TransferNext
     /\ UNCHANGED <<ataVars, ehciVars, xhciVars, pciVars, clockVars, restVars, devicePart>>
  \/ devicePart = "channels" /\ Ata!AtaNext
     /\ UNCHANGED <<transferVars, ehciVars, xhciVars, pciVars, clockVars, restVars, devicePart>>
  \/ devicePart = "ehci" /\ Ehci!EhciNext
     /\ UNCHANGED <<transferVars, ataVars, xhciVars, pciVars, clockVars, restVars, devicePart>>
  \/ devicePart = "xhci" /\ Xhci!XhciNext
     /\ UNCHANGED <<transferVars, ataVars, ehciVars, pciVars, clockVars, restVars, devicePart>>
  \/ devicePart = "pci" /\ Pci!PciNext
     /\ UNCHANGED <<transferVars, ataVars, ehciVars, xhciVars, clockVars, restVars, devicePart>>
  \/ devicePart = "clock" /\ ClockNext
     /\ UNCHANGED <<transferVars, ataVars, ehciVars, xhciVars, pciVars, restVars, devicePart>>
  \/ devicePart = "floppy" /\ Flop!FloppyNext
     /\ UNCHANGED <<transferVars, ataVars, ehciVars, xhciVars, pciVars, clockVars, keyboardVars, windowsVars, devicePart>>
  \/ devicePart = "keyboard" /\ Kbd!KeyboardNext
     /\ UNCHANGED <<transferVars, ataVars, ehciVars, xhciVars, pciVars, clockVars, floppyVars, windowsVars, devicePart>>
  \/ devicePart = "windows" /\ Win!WindowsNext
     /\ UNCHANGED <<transferVars, ataVars, ehciVars, xhciVars, pciVars, clockVars, floppyVars, keyboardVars, devicePart>>

DevicesSpec == DevicesInit /\ [][DevicesNext]_devicesVars

-----------------------------------------------------------------------------
\* A driver takes the hardware for what it is: a drive and the channel it is on are set to the same
\* mode; the PCI functions are listed, each once, where they answer; and the time told is one from
\* the start of the call to its end.
HardwareIsAsTaken == /\ devicePart = "channels" => Ata!DrivesAndChipAgree
                     /\ devicePart = "pci" => Pci!FunctionsAreFound
                     /\ devicePart = "clock" => TimeIsTold

\* What a controller reads is what the driver asks for, and what it answers is the answer to that.
RequestsAreAnswered == /\ devicePart = "ehci" => Ehci!RequestsAreAnswered
                       /\ devicePart = "xhci" => Xhci!RingsKeepTransfers
                       /\ devicePart = "floppy" => Flop!FloppyMovesAsAsked

\* Keys get where the focus is, in order and as they were meant, and the focus is with a window that
\* is there.
InputGetsThrough == /\ devicePart = "keyboard" => Kbd!KeysArriveAsTyped
                    /\ devicePart = "windows" => Win!WindowsAreOrdered
=============================================================================
