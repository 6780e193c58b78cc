------------------------------- MODULE PciBus -------------------------------
(***************************************************************************)
(* The scan of the PCI buses: how the configuration mechanism is found,    *)
(* the recursion of ScanBus with its numbering of the buses behind the     *)
(* bridges, and the list of functions that the drivers look their devices  *)
(* up in.  A function of the machine is the path to it, a sequence of      *)
(* positions <<device, function>>; a bus is the path of its bridge, the    *)
(* first one is <<>>.  What the configuration space of a function says of  *)
(* itself is kept by its path.                                             *)
(***************************************************************************)
EXTENDS Naturals, Sequences, FiniteSets, SequencesExt

CONSTANTS PciDevices,     \* devices of a bus by mechanism 1 (32), half of them by mechanism 2
          PciFunctions,   \* functions of a device (8)
          MaxPciDevices   \* MAX_PCI_DEVICES (255)

CONSTANT PciMachines
\* A machine: the mechanism it answers to, its functions, which of them are bridges and what the
\* firmware left in their registers, and the devices that ignore the function number.

VARIABLES machine,      \* the hardware
          pciBridge,    \* for a bridge: its secondary and subordinate bus
          scan,         \* the frames of ScanBus: bus, device, function, bHeaderType
          noOfBuses,    \* _uiNoOfPCIBuses
          pciEntries,   \* _pciEntries: an address, what the entry was read from and as
          pciStage

pciVars == <<machine, pciBridge, scan, noOfBuses, pciEntries, pciStage>>

NoBus == 0
LastBus == 255   \* 0xFF
TypeOne == "one"
DevicesPerBus == IF machine.mechanism = TypeOne THEN PciDevices ELSE PciDevices \div 2

-----------------------------------------------------------------------------
(* The hardware *)

Under(b, p) == IsStrictPrefix(b, p)

\* The order in which a scan meets the functions: by device and function, a bridge before what is
\* behind it.
Position(p, q) == p[1] < q[1] \/ (p[1] = q[1] /\ p[2] < q[2])
Earlier(p, q) == \/ Under(p, q)
                 \/ \E i \in DOMAIN p \cap DOMAIN q : /\ \A j \in 1 .. i - 1 : p[j] = q[j]
                                                      /\ Position(p[i], q[i])

\* The firmware numbers the buses in that order too, with a number to spare for each bridge or
\* none, or it leaves them alone.
LeftByFirmware(m) ==
  LET spare == IF m.firmware = "spare" THEN 1 ELSE 0
      above(p) == Cardinality({q \in m.bridges : Under(q, p)})
      before(p) == Cardinality({q \in m.bridges : Earlier(q, p) /\ ~Under(q, p)})
      below(p) == Cardinality({q \in m.bridges : Under(p, q)})
      second(p) == 1 + above(p) + before(p) * (1 + spare)
  IN  [p \in m.bridges |-> IF m.firmware = "none" THEN [sec |-> NoBus, sub |-> NoBus]
                           ELSE [sec |-> second(p), sub |-> second(p) + below(p) * (1 + spare) + spare]]

\* A cycle for a bus gets to it through bridges that pass it on, the last of which takes it for
\* its own bus.
Hears(b, n) ==
  IF b = <<>> THEN n = 0
  ELSE /\ n # NoBus /\ pciBridge[b].sec = n /\ n <= pciBridge[b].sub
       /\ \A p \in machine.bridges : Under(p, b) => pciBridge[p].sec < n /\ n <= pciBridge[p].sub
BusesCalled(n) == {b \in machine.bridges \cup {<<>>} : Hears(b, n)}

\* The functions that answer at an address: a device with one function may do so for all.
At(b, d, f) == LET p == Append(b, <<d, f>>)
                   alone == Append(b, <<d, 0>>)
               IN  IF p \notin machine.fns /\ alone \in machine.fns /\ alone \in machine.deaf THEN alone ELSE p
Answering(n, d, f) == {At(b, d, f) : b \in BusesCalled(n)} \cap machine.fns

\* bHeaderType: the bits that are looked at.
IsMulti(p) == \E q \in machine.fns : /\ Front(q) = Front(p) /\ Last(q)[1] = Last(p)[1]
                                     /\ Last(q)[2] # Last(p)[2]
Header(p) == [bridge |-> p \in machine.bridges, multi |-> IsMulti(p)]
NoHeader == [bridge |-> FALSE, multi |-> FALSE]

-----------------------------------------------------------------------------
(* PCIBusHandler *)

PciInit == /\ machine \in PciMachines
           /\ pciBridge = LeftByFirmware(machine)
           /\ scan = <<>> /\ noOfBuses = 0 /\ pciEntries = <<>> /\ pciStage = "start"

\* ScanBus is called: a frame for the bus, which is counted.
ScanBus(n) == [bus |-> n, dev |-> 0, fn |-> 0, header |-> NoHeader]

\* Initialize: Find throws when neither mechanism is there, and the list stays empty.
Initialize ==
  /\ pciStage = "start"
  /\ IF machine.mechanism = "none" THEN pciStage' = "failed" /\ UNCHANGED <<scan, noOfBuses>>
     ELSE /\ pciStage' = "scan"
          /\ scan' = <<ScanBus(0)>> /\ noOfBuses' = noOfBuses + 1
  /\ UNCHANGED <<machine, pciBridge, pciEntries>>

Top == Last(scan)
Callers == Front(scan)
Exhausted(s) == s.dev = DevicesPerBus
Onward(s) == IF s.fn + 1 = PciFunctions THEN [s EXCEPT !.dev = @ + 1, !.fn = 0] ELSE [s EXCEPT !.fn = @ + 1]

\* The function read at the place of a frame.  One is there at most unless the numbers of two
\* buses are the same.
Here(s) == Answering(s.bus, s.dev, s.fn)

\* The header type is read at function 0 only: the other functions are taken for what function 0
\* is, and where it is missing for what the last device was.
HeaderAt(s, p) == IF s.fn = 0 THEN Header(p) ELSE s.header
Passed(s) == Here(s) = {} \/ (s.fn # 0 /\ ~s.header.multi)

Recorded(s, p, h) ==
  pciEntries' = IF Len(pciEntries) < MaxPciDevices
                THEN Append(pciEntries, [at |-> <<s.bus, s.dev, s.fn>>, from |-> p, bridge |-> h.bridge])
                ELSE pciEntries

PassOver == /\ scan # <<>> /\ ~Exhausted(Top) /\ Passed(Top)
            /\ scan' = Append(Callers, Onward(Top))
            /\ UNCHANGED <<machine, pciBridge, noOfBuses, pciEntries, pciStage>>

VisitDevice ==
  /\ scan # <<>> /\ ~Exhausted(Top) /\ ~Passed(Top)
  /\ \E p \in Here(Top) :
       LET h == HeaderAt(Top, p)
       IN  /\ ~h.bridge
           /\ Recorded(Top, p, h)
           /\ scan' = Append(Callers, Onward([Top EXCEPT !.header = h]))
  /\ UNCHANGED <<machine, pciBridge, noOfBuses, pciStage>>

\* A bug: the number of the next bus instead of that of the last one.
BusesSoFar == noOfBuses
HighestBus == noOfBuses - 1

\* The bridge gets the next number, and passes on whatever is above it while the buses behind it
\* are counted.  What is no bridge after all keeps those registers for something else.
Numbered(p, r) == IF p \in machine.bridges THEN [pciBridge EXCEPT ![p] = r] ELSE pciBridge
EnterBridge ==
  /\ scan # <<>> /\ ~Exhausted(Top) /\ ~Passed(Top)
  /\ \E p \in Here(Top) :
       LET h == HeaderAt(Top, p)
       IN  /\ h.bridge
           /\ pciBridge' = Numbered(p, [sec |-> noOfBuses, sub |-> LastBus])
           /\ scan' = Callers \o <<[Top EXCEPT !.header = h], ScanBus(noOfBuses)>>
           /\ noOfBuses' = noOfBuses + 1
  /\ UNCHANGED <<machine, pciEntries, pciStage>>

\* ScanBus returns to the bridge, which passes on what was counted; the bridge is listed last.
LeaveBus ==
  /\ Len(scan) > 1 /\ Exhausted(Top)
  /\ LET caller == Last(Callers)
     IN  \E p \in Here(caller) :
           /\ pciBridge' = Numbered(p, [sec |-> pciBridge[p].sec, sub |-> HighestBus])
           /\ Recorded(caller, p, caller.header)
           /\ scan' = Append(Front(Callers), Onward(caller))
  /\ UNCHANGED <<machine, noOfBuses, pciStage>>

EndScan == /\ Len(scan) = 1 /\ Exhausted(Top)
           /\ scan' = <<>> /\ pciStage' = "done"
           /\ UNCHANGED <<machine, pciBridge, noOfBuses, pciEntries>>

PciNext == Initialize \/ PassOver \/ VisitDevice \/ EnterBridge \/ LeaveBus \/ EndScan

-----------------------------------------------------------------------------
Registers == [sec : 0 .. LastBus, sub : 0 .. LastBus]
PciTypeOK ==
  /\ machine \in PciMachines /\ machine.bridges \subseteq machine.fns
  /\ pciBridge \in [machine.bridges -> Registers]
  /\ \A i \in DOMAIN scan : /\ scan[i].dev \in 0 .. DevicesPerBus /\ scan[i].fn \in 0 .. PciFunctions - 1
                            /\ scan[i].bus < noOfBuses
  /\ noOfBuses \in 0 .. Cardinality(machine.fns) + 1
  /\ Len(pciEntries) <= MaxPciDevices
  /\ pciStage \in {"start", "scan", "done", "failed"}

\* A machine whose devices all have a function 0, and functions that are bridges or not alike: of
\* others the scan does not get the kind of every function right.
Regular == \A p \in machine.fns :
             LET first == Append(Front(p), <<Last(p)[1], 0>>)
             IN  /\ first \in machine.fns
                 /\ p \in machine.bridges <=> first \in machine.bridges

\* Two bridges of a bus that would both pass a cycle on.
BothPassOn(p, q) == /\ p # q /\ Front(p) = Front(q)
                    /\ pciBridge[p].sec <= pciBridge[q].sub /\ pciBridge[q].sec <= pciBridge[p].sub

\* What was listed can be reached: at the address of an entry answers its function and no other,
\* once the scan is through, whatever the firmware had numbered and however the buses nest; no
\* function is listed twice, none is left out as long as there is room, and every bus is behind one
\* bridge of each bus above it.
FunctionsAreFound ==
  Regular =>
    /\ \A i, j \in DOMAIN pciEntries : pciEntries[i].from = pciEntries[j].from => i = j
    /\ pciStage = "scan" => \A i \in DOMAIN scan : Cardinality(BusesCalled(scan[i].bus)) = 1
    /\ pciStage = "done" =>
         /\ \A i \in DOMAIN pciEntries :
              LET e == pciEntries[i]
              IN  /\ Answering(e.at[1], e.at[2], e.at[3]) = {e.from}
                  /\ e.bridge <=> e.from \in machine.bridges
         /\ \A p, q \in machine.bridges : ~BothPassOn(p, q)
         /\ Len(pciEntries) = MaxPciDevices \/ {pciEntries[i].from : i \in DOMAIN pciEntries} = machine.fns
=============================================================================
