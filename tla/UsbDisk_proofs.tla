--------------------------- MODULE UsbDisk_proofs ---------------------------
(***************************************************************************)
(* A USB disk, for every number of packets and of command blocks.          *)
(*                                                                         *)
(* The invariant follows a read through its three transfers.  AtCBW,       *)
(* AtData and AtCSW say where the device can be with it: at what the       *)
(* driver waits for, ahead of it because a packet was dropped, or where    *)
(* nothing it still says can be taken for success.  Endpoints that never   *)
(* lost step have the toggles their transfers need, so that a packet is    *)
(* only dropped on an endpoint that did.                                   *)
(***************************************************************************)
EXTENDS UsbDisk, FiniteSetTheorems, SequenceTheorems, WellFoundedInduction, TLAPS

Info == Kind \cup Key \cup {"sense", "ok", "fail", "phase", "less"}
PacketSet == [no : 0 .. MaxSends, what : {"cbw", "data", "csw", "garbage"}, place : 0 .. MaxPackets,
  info : Info]

TransferSet == [state : {"off", "active", "halted", "done"}, left : 0 .. MaxPackets, size : Nat,
                toggle : {0, 1}, place : 1 .. MaxPackets + 1]

DeviceSet == [phase : {"idle", "data", "csw", "wedged"}, no : 0 .. MaxSends, kind : Info,
              packets : 0 .. MaxPackets, place : 1 .. MaxPackets, got : Seq(PacketSet), status : Info]

CommandSet == [kind : Kind, packets : 0 .. MaxPackets, auto : BOOLEAN, no : 0 .. MaxSends, result : 0 .. 3]

UsbShapes ==
  /\ cmd \in CommandSet /\ device \in DeviceSet /\ transfer \in [Endpoint -> TransferSet]
  /\ raw \in [1 .. MaxPackets -> PacketSet] /\ buffer \in Seq(PacketSet)
  /\ \A i \in 1 .. MaxPackets : raw[i].what = "cbw" => raw[i].no # 0
  /\ device.phase \in {"data", "csw"} => device.no # 0
  /\ device.phase = "data" => device.place <= device.packets
  /\ device.kind = "read" => device.status \in {"ok", "fail", "phase", "less"}
  /\ step \notin {"idle", "reset", "clear in", "clear out"} => cmd.kind # "none"
  /\ cmd.kind # "none" => (cmd.packets = 0 <=> cmd.kind = "ready")
  /\ \A ep \in Endpoint : Active(ep) => /\ transfer[ep].left # 0
                                        /\ transfer[ep].place + transfer[ep].left <= MaxPackets + 1

\* Over UHCI nothing moves.
NothingMoves == controller = "uhci" =>
  /\ strayed = Endpoint /\ \A ep \in Endpoint : ~Active(ep)
  /\ \A i \in 1 .. MaxPackets : raw[i].what # "csw"

\* While an endpoint is in step, its transfer is the one that is waited for, and the
\* driver's toggle is where the device's will be after it.
InStep == \A ep \in Endpoint \ strayed :
  /\ transfer[ep].state # "off" => step \in {"cbw", "data", "csw"} /\ ep = Awaited
  /\ transfer[ep].state \in {"off", "done"} => toggle[ep] = diskToggle[ep]
  /\ Active(ep) => /\ transfer[ep].toggle = diskToggle[ep]
                   /\ toggle[ep] = (diskToggle[ep] + transfer[ep].left) % 2

ReadNow == controller = "ehci" /\ ~cmd.auto /\ cmd.kind = "read"
Mine == device.no = cmd.no /\ device.kind = "read" /\ device.packets = cmd.packets
Own(i) == Packet(cmd.no, "data", i, device.status)

\* The device waits for the host, and what it may still say is no success.
Mute == device.phase \in {"idle", "wedged"} \/ (device.phase = "data" /\ device.kind = "write")
Hopeless == Mute \/ (device.phase = "csw" /\ device.status \in {"fail", "less", "phase"})

AtCBW == ReadNow /\ step = "cbw" =>
  /\ transfer["out"].size = CBWSize
  /\ Active("out") => transfer["out"].place = 1 /\ transfer["out"].left = 1
  /\ raw[1].what = "cbw" => raw[1] = Packet(cmd.no, "cbw", cmd.packets, "read")
  /\ Done("out") => Hopeless \/ (Mine /\ device.phase \in {"data", "csw"})

AtData == ReadNow /\ step = "data" =>
  /\ ~Active("out") /\ transfer["in"].size = PacketSize["read"]
  /\ Active("in") =>
       /\ transfer["in"].place + transfer["in"].left = cmd.packets + 1
       /\ \/ Hopeless
          \/ Mine /\ device.phase = "csw"
          \/ /\ Mine /\ device.phase = "data" /\ device.place >= transfer["in"].place
             /\ device.place = transfer["in"].place => \A i \in 1 .. device.place - 1 : raw[i] = Own(i)
  /\ Done("in") => \/ Hopeless
                   \/ Mine /\ device.phase = "csw" /\ \A i \in 1 .. cmd.packets : raw[i] = Own(i)

AtCSW == ReadNow /\ step = "csw" =>
  /\ ~Active("out")
  /\ Active("in") =>
       /\ transfer["in"].size = CSWSize /\ transfer["in"].left = 1 /\ transfer["in"].place = 1
       /\ \/ Hopeless
          \/ Mine /\ device.phase = "csw" /\ buffer = [i \in 1 .. cmd.packets |-> Own(i)]
  /\ Done("in") => /\ raw[1].what = "csw"
                   /\ \/ raw[1].info \in {"fail", "less", "phase"}
                      \/ /\ cmd.no \in executed
                         /\ buffer = [i \in 1 .. cmd.packets |-> Packet(cmd.no, "data", i, "ok")]

UsbTypes ==
  /\ controller \in Controllers /\ sends \in 0 .. MaxSends /\ key \in Key
  /\ step \in {"idle", "issue", "cbw", "data", "csw", "reset", "clear in", "clear out"}
  /\ opened \in {"new", "open", "failed"}
  /\ toggle \in [Endpoint -> {0, 1}] /\ diskToggle \in [Endpoint -> {0, 1}]
  /\ halted \subseteq Endpoint /\ strayed \subseteq Endpoint /\ executed \subseteq 1 .. MaxSends
  /\ UsbShapes

UsbIInv == UsbTypes /\ NothingMoves /\ InStep /\ AtCBW /\ AtData /\ AtCSW /\ ReadsAreTheirOwn

LEMMA UsbTypesGive == ASSUME UsbTypes PROVE UsbTypeOK
<1>1. /\ cmd \in CommandSet /\ device \in DeviceSet /\ transfer \in [Endpoint -> TransferSet]
      /\ raw \in [1 .. MaxPackets -> PacketSet]
  BY DEF UsbTypes, UsbShapes
<1>2. /\ cmd.kind \in Kind /\ cmd.packets \in 0 .. MaxPackets /\ cmd.auto \in BOOLEAN
      /\ cmd.no \in 0 .. MaxSends /\ cmd.result \in 0 .. 3
  BY <1>1 DEF CommandSet
<1>3. \A ep \in Endpoint : /\ transfer[ep].state \in {"off", "active", "halted", "done"}
                           /\ transfer[ep].left \in 0 .. MaxPackets
  BY <1>1 DEF TransferSet
<1>4. device.phase \in {"idle", "data", "csw", "wedged"}
  BY <1>1 DEF DeviceSet
<1>5. DOMAIN raw = 1 .. MaxPackets
  BY <1>1
<1> QED BY <1>2, <1>3, <1>4, <1>5 DEF UsbTypeOK, UsbTypes

\* A packet has a member for its meaning.
LEMMA PacketIsPacket ==
  ASSUME NEW no \in 0 .. MaxSends, NEW what \in {"cbw", "data", "csw", "garbage"},
         NEW place \in 0 .. MaxPackets, NEW info \in Info
  PROVE  Packet(no, what, place, info) \in PacketSet
BY DEF Packet, PacketSet

\* What the caller of QueueCommand does when it returns.
Commanded ==
  /\ cmd' \in CommandSet
  /\ step' \in {"idle", "issue", "reset"}
  /\ step' = "issue" => cmd'.kind # "none"
  /\ cmd'.kind # "none" => (cmd'.packets = 0 <=> cmd'.kind = "ready")
  /\ key' \in Key /\ buffer' \in Seq(PacketSet) /\ opened' \in {"new", "open", "failed"}

LEMMA QueueIsCommand ==
  ASSUME NEW kind \in Kind, NEW packets \in 0 .. MaxPackets, Queue(kind, packets)
  PROVE  /\ cmd' \in CommandSet /\ cmd'.kind = kind /\ cmd'.packets = packets /\ ~cmd'.auto /\ step' = "issue"
<1>1. /\ cmd' = [kind |-> kind, packets |-> packets, auto |-> FALSE, no |-> 0, result |-> 0]
      /\ step' = "issue"
  BY DEF Queue, NoCommand
<1>2. 0 \in 0 .. MaxSends /\ 0 \in 0 .. 3 /\ FALSE \in BOOLEAN
  BY UsbDiskAssumption
<1>3. cmd' \in CommandSet
  BY <1>1, <1>2 DEF CommandSet
<1> QED BY <1>1, <1>3

LEMMA NoCommandIsCommand == NoCommand \in CommandSet /\ NoCommand.kind = "none"
BY UsbDiskAssumption DEF NoCommand, CommandSet, Kind

LEMMA ReturnsCommand ==
  ASSUME UsbTypes, NEW status \in BOOLEAN, NEW result \in 0 .. 3, NEW k \in Key,
         QueueCommandReturns(status, result, k)
  PROVE  /\ Commanded
         /\ \/ last' = last
            \/ /\ last'.kind = cmd.kind /\ last'.no = cmd.no /\ last'.packets = cmd.packets /\ last'.data = buffer
               /\ last'.ok => status /\ result = 0
<1>1. cmd \in CommandSet /\ buffer \in Seq(PacketSet) /\ key \in Key /\ opened \in {"new", "open", "failed"}
  BY DEF UsbTypes, UsbShapes
<1>2. 1 \in 0 .. MaxPackets /\ 0 \in 0 .. MaxPackets /\ "none" \in Key /\ <<>> \in Seq(PacketSet)
  <2>1. 1 \in 0 .. MaxPackets /\ 0 \in 0 .. MaxPackets
    BY UsbDiskAssumption
  <2>2. <<>> \in Seq(PacketSet)
    OBVIOUS
  <2> QED BY <2>1, <2>2 DEF Key
<1>3. ASSUME Fresh PROVE key' \in Key /\ buffer' \in Seq(PacketSet)
  BY <1>2, <1>3 DEF Fresh
<1>4. ASSUME Queue("ready", 0) \/ Queue("capacity", 1)
      PROVE  /\ cmd' \in CommandSet /\ step' = "issue" /\ cmd'.kind # "none"
             /\ cmd'.kind # "none" => (cmd'.packets = 0 <=> cmd'.kind = "ready")
  BY <1>2, <1>4, QueueIsCommand DEF Kind
<1>5. ASSUME CallDone
      PROVE  /\ cmd' \in CommandSet /\ step' = "idle" /\ cmd'.kind = "none"
  BY <1>5, NoCommandIsCommand DEF CallDone
<1>6. ASSUME Open \/ Fail PROVE opened' \in {"new", "open", "failed"} /\ CallDone
  BY <1>6 DEF Open, Fail
<1>7. CASE cmd.kind = "inquiry"
  <2>1. InquiryReturns(status, result)
    BY <1>7 DEF QueueCommandReturns
  <2>2. last' = last /\ Fresh /\ ((Queue("ready", 0) /\ opened' = opened) \/ Fail)
    BY <2>1 DEF InquiryReturns
  <2> QED BY <1>1, <1>3, <1>4, <1>5, <1>6, <2>2 DEF Commanded
<1>8. CASE cmd.kind = "ready"
  <2>1. ReadyReturns(status, result, k)
    BY <1>8 DEF QueueCommandReturns
  <2>2. /\ last' = last /\ Fresh
        /\ ((Queue("ready", 0) \/ Queue("capacity", 1)) /\ opened' = opened) \/ Fail
    BY <2>1 DEF ReadyReturns
  <2> QED BY <1>1, <1>3, <1>4, <1>5, <1>6, <2>2 DEF Commanded
<1>9. CASE cmd.kind = "capacity"
  <2>1. CapacityReturns(result, k)
    BY <1>9 DEF QueueCommandReturns
  <2>2. /\ last' = last
        /\ \/ Queue("capacity", 1) /\ opened' = opened /\ Fresh
           \/ (Open \/ Fail) /\ UNCHANGED <<key, buffer>>
    BY <2>1 DEF CapacityReturns
  <2> QED BY <1>1, <1>3, <1>4, <1>5, <1>6, <2>2 DEF Commanded
<1>10. CASE cmd.kind \notin {"inquiry", "ready", "capacity"}
  <2>1. TransferReturns(status, result, buffer)
    BY <1>10 DEF QueueCommandReturns
  <2>2. /\ CallDone /\ opened' = opened /\ UNCHANGED <<key, buffer>>
        /\ last' = [kind |-> cmd.kind, no |-> cmd.no, packets |-> cmd.packets,
                    ok |-> status /\ result = 0, data |-> buffer]
    BY <2>1 DEF TransferReturns
  <2> QED BY <1>1, <1>5, <2>2 DEF Commanded
<1> QED BY <1>7, <1>8, <1>9, <1>10

\* What becomes of a command whose transfers are over: a read is good only if its status
\* block said so.
LEMMA JudgeCommands ==
  ASSUME UsbTypes, cmd.kind # "none", NEW verdict \in {"success", "short", "failure", "error"}, NEW k \in Key,
         Judge(verdict, k)
  PROVE  /\ Commanded
         /\ \/ last' = last
            \/ /\ last'.kind = cmd.kind /\ last'.no = cmd.no /\ last'.packets = cmd.packets /\ last'.data = buffer
               /\ last'.ok => verdict = "success" /\ ~cmd.auto
<1>1. cmd \in CommandSet /\ buffer \in Seq(PacketSet) /\ key \in Key /\ opened \in {"new", "open", "failed"}
      /\ (cmd.kind # "none" => (cmd.packets = 0 <=> cmd.kind = "ready"))
  BY DEF UsbTypes, UsbShapes
<1>2. CASE verdict = "error"
  <2>1. PICK r \in 0 .. 3 : Reset(r)
    <3>1. 1 \in 0 .. 3 /\ 2 \in 0 .. 3
      OBVIOUS
    <3> QED BY <1>2, <3>1 DEF Judge
  <2>2. /\ step' = "reset" /\ cmd' = [cmd EXCEPT !.result = r]
        /\ UNCHANGED <<key, buffer, opened, last>>
    BY <2>1 DEF Reset
  <2>3. cmd' \in CommandSet /\ cmd'.kind = cmd.kind /\ cmd'.packets = cmd.packets
    BY <1>1, <2>2 DEF CommandSet
  <2> QED BY <1>1, <2>2, <2>3 DEF Commanded
<1>3. CASE verdict # "error" /\ cmd.auto
  <2>1. \/ QueueCommandReturns(FALSE, 0, k)
        \/ QueueCommandReturns(verdict = "success", 3, k)
    BY <1>3 DEF Judge
  <2>2. 0 \in 0 .. 3 /\ 3 \in 0 .. 3 /\ 3 # 0 /\ FALSE \in BOOLEAN /\ (verdict = "success") \in BOOLEAN
    OBVIOUS
  <2>3. CASE QueueCommandReturns(FALSE, 0, k)
    BY <2>2, <2>3, ReturnsCommand
  <2>4. CASE QueueCommandReturns(verdict = "success", 3, k)
    BY <2>2, <2>4, ReturnsCommand
  <2> QED BY <2>1, <2>3, <2>4
<1>4. CASE verdict # "error" /\ ~cmd.auto /\ NeedsSense(verdict)
  <2>1. /\ step' = "issue" /\ cmd' = [cmd EXCEPT !.auto = TRUE]
        /\ UNCHANGED <<key, buffer, opened, last>>
    BY <1>4 DEF Judge
  <2>2. cmd' \in CommandSet /\ cmd'.kind = cmd.kind /\ cmd'.packets = cmd.packets
    BY <1>1, <2>1 DEF CommandSet
  <2> QED BY <1>1, <2>1, <2>2 DEF Commanded
<1>5. CASE verdict # "error" /\ ~cmd.auto /\ ~NeedsSense(verdict)
  <2>1. QueueCommandReturns(verdict = "success", 0, k)
    BY <1>5 DEF Judge
  <2>2. 0 \in 0 .. 3 /\ (verdict = "success") \in BOOLEAN
    OBVIOUS
  <2> QED BY <1>5, <2>1, <2>2, ReturnsCommand
<1> QED BY <1>2, <1>3, <1>4, <1>5

-----------------------------------------------------------------------------
(* The host's steps *)

Steady == NothingMoves /\ InStep /\ AtCBW /\ AtData /\ AtCSW

\* A step of the driver between two transfers.
LEMMA BetweenTransfers ==
  ASSUME UsbTypes, NothingMoves, InStep, UsbTypes',
         UNCHANGED <<controller, raw>>, step' \notin {"cbw", "data", "csw"},
         \A ep \in Endpoint : transfer'[ep] = transfer[ep] \/ transfer'[ep] = Off,
         strayed \subseteq strayed',
         \A ep \in Endpoint \ strayed' : transfer'[ep].state = "off" /\ toggle'[ep] = diskToggle'[ep]
  PROVE  Steady'
<1>1. \A ep \in Endpoint : Active(ep)' => Active(ep)
  BY DEF Active, Off
<1>2. NothingMoves'
  BY <1>1 DEF NothingMoves, UsbTypes
<1>3. InStep'
  <2>1. \A ep \in Endpoint \ strayed' : ~Active(ep)'
    BY DEF Active
  <2> QED BY <2>1 DEF InStep
<1> QED BY <1>2, <1>3 DEF Steady, AtCBW, AtData, AtCSW

LEMMA OffTransfer == Off \in TransferSet /\ Off.state = "off"
BY UsbDiskAssumption DEF Off, TransferSet

LEMMA CallKeeps ==
  ASSUME UsbTypes, Steady, ReadsAreTheirOwn, NEW kind \in {"read", "write"}, NEW n \in 1 .. MaxPackets,
    Call(kind, n)
  PROVE  UsbTypes' /\ Steady' /\ ReadsAreTheirOwn'
<1>1. /\ step = "idle" /\ Queue(kind, n) /\ Fresh
      /\ UNCHANGED <<controller, sends, opened, last, transfer, toggle, raw, device, halted, diskToggle,
                     executed, strayed>>
  BY DEF Call, busVars, deviceVars
<1>2. n \in 0 .. MaxPackets /\ n # 0 /\ kind \in Kind
  BY UsbDiskAssumption DEF Kind
<1>3. cmd' \in CommandSet /\ cmd'.kind = kind /\ cmd'.packets = n /\ step' = "issue"
  BY <1>1, <1>2, QueueIsCommand
<1>4. key' \in Key /\ buffer' \in Seq(PacketSet)
  BY <1>1 DEF Fresh, Key
<1>5. UsbTypes'
  BY <1>1, <1>2, <1>3, <1>4 DEF UsbTypes, UsbShapes, Active
<1>6. Steady'
  <2>1. \A ep \in Endpoint \ strayed : transfer[ep].state = "off" /\ toggle[ep] = diskToggle[ep]
    BY <1>1 DEF Steady, InStep
  <2> QED BY <1>1, <1>3, <1>5, <2>1, BetweenTransfers DEF Steady
<1>7. ReadsAreTheirOwn'
  BY <1>1 DEF ReadsAreTheirOwn
<1> QED BY <1>5, <1>6, <1>7

LEMMA VerdictIsVerdict == ASSUME NEW packet PROVE Verdict(packet) \in {"success", "short", "failure", "error"}
BY DEF Verdict

LEMMA EndCSWKeeps ==
  ASSUME UsbTypes, Steady, ReadsAreTheirOwn, EndCSW
  PROVE  UsbTypes' /\ Steady' /\ ReadsAreTheirOwn'
<1>1. /\ step = "csw" /\ Done("in") /\ Judge(Verdict(raw[1]), key)
      /\ transfer' = [transfer EXCEPT !["in"] = Off]
      /\ UNCHANGED <<controller, sends, toggle, raw, device, halted, diskToggle, executed, strayed>>
  BY DEF EndCSW, deviceVars
<1>2. cmd.kind # "none" /\ key \in Key
  BY <1>1 DEF UsbTypes, UsbShapes
<1>3. /\ Commanded
      /\ \/ last' = last
         \/ /\ last'.kind = cmd.kind /\ last'.no = cmd.no /\ last'.packets = cmd.packets /\ last'.data = buffer
            /\ last'.ok => Verdict(raw[1]) = "success" /\ ~cmd.auto
  BY <1>1, <1>2, VerdictIsVerdict, JudgeCommands
<1>4. /\ transfer' \in [Endpoint -> TransferSet]
      /\ transfer'["in"].state = "off" /\ transfer'["out"] = transfer["out"]
      /\ transfer'["in"] = Off
  BY <1>1, OffTransfer DEF UsbTypes, UsbShapes, Endpoint
<1>5. UsbTypes'
  <2>1. \A ep \in Endpoint : Active(ep)' => ep = "out"
    BY <1>4 DEF Active, Endpoint
  <2>2. \A ep \in Endpoint : Active(ep)' => /\ transfer'[ep].left # 0
                                            /\ transfer'[ep].place + transfer'[ep].left <= MaxPackets + 1
    BY <1>4, <2>1 DEF UsbTypes, UsbShapes, Active
  <2>3. /\ controller' \in Controllers /\ sends' \in 0 .. MaxSends /\ key' \in Key
        /\ step' \in {"idle", "issue", "cbw", "data", "csw", "reset", "clear in", "clear out"}
        /\ opened' \in {"new", "open", "failed"}
        /\ toggle' \in [Endpoint -> {0, 1}] /\ diskToggle' \in [Endpoint -> {0, 1}]
        /\ halted' \subseteq Endpoint /\ strayed' \subseteq Endpoint /\ executed' \subseteq 1 .. MaxSends
    BY <1>1, <1>3 DEF UsbTypes, Commanded
  <2> QED BY <1>1, <1>3, <1>4, <2>2, <2>3 DEF UsbTypes, UsbShapes, Commanded
<1>6. Steady'
  <2>1. \A ep \in Endpoint \ strayed : transfer'[ep].state = "off" /\ toggle[ep] = diskToggle[ep]
    <3>1. "in" \notin strayed => toggle["in"] = diskToggle["in"]
      BY <1>1 DEF Steady, InStep, Done, Endpoint
    <3>2. "out" \notin strayed => transfer["out"].state = "off"
      BY <1>1 DEF Steady, InStep, Awaited, Endpoint
    <3>3. "out" \notin strayed => toggle["out"] = diskToggle["out"]
      BY <3>2 DEF Steady, InStep, Endpoint
    <3> QED BY <1>4, <3>1, <3>2, <3>3 DEF Endpoint
  <2>2. \A ep \in Endpoint : transfer'[ep] = transfer[ep] \/ transfer'[ep] = Off
    BY <1>4 DEF Endpoint
  <2>3. step' \notin {"cbw", "data", "csw"}
    BY <1>3 DEF Commanded
  <2> QED BY <1>1, <1>5, <2>1, <2>2, <2>3, BetweenTransfers DEF Steady
\* Over UHCI raw has no status block; over EHCI it is the one that came.
<1>7. ReadsAreTheirOwn'
  <2>1. CASE last' = last
    BY <1>1, <2>1 DEF ReadsAreTheirOwn
  <2>2. CASE last' # last
    <3>1. SUFFICES ASSUME last'.ok, last'.kind = "read"
                   PROVE  /\ last'.no \in executed'
                          /\ last'.data = [i \in 1 .. last'.packets |-> Packet(last'.no, "data", i, "ok")]
      BY DEF ReadsAreTheirOwn
    <3>2. /\ cmd.kind = "read" /\ ~cmd.auto /\ Verdict(raw[1]) = "success"
          /\ last'.no = cmd.no /\ last'.packets = cmd.packets /\ last'.data = buffer
      BY <1>3, <2>2, <3>1
    <3>3. raw[1].what = "csw" /\ raw[1].info \notin {"fail", "phase", "less"}
      BY <3>2 DEF Verdict
    <3>4. controller = "ehci"
      <4>1. 1 \in 1 .. MaxPackets
        BY UsbDiskAssumption
      <4>2. controller \in {"ehci", "uhci"}
        BY UsbDiskAssumption DEF UsbTypes
      <4> QED BY <3>3, <4>1, <4>2 DEF Steady, NothingMoves
    <3>5. /\ cmd.no \in executed
          /\ buffer = [i \in 1 .. cmd.packets |-> Packet(cmd.no, "data", i, "ok")]
      BY <1>1, <3>2, <3>3, <3>4 DEF Steady, AtCSW, ReadNow
    <3> QED BY <1>1, <3>2, <3>5
  <2> QED BY <2>1, <2>2
<1> QED BY <1>5, <1>6, <1>7

LEMMA TimeOutKeeps ==
  ASSUME UsbTypes, Steady, ReadsAreTheirOwn, TimeOut
  PROVE  UsbTypes' /\ Steady' /\ ReadsAreTheirOwn'
<1>1. /\ step \in {"cbw", "data", "csw"} /\ Judge("failure", key)
      /\ strayed' = strayed \cup {Awaited}
      /\ UNCHANGED <<controller, sends, transfer, toggle, raw, device, halted, diskToggle, executed>>
  BY DEF TimeOut, deviceVars, busVars
<1>2. cmd.kind # "none" /\ key \in Key
  BY <1>1 DEF UsbTypes, UsbShapes
<1>3. /\ Commanded
      /\ last' = last \/ ~last'.ok
  BY <1>1, <1>2, JudgeCommands
<1>4. Awaited \in Endpoint
  BY DEF Awaited, Direction, Endpoint
<1>5. UsbTypes'
  <2>1. /\ controller' \in Controllers /\ sends' \in 0 .. MaxSends /\ key' \in Key
        /\ step' \in {"idle", "issue", "cbw", "data", "csw", "reset", "clear in", "clear out"}
        /\ opened' \in {"new", "open", "failed"}
        /\ toggle' \in [Endpoint -> {0, 1}] /\ diskToggle' \in [Endpoint -> {0, 1}]
        /\ halted' \subseteq Endpoint /\ strayed' \subseteq Endpoint /\ executed' \subseteq 1 .. MaxSends
    BY <1>1, <1>3, <1>4 DEF UsbTypes, Commanded
  <2> QED BY <1>1, <1>3, <2>1 DEF UsbTypes, UsbShapes, Commanded, Active
<1>6. Steady'
  <2>1. \A ep \in Endpoint \ strayed' : transfer[ep].state = "off" /\ toggle[ep] = diskToggle[ep]
    BY <1>1 DEF Steady, InStep
  <2>2. step' \notin {"cbw", "data", "csw"} /\ strayed \subseteq strayed'
    BY <1>1, <1>3 DEF Commanded
  <2> QED BY <1>1, <1>5, <2>1, <2>2, BetweenTransfers DEF Steady
<1>7. ReadsAreTheirOwn'
  BY <1>1, <1>3 DEF ReadsAreTheirOwn
<1> QED BY <1>5, <1>6, <1>7

LEMMA ResetReturnsCommand ==
  ASSUME UsbTypes, NEW ok \in BOOLEAN, ResetReturns(ok)
  PROVE  Commanded /\ (last' = last \/ ~last'.ok)
<1>1. CASE cmd.kind # "none"
  <2>1. QueueCommandReturns(FALSE, cmd.result, key)
    BY <1>1 DEF ResetReturns
  <2>2. cmd.result \in 0 .. 3 /\ key \in Key /\ FALSE \in BOOLEAN
    BY DEF UsbTypes, UsbShapes, CommandSet
  <2> QED BY <2>1, <2>2, ReturnsCommand
<1>2. CASE cmd.kind = "none"
  <2>1. /\ (Queue("inquiry", 1) /\ opened' = opened) \/ Fail
        /\ UNCHANGED <<key, buffer, last>>
    BY <1>2 DEF ResetReturns
  <2>2. /\ key' \in Key /\ buffer' \in Seq(PacketSet) /\ last' = last
    BY <2>1 DEF UsbTypes, UsbShapes
  <2>3. CASE Queue("inquiry", 1) /\ opened' = opened
    <3>1. 1 \in 0 .. MaxPackets /\ "inquiry" \in Kind
      BY UsbDiskAssumption DEF Kind
    <3>2. cmd' \in CommandSet /\ cmd'.kind = "inquiry" /\ cmd'.packets = 1 /\ step' = "issue"
      BY <2>3, <3>1, QueueIsCommand
    <3>3. opened' \in {"new", "open", "failed"}
      BY <2>3 DEF UsbTypes
    <3>4. step' \in {"idle", "issue", "reset"} /\ cmd'.kind # "none" /\ cmd'.packets # 0
      BY <3>2
    <3> QED BY <2>2, <3>2, <3>3, <3>4 DEF Commanded
  <2>4. CASE Fail
    BY <2>2, <2>4, NoCommandIsCommand DEF Fail, CallDone, Commanded
  <2> QED BY <2>1, <2>3, <2>4
<1> QED BY <1>1, <1>2

LEMMA CommandResetKeeps ==
  ASSUME UsbTypes, Steady, ReadsAreTheirOwn, CommandReset
  PROVE  UsbTypes' /\ Steady' /\ ReadsAreTheirOwn'
<1>1. /\ step = "reset" /\ step' = "clear in"
      /\ device' = device \/ device' = [Waits4CBW EXCEPT !.no = device.no]
      /\ UNCHANGED <<controller, sends, cmd, key, buffer, opened, last, transfer, toggle, raw, halted,
                     diskToggle, executed, strayed>>
  BY DEF CommandReset, GoTo, busVars
<1>2. device' \in DeviceSet /\ (device' = device \/ (device'.phase = "idle" /\ device'.kind = "none"))
  <2>1. CASE device' = device
    BY <2>1 DEF UsbTypes, UsbShapes
  <2>2. CASE device' = [Waits4CBW EXCEPT !.no = device.no]
    <3>1. device' = [phase |-> "idle", no |-> device.no, kind |-> "none", packets |-> 0, place |-> 1,
      got |-> <<>>, status |-> "ok"]
      BY <2>2 DEF Waits4CBW
    <3>2. device.no \in 0 .. MaxSends
      BY DEF UsbTypes, UsbShapes, DeviceSet
    <3>3. 1 \in 1 .. MaxPackets /\ 0 \in 0 .. MaxPackets
      BY UsbDiskAssumption
    <3>4. <<>> \in Seq(PacketSet)
      OBVIOUS
    <3> QED BY <3>1, <3>2, <3>3, <3>4 DEF DeviceSet, Kind, Info
  <2> QED BY <1>1, <2>1, <2>2
<1>3. UsbTypes'
  <2>1. device'.phase \in {"data", "csw"} => device'.no # 0
    BY <1>1, <1>2 DEF UsbTypes, UsbShapes
  <2>2. device'.kind = "read" => device'.status \in {"ok", "fail", "phase", "less"}
    BY <1>1, <1>2 DEF UsbTypes, UsbShapes
  <2> QED BY <1>1, <1>2, <2>1, <2>2 DEF UsbTypes, UsbShapes, Active
<1>4. Steady'
  <2>1. \A ep \in Endpoint \ strayed : transfer[ep].state = "off" /\ toggle[ep] = diskToggle[ep]
    BY <1>1 DEF Steady, InStep
  <2> QED BY <1>1, <1>3, <2>1, BetweenTransfers DEF Steady
<1> QED BY <1>1, <1>3, <1>4 DEF ReadsAreTheirOwn

\* A cleared endpoint has toggle 0 at the device; at the driver it may not.
LEMMA ClearHaltClears ==
  ASSUME UsbTypes, NothingMoves, InStep, NEW e \in Endpoint, ClearHalt(e), step \in {"clear in", "clear out"},
         strayed' = strayed \cup {ep \in {e} : toggle[e] # 0}
  PROVE  /\ toggle' \in [Endpoint -> {0, 1}] /\ diskToggle' \in [Endpoint -> {0, 1}]
         /\ halted' \subseteq Endpoint /\ strayed' \subseteq Endpoint
         /\ \A ep \in Endpoint \ strayed' : transfer'[ep].state = "off" /\ toggle'[ep] = diskToggle'[ep]
<1>1. /\ toggle' = [toggle EXCEPT ![e] = ToggleAfterClear(e)]
      /\ transfer' = transfer
  BY DEF ClearHalt
<1>2. ToggleAfterClear(e) \in {0, 1} /\ (controller = "ehci" => ToggleAfterClear(e) = toggle[e])
  BY DEF ToggleAfterClear, UsbTypes
<1>3. toggle' \in [Endpoint -> {0, 1}] /\ toggle'[e] = ToggleAfterClear(e)
      /\ \A ep \in Endpoint : ep # e => toggle'[ep] = toggle[ep]
  BY <1>1, <1>2 DEF UsbTypes
<1>4. \A ep \in Endpoint \ strayed : transfer[ep].state = "off" /\ toggle[ep] = diskToggle[ep]
  BY DEF InStep
<1>5. CASE Reaches
  <2>1. halted' = halted \ {e} /\ diskToggle' = [diskToggle EXCEPT ![e] = 0]
    BY <1>5 DEF ClearHalt
  <2>2. diskToggle' \in [Endpoint -> {0, 1}] /\ diskToggle'[e] = 0
        /\ \A ep \in Endpoint : ep # e => diskToggle'[ep] = diskToggle[ep]
    BY <2>1 DEF UsbTypes
  <2>3. ToggleAfterClear(e) = toggle[e]
    BY <1>2, <1>5 DEF Reaches
  <2>4. ASSUME NEW ep \in Endpoint \ strayed' PROVE transfer'[ep].state = "off" /\ toggle'[ep] = diskToggle'[ep]
    BY <1>1, <1>3, <1>4, <2>2, <2>3, <2>4
  <2> QED BY <1>3, <2>1, <2>2, <2>4 DEF UsbTypes
<1>6. CASE ~Reaches
  <2>1. controller = "uhci"
    <3>1. controller \in {"ehci", "uhci"}
      BY UsbDiskAssumption DEF UsbTypes
    <3> QED BY <1>6, <3>1 DEF Reaches
  <2>2. strayed = Endpoint
    BY <2>1 DEF NothingMoves
  <2>3. halted' = halted /\ diskToggle' = diskToggle
    BY <1>6 DEF ClearHalt
  <2> QED BY <1>3, <2>2, <2>3 DEF UsbTypes
<1> QED BY <1>5, <1>6

LEMMA ClearHaltInKeeps ==
  ASSUME UsbTypes, Steady, ReadsAreTheirOwn, ClearHaltIn
  PROVE  UsbTypes' /\ Steady' /\ ReadsAreTheirOwn'
<1>1. /\ step = "clear in" /\ ClearHalt("in") /\ step' = "clear out"
      /\ strayed' = strayed \cup {ep \in {"in"} : toggle["in"] # 0}
      /\ UNCHANGED <<controller, sends, cmd, key, buffer, opened, last, transfer, raw, device, executed>>
  BY DEF ClearHaltIn, ClearHalt, GoTo
<1>2. /\ toggle' \in [Endpoint -> {0, 1}] /\ diskToggle' \in [Endpoint -> {0, 1}]
      /\ halted' \subseteq Endpoint /\ strayed' \subseteq Endpoint
      /\ \A ep \in Endpoint \ strayed' : transfer'[ep].state = "off" /\ toggle'[ep] = diskToggle'[ep]
  <2>1. "in" \in Endpoint
    BY DEF Endpoint
  <2> QED BY <1>1, <2>1, ClearHaltClears DEF Steady
<1>3. UsbTypes'
  BY <1>1, <1>2 DEF UsbTypes, UsbShapes, Active
<1>4. Steady'
  BY <1>1, <1>2, <1>3, BetweenTransfers DEF Steady
<1> QED BY <1>1, <1>3, <1>4 DEF ReadsAreTheirOwn

LEMMA ClearHaltOutKeeps ==
  ASSUME UsbTypes, Steady, ReadsAreTheirOwn, ClearHaltOut
  PROVE  UsbTypes' /\ Steady' /\ ReadsAreTheirOwn'
<1>1. /\ step = "clear out" /\ ClearHalt("out") /\ ResetReturns(TRUE)
      /\ strayed' = strayed \cup {ep \in {"out"} : toggle["out"] # 0}
      /\ UNCHANGED <<controller, sends, transfer, raw, device, executed>>
  BY DEF ClearHaltOut, ClearHalt
<1>2. /\ toggle' \in [Endpoint -> {0, 1}] /\ diskToggle' \in [Endpoint -> {0, 1}]
      /\ halted' \subseteq Endpoint /\ strayed' \subseteq Endpoint
      /\ \A ep \in Endpoint \ strayed' : transfer'[ep].state = "off" /\ toggle'[ep] = diskToggle'[ep]
  <2>1. "out" \in Endpoint
    BY DEF Endpoint
  <2> QED BY <1>1, <2>1, ClearHaltClears DEF Steady
<1>3. Commanded /\ (last' = last \/ ~last'.ok)
  BY <1>1, ResetReturnsCommand
<1>4. UsbTypes'
  <2>1. step' \in {"idle", "issue", "cbw", "data", "csw", "reset", "clear in", "clear out"}
    BY <1>3 DEF Commanded
  <2> QED BY <1>1, <1>2, <1>3, <2>1 DEF UsbTypes, UsbShapes, Active, Commanded
<1>5. Steady'
  <2>1. step' \notin {"cbw", "data", "csw"}
    BY <1>3 DEF Commanded
  <2> QED BY <1>1, <1>2, <1>4, <2>1, BetweenTransfers DEF Steady
<1> QED BY <1>1, <1>3, <1>4, <1>5 DEF ReadsAreTheirOwn

LEMMA ResetFailsKeeps ==
  ASSUME UsbTypes, Steady, ReadsAreTheirOwn, ResetFails
  PROVE  UsbTypes' /\ Steady' /\ ReadsAreTheirOwn'
<1>1. /\ step \in {"reset", "clear in", "clear out"} /\ ResetReturns(FALSE)
      /\ UNCHANGED <<controller, sends, transfer, toggle, raw, device, halted, diskToggle, executed, strayed>>
  BY DEF ResetFails, busVars, deviceVars
<1>2. Commanded /\ (last' = last \/ ~last'.ok)
  BY <1>1, ResetReturnsCommand
<1>3. UsbTypes'
  <2>1. step' \in {"idle", "issue", "cbw", "data", "csw", "reset", "clear in", "clear out"}
    BY <1>2 DEF Commanded
  <2> QED BY <1>1, <1>2, <2>1 DEF UsbTypes, UsbShapes, Active, Commanded
<1>4. Steady'
  <2>1. step' \notin {"cbw", "data", "csw"}
    BY <1>2 DEF Commanded
  <2>2. \A ep \in Endpoint \ strayed : transfer[ep].state = "off" /\ toggle[ep] = diskToggle[ep]
    BY <1>1 DEF Steady, InStep
  <2> QED BY <1>1, <1>3, <2>1, <2>2, BetweenTransfers DEF Steady
<1> QED BY <1>1, <1>2, <1>3, <1>4 DEF ReadsAreTheirOwn

-----------------------------------------------------------------------------
(* The host's transfers *)

LEMMA NewTransferIsTransfer ==
  ASSUME UsbTypes, NEW e \in Endpoint, NEW n \in 1 .. MaxPackets, NEW size \in Nat,
         NEW t, t = IF controller = "ehci" THEN LinkedTDs(e, n, size) ELSE Unlinked
  PROVE  /\ t \in TransferSet /\ t.state \in {"active", "done"}
         /\ controller = "ehci" => /\ t.state = "active" /\ t.left = n /\ t.size = size
                                   /\ t.toggle = toggle[e] /\ t.place = 1
         /\ controller # "ehci" => t.state = "done"
<1>1. CASE controller = "ehci"
  <2>1. t = [state |-> "active", left |-> n, size |-> size, toggle |-> toggle[e], place |-> 1]
    BY <1>1 DEF LinkedTDs
  <2>2. n \in 0 .. MaxPackets /\ toggle[e] \in {0, 1} /\ 1 \in 1 .. MaxPackets + 1
    <3>1. toggle[e] \in {0, 1}
      BY DEF UsbTypes
    <3>2. n \in 0 .. MaxPackets /\ 1 \in 1 .. MaxPackets + 1
      BY UsbDiskAssumption
    <3> QED BY <3>1, <3>2
  <2> QED BY <1>1, <2>1, <2>2 DEF TransferSet
<1>2. CASE controller # "ehci"
  <2>1. t = [state |-> "done", left |-> 0, size |-> 0, toggle |-> 0, place |-> 1]
    BY <1>2 DEF Unlinked, Off
  <2>2. 0 \in 0 .. MaxPackets /\ 1 \in 1 .. MaxPackets + 1 /\ 0 \in Nat
    BY UsbDiskAssumption
  <2> QED BY <1>2, <2>1, <2>2 DEF TransferSet
<1> QED BY <1>1, <1>2

\* The toggle of an endpoint that is in step moves on with its new transfer.
LEMMA NewTransferInStep ==
  ASSUME UsbTypes, NothingMoves, InStep, NEW e \in Endpoint, NEW n \in 1 .. MaxPackets, NEW size \in Nat,
         transfer'[e] = IF controller = "ehci" THEN LinkedTDs(e, n, size) ELSE Unlinked,
         \A ep \in Endpoint : ep # e => transfer'[ep] = transfer[ep] \/ transfer'[ep] = Off,
         \A ep \in Endpoint \ strayed : transfer[ep].state \in {"off", "done"},
         \A ep \in Endpoint \ strayed : ep # e => transfer'[ep].state = "off",
         toggle' = [toggle EXCEPT ![e] = Toggled(toggle[e], n, size)],
         strayed' = strayed \cup {x \in {e} : Active(e)},
         UNCHANGED <<controller, diskToggle>>,
         step' \in {"cbw", "data", "csw"}, Awaited' = e
  PROVE  /\ toggle' \in [Endpoint -> {0, 1}] /\ strayed' \subseteq Endpoint
         /\ InStep'
         /\ \A ep \in Endpoint : Active(ep)' => controller = "ehci"
<1>1. Toggled(toggle[e], n, size) = (toggle[e] + n) % 2 /\ toggle[e] \in {0, 1}
  BY DEF Toggled, UsbTypes
<1>2. (toggle[e] + n) % 2 \in {0, 1}
  BY <1>1
<1>3. /\ toggle' \in [Endpoint -> {0, 1}] /\ toggle'[e] = (toggle[e] + n) % 2
      /\ \A ep \in Endpoint : ep # e => toggle'[ep] = toggle[ep]
  BY <1>1, <1>2 DEF UsbTypes
<1>4. /\ transfer'[e].state \in {"active", "done"}
      /\ controller = "ehci" => /\ transfer'[e].state = "active" /\ transfer'[e].left = n
                                /\ transfer'[e].toggle = toggle[e]
      /\ controller # "ehci" => transfer'[e].state = "done"
  BY NewTransferIsTransfer
<1>5. \A ep \in Endpoint \ strayed : toggle[ep] = diskToggle[ep]
  BY DEF InStep
<1>6. controller # "ehci" => strayed = Endpoint
  BY UsbDiskAssumption DEF NothingMoves, UsbTypes
<1>7. ASSUME NEW ep \in Endpoint \ strayed'
      PROVE  /\ transfer'[ep].state # "off" => ep = e
             /\ transfer'[ep].state \in {"off", "done"} => toggle'[ep] = diskToggle'[ep]
             /\ transfer'[ep].state = "active" => /\ transfer'[ep].toggle = diskToggle'[ep]
                                                  /\ toggle'[ep] = (diskToggle'[ep] + transfer'[ep].left) % 2
  BY <1>3, <1>4, <1>5, <1>6, <1>7
<1>8. InStep'
  BY <1>7 DEF InStep, Active
<1>9. \A ep \in Endpoint : Active(ep)' => controller = "ehci"
  BY <1>4, OffTransfer, UsbDiskAssumption DEF Active, NothingMoves, UsbTypes
<1>10. strayed' \subseteq Endpoint
  BY DEF UsbTypes
<1> QED BY <1>3, <1>8, <1>9, <1>10

LEMMA FilledIs ==
  ASSUME UsbTypes, NEW packets, Filled(packets), \A i \in DOMAIN packets : packets[i] \in PacketSet
  PROVE  /\ raw' \in [1 .. MaxPackets -> PacketSet]
         /\ \A i \in 1 .. MaxPackets : i \in DOMAIN packets => raw'[i] = packets[i]
         /\ \A i \in 1 .. MaxPackets : i \notin DOMAIN packets => raw'[i] = raw[i]
BY DEF Filled, UsbTypes, UsbShapes

LEMMA SendCBWKeeps ==
  ASSUME UsbTypes, Steady, ReadsAreTheirOwn, SendCBW
  PROVE  UsbTypes' /\ Steady' /\ ReadsAreTheirOwn'
<1> DEFINE cbw == Packet(sends + 1, "cbw", Packets, What)
<1>1. /\ step = "issue" /\ sends < MaxSends /\ step' = "cbw" /\ sends' = sends + 1
      /\ cmd' = IF cmd.auto THEN cmd ELSE [cmd EXCEPT !.no = sends + 1]
      /\ transfer' = [transfer EXCEPT !["out"] = IF controller = "ehci" THEN LinkedTDs("out", 1,
        CBWSize) ELSE Unlinked]
      /\ toggle' = [toggle EXCEPT !["out"] = Toggled(toggle["out"], 1, CBWSize)]
      /\ Filled(<<cbw>>)
      /\ strayed' = strayed \cup {ep \in {"out"} : Active("out")}
      /\ UNCHANGED <<controller, key, buffer, opened, last, device, halted, diskToggle, executed>>
  BY DEF SendCBW, Begin, deviceVars
<1>2. /\ sends + 1 \in 0 .. MaxSends /\ sends + 1 # 0 /\ sends' \in 0 .. MaxSends
      /\ 1 \in 1 .. MaxPackets /\ CBWSize \in Nat /\ "out" \in Endpoint
  BY <1>1, UsbDiskAssumption DEF UsbTypes, CBWSize, Endpoint
<1>3. Packets \in 0 .. MaxPackets /\ What \in Info
  <2>1. cmd.packets \in 0 .. MaxPackets /\ cmd.kind \in Kind
    BY DEF UsbTypes, UsbShapes, CommandSet
  <2> QED BY <1>2, <2>1 DEF Packets, What, Info
<1>4. cbw \in PacketSet
  BY <1>2, <1>3, PacketIsPacket
<1> HIDE DEF cbw
<1>5. /\ raw' \in [1 .. MaxPackets -> PacketSet] /\ raw'[1] = cbw
      /\ \A i \in 1 .. MaxPackets : i # 1 => raw'[i] = raw[i]
  <2>1. DOMAIN <<cbw>> = {1} /\ <<cbw>>[1] = cbw
    OBVIOUS
  <2> QED BY <1>1, <1>2, <1>4, <2>1, FilledIs
<1>6. cbw.what = "cbw" /\ cbw.no # 0
  BY <1>2 DEF cbw, Packet
<1>7. /\ cmd' \in CommandSet /\ cmd'.kind = cmd.kind /\ cmd'.packets = cmd.packets /\ cmd'.auto = cmd.auto
      /\ ~cmd.auto => cmd'.no = sends + 1
  BY <1>1, <1>2 DEF UsbTypes, UsbShapes, CommandSet
<1>8. \A ep \in Endpoint \ strayed : transfer[ep].state = "off"
  BY <1>1 DEF Steady, InStep
<1> DEFINE t == transfer'["out"]
<1>9. /\ t = IF controller = "ehci" THEN LinkedTDs("out", 1, CBWSize) ELSE Unlinked
      /\ transfer'["in"] = transfer["in"]
  BY <1>1 DEF UsbTypes, UsbShapes, Endpoint
<1>10. /\ t \in TransferSet /\ t.state \in {"active", "done"}
       /\ controller = "ehci" => /\ t.state = "active" /\ t.left = 1 /\ t.size = CBWSize
                                 /\ t.toggle = toggle["out"] /\ t.place = 1
       /\ controller # "ehci" => t.state = "done"
  BY <1>2, <1>9, NewTransferIsTransfer
<1>11. transfer' \in [Endpoint -> TransferSet]
  BY <1>1, <1>9, <1>10 DEF UsbTypes, UsbShapes, Endpoint
<1>12. Awaited' = "out"
  BY <1>1 DEF Awaited
<1>13. /\ toggle' \in [Endpoint -> {0, 1}] /\ strayed' \subseteq Endpoint
       /\ InStep'
       /\ \A ep \in Endpoint : Active(ep)' => controller = "ehci"
  <2>1. \A ep \in Endpoint : ep # "out" => transfer'[ep] = transfer[ep]
    BY <1>9 DEF Endpoint
  <2>2. \A ep \in Endpoint \ strayed : ep # "out" => transfer'[ep].state = "off"
    BY <1>8, <2>1
  <2>3. step' \in {"cbw", "data", "csw"}
    BY <1>1
  <2> HIDE DEF t
  <2> QED BY <1>1, <1>2, <1>8, <1>9, <1>12, <2>1, <2>2, <2>3, NewTransferInStep DEF Steady, t
<1>14. \A ep \in Endpoint : Active(ep)' => /\ transfer'[ep].left # 0
                                           /\ transfer'[ep].place + transfer'[ep].left <= MaxPackets + 1
  <2>1. Active("out")' => t.left # 0 /\ t.place + t.left <= MaxPackets + 1
    BY <1>2, <1>10, UsbDiskAssumption DEF Active
  <2>2. Active("in")' => /\ transfer'["in"].left # 0
                         /\ transfer'["in"].place + transfer'["in"].left <= MaxPackets + 1
    BY <1>9 DEF Active, UsbTypes, UsbShapes, Endpoint
  <2> QED BY <2>1, <2>2 DEF Endpoint
<1>15. UsbTypes'
  <2>1. \A i \in 1 .. MaxPackets : raw'[i].what = "cbw" => raw'[i].no # 0
    BY <1>5, <1>6 DEF UsbTypes, UsbShapes
  <2> QED BY <1>1, <1>2, <1>5, <1>7, <1>11, <1>13, <1>14, <2>1 DEF UsbTypes, UsbShapes
<1>16. NothingMoves'
  <2>1. \A i \in 1 .. MaxPackets : controller = "uhci" => raw'[i].what # "csw"
    BY <1>5, <1>6 DEF Steady, NothingMoves
  <2>2. controller = "uhci" => strayed' = Endpoint
    BY <1>1, <1>13 DEF Steady, NothingMoves
  <2> QED BY <1>1, <1>13, <2>1, <2>2 DEF NothingMoves
<1>17. AtCBW'
  <2> SUFFICES ASSUME ReadNow'
               PROVE  /\ t.size = CBWSize /\ t.place = 1 /\ t.left = 1
                      /\ raw'[1] = Packet(cmd'.no, "cbw", cmd'.packets, "read")
                      /\ ~Done("out")'
    BY DEF AtCBW
  <2>1. controller = "ehci" /\ ~cmd.auto /\ cmd.kind = "read"
    BY <1>1, <1>7 DEF ReadNow
  <2>2. cbw = Packet(cmd'.no, "cbw", cmd'.packets, "read")
    BY <1>7, <2>1 DEF cbw, Packets, What
  <2> QED BY <1>5, <1>10, <2>1, <2>2 DEF Done
<1>18. AtData' /\ AtCSW'
  BY <1>1 DEF AtData, AtCSW
<1> QED BY <1>1, <1>13, <1>15, <1>16, <1>17, <1>18 DEF Steady, ReadsAreTheirOwn

\* The endpoint is not in step any more if its transfer was still moving.
Overtaken(e) == strayed \cup {x \in {e} : Active(e)}

\* One transfer is over, and the next is linked, to the same endpoint or to the other.
LEMMA NextTransfer ==
  ASSUME UsbTypes, NothingMoves, InStep, NEW old \in Endpoint, NEW e \in Endpoint, NEW n \in 1 .. MaxPackets,
         NEW size \in Nat, Done(old), Awaited = old, step \in {"cbw", "data", "csw"},
         Finish(old, e, n, size),
         toggle' = [toggle EXCEPT ![e] = Toggled(toggle[e], n, size)],
         strayed' = Overtaken(e),
         UNCHANGED <<controller, diskToggle>>,
         step' \in {"cbw", "data", "csw"}, Awaited' = e
  PROVE  /\ transfer' \in [Endpoint -> TransferSet]
         /\ \A ep \in Endpoint : ep # e => transfer'[ep] = transfer[ep] \/ transfer'[ep] = Off
         /\ old # e => transfer'[old] = Off
         /\ controller = "ehci" => /\ transfer'[e].state = "active" /\ transfer'[e].left = n
                                   /\ transfer'[e].size = size /\ transfer'[e].place = 1
         /\ controller # "ehci" => transfer'[e].state = "done"
         /\ \A ep \in Endpoint : Active(ep)' => /\ transfer'[ep].left # 0
                                                /\ transfer'[ep].place + transfer'[ep].left <= MaxPackets + 1
         /\ toggle' \in [Endpoint -> {0, 1}] /\ strayed' \subseteq Endpoint
         /\ InStep'
         /\ \A ep \in Endpoint : Active(ep)' => controller = "ehci"
<1> DEFINE t == IF controller = "ehci" THEN LinkedTDs(e, n, size) ELSE Unlinked
<1>1. transfer' = [transfer EXCEPT ![old] = Off, ![e] = t]
  BY DEF Finish
<1>2. /\ t \in TransferSet /\ t.state \in {"active", "done"}
      /\ controller = "ehci" => /\ t.state = "active" /\ t.left = n /\ t.size = size
                                /\ t.toggle = toggle[e] /\ t.place = 1
      /\ controller # "ehci" => t.state = "done"
  BY NewTransferIsTransfer
<1> HIDE DEF t
<1>3. transfer \in [Endpoint -> TransferSet] /\ Off \in TransferSet /\ Off.state = "off"
  BY OffTransfer DEF UsbTypes, UsbShapes
<1>4. /\ transfer' \in [Endpoint -> TransferSet] /\ transfer'[e] = t
      /\ \A ep \in Endpoint : ep # e => transfer'[ep] = IF ep = old THEN Off ELSE transfer[ep]
  BY <1>1, <1>2, <1>3
<1>5. \A ep \in Endpoint \ strayed : ep # old => transfer[ep].state = "off"
  BY DEF InStep
<1>6. \A ep \in Endpoint \ strayed : transfer[ep].state \in {"off", "done"}
  BY <1>5 DEF Done
<1>7. \A ep \in Endpoint \ strayed : ep # e => transfer'[ep].state = "off"
  BY <1>3, <1>4, <1>5
<1>8. \A ep \in Endpoint : ep # e => transfer'[ep] = transfer[ep] \/ transfer'[ep] = Off
  BY <1>4
<1>9. transfer'[e] = IF controller = "ehci" THEN LinkedTDs(e, n, size) ELSE Unlinked
  BY <1>4 DEF t
<1>10. /\ toggle' \in [Endpoint -> {0, 1}] /\ strayed' \subseteq Endpoint
       /\ InStep'
       /\ \A ep \in Endpoint : Active(ep)' => controller = "ehci"
  BY <1>6, <1>7, <1>8, <1>9, NewTransferInStep DEF Overtaken
<1>11. ASSUME NEW ep \in Endpoint, Active(ep)'
       PROVE  transfer'[ep].left # 0 /\ transfer'[ep].place + transfer'[ep].left <= MaxPackets + 1
  <2>1. CASE ep = e
    BY <1>2, <1>4, <1>11, <2>1, UsbDiskAssumption DEF Active
  <2>2. CASE ep # e
    <3>1. transfer'[ep] = transfer[ep] /\ Active(ep)
      BY <1>3, <1>8, <1>11, <2>2 DEF Active
    <3> QED BY <3>1 DEF UsbTypes, UsbShapes
  <2> QED BY <2>1, <2>2
<1> QED BY <1>2, <1>4, <1>8, <1>10, <1>11

LEMMA BeginDataKeeps ==
  ASSUME UsbTypes, Steady, ReadsAreTheirOwn, BeginData
  PROVE  UsbTypes' /\ Steady' /\ ReadsAreTheirOwn'
<1> DEFINE ep == Direction(What)
           e == IF Packets = 0 THEN "in" ELSE ep
           n == IF Packets = 0 THEN 1 ELSE Packets
           size == IF Packets = 0 THEN CSWSize ELSE PacketSize[What]
<1>1. /\ step = "cbw" /\ Done("out") /\ Awaited = "out"
      /\ UNCHANGED <<controller, cmd, sends, key, buffer, opened, last, device, halted, diskToggle, executed>>
      /\ step' = IF Packets = 0 THEN "csw" ELSE "data"
      /\ Finish("out", e, n, size)
      /\ toggle' = [toggle EXCEPT ![e] = Toggled(toggle[e], n, size)]
      /\ strayed' = Overtaken(e)
  BY DEF BeginData, deviceVars, ReadCSW, Awaited, Overtaken
<1>2. cmd \in CommandSet /\ cmd.kind # "none" /\ (cmd.packets = 0 <=> cmd.kind = "ready")
  BY <1>1 DEF UsbTypes, UsbShapes
<1>3. /\ ep \in Endpoint /\ e \in Endpoint /\ "out" \in Endpoint
      /\ n \in 1 .. MaxPackets /\ size \in Nat
  <2>1. ep \in Endpoint /\ e \in Endpoint /\ "out" \in Endpoint
    BY DEF Direction, Endpoint
  <2>2. Packets \in 0 .. MaxPackets
    BY <1>2, UsbDiskAssumption DEF Packets, CommandSet
  <2>3. n \in 1 .. MaxPackets
    BY <2>2, UsbDiskAssumption
  <2>4. CASE Packets = 0
    BY <2>1, <2>3, <2>4 DEF CSWSize
  <2>5. CASE Packets # 0
    <3>1. cmd.kind = "ready" => cmd.auto \/ cmd.packets # 0
      BY <2>5 DEF Packets
    <3>2. What \in {"inquiry", "capacity", "sense", "read", "write", "ready"}
      BY <1>2 DEF What, CommandSet, Kind
    <3>3. What # "ready"
      BY <1>2, <2>5 DEF What, Packets, UsbTypes, UsbShapes
    <3>4. PacketSize[What] \in Nat
      BY <3>2, <3>3 DEF PacketSize
    <3> QED BY <2>1, <2>3, <2>5, <3>4
  <2> QED BY <2>4, <2>5
<1>4. Awaited' = e /\ step' \in {"cbw", "data", "csw"}
  BY <1>1 DEF Awaited, What
<1>5. e = "out" => e = ep /\ Packets # 0
  OBVIOUS
<1> HIDE DEF n, size
<1>6. /\ transfer' \in [Endpoint -> TransferSet]
      /\ \A x \in Endpoint : x # e => transfer'[x] = transfer[x] \/ transfer'[x] = Off
      /\ "out" # e => transfer'["out"] = Off
      /\ controller = "ehci" => /\ transfer'[e].state = "active" /\ transfer'[e].left = n
                                /\ transfer'[e].size = size /\ transfer'[e].place = 1
      /\ controller # "ehci" => transfer'[e].state = "done"
      /\ \A x \in Endpoint : Active(x)' => /\ transfer'[x].left # 0
                                           /\ transfer'[x].place + transfer'[x].left <= MaxPackets + 1
      /\ toggle' \in [Endpoint -> {0, 1}] /\ strayed' \subseteq Endpoint
      /\ InStep'
      /\ \A x \in Endpoint : Active(x)' => controller = "ehci"
  BY ZenonT(40), <1>1, <1>3, <1>4, NextTransfer DEF Steady
<1>7. /\ raw' \in [1 .. MaxPackets -> PacketSet]
      /\ \A i \in 1 .. MaxPackets : raw'[i] = raw[i] \/ raw'[i].what = "data"
  <2>1. CASE raw' = raw
    BY <2>1 DEF UsbTypes, UsbShapes
  <2>2. CASE Filled([i \in 1 .. Packets |-> Packet(cmd.no, "data", i, "none")])
    <3> DEFINE ps == [i \in 1 .. Packets |-> Packet(cmd.no, "data", i, "none")]
    <3>1. ASSUME NEW i \in 1 .. Packets PROVE ps[i] \in PacketSet /\ ps[i].what = "data"
      <4>1. cmd.no \in 0 .. MaxSends /\ i \in 0 .. MaxPackets /\ "none" \in Info
        BY <1>2, UsbDiskAssumption DEF CommandSet, Packets, Info, Kind
      <4>2. Packet(cmd.no, "data", i, "none") \in PacketSet
        BY <4>1, PacketIsPacket
      <4> QED BY <4>2 DEF Packet
    <3>2. DOMAIN ps = 1 .. Packets
      OBVIOUS
    <3> HIDE DEF ps
    <3>3. \A i \in DOMAIN ps : ps[i] \in PacketSet
      BY <3>1, <3>2
    <3>4. Filled(ps)
      BY <2>2 DEF ps
    <3>5. /\ raw' \in [1 .. MaxPackets -> PacketSet]
          /\ \A i \in 1 .. MaxPackets : i \in DOMAIN ps => raw'[i] = ps[i]
          /\ \A i \in 1 .. MaxPackets : i \notin DOMAIN ps => raw'[i] = raw[i]
      BY <3>3, <3>4, FilledIs
    <3> QED BY <3>1, <3>2, <3>5
  <2>3. raw' = raw \/ Filled([i \in 1 .. Packets |-> Packet(cmd.no, "data", i, "none")])
    BY DEF BeginData
  <2> QED BY <2>1, <2>2, <2>3
<1>8. UsbTypes'
  <2>1. \A i \in 1 .. MaxPackets : raw'[i].what = "cbw" => raw'[i].no # 0
    BY <1>7 DEF UsbTypes, UsbShapes
  <2>2. step' \in {"idle", "issue", "cbw", "data", "csw", "reset", "clear in", "clear out"}
    BY <1>4
  <2> QED BY <1>1, <1>2, <1>6, <1>7, <2>1, <2>2 DEF UsbTypes, UsbShapes
<1>9. NothingMoves'
  <2>1. controller = "uhci" => \A i \in 1 .. MaxPackets : raw'[i].what # "csw"
    BY <1>7 DEF Steady, NothingMoves
  <2>2. controller = "uhci" => strayed' = Endpoint
    BY <1>1, <1>6 DEF Steady, NothingMoves, Overtaken
  <2> QED BY <1>1, <1>6, <2>1, <2>2 DEF NothingMoves
\* A read goes on with its data phase.
<1>10. ASSUME ReadNow'
       PROVE  /\ controller = "ehci" /\ ReadNow /\ step' = "data" /\ e = "in" /\ n = cmd.packets
              /\ size = PacketSize["read"] /\ cmd.packets \in 1 .. MaxPackets
  <2>1. controller = "ehci" /\ ~cmd.auto /\ cmd.kind = "read"
    BY <1>1, <1>10 DEF ReadNow
  <2>2. Packets = cmd.packets /\ What = "read" /\ ep = "in" /\ Packets # 0
    BY <1>2, <2>1 DEF Packets, What, Direction
  <2> QED BY <1>1, <1>2, <2>1, <2>2, UsbDiskAssumption DEF n, size, ReadNow, CommandSet
<1>11. AtData'
  <2> SUFFICES ASSUME ReadNow'
               PROVE  /\ ~Active("out")' /\ transfer'["in"].size = PacketSize["read"]
                      /\ ~Done("in")'
                      /\ transfer'["in"].place + transfer'["in"].left = cmd.packets + 1
                      /\ \/ Hopeless'
                         \/ Mine' /\ device.phase = "csw"
                         \/ /\ Mine' /\ device.phase = "data" /\ device.place >= transfer'["in"].place
                            /\ device.place = transfer'["in"].place =>
                                 \A i \in 1 .. device.place - 1 : raw'[i] = Own(i)'
    BY <1>1, Zenon DEF AtData
  <2>1. /\ ReadNow /\ n = cmd.packets /\ size = PacketSize["read"] /\ e = "in" /\ controller = "ehci"
        /\ cmd.packets \in 1 .. MaxPackets
    BY <1>10
  <2>2. /\ transfer'["in"].state = "active" /\ transfer'["in"].left = cmd.packets
        /\ transfer'["in"].size = PacketSize["read"] /\ transfer'["in"].place = 1
        /\ transfer'["out"] = Off
    BY <1>6, <2>1
  <2>3. Hopeless \/ (Mine /\ device.phase \in {"data", "csw"})
    BY <1>1, <2>1 DEF Steady, AtCBW
  <2>4. device.place \in 1 .. MaxPackets
    BY DEF UsbTypes, UsbShapes, DeviceSet
  <2>5. ~Active("out")' /\ ~Done("in")'
    BY <2>2, OffTransfer DEF Active, Done
  <2>6. transfer'["in"].place + transfer'["in"].left = cmd.packets + 1
    BY <2>1, <2>2, UsbDiskAssumption
  <2>7. Hopeless' = Hopeless /\ Mine' = Mine
    BY <1>1 DEF Hopeless, Mute, Mine
  <2>8. device.place >= transfer'["in"].place
    BY <2>2, <2>4, UsbDiskAssumption
  <2>9. device.place = transfer'["in"].place => \A i \in 1 .. device.place - 1 : raw'[i] = Own(i)'
    BY <2>2
  <2> QED BY <2>2, <2>3, <2>5, <2>6, <2>7, <2>8, <2>9
<1>12. AtCBW'
  BY <1>1 DEF AtCBW
<1>13. AtCSW'
  BY <1>10 DEF AtCSW
<1> QED BY <1>1, <1>6, <1>8, <1>9, <1>11, <1>12, <1>13 DEF Steady, ReadsAreTheirOwn

LEMMA RawBegins ==
  ASSUME UsbTypes, NEW n \in 1 .. MaxPackets
  PROVE  SubSeq(raw, 1, n) = [i \in 1 .. n |-> raw[i]] /\ SubSeq(raw, 1, n) \in Seq(PacketSet)
<1>1. raw \in [1 .. MaxPackets -> PacketSet] /\ MaxPackets \in Nat
  BY UsbDiskAssumption DEF UsbTypes, UsbShapes
<1>2. raw \in Seq(PacketSet) /\ Len(raw) = MaxPackets
  BY <1>1
<1> DEFINE s == SubSeq(raw, 1, n)
<1>3. /\ s \in Seq(PacketSet) /\ Len(s) = n
      /\ \A i \in 1 .. n : s[i] = raw[i]
  BY <1>1, <1>2
<1>4. s = [i \in 1 .. n |-> raw[i]]
  <2> HIDE DEF s
  <2>1. s \in [1 .. n -> PacketSet]
    BY <1>3
  <2> QED BY <1>3, <2>1
<1> QED BY <1>3, <1>4

LEMMA BeginCSWKeeps ==
  ASSUME UsbTypes, Steady, ReadsAreTheirOwn, BeginCSW
  PROVE  UsbTypes' /\ Steady' /\ ReadsAreTheirOwn'
<1> DEFINE ep == Direction(What)
<1>1. /\ step = "data" /\ Done(ep) /\ Awaited = ep /\ step' = "csw"
      /\ Finish(ep, "in", 1, CSWSize)
      /\ toggle' = [toggle EXCEPT !["in"] = Toggled(toggle["in"], 1, CSWSize)]
      /\ strayed' = Overtaken("in")
      /\ UNCHANGED <<controller, cmd, sends, opened, last, raw, device, halted, diskToggle, executed>>
  BY DEF BeginCSW, deviceVars, ReadCSW, Awaited, Overtaken
<1>2. cmd \in CommandSet /\ cmd.kind # "none" /\ (cmd.packets = 0 <=> cmd.kind = "ready")
  BY <1>1 DEF UsbTypes, UsbShapes
<1>3. ep \in Endpoint /\ "in" \in Endpoint /\ 1 \in 1 .. MaxPackets /\ CSWSize \in Nat
  BY UsbDiskAssumption DEF Direction, Endpoint, CSWSize
<1>4. Awaited' = "in" /\ step' \in {"cbw", "data", "csw"}
  BY <1>1 DEF Awaited
<1>5. /\ transfer' \in [Endpoint -> TransferSet]
      /\ \A x \in Endpoint : x # "in" => transfer'[x] = transfer[x] \/ transfer'[x] = Off
      /\ controller = "ehci" => /\ transfer'["in"].state = "active" /\ transfer'["in"].left = 1
                                /\ transfer'["in"].size = CSWSize /\ transfer'["in"].place = 1
      /\ controller # "ehci" => transfer'["in"].state = "done"
      /\ \A x \in Endpoint : Active(x)' => /\ transfer'[x].left # 0
                                           /\ transfer'[x].place + transfer'[x].left <= MaxPackets + 1
      /\ toggle' \in [Endpoint -> {0, 1}] /\ strayed' \subseteq Endpoint
      /\ InStep'
      /\ \A x \in Endpoint : Active(x)' => controller = "ehci"
  <2>1. PICK old \in Endpoint, e \in Endpoint, n \in 1 .. MaxPackets, size \in Nat :
          /\ e = "in" /\ n = 1 /\ size = CSWSize
          /\ Done(old) /\ Awaited = old /\ step \in {"cbw", "data", "csw"}
          /\ Finish(old, e, n, size)
          /\ toggle' = [toggle EXCEPT ![e] = Toggled(toggle[e], n, size)]
          /\ strayed' = Overtaken(e)
          /\ step' \in {"cbw", "data", "csw"} /\ Awaited' = e
          /\ UNCHANGED <<controller, diskToggle>>
    BY <1>1, <1>3, <1>4
  <2>2. /\ UsbTypes /\ NothingMoves /\ InStep
        /\ Done(old) /\ Awaited = old /\ step \in {"cbw", "data", "csw"}
        /\ Finish(old, e, n, size)
        /\ toggle' = [toggle EXCEPT ![e] = Toggled(toggle[e], n, size)]
        /\ strayed' = Overtaken(e)
        /\ step' \in {"cbw", "data", "csw"} /\ Awaited' = e
        /\ UNCHANGED <<controller, diskToggle>>
    BY <2>1 DEF Steady
  <2>3. /\ transfer' \in [Endpoint -> TransferSet]
        /\ \A x \in Endpoint : x # e => transfer'[x] = transfer[x] \/ transfer'[x] = Off
        /\ old # e => transfer'[old] = Off
        /\ controller = "ehci" => /\ transfer'[e].state = "active" /\ transfer'[e].left = n
                                  /\ transfer'[e].size = size /\ transfer'[e].place = 1
        /\ controller # "ehci" => transfer'[e].state = "done"
        /\ \A x \in Endpoint : Active(x)' => /\ transfer'[x].left # 0
                                             /\ transfer'[x].place + transfer'[x].left <= MaxPackets + 1
        /\ toggle' \in [Endpoint -> {0, 1}] /\ strayed' \subseteq Endpoint
        /\ InStep'
        /\ \A x \in Endpoint : Active(x)' => controller = "ehci"
    BY <2>2, NextTransfer
  <2> QED BY <2>1, <2>3
<1>6. key' \in Key /\ buffer' \in Seq(PacketSet)
  <2>1. KeyIn(raw[1]) \in Key
    BY DEF KeyIn, Key
  <2>2. CASE cmd.auto
    BY <2>1, <2>2 DEF BeginCSW, UsbTypes, UsbShapes
  <2>3. CASE ~cmd.auto /\ ep = "in"
    <3>1. buffer' = SubSeq(raw, 1, Packets) /\ key' = key
      BY <2>3 DEF BeginCSW
    <3>2. CASE Packets \in 1 .. MaxPackets
      BY <3>1, <3>2, RawBegins DEF UsbTypes
    <3>3. CASE Packets = 0
      <4>1. raw \in [1 .. MaxPackets -> PacketSet] /\ MaxPackets \in Nat
        BY UsbDiskAssumption DEF UsbTypes, UsbShapes
      <4>2. raw \in Seq(PacketSet)
        BY <4>1
      <4>3. SubSeq(raw, 1, 0) = <<>>
        BY <4>2
      <4>4. <<>> \in Seq(PacketSet)
        OBVIOUS
      <4> QED BY <3>1, <3>3, <4>3, <4>4 DEF UsbTypes
    <3>4. Packets \in 0 .. MaxPackets
      BY <1>2, <2>3 DEF Packets, CommandSet
    <3> QED BY <3>2, <3>3, <3>4, UsbDiskAssumption
  <2>4. CASE ~cmd.auto /\ ep # "in"
    BY <2>4 DEF BeginCSW, UsbTypes, UsbShapes
  <2> QED BY <2>2, <2>3, <2>4
<1>7. UsbTypes'
  <2>1. step' \in {"idle", "issue", "cbw", "data", "csw", "reset", "clear in", "clear out"}
    BY <1>1
  <2> QED BY <1>1, <1>2, <1>5, <1>6, <2>1 DEF UsbTypes, UsbShapes
<1>8. NothingMoves'
  <2>1. controller = "uhci" => strayed' = Endpoint
    BY <1>1, <1>5 DEF Steady, NothingMoves, Overtaken
  <2> QED BY <1>1, <1>5, <2>1 DEF Steady, NothingMoves
<1>9. AtCSW'
  <2> SUFFICES ASSUME ReadNow'
               PROVE  /\ ~Active("out")' /\ ~Done("in")'
                      /\ transfer'["in"].size = CSWSize /\ transfer'["in"].left = 1 /\ transfer'["in"].place = 1
                      /\ \/ Hopeless'
                         \/ Mine' /\ device.phase = "csw" /\ buffer' = [i \in 1 .. cmd.packets |-> Own(i)']
    BY <1>1, Zenon DEF AtCSW
  <2>1. controller = "ehci" /\ ~cmd.auto /\ cmd.kind = "read" /\ ReadNow
    BY <1>1 DEF ReadNow
  <2>2. Packets = cmd.packets /\ ep = "in" /\ Packets \in 1 .. MaxPackets
    BY <1>2, <2>1, UsbDiskAssumption DEF Packets, What, Direction, CommandSet
  <2>3. /\ ~Active("out")
        /\ Hopeless \/ (Mine /\ device.phase = "csw" /\ \A i \in 1 .. cmd.packets : raw[i] = Own(i))
    BY <1>1, <2>1, <2>2 DEF Steady, AtData
  <2>4. buffer' = [i \in 1 .. cmd.packets |-> raw[i]]
    <3>1. buffer' = SubSeq(raw, 1, Packets)
      BY <2>1, <2>2 DEF BeginCSW
    <3> QED BY <2>2, <3>1, RawBegins
  <2>5. ~Active("out")' /\ ~Done("in")'
    BY <1>5, <2>1, <2>3, OffTransfer DEF Active, Done, Endpoint
  <2>6. Hopeless' = Hopeless /\ Mine' = Mine /\ \A i : Own(i)' = Own(i)
    BY <1>1 DEF Hopeless, Mute, Mine, Own
  <2>7. CASE Hopeless
    BY <1>5, <2>1, <2>5, <2>6, <2>7
  <2>8. CASE Mine /\ device.phase = "csw" /\ \A i \in 1 .. cmd.packets : raw[i] = Own(i)
    <3>1. [i \in 1 .. cmd.packets |-> raw[i]] = [i \in 1 .. cmd.packets |-> Own(i)']
      BY <2>6, <2>8
    <3> QED BY <1>5, <2>1, <2>4, <2>5, <2>6, <2>8, <3>1
  <2> QED BY <2>3, <2>7, <2>8
<1>10. AtCBW' /\ AtData'
  BY <1>1 DEF AtCBW, AtData
<1> QED BY <1>1, <1>5, <1>7, <1>8, <1>9, <1>10 DEF Steady, ReadsAreTheirOwn

-----------------------------------------------------------------------------
(* The device *)

\* A transfer stops, and nothing else changes.
HaltedBy(e) ==
  /\ Active(e)
  /\ transfer' = [transfer EXCEPT ![e].state = "halted"]
  /\ UNCHANGED <<controller, step, cmd, sends, key, buffer, opened, last, toggle, raw, device, halted,
                 diskToggle, executed, strayed>>

LEMMA HaltedKeeps ==
  ASSUME UsbTypes, Steady, ReadsAreTheirOwn, NEW e \in Endpoint, HaltedBy(e)
  PROVE  UsbTypes' /\ Steady' /\ ReadsAreTheirOwn'
<1>1. /\ Active(e)
      /\ transfer' = [transfer EXCEPT ![e].state = "halted"]
      /\ UNCHANGED <<controller, step, cmd, sends, key, buffer, opened, last, toggle, raw, device, halted,
                     diskToggle, executed, strayed>>
  BY DEF HaltedBy
<1>2. transfer \in [Endpoint -> TransferSet]
  BY DEF UsbTypes, UsbShapes
<1>3. /\ transfer' \in [Endpoint -> TransferSet] /\ transfer'[e].state = "halted"
      /\ \A ep \in Endpoint : ep # e => transfer'[ep] = transfer[ep]
      /\ \A ep \in Endpoint : transfer'[ep].size = transfer[ep].size
  BY <1>1, <1>2 DEF TransferSet
<1>4. \A ep \in Endpoint :
        (Active(ep)' => transfer'[ep] = transfer[ep]) /\ (Done(ep)' => transfer'[ep] = transfer[ep])
  BY <1>3 DEF Active, Done
<1>5. UsbTypes'
  <2>1. \A ep \in Endpoint : Active(ep)' => /\ transfer'[ep].left # 0
                                            /\ transfer'[ep].place + transfer'[ep].left <= MaxPackets + 1
    BY <1>4 DEF UsbTypes, UsbShapes, Active
  <2> QED BY <1>1, <1>3, <2>1 DEF UsbTypes, UsbShapes
<1>6. NothingMoves'
  BY <1>1, <1>4 DEF Steady, NothingMoves, Active
<1>7. InStep'
  <2>1. Awaited' = Awaited
    BY <1>1 DEF Awaited, What
  <2> SUFFICES ASSUME NEW ep \in Endpoint \ strayed
               PROVE  /\ transfer'[ep].state # "off" => step \in {"cbw", "data", "csw"} /\ ep = Awaited
                      /\ transfer'[ep].state \in {"off", "done"} => toggle[ep] = diskToggle[ep]
                      /\ Active(ep)' => /\ transfer'[ep].toggle = diskToggle[ep]
                                        /\ toggle[ep] = (diskToggle[ep] + transfer'[ep].left) % 2
    BY <1>1, <2>1 DEF InStep
  <2>2. CASE ep = e
    BY <1>1, <1>3, <2>2 DEF Steady, InStep, Active
  <2>3. CASE ep # e
    BY <1>3, <2>3 DEF Steady, InStep, Active
  <2> QED BY <2>2, <2>3
<1>8. AtCBW' /\ AtData' /\ AtCSW'
  <2>1. "in" \in Endpoint /\ "out" \in Endpoint
    BY DEF Endpoint
  <2>2. ReadNow' = ReadNow /\ Mine' = Mine /\ Hopeless' = Hopeless /\ \A i : Own(i)' = Own(i)
    BY <1>1 DEF ReadNow, Mine, Hopeless, Mute, Own
  <2>3. Done("out")' => Done("out")
    BY <1>4, <2>1 DEF Done
  <2>4. Done("in")' => Done("in")
    BY <1>4, <2>1 DEF Done
  <2>5. Active("in")' => Active("in") /\ transfer'["in"] = transfer["in"]
    BY <1>4, <2>1 DEF Active
  <2>6. ~Active("out") => ~Active("out")'
    BY <1>4, <2>1 DEF Active
  <2>7. AtCBW'
    <3>1. Active("out")' => Active("out") /\ transfer'["out"] = transfer["out"]
      BY <1>4, <2>1 DEF Active
    <3> QED BY <1>1, <1>3, <2>1, <2>2, <2>3, <3>1 DEF Steady, AtCBW
  <2>8. AtData'
    BY <1>1, <1>3, <2>1, <2>2, <2>4, <2>5, <2>6 DEF Steady, AtData
  <2>9. AtCSW'
    BY <1>1, <1>3, <2>1, <2>2, <2>4, <2>5, <2>6 DEF Steady, AtCSW
  <2> QED BY <2>7, <2>8, <2>9
<1> QED BY <1>1, <1>5, <1>6, <1>7, <1>8 DEF Steady, ReadsAreTheirOwn

LEMMA HaltsKeeps ==
  ASSUME UsbTypes, Steady, ReadsAreTheirOwn, NEW e \in Endpoint, Halts(e)
  PROVE  UsbTypes' /\ Steady' /\ ReadsAreTheirOwn'
<1>1. HaltedBy(e)
  BY DEF Halts, HaltedBy, callVars, deviceVars
<1> QED BY <1>1, HaltedKeeps

LEMMA StallsDataKeeps ==
  ASSUME UsbTypes, Steady, ReadsAreTheirOwn, StallsData
  PROVE  UsbTypes' /\ Steady' /\ ReadsAreTheirOwn'
<1>1. /\ device.phase = "data" /\ device.status = "fail"
      /\ device' = [device EXCEPT !.phase = "csw"]
      /\ halted' = halted \cup {Direction(device.kind)}
      /\ UNCHANGED <<controller, step, cmd, sends, key, buffer, opened, last, transfer, toggle, raw,
                     diskToggle, executed, strayed>>
  BY DEF StallsData, callVars, busVars
<1>2. /\ device' \in DeviceSet /\ device'.phase = "csw" /\ device'.status = "fail" /\ device'.no = device.no
      /\ device'.kind = device.kind
  BY <1>1 DEF UsbTypes, UsbShapes, DeviceSet
<1>3. UsbTypes'
  <2>1. halted' \subseteq Endpoint
    BY <1>1 DEF UsbTypes, Direction, Endpoint
  <2> QED BY <1>1, <1>2, <2>1 DEF UsbTypes, UsbShapes, Active
<1>4. Hopeless'
  BY <1>2 DEF Hopeless
<1>5. NothingMoves' /\ InStep'
  BY <1>1 DEF Steady, NothingMoves, InStep, Active, Awaited, What
<1>6. AtCBW' /\ AtData' /\ AtCSW'
  BY <1>1, <1>4 DEF Steady, AtCBW, AtData, AtCSW, ReadNow, Done, Active
<1> QED BY <1>1, <1>3, <1>5, <1>6 DEF Steady, ReadsAreTheirOwn

\* One packet of a transfer has moved.
LEMMA MovedOn ==
  ASSUME UsbTypes, NEW e \in Endpoint, Active(e), NEW t, t = Moved(e, transfer[e])
  PROVE  /\ t \in TransferSet /\ t.state \in {"active", "done"} /\ t.size = transfer[e].size
         /\ t.left = transfer[e].left - 1 /\ t.place = transfer[e].place + 1
         /\ t.toggle = 1 - transfer[e].toggle
         /\ t.state = "done" <=> t.left = 0
         /\ t.state = "active" => t.left # 0 /\ t.place + t.left <= MaxPackets + 1
<1> DEFINE u == transfer[e]
<1>1. u \in TransferSet /\ u.left # 0 /\ u.place + u.left <= MaxPackets + 1 /\ MaxPackets \in Nat
  BY UsbDiskAssumption DEF UsbTypes, UsbShapes
<1>2. PICK s \in {"off", "active", "halted", "done"}, l \in 0 .. MaxPackets, z \in Nat, g \in {0, 1},
           p \in 1 .. MaxPackets + 1 :
           u = [state |-> s, left |-> l, size |-> z, toggle |-> g, place |-> p]
  BY <1>1 DEF TransferSet
<1> HIDE DEF u
<1>3. t = [state |-> IF l = 1 THEN "done" ELSE "active", left |-> l - 1, size |-> z, toggle |-> 1 - g,
  place |-> p + 1]
  <2>1. t = [u EXCEPT !.left = u.left - 1, !.place = u.place + 1, !.toggle = 1 - u.toggle,
                      !.state = IF u.left = 1 THEN "done" ELSE "active"]
    BY DEF Moved, u
  <2> QED BY <1>2, <2>1
<1>4. l # 0 /\ p + l <= MaxPackets + 1 /\ u.left = l /\ u.place = p /\ u.toggle = g /\ u.size = z
  BY <1>1, <1>2
<1>5. l - 1 \in 0 .. MaxPackets /\ p + 1 \in 1 .. MaxPackets + 1 /\ 1 - g \in {0, 1}
  BY <1>1, <1>4
<1>6. t \in TransferSet
  BY <1>3, <1>5 DEF TransferSet
<1>7. (t.state = "done" <=> t.left = 0) /\ t.state \in {"active", "done"}
  BY <1>3, <1>4
<1>8. t.state = "active" => t.left # 0 /\ t.place + t.left <= MaxPackets + 1
  BY <1>1, <1>3, <1>4, <1>7
<1> QED BY <1>3, <1>4, <1>6, <1>7, <1>8 DEF u

\* Toggles keep agreeing when both sides move one on.
LEMMA OneMoreAgrees ==
  ASSUME NEW d \in {0, 1}, NEW g \in {0, 1}, NEW l \in Nat, l # 0, g = (d + l) % 2
  PROVE  /\ g = ((1 - d) + (l - 1)) % 2
         /\ l - 1 = 0 => g = 1 - d
<1>1. CASE d = 0
  BY <1>1
<1>2. CASE d = 1
  <2>1. (1 + l) % 2 = (l - 1) % 2
    OBVIOUS
  <2> QED BY <1>2, <2>1
<1> QED BY <1>1, <1>2

LEMMA MovedInStep ==
  ASSUME UsbTypes, NothingMoves, InStep, NEW e \in Endpoint, Active(e),
         transfer' = [transfer EXCEPT ![e] = Moved(e, transfer[e])],
         transfer[e].toggle = diskToggle[e],
         diskToggle' = [diskToggle EXCEPT ![e] = 1 - diskToggle[e]],
         UNCHANGED <<controller, step, cmd, toggle, strayed>>
  PROVE  InStep'
<1> DEFINE t == Moved(e, transfer[e])
<1>1. /\ t \in TransferSet /\ t.state \in {"active", "done"}
      /\ t.left = transfer[e].left - 1
      /\ t.toggle = 1 - transfer[e].toggle
      /\ t.state = "done" <=> t.left = 0
  BY MovedOn
<1> HIDE DEF t
<1>2. /\ transfer'[e] = t /\ \A ep \in Endpoint : ep # e => transfer'[ep] = transfer[ep]
      /\ diskToggle'[e] = 1 - diskToggle[e] /\ \A ep \in Endpoint : ep # e => diskToggle'[ep] = diskToggle[ep]
  BY DEF UsbTypes, UsbShapes, t
<1>3. Awaited' = Awaited
  BY DEF Awaited, What
<1> SUFFICES ASSUME NEW ep \in Endpoint \ strayed
             PROVE  /\ transfer'[ep].state # "off" => step \in {"cbw", "data", "csw"} /\ ep = Awaited
                    /\ transfer'[ep].state \in {"off", "done"} => toggle[ep] = diskToggle'[ep]
                    /\ Active(ep)' => /\ transfer'[ep].toggle = diskToggle'[ep]
                                      /\ toggle[ep] = (diskToggle'[ep] + transfer'[ep].left) % 2
  BY <1>3 DEF InStep
<1>4. CASE ep = e
  <2>1. step \in {"cbw", "data", "csw"} /\ ep = Awaited /\ toggle[e] = (diskToggle[e] + transfer[e].left) % 2
    BY <1>4 DEF InStep, Active
  <2>2. diskToggle[e] \in {0, 1} /\ toggle[e] \in {0, 1} /\ transfer[e].left \in Nat /\ transfer[e].left # 0
    <3>1. diskToggle[e] \in {0, 1} /\ toggle[e] \in {0, 1}
      BY DEF UsbTypes
    <3>2. transfer[e] \in TransferSet /\ transfer[e].left # 0
      BY DEF UsbTypes, UsbShapes
    <3>3. transfer[e].left \in Nat
      BY <3>2, UsbDiskAssumption DEF TransferSet
    <3> QED BY <3>1, <3>2, <3>3
  <2>3. /\ toggle[e] = ((1 - diskToggle[e]) + (transfer[e].left - 1)) % 2
        /\ transfer[e].left - 1 = 0 => toggle[e] = 1 - diskToggle[e]
    BY <2>1, <2>2, OneMoreAgrees
  <2> QED BY <1>1, <1>2, <1>4, <2>1, <2>3 DEF Active
<1>5. CASE ep # e
  BY <1>2, <1>5 DEF InStep, Active
<1> QED BY <1>4, <1>5

\* What becomes of the device when a packet reaches it.
LEMMA AfterDataIs ==
  ASSUME UsbTypes, device.phase = "data", NEW d, d = AfterData
  PROVE  /\ d \in DeviceSet /\ d.no = device.no /\ d.kind = device.kind /\ d.packets = device.packets
         /\ d.status = device.status /\ d.got = device.got
         /\ \/ d.phase = "data" /\ device.place < device.packets /\ d.place = device.place + 1
            \/ d.phase = "csw" /\ device.place = device.packets
<1>1. device \in DeviceSet /\ device.place <= device.packets /\ MaxPackets \in Nat
  BY UsbDiskAssumption DEF UsbTypes, UsbShapes
<1>2. device.place \in 1 .. MaxPackets /\ device.packets \in 0 .. MaxPackets
  BY <1>1 DEF DeviceSet
<1>3. CASE device.place < device.packets
  <2>1. device.place + 1 \in 1 .. MaxPackets
    BY <1>1, <1>2, <1>3
  <2>2. d = [device EXCEPT !.place = device.place + 1]
    BY <1>3 DEF AfterData
  <2> QED BY <1>1, <1>3, <2>1, <2>2 DEF DeviceSet
<1>4. CASE ~(device.place < device.packets)
  <2>1. d = [device EXCEPT !.phase = "csw"] /\ device.place = device.packets
    BY <1>1, <1>2, <1>4 DEF AfterData
  <2> QED BY <1>1, <2>1 DEF DeviceSet
<1> QED BY <1>3, <1>4

LEMMA AcceptIs ==
  ASSUME UsbTypes, NEW packet \in PacketSet, packet.no # 0, NEW s \in Statuses(packet.info), Accept(packet, s)
  PROVE  /\ device' \in DeviceSet /\ device'.no = packet.no /\ device'.kind = packet.info
         /\ device'.packets = packet.place /\ device'.phase \in {"data", "csw"}
         /\ device'.phase = "data" => device'.place <= device'.packets
         /\ device'.kind = "read" => device'.status \in {"ok", "fail", "phase", "less"}
<1>1. device' = [phase |-> IF packet.place = 0 THEN "csw" ELSE "data", no |-> packet.no, kind |-> packet.info,
                 packets |-> packet.place, place |-> 1, got |-> <<>>, status |-> s]
  BY DEF Accept
<1>2. packet.no \in 0 .. MaxSends /\ packet.place \in 0 .. MaxPackets /\ packet.info \in Info
  BY DEF PacketSet
<1>3. s \in Info /\ (packet.info = "read" => s \in {"ok", "fail", "phase", "less"})
  BY DEF Statuses, Info, Key
<1>4. 1 \in 1 .. MaxPackets /\ <<>> \in Seq(PacketSet)
  <2>1. 1 \in 1 .. MaxPackets
    BY UsbDiskAssumption
  <2>2. <<>> \in Seq(PacketSet)
    OBVIOUS
  <2> QED BY <2>1, <2>2
<1>5. device' \in DeviceSet
  BY <1>1, <1>2, <1>3, <1>4 DEF DeviceSet
<1>6. packet.place # 0 => 1 <= packet.place
  BY <1>2, UsbDiskAssumption
<1> QED BY <1>1, <1>3, <1>5, <1>6

\* The device takes what it gets, and has the packet's number or its own.
OutDevice(e, packet) ==
  /\ device' \in DeviceSet
  /\ device'.phase \in {"data", "csw"} => device'.no # 0
  /\ device'.phase = "data" => device'.place <= device'.packets
  /\ device'.kind = "read" => device'.status \in {"ok", "fail", "phase", "less"}
  /\ \/ device'.phase = "wedged"
     \/ device.phase = "data" /\ device.kind = "write" /\ device'.kind = "write" /\ device'.phase \in {"data", "csw"}
        /\ (e.size # 512 => device'.phase = "csw" /\ device'.status = "less")
     \/ packet.what = "cbw" /\ device'.no = packet.no /\ device'.kind = packet.info
        /\ device'.packets = packet.place /\ device'.phase \in {"data", "csw"}

LEMMA OutDeviceIs ==
  ASSUME UsbTypes, OutPacket, transfer["out"].toggle = diskToggle["out"]
  PROVE  OutDevice(transfer["out"], raw[transfer["out"].place])
<1> DEFINE packet == raw[transfer["out"].place]
<1>1. device \in DeviceSet /\ "out" \in Endpoint /\ Active("out")
  BY DEF UsbTypes, UsbShapes, OutPacket, Endpoint
<1>2. packet \in PacketSet /\ (packet.what = "cbw" => packet.no # 0)
  <2>1. /\ transfer["out"] \in TransferSet /\ transfer["out"].left # 0
        /\ transfer["out"].place + transfer["out"].left <= MaxPackets + 1
    BY <1>1 DEF UsbTypes, UsbShapes
  <2>2. transfer["out"].place \in 1 .. MaxPackets
    BY <2>1, UsbDiskAssumption DEF TransferSet
  <2> QED BY <2>2 DEF UsbTypes, UsbShapes
<1>3. CASE device.phase = "data"
  <2>1. device.kind = "write" /\ device.no # 0 /\ device.got \in Seq(PacketSet) /\ device.place <= device.packets
    BY <1>1, <1>3 DEF UsbTypes, UsbShapes, DeviceSet, OutPacket
  <2>2. CASE transfer["out"].size = 512
    <3> DEFINE d == AfterData
    <3>1. device' = [d EXCEPT !.got = Append(d.got, packet)]
      BY <1>3, <2>2 DEF OutPacket, PacketSize
    <3>2. /\ d \in DeviceSet /\ d.no = device.no /\ d.kind = device.kind /\ d.packets = device.packets
          /\ d.status = device.status /\ d.got = device.got
          /\ \/ d.phase = "data" /\ device.place < device.packets /\ d.place = device.place + 1
             \/ d.phase = "csw" /\ device.place = device.packets
      BY <1>3, AfterDataIs
    <3>3. d.phase = "data" => d.place <= d.packets
      BY <1>1, <3>2, UsbDiskAssumption DEF DeviceSet
    <3>4. Append(d.got, packet) \in Seq(PacketSet)
      BY <1>2, <2>1, <3>2
    <3> HIDE DEF d
    <3>5. device' \in DeviceSet
      BY <3>1, <3>2, <3>4 DEF DeviceSet
    <3>6. /\ device'.no = d.no /\ device'.kind = d.kind /\ device'.packets = d.packets /\ device'.phase = d.phase
          /\ device'.place = d.place
      BY <3>1, <3>2 DEF DeviceSet
    <3> QED BY <1>3, <2>1, <2>2, <3>2, <3>3, <3>5, <3>6 DEF OutDevice
  <2>3. CASE transfer["out"].size # 512
    <3>1. device' = [device EXCEPT !.phase = "csw", !.status = "less"]
      BY <1>3, <2>3 DEF OutPacket, PacketSize
    <3>2. device' \in DeviceSet /\ device'.phase = "csw" /\ device'.status = "less" /\ device'.no = device.no
          /\ device'.kind = "write"
      BY <1>1, <2>1, <3>1 DEF DeviceSet, Info
    <3> QED BY <1>3, <2>1, <3>2 DEF OutDevice
  <2> QED BY <2>2, <2>3
<1>4. CASE device.phase # "data" /\ packet.what = "cbw"
  <2>1. PICK s \in Statuses(packet.info) : Accept(packet, s)
    BY <1>4 DEF OutPacket
  <2>2. /\ device' \in DeviceSet /\ device'.no = packet.no /\ device'.kind = packet.info
        /\ device'.packets = packet.place /\ device'.phase \in {"data", "csw"}
        /\ device'.phase = "data" => device'.place <= device'.packets
        /\ device'.kind = "read" => device'.status \in {"ok", "fail", "phase", "less"}
    BY <1>2, <1>4, <2>1, AcceptIs
  <2> QED BY <1>2, <1>4, <2>2 DEF OutDevice
<1>5. CASE device.phase # "data" /\ packet.what # "cbw"
  <2>1. device' = [device EXCEPT !.phase = "wedged"]
    BY <1>5 DEF OutPacket
  <2>2. /\ device' \in DeviceSet /\ device'.phase = "wedged"
        /\ device'.kind = device.kind /\ device'.status = device.status
    BY <1>1, <2>1 DEF DeviceSet
  <2>3. device'.kind = "read" => device'.status \in {"ok", "fail", "phase", "less"}
    BY <2>2 DEF UsbTypes, UsbShapes
  <2> QED BY <2>2, <2>3 DEF OutDevice
<1> QED BY <1>3, <1>4, <1>5

LEMMA OutPacketKeeps ==
  ASSUME UsbTypes, Steady, ReadsAreTheirOwn, OutPacket
  PROVE  UsbTypes' /\ Steady' /\ ReadsAreTheirOwn'
<1> DEFINE packet == raw[transfer["out"].place]
           u == Moved("out", transfer["out"])
<1>1. /\ Active("out") /\ transfer' = [transfer EXCEPT !["out"] = u]
      /\ UNCHANGED <<controller, step, cmd, sends, key, buffer, opened, last, toggle, raw, executed, strayed>>
  BY DEF OutPacket, callVars
<1>2. "out" \in Endpoint /\ "in" \in Endpoint /\ 1 \in 1 .. MaxPackets
  BY UsbDiskAssumption DEF Endpoint
<1>3. /\ u \in TransferSet /\ u.state \in {"active", "done"} /\ u.size = transfer["out"].size
      /\ u.place = transfer["out"].place + 1
      /\ u.state = "active" => u.left # 0 /\ u.place + u.left <= MaxPackets + 1
      /\ u.state = "done" <=> u.left = 0
      /\ u.left = transfer["out"].left - 1
  BY <1>1, <1>2, MovedOn
<1>4. /\ transfer["out"] \in TransferSet /\ transfer["out"].left # 0
      /\ transfer["out"].place + transfer["out"].left <= MaxPackets + 1
  BY <1>1, <1>2 DEF UsbTypes, UsbShapes
<1>5. transfer' \in [Endpoint -> TransferSet] /\ transfer'["out"] = u /\ transfer'["in"] = transfer["in"]
  BY <1>1, <1>3 DEF UsbTypes, UsbShapes, Endpoint
<1>6. \A ep \in Endpoint : Active(ep)' => /\ transfer'[ep].left # 0
                                          /\ transfer'[ep].place + transfer'[ep].left <= MaxPackets + 1
  BY <1>3, <1>5 DEF Active, UsbTypes, UsbShapes, Endpoint
<1>7. NothingMoves'
  <2>1. controller # "uhci"
    BY <1>1, <1>2 DEF Steady, NothingMoves
  <2> QED BY <1>1, <2>1 DEF NothingMoves
<1>8. ReadsAreTheirOwn'
  BY <1>1 DEF ReadsAreTheirOwn
<1>9. AtData' /\ AtCSW'
  <2>1. ~(ReadNow /\ step \in {"data", "csw"})
    BY <1>1 DEF Steady, AtData, AtCSW
  <2> QED BY <1>1, <2>1 DEF AtData, AtCSW, ReadNow
\* A repeated packet is one of an endpoint that lost step.
<1>10. CASE transfer["out"].toggle # diskToggle["out"]
  <2>1. UNCHANGED <<device, halted, diskToggle>>
    BY <1>10 DEF OutPacket
  <2>2. "out" \in strayed
    BY <1>1, <1>2, <1>10 DEF Steady, InStep
  <2>3. Awaited' = Awaited
    BY <1>1 DEF Awaited, What
  <2>4. InStep'
    BY <1>1, <1>5, <2>1, <2>2, <2>3 DEF Steady, InStep, Active, Endpoint
  <2>5. UsbTypes'
    BY <1>1, <1>5, <1>6, <2>1 DEF UsbTypes, UsbShapes
  <2>6. AtCBW'
    <3> SUFFICES ASSUME ReadNow, step = "cbw"
                 PROVE  /\ transfer'["out"].size = CBWSize
                        /\ Active("out")' => transfer'["out"].place = 1 /\ transfer'["out"].left = 1
                        /\ raw[1].what = "cbw" => raw[1] = Packet(cmd.no, "cbw", cmd.packets, "read")
                        /\ Done("out")' => Hopeless \/ (Mine /\ device.phase \in {"data", "csw"})
      BY <1>1, <2>1 DEF AtCBW, ReadNow, Hopeless, Mute, Mine
    <3>1. /\ transfer["out"].size = CBWSize /\ transfer["out"].left = 1
          /\ raw[1].what = "cbw" => raw[1] = Packet(cmd.no, "cbw", cmd.packets, "read")
      BY <1>1 DEF Steady, AtCBW
    <3>2. transfer'["out"].size = CBWSize /\ ~Active("out")'
      BY <1>3, <1>5, <3>1 DEF Active
    <3>3. Hopeless
      BY DEF OutPacket, Hopeless, Mute
    <3> QED BY <3>1, <3>2, <3>3
  <2> QED BY <1>7, <1>8, <1>9, <2>4, <2>5, <2>6 DEF Steady
<1>11. CASE transfer["out"].toggle = diskToggle["out"]
  <2>1. OutDevice(transfer["out"], packet)
    BY <1>11, OutDeviceIs
  <2>2. /\ device' \in DeviceSet
        /\ device'.phase \in {"data", "csw"} => device'.no # 0
        /\ device'.phase = "data" => device'.place <= device'.packets
        /\ device'.kind = "read" => device'.status \in {"ok", "fail", "phase", "less"}
    BY <2>1 DEF OutDevice
  <2>3. diskToggle["out"] \in {0, 1} /\ diskToggle \in [Endpoint -> {0, 1}]
    BY <1>2 DEF UsbTypes
  <2>4. /\ diskToggle' = [diskToggle EXCEPT !["out"] = 1 - diskToggle["out"]]
        /\ halted' = halted \/ halted' = Endpoint
    BY <1>11 DEF OutPacket
  <2>5. diskToggle' \in [Endpoint -> {0, 1}] /\ halted' \subseteq Endpoint
    <3>1. 1 - diskToggle["out"] \in {0, 1}
      BY <2>3
    <3>2. halted' \subseteq Endpoint
      BY <2>4 DEF UsbTypes
    <3> QED BY <2>3, <2>4, <3>1, <3>2
  <2>6. UsbTypes'
    BY <1>1, <1>5, <1>6, <2>2, <2>5 DEF UsbTypes, UsbShapes
  <2>7. InStep'
    BY <1>1, <1>2, <1>11, <2>4, MovedInStep DEF Steady
  <2>8. AtCBW'
    <3> SUFFICES ASSUME ReadNow, step = "cbw"
                 PROVE  /\ u.size = CBWSize /\ u.state # "active"
                        /\ raw[1].what = "cbw" => raw[1] = Packet(cmd.no, "cbw", cmd.packets, "read")
                        /\ Hopeless' \/ (Mine' /\ device'.phase \in {"data", "csw"})
      BY <1>1, <1>5 DEF AtCBW, ReadNow, Active
    <3>1. /\ transfer["out"].size = CBWSize /\ transfer["out"].place = 1 /\ transfer["out"].left = 1
          /\ raw[1].what = "cbw" => raw[1] = Packet(cmd.no, "cbw", cmd.packets, "read")
      BY <1>1 DEF Steady, AtCBW
    <3>2. u.size = CBWSize /\ u.state # "active"
      BY <1>3, <3>1
    <3>3. CASE device'.phase = "wedged"
      BY <3>1, <3>2, <3>3 DEF Hopeless, Mute
    <3>4. CASE device'.phase = "csw" /\ device'.status = "less"
      BY <3>1, <3>2, <3>4 DEF Hopeless
    <3>5. CASE /\ raw[1].what = "cbw" /\ device'.no = raw[1].no /\ device'.kind = raw[1].info
               /\ device'.packets = raw[1].place /\ device'.phase \in {"data", "csw"}
      BY <1>1, <3>1, <3>2, <3>5 DEF Mine, Packet
    <3>6. CBWSize # 512
      BY DEF CBWSize
    <3> QED BY <2>1, <3>1, <3>3, <3>4, <3>5, <3>6 DEF OutDevice
  <2> QED BY <1>7, <1>8, <1>9, <2>6, <2>7, <2>8 DEF Steady
<1> QED BY <1>10, <1>11

\* The device has sent its packet.
LEMMA AfterNextIs ==
  ASSUME UsbTypes, Sending, NEW d, d = AfterNext
  PROVE  /\ d \in DeviceSet /\ d.no = device.no
         /\ d.phase = "data" => d.place <= d.packets
         /\ d.kind = "read" => d.status \in {"ok", "fail", "phase", "less"}
         /\ \/ device.phase = "csw" /\ d.phase = "idle"
            \/ device.phase = "data" /\ device.status = "less" /\ d.phase = "csw" /\ d.status = "less"
            \/ /\ device.phase = "data" /\ device.status # "less" /\ d.status = device.status
               /\ d.kind = device.kind /\ d.packets = device.packets
               /\ \/ d.phase = "data" /\ device.place < device.packets /\ d.place = device.place + 1
                  \/ d.phase = "csw" /\ device.place = device.packets
         /\ d.phase \in {"data", "csw"} => d.kind = device.kind /\ d.packets = device.packets /\ device.no # 0
<1>1. device \in DeviceSet /\ (device.phase \in {"data", "csw"} => device.no # 0)
      /\ (device.kind = "read" => device.status \in {"ok", "fail", "phase", "less"})
  BY DEF UsbTypes, UsbShapes
<1>2. CASE device.phase = "csw"
  <2>1. d = [phase |-> "idle", no |-> device.no, kind |-> "none", packets |-> 0, place |-> 1, got |-> <<>>,
             status |-> "ok"]
    BY <1>2 DEF AfterNext, Waits4CBW
  <2>2. 1 \in 1 .. MaxPackets /\ 0 \in 0 .. MaxPackets /\ "none" \in Info /\ "ok" \in Info
    BY UsbDiskAssumption DEF Info, Kind
  <2>3. <<>> \in Seq(PacketSet)
    OBVIOUS
  <2>4. device.no \in 0 .. MaxSends
    BY <1>1 DEF DeviceSet
  <2>5. d \in DeviceSet
    BY <2>1, <2>2, <2>3, <2>4 DEF DeviceSet
  <2> QED BY <1>2, <2>1, <2>5
<1>3. CASE device.phase = "data" /\ device.status = "less"
  <2>1. d = [device EXCEPT !.phase = "csw"]
    BY <1>3 DEF AfterNext, Less
  <2>2. d \in DeviceSet /\ d.no = device.no /\ d.phase = "csw" /\ d.status = "less" /\ d.kind = device.kind
        /\ d.packets = device.packets
    BY <1>1, <1>3, <2>1 DEF DeviceSet
  <2> QED BY <1>1, <1>3, <2>2
<1>4. CASE device.phase = "data" /\ device.status # "less"
  <2>1. d = AfterData
    BY <1>4 DEF AfterNext, Less
  <2>2. /\ d \in DeviceSet /\ d.no = device.no /\ d.kind = device.kind /\ d.packets = device.packets
        /\ d.status = device.status /\ d.got = device.got
        /\ \/ d.phase = "data" /\ device.place < device.packets /\ d.place = device.place + 1
           \/ d.phase = "csw" /\ device.place = device.packets
    BY <1>4, <2>1, AfterDataIs
  <2>3. d.phase = "data" => d.place <= d.packets
    BY <1>1, <2>2, UsbDiskAssumption DEF DeviceSet
  <2> QED BY <1>1, <1>4, <2>2, <2>3
<1> QED BY <1>2, <1>3, <1>4 DEF Sending

LEMMA NextPacketIs ==
  ASSUME UsbTypes, Sending
  PROVE  /\ NextPacket \in PacketSet /\ NextPacket.what \in {"csw", "data"}
         /\ device.phase = "csw" => NextPacket = Packet(device.no, "csw", 1, device.status)
         /\ device.phase = "data" => NextPacket = Packet(device.no, "data", device.place, device.status)
<1>1. device.no \in 0 .. MaxSends /\ device.status \in Info /\ device.place \in 1 .. MaxPackets
      /\ 1 \in 0 .. MaxPackets
  <2>1. device \in DeviceSet
    BY DEF UsbTypes, UsbShapes
  <2>2. 1 \in 0 .. MaxPackets
    BY UsbDiskAssumption
  <2> QED BY <2>1, <2>2 DEF DeviceSet
<1>2. device.place \in 0 .. MaxPackets
  BY <1>1, UsbDiskAssumption
<1>3. CASE device.phase = "csw"
  <2>1. NextPacket = Packet(device.no, "csw", 1, device.status)
    BY <1>3 DEF NextPacket
  <2>2. Packet(device.no, "csw", 1, device.status) \in PacketSet
    BY <1>1, PacketIsPacket
  <2> QED BY <1>3, <2>1, <2>2 DEF Packet
<1>4. CASE device.phase # "csw"
  <2>1. NextPacket = Packet(device.no, "data", device.place, device.status)
    BY <1>4 DEF NextPacket, DataPacket
  <2>2. Packet(device.no, "data", device.place, device.status) \in PacketSet
    BY <1>1, <1>2, PacketIsPacket
  <2> QED BY <1>4, <2>1, <2>2 DEF Packet
<1> QED BY <1>3, <1>4

\* What the device may say of a read after it sent a packet that the read did not take in.
LEMMA SentPastRead ==
  ASSUME UsbTypes, Sending, device' = AfterNext, UNCHANGED cmd
  PROVE  /\ Hopeless => Hopeless'
         /\ Mine /\ device.phase = "csw" => Hopeless'
         /\ Mine /\ device.phase \in {"csw", "data"} =>
             Hopeless' \/ (Mine' /\ device'.phase \in {"data", "csw"})
         /\ device.status = "less" => Hopeless'
<1>1. /\ device'.no = device.no
      /\ \/ device.phase = "csw" /\ device'.phase = "idle"
         \/ device.phase = "data" /\ device.status = "less" /\ device'.phase = "csw" /\ device'.status = "less"
         \/ /\ device.phase = "data" /\ device.status # "less" /\ device'.status = device.status
            /\ device'.kind = device.kind /\ device'.packets = device.packets
            /\ \/ device'.phase = "data" /\ device.place < device.packets /\ device'.place = device.place + 1
               \/ device'.phase = "csw" /\ device.place = device.packets
  BY AfterNextIs
<1>2. device.phase = "csw" => Hopeless'
  BY <1>1 DEF Hopeless, Mute
<1>3. Hopeless => device.phase = "csw"
  BY DEF Hopeless, Mute, Sending
<1>4. device.status = "less" => Hopeless'
  BY <1>1, <1>2 DEF Hopeless
<1>5. Mine /\ device.phase = "data" => Hopeless' \/ (Mine' /\ device'.phase \in {"data", "csw"})
  BY <1>1, <1>4 DEF Mine
<1> QED BY <1>2, <1>3, <1>4, <1>5

LEMMA PlacesAreNumbers == ASSUME UsbTypes
                          PROVE  device.place \in Nat /\ transfer["in"].place \in Nat /\ transfer["in"].left \in Nat
<1>1. device \in DeviceSet /\ transfer["in"] \in TransferSet
  BY DEF UsbTypes, UsbShapes, Endpoint
<1> QED BY <1>1, UsbDiskAssumption DEF DeviceSet, TransferSet

LEMMA FlippedToggle ==
  ASSUME UsbTypes, diskToggle' = [diskToggle EXCEPT !["in"] = 1 - diskToggle["in"]]
  PROVE  diskToggle' \in [Endpoint -> {0, 1}]
<1>1. diskToggle \in [Endpoint -> {0, 1}] /\ diskToggle["in"] \in {0, 1}
  BY DEF UsbTypes, Endpoint
<1>2. 1 - diskToggle["in"] \in {0, 1}
  BY <1>1
<1> QED BY <1>1, <1>2

LEMMA SentIsSent ==
  ASSUME UsbTypes, Sending, executed' = executed \cup {n \in {device.no} : Complete}
  PROVE  executed' \subseteq 1 .. MaxSends
<1>1. device.no \in 0 .. MaxSends /\ device.no # 0
  <2>1. device \in DeviceSet /\ (device.phase \in {"data", "csw"} => device.no # 0)
    BY DEF UsbTypes, UsbShapes
  <2> QED BY <2>1 DEF DeviceSet, Sending
<1>2. device.no \in 1 .. MaxSends
  BY <1>1, UsbDiskAssumption
<1> QED BY <1>2 DEF UsbTypes

\* A packet that the controller drops, because it has the toggle of the one before.
LEMMA DroppedKeeps ==
  ASSUME UsbTypes, Steady, ReadsAreTheirOwn, InPacket,
         ~(NextSize > transfer["in"].size), transfer["in"].toggle # diskToggle["in"]
  PROVE  UsbTypes' /\ Steady' /\ ReadsAreTheirOwn'
<1>1. /\ Active("in") /\ Sending /\ device' = AfterNext
      /\ diskToggle' = [diskToggle EXCEPT !["in"] = 1 - diskToggle["in"]]
      /\ executed' = executed \cup {n \in {device.no} : Complete}
      /\ UNCHANGED <<controller, step, cmd, sends, key, buffer, opened, last, transfer, toggle, raw,
        halted, strayed>>
  BY DEF InPacket, callVars
<1>2. UsbTypes'
  <2>1. /\ device' \in DeviceSet /\ device'.no = device.no
        /\ device'.phase = "data" => device'.place <= device'.packets
        /\ device'.kind = "read" => device'.status \in {"ok", "fail", "phase", "less"}
        /\ device'.phase \in {"data", "csw"} => device.no # 0
    BY <1>1, AfterNextIs
  <2>2. executed' \subseteq 1 .. MaxSends
    BY <1>1, SentIsSent
  <2>3. diskToggle' \in [Endpoint -> {0, 1}]
    BY <1>1, FlippedToggle
  <2> QED BY <1>1, <2>1, <2>2, <2>3 DEF UsbTypes, UsbShapes, Active
<1>3. NothingMoves'
  BY <1>1 DEF Steady, NothingMoves, Active
<1>4. InStep'
  <2>1. "in" \in strayed
    BY <1>1 DEF Steady, InStep, Endpoint
  <2>2. Awaited' = Awaited
    BY <1>1 DEF Awaited, What
  <2>3. \A ep \in Endpoint \ strayed : diskToggle'[ep] = diskToggle[ep]
    BY <1>1, <2>1 DEF UsbTypes
  <2> QED BY <1>1, <2>2, <2>3 DEF Steady, InStep, Active
<1>5. ReadNow' = ReadNow
  BY <1>1 DEF ReadNow
<1>6. AtCBW'
  <2>1. /\ Hopeless => Hopeless'
        /\ Mine /\ device.phase \in {"csw", "data"} => Hopeless' \/ (Mine' /\ device'.phase \in {"data", "csw"})
    BY <1>1, SentPastRead
  <2> QED BY <1>1, <1>5, <2>1 DEF Steady, AtCBW, Done, Active
<1>7. AtData'
  <2> SUFFICES ASSUME ReadNow, step = "data"
               PROVE  /\ ~Active("out") /\ transfer["in"].size = PacketSize["read"]
                      /\ transfer["in"].place + transfer["in"].left = cmd.packets + 1
                      /\ \/ Hopeless'
                         \/ Mine' /\ device'.phase = "csw"
                         \/ /\ Mine' /\ device'.phase = "data" /\ device'.place >= transfer["in"].place
                            /\ device'.place # transfer["in"].place
    BY <1>1, <1>5 DEF AtData, Active, Done
  <2>1. /\ ~Active("out") /\ transfer["in"].size = PacketSize["read"]
        /\ transfer["in"].place + transfer["in"].left = cmd.packets + 1
        /\ \/ Hopeless
           \/ Mine /\ device.phase = "csw"
           \/ Mine /\ device.phase = "data" /\ device.place >= transfer["in"].place
    BY <1>1 DEF Steady, AtData
  <2>2. /\ Hopeless => Hopeless'
        /\ Mine /\ device.phase = "csw" => Hopeless'
        /\ device.status = "less" => Hopeless'
    BY <1>1, SentPastRead
  <2>3. CASE Mine /\ device.phase = "data" /\ device.place >= transfer["in"].place /\ device.status # "less"
    <3>1. /\ device'.no = device.no /\ device'.kind = device.kind /\ device'.packets = device.packets
          /\ \/ device'.phase = "data" /\ device'.place = device.place + 1
             \/ device'.phase = "csw"
      BY <1>1, <2>3, AfterNextIs
    <3>2. device.place \in Nat /\ transfer["in"].place \in Nat
      BY PlacesAreNumbers
    <3>3. Mine'
      BY <1>1, <2>3, <3>1 DEF Mine
    <3> QED BY <2>1, <2>3, <3>1, <3>2, <3>3
  <2> QED BY <2>1, <2>2, <2>3
<1>8. AtCSW'
  <2> SUFFICES ASSUME ReadNow, step = "csw"
               PROVE  /\ ~Active("out") /\ transfer["in"].size = CSWSize /\ transfer["in"].left = 1
                      /\ transfer["in"].place = 1 /\ Hopeless'
    BY <1>1, <1>5 DEF AtCSW, Active, Done
  <2>1. /\ Hopeless => Hopeless'
        /\ Mine /\ device.phase = "csw" => Hopeless'
    BY <1>1, SentPastRead
  <2> QED BY <1>1, <2>1 DEF Steady, AtCSW
<1>9. ReadsAreTheirOwn'
  BY <1>1 DEF ReadsAreTheirOwn
<1> QED BY <1>2, <1>3, <1>4, <1>6, <1>7, <1>8, <1>9 DEF Steady

\* A packet that the transfer takes in.
LEMMA TakenKeeps ==
  ASSUME UsbTypes, Steady, ReadsAreTheirOwn, InPacket,
         ~(NextSize > transfer["in"].size), transfer["in"].toggle = diskToggle["in"]
  PROVE  UsbTypes' /\ Steady' /\ ReadsAreTheirOwn'
<1> DEFINE t == transfer["in"]
           m == Moved("in", t)
           short == NextSize < t.size
           u == IF short THEN [t EXCEPT !.state = "done"] ELSE m
<1>1. /\ Active("in") /\ Sending /\ device' = AfterNext
      /\ diskToggle' = [diskToggle EXCEPT !["in"] = 1 - diskToggle["in"]]
      /\ executed' = executed \cup {n \in {device.no} : Complete}
      /\ raw' = [raw EXCEPT ![t.place] = NextPacket]
      /\ transfer' = [transfer EXCEPT !["in"] = u]
      /\ strayed' = strayed \cup {ep \in {"in"} : short}
      /\ UNCHANGED <<controller, step, cmd, sends, key, buffer, opened, last, toggle, halted>>
  BY DEF InPacket, callVars
<1>2. "in" \in Endpoint /\ "out" \in Endpoint /\ MaxPackets \in Nat
  BY UsbDiskAssumption DEF Endpoint
<1>3. /\ m \in TransferSet /\ m.state \in {"active", "done"} /\ m.size = t.size
      /\ m.left = t.left - 1 /\ m.place = t.place + 1
      /\ m.state = "done" <=> m.left = 0
      /\ m.state = "active" => m.left # 0 /\ m.place + m.left <= MaxPackets + 1
  BY <1>1, <1>2, MovedOn
<1>4. /\ t \in TransferSet /\ t.place \in Nat /\ t.left \in Nat
      /\ t.left # 0 /\ t.place + t.left <= MaxPackets + 1 /\ t.place \in 1 .. MaxPackets
  <2>1. t \in TransferSet /\ t.left # 0 /\ t.place + t.left <= MaxPackets + 1
    BY <1>1, <1>2 DEF UsbTypes, UsbShapes
  <2>2. t.place \in 1 .. MaxPackets + 1 /\ t.left \in 0 .. MaxPackets
    BY <2>1 DEF TransferSet
  <2> QED BY <1>2, <2>1, <2>2
<1> HIDE DEF m, short
<1>5. /\ u \in TransferSet /\ u.state \in {"active", "done"} /\ u.size = t.size
      /\ u.state = "active" => ~short /\ u = m
      /\ ~short => u = m
      /\ short => u.state = "done"
  <2>1. [t EXCEPT !.state = "done"] \in TransferSet /\ [t EXCEPT !.state = "done"].state = "done"
        /\ [t EXCEPT !.state = "done"].size = t.size
    BY <1>4 DEF TransferSet
  <2> QED BY <1>3, <2>1
<1> HIDE DEF u
<1>6. transfer' \in [Endpoint -> TransferSet] /\ transfer'["in"] = u /\ transfer'["out"] = transfer["out"]
  BY <1>1, <1>5 DEF UsbTypes, UsbShapes, Endpoint
<1> HIDE DEF t
<1>7. /\ raw' \in [1 .. MaxPackets -> PacketSet] /\ raw'[t.place] = NextPacket
      /\ \A i \in 1 .. MaxPackets : i # t.place => raw'[i] = raw[i]
      /\ NextPacket.what \in {"csw", "data"}
  <2>1. NextPacket \in PacketSet /\ NextPacket.what \in {"csw", "data"}
    BY <1>1, NextPacketIs
  <2> QED BY <1>1, <1>4, <2>1 DEF UsbTypes, UsbShapes
<1>8. UsbTypes'
  <2>1. /\ device' \in DeviceSet /\ device'.no = device.no
        /\ device'.phase = "data" => device'.place <= device'.packets
        /\ device'.kind = "read" => device'.status \in {"ok", "fail", "phase", "less"}
        /\ device'.phase \in {"data", "csw"} => device.no # 0
    BY <1>1, AfterNextIs
  <2>2. executed' \subseteq 1 .. MaxSends
    BY <1>1, SentIsSent
  <2>3. diskToggle' \in [Endpoint -> {0, 1}]
    BY <1>1, FlippedToggle
  <2>4. \A i \in 1 .. MaxPackets : raw'[i].what = "cbw" => raw'[i].no # 0
    BY <1>7 DEF UsbTypes, UsbShapes
  <2>5. \A ep \in Endpoint : Active(ep)' => /\ transfer'[ep].left # 0
                                            /\ transfer'[ep].place + transfer'[ep].left <= MaxPackets + 1
    BY <1>3, <1>5, <1>6 DEF Active, UsbTypes, UsbShapes, Endpoint
  <2>6. strayed' \subseteq Endpoint
    BY <1>1, <1>2 DEF UsbTypes
  <2> QED BY <1>1, <1>6, <1>7, <2>1, <2>2, <2>3, <2>4, <2>5, <2>6 DEF UsbTypes, UsbShapes
<1>9. controller # "uhci"
  BY <1>1, <1>2 DEF Steady, NothingMoves
<1>10. InStep'
  <2>1. CASE short
    <3>1. "in" \in strayed' /\ \A ep \in Endpoint \ strayed' : ep \notin strayed /\ ep # "in"
      BY <1>1, <2>1
    <3>2. Awaited' = Awaited
      BY <1>1 DEF Awaited, What
    <3>3. \A ep \in Endpoint : ep # "in" => diskToggle'[ep] = diskToggle[ep] /\ transfer'[ep] = transfer[ep]
      BY <1>1, <1>6 DEF UsbTypes, Endpoint
    <3> QED BY <1>1, <3>1, <3>2, <3>3 DEF Steady, InStep, Active
  <2>2. CASE ~short
    <3>1. strayed' = strayed
      BY <1>1, <2>2
    <3>2. transfer' = [transfer EXCEPT !["in"] = Moved("in", transfer["in"])]
      BY <1>1, <1>5, <2>2 DEF m, t
    <3>3. UsbTypes /\ NothingMoves /\ InStep
      BY DEF Steady
    <3> QED BY <1>1, <1>2, <3>1, <3>2, <3>3, MovedInStep
  <2> QED BY <2>1, <2>2
<1>11. /\ ReadNow' = ReadNow /\ (Active("out")' = Active("out")) /\ (Done("out")' = Done("out"))
       /\ Active("in")' = (u.state = "active") /\ Done("in")' = (u.state = "done")
  BY <1>1, <1>6 DEF ReadNow, Active, Done
<1>12. AtCBW'
  <2>1. /\ Hopeless => Hopeless'
        /\ Mine /\ device.phase \in {"csw", "data"} => Hopeless' \/ (Mine' /\ device'.phase \in {"data", "csw"})
    BY <1>1, SentPastRead
  <2>2. 1 \in 1 .. MaxPackets /\ (raw'[1].what = "cbw" => raw'[1] = raw[1])
    BY <1>7, UsbDiskAssumption
  <2> QED BY <1>1, <1>6, <1>11, <2>1, <2>2 DEF Steady, AtCBW
\* The data of a read: in order, or some of it missed.
<1>13. AtData'
  <2> SUFFICES ASSUME ReadNow, step = "data"
               PROVE  /\ ~Active("out") /\ u.size = PacketSize["read"]
                      /\ u.state = "active" =>
                           /\ u.place + u.left = cmd.packets + 1
                           /\ \/ Hopeless'
                              \/ Mine' /\ device'.phase = "csw"
                              \/ /\ Mine' /\ device'.phase = "data" /\ device'.place >= u.place
                                 /\ device'.place = u.place => \A i \in 1 .. device'.place - 1 : raw'[i] = Own(i)'
                      /\ u.state = "done" =>
                           \/ Hopeless'
                           \/ Mine' /\ device'.phase = "csw" /\ \A i \in 1 .. cmd.packets : raw'[i] = Own(i)'
    BY <1>1, <1>6, <1>11, Zenon DEF AtData
  <2>1. /\ ~Active("out") /\ t.size = PacketSize["read"] /\ t.place + t.left = cmd.packets + 1
        /\ \/ Hopeless
           \/ Mine /\ device.phase = "csw"
           \/ /\ Mine /\ device.phase = "data" /\ device.place >= t.place
              /\ device.place = t.place => \A i \in 1 .. device.place - 1 : raw[i] = Own(i)
    BY <1>1 DEF Steady, AtData, t
  <2>2. /\ Hopeless => Hopeless'
        /\ Mine /\ device.phase = "csw" => Hopeless'
        /\ device.status = "less" => Hopeless'
    BY <1>1, SentPastRead
  <2>3. u.size = PacketSize["read"]
    BY <1>5, <2>1
  <2>4. cmd.packets \in Nat
    BY <1>2 DEF UsbTypes, UsbShapes, CommandSet
  <2>5. u.state = "active" => u.place + u.left = cmd.packets + 1
    BY <1>3, <1>4, <1>5, <2>1, <2>4
  <2>6. CASE Hopeless'
    BY <2>1, <2>3, <2>5, <2>6
  <2>7. CASE /\ Mine /\ device.phase = "data" /\ device.place >= t.place /\ device.status # "less"
             /\ device.place = t.place => \A i \in 1 .. device.place - 1 : raw[i] = Own(i)
    <3>1. NextSize = PacketSize["read"]
      BY <2>7 DEF NextSize, Less, Mine
    <3>2. ~short /\ u = m
      BY <1>5, <2>1, <3>1 DEF short, PacketSize, t
    <3>3. NextPacket = Own(device.place)
      <4>1. NextPacket = Packet(device.no, "data", device.place, device.status)
        BY <1>1, <2>7, NextPacketIs
      <4> QED BY <2>7, <4>1 DEF Own, Mine
    <3>4. /\ device'.no = device.no /\ device'.kind = device.kind /\ device'.packets = device.packets
          /\ device'.status = device.status
          /\ \/ device'.phase = "data" /\ device.place < device.packets /\ device'.place = device.place + 1
             \/ device'.phase = "csw" /\ device.place = device.packets
      BY <1>1, <2>7, AfterNextIs
    <3>5. Mine' /\ \A i : Own(i)' = Own(i)
      BY <1>1, <2>7, <3>4 DEF Mine, Own
    <3>6. device.place \in Nat /\ device.packets = cmd.packets
      BY <2>7, PlacesAreNumbers DEF Mine
    <3>7. device.place = t.place => \A i \in 1 .. device.place : raw'[i] = Own(i)
      <4> SUFFICES ASSUME device.place = t.place, NEW i \in 1 .. device.place
                   PROVE  raw'[i] = Own(i)
        OBVIOUS
      <4>1. i \in 1 .. MaxPackets
        BY <1>2, <1>4
      <4>2. CASE i = t.place
        BY <1>7, <3>3, <4>2
      <4>3. CASE i # t.place
        <5>1. i \in 1 .. device.place - 1
          BY <1>4, <4>3
        <5>2. raw[i] = Own(i)
          BY <2>7, <5>1
        <5> QED BY <1>7, <4>1, <4>3, <5>2
      <4> QED BY <4>2, <4>3
    <3>8. CASE device'.phase = "data"
      <4>1. device.place < device.packets /\ device'.place = device.place + 1
        BY <3>4, <3>8
      <4>2. u.place = t.place + 1 /\ u.left = t.left - 1 /\ (u.state = "done" <=> u.left = 0)
        BY <1>3, <3>2
      <4>3. device'.place >= u.place
        BY <1>4, <2>7, <3>6, <4>1, <4>2
      <4>4. u.state # "done"
        BY <1>4, <2>1, <2>4, <2>7, <3>6, <4>1, <4>2
      <4>5. device'.place = u.place => \A i \in 1 .. device'.place - 1 : raw'[i] = Own(i)'
        <5>1. device'.place - 1 = device.place /\ (device'.place = u.place => device.place = t.place)
          BY <1>4, <3>6, <4>1, <4>2
        <5> QED BY <3>5, <3>7, <5>1
      <4> QED BY <2>1, <2>3, <2>5, <3>5, <3>8, <4>3, <4>4, <4>5
    <3>9. CASE device'.phase = "csw"
      <4>1. device.place = cmd.packets
        BY <3>4, <3>6, <3>9
      <4>2. u.state = "done" => t.left = 1 /\ device.place = t.place
        BY <1>3, <1>4, <2>1, <2>4, <3>2, <4>1
      <4>3. u.state = "done" => \A i \in 1 .. cmd.packets : raw'[i] = Own(i)'
        BY <3>5, <3>7, <4>1, <4>2
      <4> QED BY <2>1, <2>3, <2>5, <3>5, <3>9, <4>3
    <3> QED BY <3>4, <3>8, <3>9
  <2> QED BY <2>1, <2>2, <2>6, <2>7
\* Its status block: bad, or that of the read, which the device has done.
<1>14. AtCSW'
  <2> SUFFICES ASSUME ReadNow, step = "csw"
               PROVE  /\ ~Active("out") /\ u.state # "active"
                      /\ raw'[1].what = "csw"
                      /\ \/ raw'[1].info \in {"fail", "less", "phase"}
                         \/ /\ cmd.no \in executed'
                            /\ buffer = [i \in 1 .. cmd.packets |-> Packet(cmd.no, "data", i, "ok")]
    BY <1>1, <1>6, <1>11, Zenon DEF AtCSW
  <2>1. /\ ~Active("out") /\ t.size = CSWSize /\ t.left = 1 /\ t.place = 1
        /\ \/ Hopeless
           \/ Mine /\ device.phase = "csw" /\ buffer = [i \in 1 .. cmd.packets |-> Own(i)]
    BY <1>1 DEF Steady, AtCSW, t
  <2>2. device.phase = "csw"
    BY <1>1, <2>1 DEF Hopeless, Mute, Sending
  <2>3. NextSize = CSWSize
    BY <2>2 DEF NextSize
  <2>4. ~short /\ u = m /\ m.left = 0
    BY <1>3, <1>5, <2>1, <2>3 DEF short, CSWSize, t
  <2>5. raw'[1] = Packet(device.no, "csw", 1, device.status)
    BY <1>1, <1>7, <2>1, <2>2, NextPacketIs
  <2>6. raw'[1].what = "csw" /\ raw'[1].info = device.status
    BY <2>5 DEF Packet
  <2>7. CASE Hopeless
    <3>1. device.status \in {"fail", "less", "phase"}
      BY <2>2, <2>7 DEF Hopeless, Mute
    <3> QED BY <1>3, <2>1, <2>4, <2>6, <3>1
  <2>8. CASE Mine /\ buffer = [i \in 1 .. cmd.packets |-> Own(i)]
    <3>1. device.status \in {"ok", "fail", "phase", "less"}
      BY <2>8 DEF Mine, UsbTypes, UsbShapes
    <3>2. ASSUME device.status = "ok"
          PROVE  /\ cmd.no \in executed'
                 /\ buffer = [i \in 1 .. cmd.packets |-> Packet(cmd.no, "data", i, "ok")]
      <4>1. Complete
        BY <2>2, <2>8, <3>2 DEF Complete, Mine
      <4>2. cmd.no \in executed'
        BY <1>1, <2>8, <4>1 DEF Mine
      <4> QED BY <2>8, <3>2, <4>2 DEF Own
    <3> QED BY <1>3, <2>1, <2>4, <2>6, <3>1, <3>2
  <2> QED BY <2>1, <2>7, <2>8
<1>15. NothingMoves' /\ ReadsAreTheirOwn'
  BY <1>1, <1>9 DEF NothingMoves, ReadsAreTheirOwn
<1> QED BY <1>8, <1>10, <1>12, <1>13, <1>14, <1>15 DEF Steady

LEMMA InPacketKeeps ==
  ASSUME UsbTypes, Steady, ReadsAreTheirOwn, InPacket
  PROVE  UsbTypes' /\ Steady' /\ ReadsAreTheirOwn'
<1>1. CASE NextSize > transfer["in"].size
  <2>1. HaltedBy("in") /\ "in" \in Endpoint
    BY <1>1 DEF InPacket, HaltedBy, callVars, Endpoint
  <2> QED BY <2>1, HaltedKeeps
<1>2. CASE ~(NextSize > transfer["in"].size) /\ transfer["in"].toggle # diskToggle["in"]
  BY <1>2, DroppedKeeps
<1>3. CASE ~(NextSize > transfer["in"].size) /\ transfer["in"].toggle = diskToggle["in"]
  BY <1>3, TakenKeeps
<1> QED BY <1>1, <1>2, <1>3

-----------------------------------------------------------------------------
(* The disk *)

LEMMA UsbStarts == ASSUME UsbInit PROVE UsbIInv
<1>1. 0 \in 0 .. MaxSends /\ 0 \in 0 .. MaxPackets /\ 1 \in 1 .. MaxPackets /\ 0 \in 0 .. 3
  BY UsbDiskAssumption
<1>2. NoCommand \in CommandSet /\ NoCommand.kind = "none"
  BY NoCommandIsCommand
<1>3. <<>> \in Seq(PacketSet)
  OBVIOUS
<1>4. Waits4CBW \in DeviceSet /\ Waits4CBW.phase = "idle" /\ Waits4CBW.kind = "none"
  BY <1>1, <1>3 DEF Waits4CBW, DeviceSet, Info, Kind
<1>5. Garbage \in PacketSet /\ Garbage.what = "garbage"
  <2>1. 1 \in 0 .. MaxPackets
    BY UsbDiskAssumption
  <2> QED BY <1>1, <2>1 DEF Garbage, Packet, PacketSet, Info, Kind
<1>6. /\ cmd = NoCommand /\ device = Waits4CBW /\ step = "reset" /\ buffer = <<>>
      /\ transfer = [ep \in Endpoint |-> Off] /\ toggle = [ep \in Endpoint |-> 0]
      /\ diskToggle = [ep \in Endpoint |-> 0]
      /\ raw = [i \in 1 .. MaxPackets |-> Garbage]
  BY DEF UsbInit
<1>7. \A ep \in Endpoint : transfer[ep] = Off /\ ~Active(ep)
  BY <1>6, OffTransfer DEF Active
<1>8. UsbShapes
  <2>1. transfer \in [Endpoint -> TransferSet] /\ raw \in [1 .. MaxPackets -> PacketSet]
    BY <1>5, <1>6, OffTransfer
  <2>2. \A i \in 1 .. MaxPackets : raw[i].what # "cbw"
    BY <1>5, <1>6
  <2> QED BY <1>2, <1>3, <1>4, <1>6, <1>7, <2>1, <2>2 DEF UsbShapes
<1>9. UsbTypes
  BY <1>1, <1>6, <1>8 DEF UsbInit, UsbTypes, Key
<1>10. NothingMoves
  BY <1>5, <1>6, <1>7 DEF UsbInit, NothingMoves
<1>11. InStep
  BY <1>6, <1>7, OffTransfer DEF InStep
<1>12. AtCBW /\ AtData /\ AtCSW /\ ReadsAreTheirOwn
  BY <1>6 DEF AtCBW, AtData, AtCSW, ReadsAreTheirOwn, UsbInit
<1> QED BY <1>9, <1>10, <1>11, <1>12 DEF UsbIInv

LEMMA UsbGoesOn == ASSUME UsbIInv, UsbNext \/ UNCHANGED usbVars PROVE UsbIInv'
<1>1. UsbTypes /\ Steady /\ ReadsAreTheirOwn
  BY DEF UsbIInv, Steady
<1>2. SUFFICES UsbTypes' /\ Steady' /\ ReadsAreTheirOwn'
  BY DEF UsbIInv, Steady
<1>3. CASE \E kind \in {"read", "write"}, n \in 1 .. MaxPackets : Call(kind, n)
  BY <1>1, <1>3, CallKeeps
<1>4. CASE SendCBW
  BY <1>1, <1>4, SendCBWKeeps
<1>5. CASE BeginData
  BY <1>1, <1>5, BeginDataKeeps
<1>6. CASE BeginCSW
  BY <1>1, <1>6, BeginCSWKeeps
<1>7. CASE EndCSW
  BY <1>1, <1>7, EndCSWKeeps
<1>8. CASE TimeOut
  BY <1>1, <1>8, TimeOutKeeps
<1>9. CASE CommandReset
  BY <1>1, <1>9, CommandResetKeeps
<1>10. CASE ClearHaltIn
  BY <1>1, <1>10, ClearHaltInKeeps
<1>11. CASE ClearHaltOut
  BY <1>1, <1>11, ClearHaltOutKeeps
<1>12. CASE ResetFails
  BY <1>1, <1>12, ResetFailsKeeps
<1>13. CASE OutPacket
  BY <1>1, <1>13, OutPacketKeeps
<1>14. CASE InPacket
  BY <1>1, <1>14, InPacketKeeps
<1>15. CASE StallsData
  BY <1>1, <1>15, StallsDataKeeps
<1>16. CASE \E ep \in Endpoint : Halts(ep)
  BY <1>1, <1>16, HaltsKeeps
<1>17. CASE UNCHANGED usbVars
  <2>1. /\ UNCHANGED <<controller, step, cmd, sends, key, buffer, opened, last>>
        /\ UNCHANGED <<transfer, toggle, raw, device, halted, diskToggle, executed, strayed>>
    BY <1>17 DEF usbVars, callVars, busVars, deviceVars
  <2>2. UsbTypes'
    BY ZenonT(40), <1>1, <2>1 DEF UsbTypes, UsbShapes, Active
  <2>3. NothingMoves' /\ InStep'
    BY <1>1, <2>1 DEF Steady, NothingMoves, InStep, Active, Awaited, What
  <2>4. ReadNow' = ReadNow /\ Mine' = Mine /\ Hopeless' = Hopeless /\ \A i : Own(i)' = Own(i)
    BY <2>1 DEF ReadNow, Mine, Hopeless, Mute, Own
  <2>5. AtCBW' /\ AtData' /\ AtCSW'
    BY <1>1, <2>1, <2>4 DEF Steady, AtCBW, AtData, AtCSW, Active, Done
  <2> QED BY <1>1, <2>1, <2>2, <2>3, <2>5 DEF Steady, ReadsAreTheirOwn
<1> QED BY <1>3, <1>4, <1>5, <1>6, <1>7, <1>8, <1>9, <1>10, <1>11, <1>12, <1>13, <1>14, <1>15, <1>16, <1>17
        DEF UsbNext, HostSteps, DeviceSteps

LEMMA TogglesFollow == ASSUME UsbIInv PROVE TogglesAgree
BY DEF UsbIInv, InStep, TogglesAgree

\* The steps of QueueCommand, the transfers and the device's keep their types.
THEOREM UsbTypeCorrect == UsbSpec => []UsbTypeOK
<1>1. UsbIInv => UsbTypeOK
  BY UsbTypesGive DEF UsbIInv
<1>2. QED BY <1>1, UsbStarts, UsbGoesOn, PTL DEF UsbSpec

\* SCSIHandler_GenericRead gives its caller the data of its own command block or throws, and
\* bEndPointInToggle and bEndPointOutToggle follow the device's, whatever transfers time out,
\* answer late, end early or are halted in between.
THEOREM ReadsAndTogglesAgree == UsbSpec => []DiskAndDriverAgree
<1>1. UsbIInv => DiskAndDriverAgree
  BY TogglesFollow DEF UsbIInv, DiskAndDriverAgree
<1>2. QED BY <1>1, UsbStarts, UsbGoesOn, PTL DEF UsbSpec
=============================================================================
