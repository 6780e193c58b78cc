------------------------------- MODULE UsbDisk -------------------------------
(***************************************************************************)
(* A USB disk: the commands of SCSIHandler, the bulk-only protocol of      *)
(* USBMassBulkStorageDisk that carries each of them as a command block, a  *)
(* data phase and a status block, and the bulk transfers of the EHCI and   *)
(* UHCI drivers underneath, packet by packet.                              *)
(*                                                                         *)
(* The controller and the device answer when they like, and the driver     *)
(* gives up waiting when it likes.  A transfer it gave up stays linked: it *)
(* can still move packets until the next transfer of that endpoint         *)
(* replaces it.  Both directions share one raw buffer, and the data        *)
(* toggles are kept by the driver and by the device, each on its own.      *)
(***************************************************************************)
EXTENDS Naturals, Sequences

CONSTANTS
  Controllers,  \* the kinds of host controller
  MaxPackets,   \* bound on the packets of one data phase
  MaxSends      \* bound on the command blocks sent

ASSUME UsbDiskAssumption == /\ Controllers \subseteq {"ehci", "uhci"}
                            /\ MaxPackets \in Nat \ {0} /\ MaxSends \in Nat

VARIABLES
  controller,   \* the host controller the device is attached to
  step,         \* where QueueCommand is
  cmd,          \* the SCSI command
  sends,        \* command blocks sent so far
  key,          \* the sense key in the command
  buffer,       \* what the data phase of the command brought
  opened,       \* what became of the disk: "new", "open" or "failed"
  last,         \* the last read or write that returned
  transfer,     \* the transfer descriptors linked to each endpoint
  toggle,       \* bEndPointInToggle and bEndPointOutToggle
  raw,          \* pRawAlignedBuffer, packet by packet
  device,       \* the device: what it waits for or has to send
  halted,       \* the endpoints the device stalls
  diskToggle,   \* the device's data toggles
  executed,     \* the command blocks the device has executed in full
  strayed       \* the endpoints where driver and device may have lost step

callVars == <<controller, step, cmd, sends, key, buffer, opened, last>>
busVars == <<transfer, toggle, raw>>
deviceVars == <<device, halted, diskToggle, executed>>
usbVars == <<callVars, busVars, deviceVars, strayed>>

Endpoint == {"in", "out"}
Kind == {"none", "inquiry", "ready", "capacity", "read", "write"}
Key == {"none", "retry", "fatal", "not ready"}

\* The data phase of each kind of command: SCSIHandler_GetTransferLen.
Direction(kind) == IF kind = "write" THEN "out" ELSE "in"
PacketSize == [inquiry |-> 36, capacity |-> 8, sense |-> 18, read |-> 512, write |-> 512]
CBWSize == 31
CSWSize == 13

\* What a packet holds: of which command block, what, and its place or its meaning.
Packet(no, what, place, info) == [no |-> no, what |-> what, place |-> place, info |-> info]
Garbage == Packet(0, "garbage", 1, "none")

Off == [state |-> "off", left |-> 0, size |-> 0, toggle |-> 0, place |-> 1]
Waits4CBW == [phase |-> "idle", no |-> 0, kind |-> "none", packets |-> 0, place |-> 1, got |-> <<>>, status |-> "ok"]
NoCommand == [kind |-> "none", packets |-> 0, auto |-> FALSE, no |-> 0, result |-> 0]

UsbTypeOK ==
  /\ controller \in Controllers
  /\ step \in {"idle", "issue", "cbw", "data", "csw", "reset", "clear in", "clear out"}
  /\ cmd.kind \in Kind /\ cmd.packets \in 0 .. MaxPackets /\ cmd.auto \in BOOLEAN
  /\ cmd.no \in 0 .. MaxSends /\ cmd.result \in 0 .. 3
  /\ sends \in 0 .. MaxSends
  /\ key \in Key
  /\ opened \in {"new", "open", "failed"}
  /\ \A ep \in Endpoint : /\ transfer[ep].state \in {"off", "active", "halted", "done"}
                          /\ transfer[ep].left \in 0 .. MaxPackets
  /\ toggle \in [Endpoint -> {0, 1}] /\ diskToggle \in [Endpoint -> {0, 1}]
  /\ DOMAIN raw = 1 .. MaxPackets
  /\ device.phase \in {"idle", "data", "csw", "wedged"}
  /\ halted \subseteq Endpoint /\ strayed \subseteq Endpoint
  /\ executed \subseteq 1 .. MaxSends

-----------------------------------------------------------------------------
(* Bulk transfers *)

\* Mutation of Toggled: only whole packets count.
ToggledFloor(t, packets, size) == IF size < 512 THEN t ELSE (t + packets) % 2

\* The toggle moves on by the packets the transfer is meant to have.
Toggled(t, packets, size) == (t + packets) % 2

\* The descriptors of a transfer of EHCI.
LinkedTDs(ep, packets, size) ==
  [state |-> "active", left |-> packets, size |-> size, toggle |-> toggle[ep], place |-> 1]

\* UHCI never links its descriptors into the queue head, finds its element pointer at the
\* end of the list and returns: nothing moves, nothing fails.
Unlinked == [Off EXCEPT !.state = "done"]

\* BulkRead and BulkWrite up to PollWait: whatever was linked to the endpoint is gone.
Begin(ep, packets, size) ==
  /\ transfer' = [transfer EXCEPT ![ep] = IF controller = "ehci" THEN LinkedTDs(ep, packets, size) ELSE Unlinked]
  /\ toggle' = [toggle EXCEPT ![ep] = Toggled(@, packets, size)]

Filled(packets) == raw' = [i \in DOMAIN raw |-> IF i \in DOMAIN packets THEN packets[i] ELSE raw[i]]

Active(ep) == transfer[ep].state = "active"
Done(ep) == transfer[ep].state = "done"

\* One more packet has moved.
Moved(ep, t) == [t EXCEPT !.left = @ - 1, !.place = @ + 1, !.toggle = 1 - @,
                          !.state = IF t.left = 1 THEN "done" ELSE "active"]

-----------------------------------------------------------------------------
(* The device, and its endpoints on the bus *)

\* Data the device has for a read, and what it says about sense, capacity and itself.
DataPacket(place) == Packet(device.no, "data", place, device.status)

AfterData == IF device.place < device.packets THEN [device EXCEPT !.place = @ + 1] ELSE [device EXCEPT !.phase = "csw"]

\* A valid command block; the device knows what will become of the command.  "less" is a
\* read that ends early with a short packet.
Accept(cbw, status) ==
  LET at == IF cbw.place = 0 THEN "csw" ELSE "data"
  IN  device' = [phase |-> at, no |-> cbw.no, kind |-> cbw.info, packets |-> cbw.place,
               place |-> 1, got |-> <<>>, status |-> status]

Statuses(kind) == IF kind = "sense" THEN {"ok", "retry", "fatal", "not ready", "phase"}
                  ELSE IF kind = "write" THEN {"ok", "fail", "phase"}
                  ELSE {"ok", "fail", "phase", "less"}

\* A packet with the toggle of the one before is acknowledged and dropped; a short one ends
\* the data phase, and the device writes whole packets only.
OutPacket ==
  LET t == transfer["out"]
      packet == raw[t.place]
  IN  /\ Active("out") /\ "out" \notin halted
      /\ device.phase = "idle" \/ (device.phase = "data" /\ device.kind = "write")
      /\ transfer' = [transfer EXCEPT !["out"] = Moved("out", t)]
      /\ IF t.toggle # diskToggle["out"]
           THEN UNCHANGED <<device, halted, diskToggle>>
           ELSE /\ diskToggle' = [diskToggle EXCEPT !["out"] = 1 - @]
                /\ IF device.phase = "data"
                     THEN /\ device' = IF t.size = PacketSize["write"] THEN [AfterData EXCEPT !.got = Append(@, packet)]
                                      ELSE [device EXCEPT !.phase = "csw", !.status = "less"]
                          /\ halted' = halted
                     ELSE IF packet.what = "cbw"
                     THEN /\ \E s \in Statuses(packet.info) : Accept(packet, s)
                          /\ halted' = halted
                     ELSE /\ device' = [device EXCEPT !.phase = "wedged"]
                          /\ halted' = Endpoint
      /\ UNCHANGED <<callVars, toggle, raw, executed, strayed>>

\* What the device sends next, its size, and what it does after that.
Sending == device.phase = "csw" \/ (device.phase = "data" /\ device.kind # "write")
Less == device.status = "less" /\ device.phase = "data"
NextPacket == IF device.phase = "csw" THEN Packet(device.no, "csw", 1, device.status) ELSE DataPacket(device.place)
NextSize == IF device.phase = "csw" THEN CSWSize
            ELSE IF Less THEN PacketSize[device.kind] - 1 ELSE PacketSize[device.kind]
AfterNext == IF device.phase = "csw" THEN [Waits4CBW EXCEPT !.no = device.no]
             ELSE IF Less THEN [device EXCEPT !.phase = "csw"] ELSE AfterData

\* The device has done what the command block asked for.
Complete == /\ device.phase = "csw" /\ device.status \in {"ok", "retry", "fatal", "not ready"}
            /\ device.kind = "write" =>
                 device.got = [i \in 1 .. device.packets |-> Packet(device.no, "data", i, "none")]

\* The controller halts on a packet that is too long; it drops a repeated one.
InPacket ==
  LET t == transfer["in"]
  IN  /\ Active("in") /\ "in" \notin halted /\ Sending
      /\ IF NextSize > t.size
           THEN /\ transfer' = [transfer EXCEPT !["in"].state = "halted"]
                /\ UNCHANGED <<raw, device, diskToggle, executed, strayed>>
           ELSE /\ device' = AfterNext
                /\ diskToggle' = [diskToggle EXCEPT !["in"] = 1 - @]
                /\ executed' = executed \cup {n \in {device.no} : Complete}
                /\ IF t.toggle # diskToggle["in"]
                     THEN UNCHANGED <<transfer, raw, strayed>>
                     ELSE /\ raw' = [raw EXCEPT ![t.place] = NextPacket]
                          /\ transfer' = [transfer EXCEPT !["in"] =
                               IF NextSize < t.size THEN [@ EXCEPT !.state = "done"] ELSE Moved("in", t)]
                          /\ strayed' = strayed \cup {ep \in {"in"} : NextSize < t.size}
      /\ UNCHANGED <<callVars, toggle, halted>>

\* Instead of a data phase the device stalls its endpoint and will report failure; nobody
\* clears that halt.
StallsData ==
  /\ device.phase = "data" /\ device.status = "fail"
  /\ device' = [device EXCEPT !.phase = "csw"]
  /\ halted' = halted \cup {Direction(device.kind)}
  /\ UNCHANGED <<callVars, busVars, diskToggle, executed, strayed>>

Halts(ep) ==
  /\ Active(ep) /\ ep \in halted
  /\ transfer' = [transfer EXCEPT ![ep].state = "halted"]
  /\ UNCHANGED <<callVars, toggle, raw, deviceVars, strayed>>


-----------------------------------------------------------------------------
(* Commands *)

\* What CheckSense answers; for a device that is not ready it is never assigned.
CheckSense(k) == CASE k = "none" -> {"ok"}
                   [] k = "retry" -> {"retry"}
                   [] k = "fatal" -> {"fatal"}
                   [] k = "not ready" -> {"ok", "retry", "fatal", "other"}

CallDone == step' = "idle" /\ cmd' = NoCommand
Queue(kind, packets) ==
  /\ step' = "issue"
  /\ cmd' = [NoCommand EXCEPT !.kind = kind, !.packets = packets]

\* A new SCSICommand has no sense data; the device's name and the capacity are new buffers.
Fresh == key' = "none" /\ buffer' = <<>>
Open == opened' = "open" /\ CallDone
Fail == opened' = "failed" /\ CallDone
Same == UNCHANGED <<opened, last>>

\* TestReady: after a fatal error QueueCommand's result, a truth value, is returned as the
\* status code, in which 0 is success.
ReadyReturns(status, result, k) ==
  /\ last' = last /\ Fresh
  /\ IF k = "none" /\ result = 0
       THEN Queue("capacity", 1) /\ opened' = opened
       ELSE \E sense \in CheckSense(k) :
              CASE sense = "retry" -> Queue("ready", 0) /\ opened' = opened
                [] sense = "fatal" /\ status -> Fail
                [] OTHER -> Queue("capacity", 1) /\ opened' = opened

\* ReadCapacity looks at the sense key only if there is an error as well.
CapacityReturns(result, k) ==
  /\ last' = last
  /\ IF k = "none" \/ result = 0
       THEN Open /\ UNCHANGED <<key, buffer>>
       ELSE \E sense \in CheckSense(k) :
              CASE sense = "retry" -> Queue("capacity", 1) /\ opened' = opened /\ Fresh
                [] sense = "fatal" -> Fail /\ UNCHANGED <<key, buffer>>
                [] OTHER -> Open /\ UNCHANGED <<key, buffer>>

\* GenericRead and GenericWrite throw, or have their data.
TransferReturns(status, result, data) ==
  /\ CallDone /\ opened' = opened /\ UNCHANGED <<key, buffer>>
  /\ last' = [kind |-> cmd.kind, no |-> cmd.no, packets |-> cmd.packets,
              ok |-> status /\ result = 0, data |-> data]

\* ScanDevice.
InquiryReturns(status, result) ==
  /\ last' = last /\ Fresh
  /\ IF status /\ result = 0 THEN Queue("ready", 0) /\ opened' = opened ELSE Fail

\* QueueCommand returns, and its caller goes on.
QueueCommandReturns(status, result, k) ==
  CASE cmd.kind = "inquiry" -> InquiryReturns(status, result)
    [] cmd.kind = "ready" -> ReadyReturns(status, result, k)
    [] cmd.kind = "capacity" -> CapacityReturns(result, k)
    [] OTHER -> TransferReturns(status, result, buffer)

Reset(result) ==
  /\ step' = "reset" /\ cmd' = [cmd EXCEPT !.result = result]
  /\ UNCHANGED <<key, buffer, opened, last>>

\* Only some kinds of commands may bring less than they asked for.
NeedsSense(verdict) == verdict = "failure" \/ (verdict = "short" /\ cmd.kind # "inquiry")

\* What QueueCommand makes of the result of SendCommand.
Judge(verdict, k) ==
  IF verdict = "error" THEN Reset(IF cmd.auto THEN 2 ELSE 1)
  ELSE IF cmd.auto
  THEN IF k = "none" THEN QueueCommandReturns(FALSE, 0, k) ELSE QueueCommandReturns(verdict = "success", 3, k)
  ELSE IF NeedsSense(verdict)
  THEN /\ step' = "issue" /\ cmd' = [cmd EXCEPT !.auto = TRUE]
       /\ UNCHANGED <<key, buffer, opened, last>>
  ELSE QueueCommandReturns(verdict = "success", 0, k)

-----------------------------------------------------------------------------
(* SendCommand *)

Call(kind, packets) ==
  /\ step = "idle" /\ opened = "open"
  /\ Queue(kind, packets) /\ Fresh
  /\ UNCHANGED <<controller, sends, opened, last, busVars, deviceVars, strayed>>

Packets == IF cmd.auto THEN 1 ELSE cmd.packets
What == IF cmd.auto THEN "sense" ELSE cmd.kind

SendCBW ==
  /\ step = "issue" /\ sends < MaxSends
  /\ step' = "cbw" /\ sends' = sends + 1
  /\ cmd' = IF cmd.auto THEN cmd ELSE [cmd EXCEPT !.no = sends + 1]
  /\ Begin("out", 1, CBWSize)
  /\ Filled(<<Packet(sends + 1, "cbw", Packets, What)>>)
  /\ strayed' = strayed \cup {ep \in {"out"} : Active("out")}
  /\ UNCHANGED <<controller, key, buffer, opened, last, deviceVars>>

\* The queue head is cleaned after a transfer that worked.
Finish(ep, next, packets, size) ==
  transfer' = [transfer EXCEPT ![ep] = Off,
                               ![next] = IF controller = "ehci" THEN LinkedTDs(next, packets, size) ELSE Unlinked]

ReadCSW(ep) ==
  /\ step' = "csw"
  /\ Finish(ep, "in", 1, CSWSize)
  /\ toggle' = [toggle EXCEPT !["in"] = Toggled(@, 1, CSWSize)]
  /\ strayed' = strayed \cup {e \in {"in"} : Active("in")}

\* BulkRead and BulkWrite do nothing for a data phase without data.
BeginData ==
  LET ep == Direction(What)
  IN  /\ step = "cbw" /\ Done("out")
      /\ IF Packets = 0
           THEN ReadCSW("out") /\ raw' = raw
           ELSE /\ step' = "data"
                /\ Finish("out", ep, Packets, PacketSize[What])
                /\ toggle' = [toggle EXCEPT ![ep] = Toggled(@, Packets, PacketSize[What])]
                /\ strayed' = strayed \cup {e \in {ep} : Active(ep)}
                /\ IF ep = "out" THEN Filled([i \in 1 .. Packets |-> Packet(cmd.no, "data", i, "none")])
                                 ELSE raw' = raw
      /\ UNCHANGED <<controller, cmd, sends, key, buffer, opened, last, deviceVars>>

\* The sense key is in the third byte, where a status block has a letter of its signature.
KeyIn(packet) == CASE packet.what = "csw" -> "not ready"
                   [] packet.what = "data" /\ packet.info \in Key -> packet.info
                   [] OTHER -> "none"

BeginCSW ==
  LET ep == Direction(What)
  IN  /\ step = "data" /\ Done(ep)
      /\ ReadCSW(ep)
      /\ IF cmd.auto THEN key' = KeyIn(raw[1]) /\ buffer' = buffer
         ELSE IF ep = "in" THEN buffer' = SubSeq(raw, 1, Packets) /\ key' = key
         ELSE UNCHANGED <<key, buffer>>
      /\ UNCHANGED <<controller, cmd, sends, opened, last, raw, deviceVars>>

\* Mutation of Verdict: whatever the device reports, the protocol worked.
VerdictOfProtocol(packet) == IF packet.what = "csw" THEN "success" ELSE "failure"

\* Every tag is 0, so that any status block has the right one.
Verdict(packet) ==
  CASE packet.what # "csw" -> "failure"
    [] packet.info = "fail" -> "failure"
    [] packet.info = "phase" -> "error"
    [] packet.info = "less" -> "short"
    [] OTHER -> "success"

EndCSW ==
  /\ step = "csw" /\ Done("in")
  /\ Judge(Verdict(raw[1]), key)
  /\ transfer' = [transfer EXCEPT !["in"] = Off]
  /\ UNCHANGED <<controller, sends, toggle, raw, deviceVars, strayed>>

Awaited == CASE step = "cbw" -> "out" [] step = "data" -> Direction(What) [] OTHER -> "in"

\* PollWait gives up: the descriptors stay linked.
TimeOut ==
  /\ step \in {"cbw", "data", "csw"}
  /\ transfer[Awaited].state \in {"active", "halted"}
  /\ Judge("failure", key)
  /\ strayed' = strayed \cup {Awaited}
  /\ UNCHANGED <<controller, sends, busVars, deviceVars>>

-----------------------------------------------------------------------------
(* DoReset: three control transfers, each of which can be lost *)

\* The first reset is part of Initialize, which throws if it fails.
ResetReturns(ok) ==
  IF cmd.kind # "none" THEN QueueCommandReturns(FALSE, cmd.result, key)
  ELSE /\ IF ok THEN Queue("inquiry", 1) /\ opened' = opened ELSE Fail
       /\ UNCHANGED <<key, buffer, last>>

\* UHCI's control transfers reach the device no more than its bulk transfers.
Reaches == controller = "ehci"
GoTo(s) == step' = s /\ UNCHANGED <<cmd, key, buffer, opened, last>>

CommandReset ==
  /\ step = "reset"
  /\ IF Reaches THEN device' = [Waits4CBW EXCEPT !.no = device.no] ELSE device' = device
  /\ GoTo("clear in")
  /\ UNCHANGED <<controller, sends, busVars, halted, diskToggle, executed, strayed>>

\* UHCI's ClearHaltEndPoint resets the driver's toggle, EHCI's does not.
ToggleAfterClear(ep) == IF controller = "uhci" THEN 0 ELSE toggle[ep]

ClearHalt(ep) ==
  /\ IF Reaches THEN /\ halted' = halted \ {ep}
                     /\ diskToggle' = [diskToggle EXCEPT ![ep] = 0]
                ELSE UNCHANGED <<halted, diskToggle>>
  /\ toggle' = [toggle EXCEPT ![ep] = ToggleAfterClear(ep)]
  /\ UNCHANGED <<controller, sends, transfer, raw, device, executed>>

ClearHaltIn == step = "clear in" /\ ClearHalt("in") /\ GoTo("clear out")
               /\ strayed' = strayed \cup {ep \in {"in"} : toggle["in"] # 0}
ClearHaltOut == step = "clear out" /\ ClearHalt("out") /\ ResetReturns(TRUE)
                /\ strayed' = strayed \cup {ep \in {"out"} : toggle["out"] # 0}

ResetFails ==
  /\ step \in {"reset", "clear in", "clear out"} /\ Reaches
  /\ ResetReturns(FALSE)
  /\ UNCHANGED <<controller, sends, busVars, deviceVars, strayed>>

-----------------------------------------------------------------------------
UsbInit ==
  /\ controller \in Controllers
  /\ step = "reset" /\ cmd = NoCommand /\ sends = 0
  /\ key = "none" /\ buffer = <<>>
  /\ opened = "new"
  /\ last = [kind |-> "none", no |-> 0, packets |-> 0, ok |-> FALSE, data |-> <<>>]
  /\ transfer = [ep \in Endpoint |-> Off] /\ toggle = [ep \in Endpoint |-> 0]
  /\ raw = [i \in 1 .. MaxPackets |-> Garbage]
  /\ device = Waits4CBW /\ halted = {} /\ diskToggle = [ep \in Endpoint |-> 0]
  /\ executed = {}
  /\ strayed = IF controller = "uhci" THEN Endpoint ELSE {}

HostSteps ==
  \/ \E kind \in {"read", "write"}, n \in 1 .. MaxPackets : Call(kind, n)
  \/ SendCBW \/ BeginData \/ BeginCSW \/ EndCSW \/ TimeOut
  \/ CommandReset \/ ClearHaltIn \/ ClearHaltOut \/ ResetFails

DeviceSteps == OutPacket \/ InPacket \/ StallsData \/ \E ep \in Endpoint : Halts(ep)

UsbNext == HostSteps \/ DeviceSteps
UsbSpec == UsbInit /\ [][UsbNext]_usbVars

-----------------------------------------------------------------------------
(* Properties *)

\* A read that did not throw brought the data of its own command, whatever transfers
\* timed out, answered late, ended early or lost step before it.
ReadsAreTheirOwn ==
  last.ok /\ last.kind = "read" =>
    /\ last.no \in executed
    /\ last.data = [i \in 1 .. last.packets |-> Packet(last.no, "data", i, "ok")]

\* Until a transfer times out, ends early or is reset away, driver and device agree on
\* every toggle whenever the endpoint is not busy.
TogglesAgree ==
  \A ep \in Endpoint \ strayed : transfer[ep].state = "off" => toggle[ep] = diskToggle[ep]

\* What disk and driver still agree on after a transfer between them went wrong: a read that succeeds
\* has its own data, and toggles agree unless a transfer was given up.
DiskAndDriverAgree == ReadsAreTheirOwn /\ TogglesAgree
=============================================================================
