------------------------------ MODULE XhciRings ------------------------------
(***************************************************************************)
(* The rings of an xHCI controller: commands, control requests, bulk data  *)
(* and key reports are transfer request blocks (TRBs) in rings the         *)
(* controller follows by their cycle bits, and it answers in an event ring *)
(* that the interrupt handler, or a waiter that polls, empties.  One       *)
(* thread probes the ports and reads the disk, a timed task queues         *)
(* transfers for key reports; the interrupt comes between any two of their *)
(* steps.  A TRB of a data ring is written in two steps: the word with the *)
(* flags, and type and cycle bit.                                          *)
(***************************************************************************)
EXTENDS Integers, Sequences

CONSTANTS Plugs,                     \* what may be at the ports: sequences of "keyboard", "disk", "other", "none"
          XhciSlots,                 \* TRANSFER_RING_SIZE is one more: the link
          EventSlots,                \* ERST_SIZE
          MaxReports, MaxBeside,     \* keys pressed, and if there is a disk as well
          MaxIos, MaxBad             \* bulk transfers, transfers that go wrong

VARIABLES plugged,
          ring,      \* TransferRing and CommandManager: blocks, link, where the driver is
          pipe,      \* where the controller is in it
          eventRing, \* EventManager, with the controller's place
          results,   \* _eventResults: who waits for the event of a TRB
          eventMode, \* XHCIManager: "Interrupt", or "Poll" if the IRQ could not be had
          prober,    \* the thread that probes, and then does bulk transfers
          woken,     \* its ProcessStateInfo::_eventCompleted
          poller,    \* USBKeyboard::TimerTrigger
          reports,   \* the memory at _reports, in halves of a report
          pressed, served,   \* reports the keyboard sent; those given to Handle
          bulkMoved, ios, badEvents

xhciVars == <<plugged, ring, pipe, eventRing, results, eventMode, prober, woken, poller, reports, pressed, served, bulkMoved, ios, badEvents>>

Rings == {"command", "control", "diskControl", "bulk", "keys"}
Slots(r) == IF r = "command" THEN 1 ELSE XhciSlots
Slot == 0 .. XhciSlots - 1
Trb == [c |-> FALSE, typed |-> FALSE, last |-> FALSE, what |-> <<"none", 0>>, todo |-> FALSE]
NoResult == [kind |-> "none", ok |-> FALSE, what |-> <<"none", 0>>, index |-> 0]
NewRing(r) == [trb |-> [s \in Slot |-> Trb], linkC |-> FALSE, next |-> 0, cycle |-> TRUE, free |-> Slots(r), dq |-> 0]
NewPipe == [at |-> 0, cycle |-> TRUE, on |-> FALSE, halted |-> FALSE]

-----------------------------------------------------------------------------
(* TransferRing *)

\* The link is handed over when the slot behind it is wanted.
NextTRB(r) == IF r.next = XhciSlots THEN [r EXCEPT !.linkC = r.cycle, !.next = 1, !.cycle = ~@, !.free = @ - 1]
              ELSE [r EXCEPT !.next = @ + 1, !.free = @ - 1]

\* The word with the flags has a cycle bit of 0, which in every other lap is that of a valid TRB.
AddTrb(r, what, last) ==
  LET n == NextTRB(r) IN
  [n EXCEPT !.trb[n.next - 1] = [c |-> FALSE, typed |-> FALSE, last |-> last, what |-> what, todo |-> TRUE]]
SetCycleBit(r) == [r EXCEPT !.trb[r.next - 1].typed = TRUE, !.trb[r.next - 1].c = r.cycle]
Added(r, what, last) == SetCycleBit(AddTrb(r, what, last))

\* The slots up to the one that was answered are free, also those whose answer was missed.
\* A bug: one too many, across the link.
OneTooMany(r, s) == [r EXCEPT !.free = @ + (IF s < r.dq THEN XhciSlots + 2 - r.dq + s ELSE s - r.dq + 1),
                              !.dq = (s + 1) % XhciSlots]
UpdateDeEnQPtr(r, s) == [r EXCEPT !.free = @ + (IF s < r.dq THEN XhciSlots + 1 - r.dq + s ELSE s - r.dq + 1),
                                  !.dq = (s + 1) % XhciSlots]

\* Command ring: one command, whose link goes with it.
Apply(r, what) == [r EXCEPT !.trb[0] = [c |-> r.cycle, typed |-> TRUE, last |-> TRUE, what |-> what, todo |-> TRUE],
                            !.linkC = r.cycle, !.cycle = ~@]

-----------------------------------------------------------------------------
(* XHCIController::Probe and the constructor of XHCIDevice *)

IsCommand(op) == op \in {"EnableSlot", "AddressDevice", "EvaluateContext", "ConfigureEndPoint"}
Recovery == <<"CommandReset", "ClearHaltIn", "ClearHaltOut">>
IsRecovery(op) == \E i \in DOMAIN Recovery : Recovery[i] = op
HasNoData(op) == op \in {"setConfig", "SetIdle"} \/ IsRecovery(op)
Control(op) == IF IsRecovery(op) THEN "diskControl" ELSE "control"

\* Whatever goes wrong is thrown out of Probe; only what a driver does with a device is not.
FollowsOn(op) ==
  CASE op = "EnableSlot" -> {"AddressDevice", "stopped"}
    [] op = "AddressDevice" -> {"device", "stopped"}
    [] op = "device" -> {"langHead"}
    [] op = "langHead" -> {"lang"}
    [] op \in {"lang", "string"} -> {"stringHead", "configHead"}
    [] op = "stringHead" -> {"string", "stringHead", "configHead"}
    [] op = "configHead" -> {"config"}
    [] op = "config" -> {"configHead", "EvaluateContext", "stopped"}
    [] op = "EvaluateContext" -> {"ConfigureEndPoint"}
    [] op = "ConfigureEndPoint" -> {"value", "stopped"}
    [] op = "value" -> {"setConfig", "found"}
    [] op = "setConfig" -> {"newValue"}
    [] op = "newValue" -> {"found"}

\* Halt, reset, handoff and run each have a register to wait for; the controller is out if one does
\* not come, or if it has no message interrupts.
InTime == BOOLEAN
Construct == /\ prober.pc = "new"
             /\ \E all \in InTime : prober' = [prober EXCEPT !.pc = IF all THEN "built" ELSE "stopped"]
             /\ UNCHANGED <<plugged, ring, pipe, eventRing, results, eventMode, woken, poller, reports, pressed, served, bulkMoved, ios, badEvents>>
StartHc == /\ prober.pc = "built"
           /\ \E runs \in InTime : prober' = [prober EXCEPT !.pc = IF runs THEN "port" ELSE "stopped"]
           /\ UNCHANGED <<plugged, ring, pipe, eventRing, results, eventMode, woken, poller, reports, pressed, served, bulkMoved, ios, badEvents>>

NextXhciPort == IF prober.port < Len(plugged) THEN [prober EXCEPT !.pc = "port", !.port = @ + 1]
                ELSE [prober EXCEPT !.pc = IF prober.disk THEN "disk" ELSE "stopped"]

\* Ports without protocol, power, device or enable are passed over.
ProbePort == /\ prober.pc = "port"
             /\ \/ prober' = NextXhciPort /\ UNCHANGED <<ring, pipe>>
                \/ /\ plugged[prober.port] # "none" /\ prober' = [prober EXCEPT !.pc = "send", !.op = "EnableSlot"]
                   /\ ring' = [ring EXCEPT !["control"] = NewRing("control")]
                   /\ pipe' = [pipe EXCEPT !["control"] = NewPipe]
             /\ UNCHANGED <<plugged, eventRing, results, eventMode, woken, poller, reports, pressed, served, bulkMoved, ios, badEvents>>

\* Nobody asks a control ring for its free slots.
ControlTd(r, op) ==
  [(IF HasNoData(op) THEN Added(Added(r, <<op, 1>>, FALSE), <<op, 2>>, TRUE)
    ELSE Added(Added(Added(r, <<op, 1>>, FALSE), <<op, 2>>, FALSE), <<op, 3>>, TRUE)) EXCEPT !.free = XhciSlots]

\* CommandManager, ControlEndPoint::SetupTransfer
Send == /\ prober.pc = "send"
        /\ \/ /\ IsCommand(prober.op)
              /\ ring' = [ring EXCEPT !["command"] = Apply(@, <<prober.op, 1>>)]
              /\ prober' = [prober EXCEPT !.pc = "register", !.trb = <<"command", 0>>]
           \/ /\ ~IsCommand(prober.op)
              /\ \E r \in {ControlTd(ring[Control(prober.op)], prober.op)} :
                   /\ ring' = [ring EXCEPT ![Control(prober.op)] = r]
                   /\ prober' = [prober EXCEPT !.pc = "register", !.trb = <<Control(prober.op), r.next - 1>>]
        /\ UNCHANGED <<plugged, pipe, eventRing, results, eventMode, woken, poller, reports, pressed, served, bulkMoved, ios, badEvents>>

-----------------------------------------------------------------------------
(* Bulk transfers of the disk: InputContext::SendData, ReceiveData *)

\* A bound: with a disk and a keyboard nothing goes wrong, and fewer keys are pressed,
\* and a transfer has one part.
Beside == prober.disk /\ poller.pc # "off"

BulkStart == /\ prober.pc = "disk" /\ ios < MaxIos /\ ios' = ios + 1 /\ bulkMoved' = {}   \* at most one disk and one keyboard
             /\ \E parts \in IF Beside THEN {1} ELSE 1 .. XhciSlots - 1 :
                  prober' = [prober EXCEPT !.op = "bulk", !.parts = parts, !.part = 1,
                                           !.pc = IF parts > ring["bulk"].free THEN "disk" ELSE "add"]
             /\ UNCHANGED <<plugged, ring, pipe, eventRing, results, eventMode, woken, poller, reports, pressed, served, badEvents>>

BulkAdd == /\ \/ /\ prober.pc = "add" /\ prober' = [prober EXCEPT !.pc = "valid"]
                 /\ ring' = [ring EXCEPT !["bulk"] = AddTrb(@, <<"bulk", ios>>, prober.part = prober.parts)]
              \/ /\ prober.pc = "valid"
                 /\ ring' = [ring EXCEPT !["bulk"] = SetCycleBit(@)]
                 /\ prober' = IF prober.part = prober.parts
                              THEN [prober EXCEPT !.pc = "register", !.trb = <<"bulk", ring["bulk"].next - 1>>]
                              ELSE [prober EXCEPT !.pc = "add", !.part = @ + 1]
           /\ UNCHANGED <<plugged, pipe, eventRing, results, eventMode, woken, poller, reports, pressed, served, bulkMoved, ios, badEvents>>

\* A disk that failed a transfer is reset, and its end points are, but not those of the controller.
Recover == /\ prober.pc = "disk" /\ prober.again
           /\ prober' = [prober EXCEPT !.pc = "send", !.op = Recovery[1], !.again = FALSE]
           /\ UNCHANGED <<plugged, ring, pipe, eventRing, results, eventMode, woken, poller, reports, pressed, served, bulkMoved, ios, badEvents>>

-----------------------------------------------------------------------------
(* InitiateCommand, InitiateTransfer *)

Register == /\ prober.pc = "register" /\ prober' = [prober EXCEPT !.pc = "ring"]
            /\ results' = [results EXCEPT ![prober.trb] = [NoResult EXCEPT !.kind = "waited"]]
            /\ UNCHANGED <<plugged, ring, pipe, eventRing, eventMode, woken, poller, reports, pressed, served, bulkMoved, ios, badEvents>>

RingDoorBell == /\ prober.pc = "ring" /\ prober' = [prober EXCEPT !.pc = "wait"]
                /\ pipe' = [pipe EXCEPT ![prober.trb[1]].on = TRUE]
                /\ UNCHANGED <<plugged, ring, eventRing, results, eventMode, woken, poller, reports, pressed, served, bulkMoved, ios, badEvents>>

\* What the caller does with an answer, or with the exception.
Answered(ok, what) ==
  prober' \in IF prober.trb[1] = "bulk" THEN {[prober EXCEPT !.pc = IF ok THEN "moved" ELSE "disk", !.again = ~ok, !.part = 1, !.parts = 1]}
              ELSE IF prober.op = "SetIdle" \/ IsRecovery(prober.op)
              THEN {[prober EXCEPT !.pc = "answered", !.ok = ok, !.what = what, !.next = prober.op]}
              ELSE {[prober EXCEPT !.pc = "answered", !.ok = ok, !.what = what, !.next = n] :
                      n \in IF ok THEN FollowsOn(prober.op) ELSE {"stopped"}}

\* Interrupts: the wait, and ConsumeEventResult.
Wake == /\ prober.pc = "wait" /\ woken /\ eventMode = "Interrupt" /\ woken' = FALSE
        /\ prober' = [prober EXCEPT !.pc = "consume"]
        /\ UNCHANGED <<plugged, ring, pipe, eventRing, results, eventMode, poller, reports, pressed, served, bulkMoved, ios, badEvents>>

ConsumeEventResult ==
  /\ prober.pc = "consume"
  /\ \E r \in {results[prober.trb]} :
       /\ results' = [results EXCEPT ![prober.trb] = NoResult]
       /\ Answered(r.ok, r.what)
       /\ ring' = IF r.ok /\ prober.trb[1] = "bulk" THEN [ring EXCEPT !["bulk"] = UpdateDeEnQPtr(@, prober.trb[2])] ELSE ring
  /\ UNCHANGED <<plugged, pipe, eventRing, eventMode, woken, poller, reports, pressed, served, bulkMoved, ios, badEvents>>

\* The last event of a lap turns the cycle; of one that was taken only the cycle bit counts.
NoEvent == [c |-> FALSE, trb |-> <<"command", 0>>, ok |-> FALSE, what |-> <<"none", 0>>, n |-> 0]
Event == eventRing.slot[eventRing.dq]
Pending == Event.c = eventRing.cycle
\* A bug: the pointer runs past the end of the ring.
NoWrap == [eventRing EXCEPT !.slot[eventRing.dq] = [NoEvent EXCEPT !.c = Event.c], !.dq = @ + 1]
Dequeued == [eventRing EXCEPT !.slot[eventRing.dq] = [NoEvent EXCEPT !.c = Event.c], !.dq = (@ + 1) % EventSlots, !.cycle = IF eventRing.dq = EventSlots - 1 THEN ~@ ELSE @]

\* No interrupts: EventManager::WaitForEvent takes what comes and drops what is another's, for two seconds.
PollEvent == /\ prober.pc = "wait" /\ eventMode = "Poll"
             /\ \/ /\ Pending /\ eventRing' = Dequeued /\ badEvents' = badEvents
                   /\ \/ Event.trb # prober.trb /\ UNCHANGED <<prober, ring>>
                      \/ /\ Event.trb = prober.trb /\ Answered(Event.ok, Event.what)
                         /\ ring' = IF Event.ok /\ prober.trb[1] = "bulk" THEN [ring EXCEPT !["bulk"] = UpdateDeEnQPtr(@, prober.trb[2])] ELSE ring
                \/ /\ ~Pending /\ badEvents < MaxBad /\ ~Beside /\ badEvents' = badEvents + 1
                   /\ Answered(FALSE, <<"none", 0>>) /\ UNCHANGED <<eventRing, ring>>
             /\ UNCHANGED <<plugged, pipe, results, eventMode, woken, poller, reports, pressed, served, bulkMoved, ios>>

Found(device) == prober.next = "found" /\ plugged[prober.port] = device

\* A keyboard is set idle, then its task starts; a disk is used once all ports are probed.
Proceed ==
  /\ \/ prober.pc = "moved" /\ prober' = [prober EXCEPT !.pc = "disk"] /\ UNCHANGED <<ring, pipe, poller>>
     \/ /\ prober.pc = "answered"
        /\ \/ /\ prober.next \notin {"stopped", "found", "SetIdle"} /\ ~IsRecovery(prober.next)
              /\ prober' = [prober EXCEPT !.pc = "send", !.op = prober.next] /\ UNCHANGED <<ring, pipe, poller>>
           \/ prober.next = "stopped" /\ prober' = [prober EXCEPT !.pc = "stopped"] /\ UNCHANGED <<ring, pipe, poller>>
           \/ Found("other") /\ prober' = NextXhciPort /\ UNCHANGED <<ring, pipe, poller>>
           \/ /\ Found("disk") /\ UNCHANGED poller
              /\ ring' = [ring EXCEPT !["diskControl"] = ring["control"]]
              /\ pipe' = [pipe EXCEPT !["diskControl"] = pipe["control"]]
              /\ prober' = IF prober.port < Len(plugged) THEN [NextXhciPort EXCEPT !.disk = TRUE]
                           ELSE [prober EXCEPT !.pc = "disk", !.disk = TRUE]
           \/ /\ Found("keyboard")
              /\ prober' = [prober EXCEPT !.pc = "send", !.op = "SetIdle"] /\ UNCHANGED <<ring, pipe, poller>>
           \/ /\ prober.next = "SetIdle" /\ prober' = [NextXhciPort EXCEPT !.ok = FALSE]
              /\ poller' = IF prober.ok THEN [poller EXCEPT !.pc = "idle"] ELSE poller
              /\ UNCHANGED <<ring, pipe>>
           \/ /\ \E i \in DOMAIN Recovery :
                   /\ prober.next = Recovery[i]
                   /\ prober' = IF prober.ok /\ i < Len(Recovery) THEN [prober EXCEPT !.pc = "send", !.op = Recovery[i + 1]]
                                ELSE [prober EXCEPT !.pc = "disk"]
              /\ UNCHANGED <<ring, pipe, poller>>
  /\ UNCHANGED <<plugged, eventRing, results, eventMode, woken, reports, pressed, served, bulkMoved, ios, badEvents>>

-----------------------------------------------------------------------------
(* USBKeyboard::TimerTrigger: the address it gives is that of the pointer, so two reports overlap. *)

\* A bug: a full ring is not noticed.
NoSlots == 0
RequiredSlots == 1

TimerTrigger ==
  /\ \/ /\ poller.pc = "idle" /\ RequiredSlots <= ring["keys"].free /\ UNCHANGED <<pipe, results>>
        /\ poller' = [poller EXCEPT !.pc = "valid"]
        /\ ring' = [ring EXCEPT !["keys"] = AddTrb(@, <<"keys", poller.index>>, TRUE)]
     \/ /\ poller.pc = "valid" /\ poller' = [poller EXCEPT !.pc = "register"] /\ UNCHANGED <<pipe, results>>
        /\ ring' = [ring EXCEPT !["keys"] = SetCycleBit(@)]
     \/ /\ poller.pc = "register" /\ poller' = [poller EXCEPT !.pc = "ring"] /\ UNCHANGED <<ring, pipe>>
        /\ results' = [results EXCEPT ![<<"keys", ring["keys"].next - 1>>] = [NoResult EXCEPT !.kind = "keys", !.index = poller.index]]
     \/ /\ poller.pc = "ring" /\ UNCHANGED <<ring, results>>
        /\ poller' = [poller EXCEPT !.pc = "idle", !.index = (@ + 1) % (XhciSlots + 1)]
        /\ pipe' = [pipe EXCEPT !["keys"].on = TRUE]
  /\ UNCHANGED <<plugged, eventRing, eventMode, prober, woken, reports, pressed, served, bulkMoved, ios, badEvents>>

NotRegistered(trb) == poller.pc = "register" /\ trb = <<"keys", ring["keys"].next - 1>>

\* XHCI_IRQHandler: NotifyEvents and PublishEventResult, an event at a time.
NotifyEvents ==
  /\ eventMode = "Interrupt" /\ Pending /\ eventRing' = Dequeued
  /\ \E r \in {results[Event.trb]} :
       \/ r.kind = "none" /\ UNCHANGED <<ring, results, woken, served>>
       \/ /\ r.kind = "waited" /\ woken' = TRUE /\ UNCHANGED <<ring, served>>
          /\ results' = [results EXCEPT ![Event.trb].ok = Event.ok, ![Event.trb].what = Event.what]
       \/ /\ r.kind = "keys" /\ ~Event.ok /\ UNCHANGED <<ring, results, woken, served>>
       \/ /\ r.kind = "keys" /\ Event.ok /\ woken' = woken
          /\ results' = [results EXCEPT ![Event.trb] = NoResult]
          /\ ring' = [ring EXCEPT !["keys"] = UpdateDeEnQPtr(@, Event.trb[2])]
          /\ served' = Append(served, [n |-> Event.n, first |-> reports[r.index], second |-> reports[r.index + 1],
                                       left |-> NotRegistered(Event.trb)])
  /\ UNCHANGED <<plugged, pipe, eventMode, prober, poller, reports, pressed, bulkMoved, ios, badEvents>>

-----------------------------------------------------------------------------
(* The controller *)

Here(r) == ring[r].trb[pipe[r].at]
AtLink(r) == pipe[r].at = Slots(r)
Valid(r) == ~AtLink(r) /\ Here(r).c = pipe[r].cycle
Room == (eventRing.nq + 1) % EventSlots # eventRing.dq
Post(r, ok) ==
  [eventRing EXCEPT !.slot[eventRing.nq] = [c |-> eventRing.pcs, trb |-> <<r, pipe[r].at>>, ok |-> ok, what |-> Here(r).what, n |-> pressed'],
                    !.nq = (@ + 1) % EventSlots, !.pcs = IF eventRing.nq = EventSlots - 1 THEN ~@ ELSE @]

HcFollowsLink(r) == /\ pipe[r].on /\ AtLink(r) /\ ring[r].linkC = pipe[r].cycle
                    /\ pipe' = [pipe EXCEPT ![r].at = 0, ![r].cycle = ~@]
                    /\ UNCHANGED <<plugged, ring, eventRing, results, eventMode, prober, woken, poller, reports, pressed, served, bulkMoved, ios, badEvents>>

HcRests(r) == /\ pipe[r].on /\ ~Valid(r) /\ ~(AtLink(r) /\ ring[r].linkC = pipe[r].cycle)
              /\ pipe' = [pipe EXCEPT ![r].on = FALSE]
              /\ UNCHANGED <<plugged, ring, eventRing, results, eventMode, prober, woken, poller, reports, pressed, served, bulkMoved, ios, badEvents>>

HcDoes(r) ==
  /\ pipe[r].on /\ ~pipe[r].halted /\ Valid(r) /\ Here(r).typed /\ (Here(r).last => Room)
  /\ r = "keys" => pressed < IF Beside THEN MaxBeside ELSE MaxReports
  /\ pressed' = IF r = "keys" THEN pressed + 1 ELSE pressed
  /\ reports' = IF r = "keys" THEN [reports EXCEPT ![Here(r).what[2]] = <<pressed + 1, 1>>, ![Here(r).what[2] + 1] = <<pressed + 1, 2>>]
                ELSE reports
  /\ bulkMoved' = IF r = "bulk" /\ Here(r).what[2] = ios THEN bulkMoved \cup {pipe[r].at} ELSE bulkMoved
  /\ eventRing' = IF Here(r).last THEN Post(r, TRUE) ELSE eventRing
  /\ ring' = [ring EXCEPT ![r].trb[pipe[r].at].todo = FALSE]
  /\ pipe' = [pipe EXCEPT ![r].at = @ + 1]
  /\ UNCHANGED <<plugged, results, eventMode, prober, woken, poller, served, ios, badEvents>>

\* A short packet at the end goes on, a stall or an error does not: nobody resets the end point.  A
\* TRB without a type is an error.
HcFailsAt(r) ==
  /\ pipe[r].on /\ ~pipe[r].halted /\ Valid(r) /\ Room /\ pressed' = pressed
  /\ badEvents < MaxBad /\ ~Beside /\ badEvents' = badEvents + 1
  /\ eventRing' = Post(r, FALSE)
  /\ \/ /\ r = "command" \/ (Here(r).typed /\ Here(r).last)
        /\ ring' = [ring EXCEPT ![r].trb[pipe[r].at].todo = FALSE] /\ pipe' = [pipe EXCEPT ![r].at = @ + 1]
     \/ r # "command" /\ ring' = ring /\ pipe' = [pipe EXCEPT ![r].halted = TRUE]
  /\ UNCHANGED <<plugged, results, eventMode, prober, woken, poller, reports, served, bulkMoved, ios>>

-----------------------------------------------------------------------------
XhciInit ==
  /\ plugged \in Plugs
  /\ ring = [r \in Rings |-> NewRing(r)] /\ pipe = [r \in Rings |-> NewPipe]
  /\ eventRing = [slot |-> [s \in 0 .. EventSlots - 1 |-> NoEvent],
                  dq |-> 0, cycle |-> TRUE, nq |-> 0, pcs |-> TRUE]
  /\ results = [t \in Rings \X Slot |-> NoResult] /\ eventMode \in {"Interrupt", "Poll"}
  /\ prober = [pc |-> "new", port |-> 1, op |-> "none", trb |-> <<"command", 0>>, ok |-> FALSE, what |-> <<"none", 0>>, next |-> "none",
               disk |-> FALSE, parts |-> 1, part |-> 1, again |-> FALSE]
  /\ woken = FALSE /\ poller = [pc |-> "off", index |-> 0]
  /\ reports = [c \in 0 .. XhciSlots + 1 |-> <<0, 0>>] /\ pressed = 0 /\ served = <<>>
  /\ bulkMoved = {} /\ ios = 0 /\ badEvents = 0

XhciNext == \/ Construct \/ StartHc \/ ProbePort \/ Send \/ BulkStart \/ BulkAdd \/ Recover \/ Register \/ RingDoorBell \/ Wake
            \/ ConsumeEventResult \/ PollEvent \/ Proceed \/ TimerTrigger \/ NotifyEvents
            \/ \E r \in Rings : HcFollowsLink(r) \/ HcRests(r) \/ HcDoes(r) \/ HcFailsAt(r)

XhciSpec == XhciInit /\ [][XhciNext]_xhciVars

-----------------------------------------------------------------------------
XhciTypeOK ==
  /\ \A r \in Rings : /\ ring[r].next \in 0 .. XhciSlots /\ pipe[r].at \in 0 .. XhciSlots
  /\ eventRing.dq \in 0 .. EventSlots - 1 /\ eventRing.nq \in 0 .. EventSlots - 1
  /\ poller.pc \in {"off", "idle", "valid", "register", "ring"} /\ badEvents \in 0 .. MaxBad

\* What the rings promise: the controller runs no TRB twice and the driver writes over none it has
\* still to run (the free slots are as many as there are); a bulk transfer that succeeded moved each of its parts; with interrupts a request is
\* answered by its own event; reports are handled once and in order, and the first half of each is as
\* it was sent, the second half also (or is the next one's first half: they overlap), but for one that
\* is answered before the task that queued it comes to register: it finds nobody, or the entry that a
\* failed transfer left behind; every other finds who waits for it.
RingsKeepTransfers ==
  /\ \A r \in Rings : Valid(r) => Here(r).todo
  /\ \A r \in {"bulk", "keys"} : ring[r].free \in 0 .. XhciSlots
  /\ \A r \in {"bulk", "keys"} : ring[r].free > 0 => ~ring[r].trb[ring[r].next % XhciSlots].todo
  /\ prober.pc = "moved" /\ eventMode = "Interrupt" => \A s \in Slot : ring["bulk"].trb[s].what = <<"bulk", ios>> => s \in bulkMoved
  /\ prober.pc = "answered" /\ prober.ok /\ eventMode = "Interrupt" => prober.what[1] = prober.op
  /\ prober.pc = "wait" /\ eventMode = "Interrupt" => results[prober.trb].kind = "waited"
  /\ \A i \in DOMAIN served : /\ i > 1 => served[i].n > served[i - 1].n
                              /\ ~served[i].left => served[i].first = <<served[i].n, 1>>
                              /\ ~served[i].left => served[i].second \in {<<served[i].n, 2>>, <<served[i].n + 1, 1>>}
  /\ eventMode = "Interrupt" /\ Pending /\ Event.trb[1] = "keys" /\ Event.ok /\ results[Event.trb].kind = "none" =>
       NotRegistered(Event.trb)
=============================================================================
