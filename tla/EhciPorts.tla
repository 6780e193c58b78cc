------------------------------ MODULE EhciPorts ------------------------------
(***************************************************************************)
(* The devices of an EHCI controller are found: for each port a queue head *)
(* enters the asynchronous list while the controller walks it, and control *)
(* requests of two or three transfer descriptors give the device an        *)
(* address and read what it is.  The controller runs a descriptor while    *)
(* the driver polls, gives up, cleans the queue head and frees the memory. *)
(* A descriptor or a buffer is a block; strings are as many as one likes.  *)
(***************************************************************************)
EXTENDS Integers, Sequences, FiniteSets

CONSTANTS NumEhciPorts, NumBlocks, MaxGivenUp   \* the last bounds the polls that run out

VARIABLES link,    \* uiHeadHorizontalLink of the head 0 and of the queue heads of ports, NoLink before
          qh,      \* their address, and the transfer overlay
          mem,     \* the blocks: descriptors, buffers, free ones
          hc,      \* the queue head the controller is at, what it read there, the descriptor it runs
          dev,     \* the devices: on the bus, address, the request they were sent
          probe,   \* EHCIController::Probe: port, stage, request, whether it succeeded
          tds,     \* _dStorageList of the transaction
          bell,    \* the doorbell: "off", "rung", "heard"
          seqDevAddr, leaked, givenUp

ehciVars == <<link, qh, mem, hc, dev, probe, tds, bell, seqDevAddr, leaked, givenUp>>

EhciPort == 1 .. NumEhciPorts
Block == 1 .. NumBlocks
None == 0       \* no descriptor
NoLink == -1

-----------------------------------------------------------------------------
(* What the constructor of EHCIDevice and the driver ask for, in order. *)

Script == <<"address", "deviceHead", "device", "value", "configHead", "config", "setConfig",
            "langHead", "lang", "stringHead", "string", "reset">>
HasData(r) == r \notin {"address", "setConfig", "reset"}
StringsAreOptional(r) == r \in {"langHead", "lang", "stringHead", "string"}
After(r) == Script[(CHOOSE i \in DOMAIN Script : Script[i] = r) + 1]

\* What may be next: a configuration is set if none was, strings are read in a language that is
\* supported, the reset is that of a bulk disk.
FollowsOn(r, ok) ==
  CASE ok /\ r = "config" -> {"setConfig", "langHead"}
    [] ok /\ r \in {"lang", "stringHead"} -> {After(r), "stringHead", "reset", "found"}
    [] (ok /\ r = "string") \/ (~ok /\ r \in {"stringHead", "string"}) -> {"stringHead", "reset", "found"}
    [] ~ok /\ r \in {"langHead", "lang"} -> {"reset", "found"}
    [] ok /\ r = "reset" -> {"found"}
    [] ok /\ r \notin {"config", "lang", "stringHead", "string", "reset"} -> {After(r)}
    [] ~ok /\ r = "reset" -> {"found"}
    [] ~ok /\ r # "reset" /\ ~StringsAreOptional(r) -> {"stopped"}

-----------------------------------------------------------------------------
(* Queue heads, EHCIController *)

\* BIOS handoff, schedules and configuration flag: any of them may fail, and the controller is out.
Start == /\ probe.stage = "start"
         /\ probe' \in {[probe EXCEPT !.stage = "port"], [probe EXCEPT !.stage = "stopped"]}
         /\ UNCHANGED <<link, qh, mem, hc, dev, tds, bell, seqDevAddr, leaked, givenUp>>

NextPort == IF probe.port = NumEhciPorts THEN [probe EXCEPT !.stage = "stopped"]
            ELSE [probe EXCEPT !.stage = "port", !.port = @ + 1]

\* Reset: what is not enabled by then is not set up; what is answers at address 0.
SetUpPort == /\ probe.stage = "port"
             /\ \/ probe' = NextPort /\ UNCHANGED <<dev, qh>>
                \/ /\ dev' = [dev EXCEPT ![probe.port] = [on |-> TRUE, addr |-> 0, req |-> [name |-> "none", addr |-> 0]]]
                   /\ qh' = [qh EXCEPT ![probe.port] = [addr |-> 0, cur |-> None, next |-> None, active |-> FALSE, halted |-> FALSE]]
                   /\ probe' = [probe EXCEPT !.stage = "link"]
             /\ UNCHANGED <<link, mem, hc, tds, bell, seqDevAddr, leaked, givenUp>>

\* AddAsyncQueueHead: two writes.  A bug: the other way round.
HeadFirst(n) == IF n = 1 THEN [link EXCEPT ![0] = probe.port] ELSE [link EXCEPT ![probe.port] = 0]
AddAsyncQueueHead(n) == IF n = 1 THEN [link EXCEPT ![probe.port] = link[0]] ELSE [link EXCEPT ![0] = probe.port]

Link == /\ probe.stage \in {"link", "linked"}
        /\ link' = AddAsyncQueueHead(IF probe.stage = "link" THEN 1 ELSE 2)
        /\ probe' = IF probe.stage = "link" THEN [probe EXCEPT !.stage = "linked"]
                    ELSE [probe EXCEPT !.stage = "request", !.req = "address", !.ok = FALSE]
        /\ UNCHANGED <<qh, mem, hc, dev, tds, bell, seqDevAddr, leaked, givenUp>>

-----------------------------------------------------------------------------
(* EHCIDevice: a control request *)

Free == {b \in Block : mem[b].use = "free"}
NthFree(n) == CHOOSE b \in Free : Cardinality({c \in Free : c < b}) = n - 1
Td(pid, buf, next) == [use |-> "td", pid |-> pid, buf |-> buf, next |-> next, active |-> TRUE, halted |-> FALSE, data |-> None]
Buffer(data) == [use |-> "data", pid |-> "none", buf |-> None, next |-> None, active |-> FALSE, halted |-> FALSE, data |-> data]
FreeBlock == [Buffer(None) EXCEPT !.use = "free"]
Wanted == [name |-> probe.req, addr |-> IF probe.req = "address" THEN seqDevAddr ELSE 0]

\* GetDescriptor, SetAddress, SetConfiguration and the others: the chain, and EHCITransaction.
Request == LET b == [n \in 1 .. 5 |-> NthFree(n)] IN
  /\ probe.stage = "request" /\ Cardinality(Free) >= 5
  /\ mem' = IF HasData(probe.req)
            THEN [mem EXCEPT ![b[1]] = Td("setup", b[2], b[3]), ![b[2]] = Buffer(Wanted), ![b[3]] = Td("in", b[4], b[5]),
                             ![b[4]] = Buffer(None), ![b[5]] = Td("status", None, None)]
            ELSE [mem EXCEPT ![b[1]] = Td("setup", b[2], b[3]), ![b[2]] = Buffer(Wanted), ![b[3]] = Td("status", None, None)]
  /\ tds' = [n \in 1 .. (IF HasData(probe.req) THEN 5 ELSE 3) |-> b[n]]
  /\ qh' = [qh EXCEPT ![probe.port].next = b[1]]
  /\ probe' = [probe EXCEPT !.stage = "poll"]
  /\ seqDevAddr' = IF probe.req = "address" THEN seqDevAddr + 1 ELSE seqDevAddr
  /\ UNCHANGED <<link, hc, dev, bell, leaked, givenUp>>

\* A configuration longer than a descriptor can take: its descriptor is freed, the buffer of the
\* first one is not.
TooLong == /\ probe.stage = "request" /\ probe.req = "config" /\ Cardinality(Free) >= 5
           /\ leaked' = leaked \cup {NthFree(2)}
           /\ mem' = [mem EXCEPT ![NthFree(2)] = Buffer(Wanted)]
           /\ probe' = [probe EXCEPT !.stage = "stopped"]
           /\ UNCHANGED <<link, qh, hc, dev, tds, bell, seqDevAddr, givenUp>>

\* EHCITransaction::PollWait.  A bug: it does not look at the descriptors.
Chain == {tds[n] : n \in {m \in DOMAIN tds : mem[tds[m]].use = "td"}}
ChainIsFetched == qh[probe.port].next = None
Finished == qh[probe.port].next = None /\ \A t \in Chain : ~mem[t].active /\ ~mem[t].halted

PollWait == /\ probe.stage = "poll"
            /\ \/ Finished /\ probe' = [probe EXCEPT !.stage = "clear", !.ok = TRUE] /\ givenUp' = givenUp
               \/ /\ ~Finished /\ givenUp < MaxGivenUp /\ givenUp' = givenUp + 1
                  /\ probe' = [probe EXCEPT !.stage = "clear", !.ok = FALSE]
            /\ UNCHANGED <<link, qh, mem, hc, dev, tds, bell, seqDevAddr, leaked>>

\* EHCITransaction::Clear, and what comes next; SetAddress rings the doorbell once the queue head
\* has the address.
Clear == /\ probe.stage = "clear"
         /\ qh' = [qh EXCEPT ![probe.port] = [addr |-> IF probe.ok /\ probe.req = "address" THEN seqDevAddr - 1 ELSE @.addr,
                                               cur |-> None, next |-> None, active |-> FALSE, halted |-> FALSE]]
         /\ mem' = [b \in Block |-> IF \E n \in DOMAIN tds : tds[n] = b THEN FreeBlock ELSE mem[b]]
         /\ tds' = <<>>
         /\ \/ /\ probe.ok /\ probe.req = "address"
               /\ bell' = "rung" /\ probe' = [probe EXCEPT !.stage = "doorbell"]
            \/ /\ ~ (probe.ok /\ probe.req = "address") /\ bell' = bell
               /\ \E r \in FollowsOn(probe.req, probe.ok) :
                    probe' = CASE r = "found" -> NextPort
                               [] r = "stopped" -> [probe EXCEPT !.stage = "stopped"]
                               [] r \notin {"found", "stopped"} -> [probe EXCEPT !.stage = "request", !.req = r]
         /\ UNCHANGED <<link, hc, dev, seqDevAddr, leaked, givenUp>>

\* AsyncDoorBell: a device that was given an address is not found without an answer.
AsyncDoorBell == /\ probe.stage = "doorbell"
                 /\ \/ /\ bell = "heard" /\ bell' = "off" /\ givenUp' = givenUp
                       /\ probe' = [probe EXCEPT !.stage = "request", !.req = After("address")]
                    \/ /\ bell = "rung" /\ givenUp < MaxGivenUp /\ givenUp' = givenUp + 1 /\ bell' = bell
                       /\ probe' = [probe EXCEPT !.stage = "stopped"]
                 /\ UNCHANGED <<link, qh, mem, hc, dev, tds, seqDevAddr, leaked>>

-----------------------------------------------------------------------------
(* The controller and the devices *)

Idle == hc.cur = None
NoTd == Buffer(None)

\* To the next queue head, whose address it reads; past the head it answers the doorbell.
HcMoves == /\ Idle /\ probe.stage # "start" /\ link[hc.at] # NoLink
           /\ hc' = [at |-> link[hc.at], cur |-> None, td |-> NoTd, addr |-> IF link[hc.at] = 0 THEN 0 ELSE qh[link[hc.at]].addr]
           /\ bell' = IF link[hc.at] = 0 /\ bell = "rung" THEN "heard" ELSE bell
           /\ UNCHANGED <<link, qh, mem, dev, probe, tds, seqDevAddr, leaked, givenUp>>

\* The overlay is filled from the next descriptor, if that is active.
HcFetches == /\ Idle /\ hc.at # 0 /\ ~qh[hc.at].active /\ ~qh[hc.at].halted /\ qh[hc.at].next # None
             /\ LET t == qh[hc.at].next IN
                /\ mem[t].use = "td" /\ mem[t].active
                /\ qh' = [qh EXCEPT ![hc.at].cur = t, ![hc.at].next = mem[t].next, ![hc.at].active = TRUE]
             /\ UNCHANGED <<link, mem, hc, dev, probe, tds, bell, seqDevAddr, leaked, givenUp>>

HcRuns == /\ Idle /\ hc.at # 0 /\ qh[hc.at].active
          /\ hc' = [hc EXCEPT !.cur = qh[hc.at].cur, !.td = mem[qh[hc.at].cur]]
          /\ UNCHANGED <<link, qh, mem, dev, probe, tds, bell, seqDevAddr, leaked, givenUp>>

Answering == {p \in EhciPort : dev[p].on /\ dev[p].addr = hc.addr}

\* A device that is not ready yet.
HcIsRefused == /\ ~Idle /\ Answering # {} /\ hc' = [hc EXCEPT !.cur = None, !.td = NoTd]
               /\ UNCHANGED <<link, qh, mem, dev, probe, tds, bell, seqDevAddr, leaked, givenUp>>

HcEnds(good) == /\ mem' = [mem EXCEPT ![hc.cur].active = FALSE, ![hc.cur].halted = ~good]
                /\ qh' = [qh EXCEPT ![hc.at].active = FALSE, ![hc.at].halted = ~good]
                /\ hc' = [hc EXCEPT !.cur = None, !.td = NoTd]
                /\ UNCHANGED <<link, probe, tds, bell, seqDevAddr, leaked, givenUp>>

HcFails == ~Idle /\ HcEnds(FALSE) /\ dev' = dev

HcSucceeds ==
  /\ ~Idle /\ Answering # {}
  /\ \/ /\ hc.td.pid = "setup" /\ HcEnds(TRUE)
        /\ dev' = [p \in EhciPort |-> IF p \in Answering THEN [dev[p] EXCEPT !.req = mem[hc.td.buf].data] ELSE dev[p]]
     \/ /\ hc.td.pid = "in" /\ dev' = dev
        /\ mem' = [mem EXCEPT ![hc.cur].active = FALSE, ![hc.cur].halted = FALSE,
                     ![hc.td.buf].data = [from |-> Answering, name |-> dev[CHOOSE p \in Answering : TRUE].req.name]]
        /\ qh' = [qh EXCEPT ![hc.at].active = FALSE] /\ hc' = [hc EXCEPT !.cur = None, !.td = NoTd]
        /\ UNCHANGED <<link, probe, tds, bell, seqDevAddr, leaked, givenUp>>
     \/ /\ hc.td.pid = "status" /\ HcEnds(TRUE)
        /\ dev' = [p \in EhciPort |-> IF p \in Answering /\ dev[p].req.name = "address"
                                      THEN [dev[p] EXCEPT !.addr = dev[p].req.addr] ELSE dev[p]]

-----------------------------------------------------------------------------
EhciInit ==
  /\ link = [q \in 0 .. NumEhciPorts |-> IF q = 0 THEN 0 ELSE NoLink]
  /\ qh = [p \in EhciPort |-> [addr |-> 0, cur |-> None, next |-> None, active |-> FALSE, halted |-> FALSE]]
  /\ mem = [b \in Block |-> FreeBlock] /\ hc = [at |-> 0, cur |-> None, td |-> NoTd, addr |-> 0]
  /\ dev = [p \in EhciPort |-> [on |-> FALSE, addr |-> 0, req |-> [name |-> "none", addr |-> 0]]]
  /\ probe = [stage |-> "start", port |-> 1, req |-> "address", ok |-> FALSE]
  /\ tds = <<>> /\ bell = "off" /\ seqDevAddr = 1 /\ leaked = {} /\ givenUp = 0

EhciNext == \/ Start \/ SetUpPort \/ Link \/ Request \/ TooLong \/ PollWait \/ Clear \/ AsyncDoorBell
            \/ HcMoves \/ HcFetches \/ HcRuns \/ HcIsRefused \/ HcFails \/ HcSucceeds

EhciSpec == EhciInit /\ [][EhciNext]_ehciVars

-----------------------------------------------------------------------------
EhciTypeOK == /\ \A q \in DOMAIN link : link[q] \in -1 .. NumEhciPorts
              /\ hc.at \in 0 .. NumEhciPorts /\ hc.cur \in 0 .. NumBlocks
              /\ probe.stage \in {"start", "port", "link", "linked", "request", "poll", "clear", "doorbell", "stopped"}
              /\ bell \in {"off", "rung", "heard"} /\ givenUp \in 0 .. MaxGivenUp

\* The controller never leaves the list, whatever is linked while it walks; a request counts as done
\* when each of its descriptors was run, with the answer of the one device it was for, even if an
\* earlier one was given up in the middle of a descriptor that lies in the same memory; no two
\* devices share an address; and memory is held by the request that runs, or leaked by a long one.
RequestsAreAnswered ==
  /\ link[hc.at] \in 0 .. NumEhciPorts
  /\ probe.stage = "clear" /\ probe.ok =>
       /\ \A t \in Chain : ~mem[t].active
       /\ HasData(probe.req) => mem[tds[4]].data = [from |-> {probe.port}, name |-> probe.req]
  /\ \A p, q \in EhciPort : p # q /\ dev[p].on /\ dev[q].on => dev[p].addr # dev[q].addr
  /\ {b \in Block : mem[b].use # "free"} = {tds[n] : n \in DOMAIN tds} \cup leaked
=============================================================================
