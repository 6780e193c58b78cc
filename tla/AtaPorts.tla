------------------------------ MODULE AtaPorts ------------------------------
(***************************************************************************)
(* An IDE controller comes up: its mode, its interrupts, what its ports    *)
(* and cables allow, the probe of the four ports, the speed each drive is  *)
(* set to, and the registers of the vendor's chip that must follow.  Masks *)
(* of speeds are sets; the chips of a vendor are told apart by the fastest *)
(* mode only; a register is what it says about a drive.                    *)
(***************************************************************************)
EXTENDS Integers, Sequences, FiniteSets, FiniteSetsExt

CONSTANT MaxDrives   \* bound on the drives that are attached

VARIABLES chip,     \* the controller, and its channels with an 80 wire cable
          earlier,  \* what an earlier controller in legacy mode has registered: "none", "pio", "dma"
          hdMode,     \* how this one is driven
          hdIrq,      \* HD_PRIMARY_IRQ and HD_SECONDARY_IRQ, 0 for NULL, with the signals pending
          ataPorts,    \* for a drive number: the device, its speeds and those of its port
          udma,     \* for a drive number: whether the chip's registers say Ultra DMA
          timing8,  \* for a channel: the active and recovery clocks of 8 bit transfers
          ataStage, nextPort

ataVars == <<chip, earlier, hdMode, hdIrq, ataPorts, udma, timing8, ataStage, nextPort>>

\* ATASpeed
PIO == 0
PIO_5 == 3
DMA == 4
PIO_7 == 7    \* the last of the multiword modes
UDMA_0 == 8
UDMA_2 == 10
UDMA_4 == 12
UDMA_5 == 13
UDMA_6 == 14

\* The tables of the vendors.
Fastest == [generic |-> {0}, intel |-> {0, 33, 66, 100}, via |-> {0, 33, 66, 100, 133},
            sis |-> {16, 33, 66, 100}, amd |-> {33, 66, 100, 133}, sata |-> {100, 133}]
Chips == {[vendor |-> v, udma |-> u, wires |-> w] :
            v \in DOMAIN Fastest, u \in UNION {Fastest[x] : x \in DOMAIN Fastest}, w \in SUBSET {0, 1}}
Chip == {c \in Chips : c.udma \in Fastest[c.vendor]}

\* A serial controller keeps a port for each channel: the second is the third of four.
PerChannel == IF chip.vendor = "sata" THEN 1 ELSE 2
Drive == 0 .. 2 * PerChannel - 1
Channel(n) == n \div PerChannel
Port(n) == n % PerChannel

-----------------------------------------------------------------------------
(* ATADeviceController_CheckControllerMode *)

\* What a vendor's InitController adds to the PIO and multiword modes of a port: up to UDMA 2 by
\* the chip, more by the cable.  Intel and VIA take flags & UDMA_66 & (1 or 2, for the channel):
\* a number of a flag has only bit 1 in common with it, if it is that of UDMA_66.
UpTo(s) == 0 .. s
ByCable(c, n) == Channel(n) \in c.wires
OldModes(c) == IF c.udma >= 33 THEN UpTo(PIO_7) \cup UDMA_0 .. UDMA_2 ELSE UpTo(PIO_7)
IntelSpeeds(c, n) == OldModes(c) \cup IF c.udma = 66 /\ ByCable(c, n) /\ Channel(n) = 1 THEN UpTo(UDMA_4) ELSE {}
ViaSpeeds(c, n) == OldModes(c) \cup IF c.udma = 66 /\ ByCable(c, n) /\ Channel(n) = 1 THEN UpTo(UDMA_4) ELSE {}
SisSpeeds(c, n) == OldModes(c) \cup (IF c.udma >= 66 /\ ByCable(c, n) THEN UpTo(UDMA_4) ELSE {})
                               \cup (IF c.udma >= 100 /\ ByCable(c, n) THEN UpTo(UDMA_5) ELSE {})
AmdSpeeds(c) == OldModes(c)
PortSpeeds(c, n) == CASE c.vendor = "intel" -> IntelSpeeds(c, n)
                      [] c.vendor = "via" -> ViaSpeeds(c, n)
                      [] c.vendor = "sis" -> SisSpeeds(c, n)
                      [] c.vendor = "amd" -> AmdSpeeds(c)

\* AMD's InitController counts down with an unsigned counter and never ends, but for the oldest chip.
CountsForEver(c) == c.vendor = "amd" /\ c.udma > 33

Stop(s) == ataStage' = s /\ UNCHANGED <<chip, earlier, hdIrq, ataPorts, udma, timing8, nextPort>>

\* The mode; where DMA is possible the interrupts are registered and the vendor is asked.
CheckControllerMode == \E native, dma, dmaLine \in BOOLEAN, enabled \in SUBSET Drive :
  /\ ataStage = "mode"
  /\ earlier # "none" => native                      \* switched to native mode, or refused below
  /\ native /\ dma => dmaLine                        \* interrupt line 14 only
  /\ hdMode' = [native |-> native, dma |-> dma, line |-> IF dmaLine THEN 14 ELSE 11]
  /\ \/ /\ earlier # "none" \/ (dma /\ earlier = "dma")
        /\ earlier = "dma" => dma                    \* "Switch to Native Mode Failed", RegisterIRQ returns NULL
        /\ Stop("failed")
     \/ dma /\ CountsForEver(chip) /\ Stop("hangs")
     \/ /\ ~ (dma /\ (earlier = "dma" \/ CountsForEver(chip)))
        /\ hdIrq' = IF ~dma THEN hdIrq
                  ELSE [hdIrq EXCEPT !.primary = 14, !.secondary = IF native THEN @ ELSE 15]
        /\ ataPorts' = [n \in Drive |-> [device |-> "none", drive |-> {}, speed |-> PIO, port |->
              IF ~dma THEN {PIO}
              ELSE IF chip.vendor \in {"generic", "sata"} THEN {PIO} \cup (IF n \in enabled THEN {DMA} ELSE {})
              ELSE PortSpeeds(chip, n)]]
        /\ chip.vendor \notin {"generic", "sata"} \/ ~dma => enabled = {}
        /\ ataStage' = "probe" /\ nextPort' = 0
        /\ UNCHANGED <<chip, earlier, udma, timing8>>

-----------------------------------------------------------------------------
(* ATAPortManager_Probe *)

\* Which interrupt a device raises, and which one the code waits for (GetHDInterruptNo).
Raised(n) == IF hdMode.native THEN hdMode.line ELSE 14 + Channel(n)
AwaitedPrimary(kind) == kind = "ata"
Awaited(kind) == IF AwaitedPrimary(kind) THEN hdIrq.primary ELSE hdIrq.secondary

\* Speeds of a drive: comparisons stand where shifts were meant, so PIO 3 to 5 and multiword modes
\* are never among them.
DriveSpeeds(multiword, ultra) ==
  {PIO} \cup (IF multiword \/ ultra # {} THEN {DMA} ELSE {}) \cup {UDMA_0 + m : m \in ultra}
Kinds == {DriveSpeeds(FALSE, {}), DriveSpeeds(TRUE, {}), DriveSpeeds(TRUE, 0 .. 5)}
IsDrive(n) == ataPorts[n].device \in {"ata", "atapi"}

Moved(to) == IF nextPort + 1 \in Drive THEN nextPort' = nextPort + 1 /\ ataStage' = ataStage ELSE nextPort' = 0 /\ ataStage' = to
Probed == Moved("configure")
Found(kind, speeds) == ataPorts' = [ataPorts EXCEPT ![nextPort].device = kind, ![nextPort].drive = speeds]

\* Nobody answers, or the device does not get ready, has no addressing by blocks or no data.
ProbeFails == /\ ataStage = "probe"
              /\ Probed /\ ataPorts' = ataPorts /\ UNCHANGED <<chip, earlier, hdMode, hdIrq, udma, timing8>>

\* The wait for the answer to IDENTIFY: through a NULL pointer, for ever, or until it comes.
ProbeIdentifies == \E kind \in {"ata", "atapi"}, speeds \in Kinds :
  LET pending == IF Raised(nextPort) \in {hdIrq.primary, hdIrq.secondary} THEN hdIrq.pending \cup {Raised(nextPort)} ELSE hdIrq.pending
  IN
  /\ ataStage = "probe" /\ Cardinality({n \in Drive : IsDrive(n)}) < MaxDrives
  /\ kind = "atapi" => speeds = DriveSpeeds(TRUE, 0 .. 2)
  /\ UNCHANGED <<chip, earlier, hdMode, udma, timing8>>
  /\ \/ Awaited(kind) = 0 /\ ataStage' = "undefined" /\ UNCHANGED <<hdIrq, ataPorts, nextPort>>
     \/ Awaited(kind) \notin pending \cup {0} /\ ataStage' = "hangs" /\ UNCHANGED <<hdIrq, ataPorts, nextPort>>
     \/ /\ Awaited(kind) \in pending
        /\ hdIrq' = [hdIrq EXCEPT !.pending = pending \ {Awaited(kind)}]
        /\ Found(kind, speeds) /\ Probed

\* bConfigured is read before anybody set it: a port may be taken for probed, with a random device.
ProbeSkipped == ataStage = "probe" /\ hdMode' = hdMode /\ Stop("undefined")

-----------------------------------------------------------------------------
(* ATATimingManager_Compute, for the registers the drives of a channel share. *)

\* Nanoseconds of ATATimingManager_Timings, and clocks of 30 ns.
Timings == [s \in {PIO, PIO_5} |-> IF s = PIO THEN [act |-> 290, rec |-> 40, cyc |-> 330]
                                      ELSE [act |-> 50, rec |-> 30, cyc |-> 100]]
Quantize(ns) == (ns * 1000 - 1) \div 30000 + 1

\* A faster mode takes the 8 bit timing of the best PIO mode of its port; cycles are filled up.
Compute(speed) ==
  LET t == Timings[IF speed = PIO THEN PIO ELSE PIO_5]
      q == [f \in {"act", "rec", "cyc"} |-> Quantize(t[f])]
      act == IF q.act + q.rec < q.cyc THEN q.act + (q.cyc - (q.act + q.rec)) \div 2 ELSE q.act
  IN [act |-> act, rec |-> IF q.act + q.rec < q.cyc THEN q.cyc - act ELSE q.rec]
Longer(x, y) == [f \in {"act", "rec"} |-> Max({x[f], y[f]})]

\* No entry of the table is for plain DMA: Compute throws.
Throws(speed) == speed = DMA

\* PortConfigure of VIA and AMD: two drives of a channel are set up with the second of them.
Sets(n) == CASE ~IsDrive(n) -> <<>>
             [] Port(n) = 0 -> IF IsDrive(n + 1) THEN <<>> ELSE <<n>>
             [] OTHER -> IF IsDrive(n - 1) THEN <<n, n - 1>> ELSE <<n>>

\* What SetPortSpeed leaves in the channel's timing: the first drive is written last, with the longer
\* of both.  A bug: it is written first.
SecondWrittenLast(set, P) == Compute(P[set[1]].speed)
LastWritten(set, P) == IF Len(set) = 1 THEN Compute(P[set[1]].speed)
                       ELSE Longer(Compute(P[set[1]].speed), Compute(P[set[2]].speed))

\* The vendors' Configure, for drive n with the speeds of P.
Ultra(set, P) == [m \in Drive |-> IF \E i \in DOMAIN set : set[i] = m THEN P[m].speed >= UDMA_0 ELSE udma[m]]

\* Intel: there is no case for plain DMA.
IntelConfigure(n, P) == /\ udma' = IF P[n].speed = DMA THEN udma ELSE Ultra(<<n>>, P)
                        /\ Moved("added") /\ UNCHANGED timing8

SisConfigure(n, P) == /\ udma' = IF chip.udma = 16 THEN udma ELSE Ultra(<<n>>, P)
                      /\ Moved("added") /\ UNCHANGED timing8

\* VIA and AMD, for the drives of a channel together.
SetTiming(n, P, set) ==
  \/ set = <<>> /\ Moved("added") /\ UNCHANGED <<udma, timing8>>
  \/ /\ \E i \in DOMAIN set : Throws(P[set[i]].speed)
     /\ ataStage' = "failed" /\ UNCHANGED <<nextPort, udma, timing8>>
  \/ /\ set # <<>> /\ \A i \in DOMAIN set : ~Throws(P[set[i]].speed)
     /\ timing8' = [timing8 EXCEPT ![Channel(n)] = LastWritten(set, P)]
     /\ udma' = IF chip.udma = 0 THEN udma ELSE Ultra(set, P)
     /\ Moved("added")

\* AMD forgets to set the first port for a lone master, and goes on with NULL.
AmdConfigure(n, P) ==
  IF Sets(n) # <<>> /\ Port(n) = 0 THEN ataStage' = "undefined" /\ UNCHANGED <<nextPort, udma, timing8>>
  ELSE SetTiming(n, P, Sets(n))

Configured(n, P) == CASE ~hdMode.dma \/ chip.vendor \in {"generic", "sata"} -> Moved("added") /\ UNCHANGED <<udma, timing8>>
                      [] hdMode.dma /\ chip.vendor = "intel" -> IntelConfigure(n, P)
                      [] hdMode.dma /\ chip.vendor = "sis" -> SisConfigure(n, P)
                      [] hdMode.dma /\ chip.vendor = "via" -> SetTiming(n, P, Sets(n))
                      [] hdMode.dma /\ chip.vendor = "amd" -> AmdConfigure(n, P)

\* ATAPortManager_ConfigureDrive: the fastest speed both have.  A bug: the drive's fastest.
DriveFastest(p) == Max(p.drive)
Agreed(p) == Max(p.port \cap p.drive)

\* Both Configures of a port; a drive that is busy stays at PIO.  Then the disks are added.
Configure ==
  /\ ataStage = "configure"
  /\ \E s \in {PIO} \cup (IF IsDrive(nextPort) THEN {Agreed(ataPorts[nextPort])} ELSE {}) :
       LET P == [ataPorts EXCEPT ![nextPort].speed = s] IN
       /\ ataPorts' = P /\ Configured(nextPort, P)
  /\ UNCHANGED <<chip, earlier, hdMode, hdIrq>>

-----------------------------------------------------------------------------
AtaInit ==
  /\ chip \in Chip /\ earlier \in {"none", "pio", "dma"}
  /\ hdMode = [native |-> FALSE, dma |-> FALSE, line |-> 14]
  /\ hdIrq = [primary |-> IF earlier = "dma" THEN 14 ELSE 0, secondary |-> IF earlier = "dma" THEN 15 ELSE 0, pending |-> {}]
  /\ ataPorts = [n \in Drive |-> [device |-> "none", drive |-> {}, speed |-> PIO, port |-> {}]]
  /\ \E left \in BOOLEAN : udma = [n \in Drive |-> left /\ chip.udma >= 33]   \* what the BIOS left
  /\ timing8 = [c \in 0 .. 1 |-> [act |-> 1, rec |-> 1]]
  /\ ataStage = "mode" /\ nextPort = 0

AtaNext == CheckControllerMode \/ ProbeFails \/ ProbeIdentifies \/ ProbeSkipped \/ Configure

AtaSpec == AtaInit /\ [][AtaNext]_ataVars

-----------------------------------------------------------------------------
AtaTypeOK ==
  /\ chip \in Chip /\ ataStage \in {"mode", "probe", "configure", "added", "failed", "hangs", "undefined"}
  /\ \A n \in Drive : ataPorts[n].speed \in 0 .. UDMA_6 /\ udma[n] \in BOOLEAN

\* Once a controller is added, each drive runs at a speed that it and its port have, faster than
\* UDMA 2 on an 80 wire cable only, and with an interrupt to wait for if it uses DMA; its chip has
\* Ultra DMA on for exactly the drives that use it (but for Intel's plain DMA), and where two drives
\* share the timing of 8 bit transfers it suits the slower.
DrivesAndChipAgree == ataStage = "added" =>
  \A n \in {m \in Drive : IsDrive(m)} :
    LET s == ataPorts[n].speed IN
    /\ s \in ataPorts[n].port \cap ataPorts[n].drive
    /\ s > UDMA_2 => Channel(n) \in chip.wires
    /\ s >= DMA => Awaited(ataPorts[n].device) # 0
    /\ chip.vendor # "generic" /\ ~ (chip.vendor = "intel" /\ s = DMA) /\ hdMode.dma /\ chip.vendor # "sata"
         => (udma[n] <=> s >= UDMA_0)
    /\ chip.vendor \in {"via", "amd"} /\ hdMode.dma =>
         timing8[Channel(n)].act >= Compute(s).act /\ timing8[Channel(n)].rec >= Compute(s).rec
=============================================================================
