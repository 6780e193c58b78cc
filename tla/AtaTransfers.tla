---------------------------- MODULE AtaTransfers ----------------------------
(***************************************************************************)
(* A read or write of an ATA disk: chunks of one command each, by DMA with *)
(* retries and then without, or sector by sector through the data port,    *)
(* against a drive that answers late, fails a command half-way, or loses   *)
(* the last sector after the command was taken for done.  One process uses *)
(* the disk; nothing keeps the partitions of a disk, or the two disks of a *)
(* channel, from mixing their registers.                                   *)
(***************************************************************************)
EXTENDS Integers

CONSTANTS
  ChunkSectors,   \* 16 KB in sectors
  MaxSectors,     \* the most a caller transfers, MAX_SECTORS_PER_RW
  Sectors,        \* of the disk
  MaxRetries,
  MaxTransfers, MaxFaults   \* bounds on the calls and on what goes wrong

ASSUME CallersFit == /\ {ChunkSectors, MaxSectors, Sectors, MaxRetries} \subseteq Nat \ {0}
                     /\ MaxSectors <= ChunkSectors /\ MaxSectors <= Sectors
                     /\ MaxTransfers \in Nat /\ MaxFaults \in Nat

VARIABLES call,      \* ATADrive_Read or ATADrive_Write: what was asked, what is left of it
          at,        \* where the process is in it
          retry,
          speed,     \* uiCurrentSpeed of the port
          job,       \* what the drive is doing
          moved,     \* the pairs of a sector and a place in the buffer that went over the bus
          lost,      \* sectors that were handed over and not written
          engine,    \* the bus master: running, and its status
          signals,   \* pending on the interrupt line
          foreign,   \* whether the other disk, which interrupts the same line, has done so
          transfers, faults

transferVars == <<call, at, retry, speed, job, moved, lost, engine, signals, foreign, transfers, faults>>

NoJob == [dma |-> FALSE, lba |-> 0, left |-> 0, off |-> 0]
Chunk(n) == IF n < ChunkSectors THEN n ELSE ChunkSectors

-----------------------------------------------------------------------------
(* ATADrive_Read and ATADrive_Write *)

Call == \E w \in BOOLEAN, s \in 0 .. Sectors - 1, n \in 1 .. MaxSectors :
  /\ at \in {"ok", "failed"} /\ transfers < MaxTransfers /\ s + n <= Sectors
  /\ call' = [write |-> w, first |-> s, n |-> n, sector |-> s, done |-> 0]
  /\ at' = "command" /\ transfers' = transfers + 1
  /\ moved' = {} /\ lost' = {} /\ retry' = 0
  /\ UNCHANGED <<speed, job, engine, signals, faults, foreign>>

\* After a command: the next chunk begins one sector further, which is why callers must fit in one.
NextChunk(c) == [write |-> c.write, first |-> c.first, n |-> c.n,
                 sector |-> c.sector + 1, done |-> c.done + Chunk(c.n - c.done)]
ChunkDone == /\ call' = NextChunk(call)
             /\ at' = IF NextChunk(call).done < call.n THEN "command" ELSE "ok"

-----------------------------------------------------------------------------
(* ATACommandManager_ExecuteATACommand *)

Dma == speed = "dma"

\* The registers of the command that is next.
Registers == [dma |-> Dma, lba |-> call.sector, left |-> Chunk(call.n - call.done), off |-> call.done]

\* The drive stays busy for too long: nothing was sent, or only registers.
Busy == /\ at = "command" /\ at' = "failed"
        /\ IF job.dma THEN faults' = faults ELSE faults < MaxFaults /\ faults' = faults + 1
        /\ UNCHANGED <<call, retry, speed, job, moved, lost, engine, signals, transfers, foreign>>

\* The table of physical regions is ready at once for what fits the buffer of the port.
Command == /\ at = "command" /\ ~job.dma
           /\ job' = Registers /\ retry' = 0
           /\ engine' = IF Dma THEN [running |-> FALSE, irq |-> FALSE, error |-> FALSE] ELSE engine
           /\ at' = IF Dma THEN "dma" ELSE "pio"
           /\ UNCHANGED <<call, speed, moved, lost, signals, transfers, faults, foreign>>

\* ATAPortOperation_StartDMA: a retry starts the bus master only, from the first region of the
\* table; the command is not sent again.
StartDMA == /\ at = "dma" /\ at' = "interrupt"
            /\ engine' = [engine EXCEPT !.running = TRUE]
            /\ job' = [job EXCEPT !.off = call.done]
            /\ UNCHANGED <<call, retry, speed, moved, lost, signals, transfers, faults, foreign>>

\* The status that counts.  A bug: any interrupt counts.
AnyInterrupt == TRUE
Succeeded == engine.irq /\ ~engine.error

Interrupt ==
  /\ at = "interrupt" /\ signals > 0
  /\ signals' = signals - 1
  /\ engine' = [running |-> FALSE, irq |-> FALSE, error |-> FALSE]
  /\ \/ Succeeded /\ ChunkDone /\ UNCHANGED <<retry, speed>>
     \/ /\ ~Succeeded /\ call' = call
        /\ \/ retry + 1 < MaxRetries /\ retry' = retry + 1 /\ at' = "dma" /\ speed' = speed
           \/ retry + 1 = MaxRetries /\ retry' = 0 /\ at' = "command" /\ speed' = "pio"
  /\ UNCHANGED <<job, moved, lost, transfers, faults, foreign>>

\* ATAPortManager_IORead and IOWrite, a sector when the drive asks for data.
Move == /\ moved' = moved \cup {<<job.lba, job.off>>}
        /\ job' = [dma |-> job.dma, lba |-> job.lba + 1, left |-> job.left - 1, off |-> job.off + 1]

\* The last sector of a write is in the drive's buffer when the call returns.
Pio == /\ at = "pio" /\ job.left > 0 /\ Move
       /\ IF job.left = 1 THEN ChunkDone ELSE UNCHANGED <<call, at>>
       /\ UNCHANGED <<retry, speed, lost, engine, signals, transfers, faults, foreign>>

\* An error, or no request for data in three times ten waits, ends the call.
PioFails == /\ at = "pio" /\ faults < MaxFaults
            /\ at' = "failed" /\ faults' = faults + 1 /\ job' = NoJob
            /\ UNCHANGED <<call, retry, speed, moved, lost, engine, signals, transfers, foreign>>

-----------------------------------------------------------------------------
(* The drive *)

DmaMoves == /\ job.dma /\ job.left > 0 /\ engine.running /\ Move
            /\ UNCHANGED <<call, at, retry, speed, lost, engine, signals, transfers, faults, foreign>>

DmaEnds == /\ job.dma /\ engine.running
           /\ \/ job.left = 0 /\ engine' = [engine EXCEPT !.irq = TRUE] /\ faults' = faults
              \/ /\ job.left > 0 /\ faults < MaxFaults /\ faults' = faults + 1
                 /\ engine' = [engine EXCEPT !.irq = TRUE, !.error = TRUE]
           /\ job' = NoJob /\ signals' = signals + 1
           /\ UNCHANGED <<call, at, retry, speed, moved, lost, transfers, foreign>>

\* GetHDInterruptNo names one line for all ATA disks.
OtherDisk == /\ at = "interrupt" /\ faults < MaxFaults /\ faults' = faults + 1
             /\ signals' = signals + 1 /\ foreign' = TRUE
             /\ UNCHANGED <<call, at, retry, speed, job, moved, lost, engine, transfers>>

\* What a drive buffers may get lost; nobody asks for its status after the last sector.
WriteIsLost == /\ call.write /\ at = "ok" /\ speed = "pio" /\ faults < MaxFaults /\ moved # {}
               /\ lost' = {m \in moved : \A o \in moved : o[2] <= m[2]} /\ faults' = faults + 1
               /\ UNCHANGED <<call, at, retry, speed, job, moved, engine, signals, transfers, foreign>>

-----------------------------------------------------------------------------
TransferInit ==
  /\ call = [write |-> FALSE, first |-> 0, n |-> 0, sector |-> 0, done |-> 0]
  /\ at = "ok" /\ retry = 0 /\ speed \in {"dma", "pio"}
  /\ job = NoJob /\ moved = {} /\ lost = {}
  /\ engine = [running |-> FALSE, irq |-> FALSE, error |-> FALSE]
  /\ signals = 0 /\ foreign = FALSE /\ transfers = 0 /\ faults = 0

TransferNext == Call \/ Busy \/ Command \/ StartDMA \/ Interrupt \/ Pio \/ PioFails
                \/ DmaMoves \/ DmaEnds \/ OtherDisk \/ WriteIsLost

TransferSpec == TransferInit /\ [][TransferNext]_transferVars

-----------------------------------------------------------------------------
TransferTypeOK == /\ at \in {"command", "dma", "interrupt", "pio", "ok", "failed"}
                  /\ retry \in 0 .. MaxRetries - 1 /\ signals \in Nat /\ job.left \in 0 .. MaxSectors
                  /\ call.done \in 0 .. MaxSectors

\* A call that returns has moved each of its sectors to or from its place and no other, whatever
\* was retried, and leaves neither a command nor an interrupt behind; the one loss it cannot see
\* is that of the last sector of a write without DMA.  An interrupt of the other disk spoils it.
MovedAsAsked == at = "ok" /\ ~foreign =>
  /\ moved = {<<call.first + i, i>> : i \in 0 .. call.n - 1}
  /\ lost \subseteq {<<call.first + call.n - 1, call.n - 1>>}
  /\ job.left = 0 /\ signals = 0 /\ ~engine.running
=============================================================================
