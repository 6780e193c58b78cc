------------------------------- MODULE Floppy -------------------------------
(***************************************************************************)
(* The floppy driver: the reset of the controller, a transfer with its     *)
(* seeks, retries and DMA request, the commands and replies it exchanges   *)
(* with the controller, and the motor, which a timed task turns off later. *)
(* The controller seeks and transfers on its own and raises the interrupt. *)
(***************************************************************************)
EXTENDS Integers, Sequences, FiniteSets

CONSTANTS DriveNo,                            \* 1: the one drive that is created
          SectorsPerTrack, NoOfHeads, Tracks, \* 18, 2 and 80
          SectorBytes,                        \* 512
          DmaWord,                            \* 2^16, and MEM_DMA_END - MEM_DMA_FLOPPY_START
          Transfers,                          \* first sectors and the ones after the last that are asked for
          MaxRequests                         \* bound on the transfers

VARIABLES fdc,                 \* the controller: its phase, bytes to reply and the reply
          cylinder, target,    \* where the heads are and, during a seek, where they go
          senses,              \* replies of seeks that nobody has asked for
          dmaBytes,            \* what DMA channel 2 is to move
          spinning,            \* the motor, as the digital output register has it
          floppyIrqs           \* pending signals of FLOPPY_IRQ
VARIABLES step,                \* where the driver is: operation and what it does next
          seekTry, opTry,      \* uiSeekRetryCount and uiOperationRetryCount
          wanted,              \* first sector and the one after the last
          replyBuffer,         \* Floppy_ReplyBuffer
          motorOn, requestMotorOff,
          motorTask,           \* FloppyMotorController
          outcome, requests
VARIABLE raced                 \* the motor was started during a pass of that task

fdcVars == <<fdc, cylinder, target, senses, dmaBytes>>
motorVars == <<spinning, motorOn, requestMotorOff, motorTask, raced>>
tryVars == <<seekTry, opTry, wanted>>
resultVars == <<replyBuffer, outcome, requests>>
floppyVars == <<fdcVars, motorVars, tryVars, resultVars, step, floppyIrqs>>

SizeInSectors == SectorsPerTrack * NoOfHeads * Tracks
NoOfRetrys == 3
Nowhere == -1

-----------------------------------------------------------------------------
(* The controller *)

Reply(op, cyl, normal, moved) == [op |-> op, cyl |-> cyl, normal |-> normal, moved |-> moved]
NoReply == Reply("none", 0, FALSE, {})
Idle == [phase |-> "idle", bytes |-> 0, reply |-> NoReply]
ResultPhase(bytes, reply) == [phase |-> "result", bytes |-> bytes, reply |-> reply]

\* SR0 of a seek that ended has bit 5.
SeekEnds == /\ target # Nowhere
            /\ cylinder' = target /\ target' = Nowhere
            /\ senses' = Append(senses, Reply("seek", target, TRUE, {}))
            /\ floppyIrqs' = floppyIrqs + 1
            /\ UNCHANGED <<fdc, dmaBytes, motorVars, tryVars, resultVars, step>>

\* A transfer goes from the sector of the command on, to the other head and no further, until the
\* DMA channel has moved its bytes.  It fails on the wrong cylinder, without the motor, past the
\* end, or of itself.
TransferEnds ==
  /\ fdc.phase = "execute"
  /\ LET cmd == fdc.reply
         first == (cmd.cyl * NoOfHeads + cmd.head) * SectorsPerTrack + cmd.sector - 1
         room == (cmd.cyl + 1) * NoOfHeads * SectorsPerTrack - first
         asked == (dmaBytes + SectorBytes - 1) \div SectorBytes
     IN  \/ /\ cmd.cyl = cylinder /\ target = Nowhere /\ spinning /\ asked <= room
            /\ fdc' = ResultPhase(7, Reply("rw", cylinder, TRUE, first .. first + asked - 1))
         \/ \E n \in 0 .. asked :
              n <= room /\ fdc' = ResultPhase(7, Reply("rw", cylinder, FALSE, first .. first + n - 1))
  /\ floppyIrqs' = floppyIrqs + 1
  /\ UNCHANGED <<cylinder, target, senses, dmaBytes, motorVars, tryVars, resultVars, step>>

-----------------------------------------------------------------------------
(* Floppy_ReadWrite *)

At(op, what) == step.op = op /\ step.does = what
Then(op, what) == step' = [op |-> op, does |-> what]

\* Floppy_Read and Floppy_Write end with StopMotor, whatever became of it.
EndWith(result) == /\ outcome' = result
                   /\ requestMotorOff' = TRUE
                   /\ Then("idle", "wait")
                   /\ UNCHANGED <<spinning, motorOn, motorTask, raced>>

\* A failure of the command is one of its try, one of a seek ends the inner loop.
NextSeekTry == IF seekTry + 1 = NoOfRetrys THEN EndWith("failed") /\ UNCHANGED <<seekTry, opTry>>
               ELSE seekTry' = seekTry + 1 /\ opTry' = 0 /\ Then("recal", "send") /\ UNCHANGED <<outcome, motorVars>>
Throw == IF step.op = "init" THEN Then("init", "next") /\ UNCHANGED <<seekTry, opTry, outcome, motorVars>>
         ELSE IF step.op = "rw" /\ opTry + 1 < NoOfRetrys
         THEN opTry' = opTry + 1 /\ Then("rw", "send") /\ UNCHANGED <<seekTry, outcome, motorVars>>
         ELSE NextSeekTry

\* The sector after the last one may not be past the end: the last sector of the disk is refused.
Refused(start, end) == start + 1 > SizeInSectors \/ end + 1 > SizeInSectors \/ start >= end

Request(start, end) ==
  /\ At("idle", "wait") /\ outcome # "uninitialized" /\ requests < MaxRequests
  /\ requests' = requests + 1
  /\ wanted' = [start |-> start, end |-> end]
  /\ seekTry' = 0 /\ opTry' = 0
  /\ IF Refused(start, end) THEN EndWith("refused")
     ELSE outcome' = "none" /\ Then("motor", "start") /\ UNCHANGED motorVars
  /\ UNCHANGED <<fdcVars, replyBuffer, floppyIrqs>>

RawTrack == wanted.start \div SectorsPerTrack
Track == RawTrack \div NoOfHeads
HeadNo == RawTrack % NoOfHeads
\* A bug: sectors are counted from 0.
SectorFromZero == wanted.start % SectorsPerTrack
Sector == (wanted.start % SectorsPerTrack) + 1

\* Floppy_StartMotor.
StartMotor ==
  /\ At("motor", "start")
  /\ requestMotorOff' = FALSE
  /\ motorOn' = TRUE
  /\ spinning' = (spinning \/ ~motorOn)
  /\ raced' = (raced \/ motorTask # "rest")
  /\ Then("seek", "send")
  /\ UNCHANGED <<fdcVars, tryVars, resultVars, motorTask, floppyIrqs>>

\* SendControlCommand waits for the controller to take a command, but not for ever.
Ready == fdc.phase = "idle"

\* Floppy_ReCaliberate and Floppy_Seek.
SendSeek == /\ \/ At("recal", "send") /\ target' = 0
               \/ At("seek", "send") /\ target' = Track
            /\ Ready
            /\ Then(step.op, "wait")
            /\ UNCHANGED <<fdc, cylinder, senses, dmaBytes, motorVars, tryVars, resultVars, floppyIrqs>>

\* The DMA channel counts up to a word, from a number of bytes less one.
DmaCount == (wanted.end - wanted.start) * SectorBytes - 1
SendTransfer ==
  /\ At("rw", "send") /\ Ready /\ DmaCount <= DmaWord
  /\ dmaBytes' = (DmaCount % DmaWord) + 1
  /\ fdc' = [phase |-> "execute", bytes |-> 0, reply |-> [cyl |-> Track, head |-> HeadNo, sector |-> Sector]]
  /\ Then("rw", "wait")
  /\ UNCHANGED <<cylinder, target, senses, motorVars, tryVars, resultVars, floppyIrqs>>

DmaRefused == /\ At("rw", "send") /\ DmaCount > DmaWord
              /\ Throw
              /\ UNCHANGED <<fdcVars, wanted, replyBuffer, requests, floppyIrqs>>

SendTimesOut == /\ step.does \in {"send", "sense"} /\ step.op # "motor" /\ ~Ready
                /\ Throw
                /\ UNCHANGED <<fdcVars, wanted, replyBuffer, requests, floppyIrqs>>

\* A signal that was not waited for, as that of the reset, ends the next wait at once.
WaitOnInterrupt == /\ step.op \in {"recal", "seek", "rw"} /\ step.does = "wait" /\ floppyIrqs > 0
                   /\ floppyIrqs' = floppyIrqs - 1
                   /\ Then(step.op, IF step.op = "rw" THEN "complete" ELSE "sense")
                   /\ UNCHANGED <<fdcVars, motorVars, tryVars, resultVars>>

\* Floppy_SenseInterruptStatus: one byte says that there was nothing to ask for.
SenseInterruptStatus ==
  /\ step.does = "sense" /\ Ready
  /\ IF senses # <<>> THEN fdc' = ResultPhase(2, Head(senses)) /\ senses' = Tail(senses)
     ELSE fdc' = ResultPhase(1, NoReply) /\ UNCHANGED senses
  /\ Then(step.op, "complete")
  /\ UNCHANGED <<cylinder, target, dmaBytes, motorVars, tryVars, resultVars, floppyIrqs>>

\* Floppy_CompleteResultPhase: too few bytes are an error, and so is a controller that is not done
\* after a while.
ReplyBytes == IF step.op = "rw" THEN 7 ELSE 2
CompleteResultPhase ==
  /\ step.does = "complete" /\ fdc.phase = "result" /\ fdc.bytes = ReplyBytes
  /\ replyBuffer' = fdc.reply /\ fdc' = Idle
  /\ Then(step.op, "judge")
  /\ UNCHANGED <<cylinder, target, senses, dmaBytes, motorVars, tryVars, outcome, requests, floppyIrqs>>
Underrun == /\ step.does = "complete" /\ fdc.phase = "result" /\ fdc.bytes < ReplyBytes
            /\ fdc' = Idle
            /\ Throw
            /\ UNCHANGED <<cylinder, target, senses, dmaBytes, wanted, replyBuffer, requests, floppyIrqs>>
NotCompleted == /\ step.does = "complete" /\ fdc.phase = "execute"
                /\ Throw
                /\ UNCHANGED <<fdcVars, wanted, replyBuffer, requests, floppyIrqs>>

Sought == IF step.op = "recal" THEN replyBuffer.op = "seek" /\ replyBuffer.cyl = 0 ELSE replyBuffer.op = "seek"
JudgeSeek == /\ step.op \in {"recal", "seek"} /\ step.does = "judge"
             /\ IF Sought THEN /\ Then(IF step.op = "recal" THEN "seek" ELSE "rw", "send")
                               /\ UNCHANGED <<seekTry, opTry, outcome, motorVars>>
                ELSE Throw
             /\ UNCHANGED <<fdcVars, wanted, replyBuffer, requests, floppyIrqs>>

\* The reply has the head and the drive in it, and only these are looked at: one of them that is
\* not 0 makes a success of any reply.
JudgeTransfer == /\ At("rw", "judge")
                 /\ IF DriveNo # 0 \/ HeadNo # 0 THEN EndWith("good") /\ UNCHANGED <<seekTry, opTry>>
                    ELSE Throw
                 /\ UNCHANGED <<fdcVars, wanted, replyBuffer, requests, floppyIrqs>>

-----------------------------------------------------------------------------
(* Floppy_Initialize *)

\* The reset raises the interrupt, for which nobody waits, and each of four drives has something
\* to say.
Reset == /\ At("init", "reset")
         /\ fdc' = Idle /\ floppyIrqs' = floppyIrqs + 1
         /\ senses' = [i \in 1 .. 4 |-> Reply("reset", 0, TRUE, {})]
         /\ Then("init", "sense")
         /\ UNCHANGED <<cylinder, target, dmaBytes, motorVars, tryVars, resultVars>>

\* What the last of four says counts.
NextSense == /\ step.op = "init" /\ step.does \in {"judge", "next"}
             /\ IF opTry < 3 THEN opTry' = opTry + 1 /\ Then("init", "sense") /\ UNCHANGED outcome
                ELSE opTry' = 0 /\ Then("idle", "wait")
                     /\ outcome' = IF step.does = "judge" THEN "none" ELSE "uninitialized"
             /\ UNCHANGED <<fdcVars, motorVars, seekTry, wanted, replyBuffer, requests, floppyIrqs>>

\* FloppyMotorController::TimerTrigger, for the one drive.
MotorTask ==
  /\ \/ motorTask = "rest" /\ requestMotorOff /\ motorTask' = "off" /\ motorOn' = FALSE
        /\ UNCHANGED <<requestMotorOff, spinning>>
     \/ motorTask = "off" /\ motorTask' = "disable" /\ requestMotorOff' = FALSE
        /\ UNCHANGED <<motorOn, spinning>>
     \/ motorTask = "disable" /\ motorTask' = "rest" /\ spinning' = FALSE
        /\ UNCHANGED <<motorOn, requestMotorOff>>
  /\ UNCHANGED <<fdcVars, tryVars, resultVars, raced, step, floppyIrqs>>

FloppyInit ==
  /\ fdc = Idle /\ cylinder \in 0 .. Tracks - 1 /\ target = Nowhere /\ senses = <<>> /\ dmaBytes = 0
  /\ spinning = FALSE /\ floppyIrqs = 0
  /\ step = [op |-> "init", does |-> "reset"] /\ seekTry = 0 /\ opTry = 0
  /\ wanted = [start |-> 0, end |-> 0] /\ replyBuffer = NoReply
  /\ motorOn = FALSE /\ requestMotorOff = FALSE /\ motorTask = "rest"
  /\ outcome = "uninitialized" /\ requests = 0 /\ raced = FALSE

FloppyNext ==
  \/ SeekEnds \/ TransferEnds
  \/ \E t \in Transfers : Request(t[1], t[2])
  \/ StartMotor \/ SendSeek \/ SendTransfer \/ DmaRefused \/ SendTimesOut \/ WaitOnInterrupt
  \/ SenseInterruptStatus \/ CompleteResultPhase \/ Underrun \/ NotCompleted \/ JudgeSeek \/ JudgeTransfer
  \/ Reset \/ NextSense \/ MotorTask

FloppySpec == FloppyInit /\ [][FloppyNext]_floppyVars

-----------------------------------------------------------------------------
FloppyTypeOK ==
  /\ fdc.phase \in {"idle", "execute", "result"} /\ fdc.bytes \in 0 .. 7
  /\ cylinder \in 0 .. Tracks - 1 /\ target \in {Nowhere} \cup 0 .. Tracks - 1
  /\ dmaBytes \in 0 .. DmaWord /\ floppyIrqs \in Nat
  /\ seekTry \in 0 .. NoOfRetrys - 1 /\ opTry \in 0 .. NoOfRetrys
  /\ motorTask \in {"rest", "off", "disable"} /\ requests \in 0 .. MaxRequests
  /\ outcome \in {"uninitialized", "none", "good", "failed", "refused"}

\* A transfer that is reported good was replied to in full by a reply to a transfer; where that says
\* that it was normal, the sectors asked for were moved and no others.  A reply of a transfer that
\* was given up is not taken for one of the next.  Unless the task that turns the motor off was
\* overtaken by a start of it, the disk turns from the seek to the end of a transfer.
FloppyMovesAsAsked ==
  /\ outcome = "good" => /\ replyBuffer.op = "rw"
                         /\ replyBuffer.normal => replyBuffer.moved = wanted.start .. wanted.end - 1
  /\ step.op \in {"recal", "seek", "rw"} /\ ~raced => spinning
=============================================================================
