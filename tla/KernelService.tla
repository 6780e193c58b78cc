--------------------------- MODULE KernelService ---------------------------
(***************************************************************************)
(* The kernel service: processes put requests into one queue and sleep     *)
(* until a server process ("kers-0", "kers-1") has executed theirs.        *)
(*                                                                         *)
(* Everybody shares one CPU and can be preempted between any two steps, so *)
(* each action below is a stretch no preemption separates: a mutex guard,  *)
(* or a wait, which disables the task switch until it has yielded.  A page *)
(* fault makes its request in the interrupt handler, with interrupts off.  *)
(***************************************************************************)
EXTENDS Naturals, Sequences

CONSTANTS
  Proc,         \* the processes that make requests
  Server,       \* the processes Spawn creates
  MaxRequests,  \* bound on the requests of one process
  Kinds,        \* which requests are made: subset of AllKinds
  Killable,     \* the processes somebody kills
  None

AllKinds == {"fault",   \* RequestPageFault
             "exec",    \* RequestProcessExec, which borrows the client's drive and directory
             "other"}   \* threads, DLL pages, addresses, frame buffers

ASSUME MaxRequestsAssumption == MaxRequests \in Nat
ASSUME KindsAssumption == Kinds \subseteq AllKinds

\* A Request object: who made it and which of its maker's requests it is.
Request == [from : Proc, n : 1 .. MaxRequests, kind : AllKinds]

ASSUME ActorsAssumption == /\ Killable \subseteq Proc
                           /\ Server \cap Proc = {}
                           /\ None \notin Request

VARIABLES
  queue,      \* m_qRequest
  status,     \* of the clients: RUN, WAIT_KERNEL_SERVICE, TERMINATED, or GONE from the map
  complete,   \* _kernelServiceComplete of each client
  pc,         \* where each process is
  asked,      \* how many requests each client has made
  mine,       \* the request of each client that it will delete
  job,        \* the request each server has taken
  group,      \* whose process group each server has
  drive,      \* whose drive and directory each server has
  runs        \* how often each client's latest request was executed

vars == <<queue, status, complete, pc, asked, mine, job, group, drive, runs>>
client == <<status, complete, asked, mine>>
server == <<job, group, drive, runs>>

TypeOK ==
  /\ queue \in Seq(Request)
  /\ status \in [Proc -> {"RUN", "WAIT_KERNEL_SERVICE", "TERMINATED", "GONE"}]
  /\ complete \in [Proc -> BOOLEAN]
  /\ pc \in [Proc \cup Server -> {"user", "added", "waiting", "idle", "taken", "joined",
                                  "borrowed", "created", "done", "stopped"}]
  /\ asked \in [Proc -> 0 .. MaxRequests]
  /\ mine \in [Proc -> Request \cup {None}]
  /\ job \in [Server -> Request \cup {None}]
  /\ group \in [Server -> Proc \cup Server]
  /\ drive \in [Server -> Proc \cup Server]
  /\ runs \in [Proc -> Nat]

\* GetSchedulableProcess finds every process that has not left the process map.
InMap(p) == status[p] # "GONE"
At(x, step) == pc' = [pc EXCEPT ![x] = step]

-----------------------------------------------------------------------------
(* Clients *)

NewRequest(p, kind) == [from |-> p, n |-> asked[p] + 1, kind |-> kind]

\* A new request enters the queue; its maker keeps a pointer to it.
Enqueue(p, kind) ==
  /\ asked[p] < MaxRequests
  /\ queue' = Append(queue, NewRequest(p, kind))
  /\ mine' = [mine EXCEPT ![p] = NewRequest(p, kind)]
  /\ asked' = [asked EXCEPT ![p] = @ + 1]
  /\ runs' = [runs EXCEPT ![p] = 0]

\* AddRequest
AddRequest(p, kind) ==
  /\ pc[p] = "user" /\ status[p] = "RUN"
  /\ kind \in Kinds \ {"fault"}
  /\ Enqueue(p, kind)
  /\ At(p, "added")
  /\ UNCHANGED <<status, complete, job, group, drive>>

\* The flag is reset and the process sleeps.
Sleeps(p) ==
  /\ complete' = [complete EXCEPT ![p] = FALSE]
  /\ status' = [status EXCEPT ![p] = "WAIT_KERNEL_SERVICE"]
  /\ At(p, "waiting")

WaitOnKernelService(p) ==
  /\ pc[p] = "added" /\ status[p] = "RUN"
  /\ Sleeps(p)
  /\ UNCHANGED <<queue, asked, mine, server>>

\* MemManager_PAGEFAULT_HANDLER: both of the above with interrupts off.
PageFault(p) ==
  /\ pc[p] = "user" /\ status[p] = "RUN"
  /\ "fault" \in Kinds
  /\ Enqueue(p, "fault")
  /\ Sleeps(p)
  /\ UNCHANGED <<job, group, drive>>

\* Mutation of WakeUp: any process that waits is woken.
WakeAnybody(p) ==
  /\ status[p] = "WAIT_KERNEL_SERVICE"
  /\ status' = [status EXCEPT ![p] = "RUN"]
  /\ UNCHANGED <<queue, complete, pc, asked, mine, server>>

\* The scheduler finds the flag set.
WakeUp(p) ==
  /\ status[p] = "WAIT_KERNEL_SERVICE" /\ complete[p]
  /\ complete' = [complete EXCEPT ![p] = FALSE]
  /\ status' = [status EXCEPT ![p] = "RUN"]
  /\ UNCHANGED <<queue, pc, asked, mine, server>>

\* Back in Request*: the result is read and the request deleted.  A page fault that
\* could not be served ends the process.
GoOn(p, ok) ==
  /\ pc[p] = "waiting" /\ status[p] = "RUN"
  /\ ok \/ mine[p].kind = "fault"
  /\ mine' = [mine EXCEPT ![p] = None]
  /\ status' = [status EXCEPT ![p] = IF ok THEN @ ELSE "TERMINATED"]
  /\ At(p, "user")
  /\ UNCHANGED <<queue, complete, asked, server>>

\* Somebody kills p; what p has asked for stays in the queue.
Kill(p) ==
  /\ p \in Killable /\ status[p] \in {"RUN", "WAIT_KERNEL_SERVICE"}
  /\ status' = [status EXCEPT ![p] = "TERMINATED"]
  /\ UNCHANGED <<queue, complete, pc, asked, mine, server>>

\* The scheduler removes what was terminated and released.
Remove(p) ==
  /\ status[p] = "TERMINATED"
  /\ status' = [status EXCEPT ![p] = "GONE"]
  /\ UNCHANGED <<queue, complete, pc, asked, mine, server>>

-----------------------------------------------------------------------------
(* Servers *)

\* Mutation of GetRequest: the request stays in the queue while it is executed.
PeekRequest(s) ==
  /\ pc[s] = "idle" /\ queue # <<>>
  /\ job' = [job EXCEPT ![s] = Head(queue)]
  /\ At(s, "taken")
  /\ UNCHANGED <<queue, client, group, drive, runs>>

GetRequest(s) ==
  /\ pc[s] = "idle" /\ queue # <<>>
  /\ job' = [job EXCEPT ![s] = Head(queue)]
  /\ queue' = Tail(queue)
  /\ At(s, "taken")
  /\ UNCHANGED <<client, group, drive, runs>>

\* GetRequest found nothing: Sleep(10).
SleepsIdle(s) == pc[s] = "idle" /\ queue = <<>> /\ UNCHANGED vars

\* Nothing catches an exception in Server: the server stops, and its client is not told.
Stops(s) == /\ At(s, "stopped")
            /\ UNCHANGED <<queue, client, server>>

\* The server takes its client's group; value() of a client that left the map throws.
JoinGroup(s) ==
  /\ pc[s] = "taken"
  /\ IF InMap(job[s].from)
       THEN /\ group' = [group EXCEPT ![s] = job[s].from]
            /\ At(s, "joined")
            /\ UNCHANGED <<queue, client, job, drive, runs>>
       ELSE Stops(s)

\* ProcessExec::Execute begins: CopyDiskDrive.
CopyDiskDrive(s) ==
  /\ pc[s] = "joined" /\ job[s].kind = "exec"
  /\ IF InMap(job[s].from)
       THEN /\ drive' = [drive EXCEPT ![s] = job[s].from]
            /\ At(s, "borrowed")
            /\ UNCHANGED <<queue, client, job, group, runs>>
       ELSE Stops(s)

Run(s) == runs' = [runs EXCEPT ![job[s].from] = @ + 1]

\* Create loads the program, reading files all the while.
Create(s) ==
  /\ pc[s] = "borrowed"
  /\ Run(s)
  /\ At(s, "created")
  /\ UNCHANGED <<queue, client, job, group, drive>>

\* The old drive and directory again, and the old group.
RestoreDrive(s) ==
  /\ pc[s] = "created"
  /\ drive' = [drive EXCEPT ![s] = s]
  /\ group' = [group EXCEPT ![s] = s]
  /\ At(s, "done")
  /\ UNCHANGED <<queue, client, job, runs>>

\* Mutation of WakeUpFromKSWait: the server answers before it executes.
AnswerFirst(s) ==
  /\ pc[s] = "joined"
  /\ complete' = [complete EXCEPT ![job[s].from] = TRUE]
  /\ UNCHANGED <<queue, status, pc, asked, mine, server>>

\* Mutation of Execute: the server keeps its client's group.
ExecuteInGroup(s) ==
  /\ pc[s] = "joined" /\ job[s].kind # "exec"
  /\ Run(s)
  /\ At(s, "done")
  /\ UNCHANGED <<queue, client, job, group, drive>>

\* The other requests; then the old group.
Execute(s) ==
  /\ pc[s] = "joined" /\ job[s].kind # "exec"
  /\ Run(s)
  /\ group' = [group EXCEPT ![s] = s]
  /\ At(s, "done")
  /\ UNCHANGED <<queue, client, job, drive>>

\* No physical page is left for the fault (AllocatePhysicalPage throws) or for the frame
\* buffer.  Creating a process or a thread and mapping DLL pages catch what they throw.
ExecuteThrows(s) ==
  /\ pc[s] = "joined" /\ job[s].kind # "exec"
  /\ Stops(s)

\* Mutation of WakeUpFromKSWait: the client is not told.
TellNobody(s) ==
  /\ pc[s] = "done"
  /\ job' = [job EXCEPT ![s] = None]
  /\ At(s, "idle")
  /\ UNCHANGED <<queue, client, group, drive, runs>>

WakeUpFromKSWait(s) ==
  /\ pc[s] = "done"
  /\ complete' = [complete EXCEPT ![job[s].from] = @ \/ InMap(job[s].from)]
  /\ job' = [job EXCEPT ![s] = None]
  /\ At(s, "idle")
  /\ UNCHANGED <<queue, status, asked, mine, group, drive, runs>>

-----------------------------------------------------------------------------
\* UpanixMain has spawned the servers.
Init ==
  /\ queue = <<>>
  /\ status = [p \in Proc |-> "RUN"]
  /\ complete = [p \in Proc |-> FALSE]
  /\ pc = [x \in Proc \cup Server |-> IF x \in Server THEN "idle" ELSE "user"]
  /\ asked = [p \in Proc |-> 0] /\ mine = [p \in Proc |-> None]
  /\ job = [s \in Server |-> None]
  /\ group = [s \in Server |-> s] /\ drive = [s \in Server |-> s]
  /\ runs = [p \in Proc |-> 0]

Calls(p) == PageFault(p) \/ Kill(p) \/ \E k \in AllKinds : AddRequest(p, k)
Continues(p) == \/ WaitOnKernelService(p) \/ WakeUp(p) \/ Remove(p)
                \/ \E ok \in BOOLEAN : GoOn(p, ok)
Serves(s) == \/ GetRequest(s) \/ JoinGroup(s) \/ Execute(s) \/ ExecuteThrows(s)
             \/ WakeUpFromKSWait(s) \/ CopyDiskDrive(s) \/ Create(s) \/ RestoreDrive(s)

Next == \/ \E p \in Proc : Calls(p) \/ Continues(p)
        \/ \E s \in Server : Serves(s) \/ SleepsIdle(s)

Spec == Init /\ [][Next]_vars

\* The round robin runs every process that can run; the scheduler tries every wait.
Fairness == /\ \A p \in Proc : WF_vars(Continues(p))
            /\ \A s \in Server : WF_vars(Serves(s))

FairSpec == Spec /\ Fairness

-----------------------------------------------------------------------------
(* Properties *)

\* What clients see is RequestResponse: nobody goes on before its request was
\* executed, and no request is executed twice, whichever server takes it.
Promise == INSTANCE RequestResponse WITH
  Client <- Proc,
  phase <- [p \in Proc |-> IF mine[p] = None THEN "idle"
                           ELSE IF runs[p] = 0 THEN "asked" ELSE "executed"],
  times <- runs
ImplementsPromise == Promise!Spec

\* Request* deletes its request after the wait: then it is in no server's hands and
\* not in the queue any more.
Queued == {queue[i] : i \in DOMAIN queue}
InUse == Queued \cup ({job[s] : s \in Server} \ {None})
NoUseAfterDelete ==
  \A r \in InUse : mine[r.from] = r

\* A request has one owner: the queue holds it once, or one server has it.
OneOwner ==
  /\ \A i, j \in DOMAIN queue : queue[i] = queue[j] => i = j
  /\ \A s, t \in Server : job[s] # None /\ job[s] = job[t] => s = t
  /\ \A s \in Server : job[s] \notin Queued

\* A server that looks for work has its own group and directory again, and works on
\* a program in its client's directory and nobody else's.
ServerIsItself ==
  \A s \in Server :
    /\ pc[s] \in {"idle", "taken"} => group[s] = s /\ drive[s] = s
    /\ pc[s] = "created" => drive[s] = job[s].from /\ group[s] = job[s].from

\* A process that waits for its request goes on or ends.
Waits(p) == status[p] = "WAIT_KERNEL_SERVICE"
EveryWaitEnds == \A p \in Proc : Waits(p) ~> ~Waits(p)

\* A server stopped with p's request, or no server is left to take it.
Forsaken(p) == \/ \E s \in Server : pc[s] = "stopped" /\ job[s] = mine[p]
               \/ \A s \in Server : pc[s] = "stopped"

\* A page fault's wait ends unless the one server that took the fault stopped with it, or
\* all have stopped: nothing can come between its request and its wait, and a server that
\* another client's request has stopped leaves the fault to the others.
EveryFaultEnds ==
  \A p \in Proc : Waits(p) /\ mine[p].kind = "fault" ~> ~Waits(p) \/ Forsaken(p)
=============================================================================
