------------------------ MODULE KernelService_proofs ------------------------
(* For any number of clients, servers and requests: a request has one owner *)
(* and is not deleted while somebody has it, and the kernel service keeps   *)
(* the promise of RequestResponse.                                          *)
EXTENDS KernelService, TLAPS

Elements(q) == {q[i] : i \in DOMAIN q}
Distinct(q) == \A i, j \in DOMAIN q : q[i] = q[j] => i = j

LEMMA AppendElements ==
  ASSUME NEW S, NEW q \in Seq(S), NEW r \in S
  PROVE  /\ Append(q, r) \in Seq(S)
         /\ Elements(Append(q, r)) = Elements(q) \cup {r}
         /\ Distinct(q) /\ r \notin Elements(q) => Distinct(Append(q, r))
<1>1. /\ DOMAIN Append(q, r) = 1 .. Len(q) + 1 /\ DOMAIN q = 1 .. Len(q) /\ Len(q) \in Nat
      /\ \A i \in 1 .. Len(q) : Append(q, r)[i] = q[i]
      /\ Append(q, r)[Len(q) + 1] = r
  OBVIOUS
<1>2. Elements(Append(q, r)) \subseteq Elements(q) \cup {r}
  BY <1>1 DEF Elements
<1>3. Elements(q) \cup {r} \subseteq Elements(Append(q, r))
  BY <1>1 DEF Elements
<1>4. Distinct(q) /\ r \notin Elements(q) => Distinct(Append(q, r))
  BY <1>1 DEF Distinct, Elements
<1>5. QED BY <1>2, <1>3, <1>4

LEMMA TailElements ==
  ASSUME NEW S, NEW q \in Seq(S), q # <<>>
  PROVE  /\ Head(q) \in S /\ Tail(q) \in Seq(S)
         /\ Elements(q) = Elements(Tail(q)) \cup {Head(q)}
         /\ Distinct(q) => Distinct(Tail(q)) /\ Head(q) \notin Elements(Tail(q))
<1>1. /\ DOMAIN q = 1 .. Len(q) /\ Len(q) \in Nat \ {0}
      /\ DOMAIN Tail(q) = 1 .. Len(q) - 1
      /\ \A i \in 1 .. Len(q) - 1 : Tail(q)[i] = q[i + 1]
      /\ Head(q) = q[1]
  OBVIOUS
<1>2. Elements(q) \subseteq Elements(Tail(q)) \cup {Head(q)}
  <2> SUFFICES ASSUME NEW i \in 1 .. Len(q) PROVE q[i] \in Elements(Tail(q)) \cup {Head(q)}
    BY <1>1 DEF Elements
  <2>1. CASE i = 1
    BY <1>1, <2>1
  <2>2. CASE i # 1
    <3>1. i - 1 \in 1 .. Len(q) - 1 /\ Tail(q)[i - 1] = q[i]
      BY <1>1, <2>2
    <3>2. QED BY <1>1, <3>1 DEF Elements
  <2>3. QED BY <2>1, <2>2
<1>3. Elements(Tail(q)) \cup {Head(q)} \subseteq Elements(q)
  BY <1>1 DEF Elements
<1>4. Distinct(q) => Distinct(Tail(q)) /\ Head(q) \notin Elements(Tail(q))
  BY <1>1 DEF Distinct, Elements
<1>5. QED BY <1>1, <1>2, <1>3, <1>4

-----------------------------------------------------------------------------
\* Where a client is, and what it has asked for.
Places ==
  \A p \in Proc :
    /\ pc[p] \in {"user", "added", "waiting"}
    /\ mine[p] = None <=> pc[p] = "user"
    /\ mine[p] # None => mine[p].from = p
    /\ status[p] = "WAIT_KERNEL_SERVICE" => pc[p] = "waiting"

\* A queued request has not run; a server's has run when the server is done with it.
Progress ==
  /\ \A r \in Queued : runs[r.from] = 0
  /\ \A s \in Server :
       /\ job[s] = None <=> pc[s] = "idle"
       /\ pc[s] \in {"taken", "joined", "borrowed", "stopped"} => runs[job[s].from] = 0
       /\ pc[s] \in {"created", "done"} => runs[job[s].from] = 1
       /\ pc[s] \in {"idle", "taken", "joined", "borrowed", "stopped", "created", "done"}

\* A client that was told, or goes on, has had its request executed, and nobody has
\* that request any more.
Answered ==
  \A p \in Proc : pc[p] = "waiting" /\ (complete[p] \/ status[p] = "RUN")
                    => runs[p] = 1 /\ mine[p] \notin InUse

IInv == /\ TypeOK /\ NoUseAfterDelete /\ OneOwner
        /\ Places /\ Progress /\ Answered

LEMMA QueueFacts ==
  ASSUME TypeOK
  PROVE  Queued = Elements(queue) /\ Queued \subseteq Request
         /\ InUse \subseteq Request
  BY DEF TypeOK, Queued, Elements, InUse

THEOREM InitHolds == Init => IInv
<1> SUFFICES ASSUME Init PROVE IInv
  OBVIOUS
<1>1. TypeOK
  <2>1. queue \in Seq(Request)
    BY DEF Init
  <2>2. asked \in [Proc -> 0 .. MaxRequests]
    BY MaxRequestsAssumption DEF Init
  <2>3. QED BY <2>1, <2>2 DEF Init, TypeOK
<1>2. Queued = {}
  BY DEF Init, Queued
<1>3. InUse = {}
  BY <1>2 DEF Init, InUse
<1>4. NoUseAfterDelete /\ OneOwner
  BY <1>2, <1>3 DEF Init, NoUseAfterDelete, OneOwner
<1>5. Places
  BY ActorsAssumption DEF Init, Places
<1>6. Progress /\ Answered
  BY <1>2, ActorsAssumption DEF Init, Progress, Answered
<1>7. QED BY <1>1, <1>4, <1>5, <1>6 DEF IInv

\* A client in user code has no request anywhere.
LEMMA NothingOfMine ==
  ASSUME IInv, NEW p \in Proc, pc[p] = "user"
  PROVE  \A r \in InUse : r.from # p
<1> SUFFICES ASSUME NEW r \in InUse, r.from = p PROVE FALSE
  OBVIOUS
<1>1. r \in Request /\ mine[p] = r
  BY QueueFacts DEF IInv, NoUseAfterDelete
<1>2. mine[p] = None
  BY DEF IInv, Places
<1>3. QED BY <1>1, <1>2, ActorsAssumption

\* A new request, after which its maker goes on or sleeps.
LEMMA EnqueueKeeps ==
  ASSUME IInv, NEW p \in Proc, NEW kind \in Kinds, pc[p] = "user", status[p] = "RUN",
         Enqueue(p, kind), UNCHANGED <<job, group, drive>>,
         \/ /\ pc' = [pc EXCEPT ![p] = "added"]
            /\ UNCHANGED <<status, complete>>
         \/ Sleeps(p)
  PROVE  IInv'
<1> DEFINE r == NewRequest(p, kind)
<1>1. r \in Request /\ r.from = p /\ r # None
  BY KindsAssumption, MaxRequestsAssumption, ActorsAssumption
     DEF Enqueue, NewRequest, Request, IInv, TypeOK
<1>2. \A x \in InUse : x.from # p
  BY NothingOfMine
<1> HIDE DEF r
<1>3. /\ queue' \in Seq(Request) /\ Queued' = Queued \cup {r}
      /\ OneOwner => Distinct(queue')
  <2>1. queue' = Append(queue, r)
    BY DEF Enqueue, r
  <2>2. r \notin Queued
    BY <1>1, <1>2 DEF InUse
  <2>3. queue \in Seq(Request) /\ Queued = Elements(queue) /\ Queued' = Elements(queue')
    BY DEF IInv, TypeOK, Queued, Elements
  <2>4. OneOwner => Distinct(queue)
    BY DEF OneOwner, Distinct
  <2>5. queue' \in Seq(Request) /\ Queued' = Queued \cup {r}
    BY <1>1, <2>1, <2>3, AppendElements
  <2>6. Distinct(queue) => Distinct(queue')
    BY <1>1, <2>1, <2>2, <2>3, AppendElements
  <2>7. QED BY <2>4, <2>5, <2>6
<1>4. InUse' = InUse \cup {r}
  BY <1>3 DEF InUse
<1>5. /\ mine' = [mine EXCEPT ![p] = r] /\ runs' = [runs EXCEPT ![p] = 0]
      /\ asked' \in [Proc -> 0 .. MaxRequests]
  BY MaxRequestsAssumption DEF Enqueue, r, IInv, TypeOK
<1>6. TypeOK'
  BY <1>1, <1>3, <1>5 DEF IInv, TypeOK, Sleeps, At
<1>7. NoUseAfterDelete'
  BY <1>1, <1>2, <1>4, <1>5, QueueFacts DEF IInv, TypeOK, NoUseAfterDelete, Request
<1>8. OneOwner'
  <2>1. \A s \in Server : job'[s] # r
    BY <1>1, <1>2 DEF InUse
  <2>2. QED
    BY <1>3, <2>1 DEF IInv, OneOwner, Distinct
<1>9. Places'
  BY <1>1, <1>5, ActorsAssumption DEF IInv, TypeOK, Places, Sleeps, At
<1>10. Progress'
  <2>1. \A x \in Queued' : runs'[x.from] = 0
    BY <1>1, <1>3, <1>5, QueueFacts DEF IInv, TypeOK, Progress, Request
  <2>2. \A s \in Server : pc'[s] = pc[s]
    BY ActorsAssumption DEF Sleeps, At, IInv, TypeOK
  <2>3. \A s \in Server : pc[s] # "idle" => runs'[job[s].from] = runs[job[s].from]
    <3> SUFFICES ASSUME NEW s \in Server, pc[s] # "idle"
                 PROVE runs'[job[s].from] = runs[job[s].from]
      OBVIOUS
    <3>1. job[s] \in InUse
      BY DEF IInv, Progress, InUse
    <3>2. job[s].from # p /\ job[s].from \in Proc
      BY <1>2, <3>1, QueueFacts DEF IInv, Request
    <3>3. QED BY <1>5, <3>2 DEF IInv, TypeOK
  <2>4. QED
    BY <2>1, <2>2, <2>3 DEF IInv, Progress
<1>11. Answered'
  <2>1. pc'[p] = "added" \/ (complete'[p] = FALSE /\ status'[p] # "RUN")
    BY DEF Sleeps, At, IInv, TypeOK
  <2>2. \A q \in Proc \ {p} : /\ pc'[q] = pc[q] /\ complete'[q] = complete[q]
                              /\ status'[q] = status[q] /\ mine'[q] = mine[q]
                              /\ runs'[q] = runs[q]
    BY <1>5 DEF Sleeps, At, IInv, TypeOK
  <2>3. \A q \in Proc \ {p} : pc[q] = "waiting" => mine[q] # r
    BY <1>1 DEF IInv, Places
  <2>4. QED
    BY <1>4, <2>1, <2>2, <2>3 DEF IInv, Answered
<1>12. QED BY <1>6, <1>7, <1>8, <1>9, <1>10, <1>11 DEF IInv

\* A step of a server that keeps its request, and of nobody else.
LEMMA ServerKeeps ==
  ASSUME IInv, NEW s \in Server, NEW step,
         job[s] # None, UNCHANGED <<queue, client, job>>, At(s, step),
         group' \in [Server -> Proc \cup Server], drive' \in [Server -> Proc \cup Server],
         \/ /\ pc[s] \in {"taken", "joined", "borrowed"} /\ runs' = runs
            /\ step \in {"joined", "borrowed", "stopped"}
         \/ pc[s] \in {"joined", "borrowed"} /\ Run(s) /\ step \in {"created", "done"}
         \/ pc[s] = "created" /\ runs' = runs /\ step = "done"
  PROVE  IInv'
<1>1. job[s] \in InUse /\ job[s] \in Request /\ job[s].from \in Proc /\ mine[job[s].from] = job[s]
  BY QueueFacts DEF IInv, NoUseAfterDelete, InUse, Request
<1>2. Queued' = Queued /\ InUse' = InUse
  BY DEF Queued, InUse
<1>3. /\ \A x \in Proc \cup Server : x # s => pc'[x] = pc[x]
      /\ pc'[s] = step
  BY DEF At, IInv, TypeOK
<1>4. \A q \in Proc : q # job[s].from => runs'[q] = runs[q]
  BY <1>1 DEF Run, IInv, TypeOK
<1>5. \A r \in InUse : r # job[s] => r.from # job[s].from
  BY <1>1 DEF IInv, NoUseAfterDelete
<1>6. step \in {"created", "done"} => runs'[job[s].from] = 1
  BY <1>1 DEF Run, IInv, TypeOK, Progress
<1>7. TypeOK'
  BY <1>1, ActorsAssumption DEF IInv, TypeOK, Run, At, client
<1>8. NoUseAfterDelete' /\ OneOwner'
  BY <1>2 DEF IInv, NoUseAfterDelete, OneOwner, client
<1>9. Places'
  BY <1>3, ActorsAssumption DEF IInv, Places, client
<1>10. Progress'
  <2>1. \A r \in Queued : r # job[s] /\ r \in InUse /\ r.from \in Proc
    BY QueueFacts DEF IInv, OneOwner, InUse, Request
  <2>2. \A t \in Server : t # s /\ job[t] # None => /\ job[t] # job[s] /\ job[t] \in InUse
                                                    /\ job[t].from \in Proc
    BY QueueFacts DEF IInv, OneOwner, InUse, Request
  <2>3. \A r \in Queued : runs'[r.from] = runs[r.from]
    BY <1>4, <1>5, <2>1
  <2>4. \A t \in Server : t # s /\ job[t] # None => runs'[job[t].from] = runs[job[t].from]
    BY <1>4, <1>5, <2>2
  <2>5. step \in {"joined", "borrowed", "stopped"} => runs'[job[s].from] = 0
    BY <1>1 DEF IInv, Progress, Run, At
  <2>6. QED
    BY <1>2, <1>3, <1>6, <2>3, <2>4, <2>5 DEF IInv, Progress, client
<1>11. Answered'
  <2> SUFFICES ASSUME NEW p \in Proc, pc'[p] = "waiting", complete'[p] \/ status'[p] = "RUN"
               PROVE  runs'[p] = 1 /\ mine'[p] \notin InUse'
    BY DEF Answered
  <2>1. pc[p] = "waiting" /\ runs[p] = 1 /\ mine[p] \notin InUse
    BY <1>3, ActorsAssumption DEF IInv, Answered, client
  <2>2. p # job[s].from
    BY <1>1, <2>1
  <2>3. QED BY <1>2, <1>4, <2>1, <2>2 DEF client
<1>12. QED BY <1>7, <1>8, <1>9, <1>10, <1>11 DEF IInv


\* A server takes the head of the queue.
LEMMA TakeKeeps ==
  ASSUME IInv, NEW s \in Server, GetRequest(s)
  PROVE  IInv'
<1> DEFINE r == Head(queue)
<1>1. queue \in Seq(Request) /\ queue # <<>> /\ Queued = Elements(queue)
      /\ Queued' = Elements(queue') /\ queue' = Tail(queue) /\ pc[s] = "idle"
  BY QueueFacts DEF GetRequest, IInv, TypeOK, Queued, Elements
<1>2. r \in Request /\ queue' \in Seq(Request) /\ Queued = Queued' \cup {r}
  BY <1>1, TailElements
<1>3. Distinct(queue) => Distinct(queue') /\ r \notin Queued'
  BY <1>1, TailElements
<1>4. Distinct(queue') /\ r \notin Queued'
  BY <1>3 DEF IInv, OneOwner, Distinct
<1> HIDE DEF r
<1>5. job' = [job EXCEPT ![s] = r] /\ pc' = [pc EXCEPT ![s] = "taken"] /\ job[s] = None
      /\ r # None
  BY <1>1, <1>2, ActorsAssumption DEF GetRequest, r, At, IInv, Progress
<1>6. InUse' = InUse
  <2>1. {job'[t] : t \in Server} \ {None} = ({job[t] : t \in Server} \ {None}) \cup {r}
    BY <1>5 DEF IInv, TypeOK
  <2>2. QED BY <1>2, <2>1 DEF InUse
<1>7. TypeOK'
  BY <1>2, <1>5, ActorsAssumption DEF IInv, TypeOK, GetRequest, client
<1>8. NoUseAfterDelete'
  BY <1>6 DEF IInv, NoUseAfterDelete, GetRequest, client
<1>9. OneOwner'
  <2>1. \A t \in Server : job[t] \notin Queued
    BY DEF IInv, OneOwner
  <2>2. \A t \in Server \ {s} : job'[t] = job[t] /\ job[t] # r
    BY <1>2, <1>5, <2>1 DEF IInv, TypeOK
  <2>3. job'[s] = r
    BY <1>5 DEF IInv, TypeOK
  <2>4. QED
    BY <1>2, <1>4, <2>1, <2>2, <2>3 DEF IInv, OneOwner, Distinct
<1>10. Places'
  BY <1>5, ActorsAssumption DEF IInv, TypeOK, Places, GetRequest, client
<1>11. Progress'
  <2>1. runs' = runs /\ runs[r.from] = 0
    BY <1>2 DEF IInv, Progress, GetRequest
  <2>2. \A t \in Server \ {s} : job'[t] = job[t] /\ pc'[t] = pc[t]
    BY <1>5 DEF IInv, TypeOK
  <2>3. job'[s] = r /\ pc'[s] = "taken"
    BY <1>5 DEF IInv, TypeOK
  <2>4. QED
    BY <1>2, <1>5, <2>1, <2>2, <2>3 DEF IInv, Progress
<1>12. Answered'
  <2>1. \A p \in Proc : pc'[p] = pc[p]
    BY <1>5, ActorsAssumption DEF IInv, TypeOK
  <2>2. QED
    BY <1>6, <2>1 DEF IInv, Answered, GetRequest, client
<1>13. QED BY <1>7, <1>8, <1>9, <1>10, <1>11, <1>12 DEF IInv

\* A server tells its client and lets go of the request.
LEMMA AnswerKeeps ==
  ASSUME IInv, NEW s \in Server, WakeUpFromKSWait(s)
  PROVE  IInv'
<1>1. pc[s] = "done" /\ job[s] # None /\ job[s] \in InUse /\ job[s] \in Request
      /\ job[s].from \in Proc /\ mine[job[s].from] = job[s] /\ runs[job[s].from] = 1
  BY QueueFacts DEF WakeUpFromKSWait, IInv, Progress, NoUseAfterDelete, InUse, Request
<1>2. job' = [job EXCEPT ![s] = None] /\ pc' = [pc EXCEPT ![s] = "idle"] /\ Queued' = Queued
  BY DEF WakeUpFromKSWait, At, Queued
<1>3. InUse' = InUse \ {job[s]}
  <2>1. {job'[t] : t \in Server} \ {None} = ({job[t] : t \in Server} \ {None}) \ {job[s]}
    BY <1>1, <1>2 DEF IInv, TypeOK, OneOwner
  <2>2. job[s] \notin Queued
    BY DEF IInv, OneOwner
  <2>3. QED BY <1>2, <2>1, <2>2 DEF InUse
<1>4. complete' \in [Proc -> BOOLEAN]
  <2>1. complete \in [Proc -> BOOLEAN] /\ InMap(job[s].from) \in BOOLEAN
    BY DEF IInv, TypeOK, InMap
  <2>2. complete' = [complete EXCEPT ![job[s].from] = @ \/ InMap(job[s].from)]
    BY DEF WakeUpFromKSWait
  <2>3. (complete[job[s].from] \/ InMap(job[s].from)) \in BOOLEAN
    OBVIOUS
  <2>4. QED BY <2>1, <2>2, <2>3
<1>5. TypeOK'
  BY <1>2, <1>4, ActorsAssumption DEF IInv, TypeOK, WakeUpFromKSWait
<1>6. NoUseAfterDelete'
  BY <1>3 DEF IInv, NoUseAfterDelete, WakeUpFromKSWait
<1>7. OneOwner'
  <2>1. \A t \in Server \ {s} : job'[t] = job[t]
    BY <1>2 DEF IInv, TypeOK
  <2>2. job'[s] = None /\ None \notin Queued
    BY <1>2, QueueFacts, ActorsAssumption DEF IInv, TypeOK
  <2>3. queue' = queue
    BY DEF WakeUpFromKSWait
  <2>4. QED
    BY <1>2, <2>1, <2>2, <2>3 DEF IInv, OneOwner
<1>8. Places'
  BY <1>2, ActorsAssumption DEF IInv, TypeOK, Places, WakeUpFromKSWait
<1>9. Progress'
  <2>1. \A t \in Server \ {s} : job'[t] = job[t] /\ pc'[t] = pc[t]
    BY <1>2 DEF IInv, TypeOK
  <2>2. job'[s] = None /\ pc'[s] = "idle" /\ runs' = runs
    BY <1>2 DEF IInv, TypeOK, WakeUpFromKSWait
  <2>3. QED BY <1>2, <2>1, <2>2 DEF IInv, Progress
<1>10. Answered'
  <2> SUFFICES ASSUME NEW p \in Proc, pc'[p] = "waiting", complete'[p] \/ status'[p] = "RUN"
               PROVE  runs'[p] = 1 /\ mine'[p] \notin InUse'
    BY DEF Answered
  <2>1. pc[p] = "waiting" /\ status' = status /\ mine' = mine /\ runs' = runs
    BY <1>2, ActorsAssumption DEF IInv, TypeOK, WakeUpFromKSWait
  <2>2. CASE p = job[s].from
    BY <1>1, <1>3, <2>1, <2>2
  <2>3. CASE p # job[s].from
    <3>1. complete'[p] = complete[p]
      BY <2>3 DEF WakeUpFromKSWait, IInv, TypeOK
    <3>2. QED BY <1>3, <2>1, <3>1 DEF IInv, Answered
  <2>4. QED BY <2>2, <2>3
<1>11. QED BY <1>5, <1>6, <1>7, <1>8, <1>9, <1>10 DEF IInv

\* A client that sleeps was not told yet.
LEMMA SleepKeeps ==
  ASSUME IInv, NEW p \in Proc, WaitOnKernelService(p)
  PROVE  IInv'
<1>1. /\ complete' = [complete EXCEPT ![p] = FALSE]
      /\ status' = [status EXCEPT ![p] = "WAIT_KERNEL_SERVICE"]
      /\ pc' = [pc EXCEPT ![p] = "waiting"] /\ pc[p] = "added"
      /\ UNCHANGED <<queue, asked, mine, job, group, drive, runs>>
  BY DEF WaitOnKernelService, Sleeps, At, server
<1>2. Queued' = Queued /\ InUse' = InUse
  BY <1>1 DEF Queued, InUse
<1>3. TypeOK'
  BY <1>1 DEF IInv, TypeOK
<1>4. NoUseAfterDelete' /\ OneOwner'
  BY <1>1, <1>2 DEF IInv, NoUseAfterDelete, OneOwner
<1>5. Places'
  BY <1>1 DEF IInv, TypeOK, Places
<1>6. Progress'
  BY <1>1, <1>2, ActorsAssumption DEF IInv, TypeOK, Progress
<1>7. Answered'
  BY <1>1, <1>2 DEF IInv, TypeOK, Answered
<1>8. QED BY <1>3, <1>4, <1>5, <1>6, <1>7 DEF IInv

\* The scheduler and the killer change the status of a client and no request.
LEMMA StatusKeeps ==
  ASSUME IInv, NEW p \in Proc, WakeUp(p) \/ Kill(p) \/ Remove(p)
  PROVE  IInv'
<1>1. UNCHANGED <<queue, pc, asked, mine, job, group, drive, runs>>
  BY DEF WakeUp, Kill, Remove, server
<1>2. Queued' = Queued /\ InUse' = InUse
  BY <1>1 DEF Queued, InUse
<1>3. \A q \in Proc :
        /\ status'[q] = "RUN" => status[q] = "RUN" \/ complete[q]
        /\ status'[q] = "WAIT_KERNEL_SERVICE" => status[q] = "WAIT_KERNEL_SERVICE"
        /\ complete'[q] => complete[q]
  BY Zenon DEF WakeUp, Kill, Remove, IInv, TypeOK
<1>4. TypeOK'
  BY <1>1 DEF IInv, TypeOK, WakeUp, Kill, Remove
<1>5. NoUseAfterDelete' /\ OneOwner'
  BY <1>1, <1>2 DEF IInv, NoUseAfterDelete, OneOwner
<1>6. Places'
  BY <1>1, <1>3 DEF IInv, Places
<1>7. Progress'
  BY <1>1, <1>2 DEF IInv, Progress
<1>8. Answered'
  BY <1>1, <1>2, <1>3 DEF IInv, Answered
<1>9. QED BY <1>4, <1>5, <1>6, <1>7, <1>8 DEF IInv

\* A client deletes its request when nobody has it any more.
LEMMA GoOnKeeps ==
  ASSUME IInv, NEW p \in Proc, NEW ok \in BOOLEAN, GoOn(p, ok)
  PROVE  IInv'
<1>1. /\ mine' = [mine EXCEPT ![p] = None]
      /\ status' = [status EXCEPT ![p] = IF ok THEN @ ELSE "TERMINATED"]
      /\ pc' = [pc EXCEPT ![p] = "user"] /\ pc[p] = "waiting" /\ status[p] = "RUN"
      /\ UNCHANGED <<queue, complete, asked, job, group, drive, runs>>
  BY DEF GoOn, At, server
<1>2. Queued' = Queued /\ InUse' = InUse
  BY <1>1 DEF Queued, InUse
<1>3. mine[p] \notin InUse
  BY <1>1 DEF IInv, Answered
<1>4. TypeOK'
  BY <1>1 DEF IInv, TypeOK
<1>5. NoUseAfterDelete'
  BY <1>1, <1>2, <1>3, QueueFacts DEF IInv, TypeOK, NoUseAfterDelete, Request
<1>6. OneOwner'
  BY <1>1, <1>2 DEF IInv, OneOwner
<1>7. Places'
  BY <1>1 DEF IInv, TypeOK, Places
<1>8. Progress'
  BY <1>1, <1>2, ActorsAssumption DEF IInv, TypeOK, Progress
<1>9. Answered'
  BY <1>1, <1>2 DEF IInv, TypeOK, Answered
<1>10. QED BY <1>4, <1>5, <1>6, <1>7, <1>8, <1>9 DEF IInv

\* The middle of a server's round, from joining the group to leaving it.
LEMMA MiddleKeeps ==
  ASSUME IInv, NEW s \in Server,
         JoinGroup(s) \/ CopyDiskDrive(s) \/ Create(s) \/ RestoreDrive(s) \/ Execute(s) \/ ExecuteThrows(s)
  PROVE  IInv'
<1>1. job[s] # None /\ job[s].from \in Proc
  BY QueueFacts DEF IInv, Progress, InUse, Request, JoinGroup, CopyDiskDrive, Create,
                    RestoreDrive, Execute, ExecuteThrows
<1>2. group \in [Server -> Proc \cup Server] /\ drive \in [Server -> Proc \cup Server]
  BY DEF IInv, TypeOK
<1>3. CASE JoinGroup(s)
  BY <1>1, <1>2, <1>3, ServerKeeps DEF JoinGroup, Stops, client, server
<1>4. CASE CopyDiskDrive(s)
  BY <1>1, <1>2, <1>4, ServerKeeps DEF CopyDiskDrive, Stops, client, server
<1>5. CASE Create(s)
  BY <1>1, <1>2, <1>5, ServerKeeps DEF Create, client
<1>6. CASE RestoreDrive(s)
  <2>1. group' \in [Server -> Proc \cup Server] /\ drive' \in [Server -> Proc \cup Server]
    BY <1>2, <1>6 DEF RestoreDrive
  <2>2. QED BY <1>1, <1>6, <2>1, ServerKeeps DEF RestoreDrive, client
<1>7. CASE Execute(s)
  <2>1. group' \in [Server -> Proc \cup Server] /\ drive' \in [Server -> Proc \cup Server]
    BY <1>2, <1>7 DEF Execute
  <2>2. QED BY <1>1, <1>7, <2>1, ServerKeeps DEF Execute, client
<1>8. CASE ExecuteThrows(s)
  BY <1>1, <1>2, <1>8, ServerKeeps DEF ExecuteThrows, Stops, client, server
<1>9. QED BY <1>3, <1>4, <1>5, <1>6, <1>7, <1>8

LEMMA StepKeeps ==
  ASSUME IInv, [Next]_vars
  PROVE  IInv'
<1>1. CASE UNCHANGED vars
  BY <1>1 DEF vars, IInv, TypeOK, NoUseAfterDelete, OneOwner, Places, Progress, Answered,
              InUse, Queued
<1>2. ASSUME NEW p \in Proc, Calls(p) PROVE IInv'
  <2>1. CASE PageFault(p)
    BY <2>1, EnqueueKeeps DEF PageFault
  <2>2. CASE Kill(p)
    BY <2>2, StatusKeeps
  <2>3. ASSUME NEW k \in AllKinds, AddRequest(p, k) PROVE IInv'
    BY <2>3, EnqueueKeeps DEF AddRequest, At
  <2>4. QED BY <1>2, <2>1, <2>2, <2>3 DEF Calls
<1>3. ASSUME NEW p \in Proc, Continues(p) PROVE IInv'
  BY <1>3, SleepKeeps, StatusKeeps, GoOnKeeps DEF Continues
<1>4. ASSUME NEW s \in Server, Serves(s) PROVE IInv'
  BY <1>4, TakeKeeps, MiddleKeeps, AnswerKeeps DEF Serves
<1>5. ASSUME NEW s \in Server, SleepsIdle(s) PROVE IInv'
  BY <1>1, <1>5 DEF SleepsIdle
<1>6. QED BY <1>1, <1>2, <1>3, <1>4, <1>5 DEF Next

\* KernelService.cpp: the conjuncts of IInv hold in every reachable state, however
\* clients, servers, faults, kills and removals interleave.
THEOREM InductiveInvariant == Spec => []IInv
<1>1. Init => IInv
  BY InitHolds
<1>2. IInv /\ [Next]_vars => IInv'
  BY StepKeeps
<1>3. QED BY <1>1, <1>2, PTL DEF Spec

\* KernelService.cpp: the queue, the processes and the servers keep their types.
THEOREM TypeCorrect == Spec => []TypeOK
<1>1. IInv => TypeOK
  BY DEF IInv
<1>2. QED BY <1>1, InductiveInvariant, PTL

\* KernelService.cpp:132-144: a client deletes its request after the wait; no server
\* and no queue still has it.
THEOREM NeverUsedAfterDelete == Spec => []NoUseAfterDelete
<1>1. IInv => NoUseAfterDelete
  BY DEF IInv
<1>2. QED BY <1>1, InductiveInvariant, PTL

\* KernelService.cpp:203-215: two servers never have the same request.
THEOREM OneServerEach == Spec => []OneOwner
<1>1. IInv => OneOwner
  BY DEF IInv
<1>2. QED BY <1>1, InductiveInvariant, PTL

-----------------------------------------------------------------------------
\* Where RequestResponse sees the request of a client.
Phase == [p \in Proc |-> IF mine[p] = None THEN "idle"
                         ELSE IF runs[p] = 0 THEN "asked" ELSE "executed"]

\* A step of the kernel service that asks, executes or goes on is that step of the
\* promise, and every other one leaves phase and times alone.
LEMMA StepRefines ==
  ASSUME IInv, IInv', [Next]_vars
  PROVE  [Promise!Next]_(Promise!vars)
<1>1. ASSUME mine' = mine, runs' = runs PROVE UNCHANGED Promise!vars
  BY <1>1 DEF Promise!vars
<1>2. ASSUME NEW p \in Proc, NEW k \in Kinds, pc[p] = "user", Enqueue(p, k)
      PROVE  Promise!Ask(p)
  <2>1. mine[p] = None /\ runs' = [runs EXCEPT ![p] = 0]
        /\ mine' = [mine EXCEPT ![p] = NewRequest(p, k)] /\ NewRequest(p, k) # None
    <3>1. NewRequest(p, k) \in Request
      BY <1>2, KindsAssumption, MaxRequestsAssumption
         DEF Enqueue, NewRequest, Request, IInv, TypeOK
    <3>2. QED BY <1>2, <3>1, ActorsAssumption DEF Enqueue, IInv, Places
  <2>2. Phase[p] = "idle" /\ Phase' = [Phase EXCEPT ![p] = "asked"]
    BY <2>1 DEF Phase, IInv, TypeOK
  <2>3. QED BY <2>1, <2>2 DEF Phase, Promise!Ask
<1>3. ASSUME NEW p \in Proc, NEW ok \in BOOLEAN, GoOn(p, ok) PROVE Promise!GoOn(p)
  <2>1. mine[p] # None /\ runs[p] = 1 /\ runs' = runs /\ mine' = [mine EXCEPT ![p] = None]
    BY <1>3 DEF GoOn, IInv, Places, Answered, server
  <2>2. mine \in [Proc -> Request \cup {None}]
    BY DEF IInv, TypeOK
  <2>3. Phase[p] = "executed" /\ Phase' = [Phase EXCEPT ![p] = "idle"]
    <3>1. Phase[p] = "executed"
      BY <2>1 DEF Phase
    <3>2. mine'[p] = None /\ \A q \in Proc \ {p} : mine'[q] = mine[q]
      BY <2>1, <2>2
    <3>3. \A q \in Proc : Phase'[q] = IF q = p THEN "idle" ELSE Phase[q]
      BY <2>1, <3>2 DEF Phase
    <3>4. QED BY <3>1, <3>3 DEF Phase
  <2>4. QED BY <2>1, <2>3 DEF Phase, Promise!GoOn
<1>4. ASSUME NEW s \in Server, Create(s) \/ Execute(s) PROVE \E p \in Proc : Promise!Execute(p)
  <2> DEFINE p == job[s].from
  <2>1. p \in Proc /\ mine[p] # None /\ runs[p] = 0 /\ mine' = mine
        /\ runs' = [runs EXCEPT ![p] = @ + 1]
    BY <1>4, QueueFacts, ActorsAssumption
       DEF Create, Execute, Run, IInv, Progress, NoUseAfterDelete, InUse, Request, client
  <2> HIDE DEF p
  <2>2. runs \in [Proc -> Nat]
    BY DEF IInv, TypeOK
  <2>3. Phase[p] = "asked" /\ Phase' = [Phase EXCEPT ![p] = "executed"]
    <3>1. Phase[p] = "asked"
      BY <2>1 DEF Phase
    <3>2. runs'[p] = 1 /\ \A q \in Proc \ {p} : runs'[q] = runs[q]
      BY <2>1, <2>2
    <3>3. \A q \in Proc : Phase'[q] = IF q = p THEN "executed" ELSE Phase[q]
      BY <2>1, <3>2 DEF Phase
    <3>4. QED BY <3>1, <3>3 DEF Phase
  <2>4. QED BY <2>1, <2>3 DEF Phase, Promise!Execute
<1>5. ASSUME NEW p \in Proc, Calls(p) PROVE [Promise!Next]_(Promise!vars)
  <2>1. CASE PageFault(p)
    BY <1>2, <2>1 DEF PageFault, Promise!Next
  <2>2. CASE Kill(p)
    BY <1>1, <2>2 DEF Kill, server
  <2>3. ASSUME NEW k \in AllKinds, AddRequest(p, k) PROVE [Promise!Next]_(Promise!vars)
    BY <1>2, <2>3 DEF AddRequest, Promise!Next
  <2>4. QED BY <1>5, <2>1, <2>2, <2>3 DEF Calls
<1>6. ASSUME NEW p \in Proc, Continues(p) PROVE [Promise!Next]_(Promise!vars)
  <2>1. CASE WaitOnKernelService(p) \/ WakeUp(p) \/ Remove(p)
    BY <1>1, <2>1 DEF WaitOnKernelService, WakeUp, Remove, server
  <2>2. ASSUME NEW ok \in BOOLEAN, GoOn(p, ok) PROVE [Promise!Next]_(Promise!vars)
    BY <1>3, <2>2 DEF Promise!Next
  <2>3. QED BY <1>6, <2>1, <2>2 DEF Continues
<1>7. ASSUME NEW s \in Server, Serves(s) PROVE [Promise!Next]_(Promise!vars)
  <2>1. CASE Create(s) \/ Execute(s)
    BY <1>4, <2>1 DEF Promise!Next
  <2>2. CASE GetRequest(s) \/ JoinGroup(s) \/ WakeUpFromKSWait(s) \/ CopyDiskDrive(s)
             \/ RestoreDrive(s) \/ ExecuteThrows(s)
    BY <1>1, <2>2 DEF GetRequest, JoinGroup, WakeUpFromKSWait, CopyDiskDrive, RestoreDrive,
                      ExecuteThrows, Stops, client, server
  <2>3. QED BY <1>7, <2>1, <2>2 DEF Serves
<1>8. CASE UNCHANGED vars
  BY <1>1, <1>8 DEF vars
<1>9. ASSUME NEW s \in Server, SleepsIdle(s) PROVE [Promise!Next]_(Promise!vars)
  BY <1>8, <1>9 DEF SleepsIdle
<1>10. QED BY <1>5, <1>6, <1>7, <1>8, <1>9 DEF Next

\* KernelService.cpp:217-236: a request is executed at most once, and its client goes
\* on only when it was executed, whatever the number of servers.
THEOREM PromiseIsKept == Spec => ImplementsPromise
<1>1. Init => Promise!Init
  BY DEF Init, Promise!Init
<1>2. IInv /\ IInv' /\ [Next]_vars => [Promise!Next]_(Promise!vars)
  BY StepRefines
<1>3. QED BY <1>1, <1>2, InductiveInvariant, PTL DEF Spec, ImplementsPromise, Promise!Spec

-----------------------------------------------------------------------------
\* Whose group and directory a server has at each of its steps.  A server that stopped keeps its
\* client's.
Borrowed ==
  \A s \in Server :
    /\ pc[s] \in {"idle", "taken", "done"} => group[s] = s /\ drive[s] = s
    /\ pc[s] = "joined" => group[s] = job[s].from /\ drive[s] = s
    /\ pc[s] \in {"borrowed", "created"} => group[s] = job[s].from /\ drive[s] = job[s].from

\* What server s does in one step, to itself only.
LEMMA BorrowingKeeps ==
  ASSUME TypeOK, Borrowed, NEW s \in Server, Serves(s)
  PROVE  Borrowed'
<1>1. \A t \in Server : t # s => UNCHANGED <<pc[t], group[t], drive[t], job[t]>>
  <2> SUFFICES ASSUME NEW t \in Server, t # s PROVE UNCHANGED <<pc[t], group[t], drive[t], job[t]>>
    OBVIOUS
  <2>1. CASE GetRequest(s)
    BY <2>1 DEF GetRequest, At, TypeOK
  <2>2. CASE JoinGroup(s)
    BY <2>2 DEF JoinGroup, Stops, At, TypeOK, server
  <2>3. CASE Execute(s)
    BY <2>3 DEF Execute, At, TypeOK
  <2>4. CASE WakeUpFromKSWait(s)
    BY <2>4 DEF WakeUpFromKSWait, At, TypeOK
  <2>5. CASE CopyDiskDrive(s)
    BY <2>5 DEF CopyDiskDrive, Stops, At, TypeOK, server
  <2>6. CASE Create(s)
    BY <2>6 DEF Create, At, TypeOK
  <2>7. CASE RestoreDrive(s)
    BY <2>7 DEF RestoreDrive, At, TypeOK
  <2>8. CASE ExecuteThrows(s)
    BY <2>8 DEF ExecuteThrows, Stops, At, TypeOK, server
  <2>9. QED BY <2>1, <2>2, <2>3, <2>4, <2>5, <2>6, <2>7, <2>8 DEF Serves
<1>2. /\ pc'[s] \in {"idle", "taken", "done"} => group'[s] = s /\ drive'[s] = s
      /\ pc'[s] = "joined" => group'[s] = job'[s].from /\ drive'[s] = s
      /\ pc'[s] \in {"borrowed", "created"} => group'[s] = job'[s].from /\ drive'[s] = job'[s].from
  <2>1. CASE GetRequest(s)
    BY <2>1 DEF GetRequest, At, TypeOK, Borrowed
  <2>2. CASE JoinGroup(s)
    BY <2>2 DEF JoinGroup, Stops, At, TypeOK, server, Borrowed
  <2>3. CASE Execute(s)
    BY <2>3 DEF Execute, At, TypeOK, Borrowed
  <2>4. CASE WakeUpFromKSWait(s)
    BY <2>4 DEF WakeUpFromKSWait, At, TypeOK, Borrowed
  <2>5. CASE CopyDiskDrive(s)
    BY <2>5 DEF CopyDiskDrive, Stops, At, TypeOK, server, Borrowed
  <2>6. CASE Create(s)
    BY <2>6 DEF Create, At, TypeOK, Borrowed
  <2>7. CASE RestoreDrive(s)
    BY <2>7 DEF RestoreDrive, At, TypeOK, Borrowed
  <2>8. CASE ExecuteThrows(s)
    BY <2>8 DEF ExecuteThrows, Stops, At, TypeOK, server, Borrowed
  <2>9. QED BY <2>1, <2>2, <2>3, <2>4, <2>5, <2>6, <2>7, <2>8 DEF Serves
<1>3. QED BY <1>1, <1>2 DEF Borrowed

\* KernelService.cpp:73-90: a server that looks for work has its own group and directory again, and
\* a program is created in the directory of the client that asked for it, whoever else was killed
\* and however the servers take turns.
THEOREM ServersComeBack == Spec => []ServerIsItself
<1>1. Init => Borrowed
  BY ActorsAssumption DEF Init, Borrowed
<1>2. TypeOK /\ Borrowed /\ [Next]_vars => Borrowed'
  <2> SUFFICES ASSUME TypeOK, Borrowed, [Next]_vars PROVE Borrowed'
    OBVIOUS
  <2>1. ASSUME NEW p \in Proc, Calls(p) \/ Continues(p) PROVE Borrowed'
    <3>1. UNCHANGED <<job, group, drive>> /\ \A s \in Server : pc'[s] = pc[s]
      <4>1. CASE Calls(p)
        BY <4>1, ActorsAssumption
           DEF Calls, PageFault, Kill, AddRequest, Enqueue, Sleeps, At, TypeOK, server
      <4>2. CASE Continues(p)
        BY <4>2, ActorsAssumption
           DEF Continues, WaitOnKernelService, WakeUp, Remove, GoOn, Sleeps, At, TypeOK, server
      <4>3. QED BY <2>1, <4>1, <4>2
    <3>2. QED BY <3>1 DEF Borrowed
  <2>2. ASSUME NEW s \in Server, Serves(s) PROVE Borrowed'
    BY <2>2, BorrowingKeeps
  <2>3. CASE (\E s \in Server : SleepsIdle(s)) \/ UNCHANGED vars
    BY <2>3 DEF SleepsIdle, vars, Borrowed
  <2>4. QED BY <2>1, <2>2, <2>3 DEF Next
<1>3. Borrowed => ServerIsItself
  BY DEF Borrowed, ServerIsItself
<1>4. QED BY <1>1, <1>2, <1>3, TypeCorrect, PTL DEF Spec
=============================================================================
