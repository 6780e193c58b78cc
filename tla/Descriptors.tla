----------------------------- MODULE Descriptors -----------------------------
(***************************************************************************)
(* The descriptor tables of the processes.  A descriptor is of a file or a *)
(* stream buffer, or it redirects to a descriptor of this or of another    *)
(* process, which it names by process and number and not by address.  A    *)
(* count in each descriptor keeps what others redirect to from being       *)
(* closed.                                                                 *)
(*                                                                         *)
(* A redirect raises the count of the descriptor it was made from, and     *)
(* closing it lowers the count of the last descriptor of the chain.  The   *)
(* two are the same only for a redirect to what is not itself one.         *)
(***************************************************************************)
EXTENDS Integers, FiniteSets

CONSTANTS
  User,      \* processes with a parent
  Root,      \* the kernel's root process
  MaxFd,     \* bound on the numbers a table hands out
  MaxOpen    \* PROC_SYS_MAX_OPEN_FILES

ASSUME DescriptorAssumption == /\ Root \notin User /\ IsFiniteSet(User)
                               /\ MaxFd \in Nat /\ MaxFd >= 2 /\ MaxOpen \in Nat

STDIN == 0
STDOUT == 1
STDERR == 2
MinCount == -1   \* bounds on counts, which exits leave too high and failed closes too low
MaxCount == 3

VARIABLES
  tableOf,    \* _iodMap of each process
  nextFd,     \* _fdIdCounter of each process
  alive,      \* the processes in the process map
  crossed     \* a redirect to a redirect was closed, or a standard stream replaced

descriptorVars == <<tableOf, nextFd, alive, crossed>>

Owner == User \cup {Root}
Fd == 0 .. MaxFd
Handle == Owner \X Fd
Nowhere == <<Root, -1>>   \* what a file or a buffer redirects to

DescriptorsTypeOK ==
  /\ \A p \in Owner : /\ DOMAIN tableOf[p] \subseteq Fd
                      /\ \A fd \in DOMAIN tableOf[p] :
                           tableOf[p][fd] \in [count : Int, to : Handle \cup {Nowhere}]
  /\ nextFd \in [Owner -> 0 .. MaxFd + 1]
  /\ alive \subseteq Owner /\ Root \in alive
  /\ crossed \in BOOLEAN

-----------------------------------------------------------------------------
Exists(h) == h[1] \in alive /\ h[2] \in DOMAIN tableOf[h[1]]
Iod(h) == tableOf[h[1]][h[2]]
Redirects(h) == Iod(h).to # Nowhere

Stream == [count |-> 1, to |-> Nowhere]
RedirectTo(h) == [count |-> 1, to |-> h]

\* getRealNonDupped: the end of a chain, or Nowhere when a process or a descriptor of it is
\* gone.  A chain that is longer than all descriptors goes round for ever.
MaxHops == Cardinality(Owner) * (MaxFd + 1)
RealOf(h) ==
  LET Follow[n \in 0 .. MaxHops] ==    \* after n redirects
        IF n = 0 THEN h
        ELSE LET at == Follow[n - 1]
             IN  IF at # Nowhere /\ Exists(at) /\ Redirects(at) THEN Iod(at).to ELSE at
      end == Follow[MaxHops]
  IN  IF Exists(end) /\ ~Redirects(end) THEN end ELSE Nowhere

Put(t, h, d) == [t EXCEPT ![h[1]] = [fd \in DOMAIN @ \cup {h[2]} |-> IF fd = h[2] THEN d ELSE @[fd]]]
Drop(t, h) == [t EXCEPT ![h[1]] = [fd \in DOMAIN @ \ {h[2]} |-> @[fd]]]
Count(t, h, by) == [t EXCEPT ![h[1]][h[2]].count = @ + by]

\* FileOperations_Open and the event streams of a GUI process: a new number every time.
Open(p) ==
  /\ p \in alive /\ nextFd[p] <= MaxFd
  /\ Cardinality(DOMAIN tableOf[p]) < MaxOpen
  /\ tableOf' = Put(tableOf, <<p, nextFd[p]>>, Stream)
  /\ nextFd' = [nextFd EXCEPT ![p] = @ + 1]
  /\ UNCHANGED <<alive, crossed>>

\* The parent's three standard descriptors, for as many of them as it still has: the
\* constructor throws at the first that is missing, and the child never exists.
Inherited(p) == {fd \in {STDIN, STDOUT, STDERR} :
                   \A lower \in 0 .. fd : lower \in DOMAIN tableOf[p]}

StartProcess(p, c) ==
  LET Row(fd) == IF fd \in Inherited(p) THEN [tableOf[p][fd] EXCEPT !.count = @ + 1] ELSE tableOf[p][fd]
      counted == [tableOf EXCEPT ![p] = [fd \in DOMAIN tableOf[p] |-> Row(fd)]]
  IN  /\ p \in alive /\ c \in User \ alive /\ nextFd[c] = 0
      /\ nextFd' = [nextFd EXCEPT ![c] = 3]
      /\ IF Cardinality(Inherited(p)) = 3
           THEN /\ alive' = alive \cup {c}
                /\ tableOf' = [counted EXCEPT ![c] = [fd \in Inherited(p) |-> RedirectTo(<<p, fd>>)]]
           ELSE /\ tableOf' = counted
                /\ UNCHANGED alive
      /\ UNCHANGED crossed

\* Mutation of Closable: an off-by-one in the check of the count.
ClosableShared(h) == Exists(h) /\ Iod(h).count <= 2
Closable(h) == Exists(h) /\ Iod(h).count <= 1

\* What free leaves behind: the end of the chain counts one less.
Freed(h) ==
  IF Redirects(h) THEN Count(Drop(tableOf, h), RealOf(h), -1) ELSE Drop(tableOf, h)

Breaks(h) == Redirects(h) /\ RealOf(h) = Nowhere
Crosses(h) == Redirects(h) /\ RealOf(h) # Iod(h).to

Close(h) ==
  /\ h[1] \in alive /\ Closable(h) /\ Iod(h).count > MinCount
  /\ IF Breaks(h)
       THEN tableOf' = Count(tableOf, h, -1)   \* throws after its own count was lowered
       ELSE tableOf' = Freed(h)
  /\ crossed' = (crossed \/ Crosses(h))
  /\ UNCHANGED <<nextFd, alive>>

\* dup2 onto itself frees the descriptor and then finds that it names itself.
Dup2(p, old, new) ==
  /\ p \in alive /\ Exists(<<p, old>>) /\ Closable(<<p, new>>) /\ ~Breaks(<<p, new>>)
  /\ tableOf' = IF old = new THEN Freed(<<p, new>>)
                ELSE Put(Count(Freed(<<p, new>>), <<p, old>>, 1), <<p, new>>, RedirectTo(<<p, old>>))
  /\ crossed' = (crossed \/ Crosses(<<p, new>>))
  /\ UNCHANGED <<nextFd, alive>>

\* setupStreamedStdio: whatever its two first descriptors were, and whoever uses them.
SetupAsTty(p) ==
  /\ p \in alive \cap User
  /\ tableOf' = Put(Put(tableOf, <<p, STDIN>>, Stream), <<p, STDOUT>>, Stream)
  /\ crossed' = TRUE
  /\ UNCHANGED <<nextFd, alive>>

\* The table goes with its process, and lowers no count.
ExitProcess(p) ==
  /\ p \in alive \cap User
  /\ alive' = alive \ {p}
  /\ tableOf' = [tableOf EXCEPT ![p] = [fd \in {} |-> Stream]]
  /\ UNCHANGED <<nextFd, crossed>>

-----------------------------------------------------------------------------
\* The root process has two stream buffers, and its third descriptor redirects to the second.
RootTable == [fd \in {STDIN, STDOUT, STDERR} |->
                CASE fd = STDIN -> Stream
                  [] fd = STDOUT -> [Stream EXCEPT !.count = 2]
                  [] fd = STDERR -> RedirectTo(<<Root, STDOUT>>)]

DescriptorsInit ==
  /\ tableOf = [p \in Owner |-> IF p = Root THEN RootTable ELSE [fd \in {} |-> Stream]]
  /\ nextFd = [p \in Owner |-> IF p = Root THEN 3 ELSE 0]
  /\ alive = {Root}
  /\ crossed = FALSE

DescriptorCalls(p) ==
  \/ Open(p)
  \/ \E c \in User : StartProcess(p, c)
  \/ \E fd \in Fd : Close(<<p, fd>>)
  \/ \E old, new \in Fd : Dup2(p, old, new)
  \/ SetupAsTty(p) \/ ExitProcess(p)

\* Once the counts are crossed, nothing more is said.
Bounded == \A p \in Owner : \A fd \in DOMAIN tableOf[p] : tableOf[p][fd].count <= MaxCount
DescriptorsNext == ~crossed /\ Bounded /\ \E p \in Owner : DescriptorCalls(p)
DescriptorsSpec == DescriptorsInit /\ [][DescriptorsNext]_descriptorVars

-----------------------------------------------------------------------------
(* Properties *)

RedirectsTo(h) == {x \in Handle : Exists(x) /\ Iod(x).to = h}

\* As long as nobody closes a redirect to a redirect and no standard stream is replaced, every
\* descriptor counts itself and every redirect to it, whichever processes opened, duplicated,
\* closed and exited in which order: no close can take a descriptor away from a redirect.
CountsCoverRedirects ==
  ~crossed => \A h \in Handle : Exists(h) => Iod(h).count >= 1 + Cardinality(RedirectsTo(h))
=============================================================================
