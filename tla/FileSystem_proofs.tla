-------------------------- MODULE FileSystem_proofs --------------------------
(***************************************************************************)
(* For every number of nodes and of table blocks, and all sizes of cache,  *)
(* pool and batch.                                                         *)
(*                                                                         *)
(* The drive: a mounted one may lag behind the cache, but only in blocks   *)
(* that have a write count, and every way a block leaves the cache or the  *)
(* drive is unmounted writes these.  Calls that touch the table begin and  *)
(* stay on a mounted drive.                                                *)
(*                                                                         *)
(* The chains: each used sector is claimed by one node, one sector or the  *)
(* write that has taken it and not linked it yet, and by nothing else; the *)
(* call in progress is at the end of its chain, or at the first sector     *)
(* that is left of it; the pool and the part of the table that             *)
(* LoadFreeSectors has seen agree; the counts are right.  Every step is    *)
(* one of a few moves of such a table (taking, linking, freeing a sector), *)
(* about which there are lemmas that know nothing of cache and drive: a    *)
(* step of the code makes the move because an access changes just the one  *)
(* entry it is for, whichever block makes place.                           *)
(***************************************************************************)
EXTENDS FileSystem, FiniteSetTheorems, SequenceTheorems, WellFoundedInduction, TLAPS

\* op has the fields of Op, whatever is in them.
OpIsRecord == op \in [kind : {op.kind}, step : {op.step}, node : {op.node}, at : {op.at},
                      new : {op.new}, first : {op.first}, scan : {op.scan}]

\* Only blocks in the cache have a write count.
WrittenIsCached == written \subseteq cached

\* A cached block without one is as on the drive.
CleanIsSaved ==
  Trusted => \A s \in Sector : BlockOf(s) \in cached \ written => copy[s] = drive[s]

\* Reads, writes, deletes and UnMount run on a mounted drive to their end; while Format runs,
\* nothing is said of the table.
CallsAreMounted ==
  /\ op.kind \in {"write", "delete", "unmount"} => mounted
  /\ op.step \in {"link", "data", "mark", "flush"} => op.kind \in {"write", "delete", "unmount"}
  /\ op.step = "table" => trouble # "none"

TableSaved == WrittenIsCached /\ CleanIsSaved /\ UnmountedIsSaved
IInv == OpIsRecord /\ CallsAreMounted /\ TableSaved

\* What an access reads or writes: the block it brings in and the one it throws out leave the
\* rest of the cache as near to the drive as before.
LEMMA AccessKeeps ==
  ASSUME TableSaved, mounted, UNCHANGED mounted, NEW s, NEW v, Access(s, v),
         \/ v = Entry(s) /\ written' = written \ Evicted(BlockOf(s))
         \/ written' = (written \ Evicted(BlockOf(s))) \cup {BlockOf(s)},
         Trusted' => Trusted
  PROVE  TableSaved'
<1> DEFINE b == BlockOf(s)
           E == Evicted(b)
<1>1. /\ drive' = [t \in Sector |-> IF BlockOf(t) \in E \cap written THEN copy[t] ELSE drive[t]]
      /\ cached' = (cached \ E) \cup {b}
      /\ copy' = [t \in Sector |-> IF t = s THEN v
                                   ELSE IF BlockOf(t) = b THEN Entry(t)
                                   ELSE IF BlockOf(t) \in E THEN Free ELSE copy[t]]
  BY DEF Access, FlushedBlocks
<1>2. b \in cached => E = {}
  BY DEF Evicted
<1> HIDE DEF b, E
<1>3. (written' = written \ E /\ v = Entry(s)) \/ written' = (written \ E) \cup {b}
  BY DEF b, E
<1>4. WrittenIsCached'
  BY <1>1, <1>3 DEF TableSaved, WrittenIsCached
<1>5. ASSUME Trusted', NEW t \in Sector, BlockOf(t) \in cached' \ written'
      PROVE  copy'[t] = drive'[t]
  <2>1. CASE BlockOf(t) = b
    <3>1. copy'[t] = Entry(t) /\ BlockOf(t) \notin E \cap written
      BY <1>1, <1>2, <1>3, <1>5, <2>1 DEF TableSaved, WrittenIsCached
    <3>2. Entry(t) = drive[t]
      <4>1. CASE b \in cached
        BY <1>2, <1>3, <1>5, <2>1, <4>1 DEF TableSaved, CleanIsSaved, Entry
      <4>2. CASE b \notin cached
        BY <2>1, <4>2 DEF Entry
      <4>3. QED BY <4>1, <4>2
    <3>3. QED BY <1>1, <3>1, <3>2
  <2>2. CASE BlockOf(t) # b
    <3>1. BlockOf(t) \in cached \ written /\ BlockOf(t) \notin E
      BY <1>1, <1>3, <1>5, <2>2
    <3>2. t # s
      BY <2>2 DEF b
    <3>3. QED BY <1>1, <1>5, <2>2, <3>1, <3>2 DEF TableSaved, CleanIsSaved
  <2>3. QED BY <2>1, <2>2
<1>6. QED BY <1>4, <1>5 DEF TableSaved, CleanIsSaved, UnmountedIsSaved

LEMMA InitHolds == Init => IInv
BY DEF Init, IInv, OpIsRecord, CallsAreMounted, TableSaved, WrittenIsCached, CleanIsSaved,
   UnmountedIsSaved, Entry, Idle

\* Most steps leave the table alone, on the drive and in the cache.
LEMMA UntouchedKeeps ==
  ASSUME TableSaved, UNCHANGED <<drive, cache>>, Trusted' => Trusted,
         mounted' = mounted \/ ~mounted
  PROVE  TableSaved'
BY DEF TableSaved, WrittenIsCached, CleanIsSaved, UnmountedIsSaved, Entry, cache

LEMMA Reading ==
  ASSUME TableSaved, mounted, UNCHANGED mounted, NEW s, GetSectorEntryValue(s), Trusted' => Trusted
  PROVE  TableSaved'
BY AccessKeeps DEF GetSectorEntryValue

LEMMA Writing ==
  ASSUME TableSaved, mounted, UNCHANGED mounted, NEW s, NEW v, SetSectorEntryValue(s, v),
         Trusted' => Trusted
  PROVE  TableSaved'
BY AccessKeeps DEF SetSectorEntryValue

\* UnMount writes every block with a write count.
LEMMA FlushKeeps ==
  ASSUME TableSaved, drive' = FlushedBlocks(cached), UNCHANGED <<cache, trouble>>
  PROVE  TableSaved'
BY DEF TableSaved, WrittenIsCached, CleanIsSaved, UnmountedIsSaved, Entry, cache, FlushedBlocks,
   Trusted

LEMMA FlushFailsKeeps == ASSUME IInv, FlushFails PROVE TableSaved'
<1>1. mounted
  BY DEF IInv, CallsAreMounted, FlushFails
<1>2. PICK b \in cached \cap written :
        /\ drive' = FlushedBlocks({c \in cached : c < b})
        /\ \/ UNCHANGED <<cache, pool, used, mounted>> /\ Throw(FALSE)
           \/ Boot /\ Throw(TRUE)
  BY DEF FlushFails
<1>3. CASE UNCHANGED <<cache, pool, used, mounted>> /\ Throw(FALSE)
  BY <1>1, <1>2, <1>3 DEF IInv, TableSaved, WrittenIsCached, CleanIsSaved, UnmountedIsSaved,
     cache, FlushedBlocks, Throw, Trusted
<1>4. CASE Boot /\ Throw(TRUE)
  BY <1>4 DEF TableSaved, WrittenIsCached, CleanIsSaved, UnmountedIsSaved, Boot, Throw, Trusted
<1>5. QED BY <1>2, <1>3, <1>4

LEMMA FormatKeeps == ASSUME IInv, Format PROVE TableSaved'
<1>1. WrittenIsCached'
  BY DEF IInv, Format, TableSaved, WrittenIsCached, cache
<1>2. Trusted' => cached' = {}
  BY DEF IInv, CallsAreMounted, Format, Trusted, cache
<1>3. QED BY <1>1, <1>2 DEF TableSaved, CleanIsSaved, UnmountedIsSaved, Entry

LEMMA HalfFormatKeeps == ASSUME IInv, BeginFormat \/ FormatBlock \/ FormatFails PROVE TableSaved'
<1>1. ~Trusted'
  BY DEF IInv, CallsAreMounted, BeginFormat, FormatBlock, FormatFails, Trusted
<1>2. WrittenIsCached'
  BY DEF IInv, BeginFormat, FormatBlock, FormatFails, TableSaved, WrittenIsCached, cache
<1> QED BY <1>1, <1>2 DEF TableSaved, CleanIsSaved, UnmountedIsSaved

LEMMA RebootKeeps == ASSUME IInv, Reboot PROVE TableSaved'
BY DEF IInv, Reboot, Boot, TableSaved, WrittenIsCached, CleanIsSaved, UnmountedIsSaved, Trusted,
   Entry

\* The steps by what they do to the table and to the drive.
LEMMA StepKeepsTable == ASSUME IInv, Step PROVE TableSaved'
<1> USE DEF IInv
<1> SUFFICES ASSUME ~Format PROVE TableSaved'
  BY FormatKeeps
<1>1. Trusted' => Trusted
  BY DEF Step, CallsAreMounted, BeginFormat, FormatBlock, FormatFails, Walk, WalkEnds, WalkFails,
     CacheLookup, SkipCached, ReadBatch, ScanEnds, ScanFails,
     NoFreeSectors, AllocateSector, AllocateFails, LinkFirst, LinkNext, LinkFails, WriteData,
     WriteDataFails, DeAllocateSector, DeAllocateFails, MarkAsDeleted, MarkFails, Mount,
     MountFails, ReadRootDirectory, WriteFSBootBlock, FlushTableCache, FlushFails, Reboot,
     AccessFails, Throw, Trusted
<1>2. CASE Walk
  BY <1>1, <1>2, Reading DEF Walk, CallsAreMounted
<1>3. CASE AllocateSector
  BY <1>1, <1>3, Writing DEF AllocateSector, Ready, CallsAreMounted
<1>4. CASE LinkNext
  BY <1>1, <1>4, Writing DEF LinkNext, CallsAreMounted
<1>5. CASE DeAllocateSector
  BY <1>1, <1>5, Writing DEF DeAllocateSector, CallsAreMounted
<1>6. CASE FlushTableCache
  BY <1>6, FlushKeeps DEF FlushTableCache
<1>7. CASE FlushFails \/ Reboot \/ BeginFormat \/ FormatBlock \/ FormatFails
  BY <1>7, FlushFailsKeeps, HalfFormatKeeps, RebootKeeps
<1>8. CASE WalkFails \/ LinkFails \/ DeAllocateFails
  BY <1>1, <1>8, UntouchedKeeps DEF WalkFails, LinkFails, DeAllocateFails, AccessFails, cache
<1>9. CASE \/ WalkEnds \/ CacheLookup \/ SkipCached \/ ReadBatch \/ ScanEnds \/ ScanFails
           \/ NoFreeSectors \/ AllocateFails \/ LinkFirst \/ WriteData \/ WriteDataFails
           \/ MarkAsDeleted \/ MarkFails
  BY <1>1, <1>9, UntouchedKeeps DEF WalkEnds, CacheLookup, SkipCached, ReadBatch, ScanEnds,
     ScanFails, NoFreeSectors, AllocateFails, LinkFirst, WriteData, WriteDataFails,
     MarkAsDeleted, MarkFails
<1>10. CASE Mount \/ MountFails \/ ReadRootDirectory \/ WriteFSBootBlock
  BY <1>1, <1>10, UntouchedKeeps DEF Mount, MountFails, ReadRootDirectory, WriteFSBootBlock
<1>11. QED
  BY <1>2, <1>3, <1>4, <1>5, <1>6, <1>7, <1>8, <1>9, <1>10 DEF Step

\* No call that uses the table goes on after the drive has been unmounted.
LEMMA StepKeepsCalls ==
  ASSUME IInv, Step
  PROVE  /\ (OpIsRecord /\ CallsAreMounted)'
         /\ op'.step = "table" => BeginFormat \/ FormatBlock
<1> USE DEF IInv, OpIsRecord, CallsAreMounted
<1>1. CASE Walk
  BY <1>1 DEF Walk
<1>2. CASE WalkEnds \/ MarkAsDeleted \/ MountFails \/ ReadRootDirectory \/ FlushTableCache
  BY <1>2 DEF WalkEnds, MarkAsDeleted, MountFails, ReadRootDirectory, FlushTableCache, Idle
<1>3. CASE WalkFails \/ LinkFails \/ DeAllocateFails
  BY <1>3 DEF WalkFails, LinkFails, DeAllocateFails, AccessFails, Throw, Idle
<1>4. CASE ScanFails \/ NoFreeSectors \/ WriteDataFails \/ MarkFails
  BY <1>4 DEF ScanFails, NoFreeSectors, WriteDataFails, MarkFails, Throw, Idle
<1>5. CASE AllocateFails
  BY <1>5 DEF AllocateFails, Throw, Idle
<1>6. CASE CacheLookup \/ SkipCached \/ ReadBatch \/ ScanEnds
  BY <1>6 DEF CacheLookup, SkipCached, ReadBatch, ScanEnds, Loaded
<1>7. CASE AllocateSector \/ LinkFirst \/ LinkNext
  BY <1>7 DEF AllocateSector, Ready, LinkFirst, LinkNext
<1>8. CASE WriteData
  <2>1. CASE op' = Idle
    BY <2>1 DEF Idle
  <2>2. CASE op' = [op EXCEPT !.step = "alloc", !.at = op.new, !.new = EOC]
    <3>1. op'.kind = op.kind /\ op'.step = "alloc" /\ OpIsRecord'
      BY <2>2
    <3>2. QED BY <1>8, <3>1 DEF WriteData
  <2>3. QED BY <1>8, <2>1, <2>2 DEF WriteData
<1>9. CASE DeAllocateSector
  BY <1>9 DEF DeAllocateSector
<1>10. CASE Mount
  BY <1>10 DEF Mount, Idle
<1>11. CASE WriteFSBootBlock
  BY <1>11 DEF WriteFSBootBlock, Idle
<1>12. CASE FlushFails
  BY <1>12 DEF FlushFails, Throw, Idle
<1>13. CASE Reboot \/ Format \/ FormatFails
  BY <1>13 DEF Reboot, Format, FormatFails, Idle
<1>14. CASE BeginFormat \/ FormatBlock
  BY <1>14 DEF BeginFormat, FormatBlock, Idle
<1>15. QED
  BY <1>14, <1>1, <1>2, <1>3, <1>4, <1>5, <1>6, <1>7, <1>8, <1>9, <1>10, <1>11, <1>12, <1>13 DEF Step

LEMMA BeginKeeps == ASSUME IInv, NEW n, BeginWrite(n) \/ BeginDelete(n) PROVE IInv'
<1>1. (OpIsRecord /\ CallsAreMounted)'
  <2>1. CASE BeginWrite(n)
    <3>1. op'.kind = "write" /\ op'.step \in {"alloc", "walk"} /\ OpIsRecord'
      BY <2>1 DEF BeginWrite, OpIsRecord, Idle
    <3>2. QED BY <2>1, <3>1 DEF BeginWrite, CallsAreMounted
  <2>2. CASE BeginDelete(n)
    <3>1. op'.kind = "delete" /\ op'.step = "free" /\ OpIsRecord'
      BY <2>2 DEF BeginDelete, OpIsRecord, Idle
    <3>2. QED BY <2>2, <3>1 DEF BeginDelete, CallsAreMounted
  <2>3. QED BY <2>1, <2>2
<1>2. TableSaved'
  BY UntouchedKeeps DEF IInv, BeginWrite, BeginDelete, Trusted
<1>3. QED BY <1>1, <1>2 DEF IInv

LEMMA NextKeeps == IInv /\ [Next]_vars => IInv'
<1> SUFFICES ASSUME IInv, [Next]_vars PROVE IInv'
  OBVIOUS
<1>1. CASE \E n \in Node : BeginWrite(n) \/ BeginDelete(n)
  BY <1>1, BeginKeeps
<1>2. CASE Step
  BY <1>2, StepKeepsTable, StepKeepsCalls DEF IInv
<1>3. CASE UNCHANGED vars
  BY <1>3 DEF vars, cache, IInv, OpIsRecord, CallsAreMounted, TableSaved, WrittenIsCached,
     CleanIsSaved, UnmountedIsSaved, Trusted, Entry
<1>4. QED BY <1>1, <1>2, <1>3 DEF Next, Stop

\* The table of an unmounted drive is on the drive: whatever was written, evicted, flushed or
\* interrupted by an exception, UnMount (FileSystem.cpp, FlushTableCache) leaves nothing that
\* only the cache has.
THEOREM UnmountSaves == Spec => []UnmountedIsSaved
<1>1. Init => IInv
  BY InitHolds
<1>2. IInv /\ [Next]_vars => IInv'
  BY NextKeeps
<1>3. IInv => UnmountedIsSaved
  BY DEF IInv, TableSaved
<1>4. QED BY <1>1, <1>2, <1>3, PTL DEF Spec

\* While the drive is mounted, it lags behind the cache only in blocks with a write count, which
\* are the only ones that AddToTableCache and FlushTableCache write back.
THEOREM CleanBlocksAreSaved == Spec => [](WrittenIsCached /\ CleanIsSaved)
<1>1. Init => IInv
  BY InitHolds
<1>2. IInv /\ [Next]_vars => IInv'
  BY NextKeeps
<1>3. IInv => WrittenIsCached /\ CleanIsSaved
  BY DEF IInv, TableSaved
<1>4. QED BY <1>1, <1>2, <1>3, PTL DEF Spec

-----------------------------------------------------------------------------
(* Sets of numbers in ascending order *)

LEMMA LeastIsThere ==
  ASSUME NEW S \in SUBSET Nat, S # {}
  PROVE  \E x \in S : \A y \in S : x <= y
<1> DEFINE R == {ss \in Nat \X Nat : ss[1] < ss[2]}
<1>1. IsWellFoundedOn(R, Nat)
  BY NatLessThanWellFounded DEF OpToRel
<1>2. PICK x \in S : \A y \in S : ~(<<y, x>> \in R)
  BY <1>1, WFMin
<1>3. \A y \in S : x <= y
  <2> SUFFICES ASSUME NEW y \in S PROVE x <= y
    OBVIOUS
  <2>1. ~(<<y, x>> \in R) /\ x \in Nat /\ y \in Nat
    BY <1>2
  <2> QED BY <2>1
<1> QED BY <1>3

\* How many elements of S are less than s.
Below(S, s) == {t \in S : t < s}
Rank(S, s) == Cardinality(Below(S, s))

LEMMA Ranks ==
  ASSUME NEW S \in SUBSET Nat, IsFiniteSet(S)
  PROVE  /\ Cardinality(S) \in Nat
         /\ \A s \in S : Rank(S, s) \in 0 .. Cardinality(S) - 1
         /\ \A s, t \in S : s < t => Rank(S, s) < Rank(S, t)
<1>1. Cardinality(S) \in Nat
  BY FS_CardinalityType
<1>2. ASSUME NEW s \in S
      PROVE  IsFiniteSet(Below(S, s)) /\ Rank(S, s) \in 0 .. Cardinality(S) - 1
  <2>1. Below(S, s) \in SUBSET (S \ {s})
    BY DEF Below
  <2>2. IsFiniteSet(S \ {s}) /\ Cardinality(S \ {s}) = Cardinality(S) - 1
    BY FS_RemoveElement
  <2>3. IsFiniteSet(Below(S, s)) /\ Cardinality(Below(S, s)) <= Cardinality(S \ {s})
    BY <2>1, <2>2, FS_Subset
  <2>4. Cardinality(Below(S, s)) \in Nat
    BY <2>3, FS_CardinalityType
  <2> QED BY <1>1, <2>2, <2>3, <2>4 DEF Rank
<1>3. ASSUME NEW s \in S, NEW t \in S, s < t PROVE Rank(S, s) < Rank(S, t)
  <2>1. Below(S, s) \cup {s} \in SUBSET Below(S, t) /\ s \notin Below(S, s)
    <3>1. s \in Nat /\ t \in Nat
      OBVIOUS
    <3>2. \A u \in Below(S, s) : u \in S /\ u < t
      <4>1. \A u \in S : u \in Nat /\ (u < s => u < t)
        BY <1>3, <3>1
      <4> QED BY <4>1 DEF Below
    <3>3. ~(s < s)
      BY <3>1
    <3> QED BY <1>3, <3>2, <3>3 DEF Below
  <2>2. Cardinality(Below(S, s) \cup {s}) = Cardinality(Below(S, s)) + 1
    BY <1>2, <2>1, FS_AddElement
  <2>3. Cardinality(Below(S, s) \cup {s}) <= Cardinality(Below(S, t))
    BY <1>2, <2>1, FS_Subset
  <2>4. Rank(S, s) \in Int /\ Rank(S, t) \in Int
    BY <1>2
  <2> QED BY <2>2, <2>3, <2>4 DEF Rank
<1> QED BY <1>1, <1>2, <1>3

\* Each rank is somebody's.
LEMMA RanksAreTaken ==
  ASSUME NEW S \in SUBSET Nat, IsFiniteSet(S), NEW k \in 0 .. Cardinality(S) - 1
  PROVE  \E s \in S : Rank(S, s) = k
<1> DEFINE L == {s \in S : Rank(S, s) < k}
<1>0. Cardinality(S) \in Nat /\ k \in Nat
  BY Ranks
<1>1. IsFiniteSet(L) /\ L \in SUBSET S
  BY FS_Subset
<1>2. Cardinality(L) <= k
  <2> DEFINE f == [s \in L |-> Rank(S, s)]
  <2>1. \A s \in L : f[s] \in 0 .. k - 1
    BY <1>0, Ranks
  <2>2. \A s, t \in L : f[s] = f[t] => s = t
    <3> SUFFICES ASSUME NEW s \in L, NEW t \in L, Rank(S, s) = Rank(S, t) PROVE s = t
      OBVIOUS
    <3>1. s \in Nat /\ t \in Nat /\ s \in S /\ t \in S
      OBVIOUS
    <3>2. Rank(S, s) \in Int /\ Rank(S, t) \in Int
      BY <3>1, Ranks
    <3>3. ~(s < t) /\ ~(t < s)
      BY <3>1, <3>2, Ranks
    <3> QED BY <3>1, <3>3
  <2>3. f \in Injection(L, 0 .. k - 1)
    BY <2>1, <2>2 DEF Injection, IsInjective
  <2>4. IsFiniteSet(0 .. k - 1) /\ Cardinality(0 .. k - 1) = k
    <3> DEFINE last == k - 1
    <3>1. 0 \in Int /\ last \in Int /\ (IF 0 > last THEN 0 ELSE last - 0 + 1) = k
      BY <1>0
    <3> HIDE DEF last
    <3>2. IsFiniteSet(0 .. last) /\ Cardinality(0 .. last) = k
      BY <3>1, FS_Interval
    <3> QED BY <3>2 DEF last
  <2> QED BY <2>3, <2>4, FS_Injection
<1>3. S \ L # {}
  <2>1. SUFFICES ASSUME S \ L = {} PROVE FALSE
    OBVIOUS
  <2>2. L = S
    BY <2>1, <1>1
  <2> QED BY <2>2, <1>0, <1>2
<1>4. PICK m \in S \ L : \A y \in S \ L : m <= y
  BY <1>3, LeastIsThere
<1>5. Below(S, m) \in SUBSET L
  <2> SUFFICES ASSUME NEW t \in S, t < m, t \notin L PROVE FALSE
    BY DEF Below
  <2>1. m <= t /\ m \in Nat /\ t \in Nat
    BY <1>4
  <2> QED BY <2>1
<1>6. Rank(S, m) <= k
  <2>1. Cardinality(Below(S, m)) <= Cardinality(L)
    BY <1>1, <1>5, FS_Subset
  <2>2. Cardinality(L) \in Nat /\ Rank(S, m) \in Int
    BY <1>1, FS_CardinalityType, Ranks
  <2> QED BY <1>0, <1>2, <2>1, <2>2 DEF Rank
<1>7. Rank(S, m) = k
  <2>1. Rank(S, m) \in Int /\ ~(Rank(S, m) < k)
    BY <1>4, Ranks
  <2> QED BY <1>0, <1>6, <2>1
<1> QED BY <1>7

\* Every element of S comes once.
LEMMA AscendingLists ==
  ASSUME NEW S \in SUBSET Nat, IsFiniteSet(S), NEW q, q = Ascending(S)
  PROVE  /\ q \in Seq(S)
         /\ \A i, j \in 1 .. Len(q) : q[i] = q[j] => i = j
         /\ \A s \in S : \E i \in 1 .. Len(q) : q[i] = s
<1> DEFINE n == Cardinality(S)
<1>1. n \in Nat
  BY Ranks
<1>2. q = [i \in 1 .. n |-> CHOOSE s \in S : Rank(S, s) = i - 1]
  BY DEF Ascending, Rank, Below
<1>3. ASSUME NEW i \in 1 .. n PROVE q[i] \in S /\ Rank(S, q[i]) = i - 1
  <2>1. i - 1 \in 0 .. n - 1
    BY <1>1
  <2>2. \E s \in S : Rank(S, s) = i - 1
    BY <2>1, RanksAreTaken
  <2>3. q[i] = CHOOSE s \in S : Rank(S, s) = i - 1
    BY <1>2
  <2> QED BY <2>2, <2>3
<1> HIDE DEF n
<1>4. q \in [1 .. n -> S]
  BY <1>2, <1>3
<1>5. q \in Seq(S) /\ Len(q) = n
  BY <1>1, <1>4
<1>6. ASSUME NEW i \in 1 .. n, NEW j \in 1 .. n, q[i] = q[j] PROVE i = j
  <2>1. i - 1 = j - 1
    BY <1>3, <1>6
  <2> QED BY <2>1, <1>1
<1>7. ASSUME NEW s \in S PROVE \E i \in 1 .. n : q[i] = s
  <2> DEFINE i == Rank(S, s) + 1
  <2>1. Rank(S, s) \in 0 .. n - 1
    BY Ranks DEF n
  <2>2. i \in 1 .. n /\ i - 1 = Rank(S, s)
    BY <1>1, <2>1
  <2> HIDE DEF i
  <2>3. q[i] \in S /\ Rank(S, q[i]) = Rank(S, s)
    BY <1>3, <2>2
  <2>4. q[i] = s
    <3> DEFINE x == q[i]
    <3>1. x \in S /\ x \in Nat /\ s \in Nat /\ Rank(S, x) = Rank(S, s)
      BY <2>3
    <3>2. Rank(S, s) \in Int /\ ~(Rank(S, s) < Rank(S, s))
      BY <2>1, <1>1
    <3> HIDE DEF x
    <3>3. ~(x < s) /\ ~(s < x)
      BY <3>1, <3>2, Ranks
    <3>4. x = s
      BY <3>1, <3>3
    <3> QED BY <3>4 DEF x
  <2> QED BY <2>2, <2>4
<1> QED BY <1>5, <1>6, <1>7

-----------------------------------------------------------------------------
(* Sectors, blocks and what the table has for each sector *)

LEMMA Sizes ==
  /\ EOC \in Nat /\ EOC > 0 /\ EOC \notin Sector /\ Root \in Sector /\ Root = 0 /\ Free = 0
  /\ EOC # Free /\ EOC \in Value /\ Free \in Value /\ Sector \subseteq Value /\ Sector \subseteq Nat
  /\ IsFiniteSet(Sector)
  /\ Value \ {EOC} = Sector
<1>1. EOC \in Nat /\ EOC > 0
  BY SizesAssumption DEF EOC
<1>2. Sector = 0 .. EOC - 1
  BY DEF Sector, EOC
<1>3. IsFiniteSet(Sector)
  <2> DEFINE last == EOC - 1
  <2>1. 0 \in Int /\ last \in Int
    BY <1>1
  <2> HIDE DEF last
  <2>2. IsFiniteSet(0 .. last)
    BY <2>1, FS_Interval
  <2> QED BY <2>2, <1>2 DEF last
<1> QED BY <1>1, <1>2, <1>3 DEF Root, Free, Value

LEMMA BlocksOfSectors == \A s \in Sector : BlockOf(s) \in Block
<1> SUFFICES ASSUME NEW s \in Sector PROVE BlockOf(s) \in Block
  OBVIOUS
<1> DEFINE b == s \div Entries
           n == Blocks
           e == Entries
<1>1. s \in Nat /\ s < n * e /\ n \in Nat /\ e \in Nat /\ e > 0
  BY SizesAssumption DEF Sector
<1>2. b \in Nat /\ e * b <= s
  BY <1>1
<1> HIDE DEF b, n, e
<1>3. b < n
  <2> SUFFICES ASSUME b >= n PROVE FALSE
    BY <1>1, <1>2
  <2>1. e * b >= e * n
    BY <1>1, <1>2
  <2>2. e * n = n * e /\ e * n \in Nat /\ e * b \in Nat
    BY <1>1, <1>2
  <2> QED BY <1>1, <1>2, <2>1, <2>2
<1> QED BY <1>1, <1>2, <1>3 DEF BlockOf, Block, b, n, e

-----------------------------------------------------------------------------
(* Types *)

\* The table and its cache, as far as TypeOK speaks of them.
TableTypeOK ==
  /\ drive \in [Sector -> Value] /\ copy \in [Sector -> Value]
  /\ cached \in SUBSET Block /\ written \in SUBSET cached /\ Cardinality(cached) <= MaxCache
  /\ \A s \in Sector : BlockOf(s) \notin cached => copy[s] = Free

\* Which calls are at which steps.
CallShape ==
  /\ op.kind = "none" => op = Idle
  /\ op.kind \in {"write", "delete"} <=> op.node \in Node
  /\ op.kind = "write" => op.step \in {"walk", "alloc", "scan", "take", "link", "data"}
  /\ op.kind = "delete" => op.step \in {"free", "mark"}
  /\ op.kind = "mount" => ~mounted /\ op.step \in {"lookup", "scan", "root"}
  /\ op.kind = "unmount" => op.step = "flush"
  /\ op.kind = "format" => op.step = "table"

LEMMA EntryType == ASSUME TypeOK, NEW s \in Sector PROVE Entry(s) \in Value
BY DEF TypeOK, Entry

LEMMA EvictedIs ==
  ASSUME TypeOK, NEW b
  PROVE  /\ Evicted(b) \in SUBSET cached
         /\ b \in cached => Evicted(b) = {}
         /\ IsFiniteSet(cached) /\ Cardinality(cached) \in Nat
         /\ Evicted(b) = {} \/ (Cardinality(cached) = MaxCache /\ \E c \in cached : Evicted(b) = {c})
         /\ b \notin cached /\ Evicted(b) = {} => Cardinality(cached) < MaxCache
<1>1. IsFiniteSet(cached) /\ cached \in SUBSET Nat
  <2> DEFINE last == Blocks - 1
  <2>1. 0 \in Int /\ last \in Int /\ cached \in SUBSET (0 .. last)
    BY SizesAssumption DEF TypeOK, Block
  <2> HIDE DEF last
  <2>2. IsFiniteSet(0 .. last)
    BY <2>1, FS_Interval
  <2>3. IsFiniteSet(cached)
    BY <2>1, <2>2, FS_Subset
  <2> QED BY <2>1, <2>3 DEF last
<1>2. Cardinality(cached) \in Nat /\ Cardinality(cached) <= MaxCache
  BY <1>1, FS_CardinalityType DEF TypeOK
<1>3. CASE b \notin cached /\ Cardinality(cached) = MaxCache
  <2>1. Evicted(b) = {Least(cached)}
    BY <1>3 DEF Evicted
  <2>2. cached # {}
    <3>1. Cardinality({}) = 0
      BY FS_EmptySet
    <3> QED BY <1>3, <3>1, SizesAssumption
  <2>3. \E x \in cached : \A y \in cached : x <= y
    BY <1>1, <2>2, LeastIsThere
  <2>4. Least(cached) \in cached
    BY <2>3 DEF Least
  <2> QED BY <1>1, <1>2, <1>3, <2>1, <2>4
<1>4. CASE ~(b \notin cached /\ Cardinality(cached) = MaxCache)
  <2>1. Evicted(b) = {}
    BY <1>4 DEF Evicted
  <2>2. b \notin cached => Cardinality(cached) < MaxCache
    BY <1>2, <1>4, SizesAssumption
  <2> QED BY <1>1, <1>2, <2>1, <2>2
<1> QED BY <1>3, <1>4

LEMMA AccessKeepsType ==
  ASSUME TypeOK, NEW s \in Sector, NEW v \in Value, Access(s, v),
         \/ written' = written \ Evicted(BlockOf(s))
         \/ written' = (written \ Evicted(BlockOf(s))) \cup {BlockOf(s)}
  PROVE  TableTypeOK'
<1> DEFINE b == BlockOf(s)
           E == Evicted(b)
<1>1. /\ drive' = [t \in Sector |-> IF BlockOf(t) \in E \cap written THEN copy[t] ELSE drive[t]]
      /\ cached' = (cached \ E) \cup {b}
      /\ copy' = [t \in Sector |-> IF t = s THEN v
                                   ELSE IF BlockOf(t) = b THEN Entry(t)
                                   ELSE IF BlockOf(t) \in E THEN Free ELSE copy[t]]
  BY DEF Access, FlushedBlocks
<1>2. /\ E \in SUBSET cached /\ (b \in cached => E = {})
      /\ IsFiniteSet(cached) /\ Cardinality(cached) \in Nat
      /\ E = {} \/ (Cardinality(cached) = MaxCache /\ \E c \in cached : E = {c})
      /\ b \notin cached /\ E = {} => Cardinality(cached) < MaxCache
  BY EvictedIs
<1>3. b \in Block
  BY BlocksOfSectors
<1>4. written' = written \ E \/ written' = (written \ E) \cup {b}
  OBVIOUS
<1>5. \A t \in Sector : Entry(t) \in Value
  BY EntryType
<1> HIDE DEF b, E
<1>6. /\ drive \in [Sector -> Value] /\ copy \in [Sector -> Value]
      /\ cached \in SUBSET Block /\ written \in SUBSET cached /\ Cardinality(cached) <= MaxCache
      /\ \A t \in Sector : BlockOf(t) \notin cached => copy[t] = Free
  BY DEF TypeOK
<1>7. drive' \in [Sector -> Value]
  BY <1>1, <1>6
<1>8. copy' \in [Sector -> Value]
  BY <1>1, <1>5, <1>6, Sizes
<1>9. cached' \in SUBSET Block /\ written' \in SUBSET cached'
  BY <1>1, <1>3, <1>4, <1>6
<1>10. Cardinality(cached') <= MaxCache
  <2>1. CASE b \in cached
    <3>1. cached' = cached
      BY <1>1, <1>2, <2>1
    <3> QED BY <3>1, <1>6
  <2>2. CASE b \notin cached /\ E = {}
    <3>1. cached' = cached \cup {b}
      BY <1>1, <2>2
    <3>2. Cardinality(cached \cup {b}) = Cardinality(cached) + 1
      BY <1>2, <2>2, FS_AddElement
    <3> QED BY <3>1, <3>2, <1>2, <2>2, SizesAssumption
  <2>3. CASE b \notin cached /\ E # {}
    <3>1. PICK c \in cached : E = {c}
      BY <1>2, <2>3
    <3>2. Cardinality(cached) = MaxCache
      BY <1>2, <2>3
    <3>3. IsFiniteSet(cached \ {c}) /\ Cardinality(cached \ {c}) = Cardinality(cached) - 1
      BY <1>2, <3>1, FS_RemoveElement
    <3>4. Cardinality((cached \ {c}) \cup {b}) = Cardinality(cached \ {c}) + 1
      <4> DEFINE C == cached \ {c}
      <4>1. b \notin C /\ IsFiniteSet(C)
        BY <2>3, <3>3
      <4> HIDE DEF C
      <4>2. Cardinality(C \cup {b}) = Cardinality(C) + 1
        BY <4>1, FS_AddElement
      <4> QED BY <4>2 DEF C
    <3>5. cached' = (cached \ {c}) \cup {b}
      BY <1>1, <3>1
    <3> QED BY <3>2, <3>3, <3>4, <3>5, <1>2, SizesAssumption
  <2> QED BY <2>1, <2>2, <2>3
<1>11. \A t \in Sector : BlockOf(t) \notin cached' => copy'[t] = Free
  <2> SUFFICES ASSUME NEW t \in Sector, BlockOf(t) \notin cached' PROVE copy'[t] = Free
    OBVIOUS
  <2>1. BlockOf(t) # b
    BY <1>1
  <2>2. t # s
    BY <2>1 DEF b
  <2>3. BlockOf(t) \in E \/ copy[t] = Free
    BY <1>1, <1>6
  <2> QED BY <1>1, <2>1, <2>2, <2>3
<1> QED BY <1>7, <1>8, <1>9, <1>10, <1>11 DEF TableTypeOK

LEMMA FlushedType == ASSUME TypeOK, NEW bs PROVE FlushedBlocks(bs) \in [Sector -> Value]
BY DEF FlushedBlocks, TypeOK

LEMMA TruncatedIs ==
  ASSUME NEW q \in Seq(Sector)
  PROVE  /\ Truncated(q) \in Seq(Sector)
         /\ Len(Truncated(q)) = IF Overfull(q) THEN MaxPool ELSE Len(q)
         /\ Len(Truncated(q)) <= MaxPool
         /\ \A i \in 1 .. Len(Truncated(q)) : i \in 1 .. Len(q) /\ Truncated(q)[i] = q[i]
<1> DEFINE n == Smaller(Len(q), MaxPool)
<1>1. n \in 0 .. Len(q) /\ n <= MaxPool /\ n = IF Overfull(q) THEN MaxPool ELSE Len(q)
  BY SizesAssumption DEF Smaller, Overfull
<1>2. Truncated(q) = SubSeq(q, 1, n)
  BY DEF Truncated
<1> HIDE DEF n
<1>3. /\ SubSeq(q, 1, n) \in Seq(Sector) /\ Len(SubSeq(q, 1, n)) = n
      /\ \A i \in 1 .. n : SubSeq(q, 1, n)[i] = q[i]
  BY <1>1
<1> QED BY <1>1, <1>2, <1>3

LEMMA FreeSectorsAre ==
  ASSUME NEW table, NEW bs, NEW q, q = FreeSectors(table, bs)
  PROVE  /\ q \in Seq(Sector)
         /\ \A i \in 1 .. Len(q) : table[q[i]] = Free /\ BlockOf(q[i]) \in bs
         /\ \A i, j \in 1 .. Len(q) : q[i] = q[j] => i = j
         /\ \A s \in Sector : table[s] = Free /\ BlockOf(s) \in bs => \E i \in 1 .. Len(q) : q[i] = s
<1> DEFINE S == {s \in Sector : table[s] = Free /\ BlockOf(s) \in bs}
<1>1. S \in SUBSET Nat /\ S \in SUBSET Sector /\ IsFiniteSet(S)
  BY Sizes, FS_Subset
<1>2. q = Ascending(S)
  BY DEF FreeSectors
<1>3. \A s : s \in S <=> s \in Sector /\ table[s] = Free /\ BlockOf(s) \in bs
  OBVIOUS
<1> HIDE DEF S
<1>4. /\ q \in Seq(S) /\ \A i, j \in 1 .. Len(q) : q[i] = q[j] => i = j
      /\ \A s \in S : \E i \in 1 .. Len(q) : q[i] = s
  BY <1>1, <1>2, AscendingLists
<1>5. \A i \in 1 .. Len(q) : q[i] \in S
  BY <1>4
<1>6. q \in Seq(Sector)
  <2>1. Len(q) \in Nat /\ q \in [1 .. Len(q) -> S]
    BY <1>4
  <2>2. q \in [1 .. Len(q) -> Sector]
    BY <1>1, <2>1
  <2> QED BY <2>1, <2>2
<1> QED BY <1>3, <1>4, <1>5, <1>6

\* The rest of TypeOK.
CallTypeOK ==
  /\ pool \in Seq(Sector) /\ Len(pool) <= MaxPool
  /\ used \in Int /\ boot \in Int /\ start \in [Node -> Value] /\ mounted \in BOOLEAN /\ op \in Op
  /\ trouble \in {"none", "partial", "stale", "formatting", "reformatted", "undefined"}

LEMMA TypeParts ==
  /\ TypeOK <=> TableTypeOK /\ CallTypeOK /\ calls \in 0 .. MaxCalls
  /\ TypeOK' <=> TableTypeOK' /\ CallTypeOK' /\ calls' \in 0 .. MaxCalls
BY DEF TypeOK, TableTypeOK, CallTypeOK

LEMMA IdleIs == /\ Idle \in Op /\ Idle.kind = "none" /\ Idle.step = "none" /\ Idle.node = NoNode
                /\ Idle.node \notin Node /\ Idle.at = EOC /\ Idle.new = EOC /\ Idle.first = EOC
BY Sizes, SizesAssumption, NodeAssumption DEF Idle, Op

LEMMA OpParts ==
  ASSUME op \in Op
  PROVE  /\ op.kind \in {"none", "write", "delete", "mount", "unmount", "format"}
         /\ op.step \in {"none", "walk", "alloc", "scan", "take", "link", "data", "free", "mark", "lookup",
                         "root", "flush", "table"}
         /\ op.node \in Node \cup {NoNode} /\ op.at \in Value /\ op.new \in Value /\ op.first \in Value
         /\ op.scan \in 0 .. Blocks
BY DEF Op

\* A call that ends, or that has failed.
LEMMA BecomesIdle == ASSUME op' = Idle PROVE op' \in Op /\ CallShape'
BY IdleIs DEF CallShape

LEMMA TableStaysTyped == ASSUME TypeOK, UNCHANGED <<drive, cache>> PROVE TableTypeOK'
BY DEF TypeOK, TableTypeOK, cache

LEMMA ThrowType == ASSUME TypeOK, NEW harm, Throw(harm) PROVE op' = Idle /\ trouble' \in {"none", "partial", "stale", "formatting", "reformatted", "undefined"}
BY DEF Throw, TypeOK

LEMMA PoolSteps ==
  ASSUME TypeOK, CallShape, op.step \in {"lookup", "alloc", "scan"}, op.kind \in {"write", "mount"},
         NEW scan \in 0 .. Blocks, NEW step \in {"scan", Loaded},
         op' = [op EXCEPT !.step = step, !.scan = scan], UNCHANGED mounted
  PROVE  op' \in Op /\ CallShape'
<1>1. op \in Op
  BY DEF TypeOK
<1>2. Loaded \in {"root", "take"} /\ (op.kind = "mount" => Loaded = "root") /\ (op.kind = "write" => Loaded = "take")
  BY DEF Loaded
<1> HIDE DEF Loaded
<1>3. /\ op'.kind = op.kind /\ op'.step = step /\ op'.node = op.node /\ op' \in Op
  BY <1>1, <1>2 DEF Op
<1> QED BY <1>2, <1>3 DEF CallShape

LEMMA WalkKeepsType == ASSUME TypeOK, CallShape, Walk PROVE TableTypeOK' /\ CallTypeOK' /\ CallShape'
<1>1. /\ op.kind = "write" /\ op.step = "walk" /\ op.at \in Sector
      /\ Access(op.at, Entry(op.at)) /\ written' = written \ Evicted(BlockOf(op.at))
      /\ op' = IF Entry(op.at) = EOC THEN [op EXCEPT !.step = "alloc"] ELSE [op EXCEPT !.at = Entry(op.at)]
      /\ UNCHANGED <<pool, used, boot, start, mounted, trouble>>
  BY DEF Walk, GetSectorEntryValue
<1>2. Entry(op.at) \in Value
  BY <1>1, EntryType
<1>3. TableTypeOK'
  BY <1>1, <1>2, AccessKeepsType
<1>4. op \in Op
  BY DEF TypeOK
<1>5. op' \in Op /\ CallShape'
  <2> DEFINE v == Entry(op.at)
  <2>1. v \in Value /\ op' = IF v = EOC THEN [op EXCEPT !.step = "alloc"] ELSE [op EXCEPT !.at = v]
    BY <1>1, <1>2
  <2> HIDE DEF v
  <2>2. op'.kind = op.kind /\ op'.step \in {"alloc", "walk"} /\ op'.node = op.node /\ op' \in Op
    BY <1>1, <1>4, <2>1 DEF Op
  <2> QED BY <1>1, <2>2 DEF CallShape
<1> QED BY <1>1, <1>3, <1>5 DEF TypeOK, CallTypeOK

LEMMA AllocateKeepsType == ASSUME TypeOK, CallShape, AllocateSector PROVE TableTypeOK' /\ CallTypeOK' /\ CallShape'
<1> DEFINE h == Head(pool)
<1>1. /\ op.kind = "write" /\ pool # <<>>
      /\ Access(h, EOC) /\ written' = (written \ Evicted(BlockOf(h))) \cup {BlockOf(h)}
      /\ pool' = Tail(pool) /\ used' = used + 1
      /\ op' = [op EXCEPT !.step = "link", !.new = h]
      /\ UNCHANGED <<boot, start, mounted, trouble>>
  BY DEF AllocateSector, Ready, SetSectorEntryValue
<1>2. h \in Sector /\ Tail(pool) \in Seq(Sector) /\ Len(Tail(pool)) <= MaxPool
  BY <1>1, SizesAssumption DEF TypeOK
<1> HIDE DEF h
<1>3. TableTypeOK'
  BY <1>1, <1>2, Sizes, AccessKeepsType
<1>4. op' \in Op /\ CallShape'
  <2>1. op \in Op /\ h \in Value
    BY <1>2, Sizes DEF TypeOK
  <2>2. op'.kind = op.kind /\ op'.step = "link" /\ op'.node = op.node /\ op' \in Op
    BY <1>1, <2>1 DEF Op
  <2> QED BY <1>1, <2>2 DEF CallShape
<1>5. used' \in Int
  BY <1>1 DEF TypeOK
<1> QED BY <1>1, <1>2, <1>3, <1>4, <1>5 DEF TypeOK, CallTypeOK

LEMMA LinkKeepsType == ASSUME TypeOK, CallShape, LinkFirst \/ LinkNext PROVE TableTypeOK' /\ CallTypeOK' /\ CallShape'
<1>1. op \in Op /\ op.step = "link" /\ UNCHANGED <<pool, used, boot, start, mounted, trouble>>
  BY DEF TypeOK, LinkFirst, LinkNext
<1>2. op.kind = "write" /\ op.new \in Value
  BY <1>1, OpParts, IdleIs DEF CallShape
<1>3. CASE LinkFirst
  <2>1. op' = [op EXCEPT !.step = "data", !.first = op.new] /\ UNCHANGED <<drive, cache>>
    BY <1>3 DEF LinkFirst
  <2>2. op'.kind = op.kind /\ op'.step = "data" /\ op'.node = op.node /\ op' \in Op
    BY <1>1, <1>2, <2>1 DEF Op
  <2>3. CallShape'
    BY <1>1, <1>2, <2>2 DEF CallShape
  <2> QED BY <1>1, <2>1, <2>2, <2>3, TableStaysTyped DEF TypeOK, CallTypeOK
<1>4. CASE LinkNext
  <2>1. /\ op.at \in Sector /\ Access(op.at, op.new)
        /\ written' = (written \ Evicted(BlockOf(op.at))) \cup {BlockOf(op.at)}
        /\ op' = [op EXCEPT !.step = "data"]
    BY <1>4 DEF LinkNext, SetSectorEntryValue
  <2>2. TableTypeOK'
    BY <1>2, <2>1, AccessKeepsType
  <2>3. op'.kind = op.kind /\ op'.step = "data" /\ op'.node = op.node /\ op' \in Op
    BY <1>1, <1>2, <2>1 DEF Op
  <2>4. CallShape'
    BY <1>1, <1>2, <2>3 DEF CallShape
  <2> QED BY <1>1, <2>2, <2>3, <2>4 DEF TypeOK, CallTypeOK
<1> QED BY <1>3, <1>4

LEMMA WriteDataKeepsType == ASSUME TypeOK, CallShape, WriteData PROVE TableTypeOK' /\ CallTypeOK' /\ CallShape'
<1>1. op \in Op /\ op.step = "data" /\ UNCHANGED <<drive, cache, pool, used, boot, mounted, trouble>>
  BY DEF TypeOK, WriteData
<1>2. op.kind = "write" /\ op.new \in Value /\ op.first \in Value /\ start \in [Node -> Value]
  BY <1>1, OpParts, IdleIs DEF CallShape, TypeOK
<1>3. TableTypeOK'
  BY <1>1, TableStaysTyped
<1>4. CASE op' = [op EXCEPT !.step = "alloc", !.at = op.new, !.new = EOC] /\ UNCHANGED start
  <2>1. op'.kind = op.kind /\ op'.step = "alloc" /\ op'.node = op.node /\ op' \in Op
    BY <1>1, <1>2, <1>4, Sizes DEF Op
  <2>2. CallShape'
    BY <1>1, <1>2, <2>1 DEF CallShape
  <2> QED BY <1>1, <1>3, <1>4, <2>1, <2>2 DEF TypeOK, CallTypeOK
<1>5. CASE start' = [start EXCEPT ![op.node] = op.first] /\ op' = Idle
  <2>1. start' \in [Node -> Value]
    BY <1>2, <1>5
  <2> QED BY <1>1, <1>3, <1>5, <2>1, BecomesIdle DEF TypeOK, CallTypeOK
<1> QED BY <1>4, <1>5 DEF WriteData

LEMMA DeAllocateKeepsType == ASSUME TypeOK, CallShape, DeAllocateSector PROVE TableTypeOK' /\ CallTypeOK' /\ CallShape'
<1> DEFINE v == Entry(op.at)
           step == IF Entry(op.at) = EOC THEN "mark" ELSE "free"
<1>1. /\ op.kind = "delete" /\ op.at \in Sector
      /\ Access(op.at, Free) /\ written' = (written \ Evicted(BlockOf(op.at))) \cup {BlockOf(op.at)}
      /\ used' = used - 1
      /\ pool' = IF Len(pool) < MaxPool THEN Append(pool, op.at) ELSE pool
      /\ op' = [op EXCEPT !.at = v, !.step = step]
      /\ UNCHANGED <<boot, start, mounted, trouble>>
  BY DEF DeAllocateSector, SetSectorEntryValue
<1>2. v \in Value /\ step \in {"mark", "free"}
  BY <1>1, EntryType
<1> HIDE DEF v, step
<1>3. TableTypeOK'
  BY <1>1, Sizes, AccessKeepsType
<1>4. op' \in Op /\ CallShape'
  <2>1. op \in Op
    BY DEF TypeOK
  <2>2. op'.kind = op.kind /\ op'.step = step /\ op'.node = op.node /\ op' \in Op
    BY <1>1, <1>2, <2>1 DEF Op
  <2> QED BY <1>1, <1>2, <2>2 DEF CallShape
<1>5. used' \in Int /\ pool' \in Seq(Sector) /\ Len(pool') <= MaxPool
  BY <1>1, SizesAssumption DEF TypeOK
<1> QED BY <1>1, <1>3, <1>4, <1>5 DEF TypeOK, CallTypeOK

\* What LoadFreeSectors does.
LEMMA LoadKeepsType ==
  ASSUME TypeOK, CallShape, CacheLookup \/ SkipCached \/ ReadBatch \/ ScanEnds
  PROVE  TableTypeOK' /\ CallTypeOK' /\ CallShape'
<1>1. op \in Op /\ UNCHANGED <<drive, cache, used, boot, start, mounted>>
  BY DEF TypeOK, CacheLookup, SkipCached, ReadBatch, ScanEnds
<1>2. TableTypeOK'
  BY <1>1, TableStaysTyped
<1>3. op.scan \in 0 .. Blocks /\ Blocks \in Nat \ {0} /\ Batch \in Nat \ {0} /\ cached \in SUBSET Block
  BY <1>1, OpParts, SizesAssumption DEF TypeOK
<1>4. op.step = "scan" => op.kind \in {"write", "mount"}
  BY <1>1, OpParts, IdleIs DEF CallShape
<1>5. CASE CacheLookup
  <2> DEFINE found == FreeSectors(copy, cached)
             q == pool \o found
             step == IF Overfull(q) THEN Loaded ELSE "scan"
  <2>0. \/ op.kind = "mount" /\ op.step = "lookup"
        \/ op.kind = "write" /\ op.step = "alloc"
    BY <1>5 DEF CacheLookup
  <2>1. pool' = Truncated(q) /\ op' = [op EXCEPT !.step = step, !.scan = 0] /\ trouble' = trouble
    BY <1>5 DEF CacheLookup
  <2>2. found \in Seq(Sector)
    BY FreeSectorsAre
  <2> HIDE DEF found
  <2>3. q \in Seq(Sector)
    BY <2>2 DEF TypeOK
  <2> HIDE DEF q
  <2>4. pool' \in Seq(Sector) /\ Len(pool') <= MaxPool
    BY <2>1, <2>3, TruncatedIs
  <2>5. 0 \in 0 .. Blocks /\ step \in {"scan", Loaded}
    BY <1>3
  <2> HIDE DEF step
  <2>6. op' \in Op /\ CallShape'
    BY <1>1, <2>0, <2>1, <2>5, PoolSteps
  <2> QED BY <1>1, <1>2, <2>1, <2>4, <2>6 DEF TypeOK, CallTypeOK
<1>6. CASE SkipCached
  <2> DEFINE scan == op.scan + 1
             step == "scan"
  <2>1. op.step = "scan" /\ op' = [op EXCEPT !.scan = op.scan + 1] /\ UNCHANGED <<pool, trouble>> /\ op.scan \in cached
    BY <1>6 DEF SkipCached
  <2>2. scan \in 0 .. Blocks
    BY <1>3, <2>1 DEF Block
  <2>3. op' = [op EXCEPT !.step = step, !.scan = scan]
    BY <1>1, <2>1 DEF Op
  <2>4. step \in {"scan", Loaded}
    OBVIOUS
  <2> HIDE DEF scan, step
  <2>5. op' \in Op /\ CallShape'
    BY <1>1, <1>4, <2>1, <2>2, <2>3, <2>4, PoolSteps
  <2> QED BY <1>1, <1>2, <2>1, <2>5 DEF TypeOK, CallTypeOK
<1>7. CASE ReadBatch
  <2> DEFINE found == FreeSectors(drive, BatchAt(op.scan))
             q == pool \o found
             step == IF Overfull(q) THEN Loaded ELSE "scan"
             scan == Smaller(op.scan + Batch, Blocks)
  <2>1. /\ op.step = "scan"
        /\ pool' = Truncated(q) /\ op' = [op EXCEPT !.step = step, !.scan = scan]
        /\ trouble' \in {trouble, "stale"}
    BY <1>7 DEF ReadBatch
  <2>2. found \in Seq(Sector)
    BY FreeSectorsAre
  <2> HIDE DEF found
  <2>3. q \in Seq(Sector)
    BY <2>2 DEF TypeOK
  <2> HIDE DEF q
  <2>4. pool' \in Seq(Sector) /\ Len(pool') <= MaxPool
    BY <2>1, <2>3, TruncatedIs
  <2>5. scan \in 0 .. Blocks /\ step \in {"scan", Loaded}
    BY <1>3 DEF Smaller
  <2> HIDE DEF step, scan
  <2>6. op' \in Op /\ CallShape'
    BY <1>1, <1>4, <2>1, <2>5, PoolSteps
  <2> QED BY <1>1, <1>2, <2>1, <2>4, <2>6 DEF TypeOK, CallTypeOK
<1>8. CASE ScanEnds
  <2> DEFINE step == Loaded
             scan == op.scan
  <2>1. op.step = "scan" /\ op' = [op EXCEPT !.step = Loaded] /\ UNCHANGED <<pool, trouble>>
    BY <1>8 DEF ScanEnds
  <2>2. op' = [op EXCEPT !.step = step, !.scan = scan]
    BY <1>1, <2>1 DEF Op
  <2>3. step \in {"scan", Loaded} /\ scan \in 0 .. Blocks
    BY <1>3
  <2> HIDE DEF step, scan
  <2>4. op' \in Op /\ CallShape'
    BY <1>1, <1>4, <2>1, <2>2, <2>3, PoolSteps
  <2> QED BY <1>1, <1>2, <2>1, <2>4 DEF TypeOK, CallTypeOK
<1> QED BY <1>5, <1>6, <1>7, <1>8

\* Steps that end a call and leave the table alone, and failures.
LEMMA EndingKeepsType ==
  ASSUME TypeOK, CallShape, UNCHANGED <<drive, cache>>, op' = Idle,
         pool' \in Seq(Sector), Len(pool') <= MaxPool, used' \in Int, boot' \in Int, start' \in [Node -> Value],
         mounted' \in BOOLEAN, trouble' \in {"none", "partial", "stale", "formatting", "reformatted", "undefined"}
  PROVE  TableTypeOK' /\ CallTypeOK' /\ CallShape'
BY TableStaysTyped, BecomesIdle DEF CallTypeOK

LEMMA FailuresKeepType ==
  ASSUME TypeOK, CallShape,
         \/ WalkEnds \/ WalkFails \/ ScanFails \/ NoFreeSectors \/ AllocateFails \/ LinkFails \/ WriteDataFails
         \/ DeAllocateFails \/ MarkAsDeleted \/ MarkFails \/ MountFails \/ ReadRootDirectory
  PROVE  TableTypeOK' /\ CallTypeOK' /\ CallShape'
<1>1. /\ pool \in Seq(Sector) /\ Len(pool) <= MaxPool
      /\ used \in Int /\ boot \in Int /\ start \in [Node -> Value] /\ mounted \in BOOLEAN /\ op \in Op
      /\ trouble \in {"none", "partial", "stale", "formatting", "reformatted", "undefined"}
  BY DEF TypeOK
<1>2. CASE WalkFails \/ LinkFails \/ DeAllocateFails
  <2>1. /\ UNCHANGED <<drive, cached, copy, written, pool, boot, start, mounted, used>>
        /\ op' = Idle /\ trouble' \in {trouble, "partial", "undefined"}
    BY <1>2 DEF WalkFails, LinkFails, DeAllocateFails, AccessFails, Throw
  <2> QED BY <1>1, <2>1, EndingKeepsType DEF cache
<1>3. CASE WalkEnds \/ ScanFails \/ NoFreeSectors \/ WriteDataFails \/ MarkFails
  <2>1. /\ UNCHANGED <<drive, cache, pool, used, boot, start, mounted>>
        /\ op' = Idle /\ trouble' \in {trouble, "partial"}
    BY <1>3 DEF WalkEnds, ScanFails, NoFreeSectors, WriteDataFails, MarkFails, Throw
  <2> QED BY <1>1, <2>1, EndingKeepsType
<1>4. CASE AllocateFails
  <2>1. /\ UNCHANGED <<drive, cache, boot, start, mounted>>
        /\ pool # <<>> /\ pool' = Tail(pool) /\ used' = used + 1
        /\ op' = Idle /\ trouble' \in {trouble, "partial", "undefined"}
    BY <1>4 DEF AllocateFails, Ready, Throw
  <2>2. Tail(pool) \in Seq(Sector) /\ Len(Tail(pool)) <= MaxPool /\ used' \in Int
    BY <1>1, <2>1, SizesAssumption
  <2> QED BY <1>1, <2>1, <2>2, EndingKeepsType
<1>5. CASE MarkAsDeleted
  <2>1. /\ UNCHANGED <<drive, cache, pool, used, boot, mounted, trouble>>
        /\ start' = [start EXCEPT ![op.node] = EOC] /\ op' = Idle
    BY <1>5 DEF MarkAsDeleted
  <2>2. start' \in [Node -> Value]
    BY <1>1, <2>1, Sizes
  <2> QED BY <1>1, <2>1, <2>2, EndingKeepsType
<1>6. CASE MountFails
  <2>1. /\ UNCHANGED <<drive, cache, used, boot, start, mounted, trouble>> /\ op' = Idle
        /\ pool' = <<>> \/ pool' = pool
    BY <1>6 DEF MountFails
  <2>2. <<>> \in Seq(Sector) /\ Len(<<>>) <= MaxPool
    BY SizesAssumption
  <2>3. pool' \in Seq(Sector) /\ Len(pool') <= MaxPool
    BY <1>1, <2>1, <2>2
  <2> QED BY <1>1, <2>1, <2>3, EndingKeepsType
<1>7. CASE ReadRootDirectory
  <2>1. UNCHANGED <<drive, cache, pool, used, boot, start, trouble>> /\ op' = Idle /\ mounted' = TRUE
    BY <1>7 DEF ReadRootDirectory
  <2> QED BY <1>1, <2>1, EndingKeepsType
<1> QED BY <1>2, <1>3, <1>4, <1>5, <1>6, <1>7

LEMMA BootIs ==
  ASSUME Boot
  PROVE  /\ cached' = {} /\ written' = {} /\ copy' \in [Sector -> Value] /\ \A s \in Sector : copy'[s] = Free
         /\ Cardinality(cached') <= MaxCache /\ pool' \in Seq(Sector) /\ Len(pool') <= MaxPool
         /\ used' = 1 /\ mounted' = FALSE
<1>1. /\ cached' = {} /\ written' = {} /\ copy' = [s \in Sector |-> Free] /\ pool' = <<>>
      /\ used' = 1 /\ mounted' = FALSE
  BY DEF Boot
<1>2. Cardinality(cached') = 0
  BY <1>1, FS_EmptySet
<1>3. copy' \in [Sector -> Value] /\ \A s \in Sector : copy'[s] = Free
  BY <1>1, Sizes
<1> QED BY <1>1, <1>2, <1>3, SizesAssumption

LEMMA FormattedIs == Formatted \in [Sector -> Value] /\ \A s \in Sector : Formatted[s] = IF s = Root THEN EOC ELSE Free
BY Sizes DEF Formatted

LEMMA DriveKeepsType ==
  ASSUME TypeOK, CallShape, Mount \/ WriteFSBootBlock \/ FlushTableCache \/ FlushFails \/ Reboot
  PROVE  TableTypeOK' /\ CallTypeOK' /\ CallShape'
<1>1. /\ pool \in Seq(Sector) /\ Len(pool) <= MaxPool
      /\ used \in Int /\ boot \in Int /\ start \in [Node -> Value] /\ mounted \in BOOLEAN /\ op \in Op
      /\ trouble \in {"none", "partial", "stale", "formatting", "reformatted", "undefined"}
  BY DEF TypeOK
<1>2. CASE Mount
  <2>1. /\ UNCHANGED <<drive, cache, boot, start, mounted, trouble>> /\ ~mounted
        /\ pool' = <<>> /\ used' = boot
        /\ op' = [Idle EXCEPT !.kind = "mount", !.step = "lookup"]
    BY <1>2 DEF Mount
  <2>2. /\ op'.kind = "mount" /\ op'.step = "lookup" /\ op'.node = NoNode /\ op' \in Op
    BY <2>1, IdleIs DEF Op
  <2>3. CallShape'
    BY <2>1, <2>2, NodeAssumption DEF CallShape
  <2>4. TableTypeOK'
    BY <2>1, TableStaysTyped
  <2>5. pool' \in Seq(Sector) /\ Len(pool') <= MaxPool
    BY <2>1, SizesAssumption
  <2> QED BY <1>1, <2>1, <2>2, <2>3, <2>4, <2>5 DEF CallTypeOK
<1>3. CASE WriteFSBootBlock
  <2>1. /\ UNCHANGED <<drive, cache, pool, used, start, mounted, trouble>> /\ boot' = used
        /\ op' = [Idle EXCEPT !.kind = "unmount", !.step = "flush"]
    BY <1>3 DEF WriteFSBootBlock
  <2>2. /\ op'.kind = "unmount" /\ op'.step = "flush" /\ op'.node = NoNode /\ op' \in Op
    BY <2>1, IdleIs DEF Op
  <2>3. CallShape'
    BY <2>1, <2>2, NodeAssumption DEF CallShape
  <2>4. TableTypeOK'
    BY <2>1, TableStaysTyped
  <2> QED BY <1>1, <2>1, <2>2, <2>3, <2>4 DEF CallTypeOK
<1>4. CASE FlushTableCache
  <2>1. /\ drive' = FlushedBlocks(cached) /\ pool' = <<>> /\ mounted' = FALSE /\ op' = Idle
        /\ UNCHANGED <<cached, copy, written, used, boot, start, trouble>>
    BY <1>4 DEF FlushTableCache, cache
  <2>2. drive' \in [Sector -> Value]
    BY <2>1, FlushedType
  <2>3. TableTypeOK'
    BY <2>1, <2>2 DEF TypeOK, TableTypeOK
  <2>4. pool' \in Seq(Sector) /\ Len(pool') <= MaxPool
    BY <2>1, SizesAssumption
  <2> QED BY <1>1, <2>1, <2>3, <2>4, BecomesIdle DEF CallTypeOK
<1>5. CASE FlushFails
  <2>1. PICK b \in cached \cap written :
          /\ drive' = FlushedBlocks({c \in cached : c < b})
          /\ \/ UNCHANGED <<cached, copy, written, pool, used, mounted>> /\ Throw(FALSE)
             \/ Boot /\ Throw(TRUE)
          /\ UNCHANGED <<boot, start>>
    BY <1>5 DEF FlushFails, cache
  <2>2. drive' \in [Sector -> Value]
    BY <2>1, FlushedType
  <2>3. op' = Idle /\ trouble' \in {"none", "partial", "stale", "formatting", "reformatted", "undefined"}
    BY <2>1, ThrowType
  <2>4. CASE UNCHANGED <<cached, copy, written, pool, used, mounted>>
    <3>1. TableTypeOK'
      BY <2>2, <2>4 DEF TypeOK, TableTypeOK
    <3> QED BY <1>1, <2>1, <2>3, <2>4, <3>1, BecomesIdle DEF CallTypeOK
  <2>5. CASE Boot
    <3>1. TableTypeOK'
      BY <2>2, <2>5, BootIs DEF TableTypeOK
    <3> QED BY <1>1, <2>1, <2>3, <2>5, <3>1, BecomesIdle, BootIs DEF CallTypeOK
  <2> QED BY <2>1, <2>4, <2>5
<1>6. CASE Reboot
  <2>1. Boot /\ UNCHANGED <<drive, boot, start, op, trouble>> /\ op = Idle
    BY <1>6 DEF Reboot
  <2>2. drive \in [Sector -> Value]
    BY DEF TypeOK
  <2>3. TableTypeOK'
    BY <2>1, <2>2, BootIs DEF TableTypeOK
  <2> QED BY <1>1, <2>1, <2>3, BecomesIdle, BootIs DEF CallTypeOK
<1> QED BY <1>2, <1>3, <1>4, <1>5, <1>6

LEMMA FormatKeepsType ==
  ASSUME TypeOK, CallShape, BeginFormat \/ FormatBlock \/ Format \/ FormatFails
  PROVE  TableTypeOK' /\ CallTypeOK' /\ CallShape'
<1>1. /\ pool \in Seq(Sector) /\ Len(pool) <= MaxPool
      /\ used \in Int /\ boot \in Int /\ start \in [Node -> Value] /\ mounted \in BOOLEAN /\ op \in Op
      /\ trouble \in {"none", "partial", "stale", "formatting", "reformatted", "undefined"}
  BY DEF TypeOK
<1>2. CASE BeginFormat
  <2>1. /\ UNCHANGED <<drive, cache, pool, used, start, mounted>> /\ boot' = 1
        /\ op' = [Idle EXCEPT !.kind = "format", !.step = "table"] /\ trouble' \in {trouble, "formatting"}
    BY <1>2 DEF BeginFormat
  <2>2. /\ op'.kind = "format" /\ op'.step = "table" /\ op'.node = NoNode /\ op' \in Op
    BY <2>1, IdleIs DEF Op
  <2>3. CallShape'
    BY <2>2, NodeAssumption DEF CallShape
  <2>4. TableTypeOK'
    BY <2>1, TableStaysTyped
  <2>5. boot' \in Int
    BY <2>1
  <2> QED BY <1>1, <2>1, <2>2, <2>3, <2>4, <2>5 DEF CallTypeOK
<1>3. CASE FormatBlock
  <2>1. /\ UNCHANGED <<cached, copy, written, pool, used, boot, start, mounted, trouble>>
        /\ op.step = "table" /\ op.scan \in Block /\ op' = [op EXCEPT !.scan = @ + 1]
        /\ drive' = [s \in Sector |-> IF BlockOf(s) = op.scan THEN Formatted[s] ELSE drive[s]]
    BY <1>3 DEF FormatBlock, cache
  <2>2. drive' \in [Sector -> Value]
    BY <2>1, FormattedIs DEF TypeOK
  <2>3. TableTypeOK'
    BY <2>1, <2>2 DEF TypeOK, TableTypeOK
  <2>4. op.scan + 1 \in 0 .. Blocks
    BY <2>1, SizesAssumption DEF Block
  <2>5. op' \in Op /\ op'.kind = op.kind /\ op'.step = op.step /\ op'.node = op.node
    BY <1>1, <2>1, <2>4 DEF Op
  <2>6. CallShape'
    <3>1. op.kind \notin {"none", "write", "delete", "mount", "unmount"}
      BY <2>1, IdleIs DEF CallShape
    <3> QED BY <2>1, <2>5, <3>1 DEF CallShape
  <2> QED BY <1>1, <2>1, <2>3, <2>5, <2>6 DEF CallTypeOK
<1>4. CASE Format
  <2>1. /\ UNCHANGED <<drive, cache, pool, boot>> /\ op' = Idle /\ mounted' = FALSE
        /\ start' = [n \in Node |-> EOC] /\ used' = 1 /\ trouble' \in {trouble, "none", "reformatted"}
    BY <1>4 DEF Format
  <2>2. start' \in [Node -> Value] /\ used' \in Int
    BY <2>1, Sizes
  <2>3. mounted' \in BOOLEAN
    BY <2>1, Zenon
  <2> QED BY <1>1, <2>1, <2>2, <2>3, EndingKeepsType
<1>5. CASE FormatFails
  <2>1. /\ UNCHANGED <<drive, cache, pool, boot, start, mounted>> /\ op' = Idle
        /\ used' \in {1, used} /\ trouble' \in {trouble, "partial"}
    BY <1>5 DEF FormatFails
  <2>2. used' \in Int
    BY <1>1, <2>1
  <2> QED BY <1>1, <2>1, <2>2, EndingKeepsType
<1> QED BY <1>2, <1>3, <1>4, <1>5

LEMMA BeginKeepsType ==
  ASSUME TypeOK, CallShape, NEW n \in Node, BeginWrite(n) \/ BeginDelete(n)
  PROVE  TypeOK' /\ CallShape'
<1>1. /\ UNCHANGED <<drive, cache, pool, used, boot, start, mounted, trouble>>
      /\ calls < MaxCalls /\ calls' = calls + 1
  BY DEF BeginWrite, BeginDelete
<1>2. start[n] \in Value
  BY DEF TypeOK
<1>3. op' \in Op /\ CallShape'
  <2>1. CASE BeginWrite(n)
    <3>1. /\ op'.kind = "write" /\ op'.step \in {"alloc", "walk"} /\ op'.node = n /\ op' \in Op
      BY <1>2, <2>1, IdleIs DEF BeginWrite, Op
    <3> QED BY <3>1 DEF CallShape
  <2>2. CASE BeginDelete(n)
    <3>1. /\ op'.kind = "delete" /\ op'.step = "free" /\ op'.node = n /\ op' \in Op
      BY <1>2, <2>2, IdleIs DEF BeginDelete, Op
    <3> QED BY <3>1 DEF CallShape
  <2> QED BY <2>1, <2>2
<1>4. TableTypeOK'
  BY <1>1, TableStaysTyped
<1>5. calls' \in 0 .. MaxCalls
  BY <1>1, SizesAssumption DEF TypeOK
<1>6. CallTypeOK'
  BY <1>1, <1>3 DEF TypeOK, CallTypeOK
<1> QED BY <1>3, <1>4, <1>5, <1>6, TypeParts

LEMMA InitType == Init => TypeOK /\ CallShape
<1> SUFFICES ASSUME Init PROVE TypeOK /\ CallShape
  OBVIOUS
<1>1. /\ drive = Formatted /\ boot = 1 /\ start = [n \in Node |-> EOC]
      /\ cached = {} /\ written = {} /\ copy = [s \in Sector |-> Free]
      /\ pool = <<>> /\ used = 1 /\ mounted = FALSE /\ op = Idle /\ calls = 0 /\ trouble = "none"
  BY DEF Init
<1>2. CallShape
  BY <1>1, IdleIs DEF CallShape
<1>3. Cardinality(cached) <= MaxCache
  <2>1. Cardinality(cached) = 0
    BY <1>1, FS_EmptySet
  <2> QED BY <2>1, SizesAssumption
<1>4. copy \in [Sector -> Value] /\ (\A s \in Sector : copy[s] = Free) /\ start \in [Node -> Value]
  BY <1>1, Sizes
<1>5. TableTypeOK
  BY <1>1, <1>3, <1>4, FormattedIs DEF TableTypeOK
<1>6. CallTypeOK
  <2>1. pool \in Seq(Sector) /\ Len(pool) <= MaxPool
    BY <1>1, SizesAssumption
  <2>2. used \in Int /\ boot \in Int
    BY <1>1
  <2>5. mounted \in BOOLEAN
    BY <1>1, Zenon
  <2>4. op \in Op
    BY <1>1, IdleIs
  <2>3. trouble \in {"none", "partial", "stale", "formatting", "reformatted", "undefined"}
    BY <1>1
  <2> QED BY <1>4, <2>1, <2>2, <2>3, <2>4, <2>5 DEF CallTypeOK
<1>7. calls \in 0 .. MaxCalls
  BY <1>1, SizesAssumption
<1> QED BY <1>2, <1>5, <1>6, <1>7, TypeParts

LEMMA NextType == TypeOK /\ CallShape /\ [Next]_vars => (TypeOK /\ CallShape)'
<1> SUFFICES ASSUME TypeOK, CallShape, [Next]_vars PROVE (TypeOK /\ CallShape)'
  OBVIOUS
<1>1. CASE \E n \in Node : BeginWrite(n) \/ BeginDelete(n)
  BY <1>1, BeginKeepsType
<1>2. CASE Step /\ UNCHANGED calls
  <2>1. TableTypeOK' /\ CallTypeOK' /\ CallShape'
    <3>1. CASE Walk
      BY <3>1, WalkKeepsType
    <3>2. CASE AllocateSector
      BY <3>2, AllocateKeepsType
    <3>3. CASE LinkFirst \/ LinkNext
      BY <3>3, LinkKeepsType
    <3>4. CASE WriteData
      BY <3>4, WriteDataKeepsType
    <3>5. CASE DeAllocateSector
      BY <3>5, DeAllocateKeepsType
    <3>6. CASE CacheLookup \/ SkipCached \/ ReadBatch \/ ScanEnds
      BY <3>6, LoadKeepsType
    <3>7. CASE \/ WalkEnds \/ WalkFails \/ ScanFails \/ NoFreeSectors \/ AllocateFails \/ LinkFails
               \/ WriteDataFails \/ DeAllocateFails \/ MarkAsDeleted \/ MarkFails \/ MountFails
               \/ ReadRootDirectory
      BY <3>7, FailuresKeepType
    <3>8. CASE Mount \/ WriteFSBootBlock \/ FlushTableCache \/ FlushFails \/ Reboot
      BY <3>8, DriveKeepsType
    <3>9. CASE BeginFormat \/ FormatBlock \/ Format \/ FormatFails
      BY <3>9, FormatKeepsType
    <3> QED BY <1>2, <3>1, <3>2, <3>3, <3>4, <3>5, <3>6, <3>7, <3>8, <3>9 DEF Step
  <2>2. calls' \in 0 .. MaxCalls
    BY <1>2 DEF TypeOK
  <2> QED BY <2>1, <2>2, TypeParts
<1>3. CASE UNCHANGED vars
  BY <1>3 DEF vars, TypeOK, CallShape
<1> QED BY <1>1, <1>2, <1>3 DEF Next, Stop

-----------------------------------------------------------------------------
(* The chains *)

\* The table as calls see it, the first sector of each node, and the sector a write has taken and
\* not linked yet.
TableNow == [s \in Sector |-> Entry(s)]
Firsts == [n \in Node |-> First(n)]
Pending == IF op.step = "link" THEN op.new ELSE EOC

Used(T) == {s \in Sector : T[s] # Free}

\* Nodes with first sectors f, the table T and a sector w taken: every used sector is claimed,
\* what is claimed is used, and no two claims are the same.
Claimed(T, f, w) ==
  /\ \A s \in Sector \ {Root} : T[s] # Free => \/ \E n \in Node : f[n] = s
                                               \/ \E t \in Sector : T[t] = s
                                               \/ w = s
  /\ \A n \in Node : f[n] # Free /\ (f[n] # EOC => T[f[n]] # Free)
  /\ \A t \in Sector : T[t] \notin {Free, EOC} => T[T[t]] # Free
  /\ w # Free /\ (w # EOC => T[w] # Free)
Apart(T, f, w) ==
  /\ \A m, n \in Node : f[m] = f[n] /\ f[m] # EOC => m = n
  /\ \A t, u \in Sector : T[t] = T[u] /\ T[t] \notin {Free, EOC} => t = u
  /\ \A n \in Node, t \in Sector : f[n] = T[t] => f[n] = EOC
  /\ \A n \in Node : f[n] = w => w = EOC
  /\ \A t \in Sector : T[t] = w => w = EOC
Chained(T, f, w) == T[Root] = EOC /\ Claimed(T, f, w) /\ Apart(T, f, w)

\* Where the call in progress is, in table T.
WriteOnChain(T) ==
  op.kind = "write" =>
    /\ op.step = "walk" => /\ op.first = start[op.node] /\ op.first # EOC
                           /\ op.at \in Sector \ {Root} /\ T[op.at] # Free
    /\ op.step \in {"alloc", "scan", "take", "link"} =>
         IF op.first = EOC THEN op.at = EOC ELSE op.at \in Sector \ {Root} /\ T[op.at] = EOC
    /\ op.step \in {"link", "data"} => op.new \in Sector \ {Root} /\ T[op.new] = EOC
    /\ op.step = "link" => op.at # op.new
    /\ op.step = "data" => op.first # EOC
DeleteOnChain ==
  op.kind = "delete" => op.first = start[op.node] /\ (op.step = "mark" => op.at = EOC)

\* The pool offers free sectors, each once.
Offers(T, q) == /\ \A i \in 1 .. Len(q) : T[q[i]] = Free
                /\ \A i, j \in 1 .. Len(q) : q[i] = q[j] => i = j

\* What LoadFreeSectors has looked at by now: all free sectors in it are in the pool, and no others.
Seen(s) == BlockOf(s) \in cached \/ BlockOf(s) < op.scan
ScannedSoFar(T, q) ==
  /\ \A s \in Sector : T[s] = Free /\ Seen(s) => \E i \in 1 .. Len(q) : q[i] = s
  /\ \A i \in 1 .. Len(q) : Seen(q[i])

PoolFollows(T) ==
  /\ mounted \/ op.kind = "mount" => Offers(T, pool)
  /\ op.step = "lookup" => pool = <<>>
  /\ op.step = "scan" => ScannedSoFar(T, pool)
  /\ op.step = "take" /\ pool = <<>> => \A s \in Sector : T[s] # Free

Counted(T) ==
  /\ mounted \/ op.kind = "mount" => used = Cardinality(Used(T))
  /\ ~mounted \/ op.kind = "unmount" => boot = Cardinality(Used(T))

Good == /\ Chained(TableNow, Firsts, Pending) /\ WriteOnChain(TableNow) /\ DeleteOnChain
        /\ PoolFollows(TableNow) /\ Counted(TableNow)

\* Sets of used sectors as they grow and shrink.
LEMMA Counting ==
  ASSUME NEW T, NEW U, NEW x \in Sector
  PROVE  /\ IsFiniteSet(Used(T)) /\ Cardinality(Used(T)) \in Nat
         /\ (\A s \in Sector : T[s] # Free <=> U[s] # Free) => Cardinality(Used(U)) = Cardinality(Used(T))
         /\ T[x] = Free /\ U[x] # Free /\ (\A s \in Sector \ {x} : T[s] # Free <=> U[s] # Free)
              => Cardinality(Used(U)) = Cardinality(Used(T)) + 1
<1> DEFINE A == Used(T)
           B == Used(U)
<1>1. /\ \A s : s \in A <=> s \in Sector /\ T[s] # Free
      /\ \A s : s \in B <=> s \in Sector /\ U[s] # Free
  BY DEF Used
<1> HIDE DEF A, B
<1>2. IsFiniteSet(A) /\ Cardinality(A) \in Nat
  <2>1. A \in SUBSET Sector
    BY <1>1
  <2> QED BY <2>1, Sizes, FS_Subset, FS_CardinalityType
<1>3. ASSUME \A s \in Sector : T[s] # Free <=> U[s] # Free PROVE Cardinality(B) = Cardinality(A)
  <2>1. A = B
    BY <1>1, <1>3
  <2> QED BY <2>1
<1>4. ASSUME T[x] = Free, U[x] # Free, \A s \in Sector \ {x} : T[s] # Free <=> U[s] # Free
      PROVE  Cardinality(B) = Cardinality(A) + 1
  <2>1. B = A \cup {x} /\ x \notin A
    BY <1>1, <1>4
  <2> QED BY <1>2, <2>1, FS_AddElement
<1> QED BY <1>2, <1>3, <1>4 DEF A, B

LEMMA RootAlone ==
  ASSUME NEW T, \A s \in Sector : T[s] = IF s = Root THEN EOC ELSE Free
  PROVE  /\ Cardinality(Used(T)) = 1
         /\ \A f : (\A n \in Node : f[n] = EOC) => Chained(T, f, EOC)
<1>1. Used(T) = {Root}
  BY Sizes DEF Used
<1>2. Cardinality({Root}) = 1
  BY FS_Singleton
<1>3. ASSUME NEW f, \A n \in Node : f[n] = EOC PROVE Chained(T, f, EOC)
  BY <1>3, Sizes DEF Chained, Claimed, Apart
<1> QED BY <1>1, <1>2, <1>3

LEMMA Values == /\ \A v \in Value : v = EOC \/ v \in Sector
                /\ \A s \in Sector : s # EOC /\ s \in Value
                /\ EOC # Free /\ Root = Free /\ Root \in Sector /\ EOC \in Value /\ Free \in Value
BY Sizes

\* A sector leaves the pool and is marked as used, and is claimed by the write.
LEMMA ChainedTakes ==
  ASSUME NEW T \in [Sector -> Value], NEW f \in [Node -> Value], NEW U, NEW h \in Sector,
         Chained(T, f, EOC), T[h] = Free,
         \A s \in Sector : U[s] = IF s = h THEN EOC ELSE T[s]
  PROVE  Chained(U, f, h)
<1> USE Values
<1>1. h # Root
  BY DEF Chained
<1>2. (\A n \in Node : f[n] # h) /\ (\A t \in Sector : T[t] # h)
  BY <1>1 DEF Chained, Claimed
<1>3. Claimed(U, f, h)
  <2>1. ASSUME NEW s \in Sector \ {Root}, U[s] # Free, s # h
        PROVE  (\E n \in Node : f[n] = s) \/ (\E t \in Sector : U[t] = s)
    <3>1. (\E n \in Node : f[n] = s) \/ (\E t \in Sector : T[t] = s)
      BY <2>1 DEF Chained, Claimed
    <3> QED BY <2>1, <3>1
  <2>2. ASSUME NEW n \in Node, f[n] # EOC PROVE U[f[n]] # Free
    <3>1. T[f[n]] # Free /\ f[n] \in Sector
      BY <2>2 DEF Chained, Claimed
    <3> QED BY <3>1
  <2>3. ASSUME NEW t \in Sector, U[t] \notin {Free, EOC} PROVE U[U[t]] # Free
    <3>1. U[t] = T[t] /\ T[t] \in Sector
      BY <2>3
    <3>2. T[T[t]] # Free
      BY <2>3, <3>1 DEF Chained, Claimed
    <3> QED BY <3>1, <3>2
  <2>4. \A n \in Node : f[n] # Free
    BY DEF Chained, Claimed
  <2>5. h # Free /\ U[h] # Free
    BY <1>1
  <2> QED BY <2>1, <2>2, <2>3, <2>4, <2>5 DEF Claimed
<1>4. Apart(U, f, h)
  <2>1. \A m, n \in Node : f[m] = f[n] /\ f[m] # EOC => m = n
    BY DEF Chained, Apart
  <2>2. \A t, u \in Sector : U[t] = U[u] /\ U[t] \notin {Free, EOC} => t = u
    BY DEF Chained, Apart
  <2>3. ASSUME NEW n \in Node, NEW t \in Sector, f[n] = U[t] PROVE f[n] = EOC
    BY <2>3 DEF Chained, Apart
  <2>4. (\A n \in Node : f[n] # h) /\ (\A t \in Sector : U[t] # h)
    BY <1>2
  <2> QED BY <2>1, <2>2, <2>3, <2>4 DEF Apart
<1> QED BY <1>3, <1>4, <1>1 DEF Chained

\* The sector becomes the first of its node.
LEMMA ChainedFirst ==
  ASSUME NEW T \in [Sector -> Value], NEW f \in [Node -> Value], NEW g, NEW w \in Value, NEW n \in Node,
         Chained(T, f, w), f[n] = EOC,
         \A m \in Node : g[m] = IF m = n THEN w ELSE f[m]
  PROVE  Chained(T, g, EOC)
<1> USE Values
<1>1. Claimed(T, g, EOC)
  <2>1. ASSUME NEW s \in Sector \ {Root}, T[s] # Free
        PROVE  (\E m \in Node : g[m] = s) \/ (\E t \in Sector : T[t] = s)
    <3>1. (\E m \in Node : f[m] = s) \/ (\E t \in Sector : T[t] = s) \/ w = s
      BY <2>1 DEF Chained, Claimed
    <3> QED BY <2>1, <3>1
  <2>2. ASSUME NEW m \in Node PROVE g[m] # Free /\ (g[m] # EOC => T[g[m]] # Free)
    BY DEF Chained, Claimed
  <2> QED BY <2>1, <2>2 DEF Chained, Claimed
<1>2. Apart(T, g, EOC)
  BY DEF Chained, Apart
<1> QED BY <1>1, <1>2 DEF Chained

\* Or it follows the last sector of a chain.
LEMMA ChainedNext ==
  ASSUME NEW T \in [Sector -> Value], NEW f \in [Node -> Value], NEW U, NEW w \in Value,
         NEW x \in Sector \ {Root}, Chained(T, f, w), T[x] = EOC, w # EOC,
         \A s \in Sector : U[s] = IF s = x THEN w ELSE T[s]
  PROVE  Chained(U, f, EOC)
<1> USE Values
<1>0. w \in Sector /\ w # Free /\ T[w] # Free
  BY DEF Chained, Claimed
<1>1. Claimed(U, f, EOC)
  <2>1. ASSUME NEW s \in Sector \ {Root}, U[s] # Free
        PROVE  (\E n \in Node : f[n] = s) \/ (\E t \in Sector : U[t] = s)
    <3>1. (\E n \in Node : f[n] = s) \/ (\E t \in Sector : T[t] = s) \/ w = s
      BY <2>1 DEF Chained, Claimed
    <3>2. U[x] = w /\ \A t \in Sector : T[t] = s => U[t] = s
      BY <2>1
    <3> QED BY <3>1, <3>2
  <2>2. ASSUME NEW n \in Node, f[n] # EOC PROVE U[f[n]] # Free
    <3>1. T[f[n]] # Free /\ f[n] \in Sector
      BY <2>2 DEF Chained, Claimed
    <3> QED BY <1>0, <3>1
  <2>3. ASSUME NEW t \in Sector, U[t] \notin {Free, EOC} PROVE U[U[t]] # Free
    <3>1. U[t] \in Sector /\ T[U[t]] # Free
      <4>1. CASE t = x
        BY <1>0, <4>1
      <4>2. CASE t # x
        BY <2>3, <4>2 DEF Chained, Claimed
      <4> QED BY <4>1, <4>2
    <3> QED BY <1>0, <3>1
  <2>4. \A n \in Node : f[n] # Free
    BY DEF Chained, Claimed
  <2> QED BY <2>1, <2>2, <2>3, <2>4 DEF Claimed
<1>2. Apart(U, f, EOC)
  <2>1. \A t, u \in Sector : U[t] = U[u] /\ U[t] \notin {Free, EOC} => t = u
    BY <1>0 DEF Chained, Apart
  <2>2. ASSUME NEW n \in Node, NEW t \in Sector, f[n] = U[t] PROVE f[n] = EOC
    BY <1>0, <2>2 DEF Chained, Apart
  <2>3. \A m, n \in Node : f[m] = f[n] /\ f[m] # EOC => m = n
    BY DEF Chained, Apart
  <2> QED BY <2>1, <2>2, <2>3 DEF Apart
<1> QED BY <1>1, <1>2 DEF Chained

\* The first sector of a chain is freed, and the next is its first.
LEMMA ChainedFrees ==
  ASSUME NEW T \in [Sector -> Value], NEW f \in [Node -> Value], NEW U, NEW g, NEW n \in Node,
         NEW x \in Sector, Chained(T, f, EOC), f[n] = x,
         \A s \in Sector : U[s] = IF s = x THEN Free ELSE T[s],
         \A m \in Node : g[m] = IF m = n THEN T[x] ELSE f[m]
  PROVE  Chained(U, g, EOC) /\ x # Root /\ T[x] # Free
<1> USE Values
<1>1. x # Root /\ T[x] # Free /\ T[x] # x
  BY DEF Chained, Claimed, Apart
<1>2. (\A t \in Sector : T[t] # x) /\ (\A m \in Node \ {n} : f[m] # x)
  BY DEF Chained, Apart
<1>3. T[x] \in Value /\ (T[x] # EOC => T[x] \in Sector /\ T[T[x]] # Free)
  BY <1>1 DEF Chained, Claimed
<1>4. Claimed(U, g, EOC)
  <2>1. ASSUME NEW s \in Sector \ {Root}, U[s] # Free
        PROVE  (\E m \in Node : g[m] = s) \/ (\E t \in Sector : U[t] = s)
    <3>1. s # x /\ T[s] # Free /\ s # EOC
      BY <2>1
    <3>2. (\E m \in Node : f[m] = s) \/ (\E t \in Sector : T[t] = s)
      BY <3>1 DEF Chained, Claimed
    <3> QED BY <3>1, <3>2
  <2>2. ASSUME NEW m \in Node PROVE g[m] # Free /\ (g[m] # EOC => U[g[m]] # Free)
    <3>1. CASE m = n
      BY <1>1, <1>3, <3>1
    <3>2. CASE m # n
      <4>1. g[m] = f[m] /\ f[m] # x /\ f[m] \in Value
        BY <1>2, <3>2
      <4>2. f[m] # Free /\ (f[m] # EOC => T[f[m]] # Free)
        BY DEF Chained, Claimed
      <4> QED BY <4>1, <4>2
    <3> QED BY <3>1, <3>2
  <2>3. ASSUME NEW t \in Sector, U[t] \notin {Free, EOC} PROVE U[U[t]] # Free
    <3>1. U[t] = T[t] /\ T[t] \in Sector /\ T[t] # x
      BY <1>2, <2>3
    <3>2. T[T[t]] # Free
      BY <2>3, <3>1 DEF Chained, Claimed
    <3> QED BY <3>1, <3>2
  <2> QED BY <2>1, <2>2, <2>3 DEF Claimed
<1>5. Apart(U, g, EOC)
  <2>1. \A k, m \in Node : g[k] = g[m] /\ g[k] # EOC => k = m
    BY DEF Chained, Apart
  <2>2. \A t, u \in Sector : U[t] = U[u] /\ U[t] \notin {Free, EOC} => t = u
    BY DEF Chained, Apart
  <2>3. ASSUME NEW m \in Node, NEW t \in Sector, g[m] = U[t] PROVE g[m] = EOC
    <3>1. g[m] # Free
      BY <2>3, <1>1 DEF Chained, Claimed
    <3>2. t # x /\ U[t] = T[t]
      BY <2>3, <3>1
    <3>3. CASE m = n
      BY <1>1, <2>3, <3>2, <3>3 DEF Chained, Apart
    <3>4. CASE m # n
      BY <2>3, <3>2, <3>4 DEF Chained, Apart
    <3> QED BY <3>3, <3>4
  <2> QED BY <2>1, <2>2, <2>3 DEF Apart
<1> QED BY <1>1, <1>4, <1>5 DEF Chained

-----------------------------------------------------------------------------
(* What the steps do to them *)

LEMMA NowType == ASSUME TypeOK
                 PROVE  /\ TableNow \in [Sector -> Value] /\ Firsts \in [Node -> Value] /\ Pending \in Value
                        /\ \A s \in Sector : TableNow[s] = Entry(s)
                        /\ \A n \in Node : Firsts[n] = First(n)
<1>1. op.at \in Value /\ op.new \in Value /\ op.first \in Value /\ start \in [Node -> Value]
  BY OpParts DEF TypeOK
<1>2. \A s \in Sector : Entry(s) \in Value
  BY EntryType
<1>3. \A n \in Node : First(n) \in Value
  BY <1>1 DEF First
<1>4. Pending \in Value
  BY <1>1, Values DEF Pending
<1> QED BY <1>2, <1>3, <1>4 DEF TableNow, Firsts

\* An access changes the one entry it is for, whichever block makes place.
LEMMA AccessIs ==
  ASSUME TypeOK, IInv, Trusted, NEW s \in Sector, NEW v, Access(s, v)
  PROVE  \A t \in Sector : TableNow'[t] = IF t = s THEN v ELSE TableNow[t]
<1> DEFINE b == BlockOf(s)
           E == Evicted(b)
<1>1. /\ drive' = [t \in Sector |-> IF BlockOf(t) \in E \cap written THEN copy[t] ELSE drive[t]]
      /\ cached' = (cached \ E) \cup {b}
      /\ copy' = [t \in Sector |-> IF t = s THEN v
                                   ELSE IF BlockOf(t) = b THEN Entry(t)
                                   ELSE IF BlockOf(t) \in E THEN Free ELSE copy[t]]
  BY DEF Access, FlushedBlocks
<1>2. E \in SUBSET cached /\ (b \in cached => E = {})
  BY EvictedIs
<1>3. b = BlockOf(s)
  OBVIOUS
<1> HIDE DEF b, E
<1>4. \A t \in Sector : BlockOf(t) \in cached \ written => copy[t] = drive[t]
  BY DEF IInv, TableSaved, CleanIsSaved
<1>5. ASSUME NEW t \in Sector
      PROVE  (IF BlockOf(t) \in cached' THEN copy'[t] ELSE drive'[t]) = IF t = s THEN v ELSE Entry(t)
  <2>1. CASE BlockOf(t) = b
    BY <1>1, <2>1, <1>3
  <2>2. CASE BlockOf(t) # b /\ BlockOf(t) \in E
    <3>1. BlockOf(t) \notin cached' /\ BlockOf(t) \in cached /\ t # s
      BY <1>1, <1>2, <1>3, <2>2
    <3>2. drive'[t] = copy[t]
      BY <1>1, <1>4, <2>2, <3>1
    <3> QED BY <3>1, <3>2 DEF Entry
  <2>3. CASE BlockOf(t) # b /\ BlockOf(t) \notin E
    <3>1. (BlockOf(t) \in cached' <=> BlockOf(t) \in cached) /\ t # s
      BY <1>1, <1>3, <2>3
    <3>2. drive'[t] = drive[t] /\ copy'[t] = copy[t]
      BY <1>1, <2>3, <3>1
    <3> QED BY <3>1, <3>2 DEF Entry
  <2> QED BY <2>1, <2>2, <2>3
<1> QED BY <1>5 DEF TableNow, Entry

LEMMA TableStays == ASSUME UNCHANGED <<drive, cache>> PROVE TableNow' = TableNow
BY DEF TableNow, Entry, cache

LEMMA FlushedStays ==
  ASSUME TypeOK, IInv, Trusted, NEW bs, bs \subseteq cached, drive' = FlushedBlocks(bs), UNCHANGED cache
  PROVE  TableNow' = TableNow
BY DEF TableNow, Entry, cache, FlushedBlocks

\* The call is over.
LEMMA EndIsGood ==
  ASSUME op' = Idle, Chained(TableNow', Firsts', EOC),
         mounted' => Offers(TableNow', pool') /\ used' = Cardinality(Used(TableNow')),
         ~mounted' => boot' = Cardinality(Used(TableNow'))
  PROVE  Good'
<1>1. op'.kind = "none" /\ op'.step = "none"
  BY IdleIs
<1>2. Pending' = EOC
  BY <1>1 DEF Pending
<1> QED BY <1>1, <1>2 DEF Good, WriteOnChain, DeleteOnChain, PoolFollows, Counted

\* With the first sectors that the directory entries have then.
LEMMA FirstsAtEnd ==
  ASSUME TypeOK, Good, op.step # "link", op' = Idle, TableNow' = TableNow,
         \A n \in Node : start'[n] = First(n)
  PROVE  Chained(TableNow', Firsts', EOC)
<1>1. Firsts' = Firsts
  BY IdleIs DEF Firsts, First
<1>2. Pending = EOC
  BY DEF Pending
<1> QED BY <1>1, <1>2 DEF Good

LEMMA EndsAreGood ==
  ASSUME TypeOK, CallShape, Good, Trusted',
         \/ WalkEnds \/ WalkFails \/ ScanFails \/ NoFreeSectors \/ AllocateFails \/ LinkFails \/ WriteDataFails
         \/ DeAllocateFails \/ MarkAsDeleted \/ MarkFails \/ MountFails \/ ReadRootDirectory
  PROVE  Good'
<1>1. /\ op' = Idle /\ UNCHANGED <<drive, cache, used, boot>> /\ op.step # "link"
      /\ mounted' => pool' = pool
      /\ mounted' = mounted \/ (op.step = "root" /\ pool' = pool)
  <2>1. CASE WalkEnds \/ WalkFails \/ DeAllocateFails
    BY <2>1 DEF WalkEnds, WalkFails, DeAllocateFails, AccessFails, Throw, cache, CallShape
  <2>2. CASE ScanFails \/ NoFreeSectors \/ WriteDataFails \/ MarkFails
    BY <2>2 DEF ScanFails, NoFreeSectors, WriteDataFails, MarkFails, Throw
  <2>3. CASE AllocateFails \/ LinkFails
    BY <2>3 DEF AllocateFails, LinkFails, AccessFails, Throw, Trusted
  <2>4. CASE MarkAsDeleted \/ MountFails \/ ReadRootDirectory
    BY <2>4, IdleIs DEF MarkAsDeleted, MountFails, ReadRootDirectory
  <2> QED BY <2>1, <2>2, <2>3, <2>4
<1>2. \A n \in Node : start'[n] = First(n)
  <2>0. start \in [Node -> Value]
    BY DEF TypeOK
  <2>1. CASE WalkEnds \/ WalkFails
    BY <2>1 DEF WalkEnds, WalkFails, AccessFails, Good, WriteOnChain, First
  <2>2. CASE NoFreeSectors \/ WriteDataFails
    <3>1. op.kind = "write" /\ op.first = start[op.node] /\ UNCHANGED start
      BY <2>2, OpParts, IdleIs DEF NoFreeSectors, WriteDataFails, Throw, Linked, Trusted, CallShape, TypeOK
    <3> QED BY <3>1 DEF First
  <2>3. CASE ScanFails
    <3>1. UNCHANGED start /\ (op.kind = "write" => op.first = start[op.node])
      BY <2>3 DEF ScanFails, Throw, Linked, Trusted
    <3>2. op.kind # "write" => op.kind = "mount"
      BY <2>3, OpParts, IdleIs DEF ScanFails, CallShape, TypeOK
    <3> QED BY <3>1, <3>2 DEF First, CallShape
  <2>4. CASE DeAllocateFails
    BY <2>4 DEF DeAllocateFails, AccessFails, Throw, Trusted, Good, DeleteOnChain, First
  <2>5. CASE MarkAsDeleted
    <3>1. op.kind = "delete" /\ op.at = EOC /\ start' = [start EXCEPT ![op.node] = EOC]
      BY <2>5, OpParts, IdleIs DEF MarkAsDeleted, CallShape, TypeOK, Good, DeleteOnChain
    <3> QED BY <2>0, <3>1 DEF First
  <2>6. CASE MountFails \/ ReadRootDirectory
    <3>1. UNCHANGED start /\ (op = Idle \/ op.step = "root")
      BY <2>6 DEF MountFails, ReadRootDirectory
    <3>2. op.node \notin Node
      BY <3>1, IdleIs, OpParts DEF CallShape, TypeOK
    <3> QED BY <3>1, <3>2 DEF First
  <2>7. CASE AllocateFails \/ LinkFails \/ MarkFails
    BY <2>7 DEF AllocateFails, LinkFails, MarkFails, AccessFails, Throw, Trusted
  <2> QED BY <2>1, <2>2, <2>3, <2>4, <2>5, <2>6, <2>7
<1>3. TableNow' = TableNow
  BY <1>1, TableStays
<1>4. Chained(TableNow', Firsts', EOC)
  BY <1>1, <1>2, <1>3, FirstsAtEnd
<1>5. op.step = "root" => op.kind = "mount"
  BY OpParts, IdleIs DEF CallShape, TypeOK
<1>6. /\ mounted' => Offers(TableNow', pool') /\ used' = Cardinality(Used(TableNow'))
      /\ ~mounted' => boot' = Cardinality(Used(TableNow'))
  BY <1>1, <1>3, <1>5 DEF Good, PoolFollows, Counted, CallShape
<1> QED BY <1>1, <1>4, <1>6, EndIsGood

LEMMA BeginIsGood ==
  ASSUME TypeOK, CallShape, Good, NEW n \in Node, BeginWrite(n) \/ BeginDelete(n)
  PROVE  Good'
<1>1. /\ UNCHANGED <<drive, cache, pool, used, boot, start, mounted>> /\ op = Idle /\ mounted
      /\ start[n] \in Value
  BY DEF BeginWrite, BeginDelete, TypeOK
<1>2. TableNow' = TableNow /\ op.kind = "none" /\ op.step = "none" /\ op.node \notin Node
  BY <1>1, TableStays, IdleIs
<1>3. /\ op'.node = n /\ op'.first = start[n] /\ op'.at = start[n]
      /\ \/ op'.kind = "write" /\ op'.step = IF start[n] = EOC THEN "alloc" ELSE "walk"
         \/ op'.kind = "delete" /\ op'.step = "free"
  BY DEF BeginWrite, BeginDelete, Idle
<1>4. Firsts' = Firsts
  BY <1>1, <1>2, <1>3 DEF Firsts, First
<1>5. Pending = EOC /\ Pending' = EOC
  BY <1>2, <1>3 DEF Pending
<1>6. Chained(TableNow', Firsts', Pending')
  BY <1>2, <1>4, <1>5 DEF Good
<1>7. WriteOnChain(TableNow)' /\ DeleteOnChain'
  <2>1. start[n] # EOC => start[n] \in Sector \ {Root} /\ TableNow[start[n]] # Free
    <3>1. Firsts[n] = start[n]
      BY <1>2 DEF Firsts, First
    <3> QED BY <1>1, <3>1, Values DEF Good, Chained, Claimed
  <2> QED BY <1>1, <1>2, <1>3, <2>1 DEF WriteOnChain, DeleteOnChain
<1>8. PoolFollows(TableNow)' /\ Counted(TableNow)'
  BY <1>1, <1>2, <1>3 DEF Good, PoolFollows, Counted
<1> QED BY <1>6, <1>7, <1>8 DEF Good

LEMMA WalkIsGood == ASSUME TypeOK, CallShape, IInv, Trusted, Good, Walk PROVE Good'
<1>1. /\ op.kind = "write" /\ op.step = "walk" /\ op.at \in Sector
      /\ Access(op.at, Entry(op.at))
      /\ UNCHANGED <<pool, used, boot, start, mounted>>
  BY DEF Walk, GetSectorEntryValue
<1>2. TableNow' = TableNow
  <2>1. \A t \in Sector : TableNow'[t] = TableNow[t]
    BY <1>1, AccessIs, NowType
  <2> QED BY <2>1 DEF TableNow
<1>3. op.first = start[op.node] /\ op.at # Root /\ TableNow[op.at] # Free /\ TableNow[op.at] \in Value
  BY <1>1, NowType DEF Good, WriteOnChain
<1> DEFINE v == TableNow[op.at]
<1>4. /\ op'.kind = "write" /\ op'.node = op.node /\ op'.first = op.first
      /\ \/ v = EOC /\ op'.step = "alloc" /\ op'.at = op.at
         \/ v # EOC /\ op'.step = "walk" /\ op'.at = v
  <2>1. op \in Op /\ op' = IF v = EOC THEN [op EXCEPT !.step = "alloc"] ELSE [op EXCEPT !.at = v]
    BY <1>1, NowType DEF Walk, TypeOK
  <2> HIDE DEF v
  <2> QED BY <1>1, <2>1 DEF Op
<1>5. Chained(TableNow', Firsts', Pending')
  <2>1. Firsts' = Firsts
    BY <1>1, <1>4 DEF Firsts, First
  <2>2. Pending = EOC /\ Pending' = EOC
    BY <1>1, <1>4 DEF Pending
  <2> QED BY <1>2, <2>1, <2>2 DEF Good
<1>6. WriteOnChain(TableNow)' /\ DeleteOnChain'
  <2>1. v # EOC => v \in Sector \ {Root} /\ TableNow[v] # Free
    BY <1>1, <1>3, Values DEF Good, Chained, Claimed
  <2>2. op.first # EOC
    BY <1>1 DEF Good, WriteOnChain
  <2> HIDE DEF v
  <2>3. DeleteOnChain'
    BY <1>4 DEF DeleteOnChain
  <2>4. WriteOnChain(TableNow)'
    BY <1>1, <1>2, <1>3, <1>4, <2>1, <2>2 DEF WriteOnChain, v
  <2> QED BY <2>3, <2>4
<1>7. PoolFollows(TableNow)' /\ Counted(TableNow)'
  BY <1>1, <1>2, <1>4 DEF Good, PoolFollows, Counted
<1> QED BY <1>5, <1>6, <1>7 DEF Good

\* What the actions below need to know of a step that only moves the call on.
LEMMA SameTable ==
  ASSUME Good, UNCHANGED <<drive, cache, used, boot, start, mounted>>, op'.kind = op.kind, op'.node = op.node,
         op'.first = op.first, op.step # "link", op'.step # "link", op.kind = "delete" => op'.at = op.at
  PROVE  /\ TableNow' = TableNow
         /\ Chained(TableNow', Firsts', Pending')
         /\ Counted(TableNow)'
<1>1. TableNow' = TableNow
  BY TableStays
<1>2. Firsts' = Firsts
  BY DEF Firsts, First
<1>3. Pending = EOC /\ Pending' = EOC
  BY DEF Pending
<1> QED BY <1>1, <1>2, <1>3 DEF Good, Counted

\* Concatenation and truncation of pools.
LEMMA Concatenated ==
  ASSUME NEW p \in Seq(Sector), NEW q \in Seq(Sector)
  PROVE  /\ p \o q \in Seq(Sector) /\ Len(p \o q) = Len(p) + Len(q)
         /\ \A i \in 1 .. Len(p) : i \in 1 .. Len(p \o q) /\ (p \o q)[i] = p[i]
         /\ \A i \in 1 .. Len(q) : Len(p) + i \in 1 .. Len(p \o q) /\ (p \o q)[Len(p) + i] = q[i]
         /\ \A i \in 1 .. Len(p \o q) : i \in 1 .. Len(p) \/ \E j \in 1 .. Len(q) : i = Len(p) + j
<1>1. p \o q \in Seq(Sector) /\ Len(p \o q) = Len(p) + Len(q) /\ Len(p) \in Nat /\ Len(q) \in Nat
  OBVIOUS
<1>2. \A i \in 1 .. Len(p) : i \in 1 .. Len(p \o q) /\ (p \o q)[i] = p[i]
  OBVIOUS
<1>3. \A i \in 1 .. Len(q) : Len(p) + i \in 1 .. Len(p \o q) /\ (p \o q)[Len(p) + i] = q[i]
  OBVIOUS
<1>4. ASSUME NEW i \in 1 .. Len(p \o q), i \notin 1 .. Len(p)
      PROVE  \E j \in 1 .. Len(q) : i = Len(p) + j
  <2>1. i - Len(p) \in 1 .. Len(q) /\ i = Len(p) + (i - Len(p))
    BY <1>1, <1>4
  <2> QED BY <2>1
<1> QED BY <1>1, <1>2, <1>3, <1>4

\* push_back of the sectors q to the pool p leaves the pool r; full says that it ended the loop.
Pushed(p, q, r) == r = Truncated(p \o q)
PoolFilled(p, q) == Overfull(p \o q)

\* A pool that takes sectors which are free and not in it.
LEMMA OffersMore ==
  ASSUME NEW T, NEW p \in Seq(Sector), NEW q \in Seq(Sector), NEW r, Pushed(p, q, r),
         Offers(T, p), \A i, j \in 1 .. Len(q) : q[i] = q[j] => i = j,
         \A j \in 1 .. Len(q) : Len(p) + j \in 1 .. Len(r) =>
            T[q[j]] = Free /\ \A i \in 1 .. Len(p) : p[i] # q[j]
  PROVE  Offers(T, r)
<1> DEFINE c == p \o q
<1>1. /\ c \in Seq(Sector) /\ Len(p) \in Nat
      /\ \A i \in 1 .. Len(p) : i \in 1 .. Len(c) /\ c[i] = p[i]
      /\ \A i \in 1 .. Len(q) : Len(p) + i \in 1 .. Len(c) /\ c[Len(p) + i] = q[i]
      /\ \A i \in 1 .. Len(c) : i \in 1 .. Len(p) \/ \E j \in 1 .. Len(q) : i = Len(p) + j
  BY Concatenated
<1>2. r = Truncated(c)
  BY DEF Pushed
<1> HIDE DEF c
<1>3. \A i \in 1 .. Len(r) : i \in 1 .. Len(c) /\ r[i] = c[i]
  BY <1>1, <1>2, TruncatedIs
<1>4. \A i \in 1 .. Len(r) : \/ i \in 1 .. Len(p) /\ r[i] = p[i]
                             \/ \E j \in 1 .. Len(q) : i = Len(p) + j /\ r[i] = q[j]
  <2> SUFFICES ASSUME NEW i \in 1 .. Len(r), ~(i \in 1 .. Len(p) /\ r[i] = p[i])
               PROVE  \E j \in 1 .. Len(q) : i = Len(p) + j /\ r[i] = q[j]
    OBVIOUS
  <2>1. i \in 1 .. Len(c) /\ r[i] = c[i] /\ i \notin 1 .. Len(p)
    BY <1>1, <1>3
  <2>2. PICK j \in 1 .. Len(q) : i = Len(p) + j
    BY <1>1, <2>1
  <2>3. r[i] = q[j]
    BY <1>1, <2>1, <2>2
  <2> QED BY <2>2, <2>3
<1>5. ASSUME NEW i \in 1 .. Len(r) PROVE T[r[i]] = Free
  <2>1. CASE i \in 1 .. Len(p) /\ r[i] = p[i]
    BY <2>1 DEF Offers
  <2>2. CASE \E j \in 1 .. Len(q) : i = Len(p) + j /\ r[i] = q[j]
    BY <2>2
  <2> QED BY <1>4, <2>1, <2>2
<1>6. ASSUME NEW i \in 1 .. Len(r), NEW j \in 1 .. Len(r), r[i] = r[j] PROVE i = j
  <2>1. CASE i \in 1 .. Len(p) /\ r[i] = p[i]
    <3>1. CASE j \in 1 .. Len(p) /\ r[j] = p[j]
      BY <1>6, <2>1, <3>1 DEF Offers
    <3>2. CASE \E k \in 1 .. Len(q) : j = Len(p) + k /\ r[j] = q[k]
      BY <1>6, <2>1, <3>2
    <3> QED BY <1>4, <3>1, <3>2
  <2>2. CASE \E k \in 1 .. Len(q) : i = Len(p) + k /\ r[i] = q[k]
    <3>1. PICK k \in 1 .. Len(q) : i = Len(p) + k /\ r[i] = q[k]
      BY <2>2
    <3>2. CASE j \in 1 .. Len(p) /\ r[j] = p[j]
      BY <1>6, <3>1, <3>2
    <3>3. CASE \E l \in 1 .. Len(q) : j = Len(p) + l /\ r[j] = q[l]
      BY <1>6, <3>1, <3>3
    <3> QED BY <1>4, <3>2, <3>3
  <2> QED BY <1>4, <2>1, <2>2
<1> QED BY <1>5, <1>6 DEF Offers

\* When the pool took everything, what was found is in it.
Taken(p, q, r) ==
  /\ PoolFilled(p, q) => Len(r) = MaxPool
  /\ ~PoolFilled(p, q) => \A i \in 1 .. Len(p) : \E k \in 1 .. Len(r) : r[k] = p[i]
  /\ ~PoolFilled(p, q) => \A j \in 1 .. Len(q) : \E k \in 1 .. Len(r) : r[k] = q[j]
  /\ \A k \in 1 .. Len(r) : \/ \E i \in 1 .. Len(p) : r[k] = p[i]
                            \/ \E j \in 1 .. Len(q) : r[k] = q[j]
LEMMA AllTaken ==
  ASSUME NEW p \in Seq(Sector), NEW q \in Seq(Sector), NEW r, Pushed(p, q, r)
  PROVE  Taken(p, q, r)
<1> DEFINE c == p \o q
<1>1. /\ c \in Seq(Sector) /\ Len(p) \in Nat
      /\ \A i \in 1 .. Len(p) : i \in 1 .. Len(c) /\ c[i] = p[i]
      /\ \A i \in 1 .. Len(q) : Len(p) + i \in 1 .. Len(c) /\ c[Len(p) + i] = q[i]
      /\ \A i \in 1 .. Len(c) : i \in 1 .. Len(p) \/ \E j \in 1 .. Len(q) : i = Len(p) + j
  BY Concatenated
<1>2. r = Truncated(c)
  BY DEF Pushed
<1> HIDE DEF c
<1>3. /\ \A i \in 1 .. Len(r) : i \in 1 .. Len(c) /\ r[i] = c[i]
      /\ Len(r) = IF Overfull(c) THEN MaxPool ELSE Len(c)
  BY <1>1, <1>2, TruncatedIs
<1>4. \A k \in 1 .. Len(r) : \/ \E i \in 1 .. Len(p) : r[k] = p[i]
                             \/ \E j \in 1 .. Len(q) : r[k] = q[j]
  <2> SUFFICES ASSUME NEW k \in 1 .. Len(r), ~\E i \in 1 .. Len(p) : r[k] = p[i]
               PROVE  \E j \in 1 .. Len(q) : r[k] = q[j]
    OBVIOUS
  <2>1. k \in 1 .. Len(c) /\ r[k] = c[k] /\ k \notin 1 .. Len(p)
    BY <1>1, <1>3
  <2>2. PICK j \in 1 .. Len(q) : k = Len(p) + j
    BY <1>1, <2>1
  <2>3. r[k] = q[j]
    BY <1>1, <2>1, <2>2
  <2> QED BY <2>3
<1>5. ASSUME ~Overfull(c) PROVE Len(r) = Len(c)
  BY <1>3, <1>5
<1>6. ~Overfull(c) => \A i \in 1 .. Len(p) : i \in 1 .. Len(r) /\ r[i] = p[i]
  BY <1>1, <1>3, <1>5
<1>7. ~Overfull(c) => \A j \in 1 .. Len(q) : Len(p) + j \in 1 .. Len(r) /\ r[Len(p) + j] = q[j]
  BY <1>1, <1>3, <1>5
<1> QED BY <1>3, <1>4, <1>6, <1>7 DEF c, PoolFilled, Taken

\* A step of LoadFreeSectors.
LEMMA LoadIsGood ==
  ASSUME TypeOK, CallShape, Good, op.kind \in {"write", "mount"}, op.step \in {"lookup", "alloc", "scan"},
         NEW step \in {"scan", Loaded}, NEW scan,
         op' = [op EXCEPT !.step = step, !.scan = scan],
         UNCHANGED <<drive, cache, used, boot, start, mounted>>,
         Offers(TableNow, pool'),
         step = "scan" => ScannedSoFar(TableNow, pool)',
         step = "take" /\ pool' = <<>> => \A s \in Sector : TableNow[s] # Free
  PROVE  Good'
<1>1. Loaded = IF op.kind = "mount" THEN "root" ELSE "take"
  BY DEF Loaded
<1> HIDE DEF Loaded
<1>2. /\ op'.kind = op.kind /\ op'.node = op.node /\ op'.first = op.first /\ op'.at = op.at
      /\ op'.step = step /\ step # "link" /\ op.step # "link"
      /\ step \in {"scan", "root", "take"} /\ (op.kind = "write" => step # "root")
  BY <1>1 DEF TypeOK, Op
<1>3. TableNow' = TableNow /\ Chained(TableNow', Firsts', Pending') /\ Counted(TableNow)'
  BY <1>2, SameTable
<1>4. DeleteOnChain'
  BY <1>2 DEF DeleteOnChain
<1>5. WriteOnChain(TableNow)'
  <2>1. op.kind = "write" => op.step \in {"alloc", "scan"}
    BY DEF CallShape
  <2> QED BY <1>2, <1>3, <2>1 DEF Good, WriteOnChain
<1>6. PoolFollows(TableNow)'
  BY <1>2, <1>3 DEF PoolFollows
<1> QED BY <1>3, <1>4, <1>5, <1>6 DEF Good

LEMMA BlocksAreNumbers == /\ \A s \in Sector : BlockOf(s) \in Nat /\ BlockOf(s) < Blocks
                          /\ Blocks \in Nat \ {0} /\ Batch \in Nat \ {0} /\ MaxPool \in Nat \ {0}
BY BlocksOfSectors, SizesAssumption DEF Block

LEMMA NotEmpty == \A q : q = <<>> => Len(q) = 0
OBVIOUS

LEMMA CacheLookupIsGood == ASSUME TypeOK, CallShape, Good, CacheLookup PROVE Good'
<1> DEFINE found == FreeSectors(copy, cached)
           step == IF PoolFilled(pool, found) THEN Loaded ELSE "scan"
           scan == 0
<1>1. \/ op.kind = "mount" /\ op.step = "lookup"
      \/ op.kind = "write" /\ op.step = "alloc" /\ pool = <<>>
  BY DEF CacheLookup
<1>2. /\ Pushed(pool, found, pool') /\ op' = [op EXCEPT !.step = step, !.scan = scan]
      /\ UNCHANGED <<drive, cache, used, boot, start, mounted>>
  BY DEF CacheLookup, Pushed, PoolFilled
<1>3. pool = <<>> /\ pool \in Seq(Sector) /\ Len(pool) = 0
  BY <1>1 DEF Good, PoolFollows, TypeOK
<1>4. /\ found \in Seq(Sector)
      /\ \A i \in 1 .. Len(found) : copy[found[i]] = Free /\ BlockOf(found[i]) \in cached
      /\ \A i, j \in 1 .. Len(found) : found[i] = found[j] => i = j
      /\ \A s \in Sector : copy[s] = Free /\ BlockOf(s) \in cached => \E i \in 1 .. Len(found) : found[i] = s
  BY FreeSectorsAre
<1>5. step \in {"scan", Loaded} /\ (step = "scan" => ~PoolFilled(pool, found)) /\ (step = "take" => PoolFilled(pool, found))
  BY DEF Loaded
<1> HIDE DEF found, step, scan
<1>6. \A s \in Sector : BlockOf(s) \in cached => TableNow[s] = copy[s]
  BY DEF TableNow, Entry
<1>7. Offers(TableNow, pool')
  <2>1. Offers(TableNow, pool)
    BY <1>3 DEF Offers
  <2>2. \A j \in 1 .. Len(found) : TableNow[found[j]] = Free
    BY <1>4, <1>6
  <2>3. \A j \in 1 .. Len(found) : Len(pool) + j \in 1 .. Len(pool') =>
           TableNow[found[j]] = Free /\ \A i \in 1 .. Len(pool) : pool[i] # found[j]
    BY <1>3, <2>2
  <2> QED BY ZenonT(40), <1>2, <1>3, <1>4, <2>1, <2>3, OffersMore
<1>8. Taken(pool, found, pool')
  BY <1>2, <1>3, <1>4, AllTaken
<1>9. step = "scan" => ScannedSoFar(TableNow, pool)'
  <2> SUFFICES ASSUME step = "scan" PROVE ScannedSoFar(TableNow, pool)'
    OBVIOUS
  <2>1. ~PoolFilled(pool, found) /\ TableNow' = TableNow /\ cached' = cached
    BY <1>2, <1>5, TableStays DEF cache
  <2>2. op'.scan = 0
    BY <1>2 DEF TypeOK, Op, scan
  <2>3. \A s \in Sector : Seen(s)' <=> BlockOf(s) \in cached
    BY <2>1, <2>2, BlocksAreNumbers DEF Seen
  <2>4. ASSUME NEW s \in Sector, TableNow[s] = Free, BlockOf(s) \in cached
        PROVE  \E k \in 1 .. Len(pool') : pool'[k] = s
    <3>1. copy[s] = Free
      BY <1>6, <2>4
    <3>2. PICK i \in 1 .. Len(found) : found[i] = s
      BY <1>4, <2>4, <3>1
    <3> QED BY <1>8, <2>1, <3>2 DEF Taken
  <2>5. \A k \in 1 .. Len(pool') : pool'[k] \in Sector /\ BlockOf(pool'[k]) \in cached
    BY <1>3, <1>4, <1>8 DEF Taken
  <2> QED BY <2>1, <2>3, <2>4, <2>5 DEF ScannedSoFar
<1>10. step = "take" /\ pool' = <<>> => \A s \in Sector : TableNow[s] # Free
  BY <1>5, <1>8, BlocksAreNumbers, NotEmpty DEF Taken
<1> QED BY <1>1, <1>2, <1>5, <1>7, <1>9, <1>10, LoadIsGood

LEMMA SkipIsGood == ASSUME TypeOK, CallShape, IInv, Good, SkipCached PROVE Good'
<1> DEFINE step == "scan"
           scan == op.scan + 1
<1>1. /\ op.step = "scan" /\ op.scan \in cached /\ pool' = pool
      /\ UNCHANGED <<drive, cache, used, boot, start, mounted>>
      /\ op' = [op EXCEPT !.scan = op.scan + 1]
  BY DEF SkipCached
<1>2. op' = [op EXCEPT !.step = step, !.scan = scan] /\ op'.scan = op.scan + 1
  BY <1>1 DEF TypeOK, Op
<1>3. op.kind \in {"write", "mount"}
  BY <1>1, OpParts, IdleIs DEF TypeOK, CallShape
<1>4. mounted \/ op.kind = "mount"
  BY <1>3 DEF IInv, CallsAreMounted
<1>5. Offers(TableNow, pool') /\ ScannedSoFar(TableNow, pool)
  BY <1>1, <1>4 DEF Good, PoolFollows
<1>6. ScannedSoFar(TableNow, pool)'
  <2>1. TableNow' = TableNow /\ cached' = cached
    BY <1>1, TableStays DEF cache
  <2>2. \A s \in Sector : Seen(s)' <=> Seen(s)
    <3>1. op.scan \in Nat
      BY OpParts, BlocksAreNumbers DEF TypeOK
    <3>2. \A s \in Sector : BlockOf(s) < op.scan + 1 <=> BlockOf(s) < op.scan \/ BlockOf(s) = op.scan
      BY <3>1, BlocksAreNumbers
    <3> QED BY <1>1, <1>2, <2>1, <3>2 DEF Seen
  <2>3. \A i \in 1 .. Len(pool) : pool[i] \in Sector
    BY DEF TypeOK
  <2> QED BY <1>1, <1>5, <2>1, <2>2, <2>3 DEF ScannedSoFar
<1>7. step \in {"scan", Loaded} /\ step # "take"
  OBVIOUS
<1> HIDE DEF step, scan
<1> QED BY <1>1, <1>2, <1>3, <1>5, <1>6, <1>7, LoadIsGood

LEMMA ReadBatchIsGood == ASSUME TypeOK, CallShape, IInv, Good, Trusted, Trusted', ReadBatch PROVE Good'
<1> DEFINE found == FreeSectors(drive, BatchAt(op.scan))
           step == IF Overfull(pool \o found) THEN Loaded ELSE "scan"
           scan == Smaller(op.scan + Batch, Blocks)
<1>1. /\ op.step = "scan"
      /\ Pushed(pool, found, pool') /\ op' = [op EXCEPT !.step = step, !.scan = scan]
      /\ UNCHANGED <<drive, cache, used, boot, start, mounted>>
  BY DEF ReadBatch, Pushed
<1>2. pool \in Seq(Sector) /\ Len(pool) \in Nat /\ op.scan \in Nat /\ op.scan <= Blocks
  BY OpParts, BlocksAreNumbers DEF TypeOK
<1>3. op.kind \in {"write", "mount"} /\ (mounted \/ op.kind = "mount")
  BY <1>1, OpParts, IdleIs DEF TypeOK, CallShape, IInv, CallsAreMounted
<1>4. Offers(TableNow, pool) /\ ScannedSoFar(TableNow, pool)
  BY <1>1, <1>3 DEF Good, PoolFollows
<1>5. /\ found \in Seq(Sector)
      /\ \A i \in 1 .. Len(found) : drive[found[i]] = Free /\ BlockOf(found[i]) \in BatchAt(op.scan)
      /\ \A i, j \in 1 .. Len(found) : found[i] = found[j] => i = j
      /\ \A s \in Sector : drive[s] = Free /\ BlockOf(s) \in BatchAt(op.scan)
                              => \E i \in 1 .. Len(found) : found[i] = s
  BY FreeSectorsAre
<1>6. /\ scan \in Nat /\ op.scan <= scan
      /\ \A s \in Sector : BlockOf(s) \in BatchAt(op.scan) <=> op.scan <= BlockOf(s) /\ BlockOf(s) < scan
  BY <1>2, BlocksAreNumbers DEF BatchAt, Smaller
<1>7. \A s \in Sector : BlockOf(s) \notin cached => TableNow[s] = drive[s]
  BY DEF TableNow, Entry
<1>8. ASSUME NEW j \in 1 .. Len(found), Len(pool) + j \in 1 .. Len(pool')
      PROVE  BlockOf(found[j]) \notin cached
  <2> DEFINE q == pool \o found
             offered == {q[i] : i \in Len(pool) + 1 .. Smaller(Len(q), MaxPool)}
  <2>1. \A s \in offered : BlockOf(s) \notin cached
    BY DEF ReadBatch, Trusted
  <2>2. pool' = Truncated(q)
    BY <1>1 DEF Pushed
  <2>3. q \in Seq(Sector) /\ q[Len(pool) + j] = found[j]
    BY <1>2, <1>5, Concatenated
  <2> HIDE DEF found
  <2>4. Len(pool') = Smaller(Len(q), MaxPool)
    <3> HIDE DEF q, offered
    <3>1. Len(pool') = IF Overfull(q) THEN MaxPool ELSE Len(q)
      BY <2>2, <2>3, TruncatedIs
    <3> QED BY <2>3, <3>1, BlocksAreNumbers DEF Overfull, Smaller
  <2>5. Len(pool) + j \in Len(pool) + 1 .. Smaller(Len(q), MaxPool)
    <3> HIDE DEF q, offered
    <3>1. j \in Nat /\ j >= 1 /\ Len(found) \in Nat
      BY <1>5
    <3> QED BY <1>2, <1>8, <2>4, <3>1
  <2>6. q[Len(pool) + j] \in offered
    BY <2>5
  <2> QED BY <2>1, <2>3, <2>6
<1>9. step \in {"scan", Loaded} /\ (step = "scan" => ~PoolFilled(pool, found)) /\ (step = "take" => PoolFilled(pool, found))
  BY DEF Loaded, PoolFilled
<1> HIDE DEF found, step, scan
<1>10. Offers(TableNow, pool')
  <2>1. ASSUME NEW j \in 1 .. Len(found), Len(pool) + j \in 1 .. Len(pool')
        PROVE  TableNow[found[j]] = Free /\ \A i \in 1 .. Len(pool) : pool[i] # found[j]
    <3>1. found[j] \in Sector /\ BlockOf(found[j]) \notin cached
      BY <1>5, <1>8, <2>1
    <3>2. ~Seen(found[j])
      BY <1>2, <1>5, <1>6, <3>1, BlocksAreNumbers DEF Seen
    <3> QED BY <1>4, <1>5, <1>7, <3>1, <3>2 DEF ScannedSoFar
  <2>2. found \in Seq(Sector) /\ \A i, j \in 1 .. Len(found) : found[i] = found[j] => i = j
    BY <1>5
  <2> QED BY <1>1, <1>2, <1>4, <2>1, <2>2, OffersMore
<1>11. Taken(pool, found, pool')
  BY <1>1, <1>2, <1>5, AllTaken
<1>12. step = "scan" => ScannedSoFar(TableNow, pool)'
  <2> SUFFICES ASSUME step = "scan" PROVE ScannedSoFar(TableNow, pool)'
    OBVIOUS
  <2>1. ~PoolFilled(pool, found) /\ TableNow' = TableNow /\ cached' = cached /\ op'.scan = scan
    BY <1>1, <1>9, TableStays DEF cache, TypeOK, Op
  <2>2. \A s \in Sector : Seen(s)' <=> BlockOf(s) \in cached \/ BlockOf(s) < scan
    BY <2>1 DEF Seen
  <2>3. \A s \in Sector : Seen(s)' <=> Seen(s) \/ (op.scan <= BlockOf(s) /\ BlockOf(s) < scan)
    BY <1>2, <1>6, <2>2, BlocksAreNumbers DEF Seen
  <2>4. ASSUME NEW s \in Sector, TableNow[s] = Free, Seen(s)'
        PROVE  \E k \in 1 .. Len(pool') : pool'[k] = s
    <3>1. CASE Seen(s)
      <4>1. PICK i \in 1 .. Len(pool) : pool[i] = s
        BY <1>4, <2>4, <3>1 DEF ScannedSoFar
      <4> QED BY <1>11, <2>1, <4>1 DEF Taken
    <3>2. CASE ~Seen(s)
      <4>1. BlockOf(s) \in BatchAt(op.scan) /\ drive[s] = Free
        BY <1>6, <1>7, <2>3, <2>4, <3>2 DEF Seen
      <4>2. PICK i \in 1 .. Len(found) : found[i] = s
        BY <1>5, <4>1
      <4> QED BY <1>11, <2>1, <4>2 DEF Taken
    <3> QED BY <3>1, <3>2
  <2>5. ASSUME NEW k \in 1 .. Len(pool'), NEW s, s = pool'[k] PROVE s \in Sector /\ Seen(s)'
    <3>1. CASE \E i \in 1 .. Len(pool) : pool'[k] = pool[i]
      BY <1>2, <1>4, <2>3, <2>5, <3>1 DEF ScannedSoFar
    <3>2. CASE \E j \in 1 .. Len(found) : pool'[k] = found[j]
      BY <1>5, <1>6, <2>3, <2>5, <3>2
    <3> QED BY <1>11, <3>1, <3>2 DEF Taken
  <2>6. \A k \in 1 .. Len(pool') : BlockOf(pool'[k]) \in cached \/ BlockOf(pool'[k]) < scan
    BY <2>2, <2>5
  <2> QED BY <2>1, <2>4, <2>6 DEF ScannedSoFar, Seen
<1>13. step = "take" /\ pool' = <<>> => \A s \in Sector : TableNow[s] # Free
  BY <1>9, <1>11, BlocksAreNumbers, NotEmpty DEF Taken
<1> QED BY <1>1, <1>3, <1>9, <1>10, <1>12, <1>13, LoadIsGood

LEMMA ScanEndsIsGood == ASSUME TypeOK, CallShape, IInv, Good, ScanEnds PROVE Good'
<1> DEFINE step == Loaded
           scan == op.scan
<1>1. /\ op.step = "scan" /\ op.scan = Blocks /\ pool' = pool
      /\ UNCHANGED <<drive, cache, used, boot, start, mounted>>
      /\ op' = [op EXCEPT !.step = Loaded]
  BY DEF ScanEnds
<1>2. op' = [op EXCEPT !.step = step, !.scan = scan]
  BY <1>1 DEF TypeOK, Op
<1>3. op.kind \in {"write", "mount"} /\ (mounted \/ op.kind = "mount")
  BY <1>1, OpParts, IdleIs DEF TypeOK, CallShape, IInv, CallsAreMounted
<1>4. Offers(TableNow, pool) /\ ScannedSoFar(TableNow, pool)
  BY <1>1, <1>3 DEF Good, PoolFollows
<1>5. pool' = <<>> => \A s \in Sector : TableNow[s] # Free
  <2>1. \A s \in Sector : Seen(s)
    BY <1>1, BlocksAreNumbers DEF Seen
  <2> QED BY <1>1, <1>4, <2>1, NotEmpty DEF ScannedSoFar
<1>6. step \in {"scan", Loaded} /\ step # "scan"
  BY DEF Loaded
<1> HIDE DEF step, scan
<1> QED BY <1>1, <1>2, <1>3, <1>4, <1>5, <1>6, LoadIsGood

LEMMA AllocateIsGood == ASSUME TypeOK, CallShape, IInv, Trusted, Good, AllocateSector PROVE Good'
<1> DEFINE h == Head(pool)
<1>1. /\ op.kind = "write" /\ op.step \in {"alloc", "take"} /\ pool # <<>>
      /\ Access(h, EOC) /\ pool' = Tail(pool) /\ used' = used + 1
      /\ op' = [op EXCEPT !.step = "link", !.new = h]
      /\ UNCHANGED <<boot, start, mounted>>
  BY DEF AllocateSector, Ready, SetSectorEntryValue
<1>2. /\ pool \in Seq(Sector) /\ h \in Sector /\ h = pool[1] /\ Len(pool) >= 1 /\ Len(pool) \in Nat
      /\ Tail(pool) \in Seq(Sector) /\ Len(Tail(pool)) = Len(pool) - 1
      /\ \A i \in 1 .. Len(Tail(pool)) : i + 1 \in 1 .. Len(pool) /\ Tail(pool)[i] = pool[i + 1]
  BY <1>1 DEF TypeOK
<1> HIDE DEF h
<1>3. mounted /\ op.node \in Node
  BY <1>1 DEF IInv, CallsAreMounted, CallShape
<1>4. Offers(TableNow, pool) /\ TableNow[h] = Free
  BY <1>2, <1>3 DEF Good, PoolFollows, Offers
<1>5. \A s \in Sector : TableNow'[s] = IF s = h THEN EOC ELSE TableNow[s]
  BY <1>1, <1>2, AccessIs
<1>6. /\ op'.kind = "write" /\ op'.step = "link" /\ op'.node = op.node /\ op'.first = op.first
      /\ op'.at = op.at /\ op'.new = h
  BY <1>1 DEF TypeOK, Op
<1>7. Chained(TableNow', Firsts', Pending') /\ h # Root
  <2>1. Firsts' = Firsts
    BY <1>1, <1>6 DEF Firsts, First
  <2>2. Pending = EOC /\ Pending' = h
    BY <1>1, <1>6 DEF Pending
  <2>3. Chained(TableNow, Firsts, EOC)
    BY <2>2 DEF Good
  <2>4. TableNow \in [Sector -> Value] /\ Firsts \in [Node -> Value]
    BY NowType
  <2>5. Chained(TableNow', Firsts, h)
    BY <1>2, <1>4, <1>5, <2>3, <2>4, ChainedTakes
  <2>6. h # Root
    BY <1>4, <2>3, Values DEF Chained
  <2> QED BY <2>1, <2>2, <2>5, <2>6
<1>8. WriteOnChain(TableNow)' /\ DeleteOnChain'
  <2>1. IF op.first = EOC THEN op.at = EOC ELSE op.at \in Sector \ {Root} /\ TableNow[op.at] = EOC
    BY <1>1 DEF Good, WriteOnChain
  <2>2. op.at # h
    BY <1>2, <1>4, <2>1, Values
  <2>3. DeleteOnChain'
    BY <1>6 DEF DeleteOnChain
  <2>4. IF op.first = EOC THEN op.at = EOC ELSE op.at \in Sector \ {Root} /\ TableNow'[op.at] = EOC
    BY <1>5, <2>1, <2>2
  <2>5. h \in Sector \ {Root} /\ TableNow'[h] = EOC
    BY <1>2, <1>5, <1>7
  <2>6. WriteOnChain(TableNow)'
    BY <1>6, <2>2, <2>4, <2>5 DEF WriteOnChain
  <2> QED BY <2>3, <2>6
<1>9. PoolFollows(TableNow)'
  <2>1. \A i \in 1 .. Len(pool') : TableNow'[pool'[i]] = Free
    <3> SUFFICES ASSUME NEW i \in 1 .. Len(pool') PROVE TableNow'[pool'[i]] = Free
      OBVIOUS
    <3>1. i + 1 \in 1 .. Len(pool) /\ pool'[i] = pool[i + 1] /\ pool[i + 1] \in Sector
      BY <1>1, <1>2
    <3>2. i \in Nat /\ i >= 1 /\ i + 1 # 1 /\ 1 \in 1 .. Len(pool)
      BY <1>1, <1>2
    <3>3. pool[i + 1] # h
      BY <1>2, <1>4, <3>1, <3>2 DEF Offers
    <3>4. TableNow[pool[i + 1]] = Free
      BY <1>4, <3>1 DEF Offers
    <3> QED BY <1>5, <3>1, <3>3, <3>4
  <2>2. \A i, j \in 1 .. Len(pool') : pool'[i] = pool'[j] => i = j
    <3> SUFFICES ASSUME NEW i \in 1 .. Len(pool'), NEW j \in 1 .. Len(pool'), pool'[i] = pool'[j] PROVE i = j
      OBVIOUS
    <3>1. /\ i + 1 \in 1 .. Len(pool) /\ pool'[i] = pool[i + 1]
          /\ j + 1 \in 1 .. Len(pool) /\ pool'[j] = pool[j + 1]
      BY <1>1, <1>2
    <3>2. i + 1 = j + 1
      BY <1>4, <3>1 DEF Offers
    <3> QED BY <3>2
  <2> QED BY <1>6, <2>1, <2>2 DEF PoolFollows, Offers
<1>10. Counted(TableNow)'
  <2>1. Cardinality(Used(TableNow')) = Cardinality(Used(TableNow)) + 1
    <3>1. TableNow'[h] # Free /\ \A s \in Sector \ {h} : TableNow[s] # Free <=> TableNow'[s] # Free
      BY <1>2, <1>5, Values
    <3> QED BY <1>2, <1>4, <3>1, Counting
  <2>2. used = Cardinality(Used(TableNow))
    BY <1>3 DEF Good, Counted
  <2> QED BY <1>1, <1>3, <1>6, <2>1, <2>2 DEF Counted
<1> QED BY <1>7, <1>8, <1>9, <1>10 DEF Good

LEMMA LinkIsGood == ASSUME TypeOK, CallShape, IInv, Trusted, Good, LinkFirst \/ LinkNext PROVE Good'
<1>1. op.step = "link" /\ UNCHANGED <<pool, used, boot, start, mounted>>
  BY DEF LinkFirst, LinkNext
<1>2. op.kind = "write" /\ op.node \in Node /\ mounted
  BY <1>1, OpParts, IdleIs DEF TypeOK, CallShape, IInv, CallsAreMounted
<1>3. /\ op.new \in Sector \ {Root} /\ TableNow[op.new] = EOC /\ op.at # op.new
      /\ IF op.first = EOC THEN op.at = EOC ELSE op.at \in Sector \ {Root} /\ TableNow[op.at] = EOC
  BY <1>1, <1>2 DEF Good, WriteOnChain
<1>4. /\ TableNow \in [Sector -> Value] /\ Firsts \in [Node -> Value] /\ op.new \in Value /\ op.new # EOC
      /\ Firsts[op.node] = op.first
  BY <1>2, <1>3, NowType, Values DEF First
<1>5. Chained(TableNow, Firsts, op.new)
  BY <1>1 DEF Good, Pending
<1>6. CASE LinkFirst
  <2>1. op.first = EOC /\ op' = [op EXCEPT !.step = "data", !.first = op.new] /\ UNCHANGED <<drive, cache>>
    BY <1>6 DEF LinkFirst
  <2>2. op'.kind = "write" /\ op'.step = "data" /\ op'.node = op.node /\ op'.first = op.new /\ op'.new = op.new
    BY <1>2, <2>1 DEF TypeOK, Op
  <2>3. TableNow' = TableNow /\ Pending' = EOC
    BY <2>1, <2>2, TableStays DEF Pending
  <2>4. \A n \in Node : Firsts'[n] = IF n = op.node THEN op.new ELSE Firsts[n]
    BY <1>1, <1>2, <2>2 DEF Firsts, First
  <2>5. Chained(TableNow, Firsts', EOC)
    BY <1>2, <1>4, <1>5, <2>1, <2>4, ChainedFirst
  <2>6. WriteOnChain(TableNow)' /\ DeleteOnChain'
    BY <1>3, <1>4, <2>2, <2>3 DEF WriteOnChain, DeleteOnChain
  <2>7. PoolFollows(TableNow)' /\ Counted(TableNow)'
    BY <1>1, <1>2, <2>2, <2>3 DEF Good, PoolFollows, Counted
  <2> QED BY <2>3, <2>5, <2>6, <2>7 DEF Good
<1>7. CASE LinkNext
  <2>1. /\ op.first # EOC /\ op.at \in Sector /\ Access(op.at, op.new) /\ op' = [op EXCEPT !.step = "data"]
    BY <1>7 DEF LinkNext, SetSectorEntryValue
  <2>2. op'.kind = "write" /\ op'.step = "data" /\ op'.node = op.node /\ op'.first = op.first /\ op'.new = op.new
    BY <1>2, <2>1 DEF TypeOK, Op
  <2>3. \A s \in Sector : TableNow'[s] = IF s = op.at THEN op.new ELSE TableNow[s]
    BY <2>1, AccessIs
  <2>4. Firsts' = Firsts /\ Pending' = EOC
    BY <1>1, <1>2, <2>2 DEF Firsts, First, Pending
  <2>5. op.at \in Sector \ {Root} /\ TableNow[op.at] = EOC
    BY <1>3, <2>1
  <2>6. Chained(TableNow', Firsts', Pending')
    <3>1. Chained(TableNow', Firsts, EOC)
      BY <1>4, <1>5, <2>3, <2>5, ChainedNext
    <3> QED BY <2>4, <3>1
  <2>7. WriteOnChain(TableNow)' /\ DeleteOnChain'
    BY <1>3, <2>1, <2>2, <2>3 DEF WriteOnChain, DeleteOnChain
  <2>8. \A s \in Sector : TableNow[s] # Free <=> TableNow'[s] # Free
    BY <1>3, <2>3, <2>5, Values
  <2>9. PoolFollows(TableNow)'
    <3>1. \A i \in 1 .. Len(pool) : pool[i] \in Sector
      BY DEF TypeOK
    <3>2. Offers(TableNow, pool)
      BY <1>2 DEF Good, PoolFollows
    <3>3. Offers(TableNow', pool')
      BY <1>1, <2>8, <3>1, <3>2 DEF Offers
    <3> QED BY <2>2, <3>3 DEF PoolFollows
  <2>10. Counted(TableNow)'
    <3>1. Cardinality(Used(TableNow')) = Cardinality(Used(TableNow))
      BY <2>1, <2>8, Counting
    <3> QED BY <1>1, <1>2, <2>2, <3>1 DEF Good, Counted
  <2> QED BY <2>6, <2>7, <2>9, <2>10 DEF Good
<1> QED BY <1>6, <1>7

LEMMA WriteDataIsGood == ASSUME TypeOK, CallShape, IInv, Good, WriteData PROVE Good'
<1>1. op.step = "data" /\ UNCHANGED <<drive, cache, pool, used, boot, mounted>>
  BY DEF WriteData
<1>2. op.kind = "write" /\ op.node \in Node /\ mounted
  BY <1>1, OpParts, IdleIs DEF TypeOK, CallShape, IInv, CallsAreMounted
<1>3. op.new \in Sector \ {Root} /\ TableNow[op.new] = EOC /\ op.first # EOC
  BY <1>1, <1>2 DEF Good, WriteOnChain
<1>4. TableNow' = TableNow
  BY <1>1, TableStays
<1>5. CASE op' = [op EXCEPT !.step = "alloc", !.at = op.new, !.new = EOC] /\ UNCHANGED start
  <2>1. op'.kind = "write" /\ op'.step = "alloc" /\ op'.node = op.node /\ op'.first = op.first /\ op'.at = op.new
    BY <1>2, <1>5 DEF TypeOK, Op
  <2>2. Chained(TableNow', Firsts', Pending') /\ Counted(TableNow)'
    BY <1>1, <1>2, <1>5, <2>1, SameTable
  <2>3. WriteOnChain(TableNow)' /\ DeleteOnChain'
    BY <1>3, <1>4, <2>1 DEF WriteOnChain, DeleteOnChain
  <2>4. PoolFollows(TableNow)'
    BY <1>1, <1>2, <1>4, <2>1 DEF Good, PoolFollows
  <2> QED BY <2>2, <2>3, <2>4 DEF Good
<1>6. CASE start' = [start EXCEPT ![op.node] = op.first] /\ op' = Idle
  <2>1. \A n \in Node : start'[n] = First(n)
    BY <1>2, <1>6 DEF First, TypeOK
  <2>2. Chained(TableNow', Firsts', EOC)
    BY <1>1, <1>4, <1>6, <2>1, FirstsAtEnd
  <2>3. /\ mounted' => Offers(TableNow', pool') /\ used' = Cardinality(Used(TableNow'))
        /\ mounted'
    BY <1>1, <1>2, <1>4 DEF Good, PoolFollows, Counted
  <2> QED BY <1>6, <2>2, <2>3, EndIsGood
<1> QED BY <1>5, <1>6 DEF WriteData

LEMMA DeAllocateIsGood == ASSUME TypeOK, CallShape, IInv, Trusted, Good, DeAllocateSector PROVE Good'
<1> DEFINE x == op.at
           v == TableNow[op.at]
<1>1. /\ op.kind = "delete" /\ op.step = "free" /\ x \in Sector /\ Access(x, Free)
      /\ used' = used - 1 /\ pool' = IF Len(pool) < MaxPool THEN Append(pool, x) ELSE pool
      /\ UNCHANGED <<boot, start, mounted>>
  BY DEF DeAllocateSector, SetSectorEntryValue
<1>2. op.node \in Node /\ mounted /\ op.first = start[op.node]
  BY <1>1 DEF CallShape, IInv, CallsAreMounted, Good, DeleteOnChain
<1>3. /\ op'.kind = "delete" /\ op'.node = op.node /\ op'.first = op.first /\ op'.at = v
      /\ op'.step = IF v = EOC THEN "mark" ELSE "free"
  <2>1. op \in Op /\ op' = [op EXCEPT !.at = v, !.step = IF v = EOC THEN "mark" ELSE "free"]
    BY <1>1, NowType DEF DeAllocateSector, TypeOK
  <2> HIDE DEF v
  <2> QED BY <1>1, <2>1 DEF Op
<1>4. \A s \in Sector : TableNow'[s] = IF s = x THEN Free ELSE TableNow[s]
  BY <1>1, AccessIs
<1>5. /\ TableNow \in [Sector -> Value] /\ Firsts \in [Node -> Value] /\ Firsts[op.node] = x
      /\ Pending = EOC /\ Pending' = EOC
  BY <1>1, <1>2, <1>3, NowType DEF First, Pending
<1>6. \A n \in Node : Firsts'[n] = IF n = op.node THEN v ELSE Firsts[n]
  BY <1>1, <1>2, <1>3 DEF Firsts, First
<1>7. Chained(TableNow', Firsts', Pending') /\ TableNow[x] # Free
  <2>1. Chained(TableNow, Firsts, EOC)
    BY <1>5 DEF Good
  <2> HIDE DEF x
  <2>2. x \in Sector /\ op.node \in Node /\ \A n \in Node : Firsts'[n] = IF n = op.node THEN TableNow[x] ELSE Firsts[n]
    BY <1>1, <1>2, <1>6 DEF x
  <2> QED BY <1>4, <1>5, <2>1, <2>2, ChainedFrees
<1>8. WriteOnChain(TableNow)' /\ DeleteOnChain'
  BY <1>1, <1>2, <1>3 DEF WriteOnChain, DeleteOnChain
<1> HIDE DEF x, v
<1>9. PoolFollows(TableNow)'
  <2>1. Offers(TableNow, pool) /\ pool \in Seq(Sector)
    BY <1>2 DEF Good, PoolFollows, TypeOK
  <2>2. \A i \in 1 .. Len(pool) : pool[i] \in Sector /\ pool[i] # x
    BY <1>7, <2>1 DEF Offers
  <2>3. Offers(TableNow', pool)
    BY <1>4, <2>1, <2>2 DEF Offers
  <2>4. CASE pool' = Append(pool, x)
    <3>1. /\ Len(pool') = Len(pool) + 1 /\ Len(pool) \in Nat /\ pool'[Len(pool) + 1] = x
          /\ \A i \in 1 .. Len(pool) : pool'[i] = pool[i]
          /\ \A i \in 1 .. Len(pool') : i \in 1 .. Len(pool) \/ i = Len(pool) + 1
      BY <1>1, <2>1, <2>4
    <3>2. TableNow'[x] = Free
      BY <1>1, <1>4
    <3>3. Offers(TableNow', pool')
      BY <2>2, <2>3, <3>1, <3>2 DEF Offers
    <3> QED BY <1>3, <3>3 DEF PoolFollows
  <2>5. CASE pool' = pool
    BY <1>3, <2>3, <2>5 DEF PoolFollows
  <2> QED BY <1>1, <2>4, <2>5
<1>10. Counted(TableNow)'
  <2>1. Cardinality(Used(TableNow)) = Cardinality(Used(TableNow')) + 1 /\ Cardinality(Used(TableNow')) \in Nat
    <3>1. TableNow'[x] = Free /\ \A s \in Sector \ {x} : TableNow'[s] # Free <=> TableNow[s] # Free
      BY <1>1, <1>4
    <3> QED BY <1>1, <1>7, <3>1, Counting
  <2>2. used = Cardinality(Used(TableNow))
    BY <1>2 DEF Good, Counted
  <2> QED BY <1>1, <1>2, <1>3, <2>1, <2>2 DEF Counted
<1> QED BY <1>7, <1>8, <1>9, <1>10 DEF Good

LEMMA MountIsGood == ASSUME TypeOK, CallShape, Good, Mount \/ WriteFSBootBlock PROVE Good'
<1>1. /\ op = Idle /\ UNCHANGED <<drive, cache, start, mounted>>
      /\ op.kind = "none" /\ op.step = "none" /\ op.node \notin Node
  BY IdleIs DEF Mount, WriteFSBootBlock
<1>2. /\ op'.node \notin Node /\ op'.step # "link"
      /\ \/ op'.kind = "mount" /\ op'.step = "lookup"
         \/ op'.kind = "unmount" /\ op'.step = "flush"
  BY NodeAssumption DEF Mount, WriteFSBootBlock, Idle
<1>3. TableNow' = TableNow /\ Firsts' = Firsts /\ Pending = EOC /\ Pending' = EOC
  BY <1>1, <1>2, TableStays DEF Firsts, First, Pending
<1>4. Chained(TableNow', Firsts', Pending')
  BY <1>3 DEF Good
<1>5. WriteOnChain(TableNow)' /\ DeleteOnChain'
  BY <1>2 DEF WriteOnChain, DeleteOnChain
<1>6. CASE Mount
  <2>1. /\ ~mounted /\ ~mounted' /\ pool' = <<>> /\ used' = boot /\ boot' = boot
        /\ op'.kind = "mount" /\ op'.step = "lookup"
    BY <1>6 DEF Mount, Idle
  <2>2. Offers(TableNow', pool')
    BY <2>1, NotEmpty DEF Offers
  <2>3. PoolFollows(TableNow)'
    BY <2>1, <2>2 DEF PoolFollows
  <2>4. Counted(TableNow)'
    BY <1>3, <2>1 DEF Good, Counted
  <2> QED BY <1>4, <1>5, <2>3, <2>4 DEF Good
<1>7. CASE WriteFSBootBlock
  <2>1. /\ mounted /\ mounted' /\ pool' = pool /\ used' = used /\ boot' = used
        /\ op'.kind = "unmount" /\ op'.step = "flush"
    BY <1>7 DEF WriteFSBootBlock, Idle
  <2>2. PoolFollows(TableNow)' /\ Counted(TableNow)'
    BY <1>3, <2>1 DEF Good, PoolFollows, Counted
  <2> QED BY <1>4, <1>5, <2>2 DEF Good
<1> QED BY <1>6, <1>7

LEMMA FlushIsGood ==
  ASSUME TypeOK, CallShape, IInv, Trusted, Trusted', Good, FlushTableCache \/ FlushFails
  PROVE  Good'
<1>1. op.step = "flush" /\ op' = Idle /\ UNCHANGED <<cache, used, boot, start>>
      /\ \/ FlushTableCache /\ ~mounted' /\ drive' = FlushedBlocks(cached)
         \/ FlushFails /\ mounted' = mounted /\ pool' = pool /\ \E b \in cached : drive' = FlushedBlocks({c \in cached : c < b})
  BY DEF FlushTableCache, FlushFails, Throw, Trusted
<1>2. op.kind = "unmount" /\ mounted /\ op.node \notin Node
  BY <1>1, OpParts, IdleIs DEF TypeOK, CallShape, IInv, CallsAreMounted
<1>3. TableNow' = TableNow
  <2>1. CASE drive' = FlushedBlocks(cached)
    BY <1>1, <2>1, FlushedStays
  <2>2. CASE \E b \in cached : drive' = FlushedBlocks({c \in cached : c < b})
    <3>1. PICK b \in cached : drive' = FlushedBlocks({c \in cached : c < b})
      BY <2>2
    <3> DEFINE bs == {c \in cached : c < b}
    <3>2. bs \subseteq cached /\ drive' = FlushedBlocks(bs)
      BY <3>1
    <3> HIDE DEF bs
    <3> QED BY <1>1, <3>2, FlushedStays
  <2> QED BY <1>1, <2>1, <2>2
<1>4. \A n \in Node : start'[n] = First(n)
  BY <1>1, <1>2 DEF First
<1>5. Chained(TableNow', Firsts', EOC)
  BY <1>1, <1>3, <1>4, FirstsAtEnd
<1>6. /\ mounted' => Offers(TableNow', pool') /\ used' = Cardinality(Used(TableNow'))
      /\ ~mounted' => boot' = Cardinality(Used(TableNow'))
  BY <1>1, <1>2, <1>3 DEF Good, PoolFollows, Counted
<1> QED BY <1>1, <1>5, <1>6, EndIsGood

LEMMA RebootIsGood == ASSUME TypeOK, CallShape, IInv, Trusted, Good, Reboot PROVE Good'
<1>1. ~mounted /\ op = Idle /\ op' = Idle /\ ~mounted' /\ cached' = {} /\ UNCHANGED <<drive, boot, start>>
  BY DEF Reboot, Boot
<1>2. TableNow' = TableNow
  <2>1. \A s \in Sector : drive[s] = Entry(s)
    BY <1>1 DEF IInv, TableSaved, UnmountedIsSaved
  <2> QED BY <1>1, <2>1 DEF TableNow, Entry
<1>3. \A n \in Node : start'[n] = First(n)
  BY <1>1, IdleIs DEF First
<1>4. Chained(TableNow', Firsts', EOC)
  BY <1>1, <1>2, <1>3, IdleIs, FirstsAtEnd
<1>5. boot' = Cardinality(Used(TableNow'))
  BY <1>1, <1>2 DEF Good, Counted
<1> QED BY <1>1, <1>4, <1>5, EndIsGood

\* A table that only has the root directory.
LEMMA FormattedIsGood ==
  ASSUME op' = Idle, drive' = Formatted, cached' = {}, boot' = 1, start' = [n \in Node |-> EOC], mounted' = FALSE
  PROVE  Good'
<1>1. \A s \in Sector : TableNow'[s] = IF s = Root THEN EOC ELSE Free
  BY FormattedIs DEF TableNow, Entry
<1>2. \A n \in Node : Firsts'[n] = EOC
  BY IdleIs DEF Firsts, First
<1>3. Chained(TableNow', Firsts', EOC) /\ Cardinality(Used(TableNow')) = 1
  BY <1>1, <1>2, RootAlone
<1> QED BY <1>3, EndIsGood

\* What Format has written so far.
HalfFormatted ==
  op.step = "table" => boot = 1 /\ \A s \in Sector : BlockOf(s) < op.scan => drive[s] = Formatted[s]

LEMMA HalfFormattedKeeps ==
  ASSUME TypeOK, IInv, HalfFormatted, [Next]_vars
  PROVE  HalfFormatted'
<1>1. \A s \in Sector : BlockOf(s) \in Nat
  BY BlocksAreNumbers
<1>2. op.scan \in 0 .. Blocks /\ drive \in [Sector -> Value]
  BY OpParts DEF TypeOK
<1>3. CASE BeginFormat
  <2>1. op'.scan = 0 /\ boot' = 1
    BY <1>3 DEF BeginFormat, Idle
  <2> QED BY <1>1, <2>1 DEF HalfFormatted
<1>4. CASE FormatBlock
  <2>1. /\ op.step = "table" /\ UNCHANGED boot
        /\ op'.scan = op.scan + 1
        /\ \A s \in Sector : drive'[s] = IF BlockOf(s) = op.scan THEN Formatted[s] ELSE drive[s]
    BY <1>2, <1>4 DEF FormatBlock, TypeOK, Op
  <2>2. \A s \in Sector : BlockOf(s) < op.scan + 1 => BlockOf(s) = op.scan \/ BlockOf(s) < op.scan
    BY <1>1, <1>2
  <2> QED BY <2>1, <2>2 DEF HalfFormatted
<1>5. CASE Step /\ ~BeginFormat /\ ~FormatBlock
  <2>1. op'.step # "table"
    BY <1>5, StepKeepsCalls
  <2> QED BY <2>1 DEF HalfFormatted
<1>6. CASE \E n \in Node : BeginWrite(n) \/ BeginDelete(n)
  <2>1. op'.step # "table"
    BY <1>6 DEF BeginWrite, BeginDelete, Idle
  <2> QED BY <2>1 DEF HalfFormatted
<1>7. CASE UNCHANGED vars
  BY <1>7 DEF vars, HalfFormatted
<1> QED BY <1>3, <1>4, <1>5, <1>6, <1>7 DEF Next, Stop

LEMMA FormatIsGood == ASSUME TypeOK, IInv, HalfFormatted, Trusted', Format PROVE Good'
<1>1. /\ op' = Idle /\ start' = [n \in Node |-> EOC] /\ mounted' = FALSE /\ UNCHANGED <<drive, cached, boot>>
      /\ op.step = "table" /\ op.scan = Blocks
  BY DEF Format, cache
<1>2. cached' = {}
  BY DEF IInv, CallsAreMounted, Format, Trusted, cache
<1>3. boot = 1 /\ \A s \in Sector : drive[s] = Formatted[s]
  BY <1>1, BlocksAreNumbers DEF HalfFormatted
<1>4. drive = Formatted
  BY <1>3, FormattedIs DEF TypeOK
<1> QED BY <1>1, <1>2, <1>3, <1>4, FormattedIsGood

LEMMA InitIsGood == ASSUME Init PROVE Good
<1>1. /\ op = Idle /\ drive = Formatted /\ boot = 1 /\ start = [n \in Node |-> EOC] /\ mounted = FALSE
      /\ cached = {} /\ op.kind = "none" /\ op.step = "none" /\ op.node \notin Node
  BY IdleIs DEF Init
<1>2. \A s \in Sector : TableNow[s] = IF s = Root THEN EOC ELSE Free
  BY <1>1, FormattedIs DEF TableNow, Entry
<1>3. \A n \in Node : Firsts[n] = EOC
  BY <1>1 DEF Firsts, First
<1>4. Chained(TableNow, Firsts, EOC) /\ Cardinality(Used(TableNow)) = 1
  BY <1>2, <1>3, RootAlone
<1>5. Pending = EOC
  BY <1>1 DEF Pending
<1> QED BY <1>1, <1>4, <1>5 DEF Good, WriteOnChain, DeleteOnChain, PoolFollows, Counted

-----------------------------------------------------------------------------

\* Nothing but a format makes a table that may be wrong right again.
LEMMA TrustIsLost == ASSUME IInv, [Next]_vars, ~Format, Trusted' PROVE Trusted
BY ZenonT(40) DEF IInv, CallsAreMounted, Next, Stop, vars, Step, BeginWrite, BeginDelete, Walk, WalkEnds, WalkFails,
   CacheLookup, SkipCached, ReadBatch, ScanEnds, ScanFails, NoFreeSectors, AllocateSector, AllocateFails, LinkFirst,
   LinkNext, LinkFails, WriteData, WriteDataFails, DeAllocateSector, DeAllocateFails, MarkAsDeleted, MarkFails, Mount,
   MountFails, ReadRootDirectory, WriteFSBootBlock, FlushTableCache, FlushFails, Reboot,
   BeginFormat, FormatBlock, FormatFails, AccessFails, Throw, Trusted

LEMMA FormattingIsNotTrusted == ASSUME IInv, BeginFormat \/ FormatBlock \/ FormatFails PROVE ~Trusted'
BY DEF IInv, CallsAreMounted, BeginFormat, FormatBlock, FormatFails, Trusted

\* The invariant: the types, the drive under the cache, what a format has written, and, as long as no
\* exception, stale batch or format has left the table wrong, the chains, the call in progress, the pool
\* and the counts.
ChainsIInv == TypeOK /\ CallShape /\ IInv /\ HalfFormatted /\ (Trusted => Good)

LEMMA ChainsInit == Init => ChainsIInv
<1>1. Init => HalfFormatted
  BY DEF Init, Idle, HalfFormatted
<1> QED BY <1>1, InitType, InitHolds, InitIsGood DEF ChainsIInv

LEMMA ChainsStep == ChainsIInv /\ [Next]_vars => ChainsIInv'
<1> SUFFICES ASSUME ChainsIInv, [Next]_vars PROVE ChainsIInv'
  OBVIOUS
<1>1. TypeOK /\ CallShape /\ IInv /\ HalfFormatted /\ (Trusted => Good)
  BY DEF ChainsIInv
<1>2. (TypeOK /\ CallShape)' /\ IInv' /\ HalfFormatted'
  BY <1>1, NextType, NextKeeps, HalfFormattedKeeps
<1>3. ASSUME Trusted' PROVE Good'
  <2> SUFFICES ASSUME ~Format PROVE Good'
    BY <1>1, <1>3, FormatIsGood
  <2>1. Trusted /\ Good
    BY <1>1, <1>3, TrustIsLost
  <2>2. CASE \E n \in Node : BeginWrite(n) \/ BeginDelete(n)
    BY <1>1, <2>1, <2>2, BeginIsGood
  <2>3. CASE Step
    <3>1. CASE Walk
      BY <1>1, <2>1, <3>1, WalkIsGood
    <3>2. CASE CacheLookup
      BY <1>1, <2>1, <3>2, CacheLookupIsGood
    <3>3. CASE SkipCached
      BY <1>1, <2>1, <3>3, SkipIsGood
    <3>4. CASE ReadBatch
      BY <1>1, <1>3, <2>1, <3>4, ReadBatchIsGood
    <3>5. CASE ScanEnds
      BY <1>1, <2>1, <3>5, ScanEndsIsGood
    <3>6. CASE AllocateSector
      BY <1>1, <2>1, <3>6, AllocateIsGood
    <3>7. CASE LinkFirst \/ LinkNext
      BY <1>1, <2>1, <3>7, LinkIsGood
    <3>8. CASE WriteData
      BY <1>1, <2>1, <3>8, WriteDataIsGood
    <3>9. CASE DeAllocateSector
      BY <1>1, <2>1, <3>9, DeAllocateIsGood
    <3>10. CASE Mount \/ WriteFSBootBlock
      BY <1>1, <2>1, <3>10, MountIsGood
    <3>11. CASE FlushTableCache \/ FlushFails
      BY <1>1, <1>3, <2>1, <3>11, FlushIsGood
    <3>12. CASE Reboot
      BY <1>1, <2>1, <3>12, RebootIsGood
    <3>13. CASE BeginFormat \/ FormatBlock \/ FormatFails
      BY <1>1, <1>3, <3>13, FormattingIsNotTrusted
    <3>14. CASE \/ WalkEnds \/ WalkFails \/ ScanFails \/ NoFreeSectors \/ AllocateFails \/ LinkFails
                \/ WriteDataFails \/ DeAllocateFails \/ MarkAsDeleted \/ MarkFails \/ MountFails
                \/ ReadRootDirectory
      BY <1>1, <1>3, <2>1, <3>14, EndsAreGood
    <3> QED BY <2>3, <3>1, <3>2, <3>3, <3>4, <3>5, <3>6, <3>7, <3>8, <3>9, <3>10, <3>11, <3>12, <3>13, <3>14
            DEF Step
  <2>4. CASE UNCHANGED vars
    <3>1. /\ UNCHANGED <<drive, cached, copy, written, pool, used, boot, start, mounted, op>>
      BY <2>4 DEF vars
    <3>2. TableNow' = TableNow /\ Firsts' = Firsts /\ Pending' = Pending
      BY <3>1 DEF TableNow, Entry, Firsts, First, Pending
    <3>3. /\ Chained(TableNow', Firsts', Pending')
      BY <2>1, <3>2 DEF Good
    <3>4. WriteOnChain(TableNow)' /\ DeleteOnChain'
      BY <2>1, <3>1, <3>2 DEF Good, WriteOnChain, DeleteOnChain
    <3>5. PoolFollows(TableNow)'
      BY <2>1, <3>1, <3>2 DEF Good, PoolFollows, ScannedSoFar, Seen
    <3>6. Counted(TableNow)'
      BY <2>1, <3>1, <3>2 DEF Good, Counted
    <3> QED BY <3>3, <3>4, <3>5, <3>6 DEF Good
  <2> QED BY <2>2, <2>3, <2>4 DEF Next, Stop
<1> QED BY <1>2, <1>3 DEF ChainsIInv

\* The three sums of Claims, when nothing is claimed twice.
LEMMA AtMostOne ==
  ASSUME NEW S, \A x, y \in S : x = y
  PROVE  Cardinality(S) = IF S = {} THEN 0 ELSE 1
<1>1. CASE S = {}
  BY <1>1, FS_EmptySet
<1>2. CASE S # {}
  <2>1. PICK x : S = {x}
    BY <1>2
  <2>2. Cardinality({x}) = 1
    BY FS_Singleton
  <2> QED BY <1>2, <2>1, <2>2
<1> QED BY <1>1, <1>2

LEMMA ChainsOne == ChainsIInv => OneChainEach
<1> SUFFICES ASSUME ChainsIInv, Trusted, NEW s \in Sector \ {Root}
             PROVE  Claims(s) = IF Entry(s) = Free THEN 0 ELSE 1
  BY DEF OneChainEach
<1>1. Chained(TableNow, Firsts, Pending) /\ TypeOK
  BY DEF ChainsIInv, Good
<1> DEFINE N == {n \in Node : First(n) = s}
           S == {t \in Sector : Entry(t) = s}
<1>2. /\ \A t \in Sector : TableNow[t] = Entry(t)
      /\ \A n \in Node : Firsts[n] = First(n)
      /\ s \in Sector /\ s # Free /\ s # EOC
      /\ op.step = "link" /\ op.new = s <=> Pending = s
  BY <1>1, NowType, Values DEF Pending
<1>3. \A m, n \in N : m = n
  BY <1>1, <1>2 DEF Chained, Apart
<1>4. \A t, u \in S : t = u
  BY <1>1, <1>2 DEF Chained, Apart
<1>5. N = {} \/ S = {}
  BY <1>1, <1>2 DEF Chained, Apart
<1>6. Pending = s => N = {} /\ S = {}
  BY <1>1, <1>2 DEF Chained, Apart
<1>7. Entry(s) # Free <=> N # {} \/ S # {} \/ Pending = s
  <2>1. ASSUME Entry(s) # Free PROVE N # {} \/ S # {} \/ Pending = s
    <3>1. TableNow[s] # Free
      BY <1>2, <2>1
    <3>2. (\E n \in Node : Firsts[n] = s) \/ (\E t \in Sector : TableNow[t] = s) \/ Pending = s
      BY <1>1, <3>1 DEF Chained, Claimed
    <3> QED BY <1>2, <3>2
  <2>2. ASSUME N # {} \/ S # {} \/ Pending = s PROVE Entry(s) # Free
    BY <1>1, <1>2, <2>2 DEF Chained, Claimed
  <2> QED BY <2>1, <2>2
<1>8. Claims(s) = Cardinality(N) + Cardinality(S) + IF Pending = s THEN 1 ELSE 0
  BY <1>2 DEF Claims
<1> HIDE DEF N, S
<1>9. Cardinality(N) = IF N = {} THEN 0 ELSE 1
  BY <1>3, AtMostOne
<1>10. Cardinality(S) = IF S = {} THEN 0 ELSE 1
  BY <1>4, AtMostOne
<1> QED BY <1>5, <1>6, <1>7, <1>8, <1>9, <1>10

LEMMA ChainsFree == ChainsIInv => FreeSectorsAreKnown
<1> SUFFICES ASSUME ChainsIInv PROVE FreeSectorsAreKnown
  OBVIOUS
<1>1. /\ \A t \in Sector : TableNow[t] = Entry(t)
      /\ pool \in Seq(Sector) /\ DOMAIN pool = 1 .. Len(pool)
      /\ \A i \in 1 .. Len(pool) : pool[i] \in Sector
  BY NowType DEF ChainsIInv, TypeOK
<1>2. Trusted => PoolFollows(TableNow) /\ Counted(TableNow)
  BY DEF ChainsIInv, Good
<1>3. PoolIsFree
  BY <1>1, <1>2 DEF PoolIsFree, PoolFollows, Offers
<1>4. FullMeansFull
  BY <1>1, <1>2 DEF FullMeansFull, PoolFollows
<1>5. UsedIsCounted
  <2>1. {s \in Sector : Entry(s) # Free} = Used(TableNow)
    BY <1>1 DEF Used
  <2> QED BY <1>2, <2>1 DEF UsedIsCounted, Counted
<1> QED BY <1>3, <1>4, <1>5 DEF FreeSectorsAreKnown

\* The table, its cache, the pool and the call in progress are what their types say, through every
\* eviction, exception and reboot: the cache never has more than MaxCache blocks, the pool never
\* more than MaxPool sectors (FileSystem.cpp, AddToTableCache and LoadFreeSectors).
THEOREM TableTypes == Spec => []TypeOK
<1>1. ChainsIInv => TypeOK
  BY DEF ChainsIInv
<1>2. QED BY <1>1, ChainsInit, ChainsStep, PTL DEF Spec

\* No two files share sectors and no sector is lost, at every step of AllocateSector, of the
\* linking and writing of Directory_ActualFileWrite and of Directory_Delete, and through evictions,
\* flushes and reboots, as long as no exception, stale batch or format came between.
THEOREM ChainsAreDisjoint == Spec => []OneChainEach
<1>1. QED BY ChainsOne, ChainsInit, ChainsStep, PTL DEF Spec

\* LoadFreeSectors, AllocateSector and FileSystem_DeAllocateSector agree with the table: what the
\* pool offers is free and offered once, a drive is said to be full only when no sector is free,
\* and uiUsedSectors counts the used ones.
THEOREM FreeIsKnown == Spec => []FreeSectorsAreKnown
<1>1. QED BY ChainsFree, ChainsInit, ChainsStep, PTL DEF Spec

=============================================================================
