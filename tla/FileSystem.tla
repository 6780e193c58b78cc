------------------------------ MODULE FileSystem ------------------------------
(***************************************************************************)
(* The sector table of a mounted drive: AllocateSector, LoadFreeSectors,   *)
(* FlushTableCache, FileSystem_DeAllocateSector, the entries of files and  *)
(* directories that own chains of sectors, Mount, UnMount, Format and      *)
(* reboot.                                                                 *)
(*                                                                         *)
(* The drive under it returns what was last written (module DiskDrive) and *)
(* may fail at every transfer, which ends the call with an exception.      *)
(* Calls do not overlap: the table has no lock of its own, so the code is  *)
(* meant for one caller at a time.  The sector a descriptor has last read  *)
(* is left out: every call walks from the first sector.                    *)
(***************************************************************************)
EXTENDS Integers, Sequences, FiniteSets

CONSTANTS
  Node,       \* files and directories
  Blocks,     \* BPB_FSTableSize, the sectors the table takes
  Entries,    \* ENTRIES_PER_TABLE_SECTOR
  Batch,      \* table sectors LoadFreeSectors reads at once, at most
  MaxCache,   \* MAX_SECTORS_IN_TABLE_CACHE
  MaxPool,    \* _uiMaxSectorsInFreePoolCache
  MaxCalls,   \* bound on the calls that read, write or delete
  NoNode

ASSUME SizesAssumption == /\ Blocks \in Nat \ {0} /\ Entries \in Nat \ {0} /\ Batch \in Nat \ {0}
                          /\ MaxCache \in Nat \ {0, 1} /\ MaxPool \in Nat \ {0}
                          /\ MaxCalls \in Nat
ASSUME NodeAssumption == NoNode \notin Node

VARIABLES
  drive,     \* the table on the drive
  cached,    \* the blocks in _fsTableCache
  copy,      \* their entries
  written,   \* the blocks with a _writeCount
  pool,      \* _freePoolQueue
  used,      \* uiUsedSectors
  boot,      \* uiUsedSectors of the boot block on the drive
  start,     \* StartSectorID of each node on the drive
  mounted,   \* _mounted
  op,        \* the call in progress
  calls,     \* calls so far
  trouble    \* the first thing that happened after which the table may be wrong

cache == <<cached, copy, written>>
vars == <<drive, cached, copy, written, pool, used, boot, start, mounted, op, calls, trouble>>

Block == 0 .. Blocks - 1
Sector == 0 .. Blocks * Entries - 1
Free == 0
EOC == Blocks * Entries
Root == 0
Value == 0 .. EOC
BlockOf(s) == s \div Entries

\* at: the sector of the chain the call is at (uiPrevSectorID of a write, uiCurrentSectorID
\* of a delete); new: the sector AllocateSector returned; first: StartSectorID in the buffer
\* of the directory entry; scan: the block LoadFreeSectors or Format is at.
Op == [kind : {"none", "write", "delete", "mount", "unmount", "format"},
       step : {"none", "walk", "alloc", "scan", "take", "link", "data", "free", "mark", "lookup",
               "root", "flush", "table"},
       node : Node \cup {NoNode}, at : Value, new : Value, first : Value, scan : 0 .. Blocks]
Idle == [kind |-> "none", step |-> "none", node |-> NoNode, at |-> EOC, new |-> EOC,
         first |-> EOC, scan |-> 0]

\* What GetSectorEntryValue would return.
Entry(s) == IF BlockOf(s) \in cached THEN copy[s] ELSE drive[s]

\* A formatted drive at boot.
Formatted == [s \in Sector |-> IF s = Root THEN EOC ELSE Free]
Init == /\ drive = Formatted /\ boot = 1 /\ start = [n \in Node |-> EOC]
        /\ cached = {} /\ written = {} /\ copy = [s \in Sector |-> Free]
        /\ pool = <<>> /\ used = 1 /\ mounted = FALSE /\ op = Idle /\ calls = 0
        /\ trouble = "none"
-----------------------------------------------------------------------------
\* The table cache

Least(S) == CHOOSE b \in S : \A c \in S : b <= c

\* The table on the drive once the blocks bs have been written.
FlushedBlocks(bs) == [s \in Sector |-> IF BlockOf(s) \in bs \cap written THEN copy[s] ELSE drive[s]]

\* What AddToTableCache flushes and erases to make place for block b.
Evicted(b) == IF b \notin cached /\ Cardinality(cached) = MaxCache THEN {Least(cached)} ELSE {}

\* The block of s is in the cache in the end, with value v for s; everything else stays.
Access(s, v) ==
  LET b == BlockOf(s)
  IN  /\ drive' = FlushedBlocks(Evicted(b))
      /\ cached' = (cached \ Evicted(b)) \cup {b}
      /\ copy' = [t \in Sector |-> IF t = s THEN v
                                   ELSE IF BlockOf(t) = b THEN Entry(t)
                                   ELSE IF BlockOf(t) \in Evicted(b) THEN Free ELSE copy[t]]
GetSectorEntryValue(s) == Access(s, Entry(s)) /\ written' = written \ Evicted(BlockOf(s))
SetSectorEntryValue(s, v) ==
  Access(s, v) /\ written' = (written \ Evicted(BlockOf(s))) \cup {BlockOf(s)}

\* The victim cannot be written: it stays, and the block does not come.
EvictionFails(s) == Evicted(BlockOf(s)) \cap written # {}

\* The block cannot be read: AddToTableCache leaves a zeroed SectorBlockEntry in the cache,
\* which passes for block 0 with nothing but free sectors.
LoadFails(s) == BlockOf(s) \notin cached

\* An exception ends the call; harm says whether it leaves the table wrong.
Throw(harm) == /\ op' = Idle
               /\ trouble' = IF harm /\ trouble = "none" THEN "partial" ELSE trouble

AccessFails(s, harm) ==
  /\ UNCHANGED <<drive, cached, copy, written, pool, boot, start, mounted>>
  /\ \/ EvictionFails(s) /\ Throw(harm)
     \/ LoadFails(s) /\ op' = Idle /\ trouble' = "undefined"
-----------------------------------------------------------------------------
\* The pool of free sectors

Smaller(a, b) == IF a <= b THEN a ELSE b
Ascending(S) == [i \in 1 .. Cardinality(S) |-> CHOOSE s \in S : Cardinality({t \in S : t < s}) = i - 1]
FreeSectors(table, bs) == Ascending({s \in Sector : table[s] = Free /\ BlockOf(s) \in bs})

\* push_back: what the pool has no place for is not taken, and ends the loop.
Overfull(q) == Len(q) > MaxPool
Truncated(q) == SubSeq(q, 1, Smaller(Len(q), MaxPool))

\* Where LoadFreeSectors returns to.
Loaded == IF op.kind = "mount" THEN "root" ELSE "take"

\* Mutation of CacheLookup: the pool is filled up before it is empty.
LookupEarly ==
  LET q == pool \o FreeSectors(copy, cached)
  IN  /\ \/ op.kind = "mount" /\ op.step = "lookup"
         \/ op.kind = "write" /\ op.step = "alloc"
      /\ pool' = Truncated(q)
      /\ op' = [op EXCEPT !.step = IF Overfull(q) THEN Loaded ELSE "scan", !.scan = 0]
      /\ UNCHANGED <<drive, cache, used, boot, start, mounted, trouble>>

\* LoadFreeSectors: first the blocks in the cache.
CacheLookup ==
  LET q == pool \o FreeSectors(copy, cached)
  IN  /\ \/ op.kind = "mount" /\ op.step = "lookup"
         \/ op.kind = "write" /\ op.step = "alloc" /\ pool = <<>>
      /\ pool' = Truncated(q)
      /\ op' = [op EXCEPT !.step = IF Overfull(q) THEN Loaded ELSE "scan", !.scan = 0]
      /\ UNCHANGED <<drive, cache, used, boot, start, mounted, trouble>>

\* Mutation of SkipCached: the whole batch is skipped.
SkipBatch ==
  /\ op.step = "scan" /\ op.scan \in cached
  /\ op' = [op EXCEPT !.scan = Smaller(@ + Batch, Blocks)]
  /\ UNCHANGED <<drive, cache, pool, used, boot, start, mounted, trouble>>

\* Then the table on the drive, up to Batch blocks at a time; only the first block of a
\* batch is looked up in the cache.
SkipCached ==
  /\ op.step = "scan" /\ op.scan \in cached
  /\ op' = [op EXCEPT !.scan = @ + 1]
  /\ UNCHANGED <<drive, cache, pool, used, boot, start, mounted, trouble>>

BatchAt(i) == i .. Smaller(i + Batch, Blocks) - 1
ReadBatch ==
  LET found == FreeSectors(drive, BatchAt(op.scan))
      q == pool \o found
      offered == {q[i] : i \in Len(pool) + 1 .. Smaller(Len(q), MaxPool)}
  IN  /\ op.step = "scan" /\ op.scan \in Block \ cached
      /\ pool' = Truncated(q)
      /\ op' = [op EXCEPT !.step = IF Overfull(q) THEN Loaded ELSE "scan",
                          !.scan = Smaller(@ + Batch, Blocks)]
      /\ trouble' = IF trouble = "none" /\ \E s \in offered : BlockOf(s) \in cached
                    THEN "stale" ELSE trouble
      /\ UNCHANGED <<drive, cache, used, boot, start, mounted>>

ScanEnds == /\ op.step = "scan" /\ op.scan = Blocks
            /\ op' = [op EXCEPT !.step = Loaded]
            /\ UNCHANGED <<drive, cache, pool, used, boot, start, mounted, trouble>>

\* A write that had to allocate keeps what it linked into the chain of its node; a first
\* sector that is not in the directory entry yet is lost.
Linked == op.first = start[op.node]

ScanFails == /\ op.step = "scan" /\ op.scan \in Block \ cached
             /\ Throw(op.kind = "write" /\ ~Linked)
             /\ UNCHANGED <<drive, cache, pool, used, boot, start, mounted>>

NoFreeSectors == /\ op.step = "take" /\ pool = <<>>
                 /\ Throw(~Linked)
                 /\ UNCHANGED <<drive, cache, pool, used, boot, start, mounted>>

\* AllocateSector, with a sector in the pool.
Ready == op.kind = "write" /\ pool # <<>> /\ op.step \in {"alloc", "take"}
AllocateSector ==
  /\ Ready
  /\ SetSectorEntryValue(Head(pool), EOC)
  /\ pool' = Tail(pool) /\ used' = used + 1
  /\ op' = [op EXCEPT !.step = "link", !.new = Head(pool)]
  /\ UNCHANGED <<boot, start, mounted, trouble>>

\* The sector has left the pool and has been counted when the exception comes.
AllocateFails ==
  /\ Ready
  /\ pool' = Tail(pool) /\ used' = used + 1
  /\ \/ EvictionFails(Head(pool)) /\ Throw(TRUE)
     \/ LoadFails(Head(pool)) /\ op' = Idle /\ trouble' = "undefined"
  /\ UNCHANGED <<drive, cache, boot, start, mounted>>

-----------------------------------------------------------------------------
\* Directory_ActualFileWrite, Directory_FindDirectory and Directory_Create: along the chain,
\* then sector after sector is allocated, linked and written, and last the directory entry.

BeginWrite(n) ==
  /\ mounted /\ op = Idle /\ calls < MaxCalls
  /\ calls' = calls + 1
  /\ op' = [Idle EXCEPT !.kind = "write", !.step = IF start[n] = EOC THEN "alloc" ELSE "walk",
                        !.node = n, !.at = start[n], !.first = start[n]]
  /\ UNCHANGED <<drive, cache, pool, used, boot, start, mounted, trouble>>

Walk == /\ op.kind = "write" /\ op.step = "walk" /\ op.at \in Sector
        /\ GetSectorEntryValue(op.at)
        /\ op' = IF Entry(op.at) = EOC THEN [op EXCEPT !.step = "alloc"]
                                       ELSE [op EXCEPT !.at = Entry(@)]
        /\ UNCHANGED <<pool, used, boot, start, mounted, trouble>>

\* What is read or overwritten ends here.
WalkEnds == /\ op.kind = "write" /\ op.step = "walk"
            /\ op' = Idle
            /\ UNCHANGED <<drive, cache, pool, used, boot, start, mounted, trouble>>

WalkFails == /\ op.kind = "write" /\ op.step = "walk" /\ op.at \in Sector
             /\ AccessFails(op.at, FALSE)
             /\ UNCHANGED used

LinkFirst == /\ op.step = "link" /\ op.first = EOC
             /\ op' = [op EXCEPT !.step = "data", !.first = op.new]
             /\ UNCHANGED <<drive, cache, pool, used, boot, start, mounted, trouble>>

LinkNext == /\ op.step = "link" /\ op.first # EOC /\ op.at \in Sector
            /\ SetSectorEntryValue(op.at, op.new)
            /\ op' = [op EXCEPT !.step = "data"]
            /\ UNCHANGED <<pool, used, boot, start, mounted, trouble>>

LinkFails == /\ op.step = "link" /\ op.first # EOC /\ op.at \in Sector
             /\ AccessFails(op.at, TRUE)
             /\ UNCHANGED used

\* The sector is written; the call needs one more, or saves the directory entry.
WriteData ==
  /\ op.step = "data"
  /\ \/ /\ op' = [op EXCEPT !.step = "alloc", !.at = op.new, !.new = EOC]
        /\ UNCHANGED start
     \/ /\ start' = [start EXCEPT ![op.node] = op.first]
        /\ op' = Idle
  /\ UNCHANGED <<drive, cache, pool, used, boot, mounted, trouble>>

WriteDataFails == /\ op.step = "data"
                  /\ Throw(~Linked)
                  /\ UNCHANGED <<drive, cache, pool, used, boot, start, mounted>>
-----------------------------------------------------------------------------
\* Directory_Delete. A name that is created again has no sectors.

BeginDelete(n) ==
  /\ mounted /\ op = Idle /\ start[n] # EOC /\ calls < MaxCalls
  /\ calls' = calls + 1
  /\ op' = [Idle EXCEPT !.kind = "delete", !.step = "free", !.node = n, !.at = start[n],
                        !.first = start[n]]
  /\ UNCHANGED <<drive, cache, pool, used, boot, start, mounted, trouble>>

\* Mutation of DeAllocateSector: the next sector is read after the entry was cleared.
DeAllocateReadsLate ==
  /\ op.kind = "delete" /\ op.step = "free" /\ op.at \in Sector
  /\ SetSectorEntryValue(op.at, Free)
  /\ used' = used - 1
  /\ pool' = IF Len(pool) < MaxPool THEN Append(pool, op.at) ELSE pool
  /\ op' = [op EXCEPT !.at = Free]
  /\ UNCHANGED <<boot, start, mounted, trouble>>

DeAllocateSector ==
  /\ op.kind = "delete" /\ op.step = "free" /\ op.at \in Sector
  /\ SetSectorEntryValue(op.at, Free)
  /\ used' = used - 1
  /\ pool' = IF Len(pool) < MaxPool THEN Append(pool, op.at) ELSE pool
  /\ op' = [op EXCEPT !.at = Entry(@), !.step = IF Entry(op.at) = EOC THEN "mark" ELSE "free"]
  /\ UNCHANGED <<boot, start, mounted, trouble>>

\* The directory entry still has the sectors that are free already.
DeAllocateFails == /\ op.kind = "delete" /\ op.step = "free" /\ op.at \in Sector
                   /\ AccessFails(op.at, op.at # op.first)
                   /\ UNCHANGED used

MarkAsDeleted == /\ op.step = "mark"
                 /\ start' = [start EXCEPT ![op.node] = EOC]
                 /\ op' = Idle
                 /\ UNCHANGED <<drive, cache, pool, used, boot, mounted, trouble>>

MarkFails == /\ op.step = "mark"
             /\ Throw(TRUE)
             /\ UNCHANGED <<drive, cache, pool, used, boot, start, mounted>>
-----------------------------------------------------------------------------
\* Mount and UnMount

\* Mutation of Mount: the count of the drive object is kept.
MountKeepsCount == /\ ~mounted /\ op = Idle
                   /\ pool' = <<>> /\ used' = used
                   /\ op' = [Idle EXCEPT !.kind = "mount", !.step = "lookup"]
                   /\ UNCHANGED <<drive, cache, boot, start, mounted, trouble>>

Mount == /\ ~mounted /\ op = Idle
         /\ pool' = <<>> /\ used' = boot
         /\ op' = [Idle EXCEPT !.kind = "mount", !.step = "lookup"]
         /\ UNCHANGED <<drive, cache, boot, start, mounted, trouble>>

\* The boot block or the root directory cannot be read.
MountFails == /\ ~mounted /\ \/ op = Idle /\ pool' = <<>>
                             \/ op.step = "root" /\ UNCHANGED pool
              /\ op' = Idle
              /\ UNCHANGED <<drive, cache, used, boot, start, mounted, trouble>>

ReadRootDirectory == /\ op.step = "root"
                     /\ mounted' = TRUE /\ op' = Idle
                     /\ UNCHANGED <<drive, cache, pool, used, boot, start, trouble>>

WriteFSBootBlock == /\ mounted /\ op = Idle
                    /\ boot' = used
                    /\ op' = [Idle EXCEPT !.kind = "unmount", !.step = "flush"]
                    /\ UNCHANGED <<drive, cache, pool, used, start, mounted, trouble>>

\* Mutation of FlushTableCache: the last block is not written.
FlushAllButLast == /\ op.step = "flush"
                   /\ drive' = FlushedBlocks({b \in cached : \E c \in cached : b < c})
                   /\ pool' = <<>> /\ mounted' = FALSE /\ op' = Idle
                   /\ UNCHANGED <<cache, used, boot, start, trouble>>

\* FlushTableCache with a count that is never less than the size: it writes all and erases
\* nothing, and no write count is reset.
FlushTableCache == /\ op.step = "flush"
                   /\ drive' = FlushedBlocks(cached)
                   /\ pool' = <<>> /\ mounted' = FALSE /\ op' = Idle
                   /\ UNCHANGED <<cache, used, boot, start, trouble>>

\* A drive object is made anew.
Boot == /\ cached' = {} /\ written' = {} /\ copy' = [s \in Sector |-> Free]
        /\ pool' = <<>> /\ used' = 1 /\ mounted' = FALSE

\* Some blocks are written, then one is not. The drive stays mounted; SystemUtil_Reboot goes
\* on all the same.
FlushFails ==
  /\ op.step = "flush"
  /\ \E b \in cached \cap written :
       /\ drive' = FlushedBlocks({c \in cached : c < b})
       /\ \/ /\ UNCHANGED <<cache, pool, used, mounted>> /\ Throw(FALSE)
          \/ /\ Boot /\ Throw(TRUE)
  /\ UNCHANGED <<boot, start>>

Reboot == /\ ~mounted /\ op = Idle
          /\ Boot
          /\ UNCHANGED <<drive, boot, start, op, trouble>>

\* DiskDrive::Format with FileSystem::Format: the boot block, the table block by block, the root
\* directory; the table cache is not told.
BeginFormat == /\ op = Idle
               /\ boot' = 1
               /\ op' = [Idle EXCEPT !.kind = "format", !.step = "table"]
               /\ trouble' = IF trouble = "none" THEN "formatting" ELSE trouble
               /\ UNCHANGED <<drive, cache, pool, used, start, mounted>>

FormatBlock == /\ op.step = "table" /\ op.scan \in Block
               /\ drive' = [s \in Sector |-> IF BlockOf(s) = op.scan THEN Formatted[s] ELSE drive[s]]
               /\ op' = [op EXCEPT !.scan = @ + 1]
               /\ UNCHANGED <<cache, pool, used, boot, start, mounted, trouble>>

Format == /\ op.step = "table" /\ op.scan = Blocks
          /\ used' = 1 /\ start' = [n \in Node |-> EOC] /\ mounted' = FALSE /\ op' = Idle
          /\ trouble' = IF trouble # "formatting" THEN trouble ELSE IF cached = {} THEN "none" ELSE "reformatted"
          /\ UNCHANGED <<drive, cache, pool, boot>>

\* A transfer fails: the drive is half formatted, and as mounted as it was.
FormatFails == /\ op.step = "table" /\ op' = Idle
               /\ used' = (IF op.scan = Blocks THEN 1 ELSE used)
               /\ trouble' = IF trouble = "formatting" THEN "partial" ELSE trouble
               /\ UNCHANGED <<drive, cache, pool, boot, start, mounted>>
-----------------------------------------------------------------------------
\* A call goes on, or the drive comes and goes.
Step == \/ Walk \/ WalkEnds \/ WalkFails
        \/ CacheLookup \/ SkipCached \/ ReadBatch \/ ScanEnds \/ ScanFails \/ NoFreeSectors
        \/ AllocateSector \/ AllocateFails
        \/ LinkFirst \/ LinkNext \/ LinkFails \/ WriteData \/ WriteDataFails
        \/ DeAllocateSector \/ DeAllocateFails \/ MarkAsDeleted \/ MarkFails
        \/ Mount \/ MountFails \/ ReadRootDirectory
        \/ WriteFSBootBlock \/ FlushTableCache \/ FlushFails
        \/ Reboot \/ BeginFormat \/ FormatBlock \/ Format \/ FormatFails

\* After an undefined read nothing more is said.
Stop == trouble = "undefined" /\ UNCHANGED vars

Next == \/ /\ trouble # "undefined"
           /\ \/ \E n \in Node : BeginWrite(n) \/ BeginDelete(n)
              \/ Step /\ UNCHANGED calls
        \/ Stop

Spec == Init /\ [][Next]_vars
-----------------------------------------------------------------------------
\* The properties hold until an exception, a stale batch or a format with a filled cache has
\* left the table wrong, and not while a format goes on.
Trusted == trouble = "none"

\* What a run that checks these properties has to follow.
Followed == trouble \in {"none", "formatting", "undefined"}

TypeOK ==
  /\ drive \in [Sector -> Value] /\ copy \in [Sector -> Value]
  /\ cached \in SUBSET Block /\ written \in SUBSET cached /\ Cardinality(cached) <= MaxCache
  /\ pool \in Seq(Sector) /\ Len(pool) <= MaxPool
  /\ used \in Int /\ boot \in Int /\ start \in [Node -> Value] /\ mounted \in BOOLEAN /\ op \in Op
  /\ calls \in 0 .. MaxCalls
  /\ trouble \in {"none", "partial", "stale", "formatting", "reformatted", "undefined"}
  /\ \A s \in Sector : BlockOf(s) \notin cached => copy[s] = Free

\* The first sector of node n, as far as the call in progress has come.
First(n) == IF op.node # n THEN start[n]
            ELSE IF op.kind = "delete" THEN op.at ELSE op.first

\* Who points to sector s: nodes and sectors, and a write that has not linked it yet.
Claims(s) == Cardinality({n \in Node : First(n) = s})
             + Cardinality({t \in Sector : Entry(t) = s})
             + IF op.step = "link" /\ op.new = s THEN 1 ELSE 0

\* A sector is in exactly one chain, once, if it is used, and in none if it is free: no two
\* files share sectors and none is lost, whether a call allocates, links and frees or stops
\* between two of these.
OneChainEach == Trusted => \A s \in Sector \ {Root} : Claims(s) = IF Entry(s) = Free THEN 0 ELSE 1

\* What AllocateSector will hand out is free and is offered once, also when freed sectors
\* come into a pool that LoadFreeSectors has filled.
PoolIsFree ==
  Trusted /\ mounted =>
    /\ \A i \in DOMAIN pool : Entry(pool[i]) = Free
    /\ \A i, j \in DOMAIN pool : pool[i] = pool[j] => i = j

\* "No free sectors available" is said only when none is free, in the cache or on the drive.
FullMeansFull ==
  Trusted /\ op.step = "take" /\ pool = <<>> => \A s \in Sector : Entry(s) # Free

\* uiUsedSectors counts the used sectors, and the boot block of an unmounted drive has it.
UsedIsCounted ==
  Trusted => /\ mounted => used = Cardinality({s \in Sector : Entry(s) # Free})
             /\ ~mounted => boot = Cardinality({s \in Sector : Entry(s) # Free})

\* Pool, count and the answer "full" agree with the table.
FreeSectorsAreKnown == PoolIsFree /\ FullMeansFull /\ UsedIsCounted

\* The table of an unmounted drive is on the drive, whatever the cache still has, so that a
\* reboot or another system finds the same files.
UnmountedIsSaved == Trusted /\ ~mounted => \A s \in Sector : drive[s] = Entry(s)

\* Two files never share a sector unless an exception or a format came between.
NeverShared == trouble \in {"none", "stale"} => \A s \in Sector \ {Root} : Claims(s) <= 1

=============================================================================
