------------------------------ MODULE DiskDrive ------------------------------
(***************************************************************************)
(* A disk drive behind its write-back cache: Read and Write of ranges of   *)
(* sectors, the task that flushes dirty sectors, the task that ranks the   *)
(* sectors a full cache can give up, mount and unmount.                    *)
(*                                                                         *)
(* Read, Write and flush hold the drive mutex from their first to their    *)
(* last action: op is what its holder does.  The release task holds only   *)
(* the mutex of the LFUSectorManager, and one of its visits can come       *)
(* between any two actions.  The B-tree is the function cache, and a pool  *)
(* slot it gives up may be reused at once: following a pointer to one is   *)
(* undefined behaviour, after which (fault) nothing more is said.          *)
(***************************************************************************)
EXTENDS Integers, Sequences, FiniteSets

CONSTANTS
  Sector,             \* sector numbers
  Value,              \* what a sector can contain
  Ranges,             \* the ranges that are read and written, sets of sectors
  MAX_CACHE_SECTORS,
  MaxRelListSize,     \* m_uiMaxRelListSize, a tenth of it
  FlushCount,         \* sectors the flush task writes in one go
  MaxFailed,          \* bound on the sectors whose flush failed; 0: the device never fails
  None

ASSUME SectorAssumption == Sector \subseteq Nat /\ Ranges \subseteq SUBSET Sector
ASSUME SizesAssumption == /\ MAX_CACHE_SECTORS \in Nat \ {0} /\ MaxRelListSize \in Nat \ {0}
                          /\ FlushCount \in Nat \ {0}
ASSUME ValueAssumption == None \notin Value /\ MaxFailed \in Nat

VARIABLES
  disk,      \* what is on the medium
  cache,     \* the B-tree: what it has for a sector, or None
  dirty,     \* _dirtyCacheList
  release,   \* how often each sector is in m_mReleaseList
  built,     \* m_bReleaseListBuilt
  visit,     \* the sectors the traversal of Run has still to visit
  running,   \* Run holds lruMutex
  enabled,   \* _bEnableDiskCache
  op,        \* the operation that holds the drive mutex
  checked,   \* who passed the first test of FlushDirtyCacheSectors and waits for the mutex
  mounted,   \* _mounted
  content,   \* what was last written to each sector, by Write
  failed,    \* sectors whose last flush failed
  fault      \* a deleted cache entry was used

tree == <<cache, release, built, enabled>>
task == <<visit, running>>
vars == <<disk, cache, dirty, release, built, visit, running, enabled, op, checked, mounted,
          content, failed, fault>>

Ops == {"none", "read", "write", "flush", "unmount"}
Steps == {"none", "transfer", "store", "fill", "replace", "return", "pop", "save"}
Buffer == [Sector -> Value \cup {None}]
\* range: the sectors asked for; hole: those from uiFirstBreak to uiLastBreak; held: those
\* of the hole pCacheValue points to; todo: what the current loop has still to do.
Op == [kind : Ops, step : Steps, range : SUBSET Sector, hole : SUBSET Sector,
       held : SUBSET Sector, todo : SUBSET Sector, data : Buffer, count : Int]
Nothing == [s \in Sector |-> None]
Idle == [kind |-> "none", step |-> "none", range |-> {}, hole |-> {}, held |-> {},
         todo |-> {}, data |-> Nothing, count |-> 0]

TypeOK ==
  /\ disk \in [Sector -> Value]
  /\ cache \in [Sector -> Value \cup {None}]
  /\ dirty \in Seq(Sector)
  /\ release \in [Sector -> 0 .. MaxRelListSize]
  /\ built \in BOOLEAN
  /\ visit \subseteq Sector
  /\ running \in BOOLEAN
  /\ enabled \in BOOLEAN
  /\ op \in Op
  /\ checked \subseteq {"flush", "unmount"}
  /\ mounted \in BOOLEAN
  /\ content \in [Sector -> Value]
  /\ failed \subseteq Sector
  /\ fault \in BOOLEAN

Cached == {s \in Sector : cache[s] # None}
Full == Cardinality(Cached) >= MAX_CACHE_SECTORS
Dirty == {dirty[i] : i \in DOMAIN dirty}
Listed == {s \in Sector : release[s] > 0}
Least(S) == CHOOSE s \in S : \A t \in S : s <= t

\* The sectors of range r from the first to the last that the cache has not.
Hole(r) ==
  LET missing == r \ Cached
  IN  {s \in r : \E a, b \in missing : a <= s /\ s <= b}

Undefined == /\ fault' = TRUE
             /\ UNCHANGED <<disk, tree, dirty, task, op, checked, mounted, content, failed>>

\* The loop has come to s.
First(s) == s \in op.todo /\ \A t \in op.todo : s <= t

\* The loop is done with s; the last sector ends the operation.
After(s) == IF op.todo = {s} THEN [op EXCEPT !.step = "return", !.todo = {}]
                             ELSE [op EXCEPT !.step = "fill", !.todo = @ \ {s}]

-----------------------------------------------------------------------------
(* The cache *)

\* Mutation of InsertToDirtyList: a full list takes no more.
DirtyOnce(s) == dirty' = IF dirty = <<>> THEN Append(dirty, s) ELSE dirty
InsertToDirtyList(s) == dirty' = IF s \in Dirty THEN dirty ELSE Append(dirty, s)

\* Mutation of Popped: dirty sectors are not skipped.
PoppedAny(t, rest) == built /\ t \in Listed /\ rest = [release EXCEPT ![t] = @ - 1]

\* The release list gives up t, which is not dirty; dirty sectors in front of it leave
\* the list with it.
Popped(t, rest) ==
  /\ built /\ t \in Listed \ Dirty
  /\ rest[t] = release[t] - 1
  /\ \A u \in Sector \ {t} : IF u \in Dirty THEN rest[u] <= release[u] ELSE rest[u] = release[u]

\* There is no list, or every sector of it has become dirty since: s is not cached.
NoVictim ==
  /\ ~built \/ Listed \subseteq Dirty
  /\ release' = IF built THEN [t \in Sector |-> 0] ELSE release
  /\ built' = FALSE
  /\ UNCHANGED <<cache, enabled>>

\* LFUSectorManager::ReplaceCache, with lruMutex.
ReplaceCache(s, v) ==
  /\ ~running
  /\ \/ NoVictim
     \/ \E t \in Cached : \E rest \in [Sector -> 0 .. MaxRelListSize] :
          /\ Popped(t, rest)
          /\ cache' = [cache EXCEPT ![t] = None, ![s] = v]
          /\ release' = rest
          /\ built' = \E u \in Sector : rest[u] > 0
          /\ UNCHANGED enabled

\* The victim had been listed twice and is gone already: the caller disables the cache.
ReplaceFails ==
  /\ ~running
  /\ \E t \in Sector \ Cached : \E rest \in [Sector -> 0 .. MaxRelListSize] :
       Popped(t, rest) /\ release' = rest
  /\ enabled' = FALSE
  /\ UNCHANGED <<cache, built>>

-----------------------------------------------------------------------------
(* Read *)

\* Find the range in the cache; copy what is outside the hole.
BeginRead(r) ==
  /\ op = Idle
  /\ LET hole == IF enabled THEN Hole(r) ELSE r
     IN  op' = [kind |-> "read", step |-> IF hole = {} THEN "return" ELSE "transfer",
                range |-> r, hole |-> hole, todo |-> hole, count |-> 0,
                held |-> IF enabled THEN hole \cap Cached ELSE {},
                data |-> [s \in Sector |-> IF s \in r \ hole THEN cache[s] ELSE None]]
  /\ UNCHANGED <<disk, tree, dirty, task, checked, mounted, content, failed, fault>>

\* RawRead of the hole.
RawRead ==
  /\ op.kind = "read" /\ op.step = "transfer"
  /\ LET o == [op EXCEPT !.data = [s \in Sector |-> IF s \in op.todo THEN disk[s] ELSE @[s]]]
     IN  op' = IF enabled THEN [o EXCEPT !.step = "fill"]
                          ELSE [o EXCEPT !.step = "return", !.todo = {}]
  /\ UNCHANGED <<disk, tree, dirty, task, checked, mounted, content, failed, fault>>

\* Mutation of ReadHeld: the buffer keeps what RawRead left in it.
HeldNotCopied(s) ==
  /\ op.kind = "read" /\ op.step = "fill" /\ First(s) /\ s \in op.held
  /\ op' = After(s)
  /\ UNCHANGED <<disk, tree, dirty, task, checked, mounted, content, failed, fault>>

\* A sector of the hole that was found in the cache: what the cache has is newer.
ReadHeld(s) ==
  /\ op.kind = "read" /\ op.step = "fill" /\ First(s) /\ s \in op.held
  /\ IF cache[s] = None THEN Undefined
     ELSE /\ op' = [After(s) EXCEPT !.data[s] = cache[s]]
          /\ UNCHANGED <<disk, tree, dirty, task, checked, mounted, content, failed, fault>>

\* A sector that was not.
ReadMissing(s) ==
  /\ op.kind = "read" /\ op.step = "fill" /\ First(s) /\ s \notin op.held
  /\ \/ /\ ~Full
        /\ cache' = [cache EXCEPT ![s] = op.data[s]]
        /\ op' = After(s)
        /\ UNCHANGED <<release, built, enabled>>
     \/ Full /\ ReplaceCache(s, op.data[s]) /\ op' = After(s)
     \/ Full /\ ReplaceFails /\ op' = [op EXCEPT !.step = "return", !.todo = {}]
  /\ UNCHANGED <<disk, dirty, task, checked, mounted, content, failed, fault>>

-----------------------------------------------------------------------------
(* Write *)

\* First the sectors outside the hole are written, in order, then those of the hole.
BeginWrite(r, data) ==
  /\ op = Idle
  /\ LET hole == Hole(r)
         o == [kind |-> "write", step |-> "store", range |-> r, hole |-> hole, todo |-> r \ hole,
               count |-> 0, held |-> hole \cap Cached, data |-> data]
     IN  op' = IF ~enabled THEN [o EXCEPT !.step = "transfer", !.hole = r, !.todo = r]
               ELSE IF r = hole THEN [o EXCEPT !.step = "fill", !.todo = hole] ELSE o
  /\ UNCHANGED <<disk, tree, dirty, task, checked, mounted, content, failed, fault>>

\* DiskCacheValue::Write on a cached sector.
Store(s) ==
  /\ cache' = [cache EXCEPT ![s] = op.data[s]]
  /\ content' = [content EXCEPT ![s] = op.data[s]]
  /\ failed' = failed \ {s}
  /\ InsertToDirtyList(s)
  /\ UNCHANGED <<disk, release, built, enabled, task, checked, mounted, fault>>

WriteCached(s) ==
  /\ op.kind = "write" /\ op.step = "store" /\ First(s)
  /\ Store(s)
  /\ op' = IF op.todo # {s} THEN [op EXCEPT !.todo = @ \ {s}]
           ELSE IF op.hole = {} THEN [op EXCEPT !.step = "return", !.todo = {}]
           ELSE [op EXCEPT !.step = "fill", !.todo = op.hole]

WriteHeld(s) ==
  /\ op.kind = "write" /\ op.step = "fill" /\ First(s) /\ s \in op.held
  /\ IF cache[s] = None THEN Undefined
     ELSE Store(s) /\ op' = After(s)

\* A missing sector is added if there is room, else it is written to the medium at once.
WriteMissing(s) ==
  /\ op.kind = "write" /\ op.step = "fill" /\ First(s) /\ s \notin op.held
  /\ IF Full
       THEN /\ disk' = [disk EXCEPT ![s] = op.data[s]]
            /\ content' = [content EXCEPT ![s] = op.data[s]]
            /\ failed' = failed \ {s}
            /\ op' = [op EXCEPT !.step = "replace"]
            /\ UNCHANGED <<tree, dirty, task, checked, mounted, fault>>
       ELSE Store(s) /\ op' = After(s)

\* The hole again, from data that begins at the wrong sector of the buffer; behind the
\* buffer is anything.
Shifted(s, d) ==
  \A t \in op.hole : LET u == t + s - Least(op.hole)
                     IN  IF u \in op.range THEN d[t] = op.data[u] ELSE d[t] \in Value

WriteReplace(s) ==
  /\ op.kind = "write" /\ op.step = "replace" /\ First(s)
  /\ \/ ReplaceCache(s, op.data[s]) /\ op' = After(s) /\ disk' = disk
     \/ /\ ReplaceFails
        /\ op' = [op EXCEPT !.step = "return", !.todo = {}]
        /\ \E d \in [op.hole -> Value] :
             /\ Shifted(s, d)
             /\ disk' = [t \in Sector |-> IF t \in op.hole THEN d[t] ELSE disk[t]]
  /\ UNCHANGED <<dirty, task, checked, mounted, content, failed, fault>>

\* Without the cache.
RawWrite ==
  /\ op.kind = "write" /\ op.step = "transfer"
  /\ disk' = [s \in Sector |-> IF s \in op.range THEN op.data[s] ELSE disk[s]]
  /\ content' = [s \in Sector |-> IF s \in op.range THEN op.data[s] ELSE content[s]]
  /\ failed' = failed \ op.range
  /\ op' = [op EXCEPT !.step = "return", !.todo = {}]
  /\ UNCHANGED <<tree, dirty, task, checked, mounted, fault>>

\* The transfer throws: the operation is over, its later sectors are not written.
Throws ==
  /\ MaxFailed > 0
  /\ \/ op.step = "transfer"
     \/ /\ op.kind = "write" /\ op.step = "fill"
        /\ Full /\ \E s \in Sector \ op.held : First(s)
  /\ op' = Idle
  /\ UNCHANGED <<disk, tree, dirty, task, checked, mounted, content, failed, fault>>

Return ==
  /\ op.step = "return"
  /\ op' = Idle
  /\ UNCHANGED <<disk, tree, dirty, task, checked, mounted, content, failed, fault>>

-----------------------------------------------------------------------------
(* Flush and unmount *)

\* FlushDirtyCacheSectors tests _bEnableDiskCache before it takes the drive mutex.
Check(k) ==
  /\ k \notin checked /\ op.kind # k
  /\ k = "unmount" => mounted
  /\ IF enabled THEN checked' = checked \cup {k} /\ mounted' = mounted
                ELSE checked' = checked /\ mounted' = (mounted /\ k # "unmount")
  /\ UNCHANGED <<disk, tree, dirty, task, op, content, failed, fault>>

\* Mutation of BeginFlush: whoever flushes, only a batch is written.
FlushBatch(k) ==
  /\ op = Idle /\ k \in checked
  /\ op' = [Idle EXCEPT !.kind = k, !.step = "pop", !.count = FlushCount]
  /\ checked' = checked \ {k}
  /\ UNCHANGED <<disk, tree, dirty, task, mounted, content, failed, fault>>

BeginFlush(k) ==
  /\ op = Idle /\ k \in checked
  /\ op' = [Idle EXCEPT !.kind = k, !.step = "pop",
                        !.count = IF k = "flush" THEN FlushCount ELSE -1]
  /\ checked' = checked \ {k}
  /\ UNCHANGED <<disk, tree, dirty, task, mounted, content, failed, fault>>

Flushing == op.kind \in {"flush", "unmount"}
\* UnMount takes no notice of a failed flush.
EndFlush == op' = Idle /\ mounted' = (mounted /\ op.kind # "unmount")

\* The list node that pop_front deletes may be the one Run's find is at.
PopDirty ==
  /\ Flushing /\ op.step = "pop"
  /\ \/ /\ op.count # 0 /\ dirty # <<>>
        /\ dirty' = Tail(dirty)
        /\ op' = [op EXCEPT !.step = "save", !.todo = {Head(dirty)}, !.count = @ - 1]
        /\ fault' \in {FALSE, running}
        /\ mounted' = mounted
     \/ /\ op.count = 0 \/ dirty = <<>>
        /\ EndFlush
        /\ UNCHANGED <<dirty, fault>>
  /\ UNCHANGED <<disk, tree, task, checked, content, failed>>

\* FlushSector: RawWrite of what the cache has now.
FlushSector(s) ==
  /\ Flushing /\ op.step = "save" /\ op.todo = {s}
  /\ disk' = [disk EXCEPT ![s] = cache[s]]
  /\ op' = [op EXCEPT !.step = "pop", !.todo = {}]
  /\ UNCHANGED <<tree, dirty, task, checked, mounted, content, failed, fault>>

\* ... fails; the sector is not put back on the list.
FlushFails(s) ==
  /\ Cardinality(failed \cup {s}) <= MaxFailed
  /\ Flushing /\ op.step = "save" /\ op.todo = {s}
  /\ failed' = failed \cup {s}
  /\ EndFlush
  /\ UNCHANGED <<disk, tree, dirty, task, checked, content, fault>>

Mount ==
  /\ ~mounted /\ mounted' = TRUE
  /\ UNCHANGED <<disk, tree, dirty, task, op, checked, content, failed, fault>>

-----------------------------------------------------------------------------
(* The release task *)

Size(bag) == LET sum[S \in SUBSET Sector] ==
                   IF S = {} THEN 0 ELSE LET s == Least(S) IN bag[s] + sum[S \ {s}]
             IN  sum[Sector]

\* LFUSectorManager::Run begins to traverse the tree.  The list is not cleared.
Run ==
  /\ mounted /\ ~running
  /\ Full /\ ~built
  /\ running' = TRUE
  /\ visit' = Cached
  /\ UNCHANGED <<disk, tree, dirty, op, checked, mounted, content, failed, fault>>

\* Mutation of Visit: a long enough list is not shortened first.
VisitAdds(s) ==
  /\ running /\ visit # {} /\ s = Least(visit)
  /\ visit' = visit \ {s}
  /\ release' = IF s \in Dirty THEN release ELSE [release EXCEPT ![s] = @ + 1]
  /\ UNCHANGED <<disk, cache, dirty, built, running, enabled, op, checked, mounted, content,
                 failed, fault>>

\* The rank of s decides whether and in whose place it enters a list that is long enough.
Visit(s) ==
  /\ running /\ visit # {} /\ s = Least(visit)
  /\ visit' = visit \ {s}
  /\ release' \in
       IF s \in Dirty THEN {release}
       ELSE IF Size(release) < MaxRelListSize THEN {[release EXCEPT ![s] = @ + 1]}
       ELSE {release} \cup {[[release EXCEPT ![t] = @ - 1] EXCEPT ![s] = @ + 1] : t \in Listed}
  /\ UNCHANGED <<disk, cache, dirty, built, running, enabled, op, checked, mounted, content,
                 failed, fault>>

RunEnds ==
  /\ running /\ visit = {}
  /\ running' = FALSE
  /\ built' = (Size(release) = MaxRelListSize)
  /\ UNCHANGED <<disk, cache, dirty, release, visit, enabled, op, checked, mounted, content,
                 failed, fault>>

-----------------------------------------------------------------------------
\* The drive has just been created: nothing cached, the medium as it was found.
Init ==
  /\ disk \in [Sector -> Value] /\ content = disk
  /\ cache = Nothing /\ dirty = <<>>
  /\ release = [s \in Sector |-> 0] /\ built = FALSE
  /\ visit = {} /\ running = FALSE
  /\ enabled = TRUE /\ op = Idle /\ checked = {} /\ mounted = FALSE
  /\ failed = {} /\ fault = FALSE

\* What a Write is given: one value for the whole range tells apart all that matters here.
Buffers(r) == {[s \in Sector |-> IF s \in r THEN v ELSE None] : v \in Value}

Calls == \/ \E r \in Ranges : BeginRead(r) \/ \E d \in Buffers(r) : BeginWrite(r, d)
         \/ Check("unmount") \/ Mount
Transfer == \/ RawRead \/ RawWrite \/ Throws \/ Return \/ PopDirty
            \/ \E s \in Sector : \/ ReadHeld(s) \/ ReadMissing(s) \/ FlushSector(s) \/ FlushFails(s)
                                 \/ WriteCached(s) \/ WriteHeld(s) \/ WriteMissing(s) \/ WriteReplace(s)
FlushTask == Check("flush") \/ BeginFlush("flush")
ReleaseTask == Run \/ RunEnds \/ \E s \in Sector : Visit(s)

Next == ~fault /\ (Calls \/ BeginFlush("unmount") \/ Transfer \/ FlushTask \/ ReleaseTask)
Stop == fault /\ UNCHANGED vars

Spec == Init /\ [][Next \/ Stop]_vars

-----------------------------------------------------------------------------
(* Properties *)

Trusted == enabled /\ ~fault

\* What Read would find is what was last written, wherever it is: sectors are dropped
\* from the cache only when the medium has them.  Only a failed flush loses one.
Visible(s) == IF cache[s] # None THEN cache[s] ELSE disk[s]
NoLostWrite == Trusted => \A s \in Sector \ failed : Visible(s) = content[s]

\* A cached sector that differs from the medium is going to be written.
DirtyIsListed ==
  Trusted => \A s \in Cached \ failed :
               cache[s] # disk[s] => s \in Dirty \/ (op.step = "save" /\ s \in op.todo)

\* The buffer a Read returns has for every sector of its range what was last written.
ReadsLastWrite ==
  Trusted /\ op.kind = "read" /\ op.step = "return"
    => \A s \in op.range \ failed : op.data[s] = content[s]

\* UnMount leaves everything on the medium.
UnmountFlushes ==
  [][op.kind = "unmount" /\ op'.kind = "none" /\ Trusted /\ failed' = {} => disk = content]_vars
=============================================================================
