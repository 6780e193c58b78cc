-------------------------- MODULE DiskDrive_proofs --------------------------
(* For any medium, cache and release list: what was written is in the cache *)
(* or on the medium, reads return it, and UnMount leaves it on the medium.   *)
EXTENDS DiskDrive, TLAPS

\* What the properties are about; the release list may hold anything.
Data ==
  /\ disk \in [Sector -> Value]
  /\ cache \in [Sector -> Value \cup {None}]
  /\ dirty \in Seq(Sector)
  /\ content \in [Sector -> Value]
  /\ failed \subseteq Sector
  /\ op \in Op

\* The steps of each operation, and the sectors its loop may come to.
Transfers == op.kind \in {"read", "write"}
Shape ==
  /\ Transfers => op.held \subseteq op.hole /\ op.hole \subseteq op.range /\ op.todo \subseteq op.range
  /\ op.kind = "read" => op.step \in {"transfer", "fill", "return"}
  /\ op.kind = "write" => op.step \in {"transfer", "store", "fill", "replace", "return"}
  /\ op.kind \in {"flush", "unmount"} => op.step \in {"pop", "save"}
  /\ op.kind = "none" => op.step = "none"
  /\ op.step \in {"store", "fill", "replace"} => enabled
  /\ op.kind = "unmount" => op.count < 0

\* What is going to be written is in the cache.
DirtyIsCached ==
  /\ Dirty \subseteq Cached
  /\ op.step = "save" => \E s \in Cached : op.todo = {s}

\* A read has what was last written for all but the sectors it still has to do; those it
\* did not find in the cache have not come there since.
Reading ==
  Trusted /\ op.kind = "read" =>
    /\ \A s \in op.range \ (op.todo \cup failed) : op.data[s] = content[s]
    /\ \A s \in op.todo \ op.held : cache[s] = None
    /\ op.step = "fill" => \A s \in op.todo \ op.held : op.data[s] = disk[s]
    /\ op.step = "return" => op.todo = {}

\* A write has data for its range; the sectors it did not find have not come into the
\* cache since; the one that replaces another is on the medium already.
Writing ==
  op.kind = "write" =>
    /\ \A s \in op.range : op.data[s] \in Value
    /\ op.step = "transfer" => ~enabled
    /\ op.step = "store" => /\ op.todo \subseteq op.range \ op.hole
                            /\ \A s \in op.hole \ op.held : cache[s] = None
    /\ op.step \in {"fill", "replace"} => \A s \in op.todo \ op.held : cache[s] = None
    /\ op.step = "replace" => \A s \in op.todo : First(s) =>
         /\ s \notin op.held \cup failed
         /\ disk[s] = op.data[s] /\ content[s] = op.data[s]

IInv == Data /\ Shape /\ DirtyIsCached /\ NoLostWrite /\ DirtyIsListed /\ Reading /\ Writing
-----------------------------------------------------------------------------
Elements(q) == {q[i] : i \in DOMAIN q}

LEMMA AppendElements ==
  ASSUME NEW S, NEW q \in Seq(S), NEW r \in S
  PROVE  Append(q, r) \in Seq(S) /\ Elements(Append(q, r)) = Elements(q) \cup {r}
<1>1. /\ DOMAIN Append(q, r) = 1 .. Len(q) + 1 /\ DOMAIN q = 1 .. Len(q) /\ Len(q) \in Nat
      /\ \A i \in 1 .. Len(q) : Append(q, r)[i] = q[i]
      /\ Append(q, r)[Len(q) + 1] = r
  OBVIOUS
<1>2. Elements(Append(q, r)) \subseteq Elements(q) \cup {r}
  BY <1>1 DEF Elements
<1>3. Elements(q) \cup {r} \subseteq Elements(Append(q, r))
  BY <1>1 DEF Elements
<1>4. QED BY <1>2, <1>3

LEMMA TailElements ==
  ASSUME NEW S, NEW q \in Seq(S), q # <<>>
  PROVE  /\ Head(q) \in S /\ Tail(q) \in Seq(S)
         /\ Elements(q) = Elements(Tail(q)) \cup {Head(q)}
<1>1. /\ DOMAIN q = 1 .. Len(q) /\ Len(q) \in Nat \ {0}
      /\ DOMAIN Tail(q) = 1 .. Len(q) - 1
      /\ \A i \in 1 .. Len(q) - 1 : Tail(q)[i] = q[i + 1]
      /\ Head(q) = q[1]
  OBVIOUS
<1>2. Elements(q) \subseteq Elements(Tail(q)) \cup {Head(q)}
  <2> SUFFICES ASSUME NEW i \in 1 .. Len(q) PROVE q[i] \in Elements(Tail(q)) \cup {Head(q)}
    BY <1>1 DEF Elements
  <2>1. CASE i = 1
    BY <1>1, <2>1
  <2>2. CASE i # 1
    <3>1. i - 1 \in 1 .. Len(q) - 1 /\ Tail(q)[i - 1] = q[i]
      BY <1>1, <2>2
    <3>2. QED BY <1>1, <3>1 DEF Elements
  <2>3. QED BY <2>1, <2>2
<1>3. Elements(Tail(q)) \cup {Head(q)} \subseteq Elements(q)
  BY <1>1 DEF Elements
<1>4. QED BY <1>1, <1>2, <1>3

LEMMA DirtyElements == Dirty = Elements(dirty) /\ Dirty' = Elements(dirty')
  BY DEF Dirty, Elements

\* The state all parts of the invariant look at.
base == <<disk, cache, dirty, content, failed, enabled, op, fault>>

LEMMA BaseKeeps == ASSUME IInv, UNCHANGED base PROVE IInv'
  BY DEF IInv, base, Data, Shape, Transfers, DirtyIsCached, Dirty, Cached, NoLostWrite, Trusted,
     Visible, DirtyIsListed, Reading, Writing, First

THEOREM InitHolds == Init => IInv
<1> SUFFICES ASSUME Init PROVE IInv
  OBVIOUS
<1>1. Data /\ op.kind = "none" /\ op.step = "none"
  <2>1. Idle \in Op /\ Nothing \in Buffer
    BY DEF Idle, Op, Ops, Steps, Buffer, Nothing
  <2>2. QED BY <2>1 DEF Init, Data, Idle, Buffer, Nothing
<1>2. Dirty = {} /\ Cached = {}
  BY DEF Init, Dirty, Cached, Nothing
<1>3. NoLostWrite
  BY <1>1 DEF Init, NoLostWrite, Visible, Nothing
<1>4. QED
  BY <1>1, <1>2, <1>3 DEF IInv, Shape, Transfers, DirtyIsCached, DirtyIsListed, Reading, Writing

-----------------------------------------------------------------------------
\* The loop goes on to the next sector, or the operation is over.
LEMMA AfterIs ==
  ASSUME Data, NEW s \in op.todo, op' = After(s)
  PROVE  /\ op' \in Op
         /\ op'.kind = op.kind /\ op'.range = op.range /\ op'.hole = op.hole
         /\ op'.held = op.held /\ op'.data = op.data /\ op'.count = op.count
         /\ op'.todo = op.todo \ {s}
         /\ op'.step \in {"fill", "return"}
         /\ op'.step = "return" => op'.todo = {}
<1>1. CASE op.todo = {s}
  BY <1>1 DEF Data, After, Op, Steps
<1>2. CASE op.todo # {s}
  BY <1>2 DEF Data, After, Op, Steps
<1>3. QED BY <1>1, <1>2

\* A full cache gives up at most one sector, never a dirty one.
LEMMA ReplaceCacheIs ==
  ASSUME Data, NEW s \in Sector, cache[s] = None, NEW v \in Value, ReplaceCache(s, v)
  PROVE  /\ cache' \in [Sector -> Value \cup {None}]
         /\ cache'[s] \in {None, v}
         /\ \A u \in Sector \ {s} :
              \/ cache'[u] = cache[u]
              \/ u \notin Dirty /\ cache[u] # None /\ cache'[u] = None
         /\ enabled' = enabled
<1>1. CASE NoVictim
  BY <1>1 DEF NoVictim, Data
<1>2. ASSUME NEW t \in Cached, NEW rest, Popped(t, rest),
             cache' = [cache EXCEPT ![t] = None, ![s] = v], UNCHANGED enabled
      PROVE  /\ cache' \in [Sector -> Value \cup {None}]
             /\ cache'[s] \in {None, v}
             /\ \A u \in Sector \ {s} :
                  \/ cache'[u] = cache[u]
                  \/ u \notin Dirty /\ cache[u] # None /\ cache'[u] = None
             /\ enabled' = enabled
  <2>1. t \in Sector /\ t \notin Dirty /\ cache[t] # None /\ s # t
    BY <1>2 DEF Popped, Cached
  <2>2. QED BY <1>2, <2>1 DEF Data
<1>3. QED BY <1>1, <1>2 DEF ReplaceCache

-----------------------------------------------------------------------------
\* Only what is being done has changed: nothing is lost or forgotten.
contents == <<disk, cache, dirty, content, failed, fault>>

LEMMA OnlyOp ==
  ASSUME IInv, UNCHANGED contents, enabled' => enabled, op.step # "save", op'.step # "save"
  PROVE  DirtyIsCached' /\ NoLostWrite' /\ DirtyIsListed' /\ (Trusted' => Trusted)
<1>1. UNCHANGED <<disk, cache, dirty, content, failed, fault>>
  BY DEF contents
<1>2. Dirty' = Dirty /\ Cached' = Cached
  BY <1>1 DEF Dirty, Cached
<1>3. Trusted' => Trusted
  BY <1>1 DEF Trusted
<1>4. DirtyIsCached'
  BY <1>2 DEF IInv, DirtyIsCached
<1>5. NoLostWrite'
  BY <1>1, <1>3 DEF IInv, NoLostWrite, Visible
<1>6. DirtyIsListed'
  BY <1>1, <1>2, <1>3 DEF IInv, DirtyIsListed
<1>7. QED BY <1>3, <1>4, <1>5, <1>6

\* What the cache has not is in the hole.
LEMMA HoleIs ==
  ASSUME NEW r \in SUBSET Sector
  PROVE  Hole(r) \subseteq r /\ \A s \in r \ Hole(r) : cache[s] # None
<1>1. \A s \in r : s \in Nat
  BY SectorAssumption
<1>2. \A s \in r : s <= s
  BY <1>1
<1>3. QED BY <1>2 DEF Hole, Cached

LEMMA BeginReadKeeps ==
  ASSUME IInv, NEW r \in Ranges, BeginRead(r)
  PROVE  IInv'
<1> DEFINE hole == IF enabled THEN Hole(r) ELSE r
           held == IF enabled THEN hole \cap Cached ELSE {}
           found == [s \in Sector |-> IF s \in r \ hole THEN cache[s] ELSE None]
<1>1. r \in SUBSET Sector
  BY SectorAssumption
<1>2. /\ hole \subseteq r /\ held \subseteq hole
      /\ \A s \in r \ hole : cache[s] # None
      /\ enabled => \A s \in hole \ held : cache[s] = None
  BY <1>1, HoleIs DEF Cached
<1>3. /\ op' = [kind |-> "read", step |-> IF hole = {} THEN "return" ELSE "transfer",
                range |-> r, hole |-> hole, todo |-> hole, count |-> 0,
                held |-> held, data |-> found]
      /\ op = Idle /\ UNCHANGED <<disk, cache, dirty, content, failed, fault, enabled>>
  BY DEF BeginRead, tree
<1> HIDE DEF hole, held
<1>4. found \in Buffer
  BY DEF IInv, Data, Buffer
<1>5. Data'
  BY <1>1, <1>2, <1>3, <1>4 DEF IInv, Data, Op, Ops, Steps
<1> HIDE DEF found
<1>6. /\ op.step = "none" /\ op'.kind = "read" /\ op'.step \in {"return", "transfer"}
      /\ op'.range = r /\ op'.hole = hole /\ op'.todo = hole /\ op'.held = held /\ op'.data = found
      /\ op'.step = "return" => hole = {}
  BY <1>3 DEF Idle
<1>7. Shape' /\ Writing'
  BY <1>2, <1>6 DEF Shape, Transfers, Writing
<1>8. DirtyIsCached' /\ NoLostWrite' /\ DirtyIsListed' /\ (Trusted' => Trusted)
  BY <1>3, <1>6, OnlyOp DEF contents
<1>9. Reading'
  <2> SUFFICES ASSUME Trusted' PROVE Reading'
    BY DEF Reading
  <2>1. Trusted /\ enabled
    BY <1>8 DEF Trusted
  <2>2. ASSUME NEW s \in r \ (hole \cup failed) PROVE found[s] = content[s]
    <3>1. found[s] = cache[s] /\ cache[s] # None /\ s \in Sector \ failed
      BY <1>1, <1>2 DEF found
    <3>2. QED BY <2>1, <3>1 DEF IInv, NoLostWrite, Visible
  <2>3. \A s \in hole \ held : cache[s] = None
    BY <1>2, <2>1
  <2>4. QED BY <1>3, <1>6, <2>2, <2>3 DEF Reading
<1>10. QED BY <1>5, <1>7, <1>8, <1>9 DEF IInv

LEMMA RawReadKeeps == ASSUME IInv, RawRead PROVE IInv'
<1> DEFINE found == [s \in Sector |-> IF s \in op.todo THEN disk[s] ELSE op.data[s]]
<1>1. /\ op.kind = "read" /\ op.step = "transfer" /\ op \in Op
      /\ UNCHANGED <<disk, cache, dirty, content, failed, fault, enabled>>
  BY DEF RawRead, tree, IInv, Data
<1>2. found \in Buffer
  BY <1>1 DEF IInv, Data, Op, Buffer
<1>3. /\ [op EXCEPT !.data = [s \in Sector |-> IF s \in op.todo THEN disk[s] ELSE @[s]]]
           = [op EXCEPT !.data = found]
  BY DEF found
<1>4. op' = IF enabled THEN [[op EXCEPT !.data = found] EXCEPT !.step = "fill"]
            ELSE [[op EXCEPT !.data = found] EXCEPT !.step = "return", !.todo = {}]
  BY <1>3 DEF RawRead
<1>5. /\ op' \in Op /\ op'.kind = "read" /\ op'.range = op.range /\ op'.hole = op.hole
      /\ op'.held = op.held /\ op'.data = found
      /\ IF enabled THEN op'.step = "fill" /\ op'.todo = op.todo
                    ELSE op'.step = "return" /\ op'.todo = {}
  <2> HIDE DEF found
  <2>1. CASE enabled
    BY <1>1, <1>2, <1>4, <2>1 DEF Op, Steps
  <2>2. CASE ~enabled
    BY <1>1, <1>2, <1>4, <2>2 DEF Op, Steps
  <2>3. QED BY <2>1, <2>2
<1>6. Data' /\ Shape' /\ Writing'
  BY <1>1, <1>5 DEF IInv, Data, Shape, Transfers, Writing
<1>7. DirtyIsCached' /\ NoLostWrite' /\ DirtyIsListed' /\ (Trusted' => Trusted)
  BY <1>1, <1>5, OnlyOp DEF contents
<1>8. Reading'
  <2> SUFFICES ASSUME Trusted' PROVE Reading'
    BY DEF Reading
  <2>1. Trusted /\ enabled
    BY <1>7 DEF Trusted
  <2>2. op.range \subseteq Sector /\ op.todo \subseteq op.range
    BY <1>1 DEF IInv, Shape, Transfers, Op
  <2>3. \A s \in op.range \ (op.todo \cup failed) : found[s] = content[s]
    BY <1>1, <2>1, <2>2 DEF IInv, Reading
  <2>4. \A s \in op.todo \ op.held : cache[s] = None /\ found[s] = disk[s]
    BY <1>1, <2>1, <2>2 DEF IInv, Reading
  <2>5. QED BY <1>1, <1>5, <2>1, <2>3, <2>4 DEF Reading
<1>9. QED BY <1>6, <1>7, <1>8 DEF IInv

LEMMA ReadHeldKeeps ==
  ASSUME IInv, NEW s \in Sector, ReadHeld(s), cache[s] # None
  PROVE  IInv'
<1>1. /\ op.kind = "read" /\ op.step = "fill" /\ s \in op.todo /\ s \in op.held
      /\ op' = [After(s) EXCEPT !.data[s] = cache[s]]
      /\ UNCHANGED <<disk, cache, dirty, content, failed, fault, enabled>>
  BY DEF ReadHeld, First, tree
<1>2. /\ After(s) \in Op /\ After(s).kind = op.kind /\ After(s).range = op.range
      /\ After(s).hole = op.hole /\ After(s).held = op.held /\ After(s).data = op.data
      /\ After(s).todo = op.todo \ {s} /\ After(s).step \in {"fill", "return"}
      /\ After(s).step = "return" => After(s).todo = {}
  <2>1. CASE op.todo = {s}
    BY <1>1, <2>1 DEF IInv, Data, After, Op, Steps
  <2>2. CASE op.todo # {s}
    BY <1>1, <2>2 DEF IInv, Data, After, Op, Steps
  <2>3. QED BY <2>1, <2>2
<1>3. /\ op' \in Op /\ op'.kind = "read" /\ op'.range = op.range /\ op'.hole = op.hole
      /\ op'.held = op.held /\ op'.todo = op.todo \ {s} /\ op'.step \in {"fill", "return"}
      /\ op'.step = "return" => op'.todo = {}
      /\ op'.data = [op.data EXCEPT ![s] = cache[s]]
  <2>1. [op.data EXCEPT ![s] = cache[s]] \in Buffer
    BY DEF IInv, Data, Op, Buffer
  <2>2. QED BY <1>1, <1>2, <2>1 DEF Op
<1>4. Data' /\ Shape' /\ Writing'
  BY <1>1, <1>3 DEF IInv, Data, Shape, Transfers, Writing
<1>5. DirtyIsCached' /\ NoLostWrite' /\ DirtyIsListed' /\ (Trusted' => Trusted)
  BY <1>1, <1>3, OnlyOp DEF contents
<1>6. Reading'
  <2> SUFFICES ASSUME Trusted' PROVE Reading'
    BY DEF Reading
  <2>1. Trusted
    BY <1>5
  <2>2. op.data \in Buffer /\ op.range \subseteq Sector
    BY DEF IInv, Data, Op
  <2>3. s \notin failed => cache[s] = content[s]
    BY <2>1, <1>1 DEF IInv, NoLostWrite, Visible, ReadHeld
  <2>4. ASSUME NEW u \in op.range \ ((op.todo \ {s}) \cup failed)
        PROVE  op'.data[u] = content[u]
    <3>1. CASE u = s
      BY <1>3, <2>2, <2>3, <3>1 DEF Buffer
    <3>2. CASE u # s
      <4>1. op.data[u] = content[u]
        BY <1>1, <2>1, <2>4, <3>2 DEF IInv, Reading
      <4>2. QED BY <1>3, <2>2, <3>2, <4>1 DEF Buffer
    <3>3. QED BY <3>1, <3>2
  <2>5. ASSUME NEW u \in (op.todo \ {s}) \ op.held
        PROVE  cache[u] = None /\ op'.data[u] = disk[u]
    <3>1. u \in Sector /\ cache[u] = None /\ op.data[u] = disk[u]
      BY <1>1, <2>1, <2>2 DEF IInv, Reading, Shape, Transfers
    <3>2. QED BY <1>3, <2>2, <2>5, <3>1 DEF Buffer
  <2>6. QED BY <1>1, <1>3, <2>4, <2>5 DEF Reading
<1>7. QED BY <1>4, <1>5, <1>6 DEF IInv

\* The cache takes in what the medium has of a sector, or does not.
LEMMA CacheTakes ==
  ASSUME IInv, Trusted, op.step # "save", op'.step # "save",
         NEW s \in Sector, cache[s] = None, NEW v \in Value, v = disk[s],
         cache'[s] \in {None, v},
         \A u \in Sector \ {s} :
           \/ cache'[u] = cache[u]
           \/ u \notin Dirty /\ cache[u] # None /\ cache'[u] = None,
         UNCHANGED <<disk, dirty, content, failed>>
  PROVE  DirtyIsCached' /\ NoLostWrite' /\ DirtyIsListed'
<1>1. Dirty' = Dirty /\ s \notin Dirty
  BY DEF Dirty, IInv, DirtyIsCached, Cached
<1>2. Dirty \subseteq Cached /\ Cached \subseteq Sector
  BY DEF IInv, DirtyIsCached, Cached
<1>3. DirtyIsCached'
  <2> SUFFICES ASSUME NEW u \in Dirty PROVE u \in Cached'
    BY <1>1 DEF DirtyIsCached
  <2>1. u \in Sector /\ u # s /\ cache[u] # None
    BY <1>1, <1>2 DEF Cached
  <2>2. QED BY <2>1 DEF Cached
<1>4. NoLostWrite'
  <2> SUFFICES ASSUME NEW u \in Sector \ failed PROVE Visible(u)' = content[u]
    BY DEF NoLostWrite
  <2>1. Visible(u) = content[u]
    BY DEF IInv, NoLostWrite
  <2>2. CASE u = s
    BY <2>1, <2>2, ValueAssumption DEF Visible
  <2>3. CASE u # s /\ cache'[u] = cache[u]
    BY <2>1, <2>3 DEF Visible
  <2>4. CASE u # s /\ u \notin Dirty /\ cache[u] # None /\ cache'[u] = None
    <3>1. cache[u] = disk[u]
      BY <2>4 DEF IInv, DirtyIsListed, Cached
    <3>2. QED BY <2>1, <2>4, <3>1 DEF Visible
  <2>5. QED BY <2>2, <2>3, <2>4
<1>5. DirtyIsListed'
  <2> SUFFICES ASSUME NEW u \in Sector \ failed, cache'[u] # None, cache'[u] # disk[u]
               PROVE  u \in Dirty
    BY <1>1 DEF DirtyIsListed, Cached
  <2>1. u # s /\ cache'[u] = cache[u]
    OBVIOUS
  <2>2. QED BY <2>1 DEF IInv, DirtyIsListed, Cached
<1>6. QED BY <1>3, <1>4, <1>5

LEMMA ReadMissingKeeps ==
  ASSUME IInv, ~fault, NEW s \in Sector, ReadMissing(s)
  PROVE  IInv'
<1> DEFINE v == op.data[s]
<1>1. /\ op.kind = "read" /\ op.step = "fill" /\ s \in op.todo /\ s \notin op.held
      /\ UNCHANGED <<disk, dirty, content, failed, fault>>
  BY DEF ReadMissing, First
<1>2. Trusted
  BY <1>1 DEF IInv, Shape, Trusted
<1>3. /\ op.range \subseteq Sector /\ op.todo \subseteq op.range /\ op \in Op
      /\ op.held \subseteq op.hole /\ op.hole \subseteq op.range
  BY <1>1 DEF IInv, Data, Op, Shape, Transfers
<1>4. /\ \A u \in op.range \ (op.todo \cup failed) : op.data[u] = content[u]
      /\ \A u \in op.todo \ op.held : cache[u] = None /\ op.data[u] = disk[u]
  BY <1>1, <1>2, <1>3 DEF IInv, Reading
<1>5. cache[s] = None /\ v = disk[s] /\ v \in Value
  BY <1>1, <1>4 DEF IInv, Data
<1>6. s \notin failed => v = content[s]
  BY <1>2, <1>5 DEF IInv, NoLostWrite, Visible
<1>7. ASSUME op' = After(s), enabled' = enabled, cache' \in [Sector -> Value \cup {None}],
             cache'[s] \in {None, v},
             \A u \in Sector \ {s} :
               \/ cache'[u] = cache[u]
               \/ u \notin Dirty /\ cache[u] # None /\ cache'[u] = None
      PROVE  IInv'
  <2> HIDE DEF v
  <2>1. /\ op' \in Op
        /\ op'.kind = op.kind /\ op'.range = op.range /\ op'.hole = op.hole
        /\ op'.held = op.held /\ op'.data = op.data /\ op'.count = op.count
        /\ op'.todo = op.todo \ {s}
        /\ op'.step \in {"fill", "return"}
        /\ op'.step = "return" => op'.todo = {}
    BY <1>1, <1>7, AfterIs DEF IInv
  <2>2. Data' /\ Shape' /\ Writing'
    BY <1>1, <1>3, <1>7, <2>1 DEF IInv, Data, Shape, Transfers, Writing
  <2>3. DirtyIsCached' /\ NoLostWrite' /\ DirtyIsListed'
    BY <1>1, <1>2, <1>5, <1>7, <2>1, CacheTakes
  <2>4. ASSUME NEW u \in op.range \ ((op.todo \ {s}) \cup failed)
        PROVE  op'.data[u] = content[u]
    BY <1>4, <1>6, <2>1, <2>4 DEF v
  <2>5. ASSUME NEW u \in (op.todo \ {s}) \ op.held
        PROVE  cache'[u] = None /\ op'.data[u] = disk[u]
    BY <1>3, <1>4, <1>7, <2>1, <2>5
  <2>6. Reading'
    BY <1>1, <2>1, <2>4, <2>5 DEF Reading
  <2>7. QED BY <2>2, <2>3, <2>6 DEF IInv
<1>8. CASE /\ cache' = [cache EXCEPT ![s] = op.data[s]] /\ op' = After(s)
           /\ UNCHANGED <<release, built, enabled>>
  <2>1. /\ cache' \in [Sector -> Value \cup {None}] /\ cache'[s] = v
        /\ \A u \in Sector \ {s} : cache'[u] = cache[u]
    BY <1>5, <1>8 DEF IInv, Data
  <2>2. QED BY <1>7, <1>8, <2>1
<1>9. CASE ReplaceCache(s, op.data[s]) /\ op' = After(s)
  BY <1>5, <1>7, <1>9, ReplaceCacheIs DEF IInv
<1>10. CASE ReplaceFails /\ op' = [op EXCEPT !.step = "return", !.todo = {}]
  <2>1. /\ UNCHANGED cache /\ ~enabled'
        /\ op' \in Op /\ op'.kind = "read" /\ op'.step = "return" /\ op'.todo = {}
        /\ op'.range = op.range /\ op'.hole = op.hole /\ op'.held = op.held
    BY <1>1, <1>3, <1>10 DEF ReplaceFails, Op, Steps
  <2>2. Data' /\ Shape' /\ Writing'
    BY <1>1, <1>3, <2>1 DEF IInv, Data, Shape, Transfers, Writing
  <2>3. DirtyIsCached' /\ NoLostWrite' /\ DirtyIsListed' /\ Reading'
    <3>1. ~Trusted'
      BY <2>1 DEF Trusted
    <3>2. DirtyIsCached'
      BY <1>1, <2>1 DEF IInv, DirtyIsCached, Dirty, Cached
    <3>3. QED BY <3>1, <3>2 DEF NoLostWrite, DirtyIsListed, Reading
  <2>4. QED BY <2>2, <2>3 DEF IInv
<1>11. QED BY <1>8, <1>9, <1>10 DEF ReadMissing

-----------------------------------------------------------------------------
LEMMA BeginWriteKeeps ==
  ASSUME IInv, NEW r \in Ranges, NEW data \in Buffers(r), BeginWrite(r, data)
  PROVE  IInv'
<1> DEFINE hole == Hole(r)
           held == hole \cap Cached
<1>1. r \in SUBSET Sector /\ hole \subseteq r /\ held \subseteq hole
  BY SectorAssumption, HoleIs
<1>2. data \in Buffer /\ \A s \in r : data[s] \in Value
  BY <1>1 DEF Buffers, Buffer
<1>3. \A s \in hole \ held : cache[s] = None
  BY <1>1 DEF Cached
<1> HIDE DEF hole, held
<1>4. op = Idle /\ UNCHANGED <<disk, cache, dirty, content, failed, fault, enabled>>
  BY DEF BeginWrite, tree
<1>5. op.step = "none"
  BY <1>4 DEF Idle
<1>6. /\ op' \in Op /\ op'.kind = "write" /\ op'.range = r /\ op'.held = held /\ op'.data = data
      /\ op'.hole \in SUBSET r /\ op'.todo \in SUBSET r /\ held \subseteq op'.hole
      /\ \/ op'.step = "transfer" /\ ~enabled
         \/ op'.step = "fill" /\ enabled /\ op'.todo = hole
         \/ op'.step = "store" /\ enabled /\ op'.hole = hole /\ op'.todo = r \ hole
  <2> DEFINE o == [kind |-> "write", step |-> "store", range |-> r, hole |-> hole, todo |-> r \ hole,
                   count |-> 0, held |-> held, data |-> data]
  <2>1. op' = IF ~enabled THEN [o EXCEPT !.step = "transfer", !.hole = r, !.todo = r]
              ELSE IF r = hole THEN [o EXCEPT !.step = "fill", !.todo = hole] ELSE o
    BY DEF BeginWrite, hole, held
  <2>2. o \in Op
    BY <1>1, <1>2 DEF Op, Ops, Steps
  <2>3. CASE ~enabled
    BY <1>1, <2>1, <2>2, <2>3 DEF Op, Steps
  <2>4. CASE enabled /\ r = hole
    BY <1>1, <2>1, <2>2, <2>4 DEF Op, Steps
  <2>5. CASE enabled /\ r # hole
    BY <1>1, <2>1, <2>2, <2>5 DEF Op, Steps
  <2>6. QED BY <2>3, <2>4, <2>5
<1>7. Data' /\ Shape'
  BY <1>4, <1>6 DEF IInv, Data, Shape, Transfers
<1>8. DirtyIsCached' /\ NoLostWrite' /\ DirtyIsListed'
  BY <1>4, <1>5, <1>6, OnlyOp DEF contents
<1>9. Writing'
  BY <1>2, <1>3, <1>4, <1>6 DEF Writing
<1>10. Reading'
  BY <1>6 DEF Reading
<1>11. QED BY <1>7, <1>8, <1>9, <1>10 DEF IInv

\* A stored sector is in the cache and listed; nothing else changes.
LEMMA StoreKeeps ==
  ASSUME IInv, NEW s \in op.todo, op.kind = "write", op.step \in {"store", "fill"},
         op'.step # "save", Store(s)
  PROVE  /\ DirtyIsCached' /\ NoLostWrite' /\ DirtyIsListed'
         /\ cache' = [cache EXCEPT ![s] = op.data[s]]
         /\ cache' \in [Sector -> Value \cup {None}] /\ content' \in [Sector -> Value]
         /\ dirty' \in Seq(Sector) /\ failed' \subseteq Sector
         /\ UNCHANGED <<disk, enabled, fault>>
<1>1. s \in Sector /\ op.data[s] \in Value /\ op.data[s] # None
  BY ValueAssumption DEF IInv, Data, Op, Shape, Transfers, Writing
<1>2. /\ cache' = [cache EXCEPT ![s] = op.data[s]]
      /\ content' = [content EXCEPT ![s] = op.data[s]]
      /\ failed' = failed \ {s}
      /\ UNCHANGED <<disk, enabled, fault>>
  BY DEF Store
<1>3. dirty' \in Seq(Sector) /\ Dirty' = Dirty \cup {s}
  <2>1. CASE s \in Dirty
    BY <2>1, DirtyElements DEF Store, InsertToDirtyList, IInv, Data
  <2>2. CASE s \notin Dirty
    <3>1. dirty' = Append(dirty, s)
      BY <2>2 DEF Store, InsertToDirtyList
    <3>2. QED BY <1>1, <3>1, AppendElements, DirtyElements DEF IInv, Data
  <2>3. QED BY <2>1, <2>2
<1>4. /\ cache' \in [Sector -> Value \cup {None}] /\ content' \in [Sector -> Value]
      /\ cache'[s] = op.data[s] /\ content'[s] = op.data[s]
      /\ \A u \in Sector \ {s} : cache'[u] = cache[u] /\ content'[u] = content[u]
  BY <1>1, <1>2 DEF IInv, Data
<1>5. Cached' = Cached \cup {s}
  BY <1>1, <1>4 DEF Cached
<1>6. DirtyIsCached'
  BY <1>3, <1>5 DEF IInv, DirtyIsCached
<1>7. NoLostWrite'
  <2> SUFFICES ASSUME Trusted, NEW u \in Sector \ failed' PROVE Visible(u)' = content'[u]
    BY <1>2 DEF NoLostWrite, Trusted
  <2>1. CASE u = s
    BY <1>1, <1>4, <2>1 DEF Visible
  <2>2. CASE u # s
    BY <1>2, <1>4, <2>2 DEF IInv, NoLostWrite, Visible
  <2>3. QED BY <2>1, <2>2
<1>8. DirtyIsListed'
  <2> SUFFICES ASSUME Trusted, NEW u \in Cached' \ failed', cache'[u] # disk[u] PROVE u \in Dirty'
    BY <1>2 DEF DirtyIsListed, Trusted
  <2>1. CASE u = s
    BY <1>3, <2>1
  <2>2. CASE u # s
    BY <1>2, <1>3, <1>4, <1>5, <2>2 DEF IInv, DirtyIsListed, Cached
  <2>3. QED BY <2>1, <2>2
<1>9. QED
  <2>1. failed' \subseteq Sector
    BY <1>2 DEF IInv, Data
  <2>2. QED BY <1>2, <1>3, <1>4, <1>6, <1>7, <1>8, <2>1

LEMMA WriteCachedKeeps ==
  ASSUME IInv, NEW s \in Sector, WriteCached(s)
  PROVE  IInv'
<1>1. op.kind = "write" /\ op.step = "store" /\ s \in op.todo /\ op \in Op /\ enabled
  BY DEF WriteCached, First, IInv, Data, Shape
<1>2. /\ op' \in Op /\ op'.kind = "write" /\ op'.range = op.range /\ op'.hole = op.hole
      /\ op'.held = op.held /\ op'.data = op.data
      /\ \/ op'.step = "store" /\ op'.todo = op.todo \ {s}
         \/ op'.step = "return" /\ op'.todo = {}
         \/ op'.step = "fill" /\ op'.todo = op.hole
  <2>1. CASE op.todo # {s}
    BY <1>1, <2>1 DEF WriteCached, Op
  <2>2. CASE op.todo = {s} /\ op.hole = {}
    BY <1>1, <2>2 DEF WriteCached, Op, Steps
  <2>3. CASE op.todo = {s} /\ op.hole # {}
    BY <1>1, <2>3 DEF WriteCached, Op, Steps
  <2>4. QED BY <2>1, <2>2, <2>3
<1>3. /\ DirtyIsCached' /\ NoLostWrite' /\ DirtyIsListed'
      /\ cache' = [cache EXCEPT ![s] = op.data[s]]
      /\ cache' \in [Sector -> Value \cup {None}] /\ content' \in [Sector -> Value]
      /\ dirty' \in Seq(Sector) /\ failed' \subseteq Sector
      /\ UNCHANGED <<disk, enabled, fault>>
  BY <1>1, <1>2, StoreKeeps DEF WriteCached
<1>4. /\ op.held \subseteq op.hole /\ op.hole \subseteq op.range /\ op.todo \subseteq op.range \ op.hole
      /\ op.range \subseteq Sector
      /\ \A u \in op.range : op.data[u] \in Value
      /\ \A u \in op.hole \ op.held : cache[u] = None
  BY <1>1 DEF IInv, Shape, Transfers, Writing, Op
<1>5. Data' /\ Shape'
  BY <1>1, <1>2, <1>3, <1>4 DEF IInv, Data, Shape, Transfers
<1>6. Writing'
  <2>1. \A u \in op.hole \ op.held : cache'[u] = None
    BY <1>1, <1>3, <1>4 DEF IInv, Data
  <2>2. QED BY <1>2, <1>4, <2>1 DEF Writing
<1>7. Reading'
  BY <1>2 DEF Reading
<1>8. QED BY <1>3, <1>5, <1>6, <1>7 DEF IInv

\* A sector of the hole is stored, found or not.
LEMMA FillKeeps ==
  ASSUME IInv, NEW s \in op.todo, op.kind = "write", op.step = "fill", Store(s), op' = After(s)
  PROVE  IInv'
<1>1. op \in Op /\ enabled /\ Data
  BY DEF IInv, Data, Shape
<1>2. /\ op' \in Op
      /\ op'.kind = op.kind /\ op'.range = op.range /\ op'.hole = op.hole
      /\ op'.held = op.held /\ op'.data = op.data /\ op'.count = op.count
      /\ op'.todo = op.todo \ {s}
      /\ op'.step \in {"fill", "return"}
  BY <1>1, AfterIs
<1>3. /\ DirtyIsCached' /\ NoLostWrite' /\ DirtyIsListed'
      /\ cache' = [cache EXCEPT ![s] = op.data[s]]
      /\ cache' \in [Sector -> Value \cup {None}] /\ content' \in [Sector -> Value]
      /\ dirty' \in Seq(Sector) /\ failed' \subseteq Sector
      /\ UNCHANGED <<disk, enabled, fault>>
  BY <1>2, StoreKeeps
<1>4. Data' /\ Shape'
  BY <1>1, <1>2, <1>3 DEF IInv, Data, Shape, Transfers
<1>5. Writing'
  <2>1. \A u \in (op.todo \ {s}) \ op.held : cache'[u] = None
    <3>1. op.todo \subseteq Sector
      BY DEF IInv, Data, Op
    <3>2. QED BY <1>3, <3>1 DEF IInv, Data, Writing
  <2>2. QED BY <1>2, <2>1 DEF IInv, Writing
<1>6. Reading'
  BY <1>2 DEF Reading
<1>7. QED BY <1>3, <1>4, <1>5, <1>6 DEF IInv

LEMMA WriteMissingKeeps ==
  ASSUME IInv, NEW s \in Sector, WriteMissing(s)
  PROVE  IInv'
<1>1. /\ op.kind = "write" /\ op.step = "fill" /\ First(s) /\ s \in op.todo /\ s \notin op.held
      /\ op \in Op /\ enabled
  BY DEF WriteMissing, First, IInv, Data, Shape
<1>2. CASE ~Full
  BY <1>1, <1>2, FillKeeps DEF WriteMissing
<1>3. CASE Full
  <2>1. /\ disk' = [disk EXCEPT ![s] = op.data[s]]
        /\ content' = [content EXCEPT ![s] = op.data[s]]
        /\ failed' = failed \ {s}
        /\ op' = [op EXCEPT !.step = "replace"]
        /\ UNCHANGED <<cache, enabled, dirty, fault>>
    BY <1>3 DEF WriteMissing, tree
  <2>2. op.range \subseteq Sector /\ op.todo \subseteq op.range
    BY <1>1 DEF IInv, Shape, Transfers, Op
  <2>3. /\ op.data[s] \in Value /\ cache[s] = None
    BY <1>1, <2>2 DEF IInv, Writing
  <2>4. /\ op' \in Op /\ op'.kind = "write" /\ op'.step = "replace" /\ op'.range = op.range
        /\ op'.hole = op.hole /\ op'.held = op.held /\ op'.data = op.data /\ op'.todo = op.todo
        /\ op'.count = op.count
    BY <1>1, <2>1 DEF Op, Steps
  <2>5. /\ disk'[s] = op.data[s] /\ content'[s] = op.data[s]
        /\ \A u \in Sector \ {s} : disk'[u] = disk[u] /\ content'[u] = content[u]
    BY <2>1 DEF IInv, Data
  <2>6. Data' /\ Shape'
    BY <1>1, <2>1, <2>3, <2>4 DEF IInv, Data, Shape, Transfers
  <2>7. DirtyIsCached'
    BY <1>1, <2>1, <2>4 DEF IInv, DirtyIsCached, Dirty, Cached
  <2>8. NoLostWrite'
    <3> SUFFICES ASSUME Trusted, NEW u \in Sector \ failed' PROVE Visible(u)' = content'[u]
      BY <2>1 DEF NoLostWrite, Trusted
    <3>1. CASE u = s
      BY <2>1, <2>3, <2>5, <3>1 DEF Visible
    <3>2. CASE u # s
      BY <2>1, <2>5, <3>2 DEF IInv, NoLostWrite, Visible
    <3>3. QED BY <3>1, <3>2
  <2>9. DirtyIsListed'
    <3> SUFFICES ASSUME Trusted, NEW u \in Sector \ failed', cache[u] # None, cache[u] # disk'[u]
                 PROVE  u \in Dirty
      BY <2>1 DEF DirtyIsListed, Trusted, Cached, Dirty
    <3>1. u # s
      BY <2>3
    <3>2. QED BY <1>1, <2>1, <2>5, <3>1 DEF IInv, DirtyIsListed, Cached
  <2>10. Writing'
    <3>1. \A u \in op.todo : First(u)' => u = s
      <4> SUFFICES ASSUME NEW u \in op.todo, First(u)' PROVE u = s
        OBVIOUS
      <4>1. u \in Nat /\ s \in Nat
        BY <2>2, SectorAssumption
      <4>2. u <= s /\ s <= u
        BY <1>1, <2>4 DEF First
      <4>3. QED BY <4>1, <4>2
    <3>2. s \notin op.held \cup failed'
      BY <1>1, <2>1
    <3>3. QED BY <1>1, <2>1, <2>4, <2>5, <3>1, <3>2 DEF IInv, Writing
  <2>11. Reading'
    BY <2>4 DEF Reading
  <2>12. QED BY <2>6, <2>7, <2>8, <2>9, <2>10, <2>11 DEF IInv
<1>4. QED BY <1>2, <1>3

LEMMA WriteReplaceKeeps ==
  ASSUME IInv, ~fault, NEW s \in Sector, WriteReplace(s)
  PROVE  IInv'
<1> DEFINE v == op.data[s]
<1>1. /\ op.kind = "write" /\ op.step = "replace" /\ First(s) /\ s \in op.todo
      /\ op \in Op /\ enabled /\ Trusted
      /\ UNCHANGED <<dirty, content, failed, fault>>
  BY DEF WriteReplace, First, IInv, Data, Shape, Trusted
<1>2. /\ op.range \subseteq Sector /\ op.todo \subseteq op.range
      /\ op.held \subseteq op.hole /\ op.hole \subseteq op.range
  BY <1>1 DEF IInv, Shape, Transfers, Op
<1>3. /\ s \notin op.held /\ v \in Value /\ disk[s] = v /\ cache[s] = None
      /\ \A u \in op.todo \ op.held : cache[u] = None
      /\ \A u \in op.range : op.data[u] \in Value
  BY <1>1, <1>2 DEF IInv, Writing
<1>4. CASE ReplaceCache(s, v) /\ op' = After(s) /\ disk' = disk
  <2> HIDE DEF v
  <2>1. /\ op' \in Op
        /\ op'.kind = op.kind /\ op'.range = op.range /\ op'.hole = op.hole
        /\ op'.held = op.held /\ op'.data = op.data /\ op'.count = op.count
        /\ op'.todo = op.todo \ {s}
        /\ op'.step \in {"fill", "return"}
    BY <1>1, <1>4, AfterIs DEF IInv
  <2>2. /\ cache' \in [Sector -> Value \cup {None}]
        /\ cache'[s] \in {None, v}
        /\ \A u \in Sector \ {s} :
             \/ cache'[u] = cache[u]
             \/ u \notin Dirty /\ cache[u] # None /\ cache'[u] = None
        /\ enabled' = enabled
    BY <1>3, <1>4, ReplaceCacheIs DEF IInv
  <2>3. Data' /\ Shape'
    BY <1>1, <1>2, <1>4, <2>1, <2>2 DEF IInv, Data, Shape, Transfers
  <2>4. DirtyIsCached' /\ NoLostWrite' /\ DirtyIsListed'
    BY <1>1, <1>3, <1>4, <2>1, <2>2, CacheTakes
  <2>5. \A u \in (op.todo \ {s}) \ op.held : cache'[u] = None
    BY <1>2, <1>3, <2>2
  <2>6. Writing' /\ Reading'
    BY <1>1, <1>3, <2>1, <2>5 DEF Writing, Reading
  <2>7. QED BY <2>3, <2>4, <2>6 DEF IInv
<1>5. ASSUME ReplaceFails, op' = [op EXCEPT !.step = "return", !.todo = {}],
             NEW d \in [op.hole -> Value],
             disk' = [t \in Sector |-> IF t \in op.hole THEN d[t] ELSE disk[t]]
      PROVE  IInv'
  <2>1. /\ UNCHANGED cache /\ ~enabled'
        /\ op' \in Op /\ op'.kind = "write" /\ op'.step = "return" /\ op'.todo = {}
        /\ op'.range = op.range /\ op'.hole = op.hole /\ op'.held = op.held /\ op'.data = op.data
    BY <1>1, <1>5 DEF ReplaceFails, Op, Steps
  <2>2. disk' \in [Sector -> Value]
    BY <1>5 DEF IInv, Data
  <2>3. Data' /\ Shape'
    BY <1>1, <1>2, <2>1, <2>2 DEF IInv, Data, Shape, Transfers
  <2>4. Writing' /\ Reading'
    BY <1>3, <2>1 DEF Writing, Reading
  <2>5. DirtyIsCached' /\ NoLostWrite' /\ DirtyIsListed'
    <3>1. ~Trusted'
      BY <2>1 DEF Trusted
    <3>2. DirtyIsCached'
      BY <1>1, <2>1 DEF IInv, DirtyIsCached, Dirty, Cached
    <3>3. QED BY <3>1, <3>2 DEF NoLostWrite, DirtyIsListed
  <2>6. QED BY <2>3, <2>4, <2>5 DEF IInv
<1>6. QED BY <1>4, <1>5 DEF WriteReplace

LEMMA RawWriteKeeps == ASSUME IInv, RawWrite PROVE IInv'
<1>1. /\ op.kind = "write" /\ op.step = "transfer" /\ op \in Op /\ ~enabled
      /\ UNCHANGED <<cache, enabled, dirty, fault>>
  BY DEF RawWrite, tree, IInv, Data, Writing
<1>2. /\ op.range \subseteq Sector /\ op.held \subseteq op.hole /\ op.hole \subseteq op.range
      /\ \A s \in op.range : op.data[s] \in Value
  BY <1>1 DEF IInv, Shape, Transfers, Op, Writing
<1>3. /\ disk' \in [Sector -> Value] /\ content' \in [Sector -> Value] /\ failed' \subseteq Sector
  BY <1>2 DEF RawWrite, IInv, Data
<1>4. /\ op' \in Op /\ op'.kind = "write" /\ op'.step = "return" /\ op'.todo = {}
      /\ op'.range = op.range /\ op'.hole = op.hole /\ op'.held = op.held /\ op'.data = op.data
  BY <1>1 DEF RawWrite, Op, Steps
<1>5. Data' /\ Shape' /\ Writing' /\ Reading'
  BY <1>1, <1>2, <1>3, <1>4 DEF IInv, Data, Shape, Transfers, Writing, Reading
<1>6. DirtyIsCached'
  BY <1>1, <1>4 DEF IInv, DirtyIsCached, Dirty, Cached
<1>7. NoLostWrite' /\ DirtyIsListed'
  BY <1>1 DEF NoLostWrite, DirtyIsListed, Trusted
<1>8. QED BY <1>5, <1>6, <1>7 DEF IInv

\* An operation is over, or a transfer threw.
LEMMA IdleKeeps ==
  ASSUME IInv, op.step # "save", op' = Idle, UNCHANGED contents, enabled' = enabled
  PROVE  IInv'
<1>1. /\ Idle \in Op /\ op'.kind = "none" /\ op'.step = "none"
      /\ UNCHANGED <<disk, cache, dirty, content, failed, fault>>
  BY DEF Idle, Op, Ops, Steps, Buffer, Nothing, contents
<1>2. Data' /\ Shape' /\ Writing' /\ Reading'
  BY <1>1 DEF IInv, Data, Shape, Transfers, Writing, Reading
<1>3. DirtyIsCached' /\ NoLostWrite' /\ DirtyIsListed'
  BY <1>1, OnlyOp
<1>4. QED BY <1>2, <1>3 DEF IInv

\* After a deleted entry was used nothing more is said.
LEMMA UndefinedKeeps == ASSUME IInv, Undefined PROVE IInv'
<1>1. fault' /\ UNCHANGED <<disk, cache, enabled, dirty, content, failed, op>>
  BY DEF Undefined, tree
<1>2. ~Trusted'
  BY <1>1 DEF Trusted
<1>3. Data' /\ Shape' /\ Writing' /\ DirtyIsCached'
  BY <1>1 DEF IInv, Data, Shape, Transfers, Writing, DirtyIsCached, Dirty, Cached, First
<1>4. QED BY <1>2, <1>3 DEF IInv, NoLostWrite, DirtyIsListed, Reading

-----------------------------------------------------------------------------
LEMMA BeginFlushKeeps ==
  ASSUME IInv, NEW k \in {"flush", "unmount"}, BeginFlush(k)
  PROVE  IInv'
<1>1. op = Idle /\ UNCHANGED <<disk, cache, dirty, content, failed, fault, enabled>>
  BY DEF BeginFlush, tree
<1>2. /\ op' \in Op /\ op'.kind = k /\ op'.step = "pop"
      /\ k = "unmount" => op'.count < 0
  <2> DEFINE n == IF k = "flush" THEN FlushCount ELSE -1
  <2>1. Idle \in Op
    BY DEF Idle, Op, Ops, Steps, Buffer, Nothing
  <2>2. n \in Int /\ (k = "unmount" => n < 0)
    BY SizesAssumption
  <2>3. op' = [Idle EXCEPT !.kind = k, !.step = "pop", !.count = n]
    BY DEF BeginFlush
  <2> HIDE DEF n
  <2>4. op' = [kind |-> k, step |-> "pop", range |-> {}, hole |-> {}, held |-> {},
               todo |-> {}, data |-> Nothing, count |-> n]
    BY <2>3 DEF Idle
  <2>5. Nothing \in Buffer /\ k \in Ops /\ "pop" \in Steps
    BY DEF Nothing, Buffer, Ops, Steps
  <2>6. QED BY <2>2, <2>4, <2>5 DEF Op
<1>3. Data' /\ Shape' /\ Writing' /\ Reading'
  BY <1>1, <1>2 DEF IInv, Data, Shape, Transfers, Writing, Reading
<1>4. op.step # "save"
  BY <1>1 DEF Idle
<1>5. DirtyIsCached' /\ NoLostWrite' /\ DirtyIsListed'
  BY <1>1, <1>2, <1>4, OnlyOp DEF contents
<1>6. QED BY <1>3, <1>5 DEF IInv

LEMMA PopDirtyKeeps == ASSUME IInv, ~fault, PopDirty PROVE IInv'
<1>1. /\ op.kind \in {"flush", "unmount"} /\ op.step = "pop" /\ op \in Op
      /\ UNCHANGED <<disk, cache, enabled, content, failed>>
  BY DEF PopDirty, Flushing, tree, IInv, Data
<1>2. CASE /\ op.count # 0 /\ dirty # <<>>
           /\ dirty' = Tail(dirty)
           /\ op' = [op EXCEPT !.step = "save", !.todo = {Head(dirty)}, !.count = @ - 1]
  <2> DEFINE s == Head(dirty)
  <2>1. s \in Sector /\ dirty' \in Seq(Sector) /\ Dirty = Dirty' \cup {s}
    BY <1>2, TailElements, DirtyElements DEF IInv, Data
  <2>2. s \in Cached /\ Dirty' \subseteq Cached /\ Cached' = Cached
    BY <1>1, <2>1 DEF IInv, DirtyIsCached, Cached
  <2> HIDE DEF s
  <2>3. /\ op' \in Op /\ op'.kind = op.kind /\ op'.step = "save" /\ op'.todo = {s}
        /\ op'.count = op.count - 1
    <3>1. op.count - 1 \in Int /\ {s} \in SUBSET Sector /\ "save" \in Steps
      BY <1>1, <2>1 DEF Op, Steps
    <3>2. op' = [[[op EXCEPT !.step = "save"] EXCEPT !.todo = {s}] EXCEPT !.count = op.count - 1]
      <4>1. op.count = [[op EXCEPT !.step = "save"] EXCEPT !.todo = {s}].count
        BY <1>1 DEF Op
      <4>2. QED BY <1>1, <1>2, <4>1 DEF Op, s
    <3>3. QED BY <1>1, <3>1, <3>2 DEF Op
  <2>4. Data' /\ Shape' /\ Writing' /\ Reading'
    <3>1. op.count \in Int
      BY <1>1 DEF Op
    <3>2. op.kind = "unmount" => op'.count < 0
      BY <2>3, <3>1 DEF IInv, Shape
    <3>3. QED
      BY <1>1, <2>1, <2>3, <3>2 DEF IInv, Data, Shape, Transfers, Writing, Reading
  <2>5. DirtyIsCached'
    BY <2>2, <2>3 DEF DirtyIsCached
  <2>6. NoLostWrite' /\ (Trusted' => Trusted)
    BY <1>1 DEF IInv, NoLostWrite, Visible, Trusted
  <2>7. DirtyIsListed'
    <3> SUFFICES ASSUME Trusted, NEW u \in Cached \ failed, cache[u] # disk[u]
                 PROVE  u \in Dirty' \/ u = s
      BY <1>1, <2>2, <2>3, <2>6 DEF DirtyIsListed
    <3>1. u \in Dirty
      BY <1>1 DEF IInv, DirtyIsListed
    <3>2. QED BY <2>1, <3>1
  <2>8. QED BY <2>4, <2>5, <2>6, <2>7 DEF IInv
<1>3. CASE EndFlush /\ UNCHANGED <<dirty, fault>>
  BY <1>1, <1>3, IdleKeeps DEF EndFlush, contents
<1>4. QED BY <1>2, <1>3 DEF PopDirty

LEMMA FlushSectorKeeps ==
  ASSUME IInv, NEW s \in Sector, FlushSector(s)
  PROVE  IInv'
<1>1. /\ op.kind \in {"flush", "unmount"} /\ op.step = "save" /\ op.todo = {s} /\ op \in Op
      /\ disk' = [disk EXCEPT ![s] = cache[s]]
      /\ op' = [op EXCEPT !.step = "pop", !.todo = {}]
      /\ UNCHANGED <<cache, enabled, dirty, content, failed, fault>>
  BY DEF FlushSector, Flushing, tree, IInv, Data
<1>2. s \in Cached
  BY <1>1 DEF IInv, DirtyIsCached
<1>3. cache[s] \in Value /\ disk' \in [Sector -> Value] /\ disk'[s] = cache[s]
      /\ \A u \in Sector \ {s} : disk'[u] = disk[u]
  BY <1>1, <1>2 DEF IInv, Data, Cached
<1>4. op' \in Op /\ op'.kind = op.kind /\ op'.step = "pop" /\ op'.count = op.count
  BY <1>1 DEF Op, Steps
<1>5. Data' /\ Shape' /\ Writing' /\ Reading'
  BY <1>1, <1>3, <1>4 DEF IInv, Data, Shape, Transfers, Writing, Reading
<1>6. Dirty' = Dirty /\ Cached' = Cached /\ (Trusted' <=> Trusted)
  BY <1>1 DEF Dirty, Cached, Trusted
<1>7. DirtyIsCached'
  BY <1>4, <1>6 DEF IInv, DirtyIsCached
<1>8. NoLostWrite'
  BY <1>1, <1>2, <1>3, <1>6 DEF IInv, NoLostWrite, Visible, Cached
<1>9. DirtyIsListed'
  BY <1>1, <1>3, <1>6 DEF IInv, DirtyIsListed, Cached
<1>10. QED BY <1>5, <1>7, <1>8, <1>9 DEF IInv

LEMMA FlushFailsKeeps ==
  ASSUME IInv, NEW s \in Sector, FlushFails(s)
  PROVE  IInv'
<1>1. /\ op.step = "save" /\ op.todo = {s} /\ op' = Idle /\ failed' = failed \cup {s}
      /\ UNCHANGED <<disk, cache, enabled, dirty, content, fault>>
  BY DEF FlushFails, EndFlush, tree
<1>2. Idle \in Op /\ op'.kind = "none" /\ op'.step = "none"
  BY <1>1 DEF Idle, Op, Ops, Steps, Buffer, Nothing
<1>3. Data' /\ Shape' /\ Writing' /\ Reading'
  BY <1>1, <1>2 DEF IInv, Data, Shape, Transfers, Writing, Reading
<1>4. Dirty' = Dirty /\ Cached' = Cached /\ (Trusted' <=> Trusted)
  BY <1>1 DEF Dirty, Cached, Trusted
<1>5. DirtyIsCached' /\ NoLostWrite' /\ DirtyIsListed'
  BY <1>1, <1>2, <1>4 DEF IInv, DirtyIsCached, NoLostWrite, Visible, DirtyIsListed
<1>6. QED BY <1>3, <1>5 DEF IInv

-----------------------------------------------------------------------------
LEMMA StepKeeps == ASSUME IInv, [Next \/ Stop]_vars PROVE IInv'
<1>1. CASE UNCHANGED vars
  BY <1>1, BaseKeeps DEF vars, base
<1>2. CASE Next
  <2> SUFFICES ASSUME ~fault, Calls \/ BeginFlush("unmount") \/ Transfer \/ FlushTask \/ ReleaseTask
               PROVE  IInv'
    BY <1>2 DEF Next
  <2>1. CASE \E r \in Ranges : BeginRead(r) \/ \E d \in Buffers(r) : BeginWrite(r, d)
    BY <2>1, BeginReadKeeps, BeginWriteKeeps
  <2>2. CASE Check("unmount") \/ Check("flush") \/ Mount
    BY <2>2, BaseKeeps DEF Check, Mount, base, tree
  <2>3. CASE ReleaseTask
    <3>1. Run \/ RunEnds => UNCHANGED base
      BY DEF Run, RunEnds, base, tree
    <3>2. ASSUME NEW s \in Sector, Visit(s) PROVE UNCHANGED base
      BY <3>2 DEF Visit, base
    <3>3. QED BY <2>3, <3>1, <3>2, BaseKeeps DEF ReleaseTask
  <2>4. CASE BeginFlush("unmount") \/ BeginFlush("flush")
    BY <2>4, BeginFlushKeeps
  <2>5. CASE RawRead \/ RawWrite \/ PopDirty
    BY <2>5, RawReadKeeps, RawWriteKeeps, PopDirtyKeeps
  <2>6. CASE Throws \/ Return
    <3>1. op.step # "save" /\ op' = Idle /\ UNCHANGED <<tree, contents>>
      BY <2>6 DEF Throws, Return, contents, tree
    <3>2. enabled' = enabled
      BY <3>1 DEF tree
    <3>3. QED BY <3>1, <3>2, IdleKeeps
  <2>7. ASSUME NEW s \in Sector, ReadHeld(s) \/ ReadMissing(s) PROVE IInv'
    <3>1. CASE ReadHeld(s) /\ cache[s] = None
      BY <3>1, UndefinedKeeps DEF ReadHeld
    <3>2. CASE ReadHeld(s) /\ cache[s] # None
      BY <3>2, ReadHeldKeeps
    <3>3. CASE ReadMissing(s)
      BY <3>3, ReadMissingKeeps
    <3>4. QED BY <2>7, <3>1, <3>2, <3>3
  <2>8. ASSUME NEW s \in Sector,
               WriteCached(s) \/ WriteHeld(s) \/ WriteMissing(s) \/ WriteReplace(s)
        PROVE  IInv'
    <3>1. CASE WriteCached(s)
      BY <3>1, WriteCachedKeeps
    <3>2. CASE WriteHeld(s) /\ cache[s] = None
      BY <3>2, UndefinedKeeps DEF WriteHeld
    <3>3. CASE WriteHeld(s) /\ cache[s] # None
      BY <3>3, FillKeeps DEF WriteHeld, First
    <3>4. CASE WriteMissing(s)
      BY <3>4, WriteMissingKeeps
    <3>5. CASE WriteReplace(s)
      BY <3>5, WriteReplaceKeeps
    <3>6. QED BY <2>8, <3>1, <3>2, <3>3, <3>4, <3>5
  <2>9. ASSUME NEW s \in Sector, FlushSector(s) \/ FlushFails(s) PROVE IInv'
    BY <2>9, FlushSectorKeeps, FlushFailsKeeps
  <2>10. QED
    BY <2>1, <2>2, <2>3, <2>4, <2>5, <2>6, <2>7, <2>8, <2>9 DEF Calls, Transfer, FlushTask
<1>3. QED BY <1>1, <1>2 DEF Stop

THEOREM InductiveInvariant == Spec => []IInv
<1>1. Init => IInv
  BY InitHolds
<1>2. IInv /\ [Next \/ Stop]_vars => IInv'
  BY StepKeeps
<1>3. QED BY <1>1, <1>2, PTL DEF Spec

\* Before any undefined behaviour and while the cache is enabled, what was last written to
\* a sector is in the cache or on the medium, unless a flush of it failed: for every medium,
\* cache size, release list and order of the two tasks.
THEOREM NothingIsLost == Spec => []NoLostWrite
<1>1. IInv => NoLostWrite
  BY DEF IInv
<1>2. QED BY <1>1, InductiveInvariant, PTL

\* A cached sector that differs from the medium is on the dirty list or being flushed.
THEOREM DirtyStaysListed == Spec => []DirtyIsListed
<1>1. IInv => DirtyIsListed
  BY DEF IInv
<1>2. QED BY <1>1, InductiveInvariant, PTL

\* The buffer of a Read that returns has what was last written.
THEOREM ReadsAreCurrent == Spec => []ReadsLastWrite
<1>1. IInv => ReadsLastWrite
  BY DEF IInv, Reading, ReadsLastWrite
<1>2. QED BY <1>1, InductiveInvariant, PTL

\* When UnMount has flushed the cache and no flush has failed, the medium has what was
\* last written to every sector.
THEOREM UnmountLeavesAll == Spec => UnmountFlushes
<1> DEFINE Ends == op.kind = "unmount" /\ op'.kind = "none" /\ Trusted /\ failed' = {}
<1>1. ASSUME IInv, [Next \/ Stop]_vars, Ends PROVE disk = content
  <2>1. op \in Op /\ op.step \in {"pop", "save"} /\ op.count < 0 /\ op # Idle /\ op' # op
    BY <1>1 DEF IInv, Data, Shape, Idle
  <2>2. Next
    BY <1>1, <2>1 DEF Stop, vars
  <2>3. /\ ~(\E r \in Ranges : BeginRead(r) \/ \E d \in Buffers(r) : BeginWrite(r, d))
        /\ ~BeginFlush("unmount") /\ ~BeginFlush("flush")
    BY <2>1 DEF BeginRead, BeginWrite, BeginFlush
  <2>4. ~Check("unmount") /\ ~Check("flush") /\ ~Mount
    BY <2>1 DEF Check, Mount
  <2>5. ~ReleaseTask
    BY <2>1 DEF ReleaseTask, Run, RunEnds, Visit
  <2>6. ~RawRead /\ ~RawWrite /\ ~Throws /\ ~Return
    BY <1>1, <2>1 DEF RawRead, RawWrite, Throws, Return
  <2>7. \A s \in Sector : /\ ~ReadHeld(s) /\ ~ReadMissing(s) /\ ~WriteCached(s) /\ ~WriteHeld(s)
                          /\ ~WriteMissing(s) /\ ~WriteReplace(s)
    BY <1>1 DEF ReadHeld, ReadMissing, WriteCached, WriteHeld, WriteMissing, WriteReplace
  <2>8. ASSUME NEW s \in Sector PROVE ~FlushSector(s) /\ ~FlushFails(s)
    <3>1. ~FlushSector(s)
      BY <1>1, <2>1 DEF FlushSector, Op
    <3>2. ~FlushFails(s)
      BY <1>1 DEF FlushFails
    <3>3. QED BY <3>1, <3>2
  <2>9. PopDirty
    BY <2>2, <2>3, <2>4, <2>5, <2>6, <2>7, <2>8 DEF Next, Calls, Transfer, FlushTask
  <2>10. op.step # "save" /\ dirty = <<>> /\ failed = {}
    <3>1. ~(/\ dirty' = Tail(dirty)
            /\ op' = [op EXCEPT !.step = "save", !.todo = {Head(dirty)}, !.count = @ - 1])
      BY <1>1, <2>1 DEF Op
    <3>2. op.count # 0
      BY <2>1
    <3>3. QED BY <1>1, <2>9, <3>1, <3>2 DEF PopDirty
  <2>11. Dirty = {}
    BY <2>10 DEF Dirty
  <2>12. ASSUME NEW s \in Sector PROVE disk[s] = content[s]
    <3>1. CASE cache[s] = None
      BY <1>1, <2>10, <3>1 DEF IInv, NoLostWrite, Visible
    <3>2. CASE cache[s] # None
      <4>1. cache[s] = disk[s]
        BY <1>1, <2>10, <2>11, <3>2 DEF IInv, DirtyIsListed, Cached
      <4>2. QED BY <1>1, <2>10, <3>2, <4>1 DEF IInv, NoLostWrite, Visible
    <3>3. QED BY <3>1, <3>2
  <2>13. QED BY <1>1, <2>12 DEF IInv, Data
<1> HIDE DEF Ends
<1>2. IInv /\ [Next \/ Stop]_vars => [Ends => disk = content]_vars
  BY <1>1
<1>3. QED
  <2>1. [][Ends => disk = content]_vars => UnmountFlushes
    BY DEF Ends, UnmountFlushes
  <2>2. Spec => [][Ends => disk = content]_vars
    BY <1>2, InductiveInvariant, PTL DEF Spec
  <2>3. QED BY <2>1, <2>2
=============================================================================
