----------------------------- MODULE Partitions -----------------------------
(***************************************************************************)
(* The partition tables of a raw disk (PartitionManager) and the drives    *)
(* made of them (DiskDriveManager).  A console command reads the tables    *)
(* from the disk, works out the sectors to change and writes them one      *)
(* after the other; any of these writes can fail or be the last one before *)
(* the machine is switched off.  A boot sector is its four entries.        *)
(***************************************************************************)
EXTENDS Integers, Sequences, FiniteSets, SequencesExt, FiniteSetsExt

CONSTANTS DiskSize, DEF_START_SEC, Sizes, Modulus, MaxCommands

MAX_NO_OF_PRIMARY_PARTITIONS == 4

VARIABLES sector,    \* the boot sector in a sector of the disk, or Data
          writes,    \* what the running command has still to write: sectors and their contents
          command,   \* the running command
          drives,    \* the drives in the list that were made of this disk
          upset,     \* what happened that nothing is promised after
          commands

partVars == <<sector, writes, command, drives, upset, commands>>

Entry(kind, active, start, size) == [kind |-> kind, active |-> active, start |-> start, size |-> size]
NoEntry == Entry("none", FALSE, 0, 0)
Zero == [i \in 1 .. 4 |-> NoEntry]
Data == [i \in 1 .. 4 |-> Entry("data", FALSE, 0, 0)]
IsEmpty(e) == e.kind = "none" \/ e.size = 0

\* A disk with a GPT: its protective entry, and the partitions its array lists.
Protective == [Zero EXCEPT ![1] = Entry("gpt", TRUE, 1, DiskSize - 1)]
GptPartitions == <<<<4, 2>>, <<7, 1>>>>

-----------------------------------------------------------------------------
(* Reading the tables. *)

\* The entries in use: those before the first empty one.
Entries(mbr) == SubSeq(mbr, 1, SelectInSeq(Append(mbr, NoEntry), IsEmpty) - 1)

\* VerifyMBR: in order, without overlap, one of them active, no more than the disk has.
InOrder(es) == \A i \in DOMAIN es : es[i].start > (IF i = 1 THEN 0 ELSE es[i - 1].start + es[i - 1].size - 1)
Total(es) == FoldFunction(LAMBDA e, n : n + e.size, 0, es)
VerifyMBR(mbr) ==
  LET es == Entries(mbr) IN
  IF es # <<>> /\ es[1].kind = "gpt" THEN "gpt"
  ELSE IF /\ es # <<>> /\ InOrder(es) /\ Total(es) <= DiskSize
          /\ Cardinality({i \in 1 .. 4 : i <= Len(es) + 1 /\ mbr[i].active}) = 1
    THEN "mbr" ELSE "none"

\* The chain of the extended partition: boot sectors with a partition and a link to the next,
\* relative to the first; what is not one, or is outside of the disk, ends it
\* (a logical partition and its boot sector take DEF_START_SEC + 1 sectors at least).
Logical(at, cur) == [at |-> at, cur |-> cur]
MaxChain == DiskSize \div (DEF_START_SEC + 1)
Chain(disk, first) ==
  LET chain[n \in 0 .. MaxChain] ==
        IF n = 0 THEN <<>>
        ELSE LET before == chain[n - 1]
                 at == IF before = <<>> THEN first ELSE first + disk[Last(before).at][2].start
                 ends == \/ n > 1 /\ (Len(before) < n - 1 \/ IsEmpty(disk[Last(before).at][2]))
                         \/ at \notin DOMAIN disk \/ IsEmpty(disk[at][1])
             IN IF ends THEN before ELSE Append(before, Logical(at, disk[at][1]))
  IN chain[MaxChain]

\* ReadMBRPartition and ReadGPT: the primary partitions, the extended one and its chain.
PartitionTable(disk) ==
  LET kind == VerifyMBR(disk[0])
      es == IF kind = "mbr" THEN Entries(disk[0]) ELSE <<>>
      exts == SelectSeq(es, LAMBDA e : e.kind = "ext")
      chain == IF exts = <<>> THEN <<>> ELSE Chain(disk, Last(exts).start)
      primary == SelectSeq(es, LAMBDA e : e.kind # "ext")
      part(e, base) == <<base + e.start, e.size>>
  IN [kind |-> kind, primary |-> primary, ext |-> exts # <<>>,
      extEntry |-> IF exts = <<>> THEN NoEntry ELSE Last(exts), chain |-> chain,
      parts |-> IF kind = "gpt" THEN GptPartitions
                ELSE [i \in DOMAIN primary |-> part(primary[i], 0)]
                     \o [i \in DOMAIN chain |-> part(chain[i].cur, chain[i].at)]]

-----------------------------------------------------------------------------
(* The commands: the sectors they write, in order, or that they refuse. *)

Refused == <<>>
At(s) == IF s \in DOMAIN sector THEN sector[s] ELSE Zero
Mod(n) == (n + Modulus) % Modulus

\* "size" sectors are not left, unless more are used than there are; a bug: what is used is forgotten.
NoRoomAtAll(total, used, size) == total < size
NoRoom(total, used, size) == total >= used /\ total - used < size

CreatePrimaryPartitionEntry(t, size, type) ==
  LET n == Len(t.primary)
      active == t.primary = <<>>
      start == IF n = 0 THEN DEF_START_SEC ELSE Last(t.primary).start + Last(t.primary).size
  IN IF \/ n = MAX_NO_OF_PRIMARY_PARTITIONS \/ t.ext \/ (n = 0 /\ type = "ext")
        \/ NoRoom(DiskSize, start, size)
     THEN Refused
     ELSE <<<<0, [sector[0] EXCEPT ![n + 1] = Entry(IF active THEN "normal" ELSE type, active, start, size)]>>>>

\* The new partition is not reachable before the link of the one before it; a bug: it is linked first.
LinkFirst(s) == Reverse(s)
InOrderOfUse(s) == s

CreateExtPartitionEntry(t, size) ==
  LET last == Last(t.chain)
      used == IF t.chain = <<>> THEN 0
              ELSE Mod(last.at + last.cur.start + last.cur.size - t.extEntry.start)
      new == Mod(used + t.extEntry.start)
      boot == <<new, [At(new) EXCEPT
                        ![1] = Entry("normal", FALSE, DEF_START_SEC, Mod(size - DEF_START_SEC)), ![2] = NoEntry]>>
  IN IF ~t.ext \/ NoRoom(t.extEntry.size, used, size) THEN Refused
     ELSE IF t.chain = <<>> THEN <<boot>>
     ELSE InOrderOfUse(<<boot, <<last.at, [sector[last.at] EXCEPT ![2] = Entry("ext", FALSE, used, size)]>>>>)

\* The entry after "n" primary ones is cleared; before that, every boot sector of an extended one.
Cleared(mbr, n) == [mbr EXCEPT ![n + 1] = NoEntry]
DeletePrimaryPartition(t) ==
  IF t.primary = <<>> THEN Refused
  ELSE IF t.ext
    THEN [i \in DOMAIN t.chain |-> <<t.chain[i].at, [sector[t.chain[i].at] EXCEPT ![1] = NoEntry, ![2] = NoEntry]>>]
         \o <<<<0, Cleared(sector[0], Len(t.primary))>>>>
  ELSE <<<<0, Cleared(sector[0], Len(t.primary) - 1)>>>>

DeleteExtPartition(t) ==
  LET n == Len(t.chain)
      off(i, entries) == <<t.chain[i].at, [e \in 1 .. 4 |-> IF e \in entries THEN NoEntry ELSE sector[t.chain[i].at][e]]>>
  IN IF n = 0 \/ ~t.ext THEN Refused
     ELSE (IF n > 1 THEN <<off(n - 1, {2})>> ELSE <<>>) \o <<off(n, {1, 2})>>

\* Partitions go while the list made when the table was read is not empty.
ClearPartitionTable(t) ==
  LET n == Len(t.primary)
      exts == IF t.ext THEN DeletePrimaryPartition(t) ELSE <<>>
      last == IF t.ext THEN n + 1 ELSE n
      mbr(i) == [e \in 1 .. 4 |-> IF e \in i + 1 .. last THEN NoEntry ELSE sector[0][e]]
  IN IF t.parts = <<>> \/ n = 0 THEN Refused
     ELSE exts \o [i \in 1 .. n |-> <<0, mbr(n - i)>>]

Kinds == {"clear", "create", "create_ext_entry", "create_ext", "delete", "delete_ext"}
Updates(t, c, size) ==
  CASE c = "clear" -> ClearPartitionTable(t)
    [] c = "create" -> CreatePrimaryPartitionEntry(t, size, "normal")
    [] c = "create_ext_entry" -> IF t.parts = <<>> THEN Refused ELSE CreatePrimaryPartitionEntry(t, size, "ext")
    [] c = "create_ext" -> IF t.parts = <<>> THEN Refused ELSE CreateExtPartitionEntry(t, size)
    [] c = "delete" -> IF t.parts = <<>> THEN Refused ELSE DeletePrimaryPartition(t)
    [] c = "delete_ext" -> IF t.parts = <<>> THEN Refused ELSE DeleteExtPartition(t)

Parts == PartitionTable(sector).parts
Sized(c) == c \in {"create", "create_ext_entry", "create_ext"}

\* A size that leaves no sector behind the boot sector of a logical partition, a disk with a GPT, and
\* an extended partition over sectors that hold something are not followed.
Upset(t, c, size, updates) ==
  IF t.kind = "gpt" THEN "gpt"
  ELSE IF c = "create_ext" /\ size <= DEF_START_SEC THEN "small"
  ELSE IF c = "create_ext_entry" /\ At(updates[1][2][Len(t.primary) + 1].start) # Zero THEN "reused"
  ELSE "none"

Begin ==
  /\ command = "none" /\ upset = "none" /\ commands < MaxCommands
  /\ LET t == PartitionTable(sector) IN
     \E c \in Kinds, size \in Sizes :
       LET updates == Updates(t, c, size) IN
       /\ ~Sized(c) => size = Min(Sizes)
       /\ updates # Refused
       /\ command' = c /\ writes' = updates /\ upset' = Upset(t, c, size, updates)
  /\ commands' = commands + 1
  /\ UNCHANGED <<sector, drives>>

Next1 == IF Len(writes) = 1 THEN "none" ELSE command
WriteSector ==
  /\ writes # <<>> /\ writes[1][1] \in DOMAIN sector
  /\ sector' = [sector EXCEPT ![writes[1][1]] = writes[1][2]]
  /\ writes' = Tail(writes) /\ command' = Next1
  /\ UNCHANGED <<drives, upset, commands>>

\* A read or a write throws, or the power goes: the rest is never written.
Fails == /\ writes # <<>> /\ writes' = <<>> /\ command' = "none"
         /\ UNCHANGED <<sector, drives, upset, commands>>

-----------------------------------------------------------------------------
(* Drives. *)

\* AddDeviceDrive, AddATADrive: a drive for every partition, once, when the disk is found.
Attach == /\ drives = <<>> /\ command = "none" /\ Parts # <<>>
          /\ drives' = Parts
          /\ UNCHANGED <<sector, writes, command, upset, commands>>
Detach == /\ drives # <<>> /\ command = "none" /\ drives' = <<>>
          /\ UNCHANGED <<sector, writes, command, upset, commands>>

\* FormatDrive writes the drive's sectors, and sets the type of the entry that starts with it.  A
\* drive is followed as long as its partition is there.
UpdateSystemIndicator(mbr, start) ==
  LET same == {i \in 1 .. 4 : mbr[i].start = start}
  IN [i \in 1 .. 4 |-> IF i \in same /\ \A j \in same : i <= j THEN [mbr[i] EXCEPT !.kind = "normal"] ELSE mbr[i]]
FormatDrive ==
  /\ command = "none" /\ upset = "none" /\ commands < MaxCommands
  /\ \E d \in ToSet(drives) :
       /\ sector' = [s \in DOMAIN sector |->
            IF s = 0 THEN UpdateSystemIndicator(sector[0], d[1])
            ELSE IF s \in d[1] .. d[1] + d[2] - 1 THEN Data ELSE sector[s]]
       /\ upset' = IF d \in ToSet(Parts) THEN upset ELSE "stale"
  /\ commands' = commands + 1
  /\ UNCHANGED <<writes, command, drives>>

PartitionsInit ==
  /\ \E mbr \in {Zero, Protective} : sector = [s \in 0 .. DiskSize - 1 |-> IF s = 0 THEN mbr ELSE Zero]
  /\ writes = <<>> /\ command = "none" /\ drives = <<>> /\ upset = "none" /\ commands = 0

PartitionsNext == Begin \/ WriteSector \/ Fails \/ Attach \/ Detach \/ FormatDrive

PartitionsSpec == PartitionsInit /\ [][PartitionsNext]_partVars

-----------------------------------------------------------------------------
PartitionsTypeOK ==
  /\ DOMAIN sector = 0 .. DiskSize - 1 /\ command \in Kinds \cup {"none"} /\ commands \in 0 .. MaxCommands
  /\ upset \in {"none", "gpt", "small", "reused", "stale"} /\ (writes = <<>> <=> command = "none")

\* Partitions are disjoint and inside the disk, whatever was created, deleted, formatted or cut
\* short, and none has the boot sector of an extended one in it.
Within(p) == p[1] .. p[1] + p[2] - 1
PartitionsAreDisjoint ==
  upset = "none" =>
    LET t == PartitionTable(sector) IN
    /\ \A i, j \in DOMAIN t.parts : i # j => Within(t.parts[i]) \cap Within(t.parts[j]) = {}
    /\ \A p \in ToSet(t.parts) : p[2] > 0 /\ Within(p) \subseteq 1 .. DiskSize - 1
    /\ \A p \in ToSet(t.parts), c \in ToSet(t.chain) : c.at \notin Within(p)

\* A step of a command leaves every partition as it is, adds one at the end or takes some from the
\* end: also a command that is cut short between two writes.
ChangesAtTheEnd ==
  LET old == PartitionTable(sector).parts
      new == PartitionTable(sector').parts
  IN upset' = "none" => \/ IsPrefix(new, old)
                        \/ IsPrefix(old, new) /\ Len(new) = Len(old) + 1 /\ command \in {"create", "create_ext"}
=============================================================================
