---------------------------- MODULE Directories ----------------------------
(***************************************************************************)
(* The directories of a mounted drive (Directory, FileOperations).  A      *)
(* directory is a node with the number of its entries and the first of a   *)
(* chain of sectors; every node lies in a slot of a sector, and a call     *)
(* changes a node by reading its sector, changing the copy and writing the *)
(* copy back, with no lock.  Processes keep a copy of the node they work   *)
(* in, the file system one of the root.  Permissions, times and data are   *)
(* left out, and sectors are taken from a set: FileSystem models the table.*)
(***************************************************************************)
EXTENDS Integers, Sequences, FiniteSets, SequencesExt, FiniteSetsExt

CONSTANTS Proc, Names, Sectors, Slots, MaxCalls, MaxPath

VARIABLES nodes,    \* the nodes of a sector, Junk where nobody ever wrote one
          link,     \* the table: the next sector of a chain, EOC or Unused
          root,     \* FSpwd.DirEntry, the file system's copy of the root
          pwd,      \* a process's place: copy of the node, sector and slot
          here,     \* whether a process's drive is this one
          file,     \* a process's descriptor: the full path, and the sector it remembers
          lost,     \* the sectors taken for a file that never got into its chain
          todo,     \* what a process is doing
          trouble,  \* what happened that nothing is promised after
          calls

dirVars == <<nodes, link, root, pwd, here, file, lost, todo, trouble, calls>>

EOC == -1
Unused == -2
NoSector == -3
Junk == [name |-> "junk", live |-> FALSE, dir |-> FALSE, size |-> 0, start |-> EOC, up |-> <<0, 0>>]
Slot == 0 .. Slots - 1
Uninitialised == [i \in Slot |-> Junk]

\* Node::Init and InitAsRoot
NewNode(name, isDir, up) == [name |-> name, live |-> TRUE, dir |-> isDir, size |-> 0, start |-> EOC, up |-> up]
RootNode == NewNode("/", TRUE, <<0, 0>>)

\* A FileDescriptor: its path, the index in its file and the number of the sector it was last at, and
\* (not in the code) whether the file was deleted since it was opened.
NoFile == [path |-> <<>>, index |-> 0, sector |-> EOC, gone |-> FALSE]
IsOpen(p) == file[p] # NoFile

Idle == [kind |-> "none", step |-> "none", path |-> <<>>, abs |-> FALSE, dir |-> FALSE, rest |-> <<>>,
         at |-> 0, parent |-> NoSector, slot |-> 0, up |-> Uninitialised, sector |-> NoSector, pos |-> 0, copy |-> Uninitialised]

-----------------------------------------------------------------------------
(* Lookup. *)

Only(S) == CHOOSE x \in S : TRUE

\* The sectors of a chain, in order; and a chain whose sectors have been given back.
RECURSIVE Follow(_, _)
Follow(s, n) == IF s < 0 \/ n = 0 THEN <<>> ELSE <<s>> \o Follow(link[s], n - 1)
Chain(start) == Follow(start, Sectors)
Cut(start) == start # EOC /\ link[Last(Chain(start))] = Unused

\* The scan is over when it counted as many entries as there are; a bug: one more.
OneMore(counted, size) == counted > size
Enough(counted, size) == counted >= size

\* What Directory_FindDirectory learns of a name in the directory that "node" is a copy of: it reads
\* slots until the name, or until it counted as many entries as the copy says there are.  A name
\* that is not there gets the first deleted slot, else the slot after the last entry, for which a
\* further sector (not read) or a new one may be needed (pos = Slots).
Scanned(node, name, chain) ==
  LET at(k) == nodes[chain[k \div Slots + 1]][k % Slots]
      live == {k \in 0 .. Len(chain) * Slots - 1 : at(k).live}
      counted(k) == Cardinality({j \in live : j <= k})
      last == IF \E k \in live : Enough(counted(k), node.size)
                THEN Min({k \in live : Enough(counted(k), node.size)})
              ELSE IF node.size = 0 THEN Min({Slots - 1, Len(chain) * Slots - 1}) ELSE Len(chain) * Slots - 1
  IN Only({[last |-> n, match |-> {k \in live : at(k).name = name /\ k <= n}] : n \in {last}})

FindDirectory(node, name) ==
  LET at(chain, k) == nodes[chain[k \div Slots + 1]][k % Slots]
      all(chain) == 0 .. Len(chain) * Slots - 1
      place(chain, k) == [sector |-> chain[k \div Slots + 1], pos |-> k % Slots, copy |-> nodes[chain[k \div Slots + 1]]]
      new(sector, pos) == [sector |-> sector, pos |-> pos, copy |-> Uninitialised]
      free(chain, last, gone) ==
        IF gone # {} THEN place(chain, Min(gone))
        ELSE IF last % Slots < Slots - 1 THEN [place(chain, last) EXCEPT !.pos = @ + 1]
        ELSE IF last + 1 \in all(chain) THEN new(chain[(last + 1) \div Slots + 1], 0)
        ELSE new(chain[Len(chain)], Slots)
      read(chain, scan, end) ==
        [found |-> scan.match # {}, junk |-> \E k \in all(chain) : k <= end /\ at(chain, k) = Junk,
         at |-> IF scan.match # {} THEN place(chain, Min(scan.match))
                ELSE IF chain = <<>> THEN new(EOC, Slots)
                ELSE free(chain, scan.last, {k \in all(chain) : k <= end /\ ~at(chain, k).live /\ at(chain, k) # Junk})]
  IN Only(UNION {{read(chain, scan, IF scan.match # {} THEN Min(scan.match) ELSE scan.last) :
                    scan \in {Scanned(node, name, chain)}} : chain \in {Chain(node.start)}})

\* Nobody changed the directory under the copy, and nobody is between the two writes of a change.
Fresh(node, sector, pos) ==
  /\ node = nodes[sector][pos]
  /\ \A q \in Proc : ~ (todo[q].step = "parent" /\ todo[q].parent = sector /\ todo[q].slot = pos)

\* The state of a walk along a path: where it is, or why it ended.
At(node, sector, pos) == [node |-> node, sector |-> sector, pos |-> pos, end |-> "none"]
Down(w, name) ==
  IF w.end # "none" THEN w
  ELSE IF ~w.node.dir THEN [w EXCEPT !.end = "missing"]
  ELSE IF name = ".."
    THEN LET up == IF w.node.name = "/" THEN <<w.sector, w.pos>> ELSE w.node.up
         IN At(nodes[up[1]][up[2]], up[1], up[2])
  ELSE IF Cut(w.node.start) THEN [w EXCEPT !.end = "removed"]
  ELSE Only({IF r.junk /\ w.node.size > 0
               THEN [w EXCEPT !.end = IF Fresh(w.node, w.sector, w.pos) THEN "junk" ELSE "stale"]
             ELSE IF ~r.found THEN [w EXCEPT !.end = "missing"]
             ELSE At(r.at.copy[r.at.pos], r.at.sector, r.at.pos) : r \in {FindDirectory(w.node, name)}})

\* Where a path starts: the root's copy, or the process's copy of its directory.
CWD(p, abs) == IF abs \/ ~here[p] THEN At(root, 0, 0) ELSE At(pwd[p].node, pwd[p].sector, pwd[p].pos)

\* Directory_ReadDirEntryInfo, and the walk of Directory_GetDirEntryForCreateDelete to the parent.
ReadDirEntryInfo(p, path, abs) ==
  IF path = <<>> THEN At(nodes[0][0], 0, 0) ELSE FoldLeft(Down, CWD(p, abs), path)
GetParent(p, path, abs) == FoldLeft(Down, CWD(p, abs), Front(path))

-----------------------------------------------------------------------------
(* Calls. *)

\* The sectors a call has a copy of that it is going to write.
Held(p) == {s \in {todo[p].parent, todo[p].sector} : s # NoSector}
Overlap == \E p, q \in Proc : p # q /\ Held(p) \cap Held(q) # {}
Followed == trouble = "none" /\ ~Overlap

\* The next part of a call, or its end: O_TRUNC deletes, creates and then opens.
Return(p) == todo' = [todo EXCEPT ![p] =
  IF todo[p].rest = <<>> THEN Idle
  ELSE [Idle EXCEPT !.kind = Head(todo[p].rest), !.step = "locate", !.path = todo[p].path,
                    !.abs = todo[p].abs, !.dir = FALSE, !.rest = Tail(todo[p].rest)]]
Throw(p) == todo' = [todo EXCEPT ![p] = Idle]

\* A call a process starts, and the one it goes on with after Return.
Call(kind, path, abs) == [Idle EXCEPT !.kind = kind, !.step = "locate", !.path = path, !.abs = abs]
Counted(p) == calls' = IF todo[p] = Idle THEN calls + 1 ELSE calls

\* A walk that fails throws; one that read what was never written is not followed.
Ends(p, w) == /\ Throw(p) /\ trouble' = (IF w.end \in {"junk", "stale", "removed"} THEN w.end ELSE trouble)
              /\ UNCHANGED <<nodes, link, root, pwd, here, file, lost, calls>>

\* A new directory may be made as well as a file; O_TRUNC is for a file that is there, deleted and
\* made again.
Ways(p, c, entry) ==
  IF c.kind = "create" THEN [dir : {c.dir, todo[p] = Idle}, rest : {c.rest}]
  ELSE [dir : {FALSE}, rest : {<<>>} \cup {x \in {<<"create", "open">>} : c.abs /\ ~entry.node.dir}]

\* FileOperations_Create and FileOperations_Delete find the parent and read its sector; a delete
\* looks the whole path up, for its owner.
Locate(p, c) == c.kind \in {"create", "delete"} /\ \E parent \in {GetParent(p, c.path, c.abs)} :
  \E entry \in {IF c.kind = "create" THEN parent ELSE Down(parent, Last(c.path))} :
     \/ /\ entry.end # "none" /\ Ends(p, entry)
     \/ /\ entry.end = "none" /\ nodes[parent.sector][parent.pos].dir
        /\ \E way \in Ways(p, c, entry) :
             todo' = [todo EXCEPT ![p] = [c EXCEPT !.step = "find", !.parent = parent.sector, !.slot = parent.pos,
                                                   !.up = nodes[parent.sector], !.dir = way.dir, !.rest = way.rest]]
        /\ Counted(p) /\ UNCHANGED <<nodes, link, root, pwd, here, file, lost, trouble>>
     \/ /\ entry.end = "none" /\ ~nodes[parent.sector][parent.pos].dir /\ Ends(p, entry)

\* A free sector, if there is one.  Which one does not matter here: the lowest.
AllocateSector == {s \in 1 .. Sectors : link[s] = Unused /\ \A t \in 1 .. s - 1 : link[t] # Unused}

Parent(p) == todo[p].up[todo[p].slot]
Lookup(p) == FindDirectory(Parent(p), Last(todo[p].path))
\* In an emptied directory the lookup reads slots nobody wrote: they do not hold the name, or they do.
Ghost(p, r) == r.junk /\ Parent(p).size = 0
ReadsJunk(p, r) == r.junk /\ Parent(p).size > 0

\* Directory_Create up to its first write: a place for the entry, in a new sector when all are full.
FindPlace(p, r) == todo[p].kind = "create" /\
  LET going(s, pos, copy) == [todo[p] EXCEPT !.step = "entry", !.sector = s, !.pos = pos, !.copy = copy] IN
  /\ ~ReadsJunk(p, r) /\ ~r.found
  /\ \/ /\ Parent(p).start = EOC
        /\ \E s \in AllocateSector :
             /\ link' = [link EXCEPT ![s] = EOC]
             /\ todo' = [todo EXCEPT ![p] = [going(s, 0, Uninitialised) EXCEPT !.up[todo[p].slot].start = s]]
     \/ /\ Parent(p).start # EOC /\ r.at.pos < Slots
        /\ todo' = [todo EXCEPT ![p] = going(r.at.sector, r.at.pos, r.at.copy)] /\ UNCHANGED link
     \/ /\ Parent(p).start # EOC /\ r.at.pos = Slots
        /\ \E s \in AllocateSector :
             /\ link' = [link EXCEPT ![s] = EOC, ![r.at.sector] = s]
             /\ todo' = [todo EXCEPT ![p] = going(s, 0, Uninitialised)]
  /\ UNCHANGED <<nodes, root, pwd, here, file, lost, trouble, calls>>

\* The name exists, or no sector is free: the call throws and has changed nothing.
CreateRefused(p, r) ==
  /\ todo[p].kind = "create" /\ ~ReadsJunk(p, r)
  /\ r.found \/ AllocateSector = {}
  /\ Ends(p, At(RootNode, 0, 0))

\* The descriptors, when the entry at a place goes: those of its file stay open.
Deleted(sector, pos) == [q \in Proc |->
  IF IsOpen(q) /\ \E w \in {ReadDirEntryInfo(q, file[q].path, TRUE)} : w.end = "none" /\ w.sector = sector /\ w.pos = pos
    THEN [file[q] EXCEPT !.gone = TRUE] ELSE file[q]]

\* Directory_Delete up to its first write: the entry, whose sectors are given back.
FindEntry(p, r) ==
  /\ todo[p].kind = "delete" /\ ~ReadsJunk(p, r)
  /\ \/ /\ ~r.found /\ Ends(p, At(RootNode, 0, 0))
     \/ /\ r.found
        /\ \E node \in {r.at.copy[r.at.pos]} :
           \/ /\ node.dir /\ node.size # 0 /\ Ends(p, At(RootNode, 0, 0))
           \/ /\ ~ (node.dir /\ node.size # 0)
              /\ link' = [s \in 1 .. Sectors |-> IF s \in ToSet(Chain(node.start)) THEN Unused ELSE link[s]]
              /\ todo' = [todo EXCEPT ![p].step = "entry", ![p].sector = r.at.sector, ![p].pos = r.at.pos,
                                      ![p].copy = r.at.copy]
              /\ file' = Deleted(r.at.sector, r.at.pos)
              /\ UNCHANGED <<nodes, root, pwd, here, lost, trouble, calls>>

\* A lookup that read slots nobody wrote.
FindsJunk(p, r) ==
  \/ ReadsJunk(p, r) /\ Ends(p, [At(RootNode, 0, 0) EXCEPT !.end =
                                   IF Fresh(Parent(p), todo[p].parent, todo[p].slot) THEN "junk" ELSE "stale"])
  \/ Ghost(p, r) /\ Throw(p) /\ trouble' = "ghost" /\ UNCHANGED <<nodes, link, root, pwd, here, file, lost, calls>>

\* The name is looked up in the parent's copy: Directory_Create and Directory_Delete up to a write.
Find(p) == todo[p].step = "find" /\ \E r \in {Lookup(p)} :
  FindPlace(p, r) \/ CreateRefused(p, r) \/ FindEntry(p, r) \/ FindsJunk(p, r)

\* The first write of a create or a delete: the sector with the entry.
WriteEntry(p) ==
  LET c == todo[p]
      entry == IF c.kind = "create" THEN NewNode(Last(c.path), c.dir, <<c.parent, c.slot>>)
               ELSE [c.copy[c.pos] EXCEPT !.live = FALSE]
  IN
  /\ c.kind \in {"create", "delete"} /\ c.step = "entry"
  /\ nodes' = [nodes EXCEPT ![c.sector] = [c.copy EXCEPT ![c.pos] = entry]]
  /\ todo' = [todo EXCEPT ![p].step = "parent", ![p].sector = NoSector]
  /\ trouble' = (IF c.kind = "delete" /\ \E q \in Proc : here[q] /\ pwd[q].sector = c.sector /\ pwd[q].pos = c.pos
                 THEN "removed" ELSE trouble)
  /\ file' = (IF c.kind = "delete" THEN Deleted(c.sector, c.pos) ELSE file)
  /\ UNCHANGED <<link, root, pwd, here, lost, calls>>

\* The file system's copy of the root follows the root; a bug: it stays as it was mounted.
RootOfMount(node) == root
RootCopy(node) == IF node.name = "/" THEN node ELSE root

\* The second write: the parent's sector, and the copies of the parent the code knows of.
WriteParent(p) ==
  LET c == todo[p]
      node == [Parent(p) EXCEPT !.size = IF c.kind = "create" THEN @ + 1 ELSE @ - 1]
  IN
  /\ c.kind \in {"create", "delete"} /\ c.step = "parent"
  /\ nodes' = [nodes EXCEPT ![c.parent] = [c.up EXCEPT ![c.slot] = node]]
  /\ pwd' = (IF here[p] /\ pwd[p].sector = c.parent /\ pwd[p].pos = c.slot
             THEN [pwd EXCEPT ![p].node = node] ELSE pwd)
  /\ root' = RootCopy(node)
  /\ Return(p)
  /\ UNCHANGED <<link, here, file, lost, trouble, calls>>

\* A transfer throws between the writes.
WriteFails(p) ==
  /\ todo[p].step \in {"entry", "parent"} /\ trouble' = "failed" /\ Throw(p)
  /\ UNCHANGED <<nodes, link, root, pwd, here, file, lost, calls>>

\* Directory_Change: the process goes into a directory of this drive.
Change(p, c) == c.kind = "change" /\ \E w \in {ReadDirEntryInfo(p, c.path, c.abs)} :
     \/ w.end # "none" /\ Ends(p, w)
     \/ w.end = "none" /\ ~w.node.dir /\ Ends(p, w)
     \/ /\ w.end = "none" /\ w.node.dir
        /\ pwd' = [pwd EXCEPT ![p] = [node |-> w.node, sector |-> w.sector, pos |-> w.pos]]
        /\ here' = [here EXCEPT ![p] = TRUE] /\ Throw(p)
        /\ Counted(p) /\ UNCHANGED <<nodes, link, root, file, lost, trouble>>

\* The path of a node, from its parents (FullPath).
FullPath(node) ==
  LET up[n \in 0 .. MaxPath + 1] == IF n = 0 THEN node ELSE nodes[up[n - 1].up[1]][up[n - 1].up[2]]
      depth == Min({n \in 0 .. MaxPath + 1 : n = MaxPath + 1 \/ up[n].name = "/"})
  IN [i \in 1 .. depth |-> up[depth - i].name]

\* FileOperations_Open of a file: the descriptor keeps the full path and the first sector.
Open(p, c) == c.kind = "open" /\ \E w \in {ReadDirEntryInfo(p, c.path, c.abs)} :
     \/ w.end # "none" /\ Ends(p, w)
     \/ w.end = "none" /\ w.node.dir /\ Ends(p, w)
     \/ /\ w.end = "none" /\ ~w.node.dir
        /\ file' = [file EXCEPT ![p] = [NoFile EXCEPT !.path = FullPath(w.node), !.sector = w.node.start]] /\ Throw(p)
        /\ Counted(p) /\ UNCHANGED <<nodes, link, root, pwd, here, lost, trouble>>

Close(p) == /\ todo[p] = Idle /\ IsOpen(p) /\ file' = [file EXCEPT ![p] = NoFile]
            /\ UNCHANGED <<nodes, link, root, pwd, here, lost, todo, trouble, calls>>

\* Where a walk to "at" begins: at the sector the descriptor remembers, or at the first one when that
\* is behind "at"; a bug: at the first one, with the index remembered.
FirstWithIndex(fd, node, at) == [index |-> IF fd.index > at THEN 0 ELSE fd.index, sector |-> node.start]
LastReadSector(fd, node, at) ==
  IF fd.index > at THEN [index |-> 0, sector |-> node.start] ELSE [index |-> fd.index, sector |-> fd.sector]

\* Along the table as far as "at" or the end: where it got to, the sector before and those it saw.  A
\* free sector's entry is 0, the root's own sector.
StepOn(s) == IF s = 0 THEN EOC ELSE IF link[s] = Unused THEN 0 ELSE link[s]
Walk(fd, node, at) ==
  LET from == LastReadSector(fd, node, at)
      sector[n \in 0 .. at] == IF n = 0 THEN from.sector ELSE IF sector[n - 1] = EOC THEN EOC ELSE StepOn(sector[n - 1])
      steps == Min({n \in 0 .. at - from.index : n = at - from.index \/ sector[n] = EOC})
  IN [index |-> from.index + steps, sector |-> sector[steps], before |-> IF steps = 0 THEN EOC ELSE sector[steps - 1],
      seen |-> {sector[n] : n \in 0 .. steps} \ {EOC}]

\* The sectors that belong to a file, and the free ones an allocation of n takes, as far as there are.
OwnSectors(node) == IF Cut(node.start) THEN {} ELSE ToSet(Chain(node.start))
Taken(n) == LET free == {s \in 1 .. Sectors : link[s] = Unused}
            IN SubSeq(SetToSortSeq(free, <), 1, Min({n, Cardinality(free)}))

\* Linked one behind the other, and the first behind "before".
Linked(new, before) == [s \in 1 .. Sectors |->
  IF s \in ToSet(new) THEN Head(Tail(SelectSeq(new, LAMBDA t : t >= s)) \o <<EOC>>)
  ELSE IF s = before THEN Head(new) ELSE link[s]]

\* FileDescriptor::write of one sector at an offset (Directory_FileWrite, Directory_ActualFileWrite).
\* The sector is there; or sectors are taken up to it and linked, and the entry's copy follows.
Writes(p, c, w, k) ==
  LET node == w.node
      remember(index, sector) == file' = [file EXCEPT ![p].index = index, ![p].sector = sector]
      saved(start) == [nodes[w.sector] EXCEPT ![w.pos] = [node EXCEPT !.start = start, !.size = Max({@, c.at + 1})]]
      goOn(start) == todo' = [todo EXCEPT ![p] =
        IF node.size < c.at + 1 THEN [c EXCEPT !.step = "size", !.sector = w.sector, !.pos = w.pos, !.copy = saved(start)]
        ELSE [c EXCEPT !.step = "times"]]
  IN
     \/ /\ k.seen \subseteq OwnSectors(node) /\ k.sector # EOC
        /\ remember(k.index, k.sector) /\ goOn(node.start) /\ UNCHANGED <<link, lost, trouble>>
     \/ /\ k.seen \subseteq OwnSectors(node) /\ k.sector = EOC /\ (node.start = EOC \/ k.before # EOC)
        /\ \E new \in {Taken(c.at + 1 - k.index)} :
             /\ new # <<>> /\ link' = Linked(new, k.before) /\ remember(k.index + Len(new) - 1, Last(new))
             /\ IF k.index + Len(new) = c.at + 1 THEN goOn(IF node.start = EOC THEN Head(new) ELSE node.start) ELSE Throw(p)
             /\ lost' = (IF node.start = EOC /\ k.index + Len(new) < c.at + 1 THEN lost \cup ToSet(new) ELSE lost)
        /\ UNCHANGED trouble
     \* The descriptor is of the time the file was empty: the sector taken is linked to nothing.
     \/ /\ k.sector = EOC /\ k.before = EOC /\ node.start # EOC
        /\ \E s \in AllocateSector : link' = [link EXCEPT ![s] = EOC] /\ lost' = lost \cup {s}
        /\ Throw(p) /\ UNCHANGED <<file, trouble>>
     \/ /\ k.sector = EOC /\ AllocateSector = {} /\ k.seen \subseteq OwnSectors(node)
        /\ Throw(p) /\ UNCHANGED <<link, file, lost, trouble>>
     \* The sector remembered is not, or no more, one of this file.
     \/ /\ ~ k.seen \subseteq OwnSectors(node)
        /\ trouble' = (IF Cut(node.start) THEN "removed" ELSE "foreign") /\ Throw(p) /\ UNCHANGED <<link, file, lost>>

WriteFile(p, c) == c.kind = "write" /\ c.step = "locate" /\ \E w \in {ReadDirEntryInfo(p, c.path, TRUE)} :
     \/ w.end # "none" /\ Ends(p, w)
     \/ w.end = "none" /\ w.node.dir /\ Ends(p, w)
     \/ /\ w.end = "none" /\ ~w.node.dir
        /\ \E k \in {Walk(file[p], w.node, c.at)} : Writes(p, c, w, k)
        /\ Counted(p) /\ UNCHANGED <<nodes, root, pwd, here>>

\* Directory_FileRead of one sector: nothing behind the size; a walk that meets the end throws.
ReadFile(p, c) == c.kind = "read" /\ c.step = "locate" /\ \E w \in {ReadDirEntryInfo(p, c.path, TRUE)} :
  LET behind == w.node.size <= c.at IN
     \/ w.end # "none" /\ Ends(p, w)
     \/ w.end = "none" /\ w.node.dir /\ Ends(p, w)
     \/ /\ w.end = "none" /\ ~w.node.dir
        /\ \E k \in {Walk(file[p], w.node, c.at)} :
           \/ ~behind /\ k.index < c.at /\ Throw(p) /\ UNCHANGED file
           \/ /\ behind \/ k.index = c.at
              /\ file' = (IF behind THEN file ELSE [file EXCEPT ![p].index = k.index, ![p].sector = k.sector])
              /\ todo' = [todo EXCEPT ![p] = [c EXCEPT !.step = "times"]]
        /\ Counted(p) /\ UNCHANGED <<nodes, link, root, pwd, here, lost, trouble>>

\* The times follow: the entry is read and written again (FileOperations_UpdateTime).
UpdateTime(p, c) == c.step = "times" /\ \E w \in {ReadDirEntryInfo(p, c.path, TRUE)} :
     \/ w.end # "none" /\ Ends(p, w)
     \/ /\ w.end = "none"
        /\ todo' = [todo EXCEPT ![p] = [c EXCEPT !.step = "time", !.sector = w.sector, !.pos = w.pos,
                                                 !.copy = nodes[w.sector]]]
        /\ Counted(p) /\ UNCHANGED <<nodes, link, root, pwd, here, file, lost, trouble>>

WriteCopy(p) ==
  /\ todo[p].step \in {"size", "time"}
  /\ nodes' = [nodes EXCEPT ![todo[p].sector] = todo[p].copy]
  /\ IF todo[p].step = "size" THEN todo' = [todo EXCEPT ![p].step = "times", ![p].sector = NoSector] ELSE Throw(p)
  /\ UNCHANGED <<link, root, pwd, here, file, lost, trouble, calls>>

\* Directory_SyncPWD reads the process's directory again; DiskDriveManager::Change and
\* MountManager_MountDrive go to the root by the file system's copy; another drive may be chosen.
SyncPWD(p) == /\ todo[p] = Idle /\ here[p] /\ calls < MaxCalls /\ Counted(p)
              /\ pwd' = [pwd EXCEPT ![p].node = nodes[pwd[p].sector][pwd[p].pos]]
              /\ UNCHANGED <<nodes, link, root, here, file, lost, todo, trouble>>
ChangeDrive(p) == /\ todo[p] = Idle /\ ~here[p] /\ calls < MaxCalls /\ Counted(p)
                  /\ here' = [here EXCEPT ![p] = TRUE]
                  /\ pwd' = [pwd EXCEPT ![p] = [node |-> root, sector |-> 0, pos |-> 0]]
                  /\ UNCHANGED <<nodes, link, root, file, lost, todo, trouble>>
LeaveDrive(p) == /\ todo[p] = Idle /\ here[p] /\ here' = [here EXCEPT ![p] = FALSE]
                 /\ calls < MaxCalls /\ Counted(p)
                 /\ UNCHANGED <<nodes, link, root, pwd, file, lost, todo, trouble>>

\* Directory_GetDirectoryContent of a directory, by the copy a walk ends with: at most as many
\* entries as the copy counts, read through the whole chain.
Content(node) ==
  LET chain == Chain(node.start)
      all == [k \in 1 .. Len(chain) * Slots |-> nodes[chain[(k - 1) \div Slots + 1]][(k - 1) % Slots]]
      seen == SelectSeq(all, LAMBDA n : n.live \/ n = Junk)
  IN SubSeq(seen, 1, IF Len(seen) < node.size THEN Len(seen) ELSE node.size)

Paths == UNION {[1 .. n -> Names] : n \in 1 .. MaxPath}

\* A relative path is one of its own unless the process is at the root, with an equal copy.
Starts(p) == {abs \in BOOLEAN : abs \/ CWD(p, FALSE) # CWD(p, TRUE)}

\* A read or a write is of one sector, where the last call ended or a seek went: as far as MaxOffset.
MaxOffset == 1

Calls(p) ==
  IF todo[p].step \in {"locate", "times"} THEN {todo[p]}
  ELSE IF todo[p] # Idle \/ calls = MaxCalls THEN {}
  ELSE {Call(kind, path, abs) : kind \in {"create", "delete", "open", "change"}, path \in Paths, abs \in Starts(p)}
       \cup {Call("change", <<>>, TRUE), Call("change", <<"..">>, FALSE)}
       \cup {[Call(kind, file[p].path, TRUE) EXCEPT !.at = at] :
               kind \in {k \in {"read", "write"} : IsOpen(p)}, at \in 0 .. MaxOffset}

\* A drive just formatted, and one whose root has filled its first sector of two: a directory with
\* a file in it, empty or of one sector, and a file that stays.
Empty == [nodes |-> [s \in 0 .. Sectors |-> IF s = 0 THEN [Uninitialised EXCEPT ![0] = RootNode] ELSE Uninitialised],
          link |-> [s \in 1 .. Sectors |-> Unused]]
Filled(size) ==
  LET name == CHOOSE n \in Names : TRUE
      start == IF size = 0 THEN EOC ELSE 3 IN
  [nodes |-> [Empty.nodes EXCEPT ![0][0].size = 2, ![0][0].start = 1,
              ![1][0] = [NewNode(name, TRUE, <<0, 0>>) EXCEPT !.size = 1, !.start = 2],
              ![1][1] = NewNode("old", FALSE, <<0, 0>>),
              ![2][0] = [NewNode(name, FALSE, <<1, 0>>) EXCEPT !.size = size, !.start = start]],
   link |-> [Empty.link EXCEPT ![1] = EOC, ![2] = EOC, ![3] = IF size = 0 THEN Unused ELSE EOC]]

\* On a filled drive the processes have the file in the directory open.
DirectoriesInit ==
  /\ \/ nodes = Empty.nodes /\ link = Empty.link /\ file = [p \in Proc |-> NoFile]
     \/ \E size \in 0 .. 1 :
          /\ nodes = Filled(size).nodes /\ link = Filled(size).link
          /\ file = [p \in Proc |-> [NoFile EXCEPT !.path = FullPath(nodes[2][0]), !.sector = nodes[2][0].start]]
  /\ root = nodes[0][0]
  /\ pwd = [p \in Proc |-> [node |-> root, sector |-> 0, pos |-> 0]]
  /\ here = [p \in Proc |-> TRUE] /\ lost = {}
  /\ todo = [p \in Proc |-> Idle] /\ trouble = "none" /\ calls = 0

\* The processes are alike: one of them makes the first call.
DirectoriesNext == Followed /\ \E p \in Proc :
  /\ calls = 0 => p = CHOOSE x \in Proc : TRUE
  /\ \/ \E c \in Calls(p) : Locate(p, c) \/ Change(p, c) \/ Open(p, c) \/ WriteFile(p, c) \/ ReadFile(p, c)
                          \/ UpdateTime(p, c)
     \/ Find(p) \/ WriteEntry(p) \/ WriteParent(p) \/ WriteFails(p) \/ Close(p) \/ WriteCopy(p) \/ SyncPWD(p) \/ ChangeDrive(p) \/ LeaveDrive(p)

DirectoriesSpec == DirectoriesInit /\ [][DirectoriesNext]_dirVars

-----------------------------------------------------------------------------
DirectoriesTypeOK ==
  /\ DOMAIN nodes = 0 .. Sectors /\ link \in [1 .. Sectors -> {Unused, EOC} \cup 1 .. Sectors]
  /\ here \in [Proc -> BOOLEAN] /\ calls \in 0 .. MaxCalls /\ lost \subseteq 1 .. Sectors
  /\ trouble \in {"none", "junk", "stale", "ghost", "removed", "foreign", "failed"}
  /\ \A p \in Proc : todo[p].step \in {"none", "locate", "find", "entry", "parent", "size", "times", "time"}

NodeAt(x) == nodes[x[1]][x[2]]
Entries(node) == {<<s, i>> \in ToSet(Chain(node.start)) \X Slot : nodes[s][i].live}

\* The places of the nodes that are in use: those the root reaches.
RECURSIVE Below(_, _)
Below(x, depth) ==
  {x} \cup IF depth = 0 \/ ~NodeAt(x).dir THEN {} ELSE UNION {Below(y, depth - 1) : y \in Entries(NodeAt(x))}
Reached == Below(<<0, 0>>, Sectors)

Quiet == \A p \in Proc : todo[p].step \in {"none", "locate", "find", "times"}

\* While calls keep to different sectors, fail nowhere and remove no directory that is in use, the
\* tree is sound whenever no call is between its writes: a directory counts its entries, its entries
\* have different names and know their parent, no two nodes share a sector, a file's size is within
\* its sectors, no sector of the table is without an owner but those a write took and could not link
\* (the descriptor was opened when the file was empty, or no sector was left for the next), the copy
\* of the root is the root, and a listing shows the entries.
SoundTree == Followed /\ Quiet =>
  LET reached == Reached
      sectors(x) == ToSet(Chain(NodeAt(x).start))
  IN
  /\ \A x \in reached :
       IF NodeAt(x).dir
       THEN LET entries == Entries(NodeAt(x))
                content == Content(NodeAt(x))
            IN /\ NodeAt(x).size = Cardinality(entries)
               /\ \A y \in entries : NodeAt(y).up = x
               /\ \A y, z \in entries : NodeAt(y).name = NodeAt(z).name => y = z
               /\ Cardinality(ToSet(content)) = NodeAt(x).size /\ Junk \notin ToSet(content)
       ELSE NodeAt(x).size <= Len(Chain(NodeAt(x).start))
  /\ \A x, y \in reached : x # y => sectors(x) \cap sectors(y) = {}
  /\ {s \in 1 .. Sectors : link[s] # Unused} \ lost = UNION {sectors(x) : x \in reached}
  /\ root = NodeAt(<<0, 0>>)

\* A descriptor whose file was not deleted remembers the sector of its file that has the index it
\* remembers, or none because the file was empty when it was opened, or one that never got into a
\* chain.  So a write goes to a sector that is not its file's only through a descriptor of a deleted
\* file, or after a write that ran out of sectors.
SoundDescriptors ==
  /\ Followed /\ Quiet => \A p \in Proc : IsOpen(p) /\ ~file[p].gone =>
       \E w \in {ReadDirEntryInfo(p, file[p].path, TRUE)} :
         /\ w.end = "none" /\ ~w.node.dir
         /\ \/ file[p].index + 1 \in DOMAIN Chain(w.node.start) /\ Chain(w.node.start)[file[p].index + 1] = file[p].sector
            \/ file[p].index = 0 /\ file[p].sector = EOC
            \/ file[p].sector \in lost
  /\ trouble = "foreign" => \E p \in Proc : file[p].gone \/ file[p].sector \in lost

TreeIsSound == SoundTree /\ SoundDescriptors

\* Slots nobody wrote are read through an outdated copy of a directory only (or in an emptied one).
JunkIsNotRead == trouble # "junk"
=============================================================================
