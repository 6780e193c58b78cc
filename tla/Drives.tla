------------------------------- MODULE Drives -------------------------------
(***************************************************************************)
(* The parts of a drive that share no state here: the cache of its disk,   *)
(* the directories on it and the partition tables it was made from.  A     *)
(* behaviour is one of one part, while the others stay at an initial state.*)
(***************************************************************************)
EXTENDS DiskDrive, Partitions, TLC

CONSTANTS Proc, Names, Sectors, Slots, MaxCalls, MaxPath

ASSUME DirectoriesAssumption == /\ Names # {} /\ {Sectors, Slots, MaxPath} \subseteq Nat \ {0}
                                /\ MaxCalls \in Nat

ASSUME PartitionsAssumption == /\ DiskSize \in Nat \ {0} /\ DEF_START_SEC \in 1 .. DiskSize - 1
                               /\ Modulus \in Nat /\ Modulus > DiskSize
                               /\ Sizes \subseteq 1 .. DiskSize /\ MaxCommands \in Nat

VARIABLES nodes, link, root, pwd, here, file, lost, todo, trouble, calls


VARIABLE drivesPart

Dirs == INSTANCE Directories

dirVars == <<nodes, link, root, pwd, here, file, lost, todo, trouble, calls>>

drivesVars == <<vars, dirVars, partVars, drivesPart>>

DrivesTypeOK == /\ TypeOK /\ (drivesPart = "directories" => Dirs!DirectoriesTypeOK)
                /\ (drivesPart = "tables" => PartitionsTypeOK)
                /\ drivesPart \in {"disk", "directories", "tables"}

DrivesInit ==
  /\ drivesPart \in {"disk", "directories", "tables"}
  /\ Init /\ Dirs!DirectoriesInit /\ PartitionsInit
  /\ drivesPart # "directories" => nodes[0][0].size = 0
  /\ drivesPart # "tables" => sector[0] = Zero
  /\ drivesPart # "disk" => disk = CHOOSE d \in [Sector -> Value] : TRUE

DrivesNext ==
  \/ drivesPart = "disk" /\ Next /\ UNCHANGED <<dirVars, partVars, drivesPart>>
  \/ drivesPart = "directories" /\ Dirs!DirectoriesNext /\ UNCHANGED <<vars, partVars, drivesPart>>
  \/ drivesPart = "tables" /\ PartitionsNext /\ UNCHANGED <<vars, dirVars, drivesPart>>

\* Values are only compared.
ValueSymmetry == Permutations(Value)

DrivesSpec == DrivesInit /\ [][DrivesNext]_drivesVars

-----------------------------------------------------------------------------
\* The tree of a drive is sound between calls that keep to different sectors and do not fail, and
\* slots nobody wrote are never taken for entries.
TreeIsSound == drivesPart = "directories" => Dirs!TreeIsSound /\ Dirs!JunkIsNotRead

\* A command that is cut short between two writes leaves every partition as it is, but may have added
\* one at the end or taken some from the end.
PartitionsKeep == [][drivesPart = "tables" => ChangesAtTheEnd]_drivesVars
=============================================================================
