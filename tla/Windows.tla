------------------------------ MODULE Windows -------------------------------
(***************************************************************************)
(* The order of the windows and the input focus: GraphicsVideo's list of   *)
(* processes that have a frame, from the base at its front to the topmost  *)
(* window at its back, the bases that another base covers, and the process *)
(* that gets the input.  Processes open windows, become a base or resign   *)
(* as one, and end, while the refresh task and the mouse dispatcher (moed) *)
(* use the same list.  The operations on it are atomic, by their mutex.    *)
(***************************************************************************)
EXTENDS Integers, Sequences, FiniteSets, SequencesExt

CONSTANTS UserProcs   \* processes besides the root process

VARIABLES fgProcesses, guiBaseStack,
          inputEventFGProcess,
          life,          \* "alive"; "ending", its buffer is freed; "terminated", still in the map; "gone"
          frame, isGuiBase,
          adding,        \* processes with a new frame that addFGProcess is not called for yet
          moed           \* the mouse dispatcher: pc and the window it found
VARIABLE strayed         \* a race was lost that the code does not look for

windowsVars == <<fgProcesses, guiBaseStack, inputEventFGProcess, life, frame, isGuiBase, adding, moed, strayed>>

NO_PROCESS_ID == "root"
WindowProcs == UserProcs \cup {NO_PROCESS_ID}

\* GetProcess finds a process until it is deleted, its window included.
InMap(p) == life[p] # "gone"
IsBase(p) == InMap(p) /\ isGuiBase[p]
HasFrame(p) == InMap(p) /\ frame[p]

\* erase
Without(s, p) == SelectSeq(s, LAMBDA q : q # p)

-----------------------------------------------------------------------------
(* GraphicsVideo: what an operation makes of the list, the covered bases and the focus *)

Order(fg, bases, focus) == [fg |-> fg, bases |-> bases, focus |-> focus]
Current == Order(fgProcesses, guiBaseStack, inputEventFGProcess)
Become(o) == /\ fgProcesses' = o.fg /\ guiBaseStack' = o.bases /\ inputEventFGProcess' = o.focus

\* A bug: the focus stays with the base that is covered now.
FocusStays(o, p) ==
  LET first == Head(o.fg)
      covers == IsBase(first)
  IN  Order(<<p>> \o Without(IF covers THEN Tail(o.fg) ELSE o.fg, p),
            IF covers THEN Append(o.bases, first) ELSE o.bases, o.focus)

addGuiBase(o, p) ==
  LET first == Head(o.fg)
      covers == IsBase(first)
  IN  Order(<<p>> \o Without(IF covers THEN Tail(o.fg) ELSE o.fg, p),
            IF covers THEN Append(o.bases, first) ELSE o.bases,
            IF covers /\ o.focus = first THEN p ELSE o.focus)

removeGuiBase(o, p) ==
  LET rest == Without(o.bases, p)
  IN  IF rest = <<>> THEN [o EXCEPT !.bases = rest]
      ELSE Order(<<Last(rest)>> \o o.fg, Front(rest), IF o.focus = p THEN Last(rest) ELSE o.focus)

removeFGProcess(o, p) ==
  LET uncovered == IF IsBase(p) THEN removeGuiBase(o, p) ELSE o
      fg == Without(uncovered.fg, p)
  IN  Order(fg, uncovered.bases, IF uncovered.focus # p THEN uncovered.focus
                                 ELSE IF fg # <<>> THEN Last(fg) ELSE NO_PROCESS_ID)

addFGProcess(o, p) == Order(Append(o.fg, p), o.bases, p)

switchFGProcess(o, p) ==
  IF ~InMap(p) THEN removeFGProcess(o, p)
  ELSE Order(IF p # Last(o.fg) /\ ~IsBase(p) THEN Append(Without(o.fg, p), p) ELSE o.fg, o.bases, p)

\* Windows of deleted processes among the places are taken off the list on the way.
Pruned(o, places) ==
  FoldLeft(LAMBDA r, p : IF InMap(p) THEN r ELSE removeFGProcess(r, p), o,
           SelectSeq(o.fg, LAMBDA p : \E i \in places : o.fg[i] = p))

\* The refresh task's isDirty, unless it has been told to draw everything anyway.
isDirty == /\ \E p \in ToSet(fgProcesses) : ~InMap(p)
           /\ Become(Pruned(Current, DOMAIN fgProcesses))
           /\ UNCHANGED <<life, frame, isGuiBase, adding, moed, strayed>>

-----------------------------------------------------------------------------
(* Processes *)

\* initGuiFrame: the kernel service makes the frame of a user process, and of a kernel process
\* it does so itself; then it is added.
initGuiFrame(p) == /\ life[p] = "alive" /\ ~frame[p]
                   /\ frame' = [frame EXCEPT ![p] = TRUE]
                   /\ adding' = adding \cup {p}
                   /\ UNCHANGED <<fgProcesses, guiBaseStack, inputEventFGProcess, life, isGuiBase, moed, strayed>>

\* A process may have been killed while the service worked for it.
Added(p) == /\ p \in adding
            /\ Become(addFGProcess(Current, p))
            /\ adding' = adding \ {p}
            /\ strayed' = (strayed \/ life[p] # "alive")
            /\ UNCHANGED <<life, frame, isGuiBase, moed>>

\* setGuiBase, with the task switch off.  A base that is covered and resigns is taken for the one
\* in front: the base under it comes up.
setGuiBase(p) ==
  /\ life[p] = "alive" /\ frame[p] /\ p \notin adding
  /\ isGuiBase' = [isGuiBase EXCEPT ![p] = ~@]
  /\ Become(IF isGuiBase[p] THEN removeGuiBase(Current, p) ELSE addGuiBase(Current, p))
  /\ strayed' = (strayed \/ p \in ToSet(guiBaseStack))
  /\ UNCHANGED <<life, frame, adding, moed>>

\* Destroy: in the scheduler for a process that exits, in the process that kills another otherwise,
\* and then others run between the steps.  A covered base that ends is taken for the one in front.
Ended(p) == /\ Become(IF frame[p] THEN removeFGProcess(Current, p) ELSE Current)
            /\ strayed' = (strayed \/ p \in ToSet(guiBaseStack))
            /\ life' = [life EXCEPT ![p] = "terminated"]
            /\ UNCHANGED <<frame, isGuiBase, adding, moed>>
Exit(p) == life[p] = "alive" /\ p \notin adding /\ Ended(p)
Kill(p) == /\ life[p] = "alive"
           /\ life' = [life EXCEPT ![p] = "ending"]
           /\ UNCHANGED <<fgProcesses, guiBaseStack, inputEventFGProcess, frame, isGuiBase, adding, moed, strayed>>
Killed(p) == life[p] = "ending" /\ Ended(p)

\* The scheduler deletes it once its parent has waited for it.
Delete(p) == /\ life[p] = "terminated"
             /\ life' = [life EXCEPT ![p] = "gone"]
             /\ UNCHANGED <<fgProcesses, guiBaseStack, inputEventFGProcess, frame, isGuiBase, adding, moed, strayed>>

-----------------------------------------------------------------------------
(* Mouse_Event_Dispatcher *)

\* The topmost window with the cursor in it, whatever is above it is not under the cursor.  If a
\* button was pressed there, that window is to come to the front.
getFGProcessUnderMouseCursor ==
  /\ moed.pc = "get"
  /\ \E i \in DOMAIN fgProcesses :
       /\ HasFrame(fgProcesses[i])
       /\ moed' \in {moed, [pc |-> "switch", pid |-> fgProcesses[i]]}
       /\ Become(Pruned(Current, i .. Len(fgProcesses)))
  /\ UNCHANGED <<life, frame, isGuiBase, adding, strayed>>

\* By then the window may be off the list.
SwitchTo == /\ moed.pc = "switch"
            /\ Become(switchFGProcess(Current, moed.pid))
            /\ strayed' = (strayed \/ (InMap(moed.pid) /\ moed.pid \notin ToSet(fgProcesses)))
            /\ moed' = [pc |-> "get", pid |-> NO_PROCESS_ID]
            /\ UNCHANGED <<life, frame, isGuiBase, adding>>

WindowsInit ==
  /\ fgProcesses = <<NO_PROCESS_ID>> /\ guiBaseStack = <<>> /\ inputEventFGProcess = NO_PROCESS_ID
  /\ life = [p \in WindowProcs |-> "alive"]
  /\ frame = [p \in WindowProcs |-> p = NO_PROCESS_ID]
  /\ isGuiBase = [p \in WindowProcs |-> p = NO_PROCESS_ID]
  /\ adding = {} /\ moed = [pc |-> "get", pid |-> NO_PROCESS_ID] /\ strayed = FALSE

WindowsNext == \/ isDirty \/ getFGProcessUnderMouseCursor \/ SwitchTo
               \/ \E p \in UserProcs : \/ initGuiFrame(p) \/ Added(p) \/ setGuiBase(p)
                                       \/ Exit(p) \/ Kill(p) \/ Killed(p) \/ Delete(p)

WindowsSpec == WindowsInit /\ [][WindowsNext]_windowsVars

-----------------------------------------------------------------------------
WindowsTypeOK ==
  /\ fgProcesses \in Seq(WindowProcs) /\ guiBaseStack \in Seq(WindowProcs)
  /\ inputEventFGProcess \in WindowProcs
  /\ life \in [WindowProcs -> {"alive", "ending", "terminated", "gone"}]
  /\ adding \subseteq UserProcs /\ moed.pid \in WindowProcs

\* Unless such a race was lost, a window is in one place; in front of the list is a base, which is
\* on it alone; a covered base is one, and every other live window is on the list; the focus is with
\* a window on it, and not with one whose process has ended.
WindowsAreOrdered ==
  ~strayed =>
    /\ LET all == fgProcesses \o guiBaseStack IN Cardinality(ToSet(all)) = Len(all)
    /\ \A i \in DOMAIN fgProcesses : IsBase(fgProcesses[i]) <=> i = 1
    /\ \A p \in ToSet(guiBaseStack) : life[p] \in {"alive", "ending"} /\ isGuiBase[p]
    /\ \A p \in WindowProcs : life[p] = "alive" /\ frame[p] /\ p \notin adding =>
                                p \in ToSet(fgProcesses) \cup ToSet(guiBaseStack)
    /\ inputEventFGProcess \in ToSet(fgProcesses) /\ life[inputEventFGProcess] \in {"alive", "ending"}
=============================================================================
