------------------------------ MODULE Keyboard ------------------------------
(***************************************************************************)
(* The way of a key from a PS/2 or USB keyboard through KeyboardHandler    *)
(* and its queue to the dispatcher (kbed), which writes it to the streams  *)
(* of the process that has the input focus.  Events are what the keyboard  *)
(* sends, in that order; a key is traced by the index of its event.        *)
(***************************************************************************)
EXTENDS Integers, Sequences, FiniteSets, SequencesExt

CONSTANTS QueueSize,   \* of _qBuffer (1024)
          MaxEvents,   \* bound on the events
          KeySets      \* the keys that somebody uses

VARIABLES keyboard, keys,      \* "ps2" or "usb", and the keys in use
          held,                \* keys that are down
          events, atEvent,     \* events sent: key and released; index of the next one to process
          pressedKeys,         \* _pressedKeys of the USB driver
          mods, caps,          \* _isShift, _isCtrl and _isAlt as a set; _isCaps
          queue,               \* _qBuffer
          irqs, owed,          \* pending signals of KEYBOARD_IRQ; one the USB driver is about to give
          kbed,                \* the dispatcher: pc and the data in hand
          session, thrown      \* the session of F1; a handler ended with an exception
VARIABLES given, unseen          \* entries written to streams, and events that reach nobody

inputVars == <<keyboard, keys, held, events>>
handlerVars == <<atEvent, pressedKeys, mods, caps, queue, irqs, owed, session, thrown>>
readerVars == <<kbed, given>>
keyboardVars == <<inputVars, handlerVars, readerVars, unseen>>

-----------------------------------------------------------------------------
(* Keys: one of a kind stands for all that the tables treat alike *)

NA_CHAR == "NA"
CAPS_LOCK == "caps"
F1 == "F1"
ModifierKeys == [shift |-> {"left shift", "right shift"}, ctrl |-> {"left ctrl", "right ctrl"},
                 alt |-> {"left alt", "right alt"}]
Modifier(k) == {m \in DOMAIN ModifierKeys : k \in ModifierKeys[m]}
Plain(k) == Modifier(k) = {} /\ k # CAPS_LOCK

\* Keys that a PS/2 keyboard sends with the prefix EXTRA_KEYS.
EXTRA_KEYS == {"right ctrl", "right alt", "up"}

shiftedKeyMap == [k \in {"a", "A", "1"} |-> CASE k = "a" -> "A" [] k = "A" -> "a" [] k = "1" -> "!"]
ctrlKeyMap == [k \in {"a", "A"} |-> "ctrl-a"]
Letters == {"a", "A"}
getShiftKey(k) == IF k \in DOMAIN shiftedKeyMap THEN shiftedKeyMap[k] ELSE k
getCtrlKey(k) == IF k \in DOMAIN ctrlKeyMap THEN ctrlKeyMap[k] ELSE k
mapToTTYKey(data) == IF "ctrl" \in data.mods THEN getCtrlKey(data.ch) ELSE data.ch

-----------------------------------------------------------------------------
(* The keyboard *)

Down(k) == [key |-> k, released |-> FALSE]
Up(k) == [key |-> k, released |-> TRUE]

\* A PS/2 keyboard sends what happens, prefixed or not.
Prefixed(k) == IF k \in EXTRA_KEYS THEN <<Down(NA_CHAR)>> ELSE <<>>
Sent(e) == IF keyboard = "ps2" THEN events \o Prefixed(e.key) \o <<e>> ELSE events

Touch(k) == /\ k \notin held /\ Len(events) < MaxEvents
            /\ held' = held \cup {k}
            /\ events' = Sent(Down(k))
            /\ UNCHANGED <<keyboard, keys, handlerVars, readerVars, unseen>>
LetGo(k) == /\ k \in held /\ Len(events) < MaxEvents
            /\ held' = held \ {k}
            /\ events' = Sent(Up(k))
            /\ UNCHANGED <<keyboard, keys, handlerVars, readerVars, unseen>>

\* A key that is held is sent again.
Repeat(k) == /\ keyboard = "ps2" /\ k \in held /\ Plain(k) /\ Len(events) < MaxEvents
             /\ events' = Sent(Down(k))
             /\ UNCHANGED <<keyboard, keys, held, handlerVars, readerVars, unseen>>

\* USBKeyboard::Handle: the report of a USB keyboard lists the keys that are down.  Those that are
\* not listed any more are released first, the set in no order that matters.  The modifiers are in
\* another byte, of which nothing comes but two flags that nobody reads.
Reported == {k \in held : Modifier(k) = {}}
Handle ==
  /\ keyboard = "usb" /\ atEvent > Len(events) /\ ~owed /\ Reported # pressedKeys
  /\ \E ups \in SetToSeqs(pressedKeys \ Reported), downs \in SetToSeqs(Reported \ pressedKeys) :
       events' = events \o [i \in DOMAIN ups |-> Up(ups[i])] \o [i \in DOMAIN downs |-> Down(downs[i])]
  /\ pressedKeys' = Reported
  /\ UNCHANGED <<keyboard, keys, held, atEvent, mods, caps, queue, irqs, owed, session, thrown, readerVars, unseen>>

-----------------------------------------------------------------------------
(* KeyboardHandler::Process, in the interrupt handler of the PS/2 driver or called for a report. *)
(* Either driver signals the interrupt whatever the event was.                                    *)

Event == events[atEvent]
Arrived == atEvent <= Len(events) /\ ~owed /\ ~thrown
Pressed == Arrived /\ ~Event.released /\ Event.key # NA_CHAR
Processed == /\ atEvent' = atEvent + 1
             /\ IF keyboard = "ps2" THEN irqs' = irqs + 1 /\ UNCHANGED owed
                ELSE owed' = TRUE /\ UNCHANGED irqs
             /\ UNCHANGED <<inputVars, pressedKeys, readerVars>>

NoKey == /\ Arrived /\ Event.key = NA_CHAR
         /\ Processed
         /\ UNCHANGED <<mods, caps, queue, session, thrown, unseen>>

KeyReleased == /\ Arrived /\ Event.released
               /\ mods' = mods \ Modifier(Event.key)
               /\ Processed
               /\ UNCHANGED <<caps, queue, session, thrown, unseen>>

\* A bug: with Caps Lock on, a letter is a capital.
CapsMeansCapital(k) == LET s == IF "shift" \in mods THEN getShiftKey(k) ELSE k
                       IN  IF caps /\ s = "a" THEN "A" ELSE s
Shifted(k) == LET s == IF "shift" \in mods THEN getShiftKey(k) ELSE k
              IN  IF caps /\ s \in Letters THEN getShiftKey(s) ELSE s

\* Modifiers go into the queue as well, and what does not fit in is lost.
KeyPressed ==
  /\ Pressed /\ Event.key # F1
  /\ mods' = mods \cup Modifier(Event.key)
  /\ caps' = IF Event.key = CAPS_LOCK THEN ~caps ELSE caps
  /\ LET data == [n |-> atEvent, ch |-> IF Plain(Event.key) THEN Shifted(Event.key) ELSE Event.key,
                  mods |-> mods']
     IN  IF Len(queue) < QueueSize THEN queue' = Append(queue, data) /\ UNCHANGED unseen
         ELSE unseen' = unseen \cup {atEvent} /\ UNCHANGED queue
  /\ Processed
  /\ UNCHANGED <<session, thrown>>

\* KBInputHandler_Process takes the keys F1 to F8: SessionManager_SwitchToSession starts the
\* session of the key or brings it to the front.
SwitchToSession ==
  /\ Pressed /\ Event.key = F1 /\ session # "ended"
  /\ session' = "running"
  /\ unseen' = unseen \cup {atEvent}
  /\ Processed
  /\ UNCHANGED <<mods, caps, queue, thrown>>

\* The process of a session that has ended is looked up without a question whether it is there.
SessionIsGone ==
  /\ Pressed /\ Event.key = F1 /\ session = "ended"
  /\ thrown' = TRUE
  /\ UNCHANGED <<inputVars, atEvent, pressedKeys, mods, caps, queue, irqs, owed, session, readerVars, unseen>>

\* USBKeyboardDriver::Process after the handler has returned.
Signal == /\ owed
          /\ owed' = FALSE /\ irqs' = irqs + 1
          /\ UNCHANGED <<inputVars, atEvent, pressedKeys, mods, caps, queue, session, thrown, readerVars, unseen>>

EndSession == /\ session = "running"
              /\ session' = "ended"
              /\ UNCHANGED <<inputVars, atEvent, pressedKeys, mods, caps, queue, irqs, owed, thrown, readerVars, unseen>>

-----------------------------------------------------------------------------
(* Keyboard_Event_Dispatcher *)

NoData == [n |-> 0, ch |-> NA_CHAR, mods |-> {}]
Kbed(pc, data) == [pc |-> pc, data |-> data]

\* A bug: the newest key first.
TakeLast == /\ queue # <<>>
            /\ queue' = Front(queue) /\ kbed' = Kbed("dispatch", Last(queue))
\* The queue is a container of another library: its operations are taken as atomic.
GetFromQueueBuffer == /\ queue # <<>>
                      /\ queue' = Tail(queue) /\ kbed' = Kbed("dispatch", Head(queue))

GetChar == /\ kbed.pc = "get"
           /\ \/ GetFromQueueBuffer
              \/ queue = <<>> /\ kbed' = Kbed("wait", NoData) /\ UNCHANGED queue
           /\ UNCHANGED <<inputVars, atEvent, pressedKeys, mods, caps, irqs, owed, session, thrown, given, unseen>>

\* A signal since the queue was found empty ends the wait at once.
WaitOnInterrupt == /\ kbed.pc = "wait" /\ irqs > 0
                   /\ irqs' = irqs - 1 /\ kbed' = Kbed("get", NoData)
                   /\ UNCHANGED <<inputVars, atEvent, pressedKeys, mods, caps, queue, owed, session, thrown,
                                  given, unseen>>

\* AutonomousProcess::dispatchKeyboardData of the process with the focus, which is the matter of
\* Windows: a terminal gets a character, a GUI process the record.
DispatchTo(as) == /\ kbed.pc = "dispatch"
                  /\ given' = Append(given, [data |-> kbed.data, as |-> as]) /\ kbed' = Kbed("get", NoData)
                  /\ UNCHANGED <<inputVars, handlerVars, unseen>>
dispatchKeyboardData == DispatchTo(mapToTTYKey(kbed.data)) \/ DispatchTo(kbed.data.ch)

\* The process has gone or is of no type, or it has not read and its stream, which does not block,
\* is full.  If it is deleted once it was found, what is left of it may end the dispatcher.
Undelivered == /\ kbed.pc = "dispatch"
               /\ \E pc \in {"get", "dead"} : kbed' = Kbed(pc, NoData)
               /\ unseen' = unseen \cup {kbed.data.n}
               /\ UNCHANGED <<inputVars, handlerVars, given>>

KeyboardInit ==
  /\ keyboard \in {"ps2", "usb"} /\ keys \in KeySets
  /\ held = {} /\ events = <<>> /\ atEvent = 1 /\ pressedKeys = {}
  /\ mods = {} /\ caps = FALSE /\ queue = <<>> /\ irqs = 0 /\ owed = FALSE
  /\ kbed = Kbed("get", NoData)
  /\ session = "none" /\ thrown = FALSE
  /\ given = <<>> /\ unseen = {}

KeyboardNext ==
  \/ \E k \in keys : Touch(k) \/ LetGo(k) \/ Repeat(k)
  \/ Handle \/ NoKey \/ KeyReleased \/ KeyPressed \/ SwitchToSession \/ SessionIsGone \/ Signal \/ EndSession
  \/ GetChar \/ WaitOnInterrupt \/ dispatchKeyboardData \/ Undelivered

KeyboardSpec == KeyboardInit /\ [][KeyboardNext]_keyboardVars

-----------------------------------------------------------------------------
KeyboardTypeOK ==
  /\ held \subseteq keys /\ pressedKeys \subseteq keys
  /\ Len(events) <= MaxEvents + Cardinality(keys) /\ atEvent \in 1 .. Len(events) + 1
  /\ mods \subseteq DOMAIN ModifierKeys /\ caps \in BOOLEAN
  /\ Len(queue) <= QueueSize /\ irqs \in 0 .. Len(events) /\ owed \in BOOLEAN
  /\ kbed.pc \in {"get", "wait", "dispatch", "dead"}
  /\ session \in {"none", "running", "ended"} /\ thrown \in BOOLEAN

\* What the events before one say, without a state: the keys that are down, and Caps Lock.
IsDown(k, n) == \E i \in 1 .. n : /\ events[i] = Down(k)
                                  /\ \A j \in i + 1 .. n : events[j] # Up(k)
CapsOn(n) == Cardinality({i \in 1 .. n : events[i] = Down(CAPS_LOCK)}) % 2 = 1
ModsAt(n) == {m \in DOMAIN ModifierKeys : \E k \in ModifierKeys[m] : IsDown(k, n)}
CharAt(n) == LET k == events[n].key
             IN  IF ~Plain(k) THEN k
                 ELSE IF k \in Letters THEN IF ("shift" \in ModsAt(n)) # CapsOn(n) THEN "A" ELSE "a"
                 ELSE IF "shift" \in ModsAt(n) THEN getShiftKey(k) ELSE k

\* One of two keys of a kind was let go, which counts as both.
HalfReleased(n) == \E i \in 1 .. n, m \in DOMAIN ModifierKeys :
                     /\ events[i].released /\ events[i].key \in ModifierKeys[m]
                     /\ \E k \in ModifierKeys[m] : k # events[i].key /\ IsDown(k, i)

\* Keys get to the processes in the order they were pressed, none twice, and none that was accepted
\* is missing; each is the character that the keys down at that time make of it, and has their
\* modifiers; and the dispatcher does not sleep while there is a key for it.
KeysArriveAsTyped ==
  LET inHand == IF kbed.data.n = 0 THEN <<>> ELSE <<kbed.data>>
      kept == [i \in DOMAIN given |-> given[i].data] \o inHand \o queue
  IN  /\ \A i, j \in DOMAIN kept : i < j => kept[i].n < kept[j].n
      /\ {kept[i].n : i \in DOMAIN kept} \cup unseen
           = {n \in 1 .. atEvent - 1 : ~events[n].released /\ events[n].key # NA_CHAR}
      /\ \A i \in DOMAIN kept : ~HalfReleased(kept[i].n) =>
           kept[i].ch = CharAt(kept[i].n) /\ kept[i].mods = ModsAt(kept[i].n)
      /\ \A i \in DOMAIN given :
           \/ given[i].as = given[i].data.ch
           \/ /\ given[i].as = getCtrlKey(given[i].data.ch)
              /\ "ctrl" \in ModsAt(given[i].data.n)
      /\ kbed.pc = "wait" /\ queue # <<>> => irqs > 0 \/ owed
=============================================================================
