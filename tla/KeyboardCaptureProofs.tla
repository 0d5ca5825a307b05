------------------------- MODULE KeyboardCaptureProofs -------------------------
(***************************************************************************)
(* For any windows, keys, shortcuts and length of SDL's queue: while       *)
(* capture is on and unless the bar has switched it on, no key stays down  *)
(* at the server.  This rests on the order of the queue: a key-down waits  *)
(* in it with the key still held, or with the key-up behind it.            *)
(***************************************************************************)
EXTENDS KeyboardCapture, TLAPS

IsQueue(q) == q \in Seq({q[i] : i \in DOMAIN q})

(* Windows that events name are windows of the session. *)
WindowsKnown ==
  /\ focus \in Somewhere /\ pointer \in Somewhere
  /\ pressed # {} => focus # NoWindow
  /\ \A i \in DOMAIN queue : queue[i].what # "row" => queue[i].win \in Windows

(* The server makes nothing of a key without a scancode. *)
UnmappedNeverDown == server \cap Unmapped = {}

(* Behind a key-down comes its key-up, or the key is still held. *)
UpsFollow ==
  \A i \in DOMAIN queue :
    queue[i].what = "down" =>
      \/ queue[i].key \in pressed
      \/ \E j \in DOMAIN queue : j > i /\ queue[j].what = "up" /\ queue[j].key = queue[i].key

IInv == /\ IsQueue(queue) /\ WindowsKnown /\ UpsFollow
        /\ UnmappedNeverDown /\ NoKeyLeftDown
--------------------------------------------------------------------------------
(* The queue. *)

LEMMA ReleasedByIndex ==
  ASSUME NEW k
  PROVE  k \in ReleasedSoon <=> \E i \in DOMAIN queue : queue[i].what = "up" /\ queue[i].key = k
BY DEF ReleasedSoon, ToSet

LEMMA ReleasedByIndexNext ==
  ASSUME NEW k
  PROVE  k \in ReleasedSoon'
           <=> \E i \in DOMAIN queue' : queue'[i].what = "up" /\ queue'[i].key = k
BY DEF ReleasedSoon, ToSet

LEMMA AnyQueue ==
  ASSUME NEW S, NEW q \in Seq(S)
  PROVE  IsQueue(q)
BY DEF IsQueue

LEMMA Appended ==
  ASSUME NEW q, IsQueue(q), NEW e
  PROVE  /\ IsQueue(Append(q, e))
         /\ DOMAIN q = 1..Len(q) /\ Len(q) \in Nat
         /\ DOMAIN Append(q, e) = 1..(Len(q) + 1)
         /\ \A i \in 1..Len(q) : Append(q, e)[i] = q[i]
         /\ Append(q, e)[Len(q) + 1] = e
<1> DEFINE new == Append(q, e)
           S == {q[i] : i \in DOMAIN q} \cup {e}
<1>1. q \in Seq(S)
  BY DEF IsQueue
<1>2. /\ new \in Seq(S) /\ DOMAIN q = 1..Len(q) /\ Len(q) \in Nat
      /\ DOMAIN new = 1..(Len(q) + 1)
      /\ \A i \in 1..Len(q) : new[i] = q[i]
      /\ new[Len(q) + 1] = e
  BY <1>1
<1>. QED BY <1>2, AnyQueue DEF new

LEMMA Taken ==
  ASSUME NEW q, IsQueue(q), q # << >>
  PROVE  /\ IsQueue(Tail(q))
         /\ DOMAIN q = 1..Len(q) /\ Len(q) \in Nat \ {0}
         /\ DOMAIN Tail(q) = 1..(Len(q) - 1)
         /\ \A i \in 1..(Len(q) - 1) : Tail(q)[i] = q[i + 1]
<1> DEFINE new == Tail(q)
           S == {q[i] : i \in DOMAIN q}
<1>1. q \in Seq(S)
  BY DEF IsQueue
<1>2. /\ new \in Seq(S) /\ DOMAIN q = 1..Len(q) /\ Len(q) \in Nat \ {0}
      /\ DOMAIN new = 1..(Len(q) - 1)
      /\ \A i \in 1..(Len(q) - 1) : new[i] = q[i + 1]
  BY <1>1
<1>. QED BY <1>2, AnyQueue DEF new

(* An event is added: key-downs stay in front of their key-ups if the      *)
(* event and the held keys go together.                                    *)
LEMMA HappensKeeps ==
  ASSUME IInv, NEW e, HappensTo(e),
         focus' \in Somewhere, pointer' \in Somewhere, pressed' # {} => focus' # NoWindow,
         e.what # "row" => e.win \in Windows,
         e.what = "down" => e.key \in pressed',
         pressed \subseteq pressed' \cup (IF e.what = "up" THEN {e.key} ELSE {})
  PROVE  IInv'
<1> USE DEF IInv
<1>1. /\ queue' = Append(queue, e)
      /\ UNCHANGED <<grabKeyboard, server, byBar>>
  BY DEF HappensTo, barVars
<1>2. /\ IsQueue(queue') /\ DOMAIN queue = 1..Len(queue) /\ Len(queue) \in Nat
      /\ DOMAIN queue' = 1..(Len(queue) + 1)
      /\ \A i \in 1..Len(queue) : queue'[i] = queue[i]
      /\ queue'[Len(queue) + 1] = e
  BY <1>1, Appended
<1>3. \A i \in DOMAIN queue' : i = Len(queue) + 1 \/ i \in DOMAIN queue
  BY <1>2
<1>4. DOMAIN queue \subseteq DOMAIN queue' /\ Len(queue) + 1 \in DOMAIN queue'
      /\ \A i \in DOMAIN queue : Len(queue) + 1 > i
  BY <1>2
<1>5. WindowsKnown' /\ UnmappedNeverDown'
  BY <1>1, <1>2, <1>3 DEF WindowsKnown, UnmappedNeverDown
<1>6. UpsFollow'
  <2> SUFFICES ASSUME NEW i \in DOMAIN queue', queue'[i].what = "down",
                      queue'[i].key \notin pressed'
               PROVE  \E j \in DOMAIN queue' :
                        j > i /\ queue'[j].what = "up" /\ queue'[j].key = queue'[i].key
      BY DEF UpsFollow
  <2>1. i \in DOMAIN queue /\ queue'[i] = queue[i]
    BY <1>2, <1>3
  <2>2. CASE queue[i].key \in pressed
    <3>1. e.what = "up" /\ e.key = queue[i].key
      BY <2>1, <2>2
    <3>. QED BY <3>1, <2>1, <1>2, <1>4
  <2>3. CASE queue[i].key \notin pressed
    BY <2>1, <2>3, <1>2, <1>4 DEF UpsFollow
  <2>. QED BY <2>2, <2>3
<1>7. NoKeyLeftDown'
  <2> SUFFICES ASSUME grabKeyboard, ~byBar, NEW k \in server
               PROVE  k \in pressed' \/ k \in ReleasedSoon'
      BY <1>1 DEF NoKeyLeftDown
  <2>1. k \in pressed \/ \E i \in DOMAIN queue : queue[i].what = "up" /\ queue[i].key = k
    BY ReleasedByIndex DEF NoKeyLeftDown
  <2>2. CASE \E i \in DOMAIN queue : queue[i].what = "up" /\ queue[i].key = k
    BY <2>2, <1>2, <1>4, ReleasedByIndexNext
  <2>3. CASE k \in pressed
    <3>1. k \in pressed' \/ (e.what = "up" /\ e.key = k)
      BY <2>3
    <3>. QED BY <3>1, <1>2, <1>4, ReleasedByIndexNext
  <2>. QED BY <2>1, <2>2, <2>3
<1>. QED BY <1>2, <1>5, <1>6, <1>7

(* The first event is handled: what is behind it keeps its order. *)
LEMMA TakesKeeps ==
  ASSUME IInv, NEW what, Takes(what), UNCHANGED person
  PROVE  /\ IsQueue(queue') /\ UpsFollow'
         /\ queue[1].what \in what
         /\ queue[1].what # "row" => queue[1].win \in Windows
         /\ \A i \in DOMAIN queue' : queue'[i].what # "row" => queue'[i].win \in Windows
         /\ queue[1].what = "down" => queue[1].key \in pressed \cup ReleasedSoon'
         /\ \A k \in ReleasedSoon :
              k \in ReleasedSoon' \/ (queue[1].what = "up" /\ queue[1].key = k)
<1> USE DEF IInv
<1>1. queue # << >> /\ queue' = Tail(queue) /\ queue[1].what \in what /\ UNCHANGED pressed
  BY DEF Takes, person
<1>2. /\ IsQueue(queue') /\ DOMAIN queue = 1..Len(queue) /\ Len(queue) \in Nat \ {0}
      /\ DOMAIN queue' = 1..(Len(queue) - 1)
      /\ \A i \in 1..(Len(queue) - 1) : queue'[i] = queue[i + 1]
  BY <1>1, Taken
<1>3. 1 \in DOMAIN queue
  BY <1>2
<1>4. \A i \in DOMAIN queue' : i + 1 \in DOMAIN queue /\ queue'[i] = queue[i + 1]
  BY <1>2
<1>5. \A j \in DOMAIN queue : j > 1 => j - 1 \in DOMAIN queue' /\ queue'[j - 1] = queue[j]
  BY <1>2
<1>6. UpsFollow'
  <2> SUFFICES ASSUME NEW i \in DOMAIN queue', queue'[i].what = "down",
                      queue'[i].key \notin pressed'
               PROVE  \E j \in DOMAIN queue' :
                        j > i /\ queue'[j].what = "up" /\ queue'[j].key = queue'[i].key
      BY DEF UpsFollow
  <2>1. PICK j \in DOMAIN queue :
          j > i + 1 /\ queue[j].what = "up" /\ queue[j].key = queue[i + 1].key
    BY <1>1, <1>4 DEF UpsFollow
  <2>2. j - 1 > i /\ j > 1
    BY <2>1, <1>2
  <2>. QED BY <1>4, <1>5, <2>1, <2>2
<1>7. queue[1].what = "down" => queue[1].key \in pressed \cup ReleasedSoon'
  <2> SUFFICES ASSUME queue[1].what = "down", queue[1].key \notin pressed
               PROVE  queue[1].key \in ReleasedSoon'
      OBVIOUS
  <2>1. PICK j \in DOMAIN queue : j > 1 /\ queue[j].what = "up" /\ queue[j].key = queue[1].key
    BY <1>3 DEF UpsFollow
  <2>. QED BY <1>5, <2>1, ReleasedByIndexNext
<1>8. ASSUME NEW k \in ReleasedSoon, ~(queue[1].what = "up" /\ queue[1].key = k)
      PROVE  k \in ReleasedSoon'
  <2>1. PICK j \in DOMAIN queue : queue[j].what = "up" /\ queue[j].key = k
    BY ReleasedByIndex
  <2>2. j > 1
    BY <1>2, <1>8, <2>1
  <2>. QED BY <1>5, <2>1, <2>2, ReleasedByIndexNext
<1>9. \A i \in DOMAIN queue' : queue'[i].what # "row" => queue'[i].win \in Windows
  BY <1>4 DEF WindowsKnown
<1>. QED BY <1>1, <1>2, <1>3, <1>6, <1>7, <1>8, <1>9 DEF WindowsKnown
--------------------------------------------------------------------------------
(* The actions. *)

LEMMA InitEstablishes == Init => IInv
<1> SUFFICES ASSUME Init PROVE IInv
    OBVIOUS
<1>1. queue = << >> /\ DOMAIN queue = {} /\ IsQueue(queue) /\ UnmappedNeverDown
  BY DEF Init, IsQueue, UnmappedNeverDown
<1>2. WindowsKnown
  BY <1>1, CaptureAssumption DEF Init, WindowsKnown, Somewhere
<1>3. UpsFollow /\ NoKeyLeftDown
  BY <1>1 DEF Init, UpsFollow, NoKeyLeftDown
<1>. QED BY <1>1, <1>2, <1>3 DEF IInv

(* What the person does. *)
LEMMA PersonKeeps ==
  ASSUME IInv,
         \/ \E k \in Keys : PressKey(k) \/ ReleaseKey(k)
         \/ \E w \in Windows : FocusGained(w) \/ PointerEnters(w)
         \/ PointerLeaves
         \/ \E row \in Rows : ClickRow(row)
  PROVE  IInv'
<1> USE DEF Somewhere
<1>0. focus \in Somewhere /\ pointer \in Somewhere /\ (pressed # {} => focus # NoWindow)
      /\ NoWindow \notin Windows
  BY CaptureAssumption DEF IInv, WindowsKnown
<1>1. ASSUME NEW k \in Keys, PressKey(k) PROVE IInv'
  <2> DEFINE e == [what |-> "down", key |-> k, win |-> focus]
  <2>1. /\ HappensTo(e) /\ focus \in Windows /\ UNCHANGED <<focus, pointer>>
        /\ pressed' = pressed \cup {k}
    BY <1>0, <1>1 DEF PressKey
  <2>2. e.what = "down" /\ e.win = focus /\ e.key = k
    OBVIOUS
  <2> HIDE DEF e
  <2>. QED BY <1>0, <2>1, <2>2, HappensKeeps
<1>2. ASSUME NEW k \in Keys, ReleaseKey(k) PROVE IInv'
  <2> DEFINE e == [what |-> "up", key |-> k, win |-> focus]
  <2>1. HappensTo(e) /\ UNCHANGED <<focus, pointer>> /\ pressed' = pressed \ {k}
    BY <1>2 DEF ReleaseKey
  <2>2. e.what = "up" /\ e.win = focus /\ e.key = k
    OBVIOUS
  <2>3. focus \in Windows
    BY <1>0, <1>2 DEF ReleaseKey
  <2> HIDE DEF e
  <2>. QED BY <1>0, <2>1, <2>2, <2>3, HappensKeeps
<1>3. ASSUME NEW w \in Windows, FocusGained(w) PROVE IInv'
  <2> DEFINE e == [what |-> "focus", win |-> w]
  <2>1. HappensTo(e) /\ focus' = w /\ UNCHANGED <<pointer, pressed>>
    BY <1>3 DEF FocusGained
  <2>2. e.what = "focus" /\ e.win = w
    OBVIOUS
  <2> HIDE DEF e
  <2>. QED BY <1>0, <2>1, <2>2, HappensKeeps
<1>4. ASSUME NEW w \in Windows, PointerEnters(w) PROVE IInv'
  <2> DEFINE e == [what |-> "enter", win |-> w]
  <2>1. HappensTo(e) /\ pointer' = w /\ UNCHANGED <<focus, pressed>>
    BY <1>4 DEF PointerEnters
  <2>2. e.what = "enter" /\ e.win = w
    OBVIOUS
  <2> HIDE DEF e
  <2>. QED BY <1>0, <2>1, <2>2, HappensKeeps
<1>5. CASE PointerLeaves
  <2> DEFINE e == [what |-> "leave", win |-> pointer]
  <2>1. /\ HappensTo(e) /\ pointer \in Windows /\ pointer' = NoWindow
        /\ UNCHANGED <<focus, pressed>>
    BY <1>0, <1>5 DEF PointerLeaves
  <2>2. e.what = "leave" /\ e.win = pointer
    OBVIOUS
  <2> HIDE DEF e
  <2>. QED BY <1>0, <2>1, <2>2, HappensKeeps
<1>6. ASSUME NEW row \in Rows, ClickRow(row) PROVE IInv'
  <2> DEFINE e == [what |-> "row", row |-> row]
  <2>1. HappensTo(e) /\ UNCHANGED <<focus, pointer, pressed>>
    BY <1>6 DEF ClickRow, person
  <2>2. e.what = "row"
    OBVIOUS
  <2> HIDE DEF e
  <2>. QED BY <1>0, <2>1, <2>2, HappensKeeps
<1>. QED BY <1>1, <1>2, <1>3, <1>4, <1>5, <1>6

LEMMA FocusLostKeeps ==
  ASSUME IInv, FocusLost
  PROVE  IInv'
<1>1. /\ focus' = NoWindow /\ UNCHANGED <<pointer, pressed, queue, server, byBar,
                                         grabKeyboard>>
  BY DEF FocusLost, barVars
<1>. QED BY <1>1
        DEF IInv, WindowsKnown, Somewhere, UpsFollow, UnmappedNeverDown,
            NoKeyLeftDown, ReleasedSoon, FocusLost

LEMMA KeyKeeps ==
  ASSUME IInv, HandleKey
  PROVE  IInv'
<1> USE DEF IInv
<1>1. /\ Takes({"down", "up"}) /\ UNCHANGED person
      /\ UNCHANGED <<focus, pointer, pressed>>
  BY DEF HandleKey, person, barVars
<1>2. /\ IsQueue(queue') /\ UpsFollow'
      /\ queue[1].what \in {"down", "up"}
      /\ queue[1].what # "row" => queue[1].win \in Windows
      /\ \A i \in DOMAIN queue' : queue'[i].what # "row" => queue'[i].win \in Windows
      /\ queue[1].what = "down" => queue[1].key \in pressed \cup ReleasedSoon'
      /\ \A k \in ReleasedSoon :
           k \in ReleasedSoon' \/ (queue[1].what = "up" /\ queue[1].key = k)
  BY <1>1, TakesKeeps
<1>4. WindowsKnown'
  BY <1>1, <1>2 DEF WindowsKnown
<1>5. CASE IsHotkey(queue[1])
  <2>1. server' = {}
    BY <1>5 DEF HandleKey, Sync
  <2>. QED BY <1>2, <1>4, <2>1 DEF NoKeyLeftDown, UnmappedNeverDown
<1>6. CASE ~IsHotkey(queue[1])
  <2>1. Forward(queue[1]) /\ UNCHANGED <<grabKeyboard, byBar>>
    BY <1>6 DEF HandleKey
  <2>3. NoKeyLeftDown'
    <3> SUFFICES ASSUME grabKeyboard, ~byBar, NEW k \in server'
                 PROVE  k \in pressed \cup ReleasedSoon'
        BY <1>1, <2>1 DEF NoKeyLeftDown
    <3>1. server \subseteq pressed \cup ReleasedSoon
      BY DEF NoKeyLeftDown
    <3>2. CASE k \in server /\ k \in ReleasedSoon /\ queue[1].what = "up" /\ queue[1].key = k
      <4>1. queue[1].key \in Unmapped \/ server' = server \ {k}
        BY <2>1, <3>2 DEF Forward
      <4>. QED BY <3>2, <4>1 DEF UnmappedNeverDown
    <3>3. k \in server \/ (queue[1].what = "down" /\ k = queue[1].key)
      BY <2>1 DEF Forward
    <3>. QED BY <1>2, <3>1, <3>2, <3>3
  <2>4. UnmappedNeverDown'
    BY <2>1 DEF UnmappedNeverDown, Forward
  <2>. QED BY <1>2, <1>4, <2>3, <2>4
<1>. QED BY <1>5, <1>6

(* Events of the pointer and the focus, and the bar's rows. *)
LEMMA OtherKeeps ==
  ASSUME IInv, HandleLeave \/ HandleEnter \/ HandleFocus \/ HandleRow
  PROVE  IInv'
<1> USE DEF IInv
<1> DEFINE first == queue[1]
<1>1. UNCHANGED person /\ UNCHANGED <<focus, pointer, pressed>>
  BY DEF HandleLeave, HandleEnter, HandleFocus, HandleRow, person
<1>2. PICK what \in {{"leave"}, {"enter"}, {"focus"}, {"row"}} :
        /\ Takes(what)
        /\ what = {"leave"} => HandleLeave
        /\ what = {"enter"} => HandleEnter
        /\ what = {"focus"} => HandleFocus
        /\ what = {"row"} => HandleRow
  <2>1. CASE HandleLeave
    BY <2>1 DEF HandleLeave
  <2>2. CASE HandleEnter
    BY <2>2 DEF HandleEnter
  <2>3. CASE HandleFocus
    BY <2>3 DEF HandleFocus
  <2>4. CASE HandleRow
    BY <2>4 DEF HandleRow
  <2>. QED BY <2>1, <2>2, <2>3, <2>4
<1>3. /\ IsQueue(queue') /\ UpsFollow'
      /\ first.what \in what
      /\ first.what # "row" => first.win \in Windows
      /\ \A i \in DOMAIN queue' : queue'[i].what # "row" => queue'[i].win \in Windows
      /\ \A k \in ReleasedSoon :
           k \in ReleasedSoon' \/ (first.what = "up" /\ first.key = k)
  BY <1>1, <1>2, TakesKeeps
<1>4. first.what # "up"
  BY <1>2, <1>3
<1>5. ReleasedSoon \subseteq ReleasedSoon'
  BY <1>3, <1>4
<1>6. CASE what = {"leave"}
  <2>1. ~grabKeyboard' /\ UNCHANGED <<server, byBar>>
    BY <1>2, <1>6 DEF HandleLeave, KeyboardGrab, barVars
  <2>. QED BY <1>1, <1>3, <2>1 DEF WindowsKnown, UnmappedNeverDown, NoKeyLeftDown
<1>7. CASE what = {"enter"}
  <2>1. server' = {}
    BY <1>2, <1>7 DEF HandleEnter, Sync
  <2>. QED BY <1>1, <1>3, <2>1 DEF WindowsKnown, UnmappedNeverDown, NoKeyLeftDown
<1>8. CASE what = {"focus"}
  <2>1. server' = {} /\ UNCHANGED grabKeyboard
    BY <1>2, <1>8 DEF HandleFocus, Sync, barVars
  <2>. QED BY <1>1, <1>3, <2>1 DEF WindowsKnown, UnmappedNeverDown, NoKeyLeftDown
<1>9. CASE what = {"row"}
  <2>1. UNCHANGED server
    BY <1>2, <1>9 DEF HandleRow
  <2>2. CASE first.row = "capture"
    <3>1. byBar' = (byBar \/ grabKeyboard')
      BY <1>2, <1>9, <2>2 DEF HandleRow
    <3>2. NoKeyLeftDown'
      BY <3>1 DEF NoKeyLeftDown
    <3>. QED BY <1>1, <1>3, <2>1, <3>2 DEF WindowsKnown, UnmappedNeverDown
  <2>3. CASE first.row # "capture"
    <3>1. UNCHANGED <<grabKeyboard, byBar>>
      BY <1>2, <1>9, <2>3 DEF HandleRow
    <3>. QED BY <1>1, <1>3, <1>5, <2>1, <3>1
            DEF WindowsKnown, UnmappedNeverDown, NoKeyLeftDown
  <2>. QED BY <2>2, <2>3
<1>. QED BY <1>6, <1>7, <1>8, <1>9

LEMMA QuietKeeps ==
  ASSUME IInv, SetIndicators \/ UNCHANGED vars
  PROVE  IInv'
<1>1. UNCHANGED <<pointer, focus, pressed, queue, grabKeyboard, server, byBar>>
  BY DEF SetIndicators, vars, person, barVars
<1>. QED BY <1>1
        DEF IInv, WindowsKnown, UpsFollow, UnmappedNeverDown, NoKeyLeftDown,
            ReleasedSoon

(* The inductive invariant of capture, queue and server. *)
THEOREM CaptureInvariant == Spec => []IInv
<1>1. ASSUME IInv, [Next]_vars PROVE IInv'
  BY <1>1, PersonKeeps, FocusLostKeeps, KeyKeeps, OtherKeeps, QuietKeeps DEF Next
<1>. QED BY <1>1, InitEstablishes, PTL DEF Spec

(* No key is left down at the server while capture is on, but for what the *)
(* bar switched on.                                                        *)
THEOREM CaptureLeavesNoKeyDown == Spec => []NoKeyLeftDown
<1>1. IInv => NoKeyLeftDown
  BY DEF IInv
<1>. QED BY <1>1, CaptureInvariant, PTL
--------------------------------------------------------------------------------
(* Types. *)

Flags ==
  /\ mods \in BOOLEAN /\ kbdEnabled \in BOOLEAN /\ hotkeysEnabled \in BOOLEAN
  /\ captureLabel \in BOOLEAN /\ shortcutsLabel \in BOOLEAN /\ byBar \in BOOLEAN
  /\ grabKeyboard \in BOOLEAN

Places ==
  /\ pointer \in Somewhere /\ focus \in Somewhere

Held == pressed \subseteq Keys /\ server \subseteq Keys \ Unmapped

Queued == queue \in Seq(Events) /\ Len(queue) <= MaxQueue

LEMMA EventAdded ==
  ASSUME Queued, NEW e \in Events, HappensTo(e)
  PROVE  Queued'
<1>1. queue' \in Seq(Events) /\ Len(queue') = Len(queue) + 1 /\ Len(queue) \in Nat
  BY DEF Queued, HappensTo
<1>. QED BY <1>1, CaptureAssumption DEF Queued, HappensTo

(* The kind of an event tells what else is in it. *)
LEMMA EventShapes ==
  ASSUME NEW e \in Events
  PROVE  /\ e.what \in {"down", "up"} => e.key \in Keys
         /\ e.what \in {"down", "up", "enter", "leave", "focus"} => e.win \in Windows
<1>1. CASE e \in KeyEvents
  BY <1>1 DEF KeyEvents
<1>2. CASE e \in [what : {"enter", "leave", "focus"}, win : Windows]
  BY <1>2
<1>3. CASE e \in [what : {"row"}, row : Rows]
  BY <1>3
<1>. QED BY <1>1, <1>2, <1>3 DEF Events

LEMMA FirstTaken ==
  ASSUME Queued, NEW what, Takes(what)
  PROVE  Queued' /\ queue[1] \in Events /\ queue[1].what \in what
<1>1. queue # << >> /\ queue' = Tail(queue) /\ queue[1].what \in what
  BY DEF Takes
<1>2. /\ queue' \in Seq(Events) /\ Len(queue') = Len(queue) - 1 /\ Len(queue) \in Nat
      /\ queue[1] \in Events
  BY <1>1 DEF Queued
<1>. QED BY <1>1, <1>2, CaptureAssumption DEF Queued

LEMMA PersonTyped ==
  ASSUME IInv, Flags, Places, Held, Queued,
         \/ \E k \in Keys : PressKey(k) \/ ReleaseKey(k)
         \/ \E w \in Windows : FocusGained(w) \/ PointerEnters(w)
         \/ PointerLeaves
         \/ \E row \in Rows : ClickRow(row)
  PROVE  Flags' /\ Places' /\ Held' /\ Queued'
<1> USE DEF Flags, Places, Held
<1>1. ASSUME NEW e, HappensTo(e)
      PROVE  UNCHANGED <<kbdEnabled, grabKeyboard, hotkeysEnabled,
                         captureLabel, shortcutsLabel, server, byBar>>
  BY <1>1 DEF HappensTo, barVars
<1>2. ASSUME NEW k \in Keys, PressKey(k) PROVE Flags' /\ Places' /\ Held' /\ Queued'
  <2> DEFINE e == [what |-> "down", key |-> k, win |-> focus]
  <2>1. e \in Events
    BY <1>2 DEF PressKey, Somewhere, Events, KeyEvents
  <2>2. HappensTo(e)
    BY <1>2 DEF PressKey
  <2> HIDE DEF e
  <2>3. Queued'
    BY <2>1, <2>2, EventAdded
  <2>4. /\ mods' \in BOOLEAN /\ pressed' = pressed \cup {k}
        /\ UNCHANGED <<pointer, focus>>
    BY <1>2 DEF PressKey
  <2>. QED BY <1>1, <2>2, <2>3, <2>4
<1>3. ASSUME NEW k \in Keys, ReleaseKey(k) PROVE Flags' /\ Places' /\ Held' /\ Queued'
  <2> DEFINE e == [what |-> "up", key |-> k, win |-> focus]
  <2>1. focus \in Windows
    BY <1>3 DEF ReleaseKey, IInv, WindowsKnown, Somewhere
  <2>2. e \in Events
    BY <2>1 DEF Events, KeyEvents
  <2>3. HappensTo(e)
    BY <1>3 DEF ReleaseKey
  <2> HIDE DEF e
  <2>4. Queued'
    BY <2>2, <2>3, EventAdded
  <2>5. /\ mods' \in BOOLEAN /\ pressed' = pressed \ {k}
        /\ UNCHANGED <<pointer, focus>>
    BY <1>3 DEF ReleaseKey
  <2>. QED BY <1>1, <2>3, <2>4, <2>5
<1>4. ASSUME NEW w \in Windows, FocusGained(w) PROVE Flags' /\ Places' /\ Held' /\ Queued'
  <2> DEFINE e == [what |-> "focus", win |-> w]
  <2>1. e \in Events /\ HappensTo(e)
    BY <1>4 DEF FocusGained, Events
  <2> HIDE DEF e
  <2>2. focus' = w /\ UNCHANGED <<pointer, pressed, mods>>
    BY <1>4 DEF FocusGained
  <2>. QED BY <1>1, <2>1, <2>2, EventAdded DEF Somewhere
<1>5. ASSUME NEW w \in Windows, PointerEnters(w) PROVE Flags' /\ Places' /\ Held' /\ Queued'
  <2> DEFINE e == [what |-> "enter", win |-> w]
  <2>1. e \in Events /\ HappensTo(e)
    BY <1>5 DEF PointerEnters, Events
  <2> HIDE DEF e
  <2>2. pointer' = w /\ UNCHANGED <<focus, pressed, mods>>
    BY <1>5 DEF PointerEnters
  <2>. QED BY <1>1, <2>1, <2>2, EventAdded DEF Somewhere
<1>6. CASE PointerLeaves
  <2> DEFINE e == [what |-> "leave", win |-> pointer]
  <2>1. e \in Events /\ HappensTo(e)
    BY <1>6 DEF PointerLeaves, Somewhere, Events
  <2> HIDE DEF e
  <2>2. pointer' = NoWindow /\ UNCHANGED <<focus, pressed, mods>>
    BY <1>6 DEF PointerLeaves
  <2>. QED BY <1>1, <2>1, <2>2, EventAdded DEF Somewhere
<1>7. ASSUME NEW row \in Rows, ClickRow(row) PROVE Flags' /\ Places' /\ Held' /\ Queued'
  <2> DEFINE e == [what |-> "row", row |-> row]
  <2>1. e \in Events /\ HappensTo(e)
    BY <1>7 DEF ClickRow, Events
  <2> HIDE DEF e
  <2>2. UNCHANGED <<pointer, focus, pressed, mods>>
    BY <1>7 DEF ClickRow, person
  <2>. QED BY <1>1, <2>1, <2>2, EventAdded
<1>. QED BY <1>2, <1>3, <1>4, <1>5, <1>6, <1>7

LEMMA HandlersTyped ==
  ASSUME Flags, Places, Held, Queued,
         HandleKey \/ HandleLeave \/ HandleEnter \/ HandleFocus \/ HandleRow
  PROVE  Flags' /\ Places' /\ Held' /\ Queued'
<1> USE DEF Flags, Places, Held
<1> DEFINE first == queue[1]
<1>1. CASE HandleKey
  <2>1. Takes({"down", "up"}) /\ UNCHANGED <<person, kbdEnabled, hotkeysEnabled, barVars>>
    BY <1>1 DEF HandleKey
  <2>2. Queued' /\ first.key \in Keys
    BY <2>1, FirstTaken, EventShapes
  <2>3. KeyboardGrab(~grabKeyboard) \/ UNCHANGED grabKeyboard
    BY <1>1 DEF HandleKey
  <2>4. grabKeyboard' \in BOOLEAN
    BY <2>3 DEF KeyboardGrab
  <2>5. (server' = {} /\ byBar' = FALSE) \/ (Forward(first) /\ UNCHANGED byBar)
    BY <1>1 DEF HandleKey, Sync
  <2>6. server' \subseteq Keys \ Unmapped /\ byBar' \in BOOLEAN
    BY <2>2, <2>5 DEF Forward
  <2>. QED BY <2>1, <2>2, <2>4, <2>6 DEF person, barVars
<1>2. CASE HandleLeave
  <2>1. /\ Takes({"leave"}) /\ KeyboardGrab(FALSE)
        /\ UNCHANGED <<person, kbdEnabled, hotkeysEnabled, barVars, server, byBar>>
    BY <1>2 DEF HandleLeave
  <2>2. Queued'
    BY <2>1, FirstTaken
  <2>3. grabKeyboard' \in BOOLEAN
    BY <2>1 DEF KeyboardGrab
  <2>. QED BY <2>1, <2>2, <2>3 DEF person, barVars
<1>3. CASE HandleEnter
  <2>1. /\ Takes({"enter"}) /\ KeyboardGrab(TRUE) /\ server' = {} /\ byBar' = FALSE
        /\ UNCHANGED <<person, kbdEnabled, hotkeysEnabled, barVars>>
    BY <1>3 DEF HandleEnter, Sync
  <2>2. Queued'
    BY <2>1, FirstTaken
  <2>3. grabKeyboard' \in BOOLEAN
    BY <2>1 DEF KeyboardGrab
  <2>. QED BY <2>1, <2>2, <2>3 DEF person, barVars
<1>4. CASE HandleFocus
  <2>1. /\ Takes({"focus"}) /\ server' = {} /\ byBar' = FALSE
        /\ UNCHANGED <<person, kbdEnabled, grabKeyboard, hotkeysEnabled, barVars>>
    BY <1>4 DEF HandleFocus, Sync
  <2>2. Queued'
    BY <2>1, FirstTaken
  <2>. QED BY <2>1, <2>2 DEF person, barVars
<1>5. CASE HandleRow
  <2>1. Takes({"row"}) /\ UNCHANGED <<person, kbdEnabled, server>>
    BY <1>5 DEF HandleRow
  <2>2. Queued'
    BY <2>1, FirstTaken
  <2>3. KeyboardGrab(~grabKeyboard) \/ UNCHANGED grabKeyboard
    BY <1>5 DEF HandleRow
  <2>4. grabKeyboard' \in BOOLEAN
    BY <2>3 DEF KeyboardGrab
  <2>5. /\ hotkeysEnabled' \in BOOLEAN /\ captureLabel' \in BOOLEAN
        /\ shortcutsLabel' \in BOOLEAN /\ byBar' \in BOOLEAN
    BY <1>5, <2>4 DEF HandleRow
  <2>. QED BY <2>1, <2>2, <2>4, <2>5 DEF person
<1>. QED BY <1>1, <1>2, <1>3, <1>4, <1>5

(* Every variable of capture keeps its type, and SDL's queue its bound.    *)
THEOREM CaptureTypeCorrect == Spec => []TypeOK
<1>1. ASSUME IInv, TypeOK, [Next]_vars PROVE TypeOK'
  <2>1. Flags /\ Places /\ Held /\ Queued
    BY <1>1 DEF TypeOK, Flags, Places, Held, Queued
  <2>2. CASE FocusLost \/ SetIndicators \/ UNCHANGED vars
    <3>1. /\ focus' \in {focus, NoWindow} /\ mods' \in {mods, FALSE}
          /\ UNCHANGED <<pointer, pressed, queue, kbdEnabled, grabKeyboard,
                         hotkeysEnabled, captureLabel, shortcutsLabel, server, byBar>>
      BY <2>2 DEF FocusLost, SetIndicators, vars, person, barVars
    <3>. QED BY <2>1, <3>1 DEF TypeOK, Flags, Places, Held, Queued, Somewhere
  <2>3. CASE ~(FocusLost \/ SetIndicators \/ UNCHANGED vars)
    <3>1. Flags' /\ Places' /\ Held' /\ Queued'
      BY <1>1, <2>1, <2>3, PersonTyped, HandlersTyped DEF Next
    <3>. QED BY <3>1 DEF TypeOK, Flags, Places, Held, Queued
  <2>. QED BY <2>2, <2>3
<1>2. Init => TypeOK
  <2> SUFFICES ASSUME Init PROVE TypeOK
      OBVIOUS
  <2>1. Flags
    BY DEF Init, Flags
  <2>2. Places /\ Held
    BY CaptureAssumption DEF Init, Places, Held, Somewhere
  <2>3. Queued
    BY CaptureAssumption DEF Init, Queued
  <2>. QED BY <2>1, <2>2, <2>3 DEF TypeOK, Flags, Places, Held, Queued
<1>. QED BY <1>1, <1>2, CaptureInvariant, PTL DEF Spec
================================================================================
