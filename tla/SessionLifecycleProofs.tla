----------------------- MODULE SessionLifecycleProofs -----------------------
(***************************************************************************)
(* Proofs about SessionLifecycle, for every value of its constants: the    *)
(* session only goes on with windows to draw on, and the two threads keep  *)
(* the order in which SessionContract creates and releases the windows and *)
(* the frame buffer.                                                       *)
(***************************************************************************)
EXTENDS SessionLifecycle, WellFoundedInduction, TLAPS

\* The RDP thread is past the wait for the windows.
PastWindows ==
  \/ rdpPc \in {"gdi", "floatbar", "run", "painted", "reconnect"}
  \/ rdpPc = "await" /\ resume # "connect"

\* ... and past setConnected(true).
PastConnected == PastWindows /\ rdpPc # "gdi"

Scalars ==
  /\ mainPc \in MainPcs /\ rdpPc \in RdpPcs
  /\ resume \in {"connect", "run", "reconnect"}
  /\ abort \in BOOLEAN /\ connected \in BOOLEAN /\ gdi \in BOOLEAN /\ windows \in BOOLEAN
  /\ windowsCreatedEvent \in BOOLEAN

\* Both the event and the thread that was woken by it stand for windows, unless
\* the exception of a failed createWindows() takes the main thread out.
EventTellsWindows == windowsCreatedEvent => windows \/ MainLeaving
WindowsForSession == PastWindows => windows \/ MainLeaving

ConnectedHasBuffer == connected => gdi /\ (PastConnected \/ rdpPc = "disconnect")
BufferIsOwned == gdi => connected \/ rdpPc \in {"disconnect", "gdiFree"}
DisconnectAborts == rdpPc \in {"gdiFree", "cleanup", "ended"} => abort /\ ~connected
DoneIsLast == mainPc = "done" => rdpPc = "ended"

\* Only the teardown can take the buffer from a thread that is about to draw.
DrawingWasConnected ==
  mainPc \in {"drawMore", "drawLast"} => connected \/ rdpPc \in {"gdiFree", "cleanup", "ended"}

IInv ==
  /\ Scalars /\ EventTellsWindows /\ WindowsForSession /\ ConnectedHasBuffer /\ BufferIsOwned
  /\ DisconnectAborts /\ DoneIsLast /\ DrawingWasConnected

\* Nothing has happened when the program starts.
LEMMA InitIInv == Init => IInv
  BY DEF Init, IInv, Scalars, EventTellsWindows, WindowsForSession, ConnectedHasBuffer,
         BufferIsOwned, DisconnectAborts, DoneIsLast, DrawingWasConnected, MainPcs, RdpPcs,
         PastWindows, PastConnected

\* Every step keeps the invariant.  Each conjunct relates program counters,
\* flags and resources only, so a step is checked against all of them at once.
LEMMA NextIInv == IInv /\ [Next]_vars => IInv'
<1> SUFFICES ASSUME IInv, [Next]_vars PROVE IInv'
  OBVIOUS
<1> USE DEF IInv, Scalars, EventTellsWindows, WindowsForSession, ConnectedHasBuffer, BufferIsOwned,
            DisconnectAborts, DoneIsLast, DrawingWasConnected, PastWindows, PastConnected,
            MainLeaving, MainPcs, RdpPcs, vars, mainVars, rdpVars, sharedVars
<1>1. CASE PollEvent
  BY <1>1 DEF PollEvent
<1>2. CASE EventGone
  BY <1>2 DEF EventGone
<1>3. CASE LeaveLoop
  BY <1>3 DEF LeaveLoop
<1>4. CASE HandleWindowEvent
  BY <1>4 DEF HandleWindowEvent, Handling, Throw
<1>5. CASE HandleInput
  BY <1>5 DEF HandleInput, Handling, Throw
<1>6. CASE HandleQuit
  BY <1>6 DEF HandleQuit
<1>7. CASE HandleUpdate
  BY <1>7 DEF HandleUpdate, Handling
<1>8. CASE PopRectangles
  BY <1>8 DEF PopRectangles
<1>9. CASE DrawToWindow
  BY <1>9 DEF DrawToWindow
<1>10. CASE HandleCreateWindows
  BY <1>10 DEF HandleCreateWindows, Handling, Throw
<1>11. CASE HandleConfigureFloatbar
  BY <1>11 DEF HandleConfigureFloatbar, Handling, Throw
<1>12. CASE ShowDialog
  BY <1>12 DEF ShowDialog, Handling
<1>13. CASE FormTakesEvent
  BY <1>13 DEF FormTakesEvent
<1>14. CASE Stop
  BY <1>14 DEF Stop
<1>15. CASE Join
  BY <1>15 DEF Join
<1>16. CASE RdpThreadStarts
  BY <1>16 DEF RdpThreadStarts, At
<1>17. CASE TakeResult
  BY <1>17 DEF TakeResult, At
<1>18. CASE GiveUpOnResult
  BY <1>18 DEF GiveUpOnResult, At
<1>19. CASE WindowsCreated
  BY <1>19 DEF WindowsCreated, At
<1>20. CASE WindowsAborted
  BY <1>20 DEF WindowsAborted, At
<1>21. CASE ConfigureFloatbar
  BY <1>21 DEF ConfigureFloatbar, At
<1>22. CASE FloatbarConfigured
  BY <1>22 DEF FloatbarConfigured, At
<1>23. CASE PushUpdate
  BY <1>23 DEF PushUpdate, At
<1>24. CASE PostDisconnect
  BY <1>24 DEF PostDisconnect, At
<1>25. CASE GdiFree
  BY <1>25 DEF GdiFree, At
<1>26. CASE ClientCleanup
  BY <1>26 DEF ClientCleanup, At
<1>27. CASE LoginStarts
  BY <1>27 DEF LoginStarts, At
<1>28. CASE EndPaint
  BY <1>28 DEF EndPaint, At
<1>29. CASE ConnectionLost
  BY <1>29 DEF ConnectionLost, At
<1>30. CASE Reconnected
  BY <1>30 DEF Reconnected, At
<1>31. CASE WaitForWindowsCreated
  BY <1>31 DEF WaitForWindowsCreated, At
<1>32. CASE AnswerDialog
  BY <1>32 DEF AnswerDialog
<1>33. CASE ConnectFails
  BY <1>33 DEF ConnectFails
<1>34. CASE LeaveRun
  BY <1>34 DEF LeaveRun, At
<1>35. CASE GdiFails
  BY <1>35 DEF GdiFails, At
<1>36. CASE LoginEnds
  BY <1>36 DEF LoginEnds, At
<1>37. ASSUME NEW k \in Kinds, AskQuestion(k) PROVE IInv'
  BY <1>37 DEF AskQuestion
<1>38. ASSUME NEW t \in UserEventTypes, UserActs(t) PROVE IInv'
  BY <1>38 DEF UserActs
<1>39. CASE UNCHANGED vars
  BY <1>39
<1> QED
  BY <1>1, <1>2, <1>3, <1>4, <1>5, <1>6, <1>7, <1>8, <1>9, <1>10, <1>11, <1>12, <1>13,
     <1>14, <1>15, <1>16, <1>17, <1>18, <1>19, <1>20, <1>21, <1>22, <1>23, <1>24, <1>25,
     <1>26, <1>27, <1>28, <1>29, <1>30, <1>31, <1>32, <1>33, <1>34, <1>35, <1>36, <1>37,
     <1>38, <1>39
     DEF Next, MainStep, RdpStep, ServerStep, RdpGivesUp

\* The invariant holds in every reachable state.
THEOREM SessionInvariant == Spec => []IInv
  BY InitIInv, NextIInv, PTL DEF Spec

\* postConnect() goes on only with windows, whatever the order of the abort, a
\* failed creation and the manual-reset event.
THEOREM SessionWindowsReady == Spec => []WindowsReady
<1>1. IInv => WindowsReady
  BY DEF IInv, WindowsForSession, PastWindows, WindowsReady
<1> QED
  BY <1>1, SessionInvariant, PTL

-----------------------------------------------------------------------------
(* The refinement of SessionContract                                       *)

\* A step that creates and releases nothing, and may start the teardown.
LEMMA QuietStep ==
  ASSUME Resources' = Resources,
         Phase' = Phase \/ (Phase \in {"starting", "established"} /\ Phase' = "closing")
  PROVE  Contract!Next \/ UNCHANGED Contract!vars
  BY DEF Contract!Next, Contract!Close, Contract!vars

\* A step that creates something.
LEMMA AcquiringStep ==
  ASSUME Resources \subseteq Resources',
         \/ Phase' = Phase /\ Phase \in {"starting", "closing"}
         \/ Phase \in {"starting", "established"} /\ Phase' = "closing"
  PROVE  Contract!Next
<1>1. CASE Phase' = Phase /\ Phase \in {"starting", "closing"}
  <2>1. Resources' \in SUBSET Contract!Resource
    BY DEF Resources, Contract!Resource
  <2>2. Resources' = Resources \cup Resources'
    OBVIOUS
  <2> QED
    BY <1>1, <2>1, <2>2 DEF Contract!Next, Contract!Acquire
<1>2. CASE Phase \in {"starting", "established"} /\ Phase' = "closing"
  BY <1>2 DEF Contract!Next, Contract!Close
<1> QED
  BY <1>1, <1>2

\* The initial states correspond.
LEMMA InitContract == Init => Contract!Init
  BY DEF Init, Contract!Init, Phase, TearingDown, Resources

\* Every step is a step of the contract or is invisible to it.
LEMMA NextContract == IInv /\ [Next]_vars => (Contract!Next \/ UNCHANGED Contract!vars)
<1> SUFFICES ASSUME IInv, [Next]_vars PROVE Contract!Next \/ UNCHANGED Contract!vars
  OBVIOUS
<1> DEFINE Quiet ==
      /\ Resources' = Resources
      /\ Phase' = Phase \/ (Phase \in {"starting", "established"} /\ Phase' = "closing")
<1>1. Quiet => (Contract!Next \/ UNCHANGED Contract!vars)
  BY QuietStep
<1> USE DEF IInv, Scalars, EventTellsWindows, WindowsForSession, ConnectedHasBuffer, BufferIsOwned,
            DisconnectAborts, DoneIsLast, DrawingWasConnected, PastWindows, PastConnected,
            MainLeaving, MainPcs, RdpPcs, vars, mainVars, rdpVars, sharedVars, Phase, TearingDown
<1>2. PollEvent => Quiet
  BY DEF PollEvent, Resources
<1>3. EventGone => Quiet
  BY DEF EventGone, Resources
<1>4. LeaveLoop => Quiet
  BY DEF LeaveLoop, Resources
<1>5. HandleWindowEvent => Quiet
  BY DEF HandleWindowEvent, Handling, Throw, Resources
<1>6. HandleInput => Quiet
  BY DEF HandleInput, Handling, Throw, Resources
<1>7. HandleQuit => Quiet
  BY DEF HandleQuit, Resources
<1>8. HandleUpdate => Quiet
  BY DEF HandleUpdate, Handling, Resources
<1>9. PopRectangles => Quiet
  BY DEF PopRectangles, Resources
<1>10. HandleConfigureFloatbar => Quiet
  BY DEF HandleConfigureFloatbar, Handling, Throw, Resources
<1>11. ShowDialog => Quiet
  BY DEF ShowDialog, Handling, Resources
<1>12. FormTakesEvent => Quiet
  BY DEF FormTakesEvent, Resources
<1>13. Stop => Quiet
  BY DEF Stop, Resources
<1>14. RdpThreadStarts => Quiet
  BY DEF RdpThreadStarts, At, Resources
<1>15. TakeResult => Quiet
  BY DEF TakeResult, At, Resources
<1>16. GiveUpOnResult => Quiet
  BY DEF GiveUpOnResult, At, Resources
<1>17. WindowsCreated => Quiet
  BY DEF WindowsCreated, At, Resources
<1>18. WindowsAborted => Quiet
  BY DEF WindowsAborted, At, Resources
<1>19. FloatbarConfigured => Quiet
  BY DEF FloatbarConfigured, At, Resources
<1>20. PushUpdate => Quiet
  BY DEF PushUpdate, At, Resources
<1>21. ClientCleanup => Quiet
  BY DEF ClientCleanup, At, Resources
<1>22. LoginStarts => Quiet
  BY DEF LoginStarts, At, Resources
<1>23. EndPaint => Quiet
  BY DEF EndPaint, At, Resources
<1>24. ConnectionLost => Quiet
  BY DEF ConnectionLost, At, Resources
<1>25. Reconnected => Quiet
  BY DEF Reconnected, At, Resources
<1>26. WaitForWindowsCreated => Quiet
  BY DEF WaitForWindowsCreated, At, Resources
<1>27. AnswerDialog => Quiet
  BY DEF AnswerDialog, Resources
<1>28. ConnectFails => Quiet
  BY DEF ConnectFails, Resources
<1>29. LeaveRun => Quiet
  BY DEF LeaveRun, At, Resources
<1>30. LoginEnds => Quiet
  BY DEF LoginEnds, At, Resources
<1>31. PostDisconnect => Quiet
  BY DEF PostDisconnect, At, Resources
<1>32. ASSUME NEW k \in Kinds, AskQuestion(k) PROVE Quiet
  BY <1>32 DEF AskQuestion, Resources
<1>33. ASSUME NEW t \in UserEventTypes, UserActs(t) PROVE Quiet
  BY <1>33 DEF UserActs, Resources
<1>34. UNCHANGED vars => Quiet
  BY DEF Resources
\* The buffer is gone only in the teardown, so the crash ends a session that closes.
<1>35. CASE DrawToWindow
  <2>1. CASE gdi
    <3>1. Quiet
      BY <1>35, <2>1 DEF DrawToWindow, Resources
    <3> QED
      BY <3>1, <1>1
  <2>2. CASE ~gdi
    <3>1. Phase = "closing" /\ Phase' = "closed" /\ Resources' = Resources /\ "gdi" \notin Resources
      BY <1>35, <2>2 DEF DrawToWindow, Resources
    <3> QED
      BY <3>1 DEF Contract!Next, Contract!End
  <2> QED
    BY <2>1, <2>2
<1>36. CASE HandleCreateWindows
  <2>1. CASE windows' = TRUE /\ mainPc' = "poll"
    <3>1. Resources \subseteq Resources' /\ Phase' = Phase
      BY <1>36, <2>1 DEF HandleCreateWindows, Handling, Resources
    <3>2. Phase \in {"starting", "established", "closing"}
      BY <1>36 DEF HandleCreateWindows, Handling
    <3>3. Phase = "established" => Quiet
      BY <1>36, <2>1 DEF HandleCreateWindows, Handling, Resources
    <3> QED
      BY <3>1, <3>2, <3>3, <1>1, AcquiringStep
  <2>2. CASE Throw("createWindows") /\ UNCHANGED windows
    <3>1. Quiet
      BY <1>36, <2>2 DEF HandleCreateWindows, Handling, Throw, Resources
    <3> QED
      BY <3>1, <1>1
  <2> QED
    BY <1>36, <2>1, <2>2 DEF HandleCreateWindows
\* The step that establishes a session finds the windows.
<1>37. CASE ConfigureFloatbar
  <2>1. CASE TearingDown
    <3>1. Phase = "closing" /\ Phase' = Phase /\ Resources \subseteq Resources'
      BY <1>37, <2>1 DEF ConfigureFloatbar, At, Resources
    <3> QED
      BY <3>1, AcquiringStep
  <2>2. CASE ~TearingDown
    <3>1. Phase = "starting" /\ Phase' = "established" /\ windows /\ windows' /\ gdi'
      BY <1>37, <2>2 DEF ConfigureFloatbar, At
    <3>2. "windows" \in Resources /\ Resources' = Contract!Resource
      BY <3>1 DEF Resources, Contract!Resource
    <3> QED
      BY <3>1, <3>2 DEF Contract!Next, Contract!Establish
  <2> QED
    BY <2>1, <2>2
<1>38. CASE GdiFails
  <2>1. Resources \subseteq Resources'
    BY <1>38 DEF GdiFails, At, Resources
  <2>2. Phase \in {"starting", "closing"} /\ Phase' = "closing"
    BY <1>38 DEF GdiFails, At
  <2> QED
    BY <2>1, <2>2, AcquiringStep
<1>39. CASE GdiFree
  <2>1. Phase = "closing" /\ Phase' = Phase /\ Resources' = Resources \ {"gdi"}
    BY <1>39 DEF GdiFree, At, Resources
  <2> QED
    BY <2>1 DEF Contract!Next, Contract!Release
\* The windows go when the RDP thread has ended, after its buffer.
<1>40. CASE Join
  <2>1. Phase = "closing" /\ Phase' = "closed" /\ "gdi" \notin Resources
    BY <1>40 DEF Join, Resources
  <2>2. Resources' \subseteq Resources
    BY <1>40 DEF Join, Resources
  <2> QED
    BY <2>1, <2>2 DEF Contract!Next, Contract!End
<1> QED
  BY <1>1, <1>2, <1>3, <1>4, <1>5, <1>6, <1>7, <1>8, <1>9, <1>10, <1>11, <1>12, <1>13,
     <1>14, <1>15, <1>16, <1>17, <1>18, <1>19, <1>20, <1>21, <1>22, <1>23, <1>24, <1>25,
     <1>26, <1>27, <1>28, <1>29, <1>30, <1>31, <1>32, <1>33, <1>34, <1>35, <1>36, <1>37,
     <1>38, <1>39, <1>40
     DEF Next, MainStep, RdpStep, ServerStep, RdpGivesUp

\* The two threads keep the safety part of the contract: a session is only
\* established with windows and buffer, and is closed after the buffer is freed.
THEOREM SessionKeepsContract == Spec => Contract!Safe
  BY SessionInvariant, InitContract, NextContract, PTL DEF Spec, Contract!Safe

-----------------------------------------------------------------------------
(* What Select() returns.  A recursive function on a finite interval exists  *)
(* and is known by its recursion; both facts are shown by looking at the     *)
(* least argument that would refute them.                                    *)

NatBelow == {ss \in Nat \X Nat : ss[1] < ss[2]}

LEMMA BelowIsWellFounded == IsWellFoundedOn(NatBelow, Nat)
BY NatLessThanWellFounded, Zenon DEF OpToRel, NatBelow

LEMMA LeastNat ==
  ASSUME NEW T, T \subseteq Nat, T # {}
  PROVE  \E n \in T : \A m \in T : n <= m
<1>1. PICK n \in T : \A m \in T : ~(<<m, n>> \in NatBelow)
  BY BelowIsWellFounded, WFMin
<1>2. ASSUME NEW m \in T PROVE n <= m
  <2>1. m \in Nat /\ n \in Nat /\ ~(<<m, n>> \in NatBelow)
    BY <1>1
  <2>2. ~(m < n)
    BY <2>1 DEF NatBelow
  <2>3. QED
    BY <2>1, <2>2
<1>3. QED
  BY <1>2


Keeps(s, P, m, g) ==
  g = [n \in 0..m |-> IF n = 0 THEN << >>
                      ELSE IF n \in P THEN Append(g[n - 1], s[n]) ELSE g[n - 1]]

LEMMA KeepsExists ==
  ASSUME NEW s, NEW P, NEW m \in Nat
  PROVE  \E g : Keeps(s, P, m, g)
<1> DEFINE T == {k \in Nat : ~\E g : Keeps(s, P, k, g)}
<1>1. SUFFICES ASSUME T # {} PROVE FALSE
  OBVIOUS
<1>2. PICK k \in T : \A j \in T : k <= j
  <2>1. T \subseteq Nat
    OBVIOUS
  <2> HIDE DEF T
  <2> QED
    BY <1>1, <2>1, LeastNat
<1>3. k # 0
  <2>1. Keeps(s, P, 0, [n \in 0..0 |-> << >>])
    BY DEF Keeps
  <2> QED
    BY <2>1
<1>4. k \in Nat /\ k - 1 \in Nat /\ k - 1 \notin T
  BY <1>2, <1>3
<1>5. PICK g : Keeps(s, P, k - 1, g)
  BY <1>4
<1> DEFINE h == [n \in 0..k |-> IF n < k THEN g[n]
                                ELSE IF n \in P THEN Append(g[n - 1], s[n]) ELSE g[n - 1]]
<1>6. \A n \in 0..(k - 1) : g[n] = IF n = 0 THEN << >>
                              ELSE IF n \in P THEN Append(g[n - 1], s[n]) ELSE g[n - 1]
  BY <1>5 DEF Keeps
<1>7. \A n \in 0..k : h[n] = IF n = 0 THEN << >>
                              ELSE IF n \in P THEN Append(h[n - 1], s[n]) ELSE h[n - 1]
  <2> TAKE n \in 0..k
  <2>1. CASE n < k
    <3>1. n = 0 \/ (n - 1 \in 0..k /\ n - 1 < k)
      BY <1>4, <2>1
    <3> QED
      BY <1>4, <1>6, <2>1, <3>1
  <2>2. CASE n = k
    <3>1. h[n - 1] = g[n - 1]
      BY <1>3, <1>4, <2>2
    <3> QED
      BY <1>3, <1>4, <2>2, <3>1
  <2> QED
    BY <1>4, <2>1, <2>2
<1>8. Keeps(s, P, k, h)
  <2>1. h = [n \in 0..k |-> h[n]]
    OBVIOUS
  <2> HIDE DEF h
  <2>2. h = [n \in 0..k |-> IF n = 0 THEN << >>
                      ELSE IF n \in P THEN Append(h[n - 1], s[n]) ELSE h[n - 1]]
    BY <1>7, <2>1
  <2> QED
    BY <2>2 DEF Keeps
<1> HIDE DEF h
<1> QED
  BY <1>2, <1>8

\* e takes the entries of t to their places in s: those in P, up to n, in order.
Picks(s, P, n, t, e) ==
  /\ e \in [DOMAIN t -> (1..n) \cap P]
  /\ \A i \in DOMAIN t : t[i] = s[e[i]]
  /\ \A i, j \in DOMAIN t : i < j => e[i] < e[j]
  /\ \A p \in (1..n) \cap P : \E i \in DOMAIN t : e[i] = p

LEMMA PicksOneMore ==
  ASSUME NEW S, NEW s \in Seq(S), NEW P, NEW n \in Nat, n + 1 \in 1..Len(s), n + 1 \in P,
         NEW t \in Seq(S), NEW e, Picks(s, P, n, t, e)
  PROVE  \E f : Picks(s, P, n + 1, Append(t, s[n + 1]), f)
<1> DEFINE u == Append(t, s[n + 1])
           f == [i \in 1..(Len(t) + 1) |-> IF i <= Len(t) THEN e[i] ELSE n + 1]
<1>1. /\ DOMAIN t = 1..Len(t) /\ DOMAIN u = 1..(Len(t) + 1) /\ Len(t) \in Nat
      /\ \A i \in 1..Len(t) : u[i] = t[i]
      /\ u[Len(t) + 1] = s[n + 1]
  OBVIOUS
<1> HIDE DEF u
<1>a. /\ e \in [1..Len(t) -> (1..n) \cap P]
      /\ \A i, j \in 1..Len(t) : i < j => e[i] < e[j]
  BY <1>1 DEF Picks
<1>2. /\ \A i \in 1..Len(t) : f[i] = e[i] /\ e[i] \in (1..n) \cap P
      /\ f[Len(t) + 1] = n + 1
  <2>1. \A i \in 1..(Len(t) + 1) : f[i] = IF i <= Len(t) THEN e[i] ELSE n + 1
    OBVIOUS
  <2> HIDE DEF f
  <2> QED
    BY <1>1, <1>a, <2>1
<1>3. f \in [DOMAIN u -> (1..(n + 1)) \cap P]
  <2>1. f = [i \in DOMAIN u |-> f[i]]
    BY <1>1
  <2> HIDE DEF f
  <2>2. \A i \in DOMAIN u : f[i] \in (1..(n + 1)) \cap P
    <3> TAKE i \in DOMAIN u
    <3>1. CASE i \in 1..Len(t)
      BY <1>2, <3>1
    <3>2. CASE i = Len(t) + 1
      BY <1>2, <3>2
    <3> QED
      BY <1>1, <3>1, <3>2
  <2> QED
    BY <2>1, <2>2
<1> HIDE DEF f
<1>4. \A i \in DOMAIN u : u[i] = s[f[i]]
  BY <1>1, <1>2 DEF Picks
<1>5. \A i, j \in DOMAIN u : i < j => f[i] < f[j]
  <2> TAKE i, j \in DOMAIN u
  <2> HAVE i < j
  <2>1. CASE j = Len(t) + 1
    BY <1>1, <1>2, <2>1
  <2>2. CASE j # Len(t) + 1
    <3>1. i \in 1..Len(t) /\ j \in 1..Len(t)
      BY <1>1, <2>2
    <3> QED
      BY <1>2, <1>a, <3>1
  <2> QED
    BY <2>1, <2>2
<1>6. \A p \in (1..(n + 1)) \cap P : \E i \in DOMAIN u : f[i] = p
  <2> TAKE p \in (1..(n + 1)) \cap P
  <2>1. CASE p = n + 1
    BY <1>1, <1>2, <2>1
  <2>2. CASE p # n + 1
    <3>1. p \in (1..n) \cap P
      BY <2>2
    <3> QED
      BY <1>1, <1>2, <3>1 DEF Picks
  <2> QED
    BY <2>1, <2>2
<1>7. Picks(s, P, n + 1, u, f)
  BY <1>3, <1>4, <1>5, <1>6 DEF Picks
<1> QED
  BY <1>7 DEF u

LEMMA PicksNoMore ==
  ASSUME NEW s, NEW P, NEW n \in Nat, n + 1 \notin P, NEW t, NEW e, Picks(s, P, n, t, e)
  PROVE  Picks(s, P, n + 1, t, e)
<1>1. (1..(n + 1)) \cap P = (1..n) \cap P
  OBVIOUS
<1> QED
  BY <1>1 DEF Picks

\* What Select() returns: the entries at the places in P, each once and in order.
LEMMA SelectPicks ==
  ASSUME NEW S, NEW s \in Seq(S), NEW P
  PROVE  Select(s, P) \in Seq(S) /\ \E e : Picks(s, P, Len(s), Select(s, P), e)
<1> DEFINE m == Len(s)
           g == CHOOSE g : Keeps(s, P, m, g)
           Good(k) == g[k] \in Seq(S) /\ \E e : Picks(s, P, k, g[k], e)
<1>0. m \in Nat
  OBVIOUS
<1>1. Keeps(s, P, m, g)
  BY <1>0, KeepsExists
<1>2. Select(s, P) = g[m]
  BY DEF Select, Keeps
<1> HIDE DEF g, m
<1>3. \A n \in 0..m : g[n] = IF n = 0 THEN << >>
                        ELSE IF n \in P THEN Append(g[n - 1], s[n]) ELSE g[n - 1]
  BY <1>1 DEF Keeps
<1>4. Good(0)
  <2>1. g[0] = << >>
    BY <1>0, <1>3
  <2>2. Picks(s, P, 0, << >>, << >>)
    BY DEF Picks
  <2> QED
    BY <2>1, <2>2
<1>5. ASSUME NEW k \in Nat, k + 1 \in 1..m, Good(k) PROVE Good(k + 1)
  <2>1. g[k + 1] = IF k + 1 \in P THEN Append(g[k], s[k + 1]) ELSE g[k]
    <3>1. k + 1 \in 0..m /\ k + 1 # 0 /\ (k + 1) - 1 = k
      BY <1>0, <1>5
    <3> QED
      BY <1>3, <3>1
  <2>2. PICK e : Picks(s, P, k, g[k], e)
    BY <1>5
  <2>3. s[k + 1] \in S
    BY <1>5 DEF m
  <2>4. CASE k + 1 \in P
    BY <1>5, <2>1, <2>2, <2>3, <2>4, PicksOneMore DEF m
  <2>5. CASE k + 1 \notin P
    BY <1>5, <2>1, <2>2, <2>5, PicksNoMore
  <2> QED
    BY <2>4, <2>5
<1>6. \A k \in 0..m : Good(k)
  <2> DEFINE T == {k \in 0..m : ~Good(k)}
  <2>1. SUFFICES ASSUME T # {} PROVE FALSE
    OBVIOUS
  <2>2. T \subseteq Nat
    OBVIOUS
  <2> HIDE DEF Good
  <2>3. PICK k \in T : \A j \in T : k <= j
    <3> HIDE DEF T
    <3> QED
      BY <2>1, <2>2, LeastNat
  <2>4. k # 0 /\ k \in 0..m
    BY <1>4, <2>3
  <2>5. k - 1 \in Nat /\ k - 1 \in 0..m /\ k - 1 \notin T
    BY <1>0, <2>3, <2>4
  <2>6. Good(k - 1)
    BY <2>5
  <2>7. Good((k - 1) + 1)
    <3>1. (k - 1) + 1 \in 1..m
      BY <1>0, <2>4
    <3> QED
      BY <1>5, <2>5, <2>6, <3>1
  <2>8. (k - 1) + 1 = k
    BY <2>4
  <2> QED
    BY <2>3, <2>7, <2>8
<1>7. Good(m)
  <2>1. m \in 0..m
    BY <1>0
  <2> HIDE DEF Good
  <2> QED
    BY <1>6, <2>1
<1> QED
  BY <1>2, <1>7 DEF m

-----------------------------------------------------------------------------
(* The event queue: what each step puts in and takes out.                    *)

LEMMA WithoutEntries ==
  ASSUME NEW S, queue \in Seq(S), NEW i \in DOMAIN queue
  PROVE  /\ Without(i) \in Seq(S)
         /\ DOMAIN Without(i) = 1..(Len(queue) - 1)
         /\ \A j \in 1..(Len(queue) - 1) : Without(i)[j] = queue[IF j < i THEN j ELSE j + 1]
<1>1. i \in 1..Len(queue) /\ Len(queue) \in Nat
  OBVIOUS
<1> DEFINE a == SubSeq(queue, 1, i - 1)
           b == SubSeq(queue, i + 1, Len(queue))
<1>2. /\ a \in Seq(S) /\ Len(a) = i - 1
      /\ \A j \in 1..(i - 1) : a[j] = queue[j]
  BY <1>1
<1>3. /\ b \in Seq(S) /\ Len(b) = Len(queue) - i
      /\ \A j \in 1..(Len(queue) - i) : b[j] = queue[j + i]
  BY <1>1
<1> HIDE DEF a, b
<1>4. /\ a \o b \in Seq(S) /\ Len(a \o b) = Len(queue) - 1
      /\ \A j \in 1..(i - 1) : (a \o b)[j] = a[j]
      /\ \A j \in 1..(Len(queue) - i) : (a \o b)[(i - 1) + j] = b[j]
  <2>0. /\ Len(a) = i - 1 /\ Len(b) = Len(queue) - i /\ Len(a) + Len(b) = Len(queue) - 1
        /\ Len(a) \in Nat /\ Len(b) \in Nat
    BY <1>1, <1>2, <1>3
  <2>1. /\ a \o b \in Seq(S) /\ Len(a \o b) = Len(a) + Len(b)
        /\ \A j \in 1..(Len(a) + Len(b)) : (a \o b)[j] = IF j <= Len(a) THEN a[j] ELSE b[j - Len(a)]
    BY <1>2, <1>3
  <2>2. \A j \in 1..Len(b) : (a \o b)[Len(a) + j] = b[j]
    <3> TAKE j \in 1..Len(b)
    <3>1. /\ Len(a) + j \in 1..(Len(a) + Len(b)) /\ ~(Len(a) + j <= Len(a))
          /\ (Len(a) + j) - Len(a) = j
      <4>1. \A l, m \in Nat : \A k \in 1..m :
              l + k \in 1..(l + m) /\ ~(l + k <= l) /\ (l + k) - l = k
        OBVIOUS
      <4> QED
        BY <2>0, <4>1
    <3> QED
      BY <2>1, <3>1
  <2>3. \A j \in 1..Len(a) : (a \o b)[j] = a[j]
    BY <2>0, <2>1
  <2> QED
    BY <2>0, <2>1, <2>2, <2>3
<1>5. \A j \in 1..(Len(queue) - 1) : (a \o b)[j] = queue[IF j < i THEN j ELSE j + 1]
  <2> TAKE j \in 1..(Len(queue) - 1)
  <2>1. CASE j < i
    BY <1>1, <1>2, <1>4, <2>1
  <2>2. CASE ~(j < i)
    <3>1. /\ j - (i - 1) \in 1..(Len(queue) - i) /\ (j - (i - 1)) + i = j + 1
          /\ (i - 1) + (j - (i - 1)) = j
      BY <1>1, <2>2
    <3>2. (a \o b)[j] = b[j - (i - 1)]
      BY <1>4, <3>1
    <3>3. b[j - (i - 1)] = queue[(j - (i - 1)) + i]
      BY <1>3, <3>1
    <3> QED
      BY <2>2, <3>1, <3>2, <3>3
  <2> QED
    BY <2>1, <2>2
<1>6. DOMAIN (a \o b) = 1..(Len(queue) - 1)
  BY <1>4
<1> QED
  BY <1>4, <1>5, <1>6 DEF Without, a, b

\* t consists of entries of s, each at most once.
Within(s, t) ==
  \E e \in [DOMAIN t -> DOMAIN s] :
    /\ \A j \in DOMAIN t : t[j] = s[e[j]]
    /\ \A j, k \in DOMAIN t : e[j] = e[k] => j = k

LEMMA WithoutWithin ==
  ASSUME NEW S, queue \in Seq(S), NEW i \in DOMAIN queue
  PROVE  /\ Within(queue, Without(i))
         /\ \A k \in DOMAIN queue : k # i => \E j \in DOMAIN Without(i) : Without(i)[j] = queue[k]
         /\ \E e \in [DOMAIN Without(i) -> DOMAIN queue] :
              \A j \in DOMAIN Without(i) : Without(i)[j] = queue[e[j]] /\ e[j] # i
<1> DEFINE n == Len(queue)
           t == Without(i)
           e == [j \in 1..(n - 1) |-> IF j < i THEN j ELSE j + 1]
<1>1. i \in 1..n /\ n \in Nat /\ DOMAIN queue = 1..n
  OBVIOUS
<1>2. DOMAIN t = 1..(n - 1) /\ \A j \in 1..(n - 1) : t[j] = queue[IF j < i THEN j ELSE j + 1]
  BY WithoutEntries
<1>3. \A j \in 1..(n - 1) : e[j] = IF j < i THEN j ELSE j + 1
  OBVIOUS
<1>4. e \in [1..(n - 1) -> 1..n]
  BY <1>1
<1> HIDE DEF n, t, e
<1>5. \A j, k \in 1..(n - 1) : e[j] = e[k] => j = k
  BY <1>1, <1>3
<1>6. \A j \in 1..(n - 1) : t[j] = queue[e[j]] /\ e[j] # i
  BY <1>1, <1>2, <1>3
<1>7. Within(queue, t)
  BY <1>1, <1>2, <1>4, <1>5, <1>6 DEF Within
<1>8. \A k \in DOMAIN queue : k # i => \E j \in DOMAIN t : t[j] = queue[k]
  <2> TAKE k \in DOMAIN queue
  <2> HAVE k # i
  <2>1. CASE k < i
    <3>1. k \in 1..(n - 1) /\ e[k] = k
      BY <1>1, <1>3, <2>1
    <3> QED
      BY <1>2, <1>6, <3>1
  <2>2. CASE ~(k < i)
    <3>1. k - 1 \in 1..(n - 1) /\ e[k - 1] = k
      BY <1>1, <1>3, <2>2
    <3> QED
      BY <1>2, <1>6, <3>1
  <2> QED
    BY <2>1, <2>2
<1> QED
  BY <1>1, <1>2, <1>4, <1>6, <1>7, <1>8 DEF t

LEMMA TailWithin ==
  ASSUME NEW S, NEW s \in Seq(S), s # << >>
  PROVE  Tail(s) \in Seq(S) /\ Within(s, Tail(s))
<1> DEFINE t == Tail(s)
           e == [j \in DOMAIN t |-> j + 1]
<1>1. t \in Seq(S) /\ \A j \in DOMAIN t : j \in Nat /\ j + 1 \in DOMAIN s /\ t[j] = s[j + 1]
  OBVIOUS
<1> HIDE DEF t
<1>2. /\ e \in [DOMAIN t -> DOMAIN s]
      /\ \A j \in DOMAIN t : t[j] = s[e[j]]
      /\ \A j, k \in DOMAIN t : e[j] = e[k] => j = k
  BY <1>1
<1> QED
  BY <1>1, <1>2 DEF Within, t

\* SDL_FlushEvents() leaves the threads' messages to each other.
LEMMA FlushedWithin ==
  ASSUME NEW S, queue \in Seq(S)
  PROVE  /\ Flushed \in Seq(S) /\ Within(queue, Flushed)
         /\ \A k \in DOMAIN queue :
              queue[k].type \notin UserEventTypes => \E j \in DOMAIN Flushed : Flushed[j] = queue[k]
<1> DEFINE P == {i \in DOMAIN queue : queue[i].type \notin UserEventTypes}
           t == Select(queue, P)
<1>1. t \in Seq(S) /\ \E e : Picks(queue, P, Len(queue), t, e)
  BY SelectPicks
<1>2. Flushed = t
  BY DEF Flushed
<1>3. /\ DOMAIN queue = 1..Len(queue) /\ (1..Len(queue)) \cap P = P
      /\ \A k \in DOMAIN queue : queue[k].type \notin UserEventTypes => k \in P
  OBVIOUS
<1>4. \A j, k \in DOMAIN t : j < k \/ k < j \/ j = k
  BY <1>1
<1>5. P \subseteq Nat
  OBVIOUS
<1> HIDE DEF t, P
<1>6. PICK e : Picks(queue, P, Len(queue), t, e)
  BY <1>1
<1>7. /\ e \in [DOMAIN t -> P]
      /\ \A j \in DOMAIN t : t[j] = queue[e[j]]
      /\ \A j, k \in DOMAIN t : j < k => e[j] < e[k]
      /\ \A k \in P : \E j \in DOMAIN t : e[j] = k
  BY <1>3, <1>6 DEF Picks
<1>8. \A j, k \in DOMAIN t : e[j] = e[k] => j = k
  <2> TAKE j, k \in DOMAIN t
  <2>1. e[j] \in Nat /\ e[k] \in Nat
    BY <1>5, <1>7
  <2> QED
    BY <1>4, <1>7, <2>1
<1>9. e \in [DOMAIN t -> DOMAIN queue]
  BY <1>7 DEF P
<1>10. Within(queue, t)
  BY <1>7, <1>8, <1>9 DEF Within
<1>11. \A k \in DOMAIN queue :
         queue[k].type \notin UserEventTypes => \E j \in DOMAIN t : t[j] = queue[k]
  BY <1>3, <1>7
<1> QED
  BY <1>1, <1>2, <1>10, <1>11

\* One more entry at the end of a queue.
LEMMA AppendEntries ==
  ASSUME NEW S, NEW s \in Seq(S), NEW e \in S
  PROVE  /\ Append(s, e) \in Seq(S) /\ Len(Append(s, e)) = Len(s) + 1
         /\ DOMAIN Append(s, e) = 1..(Len(s) + 1) /\ DOMAIN s = 1..Len(s) /\ Len(s) \in Nat
         /\ \A j \in DOMAIN s : Append(s, e)[j] = s[j]
         /\ Append(s, e)[Len(s) + 1] = e
  OBVIOUS

\* The messages that have to do with a dialog.
DialogTypes == {"ask", "answer"}

\* What most steps do to the queue.
QueueGrowsPlainly ==
  \/ queue' = queue
  \/ \E e \in Events : e.type \notin DialogTypes /\ queue' = Append(queue, e)

LEMMA EventsOfTypes ==
  /\ \A t \in EventTypes : Event(t) \in Events /\ Event(t).type = t
  /\ \A t \in UserEventTypes : t \in EventTypes /\ t \notin DialogTypes /\ t # "update"
  /\ {"update", "createWindows", "configureFloatbar", "userQuit", "quit"} \subseteq EventTypes
  /\ {"update", "createWindows", "configureFloatbar", "userQuit", "quit"} \cap DialogTypes = {}
<1>1. 0 \in 0..MaxQuestions
  BY BoundsAssumption
<1> QED
  BY <1>1 DEF Event, Events, EventTypes, UserEventTypes, DialogTypes

\* Steps that have nothing to do with a dialog: the question it is about, where
\* it is on its way, and the thread that waits for the answer stay.
Plain ==
  /\ UNCHANGED <<windowEvent, shown, asked, kindOf, takenFor>>
  /\ abort => abort'
  /\ rdpPc = "await" <=> rdpPc' = "await"
  /\ mainPc = "dialog" <=> mainPc' = "dialog"
  /\ windowEvent.type = "ask" => (mainPc = "handle" <=> mainPc' = "handle")
  /\ QueueGrowsPlainly

DialogStep ==
  \/ PollEvent \/ EventGone \/ ShowDialog \/ AnswerDialog \/ FormTakesEvent
  \/ TakeResult \/ GiveUpOnResult \/ \E k \in Kinds : AskQuestion(k)

LEMMA PlainOrDialog ==
  ASSUME Scalars, [Next]_vars
  PROVE  Plain \/ DialogStep
<1> USE DEF Plain, QueueGrowsPlainly, mainVars, rdpVars, sharedVars
<1>3. LeaveLoop => Plain
  BY DEF LeaveLoop
<1>4. HandleWindowEvent => Plain
  BY DEF HandleWindowEvent, Handling, Throw
<1>5. ASSUME HandleInput PROVE Plain
  <2>1. queue' = queue \/ queue' = Append(queue, Event("quit"))
    BY <1>5 DEF HandleInput
  <2>2. QueueGrowsPlainly
    BY <2>1, EventsOfTypes
  <2> QED
    BY <1>5, <2>2 DEF HandleInput, Handling, Throw, Scalars
<1>6. HandleQuit => Plain
  BY DEF HandleQuit
<1>7. HandleUpdate => Plain
  BY DEF HandleUpdate, Handling
<1>8. PopRectangles => Plain
  BY DEF PopRectangles
<1>9. DrawToWindow => Plain
  BY DEF DrawToWindow
<1>10. HandleCreateWindows => Plain
  BY DEF HandleCreateWindows, Handling, Throw
<1>11. HandleConfigureFloatbar => Plain
  BY DEF HandleConfigureFloatbar, Handling, Throw
<1>14. Stop => Plain
  BY DEF Stop
<1>15. Join => Plain
  BY DEF Join
<1>16. RdpThreadStarts => Plain
  BY DEF RdpThreadStarts, At
<1>19. WindowsCreated => Plain
  BY DEF WindowsCreated, At
<1>20. WindowsAborted => Plain
  BY DEF WindowsAborted, At
<1>21. ConfigureFloatbar => Plain
  BY EventsOfTypes DEF ConfigureFloatbar, At
<1>22. FloatbarConfigured => Plain
  BY DEF FloatbarConfigured, At
<1>23. PushUpdate => Plain
  BY EventsOfTypes DEF PushUpdate, At
<1>24. PostDisconnect => Plain
  BY DEF PostDisconnect, At
<1>25. GdiFree => Plain
  BY DEF GdiFree, At
<1>26. ClientCleanup => Plain
  BY EventsOfTypes DEF ClientCleanup, At
<1>27. LoginStarts => Plain
  BY DEF LoginStarts, At
<1>28. EndPaint => Plain
  BY DEF EndPaint, At
<1>29. ConnectionLost => Plain
  BY DEF ConnectionLost, At
<1>30. Reconnected => Plain
  BY DEF Reconnected, At
<1>31. WaitForWindowsCreated => Plain
  BY EventsOfTypes DEF WaitForWindowsCreated, At
<1>33. ConnectFails => Plain
  BY DEF ConnectFails
<1>34. LeaveRun => Plain
  BY DEF LeaveRun, At
<1>35. GdiFails => Plain
  BY DEF GdiFails, At
<1>36. LoginEnds => Plain
  BY DEF LoginEnds, At
<1>38. ASSUME NEW t \in UserEventTypes, UserActs(t) PROVE Plain
  BY <1>38, EventsOfTypes DEF UserActs
<1>39. UNCHANGED vars => Plain
  BY DEF vars
<1> HIDE DEF Plain
<1> QED
  BY <1>3, <1>4, <1>5, <1>6, <1>7, <1>8, <1>9, <1>10, <1>11,
     <1>14, <1>15, <1>16, <1>19, <1>20, <1>21, <1>22, <1>23, <1>24, <1>25,
     <1>26, <1>27, <1>28, <1>29, <1>30, <1>31, <1>33, <1>34, <1>35, <1>36,
     <1>38, <1>39
     DEF Next, MainStep, RdpStep, ServerStep, RdpGivesUp, DialogStep

\* Which event sdl_run() takes.
LEMMA PollTakes ==
  ASSUME NEW S, queue \in Seq(S), PollEvent
  PROVE  \/ windowEvent' = windowEvent /\ queue' = queue
         \/ \E i \in DOMAIN queue : windowEvent' = queue[i] /\ queue' = Without(i)
<1>1. CASE Pollable = {}
  BY <1>1 DEF PollEvent
<1>2. CASE Pollable # {}
  <2>1. Pollable \subseteq Nat /\ Pollable \subseteq DOMAIN queue
    BY DEF Pollable
  <2>2. \E i \in Pollable : \A j \in Pollable : i <= j
    BY <1>2, <2>1, LeastNat
  <2> DEFINE i == CHOOSE i \in Pollable : \A j \in Pollable : i <= j
  <2>3. i \in Pollable
    BY <2>2
  <2>4. windowEvent' = queue[i] /\ queue' = Without(i)
    BY <1>2 DEF PollEvent
  <2> HIDE DEF i
  <2> QED
    BY <2>1, <2>3, <2>4
<1> QED
  BY <1>1, <1>2

\* Which result sdl_wait_for_result() takes.
LEMMA ResultTaken ==
  ASSUME NEW S, queue \in Seq(S), TakeResult
  PROVE  \E i \in DOMAIN queue :
           /\ queue[i].type = "answer"
           /\ takenFor' = [takenFor EXCEPT ![asked] = queue[i].q]
           /\ queue' = Without(i)
<1>1. Results \subseteq Nat /\ Results \subseteq DOMAIN queue
  BY DEF Results
<1>2. Results # {}
  BY DEF TakeResult
<1>3. \E i \in Results : \A j \in Results : i <= j
  BY <1>1, <1>2, LeastNat
<1> DEFINE i == CHOOSE i \in Results : \A j \in Results : i <= j
<1>4. i \in Results
  BY <1>3
<1>5. takenFor' = [takenFor EXCEPT ![asked] = queue[i].q] /\ queue' = Without(i)
  BY DEF TakeResult
<1>6. queue[i].type = "answer"
  BY <1>4 DEF Results
<1> HIDE DEF i
<1> QED
  BY <1>1, <1>4, <1>5, <1>6

\* What the end of a dialog, or its own event loop, does to the queue.
LEMMA DialogQueue ==
  ASSUME NEW S, queue \in Seq(S), AnswerDialog \/ FormTakesEvent
  PROVE  \/ /\ FormTakesEvent /\ mainPc' = mainPc
            /\ queue' \in Seq(S) /\ Within(queue, queue')
         \/ /\ mainPc' = "poll"
            /\ \E left \in Seq(S) : Within(queue, left) /\ queue' = Append(left, Answer)
<1>1. Flushed \in Seq(S) /\ Within(queue, Flushed)
  BY FlushedWithin
<1>2. Within(queue, queue)
  <2>1. [i \in DOMAIN queue |-> i] \in [DOMAIN queue -> DOMAIN queue]
    OBVIOUS
  <2> QED
    BY <2>1 DEF Within
<1>3. queue # << >> => Tail(queue) \in Seq(S) /\ Within(queue, Tail(queue))
  BY TailWithin
<1>4. CASE AnswerDialog
  <2>1. \/ queue' = Append(queue, Answer)
        \/ queue' = Append(Flushed, Answer)
    BY <1>4 DEF AnswerDialog
  <2> QED
    BY <1>1, <1>2, <1>4, <2>1 DEF AnswerDialog
<1>5. CASE FormTakesEvent
  BY <1>1, <1>3, <1>5 DEF FormTakesEvent
<1> QED
  BY <1>4, <1>5

DialogTyped ==
  /\ windowEvent \in Events \cup {NoEvent}
  /\ asked \in 0..MaxQuestions
  /\ kindOf \in [QuestionIds -> Kinds \cup {"none"}]
  /\ takenFor \in [QuestionIds -> 0..MaxQuestions]
  /\ shown \in [QuestionIds -> 0..MaxShown]
  /\ queue \in Seq(Events)

LEMMA NumbersTyped ==
  ASSUME DialogTyped
  PROVE  /\ windowEvent.q \in 0..MaxQuestions
         /\ \A i \in DOMAIN queue : queue[i] \in Events /\ queue[i].q \in 0..MaxQuestions
         /\ Answer \in Events /\ Answer.type = "answer" /\ Answer.q = windowEvent.q
<1>1. 0 \in 0..MaxQuestions
  BY BoundsAssumption
<1>2. windowEvent.q \in 0..MaxQuestions
  BY <1>1 DEF DialogTyped, Events, NoEvent
<1>3. \A i \in DOMAIN queue : queue[i] \in Events
  BY DEF DialogTyped
<1>4. \A e \in Events : e.q \in 0..MaxQuestions
  BY DEF Events
<1>5. Answer \in Events /\ Answer.type = "answer" /\ Answer.q = windowEvent.q
  BY <1>2 DEF Answer, Events, EventTypes
<1> QED
  BY <1>2, <1>3, <1>4, <1>5

LEMMA NextDialogTyped ==
  ASSUME Scalars, DialogTyped, [Next]_vars
  PROVE  DialogTyped'
<1> USE DEF mainVars, rdpVars, sharedVars
<1>q. queue \in Seq(Events)
  BY DEF DialogTyped
<1>1. CASE Plain
  <2>1. queue' \in Seq(Events)
    BY <1>1, <1>q DEF Plain, QueueGrowsPlainly
  <2> QED
    BY <1>1, <2>1 DEF Plain, DialogTyped
<1>2. CASE PollEvent
  <2>1. queue' \in Seq(Events) /\ windowEvent' \in Events \cup {NoEvent}
    <3>1. CASE windowEvent' = windowEvent /\ queue' = queue
      BY <3>1 DEF DialogTyped
    <3>2. ASSUME NEW i \in DOMAIN queue, windowEvent' = queue[i], queue' = Without(i)
          PROVE  queue' \in Seq(Events) /\ windowEvent' \in Events \cup {NoEvent}
      BY <1>q, <3>2, WithoutEntries
    <3> QED
      BY <1>2, <1>q, <3>1, <3>2, PollTakes
  <2> QED
    BY <1>2, <2>1 DEF PollEvent, DialogTyped
<1>3. CASE EventGone
  BY <1>3 DEF EventGone, DialogTyped
<1>4. CASE ShowDialog
  <2>1. shown' \in [QuestionIds -> 0..MaxShown]
    <3>1. CASE windowEvent.q \in QuestionIds
      <4>1. shown[windowEvent.q] + 1 \in 0..MaxShown
        BY <1>4, <3>1, BoundsAssumption DEF ShowDialog, DialogTyped
      <4> QED
        BY <1>4, <4>1 DEF ShowDialog, DialogTyped
    <3>2. CASE windowEvent.q \notin QuestionIds
      BY <1>4, <3>2 DEF ShowDialog, DialogTyped
    <3> QED
      BY <3>1, <3>2
  <2> QED
    BY <1>4, <2>1 DEF ShowDialog, DialogTyped
<1>5. CASE AnswerDialog \/ FormTakesEvent
  <2>1. Answer \in Events
    BY NumbersTyped
  <2>2. \/ queue' \in Seq(Events)
        \/ \E left \in Seq(Events) : queue' = Append(left, Answer)
    BY <1>5, <1>q, DialogQueue
  <2>3. queue' \in Seq(Events)
    BY <2>1, <2>2
  <2> QED
    BY <1>5, <2>3 DEF AnswerDialog, FormTakesEvent, DialogTyped
<1>6. CASE TakeResult
  <2>1. PICK i \in DOMAIN queue : /\ takenFor' = [takenFor EXCEPT ![asked] = queue[i].q]
                                  /\ queue' = Without(i)
    BY <1>6, <1>q, ResultTaken
  <2>2. queue[i].q \in 0..MaxQuestions
    BY NumbersTyped
  <2>3. takenFor' \in [QuestionIds -> 0..MaxQuestions]
    BY <2>1, <2>2 DEF DialogTyped
  <2>4. queue' \in Seq(Events)
    BY <1>q, <2>1, WithoutEntries
  <2> QED
    BY <1>6, <2>3, <2>4 DEF TakeResult, DialogTyped
<1>7. CASE GiveUpOnResult
  BY <1>7 DEF GiveUpOnResult, DialogTyped
<1>8. ASSUME NEW k \in Kinds, AskQuestion(k) PROVE DialogTyped'
  <2>1. asked + 1 \in 0..MaxQuestions
    BY <1>8, BoundsAssumption DEF AskQuestion, DialogTyped
  <2>2. [type |-> "ask", q |-> asked + 1] \in Events
    BY <2>1 DEF Events, EventTypes
  <2>3. queue' \in Seq(Events)
    BY <1>8, <1>q, <2>2 DEF AskQuestion
  <2>4. kindOf' \in [QuestionIds -> Kinds \cup {"none"}]
    BY <1>8 DEF AskQuestion, DialogTyped
  <2> QED
    BY <1>8, <2>1, <2>3, <2>4 DEF AskQuestion, DialogTyped
<1> QED
  BY <1>1, <1>2, <1>3, <1>4, <1>5, <1>6, <1>7, <1>8, PlainOrDialog DEF DialogStep

CountersTyped ==
  /\ failure \in {"none", "handleEvent", "createWindows", "attachFloatbar"}
  /\ running \in BOOLEAN /\ floatbarConfiguredEvent \in BOOLEAN
  /\ painted \in 0..MaxPaints /\ rects \in 0..painted
  /\ userEvents \in 0..MaxUserEvents

LEMMA NextCountersTyped ==
  ASSUME CountersTyped, [Next]_vars
  PROVE  CountersTyped'
<1>b. MaxPaints \in Nat /\ MaxUserEvents \in Nat
  BY BoundsAssumption
<1> USE DEF CountersTyped, mainVars, rdpVars, sharedVars
<1>1. PollEvent => CountersTyped'
  BY DEF PollEvent
<1>2. EventGone => CountersTyped'
  BY DEF EventGone
<1>3. LeaveLoop => CountersTyped'
  BY DEF LeaveLoop
<1>4. HandleWindowEvent => CountersTyped'
  BY DEF HandleWindowEvent, Throw
<1>5. HandleInput => CountersTyped'
  BY DEF HandleInput, Throw
<1>6. HandleQuit => CountersTyped'
  BY DEF HandleQuit
<1>7. HandleUpdate => CountersTyped'
  BY DEF HandleUpdate
<1>8. CASE PopRectangles
  <2>1. rects' = (IF rects > 0 THEN rects - 1 ELSE 0) /\ painted' = painted
    BY <1>8 DEF PopRectangles
  <2>2. rects' \in 0..painted'
    BY <1>b, <2>1
  <2> QED
    BY <1>8, <2>2 DEF PopRectangles
<1>9. DrawToWindow => CountersTyped'
  BY DEF DrawToWindow
<1>10. HandleCreateWindows => CountersTyped'
  BY DEF HandleCreateWindows, Throw
<1>11. HandleConfigureFloatbar => CountersTyped'
  BY DEF HandleConfigureFloatbar, Throw
<1>12. ShowDialog => CountersTyped'
  BY DEF ShowDialog
<1>13. FormTakesEvent => CountersTyped'
  BY DEF FormTakesEvent
<1>14. Stop => CountersTyped'
  BY DEF Stop
<1>15. Join => CountersTyped'
  BY DEF Join
<1>16. RdpThreadStarts => CountersTyped'
  BY DEF RdpThreadStarts
<1>17. TakeResult => CountersTyped'
  BY DEF TakeResult
<1>18. GiveUpOnResult => CountersTyped'
  BY DEF GiveUpOnResult
<1>19. WindowsCreated => CountersTyped'
  BY DEF WindowsCreated
<1>20. WindowsAborted => CountersTyped'
  BY DEF WindowsAborted
<1>21. ConfigureFloatbar => CountersTyped'
  BY DEF ConfigureFloatbar
<1>22. FloatbarConfigured => CountersTyped'
  BY DEF FloatbarConfigured
<1>23. PushUpdate => CountersTyped'
  BY DEF PushUpdate
<1>24. PostDisconnect => CountersTyped'
  BY DEF PostDisconnect
<1>25. GdiFree => CountersTyped'
  BY DEF GdiFree
<1>26. ClientCleanup => CountersTyped'
  BY DEF ClientCleanup
<1>27. LoginStarts => CountersTyped'
  BY DEF LoginStarts
<1>28. CASE EndPaint
  <2>1. painted' = painted + 1 /\ rects' = rects + 1 /\ painted < MaxPaints
    BY <1>28 DEF EndPaint
  <2>2. painted' \in 0..MaxPaints /\ rects' \in 0..painted'
    BY <1>b, <2>1
  <2> QED
    BY <1>28, <2>2 DEF EndPaint
<1>29. ConnectionLost => CountersTyped'
  BY DEF ConnectionLost
<1>30. Reconnected => CountersTyped'
  BY DEF Reconnected
<1>31. WaitForWindowsCreated => CountersTyped'
  BY DEF WaitForWindowsCreated
<1>32. AnswerDialog => CountersTyped'
  BY DEF AnswerDialog
<1>33. ConnectFails => CountersTyped'
  BY DEF ConnectFails
<1>34. LeaveRun => CountersTyped'
  BY DEF LeaveRun
<1>35. GdiFails => CountersTyped'
  BY DEF GdiFails
<1>36. LoginEnds => CountersTyped'
  BY DEF LoginEnds
<1>37. ASSUME NEW k \in Kinds, AskQuestion(k) PROVE CountersTyped'
  BY <1>37 DEF AskQuestion
<1>38. ASSUME NEW t \in UserEventTypes, UserActs(t) PROVE CountersTyped'
  BY <1>b, <1>38 DEF UserActs
<1>39. UNCHANGED vars => CountersTyped'
  BY DEF vars
<1> QED
  BY <1>1, <1>2, <1>3, <1>4, <1>5, <1>6, <1>7, <1>8, <1>9, <1>10, <1>11, <1>12, <1>13,
     <1>14, <1>15, <1>16, <1>17, <1>18, <1>19, <1>20, <1>21, <1>22, <1>23, <1>24, <1>25, <1>26,
     <1>27, <1>28, <1>29, <1>30, <1>31, <1>32, <1>33, <1>34, <1>35, <1>36, <1>37, <1>38, <1>39
     DEF Next, MainStep, RdpStep, ServerStep, RdpGivesUp

Typed == IInv /\ DialogTyped /\ CountersTyped

LEMMA InitTyped == Init => Typed
<1> SUFFICES ASSUME Init PROVE Typed
  OBVIOUS
<1>1. 0 \in 0..MaxQuestions /\ 0 \in 0..MaxShown /\ 0 \in 0..MaxPaints /\ 0 \in 0..MaxUserEvents
  BY BoundsAssumption
<1>2. DialogTyped
  BY <1>1 DEF Init, DialogTyped
<1>3. CountersTyped
  <2>1. running \in BOOLEAN /\ floatbarConfiguredEvent \in BOOLEAN
    BY DEF Init
  <2>2. painted \in 0..MaxPaints /\ rects \in 0..painted /\ userEvents \in 0..MaxUserEvents
    BY <1>1 DEF Init
  <2>3. failure \in {"none", "handleEvent", "createWindows", "attachFloatbar"}
    BY DEF Init
  <2> QED
    BY <2>1, <2>2, <2>3 DEF CountersTyped
<1> QED
  BY <1>2, <1>3, InitIInv DEF Typed

LEMMA NextTyped == Typed /\ [Next]_vars => Typed'
  BY NextIInv, NextDialogTyped, NextCountersTyped DEF Typed, IInv

\* Every variable keeps its type: the queue only ever holds events of the kinds
\* the two threads push, and no counter passes its bound.
THEOREM SessionTypeCorrect == Spec => []TypeOK
<1>1. Typed => TypeOK
  <2> SUFFICES ASSUME Typed PROVE TypeOK
    OBVIOUS
  <2>1. rects \in 0..MaxPaints
    BY BoundsAssumption DEF Typed, CountersTyped
  <2> QED
    BY <2>1 DEF Typed, IInv, Scalars, DialogTyped, CountersTyped, TypeOK
<1> QED
  BY <1>1, InitTyped, NextTyped, PTL DEF Spec

-----------------------------------------------------------------------------
(* Questions and answers.  As long as no dialog is shown twice, and before   *)
(* the abort, there is one message about the pending question: its request,  *)
(* the dialog the main thread shows for it, or the answer.                   *)

\* The request was taken from the queue and its dialog is about to be shown.
Unseen == mainPc = "handle" /\ windowEvent.type = "ask" /\ shown[windowEvent.q] = 0

Held == mainPc = "dialog" \/ Unseen

QuestionsKnown ==
  /\ windowEvent.type = "ask" => windowEvent.q \in 1..asked
  /\ \A i \in DOMAIN queue : queue[i].type \in DialogTypes => queue[i].q \in 1..asked
  /\ \A n \in QuestionIds : shown[n] > 0 => n <= asked
  /\ mainPc = "dialog" => windowEvent.type = "ask" /\ shown[windowEvent.q] > 0

MessageIsPending ==
  \A i \in DOMAIN queue :
    queue[i].type \in DialogTypes => queue[i].q = asked /\ rdpPc = "await" /\ ~Held

MessageIsAlone ==
  \A i, j \in DOMAIN queue :
    queue[i].type \in DialogTypes /\ queue[j].type \in DialogTypes => i = j

HeldIsPending == Held => windowEvent.q = asked /\ rdpPc = "await"

\* The event that polling may leave in windowEvent has been shown.
StaleWasShown ==
  mainPc # "handle" /\ windowEvent.type = "ask" => shown[windowEvent.q] > 0

OneMessage ==
  ~abort => MessageIsPending /\ MessageIsAlone /\ HeldIsPending /\ StaleWasShown

NoOrphans == \A n \in QuestionIds : takenFor[n] \in {0, n}

Messages == QuestionsKnown /\ (~Repeated => OneMessage /\ NoOrphans)

\* A dialog that was shown twice remains so.
LEMMA RepeatedStays ==
  ASSUME Scalars, DialogTyped, [Next]_vars
  PROVE  /\ Repeated => Repeated'
         /\ \A n \in QuestionIds : shown[n] \in Nat /\ shown'[n] \in Nat /\ shown[n] <= shown'[n]
<1>1. \A n \in QuestionIds : shown[n] \in Nat /\ shown'[n] \in Nat
  BY NextDialogTyped, BoundsAssumption DEF DialogTyped
<1>2. \/ shown' = shown
      \/ shown' = [shown EXCEPT ![windowEvent.q] = @ + 1]
  <2>1. Plain => shown' = shown
    BY DEF Plain
  <2>2. DialogStep => \/ shown' = shown
                      \/ shown' = [shown EXCEPT ![windowEvent.q] = @ + 1]
    BY DEF DialogStep, PollEvent, EventGone, ShowDialog, AnswerDialog, FormTakesEvent,
           TakeResult, GiveUpOnResult, AskQuestion, mainVars
  <2> QED
    BY <2>1, <2>2, PlainOrDialog
<1>3. \A n \in QuestionIds : shown[n] <= shown'[n]
  <2>1. CASE shown' = shown
    BY <1>1, <2>1
  <2>2. CASE shown' = [shown EXCEPT ![windowEvent.q] = @ + 1]
    <3> TAKE n \in QuestionIds
    <3>1. shown'[n] = shown[n] \/ shown'[n] = shown[n] + 1
      BY <2>2 DEF DialogTyped
    <3> QED
      BY <1>1, <3>1
  <2> QED
    BY <1>2, <2>1, <2>2
<1>4. Repeated => Repeated'
  BY <1>1, <1>3 DEF Repeated
<1> QED
  BY <1>1, <1>3, <1>4

\* Questions keep their numbers.
LEMMA NextQuestionsKnown ==
  ASSUME Typed, QuestionsKnown, [Next]_vars
  PROVE  QuestionsKnown'
<1> USE DEF mainVars, rdpVars, sharedVars
<1>t. Scalars /\ DialogTyped /\ queue \in Seq(Events) /\ asked \in Nat
  BY BoundsAssumption DEF Typed, IInv, DialogTyped
<1>k. Answer.type = "answer" /\ Answer.q = windowEvent.q
  BY <1>t, NumbersTyped
<1>w. ASSUME NEW q2, Within(queue, q2)
      PROVE  \A i \in DOMAIN q2 : q2[i].type \in DialogTypes => q2[i].q \in 1..asked
  BY <1>w DEF Within, QuestionsKnown
<1>1. CASE Plain
  <2>1. \A i \in DOMAIN queue' : queue'[i].type \in DialogTypes => queue'[i].q \in 1..asked
    <3>1. CASE queue' = queue
      BY <3>1 DEF QuestionsKnown
    <3>2. ASSUME NEW e \in Events, e.type \notin DialogTypes, queue' = Append(queue, e)
          PROVE  \A i \in DOMAIN queue' : queue'[i].type \in DialogTypes => queue'[i].q \in 1..asked
      BY <1>t, <3>2, AppendEntries DEF QuestionsKnown
    <3> QED
      BY <1>1, <3>1, <3>2 DEF Plain, QueueGrowsPlainly
  <2> QED
    BY <1>1, <2>1 DEF Plain, QuestionsKnown
<1>2. CASE PollEvent
  <2>1. CASE windowEvent' = windowEvent /\ queue' = queue
    BY <1>2, <2>1 DEF PollEvent, QuestionsKnown
  <2>2. ASSUME NEW i \in DOMAIN queue, windowEvent' = queue[i], queue' = Without(i)
        PROVE  QuestionsKnown'
    <3>1. Within(queue, queue')
      BY <1>t, <2>2, WithoutWithin
    <3>2. \A j \in DOMAIN queue' : queue'[j].type \in DialogTypes => queue'[j].q \in 1..asked
      BY <1>w, <3>1
    <3>3. windowEvent'.type = "ask" => windowEvent'.q \in 1..asked
      BY <2>2 DEF QuestionsKnown, DialogTypes
    <3> QED
      BY <1>2, <3>2, <3>3 DEF PollEvent, QuestionsKnown
  <2> QED
    BY <1>2, <1>t, <2>1, <2>2, PollTakes
<1>3. CASE EventGone
  BY <1>3 DEF EventGone, QuestionsKnown, NoEvent
<1>4. CASE ShowDialog
  <2>1. windowEvent.type = "ask" /\ windowEvent.q \in 1..asked /\ windowEvent.q \in QuestionIds
    BY <1>4, BoundsAssumption DEF ShowDialog, Handling, QuestionsKnown, Typed, DialogTyped, QuestionIds
  <2>2. shown' = [shown EXCEPT ![windowEvent.q] = @ + 1]
    BY <1>4 DEF ShowDialog
  <2>3. /\ \A n \in QuestionIds : n # windowEvent.q => shown'[n] = shown[n]
        /\ shown'[windowEvent.q] = shown[windowEvent.q] + 1
        /\ shown[windowEvent.q] \in Nat
    BY <1>t, <2>1, <2>2, BoundsAssumption DEF DialogTyped
  <2>4. \A n \in QuestionIds : shown'[n] > 0 => n <= asked
    BY <1>t, <2>1, <2>3 DEF QuestionsKnown, QuestionIds
  <2> QED
    BY <1>4, <2>1, <2>3, <2>4 DEF ShowDialog, QuestionsKnown
<1>5. CASE AnswerDialog \/ FormTakesEvent
  <2>0. UNCHANGED <<windowEvent, shown, asked>> /\ mainPc = "dialog"
    BY <1>5 DEF AnswerDialog, FormTakesEvent
  <2>1. CASE mainPc' = mainPc /\ Within(queue, queue')
    BY <1>w, <2>0, <2>1 DEF QuestionsKnown
  <2>2. ASSUME NEW left \in Seq(Events), Within(queue, left), queue' = Append(left, Answer),
               mainPc' = "poll"
        PROVE  QuestionsKnown'
    <3>1. \A i \in DOMAIN left : left[i].type \in DialogTypes => left[i].q \in 1..asked
      BY <1>w, <2>2
    <3>2. Answer \in Events
      BY <1>t, NumbersTyped
    <3>3. Answer.q \in 1..asked
      BY <1>k, <2>0 DEF QuestionsKnown
    <3>4. \A i \in DOMAIN queue' : queue'[i].type \in DialogTypes => queue'[i].q \in 1..asked
      BY <2>2, <3>1, <3>2, <3>3, AppendEntries
    <3> QED
      BY <2>0, <2>2, <3>4 DEF QuestionsKnown
  <2> QED
    BY <1>5, <1>t, <2>1, <2>2, DialogQueue
<1>6. CASE TakeResult
  <2>1. PICK i \in DOMAIN queue : queue' = Without(i)
    BY <1>6, <1>t, ResultTaken
  <2>2. Within(queue, queue')
    BY <1>t, <2>1, WithoutWithin
  <2> QED
    BY <1>6, <1>w, <2>2 DEF TakeResult, QuestionsKnown
<1>7. CASE GiveUpOnResult
  BY <1>7 DEF GiveUpOnResult, QuestionsKnown
<1>8. ASSUME NEW k \in Kinds, AskQuestion(k) PROVE QuestionsKnown'
  <2> DEFINE e == [type |-> "ask", q |-> asked + 1]
  <2>1. asked' = asked + 1 /\ queue' = Append(queue, e) /\ asked + 1 \in 0..MaxQuestions
    BY <1>8, <1>t, BoundsAssumption DEF AskQuestion
  <2>2. e \in Events /\ e.q = asked + 1
    BY <2>1 DEF Events, EventTypes
  <2> HIDE DEF e
  <2>3. \A n \in Int : n \in 1..asked => n \in 1..asked'
    BY <1>t, <2>1
  <2>4. asked + 1 \in 1..asked'
    BY <1>t, <2>1
  <2>5. \A i \in DOMAIN queue' : queue'[i].type \in DialogTypes => queue'[i].q \in 1..asked'
    BY <1>t, <2>1, <2>2, <2>3, <2>4, AppendEntries DEF QuestionsKnown
  <2>6. windowEvent'.type = "ask" => windowEvent'.q \in 1..asked'
    BY <1>8, <2>3 DEF AskQuestion, QuestionsKnown
  <2>7. \A n \in QuestionIds : shown'[n] > 0 => n <= asked'
    BY <1>8, <1>t, <2>1 DEF AskQuestion, QuestionsKnown, QuestionIds
  <2> QED
    BY <1>8, <2>5, <2>6, <2>7 DEF AskQuestion, QuestionsKnown
<1> QED
  BY <1>1, <1>2, <1>3, <1>4, <1>5, <1>6, <1>7, <1>8, <1>t, PlainOrDialog DEF DialogStep

\* As long as nothing is shown twice the message about the pending question is
\* passed on, never duplicated.
LEMMA NextOneMessage ==
  ASSUME Typed, QuestionsKnown, OneMessage, NoOrphans, [Next]_vars, ~Repeated'
  PROVE  OneMessage' /\ NoOrphans'
<1> USE DEF mainVars, rdpVars, sharedVars
<1>t. Scalars /\ DialogTyped /\ queue \in Seq(Events) /\ asked \in Nat
  BY BoundsAssumption DEF Typed, IInv, DialogTyped
<1>k. Answer \in Events /\ Answer.type = "answer" /\ Answer.q = windowEvent.q
  BY <1>t, NumbersTyped
<1>r. ~Repeated
  BY <1>t, RepeatedStays
<1> DEFINE Quiet(s) == \A i \in DOMAIN s : s[i].type \notin DialogTypes
<1>w. ASSUME NEW q2, Within(queue, q2), Quiet(queue) PROVE Quiet(q2)
  BY <1>w DEF Within
<1>h. ~abort /\ Held => Quiet(queue)
  BY DEF OneMessage, MessageIsPending
<1>1. CASE Plain
  <2>1. NoOrphans'
    BY <1>1 DEF Plain, NoOrphans
  <2>2. SUFFICES ASSUME ~abort' PROVE OneMessage'
    BY <2>1 DEF OneMessage
  <2>3. ~abort
    BY <1>1, <2>2 DEF Plain
  <2>4. Held' <=> Held
    BY <1>1 DEF Plain, Held, Unseen
  <2>5. (\A i \in DOMAIN queue' : queue'[i].type \in DialogTypes =>
             i \in DOMAIN queue /\ queue'[i] = queue[i])
    <3>1. CASE queue' = queue
      BY <3>1
    <3>2. ASSUME NEW e \in Events, e.type \notin DialogTypes, queue' = Append(queue, e)
          PROVE  \A i \in DOMAIN queue' : queue'[i].type \in DialogTypes =>
                    i \in DOMAIN queue /\ queue'[i] = queue[i]
      BY <1>t, <3>2, AppendEntries
    <3> QED
      BY <1>1, <3>1, <3>2 DEF Plain, QueueGrowsPlainly
  <2>6. MessageIsPending' /\ MessageIsAlone'
    BY <1>1, <2>3, <2>4, <2>5 DEF Plain, OneMessage, MessageIsPending, MessageIsAlone
  <2>7. HeldIsPending' /\ StaleWasShown'
    BY <1>1, <2>3, <2>4 DEF Plain, OneMessage, HeldIsPending, StaleWasShown
  <2> QED
    BY <2>6, <2>7 DEF OneMessage
<1>2. CASE PollEvent
  <2>0. NoOrphans'
    BY <1>2 DEF PollEvent, NoOrphans
  <2>1. SUFFICES ASSUME ~abort' PROVE OneMessage'
    BY <2>0 DEF OneMessage
  <2>2. /\ ~abort /\ mainPc = "poll" /\ mainPc' = "handle"
        /\ UNCHANGED <<shown, asked, rdpPc>>
    BY <1>2, <2>1 DEF PollEvent
  <2>3. CASE windowEvent' = windowEvent /\ queue' = queue
    <3>1. ~Held /\ ~Held'
      BY <2>2, <2>3 DEF Held, Unseen, OneMessage, StaleWasShown
    <3> QED
      BY <2>2, <2>3, <3>1
         DEF OneMessage, MessageIsPending, MessageIsAlone, HeldIsPending, StaleWasShown
  <2>4. ASSUME NEW i \in DOMAIN queue, windowEvent' = queue[i], queue' = Without(i)
        PROVE  OneMessage'
    <3>1. Within(queue, queue')
      BY <1>t, <2>4, WithoutWithin
    <3>2. CASE queue[i].type \in DialogTypes
      <4>1. PICK e \in [DOMAIN queue' -> DOMAIN queue] :
              \A j \in DOMAIN queue' : queue'[j] = queue[e[j]] /\ e[j] # i
        BY <1>t, <2>4, WithoutWithin
      <4>2. Quiet(queue')
        BY <2>2, <3>2, <4>1 DEF OneMessage, MessageIsAlone
      <4>3. windowEvent'.q = asked /\ rdpPc = "await"
        BY <2>2, <2>4, <3>2 DEF OneMessage, MessageIsPending
      <4> QED
        BY <2>2, <4>2, <4>3
           DEF OneMessage, MessageIsPending, MessageIsAlone, HeldIsPending, StaleWasShown
    <3>3. CASE queue[i].type \notin DialogTypes
      <4>1. ~Held'
        BY <2>2, <2>4, <3>3 DEF Held, Unseen, DialogTypes
      <4>2. MessageIsPending' /\ MessageIsAlone'
        BY <2>2, <3>1, <4>1 DEF OneMessage, MessageIsPending, MessageIsAlone, Within
      <4> QED
        BY <2>2, <4>1, <4>2 DEF OneMessage, HeldIsPending, StaleWasShown
    <3> QED
      BY <3>2, <3>3
  <2> QED
    BY <1>2, <1>t, <2>3, <2>4, PollTakes
<1>3. CASE EventGone
  <2>1. /\ UNCHANGED <<mainPc, shown, asked, rdpPc, queue, abort, takenFor>>
        /\ windowEvent'.type # "ask" /\ mainPc = "poll"
    BY <1>3 DEF EventGone, NoEvent
  <2>2. ~Held /\ ~Held'
    BY <2>1 DEF Held, Unseen
  <2>3. NoOrphans'
    BY <2>1 DEF NoOrphans
  <2> QED
    BY <2>1, <2>2, <2>3
       DEF OneMessage, MessageIsPending, MessageIsAlone, HeldIsPending, StaleWasShown
<1>4. CASE ShowDialog
  <2>0. /\ mainPc = "handle" /\ mainPc' = "dialog" /\ windowEvent.type = "ask"
        /\ UNCHANGED <<windowEvent, asked, rdpPc, queue, abort, takenFor>>
        /\ shown' = [shown EXCEPT ![windowEvent.q] = @ + 1]
    BY <1>4 DEF ShowDialog, Handling
  <2>1. windowEvent.q \in QuestionIds
    BY <1>t, <2>0, BoundsAssumption DEF QuestionsKnown, QuestionIds, DialogTyped
  <2>2. shown'[windowEvent.q] = shown[windowEvent.q] + 1 /\ shown[windowEvent.q] \in Nat
    BY <1>t, <2>0, <2>1, BoundsAssumption DEF DialogTyped
  <2>3. ~(shown'[windowEvent.q] > 1)
    BY <2>1 DEF Repeated
  <2>4. shown[windowEvent.q] = 0
    BY <2>2, <2>3
  <2>5. Held
    BY <2>0, <2>4 DEF Held, Unseen
  <2>6. NoOrphans'
    BY <2>0 DEF NoOrphans
  <2>7. SUFFICES ASSUME ~abort PROVE OneMessage'
    BY <2>0, <2>6 DEF OneMessage
  <2>8. Quiet(queue) /\ windowEvent.q = asked /\ rdpPc = "await"
    BY <1>h, <2>5, <2>7 DEF OneMessage, HeldIsPending
  <2>9. shown'[windowEvent.q] > 0
    BY <2>2
  <2> QED
    BY <2>0, <2>8, <2>9
       DEF OneMessage, MessageIsPending, MessageIsAlone, HeldIsPending, StaleWasShown
<1>5. CASE AnswerDialog \/ FormTakesEvent
  <2>0. UNCHANGED <<windowEvent, shown, asked, rdpPc, abort, takenFor>> /\ mainPc = "dialog"
    BY <1>5 DEF AnswerDialog, FormTakesEvent
  <2>1. NoOrphans'
    BY <2>0 DEF NoOrphans
  <2>2. SUFFICES ASSUME ~abort PROVE OneMessage'
    BY <2>0, <2>1 DEF OneMessage
  <2>3. Held /\ Quiet(queue) /\ windowEvent.q = asked /\ rdpPc = "await"
    BY <1>h, <2>0, <2>2 DEF Held, OneMessage, HeldIsPending
  <2>4. windowEvent.type = "ask" /\ shown[windowEvent.q] > 0
    BY <2>0 DEF QuestionsKnown
  <2>5. CASE mainPc' = mainPc /\ Within(queue, queue')
    <3>1. Quiet(queue')
      BY <1>w, <2>3, <2>5
    <3> QED
      BY <2>0, <2>3, <2>4, <2>5, <3>1
         DEF OneMessage, MessageIsPending, MessageIsAlone, HeldIsPending, StaleWasShown
  <2>6. ASSUME NEW left \in Seq(Events), Within(queue, left), queue' = Append(left, Answer),
               mainPc' = "poll"
        PROVE  OneMessage'
    <3>1. Quiet(left)
      BY <1>w, <2>3, <2>6
    <3>2. \A i \in DOMAIN queue' : queue'[i].type \in DialogTypes =>
             i = Len(left) + 1 /\ queue'[i] = Answer
      BY <1>k, <2>6, <3>1, AppendEntries
    <3>3. ~Held'
      BY <2>6 DEF Held, Unseen
    <3> QED
      BY <1>k, <2>0, <2>3, <2>4, <3>2, <3>3
         DEF OneMessage, MessageIsPending, MessageIsAlone, HeldIsPending, StaleWasShown
  <2> QED
    BY <1>5, <1>t, <2>5, <2>6, DialogQueue
<1>6. CASE TakeResult
  <2>0. UNCHANGED <<windowEvent, shown, asked, abort, mainPc>> /\ ~abort
    BY <1>6 DEF TakeResult
  <2>1. PICK i \in DOMAIN queue : /\ queue[i].type = "answer" /\ queue' = Without(i)
                                  /\ takenFor' = [takenFor EXCEPT ![asked] = queue[i].q]
    BY <1>6, <1>t, ResultTaken
  <2>2. queue[i].type \in DialogTypes /\ queue[i].q = asked /\ ~Held
    BY <2>0, <2>1 DEF DialogTypes, OneMessage, MessageIsPending
  <2>3. NoOrphans'
    BY <1>t, <2>1, <2>2 DEF NoOrphans, DialogTyped
  <2>4. PICK e \in [DOMAIN queue' -> DOMAIN queue] :
          \A j \in DOMAIN queue' : queue'[j] = queue[e[j]] /\ e[j] # i
    BY <1>t, <2>1, WithoutWithin
  <2>5. Quiet(queue')
    BY <2>0, <2>2, <2>4 DEF OneMessage, MessageIsAlone
  <2>6. ~Held'
    BY <2>0, <2>2 DEF Held, Unseen
  <2> QED
    BY <2>0, <2>3, <2>5, <2>6
       DEF OneMessage, MessageIsPending, MessageIsAlone, HeldIsPending, StaleWasShown
<1>7. CASE GiveUpOnResult
  BY <1>7 DEF GiveUpOnResult, At, OneMessage, NoOrphans
<1>8. ASSUME NEW k \in Kinds, AskQuestion(k) PROVE OneMessage' /\ NoOrphans'
  <2> DEFINE e == [type |-> "ask", q |-> asked + 1]
  <2>0. /\ UNCHANGED <<windowEvent, shown, abort, mainPc, takenFor>>
        /\ asked' = asked + 1 /\ queue' = Append(queue, e) /\ asked + 1 \in 0..MaxQuestions
        /\ rdpPc # "await" /\ rdpPc' = "await"
    BY <1>8, <1>t, BoundsAssumption DEF AskQuestion
  <2>1. e \in Events /\ e.q = asked'
    BY <2>0 DEF Events, EventTypes
  <2> HIDE DEF e
  <2>2. NoOrphans'
    BY <2>0 DEF NoOrphans
  <2>3. SUFFICES ASSUME ~abort PROVE OneMessage'
    BY <2>0, <2>2 DEF OneMessage
  <2>4. Quiet(queue) /\ ~Held
    BY <2>0, <2>3 DEF OneMessage, MessageIsPending, HeldIsPending
  <2>5. ~Held'
    BY <2>0, <2>4 DEF Held, Unseen
  <2>6. \A i \in DOMAIN queue' : queue'[i].type \in DialogTypes =>
           i = Len(queue) + 1 /\ queue'[i] = e
    BY <1>t, <2>0, <2>1, <2>4, AppendEntries
  <2> QED
    BY <2>0, <2>1, <2>3, <2>5, <2>6
       DEF OneMessage, MessageIsPending, MessageIsAlone, HeldIsPending, StaleWasShown
<1> QED
  BY <1>1, <1>2, <1>3, <1>4, <1>5, <1>6, <1>7, <1>8, <1>t, PlainOrDialog DEF DialogStep

\* The types and what is known of questions and answers, in every reachable state.
THEOREM SessionMessages == Spec => [](Typed /\ Messages)
<1>1. Init => Typed /\ Messages
  <2> SUFFICES ASSUME Init PROVE Messages
    BY InitTyped
  <2>1. QuestionsKnown
    BY DEF Init, QuestionsKnown, NoEvent
  <2>2. OneMessage
    BY DEF Init, OneMessage, MessageIsPending, MessageIsAlone, HeldIsPending, StaleWasShown,
           Held, Unseen, NoEvent
  <2>3. NoOrphans
    BY DEF Init, NoOrphans
  <2> QED
    BY <2>1, <2>2, <2>3 DEF Messages
<1>2. Typed /\ Messages /\ [Next]_vars => (Typed /\ Messages)'
  <2> SUFFICES ASSUME Typed, Messages, [Next]_vars PROVE Messages'
    BY NextTyped
  <2>1. QuestionsKnown'
    BY NextQuestionsKnown DEF Messages
  <2>2. ~Repeated' => ~Repeated
    BY RepeatedStays DEF Typed, IInv
  <2>3. ~Repeated' => OneMessage' /\ NoOrphans'
    BY <2>2, NextOneMessage DEF Messages
  <2> QED
    BY <2>1, <2>3 DEF Messages
<1> QED
  BY <1>1, <1>2, PTL DEF Spec

\* sdl_wait_for_result() hands the library the answer to its own question, unless
\* a dialog was shown twice: an answer left over from another question is never
\* in the queue while the thread waits.
THEOREM SessionAnswersMatch == Spec => []OrphansComeFromRepeats
<1>1. Messages => OrphansComeFromRepeats
  BY DEF Messages, NoOrphans, OrphansComeFromRepeats
<1> QED
  BY <1>1, SessionMessages, PTL

-----------------------------------------------------------------------------
(* Drawing: what keeps the main thread going until no rectangle is left.     *)

UpdateQueued == \E i \in DOMAIN queue : queue[i].type = "update"

\* One of the threads is at the work that ends with the rectangles drawn.
AtWork ==
  rdpPc = "painted" \/ mainPc \in {"update", "drawMore"}
  \/ (mainPc = "handle" /\ windowEvent.type = "update")

FormShown == \E n \in QuestionIds : kindOf[n] \in FormKinds /\ shown[n] > 0

\* What a step does to the work, apart from the queue.
WorkGoesOn ==
  /\ rects = 0 => rects' = 0 \/ rdpPc' = "painted"
  /\ AtWork => AtWork' \/ rects' = 0 \/ PushUpdate \/ MainLeaving'
  /\ abort => abort'
  /\ MainLeaving => MainLeaving'

LEMMA WorkSteps ==
  ASSUME Scalars, rects \in Nat, [Next]_vars
  PROVE  WorkGoesOn
<1> USE DEF Scalars, WorkGoesOn, AtWork, MainLeaving, mainVars, rdpVars, sharedVars
<1>1. PollEvent => WorkGoesOn
  BY DEF PollEvent
<1>2. EventGone => WorkGoesOn
  BY DEF EventGone
<1>3. LeaveLoop => WorkGoesOn
  BY DEF LeaveLoop
<1>4. HandleWindowEvent => WorkGoesOn
  BY DEF HandleWindowEvent, Handling, Throw
<1>5. HandleInput => WorkGoesOn
  BY DEF HandleInput, Handling, Throw
<1>6. HandleQuit => WorkGoesOn
  BY DEF HandleQuit
<1>7. HandleUpdate => WorkGoesOn
  BY DEF HandleUpdate, Handling
<1>8. PopRectangles => WorkGoesOn
  BY DEF PopRectangles
<1>9. DrawToWindow => WorkGoesOn
  BY DEF DrawToWindow
<1>10. HandleCreateWindows => WorkGoesOn
  BY DEF HandleCreateWindows, Handling, Throw
<1>11. HandleConfigureFloatbar => WorkGoesOn
  BY DEF HandleConfigureFloatbar, Handling, Throw
<1>12. ShowDialog => WorkGoesOn
  BY DEF ShowDialog, Handling
<1>13. FormTakesEvent => WorkGoesOn
  BY DEF FormTakesEvent
<1>14. Stop => WorkGoesOn
  BY DEF Stop
<1>15. Join => WorkGoesOn
  BY DEF Join
<1>16. RdpThreadStarts => WorkGoesOn
  BY DEF RdpThreadStarts, At
<1>17. TakeResult => WorkGoesOn
  BY DEF TakeResult, At
<1>18. GiveUpOnResult => WorkGoesOn
  BY DEF GiveUpOnResult, At
<1>19. WindowsCreated => WorkGoesOn
  BY DEF WindowsCreated, At
<1>20. WindowsAborted => WorkGoesOn
  BY DEF WindowsAborted, At
<1>21. ConfigureFloatbar => WorkGoesOn
  BY DEF ConfigureFloatbar, At
<1>22. FloatbarConfigured => WorkGoesOn
  BY DEF FloatbarConfigured, At
<1>23. PushUpdate => WorkGoesOn
  BY DEF PushUpdate, At
<1>24. PostDisconnect => WorkGoesOn
  BY DEF PostDisconnect, At
<1>25. GdiFree => WorkGoesOn
  BY DEF GdiFree, At
<1>26. ClientCleanup => WorkGoesOn
  BY DEF ClientCleanup, At
<1>27. LoginStarts => WorkGoesOn
  BY DEF LoginStarts, At
<1>28. EndPaint => WorkGoesOn
  BY DEF EndPaint, At
<1>29. ConnectionLost => WorkGoesOn
  BY DEF ConnectionLost, At
<1>30. Reconnected => WorkGoesOn
  BY DEF Reconnected, At
<1>31. WaitForWindowsCreated => WorkGoesOn
  BY DEF WaitForWindowsCreated, At
<1>32. AnswerDialog => WorkGoesOn
  BY DEF AnswerDialog
<1>33. ConnectFails => WorkGoesOn
  BY DEF ConnectFails
<1>34. LeaveRun => WorkGoesOn
  BY DEF LeaveRun, At
<1>35. GdiFails => WorkGoesOn
  BY DEF GdiFails, At
<1>36. LoginEnds => WorkGoesOn
  BY DEF LoginEnds, At
<1>37. ASSUME NEW k \in Kinds, AskQuestion(k) PROVE WorkGoesOn
  BY <1>37 DEF AskQuestion
<1>38. ASSUME NEW t \in UserEventTypes, UserActs(t) PROVE WorkGoesOn
  BY <1>38 DEF UserActs
<1>39. UNCHANGED vars => WorkGoesOn
  BY DEF vars
<1> HIDE DEF WorkGoesOn
<1> QED
  BY <1>1, <1>2, <1>3, <1>4, <1>5, <1>6, <1>7, <1>8, <1>9, <1>10, <1>11, <1>12, <1>13,
     <1>14, <1>15, <1>16, <1>17, <1>18, <1>19, <1>20, <1>21, <1>22, <1>23, <1>24, <1>25, <1>26,
     <1>27, <1>28, <1>29, <1>30, <1>31, <1>32, <1>33, <1>34, <1>35, <1>36, <1>37, <1>38, <1>39
     DEF Next, MainStep, RdpStep, ServerStep, RdpGivesUp

\* A question that was shown keeps its kind.
LEMMA FormShownStays ==
  ASSUME Typed, QuestionsKnown, [Next]_vars, FormShown
  PROVE  FormShown'
<1>t. Scalars /\ DialogTyped /\ asked \in Nat
  BY BoundsAssumption DEF Typed, IInv, DialogTyped
<1>1. PICK n \in QuestionIds : kindOf[n] \in FormKinds /\ shown[n] > 0
  BY DEF FormShown
<1>2. shown'[n] > 0
  BY <1>t, <1>1, RepeatedStays
<1>3. n <= asked
  BY <1>1 DEF QuestionsKnown
<1>4. kindOf'[n] = kindOf[n]
  <2>1. Plain => kindOf' = kindOf
    BY DEF Plain
  <2>2. ASSUME NEW k \in Kinds, AskQuestion(k) PROVE kindOf'[n] = kindOf[n]
    <3>1. kindOf' = [kindOf EXCEPT ![asked + 1] = k] /\ n # asked + 1
      BY <1>t, <1>3, <2>2 DEF AskQuestion, QuestionIds
    <3> QED
      BY <1>t, <3>1 DEF DialogTyped
  <2>3. DialogStep => kindOf' = kindOf \/ \E k \in Kinds : AskQuestion(k)
    BY DEF DialogStep, PollEvent, EventGone, ShowDialog, AnswerDialog, FormTakesEvent,
           TakeResult, GiveUpOnResult, rdpVars
  <2> QED
    BY <1>t, <2>1, <2>2, <2>3, PlainOrDialog
<1> QED
  BY <1>1, <1>2, <1>4 DEF FormShown

\* The event that announces rectangles is only taken by sdl_run() or by a form.
LEMMA UpdateStays ==
  ASSUME Typed, QuestionsKnown, [Next]_vars, UpdateQueued
  PROVE  UpdateQueued' \/ AtWork' \/ abort \/ FormShown
<1>t. Scalars /\ DialogTyped /\ queue \in Seq(Events)
  BY DEF Typed, IInv, DialogTyped
<1>0. PICK u \in DOMAIN queue : queue[u].type = "update"
  BY DEF UpdateQueued
<1>a. ASSUME NEW s \in Seq(Events), NEW e \in Events, queue' = Append(s, e),
             \E j \in DOMAIN s : s[j].type = "update"
      PROVE  UpdateQueued'
  <2>1. PICK j \in DOMAIN s : s[j].type = "update"
    BY <1>a
  <2>2. j \in DOMAIN queue' /\ queue'[j] = s[j]
    BY <1>a, AppendEntries
  <2> QED
    BY <2>1, <2>2 DEF UpdateQueued
<1>1. CASE Plain
  BY <1>t, <1>0, <1>1, <1>a DEF Plain, QueueGrowsPlainly, UpdateQueued
<1>2. CASE PollEvent
  <2>1. CASE queue' = queue
    BY <1>0, <2>1 DEF UpdateQueued
  <2>2. ASSUME NEW i \in DOMAIN queue, windowEvent' = queue[i], queue' = Without(i)
        PROVE  UpdateQueued' \/ AtWork' \/ abort \/ FormShown
    <3>1. CASE i = u
      BY <1>0, <1>2, <2>2, <3>1 DEF PollEvent, AtWork
    <3>2. CASE i # u
      <4>1. \E j \in DOMAIN queue' : queue'[j] = queue[u]
        BY <1>t, <2>2, <3>2, WithoutWithin
      <4> QED
        BY <1>0, <4>1 DEF UpdateQueued
    <3> QED
      BY <3>1, <3>2
  <2> QED
    BY <1>2, <1>t, <2>1, <2>2, PollTakes
<1>3. CASE EventGone \/ ShowDialog \/ GiveUpOnResult
  BY <1>0, <1>3 DEF EventGone, ShowDialog, GiveUpOnResult, sharedVars, UpdateQueued
<1>4. CASE AnswerDialog
  <2>1. Answer \in Events
    BY <1>t, NumbersTyped
  <2>2. queue' = Append(queue, Answer) \/ queue' = Append(Flushed, Answer)
    BY <1>4 DEF AnswerDialog
  <2>3. Flushed \in Seq(Events) /\ \E j \in DOMAIN Flushed : Flushed[j] = queue[u]
    BY <1>t, <1>0, FlushedWithin DEF UserEventTypes
  <2> QED
    BY <1>t, <1>0, <1>a, <2>1, <2>2, <2>3
<1>5. CASE FormTakesEvent
  <2>1. windowEvent.q \in QuestionIds /\ shown[windowEvent.q] > 0
    BY <1>t, <1>5, BoundsAssumption
       DEF FormTakesEvent, QuestionsKnown, QuestionIds, DialogTyped
  <2> QED
    BY <1>5, <2>1 DEF FormTakesEvent, IsForm, FormShown
<1>6. CASE TakeResult
  <2>1. PICK i \in DOMAIN queue : queue[i].type = "answer" /\ queue' = Without(i)
    BY <1>6, <1>t, ResultTaken
  <2>2. i # u
    BY <1>0, <2>1
  <2>3. \E j \in DOMAIN queue' : queue'[j] = queue[u]
    BY <1>t, <2>1, <2>2, WithoutWithin
  <2> QED
    BY <1>0, <2>3 DEF UpdateQueued
<1>7. ASSUME NEW k \in Kinds, AskQuestion(k) PROVE UpdateQueued'
  <2>1. asked + 1 \in 0..MaxQuestions
    BY <1>7, <1>t, BoundsAssumption DEF AskQuestion, DialogTyped
  <2>2. [type |-> "ask", q |-> asked + 1] \in Events
    BY <2>1 DEF Events, EventTypes
  <2> QED
    BY <1>7, <1>t, <1>0, <1>a, <2>2 DEF AskQuestion
<1> QED
  BY <1>1, <1>2, <1>3, <1>4, <1>5, <1>6, <1>7, <1>t, PlainOrDialog DEF DialogStep

\* No rectangle that endPaint() has queued is forgotten.
THEOREM SessionPaintedIsDrawn == Spec => []PaintedIsDrawn
<1> DEFINE Drawn == rects = 0 \/ AtWork \/ UpdateQueued \/ abort \/ MainLeaving \/ FormShown
<1>1. PaintedIsDrawn <=> Drawn
  BY DEF PaintedIsDrawn, AtWork, UpdateQueued, FormShown, Handling
<1>2. Init => Drawn
  BY DEF Init
<1>3. ASSUME Typed, Messages, Drawn, [Next]_vars PROVE Drawn'
  <2>1. Scalars /\ rects \in Nat /\ QuestionsKnown
    BY <1>3, BoundsAssumption DEF Typed, IInv, CountersTyped, Messages
  <2>2. WorkGoesOn
    BY <1>3, <2>1, WorkSteps
  <2>3. CASE abort \/ MainLeaving
    BY <2>2, <2>3 DEF WorkGoesOn
  <2>4. CASE FormShown
    BY <1>3, <2>1, <2>4, FormShownStays
  <2>5. CASE rects = 0
    BY <2>2, <2>5 DEF WorkGoesOn, AtWork
  <2>6. CASE UpdateQueued
    BY <1>3, <2>1, <2>3, <2>4, <2>6, UpdateStays
  <2>7. CASE AtWork
    <3>1. PushUpdate => UpdateQueued'
      <4> SUFFICES ASSUME PushUpdate PROVE UpdateQueued'
        OBVIOUS
      <4>1. queue \in Seq(Events) /\ Event("update") \in Events /\ Event("update").type = "update"
        BY <1>3, EventsOfTypes DEF Typed, DialogTyped
      <4>2. queue' = Append(queue, Event("update"))
        BY DEF PushUpdate
      <4>3. Len(queue) + 1 \in DOMAIN queue' /\ queue'[Len(queue) + 1].type = "update"
        BY <4>1, <4>2, AppendEntries
      <4> QED
        BY <4>3 DEF UpdateQueued
    <3> QED
      BY <2>2, <2>7, <3>1 DEF WorkGoesOn
  <2> QED
    BY <1>3, <2>3, <2>4, <2>5, <2>6, <2>7
<1> HIDE DEF Drawn
<1> QED
  BY <1>1, <1>2, <1>3, SessionMessages, PTL DEF Spec
=============================================================================
