----------------------------- MODULE FloatbarProofs -----------------------------
(***************************************************************************)
(* The floating bar for any windows, widths, sizes and parts: it stays on  *)
(* the screen, drawn and hit where it is, hidden once the pointer has      *)
(* left, open under a moving pointer, and a click that closes the menu     *)
(* sets off nothing else unless another button joins in.  The bar is always in the window the pointer is  *)
(* in, its menu is never open while it is dragged, and a dismissed menu's  *)
(* release is still to be swallowed: these make the rest inductive.        *)
(***************************************************************************)
EXTENDS Floatbar, TLAPS

(* A place within a window of width w, between sliver and fully shown. *)
InPlace(x, y, w) ==
  /\ x \in Int /\ 0 <= x /\ x <= Room(w)
  /\ y \in Int /\ Hidden <= y /\ y <= 0

Measured ==
  /\ wide \in [Windows -> WindowWidths]
  /\ width \in WindowWidths
  /\ barWindow \in Windows
  /\ grabX \in Int /\ px \in Int /\ py \in Int
  /\ InPlace(offsetX, offsetY, width)

(* The bar follows the pointer. *)
PointerAtBar == at # Outside => at = barWindow

MenuNotDragged == menuOpen => ~dragging

DismissedIsSuppressed == alone => suppress /\ attached

IInv == /\ Measured /\ PointerAtBar /\ MenuNotDragged /\ DismissedIsSuppressed
        /\ LaidOutAtBar /\ LeftMeansHidden
--------------------------------------------------------------------------------
(* Lengths. *)

LEMMA Lengths ==
  /\ \A w \in WindowWidths : w \in Nat /\ Room(w) \in Nat /\ Centre(w) \in 0..Room(w)
  /\ Hidden \in Int /\ Hidden <= 0
  /\ Xs \subseteq Nat
<1> USE FloatbarAssumption
<1>1. \A w \in WindowWidths : w \in Nat /\ Room(w) \in Nat
  BY DEF Room, Larger
<1>2. \A r \in Nat : r \div 2 \in 0..r
  OBVIOUS
<1>3. Hidden \in Int /\ Hidden <= 0
  BY DEF Hidden
<1>4. Xs \subseteq Nat
  BY <1>1 DEF Xs
<1>. QED BY <1>1, <1>2, <1>3, <1>4 DEF Centre

LEMMA Shifted ==
  ASSUME NEW a \in Int, NEW b \in Int
  PROVE  a + (b - a) = b
OBVIOUS

LEMMA ClampStays ==
  ASSUME NEW a \in Int, NEW high \in Nat
  PROVE  Clamp(a, 0, high) \in 0..high
BY DEF Clamp, Larger, Smaller

LEMMA LargerIsNat ==
  ASSUME NEW a \in Int
  PROVE  Larger(0, a) \in Nat
BY DEF Larger

(* One step of the slide stays between sliver and fully shown, and a bar   *)
(* that is wanted does not retract.                                        *)
LEMMA SlideStays ==
  ASSUME offsetY \in Int, Hidden <= offsetY, offsetY <= 0, NEW wanted
  PROVE  /\ Slide(wanted) \in Int /\ Hidden <= Slide(wanted) /\ Slide(wanted) <= 0
         /\ wanted => Slide(wanted) >= offsetY
<1> USE FloatbarAssumption, Lengths
<1>1. CASE wanted
  BY <1>1 DEF Slide, Smaller
<1>2. CASE ~wanted
  BY <1>2 DEF Slide, Larger
<1>. QED BY <1>1, <1>2

LEMMA DragStays ==
  ASSUME Measured, NEW x \in Int
  PROVE  DraggedTo(x) \in Int /\ 0 <= DraggedTo(x) /\ DraggedTo(x) <= Room(width)
<1>1. CASE dragging
  <2>1. x - grabX \in Int /\ Room(width) \in Nat
    BY Lengths DEF Measured
  <2>2. Clamp(x - grabX, 0, Room(width)) \in 0..Room(width)
    BY <2>1, ClampStays
  <2>3. DraggedTo(x) = Clamp(x - grabX, 0, Room(width))
    BY <1>1 DEF DraggedTo
  <2>. QED BY <2>1, <2>2, <2>3
<1>2. CASE ~dragging
  BY <1>2 DEF Measured, InPlace, DraggedTo
<1>. QED BY <1>1, <1>2

(* What rebuildButtons() leaves behind is laid out at the bar. *)
LEMMA RebuiltAtBar ==
  ASSUME RebuildButtons
  PROVE  LaidOutAtBar'
BY DEF RebuildButtons, LaidOutAtBar
--------------------------------------------------------------------------------
(* Attaching. *)

LEMMA AttachKeeps ==
  ASSUME IInv, NEW w \in Windows, NEW newWidth \in WindowWidths, NEW same,
         Attach(w, newWidth, same)
  PROVE  /\ width' \in WindowWidths /\ grabX' \in Int
         /\ InPlace(offsetX', offsetY', width')
         /\ LaidOutAtBar'
         /\ ~menuOpen'
         /\ ~alone'
         /\ (attached' /\ ~pinned' /\ (same => offsetY = Hidden /\ ~dragging))
              => offsetY' = Hidden /\ ~dragging'
<1> USE DEF IInv, Measured
<1>1. ~menuOpen' /\ ~alone'
  BY DEF Attach
<1>2. CASE w \notin Rendered
  <2>1. ~attached' /\ UNCHANGED <<width, grabX, offsetX, offsetY>>
    BY <1>2 DEF Attach, place
  <2>. QED BY <1>1, <2>1 DEF LaidOutAtBar
<1>3. CASE w \in Rendered /\ same
  <2>1. Follow(newWidth) /\ RebuildButtons
    BY <1>3 DEF Attach
  <2>2. width' = newWidth /\ UNCHANGED <<offsetY, grabX, dragging, pinned>>
    BY <2>1 DEF Follow
  <2>3. offsetX' \in 0..Room(newWidth)
    <3>1. Clamp(offsetX, 0, Room(newWidth)) \in 0..Room(newWidth)
      BY ClampStays, Lengths DEF InPlace
    <3>2. offsetX' = Clamp(offsetX, 0, Room(newWidth)) \/ offsetX' = Centre(newWidth)
      BY <2>1 DEF Follow
    <3>. QED BY <3>1, <3>2, Lengths
  <2>4. InPlace(offsetX', offsetY', width')
    BY <2>2, <2>3, Lengths DEF InPlace
  <2>. QED BY <1>1, <1>3, <2>1, <2>2, <2>4, RebuiltAtBar
<1>4. CASE w \in Rendered /\ ~same
  <2>1. Configure(newWidth) /\ RebuildButtons
    BY <1>4 DEF Attach
  <2>2. /\ width' = newWidth /\ offsetX' = Centre(newWidth) /\ offsetY' = Hidden
        /\ grabX' = 0 /\ dragging' = FALSE
    BY <2>1 DEF Configure
  <2>3. InPlace(offsetX', offsetY', width')
    BY <2>2, Lengths DEF InPlace
  <2>. QED BY <1>1, <2>1, <2>2, <2>3, RebuiltAtBar
<1>. QED BY <1>2, <1>3, <1>4

LEMMA InitEstablishes == Init => IInv
<1> SUFFICES ASSUME Init PROVE IInv
    OBVIOUS
<1>1. wide[FirstWindow] \in WindowWidths /\ width \in WindowWidths
  BY FloatbarAssumption DEF Init
<1>2. InPlace(offsetX, offsetY, width)
  BY <1>1, Lengths DEF Init, InPlace
<1>3. Measured
  BY <1>1, <1>2, FloatbarAssumption DEF Init, Measured
<1>4. PointerAtBar /\ MenuNotDragged /\ DismissedIsSuppressed /\ LaidOutAtBar /\ LeftMeansHidden
  BY DEF Init, PointerAtBar, MenuNotDragged, DismissedIsSuppressed, LaidOutAtBar, LeftMeansHidden
<1>. QED BY <1>3, <1>4 DEF IInv
--------------------------------------------------------------------------------
(* The pointer. *)

LEMMA MotionKeeps ==
  ASSUME IInv, NEW x \in Xs, NEW y \in 0..Depth, MouseMotion(x, y)
  PROVE  IInv'
<1> USE DEF IInv
<1>0. x \in Int /\ y \in Int
  BY Lengths, FloatbarAssumption
<1>1. /\ at # Outside /\ px' = x /\ py' = y
      /\ UNCHANGED <<wide, barWindow, at, alone>>
  BY DEF MouseMotion, clicks, dismissal
<1>2. CASE ~InBarWindow
  <2>1. UNCHANGED <<attached, width, grabX, dragging, pinned, menuOpen, suppress,
                    offsetX, offsetY, buttonsX, buttonsY, menuX, menuY>>
    BY <1>2 DEF MouseMotion, bar, place
  <2>. QED BY <1>0, <1>1, <2>1
          DEF Measured, PointerAtBar, MenuNotDragged, DismissedIsSuppressed, LaidOutAtBar,
              LeftMeansHidden
<1>3. CASE InBarWindow
  <2>1. /\ offsetX' = DraggedTo(x)
        /\ offsetY' = Slide(Wanted(x, y, DraggedTo(x)))
        /\ UNCHANGED <<attached, width, grabX, dragging, pinned, menuOpen, suppress>>
        /\ \/ RebuildButtons
           \/ /\ offsetY' = offsetY
              /\ buttonsX' = buttonsX + (offsetX' - offsetX)
              /\ UNCHANGED <<buttonsY, menuX, menuY>>
    BY <1>3 DEF MouseMotion
  <2>2. InPlace(offsetX', offsetY', width')
    <3>1. offsetX' \in Int /\ 0 <= offsetX' /\ offsetX' <= Room(width)
      BY <1>0, <2>1, DragStays
    <3>2. offsetY' \in Int /\ Hidden <= offsetY' /\ offsetY' <= 0
      <4>1. offsetY \in Int /\ Hidden <= offsetY /\ offsetY <= 0
        BY DEF Measured, InPlace
      <4>. QED BY <2>1, <4>1, SlideStays
    <3>3. InPlace(offsetX', offsetY', width)
      BY <3>1, <3>2 DEF InPlace
    <3>4. width' = width
      BY <2>1
    <3>. QED BY <3>3, <3>4
  <2>3. Measured'
    BY <1>0, <1>1, <2>1, <2>2 DEF Measured
  <2>4. LaidOutAtBar'
    <3>1. CASE RebuildButtons
      BY <3>1, RebuiltAtBar
    <3>2. CASE /\ offsetY' = offsetY
               /\ buttonsX' = buttonsX + (offsetX' - offsetX)
               /\ UNCHANGED <<buttonsY, menuX, menuY>>
      <4>1. attached /\ buttonsX = offsetX /\ buttonsY = offsetY
        BY <1>3 DEF InBarWindow, LaidOutAtBar
      <4>2. buttonsX' = offsetX'
        <5>1. offsetX \in Int
          BY DEF Measured, InPlace
        <5>2. offsetX' \in Int
          BY <2>2 DEF InPlace
        <5>3. buttonsX' = offsetX + (offsetX' - offsetX)
          BY <3>2, <4>1
        <5>4. offsetX + (offsetX' - offsetX) = offsetX'
          BY <5>1, <5>2, Shifted
        <5>. QED BY <5>3, <5>4
      <4>3. menuOpen => offsetX' = offsetX
        BY <2>1 DEF MenuNotDragged, DraggedTo
      <4>. QED BY <2>1, <3>2, <4>1, <4>2, <4>3 DEF LaidOutAtBar
    <3>. QED BY <2>1, <3>1, <3>2
  <2>. QED BY <1>1, <2>1, <2>3, <2>4
          DEF PointerAtBar, MenuNotDragged, DismissedIsSuppressed, LeftMeansHidden
<1>. QED BY <1>2, <1>3

LEMMA LeaveKeeps ==
  ASSUME IInv, MouseLeave
  PROVE  IInv'
<1> USE DEF IInv
<1>1. /\ at = barWindow /\ at' = Outside /\ px' = 0 /\ py' = 0
      /\ UNCHANGED <<wide, barWindow, alone>>
  BY DEF MouseLeave, PointerAtBar, clicks, dismissal
<1>2. CASE ~attached
  <2>1. UNCHANGED <<attached, width, grabX, dragging, pinned, menuOpen, suppress,
                    offsetX, offsetY, buttonsX, buttonsY, menuX, menuY>>
    BY <1>2 DEF MouseLeave, bar, place
  <2>. QED BY <1>1, <1>2, <2>1
          DEF Measured, PointerAtBar, MenuNotDragged, DismissedIsSuppressed, LaidOutAtBar,
              LeftMeansHidden
<1>3. CASE attached
  <2>1. /\ dragging' = FALSE /\ grabX' = 0 /\ menuOpen' = FALSE
        /\ offsetY' = IF pinned THEN 0 ELSE Hidden
        /\ UNCHANGED <<attached, width, offsetX, pinned, suppress>>
        /\ RebuildButtons
    BY <1>1, <1>3 DEF MouseLeave
  <2>2. InPlace(offsetX', offsetY', width')
    BY <2>1, Lengths DEF Measured, InPlace
  <2>3. Measured'
    BY <1>1, <2>1, <2>2 DEF Measured
  <2>. QED BY <1>1, <2>1, <2>3, RebuiltAtBar
          DEF PointerAtBar, MenuNotDragged, DismissedIsSuppressed, LeftMeansHidden
<1>. QED BY <1>2, <1>3

LEMMA EnterKeeps ==
  ASSUME IInv, NEW w \in Windows, NEW x \in Xs, NEW y \in 0..Depth, MouseEnter(w, x, y)
  PROVE  IInv'
<1> USE DEF IInv
<1>0. x \in Int /\ y \in Int /\ w # Outside /\ wide[w] \in WindowWidths
  BY Lengths, FloatbarAssumption DEF Measured
<1>1. /\ at' = w /\ barWindow' = w /\ px' = x /\ py' = y
      /\ UNCHANGED wide
  BY DEF MouseEnter
<1>2. CASE barWindow = w
  <2>1. UNCHANGED <<attached, width, grabX, dragging, pinned, menuOpen, suppress, alone,
                    offsetX, offsetY, buttonsX, buttonsY, menuX, menuY>>
    BY <1>2 DEF MouseEnter, bar, place, dismissal
  <2>. QED BY <1>0, <1>1, <2>1
          DEF Measured, PointerAtBar, MenuNotDragged, DismissedIsSuppressed, LaidOutAtBar,
              LeftMeansHidden
<1>3. CASE barWindow # w
  <2>1. Attach(w, wide[w], FALSE)
    BY <1>3 DEF MouseEnter
  <2>. QED BY <1>0, <1>1, <2>1, AttachKeeps
          DEF Measured, PointerAtBar, MenuNotDragged, DismissedIsSuppressed, LeftMeansHidden
<1>. QED BY <1>2, <1>3

LEMMA ResizeKeeps ==
  ASSUME IInv, NEW w \in Windows, NEW newWidth \in WindowWidths,
         PixelSizeChanged(w, newWidth)
  PROVE  IInv'
<1> USE DEF IInv
<1>1. /\ wide' = [wide EXCEPT ![w] = newWidth]
      /\ UNCHANGED <<barWindow, at, px, py>>
  BY DEF PixelSizeChanged, pointer
<1>2. wide' \in [Windows -> WindowWidths]
  BY <1>1 DEF Measured
<1>3. CASE barWindow # w
  <2>1. UNCHANGED <<attached, width, grabX, dragging, pinned, menuOpen, suppress, alone,
                    offsetX, offsetY, buttonsX, buttonsY, menuX, menuY>>
    BY <1>3 DEF PixelSizeChanged, bar, place, dismissal
  <2>. QED BY <1>1, <1>2, <2>1
          DEF Measured, PointerAtBar, MenuNotDragged, DismissedIsSuppressed, LaidOutAtBar,
              LeftMeansHidden
<1>4. CASE barWindow = w
  <2>1. Attach(w, newWidth, attached)
    BY <1>4 DEF PixelSizeChanged
  <2>2. Measured' /\ LaidOutAtBar' /\ ~menuOpen' /\ ~alone'
    BY <1>1, <1>2, <2>1, AttachKeeps DEF Measured
  <2>3. LeftMeansHidden'
    <3>1. CASE attached /\ pinned /\ w \in Rendered
      <4>1. UNCHANGED pinned
        BY <2>1, <3>1 DEF Attach, Follow
      <4>. QED BY <3>1, <4>1 DEF LeftMeansHidden
    <3>2. CASE ~(attached /\ pinned)
      <4>1. at = Outside => (attached => offsetY = Hidden /\ ~dragging)
        BY <3>2 DEF LeftMeansHidden
      <4>. QED BY <1>1, <2>1, <2>2, <4>1, AttachKeeps DEF LeftMeansHidden
    <3>3. CASE w \notin Rendered
      BY <2>1, <3>3 DEF Attach, LeftMeansHidden
    <3>. QED BY <3>1, <3>2, <3>3
  <2>. QED BY <1>1, <2>2, <2>3 DEF PointerAtBar, MenuNotDragged, DismissedIsSuppressed
<1>. QED BY <1>3, <1>4
--------------------------------------------------------------------------------
(* The button. *)

LEMMA DownKeeps ==
  ASSUME IInv, NEW b \in MouseButtons, MouseButtonDown(b)
  PROVE  IInv'
<1> USE DEF IInv
<1>1. /\ at # Outside /\ at = barWindow
      /\ UNCHANGED <<wide, barWindow, attached, width, offsetX, offsetY, pinned, at, px, py>>
  BY DEF MouseButtonDown, PointerAtBar, pointer
<1>2. PointerAtBar' /\ LeftMeansHidden'
  BY <1>1 DEF PointerAtBar, LeftMeansHidden
<1>3. CASE ~alone' /\ UNCHANGED <<menuOpen, dragging, grabX, buttonsX, buttonsY, menuX, menuY>>
  BY <1>1, <1>2, <1>3 DEF Measured, MenuNotDragged, DismissedIsSuppressed, LaidOutAtBar
<1>4. CASE InBarWindow /\ menuOpen /\ ~InMenu(px, py) /\ DismissMenu(b)
  <2>1. /\ menuOpen' = FALSE /\ UNCHANGED <<dragging, grabX>> /\ RebuildButtons
    BY <1>4 DEF DismissMenu
  <2>2. attached' /\ suppress'
    <3>1. suppress' = (menuOpen /\ ~InMenu(px, py))
      BY <1>4 DEF MouseButtonDown
    <3>2. attached'
      BY <1>1, <1>4 DEF InBarWindow
    <3>. QED BY <1>4, <3>1, <3>2
  <2>3. DismissedIsSuppressed'
    BY <1>1, <2>2 DEF DismissedIsSuppressed
  <2>4. Measured' /\ MenuNotDragged'
    BY <1>1, <2>1 DEF Measured, MenuNotDragged
  <2>. QED BY <1>2, <2>1, <2>3, <2>4, RebuiltAtBar
<1>5. CASE InBarWindow /\ PressOnMenu
  <2>1. /\ UNCHANGED <<menuOpen, dragging, grabX, buttonsX, buttonsY, menuX, menuY>>
        /\ ~alone'
    BY <1>5 DEF PressOnMenu, OtherPress
  <2>. QED BY <1>1, <1>2, <2>1 DEF Measured, MenuNotDragged, DismissedIsSuppressed, LaidOutAtBar
<1>6. CASE InBarWindow /\ ~menuOpen /\ PressOnBar
  <2>1. /\ UNCHANGED <<menuOpen, buttonsX, buttonsY, menuX, menuY>>
        /\ ~alone'
        /\ grabX' = px - offsetX \/ UNCHANGED grabX
    BY <1>6 DEF PressOnBar, OtherPress
  <2>2. grabX' \in Int
    BY <2>1 DEF Measured, InPlace
  <2>3. Measured'
    BY <1>1, <2>2 DEF Measured
  <2>. QED BY <1>1, <1>2, <1>6, <2>1, <2>3
          DEF MenuNotDragged, DismissedIsSuppressed, LaidOutAtBar
<1>. QED BY <1>3, <1>4, <1>5, <1>6 DEF MouseButtonDown, PressOnServer, OtherPress

LEMMA UpKeeps ==
  ASSUME IInv, NEW b \in MouseButtons, MouseButtonUp(b)
  PROVE  IInv'
<1> USE DEF IInv
<1>1. /\ at # Outside /\ ~alone'
      /\ UNCHANGED <<wide, barWindow, attached, width, offsetX, offsetY, at, px, py>>
  BY DEF MouseButtonUp, pointer
<1>2. PointerAtBar' /\ LeftMeansHidden' /\ DismissedIsSuppressed'
  BY <1>1 DEF PointerAtBar, LeftMeansHidden, DismissedIsSuppressed
<1>3. CASE UNCHANGED <<menuOpen, dragging, grabX, buttonsX, buttonsY, menuX, menuY>>
  BY <1>1, <1>2, <1>3 DEF Measured, MenuNotDragged, LaidOutAtBar
<1>4. CASE EndDrag
  <2>1. dragging' = FALSE /\ grabX' = 0 /\ RebuildButtons
    BY <1>4 DEF EndDrag
  <2>2. Measured' /\ MenuNotDragged'
    BY <1>1, <2>1 DEF Measured, MenuNotDragged
  <2>. QED BY <1>2, <2>1, <2>2, RebuiltAtBar
<1>5. CASE FireRow
  <2>1. menuOpen' = FALSE /\ UNCHANGED <<dragging, grabX>> /\ RebuildButtons
    BY <1>5 DEF FireRow
  <2>2. Measured' /\ MenuNotDragged'
    BY <1>1, <2>1 DEF Measured, MenuNotDragged
  <2>. QED BY <1>2, <2>1, <2>2, RebuiltAtBar
<1>6. CASE ~dragging /\ FirePart
  <2>1. /\ UNCHANGED <<dragging, grabX>>
        /\ RebuildButtons \/ UNCHANGED <<menuOpen, buttonsX, buttonsY, menuX, menuY>>
    BY <1>6 DEF FirePart
  <2>2. Measured' /\ MenuNotDragged'
    BY <1>1, <1>6, <2>1 DEF Measured, MenuNotDragged
  <2>3. LaidOutAtBar'
    BY <1>1, <2>1, RebuiltAtBar DEF LaidOutAtBar
  <2>. QED BY <1>2, <2>2, <2>3
<1>. QED BY <1>3, <1>4, <1>5, <1>6
        DEF MouseButtonUp, Release, ReleaseNotSuppressed, Released, Swallowed

LEMMA ElsewhereKeeps ==
  ASSUME IInv, (\E b \in MouseButtons : ReleaseElsewhere(b)) \/ UNCHANGED vars
  PROVE  IInv'
<1>1. CASE \E b \in MouseButtons : ReleaseElsewhere(b)
  <2>1. /\ alone' => alone
        /\ UNCHANGED <<wide, barWindow, attached, width, grabX, dragging, pinned, menuOpen, at, px, py, suppress,
                       offsetX, offsetY, buttonsX, buttonsY, menuX, menuY>>
    BY <1>1 DEF ReleaseElsewhere, bar, place, pointer
  <2>. QED BY <2>1
          DEF IInv, Measured, PointerAtBar, MenuNotDragged, DismissedIsSuppressed, LaidOutAtBar,
              LeftMeansHidden
<1>2. CASE UNCHANGED vars
  BY <1>2 DEF vars, bar, place, pointer, clicks, dismissal, IInv, Measured, PointerAtBar, MenuNotDragged,
              DismissedIsSuppressed, LaidOutAtBar, LeftMeansHidden
<1>. QED BY <1>1, <1>2

LEMMA NextKeeps == IInv /\ [Next]_vars => IInv'
BY MotionKeeps, LeaveKeeps, EnterKeeps, ResizeKeeps, DownKeeps, UpKeeps, ElsewhereKeeps DEF Next

(* The inductive invariant of the bar. *)
THEOREM BarInvariant == Spec => []IInv
BY InitEstablishes, NextKeeps, PTL DEF Spec

(* Types: what IInv does not say of them is kept by every step as it is.   *)
LEMMA InitTypes == Init => TypeOK
<1> SUFFICES ASSUME Init PROVE TypeOK
    OBVIOUS
<1>1. IInv
  BY InitEstablishes
<1>2. Hidden \in Int /\ (attached \in BOOLEAN)
  BY Lengths DEF Init
<1>. QED BY <1>1, <1>2, FloatbarAssumption DEF Init, TypeOK, IInv, Measured, InPlace

Flags ==
  /\ attached \in BOOLEAN /\ userPositioned \in BOOLEAN /\ dragging \in BOOLEAN
  /\ pinned \in BOOLEAN /\ menuOpen \in BOOLEAN /\ suppress \in BOOLEAN
  /\ alone \in BOOLEAN

Laid == buttonsX \in Int /\ buttonsY \in Int /\ menuX \in Int /\ menuY \in Int

Marks ==
  /\ held \subseteq MouseButtons /\ atServer \subseteq MouseButtons
  /\ dismisser \in MouseButtons \cup {NoButton}
  /\ fired \in Parts \cup {"none", "row"}

Pointing == at \in Windows \cup {Outside} /\ px \in Nat /\ py \in Nat

LEMMA RebuiltIsLaid ==
  ASSUME RebuildButtons, offsetX' \in Int, offsetY' \in Int, width' \in WindowWidths
  PROVE  Laid'
<1>1. width' \in Nat /\ MenuWidth \in Nat /\ BarHeight \in Nat /\ Gap \in Nat
  BY Lengths, FloatbarAssumption
<1>2. MenuLeft(offsetX', width') \in Int
  <2>1. Larger(0, width' - MenuWidth) \in Nat
    BY <1>1, LargerIsNat
  <2>2. Clamp(offsetX', 0, Larger(0, width' - MenuWidth)) \in Int
    BY <2>1, ClampStays
  <2>. QED BY <2>2 DEF MenuLeft
<1>3. MenuTop(offsetY') \in Int
  BY <1>1 DEF MenuTop
<1>. QED BY <1>2, <1>3 DEF RebuildButtons, Laid

LEMMA LaidKept ==
  ASSUME IInv, IInv', Laid, [Next]_vars
  PROVE  Laid'
<1>1. offsetX \in Int /\ offsetX' \in Int /\ offsetY' \in Int /\ width' \in WindowWidths
  BY DEF IInv, Measured, InPlace
<1>2. CASE RebuildButtons
  BY <1>1, <1>2, RebuiltIsLaid
<1>3. CASE UNCHANGED <<buttonsX, buttonsY, menuX, menuY>>
  BY <1>3 DEF Laid
<1>4. CASE buttonsX' = buttonsX + (offsetX' - offsetX) /\ UNCHANGED <<buttonsY, menuX, menuY>>
  BY <1>1, <1>4 DEF Laid
<1> DEFINE Moved == \/ RebuildButtons
                    \/ UNCHANGED <<buttonsX, buttonsY, menuX, menuY>>
                    \/ /\ buttonsX' = buttonsX + (offsetX' - offsetX)
                       /\ UNCHANGED <<buttonsY, menuX, menuY>>
<1>5. ASSUME NEW w, NEW newWidth, NEW same, Attach(w, newWidth, same) PROVE Moved
  BY <1>5 DEF Attach, place
<1>6. ASSUME NEW x \in Xs, NEW y \in 0..Depth, MouseMotion(x, y) PROVE Moved
  BY <1>6 DEF MouseMotion, bar, place
<1>7. MouseLeave => Moved
  BY DEF MouseLeave, bar, place
<1>8. ASSUME NEW w \in Windows, NEW x \in Xs, NEW y \in 0..Depth, MouseEnter(w, x, y) PROVE Moved
  BY <1>5, <1>8 DEF MouseEnter, bar, place
<1>9. ASSUME NEW w \in Windows, NEW newWidth \in WindowWidths, PixelSizeChanged(w, newWidth)
      PROVE  Moved
  BY <1>5, <1>9 DEF PixelSizeChanged, bar, place
<1>10. \A b \in MouseButtons : MouseButtonDown(b) => Moved
  BY DEF MouseButtonDown, PressOnServer, DismissMenu, PressOnBar, PressOnMenu
<1>11. \A b \in MouseButtons : MouseButtonUp(b) => Moved
  BY DEF MouseButtonUp, Release, ReleaseNotSuppressed, EndDrag, FireRow, FirePart, Released,
         Swallowed
<1>12. (\E b \in MouseButtons : ReleaseElsewhere(b)) \/ UNCHANGED vars => Moved
  BY DEF ReleaseElsewhere, vars, bar, place
<1>13. Moved
  BY <1>6, <1>7, <1>8, <1>9, <1>10, <1>11, <1>12 DEF Next
<1>. QED BY <1>2, <1>3, <1>4, <1>13

LEMMA FlagsKept ==
  ASSUME Flags, [Next]_vars
  PROVE  Flags'
<1> USE DEF Flags
<1>1. ASSUME NEW w, NEW newWidth, NEW same, Attach(w, newWidth, same)
      PROVE  Flags'
  <2>1. menuOpen' = FALSE /\ alone' = FALSE /\ (attached' = (w \in Rendered))
    BY <1>1 DEF Attach
  <2>2. attached' \in BOOLEAN
    <3>1. CASE w \in Rendered
      BY <2>1, <3>1
    <3>2. CASE w \notin Rendered
      BY <2>1, <3>2
    <3>. QED BY <3>1, <3>2
  <2>3. /\ userPositioned' \in BOOLEAN /\ dragging' \in BOOLEAN /\ pinned' \in BOOLEAN
        /\ suppress' \in BOOLEAN
    BY <1>1 DEF Attach, Follow, Configure
  <2>. QED BY <1>1, <2>1, <2>2, <2>3
<1>2. ASSUME NEW x \in Xs, NEW y \in 0..Depth, MouseMotion(x, y) PROVE Flags'
  BY <1>2 DEF MouseMotion, bar, clicks, dismissal
<1>3. MouseLeave => Flags'
  BY DEF MouseLeave, bar, clicks, dismissal
<1>4. ASSUME NEW w \in Windows, NEW x \in Xs, NEW y \in 0..Depth, MouseEnter(w, x, y)
      PROVE  Flags'
  BY <1>1, <1>4 DEF MouseEnter, bar, dismissal
<1>5. ASSUME NEW w \in Windows, NEW newWidth \in WindowWidths, PixelSizeChanged(w, newWidth)
      PROVE  Flags'
  BY <1>1, <1>5 DEF PixelSizeChanged, bar, dismissal
<1>6. \A b \in MouseButtons : MouseButtonDown(b) => Flags'
  BY DEF MouseButtonDown, OtherPress, PressOnServer, DismissMenu, PressOnBar, PressOnMenu
<1>7. \A b \in MouseButtons : MouseButtonUp(b) => Flags'
  BY DEF MouseButtonUp, Release, ReleaseNotSuppressed, EndDrag, FireRow, FirePart, Released,
         Swallowed
<1>8. (\E b \in MouseButtons : ReleaseElsewhere(b)) \/ UNCHANGED vars => Flags'
  BY DEF ReleaseElsewhere, vars, bar, clicks, dismissal
<1>. QED BY <1>2, <1>3, <1>4, <1>5, <1>6, <1>7, <1>8 DEF Next

LEMMA MarksKept ==
  ASSUME IInv, Marks, [Next]_vars
  PROVE  Marks'
<1> USE DEF Marks
<1>1. ASSUME NEW w, NEW newWidth, NEW same, Attach(w, newWidth, same),
             UNCHANGED <<held, atServer, fired>>
      PROVE  Marks'
  BY <1>1 DEF Attach
<1>2. \A x \in Int : PartUnder(x) \in Parts
  BY PartsAssumption DEF PartUnder, Parts
<1>3. \A b \in MouseButtons : MouseButtonDown(b) => Marks'
  BY DEF MouseButtonDown, OtherPress, PressOnServer, DismissMenu, PressOnBar, PressOnMenu
<1>4. ASSUME NEW b \in MouseButtons, MouseButtonUp(b) PROVE Marks'
  <2>1. /\ held' \subseteq MouseButtons /\ atServer' \subseteq MouseButtons
        /\ dismisser' \in MouseButtons \cup {NoButton}
    BY <1>4 DEF MouseButtonUp, Release, ReleaseNotSuppressed, EndDrag, FireRow, FirePart, Released,
                Swallowed
  <2>2. fired' \in {fired, "row", PartUnder(px)}
    BY <1>4 DEF MouseButtonUp, Release, ReleaseNotSuppressed, EndDrag, FireRow, FirePart, Released,
           Swallowed
  <2>3. PartUnder(px) \in Parts
    BY <1>2 DEF IInv, Measured
  <2>. QED BY <2>1, <2>2, <2>3
<1>5. ASSUME NEW w \in Windows, NEW x \in Xs, NEW y \in 0..Depth, MouseEnter(w, x, y)
      PROVE  Marks'
  BY <1>1, <1>5 DEF MouseEnter, dismissal
<1>6. ASSUME NEW w \in Windows, NEW newWidth \in WindowWidths, PixelSizeChanged(w, newWidth)
      PROVE  Marks'
  BY <1>1, <1>6 DEF PixelSizeChanged, dismissal
<1>7. ASSUME NEW x \in Xs, NEW y \in 0..Depth, MouseMotion(x, y) PROVE Marks'
  BY <1>7 DEF MouseMotion, clicks, dismissal
<1>8. MouseLeave \/ (\E b \in MouseButtons : ReleaseElsewhere(b)) \/ UNCHANGED vars => Marks'
  BY DEF MouseLeave, ReleaseElsewhere, vars, clicks, dismissal
<1>. QED BY <1>3, <1>4, <1>5, <1>6, <1>7, <1>8 DEF Next

LEMMA PointingKept ==
  ASSUME Pointing, [Next]_vars
  PROVE  Pointing'
<1> USE DEF Pointing
<1>1. \A x \in Xs, y \in 0..Depth : x \in Nat /\ y \in Nat
  BY Lengths, FloatbarAssumption
<1>2. ASSUME NEW x \in Xs, NEW y \in 0..Depth, MouseMotion(x, y) PROVE Pointing'
  BY <1>1, <1>2 DEF MouseMotion
<1>3. MouseLeave => Pointing'
  BY DEF MouseLeave
<1>4. ASSUME NEW w \in Windows, NEW x \in Xs, NEW y \in 0..Depth, MouseEnter(w, x, y)
      PROVE  Pointing'
  BY <1>1, <1>4 DEF MouseEnter
<1>5. ASSUME NEW w \in Windows, NEW newWidth \in WindowWidths, PixelSizeChanged(w, newWidth)
      PROVE  Pointing'
  BY <1>5 DEF PixelSizeChanged, pointer
<1>6. \/ \E b \in MouseButtons : MouseButtonDown(b) \/ MouseButtonUp(b) \/ ReleaseElsewhere(b)
      \/ UNCHANGED vars
      => Pointing'
  BY DEF MouseButtonDown, MouseButtonUp, ReleaseElsewhere, vars, pointer
<1>. QED BY <1>2, <1>3, <1>4, <1>5, <1>6 DEF Next

LEMMA TypesAreParts == IInv => (TypeOK <=> Flags /\ Laid /\ Marks /\ Pointing)
BY DEF TypeOK, Flags, Laid, Marks, Pointing, IInv, Measured, InPlace

(* Every variable of the bar keeps its type. *)
THEOREM BarTypeCorrect == Spec => []TypeOK
<1>1. IInv /\ TypeOK /\ [Next]_vars => TypeOK'
  <2> SUFFICES ASSUME IInv, TypeOK, [Next]_vars PROVE TypeOK'
      OBVIOUS
  <2>1. IInv'
    BY NextKeeps
  <2>2. Flags /\ Laid /\ Marks /\ Pointing
    BY TypesAreParts
  <2>3. Flags' /\ Laid' /\ Marks' /\ Pointing'
    BY <2>1, <2>2, FlagsKept, LaidKept, MarksKept, PointingKept
  <2>4. IInv' => (TypeOK' <=> Flags' /\ Laid' /\ Marks' /\ Pointing')
    BY DEF TypeOK, Flags, Laid, Marks, Pointing, IInv, Measured, InPlace
  <2>. QED BY <2>1, <2>3, <2>4
<1>. QED BY <1>1, InitTypes, BarInvariant, PTL DEF Spec

(* The bar stays between its sliver and fully shown, within its window,    *)
(* and its buttons and menu are drawn and hit where it is.                 *)
THEOREM BarStaysInPlace == Spec => []BarInPlace
<1>1. IInv => BarInPlace
  BY DEF IInv, Measured, InPlace, OnScreen, BarInPlace
<1>. QED BY <1>1, BarInvariant, PTL

(* Without the pointer only a pinned bar is open. *)
THEOREM BarLeftMeansHidden == Spec => []LeftMeansHidden
<1>1. IInv => LeftMeansHidden
  BY DEF IInv
<1>. QED BY <1>1, BarInvariant, PTL

(* A pointer that moves to a point of the bar never makes it retract: a    *)
(* drag keeps it open, a bar that is out is open down to its own height,   *)
(* and the sliver lies within the strip that opens it.                     *)
THEOREM BarStaysUnderPointer == Spec => StaysUnderPointer
<1>1. ASSUME IInv, [Next]_vars, InBarWindow, <<px', py'>> # <<px, py>>, at' = at,
             ContainsPoint(px', py'), at # Outside
      PROVE  offsetY' >= offsetY
  <2>1. PICK x \in Xs, y \in 0..Depth : MouseMotion(x, y)
    <3>1. UNCHANGED pointer => FALSE
      BY <1>1 DEF pointer
    <3>2. (\E w \in Windows, newWidth \in WindowWidths : PixelSizeChanged(w, newWidth))
          \/ (\E b \in MouseButtons : MouseButtonDown(b) \/ MouseButtonUp(b) \/ ReleaseElsewhere(b))
          \/ UNCHANGED vars
            => UNCHANGED pointer
      BY DEF PixelSizeChanged, MouseButtonDown, MouseButtonUp, ReleaseElsewhere, vars
    <3>3. MouseLeave => at' # at
      BY <1>1 DEF MouseLeave
    <3>4. (\E w \in Windows, x \in Xs, y \in 0..Depth : MouseEnter(w, x, y)) => FALSE
      BY <1>1 DEF MouseEnter
    <3>. QED BY <1>1, <3>1, <3>2, <3>3, <3>4 DEF Next
  <2>2. /\ px' = x /\ py' = y
        /\ offsetY' = Slide(Wanted(x, y, DraggedTo(x)))
    BY <1>1, <2>1 DEF MouseMotion
  <2>3. offsetY \in Int /\ Hidden <= offsetY /\ offsetY <= 0 /\ y \in Int
    BY <1>1, FloatbarAssumption DEF IInv, Measured, InPlace
  <2>4. Wanted(x, y, DraggedTo(x))
    <3>1. CASE dragging
      BY <3>1 DEF Wanted
    <3>2. CASE ~dragging
      <4>1. DraggedTo(x) = offsetX
        BY <3>2 DEF DraggedTo
      <4>2. x - offsetX \in Columns /\ y < offsetY + BarHeight
        BY <1>1, <2>2 DEF ContainsPoint
      <4>3. y <= StayOpenZone
        BY <2>3, <4>2, FloatbarAssumption DEF StayOpenZone, Hidden
      <4>. QED BY <4>1, <4>2, <4>3 DEF Wanted
    <3>. QED BY <3>1, <3>2
  <2>. QED BY <2>2, <2>3, <2>4, SlideStays
<1>2. InBarWindow /\ Measured => at # Outside
  BY FloatbarAssumption DEF InBarWindow, Measured
<1>3. IInv /\ [Next]_vars =>
        [InBarWindow /\ <<px', py'>> # <<px, py>> /\ at' = at /\ ContainsPoint(px', py')
           => offsetY' >= offsetY]_vars
  BY <1>1, <1>2 DEF IInv
<1>. QED BY <1>3, BarInvariant, PTL DEF Spec, StaysUnderPointer

(* The click that closes the menu sets off nothing else: until another     *)
(* button is pressed or let go, its release is still to be swallowed.      *)
THEOREM BarDismissFiresNothing == Spec => DismissFiresNothing
<1>1. ASSUME IInv, [Next]_vars, alone, DismisserLetGo
      PROVE  FiresNothing
  <2>1. PICK b \in MouseButtons : MouseButtonUp(b)
    <3>1. \A b \in MouseButtons : ~MouseButtonDown(b) /\ ~ReleaseElsewhere(b)
      BY <1>1 DEF DismisserLetGo, MouseButtonDown, ReleaseElsewhere
    <3>2. /\ \A x \in Xs, y \in 0..Depth : ~MouseMotion(x, y)
          /\ ~MouseLeave
          /\ \A w \in Windows, x \in Xs, y \in 0..Depth : ~MouseEnter(w, x, y)
          /\ \A w \in Windows, newWidth \in WindowWidths : ~PixelSizeChanged(w, newWidth)
          /\ ~UNCHANGED vars
      BY <1>1 DEF DismisserLetGo, MouseMotion, MouseLeave, MouseEnter, PixelSizeChanged, vars, clicks
    <3>. QED BY <1>1, <3>1, <3>2 DEF Next
  <2>2. InBarWindow /\ suppress
    BY <1>1 DEF DismisserLetGo, IInv, DismissedIsSuppressed, PointerAtBar, InBarWindow
  <2>3. Swallowed
    BY <2>1, <2>2 DEF MouseButtonUp, Release
  <2>. QED BY <2>3 DEF Swallowed, FiresNothing
<1>2. IInv /\ [Next]_vars => [alone /\ DismisserLetGo => FiresNothing]_vars
  BY <1>1
<1>. QED BY <1>2, BarInvariant, PTL DEF Spec, DismissFiresNothing
================================================================================
