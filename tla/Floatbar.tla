-------------------------------- MODULE Floatbar --------------------------------
(***************************************************************************)
(* The floating bar of a session: the sliding and dragging state           *)
(* (coffee_floatbar.cpp), its buttons and menu (dialogs/sdl_floatbar.cpp), *)
(* and what SdlContext::handleEvent() leaves to it of the pointer's events *)
(* before they go to the server.                                           *)
(*                                                                         *)
(* Lengths are pixels of a small screen.  A part of the bar is a column of *)
(* it, the menu is one block.  The bar does not ask which mouse button it  *)
(* was, and several may be held at once.  Where the menu is, where the bar *)
(* was grabbed and where the pointer is are 0 while nobody looks.          *)
(***************************************************************************)
EXTENDS Integers

CONSTANTS
  Windows, Rendered,    \* the session's windows; those that have a renderer
  FirstWindow,
  Outside,              \* where the pointer is when it is in none of them
  WindowWidths, Depth,  \* how wide windows get; how far down the pointer goes
  BarWidth, BarHeight, Peek, RevealZone, Step,
  MenuWidth, MenuHeight, Gap,
  MouseButtons, NoButton,
  PartAt(_)             \* what a column of the bar shows

ASSUME FloatbarAssumption ==
  /\ FirstWindow \in Windows /\ Rendered \subseteq Windows /\ Outside \notin Windows
  /\ WindowWidths \subseteq Nat \ {0} /\ Depth \in Nat
  /\ BarWidth \in Nat \ {0} /\ BarHeight \in Nat \ {0} /\ Step \in Nat \ {0}
  /\ Peek \in 0 .. BarHeight /\ RevealZone \in Nat /\ Peek <= RevealZone + 1
  /\ MenuWidth \in Nat /\ MenuHeight \in Nat /\ Gap \in Nat
  /\ NoButton \notin MouseButtons

VARIABLES
  wide,          \* [Windows -> WindowWidths], SdlWindow::rect().w
  barWindow,     \* _floatbarWindowId
  attached,      \* the bar has a renderer
  width,         \* _windowWidthPx
  offsetX, offsetY, userPositioned, dragging, grabX, pinned,
  menuOpen, suppress,              \* suppress: _suppressNextButtonUp
  buttonsX, buttonsY,              \* where rebuildButtons() has put the buttons
  menuX, menuY,                    \* _menuRect
  at, px, py,                      \* the pointer
  held,                            \* the mouse buttons that are down
  atServer,                        \* those the server was told are
  dismisser,                       \* the one whose press closed the menu
  alone,                           \* nothing else was pressed or let go since
  fired                            \* what the last release set off

place == <<offsetX, offsetY, buttonsX, buttonsY, menuX, menuY>>
bar == <<attached, width, userPositioned, dragging, grabX, pinned, menuOpen, suppress, place>>
pointer == <<at, px, py>>
dismissal == <<dismisser, alone>>
clicks == <<held, atServer, dismissal, fired>>
vars == <<wide, barWindow, bar, pointer, clicks>>

Parts == {"grip", "pin", "menu", "action"}
Columns == 0 .. BarWidth - 1
Xs == UNION {0 .. w - 1 : w \in WindowWidths}

ASSUME PartsAssumption == \A c \in Columns : PartAt(c) \in Parts

Smaller(a, b) == IF a < b THEN a ELSE b
Larger(a, b) == IF a < b THEN b ELSE a
Clamp(a, low, high) == Larger(low, Smaller(a, high))

Hidden == Peek - BarHeight
Room(w) == Larger(0, w - BarWidth)
Centre(w) == Room(w) \div 2
MenuLeft(x, w) == Clamp(x, 0, Larger(0, w - MenuWidth))
MenuTop(y) == y + BarHeight + Gap

ContainsPoint(x, y) == x - offsetX \in Columns /\ y >= offsetY /\ y < offsetY + BarHeight
InMenu(x, y) == x >= menuX /\ x < menuX + MenuWidth /\ y >= menuY /\ y < menuY + MenuHeight
PartUnder(x) == IF x - buttonsX \in Columns THEN PartAt(x - buttonsX) ELSE "grip"
--------------------------------------------------------------------------------
(* rebuildButtons(), after the step has set everything it looks at. *)
RebuildButtons ==
  /\ buttonsX' = offsetX' /\ buttonsY' = offsetY'
  /\ IF menuOpen'
     THEN menuX' = MenuLeft(offsetX', width') /\ menuY' = MenuTop(offsetY')
     ELSE menuX' = 0 /\ menuY' = 0

(* setWindowWidth() of a bar that stays where it is attached. *)
Follow(w) ==
  /\ width' = w
  /\ offsetX' = IF userPositioned THEN Clamp(offsetX, 0, Room(w)) ELSE Centre(w)
  /\ UNCHANGED <<offsetY, userPositioned, dragging, grabX, pinned>>

(* CoffeeFloatbarState::configure() for another window. *)
Configure(w) ==
  /\ width' = w
  /\ offsetX' = Centre(w) /\ offsetY' = Hidden
  /\ userPositioned' = FALSE /\ dragging' = FALSE /\ grabX' = 0 /\ pinned' = FALSE

\* Mutant: a new width moves the bar and not its buttons.
AttachInPlace(w, newWidth, same) ==
  /\ attached' = (w \in Rendered)
  /\ menuOpen' = FALSE
  /\ dismisser' = NoButton /\ alone' = FALSE
  /\ IF w \in Rendered
     THEN /\ suppress' = FALSE
          /\ IF same THEN Follow(newWidth) ELSE Configure(newWidth)
          /\ UNCHANGED <<buttonsX, buttonsY, menuX, menuY>>
     ELSE UNCHANGED <<width, userPositioned, dragging, grabX, pinned, suppress, place>>

(* SdlFloatbar::attach(), which detaches from a window without a renderer. *)
Attach(w, newWidth, same) ==
  /\ attached' = (w \in Rendered)
  /\ menuOpen' = FALSE
  /\ dismisser' = NoButton /\ alone' = FALSE
  /\ IF w \in Rendered
     THEN /\ suppress' = FALSE
          /\ IF same THEN Follow(newWidth) ELSE Configure(newWidth)
          /\ RebuildButtons
     ELSE UNCHANGED <<width, userPositioned, dragging, grabX, pinned, suppress, place>>

(* attachFloatbar(), once, when the session is connected. *)
Init ==
  /\ wide \in [Windows -> WindowWidths]
  /\ barWindow = FirstWindow
  /\ attached = (FirstWindow \in Rendered)
  /\ width = wide[FirstWindow]
  /\ offsetX = Centre(width) /\ offsetY = Hidden
  /\ userPositioned = FALSE /\ dragging = FALSE /\ grabX = 0 /\ pinned = FALSE
  /\ menuOpen = FALSE /\ suppress = FALSE
  /\ buttonsX = offsetX /\ buttonsY = offsetY /\ menuX = 0 /\ menuY = 0
  /\ at = Outside /\ px = 0 /\ py = 0
  /\ held = {} /\ atServer = {} /\ dismisser = NoButton /\ alone = FALSE /\ fired = "none"
--------------------------------------------------------------------------------
(* tick(): what keeps the bar open, and one step of the slide. *)

\* Mutant: the strip at the edge is all that keeps the bar open.
StayOpenZoneThin == RevealZone

StayOpenZone == IF offsetY > Hidden THEN BarHeight ELSE RevealZone

Wanted(x, y, left) ==
  \/ pinned \/ menuOpen \/ dragging
  \/ y <= StayOpenZone /\ x - left \in Columns

Slide(wanted) ==
  IF wanted THEN Smaller(0, offsetY + Step) ELSE Larger(Hidden, offsetY - Step)

InBarWindow == attached /\ at = barWindow

(* updateDrag() *)
DraggedTo(x) == IF dragging THEN Clamp(x - grabX, 0, Room(width)) ELSE offsetX

(* SDL_EVENT_MOUSE_MOTION: the drag, then a tick. *)
MouseMotion(x, y) ==
  /\ at # Outside /\ x < wide[at]
  /\ px' = x /\ py' = y
  /\ IF ~InBarWindow
     THEN UNCHANGED bar
     ELSE /\ offsetX' = DraggedTo(x)
          /\ offsetY' = Slide(Wanted(x, y, DraggedTo(x)))
          /\ userPositioned' = (userPositioned \/ dragging)
          /\ UNCHANGED <<attached, width, dragging, grabX, pinned, menuOpen, suppress>>
          /\ IF offsetY' # offsetY
             THEN RebuildButtons
             ELSE /\ buttonsX' = buttonsX + (offsetX' - offsetX)
                  /\ UNCHANGED <<buttonsY, menuX, menuY>>
  /\ UNCHANGED <<wide, barWindow, at, clicks>>

\* Mutant: the menu stays open when the pointer leaves.
MouseLeaveMenuOpen ==
  /\ at # Outside
  /\ at' = Outside /\ px' = 0 /\ py' = 0
  /\ IF at # barWindow \/ ~attached
     THEN UNCHANGED bar
     ELSE /\ dragging' = FALSE /\ grabX' = 0
          /\ offsetY' = IF pinned \/ menuOpen THEN 0 ELSE Hidden
          /\ UNCHANGED <<attached, width, offsetX, userPositioned, pinned, menuOpen, suppress>>
          /\ RebuildButtons
  /\ UNCHANGED <<wide, barWindow, clicks>>

(* SDL_EVENT_WINDOW_MOUSE_LEAVE ticks until the bar has come to rest. *)
MouseLeave ==
  /\ at # Outside
  /\ at' = Outside /\ px' = 0 /\ py' = 0
  /\ IF at # barWindow \/ ~attached
     THEN UNCHANGED bar
     ELSE /\ dragging' = FALSE /\ grabX' = 0 /\ menuOpen' = FALSE
          /\ offsetY' = IF pinned THEN 0 ELSE Hidden
          /\ UNCHANGED <<attached, width, offsetX, userPositioned, pinned, suppress>>
          /\ RebuildButtons
  /\ UNCHANGED <<wide, barWindow, clicks>>

(* SDL_EVENT_WINDOW_MOUSE_ENTER: the bar follows the pointer's window. *)
MouseEnter(w, x, y) ==
  /\ at = Outside /\ x < wide[w]
  /\ at' = w /\ px' = x /\ py' = y
  /\ barWindow' = w
  /\ IF barWindow = w
     THEN UNCHANGED <<bar, dismissal>>
     ELSE Attach(w, wide[w], FALSE)
  /\ UNCHANGED <<wide, held, atServer, fired>>

(* SDL_EVENT_WINDOW_PIXEL_SIZE_CHANGED, of the width or of the height.     *)
PixelSizeChanged(w, newWidth) ==
  /\ wide' = [wide EXCEPT ![w] = newWidth]
  /\ IF barWindow = w
     THEN Attach(w, newWidth, attached)
     ELSE UNCHANGED <<bar, dismissal>>
  /\ UNCHANGED <<barWindow, pointer, held, atServer, fired>>
--------------------------------------------------------------------------------
(* The buttons of the mouse. *)

OtherPress == dismisser' = dismisser /\ alone' = FALSE

PressOnServer(b) ==
  /\ atServer' = atServer \cup {b}
  /\ OtherPress
  /\ UNCHANGED <<menuOpen, dragging, grabX, buttonsX, buttonsY, menuX, menuY>>

DismissMenu(b) ==
  /\ menuOpen' = FALSE
  /\ dismisser' = b /\ alone' = TRUE
  /\ UNCHANGED <<dragging, grabX, atServer, offsetX, offsetY, width>>
  /\ RebuildButtons

PressOnBar ==
  /\ IF PartUnder(px) = "grip"
     THEN dragging' = TRUE /\ grabX' = px - offsetX
     ELSE UNCHANGED <<dragging, grabX>>
  /\ OtherPress
  /\ UNCHANGED <<menuOpen, atServer, buttonsX, buttonsY, menuX, menuY>>

PressOnMenu ==
  /\ OtherPress
  /\ UNCHANGED <<menuOpen, dragging, grabX, atServer, buttonsX, buttonsY, menuX, menuY>>

(* handleMouseButtonDown(): any press ends the wait for a dismissed menu's *)
(* release.                                                                *)
MouseButtonDown(b) ==
  /\ at # Outside /\ b \notin held
  /\ held' = held \cup {b}
  /\ fired' = "none"
  /\ suppress' = IF InBarWindow THEN menuOpen /\ ~InMenu(px, py) ELSE suppress
  /\ IF ~InBarWindow THEN PressOnServer(b)
     ELSE \/ menuOpen /\ ~InMenu(px, py) /\ DismissMenu(b)
          \/ menuOpen /\ InMenu(px, py) /\ PressOnMenu
          \/ ~menuOpen /\ ContainsPoint(px, py) /\ PressOnBar
          \/ ~menuOpen /\ ~ContainsPoint(px, py) /\ PressOnServer(b)
  /\ UNCHANGED <<wide, barWindow, attached, width, offsetX, offsetY, userPositioned, pinned, pointer>>

EndDrag ==
  /\ dragging' = FALSE /\ grabX' = 0
  /\ UNCHANGED <<menuOpen, pinned, fired, atServer, offsetX, offsetY, width>>
  /\ RebuildButtons

FireRow ==
  /\ menuOpen' = FALSE
  /\ fired' = "row"
  /\ UNCHANGED <<dragging, grabX, pinned, atServer, offsetX, offsetY, width>>
  /\ RebuildButtons

FirePart ==
  /\ fired' = PartUnder(px)
  /\ menuOpen' = IF fired' = "menu" THEN ~menuOpen ELSE menuOpen
  /\ pinned' = IF fired' = "pin" THEN ~pinned ELSE pinned
  /\ UNCHANGED <<dragging, grabX, atServer, offsetX, offsetY, width>>
  /\ IF fired' \in {"menu", "pin"} THEN RebuildButtons
     ELSE UNCHANGED <<buttonsX, buttonsY, menuX, menuY>>

Released(b) ==
  /\ atServer' = atServer \ {b}
  /\ UNCHANGED <<menuOpen, dragging, grabX, pinned, fired, buttonsX, buttonsY, menuX, menuY>>

Swallowed ==
  UNCHANGED <<menuOpen, dragging, grabX, pinned, fired, atServer, buttonsX, buttonsY, menuX, menuY>>

\* Mutant: the release after a dismissal is one like any other.
ReleaseNotSuppressed(b) ==
  \/ dragging /\ EndDrag
  \/ ~dragging /\ menuOpen /\ InMenu(px, py) /\ FireRow
  \/ ~dragging /\ ~(menuOpen /\ InMenu(px, py)) /\ ContainsPoint(px, py) /\ FirePart
  \/ ~dragging /\ ~(menuOpen /\ InMenu(px, py)) /\ ~ContainsPoint(px, py) /\ Released(b)

(* handleMouseButtonUp(), where no earlier press decides what it is for. *)
Release(b) ==
  \/ suppress /\ Swallowed
  \/ ~suppress /\ ReleaseNotSuppressed(b)

MouseButtonUp(b) ==
  /\ at # Outside /\ b \in held
  /\ held' = held \ {b}
  /\ suppress' = (suppress /\ ~InBarWindow)
  /\ IF InBarWindow THEN Release(b) ELSE Released(b)
  /\ dismisser' = IF dismisser = b THEN NoButton ELSE dismisser
  /\ alone' = FALSE
  /\ UNCHANGED <<wide, barWindow, attached, width, offsetX, offsetY, userPositioned, pointer>>

(* Outside of its windows the session does not hear of the release. *)
ReleaseElsewhere(b) ==
  /\ at = Outside /\ b \in held
  /\ held' = held \ {b}
  /\ dismisser' = IF dismisser = b THEN NoButton ELSE dismisser
  /\ alone' = (alone /\ dismisser # b)
  /\ UNCHANGED <<wide, barWindow, bar, pointer, atServer, fired>>

Next ==
  \/ \E x \in Xs, y \in 0 .. Depth : MouseMotion(x, y)
  \/ MouseLeave
  \/ \E w \in Windows, x \in Xs, y \in 0 .. Depth : MouseEnter(w, x, y)
  \/ \E w \in Windows, newWidth \in WindowWidths : PixelSizeChanged(w, newWidth)
  \/ \E b \in MouseButtons : MouseButtonDown(b) \/ MouseButtonUp(b) \/ ReleaseElsewhere(b)

Spec == Init /\ [][Next]_vars
--------------------------------------------------------------------------------
TypeOK ==
  /\ wide \in [Windows -> WindowWidths]
  /\ barWindow \in Windows /\ at \in Windows \cup {Outside}
  /\ width \in WindowWidths
  /\ attached \in BOOLEAN /\ userPositioned \in BOOLEAN /\ dragging \in BOOLEAN
  /\ pinned \in BOOLEAN /\ menuOpen \in BOOLEAN /\ suppress \in BOOLEAN
  /\ held \subseteq MouseButtons /\ atServer \subseteq MouseButtons
  /\ dismisser \in MouseButtons \cup {NoButton} /\ alone \in BOOLEAN
  /\ offsetX \in Int /\ offsetY \in Int /\ grabX \in Int /\ px \in Nat /\ py \in Nat
  /\ buttonsX \in Int /\ buttonsY \in Int /\ menuX \in Int /\ menuY \in Int
  /\ fired \in Parts \cup {"none", "row"}

(* "the bar can always be found again": through any drags, widths and      *)
(* windows the bar stays between its sliver and fully shown, and within    *)
(* the window it is attached to.                                           *)
OnScreen ==
  /\ Hidden <= offsetY /\ offsetY <= 0
  /\ 0 <= offsetX /\ offsetX <= Room(width)

(* Buttons and menu are laid out on their own, and moved one by one while  *)
(* the bar is dragged: what is drawn and hit is always where the bar is.   *)
LaidOutAtBar ==
  attached =>
    /\ buttonsX = offsetX /\ buttonsY = offsetY
    /\ menuOpen => menuX = MenuLeft(offsetX, width) /\ menuY = MenuTop(offsetY)

(* What is drawn and what is hit is one bar, and it is there to be hit.    *)
BarInPlace == OnScreen /\ LaidOutAtBar

(* "the pointer left the window has to always mean start retracting": once *)
(* the pointer is gone, only a pinned bar is open, no menu is, and nothing *)
(* is dragged.                                                             *)
LeftMeansHidden ==
  at = Outside /\ attached /\ ~pinned => offsetY = Hidden /\ ~menuOpen /\ ~dragging

(* "moving the pointer down into the bar to click one read as left the top *)
(* edge and started retracting out from under the click": a pointer that   *)
(* moves to a point of the bar never makes it retract.                     *)
StaysUnderPointer ==
  [][InBarWindow /\ <<px', py'>> # <<px, py>> /\ at' = at /\ ContainsPoint(px', py')
       => offsetY' >= offsetY]_vars

DismisserLetGo == dismisser \in held \ held' /\ at # Outside
FiresNothing == fired' = fired /\ UNCHANGED <<pinned, menuOpen>>

(* The click that closes a menu sets off nothing and leaves the pin alone, *)
(* wherever it was moved to in between, as long as no other button is      *)
(* pressed or let go before its release and the bar is not attached anew.  *)
DismissFiresNothing ==
  [][alone /\ DismisserLetGo => FiresNothing]_vars

(* "the dismiss wins, full stop, rather than also firing that button":     *)
(* without the exception for another button.  Not so: its press ends the   *)
(* wait for the release, which then fires the button it is let go over.    *)
DismissWins ==
  [][DismisserLetGo => FiresNothing]_vars

(* "consumed instead of [...] being forwarded to the RDP session as an     *)
(* unmatched click-release": press and release of one click go to the same *)
(* side.  Not so: a press the server was told of may end over the bar.     *)
ClicksMatched == atServer \subseteq held
================================================================================
