# CoffeeRDP in TLA+

A verification development for CoffeeRDP, a remote-desktop client for Linux:
a session program built on FreeRDP's SDL3 client (`src/src/session`), a GTK
connection manager (`src/src/manager`) and a resident login helper around one
WebView (`src/src/auth`).  The modules are translated from the source; TLC
checks them on small instances and TLAPS proves the main results for every
value of the constants.  Paths below are relative to `src/`; `PROJECT.json`
gives the source lines of every definition.

## 1. The system

### Processes and how they talk

    coffee-rdp (manager) --spawns--> coffee-rdp-auth --serve   (one per login session of the desktop)
         |                                  ^
         | spawns                           | D-Bus over a private socket: RequestToken, Quit
         v                                  |
    coffee-rdp-session  --------------------+   or, when no helper answers, spawns
         |  main thread: SDL, windows           coffee-rdp-auth <url> (one-shot)
         |  RDP thread: FreeRDP
         +-- clipboard, display, keyboard channels to the server

### Inventory

| Component | State | Operations | What is hard | Correct means | Module |
|---|---|---|---|---|---|
| Resident login helper, `auth/coffee_rdp_auth.cpp` | current call, queue, connections, window, reveal timer, autofill state, scripts and redirects in flight | RequestToken, Quit, redirect, close, disconnect, load-changed, script result, timers, SIGTERM | everything is asynchronous and the callbacks carry no request: a late one meets the next request | calls answered once, in order; secrets and codes stay with their call | `AuthServe`, `ManagerLife` |
| One-shot login helper, same file | one request, exit code, captured code | activate, redirect, close, exit with the code on stdout | close against redirect; the application is unique to the user | a captured code reaches its session | `ManagerLife` |
| Login call of the session, `common/aad` | none | try the helper, else spawn one | the fallback rules; ignores the abort | every login ends, and fails only with its helper | `ManagerLife`, `SessionLifecycle` |
| Helper IPC, `auth-ipc` | socket path | create, unlink | several helper processes and one path | quitting reaches the right helper | `AuthServe`, `ManagerLife` |
| Manager window, `manager/coffee_rdp_manager.cpp` | window, hold, portal requests, helper's state; dialogs and rows over the profiles | activate, close, portal answer, connect, helper's exit, quit; edit, delete, import, export, drop | answers that come when the window is in another state; rows freed under a dialog; processes that die anywhere | a login fails only with its helper, helper stopped at the end; the profile meant is the one changed | `ManagerLife`, `ProfileDialogs` |
| Profile store, `manager/coffee_profiles.cpp` | list in memory, `profiles.ini`, temporary file | load, add, update, remove, save | a save that fails or is cut off between two system calls | old or new list, never neither; names unique; nothing forgotten | `ProfileStore` |
| `.rdp` documents, `manager/coffee_rdp_document.cpp` | lines of a file | load, get, set, remove, save, both conversions | files that other programs own, with keys several times or unknown | foreign lines kept, the profile's values reach the session | `RdpDocument` |
| Clipboard bridge, `session/sdl_clip.cpp` | format list, generation, request queue, manual-reset event, data store, cache, failure memo, offered MIME types | cliprdr callbacks (channel thread); clipboard events and data callback (SDL thread) | two threads, a lock that is dropped while waiting, time-outs, retries, late answers | what is pasted is the server's, current and in its format; no paste hangs | `SdlClip` |
| Session threads, `sdl_freerdp.cpp`, `sdl_context.cpp` | event queue, abort event, handshake events, flags, frame buffer, windows, dirty rectangles | connect, dialogs, paint, disconnect; poll, handle, draw, join | two threads and one queue with three readers; aborts at any point; teardown | no use of what is gone, no handshake that hangs, every frame drawn, every question answered by its own answer | `SessionLifecycle` |
| Modal dialogs, `session/dialogs` | own event loops | show, answer, cancel | forms consume the shared queue | as above | `SessionLifecycle` |
| Idle keep-alive, `coffee_idle.cpp` | interval, combo, last input | configure, note, check, toggle | it has no timer of its own | never while the user is there, always when away | `IdleKeepAlive` |
| Floatbar, `coffee_floatbar.cpp`, `sdl_floatbar.cpp` | place, drag, pin, buttons, menu, pressed part | motion, press, release, enter, leave, resize | presses and releases over different things and windows; lengths that change under a drag | reachable, laid out where it is, not retracting under the pointer, one click one effect, whichever buttons are held | `Floatbar` |
| Keyboard and capture, `sdl_input.cpp` | capture flag, modifiers, shortcuts on or off | key, enter, leave, focus, menu rows, indicators | events queued while the state they meet changes | no key left down at the server | `KeyboardCapture` |
| Windows, monitors, display channel, `sdl_disp.cpp` | windows, monitor list, last layout and its date, retry timer, channel | display and window events, graphics reset, timer, channel open and close | three threads and no lock | there is a layout to send, the server learns it, and resizing comes to rest | `DisplayChannel` |
| Pointer and touch, `sdl_pointer.cpp`, `sdl_touch.cpp` | the server's cursors, contacts | new, set, free; touch events | cursors freed by one thread and used by the other | no freed cursor used | not modelled, see the plan |
| Quality presets, hardware decoding, preferences, `op` askpass, widgets, icons, the retry dialog | none or layout | pure | none | tests cover them | not modelled |

The retry dialog (`SdlConnectionDialog`) is dead code: nothing calls
`SdlConnectionDialogWrapper::create()`, so its calls only log.

The hazards each component is exposed to are listed with their lines and the
properties that would catch them in `PROJECT.json`.

## 2. Modules

| Module | Role |
|---|---|
| `TokenService` | abstract: calls are answered once each, in the order of their arrival |
| `WebProcess` | external: the WebView's loads, scripts, results and redirects |
| `Autofill` | the helper's autofill state and its decisions, on `WebProcess` |
| `AuthServe` | the helper: one action per GTK/D-Bus callback, on `Autofill` |
| `ManagerLife` | manager, resident helpers, the socket path, the sessions' logins and their one-shot helpers, as processes that may end anywhere |
| `ProfileBook` | abstract: a durable list that is only replaced whole |
| `ProfileStore` | the store with its temporary file, one action per system call of a save |
| `Selection` | a sequence without some of its entries: what a flushed queue and a filtered file keep |
| `RdpDocument` | `.rdp` files as functions: reading, writing, both conversions, and what the session reads |
| `ProfileDialogs` | the manager's handlers over `ProfileStore` and `RdpDocument` |
| `ClipServer` | external: the server's clipboard and the channel's order |
| `SdlClip` | the bridge: one action per section under the clipboard lock |
| `SessionContract` | abstract: the phases of a session and its two resources |
| `SessionLifecycle` | the two threads of the session program |
| `IdleKeepAlive` | the keep-alive with explicit time in seconds |
| `Floatbar` | the floating bar and the pointer's events |
| `KeyboardCapture` | keys, grab and shortcuts, with SDL's queue |
| `DisplayChannel` | the three threads that send layouts, and the lists they read |
| `MC...` | instances for TLC |
| `...Proofs` | theorems and proofs about the module of the name (`ProfileProofs`: store and dialogs; `MainLoopProofs`: keep-alive and display channel, which is why the former's definitions are named `Idle...`) |

### AuthServe

The helper is one GTK main loop, so every callback is one atomic action:
`OnHandleRequestToken`, `OnSchemeRequest` (the redirect), `OnCloseRequest`,
`OnConnectionClosed`, `OnHandleQuit` with its idle callback `QuitIdle`,
`OnSigterm`, `OnRevealTimer`, and the autofill callbacks.  `FinishCurrent`
includes what finishCurrent() calls: the reply, hiding the window, startNext()
and the startRequest() of the next call, which may fail and finish at once.

What makes it interesting is kept: a script's result, a redirect and a retry
timer carry no request and meet whatever is current when they are dispatched.
The WebView (`WebProcess`) may finish any number of documents (bounded by
`MaxLoads`), deliver results late and redirect a login that was cancelled.
`fills`, `retried` and `codeOf` are history.

A script that was sent stays with the page, and types into whatever page it finds.
`SecretsInTurn` is what remains: the helper holds and sends out the secrets of the
login in flight only, and from the time a login's page has come until the login
ends they go to this page.  Where one login takes over from another a probe may
still meet the page before or the page after, and the model reaches both.

Left out: re-registration of the URI scheme when it changes, titles, the
contents of pages.

### SdlClip

The SDL thread (`handleEvent()`, `ClipDataCb()`, `ClipCleanCb()`) and the
channel thread (cliprdr callbacks) share one object.  An action is a section
under the lock, or one access outside of it where the other thread can come
in between: the format list is built one format at a time, the list of MIME
types is cleared and filled in steps, and `ClipDataCb()` is split at each wait
and at each unlock (`BeginAttempt`, `SendDataRequest`, `WaitSignalled`,
`WaitTimesOut`, `GiveUp`, `Fetched`, `RefusedRetry`, `RefusedForGood`,
`RetryDelay`).  The server answers what it has when it sends, may refuse,
may never answer, and its messages arrive in order.

An answer is stored converted to the format its call asked for.

The unsynchronised pointer in the offer event is a choice: the offer carries
any subset of the list that the pointer may meanwhile lead to.

Left out: `_last_timestamp` (timestamps are taken as unique), the early return
for MIME types offered by ourselves, file transfer, allocation failures,
re-initialisation of the channel, and a request of the server for data that
this process itself offers, which would re-enter `ClipDataCb()` on the channel
thread.  All text MIME types are one.

### SessionLifecycle

`mainPc` is the place in `sdl_run()`: polling, handling the event it took,
drawing, showing a dialog, leaving.  `windowEvent` is the local variable that
keeps the last event when `SDL_PeepEvents()` finds none in its range, unless
SDL's poll sentinel, which is in the range, is copied there first (`EventGone`).
Where the sentinel comes is SDL's affair, so both are in the model; with an SDL
that never leaves the request there, no dialog is shown twice (`Repeated`).
`rdpPc` is the place in
`rdpThreadRun()`: connecting, in a login, awaiting a dialog's result, in one of
the two handshakes of `postConnect()`, running, reconnecting, tearing down.
The queue is one sequence; each reader takes the first event in its range, the
forms take everything below the results and flush the desktop's events when
they close.

The FreeRDP library appears as code in `src/` uses it: it may ask for a
dialog during a connection and in a session, draw, lose the connection and
reconnect, and it calls `postDisconnect()` on its way out with the abort event
set.  A frame buffer is used in a step of its own after `isConnected()` was
read.

Left out: authentication-only mode, resizing, full screen, pointers, displays,
the program's exit code, and the text of dialogs.  `LoginEnds` does not look at
the abort, as the code does not.

### IdleKeepAlive

`SecondPasses` advances a clock of whole seconds; it is the wait of
`SDL_WaitEventTimeout(nullptr, 1000)`, so it cannot advance past a wait that is
over.  Every event ends the wait without a check; only a wait that ran out
checks the timer.  `last = Never` stands for `_haveLast == false`.

### ManagerLife

`manager`, `visible`, `holding`, `asking` and `answered` are the window's side:
closing the window holds the application and asks the Background portal, whose
answer may come when the window is open again.  `authHelper` is
`AppState::authHelper`; `mine` are all helpers this manager has started, which
the code does not know and the properties speak of.  `helper` has a state for
each place of `serve::run()` between two system calls on the socket, because
`path`, the one socket path, is shared by helpers of managers that were killed
or are being replaced: a starting helper unlinks whatever is there and an
ending one unlinks whatever is there by then.

A session dials whoever listens, and without anyone starts a helper of its
own (`OneShot` states).  All of these are one unique GtkApplication: the second
one only activates the first (`OneShotIsSecond`).  Its page may redirect again
after a first redirect and before the main loop has ended: finish() has no guard,
so the last redirect decides.  A helper that gives up before it shows anything
is `"aborted"`.  Helpers, managers and one-shot
helpers may be killed, `MaxKills` times.

Left out: the password a session reads with `op` before it dials and the token
request it makes with the code; and, of a helper that answers a Quit, the call
in flight, which `AuthServe` models.

### ProfileBook, ProfileStore, RdpDocument, ProfileDialogs

`ProfileStore` has the list in memory, `profiles.ini` and `profiles.ini.tmp`.
A save is `OpenTmp`, `WriteTmp`, `ChmodTmp`, `RenameTmp`, any of which may fail
(`OpenFails`, `SaveFails`) and between which the process may end (`Die`); GTK
runs nothing else meanwhile.  A start reads what is there, or, when it cannot,
nothing (`blind`).  `dropped` is history: the names deleted or renamed away.

`RdpDocument` is pure: a document is the sequence of a file's lines, `SetLine`
and `RemoveLines` treat a key that occurs several times as the code does, and
`FromProfile` writes the keys the code always writes, those it writes once
present, and those it removes.  `SessionValue` is what the session makes of the
arguments and the file together.

`ProfileDialogs` has the form, the delete dialog, the file chooser and drops.
Saving a profile with a linked file writes the file (`SaveToFile`) and then the
store, which may refuse (`StoreRefuses`).  A row's context is freed by
`refreshList()`: what a handler reads of it afterwards is any name made since.
The rows of the form convert what they are given (`InRows`): the combo shows a
preset it does not know as "Default", which is saved as no preset, a spin row
brings a number within its range, and Save takes a secret reference without its
quotes.  A drop or a load keeps such values; opening and saving the form does not.
`writer` is history: whose values a file was last written with; a process that
ends before `profiles.ini` was replaced leaves a file written for nobody.

The constants say what the fields may hold (`Values`), and `ValuesAssumption`
that whatever is read from a file, split off an address or told from the
performance keys is again such a value.  `RowsAssumption` says that a row keeps a
value it has converted, so that no secret reference is in two pairs of quotes.  The
session's scan looks for lines of type
`s`, the manager reads the first line of the key.  In a file with a key first in
another type and then again with another value as `s` the two do not find the same
(`ScansAgree`); a profile dropped from such a file shows what its session does not
run with, so `writer` does not record that drop.  A save repairs the file, whatever
was in it.

Left out: several files dropped at once, which are added one after the other
and saved once; the bytes of a line; the switches' callbacks.

### Floatbar

`MouseMotion`, `MouseButtonDown`, `MouseButtonUp`, `MouseEnter`, `MouseLeave`
and `PixelSizeChanged` are `SdlContext::handleEvent()` for these events, with
everything it calls: attaching the bar to the window the pointer is in, moving
it, laying out its buttons, its menu, the part under the pointer.  Lengths are
few pixels; the bar slides by `Step` in each motion, which stands for the time
between two frames.  `at` says where the pointer is, `held` which mouse buttons are
down and `atServer` which of their presses the server was told of.  `suppress` is
`_suppressNextButtonUp`, which any press clears.  `dismisser` and `alone` are
history: the button whose press closed the menu, and that nothing else has been
pressed or let go, and the bar not attached anew, since.

### KeyboardCapture

The person and SDL append to the queue; the main loop takes from it, so an
event meets the flags of a later moment: the shortcut's modifiers are asked
when the key is handled, as in the code.  `grabKeyboard` is the session's flag,
`captureLabel` what the menu says.  SDL's own grab is asked for and its result
ignored (`sdl_window.cpp` 176-182), so nothing in the code depends on it and it is
not in the model.  `byBar` is history: capture was switched on by the bar and nothing has
been synchronised since; that is the exception `NoKeyLeftDown` needs, because
the bar, other than the shortcut and the pointer, does not release the keys at
the server when it switches capture on.

Left out: several shortcut masks and a mask of no modifier, with which every
key is a shortcut; the window shortcuts' effect.

### DisplayChannel

`at` is each thread's place in `addTimer()`, `sendResize()` and `sendLayout()`,
which main loop, RDP thread and SDL's timer thread run without a lock.  What
follows is in the model as the code has it: two threads in `addTimer()` leave a
timer nobody can remove; the date of the last layout is checked and set apart
from it; `lastSent` may be the layout of the thread that sent first; a list read
while it is being written is `Torn`; a channel that goes between check and send
takes the process along (`session = "crashed"`); `_activated` and the last
layout survive a reconnection; a display that has gone before its ADDED event
is handled ends the session; and erasing from the map under its own loop is
survived or not.  One display always remains.  A session starts on one plain
window, or with a window on each display that `/monitors:` names.  `home` is the
display a window is on now: SDL moves it when the display goes, and the person
may (`MoveWindow`; one moved off a display that is still there comes with a change
to follow, since only that display's going can tell it).  `known` are the ids SDL has used; a display that comes back
has a new one.  An empty list meets the assertion of `sendLayout()`, which ends
the process; builds without assertions are not modelled.  `spread` is history:
every display had a window at the start and nobody moved one off its display.

Left out: `updateDisplayOffsetsForNeighbours()`, `setResizeable()`, scale and
orientation of a monitor, full screen.

## 3. What is checked

Runs that must pass, with their distinct states:

| Run | Bounds | States | Shows |
|---|---|---|---|
| `serve_autofill` | 2 calls with secrets, 2 documents each, one code, one retry | 710,286 | only the login in flight has a secret and sends it out, and while its page is there the secret goes to no other; a queued call types nothing; a code never comes from a call still to be served (29 s) |
| `serve_service` | 3 calls, one that cannot be started, no secrets, fairness | 30,644 | queue, window, reveal timer and replies are consistent in every order of the callbacks; the helper implements `TokenService`; every call is answered |
| `manager_life` | 2 managers, 2 resident helpers, 2 sessions, 1 closing of the window, 1 killed process, fairness | 253,955 | a login fails only with its helper; logins end, quitting stops the helper |
| `profiles` | 5 gestures, 1 fault, 1 write of another program, 2 names, 1 file with 3 contents, an address with a port, a preset and an idle time the form cannot show | 949,358 | names unique, nothing forgotten, `ProfileBook` is implemented, linked file and profile agree, foreign lines kept, the form's rows come back as they were saved |
| `clip_paste` | 2 lists, 2 pastes, 3 MIME types on 2 formats, 2 attempts | 942,466 | one request per call, woken by its own answer, nothing stale, the right format |
| `clip_copy` | 2 lists, 1 request of the server, 1 paste, 1 local copy, fairness | 215,248 | the desktop's own data never comes back as the server's; pastes return, lists get offered |
| `session` | 2 dialogs of 2 sorts, 1 frame, 1 desktop event, fairness | 307,860 | no session without windows, no forgotten frame, wrong answers come only from repeated dialogs; handshakes and questions end; `SessionContract` is implemented |
| `idle_safety` | 9 seconds, intervals 0, 2 and 3 | 144,426 | no combo to a user who is there, one to a session where nothing happens, the button restores the setting |
| `floatbar` | 3 windows, one without a renderer, 2 widths, a bar of 4 columns and 3 rows, 2 mouse buttons | 612,768 | the bar stays on the screen and where it is drawn, hides once left, does not retract under the pointer, a dismissing click that no other button comes between does nothing else |
| `capture` | 4 keys (mask, capture, another shortcut, unmapped), 2 windows, 2 queued events | 596,481 | no key left down |
| `displays` | 2 windows, 2 displays, all or some of them in use, 2 sizes, 2 changes, 1 retry, fairness | 445,387 | a session spread over all displays always has a monitor to send, the server is told what the screen has come to, resizing ends |

Why the bounds are enough: two calls are what a late callback needs to meet the
wrong one, and a third one has the queue hold more than the next.  Two lists
give an old and a new one, two attempts a first and a last; a third attempt
repeats the second.  Two dialogs give an answer to be taken for the other; the
one frame may be left over by a form, by an abort or by a reconnection.  Nine
seconds hold three intervals with a toggle between them.  Two managers and two
helpers give a helper that ends while its successor starts; two sessions are
what a unique application needs to refuse one.  One closing of the window lets the
portal's answer come before and after it is shown again; a second would only ask
again.  Five gestures are an addition, an edit with a rename or a new path, and a
deletion or export of the result; one fault at any of the system calls in between.
The bar's windows differ in width and renderer, its four columns are its four
kinds of parts, and the screen is deep enough to leave the bar downwards and
sideways.  Two mouse buttons are one that dismisses the menu and one that is
pressed or let go meanwhile.  Two queued events hold a key and what changes its meaning.  Two changes
of the screen put one in each of two threads, and the third thread, the timer's,
comes by itself.

A property that has several parts is a conjunction of definitions that are
commented one by one: `ServiceInStep`, `SecretsInTurn`, `CallsInStep`,
`PasteAsAsked`, `BridgeMovesOn`, `RdpThreadMovesOn`, `BarInPlace`, `ListKept`.  That
an answer of the helper is final (`AnsweredOnce`) is a part of what `TokenService`
promises and is also proved by itself.  
`CHECK_DEADLOCK FALSE` is set throughout: helpers, managers and sessions end,
and the bounded people, server and clock run out.

One run must find a violation:

| Run | The source says | The code does |
|---|---|---|
| `floatbar_dismiss`, `DismissWins` | `sdl_floatbar.cpp` 125-127: of a press that dismisses the menu over a button, "the dismiss wins, full stop, rather than also firing that button" | a press of any button clears the flag (`sdl_floatbar.cpp` 121): once a second mouse button was pressed, a release fires the button under it |

More statements of the source that the code does not keep are defined, with the
words quoted, near the end of their modules and have no run of their own; TLC
refutes each one on the instance named:

| Definition | Instance | The source says | The code does |
|---|---|---|---|
| `QuitLetsCallFinish` | `serve_service` | Quit waits for a call in flight | the loop is left at once |
| `PasswordTypedOnce` | `serve_autofill` | the password is tried once per request | a probe sent before the result types it again |
| `OtpAttemptsCapped` | `serve_autofill` | codes are capped | counted when the result comes, checked when the script is sent |
| `RetriesPerRequest` | `serve_autofill` | retries are one budget per request | each finished document resets it |
| `AttemptMeansFilled` | `serve_autofill` | an attempt is burnt only by typing the password | a result for the former call counts for the next |
| `CodeIsOwn` | `serve_autofill` | a call gets the code of its URL | a redirect of a cancelled login answers the next call |
| `OneShotsIndependent` | `manager_life` | without a resident helper a session starts its own: "connecting still works either way" | while another session's one-shot helper runs, the new one only activates it and exits as if cancelled |
| `CodeReachesSession` | `manager_life` | a captured code is printed for the session that waits for it | a second redirect, before the main loop has ended, overwrites the code and the result |
| `AnswerKeepsWindow` | `manager_life` | the portal's "answer only decides whether GNOME lists us" | it hides a window that was opened again meanwhile |
| `DeletesTheNamed` | `profiles` | the dialog names the profile it deletes | a drop while it is open frees the row the answer reads the name from |
| `FileKeysApply` | `profiles` | without a preset "the file's own standard keys still apply" | the session applies its default preset over them |
| `RetryTargetsCurrentList` | `clip_paste` | a superseded request is not retried | a list that comes during the delay is not noticed |
| `FlagTellsCurrentList` | `clip_paste` | the flag means data of the current list | a late answer sets it for the old list's data |
| `AnnounceHasChannel` | `clip_copy` | `WINPR_ASSERT(_ctx)` | the channel may close between check and assertion |
| `GdiAlive` | `session` | `WINPR_ASSERT(gdi)` | the buffer may go between check and assertion |
| `FloatbarIsCosmetic` | `session` | a failed floatbar is cosmetic | its failure throws out of the main loop |
| `KeepAliveFires` | `idle_safety` | the wait's time-out is the tick the keep-alive needs | a server that draws every second prevents it |
| `SomeMonitor` | `displays` | `WINPR_ASSERT(nmonitors > 0)` (`sdl_disp.cpp` 191) | with `/monitors:` the only display that has a window may be unplugged while others stay, and the list is empty |
| `ClicksMatched` | `floatbar` | no "unmatched click-release" reaches the server | a press the server was told of may end over the bar, and its release is kept |
| `OffMeansOff` | `capture` | "Off means genuinely no keyboard input reaches the session" | the pointer entering a window switches capture on, and the menu still says off |

The exceptions written into passing properties are consequences of these:
The two parts of `RdpThreadMovesOn` exclude a repeated dialog, because the
second form's loop may take the request that the RDP thread waits for, and
`PaintedIsDrawn` excludes sessions in which a form was shown, because it may
take the update event.  The clipboard's "current" properties exclude calls after a
time-out or an abort (`NothingLate`), because an answer that comes late has nothing
that tells whose it is: a call that was given up leaves its request at the server,
and the answer may be taken for the next call's.  `ShownAsSaved` excludes an
address typed with its port, which the file keeps and reading it splits in two, and
an emptied preset or key combination, which come back as what the file's standard
keys or the defaults say.  `DismissFiresNothing` excepts a click during which another
button is pressed or let go, and `SpreadKeepsMonitor` sessions with a display but no
window on it.
`NothingForgotten` excludes a process that could not read the store,
`NoKeyLeftDown` capture switched on by the bar, `ServerIsTold` layouts that
crossed, and `QuitStopsHelper` a quit that a helper left by a killed manager takes.

### Fairness

* `AuthServe`: the GTK loop dispatches what is pending, and the person in front
  of a shown login ends it some day (`WF` of the window's close).  Nothing is
  assumed of pages: a login that needs nobody may never redirect, but then the
  reveal timer shows it.
* `ManagerLife`: running helpers and sessions are scheduled, a manager that is
  ending stops its helper (its dial has a time-out), and a person ends a login
  that is shown, as above.  Nobody has to connect, close, quit or kill anything.
* `SdlClip`: the two threads run (`WF` of `ClipDataCbStep`, `HandleEvent` and
  `ChannelThread`).  Nothing is assumed of the server; the code's time-outs
  make `PasteReturns` true all the same.
* `SessionLifecycle`: both threads run, the library notices an abort
  (`WF` of `abort /\ RdpGivesUp`; its loop waits on the abort event), a shown
  dialog is answered and a login ended by the person.  The server owes nothing.
  `MaxShown` bounds how often a dialog is repeated, which says that the RDP
  thread, looking every millisecond, wins the race for the result some time.
* `DisplayChannel`: each of the three threads goes on where it is, the main
  loop takes its events, time passes and SDL fires its timers.  The server owes
  nothing, its graphics reset included.
* `IdleKeepAlive`, `Floatbar`, `KeyboardCapture` and the profiles have none: they
  promise nothing that has to happen by itself.

## 4. What is proved

| Theorem | Statement |
|---|---|
| `ServeInvariant`, `ServeTypeCorrect`, `ServeSafe`, `ServeAnswersOnce` | the helper's inductive invariant, `ServiceInStep` with `SecretsOfCurrent`, and that an answer is final |
| `ServedInvariant`, `ServeSecretsInTurn`, `ServeCodeOfServed` | whose secrets are typed and whose code is returned |
| `ServeRefinesService` | every step of the helper is a step of `TokenService` or a stutter |
| `LifeInvariant`, `LifeTypeCorrect`, `LifeFailedWithItsHelper` | manager, helpers and logins: whom a login is with when it fails |
| `StoreInvariant`, `StoreKeepsList` | the store under every handler, failed save, crash and restart |
| `StoreImplementsBook` | the store implements `ProfileBook`: `Spec => Book!BookSpec` |
| `ProfilesTypeCorrect`, `ProfilesKeepOthers`, `ProfilesShowAsSaved`, `ProfilesLinkedInStep` | forms and files: foreign lines are kept, the form opened again shows what was saved, and a session runs with what its profile shows |
| `ClipInvariant`, `ClipTypeCorrect`, `ClipCallsInStep` | requests and their event stay paired with the call |
| `ClipPasteIsServers`, `ClipFresh`, `ClipPasteAsAsked` | what is pasted is the server's, of the current list and in the format asked for |
| `SessionInvariant`, `SessionWindowsReady` | no session without windows |
| `SessionTypeCorrect`, `SessionMessages`, `SessionAnswersMatch`, `SessionPaintedIsDrawn` | the event queue: what is in it for every place of the two threads, whose answers a dialog gets, and that no frame is forgotten |
| `SessionKeepsContract` | every step of the threads is one of `SessionContract` or a stutter |
| `IdleInvariant`, `IdleTypeCorrect`, `IdleOnlyWhenIdle`, `IdleToggleRestores`, `IdleFiresWhenQuiet` | the keep-alive never interrupts a user, is never late, and its button restores the setting |
| `DisplayTypeCorrect`, `DisplaySpreadKeepsMonitor` | a session spread over all displays always has a monitor to send to the server |
| `BarInvariant`, `BarTypeCorrect`, `BarStaysInPlace`, `BarLeftMeansHidden`, `BarStaysUnderPointer`, `BarDismissFiresNothing` | everything the `floatbar` run checks |
| `CaptureInvariant`, `CaptureTypeCorrect`, `CaptureLeavesNoKeyDown` | capture and the keys the server takes for held |

They hold for any sets of requests, formats, MIME types, dialogs, helpers,
sessions, names, files, fields, windows, keys and lengths and for any bounds.  The
assumptions are those named in the modules: `ServeAssumption`, `WebAssumption`,
`AutofillAssumption`, `ClipAssumption`, `KindsAssumption`, `BoundsAssumption`,
`IntervalsAssumption`, `TimeAssumption`, `LifeAssumption`, `StoreAssumption`,
`FieldsAssumption`, `ValuesAssumption`, `RowsAssumption`, `DialogsAssumption`, `DisplayAssumption`,
`FloatbarAssumption`, `PartsAssumption` and `CaptureAssumption`.
Each only says what kind of value a constant is, but for `RowsAssumption`, above,
and one conjunct of `DialogsAssumption`: that storing and loading a profile again changes none of the
fields the session is told of, which are the preset and the two switches.

The argument, component by component:

* **Helper.**  None of the properties is inductive: that no call is answered
  twice needs that the queue holds no call twice, none that is current and none
  that is answered, and that an idle helper has an empty queue.  `IInv` of
  `AuthServeProofs` says that, and that the window and the reveal timer belong
  to a current call.  `FinishCurrent` is proved once, for the number of calls
  behind the current one that fail to start, and cited by every callback that
  finishes.  The same number is the witness of `TokenService!Serve` in the
  refinement.  `ServedInv` adds what history there is of calls that have not had
  their turn: nothing was typed for them, no document, script or redirect is
  theirs, and no code is.  `SecretsInTurn` needs of the current call, too, that its
  page is there, or on its way, or passed over by its redirect (`PageComes`).
* **Manager.**  `FailedWithItsHelper` needs `AskedWasBorn`, whom a login is with and since
  when, and `HelpersAge`: no step of any process brings a dead helper back.
* **Store.**  `TmpIsView` is what makes the refinement work: from `WriteTmp` on
  the temporary file is the list in memory, because nothing changes the list
  while a save is under way.  The lemmas on lists (`AddedList`, `UpdatedList`,
  `RemovedList`, `ReloadedList`) say what each operation does to the names; an
  update or removal finds the right profile because names are unique, and they
  stay unique because it does.
* **Files.**  `Select` and `FieldsWritten` are recursive functions over documents
  of any length; `RecursionExists` proves once that such a function exists, by the
  least length at which it would not, and `SelectUnfolds` and `FieldsWrittenUnfolds`
  give the steps.  From these, `SelectsAgree`, that two sequences that agree on the
  entries of a class select the same, gives `OthersKept`, and `InFile`, what one
  written field leaves for every key, gives by the order of the fields
  `FromProfileWrites`: what a document says of every field once a profile was
  written into it.  With `RowsHold`, that what the form's rows hold they convert no
  further, that is `ShownAsSaved`, and with
  `LinkInv` it is `LinkedInStep`.  `LinkInv` says that what holds of the list in
  memory holds of `profiles.ini`, too, as soon as a restart can make it the list:
  a save keeps the pair (`SavingInStep`), and a process that ends before the rename
  takes the file out of the claim.
* **Clipboard.**  `CallInv` ties three things to the place of the SDL thread:
  the queue holds one request exactly while `ClipDataCb()` waits, its format is
  the call's, and the manual-reset event is set outside a wait never, and
  inside only by an answer to it.  `ServersInv` says of everything that can be
  pasted, the store, the cache, and the server's messages, that it is the
  server's.  `FreshInv` is about time: as long as nothing was given up
  (`NothingLate`), the one request without an answer is the waiting call's, `InFlight`
  says where it is between client and server, and its answer is of a list no
  older than the call.
* **Session.**  `EventTellsWindows` is the step that makes `WindowsReady`
  inductive: the handshake event is set even when `createWindows()` fails, and
  only because the main thread is then leaving does the woken thread not go
  on without windows.  The other parts tie `_connected`, the frame buffer and
  the abort to the place in the teardown; `DrawingWasConnected` says what a
  drawing main thread may rely on, which is less than the code asserts.
  `Messages` is the invariant of the queue: as long as no dialog was shown twice,
  one request or answer is under way at most, it is the pending question's, and
  what a form or the main thread still holds was shown.  `PaintedIsDrawn`
  needs that an update event is in the queue, or one of the threads is at the
  work that ends with the frame drawn, whenever rectangles wait.
* **Keep-alive.**  `TimerSawAll`: while connected an armed timer is not older
  than the last input and the last combo.  `FiresWhenQuiet` needs how far the clock
  may be ahead of the last check, which a wait that is not over bounds.
* **Display channel.**  That a window is left when a display's windows are
  removed depends on every event still in the queue: `Covered` says that a display
  has a window after so many more of them.  `MonitorInv`, of a session that is
  spread, says that, for each removal in the queue, some other display is covered
  when the main loop comes to it, and in the end all connected ones are; `GoneInv`,
  that who is reported gone is gone for good, because SDL does not use an id twice.
* **Floatbar.**  `PointerAtBar`, that the bar is in the window the pointer is
  in, and `MenuNotDragged` are what `LaidOutAtBar` and `LeftMeansHidden` lack;
  `DismissedIsSuppressed` carries a dismissed menu from press to release.
* **Capture.**  `UpsFollow` is a fact about the queue: behind each key-down in it
  comes its key-up, or the key is still held.  It is what lets a
  synchronisation anywhere in between be enough.

Only model-checked: everything under fairness (`EveryCallAnswered`,
`EveryLoginEnds`, `QuitStopsHelper`, `BridgeMovesOn`, `RdpThreadMovesOn`,
`ServerIsTold`, `ResizingEnds`, and the liveness part of the refinements), because
the prover has no rules for fairness.  Every other property of a passing run is
proved.  Recursive
operators, and `SelectSeq` and the folds, whose conditions are operators, are out
of the prover's reach; the modules with theorems use recursive functions, about
which an induction can be done by hand.

## 5. Plan

1. Further proofs: `GdiAlive` for a main thread that holds a lock over check
   and use; the safety part of `KeepAliveFires`.
2. `Cursor`: the server's cursors are made, set and freed by the RDP thread and
   drawn by the main loop, which looks them up in a list before it uses them
   (`sdl_pointer.cpp` 68-155, `sdl_context.cpp` 1910-1924 and 2051-2112); a cursor set while the
   pointer is outside of every window is replaced by the default.
3. `ClipData`: who owns the data returned to SDL; an abstract clipboard that
   `SdlClip` implements.
4. Pure algorithms against reference definitions: neighbouring displays'
   offsets, merging of preferences, parsing of combos.

## 6. Not modelled

FreeRDP, SDL, GTK, WebKit and the 1Password client are external: they appear
only through what `src/` does with them.  Rendering, layout of widgets, option
parsing, resources, packaging and the pure helpers with tests of their own are
left out.  `SDL_KeyModMask` is one modifier; `main()` sets the shortcuts on or
off after the preferences have (`sdl_freerdp.cpp` 1010), so that a mask of no
modifier, meant to disable them, makes every key one; a mask of that kind is
not among the model's constants.  Undefined behaviour is modelled where its outcomes are values or the
end of the process (the offered MIME types, a freed row's name, a list read
while it is written, a map changed under its own loop); other contents of freed
memory are not, and the hazards list says where they bite.
