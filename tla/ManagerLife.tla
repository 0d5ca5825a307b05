------------------------------ MODULE ManagerLife ------------------------------
(***************************************************************************)
(* The life of the manager process (src/manager/coffee_rdp_manager.cpp):   *)
(* its window, background mode and end, the resident login helper it       *)
(* starts on the first connect and stops when it ends, the path of the     *)
(* helper's socket, which every helper of this user shares, and the logins *)
(* of the sessions it launches (src/session/common/aad/webview_impl.cpp).  *)
(*                                                                         *)
(* Manager, helpers and sessions are processes of their own: each may stop *)
(* between any two of its steps.  A manager that was ended may be started  *)
(* again while the helper of the one before is still ending.               *)
(***************************************************************************)
EXTENDS Integers, FiniteSets

CONSTANTS
  Helpers,       \* processes coffee-rdp-auth --serve that may be started
  Sessions,      \* sessions that may be launched
  NoHelper,
  MaxManagers,   \* bound: manager processes one after the other
  MaxCloses,     \* bound: how often the window is closed
  MaxKills       \* bound: processes that die without their own doing

ASSUME LifeAssumption == NoHelper \notin Helpers /\ MaxManagers \in Nat

VARIABLES
  manager,       \* "absent", "running", or "stopping" once the main loop ended
  visible,       \* the window is shown
  holding,       \* the application is held: it outlives its window
  asking,        \* requests to the Background portal without an answer
  answered,      \* backgroundGranted or backgroundDenied
  authHelper,    \* AppState::authHelper
  mine,          \* the helpers this manager process has started
  helper,        \* [Helpers -> HelperStates]
  path,          \* the helper whose socket the path names, dead or alive
  session,       \* [Sessions -> SessionStates]
  asked,         \* [Sessions -> the helper its login call is with, or failed with]
  orphaned,      \* helpers whose manager died without stopping them
  managers, closes, kills   \* the counters the bounds speak of

windowVars == <<visible, holding, asking, answered>>
helperVars == <<helper, path>>
sessionVars == <<session, asked>>
vars == <<manager, windowVars, authHelper, mine, helperVars, sessionVars, orphaned,
          managers, closes, kills>>

(* "unlinked": serve::run() has removed the old socket and is about to     *)
(* listen; "exiting": its main loop has ended, the socket is still open.   *)
HelperStates == {"unborn", "starting", "unlinked", "serving", "exiting", "dead"}

(* A session's own helper, coffee-rdp-auth <url>: spawned, showing the      *)
(* login, leaving its main loop with a code or without, or giving up       *)
(* before it shows anything.                                               *)
OneShot == {"spawned", "asking", "captured", "refused", "aborted"}

SessionStates == {"none", "launched", "resident", "code", "declined", "failed"} \cup OneShot

Alive(h) == helper[h] \notin {"unborn", "dead"}

(* What sessionBinaryPath() and its siblings find, on PATH or beside this  *)
(* program.                                                                *)
Lookups == {"found", "missing"}

Init ==
  /\ manager = "absent"
  /\ visible = FALSE /\ holding = FALSE /\ asking = 0 /\ answered = FALSE
  /\ authHelper = NoHelper
  /\ mine = {}
  /\ helper = [h \in Helpers |-> "unborn"]
  /\ path = NoHelper
  /\ session = [s \in Sessions |-> "none"]
  /\ asked = [s \in Sessions |-> NoHelper]
  /\ orphaned = {}
  /\ managers = 0 /\ closes = 0 /\ kills = 0
--------------------------------------------------------------------------------
(* The window. *)

(* main(), and the first activation, which makes and shows the window. *)
StartManager ==
  /\ manager = "absent" /\ managers < MaxManagers
  /\ manager' = "running"
  /\ visible' = TRUE /\ mine' = {}
  /\ managers' = managers + 1
  /\ UNCHANGED <<holding, asking, answered, authHelper, helperVars, sessionVars, orphaned,
                 closes, kills>>

(* A second launch activates the running one. *)
OnActivate ==
  /\ manager = "running" /\ ~visible
  /\ visible' = TRUE
  /\ UNCHANGED <<manager, holding, asking, answered, authHelper, mine, helperVars, sessionVars,
                 orphaned, managers, closes, kills>>

EnterBackground == holding' = TRUE /\ visible' = FALSE

(* The portal is asked as long as it has not answered once. *)
OnWindowCloseRequest ==
  /\ manager = "running" /\ visible /\ closes < MaxCloses
  /\ EnterBackground
  /\ asking' = IF answered THEN asking ELSE asking + 1
  /\ closes' = closes + 1
  /\ UNCHANGED <<manager, answered, authHelper, mine, helperVars, sessionVars, orphaned,
                 managers, kills>>

(* Granted or not, the window goes to the background. *)
OnBackgroundRequested ==
  /\ manager = "running" /\ asking > 0
  /\ asking' = asking - 1
  /\ answered' = TRUE
  /\ EnterBackground
  /\ UNCHANGED <<manager, authHelper, mine, helperVars, sessionVars, orphaned,
                 managers, closes, kills>>

(* The menu's Quit or Ctrl+Q ends the main loop whatever holds it. *)
OnQuitAction ==
  /\ manager = "running" /\ visible
  /\ manager' = "stopping"
  /\ UNCHANGED <<windowVars, authHelper, mine, helperVars, sessionVars, orphaned,
                 managers, closes, kills>>

(* What ends with the process. *)
ProcessGone ==
  /\ visible' = FALSE /\ holding' = FALSE /\ asking' = 0 /\ answered' = FALSE
  /\ mine' = {}
--------------------------------------------------------------------------------
(* The helper, from the manager's side. *)

(* A helper that has not installed its handler yet dies of a SIGTERM. *)
Terminated(h) ==
  CASE helper[h] \in {"starting", "unlinked"} -> "dead"
    [] helper[h] = "serving" -> "exiting"
    [] OTHER -> helper[h]

(* ensureAuthHelperRunning(): a missing binary or a failed start leaves the *)
(* sessions to start helpers of their own.                                  *)
EnsureAuthHelperRunning ==
  \/ /\ authHelper = NoHelper
     /\ \E h \in Helpers :
          /\ helper[h] = "unborn"
          /\ helper' = [helper EXCEPT ![h] = "starting"]
          /\ authHelper' = h
          /\ mine' = mine \cup {h}
  \/ UNCHANGED <<authHelper, helper, mine>>   \* there is one, or it cannot be started

(* connectToProfile() *)
ConnectToProfile(s, sessionBinary) ==
  /\ manager = "running" /\ visible
  /\ session[s] = "none"
  /\ EnsureAuthHelperRunning
  /\ session' = IF sessionBinary = "found" THEN [session EXCEPT ![s] = "launched"] ELSE session
  /\ UNCHANGED <<manager, windowVars, path, asked, orphaned, managers, closes, kills>>

(* onAuthHelperExited() *)
OnAuthHelperExited ==
  /\ manager = "running"
  /\ authHelper # NoHelper /\ helper[authHelper] = "dead"
  /\ authHelper' = NoHelper
  /\ UNCHANGED <<manager, windowVars, mine, helperVars, sessionVars, orphaned,
                 managers, closes, kills>>

\* Mutant: no SIGTERM when nobody answered.
StopAuthHelperPolitely(inTime) ==
  /\ manager = "stopping" /\ authHelper # NoHelper
  /\ helper' = [h \in Helpers |->
                  IF inTime /\ h = path /\ helper[h] = "serving" THEN "exiting" ELSE helper[h]]
  /\ authHelper' = NoHelper
  /\ UNCHANGED <<manager, windowVars, mine, path, sessionVars, orphaned, managers, closes, kills>>

(* stopAuthHelper(): whoever listens on the path is asked to quit; without *)
(* an answer in time the own helper gets a SIGTERM.                        *)
StopAuthHelper(inTime) ==
  /\ manager = "stopping" /\ authHelper # NoHelper
  /\ LET asks  == path # NoHelper /\ helper[path] = "serving"
         acked == asks /\ inTime
     IN  helper' = [h \in Helpers |->
                      IF asks /\ h = path THEN "exiting"
                      ELSE IF ~acked /\ h = authHelper THEN Terminated(h)
                      ELSE helper[h]]
  /\ authHelper' = NoHelper
  /\ UNCHANGED <<manager, windowVars, mine, path, sessionVars, orphaned, managers, closes, kills>>

ExitManager ==
  /\ manager = "stopping" /\ authHelper = NoHelper
  /\ manager' = "absent"
  /\ ProcessGone
  /\ UNCHANGED <<authHelper, helperVars, sessionVars, orphaned, managers, closes, kills>>

KillManager ==
  /\ manager # "absent" /\ kills < MaxKills
  /\ manager' = "absent"
  /\ ProcessGone
  /\ authHelper' = NoHelper
  /\ orphaned' = orphaned \cup {h \in mine : Alive(h)}
  /\ kills' = kills + 1
  /\ UNCHANGED <<helperVars, sessionVars, managers, closes>>
--------------------------------------------------------------------------------
(* The helper's own steps, serve::run(). *)

HelperStep(h, state) ==
  /\ helper' = [helper EXCEPT ![h] = state]
  /\ UNCHANGED <<manager, windowVars, authHelper, mine, sessionVars, orphaned, managers, closes>>

(* "stale socket from a crashed prior run", or anybody's. *)
UnlinkSocket(h) ==
  /\ helper[h] = "starting"
  /\ HelperStep(h, "unlinked")
  /\ path' = NoHelper
  /\ UNCHANGED kills

Listen(h) ==
  /\ helper[h] = "unlinked"
  /\ IF path = NoHelper
     THEN HelperStep(h, "serving") /\ path' = h
     ELSE HelperStep(h, "dead") /\ UNCHANGED path   \* the address is in use
  /\ UNCHANGED kills

(* The end of run() removes the socket from the path. *)
CleanUp(h) ==
  /\ helper[h] = "exiting"
  /\ HelperStep(h, "dead")
  /\ path' = NoHelper
  /\ UNCHANGED kills

KillHelper(h) ==
  /\ Alive(h) /\ kills < MaxKills
  /\ HelperStep(h, "dead")
  /\ kills' = kills + 1
  /\ UNCHANGED path
--------------------------------------------------------------------------------
(* A session's login, webview_impl_run(). *)

SessionStep(s, state) ==
  /\ session' = [session EXCEPT ![s] = state]
  /\ UNCHANGED <<manager, windowVars, authHelper, mine, helperVars, orphaned,
                 managers, closes, kills>>

Listening == path # NoHelper /\ helper[path] \in {"serving", "exiting"}

(* runViaResidentHelper(), or without anyone listening a helper of its own. *)
Dial(s) ==
  /\ session[s] = "launched"
  /\ IF Listening
     THEN SessionStep(s, "resident") /\ asked' = [asked EXCEPT ![s] = path]
     ELSE SessionStep(s, "spawned") /\ UNCHANGED asked

(* The person ends a login at the helper the call is with. *)
ResidentAnswers(s, end) ==
  /\ session[s] = "resident" /\ helper[asked[s]] = "serving"
  /\ SessionStep(s, end)
  /\ asked' = [asked EXCEPT ![s] = NoHelper]

\* Mutant: the call keeps the proxy's 25 seconds.
ResidentTimesOut(s) ==
  /\ session[s] = "resident"
  /\ SessionStep(s, "failed")
  /\ UNCHANGED asked

\* Mutant: the closed connection goes unnoticed.
ResidentWaitsOn(s) ==
  /\ session[s] = "resident" /\ ~Alive(asked[s]) /\ Listening
  /\ SessionStep(s, "failed")
  /\ UNCHANGED asked

(* Once a helper answered the dial, its death is the login's failure. *)
ResidentLost(s) ==
  /\ session[s] = "resident" /\ ~Alive(asked[s])
  /\ SessionStep(s, "failed")
  /\ UNCHANGED asked

(* A step of the session's own helper. *)
OneShotStep(s, from, to) ==
  /\ session[s] \in from
  /\ SessionStep(s, to)
  /\ UNCHANGED asked

(* The helpers of all sessions are one unique GtkApplication: the first    *)
(* owns its name until it exits.                                           *)
NameOwned == \E s \in Sessions : session[s] \in OneShot \ {"spawned"}

(* onActivate(): without a redirect_uri in the URL the helper gives up.    *)
OnOneShotActivate(s) ==
  \E state \in {"asking", "aborted"} : ~NameOwned /\ OneShotStep(s, {"spawned"}, state)

(* execlp() finds no helper: not so while another session runs one. *)
OneShotMissing(s) == ~NameOwned /\ OneShotStep(s, {"spawned"}, "failed")

(* Another session's helper owns the name and gets the activation, in   *)
(* which it opens one more window on its own login; this one exits.        *)
OneShotIsSecond(s) == NameOwned /\ OneShotStep(s, {"spawned"}, "failed")

(* The redirect carries a code or an error.  finish() ends the main loop,   *)
(* but a page's further redirect may be dispatched before it has ended.    *)
OnSchemeRequest(s) ==
  \E state \in {"captured", "refused"} :
    OneShotStep(s, {"asking", "captured", "refused"}, state)

(* The window is closed, perhaps while the main loop is already ending. *)
OnCloseRequest(s) ==
  OneShotStep(s, {"asking", "captured", "refused"},
              IF session[s] = "captured" THEN "captured" ELSE "refused")

(* The exit code, and the code on stdout, reach runViaSpawnedHelper(). *)
OneShotExits(s) ==
  \/ OneShotStep(s, {"captured"}, "code")
  \/ OneShotStep(s, {"refused", "aborted"}, "declined")

OneShotLogin(s) ==
  OnOneShotActivate(s) \/ OneShotMissing(s) \/ OneShotIsSecond(s)
  \/ OnSchemeRequest(s) \/ OnCloseRequest(s) \/ OneShotExits(s)

KillOneShot(s) ==
  /\ session[s] \in OneShot /\ kills < MaxKills
  /\ session' = [session EXCEPT ![s] = "failed"]
  /\ kills' = kills + 1
  /\ UNCHANGED <<manager, windowVars, authHelper, mine, helperVars, asked, orphaned,
                 managers, closes>>

LoginEnds(s) ==
  \/ \E end \in {"code", "declined"} : ResidentAnswers(s, end)
  \/ ResidentLost(s)
  \/ OneShotLogin(s)

Next ==
  \/ StartManager
  \/ OnActivate
  \/ OnWindowCloseRequest
  \/ OnBackgroundRequested
  \/ OnQuitAction
  \/ \E s \in Sessions, found \in Lookups : ConnectToProfile(s, found)
  \/ OnAuthHelperExited
  \/ \E inTime \in BOOLEAN : StopAuthHelper(inTime)
  \/ ExitManager
  \/ KillManager
  \/ \E h \in Helpers : UnlinkSocket(h) \/ Listen(h) \/ CleanUp(h) \/ KillHelper(h)
  \/ \E s \in Sessions : Dial(s) \/ LoginEnds(s) \/ KillOneShot(s)

(* The running processes are scheduled, a main loop that was told to quit  *)
(* does, and a person who is shown a login ends it some day.               Nobody has to close, quit, connect or kill anything. *)
Fairness ==
  /\ WF_vars(\E inTime \in BOOLEAN : StopAuthHelper(inTime))
  /\ \A h \in Helpers : WF_vars(UnlinkSocket(h) \/ Listen(h) \/ CleanUp(h))
  /\ \A s \in Sessions : WF_vars(Dial(s) \/ LoginEnds(s)) /\ WF_vars(OneShotExits(s))

SafetySpec == Init /\ [][Next]_vars
Spec == SafetySpec /\ Fairness
--------------------------------------------------------------------------------
TypeOK ==
  /\ manager \in {"absent", "running", "stopping"}
  /\ visible \in BOOLEAN /\ holding \in BOOLEAN /\ answered \in BOOLEAN
  /\ asking \in Nat /\ managers \in Nat /\ closes \in Nat /\ kills \in Nat
  /\ authHelper \in Helpers \cup {NoHelper}
  /\ mine \subseteq Helpers /\ orphaned \subseteq Helpers
  /\ helper \in [Helpers -> HelperStates]
  /\ path \in Helpers \cup {NoHelper}
  /\ session \in [Sessions -> SessionStates]
  /\ asked \in [Sessions -> Helpers \cup {NoHelper}]

(* A login fails behind the person's back only when the helper its call    *)
(* was with has gone; it is never asked of a second helper.                *)
FailedWithItsHelper ==
  \A s \in Sessions :
    /\ session[s] \in {"resident", "failed"} /\ asked[s] # NoHelper => helper[asked[s]] # "unborn"
    /\ session[s] = "failed" /\ asked[s] # NoHelper => ~Alive(asked[s])
    /\ session[s] \in OneShot => asked[s] = NoHelper

(* Every launched session's login ends, whatever happens to the manager    *)
(* and to the helpers.                                                     *)
EveryLoginEnds ==
  \A s \in Sessions : session[s] = "launched" ~> session[s] \in {"code", "declined", "failed"}

(* "the process needs to actually be gone or on its way out either way":   *)
(* a manager that quits leaves no helper behind, unless it is killed       *)
(* meanwhile, or a manager before it was and its helper took the quit.     *)
QuitStopsHelper ==
  \A h \in Helpers :
    (manager = "stopping" /\ authHelper = h /\ orphaned = {}) ~> (~Alive(h) \/ h \in orphaned)

(* A code a session's own helper has captured reaches the session.  A      *)
(* further redirect with an error, before the main loop ends, forgets it.  *)
CodeReachesSession ==
  [][\A s \in Sessions : session[s] = "captured" /\ kills' = kills
       => session'[s] \in {"captured", "code"}]_vars

(* "the answer only decides whether GNOME lists us": it leaves the window  *)
(* as it is.                                                               *)
AnswerKeepsWindow == [][asking' < asking /\ manager' = "running" => visible' = visible]_vars

(* "falls back to spawning a fresh one-shot helper on its own [...]        *)
(* connecting still works either way": nobody's login is over before       *)
(* anybody was asked.  Not so while another session's helper shows its own.*)
OneShotsIndependent ==
  [][\A s \in Sessions : session[s] = "spawned" /\ kills' = kills /\ NameOwned
       => session'[s] # "failed"]_vars
================================================================================
