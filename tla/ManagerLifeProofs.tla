--------------------------- MODULE ManagerLifeProofs ---------------------------
(***************************************************************************)
(* Safety of the manager's life for any number of helpers and sessions and *)
(* any bounds.  That a login fails only with its helper rests on whom each *)
(* login is with, and on no step of any process bringing a helper back.    *)
(***************************************************************************)
EXTENDS ManagerLife, TLAPS

(* Where a login has not been given to a helper, nobody was asked; whoever *)
(* was asked had been started.                                             *)
AskedWasBorn ==
  \A s \in Sessions :
    /\ session[s] \in {"none", "launched"} \cup OneShot => asked[s] = NoHelper
    /\ asked[s] # NoHelper => helper[asked[s]] # "unborn"
    /\ session[s] = "failed" /\ asked[s] # NoHelper => ~Alive(asked[s])

IInv == TypeOK /\ AskedWasBorn

(* What a step may do to the helpers: nobody rises from the dead, nobody   *)
(* is unborn again.                                                        *)
HelpersAge ==
  \A h \in Helpers : /\ helper[h] = "dead" => helper'[h] = "dead"
                     /\ helper[h] # "unborn" => helper'[h] # "unborn"

LEMMA InitEstablishes == Init => IInv
<1> SUFFICES ASSUME Init PROVE IInv
    OBVIOUS
<1>1. TypeOK
  <2>1. asking \in Nat /\ managers \in Nat /\ closes \in Nat /\ kills \in Nat
    BY DEF Init
  <2>2. visible \in BOOLEAN /\ holding \in BOOLEAN /\ answered \in BOOLEAN
    BY DEF Init
  <2>3. /\ helper \in [Helpers -> HelperStates] /\ session \in [Sessions -> SessionStates]
        /\ asked \in [Sessions -> Helpers \cup {NoHelper}]
    BY DEF Init, HelperStates, SessionStates, OneShot
  <2>. QED BY <2>1, <2>2, <2>3 DEF Init, TypeOK
<1>2. AskedWasBorn
  BY DEF Init, AskedWasBorn
<1>. QED BY <1>1, <1>2 DEF IInv

(* A step that leaves the sessions alone and lets helpers only age keeps    *)
(* what is known of the logins.                                            *)
LEMMA AskedKept ==
  ASSUME TypeOK, AskedWasBorn, HelpersAge, UNCHANGED sessionVars
  PROVE  AskedWasBorn'
BY DEF TypeOK, AskedWasBorn, HelpersAge, sessionVars, Alive

(* What a session's own helper does concerns that session alone. *)
LEMMA OneShotAlone ==
  ASSUME NEW s \in Sessions, OneShotLogin(s) \/ KillOneShot(s)
  PROVE  /\ UNCHANGED <<manager, windowVars, authHelper, mine, helperVars, orphaned, managers,
                        closes, asked>>
         /\ session[s] \in OneShot
         /\ \E state \in OneShot \cup {"code", "declined", "failed"} :
               session' = [session EXCEPT ![s] = state]
         /\ UNCHANGED kills \/ kills' = kills + 1
<1>1. CASE KillOneShot(s)
  BY <1>1 DEF KillOneShot
<1>2. ASSUME NEW from \in SUBSET OneShot,
             NEW state \in OneShot \cup {"code", "declined", "failed"},
             OneShotStep(s, from, state)
      PROVE  /\ UNCHANGED <<manager, windowVars, authHelper, mine, helperVars, orphaned,
                            managers, closes, asked>>
             /\ session[s] \in OneShot
             /\ \E end \in OneShot \cup {"code", "declined", "failed"} :
                   session' = [session EXCEPT ![s] = end]
             /\ UNCHANGED kills
  BY <1>2 DEF OneShotStep, SessionStep
<1>3. ASSUME OneShotLogin(s)
      PROVE  \E from \in SUBSET OneShot, state \in OneShot \cup {"code", "declined", "failed"} :
               OneShotStep(s, from, state)
  <2>1. CASE OnOneShotActivate(s)
    BY <2>1 DEF OnOneShotActivate, OneShot
  <2>2. CASE OneShotMissing(s) \/ OneShotIsSecond(s)
    BY <2>2 DEF OneShotMissing, OneShotIsSecond, OneShot
  <2>3. CASE OnSchemeRequest(s)
    BY <2>3 DEF OnSchemeRequest, OneShot
  <2>4. CASE OnCloseRequest(s)
    BY <2>4 DEF OnCloseRequest, OneShot
  <2>5. CASE OneShotExits(s)
    BY <2>5 DEF OneShotExits, OneShot
  <2>. QED BY <1>3, <2>1, <2>2, <2>3, <2>4, <2>5 DEF OneShotLogin
<1>. QED BY <1>1, <1>2, <1>3

LEMMA TypeStep == TypeOK /\ [Next]_vars => TypeOK'
<1> SUFFICES ASSUME TypeOK, [Next]_vars PROVE TypeOK'
    OBVIOUS
<1> USE LifeAssumption DEF TypeOK, HelperStates, SessionStates, OneShot
<1>1. CASE StartManager
  <2>1. managers' \in Nat
    BY <1>1 DEF StartManager
  <2>2. visible' = TRUE /\ UNCHANGED <<holding, answered, asking>>
    BY <1>1 DEF StartManager
  <2>3. manager' = "running" /\ mine' = {}
    BY <1>1 DEF StartManager
  <2>4. UNCHANGED <<authHelper, helper, path, session, asked, orphaned, closes, kills>>
    BY <1>1 DEF StartManager, helperVars, sessionVars
  <2>. QED BY <2>1, <2>2, <2>3, <2>4
<1>2. CASE OnActivate
  BY <1>2 DEF OnActivate, helperVars, sessionVars
<1>3. CASE OnWindowCloseRequest
  <2>1. asking' \in Nat /\ closes' \in Nat
    BY <1>3 DEF OnWindowCloseRequest
  <2>2. visible' = FALSE /\ holding' = TRUE
    BY <1>3 DEF OnWindowCloseRequest, EnterBackground
  <2>3. UNCHANGED <<manager, answered, authHelper, mine, helper, path, session, asked, orphaned,
                    managers, kills>>
    BY <1>3 DEF OnWindowCloseRequest, helperVars, sessionVars
  <2>. QED BY <2>1, <2>2, <2>3
<1>4. CASE OnBackgroundRequested
  <2>1. asking' \in Nat
    BY <1>4 DEF OnBackgroundRequested
  <2>2. visible' = FALSE /\ holding' = TRUE /\ answered' = TRUE
    BY <1>4 DEF OnBackgroundRequested, EnterBackground
  <2>3. UNCHANGED <<manager, authHelper, mine, helper, path, session, asked, orphaned,
                    managers, closes, kills>>
    BY <1>4 DEF OnBackgroundRequested, helperVars, sessionVars
  <2>. QED BY <2>1, <2>2, <2>3
<1>5. CASE OnQuitAction
  BY <1>5 DEF OnQuitAction, windowVars, helperVars, sessionVars
<1>6. ASSUME NEW s \in Sessions, NEW found \in Lookups, ConnectToProfile(s, found)
      PROVE  TypeOK'
  BY <1>6 DEF ConnectToProfile, EnsureAuthHelperRunning, windowVars
<1>7. CASE OnAuthHelperExited
  BY <1>7 DEF OnAuthHelperExited, windowVars, helperVars, sessionVars
<1>8. ASSUME NEW inTime \in BOOLEAN, StopAuthHelper(inTime)
      PROVE  TypeOK'
  <2>1. \A h \in Helpers : Terminated(h) \in HelperStates
    BY DEF Terminated
  <2>2. helper' \in [Helpers -> HelperStates]
    BY <1>8, <2>1 DEF StopAuthHelper
  <2>. QED BY <1>8, <2>2 DEF StopAuthHelper, windowVars, sessionVars
<1>9. CASE ExitManager
  BY <1>9 DEF ExitManager, ProcessGone, helperVars, sessionVars
<1>10. CASE KillManager
  <2>1. authHelper' \in Helpers \cup {NoHelper} /\ orphaned' \subseteq Helpers
    BY <1>10 DEF KillManager
  <2>2. UNCHANGED <<helper, path, session, asked, managers, closes>> /\ mine' = {}
    BY <1>10 DEF KillManager, ProcessGone, helperVars, sessionVars
  <2>3. /\ manager' = "absent" /\ visible' = FALSE /\ holding' = FALSE
        /\ answered' = FALSE /\ asking' = 0 /\ kills' \in Nat
    BY <1>10 DEF KillManager, ProcessGone
  <2>. QED BY <2>1, <2>2, <2>3
<1>11. ASSUME NEW h \in Helpers, UnlinkSocket(h) \/ Listen(h) \/ CleanUp(h) \/ KillHelper(h)
       PROVE  TypeOK'
  BY <1>11 DEF UnlinkSocket, Listen, CleanUp, KillHelper, HelperStep, windowVars, sessionVars
<1>12. ASSUME NEW s \in Sessions, Dial(s) \/ LoginEnds(s) \/ KillOneShot(s)
       PROVE  TypeOK'
  <2>1. CASE OneShotLogin(s) \/ KillOneShot(s)
    <3>1. UNCHANGED <<manager, visible, holding, asking, answered, authHelper, mine, helper, path,
                      orphaned, managers, closes, asked>>
      BY <2>1, OneShotAlone DEF windowVars, helperVars
    <3>2. session' \in [Sessions -> SessionStates] /\ kills' \in Nat
      BY <2>1, OneShotAlone
    <3>. QED BY <3>1, <3>2
  <2>2. CASE Dial(s)
    BY <2>2 DEF Dial, SessionStep, windowVars, helperVars
  <2>3. CASE \E end \in {"code", "declined"} : ResidentAnswers(s, end)
    BY <2>3 DEF ResidentAnswers, SessionStep, windowVars, helperVars
  <2>4. CASE ResidentLost(s)
    BY <2>4 DEF ResidentLost, SessionStep, windowVars, helperVars
  <2>. QED BY <1>12, <2>1, <2>2, <2>3, <2>4 DEF LoginEnds
<1>13. CASE UNCHANGED vars
  BY <1>13 DEF vars, windowVars, helperVars, sessionVars
<1>. QED BY <1>1, <1>2, <1>3, <1>4, <1>5, <1>6, <1>7, <1>8, <1>9, <1>10, <1>11, <1>12, <1>13
     DEF Next

(* Only the end of a helper that had been started makes it dead, and only   *)
(* one that had not been started is ever started.                          *)
LEMMA HelpersOnlyAge == TypeOK /\ [Next]_vars => HelpersAge
<1> SUFFICES ASSUME TypeOK, [Next]_vars PROVE HelpersAge
    OBVIOUS
<1> USE DEF TypeOK, HelpersAge, HelperStates
<1>1. CASE UNCHANGED helper
  BY <1>1
<1>2. ASSUME NEW s \in Sessions, NEW found \in Lookups, ConnectToProfile(s, found)
      PROVE  HelpersAge
  BY <1>2 DEF ConnectToProfile, EnsureAuthHelperRunning
<1>3. ASSUME NEW inTime \in BOOLEAN, StopAuthHelper(inTime)
      PROVE  HelpersAge
  BY <1>3 DEF StopAuthHelper, Terminated
<1>4. ASSUME NEW h \in Helpers, UnlinkSocket(h) \/ Listen(h) \/ CleanUp(h) \/ KillHelper(h)
      PROVE  HelpersAge
  BY <1>4 DEF UnlinkSocket, Listen, CleanUp, KillHelper, HelperStep, Alive
<1>5. StartManager \/ OnActivate \/ OnWindowCloseRequest \/ OnBackgroundRequested
      \/ OnQuitAction \/ OnAuthHelperExited \/ ExitManager \/ KillManager
        => UNCHANGED helper
  BY DEF StartManager, OnActivate, OnWindowCloseRequest, OnBackgroundRequested, OnQuitAction,
         OnAuthHelperExited, ExitManager, KillManager, helperVars
<1>6. ASSUME NEW s \in Sessions, Dial(s) \/ LoginEnds(s) \/ KillOneShot(s)
      PROVE  UNCHANGED helper
  BY <1>6, OneShotAlone DEF Dial, LoginEnds, ResidentAnswers, ResidentLost, SessionStep, helperVars
<1>7. UNCHANGED vars => UNCHANGED helper
  BY DEF vars, helperVars
<1>. QED BY <1>1, <1>2, <1>3, <1>4, <1>5, <1>6, <1>7 DEF Next

LEMMA AskedStep == TypeOK /\ AskedWasBorn /\ [Next]_vars => AskedWasBorn'
<1> SUFFICES ASSUME TypeOK, AskedWasBorn, [Next]_vars PROVE AskedWasBorn'
    OBVIOUS
<1>0. HelpersAge
  BY HelpersOnlyAge
<1>1. CASE UNCHANGED sessionVars
  BY <1>0, <1>1, AskedKept
<1>2. ASSUME NEW s \in Sessions, NEW found \in Lookups, ConnectToProfile(s, found)
      PROVE  AskedWasBorn'
  <2>1. /\ UNCHANGED asked
        /\ session[s] = "none"
        /\ session' = [session EXCEPT ![s] = "launched"] \/ UNCHANGED session
    BY <1>2 DEF ConnectToProfile
  <2>2. \A t \in Sessions : \/ session'[t] = session[t]
                            \/ session'[t] = "launched" /\ session[t] = "none"
    BY <2>1 DEF TypeOK
  <2>. QED BY <1>0, <2>1, <2>2 DEF AskedWasBorn, HelpersAge, TypeOK, Alive
<1>3. ASSUME NEW s \in Sessions, Dial(s)
      PROVE  AskedWasBorn'
  <2>1. UNCHANGED helper
    BY <1>3 DEF Dial, SessionStep, helperVars
  <2>2. CASE Listening
    <3>1. path \in Helpers /\ helper[path] \in {"serving", "exiting"}
      BY <2>2 DEF Listening, TypeOK
    <3>2. /\ session' = [session EXCEPT ![s] = "resident"]
          /\ asked' = [asked EXCEPT ![s] = path]
      BY <1>3, <2>2 DEF Dial, SessionStep
    <3>. QED BY <2>1, <3>1, <3>2 DEF AskedWasBorn, TypeOK, Alive, OneShot
  <2>3. CASE ~Listening
    <3>1. session[s] = "launched" /\ session' = [session EXCEPT ![s] = "spawned"]
          /\ UNCHANGED asked
      BY <1>3, <2>3 DEF Dial, SessionStep
    <3>. QED BY <2>1, <3>1 DEF AskedWasBorn, TypeOK, Alive
  <2>. QED BY <2>2, <2>3
<1>4. ASSUME NEW s \in Sessions, LoginEnds(s) \/ KillOneShot(s)
      PROVE  AskedWasBorn'
  <2>1. CASE OneShotLogin(s) \/ KillOneShot(s)
    <3>1. UNCHANGED <<helper, asked>> /\ session[s] \in OneShot
      BY <2>1, OneShotAlone DEF helperVars
    <3>2. asked[s] = NoHelper
      BY <3>1 DEF AskedWasBorn
    <3>3. \A t \in Sessions : t # s => session'[t] = session[t]
      BY <2>1, OneShotAlone DEF TypeOK
    <3>. QED BY <3>1, <3>2, <3>3 DEF AskedWasBorn, Alive
  <2>2. CASE \E end \in {"code", "declined"} : ResidentAnswers(s, end)
    <3>1. UNCHANGED helper /\ asked' = [asked EXCEPT ![s] = NoHelper]
      BY <2>2 DEF ResidentAnswers, SessionStep, helperVars
    <3>2. \A t \in Sessions : t # s => session'[t] = session[t]
      BY <2>2 DEF ResidentAnswers, SessionStep, TypeOK
    <3>. QED BY <3>1, <3>2, LifeAssumption DEF AskedWasBorn, TypeOK, Alive
  <2>3. CASE ResidentLost(s)
    BY <2>3 DEF ResidentLost, SessionStep, AskedWasBorn, TypeOK, helperVars, Alive, OneShot
  <2>. QED BY <1>4, <2>1, <2>2, <2>3 DEF LoginEnds
<1>5. StartManager \/ OnActivate \/ OnWindowCloseRequest \/ OnBackgroundRequested
      \/ OnQuitAction \/ OnAuthHelperExited \/ (\E inTime \in BOOLEAN : StopAuthHelper(inTime))
      \/ ExitManager \/ KillManager \/ UNCHANGED vars
        => UNCHANGED sessionVars
  BY DEF StartManager, OnActivate, OnWindowCloseRequest, OnBackgroundRequested, OnQuitAction,
         OnAuthHelperExited, StopAuthHelper, ExitManager, KillManager, vars
<1>6. ASSUME NEW h \in Helpers, UnlinkSocket(h) \/ Listen(h) \/ CleanUp(h) \/ KillHelper(h)
      PROVE  UNCHANGED sessionVars
  BY <1>6 DEF UnlinkSocket, Listen, CleanUp, KillHelper, HelperStep
<1>. QED BY <1>1, <1>2, <1>3, <1>4, <1>5, <1>6 DEF Next
--------------------------------------------------------------------------------
(* The inductive invariant of manager, helpers and logins. *)
THEOREM LifeInvariant == SafetySpec => []IInv
<1>1. IInv /\ [Next]_vars => IInv'
  BY TypeStep, AskedStep DEF IInv
<1>. QED BY <1>1, InitEstablishes, PTL DEF SafetySpec

(* Type correctness of the manager's life. *)
THEOREM LifeTypeCorrect == SafetySpec => []TypeOK
<1>1. IInv => TypeOK
  BY DEF IInv
<1>. QED BY <1>1, LifeInvariant, PTL

(* A login that failed at the resident helper failed because that helper   *)
(* has gone, and a helper of its own is only for a login no other was      *)
(* asked for.                                                              *)
THEOREM LifeFailedWithItsHelper == SafetySpec => []FailedWithItsHelper
<1>1. IInv => FailedWithItsHelper
  BY DEF IInv, AskedWasBorn, FailedWithItsHelper
<1>. QED BY <1>1, LifeInvariant, PTL

================================================================================
