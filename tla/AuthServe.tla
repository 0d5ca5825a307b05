------------------------------ MODULE AuthServe -------------------------------
(***************************************************************************)
(* coffee-rdp-auth --serve: the resident login helper.  One GTK main loop  *)
(* dispatches D-Bus calls, window events, timers and the events of the one *)
(* WebView; every action below is one whole handler.  A RequestToken call  *)
(* is made by one session on its own connection and names that session.    *)
(***************************************************************************)
EXTENDS Autofill

CONSTANT Startable    (* requests whose URL holds a redirect_uri with a scheme *)

ASSUME ServeAssumption == Startable \subseteq Requests

VARIABLES
  phase,          (* "serving", "quitting" (exit idle queued) or "exited"   *)
  connections,    (* sessions connected to the helper                       *)
  current,        (* currentInvocation                                      *)
  queue,          (* RequestToken calls waiting for the WebView             *)
  reply,          (* what each call got so far                              *)
  codeOf,         (* whose login produced the code a call was answered with *)
  visible,        (* whether the window is shown                            *)
  revealTimer     (* whether the 1500 ms reveal timer is armed              *)

serveVars == <<phase, connections, current, queue, reply, codeOf, visible, revealTimer>>
vars == <<serveVars, autofillVars, webVars>>

Phases  == {"serving", "quitting", "exited"}
Replies == {"none", "waiting", "code", "error", "lost"}
Running == phase # "exited"

QueueSet == {queue[i] : i \in DOMAIN queue}

ServeTypeOK ==
  /\ phase \in Phases
  /\ connections \subseteq Requests
  /\ current \in MaybeRequest
  /\ queue \in Seq(Requests)
  /\ reply \in [Requests -> Replies]
  /\ codeOf \in [Requests -> MaybeRequest]
  /\ visible \in BOOLEAN
  /\ revealTimer \in BOOLEAN

TypeOK == WebTypeOK /\ AutofillTypeOK /\ ServeTypeOK

Init ==
  /\ WebInit
  /\ AutofillInit(NoAutofill)
  /\ phase = "serving"
  /\ connections = {}
  /\ current = NoReq
  /\ queue = <<>>
  /\ reply = [r \in Requests |-> "none"]
  /\ codeOf = [r \in Requests |-> NoReq]
  /\ visible = FALSE
  /\ revealTimer = FALSE

-----------------------------------------------------------------------------
(* Starting and finishing requests. *)

\* Mutant: finishCurrent() leaves the AutofillState alone.
BeginKeepsSecret(r) ==
  /\ current' = r
  /\ autofill' = IF r = NoReq THEN autofill ELSE AutofillFor(r)
  /\ retried' = 0
  /\ revealTimer' = (r # NoReq)
  /\ visible' = FALSE
  /\ nav' = IF r = NoReq THEN nav ELSE r

\* Mutant: a login that is loaded never arms the reveal timer.
BeginWithoutTimer(r) ==
  /\ current' = r
  /\ autofill' = IF r = NoReq THEN NoAutofill ELSE AutofillFor(r)
  /\ retried' = 0
  /\ revealTimer' = FALSE
  /\ visible' = FALSE
  /\ nav' = IF r = NoReq THEN nav ELSE r

\* startRequest() for a request whose URL can be opened, or no request at all.
Begin(r) ==
  /\ current' = r
  /\ autofill' = IF r = NoReq THEN NoAutofill ELSE AutofillFor(r)
  /\ retried' = 0
  /\ revealTimer' = (r # NoReq)
  /\ visible' = FALSE
  /\ nav' = IF r = NoReq THEN nav ELSE r

\* The requests startNext() finds first in the queue and startRequest() turns
\* down, each of which calls finishCurrent() and so startNext() again.
Unstartable(n) ==
  /\ n \in 0..Len(queue)
  /\ \A j \in 1..n : queue[j] \notin Startable
  /\ n < Len(queue) => queue[n + 1] \in Startable

\* Mutant: finishCurrent() forgets startNext().
FinishWithoutNext(answer, code) ==
  /\ Begin(NoReq)
  /\ queue' = queue
  /\ reply' = [r \in Requests |-> IF r = current THEN answer ELSE reply[r]]
  /\ codeOf' = [r \in Requests |-> IF r = current THEN code ELSE codeOf[r]]

\* finishCurrent(): answer the current call, then start the next one.
FinishCurrent(answer, code) ==
  \E n \in 0..Len(queue) :
    /\ Unstartable(n)
    /\ Begin(IF n < Len(queue) THEN queue[n + 1] ELSE NoReq)
    /\ queue' = SubSeq(queue, n + 2, Len(queue))
    /\ reply' = [r \in Requests |->
                   IF r = current THEN answer
                   ELSE IF \E j \in 1..n : r = queue[j] THEN "error"
                   ELSE reply[r]]
    /\ codeOf' = [r \in Requests |-> IF r = current THEN code ELSE codeOf[r]]

-----------------------------------------------------------------------------
(* Handlers of the main loop. *)

OnNewConnection(r) ==
  /\ Running
  /\ r \notin connections
  /\ reply[r] = "none"
  /\ connections' = connections \cup {r}
  /\ UNCHANGED <<phase, current, queue, reply, codeOf, visible, revealTimer,
                 autofillVars, webVars>>

\* The session is gone.  Its request, queued or current, stays where it is.
OnConnectionClosed(r) ==
  /\ Running
  /\ r \in connections
  /\ connections' = connections \ {r}
  /\ UNCHANGED <<phase, current, queue, reply, codeOf, visible, revealTimer,
                 autofillVars, webVars>>

\* Mutant: a call's URL is loaded when it arrives.
QueueRequestPreloads(r) ==
  /\ current # NoReq
  /\ queue' = Append(queue, r)
  /\ reply' = [reply EXCEPT ![r] = "waiting"]
  /\ nav' = r
  /\ UNCHANGED <<current, codeOf, visible, revealTimer, autofillVars,
                 page, scripts, events, loads, fills>>

\* Mutant: the newest call goes first.
QueueRequestInFront(r) ==
  /\ current # NoReq
  /\ queue' = <<r>> \o queue
  /\ reply' = [reply EXCEPT ![r] = "waiting"]
  /\ UNCHANGED <<current, codeOf, visible, revealTimer, autofillVars, webVars>>

QueueRequest(r) ==
  /\ current # NoReq
  /\ queue' = Append(queue, r)
  /\ reply' = [reply EXCEPT ![r] = "waiting"]
  /\ UNCHANGED <<current, codeOf, visible, revealTimer, autofillVars, webVars>>

StartRequest(r) ==
  /\ current = NoReq
  /\ r \in Startable
  /\ reply' = [reply EXCEPT ![r] = "waiting"]
  /\ Begin(r)
  /\ UNCHANGED <<queue, codeOf, retryTimers, page, scripts, events, loads, fills>>

\* startRequest() finds no redirect_uri and finishes the request at once.
TurnDownRequest(r) ==
  /\ current = NoReq
  /\ r \notin Startable
  /\ reply' = [reply EXCEPT ![r] = "error"]
  /\ Begin(NoReq)
  /\ UNCHANGED <<queue, codeOf, retryTimers, page, scripts, events, loads, fills>>

OnHandleRequestToken(r) ==
  /\ Running
  /\ r \in connections
  /\ reply[r] = "none"
  /\ QueueRequest(r) \/ StartRequest(r) \/ TurnDownRequest(r)
  /\ UNCHANGED <<phase, connections>>

\* A redirect is taken for the current request, whoever's page it came from;
\* with no current request it answers nobody.
OnSchemeRequest ==
  /\ Running
  /\ TakeEvent("redirect")
  /\ LET e == Head(events) IN
       FinishCurrent(e.value, IF e.value = "code" THEN e.of ELSE NoReq)
  /\ UNCHANGED <<phase, connections, retryTimers, page, scripts, loads, fills>>

\* A person closes the login window.
OnCloseRequest ==
  /\ Running
  /\ visible
  /\ IF current # NoReq
       THEN FinishCurrent("error", NoReq)
       ELSE visible' = FALSE /\ UNCHANGED <<current, queue, reply, codeOf, revealTimer,
                                            autofill, retried, nav>>
  /\ UNCHANGED <<phase, connections, retryTimers, page, scripts, events, loads, fills>>

OnLoadChanged ==
  /\ Running
  /\ TakeEvent("finished")
  /\ IF current # NoReq THEN ProbeNewPage ELSE UNCHANGED <<autofillVars, scripts>>
  /\ UNCHANGED <<serveVars, nav, page, loads, fills>>

OnRevealTimer ==
  /\ Running
  /\ revealTimer
  /\ revealTimer' = FALSE
  /\ visible' = (visible \/ current # NoReq)
  /\ UNCHANGED <<phase, connections, current, queue, reply, codeOf, autofillVars, webVars>>

\* The reply goes out now, the exit is left to an idle callback.
OnHandleQuit ==
  /\ phase = "serving"
  /\ phase' = "quitting"
  /\ UNCHANGED <<connections, current, queue, reply, codeOf, visible, revealTimer,
                 autofillVars, webVars>>

\* The main loop ends and with it the process: whoever still waits gets an
\* error from the closed connection.
Exit ==
  /\ phase' = "exited"
  /\ connections' = {}
  /\ current' = NoReq
  /\ queue' = <<>>
  /\ reply' = [r \in Requests |-> IF reply[r] = "waiting" THEN "lost" ELSE reply[r]]
  /\ visible' = FALSE
  /\ revealTimer' = FALSE
  /\ autofill' = NoAutofill
  /\ retryTimers' = 0
  /\ retried' = 0
  /\ nav' = NoReq
  /\ page' = [owner |-> NoReq, form |-> "done"]
  /\ scripts' = <<>>
  /\ events' = <<>>
  /\ UNCHANGED <<codeOf, loads, fills>>

QuitIdle  == phase = "quitting" /\ Exit
OnSigterm == Running /\ Exit

RetryTimeout == Running /\ OnAutofillRetryTimeout /\ UNCHANGED serveVars
JsResult     == Running /\ OnAutofillJsResult /\ UNCHANGED serveVars
Web          == Running /\ WebNext /\ UNCHANGED <<serveVars, autofillVars>>

Next ==
  \/ \E r \in Requests :
       OnNewConnection(r) \/ OnConnectionClosed(r) \/ OnHandleRequestToken(r)
  \/ OnSchemeRequest
  \/ OnCloseRequest
  \/ OnLoadChanged
  \/ OnRevealTimer
  \/ OnHandleQuit
  \/ QuitIdle
  \/ OnSigterm
  \/ RetryTimeout
  \/ JsResult
  \/ Web

\* The main loop dispatches what is ready, and the person in front of the
\* login window finishes the login or closes the window some day.
Fairness ==
  /\ WF_vars(OnSchemeRequest)
  /\ WF_vars(OnLoadChanged)
  /\ WF_vars(JsResult)
  /\ WF_vars(OnRevealTimer)
  /\ WF_vars(OnCloseRequest)
  /\ WF_vars(QuitIdle)

Spec == Init /\ [][Next]_vars /\ Fairness

-----------------------------------------------------------------------------
(* Safety. *)

Final == {"code", "error", "lost"}

\* Requests never wait while the WebView is free: finishCurrent() always
\* reaches startNext(), however the login ended.
NoIdleWithWork == queue # <<>> => current # NoReq

\* The window shows exactly one login at a time and only one that is in
\* flight; one that is not shown has a reveal timer that will show it.  A
\* timer left over from the login before would show this one too early, a
\* missing one would hide it for ever.
WindowFollowsLogin ==
  /\ current # NoReq <=> (visible \/ revealTimer)
  /\ ~(visible /\ revealTimer)

\* Every call that waits for its answer is current or queued, once: no call
\* is forgotten, answered twice or started twice, whatever the order of
\* redirects, window closes, disconnects and new calls.
CallsAccounted ==
  /\ \A r \in Requests : reply[r] = "waiting" <=> (r = current \/ r \in QueueSet)
  /\ current \notin QueueSet
  /\ \A i, j \in DOMAIN queue : queue[i] = queue[j] => i = j

\* Current call, queue, window, reveal timer and replies agree with each other
\* in every order of the callbacks.
ServiceInStep == NoIdleWithWork /\ WindowFollowsLogin /\ CallsAccounted

\* A resolved secret is held for the current request only and not past its end.
SecretsOfCurrent == {autofill.password, autofill.otpItem} \subseteq {current, NoReq}

\* A probe, by whatever timer or event it is sent, takes along the password of
\* the login in flight.
ProbeOfCurrent ==
  Len(scripts') > Len(scripts) => scripts'[Len(scripts')].password \in {current, NoReq}

\* The login's own page is still to come, or was passed over by a redirect.
NotOnItsPage(r) ==
  nav = r \/ \E i \in DOMAIN events : events[i].kind = "redirect" /\ events[i].of = r

\* A probe runs later than it is sent, and types into the page it finds.  That
\* is another login's than the password's only where one login takes over from
\* the other: in the page of a login before, or, once its own login is over, in
\* that of a login after.  Nothing is typed for a call that is still queued.
TypedAtHome ==
  \A r \in Requests :
    fills'[r] # fills[r] =>
      /\ r \notin QueueSet
      /\ \/ page.owner = r
         \/ r = current /\ NotOnItsPage(r)
         \/ reply[r] \in Final

\* Only the login in flight has a secret and sends it out, and from the time its
\* page has come until it ends the secret goes to this page.
SecretsInTurn == [][SecretsOfCurrent' /\ ProbeOfCurrent /\ TypedAtHome]_vars

\* A code handed out comes from the login of the call it answers or from one
\* that ended before, never from one that is still to be served.
CodeOfServed ==
  \A r \in Requests :
    reply[r] = "code" => /\ codeOf[r] # NoReq
                         /\ reply[codeOf[r]] \in {"code", "error"}

\* An answer is final: the D-Bus invocation is completed once.
AnsweredOnce ==
  [][\A r \in Requests : reply[r] \in Final => reply'[r] = reply[r]]_vars

(* Liveness. *)

\* Every call is answered or learns that the helper is gone, even behind the
\* calls of sessions that have disconnected.
EveryCallAnswered ==
  \A r \in Requests : reply[r] = "waiting" ~> reply[r] \in Final

(* Refinement. *)

Pending == (IF current = NoReq THEN <<>> ELSE <<current>>) \o queue

Service == INSTANCE TokenService WITH pending <- Pending, answer <- reply

\* The helper serves the calls in the order they arrived, each once.
ImplementsService == Service!Spec

-----------------------------------------------------------------------------
(* What comments and the interface description say and the code does not do. *)

\* "Asks the resident helper to exit after any in-flight RequestToken call
\* finishes": after Quit alone nobody who was being served loses the call.
QuitLetsCallFinish ==
  [][QuitIdle => current = NoReq]_vars

\* "Still capped, so a genuinely broken reference doesn't hammer `op`": a
\* request resolves at most kMaxOtpAttempts codes.
OtpAttemptsCapped == autofill.otpAttempts <= MaxOtpAttempts

\* "not reset per-page, so a page that keeps re-rendering without ever
\* producing the field still gives up eventually": the retry budget is one
\* per request.
RetriesPerRequest == retried <= MaxRenderRetries

\* "Only flips `passwordAttempted` once the script itself confirms it found
\* and filled the password field": the one attempt is burnt only by typing
\* this request's password.
AttemptMeansFilled ==
  current # NoReq /\ autofill.passwordAttempted => fills[current] # <<>>

\* "A wrong password is never retried automatically [...] only attempted once
\* per request".
PasswordTypedOnce == \A r \in Requests : Len(fills[r]) <= 1

\* RequestToken runs the login "against `url`" and returns its code.
CodeIsOwn == \A r \in Requests : reply[r] = "code" => codeOf[r] = r
=============================================================================
