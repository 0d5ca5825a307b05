--------------------------- MODULE AuthServeProofs ----------------------------
(***************************************************************************)
(* Proofs about the resident login helper, for any set of requests and any *)
(* bounds.  IInv is the inductive strengthening: it ties the window, the   *)
(* reveal timer, the queue, the secrets and the replies to currentInvo-    *)
(* cation, the only thing the handlers test.                               *)
(***************************************************************************)
EXTENDS AuthServe, SequenceTheorems, TLAPS

USE WebAssumption, AutofillAssumption, ServeAssumption

\* A message at the head of either channel is well typed and so is the rest.
LEMMA HeadTail ==
  ASSUME NEW S, NEW s \in Seq(S), s # <<>>
  PROVE  Head(s) \in S /\ Tail(s) \in Seq(S)
OBVIOUS

LEMMA ProbeType ==
  ASSUME NEW a \in AutofillStates
  PROVE  Probe(a) \in Scripts
<1>1. TryOtp(a) \in BOOLEAN
  BY DEF TryOtp
<1>2. a.password \in MaybeRequest
  BY DEF AutofillStates
<1>3. (IF TryPassword(a) THEN a.password ELSE NoReq) \in MaybeRequest
  BY <1>2 DEF MaybeRequest
<1>4. QED
  BY <1>1, <1>3 DEF Probe, Scripts

LEMMA TryAutofillType ==
  ASSUME NEW a \in AutofillStates, scripts \in Seq(Scripts), TryAutofill(a)
  PROVE  scripts' \in Seq(Scripts)
BY ProbeType DEF TryAutofill

LEMMA AutofillForType ==
  ASSUME NEW r \in MaybeRequest
  PROVE  NoAutofill \in AutofillStates /\ (r # NoReq => AutofillFor(r) \in AutofillStates)
BY DEF AutofillFor, NoAutofill, AutofillStates, MaybeRequest

LEMMA AutofillUpdateType ==
  ASSUME NEW a \in AutofillStates
  PROVE  /\ [a EXCEPT !.passwordAttempted = TRUE] \in AutofillStates
         /\ [a EXCEPT !.otpAttempts = @ + 1] \in AutofillStates
         /\ [a EXCEPT !.renderRetries = @ + 1] \in AutofillStates
         /\ [a EXCEPT !.renderRetries = 0] \in AutofillStates
<1>1. [a EXCEPT !.passwordAttempted = TRUE] \in AutofillStates
  BY DEF AutofillStates
<1>2. [a EXCEPT !.otpAttempts = @ + 1] \in AutofillStates
  BY DEF AutofillStates
<1>3. [a EXCEPT !.renderRetries = @ + 1] \in AutofillStates
  BY DEF AutofillStates
<1>4. [a EXCEPT !.renderRetries = 0] \in AutofillStates
  BY DEF AutofillStates
<1>5. QED
  BY <1>1, <1>2, <1>3, <1>4

LEMMA PageUpdateType ==
  ASSUME NEW p \in [owner : MaybeRequest, form : Forms], NEW f \in Forms
  PROVE  [p EXCEPT !.form = f] \in [owner : MaybeRequest, form : Forms]
OBVIOUS

LEMMA InitType == Init => TypeOK
<1> SUFFICES ASSUME Init PROVE TypeOK
  OBVIOUS
<1>1. WebTypeOK
  BY DEF Init, WebInit, WebTypeOK, MaybeRequest, Forms
<1>2. AutofillTypeOK
  BY AutofillForType DEF Init, AutofillInit, AutofillTypeOK, MaybeRequest
<1>3. ServeTypeOK
  <2>1. reply \in [Requests -> Replies]
    BY DEF Init, Replies
  <2>2. codeOf \in [Requests -> MaybeRequest]
    BY DEF Init, MaybeRequest
  <2>3. phase \in Phases /\ visible \in BOOLEAN /\ revealTimer \in BOOLEAN
    BY DEF Init, Phases
  <2>4. QED
    BY <2>1, <2>2, <2>3 DEF Init, ServeTypeOK, MaybeRequest
<1>4. QED
  BY <1>1, <1>2, <1>3 DEF TypeOK

\* Whatever the web process does, its page and its messages stay well formed.
LEMMA WebStepType ==
  ASSUME WebTypeOK, WebNext, page.form # "done" => page.owner # NoReq
  PROVE  WebTypeOK'
<1> USE DEF WebTypeOK
<1>0. {"blank", "password", "otp", "submitted", "done"} = Forms
  BY DEF Forms
<1>1. Finished \in Events /\ \A v \in Results : Result(v) \in Events
  BY DEF Finished, Result, Events
<1>2. \A r \in Requests, v \in {"code", "error"} : Redirect(r, v) \in Events
  BY DEF Redirect, Events
<1>3. ASSUME NEW f \in Forms, WebCommit(f) PROVE WebTypeOK'
  BY <1>1, <1>3 DEF WebCommit, Emit, MaybeRequest
<1>4. ASSUME NEW f \in Forms, WebNavigate(f) PROVE WebTypeOK'
  BY <1>1, <1>4, PageUpdateType DEF WebNavigate, Emit
<1>5. ASSUME NEW f \in Forms, WebRender(f) PROVE WebTypeOK'
  BY <1>5, PageUpdateType DEF WebRender
<1>6. ASSUME NEW v \in {"code", "error"}, WebSilentRedirect(v) PROVE WebTypeOK'
  BY <1>2, <1>6 DEF WebSilentRedirect, Emit, MaybeRequest
<1>7. ASSUME NEW v \in {"code", "error"}, WebRedirect(v) PROVE WebTypeOK'
  <2>1. page.owner \in Requests
    BY <1>7 DEF WebRedirect, MaybeRequest
  <2>2. Redirect(page.owner, v) \in Events
    BY <1>2, <2>1
  <2>3. [page EXCEPT !.form = "done"] \in [owner : MaybeRequest, form : Forms]
    BY <1>0, PageUpdateType
  <2>4. QED
    BY <1>7, <2>2, <2>3 DEF WebRedirect, Emit
<1>8. ASSUME WebRedirectFails PROVE WebTypeOK'
  BY <1>1, <1>8 DEF WebRedirectFails, Emit
<1>9. ASSUME WebRunScript PROVE WebTypeOK'
  <2> DEFINE s == Head(scripts)
  <2>1. s \in Scripts /\ scripts' \in Seq(Scripts)
    BY <1>9, HeadTail DEF WebRunScript
  <2>2. {"filled-password", "awaiting-otp", "no-match", "failed"} = Results
    BY DEF Results
  <2>3. s.password \in MaybeRequest
    BY <2>1 DEF Scripts
  <2>4. page.owner \in MaybeRequest
    OBVIOUS
  <2>5. [page EXCEPT !.form = "submitted"] \in [owner : MaybeRequest, form : Forms]
    BY <1>0, PageUpdateType
  <2>6. CASE ProbeFillsPassword(s)
    <3>1. fills' \in [Requests -> Seq(MaybeRequest)]
      BY <2>3, <2>4, <2>6 DEF ProbeFillsPassword, MaybeRequest
    <3>2. events' \in Seq(Events)
      BY <1>1, <2>2, <2>6 DEF ProbeFillsPassword, Emit
    <3>3. QED
      BY <1>9, <2>1, <2>5, <2>6, <3>1, <3>2 DEF WebRunScript, ProbeFillsPassword
  <2>7. CASE ProbeFindsOtp(s) \/ ProbeFindsNothing(s) \/ ProbeFails(s)
    <3>1. PICK v \in Results : events' = Append(events, Result(v))
      BY <2>2, <2>7 DEF ProbeFindsOtp, ProbeFindsNothing, ProbeFails, Emit
    <3>2. UNCHANGED <<page, fills>>
      BY <2>7 DEF ProbeFindsOtp, ProbeFindsNothing, ProbeFails
    <3>3. QED
      BY <1>1, <1>9, <2>1, <3>1, <3>2 DEF WebRunScript
  <2>8. CASE OtpScript(s)
    BY <1>9, <2>1, <2>5, <2>8 DEF WebRunScript, OtpScript
  <2>9. QED
    BY <1>9, <2>6, <2>7, <2>8 DEF WebRunScript
<1>10. QED
  BY <1>3, <1>4, <1>5, <1>6, <1>7, <1>8, <1>9 DEF WebNext

\* The three ways the autofill runs keep its state and its probes well formed.
LEMMA AutofillStepType ==
  ASSUME WebTypeOK, AutofillTypeOK,
         OnAutofillRetryTimeout \/ OnAutofillJsResult
  PROVE  WebTypeOK' /\ AutofillTypeOK'
<1> USE DEF WebTypeOK, AutofillTypeOK
<1>1. CASE OnAutofillRetryTimeout
  BY <1>1, TryAutofillType DEF OnAutofillRetryTimeout
<1>2. CASE OnAutofillJsResult
  <2>0. UNCHANGED <<nav, page, loads, fills>>
    BY <1>2 DEF OnAutofillJsResult
  <2>1. events' \in Seq(Events)
    BY <1>2, HeadTail DEF OnAutofillJsResult, TakeEvent
  <2>2. CASE PasswordFilled
    BY <1>2, <2>1, <2>2, AutofillUpdateType DEF OnAutofillJsResult, PasswordFilled
  <2>3. CASE OtpAwaited
    <3>1. FillOtp \in Scripts
      BY DEF FillOtp, Scripts, MaybeRequest
    <3>2. scripts' \in Seq(Scripts)
      <4>1. scripts' = scripts \/ scripts' = Append(scripts, FillOtp)
        BY <2>3 DEF OtpAwaited
      <4>2. QED
        BY <3>1, <4>1
    <3>3. AutofillTypeOK'
      BY <2>3, AutofillUpdateType DEF OtpAwaited
    <3>4. QED
      BY <2>0, <2>1, <3>2, <3>3
  <2>4. CASE NothingFound
    <3>1. AutofillTypeOK'
      <4>1. autofill' \in AutofillStates
        BY <2>4, AutofillUpdateType DEF NothingFound, autofillVars
      <4>2. retryTimers' \in Nat /\ retried' \in Nat
        BY <2>4 DEF NothingFound, autofillVars
      <4>3. QED
        BY <4>1, <4>2
    <3>2. QED
      BY <2>0, <2>1, <2>4, <3>1 DEF NothingFound
  <2>5. CASE ScriptFailed
    BY <1>2, <2>1, <2>5 DEF OnAutofillJsResult, ScriptFailed
  <2>6. QED
    BY <1>2, <2>2, <2>3, <2>4, <2>5 DEF OnAutofillJsResult
<1>3. QED
  BY <1>1, <1>2

-----------------------------------------------------------------------------
(* The invariant of the request bookkeeping. *)

IInv ==
  /\ TypeOK
  /\ NoIdleWithWork
  /\ WindowFollowsLogin
  /\ CallsAccounted
  /\ SecretsOfCurrent
  /\ page.form # "done" => page.owner # NoReq

\* What finishCurrent() leaves in the queue is a suffix of it.
LEMMA QueueSuffix ==
  ASSUME queue \in Seq(Requests), NEW n \in 0..Len(queue),
         queue' = SubSeq(queue, n + 2, Len(queue))
  PROVE  /\ queue' \in Seq(Requests)
         /\ \A i \in DOMAIN queue' : /\ n + 1 + i \in DOMAIN queue
                                     /\ queue'[i] = queue[n + 1 + i]
         /\ \A i \in DOMAIN queue : i > n + 1 => /\ i - n - 1 \in DOMAIN queue'
                                                 /\ queue'[i - n - 1] = queue[i]
         /\ n >= Len(queue) - 1 => queue' = <<>>
OBVIOUS

\* finishCurrent() keeps the books: it answers the current call and those it
\* turns down, and the next one becomes current.
LEMMA FinishKeepsBooks ==
  ASSUME IInv, NEW answer \in {"code", "error"}, NEW code \in MaybeRequest,
         FinishCurrent(answer, code)
  PROVE  /\ queue' \in Seq(Requests) /\ current' \in MaybeRequest
         /\ reply' \in [Requests -> Replies]
         /\ codeOf' \in [Requests -> MaybeRequest]
         /\ NoIdleWithWork' /\ CallsAccounted'
         /\ \A r \in Requests : reply[r] \in Final => reply'[r] = reply[r]
<1> USE DEF QueueSet, MaybeRequest
<1>1. PICK n \in 0..Len(queue) :
        /\ Unstartable(n)
        /\ Begin(IF n < Len(queue) THEN queue[n + 1] ELSE NoReq)
        /\ queue' = SubSeq(queue, n + 2, Len(queue))
        /\ reply' = [r \in Requests |->
                       IF r = current THEN answer
                       ELSE IF \E j \in 1..n : r = queue[j] THEN "error"
                       ELSE reply[r]]
        /\ codeOf' = [r \in Requests |-> IF r = current THEN code ELSE codeOf[r]]
  BY DEF FinishCurrent
<1>2. /\ queue \in Seq(Requests) /\ current \in MaybeRequest
      /\ reply \in [Requests -> Replies] /\ codeOf \in [Requests -> MaybeRequest]
  BY DEF IInv, TypeOK, ServeTypeOK
<1>3. /\ queue' \in Seq(Requests)
      /\ \A i \in DOMAIN queue' : n + 1 + i \in DOMAIN queue /\ queue'[i] = queue[n + 1 + i]
      /\ \A i \in DOMAIN queue : i > n + 1 => i - n - 1 \in DOMAIN queue'
                                              /\ queue'[i - n - 1] = queue[i]
      /\ n >= Len(queue) - 1 => queue' = <<>>
  BY <1>1, <1>2, QueueSuffix
<1>4. current' = IF n < Len(queue) THEN queue[n + 1] ELSE NoReq
  BY <1>1 DEF Begin
<1>5. /\ \A r \in Requests : reply[r] = "waiting" <=> (r = current \/ r \in QueueSet)
      /\ current \notin QueueSet
      /\ \A i, j \in DOMAIN queue : queue[i] = queue[j] => i = j
  BY DEF IInv, CallsAccounted
<1>6. current' \in MaybeRequest
  BY <1>2, <1>4
<1>7. reply' \in [Requests -> Replies]
  BY <1>1, <1>2 DEF Replies
<1>8. codeOf' \in [Requests -> MaybeRequest]
  BY <1>1, <1>2
<1>9. NoIdleWithWork'
  <2>1. n < Len(queue) => current' # NoReq
    BY <1>2, <1>4
  <2>2. QED
    BY <1>2, <1>3, <2>1 DEF NoIdleWithWork
<1>10. ASSUME NEW r \in Requests
       PROVE  reply'[r] = "waiting" <=> (r = current' \/ r \in QueueSet')
  <2>1. ASSUME reply'[r] = "waiting" PROVE r = current' \/ r \in QueueSet'
    <3>1. r # current /\ ~(\E j \in 1..n : r = queue[j]) /\ reply[r] = "waiting"
      BY <1>1, <2>1
    <3>2. PICK i \in DOMAIN queue : r = queue[i]
      BY <1>5, <3>1
    <3>3. i = n + 1 \/ i > n + 1
      BY <1>2, <3>1, <3>2
    <3>4. CASE i = n + 1
      BY <1>2, <1>4, <3>2, <3>4
    <3>5. CASE i > n + 1
      BY <1>3, <3>2, <3>5
    <3>6. QED
      BY <3>3, <3>4, <3>5
  <2>2. ASSUME NEW i \in DOMAIN queue, i > n, r = queue[i] PROVE reply'[r] = "waiting"
    <3>1. r # current /\ reply[r] = "waiting"
      BY <1>5, <2>2
    <3>2. ~(\E j \in 1..n : r = queue[j])
      BY <1>2, <1>5, <2>2
    <3>3. QED
      BY <1>1, <3>1, <3>2
  <2>3. CASE r = current'
    <3>1. n + 1 \in DOMAIN queue /\ r = queue[n + 1]
      BY <1>2, <1>4, <2>3
    <3>2. QED
      BY <2>2, <2>3, <3>1
  <2>4. ASSUME r \in QueueSet' PROVE reply'[r] = "waiting"
    <3>1. PICK i \in DOMAIN queue' : r = queue'[i]
      BY <2>4
    <3>2. n + 1 + i \in DOMAIN queue /\ n + 1 + i > n /\ r = queue[n + 1 + i]
      BY <1>3, <3>1
    <3>3. QED
      BY <2>2, <3>2
  <2>5. QED
    BY <2>1, <2>3, <2>4, <2>2, <1>2, <1>4
<1>11. \A i, j \in DOMAIN queue' : queue'[i] = queue'[j] => i = j
  BY <1>3, <1>5
<1>12. current' \notin QueueSet'
  <2>1. SUFFICES ASSUME NEW i \in DOMAIN queue', current' = queue'[i] PROVE FALSE
    OBVIOUS
  <2>2. n + 1 + i \in DOMAIN queue /\ current' = queue[n + 1 + i]
    BY <1>3, <2>1
  <2>3. n < Len(queue) /\ n + 1 \in DOMAIN queue /\ current' = queue[n + 1]
    BY <1>2, <1>3, <1>4, <2>2
  <2>4. n + 1 = n + 1 + i
    BY <1>5, <2>2, <2>3
  <2>5. QED
    BY <1>3, <2>4
<1>13. \A r \in Requests : reply[r] \in Final => reply'[r] = reply[r]
  <2> SUFFICES ASSUME NEW r \in Requests, reply[r] \in Final PROVE reply'[r] = reply[r]
    OBVIOUS
  <2>1. reply[r] # "waiting"
    BY DEF Final
  <2>2. r # current /\ r \notin QueueSet
    BY <1>5, <2>1
  <2>3. ~(\E j \in 1..n : r = queue[j])
    BY <1>2, <2>2
  <2>4. QED
    BY <1>1, <2>2, <2>3
<1>14. CallsAccounted'
  BY <1>10, <1>11, <1>12 DEF CallsAccounted
<1>15. QED
  BY <1>3, <1>6, <1>7, <1>8, <1>9, <1>13, <1>14

\* startRequest() or the lack of a next request sets up the window, the timer
\* and the autofill for whatever is current from now on.
LEMMA BeginSetsUp ==
  ASSUME IInv, NEW r \in MaybeRequest, Begin(r)
  PROVE  /\ WindowFollowsLogin' /\ SecretsOfCurrent' /\ AutofillStates' = AutofillStates
         /\ autofill' \in AutofillStates /\ retried' \in Nat
         /\ visible' \in BOOLEAN /\ revealTimer' \in BOOLEAN
         /\ nav' \in MaybeRequest /\ current' = r
<1>1. autofill' \in AutofillStates
  BY AutofillForType DEF Begin
<1>2. SecretsOfCurrent'
  BY DEF Begin, SecretsOfCurrent, NoAutofill, AutofillFor
<1>3. revealTimer' \in BOOLEAN /\ visible' \in BOOLEAN /\ WindowFollowsLogin'
  BY DEF Begin, WindowFollowsLogin
<1>4. nav' \in MaybeRequest
  BY DEF Begin, IInv, TypeOK, WebTypeOK
<1>5. QED
  BY <1>1, <1>2, <1>3, <1>4 DEF Begin

\* A handler that finishes the current call and leaves the page alone.
LEMMA FinishKeepsIInv ==
  ASSUME IInv, NEW answer \in {"code", "error"}, NEW code \in MaybeRequest,
         FinishCurrent(answer, code), events' \in Seq(Events),
         UNCHANGED <<phase, connections, retryTimers, page, scripts, loads, fills>>
  PROVE  IInv'
<1>1. /\ queue' \in Seq(Requests) /\ current' \in MaybeRequest
      /\ reply' \in [Requests -> Replies]
      /\ codeOf' \in [Requests -> MaybeRequest]
      /\ NoIdleWithWork' /\ CallsAccounted'
  BY FinishKeepsBooks
<1>2. PICK n \in 0..Len(queue) : Begin(IF n < Len(queue) THEN queue[n + 1] ELSE NoReq)
  BY DEF FinishCurrent
<1>3. (IF n < Len(queue) THEN queue[n + 1] ELSE NoReq) \in MaybeRequest
  BY DEF IInv, TypeOK, ServeTypeOK, MaybeRequest
<1>4. /\ WindowFollowsLogin' /\ SecretsOfCurrent'
      /\ autofill' \in AutofillStates /\ retried' \in Nat
      /\ visible' \in BOOLEAN /\ revealTimer' \in BOOLEAN
      /\ nav' \in MaybeRequest
  BY <1>2, <1>3, BeginSetsUp
<1>5. WebTypeOK'
  BY <1>4 DEF IInv, TypeOK, WebTypeOK
<1>6. AutofillTypeOK'
  BY <1>4 DEF IInv, TypeOK, AutofillTypeOK
<1>7. ServeTypeOK'
  BY <1>1, <1>4 DEF IInv, TypeOK, ServeTypeOK
<1>8. QED
  BY <1>1, <1>4, <1>5, <1>6, <1>7 DEF IInv, TypeOK

\* A new call is queued, started or turned down.
LEMMA RequestKeepsIInv ==
  ASSUME IInv, NEW r \in Requests, OnHandleRequestToken(r)
  PROVE  IInv' /\ \A q \in Requests : reply[q] \in Final => reply'[q] = reply[q]
<1> USE DEF MaybeRequest
<1>1. /\ reply[r] = "none" /\ UNCHANGED <<phase, connections>>
      /\ QueueRequest(r) \/ StartRequest(r) \/ TurnDownRequest(r)
  BY DEF OnHandleRequestToken
<1>2. /\ queue \in Seq(Requests) /\ current \in MaybeRequest
      /\ reply \in [Requests -> Replies] /\ codeOf \in [Requests -> MaybeRequest]
  BY DEF IInv, TypeOK, ServeTypeOK
<1>3. r # current /\ r \notin QueueSet
  BY <1>1 DEF IInv, CallsAccounted
<1>4. ASSUME NEW a \in {"waiting", "error"}, reply' = [reply EXCEPT ![r] = a]
      PROVE  /\ reply' \in [Requests -> Replies]
             /\ \A q \in Requests : reply'[q] = IF q = r THEN a ELSE reply[q]
             /\ \A q \in Requests : reply[q] \in Final => reply'[q] = reply[q]
  BY <1>1, <1>2, <1>4 DEF Final, Replies
<1>5. CASE QueueRequest(r)
  <2>1. /\ reply' \in [Requests -> Replies]
        /\ \A q \in Requests : reply'[q] = IF q = r THEN "waiting" ELSE reply[q]
        /\ \A q \in Requests : reply[q] \in Final => reply'[q] = reply[q]
    BY <1>4, <1>5 DEF QueueRequest
  <2>2. queue' \in Seq(Requests) /\ Len(queue') = Len(queue) + 1
    BY <1>2, <1>5 DEF QueueRequest
  <2>3. \A i \in DOMAIN queue' :
          queue'[i] = IF i = Len(queue) + 1 THEN r ELSE queue[i]
    BY <1>2, <1>5 DEF QueueRequest
  <2>4. QueueSet' = QueueSet \cup {r}
    <3>1. QueueSet' \subseteq QueueSet \cup {r}
      BY <1>2, <2>2, <2>3 DEF QueueSet
    <3>2. \A i \in DOMAIN queue : i \in DOMAIN queue' /\ queue'[i] = queue[i]
      BY <1>2, <2>2, <2>3
    <3>3. Len(queue) + 1 \in DOMAIN queue' /\ queue'[Len(queue) + 1] = r
      BY <1>2, <2>2, <2>3
    <3>4. QED
      BY <3>1, <3>2, <3>3 DEF QueueSet
  <2>5. UNCHANGED <<current, codeOf, visible, revealTimer, autofillVars, webVars>>
    BY <1>5 DEF QueueRequest
  <2>6. CallsAccounted'
    <3>1. \A q \in Requests :
            reply'[q] = "waiting" <=> (q = current' \/ q \in QueueSet')
      BY <1>3, <2>1, <2>4, <2>5 DEF IInv, CallsAccounted
    <3>2. current' \notin QueueSet'
      BY <1>3, <2>4, <2>5 DEF IInv, CallsAccounted
    <3>3. \A i, j \in DOMAIN queue' : queue'[i] = queue'[j] => i = j
      <4>1. \A i \in DOMAIN queue' : i # Len(queue) + 1 => i \in DOMAIN queue
        BY <1>2, <2>2
      <4>2. \A i, j \in DOMAIN queue : queue[i] = queue[j] => i = j
        BY DEF IInv, CallsAccounted
      <4>3. QED
        BY <1>3, <2>3, <4>1, <4>2 DEF QueueSet
    <3>4. QED
      BY <3>1, <3>2, <3>3 DEF CallsAccounted
  <2>7. NoIdleWithWork'
    BY <1>5, <2>5 DEF QueueRequest, NoIdleWithWork
  <2>8. WebTypeOK' /\ AutofillTypeOK' /\ ServeTypeOK'
    <3>1. WebTypeOK'
      BY <2>5 DEF IInv, TypeOK, WebTypeOK, webVars
    <3>2. AutofillTypeOK'
      BY <2>5 DEF IInv, TypeOK, AutofillTypeOK, autofillVars
    <3>3. ServeTypeOK'
      BY <1>1, <2>1, <2>2, <2>5 DEF IInv, TypeOK, ServeTypeOK
    <3>4. QED
      BY <3>1, <3>2, <3>3
  <2>9. WindowFollowsLogin' /\ SecretsOfCurrent' /\ (page.form # "done" => page.owner # NoReq)'
    BY <2>5 DEF IInv, WindowFollowsLogin, SecretsOfCurrent, autofillVars, webVars
  <2>10. QED
    BY <2>1, <2>6, <2>7, <2>8, <2>9 DEF IInv, TypeOK
<1>6. ASSUME NEW a \in {"waiting", "error"}, NEW c \in {r, NoReq},
             current = NoReq, Begin(c), a = "waiting" <=> c = r,
             reply' = [reply EXCEPT ![r] = a],
             UNCHANGED <<queue, codeOf, retryTimers, page, scripts, events, loads, fills>>
      PROVE  IInv' /\ \A q \in Requests : reply[q] \in Final => reply'[q] = reply[q]
  <2>1. /\ reply' \in [Requests -> Replies]
        /\ \A q \in Requests : reply'[q] = IF q = r THEN a ELSE reply[q]
        /\ \A q \in Requests : reply[q] \in Final => reply'[q] = reply[q]
    BY <1>4, <1>6
  <2>2. /\ WindowFollowsLogin' /\ SecretsOfCurrent'
        /\ autofill' \in AutofillStates /\ retried' \in Nat
        /\ visible' \in BOOLEAN /\ revealTimer' \in BOOLEAN
        /\ nav' \in MaybeRequest /\ current' = c
    BY <1>6, BeginSetsUp
  <2>3. queue = <<>> /\ QueueSet = {} /\ QueueSet' = {}
    BY <1>6 DEF IInv, NoIdleWithWork, QueueSet
  <2>4. CallsAccounted'
    BY <1>6, <2>1, <2>2, <2>3 DEF IInv, CallsAccounted
  <2>5. NoIdleWithWork'
    BY <1>6, <2>3 DEF NoIdleWithWork
  <2>6. WebTypeOK'
    BY <1>6, <2>2 DEF IInv, TypeOK, WebTypeOK
  <2>7. AutofillTypeOK'
    BY <1>6, <2>2 DEF IInv, TypeOK, AutofillTypeOK
  <2>8. ServeTypeOK'
    BY <1>1, <1>6, <2>1, <2>2 DEF IInv, TypeOK, ServeTypeOK
  <2>9. (page.form # "done" => page.owner # NoReq)'
    BY <1>6 DEF IInv
  <2>10. QED
    BY <2>1, <2>2, <2>4, <2>5, <2>6, <2>7, <2>8, <2>9 DEF IInv, TypeOK
<1>7. CASE StartRequest(r)
  BY <1>6, <1>7 DEF StartRequest
<1>8. CASE TurnDownRequest(r)
  BY <1>6, <1>8 DEF TurnDownRequest
<1>9. QED
  BY <1>1, <1>5, <1>7, <1>8

\* The end of the process clears everything but the answers.
LEMMA ExitKeepsIInv ==
  ASSUME IInv, Exit
  PROVE  IInv' /\ \A q \in Requests : reply[q] \in Final => reply'[q] = reply[q]
<1> USE DEF MaybeRequest
<1>1. /\ reply' \in [Requests -> Replies]
      /\ \A q \in Requests : reply'[q] # "waiting"
      /\ \A q \in Requests : reply[q] \in Final => reply'[q] = reply[q]
  BY DEF Exit, IInv, TypeOK, ServeTypeOK, Replies, Final
<1>2. current' = NoReq /\ queue' = <<>> /\ QueueSet' = {} /\ ~visible' /\ ~revealTimer'
  BY DEF Exit, QueueSet
<1>3. WebTypeOK'
  BY DEF Exit, IInv, TypeOK, WebTypeOK, Forms
<1>4. AutofillTypeOK'
  BY AutofillForType DEF Exit, AutofillTypeOK
<1>5. ServeTypeOK'
  <2>1. visible' \in BOOLEAN /\ revealTimer' \in BOOLEAN
    BY DEF Exit
  <2>2. phase' \in Phases /\ connections' \subseteq Requests
    BY DEF Exit, Phases
  <2>3. queue' \in Seq(Requests) /\ current' \in MaybeRequest
    BY <1>2
  <2>4. codeOf' \in [Requests -> MaybeRequest]
    BY DEF Exit, IInv, TypeOK, ServeTypeOK
  <2>5. QED
    BY <1>1, <2>1, <2>2, <2>3, <2>4 DEF ServeTypeOK
<1>6. NoIdleWithWork' /\ WindowFollowsLogin'
  BY <1>2 DEF NoIdleWithWork, WindowFollowsLogin
<1>7. CallsAccounted'
  BY <1>1, <1>2 DEF CallsAccounted
<1>8. SecretsOfCurrent'
  BY DEF Exit, SecretsOfCurrent, NoAutofill
<1>9. (page.form # "done" => page.owner # NoReq)'
  BY DEF Exit
<1>10. QED
  BY <1>1, <1>3, <1>4, <1>5, <1>6, <1>7, <1>8, <1>9 DEF IInv, TypeOK

\* Steps that touch neither the bookkeeping nor the secrets.
LEMMA AsideKeepsIInv ==
  ASSUME IInv, UNCHANGED serveVars, WebTypeOK', AutofillTypeOK',
         autofill'.password = autofill.password, autofill'.otpItem = autofill.otpItem,
         page'.form # "done" => page'.owner # NoReq
  PROVE  IInv'
<1>1. ServeTypeOK'
  BY DEF IInv, TypeOK, ServeTypeOK, serveVars
<1>2. NoIdleWithWork' /\ WindowFollowsLogin' /\ SecretsOfCurrent'
  BY DEF IInv, NoIdleWithWork, WindowFollowsLogin, SecretsOfCurrent, serveVars
<1>3. CallsAccounted'
  BY DEF IInv, CallsAccounted, QueueSet, serveVars
<1>4. QED
  BY <1>1, <1>2, <1>3 DEF IInv, TypeOK

\* A login page that is not over belongs to a request.
LEMMA PageKeepsOwner ==
  ASSUME IInv, WebNext
  PROVE  page'.form # "done" => page'.owner # NoReq
<1>1. page \in [owner : MaybeRequest, form : Forms] /\ (page.form # "done" => page.owner # NoReq)
  BY DEF IInv, TypeOK, WebTypeOK
<1>2. CASE \E f \in Forms : WebCommit(f) \/ WebNavigate(f) \/ WebRender(f)
  BY <1>1, <1>2 DEF WebCommit, WebNavigate, WebRender
<1>3. CASE (\E v \in {"code", "error"} : WebSilentRedirect(v) \/ WebRedirect(v)) \/ WebRedirectFails
  BY <1>1, <1>3 DEF WebSilentRedirect, WebRedirect, WebRedirectFails
<1>4. CASE WebRunScript
  <2>1. \/ UNCHANGED page
        \/ page.form \in {"password", "otp"} /\ page' = [page EXCEPT !.form = "submitted"]
    BY <1>4 DEF WebRunScript, ProbeFillsPassword, ProbeFindsOtp, ProbeFindsNothing,
                ProbeFails, OtpScript
  <2>2. QED
    BY <1>1, <2>1
<1>5. QED
  BY <1>2, <1>3, <1>4 DEF WebNext

\* Every step keeps the invariant and every answer already given.
LEMMA StepKeepsIInv ==
  ASSUME IInv, [Next]_vars
  PROVE  IInv' /\ \A q \in Requests : reply[q] \in Final => reply'[q] = reply[q]
<1> DEFINE Kept == \A q \in Requests : reply[q] \in Final => reply'[q] = reply[q]
<1> USE DEF MaybeRequest
<1>1. ASSUME (\E r \in Requests : OnNewConnection(r) \/ OnConnectionClosed(r)) \/ OnHandleQuit
      PROVE  IInv' /\ Kept
  <2>1. UNCHANGED <<current, queue, reply, codeOf, visible, revealTimer, autofillVars, webVars>>
    BY <1>1 DEF OnNewConnection, OnConnectionClosed, OnHandleQuit
  <2>2. phase' \in Phases /\ connections' \subseteq Requests
    BY <1>1 DEF OnNewConnection, OnConnectionClosed, OnHandleQuit, IInv, TypeOK, ServeTypeOK, Phases
  <2>3. ServeTypeOK'
    BY <2>1, <2>2 DEF IInv, TypeOK, ServeTypeOK
  <2>4. WebTypeOK' /\ AutofillTypeOK'
    BY <2>1 DEF IInv, TypeOK, WebTypeOK, AutofillTypeOK, webVars, autofillVars
  <2>5. NoIdleWithWork' /\ WindowFollowsLogin' /\ SecretsOfCurrent' /\ CallsAccounted'
    BY <2>1 DEF IInv, NoIdleWithWork, WindowFollowsLogin, SecretsOfCurrent, CallsAccounted,
                QueueSet, autofillVars
  <2>6. QED
    BY <2>1, <2>3, <2>4, <2>5 DEF IInv, TypeOK, webVars
<1>2. ASSUME NEW r \in Requests, OnHandleRequestToken(r) PROVE IInv' /\ Kept
  BY <1>2, RequestKeepsIInv
<1>4. CASE OnSchemeRequest
  <2>1. Head(events) \in Events /\ events' \in Seq(Events) /\ Head(events).kind = "redirect"
    BY <1>4, HeadTail DEF OnSchemeRequest, TakeEvent, IInv, TypeOK, WebTypeOK
  <2>2. Head(events).value \in {"code", "error"} /\ Head(events).of \in Requests
    BY <2>1 DEF Events
  <2>3. (IF Head(events).value = "code" THEN Head(events).of ELSE NoReq) \in MaybeRequest
    BY <2>2
  <2>4. QED
    BY <1>4, <2>1, <2>2, <2>3, FinishKeepsBooks, FinishKeepsIInv DEF OnSchemeRequest
<1>5. CASE OnCloseRequest
  <2>1. current # NoReq
    BY <1>5 DEF OnCloseRequest, IInv, WindowFollowsLogin
  <2>2. FinishCurrent("error", NoReq)
        /\ UNCHANGED <<phase, connections, retryTimers, page, scripts, events, loads, fills>>
    BY <1>5, <2>1 DEF OnCloseRequest
  <2>3. events' \in Seq(Events)
    BY <2>2 DEF IInv, TypeOK, WebTypeOK
  <2>4. QED
    BY <2>2, <2>3, FinishKeepsBooks, FinishKeepsIInv
<1>6. CASE OnLoadChanged
  <2>1. UNCHANGED <<nav, page, loads, fills>> /\ UNCHANGED serveVars
    BY <1>6 DEF OnLoadChanged
  <2>2. events' \in Seq(Events)
    BY <1>6, HeadTail DEF OnLoadChanged, TakeEvent, IInv, TypeOK, WebTypeOK
  <2>3. scripts' \in Seq(Scripts) /\ AutofillTypeOK'
        /\ autofill'.password = autofill.password /\ autofill'.otpItem = autofill.otpItem
    <3>1. autofill \in AutofillStates /\ scripts \in Seq(Scripts) /\ AutofillTypeOK
      BY DEF IInv, TypeOK, AutofillTypeOK, WebTypeOK
    <3>2. CASE ProbeNewPage
      <4>1. scripts' \in Seq(Scripts)
        BY <3>1, <3>2, TryAutofillType DEF ProbeNewPage
      <4>2. AutofillTypeOK'
        BY <3>1, <3>2, AutofillUpdateType DEF ProbeNewPage, AutofillTypeOK
      <4>3. autofill'.password = autofill.password /\ autofill'.otpItem = autofill.otpItem
        BY <3>1, <3>2 DEF ProbeNewPage, AutofillStates
      <4>4. QED
        BY <4>1, <4>2, <4>3
    <3>3. CASE UNCHANGED <<autofillVars, scripts>>
      BY <3>1, <3>3 DEF autofillVars, AutofillTypeOK
    <3>4. QED
      BY <1>6, <3>2, <3>3 DEF OnLoadChanged
  <2>4. WebTypeOK' /\ (page'.form # "done" => page'.owner # NoReq)
    BY <2>1, <2>2, <2>3 DEF IInv, TypeOK, WebTypeOK
  <2>5. QED
    BY <2>1, <2>3, <2>4, AsideKeepsIInv DEF serveVars
<1>7. CASE OnRevealTimer
  <2>1. UNCHANGED <<phase, connections, current, queue, reply, codeOf, autofillVars, webVars>>
    BY <1>7 DEF OnRevealTimer
  <2>2. WindowFollowsLogin' /\ visible' \in BOOLEAN /\ revealTimer' \in BOOLEAN
    BY <1>7 DEF OnRevealTimer, IInv, WindowFollowsLogin, TypeOK, ServeTypeOK
  <2>3. ServeTypeOK' /\ WebTypeOK' /\ AutofillTypeOK'
    BY <2>1, <2>2 DEF IInv, TypeOK, ServeTypeOK, WebTypeOK, AutofillTypeOK, webVars, autofillVars
  <2>4. NoIdleWithWork' /\ SecretsOfCurrent' /\ CallsAccounted'
    BY <2>1 DEF IInv, NoIdleWithWork, SecretsOfCurrent, CallsAccounted, QueueSet, autofillVars
  <2>5. QED
    BY <2>1, <2>2, <2>3, <2>4 DEF IInv, TypeOK, webVars
<1>8. CASE QuitIdle \/ OnSigterm
  BY <1>8, ExitKeepsIInv DEF QuitIdle, OnSigterm
<1>9. CASE RetryTimeout \/ JsResult
  <2>1. WebTypeOK' /\ AutofillTypeOK'
    BY <1>9, AutofillStepType DEF RetryTimeout, JsResult, IInv, TypeOK
  <2>2. UNCHANGED <<serveVars, page>>
    BY <1>9 DEF RetryTimeout, JsResult, OnAutofillRetryTimeout, OnAutofillJsResult
  <2>3. autofill \in AutofillStates
    BY DEF IInv, TypeOK, AutofillTypeOK
  <2>4. autofill'.password = autofill.password /\ autofill'.otpItem = autofill.otpItem
    BY <1>9, <2>3 DEF RetryTimeout, JsResult, OnAutofillRetryTimeout, OnAutofillJsResult,
          PasswordFilled, OtpAwaited, NothingFound, ScriptFailed, AutofillStates, autofillVars
  <2>5. QED
    BY <2>1, <2>2, <2>4, AsideKeepsIInv DEF serveVars, IInv
<1>10. CASE Web
  <2>1. WebTypeOK' /\ AutofillTypeOK'
    BY <1>10, WebStepType DEF Web, IInv, TypeOK, AutofillTypeOK, autofillVars
  <2>2. QED
    BY <1>10, <2>1, PageKeepsOwner, AsideKeepsIInv DEF Web, serveVars, autofillVars
<1>11. CASE UNCHANGED vars
  <2>1. UNCHANGED <<serveVars, autofillVars, webVars>>
    BY <1>11 DEF vars
  <2>2. WebTypeOK' /\ AutofillTypeOK'
    BY <2>1 DEF IInv, TypeOK, WebTypeOK, AutofillTypeOK, webVars, autofillVars
  <2>3. QED
    BY <2>1, <2>2, AsideKeepsIInv DEF IInv, serveVars, webVars, autofillVars
<1>12. QED
  BY <1>1, <1>2, <1>4, <1>5, <1>6, <1>7, <1>8, <1>9, <1>10, <1>11 DEF Next

LEMMA InitIInv == Init => IInv
<1>1. Init => TypeOK
  BY InitType
<1>2. Init => NoIdleWithWork /\ WindowFollowsLogin /\ SecretsOfCurrent
  BY DEF Init, NoIdleWithWork, WindowFollowsLogin, SecretsOfCurrent, AutofillInit, NoAutofill
<1>3. Init => CallsAccounted
  BY DEF Init, CallsAccounted, QueueSet
<1>4. Init => (page.form # "done" => page.owner # NoReq)
  BY DEF Init, WebInit
<1>5. QED
  BY <1>1, <1>2, <1>3, <1>4 DEF IInv

\* The inductive invariant holds in every behaviour of the helper.
THEOREM ServeInvariant == Spec => []IInv
<1>1. IInv /\ [Next]_vars => IInv'
  BY StepKeepsIInv
<1>2. QED
  BY <1>1, InitIInv, PTL DEF Spec

\* Every variable of the helper keeps its type.
THEOREM ServeTypeCorrect == Spec => []TypeOK
<1>1. IInv => TypeOK
  BY DEF IInv
<1>2. QED
  BY <1>1, ServeInvariant, PTL

\* No call waits while the WebView is free, the window shows or will show
\* exactly the login in flight, every waiting call is current or queued once,
\* and secrets belong to the current call: for any number of calls.
THEOREM ServeSafe ==
  Spec => [](ServiceInStep /\ SecretsOfCurrent)
<1>1. IInv => ServiceInStep /\ SecretsOfCurrent
  BY DEF IInv, ServiceInStep
<1>2. QED
  BY <1>1, ServeInvariant, PTL

\* A call that was answered, or lost with the helper, is never answered again.
THEOREM ServeAnswersOnce == Spec => AnsweredOnce
<1>1. IInv /\ [Next]_vars =>
        [\A r \in Requests : reply[r] \in Final => reply'[r] = reply[r]]_vars
  BY StepKeepsIInv
<1>2. QED
  BY <1>1, ServeInvariant, PTL DEF Spec, AnsweredOnce

-----------------------------------------------------------------------------
(* Nothing is typed for, and no code is taken from, a call still to serve.  *)

\* The calls whose login was begun or that were turned down, and "no call".
Begun == {NoReq} \cup {r \in Requests : reply[r] # "none" /\ r \notin QueueSet}

PlacesBegun  == nav \in Begun /\ page.owner \in Begun
ScriptsBegun == \A i \in DOMAIN scripts : scripts[i].password \in Begun
EventsBegun  == \A i \in DOMAIN events : events[i].of \in Begun
FillsBegun   == \A r \in Requests : r \notin Begun => fills[r] = <<>>
NoneLostYet  == Running => \A r \in Requests : reply[r] # "lost"

\* Whatever is under way, in either process or between them, was started for a
\* call that is current or over.
ServedInv ==
  /\ PlacesBegun
  /\ ScriptsBegun
  /\ EventsBegun
  /\ FillsBegun
  /\ NoneLostYet
  /\ CodeOfServed

LEMMA AppendAt ==
  ASSUME NEW S, NEW s \in Seq(S), NEW e \in S, NEW i \in DOMAIN Append(s, e)
  PROVE  Append(s, e)[i] = e \/ (i \in DOMAIN s /\ Append(s, e)[i] = s[i])
OBVIOUS

LEMMA TailAt ==
  ASSUME NEW S, NEW s \in Seq(S), s # <<>>
  PROVE  /\ 1 \in DOMAIN s /\ Head(s) = s[1]
         /\ \A i \in DOMAIN Tail(s) : i + 1 \in DOMAIN s /\ Tail(s)[i] = s[i + 1]
OBVIOUS

\* The current call and the secrets held are of a begun call.
LEMMA CurrentBegun ==
  ASSUME IInv
  PROVE  current \in Begun /\ autofill.password \in Begun
<1>1. current \in MaybeRequest
  BY DEF IInv, TypeOK, ServeTypeOK
<1>2. current # NoReq => reply[current] = "waiting" /\ current \notin QueueSet
  BY <1>1 DEF IInv, CallsAccounted, MaybeRequest
<1>3. autofill.password \in {current, NoReq}
  BY DEF IInv, SecretsOfCurrent
<1>4. QED
  BY <1>1, <1>2, <1>3 DEF Begun, MaybeRequest

\* finishCurrent() answers calls and takes them from the queue, never more.
LEMMA FinishChanges ==
  ASSUME IInv, NEW answer \in {"code", "error"}, NEW code, FinishCurrent(answer, code)
  PROVE  /\ QueueSet' \subseteq QueueSet
         /\ nav' \in {nav, current'}
         /\ \A r \in Requests :
              /\ reply'[r] = IF r = current THEN answer
                             ELSE IF reply'[r] = reply[r] THEN reply[r] ELSE "error"
              /\ codeOf'[r] = IF r = current THEN code ELSE codeOf[r]
<1>1. PICK n \in 0..Len(queue) :
        /\ Unstartable(n)
        /\ Begin(IF n < Len(queue) THEN queue[n + 1] ELSE NoReq)
        /\ queue' = SubSeq(queue, n + 2, Len(queue))
        /\ reply' = [r \in Requests |->
                       IF r = current THEN answer
                       ELSE IF \E j \in 1..n : r = queue[j] THEN "error"
                       ELSE reply[r]]
        /\ codeOf' = [r \in Requests |-> IF r = current THEN code ELSE codeOf[r]]
  BY DEF FinishCurrent
<1>2. queue \in Seq(Requests) /\ current \in MaybeRequest
  BY DEF IInv, TypeOK, ServeTypeOK
<1>3. \A i \in DOMAIN queue' : n + 1 + i \in DOMAIN queue /\ queue'[i] = queue[n + 1 + i]
  BY <1>1, <1>2, QueueSuffix
<1>4. QueueSet' \subseteq QueueSet
  BY <1>3 DEF QueueSet
<1>5. nav' \in {nav, current'}
  BY <1>1 DEF Begin
<1>6. \A r \in Requests :
        /\ reply'[r] = IF r = current THEN answer
                       ELSE IF reply'[r] = reply[r] THEN reply[r] ELSE "error"
        /\ codeOf'[r] = IF r = current THEN code ELSE codeOf[r]
  BY <1>1
<1>7. QED
  BY <1>4, <1>5, <1>6

\* A call that was begun stays begun.
LEMMA BegunGrows ==
  ASSUME IInv, [Next]_vars
  PROVE  Begun \subseteq Begun'
<1> USE DEF Begun
<1>0. /\ queue \in Seq(Requests) /\ current \in MaybeRequest
      /\ reply \in [Requests -> Replies]
  BY DEF IInv, TypeOK, ServeTypeOK
<1>1. ASSUME UNCHANGED <<queue, reply>> PROVE Begun \subseteq Begun'
  BY <1>1 DEF QueueSet
<1>2. ASSUME NEW r \in Requests, OnHandleRequestToken(r) PROVE Begun \subseteq Begun'
  <2>1. reply[r] = "none" /\ r \notin Begun
    BY <1>2 DEF OnHandleRequestToken, MaybeRequest
  <2>2. \A q \in Requests : q # r => reply'[q] = reply[q]
    BY <1>0, <1>2 DEF OnHandleRequestToken, QueueRequest, StartRequest, TurnDownRequest
  <2>3. \A i \in DOMAIN queue' : queue'[i] = r \/ (i \in DOMAIN queue /\ queue'[i] = queue[i])
    BY <1>0, <1>2, AppendAt DEF OnHandleRequestToken, QueueRequest, StartRequest, TurnDownRequest
  <2>4. QueueSet' \subseteq QueueSet \cup {r}
    BY <2>3 DEF QueueSet
  <2>5. QED
    BY <2>1, <2>2, <2>4
<1>3. ASSUME NEW answer \in {"code", "error"}, NEW code \in MaybeRequest,
             FinishCurrent(answer, code)
      PROVE  Begun \subseteq Begun'
  <2>1. \A r \in Requests : reply[r] # "none" => reply'[r] # "none"
    BY <1>3, FinishChanges
  <2>2. QED
    BY <1>3, <2>1, FinishChanges
<1>4. CASE OnSchemeRequest
  <2>1. Head(events) \in Events /\ Head(events).kind = "redirect"
    BY <1>4, HeadTail DEF OnSchemeRequest, TakeEvent, IInv, TypeOK, WebTypeOK
  <2>2. Head(events).value \in {"code", "error"} /\ Head(events).of \in Requests
    BY <2>1 DEF Events
  <2>3. (IF Head(events).value = "code" THEN Head(events).of ELSE NoReq) \in MaybeRequest
    BY <2>2 DEF MaybeRequest
  <2>4. QED
    BY <1>3, <1>4, <2>2, <2>3 DEF OnSchemeRequest
<1>5. CASE OnCloseRequest
  BY <1>1, <1>3, <1>5 DEF OnCloseRequest, MaybeRequest
<1>6. CASE QuitIdle \/ OnSigterm
  <2>1. QueueSet' = {}
    BY <1>6 DEF QuitIdle, OnSigterm, Exit, QueueSet
  <2>2. \A r \in Requests : reply[r] # "none" => reply'[r] # "none"
    BY <1>6 DEF QuitIdle, OnSigterm, Exit
  <2>3. QED
    BY <2>1, <2>2
<1>7. CASE \/ \E r \in Requests : OnNewConnection(r) \/ OnConnectionClosed(r)
           \/ OnRevealTimer \/ OnHandleQuit
  BY <1>1, <1>7 DEF OnNewConnection, OnConnectionClosed, OnRevealTimer, OnHandleQuit
<1>8. CASE OnLoadChanged \/ RetryTimeout \/ JsResult \/ Web \/ UNCHANGED vars
  BY <1>1, <1>8 DEF OnLoadChanged, RetryTimeout, JsResult, Web, vars, serveVars
<1>9. QED
  BY <1>2, <1>4, <1>5, <1>6, <1>7, <1>8 DEF Next

\* Scripts are sent for the secrets at hand only.
LEMMA StepKeepsScripts ==
  ASSUME IInv, ScriptsBegun, [Next]_vars
  PROVE  ScriptsBegun'
<1>1. Begun \subseteq Begun'
  BY BegunGrows
<1>2. scripts \in Seq(Scripts) /\ autofill \in AutofillStates
  BY DEF IInv, TypeOK, WebTypeOK, AutofillTypeOK
<1>3. ASSUME UNCHANGED scripts PROVE ScriptsBegun'
  BY <1>1, <1>3 DEF ScriptsBegun
<1>4. ASSUME NEW s \in Scripts, s.password \in Begun, scripts' = Append(scripts, s)
      PROVE  ScriptsBegun'
  <2>1. \A i \in DOMAIN scripts' : scripts'[i] = s \/ (i \in DOMAIN scripts /\ scripts'[i] = scripts[i])
    BY <1>2, <1>4, AppendAt
  <2>2. QED
    BY <1>1, <1>4, <2>1 DEF ScriptsBegun
<1>5. ASSUME TryAutofill(autofill) PROVE ScriptsBegun'
  <2>1. Probe(autofill) \in Scripts
    BY <1>2, ProbeType
  <2>2. Probe(autofill).password \in Begun
    BY CurrentBegun DEF Probe, Begun
  <2>3. QED
    BY <1>3, <1>4, <1>5, <2>1, <2>2 DEF TryAutofill
<1>6. ASSUME scripts # <<>>, scripts' = Tail(scripts) PROVE ScriptsBegun'
  <2>1. \A i \in DOMAIN scripts' : i + 1 \in DOMAIN scripts /\ scripts'[i] = scripts[i + 1]
    BY <1>2, <1>6, TailAt
  <2>2. QED
    BY <1>1, <2>1 DEF ScriptsBegun
<1>7. ASSUME NEW r \in Requests, OnHandleRequestToken(r) PROVE UNCHANGED scripts
  BY <1>7 DEF OnHandleRequestToken, QueueRequest, StartRequest, TurnDownRequest, webVars
<1>8. CASE OnSchemeRequest \/ OnCloseRequest \/ OnRevealTimer \/ OnHandleQuit \/ UNCHANGED vars
           \/ \E r \in Requests : OnNewConnection(r) \/ OnConnectionClosed(r)
  BY <1>3, <1>8 DEF OnSchemeRequest, OnCloseRequest, OnRevealTimer, OnHandleQuit,
        OnNewConnection, OnConnectionClosed, vars, webVars
<1>9. CASE OnLoadChanged
  BY <1>3, <1>5, <1>9 DEF OnLoadChanged, ProbeNewPage
<1>10. CASE QuitIdle \/ OnSigterm
  BY <1>10 DEF QuitIdle, OnSigterm, Exit, ScriptsBegun
<1>11. CASE RetryTimeout
  BY <1>5, <1>11 DEF RetryTimeout, OnAutofillRetryTimeout
<1>12. CASE JsResult
  <2>1. FillOtp \in Scripts /\ FillOtp.password \in Begun
    BY DEF FillOtp, Scripts, MaybeRequest, Begun
  <2>2. UNCHANGED scripts \/ scripts' = Append(scripts, FillOtp)
    BY <1>12 DEF JsResult, OnAutofillJsResult, PasswordFilled, OtpAwaited, NothingFound, ScriptFailed
  <2>3. QED
    BY <1>3, <1>4, <2>1, <2>2
<1>13. CASE Web
  <2>1. UNCHANGED scripts \/ (scripts # <<>> /\ scripts' = Tail(scripts))
    BY <1>13 DEF Web, WebNext, WebCommit, WebNavigate, WebRender, WebSilentRedirect, WebRedirect,
          WebRedirectFails, WebRunScript
  <2>2. QED
    BY <1>3, <1>6, <2>1
<1>14. QED
  BY <1>3, <1>7, <1>8, <1>9, <1>10, <1>11, <1>12, <1>13 DEF Next

\* A redirect comes from the page shown or from the page asked for.
LEMMA StepKeepsEvents ==
  ASSUME IInv, PlacesBegun, EventsBegun, [Next]_vars
  PROVE  EventsBegun'
<1>1. Begun \subseteq Begun'
  BY BegunGrows
<1>2. events \in Seq(Events) /\ nav \in MaybeRequest /\ page.owner \in MaybeRequest
  BY DEF IInv, TypeOK, WebTypeOK
<1>3. ASSUME UNCHANGED events PROVE EventsBegun'
  BY <1>1, <1>3 DEF EventsBegun
<1>4. ASSUME NEW e \in Events, e.of \in Begun, events' = Append(events, e)
      PROVE  EventsBegun'
  <2>1. \A i \in DOMAIN events' : events'[i] = e \/ (i \in DOMAIN events /\ events'[i] = events[i])
    BY <1>2, <1>4, AppendAt
  <2>2. QED
    BY <1>1, <1>4, <2>1 DEF EventsBegun
<1>5. ASSUME events # <<>>, events' = Tail(events) PROVE EventsBegun'
  <2>1. \A i \in DOMAIN events' : i + 1 \in DOMAIN events /\ events'[i] = events[i + 1]
    BY <1>2, <1>5, TailAt
  <2>2. QED
    BY <1>1, <2>1 DEF EventsBegun
<1>6. ASSUME NEW r \in Requests, OnHandleRequestToken(r) PROVE UNCHANGED events
  BY <1>6 DEF OnHandleRequestToken, QueueRequest, StartRequest, TurnDownRequest, webVars
<1>7. CASE OnCloseRequest \/ OnRevealTimer \/ OnHandleQuit \/ UNCHANGED vars \/ RetryTimeout
           \/ \E r \in Requests : OnNewConnection(r) \/ OnConnectionClosed(r)
  BY <1>3, <1>7 DEF OnCloseRequest, OnRevealTimer, OnHandleQuit, RetryTimeout,
        OnAutofillRetryTimeout, OnNewConnection, OnConnectionClosed, vars, webVars
<1>8. CASE OnSchemeRequest \/ OnLoadChanged \/ JsResult
  BY <1>5, <1>8 DEF OnSchemeRequest, OnLoadChanged, JsResult, OnAutofillJsResult, TakeEvent
<1>9. CASE QuitIdle \/ OnSigterm
  BY <1>9 DEF QuitIdle, OnSigterm, Exit, EventsBegun
<1>10. CASE Web
  <2>1. Finished \in Events /\ Finished.of \in Begun
    BY DEF Finished, Events, Begun
  <2>2. \A v \in Results : Result(v) \in Events /\ Result(v).of \in Begun
    BY DEF Result, Events, Begun
  <2>3. \A r \in Requests, v \in {"code", "error"} : Redirect(r, v) \in Events /\ Redirect(r, v).of = r
    BY DEF Redirect, Events
  <2>4. CASE WebRedirectFails \/ \E f \in Forms : WebCommit(f) \/ WebNavigate(f) \/ WebRender(f)
    BY <1>3, <1>4, <2>1, <2>4 DEF WebRedirectFails, WebCommit, WebNavigate, WebRender, Emit
  <2>5. ASSUME NEW v \in {"code", "error"}, WebSilentRedirect(v) \/ WebRedirect(v)
        PROVE  EventsBegun'
    <3>1. PICK r \in {nav, page.owner} : r # NoReq /\ events' = Append(events, Redirect(r, v))
      BY <2>5 DEF WebSilentRedirect, WebRedirect, Emit, IInv
    <3>2. r \in Requests /\ r \in Begun
      BY <1>2, <3>1 DEF PlacesBegun, MaybeRequest
    <3>3. QED
      BY <1>4, <2>3, <3>1, <3>2
  <2>6. CASE WebRunScript
    <3>1. {"filled-password", "awaiting-otp", "no-match", "failed"} = Results
      BY DEF Results
    <3>2. UNCHANGED events \/ \E v \in Results : events' = Append(events, Result(v))
      BY <2>6, <3>1 DEF WebRunScript, ProbeFillsPassword, ProbeFindsOtp, ProbeFindsNothing,
            ProbeFails, OtpScript, Emit
    <3>3. QED
      BY <1>3, <1>4, <2>2, <3>2
  <2>7. QED
    BY <1>10, <2>4, <2>5, <2>6 DEF Web, WebNext
<1>11. QED
  BY <1>3, <1>6, <1>7, <1>8, <1>9, <1>10 DEF Next

\* load_uri() is called for the call that becomes current, and the page shown
\* is the one asked for.
LEMMA StepKeepsPlaces ==
  ASSUME IInv, IInv', PlacesBegun, [Next]_vars
  PROVE  PlacesBegun'
<1>1. Begun \subseteq Begun'
  BY BegunGrows
<1>2. current' \in Begun'
  <2>1. current' # NoReq => current' \in Requests
    BY DEF IInv, TypeOK, ServeTypeOK, MaybeRequest
  <2>2. current' # NoReq => reply'[current'] = "waiting" /\ current' \notin QueueSet'
    BY <2>1 DEF IInv, CallsAccounted
  <2>3. QED
    BY <2>1, <2>2 DEF Begun
<1>3. NoReq \in Begun' /\ page \in [owner : MaybeRequest, form : Forms]
  BY DEF Begun, IInv, TypeOK, WebTypeOK
<1>4. ASSUME UNCHANGED nav \/ nav' \in {current', NoReq},
             page'.owner \in {page.owner, nav, NoReq}
      PROVE  PlacesBegun'
  BY <1>1, <1>2, <1>3, <1>4 DEF PlacesBegun
<1>5. ASSUME NEW c, Begin(c) PROVE nav' \in {nav, current'}
  BY <1>5 DEF Begin
<1>6. ASSUME NEW a, NEW c, FinishCurrent(a, c) PROVE nav' \in {nav, current'}
  BY <1>5, <1>6 DEF FinishCurrent
<1>7. ASSUME NEW r \in Requests, OnHandleRequestToken(r) PROVE PlacesBegun'
  BY <1>4, <1>5, <1>7 DEF OnHandleRequestToken, QueueRequest, StartRequest, TurnDownRequest, webVars
<1>8. CASE OnSchemeRequest
  BY <1>4, <1>6, <1>8 DEF OnSchemeRequest
<1>9. CASE OnCloseRequest
  BY <1>4, <1>6, <1>9 DEF OnCloseRequest
<1>10. CASE QuitIdle \/ OnSigterm
  BY <1>4, <1>10 DEF QuitIdle, OnSigterm, Exit
<1>11. CASE \/ \E r \in Requests : OnNewConnection(r) \/ OnConnectionClosed(r)
            \/ OnRevealTimer \/ OnHandleQuit \/ OnLoadChanged \/ RetryTimeout \/ JsResult
            \/ UNCHANGED vars
  BY <1>4, <1>11 DEF OnNewConnection, OnConnectionClosed, OnRevealTimer, OnHandleQuit, OnLoadChanged,
        RetryTimeout, OnAutofillRetryTimeout, JsResult, OnAutofillJsResult, vars, webVars
<1>12. CASE Web
  <2>1. CASE \E f \in Forms : WebCommit(f) \/ WebNavigate(f) \/ WebRender(f)
    BY <1>3, <1>4, <2>1 DEF WebCommit, WebNavigate, WebRender
  <2>2. CASE (\E v \in {"code", "error"} : WebSilentRedirect(v) \/ WebRedirect(v)) \/ WebRedirectFails
    BY <1>3, <1>4, <2>2 DEF WebSilentRedirect, WebRedirect, WebRedirectFails
  <2>3. CASE WebRunScript
    <3>1. UNCHANGED page \/ page' = [page EXCEPT !.form = "submitted"]
      BY <2>3 DEF WebRunScript, ProbeFillsPassword, ProbeFindsOtp, ProbeFindsNothing,
            ProbeFails, OtpScript
    <3>2. QED
      BY <1>3, <1>4, <2>3, <3>1 DEF WebRunScript
  <2>4. QED
    BY <1>12, <2>1, <2>2, <2>3 DEF Web, WebNext
<1>13. QED
  BY <1>7, <1>8, <1>9, <1>10, <1>11, <1>12 DEF Next

\* A password is typed by a probe, and probes carry those of begun calls.
LEMMA StepKeepsFills ==
  ASSUME IInv, ScriptsBegun, FillsBegun, [Next]_vars
  PROVE  FillsBegun'
<1>1. Begun \subseteq Begun'
  BY BegunGrows
<1>2. ASSUME UNCHANGED fills PROVE FillsBegun'
  BY <1>1, <1>2 DEF FillsBegun
<1>3. ASSUME NEW r \in Requests, OnHandleRequestToken(r) PROVE UNCHANGED fills
  BY <1>3 DEF OnHandleRequestToken, QueueRequest, StartRequest, TurnDownRequest, webVars
<1>4. CASE \/ \E r \in Requests : OnNewConnection(r) \/ OnConnectionClosed(r)
           \/ OnSchemeRequest \/ OnCloseRequest \/ OnLoadChanged \/ OnRevealTimer \/ OnHandleQuit
           \/ QuitIdle \/ OnSigterm \/ RetryTimeout \/ JsResult \/ UNCHANGED vars
  BY <1>2, <1>4 DEF OnNewConnection, OnConnectionClosed, OnSchemeRequest, OnCloseRequest,
        OnLoadChanged, OnRevealTimer, OnHandleQuit, QuitIdle, OnSigterm, Exit, RetryTimeout,
        OnAutofillRetryTimeout, JsResult, OnAutofillJsResult, vars, webVars
<1>5. CASE Web
  <2>1. CASE UNCHANGED fills
    BY <1>2, <2>1
  <2>2. CASE WebRunScript /\ ProbeFillsPassword(Head(scripts))
    <3> DEFINE p == Head(scripts).password
    <3>1. p \in Begun /\ p # NoReq
      <4>1. scripts \in Seq(Scripts) /\ scripts # <<>>
        BY <2>2 DEF WebRunScript, IInv, TypeOK, WebTypeOK
      <4>2. 1 \in DOMAIN scripts /\ Head(scripts) = scripts[1]
        BY <4>1, TailAt
      <4>3. QED
        BY <2>2, <4>2 DEF ProbeFillsPassword, ScriptsBegun
    <3>2. \A r \in Requests : r # p => fills'[r] = fills[r]
      BY <2>2 DEF ProbeFillsPassword, IInv, TypeOK, WebTypeOK
    <3>3. QED
      BY <1>1, <3>1, <3>2 DEF FillsBegun
  <2>3. QED
    BY <1>5, <2>1, <2>2 DEF Web, WebNext, WebCommit, WebNavigate, WebRender, WebSilentRedirect,
          WebRedirect, WebRedirectFails, WebRunScript, ProbeFindsOtp, ProbeFindsNothing,
          ProbeFails, OtpScript
<1>6. QED
  BY <1>2, <1>3, <1>4, <1>5 DEF Next

\* An answer with a code names a call that was answered, this one included;
\* and only the end of the helper loses a call.
LEMMA StepKeepsAnswers ==
  ASSUME IInv, EventsBegun, NoneLostYet, CodeOfServed, [Next]_vars
  PROVE  NoneLostYet' /\ CodeOfServed'
<1> DEFINE Answered == {"code", "error"}
<1>0. /\ current \in MaybeRequest /\ reply \in [Requests -> Replies]
      /\ codeOf \in [Requests -> MaybeRequest]
  BY DEF IInv, TypeOK, ServeTypeOK
<1>1. \A r \in Requests : reply[r] = "waiting" <=> (r = current \/ r \in QueueSet)
  BY DEF IInv, CallsAccounted
<1>2. ASSUME UNCHANGED <<phase, reply, codeOf>> PROVE NoneLostYet' /\ CodeOfServed'
  BY <1>2 DEF NoneLostYet, Running, CodeOfServed
<1>3. ASSUME NEW r \in Requests, OnHandleRequestToken(r) PROVE NoneLostYet' /\ CodeOfServed'
  <2>1. /\ reply[r] = "none" /\ UNCHANGED <<phase, codeOf>>
        /\ reply'[r] \in {"waiting", "error"}
        /\ \A q \in Requests : q # r => reply'[q] = reply[q]
    BY <1>0, <1>3 DEF OnHandleRequestToken, QueueRequest, StartRequest, TurnDownRequest
  <2>2. NoneLostYet'
    BY <1>3, <2>1 DEF NoneLostYet, Running
  <2>3. CodeOfServed'
    BY <1>0, <2>1 DEF CodeOfServed, MaybeRequest
  <2>4. QED
    BY <2>2, <2>3
<1>4. ASSUME NEW answer \in Answered, NEW code \in MaybeRequest, FinishCurrent(answer, code),
             Running, UNCHANGED phase,
             answer = "code" => code # NoReq /\ code \in Begun
      PROVE  NoneLostYet' /\ CodeOfServed'
  <2>1. \A r \in Requests :
          /\ reply'[r] = IF r = current THEN answer
                         ELSE IF reply'[r] = reply[r] THEN reply[r] ELSE "error"
          /\ codeOf'[r] = IF r = current THEN code ELSE codeOf[r]
    BY <1>4, FinishChanges
  <2>2. \A r \in Requests : reply[r] \in Final => reply'[r] = reply[r]
    BY <1>4, FinishKeepsBooks
  <2>3. NoneLostYet'
    BY <1>4, <2>1 DEF NoneLostYet, Running
  <2>4. ASSUME NEW r \in Requests, reply'[r] = "code", r # current
        PROVE  codeOf'[r] # NoReq /\ reply'[codeOf'[r]] \in Answered
    <3>1. reply[r] = "code" /\ codeOf'[r] = codeOf[r]
      BY <2>1, <2>4
    <3>2. codeOf[r] \in Requests /\ reply[codeOf[r]] \in Answered
      BY <1>0, <2>4, <3>1 DEF CodeOfServed, MaybeRequest
    <3>3. QED
      BY <2>2, <3>1, <3>2 DEF Final
  <2>5. ASSUME current \in Requests, reply'[current] = "code"
        PROVE  codeOf'[current] # NoReq /\ reply'[codeOf'[current]] \in Answered
    <3>1. answer = "code" /\ codeOf'[current] = code /\ code \in Requests /\ code # NoReq
      BY <1>4, <2>1, <2>5 DEF MaybeRequest
    <3>2. reply[code] # "none" /\ code \notin QueueSet
      BY <1>4, <3>1 DEF Begun
    <3>3. CASE code = current
      BY <1>4, <2>5, <3>1, <3>3
    <3>4. CASE code # current
      <4>1. reply[code] # "waiting" /\ reply[code] # "lost"
        BY <1>1, <1>4, <3>1, <3>2, <3>4 DEF NoneLostYet
      <4>2. reply[code] \in Answered
        BY <1>0, <3>1, <3>2, <4>1 DEF Replies
      <4>3. QED
        BY <2>2, <3>1, <4>2 DEF Final
    <3>5. QED
      BY <3>3, <3>4
  <2>6. CodeOfServed'
    BY <2>4, <2>5 DEF CodeOfServed
  <2>7. QED
    BY <2>3, <2>6
<1>5. CASE OnSchemeRequest
  <2> DEFINE e == Head(events)
  <2>1. events \in Seq(Events) /\ events # <<>> /\ e.kind = "redirect"
    BY <1>5 DEF OnSchemeRequest, TakeEvent, IInv, TypeOK, WebTypeOK
  <2>2. e \in Events /\ 1 \in DOMAIN events /\ e = events[1]
    BY <2>1, HeadTail, TailAt
  <2>3. e.value \in Answered /\ e.of \in Requests /\ e.of # NoReq
    BY <2>1, <2>2 DEF Events
  <2>4. e.of \in Begun
    BY <2>2 DEF EventsBegun
  <2> DEFINE c == IF e.value = "code" THEN e.of ELSE NoReq
  <2>5. c \in MaybeRequest /\ (e.value = "code" => c # NoReq /\ c \in Begun)
    BY <2>3, <2>4 DEF MaybeRequest
  <2>6. FinishCurrent(e.value, c) /\ Running /\ UNCHANGED phase
    BY <1>5 DEF OnSchemeRequest
  <2> HIDE DEF e, c
  <2>7. QED
    BY <1>4, <2>3, <2>5, <2>6
<1>6. CASE OnCloseRequest
  <2>1. current # NoReq
    BY <1>6 DEF OnCloseRequest, IInv, WindowFollowsLogin
  <2>2. FinishCurrent("error", NoReq) /\ Running /\ UNCHANGED phase
    BY <1>6, <2>1 DEF OnCloseRequest
  <2>3. QED
    BY <1>4, <2>2 DEF MaybeRequest
<1>7. CASE QuitIdle \/ OnSigterm
  <2>1. NoneLostYet'
    BY <1>7 DEF QuitIdle, OnSigterm, Exit, NoneLostYet, Running
  <2>2. \A r \in Requests : /\ codeOf'[r] = codeOf[r]
                            /\ reply'[r] = IF reply[r] = "waiting" THEN "lost" ELSE reply[r]
    BY <1>7 DEF QuitIdle, OnSigterm, Exit
  <2>3. CodeOfServed'
    BY <1>0, <2>2 DEF CodeOfServed, MaybeRequest
  <2>4. QED
    BY <2>1, <2>3
<1>8. CASE OnHandleQuit
  BY <1>8 DEF OnHandleQuit, NoneLostYet, Running, CodeOfServed
<1>9. CASE \/ \E r \in Requests : OnNewConnection(r) \/ OnConnectionClosed(r)
           \/ OnRevealTimer \/ OnLoadChanged \/ RetryTimeout \/ JsResult \/ Web
           \/ UNCHANGED vars
  BY <1>2, <1>9 DEF OnNewConnection, OnConnectionClosed, OnRevealTimer, OnLoadChanged,
        RetryTimeout, JsResult, Web, vars, serveVars
<1>10. QED
  BY <1>3, <1>5, <1>6, <1>7, <1>8, <1>9 DEF Next

LEMMA InitServed == Init => ServedInv
<1> SUFFICES ASSUME Init PROVE ServedInv
  OBVIOUS
<1>1. PlacesBegun /\ ScriptsBegun /\ EventsBegun /\ FillsBegun
  BY DEF Init, WebInit, PlacesBegun, ScriptsBegun, EventsBegun, FillsBegun, Begun
<1>2. NoneLostYet /\ CodeOfServed
  BY DEF Init, NoneLostYet, CodeOfServed
<1>3. QED
  BY <1>1, <1>2 DEF ServedInv

\* Whatever is under way belongs to a call whose login was begun.
THEOREM ServedInvariant == Spec => [](IInv /\ ServedInv)
<1>1. Init => IInv /\ ServedInv
  BY InitIInv, InitServed
<1>2. ASSUME IInv /\ ServedInv, [Next]_vars PROVE IInv' /\ ServedInv'
  <2>1. IInv'
    BY <1>2, StepKeepsIInv
  <2>2. PlacesBegun' /\ ScriptsBegun' /\ EventsBegun'
    BY <1>2, <2>1, StepKeepsPlaces, StepKeepsScripts, StepKeepsEvents DEF ServedInv
  <2>3. FillsBegun' /\ NoneLostYet' /\ CodeOfServed'
    BY <1>2, StepKeepsFills, StepKeepsAnswers DEF ServedInv
  <2>4. QED
    BY <2>1, <2>2, <2>3 DEF ServedInv
<1>3. (IInv /\ ServedInv) /\ [Next]_vars => (IInv /\ ServedInv)'
  BY <1>2
<1>4. QED
  BY <1>1, <1>3, PTL DEF Spec

\* The current login's page is shown or still to come, or a redirect that ends
\* the login is on its way.
PageComes ==
  current # NoReq => /\ nav \in {current, NoReq}
                     /\ page.owner = current \/ NotOnItsPage(current)

\* load_uri() is called for the login that begins, and a document or a redirect
\* comes of it.
LEMMA StepKeepsPageComes ==
  ASSUME IInv, PageComes, [Next]_vars
  PROVE  PageComes'
<1>0. /\ events \in Seq(Events) /\ page \in [owner : MaybeRequest, form : Forms]
      /\ nav \in MaybeRequest
  BY DEF IInv, TypeOK, WebTypeOK
<1> DEFINE Coming(r) == \E i \in DOMAIN events : events[i].kind = "redirect" /\ events[i].of = r
<1>1. ASSUME current' = NoReq \/ nav' = current' PROVE PageComes'
  BY <1>1 DEF PageComes, NotOnItsPage
<1>2. ASSUME NEW c, Begin(c) PROVE PageComes'
  BY <1>1, <1>2 DEF Begin
<1>3. ASSUME NEW a, NEW c, FinishCurrent(a, c) PROVE PageComes'
  BY <1>2, <1>3 DEF FinishCurrent
<1>4. ASSUME UNCHANGED <<current, nav>>, page'.owner = page.owner, \A r : Coming(r) => Coming(r)'
      PROVE  PageComes'
  BY <1>4 DEF PageComes, NotOnItsPage
<1>5. ASSUME NEW e \in Events, events' = Append(events, e)
      PROVE  /\ \A r : Coming(r) => Coming(r)'
             /\ e.kind = "redirect" => Coming(e.of)'
  <2>1. \A i \in DOMAIN events : i \in DOMAIN events' /\ events'[i] = events[i]
    BY <1>0, <1>5
  <2>2. PICK n : n \in DOMAIN events' /\ events'[n] = e
    BY <1>0, <1>5
  <2> QED
    BY <2>1, <2>2
<1>6. ASSUME events # <<>>, Head(events).kind # "redirect", events' = Tail(events)
      PROVE  \A r : Coming(r) => Coming(r)'
  <2> SUFFICES ASSUME NEW r, NEW i \in DOMAIN events, events[i].kind = "redirect", events[i].of = r
               PROVE  Coming(r)'
    OBVIOUS
  <2>1. Head(events) = events[1] /\ i # 1
    BY <1>0, <1>6
  <2>2. i - 1 \in DOMAIN events' /\ events'[i - 1] = events[i]
    BY <1>0, <1>6, <2>1
  <2>3. PICK n : n = i - 1
    OBVIOUS
  <2> QED
    BY <2>2, <2>3
<1>7. ASSUME NEW r \in Requests, OnHandleRequestToken(r) PROVE PageComes'
  BY <1>2, <1>4, <1>7 DEF OnHandleRequestToken, QueueRequest, StartRequest, TurnDownRequest, webVars
<1>8. CASE OnSchemeRequest
  BY <1>3, <1>8 DEF OnSchemeRequest
<1>9. CASE OnCloseRequest
  BY <1>3, <1>4, <1>9 DEF OnCloseRequest
<1>10. CASE QuitIdle \/ OnSigterm
  BY <1>1, <1>10 DEF QuitIdle, OnSigterm, Exit
<1>11. CASE \/ \E r \in Requests : OnNewConnection(r) \/ OnConnectionClosed(r)
            \/ OnRevealTimer \/ OnHandleQuit \/ RetryTimeout \/ UNCHANGED vars
  BY <1>4, <1>11 DEF OnNewConnection, OnConnectionClosed, OnRevealTimer, OnHandleQuit,
        RetryTimeout, OnAutofillRetryTimeout, vars, webVars, serveVars
<1>12. CASE OnLoadChanged \/ JsResult
  <2>1. events # <<>> /\ Head(events).kind # "redirect" /\ events' = Tail(events)
    BY <1>12 DEF OnLoadChanged, JsResult, OnAutofillJsResult, TakeEvent
  <2>2. UNCHANGED <<current, nav, page>>
    BY <1>12 DEF OnLoadChanged, JsResult, OnAutofillJsResult, serveVars
  <2> QED
    BY <1>4, <1>6, <2>1, <2>2
<1>13. CASE Web
  <2>0. UNCHANGED current /\ Finished \in Events /\ \A v \in Results : Result(v) \in Events
    BY <1>13 DEF Web, serveVars, Finished, Result, Events
  <2>1. ASSUME NEW e \in Events, events' = Append(events, e), UNCHANGED nav, page'.owner = page.owner
        PROVE  PageComes'
    BY <1>4, <1>5, <2>0, <2>1
  <2>2. ASSUME UNCHANGED events, UNCHANGED nav, page'.owner = page.owner PROVE PageComes'
    BY <1>4, <2>0, <2>2
  <2>3. ASSUME NEW f \in Forms, WebCommit(f) PROVE PageComes'
    BY <2>0, <2>3 DEF WebCommit, PageComes
  <2>4. ASSUME NEW f \in Forms, WebNavigate(f) \/ WebRender(f) PROVE PageComes'
    BY <1>0, <2>0, <2>1, <2>2, <2>4 DEF WebNavigate, WebRender, Emit
  <2>5. CASE WebRedirectFails
    BY <2>0, <2>1, <2>5 DEF WebRedirectFails, Emit
  <2>6. ASSUME NEW v \in {"code", "error"}, WebRedirect(v) PROVE PageComes'
    <3>1. page.owner \in Requests
      BY <1>0, <2>6 DEF WebRedirect, IInv, MaybeRequest
    <3>2. Redirect(page.owner, v) \in Events
      BY <3>1 DEF Redirect, Events
    <3> QED
      BY <1>0, <2>1, <2>6, <3>2 DEF WebRedirect, Emit
  <2>7. ASSUME NEW v \in {"code", "error"}, WebSilentRedirect(v) PROVE PageComes'
    <3>1. PICK r \in Requests : /\ nav = r /\ nav' = NoReq
                                /\ events' = Append(events, Redirect(r, v))
      BY <1>0, <2>7 DEF WebSilentRedirect, Emit, MaybeRequest
    <3>2. Redirect(r, v) \in Events /\ Redirect(r, v).kind = "redirect" /\ Redirect(r, v).of = r
      BY DEF Redirect, Events
    <3>3. Coming(r)'
      BY <1>5, <3>1, <3>2
    <3>4. current' # NoReq => current' = r
      BY <2>0, <3>1, WebAssumption DEF PageComes
    <3> QED
      BY <3>1, <3>3, <3>4 DEF PageComes, NotOnItsPage
  <2>8. CASE WebRunScript
    <3>1. {"filled-password", "awaiting-otp", "no-match", "failed"} = Results
      BY DEF Results
    <3>2. UNCHANGED events \/ \E v \in Results : events' = Append(events, Result(v))
      BY <2>8, <3>1 DEF WebRunScript, ProbeFillsPassword, ProbeFindsOtp, ProbeFindsNothing,
            ProbeFails, OtpScript, Emit
    <3>3. UNCHANGED page \/ page' = [page EXCEPT !.form = "submitted"]
      BY <2>8 DEF WebRunScript, ProbeFillsPassword, ProbeFindsOtp, ProbeFindsNothing,
            ProbeFails, OtpScript
    <3>4. UNCHANGED nav /\ page'.owner = page.owner
      BY <1>0, <2>8, <3>3 DEF WebRunScript
    <3> QED
      BY <2>0, <2>1, <2>2, <3>2, <3>4
  <2> QED
    BY <1>13, <2>3, <2>4, <2>5, <2>6, <2>7, <2>8 DEF Web, WebNext
<1> QED
  BY <1>7, <1>8, <1>9, <1>10, <1>11, <1>12, <1>13 DEF Next

\* Probes are made of the AutofillState alone.
LEMMA StepProbes ==
  ASSUME IInv, [Next]_vars
  PROVE  ProbeOfCurrent
<1>0. scripts \in Seq(Scripts) /\ autofill \in AutofillStates
  BY DEF IInv, TypeOK, WebTypeOK, AutofillTypeOK
<1>1. ASSUME UNCHANGED scripts \/ scripts' = <<>> \/ (scripts # <<>> /\ scripts' = Tail(scripts))
      PROVE  ProbeOfCurrent
  BY <1>0, <1>1 DEF ProbeOfCurrent
<1>2. ASSUME NEW s \in Scripts, s.password \in {current, NoReq}, scripts' = Append(scripts, s)
      PROVE  ProbeOfCurrent
  BY <1>0, <1>2 DEF ProbeOfCurrent
<1>3. ASSUME TryAutofill(autofill) PROVE ProbeOfCurrent
  <2>1. Probe(autofill) \in Scripts
    BY <1>0, ProbeType
  <2>2. Probe(autofill).password \in {current, NoReq}
    BY DEF Probe, IInv, SecretsOfCurrent
  <2> QED
    BY <1>1, <1>2, <1>3, <2>1, <2>2 DEF TryAutofill
<1>4. ASSUME NEW r \in Requests, OnHandleRequestToken(r) PROVE UNCHANGED scripts
  BY <1>4 DEF OnHandleRequestToken, QueueRequest, StartRequest, TurnDownRequest, webVars
<1>5. CASE OnSchemeRequest \/ OnCloseRequest \/ OnRevealTimer \/ OnHandleQuit \/ UNCHANGED vars
           \/ \E r \in Requests : OnNewConnection(r) \/ OnConnectionClosed(r)
  BY <1>1, <1>5 DEF OnSchemeRequest, OnCloseRequest, OnRevealTimer, OnHandleQuit,
        OnNewConnection, OnConnectionClosed, vars, webVars
<1>6. CASE OnLoadChanged
  BY <1>1, <1>3, <1>6 DEF OnLoadChanged, ProbeNewPage
<1>7. CASE QuitIdle \/ OnSigterm
  BY <1>1, <1>7 DEF QuitIdle, OnSigterm, Exit
<1>8. CASE RetryTimeout
  BY <1>3, <1>8 DEF RetryTimeout, OnAutofillRetryTimeout
<1>9. CASE JsResult
  <2>1. FillOtp \in Scripts /\ FillOtp.password = NoReq
    BY DEF FillOtp, Scripts, MaybeRequest
  <2>2. UNCHANGED scripts \/ scripts' = Append(scripts, FillOtp)
    BY <1>9 DEF JsResult, OnAutofillJsResult, PasswordFilled, OtpAwaited, NothingFound, ScriptFailed
  <2> QED
    BY <1>1, <1>2, <2>1, <2>2
<1>10. CASE Web
  BY <1>1, <1>10 DEF Web, WebNext, WebCommit, WebNavigate, WebRender, WebSilentRedirect,
        WebRedirect, WebRedirectFails, WebRunScript
<1> QED
  BY <1>1, <1>4, <1>5, <1>6, <1>7, <1>8, <1>9, <1>10 DEF Next

\* A probe that runs is of the login in flight, or of one that is over.
LEMMA StepTypes ==
  ASSUME IInv, ServedInv, PageComes, [Next]_vars
  PROVE  TypedAtHome
<1> SUFFICES ASSUME NEW r \in Requests, fills'[r] # fills[r]
             PROVE  /\ r \notin QueueSet
                    /\ page.owner = r \/ (r = current /\ NotOnItsPage(r)) \/ reply[r] \in Final
  BY DEF TypedAtHome
<1>1. ASSUME NEW q \in Requests, OnHandleRequestToken(q) PROVE UNCHANGED fills
  BY <1>1 DEF OnHandleRequestToken, QueueRequest, StartRequest, TurnDownRequest, webVars
<1>2. Web
  BY <1>1 DEF Next, OnNewConnection, OnConnectionClosed, OnSchemeRequest, OnCloseRequest,
        OnLoadChanged, OnRevealTimer, OnHandleQuit, QuitIdle, OnSigterm, Exit, RetryTimeout,
        OnAutofillRetryTimeout, JsResult, OnAutofillJsResult, vars, webVars
<1>3. WebRunScript /\ ProbeFillsPassword(Head(scripts))
  BY <1>2 DEF Web, WebNext, WebCommit, WebNavigate, WebRender, WebSilentRedirect,
        WebRedirect, WebRedirectFails, WebRunScript, ProbeFindsOtp, ProbeFindsNothing,
        ProbeFails, OtpScript
<1>4. r = Head(scripts).password
  BY <1>3 DEF ProbeFillsPassword, IInv, TypeOK, WebTypeOK
<1>5. r \in Begun
  <2>1. scripts \in Seq(Scripts) /\ scripts # <<>>
    BY <1>3 DEF WebRunScript, IInv, TypeOK, WebTypeOK
  <2>2. 1 \in DOMAIN scripts /\ Head(scripts) = scripts[1]
    BY <2>1, TailAt
  <2> QED
    BY <1>4, <2>2 DEF ServedInv, ScriptsBegun
<1>6. r # NoReq
  BY WebAssumption
<1>7. reply[r] # "none" /\ r \notin QueueSet
  BY <1>5, <1>6 DEF Begun
<1>8. reply[r] \in {"waiting", "code", "error", "lost"}
  BY <1>7 DEF IInv, TypeOK, ServeTypeOK, Replies
<1>9. CASE reply[r] = "waiting"
  <2>1. r = current
    BY <1>7, <1>9 DEF IInv, CallsAccounted
  <2> QED
    BY <1>6, <1>7, <2>1 DEF PageComes
<1> QED
  BY <1>7, <1>8, <1>9 DEF Final

\* Only the login in flight has a secret and sends it out, and between the time
\* its page has come and its end the secret goes to this page: whatever timers,
\* probes and load events the logins before have left.
THEOREM ServeSecretsInTurn == Spec => SecretsInTurn
<1>1. Init => PageComes
  BY DEF Init, PageComes
<1>2. IInv /\ ServedInv /\ PageComes /\ [Next]_vars => PageComes'
  BY StepKeepsPageComes
<1>3. Spec => []PageComes
  BY <1>1, <1>2, ServedInvariant, PTL DEF Spec
<1>4. ASSUME IInv, IInv', ServedInv, PageComes, Next
      PROVE  SecretsOfCurrent' /\ ProbeOfCurrent /\ TypedAtHome
  BY <1>4, StepProbes, StepTypes DEF IInv
<1>5. IInv /\ IInv' /\ ServedInv /\ PageComes /\ [Next]_vars
        => [SecretsOfCurrent' /\ ProbeOfCurrent /\ TypedAtHome]_vars
  BY <1>4
<1> QED
  BY <1>3, <1>5, ServedInvariant, PTL DEF Spec, SecretsInTurn

\* A code that answers a call was issued by a login of this call or of one that
\* had ended: the redirect of a call still to be served is never taken.
THEOREM ServeCodeOfServed == Spec => []CodeOfServed
<1>1. IInv /\ ServedInv => CodeOfServed
  BY DEF ServedInv
<1>2. QED
  BY <1>1, ServedInvariant, PTL

-----------------------------------------------------------------------------
(* The helper implements the abstract token service. *)

\* Finishing the current call serves the oldest pending one and, with it, the
\* calls turned down right behind it; with no current call nothing changes.
LEMMA FinishServes ==
  ASSUME IInv, NEW answer \in {"code", "error"}, NEW code, FinishCurrent(answer, code)
  PROVE  Service!ServeSome \/ UNCHANGED <<Pending, reply>>
<1>1. PICK n \in 0..Len(queue) :
        /\ current' = IF n < Len(queue) THEN queue[n + 1] ELSE NoReq
        /\ queue' = SubSeq(queue, n + 2, Len(queue))
        /\ reply' = [r \in Requests |->
                       IF r = current THEN answer
                       ELSE IF \E j \in 1..n : r = queue[j] THEN "error"
                       ELSE reply[r]]
  BY DEF FinishCurrent, Begin
<1>2. /\ queue \in Seq(Requests) /\ current \in Requests \cup {NoReq}
      /\ reply \in [Requests -> Replies]
  BY DEF IInv, TypeOK, ServeTypeOK, MaybeRequest
<1>3. CASE current = NoReq
  <2>1. queue = <<>>
    BY <1>3 DEF IInv, NoIdleWithWork
  <2>2. queue' = <<>> /\ current' = NoReq
    BY <1>1, <2>1
  <2>3. reply' = reply
    BY <1>1, <1>2, <1>3, <2>1
  <2>4. QED
    BY <1>3, <2>1, <2>2, <2>3 DEF Pending
<1>4. CASE current # NoReq
  <2> DEFINE p == <<current>> \o queue
  <2>1. Pending = p /\ p \in Seq(Requests) /\ Len(p) = Len(queue) + 1 /\ p[1] = current
    BY <1>2, <1>4 DEF Pending
  <2>2. \A j \in 1..n : p[j + 1] = queue[j]
    BY <1>2
  <2>3. ASSUME NEW r \in Requests
        PROVE (\E j \in 1..n : r = queue[j]) <=> (\E j \in 2..(n + 1) : r = p[j])
    <3>1. \A j \in 1..n : j + 1 \in 2..(n + 1) /\ p[j + 1] = queue[j]
      BY <2>2
    <3>2. \A j \in 2..(n + 1) : j - 1 \in 1..n /\ p[j] = queue[j - 1]
      BY <2>2
    <3>3. QED
      BY <3>1, <3>2
  <2>4. reply' = [r \in Requests |->
                    IF r = p[1] THEN answer
                    ELSE IF \E j \in 2..(n + 1) : r = p[j] THEN "error"
                    ELSE reply[r]]
    BY <1>1, <2>1, <2>3
  <2>5. Pending' = SubSeq(p, n + 2, Len(p))
    <3>1. CASE n < Len(queue)
      <4>1. Pending' = <<queue[n + 1]>> \o SubSeq(queue, n + 2, Len(queue))
        <5>1. queue[n + 1] # NoReq
          BY <1>2, <3>1
        <5>2. QED
          BY <1>1, <3>1, <5>1 DEF Pending
      <4>2. <<queue[n + 1]>> \o SubSeq(queue, n + 2, Len(queue)) = SubSeq(p, n + 2, Len(p))
        <5> DEFINE a == <<queue[n + 1]>> \o SubSeq(queue, n + 2, Len(queue))
                   b == SubSeq(p, n + 2, Len(p))
        <5>1. /\ a \in Seq(Requests) /\ Len(a) = Len(queue) - n
              /\ \A i \in 1..Len(a) : a[i] = queue[n + i]
          BY <1>2, <3>1
        <5>2. /\ b \in Seq(Requests) /\ Len(b) = Len(queue) - n
              /\ \A i \in 1..Len(b) : b[i] = p[n + 1 + i]
          BY <1>2, <2>1, <3>1
        <5>3. \A i \in 1..Len(b) : p[n + 1 + i] = queue[n + i]
          BY <1>2, <3>1, <5>2
        <5> HIDE DEF a, b, p
        <5>4. \A i \in 1..Len(a) : a[i] = b[i]
          BY <5>1, <5>2, <5>3
        <5>5. a = b
          BY <5>1, <5>2, <5>4, SeqEqual
        <5>6. QED
          BY <5>5 DEF a, b
      <4>3. QED
        BY <4>1, <4>2
    <3>2. CASE n = Len(queue)
      <4>1. Pending' = <<>>
        BY <1>1, <1>2, <3>2 DEF Pending
      <4>2. SubSeq(p, n + 2, Len(p)) = <<>>
        BY <2>1, <3>2
      <4>3. QED
        BY <4>1, <4>2
    <3>3. QED
      BY <1>2, <3>1, <3>2
  <2>6. n + 1 \in 1..Len(Pending)
    BY <1>2, <2>1
  <2>7. Service!Serve(n + 1, answer)
    BY <2>1, <2>4, <2>5, <2>6 DEF Service!Serve
  <2>8. QED
    BY <2>6, <2>7 DEF Service!ServeSome
<1>5. QED
  BY <1>3, <1>4

\* Every step of the helper is a step of the token service or a stutter.
LEMMA StepServes ==
  ASSUME IInv, [Next]_vars
  PROVE  Service!Next \/ UNCHANGED <<Pending, reply>>
<1>0. /\ queue \in Seq(Requests) /\ current \in Requests \cup {NoReq}
      /\ reply \in [Requests -> Replies]
  BY DEF IInv, TypeOK, ServeTypeOK, MaybeRequest
<1>1. ASSUME NEW r \in Requests, OnHandleRequestToken(r) PROVE Service!Ask(r) \/ Service!Refuse(r)
  <2>1. reply[r] = "none"
    BY <1>1 DEF OnHandleRequestToken
  <2>2. CASE QueueRequest(r)
    BY <1>0, <2>1, <2>2 DEF QueueRequest, Pending, Service!Ask
  <2>3. ASSUME current = NoReq PROVE queue = <<>> /\ Pending = <<>>
    BY <2>3 DEF IInv, NoIdleWithWork, Pending
  <2>4. CASE StartRequest(r)
    <3>1. Pending = <<>> /\ Pending' = <<r>>
      BY <1>0, <2>3, <2>4 DEF StartRequest, Begin, Pending
    <3>2. QED
      BY <2>1, <2>4, <3>1 DEF StartRequest, Service!Ask
  <2>5. CASE TurnDownRequest(r)
    <3>1. Pending = <<>> /\ Pending' = <<>>
      BY <1>0, <2>3, <2>5 DEF TurnDownRequest, Begin, Pending
    <3>2. QED
      BY <2>1, <2>5, <3>1 DEF TurnDownRequest, Service!Refuse
  <2>6. QED
    BY <1>1, <2>2, <2>4, <2>5 DEF OnHandleRequestToken
<1>2. CASE OnSchemeRequest
  <2>1. Head(events) \in Events /\ Head(events).kind = "redirect"
    BY <1>2, HeadTail DEF OnSchemeRequest, TakeEvent, IInv, TypeOK, WebTypeOK
  <2>2. Head(events).value \in {"code", "error"}
    BY <2>1 DEF Events
  <2>3. QED
    BY <1>2, <2>2, FinishServes DEF OnSchemeRequest, Service!Next
<1>3. CASE OnCloseRequest
  <2>1. current # NoReq
    BY <1>3 DEF OnCloseRequest, IInv, WindowFollowsLogin
  <2>2. FinishCurrent("error", NoReq)
    BY <1>3, <2>1 DEF OnCloseRequest
  <2>3. QED
    BY <2>2, FinishServes DEF Service!Next
<1>4. CASE QuitIdle \/ OnSigterm
  <2>1. Pending' = <<>>
    BY <1>4 DEF QuitIdle, OnSigterm, Exit, Pending
  <2>2. QED
    BY <1>4, <2>1 DEF QuitIdle, OnSigterm, Exit, Service!Next, Service!Stop
<1>5. ASSUME UNCHANGED <<current, queue, reply>> PROVE UNCHANGED <<Pending, reply>>
  BY <1>5 DEF Pending
<1>6. CASE \/ \E r \in Requests : OnNewConnection(r) \/ OnConnectionClosed(r)
           \/ OnRevealTimer \/ OnHandleQuit
  BY <1>5, <1>6 DEF OnNewConnection, OnConnectionClosed, OnRevealTimer, OnHandleQuit
<1>7. CASE OnLoadChanged \/ RetryTimeout \/ JsResult \/ Web \/ UNCHANGED vars
  BY <1>5, <1>7 DEF OnLoadChanged, RetryTimeout, JsResult, Web, vars, serveVars
<1>8. QED
  BY <1>1, <1>2, <1>3, <1>4, <1>6, <1>7 DEF Next, Service!Next

\* The helper serves calls in their order of arrival and each once: its
\* behaviours, seen through Pending, are behaviours of the token service.
THEOREM ServeRefinesService == Spec => Service!Init /\ [][Service!Next]_(Service!vars)
<1>1. Init => Service!Init
  BY DEF Init, Service!Init, Pending
<1>2. IInv /\ [Next]_vars => [Service!Next]_(Service!vars)
  BY StepServes DEF Service!vars
<1>3. QED
  BY <1>1, <1>2, ServeInvariant, PTL DEF Spec
=============================================================================
