------------------------------- MODULE Autofill -------------------------------
(***************************************************************************)
(* The best-effort autofill of coffee_rdp_auth.cpp, shared by the resident *)
(* and the one-shot helper: tryAutofill() sends a probe script, its result *)
(* comes back through the main loop, and a result that found nothing arms  *)
(* a 500 ms timer that probes again.  One AutofillState lives at one fixed *)
(* address; scripts and timers carry a pointer to it, never the request    *)
(* they were started for.                                                  *)
(***************************************************************************)
EXTENDS WebProcess

CONSTANTS
  WithPassword,       (* requests that carry a password                     *)
  WithOtp,            (* requests whose reference names an item with an OTP *)
  MaxOtpAttempts,     (* kMaxOtpAttempts                                    *)
  MaxRenderRetries    (* kMaxRenderRetries                                  *)

ASSUME AutofillAssumption ==
  /\ WithPassword \subseteq Requests
  /\ WithOtp \subseteq Requests
  /\ MaxOtpAttempts \in Nat
  /\ MaxRenderRetries \in Nat

VARIABLES
  autofill,           (* the AutofillState                                  *)
  retryTimers,        (* armed 500 ms timers of onAutofillRetryTimeout      *)
  retried             (* history: timers armed since the request started    *)

autofillVars == <<autofill, retryTimers, retried>>

AutofillStates ==
  [password : MaybeRequest, passwordAttempted : BOOLEAN, otpItem : MaybeRequest,
   otpAttempts : Nat, renderRetries : Nat]

\* AutofillState{}
NoAutofill ==
  [password |-> NoReq, passwordAttempted |-> FALSE, otpItem |-> NoReq,
   otpAttempts |-> 0, renderRetries |-> 0]

\* The state a request starts with; a secret is named after its request.
AutofillFor(r) ==
  [NoAutofill EXCEPT !.password = IF r \in WithPassword THEN r ELSE NoReq,
                     !.otpItem = IF r \in WithOtp THEN r ELSE NoReq]

AutofillTypeOK ==
  /\ autofill \in AutofillStates
  /\ retryTimers \in Nat
  /\ retried \in Nat

AutofillInit(a) ==
  /\ autofill = a
  /\ retryTimers = 0
  /\ retried = 0

TryPassword(a) == a.password # NoReq /\ ~a.passwordAttempted
TryOtp(a)      == a.otpItem # NoReq /\ a.otpAttempts < MaxOtpAttempts

\* tryAutofill(): the probe tries whatever the state still allows, if anything.
Probe(a) == [kind |-> "probe",
             password |-> IF TryPassword(a) THEN a.password ELSE NoReq,
             otp |-> TryOtp(a)]

TryAutofill(a) ==
  scripts' = IF TryPassword(a) \/ TryOtp(a) THEN Append(scripts, Probe(a)) ELSE scripts

\* The 500 ms timer: probe again, whatever request is current by now.
OnAutofillRetryTimeout ==
  /\ retryTimers > 0
  /\ retryTimers' = retryTimers - 1
  /\ TryAutofill(autofill)
  /\ UNCHANGED <<autofill, retried, nav, page, events, loads, fills>>

\* The main loop takes the next event the web process sent.
TakeEvent(kind) ==
  /\ events # <<>>
  /\ Head(events).kind = kind
  /\ events' = Tail(events)

\* The load-changed handler once a document has finished.
ProbeNewPage ==
  /\ autofill' = [autofill EXCEPT !.renderRetries = 0]
  /\ TryAutofill(autofill)
  /\ UNCHANGED <<retryTimers, retried>>

\* onAutofillJsResult(): the probe filled the password.
PasswordFilled ==
  /\ Head(events).value = "filled-password"
  /\ autofill' = [autofill EXCEPT !.passwordAttempted = TRUE]
  /\ UNCHANGED <<retryTimers, retried, scripts>>

\* onAutofillJsResult(): the code field is empty.  `op` runs synchronously and
\* may resolve nothing; with no item named it is not even started.
OtpAwaited ==
  /\ Head(events).value = "awaiting-otp"
  /\ autofill' = [autofill EXCEPT !.otpAttempts = @ + 1]
  /\ \/ scripts' = scripts
     \/ autofill.otpItem # NoReq /\ scripts' = Append(scripts, FillOtp)
  /\ UNCHANGED <<retryTimers, retried>>

StillPending == TryPassword(autofill) \/ TryOtp(autofill)

\* onAutofillJsResult(): nothing to fill yet, look again later within the budget.
NothingFound ==
  /\ Head(events).value = "no-match"
  /\ IF StillPending /\ autofill.renderRetries < MaxRenderRetries
       THEN /\ autofill' = [autofill EXCEPT !.renderRetries = @ + 1]
            /\ retryTimers' = retryTimers + 1
            /\ retried' = retried + 1
       ELSE UNCHANGED autofillVars
  /\ UNCHANGED scripts

\* onAutofillJsResult(): the script itself did not run.
ScriptFailed ==
  /\ Head(events).value = "failed"
  /\ UNCHANGED <<autofill, retryTimers, retried, scripts>>

OnAutofillJsResult ==
  /\ TakeEvent("result")
  /\ PasswordFilled \/ OtpAwaited \/ NothingFound \/ ScriptFailed
  /\ UNCHANGED <<nav, page, loads, fills>>
=============================================================================
