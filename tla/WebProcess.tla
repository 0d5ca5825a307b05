------------------------------ MODULE WebProcess ------------------------------
(***************************************************************************)
(* The web process behind the helper's only WebView, modelled from the     *)
(* WebKit calls the helper makes.  It runs beside the helper's main loop.  *)
(* The two exchange messages that keep their order in each direction:      *)
(*   scripts   evaluate_javascript() calls not executed yet                *)
(*   events    load-changed, script results and redirect-scheme requests   *)
(*             that the helper's main loop has not dispatched yet          *)
(* A page belongs to the request whose load_uri() led to it.               *)
(***************************************************************************)
EXTENDS Naturals, Sequences

CONSTANTS
  Requests,     (* the RequestToken calls that may be made                  *)
  NoReq,        (* stands for "no request", the null pointers of the code   *)
  MaxLoads      (* bound: how many documents the web process ever finishes  *)

ASSUME WebAssumption ==
  /\ NoReq \notin Requests
  /\ MaxLoads \in Nat

VARIABLES
  nav,          (* the request whose load_uri() has not produced a page yet *)
  page,         (* whose page is shown, and what form it shows              *)
  scripts,      (* scripts on their way to the web process                  *)
  events,       (* events on their way to the helper's main loop            *)
  loads,        (* documents finished so far (for the bound)                *)
  fills         (* history: the pages each request's password was typed in  *)

webVars == <<nav, page, scripts, events, loads, fills>>

MaybeRequest == Requests \cup {NoReq}

\* "blank": no field to fill yet; "submitted": a filled field was sent;
\* "done": the login on this page is over.
Forms   == {"blank", "password", "otp", "submitted", "done"}
Scripts == [kind : {"probe", "fill-otp"}, password : MaybeRequest, otp : BOOLEAN]
Results == {"filled-password", "awaiting-otp", "no-match", "failed"}
Events  == [kind : {"finished"}, value : {"none"}, of : {NoReq}]
             \cup [kind : {"result"}, value : Results, of : {NoReq}]
             \cup [kind : {"redirect"}, value : {"code", "error"}, of : Requests]

Finished        == [kind |-> "finished", value |-> "none", of |-> NoReq]
Result(v)       == [kind |-> "result", value |-> v, of |-> NoReq]
Redirect(r, v)  == [kind |-> "redirect", value |-> v, of |-> r]
FillOtp         == [kind |-> "fill-otp", password |-> NoReq, otp |-> FALSE]

WebTypeOK ==
  /\ nav \in MaybeRequest
  /\ page \in [owner : MaybeRequest, form : Forms]
  /\ scripts \in Seq(Scripts)
  /\ events \in Seq(Events)
  /\ loads \in Nat
  /\ fills \in [Requests -> Seq(MaybeRequest)]

WebInit ==
  /\ nav = NoReq
  /\ page = [owner |-> NoReq, form |-> "done"]
  /\ scripts = <<>>
  /\ events = <<>>
  /\ loads = 0
  /\ fills = [r \in Requests |-> <<>>]

-----------------------------------------------------------------------------
(* Steps of the web process. *)

Emit(e) == events' = Append(events, e)

\* The page asked for by load_uri() replaces the one shown.  Its form may not
\* be rendered yet when the load finishes.
WebCommit(f) ==
  /\ nav # NoReq
  /\ loads < MaxLoads
  /\ f \in {"blank", "password", "otp"}
  /\ page' = [owner |-> nav, form |-> f]
  /\ nav' = NoReq
  /\ loads' = loads + 1
  /\ Emit(Finished)
  /\ UNCHANGED <<scripts, fills>>

\* The stored session cookies suffice: the server redirects at once.
WebSilentRedirect(v) ==
  /\ nav # NoReq
  /\ nav' = NoReq
  /\ Emit(Redirect(nav, v))
  /\ UNCHANGED <<page, scripts, loads, fills>>

\* The login goes on to its next document (a person or a script submitted one).
WebNavigate(f) ==
  /\ page.form # "done"
  /\ loads < MaxLoads
  /\ f \in {"blank", "password", "otp"}
  /\ page' = [page EXCEPT !.form = f]
  /\ loads' = loads + 1
  /\ Emit(Finished)
  /\ UNCHANGED <<nav, scripts, fills>>

\* The page's own script renders a form after the load has finished.
WebRender(f) ==
  /\ page.form \in {"blank", "submitted"}
  /\ f \in {"password", "otp"}
  /\ page' = [page EXCEPT !.form = f]
  /\ UNCHANGED <<nav, scripts, events, loads, fills>>

\* The login ends: the server sends the browser to the redirect address.
WebRedirect(v) ==
  /\ page.form # "done"
  /\ page' = [page EXCEPT !.form = "done"]
  /\ Emit(Redirect(page.owner, v))
  /\ UNCHANGED <<nav, scripts, loads, fills>>

\* The redirect address has no content, so loading it fails, which also ends
\* with a "finished" event.
WebRedirectFails ==
  /\ page.form = "done" /\ page.owner # NoReq
  /\ loads < MaxLoads
  /\ loads' = loads + 1
  /\ Emit(Finished)
  /\ UNCHANGED <<nav, page, scripts, fills>>

\* The probe of tryAutofill() finds the empty password field, fills and sends it.
ProbeFillsPassword(s) ==
  /\ s.kind = "probe" /\ s.password # NoReq /\ page.form = "password"
  /\ page' = [page EXCEPT !.form = "submitted"]
  /\ fills' = [fills EXCEPT ![s.password] = Append(@, page.owner)]
  /\ Emit(Result("filled-password"))

\* The probe finds the empty verification-code field.
ProbeFindsOtp(s) ==
  /\ s.kind = "probe" /\ s.otp /\ page.form = "otp"
  /\ Emit(Result("awaiting-otp"))
  /\ UNCHANGED <<page, fills>>

ProbeFindsNothing(s) ==
  /\ s.kind = "probe"
  /\ ~(s.password # NoReq /\ page.form = "password")
  /\ ~(s.otp /\ page.form = "otp")
  /\ Emit(Result("no-match"))
  /\ UNCHANGED <<page, fills>>

ProbeFails(s) ==
  /\ s.kind = "probe"
  /\ Emit(Result("failed"))
  /\ UNCHANGED <<page, fills>>

\* The second script of onAutofillJsResult() types the verification code.
OtpScript(s) ==
  /\ s.kind = "fill-otp"
  /\ page' = IF page.form = "otp" THEN [page EXCEPT !.form = "submitted"] ELSE page
  /\ UNCHANGED <<events, fills>>

WebRunScript ==
  /\ scripts # <<>>
  /\ LET s == Head(scripts) IN
       \/ ProbeFillsPassword(s)
       \/ ProbeFindsOtp(s)
       \/ ProbeFindsNothing(s)
       \/ ProbeFails(s)
       \/ OtpScript(s)
  /\ scripts' = Tail(scripts)
  /\ UNCHANGED <<nav, loads>>

WebNext ==
  \/ \E f \in Forms : WebCommit(f) \/ WebNavigate(f) \/ WebRender(f)
  \/ \E v \in {"code", "error"} : WebSilentRedirect(v) \/ WebRedirect(v)
  \/ WebRedirectFails
  \/ WebRunScript
=============================================================================
