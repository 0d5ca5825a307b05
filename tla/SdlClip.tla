------------------------------- MODULE SdlClip --------------------------------
(***************************************************************************)
(* sdlClip: the clipboard bridge of a session.  Two threads share one      *)
(* object: the SDL thread runs handleEvent(), ClipDataCb() and             *)
(* ClipCleanCb(), the channel thread runs the cliprdr callbacks.  An       *)
(* action is one section under the clipboard lock, or one access outside   *)
(* of it where the other thread can come in between.                       *)
(***************************************************************************)
EXTENDS ClipServer

CONSTANTS
  Mimes,        (* MIME types, the text ones folded into text/plain         *)
  FormatsFor,   (* server formats that can back a MIME type, best first     *)
  MimesFor,     (* the MIME types a server format makes the client offer    *)
  Named,        (* formats that are registered by name                      *)
  NoFormat,     (* format id 0, CF_RAW                                      *)
  MaxAttempts,  (* kMaxDataRequestAttempts                                  *)
  MaxPastes,    (* bound: pastes on the desktop                             *)
  MaxCopies     (* bound: copies on the desktop                             *)

ASSUME ClipAssumption ==
  /\ Mimes # {}
  /\ FormatsFor \in [Mimes -> Seq(Formats)]
  /\ MimesFor \in [Formats -> SUBSET Mimes]
  /\ Named \subseteq Formats
  /\ NoFormat \notin Formats
  /\ NoData \notin Contents
  /\ MaxAttempts \in Nat \ {0}
  /\ MaxLists \in Nat /\ MaxAsks \in Nat

VARIABLES
  ctx, sync,        (* whether _ctx is set; _sync                           *)
  abort,            (* freerdp_abort_event                                  *)
  serverFormats,    (* _serverFormats                                       *)
  generation,       (* _serverFormatGeneration                              *)
  requests,         (* _request_queue                                       *)
  event,            (* _event, manual reset                                 *)
  system,           (* what the WinPR clipboard _system stores              *)
  holds,            (* _systemHoldsServerData                               *)
  cache,            (* _cache_data                                          *)
  memo,             (* _failureMemo: refused <<format, generation>>         *)
  mimetypes,        (* _current_mimetypes and the list it was built from    *)
  chan,             (* the channel thread, inside a format list or idle     *)
  events,           (* SDL clipboard events not yet handled                 *)
  offer,            (* what SDL_SetClipboardData() last offered             *)
  pc, paste,        (* the SDL thread; its last or current ClipDataCb call  *)
  seen,             (* the server list _serverFormats was last cleared for  *)
  timedOut,         (* whether a request ever went 10 s without an answer   *)
  pastes, copies    (* for the bounds                                       *)

formatVars == <<serverFormats, generation, cache, holds, memo, seen>>
sdlVars    == <<events, offer, pc, paste, timedOut, pastes, copies>>
chanVars   == <<mimetypes, chan>>
replyVars  == <<requests, event, system>>
linkVars   == <<ctx, sync, abort>>
vars == <<formatVars, sdlVars, chanVars, replyVars, linkVars, serverVars, wireVars>>

NoOffer    == [list |-> 0, mimes |-> {}]
ChanIdle   == [pc |-> "idle", list |-> 0, formats |-> {}, left |-> {}]
EmptyCache == [m \in Mimes |-> NoData]

Busy == {"begin", "send", "wait", "woken", "gaveup", "delay"}   (* in ClipDataCb *)
Pcs  == Busy \cup {"idle", "announce", "aborted"}

Offers     == [list : 0..MaxLists, mimes : SUBSET Mimes]
ClipEvents == [kind : {"offer", "local"}, list : 0..MaxLists, mimes : SUBSET Mimes]
Pastes     == [mime : Mimes, format : Formats \cup {NoFormat}, attempt : 0..MaxAttempts,
               lookup : Nat, generation : Nat, asked : 0..MaxLists,
               content : Contents \cup {NoData}]
ChanStates == [pc : {"idle", "formats", "mimetypes"}, list : 0..MaxLists,
               formats : SUBSET Formats, left : SUBSET Formats]
Stored     == [as : Formats \cup {NoFormat}, content : Contents]

\* ClipRequest; success() is status = "ok".  "sent" and "refused" are one
\* value in the code, the default FALSE.
ClipRequest(f) == [format |-> f, status |-> "sent"]
ClipRequests   == [format : Formats, status : {"sent", "ok", "refused"}]

TypeOK ==
  /\ ServerTypeOK
  /\ ctx \in BOOLEAN /\ sync \in BOOLEAN /\ abort \in BOOLEAN
  /\ event \in BOOLEAN /\ holds \in BOOLEAN /\ timedOut \in BOOLEAN
  /\ serverFormats \subseteq Formats
  /\ generation \in Nat
  /\ requests \in Seq(ClipRequests)
  /\ system \in Stored \cup {NoData}
  /\ cache \in [Mimes -> Contents \cup {NoData}]
  /\ memo \subseteq (Formats \X Nat)
  /\ mimetypes \in Offers
  /\ chan \in ChanStates
  /\ events \in Seq(ClipEvents)
  /\ offer \in Offers
  /\ pc \in Pcs
  /\ paste \in Pastes
  /\ seen \in 0..MaxLists

Init ==
  /\ ServerInit
  /\ ctx = FALSE
  /\ sync = FALSE
  /\ abort = FALSE
  /\ serverFormats = {}
  /\ generation = 0
  /\ requests = <<>>
  /\ event = FALSE
  /\ system = NoData
  /\ holds = FALSE
  /\ cache = EmptyCache
  /\ memo = {}
  /\ mimetypes = NoOffer
  /\ chan = ChanIdle
  /\ events = <<>>
  /\ offer = NoOffer
  /\ pc = "idle"
  /\ paste = [mime |-> CHOOSE m \in Mimes : TRUE, format |-> NoFormat, attempt |-> 0,
              lookup |-> 0, generation |-> 0, asked |-> 0, content |-> NoData]
  /\ seen = 0
  /\ timedOut = FALSE
  /\ pastes = 0 /\ copies = 0

-----------------------------------------------------------------------------
(* Helpers. *)

\* The server format a MIME type is asked for; NoFormat if none is on offer.
ServerIdForMime(m) ==
  LET backing == {i \in DOMAIN FormatsFor[m] : FormatsFor[m][i] \in serverFormats}
  IN  IF backing = {} THEN NoFormat
      ELSE FormatsFor[m][CHOOSE i \in backing : \A j \in backing : i <= j]

\* ClipboardGetData(_system, mime): the stored content if WinPR has a
\* synthesizer from its format.
Converted(m) ==
  IF system # NoData /\ \E i \in DOMAIN FormatsFor[m] : FormatsFor[m][i] = system.as
    THEN system.content ELSE NoData

\* The MIME types a list with these formats is offered as.
MimesOf(F) == UNION {MimesFor[f] : f \in F}

\* The formats a local clipboard with these MIME types is announced as.
FormatsOf(M) == {f \in Formats : \E m \in M : \E i \in DOMAIN FormatsFor[m] : f = FormatsFor[m][i]}

\* clearServerFormats(), for server list n or, with 0, for a local copy.
ClearServerFormats(n) ==
  /\ serverFormats' = {}
  /\ cache' = EmptyCache
  /\ holds' = FALSE
  /\ memo' = {}
  /\ generation' = generation + 1
  /\ seen' = n

\* ClipCleanCb(): SDL drops the offer made before.
ClipCleanCb ==
  /\ system' = NoData
  /\ holds' = FALSE

-----------------------------------------------------------------------------
(* Channel life cycle (the connection's thread) and the person who quits. *)

InitChannel ==
  /\ ~ctx /\ ~sync
  /\ ctx' = TRUE
  /\ UNCHANGED <<sync, abort, formatVars, sdlVars, chanVars, replyVars, serverVars, wireVars>>

\* Only the pointer is reset; the channel thread is gone by then.
Uninit ==
  /\ ctx /\ sync
  /\ chan.pc = "idle"
  /\ ctx' = FALSE
  /\ UNCHANGED <<sync, abort, formatVars, sdlVars, chanVars, replyVars, serverVars, wireVars>>

AbortSession ==
  /\ ~abort
  /\ abort' = TRUE
  /\ UNCHANGED <<ctx, sync, formatVars, sdlVars, chanVars, replyVars, serverVars, wireVars>>

-----------------------------------------------------------------------------
(* The channel thread. *)

\* The event it pushes names no MIME type: an empty local clipboard.
MonitorReady ==
  /\ ctx /\ ~sync
  /\ sync' = TRUE
  /\ events' = Append(events, [kind |-> "local", list |-> 0, mimes |-> {}])
  /\ UNCHANGED <<ctx, abort, formatVars, chanVars, replyVars, offer, pc, paste, timedOut,
                 pastes, copies, serverVars, wireVars>>

Receive(kind) ==
  /\ ctx /\ sync
  /\ chan.pc = "idle"
  /\ toClient # <<>>
  /\ Head(toClient).kind = kind
  /\ toClient' = Tail(toClient)
  /\ UNCHANGED <<linkVars, serverVars, toServer>>

\* ReceiveServerFormatList(), first section: under the lock.
ReceiveServerFormatList ==
  /\ Receive("list")
  /\ LET msg == Head(toClient) IN
       /\ ClearServerFormats(msg.list)
       /\ chan' = [pc |-> "formats", list |-> msg.list, formats |-> msg.formats,
                   left |-> msg.formats]
  /\ UNCHANGED <<sdlVars, mimetypes, replyVars>>

\* _serverFormats grows outside the lock, one format at a time.
AddServerFormat ==
  /\ chan.pc = "formats"
  /\ \E f \in chan.left :
       /\ serverFormats' = serverFormats \cup {f}
       /\ chan' = [chan EXCEPT !.left = @ \ {f}]
  /\ UNCHANGED <<generation, cache, holds, memo, seen, sdlVars, mimetypes, replyVars,
                 linkVars, serverVars, wireVars>>

ClearMimetypes ==
  /\ chan.pc = "formats"
  /\ chan.left = {}
  /\ mimetypes' = NoOffer
  /\ chan' = [chan EXCEPT !.pc = "mimetypes"]
  /\ UNCHANGED <<formatVars, sdlVars, replyVars, linkVars, serverVars, wireVars>>

\* The MIME types are collected and an event with a pointer to them is queued.
AnnounceMimetypes ==
  /\ chan.pc = "mimetypes"
  /\ mimetypes' = [list |-> chan.list, mimes |-> MimesOf(chan.formats)]
  /\ events' = Append(events, [kind |-> "offer", list |-> chan.list,
                               mimes |-> MimesOf(chan.formats)])
  /\ chan' = ChanIdle
  /\ UNCHANGED <<formatVars, offer, pc, paste, timedOut, pastes, copies, replyVars,
                 linkVars, serverVars, wireVars>>

\* The format an answer is stored under: a named one is looked up in the list
\* of now, and is format 0 if it is not there any more.
StoredAs(f) == IF f \in Named /\ f \notin serverFormats THEN NoFormat ELSE f

\* An answer fills the oldest pending request, whichever it belongs to.
ReceiveFormatDataResponse ==
  /\ Receive("response")
  /\ requests # <<>>
  /\ LET c == Head(toClient).content
         r == Head(requests)
     IN  /\ requests' = [requests EXCEPT ![1].status = IF c = NoData THEN "refused" ELSE "ok"]
         /\ IF c = NoData
              THEN UNCHANGED <<system, holds>>
              ELSE /\ system' = [as |-> StoredAs(r.format), content |-> c]
                   /\ holds' = TRUE
  /\ event' = TRUE
  /\ UNCHANGED <<serverFormats, generation, cache, memo, seen, sdlVars, chanVars>>

\* "no pending format request": the callback reports an error to the channel.
RejectFormatDataResponse ==
  /\ Receive("response")
  /\ requests = <<>>
  /\ UNCHANGED <<formatVars, sdlVars, chanVars, replyVars>>

\* ReceiveFormatDataRequestHandle(): what SDL has in that format is stored in
\* _system, from where it is had in the format asked for.  That is the desktop's
\* own content or, while the server's clipboard is on offer, what ClipDataCb()
\* finds in its cache; a request it would send from this thread is left out.
ReceiveFormatDataRequest ==
  /\ Receive("request")
  /\ LET f == Head(toClient).format
         cached == {cache[m] : m \in {m \in offer.mimes : f \in FormatsOf({m})}} \ {NoData}
     IN  \/ system' = system
         \/ \E c \in IF offer = NoOffer THEN {LocalContent(f)} ELSE cached :
              system' = [as |-> f, content |-> [c EXCEPT !.format = f]]
  /\ UNCHANGED <<formatVars, sdlVars, chanVars, requests, event>>

-----------------------------------------------------------------------------
(* The SDL thread: SDL_EVENT_CLIPBOARD_UPDATE. *)

TakeEvent ==
  /\ pc = "idle"
  /\ events # <<>>
  /\ events' = Tail(events)

\* A copy on the desktop: SDL gives its offer up and queues the event.
LocalCopy ==
  /\ pc = "idle"
  /\ copies < MaxCopies
  /\ copies' = copies + 1
  /\ IF offer # NoOffer THEN ClipCleanCb ELSE UNCHANGED <<system, holds>>
  /\ offer' = NoOffer
  /\ events' = Append(events, [kind |-> "local", list |-> 0, mimes |-> Mimes])
  /\ UNCHANGED <<serverFormats, generation, cache, memo, seen, pc, paste, timedOut, pastes,
                 chanVars, requests, event, linkVars, serverVars, wireVars>>

\* The MIME types a queued event points to: its own, unless the vector was
\* rebuilt for a later list since; then its count is applied to that memory.
Pointed(ev) ==
  IF ev.kind = "local" \/ ev.list = mimetypes.list THEN {ev.mimes}
  ELSE SUBSET (ev.mimes \cup mimetypes.mimes)

\* Mutant: the contents cached for the offer before are kept.
OfferKeepsCache ==
  /\ TakeEvent
  /\ LET ev == Head(events) IN
       /\ ~ctx \/ ~sync \/ ev.kind = "offer"
       /\ mimetypes # NoOffer
       /\ \E M \in Pointed(ev) : offer' = [list |-> mimetypes.list, mimes |-> M]
  /\ mimetypes' = NoOffer
  /\ IF offer # NoOffer THEN ClipCleanCb ELSE UNCHANGED <<system, holds>>
  /\ UNCHANGED <<cache, serverFormats, generation, memo, seen, pc, paste, timedOut, pastes,
                 copies, chan, requests, event, linkVars, serverVars, wireVars>>

\* The server's clipboard is offered to the desktop.
OfferServerClipboard ==
  /\ TakeEvent
  /\ LET ev == Head(events) IN
       /\ ~ctx \/ ~sync \/ ev.kind = "offer"
       /\ mimetypes # NoOffer
       /\ \E M \in Pointed(ev) : offer' = [list |-> mimetypes.list, mimes |-> M]
  /\ cache' = EmptyCache
  /\ mimetypes' = NoOffer
  /\ IF offer # NoOffer THEN ClipCleanCb ELSE UNCHANGED <<system, holds>>
  /\ UNCHANGED <<serverFormats, generation, memo, seen, pc, paste, timedOut, pastes, copies,
                 chan, requests, event, linkVars, serverVars, wireVars>>

IgnoreClipboardEvent ==
  /\ TakeEvent
  /\ ~ctx \/ ~sync \/ Head(events).kind = "offer"
  /\ mimetypes = NoOffer
  /\ UNCHANGED <<formatVars, offer, pc, paste, timedOut, pastes, copies, chanVars,
                 replyVars, linkVars, serverVars, wireVars>>

\* The desktop's clipboard is announced to the server; first under the lock.
AnnounceLocalClipboard ==
  /\ pc = "idle"
  /\ events # <<>>
  /\ ctx /\ sync
  /\ Head(events).kind = "local"
  /\ ClearServerFormats(0)
  /\ pc' = "announce"
  /\ UNCHANGED <<events, offer, paste, timedOut, pastes, copies, chanVars, replyVars, linkVars,
                 serverVars, wireVars>>

\* WINPR_ASSERT(_ctx), then the format list goes out.
SendFormatList ==
  /\ pc = "announce"
  /\ IF ctx THEN /\ pc' = "idle"
                 /\ events' = Tail(events)
                 /\ toServer' = Append(toServer, ClientList(FormatsOf(Head(events).mimes)))
            ELSE pc' = "aborted" /\ UNCHANGED <<events, toServer>>
  /\ UNCHANGED <<formatVars, offer, paste, timedOut, pastes, copies, chanVars,
                 replyVars, linkVars, serverVars, toClient>>

-----------------------------------------------------------------------------
(* The SDL thread: a desktop application pastes. *)

Return(c) ==
  /\ pc' = "idle"
  /\ paste' = [paste EXCEPT !.content = c]

\* The first section of ClipDataCb(): an answer from what is at hand, a reason
\* to give none, or a request for format f.
Lookup(m, held) ==
  LET f == ServerIdForMime(m)
      Answer(c) == pc' = "idle" /\ paste' = [mime |-> m, format |-> f, attempt |-> 0,
                                             lookup |-> generation, generation |-> 0,
                                             asked |-> offer.list, content |-> c]
  IN  \/ /\ cache[m] # NoData
         /\ Answer(cache[m])
         /\ UNCHANGED cache
      \/ /\ cache[m] = NoData
         /\ held # NoData
         /\ cache' = [cache EXCEPT ![m] = held]
         /\ Answer(held)
      \/ /\ cache[m] = NoData /\ held = NoData
         /\ f = NoFormat \/ <<f, generation>> \in memo
         /\ Answer(NoData)
         /\ UNCHANGED cache
      \/ /\ cache[m] = NoData /\ held = NoData
         /\ f # NoFormat /\ <<f, generation>> \notin memo
         /\ pc' = "begin"
         /\ paste' = [mime |-> m, format |-> f, attempt |-> 1, lookup |-> generation,
                      generation |-> 0, asked |-> offer.list, content |-> NoData]
         /\ UNCHANGED cache

\* Mutant: whatever _system stores is taken for the server's.
HeldAnyway(m) == Converted(m)

\* What can be had from the content fetched for another MIME type.
Held(m) == IF holds THEN Converted(m) ELSE NoData

ClipDataCb(m) ==
  /\ pc = "idle"
  /\ m \in offer.mimes
  /\ pastes < MaxPastes
  /\ pastes' = pastes + 1
  /\ Lookup(m, Held(m))
  /\ UNCHANGED <<serverFormats, generation, holds, memo, seen, events, offer, timedOut, copies,
                 chanVars, replyVars, linkVars, serverVars, wireVars>>

UnchangedInPaste ==
  UNCHANGED <<events, offer, pastes, copies, chanVars, linkVars, serverVars, toClient>>

\* An attempt starts with a look at the generation, outside the lock.
BeginAttempt ==
  /\ pc = "begin"
  /\ pc' = "send"
  /\ paste' = [paste EXCEPT !.generation = generation]
  /\ UNCHANGED <<formatVars, timedOut, replyVars, toServer>>
  /\ UnchangedInPaste

SendDataRequest ==
  /\ pc = "send"
  /\ ctx
  /\ requests' = Append(requests, ClipRequest(paste.format))
  /\ toServer' = Append(toServer, DataRequest(paste.format))
  /\ pc' = "wait"
  /\ UNCHANGED <<formatVars, paste, timedOut, event, system>>
  /\ UnchangedInPaste

\* The channel is gone: "cancelling request".
SendFails ==
  /\ pc = "send"
  /\ ~ctx
  /\ Return(NoData)
  /\ UNCHANGED <<formatVars, timedOut, replyVars, toServer>>
  /\ UnchangedInPaste

\* WaitForMultipleObjects() without the lock: the abort event comes first.
WaitAborted ==
  /\ pc = "wait"
  /\ abort
  /\ pc' = "gaveup"
  /\ UNCHANGED <<formatVars, paste, timedOut, replyVars, toServer>>
  /\ UnchangedInPaste

WaitSignalled ==
  /\ pc = "wait"
  /\ event /\ ~abort
  /\ pc' = "woken"
  /\ UNCHANGED <<formatVars, paste, timedOut, replyVars, toServer>>
  /\ UnchangedInPaste

\* Mutant: the wait has no time limit.
WaitsForEver == FALSE /\ UNCHANGED vars

WaitTimesOut ==
  /\ pc = "wait"
  /\ ~event /\ ~abort
  /\ pc' = "gaveup"
  /\ timedOut' = TRUE
  /\ UNCHANGED <<formatVars, paste, replyVars, toServer>>
  /\ UnchangedInPaste

\* The request is dropped; the event stays as it is.
GiveUp ==
  /\ pc = "gaveup"
  /\ requests' = Tail(requests)
  /\ Return(NoData)
  /\ UNCHANGED <<formatVars, timedOut, event, system, toServer>>
  /\ UnchangedInPaste

\* Mutant: the manual-reset event is not reset.
PopKeepsEvent ==
  /\ requests' = Tail(requests)
  /\ event' = event

\* The oldest request is taken, and the event reset with the last one.
PopRequest ==
  /\ requests' = Tail(requests)
  /\ event' = (event /\ Tail(requests) # <<>>)

\* The answer was good: convert it, keep it, return it.
Fetched ==
  /\ pc = "woken"
  /\ Head(requests).status = "ok"
  /\ PopRequest
  /\ LET c == Converted(paste.mime) IN
       /\ Return(c)
       /\ cache' = IF c # NoData /\ cache[paste.mime] = NoData
                   THEN [cache EXCEPT ![paste.mime] = c] ELSE cache
  /\ UNCHANGED <<serverFormats, generation, holds, memo, seen, timedOut, system, toServer>>
  /\ UnchangedInPaste

\* shouldRetryDataRequest().
ShouldRetry == generation = paste.generation /\ paste.attempt < MaxAttempts

RefusedRetry ==
  /\ pc = "woken"
  /\ Head(requests).status # "ok"
  /\ PopRequest
  /\ ShouldRetry
  /\ pc' = "delay"
  /\ UNCHANGED <<formatVars, paste, timedOut, system, toServer>>
  /\ UnchangedInPaste

RefusedForGood ==
  /\ pc = "woken"
  /\ Head(requests).status # "ok"
  /\ PopRequest
  /\ ~ShouldRetry
  /\ Return(NoData)
  /\ memo' = IF generation = paste.generation
             THEN memo \cup {<<paste.format, paste.generation>>} ELSE memo
  /\ UNCHANGED <<serverFormats, generation, cache, holds, seen, timedOut, system, toServer>>
  /\ UnchangedInPaste

\* 150 ms later, or at once when the session ends.
RetryDelay ==
  /\ pc = "delay"
  /\ IF abort
       THEN Return(NoData)
       ELSE pc' = "begin" /\ paste' = [paste EXCEPT !.attempt = @ + 1]
  /\ UNCHANGED <<formatVars, timedOut, replyVars, toServer>>
  /\ UnchangedInPaste

\* kFailureMemoWindow: an entry counts for one second.
MemoExpires ==
  /\ \E e \in memo : memo' = memo \ {e}
  /\ UNCHANGED <<serverFormats, generation, cache, holds, seen, sdlVars, chanVars, replyVars,
                 linkVars, serverVars, wireVars>>

-----------------------------------------------------------------------------
Server == ServerStep /\ ctx /\ sync /\ UNCHANGED <<formatVars, sdlVars, chanVars, replyVars, linkVars>>

ChannelThread ==
  \/ MonitorReady
  \/ ReceiveServerFormatList \/ AddServerFormat \/ ClearMimetypes \/ AnnounceMimetypes
  \/ ReceiveFormatDataResponse \/ RejectFormatDataResponse \/ ReceiveFormatDataRequest

HandleEvent ==
  OfferServerClipboard \/ IgnoreClipboardEvent \/ AnnounceLocalClipboard \/ SendFormatList

ClipDataCbStep ==
  \/ BeginAttempt \/ SendDataRequest \/ SendFails
  \/ WaitAborted \/ WaitSignalled \/ WaitTimesOut
  \/ GiveUp \/ Fetched \/ RefusedRetry \/ RefusedForGood \/ RetryDelay

Next ==
  \/ InitChannel \/ Uninit \/ AbortSession
  \/ ChannelThread
  \/ LocalCopy \/ HandleEvent
  \/ \E m \in Mimes : ClipDataCb(m)
  \/ ClipDataCbStep
  \/ MemoExpires
  \/ Server

\* Both threads run.  Nothing is assumed of the server or of the people.
Fairness ==
  /\ WF_vars(ClipDataCbStep)
  /\ WF_vars(HandleEvent)
  /\ WF_vars(ChannelThread)

Spec == Init /\ [][Next]_vars /\ Fairness

-----------------------------------------------------------------------------
(* Safety. *)

\* ClipDataCb pops exactly the request it pushed: one is pending while a call
\* waits and none is left when it returns, however it returns.  A request left
\* behind would take the answer of the next one.
OneRequestPerCall ==
  /\ pc \in {"wait", "woken", "gaveup"} => Len(requests) = 1
  /\ pc \notin {"wait", "woken", "gaveup"} => requests = <<>>

\* Unless a request timed out or the session ends, a call is woken by the
\* answer to its own request: the manual-reset event never survives a call.
WokenByOwnAnswer ==
  pc = "woken" /\ ~timedOut => /\ Head(requests).format = paste.format
                               /\ Head(requests).status # "sent"

\* The two threads stay in step over the one request of a call.
CallsInStep == OneRequestPerCall /\ WokenByOwnAnswer

\* A paste never returns the desktop's own content as the server's, although
\* both are stored in _system one after the other.
PasteIsServers ==
  pc = "idle" /\ paste.content # NoData => paste.content.from = "server"

\* No call has been given up, for the time it took or because the session
\* ends: the answer to one that was can be taken for the answer to a later one.
NothingLate == ~timedOut /\ ~abort

\* A paste is never older than the offer it was made to: every way a content
\* outlives its list (cache, _system, an answer in flight) ends with the offer.
PasteNotStale ==
  pc = "idle" /\ paste.content # NoData /\ NothingLate => paste.content.list >= paste.asked

\* What is returned for a MIME type is a format that backs it.
PasteInItsFormat ==
  pc = "idle" /\ paste.content # NoData /\ NothingLate =>
    \E i \in DOMAIN FormatsFor[paste.mime] : FormatsFor[paste.mime][i] = paste.content.format

\* What a paste returns is what was asked for: the list on offer, the format.
PasteAsAsked == PasteNotStale /\ PasteInItsFormat

(* Liveness. *)

\* Whatever the server does, a paste returns: the desktop is not left hanging.
PasteReturns == pc \in Busy ~> pc = "idle"

\* A list the server sent is offered to the desktop, or a newer one is, unless
\* the desktop copies something itself or the channel goes away.
ListIsOffered ==
  \A n \in 1..MaxLists :
    seen = n ~> offer.list >= n \/ seen # n \/ ~ctx

\* Neither the desktop nor the server waits for the bridge for ever.
BridgeMovesOn == PasteReturns /\ ListIsOffered

-----------------------------------------------------------------------------
(* What comments and assertions say and the code does not do. *)

\* sdl_clip.hpp of _systemHoldsServerData: "True only while _system holds data
\* fetched from the *server* for the current server format list."
FlagTellsCurrentList == holds => system # NoData /\ system.content.list = seen

\* "but only while no newer format list has superseded the one this request
\* targets, so a genuinely stale request isn't retried pointlessly".
RetryTargetsCurrentList ==
  [][SendDataRequest /\ paste.attempt > 1 => paste.generation = paste.lookup]_vars

\* WINPR_ASSERT(_ctx) in handleEvent().
AnnounceHasChannel == pc # "aborted"
=============================================================================
