---------------------------- MODULE SdlClipProofs -----------------------------
(***************************************************************************)
(* Proofs about the clipboard bridge, for any formats, MIME types and      *)
(* bounds.  ClipInv is the inductive strengthening: it ties the one        *)
(* pending request and the manual-reset event to where the SDL thread is   *)
(* in ClipDataCb().                                                        *)
(***************************************************************************)
EXTENDS SdlClip, SequenceTheorems, WellFoundedInduction, TLAPS

USE ClipAssumption

Waiting == {"wait", "woken", "gaveup"}

\* The pending request is the call's own, and unless a request timed out or
\* the session ends the event is set only when it has been answered.
CallInv ==
  /\ OneRequestPerCall
  /\ pc \in Busy => paste.format \in Formats
  /\ pc \in Waiting => Head(requests).format = paste.format
  /\ pc = "delay" => paste.attempt < MaxAttempts
  /\ pc = "announce" => events # <<>>
  /\ pc = "gaveup" /\ ~timedOut => abort
  /\ event /\ ~timedOut /\ ~abort => pc \in Waiting /\ Head(requests).status # "sent"
  /\ pc = "woken" /\ ~timedOut => Head(requests).status # "sent"

ClipInv == TypeOK /\ CallInv

-----------------------------------------------------------------------------
(* Types of the operators. *)

LEMMA HeadTailType ==
  ASSUME NEW S, NEW s \in Seq(S), s # <<>>
  PROVE  Head(s) \in S /\ Tail(s) \in Seq(S)
OBVIOUS

LEMMA SingletonSeq ==
  ASSUME NEW S, NEW s \in Seq(S), Len(s) = 1
  PROVE  s # <<>> /\ Tail(s) = <<>> /\ s[1] \in S
<1>1. s # <<>> /\ s[1] \in S
  OBVIOUS
<1>2. Tail(s) \in Seq(S) /\ Len(Tail(s)) = 0
  BY <1>1
<1>3. Tail(s) = <<>>
  BY <1>2, EmptySeq
<1>4. QED
  BY <1>1, <1>3

LEMMA AppendType ==
  ASSUME NEW S, NEW s \in Seq(S), NEW e \in S
  PROVE  Append(s, e) \in Seq(S)
OBVIOUS

\* serverIdForMime() returns a format or 0: there is a first one among the
\* formats that back a MIME type and are on offer.
LEMMA ServerIdType ==
  ASSUME NEW m \in Mimes
  PROVE  ServerIdForMime(m) \in Formats \cup {NoFormat}
<1> DEFINE backing == {i \in DOMAIN FormatsFor[m] : FormatsFor[m][i] \in serverFormats}
<1>1. CASE backing = {}
  BY <1>1 DEF ServerIdForMime
<1>2. CASE backing # {}
  <2>1. FormatsFor[m] \in Seq(Formats)
    OBVIOUS
  <2>2. backing \subseteq Nat /\ \A i \in backing : FormatsFor[m][i] \in Formats
    BY <2>1
  <2> DEFINE less == {ss \in Nat \X Nat : ss[1] < ss[2]}
  <2>a. IsWellFoundedOn(less, Nat)
    BY NatLessThanWellFounded DEF OpToRel
  <2>3. PICK i \in backing : \A j \in backing : ~(<<j, i>> \in less)
    BY <1>2, <2>2, <2>a, WFMin
  <2>4. ASSUME NEW j \in backing
        PROVE  i <= j
    <3> HIDE DEF backing
    <3>1. i \in Nat /\ j \in Nat
      BY <2>2
    <3>2. ~(<<j, i>> \in less)
      BY <2>3
    <3>3. ~(j < i)
      BY <3>1, <3>2
    <3>4. QED
      BY <3>1, <3>3
  <2>5. (CHOOSE k \in backing : \A j \in backing : k <= j) \in backing
    BY <2>4
  <2>6. ServerIdForMime(m) = FormatsFor[m][CHOOSE k \in backing : \A j \in backing : k <= j]
    BY <1>2 DEF ServerIdForMime
  <2>7. QED
    BY <2>2, <2>5, <2>6
<1>3. QED
  BY <1>1, <1>2

LEMMA ConvertedType ==
  ASSUME TypeOK, NEW m
  PROVE  Converted(m) \in Contents \cup {NoData}
BY DEF TypeOK, Converted, Stored

LEMMA MimesType ==
  ASSUME NEW F \in SUBSET Formats
  PROVE  MimesOf(F) \in SUBSET Mimes
BY DEF MimesOf

-----------------------------------------------------------------------------
(* Type correctness. *)

LEMMA InitInv == Init => ClipInv
<1> SUFFICES ASSUME Init
             PROVE  ClipInv
  OBVIOUS
<1>1. ServerTypeOK
  BY DEF Init, ServerInit, ServerTypeOK
<1>2. (CHOOSE m \in Mimes : TRUE) \in Mimes
  OBVIOUS
<1>3. paste \in Pastes
  BY <1>2 DEF Init, Pastes
<1>4. /\ offer \in Offers /\ mimetypes \in Offers
      /\ chan \in ChanStates
      /\ cache \in [Mimes -> Contents \cup {NoData}]
  BY DEF Init, NoOffer, Offers, ChanIdle, ChanStates, EmptyCache
<1>5. requests \in Seq(ClipRequests) /\ events \in Seq(ClipEvents)
  BY DEF Init
<1>6. memo \subseteq (Formats \X Nat) /\ serverFormats \subseteq Formats
  BY DEF Init
<1>7. seen \in 0..MaxLists /\ generation \in Nat /\ pc \in Pcs /\ system \in Stored \cup {NoData}
  BY DEF Init, Pcs
<1>8. TypeOK
  BY <1>1, <1>3, <1>4, <1>5, <1>6, <1>7 DEF Init, TypeOK
<1>9. CallInv
  BY DEF Init, CallInv, OneRequestPerCall, Busy, Waiting
<1>10. QED
  BY <1>8, <1>9 DEF ClipInv

\* Steps that leave ClipDataCb() and the wire alone.
LEMMA SimpleSteps ==
  ASSUME ClipInv,
         \/ InitChannel \/ Uninit \/ AbortSession \/ MonitorReady \/ AddServerFormat
         \/ ClearMimetypes \/ LocalCopy \/ IgnoreClipboardEvent \/ AnnounceLocalClipboard
         \/ MemoExpires
  PROVE  TypeOK'
<1> USE DEF ClipInv, TypeOK, ServerTypeOK, formatVars, sdlVars, chanVars, replyVars,
            linkVars, serverVars, wireVars
<1>1. CASE InitChannel
  BY <1>1 DEF InitChannel
<1>2. CASE Uninit
  BY <1>2 DEF Uninit
<1>3. CASE AbortSession
  BY <1>3 DEF AbortSession
<1>4. CASE MonitorReady
  <2>1. [kind |-> "local", list |-> 0, mimes |-> {}] \in ClipEvents
    BY DEF ClipEvents
  <2>2. events' \in Seq(ClipEvents)
    BY <1>4, <2>1 DEF MonitorReady
  <2>3. QED
    BY <1>4, <2>2 DEF MonitorReady
<1>5. CASE AddServerFormat
  <2>1. PICK f \in chan.left : /\ serverFormats' = serverFormats \cup {f}
                              /\ chan' = [chan EXCEPT !.left = @ \ {f}]
    BY <1>5 DEF AddServerFormat
  <2>2. serverFormats' \subseteq Formats /\ chan' \in ChanStates
    BY <2>1 DEF ChanStates
  <2>3. QED
    BY <1>5, <2>2 DEF AddServerFormat
<1>6. CASE ClearMimetypes
  <2>1. chan' \in ChanStates
    BY <1>6 DEF ClearMimetypes, ChanStates
  <2>2. mimetypes' \in Offers
    BY <1>6 DEF ClearMimetypes, NoOffer, Offers
  <2>3. QED
    BY <1>6, <2>1, <2>2 DEF ClearMimetypes
<1>7. CASE LocalCopy
  <2>1. [kind |-> "local", list |-> 0, mimes |-> Mimes] \in ClipEvents
    BY DEF ClipEvents
  <2>2. events' \in Seq(ClipEvents)
    BY <1>7, <2>1 DEF LocalCopy
  <2>3. offer' \in Offers
    BY <1>7 DEF LocalCopy, NoOffer, Offers
  <2>4. system' \in Stored \cup {NoData} /\ holds' \in BOOLEAN
    BY <1>7 DEF LocalCopy, ClipCleanCb
  <2>5. QED
    BY <1>7, <2>2, <2>3, <2>4 DEF LocalCopy
<1>8. CASE IgnoreClipboardEvent
  BY <1>8 DEF IgnoreClipboardEvent, TakeEvent
<1>9. CASE AnnounceLocalClipboard
  <2>1. ClearServerFormats(0) /\ pc' = "announce"
    BY <1>9 DEF AnnounceLocalClipboard
  <2>2. cache' \in [Mimes -> Contents \cup {NoData}]
    BY <2>1 DEF ClearServerFormats, EmptyCache
  <2>3. memo' \subseteq (Formats \X Nat) /\ serverFormats' \subseteq Formats
    BY <2>1 DEF ClearServerFormats
  <2>4. holds' \in BOOLEAN
    BY <2>1 DEF ClearServerFormats
  <2>5. generation' \in Nat /\ seen' \in 0..MaxLists
    BY <2>1 DEF ClearServerFormats
  <2>6. pc' \in Pcs
    BY <2>1 DEF Pcs
  <2>7. QED
    BY <1>9, <2>2, <2>3, <2>4, <2>5, <2>6 DEF AnnounceLocalClipboard
<1>10. CASE MemoExpires
  <2>1. memo' \subseteq (Formats \X Nat)
    BY <1>10 DEF MemoExpires
  <2>2. QED
    BY <1>10, <2>1 DEF MemoExpires
<1>11. QED
  BY <1>1, <1>2, <1>3, <1>4, <1>5, <1>6, <1>7, <1>8, <1>9, <1>10

\* A message the channel thread takes is one of the three kinds.
LEMMA MessageType ==
  ASSUME TypeOK, NEW kind, Receive(kind)
  PROVE  /\ toClient' \in Seq(ToClient)
         /\ Head(toClient) \in ToClient
         /\ kind = "list" => /\ Head(toClient).list \in 1..MaxLists
                             /\ Head(toClient).formats \subseteq Formats
         /\ kind = "response" => Head(toClient).content \in Contents \cup {NoData}
         /\ kind = "request" => Head(toClient).format \in Formats
<1>1. toClient \in Seq(ToClient) /\ toClient # <<>>
  BY DEF TypeOK, ServerTypeOK, Receive
<1>2. Head(toClient) \in ToClient /\ Tail(toClient) \in Seq(ToClient)
  BY <1>1, HeadTailType
<1>3. Head(toClient).kind = kind /\ toClient' = Tail(toClient)
  BY DEF Receive
<1>4. QED
  BY <1>2, <1>3 DEF ToClient

\* ReceiveServerFormatList() and the answers to data requests.
LEMMA ReceiveSteps ==
  ASSUME ClipInv,
         \/ ReceiveServerFormatList \/ AnnounceMimetypes \/ ReceiveFormatDataResponse
         \/ RejectFormatDataResponse \/ ReceiveFormatDataRequest
  PROVE  TypeOK'
<1> USE DEF ClipInv, TypeOK, ServerTypeOK, formatVars, sdlVars, chanVars, replyVars,
            linkVars, serverVars, wireVars
<1>1. CASE ReceiveServerFormatList
  <2>1. Receive("list")
    BY <1>1 DEF ReceiveServerFormatList
  <2>2. /\ toClient' \in Seq(ToClient)
        /\ Head(toClient).list \in 1..MaxLists
        /\ Head(toClient).formats \subseteq Formats
    BY <2>1, MessageType
  <2>3. chan' \in ChanStates /\ seen' \in 0..MaxLists
    BY <1>1, <2>2 DEF ReceiveServerFormatList, ClearServerFormats, ChanStates
  <2>4. cache' \in [Mimes -> Contents \cup {NoData}]
    BY <1>1 DEF ReceiveServerFormatList, ClearServerFormats, EmptyCache
  <2>5. memo' \subseteq (Formats \X Nat) /\ serverFormats' \subseteq Formats
    BY <1>1 DEF ReceiveServerFormatList, ClearServerFormats
  <2>6. holds' \in BOOLEAN
    BY <1>1 DEF ReceiveServerFormatList, ClearServerFormats
  <2>8. generation' \in Nat
    BY <1>1 DEF ReceiveServerFormatList, ClearServerFormats
  <2>7. QED
    BY <1>1, <2>1, <2>2, <2>3, <2>4, <2>5, <2>6, <2>8 DEF ReceiveServerFormatList, Receive
<1>2. CASE AnnounceMimetypes
  <2>1. chan.list \in 0..MaxLists /\ chan.formats \subseteq Formats
    BY DEF ChanStates
  <2>2. MimesOf(chan.formats) \subseteq Mimes
    BY <2>1, MimesType
  <2>3. mimetypes' \in Offers
    BY <1>2, <2>1, <2>2 DEF AnnounceMimetypes, Offers
  <2>4. [kind |-> "offer", list |-> chan.list, mimes |-> MimesOf(chan.formats)] \in ClipEvents
    BY <2>1, <2>2 DEF ClipEvents
  <2>5. events' \in Seq(ClipEvents)
    BY <1>2, <2>4 DEF AnnounceMimetypes
  <2>6. chan' \in ChanStates
    BY <1>2 DEF AnnounceMimetypes, ChanIdle, ChanStates
  <2>7. QED
    BY <1>2, <2>3, <2>5, <2>6 DEF AnnounceMimetypes
<1>3. CASE ReceiveFormatDataResponse
  <2>1. Receive("response") /\ requests # <<>>
    BY <1>3 DEF ReceiveFormatDataResponse
  <2>2. toClient' \in Seq(ToClient) /\ Head(toClient).content \in Contents \cup {NoData}
    BY <2>1, MessageType
  <2>3. Head(requests) \in ClipRequests /\ 1 \in DOMAIN requests
    BY <2>1, HeadTailType
  <2>4. ASSUME NEW s \in {"ok", "refused"}
        PROVE  [requests EXCEPT ![1].status = s] \in Seq(ClipRequests)
    <3>1. requests[1] \in ClipRequests
      BY <2>3
    <3>2. [requests[1] EXCEPT !.status = s] \in ClipRequests
      BY <3>1 DEF ClipRequests
    <3>3. [requests EXCEPT ![1] = [requests[1] EXCEPT !.status = s]] \in Seq(ClipRequests)
      BY <2>3, <3>2
    <3>4. QED
      BY <2>3, <3>3
  <2>5. requests' \in Seq(ClipRequests)
    BY <1>3, <2>4 DEF ReceiveFormatDataResponse
  <2>6. Head(requests).format \in Formats
    BY <2>3 DEF ClipRequests
  <2>7. system' \in Stored \cup {NoData} /\ holds' \in BOOLEAN
    <3> DEFINE c == Head(toClient).content
    <3>1. CASE c = NoData
      BY <1>3, <3>1 DEF ReceiveFormatDataResponse
    <3>2. CASE c # NoData
      <4>1. /\ system' = [as |-> StoredAs(Head(requests).format), content |-> c]
            /\ holds' = TRUE
        BY <1>3, <3>2 DEF ReceiveFormatDataResponse
      <4>2. StoredAs(Head(requests).format) \in Formats \cup {NoFormat}
        BY <2>6 DEF StoredAs
      <4>3. c \in Contents
        BY <2>2, <3>2
      <4>4. QED
        BY <4>1, <4>2, <4>3 DEF Stored
    <3>3. QED
      BY <3>1, <3>2
  <2>8. event' \in BOOLEAN
    BY <1>3 DEF ReceiveFormatDataResponse
  <2>9. QED
    BY <1>3, <2>1, <2>2, <2>5, <2>7, <2>8 DEF ReceiveFormatDataResponse, Receive
<1>4. CASE RejectFormatDataResponse
  <2>1. Receive("response")
    BY <1>4 DEF RejectFormatDataResponse
  <2>2. toClient' \in Seq(ToClient)
    BY <2>1, MessageType
  <2>3. QED
    BY <1>4, <2>1, <2>2 DEF RejectFormatDataResponse, Receive
<1>5. CASE ReceiveFormatDataRequest
  <2> DEFINE f == Head(toClient).format
             cached == {cache[m] : m \in {m \in offer.mimes : f \in FormatsOf({m})}} \ {NoData}
  <2>1. Receive("request")
    BY <1>5 DEF ReceiveFormatDataRequest
  <2>2. toClient' \in Seq(ToClient) /\ f \in Formats
    BY <2>1, MessageType
  <2>3. cached \subseteq Contents
    <3>1. offer.mimes \subseteq Mimes
      BY DEF Offers
    <3>2. \A m \in offer.mimes : cache[m] \in Contents \cup {NoData}
      BY <3>1
    <3>3. QED
      BY <3>2
  <2>4. LocalContent(f) \in Contents
    BY <2>2 DEF LocalContent, Contents
  <2>5. \/ system' = system
        \/ \E c \in IF offer = NoOffer THEN {LocalContent(f)} ELSE cached :
             system' = [as |-> f, content |-> [c EXCEPT !.format = f]]
    BY <1>5 DEF ReceiveFormatDataRequest
  <2>6. system' \in Stored \cup {NoData}
    <3> HIDE DEF f, cached
    <3>1. CASE system' = system
      BY <3>1
    <3>2. CASE \E c \in IF offer = NoOffer THEN {LocalContent(f)} ELSE cached :
                 system' = [as |-> f, content |-> [c EXCEPT !.format = f]]
      <4>1. PICK c \in Contents : system' = [as |-> f, content |-> [c EXCEPT !.format = f]]
        BY <2>3, <2>4, <3>2
      <4>2. [c EXCEPT !.format = f] \in Contents
        BY <2>2 DEF Contents
      <4>3. QED
        BY <2>2, <4>1, <4>2 DEF Stored
    <3>3. QED
      BY <2>5, <3>1, <3>2
  <2>7. QED
    BY <1>5, <2>1, <2>2, <2>6 DEF ReceiveFormatDataRequest, Receive
<1>6. QED
  BY <1>1, <1>2, <1>3, <1>4, <1>5

-----------------------------------------------------------------------------
(* Types of the SDL thread's steps. *)

LEMMA OfferStep ==
  ASSUME ClipInv, OfferServerClipboard \/ SendFormatList
  PROVE  TypeOK'
<1> USE DEF ClipInv, TypeOK, ServerTypeOK, formatVars, sdlVars, chanVars, replyVars,
            linkVars, serverVars, wireVars
<1>1. CASE OfferServerClipboard
  <2>1. Head(events) \in ClipEvents /\ Tail(events) \in Seq(ClipEvents)
    BY <1>1, HeadTailType DEF OfferServerClipboard, TakeEvent
  <2>2. /\ mimetypes.mimes \subseteq Mimes /\ mimetypes.list \in 0..MaxLists
        /\ Head(events).mimes \subseteq Mimes
    BY <2>1 DEF Offers, ClipEvents
  <2>3. \A M \in Pointed(Head(events)) : M \subseteq Mimes
    BY <2>2 DEF Pointed
  <2>4. offer' \in Offers
    BY <1>1, <2>2, <2>3 DEF OfferServerClipboard, Offers
  <2>5. cache' \in [Mimes -> Contents \cup {NoData}] /\ mimetypes' \in Offers
    BY <1>1 DEF OfferServerClipboard, EmptyCache, NoOffer, Offers
  <2>6. system' \in Stored \cup {NoData} /\ holds' \in BOOLEAN
    BY <1>1 DEF OfferServerClipboard, ClipCleanCb
  <2>7. QED
    BY <1>1, <2>1, <2>4, <2>5, <2>6 DEF OfferServerClipboard, TakeEvent
<1>2. CASE SendFormatList
  <2>1. pc' \in Pcs
    BY <1>2 DEF SendFormatList, Pcs
  <2>2. ClientList(FormatsOf(Head(events).mimes)) \in ToServer
    BY DEF ClientList, FormatsOf, ToServer
  <2>a. events # <<>> /\ events \in Seq(ClipEvents) /\ toServer \in Seq(ToServer)
    BY <1>2 DEF SendFormatList, CallInv
  <2>b. Tail(events) \in Seq(ClipEvents)
    BY <2>a, HeadTailType
  <2>c. \/ events' = Tail(events)
           /\ toServer' = Append(toServer, ClientList(FormatsOf(Head(events).mimes)))
        \/ events' = events /\ toServer' = toServer
    BY <1>2 DEF SendFormatList
  <2>d. Append(toServer, ClientList(FormatsOf(Head(events).mimes))) \in Seq(ToServer)
    BY <2>2, <2>a, AppendType
  <2>3. toServer' \in Seq(ToServer)
    BY ONLY <2>a, <2>c, <2>d
  <2>4. events' \in Seq(ClipEvents)
    BY ONLY <2>a, <2>b, <2>c
  <2>5. QED
    BY <1>2, <2>1, <2>3, <2>4 DEF SendFormatList
<1>3. QED
  BY <1>1, <1>2

LEMMA PasteUpdateType ==
  ASSUME TypeOK
  PROVE  /\ \A c \in Contents \cup {NoData} : [paste EXCEPT !.content = c] \in Pastes
         /\ [paste EXCEPT !.generation = generation] \in Pastes
         /\ paste.attempt < MaxAttempts => [paste EXCEPT !.attempt = @ + 1] \in Pastes
<1>1. paste \in Pastes /\ generation \in Nat
  BY DEF TypeOK
<1>2. \A c \in Contents \cup {NoData} : [paste EXCEPT !.content = c] \in Pastes
  BY <1>1 DEF Pastes
<1>3. [paste EXCEPT !.generation = generation] \in Pastes
  BY <1>1 DEF Pastes
<1>4. paste.attempt < MaxAttempts => [paste EXCEPT !.attempt = @ + 1] \in Pastes
  <2>1. paste.attempt \in 0..MaxAttempts
    BY <1>1 DEF Pastes
  <2>2. ASSUME paste.attempt < MaxAttempts
        PROVE  paste.attempt + 1 \in 0..MaxAttempts
    BY <2>1, <2>2
  <2>3. \A n \in 0..MaxAttempts : [paste EXCEPT !.attempt = n] \in Pastes
    BY <1>1 DEF Pastes
  <2>4. QED
    BY <2>2, <2>3
<1>5. QED
  BY <1>2, <1>3, <1>4

\* The first section of ClipDataCb().
LEMMA LookupStep ==
  ASSUME ClipInv, NEW m \in Mimes, ClipDataCb(m)
  PROVE  /\ TypeOK'
         /\ pc' \in {"idle", "begin"}
         /\ pc' = "begin" => paste'.format \in Formats
<1> USE DEF ClipInv
<1> DEFINE f == ServerIdForMime(m)
           NewPaste(a, c) == [mime |-> m, format |-> f, attempt |-> a, lookup |-> generation,
                              generation |-> 0, asked |-> offer.list, content |-> c]
<1>1. /\ f \in Formats \cup {NoFormat} /\ generation \in Nat /\ offer.list \in 0..MaxLists
  BY ServerIdType DEF TypeOK, Offers
<1>2. Held(m) \in Contents \cup {NoData} /\ cache[m] \in Contents \cup {NoData}
  BY ConvertedType DEF Held, TypeOK
<1>3. ASSUME NEW a \in {0, 1}, NEW c \in Contents \cup {NoData}
      PROVE  NewPaste(a, c) \in Pastes
  <2>1. a \in 0..MaxAttempts
    OBVIOUS
  <2> HIDE DEF f
  <2>2. QED
    BY <1>1, <2>1 DEF Pastes
<1>4. Lookup(m, Held(m))
  BY DEF ClipDataCb
<1> HIDE DEF NewPaste
<1>5. /\ cache' \in [Mimes -> Contents \cup {NoData}]
      /\ \/ pc' = "idle" /\ \E c \in Contents \cup {NoData} : paste' = NewPaste(0, c)
         \/ pc' = "begin" /\ f # NoFormat /\ paste' = NewPaste(1, NoData)
  <2>1. cache \in [Mimes -> Contents \cup {NoData}]
    BY DEF TypeOK
  <2>2. QED
    BY <1>2, <1>4, <2>1 DEF Lookup, NewPaste
<1>6. paste' \in Pastes /\ pc' \in Pcs
  BY <1>3, <1>5 DEF Pcs, Busy
<1>7. pc' = "begin" => paste'.format \in Formats
  BY <1>1, <1>5 DEF NewPaste
<1>8. TypeOK'
  BY <1>5, <1>6 DEF ClipDataCb, TypeOK, ServerTypeOK, sdlVars, chanVars, replyVars, linkVars,
                    serverVars, wireVars
<1>9. QED
  BY <1>5, <1>7, <1>8

\* Every later step of ClipDataCb().
LEMMA PasteSteps ==
  ASSUME ClipInv, ClipDataCbStep
  PROVE  TypeOK'
<1> USE DEF ClipInv, TypeOK, ServerTypeOK, formatVars, sdlVars, chanVars, replyVars,
            linkVars, serverVars, wireVars, UnchangedInPaste, Return
<1>1. NoData \in Contents \cup {NoData} /\ Converted(paste.mime) \in Contents \cup {NoData}
  BY ConvertedType
<1>2. "idle" \in Pcs /\ Busy \subseteq Pcs
  BY DEF Pcs
<1>3. requests # <<>> => Tail(requests) \in Seq(ClipRequests)
  BY HeadTailType
<1>4. pc \in Waiting => requests # <<>>
  BY DEF CallInv, OneRequestPerCall, Waiting
<1>5. CASE BeginAttempt
  <2>1. pc' \in Pcs /\ paste' \in Pastes
    BY <1>2, <1>5, PasteUpdateType DEF BeginAttempt, Busy
  <2>2. QED
    BY <1>5, <2>1 DEF BeginAttempt
<1>6. CASE SendDataRequest
  <2>1. paste.format \in Formats
    BY <1>6 DEF SendDataRequest, CallInv, Busy
  <2>2. ClipRequest(paste.format) \in ClipRequests /\ DataRequest(paste.format) \in ToServer
    BY <2>1 DEF ClipRequest, ClipRequests, DataRequest, ToServer
  <2>3. requests' \in Seq(ClipRequests) /\ toServer' \in Seq(ToServer)
    BY <1>6, <2>2 DEF SendDataRequest
  <2>4. pc' \in Pcs
    BY <1>2, <1>6 DEF SendDataRequest, Busy
  <2>5. QED
    BY <1>6, <2>3, <2>4 DEF SendDataRequest
<1>7. CASE SendFails
  <2>1. pc' \in Pcs /\ paste' \in Pastes
    BY <1>1, <1>2, <1>7, PasteUpdateType DEF SendFails
  <2>2. QED
    BY <1>7, <2>1 DEF SendFails
<1>8. CASE WaitAborted \/ WaitSignalled \/ WaitTimesOut
  <2>1. pc' \in Pcs /\ timedOut' \in BOOLEAN
    BY <1>2, <1>8 DEF WaitAborted, WaitSignalled, WaitTimesOut, Busy
  <2>2. QED
    BY <1>8, <2>1 DEF WaitAborted, WaitSignalled, WaitTimesOut
<1>9. CASE GiveUp
  <2>1. pc' \in Pcs /\ paste' \in Pastes
    BY <1>1, <1>2, <1>9, PasteUpdateType DEF GiveUp
  <2>2. requests' \in Seq(ClipRequests)
    BY <1>3, <1>4, <1>9 DEF GiveUp, Waiting
  <2>3. QED
    BY <1>9, <2>1, <2>2 DEF GiveUp
<1>10. ASSUME PopRequest, pc = "woken"
       PROVE  requests' \in Seq(ClipRequests) /\ event' \in BOOLEAN
  <2>1. requests' \in Seq(ClipRequests)
    BY <1>3, <1>4, <1>10 DEF PopRequest, Waiting
  <2>2. event' \in BOOLEAN
    BY <1>10 DEF PopRequest
  <2>3. QED
    BY <2>1, <2>2
<1>11. CASE Fetched
  <2>1. pc' \in Pcs /\ paste' \in Pastes
    BY <1>1, <1>2, <1>11, PasteUpdateType DEF Fetched
  <2>2. requests' \in Seq(ClipRequests) /\ event' \in BOOLEAN
    BY <1>10, <1>11 DEF Fetched
  <2>3. cache' \in [Mimes -> Contents \cup {NoData}]
    BY <1>1, <1>11 DEF Fetched
  <2>4. QED
    BY <1>11, <2>1, <2>2, <2>3 DEF Fetched
<1>12. CASE RefusedRetry
  <2>1. pc' \in Pcs
    BY <1>2, <1>12 DEF RefusedRetry, Busy
  <2>2. requests' \in Seq(ClipRequests) /\ event' \in BOOLEAN
    BY <1>10, <1>12 DEF RefusedRetry
  <2>3. QED
    BY <1>12, <2>1, <2>2 DEF RefusedRetry
<1>13. CASE RefusedForGood
  <2>1. pc' \in Pcs /\ paste' \in Pastes
    BY <1>1, <1>2, <1>13, PasteUpdateType DEF RefusedForGood
  <2>2. requests' \in Seq(ClipRequests) /\ event' \in BOOLEAN
    BY <1>10, <1>13 DEF RefusedForGood
  <2>3. paste.format \in Formats /\ paste.generation \in Nat
    BY <1>13 DEF RefusedForGood, CallInv, Busy, Pastes
  <2>4. memo' \subseteq (Formats \X Nat)
    BY <1>13, <2>3 DEF RefusedForGood
  <2>5. QED
    BY <1>13, <2>1, <2>2, <2>4 DEF RefusedForGood
<1>14. CASE RetryDelay
  <2>1. pc' \in Pcs /\ paste' \in Pastes
    BY <1>1, <1>2, <1>14, PasteUpdateType DEF RetryDelay, CallInv, Busy
  <2>2. QED
    BY <1>14, <2>1 DEF RetryDelay
<1>15. QED
  BY <1>5, <1>6, <1>7, <1>8, <1>9, <1>11, <1>12, <1>13, <1>14 DEF ClipDataCbStep

\* The far side of the channel.
LEMMA ServerSteps ==
  ASSUME ClipInv, Server
  PROVE  TypeOK'
<1> USE DEF ClipInv, TypeOK, ServerTypeOK, formatVars, sdlVars, chanVars, replyVars, linkVars
<1>0. UNCHANGED <<formatVars, sdlVars, chanVars, replyVars, linkVars>>
  BY DEF Server
<1>1. ASSUME NEW F \in SUBSET Formats \ {{}}, ServerCopies(F)
      PROVE  TypeOK'
  <2>1. FormatList(lists + 1, F) \in ToClient
    BY <1>1 DEF ServerCopies, FormatList, ToClient
  <2>2. toClient' \in Seq(ToClient)
    BY <1>1, <2>1 DEF ServerCopies
  <2>3. QED
    BY <1>0, <1>1, <2>2 DEF ServerCopies
<1>2. CASE ServerTakesRequest
  <2>1. Head(toServer) \in ToServer /\ Tail(toServer) \in Seq(ToServer)
    BY <1>2, HeadTailType DEF ServerTakesRequest
  <2>2. Head(toServer).format \in Formats
    BY <1>2, <2>1 DEF ServerTakesRequest, ToServer
  <2>3. ServerContent(lists, Head(toServer).format) \in Contents
    BY <2>2 DEF ServerContent, Contents
  <2>4. rendering' \in Seq(Contents \cup {NoData})
    <3>1. rendering \in Seq(Contents \cup {NoData})
      OBVIOUS
    <3>2. \E c \in Contents \cup {NoData} : rendering' = Append(rendering, c)
      BY <1>2, <2>3 DEF ServerTakesRequest
    <3>3. QED
      BY ONLY <3>1, <3>2
  <2>5. QED
    BY <1>0, <1>2, <2>1, <2>4 DEF ServerTakesRequest
<1>3. CASE ServerTakesFormats
  <2>1. Head(toServer) \in ToServer /\ Tail(toServer) \in Seq(ToServer)
    BY <1>3, HeadTailType DEF ServerTakesFormats
  <2>2. Head(toServer).formats \subseteq Formats
    BY <1>3, <2>1 DEF ServerTakesFormats, ToServer
  <2>3. QED
    BY <1>0, <1>3, <2>1, <2>2 DEF ServerTakesFormats
<1>4. CASE ServerAnswers
  <2>1. Head(rendering) \in Contents \cup {NoData} /\ Tail(rendering) \in Seq(Contents \cup {NoData})
    BY <1>4, HeadTailType DEF ServerAnswers
  <2>2. DataResponse(Head(rendering)) \in ToClient
    BY <2>1 DEF DataResponse, ToClient
  <2>3. toClient' \in Seq(ToClient)
    BY <1>4, <2>2 DEF ServerAnswers
  <2>4. QED
    BY <1>0, <1>4, <2>1, <2>3 DEF ServerAnswers
<1>5. ASSUME NEW f \in Formats, ServerAsks(f)
      PROVE  TypeOK'
  <2>1. DataRequest(f) \in ToClient
    BY DEF DataRequest, ToClient
  <2>2. toClient' \in Seq(ToClient)
    BY <1>5, <2>1 DEF ServerAsks
  <2>3. QED
    BY <1>0, <1>5, <2>2 DEF ServerAsks
<1>6. QED
  BY <1>1, <1>2, <1>3, <1>4, <1>5 DEF Server, ServerStep

-----------------------------------------------------------------------------
(* The pending request and the event. *)

\* What CallInv depends on.
callVars == <<pc, paste, requests, event, timedOut, abort, events>>

LEMMA CallUnchanged ==
  ASSUME CallInv, UNCHANGED callVars
  PROVE  CallInv'
BY DEF CallInv, OneRequestPerCall, callVars

\* The request of a call is alone in the queue.
LEMMA OnlyRequest ==
  ASSUME ClipInv, pc \in Waiting
  PROVE  /\ requests \in Seq(ClipRequests) /\ requests # <<>>
         /\ Len(requests) = 1 /\ Tail(requests) = <<>>
<1>1. requests \in Seq(ClipRequests) /\ Len(requests) = 1
  BY DEF ClipInv, TypeOK, CallInv, OneRequestPerCall, Waiting
<1>2. QED
  BY <1>1, SingletonSeq

\* Steps of the channel thread and of the people.
LEMMA OtherCallSteps ==
  ASSUME ClipInv,
         \/ InitChannel \/ Uninit \/ AbortSession \/ MemoExpires \/ Server
         \/ MonitorReady \/ ReceiveServerFormatList \/ AddServerFormat \/ ClearMimetypes
         \/ AnnounceMimetypes \/ RejectFormatDataResponse \/ ReceiveFormatDataRequest
  PROVE  CallInv'
<1> USE DEF formatVars, sdlVars, chanVars, replyVars, linkVars
<1>0. CallInv /\ events \in Seq(ClipEvents)
  BY DEF ClipInv, TypeOK
<1>1. CASE InitChannel \/ Uninit
  <2>1. UNCHANGED callVars
    BY <1>1 DEF InitChannel, Uninit, callVars
  <2>2. QED
    BY <1>0, <2>1, CallUnchanged
<1>2. CASE AbortSession
  BY <1>0, <1>2 DEF AbortSession, CallInv, OneRequestPerCall
<1>3. CASE MemoExpires \/ Server
  <2>1. UNCHANGED callVars
    BY <1>3 DEF MemoExpires, Server, callVars
  <2>2. QED
    BY <1>0, <2>1, CallUnchanged
<1>4. CASE ReceiveServerFormatList \/ RejectFormatDataResponse \/ ReceiveFormatDataRequest
  <2>1. UNCHANGED callVars
    BY <1>4 DEF ReceiveServerFormatList, RejectFormatDataResponse, ReceiveFormatDataRequest,
                Receive, callVars
  <2>2. QED
    BY <1>0, <2>1, CallUnchanged
<1>5. CASE AddServerFormat \/ ClearMimetypes
  <2>1. UNCHANGED callVars
    BY <1>5 DEF AddServerFormat, ClearMimetypes, callVars
  <2>2. QED
    BY <1>0, <2>1, CallUnchanged
<1>6. CASE MonitorReady \/ AnnounceMimetypes
  <2>1. UNCHANGED <<pc, paste, requests, event, timedOut, abort>>
    BY <1>6 DEF MonitorReady, AnnounceMimetypes
  <2>2. \E ev : events' = Append(events, ev)
    BY <1>6 DEF MonitorReady, AnnounceMimetypes
  <2>3. events' # <<>>
    BY <1>0, <2>2
  <2>4. QED
    BY <1>0, <2>1, <2>3 DEF CallInv, OneRequestPerCall
<1>7. QED
  BY <1>1, <1>2, <1>3, <1>4, <1>5, <1>6

\* An answer marks the pending request, which is the waiting call's.
LEMMA ResponseCallStep ==
  ASSUME ClipInv, ReceiveFormatDataResponse
  PROVE  CallInv'
<1>1. requests # <<>> /\ UNCHANGED <<pc, paste, timedOut, abort, events>>
  BY DEF ReceiveFormatDataResponse, Receive, sdlVars, linkVars
<1>2. pc \in Waiting /\ pc \notin {"delay", "announce"}
  BY <1>1 DEF ClipInv, CallInv, OneRequestPerCall, Waiting
<1>3. requests \in Seq(ClipRequests) /\ Len(requests) = 1
  BY <1>2, OnlyRequest
<1>4. PICK s \in {"ok", "refused"} : requests' = [requests EXCEPT ![1].status = s]
  BY DEF ReceiveFormatDataResponse
<1>5. requests[1] \in ClipRequests
  BY <1>3, SingletonSeq
<1>6. Len(requests') = 1 /\ requests'[1] = [requests[1] EXCEPT !.status = s]
  BY <1>3, <1>4
<1>7. Head(requests') = [Head(requests) EXCEPT !.status = s]
  BY <1>6
<1>8. Head(requests').status # "sent" /\ Head(requests').format = Head(requests).format
  <2>1. Head(requests) \in ClipRequests
    BY <1>5
  <2>2. QED
    BY <1>7, <2>1 DEF ClipRequests
<1>9. CallInv
  BY DEF ClipInv
<1>10. QED
  BY <1>1, <1>2, <1>6, <1>8, <1>9 DEF CallInv, OneRequestPerCall, Busy, Waiting

\* Steps of the SDL thread outside of ClipDataCb().
LEMMA EventCallSteps ==
  ASSUME ClipInv, LocalCopy \/ HandleEvent
  PROVE  CallInv'
<1>0. CallInv
  BY DEF ClipInv
<1>1. CASE LocalCopy \/ OfferServerClipboard \/ IgnoreClipboardEvent
  <2>1. /\ pc = "idle"
        /\ UNCHANGED <<pc, paste, requests, event, timedOut, abort>>
    BY <1>1 DEF LocalCopy, OfferServerClipboard, IgnoreClipboardEvent, TakeEvent, replyVars,
                linkVars
  <2>2. QED
    BY <1>0, <2>1 DEF CallInv, OneRequestPerCall, Busy, Waiting
<1>2. CASE AnnounceLocalClipboard
  <2>1. /\ pc = "idle" /\ pc' = "announce" /\ events # <<>>
        /\ UNCHANGED <<paste, requests, event, timedOut, abort, events>>
    BY <1>2 DEF AnnounceLocalClipboard, replyVars, linkVars
  <2>2. QED
    BY <1>0, <2>1 DEF CallInv, OneRequestPerCall, Busy, Waiting
<1>3. CASE SendFormatList
  <2>1. /\ pc = "announce" /\ pc' \in {"idle", "aborted"}
        /\ UNCHANGED <<paste, requests, event, timedOut, abort>>
    BY <1>3 DEF SendFormatList, replyVars, linkVars
  <2>2. QED
    BY <1>0, <2>1 DEF CallInv, OneRequestPerCall, Busy, Waiting
<1>4. QED
  BY <1>1, <1>2, <1>3 DEF HandleEvent

\* The call itself.
LEMMA PasteCallSteps ==
  ASSUME ClipInv, (\E m \in Mimes : ClipDataCb(m)) \/ ClipDataCbStep
  PROVE  CallInv'
<1> USE DEF sdlVars, replyVars, linkVars, UnchangedInPaste, Return
<1>0. CallInv
  BY DEF ClipInv
<1>1. ASSUME NEW m \in Mimes, ClipDataCb(m)
      PROVE  CallInv'
  <2>1. pc = "idle" /\ UNCHANGED <<requests, event, timedOut, abort, events>>
    BY <1>1 DEF ClipDataCb
  <2>2. pc' \in {"idle", "begin"} /\ (pc' = "begin" => paste'.format \in Formats)
    BY <1>1, LookupStep
  <2>3. QED
    BY <1>0, <2>1, <2>2 DEF CallInv, OneRequestPerCall, Busy, Waiting
<1>2. CASE BeginAttempt
  <2>1. /\ pc = "begin" /\ pc' = "send" /\ paste'.format = paste.format
        /\ UNCHANGED <<requests, event, timedOut, abort, events>>
    BY <1>2 DEF BeginAttempt, ClipInv, TypeOK, Pastes
  <2>2. QED
    BY <1>0, <2>1 DEF CallInv, OneRequestPerCall, Busy, Waiting
<1>3. CASE SendDataRequest
  <2>1. /\ pc = "send" /\ pc' = "wait" /\ requests' = Append(requests, ClipRequest(paste.format))
        /\ UNCHANGED <<paste, event, timedOut, abort, events>>
    BY <1>3 DEF SendDataRequest
  <2>2. requests = <<>>
    BY <1>0, <2>1 DEF CallInv, OneRequestPerCall
  <2>3. requests' = <<ClipRequest(paste.format)>>
    BY <2>1, <2>2
  <2>4. Len(requests') = 1 /\ Head(requests') = ClipRequest(paste.format)
    BY <2>3
  <2>5. Head(requests').format = paste.format
    BY <2>4 DEF ClipRequest
  <2>6. QED
    BY <1>0, <2>1, <2>4, <2>5 DEF CallInv, OneRequestPerCall, Busy, Waiting
<1>4. CASE SendFails
  <2>1. /\ pc = "send" /\ pc' = "idle"
        /\ UNCHANGED <<requests, event, timedOut, abort, events>>
    BY <1>4 DEF SendFails
  <2>2. QED
    BY <1>0, <2>1 DEF CallInv, OneRequestPerCall, Busy, Waiting
<1>5. CASE WaitAborted \/ WaitSignalled \/ WaitTimesOut
  <2>1. /\ pc = "wait" /\ UNCHANGED <<paste, requests, event, abort, events>>
        /\ \/ pc' = "gaveup" /\ abort /\ timedOut' = timedOut
           \/ pc' = "gaveup" /\ timedOut'
           \/ pc' = "woken" /\ event /\ ~abort /\ timedOut' = timedOut
    BY <1>5 DEF WaitAborted, WaitSignalled, WaitTimesOut
  <2>2. QED
    BY <1>0, <2>1 DEF CallInv, OneRequestPerCall, Busy, Waiting
<1>6. CASE GiveUp
  <2>1. /\ pc = "gaveup" /\ pc' = "idle" /\ requests' = Tail(requests)
        /\ UNCHANGED <<event, timedOut, abort, events>>
    BY <1>6 DEF GiveUp
  <2>2. requests' = <<>>
    BY <2>1, OnlyRequest DEF Waiting
  <2>3. QED
    BY <1>0, <2>1, <2>2 DEF CallInv, OneRequestPerCall, Busy, Waiting
<1>7. CASE Fetched \/ RefusedRetry \/ RefusedForGood
  <2>1. /\ pc = "woken" /\ PopRequest
        /\ UNCHANGED <<timedOut, abort, events>>
        /\ \/ pc' = "idle"
           \/ pc' = "delay" /\ ShouldRetry /\ paste' = paste
    BY <1>7 DEF Fetched, RefusedRetry, RefusedForGood
  <2>2. requests' = <<>> /\ ~event'
    BY <2>1, OnlyRequest DEF PopRequest, Waiting
  <2>3. pc' = "delay" => paste'.attempt < MaxAttempts
    BY <2>1 DEF ShouldRetry
  <2>4. pc' \in Busy => paste'.format \in Formats
    BY <1>0, <2>1 DEF CallInv, Busy
  <2>5. QED
    BY <1>0, <2>1, <2>2, <2>3, <2>4 DEF CallInv, OneRequestPerCall, Waiting
<1>8. CASE RetryDelay
  <2>1. /\ pc = "delay" /\ pc' \in {"idle", "begin"}
        /\ UNCHANGED <<requests, event, timedOut, abort, events>>
    BY <1>8 DEF RetryDelay
  <2>2. paste'.format = paste.format
    BY <1>8 DEF RetryDelay, ClipInv, TypeOK, Pastes
  <2>3. QED
    BY <1>0, <2>1, <2>2 DEF CallInv, OneRequestPerCall, Busy, Waiting
<1>9. QED
  BY <1>1, <1>2, <1>3, <1>4, <1>5, <1>6, <1>7, <1>8 DEF ClipDataCbStep

-----------------------------------------------------------------------------
LEMMA NextInv ==
  ASSUME ClipInv, [Next]_vars
  PROVE  ClipInv'
<1>1. CASE UNCHANGED vars
  <2>1. TypeOK'
    BY <1>1 DEF ClipInv, TypeOK, ServerTypeOK, vars, formatVars, sdlVars, chanVars, replyVars,
                linkVars, serverVars, wireVars
  <2>2. CallInv'
    BY <1>1, CallUnchanged DEF ClipInv, vars, sdlVars, replyVars, linkVars, callVars
  <2>3. QED
    BY <2>1, <2>2 DEF ClipInv
<1>2. CASE Next
  <2>1. TypeOK'
    BY <1>2, SimpleSteps, ReceiveSteps, OfferStep, LookupStep, PasteSteps, ServerSteps
       DEF Next, ChannelThread, HandleEvent
  <2>2. CallInv'
    BY <1>2, OtherCallSteps, ResponseCallStep, EventCallSteps, PasteCallSteps
       DEF Next, ChannelThread
  <2>3. QED
    BY <2>1, <2>2 DEF ClipInv
<1>3. QED
  BY <1>1, <1>2

\* The strengthening holds in every state of the bridge.
THEOREM ClipInvariant == Spec => []ClipInv
<1>1. Init => ClipInv
  BY InitInv
<1>2. ClipInv /\ [Next]_vars => ClipInv'
  BY NextInv
<1>3. QED
  BY <1>1, <1>2, PTL DEF Spec

\* Every variable of sdlClip and of the channel keeps its type; in particular
\* the attempt counter of ClipDataCb() never passes kMaxDataRequestAttempts.
THEOREM ClipTypeCorrect == Spec => []TypeOK
<1>1. ClipInv => TypeOK
  BY DEF ClipInv
<1>2. QED
  BY <1>1, ClipInvariant, PTL

\* Whatever the channel thread does in between, ClipDataCb() pops exactly the
\* request it pushed, on every path out of it; and until a request goes ten
\* seconds without an answer, the manual-reset event wakes a call for the
\* answer to its own request only.
THEOREM ClipCallsInStep == Spec => []CallsInStep
<1>1. ClipInv => OneRequestPerCall
  BY DEF ClipInv, CallInv
<1>2. ClipInv => WokenByOwnAnswer
  BY DEF ClipInv, CallInv, WokenByOwnAnswer, Waiting
<1>3. ClipInv => CallsInStep
  BY <1>1, <1>2 DEF CallsInStep
<1>4. QED
  BY <1>3, ClipInvariant, PTL

-----------------------------------------------------------------------------
(* What the steps do to the places a pasted content passes through.          *)

\* The server's answer to the pending request is in _system.
Answered == pc \in Waiting /\ Head(requests).status = "ok"

Backs(m, f) == \E i \in DOMAIN FormatsFor[m] : FormatsFor[m][i] = f

\* A conversion gives what is stored, and only for a type the format backs.
LEMMA ConvertedIsStored ==
  ASSUME NEW m
  PROVE  Converted(m) # NoData =>
           system # NoData /\ Converted(m) = system.content /\ Backs(m, system.as)
BY DEF Converted, Backs

\* The cache is filled from _system while that holds the server's data, or with
\* the answer just received.
LEMMA CacheSteps ==
  ASSUME ClipInv, [Next]_vars, NEW m \in Mimes
  PROVE  \/ cache'[m] = cache[m]
         \/ cache'[m] = NoData
         \/ (holds \/ Answered) /\ cache'[m] = Converted(m) /\ UNCHANGED offer
<1>0. cache \in [Mimes -> Contents \cup {NoData}]
  BY DEF ClipInv, TypeOK
<1>1. CASE UNCHANGED cache
  BY <1>1
<1>2. CASE cache' = EmptyCache
  BY <1>2 DEF EmptyCache
<1>3. ASSUME NEW k \in Mimes, ClipDataCb(k)
      PROVE  \/ cache'[m] = cache[m]
             \/ holds /\ cache'[m] = Converted(m) /\ UNCHANGED offer
  <2>1. UNCHANGED cache \/ (Held(k) # NoData /\ cache' = [cache EXCEPT ![k] = Held(k)])
    BY <1>3 DEF ClipDataCb, Lookup
  <2>2. Held(k) # NoData => holds /\ Held(k) = Converted(k)
    BY DEF Held
  <2>3. QED
    BY <1>0, <1>3, <2>1, <2>2 DEF ClipDataCb
<1>4. CASE Fetched
  <2>1. Answered
    BY <1>4 DEF Fetched, Answered, Waiting
  <2>2. UNCHANGED offer
    BY <1>4 DEF Fetched, UnchangedInPaste
  <2>3. cache' = cache \/ cache' = [cache EXCEPT ![paste.mime] = Converted(paste.mime)]
    BY <1>4 DEF Fetched
  <2>4. QED
    BY <1>0, <2>1, <2>2, <2>3
<1>5. CASE ReceiveServerFormatList \/ AnnounceLocalClipboard \/ OfferServerClipboard
  BY <1>2, <1>5 DEF ReceiveServerFormatList, AnnounceLocalClipboard, ClearServerFormats,
        OfferServerClipboard
<1>6. CASE \/ InitChannel \/ Uninit \/ AbortSession \/ MonitorReady \/ AddServerFormat
           \/ ClearMimetypes \/ AnnounceMimetypes \/ ReceiveFormatDataResponse
           \/ RejectFormatDataResponse \/ ReceiveFormatDataRequest
  BY <1>1, <1>6 DEF InitChannel, Uninit, AbortSession, MonitorReady, AddServerFormat,
        ClearMimetypes, AnnounceMimetypes, ReceiveFormatDataResponse,
        RejectFormatDataResponse, ReceiveFormatDataRequest, formatVars
<1>7. CASE \/ LocalCopy \/ IgnoreClipboardEvent \/ SendFormatList \/ MemoExpires
           \/ Server \/ UNCHANGED vars
  BY <1>1, <1>7 DEF LocalCopy, IgnoreClipboardEvent, SendFormatList, MemoExpires, Server,
        vars, formatVars
<1>8. CASE \/ BeginAttempt \/ SendDataRequest \/ SendFails \/ WaitAborted \/ WaitSignalled
           \/ WaitTimesOut \/ GiveUp \/ RefusedRetry \/ RefusedForGood \/ RetryDelay
  BY <1>1, <1>8 DEF BeginAttempt, SendDataRequest, SendFails, WaitAborted, WaitSignalled,
        WaitTimesOut, GiveUp, RefusedRetry, RefusedForGood, RetryDelay, formatVars
<1>9. QED
  BY <1>3, <1>4, <1>5, <1>6, <1>7, <1>8 DEF Next, ChannelThread, HandleEvent, ClipDataCbStep

\* SDL takes another offer only between two calls, and what belongs to the
\* offer before goes with it.
LEMMA OfferSteps ==
  ASSUME ClipInv, [Next]_vars
  PROVE  \/ UNCHANGED offer
         \/ /\ pc = "idle" /\ UNCHANGED <<pc, paste, requests, lists, wireVars, rendering>>
            /\ IF offer = NoOffer THEN UNCHANGED holds ELSE ~holds'
            /\ \/ offer' = NoOffer
               \/ /\ cache' = EmptyCache
                  /\ offer'.list = mimetypes.list
                  /\ mimetypes # NoOffer
<1>1. CASE LocalCopy
  BY <1>1 DEF LocalCopy, ClipCleanCb, serverVars, wireVars
<1>2. CASE OfferServerClipboard
  <2>1. offer'.list = mimetypes.list /\ mimetypes # NoOffer /\ cache' = EmptyCache
    BY <1>2 DEF OfferServerClipboard
  <2>2. /\ pc = "idle" /\ UNCHANGED <<pc, paste, requests, lists, wireVars, rendering>>
        /\ IF offer = NoOffer THEN UNCHANGED holds ELSE ~holds'
    BY <1>2 DEF OfferServerClipboard, TakeEvent, ClipCleanCb, serverVars, wireVars
  <2>3. QED
    BY <2>1, <2>2
<1>3. CASE \/ InitChannel \/ Uninit \/ AbortSession \/ MemoExpires \/ Server \/ UNCHANGED vars
           \/ ChannelThread
  BY <1>3 DEF InitChannel, Uninit, AbortSession, MemoExpires, Server, vars, ChannelThread,
        MonitorReady, ReceiveServerFormatList, AddServerFormat, ClearMimetypes,
        AnnounceMimetypes, ReceiveFormatDataResponse, RejectFormatDataResponse,
        ReceiveFormatDataRequest, sdlVars
<1>4. CASE \/ IgnoreClipboardEvent \/ AnnounceLocalClipboard \/ SendFormatList
           \/ (\E m \in Mimes : ClipDataCb(m)) \/ ClipDataCbStep
  BY <1>4 DEF IgnoreClipboardEvent, AnnounceLocalClipboard, SendFormatList, ClipDataCb,
        ClipDataCbStep, BeginAttempt, SendDataRequest, SendFails, WaitAborted, WaitSignalled,
        WaitTimesOut, GiveUp, Fetched, RefusedRetry, RefusedForGood, RetryDelay,
        UnchangedInPaste
<1>5. QED
  BY <1>1, <1>2, <1>3, <1>4 DEF Next, HandleEvent

\* A content that SDL answers a server's request with.
AnswersWith(c, f) ==
  IF offer = NoOffer THEN c = LocalContent(f)
  ELSE c # NoData /\ \E m \in Mimes : c = cache[m]

\* _system is written by the two data callbacks and cleared with the offer; it
\* is never taken for an answer, or for server data, that it was not before.
LEMMA SystemSteps ==
  ASSUME ClipInv, [Next]_vars
  PROVE  \/ UNCHANGED system /\ (holds' => holds) /\ (Answered' => Answered)
         \/ system' = NoData /\ (holds' => holds)
         \/ /\ ReceiveFormatDataResponse
            /\ Head(toClient).content # NoData
            /\ system' = [as |-> StoredAs(Head(requests).format),
                          content |-> Head(toClient).content]
         \/ /\ UNCHANGED <<holds, offer, pc, requests, lists, timedOut, abort>>
            /\ \E f \in Formats, c \in Contents :
                 AnswersWith(c, f) /\ system' = [as |-> f, content |-> [c EXCEPT !.format = f]]
<1> USE DEF replyVars, formatVars, sdlVars, linkVars
<1>0. /\ requests \in Seq(ClipRequests)
      /\ pc \in Waiting => requests # <<>> /\ Tail(requests) = <<>>
      /\ pc \notin Waiting => requests = <<>>
  BY OnlyRequest DEF ClipInv, TypeOK, CallInv, OneRequestPerCall, Waiting
<1>1. CASE ReceiveFormatDataResponse
  <2> DEFINE c == Head(toClient).content
  <2>1. CASE c # NoData
    BY <1>1, <2>1 DEF ReceiveFormatDataResponse
  <2>2. CASE c = NoData
    <3>1. UNCHANGED <<system, holds, pc>>
      BY <1>1, <2>2 DEF ReceiveFormatDataResponse
    <3>2. requests # <<>> /\ requests' = [requests EXCEPT ![1].status = "refused"]
      BY <1>1, <2>2 DEF ReceiveFormatDataResponse
    <3>3. Head(requests').status = "refused"
      <4>1. Head(requests) \in ClipRequests /\ 1 \in DOMAIN requests /\ Head(requests) = requests[1]
        BY <1>0, <3>2, HeadTailType
      <4>2. Head(requests') = [requests[1] EXCEPT !.status = "refused"]
        BY <1>0, <3>2, <4>1
      <4>3. QED
        BY <4>1, <4>2 DEF ClipRequests
    <3>4. QED
      BY <3>1, <3>3 DEF Answered
  <2>3. QED
    BY <2>1, <2>2
<1>2. CASE ReceiveFormatDataRequest
  <2> DEFINE f == Head(toClient).format
             cached == {cache[m] : m \in {m \in offer.mimes : f \in FormatsOf({m})}} \ {NoData}
  <2>1. f \in Formats
    BY <1>2, MessageType DEF ReceiveFormatDataRequest, ClipInv
  <2>2. UNCHANGED <<holds, offer, pc, requests, lists, timedOut, abort>>
    BY <1>2 DEF ReceiveFormatDataRequest, Receive, serverVars
  <2>3. \/ system' = system
        \/ \E c \in IF offer = NoOffer THEN {LocalContent(f)} ELSE cached :
             system' = [as |-> f, content |-> [c EXCEPT !.format = f]]
    BY <1>2 DEF ReceiveFormatDataRequest
  <2>4. CASE system' = system
    BY <2>2, <2>4 DEF Answered
  <2>5. ASSUME NEW c \in IF offer = NoOffer THEN {LocalContent(f)} ELSE cached
        PROVE  c \in Contents /\ AnswersWith(c, f)
    <3>1. LocalContent(f) \in Contents
      BY <2>1 DEF LocalContent, Contents
    <3>2. CASE offer = NoOffer
      BY <2>5, <3>1, <3>2 DEF AnswersWith
    <3>3. CASE offer # NoOffer
      <4>1. offer.mimes \subseteq Mimes /\ cache \in [Mimes -> Contents \cup {NoData}]
        BY DEF ClipInv, TypeOK, Offers
      <4>2. c \in cached
        BY <2>5, <3>3
      <4>3. PICK m \in offer.mimes : c = cache[m] /\ c # NoData
        BY <4>2
      <4>4. QED
        BY <3>3, <4>1, <4>3 DEF AnswersWith
    <3>4. QED
      BY <3>2, <3>3
  <2>6. QED
    <3> HIDE DEF cached, f
    <3>1. QED
      BY <2>1, <2>2, <2>3, <2>4, <2>5
<1>3. CASE \/ InitChannel \/ Uninit \/ AbortSession \/ MemoExpires \/ Server \/ UNCHANGED vars
           \/ MonitorReady \/ ReceiveServerFormatList \/ AddServerFormat \/ ClearMimetypes
           \/ AnnounceMimetypes \/ RejectFormatDataResponse
  <2>1. UNCHANGED <<system, pc, requests>> /\ (holds' => holds)
    BY <1>3 DEF InitChannel, Uninit, AbortSession, MemoExpires, Server, vars,
        MonitorReady, ReceiveServerFormatList, ClearServerFormats, AddServerFormat,
        ClearMimetypes, AnnounceMimetypes, RejectFormatDataResponse
  <2>2. QED
    BY <2>1 DEF Answered
<1>4. CASE LocalCopy \/ OfferServerClipboard
  <2>1. (system' = NoData /\ ~holds') \/ UNCHANGED <<system, holds>>
    BY <1>4 DEF LocalCopy, OfferServerClipboard, ClipCleanCb
  <2>2. UNCHANGED <<pc, requests>>
    BY <1>4 DEF LocalCopy, OfferServerClipboard
  <2>3. QED
    BY <2>1, <2>2 DEF Answered
<1>5. CASE IgnoreClipboardEvent \/ AnnounceLocalClipboard \/ SendFormatList
  <2>1. pc' \notin Waiting /\ UNCHANGED system /\ (holds' => holds)
    BY <1>5 DEF IgnoreClipboardEvent, AnnounceLocalClipboard, ClearServerFormats,
        SendFormatList, TakeEvent, Waiting
  <2>2. QED
    BY <2>1 DEF Answered
<1>6. CASE (\E m \in Mimes : ClipDataCb(m)) \/ BeginAttempt \/ SendFails \/ GiveUp \/ Fetched
           \/ RefusedRetry \/ RefusedForGood \/ RetryDelay
  <2>1. pc' \notin Waiting /\ UNCHANGED <<system, holds>>
    BY <1>6 DEF ClipDataCb, Lookup, BeginAttempt, SendFails, GiveUp, Fetched, RefusedRetry,
        RefusedForGood, RetryDelay, Return, Waiting
  <2>2. QED
    BY <2>1 DEF Answered
<1>7. CASE SendDataRequest
  <2>1. requests = <<>>
    BY <1>0, <1>7 DEF SendDataRequest, Waiting
  <2>2. requests' = <<ClipRequest(paste.format)>> /\ UNCHANGED <<system, holds>>
    BY <1>7, <2>1 DEF SendDataRequest
  <2>3. Head(requests').status = "sent"
    BY <2>2 DEF ClipRequest
  <2>4. QED
    BY <2>2, <2>3 DEF Answered
<1>8. CASE WaitAborted \/ WaitSignalled \/ WaitTimesOut
  <2>1. pc \in Waiting /\ UNCHANGED <<system, holds, requests>>
    BY <1>8 DEF WaitAborted, WaitSignalled, WaitTimesOut, Waiting
  <2>2. QED
    BY <2>1 DEF Answered
<1>9. QED
  BY <1>1, <1>2, <1>3, <1>4, <1>5, <1>6, <1>7, <1>8 DEF Next, ChannelThread, HandleEvent,
     ClipDataCbStep

\* What a call returns comes from the cache, from _system while that holds the
\* server's data, or from the answer just received.
LEMMA ContentSteps ==
  ASSUME ClipInv, [Next]_vars
  PROVE  \/ paste'.content = NoData
         \/ /\ paste'.content = paste.content
            /\ paste'.mime = paste.mime /\ paste'.asked = paste.asked
         \/ /\ paste'.mime \in Mimes /\ paste'.asked = offer.list
            /\ \/ paste'.content = cache[paste'.mime]
               \/ holds /\ paste'.content = Converted(paste'.mime)
         \/ /\ Answered /\ pc \in Busy
            /\ paste'.content = Converted(paste.mime)
            /\ paste'.mime = paste.mime /\ paste'.asked = paste.asked
<1> USE DEF sdlVars
<1>0. paste \in Pastes
  BY DEF ClipInv, TypeOK
<1>1. CASE UNCHANGED paste
  BY <1>1
<1>2. ASSUME NEW m \in Mimes, ClipDataCb(m)
      PROVE  \/ paste'.content = NoData
             \/ /\ paste'.mime \in Mimes /\ paste'.asked = offer.list
                /\ \/ paste'.content = cache[paste'.mime]
                   \/ holds /\ paste'.content = Converted(paste'.mime)
  <2>1. Lookup(m, Held(m))
    BY <1>2 DEF ClipDataCb
  <2>2. PICK c : /\ paste'.content = c /\ paste'.mime = m /\ paste'.asked = offer.list
                 /\ c \in {NoData, cache[m], Held(m)}
    BY <2>1 DEF Lookup
  <2>3. Held(m) = NoData \/ (holds /\ Held(m) = Converted(m))
    BY DEF Held
  <2>4. QED
    BY <2>2, <2>3
<1>3. CASE Fetched
  <2>1. Answered /\ pc \in Busy /\ paste' = [paste EXCEPT !.content = Converted(paste.mime)]
    BY <1>3 DEF Fetched, Return, Answered, Waiting, Busy
  <2>2. QED
    BY <1>0, <2>1 DEF Pastes
<1>4. CASE SendFails \/ GiveUp \/ RefusedForGood
  <2>1. paste' = [paste EXCEPT !.content = NoData]
    BY <1>4 DEF SendFails, GiveUp, RefusedForGood, Return
  <2>2. QED
    BY <1>0, <2>1 DEF Pastes
<1>5. CASE BeginAttempt
  <2>1. paste' = [paste EXCEPT !.generation = generation]
    BY <1>5 DEF BeginAttempt
  <2>2. QED
    BY <1>0, <2>1 DEF Pastes
<1>6. CASE RetryDelay
  <2>1. \/ paste' = [paste EXCEPT !.content = NoData]
        \/ paste' = [paste EXCEPT !.attempt = @ + 1]
    BY <1>6 DEF RetryDelay, Return
  <2>2. QED
    BY <1>0, <2>1 DEF Pastes
<1>7. CASE SendDataRequest \/ WaitAborted \/ WaitSignalled \/ WaitTimesOut \/ RefusedRetry
  BY <1>1, <1>7 DEF SendDataRequest, WaitAborted, WaitSignalled, WaitTimesOut, RefusedRetry
<1>8. CASE \/ InitChannel \/ Uninit \/ AbortSession \/ MemoExpires \/ Server \/ UNCHANGED vars
           \/ ChannelThread \/ LocalCopy \/ HandleEvent
  BY <1>1, <1>8 DEF InitChannel, Uninit, AbortSession, MemoExpires, Server, vars, ChannelThread,
        MonitorReady, ReceiveServerFormatList, AddServerFormat, ClearMimetypes,
        AnnounceMimetypes, ReceiveFormatDataResponse, RejectFormatDataResponse,
        ReceiveFormatDataRequest, LocalCopy, HandleEvent, OfferServerClipboard,
        IgnoreClipboardEvent, AnnounceLocalClipboard, SendFormatList
<1>9. QED
  BY <1>2, <1>3, <1>4, <1>5, <1>6, <1>7, <1>8 DEF Next, ClipDataCbStep

\* A call is made for the offer of now, which stays until it returns.
LEMMA BusySteps ==
  ASSUME ClipInv, [Next]_vars, pc' \in Busy
  PROVE  /\ UNCHANGED offer
         /\ \/ pc \in Busy /\ paste'.asked = paste.asked
            \/ offer # NoOffer /\ paste'.asked = offer.list
<1> USE DEF Busy, sdlVars
<1>0. paste \in Pastes
  BY DEF ClipInv, TypeOK
<1>1. UNCHANGED offer
  BY OfferSteps
<1>2. ASSUME NEW m \in Mimes, ClipDataCb(m) PROVE offer # NoOffer /\ paste'.asked = offer.list
  <2>1. m \in offer.mimes /\ Lookup(m, Held(m))
    BY <1>2 DEF ClipDataCb
  <2>2. paste'.asked = offer.list
    BY <2>1 DEF Lookup
  <2>3. offer # NoOffer
    BY <2>1 DEF NoOffer
  <2>4. QED
    BY <2>2, <2>3
<1>3. ASSUME ClipDataCbStep PROVE pc \in Busy /\ paste'.asked = paste.asked
  <2>1. pc \in Busy
    BY <1>3 DEF ClipDataCbStep, BeginAttempt, SendDataRequest, SendFails, WaitAborted,
          WaitSignalled, WaitTimesOut, GiveUp, Fetched, RefusedRetry, RefusedForGood, RetryDelay
  <2>2. CASE SendFails \/ GiveUp \/ Fetched \/ RefusedForGood
    BY <2>2 DEF SendFails, GiveUp, Fetched, RefusedForGood, Return
  <2>3. CASE \/ BeginAttempt \/ SendDataRequest \/ WaitAborted \/ WaitSignalled \/ WaitTimesOut
             \/ RefusedRetry \/ RetryDelay
    <3>1. \/ UNCHANGED paste
          \/ paste' = [paste EXCEPT !.generation = generation]
          \/ paste' = [paste EXCEPT !.attempt = @ + 1]
      BY <2>3 DEF BeginAttempt, SendDataRequest, WaitAborted, WaitSignalled, WaitTimesOut,
            RefusedRetry, RetryDelay, Return
    <3>2. QED
      BY <1>0, <2>1, <3>1 DEF Pastes
  <2>4. QED
    BY <1>3, <2>1, <2>2, <2>3 DEF ClipDataCbStep
<1>4. ASSUME ChannelThread \/ InitChannel \/ Uninit \/ AbortSession \/ MemoExpires
             \/ Server \/ UNCHANGED vars
      PROVE  UNCHANGED <<pc, paste>>
  BY <1>4 DEF InitChannel, Uninit, AbortSession, MemoExpires, Server, vars, ChannelThread,
        MonitorReady, ReceiveServerFormatList, AddServerFormat, ClearMimetypes,
        AnnounceMimetypes, ReceiveFormatDataResponse, RejectFormatDataResponse,
        ReceiveFormatDataRequest
<1>5. ASSUME LocalCopy \/ HandleEvent PROVE FALSE
  BY <1>5 DEF LocalCopy, HandleEvent, OfferServerClipboard, IgnoreClipboardEvent,
        AnnounceLocalClipboard, SendFormatList, TakeEvent
<1>6. QED
  BY <1>1, <1>2, <1>3, <1>4, <1>5 DEF Next

\* The channel delivers in order what the server sent, and the server sends
\* what it rendered.
LEMMA WireSteps ==
  ASSUME ClipInv, [Next]_vars
  PROVE  /\ \/ UNCHANGED toClient
            \/ toClient # <<>> /\ toClient' = Tail(toClient)
            \/ \E e \in ToClient :
                 /\ toClient' = Append(toClient, e)
                 /\ e.kind = "response" => /\ rendering # <<>>
                                           /\ e.content = Head(rendering)
                 /\ e.kind = "list" => e.list = lists'
         /\ \/ UNCHANGED rendering
            \/ rendering # <<>> /\ rendering' = Tail(rendering)
            \/ \E c \in Contents \cup {NoData} :
                 /\ rendering' = Append(rendering, c)
                 /\ c # NoData => c.from = "server"
         /\ lists' >= lists
<1> USE DEF serverVars, wireVars
<1>0. lists \in Nat /\ toServer \in Seq(ToServer) /\ rendering \in Seq(Contents \cup {NoData})
  BY DEF ClipInv, TypeOK, ServerTypeOK
<1>1. ASSUME NEW F \in SUBSET Formats \ {{}}, ServerCopies(F)
      PROVE  /\ UNCHANGED rendering /\ lists' >= lists
             /\ \E e \in ToClient :
                 /\ toClient' = Append(toClient, e)
                 /\ e.kind = "list" /\ e.list = lists'
  <2>1. FormatList(lists + 1, F) \in ToClient
    BY <1>0, <1>1 DEF ServerCopies, FormatList, ToClient
  <2>2. FormatList(lists + 1, F).kind = "list" /\ FormatList(lists + 1, F).list = lists + 1
    BY DEF FormatList
  <2>3. QED
    BY <1>0, <1>1, <2>1, <2>2 DEF ServerCopies
<1>2. CASE ServerTakesRequest
  <2>1. Head(toServer).format \in Formats
    BY <1>0, <1>2, HeadTailType DEF ServerTakesRequest, ToServer
  <2>2. /\ ServerContent(lists, Head(toServer).format) \in Contents
        /\ ServerContent(lists, Head(toServer).format).from = "server"
    BY <1>0, <2>1 DEF ServerContent, Contents
  <2>3. \E c \in Contents \cup {NoData} :
           rendering' = Append(rendering, c) /\ (c # NoData => c.from = "server")
    BY <1>2, <2>2 DEF ServerTakesRequest
  <2>4. UNCHANGED <<lists, toClient>>
    BY <1>2 DEF ServerTakesRequest
  <2>5. QED
    BY <1>0, <2>3, <2>4
<1>3. CASE ServerAnswers
  <2>1. Head(rendering) \in Contents \cup {NoData}
    BY <1>0, <1>3, HeadTailType DEF ServerAnswers
  <2>2. /\ DataResponse(Head(rendering)) \in ToClient
        /\ DataResponse(Head(rendering)).kind = "response"
        /\ DataResponse(Head(rendering)).content = Head(rendering)
    BY <2>1 DEF DataResponse, ToClient
  <2>3. QED
    BY <1>0, <1>3, <2>2 DEF ServerAnswers
<1>4. ASSUME NEW f \in Formats, ServerAsks(f)
      PROVE  /\ UNCHANGED <<rendering, lists>>
             /\ \E e \in ToClient : toClient' = Append(toClient, e) /\ e.kind = "request"
  <2>1. DataRequest(f) \in ToClient /\ DataRequest(f).kind = "request"
    BY DEF DataRequest, ToClient
  <2>2. QED
    BY <1>4, <2>1 DEF ServerAsks
<1>5. CASE ServerTakesFormats
  BY <1>0, <1>5 DEF ServerTakesFormats
<1>6. CASE Server
  <2>1. CASE \E F \in SUBSET Formats \ {{}} : ServerCopies(F)
    BY <1>1, <2>1
  <2>2. CASE \E f \in Formats : ServerAsks(f)
    BY <1>0, <1>4, <2>2
  <2>3. QED
    BY <1>2, <1>3, <1>5, <1>6, <2>1, <2>2 DEF Server, ServerStep
<1>7. ASSUME ChannelThread
      PROVE  /\ UNCHANGED <<rendering, lists>>
             /\ UNCHANGED toClient \/ (toClient # <<>> /\ toClient' = Tail(toClient))
  BY <1>7 DEF ChannelThread, MonitorReady, ReceiveServerFormatList, AddServerFormat,
        ClearMimetypes, AnnounceMimetypes, ReceiveFormatDataResponse, RejectFormatDataResponse,
        ReceiveFormatDataRequest, Receive
<1>8. ASSUME \/ InitChannel \/ Uninit \/ AbortSession \/ MemoExpires \/ UNCHANGED vars
             \/ LocalCopy \/ HandleEvent \/ (\E m \in Mimes : ClipDataCb(m)) \/ ClipDataCbStep
      PROVE  UNCHANGED <<rendering, lists, toClient>>
  <2>1. CASE \/ InitChannel \/ Uninit \/ AbortSession \/ MemoExpires \/ UNCHANGED vars
             \/ LocalCopy \/ HandleEvent
    BY <2>1 DEF InitChannel, Uninit, AbortSession, MemoExpires, vars, LocalCopy, HandleEvent,
          OfferServerClipboard, IgnoreClipboardEvent, AnnounceLocalClipboard, SendFormatList
  <2>2. CASE (\E m \in Mimes : ClipDataCb(m)) \/ ClipDataCbStep
    BY <2>2 DEF ClipDataCb, ClipDataCbStep, BeginAttempt, SendDataRequest, SendFails,
          WaitAborted, WaitSignalled, WaitTimesOut, GiveUp, Fetched, RefusedRetry,
          RefusedForGood, RetryDelay, UnchangedInPaste
  <2>3. QED
    BY <1>8, <2>1, <2>2
<1>9. QED
  BY <1>0, <1>6, <1>7, <1>8 DEF Next

-----------------------------------------------------------------------------
(* A paste returns the server's content only.                                *)

FromServer(c) == c = NoData \/ c.from = "server"

\* The desktop's own content is only ever stored in _system, and only while
\* nothing there is taken for the server's.
ServersInv ==
  /\ \A m \in Mimes : FromServer(cache[m])
  /\ \A i \in DOMAIN rendering : FromServer(rendering[i])
  /\ \A i \in DOMAIN toClient :
       toClient[i].kind = "response" => FromServer(toClient[i].content)
  /\ FromServer(paste.content)
  /\ (holds \/ Answered) /\ system # NoData => FromServer(system.content)
  /\ offer = NoOffer => ~holds
  /\ pc \in Busy => offer # NoOffer

LEMMA AppendElement ==
  ASSUME NEW S, NEW s \in Seq(S), NEW e \in S, NEW i \in DOMAIN Append(s, e)
  PROVE  (i \in DOMAIN s /\ Append(s, e)[i] = s[i]) \/ (i = Len(s) + 1 /\ Append(s, e)[i] = e)
OBVIOUS

LEMMA TailElement ==
  ASSUME NEW S, NEW s \in Seq(S), s # <<>>
  PROVE  /\ 1 \in DOMAIN s /\ Head(s) = s[1]
         /\ \A i \in DOMAIN Tail(s) : i + 1 \in DOMAIN s /\ Tail(s)[i] = s[i + 1]
OBVIOUS

LEMMA ServersStep ==
  ASSUME ClipInv, ServersInv, [Next]_vars
  PROVE  ServersInv'
<1>0. /\ toClient \in Seq(ToClient) /\ rendering \in Seq(Contents \cup {NoData})
      /\ cache \in [Mimes -> Contents \cup {NoData}]
  BY DEF ClipInv, TypeOK, ServerTypeOK
<1>1. \A m \in Mimes : FromServer(cache'[m])
  <2> TAKE m \in Mimes
  <2>1. FromServer(cache[m]) /\ FromServer(NoData)
    BY DEF ServersInv, FromServer
  <2>2. holds \/ Answered => FromServer(Converted(m))
    BY ConvertedIsStored DEF ServersInv, FromServer
  <2>3. QED
    BY <2>1, <2>2, CacheSteps
<1>2. \A i \in DOMAIN rendering' : FromServer(rendering'[i])
  <2>1. CASE UNCHANGED rendering
    BY <2>1 DEF ServersInv
  <2>2. CASE rendering # <<>> /\ rendering' = Tail(rendering)
    BY <1>0, <2>2, TailElement DEF ServersInv
  <2>3. ASSUME NEW c \in Contents \cup {NoData}, rendering' = Append(rendering, c),
               c # NoData => c.from = "server"
        PROVE  \A i \in DOMAIN rendering' : FromServer(rendering'[i])
    <3>1. FromServer(c)
      BY <2>3 DEF FromServer
    <3>2. \A i \in DOMAIN rendering' :
            rendering'[i] = c \/ (i \in DOMAIN rendering /\ rendering'[i] = rendering[i])
      BY <1>0, <2>3, AppendElement
    <3>3. QED
      BY <3>1, <3>2 DEF ServersInv
  <2>4. QED
    BY <2>1, <2>2, <2>3, WireSteps
<1>3. \A i \in DOMAIN toClient' :
        toClient'[i].kind = "response" => FromServer(toClient'[i].content)
  <2>1. CASE UNCHANGED toClient
    BY <2>1 DEF ServersInv
  <2>2. CASE toClient # <<>> /\ toClient' = Tail(toClient)
    BY <1>0, <2>2, TailElement DEF ServersInv
  <2>3. ASSUME NEW e \in ToClient, toClient' = Append(toClient, e),
               e.kind = "response" => rendering # <<>> /\ e.content = Head(rendering)
        PROVE  \A i \in DOMAIN toClient' :
                 toClient'[i].kind = "response" => FromServer(toClient'[i].content)
    <3>1. e.kind = "response" => FromServer(e.content)
      BY <1>0, <2>3, TailElement DEF ServersInv
    <3>2. \A i \in DOMAIN toClient' :
            toClient'[i] = e \/ (i \in DOMAIN toClient /\ toClient'[i] = toClient[i])
      BY <1>0, <2>3, AppendElement
    <3>3. QED
      BY <3>1, <3>2 DEF ServersInv
  <2>4. QED
    BY <2>1, <2>2, <2>3, WireSteps
<1>4. FromServer(paste'.content)
  <2>1. FromServer(NoData) /\ FromServer(paste.content) /\ \A m \in Mimes : FromServer(cache[m])
    BY DEF ServersInv, FromServer
  <2>2. \A m : holds \/ Answered => FromServer(Converted(m))
    BY ConvertedIsStored DEF ServersInv, FromServer
  <2>3. QED
    BY <2>1, <2>2, ContentSteps
<1>5. ReceiveFormatDataResponse => offer # NoOffer /\ UNCHANGED offer
  BY DEF ReceiveFormatDataResponse, sdlVars, ClipInv, CallInv, OneRequestPerCall, Busy,
         ServersInv
<1>6. (holds' \/ Answered') /\ system' # NoData => FromServer(system'.content)
  <2>1. CASE UNCHANGED system /\ (holds' => holds) /\ (Answered' => Answered)
    BY <2>1 DEF ServersInv
  <2>2. CASE system' = NoData
    BY <2>2
  <2>3. CASE /\ ReceiveFormatDataResponse
             /\ Head(toClient).content # NoData
             /\ system' = [as |-> StoredAs(Head(requests).format),
                           content |-> Head(toClient).content]
    <3>1. toClient # <<>> /\ Head(toClient).kind = "response"
      BY <2>3 DEF ReceiveFormatDataResponse, Receive
    <3>2. FromServer(Head(toClient).content)
      BY <1>0, <3>1, TailElement DEF ServersInv
    <3>3. QED
      BY <2>3, <3>2
  <2>4. ASSUME UNCHANGED <<holds, offer, pc, requests, lists, timedOut, abort>>,
               NEW f \in Formats, NEW c \in Contents, AnswersWith(c, f),
               system' = [as |-> f, content |-> [c EXCEPT !.format = f]]
        PROVE  (holds' \/ Answered') /\ system' # NoData => FromServer(system'.content)
    <3>1. CASE offer = NoOffer
      <4>1. ~holds /\ pc \notin Busy
        BY <3>1 DEF ServersInv
      <4>2. pc \notin Waiting
        BY <4>1 DEF Waiting, Busy
      <4>3. QED
        BY <2>4, <4>1, <4>2 DEF Answered
    <3>2. CASE offer # NoOffer
      <4>1. PICK m \in Mimes : c = cache[m] /\ c # NoData
        BY <2>4, <3>2 DEF AnswersWith
      <4>2. c.from = "server"
        BY <4>1 DEF ServersInv, FromServer
      <4>3. [c EXCEPT !.format = f].from = "server"
        BY <4>2 DEF Contents
      <4>4. system'.content.from = "server"
        BY <2>4, <4>3
      <4>5. QED
        BY <4>4 DEF FromServer
    <3>3. QED
      BY <3>1, <3>2
  <2>5. QED
    BY <2>1, <2>2, <2>3, <2>4, SystemSteps
<1>7. offer' = NoOffer => ~holds'
  <2>1. holds' => holds \/ ReceiveFormatDataResponse
    BY SystemSteps
  <2>2. CASE UNCHANGED offer
    BY <1>5, <2>1, <2>2 DEF ServersInv
  <2>3. CASE ~UNCHANGED offer
    <3>1. IF offer = NoOffer THEN UNCHANGED holds ELSE ~holds'
      BY <2>3, OfferSteps
    <3>2. QED
      BY <3>1 DEF ServersInv
  <2>4. QED
    BY <2>2, <2>3
<1>8. pc' \in Busy => offer' # NoOffer
  BY BusySteps DEF ServersInv
<1>9. QED
  BY <1>1, <1>2, <1>3, <1>4, <1>6, <1>7, <1>8 DEF ServersInv

\* _system is shared by both directions, and yet the desktop's own content is
\* never returned to the desktop as the server's.
THEOREM ClipPasteIsServers == Spec => []PasteIsServers
<1>1. Init => ServersInv
  <2>1. Init => pc \notin Busy /\ ~Answered
    BY DEF Init, Busy, Answered, Waiting
  <2>2. QED
    BY <2>1 DEF Init, ServerInit, ServersInv, FromServer, EmptyCache
<1>2. ClipInv /\ ServersInv /\ [Next]_vars => (ClipInv /\ ServersInv)'
  BY NextInv, ServersStep
<1>3. ServersInv => PasteIsServers
  BY DEF ServersInv, FromServer, PasteIsServers
<1>4. QED
  BY <1>1, <1>2, <1>3, InitInv, PTL DEF Spec

-----------------------------------------------------------------------------
(* The lists the client knows of have been sent.                             *)

ListsKnown ==
  /\ offer.list <= lists
  /\ mimetypes.list <= lists
  /\ chan.list <= lists
  /\ \A i \in DOMAIN toClient : toClient[i].kind = "list" => toClient[i].list <= lists
  /\ pc \in Busy => paste.asked = offer.list

\* A list number goes from the message to the channel thread, to the MIME types
\* and from there to the offer.
LEMMA ChanSteps ==
  ASSUME ClipInv, [Next]_vars
  PROVE  /\ mimetypes'.list \in {mimetypes.list, chan.list, 0}
         /\ \/ chan'.list \in {chan.list, 0}
            \/ /\ toClient # <<>> /\ Head(toClient).kind = "list"
               /\ chan'.list = Head(toClient).list
<1> USE DEF chanVars
<1>0. chan \in ChanStates
  BY DEF ClipInv, TypeOK
<1>1. CASE ReceiveServerFormatList
  BY <1>1 DEF ReceiveServerFormatList, Receive
<1>2. CASE AddServerFormat
  <2>1. PICK f \in chan.left : chan' = [chan EXCEPT !.left = @ \ {f}]
    BY <1>2 DEF AddServerFormat
  <2>2. QED
    BY <1>0, <1>2, <2>1 DEF AddServerFormat, ChanStates
<1>3. CASE ClearMimetypes
  <2>1. chan' = [chan EXCEPT !.pc = "mimetypes"] /\ mimetypes' = NoOffer
    BY <1>3 DEF ClearMimetypes
  <2>2. QED
    BY <1>0, <2>1 DEF NoOffer, ChanStates
<1>4. CASE AnnounceMimetypes
  BY <1>4 DEF AnnounceMimetypes, ChanIdle
<1>5. CASE OfferServerClipboard
  BY <1>5 DEF OfferServerClipboard, NoOffer
<1>6. CASE \/ MonitorReady \/ ReceiveFormatDataResponse \/ RejectFormatDataResponse
           \/ ReceiveFormatDataRequest \/ InitChannel \/ Uninit \/ AbortSession \/ MemoExpires
           \/ Server \/ UNCHANGED vars
  BY <1>6 DEF MonitorReady, ReceiveFormatDataResponse, RejectFormatDataResponse,
        ReceiveFormatDataRequest, InitChannel, Uninit, AbortSession, MemoExpires, Server, vars
<1>7. CASE \/ LocalCopy \/ IgnoreClipboardEvent \/ AnnounceLocalClipboard \/ SendFormatList
           \/ (\E m \in Mimes : ClipDataCb(m)) \/ ClipDataCbStep
  BY <1>7 DEF LocalCopy, IgnoreClipboardEvent, AnnounceLocalClipboard, SendFormatList,
        ClipDataCb, ClipDataCbStep, BeginAttempt, SendDataRequest, SendFails, WaitAborted,
        WaitSignalled, WaitTimesOut, GiveUp, Fetched, RefusedRetry, RefusedForGood, RetryDelay,
        UnchangedInPaste
<1>8. QED
  BY <1>1, <1>2, <1>3, <1>4, <1>5, <1>6, <1>7 DEF Next, ChannelThread, HandleEvent

LEMMA ListsStep ==
  ASSUME ClipInv, ListsKnown, [Next]_vars
  PROVE  ListsKnown'
<1>0. /\ toClient \in Seq(ToClient) /\ lists \in Nat /\ lists' \in Nat
      /\ offer.list \in Nat /\ mimetypes.list \in Nat /\ chan.list \in Nat
  <2>1. ClipInv'
    BY NextInv
  <2>2. lists' \in Nat
    BY <2>1 DEF ClipInv, TypeOK, ServerTypeOK
  <2>3. QED
    BY <2>2 DEF ClipInv, TypeOK, ServerTypeOK, Offers, ChanStates
<1>1. lists' >= lists
  BY WireSteps
<1>2. offer'.list <= lists'
  <2>1. offer'.list \in {offer.list, mimetypes.list, 0}
    BY OfferSteps DEF NoOffer
  <2>2. QED
    BY <1>0, <1>1, <2>1 DEF ListsKnown
<1>3. mimetypes'.list <= lists'
  BY <1>0, <1>1, ChanSteps DEF ListsKnown
<1>4. chan'.list <= lists'
  <2>1. CASE chan'.list \in {chan.list, 0}
    BY <1>0, <1>1, <2>1 DEF ListsKnown
  <2>2. CASE /\ toClient # <<>> /\ Head(toClient).kind = "list"
             /\ chan'.list = Head(toClient).list
    <3>1. Head(toClient) \in ToClient /\ Head(toClient).list <= lists
      BY <1>0, <2>2, TailElement, HeadTailType DEF ListsKnown
    <3>2. Head(toClient).list \in Nat
      BY <2>2, <3>1 DEF ToClient
    <3>3. QED
      BY <1>0, <1>1, <2>2, <3>1, <3>2
  <2>3. QED
    BY <2>1, <2>2, ChanSteps
<1>5. \A i \in DOMAIN toClient' :
        toClient'[i].kind = "list" => toClient'[i].list <= lists'
  <2>0. \A i \in DOMAIN toClient :
          toClient[i].kind = "list" => toClient[i].list <= lists'
    <3> TAKE i \in DOMAIN toClient
    <3> HAVE toClient[i].kind = "list"
    <3>1. toClient[i].list \in Nat /\ toClient[i].list <= lists
      BY <1>0 DEF ListsKnown, ToClient
    <3>2. QED
      BY <1>0, <1>1, <3>1
  <2>1. CASE UNCHANGED toClient
    BY <2>0, <2>1
  <2>2. CASE toClient # <<>> /\ toClient' = Tail(toClient)
    BY <1>0, <2>0, <2>2, TailElement
  <2>3. ASSUME NEW e \in ToClient, toClient' = Append(toClient, e),
               e.kind = "list" => e.list = lists'
        PROVE  \A i \in DOMAIN toClient' :
                 toClient'[i].kind = "list" => toClient'[i].list <= lists'
    <3>1. \A i \in DOMAIN toClient' :
            toClient'[i] = e \/ (i \in DOMAIN toClient /\ toClient'[i] = toClient[i])
      BY <1>0, <2>3, AppendElement
    <3>2. QED
      BY <1>0, <2>0, <2>3, <3>1
  <2>4. QED
    BY <2>1, <2>2, <2>3, WireSteps
<1>6. pc' \in Busy => paste'.asked = offer'.list
  BY BusySteps DEF ListsKnown
<1>7. QED
  BY <1>2, <1>3, <1>4, <1>5, <1>6 DEF ListsKnown

-----------------------------------------------------------------------------
(* Until a call is given up, what travels is the pending request or its answer. *)

None(s, k)    == \A i \in DOMAIN s : s[i].kind # k
Sole(s, k, e) == \E j \in DOMAIN s : /\ s[j] = e /\ e.kind = k
                                     /\ \A i \in DOMAIN s : s[i].kind = k => i = j

LEMMA AppendOther ==
  ASSUME NEW S, NEW s \in Seq(S), NEW d \in S, NEW k, d.kind # k
  PROVE  /\ None(s, k) => None(Append(s, d), k)
         /\ \A e : Sole(s, k, e) => Sole(Append(s, d), k, e)
<1> DEFINE t == Append(s, d)
<1>1. \A i \in DOMAIN t : (i \in DOMAIN s /\ t[i] = s[i]) \/ t[i] = d
  BY AppendElement
<1>2. \A i \in DOMAIN s : i \in DOMAIN t /\ t[i] = s[i]
  OBVIOUS
<1> HIDE DEF t
<1>3. None(s, k) => None(t, k)
  BY <1>1 DEF None
<1>4. ASSUME NEW e, Sole(s, k, e) PROVE Sole(t, k, e)
  <2>1. PICK j \in DOMAIN s : /\ s[j] = e /\ e.kind = k
                              /\ \A i \in DOMAIN s : s[i].kind = k => i = j
    BY <1>4 DEF Sole
  <2>2. j \in DOMAIN t /\ t[j] = e
    BY <1>2, <2>1
  <2>3. \A i \in DOMAIN t : t[i].kind = k => i = j
    BY <1>1, <2>1
  <2>4. QED
    BY <2>1, <2>2, <2>3 DEF Sole
<1>5. QED
  BY <1>3, <1>4 DEF t

LEMMA AppendSole ==
  ASSUME NEW S, NEW s \in Seq(S), NEW e \in S, NEW k, e.kind = k, None(s, k)
  PROVE  Sole(Append(s, e), k, e)
<1>1. \A i \in DOMAIN Append(s, e) :
        (i \in DOMAIN s /\ Append(s, e)[i] = s[i]) \/ (i = Len(s) + 1 /\ Append(s, e)[i] = e)
  BY AppendElement
<1>2. Len(s) + 1 \in DOMAIN Append(s, e) /\ Append(s, e)[Len(s) + 1] = e
  OBVIOUS
<1>3. QED
  BY <1>1, <1>2 DEF Sole, None

LEMMA TailKeepsOther ==
  ASSUME NEW S, NEW s \in Seq(S), s # <<>>, NEW k
  PROVE  /\ None(s, k) => None(Tail(s), k) /\ Head(s).kind # k
         /\ \A e : Sole(s, k, e) /\ Head(s).kind # k => Sole(Tail(s), k, e)
         /\ \A e : Sole(s, k, e) /\ Head(s).kind = k => Head(s) = e /\ None(Tail(s), k)
<1> DEFINE t == Tail(s)
<1>1. /\ 1 \in DOMAIN s /\ Head(s) = s[1]
      /\ \A i \in DOMAIN t : i + 1 \in DOMAIN s /\ t[i] = s[i + 1]
  BY TailElement
<1>2. \A i \in DOMAIN s : i # 1 => i - 1 \in DOMAIN t /\ t[i - 1] = s[i]
  OBVIOUS
<1>3. DOMAIN s \subseteq Nat /\ DOMAIN t \subseteq Nat /\ 0 \notin DOMAIN t
  OBVIOUS
<1> HIDE DEF t
<1>4. None(s, k) => None(t, k) /\ Head(s).kind # k
  BY <1>1 DEF None
<1>5. ASSUME NEW e, Sole(s, k, e), Head(s).kind # k PROVE Sole(t, k, e)
  <2>1. PICK j \in DOMAIN s : /\ s[j] = e /\ e.kind = k
                              /\ \A i \in DOMAIN s : s[i].kind = k => i = j
    BY <1>5 DEF Sole
  <2>2. j # 1
    BY <1>1, <1>5, <2>1
  <2>3. j - 1 \in DOMAIN t /\ t[j - 1] = e
    BY <1>2, <2>1, <2>2
  <2>4. \A i \in DOMAIN t : t[i].kind = k => i = j - 1
    BY <1>1, <1>3, <2>1
  <2>5. QED
    BY <2>1, <2>3, <2>4 DEF Sole
<1>6. ASSUME NEW e, Sole(s, k, e), Head(s).kind = k PROVE Head(s) = e /\ None(t, k)
  <2>1. PICK j \in DOMAIN s : /\ s[j] = e /\ e.kind = k
                              /\ \A i \in DOMAIN s : s[i].kind = k => i = j
    BY <1>6 DEF Sole
  <2>2. j = 1
    BY <1>1, <1>6, <2>1
  <2>3. \A i \in DOMAIN t : t[i].kind # k
    BY <1>1, <1>3, <2>1, <2>2
  <2>4. QED
    BY <1>1, <2>1, <2>2, <2>3 DEF None
<1>7. QED
  BY <1>4, <1>5, <1>6 DEF t

\* An answer of the server to the request for paste.format, or its refusal.
Own(c) == c = NoData \/ (c.list >= offer.list /\ c.format = paste.format)

Outstanding == pc \in Waiting /\ Head(requests).status = "sent"

\* The pending request is on its way, being answered, or its answer is on its
\* way; without one nothing is.
InFlight ==
  IF Outstanding
    THEN \/ /\ Sole(toServer, "request", DataRequest(paste.format))
            /\ rendering = <<>> /\ None(toClient, "response")
         \/ /\ None(toServer, "request")
            /\ \E c : rendering = <<c>> /\ Own(c)
            /\ None(toClient, "response")
         \/ /\ None(toServer, "request") /\ rendering = <<>>
            /\ \E c : Sole(toClient, "response", DataResponse(c)) /\ Own(c)
    ELSE None(toServer, "request") /\ rendering = <<>> /\ None(toClient, "response")

LEMMA AnswerIsOwn ==
  ASSUME ClipInv, InFlight, toClient # <<>>, Head(toClient).kind = "response"
  PROVE  /\ Outstanding
         /\ Own(Head(toClient).content)
         /\ None(toServer, "request") /\ rendering = <<>>
         /\ None(Tail(toClient), "response")
<1>1. toClient \in Seq(ToClient)
  BY DEF ClipInv, TypeOK, ServerTypeOK
<1>2. ~None(toClient, "response")
  BY <1>1, TailKeepsOther
<1>3. /\ Outstanding /\ None(toServer, "request") /\ rendering = <<>>
      /\ \E c : Sole(toClient, "response", DataResponse(c)) /\ Own(c)
  BY <1>2 DEF InFlight
<1>4. PICK c : Sole(toClient, "response", DataResponse(c)) /\ Own(c)
  BY <1>3
<1>5. Head(toClient) = DataResponse(c) /\ None(Tail(toClient), "response")
  BY <1>1, <1>4, TailKeepsOther
<1>6. Head(toClient).content = c
  BY <1>5 DEF DataResponse
<1>7. QED
  BY <1>3, <1>4, <1>5, <1>6

\* A call that has been given up, or a session that ends, stays so.
LEMMA LateSteps ==
  ASSUME ClipInv, [Next]_vars, NothingLate'
  PROVE  /\ NothingLate
         /\ ~AbortSession /\ ~WaitAborted /\ ~WaitTimesOut /\ ~GiveUp
<1> USE DEF NothingLate, linkVars, sdlVars
<1>1. CASE \/ InitChannel \/ Uninit \/ MemoExpires \/ Server \/ UNCHANGED vars \/ AbortSession
           \/ ChannelThread \/ LocalCopy \/ HandleEvent
  <2>1. NothingLate /\ ~AbortSession
    BY <1>1 DEF InitChannel, Uninit, AbortSession, MemoExpires, Server, vars, ChannelThread,
        MonitorReady, ReceiveServerFormatList, AddServerFormat, ClearMimetypes,
        AnnounceMimetypes, ReceiveFormatDataResponse, RejectFormatDataResponse,
        ReceiveFormatDataRequest, Receive, LocalCopy, HandleEvent, OfferServerClipboard,
        IgnoreClipboardEvent, AnnounceLocalClipboard, SendFormatList
  <2>2. QED
    BY <2>1 DEF WaitAborted, WaitTimesOut, GiveUp, ClipInv, TypeOK, CallInv, UnchangedInPaste
<1>2. CASE (\E m \in Mimes : ClipDataCb(m)) \/ ClipDataCbStep
  <2>1. NothingLate /\ ~AbortSession
    BY <1>2 DEF ClipDataCb, ClipDataCbStep, BeginAttempt, SendDataRequest, SendFails, WaitAborted,
        WaitSignalled, WaitTimesOut, GiveUp, Fetched, RefusedRetry, RefusedForGood, RetryDelay,
        UnchangedInPaste, AbortSession, ClipInv, TypeOK
  <2>2. QED
    BY <2>1 DEF WaitAborted, WaitTimesOut, GiveUp, ClipInv, TypeOK, CallInv, UnchangedInPaste
<1>3. QED
  BY <1>1, <1>2 DEF Next

\* A step that moves no message neither sends the request nor brings the answer.
LEMMA FlightKept ==
  ASSUME InFlight, UNCHANGED <<wireVars, rendering>>, Outstanding' <=> Outstanding,
         Outstanding => UNCHANGED <<paste, offer>>
  PROVE  InFlight'
BY DEF InFlight, Own, wireVars

LEMMA CallerFlight ==
  ASSUME ClipInv, InFlight, NothingLate, NothingLate',
         (\E m \in Mimes : ClipDataCb(m)) \/ ClipDataCbStep
  PROVE  InFlight'
<1> USE DEF wireVars, serverVars
<1>0. /\ pc \in Waiting => requests # <<>>
      /\ toServer \in Seq(ToServer) /\ toClient \in Seq(ToClient)
      /\ pc = "woken" => ~Outstanding
      /\ pc \notin Waiting => ~Outstanding /\ requests = <<>>
  BY OnlyRequest DEF ClipInv, TypeOK, ServerTypeOK, CallInv, OneRequestPerCall, Waiting,
     NothingLate, Outstanding
<1>1. CASE (\E m \in Mimes : ClipDataCb(m)) \/ BeginAttempt \/ SendFails \/ RetryDelay
  <2>1. pc \notin Waiting /\ pc' \notin Waiting /\ UNCHANGED <<wireVars, rendering>>
    BY <1>1 DEF ClipDataCb, Lookup, BeginAttempt, SendFails, RetryDelay, Return, Waiting,
          UnchangedInPaste
  <2>2. QED
    BY <1>0, <2>1, FlightKept DEF Outstanding
<1>2. CASE Fetched \/ RefusedRetry \/ RefusedForGood
  <2>1. pc = "woken" /\ pc' \notin Waiting /\ UNCHANGED <<wireVars, rendering>>
    BY <1>2 DEF Fetched, RefusedRetry, RefusedForGood, Return, Waiting, UnchangedInPaste
  <2>2. QED
    BY <1>0, <2>1, FlightKept DEF Outstanding
<1>3. CASE WaitSignalled
  <2>1. /\ pc \in Waiting /\ pc' \in Waiting
        /\ UNCHANGED <<requests, paste, offer, wireVars, rendering>>
    BY <1>3 DEF WaitSignalled, Waiting, UnchangedInPaste, replyVars
  <2>2. QED
    BY <2>1, FlightKept DEF Outstanding
<1>4. CASE SendDataRequest
  <2> DEFINE e == DataRequest(paste.format)
  <2>1. /\ pc = "send" /\ requests' = Append(requests, ClipRequest(paste.format))
        /\ toServer' = Append(toServer, e)
        /\ pc' = "wait" /\ UNCHANGED <<paste, offer, rendering, toClient>>
    BY <1>4 DEF SendDataRequest, UnchangedInPaste
  <2>2. requests = <<>> /\ ~Outstanding
    BY <1>0, <2>1 DEF Waiting
  <2>3. requests' = <<ClipRequest(paste.format)>>
    BY <2>1, <2>2
  <2>4. Outstanding'
    BY <2>1, <2>3 DEF Outstanding, ClipRequest, Waiting
  <2>5. None(toServer, "request") /\ rendering = <<>> /\ None(toClient, "response")
    BY <2>2 DEF InFlight
  <2>6. paste.format \in Formats
    BY <2>1 DEF ClipInv, CallInv, Busy
  <2>7. e \in ToServer /\ e.kind = "request"
    BY <2>6 DEF DataRequest, ToServer
  <2> HIDE DEF e
  <2>8. Sole(toServer', "request", e)
    BY <1>0, <2>1, <2>5, <2>7, AppendSole
  <2>9. QED
    BY <2>1, <2>4, <2>5, <2>8 DEF InFlight, e
<1>5. CASE WaitAborted \/ WaitTimesOut \/ GiveUp
  <2>1. ~abort /\ ~timedOut /\ ~timedOut'
    BY DEF NothingLate
  <2>2. FALSE
    BY <1>5, <2>1 DEF WaitAborted, WaitTimesOut, GiveUp, ClipInv, CallInv
  <2>3. QED
    BY <2>2
<1>6. QED
  BY <1>1, <1>2, <1>3, <1>4, <1>5 DEF ClipDataCbStep

LEMMA ServerFlight ==
  ASSUME ClipInv, ListsKnown, InFlight, Server
  PROVE  InFlight'
<1>0. /\ UNCHANGED <<pc, requests, paste, offer>>
      /\ toServer \in Seq(ToServer) /\ toClient \in Seq(ToClient)
      /\ rendering \in Seq(Contents \cup {NoData})
      /\ lists \in Nat /\ offer.list \in Nat
  BY DEF Server, replyVars, sdlVars, ClipInv, TypeOK, ServerTypeOK, Offers
<1>1. /\ Outstanding' <=> Outstanding
      /\ \A c : Own(c)' <=> Own(c)
  BY <1>0 DEF Outstanding, Own
<1>2. ASSUME NEW e \in ToClient, e.kind # "response", toClient' = Append(toClient, e),
             UNCHANGED <<rendering, toServer>>
      PROVE  InFlight'
  <2>1. /\ None(toClient, "response") => None(toClient', "response")
        /\ \A c : Sole(toClient, "response", DataResponse(c)) =>
                    Sole(toClient', "response", DataResponse(c))
    BY <1>0, <1>2, AppendOther
  <2>2. QED
    BY <1>0, <1>1, <1>2, <2>1 DEF InFlight, Own
<1>3. ASSUME NEW F \in SUBSET Formats \ {{}}, ServerCopies(F)
      PROVE  InFlight'
  <2>1. FormatList(lists + 1, F) \in ToClient /\ FormatList(lists + 1, F).kind = "list"
    <3>1. lists + 1 \in 1..MaxLists
      BY <1>3 DEF ServerCopies, ClipInv, TypeOK, ServerTypeOK
    <3>2. QED
      BY <3>1 DEF FormatList, ToClient
  <2>2. toClient' = Append(toClient, FormatList(lists + 1, F)) /\ UNCHANGED <<rendering, toServer>>
    BY <1>3 DEF ServerCopies
  <2>3. QED
    BY <1>2, <2>1, <2>2
<1>4. ASSUME NEW f \in Formats, ServerAsks(f)
      PROVE  InFlight'
  <2>1. DataRequest(f) \in ToClient /\ DataRequest(f).kind = "request"
    BY DEF DataRequest, ToClient
  <2>2. toClient' = Append(toClient, DataRequest(f)) /\ UNCHANGED <<rendering, toServer>>
    BY <1>4 DEF ServerAsks
  <2>3. QED
    BY <1>2, <2>1, <2>2
<1>5. CASE ServerTakesFormats
  <2>1. /\ toServer # <<>> /\ Head(toServer).kind # "request" /\ toServer' = Tail(toServer)
        /\ UNCHANGED <<rendering, toClient>>
    BY <1>5 DEF ServerTakesFormats
  <2>2. /\ None(toServer, "request") => None(toServer', "request")
        /\ \A e : Sole(toServer, "request", e) => Sole(toServer', "request", e)
    BY <1>0, <2>1, TailKeepsOther
  <2>3. QED
    BY <1>0, <1>1, <2>1, <2>2 DEF InFlight, Own
<1>6. CASE ServerTakesRequest
  <2>1. toServer # <<>> /\ Head(toServer).kind = "request" /\ toServer' = Tail(toServer)
        /\ UNCHANGED toClient
    BY <1>6 DEF ServerTakesRequest
  <2>2. ~None(toServer, "request")
    BY <1>0, <2>1, TailKeepsOther
  <2>3. /\ Outstanding /\ Sole(toServer, "request", DataRequest(paste.format))
        /\ rendering = <<>> /\ None(toClient, "response")
    BY <2>2 DEF InFlight
  <2>4. Head(toServer) = DataRequest(paste.format) /\ None(toServer', "request")
    BY <1>0, <2>1, <2>3, TailKeepsOther
  <2>5. \E c \in {NoData, ServerContent(lists, paste.format)} : rendering' = Append(rendering, c)
    BY <1>6, <2>4 DEF ServerTakesRequest, DataRequest
  <2>6. PICK c \in {NoData, ServerContent(lists, paste.format)} : rendering' = <<c>>
    BY <2>3, <2>5
  <2>7. offer.list <= lists
    BY DEF ListsKnown
  <2>8. Own(c)
    BY <1>0, <2>7 DEF Own, ServerContent
  <2>9. QED
    BY <1>1, <2>1, <2>3, <2>4, <2>6, <2>8 DEF InFlight
<1>7. CASE ServerAnswers
  <2>1. /\ rendering # <<>> /\ UNCHANGED toServer
        /\ toClient' = Append(toClient, DataResponse(Head(rendering)))
        /\ rendering' = Tail(rendering)
    BY <1>7 DEF ServerAnswers
  <2>2. Outstanding /\ None(toServer, "request") /\ None(toClient, "response")
    BY <2>1 DEF InFlight
  <2>3. PICK c : rendering = <<c>> /\ Own(c)
    BY <2>1 DEF InFlight
  <2>4. Head(rendering) = c /\ Tail(rendering) = <<>> /\ c \in Contents \cup {NoData}
    BY <1>0, <2>1, <2>3, HeadTailType
  <2>5. DataResponse(c) \in ToClient /\ DataResponse(c).kind = "response"
    BY <2>4 DEF DataResponse, ToClient
  <2>6. Sole(toClient', "response", DataResponse(c))
    BY <1>0, <2>1, <2>2, <2>4, <2>5, AppendSole
  <2>7. QED
    BY <1>1, <2>1, <2>2, <2>3, <2>4, <2>6 DEF InFlight
<1>8. QED
  BY <1>3, <1>4, <1>5, <1>6, <1>7 DEF Server, ServerStep

LEMMA FlightStep ==
  ASSUME ClipInv, ListsKnown, InFlight, NothingLate, NothingLate', [Next]_vars
  PROVE  InFlight'
<1> USE DEF wireVars, serverVars, sdlVars, replyVars
<1>0. /\ toServer \in Seq(ToServer) /\ toClient \in Seq(ToClient)
      /\ pc \notin Waiting => ~Outstanding /\ requests = <<>>
  BY OnlyRequest DEF ClipInv, TypeOK, ServerTypeOK, CallInv, OneRequestPerCall, Waiting,
     Outstanding
<1>1. CASE \/ InitChannel \/ Uninit \/ AbortSession \/ MemoExpires \/ UNCHANGED vars
           \/ MonitorReady \/ AddServerFormat \/ ClearMimetypes \/ AnnounceMimetypes
  <2>1. UNCHANGED <<pc, requests, paste, offer, wireVars, rendering>>
    BY <1>1 DEF InitChannel, Uninit, AbortSession, MemoExpires, vars, MonitorReady,
          AddServerFormat, ClearMimetypes, AnnounceMimetypes
  <2>2. QED
    BY <2>1, FlightKept DEF Outstanding
<1>2. CASE \/ LocalCopy \/ OfferServerClipboard \/ IgnoreClipboardEvent
           \/ AnnounceLocalClipboard
  <2>1. pc \notin Waiting /\ pc' \notin Waiting /\ UNCHANGED <<wireVars, rendering>>
    BY <1>2 DEF LocalCopy, OfferServerClipboard, IgnoreClipboardEvent, TakeEvent,
          AnnounceLocalClipboard, Waiting
  <2>2. QED
    BY <1>0, <2>1, FlightKept DEF Outstanding
<1>3. CASE SendFormatList
  <2> DEFINE e == ClientList(FormatsOf(Head(events).mimes))
  <2>1. /\ pc \notin Waiting /\ pc' \notin Waiting /\ UNCHANGED <<toClient, rendering>>
        /\ UNCHANGED toServer \/ toServer' = Append(toServer, e)
    BY <1>3 DEF SendFormatList, Waiting
  <2>2. e \in ToServer /\ e.kind # "request"
    BY DEF ClientList, FormatsOf, ToServer
  <2>3. None(toServer, "request") /\ rendering = <<>> /\ None(toClient, "response")
    BY <1>0, <2>1 DEF InFlight
  <2> HIDE DEF e
  <2>4. None(Append(toServer, e), "request")
    BY <1>0, <2>2, <2>3, AppendOther
  <2>5. None(toServer', "request")
    BY <2>1, <2>3, <2>4
  <2>6. QED
    BY <2>1, <2>3, <2>5 DEF InFlight, Outstanding
<1>4. ASSUME NEW kind, kind # "response", Receive(kind), UNCHANGED <<pc, requests, paste, offer>>
      PROVE  InFlight'
  <2>1. /\ toClient # <<>> /\ Head(toClient).kind # "response" /\ toClient' = Tail(toClient)
        /\ UNCHANGED <<toServer, rendering>>
    BY <1>4 DEF Receive
  <2>2. /\ None(toClient, "response") => None(toClient', "response")
        /\ \A e : Sole(toClient, "response", e) => Sole(toClient', "response", e)
    BY <1>0, <2>1, TailKeepsOther
  <2>3. QED
    BY <1>4, <2>1, <2>2 DEF InFlight, Own, Outstanding
<1>5. CASE ReceiveServerFormatList \/ ReceiveFormatDataRequest
  BY <1>4, <1>5 DEF ReceiveServerFormatList, ReceiveFormatDataRequest
<1>6. CASE ReceiveFormatDataResponse
  <2>1. /\ toClient # <<>> /\ Head(toClient).kind = "response" /\ toClient' = Tail(toClient)
        /\ UNCHANGED <<toServer, rendering, pc>> /\ requests # <<>>
    BY <1>6 DEF ReceiveFormatDataResponse, Receive
  <2>2. None(toServer, "request") /\ rendering = <<>> /\ None(toClient', "response")
    BY <2>1, AnswerIsOwn
  <2>3. ~Outstanding'
    <3>1. PICK s \in {"ok", "refused"} : requests' = [requests EXCEPT ![1].status = s]
      BY <1>6 DEF ReceiveFormatDataResponse
    <3>2. requests \in Seq(ClipRequests) /\ requests[1] \in ClipRequests /\ 1 \in DOMAIN requests
      BY <2>1, HeadTailType DEF ClipInv, TypeOK
    <3>3. Head(requests') = [requests[1] EXCEPT !.status = s]
      BY <3>1, <3>2
    <3>4. Head(requests').status = s
      BY <3>2, <3>3 DEF ClipRequests
    <3>5. QED
      BY <3>4 DEF Outstanding
  <2>4. QED
    BY <2>1, <2>2, <2>3 DEF InFlight
<1>7. CASE RejectFormatDataResponse
  <2>1. toClient # <<>> /\ Head(toClient).kind = "response" /\ requests = <<>>
    BY <1>7 DEF RejectFormatDataResponse, Receive
  <2>2. Outstanding
    BY <2>1, AnswerIsOwn
  <2>3. pc \notin Waiting
    BY <2>1 DEF ClipInv, CallInv, OneRequestPerCall, Waiting
  <2>4. QED
    BY <2>2, <2>3 DEF Outstanding
<1>8. CASE Server
  BY <1>8, ServerFlight
<1>9. CASE (\E m \in Mimes : ClipDataCb(m)) \/ ClipDataCbStep
  BY <1>9, CallerFlight
<1>10. QED
  BY <1>1, <1>2, <1>3, <1>5, <1>6, <1>7, <1>8, <1>9 DEF Next, ChannelThread, HandleEvent

-----------------------------------------------------------------------------
(* While no call is given up, every content belongs to the list on offer.    *)

\* Whatever is at hand for a paste (the cache, _system, what was returned) is of
\* the list on offer or of a later one, and in the format it is kept under.
FreshInv ==
  NothingLate =>
    /\ \A m \in Mimes :
         cache[m] # NoData => cache[m].list >= offer.list /\ Backs(m, cache[m].format)
    /\ (holds \/ Answered) /\ system # NoData => system.content.list >= offer.list
    /\ system # NoData => system.as \in {NoFormat, system.content.format}
    /\ paste.content # NoData => /\ paste.content.list >= paste.asked
                                 /\ Backs(paste.mime, paste.content.format)
    /\ InFlight

\* What _system is converted to while it holds the server's data, or the answer
\* to the pending request, is of the list on offer and backs the MIME type.
LEMMA ConvertedIsFresh ==
  ASSUME FreshInv, NothingLate, holds \/ Answered, NEW m \in Mimes, Converted(m) # NoData
  PROVE  Converted(m).list >= offer.list /\ Backs(m, Converted(m).format)
<1>1. system # NoData /\ Converted(m) = system.content /\ Backs(m, system.as)
  BY ConvertedIsStored
<1>2. ~Backs(m, NoFormat)
  <2>1. FormatsFor[m] \in Seq(Formats)
    OBVIOUS
  <2>2. QED
    BY <2>1 DEF Backs
<1>3. system.as = system.content.format
  BY <1>1, <1>2 DEF FreshInv
<1>4. QED
  BY <1>1, <1>3 DEF FreshInv

LEMMA FreshStep ==
  ASSUME ClipInv, ServersInv, ListsKnown, FreshInv, [Next]_vars
  PROVE  FreshInv'
<1> SUFFICES ASSUME NothingLate'
             PROVE  FreshInv'
  BY DEF FreshInv
<1>0. /\ NothingLate
      /\ cache \in [Mimes -> Contents \cup {NoData}] /\ system \in Stored \cup {NoData}
      /\ offer.list \in Nat
  BY LateSteps DEF ClipInv, TypeOK, Offers
<1>1. ASSUME NEW m \in Mimes, cache'[m] # NoData
      PROVE  cache'[m].list >= offer'.list /\ Backs(m, cache'[m].format)
  <2>1. cache'[m].list >= offer.list /\ Backs(m, cache'[m].format)
    <3>1. CASE cache'[m] = cache[m]
      BY <1>0, <1>1, <3>1 DEF FreshInv
    <3>2. CASE (holds \/ Answered) /\ cache'[m] = Converted(m)
      BY <1>0, <1>1, <3>2, ConvertedIsFresh
    <3>3. QED
      BY <1>1, <3>1, <3>2, CacheSteps
  <2>2. CASE UNCHANGED offer
    BY <2>1, <2>2
  <2>3. CASE offer' = NoOffer
    <3>1. cache'[m] \in Contents
      <4>1. cache' \in [Mimes -> Contents \cup {NoData}]
        BY NextInv DEF ClipInv, TypeOK
      <4>2. QED
        BY <1>1, <4>1
    <3>2. QED
      BY <2>1, <2>3, <3>1 DEF NoOffer, Contents
  <2>4. CASE cache' = EmptyCache
    BY <1>1, <2>4 DEF EmptyCache
  <2>5. QED
    BY <2>2, <2>3, <2>4, OfferSteps
<1>2. ReceiveFormatDataResponse =>
        /\ UNCHANGED offer
        /\ Head(toClient).content # NoData =>
             /\ Head(toClient).content.list >= offer.list
             /\ Head(toClient).content.format = Head(requests).format
  <2> SUFFICES ASSUME ReceiveFormatDataResponse
               PROVE  /\ UNCHANGED offer
                      /\ Head(toClient).content # NoData =>
                           /\ Head(toClient).content.list >= offer.list
                           /\ Head(toClient).content.format = Head(requests).format
    OBVIOUS
  <2>1. UNCHANGED offer /\ toClient # <<>> /\ Head(toClient).kind = "response"
    BY DEF ReceiveFormatDataResponse, Receive, sdlVars
  <2>2. Outstanding /\ Own(Head(toClient).content)
    BY <1>0, <2>1, AnswerIsOwn DEF FreshInv
  <2>3. Head(requests).format = paste.format
    BY <2>2 DEF Outstanding, ClipInv, CallInv
  <2>4. QED
    BY <2>1, <2>2, <2>3 DEF Own
<1>3. ASSUME NEW f \in Formats, NEW c \in Contents, AnswersWith(c, f),
             system' = [as |-> f, content |-> [c EXCEPT !.format = f]]
      PROVE  /\ system'.as = system'.content.format
             /\ offer # NoOffer => system'.content.list >= offer.list
  <2>1. /\ system'.as = f /\ system'.content.format = f
        /\ system'.content.list = c.list
    BY <1>3 DEF Contents
  <2>2. ASSUME offer # NoOffer PROVE c.list >= offer.list
    <3>1. PICK m \in Mimes : c = cache[m] /\ c # NoData
      BY <1>3, <2>2 DEF AnswersWith
    <3>2. QED
      BY <1>0, <3>1 DEF FreshInv
  <2>3. QED
    BY <2>1, <2>2
<1>4. (holds' \/ Answered') /\ system' # NoData => system'.content.list >= offer'.list
  <2> SUFFICES ASSUME holds' \/ Answered', system' # NoData
               PROVE  system'.content.list >= offer'.list
    OBVIOUS
  <2>1. CASE UNCHANGED system /\ (holds' => holds) /\ (Answered' => Answered)
    <3>1. system.content.list >= offer.list
      BY <1>0, <2>1 DEF FreshInv
    <3>2. CASE UNCHANGED offer
      BY <2>1, <3>1, <3>2
    <3>3. CASE ~UNCHANGED offer
      <4>1. pc = "idle" /\ pc' = pc /\ IF offer = NoOffer THEN UNCHANGED holds ELSE ~holds'
        BY <3>3, OfferSteps
      <4>2. ~holds' /\ ~Answered'
        BY <4>1 DEF ServersInv, Answered, Waiting
      <4>3. QED
        BY <4>2
    <3>4. QED
      BY <3>2, <3>3
  <2>2. CASE /\ ReceiveFormatDataResponse
             /\ Head(toClient).content # NoData
             /\ system' = [as |-> StoredAs(Head(requests).format),
                           content |-> Head(toClient).content]
    BY <1>2, <2>2
  <2>3. ASSUME UNCHANGED <<holds, offer, pc, requests, lists, timedOut, abort>>,
               NEW f \in Formats, NEW c \in Contents, AnswersWith(c, f),
               system' = [as |-> f, content |-> [c EXCEPT !.format = f]]
        PROVE  system'.content.list >= offer'.list
    <3>1. holds \/ Answered
      BY <2>3 DEF Answered
    <3>2. offer # NoOffer
      BY <3>1 DEF ServersInv, Answered, Waiting, Busy
    <3>3. QED
      BY <1>3, <2>3, <3>2
  <2>4. QED
    BY <2>1, <2>2, <2>3, SystemSteps
<1>5. system' # NoData => system'.as \in {NoFormat, system'.content.format}
  <2>1. CASE UNCHANGED system \/ system' = NoData
    BY <1>0, <2>1 DEF FreshInv
  <2>2. CASE /\ ReceiveFormatDataResponse
             /\ Head(toClient).content # NoData
             /\ system' = [as |-> StoredAs(Head(requests).format),
                           content |-> Head(toClient).content]
    BY <1>2, <2>2 DEF StoredAs
  <2>3. QED
    BY <1>3, <2>1, <2>2, SystemSteps
<1>6. paste'.content # NoData => /\ paste'.content.list >= paste'.asked
                                 /\ Backs(paste'.mime, paste'.content.format)
  <2> SUFFICES ASSUME paste'.content # NoData
               PROVE  /\ paste'.content.list >= paste'.asked
                      /\ Backs(paste'.mime, paste'.content.format)
    OBVIOUS
  <2>1. CASE /\ paste'.content = paste.content
             /\ paste'.mime = paste.mime /\ paste'.asked = paste.asked
    BY <1>0, <2>1 DEF FreshInv
  <2>2. CASE /\ paste'.mime \in Mimes /\ paste'.asked = offer.list
             /\ \/ paste'.content = cache[paste'.mime]
                \/ holds /\ paste'.content = Converted(paste'.mime)
    <3>1. CASE paste'.content = cache[paste'.mime]
      BY <1>0, <2>2, <3>1 DEF FreshInv
    <3>2. CASE holds /\ paste'.content = Converted(paste'.mime)
      BY <1>0, <2>2, <3>2, ConvertedIsFresh
    <3>3. QED
      BY <2>2, <3>1, <3>2
  <2>3. CASE /\ Answered /\ pc \in Busy
             /\ paste'.content = Converted(paste.mime)
             /\ paste'.mime = paste.mime /\ paste'.asked = paste.asked
    <3>1. paste.mime \in Mimes
      BY DEF ClipInv, TypeOK, Pastes
    <3>2. paste.asked = offer.list
      BY <2>3 DEF ListsKnown
    <3>3. QED
      BY <1>0, <2>3, <3>1, <3>2, ConvertedIsFresh
  <2>4. QED
    BY <2>1, <2>2, <2>3, ContentSteps
<1>7. InFlight'
  BY <1>0, FlightStep DEF FreshInv
<1>8. QED
  BY <1>1, <1>4, <1>5, <1>6, <1>7 DEF FreshInv

\* Until a call is given up, the pending request, its answer and every content
\* at hand belong to the list on offer.
THEOREM ClipFresh == Spec => [](ClipInv /\ ServersInv /\ ListsKnown /\ FreshInv)
<1>1. Init => ServersInv /\ ListsKnown /\ FreshInv
  <2> SUFFICES ASSUME Init
               PROVE  ServersInv /\ ListsKnown /\ FreshInv
    OBVIOUS
  <2>1. pc \notin Busy /\ ~Answered /\ ~Outstanding
    BY DEF Init, Busy, Answered, Outstanding, Waiting
  <2>2. ServersInv
    BY <2>1 DEF Init, ServerInit, ServersInv, FromServer, EmptyCache
  <2>3. ListsKnown
    BY <2>1 DEF Init, ServerInit, ListsKnown, NoOffer, ChanIdle
  <2>4. InFlight
    BY <2>1 DEF Init, ServerInit, InFlight, None
  <2>5. FreshInv
    BY <2>4 DEF Init, FreshInv, EmptyCache
  <2>6. QED
    BY <2>2, <2>3, <2>5
<1>2. /\ ClipInv /\ ServersInv /\ ListsKnown /\ FreshInv
      /\ [Next]_vars
      => (ClipInv /\ ServersInv /\ ListsKnown /\ FreshInv)'
  BY NextInv, ServersStep, ListsStep, FreshStep
<1>3. QED
  BY <1>1, <1>2, InitInv, PTL DEF Spec

\* As long as no call is given up, what a paste returns is content of the list
\* it was made for or of a later one, in a format that backs the MIME type,
\* although answers, lists and offers arrive in any order.
THEOREM ClipPasteAsAsked == Spec => []PasteAsAsked
<1>1. FreshInv => PasteNotStale
  BY DEF FreshInv, PasteNotStale
<1>2. FreshInv => PasteInItsFormat
  BY DEF FreshInv, PasteInItsFormat, Backs
<1>3. FreshInv => PasteAsAsked
  BY <1>1, <1>2 DEF PasteAsAsked
<1>4. QED
  BY <1>3, ClipFresh, PTL

=============================================================================
