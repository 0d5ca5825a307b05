------------------------------ MODULE ClipServer ------------------------------
(***************************************************************************)
(* The far side of the clipboard channel: the server's clipboard and the   *)
(* two ordered directions of the static virtual channel.  It is external   *)
(* to the client; what it may do follows from the callbacks the client     *)
(* registers in sdlClip::init() and from what their comments report of     *)
(* Windows: lists are rebroadcast, requests are refused while they are,    *)
(* and an answer is the content the server held when it took the request.  *)
(***************************************************************************)
EXTENDS Naturals, Sequences, FiniteSets

CONSTANTS
  Formats,      (* clipboard formats, standard ones and named ones          *)
  NoData,       (* no content: an empty clipboard, a refused request        *)
  MaxLists,     (* bound: format lists the server sends                     *)
  MaxAsks       (* bound: data requests the server sends                    *)

VARIABLES
  lists,        (* number of format lists sent so far                       *)
  owner,        (* whose clipboard the server's applications paste from     *)
  offered,      (* the formats that clipboard has                           *)
  rendering,    (* answers being prepared, in the order of the requests     *)
  asks,         (* data requests sent to the client                         *)
  toServer, toClient   (* messages in flight, oldest first                  *)

serverVars == <<lists, offered, owner, rendering, asks>>
wireVars   == <<toServer, toClient>>

ServerContent(n, f) == [from |-> "server", list |-> n, format |-> f]
LocalContent(f)     == [from |-> "local", list |-> 0, format |-> f]

Contents == [from : {"server", "local"}, list : Nat, format : Formats]

FormatList(n, F) == [kind |-> "list", list |-> n, formats |-> F]
DataResponse(c)  == [kind |-> "response", content |-> c]
DataRequest(f)   == [kind |-> "request", format |-> f]
ClientList(F)    == [kind |-> "formats", formats |-> F]

\* Messages of the three kinds the client receives and the two it sends.
ToClient == [kind : {"list"}, list : 1..MaxLists, formats : SUBSET Formats]
            \cup [kind : {"response"}, content : Contents \cup {NoData}]
            \cup [kind : {"request"}, format : Formats]
ToServer == [kind : {"request"}, format : Formats]
            \cup [kind : {"formats"}, formats : SUBSET Formats]

ServerTypeOK ==
  /\ lists \in 0..MaxLists
  /\ owner \in {"nobody", "server", "client"}
  /\ offered \subseteq Formats
  /\ rendering \in Seq(Contents \cup {NoData})
  /\ asks \in 0..MaxAsks
  /\ toServer \in Seq(ToServer)
  /\ toClient \in Seq(ToClient)

ServerInit ==
  /\ lists = 0
  /\ offered = {}
  /\ owner = "nobody"
  /\ rendering = <<>>
  /\ asks = 0
  /\ toServer = <<>>
  /\ toClient = <<>>

\* Something is copied on the server.
ServerCopies(F) ==
  /\ lists < MaxLists
  /\ lists' = lists + 1
  /\ offered' = F
  /\ owner' = "server"
  /\ toClient' = Append(toClient, FormatList(lists + 1, F))
  /\ UNCHANGED <<rendering, asks, toServer>>

\* The content for a request is fixed when the server takes it.  It may refuse
\* any request, and refuses what it does not hold.
ServerTakesRequest ==
  /\ toServer # <<>>
  /\ Head(toServer).kind = "request"
  /\ LET f == Head(toServer).format IN
       \/ rendering' = Append(rendering, NoData)
       \/ /\ owner = "server"
          /\ f \in offered
          /\ rendering' = Append(rendering, ServerContent(lists, f))
  /\ toServer' = Tail(toServer)
  /\ UNCHANGED <<lists, offered, owner, asks, toClient>>

\* The client announced a clipboard of its own.
ServerTakesFormats ==
  /\ toServer # <<>>
  /\ Head(toServer).kind = "formats"
  /\ owner' = "client"
  /\ offered' = Head(toServer).formats
  /\ toServer' = Tail(toServer)
  /\ UNCHANGED <<lists, rendering, asks, toClient>>

\* However late, an answer is sent; lists may have been sent since.
ServerAnswers ==
  /\ rendering # <<>>
  /\ toClient' = Append(toClient, DataResponse(Head(rendering)))
  /\ rendering' = Tail(rendering)
  /\ UNCHANGED <<lists, offered, owner, asks, toServer>>

\* An application on the server pastes what the client announced.
ServerAsks(f) ==
  /\ owner = "client"
  /\ f \in offered
  /\ asks < MaxAsks
  /\ asks' = asks + 1
  /\ toClient' = Append(toClient, DataRequest(f))
  /\ UNCHANGED <<lists, offered, owner, rendering, toServer>>

ServerStep ==
  \/ \E F \in SUBSET Formats \ {{}} : ServerCopies(F)
  \/ ServerTakesRequest
  \/ ServerTakesFormats
  \/ ServerAnswers
  \/ \E f \in Formats : ServerAsks(f)
=============================================================================
