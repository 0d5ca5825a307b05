----------------------------- MODULE TokenService -----------------------------
(***************************************************************************)
(* What the login helper promises to the sessions that ask it for a token: *)
(* requests are served one at a time in the order they arrived, every one  *)
(* of them gets at most one answer, and none is answered before it was     *)
(* asked.  A session asks with RequestToken and blocks until the answer.   *)
(***************************************************************************)
EXTENDS Naturals, Sequences

CONSTANT Requests       (* the RequestToken calls that may be made *)

VARIABLES
  pending,              (* the calls not answered yet, oldest first *)
  answer                (* what each call got so far *)

vars == <<pending, answer>>

Final  == {"code", "error", "lost"}
Answer == {"none", "waiting"} \cup Final

Init ==
  /\ pending = <<>>
  /\ answer = [r \in Requests |-> "none"]

\* A call arrives and waits behind those that came before it.
Ask(r) ==
  /\ answer[r] = "none"
  /\ pending' = Append(pending, r)
  /\ answer' = [answer EXCEPT ![r] = "waiting"]

\* A call the service cannot even start fails at once when it is alone.
Refuse(r) ==
  /\ answer[r] = "none"
  /\ pending = <<>>
  /\ answer' = [answer EXCEPT ![r] = "error"]
  /\ UNCHANGED pending

\* The oldest call gets its answer; the calls right behind it that cannot be
\* started fail in the same step.
Serve(n, a) ==
  /\ n \in 1..Len(pending)
  /\ a \in {"code", "error"}
  /\ answer' = [r \in Requests |->
                  IF r = pending[1] THEN a
                  ELSE IF \E j \in 2..n : r = pending[j] THEN "error"
                  ELSE answer[r]]
  /\ pending' = SubSeq(pending, n + 1, Len(pending))

\* The service stops; the calls it had not answered never are.
Stop ==
  /\ pending' = <<>>
  /\ answer' = [r \in Requests |-> IF answer[r] = "waiting" THEN "lost" ELSE answer[r]]

ServeSome == \E n \in 1..Len(pending), a \in {"code", "error"} : Serve(n, a)

Next ==
  \/ \E r \in Requests : Ask(r) \/ Refuse(r)
  \/ ServeSome
  \/ Stop

\* The oldest call is never left waiting for ever.
Fairness == WF_vars(ServeSome)

Spec == Init /\ [][Next]_vars /\ Fairness
=============================================================================
