-------------------------- MODULE SessionContract ---------------------------
(***************************************************************************)
(* What coffee-rdp-session promises of one connection, without threads,    *)
(* events or dialogs: the phases of the session and the two resources that *)
(* the drawing code takes for granted, the windows and the frame buffer.   *)
(***************************************************************************)
VARIABLES
  phase,      \* "starting", "established", "closing" or "closed"
  resources   \* those that exist, among "windows" and "gdi"

vars == <<phase, resources>>

Resource == {"windows", "gdi"}

TypeOK ==
  /\ phase \in {"starting", "established", "closing", "closed"}
  /\ resources \subseteq Resource

Init == phase = "starting" /\ resources = {}

\* Until a session is established, and even while it closes, resources are created.
Acquire ==
  /\ phase \in {"starting", "closing"}
  /\ \E more \in SUBSET Resource : resources' = resources \cup more
  /\ UNCHANGED phase

\* A session is established with windows to draw on and a buffer to draw from.
Establish ==
  /\ phase = "starting" /\ "windows" \in resources
  /\ phase' = "established" /\ resources' = Resource

Close ==
  /\ phase \in {"starting", "established"}
  /\ phase' = "closing" /\ resources \subseteq resources'

Release ==
  /\ phase = "closing"
  /\ resources' = resources \ {"gdi"}
  /\ UNCHANGED phase

\* The frame buffer goes first, the windows with the process.
End ==
  /\ phase = "closing" /\ "gdi" \notin resources
  /\ phase' = "closed" /\ resources' \subseteq resources

Next == Acquire \/ Establish \/ Close \/ Release \/ End

Closes == phase = "closing" ~> phase = "closed"

Safe == Init /\ [][Next]_vars
Spec == Safe /\ Closes
=============================================================================
