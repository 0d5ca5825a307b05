----------------------------- MODULE MCAuthServe ------------------------------
(***************************************************************************)
(* Small instances of AuthServe for TLC.                                   *)
(***************************************************************************)
EXTENDS AuthServe

\* The code's behaviour without the fairness, for the safety runs.
SafetySpec == Init /\ [][Next]_vars
=============================================================================
