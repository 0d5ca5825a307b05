------------------------- MODULE MCSessionLifecycle -------------------------
(* SessionLifecycle on small instances.                                     *)
EXTENDS SessionLifecycle

BothSorts == {"cert", "auth"}
OnlyForms == {"auth"}
=============================================================================
