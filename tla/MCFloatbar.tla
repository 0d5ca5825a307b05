------------------------------- MODULE MCFloatbar -------------------------------
EXTENDS Floatbar, TLC

MCPartAt(c) == CASE c = 0 -> "pin" [] c = 1 -> "menu" [] c = 2 -> "action" [] OTHER -> "grip"

\* Nothing asks which mouse button it is.
Buttons == Permutations(MouseButtons)
================================================================================
