--------------------------- MODULE MCKeyboardCapture ---------------------------
EXTENDS KeyboardCapture

CONSTANTS shift, g, f, u

MCHotkeyOf(k) == IF k = g THEN "grab" ELSE IF k = f THEN "fullscreen" ELSE "none"
================================================================================
