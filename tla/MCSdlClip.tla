------------------------------ MODULE MCSdlClip -------------------------------
(***************************************************************************)
(* Small instances of SdlClip for TLC: the standard format dib backs two   *)
(* MIME types, the named format html backs one.                            *)
(***************************************************************************)
EXTENDS SdlClip, TLC

CONSTANTS dib, html, png, bmp, rich

MCFormatsFor == (png :> <<dib>>) @@ (bmp :> <<dib>>) @@ (rich :> <<html>>)
MCMimesFor   == (dib :> {png, bmp}) @@ (html :> {rich})

\* The images alone, for the runs with copies in both directions.
MCImageFormats == (png :> <<dib>>) @@ (bmp :> <<dib>>)
MCImageMimes   == dib :> {png, bmp}

\* The code's behaviour without the fairness, for the safety runs.
SafetySpec == Init /\ [][Next]_vars
=============================================================================
