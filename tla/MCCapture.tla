------------------------------ MODULE MCCapture ------------------------------
(* Two messages that share a hash (the same file is an attachment of both, *)
(* and the body of one), delivered to two concurrent calls.                *)
EXTENDS Capture, TLC

CONSTANTS m1, m2, body1, body2, file

MCHeadOf == (m1 :> <<body1>>) @@ (m2 :> <<body2, file>>)
MCAttachmentsOf == (m1 :> <<file, body1>>) @@ (m2 :> <<file>>)
==============================================================================
