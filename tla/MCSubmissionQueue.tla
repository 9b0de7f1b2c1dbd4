------------------------- MODULE MCSubmissionQueue -------------------------
(* Instances of SubmissionQueue for TLC: two servers with one worker each, *)
(* and one server with one worker.                                         *)
EXTENDS SubmissionQueue, TLC

CONSTANTS v1, v2, w1, w2

TwoServers == (w1 :> v1) @@ (w2 :> v2)
OneServer  == w1 :> v1
=============================================================================
