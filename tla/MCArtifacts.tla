---------------------------- MODULE MCArtifacts ----------------------------
(* Constants for checking Artifacts on small instances.                    *)
EXTENDS Artifacts, TLC

CONSTANTS w1, w2, r1, long, short

TwoWriters == {w1, w2}
OneReader == {r1}
TwoBodies == {long, short}
TwoAndOne == long :> 2 @@ short :> 1
=============================================================================
