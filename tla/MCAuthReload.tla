---------------------------- MODULE MCAuthReload ----------------------------
(* Constants for checking AuthReload on a small instance.                  *)
EXTENDS AuthReload

CONSTANTS t1, r1, r2, s1, q1, q2

OneToken == {t1}
TwoRules == {r1, r2}
TwoRequests == {q1, q2}
\* r1 allows one request, r2 both.
NarrowAndWide == {<<r1, q1>>, <<r2, q1>>, <<r2, q2>>}
OneSecret == {s1}
=============================================================================
