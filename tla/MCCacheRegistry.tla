-------------------------- MODULE MCCacheRegistry --------------------------
(* Constants for checking CacheRegistry on small instances.                *)
EXTENDS CacheRegistry, TLC

CONSTANTS c1, c2, u1, u2, k1, k2, main

OneClient == {c1}
TwoClients == {c1, c2}
TwoUrls == {u1, u2}
OneKey == {k1}
TwoKeys == {k1, k2}
OneBranch == {main}
NoTags == {}

AllMethods == {"PUT", "POST", "GET", "DELETE", "SYNC", "TARBALL"}
Symmetry == Permutations(TwoClients) \cup Permutations(TwoUrls)

Writers == {"PUT", "POST", "DELETE"}
=============================================================================
