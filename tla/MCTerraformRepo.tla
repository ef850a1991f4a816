-------------------------- MODULE MCTerraformRepo --------------------------
(* Constants for checking TerraformRepo on small instances.                *)
EXTENDS TerraformRepo

CONSTANTS tf1, u1, u2, k1, k2, main

TwoUrls == {u1, u2}
TwoKeys == {k1, k2}
OneBranch == {main}
NoTags == {}
Calls == {"PUT", "POST", "GET", "DELETE"}
=============================================================================
