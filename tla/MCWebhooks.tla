----------------------------- MODULE MCWebhooks -----------------------------
(* Constants for checking Webhooks on small instances.                     *)
EXTENDS Webhooks

CONSTANTS r1, r2, main, make, k1, h1, f1, f2, f3

OneHandler == {h1}
Forges == {"gitlab", "bitbucket"}
TwoRepos == {r1, r2}
OneName == {main}
TwoPatterns == {"GenericVaelCiCdStart", make}
OneKey == {k1}

\* One for every provider and repository; hooks have it, or none.
Lists == {<<[provider |-> None, key |-> k1, repos |-> TwoRepos]>>}

Renames  == [repo |-> r2, ref |-> None, pattern |-> None]
Patterned == [repo |-> None, ref |-> main, pattern |-> make]

\* r2 is r1 and main with a dot between, so f2 is the file of both; requests
\* without a repository or a ref share f3 with r2 and main.
ThreeFiles == {f1, f2, f3}
ByRepo == [r \in TwoRepos \cup {None} |-> IF r = r1 THEN f1 ELSE IF r = r2 THEN f2 ELSE f3]
ByRef  == [p \in (TwoRepos \cup {None}) \X {main, None} |-> IF p = <<r1, main>> THEN f2 ELSE f3]

\* r1 is renamed to r2, which has a pattern of its own.
Chain == {[f \in ThreeFiles |->
             IF f = f1 THEN Renames ELSE IF f = f3 THEN Patterned ELSE NoKick]}
TwoPatches == {Renames, Patterned}

\* The body names another repository than the URL, and the ref.
OneCall == {<<[NoKick EXCEPT !.repo = r2, !.ref = main], [NoKick EXCEPT !.repo = r1]>>}
=============================================================================
