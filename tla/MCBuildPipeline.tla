-------------------------- MODULE MCBuildPipeline --------------------------
(* Constants for checking BuildPipeline on small instances.                *)
EXTENDS BuildPipeline

\* Every commit asks for MakeBuildUpload.
AllMake == [c \in Commits |-> Make]

\* The first commit names GenericVaelCiCdStart, so a child starts a child.
Nested == [c \in Commits |-> IF c = 1 THEN Generic ELSE Make]

AnyPattern  == {Generic, Make, Unknown}
Registered  == {Generic, Make}
OnlyGeneric == {Generic}
=============================================================================
