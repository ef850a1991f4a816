------------------------------ MODULE MCConfig ------------------------------
(* Constants for checking Config on small instances.                       *)
EXTENDS Config

CONSTANTS debug, listen, h1, h2, secretsDir, a, b

FiveSettings == {debug, listen, h1, h2, secretsDir}
TwoHeaders == {h1, h2}
SecretsDir == {secretsDir}
TwoValues == {a, b}
Given == [Nothing EXCEPT ![listen] = a, ![secretsDir] = a]

\* A file that sets nothing, two that disagree, one for the other settings.
FourContents ==
    {Nothing,
     [Nothing EXCEPT ![listen] = a, ![h1] = a],
     [Nothing EXCEPT ![listen] = b, ![h1] = b, ![secretsDir] = b],
     [Nothing EXCEPT ![h2] = a, ![debug] = a]}

FourEnvs ==
    {Nothing, [Nothing EXCEPT ![listen] = b], [Nothing EXCEPT ![h2] = b, ![secretsDir] = b],
     [Nothing EXCEPT ![debug] = Off]}
=============================================================================
