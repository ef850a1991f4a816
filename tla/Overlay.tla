------------------------------- MODULE Overlay -------------------------------
(***************************************************************************)
(* How the program lays one record of settings over another: a field that  *)
(* the upper one sets wins, one it leaves empty shows the lower one.       *)
(* KickoffRequest.merge does so with request bodies, URLs and override     *)
(* files, mergeConfig with configuration files.                            *)
(***************************************************************************)
CONSTANT None    \* the field is empty

Over(upper, lower) ==
    [f \in DOMAIN lower |-> IF upper[f] # None THEN upper[f] ELSE lower[f]]

=============================================================================
