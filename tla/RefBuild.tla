------------------------------ MODULE RefBuild ------------------------------
(***************************************************************************)
(* What the build service promises to somebody who watches one repository  *)
(* and one ref from outside, with no workflow, activity or cache in sight: *)
(* builds of the ref are serial, and unless one is disturbed, the commit   *)
(* it was started for or a newer one is published when it is done, and     *)
(* what is published does not go back.                                     *)
(*                                                                         *)
(* Commits are numbered in the order they reach the ref; 0 is "nothing".   *)
(***************************************************************************)
EXTENDS Integers

CONSTANT MaxPush    \* bound on the number of pushes

VARIABLES
    head,       \* the newest commit on the upstream ref
    busy,       \* a build of the ref is under way
    done,       \* the last build has succeeded
    want,       \* the commit whose kickoff started the current or last build
    published,  \* the commit whose artifacts are the published ones
    disturbed   \* something has gone wrong since that build was started

vars == <<head, busy, done, want, published, disturbed>>

Init ==
    /\ head = 0 /\ want = 0 /\ published = 0
    /\ busy = FALSE /\ done = FALSE /\ disturbed = FALSE

Push ==
    /\ head < MaxPush
    /\ head' = head + 1
    /\ UNCHANGED <<busy, done, want, published, disturbed>>

\* A build may only start when none is under way.
Start ==
    /\ ~busy
    /\ busy' = TRUE /\ done' = FALSE /\ disturbed' = FALSE
    /\ want' \in 1 .. head
    /\ UNCHANGED <<head, published>>

\* The build, or what is left of an earlier one, publishes a commit.
Publish ==
    /\ published' \in 1 .. head
    /\ disturbed' \in {disturbed, TRUE}
    /\ published' >= published \/ disturbed'
    /\ UNCHANGED <<head, busy, done, want>>

\* Something goes wrong.
Disturb ==
    /\ disturbed' = TRUE
    /\ UNCHANGED <<head, busy, done, want, published>>

\* Success means that the commit is out.
Finish ==
    /\ busy /\ busy' = FALSE
    /\ done' \in BOOLEAN
    /\ done' => published >= want \/ disturbed
    /\ UNCHANGED <<head, want, published, disturbed>>

Next == Push \/ Start \/ Publish \/ Disturb \/ Finish

Spec == Init /\ [][Next]_vars
=============================================================================
