---------------------------- MODULE Registration ----------------------------
(***************************************************************************)
(* What the cache server promises to one caller who works on one           *)
(* repository, with no directory, git process or key file in sight: one    *)
(* registration.  A call that is acknowledged changes it as a whole, also  *)
(* if earlier calls failed, or the server went down under them, and left   *)
(* anything at all; a call that reads never reports one half changed.      *)
(***************************************************************************)
CONSTANTS
    Clients,     \* the caller
    Urls, Keys,  \* origin URLs and SSH private keys
    Requests,    \* what may be asked: method, url, key
    None         \* "not set"

VARIABLES
    reg,     \* the registration; "changing" while a call is at work on it
    busy,    \* clients whose request is not answered yet
    req,     \* per client: the request
    reply    \* per client: the latest answer

vars == <<reg, busy, req, reply>>

Reg(is, url, key) == [is |-> is, url |-> url, key |-> key]
Nothing  == Reg("nothing", None, None)
Changing == Reg("changing", None, None)
Broken   == Reg("broken", None, None)    \* neither a registration nor nothing
Settled  == {Nothing, Broken} \cup [is : {"whole"}, url : Urls, key : Keys]

NoReply == [code |-> "none", url |-> None, pub |-> None]

Init ==
    /\ reg = Nothing
    /\ busy = {}
    /\ req \in [Clients -> Requests]
    /\ reply = [c \in Clients |-> NoReply]

Ask(c) ==
    /\ c \notin busy
    /\ \E r \in Requests : req' = [req EXCEPT ![c] = r]
    /\ busy' = busy \cup {c}
    /\ UNCHANGED <<reg, reply>>

Asked(c, method) == c \in busy /\ req[c].method = method

\* A PUT never touches a whole registration; a POST and a DELETE need one, or
\* what is left of one.
Begin(c) ==
    /\ \/ Asked(c, "PUT") /\ reg \in {Nothing, Broken}
       \/ (Asked(c, "POST") \/ Asked(c, "DELETE")) /\ reg \in Settled \ {Nothing}
    /\ reg' = Changing
    /\ UNCHANGED <<busy, req, reply>>

Answer(c, code, url, pub) ==
    /\ busy' = busy \ {c}
    /\ reply' = [reply EXCEPT ![c] = [code |-> code, url |-> url, pub |-> pub]]
    /\ UNCHANGED req

Says(c, code) == Answer(c, code, None, None)

\* Whatever the registration was before, what is acknowledged is in force.
Acknowledge(c) ==
    /\ reg = Changing
    /\ \/ Asked(c, "PUT")  /\ Says(c, "registered") /\ reg' = Reg("whole", req[c].url, req[c].key)
       \/ Asked(c, "POST") /\ Says(c, "adjusted") /\ reg' = Reg("whole", req[c].url, req[c].key)
       \/ Asked(c, "DELETE") /\ Says(c, "gone") /\ reg' = Nothing

\* Answers that change nothing.  A GET of a whole registration reports it.
Tell(c) ==
    /\ \/ Asked(c, "PUT") /\ reg \in Settled \ {Nothing} /\ Says(c, "already")
       \/ Asked(c, "DELETE") /\ reg \in {Nothing, Broken} /\ Says(c, "gone")
       \/ Asked(c, "GET") /\ reg \in {Nothing, Broken} /\ Says(c, "404")
       \/ Asked(c, "GET") /\ reg.is = "whole" /\ Answer(c, "state", reg.url, reg.key)
       \/ /\ Asked(c, "GET") /\ reg = Broken
          /\ \E u \in Urls, k \in Keys \cup {None} : Answer(c, "state", u, k)
       \/ Asked(c, "SYNC") /\ reg \in Settled \ {Nothing} /\ Says(c, "ok")
       \/ /\ Asked(c, "TARBALL") /\ reg \in Settled
          /\ \E u \in Urls \cup {None} : Answer(c, "tarball", u, None) /\ (reg = Nothing => u = None)
    /\ UNCHANGED reg

\* What an interrupted change leaves is settled again, but may be anything.
LeavesOff == IF reg = Changing THEN reg' \in Settled ELSE UNCHANGED reg

\* A GET of nothing, or of a whole registration, does not fail.
Refuse(c) ==
    /\ c \in busy
    /\ Asked(c, "GET") => reg = Broken
    /\ ~Asked(c, "TARBALL")
    /\ Says(c, "500")
    /\ LeavesOff

Crash ==
    /\ busy' = {}
    /\ reply' = [c \in Clients |-> NoReply]
    /\ UNCHANGED req
    /\ LeavesOff

Next ==
    \/ \E c \in Clients : Ask(c) \/ Begin(c) \/ Acknowledge(c) \/ Tell(c) \/ Refuse(c)
    \/ Crash

Spec == Init /\ [][Next]_vars
=============================================================================
