---------------------------- MODULE TerraformRepo ----------------------------
(***************************************************************************)
(* The Terraform provider's lrcicd_repo resource (terraform-provider/) and *)
(* the cache server it talks to, which is CacheRegistry with the provider  *)
(* as its only caller.  The provider's functions are the steps between its *)
(* calls: each waits for an answer, then goes on or gives up.  What        *)
(* Terraform itself does (refresh, plan, keeping the state, marking a      *)
(* resource tainted) is external and modelled by what the provider's       *)
(* functions are called with.                                              *)
(***************************************************************************)
EXTENDS Integers

CONSTANTS
    Urls, Keys, Refs, Tags, Methods, None, MaxFaults,  \* of CacheRegistry
    Provider,    \* the client that is the provider
    Absent,      \* no such resource
    MayForget    \* may the operator drop the resource from Terraform's state?

Settings == [url : Urls, key : Keys]
States   == [url : Urls \cup {None}, key : Keys \cup {None}, pub : Keys \cup {None}, tainted : BOOLEAN]

ASSUME TerraformAssumption ==
    /\ Methods = {"PUT", "POST", "GET", "DELETE"}
    /\ Tags \subseteq Refs
    /\ {} \notin {Urls, Keys, Refs}
    /\ None \notin Urls \cup Keys
    /\ MaxFaults \in Nat
    /\ Absent \notin Settings \cup States
    /\ MayForget \in BOOLEAN

VARIABLES
    parts, cfg, tracked, keyFile, pc, req, held, todo, reply, faults, acked, spoiled,
    want,      \* the resource in the operator's configuration, or Absent
    state,     \* the resource in Terraform's state, or Absent
    step,      \* what Terraform and the provider are doing
    result,    \* how the latest apply or import ended; "none" since an edit
    adopted    \* history: the latest change to the server was a PUT that
               \* found a registration and changed nothing

server == <<parts, cfg, tracked, keyFile, pc, req, held, todo, reply, faults, acked, spoiled>>
tf     == <<want, state, step, result, adopted>>
vars   == <<parts, cfg, tracked, keyFile, pc, req, held, todo, reply, faults, acked, spoiled,
            want, state, step, result, adopted>>

Server == INSTANCE CacheRegistry WITH Clients <- {Provider}

TypeOK ==
    /\ Server!TypeOK
    /\ want \in Settings \cup {Absent}
    /\ state \in States \cup {Absent}
    /\ step \in {"idle", "plan", "read", "import", "create", "createRead",
                 "update", "updateRead", "delete"}
    /\ result \in {"none", "applied", "noChange", "destroyed", "imported", "error"}
    /\ adopted \in BOOLEAN

Init ==
    /\ Server!Init
    /\ want = Absent
    /\ state = Absent
    /\ step = "idle"
    /\ result = "none"
    /\ adopted = FALSE

-----------------------------------------------------------------------------
(* Calls and answers.                                                      *)

AnyOf(S) == CHOOSE x \in S : TRUE

\* client.do: a GET or DELETE has no body.
Bare(method) ==
    [method |-> method, url |-> AnyOf(Urls), key |-> AnyOf(Keys), ref |-> AnyOf(Refs)]

WithBody(method) ==
    [method |-> method, url |-> want.url, key |-> want.key, ref |-> AnyOf(Refs)]

Call(request, next) ==
    /\ Server!Request(Provider, request)
    /\ step' = next

\* The handler has answered, or the server went down under the call.
Answered(s) == step = s /\ Server!At(Provider, "idle")

Code   == reply[Provider].code
Failed == Code \in {"none", "500"}
Found  == Code = "state"

End(how) ==
    /\ step' = "idle"
    /\ result' = how
    /\ UNCHANGED server

\* The state that Create and Update set from the plan, with public key pub.
FromPlan(pub, tainted) ==
    [url |-> want.url, key |-> want.key, pub |-> pub, tainted |-> tainted]

-----------------------------------------------------------------------------
(* The operator and Terraform.                                             *)

Edit(w) ==
    /\ step = "idle"
    /\ want # w
    /\ want' = w
    /\ result' = "none"
    /\ UNCHANGED <<server, state, step, adopted>>

\* terraform state rm, or a state file that was lost.
Forget ==
    /\ MayForget
    /\ step = "idle"
    /\ state # Absent
    /\ state' = Absent
    /\ result' = "none"
    /\ UNCHANGED <<server, want, step, adopted>>

\* terraform apply reads what is in the state before it plans.
Refresh ==
    /\ step = "idle"
    /\ \/ state # Absent /\ Call(Bare("GET"), "read")
       \/ state = Absent /\ step' = "plan" /\ UNCHANGED server
    /\ result' = "none"
    /\ UNCHANGED <<want, state, adopted>>

\* The public key is computed: that it changed is no reason to do anything.
InState == state # Absent /\ want # Absent /\ state.url = want.url /\ state.key = want.key

PlanNothing ==
    /\ step = "plan"
    /\ (want = Absent /\ state = Absent) \/ (InState /\ ~state.tainted)
    /\ End("noChange")
    /\ UNCHANGED <<want, state, adopted>>

PlanCreate ==
    /\ step = "plan"
    /\ state = Absent /\ want # Absent
    /\ Call(WithBody("PUT"), "create")
    /\ UNCHANGED <<want, state, result, adopted>>

PlanUpdate ==
    /\ step = "plan"
    /\ state # Absent /\ want # Absent
    /\ ~state.tainted /\ ~InState
    /\ Call(WithBody("POST"), "update")
    /\ UNCHANGED <<want, state, result, adopted>>

\* A resource that is tainted is deleted and created anew.
PlanDelete ==
    /\ step = "plan"
    /\ state # Absent
    /\ want = Absent \/ state.tainted
    /\ Call(Bare("DELETE"), "delete")
    /\ UNCHANGED <<want, state, result, adopted>>

-----------------------------------------------------------------------------
(* The provider: repoResource and Client.                                  *)

\* ImportState knows the name only; Terraform then calls Read.
ImportState ==
    /\ step = "idle"
    /\ state = Absent
    /\ Call(Bare("GET"), "import")
    /\ result' = "none"
    /\ UNCHANGED <<want, state, adopted>>

ImportEnds ==
    /\ Answered("import")
    /\ IF Found
       THEN /\ End("imported")
            /\ state' = [url |-> reply[Provider].url, key |-> None,
                         pub |-> reply[Provider].pub, tainted |-> FALSE]
       ELSE End("error") /\ UNCHANGED state
    /\ UNCHANGED <<want, adopted>>

\* Mutant: the URL in the state is kept, like the private key.
ReadKeepingUrl ==
    /\ Answered("read")
    /\ \/ /\ Found
          /\ state' = [state EXCEPT !.pub = reply[Provider].pub]
          /\ step' = "plan" /\ UNCHANGED <<server, result>>
       \/ /\ Code = "404"
          /\ state' = Absent
          /\ step' = "plan" /\ UNCHANGED <<server, result>>
       \/ Failed /\ End("error") /\ UNCHANGED state
    /\ UNCHANGED <<want, adopted>>

\* Mutant: the answer is stored as it is.
ReadStoringAnswer ==
    /\ Answered("read")
    /\ \/ Found /\ state' = reply[Provider] /\ step' = "plan" /\ UNCHANGED <<server, result>>
       \/ /\ Code = "404"
          /\ state' = Absent
          /\ step' = "plan" /\ UNCHANGED <<server, result>>
       \/ Failed /\ End("error") /\ UNCHANGED state
    /\ UNCHANGED <<want, adopted>>

\* Read takes the URL and the public key from the server and keeps the
\* private key; without a registration the resource leaves the state.
Read ==
    /\ Answered("read")
    /\ \/ /\ Found
          /\ state' = [state EXCEPT !.url = reply[Provider].url,
                                    !.pub = reply[Provider].pub]
          /\ step' = "plan" /\ UNCHANGED <<server, result>>
       \/ /\ Code = "404"
          /\ state' = Absent
          /\ step' = "plan" /\ UNCHANGED <<server, result>>
       \/ Failed /\ End("error") /\ UNCHANGED state
    /\ UNCHANGED <<want, adopted>>

\* Mutant: a PUT that failed is sent again.
CreateRetries ==
    /\ Answered("create")
    /\ IF Failed THEN Call(WithBody("PUT"), "create") ELSE Call(Bare("GET"), "createRead")
    /\ adopted' = (Code = "already")
    /\ UNCHANGED <<want, state, result>>

\* Mutant: the new resource is read whatever the PUT was answered.
CreateReadsAnyway ==
    /\ Answered("create")
    /\ Call(Bare("GET"), "createRead")
    /\ adopted' = (Code = "already")
    /\ UNCHANGED <<want, state, result>>

\* "repo registered" and "repo already registered" are both 200.
Create ==
    /\ Answered("create")
    /\ \/ Failed /\ End("error")
       \/ ~Failed /\ Call(Bare("GET"), "createRead") /\ UNCHANGED result
    /\ adopted' = (Code = "already")
    /\ UNCHANGED <<want, state>>

\* Without a public key to set, the new state holds an unknown value:
\* Terraform reports it and marks the new resource tainted.
CreateEnds ==
    /\ Answered("createRead")
    /\ \/ /\ Found
          /\ state' = FromPlan(reply[Provider].pub, FALSE)
          /\ End("applied")
       \/ ~Found /\ state' = FromPlan(None, TRUE) /\ End("error")
    /\ UNCHANGED <<want, adopted>>

\* On an error the state stays as it was.
Update ==
    /\ Answered("update")
    /\ \/ Failed /\ End("error") /\ UNCHANGED adopted
       \/ ~Failed /\ Call(Bare("GET"), "updateRead") /\ adopted' = FALSE /\ UNCHANGED result
    /\ UNCHANGED <<want, state>>

\* Mutant: the state is not set from the plan, only from what was read.
UpdateEndsFromRead ==
    /\ Answered("updateRead")
    /\ \/ /\ Found
          /\ state' = [state EXCEPT !.url = reply[Provider].url,
                                    !.pub = reply[Provider].pub]
          /\ End("applied")
       \/ ~Found /\ UNCHANGED state /\ End("error")
    /\ UNCHANGED <<want, adopted>>

UpdateEnds ==
    /\ Answered("updateRead")
    /\ \/ /\ Found
          /\ state' = FromPlan(reply[Provider].pub, FALSE)
          /\ End("applied")
       \/ ~Found /\ state' = FromPlan(None, FALSE) /\ End("error")
    /\ UNCHANGED <<want, adopted>>

\* The resource leaves the state; one that is to be replaced is created next.
Delete ==
    /\ Answered("delete")
    /\ \/ Failed /\ End("error") /\ UNCHANGED <<state, adopted>>
       \/ /\ ~Failed
          /\ state' = Absent
          /\ adopted' = FALSE
          /\ IF want = Absent THEN End("destroyed")
             ELSE step' = "plan" /\ UNCHANGED <<server, result>>
    /\ UNCHANGED want

-----------------------------------------------------------------------------
Operator ==
    \/ \E w \in Settings \cup {Absent} : Edit(w)
    \/ Forget \/ Refresh \/ ImportState

Applying ==
    \/ PlanNothing \/ PlanCreate \/ PlanUpdate \/ PlanDelete
    \/ ImportEnds \/ Read
    \/ Create \/ CreateEnds
    \/ Update \/ UpdateEnds
    \/ Delete

Next ==
    \/ Operator
    \/ Applying
    \/ (Server!Handle(Provider) \/ Server!Crash) /\ UNCHANGED tf

Spec == Init /\ [][Next]_vars

\* Terraform and the provider go on once an answer is there, and the handler
\* of the provider's call goes on to its answer.
FairSpec ==
    /\ Spec
    /\ WF_vars(Applying)
    /\ WF_vars(Server!Handle(Provider) /\ UNCHANGED tf)

-----------------------------------------------------------------------------
\* Without faults, and unless a PUT fell on a registration it did not make,
\* an apply that ends well leaves the server with the settings, a refspec to
\* sync by, and the state with the public key of the configured private key,
\* through any sequence of edits, applies, imports and lost states; a destroy
\* leaves nothing.
AppliedIsRegistered ==
    step = "idle" /\ faults = 0 /\ ~adopted =>
        /\ result \in {"applied", "noChange"} /\ want # Absent =>
             /\ Server!IsRepository
             /\ Server!Configured(want.url, want.key) /\ cfg.fetch
             /\ state.pub = want.key
        /\ result = "destroyed" => Server!NothingLeft

\* Whatever faults came before, on the server or under the provider's own
\* calls: an apply that created or updated the resource and ended well left
\* exactly the configured settings in force, over anything that an earlier
\* call left behind; and after a destroy there is no repository to serve.
\* Settings are the origin and the key: the refspec that a PUT cut short did
\* not write stays missing, for no POST writes one.
AppliedIsInForce ==
    step = "idle" =>
        /\ result = "applied" /\ ~adopted /\ want # Absent =>
             /\ Server!IsRepository
             /\ Server!Configured(want.url, want.key)
             /\ state.pub = want.key
        /\ result = "destroyed" => ~Server!isBareRepository

\* Whatever faults came before and whatever was adopted: when an apply says
\* that there is nothing to change, the origin is the configured one.
NoChangeMeansOrigin ==
    step = "idle" /\ result = "noChange" /\ want # Absent =>
        cfg.url = want.url

\* Every apply and every import ends, with an error if it must.
ApplyEnds == step # "idle" ~> step = "idle"

\* resource_repo.go: the public key is the one derived from the configured
\* private key.
PublicKeyIsConfigured ==
    step = "idle" /\ result \in {"applied", "noChange"} /\ state # Absent
        => state.pub = want.key

=============================================================================
