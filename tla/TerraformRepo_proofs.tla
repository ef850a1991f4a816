------------------------ MODULE TerraformRepo_proofs ------------------------
(* Proofs about TerraformRepo.  What is proved of the registration holds   *)
(* here too, for the provider is one of its callers and its only one.      *)
EXTENDS TerraformRepo, TLAPS

Cache == INSTANCE Registration_proofs WITH Clients <- {Provider}

\* Server and Cache are the same specification under two names.
LEMMA SameModule ==
    /\ Server!Init <=> Cache!Init
    /\ Server!TypeOK <=> Cache!TypeOK
    /\ Server!vars = Cache!vars
    /\ Server!LastAckWins <=> Cache!LastAckWins
    /\ Server!ReadIsLastAcked <=> Cache!ReadIsLastAcked
  BY DEF Server!Init, Cache!Init, Server!TypeOK, Cache!TypeOK, Server!vars, Cache!vars,
         Server!NoConfig, Cache!NoConfig, Server!NoReply, Cache!NoReply, Server!Requests,
         Cache!Requests, Server!Configs, Cache!Configs, Server!Steps, Cache!Steps,
         Server!Replies, Cache!Replies, Server!LastAckWins, Cache!LastAckWins, Server!Quiet,
         Cache!Quiet, Server!At, Cache!At, Server!ConfigSteps, Cache!ConfigSteps,
         Server!Configured, Cache!Configured, Server!IsRepository, Cache!IsRepository,
         Server!ReadIsLastAcked, Cache!ReadIsLastAcked

LEMMA Assumptions ==
    /\ Tags \subseteq Refs
    /\ Methods \subseteq {"PUT", "POST", "GET", "DELETE", "SYNC", "TARBALL"}
    /\ {} \notin {Methods, Urls, Keys, Refs}
    /\ None \notin Urls \cup Keys
    /\ MaxFaults \in Nat
  BY TerraformAssumption

LEMMA SameHandler == Server!Handle(Provider) <=> Cache!Handle(Provider)
  <1> USE DEF Server!At, Cache!At, Server!Goto, Cache!Goto, Server!Answer, Cache!Answer,
              Server!Reply, Cache!Reply, Server!Looks, Cache!Looks, Server!Writes, Cache!Writes,
              Server!repo, Cache!repo, Server!memory, Cache!memory, Server!HalfDone,
              Cache!HalfDone, Server!ConfigSteps, Cache!ConfigSteps, Server!NoConfig,
              Cache!NoConfig, Server!Entries, Cache!Entries, Server!NothingLeft,
              Cache!NothingLeft, Server!IsRepository, Cache!IsRepository,
              Server!isBareRepository, Cache!isBareRepository
  <1>1. /\ Server!StatKey(Provider) <=> Cache!StatKey(Provider)
        /\ Server!CreateKey(Provider) <=> Cache!CreateKey(Provider)
        /\ Server!WriteKey(Provider) <=> Cache!WriteKey(Provider)
        /\ Server!DeriveKey(Provider) <=> Cache!DeriveKey(Provider)
        /\ Server!CheckNew(Provider) <=> Cache!CheckNew(Provider)
        /\ Server!GitInit(Provider) <=> Cache!GitInit(Provider)
        /\ Server!AddRemote(Provider) <=> Cache!AddRemote(Provider)
        /\ Server!AddFetch(Provider) <=> Cache!AddFetch(Provider)
    BY DEF Server!StatKey, Cache!StatKey, Server!StoreKey, Cache!StoreKey, Server!CreateKey,
           Cache!CreateKey, Server!WriteKey, Cache!WriteKey, Server!DeriveKey, Cache!DeriveKey,
           Server!CheckNew, Cache!CheckNew, Server!GitInit, Cache!GitInit, Server!AddRemote,
           Cache!AddRemote, Server!NoRemote, Cache!NoRemote, Server!AddFetch, Cache!AddFetch
  <1>2. /\ Server!CompareUrl(Provider) <=> Cache!CompareUrl(Provider)
        /\ Server!SetUrl(Provider) <=> Cache!SetUrl(Provider)
        /\ Server!SetSsh(Provider) <=> Cache!SetSsh(Provider)
        /\ Server!SetPath(Provider) <=> Cache!SetPath(Provider)
        /\ Server!SetPub(Provider) <=> Cache!SetPub(Provider)
        /\ Server!ConfigSetFails(Provider) <=> Cache!ConfigSetFails(Provider)
    BY DEF Server!CompareUrl, Cache!CompareUrl, Server!SetUrl, Cache!SetUrl, Server!SetSsh,
           Cache!SetSsh, Server!SetPath, Cache!SetPath, Server!SetPub, Cache!SetPub,
           Server!ConfigSetFails, Cache!ConfigSetFails
  <1>3. /\ Server!CheckRead(Provider) <=> Cache!CheckRead(Provider)
        /\ Server!ReadUrl(Provider) <=> Cache!ReadUrl(Provider)
        /\ Server!ReadPub(Provider) <=> Cache!ReadPub(Provider)
        /\ Server!CheckDelete(Provider) <=> Cache!CheckDelete(Provider)
        /\ Server!ListEntries(Provider) <=> Cache!ListEntries(Provider)
        /\ Server!RemoveHead(Provider) <=> Cache!RemoveHead(Provider)
        /\ Server!RemoveRefs(Provider) <=> Cache!RemoveRefs(Provider)
        /\ Server!RemoveConfig(Provider) <=> Cache!RemoveConfig(Provider)
        /\ Server!Removed(Provider) <=> Cache!Removed(Provider)
    BY DEF Server!CheckRead, Cache!CheckRead, Server!ReadUrl, Cache!ReadUrl, Server!ReadPub,
           Cache!ReadPub, Server!CheckDelete, Cache!CheckDelete, Server!Gone, Cache!Gone,
           Server!Unlinks, Cache!Unlinks, Server!RemoveHead, Cache!RemoveHead,
           Server!RemoveRefs, Cache!RemoveRefs, Server!RemoveConfig, Cache!RemoveConfig,
           Server!ListEntries, Cache!ListEntries, Server!Removed, Cache!Removed
  <1>4. /\ Server!FetchStarts(Provider) <=> Cache!FetchStarts(Provider)
        /\ Server!FetchFails(Provider) <=> Cache!FetchFails(Provider)
        /\ Server!FetchEnds(Provider) <=> Cache!FetchEnds(Provider)
        /\ Server!GetTarball(Provider) <=> Cache!GetTarball(Provider)
        /\ Server!StepFails(Provider) <=> Cache!StepFails(Provider)
    BY DEF Server!FetchStarts, Cache!FetchStarts, Server!FetchFails, Cache!FetchFails,
           Server!FetchEnds, Cache!FetchEnds, Server!GetTarball, Cache!GetTarball,
           Server!StepFails, Cache!StepFails, Server!Moves, Cache!Moves, Server!Locked,
           Cache!Locked, Server!HalfInit, Cache!HalfInit
  <1> QED BY <1>1, <1>2, <1>3, <1>4 DEF Server!Handle, Cache!Handle

LEMMA SameNext == Server!Next <=> Cache!Next
  <1>1. Server!Crash <=> Cache!Crash
    BY DEF Server!Crash, Cache!Crash, Server!NoReply, Cache!NoReply, Server!repo, Cache!repo,
           Server!HalfInit, Cache!HalfInit, Server!HalfDone, Cache!HalfDone, Server!At, Cache!At
  <1>2. \A r : Server!Request(Provider, r) <=> Cache!Request(Provider, r)
    BY DEF Server!Request, Cache!Request, Server!At, Cache!At, Server!Goto, Cache!Goto,
           Server!FirstStep, Cache!FirstStep, Server!repo, Cache!repo, Server!memory,
           Cache!memory
  <1>3. Server!Requests = Cache!Requests
    BY DEF Server!Requests, Cache!Requests
  <1> QED BY <1>1, <1>2, <1>3, SameHandler DEF Server!Next, Cache!Next

\* What the registration keeps with one caller, it keeps here.
LEMMA ServerKeeps ==
    Server!Spec => []Server!TypeOK /\ []Server!LastAckWins /\ []Server!ReadIsLastAcked
                     /\ []Cache!DiskInv /\ []Cache!CleanInv
  <1>1. Cache!OneCaller /\ Cache!OneWriter
    BY DEF Cache!OneCaller, Cache!OneWriter
  <1>2. Cache!Spec => []Cache!TypeOK
    BY Assumptions, Cache!TypeCorrect
  <1>3. Cache!Spec => []Cache!LastAckWins
    BY <1>1, Assumptions, Cache!LastAckWinsCorrect, PTL
  <1>4. Cache!Spec => []Cache!ReadIsLastAcked
    BY <1>1, Assumptions, Cache!ReadIsLastAckedCorrect
  <1>6. Cache!Spec => []Cache!DiskInv /\ []Cache!CleanInv
    BY <1>1, Assumptions, Cache!DiskHolds, Cache!CleanHolds, PTL
  <1>5. /\ Server!Init <=> Cache!Init
        /\ [Server!Next]_(Server!vars) <=> [Cache!Next]_(Cache!vars)
        /\ Server!TypeOK <=> Cache!TypeOK
        /\ Server!LastAckWins <=> Cache!LastAckWins
        /\ Server!ReadIsLastAcked <=> Cache!ReadIsLastAcked
    <2>1. UNCHANGED Server!vars <=> UNCHANGED Cache!vars
      BY DEF Server!vars, Cache!vars
    <2> QED BY <2>1, SameModule, SameNext
  <1> QED BY <1>2, <1>3, <1>4, <1>5, <1>6, PTL DEF Server!Spec, Cache!Spec

-----------------------------------------------------------------------------
LEMMA BareType == \A method \in Methods : Bare(method) \in Server!Requests
  <1>1. AnyOf(Urls) \in Urls /\ AnyOf(Keys) \in Keys /\ AnyOf(Refs) \in Refs
    BY TerraformAssumption DEF AnyOf
  <1> QED BY <1>1 DEF Bare, Server!Requests

LEMMA WithBodyType ==
    ASSUME want \in Settings
    PROVE  \A method \in Methods : WithBody(method) \in Server!Requests
  <1>1. AnyOf(Refs) \in Refs
    BY TerraformAssumption DEF AnyOf
  <1> QED BY <1>1 DEF WithBody, Server!Requests, Settings

Wanted == want \in Settings \cup {Absent}

\* The steps that wait for an answer about a resource have one.
Asking ==
    /\ Wanted
    /\ step \in {"create", "createRead", "update", "updateRead"} => want \in Settings
    /\ step = "read" => state # Absent

LEMMA ServerStep == Asking /\ [Next]_vars => Asking' /\ [Server!Next]_(Server!vars)
  <1> SUFFICES ASSUME Asking, [Next]_vars PROVE Asking' /\ [Server!Next]_(Server!vars)
    OBVIOUS
  <1>1. ASSUME UNCHANGED server PROVE UNCHANGED Server!vars
    BY <1>1 DEF server, Server!vars
  <1>2. ASSUME NEW r \in Server!Requests, NEW next, Call(r, next) PROVE Server!Next
    BY <1>2 DEF Call, Server!Next
  <1>3. CASE UNCHANGED vars
    BY <1>1, <1>3 DEF vars, server, Asking, Wanted
  <1>4. ASSUME NEW w \in Settings \cup {Absent}, Edit(w) PROVE Asking' /\ UNCHANGED server
    BY <1>4 DEF Edit, Asking, Wanted
  <1>5. CASE Forget \/ PlanNothing
    BY <1>1, <1>5 DEF Forget, PlanNothing, End, Asking, Wanted
  <1>6. CASE Refresh \/ ImportState \/ PlanDelete
    <2>1. Asking' /\ (UNCHANGED server \/ Call(Bare("GET"), step') \/ Call(Bare("DELETE"), step'))
      BY <1>6 DEF Refresh, ImportState, PlanDelete, Call, Asking, Wanted
    <2> QED BY <1>1, <1>2, <2>1, BareType, TerraformAssumption
  <1>7. CASE PlanCreate \/ PlanUpdate
    <2>1. want \in Settings /\ want' = want
      BY <1>7 DEF PlanCreate, PlanUpdate, Asking, Wanted
    <2>2. Call(WithBody("PUT"), "create") \/ Call(WithBody("POST"), "update")
      BY <1>7 DEF PlanCreate, PlanUpdate
    <2>3. Server!Next
      BY <1>2, <2>1, <2>2, WithBodyType, TerraformAssumption
    <2>4. step' \in {"create", "update"}
      BY <2>2 DEF Call
    <2> QED BY <2>1, <2>3, <2>4 DEF Asking, Wanted
  <1>8. CASE ImportEnds \/ Read \/ CreateEnds \/ UpdateEnds \/ Delete
    <2>1. want' = want /\ step' \in {"idle", "plan"} /\ UNCHANGED server
      BY <1>8 DEF ImportEnds, Read, CreateEnds, UpdateEnds, Delete, End
    <2> QED BY <1>1, <2>1 DEF Asking, Wanted
  <1>9. CASE Create \/ Update
    <2>1. want' = want /\ want \in Settings
      BY <1>9 DEF Create, Update, Answered, Asking
    <2>2. UNCHANGED server \/ Call(Bare("GET"), step')
      BY <1>9 DEF Create, Update, End, Call
    <2>3. UNCHANGED server \/ Server!Next
      BY <1>2, <2>2, BareType, TerraformAssumption
    <2>4. step' # "read"
      BY <1>9 DEF Create, Update, End, Call
    <2> QED BY <1>1, <2>1, <2>3, <2>4 DEF Asking, Wanted
  <1>10. CASE (Server!Handle(Provider) \/ Server!Crash) /\ UNCHANGED tf
    BY <1>10 DEF tf, Asking, Wanted, Server!Next
  <1> QED
    BY <1>1, <1>3, <1>4, <1>5, <1>6, <1>7, <1>8, <1>9, <1>10 DEF Next, Operator, Applying

\* Terraform and the provider do nothing to the server that its callers
\* cannot do: every behaviour of the two is one of the server's own.
THEOREM ImplementsServer == Spec => Server!Spec
  <1>1. Init => Server!Init /\ Asking
    BY DEF Init, Asking, Wanted
  <1> QED BY <1>1, ServerStep, PTL DEF Spec, Server!Spec

LEMMA ServerInvariants ==
    Spec => /\ []Server!TypeOK /\ []Server!LastAckWins /\ []Server!ReadIsLastAcked
            /\ []Cache!DiskInv /\ []Cache!CleanInv
  BY ImplementsServer, ServerKeeps, PTL

-----------------------------------------------------------------------------
LEMMA ReplyType ==
    ASSUME Server!TypeOK
    PROVE  reply[Provider].url \in Urls \cup {None} /\ reply[Provider].pub \in Keys \cup {None}
  BY DEF Server!TypeOK, Server!Replies

LEMMA FromPlanType ==
    ASSUME want \in Settings, NEW pub \in Keys \cup {None}, NEW tainted \in BOOLEAN
    PROVE  FromPlan(pub, tainted) \in States
  BY DEF FromPlan, States, Settings

LEMMA NextType ==
    Server!TypeOK' /\ TypeOK /\ Asking /\ [Next]_vars => TypeOK'
  <1> SUFFICES ASSUME Server!TypeOK', TypeOK, Asking, [Next]_vars PROVE TypeOK'
    OBVIOUS
  <1> DEFINE Ways == {"none", "applied", "noChange", "destroyed", "imported", "error"}
             Doing == {"idle", "plan", "read", "import", "create", "createRead",
                       "update", "updateRead", "delete"}
  <1>0. Server!TypeOK /\ want \in Settings \cup {Absent} /\ state \in States \cup {Absent}
        /\ step \in Doing /\ result \in Ways /\ adopted \in BOOLEAN
    BY DEF TypeOK
  <1> USE <1>0
  <1>1. CASE UNCHANGED vars \/ (UNCHANGED tf)
    BY <1>1 DEF vars, tf, TypeOK
  <1>2. CASE Operator \/ PlanNothing \/ PlanCreate \/ PlanUpdate \/ PlanDelete
    BY <1>2 DEF Operator, Edit, Forget, Refresh, ImportState, PlanNothing, PlanCreate,
                PlanUpdate, PlanDelete, End, Call, TypeOK
  <1>3. CASE ImportEnds
    <2>1. [url |-> reply[Provider].url, key |-> None, pub |-> reply[Provider].pub,
           tainted |-> FALSE] \in States
      BY ReplyType DEF States
    <2>2. state' \in States \cup {Absent}
      BY <1>3, <2>1 DEF ImportEnds
    <2> QED BY <1>3, <2>2 DEF ImportEnds, End, TypeOK
  <1>4. CASE Read
    <2>1. state \in States
      BY <1>4 DEF Read, Answered, Asking
    <2>2. state' \in States \cup {Absent}
      BY <1>4, <2>1, ReplyType DEF Read, States
    <2> QED BY <1>4, <2>2 DEF Read, End, TypeOK
  <1>5. CASE CreateEnds \/ UpdateEnds
    <2>1. want \in Settings
      BY <1>5 DEF CreateEnds, UpdateEnds, Answered, Asking
    <2>2. state' \in States \cup {Absent}
      BY <1>5, <2>1, ReplyType, FromPlanType DEF CreateEnds, UpdateEnds
    <2> QED BY <1>5, <2>2 DEF CreateEnds, UpdateEnds, End, TypeOK
  <1>6. CASE Create \/ Update \/ Delete
    BY <1>6 DEF Create, Update, Delete, End, Call, TypeOK
  <1> QED BY <1>1, <1>2, <1>3, <1>4, <1>5, <1>6 DEF Next, Applying

\* Every variable keeps its type, those of the server and of Terraform.
THEOREM TypeCorrect == Spec => []TypeOK
  <1>1. Init => TypeOK \/ ~Server!TypeOK
    BY DEF Init, TypeOK
  <1>2. Init => Asking
    BY DEF Init, Asking, Wanted
  <1> QED BY <1>1, <1>2, NextType, ServerStep, ServerInvariants, PTL DEF Spec

-----------------------------------------------------------------------------
(* What the server does for each kind of call.                             *)

Now     == pc[Provider]
Reads   == {"checkRead", "readUrl", "readPub"}
Stores  == {"statKey", "createKey", "writeKey", "deriveKey", "setSsh", "setPath", "setPub"}
Puts    == Stores \cup {"checkNew", "init", "addRemote", "addFetch"}
Posts   == Stores \cup {"compareUrl", "setUrl"}
Deletes == {"checkDelete", "list", "remove"}

Same(code) == Now' = "idle" /\ Code' = code /\ acked' = acked

\* GET leaves everything and answers with the origin it has read.
LEMMA Gets ==
    ASSUME Server!TypeOK, Now \in Reads, Server!Handle(Provider)
    PROVE  /\ UNCHANGED <<cfg, acked, req>>
           /\ \/ Now' = "readPub" /\ held'[Provider] = cfg.url
              \/ Now' = "readUrl"
              \/ Now' = "idle" /\ Code' \in {"404", "500"}
              \/ /\ Now = "readPub" /\ Now' = "idle" /\ Code' = "state"
                 /\ reply'[Provider].url = held[Provider]
  <1>1. Server!CheckRead(Provider) \/ Server!ReadUrl(Provider) \/ Server!ReadPub(Provider)
    BY DEF Now, Reads, Server!Handle, Server!At, Server!StatKey, Server!Looks, Server!CreateKey,
           Server!WriteKey, Server!StoreKey, Server!DeriveKey, Server!CheckNew, Server!GitInit,
           Server!AddRemote, Server!Writes, Server!CompareUrl, Server!SetUrl, Server!SetSsh,
           Server!SetPath, Server!SetPub, Server!ConfigSetFails, Server!CheckDelete, Server!Gone,
           Server!RemoveHead, Server!RemoveRefs, Server!RemoveConfig, Server!Unlinks,
           Server!Removed, Server!FetchStarts, Server!FetchFails, Server!FetchEnds,
           Server!GetTarball, Server!StepFails, Server!AddFetch, Server!ListEntries,
           Server!ConfigSteps
  <1>2. pc \in [{Provider} -> Server!Steps] /\ reply \in [{Provider} -> Server!Replies]
        /\ held \in [{Provider} -> Urls \cup {None}]
    BY DEF Server!TypeOK
  <1> QED BY <1>1, <1>2 DEF Now, Code, Server!CheckRead, Server!ReadUrl, Server!ReadPub,
                            Server!Looks, Server!Goto, Server!Reply, Server!Answer, Server!At,
                            Server!repo

\* PUT and POST acknowledge their own settings, or nothing.
LEMMA Sets ==
    ASSUME Server!TypeOK, Server!Handle(Provider),
           \/ Now \in Puts /\ req[Provider].method = "PUT"
           \/ Now \in Posts /\ req[Provider].method = "POST"
    PROVE  /\ req' = req
           /\ \/ Now' \in Puts /\ req[Provider].method = "PUT" /\ acked' = acked
              \/ Now' \in Posts /\ req[Provider].method = "POST" /\ acked' = acked
              \/ Same("500")
              \/ Same("already") /\ req[Provider].method = "PUT"
              \/ /\ Now' = "idle"
                 /\ Code' = IF req[Provider].method = "PUT" THEN "registered" ELSE "adjusted"
                 /\ acked'.url = req[Provider].url /\ acked'.key = req[Provider].key
  <1> DEFINE c == Provider
  <1>1. \/ Server!StatKey(c) \/ Server!CreateKey(c) \/ Server!WriteKey(c) \/ Server!DeriveKey(c)
        \/ Server!CheckNew(c) \/ Server!GitInit(c) \/ Server!AddRemote(c) \/ Server!AddFetch(c)
        \/ Server!CompareUrl(c) \/ Server!SetUrl(c) \/ Server!SetSsh(c) \/ Server!SetPath(c)
        \/ Server!SetPub(c) \/ Server!ConfigSetFails(c) \/ Server!StepFails(c)
    BY DEF Now, Puts, Posts, Stores, Server!Handle, Server!At, Server!CheckRead, Server!Looks,
           Server!ReadUrl, Server!ReadPub, Server!CheckDelete, Server!Gone, Server!RemoveHead,
           Server!RemoveRefs, Server!RemoveConfig, Server!Unlinks, Server!Removed,
           Server!FetchStarts, Server!FetchFails, Server!FetchEnds, Server!GetTarball,
           Server!ListEntries
  <1>2. pc \in [{Provider} -> Server!Steps] /\ reply \in [{Provider} -> Server!Replies]
    BY DEF Server!TypeOK
  <1> USE <1>2 DEF Same, Now, Code, Puts, Posts, Stores, Server!Looks, Server!Goto, Server!Reply,
                   Server!Answer, Server!At
  <1>3. CASE Server!StatKey(c) \/ Server!CreateKey(c) \/ Server!WriteKey(c) \/ Server!DeriveKey(c)
             \/ Server!CompareUrl(c) \/ Server!ConfigSetFails(c) \/ Server!StepFails(c)
    BY <1>3 DEF Server!StatKey, Server!CreateKey, Server!WriteKey, Server!StoreKey,
                Server!DeriveKey, Server!CompareUrl, Server!ConfigSetFails, Server!StepFails
  <1>4. CASE Server!CheckNew(c) \/ Server!GitInit(c) \/ Server!AddRemote(c) \/ Server!AddFetch(c)
             \/ Server!SetUrl(c)
    BY <1>4 DEF Server!CheckNew, Server!GitInit, Server!AddRemote, Server!AddFetch, Server!SetUrl,
                Server!Writes
  <1>5. CASE Server!SetSsh(c) \/ Server!SetPath(c) \/ Server!SetPub(c)
    BY <1>5 DEF Server!SetSsh, Server!SetPath, Server!SetPub, Server!Writes
  <1> QED BY <1>1, <1>3, <1>4, <1>5

LEMMA Removes ==
    ASSUME Server!TypeOK, Server!Handle(Provider), Now \in Deletes
    PROVE  /\ req' = req
           /\ \/ Now' \in Deletes /\ acked' = acked
              \/ Same("500")
              \/ Now' = "idle" /\ Code' = "gone" /\ acked'.url = None
  <1> DEFINE c == Provider
  <1>1. \/ Server!CheckDelete(c) \/ Server!ListEntries(c) \/ Server!RemoveHead(c)
        \/ Server!RemoveRefs(c) \/ Server!RemoveConfig(c) \/ Server!Removed(c)
        \/ Server!StepFails(c)
    BY DEF Now, Deletes, Server!Handle, Server!At, Server!StatKey, Server!Looks, Server!CreateKey,
           Server!WriteKey, Server!StoreKey, Server!DeriveKey, Server!CheckNew, Server!GitInit,
           Server!AddRemote, Server!Writes, Server!CompareUrl, Server!SetUrl, Server!SetSsh,
           Server!SetPath, Server!SetPub, Server!ConfigSetFails, Server!CheckRead, Server!ReadUrl,
           Server!ReadPub, Server!FetchStarts, Server!FetchFails, Server!FetchEnds,
           Server!GetTarball, Server!AddFetch, Server!ConfigSteps
  <1>2. pc \in [{Provider} -> Server!Steps] /\ reply \in [{Provider} -> Server!Replies]
    BY DEF Server!TypeOK
  <1> QED BY <1>1, <1>2 DEF Same, Now, Code, Deletes, Server!CheckDelete, Server!Gone,
                            Server!RemoveHead, Server!RemoveRefs, Server!RemoveConfig,
                            Server!ListEntries, Server!Unlinks, Server!Removed,
                            Server!StepFails, Server!Looks,
                            Server!Goto, Server!Reply, Server!Answer, Server!At

LEMMA Rests ==
    ASSUME Now = "idle" PROVE ~Server!Handle(Provider)
  BY DEF Now, Server!Handle, Server!At, Server!StatKey, Server!Looks, Server!CreateKey,
         Server!WriteKey, Server!StoreKey, Server!DeriveKey, Server!CheckNew, Server!GitInit,
         Server!AddRemote, Server!Writes, Server!CompareUrl, Server!SetUrl, Server!SetSsh,
         Server!SetPath, Server!SetPub, Server!ConfigSetFails, Server!CheckRead, Server!ReadUrl,
         Server!ReadPub, Server!CheckDelete, Server!Gone, Server!RemoveHead, Server!RemoveRefs,
         Server!RemoveConfig, Server!Unlinks, Server!Removed, Server!FetchStarts,
         Server!FetchFails, Server!FetchEnds, Server!GetTarball, Server!StepFails,
         Server!AddFetch, Server!ListEntries, Server!ConfigSteps

-----------------------------------------------------------------------------
(* Which call is out at each step, and how it may be answered.             *)

Reading == {"read", "import", "createRead", "updateRead"}

CallInv ==
    /\ step \in {"idle", "plan"} => Now = "idle"
    /\ step \in Reading =>
         /\ Now \in Reads \cup {"idle"} /\ req[Provider].method = "GET"
         /\ Now = "idle" => Code \in {"state", "404", "500", "none"}
    /\ step \in {"create", "update"} =>
         req[Provider].url = want.url /\ req[Provider].key = want.key
    /\ step = "create" =>
         /\ Now \in Puts \cup {"idle"} /\ req[Provider].method = "PUT"
         /\ Now = "idle" => Code \in {"registered", "already", "500", "none"}
    /\ step = "update" =>
         /\ Now \in Posts \cup {"idle"} /\ req[Provider].method = "POST"
         /\ Now = "idle" => Code \in {"adjusted", "500", "none"}
    /\ step = "delete" =>
         /\ Now \in Deletes \cup {"idle"}
         /\ Now = "idle" => Code \in {"gone", "500", "none"}

LEMMA Calls ==
    ASSUME Server!TypeOK, NEW r, NEW next, Call(r, next)
    PROVE  /\ Now' = Server!FirstStep(r.method) /\ req'[Provider] = r /\ step' = next
           /\ UNCHANGED <<parts, cfg, acked, faults, reply, held>>
  BY DEF Now, Call, Server!Request, Server!Goto, Server!TypeOK, Server!repo, Server!memory

\* Between calls the server rests.
LEMMA Ends ==
    ASSUME CallInv, Applying \/ \E w : Edit(w) \/ Forget \/ Refresh \/ ImportState
    PROVE  Now = "idle"
  BY DEF CallInv, Applying, Edit, Forget, Refresh, ImportState, PlanNothing, PlanCreate,
         PlanUpdate, PlanDelete, ImportEnds, Read, Create, CreateEnds, Update, UpdateEnds,
         Delete, Answered, Now, Server!At

LEMMA CallNext == Server!TypeOK /\ TypeOK /\ CallInv /\ [Next]_vars => CallInv'
  <1> SUFFICES ASSUME Server!TypeOK, TypeOK, CallInv, [Next]_vars PROVE CallInv'
    OBVIOUS
  <1>1. CASE UNCHANGED vars
    BY <1>1 DEF vars, CallInv, Now, Code
  <1>2. ASSUME UNCHANGED server, step' \in {"idle", "plan"}, Now = "idle" PROVE CallInv'
    BY <1>2 DEF server, CallInv, Now, Reading
  <1>3. ASSUME NEW next \in Reading, Call(Bare("GET"), next) PROVE CallInv'
    <2>1. Now' = "checkRead" /\ req'[Provider].method = "GET" /\ step' = next
      BY <1>3, Calls DEF Server!FirstStep, Bare
    <2> QED BY <2>1 DEF CallInv, Reads, Reading
  <1>4. ASSUME Call(Bare("DELETE"), "delete") PROVE CallInv'
    <2>1. Now' = "checkDelete" /\ step' = "delete"
      BY <1>4, Calls DEF Server!FirstStep, Bare
    <2> QED BY <2>1 DEF CallInv, Deletes, Reading
  <1>5. CASE PlanCreate \/ PlanUpdate
    <2>1. /\ Now' = "statKey" /\ req'[Provider].url = want.url /\ req'[Provider].key = want.key
          /\ \/ step' = "create" /\ req'[Provider].method = "PUT"
             \/ step' = "update" /\ req'[Provider].method = "POST"
          /\ want' = want
      BY <1>5, Calls DEF PlanCreate, PlanUpdate, Server!FirstStep, WithBody
    <2> QED BY <2>1 DEF CallInv, Puts, Posts, Stores, Reading
  <1>6. CASE \/ (\E w \in Settings \cup {Absent} : Edit(w)) \/ Forget \/ PlanNothing
             \/ ImportEnds \/ Read \/ CreateEnds \/ UpdateEnds
    <2>1. UNCHANGED server /\ step' \in {"idle", "plan"}
      BY <1>6 DEF Edit, Forget, PlanNothing, ImportEnds, Read, CreateEnds, UpdateEnds, End
    <2> QED BY <1>2, <1>6, <2>1, Ends DEF Applying
  <1>7. CASE Refresh \/ ImportState \/ PlanDelete \/ Create \/ Update \/ Delete
    <2>1. \/ UNCHANGED server /\ step' \in {"idle", "plan"}
          \/ \E next \in Reading : Call(Bare("GET"), next)
          \/ Call(Bare("DELETE"), "delete")
      BY <1>7 DEF Refresh, ImportState, PlanDelete, Create, Update, Delete, End, Reading
    <2> QED BY <1>2, <1>3, <1>4, <1>7, <2>1, Ends DEF Applying
  <1>8. CASE Server!Crash /\ UNCHANGED tf
    <2>1. Now' = "idle" /\ Code' = "none" /\ req' = req /\ UNCHANGED tf
      BY <1>8 DEF Server!Crash, Server!NoReply, Now, Code
    <2> QED BY <2>1 DEF CallInv, tf
  <1>9. CASE Server!Handle(Provider) /\ UNCHANGED tf
    <2>1. Now # "idle" /\ step' = step /\ want' = want
      BY <1>9, Rests DEF tf
    <2>2. CASE step \in Reading
      <3>1. Now' \in Reads \cup {"idle"} /\ req' = req
            /\ (Now' = "idle" => Code' \in {"state", "404", "500"})
        BY <1>9, <2>1, <2>2, Gets DEF CallInv, Reads
      <3> QED BY <2>1, <2>2, <3>1 DEF CallInv, Reading
    <2>3. CASE step = "create"
      <3>1. Now' \in Puts \cup {"idle"} /\ req' = req
            /\ (Now' = "idle" => Code' \in {"registered", "already", "500"})
        BY <1>9, <2>1, <2>3, Sets DEF CallInv, Same, Puts, Stores
      <3> QED BY <2>1, <2>3, <3>1 DEF CallInv, Reading
    <2>4. CASE step = "update"
      <3>1. Now' \in Posts \cup {"idle"} /\ req' = req
            /\ (Now' = "idle" => Code' \in {"adjusted", "500"})
        BY <1>9, <2>1, <2>4, Sets DEF CallInv, Same, Posts, Stores
      <3> QED BY <2>1, <2>4, <3>1 DEF CallInv, Reading
    <2>5. CASE step = "delete"
      <3>1. Now' \in Deletes \cup {"idle"} /\ (Now' = "idle" => Code' \in {"gone", "500"})
        BY <1>9, <2>1, <2>5, Removes DEF CallInv, Same, Deletes
      <3> QED BY <2>1, <2>5, <3>1 DEF CallInv, Reading
    <2> QED BY <2>1, <2>2, <2>3, <2>4, <2>5 DEF CallInv, TypeOK, Reading
  <1> QED BY <1>1, <1>5, <1>6, <1>7, <1>8, <1>9 DEF Next, Operator, Applying

-----------------------------------------------------------------------------
(* The origin: what was read of it is still so when Terraform plans.       *)

OriginInv ==
    /\ step = "read" =>
         /\ Now = "readPub" => held[Provider] = cfg.url
         /\ Now = "idle" /\ Code = "state" => reply[Provider].url = cfg.url
    /\ step = "plan" /\ state # Absent => state.url = cfg.url
    /\ NoChangeMeansOrigin

LEMMA OriginNext ==
    Server!TypeOK /\ TypeOK /\ Asking /\ CallInv /\ OriginInv /\ [Next]_vars => OriginInv'
  <1> SUFFICES ASSUME Server!TypeOK, TypeOK, Asking, CallInv, OriginInv, [Next]_vars
               PROVE  OriginInv'
    OBVIOUS
  <1> USE DEF OriginInv, NoChangeMeansOrigin
  <1>1. CASE UNCHANGED vars
    BY <1>1 DEF vars, Now, Code
  <1>2. ASSUME step' \notin {"idle", "read", "plan"} PROVE OriginInv'
    BY <1>2
  <1>3. CASE (\E w \in Settings \cup {Absent} : Edit(w)) \/ Forget
    BY <1>3 DEF Edit, Forget, server
  <1>4. CASE Refresh
    <2>1. CASE state # Absent
      <3>1. Now' = "checkRead" /\ step' = "read"
        BY <1>4, <2>1, Calls DEF Refresh, Bare, Server!FirstStep
      <3> QED BY <3>1
    <2>2. CASE state = Absent
      BY <1>4, <2>2 DEF Refresh
    <2> QED BY <2>1, <2>2
  <1>5. CASE PlanNothing
    <2>1. want # Absent => state # Absent /\ want.url = state.url
      BY <1>5 DEF PlanNothing, InState
    <2> QED BY <1>5, <2>1 DEF PlanNothing, End, server
  <1>6. CASE ImportState \/ PlanCreate \/ PlanUpdate \/ PlanDelete
    BY <1>2, <1>6 DEF ImportState, PlanCreate, PlanUpdate, PlanDelete, Call
  <1>7. CASE Read
    <2>1. state \in States /\ Now = "idle" /\ step = "read"
      BY <1>7, Ends DEF Read, Answered, Asking, TypeOK, Applying
    <2>2. CASE Found
      <3>1. state' = [state EXCEPT !.url = reply[Provider].url, !.pub = reply[Provider].pub]
            /\ step' = "plan" /\ cfg' = cfg
        BY <1>7, <2>2 DEF Read, Found, Failed, server
      <3>2. state'.url = reply[Provider].url
        BY <2>1, <3>1 DEF States
      <3> QED BY <2>1, <2>2, <3>1, <3>2 DEF Found
    <2>3. CASE ~Found
      BY <1>7, <2>3 DEF Read, Found, End
    <2> QED BY <2>2, <2>3
  <1>8. CASE ImportEnds \/ CreateEnds \/ UpdateEnds
    BY <1>8 DEF ImportEnds, CreateEnds, UpdateEnds, End
  <1>9. CASE Create \/ Update
    BY <1>9 DEF Create, Update, End, Call
  <1>10. CASE Delete
    BY <1>10 DEF Delete, End
  <1>11. CASE Server!Crash /\ UNCHANGED tf
    <2>1. Now' = "idle" /\ Code' = "none"
      BY <1>11 DEF Server!Crash, Server!NoReply, Now, Code
    <2>2. cfg'.url = cfg.url
      BY <1>11 DEF Server!Crash, Server!HalfInit, Server!TypeOK, Server!Configs
    <2> QED BY <1>11, <2>1, <2>2 DEF tf
  <1>12. CASE Server!Handle(Provider) /\ UNCHANGED tf
    <2>1. Now # "idle"
      BY <1>12, Rests
    <2>2. CASE step = "read"
      <3>1. Now \in Reads
        BY <2>1, <2>2 DEF CallInv, Reading
      <3> QED BY <1>12, <2>2, <3>1, Gets DEF tf, Reads
    <2>3. CASE step # "read"
      BY <1>12, <2>1, <2>3 DEF CallInv, tf
    <2> QED BY <2>2, <2>3
  <1> QED
    BY <1>1, <1>3, <1>4, <1>5, <1>6, <1>7, <1>8, <1>9, <1>10, <1>11, <1>12
       DEF Next, Operator, Applying

LEMMA CallInit == Init => CallInv /\ Asking
  BY DEF Init, CallInv, Now, Server!Init, Reading, Asking, Wanted

\* Whatever was called, forgotten, adopted or has failed before: when an
\* apply ends with nothing to change, the server has the configured origin.
THEOREM NoChangeMeansOriginCorrect == Spec => []NoChangeMeansOrigin
  <1>1. Init => OriginInv
    BY DEF Init, OriginInv, NoChangeMeansOrigin
  <1>2. OriginInv => NoChangeMeansOrigin
    BY DEF OriginInv
  <1>3. TypeOK => Server!TypeOK
    BY DEF TypeOK
  <1> QED BY <1>1, <1>2, <1>3, CallInit, CallNext, OriginNext, ServerStep, TypeCorrect, PTL DEF Spec

-----------------------------------------------------------------------------
(* Before any fault: what Terraform holds, compared with what the server   *)
(* has acknowledged.                                                       *)

AckedIs(url, key) == acked.url = url /\ acked.key = key

KeepInv ==
    /\ step \in {"idle", "plan", "read", "import", "update", "delete"} /\ ~adopted
         /\ state # Absent /\ ~state.tainted /\ state.key # None
         /\ (Now = "idle" => Code \notin {"adjusted", "gone"} \/ step \notin {"update", "delete"})
         => acked.key = state.key
    /\ step \in {"createRead", "updateRead"} /\ ~adopted => AckedIs(want.url, want.key)
    /\ step \in {"create", "update"} /\ Now = "idle" /\ Code \in {"registered", "adjusted"}
         => AckedIs(want.url, want.key)
    /\ step = "delete" /\ Now = "idle" /\ Code = "gone" => acked.url = None
    /\ step = "plan" /\ state # Absent => AckedIs(state.url, state.pub)
    /\ step \in {"create", "createRead"} => state = Absent
    /\ step = "idle" /\ ~adopted =>
         /\ result \in {"applied", "noChange"} /\ want # Absent =>
              AckedIs(want.url, want.key) /\ state # Absent /\ state.pub = want.key
         /\ result = "destroyed" => acked.url = None

\* Faults are never undone.
LEMMA NoFault ==
    ASSUME Server!TypeOK, Server!Handle(Provider) \/ Server!Crash, faults' = 0
    PROVE  faults = 0 /\ ~Server!Crash
  <1>1. faults \in Nat
    BY TerraformAssumption DEF Server!TypeOK
  <1>2. ~Server!Crash
    BY <1>1 DEF Server!Crash
  <1>3. ~Server!StepFails(Provider)
    BY <1>1 DEF Server!StepFails, Server!Locked
  <1> QED BY <1>2, <1>3
             DEF Server!Handle, Server!StatKey, Server!Looks, Server!CreateKey, Server!WriteKey,
                 Server!StoreKey, Server!DeriveKey, Server!CheckNew, Server!GitInit,
                 Server!AddRemote, Server!Writes, Server!CompareUrl, Server!SetUrl,
                 Server!SetSsh, Server!SetPath, Server!SetPub, Server!ConfigSetFails,
                 Server!CheckRead, Server!ReadUrl, Server!ReadPub, Server!CheckDelete,
                 Server!Gone, Server!RemoveHead, Server!RemoveRefs, Server!RemoveConfig,
                 Server!Unlinks, Server!Removed, Server!FetchStarts, Server!FetchFails,
                 Server!FetchEnds, Server!GetTarball, Server!AddFetch, Server!ListEntries

LEMMA KeepServer ==
    ASSUME Server!TypeOK, TypeOK, CallInv, KeepInv, Server!Handle(Provider), UNCHANGED tf
    PROVE  KeepInv'
  <1>1. Now # "idle" /\ UNCHANGED <<want, state, step, result, adopted>>
    BY Rests DEF tf
  <1>2. CASE step \in Reading
    <2>1. acked' = acked
      BY <1>1, <1>2, Gets DEF CallInv
    <2> QED BY <1>1, <1>2, <2>1 DEF KeepInv, AckedIs, Reading
  <1>3. CASE step = "create"
    <2>1. req[Provider].url = want.url /\ req[Provider].key = want.key
          /\ req[Provider].method = "PUT" /\ Now \in Puts
      BY <1>1, <1>3 DEF CallInv
    <2>2. Now' = "idle" /\ Code' \in {"registered", "adjusted"} =>
             acked'.url = want.url /\ acked'.key = want.key
      BY <2>1, Sets DEF Same, Puts, Posts, Stores
    <2> QED BY <1>1, <1>3, <2>2 DEF KeepInv, AckedIs
  <1>4. CASE step = "update"
    <2>1. req[Provider].url = want.url /\ req[Provider].key = want.key
          /\ req[Provider].method = "POST" /\ Now \in Posts
      BY <1>1, <1>4 DEF CallInv
    <2>2. \/ Now' = "idle" /\ Code' = "adjusted" /\ acked'.url = want.url /\ acked'.key = want.key
          \/ Now' = "idle" /\ Code' = "500" /\ acked' = acked
          \/ Now' # "idle" /\ acked' = acked
      BY <2>1, Sets DEF Same, Puts, Posts, Stores
    <2> QED BY <1>1, <1>4, <2>2 DEF KeepInv, AckedIs
  <1>5. CASE step = "delete"
    <2>1. \/ Now' = "idle" /\ Code' = "gone" /\ acked'.url = None
          \/ Now' = "idle" /\ Code' = "500" /\ acked' = acked
          \/ Now' # "idle" /\ acked' = acked
      BY <1>1, <1>5, Removes DEF CallInv, Same, Deletes
    <2> QED BY <1>1, <1>5, <2>1 DEF KeepInv, AckedIs
  <1> QED BY <1>1, <1>2, <1>3, <1>4, <1>5 DEF CallInv, TypeOK, Reading

\* What the provider keeps of the answers.
LEMMA KeepAnswers ==
    ASSUME Server!TypeOK, TypeOK, Asking, CallInv, KeepInv, Server!ReadIsLastAcked, ~spoiled,
           \/ ImportEnds \/ Read \/ Create \/ CreateEnds \/ Update \/ UpdateEnds \/ Delete
    PROVE  KeepInv'
  <1> USE DEF KeepInv, AckedIs
  <1>0. Now = "idle" /\ (step \in Reading /\ Found =>
          acked.url = reply[Provider].url /\ acked.key = reply[Provider].pub)
    <2>1. Now = "idle"
      BY Ends DEF Applying
    <2> QED BY <2>1 DEF Server!ReadIsLastAcked, Server!At, Now, CallInv, Found, Code
  <1>1. CASE ImportEnds
    <2>1. /\ step = "import" /\ step' = "idle" /\ result' \in {"imported", "error"}
          /\ acked' = acked /\ adopted' = adopted
          /\ \/ state' = state
             \/ state' = [url |-> reply[Provider].url, key |-> None,
                          pub |-> reply[Provider].pub, tainted |-> FALSE]
      BY <1>1 DEF ImportEnds, Answered, End, server
    <2>2. state' = state \/ state'.key = None
      BY <2>1
    <2> QED BY <2>1, <2>2
  <1>2. CASE Read
    <2>1. state \in States /\ step = "read"
      BY <1>2 DEF Read, Answered, Asking, TypeOK
    <2>2. CASE Found
      <3>1. /\ state' = [state EXCEPT !.url = reply[Provider].url, !.pub = reply[Provider].pub]
            /\ step' = "plan" /\ acked' = acked /\ adopted' = adopted
        BY <1>2, <2>2 DEF Read, Found, Failed, server
      <3>2. /\ state'.url = reply[Provider].url /\ state'.pub = reply[Provider].pub
            /\ state'.key = state.key /\ state'.tainted = state.tainted /\ state # Absent
        BY <2>1, <3>1, TerraformAssumption DEF States
      <3> QED BY <1>0, <2>1, <2>2, <3>1, <3>2 DEF Reading
    <2>3. CASE ~Found
      <3>1. /\ acked' = acked /\ adopted' = adopted
            /\ \/ state' = Absent /\ step' = "plan"
               \/ state' = state /\ step' = "idle" /\ result' = "error"
        BY <1>2, <2>3 DEF Read, End, server
      <3> QED BY <2>1, <3>1
    <2> QED BY <2>2, <2>3
  <1>3. CASE Create
    <2>1. step = "create" /\ state' = Absent /\ want' = want
      BY <1>3 DEF Create, Answered
    <2>2. CASE Failed
      BY <1>3, <2>1, <2>2 DEF Create, End
    <2>3. CASE ~Failed
      <3>1. Call(Bare("GET"), "createRead") /\ adopted' = (Code = "already")
        BY <1>3, <2>3 DEF Create
      <3>2. step' = "createRead" /\ acked' = acked
        BY <3>1, Calls
      <3>3. ~adopted' => Code = "registered"
        BY <1>0, <2>1, <2>3, <3>1 DEF CallInv, Failed
      <3> QED BY <1>0, <2>1, <3>2, <3>3
    <2> QED BY <2>2, <2>3
  <1>4. CASE CreateEnds \/ UpdateEnds
    <2>1. /\ step \in {"createRead", "updateRead"} /\ step' = "idle" /\ acked' = acked
          /\ want' = want /\ adopted' = adopted /\ want \in Settings
      BY <1>4 DEF CreateEnds, UpdateEnds, Answered, End, server, Asking
    <2>2. \/ Found /\ state' = FromPlan(reply[Provider].pub, FALSE) /\ result' = "applied"
          \/ /\ result' = "error"
             /\ state' = FromPlan(None, TRUE) \/ state' = FromPlan(None, FALSE)
      BY <1>4 DEF CreateEnds, UpdateEnds, End
    <2>3. state' \in States /\ state' # Absent /\ state'.key = want.key
      <3>1. PICK pub \in Keys \cup {None}, tainted \in BOOLEAN : state' = FromPlan(pub, tainted)
        BY <2>2, ReplyType
      <3>2. FromPlan(pub, tainted) \in States
        BY <2>1, FromPlanType
      <3>3. FromPlan(pub, tainted).key = want.key
        BY DEF FromPlan
      <3> QED BY <3>1, <3>2, <3>3, TerraformAssumption
    <2>4. result' = "applied" => acked.key = reply[Provider].pub /\ state'.pub = reply[Provider].pub
      BY <1>0, <2>1, <2>2 DEF Reading, FromPlan
    <2>5. result' \in {"applied", "error"}
      BY <2>2
    <2> QED BY <2>1, <2>3, <2>4, <2>5
  <1>5. CASE Update
    <2>1. step = "update" /\ state' = state /\ want' = want
      BY <1>5 DEF Update, Answered
    <2>2. CASE Failed
      BY <1>0, <1>5, <2>1, <2>2 DEF Update, End, Failed, server
    <2>3. CASE ~Failed
      <3>1. step' = "updateRead" /\ acked' = acked /\ Code = "adjusted"
        BY <1>0, <1>5, <2>1, <2>3, Calls DEF Update, CallInv, Failed
      <3> QED BY <1>0, <2>1, <3>1
    <2> QED BY <2>2, <2>3
  <1>6. CASE Delete
    <2>1. step = "delete" /\ want' = want
      BY <1>6 DEF Delete, Answered
    <2>2. CASE Failed
      BY <1>0, <1>6, <2>1, <2>2 DEF Delete, End, Failed, server
    <2>3. CASE ~Failed
      <3>1. Code = "gone" /\ state' = Absent /\ acked' = acked
        BY <1>0, <1>6, <2>1, <2>3 DEF Delete, CallInv, Failed, End, server
      <3>2. (step' = "idle" /\ result' = "destroyed") \/ step' = "plan"
        BY <1>6, <2>3 DEF Delete, End
      <3> QED BY <1>0, <2>1, <3>1, <3>2
    <2> QED BY <2>2, <2>3
  <1> QED BY <1>1, <1>2, <1>3, <1>4, <1>5, <1>6

\* What Terraform plans, and what the operator does.
LEMMA KeepPlans ==
    ASSUME Server!TypeOK, TypeOK, CallInv, KeepInv,
           Operator \/ PlanNothing \/ PlanCreate \/ PlanUpdate \/ PlanDelete
    PROVE  KeepInv'
  <1> USE DEF KeepInv, AckedIs
  <1>1. CASE Operator
    <2>1. CASE (\E w \in Settings \cup {Absent} : Edit(w)) \/ Forget
      BY <2>1 DEF Edit, Forget, server
    <2>2. CASE Refresh \/ ImportState
      <3>1. /\ step = "idle" /\ state' = state /\ adopted' = adopted /\ result' = "none"
            /\ acked' = acked
            /\ step' \in {"read", "import"} \/ (step' = "plan" /\ state = Absent)
        BY <2>2, Calls DEF Refresh, ImportState, server
      <3> QED BY <3>1
    <2> QED BY <1>1, <2>1, <2>2 DEF Operator
  <1>2. CASE PlanNothing
    <2>1. /\ step = "plan" /\ step' = "idle" /\ result' = "noChange" /\ Now = "idle"
          /\ acked' = acked /\ UNCHANGED <<want, state, adopted>>
      BY <1>2, Ends DEF PlanNothing, End, server, Applying
    <2>2. want # Absent => /\ state # Absent /\ ~state.tainted /\ state.url = want.url
                           /\ state.key = want.key /\ want.key # None
      BY <1>2, TerraformAssumption DEF PlanNothing, InState, TypeOK, Settings
    <2> QED BY <2>1, <2>2
  <1>3. CASE PlanCreate \/ PlanUpdate \/ PlanDelete
    <2>1. /\ step = "plan" /\ acked' = acked /\ UNCHANGED <<want, state, adopted>>
          /\ Now' \in {"statKey", "checkDelete"}
          /\ step' \in {"update", "delete"} \/ (step' = "create" /\ state = Absent)
      <3>1. CASE PlanCreate
        BY <3>1, Calls DEF PlanCreate, Server!FirstStep, WithBody
      <3>2. CASE PlanUpdate
        <4>1. Call(WithBody("POST"), "update") /\ step = "plan" /\ UNCHANGED <<want, state, adopted>>
          BY <3>2 DEF PlanUpdate
        <4>2. Now' \in {"statKey", "checkDelete"} /\ acked' = acked /\ step' \in {"update", "delete"}
          BY <4>1, Calls DEF Server!FirstStep, WithBody
        <4> QED BY <4>1, <4>2
      <3>3. CASE PlanDelete
        <4>1. Call(Bare("DELETE"), "delete") /\ step = "plan" /\ UNCHANGED <<want, state, adopted>>
          BY <3>3 DEF PlanDelete
        <4>2. Now' \in {"statKey", "checkDelete"} /\ acked' = acked /\ step' \in {"update", "delete"}
          BY <4>1, Calls DEF Server!FirstStep, Bare
        <4> QED BY <4>1, <4>2
      <3> QED BY <1>3, <3>1, <3>2, <3>3
    <2> QED BY <2>1
  <1> QED BY <1>1, <1>2, <1>3

LEMMA KeepNext ==
    Server!TypeOK /\ TypeOK /\ Asking /\ CallInv /\ Server!ReadIsLastAcked /\ Cache!CleanInv
        /\ (faults = 0 => KeepInv) /\ [Next]_vars => (faults = 0 => KeepInv)'
  <1> SUFFICES ASSUME Server!TypeOK, TypeOK, Asking, CallInv, Server!ReadIsLastAcked,
                      Cache!CleanInv, faults = 0 => KeepInv, [Next]_vars, faults' = 0
               PROVE  KeepInv'
    OBVIOUS
  <1>1. CASE UNCHANGED vars
    BY <1>1 DEF vars, KeepInv, AckedIs, Now, Code
  <1>2. CASE (Server!Handle(Provider) \/ Server!Crash) /\ UNCHANGED tf
    BY <1>2, NoFault, KeepServer
  <1>3. CASE Operator \/ Applying
    <2>1. faults' = faults
      BY <1>3, Calls
         DEF Operator, Applying, Edit, Forget, Refresh, ImportState, PlanNothing, PlanCreate,
             PlanUpdate, PlanDelete, ImportEnds, Read, Create, CreateEnds, Update, UpdateEnds,
             Delete, End, server
    <2> QED BY <1>3, <2>1, KeepAnswers, KeepPlans DEF Applying, Cache!CleanInv
  <1> QED BY <1>1, <1>2, <1>3 DEF Next

\* The refs outlive HEAD only while a RemoveAll is at work.
RefsInv == "refs" \in parts /\ "HEAD" \notin parts => Now = "remove"

LEMMA RefsNext ==
    Server!TypeOK /\ TypeOK /\ Asking /\ CallInv /\ Cache!CleanInv
        /\ (faults = 0 => RefsInv) /\ [Next]_vars => (faults = 0 => RefsInv)'
  <1> SUFFICES ASSUME Server!TypeOK, TypeOK, Asking, CallInv, Cache!CleanInv,
                      faults = 0 => RefsInv, [Next]_vars, faults' = 0
               PROVE  RefsInv'
    OBVIOUS
  <1> DEFINE c == Provider
  <1>0. /\ parts \subseteq {"HEAD", "refs"} /\ pc \in [{c} -> Server!Steps]
        /\ step # "idle" /\ step # "plan" /\ Now # "idle" => Now \in Reads \cup Puts \cup Posts \cup Deletes
    BY DEF Server!TypeOK, CallInv, TypeOK, Reading
  <1>1. CASE UNCHANGED vars
    BY <1>1 DEF vars, RefsInv, Now
  <1>2. CASE Operator \/ Applying
    <2>1. faults' = faults /\ parts' = parts
      BY <1>2, Calls
         DEF Operator, Applying, Edit, Forget, Refresh, ImportState, PlanNothing, PlanCreate,
             PlanUpdate, PlanDelete, ImportEnds, Read, Create, CreateEnds, Update, UpdateEnds,
             Delete, End, server
    <2>2. Now = "idle"
      BY <1>2, Ends DEF Operator
    <2> QED BY <2>1, <2>2 DEF RefsInv
  <1>3. CASE (Server!Handle(c) \/ Server!Crash) /\ UNCHANGED tf
    <2>1. faults = 0 /\ Server!Handle(c) /\ ~Server!StepFails(c)
      <3>1. faults = 0 /\ Server!Handle(c)
        BY <1>3, NoFault
      <3>2. ~Server!StepFails(c)
        BY <3>1 DEF Server!StepFails, Server!Locked
      <3> QED BY <3>1, <3>2
    <2>2. Now \notin {"idle", "storeRef", "fetch"}
      BY <1>3, <2>1, Rests DEF CallInv, TypeOK, Reading, Reads, Puts, Posts, Stores, Deletes
    <2> USE <1>0 DEF Now, Server!At, Server!Goto, Server!Reply, Server!Answer, RefsInv
    <2>3. CASE Server!GitInit(c)
      BY <2>3 DEF Server!GitInit
    <2>4. CASE Server!RemoveHead(c) \/ Server!RemoveRefs(c) \/ Server!RemoveConfig(c)
      BY <2>4 DEF Server!RemoveHead, Server!RemoveRefs, Server!RemoveConfig, Server!Unlinks
    <2>5. CASE Server!Removed(c)
      <3>1. Server!Entries \subseteq todo[c]
        BY <2>1, <2>5 DEF Server!Removed, Server!Gone, Server!Looks, Cache!CleanInv,
                          Cache!Entries, Cache!NoConfig, Server!Entries, Server!NoConfig
      <3> QED BY <2>5, <3>1 DEF Server!Removed, Server!Gone, Server!Looks, Server!Entries,
                                Server!repo
    <2>6. CASE ~(Server!GitInit(c) \/ Server!RemoveHead(c) \/ Server!RemoveRefs(c)
                 \/ Server!RemoveConfig(c) \/ Server!Removed(c))
      <3>1. parts' = parts /\ Now # "remove"
        BY <2>1, <2>2, <2>6
           DEF Server!Handle, Server!StatKey, Server!Looks, Server!CreateKey, Server!WriteKey,
               Server!StoreKey, Server!DeriveKey, Server!CheckNew, Server!AddRemote,
               Server!AddFetch, Server!Writes, Server!CompareUrl, Server!SetUrl, Server!SetSsh,
               Server!SetPath, Server!SetPub, Server!ConfigSetFails, Server!CheckRead,
               Server!ReadUrl, Server!ReadPub, Server!CheckDelete, Server!Gone,
               Server!ListEntries, Server!FetchStarts, Server!FetchFails, Server!FetchEnds,
               Server!GetTarball, Server!repo
      <3> QED BY <2>1, <3>1
    <2> QED BY <2>3, <2>4, <2>5, <2>6
  <1> QED BY <1>1, <1>2, <1>3 DEF Next

\* Before any fault, and unless a PUT met a registration it had not made: an
\* apply that ends well leaves the server as configured, and the state true.
THEOREM AppliedIsRegisteredCorrect == Spec => []AppliedIsRegistered
  <1>1. Init => KeepInv /\ RefsInv
    BY DEF Init, KeepInv, RefsInv, Server!Init
  <1>2. TypeOK /\ CallInv /\ Server!LastAckWins /\ Cache!CleanInv
          /\ (faults = 0 => KeepInv) /\ (faults = 0 => RefsInv) => AppliedIsRegistered
    <2> SUFFICES ASSUME TypeOK, CallInv, Server!LastAckWins, KeepInv, RefsInv,
                        faults = 0, ~spoiled, step = "idle", ~adopted
                 PROVE  /\ result \in {"applied", "noChange"} /\ want # Absent =>
                             /\ Server!IsRepository
                             /\ Server!Configured(want.url, want.key) /\ cfg.fetch
                             /\ state.pub = want.key
                        /\ result = "destroyed" => Server!NothingLeft
      BY DEF AppliedIsRegistered, Cache!CleanInv
    <2>1. Server!Quiet
      BY DEF CallInv, Now, Server!Quiet, Server!At
    <2>2. CASE result \in {"applied", "noChange"} /\ want # Absent
      <3>1. want.url # None
        BY <2>2, TerraformAssumption DEF TypeOK, Settings
      <3> QED BY <2>1, <2>2, <3>1 DEF Server!LastAckWins, KeepInv, AckedIs
    <2>3. CASE result = "destroyed"
      <3>1. "HEAD" \notin parts /\ cfg = Server!NoConfig
        BY <2>1, <2>3 DEF Server!LastAckWins, KeepInv
      <3>2. "refs" \notin parts /\ parts \subseteq {"HEAD", "refs"}
        BY <3>1 DEF RefsInv, CallInv, TypeOK, Server!TypeOK
      <3> QED BY <2>3, <3>1, <3>2 DEF Server!NothingLeft, Server!Entries
    <2> QED BY <2>2, <2>3
  <1>3. TypeOK => Server!TypeOK
    BY DEF TypeOK
  <1> QED BY <1>1, <1>2, <1>3, CallInit, CallNext, KeepNext, RefsNext, ServerStep,
             ServerInvariants, TypeCorrect, PTL DEF Spec

-----------------------------------------------------------------------------
(* Whatever failed before: what an apply acknowledges is in force.         *)

InForce(url, key) == Server!IsRepository /\ Server!Configured(url, key)

ForceInv ==
    /\ step \in {"create", "update"} /\ Now = "idle" /\ Code \in {"registered", "adjusted"}
         => InForce(want.url, want.key)
    /\ step \in {"createRead", "updateRead"} =>
         /\ ~adopted => InForce(want.url, want.key)
         /\ Now = "idle" /\ Code = "state" => reply[Provider].pub = cfg.pub
    /\ step = "delete" /\ Now = "idle" /\ Code = "gone" => ~Server!isBareRepository
    /\ AppliedIsInForce

\* What an answer of the server says of its disk, with one caller.
LEMMA ServerForce ==
    ASSUME Server!TypeOK, Cache!DiskInv, Server!Handle(Provider)
    PROVE  /\ Now \in Reads => UNCHANGED <<parts, cfg>>
           /\ Now' = "idle" /\ Code' = "state" => reply'[Provider].pub = cfg'.pub
           /\ Now' = "idle" /\ Code' \in {"registered", "adjusted"} =>
                InForce(req[Provider].url, req[Provider].key)'
           /\ Now' = "idle" /\ Code' = "gone" => ~Server!isBareRepository'
  <1> DEFINE c == Provider
  <1>0. /\ pc \in [{c} -> Server!Steps] /\ reply \in [{c} -> Server!Replies]
        /\ cfg \in Server!Configs /\ req \in [{c} -> Server!Requests]
    BY DEF Server!TypeOK
  <1> USE <1>0 DEF Now, Code, Server!At, Server!Goto, Server!Reply, Server!Answer
  <1>1. CASE Server!SetPub(c)
    <2>1. /\ Server!IsRepository /\ cfg.bare /\ cfg.url = req[c].url /\ cfg.ssh = req[c].key
          /\ cfg.path = req[c].key
      BY <1>1 DEF Server!SetPub, Server!Writes, Cache!DiskInv, Cache!isBareRepository
    <2>2. /\ cfg' = [bare |-> TRUE, url |-> req[c].url, fetch |-> cfg.fetch, ssh |-> req[c].key,
                     path |-> req[c].key, pub |-> req[c].key]
          /\ parts' = parts /\ req' = req
      BY <1>1, <2>1 DEF Server!SetPub, Server!Writes, Server!Configs
    <2>3. InForce(req[c].url, req[c].key)'
      BY <2>1, <2>2 DEF InForce, Server!IsRepository, Server!Configured
    <2>4. Now # "idle" /\ Now \notin Reads /\ Code' \in {"registered", "adjusted"}
      BY <1>1 DEF Server!SetPub, Server!Writes, Reads
    <2> QED BY <2>3, <2>4
  <1>2. CASE Server!ReadPub(c)
    <2>1. Now = "readPub" /\ Server!IsRepository
      BY <1>2 DEF Server!ReadPub, Cache!DiskInv, Cache!isBareRepository, Cache!IsRepository,
                  Server!IsRepository
    <2>2. Code' = "state" /\ reply'[c].pub = cfg.pub /\ UNCHANGED <<parts, cfg>>
      BY <1>2, <2>1 DEF Server!ReadPub, Server!repo
    <2> QED BY <2>1, <2>2
  <1>3. CASE Server!CheckDelete(c) \/ Server!Removed(c)
    <2>1. Now \in Deletes /\ (Now' = "list" \/ Code' \in {"gone", "500"})
      BY <1>3 DEF Server!CheckDelete, Server!Removed, Server!Gone, Server!Looks, Deletes
    <2>2. UNCHANGED <<parts, cfg>>
      BY <1>3 DEF Server!CheckDelete, Server!Removed, Server!Gone, Server!Looks, Server!repo
    <2>3. Now' = "list" \/ Code' = "500" \/ ~Server!isBareRepository
      BY <1>3 DEF Server!CheckDelete, Server!Removed, Server!Gone, Server!NothingLeft,
                  Server!Entries, Server!isBareRepository, Server!IsRepository
    <2> QED BY <2>1, <2>2, <2>3 DEF Deletes, Reads, Server!isBareRepository, Server!IsRepository
  <1>4. CASE \/ Server!CheckRead(c) \/ Server!ReadUrl(c) \/ Server!FetchStarts(c)
             \/ Server!FetchFails(c) \/ Server!FetchEnds(c) \/ Server!GetTarball(c)
             \/ Server!ListEntries(c) \/ Server!StatKey(c) \/ Server!CreateKey(c) \/ Server!WriteKey(c)
             \/ Server!DeriveKey(c) \/ Server!CheckNew(c) \/ Server!CompareUrl(c)
    <2>0. Now = "storeRef" => "refs" \in parts
      BY DEF Cache!DiskInv, Cache!IsRepository
    <2>1. /\ UNCHANGED <<parts, cfg>>
          /\ Now' # "idle" \/ Code' \in {"404", "500", "ok", "tarball", "already"}
      BY <1>4, <2>0 DEF Server!CheckRead, Server!ReadUrl, Server!FetchStarts, Server!FetchFails,
                  Server!FetchEnds, Server!GetTarball, Server!StatKey, Server!CreateKey,
                  Server!WriteKey, Server!StoreKey, Server!DeriveKey, Server!CheckNew,
                  Server!CompareUrl, Server!ListEntries, Server!Looks, Server!repo
    <2> QED BY <2>1
  <1>5. CASE \/ Server!GitInit(c) \/ Server!AddRemote(c) \/ Server!AddFetch(c)
             \/ Server!SetUrl(c) \/ Server!SetSsh(c)
             \/ Server!SetPath(c) \/ Server!ConfigSetFails(c) \/ Server!StepFails(c)
             \/ Server!RemoveHead(c) \/ Server!RemoveRefs(c) \/ Server!RemoveConfig(c)
    <2>1. Now \notin Reads /\ (Now' # "idle" \/ Code' = "500")
      BY <1>5 DEF Server!GitInit, Server!AddRemote, Server!SetUrl, Server!SetSsh, Server!SetPath,
                  Server!ConfigSetFails, Server!StepFails, Server!RemoveHead, Server!RemoveRefs,
                  Server!RemoveConfig, Server!Unlinks, Server!AddFetch, Server!ConfigSteps,
                  Server!Writes, Server!Looks, Reads
    <2> QED BY <2>1
  <1> QED BY <1>1, <1>2, <1>3, <1>4, <1>5 DEF Server!Handle

\* What is in force stays so while only the caller or Terraform moves.
LEMMA ForceKept ==
    ASSUME UNCHANGED <<parts, cfg>>
    PROVE  /\ \A url, key : InForce(url, key)' <=> InForce(url, key)
           /\ Server!isBareRepository' <=> Server!isBareRepository
  BY DEF InForce, Server!IsRepository, Server!Configured, Server!isBareRepository

LEMMA ForceServer ==
    ASSUME Server!TypeOK, TypeOK, Cache!DiskInv, CallInv, ForceInv,
           Server!Handle(Provider) \/ Server!Crash, UNCHANGED tf
    PROVE  ForceInv'
  <1>0. UNCHANGED <<want, state, step, result, adopted>>
    BY DEF tf
  <1>1. CASE Server!Crash
    <2>1. Code' = "none"
      BY <1>1 DEF Server!Crash, Server!NoReply, Code
    <2>2. Now # "init" => UNCHANGED <<parts, cfg>>
      BY <1>1 DEF Server!Crash, Server!At, Now
    <2>3. Now = "init" => step = "create"
      BY DEF CallInv, TypeOK, Reading, Reads, Posts, Stores, Deletes
    <2>4. CASE step = "create"
      BY <1>0, <2>1, <2>4 DEF ForceInv, AppliedIsInForce
    <2>5. CASE step # "create"
      BY <1>0, <2>1, <2>2, <2>3, <2>5, ForceKept DEF ForceInv, AppliedIsInForce, InForce
    <2> QED BY <2>4, <2>5
  <1>2. CASE Server!Handle(Provider)
    <2>1. Now # "idle" /\ step # "idle"
      BY <1>2, Rests DEF CallInv
    <2>2. CASE step \in {"createRead", "updateRead"}
      <3>1. UNCHANGED <<parts, cfg>>
        BY <1>2, <2>1, <2>2, ServerForce DEF CallInv, Reading
      <3>2. Now' = "idle" /\ Code' = "state" => reply'[Provider].pub = cfg'.pub
        BY <1>2, ServerForce
      <3> QED BY <1>0, <2>1, <2>2, <3>1, <3>2, ForceKept DEF ForceInv, AppliedIsInForce
    <2>3. CASE step \in {"create", "update"}
      <3>1. req[Provider].url = want.url /\ req[Provider].key = want.key /\ req' = req
        <4>1. \/ Now \in Puts /\ req[Provider].method = "PUT"
              \/ Now \in Posts /\ req[Provider].method = "POST"
          BY <2>1, <2>3 DEF CallInv
        <4> QED BY <1>2, <2>3, <4>1, Sets DEF CallInv
      <3>2. Now' = "idle" /\ Code' \in {"registered", "adjusted"} => InForce(want.url, want.key)'
        BY <1>0, <1>2, <3>1, ServerForce
      <3> QED BY <1>0, <2>1, <2>3, <3>2 DEF ForceInv, AppliedIsInForce
    <2>4. CASE step \notin {"create", "update", "createRead", "updateRead"}
      <3>1. Now' = "idle" /\ Code' = "gone" => ~Server!isBareRepository'
        BY <1>2, ServerForce
      <3> QED BY <1>0, <2>1, <2>4, <3>1 DEF ForceInv, AppliedIsInForce
    <2> QED BY <2>2, <2>3, <2>4
  <1> QED BY <1>1, <1>2

LEMMA ForceNext ==
    Server!TypeOK /\ Cache!DiskInv /\ TypeOK /\ Asking /\ CallInv /\ ForceInv /\ [Next]_vars
      => ForceInv'
  <1> SUFFICES ASSUME Server!TypeOK, Cache!DiskInv, TypeOK, Asking, CallInv, ForceInv, [Next]_vars
               PROVE  ForceInv'
    OBVIOUS
  <1>1. CASE UNCHANGED vars
    BY <1>1, ForceKept DEF vars, ForceInv, AppliedIsInForce, InForce, Now, Code
  <1>2. CASE (Server!Handle(Provider) \/ Server!Crash) /\ UNCHANGED tf
    BY <1>2, ForceServer
  <1>3. CASE Operator \/ PlanNothing \/ ImportEnds \/ Read \/ Delete
    <2>1. CASE Operator \/ PlanNothing \/ ImportEnds \/ Read
      <3>1. step' \in {"idle", "plan", "read", "import"} /\ (step' = "idle" =>
               result' \in {"none", "noChange", "imported", "error"})
        BY <2>1 DEF Operator, Edit, Forget, Refresh, ImportState, PlanNothing, ImportEnds, Read,
                    Call, End, Answered, TypeOK
      <3> QED BY <3>1 DEF ForceInv, AppliedIsInForce
    <2>2. CASE Delete
      <3>1. /\ UNCHANGED <<parts, cfg>> /\ step = "delete" /\ Now = "idle"
            /\ \/ step' = "plan"
               \/ step' = "idle" /\ result' = "error"
               \/ step' = "idle" /\ result' = "destroyed" /\ ~Failed
        BY <2>2, Ends DEF Delete, Answered, End, server, Applying
      <3>2. ~Failed => ~Server!isBareRepository
        BY <3>1 DEF CallInv, ForceInv, Failed
      <3> QED BY <3>1, <3>2, ForceKept DEF ForceInv, AppliedIsInForce
    <2> QED BY <1>3, <2>1, <2>2
  <1>4. CASE PlanCreate \/ PlanUpdate \/ PlanDelete
    <2>1. step' \in {"create", "update", "delete"} /\ Now' # "idle"
      BY <1>4, Calls DEF PlanCreate, PlanUpdate, PlanDelete, Server!FirstStep, WithBody, Bare
    <2> QED BY <2>1 DEF ForceInv, AppliedIsInForce
  <1>5. CASE Create \/ Update
    <2>1. CASE Failed
      BY <1>5, <2>1 DEF Create, Update, End, ForceInv, AppliedIsInForce
    <2>2. CASE ~Failed
      <3>1. /\ step \in {"create", "update"} /\ Now = "idle" /\ want' = want
            /\ Call(Bare("GET"), step') /\ step' \in {"createRead", "updateRead"}
            /\ ~adopted' => Code # "already"
        BY <1>5, <2>2, Ends DEF Create, Update, Answered, Applying, Call, CallInv
      <3>2. Now' = "checkRead" /\ UNCHANGED <<parts, cfg>>
        BY <3>1, Calls DEF Server!FirstStep, Bare
      <3>3. ~adopted' => InForce(want.url, want.key)
        BY <2>2, <3>1 DEF CallInv, ForceInv, Failed
      <3> QED BY <3>1, <3>2, <3>3, ForceKept DEF ForceInv, AppliedIsInForce
    <2> QED BY <2>1, <2>2
  <1>6. CASE CreateEnds \/ UpdateEnds
    <2>1. /\ step \in {"createRead", "updateRead"} /\ Now = "idle" /\ UNCHANGED <<parts, cfg>>
          /\ step' = "idle" /\ adopted' = adopted /\ want' = want
          /\ \/ Found /\ state' = FromPlan(reply[Provider].pub, FALSE) /\ result' = "applied"
             \/ result' = "error"
      BY <1>6, Ends DEF CreateEnds, UpdateEnds, Answered, End, server, Applying
    <2>2. CASE result' = "error"
      BY <2>1, <2>2 DEF ForceInv, AppliedIsInForce
    <2>3. CASE Found /\ result' = "applied" /\ state' = FromPlan(reply[Provider].pub, FALSE)
      <3>1. state'.pub = cfg.pub
        BY <2>1, <2>3 DEF FromPlan, Found, ForceInv
      <3>2. ~adopted => InForce(want.url, want.key) /\ cfg.pub = want.key
        BY <2>1 DEF ForceInv, InForce, Server!Configured
      <3> QED BY <2>1, <2>3, <3>1, <3>2, ForceKept DEF ForceInv, AppliedIsInForce, InForce
    <2> QED BY <2>1, <2>2, <2>3
  <1> QED BY <1>1, <1>2, <1>3, <1>4, <1>5, <1>6 DEF Next, Applying

\* Whatever has failed before, on the server or under the provider's calls:
\* an apply that ends well and made the change itself leaves exactly the
\* configured settings in force, and a destroy no repository.
THEOREM AppliedIsInForceCorrect == Spec => []AppliedIsInForce
  <1>1. Init => ForceInv
    BY DEF Init, ForceInv, AppliedIsInForce
  <1>2. ForceInv => AppliedIsInForce
    BY DEF ForceInv
  <1>3. TypeOK => Server!TypeOK
    BY DEF TypeOK
  <1> QED BY <1>1, <1>2, <1>3, CallInit, CallNext, ForceNext, ServerStep, ServerInvariants,
             TypeCorrect, PTL DEF Spec

-----------------------------------------------------------------------------
(* To the provider the server is one registration.                         *)

LEMMA SamePromise ==
    /\ Server!Promise!Init <=> Cache!Promise!Init
    /\ [Server!Promise!Next]_(Server!Promise!vars) <=> [Cache!Promise!Next]_(Cache!Promise!vars)
  <1>1. Server!Registered = Cache!Registered /\ Server!Registered' = Cache!Registered'
    BY DEF Server!Registered, Cache!Registered, Server!AtWork, Cache!AtWork, Server!Whole,
           Cache!Whole, Server!HalfDone, Cache!HalfDone, Server!NothingLeft,
           Cache!NothingLeft, Server!Entries, Cache!Entries, Server!IsRepository,
           Cache!IsRepository, Server!Configured, Cache!Configured, Server!NoConfig,
           Cache!NoConfig
  <1>2. /\ {c \in {Provider} : ~Server!At(c, "idle")} = {c \in {Provider} : ~Cache!At(c, "idle")}
        /\ {c \in {Provider} : ~Server!At(c, "idle")}' = {c \in {Provider} : ~Cache!At(c, "idle")}'
    BY DEF Server!At, Cache!At
  <1>3. Server!Requests = Cache!Requests
    BY DEF Server!Requests, Cache!Requests
  <1> USE <1>1, <1>2, <1>3
      DEF Server!Promise!vars, Cache!Promise!vars, Server!Promise!Reg, Cache!Promise!Reg,
          Server!Promise!Nothing, Cache!Promise!Nothing, Server!Promise!Changing,
          Cache!Promise!Changing, Server!Promise!Broken, Cache!Promise!Broken,
          Server!Promise!Settled, Cache!Promise!Settled, Server!Promise!NoReply,
          Cache!Promise!NoReply, Server!Promise!Asked, Cache!Promise!Asked,
          Server!Promise!Answer, Cache!Promise!Answer, Server!Promise!Says, Cache!Promise!Says,
          Server!Promise!LeavesOff, Cache!Promise!LeavesOff
  <1>4. Server!Promise!Init <=> Cache!Promise!Init
    BY DEF Server!Promise!Init, Cache!Promise!Init
  <1>5. UNCHANGED Server!Promise!vars <=> UNCHANGED Cache!Promise!vars
    OBVIOUS
  <1>6. /\ Server!Promise!Ask(Provider) <=> Cache!Promise!Ask(Provider)
        /\ Server!Promise!Begin(Provider) <=> Cache!Promise!Begin(Provider)
        /\ Server!Promise!Acknowledge(Provider) <=> Cache!Promise!Acknowledge(Provider)
        /\ Server!Promise!Tell(Provider) <=> Cache!Promise!Tell(Provider)
        /\ Server!Promise!Refuse(Provider) <=> Cache!Promise!Refuse(Provider)
        /\ Server!Promise!Crash <=> Cache!Promise!Crash
    BY DEF Server!Promise!Ask, Cache!Promise!Ask, Server!Promise!Begin, Cache!Promise!Begin,
           Server!Promise!Acknowledge, Cache!Promise!Acknowledge, Server!Promise!Tell,
           Cache!Promise!Tell, Server!Promise!Refuse, Cache!Promise!Refuse,
           Server!Promise!Crash, Cache!Promise!Crash
  <1> QED BY <1>4, <1>5, <1>6 DEF Server!Promise!Next, Cache!Promise!Next

\* The provider, for any edits, applies, imports and faults, works on one
\* registration that keeps what Registration promises.
THEOREM ProviderSeesRegistration == Spec => Server!ImplementsRegistration
  <1>1. Cache!OneCaller
    BY DEF Cache!OneCaller
  <1>2. Cache!Spec => Cache!ImplementsRegistration
    BY <1>1, Assumptions, Cache!ImplementsRegistrationCorrect
  <1>3. /\ Server!Init <=> Cache!Init
        /\ [Server!Next]_(Server!vars) <=> [Cache!Next]_(Cache!vars)
    <2>1. UNCHANGED Server!vars <=> UNCHANGED Cache!vars
      BY DEF Server!vars, Cache!vars
    <2> QED BY <2>1, SameModule, SameNext
  <1> QED BY <1>2, <1>3, SamePromise, ImplementsServer, PTL
          DEF Server!Spec, Cache!Spec, Server!ImplementsRegistration, Cache!ImplementsRegistration,
              Server!Promise!Spec, Cache!Promise!Spec

=============================================================================
