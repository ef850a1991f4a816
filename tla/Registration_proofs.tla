------------------------- MODULE Registration_proofs -------------------------
(* With one caller the cache server keeps what Registration promises,      *)
(* whatever fails: CacheRegistry implements it.                            *)
EXTENDS CacheRegistry_proofs

\* Where the handler of a request can be, and what the disk says there.  Of a
\* repository that faults left behind, only this is certain: the origin is
\* set in bare repositories only.
StepsOf(method) ==
    CASE method = "PUT"  -> {"statKey", "createKey", "writeKey", "deriveKey", "checkNew",
                             "init", "addRemote", "addFetch", "setSsh", "setPath", "setPub"}
      [] method = "POST" -> {"statKey", "createKey", "writeKey", "deriveKey", "compareUrl",
                             "setUrl", "setSsh", "setPath", "setPub"}
      [] method = "GET"     -> {"checkRead", "readUrl", "readPub"}
      [] method = "DELETE"  -> {"checkDelete", "list", "remove"}
      [] method = "SYNC"    -> {"fetch", "storeRef"}
      [] method = "TARBALL" -> {"archive"}

DiskInv ==
    /\ cfg.url # None => cfg.bare
    /\ \A c \in Clients :
         /\ pc[c] # "idle" => pc[c] \in StepsOf(req[c].method)
         /\ pc[c] = "init" => ~isBareRepository
         /\ pc[c] \in {"addRemote", "list"} => isBareRepository
         /\ pc[c] \in {"addFetch", "setSsh", "setPath", "setPub"} =>
              isBareRepository /\ cfg.url = req[c].url
         /\ pc[c] \in {"setPath", "setPub"} => cfg.ssh = req[c].key
         /\ pc[c] = "setPub" => cfg.path = req[c].key
         /\ pc[c] \in {"readUrl", "readPub"} => isBareRepository
         /\ pc[c] = "readPub" => held[c] = cfg.url /\ cfg.url # None
         /\ pc[c] = "storeRef" => IsRepository

\* A handler that answers leaves the invariant to the next request.
LEMMA DiskAtRest ==
    ASSUME OneCaller, TypeOK, NEW c \in Clients, pc' = [pc EXCEPT ![c] = "idle"],
           cfg'.url # None => cfg'.bare
    PROVE  DiskInv'
  BY DEF OneCaller, TypeOK, DiskInv

\* Steps that change neither the configuration nor what is there of the
\* repository.
LEMMA DiskLooks ==
    ASSUME OneCaller, TypeOK, DiskInv, NEW c \in Clients,
           \/ StatKey(c) \/ CreateKey(c) \/ WriteKey(c) \/ DeriveKey(c) \/ CheckNew(c)
           \/ CompareUrl(c) \/ CheckRead(c) \/ ReadUrl(c) \/ CheckDelete(c) \/ FetchStarts(c)
    PROVE  DiskInv'
  <1>0. /\ \A d \in Clients : d = c
        /\ pc \in [Clients -> Steps] /\ held \in [Clients -> Urls \cup {None}]
        /\ req[c].url # None /\ req[c].method \in Methods /\ req[c] \in Requests
    BY CacheAssumption DEF OneCaller, TypeOK, Requests
  <1>1. UNCHANGED <<parts, cfg, req>>
    BY DEF StatKey, CreateKey, WriteKey, StoreKey, DeriveKey, CheckNew, CompareUrl, CheckRead,
           ReadUrl, CheckDelete, Gone, FetchStarts, Looks, repo
  <1>2. isBareRepository' <=> isBareRepository
    BY <1>1 DEF isBareRepository, IsRepository
  <1>8. IsRepository' <=> IsRepository
    BY <1>1 DEF IsRepository
  <1> USE DEF At, Goto, Reply, Answer
  <1>3. CASE StatKey(c) \/ CreateKey(c) \/ WriteKey(c) \/ DeriveKey(c)
    <2>1. req[c].method \in {"PUT", "POST"} /\ pc[c] # "idle"
      BY <1>0, <1>3, CacheAssumption
         DEF StatKey, CreateKey, WriteKey, StoreKey, DeriveKey, Looks, DiskInv, StepsOf
    <2>2. \/ pc'[c] \in {"createKey", "writeKey", "deriveKey", "idle"}
          \/ pc'[c] = IF req[c].method = "PUT" THEN "checkNew" ELSE "compareUrl"
      BY <1>0, <1>3 DEF StatKey, CreateKey, WriteKey, StoreKey, DeriveKey
    <2> QED BY <1>0, <1>1, <2>1, <2>2 DEF DiskInv, StepsOf
  <1>4. CASE CheckNew(c)
    BY <1>0, <1>1, <1>2, <1>4, CacheAssumption DEF CheckNew, Looks, DiskInv, StepsOf
  <1>5. CASE CompareUrl(c)
    <2>1. req[c].method = "POST"
      BY <1>0, <1>5, CacheAssumption DEF CompareUrl, Looks, DiskInv, StepsOf
    <2>2. \/ pc'[c] = "setUrl"
          \/ pc'[c] = "setSsh" /\ isBareRepository /\ cfg.url = req[c].url
      BY <1>0, <1>5 DEF CompareUrl, DiskInv, isBareRepository
    <2> QED BY <1>0, <1>1, <1>2, <2>1, <2>2 DEF DiskInv, StepsOf
  <1>6. CASE CheckRead(c) \/ ReadUrl(c)
    <2>1. req[c].method = "GET"
      BY <1>0, <1>6, CacheAssumption DEF CheckRead, ReadUrl, Looks, DiskInv, StepsOf
    <2>2. \/ pc'[c] = "idle"
          \/ pc'[c] = "readUrl" /\ isBareRepository
          \/ pc'[c] = "readPub" /\ isBareRepository /\ held'[c] = cfg.url /\ cfg.url # None
      BY <1>0, <1>6 DEF CheckRead, ReadUrl, DiskInv
    <2> QED BY <1>0, <1>1, <1>2, <2>1, <2>2 DEF DiskInv, StepsOf
  <1>7. CASE CheckDelete(c) \/ FetchStarts(c)
    <2>1. /\ CheckDelete(c) => req[c].method = "DELETE"
          /\ FetchStarts(c) => req[c].method = "SYNC"
      BY <1>0, CacheAssumption DEF CheckDelete, FetchStarts, Looks, DiskInv, StepsOf
    <2>2. \/ pc'[c] = "idle"
          \/ pc'[c] = "list" /\ isBareRepository /\ req[c].method = "DELETE"
          \/ pc'[c] = "storeRef" /\ IsRepository /\ req[c].method = "SYNC"
      BY <1>0, <1>7, <2>1 DEF CheckDelete, Gone, FetchStarts
    <2> QED BY <1>0, <1>1, <1>2, <1>8, <2>2 DEF DiskInv, StepsOf
  <1> QED BY <1>3, <1>4, <1>5, <1>6, <1>7

LEMMA DiskWrites ==
    ASSUME OneCaller, TypeOK, DiskInv, NEW c \in Clients,
           \/ GitInit(c) \/ AddRemote(c) \/ AddFetch(c) \/ SetUrl(c) \/ SetSsh(c) \/ SetPath(c)
           \/ SetPub(c)
    PROVE  DiskInv'
  <1>0. /\ \A d \in Clients : d = c
        /\ pc \in [Clients -> Steps] /\ cfg \in Configs
        /\ req[c].method \in Methods
    BY DEF OneCaller, TypeOK, Requests
  <1> USE DEF At, Goto, Reply, Answer
  <1>1. CASE GitInit(c)
    <2>1. isBareRepository' /\ pc'[c] = "addRemote" /\ req' = req /\ req[c].method = "PUT"
      BY <1>0, <1>1, CacheAssumption
         DEF GitInit, isBareRepository, IsRepository, Configs, DiskInv, StepsOf
    <2> QED BY <1>0, <2>1 DEF DiskInv, StepsOf, isBareRepository
  <1>2. CASE \E step : Looks(c, step) /\ Reply(c, "500")
    BY <1>2, DiskAtRest DEF Looks, repo, DiskInv
  <1>3. CASE \E next \in {"addFetch", "setSsh"} :
               /\ IsRepository /\ cfg.bare /\ pc[c] \in {"addRemote", "setUrl"}
               /\ next = "addFetch" => pc[c] = "addRemote"
               /\ Writes(c, pc[c], [cfg EXCEPT !.url = req[c].url]) /\ Goto(c, next)
    <2>1. PICK next \in {"addFetch", "setSsh"} :
               /\ next = "addFetch" => pc[c] = "addRemote"
               /\ Writes(c, pc[c], [cfg EXCEPT !.url = req[c].url]) /\ Goto(c, next)
      BY <1>3
    <2>2. /\ isBareRepository' /\ cfg'.url = req[c].url /\ pc'[c] = next /\ req' = req
          /\ req[c].method \in {"PUT", "POST"} /\ (next = "addFetch" => req[c].method = "PUT")
      BY <1>0, <1>3, <2>1, CacheAssumption
         DEF Writes, isBareRepository, IsRepository, Configs, DiskInv, StepsOf
    <2> QED BY <1>0, <2>2 DEF DiskInv, StepsOf, isBareRepository
  <1>4. CASE AddRemote(c) \/ SetUrl(c)
    <2>1. IsRepository /\ AddRemote(c) /\ pc[c] = "addRemote" => cfg.bare
      BY DEF DiskInv, isBareRepository
    <2>2. cfg.url # None => cfg.bare
      BY DEF DiskInv
    <2>3. \/ \E step : Looks(c, step) /\ Reply(c, "500")
          \/ \E next \in {"addFetch", "setSsh"} :
               /\ IsRepository /\ cfg.bare /\ pc[c] \in {"addRemote", "setUrl"}
               /\ next = "addFetch" => pc[c] = "addRemote"
               /\ Writes(c, pc[c], [cfg EXCEPT !.url = req[c].url]) /\ Goto(c, next)
      <3> HIDE DEF Goto, Reply
      <3>1. CASE AddRemote(c)
        BY <2>1, <3>1 DEF AddRemote, Writes
      <3>2. CASE SetUrl(c)
        BY <2>2, <3>2 DEF SetUrl, Writes
      <3> QED BY <1>4, <3>1, <3>2
    <2> QED BY <1>2, <1>3, <2>3
  <1>7. CASE AddFetch(c)
    <2>1. pc[c] = "addFetch" /\ req[c].method = "PUT" /\ isBareRepository /\ cfg.url = req[c].url
      BY <1>0, <1>7, CacheAssumption DEF AddFetch, Writes, Looks, DiskInv, StepsOf
    <2>2. /\ isBareRepository' /\ cfg'.url = req[c].url /\ req' = req /\ pc'[c] = "setSsh"
      BY <1>0, <1>7, <2>1 DEF AddFetch, Writes, isBareRepository, IsRepository, Configs
    <2> QED BY <1>0, <2>1, <2>2 DEF DiskInv, StepsOf, isBareRepository
  <1>5. CASE SetSsh(c) \/ SetPath(c)
    <2>1. req[c].method \in {"PUT", "POST"} /\ isBareRepository /\ cfg.url = req[c].url
      BY <1>0, <1>5, CacheAssumption DEF SetSsh, SetPath, Writes, DiskInv, StepsOf
    <2>2. /\ isBareRepository' /\ cfg'.url = req[c].url /\ req' = req
          /\ pc'[c] \in {"setPath", "setPub"}
      BY <1>0, <1>5, <2>1 DEF SetSsh, SetPath, Writes, isBareRepository, IsRepository, Configs
    <2>3. cfg'.ssh = req[c].key
      BY <1>0, <1>5 DEF SetSsh, SetPath, Writes, DiskInv, Configs
    <2>4. pc'[c] = "setPub" => cfg'.path = req[c].key
      BY <1>0, <1>5 DEF SetSsh, SetPath, Writes, Configs
    <2> QED BY <1>0, <2>1, <2>2, <2>3, <2>4 DEF DiskInv, StepsOf, isBareRepository
  <1>6. CASE SetPub(c)
    <2>1. pc' = [pc EXCEPT ![c] = "idle"] /\ cfg'.bare
      BY <1>0, <1>6 DEF SetPub, Writes, DiskInv, isBareRepository, Configs
    <2> QED BY <2>1, DiskAtRest
  <1> QED BY <1>1, <1>4, <1>5, <1>6, <1>7

LEMMA DiskRest ==
    ASSUME OneCaller, TypeOK, DiskInv, NEW c \in Clients,
           \/ ConfigSetFails(c) \/ ReadPub(c) \/ Removed(c) \/ FetchFails(c) \/ FetchEnds(c)
           \/ GetTarball(c) \/ StepFails(c)
           \/ ListEntries(c) \/ RemoveHead(c) \/ RemoveRefs(c) \/ RemoveConfig(c)
    PROVE  DiskInv'
  <1>1. CASE RemoveHead(c) \/ RemoveRefs(c) \/ RemoveConfig(c)
    <2>1. /\ \A d \in Clients : d = c
          /\ pc[c] = "remove" /\ UNCHANGED <<pc, req>> /\ cfg' \in {cfg, NoConfig}
      BY <1>1 DEF RemoveHead, RemoveRefs, RemoveConfig, Unlinks, At, OneCaller
    <2> QED BY <2>1 DEF DiskInv, NoConfig
  <1>2. CASE ListEntries(c)
    <2>1. /\ \A d \in Clients : d = c
          /\ pc[c] = "list" /\ pc'[c] = "remove" /\ UNCHANGED <<cfg, req>>
          /\ req[c].method \in Methods
      BY <1>2 DEF ListEntries, At, Goto, OneCaller, TypeOK, Requests, repo
    <2> QED BY <2>1, CacheAssumption DEF DiskInv, StepsOf
  <1>3. CASE StepFails(c)
    <2>1. pc' = [pc EXCEPT ![c] = "idle"]
      BY <1>3 DEF StepFails, Reply, Answer
    <2>2. cfg'.url = cfg.url /\ (cfg.bare => cfg'.bare)
      BY <1>3 DEF StepFails, HalfInit, TypeOK, Configs
    <2> QED BY <2>1, <2>2, DiskAtRest DEF DiskInv
  <1>4. CASE \/ ConfigSetFails(c) \/ ReadPub(c) \/ Removed(c) \/ FetchFails(c) \/ FetchEnds(c)
             \/ GetTarball(c)
    <2>1. pc' = [pc EXCEPT ![c] = "idle"] /\ cfg' = cfg
      BY <1>4 DEF ConfigSetFails, ReadPub, Removed, Gone, FetchFails, FetchEnds, GetTarball,
                  Looks, Reply, Answer, repo
    <2> QED BY <2>1, DiskAtRest DEF DiskInv
  <1> QED BY <1>1, <1>2, <1>3, <1>4

LEMMA DiskNext == OneCaller /\ TypeOK /\ DiskInv /\ [Next]_vars => DiskInv'
  <1> SUFFICES ASSUME OneCaller, TypeOK, DiskInv, [Next]_vars PROVE DiskInv'
    OBVIOUS
  <1>1. CASE UNCHANGED vars
    BY <1>1 DEF vars, DiskInv, isBareRepository, IsRepository
  <1>2. ASSUME NEW c \in Clients, NEW r \in Requests, Request(c, r) PROVE DiskInv'
    <2>1. r.method \in Methods
      BY DEF Requests
    <2>2. FirstStep(r.method) \in StepsOf(r.method) \cap
            {"statKey", "checkRead", "checkDelete", "fetch", "archive"}
      BY <2>1, CacheAssumption DEF FirstStep, StepsOf
    <2>3. (\A d \in Clients : d = c) /\ pc'[c] = FirstStep(r.method) /\ req'[c] = r /\ cfg' = cfg
      BY <1>2 DEF Request, Goto, OneCaller, TypeOK, repo
    <2> QED BY <2>2, <2>3 DEF DiskInv
  <1>3. CASE Crash
    <2>1. cfg'.url = cfg.url /\ (cfg.bare => cfg'.bare)
      BY <1>3 DEF Crash, HalfInit, TypeOK, Configs
    <2> QED BY <1>3, <2>1 DEF Crash, DiskInv
  <1> QED BY <1>1, <1>2, <1>3, DiskLooks, DiskWrites, DiskRest DEF Next, Handle

\* One caller, any faults: each step of a handler finds the disk as the steps
\* before it, and whatever faults came earlier, have left it.
LEMMA DiskHolds == ASSUME OneCaller PROVE Spec => []DiskInv
  <1>1. Init => DiskInv
    BY DEF Init, DiskInv, NoConfig
  <1>2. TypeOK /\ DiskInv /\ [Next]_vars => DiskInv'
    BY DiskNext
  <1> QED BY <1>1, <1>2, TypeCorrect, PTL DEF Spec

-----------------------------------------------------------------------------
(* The registration that is seen, before and after a step.                 *)

busy == {c \in Clients : ~At(c, "idle")}

Seen ==
    /\ AtWork => Registered = Promise!Changing
    /\ ~AtWork /\ Whole => Registered = Promise!Reg("whole", cfg.url, cfg.pub)
    /\ ~AtWork /\ NothingLeft => Registered = Promise!Nothing
    /\ ~AtWork /\ ~Whole /\ ~NothingLeft => Registered = Promise!Broken
    /\ Whole => isBareRepository
    /\ isBareRepository => ~NothingLeft

LEMMA SeenHolds == Seen /\ Seen'
  BY DEF Seen, Registered, Promise!Changing, Promise!Nothing, Promise!Broken, Promise!Reg,
         Whole, NothingLeft, Entries, isBareRepository, IsRepository, Configured, NoConfig

\* The abstract registrations are told apart by what they are.
LEMMA Apart ==
    /\ Promise!Nothing # Promise!Changing /\ Promise!Broken # Promise!Changing
    /\ Promise!Nothing # Promise!Broken
    /\ \A u, k : Promise!Reg("whole", u, k) \notin
                   {Promise!Nothing, Promise!Changing, Promise!Broken}
    /\ Promise!Changing \notin Promise!Settled
    /\ Promise!Nothing \in Promise!Settled /\ Promise!Broken \in Promise!Settled
    /\ \A u \in Urls, k \in Keys : Promise!Reg("whole", u, k) \in Promise!Settled
  BY DEF Promise!Nothing, Promise!Changing, Promise!Broken, Promise!Reg, Promise!Settled

\* At rest the registration is settled.
LEMMA SeenSettled ==
    ASSUME cfg \in Configs, ~AtWork
    PROVE  /\ Registered \in Promise!Settled
           /\ Registered = Promise!Nothing <=> NothingLeft
           /\ Whole => cfg.url \in Urls /\ cfg.pub \in Keys
  <1>1. Whole => cfg.url \in Urls /\ cfg.pub \in Keys
    BY DEF Whole, Configs
  <1> QED BY <1>1, SeenHolds, Apart DEF Seen

LEMMA SeenSettledAfter ==
    ASSUME cfg' \in Configs, ~AtWork'
    PROVE  /\ Registered' \in Promise!Settled
           /\ Registered' = Promise!Nothing <=> NothingLeft'
  <1>1. Whole' => cfg'.url \in Urls /\ cfg'.pub \in Keys
    BY DEF Whole, Configs
  <1> QED BY <1>1, SeenHolds, Apart DEF Seen

\* What one caller does is all that is done.
LEMMA Alone ==
    ASSUME OneCaller, NEW c \in Clients
    PROVE  /\ \A d \in Clients : d = c
           /\ AtWork <=> pc[c] \in HalfDone
           /\ AtWork' <=> pc'[c] \in HalfDone
           /\ c \in busy <=> pc[c] # "idle"
           /\ busy = IF pc[c] = "idle" THEN {} ELSE {c}
           /\ busy' = IF pc'[c] = "idle" THEN {} ELSE {c}
  BY DEF OneCaller, AtWork, HalfDone, busy, At

\* Steps that the caller cannot tell.
LEMMA Unseen ==
    ASSUME OneCaller, NEW c \in Clients, pc[c] # "idle", pc'[c] # "idle",
           UNCHANGED <<req, reply>>,
           \/ pc[c] \in HalfDone /\ pc'[c] \in HalfDone
           \/ pc[c] \notin HalfDone /\ pc'[c] \notin HalfDone /\ UNCHANGED <<parts, cfg>>
    PROVE  UNCHANGED Promise!vars
  <1>1. busy' = busy
    BY Alone
  <1>2. Registered' = Registered
    <2>1. CASE AtWork /\ AtWork'
      BY <2>1, SeenHolds DEF Seen, Promise!Changing
    <2>2. CASE ~AtWork /\ ~AtWork' /\ UNCHANGED <<parts, cfg>>
      BY <2>2 DEF Registered, Whole, NothingLeft, Entries, IsRepository, Configured
    <2> QED BY <2>1, <2>2, Alone
  <1> QED BY <1>1, <1>2 DEF Promise!vars, busy

\* The first step that changes something on the disk.
LEMMA Begins ==
    ASSUME OneCaller, TypeOK, NEW c \in Clients, pc[c] \notin HalfDone \cup {"idle"},
           pc'[c] \in HalfDone, UNCHANGED <<req, reply>>,
           \/ req[c].method = "PUT" /\ ~isBareRepository
           \/ req[c].method \in {"POST", "DELETE"} /\ isBareRepository
    PROVE  Promise!Begin(c)
  <1>1. ~AtWork /\ AtWork' /\ c \in busy /\ busy' = busy /\ cfg \in Configs
    BY Alone DEF TypeOK, HalfDone
  <1>2. Registered' = Promise!Changing
    BY <1>1, SeenHolds DEF Seen
  <1>3. \/ req[c].method = "PUT" /\ Registered \in {Promise!Nothing, Promise!Broken}
        \/ /\ req[c].method \in {"POST", "DELETE"}
           /\ Registered \in Promise!Settled \ {Promise!Nothing}
    BY <1>1, SeenHolds, SeenSettled DEF Seen
  <1> QED BY <1>1, <1>2, <1>3 DEF Promise!Begin, Promise!Asked, busy

\* An answer, at either level.
LEMMA Answers ==
    ASSUME OneCaller, TypeOK, NEW c \in Clients, NEW code, NEW url, NEW pub,
           Answer(c, code, url, pub), pc[c] # "idle", UNCHANGED req
    PROVE  /\ Promise!Answer(c, code, url, pub)
           /\ c \in busy /\ ~AtWork' /\ (AtWork <=> pc[c] \in HalfDone)
  <1>1. pc'[c] = "idle"
    BY DEF Answer, TypeOK
  <1>2. busy' = busy \ {c} /\ c \in busy
    BY <1>1, Alone
  <1> QED BY <1>1, <1>2, Alone DEF Promise!Answer, Answer, busy, HalfDone

\* Answers of handlers that changed nothing.
LEMMA Tells ==
    ASSUME OneCaller, TypeOK, NEW c \in Clients, NEW code, NEW url, NEW pub,
           Answer(c, code, url, pub), UNCHANGED <<parts, cfg, req>>,
           pc[c] \notin HalfDone \cup {"idle"},
           LET method == req[c].method
           IN  \/ method = "PUT" /\ code = "already" /\ url = None /\ pub = None
                    /\ isBareRepository
               \/ method = "DELETE" /\ code = "gone" /\ url = None /\ pub = None
                    /\ ~isBareRepository
               \/ method = "GET" /\ code = "404" /\ url = None /\ pub = None
                    /\ ~isBareRepository
               \/ method = "GET" /\ code = "state" /\ url = cfg.url /\ pub = cfg.pub
                    /\ isBareRepository /\ cfg.url # None
               \/ method = "SYNC" /\ code = "ok" /\ url = None /\ pub = None
                    /\ IsRepository
               \/ method = "TARBALL" /\ code = "tarball" /\ pub = None
                    /\ url \in Urls \cup {None} /\ (~IsRepository => url = None)
    PROVE  Promise!Tell(c)
  <1>0. cfg \in Configs
    BY DEF TypeOK
  <1>1. Promise!Answer(c, code, url, pub) /\ c \in busy /\ ~AtWork /\ ~AtWork'
    BY Answers
  <1>2. Registered' = Registered
    BY <1>1 DEF Registered, Whole, NothingLeft, Entries, IsRepository, Configured
  <1>3. /\ Registered \in Promise!Settled
        /\ isBareRepository => Registered # Promise!Nothing
        /\ IsRepository => Registered # Promise!Nothing
        /\ ~isBareRepository => Registered \in {Promise!Nothing, Promise!Broken}
    <2>1. IsRepository => ~NothingLeft
      BY DEF IsRepository, NothingLeft, Entries
    <2> QED BY <1>0, <1>1, <2>1, SeenHolds, SeenSettled DEF Seen
  <1>4. CASE req[c].method = "GET" /\ code = "state"
    <2>1. isBareRepository /\ url = cfg.url /\ pub = cfg.pub /\ url \in Urls
          /\ pub \in Keys \cup {None}
      BY <1>0, <1>4 DEF Configs
    <2>2. CASE Whole
      <3>1. Registered = Promise!Reg("whole", cfg.url, cfg.pub)
        BY <1>1, <2>2, SeenHolds DEF Seen
      <3>2. Registered.is = "whole" /\ Registered.url = url /\ Registered.key = pub
        BY <2>1, <3>1 DEF Promise!Reg
      <3> QED BY <1>1, <1>2, <1>4, <3>2 DEF Promise!Tell, Promise!Asked, busy
    <2>3. CASE ~Whole
      <3>1. Registered = Promise!Broken
        BY <1>1, <2>1, <2>3, SeenHolds DEF Seen
      <3> QED BY <1>1, <1>2, <1>4, <2>1, <3>1 DEF Promise!Tell, Promise!Asked, busy
    <2> QED BY <2>2, <2>3
  <1>5. CASE req[c].method = "TARBALL" /\ code = "tarball"
    <2>1. Registered = Promise!Nothing => url = None
      BY <1>3, <1>5
    <2> QED BY <1>1, <1>2, <1>3, <1>5, <2>1 DEF Promise!Tell, Promise!Asked, busy
  <1>6. CASE ~(req[c].method = "GET" /\ code = "state") /\ req[c].method # "TARBALL"
    BY <1>1, <1>2, <1>3, <1>6 DEF Promise!Tell, Promise!Says, Promise!Asked, busy
  <1> QED BY <1>4, <1>5, <1>6

\* A handler that gives up, whether or not it has changed something.
LEMMA Refuses ==
    ASSUME OneCaller, TypeOK, TypeOK', NEW c \in Clients, Reply(c, "500"), pc[c] # "idle",
           UNCHANGED req, pc[c] \notin HalfDone => UNCHANGED <<parts, cfg>>,
           req[c].method # "TARBALL",
           req[c].method = "GET" => ~AtWork /\ ~Whole /\ ~NothingLeft
    PROVE  Promise!Refuse(c)
  <1>1. Promise!Answer(c, "500", None, None) /\ c \in busy /\ ~AtWork'
    BY Answers DEF Reply
  <1>2. Registered' \in Promise!Settled
    BY <1>1, SeenSettledAfter DEF TypeOK
  <1>3. ~AtWork => Registered' = Registered
    BY <1>1, Alone DEF Registered, Whole, NothingLeft, Entries, IsRepository, Configured
  <1>4. AtWork => Registered = Promise!Changing
    BY SeenHolds DEF Seen
  <1>5. ~AtWork => Registered # Promise!Changing
    BY SeenSettled, Apart DEF TypeOK
  <1>6. Promise!LeavesOff
    BY <1>2, <1>3, <1>4, <1>5 DEF Promise!LeavesOff
  <1>7. req[c].method = "GET" => Registered = Promise!Broken
    BY SeenHolds DEF Seen
  <1> QED BY <1>1, <1>6, <1>7 DEF Promise!Refuse, Promise!Says, Promise!Asked, busy

-----------------------------------------------------------------------------
(* Every step of a handler is a step of the registration, or none.         *)

Step == Promise!Next \/ UNCHANGED Promise!vars

LEMMA PromiseSteps ==
    ASSUME NEW c \in Clients,
           \/ Promise!Ask(c) \/ Promise!Begin(c) \/ Promise!Acknowledge(c) \/ Promise!Tell(c)
           \/ Promise!Refuse(c) \/ UNCHANGED Promise!vars
    PROVE  Step
  BY DEF Step, Promise!Next

LEMMA KeySteps ==
    ASSUME OneCaller, TypeOK, TypeOK', DiskInv, NEW c \in Clients,
           StatKey(c) \/ CreateKey(c) \/ WriteKey(c) \/ DeriveKey(c)
    PROVE  Step
  <1>0. /\ pc \in [Clients -> Steps] /\ UNCHANGED <<parts, cfg, req>>
        /\ pc[c] \in {"statKey", "createKey", "writeKey", "deriveKey"}
    BY DEF TypeOK, StatKey, CreateKey, WriteKey, StoreKey, DeriveKey, Looks, At, repo
  <1>1. pc[c] \notin HalfDone \cup {"idle"} /\ req[c].method \in {"PUT", "POST"}
    BY <1>0, CacheAssumption DEF TypeOK, Requests, HalfDone, DiskInv, StepsOf
  <1>2. CASE Reply(c, "500")
    BY <1>0, <1>1, <1>2, Refuses, PromiseSteps DEF HalfDone
  <1>3. CASE pc'[c] \notin HalfDone \cup {"idle"} /\ reply' = reply
    BY <1>0, <1>1, <1>3, Unseen, PromiseSteps
  <1> QED BY <1>0, <1>1, <1>2, <1>3 DEF StatKey, CreateKey, WriteKey, StoreKey, DeriveKey, Goto, HalfDone

LEMMA CheckSteps ==
    ASSUME OneCaller, TypeOK, TypeOK', DiskInv, NEW c \in Clients,
           CheckNew(c) \/ CompareUrl(c) \/ CheckRead(c) \/ CheckDelete(c)
    PROVE  Step
  <1>0. pc \in [Clients -> Steps] /\ req[c].method \in Methods /\ req[c].url # None
    BY CacheAssumption DEF TypeOK, Requests
  <1>1. /\ UNCHANGED <<parts, cfg, req>> /\ pc[c] \notin HalfDone \cup {"idle"}
    BY DEF CheckNew, CompareUrl, CheckRead, CheckDelete, Gone, Looks, At, HalfDone, repo
  <1> USE DEF HalfDone, Goto, At
  <1>2. CASE CheckNew(c)
    <2>1. req[c].method = "PUT"
      BY <1>0, <1>2, CacheAssumption DEF CheckNew, Looks, DiskInv, StepsOf
    <2>2. CASE isBareRepository
      BY <1>1, <1>2, <2>1, <2>2, Tells, PromiseSteps DEF CheckNew, Reply
    <2>3. CASE ~isBareRepository
      BY <1>0, <1>1, <1>2, <2>1, <2>3, Begins, PromiseSteps DEF CheckNew
    <2> QED BY <2>2, <2>3
  <1>3. CASE CompareUrl(c)
    <2>1. req[c].method = "POST"
      BY <1>0, <1>3, CacheAssumption DEF CompareUrl, Looks, DiskInv, StepsOf
    <2>2. CASE IsRepository /\ cfg.url = req[c].url
      <3>1. isBareRepository
        BY <1>0, <2>2 DEF DiskInv, isBareRepository
      <3> QED BY <1>0, <1>1, <1>3, <2>1, <2>2, <3>1, Begins, PromiseSteps DEF CompareUrl
    <2>3. CASE ~(IsRepository /\ cfg.url = req[c].url)
      BY <1>0, <1>1, <1>3, <2>3, Unseen, PromiseSteps DEF CompareUrl
    <2> QED BY <2>2, <2>3
  <1>4. CASE CheckRead(c)
    <2>1. req[c].method = "GET"
      BY <1>0, <1>4, CacheAssumption DEF CheckRead, Looks, DiskInv, StepsOf
    <2>2. CASE isBareRepository
      BY <1>0, <1>1, <1>4, <2>2, Unseen, PromiseSteps DEF CheckRead
    <2>3. CASE ~isBareRepository
      BY <1>1, <1>4, <2>1, <2>3, Tells, PromiseSteps DEF CheckRead, Reply
    <2> QED BY <2>2, <2>3
  <1>5. CASE CheckDelete(c)
    <2>1. req[c].method = "DELETE"
      BY <1>0, <1>5, CacheAssumption DEF CheckDelete, Looks, DiskInv, StepsOf
    <2>2. CASE isBareRepository
      BY <1>0, <1>1, <1>5, <2>2, Unseen, PromiseSteps DEF CheckDelete, Looks
    <2>3. CASE ~isBareRepository
      BY <1>1, <1>5, <2>1, <2>3, Tells, PromiseSteps DEF CheckDelete, Gone, Reply
    <2> QED BY <2>2, <2>3
  <1> QED BY <1>2, <1>3, <1>4, <1>5

LEMMA InitSteps ==
    ASSUME OneCaller, TypeOK, TypeOK', DiskInv, NEW c \in Clients,
           GitInit(c) \/ AddRemote(c) \/ AddFetch(c) \/ SetUrl(c) \/ SetSsh(c) \/ SetPath(c)
    PROVE  Step
  <1>0. pc \in [Clients -> Steps] /\ req[c].method \in Methods
    BY DEF TypeOK, Requests
  <1> USE DEF HalfDone, Goto, At
  <1>1. CASE GitInit(c)
    BY <1>0, <1>1, Unseen, PromiseSteps DEF GitInit
  <1>2. CASE /\ pc[c] \in {"addRemote", "addFetch", "setUrl"}
             /\ Looks(c, pc[c]) /\ Reply(c, "500")
    <2>1. req[c].method \in {"PUT", "POST"}
      BY <1>0, <1>2, CacheAssumption DEF DiskInv, StepsOf
    <2> QED BY <1>2, <2>1, Refuses, PromiseSteps DEF Looks, repo
  <1>3. CASE SetUrl(c) /\ pc'[c] = "setSsh" /\ reply' = reply /\ IsRepository /\ cfg.url # None
    <2>1. req[c].method = "POST" /\ isBareRepository /\ UNCHANGED req /\ pc[c] = "setUrl"
      BY <1>0, <1>3, CacheAssumption
         DEF SetUrl, Writes, Looks, DiskInv, StepsOf, isBareRepository
    <2> QED BY <1>3, <2>1, Begins, PromiseSteps
  <1>4. CASE /\ UNCHANGED req
             /\ pc[c] \in HalfDone /\ pc'[c] \in HalfDone /\ reply' = reply
    BY <1>4, Unseen, PromiseSteps
  <1>5. CASE SetSsh(c) \/ SetPath(c)
    BY <1>0, <1>5, Unseen, PromiseSteps DEF SetSsh, SetPath, Writes
  <1>6. CASE AddRemote(c) \/ AddFetch(c)
    <2>1. UNCHANGED req /\ pc[c] \in HalfDone
      BY <1>6 DEF AddRemote, AddFetch, Writes, Looks
    <2>2. \/ Looks(c, pc[c]) /\ Reply(c, "500") /\ pc[c] \in {"addRemote", "addFetch"}
          \/ pc'[c] \in HalfDone /\ reply' = reply
      BY <1>0, <1>6 DEF AddRemote, AddFetch, Writes, Looks
    <2> QED BY <1>2, <1>4, <1>6, <2>1, <2>2
  <1>7. CASE SetUrl(c)
    BY <1>0, <1>2, <1>3, <1>7 DEF SetUrl, Looks
  <1> QED BY <1>1, <1>5, <1>6, <1>7

\* The last setting is the one that makes the registration whole.
LEMMA SetPubStep ==
    ASSUME OneCaller, TypeOK, TypeOK', DiskInv, NEW c \in Clients, SetPub(c)
    PROVE  Step
  <1>1. /\ pc[c] = "setPub" /\ cfg \in Configs /\ req[c].url \in Urls /\ req[c].key \in Keys
        /\ req[c].method \in Methods /\ UNCHANGED <<parts, req>>
    BY DEF SetPub, Writes, At, TypeOK, Requests
  <1>2. /\ req[c].method \in {"PUT", "POST"} /\ isBareRepository /\ cfg.url = req[c].url
        /\ cfg.ssh = req[c].key /\ cfg.path = req[c].key
    BY <1>1, CacheAssumption DEF DiskInv, StepsOf
  <1>3. cfg' = [bare |-> TRUE, url |-> req[c].url, fetch |-> cfg.fetch, ssh |-> req[c].key,
                path |-> req[c].key, pub |-> req[c].key]
    BY <1>1, <1>2 DEF SetPub, Writes, Configs, isBareRepository
  <1>4. Whole' /\ cfg'.url = req[c].url /\ cfg'.pub = req[c].key
    BY <1>1, <1>2, <1>3, CacheAssumption DEF Whole, Configured, IsRepository, isBareRepository
  <1>5. /\ Promise!Says(c, IF req[c].method = "PUT" THEN "registered" ELSE "adjusted")
        /\ c \in busy /\ AtWork /\ ~AtWork'
    BY <1>1, Answers DEF SetPub, Reply, Promise!Says, HalfDone
  <1>6. Registered = Promise!Changing /\ Registered' = Promise!Reg("whole", req[c].url, req[c].key)
    BY <1>4, <1>5, SeenHolds DEF Seen
  <1>7. Promise!Acknowledge(c)
    BY <1>2, <1>5, <1>6 DEF Promise!Acknowledge, Promise!Asked, busy
  <1> QED BY <1>7, PromiseSteps

LEMMA RemoveSteps ==
    ASSUME OneCaller, TypeOK, TypeOK', DiskInv, NEW c \in Clients,
           ListEntries(c) \/ RemoveHead(c) \/ RemoveRefs(c) \/ RemoveConfig(c) \/ Removed(c)
    PROVE  Step
  <1>1. /\ pc[c] \in {"list", "remove"} /\ UNCHANGED req /\ req[c].method = "DELETE"
        /\ pc \in [Clients -> Steps]
    BY CacheAssumption
       DEF ListEntries, RemoveHead, RemoveRefs, RemoveConfig, Removed, Unlinks, Looks, Gone, At,
           TypeOK, Requests, DiskInv, StepsOf
  <1>2. CASE RemoveHead(c) \/ RemoveRefs(c) \/ RemoveConfig(c)
    BY <1>1, <1>2, Unseen, PromiseSteps
       DEF RemoveHead, RemoveRefs, RemoveConfig, Unlinks, HalfDone, At
  <1>3. CASE ListEntries(c)
    <2>1. /\ pc[c] = "list" /\ pc'[c] = "remove" /\ UNCHANGED <<req, reply>>
          /\ isBareRepository
      BY <1>1, <1>3 DEF ListEntries, At, Goto, DiskInv
    <2> QED BY <1>1, <2>1, Begins, PromiseSteps DEF HalfDone
  <1>4. CASE NothingLeft /\ At(c, "remove") /\ Gone(c)
    <2>1. pc[c] # "idle" /\ pc[c] \in HalfDone
      BY <1>4 DEF At, HalfDone
    <2>2. Promise!Says(c, "gone") /\ c \in busy /\ AtWork /\ ~AtWork'
      BY <1>1, <1>4, <2>1, Answers DEF Gone, Reply, Promise!Says
    <2>3. NothingLeft'
      BY <1>4, <2>1 DEF Gone, NothingLeft, Entries, repo
    <2>4. Registered = Promise!Changing /\ Registered' = Promise!Nothing
      BY <2>2, <2>3, SeenHolds DEF Seen
    <2>5. Promise!Acknowledge(c)
      BY <1>1, <2>2, <2>4 DEF Promise!Acknowledge, Promise!Asked, busy
    <2> QED BY <2>5, PromiseSteps
  <1>5. CASE Looks(c, "remove") /\ Reply(c, "500")
    BY <1>1, <1>5, Refuses, PromiseSteps DEF Looks, repo
  <1> QED BY <1>2, <1>3, <1>4, <1>5 DEF Removed

LEMMA ReadSteps ==
    ASSUME OneCaller, TypeOK, TypeOK', DiskInv, NEW c \in Clients, ReadUrl(c) \/ ReadPub(c)
    PROVE  Step
  <1>1. /\ pc \in [Clients -> Steps] /\ UNCHANGED <<parts, cfg, req>>
        /\ pc[c] \in {"readUrl", "readPub"} /\ isBareRepository /\ IsRepository
        /\ req[c].method = "GET"
    BY CacheAssumption DEF TypeOK, Requests, ReadUrl, ReadPub, Looks, At, repo, DiskInv, StepsOf,
       isBareRepository
  <1>2. pc[c] \notin HalfDone \cup {"idle"} /\ ~AtWork
    BY <1>1, Alone DEF HalfDone
  <1>3. CASE ReadPub(c)
    <2>1. Answer(c, "state", cfg.url, cfg.pub) /\ cfg.url # None
      BY <1>1, <1>3 DEF ReadPub, DiskInv, At
    <2> QED BY <1>1, <1>2, <2>1, Tells, PromiseSteps
  <1>4. CASE ReadUrl(c) /\ cfg.url # None
    BY <1>1, <1>2, <1>4, Unseen, PromiseSteps DEF ReadUrl, Goto, HalfDone
  <1>5. CASE ReadUrl(c) /\ cfg.url = None
    <2>1. Reply(c, "500") /\ ~Whole /\ ~NothingLeft
      BY <1>1, <1>5, SeenHolds DEF ReadUrl, Whole, Seen
    <2> QED BY <1>1, <1>2, <2>1, Refuses, PromiseSteps
  <1> QED BY <1>1, <1>3, <1>4, <1>5

LEMMA FetchSteps ==
    ASSUME OneCaller, TypeOK, TypeOK', DiskInv, NEW c \in Clients,
           FetchStarts(c) \/ FetchFails(c) \/ FetchEnds(c) \/ GetTarball(c)
    PROVE  Step
  <1>0. FetchEnds(c) => parts' = parts
    BY DEF FetchEnds, DiskInv, At, IsRepository
  <1>1. /\ pc \in [Clients -> Steps] /\ UNCHANGED <<parts, cfg, req>>
        /\ pc[c] \in {"fetch", "storeRef", "archive"}
        /\ req[c].method = IF pc[c] = "archive" THEN "TARBALL" ELSE "SYNC"
        /\ tracked[req[c].ref] \in Urls \cup {None}
    <2>1. UNCHANGED <<parts, cfg, req>> /\ pc[c] \in {"fetch", "storeRef", "archive"}
      BY <1>0 DEF FetchStarts, FetchFails, FetchEnds, GetTarball, Looks, At, repo
    <2>2. /\ pc \in [Clients -> Steps] /\ req[c] \in Requests
          /\ tracked \in [Refs -> Urls \cup {None}]
      BY DEF TypeOK
    <2>3. req[c].ref \in Refs
      BY <2>2 DEF Requests
    <2>4. pc[c] \in StepsOf(req[c].method) /\ req[c].method \in Methods
      BY <2>1, <2>2 DEF DiskInv, Requests
    <2>5. req[c].method = IF pc[c] = "archive" THEN "TARBALL" ELSE "SYNC"
      BY <2>1, <2>4, CacheAssumption DEF StepsOf
    <2> QED BY <2>1, <2>2, <2>3, <2>5
  <1>2. pc[c] \notin HalfDone \cup {"idle"}
    BY <1>1 DEF HalfDone
  <1>3. CASE FetchStarts(c)
    BY <1>1, <1>2, <1>3, Unseen, PromiseSteps DEF FetchStarts, Goto, HalfDone
  <1>4. CASE FetchFails(c)
    BY <1>1, <1>2, <1>4, Refuses, PromiseSteps DEF FetchFails
  <1>5. CASE FetchEnds(c)
    BY <1>1, <1>2, <1>5, Tells, PromiseSteps DEF FetchEnds, Reply, At, DiskInv
  <1>6. CASE GetTarball(c)
    <2> DEFINE url == IF IsRepository THEN tracked[req[c].ref] ELSE None
    <2>1. Answer(c, "tarball", url, None) /\ req[c].method = "TARBALL"
      BY <1>1, <1>6 DEF GetTarball, Looks, At
    <2>2. url \in Urls \cup {None} /\ (~IsRepository => url = None)
      BY <1>1
    <2> HIDE DEF url
    <2> QED BY <1>1, <1>2, <2>1, <2>2, Tells, PromiseSteps
  <1> QED BY <1>3, <1>4, <1>5, <1>6

LEMMA FailSteps ==
    ASSUME OneCaller, TypeOK, TypeOK', DiskInv, NEW c \in Clients,
           StepFails(c) \/ ConfigSetFails(c)
    PROVE  Step
  <1>1. /\ pc[c] # "idle" /\ UNCHANGED req /\ Reply(c, "500")
        /\ req[c].method \in {"PUT", "POST", "DELETE"}
    BY CacheAssumption DEF TypeOK, Requests, StepFails, ConfigSteps, ConfigSetFails, Looks, At,
       DiskInv, StepsOf
  <1>2. pc[c] \notin HalfDone => UNCHANGED <<parts, cfg>>
    BY DEF StepFails, ConfigSetFails, Looks, At, HalfDone, repo
  <1> QED BY <1>1, <1>2, Refuses, PromiseSteps

LEMMA PromiseNext ==
    OneCaller /\ TypeOK /\ TypeOK' /\ DiskInv /\ [Next]_vars => [Promise!Next]_(Promise!vars)
  <1> SUFFICES ASSUME OneCaller, TypeOK, TypeOK', DiskInv, [Next]_vars PROVE Step
    BY DEF Step
  <1>1. CASE UNCHANGED vars
    BY <1>1 DEF vars, Step, Promise!vars, Registered, AtWork, Whole, NothingLeft, Entries, IsRepository,
                Configured, At
  <1>2. ASSUME NEW c \in Clients, NEW r \in Requests, Request(c, r) PROVE Step
    <2>1. r.method \in Methods
      BY DEF Requests
    <2>2. FirstStep(r.method) \notin HalfDone \cup {"idle"}
      BY <2>1, CacheAssumption DEF FirstStep, HalfDone
    <2>3. /\ pc[c] = "idle" /\ pc'[c] = FirstStep(r.method)
          /\ UNCHANGED <<parts, cfg, reply>> /\ req' = [req EXCEPT ![c] = r]
      BY <1>2 DEF Request, At, Goto, TypeOK, repo
    <2>4. busy' = busy \cup {c} /\ c \notin busy /\ ~AtWork /\ ~AtWork'
      BY <2>2, <2>3, Alone DEF HalfDone
    <2>5. Registered' = Registered
      BY <2>3, <2>4 DEF Registered, Whole, NothingLeft, Entries, IsRepository, Configured
    <2>6. Promise!Ask(c)
      BY <2>3, <2>4, <2>5 DEF Promise!Ask, busy
    <2> QED BY <2>6, PromiseSteps
  <1>3. CASE Crash
    <2>1. ~AtWork' /\ busy' = {} /\ UNCHANGED req
          /\ reply' = [c \in Clients |-> NoReply]
      BY <1>3 DEF Crash, AtWork, HalfDone, busy, At
    <2>6. ~AtWork => UNCHANGED <<parts, cfg>>
      BY <1>3 DEF Crash, AtWork, HalfDone, At
    <2>2. AtWork => Registered = Promise!Changing
      BY SeenHolds DEF Seen
    <2>3. ~AtWork => Registered # Promise!Changing /\ Registered' = Registered
      <3>1. ~AtWork => Registered # Promise!Changing
        BY SeenSettled, Apart DEF TypeOK
      <3> QED BY <2>1, <2>6, <3>1 DEF Registered, Whole, NothingLeft, Entries, IsRepository, Configured
    <2>4. Registered' \in Promise!Settled
      BY <2>1, SeenSettledAfter DEF TypeOK
    <2>5. Promise!Crash
      BY <2>1, <2>2, <2>3, <2>4
         DEF Promise!Crash, Promise!LeavesOff, Promise!NoReply, NoReply, busy
    <2> QED BY <2>5 DEF Step, Promise!Next
  <1>4. ASSUME NEW c \in Clients, Handle(c) PROVE Step
    BY <1>4, KeySteps, CheckSteps, InitSteps, SetPubStep, RemoveSteps, ReadSteps, FetchSteps,
       FailSteps DEF Handle
  <1> QED BY <1>1, <1>2, <1>3, <1>4 DEF Next

\* One caller, any faults: the cache server keeps the promise of Registration.
THEOREM ImplementsRegistrationCorrect ==
    ASSUME OneCaller PROVE Spec => ImplementsRegistration
  <1>1. Init => Promise!Init
    <2> SUFFICES ASSUME Init PROVE Promise!Init
      OBVIOUS
    <2>1. ~AtWork /\ NothingLeft /\ busy = {} /\ req \in [Clients -> Requests]
      BY InitType DEF Init, AtWork, HalfDone, NothingLeft, Entries, busy, At, TypeOK
    <2>2. Registered = Promise!Nothing
      BY <2>1, SeenHolds DEF Seen
    <2>3. reply = [c \in Clients |-> Promise!NoReply]
      BY DEF Init, NoReply, Promise!NoReply
    <2> QED BY <2>1, <2>2, <2>3 DEF Promise!Init, busy
  <1>2. TypeOK /\ TypeOK' /\ DiskInv /\ [Next]_vars => [Promise!Next]_(Promise!vars)
    BY PromiseNext
  <1> QED BY <1>1, <1>2, DiskHolds, TypeCorrect, PTL
          DEF Spec, Promise!Spec, ImplementsRegistration

=============================================================================
