------------------------ MODULE CacheRegistry_proofs ------------------------
(* Proofs about CacheRegistry.                                             *)
EXTENDS CacheRegistry, TLAPS

LEMMA GotoType ==
    ASSUME TypeOK, NEW c \in Clients, NEW step \in Steps, Goto(c, step)
    PROVE  pc' \in [Clients -> Steps] /\ reply' \in [Clients -> Replies] /\ spoiled' \in BOOLEAN
  BY DEF Goto, TypeOK

LEMMA AnswerType ==
    ASSUME TypeOK, NEW c \in Clients, NEW code, NEW url \in Urls \cup {None},
           NEW pub \in Keys \cup {None}, Answer(c, code, url, pub),
           [code |-> code, url |-> url, pub |-> pub] \in Replies
    PROVE  pc' \in [Clients -> Steps] /\ reply' \in [Clients -> Replies] /\ spoiled' \in BOOLEAN
  BY DEF Answer, TypeOK, Steps, ConfigSteps

LEMMA ReplyType ==
    ASSUME TypeOK, NEW c \in Clients, NEW code \in {"registered", "already",
               "adjusted", "gone", "ok", "404", "500"}, Reply(c, code)
    PROVE  pc' \in [Clients -> Steps] /\ reply' \in [Clients -> Replies] /\ spoiled' \in BOOLEAN
  BY AnswerType DEF Reply, Replies

\* A step of a handler leaves the request as it is.
HandlerType ==
    /\ pc' \in [Clients -> Steps] /\ reply' \in [Clients -> Replies] /\ spoiled' \in BOOLEAN
    /\ req' = req

LEMMA LooksType ==
    ASSUME TypeOK, NEW c \in Clients, NEW step, Looks(c, step), HandlerType
    PROVE  TypeOK'
  BY DEF Looks, HandlerType, TypeOK, repo, memory

LEMMA WritesType ==
    ASSUME TypeOK, NEW c \in Clients, NEW step, NEW new \in Configs, Writes(c, step, new),
           HandlerType, UNCHANGED acked
    PROVE  TypeOK'
  BY DEF Writes, HandlerType, TypeOK, memory

LEMMA InitType == Init => TypeOK
  <1> SUFFICES ASSUME Init PROVE TypeOK
    OBVIOUS
  <1>1. (CHOOSE r \in Requests : TRUE) \in Requests
    <2>1. PICK m \in Methods, u \in Urls, k \in Keys, r \in Refs : TRUE
      BY CacheAssumption
    <2>2. [method |-> m, url |-> u, key |-> k, ref |-> r] \in Requests
      BY DEF Requests
    <2> QED BY <2>2
  <1>2. cfg \in Configs /\ reply \in [Clients -> Replies] /\ pc \in [Clients -> Steps]
    BY DEF Init, NoConfig, NoReply, Configs, Replies, Steps
  <1>3. faults \in 0 .. MaxFaults
    BY CacheAssumption DEF Init
  <1> QED BY <1>1, <1>2, <1>3 DEF Init, TypeOK

LEMMA RequestType ==
    ASSUME TypeOK, NEW c \in Clients, NEW r \in Requests, Request(c, r)
    PROVE  TypeOK'
  <1>1. FirstStep(r.method) \in Steps
    BY CacheAssumption DEF FirstStep, Requests, Steps
  <1>2. pc' \in [Clients -> Steps] /\ UNCHANGED <<reply, spoiled>>
    BY <1>1 DEF Request, Goto, TypeOK
  <1> QED BY <1>2 DEF Request, TypeOK, repo, memory

\* A git init that is cut short has at most started a bare repository.
LEMMA HalfInitType ==
    ASSUME TypeOK, HalfInit
    PROVE  /\ parts' \subseteq {"HEAD", "refs"} /\ parts \subseteq parts'
           /\ cfg' \in Configs /\ cfg'.ssh = cfg.ssh
  BY DEF HalfInit, TypeOK, Configs

LEMMA HandleType ==
    ASSUME TypeOK, NEW c \in Clients, Handle(c)
    PROVE  TypeOK'
  <1> USE DEF HandlerType
  <1>0. /\ req[c] \in Requests /\ req[c].url \in Urls /\ req[c].key \in Keys /\ req[c].ref \in Refs
        /\ cfg \in Configs
    BY DEF TypeOK, Requests
  <1>1. CASE StatKey(c) \/ DeriveKey(c) \/ CheckNew(c) \/ CompareUrl(c) \/ CheckRead(c)
    <2>1. HandlerType
      BY <1>1, GotoType, ReplyType
         DEF StatKey, DeriveKey, CheckNew, CompareUrl, CheckRead, Looks, Steps, ConfigSteps
    <2> QED BY <1>1, <2>1, LooksType DEF StatKey, DeriveKey, CheckNew, CompareUrl, CheckRead
  <1>2. CASE CreateKey(c) \/ WriteKey(c)
    <2>1. HandlerType
      BY <1>2, GotoType DEF CreateKey, WriteKey, StoreKey, Steps
    <2> QED BY <1>2, <2>1 DEF CreateKey, WriteKey, StoreKey, TypeOK, repo, memory
  <1>3. CASE GitInit(c)
    <2>1. HandlerType
      BY <1>3, GotoType DEF GitInit, Steps, ConfigSteps
    <2>2. cfg' \in Configs
      BY <1>0, <1>3 DEF GitInit, Configs
    <2> QED BY <1>3, <2>1, <2>2 DEF GitInit, TypeOK, memory
  <1>4. CASE AddRemote(c) \/ SetUrl(c)
    <2>1. CASE \E step : Looks(c, step) /\ Reply(c, "500")
      BY <2>1, LooksType, ReplyType DEF Looks
    <2>2. CASE \E step, next \in Steps :
                 /\ Writes(c, step, [cfg EXCEPT !.url = req[c].url])
                 /\ Goto(c, next) /\ UNCHANGED acked
      <3> DEFINE new == [cfg EXCEPT !.url = req[c].url]
      <3>1. PICK step, next \in Steps : Writes(c, step, new) /\ Goto(c, next) /\ UNCHANGED acked
        BY <2>2
      <3>2. new \in Configs
        BY <1>0 DEF Configs
      <3>3. HandlerType
        BY <3>1, GotoType DEF Writes
      <3> HIDE DEF new, HandlerType
      <3> QED BY <3>1, <3>2, <3>3, WritesType
    <2> QED BY <1>4, <2>1, <2>2 DEF AddRemote, SetUrl, Steps, ConfigSteps
  <1>18. CASE AddFetch(c)
    <2>1. CASE Looks(c, "addFetch") /\ Reply(c, "500")
      BY <2>1, LooksType, ReplyType DEF Looks
    <2>2. CASE ~(Looks(c, "addFetch") /\ Reply(c, "500"))
      <3> DEFINE new == [cfg EXCEPT !.fetch = TRUE]
      <3>1. Writes(c, "addFetch", new) /\ Goto(c, "setSsh") /\ UNCHANGED acked
        BY <1>18, <2>2 DEF AddFetch
      <3>2. new \in Configs
        BY <1>0 DEF Configs
      <3>3. HandlerType
        BY <3>1, GotoType DEF Writes, Steps, ConfigSteps
      <3> HIDE DEF new, HandlerType
      <3> QED BY <3>1, <3>2, <3>3, WritesType
    <2> QED BY <2>1, <2>2
  <1>5. CASE SetSsh(c)
    <2> DEFINE new == [cfg EXCEPT !.ssh = req[c].key]
    <2>1. Writes(c, "setSsh", new) /\ UNCHANGED acked
      BY <1>5 DEF SetSsh
    <2>2. new \in Configs
      BY <1>0 DEF Configs
    <2>3. HandlerType
      BY <1>5, GotoType DEF SetSsh, Writes, Steps, ConfigSteps
    <2> HIDE DEF new, HandlerType
    <2> QED BY <2>1, <2>2, <2>3, WritesType
  <1>6. CASE SetPath(c)
    <2> DEFINE new == [cfg EXCEPT !.path = req[c].key]
    <2>1. Writes(c, "setPath", new) /\ UNCHANGED acked
      BY <1>6 DEF SetPath
    <2>2. new \in Configs
      BY <1>0 DEF Configs
    <2>3. HandlerType
      BY <1>6, GotoType DEF SetPath, Writes, Steps, ConfigSteps
    <2> HIDE DEF new, HandlerType
    <2> QED BY <2>1, <2>2, <2>3, WritesType
  <1>7. CASE SetPub(c)
    <2>1. [cfg EXCEPT !.pub = req[c].key] \in Configs
      BY <1>0 DEF Configs
    <2>2. HandlerType
      BY <1>7, ReplyType DEF SetPub, Writes
    <2>3. acked' \in [url : Urls \cup {None}, key : Keys \cup {None}, refs : SUBSET Refs]
      BY <1>0, <1>7 DEF SetPub
    <2> QED BY <1>7, <2>1, <2>2, <2>3 DEF SetPub, Writes, TypeOK, memory
  <1>8. CASE ConfigSetFails(c)
    BY <1>8, LooksType, ReplyType DEF ConfigSetFails, Looks
  <1>9. CASE ReadUrl(c)
    <2>1. CASE Looks(c, "readUrl") /\ Reply(c, "500")
      BY <2>1, LooksType, ReplyType DEF Looks
    <2>2. CASE /\ held' = [held EXCEPT ![c] = cfg.url] /\ Goto(c, "readPub")
               /\ UNCHANGED <<repo, keyFile, req, todo, faults, acked>>
      <3>1. HandlerType
        BY <2>2, GotoType DEF Steps
      <3>2. held' \in [Clients -> Urls \cup {None}]
        BY <1>0, <2>2 DEF TypeOK, Configs
      <3> QED BY <2>2, <3>1, <3>2 DEF TypeOK, repo
    <2> QED BY <1>9, <2>1, <2>2 DEF ReadUrl
  <1>10. CASE ReadPub(c)
    <2> DEFINE pub == IF IsRepository THEN cfg.pub ELSE None
    <2>1. held[c] \in Urls \cup {None} /\ pub \in Keys \cup {None}
      BY <1>0 DEF TypeOK, Configs
    <2>2. [code |-> "state", url |-> held[c], pub |-> pub] \in Replies
      BY <2>1 DEF Replies
    <2>3. Answer(c, "state", held[c], pub)
      BY <1>10 DEF ReadPub
    <2>4. HandlerType
      <3> HIDE DEF pub
      <3> QED BY <1>10, <2>1, <2>2, <2>3, AnswerType DEF ReadPub
    <2> QED BY <1>10, <2>4 DEF ReadPub, TypeOK, repo
  <1>11. CASE CheckDelete(c) \/ Removed(c)
    <2>1. CASE Looks(c, "checkDelete") /\ Goto(c, "list")
      BY <2>1, LooksType, GotoType DEF Looks, Steps
    <2>2. CASE Gone(c)
      <3>1. HandlerType
        BY <2>2, ReplyType DEF Gone
      <3> QED BY <2>2, <3>1 DEF Gone, TypeOK, repo, memory
    <2>3. CASE Looks(c, "remove") /\ Reply(c, "500")
      BY <2>3, LooksType, ReplyType DEF Looks
    <2> QED BY <1>11, <2>1, <2>2, <2>3 DEF CheckDelete, Removed
  <1>19. CASE ListEntries(c)
    <2>1. HandlerType
      BY <1>19, GotoType DEF ListEntries, Steps
    <2>2. Entries \subseteq {"HEAD", "refs", "config"}
      BY DEF Entries, TypeOK
    <2> QED BY <1>19, <2>1, <2>2 DEF ListEntries, TypeOK, repo
  <1>12. CASE RemoveHead(c) \/ RemoveRefs(c) \/ RemoveConfig(c)
    <2>1. NoConfig \in Configs
      BY DEF NoConfig, Configs
    <2>2. /\ todo' \in [Clients -> SUBSET {"HEAD", "refs", "config"}]
          /\ UNCHANGED <<pc, req, held, reply, keyFile, faults, acked, spoiled>>
      BY <1>12 DEF RemoveHead, RemoveRefs, RemoveConfig, Unlinks, TypeOK
    <2>3. /\ parts' \subseteq {"HEAD", "refs"} /\ cfg' \in Configs
          /\ tracked' \in [Refs -> Urls \cup {None}]
      BY <1>0, <1>12, <2>1 DEF RemoveHead, RemoveRefs, RemoveConfig, TypeOK
    <2> QED BY <2>2, <2>3 DEF TypeOK
  <1>13. CASE FetchStarts(c)
    <2>1. HandlerType
      BY <1>13, GotoType DEF FetchStarts, Steps
    <2>2. held' \in [Clients -> Urls \cup {None}]
      BY <1>0, <1>13 DEF FetchStarts, TypeOK, Configs
    <2> QED BY <1>13, <2>1, <2>2 DEF FetchStarts, TypeOK, repo
  <1>14. CASE FetchFails(c)
    <2>1. HandlerType
      BY <1>14, ReplyType DEF FetchFails
    <2> QED BY <1>14, <2>1 DEF FetchFails, TypeOK, repo
  <1>15. CASE FetchEnds(c)
    <2>1. HandlerType
      BY <1>15, ReplyType DEF FetchEnds
    <2>2. tracked' \in [Refs -> Urls \cup {None}] /\ parts' \subseteq {"HEAD", "refs"}
      BY <1>0, <1>15 DEF FetchEnds, TypeOK
    <2>3. acked' \in [url : Urls \cup {None}, key : Keys \cup {None}, refs : SUBSET Refs]
      BY <1>0, <1>15 DEF FetchEnds, TypeOK
    <2> QED BY <1>15, <2>1, <2>2, <2>3 DEF FetchEnds, TypeOK
  <1>16. CASE GetTarball(c)
    <2> DEFINE url == IF IsRepository THEN tracked[req[c].ref] ELSE None
    <2>1. url \in Urls \cup {None}
      BY <1>0 DEF TypeOK
    <2>2. [code |-> "tarball", url |-> url, pub |-> None] \in Replies
      BY <2>1 DEF Replies
    <2>3. Answer(c, "tarball", url, None) /\ Looks(c, "archive")
      BY <1>16 DEF GetTarball
    <2> HIDE DEF url
    <2> QED BY <2>1, <2>2, <2>3, AnswerType, LooksType DEF Looks
  <1>17. CASE StepFails(c)
    <2>1. HandlerType
      BY <1>17, ReplyType DEF StepFails
    <2>2. faults' \in 0 .. MaxFaults
      BY <1>17, CacheAssumption DEF StepFails, TypeOK
    <2>3. parts' \subseteq {"HEAD", "refs"} /\ cfg' \in Configs
      BY <1>17, HalfInitType DEF StepFails, TypeOK
    <2> QED BY <1>17, <2>1, <2>2, <2>3 DEF StepFails, TypeOK
  <1> QED
    BY <1>1, <1>2, <1>3, <1>4, <1>5, <1>6, <1>7, <1>8, <1>9, <1>10, <1>11,
       <1>12, <1>13, <1>14, <1>15, <1>16, <1>17, <1>18, <1>19 DEF Handle

LEMMA CrashType == TypeOK /\ Crash => TypeOK'
  <1> SUFFICES ASSUME TypeOK, Crash PROVE TypeOK'
    OBVIOUS
  <1>1. pc' \in [Clients -> Steps] /\ reply' \in [Clients -> Replies]
    BY DEF Crash, NoReply, Replies, Steps
  <1>2. faults' \in 0 .. MaxFaults /\ spoiled' \in BOOLEAN
    BY CacheAssumption DEF Crash, TypeOK
  <1>3. parts' \subseteq {"HEAD", "refs"} /\ cfg' \in Configs
    BY HalfInitType DEF Crash, TypeOK
  <1> QED BY <1>1, <1>2, <1>3 DEF Crash, TypeOK

LEMMA NextType == TypeOK /\ [Next]_vars => TypeOK'
  <1>1. TypeOK /\ UNCHANGED vars => TypeOK'
    BY DEF vars, TypeOK
  <1> QED BY <1>1, RequestType, HandleType, CrashType DEF Next

\* Every variable keeps its type, for any callers, requests and faults.
THEOREM TypeCorrect == Spec => []TypeOK
  BY InitType, NextType, PTL DEF Spec

-----------------------------------------------------------------------------
(* One caller who changes the registration, and any number of others who   *)
(* read, sync and download meanwhile, as the builders do.                  *)

OneCaller == \A c, d \in Clients : c = d

\* The steps of PUT, POST and DELETE.
WriterSteps == ConfigSteps \cup {"statKey", "createKey", "writeKey", "deriveKey", "checkNew",
                                 "compareUrl", "checkDelete", "list", "remove"}

OneWriter ==
    \A c, d \in Clients : pc[c] \in WriterSteps /\ pc[d] \in WriterSteps => c = d

\* The handlers of the others change neither the settings nor a key, and of
\* the rest of the repository only what a sync leaves.
LEMMA Bystander ==
    ASSUME TypeOK, NEW c \in Clients, Handle(c), pc[c] \notin WriterSteps
    PROVE  /\ UNCHANGED <<cfg, keyFile, req, faults>>
           /\ parts' \in {parts, parts \cup {"refs"}}
           /\ acked'.url = acked.url /\ acked'.key = acked.key
           /\ \E next : next \notin WriterSteps /\ pc' = [pc EXCEPT ![c] = next]
  <1>1. \/ CheckRead(c) \/ ReadUrl(c) \/ ReadPub(c)
        \/ FetchStarts(c) \/ FetchFails(c) \/ FetchEnds(c) \/ GetTarball(c)
    BY DEF Handle, StatKey, CreateKey, WriteKey, StoreKey, DeriveKey, CheckNew, CompareUrl,
           Looks, GitInit, AddRemote, AddFetch, SetUrl, SetSsh, SetPath, SetPub, Writes,
           ConfigSetFails, CheckDelete, ListEntries, Removed, Gone, RemoveHead, RemoveRefs,
           RemoveConfig, Unlinks, StepFails, At, WriterSteps, ConfigSteps
  <1>2. CASE FetchEnds(c)
    BY <1>2 DEF FetchEnds, TypeOK, Reply, Answer, WriterSteps, ConfigSteps
  <1>3. CASE ~FetchEnds(c)
    BY <1>1, <1>3 DEF CheckRead, ReadUrl, ReadPub, FetchStarts, FetchFails, GetTarball,
                      Looks, repo, Goto, Reply, Answer, WriterSteps, ConfigSteps
  <1> QED BY <1>2, <1>3

\* What is spoiled stays so.
LEMMA Unspoiled ==
    ASSUME Next, ~spoiled'
    PROVE  ~spoiled
  <1>1. ASSUME NEW c \in Clients, NEW r \in Requests, Request(c, r) PROVE ~spoiled
    BY <1>1 DEF Request, Goto
  <1>2. CASE Crash
    BY <1>2 DEF Crash
  <1>3. ASSUME NEW c \in Clients, Handle(c)
        PROVE  spoiled' = spoiled \/ \E code : spoiled' = (spoiled \/ (code = "500" /\ pc[c] \in HalfDone))
    BY <1>3
       DEF Handle, StatKey, CreateKey, WriteKey, StoreKey, DeriveKey, CheckNew, CompareUrl,
           CheckRead, ReadUrl, ReadPub, FetchStarts, FetchFails, FetchEnds, GetTarball, GitInit,
           AddRemote, AddFetch, SetUrl, SetSsh, SetPath, SetPub, ConfigSetFails,
           CheckDelete, ListEntries, Removed, Gone, RemoveHead, RemoveRefs, RemoveConfig, Unlinks,
           StepFails, Goto, Reply, Answer
  <1> QED BY <1>1, <1>2, <1>3 DEF Next

LEMMA OneCallerWrites == OneCaller => OneWriter
  BY DEF OneCaller, OneWriter

-----------------------------------------------------------------------------
(* One writer: the key in use is complete, whatever fails.                 *)

\* Past ssh-keygen the key of the request is on disk; before it, the file
\* that is about to be written is not there, so nothing uses it.
KeyInv ==
    /\ KeyInUseIsComplete
    /\ \A c \in Clients :
         /\ pc[c] \in {"checkNew", "init", "addRemote", "addFetch", "compareUrl", "setUrl", "setSsh"}
              => keyFile[req[c].key] = "stored"
         /\ pc[c] = "createKey" => keyFile[req[c].key] = "absent"
         /\ pc[c] = "writeKey"  => keyFile[req[c].key] = "partial"

LEMMA KeyStep ==
    ASSUME OneWriter, TypeOK, KeyInv, NEW c \in Clients, Handle(c)
    PROVE  KeyInv'
  <1>a. CASE pc[c] \notin WriterSteps
    BY <1>a, Bystander DEF KeyInv, KeyInUseIsComplete, WriterSteps, ConfigSteps, TypeOK
  <1>b. SUFFICES ASSUME pc[c] \in WriterSteps PROVE KeyInv'
    BY <1>a
  <1>0. /\ \A d \in Clients : d = c \/ pc[d] \notin WriterSteps
        /\ req[c].key \in Keys
        /\ pc \in [Clients -> Steps] /\ keyFile \in [Keys -> {"absent", "partial", "stored"}]
        /\ cfg.ssh \in Keys \cup {None}
    BY <1>b DEF OneWriter, TypeOK, Requests, Configs
  <1> USE <1>0 DEF WriterSteps, ConfigSteps, KeyInv, KeyInUseIsComplete, At, Goto, Reply, Answer
  <1>1. CASE StatKey(c) \/ DeriveKey(c) \/ CheckNew(c) \/ CompareUrl(c) \/ CheckRead(c)
             \/ ConfigSetFails(c) \/ GetTarball(c)
    BY <1>1 DEF StatKey, DeriveKey, CheckNew, CompareUrl, CheckRead, ConfigSetFails,
                GetTarball, Looks, repo
  <1>2. CASE CreateKey(c) \/ WriteKey(c)
    BY <1>2 DEF CreateKey, WriteKey, StoreKey, repo
  <1>3. CASE GitInit(c)
    <2>1. cfg'.ssh = cfg.ssh
      BY <1>3 DEF GitInit, TypeOK, Configs
    <2> QED BY <1>3, <2>1 DEF GitInit
  <1>4. CASE AddRemote(c) \/ AddFetch(c) \/ SetUrl(c)
    <2>1. cfg'.ssh = cfg.ssh
      BY <1>4 DEF AddRemote, AddFetch, SetUrl, Writes, Looks, repo, TypeOK, Configs
    <2> QED BY <1>4, <2>1 DEF AddRemote, AddFetch, SetUrl, Writes, Looks
  <1>5. CASE SetSsh(c)
    <2>1. cfg'.ssh = req[c].key /\ keyFile[req[c].key] = "stored"
      BY <1>5 DEF SetSsh, Writes, TypeOK, Configs
    <2> QED BY <1>5, <2>1 DEF SetSsh, Writes
  <1>6. CASE SetPath(c) \/ SetPub(c)
    <2>1. cfg'.ssh = cfg.ssh
      BY <1>6 DEF SetPath, SetPub, Writes, TypeOK, Configs
    <2> QED BY <1>6, <2>1 DEF SetPath, SetPub, Writes
  <1>7. CASE ReadUrl(c) \/ ReadPub(c) \/ CheckDelete(c) \/ ListEntries(c) \/ Removed(c)
             \/ FetchStarts(c) \/ FetchFails(c) \/ FetchEnds(c)
    BY <1>7 DEF ReadUrl, ReadPub, CheckDelete, ListEntries, Removed, Gone, FetchStarts,
                FetchFails, FetchEnds, Looks, repo
  <1>9. CASE StepFails(c)
    <2>1. cfg'.ssh = cfg.ssh
      BY <1>9, HalfInitType DEF StepFails
    <2> QED BY <1>9, <2>1 DEF StepFails
  <1>8. CASE RemoveHead(c) \/ RemoveRefs(c) \/ RemoveConfig(c)
    <2>1. cfg'.ssh \in {None, cfg.ssh}
      BY <1>8 DEF RemoveHead, RemoveRefs, RemoveConfig, NoConfig
    <2> QED BY <1>8, <2>1 DEF RemoveHead, RemoveRefs, RemoveConfig, Unlinks
  <1> QED
    BY <1>1, <1>2, <1>3, <1>4, <1>5, <1>6, <1>7, <1>8, <1>9 DEF Handle

LEMMA KeyNext == OneWriter /\ TypeOK /\ KeyInv /\ [Next]_vars => KeyInv'
  <1> SUFFICES ASSUME OneWriter, TypeOK, KeyInv, [Next]_vars PROVE KeyInv'
    OBVIOUS
  <1> USE DEF KeyInv, KeyInUseIsComplete
  <1>1. CASE UNCHANGED vars
    BY <1>1 DEF vars
  <1>2. ASSUME NEW c \in Clients, NEW r \in Requests, Request(c, r) PROVE KeyInv'
    <2>1. FirstStep(r.method) \in {"statKey", "checkRead", "checkDelete", "fetch", "archive"}
      BY CacheAssumption DEF FirstStep, Requests
    <2> QED BY <1>2, <2>1 DEF Request, Goto, TypeOK, repo
  <1>3. CASE Crash
    <2>1. cfg'.ssh = cfg.ssh
      BY <1>3, HalfInitType DEF Crash
    <2> QED BY <1>3, <2>1 DEF Crash
  <1> QED BY <1>1, <1>2, <1>3, KeyStep DEF Next

\* One writer at a time, any readers, any faults: the repository never uses a
\* key whose file was cut short, for the file is complete before any setting
\* names it.
THEOREM KeyInUseIsCompleteCorrect == Spec /\ []OneWriter => []KeyInUseIsComplete
  <1>1. Init => KeyInv
    BY DEF Init, KeyInv, KeyInUseIsComplete, NoConfig
  <1>2. KeyInv => KeyInUseIsComplete
    BY DEF KeyInv
  <1>3. OneWriter /\ TypeOK /\ KeyInv /\ [Next]_vars => KeyInv'
    BY KeyNext
  <1> QED BY <1>1, <1>2, <1>3, TypeCorrect, PTL DEF Spec

-----------------------------------------------------------------------------
(* Any number of callers, any faults, no change left halfway: whatever is   *)
(* missing from a repository is about to be written by some handler, or    *)
(* somebody removes the rest.                                              *)

Pending(steps) == \E c \in Clients : pc[c] \in steps \cup {"remove"}

RegInv ==
    /\ cfg.bare /\ cfg.url = None => Pending({"addRemote"})
    /\ cfg.url # None /\ ~cfg.fetch => Pending({"addFetch"})
    /\ cfg.url # None /\ cfg.ssh = None => Pending({"addFetch", "setSsh"})
    /\ cfg.ssh # None /\ cfg.path = None => Pending({"setPath"})
    /\ cfg.path # None /\ cfg.pub = None => Pending({"setPub"})

\* Who writes the settings.
Writing == {"addRemote", "addFetch", "setSsh", "setPath", "setPub"}

\* A handler takes nothing from what is pending unless it is the one.
LEMMA PendingStays ==
    ASSUME pc \in [Clients -> Steps], NEW c \in Clients, NEW next \in Steps,
           pc' = [pc EXCEPT ![c] = next], NEW steps,
           pc[c] \notin steps \cup {"remove"}, Pending(steps)
    PROVE  Pending(steps)'
  BY DEF Pending

\* An outside step leaves what is pending to those who do it.
LEMMA RegKept ==
    ASSUME TypeOK, RegInv, NEW c \in Clients, NEW next \in Steps,
           pc' = [pc EXCEPT ![c] = next], UNCHANGED cfg,
           pc[c] \notin Writing \cup {"remove"}
    PROVE  RegInv'
  <1>1. \A steps \in SUBSET Writing : Pending(steps) => Pending(steps)'
    BY PendingStays DEF TypeOK
  <1>2. {{"addRemote"}, {"addFetch"}, {"addFetch", "setSsh"}, {"setPath"}, {"setPub"}}
          \subseteq SUBSET Writing
    BY DEF Writing
  <1> QED BY <1>1, <1>2 DEF RegInv

\* A handler that writes one setting leaves the others to whom they were left,
\* and goes on with the next.
LEMMA RegWrites ==
    ASSUME TypeOK, RegInv, NEW c \in Clients, Handle(c), ~StepFails(c), ~spoiled',
           pc[c] \in Writing
    PROVE  RegInv'
  <1>0. pc \in [Clients -> Steps] /\ cfg \in Configs
        /\ req[c].url # None /\ req[c].key # None
    BY CacheAssumption DEF TypeOK, Requests
  <1>1. \/ AddRemote(c) \/ AddFetch(c) \/ SetSsh(c) \/ SetPath(c) \/ SetPub(c)
    BY DEF Handle, StatKey, CreateKey, WriteKey, StoreKey, DeriveKey, CheckNew, CompareUrl,
           CheckRead, ReadUrl, ReadPub, FetchStarts, FetchFails, FetchEnds, GetTarball, GitInit,
           SetUrl, ConfigSetFails, CheckDelete, ListEntries, Removed, Gone, RemoveHead,
           RemoveRefs, RemoveConfig, Unlinks, Looks, Writes, At, Reply, Answer, Writing, HalfDone
  <1>2. ~Reply(c, "500")
    BY DEF Reply, Answer, Writing, HalfDone
  <1>3. ASSUME NEW next \in Steps, pc' = [pc EXCEPT ![c] = next], NEW steps,
               pc[c] \notin steps, Pending(steps)
        PROVE  Pending(steps)'
    BY <1>0, <1>3, PendingStays DEF Writing
  <1> USE DEF Goto, Reply, Answer, At, Writes
  <1>4. CASE AddRemote(c)
    <2>1. /\ cfg' = [cfg EXCEPT !.url = req[c].url]
          /\ pc' = [pc EXCEPT ![c] = "addFetch"] /\ pc[c] = "addRemote"
      BY <1>2, <1>4 DEF AddRemote
    <2>2. cfg'.url # None /\ cfg'.ssh = cfg.ssh /\ cfg'.path = cfg.path /\ cfg'.pub = cfg.pub
      BY <1>0, <2>1 DEF Configs
    <2>3. Pending({"addFetch"})' /\ Pending({"addFetch", "setSsh"})'
      BY <1>0, <2>1 DEF Pending
    <2>4. \A step \in {"setPath", "setPub"} : Pending({step}) => Pending({step})'
      BY <2>1, <1>3 DEF Steps, ConfigSteps
    <2> QED BY <2>2, <2>3, <2>4 DEF RegInv
  <1>5. CASE AddFetch(c)
    <2>1. /\ cfg' = [cfg EXCEPT !.fetch = TRUE]
          /\ pc' = [pc EXCEPT ![c] = "setSsh"] /\ pc[c] = "addFetch"
      BY <1>2, <1>5 DEF AddFetch
    <2>2. /\ cfg'.fetch /\ cfg'.bare = cfg.bare /\ cfg'.url = cfg.url
          /\ cfg'.ssh = cfg.ssh /\ cfg'.path = cfg.path /\ cfg'.pub = cfg.pub
      BY <1>0, <2>1 DEF Configs
    <2>3. Pending({"addFetch", "setSsh"})'
      BY <1>0, <2>1 DEF Pending
    <2>4. \A step \in {"addRemote", "setPath", "setPub"} : Pending({step}) => Pending({step})'
      BY <2>1, <1>3 DEF Steps, ConfigSteps
    <2> QED BY <2>2, <2>3, <2>4 DEF RegInv
  <1>6. CASE SetSsh(c)
    <2>1. /\ cfg' = [cfg EXCEPT !.ssh = req[c].key]
          /\ pc' = [pc EXCEPT ![c] = "setPath"] /\ pc[c] = "setSsh"
      BY <1>6 DEF SetSsh
    <2>2. /\ cfg'.ssh # None /\ cfg'.bare = cfg.bare /\ cfg'.fetch = cfg.fetch
          /\ cfg'.url = cfg.url /\ cfg'.path = cfg.path /\ cfg'.pub = cfg.pub
      BY <1>0, <2>1 DEF Configs
    <2>3. Pending({"setPath"})'
      BY <1>0, <2>1 DEF Pending
    <2>4. \A step \in {"addRemote", "addFetch", "setPub"} : Pending({step}) => Pending({step})'
      BY <2>1, <1>3 DEF Steps, ConfigSteps
    <2> QED BY <2>2, <2>3, <2>4 DEF RegInv
  <1>7. CASE SetPath(c)
    <2>1. /\ cfg' = [cfg EXCEPT !.path = req[c].key]
          /\ pc' = [pc EXCEPT ![c] = "setPub"] /\ pc[c] = "setPath"
      BY <1>7 DEF SetPath
    <2>2. /\ cfg'.path # None /\ cfg'.bare = cfg.bare /\ cfg'.fetch = cfg.fetch
          /\ cfg'.url = cfg.url /\ cfg'.ssh = cfg.ssh /\ cfg'.pub = cfg.pub
      BY <1>0, <2>1 DEF Configs
    <2>3. Pending({"setPub"})'
      BY <1>0, <2>1 DEF Pending
    <2>4. \A steps \in {{"addRemote"}, {"addFetch"}, {"addFetch", "setSsh"}} :
             Pending(steps) => Pending(steps)'
      BY <2>1, <1>3 DEF Steps, ConfigSteps
    <2> QED BY <2>2, <2>3, <2>4 DEF RegInv
  <1>8. CASE SetPub(c)
    <2>1. /\ cfg' = [cfg EXCEPT !.pub = req[c].key]
          /\ pc' = [pc EXCEPT ![c] = "idle"] /\ pc[c] = "setPub"
      BY <1>8 DEF SetPub
    <2>2. /\ cfg'.pub # None /\ cfg'.bare = cfg.bare /\ cfg'.fetch = cfg.fetch
          /\ cfg'.url = cfg.url /\ cfg'.ssh = cfg.ssh /\ cfg'.path = cfg.path
      BY <1>0, <2>1 DEF Configs
    <2>3. \A steps \in {{"addRemote"}, {"addFetch"}, {"addFetch", "setSsh"}, {"setPath"}} :
             Pending(steps) => Pending(steps)'
      BY <2>1, <1>3 DEF Steps
    <2> QED BY <2>2, <2>3 DEF RegInv
  <1> QED BY <1>1, <1>4, <1>5, <1>6, <1>7, <1>8

LEMMA RegStep ==
    ASSUME TypeOK, RegInv, NEW c \in Clients, Handle(c), ~spoiled'
    PROVE  RegInv'
  <1>0. pc \in [Clients -> Steps] /\ cfg \in Configs
        /\ req[c].url # None
    BY CacheAssumption DEF TypeOK, Requests
  <1> USE DEF At, Goto, Reply, Answer
  <1>1. CASE StepFails(c)
    <2>1. pc[c] \notin HalfDone /\ pc' = [pc EXCEPT ![c] = "idle"]
      BY <1>1 DEF StepFails
    <2>2. UNCHANGED cfg
      BY <1>1, <2>1 DEF StepFails, HalfDone
    <2> QED BY <2>1, <2>2, RegKept DEF HalfDone, Writing, Steps
  <1>2. CASE StatKey(c) \/ DeriveKey(c) \/ CheckNew(c) \/ CompareUrl(c) \/ CheckRead(c)
             \/ GetTarball(c) \/ CreateKey(c) \/ WriteKey(c) \/ ReadUrl(c) \/ ReadPub(c)
             \/ FetchStarts(c) \/ FetchFails(c) \/ FetchEnds(c) \/ ListEntries(c) \/ CheckDelete(c)
    <2>1. \E next \in Steps : pc' = [pc EXCEPT ![c] = next]
      BY <1>2 DEF StatKey, DeriveKey, CheckNew, CompareUrl, CheckRead, GetTarball, CreateKey,
                  WriteKey, StoreKey, ReadUrl, ReadPub, FetchStarts, FetchFails, FetchEnds,
                  ListEntries, CheckDelete, Gone, Steps, ConfigSteps
    <2>2. pc[c] \notin Writing \cup {"remove"} /\ UNCHANGED cfg
      BY <1>2 DEF StatKey, DeriveKey, CheckNew, CompareUrl, CheckRead, GetTarball, CreateKey,
                  WriteKey, StoreKey, ReadUrl, ReadPub, FetchStarts, FetchFails, FetchEnds,
                  ListEntries, CheckDelete, Gone, Looks, Writing, repo
    <2> QED BY <2>1, <2>2, RegKept
  <1>3. CASE GitInit(c)
    <2>1. /\ cfg'.url = cfg.url /\ cfg'.fetch = cfg.fetch /\ cfg'.ssh = cfg.ssh
          /\ cfg'.path = cfg.path /\ cfg'.pub = cfg.pub
      BY <1>0, <1>3 DEF GitInit, Configs
    <2>2. Pending({"addRemote"})'
      BY <1>0, <1>3 DEF GitInit, Pending
    <2>3. \A steps \in SUBSET Writing : Pending(steps) => Pending(steps)'
      <3>1. pc' = [pc EXCEPT ![c] = "addRemote"] /\ pc[c] = "init"
        BY <1>3 DEF GitInit
      <3> QED BY <1>0, <3>1, PendingStays DEF Steps, ConfigSteps, Writing
    <2>4. {{"addFetch"}, {"addFetch", "setSsh"}, {"setPath"}, {"setPub"}} \subseteq SUBSET Writing
      BY DEF Writing
    <2> QED BY <2>1, <2>2, <2>3, <2>4 DEF RegInv
  <1>4. CASE SetUrl(c)
    <2>1. CASE Looks(c, "setUrl") /\ Reply(c, "500")
      BY <2>1, RegKept DEF Looks, repo, Steps, Writing
    <2>2. CASE cfg.url # None /\ ~(Looks(c, "setUrl") /\ Reply(c, "500"))
      <3>1. /\ cfg' = [cfg EXCEPT !.url = req[c].url]
            /\ pc' = [pc EXCEPT ![c] = "setSsh"] /\ pc[c] = "setUrl"
        BY <1>4, <2>2 DEF SetUrl, Writes
      <3>2. /\ cfg'.url # None /\ cfg'.fetch = cfg.fetch
            /\ cfg'.ssh = cfg.ssh /\ cfg'.path = cfg.path /\ cfg'.pub = cfg.pub
        BY <1>0, <3>1 DEF Configs
      <3>3. Pending({"addFetch", "setSsh"})'
        BY <1>0, <3>1 DEF Pending
      <3>4. \A step \in {"addFetch", "setPath", "setPub"} : Pending({step}) => Pending({step})'
        BY <1>0, <3>1, PendingStays DEF Steps, ConfigSteps
      <3> QED BY <2>2, <3>2, <3>3, <3>4 DEF RegInv
    <2> QED BY <1>4, <2>1, <2>2 DEF SetUrl
  <1>5. CASE RemoveHead(c) \/ RemoveRefs(c) \/ RemoveConfig(c)
    <2>1. \A steps : Pending(steps)'
      BY <1>5 DEF RemoveHead, RemoveRefs, RemoveConfig, Unlinks, Pending
    <2> QED BY <2>1 DEF RegInv
  <1>6. CASE Removed(c)
    <2>1. At(c, "remove") /\ NothingLeft /\ cfg' = cfg
      BY <1>6 DEF Removed, Gone, Looks, HalfDone, repo
    <2>2. cfg' = NoConfig
      BY <2>1 DEF NothingLeft, Entries
    <2> QED BY <2>2 DEF RegInv, NoConfig
  <1>7. CASE pc[c] \in Writing /\ ~StepFails(c)
    BY <1>7, RegWrites
  <1>8. CASE ConfigSetFails(c)
    BY <1>8 DEF ConfigSetFails, Looks, HalfDone
  <1>9. AddRemote(c) \/ AddFetch(c) \/ SetSsh(c) \/ SetPath(c) \/ SetPub(c) => pc[c] \in Writing
    BY DEF AddRemote, AddFetch, SetSsh, SetPath, SetPub, Looks, Writes, Writing
  <1> QED
    BY <1>1, <1>2, <1>3, <1>4, <1>5, <1>6, <1>7, <1>8, <1>9 DEF Handle

LEMMA RegNext == TypeOK /\ (~spoiled => RegInv) /\ [Next]_vars => (~spoiled => RegInv)'
  <1> SUFFICES ASSUME TypeOK, ~spoiled => RegInv, [Next]_vars, ~spoiled' PROVE RegInv'
    OBVIOUS
  <1>1. CASE UNCHANGED vars
    BY <1>1 DEF vars, RegInv, Pending
  <1>2. CASE Next
    <2>1. RegInv
      BY <1>2, Unspoiled
    <2>2. ASSUME NEW c \in Clients, NEW r \in Requests, Request(c, r) PROVE RegInv'
      <3>1. FirstStep(r.method) \in Steps
        BY CacheAssumption DEF FirstStep, Requests, Steps
      <3> QED BY <2>1, <2>2, <3>1, RegKept DEF Request, Goto, At, repo, Writing
    <2>3. CASE Crash
      <3>1. \A c \in Clients : pc[c] \notin HalfDone
        BY <2>3 DEF Crash
      <3>2. UNCHANGED cfg /\ \A steps \in SUBSET Writing : ~Pending(steps)
        BY <2>3, <3>1 DEF Crash, At, HalfDone, Pending, Writing
      <3>3. {{"addRemote"}, {"addFetch"}, {"addFetch", "setSsh"}, {"setPath"}, {"setPub"}}
              \subseteq SUBSET Writing
        BY DEF Writing
      <3> QED BY <2>1, <3>2, <3>3 DEF RegInv
    <2> QED BY <1>2, <2>1, <2>2, <2>3, RegStep DEF Next
  <1> QED BY <1>1, <1>2

\* Any number of callers, any faults: at rest, unless a change was left halfway
\* by an error that was reported or by a crash, a repository is registered with
\* its origin, refspec and all three settings, however the handlers
\* interleaved; RegInv says who is about to write what is missing.
THEOREM RegisteredIsCompleteCorrect == Spec => []RegisteredIsComplete
  <1>1. Init => (~spoiled => RegInv)
    BY DEF Init, RegInv, NoConfig
  <1>2. (~spoiled => RegInv) => RegisteredIsComplete
    BY DEF RegInv, RegisteredIsComplete, Quiet, Pending, At, isBareRepository
  <1>3. TypeOK /\ (~spoiled => RegInv) /\ [Next]_vars => (~spoiled => RegInv)'
    BY RegNext
  <1> QED BY <1>1, <1>2, <1>3, TypeCorrect, PTL DEF Spec

-----------------------------------------------------------------------------
(* Any number of callers, before any fault: a key file may be half written *)
(* while it is in use, but then the handler that writes it is not done.    *)

UsesKey == {"writeKey", "deriveKey", "checkNew", "init", "addRemote", "addFetch", "compareUrl",
            "setUrl", "setSsh"}

FileInv ==
    /\ \A k \in Keys : keyFile[k] = "partial" =>
         \E c \in Clients : pc[c] = "writeKey" /\ req[c].key = k
    /\ \A c \in Clients : pc[c] \in UsesKey => keyFile[req[c].key] # "absent"
    /\ cfg.ssh # None => keyFile[cfg.ssh] # "absent"

\* A step that writes no key file, and goes on only with a file that is there.
LEMMA FileKept ==
    ASSUME TypeOK, FileInv, NEW c \in Clients, NEW next, pc' = [pc EXCEPT ![c] = next],
           UNCHANGED <<keyFile, req>>, pc[c] # "writeKey",
           next \in UsesKey => keyFile[req[c].key] # "absent",
           cfg'.ssh \in {None, cfg.ssh} \/ keyFile[cfg'.ssh] # "absent"
    PROVE  FileInv'
  BY DEF FileInv, TypeOK

LEMMA FileStep ==
    ASSUME TypeOK, FileInv, NEW c \in Clients, Handle(c), faults' = 0
    PROVE  FileInv'
  <1>0. /\ pc \in [Clients -> Steps] /\ keyFile \in [Keys -> {"absent", "partial", "stored"}]
        /\ cfg \in Configs /\ req[c].key \in Keys
    BY DEF TypeOK, Requests
  <1> USE DEF At, Goto, Reply, Answer
  <1>1. CASE CreateKey(c) \/ WriteKey(c)
    <2>1. PICK next \in {"writeKey", "deriveKey"}, content \in {"partial", "stored"} :
             /\ pc' = [pc EXCEPT ![c] = next]
             /\ next = "writeKey" <=> content = "partial"
             /\ keyFile' = [keyFile EXCEPT ![req[c].key] = content]
             /\ UNCHANGED <<cfg, req>>
      BY <1>1 DEF CreateKey, WriteKey, StoreKey, repo
    <2>2. \A k \in Keys : keyFile'[k] = IF k = req[c].key THEN content ELSE keyFile[k]
      BY <1>0, <2>1
    <2>3. ASSUME NEW k \in Keys, keyFile'[k] = "partial"
          PROVE  \E d \in Clients : pc'[d] = "writeKey" /\ req'[d].key = k
      <3>1. CASE k = req[c].key
        BY <1>0, <2>1, <2>2, <2>3, <3>1
      <3>2. CASE k # req[c].key
        <4>1. PICK d \in Clients : pc[d] = "writeKey" /\ req[d].key = k
          BY <2>2, <2>3, <3>2 DEF FileInv
        <4>2. d # c /\ pc'[d] = pc[d] /\ req'[d] = req[d]
          BY <1>0, <2>1, <3>2, <4>1
        <4> QED BY <4>1, <4>2
      <3> QED BY <3>1, <3>2
    <2>4. \A d \in Clients : pc'[d] \in UsesKey => keyFile'[req'[d].key] # "absent"
      <3> SUFFICES ASSUME NEW d \in Clients, pc'[d] \in UsesKey
                   PROVE  keyFile'[req[d].key] # "absent"
        BY <2>1
      <3>1. req[d].key \in Keys /\ content # "absent"
        BY DEF TypeOK, Requests
      <3>2. CASE d = c
        BY <2>2, <3>1, <3>2
      <3>3. CASE d # c
        <4>1. pc'[d] = pc[d]
          BY <1>0, <2>1, <3>3
        <4>2. keyFile[req[d].key] # "absent"
          BY <4>1 DEF FileInv
        <4> QED BY <2>2, <3>1, <4>2
      <3> QED BY <3>2, <3>3
    <2>5. cfg'.ssh # None => keyFile'[cfg'.ssh] # "absent"
      BY <1>0, <2>1, <2>2 DEF FileInv, Configs
    <2> QED BY <2>3, <2>4, <2>5 DEF FileInv
  <1>2. CASE StatKey(c) \/ DeriveKey(c) \/ CheckNew(c) \/ CompareUrl(c)
    <2>1. UNCHANGED <<keyFile, req, cfg>> /\ pc[c] # "writeKey"
      BY <1>2 DEF StatKey, DeriveKey, CheckNew, CompareUrl, Looks, repo
    <2>2. PICK next : /\ pc' = [pc EXCEPT ![c] = next]
                      /\ next \in UsesKey => keyFile[req[c].key] # "absent"
      BY <1>2 DEF StatKey, DeriveKey, CheckNew, CompareUrl, Looks, FileInv, UsesKey
    <2> QED BY <2>1, <2>2, FileKept
  <1>3. CASE GitInit(c) \/ AddRemote(c) \/ AddFetch(c) \/ SetUrl(c)
    <2>1. /\ UNCHANGED <<keyFile, req>> /\ pc[c] \in UsesKey \ {"writeKey"}
          /\ \E next : pc' = [pc EXCEPT ![c] = next]
      BY <1>3 DEF GitInit, AddRemote, AddFetch, SetUrl, Writes, Looks, UsesKey
    <2>2. cfg'.ssh = cfg.ssh
      BY <1>0, <1>3 DEF GitInit, AddRemote, AddFetch, SetUrl, Writes, Looks, repo, Configs
    <2> QED BY <2>1, <2>2, FileKept DEF FileInv
  <1>4. CASE SetSsh(c)
    <2>1. /\ UNCHANGED <<keyFile, req>> /\ pc[c] = "setSsh" /\ cfg'.ssh = req[c].key
          /\ pc' = [pc EXCEPT ![c] = "setPath"]
      BY <1>0, <1>4 DEF SetSsh, Writes, Configs
    <2>2. keyFile[req[c].key] # "absent"
      BY <2>1 DEF FileInv, UsesKey
    <2> QED BY <2>1, <2>2, FileKept
  <1>5. CASE \/ SetPath(c) \/ SetPub(c) \/ ConfigSetFails(c) \/ CheckRead(c) \/ ReadUrl(c)
             \/ ReadPub(c) \/ CheckDelete(c) \/ Removed(c) \/ FetchStarts(c) \/ FetchFails(c)
             \/ FetchEnds(c) \/ GetTarball(c) \/ ListEntries(c)
    <2>1. cfg'.ssh = cfg.ssh
      BY <1>0, <1>5
         DEF SetPath, SetPub, ConfigSetFails, CheckRead, ReadUrl, ReadPub, CheckDelete, Removed,
             Gone, FetchStarts, FetchFails, FetchEnds, GetTarball, ListEntries, Looks, Writes, repo, Configs
    <2>2. /\ UNCHANGED <<keyFile, req>> /\ pc[c] # "writeKey"
          /\ ConfigSetFails(c) \/ \E next : next \notin UsesKey /\ pc' = [pc EXCEPT ![c] = next]
      BY <1>5
         DEF SetPath, SetPub, ConfigSetFails, CheckRead, ReadUrl, ReadPub, CheckDelete, Removed,
             Gone, FetchStarts, FetchFails, FetchEnds, GetTarball, ListEntries, Looks, Writes, UsesKey
    <2>3. \E next : next \notin UsesKey /\ pc' = [pc EXCEPT ![c] = next]
      BY <2>2 DEF ConfigSetFails, UsesKey
    <2> QED BY <2>1, <2>2, <2>3, FileKept
  <1>6. CASE RemoveHead(c) \/ RemoveRefs(c) \/ RemoveConfig(c)
    <2>1. UNCHANGED <<keyFile, req, pc>> /\ cfg'.ssh \in {None, cfg.ssh}
      BY <1>6 DEF RemoveHead, RemoveRefs, RemoveConfig, Unlinks, NoConfig
    <2> QED BY <2>1 DEF FileInv
  <1>7. CASE StepFails(c)
    <2>1. /\ UNCHANGED <<keyFile, req>> /\ pc[c] # "writeKey"
          /\ pc' = [pc EXCEPT ![c] = "idle"]
      <3>1. faults \in Nat
        BY CacheAssumption DEF TypeOK
      <3> QED BY <1>7, <3>1 DEF StepFails, Locked, ConfigSteps
    <2>2. cfg'.ssh = cfg.ssh
      BY <1>7, HalfInitType DEF StepFails
    <2>3. "idle" \notin UsesKey
      BY DEF UsesKey
    <2> QED BY <2>1, <2>2, <2>3, FileKept DEF FileInv
  <1> QED BY <1>1, <1>2, <1>3, <1>4, <1>5, <1>6, <1>7 DEF Handle

LEMMA FileNext == TypeOK /\ (faults = 0 => FileInv) /\ [Next]_vars => (faults = 0 => FileInv)'
  <1> SUFFICES ASSUME TypeOK, faults = 0 => FileInv, [Next]_vars, faults' = 0 PROVE FileInv'
    OBVIOUS
  <1>0. faults \in Nat
    BY CacheAssumption DEF TypeOK
  <1>1. ~Crash
    BY <1>0 DEF Crash
  <1>2. CASE UNCHANGED vars
    BY <1>2 DEF vars, FileInv
  <1>3. ASSUME NEW c \in Clients, NEW r \in Requests, Request(c, r) PROVE FileInv'
    <2>1. FirstStep(r.method) \notin UsesKey
      BY CacheAssumption DEF FirstStep, Requests, UsesKey
    <2>2. pc[c] = "idle" /\ pc' = [pc EXCEPT ![c] = FirstStep(r.method)]
          /\ req' = [req EXCEPT ![c] = r] /\ UNCHANGED <<keyFile, cfg, faults>>
      BY <1>3 DEF Request, At, Goto, repo
    <2> QED BY <2>1, <2>2 DEF FileInv, TypeOK
  <1>4. ASSUME NEW c \in Clients, Handle(c) PROVE FileInv'
    <2>1. faults = 0
      BY <1>0, <1>4
         DEF Handle, StatKey, CreateKey, WriteKey, StoreKey, DeriveKey, CheckNew, CompareUrl,
             CheckRead, ReadUrl, FetchStarts, FetchFails, FetchEnds, GetTarball, Looks, GitInit,
             AddRemote, AddFetch, SetUrl, SetSsh, SetPath, SetPub, Writes, ConfigSetFails, ReadPub,
             CheckDelete, ListEntries, Removed, Gone, RemoveHead, RemoveRefs, RemoveConfig, Unlinks,
             StepFails
    <2> QED BY <1>4, <2>1, FileStep
  <1> QED BY <1>1, <1>2, <1>3, <1>4 DEF Next

\* Any number of callers, before any fault: the key in use is complete when
\* all is quiet, for whoever truncated the file has written it again.
THEOREM KeyAtRestIsCompleteCorrect == Spec => []KeyAtRestIsComplete
  <1>1. Init => (faults = 0 => FileInv)
    BY DEF Init, FileInv, NoConfig, UsesKey
  <1>2. TypeOK /\ (faults = 0 => FileInv) => KeyAtRestIsComplete
    BY DEF TypeOK, FileInv, KeyAtRestIsComplete, KeyInUseIsComplete, Quiet, At, Configs
  <1>3. TypeOK /\ (faults = 0 => FileInv) /\ [Next]_vars => (faults = 0 => FileInv)'
    BY FileNext
  <1> QED BY <1>1, <1>2, <1>3, TypeCorrect, PTL DEF Spec

-----------------------------------------------------------------------------
(* One writer, no change left halfway: what the disk says at each step of  *)
(* a handler, compared with what was last acknowledged.                    *)

\* From the first to the last change of the disk.
Working == {"addRemote", "addFetch", "setSsh", "setPath", "setPub", "remove"}

Agreed ==
    IF acked.url = None THEN "HEAD" \notin parts /\ cfg = NoConfig
    ELSE IsRepository /\ Configured(acked.url, acked.key) /\ cfg.fetch

WriterInv ==
    /\ (\A c \in Clients : pc[c] \notin Working) => Agreed
    /\ \A c \in Clients :
         /\ pc[c] = "init" => acked.url = None
         /\ pc[c] = "addRemote" => IsRepository /\ cfg = [NoConfig EXCEPT !.bare = TRUE]
         /\ pc[c] = "addFetch" =>
              IsRepository /\ cfg = [NoConfig EXCEPT !.bare = TRUE, !.url = req[c].url]
         /\ pc[c] \in {"setSsh", "setPath", "setPub"} =>
              IsRepository /\ cfg.bare /\ cfg.url = req[c].url /\ cfg.fetch
         /\ pc[c] \in {"setPath", "setPub"} => cfg.ssh = req[c].key
         /\ pc[c] = "setPub" => cfg.path = req[c].key

\* A sync may make refs/ again.
Resembles == parts' \in {parts, parts \cup {"refs"}} /\ cfg' = cfg
             /\ acked'.url = acked.url /\ acked'.key = acked.key

LEMMA AgreedKept ==
    ASSUME TypeOK, Resembles
    PROVE  (Agreed => Agreed') /\ (IsRepository => IsRepository')
  BY DEF Resembles, Agreed, IsRepository, Configured

\* While its only writer is at the step, a handler decides on what holds next.
LEMMA WriterMoves ==
    ASSUME OneWriter, TypeOK, NEW c \in Clients, pc[c] \in WriterSteps, NEW next,
           pc' = [pc EXCEPT ![c] = next],
           next \notin Working => Agreed',
           next = "init" => acked'.url = None,
           next = "addRemote" => IsRepository' /\ cfg' = [NoConfig EXCEPT !.bare = TRUE],
           next = "addFetch" =>
             IsRepository' /\ cfg' = [NoConfig EXCEPT !.bare = TRUE, !.url = req'[c].url],
           next \in {"setSsh", "setPath", "setPub"} =>
             IsRepository' /\ cfg'.bare /\ cfg'.url = req'[c].url /\ cfg'.fetch,
           next \in {"setPath", "setPub"} => cfg'.ssh = req'[c].key,
           next = "setPub" => cfg'.path = req'[c].key
    PROVE  WriterInv'
  <1>1. pc'[c] = next /\ \A d \in Clients : d = c \/ pc'[d] \notin WriterSteps
    BY DEF OneWriter, TypeOK
  <1>2. \A d \in Clients : pc'[d] \notin WriterSteps => pc'[d] \notin Working \cup {"init"}
    BY DEF WriterSteps, Working, ConfigSteps
  <1> QED BY <1>1, <1>2 DEF WriterInv, Working

\* Before it works on the disk, the only writer finds it as acknowledged.
LEMMA WriterFinds ==
    ASSUME OneWriter, WriterInv, NEW c \in Clients, pc[c] \in WriterSteps \ Working
    PROVE  /\ Agreed
           /\ isBareRepository <=> acked.url # None
           /\ IsRepository /\ cfg.url # None => cfg.bare /\ cfg.fetch
  <1>1. Agreed
    BY DEF OneWriter, WriterInv, WriterSteps, Working, ConfigSteps
  <1> QED BY <1>1 DEF Agreed, isBareRepository, IsRepository, Configured, NoConfig

LEMMA WriterLooks ==
    ASSUME OneWriter, TypeOK, WriterInv, NEW c \in Clients,
           \/ StatKey(c) \/ CreateKey(c) \/ WriteKey(c) \/ DeriveKey(c) \/ CheckNew(c)
           \/ CompareUrl(c) \/ CheckDelete(c) \/ ListEntries(c)
    PROVE  WriterInv'
  <1>0. pc \in [Clients -> Steps] /\ req[c].url # None
    BY CacheAssumption DEF TypeOK, Requests
  <1> USE DEF At, Goto, Reply, Answer
  <1>1. UNCHANGED <<parts, cfg, req>> /\ pc[c] \in WriterSteps \ Working
    BY DEF StatKey, CreateKey, WriteKey, StoreKey, DeriveKey, CheckNew, CompareUrl, CheckDelete,
           ListEntries, Gone, Looks, repo, WriterSteps, Working
  <1>2. Agreed /\ (isBareRepository <=> acked.url # None)
        /\ (IsRepository /\ cfg.url # None => cfg.bare /\ cfg.fetch)
        /\ (IsRepository' <=> IsRepository)
    BY <1>1, WriterFinds DEF IsRepository
  <1>3. CASE CheckDelete(c) /\ ~isBareRepository
    <2>1. Agreed' /\ pc' = [pc EXCEPT ![c] = "idle"]
      BY <1>2, <1>3 DEF CheckDelete, Gone, Agreed, repo
    <2> QED BY <1>1, <2>1, WriterMoves
  <1>4. CASE ~(CheckDelete(c) /\ ~isBareRepository)
    <2>1. acked' = acked
      BY <1>4 DEF StatKey, CreateKey, WriteKey, StoreKey, DeriveKey, CheckNew, CompareUrl,
                  CheckDelete, ListEntries, Looks
    <2>2. PICK next :
            /\ pc' = [pc EXCEPT ![c] = next]
            /\ \/ next \in {"createKey", "writeKey", "deriveKey", "checkNew", "compareUrl",
                            "setUrl", "list", "remove", "idle"}
               \/ next = "init" /\ ~isBareRepository
               \/ next = "setSsh" /\ IsRepository /\ cfg.url = req[c].url
      BY <1>4 DEF StatKey, CreateKey, WriteKey, StoreKey, DeriveKey, CheckNew, CompareUrl,
                  CheckDelete, ListEntries
    <2>3. Agreed'
      BY <1>1, <1>2, <2>1, AgreedKept DEF Resembles
    <2> QED BY <1>0, <1>1, <1>2, <2>1, <2>2, <2>3, WriterMoves
  <1> QED BY <1>3, <1>4

LEMMA WriterWrites ==
    ASSUME OneWriter, TypeOK, WriterInv, ~spoiled', NEW c \in Clients,
           \/ GitInit(c) \/ AddRemote(c) \/ AddFetch(c) \/ SetUrl(c) \/ SetSsh(c) \/ SetPath(c)
           \/ SetPub(c) \/ ConfigSetFails(c)
    PROVE  WriterInv'
  <1>0. /\ pc \in [Clients -> Steps] /\ reply \in [Clients -> Replies] /\ cfg \in Configs
        /\ req[c].url # None
    BY CacheAssumption DEF TypeOK, Requests
  <1>w. pc[c] \in WriterSteps
    BY DEF GitInit, AddRemote, AddFetch, SetUrl, SetSsh, SetPath, SetPub, ConfigSetFails, Writes,
           Looks, At, WriterSteps, ConfigSteps
  <1> USE DEF At, Goto, Reply, Answer
  <1>1. CASE GitInit(c)
    <2>1. pc[c] = "init" /\ acked.url = None
      BY <1>1 DEF GitInit, WriterInv
    <2>2. cfg = NoConfig
      BY <1>w, <2>1, WriterFinds DEF Agreed, Working
    <2>3. cfg' = [NoConfig EXCEPT !.bare = TRUE] /\ IsRepository'
          /\ pc' = [pc EXCEPT ![c] = "addRemote"]
      BY <1>1, <2>2 DEF GitInit, IsRepository
    <2> QED BY <1>w, <2>3, WriterMoves DEF Working
  <1>2. CASE AddRemote(c)
    <2>1. pc[c] = "addRemote" /\ IsRepository /\ cfg = [NoConfig EXCEPT !.bare = TRUE]
      BY <1>2 DEF AddRemote, WriterInv, Writes, Looks
    <2>2. NoRemote
      BY <2>1 DEF NoConfig, NoRemote
    <2>3. /\ cfg' = [cfg EXCEPT !.url = req[c].url] /\ parts' = parts /\ req' = req
          /\ pc' = [pc EXCEPT ![c] = "addFetch"]
      BY <1>2, <2>1, <2>2 DEF AddRemote, Writes
    <2>4. cfg' = [NoConfig EXCEPT !.bare = TRUE, !.url = req'[c].url] /\ IsRepository'
      BY <2>1, <2>3 DEF NoConfig, IsRepository
    <2> QED BY <1>w, <2>3, <2>4, WriterMoves DEF Working
  <1>8. CASE AddFetch(c)
    <2>1. /\ pc[c] = "addFetch" /\ IsRepository
          /\ cfg = [NoConfig EXCEPT !.bare = TRUE, !.url = req[c].url]
      BY <1>8 DEF AddFetch, WriterInv, Writes, Looks
    <2>2. /\ cfg' = [cfg EXCEPT !.fetch = TRUE] /\ parts' = parts /\ req' = req
          /\ pc' = [pc EXCEPT ![c] = "setSsh"]
      BY <1>8, <2>1 DEF AddFetch, Writes, HalfDone
    <2>3. cfg'.bare /\ cfg'.fetch /\ cfg'.url = req'[c].url /\ IsRepository'
      BY <2>1, <2>2 DEF NoConfig, IsRepository
    <2> QED BY <1>w, <2>2, <2>3, WriterMoves DEF Working
  <1>3. CASE SetUrl(c)
    <2>1. Agreed /\ (IsRepository /\ cfg.url # None => cfg.bare /\ cfg.fetch)
      BY <1>3, <1>w, WriterFinds DEF SetUrl, Writes, Looks, Working
    <2>2. CASE IsRepository /\ cfg.url # None
      <3>1. /\ cfg'.url = req[c].url /\ cfg'.bare /\ cfg'.fetch /\ IsRepository' /\ req' = req
            /\ pc' = [pc EXCEPT ![c] = "setSsh"]
        BY <1>0, <1>3, <2>1, <2>2 DEF SetUrl, Writes, IsRepository, Configs
      <3> QED BY <1>w, <3>1, WriterMoves DEF Working
    <2>3. CASE ~(IsRepository /\ cfg.url # None)
      <3>1. Agreed' /\ pc' = [pc EXCEPT ![c] = "idle"]
        BY <1>3, <2>1, <2>3, AgreedKept DEF SetUrl, Looks, repo, Resembles
      <3> QED BY <1>w, <3>1, WriterMoves
    <2> QED BY <2>2, <2>3
  <1>4. CASE SetSsh(c)
    <2>1. cfg.bare /\ cfg.fetch /\ cfg.url = req[c].url
      BY <1>4 DEF SetSsh, WriterInv, Writes
    <2>2. /\ cfg'.url = req[c].url /\ cfg'.bare /\ cfg'.fetch /\ cfg'.ssh = req[c].key
          /\ IsRepository' /\ req' = req /\ pc' = [pc EXCEPT ![c] = "setPath"]
      BY <1>0, <1>4, <2>1 DEF SetSsh, Writes, IsRepository, Configs
    <2> QED BY <1>w, <2>2, WriterMoves DEF Working
  <1>5. CASE SetPath(c)
    <2>1. cfg.bare /\ cfg.fetch /\ cfg.url = req[c].url /\ cfg.ssh = req[c].key
      BY <1>5 DEF SetPath, WriterInv, Writes
    <2>2. /\ cfg'.url = req[c].url /\ cfg'.bare /\ cfg'.fetch /\ cfg'.ssh = req[c].key
          /\ cfg'.path = req[c].key
          /\ IsRepository' /\ req' = req /\ pc' = [pc EXCEPT ![c] = "setPub"]
      BY <1>0, <1>5, <2>1 DEF SetPath, Writes, IsRepository, Configs
    <2> QED BY <1>w, <2>2, WriterMoves DEF Working
  <1>6. CASE SetPub(c)
    <2>1. /\ cfg.bare /\ cfg.fetch /\ cfg.url = req[c].url /\ cfg.ssh = req[c].key
          /\ cfg.path = req[c].key
      BY <1>6 DEF SetPub, WriterInv, Writes
    <2>2. /\ cfg' = [bare |-> TRUE, url |-> req[c].url, fetch |-> TRUE, ssh |-> req[c].key,
                     path |-> req[c].key, pub |-> req[c].key]
          /\ IsRepository'
      BY <1>0, <1>6, <2>1 DEF SetPub, Writes, IsRepository, Configs
    <2>3. acked'.url = req[c].url /\ acked'.key = req[c].key
      BY <1>6 DEF SetPub
    <2>4. Agreed'
      BY <1>0, <2>2, <2>3 DEF Agreed, Configured
    <2>5. pc' = [pc EXCEPT ![c] = "idle"]
      BY <1>6 DEF SetPub
    <2> QED BY <1>w, <2>4, <2>5, WriterMoves
  <1>7. CASE ConfigSetFails(c)
    BY <1>7 DEF ConfigSetFails, Looks, HalfDone
  <1> QED BY <1>1, <1>2, <1>3, <1>4, <1>5, <1>6, <1>7, <1>8

LEMMA WriterRemoves ==
    ASSUME OneWriter, TypeOK, WriterInv, ~spoiled', NEW c \in Clients,
           Removed(c) \/ RemoveHead(c) \/ RemoveRefs(c) \/ RemoveConfig(c)
    PROVE  WriterInv'
  <1>0. pc \in [Clients -> Steps] /\ pc[c] = "remove" /\ pc[c] \in WriterSteps /\ pc[c] \in Working
    BY DEF TypeOK, Removed, Looks, RemoveHead, RemoveRefs, RemoveConfig, Unlinks, At, WriterSteps,
           Working
  <1>1. CASE Removed(c)
    <2>1. NothingLeft /\ Gone(c)
      BY <1>0, <1>1 DEF Removed, Reply, Answer, HalfDone
    <2>2. Agreed' /\ pc' = [pc EXCEPT ![c] = "idle"]
      BY <2>1 DEF Gone, NothingLeft, Entries, repo, Reply, Answer, Agreed
    <2> QED BY <1>0, <2>2, WriterMoves
  <1>2. CASE RemoveHead(c) \/ RemoveRefs(c) \/ RemoveConfig(c)
    <2>1. pc' = [pc EXCEPT ![c] = "remove"]
      BY <1>0, <1>2 DEF RemoveHead, RemoveRefs, RemoveConfig, Unlinks
    <2> QED BY <1>0, <2>1, WriterMoves DEF Working
  <1> QED BY <1>1, <1>2

\* A step that fails without leaving a change halfway changes nothing.
LEMMA WriterFails ==
    ASSUME OneWriter, TypeOK, WriterInv, ~spoiled', NEW c \in Clients, StepFails(c),
           pc[c] \in WriterSteps
    PROVE  WriterInv'
  <1>1. pc[c] \notin HalfDone /\ pc' = [pc EXCEPT ![c] = "idle"]
    BY DEF StepFails, Reply, Answer
  <1>2. UNCHANGED <<parts, cfg, acked>>
    BY <1>1 DEF StepFails, At, HalfDone
  <1>3. Agreed'
    BY <1>1, <1>2, WriterFinds, AgreedKept DEF Resembles, Working, HalfDone
  <1> QED BY <1>1, <1>3, WriterMoves

\* What others do leaves the writer where it is.
LEMMA WriterStays ==
    ASSUME TypeOK, WriterInv, Resembles, NEW c \in Clients,
           pc[c] \notin Working, pc'[c] \notin Working \cup {"init"},
           \A d \in Clients \ {c} : pc'[d] = pc[d] /\ req'[d] = req[d]
    PROVE  WriterInv'
  <1>1. (Agreed => Agreed') /\ (IsRepository => IsRepository')
    BY AgreedKept
  <1>2. (\A d \in Clients : pc'[d] \notin Working) => Agreed'
    BY <1>1 DEF WriterInv
  <1>3. cfg' = cfg /\ acked'.url = acked.url
    BY DEF Resembles
  <1>4. ASSUME NEW d \in Clients, pc'[d] \in Working \cup {"init"}
        PROVE  pc'[d] = pc[d] /\ req'[d] = req[d]
    BY <1>4
  <1>5. \A d \in Clients :
          /\ pc'[d] = "init" => acked'.url = None
          /\ pc'[d] = "addRemote" => IsRepository' /\ cfg' = [NoConfig EXCEPT !.bare = TRUE]
          /\ pc'[d] = "addFetch" =>
               IsRepository' /\ cfg' = [NoConfig EXCEPT !.bare = TRUE, !.url = req'[d].url]
    BY <1>1, <1>3, <1>4 DEF WriterInv, Working
  <1>6. \A d \in Clients :
          /\ pc'[d] \in {"setSsh", "setPath", "setPub"} =>
               IsRepository' /\ cfg'.bare /\ cfg'.url = req'[d].url /\ cfg'.fetch
          /\ pc'[d] \in {"setPath", "setPub"} => cfg'.ssh = req'[d].key
          /\ pc'[d] = "setPub" => cfg'.path = req'[d].key
    BY <1>1, <1>3, <1>4 DEF WriterInv, Working
  <1> QED BY <1>2, <1>5, <1>6 DEF WriterInv

LEMMA WriterNext ==
    OneWriter /\ TypeOK /\ (~spoiled => WriterInv) /\ [Next]_vars => (~spoiled => WriterInv)'
  <1> SUFFICES ASSUME OneWriter, TypeOK, ~spoiled => WriterInv, [Next]_vars, ~spoiled'
               PROVE  WriterInv'
    OBVIOUS
  <1>1. CASE UNCHANGED vars
    BY <1>1 DEF vars, WriterInv, Agreed, IsRepository, Configured
  <1>2. CASE Next
    <2>1. WriterInv
      BY <1>2, Unspoiled
    <2>3. ASSUME NEW c \in Clients, NEW r \in Requests, Request(c, r) PROVE WriterInv'
      <3>1. FirstStep(r.method) \in {"statKey", "checkRead", "checkDelete", "fetch", "archive"}
        BY CacheAssumption DEF FirstStep, Requests
      <3>2. /\ pc[c] = "idle" /\ pc' = [pc EXCEPT ![c] = FirstStep(r.method)]
            /\ req' = [req EXCEPT ![c] = r] /\ Resembles
        BY <2>3 DEF Request, At, Goto, repo, Resembles
      <3>3. \A d \in Clients \ {c} : pc'[d] = pc[d] /\ req'[d] = req[d]
        BY <3>2 DEF TypeOK
      <3>4. pc[c] \notin Working /\ pc'[c] \notin Working \cup {"init"}
        BY <3>1, <3>2 DEF TypeOK, Working
      <3> QED BY <2>1, <3>2, <3>3, <3>4, WriterStays
    <2>4. ASSUME NEW c \in Clients, Handle(c) PROVE WriterInv'
      <3>1. CASE pc[c] \notin WriterSteps
        <4>1. PICK next : next \notin WriterSteps /\ pc' = [pc EXCEPT ![c] = next]
          BY <2>4, <3>1, Bystander
        <4>2. Resembles /\ req' = req
          BY <2>4, <3>1, Bystander DEF Resembles
        <4>3. pc'[c] = next /\ \A d \in Clients \ {c} : pc'[d] = pc[d]
          BY <4>1 DEF TypeOK
        <4>4. pc[c] \notin Working /\ pc'[c] \notin Working \cup {"init"}
          BY <3>1, <4>1, <4>3 DEF WriterSteps, ConfigSteps, Working
        <4> QED BY <2>1, <4>2, <4>3, <4>4, WriterStays
      <3>2. CASE pc[c] \in WriterSteps
        <4>1. \/ StatKey(c) \/ CreateKey(c) \/ WriteKey(c) \/ DeriveKey(c) \/ CheckNew(c)
              \/ CompareUrl(c) \/ CheckDelete(c) \/ ListEntries(c)
              \/ GitInit(c) \/ AddRemote(c) \/ AddFetch(c) \/ SetUrl(c) \/ SetSsh(c) \/ SetPath(c)
              \/ SetPub(c) \/ ConfigSetFails(c)
              \/ Removed(c) \/ RemoveHead(c) \/ RemoveRefs(c) \/ RemoveConfig(c)
              \/ StepFails(c)
          BY <2>4, <3>2
             DEF Handle, CheckRead, ReadUrl, ReadPub, FetchStarts, FetchFails, FetchEnds,
                 GetTarball, Looks, At, WriterSteps, ConfigSteps
        <4> QED BY <2>1, <3>2, <4>1, WriterLooks, WriterWrites, WriterRemoves, WriterFails
      <3> QED BY <3>1, <3>2
    <2>5. CASE Crash
      <3>1. \A c \in Clients : pc[c] \notin HalfDone /\ pc'[c] = "idle"
        BY <2>5 DEF Crash
      <3>2. Agreed /\ UNCHANGED <<parts, cfg, acked>>
        BY <2>1, <2>5, <3>1 DEF WriterInv, Crash, At, HalfDone, Working
      <3>3. Agreed'
        BY <3>2, AgreedKept DEF Resembles
      <3> QED BY <3>1, <3>3 DEF WriterInv
    <2> QED BY <1>2, <2>1, <2>3, <2>4, <2>5 DEF Next
  <1> QED BY <1>1, <1>2

LEMMA WriterInitially == Init => WriterInv
  BY DEF Init, WriterInv, Agreed

\* One writer at a time, any readers, any faults: unless a change was left
\* halfway, the settings in force are those last acknowledged, whatever was
\* called before and whoever reads, syncs or downloads meanwhile.
THEOREM LastAckWinsCorrect == Spec /\ []OneWriter => []LastAckWins
  <1>1. (~spoiled => WriterInv) => LastAckWins
    BY DEF WriterInv, LastAckWins, Quiet, At, Agreed, Working
  <1>2. OneWriter /\ TypeOK /\ (~spoiled => WriterInv) /\ [Next]_vars => (~spoiled => WriterInv)'
    BY WriterNext
  <1>3. Init => (~spoiled => WriterInv)
    BY WriterInitially
  <1> QED BY <1>1, <1>2, <1>3, TypeCorrect, PTL DEF Spec

-----------------------------------------------------------------------------
(* One caller, no change left halfway: what a GET has read.                 *)

ReaderInv ==
    \A c \in Clients :
      /\ pc[c] \in {"readUrl", "readPub"} => acked.url # None
      /\ pc[c] = "readPub" => held[c] = acked.url
      /\ pc[c] = "idle" /\ reply[c].code = "state" =>
           acked.url = reply[c].url /\ acked.key = reply[c].pub
      /\ pc[c] = "idle" /\ reply[c].code = "404" => acked.url = None

\* The only caller is at no step that changes the disk.
LEMMA CallerFinds ==
    ASSUME OneCaller, WriterInv, NEW c \in Clients, pc[c] \notin Working
    PROVE  Agreed
  BY DEF OneCaller, WriterInv

LEMMA ReaderStep ==
    ASSUME OneCaller, TypeOK, WriterInv, ReaderInv, NEW c \in Clients, Handle(c)
    PROVE  ReaderInv'
  <1>0. /\ \A d \in Clients : d = c
        /\ pc \in [Clients -> Steps] /\ reply \in [Clients -> Replies]
        /\ held \in [Clients -> Urls \cup {None}]
    BY DEF OneCaller, TypeOK
  <1> USE DEF At, Goto, Reply, Answer
  <1>1. CASE CheckRead(c) \/ ReadUrl(c) \/ ReadPub(c)
    <2>1. pc[c] \in {"checkRead", "readUrl", "readPub"} /\ acked' = acked
      BY <1>1 DEF CheckRead, ReadUrl, ReadPub, Looks
    <2>2. Agreed
      BY <2>1, CallerFinds DEF Working
    <2>3. CASE CheckRead(c)
      <3>1. isBareRepository <=> acked.url # None
        BY <2>2 DEF Agreed, isBareRepository, IsRepository, Configured
      <3> QED BY <1>0, <2>1, <2>3, <3>1 DEF CheckRead, ReaderInv
    <2>4. CASE ReadUrl(c)
      <3>1. acked.url # None /\ cfg.url = acked.url
        BY <2>2, <2>4 DEF ReadUrl, Looks, ReaderInv, Agreed, Configured
      <3> QED BY <1>0, <2>1, <2>4, <3>1 DEF ReadUrl, ReaderInv
    <2>5. CASE ReadPub(c)
      <3>1. acked.url # None /\ held[c] = acked.url
        BY <2>5 DEF ReadPub, ReaderInv
      <3>2. IsRepository /\ cfg.pub = acked.key
        BY <2>2, <3>1 DEF Agreed, Configured
      <3>3. reply'[c] = [code |-> "state", url |-> acked.url, pub |-> acked.key]
        BY <1>0, <2>5, <3>1, <3>2 DEF ReadPub
      <3>4. acked'.url = reply'[c].url /\ acked'.key = reply'[c].pub /\ reply'[c].code = "state"
        BY <1>0, <2>1, <3>3
      <3>5. pc'[c] = "idle"
        BY <1>0, <2>5 DEF ReadPub
      <3> QED BY <1>0, <3>4, <3>5 DEF ReaderInv
    <2> QED BY <1>1, <2>3, <2>4, <2>5
  <1>2. CASE ~(CheckRead(c) \/ ReadUrl(c) \/ ReadPub(c))
    <2>1. /\ pc'[c] \notin {"readUrl", "readPub"}
          /\ pc'[c] = "idle" => reply'[c].code \notin {"state", "404"}
      BY <1>0, <1>2
         DEF Handle, StatKey, CreateKey, WriteKey, StoreKey, DeriveKey, CheckNew, CompareUrl,
             FetchStarts, FetchFails, FetchEnds, GetTarball, Looks, GitInit, AddRemote, AddFetch,
             SetUrl, SetSsh, SetPath, SetPub, Writes, ConfigSetFails, CheckDelete, ListEntries,
             Removed, Gone, RemoveHead, RemoveRefs, RemoveConfig, Unlinks, StepFails
    <2> QED BY <1>0, <2>1 DEF ReaderInv
  <1> QED BY <1>1, <1>2

LEMMA ReaderNext ==
    OneCaller /\ TypeOK /\ (~spoiled => WriterInv /\ ReaderInv) /\ [Next]_vars
      => (~spoiled => ReaderInv)'
  <1> SUFFICES ASSUME OneCaller, TypeOK, ~spoiled => WriterInv /\ ReaderInv, [Next]_vars,
                      ~spoiled'
               PROVE  ReaderInv'
    OBVIOUS
  <1>1. CASE UNCHANGED vars
    BY <1>1 DEF vars, ReaderInv
  <1>2. CASE Next
    <2>1. WriterInv /\ ReaderInv
      BY <1>2, Unspoiled
    <2>2. ASSUME NEW c \in Clients, NEW r \in Requests, Request(c, r) PROVE ReaderInv'
      <3>1. FirstStep(r.method) \in {"statKey", "checkRead", "checkDelete", "fetch", "archive"}
        BY CacheAssumption DEF FirstStep, Requests
      <3>2. (\A d \in Clients : d = c) /\ pc'[c] = FirstStep(r.method)
        BY <2>2 DEF Request, Goto, OneCaller, TypeOK
      <3> QED BY <3>1, <3>2 DEF ReaderInv
    <2>3. CASE Crash
      BY <2>3 DEF Crash, ReaderInv, NoReply
    <2> QED BY <1>2, <2>1, <2>2, <2>3, ReaderStep DEF Next
  <1> QED BY <1>1, <1>2

\* One caller, any faults: unless a change was left halfway, what GET reports
\* is what was last acknowledged.
THEOREM ReadIsLastAckedCorrect ==
    ASSUME OneCaller PROVE Spec => []ReadIsLastAcked
  <1>1. (~spoiled => ReaderInv) => ReadIsLastAcked
    BY DEF ReaderInv, ReadIsLastAcked, At
  <1>2. TypeOK /\ (~spoiled => WriterInv /\ ReaderInv) /\ [Next]_vars
          => (~spoiled => WriterInv /\ ReaderInv)'
    BY WriterNext, ReaderNext, OneCallerWrites
  <1>3. Init => (~spoiled => WriterInv /\ ReaderInv)
    BY WriterInitially DEF Init, ReaderInv, NoReply
  <1>4. (~spoiled => WriterInv /\ ReaderInv) => (~spoiled => ReaderInv)
    OBVIOUS
  <1> QED BY <1>1, <1>2, <1>3, <1>4, TypeCorrect, PTL DEF Spec

-----------------------------------------------------------------------------
(* One caller, no change left halfway: what syncs store, and downloads     *)
(* read, is the origin's.                                                  *)

\* The origin a fetch talks to is the one acknowledged last, and so is the one
\* the branches come from whose sync was acknowledged since, until they go.
DownloadInv ==
    \A c \in Clients :
      /\ pc[c] # "remove" => \A r \in acked.refs : tracked[r] = acked.url
      /\ acked.refs # {} => acked.url # None
      /\ pc[c] = "storeRef" => held[c] = acked.url /\ acked.url # None
      /\ pc[c] = "idle" /\ reply[c].code = "tarball" /\ req[c].ref \in acked.refs
           => reply[c].url = acked.url

LEMMA DownloadStep ==
    ASSUME OneCaller, TypeOK, WriterInv, DownloadInv, ~spoiled', NEW c \in Clients, Handle(c)
    PROVE  DownloadInv'
  <1>0. /\ \A d \in Clients : d = c
        /\ pc \in [Clients -> Steps] /\ reply \in [Clients -> Replies]
        /\ held \in [Clients -> Urls \cup {None}] /\ tracked \in [Refs -> Urls \cup {None}]
        /\ acked \in [url : Urls \cup {None}, key : Keys \cup {None}, refs : SUBSET Refs]
        /\ req[c].ref \in Refs
    BY DEF OneCaller, TypeOK, Requests
  <1> USE DEF At, Goto, Reply, Answer
  <1>1. CASE FetchStarts(c)
    <2>1. pc[c] = "fetch" /\ IsRepository /\ cfg.url # None /\ UNCHANGED <<tracked, acked>>
      BY <1>1 DEF FetchStarts, repo
    <2>2. Agreed
      BY <2>1, CallerFinds DEF Working
    <2>3. cfg.fetch /\ cfg.url = acked.url
      BY <2>1, <2>2 DEF Agreed, IsRepository, Configured
    <2>4. held'[c] = acked.url /\ pc'[c] = "storeRef"
      BY <1>0, <1>1, <2>3 DEF FetchStarts
    <2> QED BY <1>0, <2>1, <2>3, <2>4 DEF DownloadInv
  <1>2. CASE FetchEnds(c)
    <2>1. pc[c] = "storeRef" /\ held[c] = acked.url /\ acked.url # None
      BY <1>2 DEF FetchEnds, DownloadInv
    <2>2. /\ acked'.url = acked.url /\ acked'.refs = acked.refs \cup ({req[c].ref} \ Tags)
          /\ \A r \in Refs : tracked'[r] = IF r = req[c].ref /\ req[c].ref \notin Tags
                                           THEN acked.url ELSE tracked[r]
      BY <1>0, <1>2, <2>1 DEF FetchEnds, Moves
    <2>3. \A r \in acked'.refs : tracked'[r] = acked'.url
      BY <1>0, <2>1, <2>2 DEF DownloadInv
    <2>4. pc'[c] = "idle" /\ reply'[c].code = "ok"
      BY <1>0, <1>2 DEF FetchEnds
    <2> QED BY <1>0, <2>1, <2>2, <2>3, <2>4 DEF DownloadInv
  <1>3. CASE GetTarball(c)
    <2>1. pc[c] = "archive" /\ UNCHANGED <<tracked, acked, req>>
      BY <1>3 DEF GetTarball, Looks, repo
    <2>2. Agreed
      BY <2>1, CallerFinds DEF Working
    <2>3. acked.refs # {} => IsRepository
      BY <1>0, <2>2 DEF DownloadInv, Agreed
    <2>4. req[c].ref \in acked.refs => reply'[c].url = acked.url
      BY <1>0, <1>3, <2>1, <2>3 DEF GetTarball, DownloadInv
    <2>5. pc'[c] = "idle"
      BY <1>0, <1>3 DEF GetTarball
    <2> QED BY <1>0, <2>1, <2>4, <2>5 DEF DownloadInv
  <1>4. CASE RemoveHead(c) \/ RemoveRefs(c) \/ RemoveConfig(c)
    <2>1. pc' = pc /\ pc[c] = "remove" /\ acked' = acked
      BY <1>4 DEF RemoveHead, RemoveRefs, RemoveConfig, Unlinks
    <2> QED BY <1>0, <2>1 DEF DownloadInv
  <1>5. CASE SetPub(c) \/ Gone(c)
    <2>1. acked'.refs = {} /\ pc'[c] = "idle" /\ reply'[c].code # "tarball"
      BY <1>0, <1>5 DEF SetPub, Gone
    <2> QED BY <1>0, <2>1 DEF DownloadInv
  <1>6. CASE ~(\/ FetchStarts(c) \/ FetchEnds(c) \/ GetTarball(c) \/ RemoveHead(c)
               \/ RemoveRefs(c) \/ RemoveConfig(c) \/ SetPub(c) \/ Gone(c))
    <2>1. UNCHANGED <<tracked, acked>>
      BY <1>6 DEF Handle, StatKey, CreateKey, WriteKey, StoreKey, DeriveKey, CheckNew, CompareUrl,
               CheckRead, ReadUrl, ReadPub, FetchFails, Looks, GitInit, AddRemote, AddFetch,
               SetUrl, SetSsh, SetPath, Writes, ConfigSetFails, CheckDelete, ListEntries,
               Removed, StepFails, repo
    <2>2. pc[c] # "remove"
      BY <1>6 DEF Handle, StatKey, CreateKey, WriteKey, StoreKey, DeriveKey, CheckNew, CompareUrl,
               CheckRead, ReadUrl, ReadPub, FetchFails, Looks, GitInit, AddRemote, AddFetch,
               SetUrl, SetSsh, SetPath, Writes, ConfigSetFails, CheckDelete, ListEntries,
               Removed, StepFails, HalfDone
    <2>3. pc'[c] # "storeRef" /\ (pc'[c] = "idle" => reply'[c].code # "tarball")
      BY <1>0, <1>6
         DEF Handle, StatKey, CreateKey, WriteKey, StoreKey, DeriveKey, CheckNew, CompareUrl,
             CheckRead, ReadUrl, ReadPub, FetchFails, GitInit, AddRemote, AddFetch,
             SetUrl, SetSsh, SetPath, ConfigSetFails, CheckDelete, ListEntries,
             Removed, StepFails
    <2> QED BY <1>0, <2>1, <2>2, <2>3 DEF DownloadInv
  <1> QED BY <1>1, <1>2, <1>3, <1>4, <1>5, <1>6

LEMMA DownloadNext ==
    OneCaller /\ TypeOK /\ (~spoiled => WriterInv /\ DownloadInv) /\ [Next]_vars
      => (~spoiled => DownloadInv)'
  <1> SUFFICES ASSUME OneCaller, TypeOK, ~spoiled => WriterInv /\ DownloadInv, [Next]_vars,
                      ~spoiled'
               PROVE  DownloadInv'
    OBVIOUS
  <1>1. CASE UNCHANGED vars
    BY <1>1 DEF vars, DownloadInv
  <1>2. CASE Next
    <2>1. WriterInv /\ DownloadInv
      BY <1>2, Unspoiled
    <2>2. ASSUME NEW c \in Clients, NEW r \in Requests, Request(c, r) PROVE DownloadInv'
      <3>1. FirstStep(r.method) \in {"statKey", "checkRead", "checkDelete", "fetch", "archive"}
        BY CacheAssumption DEF FirstStep, Requests
      <3>2. /\ \A d \in Clients : d = c
            /\ pc[c] = "idle" /\ pc'[c] = FirstStep(r.method) /\ UNCHANGED <<tracked, acked>>
        BY <2>2 DEF Request, Goto, At, OneCaller, TypeOK, repo
      <3> QED BY <2>1, <3>1, <3>2 DEF DownloadInv
    <2>3. CASE Crash
      <3>1. \A c \in Clients : pc[c] # "remove"
        BY <2>3 DEF Crash, HalfDone
      <3> QED BY <2>1, <2>3, <3>1 DEF Crash, DownloadInv, NoReply
    <2> QED BY <1>2, <2>1, <2>2, <2>3, DownloadStep DEF Next
  <1> QED BY <1>1, <1>2

\* One caller, any faults: unless a change was left halfway, a download of a
\* branch that was synced since the latest change of the registration is what
\* the origin of that change has.
THEOREM DownloadServesOriginCorrect ==
    ASSUME OneCaller PROVE Spec => []DownloadServesOrigin
  <1>1. (~spoiled => DownloadInv) => DownloadServesOrigin
    BY DEF DownloadInv, DownloadServesOrigin, At
  <1>2. TypeOK /\ (~spoiled => WriterInv /\ DownloadInv) /\ [Next]_vars
          => (~spoiled => WriterInv /\ DownloadInv)'
    BY WriterNext, DownloadNext, OneCallerWrites
  <1>3. Init => (~spoiled => WriterInv /\ DownloadInv)
    BY WriterInitially DEF Init, DownloadInv, NoReply
  <1>4. (~spoiled => WriterInv /\ DownloadInv) => (~spoiled => DownloadInv)
    OBVIOUS
  <1> QED BY <1>1, <1>2, <1>3, <1>4, TypeCorrect, PTL DEF Spec

-----------------------------------------------------------------------------
(* One caller: only faults leave a change halfway.                         *)

CleanInv ==
    /\ faults = 0 => ~spoiled
    /\ \A c \in Clients : pc[c] = "remove" => Entries \subseteq todo[c]

\* A RemoveAll that nobody disturbs has listed all there is.
LEMMA CleanRemove ==
    ASSUME OneCaller, TypeOK, CleanInv, NEW c \in Clients, Handle(c), pc'[c] = "remove"
    PROVE  Entries' \subseteq todo'[c]
  <1>0. /\ \A d \in Clients : d = c
        /\ pc \in [Clients -> Steps] /\ todo \in [Clients -> SUBSET {"HEAD", "refs", "config"}]
    BY DEF OneCaller, TypeOK
  <1>1. ListEntries(c) \/ RemoveHead(c) \/ RemoveRefs(c) \/ RemoveConfig(c)
    BY <1>0 DEF Handle, StatKey, CreateKey, WriteKey, StoreKey, DeriveKey, CheckNew, CompareUrl,
           CheckRead, ReadUrl, ReadPub, FetchStarts, FetchFails, FetchEnds, GetTarball,
           GitInit, AddRemote, AddFetch, SetUrl, SetSsh, SetPath, SetPub, ConfigSetFails,
           CheckDelete, Removed, Gone, StepFails, Goto, Reply, Answer
  <1>2. CASE ListEntries(c)
    BY <1>0, <1>2 DEF ListEntries, Entries, repo
  <1>3. CASE RemoveHead(c) \/ RemoveRefs(c) \/ RemoveConfig(c)
    <2>1. pc[c] = "remove" /\ Entries \subseteq todo[c]
      BY <1>3 DEF RemoveHead, RemoveRefs, RemoveConfig, Unlinks, At, CleanInv
    <2>2. ASSUME NEW entry \in {"HEAD", "refs", "config"}, Unlinks(c, entry),
                 entry \notin Entries', Entries' \subseteq Entries
          PROVE  Entries' \subseteq todo'[c]
      BY <1>0, <2>1, <2>2 DEF Unlinks
    <2>3. CASE RemoveHead(c)
      BY <2>2, <2>3 DEF RemoveHead, Entries
    <2>4. CASE RemoveRefs(c)
      BY <2>2, <2>4 DEF RemoveRefs, Entries
    <2>5. CASE RemoveConfig(c)
      <3>1. Clients \ {c} = {}
        BY <1>0
      <3>2. cfg' = NoConfig /\ parts' = parts /\ Unlinks(c, "config")
        BY <2>5, <3>1 DEF RemoveConfig
      <3> QED BY <2>2, <3>2 DEF Entries, TypeOK
    <2> QED BY <1>3, <2>3, <2>4, <2>5
  <1> QED BY <1>1, <1>2, <1>3

\* Without a fault no handler gives up halfway.
LEMMA CleanStep ==
    ASSUME OneCaller, TypeOK, WriterInv, CleanInv, ~spoiled, NEW c \in Clients, Handle(c),
           ~StepFails(c)
    PROVE  ~spoiled'
  <1> SUFFICES ASSUME Reply(c, "500"), pc[c] \in HalfDone PROVE FALSE
    BY DEF Handle, StatKey, CreateKey, WriteKey, StoreKey, DeriveKey, CheckNew, CompareUrl,
           CheckRead, ReadUrl, ReadPub, FetchStarts, FetchFails, FetchEnds, GetTarball,
           GitInit, AddRemote, AddFetch, SetUrl, SetSsh, SetPath, SetPub, ConfigSetFails,
           CheckDelete, ListEntries, Removed, Gone, RemoveHead, RemoveRefs, RemoveConfig, Unlinks,
           Goto, Reply, Answer
  <1>0. /\ \A d \in Clients : d = c
        /\ pc \in [Clients -> Steps] /\ reply \in [Clients -> Replies]
        /\ pc'[c] = "idle" /\ reply'[c].code = "500"
    BY DEF OneCaller, TypeOK, Reply, Answer
  <1>1. AddRemote(c) \/ AddFetch(c) \/ ConfigSetFails(c) \/ Removed(c)
    BY <1>0
       DEF Handle, StatKey, CreateKey, WriteKey, StoreKey, DeriveKey, CheckNew, CompareUrl,
           CheckRead, ReadUrl, ReadPub, FetchStarts, FetchFails, FetchEnds, GetTarball,
           GitInit, SetUrl, SetSsh, SetPath, SetPub, CheckDelete, ListEntries,
           RemoveHead, RemoveRefs, RemoveConfig, Unlinks, Looks, Writes, At, Goto, Reply, Answer,
           HalfDone
  <1>2. CASE AddRemote(c)
    <2>1. pc[c] = "addRemote"
      BY <1>2 DEF AddRemote, Looks, Writes, At
    <2>2. IsRepository /\ NoRemote
      BY <2>1 DEF WriterInv, NoRemote, NoConfig
    <2>3. pc'[c] = "addFetch"
      BY <1>0, <1>2, <2>2 DEF AddRemote, Goto
    <2> QED BY <1>0, <2>3
  <1>3. CASE AddFetch(c) \/ ConfigSetFails(c)
    <2>1. pc[c] \in {"addFetch", "setSsh", "setPath", "setPub"}
      BY <1>3 DEF AddFetch, ConfigSetFails, Looks, Writes, At
    <2>2. IsRepository
      BY <2>1 DEF WriterInv
    <2>3. pc'[c] = "setSsh"
      BY <1>0, <1>3, <2>2 DEF AddFetch, ConfigSetFails, Goto
    <2> QED BY <1>0, <2>3
  <1>4. CASE Removed(c)
    <2>1. pc[c] = "remove" /\ todo[c] = {}
      BY <1>4 DEF Removed, Looks, At
    <2>2. NothingLeft /\ Clients = {c}
      BY <1>0, <2>1 DEF CleanInv, NothingLeft
    <2>3. Reply(c, "gone")
      BY <1>4, <2>2 DEF Removed, Gone
    <2> QED BY <1>0, <2>3 DEF Reply, Answer, TypeOK
  <1> QED BY <1>1, <1>2, <1>3, <1>4

LEMMA CleanNext ==
    OneCaller /\ TypeOK /\ (~spoiled => WriterInv) /\ CleanInv /\ [Next]_vars => CleanInv'
  <1> SUFFICES ASSUME OneCaller, TypeOK, ~spoiled => WriterInv, CleanInv, [Next]_vars
               PROVE  CleanInv'
    OBVIOUS
  <1>0. faults \in Nat
    BY CacheAssumption DEF TypeOK
  <1>1. CASE UNCHANGED vars
    BY <1>1 DEF vars, CleanInv, Entries
  <1>2. ASSUME NEW c \in Clients, NEW r \in Requests, Request(c, r) PROVE CleanInv'
    <2>1. FirstStep(r.method) # "remove"
      BY CacheAssumption DEF FirstStep, Requests
    <2> QED BY <1>2, <2>1 DEF Request, Goto, TypeOK, CleanInv, Entries, repo, memory
  <1>3. CASE Crash
    BY <1>0, <1>3 DEF Crash, CleanInv
  <1>4. ASSUME NEW c \in Clients, Handle(c) PROVE CleanInv'
    <2>1. \A d \in Clients : pc'[d] = "remove" => Entries' \subseteq todo'[d]
      BY <1>4, CleanRemove DEF OneCaller
    <2>2. ~Locked(c)
      BY DEF OneCaller, Locked
    <2>3. StepFails(c) => faults' # 0
      BY <1>0, <2>2 DEF StepFails
    <2>4. ~StepFails(c) => faults' = faults
      BY <1>4 DEF Handle, StatKey, CreateKey, WriteKey, StoreKey, DeriveKey, CheckNew, CompareUrl,
           CheckRead, ReadUrl, ReadPub, FetchStarts, FetchFails, FetchEnds, GetTarball, Looks,
           GitInit, AddRemote, AddFetch, SetUrl, SetSsh, SetPath, SetPub, ConfigSetFails, Writes,
           CheckDelete, ListEntries, Removed, Gone, RemoveHead, RemoveRefs, RemoveConfig, Unlinks
    <2>5. faults' = 0 => ~spoiled'
      BY <1>4, <2>3, <2>4, CleanStep DEF CleanInv
    <2> QED BY <2>1, <2>5 DEF CleanInv
  <1> QED BY <1>1, <1>2, <1>3, <1>4 DEF Next

LEMMA CleanHolds == ASSUME OneCaller PROVE Spec => []CleanInv
  <1>1. Init => (~spoiled => WriterInv) /\ CleanInv
    BY WriterInitially DEF Init, CleanInv
  <1>2. TypeOK /\ ((~spoiled => WriterInv) /\ CleanInv) /\ [Next]_vars
          => ((~spoiled => WriterInv) /\ CleanInv)'
    BY WriterNext, CleanNext, OneCallerWrites
  <1> QED BY <1>1, <1>2, TypeCorrect, PTL DEF Spec

=============================================================================
