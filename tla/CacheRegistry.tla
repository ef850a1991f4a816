---------------------------- MODULE CacheRegistry ----------------------------
(***************************************************************************)
(* The registration of one repository in the cache server (cmd/cache): its *)
(* HTTP handlers run concurrently, take no lock, and do their work in git  *)
(* processes and file operations, one after the other, on the same bare    *)
(* repository and the same key directory.  An action is one such process   *)
(* or operation of one handler.  A fault is a step that fails (disk full)  *)
(* or a crash of the server; both leave what was done.                     *)
(***************************************************************************)
EXTENDS Integers

CONSTANTS
    Clients,     \* concurrent callers, each with one request at a time
    Urls, Keys,  \* origin URLs and SSH private keys in the requests
    Refs, Tags,  \* refs to sync and download, and which of them are tags
    Methods,     \* the endpoints the callers use
    None,        \* "not set"
    MaxFaults    \* bound on the number of faults

ASSUME CacheAssumption ==
    /\ Tags \subseteq Refs
    /\ Methods \subseteq {"PUT", "POST", "GET", "DELETE", "SYNC", "TARBALL"}
    /\ {} \notin {Methods, Urls, Keys, Refs}
    /\ None \notin Urls \cup Keys
    /\ MaxFaults \in Nat

VARIABLES
    parts,     \* what makes the directory a repository: HEAD, refs/
    cfg,       \* the config file: bare, the origin's URL and whether it has a
               \* fetch refspec, and the three SSH settings
    tracked,   \* refs/remotes/origin/<ref>: the URL its content came from
    keyFile,   \* per key: its content-addressed file
    pc,        \* per client: next step of the handler of its request
    req,       \* per client: the request
    held,      \* per client: an origin URL read earlier in the handler
    todo,      \* per client: entries its RemoveAll has listed and not unlinked
    reply,     \* per client: the latest answer
    faults,    \* number of faults so far
    acked,     \* history: url and key of the latest change acknowledged, and
               \* the branches whose sync has been acknowledged since
    spoiled    \* history: some change was left halfway

repo == <<parts, cfg, tracked>>
memory == <<held, todo>>
vars == <<parts, cfg, tracked, keyFile, pc, req, held, todo, reply, faults, acked, spoiled>>

Requests == [method : Methods, url : Urls, key : Keys, ref : Refs]
NoConfig == [bare |-> FALSE, url |-> None, fetch |-> FALSE, ssh |-> None, path |-> None, pub |-> None]
NoReply  == [code |-> "none", url |-> None, pub |-> None]

\* Git takes the directory for a repository; and for a bare one.
IsRepository     == parts = {"HEAD", "refs"}
isBareRepository == IsRepository /\ cfg.bare

\* What there is for RemoveAll to unlink.
Entries     == parts \cup {e \in {"config"} : cfg # NoConfig}
NothingLeft == Entries = {}

Configs == [bare : BOOLEAN, url : Urls \cup {None}, fetch : BOOLEAN, ssh : Keys \cup {None},
            path : Keys \cup {None}, pub : Keys \cup {None}]

\* Processes that rewrite the config file, under config.lock.
ConfigSteps == {"init", "addRemote", "addFetch", "setUrl", "setSsh", "setPath", "setPub"}

\* Where an error or a crash leaves a change half done.
HalfDone == {"init", "addRemote", "addFetch", "setSsh", "setPath", "setPub", "remove"}

Steps   == ConfigSteps \cup
           {"idle", "statKey", "createKey", "writeKey", "deriveKey", "checkNew",
            "compareUrl", "checkRead", "readUrl", "readPub", "checkDelete", "list",
            "remove", "fetch", "storeRef", "archive"}
Replies == [code : {"none", "registered", "already", "adjusted", "state", "gone",
                    "ok", "tarball", "404", "500"},
            url : Urls \cup {None}, pub : Keys \cup {None}]

TypeOK ==
    /\ parts \subseteq {"HEAD", "refs"}
    /\ cfg \in Configs
    /\ tracked \in [Refs -> Urls \cup {None}]
    /\ keyFile \in [Keys -> {"absent", "partial", "stored"}]
    /\ pc \in [Clients -> Steps]
    /\ req \in [Clients -> Requests]
    /\ held \in [Clients -> Urls \cup {None}]
    /\ todo \in [Clients -> SUBSET {"HEAD", "refs", "config"}]
    /\ reply \in [Clients -> Replies]
    /\ faults \in 0 .. MaxFaults
    /\ acked \in [url : Urls \cup {None}, key : Keys \cup {None}, refs : SUBSET Refs]
    /\ spoiled \in BOOLEAN

Init ==
    /\ parts = {}
    /\ cfg = NoConfig
    /\ tracked = [r \in Refs |-> None]
    /\ keyFile = [k \in Keys |-> "absent"]
    /\ pc = [c \in Clients |-> "idle"]
    /\ req = [c \in Clients |-> CHOOSE r \in Requests : TRUE]   \* none yet
    /\ held = [c \in Clients |-> None]
    /\ todo = [c \in Clients |-> {}]
    /\ reply = [c \in Clients |-> NoReply]
    /\ faults = 0
    /\ acked = [url |-> None, key |-> None, refs |-> {}]
    /\ spoiled = FALSE

-----------------------------------------------------------------------------
At(c, step)   == pc[c] = step
Goto(c, step) == pc' = [pc EXCEPT ![c] = step] /\ UNCHANGED <<reply, spoiled>>

Answer(c, code, url, pub) ==
    /\ pc' = [pc EXCEPT ![c] = "idle"]
    /\ reply' = [reply EXCEPT ![c] = [code |-> code, url |-> url, pub |-> pub]]
    /\ spoiled' = (spoiled \/ (code = "500" /\ pc[c] \in HalfDone))

Reply(c, code) == Answer(c, code, None, None)

FirstStep(method) ==
    CASE method \in {"PUT", "POST"} -> "statKey"
      [] method = "GET"     -> "checkRead"
      [] method = "DELETE"  -> "checkDelete"
      [] method = "SYNC"    -> "fetch"
      [] method = "TARBALL" -> "archive"

Request(c, r) ==
    /\ At(c, "idle")
    /\ req' = [req EXCEPT ![c] = r]
    /\ Goto(c, FirstStep(r.method))
    /\ UNCHANGED <<repo, keyFile, memory, faults, acked>>

\* A step that only looks at the disk, and one that only writes the config.
Looks(c, step) ==
    At(c, step) /\ UNCHANGED <<repo, keyFile, req, memory, faults, acked>>

Writes(c, step, newCfg) ==
    /\ At(c, step)
    /\ cfg' = newCfg
    /\ UNCHANGED <<parts, tracked, keyFile, req, memory, faults>>

-----------------------------------------------------------------------------
(* storeSSHKey: stat, create and write the key file, then ssh-keygen -y.   *)

StatKey(c) ==
    /\ Looks(c, "statKey")
    /\ Goto(c, IF keyFile[req[c].key] = "absent" THEN "createKey" ELSE "deriveKey")

StoreKey(c, step, content, next) ==
    /\ At(c, step)
    /\ keyFile' = [keyFile EXCEPT ![req[c].key] = content]
    /\ Goto(c, next)
    /\ UNCHANGED <<repo, req, memory, faults, acked>>

\* WriteFile truncates, then writes.
CreateKey(c) == StoreKey(c, "createKey", "partial", "writeKey")
WriteKey(c)  == StoreKey(c, "writeKey", "stored", "deriveKey")

\* Mutant: the public key is taken from the request, not from the file.
DeriveKeyUnchecked(c) ==
    /\ Looks(c, "deriveKey")
    /\ Goto(c, IF req[c].method = "PUT" THEN "checkNew" ELSE "compareUrl")

\* ssh-keygen cannot read half a key.
DeriveKey(c) ==
    /\ Looks(c, "deriveKey")
    /\ IF keyFile[req[c].key] = "stored"
       THEN Goto(c, IF req[c].method = "PUT" THEN "checkNew" ELSE "compareUrl")
       ELSE Reply(c, "500")

-----------------------------------------------------------------------------
(* PUT /sync/{repo}: NewRef.                                               *)

CheckNew(c) ==
    /\ Looks(c, "checkNew")
    /\ IF isBareRepository THEN Reply(c, "already") ELSE Goto(c, "init")

\* git init --bare keeps what is there and adds what is missing.
GitInit(c) ==
    /\ At(c, "init")
    /\ parts' = {"HEAD", "refs"}
    /\ cfg' = [cfg EXCEPT !.bare = TRUE]
    /\ Goto(c, "addRemote")
    /\ UNCHANGED <<tracked, keyFile, req, memory, faults, acked>>

\* Mutant: an origin that is left from earlier is no error.
AddRemoteOrKeep(c) ==
    \/ /\ IsRepository /\ cfg.url = None
       /\ Writes(c, "addRemote", [cfg EXCEPT !.url = req[c].url])
       /\ Goto(c, "addFetch")
       /\ UNCHANGED acked
    \/ IsRepository /\ cfg.url # None /\ Looks(c, "addRemote") /\ Goto(c, "setSsh")

NoRemote == cfg.url = None /\ ~cfg.fetch

\* git remote add fails if there is an origin already, or no repository.  It
\* rewrites the config twice, for the URL and for the fetch refspec.
AddRemote(c) ==
    \/ /\ IsRepository /\ NoRemote
       /\ Writes(c, "addRemote", [cfg EXCEPT !.url = req[c].url])
       /\ Goto(c, "addFetch")
       /\ UNCHANGED acked
    \/ /\ ~(IsRepository /\ NoRemote)
       /\ Looks(c, "addRemote")
       /\ Reply(c, "500")

\* The same process goes on: it writes as long as there is the directory.
AddFetch(c) ==
    \/ /\ ~NothingLeft \/ \E d \in Clients : At(d, "remove")
       /\ Writes(c, "addFetch", [cfg EXCEPT !.fetch = TRUE])
       /\ Goto(c, "setSsh")
       /\ UNCHANGED acked
    \/ /\ ~IsRepository
       /\ Looks(c, "addFetch")
       /\ Reply(c, "500")

-----------------------------------------------------------------------------
(* POST /sync/{repo}: AdjustRef.                                           *)

\* Mutant: nothing is adjusted when the URL is the same.
CompareUrlOnly(c) ==
    /\ At(c, "compareUrl")
    /\ UNCHANGED <<repo, keyFile, req, memory, faults>>
    /\ IF IsRepository /\ cfg.url = req[c].url
       THEN Reply(c, "adjusted") /\ acked' = [url |-> req[c].url, key |-> req[c].key, refs |-> {}]
       ELSE Goto(c, "setUrl") /\ UNCHANGED acked

CompareUrl(c) ==
    /\ Looks(c, "compareUrl")
    /\ Goto(c, IF IsRepository /\ cfg.url = req[c].url THEN "setSsh" ELSE "setUrl")

SetUrl(c) ==
    \/ /\ IsRepository /\ cfg.url # None
       /\ Writes(c, "setUrl", [cfg EXCEPT !.url = req[c].url])
       /\ Goto(c, "setSsh")
       /\ UNCHANGED acked
    \/ /\ ~(IsRepository /\ cfg.url # None)
       /\ Looks(c, "setUrl")
       /\ Reply(c, "500")

-----------------------------------------------------------------------------
(* configureRepoSSH: three git config processes, at the end of both.  git  *)
(* config writes to any repository, and starts a config file if it must.   *)

SetSsh(c) ==
    /\ IsRepository
    /\ Writes(c, "setSsh", [cfg EXCEPT !.ssh = req[c].key])
    /\ Goto(c, "setPath")
    /\ UNCHANGED acked

\* Mutant: the arguments are swapped.
SetPathToUrl(c) ==
    /\ IsRepository
    /\ Writes(c, "setPath", [cfg EXCEPT !.path = req[c].url])
    /\ Goto(c, "setPub")
    /\ UNCHANGED acked

\* Mutant: the handler answers before the public key is stored.
SetPathAndReply(c) ==
    /\ IsRepository
    /\ Writes(c, "setPath", [cfg EXCEPT !.path = req[c].key])
    /\ Reply(c, "adjusted")
    /\ UNCHANGED acked

SetPath(c) ==
    /\ IsRepository
    /\ Writes(c, "setPath", [cfg EXCEPT !.path = req[c].key])
    /\ Goto(c, "setPub")
    /\ UNCHANGED acked

SetPub(c) ==
    /\ IsRepository
    /\ Writes(c, "setPub", [cfg EXCEPT !.pub = req[c].key])
    /\ Reply(c, IF req[c].method = "PUT" THEN "registered" ELSE "adjusted")
    /\ acked' = [url |-> req[c].url, key |-> req[c].key, refs |-> {}]

ConfigSetFails(c) ==
    /\ ~IsRepository
    /\ \E step \in {"setSsh", "setPath", "setPub"} : Looks(c, step)
    /\ Reply(c, "500")

-----------------------------------------------------------------------------
(* GET /sync/{repo}: GetRepo reads the origin, then the public key.        *)

CheckRead(c) ==
    /\ Looks(c, "checkRead")
    /\ IF isBareRepository THEN Goto(c, "readUrl") ELSE Reply(c, "404")

ReadUrl(c) ==
    \/ /\ IsRepository /\ cfg.url # None
       /\ At(c, "readUrl")
       /\ held' = [held EXCEPT ![c] = cfg.url]
       /\ Goto(c, "readPub")
       /\ UNCHANGED <<repo, keyFile, req, todo, faults, acked>>
    \/ /\ ~(IsRepository /\ cfg.url # None)
       /\ Looks(c, "readUrl")
       /\ Reply(c, "500")

\* gitConfigGet turns any error into an empty string.
ReadPub(c) ==
    /\ At(c, "readPub")
    /\ Answer(c, "state", held[c], IF IsRepository THEN cfg.pub ELSE None)
    /\ held' = [held EXCEPT ![c] = None]
    /\ UNCHANGED <<repo, keyFile, req, todo, faults, acked>>

-----------------------------------------------------------------------------
(* DELETE /sync/{repo}: DeleteRepo.  RemoveAll lists the entries once,      *)
(* unlinks each, and then removes the directory.                           *)

Gone(c) ==
    /\ Reply(c, "gone")
    /\ acked' = [url |-> None, key |-> None, refs |-> {}]
    /\ UNCHANGED <<repo, keyFile, req, memory, faults>>

CheckDelete(c) ==
    \/ isBareRepository /\ Looks(c, "checkDelete") /\ Goto(c, "list")
    \/ ~isBareRepository /\ At(c, "checkDelete") /\ Gone(c)

ListEntries(c) ==
    /\ At(c, "list")
    /\ todo' = [todo EXCEPT ![c] = Entries]
    /\ Goto(c, "remove")
    /\ UNCHANGED <<repo, keyFile, req, held, faults, acked>>

Unlinks(c, entry) ==
    /\ At(c, "remove")
    /\ entry \in todo[c]
    /\ todo' = [todo EXCEPT ![c] = @ \ {entry}]
    /\ UNCHANGED <<pc, req, held, reply, faults, acked, spoiled>>

RemoveHead(c) ==
    /\ Unlinks(c, "HEAD")
    /\ parts' = parts \ {"HEAD"}
    /\ UNCHANGED <<cfg, tracked, keyFile>>

RemoveRefs(c) ==
    /\ Unlinks(c, "refs")
    /\ parts' = parts \ {"refs"}
    /\ tracked' = [r \in Refs |-> None]
    /\ UNCHANGED <<cfg, keyFile>>

\* Mutant: the key file of a repository that goes away is removed with it.
RemoveConfigAndKey(c) ==
    /\ Unlinks(c, "config")
    /\ cfg' = NoConfig
    /\ keyFile' = [k \in Keys |-> IF k = cfg.ssh THEN "absent" ELSE keyFile[k]]
    /\ UNCHANGED <<parts, tracked>>

\* A process of another handler may be between reading the file and putting
\* its new version in place: the old one is back then.
RemoveConfig(c) ==
    /\ Unlinks(c, "config")
    /\ \/ cfg' = NoConfig
       \/ (\E d \in Clients \ {c} : pc[d] \in ConfigSteps) /\ cfg' = cfg
    /\ UNCHANGED <<parts, tracked, keyFile>>

\* Mutant: the directory is taken to be empty once it is no repository.
RemovedEarly(c) == At(c, "remove") /\ parts = {} /\ Gone(c)

\* What others have put there since the listing, shown by the model or not
\* (objects, a lock), makes the removal of the directory fail.
Removed(c) ==
    /\ todo[c] = {}
    /\ \/ NothingLeft /\ At(c, "remove") /\ Gone(c)
       \/ (~NothingLeft \/ Clients # {c}) /\ Looks(c, "remove") /\ Reply(c, "500")

-----------------------------------------------------------------------------
(* POST /sync/{repo}/{ref}: SyncRef.  git fetch reads the config, talks to *)
(* the origin, and at the end moves the remote-tracking ref of a branch,   *)
(* if it has found a refspec.                                              *)

FetchStarts(c) ==
    /\ At(c, "fetch")
    /\ IsRepository /\ cfg.url # None
    /\ held' = [held EXCEPT ![c] = IF cfg.fetch THEN cfg.url ELSE None]
    /\ Goto(c, "storeRef")
    /\ UNCHANGED <<repo, keyFile, req, todo, faults, acked>>

\* No such repository, or the upstream cannot be reached or refuses the key.
FetchFails(c) ==
    /\ pc[c] \in {"fetch", "storeRef"}
    /\ Reply(c, "500")
    /\ held' = [held EXCEPT ![c] = None]
    /\ UNCHANGED <<repo, keyFile, req, todo, faults, acked>>

\* A tag has no remote-tracking ref: only FETCH_HEAD names it.
Moves(c) == held[c] # None /\ req[c].ref \notin Tags

\* Mutant: a ref that is tracked already is not moved.
FetchEndsOnce(c) ==
    /\ At(c, "storeRef")
    /\ tracked' = [r \in Refs |-> IF Moves(c) /\ r = req[c].ref /\ tracked[r] = None
                                  THEN held[c] ELSE tracked[r]]
    /\ parts' = IF Moves(c) THEN parts \cup {"refs"} ELSE parts
    /\ held' = [held EXCEPT ![c] = None]
    /\ acked' = [acked EXCEPT !.refs = @ \cup ({req[c].ref} \ Tags)]
    /\ Reply(c, "ok")
    /\ UNCHANGED <<cfg, keyFile, req, todo, faults>>

\* git makes the directories of the ref again if they are gone.
FetchEnds(c) ==
    /\ At(c, "storeRef")
    /\ tracked' = [r \in Refs |-> IF Moves(c) /\ r = req[c].ref THEN held[c] ELSE tracked[r]]
    /\ parts' = IF Moves(c) THEN parts \cup {"refs"} ELSE parts
    /\ held' = [held EXCEPT ![c] = None]
    /\ acked' = [acked EXCEPT !.refs = @ \cup ({req[c].ref} \ Tags)]
    /\ Reply(c, "ok")
    /\ UNCHANGED <<cfg, keyFile, req, todo, faults>>

\* GET /download/{repo}/{ref}: the answer is 200 before git archive runs, so
\* a ref that does not resolve gives an empty tarball (url None).
GetTarball(c) ==
    /\ Looks(c, "archive")
    /\ Answer(c, "tarball", IF IsRepository THEN tracked[req[c].ref] ELSE None, None)

-----------------------------------------------------------------------------
(* Faults.                                                                 *)

\* What a git init that is cut short has done.
HalfInit ==
    /\ parts' \in {p \in SUBSET {"HEAD", "refs"} : parts \subseteq p}
    /\ cfg' \in {cfg, [cfg EXCEPT !.bare = TRUE]}

\* A process that rewrites the config gives up when another one is at it.
Locked(c) == pc[c] \in ConfigSteps /\ \E d \in Clients \ {c} : pc[d] \in ConfigSteps

\* A step of a handler fails; the handler reports 500 and undoes nothing.
StepFails(c) ==
    /\ pc[c] \in ConfigSteps \cup {"writeKey", "remove"}
    /\ \/ faults < MaxFaults /\ faults' = faults + 1
       \/ Locked(c) /\ UNCHANGED faults
    /\ IF At(c, "init") THEN HalfInit ELSE UNCHANGED <<parts, cfg>>
    /\ todo' = [todo EXCEPT ![c] = {}]
    /\ Reply(c, "500")
    /\ UNCHANGED <<tracked, keyFile, req, held, acked>>

\* The server goes down and comes back; the volumes are as it left them.
Crash ==
    /\ faults < MaxFaults
    /\ faults' = faults + 1
    /\ IF \E c \in Clients : At(c, "init") THEN HalfInit ELSE UNCHANGED <<parts, cfg>>
    /\ pc' = [c \in Clients |-> "idle"]
    /\ held' = [c \in Clients |-> None]
    /\ todo' = [c \in Clients |-> {}]
    /\ reply' = [c \in Clients |-> NoReply]
    /\ spoiled' = (spoiled \/ \E c \in Clients : pc[c] \in HalfDone)
    /\ UNCHANGED <<tracked, keyFile, req, acked>>

\* One step of the handler of c's request.
Handle(c) ==
    \/ StatKey(c) \/ CreateKey(c) \/ WriteKey(c) \/ DeriveKey(c)
    \/ CheckNew(c) \/ GitInit(c) \/ AddRemote(c) \/ AddFetch(c)
    \/ CompareUrl(c) \/ SetUrl(c)
    \/ SetSsh(c) \/ SetPath(c) \/ SetPub(c) \/ ConfigSetFails(c)
    \/ CheckRead(c) \/ ReadUrl(c) \/ ReadPub(c)
    \/ CheckDelete(c) \/ ListEntries(c)
    \/ RemoveHead(c) \/ RemoveRefs(c) \/ RemoveConfig(c) \/ Removed(c)
    \/ FetchStarts(c) \/ FetchFails(c) \/ FetchEnds(c)
    \/ GetTarball(c)
    \/ StepFails(c)

Next ==
    \/ \E c \in Clients : (\E r \in Requests : Request(c, r)) \/ Handle(c)
    \/ Crash

Spec == Init /\ [][Next]_vars

-----------------------------------------------------------------------------
Quiet == \A c \in Clients : At(c, "idle")

\* The settings of the repository are those of one request, with that key in
\* all three places.
Configured(url, key) ==
    /\ cfg.bare /\ cfg.url = url
    /\ cfg.ssh = key /\ cfg.path = key /\ cfg.pub = key

\* One PUT, POST or DELETE at a time, others reading and syncing meanwhile, and
\* none of the changes left halfway: whatever sequence of calls came before, the
\* settings are those of the last PUT or POST that reported having set them,
\* with a refspec to fetch by, and after a DELETE there are none.
LastAckWins ==
    Quiet /\ ~spoiled =>
        IF acked.url = None THEN "HEAD" \notin parts /\ cfg = NoConfig
        ELSE IsRepository /\ Configured(acked.url, acked.key) /\ cfg.fetch

\* One caller, no change left halfway: what GET reports, and Terraform's Read
\* takes for the state of the registration, is what was last acknowledged.
ReadIsLastAcked ==
    \A c \in Clients :
        At(c, "idle") /\ req[c].method = "GET" /\ ~spoiled =>
            /\ reply[c].code = "state"
                 => acked.url = reply[c].url /\ acked.key = reply[c].pub
            /\ reply[c].code = "404" => acked.url = None

\* One caller, no change left halfway: once a sync of a branch has been
\* acknowledged after the latest change of the registration, a download of it
\* is what the origin of that change has, never what an earlier one had.
DownloadServesOrigin ==
    \A c \in Clients :
        At(c, "idle") /\ reply[c].code = "tarball" /\ ~spoiled /\ req[c].ref \in acked.refs
            => reply[c].url = acked.url

\* One PUT, POST or DELETE at a time, others reading meanwhile, steps that fail
\* and crashes: the repository is never made to use a key whose file is not
\* complete.
KeyInUseIsComplete == cfg.ssh # None => keyFile[cfg.ssh] = "stored"

\* Callers at once: when all is quiet and no change was left halfway by an error
\* that was reported or a crash, a bare repository has its origin with its
\* refspec and all three SSH settings, however PUT, POST and DELETE interleaved.
RegisteredIsComplete ==
    Quiet /\ ~spoiled /\ isBareRepository
        => cfg.fetch /\ None \notin {cfg.url, cfg.ssh, cfg.path, cfg.pub}

\* Callers at once, no fault: when all is quiet, the key in use is complete,
\* though meanwhile a handler may be using a file that another one is just
\* writing, or is about to truncate and write again.
KeyAtRestIsComplete == Quiet /\ faults = 0 => KeyInUseIsComplete

-----------------------------------------------------------------------------
(* What one caller sees of the repository: the registration is whole, or   *)
(* there is nothing, or the rest, and meanwhile a handler is at work on it. *)

Whole == /\ IsRepository
         /\ None \notin {cfg.url, cfg.pub}
         /\ Configured(cfg.url, cfg.pub)

AtWork == \E c \in Clients : pc[c] \in HalfDone

Registered ==
    [is  |-> IF AtWork THEN "changing" ELSE IF Whole THEN "whole"
             ELSE IF NothingLeft THEN "nothing" ELSE "broken",
     url |-> IF ~AtWork /\ Whole THEN cfg.url ELSE None,
     key |-> IF ~AtWork /\ Whole THEN cfg.pub ELSE None]

Promise == INSTANCE Registration
             WITH reg <- Registered, busy <- {c \in Clients : ~At(c, "idle")}

\* One caller, steps that fail and crashes: whatever earlier calls that were
\* cut short left behind, a PUT, POST or DELETE that is acknowledged puts the
\* registration it asked for, or nothing, in its place as a whole; GET reports
\* what is registered, and PUT never touches a registration that is whole.
ImplementsRegistration == Promise!Spec

=============================================================================
