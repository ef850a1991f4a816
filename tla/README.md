# A TLA+ model of temporal-cicd

This directory is a verification project for temporal-cicd, a set of small Go
programs that build a repository when somebody pushes to it. It holds TLA+
modules translated from the code, TLC configurations that check them on small
instances, and proofs that TLAPS checks for all values of the constants.
`PROJECT.json` is the machine-readable index: components, runs, mutants, the
source lines each definition stands for, findings, hazards and theorems.

    tlc -workers 2 -config Pipeline.cfg MCBuildPipeline
    tlapm BuildPipeline_proofs.tla

## 1. The system

| component | state it keeps | operations |
|---|---|---|
| Kickoff (`cmd/kickoff`) | none; loaded tokens and shared secrets; override files it only reads | `KICKOFF /{repo}/{ref}` and `POST /hooks/{source}/{repo}`: start a workflow with ID `!build! repo ref` |
| Temporal server (external) | at most one open execution per workflow ID, its history | starts, retries, terminates |
| Builder (`cmd/builder`) | `/dev/shm/<uuid>` trees on the worker | workflows `GenericVaelCiCdStart` and `MakeBuildUpload` and their activities |
| Deployer (`cmd/deployer`) | none | workflow `Deployment` |
| Cache (`cmd/cache`) | a bare git repository per name; a directory of SSH key files | PUT, POST, GET, DELETE `/sync/{repo}`; POST `/sync/{repo}/{ref}`; GET `/download/{repo}/{ref}` |
| Artifacts (`cmd/artifacts`) | files | PUT and GET `/{path}` |
| Tokens and secrets (`internal/basicauth`, `internal/config/shared-secrets.go`) | two tables behind read-write locks | load at start, reload on SIGUSR1, look up per request |
| Configuration (`internal/config/defaults.go`) | the settings of a process, from files and environment | load at start |
| Terraform provider (`terraform-provider`) | none; Terraform keeps its state | Create, Read, Update, Delete, ImportState of `lrcicd_repo` |
| others | | web interface, router, version information, hooks, Nomad and Docker files, the unregistered workflows of `internal/temporal` |

How they interact. A hook of the git server (or a forge's webhook) calls
Kickoff, which starts a workflow. The hook merges `.vaelci.json` into its body
and so names `MakeBuildUpload`; a webhook names nothing and gets
`GenericVaelCiCdStart`, which asks the cache to fetch, reads `.vaelci.json` from
a tarball and runs the pattern named there as its child. `MakeBuildUpload` asks
the cache to fetch, downloads and unpacks a tarball, runs `make build` and
`make upload` in a session on one worker, launches `Deployment` as a child and
returns. Terraform, or an operator with `curl`, registers repositories with the
cache. All HTTP servers check a token against a table loaded from files.

What is hard about it:

- *Interleaving.* Kickoffs arrive while a run of the same ref is open; cache
  handlers run at once on one repository, with no lock, as sequences of git
  processes; files change and signals arrive during a reload.
- *Failure.* Activities are retried without limit; sessions time out; attempts
  given up by the server go on running; the cache can fail or go down between
  two of the writes of one registration (`git init`, `git remote add`, which
  rewrites the config file twice, and three times `git config`); nothing is undone.
- *Ordering.* Children and their parents close in either order, and the server
  terminates the children of closed parents a little later.
- *Stale state.* The cache may be behind the upstream, also because a slow fetch
  stores what it read after a faster one; the tree may be behind the cache, and
  Terraform's state behind the server.

What makes each part correct:

- Pipeline: builds of one ref are serial; a build is at least as new as the
  push it was started for, success means that it is published, and what is
  published never goes back, unless one of two named troubles hit the run; every
  run of a ref the cache has ends; no Deployment is lost track of.
- Cache: the settings in force are those last acknowledged, complete, and with
  a key that is complete on disk; what is reported is what is in force; what is
  downloaded is what was synced.
- Tokens: the files on disk at the last signal come into force; a revoked
  token is gone; no signal that the process listens for is lost.
- Webhooks: a push that was reported and answered has a run begun since, or its
  call was absorbed by a run open since before it; nothing is built that nobody
  asked for.
- Artifacts: a download is of one upload; the hash in the answer to an upload
  is that of what is stored, save for what a full disk cut short.
- Configuration: a server that runs has read all of its files, each setting is
  that of the last one to speak of it, and a repaired server comes up.
- Terraform: a successful apply is a complete registration; "no changes" means
  there is nothing to change; every apply ends.

## 2. Modules

| module | models |
|---|---|
| `RefBuild` | abstract: what somebody outside sees of one ref |
| `BuildPipeline` | Kickoff, both builder workflows, Deployment and the cache's fetch, for one (repository, ref) |
| `BuildPipeline_proofs` | seven theorems |
| `Webhooks` | Kickoff's handlers: reports of the forges, signatures, refs, override files, starts |
| `Webhooks_proofs` | three theorems |
| `CacheRegistry` | all handlers of the cache for one repository name, process by process |
| `CacheRegistry_proofs` | seven theorems |
| `Registration` | abstract: one registration, as its only caller sees it |
| `Registration_proofs` | `CacheRegistry` with one caller implements it |
| `Artifacts` | PUT and GET of one path of the artifact store, chunk by chunk |
| `Artifacts_proofs` | three theorems |
| `Config` | LoadConfig while an operator edits the files, and restarts |
| `Config_proofs` | four theorems |
| `Overlay` | laying one record of settings over another, used by `Webhooks` and `Config` |
| `AuthReload` | LoadAuth, SharedSecrets.Load and the signal loop |
| `AuthReload_proofs` | three theorems |
| `TerraformRepo` | the provider and Terraform's plan and state, composed with `CacheRegistry` |
| `TerraformRepo_proofs` | six theorems |
| `MC...` | constants for TLC |

### BuildPipeline

A workflow ID is a *slot*. Maker slot 0 is `!build! repo ref`; slot `m + 1` is
the ID of slot `m` followed by the pattern `GenericVaelCiCdStart` read there, which
may name `GenericVaelCiCdStart` again, since the builder registers it under that
name. IDs have a greatest length, so at most `MaxDepth` patterns fit; past it
the server refuses the child and the parent's task fails again and again. Each maker
slot has a deployer slot. `status`, `type` and `pc` describe the latest execution of
each. An action is one step of a workflow history (an activity that completes, a
child that starts or closes), one call of a hook, or one thing the server does
(`TerminateChild`, timeouts). Commits are numbered as they reach the ref, so
"newer" is `>`. A child of another pattern would have another ID; one slot stands
for them, as the pattern is read once per run.

A fetch has two steps. `UpdateCache` reads the upstream into `got`, and `SyncRef`
stores it, or fails, which `UpdateCache` of the code does not notice. In between anybody
else's fetch, a given-up attempt of this activity included, may read
(`OthersFetch`, into `fetching`) and store (`OthersStore`); whoever stores last
wins, also with the older commit. An upload may publish and be retried all the same,
and one whose heartbeat timeout has passed (no activity heartbeats, so this is any
upload longer than the timeout) runs on in `lateUploads` and may publish any
time later.

`want`, `accepted` and `trouble` are histories. `trouble` collects what has gone
wrong since the run was opened: a sync of its own failed (`syncFailed`), a store put
an older commit back (`cacheWentBack`), a late upload put an older build back
(`uploadWentBack`). The first two are `Misled`. The properties say that these, and
nothing else, make a run miss its purpose. An activity attempt that fails and changes
nothing is a stutter; one that leaves a running process is an action. `BuildActivity`
has no visible effect besides that it may come late or never. The directories that
attempts leave behind are not modelled; nothing reads them again.

Constants: `ConfigOf` says what each commit's `.vaelci.json` asks for (either
pattern, one that is not registered, or no readable file), `KickPatterns` what
kickoffs name. `SyncMayFail` lets the cache answer 500 to a sync.

`RefBuild` sees of the pipeline what `Start`, `Publish` and `Finish` do to the commit
published and whether a run is open, done, or has been disturbed since (`Disturb`,
mapped to `trouble # {}`). As long as nothing disturbs a run, what is published does not go back, and it
succeeds only with what it was started for, or something newer, published.

### CacheRegistry

Each client has one request at a time, and `pc[c]` is the next process or file
operation of its handler. The repository is `parts` (is there a HEAD, is there
`refs/`: git takes the directory for a repository only with both), the config
file `cfg` (bare, the origin's URL and fetch refspec, and the three settings of
`configureRepoSSH`) and the remote-tracking refs. `git remote add` rewrites the
config once for the URL (`AddRemote`) and once for the refspec (`AddFetch`); a fetch
without a refspec moves no tracking ref, and is answered 200 like any other
(`FetchStarts` then holds nothing to store). A key file is absent, partial (created or
cut short) or stored; `ssh-keygen -y` refuses a partial one.

`RemoveAll` lists the entries once (`ListEntries`, into `todo`), unlinks each in any
order, and then removes the directory (`Removed`): 204 if it is gone, 500 if
others have put something there since, be it something the model shows or an object or
lock file it does not, so with more than one client 500 is always possible. A git
process that has read the config file before it was unlinked puts it back
(`RemoveConfig`), and a fetch that ends late makes `refs/` again.

A fault is a step that answers 500, or `Crash`, which ends all handlers and keeps
the disk. Two processes that rewrite one config file get in each other's way by
`config.lock` (`Locked`): that makes a step fail without any fault, so it
happens with `MaxFaults = 0` too. `git init` that is cut short leaves any part of what it
makes (`HalfInit`). `spoiled` is a history: a handler of PUT, POST or DELETE has
reported 500, or was ended by a crash, in the middle of its writes (`HalfDone`).
`acked` has what the latest acknowledged change set, and the branches whose sync was
acknowledged since.

`Registration` promises to one caller what the code's documentation and the
provider take for granted: the name has one registration, and an acknowledged
PUT, POST or DELETE changes it as a whole. It has no directory, no git and no key
file: `reg` is nothing, whole (an origin and a key), broken (some rest that faults
left), or changing while a call is at work on it. An interrupted change may leave
anything settled, also a whole registration that mixes two requests; but it is
then `reg`, so a GET that reports something else, an acknowledged call that takes over a
part of what was left, or a PUT that touches a whole registration, is a violation.
`Registered` maps the disk to it: `AtWork` from the first step that writes to the
last, `Whole` if all five settings agree. The promise is for one caller: with two,
acknowledged settings can be mixed, and what holds then is in
`registry_concurrent`.

### AuthReload

`LoadAuth` holds the write lock for the whole load, so requests see `tokenMap`
only when `pc` is not `auth`; the files, and then those of the shared secrets, are
read one after the other while an operator may change them. A file that cannot
be read is skipped (`LoadFileFails`, `LoadSecretFileFails`), and a directory that cannot
be listed leaves its table empty (`ReadDirFails`, `SecretDirFails`); `readFailed`
remembers either. The channel has
room for one signal, and a second is dropped. Before `signal.Notify` (`notified`)
the Go runtime catches a SIGUSR1 and does nothing (`SignalIgnored`): a change
signalled after its file was read and before that call waits for the next signal.
`Restart` is an operator or supervisor starting the process again. `signalled`
is a history: since the last change of a file the process was started, or a signal
reached it while it listened. `Authorize` looks a request up under the read lock;
which rule's regular expressions match which request is the relation `Allows`.
The choice among the shared secrets is `Get` in `Webhooks`. The cache and the artifacts
server have the same loop without the secrets.

### Webhooks

One repository, reported under the name `Repo`, has a mirror at each of some
forges. A `Push` creates, moves or deletes refs there and gives a report;
reports stay in `sent`, from which any handler may take any of them any number of
times, so they are delayed, repeated, reordered and lost. A report is its event,
its list of changes and the secret it was signed with. `Signed` stands for
comparing the signature, which is right exactly if the secret is (`Get`, the first
matching entry). `RefOf` is the ref extraction of the four handlers: all take the
first change and strip `refs/heads/` or `refs/tags/`.

A KICKOFF call begins at the same override files. `ReadRepoFile` and
`ReadRefFile` are the two rounds of the loop of `triggerWorkflow`; the names of
both files come from the request before any override, and operators may edit the
files in between. `RepoFile` and `RefFile` say which file has which name: that of
repository `a.b` may be that of repository `a` and ref `b`.

`Start` is ExecuteWorkflow. `open` has, per workflow ID, after how many pushes the
run that is open began; it ends at any time (`RunEnds`; how is in `BuildPipeline`).
If none is open one starts (`Started`, recorded in `started` with its pattern and the
number of pushes before it), else the call returns the open run and nothing
happens (`Absorbed`, recorded in `absorbed` with when that run began); the answer is
202 either way. `StartFails` is every 400 and 502.

As the code has it, GitLab's deletions start a build (its payload's flag is not
looked at), GitLab's tag events are ignored, only the first change of a Bitbucket
push counts, and a branch and a tag of one name share a workflow.

### Artifacts

The file is a sequence of chunks `<<body, i>>`. Each PUT writes at its own
offset, so a writer whose file was truncated by another leaves a `Hole`. A hash
is the sequence it was computed of. `io.MultiWriter` writes a chunk to the file and
then to the hash; when the disk is full, part of it is written and the hash sees none
of it: `ShortWrite` leaves a `Fragment`. `PutEnds` may come at any chunk and after a
short write: the body has ended or broken off or could not be written, the handler
does not tell, and answers 200. A GET takes the size, then reads until it has sent as
much or meets the end. `mixed`, `calm` and `acked` are histories.

### Config

A configuration gives each setting a value or `None` (empty). `place` says
whether `TCD_CONFIG_FILE` is nothing, a file or a directory; the files of the
directory are numbered in the order of their names. `Stat` passes over what is not
there or cannot be looked at, and the defaults serve (`skipped` remembers the second).
`ReadDir` lists, `LoadFile` reads the next one into `merged`, `EndDir` lays the result
over the defaults, `ProcessEnv` the environment over that. A file that is bad, or gone
since `Stat` or the listing, and a directory that cannot be listed, end the process
(`Die`), and the supervisor starts it again. Each header
of `cache.headers` is a setting, since files merge header by header;
`TCD_CACHE_HEADERS` sets the whole map. `shared_secrets.dir` is a setting that
`mergeConfig` leaves out (`Unmerged`).

### TerraformRepo

`CacheRegistry` is instantiated with the provider as its only client. A
provider function is modelled by its steps between calls: `PlanCreate` sends the
PUT, `Create` looks at the answer and sends the GET, `CreateEnds` sets the state.
Terraform's refresh, plan and handling of unknown values and tainted resources
are external. `Forget` is `terraform state rm`. Every behaviour of the composed
system is one of the cache's own with a single client; theorem
`ImplementsServer` says so, and brings the cache's invariants with it.

## 3. Runs

Runs that pass:

| run | bounds | what it shows |
|---|---|---|
| `pipeline` | 2 pushes, kickoffs of both patterns, every commit asks for `MakeBuildUpload`, failing syncs, slow fetches, late uploads | under fairness, `RunCloses` once the cache has the ref, and `StartedBuildSettles` save for runs in trouble |
| `pipeline_faults` | 2 pushes, 2 levels of children, the first commit names `GenericVaelCiCdStart`, kickoffs also name an unregistered pattern, the same failures | `TypeOK`, `SingleFlight`, `NoLostDeployment`, `FreshBuild`, `CompletedIsPublished`, `PublishedMonotonic`, refinement of `RefBuild` |
| `registry_one_caller` | 1 client, 2 URLs, 2 keys, 1 branch, 2 faults, all six calls | `TypeOK`, `KeyInUseIsComplete`, refinement of `Registration`; as long as no change was left halfway `LastAckWins`, `ReadIsLastAcked` and `DownloadServesOrigin` |
| `registry_concurrent` | 2 clients, 2 URLs, 1 key, PUT, POST and DELETE, which make each other fail; no fault besides | `RegisteredIsComplete` as long as no change was left halfway, `KeyAtRestIsComplete` |
| `auth_reload` | 2 key files, 2 secret files, 1 token, 2 rules (one allows less), 2 requests, 1 secret, 4 operator actions | `TypeOK`, `NoLostSignal`, `RevokedIsGone`, `SignalledSettles` |
| `webhooks` | 2 forges (GitLab, Bitbucket), 2 repositories, 1 name as branch and tag, 2 pushes or deletions, 1 kind of KICKOFF call, 3 override files, two of them with several names, 1 edit, 1 handler, runs that end at any time | `TypeOK`, `NoPushLeftBehind`, `StartedWasAsked` |
| `artifacts` | 2 uploads of 2 chunks or 1, 1 download, breaks, short writes and crashes at any moment | `TypeOK`, `HashNamesFile`, `CalmGetIsOneBody`, and, under fairness, `GetSettles` |
| `config` | 2 files, 5 settings (2 of them headers), 4 contents, 4 environments, 2 edits | `TypeOK`, `LastSettingWins`, `NothingLeftOut`, and, under fairness, `RepairHeals` |
| `terraform_apply` | 2 URLs, 2 keys, 1 fault, edits and applies without bound | `TypeOK`, `AppliedIsRegistered`, `AppliedIsInForce`, `NoChangeMeansOrigin`, `ApplyEnds` |

Why the bounds are enough. With two pushes a run can hold the
old commit while the newer kickoff is absorbed, a slow fetch can store the old commit
after the new one, and a late upload of the first run can publish after the second:
whatever goes back needs an older and a newer commit. Two levels of children are the
least in which a child is a parent. The properties of the registry
compare two requests with different settings, so two URLs and two keys; faults
matter in pairs (one leaves something, one stops the repair). Two files are the
least for which the order of overriding matters, and four operator actions allow
a change, a signal, a change during the reload and a signal, or a restart and a
signal that comes too early. GitLab and
Bitbucket are the two forges whose rules differ; GitHub's and Codeberg's reports
are like Bitbucket's with one change. A push and its deletion, or two pushes
reported in reverse, are the shortest histories in which a report can be wrong
about its ref; handlers share nothing but the runs that are open, so one of them
already takes reports in every order. Two chunks are the least that a second
upload can leave a hole in, and two files the least that can disagree. The numbers of
requests and of applies are not bounded; a run of the pipeline needs a kickoff,
so there are at most as many as pushes. Where theorems exist the bounds do not
matter.

Runs that TLC finds violated, each for a statement of the repository:

| run | statement | what the code does |
|---|---|---|
| `kickoff_absorbed` | README.md:46, a KICKOFF during a run makes it start again | the call returns the open run with 202 and nothing else happens: a commit pushed after that run's sync stays unbuilt until the next push |
| `deployment_abandoned` | make-build-upload.go:97, the deployer is abandoned once launched | no ParentClosePolicy is set and the default is to terminate, so a Deployment not yet finished when its parent returns is terminated |
| `half_registration_adopted` | resource_repo.go:60, the public key is derived from the configured private key | after a PUT that failed halfway, the next is answered 200 "already registered", and the apply succeeds with no key configured |

Differences met while modelling that have no run:

- README.md:15 says POST `/sync` makes sure the ref is up to date, but
  `UpdateCache` (make-build-upload.go:123) ignores the status code, so after a
  failed fetch the old commit is built as if it were the new one. And "up to date" is
  only what some fetch has read: a slow one that stores its older commit after this
  run's sync puts the cache back. `Misled` names both; they are the only exceptions
  of `FreshBuild`.
- README.md:42 says the working directory is fully removed; nothing removes it, and
  every attempt leaves one in memory (the directories are not in the model).
- README.md:11 says the cache keeps tags and branches; a fetched tag is only in
  FETCH_HEAD, while downloads archive `origin/<ref>`, so the answer for a tag is
  200 and empty (`FetchEnds`, `GetTarball`).
- README.md:7 says `keys.d` is rescanned; that is on SIGUSR1 only, not per
  request, and a SIGUSR1 that comes before `signal.Notify` does nothing
  (`SignalIgnored`). README.md:34 and 38 say artifacts are addressed by their hash and
  immutable by `reftype`; they are files a PUT overwrites. On a full disk the answer
  is 200 with a hash that does not name the file (`CutAfter`).
- generic-vaelci-start.go:106 says the workflow exits once its child has
  started; it waits for the child's result, and `SingleFlight` depends on that.
- examples/webhooks/github.md:25 names `shared_secrets.dir`, which is neither
  merged from files nor used: Kickoff reads `dir.shared-secrets` (main.go:379).
- A later file's `debug: false` cannot take back an earlier file's `debug: true`,
  as the level "none" is the empty string; the environment can.

## 4. Fairness

`BuildPipeline`: weak fairness of each workflow step that the server retries
for ever (`UpdateCache`, `SyncRef`, reading the configuration, starting and awaiting
children, creating a session, launching the deployer), of the session's timeout
(`SessionFails`), and of the parent close policy (`TerminateChild`).
Workers poll for ever and activities have no retry limit, so a step that stays
possible is taken. No fairness for download, build or upload: `make build` may
never succeed. `RunCloses` asks that the cache has something of the ref: if no sync
ever succeeds, or the upstream has no such ref, `DetermineSpecificBuildFlow` is retried
for ever in the code too. The same goes for a commit without a readable
configuration, for an unregistered pattern and for patterns nested until their ID is
too long; hence `ConfigOf` is `AllMake` in this run.

`AuthReload`: weak fairness of the process (load and loop), which waits for nothing
but signals. None for the operator, restarts included. `Artifacts`: weak fairness of each download that has
begun (the server copies as long as its client reads; a client that stops ends
the request); none for uploads. `Config`: weak fairness of `LoadConfig`, which
waits for nothing, and of the supervisor. `Webhooks` has no liveness property:
a report may be lost, and nothing in the code repeats it. `TerraformRepo`: weak fairness of Terraform's
next step and of the handler of its call; none for the operator. `CacheRegistry`
has no liveness properties.

## 5. Proofs

`BuildPipeline_proofs`, for any number of pushes, any configurations (nested and
unregistered patterns included), any depth and any kickoff patterns, with failing
syncs, slow fetches and late uploads, from `PipelineAssumption`, which only gives the
constants their types: `TypeCorrect`, `SingleFlightCorrect`,
`NoLostDeploymentCorrect`, `FreshBuildCorrect`, `PublishedMonotonicCorrect`,
`CompletedIsPublishedCorrect` and `PipelineImplementsRefBuild`, none with a condition.

`FreshBuild` and `CompletedIsPublished` are not inductive. The argument goes
through four invariants:

- `SlotInv`: who is open and who is an orphan. A child is open only while all runs
  above it wait, so no two builds overlap; only Deployments become orphans.
- `OrderInv`: whatever is read, cached, built or published is at most `head`, and
  what is built is something.
- `FreshInv`: while the run is not `Misled`, what it goes on with `Covers`: it is at
  least `want`, what is published, and what late uploads may yet publish. That
  starts with what the fetch has read (it was the head), goes on in the cache (which
  nothing has put back) and then in the tree. It needs `SingleFlight`: another build
  could publish between this one's download and upload. From it follow `FreshBuild`
  and that no upload of the run itself puts `published` back.
- `CompletedInv`: while the run is in no trouble, past its upload
  `published >= want`, through the child's outcome to the parent's.

The refinement maps `busy` to "the top run is open", `done` to "it is completed" and
`disturbed` to `trouble # {}`. Uploads are `Publish`, also late ones; closes of the top
run `Finish`, kickoffs that open a run `Start`, steps that add to `trouble` alone
`Disturb`, all else stutters.

`AuthReload_proofs`, for any number of files of either kind, tokens and rules, from
`AuthAssumption`: `TypeCorrect`, `NoLostSignalCorrect` and
`RevokedIsGoneCorrect`. `NoLostSignal` speaks of the moment of rest, when no
signal waits, no read has failed, and since the last change the process was started or
a signal reached it while it listened (`signalled`); `LoadInv`
says what a load that nothing has disturbed has built up at each file, with
`IsRule(n, t, r)` for "the first n files give t the rule r", and lemma
`NextFileExtendsRules` is its step. `ListedInv` says that the rules in the map and
those the files have now are on record, from which `RevokedIsGone` follows.

`CacheRegistry_proofs`, from `CacheAssumption` (the callers and requests are
otherwise arbitrary):

| theorem | callers | the property speaks of |
|---|---|---|
| `TypeCorrect` | any | all states |
| `RegisteredIsCompleteCorrect` | any | states at rest, until a change was left halfway (`~spoiled`) |
| `KeyAtRestIsCompleteCorrect` | any | states at rest, before any fault |
| `KeyInUseIsCompleteCorrect` | one writer, any readers | all states, with any faults |
| `LastAckWinsCorrect` | one writer, any readers | states at rest, under `~spoiled` |
| `ReadIsLastAckedCorrect`, `DownloadServesOriginCorrect` | one | answers, under `~spoiled` |
| `ImplementsRegistrationCorrect` (in `Registration_proofs`) | one | all behaviours, with any faults |

`spoiled` is not "a fault happened": a fault in a handler that had not written yet, or
that only reads, leaves it FALSE, and with several callers it becomes TRUE without any
fault, when two of them meet at `config.lock` or at a directory that is no longer
empty. Nor may it become TRUE behind the callers' backs: either one of them has been
told 500, or the server has crashed. With one caller, `CleanHolds` says that without a
fault nothing is spoiled.

"One writer" is `[]OneWriter`: never two handlers of PUT, POST or DELETE at the
same time, from whichever callers, while any others read, sync and download. That
is how the system is used when Terraform or one operator registers repositories
and builders fetch them; `Bystander` says that the others' steps change neither
registration nor keys, save that a fetch that ends late makes `refs/` again. A GET in two
steps, or a fetch, may span a whole DELETE and PUT, so what they report needs one caller.

- `RegInv`, under `~spoiled`: whatever setting a repository lacks is about to be
  written by some handler, or somebody is removing the rest. It has one line per
  setting, in the order in which they are written: with an SSH key and no path, someone
  is at `setPath` or `remove`; with a URL and no refspec, at `addFetch`. At rest nobody
  is, so nothing is missing. No line names a request, which is why the settings of two
  callers may mix.
- `KeyInv`: past `ssh-keygen`, the file of the request's key is complete; while
  it is being written, it is in use nowhere, since it was not there before.
- `FileInv`: with several callers `KeyInv` fails, for a handler that found no file
  may truncate it when another has already put it in use. What is left: every
  file in use, or about to be, is there, and a file cut short has a handler that
  is about to write it; at rest nobody is, so the file in use is complete.
- `WriterInv`, under `~spoiled`: with one writer, `Agreed` (settings are those
  acknowledged, with a refspec, and none if none were) holds at every step but those
  between the first write and the answer, where the settings written so far are those of
  the request.
- `ReaderInv` and `DownloadInv`, on top of it, with one caller: what a GET has read so
  far is what was acknowledged; the origin a fetch talks to is the one acknowledged, and
  so is the one the branches synced since come from.
- `DiskInv`, for the refinement: `acked` says nothing of a disk that faults have
  been at, so this one starts from less: an origin is set in bare repositories
  only, and past each of its steps a handler finds there what that step wrote. At the
  last one all five settings are those of the request, whatever was there.

The refinement goes step by step: a step before the first write, or between two, is a
stutter (`Unseen`), the first write is `Begin`, an answer is `Acknowledge`, `Tell` or
`Refuse`, and a handler that fails leaves a state that `SeenSettled` shows to be
one of the abstract ones. `PromiseNext` combines one lemma per group of steps.

`TerraformRepo_proofs`, from `TerraformAssumption`: `ImplementsServer` (every
step is a step of the cache with the provider as its client, or leaves it alone)
brings in the cache's theorems through an instance of `CacheRegistry_proofs`.
`CallInv` says at each step of an apply which call is out and how it may have been
answered; `OriginInv` that what was read of the origin still holds when
Terraform plans, for nobody else calls, from which `NoChangeMeansOriginCorrect`
follows even with faults; `KeepInv`, before any fault and adoption, relates
Terraform's state to what the server acknowledged last, and with the cache's
`LastAckWins` and `CleanInv` (with one caller and no fault nothing is spoiled) gives
`AppliedIsRegisteredCorrect`. `RefsInv` (refs outlive HEAD only during a DELETE) shows
that after a destroy nothing is left. After a fault `KeepInv` is lost, and
`ForceInv` takes its place with less: what the answer to the latest call says of
the disk (`ServerForce`, from the cache's `DiskInv`) stays so until Terraform ends
the apply, hence `AppliedIsInForceCorrect`. `ProviderSeesRegistration` carries
`ImplementsRegistration` over to the composed system.

`Webhooks_proofs`, from `WebhookAssumption` and `OverridesAssumption`:
`HandlerInv` says that a handler's request is what the override files it has read,
with contents they have had, made of the request as it came, and `Asked` where that
came from; `AskInv` adds that this holds of every start: `StartedWasAskedCorrect`.
`PushInv` says that a report is of a push no later than now, that a ref set by it was not
a deletion, and that the run that is open for an ID was recorded when it began; a
start covers every push before it, and an absorbed call either met a run begun since
its push, or is on record as absorbed by an older one, so `NoPushLeftBehindCorrect`.

`Artifacts_proofs`, from `ArtifactsAssumption`: `OpenInv` (who works on the file
has one), `AloneInv` (uploads that do not overlap are one at a time, and the last
answer is forgotten when the next begins), `CutInv` (after a short write the file is
what was copied whole and a fragment) and `SeekInv`.

`Config_proofs`, from `ConfigAssumption`: `OverIsAssociative`, that merging the
files among themselves first makes no difference; `GatherInv`, what each step
has gathered of each setting, for `LastSettingWinsCorrect`; `ReadInv`, that what
was listed has been read, unless `Stat` passed over it, for `NothingLeftOutCorrect`.

Every invariant, action property and refinement of the runs that pass is proved.
Model-checked only: the liveness properties (`RunCloses`, `StartedBuildSettles`,
`SignalledSettles`, `GetSettles`, `RepairHeals`, `ApplyEnds`), which TLAPS does
not prove, and the runs that TLC finds violated.

## 6. Limits

- `FreshBuild`, `CompletedIsPublished`, `PublishedMonotonic` and
  `StartedBuildSettles` allow for `trouble`. The code has no defence against any of it: a
  failed sync goes unnoticed, a slow fetch puts an older commit back, and a
  forgotten `make upload` publishes after a newer run has finished (whether that does
  harm is up to the Makefile). The properties say that nothing else does.
- `RunCloses` is stated for configurations that ask for `MakeBuildUpload`. Nested
  generic runs, a pattern nobody registered and a commit without configuration stay
  open in the code until somebody terminates them, and absorb every kickoff meanwhile.
- A change of a registration that is left halfway, by an error that is reported or a
  crash, is undone by nobody, and what holds after it is less. A PUT cut between URL and
  refspec leaves a repository for which later PUTs are answered "already
  registered", POSTs "adjusted" and syncs 200, while downloads stay empty or old. An
  interrupted DELETE leaves a config file that the next DELETE does not remove (it
  answers 204), and a later PUT fails on it; a key file cut short is never
  written again; an update that failed halfway and is taken back leaves the new key in
  use while Terraform sees "no changes". `LastAckWins`, `ReadIsLastAcked` and
  `DownloadServesOrigin` are therefore stated under `~spoiled`, and
  `AppliedIsRegistered` before any fault; `ImplementsRegistration`, `KeyInUseIsComplete`
  and `AppliedIsInForce` say what is left. None of these three speaks of the refspec, for nothing in the code looks at it.
- With two callers there need be no fault: they fail on each other's `config.lock`, and
  a DELETE among others' processes fails on the directory and leaves a part of the
  repository; both are reported as 500. Interleaved POSTs may mix one's SSH key with
  the other's public key. A fetch that began before a DELETE and PUT stores the old
  upstream's commits in the new repository, and one that ends after a DELETE makes `refs/`
  again. `RegisteredIsComplete` and `KeyAtRestIsComplete` say what is left, and
  `DownloadServesOrigin` is stated for one caller.
- `NoPushLeftBehind` allows for a call absorbed by a run that began before its push: that
  run may have synced already (`kickoff_absorbed`), and nobody starts another.
- A signal sent before the process listens is lost, and a change it was for waits for the
  next one; `NoLostSignal` and `SignalledSettles` speak of signals sent after.
- Two overlapping uploads of one path make a mixture, holes included, and both
  are answered 200; `HashNamesFile` and `CalmGetIsOneBody` are stated for uploads
  that do not overlap. A download the file is truncated under is cut short.
- Left out: the contents of requests beyond what is named above (malformed
  bodies are refused before anything happens); `compat-patch`, which the code
  never uses; the provider's `dry_run`; Range requests; a header set to the empty
  string in a file; zombie `make build` processes, which have no effect of their
  own; other repositories and refs, which share only key files
  (content-addressed) and workers.

## 7. Not modelled

- The router composes handlers before a server starts and has no state after.
- `infoall` answers one GET with versions, routes and listings; nothing reads it.
- `slop-ui` renders pages and forwards form posts to the other servers, whose
  handlers are modelled; it keeps nothing.
- `internal/temporal/workflow` and `internal/temporal/activity`: no binary
  registers them, and the lifecycle workflow hands its child an empty
  `BuildDetails`, so none of their behaviours is one of the program.
- The git hooks and Terraform modules under `examples` are installed by users;
  what they send is in `BuildPipeline` and `TerraformRepo`. The Nomad and Docker
  files describe deployments.

## 8. What could come next

1. `Webhooks` composed with `BuildPipeline` step by step; now each has the other's side
   in one action (`RunEnds`, `KickoffStarts`).
2. `dry_run` in `TerraformRepo`, Range requests in `Artifacts`.
