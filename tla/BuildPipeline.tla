---------------------------- MODULE BuildPipeline ----------------------------
(***************************************************************************)
(* The life of one (repository, ref) between a push and a published build: *)
(* cmd/kickoff turns hook calls into Temporal workflows, cmd/builder runs  *)
(* GenericVaelCiCdStart and its child MakeBuildUpload, cmd/cache fetches   *)
(* and serves the ref, cmd/deployer runs the Deployment child.             *)
(*                                                                         *)
(* A workflow ID names a slot.  Maker slot 0 is "!build! repo ref", the ID *)
(* kickoffs use; slot m + 1 is the ID of slot m and the build pattern that *)
(* GenericVaelCiCdStart found there, which may be GenericVaelCiCdStart     *)
(* again; each maker slot has a deployer slot, "<id>-deployer".  Temporal  *)
(* keeps at most one open execution per ID; the variables describe the     *)
(* latest one of each slot.                                                *)
(*                                                                         *)
(* Activities run under the SDK's default retry policy, which retries      *)
(* without limit: an attempt that fails and changes nothing is a stutter.  *)
(* Commits are numbered in the order they reach the ref; 0 is "nothing".   *)
(***************************************************************************)
EXTENDS Integers

CONSTANTS
    MaxPush,          \* bound on the number of pushes
    MaxDepth,         \* how often a pattern fits into a workflow ID
    ConfigOf,         \* what each commit's .vaelci.json asks for
    KickPatterns,     \* build patterns a kickoff (or an override) may name
    SyncMayFail       \* may POST /sync fail on the cache (git fetch error)?

Commits == 1 .. MaxPush

Generic == "GenericVaelCiCdStart"
Make    == "MakeBuildUpload"
\* A workflow type no worker of the task queue registers, the empty one
\* included: its workflow tasks fail for ever and the run stays open.
Unknown == "unregistered"

Patterns == {Generic, Make, Unknown}

ASSUME PipelineAssumption ==
    /\ MaxPush \in Nat
    /\ MaxDepth \in Nat
    /\ ConfigOf \in [Commits -> Patterns \cup {"none"}]
    /\ KickPatterns \subseteq Patterns
    /\ SyncMayFail \in BOOLEAN

Top       == 0
Makers    == 0 .. MaxDepth
Deployers == MaxDepth + 1 .. 2 * MaxDepth + 1
Slots     == Makers \cup Deployers

DeployerOf(m) == MaxDepth + 1 + m

Children(i) == IF i \in Makers THEN {i + 1, DeployerOf(i)} \cap Slots ELSE {}

VARIABLES
    head,         \* newest commit on the upstream ref
    inFlight,     \* commits whose KICKOFF call has not been handled yet
    accepted,     \* history: commits whose KICKOFF was answered 202
    cached,       \* refs/remotes/origin/<ref> in the cache
    fetching,     \* what fetches for other callers have read, not yet stored
    published,    \* the commit that "make upload" published last
    lateUploads,  \* trees in which an abandoned "make upload" still runs
    status,       \* per slot: state of its latest execution
    type,         \* per maker slot: workflow type of its latest execution
    pc,           \* per maker slot: where that execution is
    pattern,      \* per maker slot: its vaelciConfig.BuildPattern
    got,          \* per maker slot: what the fetch of its sync has read
    tree,         \* per maker slot: cloneOutput, as the commit it holds
    want,         \* history: the commit whose KICKOFF opened the top run
    trouble,      \* history: what has gone wrong since that run was opened
    orphans       \* open executions whose parent has closed

ref  == <<head, inFlight, accepted>>
disk == <<cached, fetching, published, lateUploads>>
runs == <<status, type, pc, pattern, got, tree, want, orphans>>
vars == <<head, inFlight, accepted, cached, fetching, published, lateUploads,
          status, type, pc, pattern, got, tree, want, trouble, orphans>>

Steps == {"updateCache", "syncStore", "determine", "startChild", "awaitChild",
          "createSession", "download", "build", "upload",
          "startDeployer", "launched", "stuck"}

\* Mutant: the session's timeout does not cover the build.
SessionWithoutBuild == {"download", "upload"}

\* The steps the session's ExecutionTimeout and HeartbeatTimeout cover.
InSession == {"download", "build", "upload"}

TypeOK ==
    /\ head \in 0 .. MaxPush /\ want \in 0 .. MaxPush
    /\ inFlight \subseteq Commits /\ accepted \subseteq Commits
    /\ cached \in 0 .. MaxPush /\ fetching \subseteq Commits
    /\ published \in 0 .. MaxPush /\ lateUploads \subseteq 0 .. MaxPush
    /\ status \in [Slots -> {"none", "open", "completed", "failed", "terminated"}]
    /\ type \in [Makers -> Patterns]
    /\ pc \in [Makers -> Steps]
    /\ pattern \in [Makers -> Patterns]
    /\ got \in [Makers -> 0 .. MaxPush] /\ tree \in [Makers -> 0 .. MaxPush]
    /\ trouble \subseteq {"syncFailed", "cacheWentBack", "uploadWentBack"}
    /\ orphans \subseteq Slots

Init ==
    /\ head = 0 /\ want = 0
    /\ inFlight = {} /\ accepted = {}
    /\ cached = 0 /\ fetching = {}
    /\ published = 0 /\ lateUploads = {}
    /\ status = [i \in Slots |-> "none"]
    /\ type = [m \in Makers |-> Make]
    /\ pc = [m \in Makers |-> "updateCache"]
    /\ pattern = [m \in Makers |-> Make]
    /\ got = [m \in Makers |-> 0] /\ tree = [m \in Makers |-> 0]
    /\ trouble = {}
    /\ orphans = {}

-----------------------------------------------------------------------------
(* Pushes, and the KICKOFF calls the hooks make for them.                  *)

\* The post-receive hook of the upstream server posts one kickoff per push.
Push ==
    /\ head < MaxPush
    /\ head' = head + 1
    /\ inFlight' = inFlight \cup {head + 1}
    /\ UNCHANGED <<accepted, disk, runs, trouble>>

\* A new execution of workflow type p in a maker slot.
FirstStep(p) == IF p = Unknown THEN "stuck" ELSE "updateCache"

\* Mutant: a kickoff replaces the execution that is open.
KickoffReplaces(c) ==
    /\ c \in inFlight
    /\ \E p \in KickPatterns :
         /\ type' = [type EXCEPT ![Top] = p]
         /\ pc' = [pc EXCEPT ![Top] = FirstStep(p)]
    /\ status' = [status EXCEPT ![Top] = "open"]
    /\ want' = c /\ trouble' = {}
    /\ inFlight' = inFlight \ {c}
    /\ accepted' = accepted \cup {c}
    /\ UNCHANGED <<head, disk, pattern, got, tree, orphans>>

\* 202: ExecuteWorkflow started a run; a closed one's ID may be reused.
KickoffStarts(c) ==
    /\ c \in inFlight
    /\ status[Top] # "open"
    /\ \E p \in KickPatterns :
         /\ type' = [type EXCEPT ![Top] = p]
         /\ pc' = [pc EXCEPT ![Top] = FirstStep(p)]
    /\ status' = [status EXCEPT ![Top] = "open"]
    /\ want' = c /\ trouble' = {}
    /\ inFlight' = inFlight \ {c}
    /\ accepted' = accepted \cup {c}
    /\ UNCHANGED <<head, disk, pattern, got, tree, orphans>>

\* 202 as well: the ID is open, and the SDK returns the run that has it
\* without an error and without telling that run anything.
KickoffAbsorbed(c) ==
    /\ c \in inFlight
    /\ status[Top] = "open"
    /\ inFlight' = inFlight \ {c}
    /\ accepted' = accepted \cup {c}
    /\ UNCHANGED <<head, disk, runs, trouble>>

\* 400, 401 or 502, or the call never arrives: nobody repeats it.
KickoffLost(c) ==
    /\ c \in inFlight
    /\ inFlight' = inFlight \ {c}
    /\ UNCHANGED <<head, accepted, disk, runs, trouble>>

-----------------------------------------------------------------------------
(* Steps of the workflows.                                                 *)

RunsAt(m, p, step) ==
    /\ status[m] = "open"
    /\ type[m] = p
    /\ pc[m] = step

Goto(m, step) == pc' = [pc EXCEPT ![m] = step]

\* An execution closes.  ParentClosePolicy is left to its default, so its
\* open children are to be terminated; the server does that a little later.
Close(i, how) ==
    /\ status' = [status EXCEPT ![i] = how]
    /\ orphans' = (orphans \ {i}) \cup {j \in Children(i) : status[j] = "open"}

\* git fetch puts what it has read into the remote-tracking branch, whatever
\* has been put there since it read.
Store(c) ==
    /\ cached' = c
    /\ trouble' = trouble \cup {t \in {"cacheWentBack"} : c < cached /\ status[Top] = "open"}

\* Mutant: a fetch of a ref that upstream does not have succeeds.
FetchNothing ==
    /\ fetching' = fetching \cup {head}
    /\ UNCHANGED <<ref, cached, published, lateUploads, runs, trouble>>

\* POST /sync for anybody else who may call it, at any time: other users, and
\* an attempt of UpdateCache that was given up, whose fetch runs on.
OthersFetch ==
    /\ head \in Commits
    /\ fetching' = fetching \cup {head}
    /\ UNCHANGED <<ref, cached, published, lateUploads, runs, trouble>>

\* That fetch stores what it has read, or fails.
OthersStore(c) ==
    /\ c \in fetching /\ fetching' = fetching \ {c}
    /\ Store(c) \/ UNCHANGED <<cached, trouble>>
    /\ UNCHANGED <<ref, published, lateUploads, runs>>

\* UpdateCache calls POST /sync, and "git fetch origin <ref>" asks upstream.
UpdateCache(m) ==
    /\ status[m] = "open" /\ pc[m] = "updateCache"
    /\ got' = [got EXCEPT ![m] = head]
    /\ Goto(m, "syncStore")
    /\ UNCHANGED <<ref, disk, status, type, pattern, tree, want, trouble, orphans>>

\* Mutant: a ref that is already in the cache is not fetched again.
SyncOnce(m) ==
    /\ status[m] = "open" /\ pc[m] = "syncStore"
    /\ cached' = IF cached = 0 THEN got[m] ELSE cached
    /\ Goto(m, IF type[m] = Generic THEN "determine" ELSE "createSession")
    /\ UNCHANGED <<ref, fetching, published, lateUploads, status, type, pattern, got, tree,
                   want, trouble, orphans>>

\* The fetch stores what it has read, or fails.  UpdateCache never looks at
\* the status code: a 500 counts as done.
SyncRef(m) ==
    /\ status[m] = "open" /\ pc[m] = "syncStore"
    /\ \/ Store(got[m])
       \/ SyncMayFail /\ cached' = cached /\ trouble' = trouble \cup {"syncFailed"}
    /\ Goto(m, IF type[m] = Generic THEN "determine" ELSE "createSession")
    /\ UNCHANGED <<ref, fetching, published, lateUploads, status, type, pattern, got, tree,
                   want, orphans>>

\* Mutant: a tarball without .vaelci.json yields an empty configuration.
DetermineWithoutConfig(m) ==
    /\ RunsAt(m, Generic, "determine")
    /\ cached # 0
    /\ pattern' = [pattern EXCEPT ![m] = ConfigOf[cached]]
    /\ Goto(m, "startChild")
    /\ UNCHANGED <<ref, disk, status, type, got, tree, want, trouble, orphans>>

\* An empty tarball (nothing cached) or one without a readable .vaelci.json
\* is an error, and the activity is retried.
DetermineSpecificBuildFlow(m) ==
    /\ RunsAt(m, Generic, "determine")
    /\ cached # 0
    /\ ConfigOf[cached] # "none"
    /\ pattern' = [pattern EXCEPT ![m] = ConfigOf[cached]]
    /\ Goto(m, "startChild")
    /\ UNCHANGED <<ref, disk, status, type, got, tree, want, trouble, orphans>>

\* The server starts the child and tells the parent; for an ID that is too
\* long the parent's workflow task fails, again and again.  (An open execution
\* in the child's slot would make this fail; SingleFlight says there is none.)
StartChild(m) ==
    /\ RunsAt(m, Generic, "startChild")
    /\ m < MaxDepth
    /\ status' = [status EXCEPT ![m + 1] = "open"]
    /\ type' = [type EXCEPT ![m + 1] = pattern[m]]
    /\ pc' = [pc EXCEPT ![m] = "awaitChild", ![m + 1] = FirstStep(pattern[m])]
    /\ UNCHANGED <<ref, disk, pattern, got, tree, want, trouble, orphans>>

\* Mutant: the start workflow does not wait for its child.
ChildNotAwaited(m) ==
    /\ RunsAt(m, Generic, "awaitChild")
    /\ Close(m, "completed")
    /\ UNCHANGED <<ref, disk, type, pc, pattern, got, tree, want, trouble>>

\* Mutant: the child's error is dropped.
ChildErrorDropped(m) ==
    /\ RunsAt(m, Generic, "awaitChild")
    /\ status[m + 1] # "open"
    /\ Close(m, "completed")
    /\ UNCHANGED <<ref, disk, type, pc, pattern, got, tree, want, trouble>>

\* ExecuteChildWorkflow(...).Get: the parent's outcome is the child's.
ChildCloses(m) ==
    /\ RunsAt(m, Generic, "awaitChild")
    /\ status[m + 1] # "open"
    /\ Close(m, IF status[m + 1] = "completed" THEN "completed" ELSE "failed")
    /\ UNCHANGED <<ref, disk, type, pc, pattern, got, tree, want, trouble>>

CreateSession(m) ==
    /\ RunsAt(m, Make, "createSession")
    /\ Goto(m, "download")
    /\ UNCHANGED <<ref, disk, status, type, pattern, got, tree, want, trouble, orphans>>

CreateSessionFails(m) ==
    /\ RunsAt(m, Make, "createSession")
    /\ Close(m, "failed")
    /\ UNCHANGED <<ref, disk, type, pc, pattern, got, tree, want, trouble>>

\* Every attempt unpacks into a directory of its own.
DownloadFromCacheActivity(m) ==
    /\ RunsAt(m, Make, "download")
    /\ cached # 0
    /\ tree' = [tree EXCEPT ![m] = cached]
    /\ Goto(m, "build")
    /\ UNCHANGED <<ref, disk, status, type, pattern, got, want, trouble, orphans>>

BuildActivity(m) ==
    /\ RunsAt(m, Make, "build")
    /\ Goto(m, "upload")
    /\ UNCHANGED <<ref, disk, status, type, pattern, got, tree, want, trouble, orphans>>

\* "make upload" publishes; when its outcome is lost or it fails after all,
\* it is retried.
UploadActivity(m) ==
    /\ RunsAt(m, Make, "upload")
    /\ published' = tree[m]
    /\ Goto(m, "startDeployer") \/ pc' = pc
    /\ UNCHANGED <<ref, cached, fetching, lateUploads, status, type, pattern,
                   got, tree, want, trouble, orphans>>

\* "make upload" never heartbeats: after HeartbeatTimeout the server gives
\* the attempt up and schedules another, while the process runs on.
UploadAttemptTimesOut(m) ==
    /\ RunsAt(m, Make, "upload")
    /\ lateUploads' = lateUploads \cup {tree[m]}
    /\ UNCHANGED <<ref, cached, fetching, published, runs, trouble>>

\* The process that was given up publishes after all, or is killed.
LateUpload(c) ==
    /\ c \in lateUploads /\ lateUploads' = lateUploads \ {c}
    /\ published' \in {c, published}
    /\ trouble' = trouble \cup {t \in {"uploadWentBack"} : published' < published}
    /\ UNCHANGED <<ref, cached, fetching, runs>>

\* The session's worker is lost or its ExecutionTimeout passes, and the
\* activity in it fails for good.
SessionFails(m) ==
    /\ status[m] = "open"
    /\ type[m] = Make
    /\ pc[m] \in InSession
    /\ Close(m, "failed")
    /\ UNCHANGED <<ref, disk, type, pc, pattern, got, tree, want, trouble>>

\* Mutant: the launch is the last thing done, and nothing waits for the
\* child to have started.
LaunchDeployerAndReturn(m) ==
    /\ RunsAt(m, Make, "startDeployer")
    /\ status[DeployerOf(m)] # "open"
    /\ status' = [status EXCEPT ![DeployerOf(m)] = "open", ![m] = "completed"]
    /\ orphans' = orphans \ {m}
    /\ UNCHANGED <<ref, disk, type, pc, pattern, got, tree, want, trouble>>

LaunchDeployer(m) ==
    /\ RunsAt(m, Make, "startDeployer")
    /\ status[DeployerOf(m)] # "open"
    /\ status' = [status EXCEPT ![DeployerOf(m)] = "open"]
    /\ Goto(m, "launched")
    /\ UNCHANGED <<ref, disk, type, pattern, got, tree, want, trouble, orphans>>

\* The Deployment of an earlier run still holds the ID.
DeployerIdTaken(m) ==
    /\ RunsAt(m, Make, "startDeployer")
    /\ status[DeployerOf(m)] = "open"
    /\ Close(m, "failed")
    /\ UNCHANGED <<ref, disk, type, pc, pattern, got, tree, want, trouble>>

MakeCompletes(m) ==
    /\ RunsAt(m, Make, "launched")
    /\ Close(m, "completed")
    /\ UNCHANGED <<ref, disk, type, pc, pattern, got, tree, want, trouble>>

\* Deployment logs one line and returns.
Deployment(d) ==
    /\ status[d] = "open"
    /\ Close(d, "completed")
    /\ UNCHANGED <<ref, disk, type, pc, pattern, got, tree, want, trouble>>

\* The server applies the parent close policy.
TerminateChild(i) ==
    /\ i \in orphans
    /\ Close(i, "terminated")
    /\ UNCHANGED <<ref, disk, type, pc, pattern, got, tree, want, trouble>>

Next ==
    \/ Push
    \/ \E c \in Commits : KickoffStarts(c) \/ KickoffAbsorbed(c) \/ KickoffLost(c)
    \/ OthersFetch
    \/ \E c \in Commits : OthersStore(c) \/ LateUpload(c)
    \/ \E m \in Makers :
         \/ UpdateCache(m) \/ SyncRef(m)
         \/ DetermineSpecificBuildFlow(m) \/ StartChild(m) \/ ChildCloses(m)
         \/ CreateSession(m) \/ CreateSessionFails(m)
         \/ DownloadFromCacheActivity(m) \/ BuildActivity(m)
         \/ UploadActivity(m) \/ UploadAttemptTimesOut(m)
         \/ SessionFails(m)
         \/ LaunchDeployer(m) \/ DeployerIdTaken(m) \/ MakeCompletes(m)
    \/ \E d \in Deployers : Deployment(d)
    \/ \E i \in Slots : TerminateChild(i)

Spec == Init /\ [][Next]_vars

-----------------------------------------------------------------------------
(* Fairness.  Workers poll for ever and the server keeps retrying, so a    *)
(* workflow step that stays possible happens.  Nothing says that a build   *)
(* ever succeeds: inside a session only its timeouts are certain.          *)

Progress(m) ==
    /\ WF_vars(UpdateCache(m)) /\ WF_vars(SyncRef(m))
    /\ WF_vars(DetermineSpecificBuildFlow(m))
    /\ WF_vars(StartChild(m)) /\ WF_vars(ChildCloses(m))
    /\ WF_vars(CreateSession(m)) /\ WF_vars(SessionFails(m))
    /\ WF_vars(LaunchDeployer(m) \/ DeployerIdTaken(m))
    /\ WF_vars(MakeCompletes(m))

Fairness ==
    /\ \A m \in Makers : Progress(m)
    /\ \A i \in Slots : WF_vars(TerminateChild(i))

FairSpec == Spec /\ Fairness

-----------------------------------------------------------------------------
(* Safety.                                                                 *)

\* Steps past the sync, past the download, and past the upload.
Synced   == Steps \ {"updateCache", "syncStore", "stuck"}
Built    == {"build", "upload", "startDeployer", "launched"}
Uploaded == {"startDeployer", "launched"}

Building(m) == status[m] = "open" /\ type[m] = Make

\* At most one MakeBuildUpload is open for the ref, whichever way kickoffs
\* and .vaelci.json name the patterns, and a child at any depth only while
\* every run above it awaits its own: no two builds of the ref share the
\* cache or the deployer ID, and the slot of the child is free when it is
\* started (triggerWorkflow's single ID, and GenericVaelCiCdStart waiting for
\* its child).
SingleFlight ==
    /\ \A m, n \in Makers : Building(m) /\ Building(n) => m = n
    /\ \A n \in Makers : status[n] = "open" =>
         \A m \in 0 .. n - 1 : RunsAt(m, Generic, "awaitChild")
    /\ orphans \cap Makers = {}

\* A Deployment that is open either still has the MakeBuildUpload that
\* launched it, past its upload, or is on the server's list to terminate:
\* reusing the IDs of closed runs loses track of none.
NoLostDeployment ==
    \A m \in Makers :
        status[DeployerOf(m)] = "open" /\ DeployerOf(m) \notin orphans
            => RunsAt(m, Make, "launched")

\* Since the run was opened a sync of its own has failed, or somebody's fetch
\* has put an older commit back into the cache.
Misled == trouble \cap {"syncFailed", "cacheWentBack"} # {}

\* The tree a run builds and uploads is at least as new as the commit whose
\* kickoff opened the run (UpdateCache comes before every download), unless a
\* sync of the run failed unnoticed or the cache went back under it: no other
\* order of pushes, kickoffs, fetches, retries and leftovers makes it stale.
FreshBuild ==
    \A m \in Makers :
        Building(m) /\ pc[m] \in Built /\ tree[m] < want => Misled

\* When the run a kickoff opened completes, that commit or a newer one has
\* been published: the outcome passes through every child and parent
\* unchanged.  Only a run in trouble may complete without it.
CompletedIsPublished ==
    status[Top] = "completed" => published >= want \/ trouble # {}

\* What is published goes back to an older commit only when an upload given
\* up before publishes after all, or when the run that uploads was misled;
\* never just by the order of runs, kickoffs and fetches.
PublishedMonotonic ==
    [][published' < published => lateUploads' # lateUploads \/ Misled]_published

-----------------------------------------------------------------------------
(* The inductive invariants behind the safety properties.                  *)

\* Who is open, who is an orphan.
SlotInv == SingleFlight /\ NoLostDeployment

\* Nothing is newer than what has been pushed, what is built is something, and
\* only who has room for a child awaits one.
OrderInv ==
    /\ published <= head /\ cached <= head /\ want <= head
    /\ \A c \in inFlight \cup fetching \cup lateUploads : c <= head
    /\ \A m \in Makers : got[m] <= head /\ tree[m] <= head
    /\ \A m \in Makers : Building(m) /\ pc[m] \in Built => tree[m] >= 1
    /\ 0 \notin lateUploads
    /\ \A m \in Makers : pc[m] = "awaitChild" => m < MaxDepth

\* x is at least what the run is for, and all that is or may yet be published.
Covers(x) == want <= x /\ published <= x /\ \A c \in lateUploads : c <= x

\* Unless it was misled, a run carries on with something that covers.
Fresh(m) ==
    /\ pc[m] = "syncStore" => Covers(got[m])
    /\ pc[m] \in Synced => Covers(cached)
    /\ type[m] = Make /\ pc[m] \in {"build", "upload"} => Covers(tree[m]) /\ tree[m] <= cached
    /\ type[m] = Make /\ pc[m] \in Uploaded => want <= tree[m]

FreshInv == ~Misled => \A m \in Makers : status[m] = "open" => Fresh(m)

\* Unless in trouble: past the upload, the commit the run is for is out.
CompletedInv ==
    trouble = {} =>
        /\ \A m \in Makers : Building(m) /\ pc[m] \in Uploaded => published >= want
        /\ \A m \in Makers :
             RunsAt(m, Generic, "awaitChild") /\ status[m + 1] = "completed"
                 => published >= want
        /\ status[Top] = "completed" => published >= want

-----------------------------------------------------------------------------
(* Liveness.                                                               *)

\* Once the cache has the ref, every run of it ends, even if no build and no
\* sync ever succeeds, so a later kickoff finds its ID free (session timeouts,
\* deployer launch, parents).
RunCloses == status[Top] = "open" /\ cached # 0 ~> status[Top] # "open"

\* A kickoff that opened a run is followed by that commit, or a newer one,
\* being published, or by the run failing where Temporal shows it, or by
\* the run getting into trouble.
StartedBuildSettles ==
    \A c \in Commits :
        status[Top] = "open" /\ want = c
            ~> status[Top] = "failed" \/ published >= c \/ trouble # {}

-----------------------------------------------------------------------------
(* Statements of the documentation that the code does not keep.            *)

\* README.md: a KICKOFF for a workflow in progress makes it start again from
\* the cache command, so what was kicked off is synced in the end.
KickoffReachesCache ==
    \A c \in Commits : c \in accepted ~> cached >= c

\* make-build-upload.go: the deployer child is abandoned once launched, so
\* the end of its parent does not end it.
DeploymentAbandoned == \A d \in Deployers : status[d] # "terminated"

-----------------------------------------------------------------------------
(* The pipeline implements RefBuild.                                       *)

Abstract == INSTANCE RefBuild WITH busy <- (status[Top] = "open"),
                                   done <- (status[Top] = "completed"),
                                   disturbed <- (trouble # {})

ImplementsRefBuild == Abstract!Spec

=============================================================================
