------------------------------ MODULE Webhooks ------------------------------
(***************************************************************************)
(* Kickoff (cmd/kickoff) as the forges and git hooks see it: a user pushes *)
(* to a forge, the forge reports the push to POST /hooks/{source}/{repo},  *)
(* and a handler checks the report, finds out the ref, looks for override  *)
(* files and asks Temporal for a workflow: it starts one, or finds one of  *)
(* that repository and ref open and starts none.  KICKOFF calls take the   *)
(* same way from the override files on.  Reports arrive late, in any       *)
(* order, more than once or never, override files change meanwhile, and    *)
(* runs end whenever they do.  How shared secrets are loaded is in         *)
(* AuthReload; here each behavior has one list of them.                    *)
(***************************************************************************)
EXTENDS Integers, Sequences, FiniteSets

CONSTANTS
    Sources,      \* {source} of the hooks in use
    Repo,         \* {repo} of the hooks: the name the repository has here
    Repos,        \* names of repositories in requests and override files
    Names,        \* names of branches and tags
    Patterns,     \* build patterns
    Keys,         \* shared secrets
    SecretLists,  \* what SharedSecrets may have loaded
    FileNames,    \* names of override files
    RepoFile,     \* RepoFile[repo] is repo.json
    RefFile,      \* RefFile[<<repo, ref>>] is repo.ref.json; a.b.json may be both
    Patches,      \* what override files may hold
    Calls,        \* KICKOFF requests: what the body names, what the URL names
    Overrides,    \* the override files at the beginning
    Handlers,     \* requests handled at the same time
    None,         \* empty, absent
    MaxPushes,    \* bound on the number of pushes and other events
    MaxCalls,     \* bound on the number of different KICKOFF requests
    MaxEdits      \* bound on the number of changes by the operators

INSTANCE Overlay

Kicks == [repo : Repos \cup {None}, ref : Names \cup {None}, pattern : Patterns \cup {None}]
Entries == [provider : Sources \cup {None}, key : Keys, repos : SUBSET Repos]

ASSUME WebhookAssumption ==
    /\ Repo \in Repos
    /\ None \notin Repos \cup Names \cup Patterns \cup Keys
    /\ "GenericVaelCiCdStart" \in Patterns
    /\ SecretLists \subseteq Seq(Entries)
    /\ RepoFile \in [Repos \cup {None} -> FileNames]
    /\ RefFile \in [(Repos \cup {None}) \X (Names \cup {None}) -> FileNames]
    /\ Patches \subseteq Kicks
    /\ Calls \subseteq Kicks \X Kicks
    /\ MaxPushes \in Nat /\ MaxCalls \in Nat /\ MaxEdits \in Nat

Paths   == Sources \X {"heads", "tags"} \X Names
Changes == [kind : {"heads", "tags"}, name : Names, deleted : BOOLEAN]
Reports == [source : Sources, event : {"push", "tag_push", "other"}, changes : Seq(Changes),
            key : Keys \cup {None}, at : 0 .. MaxPushes]
NoKick  == [repo |-> None, ref |-> None, pattern |-> None]
Ids     == Repos \X Names                 \* workflow IDs: "!build! repo ref"

ASSUME OverridesAssumption == Overrides \subseteq [FileNames -> Patches \cup {NoKick}]

VARIABLES
    refs,      \* per ref of each forge: the push that set it, 0 if there is none
    pushes,    \* number of pushes and other events so far
    hookKey,   \* per forge: the secret in its hook settings, or None
    secrets,   \* SharedSecrets.secrets
    files,     \* the override files: a patch, or NoKick without a readable file
    sent,      \* reports the forges have sent
    pc,        \* per handler: next step
    report,    \* per handler: the report it handles, if any
    asked,     \* per handler: the request before any override
    kick,      \* per handler: the request so far
    edits,     \* number of changes by the operators so far
    open,      \* per workflow ID: after how many pushes the open run began, if any
    started,   \* history: workflows, and after how many pushes last started
    absorbed,  \* history: calls that found a run open since before the last push
    taken,     \* history: reports answered 200 or 202
    called,    \* history: requests of KICKOFF calls
    held       \* history: what each override file has held

forge == <<refs, pushes, sent>>
setup == <<hookKey, secrets, files, edits, held>>
runs  == <<open, started, absorbed>>
vars  == <<refs, pushes, hookKey, secrets, files, sent, pc, report, asked, kick, edits,
           open, started, absorbed, taken, called, held>>

Workflows == [repo : Repos, ref : Names, pattern : Patterns, at : 0 .. MaxPushes]
Meetings  == [repo : Repos, ref : Names, at : 0 .. MaxPushes, began : 0 .. MaxPushes]

TypeOK ==
    /\ refs \in [Paths -> 0 .. MaxPushes] /\ pushes \in 0 .. MaxPushes
    /\ hookKey \in [Sources -> Keys \cup {None}] /\ secrets \in Seq(Entries)
    /\ files \in [FileNames -> Kicks]
    /\ \A m \in sent \cup taken : m \in Reports
    /\ pc \in [Handlers -> {"idle", "repoFile", "refFile", "start"}]
    /\ report \in [Handlers -> Reports \cup {None}]
    /\ asked \in [Handlers -> Kicks] /\ kick \in [Handlers -> Kicks]
    /\ edits \in 0 .. MaxEdits
    /\ open \in [Ids -> (0 .. MaxPushes) \cup {None}]
    /\ \A w \in started : w \in Workflows
    /\ \A w \in absorbed : w \in Meetings
    /\ called \subseteq Kicks /\ held \in [FileNames -> SUBSET Kicks]

Init ==
    /\ refs = [p \in Paths |-> 0] /\ pushes = 0
    /\ hookKey \in {[s \in Sources |-> k] : k \in Keys \cup {None}} /\ secrets \in SecretLists
    /\ files \in Overrides
    /\ sent = {}
    /\ pc = [h \in Handlers |-> "idle"]
    /\ report = [h \in Handlers |-> None]
    /\ asked = [h \in Handlers |-> NoKick] /\ kick = asked
    /\ edits = 0
    /\ open = [id \in Ids |-> None]
    /\ started = {} /\ absorbed = {} /\ taken = {} /\ called = {}
    /\ held = [f \in FileNames |-> {files[f]}]

-----------------------------------------------------------------------------
(* The forges, and the operators.                                          *)

Sent(source, event, changes) ==
    [source |-> source, event |-> event, changes |-> changes,
     key |-> hookKey[source], at |-> pushes']

\* Bitbucket reports all refs of a push at once, the others each by itself;
\* GitLab has an event of its own for tags.
Pushed(source) ==
    {<<c>> : c \in Changes}
        \cup (IF source = "bitbucket" THEN {cs \in Changes \X Changes :
                                                 <<cs[1].kind, cs[1].name>> # <<cs[2].kind, cs[2].name>>}
              ELSE {})

Push(source, cs) ==
    /\ pushes < MaxPushes /\ pushes' = pushes + 1
    /\ \A i \in DOMAIN cs : cs[i].deleted => refs[<<source, cs[i].kind, cs[i].name>>] # 0
    /\ refs' = [p \in Paths |->
                  IF \E i \in DOMAIN cs : p = <<source, cs[i].kind, cs[i].name>>
                  THEN IF \E i \in DOMAIN cs : p = <<source, cs[i].kind, cs[i].name>>
                                               /\ cs[i].deleted THEN 0 ELSE pushes'
                  ELSE refs[p]]
    /\ LET event == IF source = "gitlab" /\ cs[1].kind = "tags" THEN "tag_push" ELSE "push"
       IN  sent' = sent \cup {Sent(source, event, cs)}
    /\ UNCHANGED <<setup, pc, report, asked, kick, runs, taken, called>>

\* An event of another kind, if the hook is set to send them.
OtherEvent(source) ==
    /\ pushes < MaxPushes /\ pushes' = pushes + 1
    /\ sent' = sent \cup {Sent(source, "other", <<>>)}
    /\ UNCHANGED <<refs, setup, pc, report, asked, kick, runs, taken, called>>

\* A file that is removed or cannot be parsed is NoKick.
EditFile(f, patch) ==
    /\ edits < MaxEdits /\ edits' = edits + 1
    /\ patch # files[f] /\ files' = [files EXCEPT ![f] = patch]
    /\ held' = [held EXCEPT ![f] = @ \cup {patch}]
    /\ UNCHANGED <<forge, hookKey, secrets, pc, report, asked, kick, runs, taken, called>>

-----------------------------------------------------------------------------
(* webhookHandler.                                                         *)

Matching(source) ==
    {i \in DOMAIN secrets : secrets[i].provider \in {None, source} /\ Repo \in secrets[i].repos}

\* SharedSecrets.Get: the first entry that matches provider and repository.
Get(source) ==
    IF Matching(source) = {} THEN None
    ELSE secrets[CHOOSE i \in Matching(source) : \A j \in Matching(source) : i <= j].key

\* verifySignature, or the key itself at GitLab: it is the one on file here.
Signed(m) == m.key # None /\ m.key = Get(m.source)

\* GitLab's reports must be signed; from the others one without a signature
\* passes, but not one with a wrong signature.
Verified(m) == Signed(m) \/ (m.source # "gitlab" /\ m.key = None)

\* Mutant: tags are left alone.
RefOfBranch(m) ==
    IF m.event # "push" \/ m.changes = <<>> THEN None
    ELSE IF m.source # "gitlab" /\ (m.changes[1].deleted \/ m.changes[1].kind = "tags") THEN None
    ELSE m.changes[1].name

\* The ref to build, without refs/heads/ or refs/tags/: the first change only,
\* and none for a deletion, which GitLab's handler does not look for.
RefOf(m) ==
    IF m.event # "push" \/ m.changes = <<>> THEN None
    ELSE IF m.changes[1].deleted /\ m.source # "gitlab" THEN None
    ELSE m.changes[1].name

Asks(m) == [repo |-> Repo, ref |-> RefOf(m), pattern |-> None]

\* A report that is not accepted is answered 400 or 403, and nothing happens.
Accepted(m) ==
    m.source \in {"github", "gitlab", "bitbucket", "codeberg"} /\ Verified(m)

Ignore(h, m) ==
    /\ pc[h] = "idle" /\ m \in sent
    /\ Accepted(m) /\ RefOf(m) = None
    /\ taken' = taken \cup {m}
    /\ UNCHANGED <<forge, setup, pc, report, asked, kick, runs, called>>

Begin(h, m, request) ==
    /\ pc[h] = "idle" /\ pc' = [pc EXCEPT ![h] = "repoFile"]
    /\ report' = [report EXCEPT ![h] = m]
    /\ asked' = [asked EXCEPT ![h] = request]
    /\ kick' = [kick EXCEPT ![h] = request]
    /\ UNCHANGED <<forge, setup, runs, taken>>

Receive(h, m) ==
    /\ m \in sent
    /\ Accepted(m) /\ RefOf(m) # None
    /\ Begin(h, m, Asks(m))
    /\ UNCHANGED called

\* kickoffHandler: the URL wins over the body.
Kickoff(h, body, url) ==
    /\ Begin(h, None, Over(url, body))
    /\ called' = called \cup {Over(url, body)}
    /\ Cardinality(called') <= MaxCalls

-----------------------------------------------------------------------------
(* triggerWorkflow.                                                        *)

Merge(h, step, patch, next) ==
    /\ pc[h] = step /\ pc' = [pc EXCEPT ![h] = next]
    /\ kick' = [kick EXCEPT ![h] = Over(patch, kick[h])]
    /\ UNCHANGED <<forge, setup, report, asked, runs, taken, called>>

ReadRepoFile(h) == Merge(h, "repoFile", files[RepoFile[asked[h].repo]], "refFile")

\* Mutant: the name of the second file is that of the overridden request.
ReadRefFileOfKick(h) ==
    Merge(h, "refFile", files[RefFile[<<kick[h].repo, kick[h].ref>>]], "start")

\* Both names are those of the request as it came.
ReadRefFile(h) ==
    Merge(h, "refFile", files[RefFile[<<asked[h].repo, asked[h].ref>>]], "start")

Answer(h) ==
    /\ pc[h] = "start" /\ pc' = [pc EXCEPT ![h] = "idle"]
    /\ report' = [report EXCEPT ![h] = None]
    /\ asked' = [asked EXCEPT ![h] = NoKick] /\ kick' = [kick EXCEPT ![h] = NoKick]
    /\ UNCHANGED <<forge, setup, called>>

\* Mutant: no default.
PatternAsIs(k) == k.pattern

PatternOf(k) == IF k.pattern = None THEN "GenericVaelCiCdStart" ELSE k.pattern

\* The last start of a workflow stands for the earlier ones.
Started(w) ==
    /\ open' = [open EXCEPT ![<<w.repo, w.ref>>] = w.at]
    /\ started' = {v \in started : [v EXCEPT !.at = w.at] # w} \cup {w}
    /\ UNCHANGED absorbed

\* ExecuteWorkflow returns the open run without an error.
Absorbed(w) ==
    /\ LET began == open[<<w.repo, w.ref>>]
       IN  absorbed' = absorbed \cup
               {[repo |-> w.repo, ref |-> w.ref, at |-> a, began |-> began] :
                  a \in {w.at} \ {began}}
    /\ UNCHANGED <<open, started>>

\* Temporal starts the workflow, or has one of that repository and ref open;
\* either way the answer is 202.
Start(h) ==
    /\ None \notin {kick[h].repo, kick[h].ref}
    /\ LET w == [repo |-> kick[h].repo, ref |-> kick[h].ref,
                 pattern |-> PatternOf(kick[h]), at |-> pushes]
       IN  IF open[<<w.repo, w.ref>>] = None THEN Started(w) ELSE Absorbed(w)
    /\ taken' = taken \cup ({report[h]} \ {None})
    /\ Answer(h)

\* 400 without a repository or ref, 502 without Temporal.
StartFails(h) == Answer(h) /\ UNCHANGED <<runs, taken>>

\* A run of BuildPipeline ends, one way or another.
RunEnds(id) ==
    /\ open[id] # None /\ open' = [open EXCEPT ![id] = None]
    /\ UNCHANGED <<forge, setup, pc, report, asked, kick, started, absorbed, taken, called>>

Handle(h) ==
    ReadRepoFile(h) \/ ReadRefFile(h) \/ Start(h) \/ StartFails(h)

Next ==
    \/ \E s \in Sources : (\E cs \in Pushed(s) : Push(s, cs)) \/ OtherEvent(s)
    \/ \E f \in FileNames, p \in Patches \cup {NoKick} : EditFile(f, p)
    \/ \E h \in Handlers :
         \/ \E m \in sent : Ignore(h, m) \/ Receive(h, m)
         \/ \E call \in Calls : Kickoff(h, call[1], call[2])
         \/ Handle(h)
    \/ \E id \in Ids : RunEnds(id)

Spec == Init /\ [][Next]_vars

-----------------------------------------------------------------------------
\* What a request may become: each override file is read once, with some
\* content it has had; the ref's file wins over the repository's.
Outcomes(a) ==
    {Over(ref, Over(repo, a)) :
        repo \in held[RepoFile[a.repo]], ref \in held[RefFile[<<a.repo, a.ref>>]]}

Builds(w, a) ==
    \E k \in Outcomes(a) : w.repo = k.repo /\ w.ref = k.ref /\ w.pattern = PatternOf(k)

\* What a push asks for, as it came: its first ref.
IsPush(m)   == m.event = "push" /\ m.changes # <<>>
AsPushed(m) == [repo |-> Repo, ref |-> m.changes[1].name, pattern |-> None]

\* The ref of a push is still as the push has set it.
Stands(m) == refs[<<m.source, m.changes[1].kind, m.changes[1].name>>] = m.at

\* A run of the repository and ref that the override files made of push m
\* has begun since; or the call for m met one that had begun before m.
BuiltSince(m) ==
    \E k \in Outcomes(AsPushed(m)), w \in started :
        <<w.repo, w.ref>> = <<k.repo, k.ref>> /\ w.at >= m.at

AbsorbedBefore(m) ==
    \E k \in Outcomes(AsPushed(m)), w \in absorbed :
        <<w.repo, w.ref>> = <<k.repo, k.ref>> /\ w.at >= m.at /\ w.began < m.at

\* A push of a ref that is still there, once its report has been answered 200
\* or 202, has a run begun since for what the override files made of it,
\* however reports were delayed, repeated and reordered, unless its call was
\* absorbed by a run open since before the push: no answered push is lost in
\* any other way.  Left out, as in the code: tags at GitLab, and all but the
\* first ref of a Bitbucket push.
NoPushLeftBehind ==
    \A m \in taken : IsPush(m) /\ Stands(m) => BuiltSince(m) \/ AbsorbedBefore(m)

\* Every workflow is what the override files, with contents they have had,
\* make of a KICKOFF call or of a push as it came: the files are named after
\* the request, not after what another file has made of it.
StartedWasAsked ==
    \A w \in started :
        \/ \E a \in called : Builds(w, a)
        \/ \E m \in sent : IsPush(m) /\ Builds(w, AsPushed(m))

=============================================================================
