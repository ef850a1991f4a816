--------------------------- MODULE Webhooks_proofs ---------------------------
(* Proofs about Webhooks.                                                  *)
EXTENDS Webhooks, TLAPS

LEMMA OverKicks ==
    ASSUME NEW upper \in Kicks, NEW lower \in Kicks
    PROVE  /\ Over(upper, lower) \in Kicks
           /\ Over(NoKick, lower) = lower
  <1>1. lower = [repo |-> lower.repo, ref |-> lower.ref, pattern |-> lower.pattern]
    BY DEF Kicks
  <1>2. DOMAIN lower = {"repo", "ref", "pattern"}
    BY <1>1
  <1>3. Over(upper, lower) =
          [repo    |-> IF upper.repo # None THEN upper.repo ELSE lower.repo,
           ref     |-> IF upper.ref # None THEN upper.ref ELSE lower.ref,
           pattern |-> IF upper.pattern # None THEN upper.pattern ELSE lower.pattern]
    BY <1>2 DEF Over
  <1>4. Over(NoKick, lower) = [repo |-> lower.repo, ref |-> lower.ref, pattern |-> lower.pattern]
    BY <1>2 DEF Over, NoKick
  <1> QED BY <1>1, <1>3, <1>4 DEF Kicks

LEMMA NoKickType == NoKick \in Kicks
  BY DEF NoKick, Kicks

LEMMA AsksType ==
    ASSUME NEW m \in Reports, RefOf(m) # None
    PROVE  IsPush(m) /\ Asks(m) = AsPushed(m) /\ Asks(m) \in Kicks
  <1>1. m.changes \in Seq(Changes)
    BY DEF Reports
  <1>2. IsPush(m) /\ RefOf(m) = m.changes[1].name
    BY DEF RefOf, IsPush
  <1>3. m.changes[1] \in Changes
    BY <1>1, <1>2 DEF IsPush
  <1>4. RefOf(m) \in Names
    BY <1>2, <1>3 DEF Changes
  <1> QED BY <1>2, <1>4, WebhookAssumption DEF Asks, AsPushed, Kicks

LEMMA SentType ==
    ASSUME TypeOK, NEW s \in Sources, NEW event \in {"push", "tag_push", "other"},
           NEW cs \in Seq(Changes), pushes' \in 0 .. MaxPushes
    PROVE  /\ Sent(s, event, cs) \in Reports
           /\ Sent(s, event, cs).at = pushes' /\ Sent(s, event, cs).changes = cs
           /\ Sent(s, event, cs).source = s
  <1>1. hookKey[s] \in Keys \cup {None}
    BY DEF TypeOK
  <1> QED BY <1>1 DEF Sent, Reports

LEMMA PushedType ==
    ASSUME NEW s, NEW cs \in Pushed(s)
    PROVE  cs \in Seq(Changes) /\ cs # <<>>
  <1>1. CASE cs \in {<<c>> : c \in Changes}
    <2>1. PICK c \in Changes : cs = <<c>>
      BY <1>1
    <2>2. <<c>> \in Seq(Changes) /\ <<c>> # <<>>
      OBVIOUS
    <2> QED BY <2>1, <2>2
  <1>2. CASE cs \in Changes \X Changes
    <2>1. PICK c \in Changes, d \in Changes : cs = <<c, d>>
      BY <1>2
    <2>2. <<c, d>> \in Seq(Changes) /\ <<c, d>> # <<>>
      OBVIOUS
    <2> QED BY <2>1, <2>2
  <1> QED BY <1>1, <1>2 DEF Pushed

LEMMA PushedKick ==
    ASSUME NEW m \in Reports, IsPush(m)
    PROVE  AsPushed(m) \in Kicks
  <1>1. m.changes \in Seq(Changes) /\ m.changes # <<>>
    BY DEF IsPush, Reports
  <1>2. m.changes[1] \in Changes
    BY <1>1
  <1> QED BY <1>2, WebhookAssumption DEF AsPushed, Kicks, Changes

\* Every request names two files.
LEMMA FileType ==
    ASSUME NEW a \in Kicks
    PROVE  RepoFile[a.repo] \in FileNames /\ RefFile[<<a.repo, a.ref>>] \in FileNames
  BY WebhookAssumption DEF Kicks

-----------------------------------------------------------------------------
LEMMA InitType == Init => TypeOK
  <1> SUFFICES ASSUME Init PROVE TypeOK
    OBVIOUS
  <1>1. refs \in [Paths -> 0 .. MaxPushes] /\ pushes \in 0 .. MaxPushes /\ edits \in 0 .. MaxEdits
    BY WebhookAssumption DEF Init
  <1>2. hookKey \in [Sources -> Keys \cup {None}] /\ secrets \in Seq(Entries)
    BY WebhookAssumption DEF Init
  <1>3. files \in [FileNames -> Kicks]
    BY WebhookAssumption, OverridesAssumption, NoKickType DEF Init
  <1>4. held \in [FileNames -> SUBSET Kicks]
    BY <1>3 DEF Init
  <1>5. asked \in [Handlers -> Kicks] /\ kick \in [Handlers -> Kicks]
    BY NoKickType DEF Init
  <1>6. open \in [Ids -> (0 .. MaxPushes) \cup {None}]
    BY DEF Init
  <1> QED BY <1>1, <1>2, <1>3, <1>4, <1>5, <1>6 DEF Init, TypeOK

\* A handler that takes up a request.
LEMMA BeginType ==
    ASSUME TypeOK, NEW h \in Handlers, NEW m \in Reports \cup {None}, NEW request \in Kicks,
           Begin(h, m, request), called' \subseteq Kicks
    PROVE  TypeOK'
  <1>1. pc' \in [Handlers -> {"idle", "repoFile", "refFile", "start"}]
    BY DEF Begin, TypeOK
  <1>2. asked' \in [Handlers -> Kicks] /\ kick' \in [Handlers -> Kicks]
    BY DEF Begin, TypeOK
  <1>3. report' \in [Handlers -> Reports \cup {None}]
    BY DEF Begin, TypeOK
  <1> QED BY <1>1, <1>2, <1>3 DEF Begin, TypeOK, forge, setup, runs

\* A handler that has answered.
LEMMA AnswerType ==
    ASSUME TypeOK, NEW h \in Handlers, Answer(h),
           open' \in [Ids -> (0 .. MaxPushes) \cup {None}],
           \A w \in started' : w \in Workflows, \A w \in absorbed' : w \in Meetings,
           taken' \subseteq taken \cup ({report[h]} \ {None})
    PROVE  TypeOK'
  <1>1. pc' \in [Handlers -> {"idle", "repoFile", "refFile", "start"}]
    BY DEF Answer, TypeOK
  <1>2. asked' \in [Handlers -> Kicks] /\ kick' \in [Handlers -> Kicks]
    BY NoKickType DEF Answer, TypeOK
  <1>3. report' \in [Handlers -> Reports \cup {None}]
    BY DEF Answer, TypeOK
  <1>4. \A m \in taken' : m \in Reports
    BY DEF TypeOK
  <1> QED BY <1>1, <1>2, <1>3, <1>4 DEF Answer, TypeOK, forge, setup

\* What a handler that starts asks for.
Wanted(h) == [repo |-> kick[h].repo, ref |-> kick[h].ref,
              pattern |-> PatternOf(kick[h]), at |-> pushes]

LEMMA StartWorkflow ==
    ASSUME TypeOK, NEW h \in Handlers, None \notin {kick[h].repo, kick[h].ref}
    PROVE  Wanted(h) \in Workflows /\ <<Wanted(h).repo, Wanted(h).ref>> \in Ids
  <1>1. kick[h] \in Kicks /\ pushes \in 0 .. MaxPushes
    BY DEF TypeOK
  <1>2. /\ kick[h].repo \in Repos /\ kick[h].ref \in Names
        /\ PatternOf(kick[h]) \in Patterns
    BY <1>1, WebhookAssumption DEF Kicks, PatternOf
  <1> QED BY <1>1, <1>2 DEF Workflows, Wanted, Ids

\* Temporal starts the run, or has one open.
LEMMA StartRuns ==
    ASSUME TypeOK, NEW w \in Workflows, <<w.repo, w.ref>> \in Ids,
           IF open[<<w.repo, w.ref>>] = None THEN Started(w) ELSE Absorbed(w)
    PROVE  /\ open' \in [Ids -> (0 .. MaxPushes) \cup {None}]
           /\ \A v \in started' : v \in Workflows
           /\ \A v \in absorbed' : v \in Meetings
  <1>0. w.at \in 0 .. MaxPushes
    BY DEF Workflows
  <1>1. CASE open[<<w.repo, w.ref>>] = None
    BY <1>0, <1>1 DEF Started, TypeOK
  <1>2. CASE open[<<w.repo, w.ref>>] # None
    <2>1. open[<<w.repo, w.ref>>] \in 0 .. MaxPushes
      BY <1>2 DEF TypeOK
    <2>2. \A v \in absorbed' : v \in absorbed
            \/ v = [repo |-> w.repo, ref |-> w.ref, at |-> w.at, began |-> open[<<w.repo, w.ref>>]]
      BY <1>2 DEF Absorbed
    <2>3. [repo |-> w.repo, ref |-> w.ref, at |-> w.at, began |-> open[<<w.repo, w.ref>>]] \in Meetings
      BY <2>1 DEF Meetings, Workflows
    <2>4. \A v \in absorbed' : v \in Meetings
      BY <2>2, <2>3 DEF TypeOK
    <2> QED BY <1>2, <2>4 DEF Absorbed, TypeOK
  <1> QED BY <1>1, <1>2

LEMMA MergeType ==
    ASSUME TypeOK, NEW h \in Handlers, NEW step, NEW patch \in Kicks,
           NEW next \in {"refFile", "start"}, Merge(h, step, patch, next)
    PROVE  TypeOK'
  <1>1. pc' \in [Handlers -> {"idle", "repoFile", "refFile", "start"}]
    BY DEF Merge, TypeOK
  <1>2. Over(patch, kick[h]) \in Kicks
    BY OverKicks DEF TypeOK
  <1>3. kick' \in [Handlers -> Kicks]
    BY <1>2 DEF Merge, TypeOK
  <1> QED BY <1>1, <1>3 DEF Merge, TypeOK, forge, setup, runs

LEMMA PushType ==
    ASSUME TypeOK, NEW s \in Sources, NEW cs \in Pushed(s), Push(s, cs)
    PROVE  TypeOK'
  <1>1. pushes' \in 0 .. MaxPushes
    BY WebhookAssumption DEF Push, TypeOK
  <1>2. refs' \in [Paths -> 0 .. MaxPushes]
    BY <1>1, WebhookAssumption DEF Push, TypeOK
  <1>3. \A m \in sent' : m \in Reports
    <2>1. PICK event \in {"push", "tag_push", "other"} : sent' = sent \cup {Sent(s, event, cs)}
      BY DEF Push
    <2> QED BY <1>1, <2>1, PushedType, SentType DEF TypeOK
  <1> QED BY <1>1, <1>2, <1>3 DEF Push, TypeOK, setup, runs

LEMMA OtherType ==
    ASSUME TypeOK, NEW s \in Sources, OtherEvent(s)
    PROVE  TypeOK'
  <1>1. pushes' \in 0 .. MaxPushes
    BY WebhookAssumption DEF OtherEvent, TypeOK
  <1>2. Sent(s, "other", <<>>) \in Reports
    <2>1. <<>> \in Seq(Changes)
      OBVIOUS
    <2> QED BY <1>1, <2>1, SentType
  <1> QED BY <1>1, <1>2 DEF OtherEvent, TypeOK, setup, runs

LEMMA EditType ==
    ASSUME TypeOK, NEW f \in FileNames, NEW p \in Patches \cup {NoKick}, EditFile(f, p)
    PROVE  TypeOK'
  <1>1. p \in Kicks
    BY WebhookAssumption, NoKickType
  <1>2. files' \in [FileNames -> Kicks] /\ held' \in [FileNames -> SUBSET Kicks]
    BY <1>1 DEF EditFile, TypeOK
  <1>3. edits' \in 0 .. MaxEdits
    BY WebhookAssumption DEF EditFile, TypeOK
  <1> QED BY <1>2, <1>3 DEF EditFile, TypeOK, forge, runs

LEMMA HandlerType ==
    ASSUME TypeOK, NEW h \in Handlers, Handle(h)
    PROVE  TypeOK'
  <1>0. /\ files[RepoFile[asked[h].repo]] \in Kicks
        /\ files[RefFile[<<asked[h].repo, asked[h].ref>>]] \in Kicks
    BY FileType DEF TypeOK
  <1>1. CASE ReadRepoFile(h)
    BY <1>0, <1>1, MergeType DEF ReadRepoFile
  <1>2. CASE ReadRefFile(h)
    BY <1>0, <1>2, MergeType DEF ReadRefFile
  <1>3. CASE Start(h)
    <2>1. Wanted(h) \in Workflows /\ <<Wanted(h).repo, Wanted(h).ref>> \in Ids
      BY <1>3, StartWorkflow DEF Start
    <2>2. /\ Answer(h) /\ taken' = taken \cup ({report[h]} \ {None})
          /\ IF open[<<Wanted(h).repo, Wanted(h).ref>>] = None
             THEN Started(Wanted(h)) ELSE Absorbed(Wanted(h))
      BY <1>3 DEF Start, Wanted
    <2> QED BY <2>1, <2>2, StartRuns, AnswerType
  <1>4. CASE StartFails(h)
    BY <1>4, AnswerType DEF StartFails, TypeOK, runs
  <1> QED BY <1>1, <1>2, <1>3, <1>4 DEF Handle

LEMMA TakeType ==
    ASSUME TypeOK, NEW h \in Handlers
    PROVE  /\ \A m \in sent : Ignore(h, m) \/ Receive(h, m) => TypeOK'
           /\ \A call \in Calls : Kickoff(h, call[1], call[2]) => TypeOK'
  <1>1. ASSUME NEW m \in sent, Ignore(h, m) PROVE TypeOK'
    BY <1>1 DEF Ignore, TypeOK, forge, setup, runs
  <1>2. ASSUME NEW m \in sent, Receive(h, m) PROVE TypeOK'
    <2>1. m \in Reports /\ Asks(m) \in Kicks
      BY <1>2, AsksType DEF Receive, TypeOK
    <2>2. Begin(h, m, Asks(m)) /\ called' \subseteq Kicks
      BY <1>2 DEF Receive, TypeOK
    <2> QED BY <2>1, <2>2, BeginType
  <1>3. ASSUME NEW call \in Calls, Kickoff(h, call[1], call[2]) PROVE TypeOK'
    <2>1. call[1] \in Kicks /\ call[2] \in Kicks
      BY WebhookAssumption
    <2>2. Over(call[2], call[1]) \in Kicks
      BY <2>1, OverKicks
    <2>3. Begin(h, None, Over(call[2], call[1])) /\ called' \subseteq Kicks
      BY <1>3, <2>2 DEF Kickoff, TypeOK
    <2> QED BY <2>2, <2>3, BeginType
  <1> QED BY <1>1, <1>2, <1>3

LEMMA NextType == TypeOK /\ [Next]_vars => TypeOK'
  <1>1. TypeOK /\ UNCHANGED vars => TypeOK'
    BY DEF TypeOK, vars
  <1>2. ASSUME TypeOK, NEW id \in Ids, RunEnds(id) PROVE TypeOK'
    BY <1>2 DEF RunEnds, TypeOK, forge, setup
  <1> QED BY <1>1, <1>2, PushType, OtherType, EditType, HandlerType, TakeType DEF Next

\* Every variable keeps its type; no workflow starts without repository, ref
\* or pattern.
THEOREM TypeCorrect == Spec => []TypeOK
  BY InitType, NextType, PTL DEF Spec

-----------------------------------------------------------------------------
(* What the override files make of a request.                              *)

\* Where a request comes from.
Asked(a) == a \in called \/ \E m \in sent : IsPush(m) /\ a = AsPushed(m)

\* A handler's request so far is what the files it has read make of the
\* request as it came.
HandlerInv(h) ==
    /\ pc[h] # "idle" => Asked(asked[h])
    /\ pc[h] = "repoFile" => kick[h] = asked[h]
    /\ pc[h] = "refFile" => \E repo \in held[RepoFile[asked[h].repo]] : kick[h] = Over(repo, asked[h])
    /\ pc[h] = "start" => kick[h] \in Outcomes(asked[h])
    /\ report[h] # None =>
         report[h] \in sent /\ IsPush(report[h]) /\ asked[h] = AsPushed(report[h])

AskInv ==
    /\ \A f \in FileNames : files[f] \in held[f]
    /\ \A h \in Handlers : HandlerInv(h)
    /\ \A w \in started : \E a \in Kicks : Asked(a) /\ Builds(w, a)

\* What has been held stays so, and with it what a request may become.
LEMMA HeldGrows ==
    ASSUME NEW a \in Kicks, \A f \in FileNames : held[f] \subseteq held'[f]
    PROVE  /\ held[RepoFile[a.repo]] \subseteq held'[RepoFile[a.repo]]
           /\ Outcomes(a) \subseteq Outcomes(a)'
           /\ \A w : Builds(w, a) => Builds(w, a)'
  <1>1. /\ held[RepoFile[a.repo]] \subseteq held'[RepoFile[a.repo]]
        /\ held[RefFile[<<a.repo, a.ref>>]] \subseteq held'[RefFile[<<a.repo, a.ref>>]]
    BY FileType
  <1>2. Outcomes(a) \subseteq Outcomes(a)'
    BY <1>1 DEF Outcomes
  <1> QED BY <1>1, <1>2 DEF Builds

\* A step that leaves a handler alone leaves its invariant alone.
LEMMA Undisturbed ==
    ASSUME TypeOK, NEW h \in Handlers, HandlerInv(h),
           pc'[h] = pc[h], report'[h] = report[h], asked'[h] = asked[h], kick'[h] = kick[h],
           sent \subseteq sent', called \subseteq called',
           \A f \in FileNames : held[f] \subseteq held'[f]
    PROVE  HandlerInv(h)'
  <1>1. Asked(asked[h]) => Asked(asked[h])'
    BY DEF Asked
  <1>2. held[RepoFile[asked[h].repo]] \subseteq held'[RepoFile[asked[h].repo]]
    BY HeldGrows DEF TypeOK
  <1>3. Outcomes(asked[h]) \subseteq Outcomes(asked[h])'
    BY HeldGrows DEF TypeOK
  <1> QED BY <1>1, <1>2, <1>3 DEF HandlerInv

\* A step of handler h, or of nobody's, that starts nothing.
LEMMA AskFrame ==
    ASSUME TypeOK, AskInv, NEW hs \in SUBSET Handlers, \A h \in hs : HandlerInv(h)',
           \A g \in Handlers \ hs : pc'[g] = pc[g] /\ report'[g] = report[g]
                                    /\ asked'[g] = asked[g] /\ kick'[g] = kick[g],
           started' \subseteq started, sent \subseteq sent', called \subseteq called',
           \A f \in FileNames : held[f] \subseteq held'[f] /\ files'[f] \in held'[f]
    PROVE  AskInv'
  <1>1. \A a : Asked(a) => Asked(a)'
    BY DEF Asked
  <1>2. \A w \in started' : \E a \in Kicks : Asked(a)' /\ Builds(w, a)'
    BY <1>1, HeldGrows DEF AskInv
  <1>3. \A h \in Handlers : HandlerInv(h)'
    BY Undisturbed DEF AskInv
  <1> QED BY <1>2, <1>3 DEF AskInv

LEMMA AskMerge ==
    ASSUME TypeOK, AskInv, NEW h \in Handlers, ReadRepoFile(h) \/ ReadRefFile(h)
    PROVE  AskInv'
  <1> DEFINE a == asked[h]
  <1>0. a \in Kicks /\ kick[h] \in Kicks
    BY DEF TypeOK
  <1>1. /\ pc'[h] = (IF pc[h] = "repoFile" THEN "refFile" ELSE "start")
        /\ asked' = asked /\ report' = report /\ held' = held /\ files' = files
        /\ sent' = sent /\ called' = called /\ started' = started
        /\ pc[h] \in {"repoFile", "refFile"}
        /\ \A g \in Handlers \ {h} : pc'[g] = pc[g] /\ kick'[g] = kick[g]
    BY DEF ReadRepoFile, ReadRefFile, Merge, TypeOK, forge, setup, runs
  <1>2. /\ \A b : Asked(b)' <=> Asked(b)
        /\ \A b : Outcomes(b)' = Outcomes(b)
    BY <1>1 DEF Asked, Outcomes
  <1>3. HandlerInv(h)
    BY DEF AskInv
  <1>4. ASSUME HandlerInv(h)' PROVE AskInv'
    <2>1. /\ {h} \in SUBSET Handlers
          /\ \A g \in {h} : HandlerInv(g)'
          /\ \A g \in Handlers \ {h} : pc'[g] = pc[g] /\ report'[g] = report[g]
                                        /\ asked'[g] = asked[g] /\ kick'[g] = kick[g]
      BY <1>1, <1>4
    <2>2. /\ started' \subseteq started /\ sent \subseteq sent' /\ called \subseteq called'
          /\ \A f \in FileNames : held[f] \subseteq held'[f] /\ files'[f] \in held'[f]
      BY <1>1 DEF AskInv
    <2> QED BY <2>1, <2>2, AskFrame
  <1>5. CASE pc[h] = "repoFile"
    <2>1. kick'[h] = Over(files[RepoFile[a.repo]], kick[h])
      BY <1>5 DEF ReadRepoFile, ReadRefFile, Merge, TypeOK
    <2>2. kick[h] = a
      BY <1>3, <1>5 DEF HandlerInv
    <2>3. \E repo \in held[RepoFile[a.repo]] : kick'[h] = Over(repo, a)
      BY <1>0, <2>1, <2>2, FileType DEF AskInv
    <2>4. HandlerInv(h)'
      BY <1>1, <1>2, <1>3, <1>5, <2>3 DEF HandlerInv
    <2> QED BY <1>4, <2>4
  <1>6. CASE pc[h] = "refFile"
    <2> DEFINE ref == files[RefFile[<<a.repo, a.ref>>]]
    <2>1. kick'[h] = Over(ref, kick[h])
      BY <1>6 DEF ReadRepoFile, ReadRefFile, Merge, TypeOK
    <2>2. PICK repo \in held[RepoFile[a.repo]] : kick[h] = Over(repo, a)
      BY <1>3, <1>6 DEF HandlerInv
    <2>3. ref \in held[RefFile[<<a.repo, a.ref>>]]
      BY <1>0, FileType DEF AskInv
    <2> HIDE DEF ref
    <2>4. kick'[h] \in Outcomes(a)
      BY <2>1, <2>2, <2>3 DEF Outcomes
    <2>5. HandlerInv(h)'
      BY <1>1, <1>2, <1>3, <1>6, <2>4 DEF HandlerInv
    <2> QED BY <1>4, <2>5
  <1> QED BY <1>1, <1>5, <1>6

LEMMA AskStart ==
    ASSUME TypeOK, AskInv, NEW h \in Handlers, Start(h) \/ StartFails(h)
    PROVE  AskInv'
  <1>1. /\ pc[h] = "start" /\ pc'[h] = "idle" /\ report'[h] = None
        /\ held' = held /\ files' = files /\ sent' = sent /\ called' = called
        /\ \A g \in Handlers \ {h} : pc'[g] = pc[g] /\ report'[g] = report[g]
                                     /\ asked'[g] = asked[g] /\ kick'[g] = kick[g]
    BY DEF Start, StartFails, Answer, TypeOK, forge, setup
  <1>2. HandlerInv(h)'
    BY <1>1 DEF HandlerInv
  <1>3. CASE StartFails(h)
    BY <1>1, <1>2, <1>3, AskFrame DEF StartFails, AskInv, runs
  <1>4. CASE Start(h)
    <2> DEFINE w == Wanted(h)
    <2>1. started' \subseteq started \cup {w}
      BY <1>4 DEF Start, Started, Absorbed, Wanted
    <2>2. Asked(asked[h]) /\ kick[h] \in Outcomes(asked[h]) /\ asked[h] \in Kicks
      BY <1>1 DEF AskInv, HandlerInv, TypeOK
    <2>3. Builds(w, asked[h])
      BY <2>2 DEF Builds, Wanted
    <2>4. \A v, a : (Asked(a) => Asked(a)') /\ (Builds(v, a) => Builds(v, a)')
      BY <1>1 DEF Asked, Builds, Outcomes
    <2> HIDE DEF w
    <2>5. \A v \in started' : \E a \in Kicks : Asked(a)' /\ Builds(v, a)'
      BY <2>1, <2>2, <2>3, <2>4 DEF AskInv
    <2>6. \A g \in Handlers : HandlerInv(g)'
      BY <1>1, <1>2, Undisturbed DEF AskInv
    <2> QED BY <1>1, <2>5, <2>6 DEF AskInv
  <1> QED BY <1>3, <1>4

LEMMA AskBegin ==
    ASSUME TypeOK, AskInv, NEW h \in Handlers, NEW m, NEW request, Begin(h, m, request),
           called \subseteq called', Asked(request)',
           m # None => m \in sent /\ IsPush(m) /\ request = AsPushed(m)
    PROVE  AskInv'
  <1>1. /\ pc'[h] = "repoFile" /\ asked'[h] = request /\ kick'[h] = request /\ report'[h] = m
        /\ held' = held /\ files' = files /\ sent' = sent /\ started' = started
        /\ \A g \in Handlers \ {h} : pc'[g] = pc[g] /\ report'[g] = report[g]
                                     /\ asked'[g] = asked[g] /\ kick'[g] = kick[g]
    BY DEF Begin, TypeOK, forge, setup, runs
  <1>2. HandlerInv(h)'
    BY <1>1 DEF HandlerInv
  <1>3. \A f \in FileNames : held[f] \subseteq held'[f] /\ files'[f] \in held'[f]
    BY <1>1 DEF AskInv
  <1>4. {h} \in SUBSET Handlers
    OBVIOUS
  <1> QED BY <1>1, <1>2, <1>3, <1>4, AskFrame

\* A step of no handler.
LEMMA AskStill ==
    ASSUME TypeOK, AskInv, UNCHANGED <<pc, report, asked, kick, started, called>>,
           sent \subseteq sent', \A f \in FileNames : held[f] \subseteq held'[f] /\ files'[f] \in held'[f]
    PROVE  AskInv'
  <1>1. {} \in SUBSET Handlers
    OBVIOUS
  <1> QED BY <1>1, AskFrame

LEMMA AskNext == TypeOK /\ AskInv /\ [Next]_vars => AskInv'
  <1> SUFFICES ASSUME TypeOK, AskInv, [Next]_vars PROVE AskInv'
    OBVIOUS
  <1>1. ASSUME UNCHANGED vars PROVE AskInv'
    BY <1>1, AskStill DEF vars, AskInv
  <1>2. ASSUME NEW s \in Sources, OtherEvent(s) \/ \E cs \in Pushed(s) : Push(s, cs) PROVE AskInv'
    BY <1>2, AskStill DEF OtherEvent, Push, setup, AskInv, runs
  <1>3. ASSUME NEW f \in FileNames, NEW p, EditFile(f, p) PROVE AskInv'
    <2>1. \A g \in FileNames : held[g] \subseteq held'[g] /\ files'[g] \in held'[g]
      BY <1>3 DEF EditFile, AskInv, TypeOK
    <2>2. UNCHANGED <<pc, report, asked, kick, sent, started, called>>
      BY <1>3 DEF EditFile, forge, runs
    <2> QED BY <2>1, <2>2, AskStill
  <1>4. ASSUME NEW h \in Handlers, NEW m \in sent, Ignore(h, m) PROVE AskInv'
    BY <1>4, AskStill DEF Ignore, forge, setup, AskInv, runs
  <1>5. ASSUME NEW h \in Handlers, NEW m \in sent, Receive(h, m) PROVE AskInv'
    <2>1. Begin(h, m, Asks(m)) /\ called' = called /\ sent' = sent
      BY <1>5 DEF Receive, Begin, forge
    <2>2. IsPush(m) /\ Asks(m) = AsPushed(m)
      BY <1>5, AsksType DEF Receive, TypeOK
    <2>3. Asked(Asks(m))'
      BY <2>1, <2>2 DEF Asked
    <2> QED BY <2>1, <2>2, <2>3, AskBegin
  <1>6. ASSUME NEW h \in Handlers, NEW call \in Calls, Kickoff(h, call[1], call[2]) PROVE AskInv'
    <2> DEFINE k == Over(call[2], call[1])
    <2>1. Begin(h, None, k) /\ called' = called \cup {k}
      BY <1>6 DEF Kickoff
    <2> HIDE DEF k
    <2>2. Asked(k)'
      BY <2>1 DEF Asked
    <2> QED BY <2>1, <2>2, AskBegin
  <1>7. ASSUME NEW id \in Ids, RunEnds(id) PROVE AskInv'
    BY <1>7, AskStill DEF RunEnds, forge, setup, AskInv
  <1> QED BY <1>1, <1>2, <1>3, <1>4, <1>5, <1>6, <1>7, AskMerge, AskStart DEF Next, Handle

LEMMA AskInit == Init => AskInv
  BY DEF Init, AskInv, HandlerInv

\* For any forges, secrets, override files and callers: every workflow started
\* is what the override files made of a push or a KICKOFF call.
THEOREM StartedWasAskedCorrect == Spec => []StartedWasAsked
  <1>1. AskInv => StartedWasAsked
    BY DEF AskInv, Asked, StartedWasAsked
  <1> QED BY <1>1, AskInit, AskNext, TypeCorrect, PTL DEF Spec

-----------------------------------------------------------------------------
(* Pushes that have been answered.                                         *)

PushInv ==
    /\ taken \subseteq sent
    /\ \A m \in sent : m.at \in 1 .. pushes
    /\ \A m \in sent : IsPush(m) /\ m.changes[1].deleted => ~Stands(m)
    /\ \A w \in started : w.at <= pushes
    /\ \A id \in Ids : open[id] # None =>
         \E w \in started : <<w.repo, w.ref>> = id /\ w.at >= open[id]
    /\ NoPushLeftBehind

LEMMA PathType ==
    ASSUME NEW m \in Reports, m.changes # <<>>
    PROVE  <<m.source, m.changes[1].kind, m.changes[1].name>> \in Paths
  <1>1. m.changes[1] \in Changes /\ m.source \in Sources
    BY DEF Reports
  <1> QED BY <1>1 DEF Paths, Changes

\* A push with a run begun since, or absorbed, stays so.
LEMMA ServedStays ==
    ASSUME TypeOK, NEW m \in Reports, IsPush(m), BuiltSince(m) \/ AbsorbedBefore(m),
           absorbed \subseteq absorbed', \A f \in FileNames : held[f] \subseteq held'[f],
           \A v \in started : \E u \in started' :
               u \in Workflows /\ u.repo = v.repo /\ u.ref = v.ref /\ u.at >= v.at
    PROVE  (BuiltSince(m) \/ AbsorbedBefore(m))'
  <1>1. Outcomes(AsPushed(m)) \subseteq Outcomes(AsPushed(m))'
    BY PushedKick, HeldGrows
  <1>2. CASE BuiltSince(m)
    <2>1. PICK k \in Outcomes(AsPushed(m)), v \in started :
              v.repo = k.repo /\ v.ref = k.ref /\ v.at >= m.at
      BY <1>2 DEF BuiltSince
    <2>2. PICK u \in started' : u \in Workflows /\ u.repo = v.repo /\ u.ref = v.ref /\ u.at >= v.at
      OBVIOUS
    <2>3. m.at \in Int /\ v.at \in Int /\ u.at \in Int
      BY <2>2 DEF TypeOK, Workflows, Reports
    <2>4. k \in Outcomes(AsPushed(m))' /\ <<u.repo, u.ref>> = <<k.repo, k.ref>> /\ u.at >= m.at
      BY <1>1, <2>1, <2>2, <2>3
    <2> QED BY <2>4 DEF BuiltSince
  <1>3. CASE AbsorbedBefore(m)
    BY <1>1, <1>3 DEF AbsorbedBefore
  <1> QED BY <1>2, <1>3

\* A step that starts and answers nothing, and adds no report, leaves a push
\* as it is.
LEMMA PushStill ==
    ASSUME TypeOK, PushInv, UNCHANGED <<refs, pushes, sent, started, absorbed, taken>>,
           open' = open \/ \E id \in Ids : open' = [open EXCEPT ![id] = None],
           \A f \in FileNames : held[f] \subseteq held'[f]
    PROVE  PushInv'
  <1>1. \A w \in started : w \in Workflows /\ w.at \in Int
    BY DEF TypeOK, Workflows
  <1>2. \A m : Stands(m)' <=> Stands(m)
    BY DEF Stands
  <1>3. NoPushLeftBehind'
    <2> SUFFICES ASSUME NEW m \in taken', IsPush(m), Stands(m)'
                 PROVE  (BuiltSince(m) \/ AbsorbedBefore(m))'
      BY DEF NoPushLeftBehind
    <2>1. m \in Reports /\ (BuiltSince(m) \/ AbsorbedBefore(m))
      BY <1>2 DEF PushInv, NoPushLeftBehind, TypeOK
    <2> QED BY <1>1, <2>1, ServedStays
  <1>4. \A id \in Ids : open'[id] \in {open[id], None}
    BY DEF TypeOK
  <1>5. (\A id \in Ids : open[id] # None =>
           \E w \in started : <<w.repo, w.ref>> = id /\ w.at >= open[id])'
    BY <1>4 DEF PushInv
  <1> QED BY <1>2, <1>3, <1>5 DEF PushInv

\* A push leaves a ref as an earlier push has set it only by leaving it alone.
LEMMA PushStands ==
    ASSUME TypeOK, PushInv, NEW s \in Sources, NEW cs \in Pushed(s), Push(s, cs)
    PROVE  PushInv'
  <1>1. /\ pushes \in Nat /\ pushes' = pushes + 1
        /\ UNCHANGED <<started, absorbed, open, taken, held>>
    BY WebhookAssumption DEF Push, TypeOK, setup, runs
  <1>2. \A p \in Paths : refs'[p] \in {0, pushes', refs[p]}
    BY <1>1 DEF Push
  <1>3. ASSUME NEW m \in sent, m.changes # <<>>, Stands(m)' PROVE Stands(m)
    <2> DEFINE p == <<m.source, m.changes[1].kind, m.changes[1].name>>
    <2>1. p \in Paths /\ m.at \in 1 .. pushes /\ refs'[p] = m.at
      BY <1>3, PathType DEF TypeOK, PushInv, Stands
    <2>2. refs'[p] = refs[p]
      <3> HIDE DEF p
      <3> QED BY <1>1, <1>2, <2>1
    <2> QED BY <2>1, <2>2 DEF Stands
  <1>4. cs # <<>> /\ cs \in Seq(Changes)
    BY PushedType
  <1>5. PICK new \in Reports : /\ sent' = sent \cup {new}
                               /\ new.at = pushes' /\ new.changes = cs /\ new.source = s
    <2>1. PICK event \in {"push", "tag_push", "other"} : sent' = sent \cup {Sent(s, event, cs)}
      BY DEF Push
    <2>2. pushes' \in 0 .. MaxPushes
      BY WebhookAssumption DEF Push, TypeOK
    <2> QED BY <1>4, <2>1, <2>2, SentType
  <1>6. new.changes[1].deleted => ~Stands(new)'
    <2>1. <<s, cs[1].kind, cs[1].name>> \in Paths /\ 1 \in DOMAIN cs
      BY <1>4, <1>5, PathType
    <2>2. cs[1].deleted => refs'[<<s, cs[1].kind, cs[1].name>>] = 0
      BY <2>1 DEF Push
    <2>3. pushes' # 0
      BY <1>1
    <2> QED BY <1>5, <2>2, <2>3 DEF Stands
  <1>7. \A m \in sent' : m.at \in 1 .. pushes'
    BY <1>1, <1>5 DEF PushInv
  <1>8. \A m \in sent' : IsPush(m) /\ m.changes[1].deleted => ~Stands(m)'
    BY <1>3, <1>5, <1>6 DEF PushInv, IsPush
  <1>9. NoPushLeftBehind'
    BY <1>1, <1>3 DEF PushInv, NoPushLeftBehind, BuiltSince, AbsorbedBefore, Outcomes, IsPush
  <1>10. \A w \in started' : w.at <= pushes'
    BY <1>1 DEF PushInv, TypeOK, Workflows
  <1> QED BY <1>1, <1>5, <1>7, <1>8, <1>9, <1>10 DEF PushInv

\* The last start of a workflow stands for the earlier ones.
LEMMA StartedLater ==
    ASSUME TypeOK, PushInv, NEW w \in Workflows, w.at = pushes, Started(w) \/ Absorbed(w)
    PROVE  \A v \in started : \E u \in started' :
               u \in Workflows /\ u.repo = v.repo /\ u.ref = v.ref /\ u.at >= v.at
  <1> SUFFICES ASSUME NEW v \in started
               PROVE  \E u \in started' :
                        u \in Workflows /\ u.repo = v.repo /\ u.ref = v.ref /\ u.at >= v.at
    OBVIOUS
  <1>1. v \in Workflows /\ v.at \in Int /\ v.at <= w.at
    BY DEF TypeOK, PushInv, Workflows
  <1>2. CASE [v EXCEPT !.at = w.at] = w
    <2>1. v.repo = w.repo /\ v.ref = w.ref
      BY <1>1, <1>2 DEF Workflows
    <2> QED BY <1>1, <2>1 DEF Started, Absorbed
  <1>3. CASE [v EXCEPT !.at = w.at] # w
    BY <1>1, <1>3 DEF Started, Absorbed
  <1> QED BY <1>2, <1>3

\* Whether it has started a run or met one: the report just answered has a run
\* begun since, or was absorbed by an older one.
LEMMA StartServes ==
    ASSUME TypeOK, PushInv, NEW w \in Workflows, w.at = pushes, <<w.repo, w.ref>> \in Ids,
           NEW m \in Reports, m.at <= pushes,
           IF open[<<w.repo, w.ref>>] = None THEN Started(w) ELSE Absorbed(w)
    PROVE  \/ \E u \in started' : u.repo = w.repo /\ u.ref = w.ref /\ u.at >= m.at
           \/ \E u \in absorbed' : /\ u.repo = w.repo /\ u.ref = w.ref
                                   /\ u.at >= m.at /\ u.began < m.at
  <1> DEFINE id == <<w.repo, w.ref>>
  <1>1. m.at \in Int /\ w.at \in Int
    BY DEF Reports, Workflows
  <1>2. CASE open[id] = None
    BY <1>1, <1>2 DEF Started
  <1>3. CASE open[id] # None
    <2>1. open[id] \in Int
      BY <1>3 DEF TypeOK
    <2>2. PICK v \in started : v.repo = w.repo /\ v.ref = w.ref /\ v.at >= open[id]
      BY <1>3 DEF PushInv
    <2>3. v.at \in Int /\ started' = started
      BY <1>3 DEF TypeOK, Workflows, Absorbed
    <2>4. CASE open[id] >= m.at
      BY <1>1, <2>1, <2>2, <2>3, <2>4
    <2>5. CASE open[id] < m.at
      <3> DEFINE u == [repo |-> w.repo, ref |-> w.ref, at |-> w.at, began |-> open[id]]
      <3>1. w.at # open[id]
        BY <1>1, <2>1, <2>5
      <3>2. u \in absorbed'
        BY <1>3, <3>1 DEF Absorbed
      <3> QED BY <1>1, <2>5, <3>2
    <2> QED BY <1>1, <2>1, <2>4, <2>5
  <1> QED BY <1>2, <1>3

LEMMA StartCovers ==
    ASSUME TypeOK, AskInv, PushInv, NEW h \in Handlers, Start(h)
    PROVE  PushInv'
  <1> DEFINE w == Wanted(h)
             id == <<w.repo, w.ref>>
  <1>1. /\ IF open[id] = None THEN Started(w) ELSE Absorbed(w)
        /\ taken' = taken \cup ({report[h]} \ {None})
        /\ pc[h] = "start" /\ UNCHANGED <<held, refs, pushes, sent>>
    BY DEF Start, Wanted, Answer, forge, setup
  <1>2. w \in Workflows /\ id \in Ids /\ w.at = pushes /\ pushes \in Nat
    BY StartWorkflow DEF Start, TypeOK, Wanted
  <1>3. kick[h] \in Outcomes(asked[h]) /\ w.repo = kick[h].repo /\ w.ref = kick[h].ref
    BY <1>1 DEF AskInv, HandlerInv, Wanted
  <1> HIDE DEF w
  <1>4. \A v \in started : \E u \in started' :
            u \in Workflows /\ u.repo = v.repo /\ u.ref = v.ref /\ u.at >= v.at
    BY <1>1, <1>2, StartedLater
  <1>5. report[h] # None => /\ report[h] \in sent /\ IsPush(report[h])
                            /\ asked[h] = AsPushed(report[h]) /\ report[h].at \in 1 .. pushes
    BY DEF AskInv, HandlerInv, PushInv
  <1>6. absorbed \subseteq absorbed' /\ \A b : Outcomes(b)' = Outcomes(b)
    BY <1>1 DEF Started, Absorbed, Outcomes
  <1>7. ASSUME NEW m \in taken', IsPush(m), Stands(m)
        PROVE  (BuiltSince(m) \/ AbsorbedBefore(m))'
    <2>1. CASE m = report[h] /\ m # None
      <3>1. m \in Reports /\ m.at <= pushes /\ kick[h] \in Outcomes(AsPushed(m))'
        BY <1>3, <1>5, <1>6, <2>1 DEF TypeOK
      <3>2. \/ \E u \in started' : u.repo = w.repo /\ u.ref = w.ref /\ u.at >= m.at
            \/ \E u \in absorbed' : /\ u.repo = w.repo /\ u.ref = w.ref
                                    /\ u.at >= m.at /\ u.began < m.at
        BY <1>1, <1>2, <3>1, StartServes
      <3> QED BY <1>3, <3>1, <3>2 DEF BuiltSince, AbsorbedBefore
    <2>2. CASE m \in taken
      <3>1. m \in Reports /\ (BuiltSince(m) \/ AbsorbedBefore(m))
        BY <1>7, <2>2 DEF PushInv, NoPushLeftBehind, TypeOK
      <3>2. \A f \in FileNames : held[f] \subseteq held'[f]
        BY <1>1
      <3> QED BY <1>4, <1>6, <1>7, <3>1, <3>2, ServedStays
    <2> QED BY <1>1, <2>1, <2>2
  <1>8. NoPushLeftBehind'
    <2>1. \A m : Stands(m)' <=> Stands(m)
      BY <1>1 DEF Stands
    <2> QED BY <1>7, <2>1 DEF NoPushLeftBehind
  <1>9. taken' \subseteq sent' /\ \A v \in started' : v.at <= pushes'
    BY <1>1, <1>2, <1>5 DEF PushInv, Started, Absorbed
  <1>10. \A m \in sent' : m.at \in 1 .. pushes' /\ (IsPush(m) /\ m.changes[1].deleted => ~Stands(m)')
    BY <1>1 DEF PushInv, Stands
  <1>11. ASSUME NEW i \in Ids, open'[i] # None
         PROVE  \E u \in started' : <<u.repo, u.ref>> = i /\ u.at >= open'[i]
    <2>1. CASE i = id /\ open[id] = None
      <3>1. open'[i] = w.at /\ w \in started'
        BY <1>1, <1>2, <2>1 DEF Started, TypeOK
      <3> QED BY <1>2, <2>1, <3>1
    <2>2. CASE ~(i = id /\ open[id] = None)
      <3>1. open'[i] = open[i]
        BY <1>1, <1>2, <2>2 DEF Started, Absorbed, TypeOK
      <3>2. PICK v \in started : <<v.repo, v.ref>> = i /\ v.at >= open[i]
        BY <1>11, <3>1 DEF PushInv
      <3>3. PICK u \in started' : u \in Workflows /\ u.repo = v.repo /\ u.ref = v.ref /\ u.at >= v.at
        BY <1>4
      <3>4. u.at \in Int /\ v.at \in Int /\ open[i] \in Int
        BY <1>11, <3>1, <3>3 DEF TypeOK, Workflows
      <3> QED BY <3>1, <3>2, <3>3, <3>4
    <2> QED BY <2>1, <2>2
  <1> QED BY <1>8, <1>9, <1>10, <1>11 DEF PushInv

LEMMA PushNext == TypeOK /\ AskInv /\ PushInv /\ [Next]_vars => PushInv'
  <1> SUFFICES ASSUME TypeOK, AskInv, PushInv, [Next]_vars PROVE PushInv'
    OBVIOUS
  <1>1. ASSUME UNCHANGED vars PROVE PushInv'
    BY <1>1, PushStill DEF vars
  <1>2. ASSUME NEW s \in Sources, OtherEvent(s) PROVE PushInv'
    <2> DEFINE new == Sent(s, "other", <<>>)
    <2>1. /\ pushes \in Nat /\ pushes' = pushes + 1 /\ sent' = sent \cup {new}
          /\ UNCHANGED <<refs, started, absorbed, open, taken, held>>
      BY <1>2, WebhookAssumption DEF OtherEvent, TypeOK, setup, runs
    <2>2. new.at = pushes' /\ ~IsPush(new)
      BY DEF Sent, IsPush
    <2> HIDE DEF new
    <2>3. \A m \in sent' : m.at \in 1 .. pushes'
      BY <2>1, <2>2 DEF PushInv
    <2>4. \A m \in sent' : IsPush(m) /\ m.changes[1].deleted => ~Stands(m)'
      BY <2>1, <2>2 DEF PushInv, Stands
    <2>5. NoPushLeftBehind'
      BY <2>1 DEF PushInv, NoPushLeftBehind, BuiltSince, AbsorbedBefore, Outcomes, Stands
    <2>6. \A w \in started' : w.at <= pushes'
      BY <2>1 DEF PushInv, TypeOK, Workflows
    <2> QED BY <2>1, <2>3, <2>4, <2>5, <2>6 DEF PushInv
  <1>3. ASSUME NEW f \in FileNames, NEW p, EditFile(f, p) PROVE PushInv'
    <2>1. \A g \in FileNames : held[g] \subseteq held'[g]
      BY <1>3 DEF EditFile, TypeOK
    <2> QED BY <1>3, <2>1, PushStill DEF EditFile, forge, runs
  <1>4. ASSUME NEW h \in Handlers, NEW m \in sent, Ignore(h, m) PROVE PushInv'
    <2>1. taken' = taken \cup {m} /\ UNCHANGED <<refs, pushes, sent, started, absorbed, open, held>>
      BY <1>4 DEF Ignore, forge, setup, runs
    <2>2. IsPush(m) => m.changes[1].deleted
      <3>1. m \in Reports /\ RefOf(m) = None
        BY <1>4 DEF Ignore, TypeOK
      <3>2. IsPush(m) => m.changes[1] \in Changes
        BY <3>1 DEF IsPush, Reports
      <3> QED BY <3>1, <3>2, WebhookAssumption DEF RefOf, IsPush, Changes
    <2>3. ~(IsPush(m) /\ Stands(m))
      BY <2>2 DEF PushInv
    <2>4. NoPushLeftBehind'
      BY <2>1, <2>3 DEF PushInv, NoPushLeftBehind, BuiltSince, AbsorbedBefore, Outcomes, Stands
    <2> QED BY <2>1, <2>4 DEF PushInv, Stands
  <1>5. ASSUME NEW h \in Handlers, (\E m \in sent : Receive(h, m))
                                   \/ (\E call \in Calls : Kickoff(h, call[1], call[2]))
                                   \/ ReadRepoFile(h) \/ ReadRefFile(h) \/ StartFails(h)
        PROVE  PushInv'
    BY <1>5, PushStill DEF Receive, Kickoff, Begin, ReadRepoFile, ReadRefFile, Merge, StartFails,
                           Answer, forge, setup, runs
  <1>6. ASSUME NEW id \in Ids, RunEnds(id) PROVE PushInv'
    BY <1>6, PushStill DEF RunEnds, forge, setup
  <1> QED BY <1>1, <1>2, <1>3, <1>4, <1>5, <1>6, PushStands, StartCovers DEF Next, Handle

\* For any number of pushes, handlers and forges: a push that was answered has
\* a run begun since, unless its ref has changed or its call met a run begun
\* before it.
THEOREM NoPushLeftBehindCorrect == Spec => []NoPushLeftBehind
  <1>1. Init => PushInv
    BY DEF Init, PushInv, NoPushLeftBehind
  <1>2. PushInv => NoPushLeftBehind
    BY DEF PushInv
  <1> QED BY <1>1, <1>2, AskInit, AskNext, PushNext, TypeCorrect, PTL DEF Spec

=============================================================================
