------------------------ MODULE BuildPipeline_proofs ------------------------
(* Proofs about BuildPipeline, for every value of its constants.           *)
EXTENDS BuildPipeline, TLAPS

\* The slots of makers and deployers are apart.
LEMMA SlotFacts ==
    /\ Top \in Makers /\ Makers \subseteq Slots /\ Makers \subseteq Nat
    /\ \A m \in Makers : DeployerOf(m) \in Deployers /\ DeployerOf(m) \in Slots \ Makers
    /\ \A d \in Deployers : d \in Slots \ Makers /\ Children(d) = {}
    /\ \A m, n \in Makers : DeployerOf(m) = DeployerOf(n) => m = n
    /\ \A i \in Slots : Children(i) \subseteq Slots
    /\ \A m \in Makers : m < MaxDepth => m + 1 \in Makers
    /\ \A m \in Makers : Children(m) \subseteq {m + 1, DeployerOf(m)} /\ DeployerOf(m) \in Children(m)
    /\ Slots = Makers \cup Deployers
  BY PipelineAssumption DEF Top, Makers, Deployers, Slots, DeployerOf, Children


LEMMA CloseType ==
    ASSUME TypeOK, NEW i \in Slots, NEW how \in {"completed", "failed", "terminated"},
           Close(i, how), UNCHANGED <<ref, disk, type, pc, pattern, got, tree, want, trouble>>
    PROVE  TypeOK'
  <1>1. status' \in [Slots -> {"none", "open", "completed", "failed", "terminated"}]
    BY DEF Close, TypeOK
  <1>2. orphans' \subseteq Slots
    BY SlotFacts DEF Close, TypeOK
  <1> QED BY <1>1, <1>2 DEF TypeOK, ref, disk

LEMMA InitType == Init => TypeOK
  BY PipelineAssumption DEF Init, TypeOK, Patterns, Steps, Make, Generic, Unknown

LEMMA NextType == TypeOK /\ [Next]_vars => TypeOK'
  <1> SUFFICES ASSUME TypeOK, [Next]_vars PROVE TypeOK'
    OBVIOUS
  <1> USE PipelineAssumption, SlotFacts DEF Commits
  <1>1. CASE Push
    BY <1>1 DEF Push, TypeOK, disk, runs
  <1>2. ASSUME NEW c \in Commits, KickoffStarts(c) PROVE TypeOK'
    <2>1. PICK p \in KickPatterns : /\ type' = [type EXCEPT ![Top] = p]
                                    /\ pc' = [pc EXCEPT ![Top] = FirstStep(p)]
      BY <1>2 DEF KickoffStarts
    <2>2. p \in Patterns /\ FirstStep(p) \in Steps
      BY DEF FirstStep, Steps
    <2>3. type' \in [Makers -> Patterns] /\ pc' \in [Makers -> Steps]
      BY <2>1, <2>2 DEF TypeOK
    <2> QED BY <1>2, <2>3 DEF KickoffStarts, TypeOK, disk
  <1>3. ASSUME NEW c \in Commits, KickoffAbsorbed(c) \/ KickoffLost(c) PROVE TypeOK'
    BY <1>3 DEF KickoffAbsorbed, KickoffLost, TypeOK, disk, runs
  <1>4. CASE OthersFetch
    BY <1>4 DEF OthersFetch, TypeOK, ref, runs
  <1>5. ASSUME NEW c \in Commits, OthersStore(c) \/ LateUpload(c) PROVE TypeOK'
    <2>1. cached' \in 0 .. MaxPush /\ published' \in 0 .. MaxPush
      BY <1>5 DEF OthersStore, LateUpload, Store, TypeOK
    <2>2. trouble' \subseteq {"syncFailed", "cacheWentBack", "uploadWentBack"}
      <3>1. CASE OthersStore(c)
        BY <3>1 DEF OthersStore, Store, TypeOK, runs
      <3>2. CASE LateUpload(c)
        BY <3>2 DEF LateUpload, TypeOK
      <3> QED BY <1>5, <3>1, <3>2
    <2>3. fetching' \subseteq fetching /\ lateUploads' \subseteq lateUploads
      BY <1>5 DEF OthersStore, LateUpload
    <2> QED BY <1>5, <2>1, <2>2, <2>3 DEF OthersStore, LateUpload, TypeOK, ref, runs
  <1>6. ASSUME NEW m \in Makers, UpdateCache(m) PROVE TypeOK'
    BY <1>6 DEF UpdateCache, Goto, Steps, TypeOK, ref, disk
  <1>7. ASSUME NEW m \in Makers, SyncRef(m) PROVE TypeOK'
    <2>1. cached' \in 0 .. MaxPush
      BY <1>7 DEF SyncRef, Store, TypeOK
    <2>2. trouble' \subseteq {"syncFailed", "cacheWentBack", "uploadWentBack"}
      BY <1>7 DEF SyncRef, Store, TypeOK
    <2>3. pc' \in [Makers -> Steps]
      BY <1>7 DEF SyncRef, Goto, Steps, TypeOK
    <2> QED BY <1>7, <2>1, <2>2, <2>3 DEF SyncRef, TypeOK, ref
  <1>8. ASSUME NEW m \in Makers, DetermineSpecificBuildFlow(m) PROVE TypeOK'
    <2>1. cached \in Commits /\ ConfigOf[cached] \in Patterns
      BY <1>8 DEF DetermineSpecificBuildFlow, TypeOK
    <2>2. pattern' \in [Makers -> Patterns]
      BY <1>8, <2>1 DEF DetermineSpecificBuildFlow, TypeOK
    <2> QED BY <1>8, <2>2 DEF DetermineSpecificBuildFlow, Goto, Steps, TypeOK, ref, disk
  <1>9. ASSUME NEW m \in Makers, StartChild(m) PROVE TypeOK'
    <2>1. pattern[m] \in Patterns /\ FirstStep(pattern[m]) \in Steps /\ "awaitChild" \in Steps
      BY DEF TypeOK, FirstStep, Steps
    <2>2. /\ status' \in [Slots -> {"none", "open", "completed", "failed", "terminated"}]
          /\ type' \in [Makers -> Patterns] /\ pc' \in [Makers -> Steps]
      BY <1>9, <2>1 DEF StartChild, TypeOK
    <2> QED BY <1>9, <2>2 DEF StartChild, TypeOK, ref, disk
  <1>10. ASSUME NEW m \in Makers, ChildCloses(m) \/ CreateSessionFails(m) \/ SessionFails(m)
                                  \/ DeployerIdTaken(m) \/ MakeCompletes(m)
         PROVE  TypeOK'
    BY <1>10, CloseType DEF ChildCloses, CreateSessionFails, SessionFails, DeployerIdTaken, MakeCompletes
  <1>11. ASSUME NEW m \in Makers, CreateSession(m) \/ BuildActivity(m) PROVE TypeOK'
    <2>1. pc' \in [Makers -> Steps]
      BY <1>11 DEF CreateSession, BuildActivity, Goto, Steps, TypeOK
    <2> QED BY <1>11, <2>1 DEF CreateSession, BuildActivity, TypeOK, ref, disk
  <1>12. ASSUME NEW m \in Makers, DownloadFromCacheActivity(m) PROVE TypeOK'
    BY <1>12 DEF DownloadFromCacheActivity, Goto, Steps, TypeOK, ref, disk
  <1>13. ASSUME NEW m \in Makers, UploadActivity(m) PROVE TypeOK'
    <2>1. published' \in 0 .. MaxPush
      BY <1>13 DEF UploadActivity, TypeOK
    <2>2. pc' \in [Makers -> Steps]
      BY <1>13 DEF UploadActivity, Goto, Steps, TypeOK
    <2> QED BY <1>13, <2>1, <2>2 DEF UploadActivity, TypeOK, ref
  <1>14. ASSUME NEW m \in Makers, UploadAttemptTimesOut(m) PROVE TypeOK'
    <2>1. tree[m] \in 0 .. MaxPush /\ lateUploads' = lateUploads \cup {tree[m]}
      BY <1>14 DEF UploadAttemptTimesOut, TypeOK
    <2>2. lateUploads' \subseteq 0 .. MaxPush
      BY <2>1 DEF TypeOK
    <2> QED BY <1>14, <2>2 DEF UploadAttemptTimesOut, TypeOK, ref, runs
  <1>15. ASSUME NEW m \in Makers, LaunchDeployer(m) PROVE TypeOK'
    <2>1. pc' \in [Makers -> Steps]
      BY <1>15 DEF LaunchDeployer, Goto, Steps, TypeOK
    <2>2. status' \in [Slots -> {"none", "open", "completed", "failed", "terminated"}]
      BY <1>15 DEF LaunchDeployer, TypeOK
    <2> QED BY <1>15, <2>1, <2>2 DEF LaunchDeployer, TypeOK, ref, disk
  <1>16. ASSUME NEW i \in Slots, (i \in Deployers /\ Deployment(i)) \/ TerminateChild(i) PROVE TypeOK'
    BY <1>16, CloseType DEF Deployment, TerminateChild
  <1>17. CASE UNCHANGED vars
    BY <1>17 DEF TypeOK, vars
  <1> QED BY <1>1, <1>2, <1>3, <1>4, <1>5, <1>6, <1>7, <1>8, <1>9, <1>10, <1>11, <1>12, <1>13,
             <1>14, <1>15, <1>16, <1>17 DEF Next

\* Every variable keeps its type, through every handler and workflow step.
THEOREM TypeCorrect == Spec => []TypeOK
  BY InitType, NextType, PTL DEF Spec

-----------------------------------------------------------------------------
(* Who is open, who is an orphan.                                          *)

\* A maker that does not await a child has nobody open below it.
LEMMA NobodyBelow ==
    ASSUME TypeOK, SlotInv, NEW m \in Makers, NEW n \in Makers, m < n,
           ~RunsAt(m, Generic, "awaitChild") \/ (m + 1 \in Makers => status[m + 1] # "open")
    PROVE  status[n] # "open"
  <1> SUFFICES ASSUME status[n] = "open" PROVE FALSE
    OBVIOUS
  <1>1. m \in Nat /\ n \in Nat /\ n <= MaxDepth
    BY PipelineAssumption DEF Makers
  <1>2. RunsAt(m, Generic, "awaitChild")
    BY <1>1 DEF SlotInv, SingleFlight
  <1>3. CASE n = m + 1
    BY <1>2, <1>3
  <1>4. CASE n # m + 1
    <2>1. m + 1 \in 0 .. n - 1 /\ m + 1 \in Makers
      <3>1. m + 1 < n /\ m + 1 \in Nat /\ m + 1 <= MaxDepth
        BY <1>1, <1>4, PipelineAssumption
      <3>2. m + 1 <= n - 1
        BY <1>1, <3>1
      <3> QED BY <1>1, <3>1, <3>2, PipelineAssumption DEF Makers
    <2>2. RunsAt(m + 1, Generic, "awaitChild")
      BY <2>1 DEF SlotInv, SingleFlight
    <2> QED BY <1>2, <2>1, <2>2 DEF RunsAt
  <1> QED BY <1>3, <1>4

\* Whoever is open, the top run is.
LEMMA TopIsOpen ==
    ASSUME TypeOK, SlotInv, NEW n \in Makers, status[n] = "open"
    PROVE  status[Top] = "open"
  <1>1. n = Top \/ Top \in 0 .. n - 1
    BY PipelineAssumption DEF Makers, Top
  <1> QED BY <1>1 DEF SlotInv, SingleFlight, RunsAt

\* A step of a maker that neither opens nor closes anything.
LEMMA SlotMove ==
    ASSUME TypeOK, SlotInv, UNCHANGED <<status, type, orphans>>,
           NEW m \in Makers, pc[m] \notin {"awaitChild", "launched"},
           \A n \in Makers \ {m} : pc'[n] = pc[n]
    PROVE  SlotInv'
  <1>1. \A n \in Makers : /\ RunsAt(n, Generic, "awaitChild") => RunsAt(n, Generic, "awaitChild")'
                          /\ RunsAt(n, Make, "launched") => RunsAt(n, Make, "launched")'
                          /\ Building(n)' <=> Building(n)
    BY DEF RunsAt, Building
  <1>2. \A n \in Makers : \A k \in 0 .. n - 1 : k \in Makers
    BY PipelineAssumption DEF Makers
  <1>3. SingleFlight'
    BY <1>1, <1>2 DEF SlotInv, SingleFlight
  <1>4. NoLostDeployment'
    BY <1>1 DEF SlotInv, NoLostDeployment
  <1> QED BY <1>3, <1>4 DEF SlotInv

LEMMA SlotStill ==
    ASSUME TypeOK, SlotInv, UNCHANGED <<status, type, pc, orphans>>
    PROVE  SlotInv'
  BY DEF SlotInv, SingleFlight, NoLostDeployment, RunsAt, Building

\* An execution closes when nobody is open below it.
LEMMA SlotClose ==
    ASSUME TypeOK, SlotInv, NEW i \in Slots, NEW how \in {"completed", "failed", "terminated"},
           Close(i, how), UNCHANGED <<type, pc>>,
           i \in Makers => ~RunsAt(i, Generic, "awaitChild")
                             \/ (i + 1 \in Makers => status[i + 1] # "open")
    PROVE  SlotInv'
  <1>1. /\ status'[i] # "open" /\ \A j \in Slots \ {i} : status'[j] = status[j]
        /\ orphans' = (orphans \ {i}) \cup {j \in Children(i) : status[j] = "open"}
    BY DEF Close, TypeOK
  <1>2. i \in Makers => \A n \in Makers : i < n => status[n] # "open"
    BY NobodyBelow
  <1>3. \A n \in Makers : \A k \in 0 .. n - 1 : k \in Makers /\ k < n
    BY PipelineAssumption DEF Makers
  <1>4. \A n \in Makers : status'[n] = "open" => n # i /\ status[n] = "open"
    BY <1>1, SlotFacts
  <1>5. ASSUME NEW n \in Makers, status'[n] = "open", NEW k \in 0 .. n - 1
        PROVE  RunsAt(k, Generic, "awaitChild")'
    <2>1. k \in Makers /\ k # i /\ RunsAt(k, Generic, "awaitChild")
      BY <1>2, <1>3, <1>4, <1>5 DEF SlotInv, SingleFlight
    <2> QED BY <1>1, <2>1, SlotFacts DEF RunsAt
  <1>6. orphans' \cap Makers = {}
    <2>1. \A j \in Children(i) : status[j] = "open" => j \notin Makers
      <3>1. CASE i \in Makers
        <4>1. i < i + 1
          BY <3>1, SlotFacts
        <4> QED BY <1>2, <3>1, <4>1, SlotFacts
      <3>2. CASE i \notin Makers
        BY <3>2, SlotFacts
      <3> QED BY <3>1, <3>2
    <2> QED BY <1>1, <2>1 DEF SlotInv, SingleFlight
  <1>7. SingleFlight'
    BY <1>4, <1>5, <1>6 DEF SlotInv, SingleFlight, Building
  <1>8. ASSUME NEW n \in Makers, status'[DeployerOf(n)] = "open", DeployerOf(n) \notin orphans'
        PROVE  RunsAt(n, Make, "launched")'
    <2>1. DeployerOf(n) # i /\ status[DeployerOf(n)] = "open" /\ DeployerOf(n) \notin orphans
      BY <1>1, <1>8, SlotFacts
    <2>2. n # i
      BY <1>1, <1>8, <2>1, SlotFacts
    <2> QED BY <1>1, <2>1, <2>2, SlotFacts DEF SlotInv, NoLostDeployment, RunsAt
  <1> QED BY <1>7, <1>8 DEF SlotInv, NoLostDeployment

\* The run in maker slot m opens: nobody is open there or below.
LEMMA SlotOpen ==
    ASSUME TypeOK, SlotInv, NEW m \in Makers, status' = [status EXCEPT ![m] = "open"],
           \A n \in Makers : m <= n => status[n] # "open",
           \A k \in 0 .. m - 1 : RunsAt(k, Generic, "awaitChild")', UNCHANGED orphans,
           \A n \in Makers : n # m => type'[n] = type[n] /\ (pc'[n] = pc[n] \/ m = n + 1)
    PROVE  SlotInv'
  <1>1. status'[m] = "open" /\ \A j \in Slots \ {m} : status'[j] = status[j]
    BY SlotFacts DEF TypeOK
  <1>2. \A n \in Makers : n \in Nat /\ \A k \in 0 .. n - 1 : k \in Makers
    BY PipelineAssumption DEF Makers
  <1>3. \A n \in Makers : status'[n] = "open" => n = m \/ n \in 0 .. m - 1
    BY <1>1, <1>2, SlotFacts
  <1>4. SingleFlight'
    <2>1. \A n \in Makers : n \in 0 .. m - 1 => ~Building(n)'
      BY DEF RunsAt, Building, Generic, Make
    <2>2. \A n \in Makers : Building(n)' => n = m
      BY <1>3, <2>1 DEF Building
    <2>3. \A n \in Makers : status'[n] = "open" =>
             \A k \in 0 .. n - 1 : RunsAt(k, Generic, "awaitChild")'
      BY <1>2, <1>3
    <2> QED BY <2>2, <2>3 DEF SlotInv, SingleFlight
  <1>5. ASSUME NEW n \in Makers, status'[DeployerOf(n)] = "open", DeployerOf(n) \notin orphans'
        PROVE  RunsAt(n, Make, "launched")'
    <2>1. RunsAt(n, Make, "launched")
      BY <1>1, <1>5, SlotFacts DEF SlotInv, NoLostDeployment
    <2>2. n # m
      BY <1>2, <2>1 DEF RunsAt
    <2>3. n \notin 0 .. m - 1
      <3> SUFFICES ASSUME n \in 0 .. m - 1 PROVE FALSE
        OBVIOUS
      <3>1. RunsAt(n, Generic, "awaitChild")'
        OBVIOUS
      <3> QED BY <2>1, <2>2, <3>1 DEF RunsAt, Generic, Make
    <2>4. n < m \/ m < n
      BY <1>2, <2>2
    <2> QED BY <1>2, <2>1, <2>2, <2>3, <2>4 DEF RunsAt
  <1> QED BY <1>4, <1>5 DEF SlotInv, NoLostDeployment

\* Every step of the pipeline keeps the book of open and orphaned executions.
LEMMA SlotNext == TypeOK /\ SlotInv /\ [Next]_vars => SlotInv'
  <1> SUFFICES ASSUME TypeOK, SlotInv, [Next]_vars PROVE SlotInv'
    OBVIOUS
  <1>1. ASSUME NEW c \in Commits, KickoffStarts(c) PROVE SlotInv'
    <2>1. \A n \in Makers : status[n] # "open"
      BY <1>1, TopIsOpen DEF KickoffStarts
    <2>2. /\ status' = [status EXCEPT ![Top] = "open"] /\ orphans' = orphans
          /\ \A n \in Makers : n # Top => type'[n] = type[n] /\ pc'[n] = pc[n]
      BY <1>1 DEF KickoffStarts, TypeOK
    <2>3. \A k : k \notin 0 .. Top - 1
      BY DEF Top
    <2> QED BY <2>1, <2>2, <2>3, SlotOpen, SlotFacts
  <1>2. ASSUME NEW m \in Makers, StartChild(m) PROVE SlotInv'
    <2>0. m \in Nat /\ m + 1 \in Makers /\ m # m + 1
      BY <1>2, SlotFacts DEF StartChild
    <2>1. \A n \in Makers : m + 1 <= n => status[n] # "open"
      <3>1. ~RunsAt(m, Generic, "awaitChild")
        BY <1>2 DEF StartChild, RunsAt
      <3>2. \A n \in Makers : m + 1 <= n => m < n
        BY <2>0, SlotFacts
      <3> QED BY <3>1, <3>2, NobodyBelow
    <2>2. /\ status' = [status EXCEPT ![m + 1] = "open"] /\ orphans' = orphans
          /\ \A n \in Makers : n # m + 1 => type'[n] = type[n]
          /\ \A n \in Makers : n # m + 1 /\ n # m => pc'[n] = pc[n]
          /\ pc'[m] = "awaitChild" /\ status'[m] = "open" /\ type'[m] = Generic
      BY <1>2, <2>0, SlotFacts DEF StartChild, RunsAt, TypeOK
    <2>3. ASSUME NEW k \in 0 .. m + 1 - 1 PROVE RunsAt(k, Generic, "awaitChild")'
      <3>1. CASE k = m
        BY <2>2, <3>1 DEF RunsAt
      <3>2. CASE k # m
        <4>1. k \in Makers /\ k \in 0 .. m - 1 /\ k # m + 1
          BY <2>0, <3>2, PipelineAssumption DEF Makers
        <4>2. RunsAt(k, Generic, "awaitChild")
          BY <1>2, <4>1 DEF StartChild, RunsAt, SlotInv, SingleFlight
        <4> QED BY <2>2, <3>2, <4>1, <4>2, SlotFacts DEF RunsAt, TypeOK
      <3> QED BY <3>1, <3>2
    <2>4. \A n \in Makers : n # m + 1 => pc'[n] = pc[n] \/ m + 1 = n + 1
      BY <2>2
    <2>5. PICK q \in Makers : q = m + 1
      BY <2>0
    <2>6. /\ status' = [status EXCEPT ![q] = "open"] /\ orphans' = orphans
          /\ \A n \in Makers : q <= n => status[n] # "open"
          /\ \A k \in 0 .. q - 1 : RunsAt(k, Generic, "awaitChild")'
      BY <2>1, <2>2, <2>3, <2>5
    <2>7. \A n \in Makers : n # q => type'[n] = type[n] /\ (pc'[n] = pc[n] \/ q = n + 1)
      BY <2>2, <2>4, <2>5
    <2> QED BY <2>6, <2>7, SlotOpen
  <1>3. ASSUME NEW m \in Makers, LaunchDeployer(m) PROVE SlotInv'
    <2>1. /\ pc'[m] = "launched" /\ status'[m] = "open" /\ type'[m] = Make
          /\ status' = [status EXCEPT ![DeployerOf(m)] = "open"]
          /\ UNCHANGED <<type, orphans>> /\ \A n \in Makers \ {m} : pc'[n] = pc[n]
      BY <1>3, SlotFacts DEF LaunchDeployer, RunsAt, Goto, TypeOK
    <2>2. \A n \in Makers : status'[n] = status[n]
      BY <2>1, SlotFacts DEF TypeOK
    <2>3. \A n \in Makers : Building(n)' <=> Building(n)
      BY <2>1, <2>2 DEF Building
    <2>4. \A n \in Makers : RunsAt(n, Generic, "awaitChild") => RunsAt(n, Generic, "awaitChild")'
      BY <2>1, <2>2 DEF RunsAt, Generic, Make
    <2>5. \A n \in Makers : \A k \in 0 .. n - 1 : k \in Makers
      BY PipelineAssumption DEF Makers
    <2>6. SingleFlight'
      BY <2>1, <2>2, <2>3, <2>4, <2>5 DEF SlotInv, SingleFlight
    <2>7. ASSUME NEW n \in Makers, status'[DeployerOf(n)] = "open", DeployerOf(n) \notin orphans'
          PROVE  RunsAt(n, Make, "launched")'
      <3>1. CASE n = m
        BY <2>1, <3>1 DEF RunsAt
      <3>2. CASE n # m
        <4>1. status[DeployerOf(n)] = "open"
          BY <2>1, <2>7, <3>2, SlotFacts DEF TypeOK
        <4> QED BY <2>1, <2>2, <2>7, <3>2, <4>1 DEF SlotInv, NoLostDeployment, RunsAt
      <3> QED BY <3>1, <3>2
    <2> QED BY <2>6, <2>7 DEF SlotInv, NoLostDeployment
  <1>4. ASSUME NEW m \in Makers, ChildCloses(m) PROVE SlotInv'
    <2>1. PICK how \in {"completed", "failed"} : Close(m, how)
      BY <1>4 DEF ChildCloses
    <2> QED BY <1>4, <2>1, SlotClose, SlotFacts DEF ChildCloses
  <1>5. ASSUME NEW m \in Makers, CreateSessionFails(m) \/ SessionFails(m) \/ DeployerIdTaken(m)
                                 \/ MakeCompletes(m)
        PROVE  SlotInv'
    <2>1. PICK how \in {"completed", "failed"} : Close(m, how)
      BY <1>5 DEF CreateSessionFails, SessionFails, DeployerIdTaken, MakeCompletes
    <2>2. ~RunsAt(m, Generic, "awaitChild") /\ UNCHANGED <<type, pc>>
      BY <1>5 DEF CreateSessionFails, SessionFails, DeployerIdTaken, MakeCompletes, RunsAt, Generic, Make
    <2> QED BY <2>1, <2>2, SlotClose, SlotFacts
  <1>6. ASSUME NEW i \in Slots, (i \in Deployers /\ Deployment(i)) \/ TerminateChild(i) PROVE SlotInv'
    <2>1. i \notin Makers
      BY <1>6, SlotFacts DEF TerminateChild, SlotInv, SingleFlight
    <2> QED BY <1>6, <2>1, SlotClose DEF Deployment, TerminateChild
  <1>7. ASSUME NEW m \in Makers, UpdateCache(m) \/ SyncRef(m) \/ DetermineSpecificBuildFlow(m)
                                 \/ CreateSession(m) \/ DownloadFromCacheActivity(m)
                                 \/ BuildActivity(m) \/ UploadActivity(m)
        PROVE  SlotInv'
    BY <1>7, SlotMove DEF UpdateCache, SyncRef, DetermineSpecificBuildFlow, CreateSession,
           DownloadFromCacheActivity, BuildActivity, UploadActivity, RunsAt, Goto, TypeOK
  <1>8. ASSUME \/ Push \/ OthersFetch \/ UNCHANGED vars
               \/ \E c \in Commits : KickoffAbsorbed(c) \/ KickoffLost(c) \/ OthersStore(c) \/ LateUpload(c)
               \/ \E m \in Makers : UploadAttemptTimesOut(m)
        PROVE  SlotInv'
    BY <1>8, SlotStill DEF Push, OthersFetch, vars, KickoffAbsorbed, KickoffLost, OthersStore,
           LateUpload, UploadAttemptTimesOut, runs
  <1> QED BY <1>1, <1>2, <1>3, <1>4, <1>5, <1>6, <1>7, <1>8, SlotFacts DEF Next

LEMMA SlotInit == Init => SlotInv
  BY SlotFacts DEF Init, SlotInv, SingleFlight, NoLostDeployment, Building, RunsAt

\* At most one build of the ref runs, and a child only below runs that await
\* it, however deep .vaelci.json nests them, under any kickoffs, failed syncs,
\* failed sessions, leftover processes and delayed terminations.
THEOREM SingleFlightCorrect == Spec => []SingleFlight
  <1>1. SlotInv => SingleFlight
    BY DEF SlotInv
  <1> QED BY <1>1, SlotInit, SlotNext, TypeCorrect, PTL DEF Spec

\* No Deployment is lost track of when workflow IDs are used again.
THEOREM NoLostDeploymentCorrect == Spec => []NoLostDeployment
  <1>1. SlotInv => NoLostDeployment
    BY DEF SlotInv
  <1> QED BY <1>1, SlotInit, SlotNext, TypeCorrect, PTL DEF Spec

-----------------------------------------------------------------------------
(* What has been pushed bounds what is fetched, built and published.       *)

LEMMA OrderInit == Init => OrderInv
  BY SlotFacts DEF Init, OrderInv, Building

LEMMA OrderNext == TypeOK /\ SlotInv /\ OrderInv /\ [Next]_vars => OrderInv'
  <1> SUFFICES ASSUME TypeOK, SlotInv, OrderInv, [Next]_vars PROVE OrderInv'
    OBVIOUS
  <1> USE PipelineAssumption, SlotFacts DEF Commits, Building, Built
  <1>1. CASE Push
    BY <1>1 DEF Push, OrderInv, TypeOK, disk, runs
  <1>2. ASSUME NEW c \in Commits, KickoffStarts(c) PROVE OrderInv'
    <2>1. PICK p \in KickPatterns : pc' = [pc EXCEPT ![Top] = FirstStep(p)]
      BY <1>2 DEF KickoffStarts
    <2>2. \A m \in Makers : pc'[m] \in {pc[m], "updateCache", "stuck"} /\ (m # Top => pc'[m] = pc[m])
      BY <2>1 DEF FirstStep, TypeOK
    <2>3. pc'[Top] \in {"updateCache", "stuck"}
      BY <2>1 DEF FirstStep, TypeOK
    <2>4. \A m \in Makers : Building(m)' /\ pc'[m] \in Built => Building(m) /\ pc[m] \in Built
      BY <1>2, <2>2, <2>3 DEF KickoffStarts, TypeOK
    <2> QED BY <1>2, <2>2, <2>4 DEF KickoffStarts, OrderInv, disk
  <1>3. ASSUME NEW c \in Commits, KickoffAbsorbed(c) \/ KickoffLost(c) PROVE OrderInv'
    BY <1>3 DEF KickoffAbsorbed, KickoffLost, OrderInv, disk, runs
  <1>4. CASE OthersFetch
    BY <1>4 DEF OthersFetch, OrderInv, TypeOK, ref, runs
  <1>5. ASSUME NEW c \in Commits, OthersStore(c) \/ LateUpload(c) PROVE OrderInv'
    <2>1. cached' <= head /\ published' <= head /\ fetching' \subseteq fetching
          /\ lateUploads' \subseteq lateUploads
      BY <1>5 DEF OthersStore, LateUpload, Store, OrderInv
    <2> QED BY <1>5, <2>1 DEF OthersStore, LateUpload, OrderInv, ref, runs
  <1>6. ASSUME NEW m \in Makers, UpdateCache(m) PROVE OrderInv'
    <2>1. /\ \A n \in Makers : got'[n] \in {got[n], head} /\ head <= head
          /\ \A n \in Makers : pc'[n] = pc[n] \/ pc'[n] = "syncStore"
      BY <1>6 DEF UpdateCache, Goto, TypeOK
    <2>2. \A n \in Makers : got'[n] <= head
      BY <2>1 DEF OrderInv, TypeOK
    <2> QED BY <1>6, <2>1, <2>2 DEF UpdateCache, OrderInv, ref, disk
  <1>7. ASSUME NEW m \in Makers, SyncRef(m) PROVE OrderInv'
    <2>1. cached' <= head
      BY <1>7 DEF SyncRef, Store, OrderInv
    <2>2. \A n \in Makers : pc'[n] \in {pc[n], "determine", "createSession"}
      BY <1>7 DEF SyncRef, Goto, TypeOK
    <2> QED BY <1>7, <2>1, <2>2 DEF SyncRef, OrderInv, ref
  <1>8. ASSUME NEW m \in Makers, DetermineSpecificBuildFlow(m) \/ CreateSession(m) PROVE OrderInv'
    <2>1. \A n \in Makers : pc'[n] \in {pc[n], "startChild", "download"}
      BY <1>8 DEF DetermineSpecificBuildFlow, CreateSession, Goto, TypeOK
    <2> QED BY <1>8, <2>1 DEF DetermineSpecificBuildFlow, CreateSession, OrderInv, ref, disk
  <1>9. ASSUME NEW m \in Makers, StartChild(m) PROVE OrderInv'
    <2>1. m + 1 \in Makers /\ m < MaxDepth /\ m # m + 1
      BY <1>9 DEF StartChild
    <2>2. /\ \A n \in Makers : n # m /\ n # m + 1 => pc'[n] = pc[n]
          /\ pc'[m + 1] \in {"updateCache", "stuck"} /\ pc'[m] = "awaitChild"
      BY <1>9, <2>1 DEF StartChild, FirstStep, TypeOK
    <2>3. \A n \in Makers : n # m + 1 => status'[n] = status[n] /\ type'[n] = type[n]
      BY <1>9, <2>1 DEF StartChild, TypeOK
    <2>4. \A n \in Makers : Building(n)' /\ pc'[n] \in Built => Building(n) /\ pc[n] \in Built
      BY <2>2, <2>3
    <2>5. \A n \in Makers : pc'[n] = "awaitChild" => n < MaxDepth
      BY <2>1, <2>2 DEF OrderInv
    <2> QED BY <1>9, <2>4, <2>5 DEF StartChild, OrderInv, ref, disk
  <1>10. ASSUME NEW i \in Slots, NEW how \in {"completed", "failed", "terminated"}, Close(i, how),
                UNCHANGED <<ref, disk, type, pc, pattern, got, tree, want, trouble>>
         PROVE  OrderInv'
    <2>1. \A n \in Makers : status'[n] = "open" => status[n] = "open"
      BY <1>10 DEF Close, TypeOK
    <2> QED BY <1>10, <2>1 DEF OrderInv, ref, disk
  <1>11. ASSUME NEW m \in Makers, DownloadFromCacheActivity(m) PROVE OrderInv'
    <2>1. /\ \A n \in Makers : n # m => tree'[n] = tree[n] /\ pc'[n] = pc[n]
          /\ tree'[m] = cached /\ pc'[m] = "build" /\ cached >= 1
      BY <1>11 DEF DownloadFromCacheActivity, Goto, TypeOK
    <2> QED BY <1>11, <2>1 DEF DownloadFromCacheActivity, OrderInv, ref, disk
  <1>12. ASSUME NEW m \in Makers, BuildActivity(m) PROVE OrderInv'
    <2>1. \A n \in Makers : pc'[n] = pc[n] \/ (n = m /\ pc[m] = "build" /\ pc'[m] = "upload")
      BY <1>12 DEF BuildActivity, Goto, RunsAt, TypeOK
    <2> QED BY <1>12, <2>1 DEF BuildActivity, OrderInv, ref, disk
  <1>13. ASSUME NEW m \in Makers, UploadActivity(m) PROVE OrderInv'
    <2>1. \A n \in Makers : pc'[n] = pc[n] \/ (n = m /\ pc[m] = "upload" /\ pc'[m] = "startDeployer")
      <3>1. pc' = [pc EXCEPT ![m] = "startDeployer"] \/ pc' = pc
        BY <1>13 DEF UploadActivity, Goto
      <3> QED BY <1>13, <3>1 DEF UploadActivity, RunsAt, TypeOK
    <2> QED BY <1>13, <2>1 DEF UploadActivity, OrderInv, ref
  <1>14. ASSUME NEW m \in Makers, UploadAttemptTimesOut(m) PROVE OrderInv'
    <2>1. lateUploads' = lateUploads \cup {tree[m]} /\ tree[m] <= head /\ tree[m] >= 1
      BY <1>14 DEF UploadAttemptTimesOut, RunsAt, OrderInv
    <2> QED BY <1>14, <2>1 DEF UploadAttemptTimesOut, OrderInv, ref, runs
  <1>15. ASSUME NEW m \in Makers, LaunchDeployer(m) PROVE OrderInv'
    <2>1. /\ \A n \in Makers : pc'[n] = pc[n] \/ (n = m /\ pc[m] = "startDeployer" /\ pc'[m] = "launched")
          /\ \A n \in Makers : status'[n] = status[n]
      BY <1>15 DEF LaunchDeployer, Goto, RunsAt, TypeOK
    <2> QED BY <1>15, <2>1 DEF LaunchDeployer, OrderInv, ref, disk
  <1>16. CASE UNCHANGED vars
    BY <1>16 DEF OrderInv, vars
  <1>17. ASSUME NEW m \in Makers, ChildCloses(m) \/ CreateSessionFails(m) \/ SessionFails(m)
                                  \/ DeployerIdTaken(m) \/ MakeCompletes(m)
         PROVE  OrderInv'
    BY <1>10, <1>17 DEF ChildCloses, CreateSessionFails, SessionFails, DeployerIdTaken, MakeCompletes
  <1>18. ASSUME NEW i \in Slots, (i \in Deployers /\ Deployment(i)) \/ TerminateChild(i) PROVE OrderInv'
    BY <1>10, <1>18 DEF Deployment, TerminateChild
  <1> QED BY <1>1, <1>2, <1>3, <1>4, <1>5, <1>6, <1>7, <1>8, <1>9, <1>11, <1>12, <1>13,
             <1>14, <1>15, <1>16, <1>17, <1>18 DEF Next

-----------------------------------------------------------------------------
(* What a run that was not misled carries on with.                         *)

\* While one maker is at work, the others that are open await a child.
LEMMA OthersAwait ==
    ASSUME TypeOK, SlotInv, NEW m \in Makers, status[m] = "open", ~RunsAt(m, Generic, "awaitChild"),
           NEW n \in Makers, n # m, status[n] = "open"
    PROVE  RunsAt(n, Generic, "awaitChild")
  <1>1. ~(m < n)
    BY NobodyBelow
  <1>2. n \in 0 .. m - 1
    BY <1>1, PipelineAssumption DEF Makers
  <1> QED BY <1>2 DEF SlotInv, SingleFlight

\* A step that fetches, uploads and publishes nothing, and takes one maker m
\* to a step for which it has what it needs.
LEMMA FreshMove ==
    ASSUME TypeOK, FreshInv, UNCHANGED <<published, lateUploads, cached, want, trouble>>,
           NEW m \in Makers, \A n \in Makers \ {m} : /\ status'[n] = "open" => status[n] = "open"
                                                     /\ UNCHANGED <<type[n], pc[n], got[n], tree[n]>>,
           ~Misled /\ status'[m] = "open" => Fresh(m)'
    PROVE  FreshInv'
  <1> SUFFICES ASSUME ~Misled', NEW n \in Makers, status'[n] = "open" PROVE Fresh(n)'
    BY DEF FreshInv
  <1>1. ~Misled
    BY DEF Misled
  <1>2. CASE n = m
    BY <1>1, <1>2
  <1>3. CASE n # m
    BY <1>1, <1>3 DEF FreshInv, Fresh, Covers
  <1> QED BY <1>2, <1>3

LEMMA FreshInit == Init => FreshInv
  BY SlotFacts DEF Init, FreshInv

LEMMA FreshNext == TypeOK /\ SlotInv /\ OrderInv /\ FreshInv /\ [Next]_vars => FreshInv'
  <1> SUFFICES ASSUME TypeOK, SlotInv, OrderInv, FreshInv, [Next]_vars PROVE FreshInv'
    OBVIOUS
  <1> USE SlotFacts
  <1>1. ASSUME UNCHANGED <<published, lateUploads, cached, want, status, type, pc, got, tree, trouble>>
        PROVE  FreshInv'
    BY <1>1 DEF FreshInv, Fresh, Covers, Misled
  <1>2. ASSUME NEW c \in Commits, KickoffStarts(c) PROVE FreshInv'
    <2>1. \A n \in Makers : n # Top => status'[n] # "open"
      BY <1>2, TopIsOpen DEF KickoffStarts, TypeOK
    <2>2. pc'[Top] \in {"updateCache", "stuck"}
      BY <1>2 DEF KickoffStarts, FirstStep, TypeOK
    <2>3. Fresh(Top)'
      BY <2>2 DEF Fresh, Synced, Uploaded
    <2> QED BY <2>1, <2>3 DEF FreshInv
  <1>3. ASSUME NEW c \in Commits, OthersStore(c) PROVE FreshInv'
    <2> SUFFICES ASSUME ~Misled', NEW n \in Makers, status'[n] = "open" PROVE Fresh(n)'
      BY DEF FreshInv
    <2>1. status[n] = "open" /\ status[Top] = "open" /\ UNCHANGED <<published, lateUploads, want>>
      BY <1>3, TopIsOpen DEF OthersStore, runs
    <2>2. cached' >= cached /\ cached' \in Nat /\ ~Misled
      BY <1>3, <2>1 DEF OthersStore, Store, Misled, TypeOK, Commits
    <2>3. Fresh(n)
      BY <2>1, <2>2 DEF FreshInv
    <2>4. Covers(cached) => Covers(cached)'
      BY <2>1, <2>2 DEF Covers, TypeOK
    <2>5. tree[n] <= cached => tree[n] <= cached'
      BY <2>2 DEF TypeOK
    <2> QED BY <1>3, <2>1, <2>3, <2>4, <2>5 DEF Fresh, Covers, OthersStore, runs
  <1>4. ASSUME NEW c \in Commits, LateUpload(c) PROVE FreshInv'
    <2>1. /\ lateUploads' \subseteq lateUploads /\ c \in lateUploads /\ published' \in {c, published}
          /\ UNCHANGED <<cached, want, status, type, pc, got, tree>>
      BY <1>4 DEF LateUpload, runs
    <2>2. ~Misled' => ~Misled
      BY <1>4 DEF LateUpload, Misled
    <2>3. Covers(cached) => Covers(cached)'
      BY <2>1 DEF Covers
    <2>4. \A n \in Makers : /\ Covers(got[n]) => Covers(got[n])'
                            /\ Covers(tree[n]) => Covers(tree[n])'
      BY <2>1 DEF Covers
    <2> QED BY <2>1, <2>2, <2>3, <2>4 DEF FreshInv, Fresh
  <1>5. ASSUME NEW m \in Makers, UpdateCache(m) PROVE FreshInv'
    <2>1. /\ got'[m] = head /\ pc'[m] = "syncStore"
          /\ \A n \in Makers \ {m} : got'[n] = got[n] /\ pc'[n] = pc[n]
          /\ UNCHANGED <<published, lateUploads, cached, want, status, type, tree, trouble>>
      BY <1>5 DEF UpdateCache, Goto, TypeOK, disk
    <2>2. Covers(head)
      BY DEF Covers, OrderInv
    <2>3. Fresh(m)'
      BY <2>1, <2>2 DEF Fresh, Covers, Synced, Uploaded
    <2> QED BY <2>1, <2>3, FreshMove
  <1>6. ASSUME NEW m \in Makers, SyncRef(m) PROVE FreshInv'
    <2> SUFFICES ASSUME ~Misled', NEW n \in Makers, status'[n] = "open" PROVE Fresh(n)'
      BY DEF FreshInv
    <2>1. /\ status[m] = "open" /\ status[n] = "open" /\ pc[m] = "syncStore" /\ status[Top] = "open"
          /\ UNCHANGED <<published, lateUploads, want, got, tree, type>>
      BY <1>6, TopIsOpen DEF SyncRef
    <2>2. cached' = got[m] /\ cached' >= cached /\ ~Misled
      BY <1>6, <2>1 DEF SyncRef, Store, Misled, TypeOK
    <2>3. Covers(got[m]) /\ Fresh(n)
      BY <2>1, <2>2 DEF FreshInv, Fresh
    <2>4. Covers(cached)'
      BY <2>1, <2>2, <2>3 DEF Covers
    <2>5. /\ pc'[m] \in {"determine", "createSession"} /\ (n # m => pc'[n] = pc[n])
      BY <1>6 DEF SyncRef, Goto, TypeOK
    <2>6. tree[n] <= cached => tree[n] <= cached'
      BY <2>2 DEF TypeOK
    <2>7. CASE n = m
      BY <2>4, <2>5, <2>7 DEF Fresh, Uploaded
    <2>8. CASE n # m
      BY <2>1, <2>3, <2>4, <2>5, <2>6, <2>8 DEF Fresh, Covers
    <2> QED BY <2>7, <2>8
  <1>7. ASSUME NEW m \in Makers,
               \/ DetermineSpecificBuildFlow(m) \/ CreateSession(m) \/ BuildActivity(m) \/ LaunchDeployer(m)
        PROVE  FreshInv'
    <2>1. /\ pc[m] \in Synced /\ status[m] = "open"
          /\ \/ pc'[m] \in {"startChild", "download"}
             \/ pc[m] = "build" /\ pc'[m] = "upload"
             \/ pc[m] = "startDeployer" /\ pc'[m] = "launched"
          /\ \A n \in Makers \ {m} : pc'[n] = pc[n]
          /\ UNCHANGED <<published, lateUploads, cached, want, type, got, tree, trouble>>
      BY <1>7 DEF DetermineSpecificBuildFlow, CreateSession, BuildActivity, LaunchDeployer, RunsAt, Goto,
             TypeOK, disk, Synced, Steps
    <2>2. \A n \in Makers : status'[n] = status[n]
      BY <1>7 DEF DetermineSpecificBuildFlow, CreateSession, BuildActivity, LaunchDeployer, TypeOK
    <2>3. ~Misled => Fresh(m)'
      BY <2>1 DEF FreshInv, Fresh, Covers, Synced, Uploaded, Steps
    <2> QED BY <2>1, <2>2, <2>3, FreshMove
  <1>8. ASSUME NEW m \in Makers, StartChild(m) PROVE FreshInv'
    <2>1. /\ m + 1 \in Makers /\ m # m + 1 /\ status[m] = "open" /\ type[m] = Generic /\ type'[m] = Generic
          /\ pc[m] = "startChild" /\ pc'[m] = "awaitChild" /\ pc'[m + 1] \in {"updateCache", "stuck"}
          /\ \A n \in Makers : n # m + 1 => status'[n] = status[n] /\ type'[n] = type[n]
          /\ \A n \in Makers : n # m /\ n # m + 1 => pc'[n] = pc[n]
          /\ UNCHANGED <<published, lateUploads, cached, want, got, tree, trouble>>
      BY <1>8 DEF StartChild, RunsAt, FirstStep, TypeOK, disk
    <2> SUFFICES ASSUME ~Misled', NEW n \in Makers, status'[n] = "open" PROVE Fresh(n)'
      BY DEF FreshInv
    <2>2. ~Misled
      BY <2>1 DEF Misled
    <2>3. CASE n = m + 1
      BY <2>1, <2>3 DEF Fresh, Synced, Uploaded
    <2>4. CASE n = m
      BY <2>1, <2>2, <2>4 DEF FreshInv, Fresh, Covers, Synced, Uploaded, Steps, Generic, Make
    <2>5. CASE n # m /\ n # m + 1
      BY <2>1, <2>2, <2>5 DEF FreshInv, Fresh, Covers
    <2> QED BY <2>3, <2>4, <2>5
  <1>9. ASSUME NEW i \in Slots, NEW how \in {"completed", "failed", "terminated"}, Close(i, how),
               UNCHANGED <<ref, disk, type, pc, pattern, got, tree, want, trouble>>
        PROVE  FreshInv'
    <2>1. \A n \in Makers : status'[n] = "open" => status[n] = "open"
      BY <1>9 DEF Close, TypeOK
    <2> QED BY <1>9, <2>1 DEF FreshInv, Fresh, Covers, Misled, disk
  <1>10. ASSUME NEW m \in Makers, DownloadFromCacheActivity(m) PROVE FreshInv'
    <2>1. /\ pc[m] = "download" /\ status[m] = "open" /\ pc'[m] = "build" /\ tree'[m] = cached
          /\ \A n \in Makers \ {m} : pc'[n] = pc[n] /\ tree'[n] = tree[n]
          /\ UNCHANGED <<published, lateUploads, cached, want, status, type, got, trouble>>
      BY <1>10 DEF DownloadFromCacheActivity, RunsAt, Goto, TypeOK, disk
    <2>2. ~Misled => Covers(cached)
      BY <2>1 DEF FreshInv, Fresh, Synced, Steps
    <2>3. ~Misled => Fresh(m)'
      BY <2>1, <2>2 DEF Fresh, Covers, Uploaded, TypeOK
    <2> QED BY <2>1, <2>3, FreshMove
  <1>11. ASSUME NEW m \in Makers, UploadActivity(m) \/ UploadAttemptTimesOut(m) PROVE FreshInv'
    <2> SUFFICES ASSUME ~Misled', NEW n \in Makers, status'[n] = "open" PROVE Fresh(n)'
      BY DEF FreshInv
    <2>1. /\ RunsAt(m, Make, "upload") /\ status[n] = "open"
          /\ published' \in {tree[m], published} /\ lateUploads' \subseteq lateUploads \cup {tree[m]}
          /\ UNCHANGED <<cached, want, status, type, got, tree, trouble>>
          /\ \A k \in Makers \ {m} : pc'[k] = pc[k]
      BY <1>11 DEF UploadActivity, UploadAttemptTimesOut, RunsAt, Goto, TypeOK, runs
    <2>2. pc'[m] \in {"upload", "startDeployer"}
      <3>1. pc' = pc \/ pc' = [pc EXCEPT ![m] = "startDeployer"]
        BY <1>11 DEF UploadActivity, UploadAttemptTimesOut, Goto, runs
      <3> QED BY <2>1, <3>1 DEF RunsAt, TypeOK
    <2>3. ~Misled
      BY <2>1 DEF Misled
    <2>4. Covers(tree[m]) /\ tree[m] <= cached /\ Covers(cached)
      BY <2>1, <2>3 DEF RunsAt, FreshInv, Fresh, Synced, Steps
    <2>5. \A x : Covers(x) /\ tree[m] <= x => (want <= x /\ published' <= x /\ \A c \in lateUploads' : c <= x)
      BY <2>1 DEF Covers
    <2>6. tree[m] <= tree[m]
      BY DEF TypeOK
    <2>7. Covers(cached)' /\ Covers(tree[m])'
      BY <2>1, <2>4, <2>5, <2>6 DEF Covers
    <2>8. CASE n = m
      BY <2>1, <2>2, <2>4, <2>7, <2>8 DEF Fresh, Covers
    <2>9. CASE n # m
      <3>1. RunsAt(n, Generic, "awaitChild")
        BY <2>1, <2>9, OthersAwait DEF RunsAt, Generic, Make
      <3> QED BY <2>1, <2>7, <2>9, <3>1 DEF RunsAt, Fresh, Uploaded, Generic, Make
    <2> QED BY <2>8, <2>9
  <1>12. CASE Push
    BY <1>1, <1>12 DEF Push, disk, runs
  <1>13. ASSUME NEW c \in Commits, KickoffAbsorbed(c) \/ KickoffLost(c) PROVE FreshInv'
    BY <1>1, <1>13 DEF KickoffAbsorbed, KickoffLost, disk, runs
  <1>14. CASE OthersFetch
    BY <1>1, <1>14 DEF OthersFetch, runs
  <1>15. ASSUME NEW m \in Makers, ChildCloses(m) \/ CreateSessionFails(m) \/ SessionFails(m)
                                  \/ DeployerIdTaken(m) \/ MakeCompletes(m)
         PROVE  FreshInv'
    BY <1>9, <1>15 DEF ChildCloses, CreateSessionFails, SessionFails, DeployerIdTaken, MakeCompletes
  <1>16. ASSUME NEW i \in Slots, (i \in Deployers /\ Deployment(i)) \/ TerminateChild(i) PROVE FreshInv'
    BY <1>9, <1>16 DEF Deployment, TerminateChild
  <1>17. CASE UNCHANGED vars
    BY <1>1, <1>17 DEF vars
  <1> QED BY <1>2, <1>3, <1>4, <1>5, <1>6, <1>7, <1>8, <1>10, <1>11, <1>12, <1>13,
             <1>14, <1>15, <1>16, <1>17 DEF Next

\* Everything of the above at once.
PipelineInv == TypeOK /\ SlotInv /\ OrderInv /\ FreshInv

LEMMA PipelineInvCorrect == Spec => []PipelineInv
  <1>1. Init => PipelineInv
    BY InitType, SlotInit, OrderInit, FreshInit DEF PipelineInv
  <1>2. PipelineInv /\ [Next]_vars => PipelineInv'
    BY NextType, SlotNext, OrderNext, FreshNext DEF PipelineInv
  <1> QED BY <1>1, <1>2, PTL DEF Spec

\* A run builds and uploads nothing older than the commit whose kickoff opened
\* it, unless one of its own syncs failed or a fetch that had read earlier put
\* an older commit back: whatever the order of pushes, kickoffs, fetches,
\* retries, leftover uploads, failures and nested children.
THEOREM FreshBuildCorrect == Spec => []FreshBuild
  <1>1. PipelineInv => FreshBuild
    <2> SUFFICES ASSUME PipelineInv, NEW m \in Makers, Building(m), pc[m] \in Built, tree[m] < want
                 PROVE  Misled
      BY DEF FreshBuild
    <2>1. Fresh(m) => want <= tree[m]
      BY DEF Building, Fresh, Built, Uploaded, Covers
    <2> QED BY <2>1 DEF PipelineInv, TypeOK, FreshInv, Building
  <1> QED BY <1>1, PipelineInvCorrect, PTL

\* What is published goes back only through an upload given up before or in a
\* run that was misled, never just by the order of things.
THEOREM PublishedMonotonicCorrect == Spec => PublishedMonotonic
  <1>1. ASSUME PipelineInv, [Next]_vars
        PROVE  [published' < published => lateUploads' # lateUploads \/ Misled]_published
    <2> SUFFICES ASSUME published' # published, published' < published, ~Misled
                 PROVE  lateUploads' # lateUploads
      OBVIOUS
    <2>1. CASE \E m \in Makers : UploadActivity(m)
      <3>1. PICK m \in Makers : UploadActivity(m)
        BY <2>1
      <3>2. Covers(tree[m]) /\ published' = tree[m]
        BY <1>1, <3>1 DEF PipelineInv, FreshInv, Fresh, UploadActivity, RunsAt
      <3> QED BY <1>1, <3>2 DEF Covers, PipelineInv, TypeOK
    <2>2. CASE \E c \in Commits : LateUpload(c)
      BY <2>2 DEF LateUpload
    <2>3. CASE ~(\E m \in Makers : UploadActivity(m)) /\ ~(\E c \in Commits : LateUpload(c))
      BY <1>1, <2>3 DEF Next, vars, Push, KickoffStarts, KickoffAbsorbed, KickoffLost, OthersFetch,
             OthersStore, UpdateCache, SyncRef, DetermineSpecificBuildFlow, StartChild, ChildCloses,
             CreateSession, CreateSessionFails, DownloadFromCacheActivity, BuildActivity,
             UploadAttemptTimesOut, SessionFails, LaunchDeployer, DeployerIdTaken, MakeCompletes,
             Deployment, TerminateChild, disk, runs
    <2> QED BY <2>1, <2>2, <2>3
  <1> QED BY <1>1, PipelineInvCorrect, PTL DEF Spec, PublishedMonotonic

-----------------------------------------------------------------------------
(* What a run that completes has published.                                *)

LEMMA CompletedInit == Init => CompletedInv
  BY SlotFacts DEF Init, CompletedInv, Building, RunsAt

\* A step that closes nothing, and takes no maker past an upload or to a child.
LEMMA CompletedMove ==
    ASSUME PipelineInv, CompletedInv, UNCHANGED <<published, want, status, type>>,
           trouble' = {} => trouble = {},
           \A n \in Makers : \/ pc'[n] = pc[n]
                             \/ pc'[n] \notin Uploaded \cup {"awaitChild"}
                             \/ pc[n] \in Uploaded /\ pc'[n] \in Uploaded
    PROVE  CompletedInv'
  <1>1. \A n \in Makers : Building(n)' /\ pc'[n] \in Uploaded => Building(n) /\ pc[n] \in Uploaded
    BY DEF Building, Uploaded
  <1>2. \A n \in Makers : RunsAt(n, Generic, "awaitChild")' => RunsAt(n, Generic, "awaitChild")
    BY DEF RunsAt, Uploaded
  <1> QED BY <1>1, <1>2 DEF CompletedInv

\* An execution closes, completed only if what its run is for has been published.
LEMMA CompletedClose ==
    ASSUME PipelineInv, CompletedInv, NEW i \in Slots, NEW how \in {"completed", "failed", "terminated"},
           Close(i, how), UNCHANGED <<published, want, trouble, type, pc>>,
           i \in Makers /\ how = "completed" /\ trouble = {} => published >= want
    PROVE  CompletedInv'
  <1>1. status'[i] = how /\ \A j \in Slots \ {i} : status'[j] = status[j]
    BY DEF Close, PipelineInv, TypeOK
  <1> SUFFICES ASSUME trouble = {} PROVE CompletedInv'
    BY DEF CompletedInv
  <1>2. \A n \in Makers : Building(n)' => Building(n)
    BY <1>1, SlotFacts DEF Building
  <1>3. ASSUME NEW n \in Makers, RunsAt(n, Generic, "awaitChild")', status'[n + 1] = "completed"
        PROVE  published >= want
    <2>1. RunsAt(n, Generic, "awaitChild") /\ n + 1 \in Makers
      BY <1>1, <1>3, SlotFacts DEF RunsAt, PipelineInv, OrderInv
    <2> QED BY <1>1, <1>3, <2>1, SlotFacts DEF CompletedInv
  <1>4. status'[Top] = "completed" => published >= want
    BY <1>1, SlotFacts DEF CompletedInv
  <1> QED BY <1>2, <1>3, <1>4 DEF CompletedInv

LEMMA CompletedNext == PipelineInv /\ CompletedInv /\ [Next]_vars => CompletedInv'
  <1> SUFFICES ASSUME PipelineInv, TypeOK, CompletedInv, [Next]_vars PROVE CompletedInv'
    BY DEF PipelineInv
  <1> USE SlotFacts
  <1>1. ASSUME NEW c \in Commits, KickoffStarts(c) PROVE CompletedInv'
    <2>1. \A n \in Makers : n # Top => status'[n] # "open"
      BY <1>1, TopIsOpen DEF KickoffStarts, PipelineInv, TypeOK
    <2>2. pc'[Top] \in {"updateCache", "stuck"} /\ status'[Top] = "open"
      BY <1>1 DEF KickoffStarts, FirstStep, TypeOK
    <2> QED BY <2>1, <2>2 DEF CompletedInv, Building, RunsAt, Uploaded
  <1>2. CASE UNCHANGED <<published, want, status, type, pc, trouble>>
    BY <1>2, CompletedMove
  <1>3. ASSUME NEW c \in Commits, OthersStore(c) PROVE CompletedInv'
    <2>1. trouble' = {} => trouble = {}
      BY <1>3 DEF OthersStore, Store
    <2> QED BY <1>3, <2>1, CompletedMove DEF OthersStore, runs
  <1>4. ASSUME NEW c \in Commits, LateUpload(c) PROVE CompletedInv'
    <2>1. trouble' = {} => trouble = {} /\ ~(published' < published)
      BY <1>4 DEF LateUpload
    <2>2. published' \in Nat
      BY <1>4, PipelineAssumption DEF LateUpload, TypeOK, Commits
    <2>3. trouble' = {} /\ published >= want => published' >= want
      BY <2>1, <2>2 DEF TypeOK
    <2> QED BY <1>4, <2>1, <2>3 DEF LateUpload, runs, CompletedInv, Building, RunsAt
  <1>5. ASSUME NEW m \in Makers, UpdateCache(m) \/ SyncRef(m) \/ DetermineSpecificBuildFlow(m)
                                 \/ CreateSession(m) \/ DownloadFromCacheActivity(m) \/ BuildActivity(m)
        PROVE  CompletedInv'
    <2>1. UNCHANGED <<published, want, status, type>>
      BY <1>5 DEF UpdateCache, SyncRef, DetermineSpecificBuildFlow, CreateSession,
             DownloadFromCacheActivity, BuildActivity, disk
    <2>2. trouble' = {} => trouble = {}
      BY <1>5 DEF UpdateCache, SyncRef, Store, DetermineSpecificBuildFlow, CreateSession,
             DownloadFromCacheActivity, BuildActivity
    <2>3. \A n \in Makers : \/ pc'[n] = pc[n]
                            \/ pc'[n] \in {"syncStore", "determine", "createSession", "startChild",
                                           "download", "build", "upload"}
      BY <1>5 DEF UpdateCache, SyncRef, DetermineSpecificBuildFlow, CreateSession,
             DownloadFromCacheActivity, BuildActivity, Goto, TypeOK
    <2> QED BY <2>1, <2>2, <2>3, CompletedMove DEF Uploaded
  <1>6. ASSUME NEW m \in Makers, StartChild(m) PROVE CompletedInv'
    <2>1. /\ m + 1 \in Makers /\ m # m + 1 /\ status[m] = "open"
          /\ pc'[m] = "awaitChild" /\ pc'[m + 1] \in {"updateCache", "stuck"} /\ status'[m + 1] = "open"
          /\ \A n \in Makers : n # m + 1 => status'[n] = status[n] /\ type'[n] = type[n]
          /\ \A n \in Makers : n # m /\ n # m + 1 => pc'[n] = pc[n]
          /\ UNCHANGED <<published, want, trouble>>
      BY <1>6 DEF StartChild, RunsAt, FirstStep, TypeOK, disk
    <2>2. \A n \in Makers : Building(n)' /\ pc'[n] \in Uploaded => Building(n) /\ pc[n] \in Uploaded
      BY <2>1 DEF Building, Uploaded
    <2>3. ASSUME NEW n \in Makers, RunsAt(n, Generic, "awaitChild")', status'[n + 1] = "completed"
          PROVE  RunsAt(n, Generic, "awaitChild") /\ status[n + 1] = "completed"
      <3>1. n # m /\ n # m + 1
        BY <2>1, <2>3 DEF RunsAt
      <3>2. RunsAt(n, Generic, "awaitChild")
        BY <2>1, <2>3, <3>1 DEF RunsAt
      <3>3. n + 1 \in Makers /\ n + 1 # m + 1
        BY <3>1, <3>2 DEF PipelineInv, OrderInv, RunsAt
      <3> QED BY <2>1, <2>3, <3>2, <3>3
    <2>4. status'[Top] = "completed" => status[Top] = "completed"
      BY <2>1
    <2> QED BY <2>1, <2>2, <2>3, <2>4 DEF CompletedInv
  <1>7. ASSUME NEW m \in Makers, ChildCloses(m) PROVE CompletedInv'
    <2>1. PICK how \in {"completed", "failed"} :
             Close(m, how) /\ (how = "completed" => status[m + 1] = "completed")
      BY <1>7 DEF ChildCloses
    <2> QED BY <1>7, <2>1, CompletedClose DEF ChildCloses, CompletedInv, disk
  <1>8. ASSUME NEW m \in Makers, CreateSessionFails(m) \/ SessionFails(m) \/ DeployerIdTaken(m)
        PROVE  CompletedInv'
    BY <1>8, CompletedClose DEF CreateSessionFails, SessionFails, DeployerIdTaken, disk
  <1>9. ASSUME NEW m \in Makers, MakeCompletes(m) PROVE CompletedInv'
    BY <1>9, CompletedClose DEF MakeCompletes, CompletedInv, Building, RunsAt, Uploaded, disk
  <1>10. ASSUME NEW m \in Makers, UploadActivity(m) PROVE CompletedInv'
    <2>1. published' = tree[m] /\ UNCHANGED <<want, status, type, trouble>>
      BY <1>10 DEF UploadActivity
    <2>2. trouble = {} => published' >= want
      BY <1>10, <2>1 DEF UploadActivity, RunsAt, PipelineInv, FreshInv, Fresh, Misled, Covers, TypeOK
    <2> QED BY <2>1, <2>2 DEF CompletedInv
  <1>11. ASSUME NEW m \in Makers, UploadAttemptTimesOut(m) PROVE CompletedInv'
    BY <1>2, <1>11 DEF UploadAttemptTimesOut, runs
  <1>12. ASSUME NEW m \in Makers, LaunchDeployer(m) PROVE CompletedInv'
    <2>1. /\ UNCHANGED <<published, want, type, trouble>>
          /\ \A n \in Makers : status'[n] = status[n]
          /\ \A n \in Makers : pc'[n] = pc[n] \/ (pc[n] = "startDeployer" /\ pc'[n] = "launched")
      BY <1>12 DEF LaunchDeployer, RunsAt, Goto, TypeOK, disk
    <2>2. \A n \in Makers : Building(n)' /\ pc'[n] \in Uploaded => Building(n) /\ pc[n] \in Uploaded
      BY <2>1 DEF Building, Uploaded
    <2>3. ASSUME NEW n \in Makers, RunsAt(n, Generic, "awaitChild")'
          PROVE  RunsAt(n, Generic, "awaitChild") /\ status'[n + 1] = status[n + 1]
      BY <2>1, <2>3 DEF RunsAt, PipelineInv, OrderInv
    <2> QED BY <2>1, <2>2, <2>3 DEF CompletedInv
  <1>13. ASSUME NEW i \in Slots, (i \in Deployers /\ Deployment(i)) \/ TerminateChild(i) PROVE CompletedInv'
    BY <1>13, CompletedClose DEF Deployment, TerminateChild, disk
  <1>14. CASE Push
    BY <1>2, <1>14 DEF Push, disk, runs
  <1>15. ASSUME NEW c \in Commits, KickoffAbsorbed(c) \/ KickoffLost(c) PROVE CompletedInv'
    BY <1>2, <1>15 DEF KickoffAbsorbed, KickoffLost, disk, runs
  <1>16. CASE OthersFetch
    BY <1>2, <1>16 DEF OthersFetch, runs
  <1>17. CASE UNCHANGED vars
    BY <1>2, <1>17 DEF vars
  <1> QED BY <1>1, <1>3, <1>4, <1>5, <1>6, <1>7, <1>8, <1>9, <1>10, <1>11, <1>12, <1>13,
             <1>14, <1>15, <1>16, <1>17 DEF Next

LEMMA CompletedInvCorrect == Spec => [](PipelineInv /\ CompletedInv)
  BY PipelineInvCorrect, CompletedInit, CompletedNext, PTL DEF Spec

\* A kickoff's run completes only when its commit or a newer one has been
\* published, through any depth of children, unless the run got into trouble.
THEOREM CompletedIsPublishedCorrect == Spec => []CompletedIsPublished
  <1>1. CompletedInv => CompletedIsPublished
    BY DEF CompletedInv, CompletedIsPublished
  <1> QED BY <1>1, CompletedInvCorrect, PTL

-----------------------------------------------------------------------------
(* The pipeline implements RefBuild.                                       *)

LEMMA InitRefines == Init => Abstract!Init
  BY SlotFacts DEF Init, Abstract!Init

LEMMA CloseRefines ==
    ASSUME PipelineInv, (PipelineInv /\ CompletedInv)', NEW i \in Slots,
           NEW how \in {"completed", "failed", "terminated"}, status[i] = "open", Close(i, how),
           UNCHANGED <<ref, disk, type, pc, pattern, got, tree, want, trouble>>
    PROVE  [Abstract!Next]_Abstract!vars
  <1>1. CASE i = Top
    <2>1. status[Top] = "open" /\ status'[Top] # "open"
      BY <1>1, SlotFacts DEF Close, PipelineInv, TypeOK
    <2>2. status'[Top] = "completed" => published >= want \/ trouble # {}
      BY DEF CompletedInv, disk
    <2> QED BY <2>1, <2>2 DEF Abstract!Next, Abstract!Finish, ref, disk
  <1>2. CASE i # Top
    <2>1. status'[Top] = status[Top]
      BY <1>2, SlotFacts DEF Close, PipelineInv, TypeOK
    <2> QED BY <2>1 DEF Abstract!vars, ref, disk
  <1> QED BY <1>1, <1>2

\* Every step of the pipeline is a step of RefBuild or leaves it alone.
LEMMA StepRefines ==
    PipelineInv /\ (PipelineInv /\ CompletedInv)' /\ [Next]_vars => [Abstract!Next]_Abstract!vars
  <1> SUFFICES ASSUME PipelineInv, (PipelineInv /\ CompletedInv)', [Next]_vars, TypeOK
               PROVE  [Abstract!Next]_Abstract!vars
    BY DEF PipelineInv
  <1> USE SlotFacts
  <1>1. CASE Push
    BY <1>1 DEF Push, Abstract!Next, Abstract!Push, disk, runs
  <1>2. ASSUME NEW c \in Commits, KickoffStarts(c) PROVE Abstract!Next
    <2>1. status'[Top] = "open" /\ status[Top] # "open"
      BY <1>2 DEF KickoffStarts, TypeOK
    <2>2. want' \in 1 .. head /\ trouble' = {} /\ UNCHANGED <<head, published>>
      BY <1>2 DEF KickoffStarts, PipelineInv, OrderInv, TypeOK, Commits, disk
    <2> QED BY <2>1, <2>2 DEF Abstract!Next, Abstract!Start
  <1>3. CASE UNCHANGED <<head, want, published>> /\ status'[Top] = status[Top]
             /\ (trouble = {} \/ trouble' # {})
    BY <1>3 DEF Abstract!Next, Abstract!Disturb, Abstract!vars
  <1>4. ASSUME NEW c \in Commits, OthersStore(c) PROVE [Abstract!Next]_Abstract!vars
    BY <1>3, <1>4 DEF OthersStore, Store, ref, runs
  <1>5. ASSUME NEW m \in Makers, SyncRef(m) PROVE [Abstract!Next]_Abstract!vars
    BY <1>3, <1>5 DEF SyncRef, Store, ref
  <1>6. ASSUME NEW c \in Commits, LateUpload(c) PROVE [Abstract!Next]_Abstract!vars
    <2>1. /\ c \in 1 .. head /\ published' \in {c, published} /\ trouble \subseteq trouble'
          /\ (published' < published => trouble' # {})
          /\ (published' = published => trouble' = trouble)
          /\ UNCHANGED <<head, want, status>>
      BY <1>6 DEF LateUpload, PipelineInv, OrderInv, TypeOK, Commits, ref, runs
    <2>2. CASE published' = published
      BY <1>3, <2>1, <2>2
    <2>3. CASE published' # published
      <3>1. published' \in 1 .. head /\ (published' >= published \/ trouble' # {})
        BY <2>1, <2>3 DEF TypeOK
      <3>2. (trouble' # {}) = (trouble # {}) \/ (trouble' # {}) = TRUE
        BY <2>1
      <3> QED BY <2>1, <3>1, <3>2 DEF Abstract!Next, Abstract!Publish
    <2> QED BY <2>2, <2>3
  <1>7. ASSUME NEW m \in Makers, UploadActivity(m) PROVE Abstract!Next
    <2>1. /\ published' = tree[m] /\ UNCHANGED <<head, want, status, trouble>> /\ RunsAt(m, Make, "upload")
      BY <1>7 DEF UploadActivity, ref
    <2>2. tree[m] \in 1 .. head
      BY <2>1 DEF PipelineInv, OrderInv, TypeOK, RunsAt, Building, Built
    <2>3. tree[m] >= published \/ trouble # {}
      BY <2>1 DEF PipelineInv, FreshInv, Fresh, Misled, Covers, RunsAt, TypeOK
    <2> QED BY <2>1, <2>2, <2>3 DEF Abstract!Next, Abstract!Publish
  <1>8. ASSUME NEW m \in Makers, ChildCloses(m) \/ CreateSessionFails(m) \/ SessionFails(m)
                                 \/ DeployerIdTaken(m) \/ MakeCompletes(m)
        PROVE  [Abstract!Next]_Abstract!vars
    BY <1>8, CloseRefines DEF ChildCloses, CreateSessionFails, SessionFails, DeployerIdTaken,
           MakeCompletes, RunsAt
  <1>9. ASSUME NEW i \in Slots, (i \in Deployers /\ Deployment(i)) \/ TerminateChild(i)
        PROVE  [Abstract!Next]_Abstract!vars
    <2>1. i # Top
      BY <1>9 DEF TerminateChild, PipelineInv, SlotInv, SingleFlight
    <2>2. status'[Top] = status[Top]
      BY <1>9, <2>1 DEF Deployment, TerminateChild, Close, TypeOK
    <2> QED BY <1>3, <1>9, <2>2 DEF Deployment, TerminateChild, ref, disk
  <1>10. ASSUME NEW m \in Makers, StartChild(m) \/ LaunchDeployer(m) PROVE [Abstract!Next]_Abstract!vars
    <2>1. status'[Top] = status[Top]
      <3>1. CASE StartChild(m)
        <4>1. m + 1 # Top
          BY DEF Top
        <4> QED BY <3>1, <4>1 DEF StartChild, TypeOK
      <3>2. CASE LaunchDeployer(m)
        BY <3>2 DEF LaunchDeployer, TypeOK
      <3> QED BY <1>10, <3>1, <3>2
    <2> QED BY <1>3, <1>10, <2>1 DEF StartChild, LaunchDeployer, ref, disk
  <1>11. ASSUME NEW m \in Makers, UpdateCache(m) \/ DetermineSpecificBuildFlow(m) \/ CreateSession(m)
                                  \/ DownloadFromCacheActivity(m) \/ BuildActivity(m)
                                  \/ UploadAttemptTimesOut(m)
         PROVE  [Abstract!Next]_Abstract!vars
    BY <1>3, <1>11 DEF UpdateCache, DetermineSpecificBuildFlow, CreateSession,
           DownloadFromCacheActivity, BuildActivity, UploadAttemptTimesOut, ref, disk, runs
  <1>12. ASSUME NEW c \in Commits, KickoffAbsorbed(c) \/ KickoffLost(c)
         PROVE  [Abstract!Next]_Abstract!vars
    BY <1>3, <1>12 DEF KickoffAbsorbed, KickoffLost, disk, runs
  <1>13. CASE OthersFetch \/ UNCHANGED vars
    BY <1>3, <1>13 DEF OthersFetch, vars, ref, runs
  <1> QED BY <1>1, <1>2, <1>4, <1>5, <1>6, <1>7, <1>8, <1>9, <1>10, <1>11, <1>12, <1>13 DEF Next

\* The pipeline of hooks, workflows, cache and deployer implements RefBuild, the
\* promise to who watches one ref: builds are serial, a successful one has
\* published its commit, and what is published does not go back, all unless the
\* build was disturbed.
THEOREM PipelineImplementsRefBuild == Spec => ImplementsRefBuild
  <1> QED BY InitRefines, StepRefines, CompletedInvCorrect, PTL
          DEF Spec, ImplementsRefBuild, Abstract!Spec
=============================================================================
