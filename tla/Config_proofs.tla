---------------------------- MODULE Config_proofs ----------------------------
(* Proofs about Config and the overlay it is built on.                     *)
EXTENDS Config, TLAPS

\* Laying three files over each other gives the same in whichever order the
\* pairs are merged: that loadConfigDir first merges the files among
\* themselves changes nothing.
THEOREM OverIsAssociative ==
    ASSUME NEW S, NEW x, NEW y, NEW z, DOMAIN x = S, DOMAIN y = S, DOMAIN z = S
    PROVE  Over(x, Over(y, z)) = Over(Over(x, y), z)
  BY DEF Over

LEMMA MergeType ==
    ASSUME NEW dst \in Configs, NEW src \in Configs
    PROVE  /\ Merge(dst, src) \in Configs
           /\ \A s \in Settings :
                Merge(dst, src)[s] = IF s \in Unmerged \/ src[s] = None THEN dst[s] ELSE src[s]
  BY DEF Merge, Over, Configs

LEMMA FromEnvType ==
    ASSUME NEW e \in [Settings -> Values \cup {None, Off}], NEW c \in Configs
    PROVE  FromEnv(e, c) \in Configs
  BY ConfigAssumption DEF FromEnv, Over, Configs

LEMMA NothingType == Nothing \in Configs
  BY DEF Nothing, Configs

LEMMA ReadableType ==
    ASSUME TypeOK, NEW f \in Files, Readable(f)
    PROVE  files[f] \in Configs
  <1>1. files[f] \in Configs \cup {Bad, Gone}
    BY DEF TypeOK
  <1> QED BY <1>1 DEF Readable

-----------------------------------------------------------------------------
LEMMA InitType == Init => TypeOK
  <1> SUFFICES ASSUME Init PROVE TypeOK
    OBVIOUS
  <1>1. files \in [Files -> Configs \cup {Bad, Gone}]
    BY ConfigAssumption DEF Init
  <1>2. env \in [Settings -> Values \cup {None, Off}]
    BY ConfigAssumption DEF Init
  <1>3. merged \in Configs /\ conf \in Configs /\ seen \in [Files -> Configs]
    BY ConfigAssumption, NothingType DEF Init
  <1>4. next \in 1 .. NFiles + 1 /\ edits \in 0 .. MaxEdits /\ listed \subseteq Files
    BY ConfigAssumption DEF Init
  <1> QED BY <1>1, <1>2, <1>3, <1>4 DEF Init, TypeOK

LEMMA NextType == TypeOK /\ [Next]_vars => TypeOK'
  <1> SUFFICES ASSUME TypeOK, [Next]_vars PROVE TypeOK'
    OBVIOUS
  <1>1. CASE UNCHANGED vars
    BY <1>1 DEF vars, TypeOK
  <1>2. CASE Stat \/ ReadDir
    BY <1>2 DEF Stat, There, ReadDir, Loads, TypeOK
  <1>11. CASE ReadDirFails
    BY <1>11, ConfigAssumption DEF ReadDirFails, Die, TypeOK
  <1>3. CASE LoadSingleFile
    <2>1. CASE Readable(1)
      <3>1. files[1] \in Configs /\ 1 \in Files
        BY <2>1, ReadableType, ConfigAssumption DEF Files
      <3>2. conf' \in Configs /\ seen' \in [Files -> Configs] /\ pc' = "env"
        BY <1>3, <2>1, <3>1, MergeType DEF LoadSingleFile, TypeOK, Die
      <3> QED BY <1>3, <2>1, <3>2 DEF LoadSingleFile, Loads, TypeOK, Die
    <2>2. CASE ~Readable(1)
      BY <1>3, <2>2 DEF LoadSingleFile, Loads, Die, TypeOK
    <2> QED BY <2>1, <2>2
  <1>4. CASE LoadFile
    <2>0. next \in Files /\ next + 1 \in 1 .. NFiles + 1
      BY <1>4, ConfigAssumption DEF LoadFile, Files, TypeOK
    <2>1. CASE next \in listed /\ Readable(next)
      <3>1. files[next] \in Configs
        BY <2>0, <2>1, ReadableType
      <3>2. merged' \in Configs /\ seen' \in [Files -> Configs] /\ next' = next + 1
        BY <1>4, <2>1, <3>1, MergeType DEF LoadFile, TypeOK, Die
      <3> QED BY <1>4, <2>0, <2>1, <3>2 DEF LoadFile, Loads, TypeOK, Die
    <2>2. CASE next \in listed /\ ~Readable(next)
      BY <1>4, <2>2 DEF LoadFile, Loads, Die, TypeOK
    <2>3. CASE next \notin listed
      BY <1>4, <2>0, <2>3 DEF LoadFile, Loads, TypeOK
    <2> QED BY <2>1, <2>2, <2>3
  <1>5. CASE EndDir
    <2>1. conf' \in Configs
      BY <1>5, MergeType DEF EndDir, TypeOK
    <2> QED BY <1>5, <2>1 DEF EndDir, Loads, TypeOK
  <1>6. CASE ProcessEnv
    <2>1. conf' \in Configs
      BY <1>6, FromEnvType DEF ProcessEnv, TypeOK
    <2> QED BY <1>6, <2>1 DEF ProcessEnv, Loads, TypeOK
  <1>7. ASSUME Begin PROVE /\ pc' = "stat" /\ listed' \subseteq Files /\ next' \in 1 .. NFiles + 1
                           /\ merged' \in Configs /\ conf' \in Configs
                           /\ seen' \in [Files -> Configs] /\ edited' \in BOOLEAN
                           /\ skipped' \in BOOLEAN
    <2>1. merged' \in Configs /\ conf' \in Configs /\ seen' \in [Files -> Configs]
      BY <1>7, ConfigAssumption, NothingType DEF Begin
    <2>2. next' \in 1 .. NFiles + 1
      BY <1>7, ConfigAssumption DEF Begin
    <2> QED BY <1>7, <2>1, <2>2 DEF Begin
  <1>8. CASE Restart
    BY <1>7, <1>8 DEF Restart, TypeOK
  <1>9. ASSUME NEW e \in Envs, Redeploy(e) PROVE TypeOK'
    <2>1. env' \in [Settings -> Values \cup {None, Off}] /\ edits' \in 0 .. MaxEdits
      BY <1>9, ConfigAssumption DEF Redeploy, TypeOK
    <2> QED BY <1>7, <1>9, <2>1 DEF Redeploy, TypeOK
  <1>10. ASSUME NEW f \in Files, NEW c \in Contents \cup {Bad, Gone}, Edit(f, c) PROVE TypeOK'
    <2>1. c \in Configs \cup {Bad, Gone} /\ edits' \in 0 .. MaxEdits
      BY <1>10, ConfigAssumption DEF Edit, TypeOK
    <2> QED BY <1>10, <2>1 DEF Edit, TypeOK
  <1> QED BY <1>1, <1>2, <1>3, <1>4, <1>5, <1>6, <1>8, <1>9, <1>10, <1>11
       DEF Next, Boot

\* Every variable keeps its type; in particular "off" never becomes a setting.
THEOREM TypeCorrect == Spec => []TypeOK
  BY InitType, NextType, PTL DEF Spec

-----------------------------------------------------------------------------
(* What each step of LoadConfig has gathered.                              *)

\* Before the environment, a setting is that of the last file, or the default.
Gathered(s) ==
    IF s \in Unmerged \/ LastSets(s, None) THEN conf[s] = Defaults[s] ELSE LastSets(s, conf[s])

GatherInv ==
    /\ pc \in {"stat", "file", "readDir"} =>
         merged = Nothing /\ conf = Defaults /\ seen = [f \in Files |-> Nothing]
    /\ pc = "dir" =>
         /\ conf = Defaults
         /\ \A f \in Files : f >= next => seen[f] = Nothing
         /\ \A s \in Settings : IF s \in Unmerged THEN merged[s] = None ELSE LastSets(s, merged[s])
    /\ pc = "env" => \A s \in Settings : Gathered(s)
    /\ LastSettingWins

LEMMA NothingSets ==
    ASSUME NEW s \in Settings, seen = [f \in Files |-> Nothing]
    PROVE  LastSets(s, None)
  BY DEF LastSets, LastIn, Nothing

\* The next file of the directory.
LEMMA LastInStep ==
    ASSUME NEW read \in [Files -> Configs], NEW s \in Settings, NEW v, NEW n \in Files,
           NEW c \in Configs, LastIn(read, s, v), \A f \in Files : f >= n => read[f] = Nothing
    PROVE  LastIn([read EXCEPT ![n] = c], s, IF c[s] = None THEN v ELSE c[s])
  <1> DEFINE later == [read EXCEPT ![n] = c]
  <1>0. \A f \in Files : f \in Int
    BY DEF Files
  <1>1. \A f \in Files : later[f] = IF f = n THEN c ELSE read[f]
    OBVIOUS
  <1>2. \A f \in Files : f >= n => read[f][s] = None
    BY DEF Nothing
  <1> HIDE DEF later
  <1>3. CASE c[s] = None
    <2>1. \A f \in Files : later[f][s] = read[f][s]
      BY <1>0, <1>1, <1>2, <1>3
    <2>2. LastIn(later, s, v)
      BY <2>1 DEF LastIn
    <2> QED BY <1>3, <2>2 DEF later
  <1>4. CASE c[s] # None
    <2>1. \A g \in Files : g > n => later[g][s] = None
      BY <1>0, <1>1, <1>2
    <2>2. later[n][s] = c[s]
      BY <1>1
    <2>3. LastIn(later, s, c[s])
      BY <1>4, <2>1, <2>2 DEF LastIn
    <2> QED BY <1>4, <2>3 DEF later
  <1> QED BY <1>3, <1>4

\* None is the last setting just if there is none.
LEMMA LastInNone ==
    ASSUME NEW read, NEW s, NEW v, LastIn(read, s, v)
    PROVE  v = None <=> LastIn(read, s, None)
  BY DEF LastIn

LEMMA GatherNext == TypeOK /\ GatherInv /\ [Next]_vars => GatherInv'
  <1> SUFFICES ASSUME TypeOK, GatherInv, [Next]_vars PROVE GatherInv'
    OBVIOUS
  <1>1. CASE UNCHANGED vars
    BY <1>1 DEF vars, GatherInv, Gathered, LastSets, LastSettingWins
  <1>2. CASE Stat
    <2>1. merged = Nothing /\ conf = Defaults /\ seen = [f \in Files |-> Nothing]
      BY <1>2 DEF Stat, Loads, GatherInv
    <2>2. UNCHANGED <<merged, conf, seen>> /\ pc' \in {"env", "file", "readDir"}
      BY <1>2 DEF Stat
    <2>3. \A s \in Settings : Gathered(s)'
      BY <2>1, <2>2, NothingSets DEF Gathered, LastSets
    <2> QED BY <2>1, <2>2, <2>3 DEF GatherInv, LastSettingWins
  <1>3. CASE LoadSingleFile
    <2>1. CASE Readable(1)
      <3>1. files[1] \in Configs /\ 1 \in Files
        BY <2>1, ReadableType, ConfigAssumption DEF Files
      <3>2. /\ conf = Defaults /\ seen = [f \in Files |-> Nothing]
            /\ conf' = Merge(conf, files[1]) /\ seen' = [seen EXCEPT ![1] = files[1]] /\ pc' = "env"
        BY <1>3, <2>1 DEF LoadSingleFile, Loads, GatherInv, Die
      <3>3. ASSUME NEW s \in Settings PROVE Gathered(s)'
        <4> DEFINE c == files[1]
                   v == IF c[s] = None THEN None ELSE c[s]
        <4>1. LastIn(seen, s, None) /\ \A f \in Files : f >= 1 => seen[f] = Nothing
          BY <3>2, NothingSets DEF LastSets
        <4>2. seen \in [Files -> Configs] /\ seen' = [seen EXCEPT ![1] = c]
          BY <3>2 DEF TypeOK
        <4>3. conf'[s] = IF s \in Unmerged \/ c[s] = None THEN Defaults[s] ELSE c[s]
          BY <3>1, <3>2, MergeType, ConfigAssumption
        <4>4. c \in Configs /\ 1 \in Files
          BY <3>1
        <4> HIDE DEF c
        <4>5. LastIn(seen', s, v)
          BY <4>1, <4>2, <4>4, LastInStep
        <4>6. v = None <=> LastIn(seen', s, None)
          BY <4>5, LastInNone
        <4> QED BY <4>3, <4>5, <4>6 DEF Gathered, LastSets
      <3> QED BY <3>2, <3>3 DEF GatherInv, LastSettingWins
    <2>2. CASE ~Readable(1)
      BY <1>3, <2>2 DEF LoadSingleFile, Die, GatherInv, LastSettingWins
    <2> QED BY <2>1, <2>2
  <1>4. CASE ReadDir
    <2>1. /\ merged = Nothing /\ conf = Defaults /\ seen = [f \in Files |-> Nothing]
          /\ UNCHANGED <<merged, conf, seen>> /\ pc' = "dir"
      BY <1>4 DEF ReadDir, Loads, GatherInv
    <2>2. \A s \in Settings : merged'[s] = None /\ LastSets(s, None)'
      BY <2>1, NothingSets DEF Nothing, LastSets
    <2> QED BY <2>1, <2>2 DEF GatherInv, LastSettingWins, LastSets
  <1>5. CASE LoadFile
    <2>0. /\ next \in Files /\ next \in Int /\ pc = "dir" /\ conf = Defaults
          /\ \A f \in Files : f \in Int /\ (f >= next => seen[f] = Nothing)
          /\ \A s \in Settings : IF s \in Unmerged THEN merged[s] = None ELSE LastSets(s, merged[s])
      BY <1>5 DEF LoadFile, Loads, Files, TypeOK, GatherInv
    <2>1. CASE next \in listed /\ Readable(next)
      <3>1. files[next] \in Configs
        BY <2>0, <2>1, ReadableType
      <3>2. /\ merged' = Merge(merged, files[next]) /\ seen' = [seen EXCEPT ![next] = files[next]]
            /\ next' = next + 1 /\ conf' = conf /\ pc' = "dir"
        BY <1>5, <2>0, <2>1 DEF LoadFile, Die
      <3>3. \A f \in Files : f >= next' => seen'[f] = Nothing
        BY <2>0, <3>2 DEF TypeOK
      <3>4. ASSUME NEW s \in Settings
            PROVE  IF s \in Unmerged THEN merged'[s] = None ELSE LastIn(seen', s, merged'[s])
        <4>1. merged'[s] = IF s \in Unmerged \/ files[next][s] = None THEN merged[s]
                           ELSE files[next][s]
          BY <3>1, <3>2, MergeType DEF TypeOK
        <4>2. CASE s \in Unmerged
          BY <2>0, <4>1, <4>2
        <4>3. CASE s \notin Unmerged
          <5>1. LastSets(s, merged[s])
            BY <2>0, <4>3
          <5> DEFINE v == merged[s]  c == files[next]  n == next
          <5>2. /\ n \in Files /\ c \in Configs /\ LastIn(seen, s, v)
                /\ \A f \in Files : f >= n => seen[f] = Nothing
                /\ seen' = [seen EXCEPT ![n] = c] /\ seen \in [Files -> Configs]
                /\ merged'[s] = IF c[s] = None THEN v ELSE c[s]
            BY <2>0, <3>1, <3>2, <4>1, <4>3, <5>1 DEF LastSets, TypeOK
          <5> HIDE DEF v, c, n
          <5>3. LastIn(seen', s, merged'[s])
            BY <5>2, LastInStep
          <5> QED BY <4>3, <5>3
        <4> QED BY <4>2, <4>3
      <3>5. conf' = Defaults /\ pc' = "dir"
        BY <2>0, <3>2
      <3> QED BY <3>3, <3>4, <3>5 DEF GatherInv, LastSettingWins, LastSets
    <2>2. CASE next \in listed /\ ~Readable(next)
      BY <1>5, <2>2 DEF LoadFile, Die, GatherInv, LastSettingWins
    <2>3. CASE next \notin listed
      <3>1. next' = next + 1 /\ UNCHANGED <<pc, merged, conf, seen>>
        BY <1>5, <2>3 DEF LoadFile
      <3> QED BY <2>0, <3>1 DEF GatherInv, LastSettingWins, LastSets
    <2> QED BY <2>1, <2>2, <2>3
  <1>6. CASE EndDir
    <2>1. /\ conf' = Merge(conf, merged) /\ UNCHANGED <<merged, seen>> /\ pc' = "env"
          /\ conf = Defaults
          /\ \A s \in Settings : IF s \in Unmerged THEN merged[s] = None ELSE LastSets(s, merged[s])
      BY <1>6 DEF EndDir, Loads, GatherInv
    <2>2. ASSUME NEW s \in Settings PROVE Gathered(s)'
      <3>1. conf'[s] = IF s \in Unmerged \/ merged[s] = None THEN Defaults[s] ELSE merged[s]
        BY <2>1, MergeType DEF TypeOK
      <3>2. \A v : LastSets(s, v)' <=> LastSets(s, v)
        BY <2>1 DEF LastSets
      <3>3. s \notin Unmerged /\ merged[s] # None => ~LastSets(s, None) /\ LastSets(s, merged[s])
        BY <2>1, LastInNone DEF LastSets
      <3>4. s \notin Unmerged /\ merged[s] = None => LastSets(s, None)
        BY <2>1
      <3> QED BY <2>1, <3>1, <3>2, <3>3, <3>4 DEF Gathered, LastSets
    <2> QED BY <2>1, <2>2 DEF GatherInv, LastSettingWins
  <1>7. CASE ProcessEnv
    <2>1. /\ conf' = FromEnv(env, conf) /\ UNCHANGED <<env, seen>> /\ pc' = "up"
          /\ \A s \in Settings : Gathered(s)
      BY <1>7 DEF ProcessEnv, Loads, GatherInv
    <2>2. \A s \in Settings : conf'[s] =
            IF env[s] = Off THEN None
            ELSE IF s \in Headers /\ (\E h \in Headers : env[h] # None) THEN env[s]
            ELSE IF env[s] # None THEN env[s] ELSE conf[s]
      BY <2>1 DEF FromEnv, Over, TypeOK, Configs
    <2>3. \A s \in Settings : \A v : LastSets(s, v)' <=> LastSets(s, v)
      BY <2>1 DEF LastSets
    <2>4. LastSettingWins'
      <3> DEFINE headers == \E h \in Headers : env[h] # None
      <3> SUFFICES ASSUME NEW s \in Settings
                   PROVE  CASE env[s] = Off -> conf'[s] = None
                            [] env[s] \in Values -> conf'[s] = env[s]
                            [] env[s] = None /\ s \in Headers /\ headers -> conf'[s] = None
                            [] env[s] = None /\ ~(s \in Headers /\ headers) ->
                                 IF s \in Unmerged \/ LastSets(s, None) THEN conf'[s] = Defaults[s]
                                 ELSE LastSets(s, conf'[s])
        BY <2>1, <2>3 DEF LastSettingWins, LastSets
      <3>1. CASE env[s] = Off
        BY <2>2, <3>1, ConfigAssumption
      <3>2. CASE env[s] \in Values
        BY <2>2, <3>2, ConfigAssumption
      <3>3. CASE env[s] = None
        BY <2>1, <2>2, <3>3, ConfigAssumption DEF Gathered
      <3> QED BY <3>1, <3>2, <3>3 DEF TypeOK
    <2> QED BY <2>1, <2>4 DEF GatherInv
  <1>8. CASE Restart \/ \E e \in Envs : Redeploy(e)
    BY <1>8 DEF Restart, Redeploy, Begin, GatherInv, LastSettingWins
  <1>9. ASSUME NEW f \in Files, NEW c \in Contents \cup {Bad, Gone}, Edit(f, c) PROVE GatherInv'
    BY <1>9 DEF Edit, GatherInv, Gathered, LastSets, LastSettingWins
  <1>10. CASE ReadDirFails
    BY <1>10 DEF ReadDirFails, Die, GatherInv, LastSettingWins
  <1> QED BY <1>1, <1>2, <1>3, <1>4, <1>5, <1>6, <1>7, <1>8, <1>9, <1>10 DEF Next, Boot

\* For any files, settings and environment: a server that is up has, for each
\* setting, the value of the environment, of the last file, or the default.
THEOREM LastSettingWinsCorrect == Spec => []LastSettingWins
  <1>1. Init => GatherInv
    BY DEF Init, GatherInv, LastSettingWins
  <1>2. GatherInv => LastSettingWins
    BY DEF GatherInv
  <1> QED BY <1>1, <1>2, GatherNext, TypeCorrect, PTL DEF Spec

-----------------------------------------------------------------------------
(* What has been read of the files, unless they were edited meanwhile.     *)

WasRead(f) == files[f] # Bad /\ (files[f] # Gone => seen[f] = files[f])

ReadInv ==
    /\ pc \in {"stat", "file", "readDir", "dir"} => ~skipped
    /\ pc = "file" => place = "file"
    /\ pc \in {"stat", "readDir"} => next = 1
    /\ pc \in {"readDir", "dir"} => place = "dir"
    /\ pc = "dir" /\ ~edited =>
         /\ listed = {f \in Files : files[f] # Gone}
         /\ \A f \in Files : f < next => WasRead(f)
    /\ pc = "env" /\ ~edited =>
         IF skipped \/ ~There THEN conf = Defaults
         ELSE IF place = "file" THEN seen[1] = files[1]
         ELSE \A f \in Files : WasRead(f)
    /\ NothingLeftOut

LEMMA ReadNext == TypeOK /\ GatherInv /\ ReadInv /\ [Next]_vars => ReadInv'
  <1> SUFFICES ASSUME TypeOK, GatherInv, ReadInv, [Next]_vars PROVE ReadInv'
    OBVIOUS
  <1> USE DEF ReadInv, NothingLeftOut, WasRead, There
  <1>1. CASE UNCHANGED vars
    BY <1>1 DEF vars
  <1>2. CASE Stat
    <2>1. /\ UNCHANGED <<place, files, conf, next, edited>> /\ ~skipped /\ next = 1
          /\ conf = Defaults
      BY <1>2 DEF Stat, Loads, GatherInv
    <2>2. \/ pc' = "file" /\ place = "file" /\ ~skipped'
          \/ pc' = "readDir" /\ place = "dir" /\ ~skipped'
          \/ pc' = "env" /\ (skipped' \/ ~There')
      BY <1>2, <2>1 DEF Stat
    <2> QED BY <2>1, <2>2
  <1>3. CASE LoadSingleFile
    <2>1. CASE Readable(1)
      <3>1. /\ seen' = [seen EXCEPT ![1] = files[1]] /\ pc' = "env"
            /\ place' = "file" /\ files' = files
            /\ ~skipped'
        BY <1>3, <2>1 DEF LoadSingleFile, Loads, Die
      <3>2. seen'[1] = files[1]
        BY <3>1, ConfigAssumption DEF Files, TypeOK
      <3>3. files'[1] # Gone
        BY <2>1, <3>1 DEF Readable
      <3> QED BY <3>1, <3>2, <3>3
    <2>2. CASE ~Readable(1)
      BY <1>3, <2>2 DEF LoadSingleFile, Die
    <2> QED BY <2>1, <2>2
  <1>4. CASE ReadDir
    <2>1. /\ pc' = "dir" /\ listed' = {f \in Files : files'[f] # Gone} /\ next' = 1 /\ place' = "dir" /\ ~skipped'
      BY <1>4 DEF ReadDir, Loads
    <2>2. \A f \in Files : ~(f < next')
      BY <2>1 DEF Files
    <2> QED BY <2>1, <2>2
  <1>5. CASE LoadFile
    <2>1. /\ next \in Files /\ next \in Int /\ place' = "dir" /\ files' = files /\ edited' = edited
          /\ \A f \in Files : f \in Int
          /\ ~skipped' /\ ~skipped
      BY <1>5 DEF LoadFile, Loads, Die, Files, TypeOK
    <2>2. CASE next \in listed /\ ~Readable(next)
      BY <1>5, <2>1, <2>2 DEF LoadFile, Die
    <2>3. CASE next \in listed /\ Readable(next)
      <3>1. /\ seen' = [seen EXCEPT ![next] = files[next]] /\ next' = next + 1
            /\ listed' = listed /\ pc' = "dir" /\ pc = "dir"
        BY <1>5, <2>3 DEF LoadFile, Loads, Die
      <3>2. \A f \in Files : seen'[f] = IF f = next THEN files[f] ELSE seen[f]
        BY <3>1 DEF TypeOK
      <3>3. \A f \in Files : f < next' => f = next \/ f < next
        BY <2>1, <3>1
      <3>4. files[next] # Bad
        BY <2>3 DEF Readable
      <3>5. ~edited => \A f \in Files : f < next' => WasRead(f)'
        BY <2>1, <3>1, <3>2, <3>3, <3>4
      <3> QED BY <2>1, <3>1, <3>5
    <2>4. CASE next \notin listed
      <3>1. next' = next + 1 /\ UNCHANGED <<listed, pc, seen>> /\ pc = "dir"
        BY <1>5, <2>4 DEF LoadFile, Loads
      <3>2. ~edited => files[next] = Gone
        BY <2>1, <2>4, <3>1
      <3>3. \A f \in Files : f < next' => f = next \/ f < next
        BY <2>1, <3>1
      <3>4. ~edited => \A f \in Files : f < next' => WasRead(f)'
        BY <2>1, <3>1, <3>2, <3>3, ConfigAssumption
      <3> QED BY <2>1, <3>1, <3>4
    <2> QED BY <2>2, <2>3, <2>4
  <1>6. CASE EndDir
    <2>1. \A f \in Files : f < next
      BY <1>6, ConfigAssumption DEF EndDir, Files
    <2> QED BY <1>6, <2>1 DEF EndDir, Loads
  <1>7. CASE ProcessEnv
    BY <1>7 DEF ProcessEnv, Loads
  <1>8. CASE Restart \/ \E e \in Envs : Redeploy(e)
    BY <1>8 DEF Restart, Redeploy, Begin
  <1>9. ASSUME NEW f \in Files, NEW c \in Contents \cup {Bad, Gone}, Edit(f, c) PROVE ReadInv'
    BY <1>9 DEF Edit
  <1>10. CASE ReadDirFails
    BY <1>10 DEF ReadDirFails, Die
  <1> QED BY <1>1, <1>2, <1>3, <1>4, <1>5, <1>6, <1>7, <1>8, <1>9, <1>10 DEF Next, Boot

\* For any files: a server that is up while nobody edits has read all of its
\* configuration.
THEOREM NothingLeftOutCorrect == Spec => []NothingLeftOut
  <1>1. Init => GatherInv /\ ReadInv
    BY DEF Init, GatherInv, LastSettingWins, ReadInv, NothingLeftOut
  <1>2. ReadInv => NothingLeftOut
    BY DEF ReadInv
  <1> QED BY <1>1, <1>2, GatherNext, ReadNext, TypeCorrect, PTL DEF Spec

=============================================================================
