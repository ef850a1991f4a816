------------------------------- MODULE Config -------------------------------
(***************************************************************************)
(* How the servers come by their settings when they start                  *)
(* (internal/config/defaults.go): defaults, then a configuration file or   *)
(* the files of a directory in the order of their names, then environment  *)
(* variables.  What os.Stat cannot find or look at is skipped, and the     *)
(* defaults serve; what it finds and cannot be read or parsed afterwards   *)
(* ends the process, which its supervisor starts again.  An operator edits *)
(* the files at any time; only a start reads them.  A header of            *)
(* cache.headers is a setting of its own, for mergeConfig merges that map  *)
(* header by header.                                                       *)
(***************************************************************************)
EXTENDS Integers

CONSTANTS
    Settings,    \* the fields of Config, and the headers
    Headers,     \* which settings are headers
    Unmerged,    \* which settings mergeConfig forgets: shared_secrets.dir
    Values, None,
    Off,         \* TCD_DEBUG=false: sets the field to nothing
    Defaults,    \* LoadConfig's defaults
    Contents,    \* what a file may say
    Envs,        \* what the environment may say
    Bad, Gone,   \* a file that cannot be parsed, no such file
    NFiles,      \* files of the directory, by name
    MaxEdits     \* bound on edits, restarts by hand and failing listings

INSTANCE Overlay

Files   == 1 .. NFiles
Configs == [Settings -> Values \cup {None}]
Nothing == [s \in Settings |-> None]

ASSUME ConfigAssumption ==
    /\ Headers \subseteq Settings /\ Unmerged \subseteq Settings
    /\ None \notin Values /\ Off \notin Values \cup {None}
    /\ Defaults \in Configs /\ Contents \subseteq Configs
    /\ Envs \subseteq [Settings -> Values \cup {None, Off}]
    /\ Bad \notin Configs \cup {Gone} /\ Gone \notin Configs
    /\ NFiles \in Nat \ {0} /\ MaxEdits \in Nat

VARIABLES
    place,    \* what TCD_CONFIG_FILE names: nothing, a file (the first), which
              \* may be gone, or a directory
    files,    \* per file: what it says, Bad or Gone
    env,      \* the environment of the process
    pc,       \* where LoadConfig is
    listed,   \* what ReadDir has listed
    next,     \* the next file of the directory
    merged,   \* loadConfigDir's merged
    conf,     \* LoadConfig's conf
    edits,    \* number of edits, and of what MaxEdits bounds besides, so far
    seen,     \* history: what was read of each file since the start
    edited,   \* history: a file was edited since the start
    skipped   \* history: os.Stat failed on what is there

vars == <<place, files, env, pc, listed, next, merged, conf, edits, seen, edited, skipped>>

TypeOK ==
    /\ place \in {"nothing", "file", "dir"}
    /\ files \in [Files -> Configs \cup {Bad, Gone}]
    /\ env \in [Settings -> Values \cup {None, Off}]
    /\ pc \in {"stat", "file", "readDir", "dir", "env", "up", "dead"}
    /\ listed \subseteq Files /\ next \in 1 .. NFiles + 1
    /\ merged \in Configs /\ conf \in Configs
    /\ edits \in 0 .. MaxEdits
    /\ seen \in [Files -> Configs] /\ edited \in BOOLEAN /\ skipped \in BOOLEAN

Init ==
    /\ place \in {"nothing", "file", "dir"}
    /\ files \in [Files -> Contents \cup {Bad, Gone}]
    /\ env \in Envs
    /\ pc = "stat" /\ listed = {} /\ next = 1
    /\ merged = Nothing /\ conf = Defaults
    /\ edits = 0
    /\ seen = [f \in Files |-> Nothing] /\ edited = FALSE /\ skipped = FALSE

-----------------------------------------------------------------------------
\* mergeConfig: what src leaves empty stays as it is in dst.
Merge(dst, src) ==
    [s \in Settings |-> IF s \in Unmerged THEN dst[s] ELSE Over(src, dst)[s]]

Die == pc' = "dead" /\ UNCHANGED <<listed, next, merged, conf, seen, skipped>>

Loads(step) == pc = step /\ UNCHANGED <<place, files, env, edits, edited>>

\* What os.Stat finds.
There == place = "dir" \/ (place = "file" /\ files[1] # Gone)

\* If nothing is there, or it cannot be looked at, the defaults stay.
Stat ==
    /\ Loads("stat")
    /\ \/ /\ There
          /\ pc' = IF place = "file" THEN "file" ELSE "readDir"
          /\ UNCHANGED skipped
       \/ pc' = "env" /\ skipped' = There
    /\ UNCHANGED <<listed, next, merged, conf, seen>>

Readable(f) == files[f] \notin {Bad, Gone}

LoadSingleFile ==
    /\ Loads("file")
    /\ \/ /\ Readable(1)
          /\ conf' = Merge(conf, files[1])
          /\ seen' = [seen EXCEPT ![1] = files[1]]
          /\ pc' = "env"
          /\ UNCHANGED <<listed, next, merged, skipped>>
       \/ ~Readable(1) /\ Die

\* Mutant: every name is taken for a file.
ReadDirAll ==
    /\ Loads("readDir")
    /\ listed' = Files
    /\ pc' = "dir"
    /\ UNCHANGED <<next, merged, conf, seen, skipped>>

ReadDir ==
    /\ Loads("readDir")
    /\ listed' = {f \in Files : files[f] # Gone}
    /\ pc' = "dir"
    /\ UNCHANGED <<next, merged, conf, seen, skipped>>

\* The directory has gone since os.Stat, or cannot be listed.
ReadDirFails ==
    /\ pc = "readDir"
    /\ edits < MaxEdits /\ edits' = edits + 1
    /\ Die
    /\ UNCHANGED <<place, files, env, edited>>

\* Mutant: a file that is no good is left out.
LoadFileSkipping ==
    /\ Loads("dir") /\ next <= NFiles
    /\ IF next \in listed /\ Readable(next)
       THEN /\ merged' = Merge(merged, files[next])
            /\ seen' = [seen EXCEPT ![next] = files[next]]
       ELSE UNCHANGED <<merged, seen>>
    /\ next' = next + 1
    /\ UNCHANGED <<listed, pc, conf, skipped>>

\* Mutant: the first file that sets something wins.
LoadFileUnder ==
    /\ Loads("dir") /\ next <= NFiles
    /\ \/ /\ next \in listed /\ Readable(next)
          /\ merged' = Merge(files[next], merged)
          /\ seen' = [seen EXCEPT ![next] = files[next]]
          /\ next' = next + 1
          /\ UNCHANGED <<listed, pc, conf, skipped>>
       \/ next \in listed /\ ~Readable(next) /\ Die
       \/ /\ next \notin listed
          /\ next' = next + 1 /\ UNCHANGED <<listed, pc, merged, conf, seen, skipped>>

LoadFile ==
    /\ Loads("dir") /\ next <= NFiles
    /\ \/ /\ next \in listed /\ Readable(next)
          /\ merged' = Merge(merged, files[next])
          /\ seen' = [seen EXCEPT ![next] = files[next]]
          /\ next' = next + 1
          /\ UNCHANGED <<listed, pc, conf, skipped>>
       \/ next \in listed /\ ~Readable(next) /\ Die
       \/ /\ next \notin listed
          /\ next' = next + 1 /\ UNCHANGED <<listed, pc, merged, conf, seen, skipped>>

EndDir ==
    /\ Loads("dir") /\ next = NFiles + 1
    /\ conf' = Merge(conf, merged)
    /\ pc' = "env"
    /\ UNCHANGED <<listed, next, merged, seen, skipped>>

\* Mutant: a debug level is taken as it is.
FromEnvAsIs(e, c) == Over(e, c)

\* envconfig: a variable that is set wins; TCD_CACHE_HEADERS sets the whole map.
FromEnv(e, c) ==
    LET headers == \E h \in Headers : e[h] # None
    IN  [s \in Settings |-> IF e[s] = Off THEN None
                            ELSE IF s \in Headers /\ headers THEN e[s] ELSE Over(e, c)[s]]

ProcessEnv ==
    /\ Loads("env")
    /\ conf' = FromEnv(env, conf)
    /\ pc' = "up"
    /\ UNCHANGED <<listed, next, merged, seen, skipped>>

-----------------------------------------------------------------------------
Boot == Stat \/ LoadSingleFile \/ ReadDir \/ LoadFile \/ EndDir \/ ProcessEnv

Begin ==
    /\ pc' = "stat" /\ listed' = {} /\ next' = 1
    /\ merged' = Nothing /\ conf' = Defaults
    /\ seen' = [f \in Files |-> Nothing] /\ edited' = FALSE /\ skipped' = FALSE

\* The supervisor.
Restart == pc = "dead" /\ Begin /\ UNCHANGED <<place, files, env, edits>>

\* The operator starts it again, with another environment if need be.
Redeploy(e) ==
    /\ pc = "up"
    /\ edits < MaxEdits /\ edits' = edits + 1
    /\ env' = e
    /\ Begin
    /\ UNCHANGED <<place, files>>

Edit(f, content) ==
    /\ edits < MaxEdits /\ edits' = edits + 1
    /\ place = "file" => f = 1
    /\ files' = [files EXCEPT ![f] = content]
    /\ edited' = TRUE
    /\ UNCHANGED <<place, env, pc, listed, next, merged, conf, seen, skipped>>

Next ==
    \/ Boot \/ ReadDirFails \/ Restart
    \/ \E e \in Envs : Redeploy(e)
    \/ \E f \in Files, c \in Contents \cup {Bad, Gone} : Edit(f, c)

Spec == Init /\ [][Next]_vars

\* LoadConfig runs to its end, and the supervisor starts what has ended.
FairSpec == Spec /\ WF_vars(Boot) /\ WF_vars(Restart)

-----------------------------------------------------------------------------
\* The last of the files that sets s gives it v; none sets it if v is None.
LastIn(read, s, v) ==
    \/ v = None /\ \A f \in Files : read[f][s] = None
    \/ \E f \in Files : /\ read[f][s] = v /\ v # None
                        /\ \A g \in Files : g > f => read[g][s] = None

LastSets(s, v) == LastIn(seen, s, v)

\* Whenever a server is up, each setting is that of the environment, else of
\* the last file that sets it, else the default, though the files are merged
\* among themselves before they are laid over the defaults; a file edited
\* while they are read counts as it was read.
LastSettingWins ==
    LET headers == \E h \in Headers : env[h] # None
    IN  pc = "up" => \A s \in Settings :
            CASE env[s] = Off -> conf[s] = None
              [] env[s] \in Values -> conf[s] = env[s]
              [] env[s] = None /\ s \in Headers /\ headers -> conf[s] = None
              [] env[s] = None /\ ~(s \in Headers /\ headers) ->
                   IF s \in Unmerged \/ LastSets(s, None) THEN conf[s] = Defaults[s]
                   ELSE LastSets(s, conf[s])

\* Nothing serves with half of its configuration: as far as nobody has
\* edited it since the start, either os.Stat found nothing or failed, and the
\* server has none of it, or whatever was listed was read.
NothingLeftOut ==
    pc = "up" /\ ~edited =>
        IF skipped \/ ~There THEN conf = FromEnv(env, Defaults)
        ELSE IF place = "file" THEN seen[1] = files[1]
        ELSE \A f \in Files : files[f] # Bad /\ (files[f] # Gone => seen[f] = files[f])

\* Once the files are good, a server that a bad one has ended comes up.
RepairHeals ==
    (pc = "dead" /\ \A f \in Files : files[f] # Bad)
        ~> (pc = "up" \/ \E f \in Files : files[f] = Bad)

=============================================================================
