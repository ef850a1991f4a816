----------------------------- MODULE AuthReload -----------------------------
(***************************************************************************)
(* How the HTTP servers (cache, artifacts, kickoff) come by the tokens and *)
(* shared secrets they go by: internal/basicauth and                       *)
(* internal/config/shared-secrets.go, loaded when the process starts and   *)
(* again for each SIGUSR1 the loop in main takes from its channel.  Before *)
(* signal.Notify the Go runtime catches a SIGUSR1 and does nothing, so the *)
(* signal is lost.  An operator changes files, sends signals and restarts  *)
(* the process whenever it likes.  Requests read the tables under the read *)
(* lock, so they see tokenMap only while no load is under way.             *)
(***************************************************************************)
EXTENDS Integers

CONSTANTS
    NFiles,    \* files of the key directory, in the order ReadDir lists them
    NSecrets,  \* files of the directory of shared secrets, in that order
    Tokens,    \* tokens
    Rules,     \* lists of regular expressions a file may give a token
    Requests,  \* methods and paths
    Allows,    \* which rule has an expression that matches which request
    Secrets,   \* lists of secrets a file may hold
    None,      \* a token without a rule; a file without a secret
    MaxOps     \* bound on what the operator does

ASSUME AuthAssumption ==
    /\ NFiles \in Nat
    /\ NSecrets \in Nat
    /\ None \notin Rules
    /\ Allows \subseteq Rules \X Requests
    /\ None \notin Secrets
    /\ MaxOps \in Nat

Files       == 1 .. NFiles
Contents    == [Tokens -> Rules \cup {None}]
SecretFiles == 1 .. NSecrets

\* SharedSecrets.secrets, by the file each part of the list comes from.
SecretLists == [SecretFiles -> Secrets \cup {None}]

VARIABLES
    files,       \* per file: the rule it gives each token; bad YAML gives none
    secretFiles, \* per file: the shared secrets it holds
    signal,      \* SIGUSR1s waiting in the channel, which has room for one
    pc,          \* where main and its reload loop are
    next,        \* the next file LoadAuth or SharedSecrets.Load reads
    notified,    \* signal.Notify has been called
    tokenMap,    \* AuthCore.tokenMap
    secrets,     \* SharedSecrets.secrets
    ops,         \* number of operator actions so far
    signalled,   \* history: since the last change of a file the process was
                 \* started, or a SIGUSR1 reached it while it listened
    readFailed,  \* history: a read failed since the current or last load began
    listed       \* history: the rules any file gave since that load began

disk == <<files, secretFiles>>
vars == <<files, secretFiles, signal, pc, next, notified, tokenMap, secrets, ops,
          signalled, readFailed, listed>>

Empty == [t \in Tokens |-> None]
NoSecrets == [f \in SecretFiles |-> None]

Listing(fs) == {<<t, fs[f][t]>> : t \in Tokens, f \in Files}

TypeOK ==
    /\ files \in [Files -> Contents]
    /\ secretFiles \in SecretLists
    /\ signal \in {0, 1}
    /\ pc \in {"auth", "secrets", "notify", "wait"}
    /\ next \in 1 .. (IF pc = "auth" THEN NFiles ELSE NSecrets) + 1
    /\ notified \in BOOLEAN
    /\ tokenMap \in Contents
    /\ secrets \in SecretLists
    /\ ops \in 0 .. MaxOps
    /\ signalled \in BOOLEAN
    /\ readFailed \in BOOLEAN
    /\ listed \subseteq Tokens \X (Rules \cup {None})

Init ==
    /\ files \in [Files -> Contents]
    /\ secretFiles \in SecretLists
    /\ signal = 0
    /\ pc = "auth"
    /\ next = 1
    /\ notified = FALSE
    /\ tokenMap = Empty
    /\ secrets = NoSecrets
    /\ ops = 0
    /\ signalled = TRUE
    /\ readFailed = FALSE
    /\ listed = Listing(files)

-----------------------------------------------------------------------------
(* The operator.                                                           *)

Operates == ops < MaxOps /\ ops' = ops + 1

WriteFile(f, content) ==
    /\ Operates
    /\ files' = [files EXCEPT ![f] = content]
    /\ listed' = listed \cup Listing(files')
    /\ signalled' = FALSE
    /\ UNCHANGED <<secretFiles, signal, pc, next, notified, tokenMap, secrets, readFailed>>

WriteSecret(f, s) ==
    /\ Operates
    /\ secretFiles' = [secretFiles EXCEPT ![f] = s]
    /\ signalled' = FALSE
    /\ UNCHANGED <<files, signal, pc, next, notified, tokenMap, secrets, readFailed, listed>>

\* Mutant: the channel has no room, and a signal during a reload is dropped.
SignalUnbuffered ==
    /\ Operates
    /\ notified
    /\ signal' = IF pc = "wait" THEN 1 ELSE signal
    /\ signalled' = TRUE
    /\ UNCHANGED <<disk, pc, next, notified, tokenMap, secrets, readFailed, listed>>

\* Mutant: signals queue up.
SignalQueued ==
    /\ Operates
    /\ notified
    /\ signal' = signal + 1
    /\ signalled' = TRUE
    /\ UNCHANGED <<disk, pc, next, notified, tokenMap, secrets, readFailed, listed>>

\* A signal that finds the channel full is dropped.
Signal ==
    /\ Operates
    /\ notified
    /\ signal' = 1
    /\ signalled' = TRUE
    /\ UNCHANGED <<disk, pc, next, notified, tokenMap, secrets, readFailed, listed>>

\* Nobody has asked for the signal yet: the runtime catches it and does
\* nothing, and what the operator changed before it stays unread.
SignalIgnored ==
    /\ Operates
    /\ ~notified
    /\ UNCHANGED <<disk, signal, pc, next, notified, tokenMap, secrets, signalled,
                   readFailed, listed>>

-----------------------------------------------------------------------------
(* The process.                                                            *)

\* Mutant: LoadAuth adds to the map it has.
BeginLoadKeeping ==
    /\ pc' = "auth"
    /\ next' = 1
    /\ UNCHANGED tokenMap
    /\ readFailed' = FALSE
    /\ listed' = Listing(files)

\* LoadAuth takes the lock and starts from an empty map.
BeginLoad ==
    /\ pc' = "auth"
    /\ next' = 1
    /\ tokenMap' = Empty
    /\ readFailed' = FALSE
    /\ listed' = Listing(files)

\* The process ends, whatever it is doing, and is started again: by the
\* operator, or by the supervisor of its container.
Restart ==
    /\ Operates
    /\ BeginLoad
    /\ signal' = 0
    /\ notified' = FALSE
    /\ secrets' = NoSecrets
    /\ signalled' = TRUE
    /\ UNCHANGED disk

\* A later file's rule for a token replaces an earlier one's.
LoadFile ==
    /\ pc = "auth" /\ next \in Files
    /\ tokenMap' = [t \in Tokens |-> IF files[next][t] # None
                                     THEN files[next][t] ELSE tokenMap[t]]
    /\ next' = next + 1
    /\ UNCHANGED <<disk, signal, pc, notified, secrets, ops, signalled, readFailed, listed>>

\* A file that cannot be read is skipped.
LoadFileFails ==
    /\ pc = "auth" /\ next \in Files
    /\ next' = next + 1
    /\ readFailed' = TRUE
    /\ UNCHANGED <<disk, signal, pc, notified, tokenMap, secrets, ops, signalled, listed>>

\* SharedSecrets.Load starts from an empty list, too.
BeginSecrets == pc' = "secrets" /\ next' = 1 /\ secrets' = NoSecrets

\* Without a directory to list, the map stays empty.
ReadDirFails ==
    /\ pc = "auth" /\ next = 1
    /\ BeginSecrets
    /\ readFailed' = TRUE
    /\ UNCHANGED <<disk, signal, notified, tokenMap, ops, signalled, listed>>

EndLoad ==
    /\ pc = "auth" /\ next = NFiles + 1
    /\ BeginSecrets
    /\ UNCHANGED <<disk, signal, notified, tokenMap, ops, signalled, readFailed, listed>>

\* Mutant: the secrets are loaded when the process starts, not again.
LoadSecretFileAtStart ==
    /\ pc = "secrets" /\ next \in SecretFiles
    /\ secrets' = IF notified THEN secrets
                  ELSE [secrets EXCEPT ![next] = secretFiles[next]]
    /\ next' = next + 1
    /\ UNCHANGED <<disk, signal, pc, notified, tokenMap, ops, signalled, readFailed, listed>>

\* What a file holds is appended to the list.
LoadSecretFile ==
    /\ pc = "secrets" /\ next \in SecretFiles
    /\ secrets' = [secrets EXCEPT ![next] = secretFiles[next]]
    /\ next' = next + 1
    /\ UNCHANGED <<disk, signal, pc, notified, tokenMap, ops, signalled, readFailed, listed>>

\* A file that cannot be read is skipped.
LoadSecretFileFails ==
    /\ pc = "secrets" /\ next \in SecretFiles
    /\ next' = next + 1
    /\ readFailed' = TRUE
    /\ UNCHANGED <<disk, signal, pc, notified, tokenMap, secrets, ops, signalled, listed>>

\* main goes on: to signal.Notify after the first load, back to the channel
\* after a reload.
AfterSecrets == pc' = IF notified THEN "wait" ELSE "notify"

\* Without a directory to list there are no secrets.
SecretDirFails ==
    /\ pc = "secrets" /\ next = 1
    /\ AfterSecrets
    /\ readFailed' = TRUE
    /\ UNCHANGED <<disk, signal, next, notified, tokenMap, secrets, ops, signalled, listed>>

EndSecrets ==
    /\ pc = "secrets" /\ next = NSecrets + 1
    /\ AfterSecrets
    /\ UNCHANGED <<disk, signal, next, notified, tokenMap, secrets, ops, signalled,
                   readFailed, listed>>

Notify ==
    /\ pc = "notify"
    /\ notified' = TRUE
    /\ pc' = "wait"
    /\ UNCHANGED <<disk, signal, next, tokenMap, secrets, ops, signalled, readFailed, listed>>

\* for range sig: ReloadAuth, then the secrets.
Receive ==
    /\ pc = "wait" /\ signal = 1
    /\ signal' = 0
    /\ BeginLoad
    /\ UNCHANGED <<disk, notified, secrets, ops, signalled>>

Process ==
    \/ LoadFile \/ LoadFileFails \/ ReadDirFails \/ EndLoad
    \/ LoadSecretFile \/ LoadSecretFileFails \/ SecretDirFails \/ EndSecrets
    \/ Notify \/ Receive

Next ==
    \/ \E f \in Files, content \in Contents : WriteFile(f, content)
    \/ \E f \in SecretFiles, s \in Secrets \cup {None} : WriteSecret(f, s)
    \/ Signal \/ SignalIgnored \/ Restart
    \/ Process

Spec == Init /\ [][Next]_vars

\* The process runs.
FairSpec == Spec /\ WF_vars(Process)

\* A request with token t (header or parameter) is let in: it waits for the
\* lock, so no half-loaded map decides about it.
Authorize(t, request) == pc # "auth" /\ <<tokenMap[t], request>> \in Allows

-----------------------------------------------------------------------------
\* r is what the first n files say of token t: the last one that lists it.
IsRule(n, t, r) ==
    \/ r = None /\ \A f \in 1 .. n : files[f][t] = None
    \/ \E f \in 1 .. n :
         /\ r = files[f][t]
         /\ r # None
         /\ \A g \in f + 1 .. n : files[g][t] = None

InForce ==
    /\ \A t \in Tokens : IsRule(NFiles, t, tokenMap[t])
    /\ secrets = secretFiles

\* Whenever the server waits with an empty channel, and it was started or
\* took note of a signal after the last change of a file, the files are in
\* force: the signals dropped because one was waiting lose nothing, wherever
\* they meet a reload.  A signal before signal.Notify is no such signal.
NoLostSignal ==
    pc = "wait" /\ signal = 0 /\ signalled /\ ~readFailed => InForce

\* A request is let in only by a rule that was in a file at some time since
\* the last load began, so after a token was revoked, or a rule narrowed, no
\* reload that begins later goes by the old one, whichever reads fail.
RevokedIsGone ==
    \A t \in Tokens, request \in Requests :
        Authorize(t, request) =>
            \E r \in Rules : <<t, r>> \in listed /\ <<r, request>> \in Allows

\* An operator that ends with a restart, or with a signal the process listens
\* for, has its files in force from some time on, unless a read fails.
SignalledSettles == <>[]signalled => <>[](InForce \/ readFailed)

\* The part of NoLostSignal that a load keeps on its way.
LoadInv ==
    signal = 0 /\ signalled /\ ~readFailed =>
        /\ pc = "auth" => \A t \in Tokens : IsRule(next - 1, t, tokenMap[t])
        /\ pc \in {"secrets", "notify", "wait"}
             => \A t \in Tokens : IsRule(NFiles, t, tokenMap[t])
        /\ pc = "secrets"
             => \A f \in SecretFiles : f < next => secrets[f] = secretFiles[f]
        /\ pc \in {"notify", "wait"} => secrets = secretFiles

\* What a load keeps on its way: the rules in the map are on record, and so
\* are those the files have now.
ListedInv ==
    /\ \A t \in Tokens : tokenMap[t] # None => <<t, tokenMap[t]>> \in listed
    /\ Listing(files) \subseteq listed

=============================================================================
