-------------------------- MODULE AuthReload_proofs --------------------------
(* Proofs about AuthReload, for every value of its constants.              *)
EXTENDS AuthReload, TLAPS

USE AuthAssumption DEF Files, Contents, SecretFiles, SecretLists

\* Every variable keeps its type; above all, the channel holds at most one
\* signal and the index of the next file stays in range.
THEOREM TypeCorrect == Spec => []TypeOK
<1> USE DEF TypeOK
<1>0. Empty \in Contents /\ NoSecrets \in SecretLists
  BY DEF Empty, NoSecrets
<1>1. ASSUME files \in [Files -> Contents]
      PROVE  Listing(files) \subseteq Tokens \X (Rules \cup {None})
  BY <1>1 DEF Listing
<1>2. Init => TypeOK
  <2> SUFFICES ASSUME Init PROVE TypeOK
    OBVIOUS
  <2>1. listed \subseteq Tokens \X (Rules \cup {None})
    BY <1>1 DEF Init
  <2>2. 1 \in 1 .. NFiles + 1 /\ 0 \in 0 .. MaxOps
    OBVIOUS
  <2> QED  BY <1>0, <2>1, <2>2 DEF Init
<1>3. TypeOK /\ [Next]_vars => TypeOK'
  <2> SUFFICES ASSUME TypeOK, [Next]_vars PROVE TypeOK'
    OBVIOUS
  <2>1. ASSUME NEW f \in Files, NEW content \in Contents, WriteFile(f, content)
        PROVE  TypeOK'
    <3>1. files' \in [Files -> Contents]
      BY <2>1 DEF WriteFile
    <3>2. Listing(files') \subseteq Tokens \X (Rules \cup {None})
      BY <3>1 DEF Listing
    <3>3. ops' \in 0 .. MaxOps
      BY <2>1 DEF WriteFile, Operates
    <3>4. listed' \subseteq Tokens \X (Rules \cup {None})
      BY <2>1, <3>2 DEF WriteFile
    <3>5. signalled' \in BOOLEAN
      BY <2>1 DEF WriteFile
    <3> QED  BY <2>1, <3>1, <3>3, <3>4, <3>5 DEF WriteFile
  <2>2. ASSUME NEW f \in SecretFiles, NEW s \in Secrets \cup {None}, WriteSecret(f, s)
        PROVE  TypeOK'
    <3>1. secretFiles' \in SecretLists /\ ops' \in 0 .. MaxOps
      BY <2>2 DEF WriteSecret, Operates
    <3>2. signalled' \in BOOLEAN
      BY <2>2 DEF WriteSecret
    <3> QED  BY <2>2, <3>1, <3>2 DEF WriteSecret
  <2>3. CASE Signal
    BY <2>3 DEF Signal, Operates, disk
  <2>4. CASE SignalIgnored
    BY <2>4 DEF SignalIgnored, Operates, disk
  <2>5. ASSUME BeginLoad, UNCHANGED disk, signal' \in {0, 1}, notified' \in BOOLEAN,
               secrets' \in SecretLists, ops' \in 0 .. MaxOps, signalled' \in BOOLEAN
        PROVE  TypeOK'
    <3>1. listed' \subseteq Tokens \X (Rules \cup {None})
      BY <2>5, <1>1 DEF BeginLoad
    <3>2. next' = 1 /\ pc' = "auth"
      BY <2>5 DEF BeginLoad
    <3>3. tokenMap' \in Contents
      BY <2>5, <1>0 DEF BeginLoad
    <3>4. readFailed' \in BOOLEAN
      BY <2>5 DEF BeginLoad
    <3> QED  BY <2>5, <3>1, <3>2, <3>3, <3>4 DEF disk
  <2>6. CASE Restart
    <3>1. ops' \in 0 .. MaxOps
      BY <2>6 DEF Restart, Operates
    <3> QED  BY <1>0, <2>5, <2>6, <3>1 DEF Restart
  <2>7. CASE LoadFile
    <3>1. files[next] \in Contents
      BY <2>7 DEF LoadFile
    <3>2. tokenMap' \in Contents
      BY <2>7, <3>1 DEF LoadFile
    <3> QED  BY <2>7, <3>2 DEF LoadFile, disk
  <2>8. CASE LoadFileFails
    BY <2>8 DEF LoadFileFails, disk
  <2>9. CASE ReadDirFails
    BY <1>0, <2>9 DEF ReadDirFails, BeginSecrets, disk
  <2>10. CASE EndLoad
    BY <1>0, <2>10 DEF EndLoad, BeginSecrets, disk
  <2>11. CASE LoadSecretFile
    BY <2>11 DEF LoadSecretFile, disk
  <2>12. CASE LoadSecretFileFails
    BY <2>12 DEF LoadSecretFileFails, disk
  <2>15. CASE SecretDirFails
    BY <2>15 DEF SecretDirFails, AfterSecrets, disk
  <2>16. CASE EndSecrets
    BY <2>16 DEF EndSecrets, AfterSecrets, disk
  <2>17. CASE Notify
    BY <2>17 DEF Notify, disk
  <2>13. CASE Receive
    BY <2>5, <2>13 DEF Receive
  <2>14. CASE UNCHANGED vars
    BY <2>14 DEF vars
  <2> QED
    BY <2>1, <2>2, <2>3, <2>4, <2>6, <2>7, <2>8, <2>9, <2>10, <2>11, <2>12,
       <2>13, <2>14, <2>15, <2>16, <2>17
       DEF Next, Process
<1> QED  BY <1>2, <1>3, PTL DEF Spec

\* The rule in force after a file is read, from the rule before it.
Overridden(n, t, r) == IF files[n][t] # None THEN files[n][t] ELSE r

\* A file read in its turn makes the rules of the files before it those of
\* the files up to it.
LEMMA NextFileExtendsRules ==
  ASSUME NEW n \in Files, NEW t \in Tokens, NEW r, IsRule(n - 1, t, r)
  PROVE  IsRule(n, t, Overridden(n, t, r))
<1>1. n \in Nat /\ 1 .. n = (1 .. (n - 1)) \cup {n} /\ n \in 1 .. n
  OBVIOUS
<1>2. CASE files[n][t] # None
  <2>1. n + 1 .. n = {}
    BY <1>1
  <2> QED  BY <1>1, <1>2, <2>1 DEF IsRule, Overridden
<1>3. CASE files[n][t] = None
  <2>1. \A f \in 1 .. (n - 1) : f + 1 .. n = (f + 1 .. (n - 1)) \cup {n}
    BY <1>1
  <2> QED  BY <1>1, <1>3, <2>1 DEF IsRule, Overridden
<1> QED  BY <1>2, <1>3

\* A load that nothing disturbs builds up the rules of the files it has
\* read, and every disturbance either waits as a signal or is on record.
LEMMA LoadInvInductive == TypeOK /\ LoadInv /\ [Next]_vars => LoadInv'
<1> SUFFICES ASSUME TypeOK, LoadInv, [Next]_vars PROVE LoadInv'
  OBVIOUS
<1>1. ASSUME NEW f \in Files, NEW content \in Contents, WriteFile(f, content)
      PROVE  LoadInv'
  BY <1>1 DEF WriteFile, LoadInv
<1>2. ASSUME NEW f \in SecretFiles, NEW s \in Secrets \cup {None}, WriteSecret(f, s)
      PROVE  LoadInv'
  BY <1>2 DEF WriteSecret, LoadInv
<1>3. CASE Signal
  BY <1>3 DEF Signal, LoadInv
<1>4. CASE SignalIgnored
  BY <1>4 DEF SignalIgnored, LoadInv, IsRule, disk
<1>5. ASSUME BeginLoad, UNCHANGED disk PROVE LoadInv'
  <2>1. \A t \in Tokens : IsRule(next - 1, t, tokenMap[t])'
    BY <1>5 DEF BeginLoad, IsRule, Empty
  <2> QED  BY <1>5, <2>1 DEF BeginLoad, LoadInv
<1>6. CASE Restart
  BY <1>5, <1>6 DEF Restart, disk
<1>7. CASE LoadFile
  <2> SUFFICES ASSUME (signal = 0 /\ signalled /\ ~readFailed)', NEW t \in Tokens
               PROVE  IsRule(next - 1, t, tokenMap[t])'
    BY <1>7 DEF LoadFile, LoadInv
  <2>1. IsRule(next - 1, t, tokenMap[t])
    BY <1>7 DEF LoadFile, LoadInv
  <2>2. next \in Files
    BY <1>7 DEF LoadFile
  <2>3. IsRule(next, t, Overridden(next, t, tokenMap[t]))
    BY <2>1, <2>2, NextFileExtendsRules
  <2>4. next' - 1 = next /\ files' = files
    BY <1>7, <2>2 DEF LoadFile, disk
  <2>5. tokenMap'[t] = Overridden(next, t, tokenMap[t])
    BY <1>7 DEF LoadFile, Overridden
  <2> QED  BY <2>3, <2>4, <2>5 DEF IsRule
<1>8. CASE LoadFileFails
  BY <1>8 DEF LoadFileFails, LoadInv
<1>9. CASE ReadDirFails
  BY <1>9 DEF ReadDirFails, LoadInv
<1>10. CASE EndLoad
  BY <1>10 DEF EndLoad, BeginSecrets, LoadInv, IsRule, disk
<1>11. CASE LoadSecretFile
  <2>1. \A f \in SecretFiles : f < next' => f < next \/ f = next
    BY <1>11 DEF LoadSecretFile, TypeOK
  <2> QED  BY <1>11, <2>1 DEF LoadSecretFile, TypeOK, LoadInv, IsRule, disk
<1>12. CASE LoadSecretFileFails
  BY <1>12 DEF LoadSecretFileFails, LoadInv
<1>15. CASE SecretDirFails
  BY <1>15 DEF SecretDirFails, LoadInv
<1>16. CASE EndSecrets
  <2>1. \A f \in SecretFiles : f < next
    BY <1>16 DEF EndSecrets
  <2> QED  BY <1>16, <2>1 DEF EndSecrets, AfterSecrets, TypeOK, LoadInv, IsRule, disk
<1>17. CASE Notify
  BY <1>17 DEF Notify, LoadInv, IsRule, disk
<1>13. CASE Receive
  BY <1>5, <1>13 DEF Receive, disk
<1>14. CASE UNCHANGED vars
  BY <1>14 DEF vars, LoadInv, IsRule
<1> QED
  BY <1>1, <1>2, <1>3, <1>4, <1>6, <1>7, <1>8, <1>9, <1>10, <1>11, <1>12,
     <1>13, <1>14, <1>15, <1>16, <1>17
     DEF Next, Process

\* Signals that are dropped because one waits lose nothing: at rest, after a
\* last signal the process listened for or a start, the files are in force.
THEOREM NoLostSignalCorrect == Spec => []NoLostSignal
<1>1. Init => LoadInv
  BY DEF Init, LoadInv, IsRule, Empty
<1>2. LoadInv => NoLostSignal
  BY DEF LoadInv, NoLostSignal, InForce
<1> QED  BY <1>1, <1>2, TypeCorrect, LoadInvInductive, PTL DEF Spec

\* Each file that is read adds rules that are on record already.
LEMMA ListedInvInductive == TypeOK /\ ListedInv /\ [Next]_vars => ListedInv'
<1> SUFFICES ASSUME TypeOK, ListedInv, [Next]_vars PROVE ListedInv'
  OBVIOUS
<1> USE DEF ListedInv, Listing
<1>1. ASSUME NEW f \in Files, NEW content \in Contents, WriteFile(f, content)
      PROVE  ListedInv'
  BY <1>1 DEF WriteFile
<1>2. ASSUME UNCHANGED <<files, tokenMap, listed>> PROVE ListedInv'
  BY <1>2
<1>4. ASSUME BeginLoad, UNCHANGED disk PROVE ListedInv'
  BY <1>4 DEF BeginLoad, disk, Empty
<1>5. CASE LoadFile
  <2>1. ASSUME NEW t \in Tokens, tokenMap'[t] # None
        PROVE  <<t, tokenMap'[t]>> \in listed
    BY <1>5, <2>1 DEF LoadFile
  <2> QED  BY <1>5, <2>1 DEF LoadFile, disk
<1>6. CASE Process
  BY <1>2, <1>4, <1>5, <1>6
     DEF Process, LoadFileFails, ReadDirFails, EndLoad, BeginSecrets, LoadSecretFile,
         LoadSecretFileFails, SecretDirFails, EndSecrets, Notify, Receive, disk
<1>7. CASE Restart
  BY <1>4, <1>7 DEF Restart
<1> QED
  BY <1>1, <1>2, <1>6, <1>7 DEF Next, WriteSecret, Signal, SignalIgnored, vars, disk

\* A reload that began after a token was revoked does not let it in, and one
\* after a rule was narrowed does not go by the old one.
THEOREM RevokedIsGoneCorrect == Spec => []RevokedIsGone
<1>1. Init => ListedInv
  BY DEF Init, ListedInv, Empty
<1>2. ListedInv => RevokedIsGone
  <2> SUFFICES ASSUME ListedInv, NEW t \in Tokens, NEW request \in Requests,
                      Authorize(t, request)
               PROVE  \E r \in Rules : <<t, r>> \in listed /\ <<r, request>> \in Allows
    BY DEF RevokedIsGone
  <2>1. tokenMap[t] \in Rules /\ <<tokenMap[t], request>> \in Allows
    BY DEF Authorize
  <2> QED  BY <2>1 DEF ListedInv
<1> QED  BY <1>1, <1>2, TypeCorrect, ListedInvInductive, PTL DEF Spec

=============================================================================
