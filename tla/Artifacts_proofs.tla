-------------------------- MODULE Artifacts_proofs --------------------------
(* Proofs about Artifacts, for any writers, readers and bodies.            *)
EXTENDS Artifacts, SequenceTheorems, TLAPS

LEMMA PrefixIsSeq ==
    ASSUME NEW b \in Bodies, NEW n \in Nat
    PROVE  Prefix(b, n) \in Seq(Chunks) /\ Len(Prefix(b, n)) = n
  BY DEF Prefix, Chunks

LEMMA NoFileIsNoSeq == NoFile \notin Seq(Chunks) /\ <<>> \in Seq(Chunks)
  BY ArtifactsAssumption DEF Chunks

LEMMA WrittenIsSeq ==
    ASSUME NEW f \in Seq(Chunks), NEW i \in Nat \ {0}, NEW c \in Chunks
    PROVE  /\ Written(f, i, c) \in Seq(Chunks)
           /\ Len(Written(f, i, c)) = IF i > Len(f) THEN i ELSE Len(f)
  BY DEF Written, Chunks

\* A chunk written where a file ends is appended to it.
LEMMA WrittenAppends ==
    ASSUME NEW f \in Seq(Chunks), NEW c \in Chunks
    PROVE  Written(f, Len(f) + 1, c) = Append(f, c)
  <1>1. /\ Written(f, Len(f) + 1, c) \in Seq(Chunks)
        /\ Len(Written(f, Len(f) + 1, c)) = Len(f) + 1
    <2> DEFINE i == Len(f) + 1
    <2>1. i \in Nat \ {0} /\ i > Len(f)
      OBVIOUS
    <2> HIDE DEF i
    <2>2. Written(f, i, c) \in Seq(Chunks) /\ Len(Written(f, i, c)) = i
      BY <2>1, WrittenIsSeq
    <2> QED BY <2>2 DEF i
  <1>2. \A j \in 1 .. Len(f) + 1 :
          Written(f, Len(f) + 1, c)[j] = IF j = Len(f) + 1 THEN c ELSE f[j]
    BY DEF Written
  <1>3. Append(f, c) \in Seq(Chunks) /\ Len(Append(f, c)) = Len(f) + 1
    OBVIOUS
  <1>4. \A j \in 1 .. Len(f) + 1 : Append(f, c)[j] = IF j = Len(f) + 1 THEN c ELSE f[j]
    OBVIOUS
  <1> QED BY <1>1, <1>2, <1>3, <1>4, SeqEqual

\* The next chunk of a body after its first n makes its first n + 1.
LEMMA PrefixGrows ==
    ASSUME NEW b \in Bodies, NEW n \in Nat
    PROVE  Append(Prefix(b, n), <<b, n + 1>>) = Prefix(b, n + 1)
  BY PrefixIsSeq DEF Prefix

\* And what was there stays.
LEMMA BeginsAppended ==
    ASSUME NEW s \in Seq(Chunks), NEW f \in Seq(Chunks), NEW c \in Chunks, Begins(s, f)
    PROVE  Begins(s, Append(f, c))
  BY DEF Begins

-----------------------------------------------------------------------------
\* Whoever works on the file has one.
OpenInv ==
    /\ \A w \in Writers : Uploading(w) => file # NoFile
    /\ \A r \in Readers : get[r].step # "idle" => file # NoFile
    /\ calm # {} => file # NoFile
    /\ \A w \in Writers : put[w].step = "create" => put[w].copied = 0

SafeInv == TypeOK /\ OpenInv

LEMMA InitSafe == Init => SafeInv
  <1> SUFFICES ASSUME Init PROVE SafeInv
    OBVIOUS
  <1>1. put \in [Writers -> Uploads] /\ \A w \in Writers : put[w].step = "idle"
    BY DEF Init, Uploads
  <1>2. get \in [Readers -> Downloads]
    BY DEF Init, Downloads
  <1>3. \A r \in Readers : get[r].step = "idle"
    BY DEF Init
  <1>4. TypeOK
    BY <1>1, <1>2 DEF Init, TypeOK
  <1>5. OpenInv
    BY <1>1, <1>3 DEF Init, OpenInv, Uploading
  <1> QED BY <1>4, <1>5 DEF SafeInv

LEMMA NextSafe == SafeInv /\ [Next]_vars => SafeInv'
  <1> SUFFICES ASSUME SafeInv, [Next]_vars PROVE SafeInv'
    OBVIOUS
  <1> USE ArtifactsAssumption DEF SafeInv
  <1>1. ASSUME NEW w \in Writers, NEW b \in Bodies, PutStarts(w, b) PROVE SafeInv'
    <2>1. put' \in [Writers -> Uploads]
      BY <1>1 DEF PutStarts, TypeOK, Uploads
    <2>2. \A v \in Writers : Uploading(v)' => Uploading(v)
      BY <1>1 DEF PutStarts, TypeOK, Uploading
    <2> QED BY <1>1, <2>1, <2>2 DEF PutStarts, TypeOK, OpenInv
  <1>2. ASSUME NEW w \in Writers, CreateFails(w) PROVE SafeInv'
    <2>1. put' \in [Writers -> Uploads]
      <3>1. put[w] \in Uploads
        BY DEF TypeOK
      <3>2. [put[w] EXCEPT !.step = "idle", !.code = "500"] \in Uploads
        BY <3>1 DEF Uploads
      <3>3. put' = [put EXCEPT ![w] = [put[w] EXCEPT !.step = "idle", !.code = "500"]]
        BY <1>2 DEF CreateFails, TypeOK
      <3> QED BY <3>2, <3>3 DEF TypeOK
    <2>2. \A v \in Writers : Uploading(v)' => Uploading(v)
      BY <1>2 DEF CreateFails, TypeOK, Uploading
    <2> QED BY <1>2, <2>1, <2>2 DEF CreateFails, TypeOK, OpenInv
  <1>3. ASSUME NEW w \in Writers, Create(w) PROVE SafeInv'
    <2>1. file' \in Seq(Chunks) /\ file' # NoFile
      BY <1>3, NoFileIsNoSeq DEF Create
    <2>2. mixed' \in BOOLEAN
      BY <1>3 DEF Create, NoUpload
    <2>3. put' \in [Writers -> Uploads]
      BY <1>3 DEF Create, TypeOK, Uploads
    <2>4. TypeOK'
      BY <1>3, <2>1, <2>2, <2>3 DEF Create, TypeOK
    <2>5. OpenInv'
      BY <1>3, <2>1 DEF Create, OpenInv
    <2> QED BY <2>4, <2>5
  <1>4. ASSUME NEW w \in Writers, CopyChunk(w) PROVE SafeInv'
    <2> DEFINE i == put[w].copied + 1
    <2>1. file \in Seq(Chunks) /\ put[w].body \in Bodies /\ i \in Nat \ {0}
      BY <1>4 DEF CopyChunk, TypeOK, OpenInv, Uploading, Uploads
    <2>2. <<put[w].body, i>> \in Chunks
      <3> HIDE DEF i
      <3> QED BY <2>1 DEF Chunks
    <2>3. file' = Written(file, i, <<put[w].body, i>>)
      BY <1>4 DEF CopyChunk
    <2>4. file' \in Seq(Chunks) /\ file' # NoFile
      <3> HIDE DEF i
      <3> QED BY <2>1, <2>2, <2>3, WrittenIsSeq DEF Chunks
    <2>5. put' \in [Writers -> Uploads]
      BY <1>4, <2>1 DEF CopyChunk, TypeOK, Uploads
    <2>6. TypeOK'
      BY <1>4, <2>4, <2>5 DEF CopyChunk, TypeOK
    <2>7. OpenInv'
      <3>1. \A v \in Writers : put'[v].step = "create" => v # w /\ put'[v] = put[v]
        BY <1>4 DEF CopyChunk, TypeOK, Uploads, Uploading
      <3> QED BY <1>4, <2>4, <3>1 DEF CopyChunk, OpenInv
    <2> QED BY <2>6, <2>7
  <1>5. ASSUME NEW w \in Writers, PutEnds(w) PROVE SafeInv'
    <2>1. acked' \in Seq(Chunks)
      BY <1>5, PrefixIsSeq DEF PutEnds, TypeOK, Uploads
    <2>2. put' \in [Writers -> Uploads]
      BY <1>5 DEF PutEnds, TypeOK, Uploads
    <2>3. \A v \in Writers : Uploading(v)' => Uploading(v)
      BY <1>5 DEF PutEnds, TypeOK, Uploading
    <2> QED BY <1>5, <2>1, <2>2, <2>3 DEF PutEnds, TypeOK, OpenInv
  <1>12. ASSUME NEW w \in Writers, ShortWrite(w) PROVE SafeInv'
    <2> DEFINE i == put[w].copied + 1
    <2>1. file \in Seq(Chunks) /\ put[w].body \in Bodies /\ i \in Nat \ {0}
      BY <1>12 DEF ShortWrite, TypeOK, OpenInv, Uploading, Uploads
    <2>2. Fragment(put[w].body, i) \in Chunks
      <3> HIDE DEF i
      <3> QED BY <2>1 DEF Chunks, Fragment
    <2>3. file' = Written(file, i, Fragment(put[w].body, i))
      BY <1>12 DEF ShortWrite
    <2>4. file' \in Seq(Chunks) /\ file' # NoFile
      <3> HIDE DEF i
      <3>1. file' \in Seq(Chunks)
        BY <2>1, <2>2, <2>3, WrittenIsSeq
      <3> QED BY <3>1, NoFileIsNoSeq
    <2>5. put' \in [Writers -> Uploads]
      BY <1>12 DEF ShortWrite, TypeOK, Uploads
    <2>6. TypeOK'
      BY <1>12, <2>4, <2>5 DEF ShortWrite, TypeOK
    <2>7. OpenInv'
      <3>1. \A v \in Writers : put'[v].step = "create" => v # w /\ put'[v] = put[v]
        BY <1>12 DEF ShortWrite, TypeOK, Uploads
      <3> QED BY <1>12, <2>4, <3>1 DEF ShortWrite, OpenInv
    <2> QED BY <2>6, <2>7
  <1>6. ASSUME NEW r \in Readers, Open(r) PROVE SafeInv'
    <2>1. get' \in [Readers -> Downloads]
      BY <1>6 DEF Open, TypeOK, Downloads
    <2>2. \A q \in Readers : get'[q].step # "idle" => file # NoFile
      BY <1>6 DEF Open, TypeOK, OpenInv
    <2> QED BY <1>6, <2>1, <2>2 DEF Open, TypeOK, OpenInv, Uploading
  <1>7. ASSUME NEW r \in Readers, TakeSize(r) PROVE SafeInv'
    <2>1. file \in Seq(Chunks) /\ file # NoFile
      BY <1>7 DEF TakeSize, TypeOK, OpenInv
    <2>2. get' \in [Readers -> Downloads]
      <3>1. Len(file) \in Nat
        BY <2>1
      <3>2. [get[r] EXCEPT !.step = "copy", !.size = Len(file)] \in Downloads
        <4> HIDE DEF SafeInv
        <4>1. get[r] \in Downloads
          BY DEF SafeInv, TypeOK
        <4> QED BY <3>1, <4>1 DEF Downloads
      <3>3. get' = [get EXCEPT ![r] = [get[r] EXCEPT !.step = "copy", !.size = Len(file)]]
        BY <1>7 DEF TakeSize, TypeOK
      <3> QED BY <3>2, <3>3 DEF TypeOK
    <2> QED BY <1>7, <2>1, <2>2 DEF TakeSize, TypeOK, OpenInv, Uploading
  <1>8. ASSUME NEW r \in Readers, SendChunk(r) PROVE SafeInv'
    <2> DEFINE sent == get[r].sent
    <2>1. file \in Seq(Chunks) /\ file # NoFile /\ sent \in Seq(Chunks)
      BY <1>8 DEF SendChunk, TypeOK, OpenInv, Downloads
    <2>2. Append(sent, file[Len(sent) + 1]) \in Seq(Chunks)
      <3>1. Len(sent) < Len(file)
        BY <1>8 DEF SendChunk
      <3> HIDE DEF sent
      <3> QED BY <2>1, <3>1
    <2>3. get' = [get EXCEPT ![r].sent = Append(sent, file[Len(sent) + 1])]
      BY <1>8 DEF SendChunk, TypeOK
    <2>4. get' \in [Readers -> Downloads]
      <3> HIDE DEF sent
      <3> QED BY <2>2, <2>3 DEF TypeOK, Downloads
    <2> QED BY <1>8, <2>1, <2>4 DEF SendChunk, TypeOK, OpenInv, Uploading
  <1>9. ASSUME NEW r \in Readers, GetEnds(r) PROVE SafeInv'
    <2>1. get' \in [Readers -> Downloads]
      <3>1. PICK c \in {"whole", "short"} :
                get' = [get EXCEPT ![r] = [get[r] EXCEPT !.step = "idle", !.code = c]]
        BY <1>9 DEF GetEnds, TypeOK
      <3>2. get[r] \in Downloads
        BY DEF TypeOK
      <3>3. [get[r] EXCEPT !.step = "idle", !.code = c] \in Downloads
        BY <3>2 DEF Downloads
      <3> QED BY <3>1, <3>3 DEF TypeOK
    <2>2. \A q \in Readers : get'[q].step # "idle" => get[q].step # "idle"
      BY <1>9 DEF GetEnds, TypeOK
    <2> QED BY <1>9, <2>1, <2>2 DEF GetEnds, TypeOK, OpenInv, Uploading
  <1>10. ASSUME Crash PROVE SafeInv'
    <2>1. put' \in [Writers -> Uploads] /\ \A w \in Writers : put'[w].step = "idle"
      BY <1>10 DEF Crash, TypeOK, Uploads
    <2>2. ASSUME NEW r \in Readers PROVE get'[r] \in Downloads /\ get'[r].step = "idle"
      <3>1. get[r] \in Downloads
        BY DEF TypeOK
      <3>2. get'[r] = [get[r] EXCEPT !.step = "idle", !.sent = <<>>, !.code = "none"]
        BY <1>10 DEF Crash
      <3> QED BY <3>1, <3>2, NoFileIsNoSeq DEF Downloads
    <2>3. get' \in [Readers -> Downloads]
      BY <1>10, <2>2 DEF Crash
    <2> QED BY <1>10, <2>1, <2>2, <2>3 DEF Crash, TypeOK, OpenInv, Uploading
  <1>11. ASSUME UNCHANGED vars PROVE SafeInv'
    BY <1>11 DEF vars, TypeOK, OpenInv, Uploading
  <1> QED
    BY <1>1, <1>2, <1>3, <1>4, <1>5, <1>6, <1>7, <1>8, <1>9, <1>10, <1>11, <1>12
       DEF Next, Upload, Serve

LEMMA SafeInvariant == Spec => []SafeInv
  BY InitSafe, NextSafe, PTL DEF Spec

\* Every variable keeps its type.
THEOREM TypeCorrect == Spec => []TypeOK
  BY SafeInvariant, PTL DEF SafeInv

-----------------------------------------------------------------------------
\* Uploads that do not overlap are one at a time, and the answer to the last
\* is forgotten when the next empties the file.
AloneInv ==
    ~mixed => \A w \in Writers : Uploading(w) =>
                /\ acked = NoFile
                /\ \A v \in Writers : Uploading(v) => v = w

\* After a write cut short the file is what was copied whole, and a fragment.
CutInv ==
    ~mixed => \A w \in Writers : put[w].step = "cut" =>
                /\ put[w].copied < Size[put[w].body]
                /\ file = Append(Prefix(put[w].body, put[w].copied),
                                 Fragment(put[w].body, put[w].copied + 1))

HashInv == AloneInv /\ CutInv /\ HashNamesFile

LEMMA NextHash == SafeInv /\ HashInv /\ [Next]_vars => HashInv'
  <1> SUFFICES ASSUME SafeInv, HashInv, [Next]_vars, ~mixed' PROVE HashInv'
    BY DEF HashInv, AloneInv, CutInv, HashNamesFile
  <1> USE DEF SafeInv, HashInv
  \* Steps that leave the file and the uploads alone.
  <1>0. ASSUME UNCHANGED <<file, acked, mixed>>,
               \A w \in Writers : Uploading(w) \/ Uploading(w)' => put'[w] = put[w]
        PROVE  HashInv'
    <2>1. \A w \in Writers : Uploading(w)' <=> Uploading(w)
      BY <1>0 DEF Uploading
    <2>2. AloneInv'
      BY <1>0, <2>1 DEF AloneInv
    <2>3. HashNamesFile'
      BY <1>0, <2>1 DEF HashNamesFile, NoUpload, CutAfter, Uploading
    <2>4. CutInv'
      BY <1>0 DEF CutInv, Uploading
    <2> QED BY <2>2, <2>3, <2>4
  <1>1. ASSUME NEW w \in Writers, NEW b \in Bodies, PutStarts(w, b) PROVE HashInv'
    BY <1>0, <1>1 DEF PutStarts, TypeOK, Uploading
  <1>2. ASSUME NEW w \in Writers, CreateFails(w) PROVE HashInv'
    BY <1>0, <1>2 DEF CreateFails, TypeOK, Uploading
  <1>3. ASSUME NEW w \in Writers, Create(w) PROVE HashInv'
    <2>1. NoUpload /\ file' = <<>> /\ acked' = NoFile
      BY <1>3 DEF Create
    <2>2. \A v \in Writers : Uploading(v)' => v = w
      BY <1>3, <2>1 DEF Create, NoUpload, Uploading, TypeOK
    <2>3. put'[w].copied = 0
      BY <1>3 DEF Create, OpenInv, TypeOK, Uploads
    <2>4. Prefix(put'[w].body, 0) = <<>>
      BY DEF Prefix
    <2>5. AloneInv'
      BY <2>1, <2>2 DEF AloneInv
    <2>6. HashNamesFile'
      BY <2>1, <2>2, <2>3, <2>4 DEF HashNamesFile, Uploading
    <2>7. CutInv'
      <3>1. put'[w].step = "copy"
        BY <1>3 DEF Create, TypeOK, Uploads
      <3> QED BY <2>2, <3>1 DEF CutInv, Uploading
    <2> QED BY <2>5, <2>6, <2>7
  <1>4. ASSUME NEW w \in Writers, CopyChunk(w) PROVE HashInv'
    <2> DEFINE b == put[w].body
               n == put[w].copied
    <2>1. b \in Bodies /\ n \in Nat /\ put[w].step = "copy" /\ Uploading(w) /\ ~mixed
      BY <1>4 DEF CopyChunk, TypeOK, Uploads, Uploading
    <2>2. put' = [put EXCEPT ![w].copied = n + 1] /\ acked' = acked
      BY <1>4 DEF CopyChunk
    <2>3. \A v \in Writers : (Uploading(v)' <=> Uploading(v)) /\ (Uploading(v) => v = w)
      BY <2>1, <2>2 DEF AloneInv, TypeOK, Uploading
    <2>4. file = Prefix(b, n)
      BY <2>1 DEF HashNamesFile
    <2>5. file' = Prefix(b, n + 1)
      <3>1. file' = Written(file, n + 1, <<b, n + 1>>)
        BY <1>4 DEF CopyChunk
      <3> HIDE DEF b, n
      <3>2. <<b, n + 1>> \in Chunks
        BY <2>1 DEF Chunks
      <3> QED BY <2>1, <2>4, <3>1, <3>2, WrittenAppends, PrefixGrows, PrefixIsSeq
    <2>6. put'[w].body = b /\ put'[w].copied = n + 1 /\ put'[w].step = "copy"
      BY <2>1, <2>2 DEF TypeOK, Uploads
    <2>7. AloneInv'
      BY <2>1, <2>2, <2>3 DEF AloneInv
    <2>8. HashNamesFile'
      BY <2>1, <2>3, <2>5, <2>6 DEF HashNamesFile, NoUpload, Uploading
    <2>9. CutInv'
      BY <2>3, <2>6 DEF CutInv, Uploading
    <2> QED BY <2>7, <2>8, <2>9
  <1>5. ASSUME NEW w \in Writers, PutEnds(w) PROVE HashInv'
    <2> DEFINE b == put[w].body
               n == put[w].copied
    <2>1. \A v \in Writers : Uploading(v)' => Uploading(v) /\ v # w
      BY <1>5 DEF PutEnds, TypeOK, Uploading
    <2>2. NoUpload'
      BY <1>5, <2>1 DEF PutEnds, AloneInv, NoUpload
    <2>3. file' = file /\ acked' = Prefix(b, n) /\ b \in Bodies /\ n \in Nat /\ ~mixed
      BY <1>5 DEF PutEnds, TypeOK, Uploads
    <2>4. file = acked' \/ CutAfter(acked')
      <3>1. CASE put[w].step = "copy"
        BY <2>3, <3>1 DEF HashNamesFile
      <3>2. CASE put[w].step = "cut"
        <4>1. n < Size[b] /\ file = Append(Prefix(b, n), Fragment(b, n + 1))
          BY <2>3, <3>2 DEF CutInv
        <4> HIDE DEF b, n
        <4>2. Len(acked') = n
          BY <2>3, PrefixIsSeq
        <4> QED BY <2>3, <4>1, <4>2 DEF CutAfter
      <3> QED BY <1>5, <3>1, <3>2 DEF PutEnds, Uploading
    <2>5. HashNamesFile'
      BY <2>2, <2>3, <2>4 DEF HashNamesFile, NoUpload, Uploading, CutAfter
    <2> QED BY <2>2, <2>5 DEF AloneInv, CutInv, NoUpload, Uploading
  <1>10. ASSUME NEW w \in Writers, ShortWrite(w) PROVE HashInv'
    <2> DEFINE b == put[w].body
               n == put[w].copied
    <2>1. /\ b \in Bodies /\ n \in Nat /\ n < Size[b]
          /\ put[w].step = "copy" /\ Uploading(w) /\ ~mixed
      BY <1>10 DEF ShortWrite, TypeOK, Uploads, Uploading
    <2>2. put' = [put EXCEPT ![w].step = "cut"] /\ acked' = acked
      BY <1>10 DEF ShortWrite
    <2>3. \A v \in Writers : (Uploading(v)' <=> Uploading(v)) /\ (Uploading(v) => v = w)
      BY <2>1, <2>2 DEF AloneInv, TypeOK, Uploads, Uploading
    <2>4. file = Prefix(b, n)
      BY <2>1 DEF HashNamesFile
    <2>5. file' = Append(Prefix(b, n), Fragment(b, n + 1))
      <3>1. file' = Written(file, n + 1, Fragment(b, n + 1))
        BY <1>10 DEF ShortWrite
      <3> HIDE DEF b, n
      <3>2. Fragment(b, n + 1) \in Chunks
        BY <2>1 DEF Chunks, Fragment
      <3> QED BY <2>1, <2>4, <3>1, <3>2, WrittenAppends, PrefixIsSeq
    <2>6. put'[w].body = b /\ put'[w].copied = n /\ put'[w].step = "cut"
      BY <2>2 DEF TypeOK, Uploads
    <2>7. AloneInv'
      BY <2>1, <2>2, <2>3 DEF AloneInv
    <2>8. HashNamesFile'
      BY <2>1, <2>3, <2>6 DEF HashNamesFile, NoUpload, Uploading
    <2>9. CutInv'
      BY <2>1, <2>3, <2>5, <2>6 DEF CutInv, Uploading
    <2> QED BY <2>7, <2>8, <2>9
  <1>6. ASSUME NEW r \in Readers, Open(r) PROVE HashInv'
    BY <1>0, <1>6 DEF Open, Uploading
  <1>7. ASSUME NEW r \in Readers, Serve(r) PROVE HashInv'
    BY <1>0, <1>7 DEF Serve, TakeSize, SendChunk, GetEnds, Uploading
  <1>8. ASSUME Crash PROVE HashInv'
    <2>1. NoUpload' /\ UNCHANGED <<file, acked, mixed>>
      <3>1. \A w \in Writers : put'[w].step = "idle"
        BY <1>8 DEF Crash, TypeOK, Uploads
      <3> QED BY <1>8, <3>1 DEF Crash, NoUpload, Uploading
    <2>2. ASSUME acked # NoFile PROVE file = acked \/ CutAfter(acked)
      <3>1. NoUpload /\ ~mixed
        BY <2>1, <2>2 DEF AloneInv, NoUpload
      <3> QED BY <2>2, <3>1 DEF HashNamesFile
    <2> QED BY <2>1, <2>2 DEF AloneInv, CutInv, HashNamesFile, NoUpload, Uploading, CutAfter
  <1>9. ASSUME UNCHANGED vars PROVE HashInv'
    BY <1>0, <1>9 DEF vars, Uploading
  <1> QED
    BY <1>1, <1>2, <1>3, <1>4, <1>5, <1>6, <1>7, <1>8, <1>9, <1>10
       DEF Next, Upload

LEMMA HashInvariant == Spec => []HashInv
  <1>1. Init => HashInv
    BY DEF Init, HashInv, AloneInv, CutInv, HashNamesFile, NoUpload, Uploading
  <1> QED BY <1>1, NextHash, SafeInvariant, PTL DEF Spec

\* PutArtifact: without overlapping uploads, the hash that was answered names
\* what is on disk, also when io.Copy failed (main.go:37), save for a fragment
\* after it when a write was cut short.
THEOREM HashNamesFileCorrect == Spec => []HashNamesFile
  BY HashInvariant, PTL DEF HashInv

-----------------------------------------------------------------------------
\* Nothing is sent before the size is announced.
SeekInv == \A r \in Readers : get[r].step = "seek" => get[r].sent = <<>>

ReadInv == SeekInv /\ CalmGetIsOneBody

LEMMA BeginsEmpty == ASSUME NEW f \in Seq(Chunks) PROVE Begins(<<>>, f)
  BY DEF Begins

LEMMA NextRead == SafeInv /\ HashInv /\ ReadInv /\ [Next]_vars => ReadInv'
  <1> SUFFICES ASSUME SafeInv, HashInv, ReadInv, [Next]_vars PROVE ReadInv'
    OBVIOUS
  <1> USE DEF SafeInv, ReadInv
  <1>0. calm # {} => file \in Seq(Chunks)
    BY DEF OpenInv, TypeOK
  <1>1. ASSUME UNCHANGED <<file, get, mixed, calm>> PROVE ReadInv'
    BY <1>1 DEF SeekInv, CalmGetIsOneBody
  <1>2. ASSUME NEW w \in Writers, Create(w) PROVE ReadInv'
    BY <1>2 DEF Create, SeekInv, CalmGetIsOneBody
  \* An upload that is alone writes where the file ends.
  <1>3. ASSUME NEW w \in Writers, CopyChunk(w) \/ ShortWrite(w) PROVE ReadInv'
    <2> DEFINE b == put[w].body
               n == put[w].copied
    <2>1. b \in Bodies /\ n \in Nat /\ put[w].step = "copy"
      BY <1>3 DEF CopyChunk, ShortWrite, TypeOK, Uploads
    <2>2. UNCHANGED <<get, mixed, calm>>
      BY <1>3 DEF CopyChunk, ShortWrite
    <2>3. PICK c \in Chunks : file' = Written(file, n + 1, c)
      <3>1. /\ <<b, n + 1>> \in Chunks
            /\ Fragment(b, n + 1) \in Chunks
        <4> HIDE DEF b, n
        <4> QED BY <2>1 DEF Chunks, Fragment
      <3> QED BY <1>3, <3>1 DEF CopyChunk, ShortWrite
    <2>4. ASSUME ~mixed, NEW r \in calm PROVE Begins(get[r].sent, file')
      <3>1. file = Prefix(b, n)
        BY <2>1, <2>4 DEF HashInv, HashNamesFile
      <3>2. get[r].sent \in Seq(Chunks) /\ Begins(get[r].sent, file)
        BY <2>4 DEF TypeOK, Downloads, CalmGetIsOneBody
      <3> HIDE DEF b, n
      <3>3. file \in Seq(Chunks) /\ file' = Append(file, c)
        BY <2>1, <2>3, <3>1, PrefixIsSeq, WrittenAppends
      <3> QED BY <3>2, <3>3, BeginsAppended
    <2> QED BY <2>2, <2>4 DEF SeekInv, CalmGetIsOneBody
  <1>4. ASSUME NEW r \in Readers, Open(r) PROVE ReadInv'
    <2>1. /\ UNCHANGED <<file, mixed, calm>>
          /\ get'[r].sent = <<>>
          /\ \A q \in Readers : q # r => get'[q] = get[q]
      BY <1>4 DEF Open, TypeOK
    <2> QED BY <1>0, <2>1, BeginsEmpty DEF SeekInv, CalmGetIsOneBody, TypeOK
  <1>5. ASSUME NEW r \in Readers, TakeSize(r) PROVE ReadInv'
    <2>1. /\ UNCHANGED <<file, mixed>> /\ calm' = calm \cup {r}
          /\ get'[r].sent = <<>> /\ get'[r].step = "copy"
          /\ \A q \in Readers : q # r => get'[q] = get[q]
      BY <1>5 DEF TakeSize, TypeOK, Downloads, SeekInv
    <2>2. file \in Seq(Chunks)
      BY <1>5 DEF TakeSize, OpenInv, TypeOK
    <2> QED BY <2>1, <2>2, BeginsEmpty DEF SeekInv, CalmGetIsOneBody, TypeOK
  <1>6. ASSUME NEW r \in Readers, SendChunk(r) PROVE ReadInv'
    <2> DEFINE sent == get[r].sent
               more == Append(sent, file[Len(sent) + 1])
    <2>1. file \in Seq(Chunks) /\ sent \in Seq(Chunks) /\ Len(sent) < Len(file)
      BY <1>6 DEF SendChunk, TypeOK, OpenInv, Downloads
    <2>2. /\ UNCHANGED <<file, mixed, calm>>
          /\ get'[r].sent = more /\ get'[r].step = "copy"
          /\ \A q \in Readers : q # r => get'[q] = get[q]
      BY <1>6 DEF SendChunk, TypeOK, Downloads
    <2>3. ASSUME Begins(sent, file) PROVE Begins(more, file)
      <3> HIDE DEF sent
      <3>1. Len(more) = Len(sent) + 1 /\ more[Len(sent) + 1] = file[Len(sent) + 1]
        BY <2>1
      <3>2. \A i \in 1 .. Len(sent) : more[i] = sent[i]
        BY <2>1
      <3> QED BY <2>1, <2>3, <3>1, <3>2 DEF Begins
    <2> HIDE DEF sent, more
    <2>4. ~mixed => \A q \in calm : Begins(get'[q].sent, file)
      BY <2>2, <2>3 DEF CalmGetIsOneBody, TypeOK, sent
    <2> QED BY <2>2, <2>4 DEF SeekInv, CalmGetIsOneBody
  <1>7. ASSUME NEW r \in Readers, GetEnds(r) PROVE ReadInv'
    <2>1. /\ UNCHANGED <<file, mixed, calm>>
          /\ \A q \in Readers : get'[q].sent = get[q].sent
          /\ \A q \in Readers : get'[q].step = "seek" => get[q].step = "seek"
      BY <1>7 DEF GetEnds, TypeOK, Downloads
    <2> QED BY <2>1 DEF SeekInv, CalmGetIsOneBody, TypeOK
  <1>8. ASSUME Crash PROVE ReadInv'
    <2>1. /\ UNCHANGED <<file, mixed, calm>>
          /\ \A q \in Readers : get'[q].sent = <<>>
      BY <1>8 DEF Crash, TypeOK, Downloads
    <2> QED BY <1>0, <2>1, BeginsEmpty DEF SeekInv, CalmGetIsOneBody, TypeOK
  <1> QED
    BY <1>1, <1>2, <1>3, <1>4, <1>5, <1>6, <1>7, <1>8
       DEF Next, Upload, Serve, vars, PutStarts, CreateFails, PutEnds

\* GetArtifact: without overlapping uploads, a GET whose file is not
\* truncated under it sends the beginning of one upload.
THEOREM CalmGetIsOneBodyCorrect == Spec => []CalmGetIsOneBody
  <1>1. Init => ReadInv
    BY DEF Init, ReadInv, SeekInv, CalmGetIsOneBody
  <1> QED BY <1>1, NextRead, SafeInvariant, HashInvariant, PTL DEF Spec, ReadInv

=============================================================================
