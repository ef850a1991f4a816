----------------------------- MODULE Artifacts -----------------------------
(***************************************************************************)
(* One path of the artifact store (cmd/artifacts).  A PUT truncates the    *)
(* file and copies the body into it, each handler at its own offset; a GET *)
(* takes the size and then reads as much.  Handlers run concurrently on    *)
(* the file, with no lock and no temporary name.  A chunk is what one      *)
(* write or read moves; on a full disk a write may leave a part of its     *)
(* chunk, a fragment.                                                      *)
(***************************************************************************)
EXTENDS Integers, Sequences

CONSTANTS
    Writers, Readers,   \* concurrent uploads and downloads
    Bodies,             \* contents that are uploaded
    Size,               \* Size[b]: chunks of body b
    NoFile, Hole        \* no file yet; a chunk nobody wrote (zeros)

Fragment(b, i) == <<b, i, "cut">>
Chunks == (Bodies \X Nat) \cup (Bodies \X Nat \X {"cut"}) \cup {Hole}

ASSUME ArtifactsAssumption ==
    /\ Size \in [Bodies -> Nat]
    /\ NoFile \notin Seq(Chunks)

VARIABLES
    file,    \* the chunks on disk
    put,     \* per writer: step, body, chunks copied, answer
    get,     \* per reader: step, announced size, chunks sent
    acked,   \* history: content whose hash the latest PUT answered, if it did
    mixed,   \* history: two uploads were open at once since the file was empty
    calm     \* history: readers whose file was not truncated since they took its size

vars == <<file, put, get, acked, mixed, calm>>

\* The first n chunks of body b; a hash is a name for them.
Prefix(b, n) == [i \in 1 .. n |-> <<b, i>>]

\* Sequence s is the beginning of sequence t.
Begins(s, t) == Len(s) <= Len(t) /\ \A i \in 1 .. Len(s) : s[i] = t[i]

Uploading(w) == put[w].step \in {"copy", "cut"}
NoUpload == \A w \in Writers : ~Uploading(w)

Uploads   == [step : {"idle", "create", "copy", "cut"}, body : Bodies, copied : Nat,
              code : {"none", "200", "500"}]
Downloads == [step : {"idle", "seek", "copy"}, size : Nat, sent : Seq(Chunks),
              code : {"none", "whole", "short", "404"}]

TypeOK ==
    /\ file \in Seq(Chunks) \cup {NoFile}
    /\ put \in [Writers -> Uploads]
    /\ get \in [Readers -> Downloads]
    /\ acked \in Seq(Chunks) \cup {NoFile}
    /\ mixed \in BOOLEAN
    /\ calm \subseteq Readers

Init ==
    /\ file = NoFile
    /\ put \in [Writers -> [step : {"idle"}, body : Bodies, copied : {0}, code : {"none"}]]
    /\ get = [r \in Readers |-> [step |-> "idle", size |-> 0, sent |-> <<>>, code |-> "none"]]
    /\ acked = NoFile
    /\ mixed = FALSE
    /\ calm = {}

-----------------------------------------------------------------------------
(* PUT /{path...}: PutArtifact.                                            *)

PutStarts(w, b) ==
    /\ put[w].step = "idle"
    /\ put' = [put EXCEPT ![w] = [step |-> "create", body |-> b, copied |-> 0, code |-> "none"]]
    /\ UNCHANGED <<file, get, acked, mixed, calm>>

\* The path is a directory, lies under a file, or cannot be written.
CreateFails(w) ==
    /\ put[w].step = "create"
    /\ put' = [put EXCEPT ![w].step = "idle", ![w].code = "500"]
    /\ UNCHANGED <<file, get, acked, mixed, calm>>

\* os.Create truncates the file that others may be reading or writing.
Create(w) ==
    /\ put[w].step = "create"
    /\ put' = [put EXCEPT ![w].step = "copy"]
    /\ file' = <<>>
    /\ acked' = NoFile
    /\ mixed' = ~NoUpload
    /\ calm' = {}
    /\ UNCHANGED get

\* What file f is after a write of chunk at position i: the gap is a hole.
Written(f, i, chunk) ==
    [j \in 1 .. (IF i > Len(f) THEN i ELSE Len(f)) |->
        IF j = i THEN chunk ELSE IF j <= Len(f) THEN f[j] ELSE Hole]

\* Mutant: each write starts at the beginning of the file.
CopyChunkAtStart(w) ==
    /\ put[w].step = "copy"
    /\ put[w].copied < Size[put[w].body]
    /\ LET i == put[w].copied + 1
       IN  /\ file' = Written(file, 1, <<put[w].body, i>>)
           /\ put' = [put EXCEPT ![w].copied = i]
    /\ UNCHANGED <<get, acked, mixed, calm>>

\* io.MultiWriter writes the chunk to the file, then to the hash.
CopyChunk(w) ==
    /\ put[w].step = "copy"
    /\ put[w].copied < Size[put[w].body]
    /\ LET i == put[w].copied + 1
       IN  /\ file' = Written(file, i, <<put[w].body, i>>)
           /\ put' = [put EXCEPT ![w].copied = i]
    /\ UNCHANGED <<get, acked, mixed, calm>>

\* The disk is full: a part of the chunk is written, none of it reaches the
\* hash, and io.Copy returns.
ShortWrite(w) ==
    /\ put[w].step = "copy"
    /\ put[w].copied < Size[put[w].body]
    /\ LET i == put[w].copied + 1
       IN  file' = Written(file, i, Fragment(put[w].body, i))
    /\ put' = [put EXCEPT ![w].step = "cut"]
    /\ UNCHANGED <<get, acked, mixed, calm>>

\* Mutant: the hash is that of the whole body.
PutEndsUnread(w) ==
    /\ Uploading(w)
    /\ put' = [put EXCEPT ![w].step = "idle", ![w].code = "200"]
    /\ acked' = Prefix(put[w].body, Size[put[w].body])
    /\ UNCHANGED <<file, get, mixed, calm>>

\* The body ends, or it breaks off, or a write failed: io.Copy's error is
\* dropped, and the answer is 200 and the hash of what was copied whole.
PutEnds(w) ==
    /\ Uploading(w)
    /\ put' = [put EXCEPT ![w].step = "idle", ![w].code = "200"]
    /\ acked' = Prefix(put[w].body, put[w].copied)
    /\ UNCHANGED <<file, get, mixed, calm>>

-----------------------------------------------------------------------------
(* GET /{path...}: GetArtifact.                                            *)

Open(r) ==
    /\ get[r].step = "idle"
    /\ get' = [get EXCEPT ![r] =
                 [step |-> IF file = NoFile THEN "idle" ELSE "seek", size |-> 0,
                  sent |-> <<>>, code |-> IF file = NoFile THEN "404" ELSE "none"]]
    /\ UNCHANGED <<file, put, acked, mixed, calm>>

\* Mutant: the offset of the last byte is taken for the size.
TakeLastOffset(r) ==
    /\ get[r].step = "seek"
    /\ get' = [get EXCEPT ![r].step = "copy", ![r].size = Len(file) - 1]
    /\ calm' = calm \cup {r}
    /\ UNCHANGED <<file, put, acked, mixed>>

\* http.ServeContent takes the size, announces it, and seeks back.
TakeSize(r) ==
    /\ get[r].step = "seek"
    /\ get' = [get EXCEPT ![r].step = "copy", ![r].size = Len(file)]
    /\ calm' = calm \cup {r}
    /\ UNCHANGED <<file, put, acked, mixed>>

SendChunk(r) ==
    /\ get[r].step = "copy"
    /\ Len(get[r].sent) < get[r].size
    /\ Len(get[r].sent) < Len(file)
    /\ get' = [get EXCEPT ![r].sent = Append(@, file[Len(@) + 1])]
    /\ UNCHANGED <<file, put, acked, mixed, calm>>

\* Mutant: a file shorter than announced is waited for.
GetWaits(r) ==
    /\ get[r].step = "copy"
    /\ Len(get[r].sent) = get[r].size
    /\ get' = [get EXCEPT ![r].step = "idle", ![r].code = "whole"]
    /\ UNCHANGED <<file, put, acked, mixed, calm>>

\* All is sent, or the file has become shorter than announced and the
\* connection is closed early.
GetEnds(r) ==
    /\ get[r].step = "copy"
    /\ \/ Len(get[r].sent) = get[r].size
       \/ Len(get[r].sent) >= Len(file)
    /\ get' = [get EXCEPT ![r].step = "idle",
                          ![r].code = IF Len(get[r].sent) = get[r].size THEN "whole" ELSE "short"]
    /\ UNCHANGED <<file, put, acked, mixed, calm>>

-----------------------------------------------------------------------------
\* The server goes down and comes back; the volume is as it left it.
Crash ==
    /\ put' = [w \in Writers |-> [put[w] EXCEPT !.step = "idle", !.copied = 0, !.code = "none"]]
    /\ get' = [r \in Readers |-> [get[r] EXCEPT !.step = "idle", !.sent = <<>>, !.code = "none"]]
    /\ UNCHANGED <<file, acked, mixed, calm>>

Upload(w) ==
    \/ (\E b \in Bodies : PutStarts(w, b)) \/ CreateFails(w) \/ Create(w) \/ CopyChunk(w)
    \/ ShortWrite(w) \/ PutEnds(w)

\* One step of a GET that has begun.
Serve(r) == TakeSize(r) \/ SendChunk(r) \/ GetEnds(r)

Next ==
    \/ \E w \in Writers : Upload(w)
    \/ \E r \in Readers : Open(r) \/ Serve(r)
    \/ Crash

\* A GET goes on as long as its client reads; nothing hurries an upload.
Spec == Init /\ [][Next]_vars /\ \A r \in Readers : WF_vars(Serve(r))

-----------------------------------------------------------------------------
\* The file has more than the content h whose hash was answered: a fragment of
\* the next chunk, so h is not the whole of the body.
CutAfter(h) ==
    \E b \in Bodies :
        /\ Len(h) < Size[b]
        /\ h = Prefix(b, Len(h))
        /\ file = Append(h, Fragment(b, Len(h) + 1))

\* Without overlapping uploads the file holds, while one is under way, what
\* it has copied, and after one was answered, what the hash in the answer
\* names, except that a write cut short adds a fragment to it.  So whoever
\* gets the hash of all it sent knows that the file is just that, and
\* comparing hashes finds an upload that broke off.
HashNamesFile ==
    ~mixed =>
        /\ \A w \in Writers :
             put[w].step = "copy" => file = Prefix(put[w].body, put[w].copied)
        /\ NoUpload /\ acked # NoFile => file = acked \/ CutAfter(acked)

\* Unless a PUT truncates the file after its size was taken, and without
\* overlapping uploads, a GET sends the beginning of what the file holds, all
\* of it from one upload.
CalmGetIsOneBody ==
    ~mixed => \A r \in calm : Begins(get[r].sent, file)

\* Every GET ends, even if uploads truncate the file again and again.
GetSettles == \A r \in Readers : get[r].step # "idle" ~> get[r].step = "idle"

=============================================================================
