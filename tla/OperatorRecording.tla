---------------------------- MODULE OperatorRecording ----------------------------
(***************************************************************************)
(* GET /recordings/{id}: the recording's metadata is found through its     *)
(* observation, the path confined, the file sized, hashed and compared,    *)
(* and then opened once more and sent in chunks.  The file may be replaced *)
(* or removed between these steps.  A file is its length and the digest of *)
(* its bytes.                                                              *)
(***************************************************************************)
EXTENDS Integers, FiniteSets, FiniteSetsExt

CONSTANTS
  MaxSize,    \* bound on lengths and on the numbers of a range
  Digests,    \* digests files have
  MaxChanges  \* bound on changes of the file

VARIABLES
  file,     \* [size, digest], or NoFile
  meta,     \* what the observation store holds: [found, path, sha]
  range,    \* the Range header
  request,  \* [pc, size, first, last, status, seen]; seen is the digest that was verified
  sent,     \* bytes sent: positions, and the digests of the files they are of
  changes

vars == <<file, meta, range, request, sent, changes>>

\* A length is a number.
SizesOK == MaxSize \in Nat

NoFile == [size |-> 0, digest |-> "none"]
Files == [size : 0 .. MaxSize, digest : Digests] \cup {NoFile}
Number == 0 .. MaxSize + 1
Absent == -1  \* a missing number of a range

\* A header is absent, blank, of no bytes or several ranges or malformed, or two numbers.
Headers == {[kind |-> k, a |-> Absent, b |-> Absent] : k \in {"absent", "blank", "malformed"}}
           \cup {h \in [kind : {"range"}, a : Number \cup {Absent}, b : Number \cup {Absent}] : h.a # Absent \/ h.b # Absent}

Metadata == [found : {"unknown", "noRecording"}, path : {"inside"}, sha : {"malformed"}]
            \cup [found : {"yes"}, path : {"inside", "outside", "absent"}, sha : Digests \cup {"malformed"}]

Init ==
  /\ file \in Files /\ meta \in Metadata /\ range \in Headers
  /\ request = [pc |-> "lookup", size |-> 0, first |-> 0, last |-> 0, status |-> 0, seen |-> "none"]
  /\ sent = [at |-> {}, of |-> {}] /\ changes = 0

TypeOK ==
  /\ request.pc \in {"lookup", "path", "size", "hash", "verify", "answer", "send", "end"}
  /\ sent.at \subseteq 0 .. MaxSize /\ request.status \in {0, 200, 206, 400, 404, 416, 500, 503}

Go(pc) == request' = [request EXCEPT !.pc = pc]
Fail(status) == request' = [request EXCEPT !.pc = "end", !.status = status]

\* _resolve_recording_metadata: the observation of the identity's event; a store that
\* cannot be read is a 503, an observation without recording a 404.
Lookup(available) ==
  /\ request.pc = "lookup"
  /\ IF ~available THEN Fail(503) ELSE IF meta.found # "yes" THEN Fail(404) ELSE Go("path")
  /\ UNCHANGED <<file, meta, range, sent, changes>>

\* _confine, and the file is there.
FindFile ==
  /\ request.pc = "path"
  /\ IF meta.path # "inside" \/ file = NoFile THEN Fail(404) ELSE Go("size")
  /\ UNCHANGED <<file, meta, range, sent, changes>>

\* A file that vanished is an OSError that nobody translates.
ReadSize ==
  /\ request.pc = "size"
  /\ IF file = NoFile THEN Fail(500) ELSE request' = [request EXCEPT !.pc = "hash", !.size = file.size]
  /\ UNCHANGED <<file, meta, range, sent, changes>>
ReadHash ==
  /\ request.pc = "hash"
  /\ IF file = NoFile THEN Fail(500) ELSE request' = [request EXCEPT !.pc = "verify", !.seen = file.digest]
  /\ UNCHANGED <<file, meta, range, sent, changes>>

\* _verify_integrity.
Verify ==
  /\ request.pc = "verify" /\ IF request.seen # meta.sha THEN Fail(404) ELSE Go("answer")
  /\ UNCHANGED <<file, meta, range, sent, changes>>

\* parse_range of a header that is present; that of an empty file is not translated.  A suffix
\* of no bytes begins behind the last one.
Parsed(h, size) ==
  LET first == IF h.a = Absent THEN (IF h.b < size THEN size - h.b ELSE 0) ELSE h.a
      last == IF h.a = Absent \/ h.b = Absent THEN size - 1 ELSE h.b IN
  IF size = 0 THEN [status |-> 500]
  ELSE CASE h.kind = "blank" -> [status |-> 206, first |-> 0, last |-> size - 1]
         [] h.kind = "malformed" -> [status |-> 400]
         [] h.kind = "range" /\ first >= size -> [status |-> 416]
         [] h.kind = "range" /\ first < size /\ first > last -> [status |-> 400]
         [] OTHER -> [status |-> 206, first |-> first, last |-> Min({last, size - 1})]

\* Without a Range header the whole file is sent.
Answer ==
  LET p == IF range.kind = "absent" THEN [status |-> 200, first |-> 0, last |-> request.size - 1]
           ELSE Parsed(range, request.size) IN
  /\ request.pc = "answer"
  /\ IF p.status \in {200, 206}
     THEN request' = [request EXCEPT !.pc = "send", !.status = p.status, !.first = p.first, !.last = p.last]
     ELSE Fail(p.status)
  /\ UNCHANGED <<file, meta, range, sent, changes>>

\* _iter_bytes: the file is opened again; what it has of the range is sent.
SendBytes ==
  /\ request.pc = "send" /\ Go("end")
  /\ sent' = [at |-> request.first .. Min({request.last, file.size - 1}), of |-> {file.digest}]
  /\ UNCHANGED <<file, meta, range, changes>>

\* Another program changes the archive.
Change(f) ==
  /\ changes < MaxChanges /\ request.pc \notin {"lookup", "end"} /\ f # file
  /\ file' = f /\ changes' = changes + 1 /\ UNCHANGED <<meta, range, request, sent>>

Next ==
  \/ \E b \in BOOLEAN : Lookup(b)
  \/ FindFile \/ ReadSize \/ ReadHash \/ Verify \/ Answer \/ SendBytes
  \/ \E f \in Files : Change(f)

Spec == Init /\ [][Next]_vars

(***************************************************************************)
(* Properties.                                                             *)
(***************************************************************************)

\* A range answered with 206 is the set of bytes the header asks for, cut at the end of the
\* file, and is not empty; a well-formed header is refused with 416 only if that set is
\* empty, and with 400 only if its first number is above its second.
RangeIsExact ==
  LET n == request.size
      asked == IF range.a = Absent THEN {k \in 0 .. n - 1 : k >= n - range.b}
               ELSE {k \in 0 .. n - 1 : k >= range.a /\ (range.b = Absent \/ k <= range.b)} IN
  range.kind = "range" =>
    /\ request.status = 206 => request.first .. request.last = asked /\ asked # {}
    /\ request.status = 416 => asked = {}
    /\ request.status = 400 => range.a > range.b

\* Bytes are sent only for a recording whose digest is stored, well-formed and that of a
\* file read for it, and only bytes of the range announced, which lies within the size that was
\* read and is all of it where the header asks for no part.  That holds while the file is
\* replaced or removed between the steps: the bytes sent need not be those verified then, but
\* they are fewer than announced only if the file sent is shorter than the one that was sized.
SentIsVerified ==
  request.status \in {200, 206} =>
    /\ meta.found = "yes" /\ meta.path = "inside" /\ meta.sha \in Digests /\ request.seen = meta.sha
    /\ request.last < request.size
    /\ range.kind \in {"absent", "blank"} => request.first = 0 /\ request.last = request.size - 1
    /\ request.pc = "end" =>
         /\ sent.at \subseteq request.first .. request.last
         /\ file.size >= request.size => sent.at = request.first .. request.last
=============================================================================
