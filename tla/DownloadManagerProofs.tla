------------------------- MODULE DownloadManagerProofs -------------------------
(***************************************************************************)
(* Proofs about DownloadManager for any number and size of versions and    *)
(* any number of faults: the state is well formed; and, when versions grow *)
(* and a 404 has no page, what is under the final name is a whole version, *)
(* a download that is told to be done has a whole and recent file, and the *)
(* downloads implement PublishedFile.                                      *)
(*                                                                         *)
(* The inductive invariant follows the bytes. Whatever is left of a        *)
(* download that was cut off is the beginning of one version, and the      *)
(* recorded version is never newer than it: the one on which both the      *)
(* comparison of versions and the trust in a 416 rest.                     *)
(***************************************************************************)
EXTENDS DownloadManager, SequenceTheorems, TLAPS

-----------------------------------------------------------------------------
(* Types. *)

\* A response that is no 404 is of a version the server has.
ReplyIsKnown == reply.status # 404 => reply.version # 0

\* So is every byte of the unfinished file.
BytesAreKnown == \A i \in 1 .. Len(tmp.bytes) : tmp.bytes[i][1] \in 0 .. latest

Known == TypeOK /\ ReplyIsKnown /\ BytesAreKnown

LEMMA SizeOfVersion == \A v \in Versions : Sizes[v] \in Nat \ {0}
  BY SizesAssumption DEF Versions

LEMMA NumberOfVersions == Len(Sizes) \in Nat
  BY SizesAssumption

\* What a transfer brings is a number of bytes, and it is one byte or more unless
\* it is the page of a 404.
LEMMA LengthOfReply ==
    ASSUME NEW r, r \in [status : {200, 206, 404, 416}, version : 0 .. latest, pos : Nat],
           latest \in 0 .. Len(Sizes), r.status # 404 => r.version # 0
    PROVE  /\ Length(r) \in Nat
           /\ r.status = 404 => Length(r) = Page
           /\ r.status = 416 => Length(r) = 1
           /\ r.status \in {200, 206} => /\ r.version \in Versions
                                         /\ Length(r) = Sizes[r.version]
<1>1. r.status \in {200, 206} => r.version \in Versions
  BY NumberOfVersions DEF Versions
<1>2. r.status \in {200, 206} => Length(r) = Sizes[r.version]
  BY DEF Length
<1>3. r.status = 404 => Length(r) = Page
  BY DEF Length
<1>4. r.status = 416 => Length(r) = 1
  BY DEF Length
<1>5. r.status \in {200, 206, 404, 416}
  OBVIOUS
<1>q. QED
  BY <1>1, <1>2, <1>3, <1>4, <1>5, SizeOfVersion, PageAssumption

\* The server answers with what it has at that moment, and with the bytes from the
\* n-th on only when there are some.
LEMMA AnswerOfServer ==
    ASSUME TypeOK, NEW n \in Nat
    PROVE  /\ Answer(n) \in [status : {200, 206, 404, 416}, version : 0 .. latest, pos : Nat]
           /\ Answer(n).status # 404 => Answer(n).version # 0
           /\ Answer(n).version = latest
           /\ Answer(n).pos <= Length(Answer(n))
           /\ Answer(n).status \in {200, 404, 416} => Answer(n).pos = 0
           /\ Answer(n).status = 206 => n > 0 /\ Answer(n).pos = n /\ n < Sizes[latest]
           /\ Answer(n).status = 416 => n > 0 /\ n >= Sizes[latest]
           /\ (n = 0 /\ latest # 0) => Answer(n).status = 200
<1>0. latest \in Nat /\ latest \in 0 .. Len(Sizes)
  BY NumberOfVersions DEF TypeOK
<1>1. CASE latest = 0
  <2>1. Answer(n) = [status |-> 404, version |-> 0, pos |-> 0]
    BY <1>1 DEF Answer
  <2>q. QED
    BY <1>1, <2>1, PageAssumption DEF Length
<1>2. CASE latest # 0 /\ (n = 0 \/ server = "noRanges")
  <2>1. Answer(n) = [status |-> 200, version |-> latest, pos |-> 0]
    BY <1>2 DEF Answer
  <2>2. Length(Answer(n)) = Sizes[latest] /\ Sizes[latest] \in Nat
    BY <1>0, <1>2, <2>1, SizeOfVersion, NumberOfVersions DEF Length, Versions
  <2>q. QED
    BY <1>0, <1>2, <2>1, <2>2
<1>3. CASE latest # 0 /\ n > 0 /\ server # "noRanges" /\ n < Sizes[latest]
  <2>1. Answer(n) = [status |-> 206, version |-> latest, pos |-> n]
    BY <1>3 DEF Answer
  <2>2. Length(Answer(n)) = Sizes[latest] /\ Sizes[latest] \in Nat
    BY <1>0, <1>3, <2>1, SizeOfVersion, NumberOfVersions DEF Length, Versions
  <2>q. QED
    BY <1>0, <1>3, <2>1, <2>2
<1>4. CASE latest # 0 /\ n > 0 /\ server # "noRanges" /\ ~(n < Sizes[latest])
  <2>1. Answer(n) = [status |-> 416, version |-> latest, pos |-> 0]
    BY <1>4 DEF Answer
  <2>2. Length(Answer(n)) = 1 /\ Sizes[latest] \in Nat
    BY <1>0, <1>4, <2>1, SizeOfVersion, NumberOfVersions DEF Length, Versions
  <2>q. QED
    BY <1>0, <1>4, <2>1, <2>2
<1>q. QED
  BY <1>0, <1>1, <1>2, <1>3, <1>4

LEMMA FilesAreFiles ==
    /\ Absent \in [exists : BOOLEAN, bytes : Seq(Nat \X Nat)]
    /\ File(<<>>) \in [exists : BOOLEAN, bytes : Seq(Nat \X Nat)]
    /\ File(<<>>).bytes = <<>> /\ Absent.bytes = <<>> /\ Len(<<>>) = 0
    /\ \A b \in Seq(Nat \X Nat) : File(b) \in [exists : BOOLEAN, bytes : Seq(Nat \X Nat)]
  BY EmptySeq DEF Absent, File

LEMMA KnownInit == Init => Known
<1> SUFFICES ASSUME Init PROVE Known
  OBVIOUS
<1>1. /\ reply \in [status : {200, 206, 404, 416}, version : 0 .. latest, pos : Nat]
      /\ reply.pos <= Length(reply)
      /\ ReplyIsKnown
  BY PageAssumption DEF Init, Length, ReplyIsKnown
<1>2. latest \in 0 .. Len(Sizes) /\ asked \in 0 .. latest /\ newest \in 0 .. latest
      /\ info \in {NoInfo} \cup 0 .. latest /\ faults \in 0 .. MaxFaults
  BY NumberOfVersions, FaultsAssumption DEF Init
<1>3. /\ final \in [exists : BOOLEAN, bytes : Seq(Nat \X Nat)]
      /\ tmp \in [exists : BOOLEAN, bytes : Seq(Nat \X Nat)]
      /\ BytesAreKnown
  BY FilesAreFiles DEF Init, BytesAreKnown
<1>4. /\ server \in {"all", "noRanges", "noLengths"}
      /\ fp \in {Closed} \cup Nat /\ at \in ThreadAt /\ from \in Nat
      /\ again \in BOOLEAN /\ told \in {"nothing", "done", "error"}
  BY DEF Init, ThreadAt
<1>q. QED
  BY <1>1, <1>2, <1>3, <1>4 DEF Known, TypeOK

\* A step that changes neither the unfinished file nor the response keeps what is
\* known when it keeps the types of the rest.
RestIsTyped ==
    /\ final \in [exists : BOOLEAN, bytes : Seq(Nat \X Nat)]
    /\ info \in {NoInfo} \cup 0 .. latest
    /\ fp \in {Closed} \cup Nat
    /\ at \in ThreadAt
    /\ from \in Nat
    /\ again \in BOOLEAN
    /\ told \in {"nothing", "done", "error"}
    /\ asked \in 0 .. latest
    /\ newest \in 0 .. latest
    /\ faults \in 0 .. MaxFaults

LEMMA KnownKept ==
    ASSUME Known, UNCHANGED <<latest, server, tmp, reply>>, RestIsTyped'
    PROVE  Known'
  BY DEF Known, TypeOK, ReplyIsKnown, BytesAreKnown, RestIsTyped, Length

LEMMA KnownQuietSteps ==
    ASSUME Known,
           \/ RemoveOld \/ InfoOpen \/ InfoWrite \/ Start \/ EndTransfer
           \/ Remove \/ RenameFails \/ NetworkFails \/ UNCHANGED vars
    PROVE  Known'
<1> USE DEF ThreadAt, disk
<1>1. /\ RestIsTyped
      /\ latest \in Nat
      /\ reply.version \in 0 .. latest
      /\ Len(tmp.bytes) \in Nat
  BY NumberOfVersions DEF Known, TypeOK, RestIsTyped
<1>2. UNCHANGED <<latest, server, tmp, reply>>
  BY DEF RemoveOld, InfoOpen, InfoWrite, Start, EndTransfer, Remove, RenameFails,
         NetworkFails, vars
<1>3. CASE RemoveOld \/ Remove
  BY <1>1, <1>2, <1>3, FilesAreFiles, KnownKept DEF RemoveOld, Remove, RestIsTyped
<1>4. CASE InfoOpen \/ InfoWrite
  BY <1>1, <1>2, <1>4, KnownKept, SMTT(30) DEF InfoOpen, InfoWrite, RestIsTyped
<1>5. CASE Start
  <2>1. /\ from' \in Nat
        /\ asked' \in 0 .. latest'
        /\ UNCHANGED <<final, info, fp, newest, faults>>
        /\ at' = "request" /\ again' = FALSE /\ told' = "nothing"
    BY <1>1, <1>2, <1>5 DEF Start
  <2>2. RestIsTyped'
    BY <1>1, <1>2, <2>1 DEF RestIsTyped
  <2>q. QED
    BY <1>2, <2>2, KnownKept
<1>6. CASE EndTransfer
  BY <1>1, <1>2, <1>6, KnownKept DEF EndTransfer, RestIsTyped
<1>7. CASE RenameFails \/ NetworkFails
  <2>1. faults' \in 0 .. MaxFaults
    BY <1>1, <1>7, FaultsAssumption DEF RenameFails, NetworkFails, RestIsTyped
  <2>2. told' \in {"nothing", "done", "error"}
    BY <1>7 DEF RenameFails, NetworkFails
  <2>q. QED
    BY <1>1, <1>2, <1>7, <2>1, <2>2, KnownKept DEF RenameFails, NetworkFails, RestIsTyped
<1>8. CASE UNCHANGED vars
  BY <1>1, <1>2, <1>8, KnownKept DEF vars, RestIsTyped
<1>q. QED
  BY <1>3, <1>4, <1>5, <1>6, <1>7, <1>8

LEMMA KnownRelease ==
    ASSUME Known, Release
    PROVE  Known'
<1> USE DEF Known, TypeOK, ReplyIsKnown, BytesAreKnown, Release, disk, thread
<1>1. latest \in Nat /\ latest' \in Nat /\ latest < latest' /\ latest' \in 0 .. Len(Sizes)
  BY NumberOfVersions
<1>2. Length(reply') = Length(reply)
  BY DEF Length
<1>3. \A n \in 0 .. latest : n \in 0 .. latest'
  BY <1>1
<1>4. /\ info' \in {NoInfo} \cup 0 .. latest'
      /\ asked' \in 0 .. latest'
      /\ newest' \in 0 .. latest'
      /\ reply' \in [status : {200, 206, 404, 416}, version : 0 .. latest', pos : Nat]
      /\ BytesAreKnown'
  BY <1>3, SMTT(30)
<1>5. reply'.pos <= Length(reply')
  BY <1>2
<1>q. QED
  BY <1>1, <1>4, <1>5

LEMMA KnownRequests ==
    ASSUME Known, Request \/ Retry
    PROVE  Known'
<1>1. PICK n \in Nat : reply' = Answer(n)
  BY DEF Request, Retry, Known, TypeOK
<1>2. /\ reply' \in [status : {200, 206, 404, 416}, version : 0 .. latest, pos : Nat]
      /\ reply'.pos <= Length(reply')
      /\ reply'.status # 404 => reply'.version # 0
  BY <1>1, AnswerOfServer DEF Known
<1>3. /\ UNCHANGED <<latest, server, final, tmp, info, newest, fp, from, again, told, asked,
                     faults>>
      /\ at' \in ThreadAt
  BY DEF Request, Retry, disk, ThreadAt
<1>q. QED
  BY <1>2, <1>3 DEF Known, TypeOK, ReplyIsKnown, BytesAreKnown

LEMMA KnownOpenFirst ==
    ASSUME Known, OpenFirst
    PROVE  Known'
<1> USE DEF Known, TypeOK, ReplyIsKnown, BytesAreKnown
<1>1. UNCHANGED <<latest, server, final, info, from, reply, asked, newest, faults>>
  BY DEF OpenFirst
<1>2. /\ at' \in ThreadAt
      /\ again' \in BOOLEAN
      /\ told' \in {"nothing", "done", "error"}
  <2>1. at' \in {"remove", "body", "idle", "infoOpen", "removeOld"}
    BY DEF OpenFirst
  <2>2. again' = again \/ again' = TRUE
    BY DEF OpenFirst
  <2>3. told' = told \/ told' = "done"
    BY DEF OpenFirst
  <2>q. QED
    BY <2>1, <2>2, <2>3, ZenonT(60) DEF ThreadAt
<1>3. tmp' = tmp \/ tmp' = File(<<>>) \/ tmp' = File(tmp.bytes)
  BY DEF OpenFirst
<1>4. /\ tmp' \in [exists : BOOLEAN, bytes : Seq(Nat \X Nat)]
      /\ tmp'.bytes = <<>> \/ tmp'.bytes = tmp.bytes
  <2>1. File(tmp.bytes).bytes = tmp.bytes
    BY DEF File
  <2>q. QED
    BY <1>3, <2>1, FilesAreFiles
<1>5. fp' \in {Closed} \cup Nat
  <2>1. fp' = fp \/ fp' = 0 \/ fp' = Len(tmp'.bytes)
    BY DEF OpenFirst
  <2>2. Len(tmp'.bytes) \in Nat
    BY <1>4
  <2>q. QED
    BY <2>1, <2>2
<1>6. BytesAreKnown'
  BY <1>1, <1>4, EmptySeq, SMTT(30)
<1>7. reply'.pos <= Length(reply')
  BY <1>1 DEF Length
<1>q. QED
  BY <1>1, <1>2, <1>4, <1>5, <1>6, <1>7

\* A byte of the model carries its version first.
LEMMA ByteOfVersion == \A x, y \in Nat : \E b \in Nat \X Nat : b = <<x, y>> /\ b[1] = x
<1>1. \A x, y \in Nat : <<x, y>> \in Nat \X Nat
  OBVIOUS
<1>2. \A x, y \in Nat : <<x, y>>[1] = x
  OBVIOUS
<1>q. QED
  BY <1>1, <1>2

LEMMA KnownDeliver ==
    ASSUME Known, Deliver
    PROVE  Known'
<1> USE DEF Known, TypeOK, ReplyIsKnown, BytesAreKnown
<1>1. UNCHANGED <<latest, server, final, info, fp, at, from, again, told, asked, newest, faults>>
  BY DEF Deliver
<1>2. /\ reply' \in [status : {200, 206, 404, 416}, version : 0 .. latest, pos : Nat]
      /\ reply'.status = reply.status
      /\ reply'.version = reply.version
      /\ reply'.pos = reply.pos + 1
  <2>1. reply' = [reply EXCEPT !.pos = reply.pos + 1]
    BY DEF Deliver
  <2>2. reply \in [status : {200, 206, 404, 416}, version : 0 .. latest, pos : Nat]
    OBVIOUS
  <2> HIDE DEF Known
  <2>q. QED
    BY <2>1, <2>2
<1>3. reply'.pos <= Length(reply')
  <2>1. Length(reply') = Length(reply)
    BY <1>2 DEF Length
  <2>2. Length(reply) \in Nat
    BY LengthOfReply
  <2>q. QED
    BY <1>2, <2>1, <2>2, SMTT(30) DEF Deliver
<1>4. PICK b \in Nat \X Nat : b = <<reply.version, reply'.pos>> /\ b[1] = reply.version
  <2>1. reply.version \in Nat /\ reply'.pos \in Nat
    BY <1>2, NumberOfVersions
  <2>q. QED
    BY <2>1, ByteOfVersion, SMTT(30)
<1>5. tmp' = File(Append(tmp.bytes, b))
  BY <1>4 DEF Deliver
<1>6. /\ tmp' \in [exists : BOOLEAN, bytes : Seq(Nat \X Nat)]
      /\ tmp'.bytes = Append(tmp.bytes, b)
  BY <1>5, AppendProperties DEF File
<1>7. BytesAreKnown'
  <2>1. /\ Len(tmp'.bytes) = Len(tmp.bytes) + 1
        /\ \A i \in 1 .. Len(tmp.bytes) : tmp'.bytes[i] = tmp.bytes[i]
        /\ tmp'.bytes[Len(tmp.bytes) + 1] = b
    BY <1>6, AppendProperties
  <2>2. Len(tmp.bytes) \in Nat /\ reply.version \in 0 .. latest
    OBVIOUS
  <2>3. ASSUME NEW i \in 1 .. Len(tmp'.bytes)
        PROVE  tmp'.bytes[i][1] \in 0 .. latest
    <3>1. i \in 1 .. Len(tmp.bytes) \/ i = Len(tmp.bytes) + 1
      BY <2>1, <2>2, SMTT(30)
    <3> HIDE DEF Known, TypeOK
    <3>2. CASE i \in 1 .. Len(tmp.bytes)
      BY <2>1, <3>2 DEF Known
    <3>3. CASE i = Len(tmp.bytes) + 1
      BY <1>4, <2>1, <2>2, <3>3
    <3>q. QED
      BY <3>1, <3>2, <3>3
  <2>q. QED
    BY <1>1, <2>3
<1>8. ReplyIsKnown'
  BY <1>2
<1> HIDE DEF BytesAreKnown, ReplyIsKnown
<1>q. QED
  BY <1>1, <1>2, <1>3, <1>6, <1>7, <1>8

LEMMA KnownRename ==
    ASSUME Known, Rename
    PROVE  Known'
<1> USE DEF Known, TypeOK, ReplyIsKnown, BytesAreKnown
<1>1. newest' \in 0 .. latest
  BY EmptySeq, SMTT(30) DEF Rename
<1>2. reply'.pos <= Length(reply')
  BY DEF Rename, Length
<1>q. QED
  BY <1>1, <1>2, FilesAreFiles DEF Rename, ThreadAt

\* What a crash keeps of the unfinished file is its beginning.
LEMMA CrashKeepsBeginning ==
    ASSUME TypeOK, Crash
    PROVE  \/ tmp' = tmp
           \/ \E n \in 0 .. Len(tmp.bytes) : tmp' = File(SubSeq(tmp.bytes, 1, n))
<1>1. CASE fp = Closed
  BY <1>1 DEF Crash
<1>2. CASE fp # Closed
  <2>1. PICK n \in fp .. Len(tmp.bytes) : tmp' = File(SubSeq(tmp.bytes, 1, n))
    BY <1>2 DEF Crash
  <2>2. fp \in Nat /\ Len(tmp.bytes) \in Nat
    BY <1>2 DEF TypeOK
  <2>q. QED
    BY <2>1, <2>2
<1>q. QED
  BY <1>1, <1>2

\* The beginning of a sequence.
LEMMA Beginning ==
    ASSUME NEW S, NEW s \in Seq(S), NEW n \in 0 .. Len(s)
    PROVE  /\ SubSeq(s, 1, n) \in Seq(S)
           /\ Len(SubSeq(s, 1, n)) = n
           /\ \A i \in 1 .. n : SubSeq(s, 1, n)[i] = s[i]
<1>1. n \in Int /\ 1 \in Int /\ \A i \in 1 .. n : s[i] \in S
  OBVIOUS
<1>2. /\ SubSeq(s, 1, n) \in Seq(S)
      /\ Len(SubSeq(s, 1, n)) = IF 1 <= n THEN n - 1 + 1 ELSE 0
      /\ \A i \in 1 .. (n - 1 + 1) : SubSeq(s, 1, n)[i] = s[1 + i - 1]
  BY <1>1, SubSeqProperties
<1>3. /\ n - 1 + 1 = n
      /\ (IF 1 <= n THEN n - 1 + 1 ELSE 0) = n
      /\ \A i \in 1 .. n : 1 + i - 1 = i
  OBVIOUS
<1>4. \A i \in 1 .. n : SubSeq(s, 1, n)[i] = s[i]
  BY <1>2, <1>3, Zenon
<1>q. QED
  BY <1>2, <1>3, <1>4, Zenon

LEMMA VersionsOfBeginning ==
    ASSUME NEW old \in Seq(Nat \X Nat), NEW n \in 0 .. Len(old), NEW V,
           \A i \in 1 .. Len(old) : old[i][1] \in V
    PROVE  \A i \in 1 .. Len(SubSeq(old, 1, n)) : SubSeq(old, 1, n)[i][1] \in V
<1>1. Len(SubSeq(old, 1, n)) = n /\ \A i \in 1 .. n : SubSeq(old, 1, n)[i] = old[i]
  BY Beginning
<1>2. \A i \in 1 .. n : i \in 1 .. Len(old)
  OBVIOUS
<1>q. QED
  BY <1>1, <1>2

LEMMA KnownCrash ==
    ASSUME Known, Crash
    PROVE  Known'
<1> USE DEF Known, TypeOK, ReplyIsKnown, BytesAreKnown
<1>1. UNCHANGED <<latest, server, final, info, newest, from, reply, again, asked>>
  BY DEF Crash
<1>2. /\ tmp' \in [exists : BOOLEAN, bytes : Seq(Nat \X Nat)]
      /\ BytesAreKnown'
  <2>1. CASE tmp' = tmp
    BY <1>1, <2>1
  <2>2. ASSUME NEW n \in 0 .. Len(tmp.bytes), tmp' = File(SubSeq(tmp.bytes, 1, n))
        PROVE  /\ tmp' \in [exists : BOOLEAN, bytes : Seq(Nat \X Nat)]
               /\ BytesAreKnown'
    <3>1. tmp.bytes \in Seq(Nat \X Nat)
      OBVIOUS
    <3>2. /\ SubSeq(tmp.bytes, 1, n) \in Seq(Nat \X Nat)
          /\ Len(SubSeq(tmp.bytes, 1, n)) = n
          /\ \A i \in 1 .. n : SubSeq(tmp.bytes, 1, n)[i] = tmp.bytes[i]
      BY <3>1, Beginning, SMTT(30)
    <3>3. tmp'.bytes = SubSeq(tmp.bytes, 1, n)
      BY <2>2 DEF File
    <3>4. PICK old : old = tmp.bytes
      OBVIOUS
    <3>5. /\ old \in Seq(Nat \X Nat) /\ n \in 0 .. Len(old)
          /\ \A i \in 1 .. Len(old) : old[i][1] \in 0 .. latest
      BY <3>1, <3>4
    <3>6. \A i \in 1 .. Len(SubSeq(old, 1, n)) : SubSeq(old, 1, n)[i][1] \in 0 .. latest
      BY <3>5, VersionsOfBeginning
    <3>7. BytesAreKnown'
      BY <1>1, <3>3, <3>4, <3>6
    <3>q. QED
      BY <2>2, <3>2, <3>7, FilesAreFiles
  <2>q. QED
    BY <2>1, <2>2, CrashKeepsBeginning
<1>3. fp' \in {Closed} \cup Nat /\ at' \in ThreadAt /\ told' \in {"nothing", "done", "error"}
      /\ faults' \in 0 .. MaxFaults
  BY FaultsAssumption DEF Crash, ThreadAt
<1>4. reply'.pos <= Length(reply')
  BY <1>1 DEF Length
<1>q. QED
  BY <1>1, <1>2, <1>3, <1>4

LEMMA KnownNext == Known /\ [Next]_vars => Known'
  BY KnownQuietSteps, KnownRelease, KnownRequests, KnownOpenFirst, KnownDeliver,
     KnownRename, KnownCrash DEF Next, Thread

LEMMA KnownAlways == Spec => []Known
  BY KnownInit, KnownNext, PTL DEF Spec

\* The state stays well formed, and no transfer brings more than its response has,
\* for any sizes, any page of a 404 and any number of faults. That the version that
\* was published last is one the server has needs BytesAreKnown.
THEOREM TypeCorrect == Spec => []TypeOK
  BY KnownAlways, PTL DEF Known

-----------------------------------------------------------------------------
(* The inductive invariant. *)

\* What the server is assumed to do: it releases versions that grow, and sends no
\* page with a 404. MCDownloadPage shows what happens with one.
Regular ==
    /\ Page = 0
    /\ \A v, w \in Versions : v < w => Sizes[v] < Sizes[w]

\* The first n bytes of version v.
Part(v, n) == [i \in 1 .. n |-> <<v, i>>]

\* What there is of an unfinished file is the beginning of one version, which is not
\* older than the recorded one, nor newer than the response that is being read.
PartialIsPart ==
    tmp.bytes # <<>> =>
        \E v \in 1 .. latest :
            /\ info \in 0 .. v
            /\ \E n \in 1 .. Sizes[v] : tmp = File(Part(v, n))
            /\ at \notin {"idle", "request"} => v <= reply.version

\* The finished file is a version; while there is no unfinished one, the recorded
\* version is not newer than it.
FinalIsVersion ==
    final # Absent =>
        \E v \in 1 .. latest : final = Whole(v) /\ (~tmp.exists => info <= v)

\* A response is no older than the request, and than what was published before.
ReplyIsRecent ==
    at \notin {"idle", "request"} => reply.version >= asked /\ reply.version >= newest

\* The first request asks for the bytes after those of the unfinished file.
Asked ==
    /\ at \in {"request", "first"} => from = Len(tmp.bytes) /\ ~again
    /\ at = "first" =>
         /\ reply.status \in {200, 404, 416} => reply.pos = 0
         /\ reply.status = 206 => reply.pos = from /\ from > 0 /\ from < Sizes[reply.version]
         /\ reply.status = 416 => from > 0 /\ from >= Sizes[reply.version]

\* From the write callback on, the unfinished file and the response go together.
Transferring ==
    /\ at \in {"removeOld", "retry"} => again
    /\ at \in {"removeOld", "infoOpen", "infoWrite", "retry", "body"} =>
          reply.status \in {200, 206}
    /\ (at \in {"removeOld", "infoOpen", "infoWrite", "retry"} /\ again) =>
          tmp = File(<<>>)
    /\ (at = "body" \/ (at \in {"infoOpen", "infoWrite"} /\ ~again)) =>
          tmp = File(Part(reply.version, reply.pos))
    /\ at \in {"infoWrite", "retry"} => info # NoInfo
    /\ at = "body" => info \in 0 .. reply.version
    /\ at \in {"remove", "rename"} => reply.status # 404 /\ tmp = Whole(reply.version)

Answered ==
    /\ at # "idle" => told = "nothing"
    /\ DoneIsFresh

Sound ==
    /\ Known
    /\ PartialIsPart
    /\ FinalIsVersion
    /\ ReplyIsRecent
    /\ Asked
    /\ Transferring
    /\ Answered

-----------------------------------------------------------------------------
(* The bytes of a version. *)

LEMMA BytesOfFile ==
    /\ \A b : File(b).exists = TRUE /\ File(b).bytes = b /\ File(b) # Absent
    /\ Absent.exists = FALSE /\ Absent.bytes = <<>>
<1>1. \A b : File(b).exists = TRUE /\ File(b).bytes = b
  BY DEF File
<1>2. Absent.exists = FALSE /\ Absent.bytes = <<>>
  BY DEF Absent
<1>q. QED
  BY <1>1, <1>2

LEMMA PartOfVersion ==
    ASSUME NEW v \in Nat, NEW n \in Nat
    PROVE  /\ Part(v, n) \in Seq(Nat \X Nat)
           /\ Len(Part(v, n)) = n
           /\ \A i \in 1 .. n : Part(v, n)[i] = <<v, i>>
           /\ Part(v, n) = <<>> <=> n = 0
           /\ n # 0 => Part(v, n)[1][1] = v
<1>1. \A i \in 1 .. n : <<v, i>> \in Nat \X Nat
  OBVIOUS
<1>2. Part(v, n) \in [1 .. n -> Nat \X Nat]
  BY <1>1 DEF Part
<1>3. Part(v, n) \in Seq(Nat \X Nat)
  BY <1>2, IsASeq
<1>4. Len(Part(v, n)) = n
  BY <1>2, <1>3, LenProperties
<1>5. \A i \in 1 .. n : Part(v, n)[i] = <<v, i>>
  BY DEF Part
<1>6. Part(v, n) = <<>> <=> n = 0
  BY <1>3, <1>4, EmptySeq
<1>7. n # 0 => Part(v, n)[1] = <<v, 1>>
  BY <1>5
<1>8. <<v, 1>>[1] = v
  OBVIOUS
<1>q. QED
  BY <1>3, <1>4, <1>5, <1>6, <1>7, <1>8

\* The beginning of a beginning is one, and so is what the next byte makes of it.
LEMMA PartOfPart ==
    ASSUME NEW v \in Nat, NEW n \in Nat
    PROVE  /\ \A m \in 0 .. n : SubSeq(Part(v, n), 1, m) = Part(v, m)
           /\ Append(Part(v, n), <<v, n + 1>>) = Part(v, n + 1)
<1>0. \A s, t \in Seq(Nat \X Nat) :
          Len(s) = Len(t) /\ (\A i \in 1 .. Len(s) : s[i] = t[i]) => s = t
  BY SeqEqual
<1>1. ASSUME NEW m \in 0 .. n
      PROVE  SubSeq(Part(v, n), 1, m) = Part(v, m)
  <2>1. /\ Part(v, n) \in Seq(Nat \X Nat)
        /\ m \in 0 .. Len(Part(v, n))
        /\ \A i \in 1 .. m : Part(v, n)[i] = <<v, i>>
    BY PartOfVersion
  <2>2. /\ SubSeq(Part(v, n), 1, m) \in Seq(Nat \X Nat)
        /\ Len(SubSeq(Part(v, n), 1, m)) = m
        /\ \A i \in 1 .. m : SubSeq(Part(v, n), 1, m)[i] = <<v, i>>
    BY <2>1, Beginning
  <2>3. /\ Part(v, m) \in Seq(Nat \X Nat)
        /\ Len(Part(v, m)) = m
        /\ \A i \in 1 .. m : Part(v, m)[i] = <<v, i>>
    BY PartOfVersion
  <2>q. QED
    BY <1>0, <2>2, <2>3
<1>2. Append(Part(v, n), <<v, n + 1>>) = Part(v, n + 1)
  <2>1. /\ Part(v, n) \in Seq(Nat \X Nat)
        /\ Len(Part(v, n)) = n
        /\ \A i \in 1 .. n : Part(v, n)[i] = <<v, i>>
    BY PartOfVersion
  <2>0. n + 1 \in Nat /\ <<v, n + 1>> \in Nat \X Nat
    OBVIOUS
  <2>2. /\ Append(Part(v, n), <<v, n + 1>>) \in Seq(Nat \X Nat)
        /\ Len(Append(Part(v, n), <<v, n + 1>>)) = n + 1
        /\ \A i \in 1 .. (n + 1) : Append(Part(v, n), <<v, n + 1>>)[i] = <<v, i>>
    BY <2>0, <2>1, AppendProperties
  <2>3. /\ Part(v, n + 1) \in Seq(Nat \X Nat)
        /\ Len(Part(v, n + 1)) = n + 1
        /\ \A i \in 1 .. (n + 1) : Part(v, n + 1)[i] = <<v, i>>
    BY <2>0, PartOfVersion
  <2>q. QED
    BY <1>0, <2>2, <2>3
<1>q. QED
  BY <1>1, <1>2

\* A beginning shows which version it is of and how much of it.
LEMMA PartIsUnique ==
    ASSUME NEW v \in Nat, NEW n \in Nat, NEW w \in Nat, NEW m \in Nat, n # 0,
           File(Part(v, n)) = File(Part(w, m))
    PROVE  v = w /\ n = m
<1>1. Part(v, n) = Part(w, m)
  BY BytesOfFile
<1>2. Len(Part(v, n)) = n /\ Len(Part(w, m)) = m
  BY PartOfVersion
<1>3. m # 0
  BY <1>1, <1>2
<1>4. Part(v, n)[1][1] = v /\ Part(w, m)[1][1] = w
  BY <1>3, PartOfVersion
<1>q. QED
  BY <1>1, <1>2, <1>4

\* A version is the whole of its bytes, and is not empty.
LEMMA WholeIsPart ==
    ASSUME NEW v \in Versions
    PROVE  /\ v \in Nat \ {0}
           /\ Sizes[v] \in Nat \ {0}
           /\ Whole(v) = File(Part(v, Sizes[v]))
           /\ Whole(v).bytes # <<>> /\ Whole(v).bytes[1][1] = v
           /\ Whole(v).exists = TRUE /\ Whole(v) # Absent
<1>1. v \in Nat \ {0} /\ Sizes[v] \in Nat \ {0}
  BY SizeOfVersion, NumberOfVersions DEF Versions
<1>2. Whole(v) = File(Part(v, Sizes[v]))
  BY DEF Whole, Part
<1>3. Part(v, Sizes[v]) # <<>> /\ Part(v, Sizes[v])[1][1] = v
  BY <1>1, PartOfVersion
<1>q. QED
  BY <1>1, <1>2, <1>3, BytesOfFile

\* The versions the server has had so far.
LEMMA ReleasedVersions ==
    ASSUME Known
    PROVE  /\ latest \in Nat
           /\ \A v \in 1 .. latest : /\ v \in Versions
                                    /\ v \in Nat \ {0}
                                    /\ Sizes[v] \in Nat \ {0}
           /\ reply.status # 404 => reply.version \in 1 .. latest
           /\ reply.pos \in Nat /\ asked \in Nat /\ newest \in Nat /\ from \in Nat
           /\ reply.version \in 0 .. latest
           /\ Len(tmp.bytes) \in Nat
<1>1. latest \in Nat /\ \A v \in 1 .. latest : v \in Versions
  BY NumberOfVersions DEF Known, TypeOK, Versions
<1>2. reply.version \in 0 .. latest /\ reply.pos \in Nat /\ Len(tmp.bytes) \in Nat
      /\ from \in Nat
  BY DEF Known, TypeOK
<1>3. asked \in Nat /\ newest \in Nat
  BY <1>1 DEF Known, TypeOK
<1>4. \A v \in 1 .. latest : v \in Nat \ {0} /\ Sizes[v] \in Nat \ {0}
  BY <1>1, WholeIsPart
<1>q. QED
  BY <1>1, <1>2, <1>3, <1>4 DEF Known, ReplyIsKnown

-----------------------------------------------------------------------------
(* Every step keeps it. *)

LEMMA SoundInit == Init => Sound
<1> SUFFICES ASSUME Init PROVE Sound
  OBVIOUS
<1>1. tmp.bytes = <<>> /\ final = Absent /\ from = Len(tmp.bytes)
  BY FilesAreFiles DEF Init
<1>2. PartialIsPart /\ FinalIsVersion
  BY <1>1 DEF PartialIsPart, FinalIsVersion
<1>3. ReplyIsRecent /\ Asked /\ Transferring /\ Answered
  BY DEF Init, ReplyIsRecent, Asked, Transferring, Answered, DoneIsFresh
<1>q. QED
  BY <1>2, <1>3, KnownInit DEF Sound

\* What a step that leaves the three files and the response alone has to keep.
LEMMA SoundKept ==
    ASSUME Sound, Known', UNCHANGED <<final, tmp, info, reply, latest, newest>>,
           at' \in {"idle", "request"} \/ at \notin {"idle", "request"}
    PROVE  PartialIsPart' /\ FinalIsVersion'
<1>1. PartialIsPart'
  BY DEF Sound, PartialIsPart
<1>2. FinalIsVersion'
  BY DEF Sound, FinalIsVersion, Whole
<1>q. QED
  BY <1>1, <1>2

LEMMA SoundRelease ==
    ASSUME Sound, Release
    PROVE  Sound'
<1>1. Known'
  BY KnownRelease DEF Sound
<1>2. /\ latest \in Nat /\ latest' = latest + 1
      /\ UNCHANGED <<server, final, tmp, info, newest, fp, at, from, reply, again, told, asked>>
  BY ReleasedVersions DEF Release, disk, thread, Sound
<1>3. \A v \in 1 .. latest : v \in 1 .. latest'
  BY <1>2
<1>4. PartialIsPart'
  BY <1>2, <1>3 DEF Sound, PartialIsPart
<1>5. FinalIsVersion'
  BY <1>2, <1>3 DEF Sound, FinalIsVersion, Whole
<1>6. ReplyIsRecent' /\ Asked' /\ Transferring'
  BY <1>2 DEF Sound, ReplyIsRecent, Asked, Transferring, Whole
<1>7. Answered'
  BY <1>2 DEF Sound, Answered, DoneIsFresh, Whole
<1>q. QED
  BY <1>1, <1>4, <1>5, <1>6, <1>7 DEF Sound

LEMMA SoundStart ==
    ASSUME Sound, Start
    PROVE  Sound'
<1>1. Known'
  BY KnownQuietSteps DEF Sound
<1>2. PartialIsPart' /\ FinalIsVersion'
  BY <1>1, SoundKept DEF Start, disk
<1>3. ReplyIsRecent' /\ Asked' /\ Transferring' /\ Answered'
  BY DEF Start, disk, ReplyIsRecent, Asked, Transferring, Answered, DoneIsFresh
<1>q. QED
  BY <1>1, <1>2, <1>3 DEF Sound

\* The server's version at the moment of the request is the newest there is.
LEMMA SoundRequest ==
    ASSUME Sound, Request
    PROVE  Sound'
<1>1. Known'
  BY KnownRequests DEF Sound
<1>2. /\ from \in Nat /\ latest \in Nat
      /\ asked \in 0 .. latest /\ newest \in 0 .. latest
      /\ at = "request" /\ at' = "first" /\ reply' = Answer(from)
      /\ UNCHANGED <<latest, final, tmp, info, newest, from, again, told, asked>>
  BY ReleasedVersions DEF Request, disk, Sound, Known, TypeOK
<1>3. /\ reply'.version = latest
      /\ reply'.status \in {200, 404, 416} => reply'.pos = 0
      /\ reply'.status = 206 => from > 0 /\ reply'.pos = from /\ from < Sizes[latest]
      /\ reply'.status = 416 => from > 0 /\ from >= Sizes[latest]
  BY <1>2, AnswerOfServer DEF Sound, Known
<1>4. PartialIsPart'
  BY <1>2, <1>3 DEF Sound, PartialIsPart
<1>5. FinalIsVersion'
  BY <1>2 DEF Sound, FinalIsVersion, Whole
<1>6. ReplyIsRecent'
  BY <1>2, <1>3 DEF ReplyIsRecent
<1>7. Asked'
  BY <1>2, <1>3 DEF Sound, Asked
<1>8. Transferring' /\ Answered'
  BY <1>2 DEF Transferring, Answered, DoneIsFresh, Sound
<1>q. QED
  BY <1>1, <1>4, <1>5, <1>6, <1>7, <1>8 DEF Sound

\* 416: the unfinished file has at least the bytes of the server's version, it is
\* the beginning of one that is not newer, and versions grow: it is that version.
LEMMA AllBytesAreThere ==
    ASSUME Regular, Sound, at = "first", reply.status = 416
    PROVE  tmp = Whole(reply.version)
<1>1. /\ reply.version \in 1 .. latest
      /\ from = Len(tmp.bytes) /\ from > 0 /\ from >= Sizes[reply.version]
      /\ from \in Nat
  BY ReleasedVersions DEF Sound, Asked
<1>2. tmp.bytes # <<>>
  BY <1>1, EmptySeq
<1>3. PICK v \in 1 .. latest : /\ v <= reply.version
                              /\ \E n \in 1 .. Sizes[v] : tmp = File(Part(v, n))
  BY <1>2 DEF Sound, PartialIsPart
<1>n. PICK n \in 1 .. Sizes[v] : tmp = File(Part(v, n))
  BY <1>3
<1>4. /\ v \in Versions /\ v \in Nat \ {0} /\ Sizes[v] \in Nat \ {0}
      /\ reply.version \in Versions /\ reply.version \in Nat
      /\ Sizes[reply.version] \in Nat
      /\ n \in Nat /\ n <= Sizes[v]
  <2>1. \A w \in 1 .. latest : /\ w \in Versions /\ w \in Nat \ {0}
                              /\ Sizes[w] \in Nat \ {0}
    BY ReleasedVersions DEF Sound
  <2>q. QED
    BY <1>1, <2>1
<1>5. from = n
  <2>1. tmp.bytes = Part(v, n)
    BY <1>n, BytesOfFile
  <2>2. Len(Part(v, n)) = n
    BY <1>4, PartOfVersion
  <2>q. QED
    BY <1>1, <2>1, <2>2
<1>6. v = reply.version
  <2>1. v < reply.version => Sizes[v] < Sizes[reply.version]
    BY <1>4 DEF Regular
  <2>q. QED
    BY <1>1, <1>3, <1>4, <1>5, <2>1
<1>7. n = Sizes[v]
  BY <1>1, <1>4, <1>5, <1>6
<1>q. QED
  BY <1>n, <1>4, <1>6, <1>7, WholeIsPart, ZenonT(60)

\* The bytes that are there are resumed only when they are of the server's version.
LEMMA ResumedIsSameVersion ==
    ASSUME Sound, at = "first", reply.status = 206, ~StalePartial
    PROVE  File(tmp.bytes) = File(Part(reply.version, reply.pos))
<1>1. /\ reply.version \in 1 .. latest
      /\ from = Len(tmp.bytes) /\ from > 0 /\ reply.pos = from
      /\ from \in Nat /\ latest \in Nat
  BY ReleasedVersions DEF Sound, Asked
<1>2. tmp.bytes # <<>>
  BY <1>1, EmptySeq
<1>3. PICK v \in 1 .. latest : /\ info \in 0 .. v /\ v <= reply.version
                              /\ \E n \in 1 .. Sizes[v] : tmp = File(Part(v, n))
  BY <1>1, <1>2 DEF Sound, PartialIsPart
<1>4. PICK n \in 1 .. Sizes[v] : tmp = File(Part(v, n))
  BY <1>3
<1>5. tmp.exists /\ tmp.bytes = Part(v, n)
  BY <1>4, BytesOfFile
<1>6. info = reply.version /\ v = reply.version
  BY <1>1, <1>3, <1>5 DEF StalePartial, NoInfo
<1>7. v \in Nat /\ n \in Nat
  <2>1. v \in Nat /\ Sizes[v] \in Nat
    BY ReleasedVersions DEF Sound
  <2>q. QED
    BY <2>1
<1>8. n = from
  BY <1>1, <1>5, <1>7, PartOfVersion
<1>q. QED
  BY <1>1, <1>5, <1>6, <1>8

\* A finished file that is found to be up to date is a whole version no older than
\* the server's when the download began.
LEMMA UpToDateIsFresh ==
    ASSUME Sound, at = "first", reply.status # 404, UpToDate
    PROVE  \E v \in Versions : v >= asked /\ Whole(v) = final
<1>1. /\ reply.version \in 1 .. latest /\ latest \in Nat
      /\ reply.version >= asked /\ asked \in Nat
  BY ReleasedVersions DEF Sound, ReplyIsRecent
<1>2. info = reply.version /\ info # NoInfo /\ final.exists /\ ~tmp.exists
  BY <1>1 DEF UpToDate, OnlyFinal, NoInfo
<1>3. final # Absent
  BY <1>2, BytesOfFile
<1>4. PICK v \in 1 .. latest : final = Whole(v) /\ info <= v
  BY <1>2, <1>3 DEF Sound, FinalIsVersion
<1>5. v \in Versions /\ v >= asked
  BY <1>1, <1>2, <1>4, ReleasedVersions DEF Sound
<1>q. QED
  BY <1>4, <1>5

\* The write callback's first call never begins a page that is not sent.
LEMMA NoPageArrives ==
    ASSUME Regular, Sound, at = "first", reply.pos < Length(reply)
    PROVE  reply.status # 404
<1>1. reply.pos \in Nat
  BY ReleasedVersions DEF Sound
<1>2. reply.status = 404 => Length(reply) = 0
  BY DEF Length, Regular
<1>q. QED
  BY <1>1, <1>2

LEMMA SoundOpenFirst ==
    ASSUME Regular, Sound, OpenFirst
    PROVE  Sound'
<1>1. Known'
  BY KnownOpenFirst DEF Sound
<1>2. /\ at = "first" /\ reply.pos < Length(reply) /\ ~again /\ told = "nothing"
      /\ UNCHANGED <<latest, server, final, info, from, reply, asked, newest>>
      /\ from = Len(tmp.bytes)
  BY DEF OpenFirst, Sound, Asked, Answered
<1>3. reply.status # 404 /\ reply.status \in {200, 206, 416}
  BY <1>2, NoPageArrives DEF Sound, Known, TypeOK
<1>4. /\ reply.version \in 1 .. latest
      /\ reply.version >= asked /\ reply.version >= newest
      /\ info \in {NoInfo} \cup 0 .. latest
  BY <1>2, <1>3, ReleasedVersions DEF Sound, ReplyIsRecent, Known, TypeOK
<1>5. ReplyIsRecent'
  BY <1>2, <1>4 DEF ReplyIsRecent
<1>6. CASE reply.status = 416
  <2>1. at' = "remove" /\ UNCHANGED <<tmp, fp, again, told>>
    BY <1>6 DEF OpenFirst
  <2>2. PartialIsPart' /\ FinalIsVersion'
    BY <1>1, <1>2, <2>1, SoundKept
  <2>3. tmp = Whole(reply.version)
    BY <1>2, <1>6, AllBytesAreThere
  <2>4. Transferring'
    BY <1>2, <1>6, <2>1, <2>3 DEF Transferring, Whole
  <2>5. Asked' /\ Answered'
    BY <1>2, <2>1 DEF Asked, Answered, DoneIsFresh
  <2>q. QED
    BY <1>1, <1>5, <2>2, <2>4, <2>5 DEF Sound
<1>7. CASE reply.status \in {200, 206} /\ UpToDate
  <2>1. at' = "idle" /\ told' = "done" /\ UNCHANGED <<tmp, fp, again>>
    BY <1>7 DEF OpenFirst
  <2>2. PartialIsPart' /\ FinalIsVersion'
    BY <1>1, <1>2, <2>1, SoundKept
  <2>3. \E v \in Versions : v >= asked /\ Whole(v) = final
    BY <1>2, <1>3, <1>7, UpToDateIsFresh
  <2>4. Answered'
    BY <1>2, <2>1, <2>3 DEF Answered, DoneIsFresh, Whole
  <2>5. Asked' /\ Transferring'
    BY <2>1 DEF Asked, Transferring
  <2>q. QED
    BY <1>1, <1>5, <2>2, <2>4, <2>5 DEF Sound
<1>8. CASE reply.status \in {200, 206} /\ ~UpToDate /\ (StalePartial \/ OnlyFinal)
  <2>1. /\ tmp' = File(<<>>) /\ at' \in {"infoOpen", "removeOld"} /\ again' = TRUE
        /\ told' = told
    BY <1>8 DEF OpenFirst
  <2>2. tmp'.bytes = <<>> /\ tmp'.exists
    BY <2>1, BytesOfFile
  <2>3. PartialIsPart' /\ Asked' /\ Answered'
    BY <1>2, <2>1, <2>2 DEF PartialIsPart, Asked, Answered, DoneIsFresh
  <2>4. FinalIsVersion'
    BY <1>2, <2>2 DEF Sound, FinalIsVersion, Whole
  <2>5. Transferring'
    BY <1>2, <1>8, <2>1 DEF Transferring
  <2>q. QED
    BY <1>1, <1>5, <2>3, <2>4, <2>5 DEF Sound
<1>9. CASE reply.status \in {200, 206} /\ ~UpToDate /\ ~(StalePartial \/ OnlyFinal)
  <2>1. /\ tmp' = IF reply.status = 206 THEN File(tmp.bytes) ELSE File(<<>>)
        /\ at' = "infoOpen"
        /\ UNCHANGED <<again, told>>
    BY <1>9 DEF OpenFirst
  <2>2. tmp' = File(Part(reply.version, reply.pos))
    <3>1. CASE reply.status = 206
      BY <1>2, <1>9, <2>1, <3>1, ResumedIsSameVersion
    <3>2. CASE reply.status = 200
      <4>1. reply.pos = 0 /\ reply.version \in Nat
        BY <1>2, <1>4, <3>2, ReleasedVersions DEF Sound, Asked
      <4>2. Part(reply.version, reply.pos) = <<>>
        BY <4>1, PartOfVersion
      <4>q. QED
        BY <2>1, <3>2, <4>2
    <3>q. QED
      BY <1>9, <3>1, <3>2
  <2>3. PartialIsPart'
    <3>1. tmp'.bytes = <<>> \/ tmp'.bytes = tmp.bytes
      BY <2>1, BytesOfFile
    <3>2. ASSUME tmp'.bytes = tmp.bytes, tmp.bytes # <<>>
          PROVE  tmp' = tmp
      <4>1. PICK b : tmp = File(b)
        BY <3>2 DEF Sound, PartialIsPart
      <4>2. tmp = File(tmp.bytes)
        BY <4>1, BytesOfFile
      <4>3. tmp' = File(tmp'.bytes)
        BY <2>2, BytesOfFile
      <4>q. QED
        BY <3>2, <4>2, <4>3
    <3>q. QED
      BY <1>2, <3>1, <3>2 DEF Sound, PartialIsPart
  <2>4. FinalIsVersion'
    <3>1. tmp'.exists
      BY <2>2, BytesOfFile
    <3>q. QED
      BY <1>2, <3>1 DEF Sound, FinalIsVersion, Whole
  <2>5. Transferring'
    BY <1>2, <1>9, <2>1, <2>2 DEF Transferring, Part
  <2>6. Asked' /\ Answered'
    BY <1>2, <2>1 DEF Asked, Answered, DoneIsFresh
  <2>q. QED
    BY <1>1, <1>5, <2>3, <2>4, <2>5, <2>6 DEF Sound
<1>q. QED
  BY <1>3, <1>6, <1>7, <1>8, <1>9

LEMMA SoundRemoveOld ==
    ASSUME Sound, RemoveOld
    PROVE  Sound'
<1>1. Known'
  BY KnownQuietSteps DEF Sound
<1>2. /\ at = "removeOld" /\ at' = "infoOpen" /\ final' = Absent
      /\ UNCHANGED <<latest, tmp, info, from, reply, again, told, asked, newest>>
  BY DEF RemoveOld
<1>3. PartialIsPart' /\ FinalIsVersion' /\ ReplyIsRecent' /\ Asked'
  BY <1>2 DEF Sound, PartialIsPart, FinalIsVersion, ReplyIsRecent, Asked
<1>4. Transferring' /\ Answered'
  BY <1>2 DEF Sound, Transferring, Answered, DoneIsFresh
<1>q. QED
  BY <1>1, <1>3, <1>4 DEF Sound

\* While the version is recorded the unfinished file is there.
LEMMA SoundInfoOpen ==
    ASSUME Sound, InfoOpen
    PROVE  Sound'
<1>1. Known'
  BY KnownQuietSteps DEF Sound
<1>2. /\ at = "infoOpen" /\ at' = "infoWrite" /\ info' = 0
      /\ UNCHANGED <<latest, final, tmp, from, reply, again, told, asked, newest>>
  BY DEF InfoOpen
<1>3. tmp.exists
  BY <1>2, BytesOfFile DEF Sound, Transferring
<1>4. PartialIsPart'
  BY <1>2, ReleasedVersions DEF Sound, PartialIsPart
<1>5. FinalIsVersion' /\ ReplyIsRecent' /\ Asked'
  BY <1>2, <1>3 DEF Sound, FinalIsVersion, ReplyIsRecent, Asked, Whole
<1>6. Transferring' /\ Answered'
  BY <1>2 DEF Sound, Transferring, Answered, DoneIsFresh, NoInfo, Part
<1>q. QED
  BY <1>1, <1>4, <1>5, <1>6 DEF Sound

\* Bytes that are there when the version is recorded are of that version.
LEMMA PartialOfReply ==
    ASSUME Sound, tmp = File(Part(reply.version, reply.pos)), tmp.bytes # <<>>,
           reply.status # 404
    PROVE  /\ reply.version \in 1 .. latest
           /\ reply.pos \in 1 .. Sizes[reply.version]
           /\ info \in 0 .. reply.version
<1>1. reply.version \in 1 .. latest /\ reply.version \in Nat /\ reply.pos \in Nat
  BY ReleasedVersions DEF Sound
<1>2. PICK v \in 1 .. latest : /\ info \in 0 .. v
                              /\ \E n \in 1 .. Sizes[v] : tmp = File(Part(v, n))
  BY DEF Sound, PartialIsPart
<1>3. PICK n \in 1 .. Sizes[v] : tmp = File(Part(v, n))
  BY <1>2
<1>4. v \in Nat /\ n \in Nat /\ n # 0
  <2>1. v \in Nat /\ Sizes[v] \in Nat
    BY ReleasedVersions DEF Sound
  <2>q. QED
    BY <2>1
<1>5. v = reply.version /\ n = reply.pos
  <2>1. File(Part(v, n)) = File(Part(reply.version, reply.pos))
    BY <1>3
  <2>q. QED
    BY <1>1, <1>4, <2>1, PartIsUnique
<1>q. QED
  BY <1>1, <1>2, <1>5

LEMMA SoundInfoWrite ==
    ASSUME Sound, InfoWrite
    PROVE  Sound'
<1>1. Known'
  BY KnownQuietSteps DEF Sound
<1>2. /\ at = "infoWrite" /\ info' = reply.version
      /\ at' = IF again THEN "retry" ELSE "body"
      /\ UNCHANGED <<latest, final, tmp, from, reply, again, told, asked, newest>>
  BY DEF InfoWrite
<1>3. /\ reply.status \in {200, 206}
      /\ again => tmp = File(<<>>)
      /\ ~again => tmp = File(Part(reply.version, reply.pos))
  BY <1>2 DEF Sound, Transferring
<1>4. reply.version \in 1 .. latest /\ latest \in Nat
  BY <1>3, ReleasedVersions DEF Sound
<1>5. PartialIsPart'
  <2>1. SUFFICES ASSUME tmp.bytes # <<>>
                 PROVE  /\ reply.version \in 1 .. latest
                        /\ info' \in 0 .. reply.version
                        /\ \E n \in 1 .. Sizes[reply.version] :
                              tmp = File(Part(reply.version, n))
    BY <1>2, <1>4 DEF PartialIsPart
  <2>2. tmp = File(Part(reply.version, reply.pos))
    BY <1>3, <2>1, BytesOfFile
  <2>3. reply.pos \in 1 .. Sizes[reply.version]
    BY <1>3, <2>1, <2>2, PartialOfReply
  <2>q. QED
    BY <1>2, <1>4, <2>2, <2>3
<1>6. tmp.exists
  BY <1>3, BytesOfFile
<1>7. FinalIsVersion' /\ ReplyIsRecent' /\ Asked'
  BY <1>2, <1>6 DEF Sound, FinalIsVersion, ReplyIsRecent, Asked, Whole
<1>8. info' # NoInfo /\ info' \in 0 .. reply.version
  BY <1>2, <1>4 DEF NoInfo
<1>9. Transferring'
  BY <1>2, <1>3, <1>8 DEF Transferring, Part, NoInfo
<1>10. Answered'
  BY <1>2 DEF Sound, Answered, DoneIsFresh
<1>q. QED
  BY <1>1, <1>5, <1>7, <1>9, <1>10 DEF Sound

\* The second transfer begins with an empty file and brings a version that is at
\* least as new as the recorded one.
LEMMA SoundRetry ==
    ASSUME Sound, Retry
    PROVE  Sound'
<1>1. Known'
  BY KnownRequests DEF Sound
<1>2. /\ at = "retry" /\ at' = "body" /\ reply' = Answer(0)
      /\ UNCHANGED <<latest, final, tmp, info, newest, from, again, told, asked>>
  BY DEF Retry, disk
<1>3. /\ reply.status \in {200, 206} /\ tmp = File(<<>>) /\ info # NoInfo
  BY <1>2 DEF Sound, Transferring
<1>4. /\ latest \in Nat \ {0} /\ info \in 0 .. latest
      /\ asked \in 0 .. latest /\ newest \in 0 .. latest
  BY <1>3, ReleasedVersions DEF Sound, Known, TypeOK
<1>5. reply'.status = 200 /\ reply'.version = latest /\ reply'.pos = 0
  BY <1>2, <1>4, AnswerOfServer DEF Sound, Known
<1>6. tmp.bytes = <<>> /\ tmp.exists
  BY <1>3, BytesOfFile
<1>7. Part(latest, 0) = <<>>
  BY <1>4, PartOfVersion
<1>8. PartialIsPart' /\ FinalIsVersion' /\ ReplyIsRecent' /\ Asked'
  BY <1>2, <1>4, <1>5, <1>6
     DEF Sound, PartialIsPart, FinalIsVersion, ReplyIsRecent, Asked, Whole
<1>9. tmp' = File(Part(reply'.version, reply'.pos))
  BY <1>2, <1>3, <1>5, <1>7
<1>10. Transferring'
  BY <1>2, <1>4, <1>5, <1>9 DEF Transferring, Part
<1>11. Answered'
  BY <1>2 DEF Sound, Answered, DoneIsFresh
<1>q. QED
  BY <1>1, <1>8, <1>10, <1>11 DEF Sound

LEMMA SoundDeliver ==
    ASSUME Sound, Deliver
    PROVE  Sound'
<1>1. Known'
  BY KnownDeliver DEF Sound
<1>2. /\ at = "body" /\ reply.pos < Length(reply)
      /\ reply' = [reply EXCEPT !.pos = reply.pos + 1]
      /\ tmp' = File(Append(tmp.bytes, <<reply.version, reply'.pos>>))
      /\ UNCHANGED <<latest, final, info, at, from, again, told, asked, newest>>
  BY DEF Deliver
<1>3. /\ reply.status \in {200, 206}
      /\ tmp = File(Part(reply.version, reply.pos))
      /\ info \in 0 .. reply.version
  BY <1>2 DEF Sound, Transferring
<1>4. /\ reply.version \in 1 .. latest /\ reply.version \in Nat /\ reply.pos \in Nat
      /\ latest \in Nat /\ Sizes[reply.version] \in Nat
  <2>1. reply.version \in 1 .. latest /\ reply.pos \in Nat /\ latest \in Nat
    BY <1>3, ReleasedVersions DEF Sound
  <2>q. QED
    BY <2>1, ReleasedVersions DEF Sound
<1>5. /\ reply'.version = reply.version /\ reply'.status = reply.status
      /\ reply'.pos = reply.pos + 1
  BY <1>2 DEF Sound, Known, TypeOK
<1>6. Length(reply) = Sizes[reply.version]
  BY <1>3 DEF Length
<1>7. tmp' = File(Part(reply.version, reply.pos + 1))
  <2>1. tmp.bytes = Part(reply.version, reply.pos)
    BY <1>3, BytesOfFile
  <2>q. QED
    BY <1>2, <1>4, <1>5, <2>1, PartOfPart, ZenonT(60)
<1>8. reply.pos + 1 \in 1 .. Sizes[reply.version]
  BY <1>2, <1>4, <1>6
<1>9. PartialIsPart'
  <2>1. \E n \in 1 .. Sizes[reply.version] : tmp' = File(Part(reply.version, n))
    BY <1>7, <1>8
  <2>q. QED
    BY <1>2, <1>3, <1>4, <1>5, <2>1 DEF PartialIsPart
<1>10. tmp'.exists
  BY <1>7, BytesOfFile
<1>11. FinalIsVersion' /\ ReplyIsRecent' /\ Asked'
  BY <1>2, <1>5, <1>10 DEF Sound, FinalIsVersion, ReplyIsRecent, Asked, Whole
<1>12. tmp' = File(Part(reply'.version, reply'.pos))
  BY <1>5, <1>7
<1>13. Transferring'
  BY <1>2, <1>3, <1>5, <1>12 DEF Sound, Transferring, Part
<1>14. Answered'
  BY <1>2 DEF Sound, Answered, DoneIsFresh
<1>q. QED
  BY <1>1, <1>9, <1>11, <1>13, <1>14 DEF Sound

\* A transfer that is complete has brought the whole version.
LEMMA SoundEndTransfer ==
    ASSUME Regular, Sound, EndTransfer
    PROVE  Sound'
<1>1. Known'
  BY KnownQuietSteps DEF Sound
<1>2. /\ at \in {"first", "body"} /\ reply.pos = Length(reply)
      /\ at' = "idle" \/ (at' = "remove" /\ told' = told)
      /\ at' = "idle" => told' = "error"
      /\ at' = "remove" => again \/ reply.status # 404
      /\ UNCHANGED <<latest, final, tmp, info, newest, from, reply, again, asked>>
  BY DEF EndTransfer, disk
<1>3. PartialIsPart' /\ FinalIsVersion'
  BY <1>1, <1>2, SoundKept
<1>4. ReplyIsRecent' /\ Asked'
  BY <1>2 DEF Sound, ReplyIsRecent, Asked
<1>5. Answered'
  BY <1>2 DEF Sound, Answered, DoneIsFresh
<1>6. CASE at' = "idle"
  BY <1>1, <1>3, <1>4, <1>5, <1>6 DEF Transferring, Sound
<1>7. CASE at' = "remove"
  <2>1. reply.status # 404
    BY <1>2, <1>7 DEF Sound, Asked, Transferring
  <2>2. /\ reply.version \in Versions /\ reply.pos \in Nat
        /\ Sizes[reply.version] \in Nat \ {0}
    <3>1. reply.version \in 1 .. latest /\ reply.pos \in Nat
      BY <2>1, ReleasedVersions DEF Sound
    <3>q. QED
      BY <3>1, ReleasedVersions DEF Sound
  <2>3. /\ reply.status \in {200, 206} => Length(reply) = Sizes[reply.version]
        /\ reply.status = 416 => Length(reply) = 1
        /\ reply.status \in {200, 206, 416}
    BY <2>1, SMTT(30) DEF Length, Sound, Known, TypeOK
  <2>4. at = "body"
    BY <1>2, <2>2, <2>3 DEF Sound, Asked
  <2>5. tmp = File(Part(reply.version, reply.pos)) /\ reply.status \in {200, 206}
    BY <2>4 DEF Sound, Transferring
  <2>6. tmp = Whole(reply.version)
    <3>1. reply.pos = Sizes[reply.version]
      BY <1>2, <2>3, <2>5
    <3>2. Whole(reply.version) = File(Part(reply.version, Sizes[reply.version]))
      BY <2>2, WholeIsPart
    <3>q. QED
      BY <2>5, <3>1, <3>2
  <2>7. Transferring'
    BY <1>2, <1>7, <2>1, <2>6 DEF Transferring, Whole
  <2>q. QED
    BY <1>1, <1>3, <1>4, <1>5, <2>7 DEF Sound
<1>q. QED
  BY <1>2, <1>6, <1>7

LEMMA SoundRemove ==
    ASSUME Sound, Remove
    PROVE  Sound'
<1>1. Known'
  BY KnownQuietSteps DEF Sound
<1>2. /\ at = "remove" /\ at' = "rename" /\ final' = Absent
      /\ UNCHANGED <<latest, tmp, info, from, reply, again, told, asked, newest>>
  BY DEF Remove
<1>3. PartialIsPart' /\ FinalIsVersion' /\ ReplyIsRecent' /\ Asked'
  BY <1>2 DEF Sound, PartialIsPart, FinalIsVersion, ReplyIsRecent, Asked
<1>4. Transferring' /\ Answered'
  BY <1>2 DEF Sound, Transferring, Answered, DoneIsFresh, Whole
<1>q. QED
  BY <1>1, <1>3, <1>4 DEF Sound

\* What is about to be renamed is a whole version, as new as asked for, as new as
\* any that was published, and not older than the recorded one.
LEMMA ReadyToRename ==
    ASSUME Sound, at = "rename"
    PROVE  /\ reply.version \in 1 .. latest /\ reply.version \in Versions
           /\ tmp = Whole(reply.version)
           /\ tmp.bytes # <<>> /\ tmp.bytes[1][1] = reply.version
           /\ info <= reply.version
           /\ reply.version >= asked /\ reply.version >= newest
           /\ told = "nothing"
<1>1. /\ reply.status # 404 /\ tmp = Whole(reply.version)
      /\ reply.version >= asked /\ reply.version >= newest
      /\ told = "nothing"
  BY DEF Sound, Transferring, ReplyIsRecent, Answered
<1>2. reply.version \in 1 .. latest /\ reply.version \in Versions
  <2>1. reply.version \in 1 .. latest
    BY <1>1, ReleasedVersions DEF Sound
  <2>q. QED
    BY <2>1, ReleasedVersions DEF Sound
<1>3. /\ tmp.bytes # <<>> /\ tmp.bytes[1][1] = reply.version
      /\ reply.version \in Nat /\ Sizes[reply.version] \in Nat \ {0}
      /\ tmp = File(Part(reply.version, Sizes[reply.version]))
  BY <1>1, <1>2, WholeIsPart, ZenonT(60)
<1>4. PICK v \in 1 .. latest : /\ info \in 0 .. v
                              /\ \E n \in 1 .. Sizes[v] : tmp = File(Part(v, n))
  BY <1>3 DEF Sound, PartialIsPart
<1>5. PICK n \in 1 .. Sizes[v] : tmp = File(Part(v, n))
  BY <1>4
<1>6. v \in Nat /\ n \in Nat /\ n # 0
  <2>1. v \in Nat /\ Sizes[v] \in Nat
    BY ReleasedVersions DEF Sound
  <2>q. QED
    BY <2>1
<1>7. v = reply.version
  <2>1. File(Part(v, n)) = File(Part(reply.version, Sizes[reply.version]))
    BY <1>3, <1>5
  <2>q. QED
    BY <1>3, <1>6, <2>1, PartIsUnique
<1>q. QED
  BY <1>1, <1>2, <1>3, <1>4, <1>7

LEMMA SoundRename ==
    ASSUME Sound, Rename
    PROVE  Sound'
<1>1. Known'
  BY KnownRename DEF Sound
<1>2. /\ at = "rename" /\ at' = "idle" /\ final' = tmp /\ tmp' = Absent
      /\ UNCHANGED <<latest, info, reply, asked>>
  BY DEF Rename
<1>3. /\ reply.version \in 1 .. latest /\ reply.version \in Versions
      /\ tmp = Whole(reply.version)
      /\ info <= reply.version /\ reply.version >= asked
  BY <1>2, ReadyToRename
<1>4. PartialIsPart' /\ ReplyIsRecent' /\ Asked' /\ Transferring'
  BY <1>2, BytesOfFile DEF PartialIsPart, ReplyIsRecent, Asked, Transferring
<1>5. FinalIsVersion'
  BY <1>2, <1>3 DEF FinalIsVersion, Whole
<1>6. Answered'
  BY <1>2, <1>3 DEF Answered, DoneIsFresh, Whole
<1>q. QED
  BY <1>1, <1>4, <1>5, <1>6 DEF Sound

\* A rename that fails leaves the whole version under path.tmp.
LEMMA SoundRenameFails ==
    ASSUME Sound, RenameFails
    PROVE  Sound'
<1>1. Known'
  BY KnownQuietSteps DEF Sound
<1>2. /\ at = "rename" /\ at' = "idle"
      /\ UNCHANGED <<latest, final, tmp, info, newest, reply, asked>>
  BY DEF RenameFails, disk
<1>3. reply.version \in Versions /\ tmp = Whole(reply.version) /\ reply.version >= asked
  BY <1>2, ReadyToRename
<1>4. PartialIsPart' /\ FinalIsVersion'
  BY <1>1, <1>2, SoundKept
<1>5. ReplyIsRecent' /\ Asked' /\ Transferring'
  BY <1>2 DEF ReplyIsRecent, Asked, Transferring
<1>6. Answered'
  BY <1>2, <1>3 DEF Answered, DoneIsFresh, Whole
<1>q. QED
  BY <1>1, <1>4, <1>5, <1>6 DEF Sound

LEMMA SoundNetworkFails ==
    ASSUME Sound, NetworkFails
    PROVE  Sound'
<1>1. Known'
  BY KnownQuietSteps DEF Sound
<1>2. /\ at' = "idle" /\ told' = "error"
      /\ UNCHANGED <<latest, final, tmp, info, newest, reply, asked>>
  BY DEF NetworkFails, disk
<1>3. PartialIsPart' /\ FinalIsVersion'
  BY <1>1, <1>2, SoundKept
<1>4. ReplyIsRecent' /\ Asked' /\ Transferring' /\ Answered'
  BY <1>2 DEF ReplyIsRecent, Asked, Transferring, Answered, DoneIsFresh
<1>q. QED
  BY <1>1, <1>3, <1>4 DEF Sound

\* What a crash leaves of the unfinished file is still the beginning of its version.
LEMMA SoundCrash ==
    ASSUME Sound, Crash
    PROVE  Sound'
<1>1. Known'
  BY KnownCrash DEF Sound
<1>2. /\ at' = "idle" /\ told' = "nothing"
      /\ UNCHANGED <<latest, final, info, newest, from, reply, again, asked>>
  BY DEF Crash
<1>3. ReplyIsRecent' /\ Asked' /\ Transferring' /\ Answered'
  BY <1>2 DEF ReplyIsRecent, Asked, Transferring, Answered, DoneIsFresh
<1>4. CASE tmp' = tmp
  <2>1. PartialIsPart' /\ FinalIsVersion'
    BY <1>1, <1>2, <1>4, SoundKept
  <2>q. QED
    BY <1>1, <1>3, <2>1 DEF Sound
<1>5. ASSUME NEW m \in 0 .. Len(tmp.bytes), tmp' = File(SubSeq(tmp.bytes, 1, m))
      PROVE  Sound'
  <2>1. tmp'.exists /\ tmp'.bytes = SubSeq(tmp.bytes, 1, m)
    BY <1>5, BytesOfFile
  <2>2. FinalIsVersion'
    BY <1>2, <2>1 DEF Sound, FinalIsVersion, Whole
  <2>3. CASE tmp'.bytes = <<>>
    BY <1>1, <1>3, <2>2, <2>3 DEF Sound, PartialIsPart
  <2>4. CASE tmp'.bytes # <<>>
    <3>1. Len(tmp.bytes) \in Nat
      BY ReleasedVersions DEF Sound
    <3>2. tmp.bytes # <<>> /\ m # 0
      <4>1. m # 0
        BY <2>1, <2>4, SubSeqEmpty
      <4>q. QED
        BY <3>1, <4>1, EmptySeq
    <3>3. PICK v \in 1 .. latest : /\ info \in 0 .. v
                                  /\ \E n \in 1 .. Sizes[v] : tmp = File(Part(v, n))
      BY <3>2 DEF Sound, PartialIsPart
    <3>4. PICK n \in 1 .. Sizes[v] : tmp = File(Part(v, n))
      BY <3>3
    <3>5. v \in Nat /\ n \in Nat /\ n <= Sizes[v] /\ Sizes[v] \in Nat
      <4>1. v \in Nat /\ Sizes[v] \in Nat
        BY ReleasedVersions DEF Sound
      <4>q. QED
        BY <4>1
    <3>6. tmp.bytes = Part(v, n) /\ Len(Part(v, n)) = n
      BY <3>4, <3>5, BytesOfFile, PartOfVersion
    <3>7. m \in 0 .. n /\ m \in 1 .. Sizes[v]
      BY <3>2, <3>5, <3>6
    <3>8. tmp' = File(Part(v, m))
      BY <1>5, <3>5, <3>6, <3>7, PartOfPart
    <3>9. \E k \in 1 .. Sizes[v] : tmp' = File(Part(v, k))
      BY <3>7, <3>8
    <3>10. PartialIsPart'
      BY <1>2, <3>3, <3>9 DEF PartialIsPart
    <3>q. QED
      BY <1>1, <1>3, <2>2, <3>10 DEF Sound
  <2>q. QED
    BY <2>3, <2>4
<1>q. QED
  BY <1>4, <1>5, CrashKeepsBeginning DEF Sound, Known

LEMMA SoundStutter ==
    ASSUME Sound, UNCHANGED vars
    PROVE  Sound'
<1>1. Known'
  BY KnownQuietSteps DEF Sound
<1>2. UNCHANGED <<latest, final, tmp, info, at, from, reply, again, told, asked, newest>>
  BY DEF vars
<1>3. PartialIsPart' /\ FinalIsVersion'
  BY <1>1, <1>2 DEF Sound, PartialIsPart, FinalIsVersion, Whole
<1>4. ReplyIsRecent' /\ Asked' /\ Transferring' /\ Answered'
  BY <1>2 DEF Sound, ReplyIsRecent, Asked, Transferring, Answered, DoneIsFresh, Whole, Part
<1>q. QED
  BY <1>1, <1>3, <1>4 DEF Sound

LEMMA SoundNext ==
    ASSUME Regular
    PROVE  Sound /\ [Next]_vars => Sound'
  BY SoundRelease, SoundStart, SoundRequest, SoundOpenFirst, SoundRemoveOld, SoundInfoOpen,
     SoundInfoWrite, SoundRetry, SoundDeliver, SoundEndTransfer, SoundRemove, SoundRename,
     SoundRenameFails, SoundNetworkFails, SoundCrash, SoundStutter DEF Next, Thread

LEMMA SoundAlways ==
    ASSUME Regular
    PROVE  Spec => []Sound
  BY SoundInit, SoundNext, PTL DEF Spec

\* Whatever was cut off, resumed, repeated or killed on the way, the file under its
\* final name is a whole version: for any number of versions and any sizes that grow.
THEOREM FinishedFileIsWhole ==
    ASSUME Regular
    PROVE  Spec => []FinishedIsWhole
<1>1. Sound => FinishedIsWhole
  <2> SUFFICES ASSUME Sound, final.exists
               PROVE  \E v \in Versions : final = Whole(v)
    BY DEF FinishedIsWhole
  <2>1. final # Absent
    BY BytesOfFile
  <2>2. PICK v \in 1 .. latest : final = Whole(v)
    BY <2>1 DEF Sound, FinalIsVersion
  <2>q. QED
    BY <2>2, ReleasedVersions DEF Sound
<1>q. QED
  BY <1>1, SoundAlways, PTL

\* A game that is told progress 1 has a whole file that is not older than the one the
\* server had when the download began.
THEOREM DoneMeansFresh ==
    ASSUME Regular
    PROVE  Spec => []DoneIsFresh
<1>1. Sound => DoneIsFresh
  BY DEF Sound, Answered
<1>q. QED
  BY <1>1, SoundAlways, PTL

-----------------------------------------------------------------------------
(* The downloads implement a published file.                                  *)

LEMMA VersionOfFile ==
    /\ VersionIn(Absent) = 0
    /\ \A v \in Versions : VersionIn(Whole(v)) = v
<1>1. \A v \in Versions : Whole(v) # Absent /\ Whole(v).bytes[1][1] = v
  BY WholeIsPart
<1>2. VersionIn(Absent) = 0
  BY <1>1, BytesOfFile DEF VersionIn
<1>3. ASSUME NEW v \in Versions
      PROVE  VersionIn(Whole(v)) = v
  <2>1. \A w \in Versions : Whole(v) = Whole(w) => w = v
    BY <1>1
  <2>2. (CHOOSE w \in Versions : Whole(v) = Whole(w)) = v
    BY <2>1
  <2>q. QED
    BY <2>2 DEF VersionIn
<1>q. QED
  BY <1>2, <1>3

LEMMA PublishedInit == Init => Published!Init
  BY VersionOfFile DEF Init, Published!Init

\* The rename publishes, the two removes withdraw, and a release is a release.
LEMMA PublishedNext == Sound /\ [Next]_vars => [Published!Next]_(Published!fileVars)
<1> SUFFICES ASSUME Sound, [Next]_vars
             PROVE  Published!Next \/ UNCHANGED Published!fileVars
  OBVIOUS
<1>1. CASE Release
  <2>1. Published!Release
    BY <1>1 DEF Release, disk, Published!Release, VersionIn, Whole
  <2>q. QED
    BY <2>1 DEF Published!Next
<1>2. CASE RemoveOld \/ Remove
  <2>1. final' = Absent /\ UNCHANGED <<newest, latest>>
    BY <1>2 DEF RemoveOld, Remove
  <2>2. VersionIn(final)' = 0
    BY <2>1, VersionOfFile DEF VersionIn, Whole
  <2>3. Published!Withdraw
    BY <2>1, <2>2 DEF Published!Withdraw
  <2>q. QED
    BY <2>3 DEF Published!Next
<1>3. CASE Rename
  <2>1. /\ reply.version \in 1 .. latest /\ reply.version \in Versions
        /\ reply.version >= newest
        /\ final' = Whole(reply.version)
        /\ newest' = reply.version
        /\ latest' = latest
    BY <1>3, ReadyToRename DEF Rename
  <2>2. newest \in Nat /\ latest \in Nat
    BY ReleasedVersions DEF Sound
  <2>3. newest' \in (newest .. latest) \ {0}
    BY <2>1, <2>2
  <2>4. VersionIn(final') = newest'
    BY <2>1, VersionOfFile
  <2>5. Published!Publish
    BY <2>1, <2>3, <2>4 DEF Published!Publish, VersionIn, Whole
  <2>q. QED
    BY <2>5 DEF Published!Next
<1>4. CASE \/ Request \/ OpenFirst \/ InfoOpen \/ InfoWrite \/ Retry \/ Deliver \/ EndTransfer
           \/ Start \/ RenameFails \/ NetworkFails \/ Crash \/ UNCHANGED vars
  <2>1. UNCHANGED <<final, newest, latest>>
    BY <1>4 DEF Request, OpenFirst, InfoOpen, InfoWrite, Retry, Deliver, EndTransfer, Start,
                RenameFails, NetworkFails, Crash, vars, disk
  <2>q. QED
    BY <2>1 DEF Published!fileVars, VersionIn, Whole
<1>q. QED
  BY <1>1, <1>2, <1>3, <1>4 DEF Next, Thread

\* The downloads implement a file that is replaced whole and never by an older one.
THEOREM DownloadsPublishWholeFiles ==
    ASSUME Regular
    PROVE  Spec => ImplementsPublishedFile
  BY PublishedInit, PublishedNext, SoundAlways, PTL
     DEF Spec, ImplementsPublishedFile, Published!Spec
=============================================================================
