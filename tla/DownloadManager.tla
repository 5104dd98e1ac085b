--------------------------- MODULE DownloadManager ---------------------------
(***************************************************************************)
(* HLHttpDownloadManager: the download of one file, its three files on     *)
(* disk, a network that fails and a process that is killed and started     *)
(* again. The bytes arrive in path.tmp, path.tmp.info keeps the version    *)
(* (Last-Modified) they belong to, and path is the finished file. A        *)
(* download that was cut off asks for the bytes that are missing.          *)
(*                                                                         *)
(* The server is modelled from the responses the code handles. Versions    *)
(* are numbered from 1 as the server releases them, a byte of the model is *)
(* what one call of the write callback stores, and carries the version and *)
(* the place in it that it was sent for, so that a mixture shows.          *)
(***************************************************************************)
EXTENDS Integers, Sequences

CONSTANTS
    Sizes,       \* the bytes of each version the server releases, in order
    Page,        \* the bytes of the page the server sends with a 404
    MaxFaults    \* how often the process is killed or an operation fails: a bound

ASSUME SizesAssumption == Sizes \in Seq(Nat \ {0})
ASSUME PageAssumption == Page \in Nat
ASSUME FaultsAssumption == MaxFaults \in Nat

VARIABLES
    latest,   \* the version the server has, 0 before the first
    server,   \* what this server does not support
    final,    \* the file path
    tmp,      \* the file path.tmp
    info,     \* the version in path.tmp.info; 0 when just truncated, NoInfo without file
    fp,       \* Closed, or how many bytes tmp had when it was opened
    at,       \* where the download's thread is
    from,     \* start_pos: the byte the request asks for first
    reply,    \* the response: its status, version, and the next byte it brings
    again,    \* whether this is the second transfer of the download
    told,     \* the last answer: progress 1, progress -1, or none yet
    asked,    \* history: the version the server had when the download began
    newest,   \* history: the newest version that was renamed to path
    faults    \* history: how often something failed

disk == <<final, tmp, info, newest>>
thread == <<fp, at, from, reply, again, told, asked>>
vars == <<latest, server, final, tmp, info, fp, at, from, reply, again, told,
          asked, newest, faults>>

Versions == 1 .. Len(Sizes)

Absent == [exists |-> FALSE, bytes |-> <<>>]
File(bytes) == [exists |-> TRUE, bytes |-> bytes]
Whole(v) == File([i \in 1 .. Sizes[v] |-> <<v, i>>])

NoInfo == -1
Closed == -1

ThreadAt == {"idle", "request", "first", "removeOld", "infoOpen", "infoWrite",
             "retry", "body", "remove", "rename"}

Init ==
    /\ latest = 0
    /\ server \in {"all", "noRanges", "noLengths"}
    /\ final = Absent
    /\ tmp = Absent
    /\ info = NoInfo
    /\ fp = Closed
    /\ at = "idle"
    /\ from = 0
    /\ reply = [status |-> 404, version |-> 0, pos |-> 0]
    /\ again = FALSE
    /\ told = "nothing"
    /\ asked = 0
    /\ newest = 0
    /\ faults = 0

\* The bytes of the response's body; of the last byte it has of a file.
Length(r) == CASE r.status = 404 -> Page
               [] r.status = 416 -> 1
               [] OTHER -> Sizes[r.version]

\* What the response says the size is: Content-Range, or else Content-Length.
Total(r) == IF r.status = 200 /\ server = "noLengths" THEN 0 ELSE Length(r)

-----------------------------------------------------------------------------
(* The write callback's first call decides what becomes of the files.      *)

\* Mutant: versions are not compared before the unfinished file is resumed.
NeverStale == FALSE

\* There is an unfinished file of another version.
StalePartial == tmp.exists /\ info # NoInfo /\ info # reply.version

\* There is only the finished file, of some version.
OnlyFinal == ~(tmp.exists /\ info # NoInfo) /\ final.exists

\* Mutant: a finished file is taken for the current one.
FinalIsCurrent == OnlyFinal

UpToDate == OnlyFinal /\ info = reply.version

OpenFirst ==
    /\ at = "first"
    /\ reply.pos < Length(reply)
    /\ CASE reply.status = 416 ->
                \* All bytes are there already: the file is renamed.
                at' = "remove" /\ UNCHANGED <<tmp, fp, again, told>>
         [] reply.status = 404 ->
                \* No Last-Modified: the page goes to the file.
                tmp' = File(<<>>) /\ fp' = 0 /\ at' = "body" /\ UNCHANGED <<again, told>>
         [] reply.status \in {200, 206} /\ UpToDate ->
                at' = "idle" /\ told' = "done" /\ UNCHANGED <<tmp, fp, again>>
         [] reply.status \in {200, 206} /\ ~UpToDate /\ (StalePartial \/ OnlyFinal) ->
                \* A new version: this transfer is given up and made again.
                /\ tmp' = File(<<>>)
                /\ fp' = 0
                /\ at' = IF StalePartial THEN "infoOpen" ELSE "removeOld"
                /\ again' = TRUE
                /\ UNCHANGED told
         [] OTHER ->
                /\ tmp' = IF reply.status = 206 THEN File(tmp.bytes) ELSE File(<<>>)
                /\ fp' = Len(tmp'.bytes)
                /\ at' = "infoOpen"
                /\ UNCHANGED <<again, told>>
    /\ UNCHANGED <<latest, server, final, info, from, reply, asked, newest, faults>>

RemoveOld ==
    /\ at = "removeOld"
    /\ final' = Absent
    /\ at' = "infoOpen"
    /\ UNCHANGED <<latest, server, tmp, info, fp, from, reply, again, told, asked,
                   newest, faults>>

\* Opening the .info file truncates it, closing it writes the version.
InfoOpen ==
    /\ at = "infoOpen"
    /\ info' = 0
    /\ at' = "infoWrite"
    /\ UNCHANGED <<latest, server, final, tmp, fp, from, reply, again, told, asked,
                   newest, faults>>

\* Mutant: the version is not recorded when the transfer is made again.
InfoWriteOnce ==
    /\ at = "infoWrite"
    /\ info' = IF again THEN 0 ELSE reply.version
    /\ at' = IF again THEN "retry" ELSE "body"
    /\ UNCHANGED <<latest, server, final, tmp, fp, from, reply, again, told, asked,
                   newest, faults>>

InfoWrite ==
    /\ at = "infoWrite"
    /\ info' = reply.version
    /\ at' = IF again THEN "retry" ELSE "body"
    /\ UNCHANGED <<latest, server, final, tmp, fp, from, reply, again, told, asked,
                   newest, faults>>

-----------------------------------------------------------------------------
(* The thread of a download.                                               *)

\* addDownloadTask, and the thread up to the request. A game has one download
\* of a path at a time.
Start ==
    /\ at = "idle"
    /\ at' = "request"
    /\ from' = Len(tmp.bytes)
    /\ again' = FALSE
    /\ told' = "nothing"
    /\ asked' = latest
    /\ UNCHANGED <<latest, server, disk, fp, reply, faults>>

\* The server's answer to a request for the bytes from the n-th on.
Answer(n) ==
    CASE latest = 0 -> [status |-> 404, version |-> 0, pos |-> 0]
      [] latest # 0 /\ (n = 0 \/ server = "noRanges") ->
             [status |-> 200, version |-> latest, pos |-> 0]
      [] latest # 0 /\ n > 0 /\ server # "noRanges" /\ n < Sizes[latest] ->
             [status |-> 206, version |-> latest, pos |-> n]
      [] OTHER -> [status |-> 416, version |-> latest, pos |-> 0]

Request ==
    /\ at = "request"
    /\ reply' = Answer(from)
    /\ at' = "first"
    /\ UNCHANGED <<latest, server, disk, fp, from, again, told, asked, faults>>

\* Mutant: the second request asks for a range, too.
RetryFrom ==
    /\ at = "retry"
    /\ reply' = Answer(from)
    /\ at' = "body"
    /\ UNCHANGED <<latest, server, disk, fp, from, again, told, asked, faults>>

\* The second transfer: a request without a range, to the file that is open.
Retry ==
    /\ at = "retry"
    /\ reply' = Answer(0)
    /\ at' = "body"
    /\ UNCHANGED <<latest, server, disk, fp, from, again, told, asked, faults>>

\* Mutant: the transfer goes on past the end of the file.
DeliverPastTheEnd ==
    /\ at = "body"
    /\ reply.pos <= Length(reply)
    /\ reply' = [reply EXCEPT !.pos = @ + 1]
    /\ tmp' = File(Append(tmp.bytes, <<reply.version, reply'.pos>>))
    /\ UNCHANGED <<latest, server, final, info, fp, at, from, again, told, asked,
                   newest, faults>>

Deliver ==
    /\ at = "body"
    /\ reply.pos < Length(reply)
    /\ reply' = [reply EXCEPT !.pos = @ + 1]
    /\ tmp' = File(Append(tmp.bytes, <<reply.version, reply'.pos>>))
    /\ UNCHANGED <<latest, server, final, info, fp, at, from, again, told, asked,
                   newest, faults>>

\* The transfer is complete. The first one counts when it has the size that
\* was announced and no 404, the second one in any case.
EndTransfer ==
    /\ at \in {"first", "body"}
    /\ reply.pos = Length(reply)
    /\ fp' = Closed
    /\ IF again \/ (reply.status # 404 /\ reply.pos = Total(reply))
       THEN at' = "remove" /\ UNCHANGED told
       ELSE at' = "idle" /\ told' = "error"
    /\ UNCHANGED <<latest, server, disk, from, reply, again, asked, faults>>

Remove ==
    /\ at = "remove"
    /\ final' = Absent
    /\ at' = "rename"
    /\ UNCHANGED <<latest, server, tmp, info, fp, from, reply, again, told, asked,
                   newest, faults>>

Rename ==
    /\ at = "rename"
    /\ final' = tmp
    /\ tmp' = Absent
    /\ newest' = IF tmp.bytes = <<>> THEN newest ELSE tmp.bytes[1][1]
    /\ told' = "done"
    /\ at' = "idle"
    /\ UNCHANGED <<latest, server, info, fp, from, reply, again, asked, faults>>

\* Only the first transfer looks at what rename returns.
RenameFails ==
    /\ at = "rename"
    /\ faults < MaxFaults
    /\ faults' = faults + 1
    /\ told' = IF again \/ reply.status = 416 THEN "done" ELSE "error"
    /\ at' = "idle"
    /\ UNCHANGED <<latest, server, disk, fp, from, reply, again, asked>>

\* The connection fails or breaks: the bytes that came are kept.
NetworkFails ==
    /\ at \in {"request", "retry", "body"}
    /\ faults < MaxFaults
    /\ faults' = faults + 1
    /\ fp' = Closed
    /\ told' = "error"
    /\ at' = "idle"
    /\ UNCHANGED <<latest, server, disk, from, reply, again, asked>>

-----------------------------------------------------------------------------
(* The environment.                                                        *)

\* The process is killed: bytes still in the buffer of fp are lost.
Crash ==
    /\ at # "idle"
    /\ faults < MaxFaults
    /\ faults' = faults + 1
    /\ IF fp = Closed
       THEN UNCHANGED tmp
       ELSE \E n \in fp .. Len(tmp.bytes) : tmp' = File(SubSeq(tmp.bytes, 1, n))
    /\ fp' = Closed
    /\ told' = "nothing"
    /\ at' = "idle"
    /\ UNCHANGED <<latest, server, final, info, newest, from, reply, again, asked>>

Release ==
    /\ latest < Len(Sizes)
    /\ latest' = latest + 1
    /\ UNCHANGED <<server, disk, thread, faults>>

Thread ==
    \/ Request
    \/ OpenFirst
    \/ RemoveOld
    \/ InfoOpen
    \/ InfoWrite
    \/ Retry
    \/ Deliver
    \/ EndTransfer
    \/ Remove
    \/ Rename

Next ==
    \/ Thread
    \/ Start
    \/ RenameFails
    \/ NetworkFails
    \/ Crash
    \/ Release

Spec == Init /\ [][Next]_vars

\* The thread runs, a connection brings the next byte or fails, and the game
\* asks again after each answer or restart.
FairSpec == Spec /\ WF_vars(Thread) /\ WF_vars(Start)

-----------------------------------------------------------------------------
(* Properties. *)

\* The state is well formed; no transfer brings more than its response has.
TypeOK ==
    /\ latest \in 0 .. Len(Sizes)
    /\ server \in {"all", "noRanges", "noLengths"}
    /\ final \in [exists : BOOLEAN, bytes : Seq(Nat \X Nat)]
    /\ tmp \in [exists : BOOLEAN, bytes : Seq(Nat \X Nat)]
    /\ info \in {NoInfo} \cup 0 .. latest
    /\ fp \in {Closed} \cup Nat
    /\ at \in ThreadAt
    /\ from \in Nat
    /\ reply \in [status : {200, 206, 404, 416}, version : 0 .. latest, pos : Nat]
    /\ reply.pos <= Length(reply)
    /\ again \in BOOLEAN
    /\ told \in {"nothing", "done", "error"}
    /\ asked \in 0 .. latest
    /\ newest \in 0 .. latest
    /\ faults \in 0 .. MaxFaults

\* Whatever was cut off, resumed, repeated or killed on the way, the file under
\* its final name is a whole version, never a part or a mixture (the comparison of
\* versions before an unfinished file is resumed, HLHttpDownloadManager.cpp:156). That
\* takes versions that grow: the 416 branch (:141) trusts the size of path.tmp alone.
FinishedIsWhole == final.exists => \E v \in Versions : final = Whole(v)

\* A game that is told progress 1 has a whole file on disk that is not older than
\* the one the server had when the download began; under its final name unless the
\* rename failed, which the second transfer and the 416 do not look at.
DoneIsFresh ==
    told = "done" => \E v \in Versions : v >= asked /\ Whole(v) \in {final, tmp}

\* A file that is no whole version stands for one the server never has.
VersionIn(f) ==
    IF \E v \in Versions : f = Whole(v) THEN CHOOSE v \in Versions : f = Whole(v)
    ELSE IF f.exists THEN Len(Sizes) + 1
    ELSE 0

Published ==
    INSTANCE PublishedFile WITH MaxVersion <- Len(Sizes), file <- VersionIn(final)

\* The downloads implement a file that is replaced whole and never by an older
\* one (remove and rename, HLHttpDownloadManager.cpp:316-321).
ImplementsPublishedFile == Published!Spec

\* Once versions and faults have come to an end, a game that keeps asking has the
\* last version, for good: no state of the three files is a trap.
EventuallyFresh == <>[](latest > 0 => final = Whole(latest))
=============================================================================
