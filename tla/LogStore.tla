------------------------------ MODULE LogStore ------------------------------
(***************************************************************************)
(* One stream of a node's log store.  Append writes to the active file and *)
(* turns it, when full, into a compressed segment in several steps on      *)
(* disk, with the stream's lock held; a crash between any two of them is   *)
(* repaired when the stream is opened again.  Readers take the lock for a  *)
(* moment only and read files while they are renamed and removed.          *)
(* QueryLogs reads the history and then follows: it subscribes, reads      *)
(* again from the time it began to follow, and passes on what is appended. *)
(*                                                                         *)
(* A line is a stored record, numbered in the order of appends.  Its time  *)
(* is the one Docker stamped it with, before it reached Append: the order  *)
(* of times is that of the numbers, but at any moment lines stamped before *)
(* it may still be on their way.                                           *)
(***************************************************************************)
EXTENDS Naturals, Sequences, FiniteSets

CONSTANTS
    MaxSegment,       \* lines that fill the active file
    RetentionLines,   \* cap on the lines in compressed segments
    subscriberBuffer,
    LogFaults,        \* a subset of {"crash", "full", "torn"}
    MaxLines, MaxLate, MaxLogFaults  \* bounds: lines, those on their way, faults

ASSUME LogStoreAssumption ==
    /\ {MaxSegment, RetentionLines, subscriberBuffer, MaxLines, MaxLate, MaxLogFaults} \subseteq Nat
    /\ LogFaults \subseteq {"crash", "full", "torn"}

VARIABLES
    active,    \* active.log, or NoFile
    raw, zst,  \* segments by number: closed, and compressed
    rotation,  \* what the holder of the stream's lock has still to do
    written,   \* lines appended so far
    expired,   \* lines that retention removed
    stuck,     \* a write failed: the buffered writer refuses every later one
    spoiled,   \* lines appended behind a record that is not whole
    logFaults,
    reader     \* one QueryLogs call

logVars == <<active, raw, zst, rotation, written, expired, stuck, spoiled, logFaults, reader>>
disk == <<active, raw, zst, expired>>

NoFile == <<0>>  \* no line has the number 0
Torn == 0        \* the beginning of a record whose write was cut
Unlocked == [step |-> "free", why |-> "none", seq |-> 0, left |-> {}]
NoReader == [step |-> "idle", round |-> 1, follow |-> FALSE, since |-> 0, size |-> 0, segs |-> {},
             hist |-> <<>>, out |-> <<>>, seen |-> 0, clean |-> TRUE,
             subscribed |-> FALSE, joined |-> 0, lagged |-> FALSE, chan |-> <<>>]

LogInit ==
    /\ active = <<>> /\ raw = <<>> /\ zst = <<>>
    /\ rotation = Unlocked /\ written = 0 /\ expired = {} /\ logFaults = 0
    /\ stuck = FALSE /\ spoiled = {}
    /\ reader = NoReader

Up == rotation.step # "down"
isFirst(n, S) == n \in S /\ \A m \in S : n <= m
With(f, n, lines) == [m \in DOMAIN f \cup {n} |-> IF m = n THEN lines ELSE f[m]]
Without(f, n) == [m \in DOMAIN f \ {n} |-> f[m]]

linesOf(seq) == {seq[i] : i \in DOMAIN seq}

\* scanRecords stops at a record that is not whole; what was appended behind one
\* is read as part of it, and is no line any more.
scanRecords(file) ==
    LET whole == {k \in 0..Len(file) : \A j \in 1..k : file[j] # Torn}
    IN  SubSeq(file, 1, CHOOSE k \in whole : \A j \in whole : j <= k)

Fault(f) == f \in LogFaults /\ logFaults < MaxLogFaults /\ logFaults' = logFaults + 1

(***************************************************************************)
(* Append and rotate                                                       *)
(***************************************************************************)
\* Mutant: a follower is registered once it has read the history.
notifyLive(r, line) ==
    IF r.step # "live" \/ r.lagged THEN r
    ELSE IF Len(r.chan) < subscriberBuffer THEN [r EXCEPT !.chan = Append(@, line)]
    ELSE [r EXCEPT !.lagged = TRUE]
\* A follower whose buffer is full is closed; the buffers behind the first one
\* (merged, out) are left out.
notify(r, line) ==
    IF ~r.subscribed \/ r.lagged THEN r
    ELSE IF Len(r.chan) < subscriberBuffer THEN [r EXCEPT !.chan = Append(@, line)]
    ELSE [r EXCEPT !.lagged = TRUE]

\* The caller appends one line at a time.  The segment may also be too old.
AppendLine(aged) ==
    /\ rotation = Unlocked /\ active # NoFile /\ ~stuck /\ written < MaxLines
    /\ written' = written + 1 /\ active' = Append(active, written')
    /\ spoiled' = spoiled \cup {l \in {written'} : Torn \in linesOf(active)}
    /\ LET full == aged \/ Len(active') >= MaxSegment
       IN  /\ rotation' = IF full THEN [Unlocked EXCEPT !.step = "rename", !.why = "rotate"] ELSE Unlocked
           /\ reader' = [notify(reader, written') EXCEPT !.clean = @ /\ ~(full /\ reader.step \in {"list", "read"})]
    /\ UNCHANGED <<raw, zst, expired, stuck, logFaults>>

\* The disk takes nothing of the record, or a part of it ("torn").  Append fails,
\* and so does every later one: the error stays with the buffered writer.
AppendFails ==
    /\ rotation = Unlocked /\ active # NoFile /\ ~stuck /\ Fault("full")
    /\ stuck' = TRUE
    /\ UNCHANGED active \/ ("torn" \in LogFaults /\ active' = Append(active, Torn))
    /\ UNCHANGED <<raw, zst, rotation, written, expired, spoiled, reader>>

above(S) == CHOOSE n \in 0..MaxLines : isFirst(n, {m \in 0..MaxLines : \A k \in S : k < m})
\* Mutant: only compressed segments are counted.
nextSeqCompressed == above(DOMAIN zst)
nextSeq == above(DOMAIN raw \cup DOMAIN zst)

RenameActive ==
    /\ rotation.step = "rename"
    /\ raw' = With(raw, nextSeq, active) /\ active' = NoFile
    /\ rotation' = [rotation EXCEPT !.step = "compress", !.seq = nextSeq]
    /\ UNCHANGED <<zst, expired, written, stuck, spoiled, logFaults, reader>>

\* What the holder of the lock does when a segment is dealt with: the next one
\* that recovery found, or the active file.
nextSegment(l) ==
    IF l.left = {} THEN [l EXCEPT !.step = "open"]
    ELSE LET n == CHOOSE m \in l.left : isFirst(m, l.left)
         IN  [l EXCEPT !.step = "compress", !.seq = n, !.left = @ \ {n}]

\* compressSegment up to its renames: the compressed file appears whole.
compressSegment ==
    /\ rotation.step = "compress"
    /\ zst' = With(zst, rotation.seq, scanRecords(raw[rotation.seq])) /\ UNCHANGED raw
    /\ rotation' = [rotation EXCEPT !.step = "remove"]
    /\ UNCHANGED <<active, expired, written, stuck, spoiled, logFaults, reader>>

\* The disk is full.  Recovery goes on to the next segment; a rotation ends here,
\* without an active file, and no later append succeeds.
CompressFails ==
    /\ rotation.step = "compress" /\ Fault("full")
    /\ rotation' = IF rotation.why = "rotate" THEN Unlocked ELSE nextSegment(rotation)
    /\ UNCHANGED <<disk, written, stuck, spoiled, reader>>

RemoveRaw ==
    /\ rotation.step = "remove"
    /\ raw' = Without(raw, rotation.seq)
    /\ rotation' = nextSegment(rotation)
    /\ UNCHANGED <<active, zst, expired, written, stuck, spoiled, logFaults, reader>>

OpenActive ==
    /\ rotation.step = "open"
    /\ active' = IF active = NoFile THEN <<>> ELSE active
    /\ rotation' = IF rotation.why = "rotate" THEN [rotation EXCEPT !.step = "retain"] ELSE Unlocked
    /\ UNCHANGED <<raw, zst, expired, written, stuck, spoiled, logFaults, reader>>

\* enforceRetention removes the oldest segments, those that are too old and then
\* until the rest is within the cap.
compressed == UNION {linesOf(zst[n]) : n \in DOMAIN zst}

enforceRetention ==
    /\ rotation.step = "retain"
    /\ \/ /\ Cardinality(compressed) <= RetentionLines
          /\ rotation' = Unlocked /\ UNCHANGED <<zst, expired>>
       \/ \E n \in DOMAIN zst :
             /\ isFirst(n, DOMAIN zst)
             /\ zst' = Without(zst, n) /\ expired' = expired \cup linesOf(zst[n])
             /\ UNCHANGED rotation
    /\ UNCHANGED <<active, raw, written, stuck, spoiled, logFaults, reader>>

(***************************************************************************)
(* Crash and recovery                                                       *)
(***************************************************************************)
\* The process dies; readers go with it.  A write that was under way may leave a
\* part of its record ("torn").
Killed ==
    /\ Up /\ Fault("crash")
    /\ rotation' = [Unlocked EXCEPT !.step = "down"] /\ reader' = NoReader /\ stuck' = FALSE
    /\ \/ UNCHANGED active
       \/ /\ "torn" \in LogFaults /\ rotation = Unlocked /\ active # NoFile /\ ~stuck
          /\ active' = Append(active, Torn)
    /\ UNCHANGED <<raw, zst, expired, written, spoiled>>

\* The stream is opened: leftover raw segments first, then the active file.
OpenStream ==
    /\ rotation.step = "down"
    /\ rotation' = nextSegment([Unlocked EXCEPT !.why = "recover", !.left = DOMAIN raw])
    /\ UNCHANGED <<disk, written, stuck, spoiled, logFaults, reader>>

(***************************************************************************)
(* QueryLogs                                                               *)
(***************************************************************************)
Reads(step) == Up /\ reader.step = step /\ UNCHANGED <<disk, rotation, written, stuck, spoiled, logFaults>>

BeginQuery(follow) ==
    /\ Reads("idle") /\ rotation.why # "recover"
    /\ reader' = [NoReader EXCEPT !.step = "snapshot", !.follow = follow]

\* With the lock: the length of the active file.
Snapshot ==
    /\ Reads("snapshot") /\ rotation = Unlocked
    /\ reader' = [reader EXCEPT !.step = "list", !.hist = <<>>, !.clean = active # NoFile, !.seen = written,
                                !.size = IF active = NoFile THEN 0 ELSE Len(active)]

\* The lines of a file that are kept: it is in the order of time, so they are its end.
Since(lines) ==
    LET k == CHOOSE n \in 0..Len(lines) : \A i \in DOMAIN lines : lines[i] > reader.since <=> i > n
    IN  SubSeq(lines, k + 1, Len(lines))

\* The active file up to the length it had: it may be another one by now.
tail(size) ==
    LET n == IF size < Len(active) THEN size ELSE Len(active)
    IN  IF active = NoFile THEN <<>> ELSE Since(scanRecords(SubSeq(active, 1, n)))

\* Mutant: the active file is read first.
ListSegmentsLast ==
    /\ Reads("list")
    /\ reader' = IF reader.size = 0 THEN [reader EXCEPT !.step = "read", !.segs = DOMAIN zst]
                 ELSE [reader EXCEPT !.hist = tail(reader.size), !.size = 0]
ListSegments ==
    /\ Reads("list")
    /\ reader' = [reader EXCEPT !.step = "read", !.segs = DOMAIN zst]

\* A segment that retention has removed fails the query; the history of a follower
\* is skipped then.
ReadSegment ==
    /\ Reads("read") /\ reader.segs # {}
    /\ \E n \in reader.segs :
          /\ isFirst(n, reader.segs)
          /\ reader' = IF n \in DOMAIN zst
                       THEN [reader EXCEPT !.segs = @ \ {n}, !.hist = @ \o Since(zst[n])]
                       ELSE [reader EXCEPT !.step = IF reader.round = 1 THEN "failed" ELSE "live",
                                           !.clean = FALSE]

afterHistory(r) == IF r.round = 2 THEN "live" ELSE IF r.follow THEN "since" ELSE "done"

\* sort.SliceStable: an entry comes after those of an earlier time and those of its
\* own time that it followed.
place(s, i) == Cardinality({j \in DOMAIN s : s[j] < s[i] \/ (s[j] = s[i] /\ j <= i)})
SliceStable(s) == [k \in DOMAIN s |-> s[CHOOSE i \in DOMAIN s : place(s, i) = k]]

\* The active file last; the result is sorted by time.
ReadActive ==
    /\ Reads("read") /\ reader.segs = {}
    /\ reader' = [reader EXCEPT !.step = afterHistory(reader), !.hist = <<>>,
                                !.out = @ \o SliceStable(reader.hist \o tail(reader.size))]

\* Follow begins: what is read again is what is stamped after this moment, at which
\* some lines are stamped and still on their way from the container.
TakeTime(late) ==
    /\ Reads("since")
    /\ reader' = [reader EXCEPT !.step = "subscribe", !.since = written + late, !.round = 2]

Subscribe ==
    /\ Reads("subscribe") /\ rotation = Unlocked
    /\ reader' = [reader EXCEPT !.step = "snapshot", !.subscribed = TRUE, !.joined = written]

Deliver ==
    /\ Reads("live") /\ reader.chan # <<>>
    /\ reader' = [reader EXCEPT !.out = Append(@, Head(reader.chan)), !.chan = Tail(@)]

EndLagged ==
    /\ Reads("live") /\ reader.lagged
    /\ reader' = [reader EXCEPT !.step = "done"]

LogNext ==
    \/ \E aged \in BOOLEAN : AppendLine(aged)
    \/ AppendFails
    \/ RenameActive \/ compressSegment \/ CompressFails \/ RemoveRaw \/ OpenActive \/ enforceRetention
    \/ Killed \/ OpenStream
    \/ \E follow \in BOOLEAN : BeginQuery(follow)
    \/ Snapshot \/ ListSegments \/ ReadSegment \/ ReadActive
    \/ \E late \in 0..MaxLate : TakeTime(late)
    \/ Subscribe \/ Deliver \/ EndLagged

LogSpec == LogInit /\ [][LogNext]_logVars

(***************************************************************************)
(* Properties                                                              *)
(***************************************************************************)
\* What is on disk: a raw segment is as good as its compressed form, which is
\* either missing or the same.
segment(n) == IF n \in DOMAIN raw THEN raw[n] ELSE zst[n]
stored ==
    linesOf(scanRecords(active))
        \cup UNION {linesOf(scanRecords(segment(n))) : n \in DOMAIN raw \cup DOMAIN zst}

\* Nothing but retention loses a line, and no line is there twice, wherever the
\* process dies during an append, a rotation or a recovery, and whatever the disk
\* refuses (rotate, compressSegment, open).  Except what is appended behind a record
\* that was cut: open goes on at the end of such a file (segmented.go:159).
LogKept ==
    /\ 1..written \subseteq stored \cup expired \cup spoiled
    /\ \A m, n \in DOMAIN raw \cup DOMAIN zst :
          m # n => linesOf(segment(m)) \cap linesOf(segment(n)) \subseteq {Torn}

readable == compressed \cup linesOf(scanRecords(active))
Increasing(s) == \A i, j \in DOMAIN s : i < j => s[i] < s[j]

\* A query never returns a line twice, although the active file
\* becomes a segment while it reads; and unless that happened it returns every
\* line that was there when it began (read lists the segments before it opens
\* the active file).
QueryExact ==
    reader.step \in {"since", "done"} /\ reader.round = 1 =>
        /\ Increasing(reader.out)
        /\ reader.clean => \A l \in readable : l <= reader.seen => l \in linesOf(reader.out)

\* A follower that is not told it lagged gets every line appended after it
\* subscribed; and of those before it misses none that is stamped after it began to
\* follow: what it reads again and what it is sent overlap (Follow subscribes first).
\* A rotation may hide a line from the second read, as may a full disk.  A line
\* stamped before and appended before it subscribed is not claimed.
FollowComplete ==
    reader.step = "live" /\ ~reader.lagged =>
        LET got == linesOf(reader.out) \cup linesOf(reader.chan)
        IN  /\ (reader.joined + 1)..written \subseteq got
            /\ reader.clean => (reader.since + 1)..written \subseteq got \cup expired \cup spoiled
=============================================================================
