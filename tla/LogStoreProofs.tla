---------------------------- MODULE LogStoreProofs ----------------------------
(***************************************************************************)
(* Why the log store loses no line and a query returns what it should.     *)
(* Files are in the order of their lines, a segment before one with a      *)
(* higher number and every segment before the active file; a rotation      *)
(* moves one file through its stages and never has a line in none of them; *)
(* a reader has passed a prefix of that order.                             *)
(***************************************************************************)
EXTENDS LogStore, FiniteSetTheorems, WellFoundedInduction, TLAPS

Segs == DOMAIN raw \cup DOMAIN zst
activeLines == IF active = NoFile THEN {} ELSE linesOf(active)
Whole(file, last) ==
    /\ file \in Seq(Nat) /\ Increasing(file)
    /\ \A l \in linesOf(file) : 0 < l /\ l <= last
Precedes(f, g) == \A k \in linesOf(f), l \in linesOf(g) : k < l

(***************************************************************************)
(* The disk                                                                *)
(***************************************************************************)
Lock == [step : {"free", "rename", "compress", "remove", "open", "retain", "down"},
         why : {"none", "rotate", "recover"}, seq : Nat, left : SUBSET Nat]

DiskTypeOK ==
    /\ written \in Nat /\ written <= MaxLines /\ rotation \in Lock
    /\ active = NoFile \/ Whole(active, written)
    /\ DOMAIN raw \subseteq Nat /\ \A n \in DOMAIN raw : Whole(raw[n], written)
    /\ DOMAIN zst \subseteq Nat /\ \A n \in DOMAIN zst : Whole(zst[n], written)

\* A segment that is there in both forms is the same in both, and numbers follow time.
Ordered ==
    /\ \A n \in DOMAIN raw \cap DOMAIN zst : raw[n] = zst[n]
    /\ \A m, n \in Segs : m < n => Precedes(segment(m), segment(n))
    /\ active # NoFile => \A n \in Segs : Precedes(segment(n), active)

\* Where the holder of the lock is.  A number is free for the next segment, since
\* there are fewer than lines.
Rotating ==
    /\ \A n \in Segs : n < written /\ (rotation.step = "rename" => n + 1 < written)
    /\ rotation.step = "rename" => active # NoFile /\ rotation.why = "rotate" /\ written > 0
    /\ rotation.step \in {"compress", "remove"} => rotation.seq \in DOMAIN raw \ rotation.left
    /\ rotation.step = "remove" => rotation.seq \in DOMAIN zst
    /\ rotation.left \subseteq DOMAIN raw
    /\ rotation.step \in {"compress", "remove"} /\ rotation.why = "rotate" => active = NoFile
    /\ rotation.why = "rotate" => rotation.left = {}
    /\ rotation.step \in {"free", "down"} => rotation = [Unlocked EXCEPT !.step = rotation.step]
    /\ rotation.step \notin {"free", "down"} => rotation.why # "none"

Covered == \A l \in 1..written :
    l \in expired \/ l \in activeLines \/ \E n \in Segs : l \in linesOf(segment(n))

DiskInv == DiskTypeOK /\ Ordered /\ Rotating /\ Covered

(***************************************************************************)
(* The reader                                                              *)
(***************************************************************************)
QueryState ==
    [step : {"idle", "snapshot", "list", "read", "since", "subscribe", "live", "done", "failed"},
     round : {1, 2}, follow : BOOLEAN, since : Nat, size : Nat, segs : SUBSET Nat,
     hist : Seq(Nat), out : Seq(Nat), seen : Nat, clean : BOOLEAN,
     subscribed : BOOLEAN, joined : Nat, lagged : BOOLEAN, chan : Seq(Nat)]

ReaderTypeOK == reader \in QueryState /\ reader.seen <= written

Reading == reader.step \in {"list", "read"}

\* Readers live between recovery and the next crash.
ReaderUp == reader.step # "idle" => rotation.step # "down" /\ rotation.why # "recover"

\* What has been read is older than what there is to read.
HistoryInv ==
    Reading =>
        /\ Whole(reader.hist, written)
        /\ reader.step = "list" => reader.hist = <<>>
        /\ \A n \in reader.segs \cap Segs : Precedes(reader.hist, segment(n))
        /\ active # NoFile => Precedes(reader.hist, active)

\* As long as no rotation began, the files are those of the snapshot, the active one
\* but for what was appended.
CleanInv ==
    Reading /\ reader.clean =>
        /\ rotation = Unlocked /\ active # NoFile /\ reader.size <= Len(active)
        /\ \A i \in DOMAIN active : active[i] <= reader.seen => i <= reader.size
        /\ reader.step = "read" =>
              /\ reader.segs \subseteq DOMAIN zst
              /\ \A n \in DOMAIN zst \ reader.segs : \A l \in linesOf(zst[n]) :
                    l > reader.since => l \in linesOf(reader.hist)

\* The first round asks for everything.
FirstRound ==
    reader.round = 1 =>
        /\ reader.since = 0 /\ ~reader.subscribed
        /\ reader.step \in {"snapshot", "list", "read"} => reader.out = <<>>
        /\ reader.step \in {"idle", "snapshot", "list", "read", "since", "done", "failed"}
        /\ reader.step \in {"since", "done"} => Increasing(reader.out)

\* What a reader has returned it has returned wherever the line is by now.
readableSoon(l) ==
    \/ l \in activeLines \/ \E n \in DOMAIN zst : l \in linesOf(zst[n])
    \/ /\ rotation.step \in {"compress", "remove"}
       /\ l \in linesOf(raw[rotation.seq])

Answered ==
    reader.round = 1 /\ reader.step \in {"since", "done"} /\ reader.clean =>
        \A l \in Nat : readableSoon(l) /\ l <= reader.seen => l \in linesOf(reader.out)

\* A follower: what is newer than its start is in no leftover of an earlier recovery,
\* and what is newer than its snapshot has been sent to it.
FollowInv ==
    reader.round = 2 /\ reader.step # "done" =>
        /\ reader.step \in {"subscribe", "snapshot", "list", "read", "live"}
        /\ reader.subscribed <=> reader.step # "subscribe"
        /\ \A n \in DOMAIN raw :
              \/ rotation.step \in {"compress", "remove"} /\ n = rotation.seq
              \/ rotation = Unlocked /\ active = NoFile
              \/ \A l \in linesOf(raw[n]) : l <= reader.since
        /\ Reading /\ ~reader.lagged => \A l \in 1..written : l > reader.seen => l \in linesOf(reader.chan)

\* What was appended after the subscription has been sent.
Sent ==
    reader.subscribed /\ ~reader.lagged /\ reader.step # "done" =>
        \A l \in 1..written : l > reader.joined => l \in linesOf(reader.out) \/ l \in linesOf(reader.chan)

\* The second read finds what is stamped after the follower began.
ReadAgain ==
    reader.step = "live" /\ reader.clean /\ ~reader.lagged =>
        \A l \in ((reader.since + 1)..written) \ expired :
            l \in linesOf(reader.out) \/ l \in linesOf(reader.chan)

ReaderInv ==
    /\ ReaderTypeOK /\ ReaderUp /\ HistoryInv /\ CleanInv /\ FirstRound /\ Answered
    /\ FollowInv /\ Sent /\ ReadAgain

(***************************************************************************)
(* The operators of the model                                              *)
(***************************************************************************)
LEMMA Smallest ==
    ASSUME NEW S \in SUBSET Nat, S # {}
    PROVE  \E n \in S : isFirst(n, S)
  <1>1. PICK n \in S : \A m \in S : ~ (<<m, n>> \in OpToRel(<, Nat))
    BY WFMin, NatLessThanWellFounded
  <1>2. OpToRel(<, Nat) = {p \in Nat \X Nat : p[1] < p[2]}
    BY Zenon DEF OpToRel
  <1>3. \A m \in S : ~ (<<m, n>> \in {p \in Nat \X Nat : p[1] < p[2]})
    BY <1>1, <1>2, Zenon
  <1>4. \A m \in S : ~ (m < n)
    BY <1>3
  <1> QED BY <1>4 DEF isFirst

\* A file without a torn record is read to its end.
LEMMA ScanWhole ==
    ASSUME NEW file \in Seq(Nat \ {0})
    PROVE  scanRecords(file) = file
  <1> DEFINE whole == {k \in 0..Len(file) : \A j \in 1..k : file[j] # Torn}
  <1>1. Len(file) \in whole
    BY DEF Torn
  <1>2. \A k \in whole : k <= Len(file) /\ k \in Nat
    OBVIOUS
  <1>3. (CHOOSE k \in whole : \A j \in whole : j <= k) = Len(file)
    <2> HIDE DEF whole
    <2>1. \A k \in whole : (\A j \in whole : j <= k) => k = Len(file)
      BY <1>1, <1>2
    <2>2. \A j \in whole : j <= Len(file)
      BY <1>2
    <2> QED BY <1>1, <2>1, <2>2
  <1>4. scanRecords(file) = SubSeq(file, 1, Len(file))
    BY <1>3 DEF scanRecords
  <1> QED BY <1>4

LEMMA ScanNone == scanRecords(NoFile) = <<>>
  <1> DEFINE whole == {k \in 0..Len(NoFile) : \A j \in 1..k : NoFile[j] # Torn}
  <1>1. whole = {0}
    BY DEF Torn, NoFile
  <1>2. (CHOOSE k \in whole : \A j \in whole : j <= k) = 0
    BY <1>1
  <1> QED BY <1>2 DEF scanRecords, NoFile

\* What is kept of a file are its lines after the time asked for.
LEMMA SinceLines ==
    ASSUME NEW file \in Seq(Nat), Increasing(file), reader.since \in Nat
    PROVE  /\ Since(file) \in Seq(Nat) /\ Increasing(Since(file))
           /\ \A l : l \in linesOf(Since(file)) <=> l \in linesOf(file) /\ l > reader.since
  <1> DEFINE split(n) == \A i \in DOMAIN file : file[i] > reader.since <=> i > n
             later == {i \in Nat : i > Len(file) \/ (i \in DOMAIN file /\ file[i] > reader.since)}
             k == CHOOSE n \in 0..Len(file) : split(n)
  <1>1. \E n \in 0..Len(file) : split(n)
    <2>1. later \in SUBSET Nat /\ Len(file) + 1 \in later
      OBVIOUS
    <2>2. PICK n \in later : isFirst(n, later)
      BY <2>1, Smallest
    <2>3. n >= 1 /\ n <= Len(file) + 1
      BY <2>1, <2>2 DEF isFirst
    <2>4. ASSUME NEW i \in DOMAIN file PROVE file[i] > reader.since <=> i > n - 1
      <3>1. CASE file[i] > reader.since
        BY <3>1, <2>2, <2>3 DEF isFirst
      <3>2. CASE ~(file[i] > reader.since)
        <4> SUFFICES ASSUME i >= n PROVE FALSE
          <5>1. i \in Nat /\ n \in Nat
            OBVIOUS
          <5> QED BY <3>2, <5>1
        <4>1. n \in DOMAIN file /\ file[n] > reader.since
          <5>1. n \in Nat /\ n <= Len(file) /\ i \in 1..Len(file)
            OBVIOUS
          <5> QED BY <5>1, <2>3
        <4>2. file[n] <= file[i] /\ file[n] \in Nat /\ file[i] \in Nat
          BY <4>1 DEF Increasing
        <4> QED BY <3>2, <4>1, <4>2
      <3> QED BY <3>1, <3>2
    <2> QED BY <2>3, <2>4
  <1>2. k \in 0..Len(file) /\ split(k)
    BY <1>1
  <1>3. Since(file) = SubSeq(file, k + 1, Len(file))
    BY DEF Since
  <1> HIDE DEF k
  <1>4. /\ Since(file) \in Seq(Nat) /\ Len(Since(file)) = Len(file) - k
        /\ \A i \in 1..(Len(file) - k) : Since(file)[i] = file[i + k]
    BY <1>2, <1>3
  <1>5. Increasing(Since(file))
    <2> SUFFICES ASSUME NEW i \in 1..(Len(file) - k), NEW j \in 1..(Len(file) - k), i < j
                 PROVE  Since(file)[i] < Since(file)[j]
      BY <1>4 DEF Increasing
    <2>1. i + k \in DOMAIN file /\ j + k \in DOMAIN file /\ i + k < j + k
      BY <1>2
    <2> QED BY <1>4, <2>1 DEF Increasing
  <1>6. ASSUME NEW l PROVE l \in linesOf(Since(file)) <=> l \in linesOf(file) /\ l > reader.since
    <2>1. ASSUME NEW i \in 1..(Len(file) - k)
          PROVE  Since(file)[i] \in linesOf(file) /\ Since(file)[i] > reader.since
      <3>1. i + k \in DOMAIN file /\ i + k > k /\ Since(file)[i] = file[i + k]
        BY <1>2, <1>4
      <3> QED BY <1>2, <3>1 DEF linesOf
    <2>2. ASSUME NEW i \in DOMAIN file, file[i] > reader.since
          PROVE  file[i] \in linesOf(Since(file))
      <3>1. i - k \in 1..(Len(file) - k) /\ Since(file)[i - k] = file[i]
        <4>1. i > k /\ i \in 1..Len(file) /\ k \in 0..Len(file)
          BY <1>2, <2>2
        <4>2. i - k \in 1..(Len(file) - k) /\ (i - k) + k = i
          BY <4>1
        <4>3. Since(file)[i - k] = file[(i - k) + k]
          BY <1>4, <4>2
        <4> QED BY <4>2, <4>3
      <3> QED BY <1>4, <3>1 DEF linesOf
    <2>3. DOMAIN Since(file) = 1..(Len(file) - k)
      BY <1>4
    <2> QED BY <2>1, <2>2, <2>3 DEF linesOf
  <1> QED BY <1>4, <1>5, <1>6

\* Sorting what is in order changes nothing.
LEMMA SortOrdered ==
    ASSUME NEW s \in Seq(Nat), Increasing(s)
    PROVE  SliceStable(s) = s
  <1>1. ASSUME NEW i \in DOMAIN s PROVE place(s, i) = i
    <2>1. {j \in DOMAIN s : s[j] < s[i] \/ (s[j] = s[i] /\ j <= i)} = 1..i
      BY DEF Increasing
    <2>2. Cardinality(1..i) = i
      BY FS_Interval
    <2> QED BY <2>1, <2>2 DEF place
  <1>2. ASSUME NEW k \in DOMAIN s PROVE (CHOOSE i \in DOMAIN s : place(s, i) = k) = k
    BY <1>1
  <1>3. SliceStable(s) = [k \in DOMAIN s |-> s[k]]
    <2> DEFINE from(k) == CHOOSE i \in DOMAIN s : place(s, i) = k
    <2>1. \A k \in DOMAIN s : from(k) = k
      BY <1>2
    <2> HIDE DEF from
    <2>2. [k \in DOMAIN s |-> s[from(k)]] = [k \in DOMAIN s |-> s[k]]
      BY <2>1
    <2> QED BY <2>2 DEF SliceStable, from
  <1> QED BY <1>3

LEMMA CatLines ==
    ASSUME NEW f \in Seq(Nat), NEW g \in Seq(Nat)
    PROVE  /\ f \o g \in Seq(Nat) /\ linesOf(f \o g) = linesOf(f) \cup linesOf(g)
           /\ Increasing(f) /\ Increasing(g) /\ Precedes(f, g) => Increasing(f \o g)
  <1>1. /\ f \o g \in Seq(Nat) /\ DOMAIN (f \o g) = 1..(Len(f) + Len(g))
        /\ DOMAIN f = 1..Len(f) /\ DOMAIN g = 1..Len(g)
        /\ \A i \in 1..Len(f) : (f \o g)[i] = f[i]
        /\ \A i \in 1..Len(g) : (f \o g)[Len(f) + i] = g[i]
    OBVIOUS
  <1>2. linesOf(f \o g) \subseteq linesOf(f) \cup linesOf(g)
    <2> SUFFICES ASSUME NEW i \in 1..(Len(f) + Len(g)) PROVE (f \o g)[i] \in linesOf(f) \cup linesOf(g)
      BY <1>1 DEF linesOf
    <2>1. CASE i > Len(f)
      <3>1. i - Len(f) \in 1..Len(g) /\ Len(f) + (i - Len(f)) = i
        BY <2>1
      <3>2. (f \o g)[i] = g[i - Len(f)]
        BY <1>1, <3>1
      <3> QED BY <1>1, <3>1, <3>2 DEF linesOf
    <2>2. CASE i <= Len(f)
      <3>1. i \in 1..Len(f)
        BY <2>2
      <3> QED BY <1>1, <3>1 DEF linesOf
    <2> QED BY <2>1, <2>2
  <1>3. linesOf(f) \cup linesOf(g) \subseteq linesOf(f \o g)
    <2>1. ASSUME NEW i \in 1..Len(f) PROVE f[i] \in linesOf(f \o g)
      BY <1>1 DEF linesOf
    <2>2. ASSUME NEW i \in 1..Len(g) PROVE g[i] \in linesOf(f \o g)
      <3>1. Len(f) + i \in 1..(Len(f) + Len(g)) /\ (f \o g)[Len(f) + i] = g[i]
        BY <1>1
      <3> QED BY <1>1, <3>1 DEF linesOf
    <2> QED BY <1>1, <2>1, <2>2 DEF linesOf
  <1>4. ASSUME Increasing(f), Increasing(g), Precedes(f, g) PROVE Increasing(f \o g)
    <2> SUFFICES ASSUME NEW i \in 1..(Len(f) + Len(g)), NEW j \in 1..(Len(f) + Len(g)), i < j
                 PROVE  (f \o g)[i] < (f \o g)[j]
      BY <1>1 DEF Increasing
    <2>1. CASE j <= Len(f)
      <3>1. i \in 1..Len(f) /\ j \in 1..Len(f)
        BY <2>1
      <3> QED BY <1>1, <1>4, <3>1 DEF Increasing
    <2>2. CASE i > Len(f)
      <3>1. /\ i - Len(f) \in 1..Len(g) /\ j - Len(f) \in 1..Len(g) /\ i - Len(f) < j - Len(f)
            /\ Len(f) + (i - Len(f)) = i /\ Len(f) + (j - Len(f)) = j
        BY <2>2
      <3>2. (f \o g)[i] = g[i - Len(f)] /\ (f \o g)[j] = g[j - Len(f)]
        BY <1>1, <3>1
      <3> QED BY <1>1, <1>4, <3>1, <3>2 DEF Increasing
    <2>3. CASE i <= Len(f) /\ j > Len(f)
      <3>1. i \in 1..Len(f) /\ j - Len(f) \in 1..Len(g) /\ Len(f) + (j - Len(f)) = j
        BY <2>3
      <3>2. (f \o g)[i] = f[i] /\ (f \o g)[j] = g[j - Len(f)]
        BY <1>1, <3>1
      <3>3. f[i] \in linesOf(f) /\ g[j - Len(f)] \in linesOf(g)
        BY <1>1, <3>1 DEF linesOf
      <3> QED BY <1>4, <3>2, <3>3 DEF Precedes
    <2> QED BY <2>1, <2>2, <2>3
  <1> QED BY <1>1, <1>2, <1>3, <1>4

LEMMA AppendLines ==
    ASSUME NEW f \in Seq(Nat), NEW x \in Nat
    PROVE  /\ Append(f, x) \in Seq(Nat) /\ linesOf(Append(f, x)) = linesOf(f) \cup {x}
           /\ Increasing(f) /\ (\A i \in DOMAIN f : f[i] < x) => Increasing(Append(f, x))
  <1>1. /\ Append(f, x) \in Seq(Nat) /\ DOMAIN Append(f, x) = 1..(Len(f) + 1) /\ DOMAIN f = 1..Len(f)
        /\ \A i \in 1..Len(f) : Append(f, x)[i] = f[i]
        /\ Append(f, x)[Len(f) + 1] = x
    OBVIOUS
  <1>2. linesOf(Append(f, x)) = linesOf(f) \cup {x}
    <2>1. ASSUME NEW i \in 1..(Len(f) + 1) PROVE Append(f, x)[i] \in linesOf(f) \cup {x}
      <3>1. i \in 1..Len(f) \/ i = Len(f) + 1
        OBVIOUS
      <3> QED BY <1>1, <3>1 DEF linesOf
    <2>2. ASSUME NEW i \in 1..Len(f) PROVE f[i] \in linesOf(Append(f, x))
      <3>1. i \in 1..(Len(f) + 1) /\ Append(f, x)[i] = f[i]
        BY <1>1
      <3> QED BY <1>1, <3>1 DEF linesOf
    <2>3. x \in linesOf(Append(f, x))
      <3>1. Len(f) + 1 \in 1..(Len(f) + 1)
        OBVIOUS
      <3> QED BY <1>1, <3>1 DEF linesOf
    <2> QED BY <1>1, <2>1, <2>2, <2>3 DEF linesOf
  <1>3. Increasing(f) /\ (\A i \in DOMAIN f : f[i] < x) => Increasing(Append(f, x))
    BY <1>1 DEF Increasing
  <1> QED BY <1>1, <1>2, <1>3

\* A delivered line moves from the channel to what was returned.
LEMMA DeliverLines ==
    ASSUME NEW f \in Seq(Nat), NEW c \in Seq(Nat), c # <<>>
    PROVE  /\ Append(f, Head(c)) \in Seq(Nat) /\ Tail(c) \in Seq(Nat)
           /\ linesOf(Append(f, Head(c))) \cup linesOf(Tail(c)) = linesOf(f) \cup linesOf(c)
  <1>1. Head(c) \in Nat /\ Tail(c) \in Seq(Nat) /\ Head(c) = c[1] /\ Len(Tail(c)) = Len(c) - 1 /\ Len(c) >= 1
    OBVIOUS
  <1>2. \A i \in 1..(Len(c) - 1) : Tail(c)[i] = c[i + 1]
    OBVIOUS
  <1>3. linesOf(c) = {Head(c)} \cup linesOf(Tail(c))
    <2>1. ASSUME NEW i \in 1..Len(c) PROVE c[i] \in {Head(c)} \cup linesOf(Tail(c))
      <3>1. CASE i > 1
        <4>1. i - 1 \in 1..(Len(c) - 1) /\ Tail(c)[i - 1] = c[i]
          BY <1>2, <3>1
        <4>2. DOMAIN Tail(c) = 1..(Len(c) - 1)
          BY <1>1
        <4> QED BY <4>1, <4>2 DEF linesOf
      <3> QED BY <1>1, <3>1
    <2>2. ASSUME NEW i \in 1..(Len(c) - 1) PROVE Tail(c)[i] \in linesOf(c)
      BY <1>2, <2>2 DEF linesOf
    <2>3. Head(c) \in linesOf(c)
      BY <1>1 DEF linesOf
    <2>4. DOMAIN Tail(c) = 1..(Len(c) - 1) /\ DOMAIN c = 1..Len(c)
      BY <1>1
    <2>5. linesOf(c) \subseteq {Head(c)} \cup linesOf(Tail(c))
      BY <2>1, <2>4 DEF linesOf
    <2>6. linesOf(Tail(c)) \subseteq linesOf(c)
      BY <2>2, <2>4 DEF linesOf
    <2> QED BY <2>3, <2>5, <2>6
  <1> QED BY <1>1, <1>3, AppendLines

\* The next number is above all there are.
LEMMA AboveAll ==
    ASSUME NEW S \in SUBSET Nat, NEW m \in 0..MaxLines, MaxLines \in Nat, \A k \in S : k < m
    PROVE  above(S) \in 0..m /\ \A k \in S : k < above(S)
  <1> DEFINE free == {n \in 0..MaxLines : \A k \in S : k < n}
  <1>1. free \in SUBSET Nat /\ m \in free
    OBVIOUS
  <1>2. \E n \in 0..MaxLines : isFirst(n, free)
    BY <1>1, Smallest
  <1>3. above(S) = CHOOSE n \in 0..MaxLines : isFirst(n, free)
    BY DEF above
  <1>4. isFirst(above(S), free)
    BY <1>2, <1>3
  <1> QED BY <1>1, <1>4 DEF isFirst
LEMMA NoLines == linesOf(<<>>) = {} /\ \A last : Whole(<<>>, last)
  BY DEF linesOf, Whole, Increasing

LEMMA WholeLines ==
    ASSUME NEW file, NEW last, Whole(file, last)
    PROVE  \A l \in linesOf(file) : l \in Nat /\ 0 < l /\ l <= last
  <1>1. \A i \in DOMAIN file : file[i] \in Nat
    BY DEF Whole
  <1> QED BY <1>1 DEF Whole, linesOf

LEMMA WholeLonger ==
    ASSUME NEW last \in Nat, NEW file, Whole(file, last)
    PROVE  Whole(file, last + 1)
  BY WholeLines DEF Whole

LEMMA WholeAppend ==
    ASSUME NEW last \in Nat, NEW file, Whole(file, last)
    PROVE  Whole(Append(file, last + 1), last + 1) /\ linesOf(Append(file, last + 1)) = linesOf(file) \cup {last + 1}
  <1>1. file \in Seq(Nat) /\ Increasing(file) /\ last + 1 \in Nat
    BY DEF Whole
  <1>2. \A i \in DOMAIN file : file[i] < last + 1
    <2>1. \A i \in DOMAIN file : file[i] \in linesOf(file)
      BY DEF linesOf
    <2>2. \A l \in linesOf(file) : l \in Nat /\ l <= last
      BY WholeLines
    <2> QED BY <2>1, <2>2
  <1>3. /\ Append(file, last + 1) \in Seq(Nat) /\ Increasing(Append(file, last + 1))
        /\ linesOf(Append(file, last + 1)) = linesOf(file) \cup {last + 1}
    BY <1>1, <1>2, AppendLines
  <1> QED BY <1>3, WholeLines DEF Whole

\* A file of lines is a file, and reads as it was written.
LEMMA WholeFile ==
    ASSUME NEW last \in Nat, NEW file, Whole(file, last)
    PROVE  file # NoFile /\ scanRecords(file) = file
  <1>1. \A i \in DOMAIN file : file[i] # 0
    BY DEF Whole, linesOf
  <1>2. file \in Seq(Nat \ {0})
    BY <1>1 DEF Whole
  <1>3. file # NoFile
    BY <1>1 DEF NoFile
  <1> QED BY <1>2, <1>3, ScanWhole

LEMMA NextSegment ==
    ASSUME NEW lock \in Lock
    PROVE  /\ nextSegment(lock) \in Lock /\ nextSegment(lock).why = lock.why
           /\ lock.left = {} => nextSegment(lock).step = "open" /\ nextSegment(lock).left = {}
           /\ lock.left # {} => /\ nextSegment(lock).step = "compress"
                               /\ nextSegment(lock).seq \in lock.left
                               /\ nextSegment(lock).left = lock.left \ {nextSegment(lock).seq}
  <1>1. CASE lock.left = {}
    BY <1>1 DEF nextSegment, Lock
  <1>2. CASE lock.left # {}
    <2> DEFINE n == CHOOSE m \in lock.left : isFirst(m, lock.left)
    <2>1. n \in lock.left /\ n \in Nat
      BY <1>2, Smallest DEF Lock
    <2>2. nextSegment(lock) = [lock EXCEPT !.step = "compress", !.seq = n, !.left = lock.left \ {n}]
      BY <1>2 DEF nextSegment
    <2> HIDE DEF n
    <2> QED BY <1>2, <2>1, <2>2 DEF Lock
  <1> QED BY <1>1, <1>2

(***************************************************************************)
(* Steps of the store                                                      *)
(***************************************************************************)
LEMMA DiskInit == LogInit => DiskInv
  BY NoLines, LogStoreAssumption
  DEF LogInit, DiskInv, DiskTypeOK, Ordered, Rotating, Covered, Segs, Unlocked, Lock, activeLines, NoFile

LEMMA DiskAppend ==
    ASSUME DiskInv, NEW aged, AppendLine(aged)
    PROVE  DiskInv'
  <1> USE DEF DiskInv
  <1>0. /\ written \in Nat /\ written' = written + 1 /\ written' <= MaxLines /\ MaxLines \in Nat
        /\ Whole(active, written) /\ active' = Append(active, written + 1) /\ UNCHANGED <<raw, zst, expired>>
        /\ rotation = Unlocked /\ rotation' \in {Unlocked, [Unlocked EXCEPT !.step = "rename", !.why = "rotate"]}
    BY LogStoreAssumption DEF AppendLine, DiskTypeOK
  <1>1. /\ Whole(active', written') /\ linesOf(active') = linesOf(active) \cup {written'}
    BY <1>0, WholeAppend
  <1>2. active # NoFile /\ active' # NoFile
    <2>1. written + 1 \in Nat
      BY <1>0
    <2> QED BY <1>0, <1>1, <2>1, WholeFile
  <1>3. \A file : Whole(file, written) => Whole(file, written')
    BY <1>0, WholeLonger
  <1>4. DiskTypeOK'
    <2>1. rotation' \in Lock
      <3>1. Unlocked \in Lock /\ [Unlocked EXCEPT !.step = "rename", !.why = "rotate"] \in Lock
        BY DEF Lock, Unlocked
      <3> QED BY <1>0, <3>1
    <2> QED BY <1>0, <1>1, <1>3, <2>1 DEF DiskTypeOK
  <1>5. \A n \in Segs : Whole(segment(n), written)
    BY DEF DiskTypeOK, Segs, segment
  <1>6. Segs' = Segs /\ \A n \in Segs : segment(n)' = segment(n)
    BY <1>0 DEF Segs, segment
  <1>7. Ordered'
    <2>1. ASSUME NEW n \in Segs PROVE Precedes(segment(n), active')
      <3>1. \A l \in linesOf(segment(n)) : l \in Nat /\ l <= written
        BY <1>5, WholeLines
      <3>2. Precedes(segment(n), active)
        BY <1>2 DEF Ordered
      <3> QED BY <1>0, <1>1, <3>1, <3>2 DEF Precedes
    <2> QED BY <1>0, <1>6, <2>1 DEF Ordered
  <1>8. Rotating'
    <2>1. \A n \in Segs : n < written /\ n \in Nat
      BY DEF Rotating, Segs, DiskTypeOK
    <2>2. \A n \in Segs : n < written + 1 /\ n + 1 < written + 1
      BY <1>0, <2>1
    <2>3. written' > 0
      BY <1>0
    <2>4. CASE rotation' = Unlocked
      BY <1>0, <1>6, <2>2, <2>4 DEF Rotating, Unlocked
    <2>5. CASE rotation' = [Unlocked EXCEPT !.step = "rename", !.why = "rotate"]
      BY <1>0, <1>2, <1>6, <2>2, <2>3, <2>5 DEF Rotating, Unlocked
    <2> QED BY <1>0, <2>4, <2>5
  <1>9. Covered'
    BY <1>0, <1>1, <1>2, <1>6 DEF Covered, activeLines
  <1> QED BY <1>4, <1>7, <1>8, <1>9
\* What the other steps of the holder of the lock have in common, as a reader sees it:
\* files move, lines do not.
Moved ==
    /\ UNCHANGED <<written, reader>> /\ expired \subseteq expired'
    /\ rotation.step # "free" /\ rotation'.step # "down"
    /\ rotation'.why \in {rotation.why, "none"} \/ rotation.step = "down"
    /\ active' \in {active, NoFile, <<>>}
    /\ \A n \in Segs' : (n \in Segs /\ segment(n)' = segment(n)) \/ (active # NoFile /\ segment(n)' = active)
    /\ rotation.why # "recover" /\ rotation.step # "down" =>
          /\ \A l : readableSoon(l)' => readableSoon(l)
          /\ \A n \in DOMAIN raw' :
                \/ rotation'.step \in {"compress", "remove"} /\ n = rotation'.seq
                \/ rotation' = Unlocked /\ active' = NoFile
                \/ /\ n \in DOMAIN raw /\ raw'[n] = raw[n]
                   /\ ~(rotation.step \in {"compress", "remove"} /\ n = rotation.seq)

\* The part of the invariant that only the segments' contents matter to.
LEMMA SameSegments ==
    ASSUME DiskInv, UNCHANGED <<active, written>>, expired' = expired,
           Segs' = Segs, \A n \in Segs : segment(n)' = segment(n),
           \A n \in DOMAIN raw' \cap DOMAIN zst' : raw'[n] = zst'[n]
    PROVE  Ordered' /\ Covered'
  <1>1. Ordered'
    BY DEF DiskInv, Ordered
  <1>2. Covered'
    BY DEF DiskInv, Covered, activeLines
  <1> QED BY <1>1, <1>2

LEMMA DiskRename ==
    ASSUME DiskInv, RenameActive
    PROVE  DiskInv' /\ Moved
  <1>n. PICK new : new = nextSeq
    OBVIOUS
  <1>0. /\ rotation.step = "rename" /\ rotation.why = "rotate" /\ rotation.left = {} /\ rotation \in Lock
        /\ active # NoFile /\ Whole(active, written) /\ written \in Nat /\ written <= MaxLines /\ MaxLines \in Nat
        /\ raw' = With(raw, new, active) /\ active' = NoFile
        /\ rotation' = [rotation EXCEPT !.step = "compress", !.seq = new]
        /\ UNCHANGED <<zst, expired, written, reader>>
    BY <1>n, LogStoreAssumption DEF RenameActive, DiskInv, DiskTypeOK, Rotating
  <1>1. new \in 0..(written - 1) /\ \A n \in Segs : n < new
    <2>1. Segs \in SUBSET Nat /\ \A n \in Segs : n + 1 < written
      BY <1>0 DEF DiskInv, DiskTypeOK, Rotating, Segs
    <2>2. written > 0
      BY <1>0 DEF DiskInv, Rotating
    <2>3. written - 1 \in 0..MaxLines /\ \A n \in Segs : n < written - 1
      BY <1>0, <2>1, <2>2
    <2> QED BY <1>n, <1>0, <2>1, <2>3, AboveAll DEF nextSeq, Segs
  <1>2. new \in Nat /\ new < written /\ new \notin Segs
    BY <1>0, <1>1
  <1>3. /\ DOMAIN raw' = DOMAIN raw \cup {new} /\ raw'[new] = active
        /\ \A n \in DOMAIN raw : raw'[n] = raw[n]
    BY <1>0, <1>2 DEF With, Segs
  <1>4. /\ Segs' = Segs \cup {new} /\ segment(new)' = active
        /\ \A n \in Segs : segment(n)' = segment(n)
    <2>1. Segs' = Segs \cup {new}
      BY <1>0, <1>3 DEF Segs
    <2>2. segment(new)' = active
      BY <1>3 DEF segment
    <2>3. ASSUME NEW n \in Segs PROVE segment(n)' = segment(n)
      BY <1>0, <1>2, <1>3 DEF Segs, segment
    <2> QED BY <2>1, <2>2, <2>3
  <1>5. /\ rotation' \in Lock /\ rotation'.step = "compress" /\ rotation'.seq = new
        /\ rotation'.why = "rotate" /\ rotation'.left = {}
    BY <1>0, <1>2 DEF Lock
  <1>6. DiskTypeOK'
    BY <1>0, <1>2, <1>3, <1>5 DEF DiskInv, DiskTypeOK
  <1>7. Ordered'
    <2>1. ASSUME NEW m \in Segs', NEW n \in Segs', m < n PROVE Precedes(segment(m)', segment(n)')
      <3>1. m \in Segs
        <4>1. ASSUME m = new PROVE FALSE
          <5>1. n \in Segs /\ n \in Nat
            BY <1>2, <1>4, <2>1, <4>1 DEF DiskInv, DiskTypeOK, Segs
          <5> QED BY <1>1, <1>2, <2>1, <4>1, <5>1
        <4> QED BY <1>4, <4>1
      <3>2. CASE n = new
        <4>1. Precedes(segment(m), active)
          BY <1>0, <3>1 DEF DiskInv, Ordered
        <4> QED BY <1>4, <3>1, <3>2, <4>1
      <3>3. CASE n \in Segs
        BY <1>4, <2>1, <3>1, <3>3 DEF DiskInv, Ordered
      <3> QED BY <1>4, <3>2, <3>3
    <2>2. \A n \in DOMAIN raw' \cap DOMAIN zst' : raw'[n] = zst'[n]
      BY <1>0, <1>2, <1>3 DEF DiskInv, Ordered, Segs
    <2> QED BY <1>0, <2>1, <2>2 DEF Ordered
  <1>8. Rotating'
    BY <1>0, <1>2, <1>3, <1>4, <1>5 DEF DiskInv, Rotating
  <1>9. Covered'
    <2> SUFFICES ASSUME NEW l \in 1..written, l \notin expired PROVE \E n \in Segs' : l \in linesOf(segment(n)')
      BY <1>0 DEF Covered
    <2>1. l \in linesOf(active) \/ \E n \in Segs : l \in linesOf(segment(n))
      BY DEF DiskInv, Covered, activeLines
    <2> QED BY <1>4, <2>1
  <1>10. Moved
    <2>1. ASSUME NEW l, readableSoon(l)' PROVE readableSoon(l)
      BY <1>0, <1>3, <1>5, <2>1 DEF readableSoon, activeLines
    <2>2. ASSUME NEW n \in Segs'
          PROVE  (n \in Segs /\ segment(n)' = segment(n)) \/ (active # NoFile /\ segment(n)' = active)
      BY <1>0, <1>4
    <2>3. ASSUME NEW n \in DOMAIN raw'
          PROVE  n = rotation'.seq \/ (n \in DOMAIN raw /\ raw'[n] = raw[n])
      BY <1>3, <1>5
    <2> QED BY <1>0, <1>5, <2>1, <2>2, <2>3 DEF Moved
  <1> QED BY <1>6, <1>7, <1>8, <1>9, <1>10 DEF DiskInv

LEMMA DiskCompress ==
    ASSUME DiskInv, compressSegment
    PROVE  DiskInv' /\ Moved
  <1> DEFINE n0 == rotation.seq
  <1>0. /\ rotation.step = "compress" /\ n0 \in DOMAIN raw /\ n0 \in Nat /\ Whole(raw[n0], written)
        /\ rotation \in Lock /\ rotation' = [rotation EXCEPT !.step = "remove"] /\ written \in Nat
        /\ UNCHANGED <<raw, active, expired, written, reader>>
    BY DEF compressSegment, DiskInv, DiskTypeOK, Rotating
  <1>1. zst' = With(zst, n0, raw[n0])
    BY <1>0, WholeFile DEF compressSegment
  <1>2. DOMAIN zst' = DOMAIN zst \cup {n0} /\ zst'[n0] = raw[n0] /\ \A n \in DOMAIN zst \ {n0} : zst'[n] = zst[n]
    BY <1>1 DEF With
  <1>3. Segs' = Segs /\ \A n \in Segs : segment(n)' = segment(n)
    BY <1>0, <1>2 DEF Segs, segment
  <1>4. /\ rotation' \in Lock /\ rotation'.step = "remove" /\ rotation'.seq = n0
        /\ rotation'.why = rotation.why /\ rotation'.left = rotation.left
    BY <1>0 DEF Lock
  <1>5. DiskTypeOK'
    BY <1>0, <1>2, <1>4 DEF DiskInv, DiskTypeOK
  <1>6. Ordered' /\ Covered'
    <2>1. \A n \in DOMAIN raw' \cap DOMAIN zst' : raw'[n] = zst'[n]
      BY <1>0, <1>2 DEF DiskInv, Ordered
    <2> QED BY <1>0, <1>3, <2>1, SameSegments
  <1>7. Rotating'
    BY <1>0, <1>2, <1>3, <1>4 DEF DiskInv, Rotating
  <1>8. Moved
    <2>1. ASSUME NEW l, readableSoon(l)' PROVE readableSoon(l)
      BY <1>0, <1>2, <1>4, <2>1 DEF readableSoon, activeLines
    <2> QED BY <1>0, <1>3, <1>4, <2>1 DEF Moved
  <1> QED BY <1>5, <1>6, <1>7, <1>8 DEF DiskInv

\* The holder of the lock turns to the next segment, or to the active file.
LEMMA Turned ==
    ASSUME NEW lock \in Lock, rotation' = nextSegment(lock), lock.why \in {"rotate", "recover"},
           lock.left \subseteq DOMAIN raw', lock.why = "rotate" => lock.left = {},
           \A n \in Segs' : n < written'
    PROVE  /\ rotation' \in Lock /\ Rotating' /\ rotation'.step \in {"open", "compress"}
           /\ rotation'.why = lock.why /\ (lock.why = "rotate" => rotation'.step = "open")
  <1>1. CASE lock.left = {}
    <2>1. /\ rotation' \in Lock /\ rotation'.why = lock.why /\ rotation'.step = "open" /\ rotation'.left = {}
      BY <1>1, NextSegment
    <2> QED BY <2>1 DEF Rotating
  <1>2. CASE lock.left # {}
    <2>1. /\ rotation' \in Lock /\ rotation'.why = lock.why /\ rotation'.step = "compress"
          /\ rotation'.seq \in lock.left /\ rotation'.left = lock.left \ {rotation'.seq}
      BY <1>2, NextSegment
    <2> QED BY <1>2, <2>1 DEF Rotating
  <1> QED BY <1>1, <1>2

LEMMA Released ==
    ASSUME rotation' = Unlocked, \A n \in Segs' : n < written'
    PROVE  rotation' \in Lock /\ Rotating'
  BY DEF Rotating, Unlocked, Lock

LEMMA DiskFails ==
    ASSUME DiskInv, CompressFails
    PROVE  DiskInv' /\ Moved
  <1>0. /\ rotation.step = "compress" /\ rotation \in Lock /\ UNCHANGED <<active, raw, zst, expired, written, reader>>
        /\ rotation' = IF rotation.why = "rotate" THEN Unlocked ELSE nextSegment(rotation)
        /\ rotation.why \in {"rotate", "recover"} /\ rotation.left \subseteq DOMAIN raw
        /\ rotation.why = "rotate" => active = NoFile
    BY DEF CompressFails, disk, DiskInv, DiskTypeOK, Rotating, Lock
  <1>1. Segs' = Segs /\ \A n \in Segs : segment(n)' = segment(n)
    BY <1>0 DEF Segs, segment
  <1>2. \A n \in Segs' : n < written'
    BY <1>0, <1>1 DEF DiskInv, Rotating
  <1>3. Ordered' /\ Covered'
    BY <1>0, <1>1, SameSegments DEF DiskInv, Ordered
  <1>4. CASE rotation.why = "rotate"
    <2>1. rotation' = Unlocked /\ rotation' \in Lock /\ Rotating'
      BY <1>0, <1>2, <1>4, Released
    <2>2. DiskInv'
      BY <1>0, <1>3, <2>1 DEF DiskInv, DiskTypeOK
    <2>3. Moved
      BY <1>0, <1>1, <2>1 DEF Moved, readableSoon, activeLines, Unlocked
    <2> QED BY <2>2, <2>3
  <1>5. CASE rotation.why # "rotate"
    <2>1. rotation' = nextSegment(rotation) /\ rotation.why = "recover"
      BY <1>0, <1>5
    <2>2. rotation' \in Lock /\ Rotating' /\ rotation'.step \in {"open", "compress"} /\ rotation'.why = rotation.why
      BY <1>0, <1>2, <2>1, Turned
    <2>3. DiskInv'
      BY <1>0, <1>3, <2>2 DEF DiskInv, DiskTypeOK
    <2>4. Moved
      BY <1>0, <1>1, <2>1, <2>2 DEF Moved
    <2> QED BY <2>3, <2>4
  <1> QED BY <1>4, <1>5

LEMMA DiskRemove ==
    ASSUME DiskInv, RemoveRaw
    PROVE  DiskInv' /\ Moved
  <1> DEFINE n0 == rotation.seq
  <1>0. /\ rotation.step = "remove" /\ rotation \in Lock /\ UNCHANGED <<active, zst, expired, written, reader>>
        /\ rotation' = nextSegment(rotation) /\ raw' = Without(raw, n0)
        /\ rotation.why \in {"rotate", "recover"} /\ rotation.left \subseteq DOMAIN raw \ {n0}
        /\ n0 \in DOMAIN raw \cap DOMAIN zst /\ raw[n0] = zst[n0]
        /\ rotation.why = "rotate" => rotation.left = {}
    BY DEF RemoveRaw, DiskInv, DiskTypeOK, Ordered, Rotating, Lock
  <1>1. DOMAIN raw' = DOMAIN raw \ {n0} /\ \A n \in DOMAIN raw \ {n0} : raw'[n] = raw[n]
    BY <1>0 DEF Without
  <1>2. Segs' = Segs /\ \A n \in Segs : segment(n)' = segment(n)
    BY <1>0, <1>1 DEF Segs, segment
  <1>3. \A n \in Segs' : n < written'
    BY <1>0, <1>2 DEF DiskInv, Rotating
  <1>4. Ordered' /\ Covered'
    <2>1. \A n \in DOMAIN raw' \cap DOMAIN zst' : raw'[n] = zst'[n]
      BY <1>0, <1>1 DEF DiskInv, Ordered
    <2> QED BY <1>0, <1>2, <2>1, SameSegments
  <1>5. /\ rotation' \in Lock /\ Rotating' /\ rotation'.step \in {"open", "compress"}
        /\ rotation'.why = rotation.why /\ (rotation.why = "rotate" => rotation'.step = "open")
    BY <1>0, <1>1, <1>3, Turned
  <1>6. DiskTypeOK'
    BY <1>0, <1>1, <1>5 DEF DiskInv, DiskTypeOK
  <1>7. Moved
    <2>1. ASSUME rotation.why # "recover", NEW l, readableSoon(l)' PROVE readableSoon(l)
      BY <1>0, <1>5, <2>1 DEF readableSoon, activeLines
    <2> QED BY <1>0, <1>1, <1>2, <1>5, <2>1 DEF Moved
  <1> QED BY <1>4, <1>5, <1>6, <1>7 DEF DiskInv

LEMMA DiskOpen ==
    ASSUME DiskInv, OpenActive
    PROVE  DiskInv' /\ Moved
  <1>0. /\ rotation.step = "open" /\ rotation \in Lock /\ UNCHANGED <<raw, zst, expired, written, reader>>
        /\ active' = IF active = NoFile THEN <<>> ELSE active
        /\ rotation' = IF rotation.why = "rotate" THEN [rotation EXCEPT !.step = "retain"] ELSE Unlocked
        /\ rotation.left \subseteq DOMAIN raw /\ (rotation.why = "rotate" => rotation.left = {})
    BY DEF OpenActive, DiskInv, DiskTypeOK, Rotating
  <1>1. Segs' = Segs /\ \A n \in Segs : segment(n)' = segment(n)
    BY <1>0 DEF Segs, segment
  <1>2. \A n \in Segs' : n < written'
    BY <1>0, <1>1 DEF DiskInv, Rotating
  <1>3. rotation' \in Lock /\ Rotating' /\ rotation'.step \in {"retain", "free"} /\ rotation'.why \in {rotation.why, "none"}
    <2>1. CASE rotation.why = "rotate"
      <3>1. /\ rotation' \in Lock /\ rotation'.step = "retain" /\ rotation'.why = "rotate" /\ rotation'.left = {}
        BY <1>0, <2>1 DEF Lock
      <3> QED BY <1>0, <1>2, <2>1, <3>1 DEF Rotating
    <2>2. CASE rotation.why # "rotate"
      BY <1>0, <1>2, <2>2, Released DEF Unlocked
    <2> QED BY <2>1, <2>2
  <1>4. activeLines' = activeLines /\ (active' # NoFile => linesOf(active') = activeLines)
    BY <1>0, NoLines DEF activeLines, NoFile
  <1>5. DiskTypeOK'
    BY <1>0, <1>3, NoLines DEF DiskInv, DiskTypeOK
  <1>6. Ordered'
    <2>1. ASSUME NEW n \in Segs, active' # NoFile PROVE Precedes(segment(n), active')
      BY <1>0, <1>4, <2>1 DEF DiskInv, Ordered, Precedes, activeLines
    <2> QED BY <1>0, <1>1, <2>1 DEF DiskInv, Ordered
  <1>7. Covered'
    BY <1>0, <1>1, <1>4 DEF DiskInv, Covered
  <1>8. Moved
    <2>1. ASSUME NEW l, readableSoon(l)' PROVE readableSoon(l)
      BY <1>0, <1>3, <1>4, <2>1 DEF readableSoon
    <2> QED BY <1>0, <1>1, <1>3, <2>1 DEF Moved
  <1> QED BY <1>3, <1>5, <1>6, <1>7, <1>8 DEF DiskInv

LEMMA DiskRetain ==
    ASSUME DiskInv, enforceRetention
    PROVE  DiskInv' /\ Moved
  <1>0. /\ rotation.step = "retain" /\ rotation \in Lock /\ UNCHANGED <<active, raw, written, reader>>
    BY DEF enforceRetention, DiskInv, DiskTypeOK
  <1>1. CASE rotation' = Unlocked /\ UNCHANGED <<zst, expired>>
    <2>1. Segs' = Segs /\ \A n \in Segs : segment(n)' = segment(n)
      BY <1>0, <1>1 DEF Segs, segment
    <2>2. rotation' \in Lock /\ Rotating'
      BY <1>0, <1>1, <2>1, Released DEF DiskInv, Rotating
    <2>3. Ordered' /\ Covered'
      BY <1>0, <1>1, <2>1, SameSegments DEF DiskInv, Ordered
    <2>4. DiskTypeOK'
      BY <1>0, <1>1, <2>2 DEF DiskInv, DiskTypeOK
    <2>5. Moved
      BY <1>0, <1>1, <2>1 DEF Moved, readableSoon, activeLines, Unlocked
    <2> QED BY <2>2, <2>3, <2>4, <2>5 DEF DiskInv
  <1>2. ASSUME NEW n0 \in DOMAIN zst, zst' = Without(zst, n0), expired' = expired \cup linesOf(zst[n0]),
               UNCHANGED rotation
        PROVE  DiskInv' /\ Moved
    <2>1. DOMAIN zst' = DOMAIN zst \ {n0} /\ \A n \in DOMAIN zst \ {n0} : zst'[n] = zst[n]
      BY <1>2 DEF Without
    <2>2. Segs' \subseteq Segs /\ \A n \in Segs' : segment(n)' = segment(n)
      BY <1>0, <2>1 DEF Segs, segment
    <2>3. DiskTypeOK'
      BY <1>0, <1>2, <2>1 DEF DiskInv, DiskTypeOK
    <2>4. Ordered'
      <3>1. \A n \in DOMAIN raw' \cap DOMAIN zst' : raw'[n] = zst'[n]
        BY <1>0, <2>1 DEF DiskInv, Ordered
      <3> QED BY <1>0, <2>2, <3>1 DEF DiskInv, Ordered
    <2>5. Rotating'
      BY <1>0, <1>2, <2>2 DEF DiskInv, Rotating
    <2>6. Covered'
      <3> SUFFICES ASSUME NEW l \in 1..written, l \notin expired', l \notin activeLines
                   PROVE  \E n \in Segs' : l \in linesOf(segment(n)')
        BY <1>0 DEF Covered, activeLines
      <3>1. PICK n \in Segs : l \in linesOf(segment(n))
        BY <1>2 DEF DiskInv, Covered
      <3>2. n \in Segs'
        BY <1>0, <1>2, <2>1, <3>1 DEF Segs, segment
      <3> QED BY <2>2, <3>1, <3>2
    <2>7. Moved
      <3>1. ASSUME NEW l, readableSoon(l)' PROVE readableSoon(l)
        BY <1>0, <1>2, <2>1, <3>1 DEF readableSoon, activeLines
      <3> QED BY <1>0, <1>2, <2>2, <3>1 DEF Moved
    <2> QED BY <2>3, <2>4, <2>5, <2>6, <2>7 DEF DiskInv
  <1> QED BY <1>1, <1>2 DEF enforceRetention

LEMMA DiskRecover ==
    ASSUME DiskInv, OpenStream
    PROVE  DiskInv' /\ Moved
  <1> DEFINE lock == [Unlocked EXCEPT !.why = "recover", !.left = DOMAIN raw]
  <1>0. /\ rotation.step = "down" /\ rotation' = nextSegment(lock) /\ UNCHANGED <<active, raw, zst, expired, written, reader>>
    BY DEF OpenStream, disk
  <1>1. Segs' = Segs /\ \A n \in Segs : segment(n)' = segment(n)
    BY <1>0 DEF Segs, segment
  <1>2. lock \in Lock /\ lock.why = "recover" /\ lock.left = DOMAIN raw
    BY DEF DiskInv, DiskTypeOK, Lock, Unlocked
  <1>3. \A n \in Segs' : n < written'
    BY <1>0, <1>1 DEF DiskInv, Rotating
  <1> HIDE DEF lock
  <1>4. rotation' \in Lock /\ Rotating' /\ rotation'.step \in {"open", "compress"}
    BY <1>0, <1>2, <1>3, Turned
  <1>5. Ordered' /\ Covered'
    BY <1>0, <1>1, SameSegments DEF DiskInv, Ordered
  <1>6. DiskTypeOK'
    BY <1>0, <1>4 DEF DiskInv, DiskTypeOK
  <1>7. Moved
    BY <1>0, <1>1, <1>4 DEF Moved
  <1> QED BY <1>4, <1>5, <1>6, <1>7 DEF DiskInv

\* A crash that tears no record leaves the files as they are.
LEMMA DiskKilled ==
    ASSUME DiskInv, Killed, "torn" \notin LogFaults
    PROVE  DiskInv'
  <1>0. UNCHANGED <<active, raw, zst, expired, written>> /\ rotation' = [Unlocked EXCEPT !.step = "down"]
    BY DEF Killed
  <1>1. Segs' = Segs /\ \A n \in Segs : segment(n)' = segment(n)
    BY <1>0 DEF Segs, segment
  <1>2. rotation' \in Lock /\ Rotating'
    BY <1>0, <1>1 DEF DiskInv, Rotating, Lock, Unlocked
  <1>3. Ordered' /\ Covered'
    BY <1>0, <1>1, SameSegments DEF DiskInv, Ordered
  <1> QED BY <1>0, <1>2, <1>3 DEF DiskInv, DiskTypeOK
LEMMA DiskKeeps == DiskInv => LogKept
  <1> SUFFICES ASSUME DiskInv PROVE LogKept
    OBVIOUS
  <1>1. written \in Nat /\ \A n \in Segs : Whole(segment(n), written) /\ n \in Nat
    BY DEF DiskInv, DiskTypeOK, Segs, segment
  <1>2. \A n \in Segs : scanRecords(segment(n)) = segment(n)
    BY <1>1, WholeFile
  <1>3. active # NoFile => scanRecords(active) = active
    BY <1>1, WholeFile DEF DiskInv, DiskTypeOK
  <1>4. 1..written \subseteq stored \cup expired
    <2> SUFFICES ASSUME NEW l \in 1..written, l \notin expired PROVE l \in stored
      OBVIOUS
    <2>1. CASE l \in activeLines
      BY <1>3, <2>1 DEF activeLines, stored
    <2>2. ASSUME NEW n \in Segs, l \in linesOf(segment(n)) PROVE l \in stored
      BY <1>2, <2>2 DEF stored, Segs
    <2> QED BY <2>1, <2>2 DEF DiskInv, Covered
  <1>5. ASSUME NEW m \in Segs, NEW n \in Segs, m # n
        PROVE  linesOf(segment(m)) \cap linesOf(segment(n)) = {}
    <2>1. Precedes(segment(m), segment(n)) \/ Precedes(segment(n), segment(m))
      BY <1>1, <1>5 DEF DiskInv, Ordered
    <2>2. \A l \in linesOf(segment(m)) : l \in Nat
      BY <1>1, WholeLines
    <2> QED BY <2>1, <2>2 DEF Precedes
  <1> QED BY <1>4, <1>5 DEF LogKept, Segs

(***************************************************************************)
(* Steps of the store as a reader sees them                                *)
(***************************************************************************)
\* Files move and lines do not: a reader that was not disturbed before is not now.
LEMMA MovedReader ==
    ASSUME DiskInv, ReaderInv, Moved
    PROVE  ReaderInv'
  <1> USE DEF ReaderInv
  <1>1. UNCHANGED <<written, reader>> /\ rotation.step # "free"
    BY DEF Moved
  <1>2. ReaderTypeOK' /\ FirstRound'
    BY <1>1 DEF ReaderTypeOK, QueryState, FirstRound
  <1>3. ReaderUp'
    BY <1>1 DEF Moved, ReaderUp
  <1>4. HistoryInv'
    <2> SUFFICES ASSUME Reading PROVE HistoryInv'
      BY <1>1 DEF HistoryInv, Reading
    <2>1. ASSUME NEW n \in reader.segs, n \in Segs' PROVE Precedes(reader.hist, segment(n)')
      BY <2>1 DEF Moved, HistoryInv
    <2>2. active' # NoFile => Precedes(reader.hist, active')
      <3>1. Precedes(reader.hist, <<>>)
        BY NoLines DEF Precedes
      <3> QED BY <3>1 DEF Moved, HistoryInv
    <2> QED BY <1>1, <2>1, <2>2 DEF HistoryInv, Reading
  <1>5. CleanInv'
    <2>1. ~(Reading /\ reader.clean)
      BY <1>1 DEF CleanInv, Unlocked
    <2> QED BY <1>1, <2>1 DEF CleanInv, Reading
  <1>6. Answered'
    <2> SUFFICES ASSUME reader.round = 1, reader.step \in {"since", "done"}, reader.clean,
                        NEW l \in Nat, readableSoon(l)', l <= reader.seen
                 PROVE  l \in linesOf(reader.out)
      BY <1>1 DEF Answered
    <2>1. readableSoon(l)
      BY DEF Moved, ReaderUp
    <2> QED BY <2>1 DEF Answered
  <1>7. FollowInv'
    <2> SUFFICES ASSUME reader.round = 2, reader.step # "done" PROVE FollowInv'
      BY <1>1 DEF FollowInv
    <2>1. reader.step # "idle"
      BY DEF FollowInv
    <2>2. rotation # Unlocked
      BY <1>1 DEF Unlocked
    <2>3. ASSUME NEW n \in DOMAIN raw'
          PROVE  \/ rotation'.step \in {"compress", "remove"} /\ n = rotation'.seq
                 \/ rotation' = Unlocked /\ active' = NoFile
                 \/ \A l \in linesOf(raw'[n]) : l <= reader.since
      BY <2>1, <2>2 DEF Moved, ReaderUp, FollowInv
    <2> QED BY <1>1, <2>3 DEF FollowInv, Reading
  <1>8. ReadAgain'
    BY <1>1 DEF ReadAgain, Moved
  <1>9. Sent'
    BY <1>1 DEF Sent
  <1> QED BY <1>2, <1>3, <1>4, <1>5, <1>6, <1>7, <1>8, <1>9

\* What an append does to a reader: the line is sent to one that has subscribed, and
\* a rotation that begins while one reads is remembered.
LEMMA Notified ==
    ASSUME ReaderTypeOK, written \in Nat, subscriberBuffer \in Nat, NEW aged, AppendLine(aged)
    PROVE  /\ reader' \in [step : {reader.step}, round : {reader.round}, follow : {reader.follow},
                            since : {reader.since}, size : {reader.size}, segs : {reader.segs},
                            hist : {reader.hist}, out : {reader.out}, seen : {reader.seen}, clean : BOOLEAN,
                            subscribed : {reader.subscribed}, joined : {reader.joined}, lagged : BOOLEAN, chan : Seq(Nat)]
           /\ reader'.clean => reader.clean /\ (Reading => rotation' = Unlocked)
           /\ reader.subscribed /\ ~reader'.lagged =>
                 ~reader.lagged /\ linesOf(reader'.chan) = linesOf(reader.chan) \cup {written + 1}
  <1> DEFINE sent == notify(reader, written + 1)
             full == aged \/ Len(active') >= MaxSegment
  <1>1. /\ written' = written + 1
        /\ reader' = [sent EXCEPT !.clean = sent.clean /\ ~(full /\ reader.step \in {"list", "read"})]
        /\ ~full => rotation' = Unlocked
    BY DEF AppendLine
  <1> HIDE DEF full
  <1>2. /\ sent \in [step : {reader.step}, round : {reader.round}, follow : {reader.follow},
                      since : {reader.since}, size : {reader.size}, segs : {reader.segs},
                      hist : {reader.hist}, out : {reader.out}, seen : {reader.seen}, clean : {reader.clean},
                      subscribed : {reader.subscribed}, joined : {reader.joined}, lagged : BOOLEAN, chan : Seq(Nat)]
        /\ reader.subscribed /\ ~sent.lagged =>
              ~reader.lagged /\ linesOf(sent.chan) = linesOf(reader.chan) \cup {written + 1}
    <2>1. CASE ~reader.subscribed \/ reader.lagged
      BY <2>1 DEF notify, ReaderTypeOK, QueryState
    <2>2. CASE reader.subscribed /\ ~reader.lagged /\ Len(reader.chan) < subscriberBuffer
      <3>1. sent = [reader EXCEPT !.chan = Append(reader.chan, written + 1)]
        BY <2>2 DEF notify
      <3>2. reader.chan \in Seq(Nat) /\ written + 1 \in Nat
        BY DEF ReaderTypeOK, QueryState
      <3>3. /\ Append(reader.chan, written + 1) \in Seq(Nat)
            /\ linesOf(Append(reader.chan, written + 1)) = linesOf(reader.chan) \cup {written + 1}
        BY <3>2, AppendLines
      <3> QED BY <2>2, <3>1, <3>3 DEF ReaderTypeOK, QueryState
    <2>3. CASE reader.subscribed /\ ~reader.lagged /\ ~(Len(reader.chan) < subscriberBuffer)
      <3>1. sent = [reader EXCEPT !.lagged = TRUE]
        BY <2>3 DEF notify
      <3> QED BY <3>1 DEF ReaderTypeOK, QueryState
    <2> QED BY <2>1, <2>2, <2>3 DEF ReaderTypeOK, QueryState
  <1> HIDE DEF sent
  <1>3. reader.clean \in BOOLEAN
    BY DEF ReaderTypeOK, QueryState
  <1> QED BY <1>1, <1>2, <1>3 DEF Reading
LEMMA AppendReader ==
    ASSUME DiskInv, ReaderInv, NEW aged, AppendLine(aged)
    PROVE  ReaderInv'
  <1> USE DEF ReaderInv
  <1>0. /\ written \in Nat /\ written' = written + 1 /\ subscriberBuffer \in Nat
        /\ rotation = Unlocked /\ active # NoFile /\ Whole(active, written)
        /\ active' = Append(active, written + 1) /\ UNCHANGED <<raw, zst, expired>>
    BY LogStoreAssumption DEF AppendLine, DiskInv, DiskTypeOK
  <1>1. /\ reader' \in [step : {reader.step}, round : {reader.round}, follow : {reader.follow},
                         since : {reader.since}, size : {reader.size}, segs : {reader.segs},
                         hist : {reader.hist}, out : {reader.out}, seen : {reader.seen}, clean : BOOLEAN,
                         subscribed : {reader.subscribed}, joined : {reader.joined}, lagged : BOOLEAN, chan : Seq(Nat)]
        /\ reader'.clean => reader.clean /\ (Reading => rotation' = Unlocked)
        /\ reader.subscribed /\ ~reader'.lagged =>
              ~reader.lagged /\ linesOf(reader'.chan) = linesOf(reader.chan) \cup {written + 1}
    BY <1>0, Notified
  <1>2. /\ reader'.step = reader.step /\ reader'.round = reader.round /\ reader'.since = reader.since
        /\ reader'.size = reader.size /\ reader'.segs = reader.segs /\ reader'.hist = reader.hist
        /\ reader'.out = reader.out /\ reader'.seen = reader.seen /\ reader'.subscribed = reader.subscribed
        /\ reader'.joined = reader.joined /\ reader.joined \in Nat
        /\ reader.seen \in Nat /\ reader.since \in Nat /\ reader.seen <= written
    BY <1>1 DEF ReaderTypeOK, QueryState
  <1>3. ReaderTypeOK'
    <2>1. reader.seen <= written'
      BY <1>0, <1>2
    <2> QED BY <1>1, <1>2, <2>1 DEF ReaderTypeOK, QueryState
  <1>4. linesOf(active') = linesOf(active) \cup {written + 1} /\ active' # NoFile
    <2>1. Whole(active', written + 1) /\ linesOf(active') = linesOf(active) \cup {written + 1} /\ written + 1 \in Nat
      BY <1>0, WholeAppend
    <2> QED BY <2>1, WholeFile
  <1>5. Segs' = Segs /\ \A n \in Segs : segment(n)' = segment(n)
    BY <1>0 DEF Segs, segment
  <1>6. ReaderUp'
    BY <1>0, <1>2 DEF AppendLine, ReaderUp, Unlocked
  <1>7. HistoryInv'
    <2> SUFFICES ASSUME Reading PROVE HistoryInv'
      BY <1>2 DEF HistoryInv, Reading
    <2>1. Whole(reader.hist, written)
      BY DEF HistoryInv
    <2>2. Whole(reader.hist, written + 1)
      BY <1>0, <2>1, WholeLonger
    <2>3. Precedes(reader.hist, active')
      <3>1. \A l \in linesOf(reader.hist) : l \in Nat /\ l <= written
        BY <2>1, WholeLines
      <3> QED BY <1>0, <1>4, <3>1 DEF HistoryInv, Precedes
    <2> QED BY <1>0, <1>2, <1>5, <2>2, <2>3 DEF HistoryInv
  <1>8. CleanInv'
    <2> SUFFICES ASSUME Reading, reader'.clean PROVE CleanInv'
      BY <1>2 DEF CleanInv, Reading
    <2>1. rotation' = Unlocked /\ reader.clean
      BY <1>1
    <2>2. Len(active') = Len(active) + 1 /\ active \in Seq(Nat) /\ reader.size <= Len(active) /\ reader.size \in Nat
      BY <1>0, <2>1 DEF CleanInv, Whole, ReaderTypeOK, QueryState
    <2>3. ASSUME NEW i \in DOMAIN active', active'[i] <= reader.seen PROVE i <= reader.size
      <3>1. i # Len(active) + 1
        BY <1>0, <1>2, <2>2, <2>3
      <3>2. i \in DOMAIN active /\ active'[i] = active[i]
        BY <1>0, <2>2, <3>1
      <3> QED BY <2>1, <2>3, <3>2 DEF CleanInv
    <2>4. reader.size <= Len(active')
      BY <2>2
    <2> QED BY <1>0, <1>2, <1>4, <2>1, <2>3, <2>4 DEF CleanInv
  <1>9. FirstRound'
    BY <1>2 DEF FirstRound
  <1>10. Answered'
    <2> SUFFICES ASSUME reader.round = 1, reader.step \in {"since", "done"}, reader'.clean,
                        NEW l \in Nat, readableSoon(l)', l <= reader.seen
                 PROVE  l \in linesOf(reader.out)
      BY <1>2 DEF Answered
    <2>1. l # written + 1 /\ reader.clean
      BY <1>0, <1>1, <1>2
    <2>2. rotation'.step \notin {"compress", "remove"}
      BY DEF AppendLine, Unlocked
    <2>3. readableSoon(l)
      BY <1>0, <1>4, <2>1, <2>2 DEF readableSoon, activeLines
    <2> QED BY <2>1, <2>3 DEF Answered
  <1>11. FollowInv'
    <2> SUFFICES ASSUME reader.round = 2, reader.step # "done" PROVE FollowInv'
      BY <1>2 DEF FollowInv
    <2>1. ASSUME NEW n \in DOMAIN raw PROVE \A l \in linesOf(raw[n]) : l <= reader.since
      BY <1>0 DEF FollowInv, Unlocked
    <2>2. ASSUME Reading, ~reader'.lagged, NEW l \in 1..(written + 1), l > reader.seen
          PROVE  l \in linesOf(reader'.chan)
      <3>1. reader.subscribed
        BY <2>2 DEF Reading, FollowInv
      <3>2. ~reader.lagged /\ linesOf(reader'.chan) = linesOf(reader.chan) \cup {written + 1}
        BY <1>1, <2>2, <3>1
      <3>3. l # written + 1 => l \in 1..written
        BY <1>0
      <3> QED BY <2>2, <3>2, <3>3 DEF FollowInv
    <2> QED BY <1>0, <1>2, <2>1, <2>2 DEF FollowInv, Reading
  <1>12. ReadAgain'
    <2> SUFFICES ASSUME reader.step = "live", reader'.clean, ~reader'.lagged,
                        NEW l \in (reader.since + 1)..(written + 1), l \notin expired
                 PROVE  l \in linesOf(reader.out) \/ l \in linesOf(reader'.chan)
      BY <1>0, <1>2 DEF ReadAgain
    <2>1. reader.subscribed
      BY DEF FirstRound, FollowInv, ReaderTypeOK, QueryState
    <2>2. reader.clean /\ ~reader.lagged /\ linesOf(reader'.chan) = linesOf(reader.chan) \cup {written + 1}
      BY <1>1, <2>1
    <2>3. l # written + 1 => l \in (reader.since + 1)..written
      BY <1>0, <1>2
    <2> QED BY <2>2, <2>3 DEF ReadAgain
  <1>13. Sent'
    <2> SUFFICES ASSUME reader.subscribed, ~reader'.lagged, reader.step # "done",
                        NEW l \in 1..(written + 1), l > reader.joined
                 PROVE  l \in linesOf(reader.out) \/ l \in linesOf(reader'.chan)
      BY <1>0, <1>2 DEF Sent
    <2>1. ~reader.lagged /\ linesOf(reader'.chan) = linesOf(reader.chan) \cup {written + 1}
      BY <1>1
    <2>2. l # written + 1 => l \in 1..written
      BY <1>0
    <2> QED BY <2>1, <2>2 DEF Sent
  <1> QED BY <1>3, <1>6, <1>7, <1>8, <1>9, <1>10, <1>11, <1>12, <1>13

LEMMA KilledReader == Killed /\ written' \in Nat => ReaderInv'
  BY NoLines
  DEF Killed, NoReader, ReaderInv, ReaderTypeOK, QueryState, ReaderUp, HistoryInv, CleanInv, FirstRound, Answered,
      FollowInv, Sent, ReadAgain, Reading
(***************************************************************************)
(* Steps of the reader                                                     *)
(***************************************************************************)
\* What is read of the active file: some of its lines, in order, and all up to the
\* length of the snapshot if the file is still the same.
LEMMA TailLines ==
    ASSUME written \in Nat, reader.since \in Nat, NEW size \in Nat, active = NoFile \/ Whole(active, written)
    PROVE  /\ tail(size) \in Seq(Nat) /\ Increasing(tail(size)) /\ linesOf(tail(size)) \subseteq activeLines
           /\ active # NoFile =>
                 \A i \in DOMAIN active : i <= size /\ active[i] > reader.since => active[i] \in linesOf(tail(size))
  <1>1. CASE active = NoFile
    BY <1>1, NoLines DEF tail, Increasing
  <1>2. CASE active # NoFile
    <2> DEFINE n == IF size < Len(active) THEN size ELSE Len(active)
               part == SubSeq(active, 1, n)
    <2>1. active \in Seq(Nat) /\ Increasing(active) /\ Whole(active, written)
      BY <1>2 DEF Whole
    <2>2. n \in 0..Len(active)
      BY <2>1
    <2>3. n \in Nat /\ \A i \in DOMAIN active : i <= size => i <= n
      BY <2>1
    <2> HIDE DEF n
    <2>4. part \in Seq(Nat) /\ DOMAIN part = 1..n /\ \A i \in 1..n : i \in DOMAIN active /\ part[i] = active[i]
      BY <2>1, <2>2, <2>3
    <2> HIDE DEF part
    <2>5. Increasing(part) /\ linesOf(part) \subseteq linesOf(active)
      BY <2>1, <2>3, <2>4 DEF Increasing, linesOf
    <2>6. Whole(part, written)
      BY <2>1, <2>4, <2>5 DEF Whole
    <2>7. tail(size) = Since(part)
      BY <1>2, <2>6, WholeFile DEF tail, part, n
    <2>8. /\ tail(size) \in Seq(Nat) /\ Increasing(tail(size))
          /\ \A l : l \in linesOf(tail(size)) <=> l \in linesOf(part) /\ l > reader.since
      BY <2>4, <2>5, <2>7, SinceLines
    <2>9. ASSUME NEW i \in DOMAIN active, i <= size, active[i] > reader.since
          PROVE  active[i] \in linesOf(tail(size))
      <3>1. i \in 1..n
        BY <2>1, <2>3, <2>9
      <3>2. active[i] \in linesOf(part)
        BY <2>4, <3>1 DEF linesOf
      <3> QED BY <2>8, <2>9, <3>2
    <2> QED BY <1>2, <2>5, <2>8, <2>9 DEF activeLines
  <1> QED BY <1>1, <1>2

\* A query begins, takes its snapshot and lists the segments.
LEMMA StartReader ==
    ASSUME DiskInv, ReaderInv, NEW follow \in BOOLEAN, BeginQuery(follow) \/ Snapshot \/ ListSegments
    PROVE  ReaderInv'
  <1> USE DEF ReaderInv
  <1>0. /\ UNCHANGED <<active, raw, zst, expired, rotation, written>> /\ written \in Nat /\ reader.seen \in Nat
        /\ rotation.step # "down"
    BY DEF BeginQuery, Snapshot, ListSegments, Reads, Up, disk, DiskInv, DiskTypeOK, ReaderTypeOK, QueryState
  <1>e. <<>> \in Seq(Nat) /\ {} \subseteq Nat
    OBVIOUS
  <1>1. CASE BeginQuery(follow)
    <2>1. /\ reader' = [NoReader EXCEPT !.step = "snapshot", !.follow = follow] /\ rotation.why # "recover"
      BY <1>1 DEF BeginQuery
    <2>2. ReaderTypeOK'
      <3> DEFINE noLines == <<>>
      <3>1. noLines \in Seq(Nat)
        OBVIOUS
      <3>2. reader' = [step |-> "snapshot", round |-> 1, follow |-> follow, since |-> 0, size |-> 0, segs |-> {},
                       hist |-> noLines, out |-> noLines, seen |-> 0, clean |-> TRUE,
                       subscribed |-> FALSE, joined |-> 0, lagged |-> FALSE, chan |-> noLines]
        BY <2>1 DEF NoReader
      <3> HIDE DEF noLines
      <3> QED BY <1>0, <3>1, <3>2 DEF ReaderTypeOK, QueryState
    <2> QED
      BY <1>0, <2>1, <2>2 DEF NoReader, ReaderUp, HistoryInv, CleanInv, FirstRound, Answered,
                              FollowInv, Sent, ReadAgain, Reading
  <1>2. CASE Snapshot
    <2> DEFINE size == IF active = NoFile THEN 0 ELSE Len(active)
    <2>1. /\ reader.step = "snapshot" /\ rotation = Unlocked
          /\ reader' = [reader EXCEPT !.step = "list", !.hist = <<>>, !.clean = (active # NoFile), !.seen = written,
                                      !.size = size]
      BY <1>2 DEF Snapshot, Reads
    <2>c. PICK clean \in BOOLEAN : clean = (active # NoFile)
      OBVIOUS
    <2>h. PICK hist \in Seq(Nat) : hist = <<>>
      BY <1>e
    <2>2. size \in Nat /\ (active # NoFile => active \in Seq(Nat) /\ size = Len(active))
      BY DEF DiskInv, DiskTypeOK, Whole
    <2> HIDE DEF size
    <2>r. reader' = [reader EXCEPT !.step = "list", !.hist = hist, !.clean = clean, !.seen = written, !.size = size]
      BY <2>1, <2>c, <2>h
    <2>3. /\ reader'.step = "list" /\ reader'.hist = hist /\ reader'.clean = clean
          /\ reader'.seen = written /\ reader'.size = size /\ reader'.round = reader.round
          /\ reader'.since = reader.since /\ reader'.out = reader.out /\ reader'.subscribed = reader.subscribed
          /\ reader'.lagged = reader.lagged /\ reader'.chan = reader.chan
      BY <2>r DEF ReaderTypeOK, QueryState
    <2>4. ReaderTypeOK'
      <3>1. PICK r \in QueryState : r = [reader EXCEPT !.step = "list", !.hist = hist]
        BY DEF ReaderTypeOK, QueryState
      <3>2. reader' = [r EXCEPT !.clean = clean, !.seen = written, !.size = size]
        BY <2>r, <3>1
      <3>3. reader' \in QueryState
        BY <1>0, <2>2, <3>2 DEF QueryState
      <3> QED BY <1>0, <2>3, <3>3 DEF ReaderTypeOK
    <2>5. HistoryInv'
      <3>1. \A f : Precedes(<<>>, f)
        BY NoLines DEF Precedes
      <3> QED BY <1>0, <2>h, <2>3, <3>1, NoLines DEF HistoryInv
    <2>6. CleanInv'
      <3>1. rotation = Unlocked
        BY <2>1
      <3>2. active # NoFile => \A i \in DOMAIN active : i <= Len(active)
        BY <2>2
      <3>3. reader'.clean => active # NoFile
        BY <2>c, <2>3
      <3>4. /\ reader'.size = size /\ reader'.step = "list" /\ active' = active /\ rotation' = rotation
            /\ (active # NoFile => size = Len(active) /\ Len(active) \in Nat)
        BY <1>0, <2>2, <2>3
      <3> QED BY <3>1, <3>2, <3>3, <3>4 DEF CleanInv
    <2>7. FollowInv'
      BY <1>0, <2>1, <2>3 DEF FollowInv
    <2> QED
      BY <1>0, <2>1, <2>3, <2>4, <2>5, <2>6, <2>7 DEF ReaderUp, FirstRound, Answered, Sent, ReadAgain
  <1>3. CASE ListSegments
    <2>1. reader.step = "list" /\ reader' = [reader EXCEPT !.step = "read", !.segs = DOMAIN zst]
      BY <1>3 DEF ListSegments, Reads
    <2>2. DOMAIN zst \subseteq Nat
      BY DEF DiskInv, DiskTypeOK
    <2>3. /\ reader'.step = "read" /\ reader'.segs = DOMAIN zst /\ reader'.hist = <<>> /\ reader'.clean = reader.clean
          /\ reader'.seen = reader.seen /\ reader'.size = reader.size /\ reader'.round = reader.round
          /\ reader'.since = reader.since /\ reader'.out = reader.out /\ reader'.subscribed = reader.subscribed
          /\ reader'.lagged = reader.lagged /\ reader'.chan = reader.chan
      BY <2>1 DEF ReaderTypeOK, QueryState, HistoryInv, Reading
    <2>4. ReaderTypeOK'
      BY <1>0, <2>1, <2>2 DEF ReaderTypeOK, QueryState
    <2>5. HistoryInv'
      <3>1. \A f : Precedes(<<>>, f)
        BY NoLines DEF Precedes
      <3> QED BY <1>0, <2>3, <3>1, NoLines DEF HistoryInv
    <2>6. CleanInv'
      BY <1>0, <2>1, <2>3 DEF CleanInv, Reading
    <2>7. FollowInv'
      BY <1>0, <2>1, <2>3 DEF FollowInv, Reading
    <2> QED
      BY <1>0, <2>1, <2>3, <2>4, <2>5, <2>6, <2>7 DEF ReaderUp, FirstRound, Answered, Sent, ReadAgain
  <1> QED BY <1>1, <1>2, <1>3

LEMMA SegmentReader ==
    ASSUME DiskInv, ReaderInv, ReadSegment
    PROVE  ReaderInv'
  <1> USE DEF ReaderInv
  <1>0. /\ UNCHANGED <<active, raw, zst, expired, rotation, written>> /\ written \in Nat
        /\ rotation.step # "down" /\ reader.step = "read"
    BY DEF ReadSegment, Reads, Up, disk, DiskInv, DiskTypeOK
  <1>1. PICK n \in reader.segs :
          /\ isFirst(n, reader.segs)
          /\ reader' = IF n \in DOMAIN zst
                       THEN [reader EXCEPT !.segs = reader.segs \ {n}, !.hist = reader.hist \o Since(zst[n])]
                       ELSE [reader EXCEPT !.step = IF reader.round = 1 THEN "failed" ELSE "live", !.clean = FALSE]
    BY DEF ReadSegment
  <1>2. CASE n \notin DOMAIN zst
    <2>1. /\ reader'.step = (IF reader.round = 1 THEN "failed" ELSE "live") /\ ~reader'.clean
          /\ reader'.round = reader.round /\ reader'.since = reader.since /\ reader'.subscribed = reader.subscribed
          /\ reader'.joined = reader.joined /\ reader'.lagged = reader.lagged
          /\ reader'.out = reader.out /\ reader'.chan = reader.chan
      BY <1>1, <1>2 DEF ReaderTypeOK, QueryState
    <2>2. ReaderTypeOK'
      BY <1>0, <1>1, <1>2 DEF ReaderTypeOK, QueryState
    <2>3. Sent'
      BY <1>0, <2>1 DEF Sent
    <2> QED
      BY <1>0, <2>1, <2>2, <2>3 DEF ReaderUp, HistoryInv, CleanInv, FirstRound, Answered, FollowInv, ReadAgain, Reading
  <1>3. CASE n \in DOMAIN zst
    <2> DEFINE more == Since(zst[n])
    <2>1. /\ reader'.step = "read" /\ reader'.segs = reader.segs \ {n} /\ reader'.hist = reader.hist \o more
          /\ reader'.clean = reader.clean
          /\ reader'.seen = reader.seen /\ reader'.size = reader.size /\ reader'.round = reader.round
          /\ reader'.since = reader.since /\ reader'.out = reader.out /\ reader'.subscribed = reader.subscribed
          /\ reader'.lagged = reader.lagged /\ reader'.chan = reader.chan
      BY <1>0, <1>1, <1>3 DEF ReaderTypeOK, QueryState
    <2>2. /\ Whole(zst[n], written) /\ zst[n] = segment(n) /\ n \in Segs /\ n \in Nat
          /\ Whole(reader.hist, written) /\ Precedes(reader.hist, zst[n])
      BY <1>0, <1>3 DEF DiskInv, DiskTypeOK, Ordered, segment, Segs, HistoryInv, Reading
    <2>3. /\ more \in Seq(Nat) /\ Increasing(more)
          /\ \A l : l \in linesOf(more) <=> l \in linesOf(zst[n]) /\ l > reader.since
      BY <2>2, SinceLines DEF Whole, ReaderTypeOK, QueryState
    <2> HIDE DEF more
    <2>4. /\ reader.hist \o more \in Seq(Nat) /\ Increasing(reader.hist \o more)
          /\ linesOf(reader.hist \o more) = linesOf(reader.hist) \cup linesOf(more)
      <3>1. reader.hist \in Seq(Nat) /\ Increasing(reader.hist) /\ Precedes(reader.hist, more)
        BY <2>2, <2>3 DEF Whole, Precedes
      <3> QED BY <2>3, <3>1, CatLines
    <2>5. Whole(reader.hist \o more, written)
      BY <2>2, <2>3, <2>4 DEF Whole
    <2>6. ReaderTypeOK'
      <3>1. reader' = [reader EXCEPT !.segs = reader.segs \ {n}, !.hist = reader.hist \o more]
        BY <1>1, <1>3 DEF more
      <3> QED BY <1>0, <2>4, <3>1 DEF ReaderTypeOK, QueryState
    <2>7. HistoryInv'
      <3>1. ASSUME NEW m \in reader.segs \ {n}, m \in Segs PROVE Precedes(reader.hist \o more, segment(m))
        <4>1. Precedes(reader.hist, segment(m))
          BY <1>0, <3>1 DEF HistoryInv, Reading
        <4>2. n < m
          <5>1. m \in Nat /\ n <= m /\ n # m
            BY <1>1, <3>1 DEF isFirst, ReaderTypeOK, QueryState
          <5> QED BY <2>2, <5>1
        <4>3. Precedes(zst[n], segment(m))
          BY <2>2, <3>1, <4>2 DEF DiskInv, Ordered
        <4> QED BY <2>3, <2>4, <4>1, <4>3 DEF Precedes
      <3>2. ASSUME active # NoFile PROVE Precedes(reader.hist \o more, active)
        <4>1. Precedes(reader.hist, active) /\ Precedes(zst[n], active)
          BY <1>0, <2>2, <3>2 DEF HistoryInv, Reading, DiskInv, Ordered
        <4> QED BY <2>3, <2>4, <4>1 DEF Precedes
      <3>3. Segs' = Segs /\ \A m \in Segs : segment(m)' = segment(m)
        BY <1>0 DEF Segs, segment
      <3> QED BY <1>0, <2>1, <2>5, <3>1, <3>2, <3>3 DEF HistoryInv
    <2>8. CleanInv'
      <3> SUFFICES ASSUME reader.clean PROVE CleanInv'
        BY <2>1 DEF CleanInv
      <3>1. ASSUME NEW m \in DOMAIN zst, m \notin reader.segs \ {n}, NEW l \in linesOf(zst[m]), l > reader.since
            PROVE  l \in linesOf(reader.hist \o more)
        <4>1. CASE m = n
          BY <2>3, <2>4, <3>1, <4>1
        <4>2. CASE m # n
          BY <1>0, <2>4, <3>1, <4>2 DEF CleanInv, Reading
        <4> QED BY <4>1, <4>2
      <3> QED BY <1>0, <2>1, <3>1 DEF CleanInv, Reading
    <2>9. FollowInv'
      BY <1>0, <2>1 DEF FollowInv, Reading
    <2>10. Sent'
      <3>1. reader'.joined = reader.joined
        BY <1>1, <1>3 DEF ReaderTypeOK, QueryState
      <3> QED BY <1>0, <2>1, <3>1 DEF Sent
    <2> QED
      BY <1>0, <2>1, <2>6, <2>7, <2>8, <2>9, <2>10 DEF ReaderUp, FirstRound, Answered, ReadAgain
  <1> QED BY <1>2, <1>3

LEMMA ActiveReader ==
    ASSUME DiskInv, ReaderInv, ReadActive
    PROVE  ReaderInv'
  <1> USE DEF ReaderInv
  <1> DEFINE rest == tail(reader.size)
             all == reader.hist \o rest
  <1>0. /\ UNCHANGED <<active, raw, zst, expired, rotation, written>> /\ written \in Nat
        /\ rotation.step # "down" /\ reader.step = "read" /\ reader.segs = {}
        /\ reader' = [reader EXCEPT !.step = afterHistory(reader), !.hist = <<>>,
                                    !.out = reader.out \o SliceStable(all)]
    BY DEF ReadActive, Reads, Up, disk, DiskInv, DiskTypeOK
  <1>1. /\ rest \in Seq(Nat) /\ Increasing(rest) /\ linesOf(rest) \subseteq activeLines
        /\ active # NoFile => \A i \in DOMAIN active :
                                 i <= reader.size /\ active[i] > reader.since => active[i] \in linesOf(rest)
    BY <1>0, TailLines DEF DiskInv, DiskTypeOK, ReaderTypeOK, QueryState
  <1> HIDE DEF rest
  <1>2. reader.hist \in Seq(Nat) /\ Increasing(reader.hist) /\ Precedes(reader.hist, rest)
    <2>1. Whole(reader.hist, written) /\ (active # NoFile => Precedes(reader.hist, active))
      BY <1>0 DEF HistoryInv, Reading
    <2> QED BY <1>1, <2>1 DEF Whole, Precedes, activeLines
  <1>3. all \in Seq(Nat) /\ Increasing(all) /\ linesOf(all) = linesOf(reader.hist) \cup linesOf(rest)
    BY <1>1, <1>2, CatLines
  <1> HIDE DEF all
  <1>4. SliceStable(all) = all
    BY <1>3, SortOrdered
  <1>5. /\ reader.out \o all \in Seq(Nat) /\ linesOf(reader.out \o all) = linesOf(reader.out) \cup linesOf(all)
        /\ reader.out \in Seq(Nat)
    BY <1>3, CatLines DEF ReaderTypeOK, QueryState
  <1>6. reader' = [reader EXCEPT !.step = afterHistory(reader), !.hist = <<>>, !.out = reader.out \o all]
    BY <1>0, <1>4
  <1>7. /\ reader'.step = afterHistory(reader) /\ reader'.out = reader.out \o all /\ reader'.clean = reader.clean
        /\ reader'.seen = reader.seen /\ reader'.round = reader.round
        /\ reader'.since = reader.since /\ reader'.subscribed = reader.subscribed
        /\ reader'.joined = reader.joined /\ reader'.lagged = reader.lagged /\ reader'.chan = reader.chan
    BY <1>6 DEF ReaderTypeOK, QueryState
  <1>8. /\ afterHistory(reader) \in {"live", "since", "done"}
        /\ reader.round = 2 <=> afterHistory(reader) = "live"
    BY DEF afterHistory, ReaderTypeOK, QueryState
  <1>9. ReaderTypeOK'
    <2>1. PICK hist \in Seq(Nat) : hist = <<>>
      <3>1. <<>> \in Seq(Nat)
        OBVIOUS
      <3> QED BY <3>1
    <2>2. PICK step \in {"live", "since", "done"} : step = afterHistory(reader)
      BY <1>8
    <2>3. reader' = [reader EXCEPT !.step = step, !.hist = hist, !.out = reader.out \o all]
      BY <1>6, <2>1, <2>2
    <2> QED BY <1>0, <1>5, <2>3 DEF ReaderTypeOK, QueryState
  \* All that the snapshot could see and that is newer than asked has been read.
  <1>10. ASSUME reader.clean, NEW l \in Nat, l > reader.since, l <= reader.seen,
                l \in activeLines \/ \E n \in DOMAIN zst : l \in linesOf(zst[n])
         PROVE  l \in linesOf(all)
    <2>1. CASE l \in activeLines
      <3>1. active # NoFile
        BY <2>1 DEF activeLines
      <3>2. PICK i \in DOMAIN active : l = active[i]
        BY <2>1, <3>1 DEF activeLines, linesOf
      <3>3. i <= reader.size
        BY <1>0, <1>10, <3>2 DEF CleanInv, Reading
      <3> QED BY <1>1, <1>3, <1>10, <3>1, <3>2, <3>3
    <2>2. ASSUME NEW n \in DOMAIN zst, l \in linesOf(zst[n]) PROVE l \in linesOf(all)
      BY <1>0, <1>3, <1>10, <2>2 DEF CleanInv, Reading
    <2> QED BY <1>10, <2>1, <2>2
  <1>11. FirstRound'
    <2> SUFFICES ASSUME reader.round = 1 PROVE FirstRound'
      BY <1>7 DEF FirstRound
    <2>1. reader.out = <<>>
      BY <1>0 DEF FirstRound
    <2>2. reader.out \o all = all
      BY <1>3, <2>1
    <2> QED BY <1>3, <1>7, <1>8, <2>2 DEF FirstRound
  <1>12. Answered'
    <2> SUFFICES ASSUME reader.round = 1, reader.clean, NEW l \in Nat, readableSoon(l)', l <= reader.seen
                 PROVE  l \in linesOf(reader.out \o all)
      BY <1>7 DEF Answered
    <2>1. rotation = Unlocked
      BY <1>0 DEF CleanInv, Reading
    <2>2. l \in activeLines \/ \E n \in DOMAIN zst : l \in linesOf(zst[n])
      BY <1>0, <2>1 DEF readableSoon, Unlocked, activeLines
    <2>3. l > reader.since
      <3>1. reader.since = 0
        BY DEF FirstRound
      <3>2. \A k \in activeLines : 0 < k
        BY WholeLines DEF activeLines, DiskInv, DiskTypeOK
      <3>3. \A n \in DOMAIN zst : \A k \in linesOf(zst[n]) : 0 < k
        BY WholeLines DEF DiskInv, DiskTypeOK
      <3> QED BY <2>2, <3>1, <3>2, <3>3
    <2> QED BY <1>5, <1>10, <2>2, <2>3
  <1>13. FollowInv' /\ HistoryInv' /\ CleanInv' /\ ReaderUp'
    BY <1>0, <1>7, <1>8 DEF FollowInv, HistoryInv, CleanInv, ReaderUp, Reading
  <1>14. ReadAgain'
    <2> SUFFICES ASSUME reader.round = 2, reader.clean, ~reader.lagged,
                        NEW l \in (reader.since + 1)..written, l \notin expired
                 PROVE  l \in linesOf(reader.out \o all) \/ l \in linesOf(reader.chan)
      BY <1>0, <1>7, <1>8 DEF ReadAgain
    <2>1. reader.since \in Nat /\ reader.seen \in Nat
      BY DEF ReaderTypeOK, QueryState
    <2>2. l \in Nat /\ l > reader.since /\ l \in 1..written
      BY <1>0, <2>1
    <2>3. CASE l > reader.seen
      BY <1>0, <2>2, <2>3 DEF FollowInv, Reading
    <2>4. CASE l <= reader.seen
      <3>1. rotation = Unlocked /\ active # NoFile
        BY <1>0 DEF CleanInv, Reading
      <3>2. \A n \in DOMAIN raw : l \notin linesOf(raw[n])
        <4>1. \A n \in DOMAIN raw : \A k \in linesOf(raw[n]) : k <= reader.since
          BY <1>0, <3>1 DEF FollowInv, Unlocked
        <4> QED BY <2>1, <2>2, <4>1
      <3>3. l \in activeLines \/ \E n \in DOMAIN zst : l \in linesOf(zst[n])
        BY <2>2, <3>2 DEF DiskInv, Covered, Segs, segment
      <3> QED BY <1>5, <1>10, <2>2, <2>4, <3>3
    <2> QED BY <2>1, <2>2, <2>3, <2>4
  <1>15. Sent'
    BY <1>0, <1>5, <1>7 DEF Sent
  <1> QED BY <1>9, <1>11, <1>12, <1>13, <1>14, <1>15
\* From the first round to the second, and the stream behind it.
LEMMA FollowReader ==
    ASSUME DiskInv, ReaderInv, (\E late \in 0..MaxLate : TakeTime(late)) \/ Subscribe \/ Deliver \/ EndLagged
    PROVE  ReaderInv'
  <1> USE DEF ReaderInv
  <1>0. /\ UNCHANGED <<active, raw, zst, expired, rotation, written>> /\ written \in Nat
        /\ rotation.step # "down"
    BY DEF TakeTime, Subscribe, Deliver, EndLagged, Reads, Up, disk, DiskInv, DiskTypeOK
  <1>1. ASSUME NEW late \in 0..MaxLate, TakeTime(late) PROVE ReaderInv'
    <2>0. late \in Nat /\ written + late \in Nat /\ written <= written + late
      BY <1>0, LogStoreAssumption
    <2>1. reader.step = "since" /\ reader' = [reader EXCEPT !.step = "subscribe", !.since = written + late, !.round = 2]
      BY <1>1 DEF TakeTime, Reads
    <2>2. /\ reader'.step = "subscribe" /\ reader'.since = written + late /\ reader'.round = 2
          /\ reader'.subscribed = reader.subscribed /\ reader'.seen = reader.seen
      BY <2>1 DEF ReaderTypeOK, QueryState
    <2>3. ReaderTypeOK'
      <3>1. reader \in QueryState
        BY DEF ReaderTypeOK
      <3>2. reader' \in QueryState
        BY <2>0, <2>1, <3>1 DEF QueryState
      <3>3. reader.seen \in Nat /\ reader.seen <= written
        BY <3>1 DEF ReaderTypeOK, QueryState
      <3> QED BY <1>0, <2>2, <3>2, <3>3 DEF ReaderTypeOK
    <2>4. ~reader.subscribed
      BY <2>1 DEF FirstRound, FollowInv, ReaderTypeOK, QueryState
    <2>5. \A n \in DOMAIN raw : \A l \in linesOf(raw[n]) : l <= written + late
      <3>1. \A n \in DOMAIN raw : \A l \in linesOf(raw[n]) : l \in Nat /\ l <= written
        BY WholeLines DEF DiskInv, DiskTypeOK
      <3> QED BY <1>0, <2>0, <3>1
    <2>6. FollowInv'
      BY <1>0, <2>2, <2>4, <2>5 DEF FollowInv, Reading
    <2> QED
      BY <1>0, <2>1, <2>2, <2>3, <2>4, <2>6 DEF ReaderUp, HistoryInv, CleanInv, FirstRound, Answered, Sent, ReadAgain, Reading
  <1>2. CASE Subscribe
    <2>1. reader.step = "subscribe" /\ reader' = [reader EXCEPT !.step = "snapshot", !.subscribed = TRUE, !.joined = written]
      BY <1>2 DEF Subscribe, Reads
    <2>2. /\ reader'.step = "snapshot" /\ reader'.since = reader.since /\ reader'.round = reader.round
          /\ reader'.subscribed = TRUE /\ reader'.joined = written /\ reader'.seen = reader.seen /\ reader.round = 2
      BY <2>1 DEF ReaderTypeOK, QueryState, FirstRound
    <2>3. ReaderTypeOK'
      BY <1>0, <2>1 DEF ReaderTypeOK, QueryState
    <2>4. FollowInv'
      BY <1>0, <2>1, <2>2 DEF FollowInv, Reading
    <2> QED
      BY <1>0, <2>1, <2>2, <2>3, <2>4 DEF ReaderUp, HistoryInv, CleanInv, FirstRound, Answered, Sent, ReadAgain, Reading
  <1>3. CASE Deliver
    <2> DEFINE out == Append(reader.out, Head(reader.chan))
               chan == Tail(reader.chan)
    <2>1. reader.step = "live" /\ reader.chan # <<>> /\ reader' = [reader EXCEPT !.out = out, !.chan = chan]
      BY <1>3 DEF Deliver, Reads
    <2>2. /\ out \in Seq(Nat) /\ chan \in Seq(Nat)
          /\ linesOf(out) \cup linesOf(chan) = linesOf(reader.out) \cup linesOf(reader.chan)
      BY <2>1, DeliverLines DEF ReaderTypeOK, QueryState
    <2> HIDE DEF out, chan
    <2>3. /\ reader'.step = "live" /\ reader'.since = reader.since /\ reader'.round = reader.round
          /\ reader'.subscribed = reader.subscribed /\ reader'.seen = reader.seen /\ reader'.out = out
          /\ reader'.chan = chan /\ reader'.clean = reader.clean /\ reader'.lagged = reader.lagged
          /\ reader'.joined = reader.joined
      BY <2>1 DEF ReaderTypeOK, QueryState
    <2>4. ReaderTypeOK'
      BY <1>0, <2>1, <2>2 DEF ReaderTypeOK, QueryState
    <2>5. FollowInv'
      BY <1>0, <2>1, <2>3 DEF FollowInv, Reading
    <2>6. ReadAgain'
      BY <1>0, <2>1, <2>2, <2>3 DEF ReadAgain
    <2>7. Sent'
      BY <1>0, <2>1, <2>2, <2>3 DEF Sent
    <2> QED
      BY <1>0, <2>1, <2>3, <2>4, <2>5, <2>6, <2>7 DEF ReaderUp, HistoryInv, CleanInv, FirstRound, Answered, Reading
  <1>4. CASE EndLagged
    <2>1. reader.step = "live" /\ reader' = [reader EXCEPT !.step = "done"]
      BY <1>4 DEF EndLagged, Reads
    <2>2. reader'.step = "done" /\ reader'.round = 2
      BY <2>1 DEF FirstRound, ReaderTypeOK, QueryState
    <2>3. ReaderTypeOK'
      BY <1>0, <2>1 DEF ReaderTypeOK, QueryState
    <2> QED
      BY <1>0, <2>1, <2>2, <2>3 DEF ReaderUp, HistoryInv, CleanInv, FirstRound, Answered, FollowInv, Sent, ReadAgain, Reading
  <1> QED BY <1>1, <1>2, <1>3, <1>4

(***************************************************************************)
(* The theorems                                                            *)
(***************************************************************************)
LEMMA ReaderInit == LogInit => ReaderInv
  <1> SUFFICES ASSUME LogInit PROVE ReaderInv
    OBVIOUS
  <1>1. PICK none \in Seq(Nat) : none = <<>>
    <2>1. <<>> \in Seq(Nat)
      OBVIOUS
    <2> QED BY <2>1
  <1>2. reader = [step |-> "idle", round |-> 1, follow |-> FALSE, since |-> 0, size |-> 0, segs |-> {},
                  hist |-> none, out |-> none, seen |-> 0, clean |-> TRUE,
                  subscribed |-> FALSE, joined |-> 0, lagged |-> FALSE, chan |-> none] /\ written = 0
    BY <1>1 DEF LogInit, NoReader
  <1>3. ReaderTypeOK
    BY <1>2 DEF ReaderTypeOK, QueryState
  <1> QED
    BY <1>2, <1>3 DEF ReaderInv, ReaderUp, HistoryInv, CleanInv, FirstRound, Answered, FollowInv, Sent, ReadAgain, Reading

LEMMA LogInvNext ==
    ASSUME "torn" \notin LogFaults, DiskInv, ReaderInv, [LogNext]_logVars
    PROVE  DiskInv' /\ ReaderInv'
  <1> DEFINE Goal == DiskInv' /\ ReaderInv'
  <1> SUFFICES Goal
    OBVIOUS
  <1>1. ASSUME NEW aged \in BOOLEAN, AppendLine(aged) PROVE Goal
    BY <1>1, DiskAppend, AppendReader
  <1>4. ASSUME UNCHANGED <<active, raw, zst, expired, rotation, written>> PROVE DiskInv'
    BY <1>4 DEF DiskInv, DiskTypeOK, Ordered, Rotating, Covered, Segs, segment, activeLines
  <1>10. CASE AppendFails
    <2>1. UNCHANGED <<active, raw, zst, expired, rotation, written, reader>>
      BY <1>10 DEF AppendFails
    <2> QED BY <1>4, <2>1 DEF ReaderInv, ReaderTypeOK, ReaderUp, HistoryInv, CleanInv, FirstRound, Answered,
                      FollowInv, Sent, ReadAgain, Reading, readableSoon, activeLines, Segs, segment
  <1>2. CASE RenameActive \/ compressSegment \/ CompressFails \/ RemoveRaw \/ OpenActive \/ enforceRetention \/ OpenStream
    <2>1. DiskInv' /\ Moved
      BY <1>2, DiskRename, DiskCompress, DiskFails, DiskRemove, DiskOpen, DiskRetain, DiskRecover
    <2> QED BY <2>1, MovedReader
  <1>3. CASE Killed
    <2>1. DiskInv'
      BY <1>3, DiskKilled
    <2> QED BY <1>3, <2>1, KilledReader DEF DiskInv, DiskTypeOK
  <1>5. ASSUME NEW follow \in BOOLEAN, BeginQuery(follow) PROVE Goal
    BY <1>4, <1>5, StartReader DEF BeginQuery, Reads, disk
  <1>6. CASE Snapshot \/ ListSegments
    BY <1>4, <1>6, StartReader DEF Snapshot, ListSegments, Reads, disk
  <1>7. CASE ReadSegment \/ ReadActive
    BY <1>4, <1>7, SegmentReader, ActiveReader DEF ReadSegment, ReadActive, Reads, disk
  <1>8. CASE (\E late \in 0..MaxLate : TakeTime(late)) \/ Subscribe \/ Deliver \/ EndLagged
    BY <1>4, <1>8, FollowReader DEF TakeTime, Subscribe, Deliver, EndLagged, Reads, disk
  <1>9. CASE UNCHANGED logVars
    BY <1>4, <1>9 DEF logVars, ReaderInv, ReaderTypeOK, ReaderUp, HistoryInv, CleanInv, FirstRound, Answered,
                      FollowInv, Sent, ReadAgain, Reading, readableSoon, activeLines, Segs, segment
  <1> QED BY <1>1, <1>2, <1>3, <1>5, <1>6, <1>7, <1>8, <1>9, <1>10 DEF LogNext

LEMMA ReaderAnswers == DiskInv /\ ReaderInv => QueryExact
  <1> SUFFICES ASSUME DiskInv, ReaderInv, reader.step \in {"since", "done"}, reader.round = 1
               PROVE  /\ Increasing(reader.out)
                      /\ reader.clean => \A l \in readable : l <= reader.seen => l \in linesOf(reader.out)
    BY DEF QueryExact
  <1>1. written \in Nat /\ (active = NoFile \/ Whole(active, written))
    BY DEF DiskInv, DiskTypeOK
  <1>2. linesOf(scanRecords(active)) = activeLines
    BY <1>1, WholeFile, ScanNone, NoLines DEF activeLines
  <1>3. ASSUME NEW l \in readable PROVE l \in Nat /\ readableSoon(l)
    <2>1. CASE l \in activeLines
      BY <1>1, <2>1, WholeLines DEF readableSoon, activeLines
    <2>2. ASSUME NEW n \in DOMAIN zst, l \in linesOf(zst[n]) PROVE l \in Nat /\ readableSoon(l)
      BY <2>2, WholeLines DEF readableSoon, DiskInv, DiskTypeOK
    <2> QED BY <1>2, <1>3, <2>1, <2>2 DEF readable, compressed
  <1> QED BY <1>3 DEF ReaderInv, FirstRound, Answered

LEMMA FollowersGet == ReaderInv => FollowComplete
  <1> SUFFICES ASSUME ReaderInv, reader.step = "live", ~reader.lagged
               PROVE  LET got == linesOf(reader.out) \cup linesOf(reader.chan)
                      IN  /\ (reader.joined + 1)..written \subseteq got
                          /\ reader.clean => (reader.since + 1)..written \subseteq got \cup expired \cup spoiled
    BY DEF FollowComplete
  <1>1. reader.subscribed /\ reader.joined \in Nat
    BY DEF ReaderInv, FirstRound, FollowInv, ReaderTypeOK, QueryState
  <1>2. ASSUME NEW l \in (reader.joined + 1)..written
        PROVE  l \in linesOf(reader.out) \cup linesOf(reader.chan)
    <2>1. l \in 1..written /\ l > reader.joined
      BY <1>1, <1>2
    <2> QED BY <1>1, <2>1 DEF ReaderInv, Sent
  <1> QED BY <1>2 DEF ReaderInv, ReadAgain

\* As long as neither a crash nor a full disk leaves a part of a record, nothing but
\* retention loses a line and no line is stored twice, wherever a rotation or a
\* recovery is cut off and however often, and whatever writes the disk refuses.
THEOREM StoreKeepsLines ==
    ASSUME "torn" \notin LogFaults
    PROVE  LogSpec => []LogKept
  <1>1. DiskInv /\ ReaderInv /\ [LogNext]_logVars => (DiskInv /\ ReaderInv)'
    BY LogInvNext
  <1>2. DiskInv => LogKept
    BY DiskKeeps
  <1> QED BY <1>1, <1>2, DiskInit, ReaderInit, PTL DEF LogSpec

\* A query returns no line twice and, unless a rotation began while it read, every
\* line that was there, for every size of segments and retention.
THEOREM QueriesExact ==
    ASSUME "torn" \notin LogFaults
    PROVE  LogSpec => []QueryExact
  <1>1. DiskInv /\ ReaderInv /\ [LogNext]_logVars => (DiskInv /\ ReaderInv)'
    BY LogInvNext
  <1>2. DiskInv /\ ReaderInv => QueryExact
    BY ReaderAnswers
  <1> QED BY <1>1, <1>2, DiskInit, ReaderInit, PTL DEF LogSpec

\* A follower that is not told it lagged gets every line appended after it subscribed
\* and, unless a rotation began meanwhile, every line stamped after it began to follow,
\* for every size of its buffer and however many lines were on their way then.
THEOREM FollowersMissNothing ==
    ASSUME "torn" \notin LogFaults
    PROVE  LogSpec => []FollowComplete
  <1>1. DiskInv /\ ReaderInv /\ [LogNext]_logVars => (DiskInv /\ ReaderInv)'
    BY LogInvNext
  <1>2. ReaderInv => FollowComplete
    BY FollowersGet
  <1> QED BY <1>1, <1>2, DiskInit, ReaderInit, PTL DEF LogSpec
===============================================================================
