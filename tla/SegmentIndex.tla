---------------------------- MODULE SegmentIndex -----------------------------
(***************************************************************************)
(* The segments of a database file as an index: the links each 64-byte     *)
(* header keeps to earlier segments, the search that follows them, the     *)
(* walk that validates them at open, and the copy that renumbers them when *)
(* retention removes segments.                                             *)
(*                                                                         *)
(* A file is a function from offsets, in 32-byte units, to what starts     *)
(* there.  A frame occupies one unit per record, so that frames of         *)
(* different lengths exist.  A record is a timestamp, a series and a value.*)
(***************************************************************************)
EXTENDS Integers, Sequences, FiniteSets, SequencesExt

CONSTANTS
    SeqMax,   \* UINT64_MAX as a batch sequence
    TimeMax   \* UINT64_MAX as a timestamp

ASSUME LimitAssumption == SeqMax \in Nat \ {0} /\ TimeMax \in Nat

DataStart == 5     \* TIMELITE_DATA_START is 160 bytes
WalStart  == 1     \* frames of the log start at byte 32

Frame(seq, records) == [kind |-> "frame", seq |-> seq, records |-> records]
FrameSize(f)   == Len(f.records)
FirstTimeOf(f) == f.records[1].time
LastTimeOf(f)  == f.records[Len(f.records)].time
TimesOf(f)     == {f.records[i].time : i \in DOMAIN f.records}

\* "TLSPAN07" and "TLUNOR07" headers take 64 bytes and carry the time span and
\* the links; a "TLSEGMNT" header of feature 006 takes 32 and carries neither.
EncodeSegment(first, last, body, minimum, maximum, previous, skip, ordered) ==
    [kind |-> "segment", size |-> 2, first |-> first, last |-> last, body |-> body,
     minimum |-> minimum, maximum |-> maximum, previous |-> previous, skip |-> skip,
     ordered |-> ordered]
OldSegment(first, last, body) ==
    [EncodeSegment(first, last, body, 0, TimeMax, 0, 0, FALSE) EXCEPT !.size = 1]

\* What a read that fails returns instead of a frame, a segment or a cursor.
Bad == [kind |-> "bad", seq |-> 0, records |-> <<>>]

ReadFrame(file, o, end, seq) ==
    IF /\ o \in DOMAIN file
       /\ file[o].kind = "frame" /\ file[o].seq = seq
       /\ o + FrameSize(file[o]) <= end
    THEN file[o] ELSE Bad

ReadSegment(d, o, end) ==
    IF /\ o \in DOMAIN d
       /\ d[o].kind = "segment"
       /\ d[o].first # 0 /\ d[o].first <= d[o].last
       /\ o + d[o].size + d[o].body <= end
       /\ d[o].minimum <= d[o].maximum
       /\ d[o].previous = 0 \/ d[o].previous \in DataStart..(o - 1)
       /\ d[o].skip = 0 \/ d[o].skip \in DataStart..(o - 1)
    THEN d[o] ELSE Bad

After(o, s) == o + s.size + s.body

\* The frames between two offsets, in file order, while each follows the one
\* before and their sequences count up from first; a frame takes a unit or more.
FrameWalk(file, o, end, first) ==
    LET walk[k \in 0..(end - o)] ==
            IF k = 0 THEN [at |-> o, frames |-> <<>>]
            ELSE LET w == walk[k - 1]
                     f == ReadFrame(file, w.at, end, first + Len(w.frames))
                 IN  IF f = Bad THEN w
                     ELSE [at |-> w.at + FrameSize(f), frames |-> Append(w.frames, f)]
    IN  walk

FramesFrom(file, o, end, first) == FrameWalk(file, o, end, first)[end - o].frames

SegmentFrames(d, o) == FramesFrom(d, o + d[o].size, After(o, d[o]), d[o].first)

\* The offsets of the first n segments from root on and the offset after them.
Passed(d, root, n) ==
    LET passed[k \in 0..n] == IF k = 0 THEN root ELSE After(passed[k - 1], d[passed[k - 1]])
    IN  passed

SegmentStarts(d, root, n) == [k \in 1..(n + 1) |-> Passed(d, root, n)[k - 1]]

------------------------------------------------------------------------------
(* Links: segment n points at segment n - 1 and at segment n - LowBit(n).  *)

Bits == 0..23

Power[b \in 0..24] == IF b = 0 THEN 1 ELSE 2 * Power[b - 1]

BitOf(n)  == CHOOSE b \in Bits : n % Power[b] = 0 /\ n % Power[b + 1] # 0
LowBit(n) == Power[BitOf(n)]

\* Entry b of the offset table is the last segment whose number 2^b divides.
NoOffsets == [b \in Bits |-> 0]
RecordOffset(table, n, o) == [b \in Bits |-> IF b <= BitOf(n) THEN o ELSE table[b]]

\* One step of the search from segment x.n at x.offset: along the longer link
\* that does not pass the target.  It stays where the search ends, at the
\* target, at a header that cannot be read and at one without links.
Hop(d, end, x, target) ==
    LET s == ReadSegment(d, x.offset, end)
    IN  IF x.n = 0 \/ x.n = target \/ s = Bad \/ s.size = 1 THEN x
        ELSE IF x.n - LowBit(x.n) >= target
             THEN [n |-> x.n - LowBit(x.n), offset |-> s.skip]
             ELSE [n |-> x.n - 1, offset |-> s.previous]

Hops(d, end, n, current, target) ==
    LET at[k \in 0..n] == IF k = 0 THEN [n |-> n, offset |-> current]
                          ELSE Hop(d, end, at[k - 1], target)
    IN  at

\* segment_at: the offset of segment number target, searched backwards from
\* segment number n at offset current; 0 where a header cannot be read.  The
\* first header without links sends the search to the start of the file.
SegmentAt(d, end, n, current, target) ==
    LET x == Hops(d, end, n, current, target)[n]
    IN  IF x.n = 0 \/ ReadSegment(d, x.offset, end) = Bad THEN 0
        ELSE IF x.n = target THEN x.offset
        ELSE SegmentStarts(d, DataStart, target)[target]

------------------------------------------------------------------------------
(* The walk of check_segments over the segments a manifest lists. *)

\* One segment: the links must be the ones the walk itself finds, and the
\* ordered suffix starts anew where a segment's order or span says so.
CheckSegment(d, m, acc) ==
    LET s == ReadSegment(d, acc.at, m.end)
        n == acc.n + 1
    IN  IF ~acc.ok \/ s = Bad THEN [acc EXCEPT !.ok = FALSE]
        ELSE [ok |-> /\ acc.seq # SeqMax /\ s.first > acc.seq
                     /\ m.retain \/ s.first = acc.seq + 1
                     /\ s.size = 2 => s.previous = acc.previous /\ s.skip = acc.table[BitOf(n)],
              n |-> n, seq |-> s.last, previous |-> acc.at, at |-> After(acc.at, s),
              table |-> RecordOffset(acc.table, n, acc.at),
              span |-> IF s.size = 1 \/ ~s.ordered THEN n + 1
                       ELSE IF s.minimum < acc.priorMax THEN n ELSE acc.span,
              priorMax |-> IF s.size = 1 THEN 0 ELSE s.maximum]

CheckWalk(d, m) ==
    LET walk[k \in 0..m.count] ==
            IF k = 0 THEN [ok |-> TRUE, n |-> 0, seq |-> 0, previous |-> 0, at |-> DataStart,
                           table |-> NoOffsets, span |-> 1, priorMax |-> 0]
            ELSE CheckSegment(d, m, walk[k - 1])
    IN  walk

\* The result: whether the index is accepted, and the tail, last installed
\* timestamp and start of the ordered suffix it yields.  Without a timestamp
\* in the manifest the last frame of the last segment supplies it.
CheckSegments(d, m) ==
    LET walked == CheckWalk(d, m)[m.count]
        tail   == walked.previous
        time   == IF tail = 0 \/ ~walked.ok THEN m.time
                  ELSE IF d[tail].ordered /\ ~m.retain THEN d[tail].maximum
                  ELSE IF m.hasTime THEN m.time
                  ELSE LastTimeOf(Last(SegmentFrames(d, tail)))
    IN  [ok |-> /\ walked.ok /\ walked.at = m.end
                /\ IF m.retain THEN walked.seq <= m.last ELSE walked.seq = m.last
                /\ m.hasTime => m.tail = tail
                /\ m.hasTime /\ ~m.retain /\ m.count # 0 /\ d[tail].ordered
                      => m.time = d[tail].maximum,
         tail |-> tail, time |-> time, span |-> walked.span]

------------------------------------------------------------------------------
(* Retention's filter and copy. *)

\* segment_expires: by the span, or frame by frame where there is none.
SegmentExpires(d, o, cutoff) ==
    IF d[o].size = 2 \/ cutoff = 0
    THEN d[o].maximum < cutoff
    ELSE \A i \in DOMAIN SegmentFrames(d, o) :
            \A t \in TimesOf(SegmentFrames(d, o)[i]) : t < cutoff

\* One segment copied to acc.at: the given header, then the frames verbatim.
Copied(d, acc, o, header) ==
    LET to   == acc.at
        body == {x \in DOMAIN d : x >= o + d[o].size /\ x < After(o, d[o])}
    IN  [n |-> acc.n + 1, previous |-> to, table |-> RecordOffset(acc.table, acc.n + 1, to),
         at |-> to + d[o].size + d[o].body,
         file |-> [x \in DOMAIN acc.file \cup {to} \cup {y - o + to : y \in body} |->
                      IF x = to THEN header
                      ELSE IF x - to + o \in body THEN d[x - to + o]
                      ELSE acc.file[x]]]

\* Mutant: the skip link is copied with the rest of the header.
CopySegmentOldSkip(d, acc, o) ==
    Copied(d, acc, o, IF d[o].size = 1 THEN d[o] ELSE [d[o] EXCEPT !.previous = acc.previous])

\* The links are rewritten for the segment's new number and place.
CopySegment(d, acc, o) ==
    Copied(d, acc, o, IF d[o].size = 1 THEN d[o]
                      ELSE [d[o] EXCEPT !.previous = acc.previous,
                                        !.skip = acc.table[BitOf(acc.n + 1)]])

\* copy_segments: of the n segments from root on, the ones that do not expire,
\* copied one after the other from destination.
CopyWalk(d, root, n, cutoff, destination) ==
    LET start == SegmentStarts(d, root, n)
        acc[k \in 0..n] ==
            IF k = 0 THEN [n |-> 0, previous |-> 0, table |-> NoOffsets, at |-> destination,
                           file |-> d]
            ELSE IF SegmentExpires(d, start[k], cutoff) THEN acc[k - 1]
            ELSE CopySegment(d, acc[k - 1], start[k])
    IN  acc

CopySegments(d, root, n, cutoff, destination) ==
    CopyWalk(d, root, n, cutoff, destination)[n]
==============================================================================
