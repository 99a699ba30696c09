----------------------------- MODULE BatchReader -----------------------------
(***************************************************************************)
(* The read side of a batch database: one open handle, its persistent      *)
(* cursor, and the calls that move the cursor or move the data under it.   *)
(*                                                                         *)
(* Storage does not fail here (module BatchPair has the crashes and the    *)
(* I/O errors), so append, checkpoint and expiry are single steps.  Calls  *)
(* that return an error before their first effect change nothing and are   *)
(* the stuttering steps of this specification.                             *)
(***************************************************************************)
EXTENDS SegmentIndex

CONSTANTS
    Inputs,          \* record sequences the application may append
    LegacyInputs,    \* record sequences releases without time order have stored
    LegacyMax,       \* batches stored by such a release before the first open
    WalCapacity,     \* TIMELITE_WAL_CAPACITY, in units
    DbCapacity,      \* TIMELITE_DATABASE_CAPACITY, in units
    Cutoffs,         \* arguments of expire_before
    Ranges           \* arguments of next_range: [from, until, filter, series]

VARIABLES
    db,        \* contents of the database file past the manifest slots
    wal,       \* contents of the log
    manifest,  \* the newest manifest
    h,         \* the handle, without the cursor
    c,         \* the cursor of the handle
    live,      \* the batches the files hold, a function of the variables above
    unread     \* the batches the cursor has yet to deliver, likewise

vars == <<db, wal, manifest, h, c, live, unread>>

Times   == 0..TimeMax
Records == [time : Times, series : Nat, value : Int]

\* A batch has a record, an old release stored no more batches than there are
\* sequences, and a range is not reversed.  1 GiB of database is 2^25 units.
ASSUME ReaderAssumption ==
    /\ \A r \in Inputs \cup LegacyInputs : r \in Seq(Records) /\ r # <<>>
    /\ LegacyMax \in 0..SeqMax
    /\ WalCapacity \in Nat /\ WalStart <= WalCapacity
    /\ DbCapacity \in Nat /\ DataStart <= DbCapacity /\ DbCapacity <= 2 * Power[24]
    /\ Cutoffs \subseteq Times
    /\ \A r \in Ranges : /\ r \in [from : Times, until : Times, filter : BOOLEAN, series : Nat]
                          /\ r.from <= r.until

Wrap(n) == n % (SeqMax + 1)     \* sequences are 64-bit numbers

------------------------------------------------------------------------------
(* Opening. *)

ResetCursor == [cursor |-> DataStart, segmentEnd |-> DataStart, inWal |-> FALSE,
                readSequence |-> 1]

\* The records of a frame, and of one frame after the other, are in time order.
FrameOrdered(f) == \A i \in 2..Len(f.records) : f.records[i].time >= f.records[i - 1].time
Ordered(frames) ==
    /\ \A i \in DOMAIN frames : FrameOrdered(frames[i])
    /\ \A i \in 2..Len(frames) : FirstTimeOf(frames[i]) >= LastTimeOf(frames[i - 1])

\* What timelite_batches_open derives from the times of the log.
WalOrder(frames) ==
    LET all == UNION {TimesOf(frames[i]) : i \in DOMAIN frames}
    IN  IF frames = <<>> THEN [first |-> 0, last |-> 0, min |-> 0, max |-> 0, ordered |-> TRUE]
        ELSE [first |-> FirstTimeOf(frames[1]), last |-> LastTimeOf(Last(frames)),
              min |-> Min(all), max |-> Max(all), ordered |-> Ordered(frames)]

WalEnd(w) == Max({WalStart} \cup {o + FrameSize(w[o]) : o \in DOMAIN w})

\* The handle built from a manifest, what the walk of the segments yields, and
\* the end, the number of frames and the times of the log.
HandleOf(m, checked, end, count, order) ==
    [end |-> end, sequence |-> m.last + count, dataEnd |-> m.end,
     installed |-> m.last, generation |-> m.count, retention |-> m.retain,
     lastTime |-> IF count = 0 THEN checked.time ELSE order.last,
     installedTime |-> checked.time, lastSegment |-> checked.tail,
     spanStart |-> checked.span, walFirst |-> order.first, walMin |-> order.min,
     walMax |-> order.max, walOrdered |-> order.ordered, failed |-> ~checked.ok]

\* The handle an open builds from the files.
Opened(d, w, m) ==
    LET frames == FramesFrom(w, WalStart, WalEnd(w), m.last + 1)
    IN  HandleOf(m, CheckSegments(d, m), WalEnd(w), Len(frames), WalOrder(frames))

Reopen ==
    /\ h' = Opened(db, wal, manifest)
    /\ c' = ResetCursor
    /\ UNCHANGED <<db, wal, manifest>>

------------------------------------------------------------------------------
(* Appending and installing. *)

InOrder(records) ==
    /\ h.sequence # 0 => records[1].time >= h.lastTime
    /\ \A i \in 2..Len(records) : records[i].time >= records[i - 1].time

\* Mutant: the log's header is not counted.
FitsWithoutHeader(f) == FrameSize(f) <= WalCapacity - (h.end - WalStart)

\* The log has room for the frame.
Fits(f) == FrameSize(f) <= WalCapacity - h.end

AppendBatch(records) ==
    LET f == Frame(h.sequence + 1, records)
        empty == h.end = WalStart
    IN  /\ ~h.failed
        /\ InOrder(records)
        /\ Fits(f)
        /\ h.sequence # SeqMax
        /\ wal' = [o \in DOMAIN wal \cup {h.end} |-> IF o = h.end THEN f ELSE wal[o]]
        /\ h' = [h EXCEPT !.walFirst = IF empty THEN FirstTimeOf(f) ELSE @,
                          !.walMin = IF empty \/ FirstTimeOf(f) < @ THEN FirstTimeOf(f) ELSE @,
                          !.walMax = IF empty \/ LastTimeOf(f) > @ THEN LastTimeOf(f) ELSE @,
                          !.lastTime = LastTimeOf(f), !.end = @ + FrameSize(f),
                          !.sequence = @ + 1]
        /\ UNCHANGED <<db, manifest, c>>

\* Mutant: a new segment's skip link is its previous link.
NewSkipPrevious == h.lastSegment

\* The link of the next segment, found by the search rather than by a walk.
NewSkip ==
    LET target == h.generation + 1 - LowBit(h.generation + 1)
    IN  IF target = 0 THEN 0
        ELSE SegmentAt(db, h.dataEnd, h.generation, h.lastSegment, target)

PriorMax == IF h.retention /\ h.generation # 0 THEN db[h.lastSegment].maximum
                                               ELSE h.installedTime

\* Mutant: the cursor is moved as if the segment had no header.
TranslatedWithoutHeader(cur, dataEnd, newEnd) ==
    IF cur.inWal
    THEN [cur EXCEPT !.inWal = FALSE, !.cursor = dataEnd + @ - WalStart, !.segmentEnd = newEnd]
    ELSE cur

\* Mutant: a checkpoint leaves the cursor where it was.
TranslatedNever(cur, dataEnd, newEnd) == cur

\* A cursor in the log follows its frame into the segment installed at dataEnd.
Translated(cur, dataEnd, newEnd) ==
    IF cur.inWal
    THEN [cur EXCEPT !.inWal = FALSE, !.cursor = dataEnd + 2 + @ - WalStart,
                     !.segmentEnd = newEnd]
    ELSE cur

\* Mutant: the ordered suffix is not restarted by an unordered segment.
NewSpanIgnoringOrder ==
    IF h.walFirst < PriorMax THEN h.generation + 1 ELSE h.spanStart

\* private_span_start after the install.
NewSpan ==
    IF ~h.walOrdered THEN h.generation + 2
    ELSE IF h.walFirst < PriorMax THEN h.generation + 1 ELSE h.spanStart

Checkpoint ==
    LET body   == h.end - WalStart
        newEnd == h.dataEnd + 2 + body
        header == EncodeSegment(h.installed + 1, h.sequence, body, h.walMin, h.walMax,
                                h.lastSegment, NewSkip, h.walOrdered)
        moved  == {o - WalStart + h.dataEnd + 2 : o \in DOMAIN wal}
    IN  /\ ~h.failed
        /\ h.end # WalStart
        /\ body + 2 <= DbCapacity - h.dataEnd
        /\ h.generation + 1 # LowBit(h.generation + 1) => NewSkip # 0
        /\ db' = [o \in DOMAIN db \cup {h.dataEnd} \cup moved |->
                    IF o = h.dataEnd THEN header
                    ELSE IF o \in moved THEN wal[o - h.dataEnd - 2 + WalStart]
                    ELSE db[o]]
        /\ manifest' = [count |-> h.generation + 1, end |-> newEnd, last |-> h.sequence,
                        time |-> h.lastTime, tail |-> h.dataEnd, hasTime |-> TRUE,
                        retain |-> h.retention]
        /\ wal' = <<>>
        /\ h' = [h EXCEPT !.spanStart = NewSpan, !.installedTime = h.lastTime,
                          !.generation = @ + 1, !.dataEnd = newEnd,
                          !.lastSegment = h.dataEnd, !.installed = h.sequence,
                          !.end = WalStart, !.walOrdered = TRUE]
        /\ c' = Translated(c, h.dataEnd, newEnd)

------------------------------------------------------------------------------
(* Reading. *)

Done == [kind |-> "end"]

\* A cursor at the end of the segments goes on at the start of the log.
EnterWal(hd, cur) ==
    IF ~cur.inWal /\ cur.cursor = hd.dataEnd
    THEN [cur EXCEPT !.inWal = TRUE, !.cursor = WalStart,
                     !.readSequence = Wrap(hd.installed + 1)]
    ELSE cur

\* The cursor on the first frame of segment s; only retention leaves gaps.
Entered(hd, cur, s) ==
    IF s = Bad \/ (/\ s.first # cur.readSequence
                   /\ ~(hd.retention /\ s.first >= cur.readSequence))
    THEN Bad
    ELSE [cursor |-> cur.cursor + s.size, segmentEnd |-> After(cur.cursor, s),
          inWal |-> FALSE, readSequence |-> s.first]

EnterSegment(d, hd, cur) ==
    IF ~cur.inWal /\ cur.cursor = cur.segmentEnd
    THEN Entered(hd, cur, ReadSegment(d, cur.cursor, hd.dataEnd))
    ELSE cur

Delivered(cur, f) ==
    IF f = Bad THEN Bad
    ELSE [kind |-> "read", frame |-> f,
          cur |-> [cur EXCEPT !.cursor = @ + FrameSize(f), !.readSequence = Wrap(@ + 1)]]

FrameUnder(d, w, hd, cur) ==
    IF cur = Bad THEN Bad
    ELSE IF cur.inWal
    THEN IF cur.cursor = hd.end THEN Done
         ELSE Delivered(cur, ReadFrame(w, cur.cursor, hd.end, cur.readSequence))
    ELSE Delivered(cur, ReadFrame(d, cur.cursor, cur.segmentEnd, cur.readSequence))

\* read_cursor: the frame under a cursor and the cursor after it, END at the
\* end of the log, or Bad where the cursor does not point at what it expects.
ReadCursor(d, w, hd, cur) == FrameUnder(d, w, hd, EnterSegment(d, hd, EnterWal(hd, cur)))

\* The cursor at the end of the log, where seek and expiry leave it on END.
EndCursor(hd, cur) == [cur EXCEPT !.inWal = TRUE, !.cursor = hd.end,
                                  !.readSequence = Wrap(hd.sequence + 1)]

NextBatch ==
    LET r == ReadCursor(db, wal, h, c)
    IN  /\ ~h.failed
        /\ r.kind = "read"
        /\ c' = r.cur
        /\ UNCHANGED <<db, wal, manifest, h>>

Rewind ==
    /\ ~h.failed
    /\ c' = ResetCursor
    /\ UNCHANGED <<db, wal, manifest, h>>

\* read_cursor over and over from a cursor, which comes first, up to the call
\* that delivers no batch; there are at most h.sequence batches.
ReadLoop(d, w, hd, cur) ==
    LET reads[k \in 0..(hd.sequence + 1)] ==
            IF k = 0 THEN <<[kind |-> "read", frame |-> Bad, cur |-> cur]>>
            ELSE LET done == reads[k - 1]
                     last == done[Len(done)]
                 IN  IF last.kind # "read" THEN done
                     ELSE Append(done, ReadCursor(d, w, hd, last.cur))
    IN  reads

Reads(d, w, hd, cur) == ReadLoop(d, w, hd, cur)[hd.sequence + 1]

\* seek_frames: from a cursor to the first batch at or below limit whose last
\* record is not older than from.
SeekFrames(cur, from, limit) ==
    LET read == Reads(db, wal, h, cur)
        k    == Min({j \in 2..Len(read) : \/ read[j].kind # "read"
                                          \/ read[j - 1].cur.readSequence > limit
                                          \/ LastTimeOf(read[j].frame) >= from})
    IN  IF read[k - 1].cur.readSequence > limit THEN Done
        ELSE IF read[k].kind # "read" THEN read[k]
        ELSE [kind |-> "found", cur |-> read[k - 1].cur]

PositionSegment(o) ==
    [cursor |-> o + db[o].size, segmentEnd |-> After(o, db[o]), inWal |-> FALSE,
     readSequence |-> db[o].first]

\* The first answer that ends a search.
FirstAnswer(answers) ==
    LET stops == {n \in DOMAIN answers : answers[n] # Done}
    IN  IF stops = {} THEN Done ELSE answers[Min(stops)]

\* The linear part of a seek: segments 1..spanStart - 1 may be unordered.
SeekPrefix(from) ==
    LET start == SegmentStarts(db, DataStart, h.generation)
    IN  FirstAnswer([n \in 1..(h.spanStart - 1) |->
                        IF ReadSegment(db, start[n], h.dataEnd) = Bad THEN Bad
                        ELSE SeekFrames(PositionSegment(start[n]), from, db[start[n]].last)])

\* Mutant: a segment whose maximum is the bound is taken to end before it.
EndsBeforeOrAt(o, from) == db[o].maximum <= from

EndsBefore(o, from) == db[o].maximum < from

\* One halving of low..high; low is 0 once a segment cannot be found.
Halved(x, from) ==
    LET middle == x.low + (x.high - x.low) \div 2
        o      == SegmentAt(db, h.dataEnd, h.generation, h.lastSegment, middle)
    IN  IF x.low >= x.high THEN x
        ELSE IF o = 0 THEN [low |-> 0, high |-> 0]
        ELSE IF EndsBefore(o, from) THEN [low |-> middle + 1, high |-> x.high]
        ELSE [low |-> x.low, high |-> middle]

\* The binary part: the first segment of the ordered suffix that ends at or after from.
Halvings(from) ==
    LET x[k \in 0..(h.generation + 1)] ==
            IF k = 0 THEN [low |-> h.spanStart, high |-> h.generation + 1]
            ELSE Halved(x[k - 1], from)
    IN  x

BinarySearch(from) == Halvings(from)[h.generation + 1].low

\* The cursor at the start of segment low, or of the log past the last segment.
SuffixCursor(low) ==
    LET o == SegmentAt(db, h.dataEnd, h.generation, h.lastSegment, low)
    IN  IF low > h.generation
        THEN [ResetCursor EXCEPT !.inWal = TRUE, !.cursor = WalStart,
                                 !.readSequence = Wrap(h.installed + 1)]
        ELSE IF low = 0 \/ o = 0 THEN Bad ELSE PositionSegment(o)

SeekOn(start, from) == IF start = Bad THEN Bad ELSE SeekFrames(start, from, h.sequence)

SeekSuffix(from) == SeekOn(SuffixCursor(BinarySearch(from)), from)

\* timelite_batches_seek; on END the cursor is left at the end of the log (no
\* call uses segmentEnd of a cursor in the log, so its old value is not kept).
OrSuffix(prefix, from) == IF prefix = Done THEN SeekSuffix(from) ELSE prefix

SeekResult(from) == OrSuffix(SeekPrefix(from), from)

SeekTo(r) ==
    /\ ~h.failed
    /\ r # Bad
    /\ c' = IF r = Done THEN EndCursor(h, ResetCursor) ELSE r.cur
    /\ UNCHANGED <<db, wal, manifest, h>>

Seek(from) == SeekTo(SeekResult(from))

Matching(f, range) ==
    {i \in DOMAIN f.records :
        /\ f.records[i].time >= range.from /\ f.records[i].time < range.until
        /\ range.filter => f.records[i].series = range.series}

\* Mutant: an ordered log is taken to mean ordered segments.
OrderedSequenceAnySegment == IF h.walOrdered THEN 1 ELSE h.sequence

\* The sequence from which next_range takes the data to be in time order.
OrderedSequence ==
    LET o    == SegmentAt(db, h.dataEnd, h.generation, h.lastSegment, h.spanStart)
        last == IF h.retention THEN db[h.lastSegment].maximum ELSE h.installedTime
    IN  IF ~h.walOrdered THEN h.sequence
        ELSE IF h.spanStart > h.generation THEN Wrap(h.installed + 1)
        ELSE IF h.end = WalStart \/ h.walFirst >= last THEN db[o].first
        ELSE Wrap(h.installed + 1)

\* timelite_batches_next_range from a cursor: the next batch with a matching
\* record, and END at the end of the log or at a batch that starts past the
\* range within the part taken to be ordered.
NextRangeFrom(cur, range) ==
    LET read    == Reads(db, wal, h, cur)
        bound   == OrderedSequence
        past(f) == f.seq >= bound /\ h.walOrdered /\ FirstTimeOf(f) >= range.until
        k       == Min({j \in 2..Len(read) : \/ read[j].kind # "read"
                                             \/ Matching(read[j].frame, range) # {}
                                             \/ past(read[j].frame)})
    IN  IF range.from = range.until THEN Done
        ELSE IF read[k].kind = "read" /\ Matching(read[k].frame, range) = {} THEN Done
        ELSE read[k]

NextRange(range) ==
    LET r == NextRangeFrom(c, range)
    IN  /\ ~h.failed
        /\ r.kind = "read"
        /\ c' = r.cur
        /\ UNCHANGED <<db, wal, manifest, h>>

\* next_range over and over from a cursor, up to the call that delivers nothing.
AnswerLoop(cur, range) ==
    LET answers[k \in 0..(h.sequence + 1)] ==
            IF k = 0 THEN <<[kind |-> "read", frame |-> Bad, cur |-> cur]>>
            ELSE LET done == answers[k - 1]
                     last == done[Len(done)]
                 IN  IF last.kind # "read" THEN done
                     ELSE Append(done, NextRangeFrom(last.cur, range))
    IN  answers

Answers(cur, range) == AnswerLoop(cur, range)[h.sequence + 1]

\* A batch's matching values added to a count and the extremes.
Added(acc, f, range) ==
    LET values == {f.records[i].value : i \in Matching(f, range)}
        all    == values \cup IF acc.count = 0 THEN {} ELSE {acc.min, acc.max}
    IN  [count |-> acc.count + Cardinality(Matching(f, range)), min |-> Min(all), max |-> Max(all)]

\* The totals after each of n answers; the first of them is the start.
Totals(answer, n, range) ==
    LET total[k \in 0..n] == IF k = 0 THEN [count |-> 0, min |-> 0, max |-> 0]
                             ELSE Added(total[k - 1], answer[k + 1].frame, range)
    IN  total

TotalOf(answer, n, range) == IF answer[n + 2] = Done THEN Totals(answer, n, range)[n] ELSE Bad

Aggregated(answer, range) == TotalOf(answer, Len(answer) - 2, range)

\* timelite_batches_aggregate_range: the values next_range delivers from the
\* start, folded into a count and the extremes.
AggregateFrom(cur, range) == Aggregated(Answers(cur, range), range)

\* Mutant: the aggregation starts at the handle's cursor.
AggregateUnread(range) == AggregateFrom(c, range)

AggregateRange(range) == AggregateFrom(ResetCursor, range)

\* timelite-inspect status --dump --from-us on a fresh handle: a seek, then
\* next_range to its end.  A printed record is a sequence and an index.
DumpFrom(cur, range) ==
    LET answer == Answers(cur, range)
    IN  UNION {{<<answer[k].frame.seq, i>> : i \in Matching(answer[k].frame, range)} :
               k \in 2..(Len(answer) - 1)}

Dump(range) ==
    LET r == SeekResult(range.from)
    IN  IF r.kind # "found" THEN {} ELSE DumpFrom(r.cur, range)

------------------------------------------------------------------------------
(* Expiry. *)

\* The loop that finds the cursor's batch, or the first surviving one after it,
\* in the compacted file; a wrapped read sequence is past every batch.
Relocate(d, hd, wanted) ==
    LET read == Reads(d, wal, hd, ResetCursor)
        k    == Min({j \in 2..Len(read) : read[j].kind # "read" \/ read[j].frame.seq >= wanted})
    IN  IF wanted = 0 THEN EndCursor(hd, ResetCursor)
        ELSE IF read[k] = Done THEN EndCursor(hd, read[k - 1].cur)
        ELSE IF read[k] = Bad THEN Bad
        ELSE read[k - 1].cur

\* Keeps the part of a file from one offset up to another.
Cut(file, from, end) == [o \in {x \in DOMAIN file : x >= from /\ x < end} |-> file[o]]

\* The segments that survive a cutoff, copied past the data, and the room for it.
Survivors(cutoff) == CopySegments(db, DataStart, h.generation, cutoff, h.dataEnd)

HasRoom(out) == out.at <= DbCapacity

\* The copy made after the data is copied back to the start of the file.
CopiedBack(out) == CopySegments(out.file, h.dataEnd, out.n, 0, DataStart)

\* The manifest of the compacted file.
CompactManifest(back) ==
    [count |-> back.n, end |-> back.at, last |-> h.installed, time |-> h.installedTime,
     tail |-> back.previous, hasTime |-> TRUE, retain |-> TRUE]

\* The handle and the cursor move to the compacted file once it is checked.
Compact(file, m, checked) ==
    LET hd    == [h EXCEPT !.generation = m.count, !.retention = TRUE, !.dataEnd = m.end,
                           !.lastSegment = m.tail, !.spanStart = checked.span]
        found == Relocate(file, hd, c.readSequence)
    IN  /\ db' = file
        /\ manifest' = m
        /\ wal' = wal
        /\ IF checked.ok /\ found # Bad
           THEN h' = hd /\ c' = found
           ELSE h' = [h EXCEPT !.failed = TRUE] /\ c' = c

CompactTo(file, m) == Compact(file, m, CheckSegments(file, m))

ExpireTo(back) == CompactTo(Cut(back.file, DataStart, back.at), CompactManifest(back))

ExpireBefore(cutoff) ==
    LET out == Survivors(cutoff)
    IN  /\ ~h.failed
        /\ out.n # h.generation
        /\ HasRoom(out)
        /\ ExpireTo(CopiedBack(out))

------------------------------------------------------------------------------
(* The refinement mapping. *)

\* The batches of the first n segments in commit order, found by walking them.
Gathered(d, n) ==
    LET start == SegmentStarts(d, DataStart, n)
        frames[k \in 0..n] == IF k = 0 THEN <<>> ELSE frames[k - 1] \o SegmentFrames(d, start[k])
    IN  frames

\* All batches; a handle that has failed knows no segments to walk.
LiveBatches(d, w, hd) ==
    IF hd.failed THEN <<Bad>>
    ELSE Gathered(d, hd.generation)[hd.generation]
         \o FramesFrom(w, WalStart, hd.end, hd.installed + 1)

\* The batches a cursor has yet to deliver, found by reading from it.
Drain(d, w, hd, cur) ==
    LET read == Reads(d, w, hd, cur)
        n    == Len(read)
    IN  IF hd.failed THEN <<Bad>>
        ELSE [k \in 1..(n - 2) |-> read[k + 1].frame] \o IF read[n] = Done THEN <<>> ELSE <<Bad>>

------------------------------------------------------------------------------
(* A database a release before time order has written: its batches in any   *)
(* order of time, some installed under old headers, the others in the log.  *)

\* Where the frames of n batches would end if they were stored without headers.
Sizes(inputs, n) ==
    LET size[i \in 0..n] == IF i = 0 THEN 0 ELSE size[i - 1] + Len(inputs[i])
    IN  size

\* The file that holds the given items at the given offsets.
Placed(items, at) ==
    [o \in {at[i] : i \in DOMAIN items} |-> items[CHOOSE i \in DOMAIN items : at[i] = o]]

\* The items of one file and, at the other offsets, those of another.
Over(f, g) == [o \in DOMAIN f \cup DOMAIN g |-> IF o \in DOMAIN f THEN f[o] ELSE g[o]]

\* Segment k holds the batches after cut[k - 1] up to cut[k].
Owner(cut, g, i) == CHOOSE k \in 1..g : cut[k - 1] < i /\ i <= cut[k]

LegacyDb(frames, size, cut, g) ==
    Over(Placed([k \in 1..g |-> OldSegment(cut[k - 1] + 1, cut[k], size[cut[k]] - size[cut[k - 1]])],
                [k \in 1..g |-> DataStart + size[cut[k - 1]] + (k - 1)]),
         Placed([i \in 1..cut[g] |-> frames[i]],
                [i \in 1..cut[g] |-> DataStart + size[i - 1] + Owner(cut, g, i)]))

LegacyWal(frames, size, n, last) ==
    Placed([i \in (last + 1)..n |-> frames[i]],
           [i \in (last + 1)..n |-> WalStart + size[i - 1] - size[last]])

Legacy(n, inputs, g, cut) ==
    LET frames == [i \in 1..n |-> Frame(i, inputs[i])]
        size   == Sizes(inputs, n)
    IN  /\ db = LegacyDb(frames, size, cut, g)
        /\ wal = LegacyWal(frames, size, n, cut[g])
        /\ manifest = [count |-> g, end |-> DataStart + size[cut[g]] + g, last |-> cut[g],
                       time |-> 0, tail |-> 0, hasTime |-> FALSE, retain |-> FALSE]

Init ==
    /\ \E n \in 0..LegacyMax : \E inputs \in [1..n -> LegacyInputs] : \E g \in 0..n :
       \E cut \in [0..g -> 0..n] :
          /\ cut[0] = 0 /\ \A k \in 1..g : cut[k - 1] < cut[k]
          /\ Legacy(n, inputs, g, cut)
    /\ manifest.end <= DbCapacity /\ WalEnd(wal) <= WalCapacity
    /\ h = Opened(db, wal, manifest)
    /\ c = ResetCursor
    /\ live = LiveBatches(db, wal, h)
    /\ unread = Drain(db, wal, h, c)

Writing ==
    \/ \E records \in Inputs : AppendBatch(records)
    \/ Checkpoint
    \/ \E t \in Cutoffs : ExpireBefore(t)
    \/ Reopen

Reading ==
    \/ NextBatch
    \/ Rewind
    \/ \E t \in Times : Seek(t)
    \/ \E range \in Ranges : NextRange(range)

Mapped == /\ live' = LiveBatches(db', wal', h')
          /\ unread' = Drain(db', wal', h', c')

Next == (Writing \/ Reading) /\ Mapped

Spec == Init /\ [][Next]_vars

\* The application that only writes: many segments and the cursor at the start.
IndexSpec == Init /\ [][Writing /\ Mapped]_vars

------------------------------------------------------------------------------
(* Properties. *)

CursorType == [cursor : Nat, segmentEnd : Nat, inWal : BOOLEAN, readSequence : 0..SeqMax]

\* Every field of the state stays in its domain.
TypeOK ==
    /\ \A o \in DOMAIN db : o \in DataStart..(DbCapacity - 1) /\ db[o].kind \in {"segment", "frame"}
    /\ \A o \in DOMAIN wal : o \in WalStart..(WalCapacity - 1) /\ wal[o].kind = "frame"
    /\ h.sequence \in 0..SeqMax /\ h.installed \in 0..h.sequence
    /\ h.dataEnd \in DataStart..DbCapacity /\ h.end \in WalStart..WalCapacity
    /\ h.lastTime \in Times /\ h.installedTime \in Times
    /\ c \in CursorType

\* segment_at reaches the segment of every number, through links written by
\* checkpoints and rewritten by expiries, exactly as a walk from the start does.
IndexFindsSegments ==
    LET start == SegmentStarts(db, DataStart, h.generation)
    IN  /\ ~h.failed
        /\ start[h.generation + 1] = h.dataEnd
        /\ \A n \in 1..h.generation :
              SegmentAt(db, h.dataEnd, h.generation, h.lastSegment, n) = start[n]

\* What the handle keeps between calls about order (the start of the ordered
\* suffix, the log's first, least and greatest time, whether it is ordered, the
\* last times, the last segment) is what an open computes from the files.
OrderMatchesReopen ==
    LET now(hd) == IF h.end # WalStart THEN hd
                   ELSE [hd EXCEPT !.walFirst = 0, !.walMin = 0, !.walMax = 0]
    IN  now(Opened(db, wal, manifest)) = now(h)

\* seek finds the first batch, in commit order, whose last record is not older
\* than the given time, and END exactly when there is none.
SeekExact ==
    \A t \in Times :
        LET r == SeekResult(t)
            hits == {i \in DOMAIN live : LastTimeOf(live[i]) >= t}
        IN  IF hits = {} THEN r = Done
            ELSE r.kind = "found" /\ Drain(db, wal, h, r.cur) = SubSeq(live, Min(hits), Len(live))

\* The sequence after the installed ones, which next_range takes the order to
\* start at, does not exist and is 0 instead: a query may then end at an
\* unordered batch past its range and miss a later one.
BoundWraps == h.installed = SeqMax /\ h.spanStart > h.generation

\* next_range delivers the first unread batch that has a record in the range,
\* and ends early only where no unread batch has one.
RangeComplete ==
    ~BoundWraps =>
    \A range \in Ranges :
        LET r == NextRangeFrom(c, range)
            hits == {i \in DOMAIN unread : Matching(unread[i], range) # {}}
        IN  IF hits = {} THEN r = Done
            ELSE r.kind = "read" /\ r.frame = unread[Min(hits)]

\* aggregate_range counts every live record in the range once and returns the
\* least and the greatest value among them, wherever the cursor is.
AggregateExact ==
    ~BoundWraps =>
    \A range \in Ranges :
        LET at == UNION {{i} \X Matching(live[i], range) : i \in DOMAIN live}
            values == {live[x[1]].records[x[2]].value : x \in at}
        IN  AggregateRange(range) =
                IF at = {} THEN [count |-> 0, min |-> 0, max |-> 0]
                ELSE [count |-> Cardinality(at), min |-> Min(values), max |-> Max(values)]

\* The README of the inspect tool: --from-us, --until-us and --series filter the
\* dump, so the records printed are the live ones in the window.
DumpFilters ==
    ~BoundWraps =>
    \A range \in Ranges :
        Dump(range) = UNION {{<<live[i].seq, k>> : k \in Matching(live[i], range)} :
                             i \in DOMAIN live}

\* Checkpoints, expiries, appends and seeks move the cursor and the data under
\* it so that no reader sees a batch twice, misses one or meets an error.
Cursor == INSTANCE BatchCursor WITH
              Frames <- {Frame(n, r) : n \in 1..SeqMax, r \in Inputs \cup LegacyInputs}

ImplementsCursor == Cursor!Spec

\* A checkpoint moves batches from the log under the cursor into a new segment:
\* the application sees neither the data nor its place in them change, not by a
\* single batch, which the cursor of ImplementsCursor may move by a read.
CheckpointKeepsPlace == [][Checkpoint => UNCHANGED <<live, unread>>]_vars
==============================================================================
