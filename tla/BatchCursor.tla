----------------------------- MODULE BatchCursor -----------------------------
(***************************************************************************)
(* What the readers of a batch database promise: the live batches in       *)
(* commit order, and the ones the cursor has yet to deliver.  Batches are  *)
(* frames of module SegmentIndex; nothing here knows about files, offsets, *)
(* checkpoints or the log.                                                 *)
(***************************************************************************)
EXTENDS Naturals, Sequences

CONSTANTS Frames, Times, Ranges, Matching(_, _)

VARIABLES live, unread

LastTime(f) == f.records[Len(f.records)].time
Older(f, t) == \A i \in DOMAIN f.records : f.records[i].time < t

From(s, i) == SubSeq(s, i, Len(s))

Holds(s, f)  == \E i \in DOMAIN s : s[i] = f
Ascending(s) == \A i, j \in DOMAIN s : i < j => s[i].seq < s[j].seq

Init == live \in Seq(Frames) /\ Ascending(live) /\ unread = live

Commit ==
    \E f \in Frames : /\ \A i \in DOMAIN live : live[i].seq < f.seq
                      /\ live' = Append(live, f)
                      /\ unread' = Append(unread, f)

Next ==
    /\ unread # <<>>
    /\ unread' = Tail(unread)
    /\ live' = live

\* The next batch with a record in the range; the ones before it are skipped.
NextRange(range) ==
    \E i \in DOMAIN unread :
        /\ Matching(unread[i], range) # {}
        /\ \A j \in 1..(i - 1) : Matching(unread[j], range) = {}
        /\ unread' = From(unread, i + 1)
        /\ live' = live

\* The first batch whose last record is not older than the given time.
Seek(t) ==
    /\ \E i \in 1..(Len(live) + 1) :
          /\ i <= Len(live) => LastTime(live[i]) >= t
          /\ \A j \in 1..(i - 1) : LastTime(live[j]) < t
          /\ unread' = From(live, i)
    /\ live' = live

Rewind ==
    /\ unread' = live
    /\ live' = live

\* Only batches with no record at or after the cutoff go, the others stay in
\* order, and the cursor keeps its place among them.
Expire(cutoff) ==
    /\ live' \in Seq(Frames) /\ Ascending(live')
    /\ \A i \in DOMAIN live' : Holds(live, live'[i])
    /\ \A i \in DOMAIN live : Older(live[i], cutoff) \/ Holds(live', live[i])
    /\ unread' \in Seq(Frames) /\ Ascending(unread')
    /\ \A f \in Frames : Holds(unread', f) <=> Holds(unread, f) /\ Holds(live', f)

Step ==
    \/ Commit \/ Next \/ Rewind
    \/ \E t \in Times : Seek(t)
    \/ \E range \in Ranges : NextRange(range)
    \/ \E t \in Times : Expire(t)

Spec == Init /\ [][Step]_<<live, unread>>
==============================================================================
