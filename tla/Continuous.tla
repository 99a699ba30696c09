----------------------------- MODULE Continuous -----------------------------
(***************************************************************************)
(* The policy of examples/continuous.c around a batch database that fills  *)
(* up: a full log is checkpointed and the append tried once more, a full   *)
(* database is exported up to a cutoff, expired before that cutoff and     *)
(* checkpointed once more.  Every call of the library is one step, with    *)
(* the handle, the files and the cursor of module BatchReader under it, so *)
(* that the export really reads with seek and next_range what the expiry   *)
(* then really deletes.                                                    *)
(***************************************************************************)
EXTENDS BatchReader

VARIABLES
    pc,         \* the library call the policy makes next
    goal,       \* the policy function the application called
    request,    \* the records to append
    cut,        \* cutoff_us
    exported    \* <<sequence, index>> of the records printed by the export

policy == <<pc, goal, request, cut, exported>>

allvars == <<vars, policy>>

\* The pair that is opened may come from a release without time order.
PolicyInit ==
    /\ Init
    /\ pc = "ready" /\ goal = "append" /\ request = <<>> /\ cut = 0
    /\ exported = {}

\* The application calls a policy function.
CallPolicy(g, records, t) ==
    /\ pc = "ready"
    /\ pc' = CASE g = "append" -> "append" [] g = "checkpoint" -> "checkpoint" [] OTHER -> "seek"
    /\ goal' = g /\ request' = records /\ cut' = t
    /\ UNCHANGED <<vars, exported>>

To(next) == pc' = next /\ UNCHANGED <<goal, request, cut>>

\* The policy function returns, with or without an error.
Returned == pc' = "ready" /\ goal' = "append" /\ request' = <<>> /\ cut' = 0

\* append_with_policy: append, and once more after a checkpoint.
PolicyAppend ==
    /\ pc \in {"append", "again"}
    /\ \/ /\ AppendBatch(request) /\ Mapped
          /\ Returned
       \/ /\ InOrder(request) /\ ~Fits(Frame(h.sequence + 1, request))
          /\ IF pc = "append" THEN To("checkpoint") ELSE Returned
          /\ UNCHANGED vars
       \/ /\ ~InOrder(request) \/ (Fits(Frame(h.sequence + 1, request)) /\ h.sequence = SeqMax)
          /\ Returned
          /\ UNCHANGED vars
    /\ UNCHANGED exported

Installed == IF goal = "append" THEN To("again") ELSE Returned

\* checkpoint_with_policy: the first checkpoint and the one after the expiry.
PolicyCheckpoint ==
    /\ pc \in {"checkpoint", "recheck"}
    /\ \/ Checkpoint /\ Mapped /\ Installed
       \/ h.end = WalStart /\ Installed /\ UNCHANGED vars
       \/ /\ h.end # WalStart /\ h.end - WalStart + 2 > DbCapacity - h.dataEnd
          /\ IF pc = "checkpoint" THEN To("seek") ELSE Returned
          /\ UNCHANGED vars
    /\ UNCHANGED exported

\* Mutant: the range of the export ends before the cutoff.
ExportedRangeShort == [from |-> 0, until |-> IF cut = 0 THEN 0 ELSE cut - 1,
                       filter |-> FALSE, series |-> 0]

ExportedRange == [from |-> 0, until |-> cut, filter |-> FALSE, series |-> 0]

\* export_before_delete: from the first batch on, wherever the cursor was.
ExportSeek ==
    /\ pc = "seek"
    /\ Seek(0) /\ Mapped
    /\ To(IF SeekResult(0) = Done THEN "expire" ELSE "export")
    /\ UNCHANGED exported

ExportNext ==
    LET r == NextRangeFrom(c, ExportedRange)
    IN  /\ pc = "export"
        /\ \/ /\ r.kind = "read"
              /\ NextRange(ExportedRange) /\ Mapped
              /\ exported' = exported \cup
                     {<<r.frame.seq, i>> : i \in Matching(r.frame, ExportedRange)}
              /\ To("export")
           \/ r = Done /\ To("expire") /\ UNCHANGED <<vars, exported>>

\* Expiry; nothing may expire, or the survivors have no room to be copied to.
PolicyExpire ==
    /\ pc = "expire"
    /\ \/ ExpireBefore(cut) /\ Mapped
          /\ (IF goal = "expire" THEN Returned ELSE To("recheck"))
       \/ /\ Survivors(cut).n = h.generation
          /\ (IF goal = "expire" THEN Returned ELSE To("recheck"))
          /\ UNCHANGED vars
       \/ /\ Survivors(cut).n # h.generation /\ ~HasRoom(Survivors(cut))
          /\ Returned
          /\ UNCHANGED vars
    /\ UNCHANGED exported

\* Between policy calls the application reads on, or reopens the pair.
Application ==
    /\ pc = "ready"
    /\ NextBatch \/ Rewind \/ Reopen
    /\ Mapped
    /\ UNCHANGED policy

PolicyNext ==
    \/ \E records \in Inputs, t \in Cutoffs : CallPolicy("append", records, t)
    \/ \E g \in {"checkpoint", "expire"}, t \in Cutoffs : CallPolicy(g, <<>>, t)
    \/ PolicyAppend \/ PolicyCheckpoint \/ ExportSeek \/ ExportNext \/ PolicyExpire
    \/ Application

PolicySpec == PolicyInit /\ [][PolicyNext]_allvars

\* What an expiry removes was exported to the last record: next_range reaches
\* every record of the segments that expire_before finds old enough, past the
\* unordered segments of an old release too.
ExportedBeforeDeleted ==
    [][\A i \in DOMAIN live :
           (\A j \in DOMAIN live' : live'[j] # live[i]) =>
               \A k \in DOMAIN live[i].records : <<live[i].seq, k>> \in exported]_allvars
=============================================================================
