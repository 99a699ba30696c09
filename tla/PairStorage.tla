----------------------------- MODULE PairStorage -----------------------------
(***************************************************************************)
(* The storage under the batch database: writes and truncations change the *)
(* cached image of a file, a sync makes it the durable one, and whatever a *)
(* call had not synced when it failed or the machine stopped may have      *)
(* reached the disk, or not, or in part.  What was synced is never damaged *)
(* outside the range a later write covers, and names survive once their    *)
(* directory was synced by provisioning.                                   *)
(***************************************************************************)
EXTENDS PairFormat

\* What a read at offset x finds; past the last unit, nothing that validates.
Unit(d, x) == IF x \in Offsets THEN d.cell[x] ELSE Junk

\* A write of the units image (a function on a range of offsets).
WriteCells(d, end, image) ==
    [d EXCEPT !.size = IF end > d.size THEN end ELSE d.size,
              !.cell = [o \in Offsets |-> IF o \in DOMAIN image THEN image[o] ELSE d.cell[o]]]

WriteSlot(d, r, m) == [d EXCEPT !.slot[r % 2] = m]

TruncateDb(d, size) ==
    [d EXCEPT !.size = size,
              !.cell = [o \in Offsets |-> IF o < size THEN d.cell[o] ELSE Junk]]

\* Only what lies inside a file of this size exists.
Settle(d) ==
    IF d.header # "valid" THEN BareDb(d.header)
    ELSE [TruncateDb(d, d.size) EXCEPT
            !.slot = [i \in {0, 1} |-> IF d.size = 0 \/ (i = 1 /\ d.size < DataStart)
                                       THEN NoManifest ELSE d.slot[i]]]

\* An overwritten unit that cannot be torn undetected: old, new, or refused.
Torn(old, new, refused) == IF old = new THEN {new} ELSE {old, new, refused}

DirtyCells(d, c) == {o \in Offsets : d.cell[o] # c.cell[o]}

\* Of an unsynced growth or overwrite any part may survive; the units that do
\* not are what they were, or garbage inside the grown file.
Survivals(d, c) ==
    [header : Torn(d.header, c.header, "short"), size : d.size..c.size,
     slot0 : Torn(d.slot[0], c.slot[0], NoManifest),
     slot1 : Torn(d.slot[1], c.slot[1], NoManifest),
     lost : SUBSET DirtyCells(d, c), old : BOOLEAN]

Survivor(d, c, v) ==
    [header |-> v.header, size |-> v.size,
     slot |-> [i \in {0, 1} |-> IF i = 0 THEN v.slot0 ELSE v.slot1],
     cell |-> [o \in Offsets |-> IF o \notin v.lost THEN c.cell[o]
                                 ELSE IF v.old THEN d.cell[o] ELSE Junk]]

PartialWrites(d, c) == {Settle(Survivor(d, c, v)) : v \in Survivals(d, c)}

\* A truncation happens or does not.
DbOutcomes(d, c) == IF c.size < d.size \/ c = d THEN {d, c} ELSE PartialWrites(d, c)

\* The log only grows at its end, by a prefix of the frame being written, and
\* truncation cuts whole frames.
WalOutcomes(d, c) ==
    {d, c} \cup (IF d.header # c.header THEN {NewWal("short")} ELSE {})
           \cup (IF Len(c.frames) = Len(d.frames) + 1
                 THEN {[c EXCEPT !.frames[Len(c.frames)].state = "short"]} ELSE {})
==============================================================================
