-------------------------- MODULE FileTransferProofs --------------------------
(***************************************************************************)
(* The transfer loops are right for requests, files and chunks of any      *)
(* size.  The invariant adds to the properties where the loop stands: the  *)
(* request fits below INT64_MAX, something of it is left, and the position *)
(* of a Windows handle is where the POSIX loop would name it.              *)
(***************************************************************************)
EXTENDS FileTransfer, TLAPS

LoopRange ==
    pc \in {"seek", "transfer"} =>
        /\ op.kind # "truncate"
        /\ ~Overflows(op.offset, op.length)
        /\ transferred < op.length
        /\ pc = "seek" => transferred = 0

Aligned == pc = "transfer" => Place = op.offset + transferred

\* While Windows grows a file.
Growing ==
    pc \in {"extendSeek", "extend"} =>
        /\ op.kind = "truncate"
        /\ size < op.offset /\ op.offset <= OffsetMax
        /\ size = before.size /\ content = before.content
        /\ pc = "extend" => position = op.offset - 1

TransferInv ==
    /\ TypeOK
    /\ LoopRange
    /\ Aligned
    /\ Growing
    /\ TailIsZero
    /\ ReadsWhatIsThere
    /\ WritesItsPrefix
    /\ TruncatesToSize

\* The idle operation is one.
LEMMA NoOperationType ==
    /\ NoOperation \in Operation
    /\ NoOperation.bytes \in Contents
    /\ \A i \in Position : NoOperation.bytes[i] = Zero
  BY TransferAssumption DEF NoOperation, Operation, Kind, Contents, Position

\* Before the first call.
LEMMA InitTransfer == Init => TransferInv
<1> SUFFICES ASSUME Init PROVE TransferInv
  OBVIOUS
<1> USE TransferAssumption, NoOperationType DEF Init
<1>1. /\ op.kind = "read" /\ op.length = 0 /\ op.offset = 0
      /\ op \in Operation /\ buffer \in Contents
  BY DEF NoOperation
<1>2. content \in Contents /\ TailIsZero
  BY DEF TailIsZero
<1>3. TypeOK
  BY <1>1, <1>2 DEF TypeOK
<1>4. LoopRange /\ Aligned /\ Growing
  BY DEF LoopRange, Aligned, Growing
<1>5. ReadsWhatIsThere /\ WritesItsPrefix /\ TruncatesToSize
  BY <1>1 DEF ReadsWhatIsThere, WritesItsPrefix, TruncatesToSize, Position
<1> QED BY <1>2, <1>3, <1>4, <1>5 DEF TransferInv

\* check_transfer admits only requests that end at or before INT64_MAX.
LEMMA BeginKeeps ==
  ASSUME TransferInv, NEW o \in Request, Begin(o)
  PROVE  TransferInv'
<1> USE TransferAssumption DEF TransferInv, Begin, Return
<1>1. o \in Operation
  BY DEF Request
<1>2. TypeOK'
  BY <1>1, NoOperationType DEF TypeOK
<1>3. LoopRange' /\ Growing'
  BY <1>1, <1>2 DEF LoopRange, Growing, Overflows, TypeOK, Operation
<1>4. Aligned'
  BY <1>1 DEF Aligned, Place, Operation
<1>5. TailIsZero' /\ TruncatesToSize'
  BY DEF TailIsZero, TruncatesToSize
<1>6. ReadsWhatIsThere'
  BY <1>1 DEF ReadsWhatIsThere, Reading, TypeOK, Operation, Position
<1>7. WritesItsPrefix'
  BY <1>1 DEF WritesItsPrefix, TypeOK, Operation, Contents, Position
<1> QED BY <1>2, <1>3, <1>4, <1>5, <1>6, <1>7

\* seek_file puts the position where the first chunk belongs.
LEMMA SeekFileKeeps == TransferInv /\ SeekFile => TransferInv'
  BY TransferAssumption
  DEF TransferInv, SeekFile, Return, TypeOK, LoopRange, Aligned, Growing, TailIsZero, Place, Overflows,
      ReadsWhatIsThere, WritesItsPrefix, Failed, TruncatesToSize, Reading, Operation, Kind

\* A chunk of a read extends the filled part of the buffer.
LEMMA ReadSomeKeeps ==
  ASSUME TransferInv, NEW n \in 1 .. ChunkMax, ReadSome(n)
  PROVE  TransferInv'
<1> USE TransferAssumption DEF TransferInv, ReadSome
<1>1. /\ op.offset \in Nat /\ op.length \in Nat /\ transferred \in Nat /\ size \in Nat
      /\ op.offset + op.length <= OffsetMax /\ transferred < op.length
      /\ Place = op.offset + transferred /\ n <= op.length - transferred
      /\ Place + n <= size /\ size <= OffsetMax /\ n \in Nat
  BY DEF TypeOK, Operation, LoopRange, Overflows, Aligned, Count
<1>2. /\ transferred' = transferred + n
      /\ pc' \in {"transfer", "idle"}
      /\ pc' = "transfer" => transferred' < op.length
      /\ pc' = "idle" => result' = "ok" /\ transferred' = op.length
  BY <1>1 DEF Continue, Return
<1>3. buffer' \in Contents
  <2>1. ASSUME NEW i \in Position, transferred <= i, i < transferred + n
        PROVE  content[Place + (i - transferred)] \in Byte
    <3>1. Place + (i - transferred) \in Position
      BY <1>1, <2>1 DEF Position
    <3> QED BY <3>1 DEF TypeOK, Contents
  <2>2. \A i \in Position : buffer[i] \in Byte
    BY DEF TypeOK, Contents
  <2> QED BY <2>1, <2>2 DEF Fill, Contents
<1>4. TypeOK'
  <2>1. position' \in 0 .. OffsetMax
    BY <1>1 DEF Moved, TypeOK, Place
  <2> QED BY <1>1, <1>2, <1>3, <2>1 DEF TypeOK, Continue, Return, Operation
<1>5. LoopRange' /\ Growing' /\ TailIsZero' /\ WritesItsPrefix' /\ TruncatesToSize'
  BY <1>1, <1>2 DEF LoopRange, Growing, TailIsZero, WritesItsPrefix, TruncatesToSize, Reading, Overflows
<1>6. Aligned'
  BY <1>1, <1>2 DEF Aligned, Place, Moved
<1>7. ReadsWhatIsThere'
  <2>1. \A i \in Position : i < transferred' => buffer'[i] = content[op.offset + i]
    <3> SUFFICES ASSUME NEW i \in Position, i < transferred' PROVE buffer'[i] = content[op.offset + i]
      OBVIOUS
    <3>1. i \in Nat
      BY DEF Position
    <3>2. CASE i < transferred
      BY <1>1, <3>1, <3>2 DEF Fill, ReadsWhatIsThere
    <3>3. CASE i >= transferred
      <4>1. buffer'[i] = content[Place + (i - transferred)]
        BY <1>1, <1>2, <3>1, <3>3 DEF Fill
      <4>2. Place + (i - transferred) = op.offset + i
        BY <1>1, <3>1, <3>3
      <4> QED BY <4>1, <4>2
    <3> QED BY <1>1, <3>1, <3>2, <3>3
  <2> QED BY <1>1, <1>2, <2>1 DEF ReadsWhatIsThere, Reading
<1> QED BY <1>4, <1>5, <1>6, <1>7

\* A chunk of a write extends the written prefix.
LEMMA WriteSomeKeeps ==
  ASSUME TransferInv, NEW n \in 1 .. ChunkMax, WriteSome(n)
  PROVE  TransferInv'
<1> USE TransferAssumption DEF TransferInv, WriteSome
<1>1. /\ op.offset \in Nat /\ op.length \in Nat /\ transferred \in Nat /\ size \in Nat
      /\ op.offset + op.length <= OffsetMax /\ transferred < op.length
      /\ Place = op.offset + transferred /\ n <= op.length - transferred
      /\ size <= OffsetMax /\ n \in Nat
  BY DEF TypeOK, Operation, LoopRange, Overflows, Aligned, Count
<1>2. /\ transferred' = transferred + n
      /\ pc' \in {"transfer", "idle"}
      /\ pc' = "transfer" => transferred' < op.length
      /\ pc' = "idle" => result' = "ok" /\ transferred' = op.length
  BY <1>1 DEF Continue, Return
<1>3. content' \in Contents
  <2>1. ASSUME NEW i \in Position, Place <= i, i < Place + n
        PROVE  op.bytes[transferred + (i - Place)] \in Byte
    <3>1. transferred + (i - Place) \in Position
      BY <1>1, <2>1 DEF Position
    <3> QED BY <3>1 DEF TypeOK, Operation, Contents
  <2>2. \A i \in Position : content[i] \in Byte
    BY DEF TypeOK, Contents
  <2> QED BY <2>1, <2>2 DEF Overlay, Contents
<1>4. TypeOK'
  <2>1. position' \in 0 .. OffsetMax
    BY <1>1 DEF Moved, TypeOK, Place
  <2>2. size' \in 0 .. OffsetMax
    BY <1>1
  <2> QED BY <1>1, <1>2, <1>3, <2>1, <2>2 DEF TypeOK, Continue, Return, Operation
<1>5. LoopRange' /\ Growing' /\ ReadsWhatIsThere' /\ TruncatesToSize'
  BY <1>1, <1>2 DEF LoopRange, Growing, ReadsWhatIsThere, TruncatesToSize, Reading, Overflows
<1>6. Aligned'
  BY <1>1, <1>2 DEF Aligned, Place, Moved
<1>7. TailIsZero'
  BY <1>1 DEF TailIsZero, Overlay, Position
<1>8. WritesItsPrefix'
  <2>1. \A i \in Position : content'[i] = IF op.offset <= i /\ i < op.offset + transferred'
                                            THEN op.bytes[i - op.offset] ELSE before.content[i]
    <3> SUFFICES ASSUME NEW i \in Position
                 PROVE  content'[i] = IF op.offset <= i /\ i < op.offset + transferred'
                                        THEN op.bytes[i - op.offset] ELSE before.content[i]
      OBVIOUS
    <3>1. i \in Nat
      BY DEF Position
    <3>2. content[i] = IF op.offset <= i /\ i < op.offset + transferred
                         THEN op.bytes[i - op.offset] ELSE before.content[i]
      BY <3>1 DEF WritesItsPrefix, Failed
    <3>3. CASE Place <= i /\ i < Place + n
      <4>1. content'[i] = op.bytes[transferred + (i - Place)]
        BY <3>3 DEF Overlay
      <4>2. transferred + (i - Place) = i - op.offset
        BY <1>1, <3>1, <3>3
      <4> QED BY <1>1, <1>2, <3>1, <3>3, <4>1, <4>2
    <3>4. CASE ~(Place <= i /\ i < Place + n)
      <4>1. content'[i] = content[i]
        BY <3>4 DEF Overlay
      <4> QED BY <1>1, <1>2, <3>1, <3>2, <3>4, <4>1
    <3> QED BY <3>3, <3>4
  <2> QED BY <1>2, <2>1 DEF WritesItsPrefix
<1> QED BY <1>4, <1>5, <1>6, <1>7, <1>8

\* A call that moves nothing: end of file, no progress.
LEMMA NothingMoved ==
  ASSUME TransferInv, ReadEnd \/ WriteNone
  PROVE  TransferInv'
<1> USE TransferAssumption DEF TransferInv
<1>1. /\ pc = "transfer" /\ pc' = "idle"
      /\ UNCHANGED <<content, size, op, buffer, transferred, before, windows>>
      /\ result' \in {"ok", "EIO", "INVALID_DATABASE"}
      /\ position' \in 0 .. OffsetMax
      /\ result' = "ok" => op.kind = "read" /\ Place >= size
  BY DEF ReadEnd, WriteNone, Return, TypeOK, Reading
<1>2. TypeOK' /\ LoopRange' /\ Aligned' /\ Growing' /\ TailIsZero'
  BY <1>1 DEF TypeOK, LoopRange, Aligned, Growing, TailIsZero
<1>3. ReadsWhatIsThere'
  BY <1>1 DEF ReadsWhatIsThere, Reading, Aligned
<1>4. WritesItsPrefix' /\ TruncatesToSize'
  BY <1>1 DEF WritesItsPrefix, Failed, TruncatesToSize, LoopRange
<1> QED BY <1>2, <1>3, <1>4

\* A failing call may have filled a part of the buffer that is not reported, or
\* have written a part of its chunk.
LEMMA TransferFailsKeeps ==
  ASSUME TransferInv, TransferFails
  PROVE  TransferInv'
<1> USE TransferAssumption DEF TransferInv
<1>1. /\ pc = "transfer" /\ pc' = "idle" /\ result' = "error"
      /\ UNCHANGED <<op, transferred, before, windows>>
      /\ position' \in 0 .. OffsetMax
  BY DEF TransferFails, Return, TypeOK
<1>2. PICK n \in 0 .. Count :
         \/ /\ Reading /\ (n = 0 \/ Place + n <= size)
            /\ Fill(n)
            /\ UNCHANGED <<content, size>>
         \/ /\ op.kind = "write"
            /\ Overlay(n)
            /\ size' = IF n > 0 /\ Place + n > size THEN Place + n ELSE size
            /\ UNCHANGED buffer
  BY DEF TransferFails
<1>3. /\ op.offset \in Nat /\ op.length \in Nat /\ transferred \in Nat /\ size \in Nat
      /\ op.offset + op.length <= OffsetMax /\ transferred < op.length
      /\ Place = op.offset + transferred /\ n <= op.length - transferred /\ n <= ChunkMax
      /\ size <= OffsetMax /\ n \in Nat
  BY <1>1, <1>2 DEF TypeOK, Operation, LoopRange, Overflows, Aligned, Count
<1>4. LoopRange' /\ Aligned' /\ Growing' /\ TruncatesToSize'
  BY <1>1 DEF LoopRange, Aligned, Growing, TruncatesToSize
<1>5. CASE Reading /\ (n = 0 \/ Place + n <= size) /\ Fill(n) /\ UNCHANGED <<content, size>>
  <2>1. buffer' \in Contents
    <3>1. ASSUME NEW i \in Position, transferred <= i, i < transferred + n
          PROVE  content[Place + (i - transferred)] \in Byte
      <4>1. Place + (i - transferred) \in Position
        BY <1>3, <1>5, <3>1 DEF Position
      <4> QED BY <4>1 DEF TypeOK, Contents
    <3>2. \A i \in Position : buffer[i] \in Byte
      BY DEF TypeOK, Contents
    <3> QED BY <1>5, <3>1, <3>2 DEF Fill, Contents
  <2>2. TypeOK' /\ TailIsZero'
    BY <1>1, <1>5, <2>1 DEF TypeOK, TailIsZero
  <2>3. \A i \in Position : i < transferred => buffer'[i] = buffer[i]
    BY <1>3, <1>5 DEF Fill, Position
  <2>4. ReadsWhatIsThere' /\ WritesItsPrefix'
    BY <1>1, <1>5, <2>3 DEF ReadsWhatIsThere, WritesItsPrefix, Reading
  <2> QED BY <1>4, <2>2, <2>4
<1>6. CASE /\ op.kind = "write" /\ Overlay(n) /\ UNCHANGED buffer
           /\ size' = IF n > 0 /\ Place + n > size THEN Place + n ELSE size
  <2>1. content' \in Contents
    <3>1. ASSUME NEW i \in Position, Place <= i, i < Place + n
          PROVE  op.bytes[transferred + (i - Place)] \in Byte
      <4>1. transferred + (i - Place) \in Position
        BY <1>3, <3>1 DEF Position
      <4> QED BY <4>1 DEF TypeOK, Operation, Contents
    <3>2. \A i \in Position : content[i] \in Byte
      BY DEF TypeOK, Contents
    <3> QED BY <1>6, <3>1, <3>2 DEF Overlay, Contents
  <2>2. TypeOK'
    <3>1. size' \in 0 .. OffsetMax
      BY <1>3, <1>6
    <3> QED BY <1>1, <1>6, <2>1, <3>1 DEF TypeOK
  <2>3. TailIsZero'
    BY <1>3, <1>6 DEF TailIsZero, Overlay, Position
  <2>4. ReadsWhatIsThere'
    BY <1>1, <1>6 DEF ReadsWhatIsThere, Reading
  <2>5. WritesItsPrefix'
    <3> SUFFICES ASSUME NEW i \in Position
                 PROVE  LET reported == op.offset <= i /\ i < op.offset + transferred
                            chunk == op.offset + transferred <= i /\ i < op.offset + op.length
                                     /\ i < op.offset + transferred + ChunkMax
                        IN  \/ (reported \/ chunk) /\ content'[i] = op.bytes[i - op.offset]
                            \/ ~reported /\ content'[i] = before.content[i]
      BY <1>1 DEF WritesItsPrefix, Failed
    <3>1. i \in Nat
      BY DEF Position
    <3>2. content[i] = IF op.offset <= i /\ i < op.offset + transferred
                         THEN op.bytes[i - op.offset] ELSE before.content[i]
      BY <1>1, <1>6, <3>1 DEF WritesItsPrefix, Failed
    <3>3. CASE Place <= i /\ i < Place + n
      <4>1. content'[i] = op.bytes[transferred + (i - Place)]
        BY <1>6, <3>3 DEF Overlay
      <4>2. transferred + (i - Place) = i - op.offset
        BY <1>3, <3>1, <3>3
      <4>3. /\ op.offset + transferred <= i /\ i < op.offset + op.length
            /\ i < op.offset + transferred + ChunkMax
        BY <1>3, <3>1, <3>3
      <4> QED BY <4>1, <4>2, <4>3
    <3>4. CASE ~(Place <= i /\ i < Place + n)
      <4>1. content'[i] = content[i]
        BY <1>6, <3>4 DEF Overlay
      <4> QED BY <3>2, <4>1
    <3> QED BY <3>3, <3>4
  <2> QED BY <1>4, <2>2, <2>3, <2>4, <2>5
<1> QED BY <1>2, <1>5, <1>6

\* timelite_file_truncate, up to the write that grows a file on Windows.
LEMMA TruncateKeeps ==
  ASSUME TransferInv, NEW n \in 0 .. OffsetMax + 1, Truncate(n)
  PROVE  TransferInv'
<1> USE TransferAssumption DEF TransferInv, Truncate, Return
<1>1. /\ op' \in Operation /\ op'.kind = "truncate" /\ op'.offset = n
      /\ buffer' \in Contents /\ transferred' = 0
      /\ before' = [content |-> content, size |-> size]
  BY NoOperationType DEF Operation, Kind
<1>2. /\ content' \in Contents /\ size' \in 0 .. OffsetMax
      /\ \A i \in Position : i >= size' => content'[i] = Zero
  <2>1. CASE CutTo(n) /\ n <= OffsetMax
    <3>1. \A i \in Position : content[i] \in Byte
      BY DEF TypeOK, Contents
    <3> QED BY <2>1, <3>1 DEF CutTo, Contents, Position
  <2>2. CASE UNCHANGED <<content, size>>
    BY <2>2 DEF TypeOK, TailIsZero
  <2> QED BY <2>1, <2>2
<1>3. position' \in 0 .. OffsetMax
  BY DEF TypeOK
<1>4. TypeOK'
  BY <1>1, <1>2, <1>3 DEF TypeOK
<1>5. LoopRange' /\ Aligned' /\ TailIsZero' /\ ReadsWhatIsThere' /\ WritesItsPrefix'
  BY <1>1, <1>2 DEF LoopRange, Aligned, TailIsZero, ReadsWhatIsThere, WritesItsPrefix, Reading
<1>6. Growing'
  BY <1>1 DEF Growing
<1>7. TruncatesToSize'
  BY <1>1 DEF TruncatesToSize, CutTo
<1> QED BY <1>4, <1>5, <1>6, <1>7

\* The one byte that grows a file.
LEMMA ExtendKeeps ==
  ASSUME TransferInv, ExtendSeek \/ Extend
  PROVE  TransferInv'
<1> USE TransferAssumption DEF TransferInv
<1>1. CASE ExtendSeek
  BY <1>1 DEF ExtendSeek, Return, TypeOK, Operation, LoopRange, Aligned, Growing, TailIsZero,
     ReadsWhatIsThere, WritesItsPrefix, TruncatesToSize, Reading
<1>2. CASE Extend
  <2> USE <1>2 DEF Extend, Grown, Return
  <2>1. /\ op.kind = "truncate" /\ op.offset \in Nat /\ position = op.offset - 1
        /\ size < op.offset /\ op.offset <= OffsetMax /\ size \in Nat /\ position \in Nat
        /\ content = before.content /\ op' = op /\ before' = before /\ pc' = "idle"
    BY DEF Growing, TypeOK, Operation
  <2>2. /\ content' \in Contents
        /\ \A i \in Position : i >= size => content'[i] = Zero
        /\ \A i \in Position : i < size => content'[i] = content[i]
    <3>1. content' = [content EXCEPT ![position] = Zero] \/ content' = content
      OBVIOUS
    <3>2. content \in Contents /\ \A i \in Position : i >= size => content[i] = Zero
      BY DEF TypeOK, TailIsZero
    <3>3. \A i \in Position : content'[i] = content[i] \/ (i = position /\ content'[i] = Zero)
      BY <3>1, <3>2 DEF Contents
    <3>4. content' \in Contents
      BY <3>1, <3>2 DEF Contents
    <3>5. \A i \in Position : i < size => i # position
      BY <2>1 DEF Position
    <3> QED BY <3>2, <3>3, <3>4, <3>5
  <2>3. \/ result' = "ok" /\ size' = op.offset
        \/ result' = "error" /\ size' = op.offset
        \/ result' \in {"EIO", "error"} /\ size' = size /\ content' = content
    BY <2>1
  <2>4. TypeOK'
    <3>1. position' \in 0 .. OffsetMax /\ size' \in 0 .. OffsetMax
      BY <2>1, <2>3 DEF TypeOK
    <3> QED BY <2>2, <2>3, <3>1 DEF TypeOK
  <2>5. LoopRange' /\ Aligned' /\ Growing' /\ ReadsWhatIsThere' /\ WritesItsPrefix'
    BY <2>1 DEF LoopRange, Aligned, Growing, ReadsWhatIsThere, WritesItsPrefix, Reading
  <2>6. TailIsZero'
    BY <2>1, <2>2, <2>3 DEF TailIsZero, Position
  <2>7. TruncatesToSize'
    <3> SUFFICES ASSUME result' = "ok"
                 PROVE  /\ size' = op.offset
                        /\ content' = [i \in Position |->
                               IF i < size' THEN before.content[i] ELSE Zero]
      BY <2>1 DEF TruncatesToSize
    <3>1. size' = op.offset
      BY <2>3
    <3>2. \A i \in Position : content'[i] = IF i < size' THEN before.content[i] ELSE Zero
      BY <2>1, <2>2, <3>1 DEF Position, TailIsZero
    <3> QED BY <2>2, <3>1, <3>2 DEF Contents
  <2> QED BY <2>4, <2>5, <2>6, <2>7
<1> QED BY <1>1, <1>2

\* Every step keeps the invariant.
LEMMA NextTransfer == TransferInv /\ [Next]_vars => TransferInv'
<1> SUFFICES ASSUME TransferInv, [Next]_vars PROVE TransferInv'
  OBVIOUS
<1>1. CASE UNCHANGED vars
  BY <1>1 DEF vars, TransferInv, TypeOK, LoopRange, Aligned, Place, Growing, TailIsZero,
     ReadsWhatIsThere, WritesItsPrefix, Failed, TruncatesToSize, Reading
<1>2. CASE Progress
  BY <1>2, SeekFileKeeps, ReadSomeKeeps, WriteSomeKeeps, NothingMoved, ExtendKeeps DEF Progress
<1> QED BY <1>1, <1>2, BeginKeeps, TruncateKeeps, NothingMoved, TransferFailsKeeps DEF Next, Interrupted

\* The invariant always holds.
LEMMA SpecTransfer == Spec => []TransferInv
  BY InitTransfer, NextTransfer, PTL DEF Spec

\* In either backend, through any sequence of short, interrupted and failing
\* system calls: a read delivers the file's bytes and is short only at its
\* end, a write changes the prefix it reports and, if it fails, at most bytes of
\* the chunk the failing call was given, a truncation shows no
\* byte that was cut off before, and no offset leaves the range of off_t.
THEOREM TransfersExact ==
    Spec => [](WithinOffsets /\ ReadsWhatIsThere /\ WritesItsPrefix /\ TruncatesToSize)
<1>1. TransferInv => WithinOffsets
  BY TransferAssumption
  DEF TransferInv, WithinOffsets, Aligned, LoopRange, Overflows, Count, TypeOK, Operation
<1>2. TransferInv => ReadsWhatIsThere /\ WritesItsPrefix /\ TruncatesToSize
  BY DEF TransferInv
<1> QED BY <1>1, <1>2, SpecTransfer, PTL
=============================================================================
