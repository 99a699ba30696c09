---------------------------- MODULE FileTransfer ----------------------------
(***************************************************************************)
(* The transfers of the two storage backends: the loops of                 *)
(* timelite_file_read and timelite_file_write around system calls that may *)
(* be interrupted, move fewer bytes than asked, move none, or fail half    *)
(* way; timelite_file_truncate; and read_exact and write_exact on top.     *)
(* The POSIX backend names the place of every call (pread, pwrite); the    *)
(* Windows one seeks once and then relies on the position of the handle,   *)
(* which is also moved by whatever the handle did before.                  *)
(*                                                                         *)
(* Bytes past the end of a file are Zero in content, as they read once the *)
(* file is extended over them.                                             *)
(***************************************************************************)
EXTENDS Naturals

CONSTANTS
    Byte, Zero,
    OffsetMax,   \* INT64_MAX
    LengthMax,   \* SIZE_MAX, of requests
    ChunkMax     \* SSIZE_MAX, or TIMELITE_IO_TRANSFER_LIMIT

ASSUME TransferAssumption ==
    /\ Zero \in Byte
    /\ OffsetMax \in Nat /\ LengthMax \in Nat /\ ChunkMax \in Nat \ {0}

VARIABLES
    windows,         \* TRUE: file_io_windows.c is linked, FALSE: file_io.c
    content, size,   \* the file
    position,        \* the file position of the handle
    op,              \* the call in progress: kind, offset, length and bytes to write
    buffer,          \* the caller's buffer, Zero until a read fills it
    transferred,     \* *transferred
    pc,
    result,          \* of the last call
    before           \* history: content and size when the call began

vars == <<windows, content, size, position, op, buffer, transferred, pc, result, before>>

Position == 0 .. OffsetMax - 1

Contents == [Position -> Byte]

Kind == {"read", "readExact", "write", "truncate"}

\* offset is a uint64_t: all of them past INT64_MAX are as the first one.
Operation == [kind : Kind, offset : 0 .. OffsetMax + 1, length : 0 .. LengthMax,
              bytes : Contents]

\* The requests: only a write brings bytes, and no more than its length.
Request == {o \in Operation : \A i \in Position :
                o.kind # "write" \/ i >= o.length => o.bytes[i] = Zero}

NoOperation == [kind |-> "read", offset |-> 0, length |-> 0,
                bytes |-> [i \in Position |-> Zero]]

Reading == op.kind \in {"read", "readExact"}

Init ==
    /\ windows \in BOOLEAN
    /\ size \in 0 .. OffsetMax
    /\ content \in {c \in Contents : \A i \in Position : i >= size => c[i] = Zero}
    /\ position = 0
    /\ op = NoOperation
    /\ buffer = NoOperation.bytes
    /\ transferred = 0
    /\ pc = "idle"
    /\ result = "ok"
    /\ before = [content |-> content, size |-> size]

Return(r) == pc' = "idle" /\ result' = r

\* Mutant: the sum is compared, in 64 bits of which it may wrap.
OverflowsWrapping(offset, length) ==
    offset > OffsetMax \/ (offset + length) % (OffsetMax + 2) > OffsetMax

\* check_transfer
Overflows(offset, length) == offset > OffsetMax \/ length > OffsetMax - offset

\* timelite_file_read, timelite_file_write: arguments, and Windows' seek.
Begin(o) ==
    /\ pc = "idle"
    /\ o.kind # "truncate"
    /\ op' = o
    /\ transferred' = 0
    /\ before' = [content |-> content, size |-> size]
    /\ IF Overflows(o.offset, o.length) THEN Return("EOVERFLOW")
       ELSE IF o.length = 0 THEN Return("ok")
       ELSE pc' = (IF windows THEN "seek" ELSE "transfer") /\ UNCHANGED result
    /\ buffer' = NoOperation.bytes
    /\ UNCHANGED <<content, size, position, windows>>

\* Mutant: one seek serves every call on the handle.
SeekFileOnce ==
    /\ pc = "seek"
    /\ \/ pc' = "transfer" /\ UNCHANGED <<position, result>>
       \/ Return("error") /\ UNCHANGED position
    /\ UNCHANGED <<content, size, op, buffer, transferred, before, windows>>

\* seek_file
SeekFile ==
    /\ pc = "seek"
    /\ \/ pc' = "transfer" /\ position' = op.offset /\ UNCHANGED result
       \/ Return("error") /\ UNCHANGED position
    /\ UNCHANGED <<content, size, op, buffer, transferred, before, windows>>

\* The place and the length of the next system call.
Place == IF windows THEN position ELSE op.offset + transferred

Count == IF op.length - transferred > ChunkMax THEN ChunkMax ELSE op.length - transferred

Moved(n) == position' = IF windows THEN position + n ELSE position

\* What the loop does once a call has moved n bytes.
Continue(n) ==
    /\ transferred' = transferred + n
    /\ IF transferred + n < op.length THEN UNCHANGED <<pc, result>> ELSE Return("ok")

\* Mutant: the loop fills the buffer from its start.
FillFromStart(n) ==
    buffer' = [i \in Position |-> IF i < n THEN content[Place + i] ELSE buffer[i]]

Fill(n) ==
    buffer' = [i \in Position |->
                  IF transferred <= i /\ i < transferred + n
                    THEN content[Place + (i - transferred)] ELSE buffer[i]]

\* pread or ReadFile moves n of the bytes there are.
ReadSome(n) ==
    /\ pc = "transfer" /\ Reading
    /\ n > 0 /\ n <= Count /\ Place + n <= size
    /\ Fill(n) /\ Moved(n) /\ Continue(n)
    /\ UNCHANGED <<content, size, op, before, windows>>

\* Mutant: end of file is taken for an interruption and tried again.
ReadEndRetried ==
    /\ pc = "transfer" /\ Reading
    /\ Place >= size
    /\ UNCHANGED vars

\* No bytes, or ERROR_HANDLE_EOF: the end of the file.  It is no error, save
\* for read_exact, which asked for bytes that have to be there.
ReadEnd ==
    /\ pc = "transfer" /\ Reading
    /\ Place >= size
    /\ Return(IF op.kind = "readExact" THEN "INVALID_DATABASE" ELSE "ok")
    /\ UNCHANGED <<content, size, position, op, buffer, transferred, before, windows>>

Overlay(n) ==
    content' = [i \in Position |->
                   IF Place <= i /\ i < Place + n
                     THEN op.bytes[transferred + (i - Place)] ELSE content[i]]

\* pwrite or WriteFile accepts n bytes; a gap past the old end reads Zero.
WriteSome(n) ==
    /\ pc = "transfer" /\ op.kind = "write"
    /\ n > 0 /\ n <= Count
    /\ Overlay(n) /\ Moved(n) /\ Continue(n)
    /\ size' = IF Place + n > size THEN Place + n ELSE size
    /\ UNCHANGED <<op, buffer, before, windows>>

\* A write that makes no progress is an error and not a busy loop.
WriteNone ==
    /\ pc = "transfer" /\ op.kind = "write"
    /\ Return("EIO")
    /\ UNCHANGED <<content, size, position, op, buffer, transferred, before, windows>>

\* EINTR: the call is made again.
Interrupted ==
    /\ pc = "transfer" /\ ~windows
    /\ UNCHANGED vars

\* A call that fails may have moved some bytes of its chunk all the same, which
\* nobody counts, and on Windows the position.
TransferFails ==
    /\ pc = "transfer"
    /\ Return("error")
    /\ \E n \in 0 .. Count :
          \/ /\ Reading /\ (n = 0 \/ Place + n <= size)
             /\ Fill(n)
             /\ UNCHANGED <<content, size>>
          \/ /\ op.kind = "write"
             /\ Overlay(n)
             /\ size' = IF n > 0 /\ Place + n > size THEN Place + n ELSE size
             /\ UNCHANGED buffer
    /\ \/ UNCHANGED position
       \/ windows /\ position' \in 0 .. OffsetMax
    /\ UNCHANGED <<op, transferred, before, windows>>

----------------------------------------------------------------------------
(* timelite_file_truncate                                                   *)

CutTo(n) ==
    /\ content' = [i \in Position |-> IF i < n THEN content[i] ELSE Zero]
    /\ size' = n

\* ftruncate, or SetEndOfFile at the new end when the file does not grow.
Truncate(n) ==
    /\ pc = "idle"
    /\ op' = [NoOperation EXCEPT !.kind = "truncate", !.offset = n]
    /\ transferred' = 0
    /\ before' = [content |-> content, size |-> size]
    /\ \/ /\ n > OffsetMax
          /\ Return("EOVERFLOW")
          /\ UNCHANGED <<content, size, position>>
       \/ /\ n <= OffsetMax /\ (windows => n <= size)
          /\ CutTo(n) /\ Return("ok")
          /\ position' = IF windows THEN n ELSE position
       \/ /\ n <= OffsetMax
          /\ Return("error")
          /\ UNCHANGED <<content, size>>
          /\ position' \in {position} \cup (IF windows THEN {n} ELSE {})
       \/ /\ n <= OffsetMax /\ windows /\ size < n
          /\ pc' = "extendSeek"
          /\ UNCHANGED <<content, size, position, result>>
    /\ buffer' = NoOperation.bytes
    /\ UNCHANGED windows

\* Windows grows a file by writing the last byte of the new size.
ExtendSeek ==
    /\ pc = "extendSeek"
    /\ \/ pc' = "extend" /\ position' = op.offset - 1 /\ UNCHANGED result
       \/ Return("error") /\ UNCHANGED position
    /\ UNCHANGED <<content, size, op, buffer, transferred, before, windows>>

\* Mutant: the one byte is written at the new size.
ExtendPast ==
    /\ pc = "extend"
    /\ \/ /\ size' = position + 2
          /\ content' = [i \in Position |-> IF i = position + 1 THEN Zero ELSE content[i]]
          /\ position' = position + 2
          /\ Return("ok")
       \/ /\ \E r \in {"EIO", "error"} : Return(r)
          /\ UNCHANGED <<content, size, position>>
    /\ UNCHANGED <<op, buffer, transferred, before, windows>>

\* The file has grown by the one byte, which is Zero.
Grown == /\ size' = position + 1
         /\ content' = [content EXCEPT ![position] = Zero]

\* An error does not say whether the byte was written.
Extend ==
    /\ pc = "extend"
    /\ \/ Grown /\ position' = position + 1 /\ Return("ok")
       \/ Return("EIO") /\ UNCHANGED <<content, size, position>>
       \/ /\ Return("error")
          /\ Grown \/ UNCHANGED <<content, size>>
          /\ position' \in {position, position + 1}
    /\ UNCHANGED <<op, buffer, transferred, before, windows>>

----------------------------------------------------------------------------

\* What a system call does that is neither interrupted nor in error.
Progress ==
    \/ SeekFile \/ ReadEnd \/ ExtendSeek \/ Extend
    \/ \E n \in 1 .. ChunkMax : ReadSome(n) \/ WriteSome(n)

Next ==
    \/ \E o \in Request : Begin(o)
    \/ \E n \in 0 .. OffsetMax + 1 : Truncate(n)
    \/ Progress
    \/ WriteNone \/ TransferFails \/ Interrupted

\* Calls are not interrupted for ever; no error has to come to their help.
Spec == Init /\ [][Next]_vars /\ WF_vars(Progress)

----------------------------------------------------------------------------
(* Properties                                                               *)

TypeOK ==
    /\ windows \in BOOLEAN
    /\ content \in Contents
    /\ size \in 0 .. OffsetMax
    /\ position \in 0 .. OffsetMax
    /\ op \in Operation
    /\ buffer \in Contents
    /\ transferred \in 0 .. LengthMax
    /\ pc \in {"idle", "seek", "transfer", "extendSeek", "extend"}
    /\ result \in {"ok", "EOVERFLOW", "EIO", "error", "INVALID_DATABASE"}
    /\ before \in [content : Contents, size : 0 .. OffsetMax]

\* No system call reaches past INT64_MAX, at the last chunk of the last
\* request either: off_t never overflows.
WithinOffsets ==
    pc = "transfer" => Place + Count <= OffsetMax

Failed == pc = "idle" /\ result = "error"

\* After any number of chunks and interruptions the buffer holds the bytes of
\* the file from the offset on, as many as *transferred says, and a success
\* with fewer bytes than asked means that the file ends there.
ReadsWhatIsThere ==
    Reading =>
        /\ \A i \in Position : i < transferred => buffer[i] = content[op.offset + i]
        /\ transferred > 0 => op.offset + transferred <= size
        /\ pc = "idle" /\ result = "ok" /\ transferred < op.length
               => op.kind = "read" /\ op.offset + transferred >= size

\* Whatever happened, a write changed the first *transferred bytes of its
\* request at their places and no other byte, save that a system call which
\* failed may have written bytes of its own chunk, also at their places;
\* success means all of them.
WritesItsPrefix ==
    op.kind = "write" =>
        /\ \A i \in Position :
              LET reported == op.offset <= i /\ i < op.offset + transferred
                  chunk    == op.offset + transferred <= i
                              /\ i < op.offset + op.length /\ i < op.offset + transferred + ChunkMax
              IN  \/ (reported \/ (Failed /\ chunk)) /\ content[i] = op.bytes[i - op.offset]
                  \/ ~reported /\ content[i] = before.content[i]
        /\ pc = "idle" /\ result = "ok" => transferred = op.length

\* A truncation that succeeds leaves the file at the new size, the old bytes
\* kept and the new ones Zero, also where it is made of a write past the end.
TruncatesToSize ==
    op.kind = "truncate" /\ pc = "idle" /\ result = "ok" =>
        /\ size = op.offset
        /\ content = [i \in Position |-> IF i < size THEN before.content[i] ELSE Zero]

\* Bytes past the end are Zero: growing a file never shows old bytes.
TailIsZero == \A i \in Position : i >= size => content[i] = Zero

\* Every call returns.
CallsReturn == pc # "idle" ~> pc = "idle"
=============================================================================
