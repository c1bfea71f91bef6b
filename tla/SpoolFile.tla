----------------------------- MODULE SpoolFile ------------------------------
(***************************************************************************)
(* The spool file of src/mobile/native/src/sink/stream_sink.cpp (enqueue,  *)
(* pop_next_to_send), cell by cell.  One FILE* appends, another reads; the *)
(* sink does not ask the file how much it holds, it keeps count of what it *)
(* has asked to be written and read.  Its actions are conjoined with those *)
(* of the module that uses it.                                             *)
(***************************************************************************)
EXTENDS Protocol

CONSTANTS
    MaxShortWrites,     \* bound: writes that a full disk cuts short
    ShortSizes,         \* bound: how many cells such a write may take
    MaxRefusals         \* bound: calls of enqueue to which the disk refuses a file
ASSUME ShortWriteAssumption == MaxShortWrites \in Nat /\ ShortSizes \subseteq Nat
ASSUME RefusalAssumption == MaxRefusals \in Nat

VARIABLES
    spool_write_file_,  \* is it open?
    spool_read_file_,   \* is it open?
    unread,             \* the file's cells past the reader's offset
    at_eof,             \* has the reader met the file's end?  It stays there.
    spool_read_pos_,
    spool_write_pos_,
    short_writes,       \* writes cut short so far
    refusals            \* calls of enqueue so far to which a file was refused

spoolFiles == <<spool_write_file_, spool_read_file_>>
spoolFileVars == <<spoolFiles, unread, at_eof, spool_read_pos_, spool_write_pos_,
                   short_writes, refusals>>

SpoolFileInit ==
    /\ spool_write_file_ = FALSE /\ spool_read_file_ = FALSE
    /\ unread = <<>> /\ at_eof = FALSE
    /\ spool_read_pos_ = 0 /\ spool_write_pos_ = 0
    /\ short_writes = 0 /\ refusals = 0

(* As long as no file is open to write to, each call of enqueue in overflow*)
(* mode opens one, and another to read from; the disk may refuse either.   *)
DiskRefuses == refusals < MaxRefusals /\ refusals' = refusals + 1

(* Without a file to write to, the message is dropped.  There is none to   *)
(* read from either: open and the last pop have removed it.                *)
SpoolRefused ==
    /\ ~spool_write_file_ /\ DiskRefuses
    /\ spool_read_pos_' = 0 /\ spool_write_pos_' = 0
    /\ UNCHANGED <<spoolFiles, unread, at_eof, short_writes>>

(* Without one to read from it is written, to be read by nobody.           *)
SpoolOpened ==
    \/ spool_write_file_ /\ UNCHANGED <<spoolFiles, refusals>>
    \/ /\ ~spool_write_file_ /\ spool_write_file_' = TRUE
       /\ \/ spool_read_file_' = TRUE /\ UNCHANGED refusals
          \/ spool_read_file_' = FALSE /\ DiskRefuses

(* The positions are set back when the file is opened.                     *)
Kept(pos) == IF spool_write_file_ THEN pos ELSE 0

(* Faulty variant: counts what it wrote of the last message only.          *)
WritePosOfLast(message) == Len(message)
(* fwrite's result is not looked at: the position moves by the whole size. *)
WritePosAfter(message) == Kept(spool_write_pos_) + Len(message)

(* fwrite and fflush of a message, of which the disk takes n cells.        *)
SpoolAppend(message, n) ==
    /\ SpoolOpened
    /\ \/ n = Len(message)
       \/ short_writes < MaxShortWrites /\ n \in ShortSizes
    /\ short_writes' = IF n = Len(message) THEN short_writes ELSE short_writes + 1
    /\ unread' = unread \o SubSeq(message, 1, n)
    /\ spool_write_pos_' = WritePosAfter(message)
    /\ spool_read_pos_' = Kept(spool_read_pos_)
    /\ UNCHANGED at_eof

(* The header and as much of the payload as there is; the rest of the      *)
(* message is the zeros of out.resize.                                     *)
SpoolMessage ==
    [i \in 1 .. Total(unread) |-> IF i <= Len(unread) THEN unread[i] ELSE 0]

(* Faulty variant: the file is kept until the reader has passed its end.   *)
DrainedPast(read_pos) == read_pos > spool_write_pos_
Drained(read_pos) == read_pos >= spool_write_pos_

(* A message is read; the last one closes and removes the file.            *)
SpoolUnread ==
    spool_read_file_ /\ spool_read_pos_ < spool_write_pos_ /\ ~at_eof
SpoolReadable == SpoolUnread /\ HasHeader(unread)
SpoolPop ==
    /\ SpoolReadable
    /\ LET read_pos == spool_read_pos_ + Total(unread) IN
       IF Drained(read_pos)
       THEN /\ spool_write_file_' = FALSE /\ spool_read_file_' = FALSE
            /\ unread' = <<>> /\ at_eof' = FALSE
            /\ spool_read_pos_' = 0 /\ spool_write_pos_' = 0
       ELSE /\ unread' = Cut(unread, Total(unread) + 1)
            /\ at_eof' = (Len(unread) < Total(unread))
            /\ spool_read_pos_' = read_pos
            /\ UNCHANGED <<spoolFiles, spool_write_pos_>>
    /\ UNCHANGED <<short_writes, refusals>>

(* The file ends inside a header: what there was of it is consumed all the *)
(* same, and the position stays.  fread gives nothing more on a stream that*)
(* has met its end, whatever is appended to the file.                      *)
SpoolPopShort ==
    /\ SpoolUnread /\ ~HasHeader(unread)
    /\ unread' = <<>> /\ at_eof' = TRUE
    /\ UNCHANGED <<spoolFiles, spool_read_pos_, spool_write_pos_, short_writes, refusals>>
=============================================================================
