----------------------------- MODULE AesdDevice -----------------------------
(***************************************************************************)
(* The positions aesd-char-driver/main.c computes from its ring: the size  *)
(* llseek and the offset the seek ioctl arrive at.                         *)
(***************************************************************************)
EXTENDS CircularBuffer

CONSTANT EINVAL         \* the error return of a rejected position

\* SizeOfSlots(b)[i] is what i iterations of AESD_CIRCULAR_BUFFER_FOREACH
\* sum up; unused slots have size 0.
SizeOfSlots(b) ==
    LET sum[i \in 0..MaxWriteOps] ==
            IF i = 0 THEN 0 ELSE sum[i - 1] + b.entry[i - 1].size
    IN  sum

TotalSize(b) == SizeOfSlots(b)[MaxWriteOps]

\* Accepts positions before the beginning.
SeekTargetUnchecked(b, f_pos, off, whence) ==
    CASE whence = 0 -> off
      [] whence = 1 -> f_pos + off
      [] whence = 2 -> TotalSize(b) + off
      [] OTHER      -> EINVAL

\* aesd_llseek: whence 0, 1 and 2 are SEEK_SET, SEEK_CUR and SEEK_END; the
\* VFS also lets SEEK_DATA and SEEK_HOLE (3 and 4) through to the driver.
SeekTarget(b, f_pos, off, whence) ==
    LET newpos == CASE whence = 0 -> off
                    [] whence = 1 -> f_pos + off
                    [] whence = 2 -> TotalSize(b) + off
                    [] OTHER      -> -1
    IN  IF newpos < 0 THEN EINVAL ELSE newpos

\* aesd_ioctl: the sizes of the slots before slot write_cmd, counted from
\* slot 0 of the array, and the offset into the command.
SlotPosition(b, write_cmd, write_cmd_offset) ==
    SizeOfSlots(b)[write_cmd] + write_cmd_offset

\* Lets an offset point at the byte after the command.
SeekToPastEnd(b, write_cmd, write_cmd_offset) ==
    IF \/ write_cmd > MaxWriteOps - 1
       \/ write_cmd_offset > b.entry[write_cmd].size
    THEN EINVAL
    ELSE SlotPosition(b, write_cmd, write_cmd_offset)

SeekTo(b, write_cmd, write_cmd_offset) ==
    IF \/ write_cmd > MaxWriteOps - 1
       \/ write_cmd_offset >= b.entry[write_cmd].size
    THEN EINVAL
    ELSE SlotPosition(b, write_cmd, write_cmd_offset)

=============================================================================
