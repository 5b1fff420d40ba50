----------------------------- MODULE BoundedLog -----------------------------
(***************************************************************************)
(* The sequence of the most recent write operations: what the comments of  *)
(* aesd-circular-buffer.[ch] promise of the ring, without its indices.     *)
(***************************************************************************)
EXTENDS Integers, Sequences

CONSTANT MaxWriteOps    \* AESDCHAR_MAX_WRITE_OPERATIONS_SUPPORTED

\* The indices and the loop counter of the ring are uint8_t: a ring of 256
\* slots would never leave the loop of find_entry_offset_for_fpos.
ASSUME MaxWriteOpsAssumption == MaxWriteOps \in 1..255

\* A full log forgets its oldest operation to make room for the new one.
Push(log, e) ==
    Append(IF Len(log) < MaxWriteOps THEN log ELSE Tail(log), e)

=============================================================================
