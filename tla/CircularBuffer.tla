--------------------------- MODULE CircularBuffer ---------------------------
(***************************************************************************)
(* The operations of aesd-char-driver/aesd-circular-buffer.[ch], which     *)
(* both the driver and (through the device file) the socket server keep    *)
(* their commands in.  A ring is a record with the fields of struct        *)
(* aesd_circular_buffer; the type of an entry's buffptr is left to the     *)
(* module that uses the ring.                                              *)
(***************************************************************************)
EXTENDS BoundedLog

CONSTANT NULL           \* the null pointer

Slots == 0 .. MaxWriteOps - 1

\* A find that fails returns NULL, one that succeeds the address of a slot.
ASSUME SlotAssumption == NULL \notin Slots

NoEntry == [buffptr |-> NULL, size |-> 0]

\* memset(buffer, 0, sizeof(struct aesd_circular_buffer))
EmptyBuffer == [entry    |-> [i \in Slots |-> NoEntry],
                in_offs  |-> 0,
                out_offs |-> 0,
                full     |-> FALSE]

(***************************************************************************)
(* aesd_circular_buffer_add_entry: the new ring, and the pointer the call  *)
(* returns, which the caller has to free.                                  *)
(***************************************************************************)
\* Forgets that a full ring drops its oldest entry.
AddEntryKeepingOut(b, e) ==
    LET next == (b.in_offs + 1) % MaxWriteOps IN
    [entry    |-> [b.entry EXCEPT ![b.in_offs] = e],
     in_offs  |-> next,
     out_offs |-> b.out_offs,
     full     |-> b.full \/ next = b.out_offs]

\* Never notices that the ring has become full.
AddEntryNeverFull(b, e) ==
    [entry    |-> [b.entry EXCEPT ![b.in_offs] = e],
     in_offs  |-> (b.in_offs + 1) % MaxWriteOps,
     out_offs |-> b.out_offs,
     full     |-> FALSE]

\* Wraps one slot too late.
AddEntryUnwrapped(b, e) ==
    LET next == (b.in_offs + 1) % (MaxWriteOps + 1) IN
    [entry    |-> [b.entry EXCEPT ![b.in_offs] = e],
     in_offs  |-> next,
     out_offs |-> IF b.full THEN (b.out_offs + 1) % MaxWriteOps
                            ELSE b.out_offs,
     full     |-> b.full \/ next = b.out_offs]

AddEntry(b, e) ==
    LET next == (b.in_offs + 1) % MaxWriteOps IN
    [entry    |-> [b.entry EXCEPT ![b.in_offs] = e],
     in_offs  |-> next,
     out_offs |-> IF b.full THEN (b.out_offs + 1) % MaxWriteOps
                            ELSE b.out_offs,
     full     |-> b.full \/ next = b.out_offs]

Replaced(b) == b.entry[b.in_offs].buffptr

(***************************************************************************)
(* aesd_circular_buffer_find_entry_offset_for_fpos.  The loop visits the   *)
(* slots from out_offs on and takes their sizes off char_offset until it   *)
(* fits: it stops at the first k-th visited slot whose end lies beyond     *)
(* char_offset.                                                            *)
(***************************************************************************)
Slot(b, k) == (b.out_offs + k) % MaxWriteOps

\* SizeBefore(b)[k] is what the first k iterations take off char_offset.
SizeBefore(b) ==
    LET before[k \in 0..MaxWriteOps] ==
            IF k = 0 THEN 0
                     ELSE before[k - 1] + b.entry[Slot(b, k - 1)].size
    IN  before

NotFound == [slot |-> NULL, offset |-> 0]

\* Searches from slot 0 instead of from out_offs.
FindEntryFromSlotZero(b, char_offset) ==
    LET raw  == [b EXCEPT !.out_offs = 0]
        hits == {k \in Slots : char_offset < SizeBefore(raw)[k + 1]}
        k    == CHOOSE k \in hits : \A j \in hits : k <= j
    IN  IF hits = {} THEN NotFound
        ELSE [slot |-> k, offset |-> char_offset - SizeBefore(raw)[k]]

FindEntry(b, char_offset) ==
    LET hits == {k \in Slots : char_offset < SizeBefore(b)[k + 1]}
        k    == CHOOSE k \in hits : \A j \in hits : k <= j
    IN  IF hits = {} THEN NotFound
        ELSE [slot |-> Slot(b, k), offset |-> char_offset - SizeBefore(b)[k]]

-----------------------------------------------------------------------------
(***************************************************************************)
(* What a reader of the ring sees in it.                                   *)
(***************************************************************************)
Count(b) == IF b.full THEN MaxWriteOps ELSE b.in_offs - b.out_offs

\* The entries, oldest first.
Contents(b) == [k \in 1..Count(b) |-> b.entry[Slot(b, k - 1)]]

(***************************************************************************)
(* The relation of the four fields that the code never writes down.  A     *)
(* full ring has in_offs = out_offs and an entry of E in every slot.  One  *)
(* that is not full has never wrapped, and the slots it has not used still *)
(* hold the zeroes of init: that is what makes add_entry return NULL for   *)
(* them and the loops over all slots count them as size 0.                 *)
(***************************************************************************)
RingOf(E) == [entry    : [Slots -> E \cup {NoEntry}],
              in_offs  : Slots,
              out_offs : Slots,
              full     : BOOLEAN]

Consistent(b, E) ==
    /\ b.full => /\ b.in_offs = b.out_offs
                 /\ \A i \in Slots : b.entry[i] \in E
    /\ ~b.full => /\ b.out_offs = 0
                  /\ \A i \in Slots : IF i < b.in_offs
                                      THEN b.entry[i] \in E
                                      ELSE b.entry[i] = NoEntry

=============================================================================
