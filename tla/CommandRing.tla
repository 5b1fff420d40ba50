---------------------------- MODULE CommandRing -----------------------------
(***************************************************************************)
(* A ring and one caller that adds entries to it, as the driver and the    *)
(* unit tests of the circular buffer do; the caller keeps the pointer the  *)
(* last call returned.                                                     *)
(***************************************************************************)
EXTENDS CircularBuffer, SequencesExt

CONSTANTS Pointer,      \* what callers put in buffptr
          Size          \* the sizes of the commands they add

ASSUME SizeAssumption == Size \subseteq Nat

ASSUME PointerAssumption == NULL \notin Pointer

Entry == [buffptr : Pointer, size : Size]

VARIABLES buffer,       \* struct aesd_circular_buffer
          replaced      \* what the last add_entry returned

vars == <<buffer, replaced>>

Init == buffer = EmptyBuffer /\ replaced = NULL

Add(e) ==
    /\ buffer' = AddEntry(buffer, e)
    /\ replaced' = Replaced(buffer)

Next == \E e \in Entry : Add(e)

Spec == Init /\ [][Next]_vars

-----------------------------------------------------------------------------
TypeOK ==
    /\ buffer \in RingOf(Entry)
    /\ replaced \in Pointer \cup {NULL}

\* aesd-circular-buffer.c:75-79: in_offs, out_offs, full and the slots agree
\* after any sequence of additions.
RingInv == Consistent(buffer, Entry)

(***************************************************************************)
(* aesd-circular-buffer.c:21 - char_offset is "the zero referenced         *)
(* character index if all buffer strings were concatenated end to end".    *)
(* The characters of an entry are told apart by entry and index.           *)
(***************************************************************************)
Characters(e) == [i \in 1..e.size |-> <<e.buffptr, i - 1>>]

Concatenated ==
    FlattenSeq([k \in 1..Count(buffer) |-> Characters(Contents(buffer)[k])])

\* Finding a position gives the entry and the offset in it of that character
\* of the concatenated commands, and NULL beyond their end.
FindAgreesWithLog ==
    \A char_offset \in 0 .. Len(Concatenated) + 1 :
        LET found == FindEntry(buffer, char_offset) IN
        IF char_offset < Len(Concatenated)
        THEN /\ found # NotFound
             /\ Concatenated[char_offset + 1] =
                    <<buffer.entry[found.slot].buffptr, found.offset>>
        ELSE found = NotFound

(***************************************************************************)
(* The ring implements the bounded log: the k-th oldest entry is the k-th  *)
(* slot from out_offs, and add_entry returns the pointer of exactly the    *)
(* entry that falls out (aesd-circular-buffer.c:57 "overwrites the oldest  *)
(* entry and advances buffer->out_offs to the new start location").        *)
(***************************************************************************)
Log == INSTANCE CommandLog WITH log <- Contents(buffer), dropped <- replaced

ImplementsLog == Log!Spec

=============================================================================
