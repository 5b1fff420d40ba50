------------------------- MODULE CommandRingProofs --------------------------
(***************************************************************************)
(* The circular buffer implements the bounded log, for every number of     *)
(* slots that its uint8_t indices can address and every set of entries.    *)
(***************************************************************************)
EXTENDS CommandRing, CircularBufferProofs

LEMMA InitEstablishes == Init => TypeOK /\ RingInv
  BY EmptyBufferIsConsistent DEF Init, TypeOK, RingInv

LEMMA StepPreserves == TypeOK /\ RingInv /\ [Next]_vars => TypeOK' /\ RingInv'
<1> SUFFICES ASSUME TypeOK, RingInv, [Next]_vars PROVE TypeOK' /\ RingInv'
  OBVIOUS
<1>1. ASSUME NEW e \in Entry, Add(e) PROVE TypeOK' /\ RingInv'
  <2>1. buffer \in RingOf(Entry) /\ Consistent(buffer, Entry)
    BY DEF TypeOK, RingInv
  <2>2. buffer' \in RingOf(Entry) /\ Consistent(buffer', Entry)
    BY <1>1, <2>1, AddEntryType, AddEntryConsistent DEF Add
  <2>3. replaced' \in Pointer \cup {NULL}
    <3>1. buffer.entry[buffer.in_offs] \in Entry \cup {NoEntry}
      BY <2>1 DEF RingOf
    <3>2. QED  BY <1>1, <3>1 DEF Add, Replaced, Entry, NoEntry
  <2>4. QED  BY <2>2, <2>3 DEF TypeOK, RingInv
<1>2. CASE UNCHANGED vars
  BY <1>2 DEF vars, TypeOK, RingInv
<1>3. QED  BY <1>1, <1>2 DEF Next

\* aesd-circular-buffer.c:75-79: the indices and the full flag of the ring
\* agree with its slots, whatever sequence of add_entry calls is made.
THEOREM RingIsConsistent == Spec => [](TypeOK /\ RingInv)
  BY InitEstablishes, StepPreserves, PTL DEF Spec

\* aesd-circular-buffer.h:35-54: its indices never leave the array, its slots
\* hold entries or nothing, and add_entry returns a pointer that was added.
THEOREM RingTypes == Spec => []TypeOK
  BY RingIsConsistent, PTL

\* Every addition to the ring is an addition to the log, and hands back the
\* pointer of exactly the entry the log forgets.
LEMMA StepImplementsAdd ==
    TypeOK /\ RingInv /\ [Next]_vars => [Log!Next]_(Log!vars)
<1> SUFFICES ASSUME TypeOK, RingInv, [Next]_vars
             PROVE  [Log!Next]_(Log!vars)
  OBVIOUS
<1>1. ASSUME NEW e \in Entry, Add(e) PROVE Log!Add(e)
  <2>1. buffer \in RingOf(Entry) /\ Consistent(buffer, Entry)
    BY DEF TypeOK, RingInv
  <2>2. Contents(buffer)' = Push(Contents(buffer), e)
    <3>1. Contents(buffer)' = Contents(AddEntry(buffer, e))
      BY <1>1 DEF Add, Contents, Count, Slot
    <3>2. QED  BY <2>1, <3>1, AddEntryIsPush
  <2>3. replaced' = IF Len(Contents(buffer)) < MaxWriteOps
                    THEN NULL ELSE Head(Contents(buffer)).buffptr
    BY <1>1, <2>1, ReplacedIsOldest DEF Add
  <2>4. QED  BY <2>2, <2>3 DEF Log!Add, Log!Push, Push
<1>2. CASE UNCHANGED vars
  BY <1>2 DEF vars, Log!vars, Contents, Count, Slot
<1>3. QED  BY <1>1, <1>2 DEF Next, Log!Next

\* aesd-circular-buffer.c:57-58: the ring of any size is the bounded log
\* of the last MaxWriteOps entries, and overwrites only its oldest one.
THEOREM RingImplementsLog == Spec => ImplementsLog
<1>1. Init => Log!Init
  <2> SUFFICES ASSUME Init PROVE Log!Init
    OBVIOUS
  <2>1. Contents(buffer) = << >>
    BY MaxWriteOpsAssumption DEF Init, EmptyBuffer, Contents, Count, Slots
  <2>2. QED  BY <2>1 DEF Init, Log!Init
<1>2. QED
  BY <1>1, StepImplementsAdd, RingIsConsistent, PTL
     DEF Spec, Log!Spec, ImplementsLog

-----------------------------------------------------------------------------
\* A position is the index of a character of the concatenated commands: the
\* ring's find returns the entry and the offset of that very character.
LEMMA FindIsExact == TypeOK /\ RingInv => FindAgreesWithLog
<1> SUFFICES ASSUME TypeOK, RingInv,
                    NEW char_offset \in 0 .. Len(Concatenated) + 1
             PROVE  LET found == FindEntry(buffer, char_offset) IN
                    IF char_offset < Len(Concatenated)
                    THEN /\ found # NotFound
                         /\ Concatenated[char_offset + 1] =
                              <<buffer.entry[found.slot].buffptr, found.offset>>
                    ELSE found = NotFound
  BY DEF FindAgreesWithLog
<1> DEFINE C == Count(buffer)
           s == [k \in 1..C |-> Characters(Contents(buffer)[k])]
           found == FindEntry(buffer, char_offset)
           S == Pointer \X Nat
<1>1. /\ buffer \in RingOf(Entry) /\ Consistent(buffer, Entry)
      /\ Sized(buffer) /\ buffer.out_offs \in Slots
  <2>1. \A e \in Entry : e.size \in Nat
    BY SizeAssumption DEF Entry
  <2>2. QED  BY <2>1, RingIsSized DEF TypeOK, RingInv
<1>2. /\ C \in Nat /\ Contents(buffer) \in Seq(Entry)
      /\ \A k \in 1..C : /\ Contents(buffer)[k] \in Entry
                         /\ Slot(buffer, k - 1) \in Slots
                         /\ Contents(buffer)[k] =
                                buffer.entry[Slot(buffer, k - 1)]
  BY <1>1, ContentsType, CountType, ElementOfSeq
<1>3. ASSUME NEW e \in Entry
      PROVE  /\ Characters(e) \in Seq(S)
             /\ Len(Characters(e)) = e.size
             /\ \A i \in 1..e.size : Characters(e)[i] = <<e.buffptr, i - 1>>
  <2>1. e.size \in Nat /\ e.buffptr \in Pointer
    BY SizeAssumption DEF Entry
  <2>2. \A i \in 1..e.size : <<e.buffptr, i - 1>> \in S
    BY <2>1
  <2>3. Characters(e) \in [1..e.size -> S]
    BY <2>2, Zenon DEF Characters
  <2>4. QED  BY <2>1, <2>3, LenProperties DEF Characters
<1>4. /\ s \in Seq(Seq(S)) /\ Len(s) = C
      /\ \A k \in 1..C : Len(s[k]) = Contents(buffer)[k].size
  <2>1. \A k \in 1..C : s[k] = Characters(Contents(buffer)[k])
    OBVIOUS
  <2>2. s \in [1..C -> Seq(S)]
    BY <1>2, <1>3
  <2> HIDE DEF s, S
  <2>3. s \in Seq(Seq(S)) /\ Len(s) = C
    BY <1>2, <2>2
  <2>4. ASSUME NEW k \in 1..C PROVE Len(s[k]) = Contents(buffer)[k].size
    <3>1. Contents(buffer)[k] \in Entry /\ s[k] = Characters(Contents(buffer)[k])
      BY <1>2, <2>1
    <3>2. QED  BY <1>3, <3>1
  <2>5. QED  BY <2>3, <2>4
<1>5. Concatenated = FlattenSeq(s)
  BY DEF Concatenated
<1>6. Len(Concatenated) \in Nat
  BY <1>4, <1>5, FlattenType, LenProperties
<1>7. char_offset \in Nat
  BY <1>6
<1> HIDE DEF s, S
<1>8. IF char_offset < Len(Concatenated)
      THEN \E k \in 1..C : \E j \in Nat :
             /\ found = [slot |-> Slot(buffer, k - 1), offset |-> j]
             /\ j < Len(s[k])
             /\ \A i \in 1 .. Len(s[k]) - j :
                    Concatenated[char_offset + i] = s[k][j + i]
      ELSE found = NotFound
  <2>1. IF char_offset < Len(FlattenSeq(s))
        THEN \E k \in 1..C : \E j \in Nat :
               /\ found = [slot |-> Slot(buffer, k - 1), offset |-> j]
               /\ j < Len(s[k])
               /\ char_offset + (Len(s[k]) - j) <= Len(FlattenSeq(s))
               /\ \A i \in 1 .. Len(s[k]) - j :
                      FlattenSeq(s)[char_offset + i] = s[k][j + i]
        ELSE found = NotFound
    BY <1>1, <1>4, <1>7, FindInConcatenation, Zenon
  <2>2. QED  BY <1>5, <2>1
<1>9. CASE char_offset < Len(Concatenated)
  <2>1. PICK k \in 1..C, j \in Nat :
             /\ found = [slot |-> Slot(buffer, k - 1), offset |-> j]
             /\ j < Len(s[k])
             /\ \A i \in 1 .. Len(s[k]) - j :
                    Concatenated[char_offset + i] = s[k][j + i]
    BY <1>8, <1>9
  <2> DEFINE e == Contents(buffer)[k]
  <2>2. /\ e \in Entry /\ e.size \in Nat /\ e.size = Len(s[k])
        /\ e = buffer.entry[found.slot] /\ found.slot \in Slots
    BY <1>2, <1>4, <2>1, SizeAssumption DEF Entry
  <2>3. Concatenated[char_offset + 1] = s[k][j + 1]
    BY <2>1, <2>2
  <2>4. s[k] = Characters(e)
    BY DEF s
  <2>5. s[k][j + 1] = <<e.buffptr, j>>
    <3>1. j + 1 \in 1..e.size /\ (j + 1) - 1 = j
      BY <2>1, <2>2
    <3> HIDE DEF e
    <3>2. Characters(e)[j + 1] = <<e.buffptr, (j + 1) - 1>>
      BY <1>3, <2>2, <3>1
    <3>3. QED  BY <2>4, <3>1, <3>2
  <2>6. found # NotFound
    BY <2>2, SlotAssumption DEF NotFound
  <2>7. QED  BY <1>9, <2>1, <2>2, <2>3, <2>5, <2>6
<1>10. CASE ~(char_offset < Len(Concatenated))
  BY <1>8, <1>10
<1>11. QED  BY <1>9, <1>10

\* aesd-circular-buffer.c:21: char_offset is "the zero referenced character
\* index if all buffer strings were concatenated end to end", also after the
\* ring has wrapped, and a position at or past their end is not found.
THEOREM FindReadsConcatenation == Spec => []FindAgreesWithLog
  BY FindIsExact, RingIsConsistent, PTL

=============================================================================
