-------------------------- MODULE AesdDeviceProofs --------------------------
(***************************************************************************)
(* What the loops of aesd_llseek and aesd_ioctl compute, for every number  *)
(* of slots: the size of all that is stored, and where a seek arrives.     *)
(***************************************************************************)
EXTENDS AesdDevice, CircularBufferProofs

LEMMA SizeOfSlotsAdds ==
    ASSUME NEW b, Sized(b)
    PROVE  /\ SizeOfSlots(b) \in [0..MaxWriteOps -> Nat]
           /\ SizeOfSlots(b)[0] = 0
           /\ \A i \in Slots :
                SizeOfSlots(b)[i + 1] = SizeOfSlots(b)[i] + b.entry[i].size
<1> DEFINE N == MaxWriteOps
           v == [i \in 0 .. N - 1 |-> b.entry[i].size]
           g == SizeOfSlots(b)
           Sum(f) == [i \in 0..N |-> IF i = 0 THEN 0
                                     ELSE f[i - 1] + b.entry[i - 1].size]
<1>1. N \in Nat
  BY MaxWriteOpsAssumption
<1>2. v \in [0 .. N - 1 -> Nat]
  BY DEF Sized, Slots
<1>3. \A f : RunsOver(f, v, N) <=> f = Sum(f)
  <2>1. \A i \in 1..N : v[i - 1] = b.entry[i - 1].size
    BY <1>1
  <2>2. \A f : Sum(f) = [i \in 0..N |-> IF i = 0 THEN 0
                                        ELSE f[i - 1] + v[i - 1]]
    <3> HIDE DEF v
    <3> QED  BY <1>1, <2>1
  <2>3. QED
    <3> HIDE DEF v, Sum
    <3> QED  BY <2>2, Zenon DEF RunsOver
<1>4. \E f : f = Sum(f)
  <2> HIDE DEF N, v, Sum
  <2> QED  BY <1>1, <1>2, <1>3, RunExists
<1>5. g = Sum(g)
  BY <1>4, Zenon DEF SizeOfSlots
<1>6. RunsOver(g, v, N)
  <2> HIDE DEF g, v, N, Sum
  <2> QED  BY <1>3, <1>5
<1>7. /\ g \in [0..N -> Nat]
      /\ g[0] = 0
      /\ \A i \in 0 .. N - 1 : g[i + 1] = g[i] + v[i]
  <2> HIDE DEF g, v, N
  <2> QED  BY <1>1, <1>2, <1>6, RunAdds
<1>8. QED  BY <1>7 DEF Slots

LEMMA SizeOfSlotsIncreases ==
    ASSUME NEW b, Sized(b),
           NEW j \in 0..MaxWriteOps, NEW k \in 0..MaxWriteOps, j <= k
    PROVE  SizeOfSlots(b)[j] <= SizeOfSlots(b)[k]
<1> DEFINE g == SizeOfSlots(b)
<1>1. MaxWriteOps \in Nat
  BY MaxWriteOpsAssumption
<1>2. g \in [0..MaxWriteOps -> Nat]
  BY SizeOfSlotsAdds
<1>3. ASSUME NEW i \in 0 .. MaxWriteOps - 1 PROVE g[i] <= g[i + 1]
  <2>1. i \in Slots /\ b.entry[i].size \in Nat
    BY DEF Slots, Sized
  <2>2. g[i + 1] = g[i] + b.entry[i].size
    BY <2>1, SizeOfSlotsAdds
  <2>3. g[i] \in Nat
    BY <1>1, <1>2
  <2>4. QED
    <3> HIDE DEF g
    <3> QED  BY <2>1, <2>2, <2>3
<1>4. g[j] <= g[k]
  <2> HIDE DEF g
  <2> QED  BY <1>1, <1>2, <1>3, RunIncreases
<1>5. QED  BY <1>4 DEF g

\* As long as nothing was dropped, array order is the order of the commands.
LEMMA SameOrderUntilDropped ==
    ASSUME NEW b, Sized(b), b.out_offs = 0, NEW k \in 0..MaxWriteOps
    PROVE  SizeBefore(b)[k] = SizeOfSlots(b)[k]
<1> DEFINE N == MaxWriteOps
           g == SizeBefore(b)
           s == SizeOfSlots(b)
           Bad == {i \in 0..N : g[i] # s[i]}
<1>1. N \in 1..255 /\ b.out_offs \in Slots
  BY MaxWriteOpsAssumption DEF Slots
<1>2. g[0] = 0 /\ s[0] = 0
  BY <1>1, SizeBeforeAdds, SizeOfSlotsAdds
<1>3. ASSUME NEW i \in Slots
      PROVE  /\ g[i + 1] = g[i] + b.entry[i].size
             /\ s[i + 1] = s[i] + b.entry[i].size
  <2>1. Slot(b, i) = i
    BY <1>1, SlotValue DEF Slots
  <2>2. QED  BY <1>1, <2>1, SizeBeforeAdds, SizeOfSlotsAdds
<1> HIDE DEF g, s
<1>4. ASSUME NEW n \in Bad PROVE n # 0 /\ n - 1 \in Bad
  <2>1. n \in 0..N /\ n # 0
    BY <1>2
  <2>2. n - 1 \in Slots /\ n - 1 \in 0..N /\ (n - 1) + 1 = n
    BY <1>1, <2>1 DEF Slots
  <2>3. g[n - 1] # s[n - 1]
    BY <1>3, <2>2
  <2>4. QED  BY <2>1, <2>2, <2>3
<1>5. Bad = {}
  <2>1. Bad \in SUBSET (0..N)
    OBVIOUS
  <2> HIDE DEF Bad
  <2> QED  BY <1>1, <1>4, <2>1, NoDescent
<1>6. QED  BY <1>5 DEF g, s

\* main.c:285-306: an accepted seek stays inside the stored bytes, and is
\* exact as long as the ring has dropped nothing.
THEOREM SeekToInside ==
    ASSUME NEW b, Sized(b), b.out_offs \in Slots,
           NEW write_cmd \in Nat, NEW write_cmd_offset \in Nat,
           SeekTo(b, write_cmd, write_cmd_offset) # EINVAL
    PROVE  LET newpos == SeekTo(b, write_cmd, write_cmd_offset) IN
           /\ newpos \in Nat
           /\ newpos < TotalSize(b)
           /\ b.out_offs = 0 =>
                newpos = SizeBefore(b)[write_cmd] + write_cmd_offset
<1> DEFINE N == MaxWriteOps
           g == SizeOfSlots(b)
           newpos == SeekTo(b, write_cmd, write_cmd_offset)
<1>1. N \in 1..255
  BY MaxWriteOpsAssumption
<1>2. /\ ~(write_cmd > N - 1)
      /\ ~(write_cmd_offset >= b.entry[write_cmd].size)
      /\ newpos = g[write_cmd] + write_cmd_offset
  BY DEF SeekTo, SlotPosition
<1>3. write_cmd \in Slots /\ write_cmd \in 0..N /\ write_cmd + 1 \in 0..N
  BY <1>1, <1>2 DEF Slots
<1>4. b.entry[write_cmd].size \in Nat
  BY <1>3 DEF Sized
<1>5. g[write_cmd + 1] = g[write_cmd] + b.entry[write_cmd].size
  BY <1>3, SizeOfSlotsAdds
<1>6. g[write_cmd] \in Nat /\ g[write_cmd + 1] \in Nat /\ g[N] \in Nat
  BY <1>1, <1>3, SizeOfSlotsAdds
<1>7. g[write_cmd + 1] <= g[N]
  BY <1>1, <1>3, SizeOfSlotsIncreases
<1>8. b.out_offs = 0 => SizeBefore(b)[write_cmd] = g[write_cmd]
  BY <1>3, SameOrderUntilDropped
<1> HIDE DEF g, newpos
<1>9. newpos \in Nat /\ newpos < g[N]
  BY <1>2, <1>4, <1>5, <1>6, <1>7
<1>10. QED  BY <1>2, <1>8, <1>9 DEF g, newpos, TotalSize

LEMMA TotalSizeType ==
    ASSUME NEW b, Sized(b)
    PROVE  TotalSize(b) \in Nat
  BY MaxWriteOpsAssumption, SizeOfSlotsAdds DEF TotalSize

LEMMA SeekTargetType ==
    ASSUME NEW b, Sized(b), NEW f_pos \in Nat, NEW off \in Int, NEW whence
    PROVE  SeekTarget(b, f_pos, off, whence) \in Nat \cup {EINVAL}
<1>1. TotalSize(b) \in Nat
  BY TotalSizeType
<1> DEFINE newpos == CASE whence = 0 -> off
                       [] whence = 1 -> f_pos + off
                       [] whence = 2 -> TotalSize(b) + off
                       [] OTHER      -> -1
<1>2. newpos \in Int
  <2> HIDE DEF TotalSize
  <2>1. CASE whence = 0
    BY <2>1
  <2>2. CASE whence = 1
    BY <2>2
  <2>3. CASE whence = 2
    BY <1>1, <2>3
  <2>4. CASE whence \notin {0, 1, 2}
    BY <2>4
  <2>5. QED  BY <2>1, <2>2, <2>3, <2>4
<1>3. SeekTarget(b, f_pos, off, whence) = IF newpos < 0 THEN EINVAL ELSE newpos
  BY DEF SeekTarget
<1> HIDE DEF newpos
<1>4. QED  BY <1>2, <1>3

=============================================================================
