----------------------------- MODULE MCAesdChar -----------------------------
(***************************************************************************)
(* Two tasks that share one open file, and four blocks of memory: enough   *)
(* for a full ring of two, an unterminated command and a place to move it. *)
(***************************************************************************)
EXTENDS AesdChar, TLC

CONSTANTS t1, t2, f1, b1, b2, b3, b4, a, b, nl

MCTask  == {t1, t2}
MCFile  == {f1}
MCBlock == {b1, b2, b3, b4}

MCSymmetry == Permutations(MCTask) \cup Permutations(MCBlock)

\* A part of a command, the end of one, and a whole one.
MCPayload == {<<a>>, <<nl>>, <<b, nl>>}

MCReadCount == {2}

\* SEEK_CUR backwards, SEEK_END.
MCSeek == {<<-1, 1>>, <<0, 2>>}

At(cmd, off) == [write_cmd |-> cmd, write_cmd_offset |-> off]

MCArg == {At(0, 0), At(1, 1), NULL}

-----------------------------------------------------------------------------
(***************************************************************************)
(* The smaller instance for liveness, faults and reloads: a ring of one    *)
(* command, and the calls the other instance leaves out.                   *)
(***************************************************************************)
SmallBlock   == {b1, b2}
SmallPayload == {<<a>>, <<nl>>}
SmallCount   == {1}

\* SEEK_SET, and SEEK_DATA, which the driver does not know.
SmallSeek == {<<0, 0>>, <<0, 3>>}

SmallArg == {At(0, 0), BadAddress, OtherCmd}

=============================================================================
