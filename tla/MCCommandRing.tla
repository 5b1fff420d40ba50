--------------------------- MODULE MCCommandRing ----------------------------
\* The ring with three slots: it fills, wraps and drops entries of every size.
EXTENDS CommandRing

CONSTANTS p, q, r

MCPointer == {p, q, r}
MCSize    == 1..2

=============================================================================
