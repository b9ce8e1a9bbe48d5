--------------------------- MODULE MCPeriodClose ---------------------------
EXTENDS PeriodClose, TLC

CONSTANTS local, local2, due

MCDueMonth == [o \in Obligations |-> 1]

\* Closers are alike, and nothing but safety is asked of them.
ClosersAlike == Permutations(Closers)
=============================================================================
