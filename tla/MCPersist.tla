----------------------------- MODULE MCPersist -----------------------------
(***************************************************************************)
(* Small instances of Persist.                                             *)
(***************************************************************************)
EXTENDS PersistTickets, TLC

CONSTANTS P1, P2, K1, K2, G1, G2

PersistFor(d) == [persist |-> TRUE, timeout |-> d, nopass |-> FALSE]
Nopass        == [persist |-> FALSE, timeout |-> 0, nopass |-> TRUE]
NopassFor(d)  == [persist |-> TRUE, timeout |-> d, nopass |-> TRUE]

RaceRules  == {PersistFor(1), Nopass, NoRule}
ShortRule  == {PersistFor(1)}
TimeRules  == {PersistFor(1), NopassFor(2), NoRule}

NoSteps   == {}
BothSteps == {-1, 1}
Short     == {0, 1}

SymProcs  == Permutations(Procs)
SymInodes == Permutations(Inodes)
SymBoth   == SymProcs \cup SymInodes
SymNames  == SymBoth \cup Permutations(Keys) \cup Permutations(Gids)

\* What a freed inode held is overwritten before it can be read again, so two
\* states that differ only there are one.
InUse    == Inodes \ Free
LiveView == <<dir, path, tmp, [i \in InUse |-> <<files[i], minted[i]>>],
              clocks, pc, local>>
============================================================================
