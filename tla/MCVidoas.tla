----------------------------- MODULE MCVidoas -----------------------------
(***************************************************************************)
(* Small instances of Vidoas.                                              *)
(***************************************************************************)
EXTENDS VidoasEdits, TLC

CONSTANTS Good, Broken, Lockout, Unreadable

FourTexts  == {Original, Cut, Good, Broken}
AllTexts   == FourTexts \cup {Lockout, Unreadable}
VerdictOf  == (Original :> "ok") @@ (Cut :> "ok") @@ (Good :> "ok") @@ (Broken :> "syntax")
VerdictOfAll == VerdictOf @@ (Lockout :> "deny") @@ (Unreadable :> "error")

SymProcs  == Permutations(Procs)
SymInodes == Permutations(Inodes)
SymBoth   == SymProcs \cup SymInodes

\* What a freed inode held is overwritten before it can be read again.
InUse    == Inodes \ Free
LiveView == <<conf, temp, [i \in InUse |-> <<text[i], mtime[i], attr[i], vet[i], lock[i]>>],
              now, pc, locals, history>>

\* Every property of the runs that use this holds once stale does.
NotStale == ~stale
============================================================================
