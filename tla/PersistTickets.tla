--------------------------- MODULE PersistTickets ---------------------------
(***************************************************************************)
(* Persist implements Tickets: the register of a session is the file its   *)
(* name refers to, and a run keeps its register by an open descriptor.     *)
(***************************************************************************)
EXTENDS PersistInv

\* The states of main.rs after the question of a password is settled.
StageOf(p) ==
    IF At(p, "idle") THEN "away" ELSE IF pc[p] \in GrantPhases THEN "cleared" ELSE "asking"

BookOf(p) ==
    IF ~HoldsOpen(p) THEN "none" ELSE IF path[key(p)] = fd[p] THEN "current" ELSE "old"

\* The name refers to a file that was stamped.
HasTicket(k) == path[k] # NoFile /\ minted[path[k]].root # "none"

\* A file somebody can reach, or a process, goes back to an authorisation.
Records(m, k) == m.root # "none" /\ m.key = k

OnRecord(k) ==
    \/ \E i \in Inodes \ Free : Records(minted[i], k)
    \/ \E p \in Procs : Records(basis[p], k)

Sessions == [p \in Procs |-> key(p)]
Stages   == [p \in Procs |-> StageOf(p)]
Books    == [p \in Procs |-> BookOf(p)]
Ticketed == {k \in Keys : HasTicket(k)}
Known    == {k \in Keys : OnRecord(k)}

Abstract == INSTANCE Tickets WITH
    session <- Sessions, stage <- Stages, book <- Books, ticket <- Ticketed, known <- Known

\* Every run of the processes, call by call, with every crash, failure and race
\* of theirs, is one of the registers: in particular a stamp written after
\* `doas -L`, or after another process renamed its own file into place, never
\* becomes a ticket of the session.
ImplementsTickets == Abstract!Spec
=============================================================================
