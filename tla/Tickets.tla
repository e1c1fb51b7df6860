------------------------------ MODULE Tickets ------------------------------
(***************************************************************************)
(* What "persist" promises, without files, names and clocks.  A session    *)
(* has one register at a time, and the register may hold a ticket.  A run  *)
(* of doas uses the register that was the current one when it opened it;   *)
(* `doas -L`, and a run that finds none, start an empty register, and the  *)
(* runs under way are left with the old one.                               *)
(*                                                                         *)
(* A run is admitted on a ticket in its register or after the user was     *)
(* authorised; only then may it leave a ticket, and only where the current *)
(* register is its own.  What it leaves in an old one is lost to every run *)
(* that begins later.                                                      *)
(***************************************************************************)
CONSTANTS Procs, Keys, NoKey

VARIABLES
    session,  \* the session a run belongs to
    stage,    \* "away", "asking", "cleared"
    book,     \* the register of a run: "none", "current", "old"
    ticket,   \* the sessions with a ticket in their current register
    known     \* sessions for which an authorisation is still on record somewhere

vars == <<session, stage, book, ticket, known>>

Init ==
    /\ session = [p \in Procs |-> NoKey]
    /\ stage = [p \in Procs |-> "away"]
    /\ book = [p \in Procs |-> "none"]
    /\ ticket = {}
    /\ known = {}

\* A record is gone when nothing refers to it any more.
Lapse == known' \subseteq known

\* The register of session k is no longer the current one.
Superseded(k) ==
    [p \in Procs |-> IF session[p] = k /\ book[p] = "current" THEN "old" ELSE book[p]]

Start(p, k) ==
    /\ stage[p] = "away"
    /\ session' = [session EXCEPT ![p] = k]
    /\ stage' = [stage EXCEPT ![p] = "asking"]
    /\ UNCHANGED <<book, ticket, known>>

Open(p) ==
    /\ stage[p] = "asking" /\ book[p] = "none"
    /\ book' = [book EXCEPT ![p] = "current"]
    /\ UNCHANGED <<session, stage, ticket, known>>

OpenEmpty(p) ==
    /\ stage[p] = "asking" /\ book[p] = "none"
    /\ book' = [Superseded(session[p]) EXCEPT ![p] = "current"]
    /\ ticket' = ticket \ {session[p]}
    /\ Lapse
    /\ UNCHANGED <<session, stage>>

Close(p) ==
    /\ stage[p] = "asking"
    /\ book' = [book EXCEPT ![p] = "none"]
    /\ Lapse
    /\ UNCHANGED <<session, stage, ticket>>

\* No password: there must be a ticket, or have been one in an old register.
Admit(p) ==
    /\ stage[p] = "asking"
    /\ \/ book[p] = "current" /\ session[p] \in ticket
       \/ book[p] = "old" /\ session[p] \in known
    /\ stage' = [stage EXCEPT ![p] = "cleared"]
    /\ UNCHANGED <<session, book, ticket, known>>

\* A password, or a rule with nopass
Authorise(p) ==
    /\ stage[p] = "asking" /\ book[p] # "none"
    /\ stage' = [stage EXCEPT ![p] = "cleared"]
    /\ known' \subseteq known \cup {session[p]}
    /\ UNCHANGED <<session, book, ticket>>

Leaves(p) ==
    /\ session' = [session EXCEPT ![p] = NoKey]
    /\ stage' = [stage EXCEPT ![p] = "away"]
    /\ book' = [book EXCEPT ![p] = "none"]
    /\ Lapse

Write(p) ==
    /\ stage[p] = "cleared"
    /\ ticket' = IF book[p] = "current" THEN ticket \cup {session[p]} ELSE ticket
    /\ Leaves(p)

Leave(p) == Leaves(p) /\ UNCHANGED ticket

Revoke(k) ==
    /\ ticket' = ticket \ {k}
    /\ book' = Superseded(k)
    /\ Lapse
    /\ UNCHANGED <<session, stage>>

Forget == Lapse /\ UNCHANGED <<session, stage, book, ticket>>

\* Registers may outlive the machine's uptime; runs do not.
Restart ==
    /\ session' = [p \in Procs |-> NoKey]
    /\ stage' = [p \in Procs |-> "away"]
    /\ book' = [p \in Procs |-> "none"]
    /\ ticket' \in {ticket, {}}
    /\ Lapse

Next ==
    \/ \E p \in Procs :
          \/ \E k \in Keys : Start(p, k)
          \/ Open(p) \/ OpenEmpty(p) \/ Close(p) \/ Admit(p) \/ Authorise(p)
          \/ Write(p) \/ Leave(p)
    \/ \E k \in Keys : Revoke(k)
    \/ Forget \/ Restart

Spec == Init /\ [][Next]_vars
=============================================================================
