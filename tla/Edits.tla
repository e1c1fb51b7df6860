------------------------------- MODULE Edits -------------------------------
(***************************************************************************)
(* What vidoas promises, without files, locks and times.  /etc/doas.conf   *)
(* has a text, and there may be a draft of a new one, which outlives the   *)
(* session it was made in.  One session at a time works on the draft, that *)
(* of someone whom a valid text has admitted, once for each session; what  *)
(* it installs is the draft as it was judged, all of it in one step.       *)
(*                                                                         *)
(* By the time it begins, another text may be installed, a forced and      *)
(* invalid one even: who has been admitted is not asked again.             *)
(*                                                                         *)
(* The promise ends, for good, with a session that missed the installation *)
(* of another one (`lost`).                                                *)
(***************************************************************************)
CONSTANTS
    Procs, Nobody,
    Texts, Original,
    Verdict           \* what check_config says of a text

VARIABLES
    installed,  \* the text of doas.conf
    admitted,   \* whom a text that was installed has let in
    draft,      \* <<>>, or the text of the draft
    editor,     \* the process in a session, or Nobody
    judged,     \* of the draft, in this session: "no", "warned", "yes"
    lost

vars == <<installed, admitted, draft, editor, judged, lost>>

Init ==
    /\ installed = Original
    /\ admitted = {}
    /\ draft = <<>>
    /\ editor = Nobody
    /\ judged = "no"
    /\ lost = FALSE

Admit(p) ==
    /\ Verdict[installed] = "ok"
    /\ admitted' = admitted \cup {p}
    /\ UNCHANGED <<installed, draft, editor, judged, lost>>

Begin(p) ==
    /\ editor = Nobody
    /\ p \in admitted
    /\ admitted' = admitted \ {p}
    /\ editor' = p
    /\ UNCHANGED <<installed, draft, judged, lost>>

\* Without a session: no password, another session in the way, or killed.
Dismiss(p) ==
    /\ admitted' = admitted \ {p}
    /\ UNCHANGED <<installed, draft, editor, judged, lost>>

\* Creating, copying, editing, replacing and removing it: a judgement is void.
Write(d) ==
    /\ editor # Nobody
    /\ draft' = d
    /\ judged' = "no"
    /\ UNCHANGED <<installed, admitted, editor, lost>>

Pass ==
    /\ editor # Nobody /\ judged = "no"
    /\ \E t \in Texts : draft = <<t>> /\ Verdict[t] = "ok"
    /\ judged' = "yes"
    /\ UNCHANGED <<installed, admitted, draft, editor, lost>>

Warn ==
    /\ editor # Nobody /\ judged = "no"
    /\ \E t \in Texts : draft = <<t>> /\ Verdict[t] \in {"syntax", "deny"}
    /\ judged' = "warned"
    /\ UNCHANGED <<installed, admitted, draft, editor, lost>>

\* The user insists.
Accept ==
    /\ editor # Nobody /\ judged = "warned"
    /\ judged' = "yes"
    /\ UNCHANGED <<installed, admitted, draft, editor, lost>>

Ends ==
    /\ editor # Nobody /\ editor' = Nobody /\ judged' = "no"
    /\ UNCHANGED <<admitted, lost>>

Install ==
    /\ judged = "yes"
    /\ draft = <<installed'>>
    /\ draft' = <<>>
    /\ Ends

\* With the draft, or leaving it to the next session.
Leave ==
    /\ draft' \in {draft, <<>>}
    /\ Ends
    /\ UNCHANGED installed

\* A session begins on a text that is no longer installed.
Race(p) ==
    /\ p \in admitted
    /\ admitted' = admitted \ {p}
    /\ lost' = TRUE /\ editor' = Nobody /\ judged' = "no"
    /\ UNCHANGED <<installed, draft>>

Next ==
    \/ \E p \in Procs : Admit(p) \/ Begin(p) \/ Dismiss(p) \/ Race(p)
    \/ \E d \in {<<>>} \cup {<<t>> : t \in Texts} : Write(d)
    \/ Pass \/ Warn \/ Accept \/ Install \/ Leave
    \/ lost /\ lost'

Spec == Init /\ [][Next]_vars
============================================================================
