---------------------------- MODULE VidoasEdits ----------------------------
(***************************************************************************)
(* Vidoas implements Edits: the draft is the file named /etc/doas.tmp, and *)
(* what is known of it follows from where the one session stands.          *)
(***************************************************************************)
EXTENDS Vidoas

Judgement(p) ==
    IF At(p, "prompt") THEN "warned"
    ELSE IF pc[p] \in {"save", "compare", "attrs", "rename"} THEN "yes" ELSE "no"

Admitted  == {p \in Procs : pc[p] \in {"admitted", "lock"}}
InSession == {p \in Procs : pc[p] \in Session}

TheEditor == IF stale \/ InSession = {} THEN Nobody ELSE CHOOSE p \in InSession : TRUE
TheDraft  == IF temp = NoInode THEN <<>> ELSE <<text[temp]>>
Judged    == IF TheEditor = Nobody THEN "no" ELSE Judgement(TheEditor)

Abstract == INSTANCE Edits WITH
    installed <- text[conf], admitted <- Admitted, draft <- TheDraft, editor <- TheEditor,
    judged <- Judged, lost <- stale

\* Every interleaving of the sessions, call by call, whichever of them die and
\* whatever their editors do, edits doas.conf as if there were one session at a
\* time: doas.conf changes in one step, to the whole of the text that this very
\* session has had checked, and never while it is being judged, written or copied.
ImplementsEdits == Abstract!Spec
============================================================================
