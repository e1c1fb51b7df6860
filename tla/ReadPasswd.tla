----------------------------- MODULE ReadPasswd -----------------------------
(***************************************************************************)
(* Typing a password (pass.rs): the terminal in raw mode, the bounded      *)
(* buffer, and one star per byte where the rule says pwfeedback.           *)
(*                                                                         *)
(* Of the line on the screen only its length matters: CLEAR, "\b \b",      *)
(* takes its last character away.                                          *)
(***************************************************************************)
EXTENDS Integers, Sequences

CONSTANTS
    Bytes,      \* bytes that are not ASCII control characters
    Nul,        \* the byte 0
    Capacity,   \* PAM_MAX_RESP_SIZE + 1
    Prompt      \* length of the prompt

ASSUME ReadPasswdAssumption ==
    Nul \notin Bytes /\ Capacity \in Nat /\ Prompt \in Nat

VARIABLES
    pwfeedback,
    phase,      \* "new", "prompt", "read", "push", "drop", "end"
    result,     \* what read_passwd returns: "ok", "err"; "exit": Ctrl-C
    buf,        \* ArrayRef<c_char>
    pending,    \* output owed for the byte just read, as a change of the line
    raw,        \* the terminal is in raw mode
    origin,     \* origin_termios is raw mode
    line,       \* length of the line on the screen
    undone      \* history: what Drop for Term failed to do

feedback == <<pending, line>>
mode     == <<raw, origin, undone>>
vars     == <<pwfeedback, phase, result, buf, feedback, mode>>

Init ==
    /\ pwfeedback \in BOOLEAN
    /\ phase = "new"
    /\ result = "none"
    /\ buf = <<>>
    /\ pending = 0
    /\ raw = FALSE
    /\ origin = FALSE
    /\ line = 0
    /\ undone = {}

Fail == phase' = "drop" /\ result' = "err"

\* Term::new: /dev/tty cannot be opened or set, or is raw from here on.
NewFails ==
    /\ phase = "new"
    /\ phase' = "end"
    /\ result' = "err"
    /\ UNCHANGED <<pwfeedback, buf, feedback, mode>>

New ==
    /\ phase = "new"
    /\ origin' = raw
    /\ raw' = TRUE
    /\ phase' = "prompt"
    /\ UNCHANGED <<pwfeedback, result, buf, feedback, undone>>

WritePrompt ==
    /\ phase = "prompt"
    /\ line' = Prompt
    /\ phase' = "read"
    /\ UNCHANGED <<pwfeedback, result, buf, pending, mode>>

\* Mutant: the stars are cleared also when there are none.
ReadErase_Always(n) ==
    /\ phase = "read" /\ pending = 0
    /\ buf # <<>>
    /\ buf' = SubSeq(buf, 1, Len(buf) - n)
    /\ line' = line - n
    /\ UNCHANGED <<pwfeedback, phase, result, pending, mode>>

\* Feedback first, then the buffer: CTRL_U, BACKSPACE, DEL.
ReadErase(n) ==
    /\ phase = "read" /\ pending = 0
    /\ buf # <<>>
    /\ buf' = SubSeq(buf, 1, Len(buf) - n)
    /\ line' = IF pwfeedback THEN line - n ELSE line
    /\ UNCHANGED <<pwfeedback, phase, result, pending, mode>>

\* Mutant: off by one at the end of the buffer.
ReadByte_Overflows(b) ==
    /\ phase = "read" /\ pending = 0
    /\ Len(buf) <= Capacity
    /\ buf' = Append(buf, b)
    /\ pending' = IF pwfeedback THEN 1 ELSE 0
    /\ UNCHANGED <<pwfeedback, phase, result, line, mode>>

\* The buffer first, then its star.
ReadByte(b) ==
    /\ phase = "read" /\ pending = 0
    /\ Len(buf) < Capacity
    /\ buf' = Append(buf, b)
    /\ pending' = IF pwfeedback THEN 1 ELSE 0
    /\ UNCHANGED <<pwfeedback, phase, result, line, mode>>

WriteStar ==
    /\ phase = "read" /\ pending = 1
    /\ line' = line + 1
    /\ pending' = 0
    /\ UNCHANGED <<pwfeedback, phase, result, buf, mode>>

TooLong ==
    /\ phase = "read" /\ pending = 0
    /\ Len(buf) = Capacity
    /\ Fail
    /\ UNCHANGED <<pwfeedback, buf, feedback, mode>>

\* A read or a write on the terminal fails.
IoError ==
    /\ phase \in {"prompt", "read"}
    /\ Fail
    /\ UNCHANGED <<pwfeedback, buf, feedback, mode>>

\* '\n', '\r', CTRL_D
ReadEnd ==
    /\ phase = "read" /\ pending = 0
    /\ phase' = "push"
    /\ UNCHANGED <<pwfeedback, result, buf, feedback, mode>>

ReadCtrlC ==
    /\ phase = "read" /\ pending = 0
    /\ phase' = "drop"
    /\ result' = "exit"
    /\ UNCHANGED <<pwfeedback, buf, feedback, mode>>

\* Mutant: a full buffer is returned without its terminator.
PushNul_Ignored ==
    /\ phase = "push"
    /\ phase' = "drop"
    /\ result' = "ok"
    /\ buf' = IF Len(buf) < Capacity THEN Append(buf, Nul) ELSE buf
    /\ UNCHANGED <<pwfeedback, feedback, mode>>

\* The terminator takes a place in the buffer too.
PushNul ==
    /\ phase = "push"
    /\ phase' = "drop"
    /\ IF Len(buf) < Capacity
       THEN buf' = Append(buf, Nul) /\ result' = "ok"
       ELSE buf' = buf /\ result' = "err"
    /\ UNCHANGED <<pwfeedback, feedback, mode>>

Stars == IF pwfeedback THEN Len(buf) ELSE 0

\* Drop for Term: erase the feedback, then back to the mode before.  Either call may
\* fail, and nobody looks; a write that fails may have erased some of it.
DropTerm(failed) ==
    /\ phase = "drop"
    /\ "clear" \in failed => Stars > 0
    /\ line' \in (line - Stars)..(IF "clear" \in failed THEN line ELSE line - Stars)
    /\ raw' = IF "restore" \in failed THEN raw ELSE origin
    /\ undone' = undone \cup failed
    /\ phase' = "end"
    /\ UNCHANGED <<pwfeedback, result, buf, pending, origin>>

Next ==
    \/ New \/ NewFails \/ WritePrompt
    \/ \E n \in {1, Len(buf)} : ReadErase(n)
    \/ \E b \in Bytes : ReadByte(b)
    \/ WriteStar \/ TooLong \/ IoError \/ ReadEnd \/ ReadCtrlC \/ PushNul
    \/ \E failed \in SUBSET {"clear", "restore"} : DropTerm(failed)

Spec == Init /\ [][Next]_vars

----------------------------------------------------------------------------
\* Every variable keeps its shape, and the buffer its bound.
TypeOK ==
    /\ pwfeedback \in BOOLEAN /\ raw \in BOOLEAN /\ origin \in BOOLEAN
    /\ phase \in {"new", "prompt", "read", "push", "drop", "end"}
    /\ result \in {"none", "ok", "err", "exit"}
    /\ buf \in Seq(Bytes \cup {Nul}) /\ Len(buf) <= Capacity
    /\ pending \in {0, 1} /\ line \in Int /\ undone \subseteq {"clear", "restore"}

\* However the user types, erases and starts over: there is a star on the screen
\* for every byte in the buffer, and none without pwfeedback.  When reading is
\* over the prompt stands, short of one character at most, as the terminator
\* counts as a star; and no star is left, unless the terminal refused to clear.
StarsMatchBuffer ==
    /\ phase \in {"read", "push"} => line + pending = Prompt + Stars
    /\ phase = "end" /\ result \in {"ok", "exit"} =>
          /\ line >= IF result = "ok" THEN Prompt - 1 ELSE Prompt
          /\ "clear" \notin undone => line <= Prompt

\* What pam_prompt hands to strdup ends in the one NUL it contains.
PasswordTerminated ==
    phase = "end" /\ result = "ok" =>
        /\ buf # <<>> /\ buf[Len(buf)] = Nul
        /\ \A i \in 1..(Len(buf) - 1) : buf[i] # Nul
=============================================================================
