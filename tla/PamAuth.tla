------------------------------ MODULE PamAuth ------------------------------
(***************************************************************************)
(* Authentication (verify.rs, pam.rs): up to three runs of pam_auth, each  *)
(* a transaction with libpam in which libpam calls pamconv back, and       *)
(* pamconv asks the user (ReadPasswd).                                     *)
(*                                                                         *)
(* libpam is external: whatever it is called for, it converses as often as *)
(* it likes, and what it answers is a nondeterministic choice.             *)
(***************************************************************************)
EXTENDS Integers, Sequences

CONSTANTS
    Bytes, Nul, Capacity, Prompt,  \* as in ReadPasswd
    MaxMsgs,                       \* bound on the messages of one conversation
    MaxTalks                       \* bound on the conversations of one libpam call

ASSUME PamAuthAssumption ==
    /\ MaxMsgs \in Nat \ {0} /\ MaxTalks \in Nat
    /\ Nul \notin Bytes /\ Capacity \in Nat /\ Prompt \in Nat

VARIABLES
    pwfeedback, phase, result, buf, pending, raw, origin, line, undone,  \* of ReadPasswd
    pc,
    attempt,   \* rounds of the loop in verify::auth
    call,      \* the libpam call in progress, or the last one
    talks,     \* conversations so far
    response,  \* PamResp: "empty" or "secret" for every message; <<>> if none
    at,        \* index of the message pamconv is at
    handle,    \* pam_start without pam_end
    cred,      \* PamGuard.cred
    ret,       \* what pam_auth is about to return: "none", "ok", "err"
    leaked,    \* libpam refused to delete the credentials of some attempt
    proven     \* history: what this attempt proved: "password", "account"

RP == INSTANCE ReadPasswd

mode == <<raw, origin, undone>>
tty  == <<pwfeedback, phase, result, buf, pending, line, mode>>
conv == <<response, at>>
pam  == <<handle, cred, ret, leaked, proven>>
vars == <<tty, conv, pam, pc, attempt, call, talks>>

Init ==
    /\ RP!Init
    /\ pc = "loop"
    /\ attempt = 0
    /\ call = "none"
    /\ talks = 0
    /\ response = <<>>
    /\ at = 0
    /\ handle = FALSE
    /\ cred = FALSE
    /\ ret = "none"
    /\ leaked = FALSE
    /\ proven = {}

Goto(label) == pc' = label

\* A call of libpam begins; while it lasts, libpam may converse.
Calls(c)    == call' = c /\ talks' = 0 /\ Goto("pam")
InLibpam(c) == pc = "pam" /\ call = c

----------------------------------------------------------------------------
\* verify::auth and the start of pam_auth

\* Mutant: one attempt too many.
PamStart_OffByOne ==
    /\ pc = "loop" /\ attempt <= 3
    /\ attempt' = attempt + 1
    /\ handle' = TRUE
    /\ proven' = {}
    /\ Calls("authenticate")
    /\ UNCHANGED <<tty, conv, cred, ret, leaked>>

\* Mutant: the attempts are not counted.
PamStart_NotCounted ==
    /\ pc = "loop" /\ attempt < 3
    /\ handle' = TRUE
    /\ proven' = {}
    /\ Calls("authenticate")
    /\ UNCHANGED <<tty, conv, cred, ret, leaked, attempt>>

PamStart ==
    /\ pc = "loop" /\ attempt < 3
    /\ attempt' = attempt + 1
    /\ handle' = TRUE
    /\ proven' = {}
    /\ Calls("authenticate")
    /\ UNCHANGED <<tty, conv, cred, ret, leaked>>

PamStartFails ==
    /\ pc = "loop" /\ attempt < 3
    /\ attempt' = attempt + 1
    /\ UNCHANGED <<tty, conv, pam, pc, call, talks>>

Denied ==
    /\ pc = "loop" /\ attempt = 3
    /\ Goto("denied")
    /\ UNCHANGED <<tty, conv, pam, attempt, call, talks>>

----------------------------------------------------------------------------
\* pamconv, called back from pam_authenticate, pam_acct_mgmt, pam_chauthtok and from
\* pam_setcred, even the one that deletes the credentials.

Converse(n) ==
    /\ pc = "pam" /\ talks < MaxTalks
    /\ talks' = talks + 1
    /\ response' = [i \in 1..n |-> "empty"]
    /\ at' = 1
    /\ Goto("conv")
    /\ UNCHANGED <<tty, pam, attempt, call>>

\* PAM_PROMPT_ECHO_OFF, PAM_PROMPT_ECHO_ON: a new buffer, and read_passwd.
AskUser ==
    /\ pc = "conv" /\ at <= Len(response)
    /\ phase' = "new" /\ result' = "none" /\ buf' = <<>> /\ pending' = 0 /\ line' = 0
    /\ undone' = undone \ {"clear"}
    /\ Goto("ask")
    /\ UNCHANGED <<pwfeedback, raw, origin, conv, pam, attempt, call, talks>>

Typing ==
    /\ pc = "ask" /\ phase # "end"
    /\ RP!Next
    /\ UNCHANGED <<conv, pam, pc, attempt, call, talks>>

\* Mutant: the same message is asked again.
Answered_AsksAgain ==
    /\ pc = "ask" /\ phase = "end" /\ result = "ok"
    /\ response' = [response EXCEPT ![at] = "secret"]
    /\ buf' = <<>>
    /\ Goto("conv")
    /\ UNCHANGED <<pwfeedback, phase, result, pending, line, mode, at, pam, attempt, call, talks>>

\* strdup, then Drop for SafeBuf wipes the buffer.
Answered ==
    /\ pc = "ask" /\ phase = "end" /\ result = "ok"
    /\ response' = [response EXCEPT ![at] = "secret"]
    /\ buf' = <<>>
    /\ at' = at + 1
    /\ Goto("conv")
    /\ UNCHANGED <<pwfeedback, phase, result, pending, line, mode, pam, attempt, call, talks>>

\* Mutant: the answers to earlier prompts stay.
AskFailed_Keeps ==
    /\ pc = "ask" /\ phase = "end" /\ result = "err"
    /\ buf' = <<>>
    /\ at' = 0
    /\ Goto("pam")
    /\ UNCHANGED <<pwfeedback, phase, result, pending, line, mode, response,
                   pam, attempt, call, talks>>

\* Drop for SafeBuf, and Drop for PamResp wipes and frees the answers so far.
AskFailed ==
    /\ pc = "ask" /\ phase = "end" /\ result = "err"
    /\ buf' = <<>>
    /\ response' = <<>>
    /\ at' = 0
    /\ Goto("pam")
    /\ UNCHANGED <<pwfeedback, phase, result, pending, line, mode, pam, attempt, call, talks>>

\* PAM_ERROR_MSG, PAM_TEXT_INFO
ShowMessage ==
    /\ pc = "conv" /\ at <= Len(response)
    /\ at' = at + 1
    /\ UNCHANGED <<tty, response, pam, pc, attempt, call, talks>>

\* into_inner: libpam owns the answers, and has to wipe and free them.
HandOver ==
    /\ pc = "conv" /\ at > Len(response)
    /\ response' = <<>>
    /\ at' = 0
    /\ Goto("pam")
    /\ UNCHANGED <<tty, pam, attempt, call, talks>>

\* Mutant: exit on Ctrl-C without dropping Term first.
Exits_WithoutDrop ==
    /\ \/ pc = "conv" /\ at <= Len(response)
       \/ pc = "ask" /\ result = "exit"
    /\ Goto("exited")
    /\ UNCHANGED <<tty, conv, pam, attempt, call, talks>>

\* process::exit(1): an invalid message style, or Ctrl-C; no Drop runs.
Exits ==
    /\ \/ pc = "conv" /\ at <= Len(response)
       \/ pc = "ask" /\ phase = "end" /\ result = "exit"
    /\ Goto("exited")
    /\ UNCHANGED <<tty, conv, pam, attempt, call, talks>>

----------------------------------------------------------------------------
\* pam_auth, after libpam has come back

Authenticated ==
    /\ InLibpam("authenticate")
    /\ proven' = {"password"}
    /\ Calls("acct_mgmt")
    /\ UNCHANGED <<tty, conv, handle, cred, ret, leaked, attempt>>

AccountValid ==
    /\ InLibpam("acct_mgmt")
    /\ proven' = proven \cup {"account"}
    /\ Calls("setcred")
    /\ UNCHANGED <<tty, conv, handle, cred, ret, leaked, attempt>>

\* Mutant: an expired password is not renewed.
PasswordExpired_Accepted ==
    /\ InLibpam("acct_mgmt")
    /\ Calls("setcred")
    /\ UNCHANGED <<tty, conv, pam, attempt>>

\* PAM_NEW_AUTHTOK_REQD
PasswordExpired ==
    /\ InLibpam("acct_mgmt")
    /\ Calls("chauthtok")
    /\ UNCHANGED <<tty, conv, pam, attempt>>

PasswordChanged ==
    /\ InLibpam("chauthtok")
    /\ proven' = proven \cup {"account"}
    /\ Calls("setcred")
    /\ UNCHANGED <<tty, conv, handle, cred, ret, leaked, attempt>>

\* pam_authenticate, pam_acct_mgmt or pam_chauthtok answers no.
PamRefuses ==
    /\ pc = "pam" /\ call \in {"authenticate", "acct_mgmt", "chauthtok"}
    /\ ret' = "err"
    /\ Goto("drop")
    /\ UNCHANGED <<tty, conv, handle, cred, leaked, proven, attempt, call, talks>>

\* A failing pam_setcred is only warned of.
SetCred ==
    /\ InLibpam("setcred")
    /\ cred' \in BOOLEAN
    /\ ret' = "ok"
    /\ Goto("drop")
    /\ UNCHANGED <<tty, conv, handle, leaked, proven, attempt, call, talks>>

\* Drop for PamGuard, at either return: the credentials go first,
DeleteCred ==
    /\ pc = "drop" /\ cred
    /\ Calls("delete_cred")
    /\ UNCHANGED <<tty, conv, pam, attempt>>

\* deleted or not, and then the transaction.
DropGuard ==
    /\ \/ pc = "drop" /\ ~cred /\ leaked' = leaked
       \/ InLibpam("delete_cred") /\ leaked' \in {leaked, TRUE}
    /\ cred' = FALSE
    /\ handle' = FALSE
    /\ ret' = "none"
    /\ Goto(IF ret = "ok" THEN "granted" ELSE "loop")
    /\ UNCHANGED <<tty, conv, proven, attempt, call, talks>>

----------------------------------------------------------------------------
Pamconv ==
    \/ AskUser \/ Typing \/ Answered \/ AskFailed \/ ShowMessage \/ HandOver \/ Exits

PamAuth ==
    \/ Authenticated \/ AccountValid \/ PasswordExpired \/ PasswordChanged
    \/ PamRefuses \/ SetCred \/ DeleteCred \/ DropGuard

Next ==
    \/ PamStart \/ PamStartFails \/ Denied
    \/ \E n \in 1..MaxMsgs : Converse(n)
    \/ Pamconv \/ PamAuth

\* doas does not stop by itself, the user presses Return in the end, and libpam
\* answers in the end.
Fairness == WF_vars(Next) /\ SF_vars(Typing /\ RP!ReadEnd)

Spec == Init /\ [][Next]_vars /\ Fairness

----------------------------------------------------------------------------
Over == pc \in {"granted", "denied", "exited"}

\* Every variable keeps its shape.
TypeOK ==
    /\ RP!TypeOK
    /\ pc \in {"loop", "pam", "conv", "ask", "drop", "granted", "denied", "exited"}
    /\ attempt \in 0..3 /\ talks \in 0..MaxTalks
    /\ call \in {"none", "authenticate", "acct_mgmt", "chauthtok", "setcred", "delete_cred"}
    /\ ret \in {"none", "ok", "err"}
    /\ response \in Seq({"empty", "secret"}) /\ Len(response) <= MaxMsgs
    /\ at \in 0..(MaxMsgs + 1)
    /\ handle \in BOOLEAN /\ cred \in BOOLEAN /\ leaked \in BOOLEAN
    /\ proven \subseteq {"password", "account"}

\* auth returns Ok only after libpam, within one and the same transaction, had
\* both the password confirmed and the account found valid or renewed.
GrantedMeansProven == pc = "granted" => proven = {"password", "account"}

\* Between two attempts, and after the last, nothing of an attempt remains: no
\* transaction, no credentials, no typed byte in the buffer, no answer that
\* libpam did not take, even if the second prompt of a conversation failed.
NothingRemains ==
    pc \in {"loop", "granted", "denied"} =>
        ~handle /\ ~cred /\ buf = <<>> /\ response = <<>>

\* However reading ends, Ctrl-C and errors in the middle of a conversation
\* included, the terminal is back in its old mode whenever doas goes on or exits,
\* but for one case: the call that gives it back failed, which nobody looks at.
\* From then on each prompt takes raw mode for what it has to give back.
TerminalRestored == pc # "ask" /\ raw => "restore" \in undone

\* Three attempts at most, and each of them ends.
AuthEnds == <>Over

\* What is left of authentication, the most important first: attempts, the calls
\* of this attempt, conversations of this call, messages of this conversation,
\* and what is left of reading an answer.
CallRank ==
    [authenticate |-> 7, acct_mgmt |-> 6, chauthtok |-> 5, setcred |-> 4, delete_cred |-> 2]

CallsLeft ==
    CASE Over -> 0
      [] pc = "loop" -> 1
      [] pc = "drop" -> 3
      [] pc \in {"pam", "conv", "ask"} -> CallRank[call]

MessagesLeft == IF pc \in {"conv", "ask"} THEN Len(response) + 2 - at ELSE 0

AnswerLeft ==
    CASE pc \notin {"conv", "ask"} -> 0
      [] pc = "conv" -> 6
      [] pc = "ask" ->
            CASE phase = "new" -> 5 [] phase = "prompt" -> 4 [] phase = "read" -> 3
              [] phase = "push" -> 2 [] phase = "drop" -> 1 [] phase = "end" -> 0

Left == <<3 - attempt, CallsLeft, MaxTalks - talks, MessagesLeft, AnswerLeft>>

Lower(x, y) == \E j \in 1..5 : x[j] < y[j] /\ \A i \in 1..(j - 1) : x[i] = y[i]

\* A byte typed, its star, an erasure.
Keystroke == Typing /\ phase = "read" /\ phase' = "read"

\* Nothing that libpam answers, and no failure of an attempt, of a conversation or
\* of a prompt, leads back to where authentication has been before: but for the
\* keys the user presses within one prompt, each step is one towards the end.
AuthAdvances == [][Keystroke \/ Lower(Left', Left)]_vars
=============================================================================
