--------------------------- MODULE PamAuthProofs ---------------------------
(***************************************************************************)
(* Proofs of the safety properties of PamAuth, for any number of messages  *)
(* and conversations and any buffer.                                       *)
(***************************************************************************)
EXTENDS PamAuth, WellFoundedInduction, TLAPS

Reading == pc = "ask" /\ phase \notin {"new", "end"}
Calling == pc \in {"pam", "conv", "ask"}

\* The terminal is raw from Term::new until Term is dropped, which is over when
\* read_passwd has returned, unless the drop failed, or had been told that raw is
\* how the terminal was.
TtyOK ==
    /\ raw => Reading \/ "restore" \in undone
    /\ Reading /\ origin => "restore" \in undone
    /\ pc \notin {"ask", "exited"} => buf = <<>>

\* What the transaction under way has proved, call by call.
ProvenOK ==
    /\ Calling => call # "none"
    /\ Calling /\ call # "authenticate" => "password" \in proven
    /\ Calling /\ call \in {"setcred", "delete_cred"} => proven = {"password", "account"}
    /\ pc = "drop" /\ cred => ret = "ok"
    /\ pc = "drop" /\ ret = "ok" => proven = {"password", "account"}
    /\ pc = "granted" => proven = {"password", "account"}

\* Who owns the answers, the credentials and the transaction.
RemainsOK ==
    /\ pc \notin {"conv", "ask", "exited"} => response = <<>>
    /\ pc = "ask" => at \in 1..Len(response)
    /\ pc = "conv" => at \in 1..(Len(response) + 1)
    /\ cred => pc \in {"drop", "exited"} \/ (Calling /\ call = "delete_cred")
    /\ pc \in {"loop", "granted", "denied"} => ~handle

PInv == TypeOK /\ TtyOK /\ ProvenOK /\ RemainsOK

USE PamAuthAssumption
USE DEF PInv, Reading, Calling, Goto, Calls, InLibpam, mode, tty, conv, pam, RP!mode,
        RP!feedback, RP!Stars

\* The initial states satisfy the invariant.
LEMMA InitInv == Init => PInv
<1> SUFFICES ASSUME Init
             PROVE  PInv
  OBVIOUS
<1>1. /\ pwfeedback \in BOOLEAN /\ raw = FALSE /\ phase = "new" /\ result = "none"
      /\ buf = <<>> /\ pending = 0 /\ line = 0 /\ origin = FALSE /\ undone = {}
  BY DEF Init, RP!Init
<1>2. buf \in Seq(Bytes \cup {Nul}) /\ Len(buf) = 0
  BY <1>1
<1>3. RP!TypeOK
  <2>1. /\ pwfeedback \in BOOLEAN /\ raw \in BOOLEAN /\ origin \in BOOLEAN
        /\ undone \subseteq {"clear", "restore"}
    BY <1>1
  <2> QED
    BY <1>1, <1>2, <2>1 DEF RP!TypeOK
<1>4. response \in Seq({"empty", "secret"}) /\ Len(response) = 0
  BY DEF Init
<1>5. TypeOK
  <2>1. handle \in BOOLEAN /\ cred \in BOOLEAN /\ leaked \in BOOLEAN
    BY DEF Init
  <2> QED
    BY <1>3, <1>4, <2>1 DEF Init, TypeOK
<1>6. TtyOK /\ ProvenOK /\ RemainsOK
  BY <1>1 DEF Init, TtyOK, ProvenOK, RemainsOK
<1> QED
  BY <1>5, <1>6

\* Reading a password keeps the shape of the terminal's variables.
LEMMA TypingKeepsType ==
    ASSUME RP!TypeOK, RP!Next
    PROVE  RP!TypeOK'
<1>1. /\ buf \in Seq(Bytes \cup {Nul}) /\ Len(buf) \in Nat /\ Len(buf) <= Capacity
      /\ line \in Int /\ pending \in {0, 1}
  BY DEF RP!TypeOK
<1> USE DEF RP!Fail
<1>2. CASE RP!New
  BY <1>1, <1>2 DEF RP!TypeOK, RP!New
<1>3. CASE RP!NewFails
  BY <1>1, <1>3 DEF RP!TypeOK, RP!NewFails
<1>4. CASE RP!WritePrompt
  BY <1>1, <1>4 DEF RP!TypeOK, RP!WritePrompt
<1>5. CASE \E n \in {1, Len(buf)} : RP!ReadErase(n)
  <2>1. PICK n \in {1, Len(buf)} : RP!ReadErase(n)
    BY <1>5
  <2>2. Len(buf) >= 1 /\ n \in 1..Len(buf)
    BY <1>1, <2>1 DEF RP!ReadErase
  <2>3. buf' \in Seq(Bytes \cup {Nul}) /\ Len(buf') <= Capacity /\ line' \in Int
    BY <1>1, <2>1, <2>2 DEF RP!ReadErase
  <2> QED
    BY <2>1, <2>3 DEF RP!TypeOK, RP!ReadErase
<1>6. CASE \E b \in Bytes : RP!ReadByte(b)
  <2>1. PICK b \in Bytes : RP!ReadByte(b)
    BY <1>6
  <2>2. buf' \in Seq(Bytes \cup {Nul}) /\ Len(buf') <= Capacity /\ pending' \in {0, 1}
    BY <1>1, <2>1 DEF RP!ReadByte
  <2> QED
    BY <2>1, <2>2 DEF RP!TypeOK, RP!ReadByte
<1>7. CASE RP!WriteStar
  BY <1>1, <1>7 DEF RP!TypeOK, RP!WriteStar
<1>8. CASE RP!TooLong
  BY <1>1, <1>8 DEF RP!TypeOK, RP!TooLong
<1>9. CASE RP!IoError
  BY <1>1, <1>9 DEF RP!TypeOK, RP!IoError
<1>10. CASE RP!ReadEnd
  BY <1>1, <1>10 DEF RP!TypeOK, RP!ReadEnd
<1>11. CASE RP!ReadCtrlC
  BY <1>1, <1>11 DEF RP!TypeOK, RP!ReadCtrlC
<1>12. CASE RP!PushNul
  BY <1>1, <1>12 DEF RP!TypeOK, RP!PushNul
<1>13. CASE \E failed \in SUBSET {"clear", "restore"} : RP!DropTerm(failed)
  <2>1. PICK failed \in SUBSET {"clear", "restore"} : RP!DropTerm(failed)
    BY <1>13
  <2>2. line' \in Int
    BY <1>1, <2>1 DEF RP!DropTerm
  <2>3. raw' \in BOOLEAN /\ undone' \subseteq {"clear", "restore"}
    BY <2>1 DEF RP!TypeOK, RP!DropTerm
  <2> QED
    BY <2>1, <2>2, <2>3 DEF RP!TypeOK, RP!DropTerm
<1> QED
  BY <1>2, <1>3, <1>4, <1>5, <1>6, <1>7, <1>8, <1>9, <1>10, <1>11, <1>12, <1>13 DEF RP!Next

\* The terminal is raw only between the first and the last step of read_passwd, or
\* because giving it back failed, this time or before.
LEMMA TypingKeepsRaw ==
    ASSUME raw => phase \notin {"new", "end"} \/ "restore" \in undone,
           phase \notin {"new", "end"} /\ origin => "restore" \in undone,
           RP!Next
    PROVE  /\ raw' => phase' \notin {"new", "end"} \/ "restore" \in undone'
           /\ phase' \notin {"new", "end"} /\ origin' => "restore" \in undone'
<1>1. CASE \E failed \in SUBSET {"clear", "restore"} : RP!DropTerm(failed)
  BY <1>1 DEF RP!DropTerm
<1>2. CASE RP!New
  BY <1>2 DEF RP!New
<1>3. CASE RP!NewFails
  BY <1>3 DEF RP!NewFails
<1>4. ASSUME \/ RP!WritePrompt \/ RP!WriteStar \/ RP!TooLong \/ RP!IoError
             \/ RP!ReadEnd \/ RP!ReadCtrlC \/ RP!PushNul
             \/ \E n \in {1, Len(buf)} : RP!ReadErase(n)
             \/ \E b \in Bytes : RP!ReadByte(b)
      PROVE  /\ UNCHANGED <<raw, origin, undone>>
             /\ phase \notin {"new", "end"} /\ phase' \notin {"new", "end"}
  BY <1>4 DEF RP!Fail, RP!WritePrompt, RP!ReadErase, RP!ReadByte, RP!WriteStar, RP!TooLong,
     RP!IoError, RP!ReadEnd, RP!ReadCtrlC, RP!PushNul
<1> QED
  BY <1>1, <1>2, <1>3, <1>4 DEF RP!Next

\* A new transaction.
LEMMA PamStartStep ==
    ASSUME PInv, PamStart
    PROVE  PInv'
<1>1. TypeOK'
  <2>1. RP!TypeOK'
    BY DEF TypeOK, RP!TypeOK, PamStart
  <2> QED
    BY <2>1 DEF TypeOK, PamStart
<1>2. TtyOK'
  BY DEF TtyOK, PamStart
<1>3. ProvenOK'
  BY DEF ProvenOK, PamStart
<1>4. RemainsOK'
  BY DEF RemainsOK, PamStart
<1> QED
  BY <1>1, <1>2, <1>3, <1>4

\* An attempt without a transaction.
LEMMA PamStartFailsStep ==
    ASSUME PInv, PamStartFails
    PROVE  PInv'
<1>1. TtyOK' /\ ProvenOK' /\ RemainsOK'
  BY DEF TtyOK, ProvenOK, RemainsOK, PamStartFails
<1>2. TypeOK'
  <2>1. RP!TypeOK'
    BY DEF TypeOK, RP!TypeOK, PamStartFails
  <2> QED
    BY <2>1 DEF TypeOK, PamStartFails
<1> QED
  BY <1>1, <1>2

\* Three attempts were made.
LEMMA DeniedStep ==
    ASSUME PInv, Denied
    PROVE  PInv'
<1>1. TypeOK'
  <2>1. RP!TypeOK'
    BY DEF TypeOK, RP!TypeOK, Denied
  <2> QED
    BY <2>1 DEF TypeOK, Denied
<1>2. TtyOK'
  BY DEF TtyOK, Denied
<1>3. ProvenOK'
  BY DEF ProvenOK, Denied
<1>4. RemainsOK'
  BY DEF RemainsOK, Denied
<1> QED
  BY <1>1, <1>2, <1>3, <1>4

\* libpam calls back.
LEMMA ConverseStep ==
    ASSUME PInv, NEW n \in 1..MaxMsgs, Converse(n)
    PROVE  PInv'
<1>1. TypeOK'
  <2>1. RP!TypeOK'
    BY DEF TypeOK, RP!TypeOK, Converse
  <2>2. response' \in Seq({"empty", "secret"}) /\ Len(response') <= MaxMsgs
        /\ at' \in 0..(MaxMsgs + 1)
    BY DEF TypeOK, RemainsOK, Converse
  <2> QED
    BY <2>1, <2>2 DEF TypeOK, Converse
<1>2. TtyOK'
  BY DEF TtyOK, Converse
<1>3. ProvenOK'
  BY DEF ProvenOK, Converse
<1>4. RemainsOK'
  BY DEF RemainsOK, Converse
<1> QED
  BY <1>1, <1>2, <1>3, <1>4

\* A fresh buffer.
LEMMA AskUserStep ==
    ASSUME PInv, AskUser
    PROVE  PInv'
<1>1. TypeOK'
  <2>1. RP!TypeOK'
    <3>1. buf' = <<>> /\ buf' \in Seq(Bytes \cup {Nul}) /\ Len(buf') = 0
      BY DEF AskUser
    <3> QED
      BY <3>1 DEF TypeOK, RP!TypeOK, AskUser
  <2> QED
    BY <2>1 DEF TypeOK, AskUser
<1>2. TtyOK'
  BY DEF TtyOK, AskUser
<1>3. ProvenOK'
  BY DEF ProvenOK, AskUser
<1>4. RemainsOK'
  BY DEF TypeOK, RemainsOK, AskUser
<1> QED
  BY <1>1, <1>2, <1>3, <1>4

\* The user types.
LEMMA TypingStep ==
    ASSUME PInv, Typing
    PROVE  PInv'
<1>1. TypeOK'
  BY TypingKeepsType DEF TypeOK, Typing
<1>2. TtyOK'
  BY TypingKeepsRaw DEF TtyOK, Typing
<1>3. ProvenOK'
  BY DEF ProvenOK, Typing
<1>4. RemainsOK'
  BY DEF RemainsOK, Typing
<1> QED
  BY <1>1, <1>2, <1>3, <1>4

\* An answer.
LEMMA AnsweredStep ==
    ASSUME PInv, Answered
    PROVE  PInv'
<1>1. TypeOK'
  <2>1. RP!TypeOK'
    <3>1. buf' = <<>> /\ buf' \in Seq(Bytes \cup {Nul}) /\ Len(buf') = 0
      BY DEF Answered
    <3> QED
      BY <3>1 DEF TypeOK, RP!TypeOK, Answered
  <2>2. response' \in Seq({"empty", "secret"}) /\ Len(response') <= MaxMsgs
        /\ at' \in 0..(MaxMsgs + 1)
    BY DEF TypeOK, RemainsOK, Answered
  <2> QED
    BY <2>1, <2>2 DEF TypeOK, Answered
<1>2. TtyOK'
  BY DEF TtyOK, Answered
<1>3. ProvenOK'
  BY DEF ProvenOK, Answered
<1>4. RemainsOK'
  BY DEF RemainsOK, Answered
<1> QED
  BY <1>1, <1>2, <1>3, <1>4

\* The answers are wiped.
LEMMA AskFailedStep ==
    ASSUME PInv, AskFailed
    PROVE  PInv'
<1>1. TypeOK'
  <2>1. RP!TypeOK'
    <3>1. buf' = <<>> /\ buf' \in Seq(Bytes \cup {Nul}) /\ Len(buf') = 0
      BY DEF AskFailed
    <3> QED
      BY <3>1 DEF TypeOK, RP!TypeOK, AskFailed
  <2>2. response' \in Seq({"empty", "secret"}) /\ Len(response') <= MaxMsgs
        /\ at' \in 0..(MaxMsgs + 1)
    BY DEF TypeOK, RemainsOK, AskFailed
  <2> QED
    BY <2>1, <2>2 DEF TypeOK, AskFailed
<1>2. TtyOK'
  BY DEF TtyOK, AskFailed
<1>3. ProvenOK'
  BY DEF ProvenOK, AskFailed
<1>4. RemainsOK'
  BY DEF RemainsOK, AskFailed
<1> QED
  BY <1>1, <1>2, <1>3, <1>4

\* A message without an answer.
LEMMA ShowMessageStep ==
    ASSUME PInv, ShowMessage
    PROVE  PInv'
<1>1. TtyOK' /\ ProvenOK'
  BY DEF TtyOK, ProvenOK, ShowMessage
<1>2. TypeOK'
  <2>1. RP!TypeOK'
    BY DEF TypeOK, RP!TypeOK, ShowMessage
  <2>2. response' \in Seq({"empty", "secret"}) /\ Len(response') <= MaxMsgs
        /\ at' \in 0..(MaxMsgs + 1)
    BY DEF TypeOK, RemainsOK, ShowMessage
  <2> QED
    BY <2>1, <2>2 DEF TypeOK, ShowMessage
<1>3. RemainsOK'
  BY DEF TypeOK, RemainsOK, ShowMessage
<1> QED
  BY <1>1, <1>2, <1>3

\* libpam takes the answers.
LEMMA HandOverStep ==
    ASSUME PInv, HandOver
    PROVE  PInv'
<1>1. TypeOK'
  <2>1. RP!TypeOK'
    BY DEF TypeOK, RP!TypeOK, HandOver
  <2>2. response' \in Seq({"empty", "secret"}) /\ Len(response') <= MaxMsgs
        /\ at' \in 0..(MaxMsgs + 1)
    BY DEF TypeOK, RemainsOK, HandOver
  <2> QED
    BY <2>1, <2>2 DEF TypeOK, HandOver
<1>2. TtyOK'
  BY DEF TtyOK, HandOver
<1>3. ProvenOK'
  BY DEF ProvenOK, HandOver
<1>4. RemainsOK'
  BY DEF RemainsOK, HandOver
<1> QED
  BY <1>1, <1>2, <1>3, <1>4

\* The process ends at once.
LEMMA ExitsStep ==
    ASSUME PInv, Exits
    PROVE  PInv'
<1>1. TypeOK'
  <2>1. RP!TypeOK'
    BY DEF TypeOK, RP!TypeOK, Exits
  <2> QED
    BY <2>1 DEF TypeOK, Exits
<1>2. TtyOK'
  BY DEF TtyOK, Exits
<1>3. ProvenOK'
  BY DEF ProvenOK, Exits
<1>4. RemainsOK'
  BY DEF RemainsOK, Exits
<1> QED
  BY <1>1, <1>2, <1>3, <1>4

\* The password is right.
LEMMA AuthenticatedStep ==
    ASSUME PInv, Authenticated
    PROVE  PInv'
<1>1. TypeOK'
  <2>1. RP!TypeOK'
    BY DEF TypeOK, RP!TypeOK, Authenticated
  <2> QED
    BY <2>1 DEF TypeOK, Authenticated
<1>2. TtyOK'
  BY DEF TtyOK, Authenticated
<1>3. ProvenOK'
  BY DEF ProvenOK, Authenticated
<1>4. RemainsOK'
  BY DEF RemainsOK, Authenticated
<1> QED
  BY <1>1, <1>2, <1>3, <1>4

\* and the account valid,
LEMMA AccountValidStep ==
    ASSUME PInv, AccountValid
    PROVE  PInv'
<1>1. TypeOK'
  <2>1. RP!TypeOK'
    BY DEF TypeOK, RP!TypeOK, AccountValid
  <2> QED
    BY <2>1 DEF TypeOK, AccountValid
<1>2. TtyOK'
  BY DEF TtyOK, AccountValid
<1>3. ProvenOK'
  BY DEF TypeOK, ProvenOK, AccountValid
<1>4. RemainsOK'
  BY DEF RemainsOK, AccountValid
<1> QED
  BY <1>1, <1>2, <1>3, <1>4

\* or the password must be renewed.
LEMMA PasswordExpiredStep ==
    ASSUME PInv, PasswordExpired
    PROVE  PInv'
<1>1. TypeOK'
  <2>1. RP!TypeOK'
    BY DEF TypeOK, RP!TypeOK, PasswordExpired
  <2> QED
    BY <2>1 DEF TypeOK, PasswordExpired
<1>2. TtyOK'
  BY DEF TtyOK, PasswordExpired
<1>3. ProvenOK'
  BY DEF ProvenOK, PasswordExpired
<1>4. RemainsOK'
  BY DEF RemainsOK, PasswordExpired
<1> QED
  BY <1>1, <1>2, <1>3, <1>4

\* which it was.
LEMMA PasswordChangedStep ==
    ASSUME PInv, PasswordChanged
    PROVE  PInv'
<1>1. TypeOK'
  <2>1. RP!TypeOK'
    BY DEF TypeOK, RP!TypeOK, PasswordChanged
  <2> QED
    BY <2>1 DEF TypeOK, PasswordChanged
<1>2. TtyOK'
  BY DEF TtyOK, PasswordChanged
<1>3. ProvenOK'
  BY DEF TypeOK, ProvenOK, PasswordChanged
<1>4. RemainsOK'
  BY DEF RemainsOK, PasswordChanged
<1> QED
  BY <1>1, <1>2, <1>3, <1>4

\* libpam says no.
LEMMA PamRefusesStep ==
    ASSUME PInv, PamRefuses
    PROVE  PInv'
<1>1. TypeOK'
  <2>1. RP!TypeOK'
    BY DEF TypeOK, RP!TypeOK, PamRefuses
  <2> QED
    BY <2>1 DEF TypeOK, PamRefuses
<1>2. TtyOK'
  BY DEF TtyOK, PamRefuses
<1>3. ProvenOK'
  BY DEF ProvenOK, RemainsOK, PamRefuses
<1>4. RemainsOK'
  BY DEF RemainsOK, PamRefuses
<1> QED
  BY <1>1, <1>2, <1>3, <1>4

\* Credentials, or none.
LEMMA SetCredStep ==
    ASSUME PInv, SetCred
    PROVE  PInv'
<1>1. TypeOK'
  <2>1. RP!TypeOK'
    BY DEF TypeOK, RP!TypeOK, SetCred
  <2> QED
    BY <2>1 DEF TypeOK, SetCred
<1>2. TtyOK'
  BY DEF TtyOK, SetCred
<1>3. ProvenOK'
  BY DEF ProvenOK, SetCred
<1>4. RemainsOK'
  BY DEF RemainsOK, SetCred
<1> QED
  BY <1>1, <1>2, <1>3, <1>4

\* The guard cleans up at both returns: the credentials,
LEMMA DeleteCredStep ==
    ASSUME PInv, DeleteCred
    PROVE  PInv'
<1>1. TypeOK'
  <2>1. RP!TypeOK'
    BY DEF TypeOK, RP!TypeOK, DeleteCred
  <2> QED
    BY <2>1 DEF TypeOK, DeleteCred
<1>2. TtyOK'
  BY DEF TtyOK, DeleteCred
<1>3. ProvenOK'
  BY DEF ProvenOK, DeleteCred
<1>4. RemainsOK'
  BY DEF RemainsOK, DeleteCred
<1> QED
  BY <1>1, <1>2, <1>3, <1>4

\* and the transaction.
LEMMA DropGuardStep ==
    ASSUME PInv, DropGuard
    PROVE  PInv'
<1>1. TypeOK'
  <2>1. RP!TypeOK'
    BY DEF TypeOK, RP!TypeOK, DropGuard
  <2> QED
    BY <2>1 DEF TypeOK, DropGuard
<1>2. TtyOK'
  BY DEF TtyOK, DropGuard
<1>3. ProvenOK'
  BY DEF ProvenOK, DropGuard
<1>4. RemainsOK'
  BY DEF RemainsOK, DropGuard
<1> QED
  BY <1>1, <1>2, <1>3, <1>4

\* A step that changes nothing.
LEMMA StutterStep ==
    ASSUME PInv, UNCHANGED vars
    PROVE  PInv'
<1>1. TypeOK'
  <2>1. RP!TypeOK'
    BY DEF TypeOK, RP!TypeOK, vars
  <2>2. response' \in Seq({"empty", "secret"}) /\ Len(response') <= MaxMsgs
        /\ at' \in 0..(MaxMsgs + 1)
    BY DEF TypeOK, RemainsOK, vars
  <2> QED
    BY <2>1, <2>2 DEF TypeOK, vars
<1>2. TtyOK'
  BY DEF TtyOK, vars
<1>3. ProvenOK'
  BY DEF ProvenOK, vars
<1>4. RemainsOK'
  BY DEF RemainsOK, vars
<1> QED
  BY <1>1, <1>2, <1>3, <1>4

\* Every step keeps the invariant.
LEMMA NextInv == PInv /\ [Next]_vars => PInv'
<1> SUFFICES ASSUME PInv, [Next]_vars
             PROVE  PInv'
  OBVIOUS
<1>1. CASE PamStart
  BY <1>1, PamStartStep
<1>2. CASE PamStartFails
  BY <1>2, PamStartFailsStep
<1>3. CASE Denied
  BY <1>3, DeniedStep
<1>4. CASE \E n \in 1..MaxMsgs : Converse(n)
  BY <1>4, ConverseStep
<1>5. CASE AskUser
  BY <1>5, AskUserStep
<1>6. CASE Typing
  BY <1>6, TypingStep
<1>7. CASE Answered
  BY <1>7, AnsweredStep
<1>8. CASE AskFailed
  BY <1>8, AskFailedStep
<1>9. CASE ShowMessage
  BY <1>9, ShowMessageStep
<1>10. CASE HandOver
  BY <1>10, HandOverStep
<1>11. CASE Exits
  BY <1>11, ExitsStep
<1>12. CASE Authenticated
  BY <1>12, AuthenticatedStep
<1>13. CASE AccountValid
  BY <1>13, AccountValidStep
<1>14. CASE PasswordExpired
  BY <1>14, PasswordExpiredStep
<1>15. CASE PasswordChanged
  BY <1>15, PasswordChangedStep
<1>16. CASE PamRefuses
  BY <1>16, PamRefusesStep
<1>17. CASE SetCred
  BY <1>17, SetCredStep
<1>18. CASE DropGuard
  BY <1>18, DropGuardStep
<1>19. CASE DeleteCred
  BY <1>19, DeleteCredStep
<1>20. CASE UNCHANGED vars
  BY <1>20, StutterStep
<1> QED
  BY <1>1, <1>2, <1>3, <1>4, <1>5, <1>6, <1>7, <1>8, <1>9, <1>10, <1>11, <1>12, <1>13, <1>14, <1>15, <1>16, <1>17, <1>18,
     <1>19, <1>20 DEF Next, Pamconv, PamAuth

\* The invariant holds in every reachable state, whatever the constants.
THEOREM Invariant == Spec => []PInv
<1> QED
  BY InitInv, NextInv, PTL DEF Spec

\* Every variable keeps its shape: no more than three attempts, and no index of
\* an answer past the messages of its conversation.
THEOREM TypeCorrect == Spec => []TypeOK
<1>1. PInv => TypeOK
  OBVIOUS
<1> QED
  BY <1>1, Invariant, PTL

\* Nobody is authenticated by half a transaction.
THEOREM GrantsAreProven == Spec => []GrantedMeansProven
<1>1. PInv => GrantedMeansProven
  BY DEF ProvenOK, GrantedMeansProven
<1> QED
  BY <1>1, Invariant, PTL

\* Whatever fails in an attempt, nothing of it is left for the next one.
THEOREM AttemptsLeaveNothing == Spec => []NothingRemains
<1>1. PInv => NothingRemains
  BY DEF TtyOK, RemainsOK, NothingRemains
<1> QED
  BY <1>1, Invariant, PTL

\* The terminal is never left raw, unless the call that gives it back failed.
THEOREM TerminalAlwaysRestored == Spec => []TerminalRestored
<1>1. PInv => TerminalRestored
  BY DEF TtyOK, TerminalRestored
<1> QED
  BY <1>1, Invariant, PTL

----------------------------------------------------------------------------
PR == INSTANCE ReadPasswdProofs

\* While a prompt is open, the variables of the terminal are in a state of
\* ReadPasswd.
PromptOK == pc = "ask" => PR!RInv

\* What ReadPasswd promises of each prompt, in the middle of a conversation.
PromptsKeepPromises == pc = "ask" => RP!StarsMatchBuffer /\ RP!PasswordTerminated

\* A step of the user is a step of ReadPasswd as its proofs know it.
LEMMA TypingIsReadPasswd == RP!Next => PR!Next
  BY DEF RP!Next, RP!Fail, RP!New, RP!NewFails, RP!WritePrompt, RP!ReadErase, RP!ReadByte,
     RP!WriteStar, RP!TooLong, RP!IoError, RP!ReadEnd, RP!ReadCtrlC, RP!PushNul, RP!DropTerm,
     PR!Next, PR!Fail, PR!New, PR!NewFails, PR!WritePrompt, PR!ReadErase, PR!ReadByte,
     PR!WriteStar, PR!TooLong, PR!IoError, PR!ReadEnd, PR!ReadCtrlC, PR!PushNul, PR!DropTerm,
     PR!Stars, PR!feedback, PR!mode

\* Each prompt begins as ReadPasswd does, with a buffer of its own.
LEMMA PromptStep == PInv /\ PInv' /\ PromptOK /\ [Next]_vars => PromptOK'
<1> SUFFICES ASSUME PInv, PInv', PromptOK, [Next]_vars, pc' = "ask"
             PROVE  PR!RInv'
  BY DEF PromptOK
<1>1. CASE AskUser
  <2>1. /\ phase' = "new" /\ result' = "none" /\ buf' = <<>> /\ pending' = 0 /\ line' = 0
        /\ RP!TypeOK'
    BY <1>1 DEF AskUser, TypeOK
  <2>2. PR!TypeOK'
    BY <2>1 DEF RP!TypeOK, PR!TypeOK
  <2>3. PR!BufferOK' /\ PR!LineOK'
    BY <2>1 DEF PR!BufferOK, PR!LineOK
  <2> QED
    BY <2>2, <2>3 DEF PR!RInv
<1>2. CASE Typing
  <2>1. PR!RInv /\ PR!Next
    BY <1>2, TypingIsReadPasswd DEF PromptOK, Typing
  <2>2. Nul \notin Bytes /\ Capacity \in Nat /\ Prompt \in Nat
    OBVIOUS
  <2> QED
    BY <2>1, <2>2, PR!NextInv DEF PR!ReadPasswdAssumption
<1>3. CASE ~AskUser /\ ~Typing
  <2>1. pc = "ask" /\ UNCHANGED tty
    BY <1>3 DEF Next, PamStart, PamStartFails, Denied, Converse, Pamconv, Answered, AskFailed,
       ShowMessage, HandOver, Exits, PamAuth, Authenticated, AccountValid, PasswordExpired,
       PasswordChanged, PamRefuses, SetCred, DeleteCred, DropGuard, vars
  <2> QED
    BY <2>1 DEF PromptOK, PR!RInv, PR!TypeOK, PR!BufferOK, PR!LineOK, PR!Stars
<1> QED
  BY <1>1, <1>2, <1>3

\* What was proved of one password holds of each that libpam asks for, however
\* many were typed, refused or interrupted before: in particular what is copied
\* for libpam has its terminator.
THEOREM PromptsAreReadPasswd == Spec => []PromptsKeepPromises
<1>1. Init => PromptOK
  BY DEF Init, PromptOK
<1>2. PromptOK => PromptsKeepPromises
  BY DEF PromptOK, PromptsKeepPromises, PR!RInv, PR!BufferOK, PR!LineOK, PR!Stars,
     RP!StarsMatchBuffer, RP!PasswordTerminated
<1> QED
  BY <1>1, <1>2, PromptStep, Invariant, PTL DEF Spec

----------------------------------------------------------------------------
Ranks == [1..5 -> Nat]

\* One number that gets less, while those before it stay.
LEMMA FirstLower ==
    ASSUME NEW a, NEW b, NEW c, NEW d, NEW e, NEW a1, NEW b1, NEW c1, NEW d1, NEW e1,
           \/ a1 < a
           \/ a1 = a /\ b1 < b
           \/ a1 = a /\ b1 = b /\ c1 < c
           \/ a1 = a /\ b1 = b /\ c1 = c /\ d1 < d
           \/ a1 = a /\ b1 = b /\ c1 = c /\ d1 = d /\ e1 < e
    PROVE  Lower(<<a1, b1, c1, d1, e1>>, <<a, b, c, d, e>>)
<1>1. CASE a1 < a
  BY <1>1 DEF Lower
<1>2. CASE a1 = a /\ b1 < b
  BY <1>2 DEF Lower
<1>3. CASE a1 = a /\ b1 = b /\ c1 < c
  BY <1>3 DEF Lower
<1>4. CASE a1 = a /\ b1 = b /\ c1 = c /\ d1 < d
  BY <1>4 DEF Lower
<1>5. CASE a1 = a /\ b1 = b /\ c1 = c /\ d1 = d /\ e1 < e
  BY <1>5 DEF Lower
<1> QED
  BY <1>1, <1>2, <1>3, <1>4, <1>5

\* What is left is counted in natural numbers.
LEMMA LeftIsRank == PInv => Left \in Ranks
<1> SUFFICES ASSUME PInv
             PROVE  Left \in Ranks
  OBVIOUS
<1>1. 3 - attempt \in Nat /\ MaxTalks - talks \in Nat
  BY DEF TypeOK
<1>2. CallsLeft \in Nat
  BY DEF TypeOK, ProvenOK, CallsLeft, CallRank, Over
<1>3. MessagesLeft \in Nat
  <2>1. Len(response) \in Nat
    BY DEF TypeOK
  <2> QED
    BY <2>1 DEF RemainsOK, MessagesLeft
<1>4. AnswerLeft \in Nat
  BY DEF TypeOK, RP!TypeOK, AnswerLeft
<1> QED
  BY <1>1, <1>2, <1>3, <1>4 DEF Left, Ranks

\* The loop of auth.
LEMMA LoopAdvances ==
    ASSUME PInv, PamStart \/ PamStartFails \/ Denied
    PROVE  Lower(Left', Left)
<1>1. CASE PamStart \/ PamStartFails
  <2>1. 3 - attempt' < 3 - attempt
    BY <1>1 DEF TypeOK, PamStart, PamStartFails
  <2> QED
    BY <2>1, FirstLower DEF Left
<1>2. CASE Denied
  <2>1. attempt' = attempt /\ CallsLeft' < CallsLeft
    BY <1>2 DEF Denied, CallsLeft, Over
  <2> QED
    BY <2>1, FirstLower DEF Left
<1> QED
  BY <1>1, <1>2

\* What pam_auth calls.
LEMMA CallsAdvance ==
    ASSUME PInv, PamAuth \/ Exits
    PROVE  Lower(Left', Left)
<1>1. attempt' = attempt
  BY DEF PamAuth, Authenticated, AccountValid, PasswordExpired, PasswordChanged, PamRefuses,
     SetCred, DeleteCred, DropGuard, Exits
<1>2. CallsLeft' < CallsLeft
  <2>1. CASE Authenticated \/ AccountValid \/ PasswordExpired \/ PasswordChanged \/ DeleteCred
    BY <2>1 DEF Authenticated, AccountValid, PasswordExpired, PasswordChanged, DeleteCred,
       CallsLeft, CallRank, Over
  <2>2. CASE PamRefuses \/ SetCred
    BY <2>2 DEF PamRefuses, SetCred, CallsLeft, CallRank, Over
  <2>3. CASE DropGuard
    <3>1. pc' \in {"granted", "loop"}
      BY <2>3 DEF DropGuard
    <3>2. CallsLeft' \in {0, 1}
      BY <3>1 DEF CallsLeft, Over
    <3>3. CallsLeft \in {2, 3}
      <4>1. pc = "drop" \/ (pc = "pam" /\ call = "delete_cred")
        BY <2>3 DEF DropGuard
      <4>2. pc = "drop" => CallsLeft = 3
        BY DEF CallsLeft, Over
      <4>3. pc = "pam" => CallsLeft = CallRank[call]
        BY DEF CallsLeft, Over
      <4> QED
        BY <4>1, <4>2, <4>3 DEF CallRank
    <3> QED
      BY <3>2, <3>3
  <2>4. CASE Exits
    <3>1. CallsLeft' = 0 /\ Calling
      BY <2>4 DEF Exits, CallsLeft, Over
    <3>2. CallsLeft = CallRank[call] /\ call \in DOMAIN CallRank
      BY <3>1 DEF TypeOK, ProvenOK, CallsLeft, CallRank, Over
    <3> QED
      BY <3>1, <3>2 DEF CallRank
  <2> QED
    BY <2>1, <2>2, <2>3, <2>4 DEF PamAuth
<1> QED
  BY <1>1, <1>2, FirstLower DEF Left

\* A conversation more is one less to come.
LEMMA ConverseAdvances ==
    ASSUME PInv, NEW n \in 1..MaxMsgs, Converse(n)
    PROVE  Lower(Left', Left)
<1>1. attempt' = attempt /\ CallsLeft' = CallsLeft
  BY DEF Converse, CallsLeft, Over
<1>2. MaxTalks - talks' < MaxTalks - talks
  BY DEF TypeOK, Converse
<1> QED
  BY <1>1, <1>2, FirstLower DEF Left

\* A message that is dealt with, and the end of the conversation.
LEMMA MessageAdvances ==
    ASSUME PInv, Answered \/ AskFailed \/ ShowMessage \/ HandOver
    PROVE  Lower(Left', Left)
<1>1. attempt' = attempt /\ CallsLeft' = CallsLeft /\ talks' = talks
  BY DEF Answered, AskFailed, ShowMessage, HandOver, CallsLeft, Over
<1>2. Len(response) \in Nat /\ at \in Nat
  BY DEF TypeOK
<1>3. CASE Answered \/ ShowMessage
  <2>1. Len(response') = Len(response) /\ at' = at + 1 /\ pc \in {"conv", "ask"} /\ pc' = "conv"
    BY <1>3 DEF TypeOK, Answered, ShowMessage
  <2>2. MessagesLeft' < MessagesLeft
    BY <1>2, <2>1 DEF MessagesLeft
  <2> QED
    BY <1>1, <2>2, FirstLower DEF Left
<1>4. CASE AskFailed \/ HandOver
  <2>1. pc \in {"conv", "ask"} /\ pc' = "pam" /\ at <= Len(response) + 1
    BY <1>2, <1>4 DEF RemainsOK, AskFailed, HandOver
  <2>2. MessagesLeft' < MessagesLeft
    BY <1>2, <2>1 DEF MessagesLeft
  <2> QED
    BY <1>1, <2>2, FirstLower DEF Left
<1> QED
  BY <1>3, <1>4

\* read_passwd, from its first call to the last.
LEMMA AnswerAdvances ==
    ASSUME PInv, AskUser \/ Typing
    PROVE  Keystroke \/ Lower(Left', Left)
<1>1. attempt' = attempt /\ CallsLeft' = CallsLeft /\ talks' = talks
      /\ MessagesLeft' = MessagesLeft
  BY DEF AskUser, Typing, CallsLeft, Over, MessagesLeft
<1>2. AnswerLeft' < AnswerLeft \/ Keystroke
  <2>1. CASE AskUser
    BY <2>1 DEF AskUser, AnswerLeft
  <2>2. CASE Typing
    <3>1. pc = "ask" /\ pc' = "ask" /\ RP!Next
      BY <2>2 DEF Typing
    <3>2. \/ phase = "new" /\ phase' \in {"prompt", "end"}
          \/ phase = "prompt" /\ phase' \in {"read", "drop"}
          \/ phase = "read" /\ phase' \in {"read", "push", "drop"}
          \/ phase = "push" /\ phase' = "drop"
          \/ phase = "drop" /\ phase' = "end"
      BY <3>1 DEF RP!Next, RP!Fail, RP!New, RP!NewFails, RP!WritePrompt, RP!ReadErase,
         RP!ReadByte, RP!WriteStar, RP!TooLong, RP!IoError, RP!ReadEnd, RP!ReadCtrlC,
         RP!PushNul, RP!DropTerm
    <3> QED
      BY <2>2, <3>1, <3>2 DEF Keystroke, AnswerLeft
  <2> QED
    BY <2>1, <2>2
<1> QED
  BY <1>1, <1>2, FirstLower DEF Left

\* Authentication moves towards its end, whatever libpam answers.
THEOREM AuthAlwaysAdvances == Spec => AuthAdvances
<1>1. PInv /\ [Next]_vars => [Keystroke \/ Lower(Left', Left)]_vars
  BY LoopAdvances, CallsAdvance, ConverseAdvances, MessageAdvances, AnswerAdvances
     DEF Next, Pamconv
<1> QED
  BY <1>1, Invariant, PTL DEF Spec, AuthAdvances

\* and cannot do so for ever: what is left does not get less without end.
THEOREM AdvancesEnd ==
    /\ Spec => [](Left \in Ranks)
    /\ ~ \E f \in [Nat -> Ranks] : \A n \in Nat : Lower(f[n + 1], f[n])
<1>1. Spec => [](Left \in Ranks)
  BY LeftIsRank, Invariant, PTL
<1>2. ~ \E f \in [Nat -> Ranks] : \A n \in Nat : Lower(f[n + 1], f[n])
  <2> DEFINE R == OpToRel(<, Nat)
             L == LexProductOrdering(R, Nat, 5)
  <2>1. IsWellFoundedOn(L, Ranks)
    BY NatLessThanWellFounded, WFLexProductOrdering DEF Ranks
  <2>2. \A x, y \in Ranks : Lower(x, y) => <<x, y>> \in L
    BY DEF Lower, LexProductOrdering, OpToRel, Ranks
  <2> HIDE DEF L
  <2>3. \A f \in [Nat -> Ranks], n \in Nat : f[n] \in Ranks /\ f[n + 1] \in Ranks
    OBVIOUS
  <2> QED
    BY <2>1, <2>2, <2>3 DEF IsWellFoundedOn
<1> QED
  BY <1>1, <1>2
============================================================================
