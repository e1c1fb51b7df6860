-------------------------- MODULE ReadPasswdProofs --------------------------
(***************************************************************************)
(* Proofs about ReadPasswd: for a buffer of any capacity, a prompt of any  *)
(* length, and as many keys as the user cares to press.                    *)
(***************************************************************************)
EXTENDS ReadPasswd, TLAPS

\* Nothing is decided, and no terminator written, before a password has ended.
BufferOK ==
    /\ phase \notin {"drop", "end"} => result = "none" /\ \A i \in 1..Len(buf) : buf[i] # Nul
    /\ phase \in {"new", "prompt"} => buf = <<>>
    /\ phase # "read" /\ result # "err" => pending = 0
    /\ result = "ok" => phase \in {"drop", "end"} /\ buf # <<>> /\ buf[Len(buf)] = Nul
                          /\ \A i \in 1..(Len(buf) - 1) : buf[i] # Nul

\* The line on the screen, up to the last byte read and when it is cleared.
LineOK ==
    /\ phase \in {"read", "push"} => line + pending = Prompt + Stars
    /\ phase = "drop" /\ result = "exit" => line = Prompt + Stars
    /\ phase = "drop" /\ result = "ok" => line = Prompt + Stars - (IF pwfeedback THEN 1 ELSE 0)
    /\ phase = "end" /\ result \in {"ok", "exit"} =>
          /\ line >= IF result = "ok" THEN Prompt - 1 ELSE Prompt
          /\ "clear" \notin undone => line <= Prompt

RInv == TypeOK /\ BufferOK /\ LineOK

USE ReadPasswdAssumption
USE DEF RInv, Fail, Stars, feedback, mode

\* The initial states satisfy the invariant.
LEMMA InitInv == Init => RInv
<1> SUFFICES ASSUME Init
             PROVE  RInv
  OBVIOUS
<1>1. buf = <<>> /\ Len(buf) = 0 /\ buf \in Seq(Bytes \cup {Nul})
  BY DEF Init
<1>2. TypeOK
  <2>1. /\ pwfeedback \in BOOLEAN /\ raw \in BOOLEAN /\ origin \in BOOLEAN
        /\ undone \subseteq {"clear", "restore"}
    BY DEF Init
  <2>2. /\ phase \in {"new", "prompt", "read", "push", "drop", "end"}
        /\ result \in {"none", "ok", "err", "exit"}
        /\ pending \in {0, 1} /\ line \in Int
    BY DEF Init
  <2> QED
    BY <1>1, <2>1, <2>2 DEF TypeOK
<1>3. BufferOK /\ LineOK
  BY <1>1 DEF Init, BufferOK, LineOK
<1> QED
  BY <1>2, <1>3

\* Raw mode.
LEMMA NewStep ==
    ASSUME RInv, New
    PROVE  RInv'
<1>1. TypeOK'
  BY DEF TypeOK, New
<1>2. BufferOK'
  BY DEF BufferOK, New
<1>3. LineOK'
  BY DEF LineOK, New
<1> QED
  BY <1>1, <1>2, <1>3

\* No terminal.
LEMMA NewFailsStep ==
    ASSUME RInv, NewFails
    PROVE  RInv'
<1>1. TypeOK'
  BY DEF TypeOK, NewFails
<1>2. BufferOK'
  BY DEF BufferOK, NewFails
<1>3. LineOK'
  BY DEF LineOK, NewFails
<1> QED
  BY <1>1, <1>2, <1>3

\* The prompt starts the line.
LEMMA WritePromptStep ==
    ASSUME RInv, WritePrompt
    PROVE  RInv'
<1>1. TypeOK'
  BY DEF TypeOK, WritePrompt
<1>2. BufferOK'
  BY DEF BufferOK, WritePrompt
<1>3. LineOK'
  BY DEF TypeOK, BufferOK, LineOK, WritePrompt
<1> QED
  BY <1>1, <1>2, <1>3

\* Erasing one byte or all takes as many stars away.
LEMMA ReadEraseStep ==
    ASSUME RInv, NEW n \in {1, Len(buf)}, ReadErase(n)
    PROVE  RInv'
<1>1. TypeOK'
  BY DEF TypeOK, ReadErase
<1>2. BufferOK'
  BY DEF BufferOK, ReadErase
<1>3. LineOK'
  <2>1. Len(buf) \in Nat /\ buf # <<>> /\ buf \in Seq(Bytes \cup {Nul})
    BY DEF TypeOK, ReadErase
  <2>2. Len(buf) >= 1
    BY <2>1
  <2>3. Len(buf') = Len(buf) - n
    BY <2>1, <2>2 DEF ReadErase
  <2>4. phase = "read" /\ UNCHANGED <<phase, pwfeedback, pending, result>>
        /\ line' = (IF pwfeedback THEN line - n ELSE line)
    BY DEF ReadErase
  <2>5. line \in Int /\ pending \in Int /\ Prompt \in Int /\ n \in Int
    BY <2>1 DEF TypeOK
  <2>6. line + pending = Prompt + (IF pwfeedback THEN Len(buf) ELSE 0) /\ result = "none"
    BY <2>4 DEF LineOK, BufferOK
  <2>7. line' + pending' = Prompt + (IF pwfeedback' THEN Len(buf') ELSE 0)
    BY <2>1, <2>3, <2>4, <2>5, <2>6
  <2> QED
    BY <2>4, <2>6, <2>7 DEF LineOK
<1> QED
  BY <1>1, <1>2, <1>3

\* A byte owes its star.
LEMMA ReadByteStep ==
    ASSUME RInv, NEW b \in Bytes, ReadByte(b)
    PROVE  RInv'
<1>1. TypeOK'
  BY DEF TypeOK, ReadByte
<1>2. BufferOK'
  BY DEF BufferOK, ReadByte
<1>3. LineOK'
  BY DEF TypeOK, LineOK, ReadByte
<1> QED
  BY <1>1, <1>2, <1>3

\* The star is paid.
LEMMA WriteStarStep ==
    ASSUME RInv, WriteStar
    PROVE  RInv'
<1>1. TypeOK'
  BY DEF TypeOK, WriteStar
<1>2. BufferOK'
  BY DEF BufferOK, WriteStar
<1>3. LineOK'
  BY DEF LineOK, WriteStar
<1> QED
  BY <1>1, <1>2, <1>3

\* The buffer is full.
LEMMA TooLongStep ==
    ASSUME RInv, TooLong
    PROVE  RInv'
<1>1. TypeOK'
  BY DEF TypeOK, TooLong
<1>2. BufferOK'
  BY DEF BufferOK, TooLong
<1>3. LineOK'
  BY DEF LineOK, TooLong
<1> QED
  BY <1>1, <1>2, <1>3

\* The terminal fails; what is on the line is anyone's guess.
LEMMA IoErrorStep ==
    ASSUME RInv, IoError
    PROVE  RInv'
<1>1. TypeOK'
  BY DEF TypeOK, IoError
<1>2. BufferOK'
  BY DEF BufferOK, IoError
<1>3. LineOK'
  BY DEF LineOK, IoError
<1> QED
  BY <1>1, <1>2, <1>3

\* The password ends.
LEMMA ReadEndStep ==
    ASSUME RInv, ReadEnd
    PROVE  RInv'
<1>1. TypeOK'
  BY DEF TypeOK, ReadEnd
<1>2. BufferOK'
  BY DEF BufferOK, ReadEnd
<1>3. LineOK'
  BY DEF LineOK, ReadEnd
<1> QED
  BY <1>1, <1>2, <1>3

\* The user gives up.
LEMMA ReadCtrlCStep ==
    ASSUME RInv, ReadCtrlC
    PROVE  RInv'
<1>1. TypeOK'
  BY DEF TypeOK, ReadCtrlC
<1>2. BufferOK'
  BY DEF BufferOK, ReadCtrlC
<1>3. LineOK'
  BY DEF TypeOK, LineOK, ReadCtrlC
<1> QED
  BY <1>1, <1>2, <1>3

\* The terminator, if there is room.
LEMMA PushNulStep ==
    ASSUME RInv, PushNul
    PROVE  RInv'
<1>1. TypeOK'
  BY DEF TypeOK, PushNul
<1>2. BufferOK'
  BY DEF BufferOK, PushNul
<1>3. LineOK'
  BY DEF TypeOK, BufferOK, LineOK, PushNul
<1> QED
  BY <1>1, <1>2, <1>3

\* The line is cleared, or what could be is.
LEMMA DropTermStep ==
    ASSUME RInv, NEW failed \in SUBSET {"clear", "restore"}, DropTerm(failed)
    PROVE  RInv'
<1>0. line \in Int /\ Stars \in Nat
  BY DEF TypeOK
<1>1. TypeOK'
  <2>1. line' \in Int
    BY <1>0 DEF DropTerm
  <2>2. raw' \in BOOLEAN /\ undone' \subseteq {"clear", "restore"}
    BY DEF TypeOK, DropTerm
  <2> QED
    BY <2>1, <2>2 DEF TypeOK, DropTerm
<1>2. BufferOK'
  BY DEF BufferOK, DropTerm
<1>3. LineOK'
  <2>1. phase = "drop" /\ phase' = "end" /\ result' = result
    BY DEF DropTerm
  <2>2. line' \in Int /\ line' >= line - Stars
    BY <1>0 DEF DropTerm
  <2>3. "clear" \notin undone' => line' = line - Stars
    BY <1>0 DEF DropTerm
  <2>4. /\ result = "exit" => line - Stars = Prompt
        /\ result = "ok" => line - Stars \in {Prompt - 1, Prompt}
    BY <1>0, <2>1 DEF LineOK
  <2>5. line - Stars \in Int
    BY <1>0
  <2> QED
    <3> HIDE DEF Stars
    <3> QED
      BY <2>1, <2>2, <2>3, <2>4, <2>5 DEF LineOK
<1> QED
  BY <1>1, <1>2, <1>3

\* A step that changes nothing.
LEMMA StutterStep ==
    ASSUME RInv, UNCHANGED vars
    PROVE  RInv'
<1>1. TypeOK'
  BY DEF TypeOK, vars
<1>2. BufferOK'
  BY DEF BufferOK, vars
<1>3. LineOK'
  BY DEF LineOK, vars
<1> QED
  BY <1>1, <1>2, <1>3

\* Every step keeps the invariant.
LEMMA NextInv == RInv /\ [Next]_vars => RInv'
<1> SUFFICES ASSUME RInv, [Next]_vars
             PROVE  RInv'
  OBVIOUS
<1>1. CASE New
  BY <1>1, NewStep
<1>2. CASE NewFails
  BY <1>2, NewFailsStep
<1>3. CASE WritePrompt
  BY <1>3, WritePromptStep
<1>4. CASE \E n \in {1, Len(buf)} : ReadErase(n)
  BY <1>4, ReadEraseStep
<1>5. CASE \E b \in Bytes : ReadByte(b)
  BY <1>5, ReadByteStep
<1>6. CASE WriteStar
  BY <1>6, WriteStarStep
<1>7. CASE TooLong
  BY <1>7, TooLongStep
<1>8. CASE IoError
  BY <1>8, IoErrorStep
<1>9. CASE ReadEnd
  BY <1>9, ReadEndStep
<1>10. CASE ReadCtrlC
  BY <1>10, ReadCtrlCStep
<1>11. CASE PushNul
  BY <1>11, PushNulStep
<1>12. CASE \E failed \in SUBSET {"clear", "restore"} : DropTerm(failed)
  BY <1>12, DropTermStep
<1>13. CASE UNCHANGED vars
  BY <1>13, StutterStep
<1> QED
  BY <1>1, <1>2, <1>3, <1>4, <1>5, <1>6, <1>7, <1>8, <1>9, <1>10, <1>11, <1>12, <1>13 DEF Next

\* The invariant holds in every reachable state, whatever the constants.
THEOREM Invariant == Spec => []RInv
<1> QED
  BY InitInv, NextInv, PTL DEF Spec

\* The buffer never holds more than its capacity, terminator included.
THEOREM TypeCorrect == Spec => []TypeOK
<1>1. RInv => TypeOK
  OBVIOUS
<1> QED
  BY <1>1, Invariant, PTL

\* There is a star for every byte; the line ends one character short at most, and
\* no longer than the prompt unless clearing it failed.
THEOREM StarsAlwaysMatch == Spec => []StarsMatchBuffer
<1>1. RInv => StarsMatchBuffer
  BY DEF LineOK, StarsMatchBuffer
<1> QED
  BY <1>1, Invariant, PTL

\* The password handed on ends in its only NUL.
THEOREM PasswordsAreTerminated == Spec => []PasswordTerminated
<1>1. RInv => PasswordTerminated
  BY DEF BufferOK, PasswordTerminated
<1> QED
  BY <1>1, Invariant, PTL
=============================================================================
