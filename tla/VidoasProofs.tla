---------------------------- MODULE VidoasProofs ----------------------------
(***************************************************************************)
(* Proofs about Vidoas: for any number of sessions, files and texts.       *)
(*                                                                         *)
(* As long as no session has locked a replaced file (~stale), a lock on    *)
(* the file in place means that there is one session (LockOK); the rest of *)
(* the invariant follows that one session from phase to phase.  The last   *)
(* part is the proof that Vidoas implements Edits.                         *)
(***************************************************************************)
EXTENDS VidoasEdits, TLAPS

Handling == {"edit", "check", "prompt"}
Saves    == {"save", "compare", "attrs", "rename"}

\* A session holds the lock of the file it has open: before anything was
\* replaced, of the one in place.
LockOK ==
    \A p \in Procs :
        /\ pc[p] \in Session => cfd[p] \in Inodes /\ lock[cfd[p]] = p
        /\ At(p, "lock") => cfd[p] \in Inodes
        /\ pc[p] \in Session => stale \/ cfd[p] = conf

\* The temporary file is another one than doas.conf, and the one a session has
\* open is it.
TempOK ==
    /\ temp # conf
    /\ \A p \in Procs :
          /\ pc[p] \in {"copy", "compare", "attrs"} => tfd[p] \in Inodes
          /\ pc[p] \in {"copy", "compare", "attrs"} => stale \/ tfd[p] = temp
          /\ pc[p] \notin Handling \cup Saves => last[p] = <<>>

\* What a session has found out about the temporary file still holds of it.
VettedOK ==
    /\ stale \/ vet[conf] = "approved"
    /\ \A p \in Procs : temp # NoInode =>
          /\ At(p, "prompt") => stale \/ vet[temp] \in {"checked", "approved"}
          /\ pc[p] \in Saves => stale \/ vet[temp] = "approved"

UsableOK ==
    /\ stale \/ forced \/ Usable(conf)
    /\ \A p \in Procs : temp # NoInode =>
          /\ pc[p] \in Saves => stale \/ forced \/ Verdict[text[temp]] = "ok"
          /\ At(p, "rename") => stale \/ forced \/ attr[temp] = "conf"

\* From its creation until the editor and the checks are done.
PrivateOK ==
    \A p \in Procs : pc[p] \in {"copy"} \cup Handling /\ temp # NoInode =>
        stale \/ attr[temp] # "conf"

CutOK ==
    \A p \in Procs : pc[p] \in Handling \cup Saves /\ temp # NoInode /\ text[temp] = Cut =>
        stale \/ last[p] = <<>> \/ text[cfd[p]] = Cut

\* Only the copy itself carries the time that the session remembers.
CopyOK ==
    \A p \in Procs :
        /\ Granular /\ pc[p] \in Handling \cup Saves
        /\ temp # NoInode /\ last[p] = <<mtime[temp]>>
        => stale \/ text[temp] = text[cfd[p]]

VInv ==
    /\ TypeOK /\ LockOK /\ TempOK /\ VettedOK /\ UsableOK /\ PrivateOK
    /\ CutOK /\ CopyOK

USE TextsAssumption, NobodyAssumption, BoundAssumption
USE DEF VInv, Handling, Saves, Session, At, Goto, disk, files, locals, history, Verdicts,
        Usable

\* The initial states satisfy the invariant.
LEMMA InitInv == Init => VInv
<1> SUFFICES ASSUME Init
             PROVE  VInv
  OBVIOUS
<1>1. TypeOK
  <2>1. 0 \in 0..MaxTime
    OBVIOUS
  <2>2. /\ mtime \in [Inodes -> 0..MaxTime] /\ now \in 0..MaxTime
        /\ last \in [Procs -> {<<>>} \cup {<<t>> : t \in 0..MaxTime}]
    BY <2>1 DEF Init
  <2> QED
    BY <2>2 DEF TypeOK, Init
<1>2. LockOK /\ TempOK
  BY DEF LockOK, TempOK, Init
<1>3. VettedOK /\ UsableOK
  BY DEF VettedOK, UsableOK, Init
<1>4. PrivateOK /\ CutOK /\ CopyOK
  BY DEF PrivateOK, CutOK, CopyOK, Init
<1> QED
  BY <1>1, <1>2, <1>3, <1>4

\* Two sessions at once would both hold the lock of the file in place.
LEMMA Alone ==
    ASSUME VInv, ~stale, NEW p \in Procs, NEW q \in Procs,
           pc[p] \in Session, pc[q] \in Session
    PROVE  p = q /\ cfd[p] = conf
<1>1. cfd[p] = conf /\ cfd[q] = conf
  BY DEF LockOK
<1>2. lock[cfd[p]] = p /\ lock[cfd[q]] = q
  BY DEF LockOK
<1> QED
  BY <1>1, <1>2

\* A process that is let in has nothing open yet.
LEMMA ConsultStep ==
    ASSUME VInv, NEW p \in Procs, Consult(p)
    PROVE  VInv'
<1>1. TypeOK'
  BY DEF TypeOK, Consult
<1>2. LockOK'
  BY DEF TypeOK, LockOK, TempOK, Consult
<1>3. TempOK'
  BY DEF TempOK, Consult
<1>4. VettedOK'
  BY DEF VettedOK, Consult
<1>5. UsableOK'
  BY DEF UsableOK, Consult
<1>6. PrivateOK'
  BY DEF PrivateOK, Consult
<1>7. CutOK'
  BY DEF CutOK, Consult
<1>8. CopyOK'
  BY DEF CopyOK, Consult
<1> QED
  BY <1>1, <1>2, <1>3, <1>4, <1>5, <1>6, <1>7, <1>8

\* It opens the file in place,
LEMMA OpenStep ==
    ASSUME VInv, NEW p \in Procs, Open(p)
    PROVE  VInv'
<1>1. TypeOK'
  BY DEF TypeOK, Open
<1>2. LockOK'
  BY DEF TypeOK, LockOK, TempOK, Open
<1>3. TempOK'
  BY DEF TempOK, Open
<1>4. VettedOK'
  BY DEF VettedOK, Open
<1>5. UsableOK'
  BY DEF UsableOK, Open
<1>6. PrivateOK'
  BY DEF PrivateOK, Open
<1>7. CutOK'
  BY DEF CutOK, Open
<1>8. CopyOK'
  BY DEF CopyOK, Open
<1> QED
  BY <1>1, <1>2, <1>3, <1>4, <1>5, <1>6, <1>7, <1>8

\* and locks what it has opened, in place or not.
LEMMA TryLockStep ==
    ASSUME VInv, NEW p \in Procs, TryLock(p)
    PROVE  VInv'
<1>1. TypeOK'
  BY DEF TypeOK, TryLock
<1>2. LockOK'
  <2>1. lock[cfd[p]] = Nobody /\ cfd[p] \in Inodes /\ pc[p] = "lock"
    BY DEF LockOK, TryLock
  <2>2. \A q \in Procs : q # p => pc'[q] = pc[q]
    BY DEF TypeOK, TryLock
  <2>3. pc'[p] = "create" /\ lock'[cfd[p]] = p
    BY <2>1 DEF TypeOK, TryLock
  <2>4. \A q \in Procs : q # p /\ pc[q] \in Session => lock'[cfd[q]] = q
    BY <2>1 DEF TypeOK, LockOK, TryLock
  <2>5. cfd' = cfd /\ conf' = conf /\ (stale \/ cfd[p] # conf => stale')
    BY DEF TryLock
  <2>6. \A q \in Procs : pc'[q] \in Session => cfd[q] \in Inodes /\ lock'[cfd[q]] = q
    BY <2>1, <2>2, <2>3, <2>4 DEF LockOK
  <2>7. \A q \in Procs : pc'[q] \in Session => stale' \/ cfd[q] = conf
    BY <2>2, <2>5 DEF LockOK
  <2>8. \A q \in Procs : pc'[q] = "lock" => cfd[q] \in Inodes
    BY <2>2, <2>3 DEF LockOK
  <2> QED
    BY <2>5, <2>6, <2>7, <2>8 DEF LockOK
<1>3. TempOK'
  BY DEF TypeOK, LockOK, TempOK, TryLock
<1>4. VettedOK'
  BY DEF TypeOK, LockOK, TempOK, VettedOK, TryLock
<1>5. UsableOK'
  BY DEF TypeOK, LockOK, TempOK, UsableOK, TryLock
<1>6. PrivateOK'
  BY DEF TypeOK, LockOK, TempOK, PrivateOK, TryLock
<1>7. CutOK'
  BY DEF TypeOK, LockOK, TempOK, CutOK, TryLock
<1>8. CopyOK'
  BY DEF TypeOK, LockOK, TempOK, CopyOK, TryLock
<1> QED
  BY <1>1, <1>2, <1>3, <1>4, <1>5, <1>6, <1>7, <1>8

\* A process that ends gives up its lock; the temporary file may go with it.
LEMMA LeavesStep ==
    ASSUME VInv, NEW p \in Procs, Leaves(p), UNCHANGED <<conf, files, now, history>>,
           temp' = temp \/ (temp' = NoInode /\ pc[p] \in Session)
    PROVE  VInv'
<1>1. TypeOK'
  BY DEF TypeOK, Leaves
<1>2. LockOK'
  BY DEF TypeOK, LockOK, TempOK, Leaves
<1>3. TempOK'
  <2>1. \A q \in Procs : q # p => pc'[q] = pc[q] /\ tfd'[q] = tfd[q] /\ last'[q] = last[q]
    BY DEF TypeOK, Leaves
  <2>2. pc'[p] = "idle" /\ last'[p] = <<>>
    BY DEF TypeOK, Leaves
  <2>3. temp' # conf'
    BY DEF TypeOK, TempOK
  <2>4. \A q \in Procs : temp' # temp /\ q # p /\ pc[q] \in Session => stale
    BY Alone
  <2> QED
    BY <2>1, <2>2, <2>3, <2>4 DEF TempOK
<1>4. VettedOK'
  BY DEF VettedOK, Leaves
<1>5. UsableOK'
  BY DEF UsableOK, Leaves
<1>6. PrivateOK'
  BY DEF PrivateOK, Leaves
<1>7. CutOK'
  BY DEF TypeOK, LockOK, TempOK, CutOK, Leaves
<1>8. CopyOK'
  BY DEF TypeOK, LockOK, TempOK, CopyOK, Leaves
<1> QED
  BY <1>1, <1>2, <1>3, <1>4, <1>5, <1>6, <1>7, <1>8

\* A new temporary file.
LEMMA CreateTempStep ==
    ASSUME VInv, NEW p \in Procs, NEW i \in Free, CreateTemp(p, i)
    PROVE  VInv'
<1>1. TypeOK'
  BY DEF TypeOK, CreateTemp, NewTemp, Free
<1>2. LockOK'
  BY DEF LockOK, CreateTemp, NewTemp, Free
<1>3. TempOK'
  BY DEF TypeOK, LockOK, TempOK, CreateTemp, NewTemp, Free
<1>4. VettedOK'
  BY DEF TypeOK, LockOK, TempOK, VettedOK, CreateTemp, NewTemp, Free
<1>5. UsableOK'
  BY DEF TypeOK, LockOK, TempOK, UsableOK, CreateTemp, NewTemp, Free
<1>6. PrivateOK'
  BY DEF TypeOK, LockOK, TempOK, PrivateOK, CreateTemp, NewTemp, Free
<1>7. CutOK'
  BY DEF TypeOK, LockOK, TempOK, CutOK, CreateTemp, NewTemp, Free
<1>8. CopyOK'
  BY DEF TypeOK, LockOK, TempOK, CopyOK, CreateTemp, NewTemp, Free
<1> QED
  BY <1>1, <1>2, <1>3, <1>4, <1>5, <1>6, <1>7, <1>8

\* An old one is found.
LEMMA TempExistsStep ==
    ASSUME VInv, NEW p \in Procs, TempExists(p)
    PROVE  VInv'
<1>1. TypeOK'
  BY DEF TypeOK, TempExists
<1>2. LockOK'
  BY DEF LockOK, TempExists
<1>3. TempOK'
  BY DEF TempOK, TempExists
<1>4. VettedOK'
  BY DEF VettedOK, TempExists
<1>5. UsableOK'
  BY DEF UsableOK, TempExists
<1>6. PrivateOK'
  BY DEF PrivateOK, TempExists
<1>7. CutOK'
  BY DEF CutOK, TempExists
<1>8. CopyOK'
  BY DEF CopyOK, TempExists
<1> QED
  BY <1>1, <1>2, <1>3, <1>4, <1>5, <1>6, <1>7, <1>8

\* It is made private and edited.
LEMMA ReuseStep ==
    ASSUME VInv, NEW p \in Procs, Reuse(p)
    PROVE  VInv'
<1>1. TypeOK'
  BY DEF TypeOK, Reuse
<1>2. LockOK'
  BY DEF LockOK, Reuse
<1>3. TempOK'
  BY DEF TempOK, Reuse
<1>4. VettedOK'
  BY DEF VettedOK, Reuse
<1>5. UsableOK'
  BY DEF TypeOK, LockOK, TempOK, UsableOK, Reuse
<1>6. PrivateOK'
  BY DEF TypeOK, LockOK, TempOK, PrivateOK, Reuse
<1>7. CutOK'
  BY DEF TypeOK, LockOK, TempOK, CutOK, Reuse
<1>8. CopyOK'
  <2>1. last[p] = <<>> /\ pc[p] = "ask" /\ pc' = [pc EXCEPT ![p] = "edit"]
    BY DEF TempOK, Reuse
  <2>2. last'[p] # <<mtime'[temp']>>
    BY <2>1 DEF Reuse
  <2>3. \A q \in Procs : q # p => pc'[q] = pc[q]
    BY <2>1 DEF TypeOK
  <2> QED
    BY <2>1, <2>2, <2>3 DEF CopyOK, Reuse
<1> QED
  BY <1>1, <1>2, <1>3, <1>4, <1>5, <1>6, <1>7, <1>8

\* It is removed.
LEMMA DiscardStep ==
    ASSUME VInv, NEW p \in Procs, Discard(p)
    PROVE  VInv'
<1>1. TypeOK'
  BY DEF TypeOK, Discard
<1>2. LockOK'
  BY DEF LockOK, Discard
<1>3. TempOK'
  <2>1. pc[p] = "ask" /\ pc' = [pc EXCEPT ![p] = "recreate"] /\ temp' = NoInode
    BY DEF Discard
  <2>2. \A q \in Procs : q # p /\ pc[q] \in Session => stale
    BY <2>1, Alone
  <2>3. temp' # conf'
    BY <2>1 DEF TypeOK, Discard
  <2>4. \A q \in Procs : pc'[q] = pc[q] \/ (q = p /\ pc'[q] = "recreate")
    BY <2>1 DEF TypeOK
  <2>5. last[p] = <<>>
    BY <2>1 DEF TempOK
  <2>6. tfd' = tfd /\ last' = last /\ stale' = stale
    BY DEF Discard
  <2>7. \A q \in Procs : pc'[q] \in {"copy", "compare", "attrs"} => stale
    BY <2>1, <2>2, <2>4
  <2> QED
    BY <2>1, <2>3, <2>4, <2>5, <2>6, <2>7 DEF TempOK
<1>4. VettedOK'
  BY DEF VettedOK, Discard
<1>5. UsableOK'
  BY DEF UsableOK, Discard
<1>6. PrivateOK'
  BY DEF PrivateOK, Discard
<1>7. CutOK'
  BY DEF CutOK, Discard
<1>8. CopyOK'
  BY DEF CopyOK, Discard
<1> QED
  BY <1>1, <1>2, <1>3, <1>4, <1>5, <1>6, <1>7, <1>8

\* The copy.
LEMMA CopyStep ==
    ASSUME VInv, NEW p \in Procs, Copy(p)
    PROVE  VInv'
<1>1. TypeOK'
  BY DEF TypeOK, LockOK, TempOK, Copy
<1>2. LockOK'
  BY DEF LockOK, Copy
<1>3. TempOK'
  BY DEF TypeOK, LockOK, TempOK, Copy
<1>4. VettedOK'
  BY DEF TypeOK, LockOK, TempOK, VettedOK, Copy
<1>5. UsableOK'
  BY DEF TypeOK, LockOK, TempOK, UsableOK, Copy
<1>6. PrivateOK'
  BY DEF PrivateOK, Copy
<1>7. CutOK'
  BY DEF TypeOK, LockOK, TempOK, CutOK, Copy
<1>8. CopyOK'
  BY DEF TypeOK, LockOK, TempOK, CopyOK, Copy
<1> QED
  BY <1>1, <1>2, <1>3, <1>4, <1>5, <1>6, <1>7, <1>8

\* The editor writes.
LEMMA EditInPlaceStep ==
    ASSUME VInv, NEW p \in Procs, NEW t \in Texts \ {Cut}, EditInPlace(p, t)
    PROVE  VInv'
<1>1. LockOK' /\ TempOK' /\ PrivateOK'
  BY DEF LockOK, TempOK, PrivateOK, EditInPlace, Advanced
<1>2. TypeOK'
  BY DEF TypeOK, EditInPlace, Advanced
<1>3. VettedOK'
  BY DEF TypeOK, LockOK, TempOK, VettedOK, EditInPlace, Advanced
<1>4. UsableOK'
  BY DEF TypeOK, LockOK, TempOK, UsableOK, EditInPlace, Advanced
<1>5. CutOK'
  BY DEF CutOK, EditInPlace, Advanced
<1>6. CopyOK'
  BY DEF TypeOK, LockOK, TempOK, CopyOK, EditInPlace, Advanced
<1> QED
  BY <1>1, <1>2, <1>3, <1>4, <1>5, <1>6

\* or replaces the file.
LEMMA EditByReplacingStep ==
    ASSUME VInv, NEW p \in Procs, NEW i \in Free, NEW t \in Texts \ {Cut},
           EditByReplacing(p, i, t)
    PROVE  VInv'
<1>1. LockOK'
  BY DEF LockOK, EditByReplacing, NewTemp, Advanced, Free
<1>2. TypeOK'
  BY DEF TypeOK, EditByReplacing, NewTemp, Advanced, Free
<1>3. TempOK'
  BY DEF TypeOK, LockOK, TempOK, EditByReplacing, NewTemp, Advanced, Free
<1>4. VettedOK'
  BY DEF TypeOK, LockOK, TempOK, VettedOK, EditByReplacing, NewTemp, Advanced, Free
<1>5. UsableOK'
  BY DEF TypeOK, LockOK, TempOK, UsableOK, EditByReplacing, NewTemp, Advanced, Free
<1>6. PrivateOK'
  BY DEF TypeOK, LockOK, TempOK, PrivateOK, EditByReplacing, NewTemp, Advanced, Free
<1>7. CutOK'
  BY DEF TypeOK, LockOK, TempOK, CutOK, EditByReplacing, NewTemp, Advanced, Free
<1>8. CopyOK'
  BY DEF TypeOK, LockOK, TempOK, CopyOK, EditByReplacing, NewTemp, Advanced, Free
<1> QED
  BY <1>1, <1>2, <1>3, <1>4, <1>5, <1>6, <1>7, <1>8

\* or removes it.
LEMMA EditorRemovesStep ==
    ASSUME VInv, NEW p \in Procs, EditorRemoves(p)
    PROVE  VInv'
<1>1. LockOK'
  BY DEF LockOK, EditorRemoves
<1>2. TypeOK'
  BY DEF TypeOK, EditorRemoves
<1>3. TempOK'
  BY DEF TypeOK, LockOK, TempOK, EditorRemoves
<1>4. VettedOK'
  BY DEF VettedOK, EditorRemoves
<1>5. UsableOK'
  BY DEF UsableOK, EditorRemoves
<1>6. PrivateOK'
  BY DEF PrivateOK, EditorRemoves
<1>7. CutOK'
  BY DEF CutOK, EditorRemoves
<1>8. CopyOK'
  BY DEF CopyOK, EditorRemoves
<1> QED
  BY <1>1, <1>2, <1>3, <1>4, <1>5, <1>6, <1>7, <1>8

\* and exits.
LEMMA EditorExitsStep ==
    ASSUME VInv, NEW p \in Procs, EditorExits(p)
    PROVE  VInv'
<1>1. TypeOK'
  BY DEF TypeOK, EditorExits
<1>2. LockOK'
  BY DEF LockOK, EditorExits
<1>3. TempOK'
  BY DEF TempOK, EditorExits
<1>4. VettedOK'
  BY DEF VettedOK, EditorExits
<1>5. UsableOK'
  BY DEF UsableOK, EditorExits
<1>6. PrivateOK'
  BY DEF PrivateOK, EditorExits
<1>7. CutOK'
  BY DEF CutOK, EditorExits
<1>8. CopyOK'
  BY DEF CopyOK, EditorExits
<1> QED
  BY <1>1, <1>2, <1>3, <1>4, <1>5, <1>6, <1>7, <1>8

\* The check passes.
LEMMA CheckPassesStep ==
    ASSUME VInv, NEW p \in Procs, CheckPasses(p)
    PROVE  VInv'
<1>1. TypeOK'
  BY DEF TypeOK, CheckPasses
<1>2. LockOK'
  BY DEF LockOK, CheckPasses
<1>3. TempOK'
  BY DEF TempOK, CheckPasses
<1>4. VettedOK'
  BY DEF TypeOK, LockOK, TempOK, VettedOK, CheckPasses
<1>5. UsableOK'
  BY DEF UsableOK, CheckPasses
<1>6. PrivateOK'
  BY DEF PrivateOK, CheckPasses
<1>7. CutOK'
  BY DEF CutOK, CheckPasses
<1>8. CopyOK'
  BY DEF CopyOK, CheckPasses
<1> QED
  BY <1>1, <1>2, <1>3, <1>4, <1>5, <1>6, <1>7, <1>8

\* or warns of what it has read.
LEMMA CheckWarnsStep ==
    ASSUME VInv, NEW p \in Procs, CheckWarns(p)
    PROVE  VInv'
<1>1. TypeOK'
  BY DEF TypeOK, CheckWarns
<1>2. LockOK'
  BY DEF LockOK, CheckWarns
<1>3. TempOK'
  BY DEF TempOK, CheckWarns
<1>4. VettedOK'
  BY DEF TypeOK, LockOK, TempOK, VettedOK, CheckWarns
<1>5. UsableOK'
  BY DEF UsableOK, CheckWarns
<1>6. PrivateOK'
  BY DEF PrivateOK, CheckWarns
<1>7. CutOK'
  BY DEF CutOK, CheckWarns
<1>8. CopyOK'
  BY DEF CopyOK, CheckWarns
<1> QED
  BY <1>1, <1>2, <1>3, <1>4, <1>5, <1>6, <1>7, <1>8

\* The user edits again.
LEMMA EditAgainStep ==
    ASSUME VInv, NEW p \in Procs, EditAgain(p)
    PROVE  VInv'
<1>1. TypeOK'
  BY DEF TypeOK, EditAgain
<1>2. LockOK'
  BY DEF LockOK, EditAgain
<1>3. TempOK'
  BY DEF TempOK, EditAgain
<1>4. VettedOK'
  BY DEF VettedOK, EditAgain
<1>5. UsableOK'
  BY DEF UsableOK, EditAgain
<1>6. PrivateOK'
  BY DEF PrivateOK, EditAgain
<1>7. CutOK'
  BY DEF CutOK, EditAgain
<1>8. CopyOK'
  BY DEF CopyOK, EditAgain
<1> QED
  BY <1>1, <1>2, <1>3, <1>4, <1>5, <1>6, <1>7, <1>8

\* or accepts what was checked.
LEMMA ForceSaveStep ==
    ASSUME VInv, NEW p \in Procs, ForceSave(p)
    PROVE  VInv'
<1>1. TypeOK'
  BY DEF TypeOK, ForceSave
<1>2. LockOK'
  BY DEF LockOK, ForceSave
<1>3. TempOK'
  BY DEF TempOK, ForceSave
<1>4. VettedOK'
  BY DEF TypeOK, LockOK, TempOK, VettedOK, ForceSave
<1>5. UsableOK'
  BY DEF UsableOK, ForceSave
<1>6. PrivateOK'
  BY DEF PrivateOK, ForceSave
<1>7. CutOK'
  BY DEF CutOK, ForceSave
<1>8. CopyOK'
  BY DEF CopyOK, ForceSave
<1> QED
  BY <1>1, <1>2, <1>3, <1>4, <1>5, <1>6, <1>7, <1>8

\* The file is opened once more.
LEMMA OpenTempStep ==
    ASSUME VInv, NEW p \in Procs, OpenTemp(p)
    PROVE  VInv'
<1>1. TypeOK'
  BY DEF TypeOK, OpenTemp
<1>2. LockOK'
  BY DEF LockOK, OpenTemp
<1>3. TempOK'
  BY DEF TypeOK, LockOK, TempOK, OpenTemp
<1>4. VettedOK'
  BY DEF VettedOK, OpenTemp
<1>5. UsableOK'
  BY DEF UsableOK, OpenTemp
<1>6. PrivateOK'
  BY DEF PrivateOK, OpenTemp
<1>7. CutOK'
  BY DEF CutOK, OpenTemp
<1>8. CopyOK'
  BY DEF CopyOK, OpenTemp
<1> QED
  BY <1>1, <1>2, <1>3, <1>4, <1>5, <1>6, <1>7, <1>8

\* It was changed.
LEMMA ChangedStep ==
    ASSUME VInv, NEW p \in Procs, Changed(p)
    PROVE  VInv'
<1>1. TypeOK'
  BY DEF TypeOK, Changed, SameTime
<1>2. LockOK'
  BY DEF LockOK, Changed, SameTime
<1>3. TempOK'
  BY DEF TempOK, Changed, SameTime
<1>4. VettedOK'
  BY DEF VettedOK, Changed, SameTime
<1>5. UsableOK'
  BY DEF UsableOK, Changed, SameTime
<1>6. PrivateOK'
  BY DEF PrivateOK, Changed, SameTime
<1>7. CutOK'
  BY DEF CutOK, Changed, SameTime
<1>8. CopyOK'
  BY DEF CopyOK, Changed, SameTime
<1> QED
  BY <1>1, <1>2, <1>3, <1>4, <1>5, <1>6, <1>7, <1>8

\* Owner and mode of the file in place.
LEMMA RestoreAttrsStep ==
    ASSUME VInv, NEW p \in Procs, RestoreAttrs(p)
    PROVE  VInv'
<1>1. TypeOK'
  BY DEF TypeOK, LockOK, TempOK, RestoreAttrs
<1>2. LockOK'
  BY DEF LockOK, RestoreAttrs
<1>3. TempOK'
  BY DEF TypeOK, LockOK, TempOK, RestoreAttrs
<1>4. VettedOK'
  BY DEF VettedOK, RestoreAttrs
<1>5. UsableOK'
  BY DEF TypeOK, LockOK, TempOK, UsableOK, RestoreAttrs
<1>6. PrivateOK'
  BY DEF TypeOK, LockOK, TempOK, PrivateOK, RestoreAttrs
<1>7. CutOK'
  BY DEF CutOK, RestoreAttrs
<1>8. CopyOK'
  BY DEF CopyOK, RestoreAttrs
<1> QED
  BY <1>1, <1>2, <1>3, <1>4, <1>5, <1>6, <1>7, <1>8

\* The session that renames is the only one, and has left afterwards.
LEMMA RenameStep ==
    ASSUME VInv, NEW p \in Procs, Rename(p)
    PROVE  VInv'
<1>1. TypeOK'
  BY DEF TypeOK, Rename, Leaves
<1>2. LockOK'
  BY DEF TypeOK, LockOK, TempOK, Rename, Leaves
<1>3. TempOK'
  BY DEF TypeOK, LockOK, TempOK, Rename, Leaves
<1>4. VettedOK'
  BY DEF VettedOK, Rename, Leaves
<1>5. UsableOK'
  BY DEF UsableOK, Rename, Leaves
<1>6. PrivateOK'
  BY DEF PrivateOK, Rename, Leaves
<1>7. CutOK'
  BY DEF CutOK, Rename, Leaves
<1>8. CopyOK'
  BY DEF CopyOK, Rename, Leaves
<1> QED
  BY <1>1, <1>2, <1>3, <1>4, <1>5, <1>6, <1>7, <1>8

\* The clock.
LEMMA TickStep ==
    ASSUME VInv, Tick
    PROVE  VInv'
<1>1. LockOK' /\ TempOK' /\ VettedOK' /\ UsableOK' /\ PrivateOK' /\ CutOK' /\ CopyOK'
  BY DEF LockOK, TempOK, VettedOK, UsableOK, PrivateOK, CutOK, CopyOK, Tick
<1>2. TypeOK'
  BY DEF TypeOK, Tick
<1> QED
  BY <1>1, <1>2

\* A step that changes nothing.
LEMMA StutterStep ==
    ASSUME VInv, UNCHANGED vars
    PROVE  VInv'
<1>1. TypeOK'
  BY DEF TypeOK, vars
<1>2. LockOK'
  BY DEF LockOK, vars
<1>3. TempOK'
  BY DEF TempOK, vars
<1>4. VettedOK'
  BY DEF VettedOK, vars
<1>5. UsableOK'
  BY DEF UsableOK, vars
<1>6. PrivateOK'
  BY DEF PrivateOK, vars
<1>7. CutOK'
  BY DEF CutOK, vars
<1>8. CopyOK'
  BY DEF CopyOK, vars
<1> QED
  BY <1>1, <1>2, <1>3, <1>4, <1>5, <1>6, <1>7, <1>8

\* Every step keeps the invariant.
LEMMA NextInv == VInv /\ [Next]_vars => VInv'
<1> SUFFICES ASSUME VInv, [Next]_vars
             PROVE  VInv'
  OBVIOUS
<1>1. CASE Tick
  BY <1>1, TickStep
<1>2. CASE UNCHANGED vars
  BY <1>2, StutterStep
<1>3. ASSUME NEW p \in Procs,
             Locking(p) \/ Preparing(p) \/ Editing(p) \/ Checking(p) \/ Saving(p) \/ Dies(p)
      PROVE  VInv'
  <2>1. CASE Locking(p)
    BY <2>1, ConsultStep, OpenStep, TryLockStep, LeavesStep DEF Locking, LockFails
  <2>2. CASE Preparing(p)
    BY <2>2, CreateTempStep, TempExistsStep, ReuseStep, DiscardStep, CopyStep DEF Preparing
  <2>3. CASE Editing(p)
    BY <2>3, EditInPlaceStep, EditByReplacingStep, EditorRemovesStep, EditorExitsStep
       DEF Editing
  <2>4. CASE Checking(p)
    <3>1. CASE CheckErrors(p)
      BY <3>1, LeavesStep DEF CheckErrors
    <3>2. CASE ExitUnsaved(p)
      <4>1. Leaves(p) /\ UNCHANGED <<conf, files, now, history>>
        BY <3>2 DEF ExitUnsaved
      <4>2. temp' = NoInode /\ pc[p] \in Session
        BY <3>2 DEF ExitUnsaved
      <4> QED
        BY <1>3, <4>1, <4>2, LeavesStep
    <3> QED
      BY <2>4, <3>1, <3>2, CheckPassesStep, CheckWarnsStep, EditAgainStep, ForceSaveStep
         DEF Checking
  <2>5. CASE Saving(p)
    <3>1. CASE Unchanged(p)
      <4>1. Leaves(p) /\ UNCHANGED <<conf, files, now, history>>
        BY <3>1 DEF Unchanged
      <4>2. temp' = NoInode /\ pc[p] \in Session
        BY <3>1 DEF Unchanged
      <4> QED
        BY <1>3, <4>1, <4>2, LeavesStep
    <3> QED
      BY <2>5, <3>1, OpenTempStep, ChangedStep, RestoreAttrsStep, RenameStep DEF Saving
  <2>6. CASE Dies(p)
    BY <2>6, LeavesStep DEF Dies
  <2> QED
    BY <1>3, <2>1, <2>2, <2>3, <2>4, <2>5, <2>6
<1> QED
  BY <1>1, <1>2, <1>3 DEF Next

\* The invariant holds in every reachable state, whatever the constants.
THEOREM Invariant == Spec => []VInv
<1> QED
  BY InitInv, NextInv, PTL DEF Spec

\* Every variable keeps its shape: there always is a doas.conf.
THEOREM TypeCorrect == Spec => []TypeOK
<1>1. VInv => TypeOK
  OBVIOUS
<1> QED
  BY <1>1, Invariant, PTL

\* Two sessions at once are only possible after a lock on a replaced file.
THEOREM OverlapsNeedStaleLock == Spec => []OverlapNeedsStaleLock
<1>1. VInv => OverlapNeedsStaleLock
  BY Alone DEF OverlapNeedsStaleLock, SessionsExclusive
<1> QED
  BY <1>1, Invariant, PTL

\* What is installed was checked in exactly this form, or accepted by the user.
THEOREM ConfAlwaysVetted == Spec => []ConfIsVetted
<1>1. VInv => ConfIsVetted
  BY DEF VettedOK, ConfIsVetted
<1> QED
  BY <1>1, Invariant, PTL

\* Unless somebody forced it, what is installed lets doas and vidoas run again.
THEOREM ConfAlwaysUsable == Spec => []ConfStaysUsable
<1>1. VInv => ConfStaysUsable
  BY DEF UsableOK, ConfStaysUsable
<1> QED
  BY <1>1, Invariant, PTL

\* No session saves over changes it has not seen.
THEOREM UpdatesAreKept == Spec => []NoLostUpdate
<1>1. VInv => NoLostUpdate
  BY DEF LockOK, NoLostUpdate
<1> QED
  BY <1>1, Invariant, PTL

\* A truncated copy is saved only by a session that reused it.
THEOREM CutsNeedReuse == Spec => []CutNeedsReuse
<1>1. VInv => CutNeedsReuse
  BY DEF CutOK, CutNeedsReuse
<1> QED
  BY <1>1, Invariant, PTL

\* No editor works on a file with the mode of doas.conf.
THEOREM EditsArePrivate == Spec => []PrivateWhileEdited
<1>1. VInv => PrivateWhileEdited
  BY DEF PrivateOK, PrivateWhileEdited
<1> QED
  BY <1>1, Invariant, PTL

\* Where later writes have later times, an early return loses nothing.
THEOREM EarlyReturnsLoseNothing == Granular => (Spec => []EarlyReturnLosesNothing)
<1> SUFFICES ASSUME Granular
             PROVE  Spec => []EarlyReturnLosesNothing
  OBVIOUS
<1>1. VInv => EarlyReturnLosesNothing
  BY DEF TempOK, CopyOK, EarlyReturnLosesNothing, SameTime
<1> QED
  BY <1>1, Invariant, PTL

----------------------------------------------------------------------------
\* What a step of Vidoas is, seen as a step of Edits.
MapStep == [Abstract!Next]_Abstract!vars

\* The editor of Edits is the one process in a session, or nobody.
EditorOK ==
    /\ \A p \in Procs : ~stale /\ pc[p] \in Session => TheEditor = p /\ Judged = Judgement(p)
    /\ (\A p \in Procs : pc[p] \notin Session) => TheEditor = Nobody /\ Judged = "no"

\* Two of them would exclude each other, and Judged is about the one there is.
LEMMA EditorIs == VInv => EditorOK
<1>1. (\A p \in Procs : pc[p] \notin Session) => TheEditor = Nobody /\ Judged = "no"
  <2>1. (\A p \in Procs : pc[p] \notin Session) => InSession = {}
    BY DEF InSession
  <2> QED
    BY <2>1 DEF TheEditor, Judged
<1> SUFFICES ASSUME VInv, NEW p \in Procs, ~stale, pc[p] \in Session
             PROVE  TheEditor = p /\ Judged = Judgement(p)
  BY <1>1 DEF EditorOK
<1>2. InSession = {p}
  BY Alone DEF InSession
<1>3. TheEditor = p
  BY <1>2 DEF TheEditor
<1> QED
  BY <1>3 DEF Judged

\* A step outside of the sessions leaves the draft and its editor alone.
LEMMA OutsideKeeps ==
    ASSUME TypeOK, UNCHANGED <<conf, temp, text, stale>>,
           \A p \in Procs : pc'[p] = pc[p] \/ (pc[p] \notin Session /\ pc'[p] \notin Session)
    PROVE  UNCHANGED <<text[conf], TheDraft, TheEditor, Judged, stale>>
<1>1. InSession' = InSession
  BY DEF InSession
<1>2. TheDraft' = TheDraft /\ TheEditor' = TheEditor
  BY <1>1 DEF TheDraft, TheEditor
<1>3. Judged' = Judged
  <2>1. CASE TheEditor = Nobody
    BY <1>2, <2>1 DEF Judged
  <2>2. CASE TheEditor # Nobody
    <3>1. TheEditor \in Procs /\ pc[TheEditor] \in Session
      BY <2>2 DEF TheEditor, InSession
    <3>2. Judgement(TheEditor)' = Judgement(TheEditor)
      BY <1>2, <3>1 DEF Judgement
    <3> QED
      BY <1>2, <2>2, <3>2 DEF Judged
  <2> QED
    BY <2>1, <2>2
<1> QED
  BY <1>2, <1>3

\* It changes nothing of Edits if no process moves,
LEMMA StillMaps ==
    ASSUME TypeOK, UNCHANGED <<conf, temp, text, stale, pc>>
    PROVE  MapStep
<1>1. UNCHANGED <<text[conf], TheDraft, TheEditor, Judged, stale, Admitted>>
  BY OutsideKeeps DEF Admitted
<1> QED
  BY <1>1 DEF MapStep, Abstract!vars

\* and dismisses a process that goes.
LEMMA DismissMaps ==
    ASSUME TypeOK, NEW p \in Procs, pc[p] \notin Session, Leaves(p),
           UNCHANGED <<conf, temp, text, stale>>
    PROVE  MapStep
<1>1. UNCHANGED <<text[conf], TheDraft, TheEditor, Judged, stale>>
  BY OutsideKeeps DEF TypeOK, Leaves
<1>2. Admitted' = Admitted \ {p}
  BY DEF Admitted, TypeOK, Leaves
<1>3. Abstract!Dismiss(p)
  BY <1>1, <1>2 DEF Abstract!Dismiss
<1> QED
  BY <1>3 DEF MapStep, Abstract!Next

\* What happens in a session lets nobody in.
LEMMA AdmittedStays ==
    ASSUME NEW p \in Procs, pc[p] \in Session, pc'[p] \in Session \cup {"idle"},
           \A q \in Procs \ {p} : pc'[q] = pc[q]
    PROVE  Admitted' = Admitted
<1> QED
  BY DEF Admitted

\* The draft is written, or kept, and what was found out about it is forgotten.
LEMMA WriteMaps ==
    ASSUME VInv, VInv', ~stale, ~stale', NEW p \in Procs, pc[p] \in Session,
           pc'[p] \in {"create", "ask", "recreate", "copy", "edit", "check"},
           \A q \in Procs \ {p} : pc'[q] = pc[q],
           conf' = conf, text'[conf] = text[conf]
    PROVE  MapStep
<1>1. TheEditor = p /\ p # Nobody /\ UNCHANGED <<stale, Admitted>>
  BY EditorIs, AdmittedStays DEF EditorOK, TypeOK
<1>2. (TheEditor = p)' /\ Judged' = "no"
  <2>1. (VInv => EditorOK)'
    BY EditorIs, PTL
  <2>2. TheEditor' = p /\ Judged' = Judgement(p)'
    BY <2>1 DEF EditorOK
  <2> QED
    BY <2>2 DEF Judgement
<1>3. TheDraft' \in {<<>>} \cup {<<t>> : t \in Texts}
  <2>1. temp' \in Inodes => text'[temp'] \in Texts
    BY DEF TypeOK
  <2>2. temp' \in Inodes \cup {NoInode}
    BY DEF TypeOK
  <2> QED
    BY <2>1, <2>2 DEF TheDraft
<1>4. Abstract!Write(TheDraft')
  BY <1>1, <1>2 DEF Abstract!Write
<1> QED
  BY <1>3, <1>4 DEF MapStep, Abstract!Next

\* The judgement on the draft: before and after a step that changes no file.
LEMMA JudgedMaps ==
    ASSUME VInv, VInv', ~stale, ~stale', NEW p \in Procs, pc[p] \in Session,
           pc'[p] \in Session, \A q \in Procs \ {p} : pc'[q] = pc[q],
           UNCHANGED <<conf, temp, text>>
    PROVE  /\ TheEditor = p /\ TheEditor' = p /\ p # Nobody
           /\ UNCHANGED <<TheDraft, Admitted>>
           /\ Judged = Judgement(p) /\ Judged' = Judgement(p)'
<1>1. (VInv => EditorOK)'
  BY EditorIs, PTL
<1>2. TheEditor = p /\ Judged = Judgement(p)
  BY EditorIs DEF EditorOK
<1>3. TheEditor' = p /\ Judged' = Judgement(p)'
  BY <1>1 DEF EditorOK
<1> QED
  BY <1>2, <1>3, AdmittedStays DEF TheDraft

\* The session is over, and no other is under way.
LEMMA LeavesMaps ==
    ASSUME VInv, VInv', ~stale, NEW p \in Procs, pc[p] \in Session, Leaves(p)
    PROVE  /\ TheEditor = p /\ p # Nobody /\ Judged = Judgement(p)
           /\ TheEditor' = Nobody /\ Judged' = "no" /\ Admitted' = Admitted
<1>1. TheEditor = p /\ Judged = Judgement(p)
  BY EditorIs DEF EditorOK
<1>2. \A q \in Procs : pc'[q] \notin Session
  BY Alone DEF TypeOK, Leaves
<1>3. (VInv => EditorOK)'
  BY EditorIs, PTL
<1>4. TheEditor' = Nobody /\ Judged' = "no"
  BY <1>2, <1>3 DEF EditorOK
<1>5. Admitted' = Admitted
  BY AdmittedStays DEF TypeOK, Leaves
<1> QED
  BY <1>1, <1>4, <1>5

\* It leaves the draft to the next one, or takes it along.
LEMMA LeaveMaps ==
    ASSUME VInv, VInv', ~stale, NEW p \in Procs, pc[p] \in Session, Leaves(p),
           UNCHANGED <<conf, text, stale>>, temp' \in {temp, NoInode}
    PROVE  MapStep
<1>1. /\ TheEditor = p /\ p # Nobody /\ TheEditor' = Nobody
      /\ Judged' = "no" /\ Admitted' = Admitted
  BY LeavesMaps
<1>2. TheDraft' \in {TheDraft, <<>>}
  BY DEF TheDraft
<1>3. Abstract!Leave
  BY <1>1, <1>2 DEF Abstract!Leave, Abstract!Ends
<1> QED
  BY <1>3 DEF MapStep, Abstract!Next

\* A lock on the file in place begins a session; there is no other.
LEMMA TryLockMaps ==
    ASSUME VInv, VInv', ~stale, NEW p \in Procs, TryLock(p)
    PROVE  MapStep
<1>0. p \in Admitted /\ Admitted' = Admitted \ {p}
  BY DEF Admitted, TypeOK, TryLock
<1>1. TheDraft' = TheDraft /\ text'[conf'] = text[conf]
  BY DEF TheDraft, TryLock
<1>2. CASE stale'
  <2>1. TheEditor' = Nobody
    BY <1>2 DEF TheEditor
  <2>2. Judged' = "no"
    BY <2>1 DEF Judged
  <2>3. stale' = TRUE
    BY <1>2 DEF TypeOK
  <2>4. Abstract!Race(p)
    BY <1>0, <1>1, <2>1, <2>2, <2>3 DEF Abstract!Race
  <2> QED
    BY <2>4 DEF MapStep, Abstract!Next
<1>3. CASE ~stale'
  <2>1. cfd[p] = conf /\ lock[conf] = Nobody /\ pc[p] = "lock" /\ stale' = stale
    BY <1>3 DEF TypeOK, TryLock
  <2>2. \A q \in Procs : pc[q] \notin Session
    BY <2>1 DEF LockOK
  <2>3. TheEditor = Nobody /\ Judged = "no"
    BY <2>2, EditorIs DEF EditorOK
  <2>4. (VInv => EditorOK)'
    BY EditorIs, PTL
  <2>5. pc'[p] = "create"
    BY DEF TypeOK, TryLock
  <2>6. TheEditor' = p /\ Judged' = "no"
    BY <1>3, <2>4, <2>5 DEF EditorOK, Judgement
  <2>7. Abstract!Begin(p)
    BY <1>0, <1>1, <2>1, <2>3, <2>6 DEF Abstract!Begin
  <2> QED
    BY <2>7 DEF MapStep, Abstract!Next
<1> QED
  BY <1>2, <1>3

\* The draft becomes what is installed, whole.
LEMMA RenameMaps ==
    ASSUME VInv, VInv', ~stale, NEW p \in Procs, Rename(p)
    PROVE  MapStep
<1>1. pc[p] = "rename" /\ Leaves(p) /\ UNCHANGED <<text, stale>> /\ temp # NoInode
      /\ conf' = temp /\ temp' = NoInode
  BY DEF Rename
<1>2. /\ TheEditor = p /\ p # Nobody /\ Judged = "yes"
      /\ TheEditor' = Nobody /\ Judged' = "no" /\ Admitted' = Admitted
  BY <1>1, LeavesMaps DEF Judgement
<1>3. TheDraft = <<text'[conf']>> /\ TheDraft' = <<>>
  BY <1>1 DEF TheDraft
<1>4. Abstract!Install
  BY <1>1, <1>2, <1>3 DEF Abstract!Install, Abstract!Ends
<1> QED
  BY <1>4 DEF MapStep, Abstract!Next

\* A session that locked a replaced file has ended the promise for good.
LEMMA StaleMaps ==
    ASSUME VInv, stale, [Next]_vars
    PROVE  MapStep
<1>1. stale = TRUE /\ stale' = TRUE
  BY DEF TypeOK, Next, vars, Tick, Locking, Consult, Open, TryLock, LockFails, Preparing, CreateTemp,
     TempExists, Reuse, Discard, Copy, Editing, EditInPlace, EditByReplacing, EditorRemoves,
     EditorExits, Checking, CheckPasses, CheckWarns, CheckErrors, EditAgain, ExitUnsaved,
     ForceSave, Saving, OpenTemp, Unchanged, Changed, RestoreAttrs, Rename, Dies
<1> QED
  BY <1>1 DEF MapStep, Abstract!Next

\* Being let in, opening, locking, and giving up on the lock.
LEMMA LockingMaps ==
    ASSUME VInv, VInv', ~stale, NEW p \in Procs, Locking(p)
    PROVE  MapStep
<1>1. CASE Consult(p)
  <2>1. UNCHANGED <<text[conf], TheDraft, TheEditor, Judged, stale>>
    BY <1>1, OutsideKeeps DEF TypeOK, Consult
  <2>2. Verdict[text[conf]] = "ok" /\ Admitted' = Admitted \cup {p}
    BY <1>1 DEF Admitted, TypeOK, Consult
  <2>3. Abstract!Admit(p)
    BY <2>1, <2>2 DEF Abstract!Admit
  <2> QED
    BY <2>3 DEF MapStep, Abstract!Next
<1>2. CASE Open(p)
  <2>1. UNCHANGED <<text[conf], TheDraft, TheEditor, Judged, stale>>
    BY <1>2, OutsideKeeps DEF TypeOK, Open
  <2>2. Admitted' = Admitted
    BY <1>2 DEF Admitted, TypeOK, Open
  <2> QED
    BY <2>1, <2>2 DEF MapStep, Abstract!vars
<1>3. CASE LockFails(p)
  BY <1>3, DismissMaps DEF LockFails
<1> QED
  BY <1>1, <1>2, <1>3, TryLockMaps DEF Locking

\* Whatever is done to the file before it is judged.
LEMMA DraftingMaps ==
    ASSUME VInv, VInv', ~stale, NEW p \in Procs, Preparing(p) \/ Editing(p)
    PROVE  MapStep
<1>1. /\ pc[p] \in Session /\ conf' = conf /\ ~stale'
      /\ pc'[p] \in {"create", "ask", "recreate", "copy", "edit", "check"}
      /\ \A q \in Procs \ {p} : pc'[q] = pc[q]
  BY DEF TypeOK, Preparing, CreateTemp, NewTemp, TempExists, Reuse, Discard, Copy,
     Editing, EditInPlace, EditByReplacing, NewTemp, EditorRemoves, EditorExits
<1>2. text'[conf] = text[conf]
  <2>1. CASE \E i \in Free : CreateTemp(p, i)
    BY <2>1 DEF TypeOK, CreateTemp, NewTemp, Free
  <2>2. CASE Copy(p)
    <3>1. tfd[p] # conf
      BY <2>2 DEF TempOK, Copy
    <3> QED
      BY <2>2, <3>1 DEF TypeOK, Copy
  <2>3. CASE \E t \in Texts \ {Cut} : EditInPlace(p, t)
    BY <2>3 DEF TypeOK, TempOK, EditInPlace
  <2>4. CASE \E i \in Free, t \in Texts \ {Cut} : EditByReplacing(p, i, t)
    BY <2>4 DEF TypeOK, EditByReplacing, NewTemp, Free
  <2> QED
    BY <2>1, <2>2, <2>3, <2>4 DEF Preparing, TempExists, Reuse, Discard, Editing,
       EditorRemoves, EditorExits
<1> QED
  BY <1>1, <1>2, WriteMaps

\* check_config judges the draft, and the user may insist.
LEMMA CheckingMaps ==
    ASSUME VInv, VInv', ~stale, NEW p \in Procs, Checking(p)
    PROVE  MapStep
<1>1. CASE CheckErrors(p) \/ ExitUnsaved(p)
  BY <1>1, LeaveMaps DEF CheckErrors, ExitUnsaved
<1>2. CASE EditAgain(p)
  BY <1>2, WriteMaps DEF TypeOK, EditAgain
<1>3. ASSUME CheckPasses(p) \/ CheckWarns(p) \/ ForceSave(p)
      PROVE  /\ pc[p] \in Session /\ pc'[p] \in Session /\ stale' = stale
             /\ UNCHANGED <<conf, temp, text>>
             /\ TheEditor = p /\ TheEditor' = p /\ p # Nobody
             /\ UNCHANGED <<TheDraft, Admitted>>
             /\ Judged = Judgement(p) /\ Judged' = Judgement(p)'
  <2>1. /\ pc[p] \in Session /\ pc'[p] \in Session /\ stale' = stale
        /\ \A q \in Procs \ {p} : pc'[q] = pc[q]
        /\ UNCHANGED <<conf, temp, text>>
    BY <1>3 DEF TypeOK, CheckPasses, CheckWarns, ForceSave
  <2> QED
    BY <2>1, JudgedMaps
<1>4. temp # NoInode => TheDraft = <<text[temp]>> /\ text[temp] \in Texts
  BY DEF TheDraft, TypeOK
<1>5. CASE CheckPasses(p)
  <2>1. Judged = "no" /\ Judged' = "yes"
    BY <1>3, <1>5 DEF TypeOK, CheckPasses, Judgement
  <2>2. \E t \in Texts : TheDraft = <<t>> /\ Verdict[t] = "ok"
    BY <1>4, <1>5 DEF CheckPasses
  <2>3. Abstract!Pass
    BY <1>3, <1>5, <2>1, <2>2 DEF Abstract!Pass
  <2> QED
    BY <2>3 DEF MapStep, Abstract!Next
<1>6. CASE CheckWarns(p)
  <2>1. Judged = "no" /\ Judged' = "warned"
    BY <1>3, <1>6 DEF TypeOK, CheckWarns, Judgement
  <2>2. \E t \in Texts : TheDraft = <<t>> /\ Verdict[t] \in {"syntax", "deny"}
    BY <1>4, <1>6 DEF CheckWarns
  <2>3. Abstract!Warn
    BY <1>3, <1>6, <2>1, <2>2 DEF Abstract!Warn
  <2> QED
    BY <2>3 DEF MapStep, Abstract!Next
<1>7. CASE ForceSave(p)
  <2>1. Judged = "warned" /\ Judged' = "yes"
    BY <1>3, <1>7 DEF TypeOK, ForceSave, Judgement
  <2>2. Abstract!Accept
    BY <1>3, <1>7, <2>1 DEF Abstract!Accept
  <2> QED
    BY <2>2 DEF MapStep, Abstract!Next
<1> QED
  BY <1>1, <1>2, <1>5, <1>6, <1>7 DEF Checking

\* Saving keeps the judgement up to the rename, or ends without one.
LEMMA SavingMaps ==
    ASSUME VInv, VInv', ~stale, NEW p \in Procs, Saving(p)
    PROVE  MapStep
<1>1. CASE Unchanged(p)
  BY <1>1, LeaveMaps DEF Unchanged
<1>2. CASE OpenTemp(p) \/ Changed(p) \/ RestoreAttrs(p)
  <2>1. /\ pc[p] \in {"save", "compare", "attrs"} /\ pc'[p] \in {"compare", "attrs", "rename"}
        /\ \A q \in Procs \ {p} : pc'[q] = pc[q]
        /\ UNCHANGED <<conf, temp, text, stale>>
    BY <1>2 DEF TypeOK, OpenTemp, Changed, RestoreAttrs
  <2>2. UNCHANGED <<TheEditor, TheDraft, Admitted>>
        /\ Judged = Judgement(p) /\ Judged' = Judgement(p)'
    BY <2>1, JudgedMaps
  <2>3. Judgement(p)' = Judgement(p)
    BY <2>1 DEF Judgement
  <2> QED
    BY <2>1, <2>2, <2>3 DEF MapStep, Abstract!vars
<1> QED
  BY <1>1, <1>2, RenameMaps DEF Saving

\* A process may end anywhere; with a session, if it was in one.
LEMMA DiesMaps ==
    ASSUME VInv, VInv', ~stale, NEW p \in Procs, Dies(p)
    PROVE  MapStep
<1>1. CASE pc[p] \in Session
  BY <1>1, LeaveMaps DEF Dies
<1>2. CASE pc[p] \notin Session
  BY <1>2, DismissMaps DEF Dies
<1> QED
  BY <1>1, <1>2

\* Every step of Vidoas is a step of Edits, or changes nothing of it.
LEMMA NextMaps == VInv /\ VInv' /\ [Next]_vars => MapStep
<1> SUFFICES ASSUME VInv, VInv', [Next]_vars
             PROVE  MapStep
  OBVIOUS
<1>1. CASE stale
  BY <1>1, StaleMaps
<1>2. CASE ~stale
  <2>1. CASE Tick \/ UNCHANGED vars
    BY <2>1, StillMaps DEF Tick, vars
  <2> QED
    BY <1>2, <2>1, LockingMaps, DraftingMaps, CheckingMaps, SavingMaps, DiesMaps DEF Next
<1> QED
  BY <1>1, <1>2

\* Both begin with the original text, no draft and no session.
LEMMA InitMaps == Init => Abstract!Init
<1> SUFFICES ASSUME Init
             PROVE  Abstract!Init
  OBVIOUS
<1>1. VInv /\ \A p \in Procs : pc[p] \notin Session
  BY InitInv DEF Init
<1>2. TheEditor = Nobody /\ Judged = "no"
  BY <1>1, EditorIs DEF EditorOK
<1>3. text[conf] = Original /\ TheDraft = <<>> /\ Admitted = {} /\ stale = FALSE
  BY DEF Init, TheDraft, Admitted
<1> QED
  BY <1>2, <1>3 DEF Abstract!Init

\* Whatever the sessions, their editors and the kills do, vidoas edits doas.conf
\* one checked draft at a time, for any number of sessions, files and texts.
THEOREM RefinesEdits == Spec => ImplementsEdits
<1>1. Spec => Abstract!Init /\ [][Abstract!Next]_Abstract!vars
  BY InitMaps, NextMaps, Invariant, PTL DEF Spec, MapStep
<1> QED
  BY <1>1 DEF ImplementsEdits, Abstract!Spec
=============================================================================
