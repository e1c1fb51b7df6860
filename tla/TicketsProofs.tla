--------------------------- MODULE TicketsProofs ---------------------------
(***************************************************************************)
(* The proof that Persist implements Tickets, for any processes, sessions, *)
(* files and clocks.                                                       *)
(*                                                                         *)
(* There is one lemma per effect that a step of Persist has on the         *)
(* registers, and then one step per action.  The mapping rests on IInv of  *)
(* PersistInv and on StampedOK.                                            *)
(***************************************************************************)
EXTENDS PersistTickets, PersistProofs

\* The stamp a process has read is still in the file it holds, or a later one.
StampedOK ==
    \A p \in Procs : pc[p] \in {"boottime", "realtime"} => minted[fd[p]].root # "none"

TInv == IInv /\ StampedOK

MapStep == [Abstract!Next]_Abstract!vars

USE RulesAssumption, ClockAssumption, NamesAssumption
USE DEF IInv, disk, clocks, local, At, Goto, key, rule, timeout, NoTimes, NoInv,
        NoRule, Mint, NoMint, Labels, Revoked, PutBack, Aged, HoldsOpen, Blank, Records,
        NoFilePhases, TmpPhases, OpenPhases, SeenPhases, GrantPhases

\* The initial states are mapped to the initial state.
LEMMA InitMaps == Init => Abstract!Init
<1> SUFFICES ASSUME Init
             PROVE  Abstract!Init
  OBVIOUS
<1>1. Sessions = [p \in Procs |-> NoKey] /\ Stages = [p \in Procs |-> "away"]
  BY DEF Init, Sessions, Stages, StageOf
<1>2. Books = [p \in Procs |-> "none"]
  BY DEF Init, Books, BookOf
<1>3. Ticketed = {} /\ Known = {}
  BY DEF Init, Ticketed, HasTicket, Known, OnRecord
<1> QED
  BY <1>1, <1>2, <1>3 DEF Abstract!Init

\* What the registers are, process by process and session by session.
LEMMA Mapped ==
    /\ \A p \in Procs : Sessions[p] = key(p) /\ Stages[p] = StageOf(p) /\ Books[p] = BookOf(p)
    /\ \A k \in Keys : (k \in Ticketed <=> HasTicket(k)) /\ (k \in Known <=> OnRecord(k))
  BY DEF Sessions, Stages, Books, Ticketed, Known

\* A step that only lets records lapse is one of Forget, or changes nothing.
LEMMA ForgetMaps ==
    ASSUME UNCHANGED <<Sessions, Stages, Books, Ticketed>>, Known' \subseteq Known
    PROVE  MapStep
  BY DEF MapStep, Abstract!Next, Abstract!Forget, Abstract!Lapse

\* Records lapse if no file in use and no process gets one that was not there.
LEMMA RecordsLapse ==
    ASSUME \A i \in Inodes \ Free', k \in Keys : Records(minted'[i], k) => OnRecord(k),
           \A p \in Procs, k \in Keys : Records(basis'[p], k) => OnRecord(k)
    PROVE  Known' \subseteq Known
  BY DEF Known, OnRecord

\* A step of one process within a stage, which leaves its file as it is.
LEMMA QuietMaps ==
    ASSUME IInv, NEW p \in Procs, NEW l \in Labels, pc' = [pc EXCEPT ![p] = l],
           UNCHANGED <<path, tmp, inv, fd, minted>>,
           ~At(p, "idle"), l # "idle", pc[p] \in GrantPhases <=> l \in GrantPhases,
           fd[p] = NoFile \/ (pc[p] \in TmpPhases <=> l \in TmpPhases),
           \A q \in Procs, k \in Keys : Records(basis'[q], k) => OnRecord(k)
    PROVE  MapStep
<1>1. pc \in [Procs -> Labels]
  BY DEF TypeOK
<1>2. UNCHANGED Sessions /\ UNCHANGED Ticketed
  BY DEF Sessions, Ticketed, HasTicket
<1>3. \A q \in Procs : StageOf(q)' = StageOf(q) /\ BookOf(q)' = BookOf(q)
  BY <1>1 DEF StageOf, BookOf
<1>4. UNCHANGED Stages /\ UNCHANGED Books
  BY <1>3 DEF Stages, Books
<1>5. UNCHANGED Free
  BY DEF Free, Linked
<1>6. Known' \subseteq Known
  BY <1>5, RecordsLapse DEF OnRecord
<1> QED
  BY <1>2, <1>4, <1>6, ForgetMaps

\* A process without a register that was opened starts, for session k.
LEMMA StartMaps ==
    ASSUME IInv, NEW p \in Procs, NEW k \in Keys, NEW g \in Gids, NEW r \in Rules,
           Start(p, k, g, r)
    PROVE  MapStep
<1>1. /\ pc \in [Procs -> Labels]
      /\ inv \in [Procs -> [key : Keys \cup {NoKey}, gid : Gids \cup {DirGid},
                            rule : Rules \cup {NoRule}]]
  BY DEF TypeOK
<1>2. fd[p] = NoFile
  BY DEF FdOK, Start
<1>3. Stages[p] = "away"
  BY Mapped DEF StageOf, Start
<1>4. Sessions' = [Sessions EXCEPT ![p] = k]
  BY <1>1 DEF Sessions, Start
<1>5. Stages' = [Stages EXCEPT ![p] = "asking"]
  BY <1>1 DEF Stages, StageOf, Start
<1>6. \A q \in Procs : BookOf(q)' = BookOf(q)
  BY <1>1, <1>2 DEF BookOf, Start
<1>7. UNCHANGED <<Books, Ticketed, Known>>
  BY <1>6 DEF Books, Ticketed, HasTicket, Known, OnRecord, Free, Linked, Start
<1>8. Abstract!Start(p, k)
  BY <1>3, <1>4, <1>5, <1>7 DEF Abstract!Start
<1> QED
  BY <1>8 DEF MapStep, Abstract!Next

\* A process ends and leaves no stamp.
LEMMA LeaveMaps ==
    ASSUME IInv, NEW p \in Procs, Gone(p), UNCHANGED <<disk, clocks>>
    PROVE  MapStep
<1>1. Sessions' = [Sessions EXCEPT ![p] = NoKey] /\ Stages' = [Stages EXCEPT ![p] = "away"]
  BY DEF TypeOK, Sessions, Stages, StageOf, Gone
<1>2. Books' = [Books EXCEPT ![p] = "none"]
  BY DEF TypeOK, Books, BookOf, Gone
<1>3. Ticketed' = Ticketed
  BY DEF Ticketed, HasTicket
<1>4. \A i \in Inodes \ Free' : i \notin Free
  BY DEF TypeOK, Free, Linked, Gone
<1>5. Known' \subseteq Known
  BY <1>4, RecordsLapse DEF TypeOK, OnRecord, Gone
<1>6. Abstract!Leave(p)
  BY <1>1, <1>2, <1>3, <1>5 DEF Abstract!Leave, Abstract!Leaves, Abstract!Lapse
<1> QED
  BY <1>6 DEF MapStep, Abstract!Next

\* A run opens the file its session's name refers to, or finds none.
LEMMA OpenMaps ==
    ASSUME IInv, NEW p \in Procs, OpenPath(p)
    PROVE  MapStep
<1>1. key(p) \in Keys /\ fd[p] = NoFile
  BY DEF InvOK, FdOK, OpenPath
<1>2. UNCHANGED Sessions /\ UNCHANGED Ticketed
  BY DEF Sessions, Ticketed, HasTicket, OpenPath
<1>3. Stages' = Stages
  BY DEF TypeOK, Stages, StageOf, OpenPath
<1>4. Known' = Known
  BY <1>1 DEF TypeOK, Known, OnRecord, Free, Linked, OpenPath
<1>5. Books[p] = "none" /\ Stages[p] = "asking"
  BY <1>1, Mapped DEF BookOf, StageOf, OpenPath
<1>6. CASE path[key(p)] = NoFile
  <2>1. Books' = Books
    BY <1>1, <1>6 DEF TypeOK, Books, BookOf, OpenPath
  <2> QED
    BY <1>2, <1>3, <1>4, <2>1, ForgetMaps
<1>7. CASE path[key(p)] # NoFile
  <2>1. Books' = [Books EXCEPT ![p] = "current"]
    BY <1>1, <1>7 DEF TypeOK, Books, BookOf, OpenPath
  <2>2. Abstract!Open(p)
    BY <1>2, <1>3, <1>4, <1>5, <2>1 DEF Abstract!Open
  <2> QED
    BY <2>2 DEF MapStep, Abstract!Next
<1> QED
  BY <1>6, <1>7

\* A run makes a file under its temporary name: no register yet.
LEMMA CreateMaps ==
    ASSUME IInv, NEW p \in Procs, NEW i \in Free, CreateTmp(p, i)
    PROVE  MapStep
<1>1. fd[p] = NoFile /\ i \in Inodes
  BY DEF FdOK, Free, CreateTmp
<1>2. \A k \in Keys : path[k] # i
  BY DEF Free, Linked
<1>3. UNCHANGED Sessions /\ UNCHANGED Ticketed
  BY <1>1, <1>2 DEF TypeOK, Sessions, Ticketed, HasTicket, CreateTmp
<1>4. UNCHANGED Stages
  BY DEF TypeOK, Stages, StageOf, CreateTmp
<1>5. UNCHANGED Books
  BY <1>1 DEF TypeOK, Books, BookOf, CreateTmp
<1>6. \A j \in Inodes \ Free' : j = i \/ j \notin Free
  BY DEF TypeOK, Free, Linked, CreateTmp
<1>7. Known' \subseteq Known
  <2>1. \A j \in Inodes \ Free', k \in Keys : Records(minted'[j], k) => OnRecord(k)
    BY <1>1, <1>6 DEF TypeOK, OnRecord, CreateTmp
  <2>2. \A q \in Procs, k \in Keys : Records(basis'[q], k) => OnRecord(k)
    BY DEF OnRecord, CreateTmp
  <2> QED
    BY <2>1, <2>2, RecordsLapse
<1> QED
  BY <1>3, <1>4, <1>5, <1>7, ForgetMaps

\* rename starts a new register, and the runs of the session that hold the file
\* that was there are left with an old one.
LEMMA PublishMaps ==
    ASSUME IInv, NEW p \in Procs, Publish(p)
    PROVE  MapStep
<1>1. key(p) \in Keys /\ fd[p] \in Inodes /\ tmp[p] = fd[p] /\ Blank(minted[fd[p]])
  BY DEF TypeOK, InvOK, FdOK, TmpOK, Publish
<1>2. UNCHANGED Sessions
  BY DEF Sessions, Publish
<1>3. UNCHANGED Stages
  BY DEF TypeOK, Stages, StageOf, Publish
<1>4. Ticketed' = Ticketed \ {key(p)}
  BY <1>1 DEF TypeOK, Ticketed, HasTicket, Publish
<1>5. \A i \in Inodes \ Free' : i \notin Free
  BY <1>1 DEF TypeOK, Free, Linked, Publish
<1>6. Known' \subseteq Known
  BY <1>5, RecordsLapse DEF OnRecord, Publish
<1>7. Books[p] = "none" /\ Stages[p] = "asking"
  BY Mapped DEF BookOf, StageOf, Publish
<1>8. Books' = [Abstract!Superseded(Sessions[p]) EXCEPT ![p] = "current"]
  <2>1. BookOf(p)' = "current"
    BY <1>1 DEF TypeOK, BookOf, Publish
  <2>2. ASSUME NEW q \in Procs, q # p
        PROVE  BookOf(q)' = IF key(q) = key(p) /\ BookOf(q) = "current" THEN "old" ELSE BookOf(q)
    <3>1. fd[q] # fd[p]
      BY <1>1, <2>2 DEF NamesOK
    <3> QED
      BY <1>1, <2>2, <3>1 DEF TypeOK, InvOK, FdOK, BookOf, Publish
  <2> QED
    BY <2>1, <2>2, Mapped DEF Books, Abstract!Superseded
<1>9. Abstract!OpenEmpty(p)
  BY <1>2, <1>3, <1>4, <1>6, <1>7, <1>8, Mapped DEF Abstract!OpenEmpty, Abstract!Lapse
<1> QED
  BY <1>9 DEF MapStep, Abstract!Next

\* open() returned an error: the run has no register from then on.
LEMMA NoFileMaps ==
    ASSUME IInv, NEW p \in Procs, NoPersistFile(p), pc[p] \in {"path", "owner", "create", "undo"},
           UNCHANGED <<path, minted, inv, basis>>,
           \A q \in Procs : tmp'[q] \in {tmp[q], NoFile}
    PROVE  MapStep
<1>1. UNCHANGED Sessions /\ UNCHANGED Ticketed
  BY DEF Sessions, Ticketed, HasTicket
<1>2. UNCHANGED Stages /\ Stages[p] = "asking"
  BY DEF TypeOK, Stages, StageOf, NoPersistFile
<1>3. Books' = [Books EXCEPT ![p] = "none"]
  BY DEF TypeOK, Books, BookOf, NoPersistFile
<1>4. \A i \in Inodes \ Free' : i \notin Free
  BY DEF TypeOK, Free, Linked, NoPersistFile
<1>5. Known' \subseteq Known
  BY <1>4, RecordsLapse DEF OnRecord
<1>6. Abstract!Close(p)
  BY <1>1, <1>2, <1>3, <1>5 DEF Abstract!Close, Abstract!Lapse
<1> QED
  BY <1>6 DEF MapStep, Abstract!Next

\* The answer of check: a run is admitted on the ticket it has read, or on that
\* of a register which is no longer the current one.
LEMMA CheckMaps ==
    ASSUME TInv, NEW p \in Procs, CheckRealTime(p)
    PROVE  MapStep
<1> USE DEF TInv
<1>1. CASE ~At(p, "accepted")'
  <2>1. PICK l \in {"refused", "toofar"} : pc' = [pc EXCEPT ![p] = l]
    BY <1>1 DEF TypeOK, CheckRealTime
  <2>2. \A q \in Procs, k \in Keys : Records(basis'[q], k) => OnRecord(k)
    BY DEF OnRecord, CheckRealTime
  <2> QED
    BY <2>1, <2>2, QuietMaps DEF CheckRealTime
<1>2. CASE At(p, "accepted")'
  <2>1. fd[p] \in Inodes /\ key(p) \in Keys /\ minted[fd[p]].root # "none"
    BY DEF TypeOK, InvOK, FdOK, StampedOK, CheckRealTime
  <2>2. pc' = [pc EXCEPT ![p] = "accepted"]
    BY <1>2 DEF TypeOK, CheckRealTime
  <2>3. UNCHANGED <<Sessions, Ticketed, Known>>
    BY DEF Sessions, Ticketed, HasTicket, Known, OnRecord, Free, Linked, CheckRealTime
  <2>4. Books' = Books
    BY <2>2 DEF TypeOK, Books, BookOf, CheckRealTime
  <2>5. Stages[p] = "asking" /\ Stages' = [Stages EXCEPT ![p] = "cleared"]
    <3>1. StageOf(p) = "asking"
      BY DEF StageOf, CheckRealTime
    <3>2. StageOf(p)' = "cleared" /\ \A q \in Procs \ {p} : StageOf(q)' = StageOf(q)
      BY <2>2 DEF TypeOK, StageOf, CheckRealTime
    <3> QED
      BY <3>1, <3>2 DEF Stages
  <2>6. CASE path[key(p)] = fd[p]
    <3>1. Books[p] = "current" /\ Sessions[p] \in Ticketed
      BY <2>1, <2>6, Mapped DEF BookOf, HasTicket, CheckRealTime
    <3>2. Abstract!Admit(p)
      BY <2>3, <2>4, <2>5, <3>1 DEF Abstract!Admit
    <3> QED
      BY <3>2 DEF MapStep, Abstract!Next
  <2>7. CASE path[key(p)] # fd[p]
    <3>1. Books[p] = "old"
      BY <2>1, <2>7, Mapped DEF TypeOK, FdOK, BookOf, CheckRealTime
    <3>2. basis[p].root # "none" /\ basis[p].key = key(p)
      BY DEF BasisOK, CheckRealTime
    <3>3. Sessions[p] \in Known
      BY <2>1, <3>2, Mapped DEF OnRecord
    <3>4. Abstract!Admit(p)
      BY <2>3, <2>4, <2>5, <3>1, <3>3 DEF Abstract!Admit
    <3> QED
      BY <3>4 DEF MapStep, Abstract!Next
  <2> QED
    BY <2>6, <2>7
<1> QED
  BY <1>1, <1>2

\* A password, or nopass: the session is on record, if the run has a register.
LEMMA GrantedMaps ==
    ASSUME IInv, NEW p \in Procs, NEW root \in {"password", "nopass"}, Granted(p, root),
           pc[p] \in {"refused", "toofar"}
    PROVE  MapStep
<1>1. CASE fd[p] = NoFile
  BY <1>1, LeaveMaps DEF Granted
<1>2. CASE fd[p] # NoFile
  <2>1. key(p) \in Keys
    BY DEF InvOK
  <2>2. UNCHANGED <<Sessions, Ticketed>>
    BY <1>2 DEF Sessions, Ticketed, HasTicket, Granted
  <2>3. Stages[p] = "asking" /\ Stages' = [Stages EXCEPT ![p] = "cleared"]
    BY <1>2 DEF TypeOK, Stages, StageOf, Granted
  <2>4. Books[p] # "none" /\ Books' = Books
    BY <1>2 DEF TypeOK, Books, BookOf, Granted
  <2>5. Known' \subseteq Known \cup {Sessions[p]}
    <3>1. UNCHANGED Free
      BY <1>2 DEF Free, Linked, Granted
    <3>2. \A q \in Procs : q = p \/ basis'[q] = basis[q]
      BY <1>2 DEF TypeOK, Granted
    <3>3. basis'[p].key = key(p)
      BY <1>2 DEF TypeOK, Granted, Fresh
    <3> QED
      BY <3>1, <3>2, <3>3, Mapped DEF Known, OnRecord, Granted
  <2>6. Abstract!Authorise(p)
    BY <2>2, <2>3, <2>4, <2>5 DEF Abstract!Authorise
  <2> QED
    BY <2>6 DEF MapStep, Abstract!Next
<1> QED
  BY <1>1, <1>2

\* futimens on the descriptor: the current register gets a ticket if it is the
\* one of the run, and no other session's does.
LEMMA WriteMaps ==
    ASSUME IInv, NEW p \in Procs, WriteStamp(p)
    PROVE  MapStep
<1>1. fd[p] \in Inodes /\ key(p) \in Keys /\ basis[p].root # "none" /\ basis[p].key = key(p)
  BY DEF TypeOK, InvOK, FdOK, BasisOK, WriteStamp
<1>2. Sessions' = [Sessions EXCEPT ![p] = NoKey] /\ Stages' = [Stages EXCEPT ![p] = "away"]
  BY DEF TypeOK, Sessions, Stages, StageOf, WriteStamp, Gone
<1>3. Books' = [Books EXCEPT ![p] = "none"]
  BY DEF TypeOK, Books, BookOf, WriteStamp, Gone
<1>4. Stages[p] = "cleared"
  BY DEF Stages, StageOf, WriteStamp
<1>5. Known' \subseteq Known
  <2>1. \A i \in Inodes \ Free' : i \notin Free
    BY DEF TypeOK, Free, Linked, WriteStamp, Gone
  <2>2. \A i \in Inodes : minted'[i] \in {minted[i], basis[p]}
    BY DEF TypeOK, WriteStamp
  <2>3. \A q \in Procs : basis'[q] \in {basis[q], NoMint}
    BY DEF TypeOK, WriteStamp, Gone
  <2> QED
    BY <2>1, <2>2, <2>3, RecordsLapse DEF OnRecord
<1>6. Ticketed' = IF Books[p] = "current" THEN Ticketed \cup {Sessions[p]} ELSE Ticketed
  <2>1. \A k \in Keys : path[k] = fd[p] => k = key(p)
    BY <1>1 DEF SessionOK, WriteStamp
  <2>2. Books[p] = "current" <=> path[key(p)] = fd[p]
    BY <1>1, Mapped DEF BookOf, WriteStamp
  <2>3. \A k \in Keys : HasTicket(k)' <=> HasTicket(k) \/ path[k] = fd[p]
    BY <1>1 DEF TypeOK, HasTicket, WriteStamp
  <2> QED
    BY <1>1, <2>1, <2>2, <2>3, Mapped DEF Ticketed
<1>7. Abstract!Write(p)
  BY <1>2, <1>3, <1>4, <1>5, <1>6 DEF Abstract!Write, Abstract!Leaves, Abstract!Lapse
<1> QED
  BY <1>7 DEF MapStep, Abstract!Next

\* doas -L ends the current register of a session; the runs that hold its file
\* are left with an old one.
LEMMA ClearMaps ==
    ASSUME IInv, NEW k \in Keys, Clear(k)
    PROVE  MapStep
<1>1. UNCHANGED Sessions /\ UNCHANGED Stages
  BY DEF Sessions, Stages, StageOf, Clear
<1>2. /\ \A i \in Inodes : minted'[i].root = minted[i].root /\ minted'[i].key = minted[i].key
      /\ \A p \in Procs : basis'[p].root = basis[p].root /\ basis'[p].key = basis[p].key
  BY DEF TypeOK, Mints, Clear
<1>3. path' = [path EXCEPT ![k] = NoFile]
  BY DEF Clear
<1>4. Ticketed' = Ticketed \ {k}
  BY <1>2, <1>3 DEF TypeOK, Ticketed, HasTicket
<1>5. Books' = Abstract!Superseded(k)
  <2>1. ASSUME NEW p \in Procs
        PROVE  BookOf(p)' = IF key(p) = k /\ BookOf(p) = "current" THEN "old" ELSE BookOf(p)
    BY <1>3 DEF TypeOK, InvOK, FdOK, BookOf, Clear
  <2> QED
    BY <2>1, Mapped DEF Books, Abstract!Superseded
<1>6. \A i \in Inodes \ Free' : i \notin Free
  BY <1>3 DEF TypeOK, Free, Linked, Clear
<1>7. Known' \subseteq Known
  BY <1>2, <1>6, RecordsLapse DEF OnRecord
<1>8. Abstract!Revoke(k)
  BY <1>1, <1>4, <1>5, <1>7 DEF Abstract!Revoke, Abstract!Lapse
<1> QED
  BY <1>8 DEF MapStep, Abstract!Next

\* Nothing but the clocks and what is remembered of them.
LEMMA ClocksMap ==
    ASSUME IInv, Tick \/ (\E s \in WallSteps : StepWallClock(s))
    PROVE  MapStep
<1>1. UNCHANGED <<path, tmp, pc, inv, fd>>
  BY DEF Tick, StepWallClock
<1>2. /\ \A i \in Inodes : minted'[i].root = minted[i].root /\ minted'[i].key = minted[i].key
      /\ \A p \in Procs : basis'[p].root = basis[p].root /\ basis'[p].key = basis[p].key
  BY DEF TypeOK, Mints, Tick, StepWallClock
<1>3. UNCHANGED <<Sessions, Stages, Books>>
  BY <1>1 DEF Sessions, Stages, StageOf, Books, BookOf
<1>4. Ticketed' = Ticketed
  BY <1>1, <1>2 DEF TypeOK, Ticketed, HasTicket
<1>5. UNCHANGED Free
  BY <1>1 DEF Free, Linked
<1>6. Known' \subseteq Known
  BY <1>2, <1>5, RecordsLapse DEF OnRecord
<1> QED
  BY <1>3, <1>4, <1>6, ForgetMaps

\* A reboot ends all runs, and may empty /var/run.
LEMMA RebootMaps ==
    ASSUME IInv, NEW down \in Downtimes, NEW emptied \in BOOLEAN, Reboot(down, emptied)
    PROVE  MapStep
<1>1. /\ Sessions' = [p \in Procs |-> NoKey] /\ Stages' = [p \in Procs |-> "away"]
      /\ Books' = [p \in Procs |-> "none"]
  BY DEF Sessions, Stages, StageOf, Books, BookOf, Reboot
<1>2. \A i \in Inodes : minted'[i].root = minted[i].root /\ minted'[i].key = minted[i].key
  BY DEF TypeOK, Mints, Reboot
<1>3. Ticketed' \in {Ticketed, {}}
  BY <1>2 DEF TypeOK, Ticketed, HasTicket, Reboot
<1>4. \A i \in Inodes \ Free' : i \notin Free
  BY DEF TypeOK, Free, Linked, Reboot
<1>5. \A p \in Procs : basis'[p].root = "none"
  BY DEF Reboot
<1>6. Known' \subseteq Known
  BY <1>2, <1>4, <1>5, RecordsLapse DEF OnRecord
<1>7. Abstract!Restart
  BY <1>1, <1>3, <1>6 DEF Abstract!Restart, Abstract!Lapse
<1> QED
  BY <1>7 DEF MapStep, Abstract!Next

----------------------------------------------------------------------------
\* The steps of a process that stay within a stage.
LEMMA WithinStage ==
    ASSUME IInv, NEW p \in Procs,
           \/ StatDir(p) \/ MkDir(p) \/ SetEpoch(p) \/ ChownTmp(p) \/ PublishFails(p)
           \/ CheckStat(p) \/ CheckBootTime(p) \/ CheckFails(p)
           \/ AcceptPersist(p) \/ SetBootTime(p) \/ SetRealTime(p)
    PROVE  MapStep
<1>1. PICK l \in Labels : pc' = [pc EXCEPT ![p] = l]
  BY DEF TypeOK, StatDir, MkDir, SetEpoch, ChownTmp, PublishFails, CheckStat,
         CheckBootTime, CheckFails, AcceptPersist, SetBootTime, SetRealTime
<1>2. UNCHANGED <<path, tmp, inv, fd, minted>>
  BY DEF StatDir, MkDir, SetEpoch, ChownTmp, PublishFails, CheckStat,
         CheckBootTime, CheckFails, AcceptPersist, SetBootTime, SetRealTime
<1>3. /\ ~At(p, "idle") /\ l # "idle" /\ (pc[p] \in GrantPhases <=> l \in GrantPhases)
      /\ fd[p] = NoFile \/ (pc[p] \in TmpPhases <=> l \in TmpPhases)
  BY <1>1 DEF TypeOK, FdOK, StatDir, MkDir, SetEpoch, ChownTmp, PublishFails, CheckStat,
         CheckBootTime, CheckFails, AcceptPersist, SetBootTime, SetRealTime
<1>4. \A q \in Procs, k \in Keys : Records(basis'[q], k) => OnRecord(k)
  <2>1. CASE CheckStat(p)
    <3>1. fd[p] \in Inodes \ Free
      BY <2>1 DEF TypeOK, FdOK, Free, CheckStat
    <3>2. \A q \in Procs : basis'[q] \in {basis[q], minted[fd[p]]}
      BY <2>1 DEF TypeOK, CheckStat
    <3> QED
      BY <3>1, <3>2 DEF OnRecord
  <2>2. CASE SetBootTime(p)
    <3>1. basis[p].root # "none" /\ basis[p].key = key(p)
      BY <2>2 DEF BasisOK, SetBootTime
    <3>2. \A q \in Procs : basis'[q].root = basis[q].root /\ basis'[q].key = basis[q].key
      BY <2>2, <3>1 DEF TypeOK, SetBootTime
    <3> QED
      BY <3>2 DEF OnRecord
  <2>3. CASE ~CheckStat(p) /\ ~SetBootTime(p)
    <3>1. basis' = basis
      BY <2>3 DEF StatDir, MkDir, SetEpoch, ChownTmp, PublishFails, CheckBootTime,
                  CheckFails, AcceptPersist, SetRealTime
    <3> QED
      BY <3>1 DEF OnRecord
  <2> QED
    BY <2>1, <2>2, <2>3
<1> QED
  BY <1>1, <1>2, <1>3, <1>4, QuietMaps

\* The other steps of timestamp::open.
LEMMA OpenFailsMaps ==
    ASSUME IInv, NEW p \in Procs,
           OpenFails(p) \/ CheckOwner(p) \/ CreateFails(p) \/ RemoveTmp(p)
    PROVE  MapStep
<1>1. CASE CheckOwner(p) /\ OwnedBy(p)
  <2>1. pc' = [pc EXCEPT ![p] = "check"] /\ UNCHANGED <<path, tmp, inv, fd, minted, basis>>
    BY <1>1 DEF CheckOwner
  <2>2. \A q \in Procs, k \in Keys : Records(basis'[q], k) => OnRecord(k)
    BY <2>1 DEF OnRecord
  <2> QED
    BY <1>1, <2>1, <2>2, QuietMaps DEF CheckOwner
<1>2. CASE ~(CheckOwner(p) /\ OwnedBy(p))
  <2>1. NoPersistFile(p) /\ pc[p] \in {"path", "owner", "create", "undo"}
    BY <1>2 DEF OpenFails, CheckOwner, CreateFails, RemoveTmp
  <2>2. UNCHANGED <<path, minted, inv, basis>>
    BY <1>2 DEF OpenFails, CheckOwner, CreateFails, RemoveTmp
  <2>3. \A q \in Procs : tmp'[q] \in {tmp[q], NoFile}
    BY <1>2 DEF TypeOK, OpenFails, CheckOwner, CreateFails, RemoveTmp
  <2> QED
    BY <2>1, <2>2, <2>3, NoFileMaps
<1> QED
  BY <1>1, <1>2

\* Every step of one process is a step on the registers.
LEMMA ProcMaps ==
    ASSUME TInv, NEW p \in Procs, ProcStep(p)
    PROVE  MapStep
<1> USE DEF TInv
<1>1. ASSUME NEW k \in Keys, NEW g \in Gids, NEW r \in Rules, Start(p, k, g, r)
      PROVE  MapStep
  BY <1>1, StartMaps
<1>2. ASSUME OpenStep(p)
      PROVE  MapStep
  <2>1. ASSUME NEW i \in Free, CreateTmp(p, i)
        PROVE  MapStep
    BY <2>1, CreateMaps
  <2> QED
    BY <1>2, <2>1, WithinStage, OpenMaps, OpenFailsMaps, PublishMaps DEF OpenStep
<1>3. ASSUME CheckStep(p)
      PROVE  MapStep
  BY <1>3, WithinStage, CheckMaps DEF CheckStep
<1>4. ASSUME AuthStep(p)
      PROVE  MapStep
  BY <1>4, WithinStage, GrantedMaps, LeaveMaps
     DEF AuthStep, AcceptNopass, Authenticate, AuthFails
<1>5. ASSUME SetStep(p) \/ Killed(p)
      PROVE  MapStep
  BY <1>5, WithinStage, WriteMaps, LeaveMaps DEF SetStep, WriteFails, Killed
<1> QED
  BY <1>1, <1>2, <1>3, <1>4, <1>5 DEF ProcStep

\* Every step of the system is a step on the registers, or none.
LEMMA NextMaps ==
    ASSUME TInv, [Next]_vars
    PROVE  MapStep
<1> USE DEF TInv
<1>1. ASSUME UNCHANGED vars
      PROVE  MapStep
  <2>1. UNCHANGED <<Sessions, Stages, Books, Ticketed, Known>>
    BY <1>1 DEF vars, Sessions, Stages, StageOf, Books, BookOf, Ticketed, HasTicket, Known,
                OnRecord, Free, Linked
  <2> QED
    BY <2>1 DEF MapStep, Abstract!vars
<1>2. ASSUME WorldStep
      PROVE  MapStep
  BY <1>2, ClearMaps, ClocksMap, RebootMaps DEF WorldStep
<1> QED
  BY <1>1, <1>2, ProcMaps DEF Next

----------------------------------------------------------------------------
\* A file that is held is not made anew, and only stamps are written.
LEMMA StampedStep ==
    ASSUME TInv, [Next]_vars, IInv'
    PROVE  StampedOK'
<1> SUFFICES ASSUME NEW p \in Procs, pc'[p] \in {"boottime", "realtime"}
             PROVE  minted'[fd'[p]].root # "none"
  BY DEF StampedOK
<1> USE DEF TInv
<1>1. CASE UNCHANGED vars
  BY <1>1 DEF vars, StampedOK
<1>2. CASE WorldStep
  BY <1>2 DEF TypeOK, FdOK, Mints, StampedOK, WorldStep, Clear, Tick, StepWallClock, Reboot
<1>3. ASSUME NEW q \in Procs, ProcStep(q)
      PROVE  minted'[fd'[p]].root # "none"
  <2>1. CASE WriteStamp(q)
    <3>1. p # q /\ pc'[p] = pc[p] /\ fd'[p] = fd[p]
      BY <2>1 DEF TypeOK, WriteStamp, Gone
    <3>2. basis[q].root # "none"
      BY <2>1 DEF BasisOK, WriteStamp
    <3> QED
      BY <2>1, <3>1, <3>2 DEF TypeOK, FdOK, StampedOK, WriteStamp
  <2>2. ASSUME NEW i \in Free, CreateTmp(q, i)
        PROVE  minted'[fd'[p]].root # "none"
    <3>1. p # q /\ pc'[p] = pc[p] /\ fd'[p] = fd[p] /\ fd[p] # i
      BY <2>2 DEF TypeOK, Free, CreateTmp
    <3> QED
      BY <2>2, <3>1 DEF TypeOK, StampedOK, CreateTmp
  <2>3. CASE CheckStat(q)
    <3>1. CASE p = q
      BY <2>3, <3>1 DEF TypeOK, HeldOK, Ready, FdOK, CheckStat, IsSet
    <3>2. CASE p # q
      BY <2>3, <3>2 DEF TypeOK, StampedOK, CheckStat
    <3> QED
      BY <3>1, <3>2
  <2>4. CASE CheckBootTime(q)
    BY <2>4 DEF TypeOK, StampedOK, CheckBootTime
  <2>5. CASE /\ ~WriteStamp(q) /\ ~CheckStat(q) /\ ~CheckBootTime(q)
             /\ ~\E i \in Free : CreateTmp(q, i)
    <3>1. minted' = minted
      BY <1>3, <2>5 DEF ProcStep, OpenStep, CheckStep, AuthStep, SetStep, Start, StatDir, MkDir,
         OpenPath, OpenFails, CheckOwner, CreateFails, SetEpoch, ChownTmp, Publish,
         PublishFails, RemoveTmp, CheckRealTime, CheckFails, AcceptPersist, AcceptNopass,
         Authenticate, AuthFails, Granted, SetBootTime, SetRealTime, WriteFails, Killed
    <3>2. p # q /\ pc'[p] = pc[p] /\ fd'[p] = fd[p]
      BY <1>3, <2>5 DEF TypeOK, ProcStep, OpenStep, CheckStep, AuthStep, SetStep, Start,
         StatDir, MkDir, OpenPath, OpenFails, CheckOwner, CreateFails, SetEpoch, ChownTmp,
         Publish, PublishFails, RemoveTmp, CheckRealTime, CheckFails, AcceptPersist,
         AcceptNopass, Authenticate, AuthFails, Granted, SetBootTime, SetRealTime,
         WriteFails, Killed, Gone, NoPersistFile
    <3> QED
      BY <3>1, <3>2 DEF StampedOK
  <2> QED
    BY <2>1, <2>2, <2>3, <2>4, <2>5
<1> QED
  BY <1>1, <1>2, <1>3 DEF Next

\* The files of /var/run/doas are registers of sessions, whatever happens: the
\* protocol of timestamp.rs and main.rs implements what Tickets promises.
THEOREM RefinesTickets == Spec => ImplementsTickets
<1>1. Init => TInv /\ Abstract!Init
  BY InitInv, InitMaps DEF TInv, StampedOK, Init
<1>2. TInv /\ [Next]_vars => TInv' /\ MapStep
  BY NextInv, StampedStep, NextMaps DEF TInv
<1> QED
  BY <1>1, <1>2, PTL DEF Spec, ImplementsTickets, Abstract!Spec, MapStep
=============================================================================
