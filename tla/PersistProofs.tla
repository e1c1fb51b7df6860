--------------------------- MODULE PersistProofs ---------------------------
(***************************************************************************)
(* Proofs about Persist.                                                   *)
(*                                                                         *)
(* IInv (module PersistInv) is inductive: it holds initially (InitInv) and *)
(* every step keeps it (NextInv).  There is one lemma per action, or per   *)
(* effect that several actions share, and in it one step per conjunct of   *)
(* IInv that the action can disturb; the first step of a lemma often       *)
(* gathers the conjuncts that mention nothing the action changes.  The     *)
(* theorems at the end follow from the invariant.                          *)
(***************************************************************************)
EXTENDS PersistInv, TLAPS

\* Assumptions on the constants, and the abbreviations of Persist and PersistInv,
\* are visible in all the action lemmas.
USE RulesAssumption, ClockAssumption, NamesAssumption
USE DEF IInv, disk, clocks, local, At, Goto, key, rule, timeout, NoTimes, NoInv,
        NoRule, Mint, NoMint, Mints, Labels, Revoked, PutBack, Aged, HoldsOpen,
        Ready, Blank, NoFilePhases, TmpPhases, OpenPhases, SeenPhases, GrantPhases

\* The initial states satisfy the invariant.
LEMMA InitInv == Init => IInv
<1> SUFFICES ASSUME Init
             PROVE  IInv
  OBVIOUS
<1>1. TypeOK
  BY DEF TypeOK, Init
<1>2. InvOK /\ FdOK /\ NamesOK
  BY DEF InvOK, FdOK, NamesOK, Init
<1>3. SessionOK /\ PublishedOK /\ HeldOK /\ RevokedOK
  BY DEF SessionOK, PublishedOK, HeldOK, RevokedOK, Init
<1>4. TmpOK
  BY DEF TmpOK, Init
<1>5. TimesOK /\ BasisOK
  BY DEF TimesOK, BasisOK, Init
<1> QED
  BY <1>1, <1>2, <1>3, <1>4, <1>5

\* A step that changes nothing keeps the invariant.
LEMMA StutterStep ==
    ASSUME IInv, UNCHANGED vars
    PROVE  IInv'
<1>1. TypeOK' /\ InvOK' /\ FdOK'
  BY DEF TypeOK, InvOK, FdOK, vars
<1>2. NamesOK' /\ SessionOK' /\ PublishedOK'
  BY DEF NamesOK, SessionOK, PublishedOK, vars
<1>3. HeldOK' /\ TmpOK' /\ TimesOK'
  BY DEF HeldOK, TmpOK, TimesOK, vars
<1>4. BasisOK' /\ RevokedOK'
  BY DEF BasisOK, RevokedOK, vars
<1> QED
  BY <1>1, <1>2, <1>3, <1>4

\* A process that starts has no file and no authorisation yet.
LEMMA StartStep ==
    ASSUME IInv, NEW p \in Procs, NEW k \in Keys, NEW g \in Gids, NEW r \in Rules, Start(p, k, g, r)
    PROVE  IInv'
<1>1. PublishedOK'
  BY DEF PublishedOK, Start
<1>2. TypeOK'
  BY DEF TypeOK, Start
<1>3. InvOK'
  BY DEF TypeOK, InvOK, Start
<1>4. FdOK'
  BY DEF FdOK, Start
<1>5. NamesOK'
  BY DEF NamesOK, Start
<1>6. SessionOK'
  BY DEF FdOK, SessionOK, Start
<1>7. HeldOK'
  BY DEF HeldOK, Start
<1>8. TmpOK'
  BY DEF TmpOK, Start
<1>9. TimesOK'
  BY DEF TimesOK, Start
<1>10. BasisOK'
  BY DEF BasisOK, Start
<1>11. RevokedOK'
  BY DEF RevokedOK, Start
<1> QED
  BY <1>1, <1>2, <1>3, <1>4, <1>5, <1>6, <1>7, <1>8, <1>9, <1>10, <1>11

\* A process that ends, is killed or execs its command gives up its file and its
\* authorisation; what it linked stays linked.
LEMMA GoneStep ==
    ASSUME IInv, NEW p \in Procs, Gone(p), UNCHANGED <<disk, clocks>>
    PROVE  IInv'
<1>1. PublishedOK'
  BY DEF PublishedOK, Gone
<1>2. TypeOK'
  BY DEF TypeOK, Gone
<1>3. InvOK'
  BY DEF TypeOK, InvOK, Gone
<1>4. FdOK'
  BY DEF TypeOK, FdOK, Gone
<1>5. NamesOK'
  BY DEF TypeOK, NamesOK, Gone
<1>6. SessionOK'
  BY DEF TypeOK, SessionOK, Gone
<1>7. HeldOK'
  BY DEF TypeOK, HeldOK, Gone
<1>8. TmpOK'
  BY DEF TypeOK, TmpOK, Gone
<1>9. TimesOK'
  BY DEF TypeOK, TimesOK, Gone
<1>10. BasisOK'
  BY DEF TypeOK, BasisOK, Gone
<1>11. RevokedOK'
  BY DEF TypeOK, RevokedOK, Gone
<1> QED
  BY <1>1, <1>2, <1>3, <1>4, <1>5, <1>6, <1>7, <1>8, <1>9, <1>10, <1>11

\* The steps that only move on: the directory was looked at, publication failed,
\* the first check passed, or the second one answers no.
LEMMA GotoStep ==
    ASSUME IInv, NEW p \in Procs, NEW l, Goto(p, l), UNCHANGED <<disk, clocks, local>>,
           \/ At(p, "dir") /\ l \in {"path", "mkdir", "refused"}
           \/ pc[p] \in {"epoch", "chown", "publish"} /\ l = "undo"
           \/ At(p, "owner") /\ l = "check"
           \/ pc[p] \in {"check", "boottime", "realtime"} /\ l = "refused"
    PROVE  IInv'
<1>1. PublishedOK'
  BY DEF PublishedOK
<1>2. TypeOK'
  BY DEF TypeOK
<1>3. InvOK'
  BY DEF InvOK
<1>4. FdOK'
  BY DEF FdOK
<1>5. NamesOK'
  BY DEF NamesOK
<1>6. SessionOK'
  BY DEF SessionOK
<1>7. HeldOK'
  BY DEF HeldOK
<1>8. TmpOK'
  BY DEF TmpOK
<1>9. TimesOK'
  BY DEF TimesOK
<1>10. BasisOK'
  BY DEF BasisOK
<1>11. RevokedOK'
  BY DEF RevokedOK
<1> QED
  BY <1>1, <1>2, <1>3, <1>4, <1>5, <1>6, <1>7, <1>8, <1>9, <1>10, <1>11

\* Making the directory, or losing the race for it, touches no stamp.
LEMMA MkDirStep ==
    ASSUME IInv, NEW p \in Procs, MkDir(p)
    PROVE  IInv'
<1>1. PublishedOK'
  BY DEF PublishedOK, MkDir
<1>2. TypeOK'
  BY DEF TypeOK, MkDir
<1>3. InvOK'
  BY DEF InvOK, MkDir
<1>4. FdOK'
  BY DEF FdOK, MkDir
<1>5. NamesOK'
  BY DEF NamesOK, MkDir
<1>6. SessionOK'
  BY DEF SessionOK, MkDir
<1>7. HeldOK'
  BY DEF HeldOK, MkDir
<1>8. TmpOK'
  BY DEF TmpOK, MkDir
<1>9. TimesOK'
  BY DEF TimesOK, MkDir
<1>10. BasisOK'
  BY DEF BasisOK, MkDir
<1>11. RevokedOK'
  BY DEF RevokedOK, MkDir
<1> QED
  BY <1>1, <1>2, <1>3, <1>4, <1>5, <1>6, <1>7, <1>8, <1>9, <1>10, <1>11

\* Giving up on the stamp file in open() leaves at most the file to its name.
LEMMA NoPersistFileStep ==
    ASSUME IInv, NEW p \in Procs, NoPersistFile(p), pc[p] \in {"path", "create", "owner", "undo"},
           UNCHANGED <<disk, clocks, inv, seen, clk, basis>>
    PROVE  IInv'
<1>1. PublishedOK'
  BY DEF PublishedOK, NoPersistFile
<1>2. TypeOK'
  BY DEF TypeOK, NoPersistFile
<1>3. InvOK'
  BY DEF InvOK, NoPersistFile
<1>4. FdOK'
  BY DEF TypeOK, FdOK, NoPersistFile
<1>5. NamesOK'
  BY DEF TypeOK, NamesOK, NoPersistFile
<1>6. SessionOK'
  BY DEF TypeOK, SessionOK, NoPersistFile
<1>7. HeldOK'
  BY DEF TypeOK, HeldOK, NoPersistFile
<1>8. TmpOK'
  BY DEF TmpOK, NoPersistFile
<1>9. TimesOK'
  BY DEF TimesOK, NoPersistFile
<1>10. BasisOK'
  BY DEF BasisOK, NoPersistFile
<1>11. RevokedOK'
  BY DEF TypeOK, RevokedOK, NoPersistFile
<1> QED
  BY <1>1, <1>2, <1>3, <1>4, <1>5, <1>6, <1>7, <1>8, <1>9, <1>10, <1>11

\* Opening by name yields a ready file of the session, and one that `doas -L` has
\* not revoked for a process that holds no authorisation yet.
LEMMA OpenPathStep ==
    ASSUME IInv, NEW p \in Procs, OpenPath(p)
    PROVE  IInv'
<1>1. PublishedOK'
  BY DEF PublishedOK, OpenPath
<1>2. TypeOK'
  BY DEF TypeOK, InvOK, OpenPath
<1>3. InvOK'
  BY DEF InvOK, OpenPath
<1>4. FdOK'
  BY DEF TypeOK, InvOK, FdOK, OpenPath
<1>5. NamesOK'
  BY DEF InvOK, NamesOK, OpenPath
<1>6. SessionOK'
  BY DEF InvOK, FdOK, NamesOK, SessionOK, PublishedOK, OpenPath
<1>7. HeldOK'
  BY DEF InvOK, PublishedOK, HeldOK, OpenPath
<1>8. TmpOK'
  BY DEF TmpOK, OpenPath
<1>9. TimesOK'
  BY DEF TimesOK, OpenPath
<1>10. BasisOK'
  BY DEF BasisOK, OpenPath
<1>11. RevokedOK'
  BY DEF BasisOK, RevokedOK, OpenPath
<1> QED
  BY <1>1, <1>2, <1>3, <1>4, <1>5, <1>6, <1>7, <1>8, <1>9, <1>10, <1>11

\* A new temporary file takes an inode nobody can reach.
LEMMA CreateTmpStep ==
    ASSUME IInv, NEW p \in Procs, NEW i \in Free, CreateTmp(p, i)
    PROVE  IInv'
<1>1. TypeOK'
  BY DEF TypeOK, CreateTmp, Free, Linked
<1>2. InvOK'
  BY DEF InvOK, CreateTmp
<1>3. FdOK'
  BY DEF TypeOK, InvOK, FdOK, CreateTmp, Free, Linked
<1>4. NamesOK'
  BY DEF TypeOK, NamesOK, CreateTmp, Free, Linked
<1>5. SessionOK'
  BY DEF TypeOK, SessionOK, CreateTmp, Free, Linked
<1>6. PublishedOK'
  BY DEF PublishedOK, CreateTmp, Free, Linked
<1>7. HeldOK'
  BY DEF TypeOK, HeldOK, CreateTmp, Free, Linked
<1>8. TmpOK'
  BY DEF TypeOK, TmpOK, CreateTmp, Free, Linked
<1>9. TimesOK'
  BY DEF TypeOK, TimesOK, CreateTmp
<1>10. BasisOK'
  BY DEF BasisOK, CreateTmp
<1>11. RevokedOK'
  BY DEF RevokedOK, CreateTmp, Free, Linked
<1> QED
  BY <1>1, <1>2, <1>3, <1>4, <1>5, <1>6, <1>7, <1>8, <1>9, <1>10, <1>11

\* Giving the temporary file the epoch disturbs no file that others can reach.
LEMMA SetEpochStep ==
    ASSUME IInv, NEW p \in Procs, SetEpoch(p)
    PROVE  IInv'
<1>1. TypeOK'
  BY DEF TypeOK, SetEpoch
<1>2. InvOK'
  BY DEF InvOK, SetEpoch
<1>3. FdOK'
  BY DEF FdOK, SetEpoch
<1>4. NamesOK'
  BY DEF NamesOK, SetEpoch
<1>5. SessionOK'
  BY DEF SessionOK, SetEpoch
<1>6. PublishedOK'
  BY DEF PublishedOK, SetEpoch
<1>7. HeldOK'
  BY DEF HeldOK, SetEpoch
<1>8. TmpOK'
  BY DEF TypeOK, FdOK, TmpOK, SetEpoch
<1>9. TimesOK'
  BY DEF TypeOK, TimesOK, SetEpoch
<1>10. BasisOK'
  BY DEF BasisOK, SetEpoch
<1>11. RevokedOK'
  BY DEF RevokedOK, SetEpoch
<1> QED
  BY <1>1, <1>2, <1>3, <1>4, <1>5, <1>6, <1>7, <1>8, <1>9, <1>10, <1>11

\* Giving the temporary file its group disturbs no file that others can reach.
LEMMA ChownTmpStep ==
    ASSUME IInv, NEW p \in Procs, ChownTmp(p)
    PROVE  IInv'
<1>1. TypeOK'
  BY DEF TypeOK, ChownTmp
<1>2. InvOK'
  BY DEF InvOK, ChownTmp
<1>3. FdOK'
  BY DEF FdOK, ChownTmp
<1>4. NamesOK'
  BY DEF NamesOK, ChownTmp
<1>5. SessionOK'
  BY DEF SessionOK, ChownTmp
<1>6. PublishedOK'
  BY DEF InvOK, PublishedOK, ChownTmp
<1>7. HeldOK'
  BY DEF InvOK, HeldOK, ChownTmp
<1>8. TmpOK'
  BY DEF TypeOK, InvOK, FdOK, TmpOK, ChownTmp
<1>9. TimesOK'
  BY DEF TimesOK, ChownTmp
<1>10. BasisOK'
  BY DEF BasisOK, ChownTmp
<1>11. RevokedOK'
  BY DEF RevokedOK, ChownTmp
<1> QED
  BY <1>1, <1>2, <1>3, <1>4, <1>5, <1>6, <1>7, <1>8, <1>9, <1>10, <1>11

\* Renaming moves a ready file without a stamp to the name of its session, and
\* cuts what was there before off from every name.
LEMMA PublishStep ==
    ASSUME IInv, NEW p \in Procs, Publish(p)
    PROVE  IInv'
<1>1. TypeOK'
  BY DEF TypeOK, Publish
<1>2. InvOK'
  BY DEF InvOK, Publish
<1>3. FdOK'
  BY DEF TypeOK, FdOK, Publish
<1>4. NamesOK'
  BY DEF TypeOK, NamesOK, Publish
<1>5. SessionOK'
  BY DEF FdOK, NamesOK, SessionOK, TmpOK, Publish
<1>6. PublishedOK'
  BY DEF FdOK, PublishedOK, TmpOK, Publish
<1>7. HeldOK'
  BY DEF FdOK, HeldOK, TmpOK, Publish
<1>8. TmpOK'
  BY DEF TmpOK, Publish
<1>9. TimesOK'
  BY DEF TimesOK, Publish
<1>10. BasisOK'
  BY DEF BasisOK, Publish
<1>11. RevokedOK'
  BY DEF NamesOK, TmpOK, BasisOK, RevokedOK, Publish
<1> QED
  BY <1>1, <1>2, <1>3, <1>4, <1>5, <1>6, <1>7, <1>8, <1>9, <1>10, <1>11

\* Removing the temporary file after a failure takes away its only name.
LEMMA RemoveTmpStep ==
    ASSUME IInv, NEW p \in Procs, At(p, "undo"), NoPersistFile(p), tmp' = [tmp EXCEPT ![p] = NoFile],
           UNCHANGED <<dir, path, files, minted, clocks, inv, seen, clk, basis>>
    PROVE  IInv'
<1>1. PublishedOK'
  BY DEF PublishedOK, NoPersistFile
<1>2. TypeOK'
  BY DEF TypeOK, NoPersistFile
<1>3. InvOK'
  BY DEF InvOK, NoPersistFile
<1>4. FdOK'
  BY DEF TypeOK, FdOK, NoPersistFile
<1>5. NamesOK'
  BY DEF TypeOK, NamesOK, NoPersistFile
<1>6. SessionOK'
  BY DEF TypeOK, SessionOK, NoPersistFile
<1>7. HeldOK'
  BY DEF TypeOK, HeldOK, NoPersistFile
<1>8. TmpOK'
  BY DEF TmpOK, NoPersistFile
<1>9. TimesOK'
  BY DEF TimesOK, NoPersistFile
<1>10. BasisOK'
  BY DEF BasisOK, NoPersistFile
<1>11. RevokedOK'
  BY DEF TypeOK, RevokedOK, NoPersistFile
<1> QED
  BY <1>1, <1>2, <1>3, <1>4, <1>5, <1>6, <1>7, <1>8, <1>9, <1>10, <1>11

\* A check that finds a stamp of the caller's group rests on what the stamp was
\* written for, which is the caller's session.
LEMMA SeeStampStep ==
    ASSUME IInv, NEW p \in Procs, At(p, "check"), OwnedBy(p), Goto(p, "boottime"),
           files[fd[p]].boot # 0, basis' = [basis EXCEPT ![p] = minted[fd[p]]],
           seen' = [seen EXCEPT ![p] = [boot |-> files[fd[p]].boot,
                                        real |-> files[fd[p]].real]],
           UNCHANGED <<disk, clocks, inv, fd, clk>>
    PROVE  IInv'
<1>1. PublishedOK'
  BY DEF PublishedOK
<1>2. TypeOK'
  BY DEF TypeOK, FdOK
<1>3. InvOK'
  BY DEF InvOK
<1>4. FdOK'
  BY DEF FdOK
<1>5. NamesOK'
  BY DEF NamesOK
<1>6. SessionOK'
  BY DEF SessionOK
<1>7. HeldOK'
  BY DEF HeldOK
<1>8. TmpOK'
  BY DEF TmpOK
<1>9. TimesOK'
  <2>1. fd[p] \in Inodes
    BY DEF TypeOK, FdOK
  <2>2. Ready(fd[p])
    BY DEF FdOK, HeldOK
  <2>3. minted[fd[p]].root # "none"
    BY <2>2
  <2>4. minted[fd[p]].sameBoot => files[fd[p]].boot <= boot + minted[fd[p]].dur
    BY <2>1, <2>3 DEF TimesOK
  <2>5. /\ seen'[p].boot = files[fd[p]].boot
        /\ basis'[p] = minted[fd[p]]
        /\ pc'[p] = "boottime"
    BY DEF TypeOK
  <2>6. ASSUME NEW q \in Procs, q # p
        PROVE  /\ seen'[q] = seen[q] /\ basis'[q] = basis[q]
               /\ pc'[q] = pc[q] /\ clk'[q] = clk[q]
    BY <2>6 DEF TypeOK
  <2> QED
    BY <2>4, <2>5, <2>6 DEF TimesOK
<1>10. BasisOK'
  BY DEF TypeOK, FdOK, SessionOK, HeldOK, BasisOK
<1>11. RevokedOK'
  BY DEF TypeOK, RevokedOK
<1> QED
  BY <1>1, <1>2, <1>3, <1>4, <1>5, <1>6, <1>7, <1>8, <1>9, <1>10, <1>11

\* Reading the boot clock: a recorded boot time lies in the past.
LEMMA CheckBootTimeStep ==
    ASSUME IInv, NEW p \in Procs, CheckBootTime(p)
    PROVE  IInv'
<1>1. PublishedOK'
  BY DEF PublishedOK, CheckBootTime
<1>2. TypeOK'
  BY DEF TypeOK, CheckBootTime
<1>3. InvOK'
  BY DEF InvOK, CheckBootTime
<1>4. FdOK'
  BY DEF FdOK, CheckBootTime
<1>5. NamesOK'
  BY DEF NamesOK, CheckBootTime
<1>6. SessionOK'
  BY DEF SessionOK, CheckBootTime
<1>7. HeldOK'
  BY DEF HeldOK, CheckBootTime
<1>8. TmpOK'
  BY DEF TmpOK, CheckBootTime
<1>9. TimesOK'
  BY DEF TypeOK, TimesOK, CheckBootTime
<1>10. BasisOK'
  BY DEF BasisOK, CheckBootTime
<1>11. RevokedOK'
  BY DEF RevokedOK, CheckBootTime
<1> QED
  BY <1>1, <1>2, <1>3, <1>4, <1>5, <1>6, <1>7, <1>8, <1>9, <1>10, <1>11

\* The verdict on a stamp: an accepted one has neither expired nor is it from the
\* future, as measured on the boot clock.
LEMMA CheckRealTimeStep ==
    ASSUME IInv, NEW p \in Procs, CheckRealTime(p)
    PROVE  IInv'
<1>1. PublishedOK'
  BY DEF PublishedOK, CheckRealTime
<1>2. TypeOK'
  BY DEF TypeOK, CheckRealTime
<1>3. InvOK'
  BY DEF InvOK, CheckRealTime
<1>4. FdOK'
  BY DEF FdOK, CheckRealTime
<1>5. NamesOK'
  BY DEF NamesOK, CheckRealTime
<1>6. SessionOK'
  BY DEF SessionOK, CheckRealTime
<1>7. HeldOK'
  BY DEF HeldOK, CheckRealTime
<1>8. TmpOK'
  BY DEF TmpOK, CheckRealTime
<1>9. TimesOK'
  BY DEF TypeOK, TimesOK, CheckRealTime, Expired, TooFarInFuture
<1>10. BasisOK'
  BY DEF BasisOK, CheckRealTime
<1>11. RevokedOK'
  BY DEF RevokedOK, CheckRealTime
<1> QED
  BY <1>1, <1>2, <1>3, <1>4, <1>5, <1>6, <1>7, <1>8, <1>9, <1>10, <1>11

\* A run on an accepted stamp renews that stamp.
LEMMA AcceptPersistStep ==
    ASSUME IInv, NEW p \in Procs, AcceptPersist(p)
    PROVE  IInv'
<1>1. PublishedOK'
  BY DEF PublishedOK, AcceptPersist, Returned
<1>2. TypeOK'
  BY DEF TypeOK, AcceptPersist, Returned
<1>3. InvOK'
  BY DEF InvOK, AcceptPersist, Returned
<1>4. FdOK'
  BY DEF FdOK, AcceptPersist, Returned
<1>5. NamesOK'
  BY DEF NamesOK, AcceptPersist, Returned
<1>6. SessionOK'
  BY DEF SessionOK, AcceptPersist, Returned
<1>7. HeldOK'
  BY DEF HeldOK, AcceptPersist, Returned
<1>8. TmpOK'
  BY DEF TmpOK, AcceptPersist, Returned
<1>9. TimesOK'
  BY DEF TypeOK, TimesOK, AcceptPersist, Returned
<1>10. BasisOK'
  BY DEF BasisOK, AcceptPersist, Returned
<1>11. RevokedOK'
  BY DEF RevokedOK, AcceptPersist, Returned
<1> QED
  BY <1>1, <1>2, <1>3, <1>4, <1>5, <1>6, <1>7, <1>8, <1>9, <1>10, <1>11

\* A run that is granted with a stamp file in hand rests on a fresh authorisation
\* for its own session.
LEMMA GrantedStep ==
    ASSUME IInv, NEW p \in Procs, NEW root \in {"password", "nopass"}, fd[p] # NoFile,
           pc[p] \in {"refused", "toofar"}, basis' = [basis EXCEPT ![p] = Fresh(p, root)],
           Goto(p, "setboot"), Returned(p), UNCHANGED <<disk, clocks, inv, fd>>
    PROVE  IInv'
<1>1. PublishedOK'
  BY DEF PublishedOK, Fresh, Returned
<1>2. TypeOK'
  BY DEF TypeOK, Fresh, Returned
<1>3. InvOK'
  BY DEF InvOK, FdOK, Fresh, Returned
<1>4. FdOK'
  BY DEF FdOK, Fresh, Returned
<1>5. NamesOK'
  BY DEF NamesOK, Fresh, Returned
<1>6. SessionOK'
  BY DEF SessionOK, Fresh, Returned
<1>7. HeldOK'
  BY DEF HeldOK, Fresh, Returned
<1>8. TmpOK'
  BY DEF TmpOK, Fresh, Returned
<1>9. TimesOK'
  BY DEF TypeOK, TimesOK, Fresh, Returned
<1>10. BasisOK'
  BY DEF TypeOK, BasisOK, Fresh, Returned
<1>11. RevokedOK'
  BY DEF RevokedOK, Fresh, Returned
<1> QED
  BY <1>1, <1>2, <1>3, <1>4, <1>5, <1>6, <1>7, <1>8, <1>9, <1>10, <1>11

\* Reading the boot clock for a new stamp starts its timeout anew, for the same
\* authorisation.
LEMMA SetBootTimeStep ==
    ASSUME IInv, NEW p \in Procs, SetBootTime(p)
    PROVE  IInv'
<1>1. PublishedOK'
  BY DEF PublishedOK, SetBootTime
<1>2. TypeOK'
  BY DEF TypeOK, SetBootTime
<1>3. InvOK'
  BY DEF InvOK, SetBootTime
<1>4. FdOK'
  BY DEF FdOK, SetBootTime
<1>5. NamesOK'
  BY DEF NamesOK, SetBootTime
<1>6. SessionOK'
  BY DEF SessionOK, SetBootTime
<1>7. HeldOK'
  BY DEF HeldOK, SetBootTime
<1>8. TmpOK'
  BY DEF TmpOK, SetBootTime
<1>9. TimesOK'
  BY DEF TypeOK, TimesOK, SetBootTime
<1>10. BasisOK'
  BY DEF TypeOK, BasisOK, SetBootTime
<1>11. RevokedOK'
  BY DEF RevokedOK, SetBootTime
<1> QED
  BY <1>1, <1>2, <1>3, <1>4, <1>5, <1>6, <1>7, <1>8, <1>9, <1>10, <1>11

\* Reading the wall clock for a new stamp.
LEMMA SetRealTimeStep ==
    ASSUME IInv, NEW p \in Procs, SetRealTime(p)
    PROVE  IInv'
<1>1. PublishedOK'
  BY DEF PublishedOK, SetRealTime
<1>2. TypeOK'
  BY DEF TypeOK, SetRealTime
<1>3. InvOK'
  BY DEF InvOK, SetRealTime
<1>4. FdOK'
  BY DEF FdOK, SetRealTime
<1>5. NamesOK'
  BY DEF NamesOK, SetRealTime
<1>6. SessionOK'
  BY DEF SessionOK, SetRealTime
<1>7. HeldOK'
  BY DEF HeldOK, SetRealTime
<1>8. TmpOK'
  BY DEF TmpOK, SetRealTime
<1>9. TimesOK'
  BY DEF TimesOK, SetRealTime
<1>10. BasisOK'
  BY DEF BasisOK, SetRealTime
<1>11. RevokedOK'
  BY DEF RevokedOK, SetRealTime
<1> QED
  BY <1>1, <1>2, <1>3, <1>4, <1>5, <1>6, <1>7, <1>8, <1>9, <1>10, <1>11

\* Writing the stamp through the descriptor makes the file one of the session of
\* the writer; if `doas -L` revoked its authorisation, that file has no name.
LEMMA WriteStampStep ==
    ASSUME IInv, NEW p \in Procs, WriteStamp(p)
    PROVE  IInv'
<1>1. TypeOK'
  BY DEF TypeOK, FdOK, WriteStamp, Gone, Expiry
<1>2. InvOK'
  BY DEF TypeOK, InvOK, WriteStamp, Gone
<1>3. FdOK'
  BY DEF TypeOK, FdOK, WriteStamp, Gone
<1>4. NamesOK'
  BY DEF NamesOK, WriteStamp, Gone
<1>5. SessionOK'
  BY DEF TypeOK, SessionOK, BasisOK, WriteStamp, Gone
<1>6. PublishedOK'
  BY DEF TypeOK, SessionOK, PublishedOK, BasisOK, WriteStamp, Gone
<1>7. HeldOK'
  BY DEF TypeOK, HeldOK, BasisOK, WriteStamp, Gone
<1>8. TmpOK'
  BY DEF FdOK, NamesOK, TmpOK, BasisOK, WriteStamp, Gone
<1>9. TimesOK'
  BY DEF TypeOK, TimesOK, BasisOK, WriteStamp, Gone, Expiry
<1>10. BasisOK'
  BY DEF TypeOK, BasisOK, WriteStamp, Gone
<1>11. RevokedOK'
  BY DEF RevokedOK, WriteStamp, Gone
<1> QED
  BY <1>1, <1>2, <1>3, <1>4, <1>5, <1>6, <1>7, <1>8, <1>9, <1>10, <1>11

\* `doas -L` revokes stamps and authorisations of one session, and only files
\* without a name are left to carry them.
LEMMA ClearStep ==
    ASSUME IInv, NEW k \in Keys, Clear(k)
    PROVE  IInv'
<1>1. InvOK' /\ FdOK'
  BY DEF InvOK, FdOK, Clear
<1>2. TypeOK'
  BY DEF TypeOK, Clear
<1>3. NamesOK'
  BY DEF NamesOK, Clear
<1>4. SessionOK'
  BY DEF TypeOK, SessionOK, Clear
<1>5. PublishedOK'
  BY DEF TypeOK, PublishedOK, Clear
<1>6. HeldOK'
  BY DEF TypeOK, HeldOK, Clear
<1>7. TmpOK'
  BY DEF TypeOK, TmpOK, Clear
<1>8. TimesOK'
  BY DEF TimesOK, Clear
<1>9. BasisOK'
  BY DEF BasisOK, Clear
<1>10. RevokedOK'
  <2>1. ASSUME NEW i \in Inodes, NEW l \in Keys, minted'[i].revoked
        PROVE  path'[l] # i
    <3>1. path'[l] = (IF l = k THEN NoFile ELSE path[l])
      BY DEF TypeOK, Clear
    <3>2. minted[i].revoked \/ minted[i].key = k
      BY <2>1 DEF Clear
    <3>3. ASSUME minted[i].key = k, path[l] = i
          PROVE  l = k
      BY <3>3, NamesAssumption DEF PublishedOK
    <3> QED
      BY <3>1, <3>2, <3>3, NamesAssumption DEF RevokedOK
  <2>2. ASSUME NEW p \in Procs, NEW l \in Keys, basis'[p].revoked, HoldsOpen(p)
        PROVE  path'[l] # fd[p]
    <3>1. path'[l] = (IF l = k THEN NoFile ELSE path[l])
      BY DEF TypeOK, Clear
    <3>2. basis[p].revoked \/ basis[p].key = k
      BY <2>2 DEF Clear
    <3>3. ASSUME basis[p].key = k, path[l] = fd[p]
          PROVE  l = k
      BY <2>2, <3>3, NamesAssumption DEF BasisOK, SessionOK
    <3> QED
      BY <2>2, <3>1, <3>2, <3>3 DEF RevokedOK
  <2> QED
    BY <2>1, <2>2 DEF RevokedOK, Clear
<1> QED
  BY <1>1, <1>2, <1>3, <1>4, <1>5, <1>6, <1>7, <1>8, <1>9, <1>10

\* Both clocks advance.
LEMMA TickStep ==
    ASSUME IInv, Tick
    PROVE  IInv'
<1>1. /\ InvOK' /\ FdOK' /\ NamesOK' /\ SessionOK' /\ PublishedOK'
      /\ HeldOK' /\ TmpOK' /\ BasisOK' /\ RevokedOK'
  BY DEF InvOK, FdOK, NamesOK, SessionOK, PublishedOK, HeldOK, TmpOK, BasisOK, RevokedOK,
         Tick
<1>2. TypeOK'
  BY DEF TypeOK, Tick
<1>3. TimesOK'
  BY DEF TypeOK, TimesOK, Tick
<1> QED
  BY <1>1, <1>2, <1>3

\* Setting the wall clock leaves everything measured on the boot clock as it is.
LEMMA StepWallClockStep ==
    ASSUME IInv, NEW s \in WallSteps, StepWallClock(s)
    PROVE  IInv'
<1>1. InvOK' /\ FdOK' /\ NamesOK'
  BY DEF InvOK, FdOK, NamesOK, StepWallClock
<1>2. TypeOK'
  BY DEF TypeOK, StepWallClock
<1>3. SessionOK'
  BY DEF TypeOK, SessionOK, StepWallClock
<1>4. PublishedOK'
  BY DEF TypeOK, PublishedOK, StepWallClock
<1>5. HeldOK'
  BY DEF TypeOK, HeldOK, StepWallClock
<1>6. TmpOK'
  BY DEF TypeOK, TmpOK, StepWallClock
<1>7. TimesOK'
  BY DEF TimesOK, StepWallClock
<1>8. BasisOK'
  BY DEF BasisOK, StepWallClock
<1>9. RevokedOK'
  BY DEF RevokedOK, StepWallClock
<1> QED
  BY <1>1, <1>2, <1>3, <1>4, <1>5, <1>6, <1>7, <1>8, <1>9

\* After a reboot no stamp counts as one of this boot, and no process is left.
LEMMA RebootStep ==
    ASSUME IInv, NEW d \in Downtimes, NEW e \in BOOLEAN, Reboot(d, e)
    PROVE  IInv'
<1>1. TypeOK'
  BY DEF TypeOK, Reboot
<1>2. InvOK'
  BY DEF InvOK, Reboot
<1>3. FdOK'
  BY DEF FdOK, Reboot
<1>4. NamesOK'
  BY DEF NamesOK, Reboot
<1>5. SessionOK'
  BY DEF SessionOK, Reboot
<1>6. PublishedOK'
  BY DEF TypeOK, PublishedOK, Reboot
<1>7. HeldOK'
  BY DEF HeldOK, Reboot
<1>8. TmpOK'
  BY DEF TypeOK, TmpOK, Reboot
<1>9. TimesOK'
  <2>1. ASSUME NEW i \in Inodes
        PROVE  minted'[i].root # "none" => ~minted'[i].sameBoot
    BY DEF Reboot
  <2>2. ASSUME NEW p \in Procs
        PROVE  pc'[p] = "idle" /\ clk'[p].boot = 0
    BY DEF Reboot
  <2>3. boot' = 0
    BY DEF Reboot
  <2> QED
    BY <2>1, <2>2, <2>3 DEF TimesOK
<1>10. BasisOK'
  BY DEF BasisOK, Reboot
<1>11. RevokedOK'
  BY DEF RevokedOK, Reboot
<1> QED
  BY <1>1, <1>2, <1>3, <1>4, <1>5, <1>6, <1>7, <1>8, <1>9, <1>10, <1>11

----------------------------------------------------------------------------
HIDE DEF IInv, disk, clocks, local, At, Goto, key, rule, timeout, NoTimes, NoInv,
         NoRule, Mint, NoMint, Mints, Labels, Revoked, PutBack, Aged, HoldsOpen,
         Ready, Blank, NoFilePhases, TmpPhases, OpenPhases, SeenPhases, GrantPhases

\* open() on /var/run/doas and on the name of the session: stat, mkdir, open, and
\* the first check keep the invariant.
LEMMA OpenNameStep ==
    ASSUME IInv, NEW p \in Procs,
           StatDir(p) \/ MkDir(p) \/ OpenPath(p) \/ OpenFails(p) \/ CheckOwner(p)
    PROVE  IInv'
<1>1. ASSUME StatDir(p)
      PROVE  IInv'
  <2> DEFINE l == IF dir = "ok" THEN "path" ELSE IF dir = "missing" THEN "mkdir" ELSE "refused"
  <2>1. At(p, "dir") /\ Goto(p, l) /\ UNCHANGED <<disk, clocks, local>>
    BY <1>1 DEF StatDir
  <2>2. l \in {"path", "mkdir", "refused"}
    OBVIOUS
  <2> HIDE DEF l
  <2> QED
    BY <2>1, <2>2, GotoStep
<1>2. ASSUME MkDir(p)
      PROVE  IInv'
  BY <1>2, MkDirStep
<1>3. ASSUME OpenPath(p)
      PROVE  IInv'
  BY <1>3, OpenPathStep
<1>4. ASSUME OpenFails(p)
      PROVE  IInv'
  BY <1>4, NoPersistFileStep DEF OpenFails, At
<1>5. ASSUME CheckOwner(p)
      PROVE  IInv'
  <2>1. At(p, "owner") /\ UNCHANGED <<disk, clocks, inv, seen, clk, basis>>
    BY <1>5 DEF CheckOwner
  <2>2. ASSUME OwnedBy(p)
        PROVE  IInv'
    <3>1. Goto(p, "check") /\ UNCHANGED <<disk, clocks, local>>
      BY <1>5, <2>1, <2>2 DEF CheckOwner, local
    <3> QED
      BY <2>1, <3>1, GotoStep
  <2>3. ASSUME ~OwnedBy(p)
        PROVE  IInv'
    <3>1. NoPersistFile(p)
      BY <1>5, <2>3 DEF CheckOwner
    <3> QED
      BY <2>1, <3>1, NoPersistFileStep DEF At
  <2> QED
    BY <2>2, <2>3
<1> QED
  BY <1>1, <1>2, <1>3, <1>4, <1>5

\* open() when there is no stamp file yet: making one under the temporary name
\* and giving it its name, or giving up, keeps the invariant.
LEMMA OpenTmpStep ==
    ASSUME IInv, NEW p \in Procs,
           \/ \E i \in Free : CreateTmp(p, i)
           \/ CreateFails(p) \/ SetEpoch(p) \/ ChownTmp(p) \/ Publish(p)
           \/ PublishFails(p) \/ RemoveTmp(p)
    PROVE  IInv'
<1>1. ASSUME NEW i \in Free, CreateTmp(p, i)
      PROVE  IInv'
  BY <1>1, CreateTmpStep
<1>2. ASSUME CreateFails(p)
      PROVE  IInv'
  BY <1>2, NoPersistFileStep DEF CreateFails, At
<1>3. ASSUME SetEpoch(p)
      PROVE  IInv'
  BY <1>3, SetEpochStep
<1>4. ASSUME ChownTmp(p)
      PROVE  IInv'
  BY <1>4, ChownTmpStep
<1>5. ASSUME Publish(p)
      PROVE  IInv'
  BY <1>5, PublishStep
<1>6. ASSUME PublishFails(p)
      PROVE  IInv'
  <2>1. /\ pc[p] \in {"epoch", "chown", "publish"}
        /\ Goto(p, "undo")
        /\ UNCHANGED <<disk, clocks, local>>
    BY <1>6 DEF PublishFails
  <2> QED
    BY <2>1, GotoStep
<1>7. ASSUME RemoveTmp(p)
      PROVE  IInv'
  <2>1. /\ At(p, "undo") /\ NoPersistFile(p)
        /\ UNCHANGED <<dir, path, files, minted, clocks, inv, seen, clk, basis>>
    BY <1>7 DEF RemoveTmp
  <2>2. ASSUME tmp' = [tmp EXCEPT ![p] = NoFile]
        PROVE  IInv'
    BY <2>1, <2>2, RemoveTmpStep
  <2>3. ASSUME tmp' = tmp
        PROVE  IInv'
    <3>1. pc[p] \in {"path", "create", "owner", "undo"}
      BY <2>1 DEF At
    <3>2. UNCHANGED <<disk, clocks, inv, seen, clk, basis>>
      BY <2>1, <2>3 DEF disk
    <3> QED
      BY <2>1, <3>1, <3>2, NoPersistFileStep
  <2> QED
    BY <1>7, <2>2, <2>3 DEF RemoveTmp
<1> QED
  BY <1>1, <1>2, <1>3, <1>4, <1>5, <1>6, <1>7

\* check() keeps the invariant: what it read, and the two clocks, decide.
LEMMA CheckStampStep ==
    ASSUME IInv, NEW p \in Procs, CheckStep(p)
    PROVE  IInv'
<1>1. ASSUME CheckStat(p)
      PROVE  IInv'
  <2> DEFINE t == [boot |-> files[fd[p]].boot, real |-> files[fd[p]].real]
  <2>1. At(p, "check") /\ UNCHANGED <<disk, clocks, inv, fd, clk>>
    BY <1>1 DEF CheckStat
  <2>2. ASSUME OwnedBy(p), IsSet(t)
        PROVE  IInv'
    <3>1. /\ seen' = [seen EXCEPT ![p] = t]
          /\ basis' = [basis EXCEPT ![p] = minted[fd[p]]]
          /\ Goto(p, "boottime")
      BY <1>1, <2>2 DEF CheckStat
    <3>2. files[fd[p]].boot # 0
      BY <2>2 DEF IsSet
    <3> QED
      BY <2>1, <2>2, <3>1, <3>2, SeeStampStep
  <2>3. ASSUME ~(OwnedBy(p) /\ IsSet(t))
        PROVE  IInv'
    <3>1. Goto(p, "refused") /\ UNCHANGED <<seen, basis>>
      BY <1>1, <2>3 DEF CheckStat
    <3>2. UNCHANGED <<disk, clocks, local>>
      BY <2>1, <3>1 DEF local
    <3> QED
      BY <2>1, <3>1, <3>2, GotoStep DEF At
  <2> QED
    BY <2>2, <2>3
<1>2. ASSUME CheckBootTime(p)
      PROVE  IInv'
  BY <1>2, CheckBootTimeStep
<1>3. ASSUME CheckRealTime(p)
      PROVE  IInv'
  BY <1>3, CheckRealTimeStep
<1>4. ASSUME CheckFails(p)
      PROVE  IInv'
  <2>1. /\ pc[p] \in {"check", "boottime", "realtime"}
        /\ Goto(p, "refused")
        /\ UNCHANGED <<disk, clocks, local>>
    BY <1>4 DEF CheckFails
  <2> QED
    BY <2>1, GotoStep
<1> QED
  BY <1>1, <1>2, <1>3, <1>4 DEF CheckStep

\* A run that is granted keeps the invariant, whether or not it holds a stamp.
LEMMA GrantStep ==
    ASSUME IInv, NEW p \in Procs, NEW root \in {"password", "nopass"},
           pc[p] \in {"refused", "toofar"}, Granted(p, root)
    PROVE  IInv'
<1>1. UNCHANGED <<disk, clocks>>
  BY DEF Granted
<1>2. ASSUME fd[p] = NoFile
      PROVE  IInv'
  <2>1. Gone(p)
    BY <1>2 DEF Granted
  <2> QED
    BY <1>1, <2>1, GoneStep
<1>3. ASSUME fd[p] # NoFile
      PROVE  IInv'
  <2>1. /\ basis' = [basis EXCEPT ![p] = Fresh(p, root)]
        /\ Goto(p, "setboot") /\ Returned(p) /\ UNCHANGED <<inv, fd>>
    BY <1>3 DEF Granted
  <2> QED
    BY <1>1, <1>3, <2>1, GrantedStep
<1> QED
  BY <1>2, <1>3

\* What main.rs does after the check, and set(), keep the invariant.
LEMMA AuthSetStep ==
    ASSUME IInv, NEW p \in Procs, AuthStep(p) \/ SetStep(p)
    PROVE  IInv'
<1>1. ASSUME AcceptPersist(p)
      PROVE  IInv'
  BY <1>1, AcceptPersistStep
<1>2. ASSUME AcceptNopass(p)
      PROVE  IInv'
  <2>1. pc[p] \in {"refused", "toofar"} /\ Granted(p, "nopass")
    BY <1>2 DEF AcceptNopass
  <2> QED
    BY <2>1, GrantStep
<1>3. ASSUME Authenticate(p)
      PROVE  IInv'
  <2>1. pc[p] \in {"refused", "toofar"} /\ Granted(p, "password")
    BY <1>3 DEF Authenticate
  <2> QED
    BY <2>1, GrantStep
<1>4. ASSUME AuthFails(p) \/ WriteFails(p)
      PROVE  IInv'
  <2>1. Gone(p) /\ UNCHANGED <<disk, clocks>>
    BY <1>4 DEF AuthFails, WriteFails
  <2> QED
    BY <2>1, GoneStep
<1>5. ASSUME SetBootTime(p)
      PROVE  IInv'
  BY <1>5, SetBootTimeStep
<1>6. ASSUME SetRealTime(p)
      PROVE  IInv'
  BY <1>6, SetRealTimeStep
<1>7. ASSUME WriteStamp(p)
      PROVE  IInv'
  BY <1>7, WriteStampStep
<1> QED
  BY <1>1, <1>2, <1>3, <1>4, <1>5, <1>6, <1>7 DEF AuthStep, SetStep

\* Every step of the system keeps the invariant.
LEMMA NextInv ==
    ASSUME IInv, [Next]_vars
    PROVE  IInv'
<1>1. ASSUME UNCHANGED vars
      PROVE  IInv'
  BY <1>1, StutterStep
<1>2. ASSUME WorldStep
      PROVE  IInv'
  <2>1. ASSUME NEW k \in Keys, Clear(k)
        PROVE  IInv'
    BY <2>1, ClearStep
  <2>2. ASSUME Tick
        PROVE  IInv'
    BY <2>2, TickStep
  <2>3. ASSUME NEW s \in WallSteps, StepWallClock(s)
        PROVE  IInv'
    BY <2>3, StepWallClockStep
  <2>4. ASSUME NEW down \in Downtimes, NEW emptied \in BOOLEAN, Reboot(down, emptied)
        PROVE  IInv'
    BY <2>4, RebootStep
  <2> QED
    BY <1>2, <2>1, <2>2, <2>3, <2>4 DEF WorldStep
<1>3. ASSUME NEW p \in Procs, ProcStep(p)
      PROVE  IInv'
  <2>1. ASSUME NEW k \in Keys, NEW g \in Gids, NEW r \in Rules, Start(p, k, g, r)
        PROVE  IInv'
    BY <2>1, StartStep
  <2>2. ASSUME OpenStep(p)
        PROVE  IInv'
    BY <2>2, OpenNameStep, OpenTmpStep DEF OpenStep
  <2>3. ASSUME CheckStep(p)
        PROVE  IInv'
    BY <2>3, CheckStampStep
  <2>4. ASSUME AuthStep(p) \/ SetStep(p)
        PROVE  IInv'
    BY <2>4, AuthSetStep
  <2>5. ASSUME Killed(p)
        PROVE  IInv'
    BY <2>5, GoneStep DEF Killed
  <2> QED
    BY <1>3, <2>1, <2>2, <2>3, <2>4, <2>5 DEF ProcStep
<1> QED
  BY <1>1, <1>2, <1>3 DEF Next

----------------------------------------------------------------------------
\* The inductive invariant holds for any number of processes, sessions, groups
\* and inodes, any rules and any clocks.
THEOREM Invariant == Spec => []IInv
<1>1. Init => IInv
  BY InitInv
<1>2. IInv /\ [Next]_vars => IInv'
  BY NextInv
<1> QED
  BY <1>1, <1>2, PTL DEF Spec

\* Type correctness of every variable, in particular of the clocks, and of the
\* stamps on disk as natural numbers.
THEOREM TypeCorrect == Spec => []TypeOK
<1>1. IInv => TypeOK
  BY DEF IInv
<1> QED
  BY <1>1, Invariant, PTL

\* No name in /var/run/doas ever refers to a file that was not given its group,
\* or that carries the times it was created with or another session's stamp.
THEOREM OnlyReadyFilesAreLinked == Spec => []LinkedFilesReady
<1>1. IInv => LinkedFilesReady
  BY DEF IInv, PublishedOK, Ready, LinkedFilesReady
<1> QED
  BY <1>1, Invariant, PTL

\* `doas -L` revokes: no name refers to a stamp whose authentication lies before
\* it, whatever the processes that had already passed their check do afterwards.
THEOREM ClearIsFinal == Spec => []ClearRevokes
<1>1. IInv => ClearRevokes
  <2> SUFFICES ASSUME IInv, NEW k \in Keys, path[k] # NoFile
               PROVE  ~minted[path[k]].revoked
    BY DEF ClearRevokes
  <2>1. path[k] \in Inodes
    BY DEF IInv, TypeOK
  <2> QED
    BY <2>1 DEF IInv, RevokedOK
<1> QED
  BY <1>1, Invariant, PTL

\* A password is skipped only on a stamp of the same session that goes back to
\* an authorised run and, measured on the boot clock, is within its timeout.
THEOREM PassesAreEarned == Spec => []PassIsEarned
<1>1. IInv => PassIsEarned
  <2> SUFFICES ASSUME IInv, NEW p \in Procs, At(p, "accepted")
               PROVE  /\ basis[p].root # "none"
                      /\ basis[p].key = key(p)
                      /\ basis[p].sameBoot =>
                            LET mintedAt == seen[p].boot - basis[p].dur
                            IN  /\ mintedAt <= clk[p].boot
                                /\ clk[p].boot <= mintedAt + basis[p].dur
    BY DEF PassIsEarned
  <2>1. /\ basis[p].dur \in Nat
        /\ seen[p].boot \in Nat
        /\ clk[p].boot \in Nat
    BY ClockAssumption DEF IInv, TypeOK, Mints
  <2>2. basis[p].root # "none" /\ basis[p].key = key(p)
    BY DEF IInv, BasisOK, SeenPhases, GrantPhases, Blank, At
  <2>3. ASSUME basis[p].sameBoot
        PROVE  seen[p].boot <= clk[p].boot + basis[p].dur
    BY <2>3 DEF IInv, TimesOK, At
  <2>4. clk[p].boot <= seen[p].boot
    BY DEF IInv, TimesOK
  <2> QED
    BY <2>1, <2>2, <2>3, <2>4
<1> QED
  BY <1>1, Invariant, PTL
=============================================================================
