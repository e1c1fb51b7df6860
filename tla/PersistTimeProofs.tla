------------------------- MODULE PersistTimeProofs -------------------------
(***************************************************************************)
(* Proofs of the properties of Persist that are about clocks which are set *)
(* or start again, and about chains of renewals.                           *)
(*                                                                         *)
(* WInv adds to IInv what the wall clock says of a stamp, from the times   *)
(* that a process read until the times it writes.  RootOK needs no clock.  *)
(***************************************************************************)
EXTENDS PersistProofs

\* Unless the wall clock was put back, a stamp was written in its past; and if
\* the machine was started since, it has been up for no longer than the stamp
\* is old.
InPast(m, t) ==
    m.root # "none" /\ ~m.putBack =>
        /\ t.real <= real + m.dur
        /\ ~m.sameBoot => boot + t.real <= real + m.dur

StampsOK == \A i \in Inodes : InPast(minted[i], files[i])

SeenOK ==
    \A p \in Procs : pc[p] \in SeenPhases => InPast(basis[p], seen[p])

\* What the two clocks that were read say of the stamp that was read.
JudgedOK ==
    \A p \in Procs :
        /\ pc[p] \in {"accepted", "toofar"} /\ ~basis[p].putBack =>
              /\ seen[p].real <= clk[p].real + basis[p].dur
              /\ ~basis[p].sameBoot => clk[p].boot + seen[p].real <= clk[p].real + basis[p].dur
        /\ At(p, "accepted") => ~Expired(seen[p], clk[p])
        /\ At(p, "accepted") => ~TooFarInFuture(seen[p], clk[p], timeout(p))
        /\ At(p, "toofar") => TooFarInFuture(seen[p], clk[p], timeout(p))

\* The times about to be written.
WritingOK ==
    \A p \in Procs :
        /\ pc[p] \in {"setreal", "write"} => basis[p].sameBoot
        /\ At(p, "write") /\ ~basis[p].putBack => clk[p].real <= real

WallOK == StampsOK /\ SeenOK /\ JudgedOK /\ WritingOK

WInv == IInv /\ WallOK

USE RulesAssumption, ClockAssumption, NamesAssumption
USE DEF IInv, WInv, WallOK, InPast, disk, clocks, local, At, Goto, key, rule, timeout, NoTimes,
        NoInv, NoRule, Mint, NoMint, Mints, Labels, Revoked, PutBack, Aged, HoldsOpen, Blank,
        NoFilePhases, TmpPhases, OpenPhases, SeenPhases, GrantPhases

\* A step of one process that writes no stamp and takes it to a point where it
\* has no times of its own.
LEMMA FrameStep ==
    ASSUME WInv, NEW p \in Procs, UNCHANGED <<clocks, minted>>,
           \A i \in Inodes : minted[i].root # "none" => files'[i] = files[i],
           \A q \in Procs \ {p} : /\ pc'[q] = pc[q] /\ inv'[q] = inv[q] /\ basis'[q] = basis[q]
                                  /\ seen'[q] = seen[q] /\ clk'[q] = clk[q],
           pc'[p] \notin SeenPhases \cup {"setreal", "write"}
    PROVE  WallOK'
<1>1. StampsOK'
  BY DEF StampsOK
<1>2. SeenOK'
  BY DEF SeenOK
<1>3. JudgedOK'
  BY DEF JudgedOK, Expired, TooFarInFuture
<1>4. WritingOK'
  BY DEF WritingOK
<1> QED
  BY <1>1, <1>2, <1>3, <1>4

\* The steps of which FrameStep speaks: coming and going, open, the failures of
\* check and set, and the authorisations.
LEMMA PlainStep ==
    ASSUME WInv, NEW p \in Procs,
           \/ \E k \in Keys, g \in Gids, r \in Rules : Start(p, k, g, r)
           \/ StatDir(p) \/ MkDir(p) \/ OpenPath(p) \/ OpenFails(p) \/ CheckOwner(p)
           \/ CreateFails(p) \/ SetEpoch(p) \/ ChownTmp(p) \/ Publish(p)
           \/ PublishFails(p) \/ RemoveTmp(p)
           \/ CheckFails(p) \/ AuthStep(p) \/ WriteFails(p) \/ Killed(p)
    PROVE  WallOK'
<1>1. UNCHANGED <<clocks, minted>>
  BY DEF Start, StatDir, MkDir, OpenPath, OpenFails, CheckOwner, CreateFails, SetEpoch,
         ChownTmp, Publish, PublishFails, RemoveTmp, CheckFails, AuthStep, AcceptPersist,
         AcceptNopass, Authenticate, AuthFails, Granted, WriteFails, Killed
<1>2. \A i \in Inodes : minted[i].root # "none" => files'[i] = files[i]
  <2>1. CASE SetEpoch(p) \/ ChownTmp(p)
    <3>1. minted[fd[p]].root = "none"
      BY <2>1 DEF TypeOK, FdOK, TmpOK, SetEpoch, ChownTmp
    <3> QED
      BY <2>1, <3>1 DEF TypeOK, SetEpoch, ChownTmp
  <2>2. CASE ~(SetEpoch(p) \/ ChownTmp(p))
    BY <2>2 DEF Start, StatDir, MkDir, OpenPath, OpenFails, CheckOwner, CreateFails,
         Publish, PublishFails, RemoveTmp, CheckFails, AuthStep, AcceptPersist,
         AcceptNopass, Authenticate, AuthFails, Granted, WriteFails, Killed
  <2> QED
    BY <2>1, <2>2
<1>3. \A q \in Procs \ {p} : /\ pc'[q] = pc[q] /\ inv'[q] = inv[q] /\ basis'[q] = basis[q]
                             /\ seen'[q] = seen[q] /\ clk'[q] = clk[q]
  BY DEF TypeOK, Start, StatDir, MkDir, OpenPath, OpenFails, CheckOwner, CreateFails, SetEpoch,
         ChownTmp, Publish, PublishFails, RemoveTmp, CheckFails, AuthStep, AcceptPersist,
         AcceptNopass, Authenticate, AuthFails, Granted, Returned, WriteFails, Killed, Gone,
         NoPersistFile
<1>4. pc'[p] \notin SeenPhases \cup {"setreal", "write"}
  BY DEF TypeOK, Start, StatDir, MkDir, OpenPath, OpenFails, CheckOwner, CreateFails, SetEpoch,
         ChownTmp, Publish, PublishFails, RemoveTmp, CheckFails, AuthStep, AcceptPersist,
         AcceptNopass, Authenticate, AuthFails, Granted, Returned, WriteFails, Killed, Gone,
         NoPersistFile
<1> QED
  BY <1>1, <1>2, <1>3, <1>4, FrameStep

\* A new file has no stamp.
LEMMA CreateStep ==
    ASSUME WInv, NEW p \in Procs, NEW i \in Free, CreateTmp(p, i)
    PROVE  WallOK'
<1>1. StampsOK'
  BY DEF TypeOK, StampsOK, CreateTmp
<1>2. SeenOK'
  BY DEF TypeOK, SeenOK, CreateTmp
<1>3. JudgedOK'
  BY DEF TypeOK, JudgedOK, Expired, TooFarInFuture, CreateTmp
<1>4. WritingOK'
  BY DEF TypeOK, WritingOK, CreateTmp
<1> QED
  BY <1>1, <1>2, <1>3, <1>4

\* The times of a stamp are read.
LEMMA CheckStatStep ==
    ASSUME WInv, NEW p \in Procs, CheckStat(p)
    PROVE  WallOK'
<1>1. CASE At(p, "refused")'
  <2>1. UNCHANGED <<disk, clocks, inv, clk, seen, basis>>
    BY <1>1 DEF TypeOK, CheckStat
  <2>2. \A q \in Procs \ {p} : pc'[q] = pc[q]
    BY DEF TypeOK, CheckStat
  <2> QED
    BY <1>1, <2>1, <2>2, FrameStep
<1>2. CASE ~At(p, "refused")'
  <2>1. fd[p] \in Inodes
    BY DEF TypeOK, FdOK, CheckStat
  <2>2. /\ pc'[p] = "boottime" /\ basis'[p] = minted[fd[p]]
        /\ seen'[p] = [boot |-> files[fd[p]].boot, real |-> files[fd[p]].real]
    BY <1>2 DEF TypeOK, CheckStat
  <2>3. \A q \in Procs \ {p} : /\ pc'[q] = pc[q] /\ inv'[q] = inv[q] /\ basis'[q] = basis[q]
                               /\ seen'[q] = seen[q] /\ clk'[q] = clk[q]
    BY DEF TypeOK, CheckStat
  <2>4. UNCHANGED <<disk, clocks>>
    BY DEF CheckStat
  <2>5. InPast(minted[fd[p]], files[fd[p]])
    BY <2>1 DEF StampsOK
  <2>6. StampsOK'
    BY <2>4 DEF StampsOK
  <2>7. SeenOK'
    BY <2>2, <2>3, <2>4, <2>5 DEF SeenOK
  <2>8. JudgedOK' /\ WritingOK'
    BY <2>2, <2>3, <2>4 DEF JudgedOK, WritingOK, Expired, TooFarInFuture
  <2> QED
    BY <2>6, <2>7, <2>8
<1> QED
  BY <1>1, <1>2

\* The boot clock is read, for a check or for a stamp.
LEMMA BootTimeStep ==
    ASSUME WInv, NEW p \in Procs, CheckBootTime(p) \/ SetBootTime(p)
    PROVE  WallOK'
<1>1. StampsOK'
  BY DEF StampsOK, CheckBootTime, SetBootTime
<1>2. \A q \in Procs \ {p} :
          /\ pc'[q] = pc[q] /\ clk'[q] = clk[q]
          /\ inv'[q] = inv[q] /\ basis'[q] = basis[q] /\ seen'[q] = seen[q]
  BY DEF TypeOK, CheckBootTime, SetBootTime
<1>3. /\ pc'[p] \in {"realtime", "setreal"}
      /\ pc'[p] = "setreal" => basis'[p].sameBoot
      /\ pc'[p] = "realtime" => pc[p] = "boottime" /\ UNCHANGED <<basis, seen>>
  BY DEF TypeOK, CheckBootTime, SetBootTime
<1>4. SeenOK'
  <2>1. UNCHANGED <<real, boot>>
    BY DEF CheckBootTime, SetBootTime
  <2> QED
    BY <1>2, <1>3, <2>1 DEF SeenOK
<1>5. JudgedOK'
  BY <1>2, <1>3 DEF JudgedOK
<1>6. WritingOK'
  BY <1>2, <1>3 DEF WritingOK, CheckBootTime, SetBootTime
<1> QED
  BY <1>1, <1>4, <1>5, <1>6

\* The wall clock is read, and the stamp is judged.
LEMMA CheckRealStep ==
    ASSUME WInv, NEW p \in Procs, CheckRealTime(p)
    PROVE  WallOK'
<1>1. StampsOK'
  BY DEF StampsOK, CheckRealTime
<1>2. SeenOK'
  BY DEF TypeOK, SeenOK, CheckRealTime
<1>3. JudgedOK'
  <2>1. ASSUME NEW q \in Procs, q # p
        PROVE  /\ pc'[q] = pc[q] /\ basis'[q] = basis[q] /\ seen'[q] = seen[q]
               /\ clk'[q] = clk[q] /\ inv'[q] = inv[q]
    BY <2>1 DEF TypeOK, CheckRealTime
  <2>2. /\ clk'[p] = [boot |-> clk[p].boot, real |-> real]
        /\ seen'[p] = seen[p] /\ basis'[p] = basis[p] /\ inv'[p] = inv[p]
    BY DEF TypeOK, CheckRealTime
  <2>3. /\ pc'[p] = "accepted" => ~Expired(seen'[p], clk'[p])
        /\ pc'[p] = "accepted" => ~TooFarInFuture(seen'[p], clk'[p], timeout(p))
        /\ pc'[p] = "toofar" => TooFarInFuture(seen'[p], clk'[p], timeout(p))
    BY <2>2 DEF TypeOK, CheckRealTime
  <2>4. InPast(basis[p], seen[p]) /\ basis[p].root # "none" /\ clk[p].boot <= boot
    BY DEF SeenOK, BasisOK, TimesOK, CheckRealTime
  <2>5. /\ real \in Nat /\ boot \in Nat /\ clk[p].boot \in Nat
        /\ seen[p].real \in Nat /\ basis[p].dur \in Nat
    BY DEF TypeOK
  <2>6. ~basis[p].putBack =>
            /\ seen[p].real <= real + basis[p].dur
            /\ ~basis[p].sameBoot => clk[p].boot + seen[p].real <= real + basis[p].dur
    BY <2>4, <2>5
  <2> QED
    BY <2>1, <2>2, <2>3, <2>6 DEF JudgedOK
<1>4. WritingOK'
  BY DEF TypeOK, WritingOK, CheckRealTime
<1> QED
  BY <1>1, <1>2, <1>3, <1>4

\* The wall clock is read for a stamp.
LEMMA SetRealStep ==
    ASSUME WInv, NEW p \in Procs, SetRealTime(p)
    PROVE  WallOK'
<1>1. StampsOK'
  BY DEF StampsOK, SetRealTime
<1>2. SeenOK'
  BY DEF TypeOK, SeenOK, SetRealTime
<1>3. JudgedOK'
  BY DEF TypeOK, JudgedOK, Expired, TooFarInFuture, SetRealTime
<1>4. WritingOK'
  BY DEF TypeOK, WritingOK, SetRealTime
<1> QED
  BY <1>1, <1>2, <1>3, <1>4

\* A stamp is written.
LEMMA WriteStep ==
    ASSUME WInv, NEW p \in Procs, WriteStamp(p)
    PROVE  WallOK'
<1>1. fd[p] \in Inodes /\ basis[p].dur = timeout(p) /\ basis[p].sameBoot
  BY DEF TypeOK, FdOK, BasisOK, WritingOK, WriteStamp
<1>2. StampsOK'
  <2>1. ASSUME ~basis[p].putBack
        PROVE  clk[p].real + timeout(p) <= real + basis[p].dur
    BY <1>1, <2>1 DEF TypeOK, WritingOK, WriteStamp
  <2>2. minted'[fd[p]] = basis[p] /\ files'[fd[p]].real = clk[p].real + timeout(p)
    BY <1>1 DEF TypeOK, WriteStamp, Expiry
  <2>3. UNCHANGED clocks
    BY DEF WriteStamp
  <2>4. ASSUME NEW i \in Inodes, i # fd[p]
        PROVE  minted'[i] = minted[i] /\ files'[i] = files[i]
    BY <2>4 DEF TypeOK, WriteStamp
  <2>5. ASSUME NEW i \in Inodes
        PROVE  InPast(minted[i], files[i])'
    <3>1. CASE i = fd[p]
      BY <1>1, <2>1, <2>2, <2>3, <3>1
    <3>2. CASE i # fd[p]
      BY <2>3, <2>4, <3>2 DEF StampsOK
    <3> QED
      BY <3>1, <3>2
  <2> QED
    BY <2>5 DEF StampsOK
<1>3. SeenOK'
  BY DEF TypeOK, SeenOK, WriteStamp, Gone
<1>4. JudgedOK'
  BY DEF TypeOK, JudgedOK, Expired, TooFarInFuture, WriteStamp, Gone
<1>5. WritingOK'
  BY DEF TypeOK, WritingOK, WriteStamp, Gone
<1> QED
  BY <1>2, <1>3, <1>4, <1>5

\* doas -L changes neither times nor clocks.
LEMMA ClearWall ==
    ASSUME WInv, NEW k \in Keys, Clear(k)
    PROVE  WallOK'
<1>1. UNCHANGED <<files, clocks, pc, inv, seen, clk>>
  BY DEF Clear
<1>2. /\ \A i \in Inodes : /\ minted'[i].root = minted[i].root /\ minted'[i].dur = minted[i].dur
                           /\ minted'[i].putBack = minted[i].putBack
                           /\ minted'[i].sameBoot = minted[i].sameBoot
      /\ \A p \in Procs : /\ basis'[p].root = basis[p].root /\ basis'[p].dur = basis[p].dur
                          /\ basis'[p].putBack = basis[p].putBack
                          /\ basis'[p].sameBoot = basis[p].sameBoot
  BY DEF TypeOK, Clear
<1>3. StampsOK' /\ SeenOK'
  BY <1>1, <1>2 DEF StampsOK, SeenOK
<1>4. JudgedOK' /\ WritingOK'
  BY <1>1, <1>2 DEF JudgedOK, WritingOK, Expired, TooFarInFuture
<1> QED
  BY <1>3, <1>4

\* Both clocks go on by the same amount.
LEMMA TickWall ==
    ASSUME WInv, Tick
    PROVE  WallOK'
<1>1. /\ boot \in Nat /\ real \in Nat /\ boot' = boot + 1 /\ real' = real + 1
      /\ \A i \in Inodes : minted[i].dur \in Nat /\ files[i].real \in Nat
      /\ \A p \in Procs : basis[p].dur \in Nat /\ seen[p].real \in Nat /\ clk[p].real \in Nat
  BY DEF TypeOK, Tick
<1>2. UNCHANGED <<disk, pc, local>>
  BY DEF Tick
<1>3. StampsOK'
  BY <1>1, <1>2 DEF StampsOK
<1>4. SeenOK'
  BY <1>1, <1>2 DEF SeenOK
<1>5. JudgedOK'
  BY <1>2 DEF JudgedOK, Expired, TooFarInFuture
<1>6. WritingOK'
  BY <1>1, <1>2 DEF WritingOK
<1> QED
  BY <1>3, <1>4, <1>5, <1>6

\* Put forward, the wall clock makes stamps older; put back, it marks them.
LEMMA StepClockWall ==
    ASSUME WInv, NEW s \in WallSteps, StepWallClock(s)
    PROVE  WallOK'
<1>1. /\ boot \in Nat /\ real \in Nat /\ real' \in Nat /\ s \in Int /\ real' = real + s
      /\ \A i \in Inodes : minted[i].dur \in Nat /\ files[i].real \in Nat
      /\ \A p \in Procs : basis[p].dur \in Nat /\ seen[p].real \in Nat /\ clk[p].real \in Nat
  BY DEF TypeOK, StepWallClock
<1>2. UNCHANGED <<files, boot, pc, inv, seen, clk>>
  BY DEF StepWallClock
<1>3. CASE s < 0
  <2>1. /\ \A i \in Inodes : minted'[i].root # "none" => minted'[i].putBack
        /\ \A p \in Procs : /\ basis'[p].root # "none" => basis'[p].putBack
                            /\ basis'[p].root = basis[p].root
                            /\ basis'[p].sameBoot = basis[p].sameBoot
    BY <1>3 DEF TypeOK, StepWallClock
  <2>2. \A p \in Procs : pc[p] \in {"accepted", "toofar", "write"} => basis[p].root # "none"
    BY DEF BasisOK
  <2>3. StampsOK' /\ SeenOK'
    BY <1>2, <2>1 DEF StampsOK, SeenOK
  <2>4. JudgedOK' /\ WritingOK'
    BY <1>2, <2>1, <2>2 DEF JudgedOK, WritingOK, Expired, TooFarInFuture
  <2> QED
    BY <2>3, <2>4
<1>4. CASE ~(s < 0)
  <2>1. /\ \A i \in Inodes : minted'[i] = minted[i]
        /\ \A p \in Procs : basis'[p] = basis[p]
    BY <1>4 DEF StepWallClock
  <2>2. real <= real'
    BY <1>1, <1>4
  <2>3. StampsOK'
    BY <1>1, <1>2, <2>1, <2>2 DEF StampsOK
  <2>4. SeenOK'
    BY <1>1, <1>2, <2>1, <2>2 DEF SeenOK
  <2>5. JudgedOK'
    BY <1>2, <2>1 DEF JudgedOK, Expired, TooFarInFuture
  <2>6. WritingOK'
    BY <1>1, <1>2, <2>1, <2>2 DEF WritingOK
  <2> QED
    BY <2>3, <2>4, <2>5, <2>6
<1> QED
  BY <1>3, <1>4

\* A reboot starts the boot clock from zero, at a time no earlier than any stamp.
LEMMA RebootWall ==
    ASSUME WInv, NEW down \in Downtimes, NEW emptied \in BOOLEAN, Reboot(down, emptied)
    PROVE  WallOK'
<1>1. /\ real \in Nat /\ down \in Nat /\ boot' = 0 /\ real' = real + down
      /\ \A i \in Inodes : minted[i].dur \in Nat /\ files[i].real \in Nat
  BY DEF TypeOK, Reboot
<1>2. /\ files' = files
      /\ \A i \in Inodes : /\ minted'[i].root = minted[i].root /\ minted'[i].dur = minted[i].dur
                           /\ minted'[i].putBack = minted[i].putBack
      /\ \A p \in Procs : pc'[p] = "idle"
  BY DEF TypeOK, Reboot
<1>3. StampsOK'
  BY <1>1, <1>2 DEF StampsOK
<1>4. SeenOK' /\ JudgedOK' /\ WritingOK'
  BY <1>2 DEF SeenOK, JudgedOK, WritingOK
<1> QED
  BY <1>3, <1>4

\* Every step keeps the invariant.
LEMMA NextWall ==
    ASSUME WInv, [Next]_vars
    PROVE  WallOK'
<1>1. ASSUME UNCHANGED vars
      PROVE  WallOK'
  BY <1>1 DEF vars, StampsOK, SeenOK, JudgedOK, WritingOK, Expired, TooFarInFuture
<1>2. ASSUME WorldStep
      PROVE  WallOK'
  BY <1>2, ClearWall, TickWall, StepClockWall, RebootWall DEF WorldStep
<1>3. ASSUME NEW p \in Procs, ProcStep(p)
      PROVE  WallOK'
  <2>1. ASSUME NEW i \in Free, CreateTmp(p, i)
        PROVE  WallOK'
    BY <2>1, CreateStep
  <2>2. ASSUME OpenStep(p)
        PROVE  WallOK'
    BY <2>1, <2>2, PlainStep DEF OpenStep
  <2>3. ASSUME CheckStep(p) \/ SetStep(p)
        PROVE  WallOK'
    BY <2>3, PlainStep, CheckStatStep, BootTimeStep, CheckRealStep, SetRealStep, WriteStep
       DEF CheckStep, SetStep
  <2>4. ASSUME \/ AuthStep(p) \/ Killed(p)
               \/ (\E k \in Keys, g \in Gids, r \in Rules : Start(p, k, g, r))
        PROVE  WallOK'
    BY <2>4, PlainStep
  <2> QED
    BY <1>3, <2>2, <2>3, <2>4 DEF ProcStep
<1> QED
  BY <1>1, <1>2, <1>3 DEF Next

\* What the clocks say of stamps holds for any timeouts, steps and downtimes.
THEOREM WallInvariant == Spec => []WInv
<1>1. Init => WInv
  BY InitInv DEF Init, StampsOK, SeenOK, JudgedOK, WritingOK
<1>2. WInv /\ [Next]_vars => WInv'
  BY NextInv, NextWall
<1> QED
  BY <1>1, <1>2, PTL DEF Spec

\* A user who neither sets clocks nor reboots is never turned away by the check
\* on the future, except by a rule with a shorter timeout.
THEOREM HonestStampsPass == Spec => []HonestStampNotTooFar
<1>1. WInv => HonestStampNotTooFar
  <2> SUFFICES ASSUME WInv, NEW p \in Procs, At(p, "toofar"), basis[p].sameBoot,
                      ~basis[p].putBack
               PROVE  basis[p].dur > timeout(p)
    BY DEF HonestStampNotTooFar
  <2>1. /\ seen[p].boot \in Nat /\ seen[p].real \in Nat /\ basis[p].dur \in Nat
        /\ clk[p].boot \in Nat /\ clk[p].real \in Nat /\ timeout(p) \in Nat
    BY DEF TypeOK
  <2>2. seen[p].boot <= clk[p].boot + basis[p].dur
    BY DEF TimesOK
  <2>3. seen[p].real <= clk[p].real + basis[p].dur
    BY DEF JudgedOK
  <2>4. \/ seen[p].boot > clk[p].boot + timeout(p)
        \/ seen[p].real > clk[p].real + timeout(p)
    BY DEF JudgedOK, TooFarInFuture
  <2> QED
    BY <2>1, <2>2, <2>3, <2>4
<1> QED
  BY <1>1, WallInvariant, PTL

\* The window in which a stamp of an earlier boot is accepted (timestamp.rs:24-36).
THEOREM RebootsAreBounded == Spec => []RebootWindow
<1>1. WInv => RebootWindow
  <2> SUFFICES ASSUME WInv, NEW p \in Procs, At(p, "accepted"), ~basis[p].sameBoot,
                      ~basis[p].putBack
               PROVE  LET M == seen[p].boot - basis[p].dur
                          typedAt == seen[p].real - basis[p].dur
                      IN  /\ M <= timeout(p)
                          /\ M + basis[p].dur <= clk[p].boot + timeout(p)
                          /\ clk[p].real - typedAt <= basis[p].dur
                          /\ clk[p].boot <= clk[p].real - typedAt
    BY DEF RebootWindow
  <2>1. /\ seen[p].boot \in Nat /\ seen[p].real \in Nat /\ basis[p].dur \in Nat
        /\ clk[p].boot \in Nat /\ clk[p].real \in Nat /\ timeout(p) \in Nat
    BY DEF TypeOK
  <2>2. clk[p].boot + seen[p].real <= clk[p].real + basis[p].dur
    BY DEF JudgedOK
  <2>3. /\ ~(seen[p].boot < clk[p].boot) /\ ~(seen[p].real < clk[p].real)
        /\ ~(seen[p].boot > clk[p].boot + timeout(p))
    BY DEF JudgedOK, Expired, TooFarInFuture
  <2> QED
    BY <2>1, <2>2, <2>3
<1> QED
  BY <1>1, WallInvariant, PTL

----------------------------------------------------------------------------
\* Chains of renewals.  No rule has both nopass and persist.
Separate == \A r \in Rules : ~(r.nopass /\ r.persist)

\* No stamp and no run goes back to nopass.
RootOK ==
    /\ \A i \in Inodes : minted[i].root # "nopass"
    /\ \A p \in Procs : basis[p].root # "nopass"

\* Unless the rules mix nopass and persist, all roots are passwords.
LEMMA NextRoot ==
    ASSUME IInv, RootOK, Separate, [Next]_vars
    PROVE  RootOK'
<1>1. CASE UNCHANGED vars
  BY <1>1 DEF vars, RootOK
<1>2. CASE WorldStep
  <2>1. /\ \A i \in Inodes : minted'[i].root = minted[i].root
        /\ \A p \in Procs : basis'[p].root \in {basis[p].root, "none"}
    BY <1>2 DEF TypeOK, WorldStep, Clear, Tick, StepWallClock, Reboot
  <2> QED
    BY <2>1 DEF RootOK
<1>3. ASSUME NEW p \in Procs, ProcStep(p)
      PROVE  RootOK'
  <2>1. CASE AcceptNopass(p)
    <3>1. rule(p) \in Rules /\ (fd[p] # NoFile => rule(p).persist)
      BY <2>1 DEF InvOK, FdOK, AcceptNopass
    <3>2. Gone(p) /\ minted' = minted
      BY <2>1, <3>1 DEF Separate, AcceptNopass, Granted
    <3> QED
      BY <3>2 DEF TypeOK, RootOK, Gone
  <2>2. CASE Authenticate(p)
    <3>1. \A q \in Procs : basis'[q] \in {basis[q], NoMint, Fresh(p, "password")}
      BY <2>2 DEF TypeOK, Authenticate, Granted, Gone
    <3>2. minted' = minted
      BY <2>2 DEF Authenticate, Granted
    <3> QED
      BY <3>1, <3>2 DEF RootOK, Fresh
  <2>3. CASE CheckStat(p)
    <3>1. fd[p] \in Inodes
      BY <2>3 DEF TypeOK, FdOK, CheckStat
    <3>2. \A q \in Procs : basis'[q] \in {basis[q], minted[fd[p]]}
      BY <2>3 DEF TypeOK, CheckStat
    <3> QED
      BY <2>3, <3>1, <3>2 DEF RootOK, CheckStat
  <2>4. CASE SetBootTime(p)
    <3>1. \A q \in Procs : basis'[q].root = basis[q].root
      BY <2>4 DEF TypeOK, SetBootTime
    <3> QED
      BY <2>4, <3>1 DEF RootOK, SetBootTime
  <2>5. CASE WriteStamp(p)
    <3>1. \A i \in Inodes : minted'[i] \in {minted[i], basis[p]}
      BY <2>5 DEF TypeOK, WriteStamp
    <3>2. \A q \in Procs : basis'[q] \in {basis[q], NoMint}
      BY <2>5 DEF TypeOK, WriteStamp, Gone
    <3> QED
      BY <3>1, <3>2 DEF RootOK
  <2>6. ASSUME NEW i \in Free, CreateTmp(p, i)
        PROVE  RootOK'
    <3>1. \A j \in Inodes : minted'[j] \in {minted[j], NoMint}
      BY <2>6 DEF TypeOK, CreateTmp
    <3> QED
      BY <2>6, <3>1 DEF RootOK, CreateTmp
  <2>7. CASE /\ ~AcceptNopass(p) /\ ~Authenticate(p) /\ ~CheckStat(p) /\ ~SetBootTime(p)
             /\ ~WriteStamp(p) /\ ~\E i \in Free : CreateTmp(p, i)
    <3>1. minted' = minted
      BY <1>3, <2>7 DEF ProcStep, OpenStep, CheckStep, AuthStep, SetStep, Start, StatDir,
         MkDir, OpenPath, OpenFails, CheckOwner, CreateFails, SetEpoch, ChownTmp, Publish,
         PublishFails, RemoveTmp, CheckBootTime, CheckRealTime, CheckFails, AcceptPersist,
         AuthFails, SetRealTime, WriteFails, Killed
    <3>2. \A q \in Procs : basis'[q] \in {basis[q], NoMint}
      BY <1>3, <2>7 DEF TypeOK, ProcStep, OpenStep, CheckStep, AuthStep, SetStep, Start,
         StatDir, MkDir, OpenPath, OpenFails, CheckOwner, CreateFails, SetEpoch, ChownTmp,
         Publish, PublishFails, RemoveTmp, CheckBootTime, CheckRealTime, CheckFails,
         AcceptPersist, AuthFails, SetRealTime, WriteFails, Killed, Gone
    <3> QED
      BY <3>1, <3>2 DEF RootOK
  <2> QED
    BY <1>3, <2>1, <2>2, <2>3, <2>4, <2>5, <2>6, <2>7
<1> QED
  BY <1>1, <1>2, <1>3 DEF Next

\* However often a stamp was renewed, there was a password at first, unless a
\* rule has both nopass and persist.
THEOREM RenewalsGoBackToPassword == Spec => []PasswordRoot
<1> DEFINE RInv == IInv /\ (Separate => RootOK)
<1>1. Init => RInv
  BY InitInv DEF Init, RootOK
<1>2. RInv /\ [Next]_vars => RInv'
  BY NextInv, NextRoot DEF Separate
<1>3. RInv => PasswordRoot
  <2> SUFFICES ASSUME RInv, Separate, NEW p \in Procs, At(p, "accepted")
               PROVE  basis[p].root = "password"
    BY DEF PasswordRoot, Separate
  <2>1. basis[p].root \in {"none", "password", "nopass"} /\ basis[p].root # "none"
    BY DEF TypeOK, BasisOK
  <2> QED
    BY <2>1 DEF RootOK
<1> HIDE DEF RInv
<1> QED
  BY <1>1, <1>2, <1>3, PTL DEF Spec
=============================================================================
