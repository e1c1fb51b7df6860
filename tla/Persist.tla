------------------------------ MODULE Persist ------------------------------
(***************************************************************************)
(* The "persist" time stamps of doas: timestamp.rs, and the part of        *)
(* main.rs that decides whether the user has to type a password.           *)
(*                                                                         *)
(* Several doas processes and `doas -L` work on the files of /var/run/doas *)
(* at the same time.  One action is one system call of one process, so     *)
(* every interleaving of their calls, a process that dies between two      *)
(* calls, a wall clock that is set and a reboot are behaviours.            *)
(*                                                                         *)
(* A time stamp file stores two expiry times: atime on the boot clock,     *)
(* mtime on the wall clock.  `minted` and `basis` are history variables    *)
(* (no guard reads them): they remember why a stamp was written and what   *)
(* a granted invocation rests on.                                          *)
(***************************************************************************)
EXTENDS Integers

CONSTANTS
    Procs,       \* process ids of doas processes
    Keys,        \* ppid-sid-tty-start_time-uid tuples: the names of stamp files
    Gids,        \* real group ids of callers
    Rules,       \* options of the rule permit() returned
    Inodes,      \* inodes of the file system of /var/run/doas
    NoKey, NoFile,
    DirGid,      \* the group the kernel gives a file before fchown
    WallSteps,   \* by how much an administrator may step the wall clock
    Downtimes,   \* how long the machine may be down ({}: it is never rebooted)
    MaxBoot,     \* bound on the boot clock
    MaxReal      \* bound on the wall clock

NoRule == [persist |-> FALSE, timeout |-> 0, nopass |-> FALSE]

ASSUME RulesAssumption ==
    Rules \subseteq [persist : BOOLEAN, timeout : Nat, nopass : BOOLEAN]
ASSUME ClockAssumption ==
    /\ WallSteps \subseteq Int /\ Downtimes \subseteq Nat
    /\ MaxBoot \in Nat /\ MaxReal \in Nat
ASSUME NamesAssumption ==
    NoKey \notin Keys /\ NoFile \notin Inodes /\ DirGid \notin Gids

VARIABLES
    dir,      \* /var/run/doas: "missing", "ok", or "bad" (not root's, not 0700)
    path,     \* path[k]: the inode linked under the name of key k
    tmp,      \* tmp[p]: the inode linked as .tmp-<p>
    files,    \* group and the two stored times of every inode
    boot,     \* the boot clock
    real,     \* the wall clock
    pc, inv,  \* phase of a process; its key, group and matching rule
    fd,       \* the time stamp file a process holds open
    seen,     \* the two times check() read from that file
    clk,      \* the two clocks as the process read them
    minted,   \* history: how the stamp of an inode came about
    basis     \* history: what the authorisation of a process rests on

disk   == <<dir, path, tmp, files, minted>>
clocks == <<boot, real>>
local  == <<inv, fd, seen, clk, basis>>
vars   == <<disk, clocks, pc, local>>

NoTimes == [boot |-> 0, real |-> 0]
NoInv   == [key |-> NoKey, gid |-> DirGid, rule |-> NoRule]

(***************************************************************************)
(* History of a stamp or of an authorisation:                              *)
(*   root      "password", "nopass", or "none" when there is no stamp      *)
(*   key, dur  session and timeout it was written for                      *)
(*   sameBoot  no reboot happened since                                    *)
(*   putBack   the wall clock was put back since its boot time was read    *)
(*   revoked   `doas -L` ran for the session since the password was typed  *)
(***************************************************************************)
Mint(root, k, dur, sameBoot, putBack, revoked) ==
    [root |-> root, key |-> k, dur |-> dur,
     sameBoot |-> sameBoot, putBack |-> putBack, revoked |-> revoked]

NoMint == Mint("none", NoKey, 0, TRUE, FALSE, FALSE)

Revoked(m) == Mint(m.root, m.key, m.dur, m.sameBoot, m.putBack, TRUE)
PutBack(m) == Mint(m.root, m.key, m.dur, m.sameBoot, m.root # "none", m.revoked)
Aged(m)    == Mint(m.root, m.key, m.dur, m.root = "none", m.putBack, m.revoked)

key(p)     == inv[p].key
rule(p)    == inv[p].rule
timeout(p) == inv[p].rule.timeout

Linked == {path[k] : k \in Keys} \cup {tmp[p] : p \in Procs}
Free   == Inodes \ (Linked \cup {fd[p] : p \in Procs})

At(p, label) == pc[p] = label
Goto(p, label) == pc' = [pc EXCEPT ![p] = label]

Fresh(p, root) == Mint(root, key(p), timeout(p), TRUE, FALSE, FALSE)

Init ==
    /\ dir \in {"missing", "ok", "bad"}
    /\ path = [k \in Keys |-> NoFile]
    /\ tmp = [p \in Procs |-> NoFile]
    /\ files = [i \in Inodes |-> [gid |-> DirGid, boot |-> 0, real |-> 0]]
    /\ minted = [i \in Inodes |-> NoMint]
    /\ boot = 0
    /\ real = 0
    /\ pc = [p \in Procs |-> "idle"]
    /\ inv = [p \in Procs |-> NoInv]
    /\ fd = [p \in Procs |-> NoFile]
    /\ seen = [p \in Procs |-> NoTimes]
    /\ clk = [p \in Procs |-> NoTimes]
    /\ basis = [p \in Procs |-> NoMint]

----------------------------------------------------------------------------
\* The process comes and goes.

\* Mutant: a stamp is opened, and later renewed, for a rule without persist too.
Start_AlwaysOpens(p, k, g, r) ==
    /\ At(p, "idle")
    /\ inv' = [inv EXCEPT ![p] = [key |-> k, gid |-> g, rule |-> r]]
    /\ Goto(p, "dir")
    /\ UNCHANGED <<disk, clocks, fd, seen, clk, basis>>

\* main.rs up to permit(): the rule is known, no time stamp touched yet.
Start(p, k, g, r) ==
    /\ At(p, "idle")
    /\ inv' = [inv EXCEPT ![p] = [key |-> k, gid |-> g, rule |-> r]]
    /\ Goto(p, IF r.persist THEN "dir" ELSE "refused")
    /\ UNCHANGED <<disk, clocks, fd, seen, clk, basis>>

\* Of a process that ends, or that execs the command (the stamp file is
\* close-on-exec), nothing remains here but a .tmp-<pid> it may have left.
Gone(p) ==
    /\ Goto(p, "idle")
    /\ inv' = [inv EXCEPT ![p] = NoInv]
    /\ fd' = [fd EXCEPT ![p] = NoFile]
    /\ seen' = [seen EXCEPT ![p] = NoTimes]
    /\ clk' = [clk EXCEPT ![p] = NoTimes]
    /\ basis' = [basis EXCEPT ![p] = NoMint]

Killed(p) == ~At(p, "idle") /\ Gone(p) /\ UNCHANGED <<disk, clocks>>

----------------------------------------------------------------------------
\* timestamp::open

\* open() returned Err: no persist_file, and so no password-free run.
NoPersistFile(p) ==
    /\ Goto(p, "refused")
    /\ fd' = [fd EXCEPT ![p] = NoFile]

StatDir(p) ==
    /\ At(p, "dir")
    /\ Goto(p, IF dir = "ok" THEN "path" ELSE IF dir = "missing" THEN "mkdir" ELSE "refused")
    /\ UNCHANGED <<disk, clocks, local>>

\* mkdir fails with EEXIST when another doas was faster.
MkDir(p) ==
    /\ At(p, "mkdir")
    /\ dir' = IF dir = "missing" THEN "ok" ELSE dir
    /\ Goto(p, IF dir = "missing" THEN "path" ELSE "refused")
    /\ UNCHANGED <<path, tmp, files, minted, clocks, local>>

\* get_path() or open() fails for a reason other than NotFound.
OpenFails(p) ==
    /\ At(p, "path")
    /\ NoPersistFile(p)
    /\ UNCHANGED <<disk, clocks, inv, seen, clk, basis>>

\* Mutant: the name of the file does not tell sessions apart.
OpenPath_AnySession(p) ==
    /\ At(p, "path")
    /\ \E k \in Keys :
          /\ fd' = [fd EXCEPT ![p] = path[k]]
          /\ Goto(p, IF path[k] = NoFile THEN "create" ELSE "owner")
    /\ UNCHANGED <<disk, clocks, inv, seen, clk, basis>>

OpenPath(p) ==
    /\ At(p, "path")
    /\ fd' = [fd EXCEPT ![p] = path[key(p)]]
    /\ Goto(p, IF path[key(p)] = NoFile THEN "create" ELSE "owner")
    /\ UNCHANGED <<disk, clocks, inv, seen, clk, basis>>

OwnedBy(p) == files[fd[p]].gid = inv[p].gid

\* The check() inside open(): only its error, wrong group, has an effect.
CheckOwner(p) ==
    /\ At(p, "owner")
    /\ IF OwnedBy(p) THEN Goto(p, "check") /\ UNCHANGED fd
                     ELSE NoPersistFile(p)
    /\ UNCHANGED <<disk, clocks, inv, seen, clk, basis>>

\* create_new: a new file carries the wall time twice.
CreateTmp(p, i) ==
    /\ At(p, "create")
    /\ tmp[p] = NoFile
    /\ tmp' = [tmp EXCEPT ![p] = i]
    /\ fd' = [fd EXCEPT ![p] = i]
    /\ files' = [files EXCEPT ![i] = [gid |-> DirGid, boot |-> real, real |-> real]]
    /\ minted' = [minted EXCEPT ![i] = NoMint]
    /\ Goto(p, "epoch")
    /\ UNCHANGED <<dir, path, clocks, inv, seen, clk, basis>>

\* create_new refuses a .tmp-<pid> left by a dead process, or fails otherwise.
CreateFails(p) ==
    /\ At(p, "create")
    /\ NoPersistFile(p)
    /\ UNCHANGED <<disk, clocks, inv, seen, clk, basis>>

\* Mutant: the times of creation stay.
SetEpoch_Skipped(p) ==
    /\ At(p, "epoch")
    /\ Goto(p, "chown")
    /\ UNCHANGED <<disk, clocks, local>>

SetEpoch(p) ==
    /\ At(p, "epoch")
    /\ files' = [files EXCEPT ![fd[p]] = [gid |-> files[fd[p]].gid, boot |-> 0, real |-> 0]]
    /\ Goto(p, "chown")
    /\ UNCHANGED <<dir, path, tmp, minted, clocks, local>>

ChownTmp(p) ==
    /\ At(p, "chown")
    /\ LET f == files[fd[p]]
       IN  files' = [files EXCEPT ![fd[p]] =
                        [gid |-> inv[p].gid, boot |-> f.boot, real |-> f.real]]
    /\ Goto(p, "publish")
    /\ UNCHANGED <<dir, path, tmp, minted, clocks, local>>

\* rename replaces a file that another process published in the meantime.
Publish(p) ==
    /\ At(p, "publish")
    /\ path' = [path EXCEPT ![key(p)] = tmp[p]]
    /\ tmp' = [tmp EXCEPT ![p] = NoFile]
    /\ Goto(p, "check")
    /\ UNCHANGED <<dir, files, minted, clocks, local>>

\* set_times, fchown or rename failed.
PublishFails(p) ==
    /\ pc[p] \in {"epoch", "chown", "publish"}
    /\ Goto(p, "undo")
    /\ UNCHANGED <<disk, clocks, local>>

\* `let _ = remove_file`: it may fail too.
RemoveTmp(p) ==
    /\ At(p, "undo")
    /\ tmp' \in {tmp, [tmp EXCEPT ![p] = NoFile]}
    /\ NoPersistFile(p)
    /\ UNCHANGED <<dir, path, files, minted, clocks, inv, seen, clk, basis>>

----------------------------------------------------------------------------
\* timestamp::check, as main.rs calls it on the open file

\* Mutant: a stamp that was never set is not told apart.
IsSet_Always(t) == TRUE

IsSet(t) == t.boot # 0 /\ t.real # 0

\* Mutant: the boot clock is not looked at.
Expired_WallOnly(t, now) == t.real < now.real

Expired(t, now) == t.boot < now.boot \/ t.real < now.real

\* Mutant: only the wall clock is checked for expiry times too far ahead.
TooFar_WallOnly(t, now, dur) == t.real > now.real + dur

\* Mutant: off by one at the end of the window.
TooFar_Closed(t, now, dur) ==
    t.boot >= now.boot + dur \/ t.real >= now.real + dur

TooFarInFuture(t, now, dur) ==
    t.boot > now.boot + dur \/ t.real > now.real + dur

\* fstat; the stamp must belong to the caller's group and must have been set.
CheckStat(p) ==
    /\ At(p, "check")
    /\ LET f == files[fd[p]]
           t == [boot |-> f.boot, real |-> f.real]
       IN  IF OwnedBy(p) /\ IsSet(t)
           THEN /\ seen' = [seen EXCEPT ![p] = t]
                /\ basis' = [basis EXCEPT ![p] = minted[fd[p]]]
                /\ Goto(p, "boottime")
           ELSE Goto(p, "refused") /\ UNCHANGED <<seen, basis>>
    /\ UNCHANGED <<disk, clocks, inv, fd, clk>>

CheckBootTime(p) ==
    /\ At(p, "boottime")
    /\ clk' = [clk EXCEPT ![p] = [boot |-> boot, real |-> 0]]
    /\ Goto(p, "realtime")
    /\ UNCHANGED <<disk, clocks, inv, fd, seen, basis>>

\* The second clock is read, and the answer follows from what was read.
CheckRealTime(p) ==
    /\ At(p, "realtime")
    /\ clk' = [clk EXCEPT ![p] = [boot |-> clk[p].boot, real |-> real]]
    /\ LET now == [boot |-> clk[p].boot, real |-> real]
       IN  Goto(p, IF Expired(seen[p], now) THEN "refused"
                   ELSE IF TooFarInFuture(seen[p], now, timeout(p)) THEN "toofar"
                   ELSE "accepted")
    /\ UNCHANGED <<disk, clocks, inv, fd, seen, basis>>

\* fstat or clock_gettime fails: no error, but no password-free run either.
CheckFails(p) ==
    /\ pc[p] \in {"check", "boottime", "realtime"}
    /\ Goto(p, "refused")
    /\ UNCHANGED <<disk, clocks, local>>

----------------------------------------------------------------------------
\* main.rs: authentication, and timestamp::set

\* The locals of check() are gone.
Returned(p) ==
    /\ seen' = [seen EXCEPT ![p] = NoTimes]
    /\ clk' = [clk EXCEPT ![p] = NoTimes]

\* No persist_file: the command runs at once; else its stamp is renewed first.
Granted(p, root) ==
    /\ IF fd[p] = NoFile
       THEN Gone(p)
       ELSE /\ basis' = [basis EXCEPT ![p] = Fresh(p, root)]
            /\ Goto(p, "setboot")
            /\ Returned(p)
            /\ UNCHANGED <<inv, fd>>
    /\ UNCHANGED <<disk, clocks>>

AcceptPersist(p) ==
    /\ At(p, "accepted")
    /\ Goto(p, "setboot")
    /\ Returned(p)
    /\ UNCHANGED <<disk, clocks, inv, fd, basis>>

AcceptNopass(p) ==
    /\ pc[p] \in {"refused", "toofar"}
    /\ rule(p).nopass
    /\ Granted(p, "nopass")

\* verify::auth succeeds; it may take long.
Authenticate(p) ==
    /\ pc[p] \in {"refused", "toofar"}
    /\ ~rule(p).nopass
    /\ Granted(p, "password")

\* `-n`, or every attempt of verify::auth failed.
AuthFails(p) ==
    /\ pc[p] \in {"refused", "toofar"}
    /\ ~rule(p).nopass
    /\ Gone(p)
    /\ UNCHANGED <<disk, clocks>>

SetBootTime(p) ==
    /\ At(p, "setboot")
    /\ clk' = [clk EXCEPT ![p] = [boot |-> boot, real |-> 0]]
    /\ basis' = [basis EXCEPT ![p] = Mint(basis[p].root, key(p), timeout(p), TRUE,
                                         FALSE, basis[p].revoked)]
    /\ Goto(p, "setreal")
    /\ UNCHANGED <<disk, clocks, inv, fd, seen>>

SetRealTime(p) ==
    /\ At(p, "setreal")
    /\ clk' = [clk EXCEPT ![p] = [boot |-> clk[p].boot, real |-> real]]
    /\ Goto(p, "write")
    /\ UNCHANGED <<disk, clocks, inv, fd, seen, basis>>

\* Mutant: the timeout is taken off.
Expiry_Past(p) == [boot |-> clk[p].boot - timeout(p), real |-> clk[p].real - timeout(p)]

Expiry(p) == [boot |-> clk[p].boot + timeout(p), real |-> clk[p].real + timeout(p)]

\* Mutant: the stamp is written by name, not through the descriptor.
WriteStamp_ByName(p) ==
    /\ At(p, "write")
    /\ LET i == path[key(p)]
       IN  IF i = NoFile THEN UNCHANGED <<files, minted>>
           ELSE /\ files' = [files EXCEPT ![i] = [gid |-> files[i].gid,
                                boot |-> Expiry(p).boot, real |-> Expiry(p).real]]
                /\ minted' = [minted EXCEPT ![i] = basis[p]]
    /\ Gone(p)
    /\ UNCHANGED <<dir, path, tmp, clocks>>

\* futimens on the open file, whatever its name refers to by now.
WriteStamp(p) ==
    /\ At(p, "write")
    /\ files' = [files EXCEPT ![fd[p]] = [gid |-> files[fd[p]].gid,
                                          boot |-> Expiry(p).boot, real |-> Expiry(p).real]]
    /\ minted' = [minted EXCEPT ![fd[p]] = basis[p]]
    /\ Gone(p)
    /\ UNCHANGED <<dir, path, tmp, clocks>>

\* `let _ = timestamp::set`: the command runs all the same.
WriteFails(p) ==
    /\ pc[p] \in {"setboot", "setreal", "write"}
    /\ Gone(p)
    /\ UNCHANGED <<disk, clocks>>

----------------------------------------------------------------------------
\* doas -L, the clocks, the machine

Clear(k) ==
    /\ path' = [path EXCEPT ![k] = NoFile]
    /\ minted' = [i \in Inodes |->
                    IF minted[i].key = k THEN Revoked(minted[i]) ELSE minted[i]]
    /\ basis' = [p \in Procs |->
                    IF basis[p].key = k THEN Revoked(basis[p]) ELSE basis[p]]
    /\ UNCHANGED <<dir, tmp, files, clocks, pc, inv, fd, seen, clk>>

Tick ==
    /\ boot < MaxBoot /\ real < MaxReal
    /\ boot' = boot + 1
    /\ real' = real + 1
    /\ UNCHANGED <<disk, pc, local>>

StepWallClock(s) ==
    /\ real + s \in 0..MaxReal
    /\ real' = real + s
    /\ minted' = [i \in Inodes |-> IF s < 0 THEN PutBack(minted[i]) ELSE minted[i]]
    /\ basis' = [p \in Procs |-> IF s < 0 THEN PutBack(basis[p]) ELSE basis[p]]
    /\ UNCHANGED <<dir, path, tmp, files, boot, pc, inv, fd, seen, clk>>

\* The boot clock restarts, the wall clock went on for `down` meanwhile.
\* /var/run is kept or emptied.
Reboot(down, emptied) ==
    /\ real + down <= MaxReal
    /\ boot' = 0
    /\ real' = real + down
    /\ IF emptied
       THEN /\ dir' = "missing"
            /\ path' = [k \in Keys |-> NoFile]
            /\ tmp' = [p \in Procs |-> NoFile]
       ELSE UNCHANGED <<dir, path, tmp>>
    /\ minted' = [i \in Inodes |-> Aged(minted[i])]
    /\ pc' = [p \in Procs |-> "idle"]
    /\ inv' = [p \in Procs |-> NoInv]
    /\ fd' = [p \in Procs |-> NoFile]
    /\ seen' = [p \in Procs |-> NoTimes]
    /\ clk' = [p \in Procs |-> NoTimes]
    /\ basis' = [p \in Procs |-> NoMint]
    /\ UNCHANGED files

----------------------------------------------------------------------------
OpenStep(p) ==
    \/ StatDir(p) \/ MkDir(p) \/ OpenPath(p) \/ OpenFails(p) \/ CheckOwner(p)
    \/ \E i \in Free : CreateTmp(p, i)
    \/ CreateFails(p) \/ SetEpoch(p) \/ ChownTmp(p) \/ Publish(p)
    \/ PublishFails(p) \/ RemoveTmp(p)

CheckStep(p) ==
    CheckStat(p) \/ CheckBootTime(p) \/ CheckRealTime(p) \/ CheckFails(p)

AuthStep(p) ==
    \/ AcceptPersist(p) \/ AcceptNopass(p) \/ Authenticate(p) \/ AuthFails(p)

SetStep(p) == SetBootTime(p) \/ SetRealTime(p) \/ WriteStamp(p) \/ WriteFails(p)

ProcStep(p) ==
    \/ \E k \in Keys, g \in Gids, r \in Rules : Start(p, k, g, r)
    \/ OpenStep(p) \/ CheckStep(p) \/ AuthStep(p) \/ SetStep(p)
    \/ Killed(p)

WorldStep ==
    \/ \E k \in Keys : Clear(k)
    \/ Tick
    \/ \E s \in WallSteps : StepWallClock(s)
    \/ \E down \in Downtimes, emptied \in BOOLEAN : Reboot(down, emptied)

Next == WorldStep \/ \E p \in Procs : ProcStep(p)

Spec == Init /\ [][Next]_vars

----------------------------------------------------------------------------
Labels == {"idle", "dir", "mkdir", "path", "owner", "create", "epoch", "chown",
           "publish", "undo", "check", "boottime", "realtime", "accepted",
           "refused", "toofar", "setboot", "setreal", "write"}

Mints == [root : {"none", "password", "nopass"}, key : Keys \cup {NoKey}, dur : Nat,
          sameBoot : BOOLEAN, putBack : BOOLEAN, revoked : BOOLEAN]

\* Every variable keeps its shape; both clocks stay within their bounds.
TypeOK ==
    /\ dir \in {"missing", "ok", "bad"}
    /\ path \in [Keys -> Inodes \cup {NoFile}]
    /\ tmp \in [Procs -> Inodes \cup {NoFile}]
    /\ files \in [Inodes -> [gid : Gids \cup {DirGid}, boot : Nat, real : Nat]]
    /\ minted \in [Inodes -> Mints]
    /\ boot \in 0..MaxBoot /\ real \in 0..MaxReal
    /\ pc \in [Procs -> Labels]
    /\ inv \in [Procs -> [key : Keys \cup {NoKey}, gid : Gids \cup {DirGid},
                          rule : Rules \cup {NoRule}]]
    /\ fd \in [Procs -> Inodes \cup {NoFile}]
    /\ seen \in [Procs -> [boot : Nat, real : Nat]]
    /\ clk \in [Procs -> [boot : 0..MaxBoot, real : 0..MaxReal]]
    /\ basis \in [Procs -> Mints]

\* "we use temp file here, to avoid the file being used before setting correct
\* timestamp" (timestamp.rs:249): whatever a name in /var/run/doas refers to
\* has been given its group, and carries either a stamp written for the session
\* of that name or the epoch, never the times it was created with.
LinkedFilesReady ==
    \A k \in Keys : path[k] # NoFile =>
        LET i == path[k]
        IN  /\ files[i].gid \in Gids
            /\ IF minted[i].root = "none"
               THEN files[i].boot = 0 /\ files[i].real = 0
               ELSE minted[i].key = k

\* A stamp that lets a process skip the password was written for its session,
\* by an invocation that was itself authorised, and, since the last boot, at
\* most the granted timeout ago: setting the wall clock gains nothing.
PassIsEarned ==
    \A p \in Procs : At(p, "accepted") =>
        /\ basis[p].root # "none"
        /\ basis[p].key = key(p)
        /\ basis[p].sameBoot =>
              LET mintedAt == seen[p].boot - basis[p].dur
              IN  mintedAt <= clk[p].boot /\ clk[p].boot <= mintedAt + basis[p].dur

\* The claim of timestamp.rs:24-36.  Unless the wall clock is put back, a stamp
\* of an earlier boot is accepted only if it was written at a boot time M no
\* later than the timeout of the rule, after waiting for the boot clock to come
\* so far again, and with downtime and waiting together within its timeout.
RebootWindow ==
    \A p \in Procs : At(p, "accepted") /\ ~basis[p].sameBoot /\ ~basis[p].putBack =>
        LET M == seen[p].boot - basis[p].dur
            typedAt == seen[p].real - basis[p].dur
        IN  /\ M <= timeout(p)
            /\ M + basis[p].dur <= clk[p].boot + timeout(p)
            /\ clk[p].real - typedAt <= basis[p].dur
            /\ clk[p].boot <= clk[p].real - typedAt

\* Once `doas -L` ran, no name refers to a stamp that goes back to an
\* authentication before it, not even one written by a process that had been
\* authenticated, or had passed its check, when the file was removed.
ClearRevokes ==
    \A k \in Keys : path[k] # NoFile => ~minted[path[k]].revoked

\* However often a stamp is renewed: unless some rule says both nopass and
\* persist, a run without a password goes back to a password.
PasswordRoot ==
    (\A r \in Rules : ~(r.nopass /\ r.persist)) =>
        \A p \in Procs : At(p, "accepted") => basis[p].root = "password"

\* The "too far in the future" check is aimed at stamps of an earlier boot and
\* at tampered clocks; a user who has neither is never turned away by it,
\* unless the rule matched now has a shorter timeout than the one that wrote
\* the stamp.
HonestStampNotTooFar ==
    \A p \in Procs : At(p, "toofar") =>
        ~basis[p].sameBoot \/ basis[p].putBack \/ basis[p].dur > timeout(p)
============================================================================
