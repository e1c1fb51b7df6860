----------------------------- MODULE PersistInv -----------------------------
(***************************************************************************)
(* The inductive invariant behind the safety properties of Persist.        *)
(***************************************************************************)
EXTENDS Persist

\* Phases in which a process has no stamp file, is making one under its
\* temporary name, or holds one that it opened or published.
NoFilePhases == {"idle", "dir", "mkdir", "path", "create"}
TmpPhases    == {"epoch", "chown", "publish", "undo"}
OpenPhases   == {"owner", "check", "boottime", "realtime", "accepted", "toofar",
                 "setboot", "setreal", "write"}
SeenPhases   == {"boottime", "realtime", "accepted", "toofar"}
GrantPhases  == {"accepted", "setboot", "setreal", "write"}

\* The file a process holds, if any, is the published kind.
HoldsOpen(p) == fd[p] # NoFile /\ pc[p] \notin TmpPhases

\* No stamp, and no authorisation.
Blank(m) == m.root = "none" /\ m.key = NoKey /\ ~m.revoked

\* A process that started runs for some session, and one that looks for a
\* stamp does so for a persist rule.
InvOK ==
    \A p \in Procs :
        /\ ~At(p, "idle") => key(p) \in Keys /\ inv[p].gid \in Gids /\ rule(p) \in Rules
        /\ pc[p] \notin {"idle", "refused"} => rule(p).persist

\* Which phases hold a file, and where it is linked while it is being made.
FdOK ==
    \A p \in Procs :
        /\ pc[p] \in NoFilePhases => fd[p] = NoFile
        /\ pc[p] \in OpenPhases => fd[p] # NoFile
        /\ pc[p] \in TmpPhases => fd[p] # NoFile /\ tmp[p] = fd[p]
        /\ fd[p] # NoFile => rule(p).persist

\* No inode has two names, and one with a temporary name is held by nobody but
\* its maker.
NamesOK ==
    /\ \A k, l \in Keys : path[k] = path[l] /\ path[k] # NoFile => k = l
    /\ \A p, q \in Procs : tmp[p] = tmp[q] /\ tmp[p] # NoFile => p = q
    /\ \A k \in Keys, p \in Procs : path[k] = tmp[p] => path[k] = NoFile
    /\ \A p, q \in Procs : fd[q] = tmp[p] /\ fd[q] # NoFile => p = q /\ pc[p] \in TmpPhases

\* An inode belongs to one session for as long as anybody can reach it.
SessionOK ==
    /\ \A p \in Procs, k \in Keys : HoldsOpen(p) /\ path[k] = fd[p] => k = key(p)
    /\ \A p, q \in Procs : HoldsOpen(p) /\ fd[q] = fd[p] => key(q) = key(p)
    /\ \A p \in Procs : HoldsOpen(p) /\ minted[fd[p]].root # "none" =>
                            minted[fd[p]].key = key(p)

\* A file that can be reached other than by its maker has its group, and, until
\* a stamp is written into it, the epoch.
Ready(i) ==
    /\ files[i].gid \in Gids
    /\ minted[i].root = "none" =>
          Blank(minted[i]) /\ files[i].boot = 0 /\ files[i].real = 0

PublishedOK ==
    \A k \in Keys : path[k] # NoFile =>
        /\ Ready(path[k])
        /\ minted[path[k]].root # "none" => minted[path[k]].key = k

HeldOK == \A p \in Procs : HoldsOpen(p) => Ready(fd[p])

\* The stages a file goes through under its temporary name.
TmpOK ==
    \A p \in Procs :
        /\ tmp[p] # NoFile => Blank(minted[tmp[p]])
        /\ pc[p] \in {"chown", "publish"} => files[fd[p]].boot = 0 /\ files[fd[p]].real = 0
        /\ At(p, "publish") => files[fd[p]].gid \in Gids

\* Boot times on record lie in the past.
TimesOK ==
    /\ \A i \in Inodes : minted[i].root # "none" /\ minted[i].sameBoot =>
            files[i].boot <= boot + minted[i].dur
    /\ \A p \in Procs : clk[p].boot <= boot
    /\ \A p \in Procs : pc[p] \in SeenPhases /\ basis[p].sameBoot =>
            seen[p].boot <= boot + basis[p].dur
    /\ \A p \in Procs : pc[p] \in {"realtime", "accepted", "toofar"} /\ basis[p].sameBoot =>
            seen[p].boot <= clk[p].boot + basis[p].dur
    /\ \A p \in Procs : At(p, "accepted") => clk[p].boot <= seen[p].boot

\* What a process is authorised by.
BasisOK ==
    \A p \in Procs :
        /\ Blank(basis[p]) \/ basis[p].key = key(p)
        /\ pc[p] \in NoFilePhases \cup TmpPhases \cup {"owner", "check"} => Blank(basis[p])
        /\ pc[p] \in SeenPhases \cup GrantPhases => basis[p].root # "none"
        /\ pc[p] \in {"setreal", "write"} => basis[p].dur = timeout(p)

\* An authorisation from before `doas -L` only lives on in files without a name.
RevokedOK ==
    /\ \A i \in Inodes, k \in Keys : minted[i].revoked => path[k] # i
    /\ \A p \in Procs, k \in Keys : basis[p].revoked /\ HoldsOpen(p) => path[k] # fd[p]

\* The conjunction that every step preserves: which files a process can reach,
\* for which session they are, and what their stamps go back to.
IInv ==
    /\ TypeOK /\ InvOK /\ FdOK /\ NamesOK /\ SessionOK
    /\ PublishedOK /\ HeldOK /\ TmpOK /\ TimesOK /\ BasisOK /\ RevokedOK
=============================================================================
