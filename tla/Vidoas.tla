------------------------------ MODULE Vidoas ------------------------------
(***************************************************************************)
(* vidoas: editing /etc/doas.conf (vidoas.rs).                             *)
(*                                                                         *)
(* Once doas has let it in, a session opens the configuration file, takes  *)
(* an advisory lock on it, copies it to /etc/doas.tmp, runs an editor on   *)
(* the copy, checks what the editor left and renames it over the           *)
(* configuration file.  Sessions run side by side, may be killed between   *)
(* any two calls, and their editors may do to the temporary file whatever  *)
(* an editor does.                                                         *)
(*                                                                         *)
(* A file is an inode; what is in it is one of a few Texts, and all that   *)
(* check_config finds out about a text is its Verdict.  `vet`, `stale` and *)
(* `forced` are history variables that no guard reads.                     *)
(***************************************************************************)
EXTENDS Naturals

CONSTANTS
    Procs,     \* vidoas processes
    Inodes, NoInode,
    Nobody,    \* holder of a lock that is free
    Texts,     \* what a file may contain
    Original,  \* what doas.conf contains at first
    Cut,       \* an empty or truncated copy
    Verdict,   \* what check_config says of a text
    Granular,  \* TRUE: a write by the editor has a later mtime than the copy
    MaxTime    \* bound on the clock that stamps files

Verdicts == {"ok", "syntax", "deny", "error"}

ASSUME TextsAssumption ==
    /\ {Original, Cut} \subseteq Texts
    /\ Verdict \in [Texts -> Verdicts] /\ Verdict[Original] = "ok"
ASSUME NobodyAssumption == Nobody \notin Procs /\ NoInode \notin Inodes
ASSUME BoundAssumption == Granular \in BOOLEAN /\ MaxTime \in Nat

VARIABLES
    conf,      \* the inode named /etc/doas.conf
    temp,      \* the inode named /etc/doas.tmp, or NoInode
    text, mtime,
    attr,      \* "conf": owner and mode of doas.conf; "private": root, 0600;
               \* "editor": what an editor gave a file it created
    lock,      \* which process holds the flock of an inode
    now,       \* the clock of the file system
    pc,
    cfd, tfd,  \* conf_file and temp_file of a process
    last,      \* last_time of a process: <<>> for None, or <<mtime>>
    vet,       \* history: "no", "checked" or "approved" by check_config or user
    forced,    \* history: some session saved in spite of check_config
    stale      \* history: some session locked a file no longer named doas.conf

disk    == <<conf, temp, text, mtime, attr, vet>>
files   == <<text, mtime, attr, vet>>
locals  == <<cfd, tfd, last>>
history == <<forced, stale>>
vars    == <<disk, lock, now, pc, locals, history>>

At(p, label) == pc[p] = label
Goto(p, label) == pc' = [pc EXCEPT ![p] = label]

Session == {"create", "ask", "recreate", "copy", "edit", "check", "prompt",
            "save", "compare", "attrs", "rename"}

Free == Inodes \ ({conf, temp} \cup {cfd[p] : p \in Procs} \cup {tfd[p] : p \in Procs})

Init ==
    /\ conf \in Inodes
    /\ temp = NoInode
    /\ text = [i \in Inodes |-> Original]
    /\ mtime = [i \in Inodes |-> 0]
    /\ attr = [i \in Inodes |-> "conf"]
    /\ vet = [i \in Inodes |-> "approved"]
    /\ lock = [i \in Inodes |-> Nobody]
    /\ now = 0
    /\ pc = [p \in Procs |-> "idle"]
    /\ cfd = [p \in Procs |-> NoInode]
    /\ tfd = [p \in Procs |-> NoInode]
    /\ last = [p \in Procs |-> <<>>]
    /\ forced = FALSE
    /\ stale = FALSE

\* The process is gone, and with it its descriptors and its lock.
Leaves(p) ==
    /\ Goto(p, "idle")
    /\ cfd' = [cfd EXCEPT ![p] = NoInode]
    /\ tfd' = [tfd EXCEPT ![p] = NoInode]
    /\ last' = [last EXCEPT ![p] = <<>>]
    /\ lock' = [i \in Inodes |-> IF lock[i] = p THEN Nobody ELSE lock[i]]

\* A new file under the temporary name.
NewTemp(i, t, a) ==
    /\ temp' = i
    /\ text' = [text EXCEPT ![i] = t]
    /\ mtime' = [mtime EXCEPT ![i] = now]
    /\ attr' = [attr EXCEPT ![i] = a]
    /\ vet' = [vet EXCEPT ![i] = "no"]

----------------------------------------------------------------------------
\* Being let in, opening and locking.

Usable(i) == Verdict[text[i]] = "ok" /\ attr[i] = "conf"

\* doas reads the configuration, and it permits vidoas; the file is closed again.
Consult(p) ==
    /\ At(p, "idle")
    /\ Usable(conf)
    /\ Goto(p, "admitted")
    /\ UNCHANGED <<disk, lock, now, locals, history>>

\* The password is asked for in between: by name, whatever is installed by now.
Open(p) ==
    /\ At(p, "admitted")
    /\ cfd' = [cfd EXCEPT ![p] = conf]
    /\ Goto(p, "lock")
    /\ UNCHANGED <<disk, lock, now, tfd, last, history>>

\* Mutant: a failed try_lock is ignored.
TryLock_Ignored(p) ==
    /\ At(p, "lock")
    /\ lock' = [lock EXCEPT ![cfd[p]] = p]
    /\ stale' = (stale \/ cfd[p] # conf)
    /\ Goto(p, "create")
    /\ UNCHANGED <<disk, now, locals, forced>>

TryLock(p) ==
    /\ At(p, "lock")
    /\ lock[cfd[p]] = Nobody
    /\ lock' = [lock EXCEPT ![cfd[p]] = p]
    /\ stale' = (stale \/ cfd[p] # conf)
    /\ Goto(p, "create")
    /\ UNCHANGED <<disk, now, locals, forced>>

\* "can not lock config file, perhaps another vidoas is running?"
LockFails(p) ==
    /\ At(p, "lock")
    /\ lock[cfd[p]] # Nobody
    /\ Leaves(p)
    /\ UNCHANGED <<disk, now, history>>

----------------------------------------------------------------------------
\* The temporary file.

CreateTemp(p, i) ==
    /\ pc[p] \in {"create", "recreate"}
    /\ temp = NoInode
    /\ NewTemp(i, Cut, "private")
    /\ tfd' = [tfd EXCEPT ![p] = i]
    /\ Goto(p, "copy")
    /\ UNCHANGED <<conf, lock, now, cfd, last, history>>

TempExists(p) ==
    /\ At(p, "create")
    /\ temp # NoInode
    /\ Goto(p, "ask")
    /\ UNCHANGED <<disk, lock, now, locals, history>>

\* Mutant: last_time is set for a reused file too.
Reuse_Remembers(p) ==
    /\ At(p, "ask")
    /\ temp # NoInode
    /\ attr' = [attr EXCEPT ![temp] = "private"]
    /\ last' = [last EXCEPT ![p] = <<mtime[temp]>>]
    /\ Goto(p, "edit")
    /\ UNCHANGED <<conf, temp, text, mtime, vet, lock, now, cfd, tfd, history>>

\* Mutant: owner and mode of a reused file stay.
Reuse_KeepsMode(p) ==
    /\ At(p, "ask")
    /\ temp # NoInode
    /\ Goto(p, "edit")
    /\ UNCHANGED <<disk, lock, now, locals, history>>

\* "y": root's and 0600 again, contents kept, last_time stays None.
Reuse(p) ==
    /\ At(p, "ask")
    /\ temp # NoInode
    /\ attr' = [attr EXCEPT ![temp] = "private"]
    /\ Goto(p, "edit")
    /\ UNCHANGED <<conf, temp, text, mtime, vet, lock, now, locals, history>>

\* "n"
Discard(p) ==
    /\ At(p, "ask")
    /\ temp # NoInode
    /\ temp' = NoInode
    /\ Goto(p, "recreate")
    /\ UNCHANGED <<conf, files, lock, now, locals, history>>

\* io::copy and fstat work on the descriptors.
Copy(p) ==
    /\ At(p, "copy")
    /\ text' = [text EXCEPT ![tfd[p]] = text[cfd[p]]]
    /\ mtime' = [mtime EXCEPT ![tfd[p]] = now]
    /\ vet' = [vet EXCEPT ![tfd[p]] = "no"]
    /\ last' = [last EXCEPT ![p] = <<now>>]
    /\ tfd' = [tfd EXCEPT ![p] = NoInode]
    /\ Goto(p, "edit")
    /\ UNCHANGED <<conf, temp, attr, lock, now, cfd, history>>

----------------------------------------------------------------------------
\* The editor, then check_config on what it left.

\* The clock moved on between the copy and this write.
Advanced(p) == Granular => last[p] # <<now>>

EditInPlace(p, t) ==
    /\ At(p, "edit")
    /\ temp # NoInode
    /\ Advanced(p)
    /\ text' = [text EXCEPT ![temp] = t]
    /\ mtime' = [mtime EXCEPT ![temp] = now]
    /\ vet' = [vet EXCEPT ![temp] = "no"]
    /\ UNCHANGED <<conf, temp, attr, lock, now, pc, locals, history>>

\* Editors that write a new file and rename it, or whose file was removed.
EditByReplacing(p, i, t) ==
    /\ At(p, "edit")
    /\ Advanced(p)
    /\ NewTemp(i, t, "editor")
    /\ UNCHANGED <<conf, lock, now, pc, locals, history>>

EditorRemoves(p) ==
    /\ At(p, "edit")
    /\ temp # NoInode
    /\ temp' = NoInode
    /\ UNCHANGED <<conf, files, lock, now, pc, locals, history>>

EditorExits(p) ==
    /\ At(p, "edit")
    /\ Goto(p, "check")
    /\ UNCHANGED <<disk, lock, now, locals, history>>

CheckPasses(p) ==
    /\ At(p, "check")
    /\ temp # NoInode
    /\ Verdict[text[temp]] = "ok"
    /\ vet' = [vet EXCEPT ![temp] = "approved"]
    /\ Goto(p, "save")
    /\ UNCHANGED <<conf, temp, text, mtime, attr, lock, now, locals, history>>

\* Mutant: the warning does not ask.
CheckWarns_Saves(p) ==
    /\ At(p, "check")
    /\ temp # NoInode
    /\ Verdict[text[temp]] \in {"syntax", "deny"}
    /\ vet' = [vet EXCEPT ![temp] = "checked"]
    /\ Goto(p, "save")
    /\ UNCHANGED <<conf, temp, text, mtime, attr, lock, now, locals, history>>

CheckWarns(p) ==
    /\ At(p, "check")
    /\ temp # NoInode
    /\ Verdict[text[temp]] \in {"syntax", "deny"}
    /\ vet' = [vet EXCEPT ![temp] = "checked"]
    /\ Goto(p, "prompt")
    /\ UNCHANGED <<conf, temp, text, mtime, attr, lock, now, locals, history>>

\* Any other error of Config::parse ends the session, the file stays.
CheckErrors(p) ==
    /\ At(p, "check")
    /\ temp # NoInode => Verdict[text[temp]] = "error"
    /\ Leaves(p)
    /\ UNCHANGED <<disk, now, history>>

\* "e"
EditAgain(p) ==
    /\ At(p, "prompt")
    /\ Goto(p, "edit")
    /\ UNCHANGED <<disk, lock, now, locals, history>>

\* "x"
ExitUnsaved(p) ==
    /\ At(p, "prompt")
    /\ temp' = NoInode
    /\ Leaves(p)
    /\ UNCHANGED <<conf, files, now, history>>

\* FORCE_INVALID or FORCE_LOCKOUT: the user accepts what was checked.
ForceSave(p) ==
    /\ At(p, "prompt")
    /\ vet' = [i \in Inodes |-> IF i = temp /\ vet[i] = "checked" THEN "approved" ELSE vet[i]]
    /\ forced' = TRUE
    /\ Goto(p, "save")
    /\ UNCHANGED <<conf, temp, text, mtime, attr, lock, now, locals, stale>>

----------------------------------------------------------------------------
\* save_tmp_file

OpenTemp(p) ==
    /\ At(p, "save")
    /\ temp # NoInode
    /\ tfd' = [tfd EXCEPT ![p] = temp]
    /\ Goto(p, "compare")
    /\ UNCHANGED <<disk, lock, now, cfd, last, history>>

SameTime(p) == last[p] = <<mtime[tfd[p]]>>

\* Mutant: the wrong one of the two files goes.
Unchanged_RemovesConf(p) ==
    /\ At(p, "compare")
    /\ SameTime(p)
    /\ conf' = NoInode
    /\ Leaves(p)
    /\ UNCHANGED <<temp, files, now, history>>

\* "unchanged": the temporary file goes, the configuration stays.
Unchanged(p) ==
    /\ At(p, "compare")
    /\ SameTime(p)
    /\ temp' = NoInode
    /\ Leaves(p)
    /\ UNCHANGED <<conf, files, now, history>>

Changed(p) ==
    /\ At(p, "compare")
    /\ ~SameTime(p)
    /\ Goto(p, "attrs")
    /\ UNCHANGED <<disk, lock, now, locals, history>>

\* Mutant: the file goes in place as root's 0600 temporary file.
RestoreAttrs_Skipped(p) ==
    /\ At(p, "attrs")
    /\ tfd' = [tfd EXCEPT ![p] = NoInode]
    /\ Goto(p, "rename")
    /\ UNCHANGED <<disk, lock, now, cfd, last, history>>

\* Mutant: conf_file, and the lock with it, is dropped once its mode is read.
RestoreAttrs_DropsLock(p) ==
    /\ At(p, "attrs")
    /\ attr' = [attr EXCEPT ![tfd[p]] = attr[cfd[p]]]
    /\ lock' = [lock EXCEPT ![cfd[p]] = Nobody]
    /\ tfd' = [tfd EXCEPT ![p] = NoInode]
    /\ Goto(p, "rename")
    /\ UNCHANGED <<conf, temp, text, mtime, vet, now, cfd, last, history>>

\* fchown and fchmod, to what the locked file has.
RestoreAttrs(p) ==
    /\ At(p, "attrs")
    /\ attr' = [attr EXCEPT ![tfd[p]] = attr[cfd[p]]]
    /\ tfd' = [tfd EXCEPT ![p] = NoInode]
    /\ Goto(p, "rename")
    /\ UNCHANGED <<conf, temp, text, mtime, vet, lock, now, cfd, last, history>>

\* By name: whatever is called doas.tmp by now becomes doas.conf.
Rename(p) ==
    /\ At(p, "rename")
    /\ temp # NoInode
    /\ conf' = temp
    /\ temp' = NoInode
    /\ Leaves(p)
    /\ UNCHANGED <<files, now, history>>

\* No password, the editor failed, a call failed, found no temporary file, or, after "n", found
\* one, or the process was killed: it ends where it is and leaves the file.
Dies(p) ==
    /\ ~At(p, "idle")
    /\ Leaves(p)
    /\ UNCHANGED <<disk, now, history>>

Tick ==
    /\ now < MaxTime
    /\ now' = now + 1
    /\ UNCHANGED <<disk, lock, pc, locals, history>>

----------------------------------------------------------------------------
Locking(p) == Consult(p) \/ Open(p) \/ TryLock(p) \/ LockFails(p)

Preparing(p) ==
    \/ \E i \in Free : CreateTemp(p, i)
    \/ TempExists(p) \/ Reuse(p) \/ Discard(p) \/ Copy(p)

Editing(p) ==
    \/ \E t \in Texts \ {Cut} : EditInPlace(p, t)
    \/ \E i \in Free, t \in Texts \ {Cut} : EditByReplacing(p, i, t)
    \/ EditorRemoves(p) \/ EditorExits(p)

Checking(p) ==
    \/ CheckPasses(p) \/ CheckWarns(p) \/ CheckErrors(p)
    \/ EditAgain(p) \/ ExitUnsaved(p) \/ ForceSave(p)

Saving(p) ==
    \/ OpenTemp(p) \/ Unchanged(p) \/ Changed(p) \/ RestoreAttrs(p) \/ Rename(p)

Next ==
    \/ Tick
    \/ \E p \in Procs :
          Locking(p) \/ Preparing(p) \/ Editing(p) \/ Checking(p) \/ Saving(p) \/ Dies(p)

Spec == Init /\ [][Next]_vars

----------------------------------------------------------------------------
\* Every variable keeps its shape.
TypeOK ==
    /\ conf \in Inodes
    /\ temp \in Inodes \cup {NoInode}
    /\ text \in [Inodes -> Texts]
    /\ mtime \in [Inodes -> 0..MaxTime]
    /\ attr \in [Inodes -> {"conf", "private", "editor"}]
    /\ vet \in [Inodes -> {"no", "checked", "approved"}]
    /\ lock \in [Inodes -> Procs \cup {Nobody}]
    /\ now \in 0..MaxTime
    /\ pc \in [Procs -> Session \cup {"idle", "admitted", "lock"}]
    /\ cfd \in [Procs -> Inodes \cup {NoInode}]
    /\ tfd \in [Procs -> Inodes \cup {NoInode}]
    /\ last \in [Procs -> {<<>>} \cup {<<t>> : t \in 0..MaxTime}]
    /\ forced \in BOOLEAN /\ stale \in BOOLEAN

\* "Acquire an exclusive advisory lock on the main configuration file to prevent
\* concurrent modifications from multiple vidoas instances" (vidoas.rs:40-41).
SessionsExclusive ==
    \A p, q \in Procs : pc[p] \in Session /\ pc[q] \in Session => p = q

\* What the comment does hold of: two sessions at once, one of them with a lock
\* on a file that another session has replaced since it was opened.
OverlapNeedsStaleLock == stale \/ SessionsExclusive

\* What is installed as doas.conf has passed check_config in exactly this form,
\* or was saved by someone who had been warned of exactly this form.
ConfIsVetted == stale \/ vet[conf] = "approved"

\* doas never stops working because of vidoas: unless a user forced a bad
\* configuration, the one in place is valid, lets the user run vidoas again and
\* has the owner and mode that doas insists on.
ConfStaysUsable == stale \/ forced \/ Usable(conf)

\* A session saves on top of what it copied: no other session's changes are
\* lost.
NoLostUpdate ==
    \A p \in Procs : pc[p] \in Session => stale \/ cfd[p] = conf

\* A truncated copy, left by a session that died, gets no further than the
\* editor unless the user asked for it to be reused.
CutNeedsReuse ==
    \A p \in Procs :
        /\ pc[p] \in {"save", "compare", "attrs", "rename"}
        /\ temp # NoInode
        /\ text[temp] = Cut
        => stale \/ last[p] = <<>> \/ text[cfd[p]] = Cut

\* "Ensure the reused temp file is securely owned by root and not accessible by
\* other users before launching the editor" (vidoas.rs:71-72), even one that a
\* session left behind after it had restored the mode of doas.conf: what an
\* editor works on is private, or has the mode the editor itself gave it.
PrivateWhileEdited ==
    \A p \in Procs : At(p, "edit") /\ temp # NoInode => stale \/ attr[temp] # "conf"

\* "return early if the user exited the editor without modifying any rules"
\* (vidoas.rs:245): only then.
EarlyReturnLosesNothing ==
    \A p \in Procs : At(p, "compare") /\ SameTime(p) =>
        stale \/ text[tfd[p]] = text[cfd[p]]
============================================================================
