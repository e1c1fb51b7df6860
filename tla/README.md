# A TLA+ model of doas

`doas` runs a command as another user after it has looked up a rule in `/etc/doas.conf` and, unless
the rule or a recent password says otherwise, has asked for a password. `vidoas` edits that file.
This directory holds TLA+ modules of the program, TLC configurations that check them on small
instances, and proofs, checked by TLAPS, of the safety properties for instances of every size.

## Inventory

| part | state | operations | hard because |
|---|---|---|---|
| `timestamp.rs` | files of `/var/run/doas`: name, group, two stored times | `open`, `check`, `set`, `clear` | several processes on the same names, descriptors that outlive names, two clocks, reboots, processes that die between calls |
| `main.rs` | one process: arguments, rule, stamp file, six ids and the groups | find the rule, decide whether to ask, renew the stamp, change identity, exec | order of the steps; what may fail without consequence and what may not |
| `command.rs` | the arguments that are left, the options so far | `parse`, `handle_option`, `extend_cmds` | values are taken out of the list from inside a cluster; combinations of options |
| `config.rs`, the parser | the rule under way, the point it has reached | `Config::parse`, `parser` | every `next` and `peek` moves the tokenizer; optional parts; a brace that may be missed |
| `config.rs`, the rules | none | `match_rule`, `permit`, `check_config` | last match wins, in two places |
| `tokenizer/` | characters of a token, quote state, a yielded item, a peeked one | `poll_next`, `next_line`, `before_quoted` | a generator behind a peeking wrapper, polled after its end; unchecked slices |
| `vidoas.rs` | `doas.conf`, `doas.tmp`, a lock, `last_time` | lock, copy or reuse, edit, check, prompt, save | two sessions, sessions that die, an editor that may replace the file, work by name and by descriptor mixed |
| `verify.rs`, `pam.rs` | attempts, a PAM transaction, answers, credentials | `auth`, `pam_auth`, `pamconv`, the destructors | libpam calls back in the middle; ownership of the answers; what a failed attempt leaves |
| `pass.rs` | terminal mode, buffer, line on the screen | `read_passwd`, `Term` | every exit must restore the terminal; buffer and screen change one after the other |
| `c.rs` | none | ids from names, `search_path`, environment, system calls | names that look like numbers; which variable wins |
| `sys/` | none | process information, `closefrom` | no |
| `utils/`, `insults.rs`, `lib.rs`, `bindings/` | none | formatting, lifetimes, a random sentence, constants | no |

How they interact. `main.rs` calls `command.rs`, then `config.rs` for the rule, which pulls items out
of `tokenizer/`; `timestamp.rs` for the stamp (through the file system it shares state with every other
doas process of the machine); `verify.rs` for the password; and then either execs the command or calls
`vidoas::run`. `verify.rs` calls `pam.rs`, libpam calls `pamconv` back, and that calls `pass.rs`. `vidoas.rs`
calls `check_config`, and installs the file that the next doas reads.

What makes each correct: a stamp is worth what its password was worth, for its session, its group and
its time, and `doas -L` ends that; `doas.conf` is always a file somebody may be held responsible for,
and no session's work is lost; authentication succeeds only when libpam has said so twice, ends, and
leaves nothing behind; the terminal is given back; a file of rules means what its lines say, all of
them, and the last line that matches decides; a command line asks for one thing; what runs has the
whole identity of the target and the environment that was prescribed.

## Modules

| module | what | run module |
|---|---|---|
| `Persist` | `timestamp.rs` and lines 83 to 127 of `main.rs`, system call by system call | `MCPersist` |
| `PersistInv`, `PersistProofs` | the inductive invariant of `Persist` and the proofs of its safety | |
| `PersistTimeProofs` | proofs about clocks that are set, reboots and renewals | |
| `Tickets` | what persistence promises, as one register per session | |
| `PersistTickets` | the refinement mapping from `Persist` to `Tickets` | `MCPersist` |
| `TicketsProofs` | the proof that `Persist` implements `Tickets` | |
| `Doas` | `main.rs` from the arguments to exec; extends the next two | `MCDoas` |
| `CmdArgs` | `command.rs` | |
| `Rules` | matching of rules and the environment, as operators | |
| `DoasProofs` | inductive invariant and proofs | |
| `Tokenizer` | `tokenizer/`, and `Peekable` as it is used | |
| `Config` | the parser of `config.rs`; extends `Tokenizer` | `MCConfig` |
| `ConfigProofs` | inductive invariant and proofs of both | |
| `Vidoas` | `vidoas.rs`, system call by system call | `MCVidoas` |
| `Edits` | what vidoas promises, as one editor at a time and one draft | |
| `VidoasEdits` | the refinement mapping from `Vidoas` to `Edits` | `MCVidoas` |
| `VidoasProofs` | inductive invariant, proofs of its safety, and that `Vidoas` implements `Edits` | |
| `ReadPasswd`, `ReadPasswdProofs` | `pass.rs`; inductive invariant and proofs | itself |
| `PamAuth`, `PamAuthProofs` | `verify.rs`, `pam.rs`; has an instance of `ReadPasswd` | itself |

Definitions whose name has an underscore (`TooFar_Closed`, `TryLock_Ignored`) are faulty variants of
the definition that follows them. Replacing the one by the other must break the property that
PROJECT.json names; they are part of no specification.

### Persist, Tickets

State: the directory (`dir`), the name of each session (`path`) and the `.tmp-<pid>` of each process
(`tmp`) as names of inodes, the group and the two times of an inode (`files`), the boot clock and the
wall clock, and for each process where it is, its session, group and rule (`inv`), its open file (`fd`)
and the locals of `check` (`seen`, `clk`). A session is one value of the tuple that `get_path` prints.
One action is one system call with what follows it up to the next one, so the model has every
interleaving of processes; each call that can fail with a consequence has an action for that.

`minted` and `basis` are history variables: what a stamp was written for, and what the run of a process
rests on. No guard reads them, they only occur in properties and in the invariant.

| code | actions |
|---|---|
| `open`, the directory | `StatDir`, `MkDir` |
| `open`, an existing file | `OpenPath`, `OpenFails`, `CheckOwner` |
| `open`, a new file | `CreateTmp`, `CreateFails`, `SetEpoch`, `ChownTmp`, `Publish`, `PublishFails`, `RemoveTmp` |
| `check` | `CheckStat`, `CheckBootTime`, `CheckRealTime`, `CheckFails` |
| `main.rs:110-122` | `AcceptPersist`, `AcceptNopass`, `Authenticate`, `AuthFails` |
| `set` | `SetBootTime`, `SetRealTime`, `WriteStamp`, `WriteFails` |
| `clear` (`doas -L`) | `Clear` |
| everything else | `Start`, `Killed`, `Tick`, `StepWallClock`, `Reboot` |

The check that `open` does on a file it opened reads the clocks too, but only its error has an effect,
which is that of `CheckOwner`. Owner root and mode 0 are not in the model: every file in the directory
is made by doas as root, with mode 0.

Behaviours that are in the code and in the model, and that no property forbids: a rule with both
`nopass` and `persist` writes stamps nobody typed a password for, which a rule without `nopass` and with
`persist` accepts (`PasswordRoot` has the absence of such rules as its premise); a rule with a short
timeout accepts only the last part of a longer stamp and turns away the rest as "too far in the
future" (`HonestStampNotTooFar` names that exception); the second of two processes that both create
the file of a session cuts off the stamp of the first; a `.tmp-<pid>` left by a dead process keeps the
next process with that id from persisting. The first of these saves a password; the others ask for one
more often, never less.

`Tickets` has none of this: a session has one current register, which may hold a ticket; a run uses the
register that was current when it opened it; `-L`, and a run that starts a new register, leave other
runs with an old one; what they write there is lost. `PersistTickets` maps the current register to the
file the session's name refers to, a ticket to a stamp in that file (expired or not), and a run's
register to its descriptor. `ImplementsTickets` is then the whole protocol, temporary files, renames,
crashes and all, in one formula: a run is admitted only on a ticket, and a run only ever leaves one
after it was admitted or authorised, in the register it opened.

### Doas, CmdArgs, Rules

`Doas` follows `inner_main`; `pc` names the next call. `CmdArgs` is its first part, one argument or one
letter of a cluster per step; an argument is a sequence of letters, where a name or a path is one
letter. The kernel is modelled as far as the ids go: `SetReuid`, `SetRegid` and `SetGroups` check the
effective user and change real, effective and saved ids. Every call may fail. The caller, each rule
and the environment are bound in the step that first looks at them, so that one run covers all
combinations. `OpenConf`, `CheckRule` and `Answer` are `check_config`; `ReadConf`, `TryRule` and `Permit` are the
other loop. `Authenticate` stands for lines 83 to 127, which `Persist` and `PamAuth` have in detail.

`Rules` has `match_rule`, the look-up of ids (a user called "2" is not user 2) and the layers of the
environment: a variable is worth what doas set, what a variable of the caller was worth, or the text
of a rule.

### Tokenizer, Config

The text of the file is not a constant: whenever the producer needs a character, any may come, one of
the special ones or a word that nothing takes apart. So a run covers files of every length.
`Feed` is one turn of the loop of `parser.rs`, one action per branch; `yields` is the cell that `yield_`
fills and that a poll empties; `slot` is the item that `Peekable` holds. `Config` has one action per
`next` or `peek` of the parser, at the point `pc` it has reached. What a rule says is kept only as far
as it decides how the rest is read.

A token carries two marks that no guard reads: `inner`, one of its characters was read inside quotes, and
`first`, it has the first character of a line. What a line is, the marks take from the grammar and not from
the escape flag of the code: a line ends at its line feed unless a backslash right before it joins the two.
`started` says that the line has had a character of a token, `stale` that the escape in force was read inside
quotes that have closed since, and `swallowed` that such an escape has swallowed the end of a line.

Four behaviours of the code are in the model as they are, and bound what is claimed:

* `persist { 5m` without its brace at the end of a line (`config.rs:276`): the parser takes the end of the
  line for the brace, and the rule goes on in the next line. This is the first of the two cases that
  `OneRulePerLine` excludes (`unclosed`). At the end of the file the producer, which has finished, is polled again: the
  stackless build panics there ("async fn resumed after completion"), the nightly build reads a second
  `None`. `PanicNeedsUnclosed` says that this is the only way to the panic.
* A backslash inside quotes is still in force behind them (`parser.rs:86-89`; the flag is consumed outside
  of quotes only, lines 21-28). If the line ends there, its end is dropped, and the rule goes on in the next
  line. This is the other case that `OneRulePerLine` excludes (`swallowed`), and a finding:
  `OnlyBackslashContinues` is the same property without that exception.
* Quotes around nothing leave the quote state at its start position. In `setenv { "" A="v" }` the token
  after them counts as quoted from its first character on, so its `=` is not seen, it is none of the
  forms the parser knows and the variable is not set.
* `from_mins` panics when the seconds do not fit (label `overflow`).

### Vidoas

A file is an inode with a text, an mtime, owner and mode (one of three kinds, `attr`) and a flock. Before
a session there is doas itself: it opens and parses `doas.conf`, looks for the rule that permits vidoas and
closes the file (`Consult`, `main.rs:83-97`); a password may be asked for; and then `vidoas::run` opens
`doas.conf` once more by its name (`Open`, `vidoas.rs:42-44`). What it gets need not be what doas has read: another
session may have installed another text meanwhile, a forced one even that permits nobody. A session goes through lock, temporary file, editor, check, prompt and save. The editor is the
environment: it may write the file, replace it, remove it or leave it, any number of times, and exits
with success; an editor that fails is one of the ways to die (`Dies`). `Verdict` is what `check_config`
says of a text. `Granular` says whether the file system gives an edit a later mtime than the copy.
After the first lock on a replaced file, `stale` is true and most properties claim nothing: that is
the finding below, and the point of them is what holds until then.

`Edits` has no files, locks or times: a text is installed, there may be a draft, and one process at a
time is the editor. It is someone whom a valid text has admitted (`Admit`), each time anew, though another text may
be installed by the time the session begins (`Begin`); it writes the draft, has it judged
(`Pass`, or `Warn` and then `Accept`), and installs it whole (`Install`) or leaves (`Leave`); every write
voids the judgement, and while there is an editor nothing else changes. `VidoasEdits` maps the draft to
the file named `doas.tmp`, the editor to the process in a session, the judgement to where that
process stands, and the admitted to the processes between `Consult` and the lock. `ImplementsEdits` is then in one formula what the comments in `vidoas.rs` say about the lock
and about the rename. `Race` is where that ends: a lock on a replaced file.

### ReadPasswd and PamAuth

`ReadPasswd` reads bytes of a few kinds, keeps the buffer and counts the length of the line on the
screen. `DropTerm` is the destructor of `Term`, which writes CLEAR for each byte and gives the terminal back, and
discards the errors of both (`pass.rs:105-108`): either may fail, a write that fails may have erased a part, and
`undone` remembers which have. A terminal that was not given back is raw when the next prompt opens it, so
`origin` says which mode `Term::new` has found and `Drop` goes back to.

`PamAuth` runs up to three attempts. libpam is a nondeterministic partner: it may converse in each call that
doas makes of it, `pam_authenticate`, `pam_acct_mgmt`, `pam_chauthtok`, `pam_setcred` and the `pam_setcred` of
the destructor of `PamGuard` (`DeleteCred`), up to `MaxTalks` times a call with up to `MaxMsgs` messages, before it answers
yes or no. `call` is the call in progress, and `ret` what `pam_auth` returns once its guard is dropped. While a prompt is open,
its state is that of `ReadPasswd`, whose next-state relation is one disjunct (`Typing`). `AskUser` gives
a new buffer, `AskFailed` and `Answered` run the destructors. `Left` counts what is left of all this: attempts,
calls of the attempt, conversations of the call, messages of the conversation, and the rest of an answer.

## What the runs check

A `VIEW` leaves out of the fingerprint what a freed inode held, since no step reads it before it is
overwritten, what a parser that has failed had read, or, in a behaviour where `OneRulePerLine` is excused for
good, the marks that only it reads. Symmetry is declared only on sets that no
property orders. The one liveness property is checked in `pam`, which has neither; `ImplementsTickets` and
`ImplementsEdits` are safety properties, and their mappings treat all sessions and all processes alike.

| run | bounds | shows |
|---|---|---|
| `persist_race` | 2 processes, 1 session, 3 rules (persist with timeout 1, nopass, neither), 3 inodes, clocks to 2 | every interleaving of two doas and `doas -L`, with crashes: `LinkedFilesReady`, `PassIsEarned`, `ClearRevokes`, `PasswordRoot` |
| `persist_sessions` | 2 processes, 2 sessions, 2 groups, 3 inodes, clocks at 0 | stamps of one session never serve another: the refinement `ImplementsTickets` |
| `persist_time` | 1 process, 3 rules, steps of the wall clock by 1 either way, downtimes 0 and 1, boot clock to 3, wall clock to 4 | clocks that are set and reboots that keep the files: `HonestStampNotTooFar`, `RebootWindow` (the claim of `timestamp.rs:24-36`), `PassIsEarned` |
| `vidoas_one` | 1 process at a time, 4 inodes, 6 texts, clock to 3 | `ConfIsVetted`, `ConfStaysUsable`, `CutNeedsReuse`, `EarlyReturnLosesNothing`, `PrivateWhileEdited` over sessions that die |
| `vidoas_two` | 2 processes, 4 inodes, 4 texts, clock to 3, only states before a stale lock (`CONSTRAINT NotStale`: the properties are all of the form "stale or ...") | `OverlapNeedsStaleLock`, `NoLostUpdate`, and the refinement `ImplementsEdits` |
| `vidoas_overlap` | 2 processes | finding: `SessionsExclusive` is violated |
| `vidoas_coarse` | `Granular = FALSE` | finding: `EarlyReturnLosesNothing` is violated |
| `passwd` | 2 bytes, capacity 4, prompt of 3 | `StarsMatchBuffer`, `PasswordTerminated` |
| `pam` | capacity 1, 2 conversations of up to 2 messages | `GrantedMeansProven`, `NothingRemains`, `TerminalRestored`, `AuthAdvances`, `AuthEnds` |
| `config` | files of any length; tokens of up to 2 characters, 3 in `setenv`; at each point the words the code tells apart there | `QuotedInRange`, `AcceptedIsWholeFile`, `OneRulePerLine`, `QuotedIsNeverBare`, `PanicNeedsUnclosed` |
| `config_escape` | the same | finding: `OnlyBackslashContinues` is violated |
| `doas` | all command lines of up to 3 of 15 arguments, and those followed by `ls`; 2 callers, 3 users, up to 2 of 6 rules, 3 environments | `CommandIsSuffix`, `OneRequest`, `Identities`, `CheckRunsAsCaller`, `LastMatchDecides`, `EnvIsPrescribed` |

Why these bounds are enough to be of use. The races on a stamp file are between two actors and `doas
-L`: one that holds a file, one that replaces it, and `-L` that removes the name. Three inodes are
one per process and one under the name, so a fresh file is always at hand. In `persist_sessions` time
stands still because identity, not expiry, is the question; a stamp is then accepted as soon as it is
written. A timeout of 1 has a now before, at and after both ends of the window within clocks of 2 or 3;
a stamp of an earlier boot needs a boot time, a timeout and a downtime that differ, and a second timeout
for a rule that meets the stamp of another, hence 3 and 4. In `Vidoas` four inodes are `doas.conf`, the file
a stale session holds, `doas.tmp` and the editor's new file; a text is forced and installed by one process
while the other is between `Consult` and `Open`. A password of up to three bytes with its
terminator fills a buffer of 4. In `config` nothing is kept of the lines before, so the length of the
file needs no bound; two characters are the least in which a quote can begin or end inside a token, and
an assignment of `setenv` needs a key, `=` and `$`. Three arguments hold a cluster, the value it takes and
what follows it; of two rules one can be the last match and the other not, or both match.

Processes may stop in `ReadPasswd` and `PamAuth` (they end) and in `Vidoas` (a forced lockout leaves no one
who may start vidoas), so those runs do not look for deadlock. `Persist` never stops, and `Config` and `Doas`
have a step for having ended: their runs do.

Fairness. Only `PamAuth` states any. `WF_vars(Next)`: doas itself never waits for anything but the user
and libpam, both of which answer. `SF_vars(Typing /\ RP!ReadEnd)`: a user who is asked again and again
and could press Return in each state of the prompt does so in the end; without it the user may type
and erase for ever, and the code has no timeout. `MaxTalks` bounds how often libpam converses
before it answers: pam modules converse a fixed number of times.

### Findings

* `vidoas.rs:45`: `open` and `try_lock` are two steps. A session that opened `doas.conf` before another one
  renamed its file over it locks the replaced file. Both sessions then work on the one `/etc/doas.tmp`
  and on different ideas of the original, which the comment at `vidoas.rs:40` says the lock prevents.
* `vidoas.rs:246`: "unchanged" means "same mtime". With coarse time stamps an edit within the tick of the
  copy is thrown away, although `vidoas.rs:245` says this happens if nothing was modified.
* `parser.rs:87`: a backslash inside quotes leaves `escaped` set behind the closing quote, where it
  swallows what comes next, the end of the line too. Of

      permit alice cmd ls args "a\b"
      deny alice

  the second line becomes arguments of the first, and the file is accepted. `tests/test1.conf:40` knows
  one way to continue a line, a backslash before its end.

Smaller ones no run is needed for. The terminating NUL is in the buffer when the feedback is erased
(`pass.rs:105`), so the last character of the prompt is erased with the stars; `StarsMatchBuffer` bounds the
damage: one character. The usage comment at `command.rs:27` and the code at `main.rs:110-113` do not
agree on what `-n` does with a rule that has `persist`; `Authenticate` follows the code.

## What is proved

TLAPS checks every theorem, each for all values of the constants under the named assumptions of the
modules, which TLC evaluates on every run. These assumptions say that constants have the type their name
suggests (a timeout is a natural number, a user a number and groups) and that a model value for "none" is
not in the set it stands next to (`ArgsAssumption`: an argument is a sequence of characters;
`RulesAssumption`: a line of `setenv` is one of the three forms that `parser` makes of it); two say more,
that the file `vidoas` finds at first is usable (`TextsAssumption`) and that libpam sends at least one
message in a conversation (`PamAuthAssumption`).
A property is seldom inductive, so each module has an invariant that says what holds at every point of the
code; the theorem `Invariant` (`WallInvariant`) proves it, with one lemma per action, and the
properties follow.

`PersistProofs` (`IInv`). `LinkedFilesReady` speaks of names only, but a process writes through a
descriptor: so the invariant says what a *held* file is like (`HeldOK`), that a file under a temporary name
is reachable by its maker alone (`NamesOK`), and which stage it has reached there (`TmpOK`).
`PassIsEarned` adds that whoever holds a file holds one of its own session (`SessionOK`), what a process in
each phase is authorised by (`BasisOK`), and that recorded boot times lie in the past (`TimesOK`), all of
which a reboot must re-establish. `ClearRevokes` is the subtle one: a process that was authenticated before
`doas -L` does write its stamp afterwards. `RevokedOK` says that the file it holds then has no name, which
stays so because names are only ever given to files that carry no stamp.

`PersistTimeProofs` (`WInv`, which is `IInv` and what the wall clock says). Unless the clock was put back, a
stamp was written in the past of the wall clock, and if the machine was started since then it has been up no
longer than the stamp is old (`InPast`). This must be carried from the file to the times a process has read
(`SeenOK`), to the verdict on them (`JudgedOK`) and to the times about to be written (`WritingOK`), because
clocks go on, are set, and start again between any two of these. `HonestStampNotTooFar` and
`RebootWindow` are then arithmetic. `PasswordRoot` needs no clock: if no rule has both `nopass` and `persist`,
no stamp and no run ever goes back to `nopass` (`RootOK`).

`TicketsProofs` (`RefinesTickets`: `Spec => ImplementsTickets`). The initial states map to the initial state, and
each step maps to a step of `Tickets` or to a stutter:

| step of `Persist` | step of `Tickets` |
|---|---|
| `Start` | `Start` |
| `OpenPath` of a file | `Open` |
| `Publish` | `OpenEmpty` |
| a failure in `open`, or in `check` | `Close` |
| `CheckRealTime`, if it accepts | `Admit` |
| `AcceptNopass`, `Authenticate` | `Authorise` |
| `WriteStamp` | `Write` |
| `Gone` (the end of a run, by itself or killed) | `Leave` |
| `Clear` | `Revoke` |
| `Reboot` | `Restart` |
| all others | none, or `Forget` if an inode is free for the next file |

The mapping rests on `IInv` (a file that has a name and carries a stamp is of that session; a new file
carries none) and on `StampedOK` (the file still carries a stamp while its times are read).

`VidoasProofs` (`VInv`). As long as no replaced file was locked, a lock on the file in place means that there
is one session (`LockOK`); the rest follows that session from phase to phase: the two files are different
ones and the descriptor is that of the name (`TempOK`), what was found out about the temporary file still
holds (`VettedOK`, `UsableOK`, `PrivateOK`), and so does what its mtime says (`CopyOK`, `CutOK`).

`RefinesEdits` (`Spec => ImplementsEdits`) maps each step to a step of `Edits` or to a stutter:

| step of `Vidoas` | step of `Edits` |
|---|---|
| `Consult` | `Admit` |
| `Open` | none |
| `TryLock` of the file in place | `Begin` |
| `TryLock` of a replaced file | `Race` |
| `LockFails`, `Dies` before a session | `Dismiss` |
| `CreateTemp`, `Reuse`, `Discard`, `Copy`, the editor, `EditAgain` | `Write` |
| `CheckPasses`, `CheckWarns`, `ForceSave` | `Pass`, `Warn`, `Accept` |
| `Rename` | `Install` |
| `CheckErrors`, `ExitUnsaved`, `Unchanged`, `Dies` in a session | `Leave` |
| all others | none |

It rests on `VInv`, by which the session is the only one and works on another file than `doas.conf`. What is
asked of a text that admits is asked when `Consult` reads it and never again, in the program as in `Edits`.

`ReadPasswdProofs` (`RInv`) has what is in the buffer and what is on the line, phase by phase. `PamAuthProofs`
(`PInv`) has what each call has proved by the time it returns (`ProvenOK`), who owns the answers and the
transaction (`RemainsOK`), and when the terminal is raw (`TtyOK`): while a prompt is open, or after a call
that should have restored it has failed. `PromptsAreReadPasswd` composes: with an instance of
`ReadPasswdProofs` over the variables of `PamAuth`, its invariant and the lemma that it is inductive carry
over to each prompt, the first as well as one after a refusal or an interrupt. `AuthAlwaysAdvances` is an
action property: each step but a key within one prompt lowers `Left`, attempts first, then the calls that are
left of the attempt, up to the one that deletes the credentials, then the conversations of the call.
`AdvancesEnd` says that this cannot go on for ever, by the library's theorem on the lexicographic order.
Together they are `AuthEnds` without its fairness: what remains to assume is that the user stops typing and
that somebody takes the next step.

`DoasProofs` (`DInv`): at each point of `inner_main`, which ids the process has (`IdsOK`), which combinations of
options are left (`AskedOK`), for whom the rules are asked (`RequestOK`), and that `last` is the last rule
that matches among those tried so far (`ScanOK`), which is what makes both loops find the same rule.

`CommandsAreSuffixes` needs an invariant of its own, of the parser at work (`WordsOK`): what is still to be
read is the end of the command line, but for one word that an option of the cluster before it has taken as its
value and left empty, and that the loop is about to skip; what was read is all options, their values, or
`vidoas`. `EnvironmentsArePrescribed` is about a recursion, `SetEnvs`, one line of `setenv` after the other:
what it leaves in a variable is what the last line about that variable says (`LastLineDecides`). It is
proved by induction over the number of lines.

`ConfigProofs` (`CInv`). The proofs are for files and tokens of any length and any words. The peeked item and
those in the cell are one queue, `Waiting`: to peek leaves it as it is, to take drops its head, and a turn of
the producer fills it when it is empty. Its shape is: tokens, then perhaps the end of their line, then
perhaps that of the file. `QuotesOK` keeps the range of a token within it, also while the token grows.
`LinesOK` says that a token without the end of its line behind it has a producer that will still send one,
and, as long as no line end was swallowed, that the marks mean what they say: the token under way is a first
one exactly if nothing of its line was sent before (`Fresh`).
`PointOK` follows both through the parser: at the start of a line the next token is a first one, within a
rule none is and the line goes on, and once the file has been read its end waits until something takes it;
only `persist {` takes it early (`unclosed`). Once an escape out of quotes has swallowed the end of a line,
nothing is claimed of first tokens (`tk.swallowed`), all the rest still is. `CleanOK` says where quotes that
were never closed are noticed: quoted characters have a range that covers them, or the end of a line says that
its quotes are open, or `next_line` has that noted and is about to fail. In such a line, tokens are misread,
which is harmless only because the rule is never returned.

How induction is done: the induction theorems of the library take the induction hypothesis as an operator,
and no installed prover can instantiate that. `SetInduction` (`DoasProofs`) says the same of a *set* of numbers,
and follows from the well-foundedness of `<`, which the library states without operators; the hypothesis is then
the set of the numbers that have it. The recursion itself has to be a function (`SetEnvs` in `Rules`), not a
RECURSIVE operator.

Only model-checked is `AuthEnds`, a liveness property under fairness, which TLAPS cannot prove. Every other
property of a passing run is a theorem.

## Not modelled

* The apple-auth feature of `verify.rs` and the macOS half of `c.rs` and `sys/`: another platform, whose
  interfaces are external. Its callback sets two relaxed atomics that another thread polls.
* `sys/`: it reads the session, the start time and the terminal of a process, the parts of a stamp's name. `Persist`
  takes the name as one value, and a failure to get it as `OpenFails`.
* The width of integers and the nanoseconds in `timestamp.rs`: `Persist` counts in natural numbers.
* fsync: the code has none; the model assumes that what was renamed is there after a reboot.
* An editor that goes on after its vidoas was killed.
* End of input on the stdin of vidoas: `read_line` returns 0 and the question is asked again, for ever.
* The retry of `getpwuid_r` with a larger buffer, a sequential loop around one external call.
* Line numbers, the texts of messages, syslog, the printing of rules, `insults.rs`, `utils/` (formatting and
  lifetimes) and `bindings/` (generated declarations).
