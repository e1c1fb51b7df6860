-------------------------------- MODULE Doas --------------------------------
(***************************************************************************)
(* One invocation of doas (main.rs), from its arguments to the command it  *)
(* executes: the calls of inner_main in their order, each of which may     *)
(* fail, the rules tried one after the other, and the user and group ids   *)
(* of the process as the kernel keeps them.                                *)
(*                                                                         *)
(* Who calls, the rules and the caller's environment are bound at the step *)
(* that first looks at them; nothing before it depends on them.            *)
(***************************************************************************)
EXTENDS CmdArgs, Rules

CONSTANTS
    Callers,     \* those who call doas: uid, gid and groups
    Passwd,      \* function from uids to the gid and the groups of a user
    Programs,    \* what SHELL, the passwd entry or EDITOR may say
    Slashed,     \* commands with a slash in them
    RuleSet,     \* the rules a configuration may have
    MaxRules,    \* bound on the rules of a configuration
    CallerEnvs   \* sets of names: environments of the caller

ASSUME DoasAssumption ==
    /\ MaxRules \in Nat
    /\ Callers \subseteq [uid : Nat, gid : Nat, groups : SUBSET Nat]
    /\ \A u \in DOMAIN Passwd : Passwd[u] \in [gid : Nat, groups : SUBSET Nat]
ASSUME RulesAssumption ==
    \A r \in RuleSet :
        LET lines == {r.envs[i] : i \in DOMAIN r.envs}
        IN  /\ r.keepenv \in BOOLEAN /\ r.envs \in Seq(lines)
            /\ \A e \in lines : e.op \in EnvOps

VARIABLES
    pc,       \* the next call of inner_main
    caller,   \* who called
    cred,     \* real, effective and saved ids, and the groups
    request,  \* uid, groups, target and command line
    conf,     \* the rules that were tried so far
    last,     \* last_rule
    found,    \* how search_path came by the file to execute
    env       \* the caller's names, and the environment made of them

vars == <<args, pc, caller, cred, request, conf, last, found, env>>

Editor(program) == <<<<program>>, <<"/etc/doas.conf">>>>

Nobody    == [uid |-> Invalid, gid |-> Invalid, groups |-> {}]
NoRequest == [uid |-> Invalid, groups |-> {}, target |-> Invalid, cmdline |-> <<>>]
NoEnv     == [inherited |-> {}, made |-> <<>>]

\* The ids of a process of user u: what exec or login leaves it with.
Ids(u, euid, g, groups) ==
    [ruid |-> u, euid |-> euid, suid |-> euid,
     rgid |-> g, egid |-> g, sgid |-> g, groups |-> groups]

Init ==
    /\ ArgsInit
    /\ pc = "args"
    /\ caller = Nobody
    /\ cred = Ids(Invalid, Invalid, Invalid, {})
    /\ request = NoRequest
    /\ conf = <<>>
    /\ last = <<>>
    /\ found = "nothing"
    /\ env = NoEnv

----------------------------------------------------------------------------
Has(o) == o \in parsed.given

At(label) == pc = label
Goto(label) == pc' = label

\* errx!, err! and `?`: inner_main returns Err(()).
Fail == pc' = "failed"

\* A call that succeeds, or not.
Call(from, to) == At(from) /\ pc' \in {to, "failed"}

Rule == last[1]

\* The kernel: effective user 0 may take any id; others one that they have.
\* All three ids are set, because the real one is.
SetReuid(u) ==
    /\ cred.euid = 0 \/ u \in {cred.ruid, cred.euid, cred.suid}
    /\ cred' = [cred EXCEPT !.ruid = u, !.euid = u, !.suid = u]

SetRegid(g) ==
    /\ cred.euid = 0 \/ g \in {cred.rgid, cred.egid, cred.sgid}
    /\ cred' = [cred EXCEPT !.rgid = g, !.egid = g, !.sgid = g]

SetGroups(groups) == cred.euid = 0 /\ cred' = [cred EXCEPT !.groups = groups]

----------------------------------------------------------------------------
\* Arguments, caller and target

ParseArgs ==
    /\ At("args")
    /\ ParseStep
    /\ UNCHANGED <<pc, caller, cred, request, conf, last, found, env>>

\* getuid and geteuid, and what the arguments ask for
ArgsParsed(c, setuid) ==
    /\ At("args")
    /\ ParseReturns
    /\ Goto(CASE mode = "usage" -> "failed"
              [] mode = "version" -> "done"
              [] OTHER -> IF Has("L") THEN "clear" ELSE "target")
    /\ caller' = c
    /\ cred' = Ids(c.uid, IF setuid THEN 0 ELSE c.uid, c.gid, c.groups)
    /\ UNCHANGED <<request, conf, last, found, env>>

\* timestamp::clear, which hides that the file could not be removed
Clear ==
    /\ Call("clear", "done")
    /\ UNCHANGED <<args, caller, cred, request, conf, last, found, env>>

Target ==
    /\ At("target")
    /\ LET uid == IF ~Has("u") THEN 0
                  ELSE IF parsed.user = NoArg THEN Invalid ELSE ParseUid(parsed.user[1])
       IN  /\ Goto(IF uid = Invalid THEN "failed" ELSE "identify")
           /\ request' = [request EXCEPT !.target = uid]
    /\ UNCHANGED <<args, caller, cred, conf, last, found, env>>

\* getpwuid of the caller, getgroups, and what is to be run
Identify(program) ==
    /\ Call("identify", IF Has("C") THEN "downgrade" ELSE "targetpw")
    /\ caller.uid \in DOMAIN Passwd \/ Fail
    /\ request' = [request EXCEPT
          !.uid = caller.uid,
          !.groups = cred.groups,
          !.cmdline = IF Has("s") THEN <<<<program>>>>
                      ELSE IF parsed.vidoas THEN Editor(program)
                      ELSE parsed.command]
    /\ UNCHANGED <<args, caller, cred, conf, last, found, env>>

----------------------------------------------------------------------------
\* -C: the file the caller names is read with the ids of the caller.

\* Mutant: only the effective user is set.
Downgrade_Effective ==
    /\ At("downgrade")
    /\ \/ cred' = [cred EXCEPT !.euid = caller.uid] /\ Goto("openconf")
       \/ Fail /\ UNCHANGED cred
    /\ UNCHANGED <<args, caller, request, conf, last, found, env>>

Downgrade ==
    /\ At("downgrade")
    /\ \/ SetReuid(caller.uid) /\ Goto("openconf")
       \/ Fail /\ UNCHANGED cred
    /\ UNCHANGED <<args, caller, request, conf, last, found, env>>

\* check_config: the file must parse; without a command that is all.
OpenConf ==
    /\ Call("openconf", IF request.cmdline = <<>> THEN "done" ELSE "check")
    /\ UNCHANGED <<args, caller, cred, request, conf, last, found, env>>

\* Mutant: the first match decides.
CheckRule_First(r) ==
    /\ At("check") /\ Len(conf) < MaxRules
    /\ conf' = Append(conf, r)
    /\ last' = IF last = <<>> /\ MatchRule(r, request) THEN <<r>> ELSE last
    /\ UNCHANGED <<args, pc, caller, cred, request, found, env>>

CheckRule(r) ==
    /\ At("check") /\ Len(conf) < MaxRules
    /\ conf' = Append(conf, r)
    /\ last' = IF MatchRule(r, request) THEN <<r>> ELSE last
    /\ UNCHANGED <<args, pc, caller, cred, request, found, env>>

Answer ==
    /\ At("check")
    /\ Goto(IF last # <<>> /\ Rule.permit THEN "permit" ELSE "deny")
    /\ UNCHANGED <<args, caller, cred, request, conf, last, found, env>>

----------------------------------------------------------------------------
\* The way to a command

TargetPw ==
    /\ Call("targetpw", "euid")
    /\ request.target \in DOMAIN Passwd \/ Fail
    /\ UNCHANGED <<args, caller, cred, request, conf, last, found, env>>

\* "not installed setuid", or doas.conf is refused
ReadConf ==
    /\ Call("euid", "rules")
    /\ cred.euid = 0 \/ Fail
    /\ UNCHANGED <<args, caller, cred, request, conf, last, found, env>>

\* The loop of permit()
TryRule(r) ==
    /\ At("rules") /\ Len(conf) < MaxRules
    /\ conf' = Append(conf, r)
    /\ last' = IF MatchRule(r, request) THEN <<r>> ELSE last
    /\ UNCHANGED <<args, pc, caller, cred, request, found, env>>

Permit ==
    /\ At("rules")
    /\ Goto(IF last # <<>> /\ Rule.permit THEN "auth" ELSE "failed")
    /\ UNCHANGED <<args, caller, cred, request, conf, last, found, env>>

\* nopass, an accepted time stamp, or verify::auth, which -n does not allow
Authenticate ==
    /\ Call("auth", "setregid")
    /\ Rule.nopass \/ Rule.persist \/ ~Has("n") \/ Fail
    /\ UNCHANGED <<args, caller, cred, request, conf, last, found, env>>

TargetGid == Passwd[request.target].gid

SetGid ==
    /\ At("setregid")
    /\ \/ SetRegid(TargetGid) /\ Goto("initgroups")
       \/ Fail /\ UNCHANGED cred
    /\ UNCHANGED <<args, caller, request, conf, last, found, env>>

\* Mutant: a failure of initgroups is passed over.
InitGroups_Ignored ==
    /\ At("initgroups")
    /\ \/ SetGroups(Passwd[request.target].groups \cup {TargetGid})
       \/ UNCHANGED cred
    /\ Goto("setreuid")
    /\ UNCHANGED <<args, caller, request, conf, last, found, env>>

InitGroups ==
    /\ At("initgroups")
    /\ \/ SetGroups(Passwd[request.target].groups \cup {TargetGid}) /\ Goto("setreuid")
       \/ Fail /\ UNCHANGED cred
    /\ UNCHANGED <<args, caller, request, conf, last, found, env>>

SetUid ==
    /\ At("setreuid")
    /\ \/ SetReuid(request.target) /\ Goto("search")
       \/ Fail /\ UNCHANGED cred
    /\ UNCHANGED <<args, caller, request, conf, last, found, env>>

\* A command with a slash is taken as it is, an empty one is not found.
Search ==
    /\ Call("search", "env")
    /\ LET cmd == request.cmdline[1]
       IN  /\ cmd = NoArg => Fail
           /\ found' = IF cmd \in Slashed THEN "as given"
                       ELSE IF HasCmd(Rule) THEN "SAFE_PATH" ELSE "PATH"
    /\ UNCHANGED <<args, caller, cred, request, conf, last, env>>

MakeEnv(inherited) ==
    /\ At("env")
    /\ Goto(IF parsed.vidoas THEN "vidoas" ELSE "exec")
    /\ env' = [inherited |-> inherited, made |-> PrepEnv(Rule, inherited)]
    /\ UNCHANGED <<args, caller, cred, request, conf, last, found>>

Final == {"failed", "done", "permit", "deny", "exec", "vidoas"}

\* vidoas::run is module Vidoas; a process that has executed a command is none
\* of ours.
Ended == pc \in Final /\ UNCHANGED vars

Next ==
    \/ ParseArgs
    \/ \E c \in Callers, setuid \in BOOLEAN : ArgsParsed(c, setuid)
    \/ Clear \/ Target
    \/ \E program \in Programs : Identify(program)
    \/ Downgrade \/ OpenConf
    \/ \E r \in RuleSet : CheckRule(r) \/ TryRule(r)
    \/ Answer \/ TargetPw \/ ReadConf \/ Permit \/ Authenticate
    \/ SetGid \/ InitGroups \/ SetUid \/ Search
    \/ \E inherited \in CallerEnvs : MakeEnv(inherited)
    \/ Ended

Spec == Init /\ [][Next]_vars
---------------------------------------------------------------------------
Labels == {"args", "clear", "target", "identify", "downgrade", "openconf", "check",
           "targetpw", "euid", "rules", "auth", "setregid", "initgroups", "setreuid",
           "search", "env"} \cup Final

AnyId == {Invalid} \cup Nat

\* Every variable keeps its shape; there is an argvs[0] wherever main.rs uses it.
TypeOK ==
    /\ ArgsTypeOK
    /\ pc \in Labels
    /\ caller \in Callers \cup {Nobody}
    /\ cred \in [ruid : AnyId, euid : AnyId, suid : AnyId,
                 rgid : AnyId, egid : AnyId, sgid : AnyId, groups : SUBSET Nat]
    /\ request.target \in AnyId
    /\ pc \in {"targetpw", "rules", "check", "search"} => request.cmdline # <<>>
    /\ conf \in Seq(RuleSet) /\ Len(conf) <= MaxRules

\* Whatever fails on the way, what runs as the target has all of its identity:
\* three user ids, three group ids and the groups, nothing of the caller's.
Identities ==
    pc \in {"search", "env", "exec", "vidoas"} =>
        LET t == request.target
        IN  cred = Ids(t, t, Passwd[t].gid, Passwd[t].groups \cup {Passwd[t].gid})

\* -C reads a file of the caller's choice without a way back to root.
CheckRunsAsCaller ==
    pc \in {"openconf", "check", "permit", "deny"} =>
        cred = Ids(caller.uid, caller.uid, caller.gid, caller.groups)

Permitted ==
    \E i \in DOMAIN conf :
        /\ conf[i].permit /\ MatchRule(conf[i], request)
        /\ \A j \in (i + 1)..Len(conf) : ~MatchRule(conf[j], request)

\* The last rule that matches decides, in the loop of permit and in the one of
\* check_config: the answer of a check is what doas would do, and nothing runs
\* that the rules deny, for the very caller and words the rules were asked for.
LastMatchDecides ==
    /\ pc \in {"auth", "setregid", "search", "exec", "vidoas", "permit"} =>
           Permitted /\ request.uid = caller.uid /\ request.groups = caller.groups
    /\ pc = "deny" => ~Permitted

\* What becomes of a variable.  The last line of setenv that applies to it wins;
\* without one, doas's own value does, then TERM and DISPLAY, then keepenv.
Applies(e) == e.op = "keep" => e.key \in env.inherited
Copies(e)  == e.op = "from" => e.name \in env.inherited
LinesFor(n) == {i \in DOMAIN Rule.envs : LET e == Rule.envs[i]
                                         IN  e.key = n /\ Applies(e) /\ Copies(e)}

Prescribed(n) ==
    IF LinesFor(n) # {}
    THEN LET e == Rule.envs[CHOOSE i \in LinesFor(n) : \A j \in LinesFor(n) : j <= i]
         IN  CASE e.op = "set"  -> {Text(e.text)}
               [] e.op = "keep" -> {Caller(n)}
               [] e.op = "from" -> {Caller(e.name)}
               [] OTHER         -> {}
    ELSE IF n \in FixedNames THEN {ByDoas}
    ELSE IF n \in env.inherited /\ (n \in CopySet \/ Rule.keepenv) THEN {Caller(n)}
    ELSE {}

\* The environment of the command: no variable of the caller gets through that
\* no rule lets through, and none that doas sets is replaced unless a rule
\* says so, in whatever order the lines of setenv stand.
EnvIsPrescribed ==
    pc \in {"exec", "vidoas"} =>
        \A n \in FixedNames \cup CopySet \cup env.inherited \cup DOMAIN env.made :
            Prescribed(n) = IF n \in DOMAIN env.made THEN {env.made[n]} ELSE {}
=============================================================================
