------------------------------- MODULE Rules -------------------------------
(***************************************************************************)
(* What a rule of doas.conf decides (config.rs), and what the environment  *)
(* of the command is made of (c.rs).  Pure operators.                      *)
(*                                                                         *)
(* A name that is not given is NoName.  A rule is a record                 *)
(*   permit, nopass, persist, keepenv   BOOLEAN                            *)
(*   user, group, target                names                              *)
(*   cmd    <<>>, or the command and, if it has `args`, their sequence     *)
(*   envs   a sequence of what setenv lists                                *)
(***************************************************************************)
EXTENDS Integers, Sequences

CONSTANTS
    PwNam, GrNam,  \* the user and group data bases: functions from names to ids
    Number,        \* function from the names that are numerals to their value
    UidMax, GidMax,
    NoName

ASSUME IdAssumption ==
    /\ UidMax \in Nat /\ GidMax \in Nat
    /\ \A s \in DOMAIN PwNam : PwNam[s] \in Nat
    /\ \A s \in DOMAIN GrNam : GrNam[s] \in Nat
    /\ \A s \in DOMAIN Number : Number[s] \in Nat

Invalid == -1

\* A name is looked up before it is read as a number.
ParseUid(s) ==
    IF s \in DOMAIN PwNam THEN IF PwNam[s] = UidMax THEN Invalid ELSE PwNam[s]
    ELSE IF s \in DOMAIN Number /\ Number[s] < UidMax THEN Number[s] ELSE Invalid

ParseGid(s) ==
    IF s \in DOMAIN GrNam THEN IF GrNam[s] = GidMax THEN Invalid ELSE GrNam[s]
    ELSE IF s \in DOMAIN Number /\ Number[s] < GidMax THEN Number[s] ELSE Invalid

CheckUid(uid, desired) == ParseUid(desired) # Invalid /\ ParseUid(desired) = uid

\* A request: who asks (uid, groups), for whom (target), to run what.
MatchIdentity(r, q) ==
    /\ r.user # NoName => CheckUid(q.uid, r.user)
    /\ r.group # NoName => ParseGid(r.group) \in q.groups

MatchCmd(r, q) ==
    r.cmd # <<>> =>
        /\ r.cmd[1] = q.cmdline[1]
        /\ Len(r.cmd) = 2 => r.cmd[2] = Tail(q.cmdline)

MatchRule(r, q) ==
    /\ MatchIdentity(r, q)
    /\ r.target # NoName => CheckUid(q.target, r.target)
    /\ MatchCmd(r, q)

HasCmd(r) == r.cmd # <<>>

----------------------------------------------------------------------------
\* Environments: functions from names to values

FixedNames == {"DOAS_USER", "HOME", "LOGNAME", "PATH", "SHELL", "USER"}
CopySet    == {"DISPLAY", "TERM"}

\* What a value is worth: set by doas, copied from the caller's variable n, or
\* the text v of a rule.
ByDoas    == [by |-> "doas"]
Caller(n) == [by |-> "caller", name |-> n]
Text(v)   == [by |-> "rule", text |-> v]

KeepVar(k) == [op |-> "keep", key |-> k]
SetVar(k, v) == [op |-> "set", key |-> k, text |-> v]
CopyVar(k, n) == [op |-> "from", key |-> k, name |-> n]
RemoveVar(k) == [op |-> "remove", key |-> k]
EnvOps == {"keep", "set", "from", "remove"}

\* HashMap::insert of every entry of new
Inserted(envs, new) ==
    [n \in DOMAIN envs \cup DOMAIN new |-> IF n \in DOMAIN new THEN new[n] ELSE envs[n]]

CreateEnv(inherited) ==
    Inserted([n \in FixedNames |-> ByDoas], [n \in CopySet \cap inherited |-> Caller(n)])

\* Mutant: keepenv replaces what doas has set.
KeepEnvs_Replace(envs, inherited) == Inserted(envs, [n \in inherited |-> Caller(n)])

\* or_insert: what doas has set stays.
KeepEnvs(envs, inherited) ==
    Inserted(envs, [n \in inherited \ DOMAIN envs |-> Caller(n)])

ApplyEnv(inherited, envs, e) ==
    LET insert(v) == Inserted(envs, [n \in {e.key} |-> v])
    IN  CASE e.op = "remove" -> [n \in DOMAIN envs \ {e.key} |-> envs[n]]
          [] e.op = "set"    -> insert(Text(e.text))
          [] e.op = "keep" /\ e.key \in inherited   -> insert(Caller(e.key))
          [] e.op = "from" /\ e.name \in inherited  -> insert(Caller(e.name))
          [] OTHER           -> envs

\* The environment after each of the lines of setenv.
SetEnvs(envs, setenvs, inherited) ==
    LET after[i \in 0..Len(setenvs)] ==
            IF i = 0 THEN envs ELSE ApplyEnv(inherited, after[i - 1], setenvs[i])
    IN  after

ApplyRuleEnvs(envs, setenvs, inherited) ==
    SetEnvs(envs, setenvs, inherited)[Len(setenvs)]

PrepEnv(r, inherited) ==
    LET created == CreateEnv(inherited)
    IN  ApplyRuleEnvs(IF r.keepenv THEN KeepEnvs(created, inherited) ELSE created,
                      r.envs, inherited)
============================================================================
