------------------------------- MODULE MCDoas -------------------------------
(***************************************************************************)
(* A small instance of Doas: three users, one of whom is called like the   *)
(* number of another, and every command line of up to three arguments, by  *)
(* itself and followed by "ls".                                            *)
(***************************************************************************)
EXTENDS Doas, TLC

SmallArgs ==
    {<<>>, <<"-", "-">>, <<"-", "-", "version">>, <<"-">>, <<"vidoas">>,
     <<"-", "s">>, <<"-", "n">>, <<"-", "u">>, <<"-", "C">>, <<"-", "L">>, <<"-", "v">>,
     <<"-", "n", "u">>, <<"-", "u", "C">>, <<"ls">>, <<"2">>}

Short         == UNION {[1..n -> SmallArgs] : n \in 0..3}
SmallArgLists == Short \cup {Append(a, <<"ls">>) : a \in Short}

SmallNotUtf8 == {"ls"}

SmallPwNam  == "root" :> 0 @@ "alice" :> 1 @@ "2" :> 1 @@ "last" :> 9
SmallGrNam  == "wheel" :> 20 @@ "last" :> 29
SmallNumber == "1" :> 1 @@ "2" :> 2 @@ "20" :> 20

SmallPasswd == [u \in {0, 1, 2} |-> [gid |-> 10 + u, groups |-> IF u = 1 THEN {20} ELSE {}]]

SmallCallers == {[uid |-> u, gid |-> 10 + u, groups |-> {10 + u, 20}] : u \in {1, 3}}

Base == [permit |-> TRUE, nopass |-> FALSE, persist |-> FALSE, keepenv |-> FALSE,
         user |-> "alice", group |-> NoName, target |-> NoName, cmd |-> <<>>,
         envs |-> <<>>]

SmallRules ==
    {Base,
     [Base EXCEPT !.permit = FALSE, !.target = "root"],
     [Base EXCEPT !.user = NoName, !.group = "wheel", !.cmd = <<<<"ls">>>>,
                  !.keepenv = TRUE, !.nopass = TRUE],
     [Base EXCEPT !.user = "2", !.group = "20", !.persist = TRUE,
                  !.envs = <<SetVar("TERM", "v"), KeepVar("LD"), RemoveVar("TERM"),
                             CopyVar("HOME", "LD"), SetVar("NEW", "v")>>],
     [Base EXCEPT !.permit = FALSE, !.cmd = <<<<"ls">>, <<>>>>],
     [Base EXCEPT !.user = "last"]}

SmallEnvs == {{}, {"TERM", "PATH"}, {"LD", "TERM"}}

SmallSlashed == {<<"sh">>}
SmallPrograms == {"sh", "ls"}
=============================================================================
