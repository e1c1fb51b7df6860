------------------------------ MODULE CmdArgs ------------------------------
(***************************************************************************)
(* CmdArgs::parse (command.rs).  An argument is a sequence of letters:     *)
(* <<>> is the empty one, <<"-", "u">> is -u, and a name or a path is one   *)
(* letter.  The arguments are consumed from the front; -u and -C take      *)
(* their value out of the next argument (mem::take) and leave an empty one *)
(* behind, which the loop skips.                                           *)
(***************************************************************************)
EXTENDS Naturals, Sequences

CONSTANTS
    ArgLists,   \* the command lines looked at
    NotUtf8     \* letters that are not utf-8

Word == Seq(STRING)

ASSUME ArgsAssumption == ArgLists \subseteq Seq(Word)

VARIABLES
    orig,      \* history: the command line
    argv,      \* the arguments that are left
    letters,   \* the options of the cluster under way that are left
    hasNext,   \* the cluster has not taken the argument behind it
    parsed,    \* CmdArgs: options given, values of -u and -C, command
    mode       \* "args", "options", "usage", "version", "parsed", "returned"

args == <<orig, argv, letters, hasNext, parsed, mode>>

NoArg == <<>>

ArgsInit ==
    /\ orig \in ArgLists
    /\ argv = orig
    /\ letters = <<>>
    /\ hasNext = FALSE
    /\ parsed = [given |-> {}, vidoas |-> FALSE, user |-> NoArg, config |-> NoArg,
                 command |-> <<>>]
    /\ mode = IF orig = <<>> THEN "usage" ELSE "args"

Usage == mode' = "usage" /\ UNCHANGED <<argv, letters, hasNext, parsed>>

ExtendCmds(rest) ==
    IF parsed.given \cap {"s", "L"} # {} THEN Usage
    ELSE /\ parsed' = [parsed EXCEPT !.command = rest]
         /\ argv' = <<>>
         /\ UNCHANGED <<letters, hasNext, mode>>

SkipEmpty(arg) ==
    /\ arg = NoArg
    /\ argv' = Tail(argv)
    /\ UNCHANGED <<letters, hasNext, parsed, mode>>

DashDash(arg) == arg = <<"-", "-">> /\ ExtendCmds(Tail(argv))

\* --version prints and exits, whatever else was given.
Version(arg) ==
    /\ arg = <<"-", "-", "version">>
    /\ mode' = "version"
    /\ UNCHANGED <<argv, letters, hasNext, parsed>>

VidoasWord(arg) ==
    /\ arg = <<"vidoas">>
    /\ parsed' = [parsed EXCEPT !.vidoas = TRUE]
    /\ argv' = Tail(argv)
    /\ UNCHANGED <<letters, hasNext, mode>>

\* A lone "-" is a cluster without options.
Cluster(arg) ==
    /\ arg # NoArg /\ arg[1] = "-"
    /\ arg \notin {<<"-", "-">>, <<"-", "-", "version">>}
    /\ letters' = Tail(arg)
    /\ argv' = Tail(argv)
    /\ hasNext' = (Tail(argv) # <<>>)
    /\ mode' = "options"
    /\ UNCHANGED parsed

Command(arg) ==
    /\ arg # NoArg /\ arg[1] # "-" /\ arg # <<"vidoas">>
    /\ ExtendCmds(argv)

NextArg ==
    /\ mode = "args" /\ argv # <<>>
    /\ LET arg == Head(argv)
       IN  \/ SkipEmpty(arg) \/ DashDash(arg) \/ Version(arg) \/ VidoasWord(arg)
           \/ Cluster(arg) \/ Command(arg)
    /\ UNCHANGED orig

\* Mutant: the value stays where it is.
TakeNext_Copies == hasNext' = FALSE /\ UNCHANGED argv

\* mem::take of the next argument
TakeNext ==
    /\ hasNext' = FALSE
    /\ argv' = <<NoArg>> \o Tail(argv)

\* No option, -u and -C among them, may be given twice.
HandleOption ==
    /\ mode = "options" /\ letters # <<>>
    /\ LET o == Head(letters)
           flag == o \in {"s", "n", "L", "v"}
           value == o \in {"u", "C"} /\ hasNext
                      /\ (o = "u" => \A l \in NotUtf8 : argv[1] # <<l>>)
       IN  IF o \in parsed.given \/ ~(flag \/ value) THEN Usage
           ELSE /\ letters' = Tail(letters)
                /\ IF flag THEN UNCHANGED <<argv, hasNext>> ELSE TakeNext
                /\ parsed' = [parsed EXCEPT !.given = @ \cup {o},
                                 !.user = IF o = "u" THEN argv[1] ELSE @,
                                 !.config = IF o = "C" THEN argv[1] ELSE @]
                /\ UNCHANGED mode
    /\ UNCHANGED orig

ClusterEnds ==
    /\ mode = "options" /\ letters = <<>>
    /\ mode' = "args"
    /\ UNCHANGED <<orig, argv, letters, hasNext, parsed>>

\* Mutant: -s is not among the conflicts of vidoas.
Conflict_ShellForgotten(p) ==
    \/ "L" \in p.given /\ (p.command # <<>> \/ p.given # {"L"})
    \/ p.vidoas /\ (p.command # <<>> \/ p.given \ {"s"} # {})
    \/ "v" \in p.given /\ "C" \notin p.given
    \/ "C" \in p.given /\ p.given \cap {"s", "n", "u"} # {}
    \/ ~p.vidoas /\ p.given \cap {"s", "L", "C"} = {} /\ p.command = <<>>

\* Mutant: nothing to do at all is let through.
Conflict_CommandMissing(p) ==
    \/ "L" \in p.given /\ (p.command # <<>> \/ p.given # {"L"})
    \/ p.vidoas /\ (p.command # <<>> \/ p.given # {})
    \/ "v" \in p.given /\ "C" \notin p.given
    \/ "C" \in p.given /\ p.given \cap {"s", "n", "u"} # {}

Conflict(p) ==
    \/ "L" \in p.given /\ (p.command # <<>> \/ p.given # {"L"})
    \/ p.vidoas /\ (p.command # <<>> \/ p.given # {})
    \/ "v" \in p.given /\ "C" \notin p.given
    \/ "C" \in p.given /\ p.given \cap {"s", "n", "u"} # {}
    \/ ~p.vidoas /\ p.given \cap {"s", "L", "C"} = {} /\ p.command = <<>>

CheckConflicts ==
    /\ mode = "args" /\ argv = <<>>
    /\ mode' = IF Conflict(parsed) THEN "usage" ELSE "parsed"
    /\ UNCHANGED <<orig, argv, letters, hasNext, parsed>>

\* The caller of parse goes on with its result alone.
ParseReturns ==
    /\ mode \in {"usage", "version", "parsed"}
    /\ mode' = "returned"
    /\ orig' = <<>> /\ argv' = <<>> /\ letters' = <<>> /\ hasNext' = FALSE
    /\ UNCHANGED parsed

ParseStep == NextArg \/ HandleOption \/ ClusterEnds \/ CheckConflicts

----------------------------------------------------------------------------
Modes == {"args", "options", "usage", "version", "parsed", "returned"}

ArgsTypeOK ==
    /\ mode \in Modes
    /\ DOMAIN parsed = {"given", "vidoas", "user", "config", "command"}
    /\ parsed.given \subseteq {"s", "n", "L", "v", "u", "C"}
    /\ parsed.vidoas \in BOOLEAN /\ hasNext \in BOOLEAN

Suffix(s, n) == SubSeq(s, n + 1, Len(s))

\* Taking values out of the argument list from inside a cluster never eats into
\* the command: what is run is the end of the command line, unchanged, and the
\* words of an option before it are not taken for the command.
CommandIsSuffix ==
    mode = "parsed" /\ parsed.command # <<>> =>
        \E n \in 0..Len(orig) :
            /\ parsed.command = Suffix(orig, n)
            /\ {parsed.user, parsed.config} \subseteq {NoArg} \cup {orig[i] : i \in 1..n}
            /\ \A i \in 1..n : orig[i] # NoArg =>
                  \/ orig[i][1] = "-" \/ orig[i] = <<"vidoas">>
                  \/ orig[i] \in {parsed.user, parsed.config}

\* Whatever was given, it asks for exactly one thing, and all but -L and a
\* check without a command leave something at argvs[0] (main.rs:81).
OneRequest ==
    mode = "parsed" =>
        LET run == parsed.command # <<>> /\ "C" \notin parsed.given
            wants == (parsed.given \cap {"s", "L", "C"})
                       \cup (IF parsed.vidoas THEN {"vidoas"} ELSE {})
                       \cup (IF run THEN {"run"} ELSE {})
        IN  \E w \in wants : wants = {w}
============================================================================
