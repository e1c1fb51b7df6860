----------------------------- MODULE DoasProofs -----------------------------
(***************************************************************************)
(* Proofs about Doas: for any callers, rules, command lines, user data     *)
(* bases and any number of rules.                                          *)
(*                                                                         *)
(* The invariant says, for each point of inner_main, what is already       *)
(* settled there: which ids the process has (IdsOK), what the arguments    *)
(* ask for (AskedOK), for whom the rules are asked (RequestOK), and what   *)
(* the scan of the rules has found so far (ScanOK).  Two more stand beside *)
(* it: how the parser has divided the words (WordsOK), and what the        *)
(* environment was made of (EnvOK).                                        *)
(***************************************************************************)
EXTENDS Doas, SequenceTheorems, WellFoundedInduction, TLAPS

----------------------------------------------------------------------------
\* The command line, first: how much of it is consumed, and what of that the
\* parser still knows.

Values == {parsed.user, parsed.config}

\* The first argument left is one whose value has been taken.
Emptied(n) ==
    /\ n < Len(orig) /\ ~hasNext
    /\ argv = <<NoArg>> \o Suffix(orig, n + 1)
    /\ orig[n + 1] \in Values

\* The first n words were options and their values, or vidoas.
Passed(n) ==
    \A i \in 1..n : orig[i] # NoArg =>
        orig[i][1] = "-" \/ orig[i] = <<"vidoas">> \/ orig[i] \in Values

Before(n) == {NoArg} \cup {orig[i] : i \in 1..n}

Consumed(n) ==
    /\ Passed(n)
    /\ \/ argv = Suffix(orig, n) /\ Values \subseteq Before(n)
       \/ Emptied(n) /\ Values \subseteq Before(n + 1)

CommandFrom(n) ==
    parsed.command = Suffix(orig, n) /\ Values \subseteq Before(n) /\ Passed(n)

WordsOK ==
    /\ orig \in Seq(Word) /\ argv \in Seq(Word)
    /\ mode = "options" /\ hasNext => argv # <<>>
    /\ "u" \notin parsed.given => parsed.user = NoArg
    /\ "C" \notin parsed.given => parsed.config = NoArg
    /\ mode \in {"args", "options", "parsed"} =>
          \E n \in 0..Len(orig) :
              (parsed.command = <<>> /\ Consumed(n)) \/ (argv = <<>> /\ CommandFrom(n))

\* The rest of a command line, word by word.
LEMMA SuffixTail ==
    ASSUME NEW S, NEW s \in Seq(S), NEW n \in 0..Len(s), Suffix(s, n) # <<>>
    PROVE  /\ n < Len(s) /\ Suffix(s, n)[1] = s[n + 1]
           /\ Tail(Suffix(s, n)) = Suffix(s, n + 1)
<1>1. Len(s) \in Nat /\ n \in Nat
  OBVIOUS
<1>2. n < Len(s)
  <2>1. SUFFICES ASSUME n = Len(s)
                 PROVE  FALSE
    BY <1>1
  <2> QED
    BY <1>1, <2>1, SubSeqEmpty DEF Suffix
<1>3. n + 1 \in 1..Len(s) /\ Len(s) \in (n + 1)..Len(s)
  BY <1>1, <1>2
<1>4. Head(SubSeq(s, n + 1, Len(s))) = s[n + 1]
      /\ Tail(SubSeq(s, n + 1, Len(s))) = SubSeq(s, n + 1 + 1, Len(s))
  BY <1>3, HeadTailOfSubSeq
<1> QED
  BY <1>2, <1>4 DEF Suffix

\* The rest of a command line is one.
LEMMA SuffixType ==
    ASSUME NEW S, NEW s \in Seq(S), NEW n \in Nat
    PROVE  Suffix(s, n) \in Seq(S) /\ Suffix(s, n + 1) \in Seq(S)
<1>1. ASSUME NEW m \in Nat
      PROVE  Suffix(s, m) \in Seq(S)
  <2>1. m + 1 \in Int /\ Len(s) \in Int /\ \A i \in (m + 1)..Len(s) : s[i] \in S
    OBVIOUS
  <2> QED
    BY <2>1, SubSeqProperties DEF Suffix
<1> QED
  BY <1>1

\* The word in front of a command line (TakeNext puts an empty one there).
LEMMA TailOfCons ==
    ASSUME NEW S, NEW s \in Seq(S), NEW e \in S
    PROVE  /\ Tail(<<e>> \o s) = s /\ <<e>> \o s # <<>> /\ (<<e>> \o s)[1] = e
           /\ <<e>> \o s \in Seq(S)
<1>1. <<e>> \in Seq(S) /\ Len(<<e>>) = 1
  OBVIOUS
<1>2. <<e>> \o s \in Seq(S) /\ Len(<<e>> \o s) = 1 + Len(s)
      /\ \A i \in 1..(1 + Len(s)) : (<<e>> \o s)[i] = IF i <= 1 THEN <<e>>[i] ELSE s[i - 1]
  BY <1>1, ConcatProperties
<1> DEFINE t == <<e>> \o s
<1>3. Len(s) \in Nat /\ t \in Seq(S) /\ Len(t) = 1 + Len(s)
      /\ t[1] = e /\ \A i \in 1..Len(s) : t[i + 1] = s[i]
  BY <1>2
<1> HIDE DEF t
<1>4. t # <<>> /\ Tail(t) \in Seq(S) /\ Len(Tail(t)) = Len(s)
      /\ \A i \in 1..Len(Tail(t)) : Tail(t)[i] = t[i + 1]
  BY <1>3, HeadTailProperties
<1>5. Tail(t) = s
  BY <1>3, <1>4, SeqEqual
<1> QED
  BY <1>3, <1>4, <1>5 DEF t

\* One word more is consumed: an empty one, an option, or vidoas.
LEMMA OneWordMore ==
    ASSUME WordsOK, NEW n \in 0..Len(orig), Consumed(n), argv # <<>>
    PROVE  /\ n + 1 \in 0..Len(orig) /\ Tail(argv) = Suffix(orig, n + 1)
           /\ Values \subseteq Before(n + 1)
           /\ argv[1] = orig[n + 1] \/ (argv[1] = NoArg /\ orig[n + 1] \in Values)
           /\ argv[1] # NoArg => argv = Suffix(orig, n) /\ Values \subseteq Before(n)
<1>0. orig \in Seq(Word) /\ n \in Nat /\ Len(orig) \in Nat /\ NoArg \in Word
  BY DEF WordsOK, NoArg, Word
<1>1. CASE argv = Suffix(orig, n) /\ Values \subseteq Before(n)
  <2>1. n < Len(orig) /\ argv[1] = orig[n + 1] /\ Tail(argv) = Suffix(orig, n + 1)
    BY <1>0, <1>1, SuffixTail
  <2>2. Before(n) \subseteq Before(n + 1)
    BY <1>0 DEF Before
  <2> QED
    BY <1>0, <1>1, <2>1, <2>2
<1>2. CASE Emptied(n) /\ Values \subseteq Before(n + 1)
  <2>1. Suffix(orig, n + 1) \in Seq(Word)
    BY <1>0, SuffixType
  <2>2. Tail(argv) = Suffix(orig, n + 1) /\ argv[1] = NoArg
    BY <1>0, <1>2, <2>1, TailOfCons DEF Emptied
  <2> QED
    BY <1>0, <1>2, <2>2 DEF Emptied
<1> QED
  BY <1>1, <1>2 DEF Consumed

\* The words that go by without being taken for the command.
LEMMA WordGoesBy ==
    ASSUME WordsOK, mode = "args", argv # <<>>, UNCHANGED orig,
           argv' = Tail(argv), mode' \in {"args", "options"},
           mode' = "options" /\ hasNext' => argv' # <<>>,
           argv[1] # NoArg => argv[1][1] = "-" \/ argv[1] = <<"vidoas">>,
           UNCHANGED <<parsed.given, parsed.user, parsed.config, parsed.command>>
    PROVE  WordsOK'
<1>1. PICK n \in 0..Len(orig) : parsed.command = <<>> /\ Consumed(n)
  BY DEF WordsOK
<1>2. /\ n + 1 \in 0..Len(orig) /\ Tail(argv) = Suffix(orig, n + 1)
      /\ Values \subseteq Before(n + 1)
      /\ argv[1] = orig[n + 1] \/ (argv[1] = NoArg /\ orig[n + 1] \in Values)
  BY <1>1, OneWordMore
<1>3. Values' = Values /\ Before(n + 1)' = Before(n + 1)
      /\ Suffix(orig, n + 1)' = Suffix(orig, n + 1)
  BY DEF Values, Before
<1>4. Passed(n + 1)'
  <2>1. SUFFICES ASSUME NEW i \in 1..(n + 1), orig[i] # NoArg
                 PROVE  \/ orig[i][1] = "-" \/ orig[i] = <<"vidoas">>
                        \/ orig[i] \in Values
    BY <1>3 DEF Passed
  <2>2. CASE i \in 1..n
    BY <1>1, <2>1, <2>2 DEF Consumed, Passed
  <2>3. CASE i = n + 1
    BY <1>2, <2>1, <2>3
  <2> QED
    BY <2>2, <2>3
<1>5. Consumed(n + 1)' /\ parsed'.command = <<>>
  BY <1>1, <1>2, <1>3, <1>4 DEF Consumed
<1>6. argv' \in Seq(Word)
  BY DEF WordsOK
<1>7. orig \in Seq(Word) /\ ("u" \notin parsed'.given => parsed'.user = NoArg)
      /\ ("C" \notin parsed'.given => parsed'.config = NoArg)
  BY DEF WordsOK
<1>8. \E m \in 0..Len(orig') : parsed'.command = <<>> /\ Consumed(m)'
  BY <1>2, <1>5
<1> QED
  BY <1>6, <1>7, <1>8 DEF WordsOK

\* The words from one on are the command.
LEMMA WordsAreCommand ==
    ASSUME ArgsTypeOK, WordsOK, mode = "args", argv # <<>>, UNCHANGED orig,
           NEW rest, ExtendCmds(rest),
           \/ rest = Tail(argv) /\ argv[1] = <<"-", "-">>
           \/ rest = argv /\ argv[1] # NoArg
    PROVE  WordsOK'
<1>1. PICK n \in 0..Len(orig) : parsed.command = <<>> /\ Consumed(n)
  BY DEF WordsOK
<1>2. /\ n + 1 \in 0..Len(orig) /\ Tail(argv) = Suffix(orig, n + 1)
      /\ Values \subseteq Before(n + 1)
      /\ argv[1] = orig[n + 1] \/ (argv[1] = NoArg /\ orig[n + 1] \in Values)
      /\ argv[1] # NoArg => argv = Suffix(orig, n) /\ Values \subseteq Before(n)
  BY <1>1, OneWordMore
<1>3. CASE Usage
  BY <1>3 DEF WordsOK, Usage
<1>4. CASE ~Usage
  <2>1. /\ parsed' = [parsed EXCEPT !.command = rest] /\ argv' = <<>> /\ mode' = mode
        /\ hasNext' = hasNext
    BY <1>4 DEF ExtendCmds
  <2>2. /\ parsed'.command = rest /\ parsed'.user = parsed.user
        /\ parsed'.config = parsed.config /\ parsed'.given = parsed.given
    BY <2>1 DEF ArgsTypeOK
  <2>3. Values' = Values
    BY <2>2 DEF Values
  <2>4. \E m \in 0..Len(orig) : CommandFrom(m)'
    <3>1. CASE rest = argv /\ argv[1] # NoArg
      <4>1. CommandFrom(n)'
        BY <1>1, <1>2, <2>2, <2>3, <3>1 DEF CommandFrom, Consumed, Passed, Before, Suffix
      <4> QED
        BY <4>1
    <3>2. CASE rest = Tail(argv) /\ argv[1] = <<"-", "-">>
      <4>1. argv[1] # NoArg /\ argv[1][1] = "-"
        BY <3>2 DEF NoArg
      <4>2. Passed(n + 1)
        <5>1. SUFFICES ASSUME NEW i \in 1..(n + 1), i \notin 1..n
                       PROVE  orig[i][1] = "-"
          BY <1>1 DEF Consumed, Passed
        <5> QED
          BY <1>2, <4>1, <5>1
      <4>3. CommandFrom(n + 1)'
        BY <1>2, <2>2, <2>3, <3>2, <4>2 DEF CommandFrom, Passed, Before, Suffix
      <4> QED
        BY <1>2, <4>3
    <3> QED
      BY <3>1, <3>2
  <2> QED
    BY <2>1, <2>2, <2>4 DEF WordsOK
<1> QED
  BY <1>3, <1>4

\* A value is taken out of the next word.
LEMMA ValueTaken ==
    ASSUME ArgsTypeOK, WordsOK, mode = "options", hasNext, UNCHANGED <<orig, mode>>,
           TakeNext, NEW o \in {"u", "C"}, o \notin parsed.given,
           parsed' = [parsed EXCEPT !.given = @ \cup {o},
                                    !.user = IF o = "u" THEN argv[1] ELSE @,
                                    !.config = IF o = "C" THEN argv[1] ELSE @]
    PROVE  WordsOK'
<1>0. /\ orig \in Seq(Word) /\ argv \in Seq(Word) /\ argv # <<>>
      /\ Len(orig) \in Nat /\ NoArg \in Word
  BY DEF WordsOK, NoArg, Word
<1>1. PICK n \in 0..Len(orig) : parsed.command = <<>> /\ Consumed(n)
  BY <1>0 DEF WordsOK
<1>2. argv = Suffix(orig, n) /\ Values \subseteq Before(n) /\ Passed(n)
  BY <1>1 DEF Consumed, Emptied
<1>3. n < Len(orig) /\ argv[1] = orig[n + 1] /\ Tail(argv) = Suffix(orig, n + 1)
  BY <1>0, <1>2, SuffixTail
<1>4. /\ parsed'.command = <<>> /\ parsed'.given = parsed.given \cup {o}
      /\ o = "u" => parsed'.user = argv[1] /\ parsed'.config = parsed.config
      /\ o = "C" => parsed'.config = argv[1] /\ parsed'.user = parsed.user
  BY <1>1 DEF ArgsTypeOK
<1>5. Values \subseteq Values' \cup {NoArg} /\ argv[1] \in Values'
      /\ Values' \subseteq Values \cup {argv[1]}
  BY <1>4 DEF WordsOK, Values
<1>6. Suffix(orig, n + 1) \in Seq(Word)
  BY <1>0, SuffixType
<1>7. argv' = <<NoArg>> \o Suffix(orig, n + 1) /\ ~hasNext'
  BY <1>3 DEF TakeNext
<1>8. argv' \in Seq(Word)
  BY <1>0, <1>6, <1>7, TailOfCons
<1>9. Emptied(n)'
  BY <1>3, <1>5, <1>7 DEF Emptied, Suffix
<1>10. Passed(n)'
  BY <1>2, <1>5 DEF Passed
<1>11. Values' \subseteq Before(n + 1)'
  <2>1. 1..n \subseteq 1..(n + 1) /\ n + 1 \in 1..(n + 1)
    BY <1>0
  <2>2. Before(n) \cup {orig[n + 1]} \subseteq Before(n + 1)'
    BY <2>1 DEF Before
  <2>3. NoArg \in Before(n) /\ Values' \subseteq Before(n) \cup {orig[n + 1]}
    BY <1>2, <1>3, <1>5 DEF Before
  <2> QED
    BY <2>2, <2>3
<1>12. \E m \in 0..Len(orig') : parsed'.command = <<>> /\ Consumed(m)'
  BY <1>4, <1>9, <1>10, <1>11 DEF Consumed
<1>13. ("u" \notin parsed'.given => parsed'.user = NoArg)
       /\ ("C" \notin parsed'.given => parsed'.config = NoArg)
  BY <1>4 DEF WordsOK
<1> QED
  BY <1>0, <1>7, <1>8, <1>12, <1>13 DEF WordsOK

\* Nothing the words depend on changes but the options given.
LEMMA WordsStay ==
    ASSUME WordsOK, UNCHANGED <<orig, argv, hasNext>>, mode \in {"args", "options"},
           UNCHANGED <<parsed.user, parsed.config, parsed.command>>,
           parsed.given \subseteq parsed'.given,
           mode' = mode \/ mode' \notin {"options"}
    PROVE  WordsOK'
<1>1. Values' = Values
  BY DEF Values
<1>2. \A n : Consumed(n)' = Consumed(n) /\ CommandFrom(n)' = CommandFrom(n)
  BY <1>1 DEF Consumed, CommandFrom, Passed, Before, Emptied, Suffix
<1> QED
  BY <1>2 DEF WordsOK

\* Every step of the parser keeps the words apart.
LEMMA ParseWords ==
    ASSUME ArgsTypeOK, WordsOK, ParseStep
    PROVE  WordsOK'
<1>1. CASE NextArg
  <2> DEFINE arg == Head(argv)
  <2>0. mode = "args" /\ argv # <<>> /\ orig' = orig /\ arg = argv[1]
    BY <1>1 DEF NextArg
  <2>1. CASE SkipEmpty(arg) \/ VidoasWord(arg)
    <3>1. /\ UNCHANGED <<parsed.given, parsed.user, parsed.config, parsed.command>>
          /\ argv' = Tail(argv) /\ mode' = "args" /\ arg \in {NoArg, <<"vidoas">>}
      BY <2>0, <2>1 DEF SkipEmpty, VidoasWord, ArgsTypeOK
    <3> QED
      BY <2>0, <3>1, WordGoesBy
  <2>2. CASE Cluster(arg)
    <3>1. /\ UNCHANGED parsed /\ argv' = Tail(argv) /\ mode' = "options"
          /\ hasNext' => argv' # <<>>
          /\ arg[1] = "-"
      BY <2>2 DEF Cluster
    <3>2. UNCHANGED <<parsed.given, parsed.user, parsed.config, parsed.command>>
      BY <3>1
    <3> QED
      BY <2>0, <3>1, <3>2, WordGoesBy
  <2>3. CASE Version(arg)
    BY <2>0, <2>3 DEF Version, WordsOK
  <2>4. CASE DashDash(arg) \/ Command(arg)
    BY <2>0, <2>4, WordsAreCommand DEF DashDash, Command
  <2> QED
    BY <1>1, <2>1, <2>2, <2>3, <2>4 DEF NextArg
<1>2. CASE HandleOption
  <2> DEFINE o == Head(letters)
  <2>0. mode = "options" /\ orig' = orig
    BY <1>2 DEF HandleOption
  <2>1. CASE Usage
    BY <2>0, <2>1 DEF Usage, WordsOK
  <2>2. CASE ~Usage /\ o \in {"u", "C"}
    <3>1. hasNext /\ TakeNext /\ mode' = mode /\ o \notin parsed.given
      BY <1>2, <2>2 DEF HandleOption
    <3>2. parsed' = [parsed EXCEPT !.given = @ \cup {o},
                                   !.user = IF o = "u" THEN argv[1] ELSE @,
                                   !.config = IF o = "C" THEN argv[1] ELSE @]
      BY <1>2, <2>2 DEF HandleOption
    <3> HIDE DEF o
    <3> QED
      BY <2>0, <2>2, <3>1, <3>2, ValueTaken
  <2>3. CASE ~Usage /\ o \notin {"u", "C"}
    <3>1. UNCHANGED <<argv, hasNext, mode>>
      BY <1>2, <2>3 DEF HandleOption
    <3>2. parsed' = [parsed EXCEPT !.given = @ \cup {o}, !.user = @, !.config = @]
      BY <1>2, <2>3 DEF HandleOption
    <3>3. UNCHANGED <<parsed.user, parsed.config, parsed.command>>
          /\ parsed.given \subseteq parsed'.given
      BY <3>2 DEF ArgsTypeOK
    <3> QED
      BY <2>0, <3>1, <3>3, WordsStay
  <2> QED
    BY <2>1, <2>2, <2>3
<1>3. CASE ClusterEnds \/ CheckConflicts
  <2>1. UNCHANGED <<orig, argv, hasNext, parsed>> /\ mode \in {"args", "options"}
        /\ mode' # "options"
    BY <1>3 DEF ClusterEnds, CheckConflicts
  <2>2. UNCHANGED <<parsed.user, parsed.config, parsed.command>>
        /\ parsed.given \subseteq parsed'.given
    BY <2>1
  <2> QED
    BY <2>1, <2>2, WordsStay
<1> QED
  BY <1>1, <1>2, <1>3 DEF ParseStep

----------------------------------------------------------------------------
\* Induction, with a set for what is proved of each number.
LEMMA SetInduction ==
    ASSUME NEW S, 0 \in S, \A n \in Nat : n \in S => n + 1 \in S
    PROVE  Nat \subseteq S
<1> DEFINE R == OpToRel(<, Nat)
           T == Nat \ S
<1>1. IsWellFoundedOn(R, Nat)
  BY NatLessThanWellFounded
<1>2. \A x, y \in Nat : x < y => <<x, y>> \in R
  BY DEF OpToRel
<1> HIDE DEF R
<1>3. SUFFICES ASSUME T # {}
               PROVE  FALSE
  OBVIOUS
<1>4. PICK x \in T : \A y \in T : ~ (<<y, x>> \in R)
  BY <1>1, <1>3, WFMin
<1>5. x \in Nat /\ x # 0 /\ x - 1 \in Nat /\ x - 1 < x
  BY <1>4
<1>6. x - 1 \in S
  BY <1>2, <1>4, <1>5
<1> QED
  BY <1>4, <1>5, <1>6

\* The recursion over the lines of setenv defines a function.
LEMMA SetEnvsUnfolds ==
    ASSUME NEW envs, NEW setenvs, NEW inherited, Len(setenvs) \in Nat
    PROVE  SetEnvs(envs, setenvs, inherited) =
               [i \in 0..Len(setenvs) |->
                   IF i = 0 THEN envs
                   ELSE ApplyEnv(inherited, SetEnvs(envs, setenvs, inherited)[i - 1],
                                 setenvs[i])]
<1> DEFINE L == Len(setenvs)
           Step(f, n) == [i \in 0..n |-> IF i = 0 THEN envs
                                         ELSE ApplyEnv(inherited, f[i - 1], setenvs[i])]
           S == {n \in Nat : \E f : f = Step(f, n)}
<1>1. 0 \in S
  <2>1. [i \in {0} |-> envs] = Step([i \in {0} |-> envs], 0)
    OBVIOUS
  <2> QED
    BY <2>1
<1>2. ASSUME NEW n \in Nat, n \in S
      PROVE  n + 1 \in S
  <2>1. PICK f : f = Step(f, n)
    BY <1>2
  <2> DEFINE g == [i \in 0..(n + 1) |->
                      IF i = n + 1 THEN ApplyEnv(inherited, f[n], setenvs[n + 1]) ELSE f[i]]
  <2>2. DOMAIN f = 0..n /\ \A i \in 0..n :
            f[i] = IF i = 0 THEN envs ELSE ApplyEnv(inherited, f[i - 1], setenvs[i])
    BY <2>1
  <2>3. ASSUME NEW i \in 0..(n + 1)
        PROVE  g[i] = IF i = 0 THEN envs ELSE ApplyEnv(inherited, g[i - 1], setenvs[i])
    <3>1. CASE i = n + 1
      BY <3>1
    <3>2. CASE i \in 0..n
      <4>1. g[i] = f[i] /\ i # n + 1
        BY <3>2
      <4>2. i # 0 => i - 1 \in 0..n /\ i - 1 \in 0..(n + 1) /\ i - 1 # n + 1
        BY <3>2
      <4>3. i # 0 => g[i - 1] = f[i - 1]
        BY <4>2
      <4> HIDE DEF g
      <4> QED
        BY <2>2, <3>2, <4>1, <4>3
    <3> QED
      BY <3>1, <3>2
  <2>4. g = Step(g, n + 1)
    BY <2>3
  <2> HIDE DEF g, Step
  <2>5. \E h : h = Step(h, n + 1)
    BY <2>4
  <2> QED
    BY <2>5
<1>3. L \in S
  BY <1>1, <1>2, SetInduction
<1> DEFINE A == CHOOSE f : f = Step(f, L)
<1>4. A = Step(A, L)
  BY <1>3
<1>5. SetEnvs(envs, setenvs, inherited) = A
  BY DEF SetEnvs
<1> QED
  BY <1>4, <1>5

\* What a name stands for in an environment: nothing, or one value.
ValueIn(envs, n) == IF n \in DOMAIN envs THEN {envs[n]} ELSE {}

\* A line that has something to say of n, and what it says.
Matches(e, n, inherited) ==
    /\ e.key = n
    /\ e.op = "keep" => e.key \in inherited
    /\ e.op = "from" => e.name \in inherited

Says(e, n) == CASE e.op = "set"  -> {Text(e.text)}
                [] e.op = "keep" -> {Caller(n)}
                [] e.op = "from" -> {Caller(e.name)}
                [] OTHER         -> {}

\* Without lines of setenv.
Default(n, keepenv, inherited) ==
    IF n \in FixedNames THEN {ByDoas}
    ELSE IF n \in inherited /\ (n \in CopySet \/ keepenv) THEN {Caller(n)}
    ELSE {}

\* One line changes what its variable is, and no other.
LEMMA OneLine ==
    ASSUME NEW envs, NEW e, NEW inherited, NEW n, e.op \in EnvOps
    PROVE  ValueIn(ApplyEnv(inherited, envs, e), n) =
               IF Matches(e, n, inherited) THEN Says(e, n) ELSE ValueIn(envs, n)
<1> DEFINE with(v) == Inserted(envs, [m \in {e.key} |-> v])
<1>1. \A v : ValueIn(with(v), n) = IF e.key = n THEN {v} ELSE ValueIn(envs, n)
  BY DEF ValueIn, Inserted
<1>2. CASE e.op = "remove"
  <2>1. ApplyEnv(inherited, envs, e) = [m \in DOMAIN envs \ {e.key} |-> envs[m]]
    BY <1>2 DEF ApplyEnv
  <2> QED
    BY <1>2, <2>1 DEF ValueIn, Matches, Says
<1>3. CASE e.op = "set"
  <2>1. ApplyEnv(inherited, envs, e) = with(Text(e.text))
    BY <1>3 DEF ApplyEnv
  <2> QED
    BY <1>1, <1>3, <2>1 DEF Matches, Says
<1>4. CASE e.op = "keep"
  <2>1. ApplyEnv(inherited, envs, e) =
            IF e.key \in inherited THEN with(Caller(e.key)) ELSE envs
    BY <1>4 DEF ApplyEnv
  <2> QED
    BY <1>1, <1>4, <2>1 DEF Matches, Says
<1>5. CASE e.op = "from"
  <2>1. ApplyEnv(inherited, envs, e) =
            IF e.name \in inherited THEN with(Caller(e.name)) ELSE envs
    BY <1>5 DEF ApplyEnv
  <2> QED
    BY <1>1, <1>5, <2>1 DEF Matches, Says
<1> QED
  BY <1>2, <1>3, <1>4, <1>5 DEF EnvOps

\* Before the first line.
LEMMA NoLine ==
    ASSUME NEW keepenv \in BOOLEAN, NEW inherited, NEW n
    PROVE  ValueIn(IF keepenv THEN KeepEnvs(CreateEnv(inherited), inherited)
                   ELSE CreateEnv(inherited), n) = Default(n, keepenv, inherited)
<1>1. FixedNames \cap CopySet = {}
  BY DEF FixedNames, CopySet
<1>2. DOMAIN CreateEnv(inherited) = FixedNames \cup (CopySet \cap inherited)
  BY DEF CreateEnv, Inserted
<1>3. \A m \in DOMAIN CreateEnv(inherited) :
          CreateEnv(inherited)[m] = IF m \in FixedNames THEN ByDoas ELSE Caller(m)
  BY <1>1 DEF CreateEnv, Inserted
<1>4. DOMAIN KeepEnvs(CreateEnv(inherited), inherited) =
          DOMAIN CreateEnv(inherited) \cup inherited
  BY DEF KeepEnvs, Inserted
<1>5. \A m \in DOMAIN CreateEnv(inherited) \cup inherited :
          KeepEnvs(CreateEnv(inherited), inherited)[m] =
              IF m \in DOMAIN CreateEnv(inherited) THEN CreateEnv(inherited)[m]
              ELSE Caller(m)
  BY DEF KeepEnvs, Inserted
<1> QED
  BY <1>2, <1>3, <1>4, <1>5 DEF ValueIn, Default

\* The last line that matches decides, among any number of lines.
LEMMA LastLineDecides ==
    ASSUME NEW envs, NEW setenvs, NEW inherited, NEW n, Len(setenvs) \in Nat,
           \A i \in 1..Len(setenvs) : setenvs[i].op \in EnvOps
    PROVE  LET applied == ApplyRuleEnvs(envs, setenvs, inherited)
               lines == {i \in 1..Len(setenvs) : Matches(setenvs[i], n, inherited)}
           IN  \/ lines = {} /\ ValueIn(applied, n) = ValueIn(envs, n)
               \/ \E i \in lines : /\ \A j \in lines : j <= i
                                   /\ ValueIn(applied, n) = Says(setenvs[i], n)
<1> DEFINE L == Len(setenvs)
           after == SetEnvs(envs, setenvs, inherited)
           upTo(k) == {i \in 1..k : Matches(setenvs[i], n, inherited)}
           Settled(k) ==
               \/ upTo(k) = {} /\ ValueIn(after[k], n) = ValueIn(envs, n)
               \/ \E i \in upTo(k) : /\ \A j \in upTo(k) : j <= i
                                     /\ ValueIn(after[k], n) = Says(setenvs[i], n)
           S == {k \in Nat : k <= L => Settled(k)}
<1>1. /\ after[0] = envs
      /\ \A k \in 1..L : after[k] = ApplyEnv(inherited, after[k - 1], setenvs[k])
  BY SetEnvsUnfolds
<1> HIDE DEF after
<1>2. 0 \in S
  <2>1. upTo(0) = {}
    OBVIOUS
  <2> QED
    BY <1>1, <2>1
<1>3. ASSUME NEW k \in Nat, k \in S
      PROVE  k + 1 \in S
  <2> SUFFICES ASSUME k + 1 <= L
               PROVE  Settled(k + 1)
    OBVIOUS
  <2> DEFINE e == setenvs[k + 1]
  <2>1. Settled(k) /\ k + 1 \in 1..L
    BY <1>3
  <2>2. ValueIn(after[k + 1], n) =
            IF Matches(e, n, inherited) THEN Says(e, n) ELSE ValueIn(after[k], n)
    <3>1. after[k + 1] = ApplyEnv(inherited, after[k], e) /\ e.op \in EnvOps
      BY <1>1, <2>1
    <3> QED
      BY <3>1, OneLine
  <2>3. upTo(k + 1) = upTo(k) \cup (IF Matches(e, n, inherited) THEN {k + 1} ELSE {})
    <3>1. 1..(k + 1) = (1..k) \cup {k + 1}
      OBVIOUS
    <3> QED
      BY <3>1
  <2>4. \A i \in upTo(k) : i <= k + 1
    OBVIOUS
  <2> HIDE DEF upTo
  <2>5. CASE Matches(e, n, inherited)
    <3>1. k + 1 \in upTo(k + 1) /\ \A j \in upTo(k + 1) : j <= k + 1
      BY <2>3, <2>4, <2>5
    <3> QED
      BY <2>2, <2>5, <3>1
  <2>6. CASE ~Matches(e, n, inherited)
    <3>1. upTo(k + 1) = upTo(k) /\ ValueIn(after[k + 1], n) = ValueIn(after[k], n)
      BY <2>2, <2>3, <2>6
    <3> QED
      BY <2>1, <3>1
  <2> QED
    BY <2>5, <2>6
<1>4. L \in S
  BY <1>2, <1>3, SetInduction
<1> QED
  BY <1>4 DEF ApplyRuleEnvs, after

----------------------------------------------------------------------------
\* The points before the arguments are known, and those where none of the ids
\* of the caller has been given up.
Early    == {"args", "failed", "done"}
AsCaller == {"clear", "target", "identify", "downgrade", "targetpw", "euid", "rules",
             "auth", "setregid"}
Checking == {"openconf", "check", "permit", "deny"}
Running  == {"euid", "rules", "auth", "setregid", "initgroups", "setreuid", "search",
             "env", "exec", "vidoas"}

\* What each step of taking on the target's identity has settled.
IdsOK ==
    LET t == request.target
    IN  /\ pc \notin Early => caller \in Callers
        /\ pc \in AsCaller =>
              cred \in {Ids(caller.uid, e, caller.gid, caller.groups) : e \in {0, caller.uid}}
        /\ pc \in Checking => cred = Ids(caller.uid, caller.uid, caller.gid, caller.groups)
        /\ pc \in Running => t \in DOMAIN Passwd /\ t \in AnyId
        /\ pc \in {"initgroups", "setreuid"} =>
              {cred.rgid, cred.egid, cred.sgid} = {Passwd[t].gid}
        /\ pc = "setreuid" => cred.groups = Passwd[t].groups \cup {Passwd[t].gid}
        /\ pc \in {"search", "env", "exec", "vidoas"} =>
              cred = Ids(t, t, Passwd[t].gid, Passwd[t].groups \cup {Passwd[t].gid})

\* Past the arguments they are free of conflicts, and each path has its options.
AskedOK ==
    /\ parsed.command # <<>> => argv = <<>> /\ mode # "options" /\ "s" \notin parsed.given
    /\ mode = "parsed" => ~Conflict(parsed)
    /\ pc \notin Early => ~Conflict(parsed)
    /\ pc \notin Early \cup {"clear"} => "L" \notin parsed.given
    /\ pc \in Running \cup {"targetpw"} => "C" \notin parsed.given

\* The rules are asked for the caller, with something to run.
Unasked == {"clear", "target", "identify"}

RequestOK ==
    /\ pc \notin Early \cup Unasked =>
          request.uid = caller.uid /\ request.groups = caller.groups
    /\ pc \in Running \cup {"targetpw", "check", "permit", "deny"} => request.cmdline # <<>>

\* `last` is the last rule that matches among those tried so far.
NoneMatches == \A j \in DOMAIN conf : ~MatchRule(conf[j], request)

LastIs(i) ==
    /\ last = <<conf[i]>> /\ MatchRule(conf[i], request)
    /\ \A j \in (i + 1)..Len(conf) : ~MatchRule(conf[j], request)

Unscanned == {"args"} \cup Unasked \cup {"downgrade", "openconf", "targetpw", "euid"}

ScanOK ==
    /\ pc \in Unscanned => conf = <<>> /\ last = <<>>
    /\ (last = <<>> /\ NoneMatches) \/ (\E i \in DOMAIN conf : LastIs(i))
    /\ pc \in {"auth", "setregid", "initgroups", "setreuid", "search", "env", "exec",
               "vidoas", "permit"} => last # <<>> /\ last[1].permit
    /\ pc = "deny" => ~(last # <<>> /\ last[1].permit)

DInv == TypeOK /\ IdsOK /\ AskedOK /\ RequestOK /\ ScanOK

USE IdAssumption, DoasAssumption
USE DEF DInv, Early, AsCaller, Checking, Running, Unasked, Unscanned, NoneMatches, LastIs,
        At, Goto, Fail, Call, Rule, Has, Ids, AnyId, Labels, Final, Modes, args, ArgsTypeOK

\* The initial states satisfy the invariant.
LEMMA InitInv == Init => DInv
<1> SUFFICES ASSUME Init
             PROVE  DInv
  OBVIOUS
<1>1. ArgsTypeOK /\ request.target \in AnyId /\ conf = <<>>
  BY DEF Init, ArgsInit, NoRequest
<1>2. cred \in [ruid : AnyId, euid : AnyId, suid : AnyId,
               rgid : AnyId, egid : AnyId, sgid : AnyId, groups : SUBSET Nat]
  BY DEF Init
<1>3. TypeOK
  BY <1>1, <1>2 DEF TypeOK, Init
<1>4. IdsOK /\ AskedOK /\ RequestOK /\ ScanOK
  BY DEF IdsOK, AskedOK, RequestOK, ScanOK, Init, ArgsInit
<1> QED
  BY <1>3, <1>4

\* Reading the arguments: only CheckConflicts ends it with a request.
LEMMA ParseArgsStep ==
    ASSUME DInv, ParseArgs
    PROVE  DInv'
<1>1. IdsOK' /\ RequestOK' /\ ScanOK'
  BY DEF IdsOK, RequestOK, ScanOK, ParseArgs, ParseStep, NextArg, SkipEmpty, DashDash,
         Version, VidoasWord, Cluster, Command, ExtendCmds, Usage, HandleOption,
         TakeNext, ClusterEnds, CheckConflicts
<1>2. TypeOK'
  <2>1. UNCHANGED <<pc, caller, cred, request, conf>>
    BY DEF ParseArgs
  <2>2. ArgsTypeOK'
    <3>1. CASE NextArg
      <4> DEFINE arg == Head(argv)
      <4>1. CASE SkipEmpty(arg) \/ Version(arg) \/ VidoasWord(arg) \/ Cluster(arg)
        BY <4>1 DEF TypeOK, SkipEmpty, Version, VidoasWord, Cluster
      <4>2. CASE \E rest : ExtendCmds(rest)
        BY <4>2 DEF TypeOK, ExtendCmds, Usage
      <4>3. CASE DashDash(arg) \/ Command(arg)
        BY <4>2, <4>3 DEF DashDash, Command
      <4> QED
        BY <3>1, <4>1, <4>3 DEF NextArg
    <3>2. CASE HandleOption
      <4> DEFINE o == Head(letters)
      <4>1. CASE Usage
        BY <4>1 DEF TypeOK, Usage
      <4>2. CASE o \in {"s", "n", "L", "v", "u", "C"} /\ ~Usage
        <5>1. parsed'.given = parsed.given \cup {o} /\ parsed'.vidoas = parsed.vidoas
              /\ DOMAIN parsed' = DOMAIN parsed
          BY <3>2, <4>2 DEF TypeOK, HandleOption
        <5>2. mode' = mode /\ hasNext' \in {hasNext, FALSE}
          BY <3>2, <4>2 DEF TypeOK, HandleOption, TakeNext
        <5> QED
          BY <4>2, <5>1, <5>2 DEF TypeOK
      <4> QED
        BY <3>2, <4>1, <4>2 DEF HandleOption
    <3>3. CASE ClusterEnds \/ CheckConflicts
      BY <3>3 DEF TypeOK, ClusterEnds, CheckConflicts
    <3> QED
      BY <3>1, <3>2, <3>3 DEF ParseArgs, ParseStep
  <2> QED
    BY <2>1, <2>2 DEF TypeOK
<1>3. AskedOK'
  <2> DEFINE Scanned(c, a, m, g) == c # <<>> => a = <<>> /\ m # "options" /\ "s" \notin g
  <2>1. pc = "args" /\ pc' = pc
    BY DEF ParseArgs
  <2>2. mode' = "parsed" => ~Conflict(parsed')
    BY DEF AskedOK, ParseArgs, ParseStep, NextArg, SkipEmpty, DashDash, Version, VidoasWord,
           Cluster, Command, ExtendCmds, Usage, HandleOption, ClusterEnds, CheckConflicts
  <2>3. Scanned(parsed.command, argv, mode, parsed.given)
    BY DEF AskedOK
  <2>4. DOMAIN parsed = {"given", "vidoas", "user", "config", "command"}
    BY DEF TypeOK
  <2>5. Scanned(parsed'.command, argv', mode', parsed'.given)
    <3>1. CASE NextArg
      <4> DEFINE arg == Head(argv)
      <4>1. argv # <<>> /\ mode = "args" /\ parsed.command = <<>>
        BY <2>3, <3>1 DEF NextArg
      <4>2. CASE SkipEmpty(arg) \/ Version(arg) \/ VidoasWord(arg) \/ Cluster(arg)
        <5>1. parsed'.command = parsed.command
          BY <2>4, <4>2 DEF SkipEmpty, Version, VidoasWord, Cluster
        <5> QED
          BY <4>1, <5>1
      <4>3. CASE \E rest : ExtendCmds(rest)
        BY <2>4, <4>1, <4>3 DEF ExtendCmds, Usage
      <4>4. CASE DashDash(arg) \/ Command(arg)
        BY <4>3, <4>4 DEF DashDash, Command
      <4> QED
        BY <3>1, <4>2, <4>4 DEF NextArg
    <3>2. CASE HandleOption
      <4>1. parsed.command = <<>>
        BY <2>3, <3>2 DEF HandleOption
      <4>2. parsed'.command = parsed.command
        BY <2>4, <3>2 DEF HandleOption, Usage
      <4> QED
        BY <4>1, <4>2
    <3>3. CASE ClusterEnds \/ CheckConflicts
      BY <2>3, <3>3 DEF ClusterEnds, CheckConflicts
    <3> QED
      BY <3>1, <3>2, <3>3 DEF ParseArgs, ParseStep
  <2> QED
    BY <2>1, <2>2, <2>5 DEF AskedOK
<1> QED
  BY <1>1, <1>2, <1>3

\* The ids a process starts with.
LEMMA ArgsParsedStep ==
    ASSUME DInv, NEW c \in Callers, NEW setuid \in BOOLEAN, ArgsParsed(c, setuid)
    PROVE  DInv'
<1>1. TypeOK'
  BY DEF TypeOK, ArgsParsed, ParseReturns
<1>2. IdsOK'
  BY DEF IdsOK, ArgsParsed, ParseReturns
<1>3. AskedOK'
  BY DEF AskedOK, ArgsParsed, ParseReturns
<1>4. RequestOK'
  BY DEF RequestOK, ArgsParsed, ParseReturns
<1>5. ScanOK'
  BY DEF ScanOK, ArgsParsed, ParseReturns
<1> QED
  BY <1>1, <1>2, <1>3, <1>4, <1>5

\* -L ends here.
LEMMA ClearStep ==
    ASSUME DInv, Clear
    PROVE  DInv'
<1>1. TypeOK'
  BY DEF TypeOK, Clear
<1>2. IdsOK'
  BY DEF IdsOK, Clear
<1>3. AskedOK'
  BY DEF AskedOK, Clear
<1>4. RequestOK'
  BY DEF RequestOK, Clear
<1>5. ScanOK'
  BY DEF ScanOK, Clear
<1> QED
  BY <1>1, <1>2, <1>3, <1>4, <1>5

\* The target, looked up by name or number.
LEMMA TargetStep ==
    ASSUME DInv, Target
    PROVE  DInv'
<1>1. TypeOK'
  BY DEF TypeOK, Target, ParseUid, Invalid
<1>2. IdsOK'
  BY DEF IdsOK, Target, ParseUid, Invalid
<1>3. AskedOK'
  BY DEF AskedOK, Target, ParseUid, Invalid
<1>4. RequestOK'
  BY DEF RequestOK, Target, ParseUid, Invalid
<1>5. ScanOK'
  BY DEF ScanOK, Target, ParseUid, Invalid
<1> QED
  BY <1>1, <1>2, <1>3, <1>4, <1>5

\* The request: the caller's ids, and the words to run.
LEMMA IdentifyStep ==
    ASSUME DInv, NEW program \in Programs, Identify(program)
    PROVE  DInv'
<1>1. TypeOK'
  BY DEF TypeOK, IdsOK, AskedOK, RequestOK, ScanOK, Identify, Conflict, Editor
<1>2. IdsOK'
  BY DEF IdsOK, Identify, Conflict, Editor
<1>3. AskedOK'
  BY DEF AskedOK, Identify, Conflict, Editor
<1>4. RequestOK'
  BY DEF TypeOK, IdsOK, AskedOK, RequestOK, ScanOK, Identify, Conflict, Editor
<1>5. ScanOK'
  BY DEF ScanOK, Identify, Conflict, Editor
<1> QED
  BY <1>1, <1>2, <1>3, <1>4, <1>5

Creds == [ruid : AnyId, euid : AnyId, suid : AnyId,
          rgid : AnyId, egid : AnyId, sgid : AnyId, groups : SUBSET Nat]

\* Changing the three user ids, or the three group ids, to an id.
LEMMA SetsUids ==
    ASSUME cred \in Creds, NEW u \in AnyId, SetReuid(u)
    PROVE  /\ cred' \in Creds
           /\ cred' = [ruid |-> u, euid |-> u, suid |-> u, rgid |-> cred.rgid,
                       egid |-> cred.egid, sgid |-> cred.sgid, groups |-> cred.groups]
  BY DEF Creds, SetReuid

LEMMA SetsGids ==
    ASSUME cred \in Creds, NEW g \in AnyId, SetRegid(g)
    PROVE  /\ cred' \in Creds
           /\ {cred'.rgid, cred'.egid, cred'.sgid} = {g}
  BY DEF Creds, SetRegid

\* The privileges are given up, or nothing happens.
LEMMA DowngradeStep ==
    ASSUME DInv, Downgrade
    PROVE  DInv'
<1>1. TypeOK'
  <2>0. caller.uid \in AnyId /\ cred \in Creds
    BY DEF TypeOK, IdsOK, Downgrade, AnyId, Creds
  <2>1. cred' \in Creds
    BY <2>0, SetsUids DEF Downgrade
  <2> QED
    BY <2>1 DEF TypeOK, Creds, Downgrade
<1>2. IdsOK'
  <2>1. PICK e \in {0, caller.uid} : cred = Ids(caller.uid, e, caller.gid, caller.groups)
    BY DEF IdsOK, Downgrade
  <2>2. CASE SetReuid(caller.uid) /\ Goto("openconf")
    <3>1. cred' = Ids(caller.uid, caller.uid, caller.gid, caller.groups)
      BY <2>1, <2>2 DEF SetReuid
    <3> QED
      BY <2>2, <3>1 DEF IdsOK, Downgrade
  <2>3. CASE Fail /\ UNCHANGED cred
    BY <2>3 DEF IdsOK, Downgrade
  <2> QED
    BY <2>2, <2>3 DEF Downgrade
<1>3. AskedOK'
  BY DEF AskedOK, Downgrade, SetReuid
<1>4. RequestOK'
  BY DEF RequestOK, Downgrade, SetReuid
<1>5. ScanOK'
  BY DEF ScanOK, Downgrade, SetReuid
<1> QED
  BY <1>1, <1>2, <1>3, <1>4, <1>5

\* A check without a command ends here.
LEMMA OpenConfStep ==
    ASSUME DInv, OpenConf
    PROVE  DInv'
<1>1. TypeOK'
  BY DEF TypeOK, OpenConf
<1>2. IdsOK'
  BY DEF IdsOK, OpenConf
<1>3. AskedOK'
  BY DEF AskedOK, OpenConf
<1>4. RequestOK'
  BY DEF RequestOK, OpenConf
<1>5. ScanOK'
  BY DEF ScanOK, OpenConf
<1> QED
  BY <1>1, <1>2, <1>3, <1>4, <1>5

\* One more rule: it is the last that matches, or what was the last still is.
LEMMA ScanGrows ==
    ASSUME conf \in Seq(RuleSet), ScanOK, NEW r \in RuleSet, UNCHANGED request,
           conf' = Append(conf, r),
           last' = IF MatchRule(r, request) THEN <<r>> ELSE last
    PROVE  (last' = <<>> /\ NoneMatches') \/ (\E i \in DOMAIN conf' : LastIs(i)')
<1>1. /\ Len(conf) \in Nat /\ Len(conf') = Len(conf) + 1 /\ conf'[Len(conf) + 1] = r
      /\ \A i \in 1..Len(conf) : conf'[i] = conf[i]
      /\ DOMAIN conf = 1..Len(conf) /\ DOMAIN conf' = 1..(Len(conf) + 1)
  OBVIOUS
<1>2. CASE MatchRule(r, request)
  <2>1. PICK n \in Nat : n = Len(conf) + 1
    BY <1>1
  <2>2. LastIs(n)'
    BY <1>1, <1>2, <2>1
  <2> QED
    BY <1>1, <2>1, <2>2
<1>3. CASE ~MatchRule(r, request)
  <2>1. last' = last
    BY <1>3
  <2>2. CASE last = <<>> /\ NoneMatches
    BY <1>1, <1>3, <2>1, <2>2
  <2>3. ASSUME NEW i \in DOMAIN conf, LastIs(i)
        PROVE  LastIs(i)'
    <3>1. last' = <<conf'[i]>> /\ MatchRule(conf'[i], request)
      BY <1>1, <2>1, <2>3
    <3>2. \A j \in (i + 1)..Len(conf') : ~MatchRule(conf'[j], request)
      BY <1>1, <1>3, <2>3
    <3> QED
      BY <3>1, <3>2
  <2>4. (last = <<>> /\ NoneMatches) \/ (\E i \in DOMAIN conf : LastIs(i))
    BY DEF ScanOK
  <2>5. DOMAIN conf \subseteq DOMAIN conf'
    BY <1>1
  <2> HIDE DEF NoneMatches, LastIs
  <2> QED
    BY <2>2, <2>3, <2>4, <2>5
<1> QED
  BY <1>2, <1>3

\* check_config tries a rule.
LEMMA CheckRuleStep ==
    ASSUME DInv, NEW r \in RuleSet, CheckRule(r)
    PROVE  DInv'
<1>1. IdsOK' /\ AskedOK' /\ RequestOK'
  BY DEF IdsOK, AskedOK, RequestOK, CheckRule
<1>2. TypeOK'
  BY DEF TypeOK, CheckRule
<1>3. ScanOK'
  <2>1. (last' = <<>> /\ NoneMatches') \/ (\E i \in DOMAIN conf' : LastIs(i)')
    BY ScanGrows DEF TypeOK, CheckRule
  <2> QED
    BY <2>1 DEF CheckRule, ScanOK
<1> QED
  BY <1>1, <1>2, <1>3

\* check_config answers.
LEMMA AnswerStep ==
    ASSUME DInv, Answer
    PROVE  DInv'
<1>1. TypeOK'
  BY DEF TypeOK, Answer
<1>2. IdsOK'
  BY DEF IdsOK, Answer
<1>3. AskedOK'
  BY DEF AskedOK, Answer
<1>4. RequestOK'
  BY DEF RequestOK, Answer
<1>5. ScanOK'
  BY DEF ScanOK, Answer
<1> QED
  BY <1>1, <1>2, <1>3, <1>4, <1>5

\* The target must be in the user data base.
LEMMA TargetPwStep ==
    ASSUME DInv, TargetPw
    PROVE  DInv'
<1>1. TypeOK'
  BY DEF TypeOK, TargetPw
<1>2. IdsOK'
  BY DEF TypeOK, IdsOK, TargetPw
<1>3. AskedOK'
  BY DEF AskedOK, TargetPw
<1>4. RequestOK'
  BY DEF RequestOK, TargetPw
<1>5. ScanOK'
  BY DEF ScanOK, TargetPw
<1> QED
  BY <1>1, <1>2, <1>3, <1>4, <1>5

\* Only an effective root goes on.
LEMMA ReadConfStep ==
    ASSUME DInv, ReadConf
    PROVE  DInv'
<1>1. TypeOK'
  BY DEF TypeOK, IdsOK, AskedOK, RequestOK, ScanOK, ReadConf
<1>2. IdsOK'
  BY DEF IdsOK, ReadConf
<1>3. AskedOK'
  BY DEF AskedOK, ReadConf
<1>4. RequestOK'
  BY DEF RequestOK, ReadConf
<1>5. ScanOK'
  BY DEF ScanOK, ReadConf
<1> QED
  BY <1>1, <1>2, <1>3, <1>4, <1>5

\* permit tries a rule.
LEMMA TryRuleStep ==
    ASSUME DInv, NEW r \in RuleSet, TryRule(r)
    PROVE  DInv'
<1>1. IdsOK' /\ AskedOK' /\ RequestOK'
  BY DEF IdsOK, AskedOK, RequestOK, TryRule
<1>2. TypeOK'
  BY DEF TypeOK, TryRule
<1>3. ScanOK'
  <2>1. (last' = <<>> /\ NoneMatches') \/ (\E i \in DOMAIN conf' : LastIs(i)')
    BY ScanGrows DEF TypeOK, TryRule
  <2> QED
    BY <2>1 DEF TryRule, ScanOK
<1> QED
  BY <1>1, <1>2, <1>3

\* Nothing runs without a rule that permits it.
LEMMA PermitStep ==
    ASSUME DInv, Permit
    PROVE  DInv'
<1>1. TypeOK'
  BY DEF TypeOK, Permit
<1>2. IdsOK'
  BY DEF IdsOK, Permit
<1>3. AskedOK'
  BY DEF AskedOK, Permit
<1>4. RequestOK'
  BY DEF RequestOK, Permit
<1>5. ScanOK'
  BY DEF ScanOK, Permit
<1> QED
  BY <1>1, <1>2, <1>3, <1>4, <1>5

\* Authentication changes no id.
LEMMA AuthenticateStep ==
    ASSUME DInv, Authenticate
    PROVE  DInv'
<1>1. TypeOK'
  BY DEF TypeOK, Authenticate
<1>2. IdsOK'
  BY DEF IdsOK, Authenticate
<1>3. AskedOK'
  BY DEF AskedOK, Authenticate
<1>4. RequestOK'
  BY DEF RequestOK, Authenticate
<1>5. ScanOK'
  BY DEF ScanOK, Authenticate
<1> QED
  BY <1>1, <1>2, <1>3, <1>4, <1>5

\* First the three group ids,
LEMMA SetGidStep ==
    ASSUME DInv, SetGid
    PROVE  DInv'
<1>0. /\ cred \in Creds /\ request.target \in DOMAIN Passwd /\ request.target \in AnyId
      /\ caller \in Callers /\ TargetGid \in AnyId
  BY DEF TypeOK, IdsOK, SetGid, TargetGid, AnyId, Creds
<1>1. TypeOK'
  <2>1. cred' \in Creds
    BY <1>0, SetsGids DEF SetGid
  <2> QED
    BY <2>1 DEF TypeOK, Creds, SetGid
<1>2. IdsOK'
  <2>1. CASE SetRegid(TargetGid) /\ Goto("initgroups")
    <3>1. {cred'.rgid, cred'.egid, cred'.sgid} = {TargetGid}
      BY <1>0, <2>1, SetsGids
    <3> QED
      BY <1>0, <2>1, <3>1 DEF IdsOK, SetGid, TargetGid
  <2>2. CASE Fail /\ UNCHANGED cred
    BY <1>0, <2>2 DEF IdsOK, SetGid
  <2> QED
    BY <2>1, <2>2 DEF SetGid
<1>3. AskedOK'
  BY DEF AskedOK, SetGid, SetRegid, TargetGid
<1>4. RequestOK'
  BY DEF RequestOK, SetGid, SetRegid, TargetGid
<1>5. ScanOK'
  BY DEF ScanOK, SetGid, SetRegid, TargetGid
<1> QED
  BY <1>1, <1>2, <1>3, <1>4, <1>5

\* then the groups,
LEMMA InitGroupsStep ==
    ASSUME DInv, InitGroups
    PROVE  DInv'
<1>1. TypeOK'
  <2>1. cred' \in [ruid : AnyId, euid : AnyId, suid : AnyId,
                   rgid : AnyId, egid : AnyId, sgid : AnyId, groups : SUBSET Nat]
    BY DEF TypeOK, IdsOK, InitGroups, SetGroups, TargetGid
  <2> QED
    BY <2>1 DEF TypeOK, InitGroups
<1>2. IdsOK'
  BY DEF TypeOK, IdsOK, InitGroups, SetGroups, TargetGid
<1>3. AskedOK'
  BY DEF AskedOK, InitGroups, SetGroups, TargetGid
<1>4. RequestOK'
  BY DEF RequestOK, InitGroups, SetGroups, TargetGid
<1>5. ScanOK'
  BY DEF ScanOK, InitGroups, SetGroups, TargetGid
<1> QED
  BY <1>1, <1>2, <1>3, <1>4, <1>5

\* and then the three user ids: all of them, or the process has failed.
LEMMA SetUidStep ==
    ASSUME DInv, SetUid
    PROVE  DInv'
<1>1. TypeOK'
  <2>1. request.target \in AnyId
    BY DEF TypeOK
  <2>2. cred \in [ruid : AnyId, euid : AnyId, suid : AnyId,
                  rgid : AnyId, egid : AnyId, sgid : AnyId, groups : SUBSET Nat]
    BY DEF TypeOK
  <2>3. cred' = [cred EXCEPT !.ruid = request.target, !.euid = request.target,
                            !.suid = request.target] \/ cred' = cred
    BY DEF SetUid, SetReuid
  <2>4. cred' \in [ruid : AnyId, euid : AnyId, suid : AnyId,
                  rgid : AnyId, egid : AnyId, sgid : AnyId, groups : SUBSET Nat]
    BY <2>1, <2>2, <2>3
  <2>5. pc' \in {"search", "failed"} /\ UNCHANGED <<args, caller, request, conf>>
    BY DEF SetUid
  <2>6. request.cmdline # <<>>
    BY DEF RequestOK, SetUid
  <2>7. ArgsTypeOK' /\ caller' \in Callers \cup {Nobody} /\ conf' \in Seq(RuleSet)
        /\ Len(conf') <= MaxRules
    BY <2>5 DEF TypeOK
  <2> QED
    BY <2>1, <2>4, <2>5, <2>6, <2>7 DEF TypeOK
<1>2. IdsOK'
  <2>1. LET t == request.target
        IN  /\ caller \in Callers /\ t \in DOMAIN Passwd /\ t \in AnyId
            /\ {cred.rgid, cred.egid, cred.sgid} = {Passwd[t].gid}
            /\ cred.groups = Passwd[t].groups \cup {Passwd[t].gid}
    BY DEF IdsOK, SetUid
  <2>2. CASE SetReuid(request.target) /\ Goto("search")
    <3>1. cred' = Ids(request.target, request.target, Passwd[request.target].gid,
                      Passwd[request.target].groups \cup {Passwd[request.target].gid})
      BY <2>1, <2>2, SetsUids DEF TypeOK, Creds
    <3> QED
      BY <2>1, <2>2, <3>1 DEF IdsOK, SetUid
  <2>3. CASE Fail /\ UNCHANGED cred
    BY <2>1, <2>3 DEF IdsOK, SetUid
  <2> QED
    BY <2>2, <2>3 DEF SetUid
<1>3. AskedOK'
  BY DEF AskedOK, SetUid, SetReuid
<1>4. RequestOK'
  BY DEF RequestOK, SetUid, SetReuid
<1>5. ScanOK'
  BY DEF ScanOK, SetUid, SetReuid
<1> QED
  BY <1>1, <1>2, <1>3, <1>4, <1>5

\* Looking for the command.
LEMMA SearchStep ==
    ASSUME DInv, Search
    PROVE  DInv'
<1>1. TypeOK'
  <2>1. pc' \in {"env", "failed"} /\ UNCHANGED <<args, caller, cred, request, conf>>
    BY DEF Search
  <2> QED
    BY <2>1 DEF TypeOK
<1>2. IdsOK'
  BY DEF IdsOK, Search
<1>3. AskedOK'
  BY DEF AskedOK, Search
<1>4. RequestOK'
  BY DEF RequestOK, Search
<1>5. ScanOK'
  BY DEF ScanOK, Search
<1> QED
  BY <1>1, <1>2, <1>3, <1>4, <1>5

\* The environment is the last thing made.
LEMMA MakeEnvStep ==
    ASSUME DInv, NEW inherited \in CallerEnvs, MakeEnv(inherited)
    PROVE  DInv'
<1>1. TypeOK'
  BY DEF TypeOK, MakeEnv
<1>2. IdsOK'
  BY DEF IdsOK, MakeEnv
<1>3. AskedOK'
  BY DEF AskedOK, MakeEnv
<1>4. RequestOK'
  BY DEF RequestOK, MakeEnv
<1>5. ScanOK'
  BY DEF ScanOK, MakeEnv
<1> QED
  BY <1>1, <1>2, <1>3, <1>4, <1>5

\* A step that changes nothing.
LEMMA StutterStep ==
    ASSUME DInv, UNCHANGED vars
    PROVE  DInv'
<1>1. TypeOK'
  BY DEF TypeOK, vars
<1>2. IdsOK'
  BY DEF IdsOK, vars
<1>3. AskedOK'
  BY DEF AskedOK, vars
<1>4. RequestOK'
  BY DEF RequestOK, vars
<1>5. ScanOK'
  BY DEF ScanOK, vars
<1> QED
  BY <1>1, <1>2, <1>3, <1>4, <1>5

\* Every step keeps the invariant.
LEMMA NextInv == DInv /\ [Next]_vars => DInv'
<1> SUFFICES ASSUME DInv, [Next]_vars
             PROVE  DInv'
  OBVIOUS
<1>1. CASE ParseArgs
  BY <1>1, ParseArgsStep
<1>2. CASE \E c \in Callers, setuid \in BOOLEAN : ArgsParsed(c, setuid)
  BY <1>2, ArgsParsedStep
<1>3. CASE Clear
  BY <1>3, ClearStep
<1>4. CASE Target
  BY <1>4, TargetStep
<1>5. CASE \E program \in Programs : Identify(program)
  BY <1>5, IdentifyStep
<1>6. CASE Downgrade
  BY <1>6, DowngradeStep
<1>7. CASE OpenConf
  BY <1>7, OpenConfStep
<1>8. CASE \E r \in RuleSet : CheckRule(r)
  BY <1>8, CheckRuleStep
<1>9. CASE Answer
  BY <1>9, AnswerStep
<1>10. CASE TargetPw
  BY <1>10, TargetPwStep
<1>11. CASE ReadConf
  BY <1>11, ReadConfStep
<1>12. CASE \E r \in RuleSet : TryRule(r)
  BY <1>12, TryRuleStep
<1>13. CASE Permit
  BY <1>13, PermitStep
<1>14. CASE Authenticate
  BY <1>14, AuthenticateStep
<1>15. CASE SetGid
  BY <1>15, SetGidStep
<1>16. CASE InitGroups
  BY <1>16, InitGroupsStep
<1>17. CASE SetUid
  BY <1>17, SetUidStep
<1>18. CASE Search
  BY <1>18, SearchStep
<1>19. CASE \E inherited \in CallerEnvs : MakeEnv(inherited)
  BY <1>19, MakeEnvStep
<1>20. CASE UNCHANGED vars
  BY <1>20, StutterStep
<1>21. CASE Ended
  BY <1>21, StutterStep DEF Ended
<1> QED
  BY <1>1, <1>2, <1>3, <1>4, <1>5, <1>6, <1>7, <1>8, <1>9, <1>10, <1>11, <1>12, <1>13, <1>14, <1>15, <1>16, <1>17, <1>18, <1>19, <1>20, <1>21 DEF Next

\* The invariant holds in every reachable state, whatever the constants.
THEOREM Invariant == Spec => []DInv
<1> QED
  BY InitInv, NextInv, PTL DEF Spec

\* Type correctness of every reachable state; in particular main.rs finds a
\* command wherever it takes argvs[0].
THEOREM TypeCorrect == Spec => []TypeOK
<1>1. DInv => TypeOK
  OBVIOUS
<1> QED
  BY <1>1, Invariant, PTL

\* Whatever fails on the way, what runs as the target has all three user ids,
\* all three group ids and the groups of the target.
THEOREM IdentitiesComplete == Spec => []Identities
<1>1. DInv => Identities
  BY DEF IdsOK, Identities
<1> QED
  BY <1>1, Invariant, PTL

\* The file named by -C is opened with none of doas's privileges.
THEOREM ChecksRunAsCaller == Spec => []CheckRunsAsCaller
<1>1. DInv => CheckRunsAsCaller
  BY DEF IdsOK, CheckRunsAsCaller
<1> QED
  BY <1>1, Invariant, PTL

\* For any list of rules, of any length, the last one that matches decides, both
\* in permit and in check_config.
THEOREM LastMatchAlwaysDecides == Spec => []LastMatchDecides
<1>1. ASSUME DInv
      PROVE  LastMatchDecides
  <2>1. ASSUME last # <<>>
        PROVE  \E i \in DOMAIN conf : LastIs(i)
    BY <1>1, <2>1 DEF ScanOK
  <2>2. ASSUME last # <<>>, last[1].permit
        PROVE  Permitted
    BY <2>1, <2>2 DEF Permitted
  <2>3. ASSUME ~(last # <<>> /\ last[1].permit)
        PROVE  ~Permitted
    <3>1. CASE last = <<>> /\ NoneMatches
      BY <3>1 DEF Permitted
    <3>2. CASE \E i \in DOMAIN conf : LastIs(i)
      <4>1. PICK i \in DOMAIN conf : LastIs(i)
        BY <3>2
      <4>2. ~conf[i].permit /\ conf \in Seq(RuleSet)
        BY <1>1, <2>3, <4>1 DEF TypeOK
      <4>3. ASSUME NEW j \in DOMAIN conf, conf[j].permit, MatchRule(conf[j], request),
                   \A l \in (j + 1)..Len(conf) : ~MatchRule(conf[l], request)
            PROVE  FALSE
        <5>1. i \in 1..Len(conf) /\ j \in 1..Len(conf) /\ Len(conf) \in Nat
          BY <4>2
        <5>2. CASE j = i
          BY <4>2, <4>3, <5>2
        <5>3. CASE j < i
          BY <4>1, <4>3, <5>1, <5>3
        <5>4. CASE j > i
          BY <4>1, <4>3, <5>1, <5>4
        <5> QED
          BY <5>1, <5>2, <5>3, <5>4
      <4> QED
        BY <4>3 DEF Permitted
    <3> QED
      BY <1>1, <3>1, <3>2 DEF ScanOK
  <2> QED
    BY <1>1, <2>2, <2>3 DEF ScanOK, RequestOK, LastMatchDecides
<1> QED
  BY <1>1, Invariant, PTL

\* Of all command lines, those that are let through ask for exactly one thing.
THEOREM RequestsAreUnique == Spec => []OneRequest
<1>1. ASSUME DInv, mode = "parsed"
      PROVE  OneRequest
  <2> DEFINE run == parsed.command # <<>> /\ "C" \notin parsed.given
             wants == (parsed.given \cap {"s", "L", "C"})
                        \cup (IF parsed.vidoas THEN {"vidoas"} ELSE {})
                        \cup (IF run THEN {"run"} ELSE {})
  <2>1. ~Conflict(parsed) /\ parsed.given \subseteq {"s", "n", "L", "v", "u", "C"}
        /\ (parsed.command # <<>> => "s" \notin parsed.given)
    BY <1>1 DEF AskedOK, TypeOK
  <2>2. CASE parsed.vidoas
    <3>1. wants = {"vidoas"}
      BY <2>1, <2>2 DEF Conflict
    <3> QED
      BY <3>1 DEF OneRequest
  <2>3. CASE "L" \in parsed.given
    <3>1. wants = {"L"}
      BY <2>1, <2>3 DEF Conflict
    <3> QED
      BY <3>1 DEF OneRequest
  <2>4. CASE "C" \in parsed.given /\ ~parsed.vidoas
    <3>1. wants = {"C"}
      BY <2>1, <2>4 DEF Conflict
    <3> QED
      BY <3>1 DEF OneRequest
  <2>5. CASE ~parsed.vidoas /\ parsed.given \cap {"L", "C"} = {}
    <3>1. wants = {"s"} \/ wants = {"run"}
      BY <2>1, <2>5 DEF Conflict
    <3> QED
      BY <3>1 DEF OneRequest
  <2> QED
    BY <2>2, <2>3, <2>4, <2>5
<1>2. DInv => OneRequest
  BY <1>1 DEF OneRequest
<1> QED
  BY <1>2, Invariant, PTL

----------------------------------------------------------------------------
\* Nothing of the command line is consumed at first.
LEMMA InitWords == Init => WordsOK
<1> SUFFICES ASSUME Init
             PROVE  WordsOK
  OBVIOUS
<1>1. /\ orig \in Seq(Word) /\ argv = orig
      /\ parsed.given = {} /\ parsed.user = NoArg /\ parsed.config = NoArg
      /\ parsed.command = <<>> /\ mode # "options"
  BY ArgsAssumption DEF Init, ArgsInit
<1>2. Suffix(orig, 0) = orig
  BY <1>1, SubSeqFull DEF Suffix
<1>3. 0 \in 0..Len(orig) /\ Consumed(0)
  <2>1. Values \subseteq Before(0) /\ Passed(0)
    BY <1>1 DEF Values, Before, Passed
  <2> QED
    BY <1>1, <1>2, <2>1 DEF Consumed
<1> QED
  BY <1>1, <1>3 DEF WordsOK

\* Only the parser changes what it knows, and its caller takes the result.
LEMMA NextWords == DInv /\ WordsOK /\ [Next]_vars => WordsOK'
<1> SUFFICES ASSUME DInv, WordsOK, [Next]_vars
             PROVE  WordsOK'
  OBVIOUS
<1>1. CASE ParseArgs
  BY <1>1, ParseWords DEF TypeOK, ParseArgs
<1>2. CASE \E c \in Callers, setuid \in BOOLEAN : ArgsParsed(c, setuid)
  <2>1. /\ parsed' = parsed /\ mode' = "returned" /\ orig' = <<>> /\ argv' = <<>>
        /\ hasNext' = FALSE
    BY <1>2 DEF ArgsParsed, ParseReturns
  <2> QED
    BY <2>1 DEF WordsOK
<1>3. CASE UNCHANGED args
  <2>1. UNCHANGED <<orig, argv, hasNext, parsed, mode>>
    BY <1>3
  <2>2. \A n : Consumed(n)' = Consumed(n) /\ CommandFrom(n)' = CommandFrom(n)
    BY <2>1 DEF Consumed, CommandFrom, Passed, Before, Emptied, Suffix, Values
  <2> QED
    BY <2>1, <2>2 DEF WordsOK
<1> QED
  BY <1>1, <1>2, <1>3 DEF Next, vars, Clear, Target, Identify, Downgrade, OpenConf,
     CheckRule, TryRule, Answer, TargetPw, ReadConf, Permit, Authenticate, SetGid,
     InitGroups, SetUid, Search, MakeEnv, Ended

\* What is run is the end of the command line, unchanged, whatever the command
\* line and wherever -u and -C took their values from: the words before it are
\* options, their values, or vidoas.
THEOREM CommandsAreSuffixes == Spec => []CommandIsSuffix
<1>1. WordsOK => CommandIsSuffix
  BY DEF WordsOK, CommandFrom, Passed, Before, Values, CommandIsSuffix
<1>2. Spec => []WordsOK
  BY InitWords, NextWords, Invariant, PTL DEF Spec
<1> QED
  BY <1>1, <1>2, PTL

----------------------------------------------------------------------------
\* The environment is what prep_env made of the rule that decided.
EnvOK == pc \in {"exec", "vidoas"} => env.made = PrepEnv(Rule, env.inherited)

LEMMA NextEnv == DInv /\ EnvOK /\ [Next]_vars => EnvOK'
<1> SUFFICES ASSUME DInv, EnvOK, [Next]_vars
             PROVE  EnvOK'
  OBVIOUS
<1>1. CASE \E inherited \in CallerEnvs : MakeEnv(inherited)
  BY <1>1 DEF MakeEnv, EnvOK
<1>2. CASE UNCHANGED vars
  BY <1>2 DEF EnvOK, vars
<1>3. CASE pc' \notin {"exec", "vidoas"}
  BY <1>3 DEF EnvOK
<1> QED
  BY <1>1, <1>2, <1>3 DEF Next, ParseArgs, ArgsParsed, Clear, Target, Identify, Downgrade,
     OpenConf, CheckRule, TryRule, Answer, TargetPw, ReadConf, Permit, Authenticate,
     SetGid, InitGroups, SetUid, Search, Ended

\* The rule that decided is one of the configuration.
LEMMA RuleIsConfigured ==
    ASSUME DInv, pc \in {"exec", "vidoas"}
    PROVE  Rule \in RuleSet
<1>1. PICK i \in DOMAIN conf : last = <<conf[i]>>
  BY DEF ScanOK
<1>2. conf[i] \in RuleSet
  BY DEF TypeOK
<1> QED
  BY <1>1, <1>2

\* Every variable of the command's environment is what the last line of setenv
\* for it says, or else what doas and keepenv make of it, for any rule and any
\* environment of the caller; there are no others.
THEOREM EnvironmentsArePrescribed == Spec => []EnvIsPrescribed
<1>1. ASSUME DInv, EnvOK, pc \in {"exec", "vidoas"}, NEW n
      PROVE  Prescribed(n) = ValueIn(env.made, n)
  <2> DEFINE r == Rule
             envs == IF r.keepenv THEN KeepEnvs(CreateEnv(env.inherited), env.inherited)
                     ELSE CreateEnv(env.inherited)
             lines == {i \in 1..Len(r.envs) : Matches(r.envs[i], n, env.inherited)}
  <2>1. /\ Len(r.envs) \in Nat /\ DOMAIN r.envs = 1..Len(r.envs) /\ r.keepenv \in BOOLEAN
        /\ \A i \in 1..Len(r.envs) : r.envs[i].op \in EnvOps
    <3>1. r \in RuleSet
      BY <1>1, RuleIsConfigured
    <3> HIDE DEF r
    <3> DEFINE all == {r.envs[i] : i \in DOMAIN r.envs}
    <3>2. r.envs \in Seq(all) /\ (\A e \in all : e.op \in EnvOps) /\ r.keepenv \in BOOLEAN
      BY <3>1, RulesAssumption
    <3> QED
      BY <3>2
  <2>2. env.made = ApplyRuleEnvs(envs, r.envs, env.inherited)
    BY <1>1 DEF EnvOK, PrepEnv
  <2>3. ValueIn(envs, n) = Default(n, r.keepenv, env.inherited)
    BY <2>1, NoLine
  <2>4. lines = LinesFor(n)
    BY <2>1 DEF LinesFor, Matches, Applies, Copies
  <2> HIDE DEF envs, r
  <2>5. \/ lines = {} /\ ValueIn(env.made, n) = Default(n, r.keepenv, env.inherited)
        \/ \E i \in lines : /\ \A j \in lines : j <= i
                            /\ ValueIn(env.made, n) = Says(r.envs[i], n)
    <3> DEFINE applied == ApplyRuleEnvs(envs, r.envs, env.inherited)
    <3>1. \/ lines = {} /\ ValueIn(applied, n) = ValueIn(envs, n)
          \/ \E i \in lines : /\ \A j \in lines : j <= i
                              /\ ValueIn(applied, n) = Says(r.envs[i], n)
      BY <2>1, LastLineDecides
    <3> HIDE DEF applied, lines
    <3> QED
      BY <2>2, <2>3, <3>1 DEF applied
  <2>6. CASE lines = {}
    BY <2>4, <2>5, <2>6 DEF Prescribed, Default, r
  <2>7. ASSUME NEW i \in lines, \A j \in lines : j <= i,
               ValueIn(env.made, n) = Says(r.envs[i], n)
        PROVE  Prescribed(n) = ValueIn(env.made, n)
    <3>1. \A k \in lines : (\A j \in lines : j <= k) => k = i
      BY <2>7
    <3>2. i = CHOOSE k \in lines : \A j \in lines : j <= k
      BY <2>7, <3>1
    <3> HIDE DEF lines
    <3>3. Prescribed(n) = Says(r.envs[i], n)
      BY <2>4, <2>7, <3>2 DEF Prescribed, Says, r
    <3> QED
      BY <2>7, <3>3
  <2> QED
    BY <2>5, <2>6, <2>7
<1>2. DInv /\ EnvOK => EnvIsPrescribed
  BY <1>1 DEF EnvIsPrescribed, ValueIn
<1>3. Init => EnvOK
  BY DEF Init, EnvOK
<1>4. Spec => []EnvOK
  BY <1>3, NextEnv, Invariant, PTL DEF Spec
<1> QED
  BY <1>2, <1>4, Invariant, PTL
=============================================================================
