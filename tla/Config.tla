------------------------------- MODULE Config -------------------------------
(***************************************************************************)
(* Reading doas.conf (config.rs): Config::parse and parser() on top of the *)
(* tokenizer.  A state is one point of the parser at which it waits for an *)
(* item; what it has parsed is kept as far as it decides how the rest is   *)
(* read.  Nothing else is remembered of the lines before, so that files of *)
(* every length are covered.                                               *)
(***************************************************************************)
EXTENDS Tokenizer

CONSTANTS
    Durations,     \* words with a number that fits and a unit: 5m, 30s
    HugeDuration,  \* a number of minutes that is too large in seconds
    Words,         \* the words that a file may have at each point of the parser
    Longest        \* bound on the characters of a token, at each point

VARIABLES
    pc,       \* where the parser is
    rule,     \* of the rule under way: does it have persist, does it have envs
    unclosed  \* history: the line of a `persist {` ended before its `}`

parsing == <<pc, rule, unclosed>>
vars    == <<tokens, parsing>>

NewRule == [persist |-> FALSE, envs |-> FALSE]

Init ==
    /\ TokenizerInit
    /\ pc = "open"
    /\ rule = NewRule
    /\ unclosed = FALSE

----------------------------------------------------------------------------
Goto(label) == pc' = label
Fail        == Goto("error")

Bare(k)   == EqualKey(Item, k)
IsToken   == Item.kind = "Token"
NotKey    == IsToken /\ ~IsKey(Item)
Keep      == UNCHANGED <<rule, unclosed>>

\* Config::parse: the file is opened without following links, and fstat is
\* asked about the descriptor that is read afterwards, if the caller wants that.
OpenFile(checkPerm) ==
    /\ pc = "open"
    /\ pc' \in {"error", IF checkPerm THEN "perm" ELSE "line"}
    /\ Keep /\ UNCHANGED tokens

CheckPerm(writable, ownedByRoot) ==
    /\ pc = "perm"
    /\ Goto(IF ~writable /\ ownedByRoot THEN "line" ELSE "error")
    /\ Keep /\ UNCHANGED tokens

\* Tokenizer::next_line; peek() is None at the end of a line as well.
NextLine ==
    /\ pc = "line"
    /\ IF openLine
       THEN Fail /\ UNCHANGED tokens
       ELSE PeekItem /\ Goto(IF IsToken THEN "action" ELSE "ok")
    /\ rule' = NewRule
    /\ UNCHANGED unclosed

ParseAction ==
    /\ pc = "action"
    /\ NextItem
    /\ Goto(IF Bare("permit") \/ Bare("deny") THEN "options" ELSE "error")
    /\ Keep

Flags == {"nopass", "nolog", "pwfeedback", "keepenv", "insult"}

\* The loop over the options looks before it takes.
ParseFlag ==
    /\ pc = "options"
    /\ NextItem
    /\ \E f \in Flags : Bare(f)
    /\ Keep /\ UNCHANGED pc

NoOption ==
    /\ pc = "options"
    /\ PeekItem
    /\ ~\E o \in Flags \cup {"persist", "setenv"} : Bare(o)
    /\ Goto(IF IsToken THEN "identity" ELSE "error")
    /\ rule' = NewRule      \* the options do not matter for what follows
    /\ UNCHANGED unclosed

ParsePersist ==
    /\ pc = "options" /\ Ready /\ Bare("persist")
    /\ IF rule.persist THEN Fail /\ PeekItem ELSE Goto("brace") /\ NextItem
    /\ Keep

PersistBrace ==
    /\ pc = "brace" /\ Ready
    /\ IF Bare("{")
       THEN NextItem /\ Goto("duration") /\ UNCHANGED rule
       ELSE PeekItem /\ Goto("options") /\ rule' = [rule EXCEPT !.persist = TRUE]
    /\ UNCHANGED unclosed

\* Duration::from_str; from_mins panics when the seconds do not fit.
PersistDuration ==
    /\ pc = "duration"
    /\ NextItem
    /\ LET given(d) == IsToken /\ Item.str = <<d>>
       IN  IF \E d \in Durations : given(d)
           THEN Goto("close") /\ rule' = [rule EXCEPT !.persist = TRUE]
           ELSE /\ Goto(IF given(HugeDuration) THEN "overflow" ELSE "error")
                /\ UNCHANGED rule
    /\ UNCHANGED unclosed

\* `if let Some(s) = tokens.next() && ...`: the end of the line passes for a
\* brace, it is consumed, and the rule goes on with the next line.
PersistClose ==
    /\ pc = "close"
    /\ NextItem
    /\ Goto(IF IsToken /\ ~Bare("}") THEN "error" ELSE "options")
    /\ unclosed' = (unclosed \/ ~IsToken)
    /\ UNCHANGED rule

ParseSetenv ==
    /\ pc = "options" /\ Ready /\ Bare("setenv")
    /\ IF rule.envs THEN Fail /\ PeekItem ELSE Goto("envbrace") /\ NextItem
    /\ Keep

SetenvBrace ==
    /\ pc = "envbrace"
    /\ NextItem
    /\ Goto(IF Bare("{") THEN "envs" ELSE "error")
    /\ Keep

----------------------------------------------------------------------------
\* One token between the braces of setenv.

Has(s, ch)   == \E i \in DOMAIN s : s[i] = ch
First(s, ch) == CHOOSE i \in DOMAIN s : s[i] = ch /\ \A j \in 1..(i - 1) : s[j] # ch
From(s, i)   == SubSeq(s, i, Len(s))

Removal(t)    == t.quoted = <<>> /\ t.str[1] = "-"
Assignment(t) == ~Removal(t) /\ Has(BeforeQuoted(t), "=")
Inherited(t)  == ~Removal(t) /\ ~Assignment(t) /\ t.quoted = <<>>

\* `-` alone, no key, no value, or nothing after `$`
Malformed(t) ==
    \/ Removal(t) /\ Len(t.str) = 1
    \/ /\ Assignment(t)
       /\ LET i == First(t.str, "=")
          IN  i = 1 \/ i = Len(t.str) \/ From(BeforeQuoted(t), i + 1) = <<"$">>

SetenvToken ==
    /\ pc = "envs"
    /\ NextItem
    /\ IsToken /\ ~Bare("}") /\ ~Malformed(Item)
    /\ rule' = [rule EXCEPT !.envs = @ \/ Removal(Item) \/ Assignment(Item) \/ Inherited(Item)]
    /\ UNCHANGED <<pc, unclosed>>

SetenvClose ==
    /\ pc = "envs"
    /\ NextItem
    /\ IsToken => Bare("}") \/ Malformed(Item)
    /\ Goto(IF Bare("}") /\ rule.envs THEN "options" ELSE "error")
    /\ Keep

----------------------------------------------------------------------------
ParseIdentity ==
    /\ pc = "identity"
    /\ NextItem
    /\ Goto(IF NotKey /\ Item.str # <<":">> THEN "as" ELSE "error")
    /\ Keep

\* peek, and only then take
ParseAs ==
    /\ pc = "as" /\ Ready
    /\ IF Bare("as") THEN NextItem /\ Goto("target") ELSE PeekItem /\ Goto("cmd")
    /\ Keep

ParseTarget ==
    /\ pc = "target"
    /\ NextItem
    /\ Goto(IF NotKey THEN "cmd" ELSE "error")
    /\ Keep

\* The rule is complete when its line is.
Complete(label) == Goto(IF IsToken THEN label ELSE "line")

ParseCmd ==
    /\ pc = "cmd"
    /\ NextItem
    /\ Complete(IF Bare("cmd") THEN "command" ELSE "error")
    /\ Keep

ParseCommand ==
    /\ pc = "command"
    /\ NextItem
    /\ Goto(IF NotKey THEN "args" ELSE "error")
    /\ Keep

ParseArgs ==
    /\ pc = "args"
    /\ NextItem
    /\ Complete(IF Bare("args") THEN "arg" ELSE "error")
    /\ Keep

\* Mutant: no more than one argument is taken.
CollectArg_One ==
    /\ pc = "arg"
    /\ NextItem
    /\ Goto("line")
    /\ Keep

CollectArg ==
    /\ pc = "arg"
    /\ NextItem
    /\ Complete("arg")
    /\ Keep

Final == {"ok", "error", "overflow", "panic"}

Polling == pc \notin Final \cup {"open", "perm"} /\ ~(pc = "line" /\ openLine)

\* A panic aborts a release build.
Panic ==
    /\ Polling /\ PolledAgain
    /\ Goto("panic")
    /\ Keep /\ UNCHANGED tokens

\* What the parser waits for is read from the file.
Read ==
    /\ Polling
    /\ EndOfInput \/ \E ch \in Special \cup Words[pc] : Feed(ch)
    /\ Len(tk'.str) <= Longest[pc]
    /\ UNCHANGED parsing

Parser ==
    \/ ParseAction \/ ParseFlag \/ NoOption \/ ParsePersist \/ PersistBrace
    \/ PersistDuration \/ PersistClose \/ ParseSetenv \/ SetenvBrace
    \/ SetenvToken \/ SetenvClose \/ ParseIdentity \/ ParseAs \/ ParseTarget
    \/ ParseCmd \/ ParseCommand \/ ParseArgs \/ CollectArg

Ended == pc \in Final /\ UNCHANGED vars

Next ==
    \/ \E check \in BOOLEAN : OpenFile(check)
    \/ \E writable, ownedByRoot \in BOOLEAN : CheckPerm(writable, ownedByRoot)
    \/ NextLine \/ Parser \/ Read \/ Panic \/ Ended

Spec == Init /\ [][Next]_vars

----------------------------------------------------------------------------
Points == {"open", "perm", "line", "action", "options", "brace", "duration", "close",
           "envbrace", "envs", "identity", "as", "target", "cmd", "command", "args",
           "arg"} \cup Final

\* Every variable keeps its shape; no more than three items ever wait.
TypeOK ==
    /\ pc \in Points
    /\ rule \in [persist : BOOLEAN, envs : BOOLEAN]
    /\ {unclosed, ended, openLine, misread} \subseteq BOOLEAN
    /\ Len(yields) \in 0..3 /\ Len(slot) \in 0..1
    /\ Len(tk.quote) \in 0..2

\* `Ok(peek().is_some())` (next_line) answers None for the end of a line as for
\* the end of the file.  Still a file is never accepted before its last
\* character: the rules behind such a line, denials too, would be lost.
AcceptedIsWholeFile == pc = "ok" => ended /\ yields = <<>> /\ slot = <<End>>

\* The tokens of a rule are those of one line: a rule begins with the first
\* token of a line, no rule takes the first token of the next one, and no token
\* is left over to begin a rule of its own.  Two things break this: a `persist {`
\* without its brace, and a backslash inside quotes that is still in force
\* behind them and swallows the line end there.
InStep == Ready /\ IsToken /\ pc \notin Final =>
              (Item.first <=> pc \in {"line", "action"})

OneRulePerLine == unclosed \/ tk.swallowed \/ InStep

\* The claim of tests/test1.conf, that a line is continued by a backslash before
\* its end (outside quotes and comments) and ends there otherwise.  A line that
\* ends after a quoted word like "a\b" is continued too.
OnlyBackslashContinues == unclosed \/ InStep

\* In a file that is accepted no token with a quoted character was taken for
\* an unquoted one: a quoted "permit" or "cmd" is a name, never a keyword, and
\* quotes that are still open where a line ends do not get past next_line.
QuotedIsNeverBare == pc = "ok" /\ ~unclosed => ~misread

\* The finished producer is polled again, and an async fn then panics, in one
\* case only: after a `persist {` without its brace.
PanicNeedsUnclosed == pc = "panic" => unclosed
=============================================================================
