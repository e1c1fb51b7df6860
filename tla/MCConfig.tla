------------------------------ MODULE MCConfig ------------------------------
(***************************************************************************)
(* A small instance of Config.  At each point of the parser the file has   *)
(* the words that the code tells apart there, and "word" for all others.   *)
(***************************************************************************)
EXTENDS Config

OptionWords == {"nopass", "persist", "setenv", "permit", "word", ":"}

SmallWords ==
    [p \in Points |->
        CASE p = "line"                      -> {"permit", "deny", "word"}
          [] p \in {"options", "brace"}      -> OptionWords
          [] p \in {"duration", "close"}     -> {"5m", "huge", "word"}
          [] p = "envs"                      -> {"=", "-", "$", "word"}
          [] p \in {"as", "cmd"}             -> {"as", "cmd", "word"}
          [] p \in {"target", "command"}     -> {"permit", "word"}
          [] p \in {"args", "arg"}           -> {"args", "word"}
          [] OTHER                           -> {"word"}]

\* Three characters are a key, `=` and `$`.
ShortTokens == [p \in Points |-> IF p = "envs" THEN 3 ELSE 2]

SmallDurations == {"5m"}

\* A parser that has failed has dropped what it had read.  Once OneRulePerLine is
\* excused the marks that only it reads do not matter any more: they are left out.
Excused == unclosed \/ tk.swallowed

Unmarked(items) ==
    [i \in DOMAIN items |->
        IF items[i].kind = "Token" THEN [items[i] EXCEPT !.first = FALSE] ELSE items[i]]

LiveView ==
    IF pc \in {"error", "overflow"} THEN <<pc>>
    ELSE IF Excused
    THEN <<[tk EXCEPT !.first = FALSE, !.started = FALSE, !.stale = FALSE,
                      !.swallowed = ~unclosed],
           Unmarked(yields), ended, Unmarked(slot), openLine, misread, parsing>>
    ELSE vars
=============================================================================
