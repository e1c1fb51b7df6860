----------------------------- MODULE Tokenizer -----------------------------
(***************************************************************************)
(* The tokenizer of doas.conf (src/tokenizer) and the wrappers its items   *)
(* pass through: a producer that reads characters until it yields, the     *)
(* Peekable slot in front of it, and the Tokenizer that remembers whether  *)
(* the last line ended inside quotes.                                      *)
(*                                                                         *)
(* The text of the file is not a constant: whenever the producer needs a   *)
(* character, any character may come.  A character is a special one or a   *)
(* word, a run of plain characters that nothing in the code takes apart.   *)
(* History marks (no guard reads them): a token is `inner` when one of its *)
(* characters was read inside quotes, and `first` when it has the first    *)
(* character of a line.  A line ends at its line feed, unless a backslash  *)
(* right before it joins it with the next.                                 *)
(***************************************************************************)
EXTENDS Naturals, Sequences

VARIABLES
    tk,        \* the locals of the producer, and history marks:
               \*   inner, first  of the token under way
               \*   started       the line has had a character of a token
               \*   stale         the escape was read inside quotes that have closed
               \*   swallowed     such an escape has swallowed the end of a line
    yields,    \* what it yields for the character it has just read
    ended,     \* it has read the whole file
    slot,      \* the peeked item of Peekable, if there is one
    openLine,  \* Tokenizer.quoted: the line ended inside quotes
    misread    \* history: a token with quoted characters counts as unquoted

tokens == <<tk, yields, ended, slot, openLine, misread>>

NoChars == <<>>

TokenizerInit ==
    /\ tk = [str |-> NoChars, quote |-> <<>>, comment |-> FALSE, empty |-> TRUE,
             escaped |-> FALSE, quoted |-> FALSE,
             inner |-> FALSE, first |-> FALSE, started |-> FALSE,
             stale |-> FALSE, swallowed |-> FALSE]
    /\ yields = <<>>
    /\ ended = FALSE
    /\ slot = <<>>
    /\ openLine = FALSE
    /\ misread = FALSE

----------------------------------------------------------------------------
\* Items

\* QuoteState is the sequence of its positions: None, Half(start), Full(start..end).
TakeOption(quote) == IF Len(quote) = 2 THEN quote ELSE <<>>

Token(str, inner, quote, first) ==
    [kind |-> "Token", str |-> str, inner |-> inner, quoted |-> TakeOption(quote),
     first |-> first]

NewLine(quoted) == [kind |-> "NewLine", quoted |-> quoted]
End == [kind |-> "End"]

EqualKey(t, k) == t.kind = "Token" /\ t.str = <<k>> /\ t.quoted = <<>>

KEYWORDS == {"permit", "deny", "as", "cmd", "args"}
IsKey(t) == \E k \in KEYWORDS : EqualKey(t, k)

BeforeQuoted(t) == IF t.quoted = <<>> THEN t.str ELSE SubSeq(t.str, 1, t.quoted[1])

----------------------------------------------------------------------------
\* The producer, one character at a time.  Its consumer has to ask for more:
\* nothing is read while an item waits.

Asked == ~ended /\ yields = <<>> /\ slot = <<>>

\* The token under way, when it has a character; and the locals without it.
Cut == IF tk.str = NoChars THEN <<>>
       ELSE <<Token(tk.str, tk.inner, tk.quote, tk.first)>>

AfterCut ==
    IF tk.str = NoChars THEN tk
    ELSE [tk EXCEPT !.str = NoChars, !.inner = FALSE, !.first = FALSE,
                    !.quote = <<>>, !.empty = FALSE]

\* A blank, hash, quote or backslash in a token is like a word that is compared
\* with nothing.
Text(ch) == IF ch \in {" ", "#", "\"", "\\"} THEN "word" ELSE ch

Pushed(ch) ==
    [tk EXCEPT !.str = Append(@, Text(ch)), !.inner = @ \/ tk.quoted,
               !.first = @ \/ ~tk.started, !.started = TRUE]

Misread(items) ==
    \E i \in DOMAIN items :
        items[i].kind = "Token" /\ items[i].quoted = <<>> /\ items[i].inner

Yield(items) ==
    /\ yields' = items
    /\ misread' = (misread \/ Misread(items))

Quiet == UNCHANGED <<yields, misread>>

Special == {"\n", " ", "{", "}", "#", "\\", "\""}

Plain(ch) == ch \notin Special

SkipComment(ch) == tk.comment /\ ch # "\n" /\ UNCHANGED tk /\ Quiet

\* A line end disappears behind an escape.
Continued == [tk EXCEPT !.started = @ /\ ~tk.stale,
                        !.swallowed = @ \/ (tk.started /\ tk.stale)]

\* What follows a backslash is taken as it is.  One that was read inside quotes
\* is still in force behind them.
Escaped(ch) ==
    /\ tk.escaped /\ ~tk.quoted
    /\ ~tk.comment \/ ch = "\n"
    /\ tk' = [(IF ch = "\n" THEN Continued ELSE Pushed(ch))
                 EXCEPT !.escaped = FALSE, !.stale = FALSE, !.comment = FALSE]
    /\ Quiet

InQuotes(ch) ==
    /\ tk.quoted /\ ch \notin {"\"", "\\", "\n"}
    /\ tk' = Pushed(ch)
    /\ Quiet

\* The branches of the last match, for a character no earlier one has taken.
Matched(ch) ==
    /\ ~tk.comment \/ ch = "\n"
    /\ tk.quoted \/ ~tk.escaped
    /\ tk.quoted => ch \in {"\"", "\\", "\n"}

\* Mutant: a line without a token is reported as well.
LineEnd_Always ==
    /\ Matched("\n")
    /\ Yield(Cut \o <<NewLine(tk.quoted)>>)
    /\ tk' = [AfterCut EXCEPT !.empty = TRUE, !.comment = FALSE, !.started = FALSE]

\* Mutant: a line end inside quotes is one like any other.
LineEnd_ForgetsQuotes ==
    /\ Matched("\n")
    /\ Yield(IF AfterCut.empty THEN Cut ELSE Cut \o <<NewLine(FALSE)>>)
    /\ tk' = [AfterCut EXCEPT !.empty = TRUE, !.comment = FALSE, !.started = FALSE]

LineEnd ==
    /\ Matched("\n")
    /\ Yield(IF AfterCut.empty THEN Cut ELSE Cut \o <<NewLine(tk.quoted)>>)
    /\ tk' = [AfterCut EXCEPT !.empty = TRUE, !.comment = FALSE, !.started = FALSE]

Blank == Matched(" ") /\ Yield(Cut) /\ tk' = AfterCut

\* A brace is a token of its own.  It does not make its line one with tokens.
Brace(ch) ==
    /\ ch \in {"{", "}"} /\ Matched(ch)
    /\ Yield(Cut \o <<Token(<<ch>>, FALSE, AfterCut.quote, ~tk.started)>>)
    /\ tk' = [AfterCut EXCEPT !.quote = <<>>, !.started = TRUE]

Hash == Matched("#") /\ tk' = [tk EXCEPT !.comment = TRUE] /\ Quiet

Backslash == Matched("\\") /\ tk' = [tk EXCEPT !.escaped = ~@] /\ Quiet

\* Mutant: the end of a range counts from the wrong side.
Quote_EndOffByOne ==
    /\ Matched("\"")
    /\ tk' = [tk EXCEPT
         !.quoted = ~@,
         !.stale = tk.escaped,
         !.quote = IF @ = <<>> /\ ~tk.quoted THEN <<Len(tk.str)>>
                   ELSE IF Len(@) = 1 /\ tk.quoted /\ Len(tk.str) > @[1]
                   THEN Append(@, Len(tk.str) + 1)
                   ELSE @]
    /\ Quiet

\* Mutant: a second pair of quotes in a token extends the range of the first.
Quote_Reopens ==
    /\ Matched("\"")
    /\ tk' = [tk EXCEPT !.quoted = ~@, !.stale = tk.escaped,
                        !.quote = Append(@, Len(tk.str))]
    /\ Quiet

\* Quotes around nothing leave the state Half behind.
Quote ==
    /\ Matched("\"")
    /\ tk' = [tk EXCEPT
         !.quoted = ~@,
         !.stale = tk.escaped,
         !.quote = IF @ = <<>> /\ ~tk.quoted THEN <<Len(tk.str)>>
                   ELSE IF Len(@) = 1 /\ tk.quoted /\ Len(tk.str) > @[1]
                   THEN Append(@, Len(tk.str))
                   ELSE @]
    /\ Quiet

Other(ch) == Plain(ch) /\ Matched(ch) /\ tk' = Pushed(ch) /\ Quiet

Feed(ch) ==
    /\ Asked
    /\ \/ SkipComment(ch) \/ Escaped(ch) \/ InQuotes(ch)
       \/ ch = "\n" /\ LineEnd
       \/ ch = " " /\ Blank
       \/ Brace(ch)
       \/ ch = "#" /\ Hash
       \/ ch = "\\" /\ Backslash
       \/ ch = "\"" /\ Quote
       \/ Other(ch)
    /\ UNCHANGED <<ended, slot, openLine>>

\* Mutant: a last line without a line feed is not ended.
EndOfInput_NoNewLine ==
    /\ Asked
    /\ Yield(Cut \o <<End>>)
    /\ ended' = TRUE
    /\ UNCHANGED <<tk, slot, openLine>>

\* The loop is over; the last poll is answered Ready.
EndOfInput ==
    /\ Asked
    /\ Yield((IF AfterCut.empty THEN Cut ELSE Cut \o <<NewLine(tk.quoted)>>) \o <<End>>)
    /\ ended' = TRUE
    /\ UNCHANGED <<tk, slot, openLine>>

----------------------------------------------------------------------------
\* The consumer's side

Ready == slot # <<>> \/ yields # <<>>

Item == IF slot # <<>> THEN slot[1] ELSE yields[1]

\* A poll takes the value out of the cell that yield_ filled.
Poll == yields' = IF slot # <<>> THEN yields ELSE Tail(yields)

SeenItem == openLine' = IF Item.kind = "NewLine" THEN Item.quoted ELSE openLine

PeekItem ==
    /\ Ready /\ Poll /\ SeenItem
    /\ slot' = <<Item>>
    /\ UNCHANGED <<tk, ended, misread>>

NextItem ==
    /\ Ready /\ Poll /\ SeenItem
    /\ slot' = <<>>
    /\ UNCHANGED <<tk, ended, misread>>

\* A finished producer is polled again: an async fn panics ("resumed after
\* completion"), where the gen fn of the nightly build would say None again.
PolledAgain == ended /\ ~Ready

----------------------------------------------------------------------------
\* The range handed to the unchecked slice of before_quoted lies within the
\* token it belongs to, however quotes, escapes and line ends follow each other.
InRange(t) ==
    t.kind = "Token" /\ t.quoted # <<>> =>
        /\ Len(t.quoted) = 2
        /\ t.quoted[1] < t.quoted[2] /\ t.quoted[2] <= Len(t.str)

QuotedInRange ==
    /\ \A i \in DOMAIN yields : InRange(yields[i])
    /\ \A i \in DOMAIN slot : InRange(slot[i])
============================================================================
