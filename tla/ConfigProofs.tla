---------------------------- MODULE ConfigProofs ----------------------------
(***************************************************************************)
(* Proofs about Config and the Tokenizer below it: for files of any length *)
(* and tokens of any length and kind.                                      *)
(*                                                                         *)
(* The parser sees one queue of items, the peeked one and those in the     *)
(* cell of the producer (Waiting): to peek leaves the queue as it is, and  *)
(* to take drops its head.  The invariant relates the queue to what the    *)
(* producer has read (LinesOK, CleanOK) and to the point of the parser     *)
(* (PointOK).                                                              *)
(***************************************************************************)
EXTENDS Config, SequenceTheorems, TLAPS

Waiting == slot \o yields

Characters == Special \cup {"word"} \cup UNION {Words[p] : p \in Points}

Tokens   == [kind : {"Token"}, str : Seq(Characters), inner : BOOLEAN,
             quoted : Seq(Nat), first : BOOLEAN]
LineEnds == [kind : {"NewLine"}, quoted : BOOLEAN]
Items    == Tokens \cup LineEnds \cup {End}

Holds(w, S) == \E i \in 1..Len(w) : w[i] \in S

\* Tokens, then perhaps the end of their line, then perhaps that of the file.
ShapeOK(w) ==
    /\ w \in Seq(Items) /\ Len(w) \in 0..3
    /\ \A i \in 1..Len(w) : w[i] \in LineEnds => \A j \in (i + 1)..Len(w) : w[j] = End
    /\ \A i \in 1..Len(w) : w[i] = End => i = Len(w)

Locals == [str : Seq(Characters), quote : Seq(Nat), comment : BOOLEAN, empty : BOOLEAN,
           escaped : BOOLEAN, quoted : BOOLEAN, inner : BOOLEAN, first : BOOLEAN,
           started : BOOLEAN, stale : BOOLEAN, swallowed : BOOLEAN]

QueueOK ==
    /\ TypeOK
    /\ slot \in Seq(Items) /\ yields \in Seq(Items)
    /\ ShapeOK(Waiting)

\* A range of quotes lies within the characters that were there when it closed.
QuotesOK ==
    /\ tk \in Locals
    /\ tk.quote # <<>> => tk.quote[1] <= Len(tk.str)
    /\ Len(tk.quote) = 2 => tk.quote[1] < tk.quote[2] /\ tk.quote[2] <= Len(tk.str)
    /\ \A i \in 1..Len(Waiting) : InRange(Waiting[i])

\* Either the end of the line waits, or the producer knows that it will come.
InLine == Holds(Waiting, LineEnds) \/ (~ended /\ ~tk.empty)

Braces == {<<b>> : b \in {"{", "}"}}

\* The next token will begin a line: the line has not begun, or with the token
\* under way.
Fresh == tk.first \/ ~tk.started

\* As long as no line end was swallowed, the marks say what they mean.
LinesOK ==
    /\ Holds(Waiting, LineEnds) /\ ~ended => tk.empty
    /\ Holds(Waiting, {End}) => ended
    /\ \A i \in 1..Len(Waiting) :
          Waiting[i] \in Tokens /\ Waiting[i].str \notin Braces => InLine
    /\ ~tk.swallowed =>
          /\ tk.str # <<>> => tk.started
          /\ tk.str = <<>> => ~tk.first
          /\ ~tk.empty => ~Fresh
          /\ Holds(Waiting, LineEnds) /\ ~ended => Fresh
          /\ \A i \in 1..Len(Waiting) : Waiting[i] \in Tokens /\ Waiting[i].first => i = 1

InRule == {"options", "brace", "duration", "close", "envbrace", "envs", "identity", "as",
           "target", "cmd", "command", "args", "arg"}
Failed == {"error", "overflow", "panic"}

PointOK ==
    /\ pc \in {"open", "perm"} => Waiting = <<>> /\ ~ended /\ tk.empty /\ Fresh
    /\ pc = "line" /\ Waiting = <<>> => ended \/ (tk.empty /\ (~tk.swallowed => Fresh))
    /\ pc = "line" /\ Waiting # <<>> => Waiting[1] \notin LineEnds
    /\ pc = "action" => Waiting # <<>> /\ Waiting[1] \in Tokens
    /\ pc \in {"line", "action"} /\ Waiting # <<>> /\ Waiting[1] \in Tokens =>
          tk.swallowed \/ Waiting[1].first
    /\ pc \in InRule /\ ~unclosed => InLine
    /\ pc \in InRule /\ ~unclosed /\ ~tk.swallowed =>
          \A i \in 1..Len(Waiting) : Waiting[i] \in Tokens => ~Waiting[i].first
    /\ ended /\ ~unclosed /\ pc \notin Failed => Holds(Waiting, {End})
    /\ pc = "ok" => ended /\ yields = <<>> /\ slot = <<End>>
    /\ pc = "panic" => unclosed

\* As long as no quotes are open at the end of a line, a quoted character has a
\* range that covers it, or quotes that will close behind it.
Covered ==
    /\ ~misread
    /\ tk.quoted => tk.quote # <<>>
    /\ tk.inner => \/ Len(tk.quote) = 2
                   \/ tk.quoted /\ Len(tk.quote) = 1 /\ Len(tk.str) > tk.quote[1]

CleanOK ==
    \/ Covered
    \/ unclosed \/ pc \in Failed
    \/ Holds(Waiting, {NewLine(TRUE)})
    \/ pc = "line" /\ openLine

CInv == QueueOK /\ QuotesOK /\ LinesOK /\ PointOK /\ CleanOK

USE DEF CInv, tokens, parsing, Goto, Keep, Fail, NoChars, Final, Failed, InRule, Points, Fresh

\* The initial states satisfy the invariant.
LEMMA InitInv == Init => CInv
<1> SUFFICES ASSUME Init
             PROVE  CInv
  OBVIOUS
<1>1. slot = <<>> /\ yields = <<>> /\ Waiting = <<>> /\ Len(Waiting) = 0
  BY DEF Init, TokenizerInit, Waiting
<1>2. QueueOK
  <2>1. /\ unclosed = FALSE /\ ended = FALSE /\ openLine = FALSE /\ misread = FALSE
        /\ pc \in Points /\ Len(slot) = 0 /\ Len(yields) = 0 /\ Len(tk.quote) = 0
        /\ rule \in [persist : BOOLEAN, envs : BOOLEAN]
    BY <1>1 DEF Init, TokenizerInit, NewRule
  <2>2. {unclosed, ended, openLine, misread} \subseteq BOOLEAN
    BY <2>1
  <2>3. TypeOK
    BY <2>1, <2>2 DEF TypeOK
  <2> QED
    BY <1>1, <2>3 DEF QueueOK, ShapeOK
<1>3. QuotesOK
  BY <1>1 DEF Init, TokenizerInit, QuotesOK, Locals
<1>4. LinesOK /\ PointOK
  BY <1>1 DEF Init, TokenizerInit, LinesOK, PointOK, Holds, InLine
<1>5. CleanOK
  BY <1>1 DEF Init, TokenizerInit, CleanOK, Covered
<1> QED
  BY <1>2, <1>3, <1>4, <1>5

----------------------------------------------------------------------------
\* The queue

\* The types of the queue and its parts.
LEMMA Bounds ==
    ASSUME QueueOK
    PROVE  /\ slot \in Seq(Items) /\ yields \in Seq(Items) /\ Waiting \in Seq(Items)
           /\ Len(slot) \in 0..1 /\ Len(yields) \in 0..3
  BY DEF QueueOK, TypeOK, ShapeOK

\* The next item is the head of the queue.
LEMMA Queue ==
    ASSUME QueueOK
    PROVE  /\ Ready <=> Waiting # <<>>
           /\ Ready => Item = Waiting[1] /\ Item \in Items
           /\ slot = <<>> => Waiting = yields
           /\ slot # <<>> => Waiting = <<slot[1]>> \o yields /\ slot = <<slot[1]>>
           /\ Len(Waiting) = Len(slot) + Len(yields)
<1> USE DEF QueueOK, Waiting, Ready, Item
<1>1. /\ Len(Waiting) = Len(slot) + Len(yields)
      /\ \A i \in 1..(Len(slot) + Len(yields)) :
            Waiting[i] = IF i <= Len(slot) THEN slot[i] ELSE yields[i - Len(slot)]
  BY ConcatProperties
<1>2. CASE slot = <<>>
  <2>1. Waiting = yields
    BY <1>2, ConcatEmptySeq
  <2>2. yields # <<>> => yields[1] \in Items
    BY ElementOfSeq, EmptySeq
  <2> QED
    BY <1>1, <1>2, <2>1, <2>2
<1>3. CASE slot # <<>>
  <2>1. Len(slot) = 1
    BY <1>3, Bounds, EmptySeq
  <2>2. slot[1] \in Items /\ slot = <<slot[1]>>
    BY <2>1, ElementOfSeq
  <2>3. Waiting[1] = slot[1] /\ Len(Waiting) >= 1
    BY <1>1, <2>1
  <2> QED
    BY <1>1, <1>3, <2>1, <2>2, <2>3
<1> QED
  BY <1>2, <1>3

\* To take an item drops the head of the queue.
LEMMA Taken ==
    ASSUME QueueOK, NextItem
    PROVE  /\ Waiting # <<>> /\ Item = Waiting[1] /\ Item \in Items
           /\ Waiting' = Tail(Waiting)
           /\ slot' = <<>> /\ yields' \in Seq(Items) /\ Len(yields') \in 0..3
<1>1. Ready /\ slot' = <<>>
  BY DEF NextItem
<1>2. CASE slot = <<>>
  <2>1. yields # <<>> /\ yields' = Tail(yields)
    BY <1>1, <1>2 DEF NextItem, Poll, Ready
  <2>2. yields' \in Seq(Items) /\ Len(yields') = Len(yields) - 1
    BY <2>1, HeadTailProperties DEF QueueOK
  <2>3. Waiting' = yields'
    BY <1>1, <2>2, ConcatEmptySeq DEF Waiting
  <2>4. Len(yields') \in 0..3
    BY <2>2, LenProperties DEF QueueOK, TypeOK
  <2> QED
    BY <1>1, <1>2, <2>1, <2>2, <2>3, <2>4, Queue
<1>3. CASE slot # <<>>
  <2>1. yields' = yields /\ Waiting = <<slot[1]>> \o yields /\ slot[1] \in Items
    BY <1>1, <1>3, Queue DEF NextItem, Poll, Item
  <2>2. Waiting' = yields
    BY <1>1, <2>1, ConcatEmptySeq DEF QueueOK, Waiting
  <2>3. Tail(Waiting) = yields
    <3>1. /\ Waiting \in Seq(Items) /\ Waiting # <<>> /\ yields \in Seq(Items)
          /\ <<slot[1]>> \in Seq(Items)
      BY <1>1, <2>1, Queue DEF QueueOK, ShapeOK
    <3>2. /\ Len(Waiting) = Len(yields) + 1
          /\ \A i \in 1..Len(yields) : Waiting[i + 1] = yields[i]
      BY <2>1, <3>1, ConcatProperties, LenProperties
    <3>3. /\ Tail(Waiting) \in Seq(Items) /\ Len(Tail(Waiting)) = Len(yields)
          /\ \A i \in 1..Len(yields) : Tail(Waiting)[i] = yields[i]
      BY <3>1, <3>2, HeadTailProperties, LenProperties
    <3> QED
      BY <3>1, <3>3, SeqEqual
  <2> QED
    BY <1>1, <2>1, <2>2, <2>3, Queue DEF QueueOK, TypeOK
<1> QED
  BY <1>2, <1>3

\* To peek leaves the queue as it is.
LEMMA Peeked ==
    ASSUME QueueOK, PeekItem
    PROVE  /\ Waiting # <<>> /\ Item = Waiting[1] /\ Item \in Items
           /\ Waiting' = Waiting
           /\ slot' = <<Item>> /\ slot' \in Seq(Items)
           /\ yields' \in Seq(Items) /\ Len(yields') \in 0..3 /\ Len(yields') = Len(Waiting) - 1
<1>1. Ready /\ slot' = <<Item>> /\ Item \in Items /\ slot' \in Seq(Items)
  BY Queue DEF PeekItem
<1>2. CASE slot = <<>>
  <2>1. yields # <<>> /\ yields' = Tail(yields) /\ Item = yields[1] /\ Waiting = yields
    BY <1>1, <1>2, Queue DEF PeekItem, Poll, Ready, Item
  <2>2. /\ yields' \in Seq(Items) /\ Len(yields') = Len(yields) - 1
        /\ \A i \in 1..Len(yields') : yields'[i] = yields[i + 1]
    BY <2>1, HeadTailProperties DEF QueueOK
  <2>3. Len(yields) \in Nat \ {0} /\ Len(slot') = 1 /\ slot'[1] = yields[1]
    BY <1>1, <2>1, EmptySeq DEF QueueOK
  <2>4. Waiting' = yields
    <3>1. /\ Waiting' \in Seq(Items) /\ Len(Waiting') = 1 + Len(yields')
          /\ \A i \in 1..(1 + Len(yields')) :
                Waiting'[i] = IF i <= 1 THEN slot'[1] ELSE yields'[i - 1]
      BY <1>1, <2>2, <2>3, ConcatProperties DEF Waiting
    <3>2. Len(Waiting') = Len(yields) /\ \A i \in 1..Len(yields) : Waiting'[i] = yields[i]
      BY <2>2, <2>3, <3>1
    <3> QED
      BY <3>1, <3>2, SeqEqual DEF QueueOK
  <2> QED
    <3>1. Len(yields') \in 0..3 /\ Len(yields') = Len(Waiting) - 1
      BY <2>1, <2>2, Bounds
    <3>2. Waiting # <<>> /\ Item = Waiting[1]
      BY <1>1, Queue
    <3> QED
      BY <1>1, <2>1, <2>2, <2>4, <3>1, <3>2
<1>3. CASE slot # <<>>
  <2>1. yields' = yields /\ slot' = slot /\ Len(slot) = 1
    BY <1>1, <1>3, Queue, Bounds, EmptySeq DEF PeekItem, Poll, Item
  <2>2. Waiting' = Waiting
    BY <2>1 DEF Waiting
  <2>3. Len(yields') \in 0..3 /\ Len(yields') = Len(Waiting) - 1 /\ yields' \in Seq(Items)
    <3>1. Len(Waiting) = 1 + Len(yields) /\ Len(yields) \in 0..3 /\ yields \in Seq(Items)
      BY <2>1, Queue, Bounds
    <3>2. Len(Waiting) - 1 = Len(yields) /\ Len(yields) \in 0..3
      BY <3>1
    <3> QED
      BY <2>1, <3>1, <3>2
  <2>4. Waiting # <<>> /\ Item = Waiting[1]
    BY <1>1, Queue
  <2> QED
    BY <1>1, <2>1, <2>2, <2>3, <2>4
<1> QED
  BY <1>2, <1>3

\* Tokens, line ends and the end are told apart by their kind.
LEMMA Kinds ==
    ASSUME NEW x \in Items
    PROVE  /\ x \in Tokens <=> x.kind = "Token"
           /\ x \in LineEnds <=> x.kind = "NewLine"
           /\ x = End <=> x.kind = "End"
  BY DEF Items, Tokens, LineEnds, End

\* What is behind the head.
LEMMA Dropped ==
    ASSUME NEW w, ShapeOK(w), w # <<>>
    PROVE  /\ ShapeOK(Tail(w)) /\ Len(Tail(w)) = Len(w) - 1
           /\ \A i \in 1..Len(Tail(w)) : Tail(w)[i] = w[i + 1]
           /\ w[1] \in Items /\ Len(w) \in Nat \ {0}
           /\ w[1] \in LineEnds => \A i \in 1..Len(Tail(w)) : Tail(w)[i] = End
           /\ w[1] = End => Tail(w) = <<>>
<1>1. /\ Tail(w) \in Seq(Items) /\ Len(Tail(w)) = Len(w) - 1
      /\ \A i \in 1..Len(Tail(w)) : Tail(w)[i] = w[i + 1]
  BY HeadTailProperties DEF ShapeOK
<1>2. Len(w) \in Nat \ {0} /\ w[1] \in Items
  BY EmptySeq, ElementOfSeq DEF ShapeOK
<1>3. w[1] = End => Tail(w) = <<>>
  <2>1. w[1] = End => Len(w) = 1
    <3>1. 1 \in 1..Len(w)
      BY <1>2
    <3> QED
      BY <3>1 DEF ShapeOK
  <2>2. Len(Tail(w)) = 0 => Tail(w) = <<>>
    BY <1>1, EmptySeq
  <2> QED
    BY <1>1, <1>2, <2>1, <2>2
<1>4. \A i \in 1..Len(Tail(w)) : Tail(w)[i] \in LineEnds =>
          \A j \in (i + 1)..Len(Tail(w)) : Tail(w)[j] = End
  <2> TAKE i \in 1..Len(Tail(w))
  <2> HAVE Tail(w)[i] \in LineEnds
  <2> TAKE j \in (i + 1)..Len(Tail(w))
  <2>1. w[i + 1] \in LineEnds /\ i + 1 \in 1..Len(w) /\ j + 1 \in (i + 2)..Len(w)
    BY <1>1, <1>2
  <2>2. w[j + 1] = End
    BY <1>2, <2>1 DEF ShapeOK
  <2> QED
    BY <1>1, <1>2, <2>2
<1>5. \A i \in 1..Len(Tail(w)) : Tail(w)[i] = End => i = Len(Tail(w))
  <2> TAKE i \in 1..Len(Tail(w))
  <2>1. i + 1 \in 1..Len(w) /\ Tail(w)[i] = w[i + 1]
    BY <1>1, <1>2
  <2>2. w[i + 1] = End => i + 1 = Len(w)
    BY <2>1 DEF ShapeOK
  <2>3. i + 1 = Len(w) => i = Len(Tail(w))
    <3>1. (i + 1) - 1 = i
      BY <1>1, <1>2
    <3> QED
      BY <1>1, <3>1
  <2> QED
    BY <2>1, <2>2, <2>3
<1>6. w[1] \in LineEnds => \A i \in 1..Len(Tail(w)) : Tail(w)[i] = End
  <2> SUFFICES ASSUME w[1] \in LineEnds, NEW i \in 1..Len(Tail(w))
               PROVE  Tail(w)[i] = End
    OBVIOUS
  <2>1. 1 \in 1..Len(w) /\ i + 1 \in 2..Len(w) /\ Tail(w)[i] = w[i + 1]
    BY <1>1, <1>2
  <2> QED
    BY <2>1 DEF ShapeOK
<1>7. Len(Tail(w)) \in 0..3
  <2>1. Len(w) \in 0..3
    BY DEF ShapeOK
  <2> QED
    BY <1>1, <1>2, <2>1
<1>8. ShapeOK(Tail(w))
  BY <1>1, <1>4, <1>5, <1>7 DEF ShapeOK
<1> QED
  BY <1>1, <1>2, <1>3, <1>6, <1>8

\* Whether something other than the head waits does not change.
LEMMA StillHolds ==
    ASSUME NEW w, ShapeOK(w), w # <<>>, NEW S
    PROVE  /\ Holds(Tail(w), S) => Holds(w, S)
           /\ Holds(w, S) /\ w[1] \notin S => Holds(Tail(w), S)
<1>1. /\ Len(Tail(w)) = Len(w) - 1 /\ Len(w) \in Nat \ {0}
      /\ \A i \in 1..Len(Tail(w)) : Tail(w)[i] = w[i + 1]
  BY Dropped
<1>2. Holds(Tail(w), S) => Holds(w, S)
  BY <1>1 DEF Holds
<1>3. ASSUME NEW i \in 1..Len(w), w[i] \in S, w[1] \notin S
      PROVE  Holds(Tail(w), S)
  <2>1. i - 1 \in 1..Len(Tail(w)) /\ Tail(w)[i - 1] = w[i]
    BY <1>1, <1>3
  <2> QED
    BY <1>3, <2>1 DEF Holds
<1> QED
  BY <1>2, <1>3 DEF Holds

----------------------------------------------------------------------------
\* Taking and peeking

\* What the invariant says of queue and producer holds of a shorter queue.
LEMMA TakeQueue ==
    ASSUME CInv, NextItem, pc' \in Points, rule' \in [persist : BOOLEAN, envs : BOOLEAN],
           unclosed' \in BOOLEAN
    PROVE  QueueOK' /\ QuotesOK' /\ LinesOK'
<1>1. /\ Waiting # <<>> /\ Item = Waiting[1] /\ Item \in Items
      /\ Waiting' = Tail(Waiting)
      /\ slot' = <<>> /\ yields' \in Seq(Items) /\ Len(yields') \in 0..3
  BY Taken
<1>2. UNCHANGED <<tk, ended, misread>>
  BY DEF NextItem
<1>3. /\ ShapeOK(Waiting') /\ Len(Waiting') = Len(Waiting) - 1
      /\ \A i \in 1..Len(Waiting') : Waiting'[i] = Waiting[i + 1]
      /\ Len(Waiting) \in Nat \ {0}
      /\ Waiting[1] \in LineEnds => \A i \in 1..Len(Waiting') : Waiting'[i] = End
  BY <1>1, Dropped DEF QueueOK
<1>4. QueueOK'
  <2>1. openLine' \in BOOLEAN
    BY <1>1, Kinds DEF NextItem, SeenItem, QueueOK, TypeOK, LineEnds
  <2>2. TypeOK'
    BY <1>1, <1>2, <2>1 DEF QueueOK, TypeOK
  <2> QED
    BY <1>1, <1>3, <2>2, EmptySeq DEF QueueOK
<1>5. QuotesOK'
  BY <1>2, <1>3 DEF QuotesOK
<1>6. InLine /\ Waiting[1] \notin LineEnds => InLine'
  BY <1>1, <1>2, StillHolds DEF InLine, QueueOK
<1>7. LinesOK'
  <2>1. /\ Holds(Waiting', LineEnds) => Holds(Waiting, LineEnds)
        /\ Holds(Waiting', {End}) => Holds(Waiting, {End})
    BY <1>1, StillHolds DEF QueueOK
  <2>2. ASSUME NEW i \in 1..Len(Waiting'), Waiting'[i] \in Tokens
        PROVE  /\ ~tk.swallowed => ~Waiting'[i].first
               /\ Waiting'[i].str \notin Braces => InLine'
    <3>1. i + 1 \in 1..Len(Waiting) /\ Waiting'[i] = Waiting[i + 1]
      BY <1>3
    <3>2. ~tk.swallowed => ~Waiting'[i].first
      BY <1>3, <2>2, <3>1 DEF LinesOK
    <3>3. Waiting[1] \notin LineEnds
      <4>1. End \notin Tokens
        BY DEF End, Tokens
      <4> QED
        BY <1>3, <2>2, <4>1
    <3> QED
      BY <1>6, <2>2, <3>1, <3>2, <3>3 DEF LinesOK
  <2> QED
    BY <1>2, <2>1, <2>2 DEF LinesOK
<1> QED
  BY <1>4, <1>5, <1>7

\* What it says of them holds of the same queue after a look.
LEMMA PeekQueue ==
    ASSUME CInv, PeekItem, pc' \in Points, rule' \in [persist : BOOLEAN, envs : BOOLEAN],
           unclosed' \in BOOLEAN
    PROVE  QueueOK' /\ QuotesOK' /\ LinesOK'
<1>1. /\ Waiting # <<>> /\ Item = Waiting[1] /\ Item \in Items
      /\ Waiting' = Waiting
      /\ slot' = <<Item>> /\ slot' \in Seq(Items)
      /\ yields' \in Seq(Items) /\ Len(yields') \in 0..3
  BY Peeked
<1>2. UNCHANGED <<tk, ended, misread>>
  BY DEF PeekItem
<1>3. QueueOK'
  <2>1. openLine' \in BOOLEAN
    BY <1>1, Kinds DEF PeekItem, SeenItem, QueueOK, TypeOK, LineEnds
  <2>2. TypeOK'
    BY <1>1, <1>2, <2>1 DEF QueueOK, TypeOK
  <2> QED
    BY <1>1, <2>2 DEF QueueOK
<1>4. QuotesOK'
  BY <1>1, <1>2 DEF QuotesOK
<1>5. LinesOK'
  BY <1>1, <1>2 DEF LinesOK, InLine
<1> QED
  BY <1>3, <1>4, <1>5

\* A token of a rule is taken, and the rule goes on, or reading has failed.
LEMMA TakeToken ==
    ASSUME CInv, NextItem, Item \in Tokens, pc \in InRule \cup {"action"},
           pc' \in InRule \cup {"error", "overflow"},
           pc = "action" /\ pc' \in InRule => Item.str \notin Braces,
           rule' \in [persist : BOOLEAN, envs : BOOLEAN], UNCHANGED unclosed
    PROVE  CInv'
<1>1. Waiting # <<>> /\ Item = Waiting[1] /\ Waiting' = Tail(Waiting) /\ UNCHANGED <<tk, ended, misread>>
  BY Taken DEF NextItem
<1>2. QueueOK' /\ QuotesOK' /\ LinesOK'
  BY TakeQueue DEF QueueOK, TypeOK
<1>3. /\ Waiting[1] \notin LineEnds /\ Waiting[1] # End /\ Waiting[1] # NewLine(TRUE)
      /\ ShapeOK(Waiting) /\ Len(Waiting) \in Nat \ {0}
      /\ Len(Waiting') = Len(Waiting) - 1
      /\ \A i \in 1..Len(Waiting') : Waiting'[i] = Waiting[i + 1]
  BY <1>1, Dropped DEF QueueOK, Tokens, LineEnds, End, NewLine
<1>4. PointOK'
  <2>1. ASSUME pc' \in InRule, ~unclosed
        PROVE  /\ InLine'
               /\ ~tk.swallowed =>
                     \A i \in 1..Len(Waiting') : Waiting'[i] \in Tokens => ~Waiting'[i].first
    <3>1. InLine
      <4>1. CASE pc \in InRule
        BY <2>1, <4>1 DEF PointOK
      <4>2. CASE pc = "action"
        BY <1>1, <1>3, <2>1, <4>2 DEF LinesOK
      <4> QED
        BY <4>1, <4>2
    <3>2. InLine'
      BY <1>1, <1>3, <3>1, StillHolds DEF InLine
    <3>3. ~tk.swallowed =>
             \A i \in 1..Len(Waiting') : Waiting'[i] \in Tokens => ~Waiting'[i].first
      BY <1>3 DEF LinesOK
    <3> QED
      BY <3>2, <3>3
  <2>2. ended /\ ~unclosed /\ pc' \notin Failed => Holds(Waiting', {End})
    <3>1. ended /\ ~unclosed => Holds(Waiting, {End})
      BY DEF PointOK
    <3> QED
      BY <1>1, <1>3, <3>1, StillHolds
  <2> QED
    BY <1>1, <2>1, <2>2 DEF PointOK
<1>5. CleanOK'
  <2>1. Holds(Waiting, {NewLine(TRUE)}) => Holds(Waiting', {NewLine(TRUE)})
    BY <1>1, <1>3, StillHolds
  <2>2. Covered => Covered'
    BY <1>1 DEF Covered
  <2> QED
    BY <2>1, <2>2 DEF CleanOK
<1> QED
  BY <1>2, <1>4, <1>5

\* The end of a line, or of the file, is taken: the rule is complete, or it is
\* an error, or it passed for a closing brace.
LEMMA TakeEnd ==
    ASSUME CInv, NextItem, Item \notin Tokens, pc \in InRule,
           \/ pc' \in {"line", "error"} /\ UNCHANGED unclosed
           \/ pc' = "options" /\ unclosed' = TRUE,
           rule' \in [persist : BOOLEAN, envs : BOOLEAN]
    PROVE  CInv'
<1>1. /\ Waiting # <<>> /\ Item = Waiting[1] /\ Waiting' = Tail(Waiting) /\ Item \in Items
      /\ UNCHANGED <<tk, ended, misread>>
  BY Taken DEF NextItem
<1>2. QueueOK' /\ QuotesOK' /\ LinesOK'
  BY TakeQueue DEF QueueOK, TypeOK
<1>3. ShapeOK(Waiting) /\ Waiting' \in Seq(Items) /\ End \notin LineEnds /\ End \notin Tokens
  BY <1>1, Dropped DEF QueueOK, ShapeOK, Tokens, LineEnds, End
<1>4. PointOK'
  <2>1. CASE Waiting[1] \in LineEnds
    <3>1. \A i \in 1..Len(Waiting') : Waiting'[i] = End
      BY <1>1, <1>3, <2>1, Dropped
    <3>2. Waiting' # <<>> => Waiting'[1] = End
      BY <1>3, <3>1, EmptySeq
    <3>3. ended \/ (tk.empty /\ (~tk.swallowed => Fresh))
      <4>1. Len(Waiting) \in Nat \ {0}
        BY <1>1, <1>3, EmptySeq DEF ShapeOK
      <4>2. Holds(Waiting, LineEnds)
        BY <2>1, <4>1 DEF Holds
      <4> QED
        BY <4>2 DEF LinesOK
    <3>4. ended /\ ~unclosed => Holds(Waiting', {End})
      <4>1. ended /\ ~unclosed => Holds(Waiting, {End})
        BY DEF PointOK
      <4>2. Waiting[1] \notin {End}
        BY <1>3, <2>1
      <4> QED
        BY <1>1, <1>3, <4>1, <4>2, StillHolds
    <3> QED
      BY <1>1, <1>3, <3>2, <3>3, <3>4 DEF PointOK
  <2>2. CASE Waiting[1] = End
    <3>1. Waiting' = <<>> /\ Len(Waiting) = 1
      <4>1. 1 \in 1..Len(Waiting)
        BY <1>1, <1>3, EmptySeq DEF ShapeOK
      <4> QED
        BY <1>1, <1>3, <2>2, <4>1, Dropped DEF ShapeOK
    <3>2. ended
      BY <2>2, <3>1 DEF LinesOK, Holds
    <3>3. unclosed
      <4>1. ~Holds(Waiting, LineEnds)
        BY <1>3, <2>2, <3>1 DEF Holds
      <4> QED
        BY <3>2, <4>1 DEF PointOK, InLine
    <3> QED
      BY <1>1, <3>1, <3>2, <3>3 DEF PointOK
  <2> QED
    BY <1>1, <2>1, <2>2 DEF Items
<1>5. CleanOK'
  <2>1. CASE Waiting[1] = NewLine(TRUE)
    BY <1>1, <2>1 DEF CleanOK, NextItem, SeenItem, NewLine
  <2>2. CASE Waiting[1] # NewLine(TRUE)
    <3>1. Holds(Waiting, {NewLine(TRUE)}) => Holds(Waiting', {NewLine(TRUE)})
      BY <1>1, <1>3, <2>2, StillHolds
    <3>2. Covered => Covered'
      BY <1>1 DEF Covered
    <3> QED
      BY <3>1, <3>2 DEF CleanOK
  <2> QED
    BY <2>1, <2>2
<1> QED
  BY <1>2, <1>4, <1>5

\* A look ahead within a rule.
LEMMA Look ==
    ASSUME CInv, PeekItem, pc \in InRule, pc' \in InRule \cup {"error"},
           rule' \in [persist : BOOLEAN, envs : BOOLEAN], UNCHANGED unclosed
    PROVE  CInv'
<1>1. Waiting' = Waiting /\ UNCHANGED <<tk, ended, misread>>
  BY Peeked DEF PeekItem
<1>2. QueueOK' /\ QuotesOK' /\ LinesOK'
  BY PeekQueue DEF QueueOK, TypeOK
<1>3. PointOK'
  BY <1>1 DEF PointOK, InLine
<1>4. CleanOK'
  BY <1>1 DEF CleanOK, Covered
<1> QED
  BY <1>2, <1>3, <1>4

----------------------------------------------------------------------------
\* The steps of the parser

\* The file is opened and its owner looked at.
LEMMA OpenStep ==
    ASSUME CInv, NEW b \in BOOLEAN, NEW c \in BOOLEAN, OpenFile(b) \/ CheckPerm(b, c)
    PROVE  CInv'
<1>1. /\ UNCHANGED <<tk, yields, ended, slot, openLine, misread, rule, unclosed>>
      /\ pc \in {"open", "perm"} /\ pc' \in {"error", "perm", "line"}
  BY DEF OpenFile, CheckPerm
<1>2. Waiting' = Waiting
  BY <1>1 DEF Waiting
<1>3. QueueOK'
  BY <1>1, <1>2 DEF QueueOK, TypeOK
<1>4. QuotesOK' /\ LinesOK'
  BY <1>1, <1>2 DEF QuotesOK, LinesOK, InLine
<1>5. PointOK' /\ CleanOK'
  BY <1>1, <1>2 DEF PointOK, CleanOK, Covered
<1> QED
  BY <1>3, <1>4, <1>5

\* At a new line: the first token of a rule, or the end of the file.
LEMMA NextLineStep ==
    ASSUME CInv, NextLine
    PROVE  CInv'
<1>1. rule' \in [persist : BOOLEAN, envs : BOOLEAN] /\ unclosed' = unclosed /\ pc = "line"
  BY DEF NextLine, NewRule
<1>2. CASE openLine
  <2>1. UNCHANGED <<tk, yields, ended, slot, openLine, misread>> /\ pc' = "error"
    BY <1>2 DEF NextLine
  <2>2. Waiting' = Waiting
    BY <2>1 DEF Waiting
  <2>3. QueueOK'
    BY <1>1, <2>1, <2>2 DEF QueueOK, TypeOK
  <2>4. QuotesOK' /\ LinesOK'
    BY <2>1, <2>2 DEF QuotesOK, LinesOK, InLine
  <2>5. PointOK' /\ CleanOK'
    BY <2>1 DEF PointOK, CleanOK
  <2> QED
    BY <2>3, <2>4, <2>5
<1>3. CASE ~openLine
  <2>1. /\ PeekItem /\ pc' = IF IsToken THEN "action" ELSE "ok"
        /\ UNCHANGED <<tk, ended, misread>>
    BY <1>3 DEF NextLine, PeekItem
  <2>2. /\ Waiting' = Waiting /\ Waiting # <<>> /\ Item = Waiting[1] /\ Item \in Items
        /\ slot' = <<Item>> /\ yields' \in Seq(Items) /\ Len(yields') = Len(Waiting) - 1
    BY <2>1, Peeked
  <2>3. QueueOK' /\ QuotesOK' /\ LinesOK'
    BY <1>1, <2>1, PeekQueue DEF QueueOK, TypeOK
  <2>4. Item \notin LineEnds /\ openLine' = openLine
    BY <1>1, <1>3, <2>1, <2>2, Kinds DEF PointOK, PeekItem, SeenItem
  <2>5. PointOK'
    <3>1. CASE Item \in Tokens
      <4>1. pc' = "action"
        BY <2>1, <3>1, Kinds DEF IsToken, Tokens
      <4> QED
        BY <1>1, <2>1, <2>2, <3>1, <4>1 DEF PointOK
    <3>2. CASE Item = End
      <4>1. pc' = "ok" /\ Len(Waiting) = 1
        <5>1. 1 \in 1..Len(Waiting) /\ ShapeOK(Waiting)
          BY <2>2, EmptySeq DEF QueueOK, ShapeOK
        <5>2. Len(Waiting) = 1
          BY <2>2, <3>2, <5>1 DEF ShapeOK
        <5> QED
          BY <2>1, <3>2, <5>2 DEF IsToken, End
      <4>2. ended /\ Holds(Waiting, {End})
        <5>1. Holds(Waiting, {End})
          <6>1. 1 \in 1..Len(Waiting) /\ Waiting[1] \in {End}
            BY <2>2, <3>2, <4>1
          <6> QED
            BY <6>1 DEF Holds
        <5> QED
          BY <5>1 DEF LinesOK
      <4>3. yields' = <<>>
        BY <2>2, <4>1, EmptySeq
      <4> QED
        BY <2>1, <2>2, <3>2, <4>1, <4>2, <4>3 DEF PointOK
    <3> QED
      BY <2>2, <2>4, <3>1, <3>2 DEF Items
  <2>6. CleanOK'
    BY <1>1, <1>3, <2>1, <2>2 DEF CleanOK, Covered
  <2> QED
    BY <2>3, <2>5, <2>6
<1> QED
  BY <1>2, <1>3

\* A finished producer is polled again.
LEMMA PanicStep ==
    ASSUME CInv, Panic
    PROVE  CInv'
<1>1. /\ UNCHANGED <<tk, yields, ended, slot, openLine, misread, rule, unclosed>>
      /\ pc \notin Final /\ pc' = "panic" /\ ended /\ ~Ready
  BY DEF Panic, Polling, PolledAgain
<1>2. Waiting' = Waiting /\ Waiting = <<>> /\ Len(Waiting) = 0
  BY <1>1, Queue DEF Waiting
<1>3. unclosed
  BY <1>1, <1>2 DEF PointOK, Holds
<1>4. QueueOK'
  BY <1>1, <1>2 DEF QueueOK, TypeOK
<1>5. QuotesOK' /\ LinesOK'
  BY <1>1, <1>2 DEF QuotesOK, LinesOK, InLine
<1>6. PointOK' /\ CleanOK'
  BY <1>1, <1>3 DEF PointOK, CleanOK
<1> QED
  BY <1>4, <1>5, <1>6

\* The words a rule begins with are not braces.
LEMMA NoBrace ==
    ASSUME NEW s, s \in {<<"permit">>, <<"deny">>}
    PROVE  s \notin Braces
<1> DEFINE marks == {"{", "}"}
<1>1. "permit" \notin marks /\ "deny" \notin marks
  BY Zenon
<1>2. Braces = {<<b>> : b \in marks}
  BY Zenon DEF Braces
<1> HIDE DEF marks
<1>3. \A b : <<b>>[1] = b
  OBVIOUS
<1> QED
  BY <1>1, <1>2, <1>3

\* Each action of the parser takes a token, takes an end, or only looks.
LEMMA ParserStep ==
    ASSUME CInv, Parser
    PROVE  CInv'
<1> USE DEF Bare, EqualKey, IsToken, NotKey, Complete
<1>1. NextItem => Item \in Items /\ (IsToken <=> Item \in Tokens)
  BY Taken, Kinds
<1>2. rule \in [persist : BOOLEAN, envs : BOOLEAN] /\ NewRule \in [persist : BOOLEAN, envs : BOOLEAN]
  BY DEF QueueOK, TypeOK, NewRule
<1>3. CASE ParseAction
  <2>1. Item \in Tokens
    BY <1>3, Taken DEF ParseAction, PointOK
  <2> QED
    <3>1. pc' \in {"options", "error"} /\ NextItem /\ UNCHANGED <<rule, unclosed>>
      BY <1>3 DEF ParseAction
    <3>2. pc' = "options" => Item.str \in {<<"permit">>, <<"deny">>}
      BY <1>3 DEF ParseAction
    <3>3. Item.str \in {<<"permit">>, <<"deny">>} => Item.str \notin Braces
      BY NoBrace
    <3>4. pc = "action"
      BY <1>3 DEF ParseAction
    <3> QED
      BY <1>2, <2>1, <3>1, <3>2, <3>3, <3>4, TakeToken
<1>4. CASE ParseFlag
  BY <1>1, <1>2, <1>4, TakeToken DEF ParseFlag
<1>5. CASE NoOption
  BY <1>2, <1>5, Look DEF NoOption
<1>6. CASE ParsePersist
  BY <1>1, <1>2, <1>6, TakeToken, Look DEF ParsePersist
<1>7. CASE PersistBrace
  BY <1>1, <1>2, <1>7, TakeToken, Look DEF PersistBrace
<1>8. CASE PersistDuration
  <2>1. /\ NextItem /\ pc \in InRule /\ UNCHANGED unclosed
        /\ pc' \in {"close", "overflow", "error"}
        /\ ~IsToken => pc' = "error"
        /\ rule' \in [persist : BOOLEAN, envs : BOOLEAN]
    BY <1>2, <1>8 DEF PersistDuration
  <2> QED
    BY <1>1, <2>1, TakeToken, TakeEnd
<1>9. CASE PersistClose
  <2>1. /\ NextItem /\ pc \in InRule /\ UNCHANGED rule
        /\ pc' \in {"options", "error"}
        /\ ~IsToken => pc' = "options"
        /\ unclosed' = (unclosed \/ ~IsToken) /\ unclosed \in BOOLEAN
    BY <1>9 DEF PersistClose, QueueOK, TypeOK
  <2> QED
    BY <1>1, <1>2, <2>1, TakeToken, TakeEnd
<1>10. CASE ParseSetenv
  BY <1>1, <1>2, <1>10, TakeToken, Look DEF ParseSetenv
<1>11. CASE SetenvBrace
  BY <1>1, <1>2, <1>11, TakeToken, TakeEnd DEF SetenvBrace
<1>12. CASE SetenvToken
  BY <1>1, <1>2, <1>12, TakeToken DEF SetenvToken
<1>13. CASE SetenvClose
  BY <1>1, <1>2, <1>13, TakeToken, TakeEnd DEF SetenvClose
<1>14. CASE ParseIdentity
  BY <1>1, <1>2, <1>14, TakeToken, TakeEnd DEF ParseIdentity
<1>15. CASE ParseAs
  BY <1>1, <1>2, <1>15, TakeToken, Look DEF ParseAs
<1>16. CASE ParseTarget
  BY <1>1, <1>2, <1>16, TakeToken, TakeEnd DEF ParseTarget
<1>17. CASE ParseCmd
  BY <1>1, <1>2, <1>17, TakeToken, TakeEnd DEF ParseCmd
<1>18. CASE ParseCommand
  BY <1>1, <1>2, <1>18, TakeToken, TakeEnd DEF ParseCommand
<1>19. CASE ParseArgs
  BY <1>1, <1>2, <1>19, TakeToken, TakeEnd DEF ParseArgs
<1>20. CASE CollectArg
  BY <1>1, <1>2, <1>20, TakeToken, TakeEnd DEF CollectArg
<1> QED
  BY <1>3, <1>4, <1>5, <1>6, <1>7, <1>8, <1>9, <1>10, <1>11, <1>12, <1>13, <1>14, <1>15,
     <1>16, <1>17, <1>18, <1>19, <1>20 DEF Parser

----------------------------------------------------------------------------
\* The steps of the producer

\* What may be known of the locals when nothing waits.
LEMMA Asking ==
    ASSUME CInv, Polling, Asked
    PROVE  /\ Waiting = <<>> /\ slot = <<>> /\ yields = <<>> /\ ~ended
           /\ pc \in InRule \cup {"line"}
           /\ pc = "line" => ~openLine /\ tk.empty /\ (~tk.swallowed => Fresh)
           /\ pc \in InRule /\ ~unclosed => ~tk.empty
           /\ Covered \/ unclosed
<1>1. slot = <<>> /\ yields = <<>> /\ ~ended /\ Waiting = <<>>
  BY Queue DEF Asked
<1>2. \A S : ~Holds(Waiting, S)
  BY <1>1 DEF Holds
<1>3. pc \in InRule \cup {"line"} /\ (pc = "line" => ~openLine)
  BY <1>1 DEF Polling, PointOK, QueueOK, TypeOK
<1>4. /\ pc = "line" => tk.empty /\ (~tk.swallowed => Fresh)
      /\ pc \in InRule /\ ~unclosed => ~tk.empty
  BY <1>1, <1>2 DEF PointOK, InLine
<1>5. Covered \/ unclosed
  BY <1>2, <1>3 DEF CleanOK
<1> QED
  BY <1>1, <1>3, <1>4, <1>5

\* What each branch of the producer owes the invariant: of its locals,
RangeKept ==
    /\ tk' \in Locals /\ Len(tk'.quote) \in 0..2
    /\ tk'.quote # <<>> => tk'.quote[1] <= Len(tk'.str)
    /\ Len(tk'.quote) = 2 => tk'.quote[1] < tk'.quote[2] /\ tk'.quote[2] <= Len(tk'.str)
    /\ \A i \in 1..Len(yields') : InRange(yields'[i])

\* of the lines,
LineKept ==
    /\ ShapeOK(yields') /\ Len(yields') \in 0..3
    /\ Holds(yields', LineEnds) /\ ~ended' => tk'.empty
    /\ Holds(yields', {End}) <=> ended'
    /\ \A i \in 1..Len(yields') : yields'[i] \in Tokens /\ yields'[i].str \notin Braces =>
          Holds(yields', LineEnds) \/ (~ended' /\ ~tk'.empty)
    /\ tk.empty /\ yields' = <<>> => tk'.empty
    /\ tk.empty /\ yields' # <<>> => yields'[1] \notin LineEnds
    /\ ~tk.empty => Holds(yields', LineEnds) \/ (~ended' /\ ~tk'.empty)

\* of the marks, unless it swallows a line end,
MarksKept ==
    ~tk'.swallowed =>
       /\ ~tk.swallowed
       /\ tk'.str # <<>> => tk'.started
       /\ tk'.str = <<>> => ~tk'.first
       /\ ~tk'.empty => ~Fresh'
       /\ Holds(yields', LineEnds) /\ ~ended' => Fresh'
       /\ Fresh /\ yields' = <<>> => Fresh'
       /\ \A i \in 1..Len(yields') : yields'[i] \in Tokens =>
             (yields'[i].first <=> i = 1 /\ Fresh)

\* and of what is quoted.
CoverKept == Covered => Covered' \/ Holds(yields', {NewLine(TRUE)})

\* A branch that owes nothing preserves the invariant.
LEMMA Produced ==
    ASSUME CInv, Polling, Asked, UNCHANGED <<parsing, slot, openLine>>,
           ended' \in BOOLEAN, misread' \in BOOLEAN, RangeKept, LineKept, MarksKept, CoverKept
    PROVE  CInv'
<1>1. /\ Waiting = <<>> /\ slot = <<>> /\ yields = <<>> /\ ~ended
      /\ pc \in InRule \cup {"line"}
      /\ pc = "line" => ~openLine /\ tk.empty /\ (~tk.swallowed => Fresh)
      /\ pc \in InRule /\ ~unclosed => ~tk.empty
      /\ Covered \/ unclosed
  BY Asking
<1>2. yields' \in Seq(Items) /\ Waiting' = yields'
  BY <1>1, ConcatEmptySeq DEF LineKept, ShapeOK, Waiting
<1>3. QueueOK'
  <2>1. {unclosed, ended, openLine, misread}' \subseteq BOOLEAN
    BY DEF QueueOK, TypeOK
  <2>2. TypeOK'
    BY <1>1, <2>1 DEF QueueOK, TypeOK, LineKept, RangeKept
  <2> QED
    BY <1>1, <1>2, <2>2 DEF QueueOK, LineKept
<1>4. QuotesOK'
  BY <1>2 DEF QuotesOK, RangeKept
<1>5. LinesOK'
  BY <1>2 DEF LinesOK, LineKept, MarksKept, InLine
<1>6. PointOK'
  <2>1. CASE pc = "line"
    <3>1. Waiting' = <<>> => tk'.empty /\ (~tk'.swallowed => Fresh')
      BY <1>1, <1>2, <2>1 DEF LineKept, MarksKept
    <3>2. Waiting' # <<>> => Waiting'[1] \notin LineEnds
      BY <1>1, <1>2, <2>1 DEF LineKept
    <3>3. Waiting' # <<>> /\ Waiting'[1] \in Tokens => tk'.swallowed \/ Waiting'[1].first
      <4>1. Waiting' # <<>> => 1 \in 1..Len(yields')
        BY <1>2, EmptySeq
      <4> QED
        BY <1>1, <1>2, <2>1, <4>1 DEF MarksKept
    <3>4. ended' => Holds(Waiting', {End})
      BY <1>2 DEF LineKept
    <3> QED
      BY <2>1, <3>1, <3>2, <3>3, <3>4 DEF PointOK
  <2>2. CASE pc \in InRule
    <3>1. ~unclosed => InLine'
      BY <1>1, <1>2, <2>2 DEF LineKept, InLine
    <3>2. ~unclosed /\ ~tk'.swallowed =>
             \A i \in 1..Len(Waiting') : Waiting'[i] \in Tokens => ~Waiting'[i].first
      BY <1>1, <1>2, <2>2 DEF MarksKept, LinesOK
    <3>3. ended' => Holds(Waiting', {End})
      BY <1>2 DEF LineKept
    <3> QED
      BY <2>2, <3>1, <3>2, <3>3 DEF PointOK
  <2> QED
    BY <1>1, <2>1, <2>2
<1>7. CleanOK'
  BY <1>1, <1>2 DEF CleanOK, CoverKept
<1> QED
  BY <1>3, <1>4, <1>5, <1>6, <1>7

\* What a branch owes the marks that yields nothing.
MarksStay ==
    ~tk'.swallowed =>
       /\ ~tk.swallowed
       /\ tk'.str # <<>> => tk'.started
       /\ tk'.str = <<>> => ~tk'.first
       /\ Fresh' <=> Fresh

\* A branch that yields nothing.
LEMMA QuietStep ==
    ASSUME CInv, Polling, Asked, Quiet, UNCHANGED <<parsing, slot, openLine, ended>>,
           tk' \in Locals, Len(tk'.quote) \in 0..2,
           tk'.quote # <<>> => tk'.quote[1] <= Len(tk'.str),
           Len(tk'.quote) = 2 => tk'.quote[1] < tk'.quote[2] /\ tk'.quote[2] <= Len(tk'.str),
           tk'.empty = tk.empty, MarksStay, Covered => Covered'
    PROVE  CInv'
<1>1. yields' = <<>> /\ Len(yields') = 0 /\ ~ended /\ misread' = misread
  BY Asking DEF Quiet
<1>2. RangeKept
  BY <1>1 DEF RangeKept
<1>3. LineKept
  BY <1>1 DEF LineKept, ShapeOK, Holds
<1>4. MarksKept
  BY <1>1 DEF MarksKept, MarksStay, Holds, LinesOK
<1>5. CoverKept
  BY DEF CoverKept
<1>6. ended' \in BOOLEAN /\ misread' \in BOOLEAN
  BY <1>1 DEF QueueOK, TypeOK
<1> QED
  BY <1>2, <1>3, <1>4, <1>5, <1>6, Produced

\* Marks that are left alone stay.
LEMMA SameMarks ==
    ASSUME CInv, tk'.str = tk.str, tk'.first = tk.first, tk'.started = tk.started,
           tk'.swallowed = tk.swallowed
    PROVE  MarksStay
  BY DEF MarksStay, LinesOK

\* A character is added to the token.
LEMMA PushedFacts ==
    ASSUME CInv, NEW ch \in Characters
    PROVE  /\ Pushed(ch) \in Locals /\ Len(Pushed(ch).str) = Len(tk.str) + 1
           /\ Pushed(ch).inner = (tk.inner \/ tk.quoted)
           /\ Pushed(ch).quote = tk.quote /\ Pushed(ch).quoted = tk.quoted
           /\ Pushed(ch).empty = tk.empty /\ Pushed(ch).swallowed = tk.swallowed
           /\ Pushed(ch).first = (tk.first \/ ~tk.started) /\ Pushed(ch).started = TRUE
           /\ Len(tk.str) \in Nat /\ tk.quote \in Seq(Nat)
<1>1. Text(ch) \in Characters
  BY DEF Text, Characters
<1>2. tk.str \in Seq(Characters) /\ tk.quote \in Seq(Nat)
  BY DEF QuotesOK, Locals
<1>3. Append(tk.str, Text(ch)) \in Seq(Characters) /\ Len(Append(tk.str, Text(ch))) = Len(tk.str) + 1
  BY <1>1, <1>2
<1>4. tk \in Locals /\ Len(tk.str) \in Nat
  BY LenProperties DEF QuotesOK, Locals
<1> DEFINE longer == Append(tk.str, Text(ch))
           inside == tk.inner \/ tk.quoted
           begins == tk.first \/ ~tk.started
<1>5. longer \in Seq(Characters) /\ inside \in BOOLEAN /\ begins \in BOOLEAN
  BY <1>3, <1>4 DEF Locals
<1>6. Pushed(ch) = [tk EXCEPT !.str = longer, !.inner = inside, !.first = begins,
                              !.started = TRUE]
  BY DEF Pushed
<1> HIDE DEF longer, inside, begins
<1>7. Pushed(ch) \in Locals
  BY <1>4, <1>5, <1>6 DEF Locals
<1>8. /\ Pushed(ch).str = longer /\ Pushed(ch).inner = inside
      /\ Pushed(ch).first = begins /\ Pushed(ch).started = TRUE
  BY <1>4, <1>6 DEF Locals
<1>9. /\ Pushed(ch).quote = tk.quote /\ Pushed(ch).quoted = tk.quoted
      /\ Pushed(ch).empty = tk.empty /\ Pushed(ch).swallowed = tk.swallowed
  BY <1>4, <1>6 DEF Locals
<1> QED
  BY <1>2, <1>3, <1>4, <1>7, <1>8, <1>9 DEF longer, inside, begins

\* A longer token has the same range in it.
LEMMA PushStep ==
    ASSUME CInv, Polling, Asked, Quiet, UNCHANGED <<parsing, slot, openLine, ended>>,
           NEW ch \in Characters, tk' \in Locals,
           tk'.str = Pushed(ch).str, tk'.inner = Pushed(ch).inner, tk'.quote = tk.quote,
           tk'.quoted = tk.quoted, tk'.empty = tk.empty, tk'.swallowed = tk.swallowed,
           tk'.first = Pushed(ch).first, tk'.started = Pushed(ch).started
    PROVE  CInv'
<1>1. /\ Len(tk'.str) = Len(tk.str) + 1 /\ Len(tk.str) \in Nat
      /\ tk'.inner = (tk.inner \/ tk.quoted) /\ tk.quote \in Seq(Nat)
  BY PushedFacts
<1>2. Len(tk.quote) \in 0..2
  BY DEF QueueOK, TypeOK
<1>3. /\ tk.quote # <<>> => tk.quote[1] \in Nat /\ tk.quote[1] <= Len(tk.str)
      /\ Len(tk.quote) = 2 => tk.quote[1] < tk.quote[2] /\ tk.quote[2] <= Len(tk.str)
                              /\ tk.quote[2] \in Nat
  <2>1. tk.quote # <<>> => tk.quote[1] \in Nat
    BY <1>1, EmptySeq, ElementOfSeq
  <2>2. Len(tk.quote) = 2 => tk.quote[2] \in Nat
    BY <1>1, ElementOfSeq
  <2> QED
    BY <2>1, <2>2 DEF QuotesOK
<1>4. /\ tk.quote # <<>> => tk.quote[1] <= Len(tk'.str) /\ Len(tk'.str) > tk.quote[1]
      /\ Len(tk.quote) = 2 => tk.quote[2] <= Len(tk'.str)
  BY <1>1, <1>3
<1>5. tk.quote # <<>> => Len(tk.quote) = 1 \/ Len(tk.quote) = 2
  BY <1>1, <1>2, EmptySeq
<1>6. Covered => Covered'
  BY <1>1, <1>4, <1>5 DEF Covered, Quiet
<1>7. MarksStay
  <2>1. tk'.str # <<>>
    BY <1>1
  <2>2. tk'.started /\ tk'.first = (tk.first \/ ~tk.started)
    BY PushedFacts
  <2> QED
    BY <2>1, <2>2 DEF MarksStay
<1> QED
  BY <1>2, <1>3, <1>4, <1>6, <1>7, QuietStep

\* The branches that yield nothing.
LEMMA PlainStep ==
    ASSUME CInv, Polling, Asked, UNCHANGED <<parsing, slot, openLine, ended>>,
           NEW ch \in Characters, SkipComment(ch) \/ Escaped(ch) \/ InQuotes(ch) \/ Other(ch)
    PROVE  CInv'
<1>1. tk \in Locals /\ Quiet
  BY DEF QuotesOK, SkipComment, Escaped, InQuotes, Other
<1>2. /\ Pushed(ch) \in Locals /\ Pushed(ch).quote = tk.quote
      /\ Pushed(ch).quoted = tk.quoted
      /\ Pushed(ch).empty = tk.empty /\ Pushed(ch).swallowed = tk.swallowed
  BY PushedFacts
<1>3. ASSUME tk' \in Locals, tk'.str = tk.str, tk'.inner = tk.inner, tk'.quote = tk.quote,
             tk'.quoted = tk.quoted, tk'.empty = tk.empty, MarksStay
      PROVE  CInv'
  <2>1. Len(tk.quote) \in 0..2
    BY DEF QueueOK, TypeOK
  <2>2. Covered => Covered'
    BY <1>1, <1>3 DEF Covered, Quiet
  <2>3. /\ tk'.quote # <<>> => tk'.quote[1] <= Len(tk'.str)
        /\ Len(tk'.quote) = 2 => tk'.quote[1] < tk'.quote[2] /\ tk'.quote[2] <= Len(tk'.str)
    BY <1>3 DEF QuotesOK
  <2> QED
    BY <1>1, <1>3, <2>1, <2>2, <2>3, QuietStep
<1>4. CASE SkipComment(ch)
  BY <1>1, <1>3, <1>4, SameMarks DEF SkipComment
<1>5. CASE Escaped(ch)
  <2>1. CASE ch = "\n"
    <3> DEFINE begun == tk.started /\ ~tk.stale
               lost  == tk.swallowed \/ (tk.started /\ tk.stale)
    <3>1. tk' = [tk EXCEPT !.started = begun, !.swallowed = lost,
                           !.escaped = FALSE, !.stale = FALSE, !.comment = FALSE]
      BY <1>5, <2>1 DEF Escaped, Continued
    <3>2. begun \in BOOLEAN /\ lost \in BOOLEAN
      BY <1>1 DEF Locals
    <3>3. MarksStay
      <4>1. /\ tk'.str = tk.str /\ tk'.first = tk.first
            /\ tk'.started = begun /\ tk'.swallowed = lost
        <5> HIDE DEF begun, lost
        <5> QED
          BY <1>1, <3>1 DEF Locals
      <4> QED
        BY <4>1 DEF MarksStay, LinesOK
    <3> HIDE DEF begun, lost
    <3>4. /\ tk'.str = tk.str /\ tk'.inner = tk.inner
          /\ tk'.quote = tk.quote /\ tk'.quoted = tk.quoted /\ tk'.empty = tk.empty
      BY <1>1, <3>1 DEF Locals
    <3>5. tk' \in Locals
      <4>1. [tk EXCEPT !.started = begun, !.swallowed = lost] \in Locals
        BY <1>1, <3>2 DEF Locals
      <4> DEFINE mid == [tk EXCEPT !.started = begun, !.swallowed = lost]
      <4>2. tk' = [mid EXCEPT !.escaped = FALSE, !.stale = FALSE, !.comment = FALSE]
        BY <3>1
      <4> HIDE DEF mid
      <4>3. mid \in Locals
        BY <4>1 DEF mid
      <4> QED
        BY <4>2, <4>3 DEF Locals
    <3> QED
      BY <1>3, <3>3, <3>4, <3>5
  <2>2. CASE ch # "\n"
    <3>1. tk' = [Pushed(ch) EXCEPT !.escaped = FALSE, !.stale = FALSE, !.comment = FALSE]
      BY <1>5, <2>2 DEF Escaped
    <3>2. /\ tk' \in Locals /\ tk'.str = Pushed(ch).str /\ tk'.inner = Pushed(ch).inner
          /\ tk'.quote = tk.quote /\ tk'.quoted = tk.quoted
          /\ tk'.empty = tk.empty /\ tk'.swallowed = tk.swallowed
          /\ tk'.first = Pushed(ch).first /\ tk'.started = Pushed(ch).started
      BY <1>2, <3>1 DEF Locals
    <3> QED
      BY <1>1, <3>2, PushStep
  <2> QED
    BY <2>1, <2>2
<1>6. CASE InQuotes(ch)
  BY <1>1, <1>2, <1>6, PushStep DEF InQuotes
<1>7. CASE Other(ch)
  BY <1>1, <1>2, <1>7, PushStep DEF Other
<1> QED
  BY <1>4, <1>5, <1>6, <1>7

\* A hash or a backslash changes how the next characters are read.
LEMMA MarkStep ==
    ASSUME CInv, Polling, Asked, UNCHANGED <<parsing, slot, openLine, ended>>,
           Hash \/ Backslash
    PROVE  CInv'
<1>1. tk \in Locals /\ Quiet
  BY DEF QuotesOK, Hash, Backslash
<1>2. /\ tk' \in Locals /\ tk'.str = tk.str /\ tk'.inner = tk.inner
      /\ tk'.quote = tk.quote /\ tk'.quoted = tk.quoted /\ tk'.empty = tk.empty
      /\ tk'.first = tk.first /\ tk'.started = tk.started /\ tk'.swallowed = tk.swallowed
  BY <1>1 DEF Hash, Backslash, Locals
<1>3. Len(tk.quote) \in 0..2
  BY DEF QueueOK, TypeOK
<1>4. Covered => Covered'
  BY <1>1, <1>2 DEF Covered, Quiet
<1>5. /\ tk'.quote # <<>> => tk'.quote[1] <= Len(tk'.str)
      /\ Len(tk'.quote) = 2 => tk'.quote[1] < tk'.quote[2] /\ tk'.quote[2] <= Len(tk'.str)
  BY <1>2 DEF QuotesOK
<1>6. MarksStay
  BY <1>2, SameMarks
<1> QED
  BY <1>1, <1>2, <1>3, <1>4, <1>5, <1>6, QuietStep

\* A range of one position gets its other end.
LEMMA Closing ==
    ASSUME NEW s \in Seq(Nat), NEW n \in Nat
    PROVE  Len(s) = 1 =>
              /\ Append(s, n) \in Seq(Nat) /\ Len(Append(s, n)) = 2
              /\ Append(s, n)[1] = s[1] /\ Append(s, n)[2] = n
<1> DEFINE a == Append(s, n)
           k == Len(s)
<1>1. /\ a \in Seq(Nat) /\ Len(a) = k + 1
      /\ \A i \in 1..k : a[i] = s[i]
      /\ a[k + 1] = n
  BY AppendProperties
<1> HIDE DEF a, k
<1>2. k = 1 => a \in Seq(Nat) /\ Len(a) = 2 /\ a[1] = s[1] /\ a[2] = n
  BY <1>1
<1> QED
  BY <1>2 DEF a, k

\* A quote opens a range where the token ends, or closes it.
LEMMA QuoteStep ==
    ASSUME CInv, Polling, Asked, UNCHANGED <<parsing, slot, openLine, ended>>, Quote
    PROVE  CInv'
<1> DEFINE q == tk.quote
           n == Len(tk.str)
           closed == IF q = <<>> /\ ~tk.quoted THEN <<n>>
                     ELSE IF Len(q) = 1 /\ tk.quoted /\ n > q[1] THEN Append(q, n) ELSE q
<1>1. tk \in Locals /\ q \in Seq(Nat) /\ n \in Nat /\ Len(q) \in 0..2 /\ Quiet
  BY LenProperties DEF QuotesOK, Locals, QueueOK, TypeOK, Quote
<1>2. tk' = [tk EXCEPT !.quoted = ~@, !.stale = tk.escaped, !.quote = closed]
  BY DEF Quote
<1>3. /\ q # <<>> => q[1] \in Nat /\ q[1] <= n
      /\ Len(q) = 2 => q[1] < q[2] /\ q[2] <= n
  BY <1>1, EmptySeq, ElementOfSeq DEF QuotesOK
<1>4. /\ closed \in Seq(Nat) /\ Len(closed) \in 0..2
      /\ closed # <<>> => closed[1] <= n
      /\ Len(closed) = 2 => closed[1] < closed[2] /\ closed[2] <= n
  <2>1. CASE q = <<>> /\ ~tk.quoted
    <3>1. closed = <<n>> /\ Len(<<n>>) = 1 /\ <<n>>[1] = n
      BY <2>1
    <3> QED
      BY <1>1, <3>1
  <2>2. CASE Len(q) = 1 /\ tk.quoted /\ n > q[1]
    <3>1. q # <<>>
      BY <2>2
    <3>2. closed = Append(q, n)
      BY <2>2, <3>1
    <3>3. /\ Append(q, n) \in Seq(Nat) /\ Len(Append(q, n)) = 2
          /\ Append(q, n)[1] = q[1] /\ Append(q, n)[2] = n
      BY <1>1, <2>2, Closing
    <3> QED
      BY <1>1, <1>3, <2>2, <3>1, <3>2, <3>3
  <2>3. CASE ~(q = <<>> /\ ~tk.quoted) /\ ~(Len(q) = 1 /\ tk.quoted /\ n > q[1])
    <3>1. closed = q
      BY <2>3
    <3> QED
      BY <1>1, <1>3, <3>1
  <2> QED
    BY <2>1, <2>2, <2>3
<1>5. Covered => Covered'
  <2> SUFFICES ASSUME Covered
               PROVE  Covered'
    OBVIOUS
  <2>1. /\ tk'.quoted = ~tk.quoted /\ tk'.quote = closed /\ tk'.inner = tk.inner
        /\ tk'.str = tk.str /\ misread' = misread
    BY <1>1, <1>2 DEF Locals, Quiet
  <2>2. CASE tk.quoted
    <3>1. tk.inner => Len(closed) = 2
      <4>1. CASE Len(q) = 2
        <5>1. q # <<>> /\ closed = q
          BY <2>2, <4>1
        <5> QED
          BY <4>1, <5>1
      <4>2. CASE Len(q) = 1 /\ n > q[1]
        <5>1. q # <<>> /\ closed = Append(q, n)
          BY <2>2, <4>2
        <5> QED
          BY <1>1, <4>2, <5>1, Closing
      <4> QED
        BY <4>1, <4>2 DEF Covered
    <3> QED
      BY <2>1, <2>2, <3>1 DEF Covered
  <2>3. CASE ~tk.quoted
    <3>1. closed # <<>>
      BY <2>3
    <3>2. tk.inner => closed = q
      <4>1. tk.inner => q # <<>>
        BY <2>3 DEF Covered
      <4> QED
        BY <2>3, <4>1
    <3> QED
      BY <2>1, <2>3, <3>1, <3>2 DEF Covered
  <2> QED
    BY <2>2, <2>3
<1>6. /\ tk' \in Locals /\ tk'.quote = closed /\ tk'.str = tk.str
      /\ tk'.empty = tk.empty /\ tk'.first = tk.first
      /\ tk'.started = tk.started /\ tk'.swallowed = tk.swallowed
  <2>1. closed \in Seq(Nat)
    BY <1>4
  <2> HIDE DEF closed
  <2>2. tk' \in Locals
    BY <1>1, <1>2, <2>1 DEF Locals
  <2> QED
    BY <1>1, <1>2, <2>2 DEF Locals
<1>7. MarksStay
  BY <1>6, SameMarks
<1> HIDE DEF closed
<1> QED
  BY <1>1, <1>4, <1>5, <1>6, <1>7, QuietStep

\* The token under way, as an item, and the locals after it.
LEMMA CutFacts ==
    ASSUME CInv
    PROVE  /\ tk \in Locals /\ AfterCut \in Locals
           /\ AfterCut.quoted = tk.quoted /\ AfterCut.str = <<>>
           /\ AfterCut.started = tk.started /\ AfterCut.swallowed = tk.swallowed
           /\ tk.str = <<>> => Cut = <<>> /\ AfterCut = tk /\ Len(tk.quote) # 2
           /\ tk.str # <<>> =>
                 /\ ~AfterCut.inner /\ ~AfterCut.first /\ AfterCut.quote = <<>>
                 /\ ~AfterCut.empty
                 /\ \E t \in Tokens :
                       /\ Cut = <<t>> /\ InRange(t) /\ t.first = tk.first
                       /\ t.quoted = TakeOption(tk.quote) /\ t.inner = tk.inner
<1>1. tk \in Locals
  BY DEF QuotesOK
<1>2. CASE tk.str = <<>>
  <2>1. Len(tk.quote) = 2 => FALSE
    <3>1. Len(tk.str) = 0
      BY <1>2
    <3>2. Len(tk.quote) = 2 => tk.quote[1] \in Nat /\ tk.quote[2] \in Nat
      BY <1>1, ElementOfSeq DEF Locals
    <3> QED
      BY <3>1, <3>2 DEF QuotesOK
  <2> QED
    BY <1>1, <1>2, <2>1 DEF Cut, AfterCut
<1>3. CASE tk.str # <<>>
  <2>1. AfterCut = [tk EXCEPT !.str = <<>>, !.inner = FALSE, !.first = FALSE,
                              !.quote = <<>>, !.empty = FALSE]
    BY <1>3 DEF AfterCut
  <2>2. /\ AfterCut \in Locals /\ AfterCut.quoted = tk.quoted
        /\ AfterCut.str = <<>> /\ ~AfterCut.inner /\ ~AfterCut.first
        /\ AfterCut.quote = <<>> /\ ~AfterCut.empty
        /\ AfterCut.started = tk.started /\ AfterCut.swallowed = tk.swallowed
    <3>1. <<>> \in Seq(Characters) /\ <<>> \in Seq(Nat)
      BY EmptySeq
    <3>2. AfterCut \in Locals
      BY <1>1, <2>1, <3>1 DEF Locals
    <3> QED
      BY <1>1, <2>1, <3>2 DEF Locals
  <2> DEFINE t == Token(tk.str, tk.inner, tk.quote, tk.first)
  <2>3. TakeOption(tk.quote) \in Seq(Nat)
    BY <1>1 DEF Locals, TakeOption
  <2>4. t \in Tokens
    BY <1>1, <2>3 DEF Tokens, Token, Locals
  <2>5. t.first = tk.first /\ t.quoted = TakeOption(tk.quote) /\ t.inner = tk.inner
        /\ t.str = tk.str
    BY DEF Token
  <2>6. InRange(t)
    BY <2>5 DEF InRange, TakeOption, QuotesOK
  <2>7. Cut = <<t>>
    BY <1>3 DEF Cut
  <2> QED
    BY <1>1, <1>3, <2>2, <2>4, <2>5, <2>6, <2>7
<1> QED
  BY <1>2, <1>3

\* What a token that is cut while it is covered counts as.
LEMMA NotMisread ==
    ASSUME CInv, Covered, ~tk.quoted
    PROVE  tk.inner => TakeOption(tk.quote) # <<>>
<1>1. tk.inner => Len(tk.quote) = 2 /\ tk.quote # <<>>
  BY DEF Covered
<1> QED
  BY <1>1 DEF TakeOption

\* One item behind one other,
LEMMA Joined ==
    ASSUME NEW S, NEW a \in S, NEW b \in S
    PROVE  <<a>> \o <<b>> = <<a, b>>
<1> DEFINE s == <<a>>
           t == <<b>>
           c == s \o t
           d == <<a, b>>
<1>1. /\ s \in Seq(S) /\ Len(s) = 1 /\ s[1] = a
      /\ t \in Seq(S) /\ Len(t) = 1 /\ t[1] = b
      /\ d \in Seq(S) /\ Len(d) = 2 /\ d[1] = a /\ d[2] = b
  OBVIOUS
<1> HIDE DEF s, t, d
<1>2. /\ c \in Seq(S) /\ Len(c) = Len(s) + Len(t)
      /\ \A i \in 1..(Len(s) + Len(t)) : c[i] = IF i <= Len(s) THEN s[i] ELSE t[i - Len(s)]
  BY <1>1, ConcatProperties
<1> HIDE DEF c
<1>3. Len(c) = 2 /\ c[1] = a /\ c[2] = b
  BY <1>1, <1>2
<1>4. \A i \in 1..Len(c) : c[i] = d[i]
  BY <1>1, <1>3
<1>5. c = d
  BY <1>1, <1>2, <1>3, <1>4, SeqEqual
<1> QED
  BY <1>5 DEF c, d, s, t

\* and behind two.
LEMMA Joined3 ==
    ASSUME NEW S, NEW a \in S, NEW b \in S, NEW e \in S
    PROVE  <<a, b>> \o <<e>> = <<a, b, e>>
<1> DEFINE s == <<a, b>>
           t == <<e>>
           c == s \o t
           d == <<a, b, e>>
<1>1. /\ s \in Seq(S) /\ Len(s) = 2 /\ s[1] = a /\ s[2] = b
      /\ t \in Seq(S) /\ Len(t) = 1 /\ t[1] = e
      /\ d \in Seq(S) /\ Len(d) = 3 /\ d[1] = a /\ d[2] = b /\ d[3] = e
  OBVIOUS
<1> HIDE DEF s, t, d
<1>2. /\ c \in Seq(S) /\ Len(c) = Len(s) + Len(t)
      /\ \A i \in 1..(Len(s) + Len(t)) : c[i] = IF i <= Len(s) THEN s[i] ELSE t[i - Len(s)]
  BY <1>1, ConcatProperties
<1> HIDE DEF c
<1>3. Len(c) = 3 /\ c[1] = a /\ c[2] = b /\ c[3] = e
  BY <1>1, <1>2
<1>4. \A i \in 1..Len(c) : c[i] = d[i]
  BY <1>1, <1>3
<1>5. c = d
  BY <1>1, <1>2, <1>3, <1>4, SeqEqual
<1> QED
  BY <1>5 DEF c, d, s, t

\* What a producer may yield at once: one item,
LEMMA One ==
    ASSUME NEW a \in Items
    PROVE  /\ ShapeOK(<<a>>) /\ Len(<<a>>) = 1 /\ <<a>>[1] = a /\ <<a>> # <<>>
           /\ \A S : Holds(<<a>>, S) <=> a \in S
<1> DEFINE w == <<a>>
<1>1. w \in Seq(Items) /\ Len(w) = 1 /\ w[1] = a /\ w # <<>>
  OBVIOUS
<1> HIDE DEF w
<1>2. ShapeOK(w)
  BY <1>1 DEF ShapeOK
<1>3. \A S : Holds(w, S) <=> a \in S
  BY <1>1 DEF Holds
<1> QED
  BY <1>1, <1>2, <1>3 DEF w

\* two,
LEMMA Two ==
    ASSUME NEW a \in Items, NEW b \in Items, a # End, a \in LineEnds => b = End
    PROVE  /\ ShapeOK(<<a, b>>) /\ Len(<<a, b>>) = 2 /\ <<a, b>> # <<>>
           /\ <<a, b>>[1] = a /\ <<a, b>>[2] = b
           /\ \A S : Holds(<<a, b>>, S) <=> a \in S \/ b \in S
<1> DEFINE w == <<a, b>>
<1>1. w \in Seq(Items) /\ Len(w) = 2 /\ w[1] = a /\ w[2] = b /\ w # <<>>
  OBVIOUS
<1> HIDE DEF w
<1>2. ShapeOK(w)
  BY <1>1 DEF ShapeOK
<1>3. ASSUME NEW S
      PROVE  Holds(w, S) <=> a \in S \/ b \in S
  <2>1. 1 \in 1..Len(w) /\ 2 \in 1..Len(w)
    BY <1>1
  <2> QED
    BY <1>1, <2>1 DEF Holds
<1> QED
  BY <1>1, <1>2, <1>3 DEF w

\* or three.
LEMMA Three ==
    ASSUME NEW a \in Tokens, NEW b \in LineEnds
    PROVE  /\ ShapeOK(<<a, b, End>>) /\ Len(<<a, b, End>>) = 3 /\ <<a, b, End>> # <<>>
           /\ <<a, b, End>>[1] = a /\ <<a, b, End>>[2] = b /\ <<a, b, End>>[3] = End
           /\ \A S : Holds(<<a, b, End>>, S) <=> a \in S \/ b \in S \/ End \in S
<1> DEFINE w == <<a, b, End>>
<1>1. /\ a \in Items /\ b \in Items /\ End \in Items
      /\ a # End /\ b # End /\ a \notin LineEnds /\ End \notin LineEnds
  BY DEF Items, Tokens, LineEnds, End
<1>2. w \in Seq(Items) /\ Len(w) = 3 /\ w[1] = a /\ w[2] = b /\ w[3] = End /\ w # <<>>
  BY <1>1
<1> HIDE DEF w
<1>3. \A i \in 1..Len(w) : i = 1 \/ i = 2 \/ i = 3
  BY <1>2
<1>4. ShapeOK(w)
  BY <1>1, <1>2, <1>3 DEF ShapeOK
<1>5. ASSUME NEW S
      PROVE  Holds(w, S) <=> a \in S \/ b \in S \/ End \in S
  <2>1. 1 \in 1..Len(w) /\ 2 \in 1..Len(w) /\ 3 \in 1..Len(w)
    BY <1>2
  <2> QED
    BY <1>2, <1>3, <2>1 DEF Holds
<1> QED
  BY <1>2, <1>4, <1>5 DEF w

\* A line ends: its last token and its end are yielded.
LEMMA LineEndStep ==
    ASSUME CInv, Polling, Asked, UNCHANGED <<parsing, slot, openLine, ended>>, LineEnd
    PROVE  CInv'
<1>1. /\ tk \in Locals /\ AfterCut \in Locals /\ AfterCut.quoted = tk.quoted /\ ~ended
      /\ tk' = [AfterCut EXCEPT !.empty = TRUE, !.comment = FALSE, !.started = FALSE]
  BY CutFacts, Asking DEF LineEnd
<1>2. /\ tk' \in Locals /\ tk'.empty /\ ~tk'.started /\ tk'.quoted = tk.quoted
      /\ tk'.first = AfterCut.first /\ tk'.swallowed = AfterCut.swallowed
      /\ tk'.str = AfterCut.str /\ tk'.inner = AfterCut.inner /\ tk'.quote = AfterCut.quote
      /\ tk.quoted \in BOOLEAN
  BY <1>1 DEF Locals
<1> DEFINE nl == NewLine(tk.quoted)
<1>3. nl \in LineEnds /\ nl \in Items /\ nl \notin Tokens /\ nl # End /\ nl.kind # "Token"
  BY <1>2 DEF NewLine, LineEnds, Items, Tokens, End
<1>4. yields' = IF AfterCut.empty THEN Cut ELSE Cut \o <<nl>>
  BY DEF LineEnd, Yield
<1>5. tk.quoted => nl = NewLine(TRUE)
  BY <1>2
<1>6. misread' = (misread \/ Misread(yields')) /\ misread \in BOOLEAN /\ ended' = ended
  BY DEF LineEnd, Yield, QueueOK, TypeOK
<1> HIDE DEF nl
<1>7. ASSUME \A i \in 1..Len(yields') : yields'[i] \in Tokens =>
                 i = 1 /\ tk.str # <<>> /\ yields'[i].first = tk.first
      PROVE  MarksKept
  <2>1. tk'.str = <<>> /\ tk'.swallowed = tk.swallowed /\ tk'.empty /\ ~tk'.started
    BY <1>2, CutFacts
  <2>2. ~tk.swallowed => ~tk'.first
    BY <1>2, CutFacts DEF LinesOK
  <2>3. ~tk.swallowed /\ tk.str # <<>> => (tk.first <=> Fresh)
    BY DEF LinesOK
  <2> QED
    BY <1>7, <2>1, <2>2, <2>3 DEF MarksKept
<1>8. CASE tk.str = <<>> /\ tk.empty
  <2>1. /\ AfterCut = tk /\ yields' = <<>> /\ Len(yields') = 0
        /\ tk'.quote = tk.quote /\ tk'.str = tk.str
    BY <1>2, <1>4, <1>8, CutFacts
  <2>2. misread' = misread
    BY <1>6, <2>1 DEF Misread
  <2>3. RangeKept
    BY <1>2, <2>1 DEF RangeKept, QuotesOK, QueueOK, TypeOK
  <2>4. LineKept
    BY <1>1, <1>2, <1>6, <1>8, <2>1 DEF LineKept, ShapeOK, Holds
  <2>5. CoverKept
    BY <1>2, <2>1, <2>2 DEF CoverKept, Covered
  <2>6. MarksKept
    BY <1>7, <2>1
  <2> QED
    BY <1>6, <2>2, <2>3, <2>4, <2>5, <2>6, Produced DEF QueueOK, TypeOK
<1>9. CASE tk.str = <<>> /\ ~tk.empty
  <2>1. AfterCut = tk /\ yields' = <<nl>> /\ tk'.quote = tk.quote /\ tk'.str = tk.str
    <3>1. AfterCut = tk /\ Cut = <<>>
      BY <1>9, CutFacts
    <3>2. <<>> \o <<nl>> = <<nl>>
      OBVIOUS
    <3> QED
      BY <1>2, <1>4, <1>9, <3>1, <3>2
  <2>2. /\ ShapeOK(yields') /\ Len(yields') = 1 /\ yields'[1] = nl /\ yields' # <<>>
        /\ \A S : Holds(yields', S) <=> nl \in S
    BY <1>3, <2>1, One
  <2>3. misread' = misread
    BY <1>3, <1>6, <2>2 DEF Misread
  <2>4. RangeKept
    BY <1>2, <1>3, <2>1, <2>2 DEF RangeKept, QuotesOK, QueueOK, TypeOK, InRange
  <2>5. LineKept
    BY <1>1, <1>2, <1>3, <1>6, <1>9, <2>2 DEF LineKept
  <2>6. CoverKept
    <3>1. tk.quoted => Holds(yields', {NewLine(TRUE)})
      BY <1>5, <2>2
    <3> QED
      BY <1>2, <2>1, <2>3, <3>1 DEF CoverKept, Covered
  <2>7. MarksKept
    <3>1. \A i \in 1..Len(yields') : yields'[i] \notin Tokens
      BY <1>3, <2>2
    <3> QED
      BY <1>7, <3>1
  <2> QED
    BY <1>6, <2>3, <2>4, <2>5, <2>6, <2>7, Produced DEF QueueOK, TypeOK
<1>10. CASE tk.str # <<>>
  <2>1. PICK t \in Tokens :
            /\ Cut = <<t>> /\ InRange(t) /\ t.first = tk.first
            /\ t.quoted = TakeOption(tk.quote) /\ t.inner = tk.inner
    BY <1>10, CutFacts
  <2>2. t \in Items /\ t \notin LineEnds /\ t # End /\ t.kind = "Token" /\ t.first \in BOOLEAN
    BY DEF Items, Tokens, LineEnds, End
  <2>3. yields' = <<t, nl>> /\ tk'.quote = <<>> /\ tk'.str = <<>> /\ ~tk'.inner
    <3>1. <<t>> \o <<nl>> = <<t, nl>>
      BY <1>3, <2>2, Joined
    <3> QED
      BY <1>2, <1>4, <1>10, <2>1, <3>1, CutFacts
  <2>4. /\ ShapeOK(yields') /\ Len(yields') = 2 /\ yields'[1] = t /\ yields'[2] = nl
        /\ yields' # <<>> /\ \A S : Holds(yields', S) <=> t \in S \/ nl \in S
    BY <1>3, <2>2, <2>3, Two
  <2>5. misread' = (misread \/ (t.quoted = <<>> /\ t.inner))
    <3>1. Misread(yields') <=> t.quoted = <<>> /\ t.inner
      BY <1>3, <2>2, <2>3 DEF Misread
    <3> QED
      BY <1>6, <3>1 DEF Tokens
  <2>6. RangeKept
    BY <1>2, <1>3, <2>1, <2>3, <2>4 DEF RangeKept, InRange
  <2>7. LineKept
    <3>1. Holds(yields', LineEnds) /\ ~Holds(yields', {End}) /\ yields'[1] \notin LineEnds
      BY <1>3, <2>2, <2>4
    <3>2. Len(yields') \in 0..3
      BY <2>4
    <3> QED
      BY <1>1, <1>2, <1>6, <2>4, <3>1, <3>2 DEF LineKept
  <2>8. CoverKept
    <3>1. CASE tk.quoted
      <4>1. Holds(yields', {NewLine(TRUE)})
        BY <1>5, <2>4, <3>1
      <4> QED
        BY <4>1 DEF CoverKept
    <3>2. CASE ~tk.quoted
      BY <1>2, <2>1, <2>3, <2>5, <3>2, NotMisread DEF CoverKept, Covered
    <3> QED
      BY <3>1, <3>2
  <2>9. MarksKept
    <3>1. \A i \in 1..Len(yields') : yields'[i] \in Tokens => i = 1
      BY <1>3, <2>4
    <3>2. yields'[1].first = tk.first
      BY <2>1, <2>4
    <3> QED
      BY <1>7, <1>10, <3>1, <3>2
  <2>10. misread' \in BOOLEAN
    BY <1>6, <2>5
  <2> QED
    BY <1>6, <2>6, <2>7, <2>8, <2>9, <2>10, Produced DEF QueueOK, TypeOK
<1> QED
  BY <1>8, <1>9, <1>10

\* A blank ends a token.
LEMMA BlankStep ==
    ASSUME CInv, Polling, Asked, UNCHANGED <<parsing, slot, openLine, ended>>, Blank
    PROVE  CInv'
<1>1. /\ tk \in Locals /\ AfterCut \in Locals /\ AfterCut.quoted = tk.quoted
      /\ yields = <<>> /\ ~ended /\ tk' = AfterCut /\ ~tk.quoted
  BY CutFacts, Asking DEF Blank, Matched
<1>2. /\ yields' = Cut /\ misread' = (misread \/ Misread(yields'))
      /\ misread \in BOOLEAN /\ ended' = ended
  BY DEF Blank, Yield, QueueOK, TypeOK
<1>3. CASE tk.str = <<>>
  <2>1. yields' = <<>> /\ tk' = tk
    BY <1>1, <1>2, <1>3, CutFacts
  <2>2. misread' = misread
    BY <1>2, <2>1 DEF Misread
  <2>3. /\ tk'.quote # <<>> => tk'.quote[1] <= Len(tk'.str)
        /\ Len(tk'.quote) = 2 => tk'.quote[1] < tk'.quote[2] /\ tk'.quote[2] <= Len(tk'.str)
        /\ Len(tk'.quote) \in 0..2
    BY <2>1 DEF QuotesOK, QueueOK, TypeOK
  <2>4. Quiet /\ (Covered => Covered')
    BY <1>1, <2>1, <2>2 DEF Quiet, Covered
  <2>5. MarksStay
    BY <2>1, SameMarks
  <2> QED
    BY <1>1, <2>1, <2>3, <2>4, <2>5, QuietStep
<1>4. CASE tk.str # <<>>
  <2>1. PICK t \in Tokens :
            /\ Cut = <<t>> /\ InRange(t) /\ t.first = tk.first
            /\ t.quoted = TakeOption(tk.quote) /\ t.inner = tk.inner
    BY <1>4, CutFacts
  <2>2. t \in Items /\ t \notin LineEnds /\ t # End /\ t.kind = "Token"
    BY DEF Items, Tokens, LineEnds, End
  <2>3. /\ yields' = <<t>> /\ tk'.quote = <<>> /\ tk'.str = <<>> /\ ~tk'.inner
        /\ ~tk'.empty /\ tk' \in Locals /\ ~tk'.quoted
        /\ tk'.started = tk.started /\ ~tk'.first /\ tk'.swallowed = tk.swallowed
    BY <1>1, <1>2, <1>4, <2>1, CutFacts
  <2>4. /\ ShapeOK(yields') /\ Len(yields') = 1 /\ yields'[1] = t /\ yields' # <<>>
        /\ \A S : Holds(yields', S) <=> t \in S
    BY <2>2, <2>3, One
  <2>5. misread' = (misread \/ (t.quoted = <<>> /\ t.inner))
    <3>1. Misread(yields') <=> t.quoted = <<>> /\ t.inner
      BY <2>2, <2>3 DEF Misread
    <3> QED
      BY <1>2, <3>1 DEF Tokens
  <2>6. RangeKept
    BY <2>1, <2>3, <2>4 DEF RangeKept
  <2>7. LineKept
    <3>1. ~Holds(yields', LineEnds) /\ ~Holds(yields', {End}) /\ yields'[1] \notin LineEnds
      BY <2>2, <2>4
    <3>2. Len(yields') \in 0..3
      BY <2>4
    <3> QED
      BY <1>1, <1>2, <2>3, <2>4, <3>1, <3>2 DEF LineKept
  <2>8. CoverKept
    BY <1>1, <2>1, <2>3, <2>5, NotMisread DEF CoverKept, Covered
  <2>9. MarksKept
    <3>1. \A i \in 1..Len(yields') : i = 1 /\ yields'[i].first = tk.first
      BY <2>1, <2>4
    <3>2. ~tk.swallowed => tk.started /\ (tk.first <=> Fresh)
      BY <1>4 DEF LinesOK
    <3>3. ~Holds(yields', LineEnds)
      BY <2>2, <2>4
    <3> QED
      BY <2>3, <2>4, <3>1, <3>2, <3>3 DEF MarksKept
  <2>10. misread' \in BOOLEAN
    BY <1>2, <2>5
  <2> QED
    BY <1>2, <2>6, <2>7, <2>8, <2>9, <2>10, Produced DEF QueueOK, TypeOK
<1> QED
  BY <1>3, <1>4

\* The token of a brace: it carries no range, whatever quotes came before it.
LEMMA BraceToken ==
    ASSUME CInv, NEW ch \in Characters, Brace(ch)
    PROVE  /\ ~tk.quoted
           /\ \E b \in Tokens :
                 /\ yields' = Cut \o <<b>> /\ misread' = (misread \/ Misread(yields'))
                 /\ b.str \in Braces /\ b.quoted = <<>> /\ ~b.inner /\ InRange(b)
                 /\ b.first = ~tk.started
<1> DEFINE marks == {"{", "}"}
           breaks == {"\"", "\\", "\n"}
           b == Token(<<ch>>, FALSE, AfterCut.quote, ~tk.started)
<1>1. ch \in marks /\ Matched(ch) /\ Yield(Cut \o <<b>>)
  BY Zenon DEF Brace
<1>2. \A m \in marks : m \notin breaks
  BY Zenon
<1>3. tk.quoted => ch \in breaks
  BY <1>1, Zenon DEF Matched
<1>4. Braces = {<<m>> : m \in marks}
  BY Zenon DEF Braces
<1> HIDE DEF marks, breaks
<1>5. <<ch>> \in Braces
  BY <1>1, <1>4
<1>6. TakeOption(AfterCut.quote) = <<>>
  BY CutFacts DEF TakeOption
<1>7. tk.started \in BOOLEAN
  BY CutFacts DEF Locals
<1>8. b = [kind |-> "Token", str |-> <<ch>>, inner |-> FALSE, quoted |-> <<>>,
           first |-> ~tk.started]
  BY <1>6 DEF Token
<1>9. yields' = Cut \o <<b>> /\ misread' = (misread \/ Misread(yields'))
  BY <1>1 DEF Yield
<1> HIDE DEF b
<1>10. b \in Tokens
  <2>1. <<ch>> \in Seq(Characters) /\ <<>> \in Seq(Nat)
    BY EmptySeq
  <2> QED
    BY <1>7, <1>8, <2>1 DEF Tokens
<1>11. b.quoted = <<>> /\ ~b.inner /\ b.first = ~tk.started /\ b.str = <<ch>>
  BY <1>8
<1>12. InRange(b)
  BY <1>11 DEF InRange
<1> QED
  BY <1>1, <1>2, <1>3, <1>5, <1>9, <1>10, <1>11, <1>12

\* A brace ends a token, and is one.
LEMMA BraceStep ==
    ASSUME CInv, Polling, Asked, UNCHANGED <<parsing, slot, openLine, ended>>,
           NEW ch \in Characters, Brace(ch)
    PROVE  CInv'
<1>1. /\ tk \in Locals /\ AfterCut \in Locals /\ AfterCut.quoted = tk.quoted /\ ~ended
      /\ tk' = [AfterCut EXCEPT !.quote = <<>>, !.started = TRUE]
  BY CutFacts, Asking DEF Brace
<1>2. PICK b \in Tokens :
          /\ yields' = Cut \o <<b>> /\ misread' = (misread \/ Misread(yields'))
          /\ b.str \in Braces /\ b.quoted = <<>> /\ ~b.inner /\ InRange(b)
          /\ b.first = ~tk.started
  BY BraceToken
<1>3. /\ tk' \in Locals /\ tk'.quote = <<>> /\ tk'.started /\ ~tk'.quoted
      /\ tk'.empty = AfterCut.empty /\ tk'.inner = AfterCut.inner
      /\ tk'.str = <<>> /\ tk'.first = AfterCut.first /\ tk'.swallowed = tk.swallowed
  <2>1. <<>> \in Seq(Nat) /\ ~tk.quoted
    BY EmptySeq, BraceToken
  <2>2. tk' \in Locals
    BY <1>1, <2>1 DEF Locals
  <2> QED
    BY <1>1, <2>1, <2>2, CutFacts DEF Locals
<1>4. b \in Items /\ b \notin LineEnds /\ b # End /\ b.kind = "Token"
  BY DEF Items, Tokens, LineEnds, End
<1>5. misread \in BOOLEAN /\ ended' = ended
  BY DEF QueueOK, TypeOK
<1>6. CASE tk.str = <<>>
  <2>1. AfterCut = tk /\ yields' = <<b>>
    <3>1. <<>> \o <<b>> = <<b>>
      OBVIOUS
    <3> QED
      BY <1>2, <1>6, <3>1, CutFacts
  <2>2. /\ ShapeOK(yields') /\ Len(yields') = 1 /\ yields'[1] = b /\ yields' # <<>>
        /\ \A S : Holds(yields', S) <=> b \in S
    BY <1>4, <2>1, One
  <2>3. misread' = misread
    <3>1. ~b.inner
      BY <1>2
    <3>2. ~Misread(yields')
      BY <1>4, <2>1, <3>1 DEF Misread
    <3> QED
      BY <1>2, <1>5, <3>2
  <2>4. RangeKept
    BY <1>2, <1>3, <2>2 DEF RangeKept
  <2>5. LineKept
    <3>1. \A i \in 1..Len(yields') : yields'[i].str \in Braces
      BY <1>2, <2>2
    <3>2. ~Holds(yields', LineEnds) /\ ~Holds(yields', {End}) /\ yields'[1] \notin LineEnds
      BY <1>4, <2>2
    <3>3. Len(yields') \in 0..3
      BY <2>2
    <3> QED
      BY <1>1, <1>3, <1>5, <2>1, <2>2, <3>1, <3>2, <3>3 DEF LineKept
  <2>6. CoverKept
    <3>1. Covered => ~tk.inner
      BY <1>6, BraceToken, CutFacts DEF Covered
    <3> QED
      BY <1>3, <2>1, <2>3, <3>1 DEF CoverKept, Covered
  <2>7. MarksKept
    <3>1. \A i \in 1..Len(yields') : i = 1 /\ yields'[i].first = ~tk.started
      BY <1>2, <2>2
    <3>2. ~tk.swallowed => ~tk.first
      BY <1>6 DEF LinesOK
    <3>3. ~Holds(yields', LineEnds) /\ tk'.first = tk.first
      BY <1>3, <1>4, <2>1, <2>2
    <3> QED
      BY <1>3, <2>2, <3>1, <3>2, <3>3 DEF MarksKept
  <2> QED
    BY <1>5, <2>3, <2>4, <2>5, <2>6, <2>7, Produced DEF QueueOK, TypeOK
<1>7. CASE tk.str # <<>>
  <2>1. PICK t \in Tokens :
            /\ Cut = <<t>> /\ InRange(t) /\ t.first = tk.first
            /\ t.quoted = TakeOption(tk.quote) /\ t.inner = tk.inner
    BY <1>7, CutFacts
  <2>2. t \in Items /\ t \notin LineEnds /\ t # End /\ t.kind = "Token"
    BY DEF Items, Tokens, LineEnds, End
  <2>3. yields' = <<t, b>> /\ ~tk'.inner /\ ~tk'.empty /\ ~tk'.first
    <3>1. <<t>> \o <<b>> = <<t, b>>
      BY <1>4, <2>2, Joined
    <3> QED
      BY <1>2, <1>3, <1>7, <2>1, <3>1, CutFacts
  <2>4. /\ ShapeOK(yields') /\ Len(yields') = 2 /\ yields'[1] = t /\ yields'[2] = b
        /\ yields' # <<>> /\ \A S : Holds(yields', S) <=> t \in S \/ b \in S
    BY <1>4, <2>2, <2>3, Two
  <2>5. misread' = (misread \/ (t.quoted = <<>> /\ t.inner))
    <3>1. ~b.inner
      BY <1>2
    <3>2. Misread(yields') <=> t.quoted = <<>> /\ t.inner
      BY <1>4, <2>2, <2>3, <3>1 DEF Misread
    <3> QED
      BY <1>2, <1>5, <3>2 DEF Tokens
  <2>6. RangeKept
    BY <1>2, <1>3, <2>1, <2>4 DEF RangeKept
  <2>7. LineKept
    <3>1. ~Holds(yields', LineEnds) /\ ~Holds(yields', {End}) /\ yields'[1] \notin LineEnds
      BY <1>4, <2>2, <2>4
    <3>2. Len(yields') \in 0..3
      BY <2>4
    <3> QED
      BY <1>1, <1>3, <1>5, <2>3, <2>4, <3>1, <3>2 DEF LineKept
  <2>8. CoverKept
    BY <1>3, <2>1, <2>3, <2>5, NotMisread, BraceToken DEF CoverKept, Covered
  <2>9. MarksKept
    <3>1. \A i \in 1..Len(yields') : i = 1 \/ i = 2
      BY <2>4
    <3>2. yields'[1].first = tk.first /\ yields'[2].first = ~tk.started
      BY <1>2, <2>1, <2>4
    <3>3. ~tk.swallowed => tk.started /\ (tk.first <=> Fresh)
      BY <1>7 DEF LinesOK
    <3>4. ~Holds(yields', LineEnds)
      BY <1>4, <2>2, <2>4
    <3> QED
      BY <1>3, <2>3, <2>4, <3>1, <3>2, <3>3, <3>4 DEF MarksKept
  <2>10. misread' \in BOOLEAN
    BY <1>5, <2>5
  <2> QED
    BY <1>5, <2>6, <2>7, <2>8, <2>9, <2>10, Produced DEF QueueOK, TypeOK
<1> QED
  BY <1>6, <1>7

\* The last line is ended with the file, whether a line feed ends it or not.
LEMMA EndOfInputStep ==
    ASSUME CInv, Polling, EndOfInput, UNCHANGED parsing
    PROVE  CInv'
<1>1. /\ Asked /\ ended' = TRUE /\ tk' = tk /\ UNCHANGED <<slot, openLine>>
      /\ misread' = (misread \/ Misread(yields')) /\ misread \in BOOLEAN
  BY DEF EndOfInput, Yield, QueueOK, TypeOK
<1>2. tk \in Locals /\ AfterCut \in Locals /\ AfterCut.quoted = tk.quoted /\ tk.quoted \in BOOLEAN
  BY CutFacts DEF Locals
<1> DEFINE nl == NewLine(tk.quoted)
<1>3. nl \in LineEnds /\ nl \in Items /\ nl \notin Tokens /\ nl # End /\ nl.kind # "Token"
  BY <1>2 DEF NewLine, LineEnds, Items, Tokens, End
<1>4. yields' = (IF AfterCut.empty THEN Cut ELSE Cut \o <<nl>>) \o <<End>>
  BY DEF EndOfInput, Yield
<1>5. tk.quoted => nl = NewLine(TRUE)
  BY <1>2
<1>6. End \in Items /\ End \notin Tokens /\ End \notin LineEnds /\ End.kind # "Token"
  BY DEF Items, Tokens, LineEnds, End
<1>7. ASSUME \A i \in 1..Len(yields') : yields'[i] \in Tokens =>
                i = 1 /\ tk.str # <<>> /\ yields'[i].first = tk.first
      PROVE  MarksKept
  <2>1. ~tk.swallowed /\ tk.str # <<>> => (tk.first <=> Fresh)
    BY DEF LinesOK
  <2> QED
    BY <1>1, <1>7, <2>1 DEF MarksKept, LinesOK
<1>8. ASSUME \A i \in 1..Len(yields') : InRange(yields'[i])
      PROVE  RangeKept
  BY <1>1, <1>2, <1>8 DEF RangeKept, QuotesOK, QueueOK, TypeOK
<1> HIDE DEF nl
<1>9. CASE tk.str = <<>> /\ tk.empty
  <2>1. yields' = <<End>>
    <3>1. AfterCut = tk /\ Cut = <<>>
      BY <1>9, CutFacts
    <3>2. <<>> \o <<End>> = <<End>>
      OBVIOUS
    <3> QED
      BY <1>4, <1>9, <3>1, <3>2
  <2>2. /\ ShapeOK(yields') /\ Len(yields') = 1 /\ yields'[1] = End /\ yields' # <<>>
        /\ \A S : Holds(yields', S) <=> End \in S
    BY <1>6, <2>1, One
  <2>3. misread' = misread
    BY <1>1, <1>6, <2>2 DEF Misread
  <2>4. RangeKept
    BY <1>6, <1>8, <2>2 DEF InRange
  <2>5. LineKept
    BY <1>1, <1>6, <1>9, <2>2 DEF LineKept
  <2>6. CoverKept
    BY <1>1, <2>3 DEF CoverKept, Covered
  <2>7. MarksKept
    <3>1. \A i \in 1..Len(yields') : yields'[i] \notin Tokens
      BY <1>3, <1>6, <2>2
    <3> QED
      BY <1>7, <3>1
  <2> QED
    BY <1>1, <2>3, <2>4, <2>5, <2>6, <2>7, Produced
<1>10. CASE tk.str = <<>> /\ ~tk.empty
  <2>1. yields' = <<nl, End>>
    <3>1. AfterCut = tk /\ Cut = <<>>
      BY <1>10, CutFacts
    <3>2. <<>> \o <<nl>> = <<nl>>
      OBVIOUS
    <3>3. <<nl>> \o <<End>> = <<nl, End>>
      BY <1>3, <1>6, Joined
    <3> QED
      BY <1>4, <1>10, <3>1, <3>2, <3>3
  <2>2. /\ ShapeOK(yields') /\ Len(yields') = 2 /\ yields'[1] = nl /\ yields'[2] = End
        /\ yields' # <<>> /\ \A S : Holds(yields', S) <=> nl \in S \/ End \in S
    BY <1>3, <1>6, <2>1, Two
  <2>3. misread' = misread
    <3>1. ~Misread(yields')
      BY <1>3, <1>6, <2>1 DEF Misread
    <3> QED
      BY <1>1, <3>1
  <2>4. RangeKept
    BY <1>3, <1>6, <1>8, <2>2 DEF InRange
  <2>5. LineKept
    <3>1. \A i \in 1..Len(yields') : yields'[i] \notin Tokens
      BY <1>3, <1>6, <2>2
    <3>2. Holds(yields', LineEnds) /\ Holds(yields', {End}) /\ Len(yields') \in 0..3
      BY <1>3, <2>2
    <3> QED
      BY <1>1, <1>10, <2>2, <3>1, <3>2 DEF LineKept
  <2>6. CoverKept
    BY <1>1, <2>3 DEF CoverKept, Covered
  <2>7. MarksKept
    <3>1. \A i \in 1..Len(yields') : yields'[i] \notin Tokens
      BY <1>3, <1>6, <2>2
    <3> QED
      BY <1>7, <3>1
  <2> QED
    BY <1>1, <2>3, <2>4, <2>5, <2>6, <2>7, Produced
<1>11. CASE tk.str # <<>>
  <2>1. PICK t \in Tokens :
            /\ Cut = <<t>> /\ InRange(t) /\ t.first = tk.first
            /\ t.quoted = TakeOption(tk.quote) /\ t.inner = tk.inner
    BY <1>11, CutFacts
  <2>2. t \in Items /\ t \notin LineEnds /\ t # End /\ t.kind = "Token"
    BY DEF Items, Tokens, LineEnds, End
  <2>3. yields' = <<t, nl, End>>
    <3>1. <<t>> \o <<nl>> = <<t, nl>>
      BY <1>3, <2>2, Joined
    <3>2. <<t, nl>> \o <<End>> = <<t, nl, End>>
      BY <1>3, <1>6, <2>2, Joined3
    <3> QED
      BY <1>4, <1>11, <2>1, <3>1, <3>2, CutFacts
  <2>4. /\ ShapeOK(yields') /\ Len(yields') = 3 /\ yields' # <<>>
        /\ yields'[1] = t /\ yields'[2] = nl /\ yields'[3] = End
        /\ \A S : Holds(yields', S) <=> t \in S \/ nl \in S \/ End \in S
    BY <1>3, <2>3, Three
  <2>5. \A i \in 1..Len(yields') : i = 1 \/ i = 2 \/ i = 3
    BY <2>4
  <2>6. misread' = (misread \/ (t.quoted = <<>> /\ t.inner))
    <3>1. Misread(yields') <=> t.quoted = <<>> /\ t.inner
      BY <1>3, <1>6, <2>2, <2>3 DEF Misread
    <3> QED
      BY <1>1, <3>1 DEF Tokens
  <2>7. RangeKept
    BY <1>3, <1>6, <1>8, <2>1, <2>4, <2>5 DEF InRange
  <2>8. LineKept
    <3>1. /\ Holds(yields', LineEnds) /\ Holds(yields', {End}) /\ Len(yields') \in 0..3
          /\ yields'[1] \notin LineEnds
      BY <1>3, <2>2, <2>4
    <3> QED
      BY <1>1, <2>4, <3>1 DEF LineKept
  <2>9. CoverKept
    <3>1. CASE tk.quoted
      <4>1. Holds(yields', {NewLine(TRUE)})
        BY <1>5, <2>4, <3>1
      <4> QED
        BY <4>1 DEF CoverKept
    <3>2. CASE ~tk.quoted
      BY <1>1, <2>1, <2>6, <3>2, NotMisread DEF CoverKept, Covered
    <3> QED
      BY <3>1, <3>2
  <2>10. MarksKept
    <3>1. \A i \in 1..Len(yields') : yields'[i] \in Tokens => i = 1
      BY <1>3, <1>6, <2>4, <2>5
    <3>2. yields'[1].first = tk.first
      BY <2>1, <2>4
    <3> QED
      BY <1>7, <1>11, <3>1, <3>2
  <2>11. misread' \in BOOLEAN
    BY <1>1, <2>6
  <2> QED
    BY <1>1, <2>7, <2>8, <2>9, <2>10, <2>11, Produced
<1> QED
  BY <1>9, <1>10, <1>11

----------------------------------------------------------------------------
\* What the parser waits for is read: the end of the file, or a character.
LEMMA ReadStep ==
    ASSUME CInv, Read
    PROVE  CInv'
<1>1. Polling /\ UNCHANGED parsing
  BY DEF Read
<1>2. CASE EndOfInput
  BY <1>1, <1>2, EndOfInputStep
<1>3. ASSUME NEW ch \in Special \cup Words[pc], Feed(ch)
      PROVE  CInv'
  <2>1. ch \in Characters
    BY DEF Characters, QueueOK, TypeOK
  <2>2. Asked /\ UNCHANGED <<parsing, slot, openLine, ended>>
    BY <1>1, <1>3 DEF Feed
  <2>3. \/ SkipComment(ch) \/ Escaped(ch) \/ InQuotes(ch) \/ Other(ch)
        \/ LineEnd \/ Blank \/ Brace(ch) \/ Hash \/ Backslash \/ Quote
    BY <1>3 DEF Feed
  <2> QED
    BY <1>1, <2>1, <2>2, <2>3, PlainStep, LineEndStep, BlankStep, BraceStep, MarkStep, QuoteStep
<1> QED
  BY <1>2, <1>3 DEF Read

\* Every step preserves the invariant.
LEMMA NextStep == CInv /\ [Next]_vars => CInv'
<1> SUFFICES ASSUME CInv, [Next]_vars
             PROVE  CInv'
  OBVIOUS
<1>1. CASE UNCHANGED vars
  <2>1. /\ UNCHANGED <<tk, yields, ended, slot, openLine, misread, pc, rule, unclosed>>
    BY <1>1 DEF vars
  <2>2. Waiting' = Waiting
    BY <2>1 DEF Waiting
  <2>3. QueueOK'
    BY <2>1, <2>2 DEF QueueOK, TypeOK
  <2>4. QuotesOK' /\ LinesOK'
    BY <2>1, <2>2 DEF QuotesOK, LinesOK, InLine
  <2>5. PointOK' /\ CleanOK'
    BY <2>1, <2>2 DEF PointOK, CleanOK, Covered, InLine
  <2> QED
    BY <2>3, <2>4, <2>5
<1>2. CASE Next
  BY <1>1, <1>2, OpenStep, NextLineStep, ParserStep, ReadStep, PanicStep DEF Next, Ended
<1> QED
  BY <1>1, <1>2

\* The invariant holds of every file.
THEOREM Invariant == Spec => []CInv
<1>1. Init => CInv
  BY InitInv
<1>2. CInv /\ [Next]_vars => CInv'
  BY NextStep
<1> QED
  BY <1>1, <1>2, PTL DEF Spec

----------------------------------------------------------------------------
\* Each variable keeps its shape: one character, or the end of the file, makes
\* the producer yield three items at most, and Peekable never holds two.
THEOREM TypeCorrect == Spec => []TypeOK
<1>1. CInv => TypeOK
  BY DEF QueueOK
<1> QED
  BY <1>1, Invariant, PTL

\* The range that before_quoted slices by, unchecked, lies within its token: for
\* tokens of every length.
THEOREM QuotesStayInRange == Spec => []QuotedInRange
<1>1. CInv => QuotedInRange
  <2> SUFFICES ASSUME CInv
               PROVE  QuotedInRange
    OBVIOUS
  <2>1. /\ slot \in Seq(Items) /\ yields \in Seq(Items)
        /\ Len(slot) \in Nat /\ Len(yields) \in Nat
        /\ DOMAIN slot = 1..Len(slot) /\ DOMAIN yields = 1..Len(yields)
    BY Bounds, LenProperties
  <2>2. /\ Len(Waiting) = Len(slot) + Len(yields)
        /\ \A i \in 1..(Len(slot) + Len(yields)) :
              Waiting[i] = IF i <= Len(slot) THEN slot[i] ELSE yields[i - Len(slot)]
    BY <2>1, ConcatProperties DEF Waiting
  <2>3. \A i \in 1..Len(Waiting) : InRange(Waiting[i])
    BY DEF QuotesOK
  <2>4. ASSUME NEW i \in 1..Len(yields)
        PROVE  InRange(yields[i])
    <3>1. Len(slot) + i \in 1..Len(Waiting) /\ Waiting[Len(slot) + i] = yields[i]
      BY <2>1, <2>2
    <3> QED
      BY <2>3, <3>1
  <2>5. ASSUME NEW i \in 1..Len(slot)
        PROVE  InRange(slot[i])
    <3>1. i \in 1..Len(Waiting) /\ Waiting[i] = slot[i]
      BY <2>1, <2>2
    <3> QED
      BY <2>3, <3>1
  <2> QED
    BY <2>1, <2>4, <2>5 DEF QuotedInRange
<1> QED
  BY <1>1, Invariant, PTL

\* A file is never accepted before its last character was read, though
\* next_line says the same at the end of a line and at that of the file.
THEOREM FilesAreReadWhole == Spec => []AcceptedIsWholeFile
<1>1. CInv => AcceptedIsWholeFile
  BY DEF PointOK, AcceptedIsWholeFile
<1> QED
  BY <1>1, Invariant, PTL

\* The tokens of a rule are those of one line, unless a `persist {` was left
\* without its brace or an escape that quotes left behind has swallowed the end
\* of a line.
THEOREM RulesAreLines == Spec => []OneRulePerLine
<1>1. CInv => OneRulePerLine
  <2> SUFFICES ASSUME CInv, Ready, IsToken, ~unclosed, ~tk.swallowed, pc \notin Final
               PROVE  Item.first <=> pc \in {"line", "action"}
    BY DEF OneRulePerLine, InStep
  <2>1. Waiting # <<>> /\ Waiting[1] = Item /\ Item \in Tokens
    BY Queue, Kinds DEF IsToken
  <2>2. 1 \in 1..Len(Waiting) /\ Len(Waiting) \in Nat
    BY <2>1, Bounds, EmptySeq
  <2>3. CASE pc \in {"line", "action"}
    BY <2>1, <2>3 DEF PointOK
  <2>4. CASE pc \in InRule
    BY <2>1, <2>2, <2>4 DEF PointOK
  <2>5. CASE pc \in {"open", "perm"}
    BY <2>1, <2>5 DEF PointOK
  <2> QED
    BY <2>3, <2>4, <2>5 DEF QueueOK, TypeOK
<1> QED
  BY <1>1, Invariant, PTL

\* In a file that is accepted, no token with a quoted character was compared
\* as an unquoted one.
THEOREM QuotedNamesAreNeverBare == Spec => []QuotedIsNeverBare
<1>1. CInv => QuotedIsNeverBare
  <2> SUFFICES ASSUME CInv, pc = "ok", ~unclosed
               PROVE  ~misread
    BY DEF QuotedIsNeverBare
  <2>1. slot = <<End>> /\ yields = <<>>
    BY DEF PointOK
  <2>2. Waiting = <<End>>
    BY <2>1 DEF Waiting
  <2>3. ~Holds(Waiting, {NewLine(TRUE)})
    BY <2>2 DEF Holds, End, NewLine
  <2> QED
    BY <2>3 DEF CleanOK, Covered
<1> QED
  BY <1>1, Invariant, PTL

\* The finished producer is polled again only after a `persist {` without its
\* brace.
THEOREM PanicsNeedUnclosed == Spec => []PanicNeedsUnclosed
<1>1. CInv => PanicNeedsUnclosed
  BY DEF PointOK, PanicNeedsUnclosed
<1> QED
  BY <1>1, Invariant, PTL
=============================================================================
