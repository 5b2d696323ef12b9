---------------------------- MODULE FormatterProofs ----------------------------
(***************************************************************************)
(* The formatter on texts of every length and nesting, for every indent:   *)
(* no token is lost, and a second pass changes nothing but the blank after *)
(* a comma that starts a line outside all blocks.                          *)
(***************************************************************************)
EXTENDS Formatter, SequenceTheorems, FiniteSetTheorems, TLAPS

LineEnd == [newline |-> TRUE, spaces |-> 0]

(* What a pass remembers of the token it wrote last.                        *)
Remembers(f, token) ==
  /\ f.gap \in {NoGap, LineEnd}
  /\ ~f.lineStart => f.gap = NoGap
  /\ f.gap = NoGap /\ f.lineStart /\ f.pending => token = "comma"
  /\ token \in {"lineComment", "path"} => f.gap = LineEnd /\ f.lineStart
  /\ token \in Words \cup {"operator", "include"} => f.pending /\ ~f.lineStart
  /\ token \in {"operator", "bar"} => ~f.lineStart

(* Both passes stand alike before each token, whatever gaps they found.     *)
PassInv == first = second /\ Remembers(first, last)

-----------------------------------------------------------------------------
(* The operators of a pass. *)

LEMMA GapsAreGaps == NoGap \in Gap /\ LineEnd \in Gap
BY DEF NoGap, LineEnd, Gap

LEMMA GapsDiffer ==
  /\ ~NoGap.newline /\ NoGap.spaces = 0 /\ LineEnd.newline
  /\ ~Blank.newline /\ Blank.spaces = 1
BY DEF NoGap, LineEnd, Blank

LEMMA NewlineEndsLine ==
  ASSUME NEW f \in Pass
  PROVE  /\ Newline(f) \in Pass
         /\ Newline(f).gap = LineEnd /\ Newline(f).lineStart /\ ~Newline(f).pending
BY GapsAreGaps DEF Newline, LineEnd, Pass

LEMMA NestingIsPass ==
  ASSUME NEW f \in Pass
  PROVE  /\ Deeper(f) \in Pass /\ Shallower(f) \in Pass
         /\ Shallower(f).lineStart = f.lineStart
<1>1. ASSUME NEW n \in Nat PROVE [f EXCEPT !.indent = n] \in Pass
  BY DEF Pass
<1>2. f.indent + 1 \in Nat /\ (IF f.indent = 0 THEN 0 ELSE f.indent - 1) \in Nat
  BY DEF Pass
<1>3. Shallower(f).lineStart = f.lineStart
  BY DEF Shallower, Pass
<1> QED
  BY <1>1, <1>2, <1>3, Zenon DEF Deeper, Shallower

LEMMA WriteIndentIsPass ==
  ASSUME NEW h \in Pass
  PROVE  WriteIndent(h) \in Pass
<1> DEFINE gap == [newline |-> h.gap.newline, spaces |-> h.gap.spaces + h.indent * Width]
<1>1. /\ h.indent \in Nat /\ h.gap.spaces \in Nat /\ h.gap.newline \in BOOLEAN
      /\ Width \in Nat
  BY FormatterAssumption DEF Pass, Gap
<1>2. h.gap.spaces + h.indent * Width \in Nat
  BY <1>1
<1>3. gap \in Gap
  BY <1>1, <1>2 DEF Gap
<1>4. WriteIndent(h) = IF h.lineStart THEN [h EXCEPT !.gap = gap, !.lineStart = FALSE]
                       ELSE h
  BY DEF WriteIndent
<1> QED
  BY <1>3, <1>4 DEF Pass

LEMMA BeforeIsPass ==
  ASSUME NEW f \in Pass, NEW t \in Tokens
  PROVE  Before(f, t) \in Pass
<1>1. ASSUME NEW h \in Pass PROVE WritePending(h) \in Pass
  <2>1. WriteIndent(h) \in Pass /\ Blank \in Gap
    BY WriteIndentIsPass DEF Gap, Blank
  <2> QED
    BY <2>1 DEF WritePending, Pass
<1>2. CloseBrace(f) \in Pass
  <2>1. Shallower(f) \in Pass /\ Newline(Shallower(f)) \in Pass
    BY NestingIsPass, NewlineEndsLine
  <2> QED
    BY <2>1, WriteIndentIsPass DEF CloseBrace
<1>3. TrimSpaces(f) \in Pass /\ [f EXCEPT !.pending = TRUE] \in Pass
  BY DEF TrimSpaces, Pass, Gap
<1> QED
  BY <1>1, <1>2, <1>3, WriteIndentIsPass DEF Before

LEMMA AfterIsPass ==
  ASSUME NEW f \in Pass, NEW t \in Tokens
  PROVE  After(f, t) \in Pass
<1>1. [f EXCEPT !.pending = TRUE] \in Pass /\ [f EXCEPT !.pending = FALSE] \in Pass
  BY DEF Pass
<1> QED
  BY <1>1, NewlineEndsLine, NestingIsPass DEF After

LEMMA WhitespaceIsPass ==
  ASSUME NEW f \in Pass
  PROVE  Whitespace(f) \in Pass
BY DEF Whitespace, Pass

-----------------------------------------------------------------------------
(* Types. *)

LEMMA WriteKeepsTypes ==
  ASSUME TypeOK, NEW t \in Tokens, NEW g \in Gaps, Write(t, g)
  PROVE  TypeOK'
<1> DEFINE f == Before(IF g # "none" THEN Whitespace(first) ELSE first, t)
           s == Before(IF f.gap # NoGap THEN Whitespace(second) ELSE second, t)
<1>1. f \in Pass /\ s \in Pass
  BY BeforeIsPass, WhitespaceIsPass DEF TypeOK
<1>2. f.gap \in Gap /\ s.gap \in Gap /\ f.indent \in Nat
  BY <1>1 DEF Pass
<1>3. /\ last' = t /\ open' = Nested(open, t)
      /\ first' = After([f EXCEPT !.gap = NoGap], t)
      /\ second' = After([s EXCEPT !.gap = NoGap], t)
      /\ written' = [token |-> t, after |-> last, source |-> g,
                     first |-> f.gap, second |-> s.gap, indent |-> f.indent]
      /\ Errorless(last, open, t)
  BY DEF Write
<1> HIDE DEF f, s
<1>4. [f EXCEPT !.gap = NoGap] \in Pass /\ [s EXCEPT !.gap = NoGap] \in Pass
  BY <1>1, GapsAreGaps DEF Pass
<1>5. first' \in Pass /\ second' \in Pass
  BY <1>3, <1>4, AfterIsPass
<1>6. open' \in Seq({"leftBrace", "leftParen"})
  <2>1. open \in Seq({"leftBrace", "leftParen"})
    BY DEF TypeOK
  <2>2. CASE t \in {"leftBrace", "leftParen"}
    BY <1>3, <2>1, <2>2, AppendProperties DEF Nested
  <2>3. CASE t \in {"rightBrace", "rightParen"}
    <3>1. open # <<>>
      BY <1>3, <2>3 DEF Errorless
    <3>2. Len(open) \in Nat \ {0} /\ open' = SubSeq(open, 1, Len(open) - 1)
      BY <1>3, <2>1, <2>3, <3>1, EmptySeq, LenProperties DEF Nested
    <3> DEFINE n == Len(open) - 1
    <3>3. n \in Int /\ \A i \in 1 .. n : i \in 1 .. Len(open)
      BY <3>2
    <3>4. \A i \in 1 .. n : open[i] \in {"leftBrace", "leftParen"}
      BY <2>1, <3>3, ElementOfSeq
    <3> DEFINE S == {"leftBrace", "leftParen"}
    <3> HIDE DEF n, S
    <3>5. SubSeq(open, 1, n) \in Seq(S)
      <4>1. \A i \in 1 .. n : open[i] \in S
        BY <3>4 DEF S
      <4> QED
        BY <3>3, <4>1, SubSeqProperties
    <3> QED
      BY <3>2, <3>5 DEF n, S
  <2> QED
    BY <1>3, <2>1, <2>2, <2>3 DEF Nested
<1> QED
  BY <1>2, <1>3, <1>5, <1>6 DEF TypeOK

(* Passes, gaps and nesting stay in their types, indents never below zero.  *)
THEOREM FormatterIsTyped == Spec => []TypeOK
<1>1. Init => TypeOK
  BY GapsAreGaps, EmptySeq DEF Init, TypeOK, Start, Pass, Gaps, NoToken
<1>2. TypeOK /\ [Next]_vars => TypeOK'
  <2>1. TypeOK /\ UNCHANGED vars => TypeOK'
    BY DEF TypeOK, vars
  <2> QED
    BY <2>1, WriteKeepsTypes DEF Next
<1> QED
  BY <1>1, <1>2, PTL DEF Spec

-----------------------------------------------------------------------------
(* A pass from token to token. *)

LEMMA NothingIsRemembered == Remembers(Start, NoToken)
BY DEF Start, Remembers, NoToken, Words, NoGap

LEMMA WhitespaceRemembers ==
  ASSUME NEW f \in Pass, NEW token, Remembers(f, token)
  PROVE  Remembers(Whitespace(f), token)
BY DEF Remembers, Whitespace, Pass

(* What is written before a token that does not end a block. *)
LEMMA GapBefore ==
  ASSUME NEW f \in Pass, NEW t \in Tokens, t # "rightBrace"
  PROVE  Before(f, t).gap =
           CASE t \in {"comma", "semicolon"} -> f.gap
             [] t = "leftParen"  -> WriteIndent(f).gap
             [] t = "rightParen"  -> [newline |-> f.gap.newline, spaces |-> 0]
             [] OTHER    -> IF (f.pending \/ t = "operator") /\ WriteIndent(f).gap = NoGap
                            THEN Blank ELSE WriteIndent(f).gap
BY DEF Before, WriteIndent, WritePending, TrimSpaces, Pass

(* After a token a pass has forgotten all that was pending before it.       *)
LEMMA AfterRemembers ==
  ASSUME NEW f \in Pass, NEW t \in Tokens, NEW token, Remembers(f, token)
  PROVE  Remembers(After([Before(f, t) EXCEPT !.gap = NoGap], t), t)
<1> DEFINE b == Before(f, t)
           e == [b EXCEPT !.gap = NoGap]
           a == After(e, t)
<1>1. b \in Pass
  BY BeforeIsPass
<1>2. t \notin {"comma", "semicolon", "rightParen", "rightBrace"} => ~b.lineStart
  BY <1>1 DEF Before, WritePending, WriteIndent, Pass
<1>3. e \in Pass /\ e.gap = NoGap /\ e.lineStart = b.lineStart
  BY <1>1, GapsAreGaps DEF Pass
<1> HIDE DEF b, e
<1>4. CASE t \in {"leftBrace", "lineComment", "path", "rightBrace", "semicolon"}
  <2>1. a.gap = LineEnd /\ a.lineStart /\ ~a.pending
    <3>1. \E h \in Pass : a = Newline(h)
      <4>1. CASE t = "leftBrace"
        <5>1. a = Newline(Deeper(e))
          BY <4>1 DEF After, Words
        <5> QED
          BY <1>3, <5>1, NestingIsPass
      <4>2. CASE t \in {"lineComment", "path", "rightBrace", "semicolon"}
        <5>1. a = Newline(e)
          BY <4>2 DEF After, Words
        <5> QED
          BY <1>3, <5>1
      <4> QED
        BY <1>4, <4>1, <4>2
    <3> HIDE DEF a
    <3> QED
      BY <3>1, NewlineEndsLine
  <2> HIDE DEF a
  <2>2. Remembers(a, t)
    BY <1>4, <2>1 DEF Remembers, LineEnd, NoGap, Words
  <2> QED
    BY <2>2 DEF a, e, b
<1>5. CASE t \in {"blockComment", "comma", "operator", "include"} \cup Words
  <2>1. a = [e EXCEPT !.pending = TRUE]
    BY <1>5 DEF After, Words
  <2>2. a.gap = NoGap /\ a.lineStart = b.lineStart /\ a.pending
    BY <1>3, <2>1 DEF Pass
  <2> HIDE DEF a
  <2>3. Remembers(a, t)
    BY <1>2, <1>5, <2>2 DEF Remembers, Words
  <2> QED
    BY <2>3 DEF a, e, b
<1>6. CASE t \in {"bar", "leftParen", "rightParen"}
  <2>1. a = [e EXCEPT !.pending = FALSE]
    BY <1>6 DEF After, Words
  <2>2. a.gap = NoGap /\ a.lineStart = b.lineStart /\ ~a.pending
    BY <1>3, <2>1 DEF Pass
  <2> HIDE DEF a
  <2>3. Remembers(a, t)
    BY <1>2, <1>6, <2>2 DEF Remembers, Words
  <2> QED
    BY <2>3 DEF a, e, b
<1> QED
  BY <1>4, <1>5, <1>6 DEF Tokens

-----------------------------------------------------------------------------
(* What both passes write. *)

(* The pass that is about to push t after gap g of the text.                *)
Pushing(f, t, blank) == Before(IF blank THEN Whitespace(f) ELSE f, t)

LEMMA PushingIsPass ==
  ASSUME NEW f \in Pass, NEW t \in Tokens, NEW blank \in BOOLEAN
  PROVE  Pushing(f, t, blank) \in Pass
BY BeforeIsPass, WhitespaceIsPass DEF Pushing

LEMMA PendingForgets ==
  ASSUME NEW f \in Pass, NEW h \in Pass,
         f.indent = h.indent, f.lineStart = h.lineStart, f.gap = h.gap
  PROVE  /\ WritePending(f).indent = WritePending(h).indent
         /\ WritePending(f).lineStart = WritePending(h).lineStart
         /\ f.pending /\ h.pending => WritePending(f).gap = WritePending(h).gap
<1>1. WriteIndent(f) \in Pass /\ WriteIndent(h) \in Pass
  BY WriteIndentIsPass
<1>2. /\ WriteIndent(f).indent = WriteIndent(h).indent
      /\ WriteIndent(f).lineStart = WriteIndent(h).lineStart
      /\ WriteIndent(f).gap = WriteIndent(h).gap
  BY DEF WriteIndent, Pass
<1>3. WriteIndent(f).pending = f.pending /\ WriteIndent(h).pending = h.pending
  BY DEF WriteIndent, Pass
<1> QED
  BY <1>1, <1>2, <1>3 DEF WritePending, Pass

LEMMA BeforeForgets ==
  ASSUME NEW f \in Pass, NEW h \in Pass, NEW t \in Tokens,
         f.indent = h.indent, f.lineStart = h.lineStart, f.gap = h.gap
  PROVE  /\ Before(f, t).indent = Before(h, t).indent
         /\ Before(f, t).lineStart = Before(h, t).lineStart
         /\ t \in {"rightBrace", "comma", "semicolon", "leftParen", "rightParen",
                   "operator"} =>
              Before(f, t).gap = Before(h, t).gap
<1>1. CASE t = "rightBrace"
  BY <1>1, ZenonT(30) DEF Before, CloseBrace, WriteIndent, Newline, Shallower, Pass
<1>2. CASE t \in {"comma", "semicolon", "rightParen"}
  BY <1>2 DEF Before, TrimSpaces, Pass
<1>3. CASE t = "leftParen"
  BY <1>3 DEF Before, WriteIndent, Pass
<1>4. CASE t = "operator"
  <2> DEFINE i == [f EXCEPT !.pending = TRUE]
             k == [h EXCEPT !.pending = TRUE]
  <2>1. i \in Pass /\ k \in Pass /\ i.pending /\ k.pending
        /\ i.indent = k.indent /\ i.lineStart = k.lineStart /\ i.gap = k.gap
    BY DEF Pass
  <2>2. Before(f, t) = WritePending(i) /\ Before(h, t) = WritePending(k)
    BY <1>4 DEF Before
  <2> HIDE DEF i, k
  <2> QED
    BY <1>4, <2>1, <2>2, PendingForgets
<1>5. CASE t \notin {"rightBrace", "comma", "semicolon", "leftParen", "rightParen",
                   "operator"}
  <2>1. Before(f, t) = WritePending(f) /\ Before(h, t) = WritePending(h)
    BY <1>5 DEF Before
  <2> QED
    BY <1>5, <2>1, PendingForgets
<1> QED
  BY <1>1, <1>2, <1>3, <1>4, <1>5

LEMMA AfterForgets ==
  ASSUME NEW f \in Pass, NEW h \in Pass, NEW t \in Tokens,
         f.indent = h.indent, f.lineStart = h.lineStart, f.gap = h.gap
  PROVE  After(f, t) = After(h, t)
<1>1. \A p \in BOOLEAN : [f EXCEPT !.pending = p] = [h EXCEPT !.pending = p]
  BY DEF Pass
<1>2. Newline(f) = Newline(h)
  BY DEF Newline, Pass
<1>3. Newline(Deeper(f)) = Newline(Deeper(h))
  BY DEF Newline, Deeper, Pass
<1> QED
  BY <1>1, <1>2, <1>3 DEF After

(* Whether there was a blank is forgotten once the token is dealt with.     *)
LEMMA BlanksAreForgotten ==
  ASSUME NEW f \in Pass, NEW t \in Tokens, NEW b \in BOOLEAN, NEW c \in BOOLEAN
  PROVE  After([Pushing(f, t, b) EXCEPT !.gap = NoGap], t)
           = After([Pushing(f, t, c) EXCEPT !.gap = NoGap], t)
<1> DEFINE p == Pushing(f, t, b)
           q == Pushing(f, t, c)
<1>1. p \in Pass /\ q \in Pass
  BY PushingIsPass
<1>2. p.indent = q.indent /\ p.lineStart = q.lineStart
  <2>1. /\ Whitespace(f) \in Pass /\ Whitespace(f).indent = f.indent
        /\ Whitespace(f).lineStart = f.lineStart /\ Whitespace(f).gap = f.gap
    BY WhitespaceIsPass DEF Whitespace, Pass
  <2> QED
    BY <2>1, BeforeForgets DEF Pushing
<1> HIDE DEF p, q
<1> DEFINE d == [p EXCEPT !.gap = NoGap]
           e == [q EXCEPT !.gap = NoGap]
<1>3. d \in Pass /\ e \in Pass
      /\ d.indent = e.indent /\ d.lineStart = e.lineStart /\ d.gap = e.gap
  BY <1>1, <1>2, GapsAreGaps DEF Pass
<1> HIDE DEF d, e
<1>4. After(d, t) = After(e, t)
  BY <1>3, AfterForgets
<1> QED
  BY <1>4 DEF d, e, p, q

(* A second pass finds the blank it would write itself, but for one after a *)
(* comma at the start of a line.                                            *)
LEMMA SecondGap ==
  ASSUME NEW f \in Pass, NEW t \in Tokens, NEW token, Remembers(f, token),
         NEW blank \in BOOLEAN, NEW one, one = Pushing(f, t, blank),
         NEW again \in BOOLEAN, again <=> one.gap # NoGap,
         NEW two, two = Pushing(f, t, again), two.gap # one.gap
  PROVE  /\ token = "comma" /\ one.indent = 0
         /\ \/ two.gap = NoGap /\ one.gap = Blank
            \/ two.gap = Blank /\ one.gap = NoGap
<1> DEFINE g == Pushing(f, t, blank).gap
           h == Pushing(f, t, again).gap
           w == Whitespace(f)
           W == WriteIndent(f).gap
           Pending(b) == IF b THEN ~f.lineStart ELSE f.pending
<1>1. /\ w \in Pass /\ w.indent = f.indent /\ w.lineStart = f.lineStart
      /\ w.gap = f.gap /\ w.pending = ~f.lineStart
  BY WhitespaceIsPass DEF Whitespace, Pass
<1>2. t \notin {"rightBrace", "comma", "semicolon", "leftParen", "rightParen",
                "operator"}
  BY <1>1, BeforeForgets DEF Pushing
<1>3. WriteIndent(w).gap = W
  BY <1>1 DEF WriteIndent, Pass
<1>4. \A b \in BOOLEAN :
        Pushing(f, t, b).gap = IF Pending(b) /\ W = NoGap THEN Blank ELSE W
  <2>1. \A b \in BOOLEAN : Pushing(f, t, b) = WritePending(IF b THEN w ELSE f)
    BY <1>2 DEF Pushing, Before
  <2>2. WriteIndent(w).pending = w.pending /\ WriteIndent(f).pending = f.pending
        /\ WriteIndent(w) \in Pass /\ WriteIndent(f) \in Pass
    BY <1>1, WriteIndentIsPass DEF WriteIndent, Pass
  <2>3. WritePending(f).gap = IF f.pending /\ W = NoGap THEN Blank ELSE W
    BY <2>2 DEF WritePending, Pass
  <2>4. WritePending(w).gap = IF ~f.lineStart /\ W = NoGap THEN Blank ELSE W
    BY <1>1, <1>3, <2>2 DEF WritePending, Pass
  <2> QED
    BY <2>1, <2>3, <2>4
<1>5. \A b \in BOOLEAN : Pushing(f, t, b).indent = f.indent
  <2>1. \A b \in BOOLEAN : Pushing(f, t, b) = WritePending(IF b THEN w ELSE f)
    BY <1>2 DEF Pushing, Before
  <2>2. ASSUME NEW i \in Pass PROVE WritePending(i).indent = i.indent
    <3>1. WriteIndent(i) \in Pass /\ WriteIndent(i).indent = i.indent
      BY WriteIndentIsPass DEF WriteIndent, Pass
    <3> QED
      BY <3>1 DEF WritePending, Pass
  <2> QED
    BY <1>1, <2>1, <2>2
<1>6. g # h /\ Blank # NoGap /\ (again <=> g # NoGap)
  BY DEF Blank, NoGap
<1> HIDE DEF g, W
<1>7. W = NoGap
  BY <1>4, <1>6 DEF g
<1>8. /\ g = IF Pending(blank) THEN Blank ELSE NoGap
      /\ h = IF Pending(again) THEN Blank ELSE NoGap
  BY <1>4, <1>6, <1>7 DEF g
<1>9. f.lineStart /\ f.pending
  BY <1>6, <1>8 DEF Pass
<1>10. f.gap = NoGap /\ f.indent = 0
  <2>1. f.indent \in Nat /\ Width \in Nat \ {0} /\ f.gap \in Gap
    BY FormatterAssumption DEF Pass
  <2>2. W = [newline |-> f.gap.newline, spaces |-> f.gap.spaces + f.indent * Width]
    BY <1>9 DEF W, WriteIndent, Pass
  <2>3. ~f.gap.newline /\ f.gap.spaces + f.indent * Width = 0
    BY <1>7, <2>2 DEF NoGap
  <2>4. f.gap = NoGap
    <3>1. f.gap \in {NoGap, LineEnd} /\ LineEnd.newline
      BY DEF Remembers, LineEnd
    <3> QED
      BY <2>3, <3>1
  <2>5. f.indent * Width = 0
    <3>1. f.gap.spaces = 0
      BY <2>4 DEF NoGap
    <3>2. f.indent * Width \in Int
      BY <2>1
    <3> QED
      BY <2>3, <3>1, <3>2
  <2>6. ASSUME NEW m \in Nat, NEW n \in Nat \ {0}, m * n = 0 PROVE m = 0
    BY <2>6
  <2> QED
    BY <2>1, <2>4, <2>5, <2>6
<1>11. token = "comma"
  BY <1>9, <1>10 DEF Remembers
<1>12. \/ h = NoGap /\ g = Blank
       \/ h = Blank /\ g = NoGap
  BY <1>6, <1>8
<1> QED
  BY <1>5, <1>10, <1>11, <1>12 DEF g

(* No gap is lost between tokens that may join, and a line that must end    *)
(* does.                                                                    *)
LEMMA GapsRemain ==
  ASSUME NEW f \in Pass, NEW t \in Tokens, NEW token, Remembers(f, token),
         NEW blank \in BOOLEAN
  PROVE  LET gap == Pushing(f, t, blank).gap
         IN  /\ <<token, t>> \in MayJoin /\ gap = NoGap => ~blank
             /\ token \in {"lineComment", "path"} => gap.newline
             /\ token = "include" /\ t = "path" => ~gap.newline
<1> DEFINE h == IF blank THEN Whitespace(f) ELSE f
           gap == Before(h, t).gap
<1>1. h \in Pass /\ Remembers(h, token) /\ h.lineStart = f.lineStart
      /\ (blank => h.pending = ~h.lineStart)
  BY WhitespaceIsPass, WhitespaceRemembers DEF Whitespace, Pass
<1> HIDE DEF h
<1>2. ~h.lineStart => h.gap = NoGap /\ WriteIndent(h) = h
  BY <1>1 DEF Remembers, WriteIndent
<1>3. <<token, t>> \in MayJoin /\ gap = NoGap => ~blank
  <2> SUFFICES ASSUME <<token, t>> \in MayJoin, blank PROVE gap # NoGap
    OBVIOUS
  <2>1. /\ token \in Words \cup {"operator", "bar"}
        /\ t \notin {"rightBrace", "comma", "semicolon", "leftParen", "rightParen"}
    BY DEF MayJoin, Joins, Words
  <2>2. ~h.lineStart
    BY <1>1, <2>1 DEF Remembers
  <2>3. gap = Blank
    BY <1>1, <1>2, <2>1, <2>2, GapBefore
  <2> QED
    BY <2>3 DEF Blank, NoGap
<1>4. token \in {"lineComment", "path"} => gap.newline
  <2> SUFFICES ASSUME token \in {"lineComment", "path"} PROVE gap.newline
    OBVIOUS
  <2>1. h.lineStart /\ h.gap.newline /\ h.gap # NoGap
    <3>1. h.gap = LineEnd /\ h.lineStart
      BY <1>1 DEF Remembers
    <3> QED
      BY <3>1, GapsDiffer
  <2>2. WriteIndent(h).gap.newline /\ WriteIndent(h).gap # NoGap
    BY <1>1, <2>1 DEF WriteIndent, Pass, NoGap
  <2>3. CASE t = "rightBrace"
    <3>1. /\ Shallower(h) \in Pass /\ Shallower(h).lineStart
          /\ Shallower(h).gap = h.gap
      BY <1>1, <2>1, NestingIsPass DEF Shallower, Pass
    <3>2. WriteIndent(Shallower(h)).gap.newline
      BY <2>1, <3>1 DEF WriteIndent, Pass
    <3> QED
      BY <2>1, <2>3, <3>2 DEF Before, CloseBrace
  <2>4. CASE t # "rightBrace"
    <3>1. CASE t \in {"comma", "semicolon"}
      BY <1>1, <2>1, <2>4, <3>1, GapBefore
    <3>2. CASE t = "rightParen"
      <4>1. gap = [newline |-> h.gap.newline, spaces |-> 0]
        BY <1>1, <2>4, <3>2, GapBefore
      <4> QED
        BY <2>1, <4>1
    <3>3. CASE t \notin {"comma", "semicolon", "rightParen"}
      <4>1. gap = WriteIndent(h).gap
        BY <1>1, <2>2, <2>4, <3>3, GapBefore
      <4> QED
        BY <2>2, <4>1
    <3> QED
      BY <3>1, <3>2, <3>3
  <2> QED
    BY <2>3, <2>4
<1>5. token = "include" /\ t = "path" => ~gap.newline
  <2> SUFFICES ASSUME token = "include", t = "path" PROVE ~gap.newline
    OBVIOUS
  <2>1. ~h.lineStart
    BY <1>1 DEF Remembers
  <2>2. gap \in {NoGap, Blank}
    <3>1. WriteIndent(h).gap = NoGap
      BY <1>2, <2>1
    <3>2. gap = IF h.pending \/ t = "operator" THEN Blank ELSE NoGap
      BY <1>1, <3>1, GapBefore
    <3> QED
      BY <3>2
  <2> QED
    BY <2>2, GapsDiffer
<1> QED
  BY <1>3, <1>4, <1>5 DEF Pushing, h

-----------------------------------------------------------------------------
(* The two theorems. *)

Invariant == TypeOK /\ PassInv

LEMMA WriteKeepsInvariant ==
  ASSUME Invariant, NEW t \in Tokens, NEW g \in Gaps, Write(t, g)
  PROVE  Invariant' /\ (IncludesComplete => TokensSurvive') /\ OnlyCommasWaver'
<1> DEFINE f == Pushing(first, t, g # "none")
           s == Pushing(first, t, f.gap # NoGap)
<1>1. first = second /\ Remembers(first, last) /\ first \in Pass
  BY DEF Invariant, PassInv, TypeOK
<1>2. /\ last' = t
      /\ first' = After([f EXCEPT !.gap = NoGap], t)
      /\ second' = After([s EXCEPT !.gap = NoGap], t)
      /\ written' = [token |-> t, after |-> last, source |-> g,
                     first |-> f.gap, second |-> s.gap, indent |-> f.indent]
      /\ Lexes(last, t, g) /\ (IncludesComplete /\ last = "include" => t = "path")
  BY <1>1 DEF Write, Pushing
<1>3. TypeOK'
  BY WriteKeepsTypes DEF Invariant
<1>4. (g # "none") \in BOOLEAN /\ (f.gap # NoGap) \in BOOLEAN
  OBVIOUS
<1>5. PassInv'
  <2>1. first' = second'
    BY <1>1, <1>2, <1>4, BlanksAreForgotten
  <2>2. Remembers(first', t)
    <3> DEFINE h == IF g # "none" THEN Whitespace(first) ELSE first
    <3>1. h \in Pass /\ Remembers(h, last)
      BY <1>1, WhitespaceIsPass, WhitespaceRemembers
    <3> HIDE DEF h
    <3>2. Remembers(After([Before(h, t) EXCEPT !.gap = NoGap], t), t)
      BY <3>1, AfterRemembers
    <3> QED
      BY <1>2, <3>2 DEF Pushing, h
  <2> QED
    BY <1>2, <2>1, <2>2 DEF PassInv
<1>6. IncludesComplete => TokensSurvive'
  <2> SUFFICES ASSUME IncludesComplete PROVE TokensSurvive'
    OBVIOUS
  <2>1. /\ <<last, t>> \in MayJoin /\ f.gap = NoGap => g = "none"
        /\ last \in {"lineComment", "path"} => f.gap.newline
        /\ last = "include" /\ t = "path" => ~f.gap.newline
    BY <1>1, <1>4, GapsRemain
  <2>2. last = "path" => f.gap # NoGap
    BY <2>1, GapsDiffer
  <2>3. /\ written'.token = t /\ written'.after = last /\ written'.source = g
        /\ written'.first = f.gap
    BY <1>2
  <2>4. last = "include" => t = "path"
    BY <1>2
  <2> HIDE DEF f, s
  <2> QED
    BY <2>1, <2>2, <2>3, <2>4 DEF TokensSurvive
<1>7. OnlyCommasWaver'
  <2>1. /\ written'.after = last /\ written'.first = f.gap /\ written'.second = s.gap
        /\ written'.indent = f.indent
    BY <1>2
  <2> SUFFICES ASSUME s.gap # f.gap
               PROVE  last = "comma" /\ f.indent = 0 /\ f.gap.spaces + s.gap.spaces = 1
    BY <2>1 DEF OnlyCommasWaver
  <2> DEFINE blank == g # "none"
             again == f.gap # NoGap
  <2>2. /\ blank \in BOOLEAN /\ again \in BOOLEAN /\ (again <=> f.gap # NoGap)
        /\ f = Pushing(first, t, blank) /\ s = Pushing(first, t, again)
    OBVIOUS
  <2> HIDE DEF f, s, blank, again
  <2>3. /\ last = "comma" /\ f.indent = 0
        /\ \/ s.gap = NoGap /\ f.gap = Blank
           \/ s.gap = Blank /\ f.gap = NoGap
    BY <1>1, <2>2, SecondGap
  <2>4. \/ s.gap.spaces = 0 /\ f.gap.spaces = 1
        \/ s.gap.spaces = 1 /\ f.gap.spaces = 0
    BY <2>3 DEF NoGap, Blank
  <2> QED
    BY <2>3, <2>4
<1> QED
  BY <1>3, <1>5, <1>6, <1>7 DEF Invariant

LEMMA StartHoldsInvariant == Init => Invariant /\ TokensSurvive /\ OnlyCommasWaver
<1> SUFFICES ASSUME Init PROVE Invariant /\ TokensSurvive /\ OnlyCommasWaver
  OBVIOUS
<1>1. TypeOK
  BY GapsAreGaps, EmptySeq DEF Init, TypeOK, Start, Pass, Gaps, NoToken
<1>2. PassInv
  BY NothingIsRemembered DEF Init, PassInv
<1>3. TokensSurvive
  BY DEF Init, TokensSurvive, NoToken
<1>4. OnlyCommasWaver
  BY DEF Init, OnlyCommasWaver
<1> QED
  BY <1>1, <1>2, <1>3, <1>4 DEF Invariant

LEMMA StepsKeepInvariant ==
  /\ Invariant /\ TokensSurvive /\ OnlyCommasWaver
  /\ IncludesComplete
  /\ [Next]_vars
  => (Invariant /\ TokensSurvive /\ OnlyCommasWaver)'
<1>1. Invariant /\ UNCHANGED vars => Invariant'
  BY DEF Invariant, TypeOK, PassInv, vars
<1>2. /\ TokensSurvive /\ UNCHANGED vars => TokensSurvive'
      /\ OnlyCommasWaver /\ UNCHANGED vars => OnlyCommasWaver'
  BY DEF TokensSurvive, OnlyCommasWaver, vars
<1> QED
  BY <1>1, <1>2, WriteKeepsInvariant DEF Next

(* Where every include has its path, a formatted text has the tokens of the *)
(* text it was made of: whatever the gaps, however deep the nesting.        *)
THEOREM FormattingKeepsTokens ==
  ASSUME IncludesComplete
  PROVE  Spec => []TokensSurvive
BY StartHoldsInvariant, StepsKeepInvariant, PTL DEF Spec

(* A second pass undoes or repeats nothing but a blank after a comma that   *)
(* starts a line outside all blocks: formatting is idempotent everywhere    *)
(* else (format).                                                           *)
THEOREM FormattingSettles ==
  ASSUME IncludesComplete
  PROVE  Spec => []OnlyCommasWaver
BY StartHoldsInvariant, StepsKeepInvariant, PTL DEF Spec

-----------------------------------------------------------------------------
(* Indents. *)

Delimiters == {"leftBrace", "leftParen"}

LEMMA BlocksAreCounted ==
  ASSUME NEW s \in Seq(Delimiters)
  PROVE  /\ IsFiniteSet({k \in DOMAIN s : s[k] = "leftBrace"})
         /\ BlocksIn(s) \in Nat
<1>1. DOMAIN s = 1 .. Len(s) /\ Len(s) \in Nat
  BY LenProperties
<1>2. IsFiniteSet(1 .. Len(s))
  BY <1>1, FS_Interval
<1>3. {k \in DOMAIN s : s[k] = "leftBrace"} \in SUBSET (1 .. Len(s))
  BY <1>1
<1>4. IsFiniteSet({k \in DOMAIN s : s[k] = "leftBrace"})
  BY <1>2, <1>3, FS_Subset
<1> QED
  BY <1>4, FS_CardinalityType DEF BlocksIn

LEMMA BlocksAppended ==
  ASSUME NEW s \in Seq(Delimiters), NEW d \in Delimiters
  PROVE  BlocksIn(Append(s, d)) = IF d = "leftBrace" THEN BlocksIn(s) + 1 ELSE BlocksIn(s)
<1> DEFINE S == {k \in DOMAIN s : s[k] = "leftBrace"}
           A == Append(s, d)
           T == {k \in DOMAIN A : A[k] = "leftBrace"}
<1>1. /\ DOMAIN s = 1 .. Len(s) /\ Len(s) \in Nat /\ A \in Seq(Delimiters)
      /\ Len(A) = Len(s) + 1 /\ DOMAIN A = 1 .. Len(s) + 1
      /\ A[Len(s) + 1] = d /\ \A k \in 1 .. Len(s) : A[k] = s[k]
  BY AppendProperties, LenProperties
<1> HIDE DEF A
<1>2. Len(s) + 1 \notin S /\ T = IF d = "leftBrace" THEN S \cup {Len(s) + 1} ELSE S
  BY <1>1
<1>3. IsFiniteSet(S)
  BY BlocksAreCounted
<1> HIDE DEF S, T
<1>4. Cardinality(T) = IF d = "leftBrace" THEN Cardinality(S) + 1 ELSE Cardinality(S)
  BY <1>2, <1>3, FS_AddElement
<1> QED
  BY <1>4 DEF BlocksIn, S, T, A

LEMMA BlocksWithoutLast ==
  ASSUME NEW s \in Seq(Delimiters), s # <<>>
  PROVE  BlocksIn(SubSeq(s, 1, Len(s) - 1))
           = IF s[Len(s)] = "leftBrace" THEN BlocksIn(s) - 1 ELSE BlocksIn(s)
<1> DEFINE F == SubSeq(s, 1, Len(s) - 1)
           S == {k \in DOMAIN s : s[k] = "leftBrace"}
           T == {k \in DOMAIN F : F[k] = "leftBrace"}
<1>1. DOMAIN s = 1 .. Len(s) /\ Len(s) \in Nat \ {0}
  BY EmptySeq, LenProperties
<1>2. DOMAIN F = 1 .. Len(s) - 1 /\ \A k \in 1 .. Len(s) - 1 : F[k] = s[k]
  BY <1>1
<1> HIDE DEF F
<1>3. T = S \ {Len(s)}
  BY <1>1, <1>2
<1>4. Len(s) \in S <=> s[Len(s)] = "leftBrace"
  BY <1>1
<1>5. IsFiniteSet(S)
  BY BlocksAreCounted
<1> HIDE DEF S, T
<1>6. Cardinality(T) = IF Len(s) \in S THEN Cardinality(S) - 1 ELSE Cardinality(S)
  BY <1>3, <1>5, FS_RemoveElement
<1> QED
  BY <1>4, <1>6 DEF BlocksIn, S, T, F

(* Only braces change the indent, and by one. *)
LEMMA IndentAfter ==
  ASSUME NEW f \in Pass, NEW t \in Tokens
  PROVE  After([Before(f, t) EXCEPT !.gap = NoGap], t).indent =
           IF t = "leftBrace" THEN f.indent + 1
           ELSE IF t = "rightBrace" THEN Shallower(f).indent ELSE f.indent
<1> DEFINE b == Before(f, t)
           e == [b EXCEPT !.gap = NoGap]
<1>1. b \in Pass
  BY BeforeIsPass
<1>2. b.indent = IF t = "rightBrace" THEN Shallower(f).indent ELSE f.indent
  <2>1. CASE t = "rightBrace"
    <3>1. b = CloseBrace(f)
      BY <2>1 DEF Before
    <3>2. Shallower(f) \in Pass
      BY NestingIsPass
    <3> QED
      BY <2>1, <3>1, <3>2 DEF CloseBrace, WriteIndent, Newline, Pass
  <2>2. CASE t # "rightBrace"
    BY <2>2 DEF Before, WritePending, WriteIndent, TrimSpaces, Pass
  <2> QED
    BY <2>1, <2>2
<1>3. e \in Pass /\ e.indent = b.indent
  BY <1>1, GapsAreGaps DEF Pass
<1> HIDE DEF b, e
<1>4. After(e, t).indent = IF t = "leftBrace" THEN e.indent + 1 ELSE e.indent
  BY <1>3 DEF After, Newline, Deeper, Pass, Words
<1>5. t = "leftBrace" => t # "rightBrace"
  OBVIOUS
<1> QED
  BY <1>2, <1>3, <1>4, <1>5 DEF e, b

(* Before a token the output ends in a whole indent, or the line goes on.   *)
LEMMA LineIsIndented ==
  ASSUME NEW f \in Pass, NEW token, Remembers(f, token), NEW t \in Tokens,
         Before(f, t).gap.newline
  PROVE  Before(f, t).gap.spaces =
           IF t \in {"comma", "semicolon", "rightParen"} THEN 0
           ELSE IF t = "rightBrace" THEN Shallower(f).indent * Width ELSE f.indent * Width
<1>1. f.gap.spaces = 0 /\ (f.gap.newline => f.lineStart)
  <2>1. f.lineStart \in BOOLEAN
    BY DEF Pass
  <2>2. f.gap \in {NoGap, LineEnd} /\ (~f.lineStart => f.gap = NoGap)
    BY DEF Remembers
  <2>3. CASE f.gap = NoGap
    BY <2>3, GapsDiffer
  <2>4. CASE f.gap # NoGap
    <3>1. f.gap = LineEnd /\ f.lineStart
      BY <2>1, <2>2, <2>4
    <3> QED
      BY <3>1 DEF LineEnd
  <2> QED
    BY <2>3, <2>4
<1>2. f.indent * Width \in Nat /\ Width \in Nat /\ f.indent \in Nat
  BY FormatterAssumption DEF Pass
<1>3. CASE t \in {"comma", "semicolon"}
  BY <1>1, <1>3 DEF Before
<1>4. CASE t = "rightParen"
  BY <1>4 DEF Before, TrimSpaces, Pass
<1>5. CASE t = "rightBrace"
  <2> DEFINE h == IF f.lineStart THEN Shallower(f) ELSE Newline(Shallower(f))
  <2>1. Shallower(f) \in Pass /\ h \in Pass
    BY NestingIsPass, NewlineEndsLine
  <2>2. h.lineStart /\ h.gap.spaces = 0 /\ h.indent = Shallower(f).indent
    BY <1>1, <2>1 DEF Newline, Shallower, Pass
  <2>3. Before(f, t) = WriteIndent(h)
    BY <1>5 DEF Before, CloseBrace
  <2> HIDE DEF h
  <2>4. WriteIndent(h).gap.spaces = 0 + h.indent * Width
    BY <2>1, <2>2 DEF WriteIndent, Pass
  <2>5. h.indent * Width \in Nat
    BY <1>2, <2>1 DEF Pass
  <2> QED
    BY <1>5, <2>2, <2>3, <2>4, <2>5
<1>6. CASE t \notin {"comma", "semicolon", "rightParen", "rightBrace"}
  <2>1. WriteIndent(f).gap.newline
    BY <1>6, GapBefore, GapsDiffer DEF NoGap, Blank
  <2>2. Before(f, t).gap = WriteIndent(f).gap
    BY <1>6, <2>1, GapBefore, GapsDiffer
  <2>3. f.lineStart
    BY <1>1, <2>1 DEF WriteIndent
  <2>4. WriteIndent(f).gap.spaces = 0 + f.indent * Width
    BY <1>1, <2>3 DEF WriteIndent, Pass
  <2> QED
    BY <1>2, <1>6, <2>2, <2>4
<1> QED
  BY <1>3, <1>4, <1>5, <1>6

(* The indent is the number of open blocks. *)
IndentInv == Invariant /\ first.indent = BlocksIn(open)

LEMMA WriteKeepsIndent ==
  ASSUME IndentInv, NEW t \in Tokens, NEW g \in Gaps, Write(t, g)
  PROVE  first'.indent = BlocksIn(open') /\ LinesAreIndented'
<1> DEFINE h == IF g # "none" THEN Whitespace(first) ELSE first
<1>1. /\ first \in Pass /\ Remembers(first, last) /\ open \in Seq(Delimiters)
      /\ first.indent = BlocksIn(open)
  BY DEF IndentInv, Invariant, PassInv, TypeOK, Delimiters
<1>2. h \in Pass /\ Remembers(h, last) /\ h.indent = first.indent
  BY <1>1, WhitespaceIsPass, WhitespaceRemembers DEF Whitespace, Pass
<1>3. /\ first' = After([Before(h, t) EXCEPT !.gap = NoGap], t)
      /\ open' = Nested(open, t) /\ Errorless(last, open, t)
      /\ written'.token = t /\ written'.first = Before(h, t).gap
  BY DEF Write
<1> HIDE DEF h
<1>4. Shallower(h).indent = IF h.indent = 0 THEN 0 ELSE h.indent - 1
  BY <1>2 DEF Shallower, Pass
<1>5. BlocksIn(open) \in Nat
  BY <1>1, BlocksAreCounted
<1>6. BlocksIn(open') = IF t = "leftBrace" THEN h.indent + 1
                        ELSE IF t = "rightBrace" THEN Shallower(h).indent ELSE h.indent
  <2>1. CASE t \in Delimiters
    <3>1. open' = Append(open, t)
      BY <1>3, <2>1 DEF Nested, Delimiters
    <3>2. t # "rightBrace"
      BY <2>1 DEF Delimiters
    <3> QED
      BY <1>1, <1>2, <2>1, <3>1, <3>2, BlocksAppended
  <2>2. CASE t \in {"rightBrace", "rightParen"}
    <3>1. open' = SubSeq(open, 1, Len(open) - 1)
      BY <1>3, <2>2 DEF Nested
    <3>2. open # <<>> /\ open[Len(open)] = Opener(t)
      BY <1>3, <2>2 DEF Errorless
    <3>3. BlocksIn(open') = IF t = "rightBrace" THEN BlocksIn(open) - 1 ELSE BlocksIn(open)
      BY <1>1, <2>2, <3>1, <3>2, BlocksWithoutLast DEF Opener
    <3>4. BlocksIn(open') \in Nat
      <4>1. open' \in Seq(Delimiters)
        BY WriteKeepsTypes DEF IndentInv, Invariant, TypeOK, Delimiters
      <4> QED
        BY <4>1, BlocksAreCounted
    <3> QED
      BY <1>1, <1>2, <1>4, <1>5, <2>2, <3>3, <3>4
  <2>3. CASE t \notin Delimiters \cup {"rightBrace", "rightParen"}
    <3>1. open' = open
      BY <1>3, <2>3 DEF Nested, Delimiters
    <3>2. t # "leftBrace"
      BY <2>3 DEF Delimiters
    <3> QED
      BY <1>1, <1>2, <2>3, <3>1, <3>2
  <2> QED
    BY <2>1, <2>2, <2>3
<1>7. first'.indent = BlocksIn(open')
  BY <1>2, <1>3, <1>6, IndentAfter
<1>8. LinesAreIndented'
  <2> SUFFICES ASSUME written'.first.newline
               PROVE  written'.first.spaces =
                        CASE t \in {"comma", "semicolon", "rightParen"} -> 0
                          [] t = "leftBrace" -> Width * (BlocksIn(open') - 1)
                          [] OTHER -> Width * BlocksIn(open')
    BY <1>3 DEF LinesAreIndented
  <2>1. Before(h, t).gap.spaces =
          IF t \in {"comma", "semicolon", "rightParen"} THEN 0
          ELSE IF t = "rightBrace" THEN Shallower(h).indent * Width ELSE h.indent * Width
    BY <1>2, <1>3, LineIsIndented
  <2>2. \A n \in Nat : n * Width = Width * n /\ (n + 1) - 1 = n
    BY FormatterAssumption
  <2>3. h.indent \in Nat /\ Shallower(h).indent \in Nat
    BY <1>2, NestingIsPass DEF Pass
  <2> QED
    BY <1>3, <1>6, <2>1, <2>2, <2>3
<1> QED
  BY <1>7, <1>8

(* Each line starts with the indent of the blocks that are open there, at   *)
(* every width and depth, whether or not includes have their paths.         *)
THEOREM FormattingIndents == Spec => []LinesAreIndented
<1>1. Init => IndentInv /\ LinesAreIndented
  <2> SUFFICES ASSUME Init PROVE IndentInv /\ LinesAreIndented
    OBVIOUS
  <2>1. BlocksIn(open) = 0
    <3>1. {k \in DOMAIN open : open[k] = "leftBrace"} = {}
      BY DEF Init
    <3> QED
      BY <3>1, FS_EmptySet DEF BlocksIn
  <2>2. first.indent = 0 /\ ~written.first.newline
    BY DEF Init, Start, NoGap
  <2> QED
    BY <2>1, <2>2, StartHoldsInvariant DEF IndentInv, LinesAreIndented
<1>2. IndentInv /\ LinesAreIndented /\ [Next]_vars => (IndentInv /\ LinesAreIndented)'
  <2> SUFFICES ASSUME IndentInv, LinesAreIndented, [Next]_vars
               PROVE  (IndentInv /\ LinesAreIndented)'
    OBVIOUS
  <2>1. CASE UNCHANGED vars
    BY <2>1 DEF IndentInv, Invariant, TypeOK, PassInv, LinesAreIndented, vars
  <2>2. ASSUME NEW t \in Tokens, NEW g \in Gaps, Write(t, g)
        PROVE  (IndentInv /\ LinesAreIndented)'
    BY <2>2, WriteKeepsIndent, WriteKeepsInvariant DEF IndentInv
  <2> QED
    BY <2>1, <2>2 DEF Next
<1> QED
  BY <1>1, <1>2, PTL DEF Spec
=============================================================================
