------------------------------ MODULE UsesProofs ------------------------------
(***************************************************************************)
(* In a finished program every use resolves to what its author meant, and  *)
(* the call hierarchy is what he wrote: for programs of any length.        *)
(*                                                                         *)
(* RecordProofs says what a use was meant to be as a function of the text. *)
(* Here resolve_name is followed along the scopes around the use, each of  *)
(* which offers what was declared under one brace, or bound by one head.   *)
(*                                                                         *)
(* The caller is the function whose brace is open at the use, which is the *)
(* one whose declaration encloses it, because functions come first.        *)
(***************************************************************************)
EXTENDS RecordProofs

-----------------------------------------------------------------------------
(* The scopes around a token are the chain of the smallest *)

(* A range is not empty, and what it is it is by its ends. *)
Boxed(r) == /\ r.start \in Nat /\ r.end \in Nat /\ r.start < r.end
            /\ r = [start |-> r.start, end |-> r.end]

(* Every scope's range is in the text's, and any two are apart or nested. *)
LEMMA RangesAreBoxed ==
  ASSUME Whole, NEW scopes, NEW ranges, NEW n, Built(scopes, ranges, n)
  PROVE  /\ \A k \in 1 .. n : Boxed(ranges[k]) /\ Encloses(RootRange, ranges[k])
         /\ \A k, m \in 1 .. n : Apart(ranges[k], ranges[m])
         /\ \A k \in 2 .. n : ranges[k] # RootRange
<1>0. /\ text \in Seq(Token) /\ Len(text) \in Nat /\ DelimiterTypeOK /\ PairsNest /\ LoopsBegin /\ Margin # 0
  BY WholeTexts, LaidLoopsBegin DEF Whole
<1>1. n \in Nat \ {0} /\ ranges[1] = RootRange /\ \A k \in 2 .. n : ranges[k] \in ScopedRanges
  BY DEF Built
<1>2. \A k \in 1 .. n : k = 1 \/ k \in 2 .. n
  BY <1>1
<1>3. Boxed(RootRange) /\ Encloses(RootRange, RootRange)
  <2>1. RootRange = [start |-> 1, end |-> Len(text) + 1 + Margin]
    BY DEF RootRange
  <2>2. RootRange.start = 1 /\ RootRange.end = Len(text) + 1 + Margin
    BY <2>1
  <2>3. 1 < Len(text) + 1 + Margin /\ Len(text) + 1 + Margin \in Nat
    BY <1>0, MarginAssumption
  <2> QED BY <2>1, <2>2, <2>3 DEF Boxed, Encloses
<1>4. ASSUME NEW r \in ScopedRanges PROVE Boxed(r) /\ Encloses(RootRange, r) /\ r # RootRange
  <2>1. PICK o \in 1 .. Len(text) : KindAt(o) = "leftBrace" /\ r = Span(r.start, EndOf(o)) /\ r.start \in 1 .. o
    BY ScopesHaveBraces
  <2>2. o < EndOf(o) /\ EndOf(o) \in 1 .. Len(text)
    BY <2>1, BracesAreClosed
  <2>3. r = [start |-> r.start, end |-> EndOf(o) + 1] /\ r.end = EndOf(o) + 1
    BY <2>1 DEF Span
  <2>4. r.start \in Nat /\ r.end \in Nat /\ r.start < r.end
    BY <1>0, <2>1, <2>2, <2>3
  <2>5. Boxed(r)
    BY <2>3, <2>4 DEF Boxed
  <2> QED BY <2>5, RangesAre
<1>5. ASSUME NEW r, Boxed(r), Encloses(RootRange, r) PROVE Apart(RootRange, r) /\ Apart(r, RootRange)
  BY <1>5 DEF Apart
<1>6. ASSUME NEW k \in 1 .. n, NEW m \in 1 .. n PROVE Apart(ranges[k], ranges[m])
  <2>1. CASE k = 1
    BY <1>1, <1>2, <1>3, <1>4, <1>5, <2>1
  <2>2. CASE m = 1
    BY <1>1, <1>2, <1>3, <1>4, <1>5, <2>2
  <2>3. CASE k \in 2 .. n /\ m \in 2 .. n
    BY <1>0, <1>1, <2>3, ScopesAreApart
  <2> QED BY <1>2, <2>1, <2>2, <2>3
<1> QED BY <1>1, <1>2, <1>3, <1>4, <1>6

(* Ranges that enclose one another are one, and those around one are nested. *)
LEMMA BoxesNest ==
  ASSUME NEW q, NEW r, NEW s, Boxed(q), Boxed(r), Boxed(s)
  PROVE  /\ Encloses(r, s) /\ Encloses(s, r) => r = s
         /\ Encloses(r, s) /\ SizeOf(r) <= SizeOf(s) => r = s
         /\ Encloses(r, q) /\ Encloses(s, q) /\ Apart(r, s) => Encloses(r, s) \/ Encloses(s, r)
         /\ Encloses(r, s) /\ r # s => Before(r, s)
         /\ Encloses(q, r) /\ Encloses(r, s) => Encloses(q, s)
<1>1. /\ q.start \in Nat /\ q.end \in Nat /\ q.start < q.end
      /\ r.start \in Nat /\ r.end \in Nat /\ r.start < r.end
      /\ s.start \in Nat /\ s.end \in Nat /\ s.start < s.end
  BY DEF Boxed
<1>2. r.start = s.start /\ r.end = s.end => r = s
  BY DEF Boxed
<1>3. Encloses(r, s) /\ Encloses(s, r) => r = s
  BY <1>1, <1>2 DEF Encloses
<1>4. Encloses(r, s) /\ SizeOf(r) <= SizeOf(s) => r = s
  BY <1>1, <1>2 DEF Encloses, SizeOf
<1>5. Encloses(r, q) /\ Encloses(s, q) /\ Apart(r, s) => Encloses(r, s) \/ Encloses(s, r)
  BY <1>1 DEF Encloses, Apart
<1>6. Encloses(r, s) /\ r # s => Before(r, s)
  BY <1>1, <1>2 DEF Encloses, Before
<1>7. Encloses(q, r) /\ Encloses(r, s) => Encloses(q, s)
  BY <1>1 DEF Encloses
<1> QED BY <1>3, <1>4, <1>5, <1>6, <1>7

(* The scopes around a scope, which come before it *)
Up(ranges, n, k) == {m \in 1 .. n : Encloses(ranges[m], ranges[k])}

(* A scope's chain is the scope and its parent's chain. *)
LEMMA UpIs ==
  ASSUME Whole, NEW scopes, NEW ranges, NEW n, Built(scopes, ranges, n), NEW k \in 1 .. n
  PROVE  /\ \A m \in Up(ranges, n, k) : m = k \/ m < k
         /\ k \in Up(ranges, n, k)
         /\ k = 1 => scopes[k].parent = 0 /\ Up(ranges, n, k) = {1}
         /\ k # 1 => \E c \in 1 .. k - 1 : /\ scopes[k].parent = c /\ c \in 1 .. n
                                           /\ Up(ranges, n, k) = {k} \cup Up(ranges, n, c)
<1>1. /\ n \in Nat \ {0} /\ ranges[1] = RootRange /\ scopes[1].parent = 0
      /\ \A m \in 2 .. n : scopes[m].parent = ParentOf(ranges, m)
      /\ \A m, l \in 1 .. n : ranges[m] = ranges[l] => m = l
      /\ \A m, l \in 2 .. n : Before(ranges[m], ranges[l]) => m < l
  BY DEF Built
<1>2. \A m \in 1 .. n : m = 1 \/ m \in 2 .. n
  BY <1>1
<1>3. /\ \A m \in 1 .. n : Boxed(ranges[m]) /\ Encloses(RootRange, ranges[m])
      /\ \A l, m \in 1 .. n : Apart(ranges[l], ranges[m])
      /\ \A m \in 2 .. n : ranges[m] # RootRange
  BY RangesAreBoxed
<1>4. ASSUME NEW m \in 1 .. n, Encloses(ranges[m], ranges[k]), m # k PROVE m < k
  <2>1. ranges[m] # ranges[k]
    BY <1>1, <1>4
  <2>2. Before(ranges[m], ranges[k])
    BY <1>3, <1>4, <2>1, BoxesNest
  <2>3. CASE m = 1
    BY <1>4, <2>3
  <2>4. CASE m \in 2 .. n /\ k \in 2 .. n
    BY <1>1, <2>2, <2>4
  <2>5. CASE k = 1
    <3>1. ranges[m] = RootRange
      BY <1>1, <1>3, <1>4, <2>5, BoxesNest
    <3> QED BY <1>1, <2>1, <2>5, <3>1
  <2> QED BY <1>2, <2>3, <2>4, <2>5
<1>5. Encloses(ranges[k], ranges[k])
  <2>1. ranges[k].start \in Nat /\ ranges[k].end \in Nat
    BY <1>3 DEF Boxed
  <2> QED BY <2>1 DEF Encloses
<1>6. CASE k = 1
  <2>1. \A m \in 1 .. n : ~ (m < 1)
    BY <1>1
  <2>2. Up(ranges, n, k) = {1}
    BY <1>4, <1>5, <1>6, <2>1 DEF Up
  <2> QED BY <1>1, <1>5, <1>6, <2>2
<1>7. CASE k # 1
  <2>1. k \in 2 .. n /\ k \in Nat
    BY <1>1, <1>2, <1>7
  <2>2. PICK c : c = ParentOf(ranges, k)
    OBVIOUS
  <2>3. /\ c \in 1 .. k - 1
        /\ c # 1 => c \in 2 .. n /\ Encloses(ranges[c], ranges[k])
        /\ \A m \in 2 .. k - 1 : Encloses(ranges[m], ranges[k]) =>
             c # 1 /\ SizeOf(ranges[c]) <= SizeOf(ranges[m])
    BY <2>1, <2>2, ParentsAre
  <2>4. c \in 1 .. n /\ scopes[k].parent = c
    BY <1>1, <2>1, <2>2, <2>3
  <2>5. Encloses(ranges[c], ranges[k])
    <3>1. CASE c = 1
      BY <1>1, <1>3, <3>1
    <3> QED BY <2>3, <3>1
  <2>6. ASSUME NEW m \in 1 .. n, Encloses(ranges[m], ranges[k]), m # k
        PROVE  Encloses(ranges[m], ranges[c])
    <3>1. m = 1 \/ m \in 2 .. k - 1
      BY <1>2, <1>4, <2>1, <2>6
    <3>2. CASE m = 1
      BY <1>1, <1>3, <2>4, <3>2
    <3>3. CASE m \in 2 .. k - 1
      <4>1. SizeOf(ranges[c]) <= SizeOf(ranges[m])
        BY <2>3, <2>6, <3>3
      <4>2. Encloses(ranges[m], ranges[c]) \/ Encloses(ranges[c], ranges[m])
        BY <1>3, <2>4, <2>5, <2>6, BoxesNest
      <4>3. CASE Encloses(ranges[c], ranges[m])
        <5>1. ranges[c] = ranges[m]
          BY <1>3, <2>4, <4>1, <4>3, BoxesNest
        <5> QED BY <4>3, <5>1
      <4> QED BY <4>2, <4>3
    <3> QED BY <3>1, <3>2, <3>3
  <2>7. ASSUME NEW m \in 1 .. n, Encloses(ranges[m], ranges[c]) PROVE Encloses(ranges[m], ranges[k])
    BY <1>3, <2>4, <2>5, <2>7, BoxesNest
  <2>8. Up(ranges, n, k) = {k} \cup Up(ranges, n, c)
    BY <1>5, <2>6, <2>7 DEF Up
  <2>9. \A m \in Up(ranges, n, k) : m = k \/ m < k
    BY <1>4 DEF Up
  <2> QED BY <1>7, <2>3, <2>4, <2>8, <2>9
<1> QED BY <1>6, <1>7

(* A sequence of the members of S, the greatest first *)
Descends(chain, S) ==
  /\ chain \in Seq(Nat)
  /\ \A c \in 1 .. Len(chain) : chain[c] \in S
  /\ \A k \in S : \E c \in 1 .. Len(chain) : chain[c] = k
  /\ \A c, d \in 1 .. Len(chain) : c < d => chain[d] < chain[c]

(* Something greater may be put before such a sequence. *)
LEMMA DescendsOn ==
  ASSUME NEW chain, NEW S \in SUBSET Nat, Descends(chain, S), NEW k \in Nat, \A m \in S : m < k
  PROVE  Descends(<<k>> \o chain, {k} \cup S)
<1>0. chain \in Seq(Nat)
  BY DEF Descends
<1>1. PICK l : l = Len(chain)
  OBVIOUS
<1>2. PICK w : w = <<k>> \o chain
  OBVIOUS
<1>3. /\ l \in Nat /\ w \in Seq(Nat) /\ Len(w) = l + 1 /\ w[1] = k
      /\ \A c \in 1 .. l + 1 : c # 1 => w[c] = chain[c - 1]
  <2>1. <<k>> \in Seq(Nat) /\ Len(<<k>>) = 1 /\ <<k>>[1] = k
    OBVIOUS
  <2>2. Len(w) = 1 + l /\ w \in Seq(Nat) /\ l \in Nat
    BY <1>0, <1>1, <1>2, <2>1
  <2>3. \A c \in 1 .. 1 + l : w[c] = IF c <= 1 THEN <<k>>[c] ELSE chain[c - 1]
    BY <1>0, <1>1, <1>2, <2>1, <2>2
  <2> QED BY <2>1, <2>2, <2>3
<1>4. /\ \A c \in 1 .. l : chain[c] \in S
      /\ \A m \in S : \E c \in 1 .. l : chain[c] = m
      /\ \A c, d \in 1 .. l : c < d => chain[d] < chain[c]
  BY <1>1 DEF Descends
<1>5. \A c \in 1 .. l + 1 : c = 1 \/ c - 1 \in 1 .. l
  BY <1>3
<1>6. \A c \in 1 .. Len(w) : w[c] \in {k} \cup S
  BY <1>3, <1>4, <1>5
<1>7. ASSUME NEW m \in {k} \cup S PROVE \E c \in 1 .. Len(w) : w[c] = m
  <2>1. CASE m = k
    <3>1. 1 \in 1 .. Len(w)
      BY <1>3
    <3> QED BY <1>3, <2>1, <3>1
  <2>2. CASE m \in S
    <3>1. PICK c \in 1 .. l : chain[c] = m
      BY <1>4, <2>2
    <3>2. PICK d : d = c + 1
      OBVIOUS
    <3>3. d \in 1 .. l + 1 /\ d # 1 /\ d - 1 = c
      BY <1>3, <3>1, <3>2
    <3> QED BY <1>3, <3>1, <3>3
  <2> QED BY <2>1, <2>2
<1>8. ASSUME NEW c \in 1 .. Len(w), NEW d \in 1 .. Len(w), c < d PROVE w[d] < w[c]
  <2>1. d # 1 /\ d - 1 \in 1 .. l /\ w[d] = chain[d - 1]
    BY <1>3, <1>5, <1>8
  <2>2. CASE c = 1
    <3>1. chain[d - 1] \in S
      BY <1>4, <2>1
    <3> QED BY <1>3, <2>1, <2>2, <3>1
  <2>3. CASE c # 1
    <3>1. c - 1 \in 1 .. l /\ w[c] = chain[c - 1] /\ c - 1 < d - 1
      BY <1>3, <1>5, <1>8, <2>3
    <3> QED BY <1>4, <2>1, <3>1
  <2> QED BY <2>2, <2>3
<1> QED BY <1>2, <1>3, <1>6, <1>7, <1>8 DEF Descends

(* A scope's chain is itself and the scopes around it, from the inside out. *)
LEMMA ChainsAre ==
  ASSUME Whole, NEW scopes, NEW ranges, NEW n, Built(scopes, ranges, n), ScopesOK(scopes), NEW k \in 1 .. n
  PROVE  Descends(Chain(scopes, k), Up(ranges, n, k))
<1>0. n \in Nat \ {0} /\ DOMAIN scopes = 1 .. n
  BY DEF Built
<1> DEFINE Odd == {m \in 1 .. n : ~ Descends(Chain(scopes, m), Up(ranges, n, m))}
<1>1. Odd = {}
  <2> SUFFICES ASSUME Odd # {} PROVE FALSE
    OBVIOUS
  <2>1. Odd \in SUBSET Nat
    BY <1>0
  <2>2. PICK s \in Odd : \A m \in Odd : s <= m
    <3> HIDE DEF Odd
    <3> QED BY <2>1, LeastExists
  <2>3. s \in 1 .. n /\ s \in Nat /\ ~ Descends(Chain(scopes, s), Up(ranges, n, s))
    BY <1>0
  <2>4. Chain(scopes, s) = IF scopes[s].parent = 0 THEN <<s>> ELSE <<s>> \o Chain(scopes, scopes[s].parent)
    BY <1>0, <2>3, ChainIs
  <2>5. CASE s = 1
    <3>1. Chain(scopes, s) = <<1>> /\ Up(ranges, n, s) = {1}
      BY <2>3, <2>4, <2>5, UpIs
    <3>2. Descends(<<1>>, {1})
      <4>1. <<1>> \in Seq(Nat) /\ Len(<<1>>) = 1 /\ <<1>>[1] = 1 /\ \A c \in 1 .. 1 : c = 1
        OBVIOUS
      <4> QED BY <4>1 DEF Descends
    <3> QED BY <2>3, <3>1, <3>2
  <2>6. CASE s # 1
    <3>1. PICK c \in 1 .. s - 1 : /\ scopes[s].parent = c /\ c \in 1 .. n
                                  /\ Up(ranges, n, s) = {s} \cup Up(ranges, n, c)
      BY <2>3, <2>6, UpIs
    <3>2. c \in Nat /\ c # 0 /\ c < s
      BY <1>0, <2>3, <3>1
    <3>3. ~ (s <= c)
      BY <2>3, <3>2
    <3>4. Descends(Chain(scopes, c), Up(ranges, n, c))
      BY <2>2, <3>1, <3>3
    <3>5. \A m \in Up(ranges, n, c) : m < s
      <4>1. \A m \in Up(ranges, n, c) : m = c \/ m < c
        BY <3>1, UpIs
      <4>2. \A m \in Up(ranges, n, c) : m \in Nat
        BY <1>0 DEF Up
      <4> QED BY <2>3, <3>2, <4>1, <4>2
    <3>6. Up(ranges, n, c) \in SUBSET Nat
      BY <1>0 DEF Up
    <3>7. Descends(<<s>> \o Chain(scopes, c), {s} \cup Up(ranges, n, c))
      BY <2>3, <3>4, <3>5, <3>6, DescendsOn
    <3> QED BY <2>3, <2>4, <3>1, <3>2, <3>7
  <2> QED BY <2>5, <2>6
<1> QED BY <1>1

(* The scopes that hold token i *)
Around(ranges, n, i) == {k \in 1 .. n : Holds(ranges[k], i)}

(* They are the chain of the smallest. *)
LEMMA ChainsAround ==
  ASSUME Whole, NEW scopes, NEW ranges, NEW n, Built(scopes, ranges, n), ScopesOK(scopes),
         NEW i \in 1 .. Len(text)
  PROVE  /\ Descends(Chain(scopes, ScopeAt(scopes, i)), Around(ranges, n, i))
         /\ 1 \in Around(ranges, n, i)
<1>0. /\ n \in Nat \ {0} /\ DOMAIN scopes = 1 .. n /\ ranges[1] = RootRange
      /\ \A k \in 1 .. n : scopes[k].range = ranges[k]
      /\ \A m, l \in 1 .. n : ranges[m] = ranges[l] => m = l
  BY DEF Built
<1>1. /\ \A m \in 1 .. n : Boxed(ranges[m]) /\ Encloses(RootRange, ranges[m])
      /\ \A l, m \in 1 .. n : Apart(ranges[l], ranges[m])
  BY RangesAreBoxed
<1>2. 1 \in Around(ranges, n, i)
  <2>1. RootRange.start = 1 /\ RootRange.end = Len(text) + 1 + Margin
    BY DEF RootRange
  <2>2. Len(text) \in Nat /\ Margin \in Nat
    BY WholeTexts, MarginAssumption
  <2>3. Holds(RootRange, i)
    BY <2>1, <2>2 DEF Holds
  <2> QED BY <1>0, <2>3 DEF Around
<1> DEFINE sizes == [k \in DOMAIN scopes |-> scopes[k].range]
           holding == {k \in DOMAIN scopes : Holds(scopes[k].range, i)}
<1>3. holding = Around(ranges, n, i)
  BY <1>0 DEF Around
<1>4. \A m \in holding : m \in 1 .. n /\ sizes[m] = ranges[m] /\ SizeOf(ranges[m]) \in Nat
  <2>1. ASSUME NEW m \in 1 .. n PROVE SizeOf(ranges[m]) \in Nat
    <3>1. ranges[m].start \in Nat /\ ranges[m].end \in Nat /\ ranges[m].start < ranges[m].end
      BY <1>1 DEF Boxed
    <3> QED BY <3>1 DEF SizeOf
  <2> QED BY <1>0, <2>1
<1>5. ScopeAt(scopes, i) = Smallest(sizes, holding)
  BY <1>2, <1>3 DEF ScopeAt
<1>6. PICK c : c = ScopeAt(scopes, i)
  OBVIOUS
<1>7. holding \in SUBSET Nat /\ holding # {} /\ \A m \in holding : SizeOf(sizes[m]) \in Nat
  BY <1>0, <1>2, <1>3, <1>4
<1>8. c \in holding /\ \A m \in holding : SizeOf(sizes[c]) <= SizeOf(sizes[m])
  <2> HIDE DEF holding, sizes
  <2> QED BY <1>5, <1>6, <1>7, SmallestIsAmong
<1>9. /\ c \in Around(ranges, n, i) /\ c \in 1 .. n
      /\ \A m \in Around(ranges, n, i) : SizeOf(ranges[c]) <= SizeOf(ranges[m])
  <2> HIDE DEF holding, sizes
  <2> QED BY <1>3, <1>4, <1>8
<1> HIDE DEF holding, sizes
<1>10. Up(ranges, n, c) = Around(ranges, n, i)
  <2>1. ASSUME NEW m \in Around(ranges, n, i) PROVE Encloses(ranges[m], ranges[c])
    <3>0. m \in 1 .. n /\ Holds(ranges[m], i) /\ Holds(ranges[c], i)
      BY <1>9 DEF Around
    <3>1. /\ ranges[m].start \in Nat /\ ranges[m].end \in Nat /\ ranges[c].start \in Nat /\ ranges[c].end \in Nat
          /\ m \in 1 .. n /\ Holds(ranges[m], i) /\ Holds(ranges[c], i) /\ i \in Nat
      <4>1. Boxed(ranges[m]) /\ Boxed(ranges[c])
        BY <1>1, <1>9, <3>0
      <4>2. i \in Nat
        BY WholeTexts
      <4> QED BY <3>0, <4>1, <4>2 DEF Boxed
    <3>2. Encloses(ranges[m], ranges[c]) \/ Encloses(ranges[c], ranges[m])
      <4>1. Apart(ranges[m], ranges[c])
        BY <1>1, <1>9, <3>1
      <4> QED BY <3>1, <4>1 DEF Apart, Holds
    <3>3. CASE Encloses(ranges[c], ranges[m])
      <4>1. ranges[c] = ranges[m]
        BY <1>1, <1>9, <3>1, <3>3, BoxesNest
      <4> QED BY <3>3, <4>1
    <3> QED BY <3>2, <3>3
  <2>2. ASSUME NEW m \in 1 .. n, Encloses(ranges[m], ranges[c]) PROVE Holds(ranges[m], i)
    <3>0. Holds(ranges[c], i)
      BY <1>9 DEF Around
    <3>1. /\ ranges[m].start \in Nat /\ ranges[m].end \in Nat /\ ranges[c].start \in Nat /\ ranges[c].end \in Nat
          /\ Holds(ranges[c], i) /\ i \in Nat
      <4>1. Boxed(ranges[m]) /\ Boxed(ranges[c])
        BY <1>1, <1>9, <2>2
      <4>2. i \in Nat
        BY WholeTexts
      <4> QED BY <3>0, <4>1, <4>2 DEF Boxed
    <3> QED BY <2>2, <3>1 DEF Encloses, Holds
  <2> QED BY <2>1, <2>2 DEF Up, Around
<1>11. Descends(Chain(scopes, c), Up(ranges, n, c))
  BY <1>9, ChainsAre
<1> QED BY <1>2, <1>6, <1>10, <1>11

-----------------------------------------------------------------------------
(* Lookup, from the scopes around a use *)

(* The symbols a use may stand for, block being the program block around it *)
Offered(symbols, scopes, ranges, n, names, i, block) ==
  {k \in DOMAIN symbols :
     /\ names[symbols[k].at] = names[i]
     /\ symbols[k].visibleFrom <= i
     /\ \/ symbols[k].kind = "function"
        \/ symbols[k].scope # Root
        \/ /\ \A m \in Around(ranges, n, i) : scopes[m].kind # "function"
           /\ ProgramSymbolVisible(symbols[k].kind, block)}

(* Those of them that one scope holds *)
OfferedIn(symbols, offered, scope) == {k \in offered : symbols[k].scope = scope}

(* block is the program block around i, or none. *)
BlockIs(scopes, ranges, n, i, block) ==
  IF \E k \in Around(ranges, n, i) : scopes[k].kind \in BlockKinds
  THEN \A k \in Around(ranges, n, i) : scopes[k].kind \in BlockKinds => scopes[k].kind = block
  ELSE block = "none"

(* Symbol k is declared later than symbol m. *)
LaterOf(symbols, k, m) ==
  \/ symbols[k].visibleFrom > symbols[m].visibleFrom
  \/ symbols[k].visibleFrom = symbols[m].visibleFrom /\ k > m

(* Lookup finds nothing if no scope around the use offers a symbol, and else the *)
(* latest that the innermost of those that do offers.                            *)
LEMMA ResolveIs ==
  ASSUME Whole, NEW scopes, NEW ranges, NEW n, Built(scopes, ranges, n), ScopesOK(scopes),
         NEW symbols \in Seq(GoodSymbols(scopes)), NEW names, NEW i \in 1 .. Len(text),
         NEW around, around = Around(ranges, n, i), NEW block, BlockIs(scopes, ranges, n, i, block),
         NEW offered, offered = Offered(symbols, scopes, ranges, n, names, i, block),
         NEW r, r = ResolveName(symbols, scopes, names, i)
  PROVE  /\ (\A k \in around : OfferedIn(symbols, offered, k) = {}) => r = 0
         /\ \A k \in around :
              /\ OfferedIn(symbols, offered, k) # {}
              /\ \A m \in around : m > k => OfferedIn(symbols, offered, m) = {}
              => /\ r \in OfferedIn(symbols, offered, k)
                 /\ \A m \in OfferedIn(symbols, offered, k) \ {r} : LaterOf(symbols, r, m)
<1> DEFINE chain  == Chain(scopes, ScopeAt(scopes, i))
           kinds  == [c \in DOMAIN chain |-> scopes[chain[c]].kind]
           blocks == {c \in DOMAIN chain : kinds[c] \in BlockKinds}
           blk    == IF blocks = {} THEN "none" ELSE kinds[Min(blocks)]
           inside_function == \E c \in DOMAIN chain : kinds[c] = "function"
           Visible(s) == \/ s.kind = "function"
                         \/ s.scope # Root
                         \/ ~ inside_function /\ ProgramSymbolVisible(s.kind, blk)
           candidates == {k \in DOMAIN symbols :
                            /\ names[symbols[k].at] = names[i]
                            /\ symbols[k].visibleFrom <= i
                            /\ Visible(symbols[k])}
           InScope(scope) == {k \in candidates : symbols[k].scope = scope}
           nearest == {c \in DOMAIN chain : InScope(chain[c]) # {}}
           best == InScope(chain[Min(nearest)])
           Later(k, m) == \/ symbols[k].visibleFrom > symbols[m].visibleFrom
                          \/ symbols[k].visibleFrom = symbols[m].visibleFrom /\ k > m
<1>1. r = IF nearest = {} THEN 0
          ELSE CHOOSE k \in best : \A m \in best \ {k} : Later(k, m)
  BY Zenon DEF ResolveName
<1>2. Descends(chain, around)
  BY ChainsAround
<1> HIDE DEF chain
<1>3. /\ chain \in Seq(Nat) /\ DOMAIN chain = 1 .. Len(chain) /\ Len(chain) \in Nat
      /\ \A c \in DOMAIN chain : chain[c] \in around
      /\ \A k \in around : \E c \in DOMAIN chain : chain[c] = k
      /\ \A c, d \in DOMAIN chain : c < d => chain[d] < chain[c]
      /\ around \in SUBSET Nat
  <2>1. chain \in Seq(Nat) /\ DOMAIN chain = 1 .. Len(chain) /\ Len(chain) \in Nat
    BY <1>2 DEF Descends
  <2>2. around \in SUBSET Nat
    BY DEF Around, Built
  <2> QED BY <1>2, <2>1, <2>2 DEF Descends
<1>4. inside_function <=> \E k \in around : scopes[k].kind = "function"
  BY <1>3
<1>5. \A c \in DOMAIN chain : c \in blocks <=> scopes[chain[c]].kind \in BlockKinds
  OBVIOUS
<1>6. blocks = {} <=> ~ \E k \in around : scopes[k].kind \in BlockKinds
  BY <1>3, <1>5
<1>7. blk = block
  <2>1. CASE blocks = {}
    BY <1>6, <2>1 DEF BlockIs
  <2>2. CASE blocks # {}
    <3>1. blocks \in SUBSET Nat
      BY <1>3
    <3>2. PICK c : c = Min(blocks)
      OBVIOUS
    <3>3. c \in blocks
      <4> HIDE DEF blocks
      <4> QED BY <2>2, <3>1, <3>2, MinIsLeast
    <3>4. c \in DOMAIN chain /\ scopes[chain[c]].kind \in BlockKinds /\ chain[c] \in around
      BY <1>3, <3>3
    <3>5. kinds[c] = block
      BY <1>6, <2>2, <3>4 DEF BlockIs
    <3> QED BY <2>2, <3>2, <3>5
  <2> QED BY <2>1, <2>2
<1> HIDE DEF blk, blocks
<1>8. candidates = offered
  BY <1>4, <1>7 DEF Offered
<1> HIDE DEF kinds, candidates, inside_function
<1>9. \A k : InScope(k) = OfferedIn(symbols, offered, k)
  BY <1>8 DEF OfferedIn
<1>10. \A k, m : Later(k, m) <=> LaterOf(symbols, k, m)
  BY DEF LaterOf
<1> HIDE DEF InScope, Later
<1>11. ASSUME \A k \in around : OfferedIn(symbols, offered, k) = {} PROVE r = 0
  <2>1. nearest = {}
    BY <1>3, <1>9, <1>11
  <2> QED BY <1>1, <2>1
<1>12. ASSUME NEW k \in around, OfferedIn(symbols, offered, k) # {},
              \A m \in around : m > k => OfferedIn(symbols, offered, m) = {}
       PROVE  /\ r \in OfferedIn(symbols, offered, k)
              /\ \A m \in OfferedIn(symbols, offered, k) \ {r} : LaterOf(symbols, r, m)
  <2>1. PICK c \in DOMAIN chain : chain[c] = k
    BY <1>3
  <2>2. c \in nearest /\ nearest # {} /\ nearest \in SUBSET Nat
    <3>1. InScope(chain[c]) = OfferedIn(symbols, offered, k)
      BY <1>9, <2>1
    <3>2. c \in nearest
      BY <1>12, <3>1
    <3>3. nearest \subseteq DOMAIN chain
      OBVIOUS
    <3>4. DOMAIN chain \subseteq Nat
      BY <1>3
    <3> HIDE DEF nearest
    <3> QED BY <3>2, <3>3, <3>4
  <2>3. PICK d : d = Min(nearest)
    OBVIOUS
  <2>4. d \in nearest /\ d <= c
    <3> HIDE DEF nearest
    <3> QED BY <2>2, <2>3, MinIsLeast
  <2>5. d \in DOMAIN chain /\ chain[d] \in around /\ OfferedIn(symbols, offered, chain[d]) # {}
    BY <1>3, <1>9, <2>4
  <2>6. d = c
    <3>1. CASE d < c
      <4>1. chain[c] < chain[d]
        BY <1>3, <2>1, <2>5, <3>1
      <4>2. chain[d] > k
        BY <1>3, <2>1, <2>5, <4>1
      <4> QED BY <1>12, <2>5, <4>2
    <3>2. c \in Nat /\ d \in Nat
      BY <2>2, <2>4
    <3> QED BY <2>4, <3>1, <3>2
  <2>7. PICK I : I = OfferedIn(symbols, offered, k)
    OBVIOUS
  <2>8. best = I
    BY <1>9, <2>1, <2>3, <2>6, <2>7
  <2>9. r = CHOOSE m \in I : \A l \in I \ {m} : LaterOf(symbols, m, l)
    <3>1. r = CHOOSE m \in best : \A l \in best \ {m} : Later(m, l)
      BY <1>1, <2>2
    <3>2. \A m : (\A l \in best \ {m} : Later(m, l)) <=> (\A l \in I \ {m} : LaterOf(symbols, m, l))
      BY <1>10, <2>8
    <3> HIDE DEF best
    <3> QED BY <2>8, <3>1, <3>2
  <2>10. PICK b : b = Len(symbols)
    OBVIOUS
  <2>11. /\ b \in Nat /\ I \in SUBSET (1 .. b)
         /\ \A m \in I : symbols[m].visibleFrom \in 0 .. Len(text) + 1
    <3>1. \A m \in 1 .. b : symbols[m] \in GoodSymbols(scopes)
      BY <2>10
    <3>2. \A s \in GoodSymbols(scopes) : s.visibleFrom \in 0 .. Len(text) + 1
      BY DEF GoodSymbols
    <3>3. DOMAIN symbols = 1 .. b /\ b \in Nat
      BY <2>10
    <3>4. I \in SUBSET (1 .. b)
      BY <2>7, <3>3 DEF OfferedIn, Offered
    <3> QED BY <3>1, <3>2, <3>3, <3>4
  <2>12. \E m \in I : \A l \in I \ {m} : LaterOf(symbols, m, l)
    <3>1. PICK t : t = Len(text) + 1
      OBVIOUS
    <3>2. t \in Nat
      BY <3>1, WholeTexts
    <3>3. I # {}
      BY <1>12, <2>7
    <3>4. \E m \in I : \A l \in I \ {m} :
             \/ symbols[m].visibleFrom > symbols[l].visibleFrom
             \/ symbols[m].visibleFrom = symbols[l].visibleFrom /\ m > l
      BY <2>11, <3>1, <3>2, <3>3, LatestIsAmong
    <3> QED BY <3>4 DEF LaterOf
  <2>13. r \in I /\ \A l \in I \ {r} : LaterOf(symbols, r, l)
    BY <2>9, <2>12, Zenon
  <2> QED BY <2>7, <2>13
<1> QED BY <1>11, <1>12

-----------------------------------------------------------------------------
(* What is known of each symbol *)

(* The one name a statement declares is what it holds behind it. *)
LEMMA FormsHold ==
  ASSUME text \in Seq(Token), NEW form, NEW s, FormedAt(form, s), NEW k \in 1 .. Len(form.kinds),
         NEW m \in 1 .. k - 1, form.roles[m] = "declares"
  PROVE  HeldAt(s + k - 1) = s + m - 1
<1>1. /\ form \in Forms /\ s \in 1 .. Len(text)
      /\ \A l \in 1 .. Len(form.kinds) :
           /\ s + l - 1 \in 1 .. Len(text) /\ StatementStart(s + l - 1) = s
           /\ RoleAt(s + l - 1) = form.roles[l]
  BY DEF FormedAt
<1> PICK n : n = Len(form.kinds)
  OBVIOUS
<1>0. PICK o, c, d : WellFormed(form, o, c, d)
  BY <1>1, FormsAre
<1>2. n \in Nat /\ \A l \in 1 .. n : form.roles[l] = "declares" <=> l = d
  <2>1. n \in 1 .. 8
    BY <1>0 DEF WellFormed
  <2>2. \A l \in 1 .. n : form.roles[l] = "declares" <=> l = d
    BY <1>0 DEF WellFormed
  <2> QED BY <2>1, <2>2
<1>3. PICK i, j : i = s + k - 1 /\ j = s + m - 1
  OBVIOUS
<1>4. s \in Nat /\ s # 0 /\ k \in 1 .. n /\ m \in 1 .. k - 1 /\ m \in 1 .. n /\ k \in Nat /\ m \in Nat
  BY <1>1, <1>2
<1>5. i \in Nat \ {0} /\ j \in s .. i - 1
  BY <1>3, <1>4
<1>6. StatementStart(i) = s /\ RoleAt(j) = "declares" /\ m = d
  <2>1. StatementStart(i) = s /\ RoleAt(j) = form.roles[m]
    BY <1>1, <1>3, <1>4
  <2> QED BY <1>2, <1>4, <2>1
<1>7. PICK h : h = HeldAt(i)
  OBVIOUS
<1>8. h \in Nat /\ j <= h /\ (h # 0 => h \in s .. i - 1 /\ RoleAt(h) = "declares")
  BY <1>5, <1>6, <1>7, HeldIs
<1>9. h \in s .. i - 1 /\ RoleAt(h) = "declares"
  BY <1>4, <1>5, <1>8
<1>10. PICK l : l = h - s + 1
  OBVIOUS
<1>11. l \in 1 .. n /\ h = s + l - 1
  BY <1>2, <1>3, <1>4, <1>9, <1>10
<1>12. l = m
  BY <1>1, <1>2, <1>6, <1>9, <1>11
<1> QED BY <1>3, <1>7, <1>11, <1>12

(* A left brace ends a header, a function's or a loop's head, or begins a block. *)
LEMMA BracesAreForms ==
  ASSUME Whole, NEW o \in 1 .. Len(text), KindAt(o) = "leftBrace", NEW s, s = StatementStart(o)
  PROVE  \E form \in HeaderForms \cup {FunctionForm, LoopForm, BlockForm} :
           /\ FormedAt(form, s) /\ o = s + Len(form.kinds) - 1
           /\ RoleAt(o) = form.roles[Len(form.kinds)]
<1>1. PICK form \in Forms : \E k \in 1 .. Len(form.kinds) : o = s + k - 1 /\ FormedAt(form, s)
  BY StatementsAreForms, WholeTexts
<1>2. PICK k \in 1 .. Len(form.kinds) : o = s + k - 1 /\ FormedAt(form, s)
  BY <1>1
<1>3. form.kinds[k] = "leftBrace" /\ RoleAt(o) = form.roles[k]
  BY <1>2 DEF FormedAt
<1>4. k = Len(form.kinds)
  <2>1. PICK a, c, d : WellFormed(form, a, c, d)
    BY FormsAre
  <2>2. /\ Len(form.kinds) \in 1 .. 8 /\ \A l \in 1 .. Len(form.kinds) - 1 : form.kinds[l] \notin Boundaries
    BY <2>1 DEF WellFormed
  <2> QED BY <1>3, <2>2 DEF Boundaries
<1>5. form \notin {PlainForm, SizedForm, CallForm, CloseForm}
  <2>1. /\ Len(PlainForm.kinds) = 3 /\ PlainForm.kinds[3] = "semicolon"
        /\ Len(SizedForm.kinds) = 8 /\ SizedForm.kinds[8] = "semicolon"
        /\ Len(CallForm.kinds) = 5 /\ CallForm.kinds[5] = "semicolon"
        /\ Len(CloseForm.kinds) = 1 /\ CloseForm.kinds[1] = "rightBrace"
    BY RolesAre, ShapesAre DEF CloseForm, Form
  <2> QED BY <1>3, <1>4, <2>1
<1>6. form \in HeaderForms \cup {FunctionForm, LoopForm, BlockForm}
  BY <1>5 DEF Forms, InnerForms
<1> QED BY <1>2, <1>3, <1>4, <1>6

(* Only the head of a function or a loop holds a name at its brace. *)
LEMMA HeadsHold ==
  ASSUME Whole, NEW o \in 1 .. Len(text), KindAt(o) = "leftBrace", NEW s, s = StatementStart(o)
  PROVE  /\ HeldAt(o) # 0 => RoleAt(o) \in {"function", "loop"}
         /\ RoleAt(o) = "function" => FormedAt(FunctionForm, s) /\ o = s + 6 /\ HeldAt(o) = s + 4
         /\ RoleAt(o) = "loop" => FormedAt(LoopForm, s) /\ o = s + 6 /\ HeldAt(o) = s + 2
<1>0. text \in Seq(Token) /\ o \in Nat \ {0}
  BY WholeTexts
<1>1. PICK form \in HeaderForms \cup {FunctionForm, LoopForm, BlockForm} :
        /\ FormedAt(form, s) /\ o = s + Len(form.kinds) - 1
        /\ RoleAt(o) = form.roles[Len(form.kinds)]
  BY BracesAreForms
<1>2. s \in Nat
  BY <1>1, WholeTexts DEF FormedAt
<1>3. ASSUME HeldAt(o) # 0, form \in HeaderForms \cup {BlockForm} PROVE FALSE
  <2>1. PICK n, h, l : n = Len(form.kinds) /\ h = HeldAt(o) /\ l = h - s + 1
    OBVIOUS
  <2>2. h \in s .. o - 1 /\ RoleAt(h) = "declares"
    BY <1>0, <1>3, <2>1, HeldIs
  <2>3. n \in Nat /\ \A m \in 1 .. n - 1 : form.roles[m] = "none"
    <3>1. CASE form \in HeaderForms
      BY <2>1, <3>1, HeaderFormsAre
    <3>2. CASE form = BlockForm
      <4>1. n = 1
        BY <2>1, <3>2, RolesAre DEF BlockForm, Form
      <4> QED BY <4>1
    <3> QED BY <1>3, <3>1, <3>2
  <2>4. l \in 1 .. n - 1 /\ h = s + l - 1
    <3>1. o = s + n - 1
      BY <1>1, <2>1
    <3>2. n \in Nat /\ h \in s .. o - 1 /\ l = h - s + 1
      BY <2>1, <2>2, <2>3
    <3>3. h \in Int /\ s <= h /\ h <= s + n - 2
      BY <1>2, <3>1, <3>2
    <3>4. l = h - s + 1 /\ n \in Int /\ s \in Int
      BY <1>2, <3>2
    <3>5. l \in Int /\ 1 <= l /\ l <= n - 1
      BY <3>3, <3>4
    <3>6. h = s + l - 1
      BY <3>3, <3>4
    <3> QED BY <3>4, <3>5, <3>6
  <2>5. l \in 1 .. n
    BY <2>3, <2>4
  <2>6. RoleAt(h) = form.roles[l]
    BY <1>1, <2>1, <2>4, <2>5 DEF FormedAt
  <2> QED BY <2>2, <2>3, <2>4, <2>6
<1>4. Len(FunctionForm.kinds) = 7 /\ Len(LoopForm.kinds) = 7 /\ Len(BlockForm.kinds) = 1
  BY RolesAre, ShapesAre
<1>5. /\ FunctionForm.roles[7] = "function" /\ LoopForm.roles[7] = "loop" /\ BlockForm.roles[1] = "block"
      /\ FunctionForm.roles[5] = "declares" /\ LoopForm.roles[3] = "declares"
  BY RolesAre
<1>6. form \in HeaderForms => RoleAt(o) \in BlockKinds
  BY <1>1, HeaderFormsAre
<1>7. CASE form = FunctionForm
  <2>1. o = s + 7 - 1
    BY <1>1, <1>4, <1>7
  <2>2. 7 \in 1 .. Len(form.kinds) /\ 5 \in 1 .. 7 - 1
    <3>1. Len(form.kinds) = 7
      BY <1>4, <1>7
    <3>2. 7 \in 1 .. 7 /\ 5 \in 1 .. 7 - 1
      OBVIOUS
    <3> QED BY <3>1, <3>2
  <2>3. HeldAt(s + 7 - 1) = s + 5 - 1
    BY <1>0, <1>1, <1>5, <1>7, <2>2, FormsHold
  <2> QED BY <1>1, <1>2, <1>4, <1>5, <1>7, <2>1, <2>3
<1>8. CASE form = LoopForm
  <2>1. o = s + 7 - 1
    BY <1>1, <1>4, <1>8
  <2>2. 7 \in 1 .. Len(form.kinds) /\ 3 \in 1 .. 7 - 1
    <3>1. Len(form.kinds) = 7
      BY <1>4, <1>8
    <3>2. 7 \in 1 .. 7 /\ 3 \in 1 .. 7 - 1
      OBVIOUS
    <3> QED BY <3>1, <3>2
  <2>3. HeldAt(s + 7 - 1) = s + 3 - 1
    BY <1>0, <1>1, <1>5, <1>8, <2>2, FormsHold
  <2> QED BY <1>1, <1>2, <1>4, <1>5, <1>8, <2>1, <2>3
<1>9. CASE form \in HeaderForms \cup {BlockForm}
  <2>1. RoleAt(o) \notin {"function", "loop"}
    BY <1>1, <1>4, <1>5, <1>6, <1>9, BlockKindsAre
  <2> QED BY <1>3, <1>9, <2>1
<1> QED BY <1>7, <1>8, <1>9

(* The symbol of a function *)
OfFunction(symbol) ==
  /\ RoleAt(symbol.at) = "names" /\ symbol.kind = "function"
  /\ symbol.scope = Root /\ symbol.visibleFrom = 0

(* The symbol of the declaration that ends at e *)
OfDeclaration(scopes, symbol, e) ==
  /\ e \in 1 .. Len(text) /\ RoleAt(e) = "ends"
  /\ symbol.at = HeldAt(e) /\ symbol.visibleFrom = e + 1 /\ Homed(scopes, symbol)

(* The symbol that is bound by the head whose brace is o *)
OfHead(scopes, symbol, o) ==
  /\ o \in 1 .. Len(text) /\ RoleAt(o) \in {"function", "loop"} /\ KindAt(o) = "leftBrace"
  /\ symbol.at = HeldAt(o) /\ symbol.visibleFrom = o /\ symbol.kind \in {"parameter", "loop"}
  /\ symbol.scope \in DOMAIN scopes \ {Root}
  /\ scopes[symbol.scope].range = Span(StatementStart(o), EndOf(o))

(* Every symbol is one of these. *)
Told(scopes, symbol) ==
  \/ OfFunction(symbol)
  \/ \E e \in 1 .. Len(text) : OfDeclaration(scopes, symbol, e)
  \/ \E o \in 1 .. Len(text) : OfHead(scopes, symbol, o)

(* A function's symbols *)
LEMMA FunctionsTell ==
  ASSUME Whole, NEW scopes, NEW ranges, NEW n, Built(scopes, ranges, n), ScopesOK(scopes),
         NEW f \in FunctionDeclarations, NEW s, s = f.start
  PROVE  \E a, b : /\ FunctionSymbols(scopes, f) = <<a, b>>
                   /\ a.at = s + 1 /\ OfFunction(a) /\ OfHead(scopes, b, s + 6)
<1>0. text \in Seq(Token) /\ Len(text) \in Nat
  BY WholeTexts
<1>1. PICK a : a = Symbol(s + 1, "function", Root, 0)
  OBVIOUS
<1>2. PICK b : b = Symbol(s + 4, "parameter", ScopeWithRange(scopes, f), s + 6)
  OBVIOUS
<1>3. FunctionSymbols(scopes, f) = <<a, b>>
  BY <1>1, <1>2, FunctionSymbolsAre
<1>4. FormedAt(FunctionForm, s) /\ f = Span(s, EndOf(s + 6))
  BY DeclaredFunctionsAreForms
<1>5. PICK o : o = s + 6
  OBVIOUS
<1>6. /\ s \in Nat /\ RoleAt(s + 1) = "names" /\ KindAt(o) = "leftBrace" /\ RoleAt(o) = "function"
      /\ o \in 1 .. Len(text) /\ StatementStart(o) = s
  <2>1. 6 \in 0 .. 6
    OBVIOUS
  <2> QED BY <1>0, <1>4, <1>5, <2>1, FunctionHeads
<1>7. HeldAt(o) = s + 4
  BY <1>6, HeadsHold
<1>8. a.at = s + 1 /\ a.kind = "function" /\ a.scope = Root /\ a.visibleFrom = 0
  BY <1>1 DEF Symbol
<1>9. /\ b.at = s + 4 /\ b.kind = "parameter" /\ b.visibleFrom = o
      /\ b.scope = ScopeWithRange(scopes, f)
  BY <1>2, <1>5 DEF Symbol
<1>10. b.scope \in DOMAIN scopes \ {Root} /\ scopes[b.scope].range = f
  <2>1. b.scope \in DOMAIN scopes /\ scopes[b.scope].range = f
    BY <1>9, ScopesAreFound
  <2>2. f # RootRange
    BY RangesAre DEF ScopedRanges
  <2>3. 1 \in 1 .. n /\ scopes[1].range = RootRange
    BY DEF Built
  <2> QED BY <2>1, <2>2, <2>3 DEF Root
<1>11. OfFunction(a)
  BY <1>6, <1>8 DEF OfFunction
<1>12. OfHead(scopes, b, o)
  BY <1>4, <1>5, <1>6, <1>7, <1>9, <1>10 DEF OfHead
<1> QED BY <1>3, <1>5, <1>8, <1>11, <1>12

(* A loop's symbol *)
LEMMA LoopsTell ==
  ASSUME Whole, NEW scopes, NEW ranges, NEW n, Built(scopes, ranges, n), ScopesOK(scopes),
         NEW l \in ForStatements, NEW s, s = l.start
  PROVE  \E b : LoopSymbols(scopes, l) = <<b>> /\ OfHead(scopes, b, s + 6)
<1>0. text \in Seq(Token) /\ Len(text) \in Nat
  BY WholeTexts
<1>2. PICK b : b = Symbol(s + 2, "loop", ScopeWithRange(scopes, l), s + 6)
  OBVIOUS
<1>3. LoopSymbols(scopes, l) = <<b>>
  BY <1>2, LoopSymbolsAre
<1>4. FormedAt(LoopForm, s) /\ l = Span(s, EndOf(s + 6))
  BY LoopsAreForms
<1>5. PICK o : o = s + 6
  OBVIOUS
<1>6. /\ s \in Nat /\ KindAt(o) = "leftBrace" /\ RoleAt(o) = "loop"
      /\ o \in 1 .. Len(text) /\ StatementStart(o) = s
  <2>1. 6 \in 0 .. 6
    OBVIOUS
  <2> QED BY <1>0, <1>4, <1>5, <2>1, LoopHeads
<1>7. HeldAt(o) = s + 2
  BY <1>6, HeadsHold
<1>9. /\ b.at = s + 2 /\ b.kind = "loop" /\ b.visibleFrom = o
      /\ b.scope = ScopeWithRange(scopes, l)
  BY <1>2, <1>5 DEF Symbol
<1>10. b.scope \in DOMAIN scopes \ {Root} /\ scopes[b.scope].range = l
  <2>1. b.scope \in DOMAIN scopes /\ scopes[b.scope].range = l
    BY <1>9, ScopesAreFound
  <2>2. l # RootRange
    BY RangesAre DEF ScopedRanges
  <2>3. 1 \in 1 .. n /\ scopes[1].range = RootRange
    BY DEF Built
  <2> QED BY <2>1, <2>2, <2>3 DEF Root
<1>12. OfHead(scopes, b, o)
  BY <1>4, <1>5, <1>6, <1>7, <1>9, <1>10 DEF OfHead
<1> QED BY <1>3, <1>5, <1>12

(* Each symbol is a function's, a declaration's or a head's, and each of these *)
(* has its symbol.                                                             *)
LEMMA SymbolsTell ==
  ASSUME Whole, NEW scopes, NEW ranges, NEW n, Built(scopes, ranges, n), ScopesOK(scopes),
         NEW known, known = Range(AddSymbols(scopes))
  PROVE  /\ \A x \in known : Told(scopes, x)
         /\ \A j \in 1 .. Len(text) : RoleAt(j) = "names" => \E x \in known : x.at = j /\ OfFunction(x)
         /\ \A e \in 1 .. Len(text) : RoleAt(e) = "ends" => \E x \in known : OfDeclaration(scopes, x, e)
         /\ \A o \in 1 .. Len(text) : RoleAt(o) \in {"function", "loop"} /\ KindAt(o) = "leftBrace" =>
              \E x \in known : OfHead(scopes, x, o)
<1>0. /\ text \in Seq(Token) /\ Len(text) \in Nat /\ DelimiterTypeOK /\ PairsNest
  BY WholeTexts
<1>1. ASSUME NEW f \in FunctionDeclarations
      PROVE  \E a \in known : \E b \in known :
               /\ \A x \in Range(FunctionSymbols(scopes, f)) : x = a \/ x = b
               /\ a.at = f.start + 1 /\ OfFunction(a) /\ OfHead(scopes, b, f.start + 6)
  <2>1. PICK a, b : /\ FunctionSymbols(scopes, f) = <<a, b>>
                    /\ a.at = f.start + 1 /\ OfFunction(a) /\ OfHead(scopes, b, f.start + 6)
    BY FunctionsTell
  <2>2. Range(FunctionSymbols(scopes, f)) = {a, b}
    <3>1. Range(<<a, b>>) = {a, b}
      BY DEF Range
    <3> QED BY <2>1, <3>1
  <2>3. Range(FunctionSymbols(scopes, f)) \subseteq known
    BY <1>0, RangeOfSymbols
  <2> QED BY <2>1, <2>2, <2>3
<1>2. ASSUME NEW l \in ForStatements
      PROVE  \E b \in known : /\ \A x \in Range(LoopSymbols(scopes, l)) : x = b
                              /\ OfHead(scopes, b, l.start + 6)
  <2>1. PICK b : LoopSymbols(scopes, l) = <<b>> /\ OfHead(scopes, b, l.start + 6)
    BY LoopsTell
  <2>2. Range(LoopSymbols(scopes, l)) = {b}
    BY <2>1 DEF Range
  <2>3. Range(LoopSymbols(scopes, l)) \subseteq known
    BY <1>0, RangeOfSymbols
  <2> QED BY <2>1, <2>2, <2>3
<1>3. ASSUME NEW e \in 1 .. Len(text), RoleAt(e) = "ends"
      PROVE  \E x \in known : /\ \A y \in Range(VariableSymbols(scopes, Span(StatementStart(e), e))) : y = x
                              /\ OfDeclaration(scopes, x, e)
  <2>1. PICK x : /\ VariableSymbols(scopes, Span(StatementStart(e), e)) = <<x>>
                 /\ x.at = HeldAt(e) /\ x.visibleFrom = e + 1 /\ Homed(scopes, x)
    BY <1>3, VariableSymbolsAre
  <2>2. Range(VariableSymbols(scopes, Span(StatementStart(e), e))) = {x}
    BY <2>1 DEF Range
  <2>3. Span(StatementStart(e), e) \in VariableDeclarations
    BY <1>3, EndsAreDeclarations
  <2>4. Range(VariableSymbols(scopes, Span(StatementStart(e), e))) \subseteq known
    BY <1>0, <2>3, RangeOfSymbols
  <2>5. OfDeclaration(scopes, x, e)
    BY <1>3, <2>1 DEF OfDeclaration
  <2> QED BY <2>2, <2>4, <2>5
<1>4. ASSUME NEW x \in known PROVE Told(scopes, x)
  <2>1. \/ \E f \in FunctionDeclarations : x \in Range(FunctionSymbols(scopes, f))
        \/ \E v \in VariableDeclarations : x \in Range(VariableSymbols(scopes, v))
        \/ \E l \in ForStatements : x \in Range(LoopSymbols(scopes, l))
    BY <1>0, RangeOfSymbols
  <2>2. ASSUME NEW f \in FunctionDeclarations, x \in Range(FunctionSymbols(scopes, f)) PROVE Told(scopes, x)
    <3>1. OfFunction(x) \/ OfHead(scopes, x, f.start + 6)
      BY <1>1, <2>2
    <3>2. OfHead(scopes, x, f.start + 6) => f.start + 6 \in 1 .. Len(text)
      BY DEF OfHead
    <3> QED BY <3>1, <3>2 DEF Told
  <2>3. ASSUME NEW l \in ForStatements, x \in Range(LoopSymbols(scopes, l)) PROVE Told(scopes, x)
    <3>1. OfHead(scopes, x, l.start + 6)
      BY <1>2, <2>3
    <3>2. l.start + 6 \in 1 .. Len(text)
      BY <3>1 DEF OfHead
    <3> QED BY <3>1, <3>2 DEF Told
  <2>4. ASSUME NEW v \in VariableDeclarations, x \in Range(VariableSymbols(scopes, v)) PROVE Told(scopes, x)
    <3>1. PICK e \in 1 .. Len(text) : RoleAt(e) = "ends" /\ v = Span(StatementStart(e), e)
      BY DeclarationsAreEnds
    <3>2. OfDeclaration(scopes, x, e)
      BY <1>3, <2>4, <3>1
    <3> QED BY <3>1, <3>2 DEF Told
  <2> QED BY <2>1, <2>2, <2>3, <2>4
<1>5. ASSUME NEW j \in 1 .. Len(text), RoleAt(j) = "names"
      PROVE  \E x \in known : x.at = j /\ OfFunction(x)
  <2>1. PICK s : s = StatementStart(j)
    OBVIOUS
  <2>2. s \in Nat
    BY <1>0, <2>1, StatementsBegin
  <2>3. PICK form \in Forms : \E k \in 1 .. Len(form.kinds) : j = s + k - 1 /\ FormedAt(form, s)
    BY <1>0, <2>1, StatementsAreForms, WholeTexts
  <2>4. PICK k \in 1 .. Len(form.kinds) : j = s + k - 1 /\ FormedAt(form, s)
    BY <2>3
  <2>5. form.roles[k] = "names"
    BY <1>5, <2>4 DEF FormedAt
  <2>6. form = FunctionForm /\ k = 2
    BY <2>5, TellingTokens
  <2>7. FormedAt(FunctionForm, s) /\ j = s + 1
    BY <2>2, <2>4, <2>6
  <2>8. PICK f : f = Span(s, EndOf(s + 6))
    OBVIOUS
  <2>9. f \in FunctionDeclarations /\ f.start = s
    <3>1. f.start = s
      BY <2>8 DEF Span
    <3> QED BY <2>7, <2>8, <3>1, FunctionFormsAreDeclared
  <2> QED BY <1>1, <2>7, <2>9
<1>6. ASSUME NEW o \in 1 .. Len(text), RoleAt(o) \in {"function", "loop"}, KindAt(o) = "leftBrace"
      PROVE  \E x \in known : OfHead(scopes, x, o)
  <2>1. PICK s : s = StatementStart(o)
    OBVIOUS
  <2>2. PICK r : r = Span(s, EndOf(s + 6))
    OBVIOUS
  <2>3. r.start = s
    BY <2>2 DEF Span
  <2>4. CASE RoleAt(o) = "function"
    <3>1. FormedAt(FunctionForm, s) /\ o = s + 6
      BY <1>6, <2>1, <2>4, HeadsHold
    <3>2. r \in FunctionDeclarations
      BY <2>2, <3>1, FunctionFormsAreDeclared
    <3> QED BY <1>1, <2>3, <3>1, <3>2
  <2>5. CASE RoleAt(o) = "loop"
    <3>1. FormedAt(LoopForm, s) /\ o = s + 6
      BY <1>6, <2>1, <2>5, HeadsHold
    <3>2. r \in ForStatements
      BY <2>2, <3>1, LoopFormsAreLoops
    <3> QED BY <1>2, <2>3, <3>1, <3>2
  <2> QED BY <1>6, <2>4, <2>5
<1>7. ASSUME NEW e \in 1 .. Len(text), RoleAt(e) = "ends" PROVE \E x \in known : OfDeclaration(scopes, x, e)
  BY <1>3, <1>7
<1> QED BY <1>4, <1>5, <1>6, <1>7

-----------------------------------------------------------------------------
(* What the scopes around a token offer *)

(* Braces that are closed by one brace are one. *)
LEMMA EndsTellBraces ==
  ASSUME Whole, NEW b, NEW c, KindAt(b) = "leftBrace", KindAt(c) = "leftBrace", EndOf(b) = EndOf(c)
  PROVE  b = c
<1>1. ASSUME NEW o, NEW p, KindAt(o) = "leftBrace", KindAt(p) = "leftBrace", EndOf(o) = EndOf(p), o < p
      PROVE  FALSE
  <2>1. /\ o \in 1 .. Len(text) /\ EndOf(o) \in 1 .. Len(text) /\ o < EndOf(o)
        /\ p \in 1 .. Len(text) /\ EndOf(p) \in 1 .. Len(text) /\ p < EndOf(p)
    BY <1>1, BracesAreClosed
  <2>2. EndOf(o) < p \/ (p <= EndOf(p) /\ EndOf(p) < EndOf(o))
    <3>1. KindAt(p) \in Openers
      BY <1>1 DEF Openers
    <3> QED BY <1>1, <2>1, <3>1, WholeTexts, OpenersNest
  <2>3. o \in Nat /\ p \in Nat /\ EndOf(o) \in Nat /\ EndOf(p) \in Nat
    BY <2>1, WholeTexts
  <2> QED BY <1>1, <2>1, <2>2, <2>3
<1>2. b \in Nat /\ c \in Nat
  BY BracesAreClosed, WholeTexts
<1>3. ~ (b < c) /\ ~ (c < b)
  BY <1>1
<1> QED BY <1>2, <1>3

(* The scope of what brace b encloses, or of the head b ends *)
Belongs(range, b) ==
  range = Span(b, EndOf(b)) \/ range = Span(StatementStart(b), EndOf(b))

(* The scopes of the braces around a token come from the outside in. *)
LEMMA ScopesInOrder ==
  ASSUME Whole, NEW scopes, NEW ranges, NEW n, Built(scopes, ranges, n), NEW i \in 1 .. Len(text),
         NEW b \in Braces(i), NEW c \in Braces(i), b < c, NEW k \in 2 .. n, NEW m \in 2 .. n,
         Belongs(ranges[k], b), Belongs(ranges[m], c)
  PROVE  k < m
<1>1. /\ b \in 1 .. Len(text) /\ KindAt(b) = "leftBrace"
      /\ c \in 1 .. Len(text) /\ KindAt(c) = "leftBrace"
  BY WholeTexts, BracesAreBehind
<1>2. b \in Nat \ {0} /\ c \in Nat \ {0}
  BY <1>1, WholeTexts
<1>3. StatementStart(b) \in 1 .. b
  BY <1>2, WholeTexts, StatementsBegin
<1>4. StatementStart(c) \in 1 .. c /\ b < StatementStart(c)
  <2>1. b \in 1 .. c - 1 /\ KindAt(b) \in Boundaries
    BY <1>1, <1>2 DEF Boundaries
  <2> QED BY <1>2, <2>1, WholeTexts, StatementsBegin
<1>5. ranges[k].start = b \/ ranges[k].start = StatementStart(b)
  BY DEF Belongs, Span
<1>6. ranges[m].start = c \/ ranges[m].start = StatementStart(c)
  BY DEF Belongs, Span
<1>7. ranges[k].start < ranges[m].start
  BY <1>2, <1>3, <1>4, <1>5, <1>6
<1>8. Before(ranges[k], ranges[m])
  BY <1>7 DEF Before
<1> QED BY <1>8 DEF Built

(* The scope of a head comes before that of its body. *)
LEMMA HeadsComeFirst ==
  ASSUME Whole, NEW scopes, NEW ranges, NEW n, Built(scopes, ranges, n),
         NEW b \in 1 .. Len(text), KindAt(b) = "leftBrace", RoleAt(b) \in {"function", "loop"},
         NEW k \in 2 .. n, NEW m \in 2 .. n,
         ranges[k] = Span(StatementStart(b), EndOf(b)), ranges[m] = Span(b, EndOf(b))
  PROVE  k < m
<1>1. PICK s : s = StatementStart(b)
  OBVIOUS
<1>2. b = s + 6 /\ s \in Nat
  <2>1. b = s + 6
    BY <1>1, HeadsHold
  <2>2. b \in Nat \ {0}
    BY WholeTexts
  <2>3. s \in 1 .. b
    BY <1>1, <2>2, WholeTexts, StatementsBegin
  <2> QED BY <2>1, <2>2, <2>3
<1>3. ranges[k].start = s /\ ranges[m].start = b
  BY <1>1 DEF Span
<1>4. Before(ranges[k], ranges[m])
  BY <1>2, <1>3 DEF Before
<1> QED BY <1>4 DEF Built

(* The head of a function or a loop does not begin with a brace. *)
LEMMA HeadsAreNoBodies ==
  ASSUME Whole, NEW b \in 1 .. Len(text), KindAt(b) = "leftBrace", RoleAt(b) \in {"function", "loop"},
         NEW c, KindAt(c) = "leftBrace"
  PROVE  Span(StatementStart(b), EndOf(b)) # Span(c, EndOf(c))
<1>1. PICK s : s = StatementStart(b)
  OBVIOUS
<1>2. b = s + 6 /\ s # b
  <2>1. b = s + 6
    BY <1>1, HeadsHold
  <2>2. b \in Nat \ {0}
    BY WholeTexts
  <2>3. s \in 1 .. b
    BY <1>1, <2>2, WholeTexts, StatementsBegin
  <2> QED BY <2>1, <2>2, <2>3
<1>3. KindAt(s) # "leftBrace"
  BY <1>1, <1>2, WholeTexts, StatementsStart
<1>4. s # c
  BY <1>3
<1>5. Span(s, EndOf(b)).start = s /\ Span(c, EndOf(c)).start = c
  BY DEF Span
<1> QED BY <1>1, <1>4, <1>5

(* A declaration's symbol in the scope of what brace b encloses *)
OfBody(scopes, symbol, b) ==
  /\ FrameOf(symbol.at) = b /\ \E e \in 1 .. Len(text) : OfDeclaration(scopes, symbol, e)
  /\ scopes[symbol.scope].range = Span(b, EndOf(b))

(* A symbol in a scope around a token is one of the frame of a brace around it. *)
LEMMA ScopesOffer ==
  ASSUME Whole, NEW scopes, NEW ranges, NEW n, Built(scopes, ranges, n),
         NEW i \in 1 .. Len(text), KindAt(i) # "leftBrace", NEW x, Told(scopes, x),
         x.scope \in Around(ranges, n, i), x.scope # Root, x.visibleFrom <= i,
         NEW name, text[x.at].name = name
  PROVE  \E b \in Braces(i) :
           /\ x.at \in InFrame(b, i, name)
           /\ \/ OfBody(scopes, x, b) /\ x.at \in Declared(i)
              \/ OfHead(scopes, x, b)
<1>0. i \in Nat /\ Len(text) \in Nat
  BY WholeTexts
<1>1. Holds(scopes[x.scope].range, i) /\ x.scope \in 1 .. n
  BY DEF Around, Built
<1>2. ~ OfFunction(x)
  BY DEF OfFunction
<1>3. ASSUME NEW e \in 1 .. Len(text), OfDeclaration(scopes, x, e)
      PROVE  \E b \in Braces(i) : x.at \in InFrame(b, i, name) /\ OfBody(scopes, x, b) /\ x.at \in Declared(i)
  <2>1. /\ RoleAt(e) = "ends" /\ x.at = HeldAt(e) /\ x.visibleFrom = e + 1 /\ Homed(scopes, x)
    BY <1>3 DEF OfDeclaration
  <2>2. PICK b : b = Innermost(x.at)
    OBVIOUS
  <2>3. OwnerAt(x.at) \notin ProgramKinds /\ KindAt(b) = "leftBrace" /\ scopes[x.scope].range = Span(b, EndOf(b))
    BY <2>1, <2>2 DEF Homed
  <2>4. RoleAt(x.at) = "declares"
    BY <2>1, EndsAreDeclarations
  <2>5. FrameOf(x.at) = b
    BY <2>2, <2>3, <2>4 DEF FrameOf
  <2>6. b \in Braces(i)
    BY <1>1, <2>3, BracesHold
  <2>7. x.at \in Declared(i)
    <3>1. e \in 1 .. i - 1
      BY <1>0, <2>1
    <3> QED BY <2>1, <3>1 DEF Declared
  <2>8. x.at \in InFrame(b, i, name)
    BY <2>5, <2>7 DEF InFrame
  <2>9. OfBody(scopes, x, b)
    BY <1>3, <2>3, <2>5 DEF OfBody
  <2> QED BY <2>6, <2>7, <2>8, <2>9
<1>4. ASSUME NEW o \in 1 .. Len(text), OfHead(scopes, x, o)
      PROVE  \E b \in Braces(i) : x.at \in InFrame(b, i, name) /\ OfHead(scopes, x, b)
  <2>1. /\ RoleAt(o) \in {"function", "loop"} /\ KindAt(o) = "leftBrace"
        /\ x.at = HeldAt(o) /\ x.visibleFrom = o
        /\ scopes[x.scope].range = Span(StatementStart(o), EndOf(o))
    BY <1>4 DEF OfHead
  <2>2. Holds(Span(o, EndOf(o)), i)
    <3>1. scopes[x.scope].range.end = Span(o, EndOf(o)).end /\ Span(o, EndOf(o)).start = o
      BY <2>1 DEF Span
    <3> QED BY <1>1, <2>1, <3>1 DEF Holds
  <2>3. o \in Braces(i)
    BY <2>1, <2>2, BracesHold
  <2>4. x.at # 0
    <3>1. PICK s : s = StatementStart(o)
      OBVIOUS
    <3>2. s \in Nat
      <4>1. o \in Nat \ {0}
        BY WholeTexts
      <4> QED BY <3>1, <4>1, WholeTexts, StatementsBegin
    <3>3. x.at = s + 4 \/ x.at = s + 2
      BY <2>1, <3>1, HeadsHold
    <3> QED BY <3>2, <3>3
  <2>5. x.at \in InFrame(o, i, name)
    BY <2>1, <2>4 DEF InFrame
  <2> QED BY <1>4, <2>3, <2>5
<1> QED BY <1>2, <1>3, <1>4 DEF Told

(* What is in the frame of a brace around a token has a symbol in a scope there. *)
LEMMA FramesOffer ==
  ASSUME Whole, NEW scopes, NEW ranges, NEW n, Built(scopes, ranges, n), ScopesOK(scopes),
         NEW known, known = Range(AddSymbols(scopes)),
         NEW i \in 1 .. Len(text), KindAt(i) # "leftBrace", NEW b \in Braces(i)
  PROVE  /\ \A j \in Declared(i) : FrameOf(j) = b =>
              \E x \in known : /\ x.at = j /\ OfBody(scopes, x, b)
                               /\ x.scope \in Around(ranges, n, i) \ {Root} /\ x.visibleFrom <= i
         /\ HeldAt(b) # 0 =>
              \E x \in known : /\ x.at = HeldAt(b) /\ OfHead(scopes, x, b)
                               /\ x.scope \in Around(ranges, n, i) \ {Root} /\ x.visibleFrom <= i
<1>0. /\ i \in Nat /\ Len(text) \in Nat /\ text \in Seq(Token) /\ EndsDeclare
      /\ i \in 1 .. Len(text) + 1
  BY WholeTexts DEF Whole
<1>1. /\ b \in 1 .. Len(text) /\ KindAt(b) = "leftBrace" /\ Holds(Span(b, EndOf(b)), i)
      /\ b \in Nat \ {0} /\ b \in 1 .. i - 1
  <2>1. b \in 1 .. Len(text) /\ KindAt(b) = "leftBrace" /\ b \in 1 .. i - 1
    BY <1>0, BracesAreBehind
  <2>2. Holds(Span(b, EndOf(b)), i)
    BY BracesHold
  <2>3. b \in Nat \ {0}
    BY <1>0, <2>1
  <2> QED BY <2>1, <2>2, <2>3
<1>2. DOMAIN scopes = 1 .. n /\ \A k \in 1 .. n : scopes[k].range = ranges[k]
  BY DEF Built
<1>3. ASSUME NEW j \in Declared(i), FrameOf(j) = b
      PROVE  \E x \in known : /\ x.at = j /\ OfBody(scopes, x, b)
                              /\ x.scope \in Around(ranges, n, i) \ {Root} /\ x.visibleFrom <= i
  <2>1. RoleAt(j) # "names" /\ OwnerAt(j) \notin ProgramKinds /\ Innermost(j) = b
    BY <1>1, <1>3 DEF FrameOf
  <2>2. j \in 1 .. i - 1 /\ \E e \in j + 1 .. i - 1 : RoleAt(e) = "ends" /\ HeldAt(e) = j
    BY <1>0, <2>1, DeclaredAre
  <2>3. PICK e \in j + 1 .. i - 1 : RoleAt(e) = "ends" /\ HeldAt(e) = j
    BY <2>2
  <2>4. e \in 1 .. Len(text) /\ e + 1 <= i
    BY <1>0, <2>2
  <2>5. PICK x \in known : OfDeclaration(scopes, x, e)
    BY <2>3, <2>4, SymbolsTell
  <2>6. x.at = j /\ x.visibleFrom = e + 1 /\ Homed(scopes, x)
    BY <2>3, <2>5 DEF OfDeclaration
  <2>7. x.scope \in DOMAIN scopes \ {Root} /\ scopes[x.scope].range = Span(b, EndOf(b))
    BY <2>1, <2>6 DEF Homed
  <2>8. x.scope \in Around(ranges, n, i)
    BY <1>1, <1>2, <2>7 DEF Around
  <2>9. OfBody(scopes, x, b)
    BY <1>3, <2>4, <2>5, <2>6, <2>7 DEF OfBody
  <2> QED BY <2>4, <2>6, <2>7, <2>8, <2>9
<1>4. ASSUME HeldAt(b) # 0
      PROVE  \E x \in known : /\ x.at = HeldAt(b) /\ OfHead(scopes, x, b)
                              /\ x.scope \in Around(ranges, n, i) \ {Root} /\ x.visibleFrom <= i
  <2>1. RoleAt(b) \in {"function", "loop"}
    BY <1>1, <1>4, HeadsHold
  <2>2. PICK x \in known : OfHead(scopes, x, b)
    BY <1>1, <2>1, SymbolsTell
  <2>3. /\ x.at = HeldAt(b) /\ x.visibleFrom = b /\ x.scope \in DOMAIN scopes \ {Root}
        /\ scopes[x.scope].range = Span(StatementStart(b), EndOf(b))
    BY <2>2 DEF OfHead
  <2>4. x.visibleFrom <= i
    BY <1>0, <1>1, <2>3
  <2>5. Holds(scopes[x.scope].range, i)
    <3>1. PICK r, s : r = scopes[x.scope].range /\ s = StatementStart(b)
      OBVIOUS
    <3>2. r.start = s /\ r.end = Span(b, EndOf(b)).end
      BY <2>3, <3>1 DEF Span
    <3>3. s \in Nat /\ s <= b
      <4>1. s \in 1 .. b
        BY <1>0, <1>1, <3>1, StatementsBegin
      <4> QED BY <1>1, <4>1
    <3>4. s <= i /\ i < r.end
      <4>1. i < r.end
        BY <1>1, <3>2 DEF Holds
      <4> QED BY <1>0, <1>1, <3>3, <4>1
    <3> QED BY <3>1, <3>2, <3>4 DEF Holds
  <2>6. x.scope \in Around(ranges, n, i)
    BY <1>2, <2>3, <2>5 DEF Around
  <2> QED BY <2>2, <2>3, <2>4, <2>6
<1> QED BY <1>3, <1>4

-----------------------------------------------------------------------------
(* Lookup among the declarations of the blocks around a use *)

(* Declarations that end later are of names that come later. *)
LEMMA EndsInOrder ==
  ASSUME Whole, NEW d \in 1 .. Len(text), NEW e \in 1 .. Len(text), RoleAt(d) = "ends", RoleAt(e) = "ends",
         d <= e
  PROVE  HeldAt(d) <= HeldAt(e)
<1>1. d \in Nat /\ e \in Nat \ {0} /\ KindAt(d) = "semicolon"
  BY WholeTexts DEF Whole, EndsDeclare
<1>2. CASE d = e
  <2>1. HeldAt(d) \in Nat
    BY <1>1, <1>2, WholeTexts, HeldIs
  <2> QED BY <1>2, <2>1
<1>3. CASE d < e
  <2>1. HeldAt(d) \in 1 .. Len(text) /\ HeldAt(d) < d
    BY EndsAreDeclarations
  <2>2. HeldAt(e) \in 1 .. Len(text) /\ StatementStart(e) <= HeldAt(e)
    BY EndsAreDeclarations
  <2>3. d < StatementStart(e) /\ StatementStart(e) \in Nat
    <3>1. d \in 1 .. e - 1 /\ KindAt(d) \in Boundaries
      BY <1>1, <1>3 DEF Boundaries
    <3>2. StatementStart(e) \in 1 .. e /\ d < StatementStart(e)
      BY <1>1, <3>1, WholeTexts, StatementsBegin
    <3> QED BY <1>1, <3>2
  <2>4. HeldAt(d) \in Nat /\ HeldAt(e) \in Nat
    BY <2>1, <2>2, WholeTexts
  <2> QED BY <1>1, <2>1, <2>2, <2>3, <2>4
<1> QED BY <1>1, <1>2, <1>3

(* A name at token i is looked up; block is the program block around it. *)
Looking(scopes, ranges, n, symbols, i, block, offered) ==
  /\ Whole /\ Built(scopes, ranges, n) /\ ScopesOK(scopes) /\ symbols = AddSymbols(scopes)
  /\ i \in 1 .. Len(text) /\ KindAt(i) # "leftBrace" /\ BlockIs(scopes, ranges, n, i, block)
  /\ offered = Offered(symbols, scopes, ranges, n, NamesOf, i, block)

(* The name is offered any symbol of the name that is in force, but for the  *)
(* root's, which must be visible from the block too.                         *)
LEMMA OffersAre ==
  ASSUME NEW scopes, NEW ranges, NEW n, NEW symbols, NEW i, NEW block, NEW offered,
         Looking(scopes, ranges, n, symbols, i, block, offered)
  PROVE  /\ symbols \in Seq(GoodSymbols(scopes)) /\ offered \subseteq DOMAIN symbols
         /\ DOMAIN symbols \subseteq Nat
         /\ \A k \in DOMAIN symbols : /\ symbols[k] \in Range(symbols) /\ Told(scopes, symbols[k])
                                      /\ symbols[k].at \in 1 .. Len(text)
         /\ \A x \in Range(symbols) : \E k \in DOMAIN symbols : symbols[k] = x
         /\ \A k \in offered : text[symbols[k].at].name = text[i].name /\ symbols[k].visibleFrom <= i
         /\ \A k \in DOMAIN symbols :
              /\ text[symbols[k].at].name = text[i].name
              /\ symbols[k].visibleFrom <= i
              /\ \/ symbols[k].kind = "function"
                 \/ symbols[k].scope # Root
                 \/ /\ \A m \in Around(ranges, n, i) : scopes[m].kind # "function"
                    /\ ProgramSymbolVisible(symbols[k].kind, block)
              <=> k \in offered
<1>0. /\ Whole /\ Built(scopes, ranges, n) /\ ScopesOK(scopes) /\ symbols = AddSymbols(scopes)
      /\ i \in 1 .. Len(text)
      /\ offered = Offered(symbols, scopes, ranges, n, NamesOf, i, block)
  BY DEF Looking
<1>1. DelimiterTypeOK /\ PairsNest /\ DOMAIN text = 1 .. Len(text)
  BY <1>0, WholeTexts
<1>2. symbols \in Seq(GoodSymbols(scopes))
  BY <1>0, <1>1, SymbolsAreAdded
<1>3. DOMAIN symbols \subseteq Nat /\ \A k \in DOMAIN symbols : symbols[k] \in GoodSymbols(scopes)
  BY <1>2
<1>4. \A k \in DOMAIN symbols : symbols[k].at \in 1 .. Len(text)
  BY <1>3 DEF GoodSymbols
<1>5. /\ \A k \in DOMAIN symbols : symbols[k] \in Range(symbols)
      /\ \A x \in Range(symbols) : \E k \in DOMAIN symbols : symbols[k] = x
  BY DEF Range
<1>6. \A x \in Range(symbols) : Told(scopes, x)
  BY <1>0, SymbolsTell
<1>7. \A j \in 1 .. Len(text) : NamesOf[j] = text[j].name
  BY <1>1 DEF NamesOf
<1>8. offered \subseteq DOMAIN symbols
  BY <1>0 DEF Offered
<1>9. ASSUME NEW k \in DOMAIN symbols
      PROVE  /\ text[symbols[k].at].name = text[i].name
             /\ symbols[k].visibleFrom <= i
             /\ \/ symbols[k].kind = "function"
                \/ symbols[k].scope # Root
                \/ /\ \A m \in Around(ranges, n, i) : scopes[m].kind # "function"
                   /\ ProgramSymbolVisible(symbols[k].kind, block)
             <=> k \in offered
  <2>1. NamesOf[symbols[k].at] = text[symbols[k].at].name /\ NamesOf[i] = text[i].name
    BY <1>0, <1>4, <1>7
  <2> QED BY <1>0, <2>1 DEF Offered
<1>10. \A k \in offered : text[symbols[k].at].name = text[i].name /\ symbols[k].visibleFrom <= i
  BY <1>8, <1>9
<1> QED BY <1>2, <1>3, <1>4, <1>5, <1>6, <1>8, <1>9, <1>10

(* Where a scope inside the root offers a symbol, it is near. *)
LEMMA OffersAreNear ==
  ASSUME NEW scopes, NEW ranges, NEW n, NEW symbols, NEW i, NEW block, NEW offered,
         Looking(scopes, ranges, n, symbols, i, block, offered), NEW name, text[i].name = name,
         NEW m \in Around(ranges, n, i), m # Root, NEW k \in OfferedIn(symbols, offered, m)
  PROVE  \E b \in Nearby(i, name) :
           /\ m \in 2 .. n /\ Belongs(ranges[m], b) /\ symbols[k].at \in InFrame(b, i, name)
           /\ \/ OfBody(scopes, symbols[k], b) /\ symbols[k].at \in Declared(i) /\ ranges[m] = Span(b, EndOf(b))
              \/ OfHead(scopes, symbols[k], b) /\ ranges[m] = Span(StatementStart(b), EndOf(b))
<1>0. /\ Whole /\ Built(scopes, ranges, n) /\ i \in 1 .. Len(text) /\ KindAt(i) # "leftBrace"
  BY DEF Looking
<1>1. k \in offered /\ symbols[k].scope = m
  BY DEF OfferedIn
<1>2. /\ Told(scopes, symbols[k]) /\ symbols[k].visibleFrom <= i /\ text[symbols[k].at].name = name
  BY <1>1, OffersAre
<1>3. PICK b \in Braces(i) :
           /\ symbols[k].at \in InFrame(b, i, name)
           /\ \/ OfBody(scopes, symbols[k], b) /\ symbols[k].at \in Declared(i)
              \/ OfHead(scopes, symbols[k], b)
  BY <1>0, <1>1, <1>2, ScopesOffer
<1>4. b \in Nearby(i, name)
  BY <1>3 DEF Nearby
<1>5. scopes[m].range = ranges[m] /\ m \in 2 .. n
  <2>1. m \in 1 .. n /\ n \in Nat
    BY <1>0 DEF Around, Built
  <2>2. m \in 2 .. n
    BY <2>1 DEF Root
  <2> QED BY <1>0, <2>1, <2>2 DEF Built
<1>6. CASE OfBody(scopes, symbols[k], b) /\ symbols[k].at \in Declared(i)
  <2>1. ranges[m] = Span(b, EndOf(b))
    BY <1>1, <1>5, <1>6 DEF OfBody
  <2> QED BY <1>3, <1>4, <1>5, <1>6, <2>1 DEF Belongs
<1>7. CASE OfHead(scopes, symbols[k], b)
  <2>1. ranges[m] = Span(StatementStart(b), EndOf(b))
    BY <1>1, <1>5, <1>7 DEF OfHead
  <2> QED BY <1>3, <1>4, <1>5, <1>7, <2>1 DEF Belongs
<1> QED BY <1>3, <1>6, <1>7

(* The innermost frame that has the name *)
LEMMA NearestIs ==
  ASSUME Whole, NEW i \in 1 .. Len(text), NEW name, Nearby(i, name) # {}
  PROVE  \E b \in Nearby(i, name) :
           /\ \A c \in Nearby(i, name) : c <= b
           /\ b \in Braces(i) /\ b \in 1 .. Len(text) /\ KindAt(b) = "leftBrace" /\ b \in Nat \ {0}
           /\ MeantBy(i, name) = Max({0} \cup InFrame(b, i, name))
           /\ InFrame(b, i, name) # {} /\ InFrame(b, i, name) \in SUBSET Nat
<1>0. i \in Nat /\ text \in Seq(Token) /\ EndsDeclare /\ i \in 1 .. Len(text) + 1
  BY WholeTexts DEF Whole
<1>1. \A b \in Braces(i) : b \in 1 .. Len(text) /\ KindAt(b) = "leftBrace" /\ b \in 1 .. i - 1
  BY <1>0, BracesAreBehind
<1>2. \A b \in Braces(i) : b \in Nat \ {0} /\ b <= i
  BY <1>0, <1>1
<1>3. Nearby(i, name) \subseteq Braces(i)
  BY DEF Nearby
<1>4. Nearby(i, name) \in SUBSET Nat
  BY <1>2, <1>3
<1>5. PICK b \in Nearby(i, name) : \A c \in Nearby(i, name) : b >= c
  BY <1>0, <1>2, <1>3, <1>4, GreatestExists
<1>6. \A c \in Nearby(i, name) : c <= b
  BY <1>4, <1>5
<1>7. MeantBy(i, name) = Max({0} \cup InFrame(b, i, name))
  BY <1>4, <1>6, MeantIs
<1>8. InFrame(b, i, name) \in SUBSET Nat
  BY <1>0, <1>3, FramesAreInText
<1>9. InFrame(b, i, name) # {}
  BY DEF Nearby
<1> QED BY <1>1, <1>2, <1>3, <1>6, <1>7, <1>8, <1>9

(* The innermost scope that offers symbols hands out the latest. *)
LEMMA LatestIsFound ==
  ASSUME NEW scopes, NEW ranges, NEW n, NEW symbols, NEW i, NEW block, NEW offered,
         Looking(scopes, ranges, n, symbols, i, block, offered),
         NEW r, r = ResolveName(symbols, scopes, NamesOf, i), NEW k \in Around(ranges, n, i),
         OfferedIn(symbols, offered, k) # {},
         \A m \in Around(ranges, n, i) : m > k => OfferedIn(symbols, offered, m) = {}
  PROVE  /\ r \in OfferedIn(symbols, offered, k) /\ r \in offered /\ symbols[r].scope = k
         /\ r \in DOMAIN symbols
         /\ \A m \in OfferedIn(symbols, offered, k) \ {r} : LaterOf(symbols, r, m)
<1>1. /\ Whole /\ Built(scopes, ranges, n) /\ ScopesOK(scopes) /\ i \in 1 .. Len(text)
      /\ BlockIs(scopes, ranges, n, i, block)
      /\ offered = Offered(symbols, scopes, ranges, n, NamesOf, i, block)
  BY DEF Looking
<1>2. symbols \in Seq(GoodSymbols(scopes)) /\ offered \subseteq DOMAIN symbols
  BY OffersAre
<1>3. PICK names, around : names = NamesOf /\ around = Around(ranges, n, i)
  OBVIOUS
<1>4. /\ r \in OfferedIn(symbols, offered, k)
      /\ \A m \in OfferedIn(symbols, offered, k) \ {r} : LaterOf(symbols, r, m)
  BY <1>1, <1>2, <1>3, ResolveIs
<1> QED BY <1>2, <1>4 DEF OfferedIn

(* The nearest frame that has the name declares it within: its latest. *)
LEMMA BodiesResolve ==
  ASSUME NEW scopes, NEW ranges, NEW n, NEW symbols, NEW i, NEW block, NEW offered,
         Looking(scopes, ranges, n, symbols, i, block, offered),
         NEW r, r = ResolveName(symbols, scopes, NamesOf, i), NEW name, text[i].name = name,
         NEW b \in Nearby(i, name), \A c \in Nearby(i, name) : c <= b,
         NEW J, J = {j \in Declared(i) : FrameOf(j) = b /\ text[j].name = name}, J # {}
  PROVE  r \in DOMAIN symbols /\ symbols[r].at = Max({0} \cup InFrame(b, i, name))
<1>0. /\ Whole /\ Built(scopes, ranges, n) /\ ScopesOK(scopes) /\ i \in 1 .. Len(text)
      /\ KindAt(i) # "leftBrace" /\ symbols = AddSymbols(scopes)
      /\ text \in Seq(Token) /\ EndsDeclare /\ i \in 1 .. Len(text) + 1 /\ Len(text) \in Nat
  BY WholeTexts DEF Looking, Whole
<1>1. /\ b \in Braces(i) /\ b \in 1 .. Len(text) /\ KindAt(b) = "leftBrace" /\ b \in Nat \ {0}
      /\ InFrame(b, i, name) \in SUBSET Nat
      /\ \A c \in Nearby(i, name) : c \in Braces(i) /\ c \in Nat /\ c \in 1 .. Len(text) /\ KindAt(c) = "leftBrace"
  <2>1. Nearby(i, name) \subseteq Braces(i)
    BY DEF Nearby
  <2>2. \A c \in Braces(i) : c \in 1 .. Len(text) /\ KindAt(c) = "leftBrace"
    BY <1>0, BracesAreBehind
  <2>3. \A c \in 1 .. Len(text) : c \in Nat \ {0}
    BY <1>0
  <2>4. InFrame(b, i, name) \in SUBSET Nat
    BY <1>0, <2>1, FramesAreInText
  <2> QED BY <2>1, <2>2, <2>3, <2>4
<1>2. PICK j0 \in J : TRUE
  OBVIOUS
<1>3. PICK around : around = Around(ranges, n, i)
  OBVIOUS
<1>4. around \in SUBSET Nat /\ \A m \in around : m \in 1 .. n /\ scopes[m].range = ranges[m]
  BY <1>0, <1>3 DEF Around, Built
<1>5. /\ n \in Nat /\ \A k, m \in 1 .. n : ranges[k] = ranges[m] => k = m
  BY <1>0 DEF Built
<1>6. ASSUME NEW j \in J
      PROVE  \E m \in DOMAIN symbols :
               /\ symbols[m].at = j /\ m \in offered /\ symbols[m].scope \in around \ {Root}
               /\ ranges[symbols[m].scope] = Span(b, EndOf(b))
               /\ \E e \in 1 .. Len(text) : OfDeclaration(scopes, symbols[m], e)
  <2>1. PICK x \in Range(symbols) : /\ x.at = j /\ OfBody(scopes, x, b)
                                    /\ x.scope \in around \ {Root} /\ x.visibleFrom <= i
    BY <1>0, <1>1, <1>3, FramesOffer
  <2>2. PICK m \in DOMAIN symbols : symbols[m] = x
    BY OffersAre
  <2>3. m \in offered
    BY <2>1, <2>2, OffersAre
  <2>4. /\ scopes[x.scope].range = Span(b, EndOf(b))
        /\ \E e \in 1 .. Len(text) : OfDeclaration(scopes, x, e)
    BY <2>1 DEF OfBody
  <2> QED BY <1>4, <2>1, <2>2, <2>3, <2>4
<1>7. PICK m0 \in DOMAIN symbols :
               /\ symbols[m0].at = j0 /\ m0 \in offered /\ symbols[m0].scope \in around \ {Root}
               /\ ranges[symbols[m0].scope] = Span(b, EndOf(b))
  BY <1>2, <1>6
<1>8. PICK k : k = symbols[m0].scope
  OBVIOUS
<1>9. /\ k \in around /\ k # Root /\ k \in 2 .. n /\ k \in Nat /\ ranges[k] = Span(b, EndOf(b))
      /\ OfferedIn(symbols, offered, k) # {}
  <2>1. m0 \in OfferedIn(symbols, offered, k)
    BY <1>7, <1>8 DEF OfferedIn
  <2>2. k \in 1 .. n /\ k # 1 /\ k \in around /\ ranges[k] = Span(b, EndOf(b))
    BY <1>4, <1>7, <1>8 DEF Root
  <2> QED BY <1>5, <2>1, <2>2 DEF Root
<1>10. ASSUME NEW m \in around, m > k, OfferedIn(symbols, offered, m) # {} PROVE FALSE
  <2>1. m # Root /\ m \in Nat
    BY <1>4, <1>9, <1>10 DEF Root
  <2>2. PICK q \in OfferedIn(symbols, offered, m) : TRUE
    BY <1>10
  <2>3. PICK c \in Nearby(i, name) :
           /\ m \in 2 .. n /\ Belongs(ranges[m], c)
           /\ \/ OfBody(scopes, symbols[q], c) /\ ranges[m] = Span(c, EndOf(c))
              \/ OfHead(scopes, symbols[q], c) /\ ranges[m] = Span(StatementStart(c), EndOf(c))
    BY <1>3, <2>1, OffersAreNear
  <2>4. CASE c < b
    <3>1. Belongs(ranges[k], b)
      BY <1>9 DEF Belongs
    <3>2. m < k
      BY <1>0, <1>1, <1>9, <2>3, <2>4, <3>1, ScopesInOrder
    <3> QED BY <1>9, <1>10, <2>1, <3>2
  <2>5. CASE c = b
    <3>1. CASE ranges[m] = Span(c, EndOf(c))
      <4>1. m = k
        BY <1>4, <1>5, <1>9, <2>5, <3>1
      <4> QED BY <1>9, <1>10, <4>1
    <3>2. CASE OfHead(scopes, symbols[q], c) /\ ranges[m] = Span(StatementStart(c), EndOf(c))
      <4>1. RoleAt(b) \in {"function", "loop"}
        BY <2>5, <3>2 DEF OfHead
      <4>2. m < k
        BY <1>0, <1>1, <1>9, <2>3, <2>5, <3>2, <4>1, HeadsComeFirst
      <4> QED BY <1>9, <1>10, <2>1, <4>2
    <3> QED BY <2>3, <3>1, <3>2
  <2> QED BY <1>1, <2>4, <2>5
<1>11. /\ r \in OfferedIn(symbols, offered, k) /\ r \in offered /\ symbols[r].scope = k
       /\ r \in DOMAIN symbols
       /\ \A m \in OfferedIn(symbols, offered, k) \ {r} : LaterOf(symbols, r, m)
  BY <1>3, <1>9, <1>10, LatestIsFound
<1>12. PICK d : d = symbols[r].at
  OBVIOUS
<1>13. /\ d \in J /\ d \in InFrame(b, i, name)
       /\ \E e \in 1 .. Len(text) : OfDeclaration(scopes, symbols[r], e)
  <2>1. PICK c \in Nearby(i, name) :
           /\ symbols[r].at \in InFrame(c, i, name)
           /\ \/ OfBody(scopes, symbols[r], c) /\ symbols[r].at \in Declared(i) /\ ranges[k] = Span(c, EndOf(c))
              \/ OfHead(scopes, symbols[r], c) /\ ranges[k] = Span(StatementStart(c), EndOf(c))
    BY <1>3, <1>9, <1>11, OffersAreNear
  <2>2. CASE OfHead(scopes, symbols[r], c) /\ ranges[k] = Span(StatementStart(c), EndOf(c))
    <3>1. RoleAt(c) \in {"function", "loop"}
      BY <2>2 DEF OfHead
    <3>2. Span(StatementStart(c), EndOf(c)) # Span(b, EndOf(b))
      BY <1>0, <1>1, <3>1, HeadsAreNoBodies
    <3> QED BY <1>9, <2>2, <3>2
  <2>3. CASE OfBody(scopes, symbols[r], c) /\ symbols[r].at \in Declared(i) /\ ranges[k] = Span(c, EndOf(c))
    <3>1. c = b
      <4>1. Span(c, EndOf(c)).start = c /\ Span(b, EndOf(b)).start = b
        BY DEF Span
      <4> QED BY <1>9, <2>3, <4>1
    <3>2. FrameOf(d) = b /\ \E e \in 1 .. Len(text) : OfDeclaration(scopes, symbols[r], e)
      BY <1>12, <2>3, <3>1 DEF OfBody
    <3>3. text[d].name = name
      BY <1>11, <1>12, OffersAre
    <3> QED BY <1>12, <2>1, <2>3, <3>1, <3>2, <3>3
  <2> QED BY <2>1, <2>2, <2>3
<1>14. d \in 1 .. Len(text) /\ d \in Nat /\ b < d
  <2>1. d \in 1 .. Len(text)
    BY <1>11, <1>12, OffersAre
  <2>2. FrameOf(d) = b
    BY <1>13
  <2>3. Innermost(d) = b
    BY <1>1, <2>2 DEF FrameOf
  <2>4. d \in Nat \ {0}
    BY <1>0, <2>1
  <2>5. Innermost(d) \in Braces(d)
    BY <1>0, <1>1, <2>3, <2>4, InnermostIs
  <2>6. b \in 1 .. d - 1
    BY <1>0, <2>3, <2>5, BracesAreBehind
  <2> QED BY <1>1, <2>1, <2>4, <2>6
<1>15. ASSUME NEW j \in J PROVE j <= d
  <2>1. PICK m \in DOMAIN symbols :
               /\ symbols[m].at = j /\ m \in offered /\ symbols[m].scope \in around \ {Root}
               /\ ranges[symbols[m].scope] = Span(b, EndOf(b))
               /\ \E e \in 1 .. Len(text) : OfDeclaration(scopes, symbols[m], e)
    BY <1>6
  <2>2. symbols[m].scope = k
    BY <1>4, <1>5, <1>9, <2>1
  <2>3. m \in OfferedIn(symbols, offered, k)
    BY <2>1, <2>2 DEF OfferedIn
  <2>4. CASE m = r
    BY <1>12, <1>14, <2>1, <2>4
  <2>5. CASE m # r
    <3>1. LaterOf(symbols, r, m)
      BY <1>11, <2>3, <2>5
    <3>2. PICK e \in 1 .. Len(text) : OfDeclaration(scopes, symbols[r], e)
      BY <1>13
    <3>3. PICK f \in 1 .. Len(text) : OfDeclaration(scopes, symbols[m], f)
      BY <2>1
    <3>4. /\ RoleAt(e) = "ends" /\ d = HeldAt(e) /\ symbols[r].visibleFrom = e + 1
          /\ RoleAt(f) = "ends" /\ j = HeldAt(f) /\ symbols[m].visibleFrom = f + 1
      BY <1>12, <2>1, <3>2, <3>3 DEF OfDeclaration
    <3>5. e \in Nat /\ f \in Nat
      BY <1>0
    <3>6. f <= e
      BY <3>1, <3>4, <3>5 DEF LaterOf
    <3> QED BY <1>0, <3>4, <3>6, EndsInOrder
  <2> QED BY <2>4, <2>5
<1>16. \A s \in {0} \cup InFrame(b, i, name) : s <= d
  <2>1. HeldAt(b) # 0 => HeldAt(b) \in 1 .. b - 1
    BY <1>0, <1>1, HeldIs
  <2>2. HeldAt(b) # 0 => HeldAt(b) <= d
    BY <1>1, <1>14, <2>1
  <2>3. \A s \in InFrame(b, i, name) : s \in J \/ (s = HeldAt(b) /\ HeldAt(b) # 0)
    BY DEF InFrame
  <2> QED BY <1>14, <1>15, <2>2, <2>3
<1>17. Max({0} \cup InFrame(b, i, name)) = d
  <2> DEFINE S == {0} \cup InFrame(b, i, name)
  <2>1. S \in SUBSET Nat /\ d \in S
    BY <1>1, <1>13
  <2> HIDE DEF S
  <2>2. \A s \in S : s <= d
    BY <1>16 DEF S
  <2> QED BY <2>1, <2>2, MaxIs DEF S
<1> QED BY <1>11, <1>12, <1>17

(* The nearest frame that has the name has it in its head. *)
LEMMA HeadsResolve ==
  ASSUME NEW scopes, NEW ranges, NEW n, NEW symbols, NEW i, NEW block, NEW offered,
         Looking(scopes, ranges, n, symbols, i, block, offered),
         NEW r, r = ResolveName(symbols, scopes, NamesOf, i), NEW name, text[i].name = name,
         NEW b \in Nearby(i, name), \A c \in Nearby(i, name) : c <= b,
         {j \in Declared(i) : FrameOf(j) = b /\ text[j].name = name} = {}
  PROVE  r \in DOMAIN symbols /\ symbols[r].at = Max({0} \cup InFrame(b, i, name))
<1>0. /\ Whole /\ Built(scopes, ranges, n) /\ ScopesOK(scopes) /\ i \in 1 .. Len(text)
      /\ KindAt(i) # "leftBrace" /\ symbols = AddSymbols(scopes)
      /\ text \in Seq(Token) /\ EndsDeclare /\ i \in 1 .. Len(text) + 1 /\ Len(text) \in Nat
  BY WholeTexts DEF Looking, Whole
<1>1. /\ b \in Braces(i) /\ b \in 1 .. Len(text) /\ KindAt(b) = "leftBrace" /\ b \in Nat \ {0}
      /\ \A c \in Nearby(i, name) : c \in Braces(i) /\ c \in Nat /\ c \in 1 .. Len(text) /\ KindAt(c) = "leftBrace"
  <2>1. Nearby(i, name) \subseteq Braces(i)
    BY DEF Nearby
  <2>2. \A c \in Braces(i) : c \in 1 .. Len(text) /\ KindAt(c) = "leftBrace"
    BY <1>0, BracesAreBehind
  <2>3. \A c \in 1 .. Len(text) : c \in Nat \ {0}
    BY <1>0
  <2> QED BY <2>1, <2>2, <2>3
<1>2. /\ InFrame(b, i, name) = {HeldAt(b)} /\ HeldAt(b) # 0 /\ text[HeldAt(b)].name = name
  <2>1. InFrame(b, i, name) # {}
    BY DEF Nearby
  <2>2. \A s \in InFrame(b, i, name) : s = HeldAt(b) /\ HeldAt(b) # 0 /\ text[s].name = name
    BY DEF InFrame
  <2> QED BY <2>1, <2>2
<1>3. PICK around : around = Around(ranges, n, i)
  OBVIOUS
<1>4. around \in SUBSET Nat /\ \A m \in around : m \in 1 .. n /\ scopes[m].range = ranges[m]
  BY <1>0, <1>3 DEF Around, Built
<1>5. /\ n \in Nat /\ \A k, m \in 1 .. n : ranges[k] = ranges[m] => k = m
  BY <1>0 DEF Built
<1>6. PICK x \in Range(symbols) : /\ x.at = HeldAt(b) /\ OfHead(scopes, x, b)
                                  /\ x.scope \in around \ {Root} /\ x.visibleFrom <= i
  BY <1>0, <1>1, <1>2, <1>3, FramesOffer
<1>7. PICK m0 \in DOMAIN symbols : symbols[m0] = x
  BY OffersAre
<1>8. PICK k : k = x.scope
  OBVIOUS
<1>9. /\ k \in around /\ k # Root /\ k \in 2 .. n /\ k \in Nat
      /\ ranges[k] = Span(StatementStart(b), EndOf(b)) /\ RoleAt(b) \in {"function", "loop"}
      /\ OfferedIn(symbols, offered, k) # {}
  <2>1. m0 \in offered
    BY <1>2, <1>6, <1>7, OffersAre
  <2>2. m0 \in OfferedIn(symbols, offered, k)
    BY <1>7, <1>8, <2>1 DEF OfferedIn
  <2>3. /\ RoleAt(b) \in {"function", "loop"}
        /\ scopes[k].range = Span(StatementStart(b), EndOf(b))
    BY <1>6, <1>8 DEF OfHead
  <2>4. k \in 1 .. n /\ k # 1 /\ k \in around /\ ranges[k] = Span(StatementStart(b), EndOf(b))
    BY <1>4, <1>6, <1>8, <2>3 DEF Root
  <2> QED BY <1>5, <2>2, <2>3, <2>4 DEF Root
<1>10. ASSUME NEW m \in around, m # Root, NEW q \in OfferedIn(symbols, offered, m), m >= k
       PROVE  m = k /\ symbols[q].at = HeldAt(b)
  <2>1. m \in Nat
    BY <1>4
  <2>2. PICK c \in Nearby(i, name) :
           /\ m \in 2 .. n /\ Belongs(ranges[m], c) /\ symbols[q].at \in InFrame(c, i, name)
           /\ \/ OfBody(scopes, symbols[q], c) /\ symbols[q].at \in Declared(i) /\ ranges[m] = Span(c, EndOf(c))
              \/ OfHead(scopes, symbols[q], c) /\ ranges[m] = Span(StatementStart(c), EndOf(c))
    BY <1>3, <1>10, OffersAreNear
  <2>3. c = b
    <3>1. CASE c < b
      <4>1. Belongs(ranges[k], b)
        BY <1>9 DEF Belongs
      <4>2. m < k
        BY <1>0, <1>1, <1>9, <2>2, <3>1, <4>1, ScopesInOrder
      <4> QED BY <1>9, <1>10, <2>1, <4>2
    <3>2. c <= b /\ c \in Nat /\ b \in Nat
      BY <1>1
    <3> QED BY <3>1, <3>2
  <2>4. symbols[q].at = HeldAt(b)
    BY <1>2, <2>2, <2>3
  <2>5. CASE OfBody(scopes, symbols[q], c) /\ symbols[q].at \in Declared(i)
    <3>1. FrameOf(symbols[q].at) = b
      BY <2>3, <2>5 DEF OfBody
    <3> QED BY <1>2, <2>4, <2>5, <3>1
  <2>6. CASE ranges[m] = Span(StatementStart(c), EndOf(c))
    <3>1. m = k
      BY <1>4, <1>5, <1>9, <2>3, <2>6
    <3> QED BY <2>4, <3>1
  <2> QED BY <2>2, <2>5, <2>6
<1>11. ASSUME NEW m \in around, m > k PROVE OfferedIn(symbols, offered, m) = {}
  <2>1. m \in Nat /\ m >= k /\ m # k /\ m # Root
    BY <1>4, <1>9, <1>11 DEF Root
  <2> QED BY <1>10, <2>1
<1>12. /\ r \in OfferedIn(symbols, offered, k) /\ r \in DOMAIN symbols
  BY <1>3, <1>9, <1>11, LatestIsFound
<1>13. symbols[r].at = HeldAt(b)
  BY <1>9, <1>10, <1>12
<1>14. HeldAt(b) \in Nat
  <2>1. HeldAt(b) # 0 => HeldAt(b) \in 1 .. b - 1
    BY <1>0, <1>1, HeldIs
  <2> QED BY <1>1, <1>2, <2>1
<1>15. Max({0} \cup InFrame(b, i, name)) = HeldAt(b)
  <2> DEFINE S == {0} \cup InFrame(b, i, name)
  <2>1. S \in SUBSET Nat /\ HeldAt(b) \in S /\ \A s \in S : s <= HeldAt(b)
    BY <1>2, <1>14
  <2> HIDE DEF S
  <2> QED BY <2>1, MaxIs DEF S
<1> QED BY <1>12, <1>13, <1>15

-----------------------------------------------------------------------------
(* The program block and the function around a use *)

(* What is open at a brace that is open at a token is open there too. *)
LEMMA OpenBeforeOpen ==
  ASSUME Whole, NEW i \in 1 .. Len(text), NEW c \in Braces(i), NEW d \in Braces(c)
  PROVE  d \in Braces(i)
<1>0. text \in Seq(Token) /\ Len(text) \in Nat /\ DelimiterTypeOK /\ PairsNest /\ i \in Nat
  BY WholeTexts
<1>1. /\ c \in 1 .. Len(text) /\ c \in 1 .. i - 1 /\ KindAt(c) = "leftBrace"
      /\ c \in DOMAIN pairs => i <= pairs[c]
      /\ d \in 1 .. Len(text) /\ d \in 1 .. c - 1 /\ KindAt(d) = "leftBrace"
      /\ d \in DOMAIN pairs => c <= pairs[d]
  BY <1>0, BracesAreBehind
<1>2. /\ c \in DOMAIN pairs /\ pairs[c] \in 1 .. Len(text) /\ EndOf(c) = pairs[c]
      /\ d \in DOMAIN pairs /\ pairs[d] \in 1 .. Len(text) /\ EndOf(d) = pairs[d]
  BY <1>1, BracesAreClosed
<1>3. c \in Nat /\ d \in Nat /\ d < c /\ d \in 1 .. i - 1
  BY <1>0, <1>1
<1>4. EndOf(d) < c \/ (c <= EndOf(c) /\ EndOf(c) < EndOf(d))
  <2>1. KindAt(c) \in Openers
    BY <1>1 DEF Openers
  <2> QED BY <1>0, <1>1, <1>3, <2>1, OpenersNest
<1>5. pairs[c] \in Nat /\ pairs[d] \in Nat
  BY <1>0, <1>2
<1>6. i <= pairs[d]
  BY <1>0, <1>1, <1>2, <1>3, <1>4, <1>5
<1> QED BY <1>1, <1>3, <1>6 DEF Braces

(* The outermost brace around a token *)
LEMMA OutermostIs ==
  ASSUME Whole, NEW i \in 1 .. Len(text), Braces(i) # {}
  PROVE  \E b \in Braces(i) :
           /\ OutermostAt(i) = RoleAt(b) /\ b \in 1 .. Len(text) /\ KindAt(b) = "leftBrace" /\ Braces(b) = {}
           /\ \A c \in Braces(i) : Braces(c) = {} => c = b
<1>0. text \in Seq(Token) /\ Len(text) \in Nat /\ DelimiterTypeOK /\ PairsNest /\ i \in Nat
  BY WholeTexts
<1>1. /\ Braces(i) \in SUBSET Nat
      /\ \A b \in Braces(i) : /\ b \in 1 .. Len(text) /\ b \in 1 .. i - 1 /\ KindAt(b) = "leftBrace"
                              /\ b \in DOMAIN pairs => i <= pairs[b]
  BY <1>0, BracesAreBehind
<1>2. PICK b : b = Min(Braces(i))
  OBVIOUS
<1>3. b \in Braces(i) /\ \A c \in Braces(i) : b <= c
  BY <1>1, <1>2, MinIsLeast
<1>4. OutermostAt(i) = RoleAt(b)
  BY <1>2 DEF OutermostAt
<1>5. b \in 1 .. Len(text) /\ KindAt(b) = "leftBrace" /\ b \in Nat /\ b < i /\ b \in 1 .. i - 1
  BY <1>0, <1>1, <1>3
<1>6. ASSUME NEW a \in Braces(b) PROVE FALSE
  <2>1. a \in 1 .. b - 1
    BY <1>0, BracesAreBehind
  <2>2. a \in Nat /\ a < b
    BY <1>5, <2>1
  <2>3. a \in Braces(i)
    BY <1>3, OpenBeforeOpen
  <2>4. b <= a
    BY <1>3, <2>3
  <2> QED BY <1>5, <2>2, <2>4
<1>7. ASSUME NEW c \in Braces(i), Braces(c) = {}, c # b PROVE FALSE
  <2>1. b <= c /\ c \in Nat
    BY <1>1, <1>3
  <2>2. b < c
    BY <1>5, <1>7, <2>1
  <2>3. b \in Braces(c)
    BY <1>3, <2>2, BracesNest
  <2> QED BY <1>7, <2>3
<1> QED BY <1>3, <1>4, <1>5, <1>6, <1>7

(* What stands outside all braces is a block or a function. *)
LEMMA OutermostRoles ==
  ASSUME Whole, NEW b \in 1 .. Len(text), KindAt(b) = "leftBrace", Braces(b) = {}
  PROVE  RoleAt(b) \in BlockKinds \cup {"function"}
<1>0. text \in Seq(Token) /\ Len(text) \in Nat /\ DelimiterTypeOK /\ PairsNest /\ b \in Nat \ {0}
  BY WholeTexts
<1>1. PICK s : s = StatementStart(b)
  OBVIOUS
<1>2. PICK form \in HeaderForms \cup {FunctionForm, LoopForm, BlockForm} :
        FormedAt(form, s) /\ RoleAt(b) = form.roles[Len(form.kinds)]
  BY <1>1, BracesAreForms
<1>3. Stands(form, s)
  BY <1>2 DEF FormedAt
<1>4. OwnerAt(s) = OwnerAt(b)
  <2>1. s \in 1 .. b
    BY <1>0, <1>1, StatementsBegin
  <2>2. b \in 1 .. Len(text) + 1 /\ s \in s .. b
    BY <1>0, <2>1
  <2> QED BY <1>0, <1>1, <2>2, SameBraces
<1>5. OwnerAt(b) \in {"program", "functions"}
  <2>1. env[1].owner \in Files
    BY DEF Whole, AuthorInv
  <2> QED BY <2>1, AuthorAssumption DEF OwnerAt
<1>6. CASE form \in HeaderForms
  BY <1>2, <1>6, HeaderFormsAre
<1>7. CASE form = FunctionForm
  <2>1. Len(FunctionForm.kinds) = 7 /\ FunctionForm.roles[7] = "function"
    BY RolesAre, ShapesAre
  <2> QED BY <1>2, <1>7, <2>1
<1>8. CASE form \in {LoopForm, BlockForm}
  <2>1. form.kinds[Len(form.kinds)] = "leftBrace" /\ form \notin HeaderForms
    <3>1. /\ LoopForm.kinds[Len(LoopForm.kinds)] = "leftBrace" /\ LoopForm.kinds[1] = "for"
          /\ Len(BlockForm.kinds) = 1 /\ BlockForm.kinds[1] = "leftBrace" /\ BlockForm.roles[1] = "block"
          /\ Len(LoopForm.kinds) = 7
      BY RolesAre, ShapesAre
    <3>2. \A f \in HeaderForms : Len(f.kinds) \in {2, 3}
      BY HeaderFormsAre
    <3>3. 7 \notin {2, 3} /\ 1 \notin {2, 3}
      OBVIOUS
    <3> QED BY <1>8, <3>1, <3>2, <3>3
  <2>2. form # FunctionForm /\ form # CloseForm
    <3>1. LoopForm.kinds[1] = "for" /\ FunctionForm.kinds[1] = "type" /\ CloseForm.kinds[1] = "rightBrace"
          /\ BlockForm.kinds[1] = "leftBrace"
      BY RolesAre, ShapesAre
    <3> QED BY <1>8, <3>1
  <2>3. OwnerAt(s) \notin {"program", "functions"}
    BY <1>3, <2>1, <2>2 DEF Stands, Granted
  <2> QED BY <1>4, <1>5, <2>3
<1> QED BY <1>2, <1>6, <1>7, <1>8

(* The head of a function uses no name. *)
LEMMA FunctionRoles ==
  ASSUME NEW k \in 1 .. 7
  PROVE  FunctionForm.roles[k] # "use"
<1>1. k = 1 \/ k = 2 \/ k = 3 \/ k = 4 \/ k = 5 \/ k = 6 \/ k = 7
  OBVIOUS
<1> QED BY <1>1, RolesAre

(* A use stands in a block, function or loop body. *)
LEMMA UsesStand ==
  ASSUME Whole, NEW i \in 1 .. Len(text), RoleAt(i) = "use"
  PROVE  KindAt(i) = "identifier" /\ Braces(i) # {}
<1>0. text \in Seq(Token) /\ Len(text) \in Nat /\ DelimiterTypeOK /\ PairsNest /\ i \in Nat \ {0} /\ Suited(text)
  BY WholeTexts
<1>1. PICK s : s = StatementStart(i)
  OBVIOUS
<1>2. PICK form \in Forms : \E k \in 1 .. Len(form.kinds) : i = s + k - 1 /\ FormedAt(form, s)
  BY <1>0, <1>1, StatementsAreForms
<1>3. PICK k \in 1 .. Len(form.kinds) : i = s + k - 1 /\ FormedAt(form, s)
  BY <1>2
<1>4. form.roles[k] = "use" /\ form.kinds[k] = KindAt(i) /\ Stands(form, s)
  BY <1>3 DEF FormedAt
<1>5. KindAt(i) = "identifier"
  <2>1. PICK o, c, d : WellFormed(form, o, c, d)
    BY FormsAre
  <2> QED BY <1>3, <1>4, <2>1 DEF WellFormed
<1>6. form \notin HeaderForms
  <2> SUFFICES ASSUME form \in HeaderForms PROVE FALSE
    OBVIOUS
  <2>1. PICK n : n = Len(form.kinds)
    OBVIOUS
  <2>2. n \in {2, 3} /\ form.roles[n] \in BlockKinds /\ \A m \in 1 .. n - 1 : form.roles[m] = "none"
    BY <2>1, HeaderFormsAre
  <2>3. k \in 1 .. n
    BY <1>3, <2>1
  <2>4. k = n \/ k \in 1 .. n - 1
    BY <2>2, <2>3
  <2> QED BY <1>4, <2>2, <2>4, BlockKindsAre
<1>7. form # FunctionForm
  <2>1. Len(FunctionForm.kinds) = 7
    BY RolesAre, ShapesAre
  <2> QED BY <1>3, <1>4, <2>1, FunctionRoles
<1>8. form # CloseForm
  <2>1. Len(CloseForm.kinds) = 1 /\ CloseForm.kinds[1] = "rightBrace" /\ CloseForm.roles[1] = "leaves"
    BY RolesAre
  <2>2. form = CloseForm => k = 1
    <3>1. form = CloseForm => k \in 1 .. 1
      BY <1>3, <2>1
    <3> QED BY <3>1
  <2> QED BY <1>4, <2>1, <2>2
<1>9. OwnerAt(s) \notin {"program", "functions"}
  BY <1>4, <1>6, <1>7, <1>8 DEF Stands, Granted
<1>10. OwnerAt(s) = OwnerAt(i)
  <2>1. s \in 1 .. i
    BY <1>0, <1>1, StatementsBegin
  <2>2. i \in 1 .. Len(text) + 1 /\ s \in s .. i
    BY <1>0, <2>1
  <2> QED BY <1>0, <1>1, <2>2, SameBraces
<1>11. Braces(i) # {}
  <2>1. env[1].owner \in {"program", "functions"}
    <3>1. env[1].owner \in Files
      BY DEF Whole, AuthorInv
    <3> QED BY <3>1, AuthorAssumption
  <2> QED BY <1>9, <1>10, <2>1 DEF OwnerAt
<1> QED BY <1>5, <1>11

(* A scope around a use is a function's exactly when a function's brace is. *)
LEMMA FunctionsEnclose ==
  ASSUME Whole, NEW scopes, NEW ranges, NEW n, Built(scopes, ranges, n), ScopesOK(scopes),
         NEW i \in 1 .. Len(text), RoleAt(i) = "use"
  PROVE  (\A m \in Around(ranges, n, i) : scopes[m].kind # "function")
           <=> (\A b \in Braces(i) : RoleAt(b) # "function")
<1>0. /\ text \in Seq(Token) /\ Len(text) \in Nat /\ DelimiterTypeOK /\ PairsNest /\ i \in Nat
      /\ KindAt(i) = "identifier" /\ KindAt(i) # "leftBrace"
  BY UsesStand, WholeTexts
<1>1. ASSUME NEW m \in Around(ranges, n, i), scopes[m].kind = "function"
      PROVE  \E b \in Braces(i) : RoleAt(b) = "function"
  <2>1. m \in 1 .. n /\ n \in Nat /\ Holds(ranges[m], i)
    BY DEF Around, Built
  <2>2. m \in 2 .. n
    <3>1. m # 1
      BY <1>1 DEF Built
    <3> QED BY <2>1, <3>1
  <2>3. /\ ranges[m] \in ScopedRanges
        /\ scopes[m].kind = ScopeKind(ranges[m], ParentOf(ranges, m))
    BY <2>2 DEF Built
  <2>4. PICK f : f = ranges[m]
    OBVIOUS
  <2>5. f \in FunctionDeclarations
    <3>1. \/ ScopeKind(f, ParentOf(ranges, m)) = RequestedKind(f)
          \/ RequestedKind(f) = "block"
      BY DEF ScopeKind
    <3>2. CASE RequestedKind(f) = "block"
      <4>1. f \in CompoundStatements
        BY <3>2 DEF RequestedKind
      <4>2. PICK b \in 1 .. Len(text) : KindAt(b) = "leftBrace" /\ f = Span(b, EndOf(b))
        <5>1. DOMAIN text = 1 .. Len(text)
          BY WholeTexts
        <5> QED BY <4>1, <5>1 DEF CompoundStatements, Of
      <4>3. scopes[m].kind \in BlockKinds \cup {"block"}
        BY <2>2, <2>4, <4>2, KindsOfBlocks
      <4> QED BY <1>1, <4>3, BlockKindsAre
    <3>3. CASE ScopeKind(f, ParentOf(ranges, m)) = RequestedKind(f)
      <4>1. RequestedKind(f) = "function"
        BY <1>1, <2>3, <2>4, <3>3
      <4> QED BY <4>1 DEF RequestedKind
    <3> QED BY <3>1, <3>2, <3>3
  <2>6. PICK s : s = f.start
    OBVIOUS
  <2>7. FormedAt(FunctionForm, s) /\ f = Span(s, EndOf(s + 6))
    BY <2>5, <2>6, DeclaredFunctionsAreForms
  <2>8. PICK o : o = s + 6
    OBVIOUS
  <2>9. /\ s \in Nat /\ KindAt(o) = "leftBrace" /\ RoleAt(o) = "function"
    BY <1>0, <2>7, <2>8, FunctionHeads
  <2>10. f.start = s /\ f.end = EndOf(o) + 1
    BY <2>7, <2>8 DEF Span
  <2>11. s <= i /\ i < EndOf(o) + 1
    BY <2>1, <2>4, <2>10 DEF Holds
  <2>12. ~ (i <= s + 6)
    <3> SUFFICES ASSUME i <= s + 6 PROVE FALSE
      OBVIOUS
    <3>1. PICK k : k = i - s + 1
      OBVIOUS
    <3>2. k \in 1 .. 7 /\ s + k - 1 = i
      BY <1>0, <2>9, <2>11, <3>1
    <3>3. Len(FunctionForm.kinds) = 7
      BY RolesAre, ShapesAre
    <3>4. RoleAt(i) = FunctionForm.roles[k]
      BY <2>7, <3>2, <3>3 DEF FormedAt
    <3> QED BY <3>2, <3>4, FunctionRoles
  <2>13. Holds(Span(o, EndOf(o)), i)
    <3>1. Span(o, EndOf(o)).start = o /\ Span(o, EndOf(o)).end = EndOf(o) + 1
      BY DEF Span
    <3>2. o <= i
      BY <1>0, <2>8, <2>9, <2>12
    <3> QED BY <2>11, <3>1, <3>2 DEF Holds
  <2>14. o \in Braces(i)
    BY <1>0, <2>9, <2>13, BracesHold
  <2> QED BY <2>9, <2>14
<1>2. ASSUME NEW b \in Braces(i), RoleAt(b) = "function"
      PROVE  \E m \in Around(ranges, n, i) : scopes[m].kind = "function"
  <2>1. b \in 1 .. Len(text) /\ b \in 1 .. i - 1 /\ KindAt(b) = "leftBrace"
    BY <1>0, BracesAreBehind
  <2>2. PICK s : s = StatementStart(b)
    OBVIOUS
  <2>3. FormedAt(FunctionForm, s) /\ b = s + 6 /\ s \in Nat
    <3>1. FormedAt(FunctionForm, s) /\ b = s + 6
      BY <1>2, <2>1, <2>2, HeadsHold
    <3> QED BY <1>0, <3>1, FunctionHeads
  <2>4. PICK f : f = Span(s, EndOf(b))
    OBVIOUS
  <2>5. f \in FunctionDeclarations
    BY <2>3, <2>4, FunctionFormsAreDeclared
  <2>6. PICK m \in 2 .. n : ranges[m] = f
    BY <2>5 DEF Built, ScopedRanges
  <2>7. f.start = s /\ f.end = EndOf(b) + 1
    BY <2>4 DEF Span
  <2>8. Holds(f, i)
    <3>1. Holds(Span(b, EndOf(b)), i)
      BY <1>0, BracesHold
    <3>2. Span(b, EndOf(b)).start = b /\ Span(b, EndOf(b)).end = EndOf(b) + 1
      BY DEF Span
    <3>3. b <= i /\ i < EndOf(b) + 1
      BY <3>1, <3>2 DEF Holds
    <3>4. s <= i
      BY <1>0, <2>3, <3>3
    <3> QED BY <2>7, <3>3, <3>4 DEF Holds
  <2>9. m \in Around(ranges, n, i)
    <3>1. m \in 1 .. n
      BY <2>6 DEF Built
    <3> QED BY <2>6, <2>8, <3>1 DEF Around
  <2>10. scopes[m].kind = ScopeKind(f, ParentOf(ranges, m))
    BY <2>6 DEF Built
  <2>11. f \notin CompoundStatements
    <3> SUFFICES ASSUME f \in CompoundStatements PROVE FALSE
      OBVIOUS
    <3>1. PICK c : KindAt(c) = "leftBrace" /\ f = Span(c, EndOf(c))
      BY DEF CompoundStatements, Of
    <3> QED BY <1>2, <2>1, <2>2, <2>4, <3>1, HeadsAreNoBodies
  <2>12. RequestedKind(f) = "function"
    BY <2>5, <2>11 DEF RequestedKind
  <2> QED BY <2>9, <2>10, <2>12 DEF ScopeKind
<1>3. (\A m \in Around(ranges, n, i) : scopes[m].kind # "function")
        => (\A b \in Braces(i) : RoleAt(b) # "function")
  BY <1>2
<1>4. (\A b \in Braces(i) : RoleAt(b) # "function")
        => (\A m \in Around(ranges, n, i) : scopes[m].kind # "function")
  BY <1>1
<1> QED BY <1>3, <1>4

(* The program block a use is in by its outermost brace *)
BlockOf(i) == IF OutermostAt(i) \in BlockKinds THEN OutermostAt(i) ELSE "none"

(* The block that is looked from is that of the outermost brace. *)
LEMMA BlocksEnclose ==
  ASSUME Whole, NEW scopes, NEW ranges, NEW n, Built(scopes, ranges, n),
         NEW i \in 1 .. Len(text), RoleAt(i) = "use",
         NEW block, block = BlockOf(i)
  PROVE  BlockIs(scopes, ranges, n, i, block)
<1>0. /\ text \in Seq(Token) /\ Len(text) \in Nat /\ DOMAIN text = 1 .. Len(text)
      /\ KindAt(i) # "leftBrace" /\ Braces(i) # {}
  BY UsesStand, WholeTexts
<1>1. PICK b \in Braces(i) :
           /\ OutermostAt(i) = RoleAt(b) /\ b \in 1 .. Len(text) /\ KindAt(b) = "leftBrace" /\ Braces(b) = {}
           /\ \A c \in Braces(i) : Braces(c) = {} => c = b
  BY <1>0, OutermostIs
<1>2. /\ n \in Nat /\ \A k \in 2 .. n : k \in 1 .. n /\ ranges[k] \in ScopedRanges
      /\ scopes[1].kind \notin BlockKinds
  <2>1. n \in Nat /\ scopes[1].kind = "root" /\ \A k \in 2 .. n : ranges[k] \in ScopedRanges
    BY DEF Built
  <2> QED BY <2>1, BlockKindsAre
<1>3. ASSUME NEW k \in Around(ranges, n, i), scopes[k].kind \in BlockKinds
      PROVE  RoleAt(b) \in BlockKinds /\ scopes[k].kind = RoleAt(b)
  <2>1. k \in 2 .. n /\ Holds(ranges[k], i)
    <3>1. k \in 1 .. n /\ Holds(ranges[k], i)
      BY DEF Around
    <3>2. k # 1
      BY <1>2, <1>3
    <3> QED BY <1>2, <3>1, <3>2
  <2>2. scopes[k].kind = ScopeKind(ranges[k], ParentOf(ranges, k))
    BY <2>1 DEF Built
  <2>3. ranges[k] \in CompoundStatements
    <3> SUFFICES ASSUME ranges[k] \notin CompoundStatements PROVE FALSE
      OBVIOUS
    <3>1. RequestedKind(ranges[k]) \in {"function", "loop"}
      BY DEF RequestedKind
    <3>2. scopes[k].kind \in {"function", "loop"}
      BY <2>2, <3>1 DEF ScopeKind
    <3> QED BY <1>3, <3>2, BlockKindsAre
  <2>4. PICK c \in 1 .. Len(text) : KindAt(c) = "leftBrace" /\ ranges[k] = Span(c, EndOf(c))
    BY <1>0, <2>3 DEF CompoundStatements, Of
  <2>5. scopes[k].kind = IF RoleAt(c) \in BlockKinds THEN RoleAt(c) ELSE "block"
    BY <2>1, <2>4, KindsOfBlocks
  <2>6. RoleAt(c) \in BlockKinds
    BY <1>3, <2>5, BlockKindsAre
  <2>7. Braces(c) = {}
    BY <2>6, RolesAreBlocks
  <2>8. c \in Braces(i)
    BY <1>0, <2>1, <2>4, BracesHold
  <2>9. c = b
    BY <1>1, <2>7, <2>8
  <2> QED BY <2>5, <2>6, <2>9
<1>4. ASSUME RoleAt(b) \in BlockKinds
      PROVE  \E k \in Around(ranges, n, i) : scopes[k].kind \in BlockKinds
  <2>1. Span(b, EndOf(b)) \in ScopedRanges
    BY <1>0, <1>1 DEF CompoundStatements, ScopedRanges, Of
  <2>2. PICK k \in 2 .. n : ranges[k] = Span(b, EndOf(b))
    BY <2>1 DEF Built
  <2>3. scopes[k].kind \in BlockKinds
    BY <1>1, <1>4, <2>2, KindsOfBlocks
  <2>4. Holds(ranges[k], i)
    BY <1>0, <2>2, BracesHold
  <2>5. k \in Around(ranges, n, i)
    BY <1>2, <2>2, <2>4 DEF Around
  <2> QED BY <2>3, <2>5
<1>5. CASE RoleAt(b) \in BlockKinds
  <2>1. block = RoleAt(b)
    BY <1>1, <1>5 DEF BlockOf
  <2> QED BY <1>3, <1>4, <1>5, <2>1 DEF BlockIs
<1>6. CASE RoleAt(b) \notin BlockKinds
  <2>1. block = "none"
    BY <1>1, <1>6 DEF BlockOf
  <2> QED BY <1>3, <1>6, <2>1 DEF BlockIs
<1> QED BY <1>5, <1>6

(* A block sees the variables of the blocks that come before it in a program. *)
LEMMA RanksTell ==
  ASSUME NEW kind \in ProgramKinds, NEW block \in BlockKinds
  PROVE  ProgramSymbolVisible(kind, block) <=> Rank(kind) <= Rank(block)
<1>1. kind \in {"data", "parameters", "transformedData", "transformedParameters", "generatedQuantities"}
  BY BlockKindsAre DEF ProgramKinds
<1>2. block \in {"functions", "data", "parameters", "model", "transformedData",
                 "transformedParameters", "generatedQuantities"}
  BY BlockKindsAre
<1>3. /\ Rank("functions") = 0 /\ Rank("data") = 1 /\ Rank("transformedData") = 2
      /\ Rank("parameters") = 3 /\ Rank("transformedParameters") = 4 /\ Rank("model") = 5
      /\ Rank("generatedQuantities") = 6
  BY DEF Rank
<1>4. CASE kind = "data"
  <2>1. ProgramSymbolVisible(kind, block) <=> block \in BlockKinds \ {"functions"}
    BY <1>4 DEF ProgramSymbolVisible
  <2> QED BY <1>2, <1>3, <1>4, <2>1
<1>5. CASE kind = "transformedData"
  <2>1. ProgramSymbolVisible(kind, block) <=> block \in BlockKinds \ {"functions", "data"}
    BY <1>5 DEF ProgramSymbolVisible
  <2> QED BY <1>2, <1>3, <1>5, <2>1
<1>6. CASE kind = "parameters"
  <2>1. ProgramSymbolVisible(kind, block) <=> block \in BlockKinds \ {"functions", "data", "transformedData"}
    BY <1>6 DEF ProgramSymbolVisible
  <2> QED BY <1>2, <1>3, <1>6, <2>1
<1>7. CASE kind = "transformedParameters"
  <2>1. ProgramSymbolVisible(kind, block) <=>
          block \in {"transformedParameters", "model", "generatedQuantities"}
    BY <1>7 DEF ProgramSymbolVisible
  <2> QED BY <1>2, <1>3, <1>7, <2>1
<1>8. CASE kind = "generatedQuantities"
  <2>1. ProgramSymbolVisible(kind, block) <=> block \in {"generatedQuantities"}
    BY <1>8 DEF ProgramSymbolVisible
  <2> QED BY <1>2, <1>3, <1>8, <2>1
<1> QED BY <1>1, <1>4, <1>5, <1>6, <1>7, <1>8

-----------------------------------------------------------------------------
(* The symbols of functions are in the order of the text. *)

(* The symbols of s that are in N are in the order of the text. *)
Ascending(s, N) == \A k, m \in DOMAIN s : k < m /\ s[k] \in N /\ s[m] \in N => s[k].at <= s[m].at

(* What ascends may be put in front of what ascends from there. *)
LEMMA JoinedAscend ==
  ASSUME NEW G, NEW s \in Seq(G), NEW t \in Seq(G), NEW N, Ascending(s, N), Ascending(t, N),
         \A x \in Range(s) \cap N, y \in Range(t) \cap N : x.at <= y.at
  PROVE  Ascending(s \o t, N)
<1>1. PICK a, b, u : a = Len(s) /\ b = Len(t) /\ u = s \o t
  OBVIOUS
<1>2. /\ a \in Nat /\ b \in Nat /\ DOMAIN s = 1 .. a /\ DOMAIN t = 1 .. b
      /\ DOMAIN u = 1 .. a + b
      /\ \A k \in 1 .. a : u[k] = s[k]
      /\ \A k \in 1 .. a + b : k > a => u[k] = t[k - a]
  BY <1>1
<1>3. ASSUME NEW k \in DOMAIN u
      PROVE  \/ k <= a /\ k \in DOMAIN s /\ u[k] = s[k] /\ u[k] \in Range(s)
             \/ k > a /\ k - a \in DOMAIN t /\ u[k] = t[k - a] /\ u[k] \in Range(t)
  <2>1. k \in 1 .. a \/ (k > a /\ k - a \in 1 .. b /\ k \in 1 .. a + b)
    BY <1>2
  <2> QED BY <1>2, <2>1 DEF Range
<1>4. ASSUME NEW k \in DOMAIN u, NEW m \in DOMAIN u, k < m, u[k] \in N, u[m] \in N
      PROVE  u[k].at <= u[m].at
  <2>1. k \in Nat /\ m \in Nat
    BY <1>2
  <2>2. CASE k <= a /\ k \in DOMAIN s /\ u[k] = s[k] /\ m <= a /\ m \in DOMAIN s /\ u[m] = s[m]
    BY <1>4, <2>2 DEF Ascending
  <2>3. CASE k > a /\ k - a \in DOMAIN t /\ u[k] = t[k - a] /\ m > a /\ m - a \in DOMAIN t /\ u[m] = t[m - a]
    <3>1. k - a < m - a
      BY <1>2, <1>4, <2>1
    <3> QED BY <1>4, <2>3, <3>1 DEF Ascending
  <2>4. CASE u[k] \in Range(s) /\ u[m] \in Range(t)
    BY <1>4, <2>4
  <2>5. ~ (k > a /\ m <= a)
    BY <1>2, <1>4, <2>1
  <2> QED BY <1>3, <2>2, <2>3, <2>4, <2>5
<1> QED BY <1>1, <1>4 DEF Ascending

(* What ascends piece by piece ascends. *)
LEMMA FlattenedAscend ==
  ASSUME NEW G, NEW seqs \in Seq(Seq(G)), NEW N, \A i \in 1 .. Len(seqs) : Ascending(seqs[i], N),
         \A i, j \in 1 .. Len(seqs) : i < j =>
           \A x \in Range(seqs[i]) \cap N, y \in Range(seqs[j]) \cap N : x.at <= y.at
  PROVE  Ascending(FlattenSeq(seqs), N)
<1>0. PICK n : n = Len(seqs)
  OBVIOUS
<1>1. n \in Nat /\ \A i \in 1 .. n : seqs[i] \in Seq(G)
  BY <1>0
<1>2. CASE n = 0
  <2>1. seqs = <<>>
    <3>1. PICK X : X = Seq(G)
      OBVIOUS
    <3>2. seqs \in Seq(X) /\ Len(seqs) = 0
      BY <1>0, <1>2, <3>1
    <3> QED BY <3>2
  <2>2. FlattenSeq(seqs) = <<>>
    BY <2>1, Zenon DEF FlattenSeq
  <2>3. Ascending(<<>>, N)
    BY DEF Ascending
  <2> QED BY <2>2, <2>3, Zenon
<1>3. CASE n # 0
  <2>1. PICK flatten :
          /\ FlattenSeq(seqs) = flatten[n]
          /\ \A i \in 1 .. n :
               flatten[i] = IF i = 1 THEN seqs[i] ELSE flatten[i - 1] \o seqs[i]
    BY <1>0, <1>3, FlattenedInTurn
  <2> DEFINE Has(m) == /\ flatten[m] \in Seq(G) /\ Ascending(flatten[m], N)
                       /\ \A x \in Range(flatten[m]) : \E i \in 1 .. m : x \in Range(seqs[i])
             Bad == {m \in 1 .. n : ~ Has(m)}
  <2>2. Bad = {}
    <3> SUFFICES ASSUME Bad # {} PROVE FALSE
      OBVIOUS
    <3>1. Bad \in SUBSET Nat
      <4> HIDE DEF Has
      <4> QED BY <1>1
    <3>2. PICK m \in Bad : \A k \in Bad : m <= k
      <4> HIDE DEF Bad
      <4> QED BY <3>1, LeastExists
    <3>3. m \in 1 .. n /\ ~ Has(m) /\ m \in Nat
      <4> HIDE DEF Has
      <4> QED BY <1>1
    <3>4. CASE m = 1
      <4>1. flatten[1] = seqs[1] /\ 1 \in 1 .. m
        BY <2>1, <3>3, <3>4
      <4>2. seqs[1] \in Seq(G) /\ Ascending(seqs[1], N)
        BY <1>0, <1>1, <3>3, <3>4
      <4> QED BY <3>3, <3>4, <4>1, <4>2
    <3>5. CASE m # 1
      <4>1. m - 1 \in 1 .. n /\ ~ (m <= m - 1) /\ 1 .. m = 1 .. m - 1 \cup {m}
        BY <1>1, <3>3, <3>5
      <4>2. m - 1 \notin Bad
        <5> HIDE DEF Bad
        <5> QED BY <3>2, <4>1
      <4>3. Has(m - 1)
        <5> HIDE DEF Has
        <5> QED BY <4>1, <4>2
      <4>4. PICK s, t : s = flatten[m - 1] /\ t = seqs[m]
        OBVIOUS
      <4>5. /\ flatten[m] = s \o t /\ s \in Seq(G) /\ t \in Seq(G)
            /\ Ascending(s, N) /\ Ascending(t, N)
        BY <1>0, <1>1, <2>1, <3>3, <3>5, <4>3, <4>4
      <4>6. \A x \in Range(s) : \E i \in 1 .. m - 1 : x \in Range(seqs[i])
        BY <4>3, <4>4
      <4>7. \A i \in 1 .. m - 1 : i \in 1 .. n /\ i < m
        BY <1>1, <3>3
      <4>8. \A x \in Range(s) \cap N, y \in Range(t) \cap N : x.at <= y.at
        <5> HIDE DEF Has, Bad
        <5> SUFFICES ASSUME NEW x \in Range(s) \cap N, NEW y \in Range(t) \cap N PROVE x.at <= y.at
          OBVIOUS
        <5>1. PICK i \in 1 .. m - 1 : x \in Range(seqs[i])
          BY <4>6
        <5> QED BY <1>0, <3>3, <4>4, <4>7, <5>1
      <4> HIDE DEF Has, Bad
      <4>9. Ascending(flatten[m], N) /\ flatten[m] \in Seq(G)
        BY <4>5, <4>8, JoinedAscend
      <4>10. Range(flatten[m]) = Range(s) \cup Range(t)
        BY <4>5, RangeOfJoined
      <4>11. \A x \in Range(flatten[m]) : \E i \in 1 .. m : x \in Range(seqs[i])
        BY <4>1, <4>4, <4>6, <4>10, Zenon
      <4> QED BY <3>3, <4>9, <4>11 DEF Has
    <3> QED BY <3>4, <3>5
  <2>3. Has(n)
    <3>1. n \in 1 .. n
      BY <1>1, <1>3
    <3> HIDE DEF Has
    <3> QED BY <2>2, <3>1
  <2> QED BY <1>0, <2>1, <2>3
<1> QED BY <1>2, <1>3

(* Of two functions the first has the first symbol. *)
LEMMA FunctionsAscend ==
  ASSUME Whole, NEW scopes, NEW ranges, NEW n, Built(scopes, ranges, n), ScopesOK(scopes),
         NEW symbols, symbols = AddSymbols(scopes), NEW k \in DOMAIN symbols, NEW m \in DOMAIN symbols,
         k < m, OfFunction(symbols[k]), OfFunction(symbols[m])
  PROVE  symbols[k].at <= symbols[m].at
<1>0. /\ text \in Seq(Token) /\ Len(text) \in Nat /\ DelimiterTypeOK /\ PairsNest
  BY WholeTexts
<1>1. PICK Fs, F, V, L : InClasses(scopes, Fs, F, V, L)
  BY <1>0, SymbolsInClasses
<1>2. PICK G, N, nodes : /\ G = GoodSymbols(scopes) /\ N = {x \in G : RoleAt(x.at) = "names"}
                         /\ nodes = Sorted(FunctionDeclarations)
  OBVIOUS
<1>3. /\ F \in Seq(G) /\ V \in Seq(G) /\ L \in Seq(G) /\ symbols = F \o V \o L /\ F = FlattenSeq(Fs)
      /\ Fs \in [DOMAIN nodes -> Seq(G)]
      /\ \A c \in DOMAIN nodes : Fs[c] = FunctionSymbols(scopes, nodes[c])
      /\ \A x : x \in Range(V) <=> \E r \in VariableDeclarations : x \in Range(VariableSymbols(scopes, r))
      /\ \A x : x \in Range(L) <=> \E r \in ForStatements : x \in Range(LoopSymbols(scopes, r))
  BY <1>1, <1>2, Zenon DEF InClasses
<1>4. PICK c : c = Cardinality(FunctionDeclarations)
  OBVIOUS
<1>5. /\ c \in Nat /\ nodes \in [1 .. c -> FunctionDeclarations]
      /\ \A a, b \in 1 .. c : Before(nodes[a], nodes[b]) => a < b
  BY <1>0, <1>2, <1>4, FunctionsAreNodes, NodesAreSorted
<1>6. Fs \in Seq(Seq(G)) /\ Len(Fs) = c /\ \A a \in 1 .. c : Fs[a] = FunctionSymbols(scopes, nodes[a])
  BY <1>3, <1>5
<1>7. ASSUME NEW x, NEW o, OfHead(scopes, x, o) PROVE RoleAt(x.at) # "names"
  <2>1. /\ RoleAt(o) \in {"function", "loop"} /\ KindAt(o) = "leftBrace" /\ x.at = HeldAt(o)
        /\ o \in 1 .. Len(text)
    BY <1>7 DEF OfHead
  <2>2. o \in Nat \ {0}
    BY <1>0, <2>1
  <2>3. PICK s : s = StatementStart(o)
    OBVIOUS
  <2>4. s \in 1 .. o
    BY <1>0, <2>2, <2>3, StatementsBegin
  <2>5. x.at = s + 4 \/ x.at = s + 2
    BY <2>1, <2>3, HeadsHold
  <2>6. x.at # 0
    BY <2>2, <2>4, <2>5
  <2>7. RoleAt(x.at) = "declares"
    BY <1>0, <2>1, <2>2, <2>6, HeldIs
  <2> QED BY <2>7
<1>8. ASSUME NEW a \in 1 .. c
      PROVE  /\ \A x \in Range(Fs[a]) \cap N : x.at = nodes[a].start + 1
             /\ Ascending(Fs[a], N)
  <2>1. PICK f : f = nodes[a] /\ f \in FunctionDeclarations
    BY <1>5
  <2>2. PICK p, q : /\ Fs[a] = <<p, q>> /\ p.at = f.start + 1 /\ OfHead(scopes, q, f.start + 6)
    BY <1>6, <2>1, FunctionsTell
  <2>3. RoleAt(q.at) # "names"
    BY <1>7, <2>2
  <2>4. q \notin N
    BY <1>2, <2>3
  <2>5. Range(Fs[a]) = {p, q}
    BY <2>2 DEF Range
  <2>6. DOMAIN Fs[a] = {1, 2} /\ Fs[a][2] = q
    BY <2>2
  <2>7. Ascending(Fs[a], N)
    <3> SUFFICES ASSUME NEW b \in DOMAIN Fs[a], NEW d \in DOMAIN Fs[a], b < d, Fs[a][b] \in N, Fs[a][d] \in N
                 PROVE  FALSE
      BY DEF Ascending
    <3>1. d = 2
      BY <2>6
    <3> QED BY <2>4, <2>6, <3>1
  <2> QED BY <2>1, <2>2, <2>4, <2>5, <2>7
<1>9. ASSUME NEW a \in 1 .. c, NEW b \in 1 .. c, a < b PROVE nodes[a].start + 1 <= nodes[b].start + 1
  <2>1. ~ Before(nodes[b], nodes[a])
    <3>1. ~ (b < a)
      BY <1>5, <1>9
    <3> QED BY <1>5, <3>1
  <2>2. ~ (nodes[b].start < nodes[a].start)
    BY <2>1 DEF Before
  <2>3. nodes[a].start \in Nat /\ nodes[b].start \in Nat
    <3>1. nodes[a] \in ScopedRanges /\ nodes[b] \in ScopedRanges
      BY <1>5 DEF ScopedRanges
    <3> QED BY <3>1, RangesAre
  <2> QED BY <2>2, <2>3
<1>10. Ascending(F, N)
  <2>1. \A a \in 1 .. Len(Fs) : Ascending(Fs[a], N)
    BY <1>6, <1>8
  <2>2. \A a, b \in 1 .. Len(Fs) : a < b =>
          \A x \in Range(Fs[a]) \cap N, y \in Range(Fs[b]) \cap N : x.at <= y.at
    BY <1>6, <1>8, <1>9
  <2> QED BY <1>3, <1>6, <2>1, <2>2, FlattenedAscend
<1>11. ASSUME NEW x \in Range(V) PROVE x \notin N
  <2>1. PICK v \in VariableDeclarations : x \in Range(VariableSymbols(scopes, v))
    BY <1>3
  <2>2. PICK e \in 1 .. Len(text) : RoleAt(e) = "ends" /\ v = Span(StatementStart(e), e)
    BY DeclarationsAreEnds
  <2>3. PICK y : VariableSymbols(scopes, v) = <<y>> /\ y.at = HeldAt(e)
    BY <2>2, VariableSymbolsAre
  <2>4. x = y
    <3>1. Range(<<y>>) = {y}
      BY DEF Range
    <3> QED BY <2>1, <2>3, <3>1
  <2>5. RoleAt(x.at) = "declares"
    BY <2>2, <2>3, <2>4, EndsAreDeclarations
  <2> QED BY <1>2, <2>5
<1>12. ASSUME NEW x \in Range(L) PROVE x \notin N
  <2>1. PICK l \in ForStatements : x \in Range(LoopSymbols(scopes, l))
    BY <1>3
  <2>2. PICK y : LoopSymbols(scopes, l) = <<y>> /\ OfHead(scopes, y, l.start + 6)
    BY LoopsTell
  <2>3. x = y
    <3>1. Range(<<y>>) = {y}
      BY DEF Range
    <3> QED BY <2>1, <2>2, <3>1
  <2> QED BY <1>2, <1>7, <2>2, <2>3
<1>13. PICK W : W = F \o V
  OBVIOUS
<1>14. Ascending(V, N) /\ Ascending(L, N)
  BY <1>11, <1>12 DEF Ascending, Range
<1>15. W \in Seq(G) /\ Ascending(W, N)
  BY <1>3, <1>10, <1>11, <1>13, <1>14, JoinedAscend
<1>16. Ascending(symbols, N)
  BY <1>3, <1>12, <1>13, <1>14, <1>15, JoinedAscend
<1>17. symbols[k] \in N /\ symbols[m] \in N
  <2>1. symbols \in Seq(G)
    BY <1>0, <1>2, SymbolsAreAdded
  <2>2. symbols[k] \in G /\ symbols[m] \in G
    BY <2>1
  <2> QED BY <1>2, <2>2 DEF OfFunction
<1> QED BY <1>16, <1>17 DEF Ascending

-----------------------------------------------------------------------------
(* Lookup among what the program declares *)

(* What stands in a block of the program has that block around it. *)
LEMMA OwnersAreOutermost ==
  ASSUME Whole, NEW j \in 1 .. Len(text), OwnerAt(j) \in BlockKinds
  PROVE  OutermostAt(j) = OwnerAt(j)
<1>0. text \in Seq(Token) /\ Len(text) \in Nat /\ j \in Nat \ {0}
  BY WholeTexts
<1>1. CASE Braces(j) = {}
  BY <1>1 DEF OwnerAt, OutermostAt
<1>2. CASE Braces(j) # {}
  <2>1. PICK b : b = Innermost(j)
    OBVIOUS
  <2>2. b \in Braces(j) /\ Max(Braces(j)) = b
    BY <1>0, <1>2, <2>1, InnermostIs
  <2>3. OwnerAt(j) = RoleAt(b)
    BY <1>2, <2>2 DEF OwnerAt
  <2>4. b \in 1 .. Len(text)
    BY <1>0, <2>2, BracesAreBehind
  <2>5. Braces(b) = {}
    BY <2>3, <2>4, RolesAreBlocks
  <2>6. PICK c \in Braces(j) : /\ OutermostAt(j) = RoleAt(c)
                               /\ \A d \in Braces(j) : Braces(d) = {} => d = c
    BY <1>2, OutermostIs
  <2> QED BY <2>2, <2>3, <2>5, <2>6
<1> QED BY <1>1, <1>2

(* A function and a block are declared with phrases of their own. *)
LEMMA FormsDiffer ==
  /\ FunctionForm \notin HeaderForms /\ FunctionForm \notin InnerForms /\ FunctionForm # CloseForm
  /\ \A form \in HeaderForms : form \notin InnerForms /\ form # CloseForm
<1>1. /\ Len(FunctionForm.kinds) = 7 /\ FunctionForm.kinds[1] = "type"
      /\ Len(PlainForm.kinds) = 3 /\ Len(SizedForm.kinds) = 8 /\ Len(CallForm.kinds) = 5
      /\ LoopForm.kinds[1] = "for" /\ Len(BlockForm.kinds) = 1 /\ Len(CloseForm.kinds) = 1
      /\ PlainForm.roles[3] = "ends" /\ Len(LoopForm.kinds) = 7
  BY RolesAre, ShapesAre
<1>2. \A f \in HeaderForms : Len(f.kinds) \in {2, 3} /\ f.roles[Len(f.kinds)] \in BlockKinds
  BY HeaderFormsAre
<1>3. 7 # 3 /\ 7 # 8 /\ 7 # 5 /\ 7 # 1 /\ 7 \notin {2, 3} /\ 8 \notin {2, 3} /\ 5 \notin {2, 3} /\ 1 \notin {2, 3}
  OBVIOUS
<1>4. \A form \in HeaderForms : form # PlainForm
  <2> SUFFICES ASSUME PlainForm \in HeaderForms PROVE FALSE
    OBVIOUS
  <2>1. "ends" \in BlockKinds
    BY <1>1, <1>2
  <2> QED BY <2>1, BlockKindsAre
<1> QED BY <1>1, <1>2, <1>3, <1>4 DEF InnerForms

(* Functions are named in the functions block, or in a file of functions. *)
LEMMA NamesAreOfFunctions ==
  ASSUME Whole, NEW j \in 1 .. Len(text), RoleAt(j) = "names"
  PROVE  OutermostAt(j) = "functions" /\ OwnerAt(j) = "functions" /\ FrameOf(j) = 0
<1>0. /\ text \in Seq(Token) /\ Len(text) \in Nat /\ DelimiterTypeOK /\ PairsNest /\ j \in Nat \ {0}
      /\ Suited(text)
  BY WholeTexts
<1>1. PICK s : s = StatementStart(j)
  OBVIOUS
<1>2. PICK form \in Forms : \E k \in 1 .. Len(form.kinds) : j = s + k - 1 /\ FormedAt(form, s)
  BY <1>0, <1>1, StatementsAreForms
<1>3. PICK k \in 1 .. Len(form.kinds) : j = s + k - 1 /\ FormedAt(form, s)
  BY <1>2
<1>4. form.roles[k] = "names" /\ Stands(form, s)
  BY <1>3 DEF FormedAt
<1>5. form = FunctionForm
  BY <1>4, TellingTokens
<1>6. OwnerAt(s) = "functions"
  <2> QED BY <1>4, <1>5, FormsDiffer DEF Stands, Granted
<1>7. OwnerAt(s) = OwnerAt(j)
  <2>1. s \in 1 .. j
    BY <1>0, <1>1, StatementsBegin
  <2>2. j \in 1 .. Len(text) + 1 /\ s \in s .. j
    BY <1>0, <2>1
  <2> QED BY <1>0, <1>1, <2>2, SameBraces
<1> QED BY <1>6, <1>7, OwnersAreOutermost, BlockKindsAre DEF FrameOf

(* What the program declares, no function does, and it is declared in a block. *)
LEMMA DeclaredInProgram ==
  ASSUME Whole, NEW e \in 1 .. Len(text), RoleAt(e) = "ends", NEW j \in 1 .. Len(text), j = HeldAt(e),
         FrameOf(j) = 0
  PROVE  OwnerAt(j) \in ProgramKinds /\ OutermostAt(j) = OwnerAt(j) /\ OutermostAt(j) # "functions"
<1>0. text \in Seq(Token) /\ Len(text) \in Nat
  BY WholeTexts
<1>1. RoleAt(j) # "names" /\ OwnerAt(j) \notin {"program", "functions"}
  BY EndsAreDeclarations
<1>2. j \in Nat \ {0}
  BY <1>0
<1>3. OwnerAt(j) \in ProgramKinds
  <2> SUFFICES ASSUME OwnerAt(j) \notin ProgramKinds PROVE FALSE
    OBVIOUS
  <2>1. Innermost(j) = 0
    BY <1>1 DEF FrameOf
  <2>2. Braces(j) = {}
    <3> SUFFICES ASSUME Braces(j) # {} PROVE FALSE
      OBVIOUS
    <3>1. Innermost(j) \in Braces(j)
      BY <1>0, <1>2, InnermostIs
    <3>2. 0 \in 1 .. Len(text)
      BY <1>0, <2>1, <3>1, BracesAreBehind
    <3> QED BY <3>2
  <2>3. env[1].owner \in Files
    BY DEF Whole, AuthorInv
  <2>4. OwnerAt(j) \in {"program", "functions"}
    BY <2>2, <2>3, AuthorAssumption DEF OwnerAt
  <2> QED BY <1>1, <2>4
<1>4. ProgramKinds \subseteq BlockKinds \ {"functions"}
  BY BlockKindsAre DEF ProgramKinds
<1>5. OutermostAt(j) = OwnerAt(j)
  BY <1>3, <1>4, OwnersAreOutermost
<1> QED BY <1>3, <1>4, <1>5

(* The symbols O of a name are the functions of the name and what can be seen *)
(* of the program.                                                            *)
OfProgram(scopes, symbols, O, i, name) ==
  /\ \A k \in O : \/ OfFunction(symbols[k])
                   \/ /\ symbols[k].at \in Known(i, name)
                      /\ \E e \in 1 .. Len(text) : OfDeclaration(scopes, symbols[k], e)
  /\ \A j \in Known(i, name) : \E k \in O :
       symbols[k].at = j /\ \E e \in 1 .. Len(text) : OfDeclaration(scopes, symbols[k], e)
  /\ \A j \in 1 .. Len(text) : RoleAt(j) = "names" /\ text[j].name = name =>
       \E k \in O : symbols[k].at = j /\ OfFunction(symbols[k])

(* What the root offers is a function of the name or what may be seen of the *)
(* program, and it offers all of these.                                      *)
LEMMA RootOffers ==
  ASSUME NEW scopes, NEW ranges, NEW n, NEW symbols, NEW i, NEW block, NEW offered,
         Looking(scopes, ranges, n, symbols, i, block, offered), RoleAt(i) = "use",
         block = BlockOf(i),
         NEW name, text[i].name = name
  PROVE  OfProgram(scopes, symbols, OfferedIn(symbols, offered, Root), i, name)
<1>0. /\ Whole /\ Built(scopes, ranges, n) /\ ScopesOK(scopes) /\ i \in 1 .. Len(text)
      /\ symbols = AddSymbols(scopes) /\ text \in Seq(Token) /\ Len(text) \in Nat /\ EndsDeclare
      /\ i \in Nat /\ i \in 1 .. Len(text) + 1 /\ Braces(i) # {}
  BY WholeTexts, UsesStand DEF Looking, Whole
<1>1. (\A m \in Around(ranges, n, i) : scopes[m].kind # "function")
        <=> (\A b \in Braces(i) : RoleAt(b) # "function")
  BY <1>0, FunctionsEnclose
<1>2. ASSUME \A b \in Braces(i) : RoleAt(b) # "function" PROVE OutermostAt(i) \in BlockKinds
  <2>1. PICK b \in Braces(i) : /\ OutermostAt(i) = RoleAt(b) /\ b \in 1 .. Len(text)
                               /\ KindAt(b) = "leftBrace" /\ Braces(b) = {}
    BY <1>0, OutermostIs
  <2>2. RoleAt(b) \in BlockKinds \cup {"function"}
    BY <1>0, <2>1, OutermostRoles
  <2> QED BY <1>2, <2>1, <2>2
<1>3. ASSUME NEW kind \in ProgramKinds
      PROVE  ProgramSymbolVisible(kind, block)
               <=> OutermostAt(i) \in BlockKinds /\ Rank(kind) <= Rank(OutermostAt(i))
  <2>1. CASE OutermostAt(i) \in BlockKinds
    BY <2>1, RanksTell DEF BlockOf
  <2>2. CASE OutermostAt(i) \notin BlockKinds
    <3>1. block = "none" /\ "none" \notin BlockKinds
      BY <2>2, BlockKindsAre DEF BlockOf
    <3>2. ~ ProgramSymbolVisible(kind, "none")
      BY BlockKindsAre DEF ProgramSymbolVisible
    <3> QED BY <2>2, <3>1, <3>2
  <2> QED BY <2>1, <2>2
<1>4. ProgramKinds \subseteq BlockKinds \ {"functions"} /\ "function" \notin ProgramKinds
  BY BlockKindsAre DEF ProgramKinds
<1>5. ASSUME NEW k \in OfferedIn(symbols, offered, Root), ~ OfFunction(symbols[k])
      PROVE  /\ symbols[k].at \in Known(i, name)
             /\ \E e \in 1 .. Len(text) : OfDeclaration(scopes, symbols[k], e)
  <2>1. PICK x : x = symbols[k]
    OBVIOUS
  <2>2. k \in offered /\ k \in DOMAIN symbols /\ x.scope = Root
    BY <2>1, OffersAre DEF OfferedIn
  <2>3. /\ Told(scopes, x) /\ text[x.at].name = name /\ x.visibleFrom <= i
        /\ \/ x.kind = "function"
           \/ /\ \A m \in Around(ranges, n, i) : scopes[m].kind # "function"
              /\ ProgramSymbolVisible(x.kind, block)
    BY <2>1, <2>2, OffersAre
  <2>4. PICK e \in 1 .. Len(text) : OfDeclaration(scopes, x, e)
    BY <1>5, <2>1, <2>2, <2>3 DEF Told, OfHead
  <2>5. /\ RoleAt(e) = "ends" /\ x.at = HeldAt(e) /\ x.visibleFrom = e + 1 /\ Homed(scopes, x)
    BY <2>4 DEF OfDeclaration
  <2>6. OwnerAt(x.at) \in ProgramKinds /\ x.kind = OwnerAt(x.at)
    BY <2>2, <2>5 DEF Homed
  <2>7. /\ \A b \in Braces(i) : RoleAt(b) # "function"
        /\ ProgramSymbolVisible(x.kind, block)
    BY <1>1, <1>4, <2>3, <2>6
  <2>8. Rank(OwnerAt(x.at)) <= Rank(OutermostAt(i))
    BY <1>3, <2>6, <2>7
  <2>9. x.at \in 1 .. Len(text)
    BY <1>0, <2>5, EndsAreDeclarations
  <2>10. OutermostAt(x.at) = OwnerAt(x.at) /\ OutermostAt(x.at) # "functions"
    <3>1. OwnerAt(x.at) \in BlockKinds /\ OwnerAt(x.at) # "functions"
      BY <1>4, <2>6
    <3> QED BY <1>0, <2>9, <3>1, OwnersAreOutermost
  <2>11. FrameOf(x.at) = 0
    BY <2>6 DEF FrameOf
  <2>12. x.at \in Declared(i)
    <3>1. e \in 1 .. i - 1
      BY <1>0, <2>3, <2>5
    <3> QED BY <2>5, <3>1 DEF Declared
  <2>13. x.at \in Known(i, name)
    BY <2>3, <2>7, <2>8, <2>10, <2>11, <2>12 DEF Known
  <2> QED BY <2>1, <2>4, <2>13
<1>6. ASSUME NEW j \in Known(i, name)
      PROVE  \E k \in OfferedIn(symbols, offered, Root) :
               symbols[k].at = j /\ \E e \in 1 .. Len(text) : OfDeclaration(scopes, symbols[k], e)
  <2>1. /\ j \in Declared(i) /\ FrameOf(j) = 0 /\ text[j].name = name /\ OutermostAt(j) # "functions"
        /\ \A b \in Braces(i) : RoleAt(b) # "function"
        /\ Rank(OutermostAt(j)) <= Rank(OutermostAt(i))
    BY DEF Known
  <2>2. /\ j \in 1 .. i - 1 /\ j \in 1 .. Len(text)
        /\ RoleAt(j) = "names" \/ (\E e \in j + 1 .. i - 1 : RoleAt(e) = "ends" /\ HeldAt(e) = j)
    BY <1>0, <2>1, DeclaredAre
  <2>3. RoleAt(j) # "names"
    BY <1>0, <2>1, <2>2, NamesAreOfFunctions
  <2>4. PICK e \in j + 1 .. i - 1 : RoleAt(e) = "ends" /\ HeldAt(e) = j
    BY <2>2, <2>3
  <2>5. e \in 1 .. Len(text) /\ e + 1 <= i
    BY <1>0, <2>2
  <2>6. OwnerAt(j) \in ProgramKinds /\ OutermostAt(j) = OwnerAt(j)
    BY <1>0, <2>1, <2>2, <2>4, <2>5, DeclaredInProgram
  <2>8. ProgramSymbolVisible(OwnerAt(j), block)
    BY <1>2, <1>3, <2>1, <2>6
  <2>9. PICK x \in Range(symbols) : OfDeclaration(scopes, x, e)
    BY <1>0, <2>4, <2>5, SymbolsTell
  <2>10. x.at = j /\ x.visibleFrom = e + 1 /\ x.scope = Root /\ x.kind = OwnerAt(j)
    BY <2>4, <2>6, <2>9 DEF OfDeclaration, Homed
  <2>11. PICK k \in DOMAIN symbols : symbols[k] = x
    BY OffersAre
  <2>12. k \in offered
    <3>1. x.visibleFrom <= i
      BY <2>5, <2>10
    <3>2. \A b \in Braces(i) : RoleAt(b) # "function"
      BY <2>1
    <3>3. text[x.at].name = text[i].name /\ ProgramSymbolVisible(x.kind, block)
      BY <1>1, <2>1, <2>8, <2>10
    <3>4. symbols[k].visibleFrom <= i /\ text[symbols[k].at].name = text[i].name
          /\ ProgramSymbolVisible(symbols[k].kind, block) /\ symbols[k].scope = Root
      BY <2>10, <2>11, <3>1, <3>3
    <3> QED BY <1>1, <2>1, <2>10, <2>11, <3>2, <3>4, OffersAre
  <2>13. k \in OfferedIn(symbols, offered, Root)
    BY <2>10, <2>11, <2>12 DEF OfferedIn
  <2> QED BY <2>5, <2>9, <2>10, <2>11, <2>13
<1>7. ASSUME NEW j \in 1 .. Len(text), RoleAt(j) = "names", text[j].name = name
      PROVE  \E k \in OfferedIn(symbols, offered, Root) : symbols[k].at = j /\ OfFunction(symbols[k])
  <2>1. PICK x \in Range(symbols) : x.at = j /\ OfFunction(x)
    BY <1>0, <1>7, SymbolsTell
  <2>2. x.kind = "function" /\ x.scope = Root /\ x.visibleFrom = 0
    BY <2>1 DEF OfFunction
  <2>3. PICK k \in DOMAIN symbols : symbols[k] = x
    BY OffersAre
  <2>4. x.visibleFrom <= i
    BY <1>0, <2>2
  <2>5. k \in offered
    BY <1>7, <2>1, <2>2, <2>3, <2>4, OffersAre
  <2> QED BY <2>1, <2>2, <2>3, <2>5 DEF OfferedIn
<1> QED BY <1>5, <1>6, <1>7 DEF OfProgram

(* The functions that are declared under a name *)
FunctionsOf(name) == {j \in 1 .. Len(text) : RoleAt(j) = "names" /\ text[j].name = name}

(* The symbol r that a name of the program is looked up as: the latest of what *)
(* is known, else of the functions                                             *)
FromProgram(symbols, known, functions, r) ==
  /\ known = {} /\ functions = {} => r = 0
  /\ known # {} => r \in DOMAIN symbols /\ symbols[r].at = Max({0} \cup known)
  /\ known = {} /\ functions # {} => r \in DOMAIN symbols /\ symbols[r].at = Max({0} \cup functions)

(* No frame around a use has its name: it is the program's, or a function's. *)
LEMMA ProgramResolves ==
  ASSUME NEW scopes, NEW ranges, NEW n, NEW symbols, NEW i, NEW block, NEW offered,
         Looking(scopes, ranges, n, symbols, i, block, offered), RoleAt(i) = "use",
         block = BlockOf(i),
         NEW name, text[i].name = name, NEW r, r = ResolveName(symbols, scopes, NamesOf, i),
         Nearby(i, name) = {}, NEW known, known = Known(i, name)
  PROVE  FromProgram(symbols, known, FunctionsOf(name), r)
<1> SUFFICES /\ known = {} /\ FunctionsOf(name) = {} => r = 0
             /\ known # {} => r \in DOMAIN symbols /\ symbols[r].at = Max({0} \cup known)
             /\ known = {} /\ FunctionsOf(name) # {} =>
                  r \in DOMAIN symbols /\ symbols[r].at = Max({0} \cup FunctionsOf(name))
  BY DEF FromProgram
<1>0. /\ Whole /\ Built(scopes, ranges, n) /\ ScopesOK(scopes) /\ i \in 1 .. Len(text)
      /\ symbols = AddSymbols(scopes) /\ text \in Seq(Token) /\ Len(text) \in Nat /\ EndsDeclare
      /\ i \in Nat /\ i \in 1 .. Len(text) + 1 /\ BlockIs(scopes, ranges, n, i, block)
      /\ offered = Offered(symbols, scopes, ranges, n, NamesOf, i, block)
  BY WholeTexts DEF Looking, Whole
<1>1. PICK around : around = Around(ranges, n, i)
  OBVIOUS
<1>2. Root \in around /\ Root = 1 /\ around \in SUBSET Nat
  <2>1. 1 \in 1 .. n /\ ranges[1] = RootRange /\ n \in Nat
    BY <1>0 DEF Built
  <2>2. RootRange.start = 1 /\ RootRange.end = Len(text) + 1 + Margin /\ Margin \in Nat
    BY MarginAssumption DEF RootRange
  <2>3. Holds(RootRange, i)
    BY <1>0, <2>2 DEF Holds
  <2> QED BY <1>1, <2>1, <2>3 DEF Around, Root
<1>3. ASSUME NEW m \in around, m # Root PROVE OfferedIn(symbols, offered, m) = {}
  BY <1>1, <1>3, OffersAreNear
<1>4. PICK O : O = OfferedIn(symbols, offered, Root)
  OBVIOUS
<1>5. /\ O \subseteq DOMAIN symbols /\ O \subseteq Nat
      /\ \A k \in O : text[symbols[k].at].name = name /\ symbols[k].at \in 1 .. Len(text)
  <2>1. O \subseteq offered
    BY <1>4 DEF OfferedIn
  <2> QED BY <2>1, OffersAre
<1>6. /\ \A k \in O : \/ OfFunction(symbols[k])
                      \/ /\ symbols[k].at \in known
                         /\ \E e \in 1 .. Len(text) : OfDeclaration(scopes, symbols[k], e)
      /\ \A j \in known : \E k \in O :
           symbols[k].at = j /\ \E e \in 1 .. Len(text) : OfDeclaration(scopes, symbols[k], e)
      /\ \A j \in 1 .. Len(text) : RoleAt(j) = "names" /\ text[j].name = name =>
           \E k \in O : symbols[k].at = j /\ OfFunction(symbols[k])
  <2>1. OfProgram(scopes, symbols, O, i, name)
    BY <1>4, RootOffers
  <2> QED BY <2>1 DEF OfProgram
<1>7. O = {} => r = 0
  <2> SUFFICES ASSUME O = {} PROVE r = 0
    OBVIOUS
  <2>1. \A k \in around : OfferedIn(symbols, offered, k) = {}
    BY <1>3, <1>4
  <2>2. symbols \in Seq(GoodSymbols(scopes))
    BY OffersAre
  <2> QED BY <1>0, <1>1, <2>1, <2>2, ResolveIs
<1>8. O # {} => r \in O /\ \A m \in O \ {r} : LaterOf(symbols, r, m)
  <2> SUFFICES ASSUME O # {} PROVE r \in O /\ \A m \in O \ {r} : LaterOf(symbols, r, m)
    OBVIOUS
  <2>1. \A m \in around : m > Root => OfferedIn(symbols, offered, m) = {}
    <3> SUFFICES ASSUME NEW m \in around, m > Root PROVE OfferedIn(symbols, offered, m) = {}
      OBVIOUS
    <3>1. m # Root
      BY <1>2
    <3> QED BY <1>3, <3>1
  <2> QED BY <1>1, <1>2, <1>4, <2>1, LatestIsFound
<1>9. \A x : \A e \in 1 .. Len(text) : OfDeclaration(scopes, x, e) =>
        /\ RoleAt(e) = "ends" /\ x.at = HeldAt(e) /\ x.visibleFrom = e + 1 /\ e \in Nat
        /\ RoleAt(x.at) = "declares"
  <2> SUFFICES ASSUME NEW x, NEW e \in 1 .. Len(text), OfDeclaration(scopes, x, e)
               PROVE  /\ RoleAt(e) = "ends" /\ x.at = HeldAt(e) /\ x.visibleFrom = e + 1 /\ e \in Nat
                      /\ RoleAt(x.at) = "declares"
    OBVIOUS
  <2>1. RoleAt(e) = "ends" /\ x.at = HeldAt(e) /\ x.visibleFrom = e + 1
    BY DEF OfDeclaration
  <2> QED BY <1>0, <2>1, EndsAreDeclarations
<1>10. CASE O = {}
  <2>1. known = {} /\ FunctionsOf(name) = {}
    BY <1>6, <1>10 DEF FunctionsOf
  <2> QED BY <1>7, <1>10, <2>1
<1>11. CASE known # {}
  <2>1. PICK j0 \in known : TRUE
    BY <1>11
  <2>2. PICK k0 \in O : \E e \in 1 .. Len(text) : OfDeclaration(scopes, symbols[k0], e)
    BY <1>6, <2>1
  <2>3. r \in O /\ \A m \in O \ {r} : LaterOf(symbols, r, m)
    BY <1>8, <2>2
  <2>4. symbols[r].at \in known /\ \E e \in 1 .. Len(text) : OfDeclaration(scopes, symbols[r], e)
    <3> SUFFICES ASSUME OfFunction(symbols[r]) PROVE FALSE
      BY <1>6, <2>3
    <3>1. symbols[r].visibleFrom = 0 /\ RoleAt(symbols[r].at) = "names"
      BY DEF OfFunction
    <3>2. k0 # r
      BY <1>9, <2>2, <3>1
    <3>3. LaterOf(symbols, r, k0)
      BY <2>3, <3>2
    <3>4. PICK e \in 1 .. Len(text) : OfDeclaration(scopes, symbols[k0], e)
      BY <2>2
    <3>5. symbols[k0].visibleFrom = e + 1 /\ e \in Nat
      BY <1>9, <3>4
    <3> QED BY <3>1, <3>3, <3>5 DEF LaterOf
  <2>5. PICK d : d = symbols[r].at
    OBVIOUS
  <2>6. d \in 1 .. Len(text) /\ d \in Nat
    BY <1>0, <1>5, <2>3, <2>5
  <2>7. ASSUME NEW j \in known PROVE j <= d /\ j \in Nat
    <3>1. PICK m \in O : symbols[m].at = j /\ \E e \in 1 .. Len(text) : OfDeclaration(scopes, symbols[m], e)
      BY <1>6
    <3>2. j \in Nat
      BY <1>0, <1>5, <3>1
    <3>3. CASE m = r
      BY <2>5, <2>6, <3>1, <3>2, <3>3
    <3>4. CASE m # r
      <4>1. LaterOf(symbols, r, m)
        BY <2>3, <3>4
      <4>2. PICK e \in 1 .. Len(text) : OfDeclaration(scopes, symbols[r], e)
        BY <2>4
      <4>3. PICK f \in 1 .. Len(text) : OfDeclaration(scopes, symbols[m], f)
        BY <3>1
      <4>4. /\ RoleAt(e) = "ends" /\ d = HeldAt(e) /\ symbols[r].visibleFrom = e + 1 /\ e \in Nat
            /\ RoleAt(f) = "ends" /\ j = HeldAt(f) /\ symbols[m].visibleFrom = f + 1 /\ f \in Nat
        BY <1>9, <2>5, <3>1, <4>2, <4>3
      <4>5. f <= e
        BY <4>1, <4>4 DEF LaterOf
      <4> QED BY <1>0, <3>2, <4>4, <4>5, EndsInOrder
    <3> QED BY <3>3, <3>4
  <2>8. Max({0} \cup known) = d
    <3>1. PICK S : S = {0} \cup known
      OBVIOUS
    <3>2. S \in SUBSET Nat /\ d \in S /\ \A s \in S : s <= d
      BY <2>4, <2>5, <2>6, <2>7, <3>1
    <3> QED BY <3>1, <3>2, MaxIs
  <2> QED BY <1>5, <1>11, <2>3, <2>5, <2>8
<1>12. CASE known = {} /\ O # {}
  <2>1. r \in O /\ \A m \in O \ {r} : LaterOf(symbols, r, m)
    BY <1>8, <1>12
  <2>2. \A k \in O : OfFunction(symbols[k])
    BY <1>6, <1>12
  <2>3. PICK d : d = symbols[r].at
    OBVIOUS
  <2>4. d \in 1 .. Len(text) /\ d \in Nat /\ d \in FunctionsOf(name)
    <3>1. RoleAt(d) = "names"
      BY <2>1, <2>2, <2>3 DEF OfFunction
    <3> QED BY <1>0, <1>5, <2>1, <2>3, <3>1 DEF FunctionsOf
  <2>5. ASSUME NEW j \in FunctionsOf(name) PROVE j <= d /\ j \in Nat
    <3>1. j \in 1 .. Len(text) /\ RoleAt(j) = "names" /\ text[j].name = name /\ j \in Nat
      BY <1>0 DEF FunctionsOf
    <3>2. PICK m \in O : symbols[m].at = j
      BY <1>6, <3>1
    <3>3. CASE m = r
      BY <2>3, <2>4, <3>1, <3>2, <3>3
    <3>4. CASE m # r
      <4>1. LaterOf(symbols, r, m)
        BY <2>1, <3>4
      <4>2. symbols[r].visibleFrom = 0 /\ symbols[m].visibleFrom = 0
        BY <2>1, <2>2 DEF OfFunction
      <4>3. r > m /\ r \in Nat /\ m \in Nat
        BY <1>5, <2>1, <4>1, <4>2 DEF LaterOf
      <4>4. m < r /\ m \in DOMAIN symbols /\ r \in DOMAIN symbols
        BY <1>5, <2>1, <4>3
      <4>5. symbols[m].at <= symbols[r].at
        BY <1>0, <2>1, <2>2, <4>4, FunctionsAscend
      <4> QED BY <2>3, <3>1, <3>2, <4>5
    <3> QED BY <3>3, <3>4
  <2>6. Max({0} \cup FunctionsOf(name)) = d
    <3>1. PICK F, S : F = FunctionsOf(name) /\ S = {0} \cup F
      OBVIOUS
    <3>2. d \in F /\ d \in Nat /\ \A j \in F : j <= d /\ j \in Nat
      BY <2>4, <2>5, <3>1
    <3>3. \A s \in S : s = 0 \/ s \in F
      BY <3>1
    <3>4. \A s \in S : s \in Nat /\ s <= d
      <4> SUFFICES ASSUME NEW s \in S PROVE s \in Nat /\ s <= d
        OBVIOUS
      <4>1. CASE s = 0
        BY <2>4, <4>1
      <4>2. CASE s \in F
        BY <3>2, <4>2
      <4> QED BY <3>3, <4>1, <4>2
    <3>5. S \in SUBSET Nat /\ d \in S
      BY <3>1, <3>2, <3>4
    <3> QED BY <3>1, <3>4, <3>5, MaxIs
  <2> QED BY <1>5, <1>12, <2>1, <2>3, <2>4, <2>6
<1> QED BY <1>10, <1>11, <1>12

(* What the record has for a function name in a whole text: where the text    *)
(* declares it last.                                                          *)
LEMMA NamedIsLatest ==
  ASSUME Whole, Recording, NEW name
  PROVE  FunctionNamed(name) = Max({0} \cup FunctionsOf(name))
<1>0. /\ text \in Seq(Token) /\ Len(text) \in Nat /\ EndsDeclare /\ At \in 1 .. Len(text) + 1 /\ At = Len(text) + 1
  BY WholeTexts DEF Whole, At
<1>1. env[1].declared = {Recorded(j) : j \in DeclaredFor(0)}
  <2>1. Len(env) \in Nat /\ 1 \in 1 .. Len(env)
    BY DEF Whole, AuthorInv
  <2>2. FramePos(1) = 0
    BY DEF FramePos
  <2> QED BY <2>1, <2>2 DEF Recording
<1>2. ASSUME NEW j \in DeclaredFor(0), text[j].name = name, OutermostAt(j) = "functions"
      PROVE  j \in FunctionsOf(name)
  <2>1. j \in Declared(At) /\ FrameOf(j) = 0
    BY DEF DeclaredFor
  <2>2. /\ j \in 1 .. Len(text)
        /\ RoleAt(j) = "names" \/ \E e \in j + 1 .. At - 1 : RoleAt(e) = "ends" /\ HeldAt(e) = j
    BY <1>0, <2>1, DeclaredAre
  <2>3. CASE RoleAt(j) = "names"
    BY <1>2, <2>2, <2>3 DEF FunctionsOf
  <2>4. CASE \E e \in j + 1 .. At - 1 : RoleAt(e) = "ends" /\ HeldAt(e) = j
    <3>1. PICK e \in j + 1 .. At - 1 : RoleAt(e) = "ends" /\ HeldAt(e) = j
      BY <2>4
    <3>2. e \in 1 .. Len(text)
      BY <1>0, <2>2
    <3>3. OutermostAt(j) # "functions"
      BY <2>1, <2>2, <3>1, <3>2, DeclaredInProgram
    <3> QED BY <1>2, <3>3
  <2> QED BY <2>2, <2>3, <2>4
<1>3. ASSUME NEW j \in FunctionsOf(name)
      PROVE  j \in DeclaredFor(0) /\ text[j].name = name /\ OutermostAt(j) = "functions"
  <2>1. j \in 1 .. Len(text) /\ RoleAt(j) = "names" /\ text[j].name = name
    BY DEF FunctionsOf
  <2>2. OutermostAt(j) = "functions" /\ FrameOf(j) = 0
    BY <2>1, NamesAreOfFunctions
  <2>3. j \in 1 .. At - 1
    BY <1>0, <2>1
  <2>4. j \in Declared(At)
    BY <2>1, <2>3 DEF Declared
  <2> QED BY <2>1, <2>2, <2>4 DEF DeclaredFor
<1>4. \A j : Recorded(j).name = text[j].name /\ Recorded(j).block = OutermostAt(j)
  BY DEF Recorded
<1>5. {d \in Named(env[1].declared, name) : d.block = "functions"} = {Recorded(j) : j \in FunctionsOf(name)}
  <2>1. ASSUME NEW d \in Named(env[1].declared, name), d.block = "functions"
        PROVE  \E j \in FunctionsOf(name) : d = Recorded(j)
    <3>1. d \in env[1].declared /\ d.name = name
      BY DEF Named
    <3>2. PICK j \in DeclaredFor(0) : d = Recorded(j)
      BY <1>1, <3>1
    <3>3. text[j].name = name /\ OutermostAt(j) = "functions"
      BY <1>4, <2>1, <3>1, <3>2
    <3> QED BY <1>2, <3>2, <3>3
  <2>2. ASSUME NEW j \in FunctionsOf(name)
        PROVE  Recorded(j) \in Named(env[1].declared, name) /\ Recorded(j).block = "functions"
    <3>1. j \in DeclaredFor(0) /\ Recorded(j).name = name /\ Recorded(j).block = "functions"
      BY <1>3, <1>4
    <3>2. Recorded(j) \in env[1].declared
      BY <1>1, <3>1
    <3> QED BY <3>1, <3>2 DEF Named
  <2> QED BY <2>1, <2>2
<1> QED BY <1>5, LatestIs DEF FunctionNamed

(* No use is a symbol's place: it is looked up. *)
LEMMA UsesAreReferences ==
  ASSUME Whole, NEW scopes, NEW ranges, NEW n, Built(scopes, ranges, n), ScopesOK(scopes),
         NEW symbols, symbols = AddSymbols(scopes), NEW i \in 1 .. Len(text), RoleAt(i) = "use"
  PROVE  i \in References(symbols) /\ \A k \in DOMAIN symbols : symbols[k].at # i
<1>0. /\ text \in Seq(Token) /\ Len(text) \in Nat /\ DOMAIN text = 1 .. Len(text)
      /\ DelimiterTypeOK /\ PairsNest
  BY WholeTexts
<1>1. KindAt(i) = "identifier"
  BY UsesStand
<1>2. \A x \in Range(symbols) : Told(scopes, x)
  BY SymbolsTell
<1>3. symbols \in Seq(GoodSymbols(scopes))
  BY <1>0, SymbolsAreAdded
<1>4. ASSUME NEW k \in DOMAIN symbols PROVE RoleAt(symbols[k].at) # "use"
  <2>1. PICK x : x = symbols[k]
    OBVIOUS
  <2>2. x \in Range(symbols) /\ x \in GoodSymbols(scopes)
    BY <1>3, <2>1 DEF Range
  <2>3. Told(scopes, x)
    BY <1>2, <2>2
  <2>4. CASE OfFunction(x)
    BY <2>1, <2>4 DEF OfFunction
  <2>5. CASE \E e \in 1 .. Len(text) : OfDeclaration(scopes, x, e)
    <3>1. PICK e \in 1 .. Len(text) : OfDeclaration(scopes, x, e)
      BY <2>5
    <3>2. RoleAt(e) = "ends" /\ x.at = HeldAt(e)
      BY <3>1 DEF OfDeclaration
    <3>3. RoleAt(x.at) = "declares"
      BY <3>2, EndsAreDeclarations
    <3> QED BY <2>1, <3>3
  <2>6. CASE \E o \in 1 .. Len(text) : OfHead(scopes, x, o)
    <3>1. PICK o \in 1 .. Len(text) : OfHead(scopes, x, o)
      BY <2>6
    <3>2. x.at = HeldAt(o) /\ o \in Nat \ {0}
      BY <1>0, <3>1 DEF OfHead
    <3>3. x.at # 0
      <4>1. x.at \in 1 .. Len(text)
        BY <2>2 DEF GoodSymbols
      <4> QED BY <4>1
    <3>4. RoleAt(x.at) = "declares"
      BY <1>0, <3>2, <3>3, HeldIs
    <3> QED BY <2>1, <3>4
  <2> QED BY <2>3, <2>4, <2>5, <2>6 DEF Told
<1>5. \A k \in DOMAIN symbols : symbols[k].at # i
  BY <1>4
<1> QED BY <1>0, <1>1, <1>5 DEF References, Of

(* A use in a whole text is looked up, and stands for what it was meant to. *)
LEMMA UseResolves ==
  ASSUME Whole, Recording, Binding, NEW scopes, scopes = BuildScopes,
         NEW symbols, symbols = AddSymbols(scopes), NEW i \in DOMAIN bindings,
         NEW r, r = ResolveName(symbols, scopes, NamesOf, i)
  PROVE  /\ i \in References(symbols)
         /\ r = 0 => Intended(i) = 0
         /\ r # 0 => symbols[r].at = Intended(i)
<1>0. /\ text \in Seq(Token) /\ Len(text) \in Nat /\ DelimiterTypeOK /\ PairsNest
      /\ i \in 1 .. Len(text) /\ RoleAt(i) = "use"
  BY WholeTexts DEF Binding
<1>1. PICK ranges, n : Built(scopes, ranges, n)
  BY ScopesAreOf
<1>2. ScopesOK(scopes)
  BY <1>0, ScopesAreBuilt
<1>3. i \in References(symbols)
  BY <1>0, <1>1, <1>2, UsesAreReferences
<1>4. PICK block, offered : block = BlockOf(i) /\ offered = Offered(symbols, scopes, ranges, n, NamesOf, i, block)
  OBVIOUS
<1>5. Looking(scopes, ranges, n, symbols, i, block, offered)
  <2>1. BlockIs(scopes, ranges, n, i, block)
    BY <1>0, <1>1, <1>4, BlocksEnclose
  <2>2. KindAt(i) # "leftBrace"
    BY <1>0, UsesStand
  <2> QED BY <1>0, <1>1, <1>2, <1>4, <2>1, <2>2 DEF Looking
<1>6. DOMAIN symbols \subseteq Nat \ {0} /\ \A k \in DOMAIN symbols : symbols[k].at \in 1 .. Len(text)
  <2>1. symbols \in Seq(GoodSymbols(scopes))
    BY <1>5, OffersAre
  <2>2. DOMAIN symbols = 1 .. Len(symbols) /\ Len(symbols) \in Nat
    BY <2>1
  <2>3. \A k \in DOMAIN symbols : symbols[k].at \in 1 .. Len(text)
    BY <1>5, OffersAre
  <2> QED BY <2>2, <2>3
<1>7. PICK name : name = text[i].name
  OBVIOUS
<1>8. bindings[i] = MeantBy(i, name)
  BY <1>7 DEF Binding
<1>9. \A k \in DOMAIN symbols : k # 0 /\ symbols[k].at # 0
  <2> SUFFICES ASSUME NEW k \in DOMAIN symbols PROVE k # 0 /\ symbols[k].at # 0
    OBVIOUS
  <2>1. k \in Nat \ {0} /\ symbols[k].at \in 1 .. Len(text)
    BY <1>6
  <2> QED BY <1>0, <2>1
<1>10. ASSUME r \in DOMAIN symbols, symbols[r].at = MeantBy(i, name)
       PROVE  r # 0 /\ symbols[r].at = Intended(i)
  <2>1. bindings[i] # 0
    BY <1>8, <1>9, <1>10
  <2> QED BY <1>8, <1>9, <1>10, <2>1 DEF Intended
<1>11. CASE Nearby(i, name) # {}
  <2>1. PICK b \in Nearby(i, name) :
           /\ \A c \in Nearby(i, name) : c <= b
           /\ MeantBy(i, name) = Max({0} \cup InFrame(b, i, name))
    BY <1>0, <1>11, NearestIs
  <2>2. PICK J : J = {j \in Declared(i) : FrameOf(j) = b /\ text[j].name = name}
    OBVIOUS
  <2>3. CASE J # {}
    <3>1. r \in DOMAIN symbols /\ symbols[r].at = Max({0} \cup InFrame(b, i, name))
      BY <1>5, <1>7, <2>1, <2>2, <2>3, BodiesResolve
    <3> QED BY <1>3, <1>10, <2>1, <3>1
  <2>4. CASE J = {}
    <3>1. {j \in Declared(i) : FrameOf(j) = b /\ text[j].name = name} = {}
      BY <2>2, <2>4
    <3>2. r \in DOMAIN symbols /\ symbols[r].at = Max({0} \cup InFrame(b, i, name))
      BY <1>5, <1>7, <2>1, <3>1, HeadsResolve
    <3> QED BY <1>3, <1>10, <2>1, <3>2
  <2> QED BY <2>3, <2>4
<1>12. CASE Nearby(i, name) = {}
  <2>1. PICK known : known = Known(i, name)
    OBVIOUS
  <2>2. Nearby(i, name) \in SUBSET Nat
    BY <1>12
  <2>3. MeantBy(i, name) = Max({0} \cup known)
    BY <1>12, <2>1, <2>2, MeantIs
  <2>4. /\ known = {} /\ FunctionsOf(name) = {} => r = 0
        /\ known # {} => r \in DOMAIN symbols /\ symbols[r].at = Max({0} \cup known)
        /\ known = {} /\ FunctionsOf(name) # {} =>
             r \in DOMAIN symbols /\ symbols[r].at = Max({0} \cup FunctionsOf(name))
    <3>1. FromProgram(symbols, known, FunctionsOf(name), r)
      BY <1>0, <1>4, <1>5, <1>7, <1>12, <2>1, ProgramResolves
    <3> QED BY <3>1 DEF FromProgram
  <2>5. CASE known # {}
    BY <1>3, <1>10, <2>3, <2>4, <2>5
  <2>6. CASE known = {}
    <3>1. Max({0}) = 0
      <4>1. {0} \in SUBSET Nat /\ 0 \in {0} /\ \A s \in {0} : s <= 0
        OBVIOUS
      <4> QED BY <4>1, MaxIs
    <3>2. {0} \cup known = {0}
      BY <2>6
    <3>3. bindings[i] = 0
      BY <1>8, <2>3, <3>1, <3>2
    <3>4. FunctionNamed(name) = Max({0} \cup FunctionsOf(name))
      BY NamedIsLatest
    <3>5. Intended(i) = Max({0} \cup FunctionsOf(name))
      BY <1>7, <3>3, <3>4 DEF Intended
    <3>6. CASE FunctionsOf(name) = {}
      <4>1. {0} \cup FunctionsOf(name) = {0}
        BY <3>6
      <4>2. Intended(i) = 0
        BY <3>1, <3>5, <4>1
      <4> QED BY <1>3, <2>4, <2>6, <3>6, <4>2
    <3>7. CASE FunctionsOf(name) # {}
      <4>1. r \in DOMAIN symbols /\ symbols[r].at = Max({0} \cup FunctionsOf(name))
        BY <2>4, <2>6, <3>7
      <4>2. r # 0
        BY <1>9, <4>1
      <4> QED BY <1>3, <3>5, <4>1, <4>2
    <3> QED BY <3>6, <3>7
  <2> QED BY <2>5, <2>6
<1> QED BY <1>11, <1>12

(* In a finished program every use resolves to the declaration in force: the  *)
(* innermost block or head around it that declares its name before it, the    *)
(* latest declaration there, else the program's, else the function's          *)
(* (resolve_name). While a program is being written the property allows more, *)
(* and that part is left to the runs. Without a margin the text's last brace  *)
(* would be outside the root scope, as for the models' validity.              *)
THEOREM FinishedUsesResolve ==
  ASSUME Margin # 0
  PROVE  Spec => [](Finished => UsesResolve)
<1>1. /\ AnalysisInv /\ AuthorInv /\ LaidInv /\ SuitInv /\ FrameInv /\ RecordInv /\ BindInv
      /\ ModelIsCurrent
      => (Finished => UsesResolve)
  <2> SUFFICES ASSUME AnalysisInv, AuthorInv, LaidInv, SuitInv, FrameInv, RecordInv, BindInv,
                      ModelIsCurrent, Finished, NEW i \in DOMAIN bindings
               PROVE  i \in DOMAIN model.resolved /\ Resolved(i) = Intended(i)
    BY DEF UsesResolve
  <2>1. Whole /\ Recording
    BY FinishedIsWhole
  <2>2. Binding
    BY DEF BindInv, Finished
  <2>3. model = AnalyzeSemantics(NamesOf)
    BY DEF Finished, ModelIsCurrent
  <2>4. PICK scopes, symbols, resolved :
           /\ scopes = BuildScopes /\ symbols = AddSymbols(scopes)
           /\ resolved = [m \in References(symbols) |-> ResolveName(symbols, scopes, NamesOf, m)]
    OBVIOUS
  <2>5. model.symbols = symbols /\ model.resolved = resolved
    BY <2>3, <2>4 DEF AnalyzeSemantics
  <2>6. PICK r : r = ResolveName(symbols, scopes, NamesOf, i)
    OBVIOUS
  <2>7. /\ i \in References(symbols)
        /\ r = 0 => Intended(i) = 0
        /\ r # 0 => symbols[r].at = Intended(i)
    BY <2>1, <2>2, <2>4, <2>6, UseResolves
  <2>8. i \in DOMAIN resolved /\ resolved[i] = r
    BY <2>4, <2>6, <2>7
  <2>9. Resolved(i) = IF r = 0 THEN 0 ELSE symbols[r].at
    BY <2>5, <2>8 DEF Resolved
  <2> QED BY <2>5, <2>7, <2>8, <2>9
<1> QED
  BY <1>1, DelimitersHold, RecordsHold, TextsAreLaid, SuitsHold, FramesHold, RecordsAreInText, UsesAreBound,
     ModelsAreCurrent, PTL

-----------------------------------------------------------------------------
(* Call hierarchies *)

(* A function stands among functions alone. *)
LEMMA FunctionsStand ==
  ASSUME Whole, NEW o \in 1 .. Len(text), KindAt(o) = "leftBrace", RoleAt(o) = "function",
         NEW s, s = StatementStart(o)
  PROVE  FormedAt(FunctionForm, s) /\ o = s + 6 /\ s \in Nat \ {0} /\ OwnerAt(o) = "functions"
<1>0. text \in Seq(Token) /\ Len(text) \in Nat /\ DelimiterTypeOK /\ PairsNest /\ o \in Nat \ {0}
  BY WholeTexts
<1>1. FormedAt(FunctionForm, s) /\ o = s + 6
  BY HeadsHold
<1>2. OwnerAt(s) = "functions"
  <2>1. Stands(FunctionForm, s)
    BY <1>1 DEF FormedAt
  <2> QED BY <2>1, FormsDiffer DEF Stands, Granted
<1>3. s \in Nat \ {0}
  BY <1>0, <1>1, FunctionHeads
<1>4. OwnerAt(s) = OwnerAt(o)
  <2>1. s \in 1 .. o
    BY <1>0, StatementsBegin
  <2>2. o \in 1 .. Len(text) + 1 /\ s \in s .. o
    BY <1>0, <2>1
  <2> QED BY <1>0, <2>2, SameBraces
<1> QED BY <1>1, <1>2, <1>3, <1>4

(* The functions block comes first. *)
LEMMA FunctionsComeFirst ==
  ASSUME Whole, NEW o \in 1 .. Len(text), RoleAt(o) = "functions", NEW j \in 1 .. o - 1
  PROVE  RoleAt(j) \notin BlockKinds
<1>0. text \in Seq(Token) /\ Len(text) \in Nat /\ o \in Nat \ {0} /\ j \in 1 .. Len(text)
  BY WholeTexts
<1>1. SUFFICES ASSUME RoleAt(j) \in BlockKinds PROVE FALSE
  OBVIOUS
<1>2. KindAt(j) = "leftBrace" /\ KindAt(o) = "leftBrace" /\ "functions" \in BlockKinds
  BY <1>0, <1>1, RolesAreBlocks, BlockKindsAre
<1>3. PICK s : s = StatementStart(o)
  OBVIOUS
<1>4. PICK form \in HeaderForms \cup {FunctionForm, LoopForm, BlockForm} :
        FormedAt(form, s) /\ RoleAt(o) = form.roles[Len(form.kinds)]
  BY <1>2, <1>3, BracesAreForms
<1>5. form \in HeaderForms /\ form.roles[Len(form.kinds)] = "functions" /\ Stands(form, s)
  <2>1. Len(form.kinds) \in 1 .. Len(form.kinds) /\ form \in Forms
    <3>1. Len(form.kinds) \in Nat \ {0}
      <4>1. /\ Len(FunctionForm.kinds) = 7 /\ Len(LoopForm.kinds) = 7 /\ Len(BlockForm.kinds) = 1
            /\ \A f \in HeaderForms : Len(f.kinds) \in {2, 3}
        BY RolesAre, ShapesAre, HeaderFormsAre
      <4>2. PICK l : l = Len(form.kinds)
        OBVIOUS
      <4>3. l = 1 \/ l = 2 \/ l = 3 \/ l = 7
        BY <1>4, <4>1, <4>2
      <4>4. l \in Nat \ {0}
        BY <4>3
      <4> QED BY <4>2, <4>4
    <3> QED BY <3>1 DEF Forms, InnerForms
  <2>2. form.roles[Len(form.kinds)] = "functions"
    BY <1>4
  <2>3. form \in HeaderForms
    BY <1>2, <2>1, <2>2, TellingTokens
  <2>4. Stands(form, s)
    BY <1>4 DEF FormedAt
  <2> QED BY <2>2, <2>3, <2>4
<1>6. j \in 1 .. s - 1
  <2>1. KindAt(j) \in Boundaries
    BY <1>2 DEF Boundaries
  <2>2. j < s /\ s \in 1 .. o
    BY <1>0, <1>3, <2>1, StatementsBegin
  <2> QED BY <1>0, <2>2
<1>7. Rank(RoleAt(j)) < Rank("functions")
  <2>1. Len(form.roles) = Len(form.kinds)
    BY <1>5, HeaderFormsAre
  <2>2. form \notin InnerForms /\ form # FunctionForm /\ form # CloseForm
    BY <1>5, FormsDiffer
  <2>3. \A role \in {RoleAt(l) : l \in 1 .. s - 1} \cap BlockKinds : Rank(role) < Rank(form.roles[Len(form.roles)])
    BY <1>5, <2>2 DEF Stands, Granted
  <2>4. RoleAt(j) \in {RoleAt(l) : l \in 1 .. s - 1} \cap BlockKinds
    BY <1>1, <1>6
  <2> QED BY <1>5, <2>1, <2>3, <2>4
<1>8. Rank("functions") = 0 /\ Rank(RoleAt(j)) \in 0 .. 6
  BY DEF Rank
<1> QED BY <1>7, <1>8

(* A brace that is open at a token is open at whatever lies between. *)
LEMMA BracesStayOpen ==
  ASSUME DelimiterTypeOK, NEW i \in 1 .. Len(text), NEW o \in Braces(i), NEW j \in o + 1 .. i
  PROVE  o \in Braces(j)
<1>1. /\ o \in 1 .. Len(text) /\ o \in 1 .. i - 1 /\ KindAt(o) = "leftBrace"
      /\ o \in DOMAIN pairs => i <= pairs[o]
      /\ text \in Seq(Token) /\ (o \in DOMAIN pairs => pairs[o] \in 1 .. Len(text))
  BY BracesAreBehind DEF DelimiterTypeOK
<1>2. Len(text) \in Nat /\ i \in Nat /\ o \in Nat /\ j \in Nat /\ o \in 1 .. j - 1
  BY <1>1
<1>3. o \in DOMAIN pairs => j <= pairs[o]
  <2> SUFFICES ASSUME o \in DOMAIN pairs PROVE j <= pairs[o]
    OBVIOUS
  <2>1. i <= pairs[o] /\ j <= i /\ pairs[o] \in Nat
    BY <1>1
  <2> QED BY <1>2, <2>1
<1> QED BY <1>1, <1>2, <1>3 DEF Braces

(* Before what is written in a function there is no block but its own, and no *)
(* function is declared after it.                                             *)
LEMMA FunctionsAreLast ==
  ASSUME Whole, NEW i \in 1 .. Len(text), NEW o \in Braces(i), RoleAt(o) = "function",
         NEW j \in 1 .. i - 1
  PROVE  /\ RoleAt(j) \notin BlockKinds \ {"functions"}
         /\ RoleAt(j) = "names" => j <= o - 5
<1>0. /\ text \in Seq(Token) /\ Len(text) \in Nat /\ DelimiterTypeOK /\ PairsNest
      /\ j \in 1 .. Len(text) /\ j \in Nat \ {0} /\ i \in Nat
  BY WholeTexts
<1>1. o \in 1 .. Len(text) /\ KindAt(o) = "leftBrace" /\ o \in Nat \ {0} /\ o < i
  <2>1. o \in 1 .. Len(text) /\ o \in 1 .. i - 1 /\ KindAt(o) = "leftBrace"
    BY <1>0, BracesAreBehind
  <2> QED BY <1>0, <2>1
<1>2. PICK s : s = StatementStart(o)
  OBVIOUS
<1>3. FormedAt(FunctionForm, s) /\ o = s + 6 /\ s \in Nat \ {0} /\ OwnerAt(o) = "functions"
  BY <1>1, <1>2, FunctionsStand
<1>4. "functions" \in BlockKinds /\ "function" \notin BlockKinds /\ "program" \notin BlockKinds
  BY BlockKindsAre
<1>5. ASSUME RoleAt(j) \in BlockKinds, RoleAt(j) # "functions" PROVE FALSE
  <2>1. KindAt(j) = "leftBrace" /\ Braces(j) = {} /\ OwnerAt(j) = "program"
    BY <1>0, <1>5, RolesAreBlocks
  <2>2. env[1].owner = "program"
    BY <2>1 DEF OwnerAt
  <2>3. PICK b : b = Innermost(o)
    OBVIOUS
  <2>4. Braces(o) # {} /\ RoleAt(b) = "functions" /\ b \in Braces(o)
    <3>1. Braces(o) # {}
      BY <1>3, <2>2 DEF OwnerAt
    <3>2. Max(Braces(o)) = b /\ b \in Braces(o)
      BY <1>0, <1>1, <2>3, <3>1, InnermostIs
    <3> QED BY <1>3, <3>1, <3>2 DEF OwnerAt
  <2>5. b \in 1 .. Len(text) /\ b \in 1 .. o - 1 /\ b \in Nat
    <3>1. b \in 1 .. Len(text) /\ b \in 1 .. o - 1
      BY <1>0, <2>4, BracesAreBehind
    <3> QED BY <1>0, <3>1
  <2>6. ~ (j < b)
    <3> SUFFICES ASSUME j < b PROVE FALSE
      OBVIOUS
    <3>1. j \in 1 .. b - 1
      BY <1>0, <2>5
    <3> QED BY <1>5, <2>4, <2>5, <3>1, FunctionsComeFirst
  <2>7. j # b
    BY <1>5, <2>4
  <2>8. ~ (j <= o)
    <3> SUFFICES ASSUME j <= o PROVE FALSE
      OBVIOUS
    <3>1. j \in b + 1 .. o
      BY <1>0, <1>1, <2>5, <2>6, <2>7
    <3>2. b \in Braces(j)
      BY <1>0, <1>1, <2>4, <3>1, BracesStayOpen
    <3> QED BY <2>1, <3>2
  <2>9. o \in Braces(j)
    <3>1. j \in o + 1 .. i
      BY <1>0, <1>1, <2>8
    <3> QED BY <1>0, <3>1, BracesStayOpen
  <2> QED BY <2>1, <2>9
<1>6. ASSUME RoleAt(j) = "names", ~ (j <= o - 5) PROVE FALSE
  <2>1. j > s + 1
    BY <1>0, <1>1, <1>3, <1>6
  <2>2. ~ (j <= o)
    <3> SUFFICES ASSUME j <= o PROVE FALSE
      OBVIOUS
    <3>1. PICK k : k = j - s + 1
      OBVIOUS
    <3>2. k \in 1 .. 7 /\ j = s + k - 1 /\ k # 2
      BY <1>0, <1>3, <2>1, <3>1
    <3>3. Len(FunctionForm.kinds) = 7 /\ FunctionForm \in Forms
      BY RolesAre, ShapesAre DEF Forms
    <3>4. RoleAt(j) = FunctionForm.roles[k]
      BY <1>3, <3>2, <3>3 DEF FormedAt
    <3>5. k = 2
      BY <1>6, <3>2, <3>3, <3>4, TellingTokens
    <3> QED BY <3>2, <3>5
  <2>3. o \in Braces(j)
    <3>1. j \in o + 1 .. i
      BY <1>0, <1>1, <2>2
    <3> QED BY <1>0, <3>1, BracesStayOpen
  <2>4. OutermostAt(j) = "functions" /\ OwnerAt(j) = "functions"
    BY <1>0, <1>6, NamesAreOfFunctions
  <2>5. PICK c : c = Innermost(j)
    OBVIOUS
  <2>6. c \in Braces(j) /\ RoleAt(c) = "functions" /\ o <= c
    <3>1. c \in Braces(j) /\ Max(Braces(j)) = c /\ o <= c
      BY <1>0, <2>3, <2>5, InnermostIs
    <3> QED BY <2>3, <2>4, <3>1 DEF OwnerAt
  <2>7. c \in 1 .. Len(text) /\ c # o /\ Braces(c) = {} /\ c \in Nat
    <3>1. c \in 1 .. Len(text)
      BY <1>0, <2>6, BracesAreBehind
    <3>2. c # o
      BY <1>4, <2>6, <1>0
    <3> QED BY <1>0, <1>4, <2>6, <3>1, <3>2, RolesAreBlocks
  <2>8. o < c
    BY <1>1, <2>6, <2>7
  <2>9. o \in Braces(c)
    BY <1>0, <2>3, <2>6, <2>8, BracesNest
  <2> QED BY <2>7, <2>9
<1> QED BY <1>5, <1>6

(* A use in the functions block is in a function. *)
LEMMA UsesInFunctions ==
  ASSUME Whole, NEW i \in 1 .. Len(text), RoleAt(i) = "use", OutermostAt(i) = "functions"
  PROVE  \E o \in Braces(i) : RoleAt(o) = "function"
<1>0. /\ text \in Seq(Token) /\ Len(text) \in Nat /\ DelimiterTypeOK /\ PairsNest
      /\ i \in Nat \ {0} /\ Suited(text) /\ Braces(i) # {}
  BY WholeTexts, UsesStand
<1>1. PICK b \in Braces(i) : /\ RoleAt(b) = "functions" /\ b \in 1 .. Len(text) /\ Braces(b) = {}
                             /\ \A c \in Braces(i) : Braces(c) = {} => c = b
  BY <1>0, OutermostIs
<1>2. OwnerAt(i) \notin {"program", "functions"}
  <2>1. PICK s : s = StatementStart(i)
    OBVIOUS
  <2>2. PICK form \in Forms : \E k \in 1 .. Len(form.kinds) : i = s + k - 1 /\ FormedAt(form, s)
    BY <1>0, <2>1, StatementsAreForms
  <2>3. PICK k \in 1 .. Len(form.kinds) : i = s + k - 1 /\ FormedAt(form, s)
    BY <2>2
  <2>4. form.roles[k] = "use" /\ Stands(form, s)
    BY <2>3 DEF FormedAt
  <2>5. form \notin HeaderForms /\ form # FunctionForm /\ form # CloseForm
    <3>1. form # FunctionForm
      <4>1. Len(FunctionForm.kinds) = 7
        BY RolesAre, ShapesAre
      <4> QED BY <2>4, <4>1, FunctionRoles
    <3>2. form # CloseForm
      <4>1. Len(CloseForm.kinds) = 1 /\ CloseForm.roles[1] = "leaves"
        BY RolesAre, ShapesAre
      <4>2. ASSUME form = CloseForm PROVE k = 1
        <5>1. k \in 1 .. 1
          BY <4>1, <4>2
        <5> QED BY <5>1
      <4> QED BY <2>4, <4>1, <4>2
    <3>3. ASSUME form \in HeaderForms PROVE FALSE
      <4>1. PICK l : l = Len(form.kinds)
        OBVIOUS
      <4>2. /\ l \in {2, 3} /\ form.roles[l] \in BlockKinds
            /\ \A m \in 1 .. l - 1 : form.roles[m] = "none"
        BY <3>3, <4>1, HeaderFormsAre
      <4>3. k = l \/ k \in 1 .. l - 1
        BY <4>1, <4>2
      <4> QED BY <2>4, <4>2, <4>3, BlockKindsAre
    <3> QED BY <3>1, <3>2, <3>3
  <2>6. OwnerAt(s) \notin {"program", "functions"}
    BY <2>4, <2>5 DEF Stands, Granted
  <2>7. OwnerAt(s) = OwnerAt(i)
    <3>1. s \in 1 .. i
      BY <1>0, <2>1, StatementsBegin
    <3>2. i \in 1 .. Len(text) + 1 /\ s \in s .. i
      BY <1>0, <3>1
    <3> QED BY <1>0, <2>1, <3>2, SameBraces
  <2> QED BY <2>6, <2>7
<1>3. PICK C : C = Braces(i) \ {b}
  OBVIOUS
<1>4. C # {}
  <2> SUFFICES ASSUME C = {} PROVE FALSE
    OBVIOUS
  <2>1. Max(Braces(i)) \in Braces(i)
    BY <1>0, InnermostIs
  <2>2. OwnerAt(i) = "functions"
    BY <1>0, <1>1, <1>3, <2>1 DEF OwnerAt
  <2> QED BY <1>2, <2>2
<1>5. \A c \in Braces(i) : c \in 1 .. Len(text) /\ c \in 1 .. i - 1 /\ KindAt(c) = "leftBrace" /\ c \in Nat
  <2>1. \A c \in Braces(i) : c \in 1 .. Len(text) /\ c \in 1 .. i - 1 /\ KindAt(c) = "leftBrace"
    BY <1>0, BracesAreBehind
  <2> QED BY <1>0, <2>1
<1>6. PICK c : c = Min(C)
  OBVIOUS
<1>7. c \in C /\ \A d \in C : c <= d
  BY <1>3, <1>4, <1>5, <1>6, MinIsLeast
<1>8. c \in Braces(i) /\ c # b /\ c \in 1 .. Len(text) /\ KindAt(c) = "leftBrace" /\ c \in Nat \ {0}
  <2>1. c \in Braces(i) /\ c # b
    BY <1>3, <1>7
  <2> QED BY <1>0, <1>5, <2>1
<1>9. Braces(c) = {b}
  <2>1. Braces(c) # {}
    BY <1>1, <1>8
  <2>2. ASSUME NEW d \in Braces(c), d # b PROVE FALSE
    <3>1. d \in 1 .. Len(text) /\ d \in 1 .. c - 1 /\ KindAt(d) = "leftBrace"
      BY <1>0, BracesAreBehind
    <3>2. d \in Braces(i)
      BY <1>0, <1>8, OpenBeforeOpen
    <3>3. c <= d
      BY <1>3, <1>7, <2>2, <3>2
    <3> QED BY <1>0, <1>8, <3>1, <3>3
  <2> QED BY <2>1, <2>2
<1>10. OwnerAt(c) = "functions"
  <2>1. Max(Braces(c)) \in Braces(c)
    BY <1>0, <1>8, <1>9, InnermostIs
  <2> QED BY <1>1, <1>9, <2>1 DEF OwnerAt
<1>11. PICK s : s = StatementStart(c)
  OBVIOUS
<1>12. PICK form \in HeaderForms \cup {FunctionForm, LoopForm, BlockForm} :
        FormedAt(form, s) /\ RoleAt(c) = form.roles[Len(form.kinds)]
  BY <1>8, <1>11, BracesAreForms
<1>13. OwnerAt(s) = "functions"
  <2>1. s \in 1 .. c
    BY <1>0, <1>8, <1>11, StatementsBegin
  <2>2. c \in 1 .. Len(text) + 1 /\ s \in s .. c
    BY <1>0, <1>8, <2>1
  <2> QED BY <1>0, <1>10, <1>11, <2>2, SameBraces
<1>14. form = FunctionForm
  <2>1. Stands(form, s)
    BY <1>12 DEF FormedAt
  <2>2. form # CloseForm
    <3>1. /\ LoopForm.kinds[1] = "for" /\ CloseForm.kinds[1] = "rightBrace"
          /\ BlockForm.kinds[1] = "leftBrace"
      BY RolesAre, ShapesAre
    <3> QED BY <1>12, <3>1, FormsDiffer
  <2> QED BY <1>13, <2>1, <2>2 DEF Stands, Granted
<1>15. RoleAt(c) = "function"
  <2>1. Len(FunctionForm.kinds) = 7 /\ FunctionForm.roles[7] = "function"
    BY RolesAre, ShapesAre
  <2> QED BY <1>12, <1>14, <2>1
<1> QED BY <1>8, <1>15

(* The function the author wrote a use in *)
LEMMA WrittenInFunction ==
  ASSUME Whole, NEW i \in 1 .. Len(text), NEW o \in Braces(i), RoleAt(o) = "function"
  PROVE  WrittenIn(i) = o - 5
<1>0. /\ text \in Seq(Token) /\ Len(text) \in Nat /\ DelimiterTypeOK /\ PairsNest /\ i \in Nat
      /\ DOMAIN text = 1 .. Len(text)
  BY WholeTexts
<1>1. o \in 1 .. Len(text) /\ KindAt(o) = "leftBrace" /\ o \in Nat \ {0} /\ o < i
  <2>1. o \in 1 .. Len(text) /\ o \in 1 .. i - 1 /\ KindAt(o) = "leftBrace"
    BY <1>0, BracesAreBehind
  <2> QED BY <1>0, <2>1
<1>2. PICK s : s = StatementStart(o)
  OBVIOUS
<1>3. FormedAt(FunctionForm, s) /\ o = s + 6 /\ s \in Nat \ {0}
  BY <1>1, <1>2, FunctionsStand
<1>4. \A j \in 1 .. i - 1 : RoleAt(j) = text[j].role
  BY <1>0 DEF RoleAt
<1>5. PICK names : names = {j \in 1 .. i - 1 : text[j].role = "names"}
  OBVIOUS
<1>6. {j \in 1 .. i - 1 : text[j].role \in BlockKinds \ {"functions"}} = {}
  BY <1>4, FunctionsAreLast
<1>7. s + 1 \in Nat /\ s + 1 \in 1 .. i - 1 /\ s + 1 = o - 5
  BY <1>0, <1>1, <1>3
<1>8. s + 1 \in names
  <2>1. RoleAt(s + 1) = "names"
    BY <1>0, <1>3, FunctionHeads
  <2> QED BY <1>4, <1>5, <1>7, <2>1
<1>9. ASSUME NEW j \in names PROVE j \in Nat /\ j <= s + 1
  <2>1. j \in 1 .. i - 1 /\ RoleAt(j) = "names"
    BY <1>4, <1>5
  <2>2. j <= o - 5
    BY <2>1, FunctionsAreLast
  <2> QED BY <1>0, <1>7, <2>1, <2>2
<1>10. Max({0} \cup names) = s + 1
  <2>1. PICK S, m : S = {0} \cup names /\ m = s + 1
    OBVIOUS
  <2>2. m \in S /\ m \in Nat
    BY <1>7, <1>8, <2>1
  <2>3. \A x \in S : x \in Nat /\ x <= m
    <3> SUFFICES ASSUME NEW x \in S PROVE x \in Nat /\ x <= m
      OBVIOUS
    <3>1. CASE x = 0
      BY <2>2, <3>1
    <3>2. CASE x \in names
      BY <1>9, <2>1, <3>2
    <3> QED BY <2>1, <3>1, <3>2
  <2> QED BY <2>1, <2>2, <2>3, MaxIs
<1> QED BY <1>5, <1>6, <1>7, <1>10 DEF WrittenIn

(* A use that is written in a function is between its braces. *)
LEMMA WrittenInBraces ==
  ASSUME Whole, NEW i \in 1 .. Len(text), RoleAt(i) = "use", WrittenIn(i) # 0
  PROVE  \E o \in Braces(i) : RoleAt(o) = "function"
<1>0. /\ text \in Seq(Token) /\ Len(text) \in Nat /\ i \in Nat /\ DOMAIN text = 1 .. Len(text)
      /\ Braces(i) # {}
  BY WholeTexts, UsesStand
<1>1. PICK b \in Braces(i) : /\ OutermostAt(i) = RoleAt(b) /\ b \in 1 .. Len(text)
                             /\ KindAt(b) = "leftBrace" /\ Braces(b) = {}
  BY <1>0, OutermostIs
<1>2. RoleAt(b) \in BlockKinds \cup {"function"}
  BY <1>1, OutermostRoles
<1>3. {j \in 1 .. i - 1 : text[j].role \in BlockKinds \ {"functions"}} = {}
  BY DEF WrittenIn
<1>4. RoleAt(b) \notin BlockKinds \ {"functions"}
  <2>1. b \in 1 .. i - 1
    BY <1>0, BracesAreBehind
  <2>2. RoleAt(b) = text[b].role
    BY <1>0, <1>1 DEF RoleAt
  <2> QED BY <1>3, <2>1, <2>2
<1>5. CASE RoleAt(b) = "function"
  BY <1>5
<1>6. CASE RoleAt(b) = "functions"
  BY <1>1, <1>6, UsesInFunctions
<1> QED BY <1>2, <1>4, <1>5, <1>6

(* It is in that function's declaration, and in no other. *)
LEMMA DeclarationsHoldUses ==
  ASSUME Whole, NEW i \in 1 .. Len(text), RoleAt(i) = "use", NEW f \in FunctionDeclarations
  PROVE  Encloses(f, Span(i, i)) <=> WrittenIn(i) = f.start + 1
<1>0. /\ text \in Seq(Token) /\ Len(text) \in Nat /\ DelimiterTypeOK /\ PairsNest /\ i \in Nat
      /\ KindAt(i) # "leftBrace"
  BY WholeTexts, UsesStand
<1>1. PICK s, o : s = f.start /\ o = s + 6
  OBVIOUS
<1>2. FormedAt(FunctionForm, s) /\ f = Span(s, EndOf(o))
  BY <1>1, DeclaredFunctionsAreForms
<1>3. /\ s \in Nat \ {0} /\ o \in 1 .. Len(text) /\ KindAt(o) = "leftBrace" /\ RoleAt(o) = "function"
  BY <1>1, <1>2, FunctionFormsAreDeclared
<1>4. f.start = s /\ f.end = EndOf(o) + 1 /\ Span(i, i).start = i /\ Span(i, i).end = i + 1
  BY <1>2 DEF Span
<1>5. EndOf(o) \in Nat
  BY <1>0, <1>3, BracesAreClosed
<1>6. Span(o, EndOf(o)).start = o /\ Span(o, EndOf(o)).end = EndOf(o) + 1
  BY DEF Span
<1>7. ASSUME Encloses(f, Span(i, i)) PROVE o \in Braces(i)
  <2>1. s <= i /\ i + 1 <= EndOf(o) + 1
    BY <1>4, <1>7 DEF Encloses
  <2>2. ~ (i <= s + 6)
    <3> SUFFICES ASSUME i <= s + 6 PROVE FALSE
      OBVIOUS
    <3>1. PICK k : k = i - s + 1
      OBVIOUS
    <3>2. k \in 1 .. 7 /\ s + k - 1 = i
      BY <1>0, <1>3, <2>1, <3>1
    <3>3. Len(FunctionForm.kinds) = 7
      BY RolesAre, ShapesAre
    <3>4. RoleAt(i) = FunctionForm.roles[k]
      BY <1>2, <3>2, <3>3 DEF FormedAt
    <3> QED BY <3>2, <3>4, FunctionRoles
  <2>3. o <= i /\ i < EndOf(o) + 1
    BY <1>0, <1>1, <1>3, <1>5, <2>1, <2>2
  <2>4. Holds(Span(o, EndOf(o)), i)
    BY <1>6, <2>3 DEF Holds
  <2> QED BY <1>0, <1>3, <2>4, BracesHold
<1>8. ASSUME o \in Braces(i) PROVE Encloses(f, Span(i, i))
  <2>1. Holds(Span(o, EndOf(o)), i)
    BY <1>0, <1>8, BracesHold
  <2>2. o <= i /\ i < EndOf(o) + 1
    BY <1>6, <2>1 DEF Holds
  <2>3. s <= i /\ i + 1 <= EndOf(o) + 1
    BY <1>0, <1>1, <1>3, <1>5, <2>2
  <2> QED BY <1>4, <2>3 DEF Encloses
<1>9. ASSUME o \in Braces(i) PROVE WrittenIn(i) = s + 1
  <2>1. WrittenIn(i) = o - 5
    BY <1>3, <1>9, WrittenInFunction
  <2> QED BY <1>1, <1>3, <2>1
<1>10. ASSUME WrittenIn(i) = s + 1 PROVE o \in Braces(i)
  <2>1. WrittenIn(i) # 0
    BY <1>3, <1>10
  <2>2. PICK c \in Braces(i) : RoleAt(c) = "function"
    BY <2>1, WrittenInBraces
  <2>3. WrittenIn(i) = c - 5
    BY <2>2, WrittenInFunction
  <2>4. c \in Nat
    BY <1>0, BracesAreBehind
  <2>5. c = o
    BY <1>1, <1>3, <1>10, <2>3, <2>4
  <2> QED BY <2>5
<1> QED BY <1>1, <1>7, <1>8, <1>9, <1>10

(* The declaration of a function's symbol is the one it names. *)
LEMMA SymbolsDeclare ==
  ASSUME Whole, NEW scopes, NEW ranges, NEW n, Built(scopes, ranges, n), ScopesOK(scopes),
         NEW m, m.symbols = AddSymbols(scopes), NEW k \in DOMAIN m.symbols,
         m.symbols[k].kind = "function", NEW f, f = DeclarationOf(m, k)
  PROVE  f \in FunctionDeclarations /\ m.symbols[k].at = f.start + 1
<1>0. /\ text \in Seq(Token) /\ Len(text) \in Nat /\ DelimiterTypeOK /\ PairsNest /\ Suited(text)
  BY WholeTexts
<1>1. PICK symbols : symbols = AddSymbols(scopes)
  OBVIOUS
<1>2. PICK x : x = symbols[k]
  OBVIOUS
<1>3. x \in Range(symbols) /\ x.kind = "function" /\ x = m.symbols[k] /\ x.at \in 1 .. Len(text)
  <2>1. symbols \in Seq(GoodSymbols(scopes))
    BY <1>0, <1>1, SymbolsAreAdded
  <2>2. x \in GoodSymbols(scopes)
    BY <1>1, <1>2, <2>1
  <2>3. x.at \in 1 .. Len(text)
    BY <2>2 DEF GoodSymbols
  <2> QED BY <1>1, <1>2, <2>3 DEF Range
<1>4. OfFunction(x)
  <2>1. Told(scopes, x)
    BY <1>1, <1>3, SymbolsTell
  <2>2. "function" \notin ProgramKinds /\ "function" # "local" /\ "function" \notin {"parameter", "loop"}
    BY BlockKindsAre DEF ProgramKinds
  <2>3. \A e : ~ OfDeclaration(scopes, x, e)
    BY <1>3, <2>2 DEF OfDeclaration, Homed
  <2>4. \A o : ~ OfHead(scopes, x, o)
    BY <1>3, <2>2 DEF OfHead
  <2> QED BY <2>1, <2>3, <2>4 DEF Told
<1>5. PICK j, s : j = x.at /\ s = StatementStart(j)
  OBVIOUS
<1>6. RoleAt(j) = "names" /\ j \in 1 .. Len(text)
  BY <1>3, <1>4, <1>5 DEF OfFunction
<1>7. FormedAt(FunctionForm, s) /\ j = s + 1 /\ s \in Nat \ {0}
  <2>1. PICK form \in Forms : \E l \in 1 .. Len(form.kinds) : j = s + l - 1 /\ FormedAt(form, s)
    BY <1>0, <1>5, <1>6, StatementsAreForms
  <2>2. PICK l \in 1 .. Len(form.kinds) : j = s + l - 1 /\ FormedAt(form, s)
    BY <2>1
  <2>3. form.roles[l] = "names"
    BY <1>6, <2>2 DEF FormedAt
  <2>4. form = FunctionForm /\ l = 2
    BY <2>3, TellingTokens
  <2>5. FormedAt(FunctionForm, s) /\ j = s + 2 - 1
    BY <2>2, <2>4
  <2>6. s \in Nat \ {0}
    BY <1>0, <2>5, FunctionHeads
  <2> QED BY <2>5, <2>6
<1>8. \A g \in FunctionDeclarations : g.start \in Nat /\ FunctionName(g) = g.start + 1
  <2> SUFFICES ASSUME NEW g \in FunctionDeclarations
               PROVE  g.start \in Nat /\ FunctionName(g) = g.start + 1
    OBVIOUS
  <2>1. FormedAt(FunctionForm, g.start)
    BY DeclaredFunctionsAreForms
  <2> QED BY <1>0, <2>1, FunctionHeads, ParametersAre
<1>9. \E g \in FunctionDeclarations : FunctionName(g) = m.symbols[k].at
  <2>1. PICK g : g = Span(s, EndOf(s + 6))
    OBVIOUS
  <2>2. g \in FunctionDeclarations /\ g.start = s
    BY <1>7, <2>1, FunctionFormsAreDeclared DEF Span
  <2> QED BY <1>3, <1>5, <1>7, <1>8, <2>2
<1>10. f \in FunctionDeclarations /\ FunctionName(f) = m.symbols[k].at
  BY <1>9 DEF DeclarationOf
<1> QED BY <1>8, <1>10

(* A name that is looked up is a symbol's or is not found. *)
LEMMA LookupsEnd ==
  ASSUME Whole, NEW scopes, ScopesOK(scopes), NEW symbols, symbols = AddSymbols(scopes),
         NEW i, NEW r, r = ResolveName(symbols, scopes, NamesOf, i)
  PROVE  r = 0 \/ r \in DOMAIN symbols
<1>1. DelimiterTypeOK /\ PairsNest /\ Len(text) \in Nat
  BY WholeTexts
<1>2. symbols \in Seq(GoodSymbols(scopes))
  BY <1>1, SymbolsAreAdded
<1>3. ResolveName(symbols, scopes, NamesOf, i) \in {0} \cup DOMAIN symbols
  BY <1>1, <1>2, NamesResolve
<1> QED BY <1>3

(* Of calls that are kept with their positions, those at one position *)
LEMMA CallsAt ==
  ASSUME NEW D, NEW g, NEW i
  PROVE  /\ {c.to : c \in {c \in {[to |-> g[j], at |-> j] : j \in D} : c.at = i}}
              = IF i \in D THEN {g[i]} ELSE {}
         /\ {c.from : c \in {c \in {[from |-> g[j], at |-> j] : j \in D} : c.at = i}}
              = IF i \in D THEN {g[i]} ELSE {}
<1>1. /\ \A c \in {[to |-> g[j], at |-> j] : j \in D} : c.at \in D /\ c.to = g[c.at]
      /\ \A c \in {[from |-> g[j], at |-> j] : j \in D} : c.at \in D /\ c.from = g[c.at]
  OBVIOUS
<1>2. /\ \A j \in D : \E c \in {[to |-> g[l], at |-> l] : l \in D} : c.at = j
      /\ \A j \in D : \E c \in {[from |-> g[l], at |-> l] : l \in D} : c.at = j
  <2> SUFFICES ASSUME NEW j \in D
               PROVE  /\ \E c \in {[to |-> g[l], at |-> l] : l \in D} : c.at = j
                      /\ \E c \in {[from |-> g[l], at |-> l] : l \in D} : c.at = j
    OBVIOUS
  <2>1. PICK c, d : c = [to |-> g[j], at |-> j] /\ d = [from |-> g[j], at |-> j]
    OBVIOUS
  <2>2. /\ c \in {[to |-> g[l], at |-> l] : l \in D} /\ c.at = j
        /\ d \in {[from |-> g[l], at |-> l] : l \in D} /\ d.at = j
    BY <2>1
  <2> QED BY <2>2
<1> QED BY <1>1, <1>2

(* What a call hierarchy says of a use: target is the function it stands for, *)
(* callers are the symbols of the function it is in.                          *)
CallsAgree(m, i, target, callers) ==
  \A k \in DOMAIN m.symbols :
    IsFunction(m, k) =>
      /\ {c.to : c \in {c \in OutgoingCalls(m, k) : c.at = i}} =
           IF target # 0 /\ k \in callers THEN {target} ELSE {}
      /\ {c.from : c \in {c \in IncomingCalls(m, k) : c.at = i}} =
           IF k = target THEN callers ELSE {}

(* If a function's declaration holds a use exactly when it was written there, *)
(* calls are listed for the two functions alone.                              *)
LEMMA CallsAreFound ==
  ASSUME NEW m, NEW i \in DOMAIN m.resolved, DOMAIN m.symbols \subseteq Nat, Distinct(m.symbols), NEW w,
         NEW r, r = m.resolved[i],
         \A k \in DOMAIN m.symbols :
           IsFunction(m, k) => (Encloses(DeclarationOf(m, k), Span(i, i)) <=> m.symbols[k].at = w),
         NEW callers, callers = {k \in DOMAIN m.symbols : IsFunction(m, k) /\ m.symbols[k].at = w},
         NEW target, target = IF IsFunction(m, r) THEN r ELSE 0
  PROVE  CallsAgree(m, i, target, callers)
<1>1. FunctionsAround(m, i) = callers
  BY DEF FunctionsAround
<1>2. ASSUME NEW k \in DOMAIN m.symbols, IsFunction(m, k)
      PROVE  {c.to : c \in {c \in OutgoingCalls(m, k) : c.at = i}} =
               IF target # 0 /\ k \in callers THEN {target} ELSE {}
  <2>1. PICK D, g : /\ D = {j \in DOMAIN m.resolved :
                              /\ Encloses(DeclarationOf(m, k), Span(j, j))
                              /\ IsFunction(m, m.resolved[j])}
                    /\ g = m.resolved
    OBVIOUS
  <2>2. OutgoingCalls(m, k) = {[to |-> g[j], at |-> j] : j \in D}
    BY <2>1 DEF OutgoingCalls
  <2>3. {c.to : c \in {c \in OutgoingCalls(m, k) : c.at = i}} = IF i \in D THEN {g[i]} ELSE {}
    BY <2>2, CallsAt
  <2>4. IsFunction(m, r) <=> target # 0
    BY DEF IsFunction
  <2>5. Encloses(DeclarationOf(m, k), Span(i, i)) <=> k \in callers
    BY <1>2
  <2>6. i \in D <=> target # 0 /\ k \in callers
    BY <2>1, <2>4, <2>5
  <2>7. target # 0 => target = g[i]
    BY <2>1
  <2> QED BY <2>3, <2>6, <2>7
<1>3. ASSUME NEW k \in DOMAIN m.symbols, IsFunction(m, k)
      PROVE  {c.from : c \in {c \in IncomingCalls(m, k) : c.at = i}} =
               IF k = target THEN callers ELSE {}
  <2>1. PICK D, g : /\ D = {j \in DOMAIN m.resolved : m.resolved[j] = k /\ FunctionsAround(m, j) # {}}
                    /\ g = [j \in D |-> Min(FunctionsAround(m, j))]
    OBVIOUS
  <2>2. IncomingCalls(m, k) = {[from |-> g[j], at |-> j] : j \in D}
    BY <2>1 DEF IncomingCalls
  <2>3. {c.from : c \in {c \in IncomingCalls(m, k) : c.at = i}} = IF i \in D THEN {g[i]} ELSE {}
    BY <2>2, CallsAt
  <2>4. k # 0
    BY <1>3 DEF IsFunction
  <2>5. r = k <=> k = target
    BY <1>3, <2>4
  <2>6. i \in D <=> k = target /\ callers # {}
    BY <1>1, <2>1, <2>5
  <2>7. i \in D => {g[i]} = callers
    <3> SUFFICES ASSUME i \in D PROVE {g[i]} = callers
      OBVIOUS
    <3>1. callers # {} /\ g[i] = Min(callers)
      BY <1>1, <2>1, <2>6
    <3>2. callers \in SUBSET Nat
      OBVIOUS
    <3>3. g[i] \in callers
      BY <3>1, <3>2, MinIsLeast
    <3>4. \A a, b \in callers : a = b
      BY DEF Distinct
    <3> QED BY <3>3, <3>4
  <2>8. CASE i \in D
    BY <2>3, <2>6, <2>7, <2>8
  <2>9. CASE i \notin D
    BY <2>3, <2>6, <2>9
  <2> QED BY <2>8, <2>9
<1> QED BY <1>2, <1>3 DEF CallsAgree

(* The call hierarchy of a whole text, at one use *)
LEMMA HierarchyIs ==
  ASSUME Whole, Recording, Binding, NEW m, NEW i \in DOMAIN bindings,
         m.symbols = AddSymbols(BuildScopes),
         m.resolved = [j \in References(m.symbols) |-> ResolveName(m.symbols, BuildScopes, NamesOf, j)],
         NEW target, target = PrepareCallHierarchy(m, i),
         NEW callers, callers = {k \in DOMAIN m.symbols : IsFunction(m, k) /\ m.symbols[k].at = WrittenIn(i)}
  PROVE  /\ target # 0 => m.symbols[target].at = Intended(i)
         /\ CallsAgree(m, i, target, callers)
<1>0. /\ text \in Seq(Token) /\ Len(text) \in Nat /\ DelimiterTypeOK /\ PairsNest /\ Laid(text)
      /\ i \in 1 .. Len(text) /\ RoleAt(i) = "use"
  BY WholeTexts DEF Binding
<1>1. PICK scopes, symbols : scopes = BuildScopes /\ symbols = AddSymbols(scopes)
  OBVIOUS
<1>2. PICK ranges, n : Built(scopes, ranges, n)
  BY <1>1, ScopesAreOf
<1>3. ScopesOK(scopes) /\ m.symbols = symbols
  BY <1>0, <1>1, ScopesAreBuilt
<1>4. i \in References(symbols) /\ \A k \in DOMAIN symbols : symbols[k].at # i
  BY <1>0, <1>1, <1>2, <1>3, UsesAreReferences
<1>5. PICK r : r = ResolveName(symbols, scopes, NamesOf, i)
  OBVIOUS
<1>6. /\ r = 0 \/ r \in DOMAIN symbols
      /\ r # 0 => symbols[r].at = Intended(i)
  BY <1>1, <1>3, <1>5, LookupsEnd, UseResolves
<1>7. i \in DOMAIN m.resolved /\ m.resolved[i] = r
  <2>1. m.resolved = [j \in References(symbols) |-> ResolveName(symbols, scopes, NamesOf, j)]
    BY <1>1, <1>3
  <2> QED BY <1>4, <1>5, <2>1
<1>8. target = IF IsFunction(m, r) THEN r ELSE 0
  <2>1. {k \in DOMAIN m.symbols : m.symbols[k].at = i} = {}
    BY <1>3, <1>4
  <2>2. SymbolAt(m, i) = r
    BY <1>7, <2>1 DEF SymbolAt
  <2> QED BY <2>2 DEF PrepareCallHierarchy
<1>9. target # 0 => m.symbols[target].at = Intended(i)
  BY <1>3, <1>6, <1>8
<1>10. PICK w : w = WrittenIn(i)
  OBVIOUS
<1>11. ASSUME NEW k \in DOMAIN m.symbols, IsFunction(m, k)
       PROVE  Encloses(DeclarationOf(m, k), Span(i, i)) <=> m.symbols[k].at = w
  <2>1. PICK f : f = DeclarationOf(m, k)
    OBVIOUS
  <2>2. m.symbols[k].kind = "function"
    BY <1>11 DEF IsFunction
  <2>3. f \in FunctionDeclarations /\ m.symbols[k].at = f.start + 1
    BY <1>1, <1>2, <1>3, <2>1, <2>2, SymbolsDeclare
  <2>4. Encloses(f, Span(i, i)) <=> w = f.start + 1
    BY <1>0, <1>10, <2>3, DeclarationsHoldUses
  <2> QED BY <2>1, <2>3, <2>4
<1>12. Distinct(m.symbols) /\ DOMAIN m.symbols \subseteq Nat
  <2>1. Distinct(symbols)
    BY <1>0, <1>1, <1>3, SymbolsAreDistinct
  <2>2. symbols \in Seq(GoodSymbols(scopes))
    BY <1>0, <1>1, <1>3, SymbolsAreAdded
  <2> QED BY <1>3, <2>1, <2>2
<1>13. callers = {k \in DOMAIN m.symbols : IsFunction(m, k) /\ m.symbols[k].at = w}
  BY <1>10
<1>14. CallsAgree(m, i, target, callers)
  BY <1>7, <1>8, <1>11, <1>12, <1>13, CallsAreFound
<1> QED BY <1>9, <1>14

(* In a finished program the call hierarchy is what the author wrote, from    *)
(* either end: preparing it at a use yields the function the use stands for,  *)
(* and the use is an outgoing call of the function it was written in, an      *)
(* incoming one of the function it stands for, and a call of no other         *)
(* (features.rs 223-405).                                                     *)
THEOREM HierarchiesAlwaysAgree ==
  ASSUME Margin # 0
  PROVE  Spec => []HierarchiesAgree
<1>1. /\ AnalysisInv /\ AuthorInv /\ LaidInv /\ SuitInv /\ FrameInv /\ RecordInv /\ BindInv
      /\ ModelIsCurrent
      => HierarchiesAgree
  <2> SUFFICES ASSUME AnalysisInv, AuthorInv, LaidInv, SuitInv, FrameInv, RecordInv, BindInv,
                      ModelIsCurrent, Finished, NEW i \in DOMAIN bindings
               PROVE  LET target == PrepareCallHierarchy(model, i)
                          functions == {k \in DOMAIN model.symbols : IsFunction(model, k)}
                          callers == {k \in functions : model.symbols[k].at = WrittenIn(i)}
                      IN /\ target # 0 => model.symbols[target].at = Intended(i)
                         /\ \A k \in functions :
                              /\ {c.to : c \in {c \in OutgoingCalls(model, k) : c.at = i}} =
                                   IF target # 0 /\ k \in callers THEN {target} ELSE {}
                              /\ {c.from : c \in {c \in IncomingCalls(model, k) : c.at = i}} =
                                   IF k = target THEN callers ELSE {}
    BY DEF HierarchiesAgree
  <2> DEFINE target == PrepareCallHierarchy(model, i)
             functions == {k \in DOMAIN model.symbols : IsFunction(model, k)}
             callers == {k \in functions : model.symbols[k].at = WrittenIn(i)}
  <2>1. Whole /\ Recording
    BY FinishedIsWhole
  <2>2. Binding
    BY DEF BindInv, Finished
  <2>3. model = AnalyzeSemantics(NamesOf)
    BY DEF Finished, ModelIsCurrent
  <2>4. /\ model.symbols = AddSymbols(BuildScopes)
        /\ model.resolved = [j \in References(model.symbols) |->
                               ResolveName(model.symbols, BuildScopes, NamesOf, j)]
    BY <2>3 DEF AnalyzeSemantics
  <2>5. callers = {k \in DOMAIN model.symbols : IsFunction(model, k) /\ model.symbols[k].at = WrittenIn(i)}
    OBVIOUS
  <2>6. \A k \in functions : k \in DOMAIN model.symbols /\ IsFunction(model, k)
    OBVIOUS
  <2>7. target = PrepareCallHierarchy(model, i)
    OBVIOUS
  <2> HIDE DEF target, functions, callers
  <2>8. /\ target # 0 => model.symbols[target].at = Intended(i)
        /\ CallsAgree(model, i, target, callers)
    BY <2>1, <2>2, <2>4, <2>5, <2>7, HierarchyIs
  <2>9. /\ target # 0 => model.symbols[target].at = Intended(i)
        /\ \A k \in functions :
             /\ {c.to : c \in {c \in OutgoingCalls(model, k) : c.at = i}} =
                  IF target # 0 /\ k \in callers THEN {target} ELSE {}
             /\ {c.from : c \in {c \in IncomingCalls(model, k) : c.at = i}} =
                  IF k = target THEN callers ELSE {}
    BY <2>6, <2>8 DEF CallsAgree
  <2> QED BY <2>9 DEF target, functions, callers
<1> QED
  BY <1>1, DelimitersHold, RecordsHold, TextsAreLaid, SuitsHold, FramesHold, RecordsAreInText, UsesAreBound,
     ModelsAreCurrent, PTL
===============================================================================
