---------------------------- MODULE AnalysisProofs ----------------------------
(***************************************************************************)
(* For texts of any length, whatever the author types: delimiter pairs nest*)
(* and every delimiter is paired or reported; nodes are ranges in the text,*)
(* and the semantic model built from them is what its readers assert. For  *)
(* texts that lack no token: scopes nest, no two symbols are at one place, *)
(* and a rename to a new name changes no binding.                          *)
(***************************************************************************)
EXTENDS Analysis, FiniteSetTheorems, WellFoundedInduction, TLAPS

(* Open openers wait on the stack in the order they were read, and are not  *)
(* paired yet.                                                              *)
StackRises ==
  \A k, m \in DOMAIN stack : k < m => stack[k] < stack[m]

OpenersWait ==
  \A k \in DOMAIN stack :
    stack[k] \notin DOMAIN pairs /\ text[stack[k]].kind \in Openers

(* An opener that is not paired waits. *)
OpenersRemain ==
  \A i \in DOMAIN text :
    text[i].kind \in Openers => i \in DOMAIN pairs \/ \E k \in DOMAIN stack : stack[k] = i

DelimiterInv ==
  /\ DelimiterTypeOK
  /\ StackRises
  /\ OpenersWait
  /\ OpenersRemain
  /\ PairsNest
  /\ DelimitersAreAccountedFor

-----------------------------------------------------------------------------
(* Every delimiter is an opener or a closer. *)
LEMMA OpenersAreNoClosers == Openers \cap Closers = {}
  BY DEF Openers, Closers

(* Initially nothing has been read. *)
LEMMA InitDelimiters == DelimiterInit => DelimiterInv
  BY DEF DelimiterInit, DelimiterInv, DelimiterTypeOK, StackRises, OpenersWait,
         OpenersRemain, PairsNest, DelimitersAreAccountedFor

(* What leaves text, stack, pairs and reports alone leaves them in order. *)
LEMMA DelimitersStay == DelimiterInv /\ UNCHANGED delimiterVars => DelimiterInv'
  BY DEF delimiterVars, DelimiterInv, DelimiterTypeOK, StackRises, OpenersWait,
         OpenersRemain, PairsNest, DelimitersAreAccountedFor

(* Reading a token appends it to the text and leaves the others. *)
LEMMA TextGrows ==
  ASSUME text \in Seq(Token), NEW t \in Token, text' = Append(text, t)
  PROVE  /\ text' \in Seq(Token)
         /\ Len(text') = Len(text) + 1
         /\ DOMAIN text = 1 .. Len(text)
         /\ DOMAIN text' = 1 .. Len(text) + 1
         /\ text'[Len(text) + 1] = t
         /\ \A i \in 1 .. Len(text) : text'[i] = text[i]
  OBVIOUS

(* Text behind the pairs does not disturb them. *)
LEMMA PairsKept ==
  ASSUME DelimiterTypeOK, PairsNest, pairs' = pairs,
         \A i \in 1 .. Len(text) : text'[i] = text[i]
  PROVE  PairsNest'
<1> SUFFICES ASSUME NEW i \in DOMAIN pairs
             PROVE  /\ i < pairs[i]
                    /\ text'[i].kind = MatchingOpen(text'[pairs[i]].kind)
                    /\ text'[pairs[i]].kind \in Closers
                    /\ \A j \in i + 1 .. pairs[i] - 1 :
                         text'[j].kind \in Openers => j \in DOMAIN pairs /\ pairs[j] < pairs[i]
  BY DEF PairsNest
<1>1. /\ i \in 1 .. Len(text) /\ pairs[i] \in 1 .. Len(text) /\ Len(text) \in Nat
  BY DEF DelimiterTypeOK
<1>2. \A j \in i + 1 .. pairs[i] - 1 : j \in 1 .. Len(text)
  BY <1>1
<1> QED BY <1>1, <1>2 DEF PairsNest

(* An opener is pushed. *)
LEMMA PushKeepsDelimiters ==
  ASSUME DelimiterInv, NEW t \in Token, text' = Append(text, t), PushOpener(t)
  PROVE  DelimiterInv'
<1> DEFINE n == Len(text)
<1>1. /\ text' \in Seq(Token) /\ Len(text') = n + 1 /\ n \in Nat
      /\ DOMAIN text = 1 .. n /\ DOMAIN text' = 1 .. n + 1
      /\ text'[n + 1] = t
      /\ \A i \in 1 .. n : text'[i] = text[i]
  BY TextGrows DEF DelimiterInv, DelimiterTypeOK
<1>2. /\ stack \in Seq(1 .. n) /\ DOMAIN stack = 1 .. Len(stack) /\ Len(stack) \in Nat
      /\ \A k \in DOMAIN stack : stack[k] \in 1 .. n
  BY DEF DelimiterInv, DelimiterTypeOK
<1>3. /\ t.kind \in Openers /\ t.kind \notin Closers
      /\ pairs' = pairs /\ unmatched' = unmatched
      /\ stack' = Append(stack, n + 1)
  BY OpenersAreNoClosers DEF PushOpener
<1>4. /\ DOMAIN stack' = 1 .. Len(stack) + 1
      /\ stack' \in Seq(1 .. n + 1)
      /\ stack'[Len(stack) + 1] = n + 1
      /\ \A k \in DOMAIN stack : stack'[k] = stack[k]
  <2>1. stack \in Seq(1 .. n + 1)
    BY <1>1, <1>2
  <2> QED BY <2>1, <1>1, <1>2, <1>3
<1>5. DOMAIN pairs \subseteq 1 .. n /\ \A i \in DOMAIN pairs : pairs[i] \in 1 .. n
  BY DEF DelimiterInv, DelimiterTypeOK
<1> HIDE DEF n
<1>6. DelimiterTypeOK'
  <2>1. pairs \in [DOMAIN pairs -> 1 .. n + 1]
    BY <1>1, <1>5 DEF DelimiterInv, DelimiterTypeOK
  <2> QED BY <2>1, <1>1, <1>3, <1>4, <1>5 DEF DelimiterInv, DelimiterTypeOK, n
<1>7. StackRises'
  <2> SUFFICES ASSUME NEW k \in DOMAIN stack', NEW m \in DOMAIN stack', k < m
               PROVE  stack'[k] < stack'[m]
    BY DEF StackRises
  <2>1. k \in DOMAIN stack /\ stack'[k] = stack[k] /\ stack[k] \in 1 .. n
    BY <1>2, <1>4
  <2>2. CASE m = Len(stack) + 1
    BY <2>1, <2>2, <1>1, <1>4
  <2>3. CASE m # Len(stack) + 1
    <3>1. m \in DOMAIN stack /\ stack'[m] = stack[m]
      BY <2>3, <1>2, <1>4
    <3> QED BY <2>1, <3>1 DEF DelimiterInv, StackRises
  <2> QED BY <2>2, <2>3
<1>8. OpenersWait'
  BY <1>1, <1>2, <1>3, <1>4, <1>5 DEF DelimiterInv, OpenersWait
<1>9. OpenersRemain'
  <2> SUFFICES ASSUME NEW i \in 1 .. n + 1, text'[i].kind \in Openers
               PROVE  i \in DOMAIN pairs \/ \E k \in DOMAIN stack' : stack'[k] = i
    BY <1>1, <1>3 DEF OpenersRemain
  <2>1. CASE i = n + 1
    <3>1. Len(stack) + 1 \in DOMAIN stack'
      BY <1>2, <1>4
    <3> QED BY <3>1, <2>1, <1>4
  <2>2. CASE i # n + 1
    <3>1. i \in DOMAIN text /\ text'[i] = text[i]
      BY <2>2, <1>1
    <3>2. i \in DOMAIN pairs \/ \E k \in DOMAIN stack : stack[k] = i
      BY <3>1, Zenon DEF DelimiterInv, OpenersRemain
    <3>3. DOMAIN stack \subseteq DOMAIN stack'
      BY <1>2, <1>4
    <3> QED BY <3>2, <3>3, <1>4, Zenon
  <2> QED BY <2>1, <2>2
<1>10. PairsNest'
  BY <1>1, <1>3, PairsKept DEF DelimiterInv, n
<1>11. DelimitersAreAccountedFor'
  <2> SUFFICES ASSUME NEW i \in 1 .. n + 1
               PROVE  /\ text'[i].kind \in Openers =>
                           (i \in DOMAIN pairs <=> ~ \E k \in DOMAIN stack' : stack'[k] = i)
                      /\ text'[i].kind \in Closers =>
                           (i \in unmatched <=> ~ \E j \in DOMAIN pairs : pairs[j] = i)
    BY <1>1, <1>3 DEF DelimiterInv, DelimitersAreAccountedFor
  <2>1. CASE i = n + 1
    BY <2>1, <1>1, <1>3, <1>4, <1>5, SMTT(20)
  <2>2. CASE i # n + 1
    <3>1. i \in 1 .. n
      BY <2>2, <1>1
    <3>2. (\E k \in DOMAIN stack' : stack'[k] = i) <=> \E k \in DOMAIN stack : stack[k] = i
      <4>1. ASSUME NEW k \in DOMAIN stack', stack'[k] = i PROVE \E m \in DOMAIN stack : stack[m] = i
        <5>1. k # Len(stack) + 1
          BY <4>1, <1>4, <2>2
        <5>2. k \in DOMAIN stack
          BY <5>1, <1>2, <1>4
        <5> QED BY <4>1, <5>2, <1>4
      <4>2. ASSUME NEW k \in DOMAIN stack, stack[k] = i PROVE \E m \in DOMAIN stack' : stack'[m] = i
        BY <4>2, <1>2, <1>4
      <4> QED BY <4>1, <4>2
    <3> QED BY <3>1, <3>2, <1>1, <1>3 DEF DelimiterInv, DelimitersAreAccountedFor
  <2> QED BY <2>1, <2>2
<1> QED BY <1>6, <1>7, <1>8, <1>9, <1>10, <1>11 DEF DelimiterInv

(* A closer that is not for the opener on top is reported. *)
LEMMA ReportKeepsDelimiters ==
  ASSUME DelimiterInv, NEW t \in Token, text' = Append(text, t), ReportCloser(t)
  PROVE  DelimiterInv'
<1> DEFINE n == Len(text)
<1>1. /\ text' \in Seq(Token) /\ Len(text') = n + 1 /\ n \in Nat
      /\ DOMAIN text = 1 .. n /\ DOMAIN text' = 1 .. n + 1
      /\ text'[n + 1] = t
      /\ \A i \in 1 .. n : text'[i] = text[i]
  BY TextGrows DEF DelimiterInv, DelimiterTypeOK
<1>2. /\ t.kind \notin Openers
      /\ pairs' = pairs /\ stack' = stack /\ unmatched' = unmatched \cup {n + 1}
  BY OpenersAreNoClosers DEF ReportCloser
<1>3. /\ stack \in Seq(1 .. n + 1)
      /\ \A k \in DOMAIN stack : stack[k] \in 1 .. n
  BY <1>1 DEF DelimiterInv, DelimiterTypeOK
<1>4. DOMAIN pairs \subseteq 1 .. n /\ \A i \in DOMAIN pairs : pairs[i] \in 1 .. n
  BY DEF DelimiterInv, DelimiterTypeOK
<1> HIDE DEF n
<1>5. DelimiterTypeOK'
  <2>1. pairs \in [DOMAIN pairs -> 1 .. n + 1]
    BY <1>1, <1>4 DEF DelimiterInv, DelimiterTypeOK
  <2> QED BY <2>1, <1>1, <1>2, <1>3, <1>4 DEF DelimiterInv, DelimiterTypeOK, n
<1>6. StackRises' /\ OpenersWait' /\ OpenersRemain'
  BY <1>1, <1>2, <1>3 DEF DelimiterInv, StackRises, OpenersWait, OpenersRemain
<1>7. PairsNest'
  BY <1>1, <1>2, PairsKept DEF DelimiterInv, n
<1>8. DelimitersAreAccountedFor'
  <2> SUFFICES ASSUME NEW i \in 1 .. n + 1
               PROVE  /\ text'[i].kind \in Openers =>
                           (i \in DOMAIN pairs <=> ~ \E k \in DOMAIN stack : stack[k] = i)
                      /\ text'[i].kind \in Closers =>
                           (i \in unmatched' <=> ~ \E j \in DOMAIN pairs : pairs[j] = i)
    BY <1>1, <1>2 DEF DelimiterInv, DelimitersAreAccountedFor
  <2>1. CASE i = n + 1
    BY <2>1, <1>1, <1>2, <1>4
  <2>2. CASE i # n + 1
    BY <2>2, <1>1, <1>2 DEF DelimiterInv, DelimitersAreAccountedFor
  <2> QED BY <2>1, <2>2
<1> QED BY <1>5, <1>6, <1>7, <1>8 DEF DelimiterInv

(* A token that is no delimiter changes nothing but the text. *)
LEMMA SkipKeepsDelimiters ==
  ASSUME DelimiterInv, NEW t \in Token, text' = Append(text, t), SkipToken(t)
  PROVE  DelimiterInv'
<1> DEFINE n == Len(text)
<1>1. /\ text' \in Seq(Token) /\ Len(text') = n + 1 /\ n \in Nat
      /\ DOMAIN text = 1 .. n /\ DOMAIN text' = 1 .. n + 1
      /\ text'[n + 1] = t
      /\ \A i \in 1 .. n : text'[i] = text[i]
  BY TextGrows DEF DelimiterInv, DelimiterTypeOK
<1>2. /\ t.kind \notin Openers /\ t.kind \notin Closers
      /\ pairs' = pairs /\ stack' = stack /\ unmatched' = unmatched
  BY DEF SkipToken
<1>3. /\ stack \in Seq(1 .. n + 1)
      /\ \A k \in DOMAIN stack : stack[k] \in 1 .. n
  BY <1>1 DEF DelimiterInv, DelimiterTypeOK
<1>4. DOMAIN pairs \subseteq 1 .. n /\ \A i \in DOMAIN pairs : pairs[i] \in 1 .. n
  BY DEF DelimiterInv, DelimiterTypeOK
<1> HIDE DEF n
<1>5. DelimiterTypeOK'
  <2>1. pairs \in [DOMAIN pairs -> 1 .. n + 1]
    BY <1>1, <1>4 DEF DelimiterInv, DelimiterTypeOK
  <2> QED BY <2>1, <1>1, <1>2, <1>3, <1>4 DEF DelimiterInv, DelimiterTypeOK, n
<1>6. StackRises' /\ OpenersWait' /\ OpenersRemain'
  BY <1>1, <1>2, <1>3 DEF DelimiterInv, StackRises, OpenersWait, OpenersRemain
<1>7. PairsNest'
  BY <1>1, <1>2, PairsKept DEF DelimiterInv, n
<1>8. DelimitersAreAccountedFor'
  BY <1>1, <1>2 DEF DelimiterInv, DelimitersAreAccountedFor
<1> QED BY <1>5, <1>6, <1>7, <1>8 DEF DelimiterInv

(* A closer for the opener on top pairs the two. What waits below lies before *)
(* the pair, so each opener within it is paired already, and closed by now.   *)
LEMMA PairKeepsDelimiters ==
  ASSUME DelimiterInv, NEW t \in Token, text' = Append(text, t), PairCloser(t)
  PROVE  DelimiterInv'
<1> DEFINE n   == Len(text)
           top == stack[Len(stack)]
<1>1. /\ text' \in Seq(Token) /\ Len(text') = n + 1 /\ n \in Nat
      /\ DOMAIN text = 1 .. n /\ DOMAIN text' = 1 .. n + 1
      /\ text'[n + 1] = t
      /\ \A i \in 1 .. n : text'[i] = text[i]
  BY TextGrows DEF DelimiterInv, DelimiterTypeOK
<1>2. /\ stack \in Seq(1 .. n) /\ DOMAIN stack = 1 .. Len(stack)
      /\ Len(stack) \in Nat \ {0}
      /\ \A k \in DOMAIN stack : stack[k] \in 1 .. n
  BY DEF DelimiterInv, DelimiterTypeOK, PairCloser, ClosesTop
<1>3. /\ t.kind \in Closers /\ t.kind \notin Openers
      /\ text[top].kind = MatchingOpen(t.kind)
      /\ pairs' = [i \in DOMAIN pairs \cup {top} |-> IF i = top THEN n + 1 ELSE pairs[i]]
      /\ stack' = SubSeq(stack, 1, Len(stack) - 1)
      /\ unmatched' = unmatched
  BY OpenersAreNoClosers DEF PairCloser, ClosesTop
<1>4. /\ top \in 1 .. n /\ top \notin DOMAIN pairs
      /\ \A k \in DOMAIN stack : stack[k] <= top
  <2>1. Len(stack) \in DOMAIN stack
    BY <1>2
  <2>2. top \in 1 .. n /\ top \notin DOMAIN pairs
    BY <2>1, <1>2 DEF DelimiterInv, OpenersWait
  <2>3. ASSUME NEW k \in DOMAIN stack PROVE stack[k] <= top
    <3>1. CASE k = Len(stack)
      BY <3>1, <1>1, <2>2
    <3>2. CASE k < Len(stack)
      <4>1. stack[k] < top
        BY <3>2, <2>1 DEF DelimiterInv, StackRises
      <4> QED BY <4>1, <1>1, <1>2, <2>2
    <3> QED BY <3>1, <3>2, <1>2
  <2> QED BY <2>2, <2>3
<1>5. /\ DOMAIN stack' = 1 .. Len(stack) - 1
      /\ \A k \in DOMAIN stack' : k \in DOMAIN stack /\ stack'[k] = stack[k]
      /\ stack' \in Seq(1 .. n + 1)
  <2>1. stack \in Seq(1 .. n + 1)
    BY <1>1, <1>2
  <2>2. Len(stack) - 1 \in Nat /\ Len(stack) - 1 <= Len(stack)
    BY <1>2
  <2>3. SubSeq(stack, 1, Len(stack) - 1) \in Seq(1 .. n + 1)
    BY <2>1, <2>2, <1>2
  <2>4. DOMAIN SubSeq(stack, 1, Len(stack) - 1) = 1 .. Len(stack) - 1
    BY <2>1, <2>2, <1>2
  <2>5. \A k \in 1 .. Len(stack) - 1 :
          k \in DOMAIN stack /\ SubSeq(stack, 1, Len(stack) - 1)[k] = stack[k]
    BY <2>1, <2>2, <1>2
  <2> QED BY <2>3, <2>4, <2>5, <1>3
<1>6. DOMAIN pairs \subseteq 1 .. n /\ \A i \in DOMAIN pairs : pairs[i] \in 1 .. n
  BY DEF DelimiterInv, DelimiterTypeOK
<1>7. /\ DOMAIN pairs' = DOMAIN pairs \cup {top}
      /\ pairs'[top] = n + 1
      /\ \A i \in DOMAIN pairs : pairs'[i] = pairs[i]
  BY <1>3, <1>4
<1>8. ASSUME NEW k \in DOMAIN stack' PROVE stack'[k] # top
  <2>1. k \in DOMAIN stack /\ Len(stack) \in DOMAIN stack /\ k < Len(stack)
    BY <1>2, <1>5
  <2>2. stack[k] < top
    BY <2>1 DEF DelimiterInv, StackRises
  <2> QED BY <2>1, <2>2, <1>1, <1>2, <1>4, <1>5
<1> HIDE DEF n, top
<1>9. DelimiterTypeOK'
  <2>1. /\ DOMAIN pairs' \subseteq 1 .. n + 1
        /\ \A i \in DOMAIN pairs' : pairs'[i] \in 1 .. n + 1
    BY <1>1, <1>4, <1>6, <1>7
  <2>2. pairs' \in [DOMAIN pairs' -> 1 .. n + 1]
    BY <2>1, <1>3
  <2> QED BY <2>1, <2>2, <1>1, <1>3, <1>5 DEF DelimiterInv, DelimiterTypeOK, n
<1>10. StackRises'
  BY <1>5 DEF DelimiterInv, StackRises
<1>11. OpenersWait'
  BY <1>1, <1>2, <1>5, <1>7, <1>8 DEF DelimiterInv, OpenersWait
<1>12. OpenersRemain'
  <2> SUFFICES ASSUME NEW i \in 1 .. n + 1, text'[i].kind \in Openers, i \notin DOMAIN pairs'
               PROVE  \E k \in DOMAIN stack' : stack'[k] = i
    BY <1>1 DEF OpenersRemain
  <2>1. i \in 1 .. n /\ text[i].kind \in Openers /\ i \notin DOMAIN pairs /\ i # top
    BY <1>1, <1>3, <1>7
  <2>2. PICK k \in DOMAIN stack : stack[k] = i
    BY <2>1, <1>1 DEF DelimiterInv, OpenersRemain
  <2>3. k # Len(stack)
    BY <2>1, <2>2 DEF top
  <2> QED BY <2>2, <2>3, <1>2, <1>5
<1>13. PairsNest'
  <2> SUFFICES ASSUME NEW i \in DOMAIN pairs'
               PROVE  /\ i < pairs'[i]
                      /\ text'[i].kind = MatchingOpen(text'[pairs'[i]].kind)
                      /\ text'[pairs'[i]].kind \in Closers
                      /\ \A j \in i + 1 .. pairs'[i] - 1 :
                           text'[j].kind \in Openers => j \in DOMAIN pairs' /\ pairs'[j] < pairs'[i]
    BY DEF PairsNest
  <2>1. CASE i \in DOMAIN pairs
    <3>1. /\ i \in 1 .. n /\ pairs[i] \in 1 .. n /\ pairs'[i] = pairs[i]
          /\ \A j \in i + 1 .. pairs[i] - 1 : j \in 1 .. n
      BY <2>1, <1>1, <1>6, <1>7
    <3>2. /\ i < pairs[i]
          /\ text[i].kind = MatchingOpen(text[pairs[i]].kind)
          /\ text[pairs[i]].kind \in Closers
          /\ \A j \in i + 1 .. pairs[i] - 1 :
               text[j].kind \in Openers => j \in DOMAIN pairs /\ pairs[j] < pairs[i]
      BY <2>1 DEF DelimiterInv, PairsNest
    <3> QED BY <3>1, <3>2, <1>1, <1>7
  <2>2. CASE i = top
    <3>1. ASSUME NEW j \in top + 1 .. n, text'[j].kind \in Openers
          PROVE  j \in DOMAIN pairs' /\ pairs'[j] < n + 1
      <4>1. j \in 1 .. n /\ text[j].kind \in Openers
        BY <3>1, <1>1, <1>4
      <4>2. \A k \in DOMAIN stack : stack[k] # j
        BY <1>1, <1>2, <1>4
      <4>3. j \in DOMAIN pairs
        BY <4>1, <4>2, <1>1 DEF DelimiterInv, OpenersRemain
      <4> QED BY <4>3, <1>1, <1>6, <1>7
    <3>2. pairs'[top] = n + 1 /\ top < n + 1 /\ n + 1 - 1 = n
      BY <1>1, <1>4, <1>7
    <3>3. text'[top].kind = MatchingOpen(text'[n + 1].kind) /\ text'[n + 1].kind \in Closers
      BY <1>1, <1>3, <1>4
    <3>4. \A j \in top + 1 .. pairs'[top] - 1 :
            text'[j].kind \in Openers => j \in DOMAIN pairs' /\ pairs'[j] < pairs'[top]
      BY <3>1, <3>2, <1>1, <1>4
    <3>5. top < pairs'[top]
      BY <3>2
    <3>6. text'[top].kind = MatchingOpen(text'[pairs'[top]].kind) /\ text'[pairs'[top]].kind \in Closers
      BY <3>2, <3>3
    <3> QED BY <2>2, <3>4, <3>5, <3>6
  <2> QED BY <2>1, <2>2, <1>7
<1>14. DelimitersAreAccountedFor'
  <2>1. \A j, k \in DOMAIN pairs' : pairs'[j] = pairs'[k] => j = k
    BY <1>1, <1>6, <1>7 DEF DelimiterInv, DelimitersAreAccountedFor
  <2>2. ASSUME NEW i \in 1 .. n + 1, text'[i].kind \in Openers
        PROVE  i \in DOMAIN pairs' <=> ~ \E k \in DOMAIN stack' : stack'[k] = i
    <3>1. i \in DOMAIN pairs' \/ \E k \in DOMAIN stack' : stack'[k] = i
      BY <2>2, <1>1, <1>12 DEF OpenersRemain
    <3>2. \A k \in DOMAIN stack' : stack'[k] \notin DOMAIN pairs'
      BY <1>11 DEF OpenersWait
    <3> QED BY <3>1, <3>2
  <2>3. ASSUME NEW i \in 1 .. n + 1, text'[i].kind \in Closers
        PROVE  i \in unmatched' <=> ~ \E j \in DOMAIN pairs' : pairs'[j] = i
    <3>1. CASE i = n + 1
      <4>1. i \notin unmatched
        BY <3>1, <1>1 DEF DelimiterInv, DelimiterTypeOK, n
      <4> QED BY <3>1, <4>1, <1>3, <1>7
    <3>2. CASE i # n + 1
      <4>1. i \in 1 .. n /\ text[i].kind \in Closers
        BY <2>3, <3>2, <1>1
      <4>2. i \in unmatched <=> ~ \E j \in DOMAIN pairs : pairs[j] = i
        BY <4>1, <1>1 DEF DelimiterInv, DelimitersAreAccountedFor
      <4>3. (\E j \in DOMAIN pairs' : pairs'[j] = i) <=> \E j \in DOMAIN pairs : pairs[j] = i
        BY <4>1, <3>2, <1>7
      <4> QED BY <4>2, <4>3, <1>3
    <3> QED BY <3>1, <3>2
  <2> QED BY <2>1, <2>2, <2>3, <1>1 DEF DelimitersAreAccountedFor
<1> QED BY <1>9, <1>10, <1>11, <1>12, <1>13, <1>14 DEF DelimiterInv

(* Every token read keeps the delimiters in order. *)
LEMMA ReadKeepsDelimiters ==
  ASSUME DelimiterInv, NEW t \in Token, ReadToken(t)
  PROVE  DelimiterInv'
  BY PushKeepsDelimiters, PairKeepsDelimiters, ReportKeepsDelimiters, SkipKeepsDelimiters
     DEF ReadToken

-----------------------------------------------------------------------------
(* Every phrase is a sequence of tokens. *)

PhraseOfTokens(p) == p \in Seq(Token) /\ p # <<>>

(* The words that open blocks are tokens' kinds. *)
LEMMA HeadersAreWords ==
  ASSUME NEW h \in BlockHeaders
  PROVE  h.words \in Seq(BlockWords) /\ h.kind \in Owners
<1>1. CASE \E w \in {"functions", "data", "parameters", "model"} :
             h = [kind |-> w, words |-> <<w>>]
  <2>1. PICK w \in {"functions", "data", "parameters", "model"} : h = [kind |-> w, words |-> <<w>>]
    BY <1>1
  <2>2. w \in BlockWords /\ w \in Owners
    BY DEF BlockWords, Owners
  <2> QED BY <2>1, <2>2
<1>2. ASSUME NEW kind \in Owners, NEW v \in BlockWords, NEW w \in BlockWords,
             h = [kind |-> kind, words |-> <<v, w>>]
      PROVE  h.words \in Seq(BlockWords) /\ h.kind \in Owners
  BY <1>2
<1>3. /\ {"transformedData", "transformedParameters", "generatedQuantities"} \subseteq Owners
      /\ {"transformed", "data", "parameters", "generated", "quantities"} \subseteq BlockWords
  BY DEF Owners, BlockWords
<1> QED BY <1>1, <1>2, <1>3 DEF BlockHeaders

(* A plain token is one. *)
LEMMA PlainTokens ==
  ASSUME NEW kind \in Kinds, NEW role \in Roles
  PROVE  T(kind, role) \in Token /\ Plain(kind) \in Token
<1>1. "" \in Names /\ "none" \in Roles
  BY AuthorAssumption DEF Roles
<1> QED BY <1>1 DEF T, Plain, Token

(* So is a name, used or declared. *)
LEMMA NameTokens ==
  ASSUME NEW name \in Names
  PROVE  Use(name) \in Token /\ Declare(name) \in Token /\ Name(name) \in Token
<1>1. "identifier" \in Kinds /\ {"use", "declares", "names"} \subseteq Roles
  BY DEF Kinds, Roles
<1> QED BY <1>1 DEF Use, Declare, Name, Token

(* The kinds and roles of the tokens of phrases, in one place. *)
LEMMA Vocabulary ==
  /\ BlockWords \subseteq Kinds
  /\ {"leftBrace", "leftParen", "leftBracket", "rightBrace", "rightParen", "rightBracket",
      "comma", "semicolon", "assign", "for", "in", "type", "identifier"} \subseteq Kinds
  /\ Owners \subseteq Roles
  /\ {"none", "use", "declares", "names", "ends", "leaves", "function", "loop", "block"} \subseteq Roles
  BY DEF Kinds, Openers, Closers, Roles, Owners

(* What an author may write next is a sequence of tokens that is not empty. *)
LEMMA PhrasesAreTokens ==
  ASSUME NEW p \in Phrases
  PROVE  PhraseOfTokens(p)
<1>0. VariableNames \subseteq Names /\ FunctionNames \subseteq Names
  BY AuthorAssumption
<1>1. ASSUME NEW h \in BlockHeaders PROVE PhraseOfTokens(BlockPhrase(h))
  <2>1. [k \in DOMAIN h.words |-> Plain(h.words[k])] \in Seq(Token)
    <3>1. \A k \in DOMAIN h.words : Plain(h.words[k]) \in Token
      BY HeadersAreWords, PlainTokens, Vocabulary
    <3> QED BY <3>1, HeadersAreWords
  <2>2. Open(h.kind) \in Token
    BY HeadersAreWords, PlainTokens, Vocabulary DEF Open
  <2> QED BY <2>1, <2>2 DEF BlockPhrase, PhraseOfTokens
<1>2. ASSUME NEW f \in Names, NEW x \in Names PROVE PhraseOfTokens(FunctionPhrase(f, x))
  <2>1. /\ Plain("type") \in Token /\ Plain("leftParen") \in Token
        /\ Plain("rightParen") \in Token /\ Open("function") \in Token
        /\ Name(f) \in Token /\ Declare(x) \in Token
    BY PlainTokens, NameTokens, Vocabulary DEF Open
  <2> QED BY <2>1 DEF FunctionPhrase, PhraseOfTokens
<1>3. PhraseOfTokens(Close)
  <2>1. T("rightBrace", "leaves") \in Token
    BY PlainTokens, Vocabulary
  <2> QED BY <2>1 DEF Close, PhraseOfTokens
<1>4. ASSUME NEW d \in Declarations PROVE PhraseOfTokens(d)
  <2>1. /\ Plain("type") \in Token /\ Plain("leftBracket") \in Token
        /\ Plain("rightBracket") \in Token /\ Plain("assign") \in Token
        /\ T("semicolon", "ends") \in Token
        /\ \A x \in Names : Use(x) \in Token /\ Declare(x) \in Token
    BY PlainTokens, NameTokens, Vocabulary
  <2>2. ASSUME NEW x \in Names
        PROVE  /\ PhraseOfTokens(<<Plain("type"), Declare(x), T("semicolon", "ends")>>)
               /\ PhraseOfTokens(<<Plain("type"), Plain("leftBracket"), Use(x),
                                   Plain("rightBracket"), Declare(x), Plain("assign"),
                                   Use(x), T("semicolon", "ends")>>)
    BY <2>1 DEF PhraseOfTokens
  <2> QED BY <1>0, <1>4, <2>2 DEF Declarations
<1>5. ASSUME NEW x \in Names PROVE LoopHead(x) \in Seq(Token)
  <2>1. /\ Plain("for") \in Token /\ Plain("leftParen") \in Token /\ Plain("in") \in Token
        /\ Declare(x) \in Token /\ Use(x) \in Token
    BY PlainTokens, NameTokens, Vocabulary
  <2> QED BY <2>1 DEF LoopHead
<1>6. ASSUME NEW s \in Statements PROVE PhraseOfTokens(s)
  <2>0. /\ Plain("rightParen") \in Token /\ Plain("leftParen") \in Token
        /\ Plain("semicolon") \in Token /\ Open("loop") \in Token /\ Open("block") \in Token
        /\ \A x \in Names : Use(x) \in Token
    BY PlainTokens, NameTokens, Vocabulary DEF Open
  <2>1. ASSUME NEW x \in Names PROVE PhraseOfTokens(LoopHead(x) \o <<Plain("rightParen"), Open("loop")>>)
    BY <1>5, <2>0 DEF PhraseOfTokens
  <2>2. ASSUME NEW f \in Names, NEW x \in Names
        PROVE  PhraseOfTokens(<<Use(f), Plain("leftParen"), Use(x), Plain("rightParen"),
                                Plain("semicolon")>>)
    BY <2>0 DEF PhraseOfTokens
  <2>3. PhraseOfTokens(<<Open("block")>>)
    BY <2>0 DEF PhraseOfTokens
  <2>4. CASE s \in {LoopHead(x) \o <<Plain("rightParen"), Open("loop")>> : x \in VariableNames}
    BY <2>4, <1>0, <2>1
  <2>5. CASE s \in {<<Use(f), Plain("leftParen"), Use(x), Plain("rightParen"), Plain("semicolon")>> :
                     f \in FunctionNames, x \in VariableNames}
    <3>1. PICK f \in FunctionNames, x \in VariableNames :
            s = <<Use(f), Plain("leftParen"), Use(x), Plain("rightParen"), Plain("semicolon")>>
      BY <2>5
    <3> QED BY <1>0, <2>2, <3>1
  <2> QED BY <1>6, <2>3, <2>4, <2>5 DEF Statements
<1> QED BY <1>0, <1>1, <1>2, <1>3, <1>4, <1>6 DEF Phrases

-----------------------------------------------------------------------------
(* Whatever is typed, one token at a time *)

AnalysisInv == DelimiterInv /\ pending \in Seq(Token)

(* A phrase, or what is left of one, is written from its head. *)
LEMMA WriteKeepsDelimiters ==
  ASSUME AnalysisInv, NEW p, PhraseOfTokens(p), Write(p)
  PROVE  AnalysisInv'
<1>1. Head(p) \in Token /\ Tail(p) \in Seq(Token)
  BY DEF PhraseOfTokens
<1>2. CASE Type(p)
  BY <1>1, <1>2, ReadKeepsDelimiters DEF AnalysisInv, Type
<1>3. CASE Slip(p)
  <2>1. delimiterVars' = delimiterVars /\ pending' = Tail(p)
    BY <1>3 DEF Slip
  <2> QED BY <1>1, <2>1, DelimitersStay DEF AnalysisInv
<1> QED BY <1>2, <1>3 DEF Write

(* The delimiters are in order at every point of every text. *)
THEOREM DelimitersHold == Spec => []AnalysisInv
<1>1. Init => AnalysisInv
  BY InitDelimiters DEF Init, AnalysisInv
<1>2. AnalysisInv /\ [Next]_vars => AnalysisInv'
  <2> SUFFICES ASSUME AnalysisInv, [Next]_vars PROVE AnalysisInv'
    OBVIOUS
  <2>1. CASE Continue
    BY <2>1, WriteKeepsDelimiters DEF Continue, AnalysisInv, PhraseOfTokens
  <2>2. CASE Begin
    BY <2>2, PhrasesAreTokens, WriteKeepsDelimiters DEF Begin
  <2>3. CASE Analyze
    BY <2>3, DelimitersStay DEF Analyze, authorVars, AnalysisInv
  <2>4. CASE UNCHANGED vars
    BY <2>4, DelimitersStay DEF vars, authorVars, AnalysisInv
  <2> QED BY <2>1, <2>2, <2>3, <2>4 DEF Next
<1> QED BY <1>1, <1>2, PTL DEF Spec

(* Between the two delimiters of a pair every opener is paired before the     *)
(* pair ends, in texts of every length, whatever was left out of them         *)
(* (match_delimiters).                                                        *)
THEOREM PairsAlwaysNest == Spec => []PairsNest
<1>1. AnalysisInv => PairsNest
  BY DEF AnalysisInv, DelimiterInv
<1> QED BY <1>1, DelimitersHold, PTL

(* No delimiter is lost and none is reported twice: it is paired, or it waits *)
(* on the stack, or it is among the unmatched (match_delimiters).             *)
THEOREM DelimitersAlwaysAccounted == Spec => []DelimitersAreAccountedFor
<1>1. AnalysisInv => DelimitersAreAccountedFor
  BY DEF AnalysisInv, DelimiterInv
<1> QED BY <1>1, DelimitersHold, PTL

-----------------------------------------------------------------------------
(* Least and greatest of a set of naturals. *)

LEMMA LeastExists ==
  ASSUME NEW S \in SUBSET Nat, S # {}
  PROVE  \E m \in S : \A n \in S : m <= n
<1> DEFINE Less == {p \in Nat \X Nat : p[1] < p[2]}
<1>1. IsWellFoundedOn(Less, Nat)
  BY NatLessThanWellFounded, Zenon DEF OpToRel
<1>2. PICK m \in S : \A n \in S : <<n, m>> \notin Less
  <2> HIDE DEF Less
  <2> QED BY <1>1, WFMin
<1>3. ASSUME NEW n \in S PROVE m <= n
  <2>1. <<n, m>> \notin Less /\ n \in Nat /\ m \in Nat
    BY <1>2
  <2>2. ~(n < m)
    BY <2>1
  <2> QED BY <2>1, <2>2
<1> QED
  BY <1>3

LEMMA MinIsLeast ==
  ASSUME NEW S \in SUBSET Nat, S # {}
  PROVE  Min(S) \in S /\ \A n \in S : Min(S) <= n
<1>1. \E m \in S : \A n \in S : m <= n
  BY LeastExists
<1> QED
  BY <1>1 DEF Min

LEMMA GreatestExists ==
  ASSUME NEW S \in SUBSET Nat, S # {}, NEW b \in Nat, \A s \in S : s <= b
  PROVE  \E m \in S : \A n \in S : m >= n
<1> DEFINE D == {b - s : s \in S}
<1>1. D \in SUBSET Nat /\ D # {}
  <2>1. \A s \in S : b - s \in Nat
    OBVIOUS
  <2>2. PICK s \in S : TRUE
    OBVIOUS
  <2>3. b - s \in D
    BY <2>2
  <2> QED BY <2>1, <2>3
<1>2. PICK d \in D : \A e \in D : d <= e
  <2> HIDE DEF D
  <2> QED BY <1>1, LeastExists
<1>3. PICK m \in S : d = b - m
  BY <1>2
<1>4. ASSUME NEW n \in S PROVE m >= n
  <2>1. b - n \in D
    OBVIOUS
  <2>2. b - m <= b - n /\ n \in Nat /\ m \in Nat
    BY <1>2, <1>3, <2>1
  <2> QED BY <2>2
<1> QED
  BY <1>4

LEMMA MaxIsGreatest ==
  ASSUME NEW S \in SUBSET Nat, S # {}, NEW b \in Nat, \A s \in S : s <= b
  PROVE  Max(S) \in S /\ \A n \in S : Max(S) >= n
<1>1. \E m \in S : \A n \in S : m >= n
  BY GreatestExists
<1> QED
  BY <1>1 DEF Max

(* The first of a set of positions, 0 if there is none. *)
LEMMA FirstIsLeast ==
  ASSUME NEW S \in SUBSET (Nat \ {0})
  PROVE  /\ First(S) = 0 <=> S = {}
         /\ First(S) # 0 => First(S) \in S /\ \A n \in S : First(S) <= n
<1>1. CASE S = {}
  BY <1>1 DEF First
<1>2. CASE S # {}
  <2>1. Min(S) \in S /\ \A n \in S : Min(S) <= n
    BY <1>2, MinIsLeast
  <2> QED
    BY <1>2, <2>1 DEF First
<1> QED
  BY <1>1, <1>2

-----------------------------------------------------------------------------
(* Sorting: by how many elements are below it, a finite set in a strict total *)
(* order has one element at every place.                                      *)

LEMMA Ranked ==
  ASSUME NEW S, IsFiniteSet(S), NEW R,
         \A r \in S : <<r, r>> \notin R,
         \A r, s, t \in S : <<r, s>> \in R /\ <<s, t>> \in R => <<r, t>> \in R,
         \A r, s \in S : r # s => <<r, s>> \in R \/ <<s, r>> \in R
  PROVE  /\ Cardinality(S) \in Nat
         /\ \A r \in S : Cardinality({s \in S : <<s, r>> \in R}) + 1 \in 1 .. Cardinality(S)
         /\ \A n \in 1 .. Cardinality(S) :
              \E r \in S : Cardinality({s \in S : <<s, r>> \in R}) = n - 1
         /\ \A r, t \in S :
              Cardinality({s \in S : <<s, r>> \in R}) = Cardinality({s \in S : <<s, t>> \in R})
                => r = t
<1> DEFINE Below(r) == {s \in S : <<s, r>> \in R}
           N == Cardinality(S)
           f == [r \in S |-> Cardinality(Below(r))]
<1>1. N \in Nat
  BY FS_CardinalityType
<1>2. ASSUME NEW r \in S
      PROVE  /\ IsFiniteSet(Below(r)) /\ Cardinality(Below(r)) \in Nat
             /\ Cardinality(Below(r)) < N
  <2>1. Below(r) \in SUBSET S /\ r \notin Below(r)
    OBVIOUS
  <2> HIDE DEF Below
  <2>2. IsFiniteSet(Below(r)) /\ Cardinality(Below(r)) <= N /\ Cardinality(Below(r)) # N
    BY <2>1, FS_Subset
  <2>3. Cardinality(Below(r)) \in Nat
    BY <2>2, FS_CardinalityType
  <2> QED
    BY <1>1, <2>2, <2>3
<1>3. ASSUME NEW r \in S, NEW t \in S, <<r, t>> \in R
      PROVE  Cardinality(Below(r)) < Cardinality(Below(t))
  <2>1. Below(r) \in SUBSET Below(t) /\ r \in Below(t) /\ r \notin Below(r)
    BY <1>3
  <2>2. IsFiniteSet(Below(t)) /\ Cardinality(Below(t)) \in Nat /\ Cardinality(Below(r)) \in Nat
    BY <1>2
  <2> HIDE DEF Below
  <2>3. Cardinality(Below(r)) <= Cardinality(Below(t))
        /\ Cardinality(Below(r)) # Cardinality(Below(t))
    BY <2>1, <2>2, FS_Subset
  <2> QED
    BY <2>2, <2>3
<1>4. ASSUME NEW r \in S, NEW t \in S, Cardinality(Below(r)) = Cardinality(Below(t))
      PROVE  r = t
  <2> DEFINE c == Cardinality(Below(r))
  <2>1. c \in Nat /\ c = Cardinality(Below(t))
    BY <1>2, <1>4
  <2>2. <<r, t>> \in R => c < c
    BY <1>3, <2>1
  <2>3. <<t, r>> \in R => c < c
    BY <1>3, <2>1
  <2> HIDE DEF c
  <2>4. ~ (c < c)
    BY <2>1
  <2> QED
    BY <2>2, <2>3, <2>4
<1>5. f \in Injection(S, 0 .. N - 1)
  <2>1. \A r \in S : Cardinality(Below(r)) \in 0 .. N - 1
    <3> SUFFICES ASSUME NEW r \in S PROVE Cardinality(Below(r)) \in 0 .. N - 1
      OBVIOUS
    <3>1. Cardinality(Below(r)) \in Nat /\ Cardinality(Below(r)) < N
      BY <1>2
    <3> HIDE DEF Below, N
    <3> QED BY <1>1, <3>1
  <2> HIDE DEF Below, N
  <2>2. f \in [S -> 0 .. N - 1]
    BY <2>1
  <2>3. \A r, t \in S : f[r] = f[t] => r = t
    BY <1>4
  <2> HIDE DEF f
  <2> QED BY <2>2, <2>3 DEF Injection, IsInjective
<1>6. IsFiniteSet(0 .. N - 1) /\ Cardinality(0 .. N - 1) = N
  <2>1. 0 \in Int /\ N - 1 \in Int /\ (0 > N - 1 <=> N = 0) /\ (N - 1) - 0 + 1 = N
    BY <1>1
  <2> HIDE DEF N
  <2> QED BY <2>1, FS_Interval
<1>7. f \in Surjection(S, 0 .. N - 1)
  <2> HIDE DEF f
  <2> QED BY <1>5, <1>6, FS_Injection
<1>8. ASSUME NEW n \in 1 .. N
      PROVE  \E r \in S : Cardinality(Below(r)) = n - 1
  <2>1. n - 1 \in 0 .. N - 1
    BY <1>1
  <2>2. \A m \in 0 .. N - 1 : \E r \in S : f[r] = m
    <3> HIDE DEF f, N
    <3> QED BY <1>7 DEF Surjection
  <2> HIDE DEF Below, N
  <2> QED BY <2>1, <2>2
<1>9. \A r \in S : Cardinality(Below(r)) + 1 \in 1 .. N
  <2> HIDE DEF Below, N
  <2> QED BY <1>1, <1>2
<1> QED
  BY <1>1, <1>4, <1>8, <1>9

-----------------------------------------------------------------------------
(* Nodes: every range of the tree has a token in it and lies in the text. *)

NodeRanges ==
  {r \in [start : 1 .. Len(text), end : 1 .. Len(text) + 1] : r.start < r.end}

LEMMA EndIsBehind ==
  ASSUME DelimiterTypeOK, PairsNest, NEW i \in 1 .. Len(text)
  PROVE  EndOf(i) \in 1 .. Len(text) /\ i <= EndOf(i)
<1>1. CASE i \in DOMAIN pairs
  <2>1. i < pairs[i] /\ pairs[i] \in 1 .. Len(text)
    BY <1>1 DEF DelimiterTypeOK, PairsNest
  <2>2. EndOf(i) = pairs[i]
    BY <1>1 DEF EndOf
  <2> QED BY <2>1, <2>2
<1>2. CASE i \notin DOMAIN pairs
  BY <1>2 DEF EndOf
<1> QED BY <1>1, <1>2

LEMMA SpanIsNode ==
  ASSUME text \in Seq(Token), NEW i \in 1 .. Len(text), NEW j \in 1 .. Len(text), i <= j
  PROVE  Span(i, j) \in NodeRanges /\ Span(i, j).start = i /\ Span(i, j).end = j + 1
<1>1. /\ i \in Nat /\ j \in Nat /\ Len(text) \in Nat
      /\ j + 1 \in 1 .. Len(text) + 1 /\ i < j + 1
  OBVIOUS
<1>2. Span(i, j) \in [start : 1 .. Len(text), end : 1 .. Len(text) + 1]
  BY <1>1 DEF Span
<1> QED
  BY <1>1, <1>2 DEF Span, NodeRanges

LEMMA KindsAreInText ==
  ASSUME text \in Seq(Token), NEW i, KindAt(i) # "none"
  PROVE  i \in 1 .. Len(text) /\ KindAt(i) = text[i].kind
<1>1. DOMAIN text = 1 .. Len(text)
  OBVIOUS
<1> QED BY <1>1 DEF KindAt

LEMMA OfIsKind ==
  ASSUME text \in Seq(Token), NEW kind, kind # "none", NEW S, NEW i \in Of(kind, S)
  PROVE  i \in S /\ i \in 1 .. Len(text) /\ KindAt(i) = kind
<1>1. i \in S /\ KindAt(i) = kind
  BY DEF Of
<1> QED
  BY <1>1, KindsAreInText

LEMMA StatementsStart ==
  ASSUME text \in Seq(Token), NEW i \in 1 .. Len(text)
  PROVE  /\ StatementStart(i) \in 1 .. Len(text)
         /\ StatementStart(i) <= i
         /\ StatementStart(i) # i => KindAt(StatementStart(i)) # "leftBrace"
<1> DEFINE B == {0} \cup {b \in 1 .. i - 1 :
                            KindAt(b) \in {"leftBrace", "rightBrace", "semicolon"}}
<1>1. B \in SUBSET Nat /\ B # {} /\ i - 1 \in Nat /\ \A b \in B : b <= i - 1
  OBVIOUS
<1>2. Max(B) \in B /\ \A b \in B : Max(B) >= b
  <2> HIDE DEF B
  <2> QED BY <1>1, MaxIsGreatest
<1>3. StatementStart(i) = 1 + Max(B)
  BY DEF StatementStart
<1> DEFINE m == Max(B)
<1>4. m \in Nat /\ m <= i - 1 /\ StatementStart(i) = 1 + m
  <2> HIDE DEF B
  <2> QED BY <1>1, <1>2, <1>3
<1>5. ASSUME 1 + m # i, KindAt(1 + m) = "leftBrace" PROVE FALSE
  <2>1. 1 + m \in 1 .. i - 1 /\ ~(m >= 1 + m)
    <3> HIDE DEF m
    <3> QED BY <1>4, <1>5
  <2>2. 1 + m \in B
    <3> HIDE DEF m
    <3> QED BY <2>1, <1>5
  <2>3. m >= 1 + m
    <3> HIDE DEF B
    <3> QED BY <1>2, <2>2
  <2> QED BY <2>1, <2>3
<1>6. 1 + m \in 1 .. Len(text) /\ 1 + m <= i
  <2> HIDE DEF m
  <2> QED BY <1>4
<1> QED
  <2> HIDE DEF m
  <2> QED BY <1>4, <1>5, <1>6

LEMMA BracesFollow ==
  ASSUME DelimiterTypeOK, PairsNest, NEW i \in 1 .. Len(text), BraceAfter(i) # 0
  PROVE  /\ BraceAfter(i) \in 1 .. Len(text) /\ i + 1 < BraceAfter(i)
         /\ KindAt(BraceAfter(i)) = "leftBrace"
         /\ KindAt(i + 1) = "leftParen"
<1>1. /\ KindAt(i + 1) = "leftParen" /\ i + 1 \in DOMAIN pairs
      /\ BraceAfter(i) = pairs[i + 1] + 1
      /\ KindAt(pairs[i + 1] + 1) = "leftBrace"
  BY DEF BraceAfter
<1>2. i + 1 < pairs[i + 1] /\ pairs[i + 1] \in 1 .. Len(text)
  BY <1>1 DEF DelimiterTypeOK, PairsNest
<1>3. BraceAfter(i) \in 1 .. Len(text)
  BY <1>1, KindsAreInText DEF DelimiterTypeOK
<1> QED
  BY <1>1, <1>2, <1>3

(* The compound statement of a brace, and the others, which begin elsewhere. *)
LEMMA CompoundsAreNodes ==
  ASSUME DelimiterTypeOK, PairsNest
  PROVE  /\ CompoundStatements \subseteq NodeRanges
         /\ \A r \in CompoundStatements : KindAt(r.start) = "leftBrace"
<1> SUFFICES ASSUME NEW r \in CompoundStatements
             PROVE  r \in NodeRanges /\ KindAt(r.start) = "leftBrace"
  OBVIOUS
<1>1. PICK i \in Of("leftBrace", DOMAIN text) : r = Span(i, EndOf(i))
  BY DEF CompoundStatements
<1>2. i \in 1 .. Len(text) /\ KindAt(i) = "leftBrace" /\ text \in Seq(Token)
  BY OfIsKind DEF DelimiterTypeOK
<1> QED
  BY <1>1, <1>2, EndIsBehind, SpanIsNode

LEMMA ForsAreNodes ==
  ASSUME DelimiterTypeOK, PairsNest
  PROVE  /\ ForStatements \subseteq NodeRanges
         /\ \A r \in ForStatements : KindAt(r.start) = "for"
<1> SUFFICES ASSUME NEW r \in ForStatements
             PROVE  r \in NodeRanges /\ KindAt(r.start) = "for"
  OBVIOUS
<1>1. PICK i \in Of("for", DOMAIN text) : BraceAfter(i) # 0 /\ r = Span(i, EndOf(BraceAfter(i)))
  BY DEF ForStatements
<1>2. i \in 1 .. Len(text) /\ KindAt(i) = "for" /\ text \in Seq(Token)
  BY OfIsKind DEF DelimiterTypeOK
<1>3. BraceAfter(i) \in 1 .. Len(text) /\ i + 1 < BraceAfter(i)
  BY <1>1, <1>2, BracesFollow
<1>4. EndOf(BraceAfter(i)) \in 1 .. Len(text) /\ BraceAfter(i) <= EndOf(BraceAfter(i))
  BY <1>3, EndIsBehind
<1>5. i <= EndOf(BraceAfter(i))
  BY <1>2, <1>3, <1>4
<1> QED
  BY <1>1, <1>2, <1>4, <1>5, SpanIsNode

LEMMA FunctionsAreNodes ==
  ASSUME DelimiterTypeOK, PairsNest
  PROVE  /\ FunctionDeclarations \subseteq NodeRanges
         /\ \A r \in FunctionDeclarations :
              /\ KindAt(r.start) # "leftBrace"
              /\ \E i \in 1 .. Len(text) :
                   /\ KindAt(i) = "identifier" /\ KindAt(i + 1) = "leftParen"
                   /\ r.start <= i /\ i + 1 < r.end
<1> SUFFICES ASSUME NEW r \in FunctionDeclarations
             PROVE  /\ r \in NodeRanges
                    /\ KindAt(r.start) # "leftBrace"
                    /\ \E i \in 1 .. Len(text) :
                         /\ KindAt(i) = "identifier" /\ KindAt(i + 1) = "leftParen"
                         /\ r.start <= i /\ i + 1 < r.end
  BY Zenon
<1>1. PICK i \in Of("identifier", DOMAIN text) :
        BraceAfter(i) # 0 /\ r = Span(StatementStart(i), EndOf(BraceAfter(i)))
  BY DEF FunctionDeclarations
<1>2. i \in 1 .. Len(text) /\ KindAt(i) = "identifier" /\ text \in Seq(Token)
  BY OfIsKind DEF DelimiterTypeOK
<1>3. /\ BraceAfter(i) \in 1 .. Len(text) /\ i + 1 < BraceAfter(i)
      /\ KindAt(i + 1) = "leftParen"
  BY <1>1, <1>2, BracesFollow
<1>4. EndOf(BraceAfter(i)) \in 1 .. Len(text) /\ BraceAfter(i) <= EndOf(BraceAfter(i))
  BY <1>3, EndIsBehind
<1>5. /\ StatementStart(i) \in 1 .. Len(text) /\ StatementStart(i) <= i
      /\ StatementStart(i) # i => KindAt(StatementStart(i)) # "leftBrace"
  BY <1>2, StatementsStart
<1>6. StatementStart(i) <= EndOf(BraceAfter(i)) /\ i + 1 < EndOf(BraceAfter(i)) + 1
  BY <1>2, <1>3, <1>4, <1>5
<1>7. /\ r \in NodeRanges /\ r.start = StatementStart(i)
      /\ r.end = EndOf(BraceAfter(i)) + 1
  BY <1>1, <1>2, <1>4, <1>5, <1>6, SpanIsNode
<1> QED
  BY <1>2, <1>3, <1>5, <1>6, <1>7

LEMMA VariablesAreNodes ==
  ASSUME DelimiterTypeOK
  PROVE  VariableDeclarations \subseteq NodeRanges
<1> SUFFICES ASSUME NEW r \in VariableDeclarations PROVE r \in NodeRanges
  OBVIOUS
<1>1. PICK i \in Of("semicolon", DOMAIN text) : r = Span(StatementStart(i), i)
  BY DEF VariableDeclarations
<1>2. i \in 1 .. Len(text) /\ text \in Seq(Token)
  BY OfIsKind DEF DelimiterTypeOK
<1>3. StatementStart(i) \in 1 .. Len(text) /\ StatementStart(i) <= i
  BY <1>2, StatementsStart
<1> QED
  BY <1>1, <1>2, <1>3, SpanIsNode

LEMMA NodesAreFinite ==
  ASSUME text \in Seq(Token), NEW S \in SUBSET NodeRanges
  PROVE  IsFiniteSet(S)
<1> DEFINE n == Len(text)
           UpTo(m) == {r \in NodeRanges : r.start <= m}
           Infinite == {m \in 0 .. n : ~ IsFiniteSet(UpTo(m))}
<1>1. n \in Nat
  OBVIOUS
<1>2. ASSUME NEW r \in NodeRanges
      PROVE  r.start \in 1 .. n /\ r.end \in 1 .. n + 1 /\ r = [start |-> r.start, end |-> r.end]
  BY DEF NodeRanges
<1>3. UpTo(0) = {}
  BY <1>2
<1>4. ASSUME NEW m \in Nat PROVE IsFiniteSet({r \in NodeRanges : r.start = m})
  <2> DEFINE At == {r \in NodeRanges : r.start = m}
             f == [r \in At |-> r.end]
  <2>1. f \in [At -> 1 .. n + 1]
    BY <1>2
  <2>2. \A r, s \in At : f[r] = f[s] => r = s
    BY <1>2
  <2>3. IsFiniteSet(1 .. n + 1)
    <3>1. 1 \in Int /\ n + 1 \in Int
      BY <1>1
    <3> HIDE DEF n
    <3> QED BY <3>1, FS_Interval
  <2> HIDE DEF At, f, n
  <2>4. f \in Injection(At, 1 .. n + 1)
    BY <2>1, <2>2 DEF Injection, IsInjective
  <2>5. IsFiniteSet(At)
    BY <2>3, <2>4, FS_Injection
  <2> QED BY <2>5 DEF At
<1>5. Infinite = {}
  <2> SUFFICES ASSUME Infinite # {} PROVE FALSE
    OBVIOUS
  <2>1. Infinite \in SUBSET Nat
    BY <1>1
  <2>2. PICK m \in Infinite : \A k \in Infinite : m <= k
    <3> HIDE DEF Infinite
    <3> QED BY <2>1, LeastExists
  <2>3. m \in 0 .. n /\ ~ IsFiniteSet(UpTo(m))
    OBVIOUS
  <2>4. m # 0
    <3> HIDE DEF UpTo
    <3> QED BY <1>3, <2>3, FS_EmptySet
  <2>5. m - 1 \in 0 .. n /\ m \in Nat /\ m - 1 \in Nat /\ ~(m <= m - 1)
    BY <1>1, <2>3, <2>4
  <2>6. IsFiniteSet(UpTo(m - 1))
    BY <2>2, <2>5
  <2>7. UpTo(m) = UpTo(m - 1) \cup {r \in NodeRanges : r.start = m}
    BY <1>2, <2>5
  <2>8. IsFiniteSet({r \in NodeRanges : r.start = m})
    BY <1>4, <2>5
  <2> HIDE DEF UpTo
  <2>9. IsFiniteSet(UpTo(m - 1) \cup {r \in NodeRanges : r.start = m})
    BY <2>6, <2>8, FS_Union
  <2> QED BY <2>3, <2>7, <2>9
<1>6. IsFiniteSet(UpTo(n))
  <2>1. n \in 0 .. n
    BY <1>1
  <2> HIDE DEF UpTo, n
  <2> QED BY <1>5, <2>1
<1>7. NodeRanges = UpTo(n)
  BY <1>2
<1> HIDE DEF UpTo
<1> QED
  BY <1>6, <1>7, FS_Subset

-----------------------------------------------------------------------------
(* The order of nodes: by start, of several the longest first. *)

LEMMA NodesAreSorted ==
  ASSUME text \in Seq(Token), NEW S \in SUBSET NodeRanges
  PROVE  /\ Cardinality(S) \in Nat
         /\ Sorted(S) \in [1 .. Cardinality(S) -> S]
         /\ \A r \in S : \E k \in 1 .. Cardinality(S) : Sorted(S)[k] = r
         /\ \A k, m \in 1 .. Cardinality(S) : Sorted(S)[k] = Sorted(S)[m] => k = m
         /\ \A k, m \in 1 .. Cardinality(S) : Before(Sorted(S)[k], Sorted(S)[m]) => k < m
<1> DEFINE R == {p \in NodeRanges \X NodeRanges : Before(p[1], p[2])}
           Below(r) == {s \in S : Before(s, r)}
           BelowIn(r) == {s \in S : <<s, r>> \in R}
           N == Cardinality(S)
<1>1. ASSUME NEW r \in NodeRanges
      PROVE  r.start \in Nat /\ r.end \in Nat /\ r = [start |-> r.start, end |-> r.end]
  BY DEF NodeRanges
<1>2. \A r \in S : <<r, r>> \notin R
  BY <1>1 DEF Before
<1>3. \A r, s, t \in S : <<r, s>> \in R /\ <<s, t>> \in R => <<r, t>> \in R
  <2> SUFFICES ASSUME NEW r \in S, NEW s \in S, NEW t \in S, Before(r, s), Before(s, t)
               PROVE  Before(r, t)
    OBVIOUS
  <2> QED BY <1>1 DEF Before
<1>4. \A r, s \in S : r # s => <<r, s>> \in R \/ <<s, r>> \in R
  <2> SUFFICES ASSUME NEW r \in S, NEW s \in S, r # s PROVE Before(r, s) \/ Before(s, r)
    OBVIOUS
  <2>1. r.start # s.start \/ r.end # s.end
    BY <1>1
  <2> QED BY <1>1, <2>1 DEF Before
<1>5. \A r \in S : BelowIn(r) = Below(r)
  OBVIOUS
<1>6. /\ N \in Nat
      /\ \A r \in S : Cardinality(BelowIn(r)) + 1 \in 1 .. N
      /\ \A n \in 1 .. N : \E r \in S : Cardinality(BelowIn(r)) = n - 1
      /\ \A r, t \in S : Cardinality(BelowIn(r)) = Cardinality(BelowIn(t)) => r = t
  <2>1. IsFiniteSet(S)
    BY NodesAreFinite
  <2> HIDE DEF R
  <2> QED BY <1>2, <1>3, <1>4, <2>1, Ranked
<1>7. Sorted(S) = [k \in 1 .. N |-> CHOOSE r \in S : Cardinality(Below(r)) = k - 1]
  BY DEF Sorted, InOrder
<1> HIDE DEF N, R
<1>8. /\ \A r \in S : Cardinality(Below(r)) + 1 \in 1 .. N
      /\ \A n \in 1 .. N : \E r \in S : Cardinality(Below(r)) = n - 1
      /\ \A r, t \in S : Cardinality(Below(r)) = Cardinality(Below(t)) => r = t
  <2> HIDE DEF Below, BelowIn
  <2> QED BY <1>5, <1>6
<1> HIDE DEF Below
<1>9. ASSUME NEW k \in 1 .. N
      PROVE  Sorted(S)[k] \in S /\ Cardinality(Below(Sorted(S)[k])) = k - 1
  <2>1. \E r \in S : Cardinality(Below(r)) = k - 1
    BY <1>8
  <2>2. Sorted(S)[k] = CHOOSE r \in S : Cardinality(Below(r)) = k - 1
    BY <1>7
  <2> QED BY <2>1, <2>2
<1>10. Sorted(S) \in [1 .. N -> S]
  BY <1>7, <1>9
<1>11. ASSUME NEW r \in S PROVE \E k \in 1 .. N : Sorted(S)[k] = r
  <2> DEFINE k == Cardinality(Below(r)) + 1
  <2>1. k \in 1 .. N
    BY <1>8
  <2>2. Cardinality(Below(r)) \in Nat
    <3>1. Below(r) \in SUBSET S
      BY DEF Below
    <3>2. IsFiniteSet(Below(r))
      BY <3>1, NodesAreFinite, FS_Subset
    <3> QED BY <3>2, FS_CardinalityType
  <2>3. k - 1 = Cardinality(Below(r))
    BY <2>2
  <2>4. Cardinality(Below(Sorted(S)[k])) = Cardinality(Below(r)) /\ Sorted(S)[k] \in S
    BY <1>9, <2>1, <2>3
  <2>5. Sorted(S)[k] = r
    BY <1>8, <2>4
  <2> QED BY <2>1, <2>5
<1>12. ASSUME NEW k \in 1 .. N, NEW m \in 1 .. N, Sorted(S)[k] = Sorted(S)[m]
       PROVE  k = m
  <2>1. k - 1 = m - 1
    BY <1>9, <1>12
  <2> QED BY <1>6, <2>1
<1>13. ASSUME NEW k \in 1 .. N, NEW m \in 1 .. N, Before(Sorted(S)[k], Sorted(S)[m])
       PROVE  k < m
  <2>1. PICK r \in S : r = Sorted(S)[k] /\ Cardinality(Below(r)) = k - 1
    BY <1>9
  <2>2. PICK t \in S : t = Sorted(S)[m] /\ Cardinality(Below(t)) = m - 1
    BY <1>9
  <2>3. Before(r, t)
    BY <1>13, <2>1, <2>2
  <2>4. Below(r) \subseteq Below(t)
    BY <1>1, <2>3 DEF Below, Before
  <2>5. r \in Below(t) /\ r \notin Below(r)
    BY <1>1, <2>3 DEF Below, Before
  <2>6. IsFiniteSet(Below(t))
    <3>1. Below(t) \in SUBSET S
      BY DEF Below
    <3> QED BY <3>1, NodesAreFinite, FS_Subset
  <2>7. Cardinality(Below(r)) <= Cardinality(Below(t)) /\ Cardinality(Below(r)) # Cardinality(Below(t))
    BY <2>4, <2>5, <2>6, FS_Subset
  <2> QED BY <1>6, <2>1, <2>2, <2>7
<1> QED
  BY <1>6, <1>10, <1>11, <1>12, <1>13 DEF N

-----------------------------------------------------------------------------
(* Scopes *)

(* The smallest range is one of the ranges it is looked for among, and none   *)
(* of them is smaller.                                                        *)
LEMMA SmallestIsAmong ==
  ASSUME NEW ranges, NEW I \in SUBSET Nat, I # {}, \A k \in I : SizeOf(ranges[k]) \in Nat
  PROVE  /\ Smallest(ranges, I) \in I
         /\ \A m \in I : SizeOf(ranges[Smallest(ranges, I)]) <= SizeOf(ranges[m])
<1> DEFINE size(k) == SizeOf(ranges[k])
           Sizes == {size(k) : k \in I}
<1>1. PICK least \in Sizes : \A other \in Sizes : least <= other
  <2>1. Sizes \in SUBSET Nat /\ Sizes # {}
    OBVIOUS
  <2> HIDE DEF Sizes
  <2> QED BY <2>1, LeastExists
<1> DEFINE Ties == {k \in I : size(k) = least}
<1>2. PICK k \in Ties : \A m \in Ties : k <= m
  <2>1. Ties \in SUBSET Nat /\ Ties # {}
    BY <1>1
  <2> HIDE DEF Ties
  <2> QED BY <2>1, LeastExists
<1>3. ASSUME NEW m \in I \ {k}
      PROVE  \/ SizeOf(ranges[k]) < SizeOf(ranges[m])
             \/ SizeOf(ranges[k]) = SizeOf(ranges[m]) /\ k < m
  <2>1. k \in I /\ size(k) = least /\ size(m) \in Nat /\ least \in Nat /\ least <= size(m)
    BY <1>1, <1>2
  <2>2. size(m) = least => k <= m /\ k # m /\ k \in Nat /\ m \in Nat
    BY <1>2
  <2> HIDE DEF size, Ties
  <2>3. least < size(m) \/ (size(m) = least /\ k < m)
    BY <2>1, <2>2
  <2> QED BY <2>1, <2>3 DEF size
<1>4. k \in I
  BY <1>2
<1> HIDE DEF Ties, Sizes
<1>5. PICK c : c = Smallest(ranges, I)
  OBVIOUS
<1>6. /\ c \in I
      /\ \A m \in I \ {c} : \/ SizeOf(ranges[c]) < SizeOf(ranges[m])
                            \/ SizeOf(ranges[c]) = SizeOf(ranges[m]) /\ c < m
  BY <1>3, <1>4, <1>5, Zenon DEF Smallest
<1>7. ASSUME NEW m \in I PROVE SizeOf(ranges[c]) <= SizeOf(ranges[m])
  <2>1. CASE m = c
    BY <2>1
  <2>2. CASE m # c
    BY <1>6, <2>2
  <2> QED BY <2>1, <2>2
<1> QED
  BY <1>5, <1>6, <1>7

(* What the readers of the scopes rely on. *)
ScopesOK(scopes) ==
  /\ \E n \in Nat \ {0} : DOMAIN scopes = 1 .. n
  /\ scopes[Root].parent = 0 /\ scopes[Root].kind = "root"
  /\ \A k \in DOMAIN scopes :
       /\ scopes[k].range.start \in Nat /\ scopes[k].range.end \in Nat
       /\ SizeOf(scopes[k].range) \in Nat
       /\ Encloses(RootRange, scopes[k].range)
       /\ Margin # 0 /\ scopes[k].range \in FunctionDeclarations \cup ForStatements =>
            scopes[k].kind \in {"function", "loop"}
  /\ \A k \in DOMAIN scopes \ {Root} :
       /\ scopes[k].parent \in 1 .. k - 1
       /\ Encloses(scopes[scopes[k].parent].range, scopes[k].range)
  /\ \A r \in FunctionDeclarations \cup ForStatements :
       \E k \in DOMAIN scopes : scopes[k].range = r

LEMMA ScopedRangesAreNodes ==
  ASSUME DelimiterTypeOK, PairsNest
  PROVE  ScopedRanges \subseteq NodeRanges
  BY CompoundsAreNodes, ForsAreNodes, FunctionsAreNodes DEF ScopedRanges

LEMMA NodesAreInRoot ==
  ASSUME text \in Seq(Token), NEW r \in NodeRanges
  PROVE  /\ r.start \in Nat /\ r.end \in Nat
         /\ SizeOf(r) \in Nat /\ Encloses(RootRange, r)
         /\ Margin # 0 => r # RootRange
<1>1. /\ Len(text) \in Nat /\ Margin \in Nat
      /\ r.start \in 1 .. Len(text) /\ r.end \in 1 .. Len(text) + 1 /\ r.start < r.end
  BY MarginAssumption DEF NodeRanges
<1>2. SizeOf(r) \in Nat
  BY <1>1 DEF SizeOf
<1>3. RootRange.start = 1 /\ RootRange.end = Len(text) + 1 + Margin
  BY DEF RootRange
<1>4. 1 <= r.start /\ r.end <= Len(text) + 1 + Margin
  BY <1>1
<1>5. Margin # 0 => r.end # Len(text) + 1 + Margin
  BY <1>1
<1> QED
  BY <1>1, <1>2, <1>3, <1>4, <1>5 DEF Encloses

LEMMA RootHasSize ==
  ASSUME text \in Seq(Token)
  PROVE  /\ RootRange.start \in Nat /\ RootRange.end \in Nat
         /\ SizeOf(RootRange) \in Nat /\ Encloses(RootRange, RootRange)
<1>1. Len(text) \in Nat /\ Margin \in Nat
  BY MarginAssumption
<1>2. (Len(text) + 1 + Margin) - 1 \in Nat /\ 1 <= 1
      /\ Len(text) + 1 + Margin <= Len(text) + 1 + Margin
      /\ 1 \in Nat /\ Len(text) + 1 + Margin \in Nat
  BY <1>1
<1> QED
  BY <1>2 DEF SizeOf, RootRange, Encloses

(* A function's or a loop's range is no compound statement's: its kind stays. *)
LEMMA KindsOfScopes ==
  ASSUME DelimiterTypeOK, PairsNest, NEW r \in FunctionDeclarations \cup ForStatements, NEW p
  PROVE  ScopeKind(r, p) \in {"function", "loop"}
<1>1. KindAt(r.start) # "leftBrace"
  BY ForsAreNodes, FunctionsAreNodes
<1>2. r \notin CompoundStatements
  BY <1>1, CompoundsAreNodes
<1>3. RequestedKind(r) \in {"function", "loop"}
  BY <1>2 DEF RequestedKind
<1>4. ScopeKind(r, p) = RequestedKind(r)
  BY <1>3 DEF ScopeKind
<1> QED
  BY <1>3, <1>4

LEMMA ScopesAreBuilt ==
  ASSUME DelimiterTypeOK, PairsNest
  PROVE  ScopesOK(BuildScopes)
<1> DEFINE sorted == Sorted(ScopedRanges)
           ranges == <<RootRange>> \o sorted
           N == Cardinality(ScopedRanges)
           scopes == [k \in DOMAIN ranges |->
                        IF k = Root THEN [range |-> RootRange, parent |-> 0, kind |-> "root"]
                        ELSE [range |-> ranges[k], parent |-> ParentOf(ranges, k),
                              kind |-> ScopeKind(ranges[k], ParentOf(ranges, k))]]
<1>0. text \in Seq(Token) /\ ScopedRanges \in SUBSET NodeRanges
  BY ScopedRangesAreNodes DEF DelimiterTypeOK
<1>1. BuildScopes = scopes
  BY DEF BuildScopes
<1>2. /\ N \in Nat /\ sorted \in [1 .. N -> ScopedRanges]
      /\ \A r \in ScopedRanges : \E k \in 1 .. N : sorted[k] = r
  BY <1>0, NodesAreSorted
<1>3. /\ DOMAIN ranges = 1 .. N + 1
      /\ ranges[1] = RootRange
      /\ \A k \in 2 .. N + 1 : ranges[k] = sorted[k - 1]
  <2>1. sorted \in Seq(ScopedRanges) /\ Len(sorted) = N
    <3> HIDE DEF N, sorted
    <3> QED BY <1>2
  <2> HIDE DEF N, sorted
  <2> QED BY <1>2, <2>1
<1> HIDE DEF sorted, N, ranges
<1>4. ASSUME NEW k \in 2 .. N + 1
      PROVE  ranges[k] \in ScopedRanges /\ ranges[k] \in NodeRanges
  <2>1. k - 1 \in 1 .. N
    BY <1>2
  <2> QED BY <1>0, <1>2, <1>3, <2>1
<1>5. ASSUME NEW k \in 1 .. N + 1
      PROVE  /\ ranges[k].start \in Nat /\ ranges[k].end \in Nat
             /\ SizeOf(ranges[k]) \in Nat /\ Encloses(RootRange, ranges[k])
  <2>1. CASE k = 1
    BY <1>0, <1>3, <2>1, RootHasSize
  <2>2. CASE k # 1
    <3>1. k \in 2 .. N + 1
      BY <2>2
    <3> QED BY <1>0, <1>4, <3>1, NodesAreInRoot
  <2> QED BY <2>1, <2>2
<1>6. ASSUME NEW k \in 2 .. N + 1
      PROVE  /\ ParentOf(ranges, k) \in 1 .. k - 1
             /\ Encloses(ranges[ParentOf(ranges, k)], ranges[k])
  <2> DEFINE enclosing == {m \in 1 .. k - 1 : ranges[m] # ranges[k]
                                              /\ Encloses(ranges[m], ranges[k])}
  <2>1. ParentOf(ranges, k) = IF enclosing = {} THEN Root ELSE Smallest(ranges, enclosing)
    BY DEF ParentOf
  <2>2. CASE enclosing = {}
    <3>1. 1 \in 1 .. k - 1 /\ k \in 1 .. N + 1
      BY <1>2
    <3> QED BY <1>3, <1>5, <2>1, <2>2, <3>1 DEF Root
  <2>3. CASE enclosing # {}
    <3>1. enclosing \in SUBSET Nat /\ \A m \in enclosing : m \in 1 .. N + 1
      BY <1>2
    <3>2. \A m \in enclosing : SizeOf(ranges[m]) \in Nat
      <4> HIDE DEF enclosing
      <4> QED BY <1>5, <3>1
    <3>3. Smallest(ranges, enclosing) \in enclosing
      <4> HIDE DEF enclosing
      <4> QED BY <2>3, <3>1, <3>2, SmallestIsAmong
    <3> QED BY <2>1, <2>3, <3>3
  <2> QED BY <2>2, <2>3
<1>7. DOMAIN scopes = 1 .. N + 1 /\ N + 1 \in Nat \ {0}
  BY <1>2, <1>3
<1>8. scopes[1] = [range |-> RootRange, parent |-> 0, kind |-> "root"]
  <2>1. 1 \in 1 .. N + 1
    BY <1>2
  <2> QED BY <1>3, <2>1 DEF Root
<1>9. ASSUME NEW k \in 2 .. N + 1
      PROVE  /\ scopes[k].range = ranges[k]
             /\ scopes[k].parent = ParentOf(ranges, k)
             /\ scopes[k].kind = ScopeKind(ranges[k], ParentOf(ranges, k))
  <2>1. k \in 1 .. N + 1 /\ k # 1
    BY <1>2
  <2> QED BY <1>3, <2>1 DEF Root
<1> HIDE DEF scopes
<1>10. ASSUME NEW k \in 1 .. N + 1
       PROVE  scopes[k].range = ranges[k]
  <2>1. k = 1 \/ k \in 2 .. N + 1
    OBVIOUS
  <2> QED BY <1>3, <1>8, <1>9, <2>1
<1>11. \A k \in DOMAIN scopes :
         /\ scopes[k].range.start \in Nat /\ scopes[k].range.end \in Nat
         /\ SizeOf(scopes[k].range) \in Nat
         /\ Encloses(RootRange, scopes[k].range)
  BY <1>5, <1>7, <1>10
<1>12. ASSUME NEW k \in DOMAIN scopes, Margin # 0,
              scopes[k].range \in FunctionDeclarations \cup ForStatements
       PROVE  scopes[k].kind \in {"function", "loop"}
  <2>1. scopes[k].range # RootRange
    BY <1>0, <1>12, NodesAreInRoot, ForsAreNodes, FunctionsAreNodes
  <2>2. k \in 2 .. N + 1
    BY <1>2, <1>3, <1>7, <1>10, <2>1
  <2>3. scopes[k].kind = ScopeKind(scopes[k].range, ParentOf(ranges, k))
    BY <1>9, <2>2
  <2> QED BY <1>12, <2>3, KindsOfScopes
<1>13. ASSUME NEW k \in DOMAIN scopes \ {Root}
       PROVE  /\ scopes[k].parent \in 1 .. k - 1
              /\ Encloses(scopes[scopes[k].parent].range, scopes[k].range)
  <2>1. k \in 2 .. N + 1
    BY <1>7 DEF Root
  <2>2. scopes[k].parent = ParentOf(ranges, k) /\ scopes[k].range = ranges[k]
    BY <1>9, <2>1
  <2>3. ParentOf(ranges, k) \in 1 .. k - 1 /\ Encloses(ranges[ParentOf(ranges, k)], ranges[k])
    BY <1>6, <2>1
  <2>4. ParentOf(ranges, k) \in 1 .. N + 1
    BY <1>2, <2>1, <2>3
  <2> QED BY <1>10, <2>2, <2>3, <2>4
<1>14. ASSUME NEW r \in FunctionDeclarations \cup ForStatements
       PROVE  \E k \in DOMAIN scopes : scopes[k].range = r
  <2>1. PICK k \in 1 .. N : sorted[k] = r
    BY <1>2 DEF ScopedRanges
  <2>2. k + 1 \in 2 .. N + 1 /\ k + 1 \in 1 .. N + 1 /\ (k + 1) - 1 = k
    BY <1>2
  <2>3. ranges[k + 1] = r
    BY <1>3, <2>1, <2>2
  <2> QED BY <1>7, <1>10, <2>2, <2>3
<1>15. ScopesOK(scopes)
  BY <1>7, <1>8, <1>11, <1>12, <1>13, <1>14 DEF ScopesOK, Root
<1> QED
  BY <1>1, <1>15

-----------------------------------------------------------------------------
(* What the typed views read lies in the node they read it off. *)

LEMMA MatchesAreInside ==
  ASSUME text \in Seq(Token), NEW node, NEW open, NEW opener, NEW closer, closer # "none",
         MatchingPosition(node, open, opener, closer) # 0
  PROVE  /\ MatchingPosition(node, open, opener, closer) \in open .. node.end - 1
         /\ MatchingPosition(node, open, opener, closer) \in 1 .. Len(text)
<1> DEFINE M == {k \in Of(closer, open .. node.end - 1) :
                   Cardinality(Of(opener, open .. k)) = Cardinality(Of(closer, open .. k))}
<1>1. \A k \in M : k \in open .. node.end - 1 /\ k \in 1 .. Len(text)
  BY OfIsKind, ZenonT(30)
<1>2. MatchingPosition(node, open, opener, closer) = First(M)
  BY DEF MatchingPosition
<1>3. First(M) \in M
  <2>1. M \in SUBSET (Nat \ {0})
    BY <1>1
  <2> HIDE DEF M
  <2> QED BY <1>2, <2>1, FirstIsLeast
<1> HIDE DEF M
<1> QED
  BY <1>1, <1>2, <1>3

LEMMA BodiesStartInText ==
  ASSUME text \in Seq(Token), NEW node
  PROVE  BodyRange(node).start \in 0 .. Len(text)
<1> DEFINE B == Of("leftBrace", TokensOf(node))
           open == First(B)
<1>1. \A k \in B : k \in 1 .. Len(text)
  BY OfIsKind
<1>2. open # 0 => open \in B
  <2>1. B \in SUBSET (Nat \ {0})
    BY <1>1
  <2> HIDE DEF B
  <2> QED BY <2>1, FirstIsLeast
<1>3. open \in 0 .. Len(text)
  <2>1. Len(text) \in Nat
    OBVIOUS
  <2> HIDE DEF B
  <2> QED BY <1>1, <1>2, <2>1
<1>4. BodyRange(node).start \in {0, open}
  BY DEF BodyRange, NoRange, Span
<1> QED
  <2>1. Len(text) \in Nat
    OBVIOUS
  <2> HIDE DEF open
  <2> QED BY <1>3, <1>4, <2>1

LEMMA NamesAreBetween ==
  ASSUME text \in Seq(Token), NEW from \in Nat, NEW to \in Int, DeclarationName(from, to) # 0
  PROVE  /\ DeclarationName(from, to) \in from .. to
         /\ DeclarationName(from, to) \in 1 .. Len(text)
         /\ KindAt(DeclarationName(from, to)) = "identifier"
<1> DEFINE Types == Of("type", from .. to)
           type  == First(Types)
           I == {k \in Of("identifier", type .. to) :
                   /\ Depth(type, k, "leftParen", "rightParen") = 0
                   /\ Depth(type, k, "leftBracket", "rightBracket") = 0
                   /\ Depth(type, k, "lessThan", "greaterThan") = 0}
<1>1. DeclarationName(from, to) = IF type = 0 THEN 0 ELSE First(I)
  BY DEF DeclarationName
<1>2. type # 0 /\ First(I) # 0
  BY <1>1
<1>3. \A k \in Types : k \in from .. to /\ k \in 1 .. Len(text)
  BY OfIsKind
<1>4. type \in from .. to
  <2>1. Types \in SUBSET (Nat \ {0})
    BY <1>3
  <2> HIDE DEF Types
  <2> QED BY <1>2, <1>3, <2>1, FirstIsLeast
<1> HIDE DEF type, Types
<1>5. \A k \in I : k \in type .. to /\ k \in 1 .. Len(text) /\ KindAt(k) = "identifier"
  BY OfIsKind
<1>6. First(I) \in I
  <2>1. I \in SUBSET (Nat \ {0})
    BY <1>5
  <2> HIDE DEF I
  <2> QED BY <1>2, <2>1, FirstIsLeast
<1> HIDE DEF I
<1>7. /\ First(I) \in type .. to /\ First(I) \in 1 .. Len(text)
      /\ KindAt(First(I)) = "identifier"
  BY <1>5, <1>6
<1>8. First(I) \in from .. to
  BY <1>4, <1>7
<1> QED
  BY <1>1, <1>2, <1>7, <1>8

(* A function declaration has a name, its parenthesis behind it. *)
LEMMA FunctionsAreNamed ==
  ASSUME DelimiterTypeOK, PairsNest, NEW function \in FunctionDeclarations
  PROVE  /\ FunctionName(function) \in 1 .. Len(text)
         /\ KindAt(FunctionName(function)) = "identifier"
         /\ function.start <= FunctionName(function)
         /\ FunctionName(function) + 1 < function.end
<1> DEFINE F == {k \in Of("identifier", TokensOf(function)) :
                   k + 1 \in Of("leftParen", TokensOf(function))}
<1>1. text \in Seq(Token) /\ function \in NodeRanges
  BY FunctionsAreNodes DEF DelimiterTypeOK
<1>2. function.start \in Nat /\ function.end \in Nat
  BY <1>1 DEF NodeRanges
<1>3. PICK i \in 1 .. Len(text) :
        /\ KindAt(i) = "identifier" /\ KindAt(i + 1) = "leftParen"
        /\ function.start <= i /\ i + 1 < function.end
  BY FunctionsAreNodes
<1>4. i \in F
  <2>1. i \in TokensOf(function) /\ i + 1 \in TokensOf(function)
    BY <1>2, <1>3 DEF TokensOf
  <2> QED BY <1>3, <2>1 DEF Of
<1>5. ASSUME NEW k \in F
      PROVE  /\ k \in 1 .. Len(text) /\ KindAt(k) = "identifier"
             /\ function.start <= k /\ k + 1 < function.end
  <2>1. /\ k \in 1 .. Len(text) /\ KindAt(k) = "identifier" /\ k \in TokensOf(function)
        /\ k + 1 \in TokensOf(function)
    BY <1>1, OfIsKind
  <2> QED BY <1>2, <2>1 DEF TokensOf
<1>6. FunctionName(function) = First(F)
  BY DEF FunctionName
<1>7. First(F) \in F
  <2>1. F \in SUBSET (Nat \ {0})
    BY <1>5
  <2> HIDE DEF F
  <2> QED BY <1>4, <2>1, FirstIsLeast
<1> HIDE DEF F
<1> QED
  BY <1>5, <1>6, <1>7

LEMMA ParametersAreInside ==
  ASSUME DelimiterTypeOK, PairsNest, NEW function \in FunctionDeclarations,
         NEW at \in ParameterNames(function)
  PROVE  /\ at \in 1 .. Len(text) /\ KindAt(at) = "identifier"
         /\ function.start <= at /\ at < function.end
         /\ FunctionName(function) + 1 < at
         /\ at < MatchingPosition(function, FunctionName(function) + 1, "leftParen", "rightParen")
<1> DEFINE open   == FunctionName(function) + 1
           close  == MatchingPosition(function, open, "leftParen", "rightParen")
           commas == {k \in Of("comma", open + 1 .. close - 1) :
                        /\ Depth(open + 1, k, "leftParen", "rightParen") = 0
                        /\ Depth(open + 1, k, "leftBracket", "rightBracket") = 0}
           Until(k) == {close} \cup {c \in commas : c > k}
<1>1. text \in Seq(Token) /\ function \in NodeRanges
  BY FunctionsAreNodes DEF DelimiterTypeOK
<1>2. function.start \in Nat /\ function.end \in Nat
  BY <1>1 DEF NodeRanges
<1>3. open \in Nat /\ function.start <= open /\ open < function.end
  BY <1>2, FunctionsAreNamed
<1> HIDE DEF open
<1>4. ParameterNames(function) =
        IF close = 0 THEN {}
        ELSE {DeclarationName(k + 1, Min(Until(k)) - 1) : k \in {open} \cup commas} \ {0}
  BY DEF ParameterNames, open
<1>5. close # 0
  BY <1>4
<1>6. close \in open .. function.end - 1 /\ close \in Nat
  <2>1. "rightParen" # "none"
    OBVIOUS
  <2> QED BY <1>1, <1>5, <2>1, MatchesAreInside
<1> HIDE DEF close
<1>7. \A c \in commas : c \in open + 1 .. close - 1 /\ c \in Nat
  <2> SUFFICES ASSUME NEW c \in commas PROVE c \in open + 1 .. close - 1 /\ c \in Nat
    OBVIOUS
  <2> DEFINE S == open + 1 .. close - 1
  <2>1. c \in Of("comma", S) /\ "comma" # "none"
    OBVIOUS
  <2> HIDE DEF commas, S
  <2>2. c \in S /\ c \in 1 .. Len(text)
    BY <1>1, <2>1, OfIsKind
  <2> QED BY <2>2 DEF S
<1> HIDE DEF commas
<1>8. PICK k \in {open} \cup commas : at = DeclarationName(k + 1, Min(Until(k)) - 1) /\ at # 0
  BY <1>4, <1>5
<1>9. k \in Nat /\ open <= k
  BY <1>3, <1>7, <1>8
<1>10. \A c \in Until(k) : c \in Nat /\ c <= close
  BY <1>6, <1>7
<1>11. Min(Until(k)) \in Until(k)
  <2>1. Until(k) \in SUBSET Nat /\ Until(k) # {}
    BY <1>10
  <2> HIDE DEF Until
  <2> QED BY <2>1, MinIsLeast
<1> HIDE DEF Until
<1> DEFINE m == Min(Until(k))
<1>12. m \in Nat /\ m <= close /\ k + 1 \in Nat /\ m - 1 \in Int
  BY <1>9, <1>10, <1>11
<1>13. /\ at \in k + 1 .. m - 1 /\ at \in 1 .. Len(text) /\ KindAt(at) = "identifier"
  <2>1. at = DeclarationName(k + 1, m - 1) /\ at # 0
    BY <1>8
  <2> HIDE DEF m
  <2> QED BY <1>1, <1>12, <2>1, NamesAreBetween
<1> HIDE DEF m
<1>14. function.start <= at /\ at < function.end /\ open < at /\ at < close
  BY <1>2, <1>3, <1>6, <1>9, <1>12, <1>13
<1> QED
  BY <1>13, <1>14 DEF open, close

LEMMA BindersAreInside ==
  ASSUME DelimiterTypeOK, PairsNest, NEW for \in ForStatements, Binder(for) # 0
  PROVE  /\ Binder(for) \in 1 .. Len(text) /\ KindAt(Binder(for)) = "identifier"
         /\ for.start <= Binder(for) /\ Binder(for) < for.end
         /\ Binder(for) < First(Of("in", TokensOf(for)))
<1> DEFINE Ins == Of("in", TokensOf(for))
           in  == First(Ins)
           I   == Of("identifier", for.start .. in - 1)
<1>1. text \in Seq(Token) /\ for \in NodeRanges
  BY ForsAreNodes DEF DelimiterTypeOK
<1>2. for.start \in Nat /\ for.end \in Nat
  BY <1>1 DEF NodeRanges
<1>3. \A k \in Ins : k \in 1 .. Len(text) /\ k < for.end
  <2> SUFFICES ASSUME NEW k \in Ins PROVE k \in 1 .. Len(text) /\ k < for.end
    OBVIOUS
  <2>1. k \in 1 .. Len(text) /\ k \in TokensOf(for)
    BY <1>1, OfIsKind
  <2> QED BY <1>2, <2>1 DEF TokensOf
<1>4. in \in Nat /\ in <= for.end
  <2>1. Ins \in SUBSET (Nat \ {0})
    BY <1>3
  <2>2. in = 0 \/ in \in Ins
    <3> HIDE DEF Ins
    <3> QED BY <2>1, FirstIsLeast
  <2> HIDE DEF Ins, in
  <2> QED BY <1>2, <1>3, <2>2
<1> HIDE DEF in, Ins
<1>5. \A k \in I : /\ k \in 1 .. Len(text) /\ KindAt(k) = "identifier"
                   /\ for.start <= k /\ k < for.end /\ k < in
  <2> SUFFICES ASSUME NEW k \in I
               PROVE  /\ k \in 1 .. Len(text) /\ KindAt(k) = "identifier"
                      /\ for.start <= k /\ k < for.end /\ k < in
    OBVIOUS
  <2>1. k \in 1 .. Len(text) /\ KindAt(k) = "identifier" /\ k \in for.start .. in - 1
    BY <1>1, OfIsKind, ZenonT(30)
  <2> QED BY <1>2, <1>4, <2>1
<1>6. Binder(for) = Max({0} \cup I)
  BY DEF Binder, in, Ins
<1>7. Max({0} \cup I) \in {0} \cup I
  <2>1. /\ {0} \cup I \in SUBSET Nat /\ {0} \cup I # {} /\ Len(text) \in Nat
        /\ \A s \in {0} \cup I : s <= Len(text)
    BY <1>1, <1>5
  <2> HIDE DEF I
  <2> QED BY <2>1, MaxIsGreatest
<1> HIDE DEF I
<1> QED
  BY <1>5, <1>6, <1>7 DEF in, Ins

-----------------------------------------------------------------------------
(* Symbols *)

(* Positions in ascending order. *)
LEMMA PositionsAreSorted ==
  ASSUME NEW b \in Nat, NEW S \in SUBSET (1 .. b)
  PROVE  /\ Cardinality(S) \in Nat /\ InOrder(S, <) \in [1 .. Cardinality(S) -> S]
         /\ \A k, m \in 1 .. Cardinality(S) : InOrder(S, <)[k] = InOrder(S, <)[m] => k = m
<1> DEFINE R == {p \in Nat \X Nat : p[1] < p[2]}
           Below(r) == {s \in S : s < r}
           BelowIn(r) == {s \in S : <<s, r>> \in R}
           N == Cardinality(S)
<1>1. \A r \in S : r \in Nat
  OBVIOUS
<1>2. \A r \in S : <<r, r>> \notin R
  BY <1>1
<1>3. \A r, s, t \in S : <<r, s>> \in R /\ <<s, t>> \in R => <<r, t>> \in R
  BY <1>1
<1>4. \A r, s \in S : r # s => <<r, s>> \in R \/ <<s, r>> \in R
  BY <1>1
<1>5. \A r \in S : BelowIn(r) = Below(r)
  BY <1>1
<1>6. /\ N \in Nat
      /\ \A n \in 1 .. N : \E r \in S : Cardinality(BelowIn(r)) = n - 1
  <2>1. IsFiniteSet(S)
    <3>1. S \in SUBSET Nat /\ \A s \in S : s <= b
      OBVIOUS
    <3> QED BY <3>1, FS_BoundedSetOfNaturals
  <2> HIDE DEF R
  <2>2. /\ Cardinality(S) \in Nat
        /\ \A r \in S : Cardinality({s \in S : <<s, r>> \in R}) + 1 \in 1 .. Cardinality(S)
        /\ \A n \in 1 .. Cardinality(S) :
             \E r \in S : Cardinality({s \in S : <<s, r>> \in R}) = n - 1
        /\ \A r, t \in S :
             Cardinality({s \in S : <<s, r>> \in R}) = Cardinality({s \in S : <<s, t>> \in R})
               => r = t
    BY <1>2, <1>3, <1>4, <2>1, Ranked
  <2> QED BY <2>2
<1>7. InOrder(S, <) = [k \in 1 .. N |-> CHOOSE r \in S : Cardinality(Below(r)) = k - 1]
  BY DEF InOrder
<1> HIDE DEF N, R
<1>8. \A n \in 1 .. N : \E r \in S : Cardinality(Below(r)) = n - 1
  <2> HIDE DEF Below, BelowIn
  <2> QED BY <1>5, <1>6
<1> HIDE DEF Below
<1>9. ASSUME NEW k \in 1 .. N
      PROVE  InOrder(S, <)[k] \in S /\ Cardinality(Below(InOrder(S, <)[k])) = k - 1
  <2>1. InOrder(S, <)[k] = CHOOSE r \in S : Cardinality(Below(r)) = k - 1
    BY <1>7
  <2> QED BY <1>8, <2>1
<1>10. ASSUME NEW k \in 1 .. N, NEW m \in 1 .. N, InOrder(S, <)[k] = InOrder(S, <)[m]
       PROVE  k = m
  <2>1. k - 1 = m - 1
    BY <1>9, <1>10
  <2> QED BY <1>6, <2>1
<1>11. InOrder(S, <) \in [1 .. N -> S]
  BY <1>7, <1>9
<1> QED
  BY <1>6, <1>10, <1>11 DEF N

(* The sequences of a sequence, one behind the other. *)
LEMMA FlattenedAreOf ==
  ASSUME NEW G, NEW seqs \in Seq(Seq(G))
  PROVE  FlattenSeq(seqs) \in Seq(G)
<1> DEFINE n == Len(seqs)
           Value(f, i) == IF i = 1 THEN seqs[i] ELSE f[i - 1] \o seqs[i]
           Flat(f, m) == f = [i \in 1 .. m |-> Value(f, i)]
           Bad == {m \in 1 .. n : ~ \E f : Flat(f, m)}
<1>0. n \in Nat /\ \A i \in 1 .. n : seqs[i] \in Seq(G)
  OBVIOUS
<1>1. CASE n = 0
  <2>1. seqs = <<>> /\ FlattenSeq(seqs) = seqs
    BY <1>1 DEF FlattenSeq
  <2>2. <<>> \in Seq(G)
    OBVIOUS
  <2> QED BY <2>1, <2>2, Zenon
<1>2. CASE n # 0
  <2>1. Bad = {}
    <3> SUFFICES ASSUME Bad # {} PROVE FALSE
      OBVIOUS
    <3>1. Bad \in SUBSET Nat
      <4> HIDE DEF Flat, n
      <4> QED BY <1>0
    <3>2. PICK m \in Bad : \A k \in Bad : m <= k
      <4> HIDE DEF Bad
      <4> QED BY <3>1, LeastExists
    <3>3. m \in 1 .. n /\ ~ \E f : Flat(f, m)
      OBVIOUS
    <3>4. CASE m = 1
      <4> DEFINE g == [i \in 1 .. 1 |-> seqs[i]]
      <4>1. \A i \in 1 .. 1 : Value(g, i) = seqs[i]
        OBVIOUS
      <4>2. Flat(g, 1)
        <5> HIDE DEF Value
        <5> QED BY <4>1
      <4> HIDE DEF Flat
      <4> QED BY <3>3, <3>4, <4>2
    <3>5. CASE m # 1
      <4>1. m - 1 \in 1 .. n /\ m \in Nat /\ m - 1 \in Nat /\ ~(m <= m - 1)
        BY <1>0, <3>3, <3>5
      <4>2. m - 1 \notin Bad
        <5> HIDE DEF Bad
        <5> QED BY <3>2, <4>1
      <4>3. PICK g : Flat(g, m - 1)
        BY <4>1, <4>2
      <4> DEFINE h == [i \in 1 .. m |-> IF i = m THEN g[m - 1] \o seqs[m] ELSE g[i]]
      <4>4. \A i \in 1 .. m - 1 : h[i] = g[i]
        BY <4>1
      <4>5. ASSUME NEW i \in 1 .. m PROVE h[i] = Value(h, i)
        <5>1. CASE i = m
          <6>1. m - 1 \in 1 .. m - 1 /\ m \in 1 .. m
            BY <4>1, <3>3
          <6>2. h[m - 1] = g[m - 1] /\ h[m] = g[m - 1] \o seqs[m]
            BY <4>4, <6>1
          <6> HIDE DEF h
          <6> QED BY <3>5, <5>1, <6>2
        <5>2. CASE i # m
          <6>1. i \in 1 .. m - 1 /\ (i # 1 => i - 1 \in 1 .. m - 1)
            BY <4>1, <5>2
          <6>2. h[i] = g[i] /\ (i # 1 => h[i - 1] = g[i - 1])
            BY <4>4, <6>1
          <6>3. g[i] = Value(g, i)
            BY <4>3, <6>1
          <6> HIDE DEF h
          <6> QED BY <6>2, <6>3
        <5> QED BY <5>1, <5>2
      <4>6. Flat(h, m)
        <5>1. h = [i \in 1 .. m |-> h[i]]
          OBVIOUS
        <5> HIDE DEF h, Value
        <5> QED BY <4>5, <5>1
      <4> HIDE DEF Flat, h
      <4> QED BY <3>3, <4>6
    <3> QED BY <3>4, <3>5
  <2>2. \E f : Flat(f, n)
    <3>1. n \in 1 .. n
      BY <1>0, <1>2
    <3> HIDE DEF n, Flat
    <3> QED BY <2>1, <3>1
  <2> DEFINE flatten == CHOOSE f : Flat(f, n)
  <2>3. FlattenSeq(seqs) = flatten[n]
    BY <1>2, Zenon DEF FlattenSeq
  <2>4. Flat(flatten, n)
    <3> HIDE DEF Flat, n
    <3> QED BY <2>2, Zenon
  <2>5. \A i \in 1 .. n : flatten[i] = Value(flatten, i)
    <3> HIDE DEF Value, n, flatten
    <3> QED BY <2>4
  <2> HIDE DEF flatten
  <2> DEFINE Odd == {i \in 1 .. n : flatten[i] \notin Seq(G)}
  <2>6. Odd = {}
    <3> SUFFICES ASSUME Odd # {} PROVE FALSE
      OBVIOUS
    <3>1. Odd \in SUBSET Nat
      BY <1>0
    <3>2. PICK i \in Odd : \A k \in Odd : i <= k
      <4> HIDE DEF Odd
      <4> QED BY <3>1, LeastExists
    <3>3. i \in 1 .. n /\ flatten[i] \notin Seq(G)
      OBVIOUS
    <3>4. flatten[i] = Value(flatten, i) /\ seqs[i] \in Seq(G)
      <4> HIDE DEF Value, n
      <4> QED BY <1>0, <2>5, <3>3
    <3>5. i # 1
      BY <3>3, <3>4
    <3>6. i - 1 \in 1 .. n /\ i \in Nat /\ i - 1 \in Nat /\ ~(i <= i - 1)
      BY <1>0, <3>3, <3>5
    <3>7. i - 1 \notin Odd
      <4> HIDE DEF Odd
      <4> QED BY <3>2, <3>6
    <3>8. flatten[i - 1] \in Seq(G)
      BY <3>6, <3>7
    <3>9. flatten[i - 1] \o seqs[i] \in Seq(G)
      BY <3>4, <3>8
    <3> QED BY <3>3, <3>4, <3>5, <3>9
  <2>7. flatten[n] \in Seq(G)
    <3>1. n \in 1 .. n
      BY <1>0, <1>2
    <3> HIDE DEF n
    <3> QED BY <2>6, <3>1
  <2> QED BY <2>3, <2>7
<1> QED
  BY <1>1, <1>2

(* What the readers of a symbol rely on. *)
GoodSymbols(scopes) ==
  {s \in [at : 1 .. Len(text),
          kind : ProgramKinds \cup {"function", "parameter", "local", "loop"},
          scope : DOMAIN scopes, visibleFrom : 0 .. Len(text) + 1] :
     /\ KindAt(s.at) = "identifier"
     /\ s.scope # Root => Encloses(scopes[s.scope].range, Span(s.at, s.at))
     /\ Margin # 0 /\ s.kind \in {"parameter", "loop"} =>
          scopes[s.scope].kind \in {"function", "loop"}}

LEMMA SymbolIsGood ==
  ASSUME text \in Seq(Token), NEW scopes,
         NEW at \in 1 .. Len(text), KindAt(at) = "identifier",
         NEW kind \in ProgramKinds \cup {"function", "parameter", "local", "loop"},
         NEW scope \in DOMAIN scopes,
         scope # Root => /\ scopes[scope].range.start \in Nat
                         /\ scopes[scope].range.end \in Nat
                         /\ Holds(scopes[scope].range, at),
         Margin # 0 /\ kind \in {"parameter", "loop"} =>
           scopes[scope].kind \in {"function", "loop"},
         NEW visibleFrom \in 0 .. Len(text) + 1
  PROVE  Symbol(at, kind, scope, visibleFrom) \in GoodSymbols(scopes)
<1>1. scope # Root => Encloses(scopes[scope].range, Span(at, at))
  <2> SUFFICES ASSUME scope # Root PROVE Encloses(scopes[scope].range, Span(at, at))
    OBVIOUS
  <2> DEFINE s == scopes[scope].range.start
             e == scopes[scope].range.end
  <2>1. s \in Nat /\ e \in Nat /\ s <= at /\ at < e
    BY DEF Holds
  <2>2. s <= at /\ at + 1 <= e
    <3> HIDE DEF s, e
    <3> QED BY <2>1
  <2> QED BY <2>2 DEF Encloses, Span
<1>2. Symbol(at, kind, scope, visibleFrom) \in
        [at : 1 .. Len(text),
         kind : ProgramKinds \cup {"function", "parameter", "local", "loop"},
         scope : DOMAIN scopes, visibleFrom : 0 .. Len(text) + 1]
  BY DEF Symbol
<1>3. /\ Symbol(at, kind, scope, visibleFrom).at = at
      /\ Symbol(at, kind, scope, visibleFrom).kind = kind
      /\ Symbol(at, kind, scope, visibleFrom).scope = scope
  BY DEF Symbol
<1> QED
  BY <1>1, <1>2, <1>3 DEF GoodSymbols

LEMMA RootIsAScope ==
  ASSUME NEW scopes, ScopesOK(scopes)
  PROVE  Root \in DOMAIN scopes /\ \A k \in DOMAIN scopes : k \in Nat \ {0}
  BY DEF ScopesOK, Root

LEMMA ScopesAreFound ==
  ASSUME NEW scopes, ScopesOK(scopes), NEW r \in FunctionDeclarations \cup ForStatements
  PROVE  /\ ScopeWithRange(scopes, r) \in DOMAIN scopes
         /\ scopes[ScopeWithRange(scopes, r)].range = r
         /\ r.start \in Nat /\ r.end \in Nat
         /\ Margin # 0 => scopes[ScopeWithRange(scopes, r)].kind \in {"function", "loop"}
<1> DEFINE S == {k \in DOMAIN scopes : scopes[k].range = r}
<1>1. S # {}
  BY DEF ScopesOK
<1>2. S \in SUBSET (Nat \ {0})
  BY RootIsAScope
<1>3. First(S) \in S
  <2> HIDE DEF S
  <2> QED BY <1>1, <1>2, FirstIsLeast
<1>4. ScopeWithRange(scopes, r) \in S
  BY <1>3 DEF ScopeWithRange
<1>5. ScopeWithRange(scopes, r) \in DOMAIN scopes /\ scopes[ScopeWithRange(scopes, r)].range = r
  BY <1>4
<1> QED
  BY <1>5 DEF ScopesOK

LEMMA ScopeAtHolds ==
  ASSUME NEW scopes, ScopesOK(scopes), NEW offset
  PROVE  /\ ScopeAt(scopes, offset) \in DOMAIN scopes
         /\ ScopeAt(scopes, offset) # Root => Holds(scopes[ScopeAt(scopes, offset)].range, offset)
<1> DEFINE holding == {k \in DOMAIN scopes : Holds(scopes[k].range, offset)}
           ranges == [k \in DOMAIN scopes |-> scopes[k].range]
<1>1. ScopeAt(scopes, offset) = IF holding = {} THEN Root ELSE Smallest(ranges, holding)
  BY DEF ScopeAt
<1>2. CASE holding = {}
  BY <1>1, <1>2, RootIsAScope
<1>3. CASE holding # {}
  <2>1. holding \in SUBSET Nat
    BY RootIsAScope
  <2>2. \A k \in holding : SizeOf(ranges[k]) \in Nat
    BY DEF ScopesOK
  <2>3. Smallest(ranges, holding) \in holding
    <3> HIDE DEF holding, ranges
    <3> QED BY <1>3, <2>1, <2>2, SmallestIsAmong
  <2> QED BY <1>1, <1>3, <2>3
<1> QED
  BY <1>2, <1>3

LEMMA FunctionSymbolsAreGood ==
  ASSUME DelimiterTypeOK, PairsNest, NEW scopes, ScopesOK(scopes),
         NEW function \in FunctionDeclarations
  PROVE  FunctionSymbols(scopes, function) \in Seq(GoodSymbols(scopes))
<1> DEFINE body   == BodyRange(function)
           scope  == ScopeWithRange(scopes, function)
           names  == IF body = NoRange THEN {} ELSE ParameterNames(function)
           sorted == InOrder(names, <)
           Parameter(at) == Symbol(at, "parameter", scope, body.start)
           head == Symbol(FunctionName(function), "function", Root, 0)
           rest == [k \in DOMAIN sorted |-> Parameter(sorted[k])]
           G == GoodSymbols(scopes)
<1>1. FunctionSymbols(scopes, function) = <<head>> \o rest
  BY DEF FunctionSymbols
<1>2. text \in Seq(Token) /\ Len(text) \in Nat
  BY DEF DelimiterTypeOK
<1>3. head \in G
  <2>1. /\ FunctionName(function) \in 1 .. Len(text)
        /\ KindAt(FunctionName(function)) = "identifier"
        /\ Root \in DOMAIN scopes /\ 0 \in 0 .. Len(text) + 1
    BY <1>2, FunctionsAreNamed, RootIsAScope
  <2> QED BY <1>2, <2>1, SymbolIsGood
<1>4. ASSUME NEW at \in names PROVE Parameter(at) \in G
  <2>1. /\ at \in 1 .. Len(text) /\ KindAt(at) = "identifier"
        /\ function.start <= at /\ at < function.end
    BY ParametersAreInside
  <2>2. body.start \in 0 .. Len(text) + 1
    <3>1. body.start \in 0 .. Len(text)
      BY <1>2, BodiesStartInText
    <3> HIDE DEF body
    <3> QED BY <1>2, <3>1
  <2>3. /\ scope \in DOMAIN scopes /\ scopes[scope].range = function
        /\ function.start \in Nat /\ function.end \in Nat
        /\ Margin # 0 => scopes[scope].kind \in {"function", "loop"}
    BY ScopesAreFound
  <2>4. Holds(scopes[scope].range, at)
    BY <2>1, <2>3 DEF Holds
  <2> HIDE DEF scope, body
  <2> QED BY <1>2, <2>1, <2>2, <2>3, <2>4, SymbolIsGood
<1>5. Cardinality(names) \in Nat /\ sorted \in [1 .. Cardinality(names) -> names]
  <2>1. names \in SUBSET (1 .. Len(text))
    BY ParametersAreInside
  <2> HIDE DEF names
  <2> QED BY <1>2, <2>1, PositionsAreSorted
<1> HIDE DEF names, sorted, Parameter, head, G
<1>6. rest \in [1 .. Cardinality(names) -> G]
  BY <1>4, <1>5
<1>7. rest \in Seq(G)
  <2> HIDE DEF rest
  <2> QED BY <1>5, <1>6
<1> HIDE DEF rest
<1>8. <<head>> \in Seq(G)
  BY <1>3
<1>9. <<head>> \o rest \in Seq(G)
  BY <1>7, <1>8
<1> QED
  BY <1>1, <1>9 DEF G

LEMMA VariableSymbolsAreGood ==
  ASSUME DelimiterTypeOK, PairsNest, NEW scopes, ScopesOK(scopes),
         NEW declaration \in VariableDeclarations
  PROVE  VariableSymbols(scopes, declaration) \in Seq(GoodSymbols(scopes))
<1> DEFINE at == DeclaredName(declaration)
           scope == ScopeAt(scopes, at)
           block == FirstKind({b \in ProgramBlocks : Holds(b.range, at)})
           program == scopes[scope].kind \in BlockKinds /\ block \in ProgramKinds
           kind == IF program THEN block ELSE "local"
           home == IF program THEN Root ELSE scope
           G == GoodSymbols(scopes)
<1>1. VariableSymbols(scopes, declaration) =
        IF at = 0 THEN <<>> ELSE <<Symbol(at, kind, home, declaration.end)>>
  BY DEF VariableSymbols
<1>2. text \in Seq(Token) /\ Len(text) \in Nat /\ declaration \in NodeRanges
  BY VariablesAreNodes DEF DelimiterTypeOK
<1>3. CASE at = 0
  <2>1. <<>> \in Seq(G)
    OBVIOUS
  <2> HIDE DEF at, G
  <2> QED BY <1>1, <1>3, <2>1 DEF G
<1>4. CASE at # 0
  <2>1. declaration.start \in Nat /\ declaration.end - 1 \in Int
        /\ declaration.end \in 0 .. Len(text) + 1
    BY <1>2 DEF NodeRanges
  <2>2. at \in 1 .. Len(text) /\ KindAt(at) = "identifier"
    BY <1>2, <1>4, <2>1, NamesAreBetween DEF DeclaredName
  <2> HIDE DEF at
  <2>3. scope \in DOMAIN scopes /\ (scope # Root => Holds(scopes[scope].range, at))
    BY ScopeAtHolds
  <2>4. /\ kind \in ProgramKinds \cup {"function", "parameter", "local", "loop"}
        /\ kind \notin {"parameter", "loop"}
    <3>1. "parameter" \notin ProgramKinds /\ "loop" \notin ProgramKinds
      BY DEF ProgramKinds, BlockKinds, BlockHeaders
    <3> HIDE DEF block, scope
    <3> QED BY <3>1
  <2> HIDE DEF kind, scope, block
  <2>5. home \in DOMAIN scopes /\ (home # Root => home = scope)
    BY <2>3, RootIsAScope
  <2> HIDE DEF home
  <2>6. home # Root => /\ scopes[home].range.start \in Nat /\ scopes[home].range.end \in Nat
                       /\ Holds(scopes[home].range, at)
    BY <2>3, <2>5 DEF ScopesOK
  <2>7. Symbol(at, kind, home, declaration.end) \in G
    BY <1>2, <2>1, <2>2, <2>4, <2>5, <2>6, SymbolIsGood
  <2> HIDE DEF G
  <2>8. <<Symbol(at, kind, home, declaration.end)>> \in Seq(G)
    BY <2>7
  <2> QED BY <1>1, <1>4, <2>8 DEF G
<1> QED
  BY <1>3, <1>4

LEMMA LoopSymbolsAreGood ==
  ASSUME DelimiterTypeOK, PairsNest, NEW scopes, ScopesOK(scopes), NEW for \in ForStatements
  PROVE  LoopSymbols(scopes, for) \in Seq(GoodSymbols(scopes))
<1> DEFINE at == Binder(for)
           scope == ScopeWithRange(scopes, for)
           from == BodyRange(for).start
           symbol == Symbol(at, "loop", scope, from)
           G == GoodSymbols(scopes)
<1>1. LoopSymbols(scopes, for) \in {<<>>, <<symbol>>}
      /\ (at = 0 => LoopSymbols(scopes, for) = <<>>)
  BY DEF LoopSymbols
<1>2. text \in Seq(Token) /\ Len(text) \in Nat
  BY DEF DelimiterTypeOK
<1>3. CASE at = 0
  <2>1. <<>> \in Seq(G)
    OBVIOUS
  <2> HIDE DEF at, G
  <2> QED BY <1>1, <1>3, <2>1 DEF G
<1>4. CASE at # 0
  <2>1. at \in 1 .. Len(text) /\ KindAt(at) = "identifier" /\ for.start <= at /\ at < for.end
    BY <1>4, BindersAreInside
  <2>2. from \in 0 .. Len(text) + 1
    <3>1. from \in 0 .. Len(text)
      BY <1>2, BodiesStartInText
    <3> HIDE DEF from
    <3> QED BY <1>2, <3>1
  <2>3. /\ scope \in DOMAIN scopes /\ scopes[scope].range = for
        /\ for.start \in Nat /\ for.end \in Nat
        /\ Margin # 0 => scopes[scope].kind \in {"function", "loop"}
    BY ScopesAreFound
  <2>4. Holds(scopes[scope].range, at)
    BY <2>1, <2>3 DEF Holds
  <2>5. symbol \in G
    <3> HIDE DEF at, scope, from
    <3> QED BY <1>2, <2>1, <2>2, <2>3, <2>4, SymbolIsGood
  <2>6. <<symbol>> \in Seq(G) /\ <<>> \in Seq(G)
    <3> HIDE DEF symbol, G
    <3> QED BY <2>5
  <2> HIDE DEF symbol, G
  <2> QED BY <1>1, <2>6 DEF G
<1> QED
  BY <1>3, <1>4

LEMMA SymbolsAreAdded ==
  ASSUME DelimiterTypeOK, PairsNest, NEW scopes, ScopesOK(scopes)
  PROVE  AddSymbols(scopes) \in Seq(GoodSymbols(scopes))
<1> DEFINE functions == Sorted(FunctionDeclarations)
           variables == Sorted(VariableDeclarations)
           loops     == Sorted(ForStatements)
           F == [k \in DOMAIN functions |-> FunctionSymbols(scopes, functions[k])]
           V == [k \in DOMAIN variables |-> VariableSymbols(scopes, variables[k])]
           L == [k \in DOMAIN loops |-> LoopSymbols(scopes, loops[k])]
           G == GoodSymbols(scopes)
<1>1. text \in Seq(Token)
  BY DEF DelimiterTypeOK
<1>2. F \in Seq(Seq(G))
  <2> DEFINE N == Cardinality(FunctionDeclarations)
  <2>1. N \in Nat /\ functions \in [1 .. N -> FunctionDeclarations]
    BY <1>1, NodesAreSorted, FunctionsAreNodes
  <2> HIDE DEF functions, N
  <2>2. \A k \in 1 .. N : FunctionSymbols(scopes, functions[k]) \in Seq(G)
    BY <2>1, FunctionSymbolsAreGood
  <2> HIDE DEF G
  <2>3. F \in [1 .. N -> Seq(G)]
    BY <2>1, <2>2
  <2> HIDE DEF F
  <2> QED BY <2>1, <2>3
<1>3. V \in Seq(Seq(G))
  <2> DEFINE N == Cardinality(VariableDeclarations)
  <2>1. N \in Nat /\ variables \in [1 .. N -> VariableDeclarations]
    BY <1>1, NodesAreSorted, VariablesAreNodes
  <2> HIDE DEF variables, N
  <2>2. \A k \in 1 .. N : VariableSymbols(scopes, variables[k]) \in Seq(G)
    BY <2>1, VariableSymbolsAreGood
  <2> HIDE DEF G
  <2>3. V \in [1 .. N -> Seq(G)]
    BY <2>1, <2>2
  <2> HIDE DEF V
  <2> QED BY <2>1, <2>3
<1>4. L \in Seq(Seq(G))
  <2> DEFINE N == Cardinality(ForStatements)
  <2>1. N \in Nat /\ loops \in [1 .. N -> ForStatements]
    BY <1>1, NodesAreSorted, ForsAreNodes
  <2> HIDE DEF loops, N
  <2>2. \A k \in 1 .. N : LoopSymbols(scopes, loops[k]) \in Seq(G)
    BY <2>1, LoopSymbolsAreGood
  <2> HIDE DEF G
  <2>3. L \in [1 .. N -> Seq(G)]
    BY <2>1, <2>2
  <2> HIDE DEF L
  <2> QED BY <2>1, <2>3
<1>5. AddSymbols(scopes) = FlattenSeq(F) \o FlattenSeq(V) \o FlattenSeq(L)
  BY Zenon DEF AddSymbols
<1> HIDE DEF F, V, L, G
<1>6. FlattenSeq(F) \in Seq(G) /\ FlattenSeq(V) \in Seq(G) /\ FlattenSeq(L) \in Seq(G)
  BY <1>2, <1>3, <1>4, FlattenedAreOf
<1>7. FlattenSeq(F) \o FlattenSeq(V) \o FlattenSeq(L) \in Seq(G)
  BY <1>6
<1> QED
  BY <1>5, <1>7 DEF G

-----------------------------------------------------------------------------
(* Lookup *)

(* The way up: parents come before their children, so that it ends. *)
LEMMA ChainIs ==
  ASSUME NEW scopes, ScopesOK(scopes), NEW scope \in DOMAIN scopes
  PROVE  Chain(scopes, scope) = IF scopes[scope].parent = 0 THEN <<scope>>
                                ELSE <<scope>> \o Chain(scopes, scopes[scope].parent)
<1> DEFINE D == DOMAIN scopes
           Value(f, s) == IF scopes[s].parent = 0 THEN <<s>> ELSE <<s>> \o f[scopes[s].parent]
           Up(f, m) == f = [s \in 1 .. m |-> Value(f, s)]
<1>1. PICK n \in Nat \ {0} : D = 1 .. n
  BY DEF ScopesOK
<1>2. ASSUME NEW s \in 1 .. n, scopes[s].parent # 0
      PROVE  scopes[s].parent \in 1 .. s - 1
  <2>1. s # 1
    BY <1>2 DEF ScopesOK, Root
  <2> QED BY <1>1, <2>1 DEF ScopesOK, Root
<1> DEFINE Bad == {m \in 1 .. n : ~ \E f : Up(f, m)}
<1>3. Bad = {}
  <2> SUFFICES ASSUME Bad # {} PROVE FALSE
    OBVIOUS
  <2>1. Bad \in SUBSET Nat
    <3> HIDE DEF Up
    <3> QED OBVIOUS
  <2>2. PICK m \in Bad : \A k \in Bad : m <= k
    <3> HIDE DEF Bad
    <3> QED BY <2>1, LeastExists
  <2>3. m \in 1 .. n /\ ~ \E f : Up(f, m)
    OBVIOUS
  <2>4. \E g : \A i \in 1 .. m - 1 : g[i] = Value(g, i)
    <3>1. CASE m = 1
      BY <3>1
    <3>2. CASE m # 1
      <4>1. m - 1 \in 1 .. n /\ m \in Nat /\ m - 1 \in Nat /\ ~(m <= m - 1)
        BY <2>3, <3>2
      <4>2. m - 1 \notin Bad
        <5> HIDE DEF Bad
        <5> QED BY <2>2, <4>1
      <4>3. PICK g : Up(g, m - 1)
        BY <4>1, <4>2
      <4>4. \A i \in 1 .. m - 1 : g[i] = Value(g, i)
        <5> HIDE DEF Value
        <5> QED BY <4>3
      <4> QED BY <4>4
    <3> QED BY <3>1, <3>2
  <2>5. PICK g : \A i \in 1 .. m - 1 : g[i] = Value(g, i)
    BY <2>4
  <2> DEFINE h == [i \in 1 .. m |-> IF i = m THEN Value(g, m) ELSE g[i]]
  <2>6. \A i \in 1 .. m - 1 : h[i] = g[i]
    <3>1. \A i \in 1 .. m - 1 : i \in 1 .. m /\ i # m
      BY <2>3
    <3> HIDE DEF Value
    <3> QED BY <3>1
  <2>7. h[m] = Value(g, m)
    <3>1. m \in 1 .. m
      BY <2>3, SMTT(20)
    <3> HIDE DEF Value
    <3> QED BY <3>1
  <2>8. ASSUME NEW i \in 1 .. m PROVE h[i] = Value(h, i)
    <3>1. scopes[i].parent # 0 => scopes[i].parent \in 1 .. i - 1 /\ scopes[i].parent \in 1 .. m - 1
      <4>1. i \in 1 .. n
        BY <1>1, <2>3, SMTT(20)
      <4> QED BY <1>2, <2>3, <4>1
    <3>2. Value(h, i) = Value(g, i)
      <4>1. scopes[i].parent # 0 => h[scopes[i].parent] = g[scopes[i].parent]
        <5> HIDE DEF h
        <5> QED BY <2>6, <3>1
      <4> HIDE DEF h
      <4> QED BY <4>1
    <3>3. h[i] = Value(g, i)
      <4>1. i = m \/ i \in 1 .. m - 1
        BY <2>3
      <4> HIDE DEF h, Value
      <4> QED BY <2>5, <2>6, <2>7, <4>1
    <3> QED BY <3>2, <3>3
  <2>9. Up(h, m)
    <3>1. h = [i \in 1 .. m |-> h[i]]
      <4> HIDE DEF Value
      <4> QED OBVIOUS
    <3> HIDE DEF h, Value
    <3> QED BY <2>8, <3>1
  <2> HIDE DEF Up, h
  <2> QED BY <2>3, <2>9
<1> DEFINE Equation(f) == f = [s \in D |-> Value(f, s)]
           chain == CHOOSE f : Equation(f)
<1>4. \E f : Equation(f)
  <2>1. n \in 1 .. n
    OBVIOUS
  <2>2. \E f : Up(f, n)
    <3> HIDE DEF Up
    <3> QED BY <1>3, <2>1
  <2> HIDE DEF D, Value
  <2> QED BY <1>1, <2>2
<1>5. \A s \in D : Chain(scopes, s) = chain[s]
  BY Zenon DEF Chain
<1>6. Equation(chain)
  <2> HIDE DEF Equation
  <2> QED BY <1>4, Zenon
<1>7. \A s \in D : chain[s] = Value(chain, s)
  <2> HIDE DEF Value, D, chain
  <2> QED BY <1>6
<1> HIDE DEF chain
<1>8. scopes[scope].parent # 0 => scopes[scope].parent \in D
  <2>1. scope \in 1 .. n
    BY <1>1
  <2>2. scopes[scope].parent # 0 => scopes[scope].parent \in 1 .. n
    BY <1>2, <2>1
  <2> QED BY <1>1, <2>2
<1> QED BY <1>5, <1>7, <1>8

(* The scopes around a scope are found. *)
LEMMA ChainsEnd ==
  ASSUME NEW scopes, ScopesOK(scopes), NEW scope \in DOMAIN scopes
  PROVE  Chain(scopes, scope) \in Seq(DOMAIN scopes)
<1> DEFINE D == DOMAIN scopes
<1>1. PICK n \in Nat \ {0} : D = 1 .. n
  BY DEF ScopesOK
<1>2. ASSUME NEW s \in 1 .. n, scopes[s].parent # 0
      PROVE  scopes[s].parent \in 1 .. s - 1
  <2>1. s # 1
    BY <1>2 DEF ScopesOK, Root
  <2> QED BY <1>1, <2>1 DEF ScopesOK, Root
<1> DEFINE Odd == {s \in D : Chain(scopes, s) \notin Seq(D)}
<1>3. Odd = {}
  <2> SUFFICES ASSUME Odd # {} PROVE FALSE
    OBVIOUS
  <2>1. Odd \in SUBSET Nat
    <3> HIDE DEF D
    <3> QED BY <1>1
  <2>2. PICK s \in Odd : \A k \in Odd : s <= k
    <3> HIDE DEF Odd
    <3> QED BY <2>1, LeastExists
  <2>3. s \in D /\ Chain(scopes, s) \notin Seq(D)
    OBVIOUS
  <2>4. Chain(scopes, s) = IF scopes[s].parent = 0 THEN <<s>> ELSE <<s>> \o Chain(scopes, scopes[s].parent)
    BY <2>3, ChainIs
  <2>5. <<s>> \in Seq(D)
    <3> HIDE DEF D
    <3> QED BY <2>3
  <2>6. scopes[s].parent # 0
    <3> HIDE DEF D
    <3> QED BY <2>3, <2>4, <2>5
  <2>7. PICK p : p = scopes[s].parent
    OBVIOUS
  <2>8. s \in 1 .. n
    BY <1>1, <2>3
  <2>9. p \in 1 .. s - 1
    BY <1>2, <2>6, <2>7, <2>8
  <2>10. p \in 1 .. n /\ ~(s <= p)
    BY <2>8, <2>9
  <2>11. p \notin Odd /\ p \in D
    <3> HIDE DEF Odd, D
    <3> QED BY <1>1, <2>2, <2>10
  <2>12. Chain(scopes, p) \in Seq(D)
    <3> HIDE DEF D
    <3> QED BY <2>11
  <2>13. <<s>> \o Chain(scopes, p) \in Seq(D)
    <3> HIDE DEF D
    <3> QED BY <2>5, <2>12
  <2> HIDE DEF D
  <2> QED BY <2>3, <2>4, <2>6, <2>7, <2>13
<1> QED BY <1>3 DEF Odd

(* Of several candidates in one scope the latest is one of them. *)
LEMMA LatestIsAmong ==
  ASSUME NEW V, NEW b \in Nat, NEW c \in Nat, NEW I \in SUBSET (1 .. b), I # {},
         \A k \in I : V[k].visibleFrom \in 0 .. c
  PROVE  \E k \in I : \A m \in I \ {k} :
           \/ V[k].visibleFrom > V[m].visibleFrom
           \/ V[k].visibleFrom = V[m].visibleFrom /\ k > m
<1> DEFINE from(k) == V[k].visibleFrom
           Froms == {from(k) : k \in I}
<1>0. \A k \in I : k \in Nat /\ k <= b /\ from(k) \in Nat /\ from(k) <= c
  <2> SUFFICES ASSUME NEW k \in I
               PROVE  k \in Nat /\ k <= b /\ from(k) \in Nat /\ from(k) <= c
    OBVIOUS
  <2>1. k \in 1 .. b /\ from(k) \in 0 .. c
    OBVIOUS
  <2> HIDE DEF from
  <2> QED BY <2>1
<1> HIDE DEF from
<1>1. PICK last \in Froms : \A other \in Froms : last >= other
  <2>1. Froms \in SUBSET Nat
    BY <1>0
  <2>2. Froms # {}
    OBVIOUS
  <2>3. \A s \in Froms : s <= c
    BY <1>0
  <2> HIDE DEF Froms
  <2> QED BY <2>1, <2>2, <2>3, GreatestExists
<1> DEFINE Ties == {k \in I : from(k) = last}
<1>2. PICK k \in Ties : \A m \in Ties : k >= m
  <2>1. Ties \in SUBSET Nat
    BY <1>0
  <2>2. Ties # {}
    BY <1>1
  <2>3. \A s \in Ties : s <= b
    BY <1>0
  <2> HIDE DEF Ties
  <2> QED BY <2>1, <2>2, <2>3, GreatestExists
<1>3. ASSUME NEW m \in I \ {k} PROVE from(k) > from(m) \/ (from(k) = from(m) /\ k > m)
  <2>1. from(m) \in Froms /\ k \in I /\ from(k) = last
    OBVIOUS
  <2>2. from(m) = last => m \in Ties
    OBVIOUS
  <2> HIDE DEF Froms, Ties
  <2>3. from(m) \in Nat /\ last \in Nat /\ last >= from(m) /\ k \in Nat /\ m \in Nat
    BY <1>0, <1>1, <2>1
  <2>4. from(m) = last => k >= m /\ k # m
    BY <1>2, <2>2
  <2> QED BY <2>1, <2>3, <2>4
<1>4. k \in I
  OBVIOUS
<1> QED
  BY <1>3, <1>4 DEF from

LEMMA NamesResolve ==
  ASSUME NEW scopes, ScopesOK(scopes), NEW n \in Nat, NEW symbols \in Seq(GoodSymbols(scopes)),
         n = Len(text), NEW names, NEW offset
  PROVE  ResolveName(symbols, scopes, names, offset) \in {0} \cup DOMAIN symbols
<1> DEFINE chain  == Chain(scopes, ScopeAt(scopes, offset))
           kinds  == [c \in DOMAIN chain |-> scopes[chain[c]].kind]
           blocks == {c \in DOMAIN chain : kinds[c] \in BlockKinds}
           block  == IF blocks = {} THEN "none" ELSE kinds[Min(blocks)]
           inside_function == \E c \in DOMAIN chain : kinds[c] = "function"
           Visible(s) == \/ s.kind = "function"
                         \/ s.scope # Root
                         \/ ~ inside_function /\ ProgramSymbolVisible(s.kind, block)
           candidates == {k \in DOMAIN symbols :
                            /\ names[symbols[k].at] = names[offset]
                            /\ symbols[k].visibleFrom <= offset
                            /\ Visible(symbols[k])}
           InScope(scope) == {k \in candidates : symbols[k].scope = scope}
           nearest == {c \in DOMAIN chain : InScope(chain[c]) # {}}
           best == InScope(chain[Min(nearest)])
           Later(k, m) == \/ symbols[k].visibleFrom > symbols[m].visibleFrom
                          \/ symbols[k].visibleFrom = symbols[m].visibleFrom /\ k > m
<1>1. ResolveName(symbols, scopes, names, offset) =
        IF nearest = {} THEN 0
        ELSE CHOOSE k \in best : \A m \in best \ {k} : Later(k, m)
  BY Zenon DEF ResolveName
<1>2. chain \in Seq(DOMAIN scopes)
  BY ScopeAtHolds, ChainsEnd
<1>3. candidates \subseteq DOMAIN symbols
  OBVIOUS
<1> HIDE DEF chain, candidates
<1>4. CASE nearest = {}
  <2> HIDE DEF nearest, best
  <2> QED BY <1>1, <1>4
<1>5. CASE nearest # {}
  <2>1. nearest \in SUBSET Nat
    <3> HIDE DEF InScope
    <3> QED BY <1>2
  <2>2. Min(nearest) \in nearest
    <3> HIDE DEF nearest
    <3> QED BY <1>5, <2>1, MinIsLeast
  <2>3. best # {}
    BY <2>2
  <2>4. best \subseteq DOMAIN symbols
    BY <1>3
  <2> HIDE DEF best, nearest
  <2>5. /\ DOMAIN symbols = 1 .. Len(symbols) /\ Len(symbols) \in Nat
        /\ \A k \in DOMAIN symbols : symbols[k].visibleFrom \in 0 .. n + 1
    <3>1. \A s \in GoodSymbols(scopes) : s.visibleFrom \in 0 .. n + 1
      BY DEF GoodSymbols
    <3>2. /\ DOMAIN symbols = 1 .. Len(symbols) /\ Len(symbols) \in Nat
          /\ \A k \in DOMAIN symbols : symbols[k] \in GoodSymbols(scopes)
      OBVIOUS
    <3> QED BY <3>1, <3>2
  <2>6. best \in SUBSET (1 .. Len(symbols)) /\ n + 1 \in Nat
        /\ \A k \in best : symbols[k].visibleFrom \in 0 .. n + 1
    BY <2>4, <2>5
  <2>7. \E k \in best : \A m \in best \ {k} : Later(k, m)
    BY <2>3, <2>5, <2>6, LatestIsAmong
  <2> HIDE DEF Later
  <2>8. (CHOOSE k \in best : \A m \in best \ {k} : Later(k, m)) \in best
    BY <2>7, Zenon
  <2> QED BY <1>1, <1>5, <2>4, <2>8
<1> QED
  BY <1>4, <1>5

-----------------------------------------------------------------------------
(* The model of a text *)

(* What the model's ranges and positions say of the text. *)
ModelFits(m) ==
  /\ \A k \in DOMAIN m.scopes :
       /\ m.scopes[k].range.start \in Nat /\ m.scopes[k].range.end \in Nat
       /\ Encloses(RootRange, m.scopes[k].range)
  /\ \A k \in DOMAIN m.symbols :
       m.symbols[k].at \in 1 .. Len(text) /\ KindAt(m.symbols[k].at) = "identifier"

LEMMA ModelsAreValid ==
  ASSUME DelimiterTypeOK, PairsNest, NEW names
  PROVE  /\ Margin # 0 => Validate(AnalyzeSemantics(names))
         /\ ModelFits(AnalyzeSemantics(names))
<1> DEFINE scopes  == BuildScopes
           symbols == AddSymbols(scopes)
           resolved == [i \in References(symbols) |-> ResolveName(symbols, scopes, names, i)]
           m == AnalyzeSemantics(names)
<1>1. ScopesOK(scopes)
  BY ScopesAreBuilt
<1>2. m = [scopes |-> scopes, symbols |-> symbols, resolved |-> resolved,
           duplicates |-> Duplicates(symbols, names)]
  BY Zenon DEF AnalyzeSemantics
<1>3. m.scopes = scopes /\ m.symbols = symbols /\ m.resolved = resolved
  <2> HIDE DEF scopes, symbols, resolved, m
  <2> QED BY <1>2
<1> HIDE DEF scopes, m
<1>4. symbols \in Seq(GoodSymbols(scopes))
  BY <1>1, SymbolsAreAdded
<1>5. \A i \in DOMAIN resolved : resolved[i] \in {0} \cup DOMAIN symbols
  <2>1. Len(text) \in Nat
    BY DEF DelimiterTypeOK
  <2> HIDE DEF symbols
  <2>2. ASSUME NEW i \in References(symbols)
        PROVE  ResolveName(symbols, scopes, names, i) \in {0} \cup DOMAIN symbols
    BY <1>1, <1>4, <2>1, NamesResolve
  <2> QED BY <2>2
<1> HIDE DEF symbols, resolved
<1>6. \A k \in DOMAIN symbols : symbols[k] \in GoodSymbols(scopes)
  BY <1>4
<1>7. \A k \in DOMAIN symbols :
        /\ symbols[k].at \in 1 .. Len(text) /\ KindAt(symbols[k].at) = "identifier"
        /\ symbols[k].scope \in DOMAIN scopes
        /\ symbols[k].scope # Root =>
             Encloses(scopes[symbols[k].scope].range, Span(symbols[k].at, symbols[k].at))
        /\ Margin # 0 /\ symbols[k].kind \in {"parameter", "loop"} =>
             scopes[symbols[k].scope].kind \in {"function", "loop"}
  BY <1>6 DEF GoodSymbols
<1>8. ModelFits(m)
  BY <1>1, <1>3, <1>7 DEF ModelFits, ScopesOK
<1>9. \A k \in DOMAIN scopes \ {Root} :
        /\ scopes[k].parent \in DOMAIN scopes
        /\ Encloses(scopes[scopes[k].parent].range, scopes[k].range)
  <2> SUFFICES ASSUME NEW k \in DOMAIN scopes \ {Root}
               PROVE  /\ scopes[k].parent \in DOMAIN scopes
                      /\ Encloses(scopes[scopes[k].parent].range, scopes[k].range)
    OBVIOUS
  <2>1. PICK n \in Nat \ {0} : DOMAIN scopes = 1 .. n
    BY <1>1 DEF ScopesOK
  <2>2. /\ scopes[k].parent \in 1 .. k - 1
        /\ Encloses(scopes[scopes[k].parent].range, scopes[k].range)
    BY <1>1 DEF ScopesOK
  <2>3. scopes[k].parent \in DOMAIN scopes
    BY <2>1, <2>2
  <2> QED BY <2>2, <2>3
<1>10. scopes[Root].parent = 0 /\ scopes[Root].kind = "root"
  BY <1>1 DEF ScopesOK
<1>11. Margin # 0 => Validate(m)
  BY <1>3, <1>5, <1>7, <1>9, <1>10 DEF Validate
<1> QED
  BY <1>8, <1>11 DEF m

-----------------------------------------------------------------------------
(* The model is of an earlier state of the text, which has grown since. *)

ModelInv == ModelFits(model) /\ (Margin # 0 => Validate(model))

LEMMA FitsStay ==
  ASSUME text \in Seq(Token), NEW t \in Token, text' = Append(text, t),
         ModelFits(model), model' = model
  PROVE  ModelFits(model)'
<1> DEFINE n == Len(text)
<1>1. /\ n \in Nat /\ Len(text') = n + 1
      /\ DOMAIN text = 1 .. n /\ DOMAIN text' = 1 .. n + 1
      /\ \A i \in 1 .. n : text'[i] = text[i]
  BY TextGrows
<1> HIDE DEF n
<1>2. ASSUME NEW k \in DOMAIN model.scopes
      PROVE  /\ model.scopes[k].range.start \in Nat /\ model.scopes[k].range.end \in Nat
             /\ Encloses(RootRange, model.scopes[k].range)'
  <2> DEFINE s == model.scopes[k].range.start
             e == model.scopes[k].range.end
  <2>1. s \in Nat /\ e \in Nat /\ 1 <= s /\ e <= n + 1 + Margin
    BY DEF ModelFits, Encloses, RootRange, n
  <2>2. e <= n + 1 + 1 + Margin
    <3> HIDE DEF s, e
    <3> QED BY <1>1, <2>1, MarginAssumption
  <2>3. RootRange'.start = 1 /\ RootRange'.end = n + 1 + 1 + Margin
    BY <1>1 DEF RootRange
  <2>4. model'.scopes[k].range.start = s /\ model'.scopes[k].range.end = e
    OBVIOUS
  <2> QED BY <2>1, <2>2, <2>3, <2>4 DEF Encloses
<1>3. ASSUME NEW k \in DOMAIN model.symbols
      PROVE  /\ model.symbols[k].at \in 1 .. n + 1
             /\ KindAt(model.symbols[k].at)' = "identifier"
  <2> DEFINE i == model.symbols[k].at
  <2>1. i \in 1 .. n /\ KindAt(i) = "identifier"
    BY DEF ModelFits, n
  <2>2. i \in 1 .. n + 1 /\ KindAt(i) = text[i].kind
    <3> HIDE DEF i
    <3> QED BY <1>1, <2>1 DEF KindAt
  <2>3. model'.symbols[k].at = i
    OBVIOUS
  <2> HIDE DEF i
  <2>4. (IF i \in DOMAIN text' THEN text'[i].kind ELSE "none") = "identifier"
    BY <1>1, <2>1, <2>2
  <2>5. KindAt(model.symbols[k].at)'
          = IF i \in DOMAIN text' THEN text'[i].kind ELSE "none"
    BY <2>3 DEF KindAt
  <2> QED BY <2>2, <2>4, <2>5 DEF i
<1> QED
  BY <1>1, <1>2, <1>3 DEF ModelFits

LEMMA FitsUnchanged ==
  ASSUME ModelFits(model), text' = text, model' = model
  PROVE  ModelFits(model)'
  BY DEF ModelFits, RootRange, Encloses, KindAt

(* A phrase, or what is left of one, leaves the model alone. *)
LEMMA WriteKeepsModel ==
  ASSUME AnalysisInv, ModelInv, NEW p, PhraseOfTokens(p), Write(p)
  PROVE  ModelInv'
<1>0. Head(p) \in Token /\ text \in Seq(Token)
  BY DEF PhraseOfTokens, AnalysisInv, DelimiterInv, DelimiterTypeOK
<1>1. model' = model
  BY DEF Write, Type, Slip
<1>2. Margin # 0 => Validate(model)'
  BY <1>1 DEF ModelInv, Validate, Encloses, Span
<1>3. ModelFits(model)'
  <2>1. CASE Type(p)
    <3>1. text' = Append(text, Head(p))
      BY <2>1 DEF Type, ReadToken
    <3> QED BY <1>0, <1>1, <3>1, FitsStay DEF ModelInv
  <2>2. CASE Slip(p)
    BY <1>1, <2>2, FitsUnchanged DEF Slip, delimiterVars, ModelInv
  <2> QED BY <2>1, <2>2 DEF Write
<1> QED
  BY <1>2, <1>3 DEF ModelInv

(* So does every step: an analysis replaces it by that of the text it is of.  *)
LEMMA AnalysisKeepsModel ==
  ASSUME AnalysisInv, ModelInv, [Next]_vars
  PROVE  ModelInv'
<1>1. CASE Continue
  BY <1>1, WriteKeepsModel DEF Continue, AnalysisInv, PhraseOfTokens
<1>2. CASE Begin
  BY <1>2, PhrasesAreTokens, WriteKeepsModel DEF Begin
<1>3. CASE Analyze
  <2>1. model' = AnalyzeSemantics(NamesOf) /\ delimiterVars' = delimiterVars
    BY <1>3 DEF Analyze
  <2>2. /\ Margin # 0 => Validate(AnalyzeSemantics(NamesOf))
        /\ ModelFits(AnalyzeSemantics(NamesOf))
    BY ModelsAreValid DEF AnalysisInv, DelimiterInv
  <2> DEFINE m == AnalyzeSemantics(NamesOf)
  <2> HIDE DEF m
  <2>3. (Margin # 0 => Validate(m)) /\ ModelFits(m) /\ model' = m
    BY <2>1, <2>2 DEF m
  <2>4. Margin # 0 => Validate(model')
    BY <2>3
  <2>5. ModelFits(model)'
    BY <2>1, <2>3 DEF ModelFits, RootRange, Encloses, KindAt, delimiterVars
  <2> QED BY <2>4, <2>5 DEF ModelInv, Validate, Encloses, Span
<1>4. CASE UNCHANGED vars
  BY <1>4, FitsUnchanged DEF vars, delimiterVars, ModelInv, Validate, Encloses, Span
<1> QED BY <1>1, <1>2, <1>3, <1>4 DEF Next

(* The model stays in its text, and valid. *)
LEMMA ModelsHold == Spec => []ModelInv
<1>1. Init => AnalysisInv
  BY InitDelimiters DEF Init, AnalysisInv
<1>2. Init => ModelInv
  <2> SUFFICES ASSUME Init PROVE ModelInv
    OBVIOUS
  <2>1. model = AnalyzeSemantics(NamesOf) /\ DelimiterTypeOK /\ PairsNest
    BY <1>1 DEF Init, AnalysisInv, DelimiterInv
  <2>2. /\ Margin # 0 => Validate(AnalyzeSemantics(NamesOf))
        /\ ModelFits(AnalyzeSemantics(NamesOf))
    BY <2>1, ModelsAreValid
  <2> QED BY <2>1, <2>2, Zenon DEF ModelInv
<1>3. AnalysisInv /\ ModelInv /\ [Next]_vars => ModelInv'
  BY AnalysisKeepsModel
<1> QED
  BY <1>2, <1>3, DelimitersHold, PTL DEF Spec

(* What analyze_semantics asserts of its result (SemanticModel::validate)     *)
(* holds of every revision, broken or not: scopes lie in their parents,       *)
(* symbols in their scopes, parameters and loop variables in a scope of their *)
(* own, and references resolve to symbols of the model. But only if a blank   *)
(* or a line end follows the last token: a file that is one function would    *)
(* have the root for that function's scope.                                   *)
THEOREM ModelsAlwaysValid ==
  ASSUME Margin # 0
  PROVE  Spec => []ModelIsValid
<1>1. ModelInv => ModelIsValid
  BY DEF ModelInv, ModelIsValid
<1> QED
  BY <1>1, ModelsHold, PTL

-----------------------------------------------------------------------------
(* The author's record *)

Declarings == [at : Nat, name : Names, block : Owners \cup {"program"}]
Frames == [owner : Owners \cup {"program"}, bound : SUBSET Declarings, declared : SUBSET Declarings]

(* What is left of a phrase never leaves a scope: only the phrase that closes *)
(* one does, with its first token, and only while a scope is open.            *)
Staying == {t \in Token : t.role # "leaves"}
StaysInside(p) == p \in Seq(Staying)

AuthorInv ==
  /\ env \in Seq(Frames) /\ env # <<>> /\ env[1].owner \in Files
  /\ held \in SUBSET Declarings /\ (\A c, d \in held : c = d)
  /\ slips \in 0 .. MaxSlips
  /\ DOMAIN bindings \subseteq 1 .. Len(text) + 1
  /\ StaysInside(pending)

LEMMA PlainTokensStay ==
  ASSUME NEW kind \in Kinds, NEW role \in Roles \ {"leaves"}
  PROVE  T(kind, role) \in Staying /\ Plain(kind) \in Staying
<1>1. T(kind, role).role = role /\ Plain(kind).role = "none"
  BY DEF T, Plain
<1> QED BY <1>1, PlainTokens DEF Staying

LEMMA NameTokensStay ==
  ASSUME NEW name \in Names
  PROVE  Use(name) \in Staying /\ Declare(name) \in Staying /\ Name(name) \in Staying
<1>1. Use(name).role = "use" /\ Declare(name).role = "declares" /\ Name(name).role = "names"
  BY DEF Use, Declare, Name
<1> QED BY <1>1, NameTokens DEF Staying

LEMMA OpenTokensStay ==
  ASSUME NEW owner \in Owners
  PROVE  Open(owner) \in Staying
<1>1. owner \in Roles \ {"leaves"} /\ "leftBrace" \in Kinds
  BY Vocabulary DEF Owners
<1> QED BY <1>1, PlainTokensStay DEF Open

(* A phrase that begins by leaving a scope is written where one is open.      *)
LEMMA PhrasesStayInside ==
  ASSUME AuthorInv, NEW p \in Phrases
  PROVE  StaysInside(p) \/ (p = Close /\ Len(env) > 1)
<1>0. /\ VariableNames \subseteq Names /\ FunctionNames \subseteq Names
      /\ {"none", "use", "declares", "names", "ends"} \subseteq Roles \ {"leaves"}
      /\ {"function", "loop", "block"} \subseteq Owners
  BY AuthorAssumption DEF Roles, Owners
<1>1. ASSUME NEW h \in BlockHeaders PROVE BlockPhrase(h) \in Seq(Staying)
  <2>1. [k \in DOMAIN h.words |-> Plain(h.words[k])] \in Seq(Staying)
    <3>1. \A k \in DOMAIN h.words : Plain(h.words[k]) \in Staying
      BY <1>0, HeadersAreWords, PlainTokensStay, Vocabulary
    <3> QED BY <3>1, HeadersAreWords
  <2>2. Open(h.kind) \in Staying
    BY HeadersAreWords, OpenTokensStay
  <2> QED BY <2>1, <2>2 DEF BlockPhrase
<1>2. ASSUME NEW f \in Names, NEW x \in Names PROVE FunctionPhrase(f, x) \in Seq(Staying)
  <2>1. /\ Plain("type") \in Staying /\ Plain("leftParen") \in Staying
        /\ Plain("rightParen") \in Staying /\ Open("function") \in Staying
        /\ Name(f) \in Staying /\ Declare(x) \in Staying
    BY <1>0, PlainTokensStay, NameTokensStay, OpenTokensStay, Vocabulary
  <2> QED BY <2>1 DEF FunctionPhrase
<1>3. ASSUME NEW d \in Declarations PROVE d \in Seq(Staying)
  <2>1. /\ Plain("type") \in Staying /\ Plain("leftBracket") \in Staying
        /\ Plain("rightBracket") \in Staying /\ Plain("assign") \in Staying
        /\ T("semicolon", "ends") \in Staying
        /\ \A x \in Names : Use(x) \in Staying /\ Declare(x) \in Staying
    BY <1>0, PlainTokensStay, NameTokensStay, Vocabulary
  <2>2. ASSUME NEW x \in Names
        PROVE  /\ <<Plain("type"), Declare(x), T("semicolon", "ends")>> \in Seq(Staying)
               /\ <<Plain("type"), Plain("leftBracket"), Use(x),
                    Plain("rightBracket"), Declare(x), Plain("assign"),
                    Use(x), T("semicolon", "ends")>> \in Seq(Staying)
    BY <2>1
  <2> QED BY <1>0, <1>3, <2>2 DEF Declarations
<1>4. ASSUME NEW x \in Names PROVE LoopHead(x) \in Seq(Staying)
  <2>1. /\ Plain("for") \in Staying /\ Plain("leftParen") \in Staying
        /\ Plain("in") \in Staying /\ Declare(x) \in Staying /\ Use(x) \in Staying
    BY <1>0, PlainTokensStay, NameTokensStay, Vocabulary
  <2> QED BY <2>1 DEF LoopHead
<1>5. ASSUME NEW s \in Statements PROVE StaysInside(s)
  <2>0. /\ Plain("rightParen") \in Staying /\ Plain("leftParen") \in Staying
        /\ Plain("semicolon") \in Staying /\ Open("loop") \in Staying /\ Open("block") \in Staying
        /\ \A x \in Names : Use(x) \in Staying
    BY <1>0, PlainTokensStay, NameTokensStay, OpenTokensStay, Vocabulary
  <2>1. ASSUME NEW x \in Names
        PROVE  StaysInside(LoopHead(x) \o <<Plain("rightParen"), Open("loop")>>)
    BY <1>4, <2>0 DEF StaysInside
  <2>2. ASSUME NEW f \in Names, NEW x \in Names
        PROVE  StaysInside(<<Use(f), Plain("leftParen"), Use(x), Plain("rightParen"),
                             Plain("semicolon")>>)
    BY <2>0 DEF StaysInside
  <2>3. StaysInside(<<Open("block")>>)
    BY <2>0 DEF StaysInside
  <2>4. CASE s \in {LoopHead(x) \o <<Plain("rightParen"), Open("loop")>> : x \in VariableNames}
    BY <2>4, <1>0, <2>1
  <2>5. CASE s \in {<<Use(f), Plain("leftParen"), Use(x), Plain("rightParen"), Plain("semicolon")>> :
                     f \in FunctionNames, x \in VariableNames}
    <3>1. PICK f \in FunctionNames, x \in VariableNames :
            s = <<Use(f), Plain("leftParen"), Use(x), Plain("rightParen"), Plain("semicolon")>>
      BY <2>5
    <3> QED BY <1>0, <2>2, <3>1
  <2> QED BY <1>5, <2>3, <2>4, <2>5 DEF Statements
<1>6. CASE Owner = "program"
  <2>1. \E h \in BlockHeaders : p = BlockPhrase(h)
    BY <1>6 DEF Phrases
  <2> QED BY <1>1, <2>1 DEF StaysInside
<1>7. CASE Owner = "functions"
  <2>1. \/ \E f \in FunctionNames, x \in VariableNames : p = FunctionPhrase(f, x)
        \/ p = Close /\ Len(env) > 1
    BY <1>7 DEF Phrases
  <2> QED BY <1>0, <1>2, <2>1 DEF StaysInside
<1>8. CASE Owner # "program" /\ Owner # "functions"
  <2>1. p = Close \/ p \in Declarations \/ p \in Statements
    BY <1>8 DEF Phrases
  <2> DEFINE n == Len(env)
  <2>2. n \in Nat /\ n # 0
    BY DEF AuthorInv
  <2>3. n # 1
    BY <1>8, AuthorAssumption DEF AuthorInv, Owner
  <2> HIDE DEF n
  <2>4. n > 1
    BY <2>2, <2>3
  <2> QED BY <1>3, <1>5, <2>1, <2>4 DEF StaysInside, n
<1> QED
  BY <1>6, <1>7, <1>8

(* A token meant to leave a scope apart, what a token means keeps the record. *)
LEMMA DeclaringIsTyped ==
  ASSUME AuthorInv, NEW at \in Nat, NEW name \in Names
  PROVE  Declaration(at, name) \in Declarings
<1>1. {2, Len(env)} \in SUBSET Nat /\ {2, Len(env)} # {} /\ Len(env) # 0
  BY DEF AuthorInv
<1>2. Min({2, Len(env)}) \in {2, Len(env)} /\ Min({2, Len(env)}) <= Len(env)
  BY <1>1, MinIsLeast
<1> DEFINE m == Min({2, Len(env)})
<1>3. m \in 1 .. Len(env)
  <2> HIDE DEF m
  <2> QED BY <1>1, <1>2 DEF m
<1>4. env[m] \in Frames
  <2> HIDE DEF m
  <2> QED BY <1>3 DEF AuthorInv
<1>5. Block \in Owners \cup {"program"}
  BY <1>4 DEF Block, Frames
<1> QED
  BY <1>5 DEF Declaration, Declarings

LEMMA DeclaringKeepsScopes ==
  ASSUME AuthorInv, NEW frame \in 1 .. Len(env), NEW new \in Declarings, DeclareIn(frame, new)
  PROVE  env' \in Seq(Frames) /\ env' # <<>> /\ env'[1].owner \in Files
<1>1. env' = [env EXCEPT ![frame].declared = @ \cup {new}]
  BY DEF DeclareIn
<1> DEFINE n == Len(env)
           grown == [env[frame] EXCEPT !.declared = @ \cup {new}]
<1>2. env \in [1 .. n -> Frames] /\ n \in Nat /\ n # 0 /\ env[1].owner \in Files
  BY DEF AuthorInv
<1>3. env[frame] \in Frames
  BY <1>2
<1>4. grown \in Frames /\ grown.owner = env[frame].owner
  <2>1. env[frame].declared \cup {new} \in SUBSET Declarings
    BY <1>3 DEF Frames
  <2> QED BY <1>3, <2>1 DEF Frames
<1>5. env' = [env EXCEPT ![frame] = grown]
  BY <1>1
<1> HIDE DEF grown, n
<1>6. env' \in [1 .. n -> Frames]
  BY <1>2, <1>4, <1>5
<1>7. env'[1].owner = env[1].owner
  BY <1>2, <1>4, <1>5
<1>8. env' \in Seq(Frames) /\ Len(env') = n
  BY <1>2, <1>6
<1> QED
  BY <1>2, <1>7, <1>8

LEMMA MeaningKeepsRecord ==
  ASSUME AuthorInv, text \in Seq(Token), Len(text') \in {Len(text), Len(text) + 1},
         NEW t \in Token, t.role = "leaves" => Len(env) > 1, Means(t)
  PROVE  /\ env' \in Seq(Frames) /\ env' # <<>> /\ env'[1].owner \in Files
         /\ held' \in SUBSET Declarings /\ (\A c, d \in held' : c = d)
         /\ DOMAIN bindings' \subseteq 1 .. Len(text') + 1
<1> DEFINE at == Len(text) + 1
<1>1. /\ Len(text) \in Nat /\ at \in Nat
      /\ \A i \in 1 .. Len(text) + 1 : i \in 1 .. Len(text') + 1
      /\ at \in 1 .. Len(text') + 1
  OBVIOUS
<1>2. t.name \in Names /\ t.role \in Roles
  BY DEF Token
<1>3. Declaration(at, t.name) \in Declarings
  BY <1>1, <1>2, DeclaringIsTyped
<1>4. /\ env \in Seq(Frames) /\ env # <<>> /\ env[1].owner \in Files
      /\ held \in SUBSET Declarings /\ (\A c, d \in held : c = d)
      /\ DOMAIN bindings \subseteq 1 .. Len(text) + 1
      /\ Len(env) \in Nat /\ Len(env) # 0
  BY DEF AuthorInv
<1>5. DOMAIN bindings \subseteq 1 .. Len(text') + 1
  BY <1>1, <1>4
<1>6. CASE t.role = "none" /\ UNCHANGED <<env, held, bindings, clashes>>
  BY <1>4, <1>5, <1>6
<1>7. CASE /\ t.role = "use"
           /\ bindings' = [i \in DOMAIN bindings \cup {at} |->
                             IF i = at THEN Meaning(t.name) ELSE bindings[i]]
           /\ UNCHANGED <<env, held, clashes>>
  <2>1. DOMAIN bindings' = DOMAIN bindings \cup {at}
    BY <1>7
  <2> HIDE DEF at
  <2> QED BY <1>1, <1>4, <1>5, <1>7, <2>1
<1>8. CASE /\ t.role = "declares"
           /\ held' = {Declaration(at, t.name)}
           /\ UNCHANGED <<env, bindings, clashes>>
  <2> DEFINE d == Declaration(at, t.name)
  <2> HIDE DEF d
  <2>1. {d} \in SUBSET Declarings /\ \A b, c \in {d} : b = c
    BY <1>3 DEF d
  <2> QED BY <1>4, <1>5, <1>8, <2>1 DEF d
<1>9. CASE /\ t.role = "names"
           /\ DeclareIn(1, Declaration(at, t.name))
           /\ UNCHANGED <<held, bindings>>
  <2>1. 1 \in 1 .. Len(env)
    BY <1>4
  <2> HIDE DEF at
  <2> QED BY <1>3, <1>4, <1>5, <1>9, <2>1, DeclaringKeepsScopes
<1>10. CASE /\ t.role = "ends"
            /\ \E new \in held : DeclareIn(IF Owner \in ProgramKinds THEN 1 ELSE Len(env), new)
            /\ held' = {}
            /\ UNCHANGED bindings
  <2> DEFINE frame == IF Owner \in ProgramKinds THEN 1 ELSE Len(env)
  <2>1. frame \in 1 .. Len(env)
    BY <1>4
  <2>2. PICK new \in held : DeclareIn(frame, new)
    BY <1>10
  <2>3. {} \in SUBSET Declarings /\ \A b, c \in {} : b = c
    OBVIOUS
  <2>4. new \in Declarings
    BY <1>4
  <2> HIDE DEF frame
  <2>5. env' \in Seq(Frames) /\ env' # <<>> /\ env'[1].owner \in Files
    BY <2>1, <2>2, <2>4, DeclaringKeepsScopes
  <2> QED BY <1>5, <1>10, <2>3, <2>5
<1>11. CASE /\ t.role \in Owners
            /\ env' = Append(env, [owner |-> t.role, bound |-> held, declared |-> {}])
            /\ held' = {}
            /\ UNCHANGED <<bindings, clashes>>
  <2> DEFINE new == [owner |-> t.role, bound |-> held, declared |-> {}]
  <2>1. {} \in SUBSET Declarings /\ \A b, c \in {} : b = c
    OBVIOUS
  <2>2. new \in Frames
    BY <1>4, <1>11, <2>1 DEF Frames
  <2>3. env' = Append(env, new)
    BY <1>11
  <2> HIDE DEF new
  <2>4. Append(env, new) \in Seq(Frames) /\ Append(env, new) # <<>>
        /\ Append(env, new)[1] = env[1]
    BY <1>4, <2>2
  <2> QED BY <1>4, <1>5, <1>11, <2>1, <2>3, <2>4
<1>12. CASE /\ t.role = "leaves"
            /\ env' = SubSeq(env, 1, Len(env) - 1)
            /\ UNCHANGED <<held, bindings, clashes>>
  <2>1. Len(env) > 1
    BY <1>12
  <2> DEFINE n == Len(env)
             shorter == SubSeq(env, 1, n - 1)
  <2>2. /\ 1 \in 1 .. n /\ n - 1 \in 1 .. n /\ n - 1 \in Nat /\ 1 <= n - 1
        /\ env \in [1 .. n -> Frames]
    BY <1>4, <2>1
  <2> HIDE DEF n
  <2>3. shorter \in Seq(Frames) /\ Len(shorter) = n - 1 /\ shorter[1] = env[1]
    BY <1>4, <2>2 DEF n
  <2>4. shorter # <<>>
    <3> HIDE DEF shorter
    <3> QED BY <2>2, <2>3
  <2>5. /\ SubSeq(env, 1, Len(env) - 1) \in Seq(Frames)
        /\ SubSeq(env, 1, Len(env) - 1) # <<>>
        /\ SubSeq(env, 1, Len(env) - 1)[1] = env[1]
    BY <2>3, <2>4 DEF n
  <2> QED BY <1>4, <1>5, <1>12, <2>5
<1> QED
  BY <1>6, <1>7, <1>8, <1>9, <1>10, <1>11, <1>12, Zenon DEF Means

LEMMA WriteKeepsRecord ==
  ASSUME AnalysisInv, AuthorInv, NEW p, PhraseOfTokens(p), Write(p),
         StaysInside(p) \/ (p = Close /\ Len(env) > 1)
  PROVE  AuthorInv'
<1>0. Head(p) \in Token /\ text \in Seq(Token) /\ Len(text) \in Nat
  BY DEF PhraseOfTokens, AnalysisInv, DelimiterInv, DelimiterTypeOK
<1>1. pending' = Tail(p) /\ Means(Head(p))
  BY DEF Write, Type, Slip
<1>2. Head(p).role = "leaves" => Len(env) > 1
  <2>1. StaysInside(p) => Head(p) \in Staying
    BY DEF StaysInside, PhraseOfTokens
  <2> QED BY <2>1 DEF Staying
<1>3. StaysInside(pending')
  <2>1. StaysInside(p) => Tail(p) \in Seq(Staying)
    BY DEF StaysInside, PhraseOfTokens
  <2>2. p = Close => Tail(p) \in Seq(Staying)
    BY DEF Close
  <2> QED BY <1>1, <2>1, <2>2 DEF StaysInside
<1>4. Len(text') \in {Len(text), Len(text) + 1}
  <2>1. CASE Type(p)
    <3>1. text' = Append(text, Head(p))
      BY <2>1 DEF Type, ReadToken
    <3> QED BY <1>0, <3>1
  <2>2. CASE Slip(p)
    BY <2>2 DEF Slip, delimiterVars
  <2> QED BY <2>1, <2>2 DEF Write
<1>5. slips' \in 0 .. MaxSlips
  <2>1. slips \in 0 .. MaxSlips /\ MaxSlips \in Nat
    BY AuthorAssumption DEF AuthorInv
  <2>2. slips' = slips \/ (slips < MaxSlips /\ slips' = slips + 1)
    BY DEF Write, Type, Slip
  <2> QED BY <2>1, <2>2
<1>6. /\ env' \in Seq(Frames) /\ env' # <<>> /\ env'[1].owner \in Files
      /\ held' \in SUBSET Declarings /\ (\A c, d \in held' : c = d)
      /\ DOMAIN bindings' \subseteq 1 .. Len(text') + 1
  <2> DEFINE t == Head(p)
  <2>1. t \in Token /\ (t.role = "leaves" => Len(env) > 1) /\ Means(t)
    BY <1>0, <1>1, <1>2
  <2> HIDE DEF t
  <2> QED BY <1>0, <1>4, <2>1, MeaningKeepsRecord
<1>7. StaysInside(pending)'
  BY <1>3 DEF StaysInside
<1> QED
  BY <1>5, <1>6, <1>7 DEF AuthorInv

(* What stays inside what is open keeps the record of what is open. *)
LEMMA RecordsHold == Spec => []AuthorInv
<1>1. Init => AuthorInv
  <2> SUFFICES ASSUME Init PROVE AuthorInv
    OBVIOUS
  <2>1. PICK file \in Files : env = <<[owner |-> file, bound |-> {}, declared |-> {}]>>
    BY DEF Init
  <2>2. file \in Owners \cup {"program"}
    BY AuthorAssumption DEF Owners
  <2>3. {} \in SUBSET Declarings /\ (\A c, d \in {} : c = d) /\ <<>> \in Seq(Staying)
        /\ DOMAIN <<>> = {}
    OBVIOUS
  <2> DEFINE frame == [owner |-> file, bound |-> {}, declared |-> {}]
  <2>4. frame \in Frames /\ frame.owner \in Files
    BY <2>2, <2>3 DEF Frames
  <2> HIDE DEF frame
  <2>5. env = <<frame>>
    BY <2>1 DEF frame
  <2>6. env \in Seq(Frames) /\ env # <<>> /\ env[1].owner \in Files
    BY <2>4, <2>5
  <2>7. slips \in 0 .. MaxSlips
    <3>1. slips = 0 /\ MaxSlips \in Nat
      BY AuthorAssumption DEF Init
    <3> QED BY <3>1
  <2>8. held = {} /\ bindings = <<>> /\ pending = <<>>
    BY DEF Init
  <2> QED BY <2>3, <2>6, <2>7, <2>8 DEF AuthorInv, StaysInside
<1>2. AnalysisInv /\ AuthorInv /\ [Next]_vars => AuthorInv'
  <2> SUFFICES ASSUME AnalysisInv, AuthorInv, [Next]_vars PROVE AuthorInv'
    OBVIOUS
  <2>1. CASE Continue
    <3>1. PhraseOfTokens(pending) /\ Write(pending) /\ StaysInside(pending)
      BY <2>1 DEF Continue, AnalysisInv, AuthorInv, PhraseOfTokens
    <3> QED BY <3>1, WriteKeepsRecord
  <2>2. CASE Begin
    <3>1. PICK phrase \in Phrases : Write(phrase)
      BY <2>2 DEF Begin
    <3> QED BY <3>1, PhrasesAreTokens, PhrasesStayInside, WriteKeepsRecord
  <2>3. CASE Analyze
    BY <2>3 DEF Analyze, authorVars, delimiterVars, AuthorInv, StaysInside
  <2>4. CASE UNCHANGED vars
    BY <2>4 DEF vars, authorVars, delimiterVars, AuthorInv, StaysInside
  <2> QED BY <2>1, <2>2, <2>3, <2>4 DEF Next
<1> QED
  BY <1>1, <1>2, DelimitersHold, PTL DEF Spec

(* The text, the author's record and the model keep their shape: a scope is   *)
(* left only while one is open, and every range of the model lies in the text *)
(* it is read against, which may have grown since.                            *)
THEOREM AnalysisIsTyped == Spec => []TypeOK
<1>1. AnalysisInv /\ ModelInv /\ AuthorInv => TypeOK
  <2> SUFFICES ASSUME AnalysisInv, ModelInv, AuthorInv PROVE TypeOK
    OBVIOUS
  <2>1. DelimiterTypeOK /\ pending \in Seq(Token)
    BY DEF AnalysisInv, DelimiterInv
  <2>2. Len(env) \in Nat \ {0}
    BY DEF AuthorInv
  <2>3. slips \in 0 .. MaxSlips /\ (\A c, d \in held : c = d) /\ DOMAIN bindings \subseteq 1 .. Len(text) + 1
    BY DEF AuthorInv
  <2>4. /\ \A k \in DOMAIN model.scopes : Encloses(RootRange, model.scopes[k].range)
        /\ \A k \in DOMAIN model.symbols : KindAt(model.symbols[k].at) = "identifier"
    BY DEF ModelInv, ModelFits
  <2> QED BY <2>1, <2>2, <2>3, <2>4 DEF TypeOK
<1> QED
  BY <1>1, DelimitersHold, ModelsHold, RecordsHold, PTL

-----------------------------------------------------------------------------
(* The analysis reads the text and its pairs, nothing else: as long as they *)
(* stay, analyzing again finds what was found before.                       *)

TextStays == text' = text /\ pairs' = pairs

LEMMA KindsStay == TextStays => \A i : KindAt(i)' = KindAt(i)
BY Zenon DEF KindAt, TextStays

LEMMA OfStays == TextStays => \A kind, S : Of(kind, S)' = Of(kind, S)
BY Zenon DEF Of, KindAt, TextStays

LEMMA EndsStay == TextStays => \A i : EndOf(i)' = EndOf(i)
BY Zenon DEF EndOf, TextStays

LEMMA BracesStay == TextStays => \A i : BraceAfter(i)' = BraceAfter(i)
BY Zenon DEF KindAt, BraceAfter, TextStays

LEMMA StartsStay == TextStays => \A i : StatementStart(i)' = StatementStart(i)
BY Zenon DEF StatementStart, KindAt, TextStays

LEMMA CompoundsStay == TextStays => CompoundStatements' = CompoundStatements
BY Zenon DEF CompoundStatements, Span, EndOf, Of, KindAt, TextStays

LEMMA ForsStay == TextStays => ForStatements' = ForStatements
<1> SUFFICES ASSUME TextStays PROVE ForStatements' = ForStatements
  OBVIOUS
<1>1. Of("for", DOMAIN text)' = Of("for", DOMAIN text)
  BY Zenon DEF Of, KindAt, TextStays
<1> QED BY <1>1, BracesStay, EndsStay DEF ForStatements, Span

LEMMA FunctionsStay == TextStays => FunctionDeclarations' = FunctionDeclarations
<1> SUFFICES ASSUME TextStays PROVE FunctionDeclarations' = FunctionDeclarations
  OBVIOUS
<1>1. Of("identifier", DOMAIN text)' = Of("identifier", DOMAIN text)
  BY Zenon DEF Of, KindAt, TextStays
<1>2. \A i : Of("type", StatementStart(i) .. i - 1)' = Of("type", StatementStart(i) .. i - 1)
  BY Zenon DEF Of, KindAt, StatementStart, TextStays
<1> QED
  BY <1>1, <1>2, BracesStay, EndsStay, StartsStay DEF FunctionDeclarations, Span

LEMMA VariablesStay == TextStays => VariableDeclarations' = VariableDeclarations
<1> SUFFICES ASSUME TextStays PROVE VariableDeclarations' = VariableDeclarations
  OBVIOUS
<1>1. Of("semicolon", DOMAIN text)' = Of("semicolon", DOMAIN text)
  BY Zenon DEF Of, KindAt, TextStays
<1>2. \A i, kind : Of(kind, StatementStart(i) .. i - 1)' = Of(kind, StatementStart(i) .. i - 1)
  BY Zenon DEF Of, KindAt, StatementStart, TextStays
<1> QED
  BY <1>1, <1>2, StartsStay DEF VariableDeclarations, Span

LEMMA BlocksStay == TextStays => ProgramBlocks' = ProgramBlocks
<1> SUFFICES ASSUME TextStays PROVE ProgramBlocks' = ProgramBlocks
  OBVIOUS
<1> DEFINE starts == {i \in DOMAIN text : KindAt(i) \in {h.words[1] : h \in BlockHeaders}}
           found == {hi \in BlockHeaders \X starts :
                       /\ IsHeaderAt(hi[1], hi[2])
                       /\ \A h \in BlockHeaders :
                            Len(h.words) > Len(hi[1].words) => ~ IsHeaderAt(h, hi[2] - 1)}
<1>1. starts' = starts
  <2> DEFINE firsts == {h.words[1] : h \in BlockHeaders}
  <2>1. starts = {i \in DOMAIN text : KindAt(i) \in firsts}
    BY Zenon
  <2>2. starts' = {i \in DOMAIN text' : KindAt(i)' \in firsts}
    BY Zenon
  <2> HIDE DEF starts, firsts
  <2>3. text' = text /\ \A i : KindAt(i)' = KindAt(i)
    BY KindsStay DEF TextStays
  <2>4. \A i : i \in starts' <=> i \in starts
    BY <2>1, <2>2, <2>3
  <2>5. starts' \subseteq starts /\ starts \subseteq starts'
    BY <2>4
  <2> QED BY <2>5
<1>2. \A h, i : IsHeaderAt(h, i)' = IsHeaderAt(h, i)
  <2>1. \A i : KindAt(i)' = KindAt(i)
    BY KindsStay
  <2> QED BY <2>1, Zenon DEF IsHeaderAt
<1> HIDE DEF starts
<1>3. found' = found
  BY <1>1, <1>2
<1> HIDE DEF found
<1>4. ProgramBlocks = {[kind |-> hi[1].kind,
                        range |-> Span(hi[2], EndOf(hi[2] + Len(hi[1].words)))] : hi \in found}
  BY DEF ProgramBlocks, found, starts
<1>5. ProgramBlocks' = {[kind |-> hi[1].kind,
                         range |-> Span(hi[2], EndOf(hi[2] + Len(hi[1].words))')] : hi \in found'}
  BY DEF ProgramBlocks, found, starts
<1> QED
  BY <1>3, <1>4, <1>5, EndsStay

LEMMA MatchesStay ==
  TextStays => \A node, open, opener, closer :
    MatchingPosition(node, open, opener, closer)' = MatchingPosition(node, open, opener, closer)
<1> SUFFICES ASSUME TextStays, NEW node, NEW open, NEW opener, NEW closer
             PROVE  MatchingPosition(node, open, opener, closer)'
                      = MatchingPosition(node, open, opener, closer)
  OBVIOUS
<1> DEFINE M == {k \in Of(closer, open .. node.end - 1) :
                   Cardinality(Of(opener, open .. k)) = Cardinality(Of(closer, open .. k))}
<1>1. M' = M
  BY OfStays
<1>2. MatchingPosition(node, open, opener, closer)' = First(M')
  BY Zenon DEF MatchingPosition
<1>3. MatchingPosition(node, open, opener, closer) = First(M)
  BY Zenon DEF MatchingPosition
<1> HIDE DEF M
<1> QED BY <1>1, <1>2, <1>3

LEMMA DepthsStay ==
  TextStays => \A from, to, opener, closer :
    Depth(from, to, opener, closer)' = Depth(from, to, opener, closer)
<1> DEFINE Kind(t, i) == IF i \in DOMAIN t THEN t[i].kind ELSE "none"
           DepthIn(t, from, to, opener, closer) ==
             LET depth[k \in from - 1 .. to] ==
                   IF k = from - 1 THEN 0
                   ELSE LET before == depth[k - 1]
                        IN IF Kind(t, k) = opener THEN before + 1
                           ELSE IF Kind(t, k) = closer /\ before > 0
                                THEN before - 1 ELSE before
             IN depth[to]
<1>1. \A a, b, o, c : Depth(a, b, o, c) = DepthIn(text, a, b, o, c)
  BY Zenon DEF Depth, KindAt
<1>2. \A a, b, o, c : Depth(a, b, o, c)' = DepthIn(text', a, b, o, c)
  BY Zenon DEF Depth, KindAt
<1> HIDE DEF DepthIn
<1> QED BY <1>1, <1>2 DEF TextStays

LEMMA NamesStay ==
  TextStays => \A from, to : DeclarationName(from, to)' = DeclarationName(from, to)
<1> SUFFICES ASSUME TextStays, NEW from, NEW to
             PROVE  DeclarationName(from, to)' = DeclarationName(from, to)
  OBVIOUS
<1> DEFINE type == First(Of("type", from .. to))
           N == {k \in Of("identifier", type .. to) :
                   /\ Depth(type, k, "leftParen", "rightParen") = 0
                   /\ Depth(type, k, "leftBracket", "rightBracket") = 0
                   /\ Depth(type, k, "lessThan", "greaterThan") = 0}
<1>1. type' = type
  BY OfStays
<1>2. N' = N
  <2>1. \A o, c, k : Depth(type, k, o, c)' = Depth(type, k, o, c)
    BY <1>1, DepthsStay
  <2>2. Of("identifier", type .. to)' = Of("identifier", type .. to)
    BY <1>1, OfStays
  <2> HIDE DEF type
  <2> QED BY <2>1, <2>2
<1>3. DeclarationName(from, to)' = IF type' = 0 THEN 0 ELSE First(N')
  BY Zenon DEF DeclarationName
<1>4. DeclarationName(from, to) = IF type = 0 THEN 0 ELSE First(N)
  BY Zenon DEF DeclarationName
<1> HIDE DEF N, type
<1> QED BY <1>1, <1>2, <1>3, <1>4

LEMMA BodiesStay == TextStays => \A node : BodyRange(node)' = BodyRange(node)
<1> SUFFICES ASSUME TextStays, NEW node PROVE BodyRange(node)' = BodyRange(node)
  OBVIOUS
<1> DEFINE open == First(Of("leftBrace", TokensOf(node)))
           close == MatchingPosition(node, open, "leftBrace", "rightBrace")
<1>1. open' = open
  BY OfStays
<1>2. close' = close
  BY <1>1, MatchesStay
<1>3. BodyRange(node)' = IF open' = 0 \/ close' = 0 THEN NoRange ELSE Span(open', close')
  BY Zenon DEF BodyRange
<1>4. BodyRange(node) = IF open = 0 \/ close = 0 THEN NoRange ELSE Span(open, close)
  BY Zenon DEF BodyRange
<1> HIDE DEF open, close
<1> QED BY <1>1, <1>2, <1>3, <1>4

LEMMA FunctionNamesStay == TextStays => \A f : FunctionName(f)' = FunctionName(f)
BY Zenon DEF FunctionName, First, Of, KindAt, TokensOf, TextStays

LEMMA BindersStay == TextStays => \A for : Binder(for)' = Binder(for)
BY Zenon DEF Binder, First, Of, KindAt, TokensOf, TextStays

LEMMA ParametersStay == TextStays => \A f : ParameterNames(f)' = ParameterNames(f)
<1> SUFFICES ASSUME TextStays, NEW f PROVE ParameterNames(f)' = ParameterNames(f)
  OBVIOUS
<1> DEFINE open   == FunctionName(f) + 1
           close  == MatchingPosition(f, open, "leftParen", "rightParen")
           commas == {k \in Of("comma", open + 1 .. close - 1) :
                        /\ Depth(open + 1, k, "leftParen", "rightParen") = 0
                        /\ Depth(open + 1, k, "leftBracket", "rightBracket") = 0}
           next(k) == Min({close} \cup {c \in commas : c > k})
           names == {DeclarationName(k + 1, next(k) - 1) : k \in {open} \cup commas}
<1>1. open' = open
  BY FunctionNamesStay
<1> HIDE DEF open
<1>2. close' = close
  BY <1>1, MatchesStay
<1> HIDE DEF close
<1>3. commas' = commas
  <2>1. \A o, c, k : Depth(open + 1, k, o, c)' = Depth(open + 1, k, o, c)
    BY <1>1, DepthsStay
  <2>2. Of("comma", open + 1 .. close - 1)' = Of("comma", open + 1 .. close - 1)
    BY <1>1, <1>2, OfStays
  <2> QED BY <2>1, <2>2
<1> HIDE DEF commas
<1>4. \A k : next(k)' = next(k)
  BY <1>2, <1>3
<1> HIDE DEF next
<1>5. names' = names
  <2>1. \A k : DeclarationName(k + 1, next(k) - 1)' = DeclarationName(k + 1, next(k) - 1)
    BY <1>4, NamesStay
  <2> QED BY <1>1, <1>3, <2>1
<1>6. ParameterNames(f)' = IF close' = 0 THEN {} ELSE names' \ {0}
  BY Zenon DEF ParameterNames, open, close, commas, next
<1>7. ParameterNames(f) = IF close = 0 THEN {} ELSE names \ {0}
  BY Zenon DEF ParameterNames, open, close, commas, next
<1> QED BY <1>2, <1>5, <1>6, <1>7

LEMMA ScopesStay == TextStays => BuildScopes' = BuildScopes
<1> SUFFICES ASSUME TextStays PROVE BuildScopes' = BuildScopes
  OBVIOUS
<1>1. ScopedRanges' = ScopedRanges
  BY CompoundsStay, FunctionsStay, ForsStay DEF ScopedRanges
<1>2. RootRange' = RootRange
  BY DEF RootRange, TextStays
<1> DEFINE ranges == <<RootRange>> \o Sorted(ScopedRanges)
<1>3. ranges' = ranges
  BY <1>1, <1>2, Zenon
<1>4. \A r : RequestedKind(r)' = RequestedKind(r)
  BY CompoundsStay, FunctionsStay DEF RequestedKind
<1>5. \A r, p : ScopeKind(r, p)' = ScopeKind(r, p)
  <2> SUFFICES ASSUME NEW r, NEW p PROVE ScopeKind(r, p)' = ScopeKind(r, p)
    OBVIOUS
  <2> DEFINE blocks == {b \in ProgramBlocks : Encloses(b.range, r)}
  <2>1. blocks' = blocks
    BY BlocksStay
  <2>2. ScopeKind(r, p)' = IF RequestedKind(r)' = "block" /\ p = Root /\ FirstKind(blocks') # "none"
                           THEN FirstKind(blocks') ELSE RequestedKind(r)'
    BY Zenon DEF ScopeKind
  <2>3. ScopeKind(r, p) = IF RequestedKind(r) = "block" /\ p = Root /\ FirstKind(blocks) # "none"
                          THEN FirstKind(blocks) ELSE RequestedKind(r)
    BY Zenon DEF ScopeKind
  <2> HIDE DEF blocks
  <2> QED BY <1>4, <2>1, <2>2, <2>3
<1> DEFINE scope(k) == [range |-> ranges[k], parent |-> ParentOf(ranges, k),
                        kind |-> ScopeKind(ranges[k], ParentOf(ranges, k))]
           root == [range |-> RootRange, parent |-> 0, kind |-> "root"]
<1>6. BuildScopes = [k \in DOMAIN ranges |-> IF k = Root THEN root ELSE scope(k)]
  BY Zenon DEF BuildScopes
<1>7. BuildScopes' = [k \in DOMAIN ranges' |-> IF k = Root THEN root' ELSE scope(k)']
  BY Zenon DEF BuildScopes
<1>8. \A k : scope(k)' = scope(k)
  <2> HIDE DEF ranges
  <2>1. \A k : ParentOf(ranges, k)' = ParentOf(ranges, k)
    BY <1>3
  <2> QED BY <1>3, <1>5, <2>1
<1>9. root' = root
  BY <1>2
<1> HIDE DEF ranges, scope, root
<1> QED BY <1>3, <1>6, <1>7, <1>8, <1>9

LEMMA SymbolsStay == TextStays => \A scopes : AddSymbols(scopes)' = AddSymbols(scopes)
<1> SUFFICES ASSUME TextStays, NEW scopes PROVE AddSymbols(scopes)' = AddSymbols(scopes)
  OBVIOUS
<1>1. \A f : FunctionSymbols(scopes, f)' = FunctionSymbols(scopes, f)
  <2> SUFFICES ASSUME NEW f PROVE FunctionSymbols(scopes, f)' = FunctionSymbols(scopes, f)
    OBVIOUS
  <2> DEFINE scope == ScopeWithRange(scopes, f)
             names == IF BodyRange(f) = NoRange THEN {} ELSE ParameterNames(f)
             ordered(S) == InOrder(S, <)
             sorted == ordered(names)
             rest == [k \in DOMAIN sorted |->
                        Symbol(sorted[k], "parameter", scope, BodyRange(f).start)]
  <2>1. names' = names
    BY BodiesStay, ParametersStay
  <2>2. sorted' = sorted
    <3> HIDE DEF names, ordered
    <3> QED BY <2>1
  <2>3. rest' = rest
    <3> HIDE DEF sorted
    <3> QED BY <2>2, BodiesStay
  <2>4. FunctionSymbols(scopes, f) = <<Symbol(FunctionName(f), "function", Root, 0)>> \o rest
    BY Zenon DEF FunctionSymbols
  <2>5. FunctionSymbols(scopes, f)' = <<Symbol(FunctionName(f)', "function", Root, 0)>> \o rest'
    BY Zenon DEF FunctionSymbols
  <2> HIDE DEF rest
  <2> QED BY <2>3, <2>4, <2>5, FunctionNamesStay
<1>2. \A d : VariableSymbols(scopes, d)' = VariableSymbols(scopes, d)
  <2> SUFFICES ASSUME NEW d PROVE VariableSymbols(scopes, d)' = VariableSymbols(scopes, d)
    OBVIOUS
  <2> DEFINE at == DeclaredName(d)
             blocks == {b \in ProgramBlocks : Holds(b.range, at)}
             symbols(a, bs) ==
               LET scope == ScopeAt(scopes, a)
                   block == FirstKind(bs)
                   program == scopes[scope].kind \in BlockKinds /\ block \in ProgramKinds
               IN IF a = 0 THEN <<>>
                  ELSE <<Symbol(a, IF program THEN block ELSE "local",
                                IF program THEN Root ELSE scope, d.end)>>
  <2>1. at' = at
    BY NamesStay DEF DeclaredName
  <2>2. blocks' = blocks
    <3> HIDE DEF at
    <3> QED BY <2>1, BlocksStay
  <2>3. VariableSymbols(scopes, d) = symbols(at, blocks)
    BY Zenon DEF VariableSymbols
  <2>4. VariableSymbols(scopes, d)' = symbols(at', blocks')
    BY Zenon DEF VariableSymbols
  <2> HIDE DEF symbols, at, blocks
  <2> QED BY <2>1, <2>2, <2>3, <2>4
<1>3. \A for : LoopSymbols(scopes, for)' = LoopSymbols(scopes, for)
  BY BindersStay, BodiesStay DEF LoopSymbols
<1> DEFINE functions == Sorted(FunctionDeclarations)
           variables == Sorted(VariableDeclarations)
           loops     == Sorted(ForStatements)
           fs == [k \in DOMAIN functions |-> FunctionSymbols(scopes, functions[k])]
           vs == [k \in DOMAIN variables |-> VariableSymbols(scopes, variables[k])]
           ls == [k \in DOMAIN loops |-> LoopSymbols(scopes, loops[k])]
<1>4. functions' = functions /\ variables' = variables /\ loops' = loops
  BY FunctionsStay, VariablesStay, ForsStay
<1> HIDE DEF functions, variables, loops
<1>5. fs' = fs
  BY <1>1, <1>4
<1>6. vs' = vs
  BY <1>2, <1>4
<1>7. ls' = ls
  BY <1>3, <1>4
<1>8. AddSymbols(scopes) = FlattenSeq(fs) \o FlattenSeq(vs) \o FlattenSeq(ls)
  BY Zenon DEF AddSymbols, functions, variables, loops
<1>9. AddSymbols(scopes)' = FlattenSeq(fs') \o FlattenSeq(vs') \o FlattenSeq(ls')
  BY Zenon DEF AddSymbols, functions, variables, loops
<1> HIDE DEF fs, vs, ls
<1> QED BY <1>5, <1>6, <1>7, <1>8, <1>9

LEMMA AnalysisStays == TextStays => AnalyzeSemantics(NamesOf)' = AnalyzeSemantics(NamesOf)
<1> SUFFICES ASSUME TextStays PROVE AnalyzeSemantics(NamesOf)' = AnalyzeSemantics(NamesOf)
  OBVIOUS
<1> DEFINE scopes == BuildScopes
           symbols == AddSymbols(scopes)
           uses == References(symbols)
           names == NamesOf
<1>1. scopes' = scopes
  BY ScopesStay
<1>2. symbols' = symbols
  <2> HIDE DEF scopes
  <2> QED BY <1>1, SymbolsStay
<1>3. names' = names
  BY DEF NamesOf, TextStays
<1>4. uses' = uses
  <2>1. Of("identifier", DOMAIN text)' = Of("identifier", DOMAIN text)
    BY Zenon DEF Of, KindAt, TextStays
  <2> HIDE DEF symbols
  <2> QED BY <1>2, <2>1 DEF References
<1> DEFINE found(sc, sy, us, na) ==
             [scopes |-> sc, symbols |-> sy,
              resolved |-> [i \in us |-> ResolveName(sy, sc, na, i)],
              duplicates |-> Duplicates(sy, na)]
<1>5. AnalyzeSemantics(NamesOf) = found(scopes, symbols, uses, names)
  BY Zenon DEF AnalyzeSemantics
<1>6. AnalyzeSemantics(NamesOf)' = found(scopes', symbols', uses', names')
  BY Zenon DEF AnalyzeSemantics
<1> HIDE DEF scopes, symbols, uses, names, found
<1> QED BY <1>1, <1>2, <1>3, <1>4, <1>5, <1>6

(* Once analyzed, the model is that of the text, and stays so until the text *)
(* changes: what is left out of a phrase changes neither.                    *)
ModelIsCurrent == ~ due => model = AnalyzeSemantics(NamesOf)

LEMMA ModelsAreCurrent == Spec => []ModelIsCurrent
<1>1. Init => ModelIsCurrent
  BY DEF Init, ModelIsCurrent
<1>2. ModelIsCurrent /\ [Next]_vars => ModelIsCurrent'
  <2> SUFFICES ASSUME ModelIsCurrent, [Next]_vars PROVE ModelIsCurrent'
    OBVIOUS
  <2>1. ASSUME NEW p, Write(p) PROVE ModelIsCurrent'
    <3>1. CASE Type(p)
      BY <3>1 DEF Type, ModelIsCurrent
    <3>2. CASE Slip(p)
      <4>1. TextStays /\ due' = due /\ model' = model
        BY <3>2 DEF Slip, delimiterVars, TextStays
      <4> QED BY <4>1, AnalysisStays DEF ModelIsCurrent
    <3> QED BY <2>1, <3>1, <3>2 DEF Write
  <2>2. CASE Analyze
    <3>1. TextStays /\ model' = AnalyzeSemantics(NamesOf)
      BY <2>2 DEF Analyze, delimiterVars, TextStays
    <3> QED BY <3>1, AnalysisStays DEF ModelIsCurrent
  <2>3. CASE UNCHANGED vars
    <3>1. TextStays /\ due' = due /\ model' = model
      BY <2>3 DEF vars, delimiterVars, TextStays
    <3> QED BY <3>1, AnalysisStays DEF ModelIsCurrent
  <2> QED BY <2>1, <2>2, <2>3 DEF Next, Continue, Begin
<1> QED
  BY <1>1, <1>2, PTL DEF Spec

-----------------------------------------------------------------------------
(* A text of which no token was left out is laid with phrases: each begins  *)
(* behind the end of a statement or at a brace, and has none inside.        *)

Boundaries == {"leftBrace", "rightBrace", "semicolon"}

FunctionShape == <<"type", "identifier", "leftParen", "type", "identifier", "rightParen",
                   "leftBrace">>
PlainShape    == <<"type", "identifier", "semicolon">>
SizedShape    == <<"type", "leftBracket", "identifier", "rightBracket", "identifier", "assign",
                   "identifier", "semicolon">>
CallShape     == <<"identifier", "leftParen", "identifier", "rightParen", "semicolon">>
LoopShape     == <<"for", "leftParen", "identifier", "in", "identifier", "rightParen", "leftBrace">>
HeaderShapes  == {<<w, "leftBrace">> : w \in {"functions", "data", "parameters", "model"}}
                 \cup {<<v, w, "leftBrace">> : v \in {"transformed", "generated"},
                                               w \in {"data", "parameters", "quantities"}}
Shapes == HeaderShapes \cup {<<"leftBrace">>, <<"rightBrace">>}
          \cup {FunctionShape, PlainShape, SizedShape, CallShape, LoopShape}

KnownNames == VariableNames \cup FunctionNames \cup {""}

Spells(t, kind) == t.kind = kind /\ t.name \in KnownNames

Shaped(p, shape) ==
  /\ Len(p) = Len(shape)
  /\ \A k \in 1 .. Len(shape) : Spells(p[k], shape[k])

Tile(s, b, shape) ==
  /\ b + Len(shape) - 1 <= Len(s)
  /\ \A k \in 1 .. Len(shape) : s[b + k - 1].kind = shape[k]
  /\ b = 1 \/ s[b - 1].kind \in Boundaries

Tiled(s) ==
  \A i \in 1 .. Len(s) :
    \E shape \in Shapes, b \in 1 .. i : i < b + Len(shape) /\ Tile(s, b, shape)

Closed(s) == Len(s) = 0 \/ s[Len(s)].kind \in Boundaries

Laid(s) == /\ s \in Seq(Token) /\ Tiled(s) /\ Closed(s)
           /\ \A i \in 1 .. Len(s) : s[i].name \in KnownNames

(* The kinds of each, in their order *)
LEMMA ShapesAre ==
  /\ Len(FunctionShape) = 7 /\ FunctionShape[1] = "type" /\ FunctionShape[2] = "identifier"
  /\ FunctionShape[3] = "leftParen" /\ FunctionShape[4] = "type" /\ FunctionShape[5] = "identifier"
  /\ FunctionShape[6] = "rightParen" /\ FunctionShape[7] = "leftBrace"
  /\ Len(PlainShape) = 3 /\ PlainShape[1] = "type" /\ PlainShape[2] = "identifier"
  /\ PlainShape[3] = "semicolon"
  /\ Len(SizedShape) = 8 /\ SizedShape[1] = "type" /\ SizedShape[2] = "leftBracket"
  /\ SizedShape[3] = "identifier" /\ SizedShape[4] = "rightBracket" /\ SizedShape[5] = "identifier"
  /\ SizedShape[6] = "assign" /\ SizedShape[7] = "identifier" /\ SizedShape[8] = "semicolon"
  /\ Len(CallShape) = 5 /\ CallShape[1] = "identifier" /\ CallShape[2] = "leftParen"
  /\ CallShape[3] = "identifier" /\ CallShape[4] = "rightParen" /\ CallShape[5] = "semicolon"
  /\ Len(LoopShape) = 7 /\ LoopShape[1] = "for" /\ LoopShape[2] = "leftParen"
  /\ LoopShape[3] = "identifier" /\ LoopShape[4] = "in" /\ LoopShape[5] = "identifier"
  /\ LoopShape[6] = "rightParen" /\ LoopShape[7] = "leftBrace"
  BY DEF FunctionShape, PlainShape, SizedShape, CallShape, LoopShape

LEMMA IndicesAre == \A n \in 1 .. 8 : \A k \in 1 .. n :
                      k = 1 \/ k = 2 \/ k = 3 \/ k = 4 \/ k = 5 \/ k = 6 \/ k = 7 \/ k = 8
  OBVIOUS

LEMMA TokensSpell ==
  /\ \A kind, role : Spells(T(kind, role), kind)
  /\ \A kind : Spells(Plain(kind), kind)
  /\ \A role : Spells(Open(role), "leftBrace")
  /\ \A x \in KnownNames : /\ Spells(Use(x), "identifier")
                           /\ Spells(Declare(x), "identifier")
                           /\ Spells(Name(x), "identifier")
<1>1. "" \in KnownNames
  BY DEF KnownNames
<1>2. \A kind, role : Spells(T(kind, role), kind)
  BY <1>1, Zenon DEF Spells, T
<1>3. \A kind : Spells(Plain(kind), kind)
  BY <1>2, Zenon DEF Plain
<1>4. \A role : Spells(Open(role), "leftBrace")
  BY <1>2, Zenon DEF Open
<1>5. ASSUME NEW x \in KnownNames
      PROVE  /\ Spells(Use(x), "identifier") /\ Spells(Declare(x), "identifier")
             /\ Spells(Name(x), "identifier")
  BY Zenon DEF Spells, Use, Declare, Name
<1> QED BY <1>2, <1>3, <1>4, <1>5

(* What is written has one of the shapes, and names that are known. *)
LEMMA StatementsAreShaped ==
  ASSUME NEW f \in KnownNames, NEW x \in KnownNames
  PROVE  /\ Shaped(FunctionPhrase(f, x),
                FunctionShape)
         /\ Shaped(<<Plain("type"), Declare(x), T("semicolon", "ends")>>,
                PlainShape)
         /\ Shaped(<<Plain("type"), Plain("leftBracket"), Use(x), Plain("rightBracket"),
                    Declare(x), Plain("assign"), Use(x), T("semicolon", "ends")>>,
                SizedShape)
         /\ Shaped(<<Use(f), Plain("leftParen"), Use(x), Plain("rightParen"), Plain("semicolon")>>,
                CallShape)
         /\ Shaped(LoopHead(x) \o <<Plain("rightParen"), Open("loop")>>,
                LoopShape)
<1>0. "" \in KnownNames
  BY DEF KnownNames
<1>1. Shaped(FunctionPhrase(f, x),
            FunctionShape)
  <2> DEFINE p == FunctionPhrase(f, x)
  <2>1. /\ Len(p) = 7 /\ p[1] = Plain("type") /\ p[2] = Name(f)
        /\ p[3] = Plain("leftParen") /\ p[4] = Plain("type") /\ p[5] = Declare(x)
        /\ p[6] = Plain("rightParen") /\ p[7] = Open("function")
    BY DEF FunctionPhrase
  <2> HIDE DEF p
  <2>2. /\ Spells(p[1], FunctionShape[1]) /\ Spells(p[2], FunctionShape[2])
        /\ Spells(p[3], FunctionShape[3]) /\ Spells(p[4], FunctionShape[4])
        /\ Spells(p[5], FunctionShape[5]) /\ Spells(p[6], FunctionShape[6])
        /\ Spells(p[7], FunctionShape[7])
    BY <2>1, ShapesAre, TokensSpell
  <2>3. \A k \in 1 .. 7 : k = 1 \/ k = 2 \/ k = 3 \/ k = 4 \/ k = 5 \/ k = 6 \/ k = 7
    OBVIOUS
  <2>4. \A k \in 1 .. 7 : Spells(p[k], FunctionShape[k])
    BY <2>2, <2>3
  <2> QED BY <2>1, <2>4, ShapesAre DEF Shaped, p
<1>2. Shaped(<<Plain("type"), Declare(x), T("semicolon", "ends")>>,
            PlainShape)
  <2> DEFINE p == <<Plain("type"), Declare(x), T("semicolon", "ends")>>
  <2>1. /\ Len(p) = 3 /\ p[1] = Plain("type") /\ p[2] = Declare(x)
        /\ p[3] = T("semicolon", "ends")
    OBVIOUS
  <2> HIDE DEF p
  <2>2. /\ Spells(p[1], PlainShape[1]) /\ Spells(p[2], PlainShape[2])
        /\ Spells(p[3], PlainShape[3])
    BY <2>1, ShapesAre, TokensSpell
  <2>3. \A k \in 1 .. 3 : k = 1 \/ k = 2 \/ k = 3
    OBVIOUS
  <2>4. \A k \in 1 .. 3 : Spells(p[k], PlainShape[k])
    BY <2>2, <2>3
  <2> QED BY <2>1, <2>4, ShapesAre DEF Shaped, p
<1>3. Shaped(<<Plain("type"), Plain("leftBracket"), Use(x), Plain("rightBracket"),
                    Declare(x), Plain("assign"), Use(x), T("semicolon", "ends")>>,
            SizedShape)
  <2> DEFINE p == <<Plain("type"), Plain("leftBracket"), Use(x), Plain("rightBracket"),
                    Declare(x), Plain("assign"), Use(x), T("semicolon", "ends")>>
  <2>1. /\ Len(p) = 8 /\ p[1] = Plain("type") /\ p[2] = Plain("leftBracket")
        /\ p[3] = Use(x) /\ p[4] = Plain("rightBracket") /\ p[5] = Declare(x)
        /\ p[6] = Plain("assign") /\ p[7] = Use(x) /\ p[8] = T("semicolon", "ends")
    OBVIOUS
  <2> HIDE DEF p
  <2>2. /\ Spells(p[1], SizedShape[1]) /\ Spells(p[2], SizedShape[2])
        /\ Spells(p[3], SizedShape[3]) /\ Spells(p[4], SizedShape[4])
        /\ Spells(p[5], SizedShape[5]) /\ Spells(p[6], SizedShape[6])
        /\ Spells(p[7], SizedShape[7]) /\ Spells(p[8], SizedShape[8])
    BY <2>1, ShapesAre, TokensSpell
  <2>3. \A k \in 1 .. 8 : k = 1 \/ k = 2 \/ k = 3 \/ k = 4 \/ k = 5 \/ k = 6 \/ k = 7 \/ k = 8
    OBVIOUS
  <2>4. \A k \in 1 .. 8 : Spells(p[k], SizedShape[k])
    BY <2>2, <2>3
  <2> QED BY <2>1, <2>4, ShapesAre DEF Shaped, p
<1>4. Shaped(<<Use(f), Plain("leftParen"), Use(x), Plain("rightParen"), Plain("semicolon")>>,
            CallShape)
  <2> DEFINE p == <<Use(f), Plain("leftParen"), Use(x), Plain("rightParen"), Plain("semicolon")>>
  <2>1. /\ Len(p) = 5 /\ p[1] = Use(f) /\ p[2] = Plain("leftParen")
        /\ p[3] = Use(x) /\ p[4] = Plain("rightParen") /\ p[5] = Plain("semicolon")
    OBVIOUS
  <2> HIDE DEF p
  <2>2. /\ Spells(p[1], CallShape[1]) /\ Spells(p[2], CallShape[2])
        /\ Spells(p[3], CallShape[3]) /\ Spells(p[4], CallShape[4])
        /\ Spells(p[5], CallShape[5])
    BY <2>1, ShapesAre, TokensSpell
  <2>3. \A k \in 1 .. 5 : k = 1 \/ k = 2 \/ k = 3 \/ k = 4 \/ k = 5
    OBVIOUS
  <2>4. \A k \in 1 .. 5 : Spells(p[k], CallShape[k])
    BY <2>2, <2>3
  <2> QED BY <2>1, <2>4, ShapesAre DEF Shaped, p
<1>5. Shaped(LoopHead(x) \o <<Plain("rightParen"), Open("loop")>>,
            LoopShape)
  <2> DEFINE p == LoopHead(x) \o <<Plain("rightParen"), Open("loop")>>
  <2>1. /\ Len(p) = 7 /\ p[1] = Plain("for") /\ p[2] = Plain("leftParen")
        /\ p[3] = Declare(x) /\ p[4] = Plain("in") /\ p[5] = Use(x)
        /\ p[6] = Plain("rightParen") /\ p[7] = Open("loop")
    BY DEF LoopHead
  <2> HIDE DEF p
  <2>2. /\ Spells(p[1], LoopShape[1]) /\ Spells(p[2], LoopShape[2])
        /\ Spells(p[3], LoopShape[3]) /\ Spells(p[4], LoopShape[4])
        /\ Spells(p[5], LoopShape[5]) /\ Spells(p[6], LoopShape[6])
        /\ Spells(p[7], LoopShape[7])
    BY <2>1, ShapesAre, TokensSpell
  <2>3. \A k \in 1 .. 7 : k = 1 \/ k = 2 \/ k = 3 \/ k = 4 \/ k = 5 \/ k = 6 \/ k = 7
    OBVIOUS
  <2>4. \A k \in 1 .. 7 : Spells(p[k], LoopShape[k])
    BY <2>2, <2>3
  <2> QED BY <2>1, <2>4, ShapesAre DEF Shaped, p
<1> QED
  BY <1>1, <1>2, <1>3, <1>4, <1>5

LEMMA OneMore ==
  ASSUME NEW S, NEW s \in Seq(S), NEW e \in S
  PROVE  /\ Len(s \o <<e>>) = Len(s) + 1
         /\ \A k \in 1 .. Len(s) : (s \o <<e>>)[k] = s[k]
         /\ (s \o <<e>>)[Len(s) + 1] = e
  OBVIOUS

LEMMA HeadersAreShaped ==
  ASSUME NEW h \in BlockHeaders
  PROVE  \E shape \in HeaderShapes : Shaped(BlockPhrase(h), shape)
<1> DEFINE words == [k \in DOMAIN h.words |-> Plain(h.words[k])]
           p == BlockPhrase(h)
<1>0. "" \in KnownNames
  BY DEF KnownNames
<1>1. words \in Seq(Token) /\ Open(h.kind) \in Token
  <2>1. \A k \in DOMAIN h.words : Plain(h.words[k]) \in Token
    BY HeadersAreWords, PlainTokens, Vocabulary
  <2>2. Open(h.kind) \in Token
    BY HeadersAreWords, PlainTokens, Vocabulary DEF Open
  <2> QED BY <2>1, <2>2, HeadersAreWords
<1>2. p = words \o <<Open(h.kind)>>
  BY DEF BlockPhrase
<1>3. ASSUME NEW w \in {"functions", "data", "parameters", "model"}, h.words = <<w>>
      PROVE  \E shape \in HeaderShapes : Shaped(p, shape)
  <2>1. Len(words) = 1 /\ words[1] = Plain(w)
    <3>1. DOMAIN h.words = 1 .. 1 /\ h.words[1] = w /\ 1 \in 1 .. 1
      BY <1>3
    <3>2. DOMAIN words = 1 .. 1 /\ words[1] = Plain(w)
      BY <3>1
    <3> HIDE DEF words
    <3> QED BY <1>1, <3>2
  <2> HIDE DEF words, p
  <2> DEFINE o == Open(h.kind)
  <2>2. Len(p) = 2 /\ p[1] = Plain(w) /\ p[2] = o
    <3>1. words \in Seq(Token) /\ o \in Token /\ p = words \o <<o>> /\ 1 \in 1 .. 1 /\ 1 + 1 = 2
      BY <1>1, <1>2
    <3> HIDE DEF o
    <3> DEFINE q == words \o <<o>>
    <3>3. Len(q) = Len(words) + 1 /\ q[Len(words) + 1] = o
          /\ \A k \in 1 .. Len(words) : q[k] = words[k]
      <4>1. words \in Seq(Token) /\ o \in Token
        BY <3>1
      <4> QED BY <4>1, OneMore
    <3> HIDE DEF q
    <3>2. Len(p) = Len(words) + 1 /\ p[Len(words) + 1] = o
          /\ \A k \in 1 .. Len(words) : p[k] = words[k]
      BY <3>1, <3>3 DEF q
    <3> QED BY <2>1, <3>1, <3>2
  <2>3. /\ Len(<<w, "leftBrace">>) = 2 /\ <<w, "leftBrace">>[1] = w
        /\ <<w, "leftBrace">>[2] = "leftBrace"
        /\ \A k \in 1 .. 2 : k = 1 \/ k = 2
    OBVIOUS
  <2>4. Shaped(p, <<w, "leftBrace">>)
    <3>1. Spells(p[1], w) /\ Spells(p[2], "leftBrace")
      BY <2>2, TokensSpell
    <3>2. \A k \in 1 .. 2 : Spells(p[k], <<w, "leftBrace">>[k])
      BY <2>3, <3>1
    <3> QED BY <2>2, <2>3, <3>2 DEF Shaped
  <2>5. <<w, "leftBrace">> \in HeaderShapes
    <3> DEFINE words1 == {"functions", "data", "parameters", "model"}
               one == {<<u, "leftBrace">> : u \in words1}
    <3>1. one \subseteq HeaderShapes
      BY DEF HeaderShapes
    <3>2. <<w, "leftBrace">> \in one
      <4>1. w \in words1
        OBVIOUS
      <4> HIDE DEF words1
      <4> QED BY <4>1, Zenon
    <3> HIDE DEF one
    <3> QED BY <3>1, <3>2
  <2> QED BY <2>4, <2>5
<1>4. ASSUME NEW v \in {"transformed", "generated"},
             NEW w \in {"data", "parameters", "quantities"}, h.words = <<v, w>>
      PROVE  \E shape \in HeaderShapes : Shaped(p, shape)
  <2>1. Len(words) = 2 /\ words[1] = Plain(v) /\ words[2] = Plain(w)
    <3>1. /\ DOMAIN h.words = 1 .. 2 /\ h.words[1] = v /\ h.words[2] = w
          /\ 1 \in 1 .. 2 /\ 2 \in 1 .. 2
      BY <1>4
    <3>2. DOMAIN words = 1 .. 2 /\ words[1] = Plain(v) /\ words[2] = Plain(w)
      BY <3>1
    <3> HIDE DEF words
    <3> QED BY <1>1, <3>2
  <2> HIDE DEF words, p
  <2> DEFINE o == Open(h.kind)
  <2>2. Len(p) = 3 /\ p[1] = Plain(v) /\ p[2] = Plain(w) /\ p[3] = o
    <3>1. /\ words \in Seq(Token) /\ o \in Token /\ p = words \o <<o>>
          /\ 1 \in 1 .. 2 /\ 2 \in 1 .. 2 /\ 2 + 1 = 3
      BY <1>1, <1>2
    <3> HIDE DEF o
    <3> DEFINE q == words \o <<o>>
    <3>3. Len(q) = Len(words) + 1 /\ q[Len(words) + 1] = o
          /\ \A k \in 1 .. Len(words) : q[k] = words[k]
      <4>1. words \in Seq(Token) /\ o \in Token
        BY <3>1
      <4> QED BY <4>1, OneMore
    <3> HIDE DEF q
    <3>2. Len(p) = Len(words) + 1 /\ p[Len(words) + 1] = o
          /\ \A k \in 1 .. Len(words) : p[k] = words[k]
      BY <3>1, <3>3 DEF q
    <3> QED BY <2>1, <3>1, <3>2
  <2>3. /\ Len(<<v, w, "leftBrace">>) = 3 /\ <<v, w, "leftBrace">>[1] = v
        /\ <<v, w, "leftBrace">>[2] = w /\ <<v, w, "leftBrace">>[3] = "leftBrace"
        /\ \A k \in 1 .. 3 : k = 1 \/ k = 2 \/ k = 3
    OBVIOUS
  <2>4. Shaped(p, <<v, w, "leftBrace">>)
    <3>1. Spells(p[1], v) /\ Spells(p[2], w) /\ Spells(p[3], "leftBrace")
      BY <2>2, TokensSpell
    <3>2. \A k \in 1 .. 3 : Spells(p[k], <<v, w, "leftBrace">>[k])
      BY <2>3, <3>1
    <3> QED BY <2>2, <2>3, <3>2 DEF Shaped
  <2>5. <<v, w, "leftBrace">> \in HeaderShapes
    BY DEF HeaderShapes
  <2> QED BY <2>4, <2>5
<1>5. \/ \E w \in {"functions", "data", "parameters", "model"} : h.words = <<w>>
      \/ \E v \in {"transformed", "generated"}, w \in {"data", "parameters", "quantities"} :
           h.words = <<v, w>>
  BY DEF BlockHeaders
<1> HIDE DEF p
<1>6. \E shape \in HeaderShapes : Shaped(p, shape)
  <2> HIDE DEF words
  <2> QED BY <1>3, <1>4, <1>5
<1> QED BY <1>6 DEF p

LEMMA PhrasesAreShaped ==
  ASSUME NEW p \in Phrases
  PROVE  \E shape \in Shapes : Shaped(p, shape)
<1>0. "" \in KnownNames /\ VariableNames \subseteq KnownNames /\ FunctionNames \subseteq KnownNames
  BY DEF KnownNames
<1>1. \A f, x \in KnownNames : Shaped(FunctionPhrase(f, x), FunctionShape)
  BY StatementsAreShaped
<1>2. Shaped(Close, <<"rightBrace">>)
  <2>1. /\ Len(Close) = 1 /\ Close[1] = T("rightBrace", "leaves")
        /\ Len(<<"rightBrace">>) = 1 /\ <<"rightBrace">>[1] = "rightBrace"
        /\ \A k \in 1 .. 1 : k = 1
    BY DEF Close
  <2>2. Spells(Close[1], "rightBrace")
    BY <2>1, TokensSpell
  <2>3. \A k \in 1 .. 1 : Spells(Close[k], <<"rightBrace">>[k])
    BY <2>1, <2>2
  <2> QED BY <2>1, <2>3 DEF Shaped
<1>3. Shaped(<<Open("block")>>, <<"leftBrace">>)
  <2>1. /\ Len(<<Open("block")>>) = 1 /\ <<Open("block")>>[1] = Open("block")
        /\ Len(<<"leftBrace">>) = 1 /\ <<"leftBrace">>[1] = "leftBrace"
        /\ \A k \in 1 .. 1 : k = 1
    OBVIOUS
  <2>2. Spells(<<Open("block")>>[1], "leftBrace")
    BY <2>1, TokensSpell
  <2>3. \A k \in 1 .. 1 : Spells(<<Open("block")>>[k], <<"leftBrace">>[k])
    BY <2>1, <2>2
  <2> QED BY <2>1, <2>3 DEF Shaped
<1>4. ASSUME NEW x \in KnownNames
      PROVE  /\ Shaped(<<Plain("type"), Declare(x), T("semicolon", "ends")>>, PlainShape)
             /\ Shaped(<<Plain("type"), Plain("leftBracket"), Use(x), Plain("rightBracket"),
                         Declare(x), Plain("assign"), Use(x), T("semicolon", "ends")>>, SizedShape)
  BY StatementsAreShaped, Zenon
<1>5. ASSUME NEW f \in KnownNames, NEW x \in KnownNames
      PROVE  Shaped(<<Use(f), Plain("leftParen"), Use(x), Plain("rightParen"), Plain("semicolon")>>,
                    CallShape)
  BY StatementsAreShaped, Zenon
<1>6. ASSUME NEW x \in KnownNames
      PROVE  Shaped(LoopHead(x) \o <<Plain("rightParen"), Open("loop")>>, LoopShape)
  BY StatementsAreShaped, Zenon
<1>7. {FunctionShape, PlainShape, SizedShape, CallShape, LoopShape, <<"leftBrace">>, <<"rightBrace">>}
        \subseteq Shapes /\ HeaderShapes \subseteq Shapes
  BY DEF Shapes
<1> HIDE DEF Shapes
<1>8. ASSUME NEW d \in Declarations PROVE \E shape \in Shapes : Shaped(d, shape)
  <2>1. \E x \in VariableNames :
          \/ d = <<Plain("type"), Declare(x), T("semicolon", "ends")>>
          \/ d = <<Plain("type"), Plain("leftBracket"), Use(x), Plain("rightBracket"),
                   Declare(x), Plain("assign"), Use(x), T("semicolon", "ends")>>
    BY Zenon DEF Declarations
  <2> QED BY <1>0, <1>4, <1>7, <2>1, Zenon
<1>9. ASSUME NEW s \in Statements PROVE \E shape \in Shapes : Shaped(s, shape)
  <2> DEFINE calls == {<<Use(f), Plain("leftParen"), Use(x), Plain("rightParen"), Plain("semicolon")>> :
                         f \in FunctionNames, x \in VariableNames}
             loops == {LoopHead(x) \o <<Plain("rightParen"), Open("loop")>> : x \in VariableNames}
  <2>1. Statements = calls \cup {<<Open("block")>>} \cup loops
    BY DEF Statements
  <2>2. CASE s = <<Open("block")>>
    BY <1>3, <1>7, <2>2
  <2>3. CASE s \in loops
    BY <1>0, <1>6, <1>7, <2>3, Zenon
  <2>4. CASE s \in calls
    <3>1. PICK f \in FunctionNames, x \in VariableNames :
            s = <<Use(f), Plain("leftParen"), Use(x), Plain("rightParen"), Plain("semicolon")>>
      BY <2>4
    <3>2. f \in KnownNames /\ x \in KnownNames
      BY <1>0
    <3>3. Shaped(s, CallShape)
      BY <1>5, <3>1, <3>2, Zenon
    <3> QED BY <1>7, <3>3
  <2> HIDE DEF calls, loops
  <2> QED BY <1>9, <2>1, <2>2, <2>3, <2>4
<1>10. \/ \E h \in BlockHeaders : p = BlockPhrase(h)
       \/ \E f \in FunctionNames, x \in VariableNames : p = FunctionPhrase(f, x)
       \/ p = Close
       \/ p \in Declarations
       \/ p \in Statements
  <2>1. CASE Owner = "program"
    BY <2>1 DEF Phrases
  <2>2. CASE Owner = "functions"
    <3>1. p \in {FunctionPhrase(f, x) : f \in FunctionNames, x \in VariableNames} \/ p = Close
      BY <2>2 DEF Phrases
    <3> QED BY <3>1
  <2>3. CASE Owner # "program" /\ Owner # "functions"
    BY <2>3 DEF Phrases
  <2> QED BY <2>1, <2>2, <2>3
<1> QED
  BY <1>0, <1>1, <1>2, <1>7, <1>8, <1>9, <1>10, HeadersAreShaped, Zenon

(* A shape ends with its only boundary. *)
LEMMA ShapesEnd ==
  ASSUME NEW shape \in Shapes
  PROVE  /\ Len(shape) \in 1 .. 8
         /\ shape[Len(shape)] \in Boundaries
         /\ \A k \in 1 .. Len(shape) - 1 : shape[k] \notin Boundaries
<1>1. CASE shape \in HeaderShapes
  <2>1. ASSUME NEW w \in {"functions", "data", "parameters", "model"}, shape = <<w, "leftBrace">>
        PROVE  /\ Len(shape) = 2 /\ shape[2] = "leftBrace" /\ shape[1] \notin Boundaries
               /\ \A k \in 1 .. 2 - 1 : k = 1
    BY <2>1 DEF Boundaries
  <2>2. ASSUME NEW v \in {"transformed", "generated"},
               NEW w \in {"data", "parameters", "quantities"}, shape = <<v, w, "leftBrace">>
        PROVE  /\ Len(shape) = 3 /\ shape[3] = "leftBrace"
               /\ shape[1] \notin Boundaries /\ shape[2] \notin Boundaries
               /\ \A k \in 1 .. 3 - 1 : k = 1 \/ k = 2
    BY <2>2 DEF Boundaries
  <2>3. \/ \E w \in {"functions", "data", "parameters", "model"} : shape = <<w, "leftBrace">>
        \/ \E v \in {"transformed", "generated"}, w \in {"data", "parameters", "quantities"} :
             shape = <<v, w, "leftBrace">>
    <3>1. CASE shape \in {<<w, "leftBrace">> : w \in {"functions", "data", "parameters", "model"}}
      BY <3>1, Zenon
    <3>2. CASE shape \in {<<v, w, "leftBrace">> : v \in {"transformed", "generated"},
                                                w \in {"data", "parameters", "quantities"}}
      BY <3>2
    <3> QED BY <1>1, <3>1, <3>2 DEF HeaderShapes
  <2>4. /\ 2 \in 1 .. 8 /\ 3 \in 1 .. 8 /\ "leftBrace" \in Boundaries
    BY DEF Boundaries
  <2> QED BY <2>1, <2>2, <2>3, <2>4
<1>2. CASE shape = FunctionShape
  <2>1. 7 \in 1 .. 8 /\ \A k \in 1 .. 7 - 1 : k = 1 \/ k = 2 \/ k = 3 \/ k = 4 \/ k = 5 \/ k = 6
    OBVIOUS
  <2> QED BY <1>2, <2>1, ShapesAre DEF Boundaries
<1>3. CASE shape = PlainShape
  <2>1. 3 \in 1 .. 8 /\ \A k \in 1 .. 3 - 1 : k = 1 \/ k = 2
    OBVIOUS
  <2> QED BY <1>3, <2>1, ShapesAre DEF Boundaries
<1>4. CASE shape = SizedShape
  <2>1. 8 \in 1 .. 8 /\ \A k \in 1 .. 8 - 1 : k = 1 \/ k = 2 \/ k = 3 \/ k = 4 \/ k = 5 \/ k = 6 \/ k = 7
    OBVIOUS
  <2> QED BY <1>4, <2>1, ShapesAre DEF Boundaries
<1>5. CASE shape = CallShape
  <2>1. 5 \in 1 .. 8 /\ \A k \in 1 .. 5 - 1 : k = 1 \/ k = 2 \/ k = 3 \/ k = 4
    OBVIOUS
  <2> QED BY <1>5, <2>1, ShapesAre DEF Boundaries
<1>6. CASE shape = LoopShape
  <2>1. 7 \in 1 .. 8 /\ \A k \in 1 .. 7 - 1 : k = 1 \/ k = 2 \/ k = 3 \/ k = 4 \/ k = 5 \/ k = 6
    OBVIOUS
  <2> QED BY <1>6, <2>1, ShapesAre DEF Boundaries
<1>7. CASE shape \in {<<"leftBrace">>, <<"rightBrace">>}
  <2>1. Len(shape) = 1 /\ shape[1] \in Boundaries /\ 1 \in 1 .. 8 /\ 1 .. 1 - 1 = {}
    BY <1>7 DEF Boundaries
  <2> QED BY <2>1
<1> QED
  BY <1>1, <1>2, <1>3, <1>4, <1>5, <1>6, <1>7 DEF Shapes

LEMMA LaidGrows ==
  ASSUME NEW s, Laid(s), NEW p \in Seq(Token), NEW shape \in Shapes, Shaped(p, shape)
  PROVE  Laid(s \o p)
<1> DEFINE n == Len(s)
           m == Len(shape)
           q == s \o p
<1>1. /\ n \in Nat /\ m \in 1 .. 8 /\ m \in Nat /\ Len(p) = m
      /\ q \in Seq(Token) /\ Len(q) = n + m
      /\ \A i \in 1 .. n : q[i] = s[i]
      /\ \A k \in 1 .. m : q[n + k] = p[k]
  <2>1. s \in Seq(Token) /\ Len(p) = m
    BY DEF Laid, Shaped
  <2>2. m \in 1 .. 8
    BY ShapesEnd
  <2> HIDE DEF m
  <2> QED BY <2>1, <2>2
<1>2. /\ shape[m] \in Boundaries
      /\ \A k \in 1 .. m : p[k].kind = shape[k] /\ p[k].name \in KnownNames
  BY ShapesEnd DEF Shaped, Spells
<1> HIDE DEF n, m, q
<1>3. Closed(q)
  <2>1. m \in 1 .. m /\ n + m # 0
    BY <1>1
  <2> QED BY <1>1, <1>2, <2>1 DEF Closed
<1>4. ASSUME NEW i \in 1 .. Len(q) PROVE q[i].name \in KnownNames
  <2>1. CASE i <= n
    <3>1. i \in 1 .. n
      BY <1>1, <2>1
    <3> QED BY <1>1, <3>1 DEF Laid, n
  <2>2. CASE ~ (i <= n)
    <3>1. i - n \in 1 .. m /\ n + (i - n) = i
      BY <1>1, <2>2
    <3>2. q[n + (i - n)] = p[i - n] /\ p[i - n].name \in KnownNames
      BY <1>1, <1>2, <3>1
    <3> QED BY <3>1, <3>2
  <2> QED BY <2>1, <2>2
<1>5. ASSUME NEW i \in 1 .. Len(q)
      PROVE  \E sh \in Shapes, b \in 1 .. i : i < b + Len(sh) /\ Tile(q, b, sh)
  <2>1. CASE i <= n
    <3>1. i \in 1 .. n
      BY <1>1, <2>1
    <3>2. PICK sh \in Shapes, b \in 1 .. i : i < b + Len(sh) /\ Tile(s, b, sh)
      BY <3>1 DEF Laid, Tiled, n
    <3>3. Len(sh) \in Nat /\ b \in Nat
      BY <3>1, ShapesEnd
    <3>4. b + Len(sh) - 1 <= n /\ \A k \in 1 .. Len(sh) : b + k - 1 \in 1 .. n
      BY <1>1, <3>2, <3>3 DEF Tile, n
    <3>5. b = 1 \/ b - 1 \in 1 .. n
      BY <1>1, <3>1
    <3>6. Tile(q, b, sh)
      <4>1. \A k \in 1 .. Len(sh) : q[b + k - 1].kind = sh[k]
        BY <1>1, <3>2, <3>4 DEF Tile
      <4>2. b + Len(sh) - 1 <= Len(q)
        BY <1>1, <3>3, <3>4
      <4>3. b = 1 \/ q[b - 1].kind \in Boundaries
        BY <1>1, <3>2, <3>5 DEF Tile
      <4> QED BY <4>1, <4>2, <4>3 DEF Tile
    <3> QED BY <3>2, <3>6
  <2>2. CASE ~ (i <= n)
    <3>1. n + 1 \in 1 .. i /\ i < (n + 1) + m /\ (n + 1) + m - 1 = n + m
          /\ \A k \in 1 .. m : (n + 1) + k - 1 = n + k
      BY <1>1, <2>2
    <3>2. \A k \in 1 .. m : q[(n + 1) + k - 1].kind = shape[k]
      BY <1>1, <1>2, <3>1
    <3>3. n + 1 = 1 \/ q[(n + 1) - 1].kind \in Boundaries
      <4>1. (n + 1) - 1 = n /\ (n # 0 => n \in 1 .. n)
        BY <1>1
      <4>2. n = 0 \/ s[n].kind \in Boundaries
        BY DEF Laid, Closed, n
      <4> QED BY <1>1, <4>1, <4>2
    <3>4. (n + 1) + m - 1 <= Len(q)
      BY <1>1, <3>1
    <3>5. Tile(q, n + 1, shape)
      BY <3>2, <3>3, <3>4 DEF Tile, m
    <3> QED BY <3>1, <3>5 DEF m
  <2> QED BY <2>1, <2>2
<1> QED
  BY <1>1, <1>3, <1>4, <1>5 DEF Laid, Tiled, q

(* Until a token is left out, what was typed and what is left of the phrase  *)
(* are laid.                                                                 *)
LaidInv == slips = 0 => Laid(text \o pending)

LEMMA WritingLays ==
  ASSUME text \in Seq(Token), NEW p \in Seq(Token), p # <<>>, slips = 0 => Laid(text \o p),
         AuthorInv, Write(p)
  PROVE  LaidInv'
<1>1. CASE Type(p)
  <2>1. text' = Append(text, Head(p)) /\ pending' = Tail(p) /\ slips' = slips
    BY <1>1 DEF Type, ReadToken
  <2>2. Append(text, Head(p)) \o Tail(p) = text \o p
    OBVIOUS
  <2> QED BY <2>1, <2>2 DEF LaidInv
<1>2. CASE Slip(p)
  <2>1. slips \in 0 .. MaxSlips /\ MaxSlips \in Nat /\ slips' = slips + 1
    <3>1. slips' = slips + 1
      BY <1>2 DEF Slip
    <3>2. slips \in 0 .. MaxSlips
      BY DEF AuthorInv
    <3> QED BY <3>1, <3>2, AuthorAssumption
  <2>2. slips' # 0
    BY <2>1
  <2> QED BY <2>2 DEF LaidInv
<1> QED BY <1>1, <1>2 DEF Write

LEMMA TextsAreLaid == Spec => []LaidInv
<1>1. Init => LaidInv
  <2> SUFFICES ASSUME Init PROVE LaidInv
    OBVIOUS
  <2>1. text = <<>> /\ pending = <<>>
    BY DEF Init, DelimiterInit
  <2>2. <<>> \o <<>> = <<>> /\ <<>> \in Seq(Token) /\ Len(<<>>) = 0
    OBVIOUS
  <2>3. Laid(<<>>)
    BY <2>2 DEF Laid, Tiled, Closed
  <2> QED BY <2>1, <2>2, <2>3 DEF LaidInv
<1>2. AnalysisInv /\ AuthorInv /\ LaidInv /\ [Next]_vars => LaidInv'
  <2> SUFFICES ASSUME AnalysisInv, AuthorInv, LaidInv, [Next]_vars PROVE LaidInv'
    OBVIOUS
  <2>0. text \in Seq(Token) /\ pending \in Seq(Token)
    BY DEF AnalysisInv, DelimiterInv, DelimiterTypeOK
  <2>1. CASE Continue
    BY <2>0, <2>1, WritingLays DEF Continue, LaidInv
  <2>2. CASE Begin
    <3>1. PICK p \in Phrases : Write(p)
      BY <2>2 DEF Begin
    <3>2. p \in Seq(Token) /\ p # <<>>
      BY PhrasesAreTokens DEF PhraseOfTokens
    <3>3. PICK shape \in Shapes : Shaped(p, shape)
      BY PhrasesAreShaped
    <3>4. pending = <<>> /\ text \o <<>> = text
      BY <2>0, <2>2 DEF Begin
    <3>5. slips = 0 => Laid(text \o p)
      BY <3>2, <3>3, <3>4, LaidGrows DEF LaidInv
    <3> QED BY <2>0, <3>1, <3>2, <3>5, WritingLays
  <2>3. CASE Analyze
    BY <2>3 DEF Analyze, delimiterVars, authorVars, LaidInv
  <2>4. CASE UNCHANGED vars
    BY <2>4 DEF vars, delimiterVars, authorVars, LaidInv
  <2> QED BY <2>1, <2>2, <2>3, <2>4 DEF Next
<1> QED
  BY <1>1, <1>2, DelimitersHold, RecordsHold, PTL DEF Spec

-----------------------------------------------------------------------------
(* Two scopes are apart or nested, once every loop begins a statement.       *)

Apart(r, s) == Encloses(r, s) \/ Encloses(s, r) \/ r.end <= s.start \/ s.end <= r.start

(* The head of a function or loop: its statement begins at s, its brackets   *)
(* open behind i and close before its brace at o.                            *)
Heads(s, i, o) ==
  /\ i \in 1 .. Len(text) /\ o \in 1 .. Len(text) /\ s \in 1 .. i /\ i + 1 < o - 1
  /\ KindAt(i) \notin Boundaries /\ KindAt(i + 1) = "leftParen" /\ KindAt(o) = "leftBrace"
  /\ KindAt(o - 1) = "rightParen" /\ i + 1 \in DOMAIN pairs /\ pairs[i + 1] = o - 1
  /\ \A b \in 1 .. i - 1 : KindAt(b) \in Boundaries => b < s
  /\ s = 1 \/ KindAt(s - 1) \in Boundaries

LEMMA InsidePair ==
  ASSUME DelimiterTypeOK, PairsNest, NEW i \in DOMAIN pairs, NEW j \in Nat,
         i < j, j < pairs[i], KindAt(j) \in Openers
  PROVE  EndOf(j) \in Nat /\ j <= EndOf(j) /\ EndOf(j) < pairs[i]
<1>1. i \in 1 .. Len(text) /\ pairs[i] \in 1 .. Len(text) /\ text \in Seq(Token)
  BY DEF DelimiterTypeOK
<1>2. j \in 1 .. Len(text) /\ j \in i + 1 .. pairs[i] - 1 /\ DOMAIN text = 1 .. Len(text)
  BY <1>1
<1>3. text[j].kind \in Openers
  BY <1>2 DEF KindAt
<1>4. j \in DOMAIN pairs /\ pairs[j] < pairs[i]
  BY <1>2, <1>3 DEF PairsNest
<1>5. EndOf(j) = pairs[j]
  BY <1>4 DEF EndOf
<1>6. EndOf(j) \in 1 .. Len(text) /\ j <= EndOf(j)
  BY <1>2, EndIsBehind
<1> QED BY <1>4, <1>5, <1>6

LEMMA OpenersNest ==
  ASSUME DelimiterTypeOK, PairsNest, NEW i \in 1 .. Len(text), NEW j \in 1 .. Len(text), i < j,
         KindAt(j) \in Openers
  PROVE  EndOf(i) < j \/ (j <= EndOf(j) /\ EndOf(j) < EndOf(i))
<1>0. text \in Seq(Token) /\ i \in Nat /\ j \in Nat
  BY DEF DelimiterTypeOK
<1>1. CASE i \notin DOMAIN pairs
  BY <1>1 DEF EndOf
<1>2. CASE i \in DOMAIN pairs
  <2>1. EndOf(i) = pairs[i] /\ pairs[i] \in 1 .. Len(text) /\ text[pairs[i]].kind \in Closers
    BY <1>2 DEF EndOf, DelimiterTypeOK, PairsNest
  <2>2. pairs[i] # j
    <3>1. KindAt(pairs[i]) \in Closers
      BY <1>0, <2>1 DEF KindAt
    <3> QED BY <3>1, OpenersAreNoClosers
  <2>3. CASE j < pairs[i]
    BY <1>0, <1>2, <2>1, <2>3, InsidePair
  <2> QED BY <1>0, <2>1, <2>2, <2>3
<1> QED BY <1>1, <1>2

LEMMA StatementsBegin ==
  ASSUME text \in Seq(Token), NEW i \in Nat \ {0}
  PROVE  /\ StatementStart(i) \in 1 .. i
         /\ \A b \in 1 .. i - 1 : KindAt(b) \in Boundaries => b < StatementStart(i)
         /\ StatementStart(i) = 1 \/ KindAt(StatementStart(i) - 1) \in Boundaries
<1> DEFINE B == {0} \cup {b \in 1 .. i - 1 : KindAt(b) \in Boundaries}
           m == Max(B)
<1>0. i \in Nat /\ i >= 1
  OBVIOUS
<1>1. B \in SUBSET Nat /\ B # {} /\ i - 1 \in Nat /\ \A b \in B : b <= i - 1
  BY <1>0
<1>2. StatementStart(i) = 1 + m
  BY DEF StatementStart, Boundaries
<1>3. m \in B /\ \A b \in B : m >= b
  <2> HIDE DEF B
  <2> QED BY <1>1, MaxIsGreatest
<1>4. \A b \in 1 .. i - 1 : KindAt(b) \in Boundaries => b \in B
  OBVIOUS
<1>5. m = 0 \/ (m \in 1 .. i - 1 /\ KindAt(m) \in Boundaries)
  <2> HIDE DEF m
  <2> QED BY <1>3
<1> HIDE DEF B, m
<1>6. m \in 0 .. i - 1 /\ 1 + m \in 1 .. i /\ (1 + m) - 1 = m
  BY <1>0, <1>5
<1>7. \A b \in 1 .. i - 1 : KindAt(b) \in Boundaries => b < 1 + m
  <2> SUFFICES ASSUME NEW b \in 1 .. i - 1, KindAt(b) \in Boundaries PROVE b < 1 + m
    OBVIOUS
  <2>1. m >= b
    BY <1>3, <1>4
  <2> QED BY <1>6, <2>1
<1> QED BY <1>2, <1>5, <1>6, <1>7

LEMMA HeadsAreFound ==
  ASSUME DelimiterTypeOK, PairsNest, NEW i \in 1 .. Len(text),
         KindAt(i) \notin Boundaries, BraceAfter(i) # 0
  PROVE  Heads(StatementStart(i), i, BraceAfter(i))
<1> DEFINE c == pairs[i + 1]
           o == BraceAfter(i)
<1>0. text \in Seq(Token) /\ DOMAIN text = 1 .. Len(text) /\ i \in Nat
  BY DEF DelimiterTypeOK
<1>1. KindAt(i + 1) = "leftParen" /\ i + 1 \in DOMAIN pairs /\ o = c + 1
  BY DEF BraceAfter
<1>2. o \in 1 .. Len(text) /\ KindAt(o) = "leftBrace"
  BY BracesFollow
<1>3. /\ i + 1 < c /\ c \in 1 .. Len(text) /\ i + 1 \in 1 .. Len(text)
      /\ text[i + 1].kind = MatchingOpen(text[c].kind) /\ text[c].kind \in Closers
  BY <1>1 DEF DelimiterTypeOK, PairsNest
<1>4. KindAt(c) = "rightParen"
  <2>1. text[i + 1].kind = "leftParen" /\ KindAt(c) = text[c].kind
    BY <1>0, <1>1, <1>3 DEF KindAt
  <2> QED BY <1>3, <2>1 DEF MatchingOpen, Closers
<1>5. o - 1 = c /\ i + 1 < o - 1
  BY <1>0, <1>1, <1>3
<1> HIDE DEF c, o
<1>6. pairs[i + 1] = o - 1
  BY <1>5 DEF c
<1> QED
  BY <1>0, <1>1, <1>2, <1>4, <1>5, <1>6, StatementsBegin DEF Heads, o

LEMMA CompoundsApart ==
  ASSUME DelimiterTypeOK, PairsNest, NEW a \in 1 .. Len(text), NEW b \in 1 .. Len(text), a < b,
         KindAt(b) = "leftBrace"
  PROVE  Apart(Span(a, EndOf(a)), Span(b, EndOf(b)))
<1>1. EndOf(a) < b \/ (b <= EndOf(b) /\ EndOf(b) < EndOf(a))
  BY OpenersNest DEF Openers
<1>2. EndOf(a) \in 1 .. Len(text) /\ EndOf(b) \in 1 .. Len(text)
  BY EndIsBehind
<1> DEFINE e == EndOf(a)
           f == EndOf(b)
<1> HIDE DEF e, f
<1>3. e + 1 <= b \/ (a <= b /\ f + 1 <= e + 1)
  BY <1>1, <1>2 DEF e, f
<1> QED BY <1>3 DEF Apart, Encloses, Span, e, f

LEMMA HeadAndBlockApart ==
  ASSUME DelimiterTypeOK, PairsNest, NEW s, NEW i, NEW o, Heads(s, i, o),
         NEW a \in 1 .. Len(text), KindAt(a) = "leftBrace"
  PROVE  Apart(Span(s, EndOf(o)), Span(a, EndOf(a)))
<1> DEFINE e == EndOf(o)
           f == EndOf(a)
<1>0. /\ i \in Nat /\ o \in Nat /\ s \in Nat /\ a \in Nat /\ s <= i /\ i + 1 < o - 1
      /\ e \in Nat /\ f \in Nat /\ o <= e /\ a <= f
      /\ i + 1 \in DOMAIN pairs /\ pairs[i + 1] = o - 1 /\ f \in 1 .. Len(text)
  BY EndIsBehind DEF Heads
<1>1. a # i /\ a # i + 1 /\ a # o - 1 /\ "leftBrace" \in Boundaries /\ "leftBrace" \in Openers
  BY DEF Heads, Boundaries, Openers
<1>2. a < i => a < s
  BY <1>0, <1>1 DEF Heads
<1>3. CASE a < s
  <2>1. f < o \/ e < f
    BY <1>0, <1>1, <1>3, OpenersNest DEF Heads
  <2>2. CASE e < f
    <3>1. a <= s /\ e + 1 <= f + 1
      BY <1>0, <1>3, <2>2
    <3> HIDE DEF e, f
    <3> QED BY <3>1 DEF Apart, Encloses, Span, e, f
  <2>3. CASE f < o
    <3>1. f < i + 1 \/ o - 1 < f
      <4>1. i + 1 \in 1 .. Len(text) /\ KindAt(i + 1) \in Openers
        BY <1>0 DEF Heads, DelimiterTypeOK, Openers
      <4>2. EndOf(i + 1) = o - 1
        BY <1>0 DEF EndOf
      <4> HIDE DEF f
      <4>3. a < i + 1
        BY <1>0, <1>3
      <4> QED BY <4>1, <4>2, <4>3, OpenersNest DEF f
    <3>2. f < i + 1
      BY <1>0, <2>3, <3>1
    <3>3. f < s
      <4>1. CASE f = a
        BY <1>3, <4>1
      <4>2. CASE f # a
        <5>1. a \in DOMAIN pairs /\ f = pairs[a]
          BY <4>2 DEF EndOf
        <5>2. KindAt(f) \in Closers /\ KindAt(a) = MatchingOpen(KindAt(f))
          BY <5>1, <1>0 DEF PairsNest, KindAt, DelimiterTypeOK
        <5>3. KindAt(f) = "rightBrace"
          BY <5>2 DEF MatchingOpen, Closers
        <5>4. f # i /\ KindAt(f) \in Boundaries
          BY <5>3 DEF Heads, Boundaries
        <5>5. f \in 1 .. i - 1
          BY <1>0, <3>2, <5>4
        <5> QED BY <5>4, <5>5 DEF Heads
      <4> QED BY <4>1, <4>2
    <3>4. f + 1 <= s
      BY <1>0, <3>3
    <3> HIDE DEF e, f
    <3> QED BY <3>4 DEF Apart, Span, f
  <2> QED BY <2>1, <2>2, <2>3
<1>4. CASE ~ (a < s)
  <2>1. i + 1 < a
    BY <1>0, <1>1, <1>2, <1>4
  <2>2. f <= e \/ e < a
    <3>1. CASE a < o
      <4>1. a < o - 1
        BY <1>0, <1>1, <3>1
      <4>2. f < o - 1
        BY <1>0, <1>1, <2>1, <4>1, InsidePair
      <4> QED BY <1>0, <4>2
    <3>2. CASE a = o
      BY <1>0, <3>2
    <3>3. CASE o < a
      BY <1>0, <1>1, <3>3, OpenersNest DEF Heads
    <3> QED BY <1>0, <3>1, <3>2, <3>3
  <2>3. (s <= a /\ f + 1 <= e + 1) \/ e + 1 <= a
    BY <1>0, <1>4, <2>2
  <2> HIDE DEF e, f
  <2> QED BY <2>3 DEF Apart, Encloses, Span, e, f
<1> QED BY <1>3, <1>4

LEMMA HeadsApart ==
  ASSUME DelimiterTypeOK, PairsNest, NEW s, NEW i, NEW o, Heads(s, i, o),
         NEW u, NEW j, NEW p, Heads(u, j, p), s < u
  PROVE  Apart(Span(s, EndOf(o)), Span(u, EndOf(p)))
<1> DEFINE e == EndOf(o)
           f == EndOf(p)
<1>0. /\ i \in Nat /\ o \in Nat /\ s \in Nat /\ s <= i /\ i + 1 < o - 1
      /\ j \in Nat /\ p \in Nat /\ u \in Nat /\ u <= j /\ j + 1 < p - 1
      /\ e \in Nat /\ f \in Nat /\ o <= e /\ p <= f
      /\ i + 1 \in DOMAIN pairs /\ pairs[i + 1] = o - 1
      /\ j + 1 \in DOMAIN pairs /\ pairs[j + 1] = p - 1
      /\ i \in 1 .. Len(text) /\ o \in 1 .. Len(text) /\ p \in 1 .. Len(text)
      /\ s >= 1
  <2>1. /\ i \in 1 .. Len(text) /\ o \in 1 .. Len(text) /\ s \in 1 .. i /\ i + 1 < o - 1
        /\ i + 1 \in DOMAIN pairs /\ pairs[i + 1] = o - 1
    BY DEF Heads
  <2>2. /\ j \in 1 .. Len(text) /\ p \in 1 .. Len(text) /\ u \in 1 .. j /\ j + 1 < p - 1
        /\ j + 1 \in DOMAIN pairs /\ pairs[j + 1] = p - 1
    BY DEF Heads
  <2>3. e \in 1 .. Len(text) /\ o <= e /\ f \in 1 .. Len(text) /\ p <= f
    BY <2>1, <2>2, EndIsBehind
  <2> HIDE DEF e, f
  <2> QED BY <2>1, <2>2, <2>3
<1>1. /\ \A b : KindAt(b) \in Boundaries => b # i /\ b # i + 1 /\ b # o - 1
                                            /\ b # j /\ b # j + 1 /\ b # p - 1
      /\ KindAt(o) = "leftBrace" /\ KindAt(p) = "leftBrace"
      /\ "leftBrace" \in Boundaries /\ "leftBrace" \in Openers /\ "leftParen" \in Openers
      /\ j + 1 # o - 1 /\ j # o
  <2>1. /\ KindAt(i) \notin Boundaries /\ KindAt(i + 1) = "leftParen" /\ KindAt(o) = "leftBrace"
        /\ KindAt(o - 1) = "rightParen"
        /\ KindAt(j) \notin Boundaries /\ KindAt(j + 1) = "leftParen" /\ KindAt(p) = "leftBrace"
        /\ KindAt(p - 1) = "rightParen"
    BY DEF Heads
  <2>2. /\ "leftBrace" \in Boundaries /\ "leftBrace" \in Openers /\ "leftParen" \in Openers
        /\ "leftParen" \notin Boundaries /\ "rightParen" \notin Boundaries
    BY DEF Boundaries, Openers
  <2>3. "leftParen" # "rightParen"
    OBVIOUS
  <2> QED BY <2>1, <2>2, <2>3, Zenon
(* A statement starts behind the brackets of one that started before, or in  *)
(* them.                                                                     *)
<1>2. i + 2 < u
  <2>1. u - 1 \in Nat /\ u # 1 /\ u - 1 >= s /\ KindAt(u - 1) \in Boundaries
    BY <1>0 DEF Heads
  <2>2. u - 1 >= i
    <3> SUFFICES ASSUME u - 1 < i PROVE FALSE
      BY <1>0, <2>1
    <3>1. u - 1 \in 1 .. i - 1
      BY <1>0, <2>1
    <3>2. u - 1 < s
      BY <2>1, <3>1 DEF Heads
    <3> QED BY <1>0, <2>1, <3>2
  <2>3. u - 1 # i /\ u - 1 # i + 1 /\ u - 1 # o - 1
    BY <1>1, <2>1
  <2> QED BY <1>0, <2>1, <2>2, <2>3
<1>3. \A b \in 1 .. j - 1 : KindAt(b) \in Boundaries => b < u
  BY DEF Heads
<1>4. f < e \/ e < u
  <2>1. CASE u < o
    <3>1. j + 1 < o - 1
      <4>1. j < o
        <5> SUFFICES ASSUME ~ (j < o) PROVE FALSE
          OBVIOUS
        <5>1. o \in 1 .. j - 1
          BY <1>0, <1>1
        <5>2. o < u
          BY <1>1, <1>3, <5>1
        <5> QED BY <1>0, <2>1, <5>2
      <4>2. j # o - 1
        <5>1. KindAt(j + 1) = "leftParen" /\ KindAt(o) # "leftParen"
          BY <1>1 DEF Heads
        <5>2. j = o - 1 => j + 1 = o
          BY <1>0
        <5> QED BY <5>1, <5>2
      <4> QED BY <1>0, <1>1, <4>1, <4>2
    <3>2. p - 1 < o - 1
      <4>1. j + 1 \in Nat /\ i + 1 < j + 1 /\ j + 1 < pairs[i + 1] /\ KindAt(j + 1) \in Openers
        BY <1>0, <1>1, <1>2, <3>1 DEF Heads
      <4>2. EndOf(j + 1) < pairs[i + 1]
        BY <1>0, <4>1, InsidePair
      <4> QED BY <1>0, <4>2 DEF EndOf
    <3>3. p < o - 1
      <4>1. p # o - 1
        BY <1>1
      <4> QED BY <1>0, <3>2, <4>1
    <3>4. f < o - 1
      <4>1. i + 1 < p /\ p < pairs[i + 1] /\ KindAt(p) \in Openers
        BY <1>0, <1>1, <1>2, <3>3
      <4> QED BY <1>0, <4>1, InsidePair
    <3> QED BY <1>0, <3>4
  <2>2. CASE ~ (u < o) /\ ~ (e < u)
    <3>1. o < p /\ j + 1 < p - 1
      BY <1>0, <2>2
    <3>2. e < p \/ f < e
      BY <1>0, <1>1, <3>1, OpenersNest
    <3>3. ~ (e < p)
      <4> SUFFICES ASSUME e < p PROVE FALSE
        OBVIOUS
      <4>1. e # o
        <5>1. u # o
          <6>1. o # j /\ (o = u => o \in 1 .. j - 1)
            BY <1>0, <1>1
          <6>2. o \in 1 .. j - 1 => o < u
            BY <1>1, <1>3
          <6> QED BY <1>0, <6>1, <6>2
        <5> QED BY <1>0, <2>2, <5>1
      <4>2. o \in DOMAIN pairs /\ e = pairs[o]
        BY <4>1 DEF EndOf
      <4>3. KindAt(e) \in Closers /\ KindAt(o) = MatchingOpen(KindAt(e))
        <5>1. /\ text[pairs[o]].kind \in Closers
              /\ text[o].kind = MatchingOpen(text[pairs[o]].kind)
          BY <4>2 DEF PairsNest
        <5>2. DOMAIN text = 1 .. Len(text) /\ o \in 1 .. Len(text) /\ pairs[o] \in 1 .. Len(text)
          BY <1>0, <4>2 DEF DelimiterTypeOK
        <5>3. KindAt(o) = text[o].kind /\ KindAt(pairs[o]) = text[pairs[o]].kind
          BY <5>2 DEF KindAt
        <5> HIDE DEF e
        <5> QED BY <4>2, <5>1, <5>3
      <4>4. KindAt(e) = "rightBrace"
        BY <1>1, <4>3 DEF MatchingOpen, Closers
      <4>5. KindAt(e) \in Boundaries /\ e # j /\ e # j + 1 /\ e # p - 1
        BY <1>1, <4>4 DEF Boundaries
      <4>6. e >= j
        <5> SUFFICES ASSUME e < j PROVE FALSE
          BY <1>0
        <5>1. e \in 1 .. j - 1
          BY <1>0
        <5>2. e < u
          BY <1>3, <4>5, <5>1
        <5> QED BY <1>0, <2>2, <5>2
      <4>7. j + 1 < e /\ e < p - 1 /\ o < j + 1
        <5>1. o < j + 1
          BY <1>0, <2>2
        <5> QED BY <1>0, <4>5, <4>6, <5>1
      <4>8. EndOf(j + 1) < pairs[o]
        <5>1. j + 1 \in Nat /\ j + 1 < pairs[o] /\ KindAt(j + 1) \in Openers
          BY <1>0, <1>1, <4>2, <4>7 DEF Heads
        <5> QED BY <4>2, <4>7, <5>1, InsidePair
      <4>9. p - 1 < e
        BY <1>0, <4>2, <4>8 DEF EndOf
      <4> QED BY <1>0, <4>7, <4>9
    <3> QED BY <3>2, <3>3
  <2> QED BY <1>0, <2>1, <2>2
<1>5. (s <= u /\ f + 1 <= e + 1) \/ e + 1 <= u
  BY <1>0, <1>4
<1> HIDE DEF e, f
<1> QED BY <1>5 DEF Apart, Encloses, Span, e, f

(* Every loop begins a statement. *)
LoopsBegin == \A i \in Of("for", DOMAIN text) : StatementStart(i) = i

LEMMA HeadedScopes ==
  ASSUME DelimiterTypeOK, PairsNest, LoopsBegin,
         NEW r \in FunctionDeclarations \cup ForStatements
  PROVE  \E s, i, o : Heads(s, i, o) /\ r = Span(s, EndOf(o))
<1>0. DOMAIN text = 1 .. Len(text) /\ text \in Seq(Token)
  BY DEF DelimiterTypeOK
<1>1. \A i : KindAt(i) \in {"for", "identifier"} => KindAt(i) \notin Boundaries
  BY DEF Boundaries
<1>2. CASE r \in FunctionDeclarations
  <2>1. PICK i \in Of("identifier", DOMAIN text) :
          BraceAfter(i) # 0 /\ r = Span(StatementStart(i), EndOf(BraceAfter(i)))
    BY <1>2 DEF FunctionDeclarations
  <2>2. i \in 1 .. Len(text) /\ KindAt(i) = "identifier"
    BY <1>0, OfIsKind
  <2>3. Heads(StatementStart(i), i, BraceAfter(i))
    BY <1>1, <2>1, <2>2, HeadsAreFound
  <2> QED BY <2>1, <2>3
<1>3. CASE r \in ForStatements
  <2>1. PICK i \in Of("for", DOMAIN text) : BraceAfter(i) # 0 /\ r = Span(i, EndOf(BraceAfter(i)))
    BY <1>3 DEF ForStatements
  <2>2. i \in 1 .. Len(text) /\ KindAt(i) = "for" /\ StatementStart(i) = i
    BY <1>0, OfIsKind DEF LoopsBegin
  <2>3. Heads(i, i, BraceAfter(i))
    BY <1>1, <2>1, <2>2, HeadsAreFound
  <2> QED BY <2>1, <2>3
<1> QED BY <1>2, <1>3

LEMMA ApartIsSymmetric ==
  ASSUME NEW r, NEW s, Apart(r, s)
  PROVE  Apart(s, r)
BY DEF Apart

LEMMA ScopesAreApart ==
  ASSUME DelimiterTypeOK, PairsNest, LoopsBegin,
         NEW r \in ScopedRanges, NEW t \in ScopedRanges
  PROVE  Apart(r, t)
<1> DEFINE Headed == FunctionDeclarations \cup ForStatements
           n == Len(text)
<1>0. text \in Seq(Token) /\ DOMAIN text = 1 .. n /\ n \in Nat
  BY DEF DelimiterTypeOK
<1>1. \A c \in CompoundStatements :
        \E a \in 1 .. n : KindAt(a) = "leftBrace" /\ c = Span(a, EndOf(a))
  BY <1>0, OfIsKind DEF CompoundStatements
<1>2. ASSUME NEW c \in CompoundStatements, NEW d \in CompoundStatements PROVE Apart(c, d)
  <2>1. PICK a \in 1 .. n : KindAt(a) = "leftBrace" /\ c = Span(a, EndOf(a))
    BY <1>1
  <2>2. PICK b \in 1 .. n : KindAt(b) = "leftBrace" /\ d = Span(b, EndOf(b))
    BY <1>1
  <2>3. CASE a = b
    <3>1. EndOf(a) + 1 <= EndOf(a) + 1
      BY EndIsBehind
    <3> QED BY <2>1, <2>2, <2>3, <3>1 DEF Apart, Encloses, Span
  <2>4. CASE a < b
    BY <2>1, <2>2, <2>4, CompoundsApart
  <2>5. CASE b < a
    BY <2>1, <2>2, <2>5, CompoundsApart, ApartIsSymmetric
  <2> QED BY <2>3, <2>4, <2>5
<1>3. ASSUME NEW h \in Headed, NEW c \in CompoundStatements PROVE Apart(h, c)
  BY <1>1, HeadedScopes, HeadAndBlockApart
<1>4. ASSUME NEW h \in Headed, NEW g \in Headed PROVE Apart(h, g)
  <2>1. PICK s, i, o : Heads(s, i, o) /\ h = Span(s, EndOf(o))
    BY HeadedScopes
  <2>2. PICK u, j, p : Heads(u, j, p) /\ g = Span(u, EndOf(p))
    BY HeadedScopes
  <2>3. CASE s = u
    <3>1. EndOf(o) \in Nat /\ EndOf(p) \in Nat /\ s \in Nat
      <4>1. o \in 1 .. Len(text) /\ s \in Nat
        BY <2>1 DEF Heads
      <4>2. p \in 1 .. Len(text)
        BY <2>2 DEF Heads
      <4> QED BY <4>1, <4>2, EndIsBehind
    <3> DEFINE e == EndOf(o)
               f == EndOf(p)
    <3> HIDE DEF e, f
    <3>2. s <= s /\ (e + 1 <= f + 1 \/ f + 1 <= e + 1)
      BY <3>1 DEF e, f
    <3> QED BY <2>1, <2>2, <2>3, <3>2 DEF Apart, Encloses, Span, e, f
  <2>4. CASE s < u
    BY <2>1, <2>2, <2>4, HeadsApart
  <2>5. CASE u < s
    BY <2>1, <2>2, <2>5, HeadsApart, ApartIsSymmetric
  <2>6. s \in Nat /\ u \in Nat
    BY <2>1, <2>2 DEF Heads
  <2> QED BY <2>3, <2>4, <2>5, <2>6
<1> HIDE DEF Headed
<1>5. ScopedRanges = CompoundStatements \cup Headed
  BY DEF ScopedRanges, Headed
<1> QED BY <1>2, <1>3, <1>4, <1>5, ApartIsSymmetric

(* A statement starts behind the last boundary, and there is only one such place. *)
LEMMA StartIs ==
  ASSUME text \in Seq(Token), NEW p \in Nat \ {0}, NEW b \in 1 .. p,
         \A c \in b .. p - 1 : KindAt(c) \notin Boundaries,
         b = 1 \/ KindAt(b - 1) \in Boundaries
  PROVE  StatementStart(p) = b
<1> DEFINE s == StatementStart(p)
<1>0. p \in Nat /\ b \in Nat /\ b >= 1 /\ b <= p
  OBVIOUS
<1>1. /\ s \in 1 .. p /\ \A c \in 1 .. p - 1 : KindAt(c) \in Boundaries => c < s
      /\ s = 1 \/ KindAt(s - 1) \in Boundaries
  BY StatementsBegin
<1> HIDE DEF s
<1>2. b <= s
  <2>1. CASE b = 1
    BY <1>0, <1>1, <2>1
  <2>2. CASE b # 1
    <3>1. b - 1 \in 1 .. p - 1
      BY <1>0, <2>2
    <3>2. b - 1 < s
      BY <1>1, <2>2, <3>1
    <3> QED BY <1>0, <1>1, <3>2
  <2> QED BY <2>1, <2>2
<1>3. s = b
  <2> SUFFICES ASSUME b < s PROVE FALSE
    BY <1>0, <1>1, <1>2
  <2>1. s # 1 /\ s - 1 \in b .. p - 1
    BY <1>0, <1>1
  <2> QED BY <1>1, <2>1
<1> QED BY <1>3 DEF s

(* The tokens of a phrase are of one statement, which starts with it. *)
LEMMA TilesStart ==
  ASSUME text \in Seq(Token), NEW shape \in Shapes, NEW b \in Nat \ {0}, Tile(text, b, shape),
         NEW k \in 1 .. Len(shape)
  PROVE  /\ b + k - 1 \in 1 .. Len(text) /\ KindAt(b + k - 1) = shape[k]
         /\ StatementStart(b + k - 1) = b
<1>0. DOMAIN text = 1 .. Len(text) /\ Len(text) \in Nat /\ Len(shape) \in Nat
      /\ b + Len(shape) - 1 <= Len(text)
  BY ShapesEnd DEF Tile
<1>1. ASSUME NEW m \in 1 .. Len(shape)
      PROVE  b + m - 1 \in 1 .. Len(text) /\ KindAt(b + m - 1) = shape[m]
  <2>1. b + m - 1 \in 1 .. Len(text)
    BY <1>0
  <2> QED BY <1>0, <2>1 DEF Tile, KindAt
<1> DEFINE p == b + k - 1
<1>2. p \in 1 .. Len(text) /\ b \in 1 .. p
  BY <1>0
<1>3. ASSUME NEW c \in b .. p - 1 PROVE KindAt(c) \notin Boundaries
  <2>1. c - b + 1 \in 1 .. Len(shape) - 1 /\ c - b + 1 \in 1 .. Len(shape)
        /\ b + (c - b + 1) - 1 = c
    BY <1>0
  <2>2. KindAt(c) = shape[c - b + 1]
    BY <1>1, <2>1
  <2> QED BY <2>1, <2>2, ShapesEnd
<1>4. b = 1 \/ KindAt(b - 1) \in Boundaries
  <2>1. b # 1 => b - 1 \in 1 .. Len(text)
    BY <1>0
  <2> QED BY <1>0, <2>1 DEF Tile, KindAt
<1>5. StatementStart(p) = b
  <2> HIDE DEF p
  <2> QED BY <1>2, <1>3, <1>4, StartIs
<1> QED BY <1>1, <1>5

(* Every token has a phrase, with which its statement starts. *)
LEMMA PhrasesStart ==
  ASSUME Laid(text), NEW i \in 1 .. Len(text)
  PROVE  \E shape \in Shapes :
           /\ Tile(text, StatementStart(i), shape)
           /\ StatementStart(i) \in 1 .. i /\ i < StatementStart(i) + Len(shape)
<1>0. text \in Seq(Token) /\ i \in Nat
  BY DEF Laid
<1>1. PICK shape \in Shapes, b \in 1 .. i : i < b + Len(shape) /\ Tile(text, b, shape)
  BY DEF Laid, Tiled
<1>2. i - b + 1 \in 1 .. Len(shape) /\ b \in Nat \ {0} /\ b + (i - b + 1) - 1 = i
  <2>1. Len(shape) \in Nat
    BY ShapesEnd
  <2> QED BY <1>0, <1>1, <2>1
<1>3. StatementStart(b + (i - b + 1) - 1) = b
  BY <1>0, <1>1, <1>2, TilesStart
<1> QED BY <1>1, <1>2, <1>3

(* No phrase but a loop has the word "for", and a loop has it first. *)
LEMMA LoopsLead ==
  ASSUME NEW shape \in Shapes, NEW k \in 1 .. Len(shape), shape[k] = "for"
  PROVE  k = 1 /\ shape = LoopShape
<1>0. k \in 1 .. 8 /\ k \in Nat
  BY ShapesEnd
<1>1. CASE shape \in HeaderShapes
  <2>1. \/ \E w \in {"functions", "data", "parameters", "model"} : shape = <<w, "leftBrace">>
        \/ \E v \in {"transformed", "generated"}, w \in {"data", "parameters", "quantities"} :
             shape = <<v, w, "leftBrace">>
    <3>1. CASE shape \in {<<w, "leftBrace">> : w \in {"functions", "data", "parameters", "model"}}
      BY <3>1, Zenon
    <3>2. CASE shape \in {<<v, w, "leftBrace">> : v \in {"transformed", "generated"},
                                                w \in {"data", "parameters", "quantities"}}
      BY <3>2
    <3> QED BY <1>1, <3>1, <3>2 DEF HeaderShapes
  <2>2. CASE \E w \in {"functions", "data", "parameters", "model"} : shape = <<w, "leftBrace">>
    <3>1. PICK w \in {"functions", "data", "parameters", "model"} : shape = <<w, "leftBrace">>
      BY <2>2
    <3>2. Len(shape) = 2 /\ shape[1] # "for" /\ shape[2] # "for" /\ (k = 1 \/ k = 2)
      BY <3>1
    <3> QED BY <3>2
  <2>3. CASE \E v \in {"transformed", "generated"}, w \in {"data", "parameters", "quantities"} :
               shape = <<v, w, "leftBrace">>
    <3>1. PICK v \in {"transformed", "generated"}, w \in {"data", "parameters", "quantities"} :
            shape = <<v, w, "leftBrace">>
      BY <2>3
    <3>2. /\ Len(shape) = 3 /\ shape[1] # "for" /\ shape[2] # "for" /\ shape[3] # "for"
          /\ k = 1 \/ k = 2 \/ k = 3
      BY <3>1
    <3> QED BY <3>2
  <2> QED BY <2>1, <2>2, <2>3
<1>2. CASE shape = FunctionShape
  BY <1>0, <1>2, IndicesAre, ShapesAre
<1>3. CASE shape = PlainShape
  BY <1>0, <1>3, IndicesAre, ShapesAre
<1>4. CASE shape = SizedShape
  BY <1>0, <1>4, IndicesAre, ShapesAre
<1>5. CASE shape = CallShape
  BY <1>0, <1>5, IndicesAre, ShapesAre
<1>6. CASE shape = LoopShape
  BY <1>0, <1>6, IndicesAre, ShapesAre
<1>7. CASE shape \in {<<"leftBrace">>, <<"rightBrace">>}
  <2>1. Len(shape) = 1 /\ shape[1] # "for"
    BY <1>7
  <2> QED BY <2>1
<1> QED
  BY <1>1, <1>2, <1>3, <1>4, <1>5, <1>6, <1>7 DEF Shapes

LEMMA LaidLoopsBegin == Laid(text) => LoopsBegin
<1> SUFFICES ASSUME Laid(text), NEW i \in Of("for", DOMAIN text) PROVE StatementStart(i) = i
  BY DEF LoopsBegin
<1> DEFINE s == StatementStart(i)
<1>0. text \in Seq(Token) /\ DOMAIN text = 1 .. Len(text)
  BY DEF Laid
<1>1. i \in 1 .. Len(text) /\ KindAt(i) = "for"
  BY <1>0, OfIsKind
<1>2. PICK shape \in Shapes : Tile(text, s, shape) /\ s \in 1 .. i /\ i < s + Len(shape)
  BY <1>1, PhrasesStart
<1> HIDE DEF s
<1>3. Len(shape) \in Nat
  BY ShapesEnd
<1>4. i - s + 1 \in 1 .. Len(shape) /\ s + (i - s + 1) - 1 = i
  BY <1>1, <1>2, <1>3
<1>5. shape[i - s + 1] = "for"
  BY <1>0, <1>1, <1>2, <1>4 DEF Tile, KindAt
<1>6. i - s + 1 = 1
  BY <1>4, <1>5, LoopsLead
<1> QED BY <1>1, <1>2, <1>6 DEF s

LEMMA ScopesHaveRanges ==
  ASSUME text \in Seq(Token), ScopedRanges \in SUBSET NodeRanges, NEW k \in DOMAIN BuildScopes
  PROVE  BuildScopes[k].range \in ScopedRanges \cup {RootRange}
<1> DEFINE sorted == Sorted(ScopedRanges)
           ranges == <<RootRange>> \o sorted
           N == Cardinality(ScopedRanges)
<1>1. N \in Nat /\ sorted \in [1 .. N -> ScopedRanges]
  BY NodesAreSorted
<1>2. sorted \in Seq(ScopedRanges) /\ Len(sorted) = N
  <2> HIDE DEF N, sorted
  <2> QED BY <1>1
<1>3. \A m \in DOMAIN ranges : ranges[m] \in ScopedRanges \cup {RootRange}
  <2> HIDE DEF N, sorted
  <2> QED BY <1>1, <1>2
<1> HIDE DEF ranges
<1>4. /\ k \in DOMAIN ranges
      /\ BuildScopes[k] =
           IF k = Root THEN [range |-> RootRange, parent |-> 0, kind |-> "root"]
           ELSE [range |-> ranges[k], parent |-> ParentOf(ranges, k),
                 kind |-> ScopeKind(ranges[k], ParentOf(ranges, k))]
  BY DEF BuildScopes, ranges
<1>5. BuildScopes[k].range = IF k = Root THEN RootRange ELSE ranges[k]
  BY <1>4
<1> QED BY <1>3, <1>4, <1>5

LEMMA BuiltScopesNest ==
  ASSUME DelimiterInv, LoopsBegin, NEW k \in DOMAIN BuildScopes, NEW m \in DOMAIN BuildScopes
  PROVE  Apart(BuildScopes[k].range, BuildScopes[m].range)
<1>0. DelimiterTypeOK /\ PairsNest /\ text \in Seq(Token) /\ ScopedRanges \in SUBSET NodeRanges
  BY ScopedRangesAreNodes DEF DelimiterInv, DelimiterTypeOK
<1>1. /\ BuildScopes[k].range \in ScopedRanges \cup {RootRange}
      /\ BuildScopes[m].range \in ScopedRanges \cup {RootRange}
  BY <1>0, ScopesHaveRanges
<1>2. Encloses(RootRange, BuildScopes[k].range) /\ Encloses(RootRange, BuildScopes[m].range)
  BY <1>0, ScopesAreBuilt DEF ScopesOK
<1> QED BY <1>0, <1>1, <1>2, ScopesAreApart DEF Apart

NestInv == slips = 0 => ScopesNest

LEMMA NestingStays ==
  ASSUME AnalysisInv, AuthorInv, NestInv, NEW p, Write(p)
  PROVE  NestInv'
<1>1. model' = model
  BY DEF Write, Type, Slip
<1>2. slips' = 0 => slips = 0
  <2>1. slips \in 0 .. MaxSlips /\ MaxSlips \in Nat
    BY AuthorAssumption DEF AuthorInv
  <2>2. slips' = slips \/ slips' = slips + 1
    BY DEF Write, Type, Slip
  <2> QED BY <2>1, <2>2
<1> QED BY <1>1, <1>2 DEF NestInv, ScopesNest, Encloses

(* As long as the author leaves out no token, the scopes of every analyzed    *)
(* revision are apart or one in the other, unfinished statements and open     *)
(* blocks or not: the smallest scope around an offset is the innermost, and a *)
(* symbol's parents are the scopes around it (analyze_semantics.rs). It rests *)
(* on every "for" beginning a statement: a "for" behind another word reaches  *)
(* over the statements of the brackets that follow, and two scopes overlap.   *)
(* Where tokens are missing, that alone is enough.                            *)
THEOREM ScopesAlwaysNest ==
  Spec => [](slips = 0 \/ (~ due /\ LoopsBegin) => ScopesNest)
<1>1. ASSUME DelimiterInv, LoopsBegin, NEW m, m = AnalyzeSemantics(NamesOf)
      PROVE  \A k, l \in DOMAIN m.scopes : Apart(m.scopes[k].range, m.scopes[l].range)
  <2>1. m.scopes = BuildScopes
    BY <1>1 DEF AnalyzeSemantics
  <2> QED BY <1>1, <2>1, BuiltScopesNest
<1>2. Init => NestInv
  <2> SUFFICES ASSUME Init PROVE NestInv
    OBVIOUS
  <2>1. text = <<>> /\ model = AnalyzeSemantics(NamesOf) /\ DelimiterInv
    BY InitDelimiters DEF Init, DelimiterInit
  <2>2. LoopsBegin
    BY <2>1 DEF LoopsBegin, Of
  <2> QED BY <1>1, <2>1, <2>2 DEF NestInv, ScopesNest, Apart
<1>3. AnalysisInv /\ AuthorInv /\ LaidInv /\ NestInv /\ [Next]_vars => NestInv'
  <2> SUFFICES ASSUME AnalysisInv, AuthorInv, LaidInv, NestInv, [Next]_vars PROVE NestInv'
    OBVIOUS
  <2>1. CASE Continue
    BY <2>1, NestingStays DEF Continue
  <2>2. CASE Begin
    BY <2>2, NestingStays DEF Begin
  <2>3. CASE Analyze
    <3> SUFFICES ASSUME slips' = 0 PROVE ScopesNest'
      BY DEF NestInv
    <3>1. /\ slips = 0 /\ pending = <<>> /\ model' = AnalyzeSemantics(NamesOf)
          /\ text \in Seq(Token) /\ DelimiterInv
      BY <2>3 DEF Analyze, authorVars, AnalysisInv, DelimiterInv, DelimiterTypeOK
    <3>2. LoopsBegin
      <4>1. text \o <<>> = text
        BY <3>1
      <4> QED BY <3>1, <4>1, LaidLoopsBegin DEF LaidInv
    <3>3. \A k, l \in DOMAIN model'.scopes :
            Apart(model'.scopes[k].range, model'.scopes[l].range)
      BY <1>1, <3>1, <3>2
    <3> QED BY <3>3 DEF ScopesNest, Apart, Encloses
  <2>4. CASE UNCHANGED vars
    BY <2>4 DEF vars, authorVars, NestInv, ScopesNest, Encloses
  <2> QED BY <2>1, <2>2, <2>3, <2>4 DEF Next
<1>4. AnalysisInv /\ NestInv /\ ModelIsCurrent =>
        (slips = 0 \/ (~ due /\ LoopsBegin) => ScopesNest)
  <2> SUFFICES ASSUME AnalysisInv, ModelIsCurrent, ~ due, LoopsBegin PROVE ScopesNest
    BY DEF NestInv
  <2>1. \A k, l \in DOMAIN model.scopes : Apart(model.scopes[k].range, model.scopes[l].range)
    BY <1>1 DEF AnalysisInv, ModelIsCurrent
  <2> QED BY <2>1 DEF ScopesNest, Apart, Encloses
<1> QED
  BY <1>2, <1>3, <1>4, DelimitersHold, RecordsHold, TextsAreLaid, ModelsAreCurrent, PTL DEF Spec

-----------------------------------------------------------------------------
(* Rename *)

(* What a rename of a declaration to a new name does at the declarations and  *)
(* at one use.                                                                *)
RenamedFor(symbols, scopes, names, renamed, symbol, new, offset) ==
  /\ \A k \in DOMAIN symbols :
       /\ names[symbols[k].at] # new
       /\ renamed[symbols[k].at] = IF k = symbol THEN new ELSE names[symbols[k].at]
  /\ names[offset] # new
  /\ renamed[offset] = IF ResolveName(symbols, scopes, names, offset) = symbol
                       THEN new ELSE names[offset]

(* A rename to a new name changes no lookup: where the declaration was found  *)
(* it is the only candidate left, elsewhere it is one candidate less.         *)
LEMMA CandidatesAreFound ==
  ASSUME NEW scopes, ScopesOK(scopes), NEW symbols \in Seq(GoodSymbols(scopes)),
         Len(text) \in Nat, NEW names, NEW renamed, NEW offset, NEW new,
         NEW symbol \in DOMAIN symbols,
         RenamedFor(symbols, scopes, names, renamed, symbol, new, offset)
  PROVE  ResolveName(symbols, scopes, renamed, offset)
           = ResolveName(symbols, scopes, names, offset)
<1>0. /\ \A k \in DOMAIN symbols : names[symbols[k].at] # new
      /\ \A k \in DOMAIN symbols :
           renamed[symbols[k].at] = IF k = symbol THEN new ELSE names[symbols[k].at]
      /\ names[offset] # new
      /\ renamed[offset] = IF ResolveName(symbols, scopes, names, offset) = symbol
                           THEN new ELSE names[offset]
  BY DEF RenamedFor
<1> DEFINE n == Len(text)
           chain  == Chain(scopes, ScopeAt(scopes, offset))
           kinds  == [c \in DOMAIN chain |-> scopes[chain[c]].kind]
           blocks == {c \in DOMAIN chain : kinds[c] \in BlockKinds}
           block  == IF blocks = {} THEN "none" ELSE kinds[Min(blocks)]
           inside_function == \E c \in DOMAIN chain : kinds[c] = "function"
           Visible(s) == \/ s.kind = "function"
                         \/ s.scope # Root
                         \/ ~ inside_function /\ ProgramSymbolVisible(s.kind, block)
           Candidates(nm) == {k \in DOMAIN symbols :
                                /\ nm[symbols[k].at] = nm[offset]
                                /\ symbols[k].visibleFrom <= offset
                                /\ Visible(symbols[k])}
           Later(k, m) == \/ symbols[k].visibleFrom > symbols[m].visibleFrom
                          \/ symbols[k].visibleFrom = symbols[m].visibleFrom /\ k > m
           InScope(C, scope) == {k \in C : symbols[k].scope = scope}
           Nearest(C) == {c \in DOMAIN chain : InScope(C, chain[c]) # {}}
           Best(C) == InScope(C, chain[Min(Nearest(C))])
           Found(C) == IF Nearest(C) = {} THEN 0
                       ELSE CHOOSE k \in Best(C) : \A m \in Best(C) \ {k} : Later(k, m)
           A == Candidates(names)
           B == Candidates(renamed)
<1>1. /\ ResolveName(symbols, scopes, names, offset) = Found(A)
      /\ ResolveName(symbols, scopes, renamed, offset) = Found(B)
  BY Zenon DEF ResolveName
<1>2. chain \in Seq(DOMAIN scopes)
  BY ScopeAtHolds, ChainsEnd
<1> HIDE DEF chain
<1>3. /\ DOMAIN symbols = 1 .. Len(symbols) /\ Len(symbols) \in Nat
      /\ \A k \in DOMAIN symbols : symbols[k].visibleFrom \in 0 .. n + 1
      /\ n + 1 \in Nat
  <2>1. \A s \in GoodSymbols(scopes) : s.visibleFrom \in 0 .. n + 1
    BY DEF GoodSymbols
  <2>2. /\ DOMAIN symbols = 1 .. Len(symbols) /\ Len(symbols) \in Nat
        /\ \A k \in DOMAIN symbols : symbols[k] \in GoodSymbols(scopes)
    OBVIOUS
  <2> QED BY <2>1, <2>2
<1>4. A \subseteq DOMAIN symbols /\ B \subseteq DOMAIN symbols
  OBVIOUS
<1>5. /\ Found(A) = symbol /\ symbol \in A => B = {symbol}
      /\ Found(A) # symbol => B = A \ {symbol}
  <2> HIDE DEF Visible, Found
  <2>1. ASSUME Found(A) = symbol, symbol \in A PROVE B = {symbol}
    <3>1. renamed[offset] = new
      BY <1>0, <1>1, <2>1
    <3>2. symbol \in B
      BY <1>0, <2>1, <3>1
    <3>3. ASSUME NEW k \in B PROVE k = symbol
      BY <1>0, <3>1
    <3> QED BY <3>2, <3>3
  <2>2. ASSUME Found(A) # symbol PROVE B = A \ {symbol}
    <3>1. renamed[offset] = names[offset] /\ names[offset] # new
      BY <1>0, <1>1, <2>2
    <3>2. ASSUME NEW k \in DOMAIN symbols PROVE k \in B <=> k \in A /\ k # symbol
      <4>1. CASE k = symbol
        BY <1>0, <3>1, <4>1
      <4>2. CASE k # symbol
        BY <1>0, <3>1, <4>2
      <4> QED BY <4>1, <4>2
    <3> HIDE DEF A, B
    <3> QED BY <1>4, <3>2
  <2> QED BY <2>1, <2>2
<1> HIDE DEF A, B, Candidates
<1>6. ASSUME NEW C \in SUBSET DOMAIN symbols, Nearest(C) # {}
      PROVE  /\ Min(Nearest(C)) \in Nearest(C) /\ \A c \in Nearest(C) : Min(Nearest(C)) <= c
             /\ Min(Nearest(C)) \in Nat
             /\ Found(C) \in Best(C) /\ \A m \in Best(C) \ {Found(C)} : Later(Found(C), m)
  <2>1. Nearest(C) \in SUBSET Nat
    <3> HIDE DEF InScope
    <3> QED BY <1>2
  <2>2. Min(Nearest(C)) \in Nearest(C) /\ \A c \in Nearest(C) : Min(Nearest(C)) <= c
    <3> HIDE DEF Nearest
    <3> QED BY <1>6, <2>1, MinIsLeast
  <2>3. Best(C) # {}
    BY <2>2
  <2>4. Best(C) \in SUBSET (1 .. Len(symbols))
        /\ \A k \in Best(C) : symbols[k].visibleFrom \in 0 .. n + 1
    BY <1>3
  <2> DEFINE best == Best(C)
  <2>5. Found(C) = CHOOSE k \in best : \A m \in best \ {k} : Later(k, m)
    BY <1>6, Zenon
  <2>6. best # {} /\ best \in SUBSET (1 .. Len(symbols))
        /\ \A k \in best : symbols[k].visibleFrom \in 0 .. n + 1
    BY <2>3, <2>4
  <2> HIDE DEF best
  <2>7. \E k \in best : \A m \in best \ {k} : Later(k, m)
    BY <1>3, <2>6, LatestIsAmong
  <2> HIDE DEF Later, Found
  <2>8. Found(C) \in best /\ \A m \in best \ {Found(C)} : Later(Found(C), m)
    BY <2>5, <2>7, Zenon
  <2>9. Min(Nearest(C)) \in Nat
    <3> HIDE DEF Nearest
    <3> QED BY <2>1, <2>2
  <2> QED BY <2>2, <2>8, <2>9 DEF best
<1>7. \A C : Nearest(C) = {} => Found(C) = 0
  BY Zenon
<1>8. 0 \notin DOMAIN symbols
  BY <1>3
<1>9. ASSUME NEW k \in DOMAIN symbols, NEW m \in DOMAIN symbols, Later(k, m)
      PROVE  ~ Later(m, k)
  <2> DEFINE u == symbols[k].visibleFrom
             v == symbols[m].visibleFrom
  <2>1. u \in 0 .. n + 1 /\ v \in 0 .. n + 1 /\ k \in 1 .. Len(symbols) /\ m \in 1 .. Len(symbols)
    BY <1>3
  <2>2. u > v \/ (u = v /\ k > m)
    BY <1>9
  <2> HIDE DEF u, v
  <2>3. ~ (v > u \/ (v = u /\ m > k))
    BY <2>1, <2>2
  <2> QED BY <2>3 DEF u, v
<1> HIDE DEF Later, Found
<1>10. CASE Found(A) = symbol
  <2>1. Nearest(A) # {}
    BY <1>7, <1>8, <1>10
  <2> DEFINE c == Min(Nearest(A))
  <2>2. c \in Nearest(A) /\ symbol \in InScope(A, chain[c])
    <3>1. A \in SUBSET DOMAIN symbols
      BY <1>4
    <3> HIDE DEF Nearest, InScope
    <3> QED BY <1>6, <1>10, <2>1, <3>1, Zenon
  <2> HIDE DEF c
  <2>3. symbol \in A /\ symbols[symbol].scope = chain[c] /\ c \in DOMAIN chain
    BY <2>2
  <2>4. B = {symbol}
    BY <1>5, <1>10, <2>3
  <2>5. c \in Nearest(B)
    BY <2>3, <2>4
  <2>6. Found(B) \in Best(B)
    BY <1>4, <1>6, <2>5
  <2>7. Found(B) = symbol
    BY <2>4, <2>6
  <2> QED BY <1>1, <1>10, <2>7
<1>11. CASE Found(A) # symbol
  <2>1. B = A \ {symbol}
    BY <1>5, <1>11
  <2>2. Nearest(B) \subseteq Nearest(A)
    BY <2>1
  <2>3. CASE Nearest(A) = {}
    <3> HIDE DEF Nearest
    <3> QED BY <1>1, <1>7, <2>2, <2>3
  <2>4. CASE Nearest(A) # {}
    <3> DEFINE c == Min(Nearest(A))
               d == Min(Nearest(B))
               r == Found(A)
               q == Found(B)
    <3>1. /\ c \in Nearest(A) /\ c \in Nat /\ \A e \in Nearest(A) : c <= e
          /\ r \in InScope(A, chain[c]) /\ \A m \in InScope(A, chain[c]) \ {r} : Later(r, m)
      <4>1. A \in SUBSET DOMAIN symbols
        BY <1>4
      <4> HIDE DEF Nearest, InScope
      <4> QED BY <1>6, <2>4, <4>1, Zenon
    <3>2. r \in B /\ symbols[r].scope = chain[c] /\ c \in DOMAIN chain
      <4> HIDE DEF c
      <4> QED BY <1>11, <2>1, <3>1
    <3>3. c \in Nearest(B)
      <4> HIDE DEF c, r
      <4> QED BY <3>2
    <3>4. /\ d \in Nearest(B) /\ d \in Nat /\ \A e \in Nearest(B) : d <= e
          /\ q \in InScope(B, chain[d]) /\ \A m \in InScope(B, chain[d]) \ {q} : Later(q, m)
      <4>1. B \in SUBSET DOMAIN symbols /\ Nearest(B) # {}
        BY <1>4, <3>3
      <4> HIDE DEF Nearest, InScope
      <4> QED BY <1>6, <4>1, Zenon
    <3>5. c = d
      <4>1. c <= d /\ d <= c
        <5> HIDE DEF c, d, Nearest
        <5> QED BY <2>2, <3>1, <3>3, <3>4
      <4> HIDE DEF c, d
      <4> QED BY <3>1, <3>4, <4>1
    <3>6. q \in InScope(A, chain[c]) /\ r \in InScope(B, chain[d])
      <4>1. q \in B /\ symbols[q].scope = chain[d]
        <5> HIDE DEF c, d, r, q
        <5> QED BY <3>4
      <4>2. q \in A
        BY <2>1, <4>1
      <4> HIDE DEF c, d, r, q
      <4> QED BY <3>2, <3>5, <4>1, <4>2
    <3>7. q # r => Later(r, q) /\ Later(q, r)
      <4> HIDE DEF c, d, r, q, InScope
      <4> QED BY <3>1, <3>4, <3>6
    <3>8. q \in DOMAIN symbols /\ r \in DOMAIN symbols
      <4>1. q \in A /\ r \in B
        <5> HIDE DEF c, d, r, q
        <5> QED BY <3>6
      <4> HIDE DEF c, d, r, q, A, B
      <4> QED BY <1>4, <4>1
    <3>9. q = r
      <4> HIDE DEF c, d, r, q
      <4> QED BY <1>9, <3>7, <3>8
    <3> QED BY <1>1, <3>9
  <2> QED BY <2>3, <2>4
<1> QED BY <1>10, <1>11

-----------------------------------------------------------------------------
(* No two symbols of a laid text are at one position. *)

Distinct(s) == \A k, m \in DOMAIN s : s[k].at = s[m].at => k = m

(* What is flattened is put together one sequence at a time. *)
LEMMA FlattenedInTurn ==
  ASSUME NEW G, NEW seqs \in Seq(G), Len(seqs) # 0
  PROVE  \E flatten :
           /\ FlattenSeq(seqs) = flatten[Len(seqs)]
           /\ \A i \in 1 .. Len(seqs) :
                flatten[i] = IF i = 1 THEN seqs[i] ELSE flatten[i - 1] \o seqs[i]
<1> DEFINE n == Len(seqs)
           Value(f, i) == IF i = 1 THEN seqs[i] ELSE f[i - 1] \o seqs[i]
           Flat(f, m) == f = [i \in 1 .. m |-> Value(f, i)]
           Bad == {m \in 1 .. n : ~ \E f : Flat(f, m)}
<1>0. n \in Nat /\ n # 0
  OBVIOUS
<1>1. Bad = {}
  <2> SUFFICES ASSUME Bad # {} PROVE FALSE
    OBVIOUS
  <2>1. Bad \in SUBSET Nat
    <3> HIDE DEF Flat, n
    <3> QED BY <1>0
  <2>2. PICK m \in Bad : \A k \in Bad : m <= k
    <3> HIDE DEF Bad
    <3> QED BY <2>1, LeastExists
  <2>3. m \in 1 .. n /\ ~ \E f : Flat(f, m)
    OBVIOUS
  <2>4. CASE m = 1
    <3> DEFINE g == [i \in 1 .. 1 |-> seqs[i]]
    <3>1. \A i \in 1 .. 1 : Value(g, i) = seqs[i]
      OBVIOUS
    <3>2. Flat(g, 1)
      <4> HIDE DEF Value
      <4> QED BY <3>1
    <3> HIDE DEF Flat
    <3> QED BY <2>3, <2>4, <3>2
  <2>5. CASE m # 1
    <3>1. m - 1 \in 1 .. n /\ m \in Nat /\ m - 1 \in Nat /\ ~(m <= m - 1)
      BY <1>0, <2>3, <2>5
    <3>2. m - 1 \notin Bad
      <4> HIDE DEF Bad
      <4> QED BY <2>2, <3>1
    <3>3. PICK g : Flat(g, m - 1)
      BY <3>1, <3>2
    <3> DEFINE h == [i \in 1 .. m |-> IF i = m THEN g[m - 1] \o seqs[m] ELSE g[i]]
    <3>4. \A i \in 1 .. m - 1 : h[i] = g[i]
      BY <3>1
    <3>5. ASSUME NEW i \in 1 .. m PROVE h[i] = Value(h, i)
      <4>1. CASE i = m
        <5>1. m - 1 \in 1 .. m - 1 /\ m \in 1 .. m
          BY <3>1, <2>3
        <5>2. h[m - 1] = g[m - 1] /\ h[m] = g[m - 1] \o seqs[m]
          BY <3>4, <5>1
        <5> HIDE DEF h
        <5> QED BY <2>5, <4>1, <5>2
      <4>2. CASE i # m
        <5>1. i \in 1 .. m - 1 /\ (i # 1 => i - 1 \in 1 .. m - 1)
          BY <3>1, <4>2
        <5>2. h[i] = g[i] /\ (i # 1 => h[i - 1] = g[i - 1])
          BY <3>4, <5>1
        <5>3. g[i] = Value(g, i)
          BY <3>3, <5>1
        <5> HIDE DEF h
        <5> QED BY <5>2, <5>3
      <4> QED BY <4>1, <4>2
    <3>6. Flat(h, m)
      <4>1. h = [i \in 1 .. m |-> h[i]]
        OBVIOUS
      <4> HIDE DEF h, Value
      <4> QED BY <3>5, <4>1
    <3> HIDE DEF Flat, h
    <3> QED BY <2>3, <3>6
  <2> QED BY <2>4, <2>5
<1>2. \E f : Flat(f, n)
  <2>1. n \in 1 .. n
    BY <1>0
  <2> HIDE DEF n, Flat
  <2> QED BY <1>1, <2>1
<1> DEFINE flatten == CHOOSE f : Flat(f, n)
<1>3. FlattenSeq(seqs) = flatten[n]
  BY <1>0, Zenon DEF FlattenSeq
<1>4. Flat(flatten, n)
  <2> HIDE DEF Flat, n
  <2> QED BY <1>2, Zenon
<1>5. \A i \in 1 .. n : flatten[i] = Value(flatten, i)
  <2> HIDE DEF Value, n, flatten
  <2> QED BY <1>4
<1> HIDE DEF flatten
<1> QED BY <1>3, <1>5

LEMMA JoinedAreDistinct ==
  ASSUME NEW G, NEW s \in Seq(G), NEW t \in Seq(G), Distinct(s), Distinct(t),
         \A k \in DOMAIN s, m \in DOMAIN t : s[k].at # t[m].at
  PROVE  /\ s \o t \in Seq(G) /\ Distinct(s \o t)
         /\ \A e \in DOMAIN (s \o t) : \/ \E k \in DOMAIN s : (s \o t)[e] = s[k]
                                       \/ \E m \in DOMAIN t : (s \o t)[e] = t[m]
<1> DEFINE a == Len(s)
           b == Len(t)
           u == s \o t
<1>1. /\ a \in Nat /\ b \in Nat /\ DOMAIN s = 1 .. a /\ DOMAIN t = 1 .. b
      /\ u \in Seq(G) /\ DOMAIN u = 1 .. a + b
      /\ \A k \in 1 .. a : u[k] = s[k]
      /\ \A k \in 1 .. a + b : k > a => u[k] = t[k - a]
  OBVIOUS
<1> HIDE DEF a, b, u
<1>2. ASSUME NEW k \in DOMAIN u
      PROVE  \/ k <= a /\ k \in DOMAIN s /\ u[k] = s[k]
             \/ k > a /\ k - a \in DOMAIN t /\ u[k] = t[k - a]
  <2>1. k \in 1 .. a \/ (k > a /\ k - a \in 1 .. b /\ k \in 1 .. a + b)
    BY <1>1
  <2> QED BY <1>1, <2>1
<1>3. ASSUME NEW k \in DOMAIN u, NEW m \in DOMAIN u, u[k].at = u[m].at PROVE k = m
  <2>1. CASE k <= a /\ m <= a
    BY <1>1, <1>2, <1>3, <2>1 DEF Distinct
  <2>2. CASE k > a /\ m > a
    <3>1. ~ (k <= a) /\ ~ (m <= a)
      BY <1>1, <2>2
    <3>2. k - a = m - a
      BY <1>2, <1>3, <3>1 DEF Distinct
    <3> QED BY <1>1, <3>2
  <2>3. CASE k <= a /\ m > a
    <3>1. ~ (k > a) /\ ~ (m <= a)
      BY <1>1, <2>3
    <3> QED BY <1>2, <1>3, <3>1
  <2>4. CASE k > a /\ m <= a
    <3>1. ~ (k <= a) /\ ~ (m > a)
      BY <1>1, <2>4
    <3> QED BY <1>2, <1>3, <3>1
  <2>5. (k <= a \/ k > a) /\ (m <= a \/ m > a)
    BY <1>1
  <2> QED BY <2>1, <2>2, <2>3, <2>4, <2>5
<1>4. Distinct(u)
  BY <1>3 DEF Distinct
<1> QED BY <1>1, <1>2, <1>4 DEF u

LEMMA FlattenedAreDistinct ==
  ASSUME NEW G, NEW seqs \in Seq(Seq(G)),
         \A i \in 1 .. Len(seqs) : Distinct(seqs[i]),
         \A i, j \in 1 .. Len(seqs) : i # j =>
           \A k \in DOMAIN seqs[i], m \in DOMAIN seqs[j] : seqs[i][k].at # seqs[j][m].at
  PROVE  /\ FlattenSeq(seqs) \in Seq(G) /\ Distinct(FlattenSeq(seqs))
         /\ \A e \in DOMAIN FlattenSeq(seqs) :
              \E i \in 1 .. Len(seqs) : \E k \in DOMAIN seqs[i] : FlattenSeq(seqs)[e] = seqs[i][k]
<1> DEFINE n == Len(seqs)
<1>0. n \in Nat /\ \A i \in 1 .. n : seqs[i] \in Seq(G)
  OBVIOUS
<1>1. CASE n = 0
  <2>1. seqs = <<>> /\ FlattenSeq(seqs) = seqs
    BY <1>1 DEF FlattenSeq
  <2>2. <<>> \in Seq(G) /\ DOMAIN <<>> = {}
    OBVIOUS
  <2>3. Distinct(<<>>)
    BY <2>2 DEF Distinct
  <2> QED BY <2>1, <2>2, <2>3
<1>2. CASE n # 0
  <2>1. PICK flatten : /\ FlattenSeq(seqs) = flatten[n]
                       /\ \A i \in 1 .. n :
                            flatten[i] = IF i = 1 THEN seqs[i] ELSE flatten[i - 1] \o seqs[i]
    BY <1>2, FlattenedInTurn
  <2> DEFINE Good(i) ==
               /\ flatten[i] \in Seq(G) /\ Distinct(flatten[i])
               /\ \A e \in DOMAIN flatten[i] :
                    \E j \in 1 .. i : \E k \in DOMAIN seqs[j] : flatten[i][e] = seqs[j][k]
             Odd == {i \in 1 .. n : ~ Good(i)}
  <2>2. Odd = {}
    <3> SUFFICES ASSUME Odd # {} PROVE FALSE
      OBVIOUS
    <3>1. Odd \in SUBSET Nat
      <4> HIDE DEF Good, n
      <4> QED BY <1>0
    <3>2. PICK i \in Odd : \A k \in Odd : i <= k
      <4> HIDE DEF Odd
      <4> QED BY <3>1, LeastExists
    <3>3. i \in 1 .. n /\ ~ Good(i)
      OBVIOUS
    <3>4. CASE i = 1
      <4>1. flatten[i] = seqs[i] /\ seqs[i] \in Seq(G) /\ Distinct(seqs[i]) /\ i \in 1 .. i
        BY <1>0, <2>1, <3>3, <3>4
      <4>2. Good(i)
        <5> HIDE DEF n
        <5> QED BY <4>1
      <4> QED BY <3>3, <4>2
    <3>5. CASE i # 1
      <4>1. i - 1 \in 1 .. n /\ i \in Nat /\ i - 1 \in Nat /\ ~(i <= i - 1) /\ i \in 1 .. i
            /\ \A j \in 1 .. i - 1 : j \in 1 .. i /\ j # i /\ j \in 1 .. n
        BY <1>0, <3>3, <3>5
      <4>2. i - 1 \notin Odd
        <5> HIDE DEF Odd
        <5> QED BY <3>2, <4>1
      <4>3. Good(i - 1)
        <5> HIDE DEF Good, n
        <5> QED BY <4>1, <4>2
      <4> DEFINE s == flatten[i - 1]
                 t == seqs[i]
      <4>4. flatten[i] = s \o t
        <5> HIDE DEF n
        <5> QED BY <2>1, <3>3, <3>5
      <4>5. s \in Seq(G) /\ Distinct(s) /\ t \in Seq(G) /\ Distinct(t)
        BY <1>0, <3>3, <4>3
      <4>6. \A e \in DOMAIN s : \E j \in 1 .. i - 1 : \E k \in DOMAIN seqs[j] : s[e] = seqs[j][k]
        BY <4>3
      <4> HIDE DEF s, n
      <4>7. ASSUME NEW k \in DOMAIN s, NEW m \in DOMAIN t PROVE s[k].at # t[m].at
        <5>1. PICK j \in 1 .. i - 1 : \E l \in DOMAIN seqs[j] : s[k] = seqs[j][l]
          BY <4>6
        <5>2. j # i /\ j \in 1 .. n
          BY <4>1
        <5> QED BY <3>3, <5>1, <5>2 DEF n
      <4> HIDE DEF t
      <4>8. /\ s \o t \in Seq(G) /\ Distinct(s \o t)
            /\ \A e \in DOMAIN (s \o t) : \/ \E k \in DOMAIN s : (s \o t)[e] = s[k]
                                          \/ \E m \in DOMAIN t : (s \o t)[e] = t[m]
        BY <4>5, <4>7, JoinedAreDistinct
      <4> DEFINE u == s \o t
      <4> HIDE DEF u
      <4>9. \A e \in DOMAIN u : \E j \in 1 .. i : \E k \in DOMAIN seqs[j] : u[e] = seqs[j][k]
        <5> SUFFICES ASSUME NEW e \in DOMAIN u
                     PROVE  \E j \in 1 .. i : \E k \in DOMAIN seqs[j] : u[e] = seqs[j][k]
          OBVIOUS
        <5>1. CASE \E k \in DOMAIN s : u[e] = s[k]
          BY <4>1, <4>6, <5>1
        <5>2. CASE \E m \in DOMAIN t : u[e] = t[m]
          BY <4>1, <5>2 DEF t
        <5> QED BY <4>8, <5>1, <5>2 DEF u
      <4>10. Good(i)
        <5>1. flatten[i] = u /\ u \in Seq(G) /\ Distinct(u)
          BY <4>4, <4>8 DEF u
        <5> HIDE DEF n
        <5> QED BY <4>9, <5>1
      <4> QED BY <3>3, <4>10
    <3> QED BY <3>4, <3>5
  <2>3. Good(n)
    <3>1. n \in 1 .. n
      BY <1>0, <1>2
    <3> HIDE DEF n, Good
    <3> QED BY <2>2, <3>1
  <2> QED BY <2>1, <2>3
<1> QED BY <1>1, <1>2

LEMMA OneEnd ==
  ASSUME text \in Seq(Token), NEW i \in 1 .. Len(text), NEW j \in 1 .. Len(text),
         KindAt(i) \in Boundaries, KindAt(j) \in Boundaries, StatementStart(i) = StatementStart(j)
  PROVE  i = j
<1>1. ASSUME NEW a \in 1 .. Len(text), NEW b \in 1 .. Len(text), a < b, KindAt(a) \in Boundaries
      PROVE  StatementStart(a) < StatementStart(b)
  <2>1. StatementStart(a) \in 1 .. a /\ StatementStart(b) \in 1 .. b
    BY StatementsBegin
  <2>2. a \in 1 .. b - 1
    BY <1>1
  <2>3. a < StatementStart(b)
    BY <1>1, <2>2, StatementsBegin
  <2> QED BY <2>1, <2>3
<1>2. StatementStart(i) \in 1 .. i
  BY StatementsBegin
<1> QED BY <1>1, <1>2

(* Only a function's phrase has a name behind a type and in front of brackets. *)
LEMMA FunctionsLead ==
  ASSUME NEW shape \in Shapes, NEW j \in 1 .. Len(shape) - 1, shape[j] = "identifier",
         shape[j + 1] = "leftParen", NEW t \in 1 .. j - 1, shape[t] = "type"
  PROVE  shape = FunctionShape /\ j = 2
<1>0. /\ Len(shape) \in 1 .. 8 /\ j \in 1 .. 8 /\ t \in 1 .. 8 /\ j \in Nat /\ t \in Nat
      /\ j + 1 \in 1 .. Len(shape) /\ j \in 1 .. Len(shape) /\ t < j
      /\ shape[Len(shape)] \in Boundaries
  BY ShapesEnd
<1>1. CASE shape \in HeaderShapes
  <2>1. \/ \E w \in {"functions", "data", "parameters", "model"} : shape = <<w, "leftBrace">>
        \/ \E v \in {"transformed", "generated"}, w \in {"data", "parameters", "quantities"} :
             shape = <<v, w, "leftBrace">>
    <3>1. CASE shape \in {<<w, "leftBrace">> : w \in {"functions", "data", "parameters", "model"}}
      BY <3>1, Zenon
    <3>2. CASE shape \in {<<v, w, "leftBrace">> : v \in {"transformed", "generated"},
                                                w \in {"data", "parameters", "quantities"}}
      BY <3>2
    <3> QED BY <1>1, <3>1, <3>2 DEF HeaderShapes
  <2>2. CASE \E w \in {"functions", "data", "parameters", "model"} : shape = <<w, "leftBrace">>
    <3>1. PICK w \in {"functions", "data", "parameters", "model"} : shape = <<w, "leftBrace">>
      BY <2>2
    <3>2. Len(shape) = 2
      BY <3>1
    <3> QED BY <1>0, <3>2
  <2>3. CASE \E v \in {"transformed", "generated"}, w \in {"data", "parameters", "quantities"} :
               shape = <<v, w, "leftBrace">>
    <3>1. PICK v \in {"transformed", "generated"}, w \in {"data", "parameters", "quantities"} :
            shape = <<v, w, "leftBrace">>
      BY <2>3
    <3>2. /\ Len(shape) = 3 /\ shape[1] # "type" /\ shape[2] # "type"
      BY <3>1
    <3>3. t = 1
      BY <1>0, <3>2
    <3> QED BY <3>2, <3>3
  <2> QED BY <2>1, <2>2, <2>3
<1>2. CASE shape = FunctionShape
  <2>1. j = 2 \/ j = 5
    <3>1. j \in 1 .. 7
      BY <1>0, <1>2, ShapesAre
    <3> QED BY <1>2, <3>1, IndicesAre, ShapesAre
  <2>2. j # 5
    <3>1. j = 5 => j + 1 = 6
      OBVIOUS
    <3> QED BY <1>2, <3>1, ShapesAre
  <2> QED BY <1>2, <2>1, <2>2
<1>3. CASE shape = PlainShape
  <2>1. j + 1 = 2 \/ j + 1 = 3
    BY <1>0, <1>3, ShapesAre
  <2> QED BY <1>3, <2>1, ShapesAre
<1>4. CASE shape = SizedShape
  <2>1. j = 3 \/ j = 5 \/ j = 7
    <3>1. j \in 1 .. 8
      BY <1>0
    <3> QED BY <1>4, <3>1, IndicesAre, ShapesAre
  <2>2. j + 1 = 4 \/ j + 1 = 6 \/ j + 1 = 8
    BY <2>1
  <2> QED BY <1>4, <2>2, ShapesAre
<1>5. CASE shape = CallShape
  <2>1. t \in 1 .. 5
    BY <1>0, <1>5, ShapesAre
  <2> QED BY <1>5, <2>1, IndicesAre, ShapesAre
<1>6. CASE shape = LoopShape
  <2>1. t \in 1 .. 7
    BY <1>0, <1>6, ShapesAre
  <2> QED BY <1>6, <2>1, IndicesAre, ShapesAre
<1>7. CASE shape \in {<<"leftBrace">>, <<"rightBrace">>}
  <2>1. Len(shape) = 1
    BY <1>7
  <2> QED BY <1>0, <2>1
<1> QED
  BY <1>1, <1>2, <1>3, <1>4, <1>5, <1>6, <1>7 DEF Shapes

LEMMA FunctionsAreLaid ==
  ASSUME DelimiterTypeOK, PairsNest, Laid(text), NEW f \in FunctionDeclarations
  PROVE  /\ f.start \in Nat \ {0} /\ Tile(text, f.start, FunctionShape)
         /\ f = Span(f.start, EndOf(BraceAfter(f.start + 1))) /\ f.start + 6 < f.end
<1>0. text \in Seq(Token) /\ DOMAIN text = 1 .. Len(text)
  BY DEF DelimiterTypeOK
<1>1. PICK i \in Of("identifier", DOMAIN text) :
        /\ BraceAfter(i) # 0 /\ Of("type", StatementStart(i) .. i - 1) # {}
        /\ f = Span(StatementStart(i), EndOf(BraceAfter(i)))
  BY DEF FunctionDeclarations
<1>2. i \in 1 .. Len(text) /\ KindAt(i) = "identifier"
  BY <1>0, OfIsKind
<1> DEFINE s == StatementStart(i)
           o == BraceAfter(i)
           e == EndOf(o)
<1>3. f.start = s /\ f.end = e + 1
  BY <1>1 DEF Span
<1>4. PICK shape \in Shapes : Tile(text, s, shape) /\ s \in 1 .. i /\ i < s + Len(shape)
  BY <1>2, PhrasesStart
<1>5. Heads(s, i, o)
  <2>1. KindAt(i) \notin Boundaries
    BY <1>2 DEF Boundaries
  <2> QED BY <1>1, <1>2, <2>1, HeadsAreFound
<1>6. PICK t \in Of("type", s .. i - 1) : TRUE
  BY <1>1
<1> HIDE DEF s, o
<1>7. t \in s .. i - 1 /\ KindAt(t) = "type"
  BY <1>0, <1>6, OfIsKind
<1> DEFINE j == i - s + 1
<1>8. /\ s \in Nat \ {0} /\ i \in Nat /\ Len(shape) \in Nat /\ j \in Nat /\ s + j - 1 = i
      /\ j \in 1 .. Len(shape) /\ t - s + 1 \in 1 .. j - 1 /\ t - s + 1 \in 1 .. Len(shape)
      /\ s + (t - s + 1) - 1 = t
  <2>1. Len(shape) \in Nat
    BY ShapesEnd
  <2> QED BY <1>2, <1>4, <1>7, <2>1
<1> HIDE DEF j
<1>9. \A k \in 1 .. Len(shape) : KindAt(s + k - 1) = shape[k]
  BY <1>0, <1>4, <1>8, TilesStart
<1>10. shape[j] = "identifier" /\ shape[t - s + 1] = "type"
  BY <1>2, <1>7, <1>8, <1>9
<1>11. j \in 1 .. Len(shape) - 1 /\ j + 1 \in 1 .. Len(shape) /\ s + (j + 1) - 1 = i + 1
  <2>1. j # Len(shape)
    BY <1>10, ShapesEnd DEF Boundaries
  <2> QED BY <1>8, <2>1
<1>12. shape[j + 1] = "leftParen"
  BY <1>5, <1>9, <1>11 DEF Heads
<1>13. shape = FunctionShape /\ j = 2
  BY <1>8, <1>10, <1>11, <1>12, FunctionsLead
<1>14. i = s + 1
  BY <1>8, <1>13
<1>15. KindAt(s + 3) = "type" /\ KindAt(s + 4) = "identifier"
  <2>1. 4 \in 1 .. Len(shape) /\ 5 \in 1 .. Len(shape) /\ s + 4 - 1 = s + 3 /\ s + 5 - 1 = s + 4
    BY <1>8, <1>13, ShapesAre
  <2> QED BY <1>9, <1>13, <2>1, ShapesAre
<1>16. o \in 1 .. Len(text) /\ s + 5 < o
  <2>1. o \in 1 .. Len(text) /\ s + 2 < o - 1 /\ o - 1 # s + 3 /\ o - 1 # s + 4
    BY <1>5, <1>8, <1>14, <1>15 DEF Heads
  <2> QED BY <1>8, <2>1
<1>17. e \in Nat /\ o <= e
  BY <1>16, EndIsBehind
<1> HIDE DEF e
<1>18. s + 6 < f.end
  BY <1>3, <1>8, <1>16, <1>17
<1> QED BY <1>1, <1>3, <1>4, <1>8, <1>13, <1>14, <1>18 DEF s, o

(* The kinds of a function's head, and the start of its statement. *)
LEMMA FunctionTokens ==
  ASSUME DelimiterTypeOK, PairsNest, Laid(text), NEW f \in FunctionDeclarations
  PROVE  LET s == f.start
         IN /\ KindAt(s) = "type" /\ KindAt(s + 1) = "identifier" /\ KindAt(s + 2) = "leftParen"
            /\ KindAt(s + 3) = "type" /\ KindAt(s + 4) = "identifier"
            /\ KindAt(s + 5) = "rightParen" /\ KindAt(s + 6) = "leftBrace"
            /\ \A k \in 0 .. 6 : s + k \in 1 .. Len(text) /\ StatementStart(s + k) = s
<1> DEFINE s == f.start
<1>1. text \in Seq(Token) /\ s \in Nat \ {0} /\ Tile(text, s, FunctionShape)
      /\ FunctionShape \in Shapes
  BY FunctionsAreLaid DEF DelimiterTypeOK, Shapes
<1> HIDE DEF s
<1>2. ASSUME NEW k \in 0 .. 6
      PROVE  /\ s + k \in 1 .. Len(text) /\ StatementStart(s + k) = s
             /\ KindAt(s + k) = FunctionShape[k + 1]
  <2>1. k + 1 \in 1 .. Len(FunctionShape) /\ s + (k + 1) - 1 = s + k
    BY <1>1, ShapesAre
  <2>2. /\ s + (k + 1) - 1 \in 1 .. Len(text) /\ KindAt(s + (k + 1) - 1) = FunctionShape[k + 1]
        /\ StatementStart(s + (k + 1) - 1) = s
    BY <1>1, <2>1, TilesStart
  <2> QED BY <2>1, <2>2
<1>3. /\ KindAt(s + 0) = FunctionShape[1] /\ KindAt(s + 1) = FunctionShape[2]
      /\ KindAt(s + 2) = FunctionShape[3] /\ KindAt(s + 3) = FunctionShape[4]
      /\ KindAt(s + 4) = FunctionShape[5] /\ KindAt(s + 5) = FunctionShape[6]
      /\ KindAt(s + 6) = FunctionShape[7]
  <2>1. /\ 0 \in 0 .. 6 /\ 1 \in 0 .. 6 /\ 2 \in 0 .. 6 /\ 3 \in 0 .. 6 /\ 4 \in 0 .. 6
        /\ 5 \in 0 .. 6 /\ 6 \in 0 .. 6 /\ 0 + 1 = 1 /\ 1 + 1 = 2 /\ 2 + 1 = 3 /\ 3 + 1 = 4
        /\ 4 + 1 = 5 /\ 5 + 1 = 6 /\ 6 + 1 = 7
    OBVIOUS
  <2> QED BY <1>2, <2>1
<1>4. s + 0 = s
  BY <1>1
<1> QED BY <1>2, <1>3, <1>4, ShapesAre DEF s

LEMMA FunctionNamesAreLaid ==
  ASSUME DelimiterTypeOK, PairsNest, Laid(text), NEW f \in FunctionDeclarations
  PROVE  FunctionName(f) = f.start + 1
<1> DEFINE s == f.start
           F == {k \in Of("identifier", TokensOf(f)) : k + 1 \in Of("leftParen", TokensOf(f))}
<1>1. /\ s \in Nat \ {0} /\ s + 6 < f.end /\ f.end \in Nat /\ KindAt(s) = "type"
      /\ KindAt(s + 1) = "identifier" /\ KindAt(s + 2) = "leftParen"
  <2>1. f \in NodeRanges
    BY FunctionsAreNodes
  <2>2. f.end \in Nat
    BY <2>1 DEF NodeRanges
  <2> QED BY <2>2, FunctionsAreLaid, FunctionTokens
<1>2. TokensOf(f) = s .. f.end - 1
  BY DEF TokensOf
<1> HIDE DEF s
<1>3. s + 1 \in F
  <2>1. s + 1 \in s .. f.end - 1 /\ (s + 1) + 1 \in s .. f.end - 1 /\ (s + 1) + 1 = s + 2
    BY <1>1
  <2> QED BY <1>1, <1>2, <2>1 DEF Of
<1>4. \A k \in F : k \in Nat \ {0} /\ s + 1 <= k
  <2> SUFFICES ASSUME NEW k \in F PROVE k \in Nat \ {0} /\ s + 1 <= k
    OBVIOUS
  <2>1. k \in s .. f.end - 1 /\ KindAt(k) = "identifier"
    BY <1>2 DEF Of
  <2>2. k # s
    BY <1>1, <2>1
  <2> QED BY <1>1, <2>1, <2>2
<1>5. FunctionName(f) = First(F)
  BY DEF FunctionName
<1> HIDE DEF F
<1>6. First(F) \in F /\ First(F) <= s + 1
  <2>1. F \in SUBSET (Nat \ {0}) /\ F # {}
    BY <1>3, <1>4
  <2> QED BY <1>3, <2>1, FirstIsLeast
<1>7. First(F) = s + 1
  BY <1>1, <1>4, <1>6
<1> QED BY <1>5, <1>7 DEF s

LEMMA ParametersAreLaid ==
  ASSUME DelimiterTypeOK, PairsNest, Laid(text), NEW f \in FunctionDeclarations,
         NEW at \in ParameterNames(f)
  PROVE  at # f.start + 1 /\ StatementStart(at) = f.start
<1> DEFINE s == f.start
           open == FunctionName(f) + 1
           opens(k) == Of("leftParen", open .. k)
           closes(k) == Of("rightParen", open .. k)
           M == {k \in Of("rightParen", open .. f.end - 1) :
                   Cardinality(opens(k)) = Cardinality(closes(k))}
           close == MatchingPosition(f, open, "leftParen", "rightParen")
<1>1. /\ s \in Nat \ {0} /\ s + 6 < f.end /\ f.end \in Nat
      /\ KindAt(s + 2) = "leftParen" /\ KindAt(s + 3) = "type" /\ KindAt(s + 4) = "identifier"
      /\ KindAt(s + 5) = "rightParen"
      /\ \A k \in 0 .. 6 : s + k \in 1 .. Len(text) /\ StatementStart(s + k) = s
  <2>1. f \in NodeRanges
    BY FunctionsAreNodes
  <2>2. f.end \in Nat
    BY <2>1 DEF NodeRanges
  <2> QED BY <2>2, FunctionsAreLaid, FunctionTokens
<1>2. open = s + 2
  <2>1. FunctionName(f) = s + 1
    BY FunctionNamesAreLaid
  <2>2. s \in Nat
    BY <1>1
  <2> HIDE DEF s
  <2> QED BY <2>1, <2>2
<1>3. open < at /\ at < close /\ at \in Nat
  <2>1. /\ at \in 1 .. Len(text) /\ FunctionName(f) + 1 < at
        /\ at < MatchingPosition(f, FunctionName(f) + 1, "leftParen", "rightParen")
    BY ParametersAreInside
  <2> HIDE DEF M, opens, closes
  <2> QED BY <2>1
<1>4. close = First(M)
  BY DEF MatchingPosition
<1> HIDE DEF open, s, close
<1>5. s + 5 \in M
  <2>1. \A k \in s + 2 .. s + 5 : k = s + 2 \/ k = s + 3 \/ k = s + 4 \/ k = s + 5
    BY <1>1
  <2>2. /\ s + 2 \in s + 2 .. s + 5 /\ s + 5 \in s + 2 .. s + 5
        /\ s + 5 \in s + 2 .. f.end - 1
    BY <1>1
  <2>3. opens(s + 5) = {s + 2}
    BY <1>1, <1>2, <2>1, <2>2 DEF Of
  <2>4. closes(s + 5) = {s + 5}
    BY <1>1, <1>2, <2>1, <2>2 DEF Of
  <2>5. Cardinality(opens(s + 5)) = 1 /\ Cardinality(closes(s + 5)) = 1
    <3> HIDE DEF opens, closes
    <3> QED BY <2>3, <2>4, FS_Singleton
  <2>6. s + 5 \in Of("rightParen", open .. f.end - 1)
    BY <1>1, <1>2, <2>2 DEF Of
  <2> HIDE DEF opens, closes
  <2> QED BY <2>5, <2>6
<1>6. close <= s + 5 /\ close \in Nat
  <2>1. \A k \in M : k \in Nat \ {0}
    <3> SUFFICES ASSUME NEW k \in M PROVE k \in Nat \ {0}
      OBVIOUS
    <3>1. k \in s + 2 .. f.end - 1
      BY <1>2 DEF Of
    <3> QED BY <1>1, <3>1
  <2>2. M \in SUBSET (Nat \ {0}) /\ M # {}
    <3> HIDE DEF M
    <3> QED BY <1>5, <2>1
  <2> HIDE DEF M
  <2>3. First(M) \in M /\ First(M) <= s + 5
    BY <1>5, <2>2, FirstIsLeast
  <2> QED BY <1>4, <2>1, <2>3
<1>7. at = s + 3 \/ at = s + 4
  BY <1>1, <1>2, <1>3, <1>6
<1>8. 3 \in 0 .. 6 /\ 4 \in 0 .. 6 /\ s + 3 # s + 1 /\ s + 4 # s + 1
  BY <1>1
<1>9. at # s + 1 /\ StatementStart(at) = s
  BY <1>1, <1>7, <1>8
<1> QED BY <1>9 DEF s

(* A declaration's name is in its statement, which its semicolon ends. *)
LEMMA VariablesAreLaid ==
  ASSUME text \in Seq(Token), NEW v \in VariableDeclarations
  PROVE  /\ \E i \in 1 .. Len(text) :
              KindAt(i) = "semicolon" /\ StatementStart(i) = v.start /\ v = Span(v.start, i)
         /\ DeclaredName(v) # 0 => StatementStart(DeclaredName(v)) = v.start
<1>0. DOMAIN text = 1 .. Len(text)
  OBVIOUS
<1>1. PICK i \in Of("semicolon", DOMAIN text) : v = Span(StatementStart(i), i)
  BY DEF VariableDeclarations
<1>2. i \in 1 .. Len(text) /\ KindAt(i) = "semicolon"
  BY <1>0, OfIsKind
<1> DEFINE s == StatementStart(i)
           at == DeclaredName(v)
<1>3. v.start = s /\ v.end = i + 1
  BY <1>1 DEF Span
<1>4. /\ s \in 1 .. i /\ \A b \in 1 .. i - 1 : KindAt(b) \in Boundaries => b < s
      /\ s = 1 \/ KindAt(s - 1) \in Boundaries
  BY <1>2, StatementsBegin
<1> HIDE DEF s
<1>5. ASSUME at # 0 PROVE StatementStart(at) = s
  <2>1. s \in Nat /\ v.end - 1 = i /\ i \in Int
    BY <1>2, <1>3, <1>4
  <2>2. at = DeclarationName(s, i)
    BY <1>3, <2>1 DEF DeclaredName
  <2> HIDE DEF at
  <2>3. at \in s .. i /\ at \in 1 .. Len(text)
    BY <1>5, <2>1, <2>2, NamesAreBetween
  <2>4. s \in 1 .. at
    BY <1>4, <2>3
  <2>5. ASSUME NEW c \in s .. at - 1 PROVE KindAt(c) \notin Boundaries
    <3>1. c \in 1 .. i - 1 /\ ~ (c < s)
      BY <1>2, <1>4, <2>3
    <3> QED BY <1>4, <3>1
  <2> QED BY <1>4, <2>3, <2>4, <2>5, StartIs
<1> HIDE DEF at
<1> QED BY <1>1, <1>2, <1>3, <1>5 DEF s, at

(* A loop's binder is in its head. *)
LEMMA LoopsAreLaid ==
  ASSUME DelimiterTypeOK, PairsNest, Laid(text), NEW l \in ForStatements
  PROVE  /\ l = Span(l.start, EndOf(BraceAfter(l.start))) /\ KindAt(l.start) = "for"
         /\ l.start + 6 \in 1 .. Len(text) /\ KindAt(l.start + 6) = "leftBrace"
         /\ StatementStart(l.start + 6) = l.start
         /\ Binder(l) # 0 => StatementStart(Binder(l)) = l.start
<1>0. text \in Seq(Token) /\ DOMAIN text = 1 .. Len(text)
  BY DEF DelimiterTypeOK
<1>1. PICK s \in Of("for", DOMAIN text) : BraceAfter(s) # 0 /\ l = Span(s, EndOf(BraceAfter(s)))
  BY DEF ForStatements
<1>2. s \in 1 .. Len(text) /\ KindAt(s) = "for"
  BY <1>0, OfIsKind
<1> DEFINE o == BraceAfter(s)
           e == EndOf(o)
<1>3. l.start = s /\ l.end = e + 1
  BY <1>1 DEF Span
<1>4. StatementStart(s) = s
  BY LaidLoopsBegin DEF LoopsBegin
<1>5. PICK shape \in Shapes : Tile(text, s, shape) /\ s < s + Len(shape)
  BY <1>2, <1>4, PhrasesStart
<1>6. s \in Nat \ {0} /\ 1 \in 1 .. Len(shape) /\ s + 1 - 1 = s
  <2>1. Len(shape) \in 1 .. 8
    BY ShapesEnd
  <2> QED BY <1>2, <2>1
<1>7. shape = LoopShape
  <2>1. shape[1] = "for"
    BY <1>0, <1>2, <1>5, <1>6, TilesStart
  <2> QED BY <1>6, <2>1, LoopsLead
<1>8. ASSUME NEW k \in 0 .. 6
      PROVE  /\ s + k \in 1 .. Len(text) /\ StatementStart(s + k) = s
             /\ KindAt(s + k) = LoopShape[k + 1]
  <2>1. k + 1 \in 1 .. Len(LoopShape) /\ s + (k + 1) - 1 = s + k
    BY <1>6, ShapesAre
  <2>2. /\ s + (k + 1) - 1 \in 1 .. Len(text) /\ KindAt(s + (k + 1) - 1) = LoopShape[k + 1]
        /\ StatementStart(s + (k + 1) - 1) = s
    BY <1>0, <1>5, <1>6, <1>7, <2>1, TilesStart
  <2> QED BY <2>1, <2>2
<1>9. /\ 0 \in 0 .. 6 /\ 1 \in 0 .. 6 /\ 2 \in 0 .. 6 /\ 3 \in 0 .. 6 /\ 6 \in 0 .. 6
      /\ 1 + 1 = 2 /\ 2 + 1 = 3 /\ 3 + 1 = 4 /\ 6 + 1 = 7
  OBVIOUS
<1>10. /\ KindAt(s + 3) = "in" /\ KindAt(s + 6) = "leftBrace"
       /\ s + 6 \in 1 .. Len(text) /\ StatementStart(s + 6) = s
  BY <1>8, <1>9, ShapesAre
<1>11. e \in Nat /\ s + 3 <= e
  <2>1. Heads(s, s, o)
    BY <1>1, <1>2, <1>4, HeadsAreFound DEF Boundaries
  <2>2. o \in 1 .. Len(text) /\ s + 1 < o - 1
    BY <2>1 DEF Heads
  <2>3. e \in 1 .. Len(text) /\ o <= e
    BY <2>2, EndIsBehind
  <2> HIDE DEF o, e
  <2> QED BY <1>6, <2>2, <2>3
<1> HIDE DEF o, e
<1>12. ASSUME Binder(l) # 0 PROVE StatementStart(Binder(l)) = s
  <2> DEFINE b == Binder(l)
             Ins == Of("in", TokensOf(l))
  <2>1. b \in Nat /\ s <= b /\ b < First(Ins)
    BY <1>3, <1>12, BindersAreInside
  <2>2. s + 3 \in Ins
    <3>1. s + 3 \in s .. l.end - 1 /\ TokensOf(l) = s .. l.end - 1
      BY <1>3, <1>6, <1>11 DEF TokensOf
    <3> QED BY <1>10, <3>1 DEF Of
  <2>3. Ins \in SUBSET (Nat \ {0})
    <3> SUFFICES ASSUME NEW k \in Ins PROVE k \in Nat \ {0}
      OBVIOUS
    <3>1. k \in 1 .. Len(text)
      BY <1>0, OfIsKind
    <3> QED BY <3>1
  <2> HIDE DEF Ins, b
  <2>4. First(Ins) <= s + 3 /\ First(Ins) \in Nat
    BY <2>2, <2>3, FirstIsLeast
  <2>5. b - s \in 0 .. 6 /\ s + (b - s) = b
    BY <1>6, <2>1, <2>4
  <2> QED BY <1>8, <2>5 DEF b
<1> QED BY <1>1, <1>2, <1>3, <1>10, <1>12 DEF o

(* The symbols of one node, all in one statement. *)
InStatement(symbols, s) == \A e \in DOMAIN symbols : StatementStart(symbols[e].at) = s

LEMMA FunctionSymbolsAreDistinct ==
  ASSUME DelimiterTypeOK, PairsNest, Laid(text), NEW scopes, NEW f \in FunctionDeclarations
  PROVE  /\ Distinct(FunctionSymbols(scopes, f))
         /\ InStatement(FunctionSymbols(scopes, f), f.start)
<1> DEFINE body   == BodyRange(f)
           scope  == ScopeWithRange(scopes, f)
           names  == IF body = NoRange THEN {} ELSE ParameterNames(f)
           sorted == InOrder(names, <)
           Parameter(at) == Symbol(at, "parameter", scope, body.start)
           head == Symbol(FunctionName(f), "function", Root, 0)
           rest == [k \in DOMAIN sorted |-> Parameter(sorted[k])]
           N == Cardinality(names)
           G == {head} \cup {Parameter(at) : at \in names}
<1>1. FunctionSymbols(scopes, f) = <<head>> \o rest
  BY DEF FunctionSymbols
<1>2. head.at = f.start + 1 /\ StatementStart(head.at) = f.start
  <2>1. head.at = FunctionName(f)
    BY DEF Symbol
  <2>2. 1 \in 0 .. 6
    OBVIOUS
  <2>3. StatementStart(f.start + 1) = f.start
    BY <2>2, FunctionTokens
  <2> HIDE DEF head
  <2> QED BY <2>1, <2>3, FunctionNamesAreLaid
<1>3. \A at \in names : at # f.start + 1 /\ StatementStart(at) = f.start
  BY ParametersAreLaid
<1>4. /\ N \in Nat /\ sorted \in [1 .. N -> names]
      /\ \A k, m \in 1 .. N : sorted[k] = sorted[m] => k = m
  <2>1. names \in SUBSET (1 .. Len(text)) /\ Len(text) \in Nat
    <3>1. text \in Seq(Token)
      BY DEF DelimiterTypeOK
    <3> QED BY <3>1, ParametersAreInside
  <2> HIDE DEF names
  <2> QED BY <2>1, PositionsAreSorted
<1>5. \A at : Parameter(at).at = at
  BY DEF Symbol
<1>6. head \in G /\ \A at \in names : Parameter(at) \in G
  OBVIOUS
<1> HIDE DEF names, sorted, Parameter, head, G, N
<1>7. /\ rest \in Seq(G) /\ DOMAIN rest = 1 .. N
      /\ \A k \in 1 .. N : rest[k].at = sorted[k] /\ sorted[k] \in names
  <2>1. /\ rest \in [1 .. N -> G]
        /\ \A k \in 1 .. N : rest[k].at = sorted[k] /\ sorted[k] \in names
    BY <1>4, <1>5, <1>6
  <2> HIDE DEF rest
  <2> QED BY <1>4, <2>1
<1>8. <<head>> \in Seq(G) /\ DOMAIN <<head>> = {1} /\ <<head>>[1] = head
  BY <1>6
<1> HIDE DEF rest
<1> DEFINE one == <<head>>
<1> HIDE DEF one
<1>9. one \in Seq(G) /\ DOMAIN one = {1} /\ one[1] = head
  BY <1>8 DEF one
<1>10. Distinct(rest) /\ Distinct(one)
  BY <1>4, <1>7, <1>9 DEF Distinct
<1>11. \A k \in DOMAIN one, m \in DOMAIN rest : one[k].at # rest[m].at
  BY <1>2, <1>3, <1>7, <1>9
<1>12. /\ Distinct(one \o rest)
       /\ \A e \in DOMAIN (one \o rest) : \/ \E k \in DOMAIN one : (one \o rest)[e] = one[k]
                                          \/ \E m \in DOMAIN rest : (one \o rest)[e] = rest[m]
  <2>1. one \in Seq(G) /\ rest \in Seq(G)
    BY <1>7, <1>9
  <2> QED BY <2>1, <1>10, <1>11, JoinedAreDistinct
<1> DEFINE all == one \o rest
<1> HIDE DEF all
<1>13. InStatement(all, f.start)
  <2>1. /\ \A k \in DOMAIN one : StatementStart(one[k].at) = f.start
        /\ \A m \in DOMAIN rest : StatementStart(rest[m].at) = f.start
    BY <1>2, <1>3, <1>7, <1>9
  <2> QED BY <2>1, <1>12 DEF InStatement, all
<1> QED BY <1>1, <1>12, <1>13 DEF all, one

LEMMA SinglesAreDistinct ==
  ASSUME NEW symbol, NEW s, StatementStart(symbol.at) = s
  PROVE  /\ Distinct(<<>>) /\ InStatement(<<>>, s)
         /\ Distinct(<<symbol>>) /\ InStatement(<<symbol>>, s)
<1>1. DOMAIN <<>> = {} /\ DOMAIN <<symbol>> = {1} /\ <<symbol>>[1] = symbol
  OBVIOUS
<1> QED BY <1>1 DEF Distinct, InStatement

LEMMA VariableSymbolsAreDistinct ==
  ASSUME text \in Seq(Token), NEW scopes, NEW v \in VariableDeclarations
  PROVE  /\ Distinct(VariableSymbols(scopes, v))
         /\ InStatement(VariableSymbols(scopes, v), v.start)
<1> DEFINE at == DeclaredName(v)
           scope == ScopeAt(scopes, at)
           block == FirstKind({b \in ProgramBlocks : Holds(b.range, at)})
           program == scopes[scope].kind \in BlockKinds /\ block \in ProgramKinds
           kind == IF program THEN block ELSE "local"
           home == IF program THEN Root ELSE scope
           symbol == Symbol(at, kind, home, v.end)
<1>1. VariableSymbols(scopes, v) = IF at = 0 THEN <<>> ELSE <<symbol>>
  BY DEF VariableSymbols
<1>2. at # 0 => StatementStart(at) = v.start
  BY VariablesAreLaid
<1>3. symbol.at = at
  BY DEF Symbol
<1>4. DOMAIN <<>> = {}
  OBVIOUS
<1>5. Distinct(<<>>) /\ InStatement(<<>>, v.start)
  BY <1>4 DEF Distinct, InStatement
<1> HIDE DEF symbol, at
<1>6. at # 0 => Distinct(<<symbol>>) /\ InStatement(<<symbol>>, v.start)
  BY <1>2, <1>3, SinglesAreDistinct
<1> QED BY <1>1, <1>5, <1>6

LEMMA LoopSymbolsAreDistinct ==
  ASSUME DelimiterTypeOK, PairsNest, Laid(text), NEW scopes, NEW l \in ForStatements
  PROVE  /\ Distinct(LoopSymbols(scopes, l))
         /\ InStatement(LoopSymbols(scopes, l), l.start)
<1> DEFINE at == Binder(l)
           symbol == Symbol(at, "loop", ScopeWithRange(scopes, l), BodyRange(l).start)
<1>1. LoopSymbols(scopes, l) = <<>> \/ (at # 0 /\ LoopSymbols(scopes, l) = <<symbol>>)
  BY DEF LoopSymbols
<1>2. at # 0 => StatementStart(at) = l.start
  BY LoopsAreLaid
<1>3. symbol.at = at
  BY DEF Symbol
<1>4. DOMAIN <<>> = {}
  OBVIOUS
<1>5. Distinct(<<>>) /\ InStatement(<<>>, l.start)
  BY <1>4 DEF Distinct, InStatement
<1> HIDE DEF symbol, at
<1>6. at # 0 => Distinct(<<symbol>>) /\ InStatement(<<symbol>>, l.start)
  BY <1>2, <1>3, SinglesAreDistinct
<1> QED BY <1>1, <1>5, <1>6

(* No two nodes with symbols start a statement together. *)
LEMMA NodesStartApart ==
  ASSUME DelimiterTypeOK, PairsNest, Laid(text)
  PROVE  /\ \A f, g \in FunctionDeclarations : f.start = g.start => f = g
         /\ \A v, w \in VariableDeclarations : v.start = w.start => v = w
         /\ \A l, m \in ForStatements : l.start = m.start => l = m
         /\ \A f \in FunctionDeclarations, v \in VariableDeclarations : f.start # v.start
         /\ \A f \in FunctionDeclarations, l \in ForStatements : f.start # l.start
         /\ \A v \in VariableDeclarations, l \in ForStatements : v.start # l.start
<1>0. text \in Seq(Token)
  BY DEF DelimiterTypeOK
<1>1. ASSUME NEW f \in FunctionDeclarations, NEW g \in FunctionDeclarations, f.start = g.start
      PROVE  f = g
  <2>1. /\ f = Span(f.start, EndOf(BraceAfter(f.start + 1)))
        /\ g = Span(g.start, EndOf(BraceAfter(g.start + 1)))
    BY FunctionsAreLaid
  <2> QED BY <1>1, <2>1, Zenon
<1>2. ASSUME NEW l \in ForStatements, NEW m \in ForStatements, l.start = m.start
      PROVE  l = m
  <2>1. /\ l = Span(l.start, EndOf(BraceAfter(l.start)))
        /\ m = Span(m.start, EndOf(BraceAfter(m.start)))
    BY LoopsAreLaid
  <2> QED BY <1>2, <2>1, Zenon
<1>3. ASSUME NEW v \in VariableDeclarations
      PROVE  \E i \in 1 .. Len(text) : /\ KindAt(i) = "semicolon" /\ KindAt(i) \in Boundaries
                                       /\ StatementStart(i) = v.start /\ v = Span(v.start, i)
  <2>1. "semicolon" \in Boundaries
    BY DEF Boundaries
  <2> QED BY <1>0, <2>1, VariablesAreLaid
<1>4. ASSUME NEW v \in VariableDeclarations, NEW w \in VariableDeclarations, v.start = w.start
      PROVE  v = w
  <2>1. PICK i \in 1 .. Len(text) : /\ KindAt(i) = "semicolon" /\ KindAt(i) \in Boundaries
                                    /\ StatementStart(i) = v.start /\ v = Span(v.start, i)
    BY <1>3
  <2>2. PICK j \in 1 .. Len(text) : /\ KindAt(j) = "semicolon" /\ KindAt(j) \in Boundaries
                                    /\ StatementStart(j) = w.start /\ w = Span(w.start, j)
    BY <1>3
  <2>3. i = j
    BY <1>0, <1>4, <2>1, <2>2, OneEnd
  <2> QED BY <1>4, <2>1, <2>2, <2>3, Zenon
<1>5. ASSUME NEW v \in VariableDeclarations, NEW b \in 1 .. Len(text), KindAt(b) = "leftBrace"
      PROVE  StatementStart(b) # v.start
  <2>1. PICK i \in 1 .. Len(text) : /\ KindAt(i) = "semicolon" /\ KindAt(i) \in Boundaries
                                    /\ StatementStart(i) = v.start
    BY <1>3
  <2>2. KindAt(b) \in Boundaries /\ i # b
    BY <1>5, <2>1 DEF Boundaries
  <2> QED BY <1>0, <2>1, <2>2, OneEnd
<1>6. ASSUME NEW f \in FunctionDeclarations
      PROVE  /\ KindAt(f.start) = "type" /\ f.start + 6 \in 1 .. Len(text)
             /\ KindAt(f.start + 6) = "leftBrace" /\ StatementStart(f.start + 6) = f.start
  <2>1. 6 \in 0 .. 6
    OBVIOUS
  <2> QED BY <2>1, FunctionTokens
<1>7. ASSUME NEW f \in FunctionDeclarations, NEW v \in VariableDeclarations
      PROVE  f.start # v.start
  BY <1>5, <1>6
<1>8. ASSUME NEW f \in FunctionDeclarations, NEW l \in ForStatements PROVE f.start # l.start
  <2>1. KindAt(l.start) = "for" /\ KindAt(f.start) = "type"
    BY <1>6, LoopsAreLaid
  <2> QED BY <2>1
<1>9. ASSUME NEW v \in VariableDeclarations, NEW l \in ForStatements PROVE v.start # l.start
  BY <1>5, LoopsAreLaid
<1> QED BY <1>1, <1>2, <1>4, <1>7, <1>8, <1>9

InStatements(symbols, starts) == \A e \in DOMAIN symbols : StatementStart(symbols[e].at) \in starts

StartsOf(starts, n) == {starts[i] : i \in 1 .. n}

(* The symbols of node after node, the nodes in different statements. *)
Placed(seqs, starts) ==
  /\ \A i \in 1 .. Len(seqs) : Distinct(seqs[i]) /\ InStatement(seqs[i], starts[i])
  /\ \A i, j \in 1 .. Len(seqs) : starts[i] = starts[j] => i = j

LEMMA PlacedAreDistinct ==
  ASSUME NEW G, NEW seqs \in Seq(Seq(G)), NEW starts, Placed(seqs, starts)
  PROVE  /\ FlattenSeq(seqs) \in Seq(G) /\ Distinct(FlattenSeq(seqs))
         /\ InStatements(FlattenSeq(seqs), StartsOf(starts, Len(seqs)))
<1>0. /\ \A i \in 1 .. Len(seqs) : Distinct(seqs[i]) /\ InStatement(seqs[i], starts[i])
      /\ \A i, j \in 1 .. Len(seqs) : starts[i] = starts[j] => i = j
  BY DEF Placed
<1>1. ASSUME NEW i \in 1 .. Len(seqs), NEW j \in 1 .. Len(seqs), i # j,
             NEW k \in DOMAIN seqs[i], NEW m \in DOMAIN seqs[j]
      PROVE  seqs[i][k].at # seqs[j][m].at
  <2>1. StatementStart(seqs[i][k].at) = starts[i] /\ StatementStart(seqs[j][m].at) = starts[j]
    BY <1>0 DEF InStatement
  <2> QED BY <1>0, <1>1, <2>1
<1>2. /\ FlattenSeq(seqs) \in Seq(G) /\ Distinct(FlattenSeq(seqs))
      /\ \A e \in DOMAIN FlattenSeq(seqs) :
           \E i \in 1 .. Len(seqs) : \E k \in DOMAIN seqs[i] : FlattenSeq(seqs)[e] = seqs[i][k]
  BY <1>0, <1>1, FlattenedAreDistinct
<1>3. \A i \in 1 .. Len(seqs) : \A k \in DOMAIN seqs[i] :
        StatementStart(seqs[i][k].at) = starts[i]
  BY <1>0 DEF InStatement
<1> DEFINE flat == FlattenSeq(seqs)
           n == Len(seqs)
<1> HIDE DEF flat, n
<1>4. ASSUME NEW e \in DOMAIN flat PROVE \E i \in 1 .. n : StatementStart(flat[e].at) = starts[i]
  <2>1. PICK i \in 1 .. n : \E k \in DOMAIN seqs[i] : flat[e] = seqs[i][k]
    BY <1>2 DEF flat, n
  <2> QED BY <1>3, <2>1 DEF n
<1>5. InStatements(flat, StartsOf(starts, n))
  BY <1>4 DEF InStatements, StartsOf
<1> QED BY <1>2, <1>5 DEF flat, n

(* The symbols of a class of nodes, flattened in the order of the nodes. *)
LEMMA ClassIsDistinct ==
  ASSUME DelimiterTypeOK, NEW G, NEW S \in SUBSET NodeRanges,
         NEW seqs \in [DOMAIN Sorted(S) -> Seq(G)],
         \A k \in DOMAIN Sorted(S) :
           Distinct(seqs[k]) /\ InStatement(seqs[k], Sorted(S)[k].start),
         \A r, u \in S : r.start = u.start => r = u
  PROVE  /\ FlattenSeq(seqs) \in Seq(G) /\ Distinct(FlattenSeq(seqs))
         /\ InStatements(FlattenSeq(seqs), {r.start : r \in S})
<1> DEFINE nodes == Sorted(S)
           N == Cardinality(S)
           flat == FlattenSeq(seqs)
<1>1. /\ N \in Nat /\ nodes \in [1 .. N -> S]
      /\ \A k, m \in 1 .. N : nodes[k] = nodes[m] => k = m
  <2>1. text \in Seq(Token)
    BY DEF DelimiterTypeOK
  <2> QED BY <2>1, NodesAreSorted
<1> HIDE DEF nodes, N, flat
<1>2. PICK starts : \A k \in 1 .. N : nodes[k] \in S /\ starts[k] = nodes[k].start
  <2> DEFINE heads == [k \in 1 .. N |-> nodes[k].start]
  <2>1. \A k \in 1 .. N : nodes[k] \in S /\ heads[k] = nodes[k].start
    BY <1>1
  <2> HIDE DEF heads
  <2> QED BY <2>1
<1>3. seqs \in [1 .. N -> Seq(G)]
  BY <1>1 DEF nodes
<1>4. seqs \in Seq(Seq(G)) /\ Len(seqs) = N
  BY <1>1, <1>3
<1>5. \A k \in 1 .. N : Distinct(seqs[k]) /\ InStatement(seqs[k], nodes[k].start)
  <2>1. DOMAIN nodes = 1 .. N
    BY <1>1
  <2> QED BY <2>1 DEF nodes
<1>6. Placed(seqs, starts)
  BY <1>1, <1>2, <1>4, <1>5 DEF Placed
<1>7. /\ flat \in Seq(G) /\ Distinct(flat)
      /\ InStatements(flat, StartsOf(starts, Len(seqs)))
  <2>1. seqs \in Seq(Seq(G))
    BY <1>4
  <2>2. /\ FlattenSeq(seqs) \in Seq(G) /\ Distinct(FlattenSeq(seqs))
        /\ InStatements(FlattenSeq(seqs), StartsOf(starts, Len(seqs)))
    BY <2>1, <1>6, PlacedAreDistinct
  <2> QED BY <2>2 DEF flat
<1>8. InStatements(flat, {r.start : r \in S})
  <2>1. \A i \in 1 .. Len(seqs) : starts[i] \in {r.start : r \in S}
    BY <1>2, <1>4
  <2> QED BY <1>7, <2>1 DEF InStatements, StartsOf
<1> QED BY <1>7, <1>8 DEF flat

(* No two symbols are at one position: the symbols of a node are in its own   *)
(* statement, at different tokens of it.                                      *)
LEMMA SymbolsAreDistinct ==
  ASSUME DelimiterTypeOK, PairsNest, Laid(text), NEW scopes, ScopesOK(scopes)
  PROVE  Distinct(AddSymbols(scopes))
<1> DEFINE functions == Sorted(FunctionDeclarations)
           variables == Sorted(VariableDeclarations)
           loops     == Sorted(ForStatements)
           Fs == [k \in DOMAIN functions |-> FunctionSymbols(scopes, functions[k])]
           F == FlattenSeq(Fs)
           Vs == [k \in DOMAIN variables |-> VariableSymbols(scopes, variables[k])]
           V == FlattenSeq(Vs)
           Ls == [k \in DOMAIN loops |-> LoopSymbols(scopes, loops[k])]
           L == FlattenSeq(Ls)
           G == GoodSymbols(scopes)
<1>1. text \in Seq(Token)
  BY DEF DelimiterTypeOK
<1>2. /\ F \in Seq(G) /\ Distinct(F)
      /\ InStatements(F, {r.start : r \in FunctionDeclarations})
  <2>1. FunctionDeclarations \in SUBSET NodeRanges
    BY <1>1, FunctionsAreNodes
  <2>2. \A r \in FunctionDeclarations :
          /\ FunctionSymbols(scopes, r) \in Seq(G) /\ Distinct(FunctionSymbols(scopes, r))
          /\ InStatement(FunctionSymbols(scopes, r), r.start)
    BY FunctionSymbolsAreGood, FunctionSymbolsAreDistinct
  <2>3. \A r, u \in FunctionDeclarations : r.start = u.start => r = u
    BY NodesStartApart
  <2> HIDE DEF G
  <2>4. \A k \in DOMAIN functions : functions[k] \in FunctionDeclarations
    BY <1>1, <2>1, NodesAreSorted
  <2> HIDE DEF functions
  <2>5. /\ Fs \in [DOMAIN functions -> Seq(G)]
        /\ \A k \in DOMAIN functions :
             Distinct(Fs[k]) /\ InStatement(Fs[k], functions[k].start)
    BY <2>2, <2>4
  <2> HIDE DEF Fs
  <2> QED BY <2>1, <2>3, <2>5, ClassIsDistinct DEF functions
<1>3. /\ V \in Seq(G) /\ Distinct(V)
      /\ InStatements(V, {r.start : r \in VariableDeclarations})
  <2>1. VariableDeclarations \in SUBSET NodeRanges
    BY <1>1, VariablesAreNodes
  <2>2. \A r \in VariableDeclarations :
          /\ VariableSymbols(scopes, r) \in Seq(G) /\ Distinct(VariableSymbols(scopes, r))
          /\ InStatement(VariableSymbols(scopes, r), r.start)
    BY <1>1, VariableSymbolsAreGood, VariableSymbolsAreDistinct
  <2>3. \A r, u \in VariableDeclarations : r.start = u.start => r = u
    BY NodesStartApart
  <2> HIDE DEF G
  <2>4. \A k \in DOMAIN variables : variables[k] \in VariableDeclarations
    BY <1>1, <2>1, NodesAreSorted
  <2> HIDE DEF variables
  <2>5. /\ Vs \in [DOMAIN variables -> Seq(G)]
        /\ \A k \in DOMAIN variables :
             Distinct(Vs[k]) /\ InStatement(Vs[k], variables[k].start)
    BY <2>2, <2>4
  <2> HIDE DEF Vs
  <2> QED BY <2>1, <2>3, <2>5, ClassIsDistinct DEF variables
<1>4. /\ L \in Seq(G) /\ Distinct(L)
      /\ InStatements(L, {r.start : r \in ForStatements})
  <2>1. ForStatements \in SUBSET NodeRanges
    BY <1>1, ForsAreNodes
  <2>2. \A r \in ForStatements :
          /\ LoopSymbols(scopes, r) \in Seq(G) /\ Distinct(LoopSymbols(scopes, r))
          /\ InStatement(LoopSymbols(scopes, r), r.start)
    BY LoopSymbolsAreGood, LoopSymbolsAreDistinct
  <2>3. \A r, u \in ForStatements : r.start = u.start => r = u
    BY NodesStartApart
  <2> HIDE DEF G
  <2>4. \A k \in DOMAIN loops : loops[k] \in ForStatements
    BY <1>1, <2>1, NodesAreSorted
  <2> HIDE DEF loops
  <2>5. /\ Ls \in [DOMAIN loops -> Seq(G)]
        /\ \A k \in DOMAIN loops :
             Distinct(Ls[k]) /\ InStatement(Ls[k], loops[k].start)
    BY <2>2, <2>4
  <2> HIDE DEF Ls
  <2> QED BY <2>1, <2>3, <2>5, ClassIsDistinct DEF loops
<1>5. AddSymbols(scopes) = F \o V \o L
  BY Zenon DEF AddSymbols
<1> HIDE DEF F, V, L, Fs, Vs, Ls, G
<1>6. /\ F \o V \in Seq(G) /\ Distinct(F \o V)
      /\ \A e \in DOMAIN (F \o V) : \/ \E k \in DOMAIN F : (F \o V)[e] = F[k]
                                    \/ \E m \in DOMAIN V : (F \o V)[e] = V[m]
  <2>1. ASSUME NEW k \in DOMAIN F, NEW m \in DOMAIN V PROVE F[k].at # V[m].at
    <3>1. PICK r \in FunctionDeclarations : StatementStart(F[k].at) = r.start
      BY <1>2 DEF InStatements
    <3>2. PICK u \in VariableDeclarations : StatementStart(V[m].at) = u.start
      BY <1>3 DEF InStatements
    <3> QED BY <3>1, <3>2, NodesStartApart
  <2>2. F \in Seq(G) /\ V \in Seq(G) /\ Distinct(F) /\ Distinct(V)
    BY <1>2, <1>3
  <2> QED BY <2>1, <2>2, JoinedAreDistinct
<1> DEFINE W == F \o V
<1> HIDE DEF W
<1>7. ASSUME NEW e \in DOMAIN W, NEW m \in DOMAIN L PROVE W[e].at # L[m].at
  <2>1. PICK u \in ForStatements : StatementStart(L[m].at) = u.start
    BY <1>4 DEF InStatements
  <2>2. CASE \E k \in DOMAIN F : W[e] = F[k]
    <3>1. PICK k \in DOMAIN F : W[e] = F[k]
      BY <2>2
    <3>2. PICK r \in FunctionDeclarations : StatementStart(F[k].at) = r.start
      BY <1>2 DEF InStatements
    <3> QED BY <2>1, <3>1, <3>2, NodesStartApart
  <2>3. CASE \E k \in DOMAIN V : W[e] = V[k]
    <3>1. PICK k \in DOMAIN V : W[e] = V[k]
      BY <2>3
    <3>2. PICK r \in VariableDeclarations : StatementStart(V[k].at) = r.start
      BY <1>3 DEF InStatements
    <3> QED BY <2>1, <3>1, <3>2, NodesStartApart
  <2>4. (\E k \in DOMAIN F : W[e] = F[k]) \/ (\E k \in DOMAIN V : W[e] = V[k])
    BY <1>6 DEF W
  <2> QED BY <2>2, <2>3, <2>4
<1>8. Distinct(W \o L)
  <2>1. W \in Seq(G) /\ L \in Seq(G) /\ Distinct(W) /\ Distinct(L)
    BY <1>4, <1>6 DEF W
  <2> QED BY <1>7, <2>1, JoinedAreDistinct
<1> QED BY <1>5, <1>8 DEF W

(* A rename to a name that the text does not have *)

LEMMA FreshNamesBind ==
  ASSUME DelimiterTypeOK, PairsNest, Laid(text), NEW m, m = AnalyzeSemantics(NamesOf),
         NEW symbol \in DOMAIN m.symbols
  PROVE  AnalyzeSemantics(Rename(m, NamesOf, symbol, FreshName)).resolved = m.resolved
<1> DEFINE scopes  == BuildScopes
           symbols == AddSymbols(scopes)
           names   == NamesOf
           renamed == Rename(m, names, symbol, FreshName)
           places  == References(symbols)
           Lookups(nm) == [i \in places |-> ResolveName(symbols, scopes, nm, i)]
           n == Len(text)
<1>1. ScopesOK(scopes)
  BY ScopesAreBuilt
<1>2. \A nm : AnalyzeSemantics(nm) = [scopes |-> scopes, symbols |-> symbols,
                resolved |-> Lookups(nm), duplicates |-> Duplicates(symbols, nm)]
  BY Zenon DEF AnalyzeSemantics
<1>3. m.symbols = symbols /\ \A nm : AnalyzeSemantics(nm).resolved = Lookups(nm)
  <2> HIDE DEF scopes, symbols, Lookups
  <2> QED BY <1>2
<1> HIDE DEF scopes
<1>4. symbols \in Seq(GoodSymbols(scopes)) /\ Distinct(symbols)
  BY <1>1, SymbolsAreAdded, SymbolsAreDistinct DEF scopes
<1>5. n \in Nat /\ DOMAIN names = 1 .. n /\ \A i \in 1 .. n : names[i] # FreshName
  <2>1. text \in Seq(Token)
    BY DEF DelimiterTypeOK
  <2>2. \A i \in 1 .. n : text[i].name \in KnownNames
    BY DEF Laid
  <2>3. FreshName \notin KnownNames
    BY AuthorAssumption DEF KnownNames
  <2> QED BY <2>1, <2>2, <2>3 DEF NamesOf
<1> HIDE DEF n, symbols, names
<1>6. \A k \in DOMAIN symbols : symbols[k].at \in 1 .. n
  <2>1. \A s \in GoodSymbols(scopes) : s.at \in 1 .. n
    BY DEF GoodSymbols, n
  <2>2. \A k \in DOMAIN symbols : symbols[k] \in GoodSymbols(scopes)
    BY <1>4
  <2> QED BY <2>1, <2>2
<1>7. /\ \A i \in places : i \in 1 .. n
      /\ \A k \in DOMAIN symbols : symbols[k].at \notin places
  <2>1. text \in Seq(Token)
    BY DEF DelimiterTypeOK
  <2>2. \A i \in Of("identifier", DOMAIN text) : i \in 1 .. n
    BY <2>1 DEF Of, n
  <2> QED BY <2>2 DEF References
<1> HIDE DEF places
<1> DEFINE edits == {symbols[symbol].at} \cup {i \in places : Lookups(names)[i] = symbol}
<1>8. RenameEdits(m, symbol) = edits
  <2>1. m.resolved = Lookups(names)
    BY <1>3 DEF names
  <2>2. DOMAIN Lookups(names) = places
    OBVIOUS
  <2> HIDE DEF Lookups
  <2> QED BY <1>3, <2>1, <2>2 DEF RenameEdits
<1>9. \A i \in 1 .. n : renamed[i] = IF i \in edits THEN FreshName ELSE names[i]
  <2> HIDE DEF edits
  <2> QED BY <1>5, <1>8 DEF Rename
<1>10. ASSUME NEW k \in DOMAIN symbols
       PROVE  renamed[symbols[k].at] = IF k = symbol THEN FreshName ELSE names[symbols[k].at]
  <2> HIDE DEF renamed, Lookups
  <2>1. symbols[k].at \in edits <=> k = symbol
    BY <1>3, <1>4, <1>7 DEF Distinct
  <2> HIDE DEF edits
  <2> QED BY <1>6, <1>9, <2>1
<1>11. ASSUME NEW i \in places
       PROVE  renamed[i] = IF ResolveName(symbols, scopes, names, i) = symbol
                           THEN FreshName ELSE names[i]
  <2> HIDE DEF renamed
  <2>1. Lookups(names)[i] = ResolveName(symbols, scopes, names, i)
    OBVIOUS
  <2> HIDE DEF Lookups
  <2>2. i # symbols[symbol].at
    BY <1>3, <1>7
  <2>3. i \in edits <=> Lookups(names)[i] = symbol
    BY <2>2
  <2> HIDE DEF edits
  <2> QED BY <1>7, <1>9, <2>1, <2>3
<1>12. ASSUME NEW i \in places
       PROVE  ResolveName(symbols, scopes, renamed, i) = ResolveName(symbols, scopes, names, i)
  <2> HIDE DEF renamed
  <2>1. /\ \A k \in DOMAIN symbols : names[symbols[k].at] # FreshName
        /\ names[i] # FreshName
    BY <1>5, <1>6, <1>7
  <2>2. symbol \in DOMAIN symbols
    BY <1>3
  <2>3. symbols \in Seq(GoodSymbols(scopes)) /\ Len(text) \in Nat
    BY <1>4, <1>5 DEF n
  <2>4. RenamedFor(symbols, scopes, names, renamed, symbol, FreshName, i)
    BY <1>10, <1>11, <2>1 DEF RenamedFor
  <2> QED BY <1>1, <2>2, <2>3, <2>4, CandidatesAreFound
<1>13. Lookups(renamed) = Lookups(names)
  <2> HIDE DEF renamed
  <2> QED BY <1>12
<1> HIDE DEF Lookups, renamed
<1>14. AnalyzeSemantics(renamed).resolved = Lookups(renamed) /\ m.resolved = Lookups(names)
  BY <1>3 DEF names
<1> QED BY <1>13, <1>14 DEF renamed, names

(* In a finished program a rename to a name the program does not have changes *)
(* no binding: each use stands for the declaration it stood for               *)
(* (navigation.rs 63-82). Not so for every new name: the check of the scope   *)
(* of the declaration sees no declaration between it and a use.               *)
THEOREM FreshRenamesKeepBindings == Spec => []FreshRenamesAreSafe
<1>1. AnalysisInv /\ LaidInv /\ ModelIsCurrent => FreshRenamesAreSafe
  <2> SUFFICES ASSUME AnalysisInv, LaidInv, ModelIsCurrent, Finished,
                      NEW symbol \in DOMAIN model.symbols
               PROVE  RenamedModel(symbol, FreshName).resolved = model.resolved
    BY DEF FreshRenamesAreSafe
  <2>1. DelimiterTypeOK /\ PairsNest /\ text \in Seq(Token)
    BY DEF AnalysisInv, DelimiterInv, DelimiterTypeOK
  <2>2. Laid(text)
    <3>1. text \o <<>> = text
      BY <2>1
    <3>2. pending = <<>> /\ slips = 0
      BY DEF Finished
    <3> QED BY <3>1, <3>2 DEF LaidInv
  <2>3. model = AnalyzeSemantics(NamesOf)
    BY DEF Finished, ModelIsCurrent
  <2> QED BY <2>1, <2>2, <2>3, FreshNamesBind DEF RenamedModel
<1> QED
  BY <1>1, DelimitersHold, TextsAreLaid, ModelsAreCurrent, PTL
==============================================================================
