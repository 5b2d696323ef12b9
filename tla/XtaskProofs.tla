------------------------------- MODULE XtaskProofs ------------------------------
(***************************************************************************)
(* Proofs about the maintenance commands, for every catalog and corpus,    *)
(* any compilers, and any number of faults.                                *)
(***************************************************************************)
EXTENDS Xtask, FiniteSetTheorems, SequenceTheorems, TLAPS

(* e lists the places P, each once, and a sequence is listed along e.       *)
Enumerates(e, c, P) ==
  /\ e \in [1 .. c -> P]
  /\ \A a, b \in 1 .. c : e[a] = e[b] => a = b
  /\ \A i \in P : \E a \in 1 .. c : e[a] = i
Along(s, e, c) == [a \in 1 .. c |-> s[e[a]]]

(* The elements a sequence has at some places, each at its rank *)
LEMMA PickedAtRanks ==
  ASSUME NEW s, NEW n \in Nat, NEW P \in SUBSET (1 .. n)
  PROVE  /\ Cardinality(P) \in Nat
         /\ \E e : /\ Enumerates(e, Cardinality(P), P)
                   /\ Picked(s, P) = Along(s, e, Cardinality(P))
<1> DEFINE Below(i) == {k \in P : k < i}
           rank == [i \in P |-> Cardinality(Below(i)) + 1]
           c == Cardinality(P)
           at(a) == CHOOSE i \in P : Cardinality({k \in P : k < i}) = a - 1
           e == [a \in 1 .. c |-> at(a)]
<1>0. P \subseteq Int
  OBVIOUS
<1>1. IsFiniteSet(P) /\ c \in Nat
  <2>1. IsFiniteSet(1 .. n)
    BY FS_Interval
  <2>2. IsFiniteSet(P)
    BY <2>1, FS_Subset
  <2> QED
    BY <2>2, FS_CardinalityType
<1>2. ASSUME NEW i \in P
      PROVE  /\ IsFiniteSet(Below(i)) /\ Cardinality(Below(i)) \in Nat
             /\ Cardinality(Below(i)) < c
  <2>1. Below(i) \in SUBSET P /\ i \notin Below(i)
    OBVIOUS
  <2>2. Below(i) # P
    BY <2>1
  <2> HIDE DEF Below, c
  <2>3. IsFiniteSet(Below(i)) /\ Cardinality(Below(i)) \in Nat /\ Cardinality(P) \in Nat
        /\ Cardinality(Below(i)) <= Cardinality(P) /\ Cardinality(P) # Cardinality(Below(i))
    BY <1>1, <2>1, <2>2, FS_Subset, FS_CardinalityType DEF c
  <2> QED
    BY <2>3 DEF c
<1>3. ASSUME NEW i \in P, NEW j \in P, i < j
      PROVE  Cardinality(Below(i)) < Cardinality(Below(j))
  <2>0. ~(i < i) /\ \A k \in P : k < i => k < j
    BY <1>0, <1>3
  <2>1. Below(i) \in SUBSET Below(j) /\ i \in Below(j) /\ i \notin Below(i)
    BY <1>3, <2>0, Zenon
  <2> HIDE DEF Below
  <2>2. Cardinality(Below(i)) <= Cardinality(Below(j))
        /\ Cardinality(Below(j)) # Cardinality(Below(i))
    BY <1>2, <2>1, FS_Subset
  <2> QED
    BY <1>2, <2>2
<1>4. \A i, j \in P : rank[i] = rank[j] => i = j
  <2>1. \A i, j \in P : i = j \/ i < j \/ j < i
    BY <1>0
  <2> HIDE DEF Below
  <2> QED
    BY <1>2, <1>3, <2>1
<1>5. rank \in [P -> 1 .. c]
  <2> HIDE DEF Below, c
  <2> QED
    BY <1>1, <1>2
<1>6. rank \in Surjection(P, 1 .. c)
  <2> HIDE DEF rank, c
  <2>1. rank \in Injection(P, 1 .. c)
    BY <1>4, <1>5 DEF Injection, IsInjective
  <2>2. IsFiniteSet(1 .. c) /\ Cardinality(1 .. c) = c
    BY <1>1, FS_Interval
  <2> QED
    BY <1>1, <2>1, <2>2, FS_Injection DEF c
<1>7. \A a \in 1 .. c : \E i \in P : rank[i] = a
  BY <1>6 DEF Surjection
<1>8. \A a \in 1 .. c : at(a) \in P /\ rank[at(a)] = a
  <2> SUFFICES ASSUME NEW a \in 1 .. c
               PROVE  at(a) \in P /\ rank[at(a)] = a
    OBVIOUS
  <2>1. \E i \in P : Cardinality({k \in P : k < i}) = a - 1
    <3>1. PICK i \in P : rank[i] = a
      BY <1>7
    <3>2. Cardinality(Below(i)) \in Nat /\ Cardinality(Below(i)) + 1 = a
      BY <1>2, <3>1
    <3>3. Cardinality(Below(i)) = a - 1
      <4> HIDE DEF Below
      <4> QED
        BY <3>2
    <3> QED
      BY <3>3, Zenon
  <2>2. at(a) \in P /\ Cardinality(Below(at(a))) = a - 1
    BY <2>1
  <2> HIDE DEF at, Below
  <2> QED
    BY <1>1, <2>2
<1>9. e \in [1 .. c -> P] /\ \A a \in 1 .. c : rank[e[a]] = a
  <2> HIDE DEF at, rank, c
  <2> QED
    BY <1>8
<1>10. \A a, b \in 1 .. c : e[a] = e[b] => a = b
  <2> HIDE DEF e, rank, c
  <2> QED
    BY <1>9
<1>11. \A i \in P : rank[i] \in 1 .. c /\ e[rank[i]] = i
  <2> HIDE DEF e, rank, c
  <2> QED
    BY <1>4, <1>5, <1>9
<1>12. Picked(s, P) = Along(s, e, c)
  BY DEF Picked, Along
<1> HIDE DEF e, rank, at
<1>13. \A i \in P : \E a \in 1 .. c : e[a] = i
  BY <1>11
<1>14. Enumerates(e, c, P)
  BY <1>9, <1>10, <1>13 DEF Enumerates
<1> QED
  BY <1>1, <1>12, <1>14

(* collect, of values alone *)
LEMMA CollectsValues ==
  ASSUME NEW k \in Nat, NEW results, DOMAIN results = 1 .. k,
         results = [n \in 1 .. k |-> results[n]],
         \A n \in 1 .. k : IsValue(results[n])
  PROVE  Collect(results) = Value([n \in 1 .. k |-> results[n].value])
<1>1. results \in Seq({results[n] : n \in 1 .. k}) /\ Len(results) = k
  OBVIOUS
<1>2. {i \in 1 .. Len(results) : ~IsValue(results[i])} = {}
  BY <1>1
<1>3. SelectInSeq(results, LAMBDA result : ~IsValue(result)) = 0
  BY <1>2 DEF SelectInSeq
<1> QED
  BY <1>3 DEF Collect

-----------------------------------------------------------------------------
(* What a refresh renders parses, and displays the lines it was rendered from. *)

(* Each line that may be dumped parses, and is displayed as it is written.   *)
DisplayedAsWritten(line) ==
  LET parsed == ParseSignature(line.text)
  IN IsValue(parsed) /\ DisplaySignature(parsed.value) = line.text
LinesAreNotation == \A line \in ToSet(LineOrder) : DisplayedAsWritten(line)

LEMMA LinesAreTyped ==
  ASSUME NEW line \in ToSet(LineOrder)
  PROVE  line \in [name : Names, text : Texts]
<1>1. PICK n \in DOMAIN LineOrder : line = LineOrder[n]
  BY DEF ToSet
<1>2. LineOrder[n] \in [name : Names, text : Texts]
  BY CatalogAssumption, ElementOfSeq, LenProperties
<1> QED
  BY <1>1, <1>2

LEMMA RenderedLines ==
  ASSUME NEW lines \in SUBSET ToSet(LineOrder)
  PROVE  \E k \in Nat :
           LET rendered == RenderSignatures(lines)
           IN /\ rendered = [n \in 1 .. k |-> rendered[n]] /\ DOMAIN rendered = 1 .. k
              /\ \A n \in 1 .. k : rendered[n] \in lines
              /\ \A line \in lines : \E n \in 1 .. k : rendered[n] = line
              /\ \A a, b \in 1 .. k : rendered[a] = rendered[b] => a = b
<1> DEFINE P == {n \in DOMAIN LineOrder : LineOrder[n] \in lines}
           rendered == RenderSignatures(lines)
           k == Cardinality(P)
<1>1. DOMAIN LineOrder = 1 .. Len(LineOrder) /\ Len(LineOrder) \in Nat
  BY CatalogAssumption, LenProperties
<1>2. P \in SUBSET (1 .. Len(LineOrder))
  BY <1>1
<1>3. rendered = Picked(LineOrder, P)
  BY DEF RenderSignatures
<1> HIDE DEF P, rendered
<1>4. k \in Nat
  BY <1>1, <1>2, PickedAtRanks
<1>5. PICK e : Enumerates(e, k, P) /\ rendered = Along(LineOrder, e, k)
  BY <1>1, <1>2, <1>3, PickedAtRanks
<1> HIDE DEF k
<1> USE DEF Enumerates, Along
<1>6. DOMAIN rendered = 1 .. k /\ rendered = [n \in 1 .. k |-> rendered[n]]
  BY <1>5
<1>7. \A n \in 1 .. k : rendered[n] \in lines
  BY <1>5 DEF P
<1>8. \A line \in lines : \E n \in 1 .. k : rendered[n] = line
  <2> SUFFICES ASSUME NEW line \in lines
               PROVE  \E n \in 1 .. k : rendered[n] = line
    OBVIOUS
  <2>1. PICK i \in DOMAIN LineOrder : LineOrder[i] = line
    BY DEF ToSet
  <2>2. i \in P
    BY <2>1 DEF P
  <2> QED
    BY <1>5, <2>1, <2>2
<1>9. \A a, b \in 1 .. k : rendered[a] = rendered[b] => a = b
  <2> SUFFICES ASSUME NEW a \in 1 .. k, NEW b \in 1 .. k, rendered[a] = rendered[b]
               PROVE  a = b
    OBVIOUS
  <2>1. e[a] \in DOMAIN LineOrder /\ e[b] \in DOMAIN LineOrder
    BY <1>5 DEF P
  <2>2. e[a] = e[b]
    BY <1>5, <2>1, CatalogAssumption DEF IsInjective
  <2> QED
    BY <1>5, <2>2
<1> QED
  BY <1>4, <1>6, <1>7, <1>8, <1>9 DEF rendered

(* The entries of a name in a sequence, in order *)
LEMMA OwnEntries ==
  ASSUME NEW k \in Nat, NEW entries, DOMAIN entries = 1 .. k, NEW name
  PROVE  \E c \in Nat :
           \E e : /\ Enumerates(e, c, {n \in 1 .. k : entries[n].name = name})
                   /\ OfName(entries, name) = Along(entries, e, c)
<1> DEFINE P == {n \in DOMAIN entries : entries[n].name = name}
           own == OfName(entries, name)
           c == Cardinality(P)
<1>1. P \in SUBSET (1 .. k)
  OBVIOUS
<1>2. own = Picked(entries, P)
  BY DEF OfName
<1> HIDE DEF P, own
<1>3. c \in Nat
  BY <1>1, PickedAtRanks
<1>4. PICK e : Enumerates(e, c, P) /\ own = Along(entries, e, c)
  BY <1>1, <1>2, PickedAtRanks
<1>5. P = {n \in 1 .. k : entries[n].name = name}
  BY DEF P
<1> HIDE DEF c
<1> QED
  BY <1>3, <1>4, <1>5 DEF own

(* What the catalog is to show of the lines it was rendered from *)
LinesOf(lines, name) == {line \in lines : line.name = name}
Shows(catalog, lines, functions) ==
  /\ DOMAIN catalog = functions
  /\ \A name \in functions :
       /\ ToSet(Displayed(catalog[name])) = {line.text : line \in LinesOf(lines, name)}
       /\ IsInjective(Displayed(catalog[name]))
       /\ LinesOf(lines, name) # {} => catalog[name].concrete # <<>>
       /\ name \in NamesOf(SpecialLines) => catalog[name].variadic # <<>>

ParsedLine(line) == [name |-> line.name, signature |-> ParseSignature(line.text).value]
EntryOf(parsed, name) ==
  [concrete |-> [n \in DOMAIN OfName(parsed, name) |-> OfName(parsed, name)[n].signature],
   variadic |-> [n \in DOMAIN OfName(SpecialLines, name) |->
                   SpecialSignature(name, OfName(SpecialLines, name)[n].fields)]]

LEMMA LineParses ==
  ASSUME LinesAreNotation, NEW line \in ToSet(LineOrder)
  PROVE  ParseLine(line) = Value(ParsedLine(line))
<1>1. IsValue(ParseSignature(line.text))
  BY DEF LinesAreNotation, DisplayedAsWritten
<1> QED
  BY <1>1 DEF ParseLine, Then, ParsedLine

LEMMA RenderedParses ==
  ASSUME LinesAreNotation, NEW k \in Nat, NEW rendered, DOMAIN rendered = 1 .. k,
         \A n \in 1 .. k : rendered[n] \in ToSet(LineOrder),
         NEW functions, NamesOf(rendered) \subseteq functions,
         NamesOf(SpecialLines) \subseteq functions
  PROVE  ParseCatalog(rendered, SpecialLines, functions)
           = Value([name \in functions |->
                      EntryOf([n \in 1 .. k |-> ParsedLine(rendered[n])], name)])
<1> DEFINE parsed == [n \in 1 .. k |-> ParsedLine(rendered[n])]
           results == [n \in DOMAIN rendered |-> ParseLine(rendered[n])]
<1>1. \A n \in 1 .. k : results[n] = Value(ParsedLine(rendered[n]))
  BY LineParses
<1>2. Collect(results) = Value(parsed)
  <2>1. DOMAIN results = 1 .. k /\ results = [n \in 1 .. k |-> results[n]]
    OBVIOUS
  <2>2. \A n \in 1 .. k : IsValue(results[n]) /\ results[n].value = ParsedLine(rendered[n])
    BY <1>1 DEF IsValue, Value
  <2> HIDE DEF results
  <2>3. Collect(results) = Value([n \in 1 .. k |-> results[n].value])
    BY <2>1, <2>2, CollectsValues
  <2> QED
    BY <2>2, <2>3
<1>3. KnownLines(rendered, SpecialLines, functions)
  <2>1. \A n \in DOMAIN SpecialLines : Len(SpecialLines[n].fields) = 2
    <3> SUFFICES ASSUME NEW n \in DOMAIN SpecialLines
                 PROVE  Len(SpecialLines[n].fields) = 2
      OBVIOUS
    <3>1. SpecialLines[n] \in [name : Names, fields : STRING \X STRING]
      BY CatalogAssumption, ElementOfSeq, LenProperties
    <3> QED
      BY <3>1
  <2> QED
    BY <2>1 DEF KnownLines, NamesOf
<1> HIDE DEF results, parsed
<1>4. IsValue(Collect(results)) /\ Collect(results).value = parsed
  BY <1>2 DEF IsValue, Value
<1> QED
  BY <1>3, <1>4 DEF ParseCatalog, Then, EntryOf, parsed, results

(* rendered holds each of the lines once. *)
Renders(rendered, k, lines) ==
  /\ DOMAIN rendered = 1 .. k
  /\ \A n \in 1 .. k : rendered[n] \in lines
  /\ \A line \in lines : \E n \in 1 .. k : rendered[n] = line
  /\ \A a, b \in 1 .. k : rendered[a] = rendered[b] => a = b

LEMMA EntryShows ==
  ASSUME LinesAreNotation, NEW lines \in SUBSET ToSet(LineOrder), NEW k \in Nat, NEW rendered,
         Renders(rendered, k, lines), NEW name
  PROVE  LET entry == EntryOf([n \in 1 .. k |-> ParsedLine(rendered[n])], name)
         IN /\ ToSet(Displayed(entry)) = {line.text : line \in LinesOf(lines, name)}
            /\ IsInjective(Displayed(entry))
            /\ LinesOf(lines, name) # {} => entry.concrete # <<>>
            /\ name \in NamesOf(SpecialLines) => entry.variadic # <<>>
<1> DEFINE parsed == [n \in 1 .. k |-> ParsedLine(rendered[n])]
           entry == EntryOf(parsed, name)
           P == {n \in 1 .. k : parsed[n].name = name}
<1>1. \A n \in 1 .. k : /\ parsed[n].name = rendered[n].name
                         /\ DisplaySignature(parsed[n].signature) = rendered[n].text
                         /\ rendered[n] \in lines
  <2> SUFFICES ASSUME NEW n \in 1 .. k
               PROVE  /\ parsed[n].name = rendered[n].name
                      /\ DisplaySignature(parsed[n].signature) = rendered[n].text
                      /\ rendered[n] \in lines
    OBVIOUS
  <2>1. rendered[n] \in lines /\ rendered[n] \in ToSet(LineOrder)
    BY DEF Renders
  <2>2. DisplaySignature(ParseSignature(rendered[n].text).value) = rendered[n].text
    BY <2>1 DEF LinesAreNotation, DisplayedAsWritten
  <2> QED
    BY <2>1, <2>2 DEF ParsedLine
<1>2. DOMAIN parsed = 1 .. k
  OBVIOUS
<1> HIDE DEF parsed
<1>3a. PICK c \in Nat : \E e : /\ Enumerates(e, c, P)
                             /\ OfName(parsed, name) = Along(parsed, e, c)
  BY <1>2, OwnEntries
<1>3. PICK e : Enumerates(e, c, P) /\ OfName(parsed, name) = Along(parsed, e, c)
  BY <1>3a
<1>4. \A a \in 1 .. c : /\ e[a] \in 1 .. k /\ rendered[e[a]] \in LinesOf(lines, name)
                         /\ DisplaySignature(parsed[e[a]].signature) = rendered[e[a]].text
  BY <1>1, <1>3 DEF Enumerates, LinesOf
<1>5. entry.concrete = [a \in 1 .. c |-> parsed[e[a]].signature]
  BY <1>3 DEF EntryOf, Along
<1>6. Displayed(entry) = [a \in 1 .. c |-> rendered[e[a]].text]
  BY <1>4, <1>5 DEF Displayed
<1>7. \A line \in LinesOf(lines, name) : \E a \in 1 .. c : rendered[e[a]] = line
  <2> SUFFICES ASSUME NEW line \in LinesOf(lines, name)
               PROVE  \E a \in 1 .. c : rendered[e[a]] = line
    OBVIOUS
  <2>1. PICK n \in 1 .. k : rendered[n] = line
    BY DEF Renders, LinesOf
  <2>2. n \in P
    BY <1>1, <2>1 DEF LinesOf
  <2> HIDE DEF P
  <2> QED
    BY <1>3, <2>1, <2>2 DEF Enumerates
<1> HIDE DEF entry, P
<1>8. ToSet(Displayed(entry)) = {line.text : line \in LinesOf(lines, name)}
  BY <1>4, <1>6, <1>7 DEF ToSet
<1>9. IsInjective(Displayed(entry))
  <2> SUFFICES ASSUME NEW a \in 1 .. c, NEW b \in 1 .. c,
                      rendered[e[a]].text = rendered[e[b]].text
               PROVE  a = b
    BY <1>6 DEF IsInjective
  <2>1. /\ rendered[e[a]] \in lines /\ rendered[e[a]].name = name
        /\ rendered[e[b]] \in lines /\ rendered[e[b]].name = name
    BY <1>4 DEF LinesOf
  <2>2. /\ rendered[e[a]] \in [name : Names, text : Texts]
        /\ rendered[e[b]] \in [name : Names, text : Texts]
    BY <2>1, LinesAreTyped
  <2>3. rendered[e[a]] = rendered[e[b]]
    BY <2>1, <2>2
  <2>4. e[a] = e[b]
    BY <1>4, <2>3 DEF Renders
  <2> QED
    BY <1>3, <2>4 DEF Enumerates
<1>10. LinesOf(lines, name) # {} => entry.concrete # <<>>
  <2>1. LinesOf(lines, name) # {} => DOMAIN entry.concrete # {}
    BY <1>5, <1>7
  <2> QED
    BY <2>1
<1>11. name \in NamesOf(SpecialLines) => entry.variadic # <<>>
  <2> SUFFICES ASSUME name \in NamesOf(SpecialLines)
               PROVE  DOMAIN entry.variadic # {}
    OBVIOUS
  <2> DEFINE S == {n \in 1 .. Len(SpecialLines) : SpecialLines[n].name = name}
  <2>1. Len(SpecialLines) \in Nat /\ DOMAIN SpecialLines = 1 .. Len(SpecialLines)
    BY CatalogAssumption, LenProperties
  <2>2a. PICK d \in Nat : \E f : /\ Enumerates(f, d, S)
                               /\ OfName(SpecialLines, name) = Along(SpecialLines, f, d)
    BY <2>1, OwnEntries
  <2>2. PICK f : Enumerates(f, d, S) /\ OfName(SpecialLines, name) = Along(SpecialLines, f, d)
    BY <2>2a
  <2>3. S # {}
    BY <2>1 DEF NamesOf
  <2> HIDE DEF S
  <2>4. 1 .. d # {}
    BY <2>2, <2>3 DEF Enumerates
  <2>5. DOMAIN entry.variadic = 1 .. d
    BY <2>2 DEF entry, EntryOf, Along
  <2> QED
    BY <2>4, <2>5
<1> QED
  BY <1>8, <1>9, <1>10, <1>11 DEF entry, parsed

LEMMA RenderedCatalog ==
  ASSUME LinesAreNotation, NEW lines \in SUBSET ToSet(LineOrder), NEW functions,
         {line.name : line \in lines} \subseteq functions,
         NamesOf(SpecialLines) \subseteq functions
  PROVE  \E catalog :
           /\ ParseCatalog(RenderSignatures(lines), SpecialLines, functions) = Value(catalog)
           /\ Shows(catalog, lines, functions)
<1> DEFINE rendered == RenderSignatures(lines)
<1>1. PICK k \in Nat : Renders(rendered, k, lines)
  BY RenderedLines DEF Renders
<1> HIDE DEF rendered
<1> DEFINE parsed == [n \in 1 .. k |-> ParsedLine(rendered[n])]
           catalog == [name \in functions |-> EntryOf(parsed, name)]
<1>2. NamesOf(rendered) \subseteq functions
  BY <1>1 DEF NamesOf, Renders
<1>3. ParseCatalog(rendered, SpecialLines, functions) = Value(catalog)
  BY <1>1, <1>2, RenderedParses DEF Renders
<1>4. Shows(catalog, lines, functions)
  <2> HIDE DEF parsed
  <2> SUFFICES ASSUME NEW name \in functions
      PROVE  /\ ToSet(Displayed(EntryOf(parsed, name)))
                   = {line.text : line \in LinesOf(lines, name)}
             /\ IsInjective(Displayed(EntryOf(parsed, name)))
             /\ LinesOf(lines, name) # {} => EntryOf(parsed, name).concrete # <<>>
             /\ name \in NamesOf(SpecialLines) => EntryOf(parsed, name).variadic # <<>>
    BY DEF Shows
  <2> QED
    BY <1>1, EntryShows DEF parsed
<1> HIDE DEF catalog
<1> QED
  BY <1>3, <1>4 DEF rendered

(* The unnormalized functions are dumped with their density or mass function. *)
LEMMA SynthesizedAreDumped ==
  ASSUME NEW dump, Synthesized(dump) \subseteq ToSet(LineOrder), NEW name \in Names
  PROVE  {line.text : line \in LinesOf(Synthesized(dump), name)} = Dumped(dump, name)
<1> DEFINE Renamed(line) == [line EXCEPT !.name.suffix = Unnormalized(@)]
<1>1. \A line \in dump : line \in [name : Names, text : Texts]
  BY LinesAreTyped DEF Synthesized
<1>2. \A line \in dump : /\ Renamed(line).text = line.text
                         /\ Renamed(line).name.base = line.name.base
                         /\ Renamed(line).name.suffix = Unnormalized(line.name.suffix)
                         /\ Renamed(line).name \in Names
  <2> SUFFICES ASSUME NEW line \in dump
               PROVE  /\ Renamed(line).text = line.text
                      /\ Renamed(line).name.base = line.name.base
                      /\ Renamed(line).name.suffix = Unnormalized(line.name.suffix)
                      /\ Renamed(line).name \in Names
    OBVIOUS
  <2>1. line \in [name : Names, text : Texts] /\ line.name \in Names
    BY <1>1
  <2>2. Renamed(line).name \in Names
    <3>1. Renamed(line) \in ToSet(LineOrder)
      BY Zenon DEF Synthesized
    <3> HIDE DEF Renamed
    <3>2. Renamed(line) \in [name : Names, text : Texts]
      BY <3>1, LinesAreTyped
    <3> QED
      BY <3>2
  <2> QED
    BY <2>1, <2>2 DEF Names
<1>3. \A line \in dump : Renamed(line).name = name \/ line.name = name
                         <=> line.name \in Normalized(name)
  <2> SUFFICES ASSUME NEW line \in dump
               PROVE  Renamed(line).name = name \/ line.name = name
                        <=> line.name \in Normalized(name)
    OBVIOUS
  <2> DEFINE own == line.name
             renamed == Renamed(line).name
  <2>1. own \in Names /\ renamed \in Names
        /\ renamed.base = own.base /\ renamed.suffix = Unnormalized(own.suffix)
    BY <1>1, <1>2
  <2> HIDE DEF own, renamed
  <2>2. renamed = name <=> own.base = name.base /\ Unnormalized(own.suffix) = name.suffix
    BY <2>1 DEF Names
  <2>3. own = name <=> own.base = name.base /\ own.suffix = name.suffix
    BY <2>1 DEF Names
  <2>4. own \in Normalized(name)
          <=> /\ own.base = name.base
              /\ \/ own.suffix = name.suffix
                 \/ name.suffix = "_lupdf" /\ own.suffix = "_lpdf"
                 \/ name.suffix = "_lupmf" /\ own.suffix = "_lpmf"
    BY <2>1 DEF Normalized, Names
  <2>5. Unnormalized(own.suffix) = name.suffix \/ own.suffix = name.suffix
          <=> \/ own.suffix = name.suffix
              \/ name.suffix = "_lupdf" /\ own.suffix = "_lpdf"
              \/ name.suffix = "_lupmf" /\ own.suffix = "_lpmf"
    BY DEF Unnormalized
  <2>6. (renamed = name \/ own = name) <=> own \in Normalized(name)
    BY <2>2, <2>3, <2>4, <2>5
  <2> QED
    BY <2>6 DEF own, renamed
<1>4. Synthesized(dump) = dump \cup {Renamed(line) : line \in dump}
  BY DEF Synthesized
<1> HIDE DEF Renamed
<1>5. ASSUME NEW line \in LinesOf(Synthesized(dump), name)
      PROVE  line.text \in Dumped(dump, name)
  <2>1. CASE line \in dump
    BY <1>3, <2>1 DEF LinesOf, Dumped
  <2>2. CASE line \notin dump
    <3>1. PICK l \in dump : line = Renamed(l)
      BY <1>4, <2>2 DEF LinesOf
    <3>2. l.name \in Normalized(name) /\ l.text = line.text
      BY <1>2, <1>3, <3>1 DEF LinesOf
    <3> QED
      BY <3>2 DEF Dumped
  <2> QED
    BY <2>1, <2>2
<1>6. ASSUME NEW line \in dump, line.name \in Normalized(name)
      PROVE  \E l \in LinesOf(Synthesized(dump), name) : l.text = line.text
  <2>1. Renamed(line).name = name \/ line.name = name
    BY <1>3, <1>6
  <2> QED
    BY <1>2, <1>4, <2>1 DEF LinesOf
<1> QED
  BY <1>5, <1>6 DEF Dumped

LEMMA ContentIsDumped ==
  ASSUME LinesAreNotation, NEW dump, Synthesized(dump) \subseteq ToSet(LineOrder), NEW availability,
         NEW content, content = Content(dump, availability)
  PROVE  /\ content.functions.whole /\ content.distributions.whole
         /\ \E catalog :
              /\ ParseCatalog(content.signatures, content.special,
                              DOMAIN content.functions.lifecycles) = Value(catalog)
              /\ \A name \in DOMAIN catalog :
                   IsAvailable(content.functions.lifecycles[name]) =>
                     catalog[name].concrete # <<>> \/ catalog[name].variadic # <<>>
              /\ HoldsTheDump(catalog, content.distributions.kinds, dump)
<1> DEFINE lines == Synthesized(dump)
           names == FunctionNames(lines)
<1>1. /\ content.signatures = RenderSignatures(lines)
      /\ content.special = SpecialLines
      /\ content.functions = RenderFunctions(names, availability)
      /\ content.distributions = RenderDistributions(names)
  BY DEF Content
<1>2. /\ content.functions.whole /\ content.distributions.whole
      /\ DOMAIN content.functions.lifecycles = names
  BY <1>1 DEF RenderFunctions, RenderDistributions
<1>3. /\ {line.name : line \in lines} \subseteq names
      /\ NamesOf(SpecialLines) \subseteq names
      /\ \A name \in names : \/ LinesOf(lines, name) # {}
                             \/ name \in NamesOf(SpecialLines)
                             \/ name \in Removed
  BY DEF FunctionNames, LinesOf
<1>4. names \subseteq Names
  <2>1. \A line \in lines : line.name \in Names
    BY LinesAreTyped
  <2>2. \A n \in DOMAIN SpecialLines : SpecialLines[n] \in [name : Names, fields : STRING \X STRING]
    BY CatalogAssumption, ElementOfSeq, LenProperties
  <2>3. NamesOf(SpecialLines) \subseteq Names
    BY <2>2 DEF NamesOf
  <2> HIDE DEF lines
  <2> QED
    BY <2>1, <2>3, CatalogAssumption DEF FunctionNames
<1>5. lines \in SUBSET ToSet(LineOrder) /\ dump \subseteq lines
  BY DEF Synthesized
<1>6. \A name \in names :
        {line.text : line \in LinesOf(lines, name)} = Dumped(dump, name)
  BY <1>4, SynthesizedAreDumped
<1>7. \A name \in names : IsAvailable(content.functions.lifecycles[name]) => name \notin Removed
  <2> SUFFICES ASSUME NEW name \in names, IsAvailable(content.functions.lifecycles[name])
               PROVE  name \notin Removed
    OBVIOUS
  <2> HIDE DEF names
  <2>1. content.functions.lifecycles[name] = Lifecycle(name, availability)
    BY <1>1 DEF RenderFunctions
  <2>2. Lifecycle(name, availability).removed = (name \in Removed)
    BY DEF Lifecycle
  <2>3. ~Lifecycle(name, availability).removed
    BY <2>1 DEF IsAvailable
  <2> QED
    BY <2>2, <2>3, Zenon
<1>8. \A base \in DOMAIN content.distributions.kinds :
        content.distributions.kinds[base] = "Discrete"
          <=> [base |-> base, suffix |-> "_lpmf"] \in names
  <2> HIDE DEF lines, names
  <2>1. content.distributions.kinds =
          [base \in Bases(names, "_lpdf") \cup Bases(names, "_lpmf") |->
             IF base \in Bases(names, "_lpmf") THEN "Discrete" ELSE "Continuous"]
    BY <1>1 DEF RenderDistributions
  <2>2. \A base \in DOMAIN content.distributions.kinds :
          base \in Bases(names, "_lpmf") <=> [base |-> base, suffix |-> "_lpmf"] \in names
    BY <1>4 DEF Bases, Names
  <2> QED
    BY <2>1, <2>2
<1> HIDE DEF lines, names
<1>9. PICK catalog :
        /\ ParseCatalog(RenderSignatures(lines), SpecialLines, names) = Value(catalog)
        /\ Shows(catalog, lines, names)
  BY <1>3, <1>5, RenderedCatalog
<1>10. \A name \in DOMAIN catalog :
         IsAvailable(content.functions.lifecycles[name]) =>
           catalog[name].concrete # <<>> \/ catalog[name].variadic # <<>>
  BY <1>3, <1>7, <1>9 DEF Shows
<1>11. HoldsTheDump(catalog, content.distributions.kinds, dump)
  <2>1. \A line \in dump : line.name \in DOMAIN catalog
    BY <1>3, <1>5, <1>9 DEF Shows
  <2>2. \A name \in DOMAIN catalog : /\ ToSet(Displayed(catalog[name])) = Dumped(dump, name)
                                     /\ IsInjective(Displayed(catalog[name]))
    BY <1>6, <1>9 DEF Shows
  <2>3. DOMAIN catalog = names
    BY <1>9 DEF Shows
  <2> QED
    BY <1>8, <2>1, <2>2, <2>3 DEF HoldsTheDump
<1> QED
  BY <1>1, <1>2, <1>9, <1>10, <1>11

-----------------------------------------------------------------------------
(* What holds between the steps of a command.  RefreshedIsDumped is not       *)
(* inductive: of a refresh half way it says nothing.  Meanwhile the compiler *)
(* is the one the content was rendered from, and the targets the loop has    *)
(* passed hold it; of a fetch, what is unpacked goes to an empty directory.  *)
CatalogFiles == {"signatures", "special", "functions", "distributions"}
FetchPcs     == {"prepare", "checksum", "clear", "unpack"}
Rendered     == Content(stanc.dump, files.availability)

JobFits ==
  \/ job = Idle
  \/ job \in [pc : {"validate"}, command : {"validate"}]
  \/ job \in [pc : {"version", "dump", "done"}, command : {"refresh", "check"}]
  \/ job \in [pc : {"update"}, command : {"refresh", "check"}, target : 1 .. 4,
              content : {Rendered}]
  \/ job \in [pc : FetchPcs, command : {"fetch"}]
  \/ job \in [pc : {"corpus"}, command : {"corpus"}, external : BOOLEAN, compiles : BOOLEAN]
  \/ job \in [pc : {"report"}, command : {"corpus"}, external : BOOLEAN, compiles : BOOLEAN,
              models : SUBSET (Smoke \cup Pins \X Parts)]

ExitsFit ==
  /\ DOMAIN exits = Commands
  /\ job # Idle => exits[job.command] = "running"

FilesFit == DOMAIN files = CatalogFiles \cup {"availability"}

CompilerFits ==
  /\ stanc \in Compilers
  /\ job.pc \in {"dump", "update", "done"} => stanc.version = Version

WrittenFits ==
  /\ job.pc = "update" =>
       \A n \in 1 .. 4 : n < job.target => files[Targets[n]] = Rendered[Targets[n]]
  /\ job.pc = "done" => \A n \in 1 .. 4 : files[Targets[n]] = Rendered[Targets[n]]

RefreshInv == JobFits /\ ExitsFit /\ FilesFit /\ CompilerFits /\ WrittenFits

Directories == [exists : BOOLEAN, models : SUBSET (Pins \X Parts)]
CorpusInv ==
  /\ pin \in Pins
  /\ external \in Directories
  /\ job.pc \in {"clear", "unpack"} => archive = pin
  /\ job.pc = "unpack" => external.models = {}
  /\ job.pc = "report" => job.models = Checked(job.external)
  /\ exits["fetch"] = "ok" => external.models = ModelsOf(pin)

(* What pc says of the job *)
JobAtPc ==
  /\ job.pc = "idle" <=> job = Idle
  /\ job # Idle => job.command \in Commands
  /\ job.pc = "validate" => job.command = "validate"
  /\ job.pc \in {"version", "dump", "done", "update"} => job.command \in {"refresh", "check"}
  /\ job.pc \in FetchPcs => job.command = "fetch"
  /\ job.pc \in {"corpus", "report"} => job.command = "corpus"

LEMMA PcTellsJob ==
  ASSUME JobFits
  PROVE  /\ JobAtPc
         /\ job.pc \in {"version", "dump"} =>
              job \in [pc : {"version", "dump"}, command : {"refresh", "check"}]
         /\ job.pc = "update" =>
              job \in [pc : {"update"}, command : {"refresh", "check"}, target : 1 .. 4,
                      content : {Rendered}]
         /\ job.pc \in FetchPcs => job \in [pc : FetchPcs, command : {"fetch"}]
         /\ job.pc = "corpus" =>
              job \in [pc : {"corpus"}, command : {"corpus"}, external : BOOLEAN,
                      compiles : BOOLEAN]
<1>1. CASE job = Idle
  BY <1>1 DEF JobAtPc, Idle, FetchPcs
<1>2. CASE job \in [pc : {"validate"}, command : {"validate"}]
  BY <1>2 DEF JobAtPc, Idle, FetchPcs, Commands
<1>3. CASE job \in [pc : {"version", "dump", "done"}, command : {"refresh", "check"}]
  BY <1>3 DEF JobAtPc, Idle, FetchPcs, Commands
<1>4. CASE job \in [pc : {"update"}, command : {"refresh", "check"}, target : 1 .. 4,
                   content : {Rendered}]
  BY <1>4 DEF JobAtPc, Idle, FetchPcs, Commands
<1>5. CASE job \in [pc : FetchPcs, command : {"fetch"}]
  BY <1>5 DEF JobAtPc, Idle, FetchPcs, Commands
<1>6. CASE job \in [pc : {"corpus"}, command : {"corpus"}, external : BOOLEAN,
                   compiles : BOOLEAN]
  BY <1>6 DEF JobAtPc, Idle, FetchPcs, Commands
<1>7. CASE job \in [pc : {"report"}, command : {"corpus"}, external : BOOLEAN,
                   compiles : BOOLEAN, models : SUBSET (Smoke \cup Pins \X Parts)]
  BY <1>7 DEF JobAtPc, Idle, FetchPcs, Commands
<1> QED
  BY <1>1, <1>2, <1>3, <1>4, <1>5, <1>6, <1>7 DEF JobFits

(* How a step leaves the exits *)
LEMMA RunExits ==
  ASSUME ExitsFit, NEW command \in Commands, NEW start, start.command = command,
         Run(command, start)
  PROVE  ExitsFit' /\ job = Idle /\ job' \in {start, Idle}
<1>1. DOMAIN exits' = Commands
  BY DEF Run, ExitsFit
<1>2. job = Idle /\ job' \in {start, Idle} /\ ((job' = start /\ Builds) \/ job' = Idle)
  BY DEF Run
<1>3. job' # Idle => exits'[job'.command] = "running"
  BY <1>2 DEF Run
<1> QED
  BY <1>1, <1>2, <1>3 DEF ExitsFit

LEMMA ExitExits ==
  ASSUME ExitsFit, NEW status, Exit(status)
  PROVE  ExitsFit' /\ job' = Idle
BY DEF Exit, ExitsFit

LEMMA FaultExits ==
  ASSUME ExitsFit, Fault
  PROVE  ExitsFit' /\ job' = Idle
BY DEF Fault, ExitsFit

LEMMA ProceedExits ==
  ASSUME ExitsFit, NEW next, job # Idle, next.command = job.command, Proceed(next)
  PROVE  ExitsFit' /\ job' = next
BY DEF Proceed, ExitsFit

(* A command that has ended, or has not begun, holds nothing. *)
LEMMA IdleFits ==
  ASSUME job' = Idle
  PROVE  /\ JobFits' /\ WrittenFits'
         /\ stanc' \in Compilers => CompilerFits'
         /\ job'.pc = "idle"
BY DEF JobFits, WrittenFits, CompilerFits, Idle

(* A step that leaves the files and the compiler alone, and whose job is at  *)
(* none of the places that say something of them                             *)
LEMMA QuietStep ==
  ASSUME RefreshInv, UNCHANGED <<files, stanc>>, ExitsFit', JobFits',
         job'.pc \notin {"dump", "update", "done"}
  PROVE  RefreshInv'
BY DEF RefreshInv, FilesFit, CompilerFits, WrittenFits

LEMMA IdleStep ==
  ASSUME RefreshInv, UNCHANGED <<files, stanc>>, ExitsFit', job' = Idle
  PROVE  RefreshInv'
BY IdleFits, QuietStep DEF Idle

LEMMA EndedStep ==
  ASSUME RefreshInv, UNCHANGED <<files, stanc>>,
         Fault \/ \E status \in {"ok", "failed"} : Exit(status)
  PROVE  RefreshInv'
<1>1. ExitsFit
  BY DEF RefreshInv
<1>2. ExitsFit' /\ job' = Idle
  BY <1>1, ExitExits, FaultExits
<1> QED
  BY <1>2, IdleStep

LEMMA StartedStep ==
  ASSUME RefreshInv, UNCHANGED <<files, stanc>>, NEW command \in Commands, NEW start,
         start.command = command, start.pc \notin {"dump", "update", "done"},
         Run(command, start), job' = start => JobFits'
  PROVE  RefreshInv'
<1>1. ExitsFit' /\ job' \in {start, Idle}
  BY RunExits DEF RefreshInv
<1>2. CASE job' = Idle
  BY <1>1, <1>2, IdleStep
<1>3. CASE job' = start
  BY <1>1, <1>3, QuietStep
<1> QED
  BY <1>1, <1>2, <1>3

LEMMA StartsKeepRefreshInv ==
  ASSUME RefreshInv,
         \/ \E command \in {"refresh", "check"} : StartRefresh(command)
         \/ StartValidate \/ StartFetch \/ StartCheck
  PROVE  RefreshInv'
<1>1. ASSUME NEW command \in {"refresh", "check"}, StartRefresh(command)
      PROVE  RefreshInv'
  <2> DEFINE start == [pc |-> "version", command |-> command]
  <2>1. /\ Run(command, start) /\ UNCHANGED <<files, stanc>> /\ command \in Commands
        /\ start.command = command /\ start.pc \notin {"dump", "update", "done"}
    BY <1>1 DEF StartRefresh, Commands
  <2>2. job' = start => JobFits'
    BY <1>1 DEF JobFits
  <2> HIDE DEF start
  <2> QED
    BY <2>1, <2>2, StartedStep
<1>2. ASSUME StartValidate
      PROVE  RefreshInv'
  <2> DEFINE start == [pc |-> "validate", command |-> "validate"]
  <2>1. /\ Run("validate", start) /\ UNCHANGED <<files, stanc>> /\ "validate" \in Commands
        /\ start.command = "validate" /\ start.pc \notin {"dump", "update", "done"}
    BY <1>2 DEF StartValidate, Commands
  <2>2. job' = start => JobFits'
    BY DEF JobFits
  <2> HIDE DEF start
  <2> QED
    BY <2>1, <2>2, StartedStep
<1>3. ASSUME StartFetch
      PROVE  RefreshInv'
  <2> DEFINE start == [pc |-> "prepare", command |-> "fetch"]
  <2>1. /\ Run("fetch", start) /\ UNCHANGED <<files, stanc>> /\ "fetch" \in Commands
        /\ start.command = "fetch" /\ start.pc \notin {"dump", "update", "done"}
    BY <1>3 DEF StartFetch, Commands
  <2>2. job' = start => JobFits'
    BY DEF JobFits, FetchPcs
  <2> HIDE DEF start
  <2> QED
    BY <2>1, <2>2, StartedStep
<1>4. ASSUME StartCheck
      PROVE  RefreshInv'
  <2>1. PICK withExternal \in BOOLEAN, compiles \in BOOLEAN :
          Run("corpus", [pc |-> "corpus", command |-> "corpus",
                         external |-> withExternal, compiles |-> compiles])
    BY <1>4 DEF StartCheck
  <2> DEFINE start == [pc |-> "corpus", command |-> "corpus",
                       external |-> withExternal, compiles |-> compiles]
  <2>2. /\ Run("corpus", start) /\ UNCHANGED <<files, stanc>> /\ "corpus" \in Commands
        /\ start.command = "corpus" /\ start.pc \notin {"dump", "update", "done"}
    BY <1>4, <2>1 DEF StartCheck, Commands
  <2>3. job' = start => JobFits'
    BY DEF JobFits
  <2> HIDE DEF start
  <2> QED
    BY <2>2, <2>3, StartedStep
<1> QED
  BY <1>1, <1>2, <1>3, <1>4

LEMMA EndsKeepRefreshInv ==
  ASSUME RefreshInv, Validate \/ CommandFails \/ Finish \/ Interrupt
  PROVE  RefreshInv'
<1>1. UNCHANGED <<files, stanc>>
  BY DEF Validate, CommandFails, Finish, Interrupt
<1>2. Fault \/ \E status \in {"ok", "failed"} : Exit(status)
  BY DEF Validate, CommandFails, Finish, Interrupt
<1> QED
  BY <1>1, <1>2, EndedStep

LEMMA DumpKeepsRefreshInv ==
  ASSUME RefreshInv, AskVersion \/ DumpSignatures
  PROVE  RefreshInv'
<1>1. /\ job \in [pc : {"version", "dump"}, command : {"refresh", "check"}]
      /\ job # Idle /\ UNCHANGED <<files, stanc>>
  BY PcTellsJob DEF RefreshInv, AskVersion, DumpSignatures, JobAtPc, Idle
<1>2. CASE \E status \in {"ok", "failed"} : Exit(status)
  BY <1>1, <1>2, EndedStep
<1>3. CASE AskVersion /\ stanc.version = Version /\ Proceed([job EXCEPT !.pc = "dump"])
  <2> DEFINE next == [job EXCEPT !.pc = "dump"]
  <2>1. next = [pc |-> "dump", command |-> job.command] /\ next.command = job.command
    BY <1>1
  <2> HIDE DEF next
  <2>2. ExitsFit' /\ job' = next
    BY <1>1, <1>3, <2>1, ProceedExits DEF RefreshInv, next
  <2>3. JobFits'
    BY <1>1, <2>1, <2>2 DEF JobFits
  <2> QED
    BY <1>1, <1>3, <2>1, <2>2, <2>3 DEF RefreshInv, FilesFit, CompilerFits, WrittenFits
<1>4. CASE DumpSignatures /\ Proceed([pc |-> "update", command |-> job.command, target |-> 1,
                                     content |-> Rendered])
  <2> DEFINE next == [pc |-> "update", command |-> job.command, target |-> 1,
                      content |-> Rendered]
  <2>1. /\ next.command = job.command /\ next.pc = "update" /\ next.target = 1
        /\ next \in [pc : {"update"}, command : {"refresh", "check"}, target : 1 .. 4,
                     content : {Rendered}]
    BY <1>1
  <2> HIDE DEF next
  <2>2. ExitsFit' /\ job' = next
    BY <1>1, <1>4, <2>1, ProceedExits DEF RefreshInv, next
  <2>3. Rendered' = Rendered
    BY <1>1 DEF Rendered
  <2>4. JobFits'
    BY <2>1, <2>2, <2>3 DEF JobFits
  <2>5. job.pc = "dump" /\ stanc.version = Version
    BY <1>4 DEF DumpSignatures, RefreshInv, CompilerFits
  <2>6. WrittenFits'
    BY <2>1, <2>2 DEF WrittenFits
  <2> QED
    BY <1>1, <2>1, <2>2, <2>4, <2>5, <2>6 DEF RefreshInv, FilesFit, CompilerFits
<1> QED
  BY <1>2, <1>3, <1>4 DEF AskVersion, DumpSignatures, Rendered

(* One turn of update's loop: the target the loop is at is current after it. *)
LEMMA NextTargetKeepsRefreshInv ==
  ASSUME RefreshInv, job.pc = "update", NextTarget, UNCHANGED stanc,
         \/ Current /\ UNCHANGED files
         \/ files' = [files EXCEPT ![Target] = job.content[Target]]
  PROVE  RefreshInv'
<1>1. /\ job \in [pc : {"update"}, command : {"refresh", "check"}, target : 1 .. 4,
                   content : {Rendered}]
      /\ job # Idle /\ job.content = Rendered
  BY PcTellsJob DEF RefreshInv, JobAtPc, Idle
<1>2. /\ Len(Targets) = 4 /\ \A n \in 1 .. 4 : Targets[n] \in CatalogFiles
      /\ \A m, n \in 1 .. 4 : Targets[m] = Targets[n] => m = n
  BY DEF Targets, CatalogFiles
<1>3. /\ DOMAIN files' = DOMAIN files /\ files'.availability = files.availability
      /\ files'[Targets[job.target]] = Rendered[Targets[job.target]]
      /\ \A n \in 1 .. 4 : n # job.target => files'[Targets[n]] = files[Targets[n]]
  <2>1. /\ Target = Targets[job.target] /\ job.target \in 1 .. 4 /\ Target \in CatalogFiles
        /\ Target # "availability"
    BY <1>1, <1>2 DEF Target, CatalogFiles
  <2>2. \A n \in 1 .. 4 : n # job.target => Targets[n] # Target
    BY <1>1, <1>2, <2>1
  <2>3. \A n \in 1 .. 4 : Targets[n] \in DOMAIN files
    BY <1>2 DEF RefreshInv, FilesFit
  <2>4. CASE Current /\ UNCHANGED files
    BY <1>1, <2>1, <2>4 DEF Current
  <2>5. CASE files' = [files EXCEPT ![Target] = job.content[Target]]
    BY <1>1, <2>1, <2>2, <2>3, <2>5 DEF RefreshInv, FilesFit
  <2> QED
    BY <2>4, <2>5
<1>4. Rendered' = Rendered
  BY <1>3 DEF Rendered
<1>5. \A n \in 1 .. 4 : n <= job.target => files'[Targets[n]] = Rendered[Targets[n]]
  <2>1. \A n \in 1 .. 4 : n < job.target => files[Targets[n]] = Rendered[Targets[n]]
    BY DEF RefreshInv, WrittenFits
  <2>2. \A n \in 1 .. 4 : n <= job.target => n < job.target \/ n = job.target
    BY <1>1
  <2>3. \A n \in 1 .. 4 : n < job.target => n # job.target
    BY <1>1
  <2> QED
    BY <1>3, <2>1, <2>2, <2>3
<1>6. FilesFit' /\ CompilerFits'
  BY <1>3 DEF RefreshInv, FilesFit, CompilerFits
<1>7. CASE job.target = 4
  <2> DEFINE next == [pc |-> "done", command |-> job.command]
  <2>1. Proceed(next) /\ next.command = job.command
    BY <1>2, <1>7 DEF NextTarget
  <2>2. ExitsFit' /\ job' = next
    <3> HIDE DEF next
    <3> QED
      BY <1>1, <2>1, ProceedExits DEF RefreshInv
  <2>3. JobFits'
    BY <1>1, <2>2 DEF JobFits
  <2>4. WrittenFits'
    BY <1>4, <1>5, <1>7, <2>2 DEF WrittenFits
  <2> QED
    BY <1>6, <2>2, <2>3, <2>4 DEF RefreshInv
<1>8. CASE job.target # 4
  <2> DEFINE next == [job EXCEPT !.target = @ + 1]
  <2>1. Proceed(next)
    BY <1>2, <1>8 DEF NextTarget
  <2>2. /\ next.command = job.command /\ next.target = job.target + 1 /\ next.pc = "update"
        /\ next \in [pc : {"update"}, command : {"refresh", "check"}, target : 1 .. 4,
                     content : {Rendered}]
    BY <1>1, <1>8
  <2> HIDE DEF next
  <2>3. ExitsFit' /\ job' = next
    BY <1>1, <2>1, <2>2, ProceedExits DEF RefreshInv
  <2>4. JobFits'
    BY <1>4, <2>2, <2>3 DEF JobFits
  <2>5. \A n \in 1 .. 4 : n < next.target => n <= job.target
    BY <1>1, <2>2
  <2>6. WrittenFits'
    BY <1>4, <1>5, <2>2, <2>3, <2>5 DEF WrittenFits
  <2> QED
    BY <1>6, <2>3, <2>4, <2>6 DEF RefreshInv
<1> QED
  BY <1>7, <1>8

LEMMA UpdateKeepsRefreshInv ==
  ASSUME RefreshInv, Update
  PROVE  RefreshInv'
<1>1. job.pc = "update" /\ UNCHANGED stanc
  BY DEF Update
<1>2. CASE SkipCurrent
  BY <1>1, <1>2, NextTargetKeepsRefreshInv DEF SkipCurrent
<1>3. CASE ReportDrift
  BY <1>1, <1>3, EndedStep DEF ReportDrift
<1>4. CASE WriteFile
  BY <1>1, <1>4, NextTargetKeepsRefreshInv DEF WriteFile
<1>5. CASE WriteFails
  <2>1. ExitsFit' /\ job' = Idle
    BY <1>5, FaultExits DEF RefreshInv, WriteFails
  <2>2. DOMAIN files' = DOMAIN files
    BY <1>5 DEF WriteFails
  <2>3. FilesFit' /\ stanc' \in Compilers
    BY <1>1, <2>2 DEF RefreshInv, FilesFit, CompilerFits
  <2> QED
    BY <2>1, <2>3, IdleFits DEF RefreshInv
<1> QED
  BY <1>2, <1>3, <1>4, <1>5 DEF Update

LEMMA CheckedInFits ==
  ASSUME NEW compiler, NEW availability
  PROVE  DOMAIN CheckedIn(compiler, availability) = CatalogFiles \cup {"availability"}
BY DEF CheckedIn, Content, CatalogFiles

LEMMA MaintainerKeepsRefreshInv ==
  ASSUME RefreshInv, InstallCompiler \/ EditAvailability \/ TakeBack \/ Repin \/ Clean
  PROVE  RefreshInv'
<1>1. job' = Idle /\ job = Idle
  BY DEF InstallCompiler, EditAvailability, TakeBack, Repin, Clean
<1>2. stanc' \in Compilers
  BY DEF InstallCompiler, EditAvailability, TakeBack, Repin, Clean, RefreshInv, CompilerFits
<1>3. FilesFit'
  BY CheckedInFits DEF InstallCompiler, EditAvailability, TakeBack, Repin, Clean, RefreshInv,
                       FilesFit
<1>4. ExitsFit'
  BY <1>1 DEF InstallCompiler, EditAvailability, TakeBack, Repin, Clean, RefreshInv, ExitsFit
<1> QED
  BY <1>1, <1>2, <1>3, <1>4, IdleFits DEF RefreshInv

LEMMA CorpusKeepsRefreshInv ==
  ASSUME RefreshInv, CorpusInv,
         Download \/ CompareChecksum \/ ClearExternal \/ Unpack \/ CheckCorpus \/ ReportCorpus
  PROVE  RefreshInv'
<1>1. UNCHANGED <<files, stanc>>
  BY DEF Download, CompareChecksum, ClearExternal, Unpack, CheckCorpus, ReportCorpus
<1>2. CASE Fault \/ \E status \in {"ok", "failed"} : Exit(status)
  BY <1>1, <1>2, EndedStep
<1>3. ASSUME NEW pc \in {"checksum", "clear", "unpack"}, job.pc \in FetchPcs,
             Proceed([job EXCEPT !.pc = pc])
      PROVE  RefreshInv'
  <2> DEFINE next == [job EXCEPT !.pc = pc]
  <2>1. /\ job \in [pc : FetchPcs, command : {"fetch"}] /\ job # Idle
    BY <1>3, PcTellsJob DEF RefreshInv, Idle, FetchPcs
  <2>2. /\ next \in [pc : FetchPcs, command : {"fetch"}] /\ next.pc = pc
        /\ next.command = job.command
    BY <2>1 DEF FetchPcs
  <2> HIDE DEF next
  <2>3. ExitsFit' /\ job' = next
    BY <1>3, <2>1, <2>2, ProceedExits DEF RefreshInv, next
  <2>4. JobFits'
    BY <2>2, <2>3 DEF JobFits
  <2> QED
    BY <1>1, <2>2, <2>3, <2>4, QuietStep
<1>4. ASSUME CheckCorpus,
             Proceed([pc |-> "report", command |-> "corpus", external |-> job.external,
                      compiles |-> job.compiles, models |-> Checked(job.external)])
      PROVE  RefreshInv'
  <2> DEFINE next == [pc |-> "report", command |-> "corpus", external |-> job.external,
                      compiles |-> job.compiles, models |-> Checked(job.external)]
  <2>1. job \in [pc : {"corpus"}, command : {"corpus"}, external : BOOLEAN,
                compiles : BOOLEAN] /\ job # Idle
    BY <1>4, PcTellsJob DEF RefreshInv, Idle, CheckCorpus
  <2>2. Checked(job.external) \in SUBSET (Smoke \cup Pins \X Parts)
    BY DEF Checked, CorpusInv, Directories
  <2>3. /\ next \in [pc : {"report"}, command : {"corpus"}, external : BOOLEAN,
                     compiles : BOOLEAN, models : SUBSET (Smoke \cup Pins \X Parts)]
        /\ next.command = job.command /\ next.pc = "report"
    BY <2>1, <2>2
  <2> HIDE DEF next
  <2>4. ExitsFit' /\ job' = next
    BY <1>4, <2>1, <2>3, ProceedExits DEF RefreshInv, next
  <2>5. JobFits'
    BY <2>3, <2>4 DEF JobFits
  <2> QED
    BY <1>1, <2>3, <2>4, <2>5, QuietStep
<1>5. \/ Fault \/ \E status \in {"ok", "failed"} : Exit(status)
      \/ job.pc \in FetchPcs
         /\ \E pc \in {"checksum", "clear", "unpack"} : Proceed([job EXCEPT !.pc = pc])
      \/ CheckCorpus
         /\ Proceed([pc |-> "report", command |-> "corpus", external |-> job.external,
                     compiles |-> job.compiles, models |-> Checked(job.external)])
  BY DEF Download, CompareChecksum, ClearExternal, Unpack, CheckCorpus, ReportCorpus, FetchPcs
<1> QED
  BY <1>2, <1>3, <1>4, <1>5

LEMMA NextKeepsRefreshInv ==
  ASSUME RefreshInv, CorpusInv, [Next]_vars
  PROVE  RefreshInv'
<1>1. CASE UNCHANGED vars
  BY <1>1 DEF vars, refreshVars, RefreshInv, JobFits, ExitsFit, FilesFit, CompilerFits,
             WrittenFits, Rendered
<1>2. CASE RefreshNext
  BY <1>2, StartsKeepRefreshInv, EndsKeepRefreshInv, DumpKeepsRefreshInv,
     UpdateKeepsRefreshInv, MaintainerKeepsRefreshInv DEF RefreshNext
<1>3. CASE CorpusNext
  BY <1>3, StartsKeepRefreshInv, CorpusKeepsRefreshInv, MaintainerKeepsRefreshInv DEF CorpusNext
<1> QED
  BY <1>1, <1>2, <1>3 DEF Next

(* The commands of RefreshNext leave the last fetch as it ended, but for an   *)
(* interruption of it.                                                       *)
LEMMA RefreshLeavesFetch ==
  ASSUME RefreshInv, RefreshNext
  PROVE  /\ exits'["fetch"] = "ok" => exits["fetch"] = "ok"
         /\ job'.pc \notin {"clear", "unpack", "report"}
<1> DEFINE Goal == /\ exits'["fetch"] = "ok" => exits["fetch"] = "ok"
                   /\ job'.pc \notin {"clear", "unpack", "report"}
<1>1. JobAtPc /\ DOMAIN exits = Commands /\ "fetch" \in Commands /\ Idle.pc = "idle"
  BY PcTellsJob DEF RefreshInv, ExitsFit, Commands, Idle
<1>2. ASSUME NEW command \in Commands, NEW start, command # "fetch", Run(command, start),
             start.pc \notin {"clear", "unpack", "report"}
      PROVE  Goal
  BY <1>1, <1>2 DEF Run, Lasting
<1>3. ASSUME NEW status, status # "ok" \/ job.command # "fetch", Exit(status)
      PROVE  Goal
  BY <1>1, <1>3 DEF Exit
<1>4. ASSUME Fault
      PROVE  Goal
  BY <1>1, <1>4 DEF Fault
<1>5. ASSUME NEW next, Proceed(next), next.pc \notin {"clear", "unpack", "report"}
      PROVE  Goal
  BY <1>5 DEF Proceed
<1>6. ASSUME NEW command \in {"refresh", "check"}, StartRefresh(command)
      PROVE  Goal
  <2> HIDE DEF Goal
  <2>1. Run(command, [pc |-> "version", command |-> command])
    BY <1>6 DEF StartRefresh
  <2> QED
    BY <1>2, <2>1 DEF Commands
<1>7. ASSUME StartValidate
      PROVE  Goal
  <2> HIDE DEF Goal
  <2>1. Run("validate", [pc |-> "validate", command |-> "validate"])
    BY <1>7 DEF StartValidate
  <2> QED
    BY <1>2, <2>1 DEF Commands
<1>8. ASSUME Validate \/ Finish
      PROVE  Goal
  <2>1. job.command # "fetch" /\ \E status : Exit(status)
    BY <1>1, <1>8 DEF Validate, Finish, JobAtPc
  <2> HIDE DEF Goal
  <2> QED
    BY <1>3, <2>1
<1>9. ASSUME AskVersion
      PROVE  Goal
  <2>1. Exit("failed") \/ Proceed([job EXCEPT !.pc = "dump"])
    BY <1>9 DEF AskVersion
  <2>2. [job EXCEPT !.pc = "dump"].pc \notin {"clear", "unpack", "report"}
    BY <1>9, PcTellsJob DEF RefreshInv, AskVersion
  <2> HIDE DEF Goal
  <2> QED
    BY <1>3, <1>5, <2>1, <2>2
<1>10. ASSUME DumpSignatures
       PROVE  Goal
  <2>1. Exit("failed") \/ Proceed([pc |-> "update", command |-> job.command, target |-> 1,
                                   content |-> Rendered])
    BY <1>10 DEF DumpSignatures, Rendered
  <2> HIDE DEF Goal
  <2> QED
    BY <1>3, <1>5, <2>1
<1>11. ASSUME CommandFails \/ Interrupt
       PROVE  Goal
  <2> HIDE DEF Goal
  <2> QED
    BY <1>4, <1>11 DEF CommandFails, Interrupt
<1>12. ASSUME Update
       PROVE  Goal
  <2>1. \/ Exit("failed") \/ Fault \/ Proceed([pc |-> "done", command |-> job.command])
        \/ Proceed([job EXCEPT !.target = @ + 1])
    BY <1>12 DEF Update, SkipCurrent, ReportDrift, WriteFile, WriteFails, NextTarget
  <2>2. [job EXCEPT !.target = @ + 1].pc \notin {"clear", "unpack", "report"}
    BY <1>12, PcTellsJob DEF RefreshInv, Update
  <2> HIDE DEF Goal
  <2> QED
    BY <1>3, <1>4, <1>5, <2>1, <2>2
<1>13. ASSUME InstallCompiler \/ EditAvailability \/ TakeBack
       PROVE  Goal
  BY <1>1, <1>13 DEF InstallCompiler, EditAvailability, TakeBack
<1> HIDE DEF Goal
<1>14. Goal
  BY <1>6, <1>7, <1>8, <1>9, <1>10, <1>11, <1>12, <1>13 DEF RefreshNext
<1> QED
  BY <1>14 DEF Goal

LEMMA DirectoriesClosed ==
  /\ Absent \in Directories
  /\ [exists |-> TRUE, models |-> {}] \in Directories
  /\ \A directory \in Directories :
       /\ directory.models \subseteq Pins \X Parts
       /\ \A models \in SUBSET (Pins \X Parts) :
            /\ [directory EXCEPT !.models = models] \in Directories
            /\ [directory EXCEPT !.models = models].models = models
<1> DEFINE All == SUBSET (Pins \X Parts)
<1>1. {} \in All /\ Directories = [exists : BOOLEAN, models : All]
  BY DEF Directories
<1>2. \A directory \in Directories : directory.models \subseteq Pins \X Parts
  BY DEF Directories
<1> HIDE DEF All
<1>3. /\ Absent \in Directories
      /\ [exists |-> TRUE, models |-> {}] \in Directories
      /\ \A directory \in Directories : \A models \in All :
           /\ [directory EXCEPT !.models = models] \in Directories
           /\ [directory EXCEPT !.models = models].models = models
  BY <1>1 DEF Absent
<1> QED
  BY <1>2, <1>3 DEF All

(* A fetch unpacks the archive it has compared to an empty directory, and     *)
(* what it unpacks is of the pin while its success is on record.             *)
LEMMA NextKeepsCorpusInv ==
  ASSUME RefreshInv, CorpusInv, [Next]_vars
  PROVE  CorpusInv'
<1> USE DEF CorpusInv
<1>1. /\ JobAtPc /\ DOMAIN exits = Commands /\ "fetch" \in Commands /\ Idle.pc = "idle"
      /\ job # Idle => exits[job.command] = "running"
  BY PcTellsJob DEF RefreshInv, ExitsFit, Commands, Idle
<1>2. job.pc \in FetchPcs => job.command = "fetch" /\ exits["fetch"] = "running"
  BY <1>1 DEF JobAtPc, Idle, FetchPcs
<1>3. CASE UNCHANGED vars
  BY <1>3 DEF vars, refreshVars, corpusVars, Checked
<1>4. CASE RefreshNext /\ UNCHANGED corpusVars
  BY <1>4, RefreshLeavesFetch DEF corpusVars
<1>5. CASE StartFetch
  <2>1. exits'["fetch"] # "ok" /\ job'.pc \in {"prepare", "idle"} /\ UNCHANGED corpusVars
    BY <1>1, <1>5 DEF StartFetch, Run
  <2> QED
    BY <2>1 DEF corpusVars
<1>6. CASE Download
  <2>1. job \in [pc : FetchPcs, command : {"fetch"}] /\ job.command = "fetch"
        /\ exits["fetch"] = "running"
    BY <1>2, <1>6, PcTellsJob DEF Download, FetchPcs, RefreshInv
  <2>2. exits'["fetch"] # "ok" /\ job'.pc \in {"checksum", "idle"}
    BY <1>1, <1>6, <2>1 DEF Download, Proceed, Fault
  <2> QED
    BY <1>6, <2>2 DEF Download
<1>7. CASE CompareChecksum
  <2>1. job \in [pc : FetchPcs, command : {"fetch"}] /\ job.command = "fetch"
        /\ exits["fetch"] = "running"
    BY <1>2, <1>7, PcTellsJob DEF CompareChecksum, FetchPcs, RefreshInv
  <2>2. /\ exits'["fetch"] # "ok"
        /\ \/ job'.pc = "idle"
           \/ job'.pc = "clear" /\ archive = pin
    BY <1>1, <1>7, <2>1 DEF CompareChecksum, Proceed, Fault, Exit
  <2> QED
    BY <1>7, <2>2 DEF CompareChecksum, corpusVars
<1>8. CASE ClearExternal
  <2>1. job \in [pc : FetchPcs, command : {"fetch"}] /\ job.command = "fetch"
        /\ exits["fetch"] = "running" /\ job.pc = "clear"
    BY <1>2, <1>8, PcTellsJob DEF ClearExternal, FetchPcs, RefreshInv
  <2>2. external' \in Directories
    <3>1. \A left \in SUBSET external.models : left \in SUBSET (Pins \X Parts)
      BY DirectoriesClosed
    <3>2. \A left \in SUBSET external.models :
            [external EXCEPT !.models = left] \in Directories
      BY <3>1, DirectoriesClosed
    <3>3. \/ external' = [exists |-> TRUE, models |-> {}] \/ external' = Absent
          \/ \E left \in SUBSET external.models : external' = [external EXCEPT !.models = left]
      BY <1>8, Zenon DEF ClearExternal
    <3> QED
      BY <3>2, <3>3, DirectoriesClosed
  <2>3. /\ exits'["fetch"] # "ok"
        /\ \/ job'.pc = "idle"
           \/ job'.pc = "unpack" /\ external'.models = {}
    BY <1>1, <1>8, <2>1 DEF ClearExternal, Proceed, Fault
  <2> QED
    BY <1>8, <2>1, <2>2, <2>3 DEF ClearExternal
<1>9. CASE Unpack
  <2>1. job.command = "fetch" /\ exits["fetch"] = "running" /\ job.pc = "unpack"
    BY <1>2, <1>9 DEF Unpack, FetchPcs
  <2>2. archive = pin /\ external.models = {} /\ ModelsOf(pin) \subseteq Pins \X Parts
    BY <2>1 DEF ModelsOf
  <2>3. job'.pc = "idle"
    BY <1>1, <1>9 DEF Unpack, Exit, Fault
  <2>4. \A some \in SUBSET ModelsOf(pin) :
          /\ some \in SUBSET (Pins \X Parts) /\ external.models \cup some = some
          /\ [external EXCEPT !.models = some] \in Directories
          /\ [external EXCEPT !.models = some].models = some
    BY <2>2, DirectoriesClosed
  <2>5. \E some \in SUBSET ModelsOf(pin) :
          /\ external' = [external EXCEPT !.models = some]
          /\ some = ModelsOf(pin) \/ Fault
    BY <1>9, <2>2, <2>4 DEF Unpack
  <2>6. Fault => exits'["fetch"] # "ok"
    BY <1>1, <2>1 DEF Fault
  <2> QED
    BY <1>9, <2>3, <2>4, <2>5, <2>6 DEF Unpack
<1>10. CASE StartCheck
  <2>1. exits'["fetch"] = exits["fetch"] /\ job'.pc \in {"corpus", "idle"}
        /\ UNCHANGED corpusVars
    BY <1>1, <1>10 DEF StartCheck, Run, Lasting
  <2> QED
    BY <2>1 DEF corpusVars
<1>11. CASE CheckCorpus
  <2>1. job.command = "corpus" /\ UNCHANGED corpusVars
    BY <1>1, <1>11 DEF CheckCorpus, JobAtPc
  <2>2. /\ exits'["fetch"] = exits["fetch"]
        /\ \/ job'.pc = "idle"
           \/ job'.pc = "report" /\ job'.models = Checked(job'.external)
    BY <1>1, <1>11, <2>1 DEF CheckCorpus, Proceed, Exit, Fault
  <2> QED
    BY <2>1, <2>2 DEF corpusVars, Checked
<1>12. CASE ReportCorpus
  <2>1. job.command = "corpus" /\ UNCHANGED corpusVars
    BY <1>1, <1>12 DEF ReportCorpus, JobAtPc
  <2>2. exits'["fetch"] = exits["fetch"] /\ job'.pc = "idle"
    BY <1>1, <1>12, <2>1 DEF ReportCorpus, Exit, Fault
  <2> QED
    BY <2>1, <2>2 DEF corpusVars
<1>13. CASE Repin \/ Clean
  <2>1. exits'["fetch"] # "ok" /\ job' = Idle
    BY <1>1, <1>13 DEF Repin, Clean
  <2>2. external' \in Directories /\ pin' \in Pins
    BY <1>13, DirectoriesClosed DEF Repin, Clean
  <2> QED
    BY <1>1, <2>1, <2>2
<1> QED
  BY <1>3, <1>4, <1>5, <1>6, <1>7, <1>8, <1>9, <1>10, <1>11, <1>12, <1>13
     DEF Next, CorpusNext

LEMMA InitFits == Init => RefreshInv /\ CorpusInv
<1> SUFFICES ASSUME Init
             PROVE  RefreshInv /\ CorpusInv
  OBVIOUS
<1>1. RefreshInv
  BY CheckedInFits DEF Init, RefreshInit, RefreshInv, JobFits, ExitsFit, FilesFit, CompilerFits,
     WrittenFits, Idle
<1>2. CorpusInv
  BY DirectoriesClosed DEF Init, RefreshInit, CorpusInit, CorpusInv, Idle, Commands
<1> QED
  BY <1>1, <1>2

LEMMA InvariantHolds == Spec => [](RefreshInv /\ CorpusInv)
<1>1. Init => RefreshInv /\ CorpusInv
  BY InitFits
<1>2. (RefreshInv /\ CorpusInv) /\ [Next]_vars => (RefreshInv /\ CorpusInv)'
  BY NextKeepsRefreshInv, NextKeepsCorpusInv
<1> QED
  BY <1>1, <1>2, PTL DEF Spec

-----------------------------------------------------------------------------
(* When a refresh or a check comes to its end, the crates build, and the      *)
(* catalog they embed validates and displays what the compiler dumps, of any  *)
(* compiler and availability file, whatever was on disk before, however       *)
(* often a write failed and wherever a command was interrupted: when each     *)
(* line alone parses and is displayed as it is written, which is for TLC.     *)
LEMMA DoneIsDumped ==
  ASSUME LinesAreNotation, RefreshInv
  PROVE  RefreshedIsDumped
<1> SUFFICES ASSUME job.pc = "done"
             PROVE  /\ Builds
                    /\ Loaded(EmbeddedCatalog, LAMBDA catalog :
                         HasOverloads(catalog)
                         /\ HoldsTheDump(catalog, files.distributions.kinds, stanc.dump))
  BY DEF RefreshedIsDumped
<1>1. /\ files.signatures = Rendered.signatures /\ files.special = Rendered.special
      /\ files.functions = Rendered.functions /\ files.distributions = Rendered.distributions
  <2>1. \A n \in 1 .. 4 : files[Targets[n]] = Rendered[Targets[n]]
    BY DEF RefreshInv, WrittenFits
  <2> QED
    BY <2>1 DEF Targets
<1>2. Synthesized(stanc.dump) \subseteq ToSet(LineOrder)
  BY CatalogAssumption DEF RefreshInv, CompilerFits
<1>3. /\ files.functions.whole /\ files.distributions.whole
      /\ \E catalog :
           /\ ParseCatalog(files.signatures, files.special,
                           DOMAIN files.functions.lifecycles) = Value(catalog)
           /\ \A name \in DOMAIN catalog :
                IsAvailable(files.functions.lifecycles[name]) =>
                  catalog[name].concrete # <<>> \/ catalog[name].variadic # <<>>
           /\ HoldsTheDump(catalog, files.distributions.kinds, stanc.dump)
  BY <1>1, <1>2, ContentIsDumped DEF Rendered
<1>4. PICK catalog :
        /\ EmbeddedCatalog = Value(catalog)
        /\ HasOverloads(catalog)
        /\ HoldsTheDump(catalog, files.distributions.kinds, stanc.dump)
  BY <1>3 DEF EmbeddedCatalog, HasOverloads
<1>5. IsValue(EmbeddedCatalog) /\ EmbeddedCatalog.value = catalog
  BY <1>4 DEF IsValue, Value
<1> QED
  BY <1>3, <1>4, <1>5 DEF Builds, Loaded

THEOREM RefreshedDisplaysTheDump ==
  ASSUME LinesAreNotation
  PROVE  Spec => []RefreshedIsDumped
<1>1. RefreshInv /\ CorpusInv => RefreshedIsDumped
  BY DoneIsDumped
<1> QED
  BY <1>1, InvariantHolds, PTL

(* A check writes nothing, and succeeds only when every file is what a        *)
(* refresh would write: of any files, compiler and availability file.        *)
ComparesOnly ==
  job # Idle /\ job.command = "check" =>
    /\ files' = files
    /\ exits'["check"] = "ok" =>
         LET content == Content(stanc.dump, files.availability)
         IN \A target \in DOMAIN content : files[target] = content[target]

LEMMA CheckStepCompares ==
  ASSUME RefreshInv, CorpusInv, [Next]_vars
  PROVE  ComparesOnly
<1> SUFFICES ASSUME job # Idle, job.command = "check"
             PROVE  /\ files' = files
                    /\ exits'["check"] = "ok" =>
                         \A target \in CatalogFiles : files[target] = Rendered[target]
  BY DEF ComparesOnly, Rendered, Content, CatalogFiles
<1>1. /\ JobAtPc /\ job.pc \in {"version", "dump", "update", "done"}
      /\ exits["check"] = "running" /\ DOMAIN exits = Commands /\ "check" \in Commands
  <2>1. JobAtPc /\ exits["check"] = "running" /\ DOMAIN exits = Commands /\ "check" \in Commands
    BY PcTellsJob DEF RefreshInv, ExitsFit, Commands
  <2>2. job.pc \in {"version", "dump", "update", "done"}
    BY DEF RefreshInv, JobFits, FetchPcs
  <2> QED
    BY <2>1, <2>2
<1>2. CASE UNCHANGED vars
  BY <1>1, <1>2 DEF vars, refreshVars
<1>3. CASE AskVersion \/ DumpSignatures
  BY <1>1, <1>3 DEF AskVersion, DumpSignatures, Proceed, Exit
<1>4. CASE CommandFails \/ Interrupt
  BY <1>1, <1>4 DEF CommandFails, Interrupt, Fault
<1>5. CASE Update
  BY <1>1, <1>5 DEF Update, SkipCurrent, ReportDrift, WriteFile, WriteFails, NextTarget,
                   Proceed, Exit
<1>6. CASE Finish
  <2>1. \A n \in 1 .. 4 : files[Targets[n]] = Rendered[Targets[n]]
    BY <1>6 DEF Finish, RefreshInv, WrittenFits
  <2>2. \A target \in CatalogFiles : files[target] = Rendered[target]
    BY <2>1 DEF CatalogFiles, Targets
  <2> QED
    BY <1>6, <2>2 DEF Finish
<1>7. ~Validate /\ ~CorpusNext
  BY <1>1 DEF Validate, CorpusNext, StartFetch, Run, Download, CompareChecksum, ClearExternal,
              Unpack, StartCheck, CheckCorpus, ReportCorpus, Repin, Clean
<1>8. /\ \A command \in {"refresh", "check"} : ~StartRefresh(command)
      /\ ~StartValidate /\ ~InstallCompiler /\ ~EditAvailability /\ ~TakeBack
  BY DEF StartRefresh, StartValidate, Run, InstallCompiler, EditAvailability, TakeBack
<1> QED
  BY <1>2, <1>3, <1>4, <1>5, <1>6, <1>7, <1>8 DEF Next, RefreshNext

THEOREM ChecksCompareAlone == Spec => ChecksOnlyCompare
<1>1. RefreshInv /\ CorpusInv /\ [Next]_vars => [ComparesOnly]_vars
  BY CheckStepCompares
<1>2. ComparesOnly <=>
        (job # Idle /\ job.command = "check" =>
           /\ files' = files
           /\ exits'["check"] = "ok" =>
                LET content == Content(stanc.dump, files.availability)
                IN \A target \in DOMAIN content : files[target] = content[target])
  BY DEF ComparesOnly
<1> QED
  BY <1>1, <1>2, InvariantHolds, PTL DEF Spec, ChecksOnlyCompare

(* A gate over the external corpus that passes has tried the pinned models    *)
(* alone, of any corpus and manifest: the archive was compared to the pin,   *)
(* and nothing of another fetch was left where it was unpacked.              *)
TriesThePin ==
  /\ job # Idle /\ job.command = "corpus"
  /\ exits'["corpus"] = "ok" /\ job.external /\ exits["fetch"] = "ok"
  => /\ job.models = Smoke \cup ModelsOf(pin)
     /\ \A model \in job.models :
          Behaviour[model] \cap {"analysis panics", "formatter panics"} = {}

LEMMA GateStepTriesThePin ==
  ASSUME RefreshInv, CorpusInv, [Next]_vars
  PROVE  TriesThePin
<1> SUFFICES ASSUME job # Idle, job.command = "corpus", exits'["corpus"] = "ok",
                    job.external, exits["fetch"] = "ok"
             PROVE  /\ job.models = Smoke \cup ModelsOf(pin)
                    /\ \A model \in job.models :
                         Behaviour[model] \cap {"analysis panics", "formatter panics"} = {}
  BY DEF TriesThePin
<1>1. /\ JobAtPc /\ exits["corpus"] = "running" /\ DOMAIN exits = Commands
      /\ "corpus" \in Commands
  BY PcTellsJob DEF RefreshInv, ExitsFit, Commands
<1>2. job.pc \in {"corpus", "report"}
  BY DEF RefreshInv, JobFits, FetchPcs
<1>3. ~UNCHANGED vars
  BY <1>1 DEF vars, refreshVars
<1>4. ~RefreshNext
  <2>1. ~Interrupt /\ ~CommandFails
    BY <1>1 DEF Interrupt, CommandFails, Fault
  <2> QED
    BY <1>2, <2>1 DEF RefreshNext, StartRefresh, StartValidate, Run, Validate, AskVersion,
       DumpSignatures, Update, Finish, InstallCompiler, EditAvailability, TakeBack
<1>5. CorpusNext
  BY <1>3, <1>4 DEF Next
<1>6. ~CheckCorpus
  BY <1>1 DEF CheckCorpus, Proceed, Exit, Fault
<1>7. ReportCorpus
  BY <1>2, <1>5, <1>6 DEF CorpusNext, StartFetch, StartCheck, Run, Download, CompareChecksum,
     ClearExternal, Unpack, Repin, Clean
<1>8. job.pc = "report" /\ Passes(job.models, job.compiles)
  BY <1>1, <1>7 DEF ReportCorpus, Exit, Fault
<1>9. job.models = Smoke \cup ModelsOf(pin)
  BY <1>8 DEF CorpusInv, Checked
<1>10. \A model \in job.models :
         Behaviour[model] \cap {"analysis panics", "formatter panics"} = {}
  BY <1>8 DEF Passes, Failures
<1> QED
  BY <1>9, <1>10

THEOREM GatesTryThePin == Spec => PassedGatesTriedThePin
<1>1. RefreshInv /\ CorpusInv /\ [Next]_vars => [TriesThePin]_vars
  BY GateStepTriesThePin
<1>2. TriesThePin <=>
        (/\ job # Idle /\ job.command = "corpus"
         /\ exits'["corpus"] = "ok" /\ job.external /\ exits["fetch"] = "ok"
         => /\ job.models = Smoke \cup ModelsOf(pin)
            /\ \A model \in job.models :
                 Behaviour[model] \cap {"analysis panics", "formatter panics"} = {})
  BY DEF TriesThePin
<1> QED
  BY <1>1, <1>2, InvariantHolds, PTL DEF Spec, PassedGatesTriedThePin
=============================================================================
