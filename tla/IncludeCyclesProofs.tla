-------------------------- MODULE IncludeCyclesProofs --------------------------
(***************************************************************************)
(* Proofs about IncludeCycles, for every finite or infinite set of paths   *)
(* and every include graph.                                                *)
(*                                                                         *)
(* The argument that silence means acyclic is the classic one of           *)
(* depth-first search: while no cycle has been reported, the files the     *)
(* walk has finished with include only files it has finished with, and no  *)
(* set of them is entangled.  A file joins them when its frame is popped,  *)
(* and by then each of its includes is one of them.                        *)
(***************************************************************************)
EXTENDS IncludeCycles, SequenceTheorems, TLAPS

(* Files the walk has entered and left. *)
Closed == visited \ OnStack

(* A frame's call came from the dependency before the one its caller's loop *)
(* has moved to.                                                            *)
Chained ==
  \A i \in 1 .. Depth - 1 :
    /\ frames[i].next - 1 \in DOMAIN dependencies[frames[i].path]
    /\ frames[i + 1].path = dependencies[frames[i].path][frames[i].next - 1]

StackIsDistinct ==
  \A i, j \in 1 .. Depth : frames[i].path = frames[j].path => i = j

StackIsVisited == OnStack \subseteq visited

(* No file with includes is forgotten. *)
RootsRemain ==
  \A p \in Paths :
    dependencies[p] # <<>> => p \in visited \/ \E i \in 1 .. Len(roots) : roots[i] = p

ClosedIncludesClosed == \A p \in Closed : Successors(p) \subseteq Closed

(* The loop of a frame has dealt with the dependencies before `next`, but   *)
(* for the one whose call is the frame above.                               *)
LoopsAreDone ==
  \A i \in 1 .. Depth : \A k \in DOMAIN dependencies[frames[i].path] :
    k < frames[i].next =>
      \/ dependencies[frames[i].path][k] \in Closed
      \/ i < Depth /\ k = frames[i].next - 1

ClosedIsAcyclic == \A C \in SUBSET Closed : ~Entangled(C)

Silent == cycles = <<>> => ClosedIncludesClosed /\ LoopsAreDone /\ ClosedIsAcyclic

Walk == Chained /\ StackIsDistinct /\ StackIsVisited /\ RootsRemain

IInv == TypeOK /\ Walk /\ ReportedCyclesAreReal /\ Silent

-----------------------------------------------------------------------------
(* What the three changes of the stack do to it. *)

LEMMA TopOfStack ==
  ASSUME TypeOK, frames # <<>>
  PROVE  /\ Depth \in Nat \ {0}
         /\ Top \in Frame
         /\ DOMAIN frames = 1 .. Depth
         /\ Top.path \in OnStack
BY LenProperties, ElementOfSeq, EmptySeq DEF TypeOK, Depth, Top, OnStack

LEMMA FrameAt ==
  ASSUME TypeOK, NEW i \in 1 .. Depth
  PROVE  frames[i] \in Frame /\ frames[i].path \in Paths /\ frames[i].next \in Nat \ {0}
<1>1. frames[i] \in Frame
  BY ElementOfSeq DEF TypeOK, Depth
<1> QED
  BY <1>1 DEF Frame

LEMMA Advancing ==
  ASSUME TypeOK, frames # <<>>
  PROVE  /\ Advance \in Seq(Frame)
         /\ Len(Advance) = Depth
         /\ \A i \in 1 .. Depth :
              /\ Advance[i].path = frames[i].path
              /\ Advance[i].next = IF i = Depth THEN frames[i].next + 1 ELSE frames[i].next
<1> DEFINE top == [Top EXCEPT !.next = @ + 1]
<1>1. top \in Frame /\ top.path = Top.path /\ top.next = Top.next + 1
  BY TopOfStack DEF Frame
<1>2. Advance = [frames EXCEPT ![Depth] = top]
  BY DEF Advance, Top
<1>3. Depth \in 1 .. Len(frames) /\ frames \in Seq(Frame)
  BY TopOfStack DEF Depth, TypeOK
<1> HIDE DEF top
<1> QED
  BY <1>1, <1>2, <1>3, ExceptSeq DEF Depth, Top

LEMMA Pushing ==
  ASSUME NEW rest \in Seq(Frame), NEW path \in Paths
  PROVE  LET pushed == Append(rest, [path |-> path, next |-> 1])
         IN  /\ pushed \in Seq(Frame)
             /\ Len(pushed) = Len(rest) + 1
             /\ \A i \in 1 .. Len(rest) : pushed[i] = rest[i]
             /\ pushed[Len(rest) + 1].path = path
             /\ pushed[Len(rest) + 1].next = 1
<1>1. [path |-> path, next |-> 1] \in Frame
  BY DEF Frame
<1> QED
  BY <1>1, AppendProperties

LEMMA Popping ==
  ASSUME TypeOK, frames # <<>>
  PROVE  LET popped == SubSeq(frames, 1, Depth - 1)
         IN  /\ popped \in Seq(Frame)
             /\ Len(popped) = Depth - 1
             /\ \A i \in 1 .. Depth - 1 : popped[i] = frames[i]
<1>1. Depth \in Nat \ {0} /\ \A i \in 1 .. Depth - 1 : frames[i] \in Frame
  BY TopOfStack, FrameAt
<1> QED
  BY <1>1, SubSeqProperties DEF TypeOK

-----------------------------------------------------------------------------
(* Where the walk meets a file of its stack again. *)

LEMMA PositionOnStack ==
  ASSUME TypeOK, NEW path \in OnStack
  PROVE  Position(path) \in 1 .. Depth /\ frames[Position(path)].path = path
<1>1. DOMAIN frames = 1 .. Depth
  BY LenProperties DEF TypeOK, Depth
<1>2. \E i \in DOMAIN frames : frames[i].path = path
  BY DEF OnStack
<1> QED
  BY <1>1, <1>2 DEF Position

LEMMA StackFromShape ==
  ASSUME TypeOK, NEW path \in OnStack
  PROVE  LET n == Depth - Position(path) + 1
         IN  /\ n \in Nat \ {0}
             /\ StackFrom(path) \in [1 .. n -> Paths]
             /\ StackFrom(path) \in Seq(Paths)
             /\ Len(StackFrom(path)) = n
             /\ \A i \in 1 .. n :
                  StackFrom(path)[i] = frames[Position(path) + i - 1].path
<1> DEFINE n == Depth - Position(path) + 1
<1>1. Depth \in Nat /\ Position(path) \in 1 .. Depth
  BY PositionOnStack, LenProperties DEF TypeOK, Depth
<1>2. n \in Nat \ {0} /\ \A i \in 1 .. n : Position(path) + i - 1 \in 1 .. Depth
  BY <1>1
<1>3. StackFrom(path) \in [1 .. n -> Paths]
  BY <1>2, FrameAt DEF StackFrom
<1>4. StackFrom(path) \in Seq(Paths)
  BY <1>2, <1>3, SeqDef
<1>5. Len(StackFrom(path)) = n
  BY <1>2, <1>3, <1>4, LenProperties
<1> QED
  BY <1>2, <1>3, <1>4, <1>5 DEF StackFrom

-----------------------------------------------------------------------------
(* What each step of the walk does, case by case. *)

Included == dependencies[Top.path][Top.next]

LEMMA IncludedIsPath ==
  ASSUME TypeOK, VisitDependency
  PROVE  /\ frames # <<>> /\ Top.path \in Paths
         /\ Top.next \in DOMAIN dependencies[Top.path]
         /\ Included \in Paths /\ Included \in Successors(Top.path)
         /\ FindCycles(Included, Advance)
         /\ UNCHANGED <<dependencies, roots>>
<1>1. frames # <<>> /\ Top \in Frame
  BY TopOfStack DEF VisitDependency
<1>2. Top.path \in Paths /\ dependencies[Top.path] \in Seq(Paths)
  BY <1>1 DEF Frame, TypeOK
<1>3. Top.next \in DOMAIN dependencies[Top.path]
  BY DEF VisitDependency
<1>4. Top.next \in 1 .. Len(dependencies[Top.path])
  BY <1>2, <1>3, LenProperties
<1> QED
  BY <1>1, <1>2, <1>3, <1>4, ElementOfSeq DEF Included, Successors, VisitDependency

(* The loop moves on and nothing is pushed: a cycle, or a file seen before. *)
LEMMA LoopMovesOn ==
  ASSUME TypeOK, frames # <<>>, frames' = Advance
  PROVE  /\ frames' \in Seq(Frame)
         /\ Depth' = Depth
         /\ OnStack' = OnStack
         /\ \A i \in 1 .. Depth :
              /\ frames'[i].path = frames[i].path
              /\ frames'[i].next = IF i = Depth THEN frames[i].next + 1
                                                ELSE frames[i].next
<1>1. DOMAIN frames = 1 .. Depth /\ DOMAIN frames' = 1 .. Depth
  BY TopOfStack, Advancing, LenProperties
<1>2. \A i \in 1 .. Depth : frames'[i].path = frames[i].path
  BY Advancing
<1>3. OnStack' = OnStack
  BY <1>1, <1>2 DEF OnStack
<1> QED
  BY <1>3, Advancing DEF Depth

(* The loop moves on and the included file is pushed. *)
LEMMA LoopDescends ==
  ASSUME TypeOK, VisitDependency, Descend(Included, Advance)
  PROVE  /\ frames' \in Seq(Frame)
         /\ Depth' = Depth + 1
         /\ OnStack' = OnStack \cup {Included}
         /\ visited' = visited \cup {Included}
         /\ \A i \in 1 .. Depth :
              /\ frames'[i].path = frames[i].path
              /\ frames'[i].next = IF i = Depth THEN frames[i].next + 1
                                                ELSE frames[i].next
         /\ frames'[Depth + 1].path = Included
         /\ frames'[Depth + 1].next = 1
<1>1. Advance \in Seq(Frame) /\ Len(Advance) = Depth /\ Included \in Paths
      /\ Depth \in Nat \ {0} /\ DOMAIN frames = 1 .. Depth
  BY IncludedIsPath, Advancing, TopOfStack
<1>2. /\ frames' \in Seq(Frame) /\ Len(frames') = Depth + 1
      /\ \A i \in 1 .. Depth : frames'[i] = Advance[i]
      /\ frames'[Depth + 1].path = Included
      /\ frames'[Depth + 1].next = 1
  BY <1>1, Pushing DEF Descend
<1>3. \A i \in 1 .. Depth :
        /\ frames'[i].path = frames[i].path
        /\ frames'[i].next = IF i = Depth THEN frames[i].next + 1 ELSE frames[i].next
  BY <1>1, <1>2, Advancing, IncludedIsPath
<1>4. DOMAIN frames' = 1 .. Depth + 1
  BY <1>2, LenProperties
<1>5. OnStack' = OnStack \cup {Included}
  BY <1>1, <1>2, <1>3, <1>4 DEF OnStack
<1> QED
  BY <1>2, <1>3, <1>5 DEF Descend, Depth

(* A root is pushed on the empty stack, or was visited already. *)
LEMMA RootStep ==
  ASSUME TypeOK, VisitRoot
  PROVE  /\ OnStack = {} /\ Depth = 0 /\ Head(roots) \in Paths
         /\ roots' \in Seq(Paths)
         /\ \A i \in 1 .. Len(roots) :
              roots[i] = Head(roots) \/ \E j \in 1 .. Len(roots') : roots'[j] = roots[i]
         /\ UNCHANGED <<dependencies, cycles>>
         /\ \/ /\ Head(roots) \in visited
               /\ UNCHANGED <<frames, visited>>
            \/ /\ Head(roots) \notin visited
               /\ visited' = visited \cup {Head(roots)}
               /\ frames' \in Seq(Frame) /\ Depth' = 1
               /\ OnStack' = {Head(roots)}
               /\ frames'[1].path = Head(roots) /\ frames'[1].next = 1
<1>1. OnStack = {} /\ Depth = 0 /\ frames \in Seq(Frame)
  BY EmptySeq DEF VisitRoot, OnStack, Depth, TypeOK
<1>2. Head(roots) \in Paths /\ roots' \in Seq(Paths) /\ Len(roots') = Len(roots) - 1
      /\ \A i \in 1 .. Len(roots') : roots'[i] = roots[i + 1]
  BY HeadTailProperties DEF VisitRoot, TypeOK
<1>3. Len(roots) \in Nat
  BY LenProperties DEF TypeOK
<1>4. \A i \in 1 .. Len(roots) :
        roots[i] = Head(roots) \/ \E j \in 1 .. Len(roots') : roots'[j] = roots[i]
  <2> TAKE i \in 1 .. Len(roots)
  <2>1. CASE i = 1
    BY <2>1 DEF VisitRoot, TypeOK
  <2>2. CASE i # 1
    <3>1. i - 1 \in 1 .. Len(roots') /\ roots'[i - 1] = roots[i]
      BY <1>2, <1>3, <2>2
    <3> QED
      BY <3>1
  <2> QED
    BY <2>1, <2>2
<1>5. CASE SkipVisited(Head(roots), frames)
  BY <1>1, <1>2, <1>4, <1>5 DEF SkipVisited, VisitRoot
<1>6. CASE Descend(Head(roots), frames)
  <2>1. frames' \in Seq(Frame) /\ Len(frames') = 1
        /\ frames'[1].path = Head(roots) /\ frames'[1].next = 1
    <3>1. Len(frames) = 0 /\ frames \in Seq(Frame)
      BY <1>1 DEF Depth
    <3>2. frames' = Append(frames, [path |-> Head(roots), next |-> 1])
      BY <1>6 DEF Descend
    <3>3. /\ frames' \in Seq(Frame) /\ Len(frames') = Len(frames) + 1
          /\ frames'[Len(frames) + 1].path = Head(roots)
          /\ frames'[Len(frames) + 1].next = 1
      BY <1>2, <3>1, <3>2, Pushing
    <3> QED
      BY <3>1, <3>3
  <2>2. OnStack' = {Head(roots)}
    BY <2>1, LenProperties DEF OnStack
  <2> QED
    BY <1>1, <1>2, <1>4, <1>6, <2>1, <2>2 DEF Descend, VisitRoot, Depth
<1> QED
  BY <1>1, <1>5, <1>6 DEF VisitRoot, FindCycles, CloseCycle

(* The innermost call returns. *)
LEMMA ReturnStep ==
  ASSUME TypeOK, Return, StackIsDistinct
  PROVE  /\ frames # <<>> /\ Depth \in Nat \ {0}
         /\ frames' \in Seq(Frame) /\ Depth' = Depth - 1
         /\ \A i \in 1 .. Depth - 1 : frames'[i] = frames[i]
         /\ OnStack' = OnStack \ {Top.path} /\ Top.path \in OnStack
         /\ UNCHANGED <<dependencies, roots, visited, cycles>>
<1>1. frames # <<>> /\ Depth \in Nat \ {0} /\ DOMAIN frames = 1 .. Depth
      /\ Top.path \in OnStack
  BY TopOfStack DEF Return
<1>2. /\ frames' \in Seq(Frame) /\ Len(frames') = Depth - 1
      /\ \A i \in 1 .. Depth - 1 : frames'[i] = frames[i]
  BY <1>1, Popping DEF Return
<1>3. DOMAIN frames' = 1 .. Depth - 1
  BY <1>2, LenProperties
<1>4. OnStack' = OnStack \ {Top.path}
  <2>1. \A i \in 1 .. Depth - 1 : frames[i].path # Top.path
    BY <1>1 DEF StackIsDistinct, Top
  <2>2. \A i \in 1 .. Depth : i \in 1 .. Depth - 1 \/ frames[i].path = Top.path
    BY <1>1 DEF Top
  <2> QED
    BY <1>1, <1>2, <1>3, <2>1, <2>2 DEF OnStack
<1> QED
  BY <1>1, <1>2, <1>4 DEF Return, Depth

-----------------------------------------------------------------------------
LEMMA InitIInv == Init => IInv
<1> SUFFICES ASSUME Init PROVE IInv
  OBVIOUS
<1>1. TypeOK /\ Depth = 0 /\ OnStack = {} /\ Closed = {} /\ Len(cycles) = 0
  BY IndexesAssumption, EmptySeq DEF Init, TypeOK, Depth, OnStack, Closed
<1>2. RootsRemain
  <2>1. PICK x \in Indexes : dependencies = x.dependencies /\ roots = x.keys
    BY DEF Init
  <2>2. DOMAIN roots = 1 .. Len(roots)
    BY <1>1, LenProperties DEF TypeOK
  <2> QED
    BY <2>1, <2>2, IndexesAssumption DEF RootsRemain
<1>3. Chained /\ StackIsDistinct /\ StackIsVisited
  BY <1>1 DEF Chained, StackIsDistinct, StackIsVisited
<1>4. ReportedCyclesAreReal
  BY DEF Init, ReportedCyclesAreReal
<1>5. Silent
  BY <1>1 DEF Silent, ClosedIncludesClosed, LoopsAreDone, ClosedIsAcyclic, Entangled
<1> QED
  BY <1>1, <1>2, <1>3, <1>4, <1>5 DEF IInv, Walk

LEMMA TypeStep ==
  ASSUME TypeOK, StackIsDistinct, Next
  PROVE  TypeOK'
<1>1. CASE VisitRoot
  BY <1>1, RootStep DEF TypeOK
<1>2. CASE VisitDependency
  <2>1. /\ FindCycles(Included, Advance) /\ Included \in Paths
        /\ UNCHANGED <<dependencies, roots>>
    BY <1>2, IncludedIsPath
  <2>2. CASE CloseCycle(Included, Advance)
    <3>1. cycles' \in Seq(Seq(Paths))
      BY <2>2, StackFromShape, AppendProperties DEF CloseCycle, TypeOK
    <3> QED
      BY <1>2, <2>1, <2>2, <3>1, IncludedIsPath, LoopMovesOn DEF CloseCycle, TypeOK
  <2>3. CASE SkipVisited(Included, Advance)
    BY <1>2, <2>1, <2>3, IncludedIsPath, LoopMovesOn DEF SkipVisited, TypeOK
  <2>4. CASE Descend(Included, Advance)
    BY <1>2, <2>1, <2>4, LoopDescends DEF Descend, TypeOK
  <2> QED
    BY <2>1, <2>2, <2>3, <2>4 DEF FindCycles
<1>3. CASE Return
  BY <1>3, ReturnStep DEF TypeOK
<1>4. CASE Finished
  BY <1>4 DEF Finished, vars, TypeOK
<1> QED
  BY <1>1, <1>2, <1>3, <1>4 DEF Next

LEMMA WalkStep ==
  ASSUME TypeOK, Walk, Next
  PROVE  Walk'
<1> USE DEF Walk
<1>1. CASE VisitRoot
  <2>1. Depth' \in {0, 1} /\ OnStack' \subseteq visited'
    <3>1. CASE UNCHANGED <<frames, visited>>
      BY <1>1, <3>1, RootStep DEF Depth, OnStack, StackIsVisited
    <3>2. CASE ~UNCHANGED <<frames, visited>>
      BY <1>1, <3>2, RootStep
    <3> QED
      BY <3>1, <3>2
  <2>2. (Chained /\ StackIsDistinct /\ StackIsVisited)'
    <3>1. 1 .. Depth' - 1 = {}
      <4>1. CASE Depth' = 0
        BY <4>1
      <4>2. CASE Depth' = 1
        BY <4>2
      <4> QED
        BY <2>1, <4>1, <4>2
    <3>2. \A i, j \in 1 .. Depth' : i = j
      BY <2>1
    <3> QED
      BY <2>1, <3>1, <3>2 DEF Chained, StackIsDistinct, StackIsVisited
  <2>3. RootsRemain'
    BY <1>1, RootStep DEF RootsRemain
  <2> QED
    BY <2>2, <2>3
<1>2. CASE VisitDependency
  <2>1. /\ FindCycles(Included, Advance) /\ Included \in Paths /\ frames # <<>>
        /\ UNCHANGED <<dependencies, roots>>
        /\ Depth \in Nat \ {0}
        /\ DOMAIN frames = 1 .. Depth
        /\ Top = frames[Depth] /\ Included = dependencies[Top.path][Top.next]
        /\ Top.next \in DOMAIN dependencies[Top.path]
    BY <1>2, IncludedIsPath, TopOfStack DEF Top, Included
  <2>2. CASE frames' = Advance /\ UNCHANGED visited
    <3>1. Chained'
      BY <2>1, <2>2, LoopMovesOn DEF Chained
    <3>2. (StackIsDistinct /\ StackIsVisited)'
      BY <2>1, <2>2, LoopMovesOn DEF StackIsDistinct, StackIsVisited
    <3>3. RootsRemain'
      BY <2>1, <2>2 DEF RootsRemain
    <3> QED
      BY <3>1, <3>2, <3>3
  <2>3. CASE Descend(Included, Advance)
    <3>1. Chained'
      <4> SUFFICES ASSUME NEW i \in 1 .. Depth
                   PROVE  /\ frames'[i].next - 1 \in DOMAIN dependencies[frames'[i].path]
                          /\ frames'[i + 1].path
                               = dependencies[frames'[i].path][frames'[i].next - 1]
        BY <1>2, <2>1, <2>3, LoopDescends, SMTT(40) DEF Chained
      <4>1. CASE i = Depth
        <5>1. Top.next \in Nat
          BY <2>1, FrameAt
        <5>2. frames'[i].path = Top.path /\ frames'[i].next = Top.next + 1
              /\ frames'[i + 1].path = Included
          BY <1>2, <2>1, <2>3, <4>1, LoopDescends
        <5>3. frames'[i].next - 1 = Top.next
          BY <5>1, <5>2
        <5> QED
          BY <2>1, <5>2, <5>3
      <4>2. CASE i # Depth
        <5>1. i \in 1 .. Depth - 1 /\ i + 1 \in 1 .. Depth
          BY <2>1, <4>2
        <5> QED
          BY <1>2, <2>1, <2>3, <4>2, <5>1, LoopDescends DEF Chained
      <4> QED
        BY <4>1, <4>2
    <3>2. StackIsDistinct'
      <4>1. \A i \in 1 .. Depth : frames[i].path # Included
        BY <2>1, <2>3 DEF Descend, OnStack
      <4> QED
        BY <1>2, <2>1, <2>3, <4>1, LoopDescends, SMTT(40) DEF StackIsDistinct
    <3>3. StackIsVisited'
      BY <1>2, <2>3, LoopDescends DEF StackIsVisited
    <3>4. RootsRemain'
      BY <2>1, <2>3 DEF RootsRemain, Descend
    <3> QED
      BY <3>1, <3>2, <3>3, <3>4
  <2> QED
    BY <2>1, <2>2, <2>3 DEF FindCycles, CloseCycle, SkipVisited
<1>3. CASE Return
  <2>1. Chained'
    <3> SUFFICES ASSUME NEW i \in 1 .. Depth - 2
                 PROVE  /\ frames'[i].next - 1 \in DOMAIN dependencies[frames'[i].path]
                        /\ frames'[i + 1].path
                             = dependencies[frames'[i].path][frames'[i].next - 1]
      BY <1>3, ReturnStep DEF Chained
    <3>1. i \in 1 .. Depth - 1 /\ i + 1 \in 1 .. Depth - 1
      BY <1>3, ReturnStep
    <3>2. frames'[i] = frames[i] /\ frames'[i + 1] = frames[i + 1]
      BY <1>3, <3>1, ReturnStep
    <3> QED
      BY <3>1, <3>2 DEF Chained
  <2>2. (StackIsDistinct /\ StackIsVisited /\ RootsRemain)'
    BY <1>3, ReturnStep DEF StackIsDistinct, StackIsVisited, RootsRemain
  <2> QED
    BY <2>1, <2>2
<1>4. CASE Finished
  BY <1>4 DEF Finished, vars, Chained, StackIsDistinct, StackIsVisited, RootsRemain,
              Depth, OnStack
<1> QED
  BY <1>1, <1>2, <1>3, <1>4 DEF Next

(* The part of the stack from the file met again is a cycle. *)
LEMMA StackFromIsCycle ==
  ASSUME TypeOK, Walk, VisitDependency, Included \in OnStack
  PROVE  IsCycle(StackFrom(Included))
<1> DEFINE pos == Position(Included)
           c   == StackFrom(Included)
           n   == Depth - pos + 1
<1>1. pos \in 1 .. Depth /\ frames[pos].path = Included /\ Depth \in Nat
  BY PositionOnStack, LenProperties DEF TypeOK, Depth
<1>2. /\ n \in Nat \ {0} /\ Len(c) = n /\ DOMAIN c = 1 .. n
      /\ \A i \in 1 .. n : c[i] = frames[pos + i - 1].path
  BY StackFromShape, LenProperties
<1>3. c # <<>>
  BY <1>2, EmptySeq
<1>4. ASSUME NEW i \in DOMAIN c, i < Len(c)
      PROVE  c[i + 1] \in Successors(c[i])
  <2>1. pos + i - 1 \in 1 .. Depth - 1 /\ i + 1 \in 1 .. n /\ i \in 1 .. n
    BY <1>1, <1>2, <1>4
  <2>2. c[i] = frames[pos + i - 1].path /\ c[i + 1] = frames[(pos + i - 1) + 1].path
    BY <1>1, <1>2, <2>1, SMTT(20)
  <2> QED
    BY <2>1, <2>2 DEF Walk, Chained, Successors
<1>5. c[1] \in Successors(c[Len(c)])
  <2>1. c[1] = Included /\ c[Len(c)] = Top.path
    BY <1>1, <1>2 DEF Top
  <2> QED
    BY <2>1, IncludedIsPath
<1>6. \A i, j \in DOMAIN c : c[i] = c[j] => i = j
  <2> SUFFICES ASSUME NEW i \in 1 .. n, NEW j \in 1 .. n, c[i] = c[j]
               PROVE  i = j
    BY <1>2
  <2>1. pos + i - 1 \in 1 .. Depth /\ pos + j - 1 \in 1 .. Depth
    BY <1>1
  <2>2. frames[pos + i - 1].path = frames[pos + j - 1].path
    BY <1>2
  <2>3. pos + i - 1 = pos + j - 1
    BY <2>1, <2>2 DEF Walk, StackIsDistinct
  <2> QED
    BY <1>1, <2>3
<1> QED
  BY <1>3, <1>4, <1>5, <1>6 DEF IsCycle

LEMMA CyclesStep ==
  ASSUME TypeOK, Walk, ReportedCyclesAreReal, Next
  PROVE  ReportedCyclesAreReal'
<1>1. CASE UNCHANGED <<dependencies, cycles>>
  BY <1>1 DEF ReportedCyclesAreReal, IsCycle, Successors
<1>2. CASE VisitDependency /\ CloseCycle(Included, Advance)
  <2>1. /\ cycles \in Seq(Seq(Paths)) /\ Len(cycles) \in Nat
        /\ cycles' = Append(cycles, StackFrom(Included))
        /\ StackFrom(Included) \in Seq(Paths) /\ IsCycle(StackFrom(Included))
    BY <1>2, StackFromShape, StackFromIsCycle, LenProperties DEF CloseCycle, TypeOK
  <2>2. /\ DOMAIN cycles' = 1 .. Len(cycles) + 1
        /\ \A k \in 1 .. Len(cycles) : cycles'[k] = cycles[k]
        /\ cycles'[Len(cycles) + 1] = StackFrom(Included)
    BY <2>1, AppendProperties, LenProperties
  <2>3. \A k \in DOMAIN cycles' : IsCycle(cycles'[k])
    BY <2>1, <2>2, LenProperties DEF ReportedCyclesAreReal
  <2>4. UNCHANGED dependencies
    BY <1>2 DEF VisitDependency
  <2> QED
    BY <2>3, <2>4 DEF ReportedCyclesAreReal, IsCycle, Successors
<1>3. VisitRoot => UNCHANGED <<dependencies, cycles>>
  BY RootStep
<1>4. VisitDependency =>
        UNCHANGED <<dependencies, cycles>> \/ CloseCycle(Included, Advance)
  BY IncludedIsPath DEF FindCycles, SkipVisited, Descend
<1> QED
  BY <1>1, <1>2, <1>3, <1>4 DEF Next, Return, Finished, vars

-----------------------------------------------------------------------------
(* The argument of the depth-first search, one step at a time.             *)

(* No step but the pop of a frame changes the closed files.                 *)
LEMMA ClosedUnchanged ==
  ASSUME UNCHANGED <<dependencies, Closed>>, ClosedIncludesClosed, ClosedIsAcyclic
  PROVE  (ClosedIncludesClosed /\ ClosedIsAcyclic)'
<1>1. \A p : Successors(p)' = Successors(p)
  BY DEF Successors
<1>2. \A C : Entangled(C)' <=> Entangled(C)
  BY <1>1 DEF Entangled
<1> QED
  BY <1>1, <1>2 DEF ClosedIncludesClosed, ClosedIsAcyclic

(* A file joins the closed ones: all it includes are closed.                *)
LEMMA ClosedGrows ==
  ASSUME NEW p, UNCHANGED dependencies, Closed' = Closed \cup {p}, p \notin Closed,
         Successors(p) \subseteq Closed, ClosedIncludesClosed, ClosedIsAcyclic
  PROVE  (ClosedIncludesClosed /\ ClosedIsAcyclic)'
<1>1. \A q : Successors(q)' = Successors(q)
  BY DEF Successors
<1>2. ClosedIncludesClosed'
  BY <1>1 DEF ClosedIncludesClosed
<1>3. ASSUME NEW C \in SUBSET (Closed \cup {p}), Entangled(C)
      PROVE  FALSE
  <2>1. C \cap Closed # {}
    BY <1>3 DEF Entangled
  <2>2. ASSUME NEW q \in C \cap Closed
        PROVE  Successors(q) \cap (C \cap Closed) # {}
    <3>1. Successors(q) \cap C # {} /\ Successors(q) \subseteq Closed
      BY <1>3, <2>2 DEF Entangled, ClosedIncludesClosed
    <3> QED
      BY <3>1
  <2>3. Entangled(C \cap Closed)
    BY <2>1, <2>2 DEF Entangled
  <2> QED
    BY <2>3 DEF ClosedIsAcyclic
<1>4. ClosedIsAcyclic'
  BY <1>1, <1>3 DEF ClosedIsAcyclic, Entangled
<1> QED
  BY <1>2, <1>4

LEMMA SilentStutter ==
  ASSUME UNCHANGED vars, Silent
  PROVE  Silent'
<1>1. UNCHANGED <<Closed, Depth, dependencies, frames, cycles>>
  BY DEF vars, Closed, OnStack, Depth
<1>2. (ClosedIncludesClosed /\ ClosedIsAcyclic => (ClosedIncludesClosed /\ ClosedIsAcyclic)')
  BY <1>1, ClosedUnchanged
<1>3. LoopsAreDone => LoopsAreDone'
  BY <1>1 DEF LoopsAreDone
<1> QED
  BY <1>1, <1>2, <1>3 DEF Silent

LEMMA SilentStep ==
  ASSUME TypeOK, Walk, Silent, Next
  PROVE  Silent'
<1> SUFFICES ASSUME cycles' = <<>>
             PROVE  (ClosedIncludesClosed /\ LoopsAreDone /\ ClosedIsAcyclic)'
  BY DEF Silent
<1>1. CASE VisitRoot
  <2>0. Closed' = Closed
    <3>1. CASE UNCHANGED <<frames, visited>>
      BY <3>1 DEF Closed, OnStack
    <3>2. CASE ~UNCHANGED <<frames, visited>>
      <4>1. /\ OnStack = {} /\ OnStack' = {Head(roots)}
            /\ visited' = visited \cup {Head(roots)} /\ Head(roots) \notin visited
        BY <1>1, <3>2, RootStep
      <4> QED
        BY <4>1 DEF Closed
    <3> QED
      BY <3>1, <3>2
  <2>1. UNCHANGED <<dependencies, cycles, Closed>> /\ Depth = 0
    BY <1>1, <2>0, RootStep
  <2>2. ClosedIncludesClosed /\ ClosedIsAcyclic
    BY <2>1 DEF Silent
  <2>3. LoopsAreDone'
    <3>1. CASE UNCHANGED frames
      BY <2>1, <3>1 DEF LoopsAreDone, Depth
    <3>2. CASE Depth' = 1 /\ frames'[1].next = 1 /\ frames'[1].path = Head(roots)
      <4>1. \A k \in DOMAIN dependencies[Head(roots)] : ~(k < 1)
        BY <1>1, RootStep, LenProperties DEF TypeOK
      <4> QED
        BY <2>1, <3>2, <4>1 DEF LoopsAreDone
    <3> QED
      BY <1>1, <3>1, <3>2, RootStep
  <2> QED
    BY <2>1, <2>2, <2>3, ClosedUnchanged
<1>2. CASE VisitDependency
  <2>1. /\ FindCycles(Included, Advance) /\ Included \in Paths /\ frames # <<>>
        /\ UNCHANGED dependencies
        /\ Depth \in Nat \ {0} /\ Top = frames[Depth]
        /\ Included = dependencies[Top.path][Top.next]
        /\ Top.path \in Paths
    BY <1>2, IncludedIsPath, TopOfStack DEF Top, Included
  <2>2. ~CloseCycle(Included, Advance)
    <3> SUFFICES ASSUME CloseCycle(Included, Advance) PROVE FALSE
      OBVIOUS
    <3>1. /\ cycles \in Seq(Seq(Paths)) /\ StackFrom(Included) \in Seq(Paths)
          /\ cycles' = Append(cycles, StackFrom(Included))
      BY StackFromShape DEF CloseCycle, TypeOK
    <3> QED
      BY <3>1, AppendProperties
  <2>3. cycles = <<>> /\ (SkipVisited(Included, Advance) \/ Descend(Included, Advance))
    BY <2>1, <2>2 DEF FindCycles, SkipVisited, Descend
  <2>4. ClosedIncludesClosed /\ ClosedIsAcyclic /\ LoopsAreDone
    BY <2>3 DEF Silent
  <2>5. UNCHANGED <<dependencies, Closed>>
    BY <1>2, <2>1, <2>3, LoopMovesOn, LoopDescends
    DEF SkipVisited, Descend, Closed, Walk, StackIsVisited
  <2>6. LoopsAreDone'
    <3> SUFFICES ASSUME NEW i \in 1 .. Depth',
                        NEW k \in DOMAIN dependencies[frames'[i].path],
                        k < frames'[i].next
                 PROVE  \/ dependencies[frames'[i].path][k] \in Closed
                        \/ i < Depth' /\ k = frames'[i].next - 1
      BY <2>5 DEF LoopsAreDone
    <3>1. /\ Depth' \in {Depth, Depth + 1}
          /\ \A j \in 1 .. Depth :
               /\ frames'[j].path = frames[j].path
               /\ frames'[j].next = IF j = Depth THEN frames[j].next + 1
                                                 ELSE frames[j].next
      BY <1>2, <2>1, <2>3, LoopMovesOn, LoopDescends DEF SkipVisited
    <3>2. CASE i < Depth
      <4>1. frames'[i] .path = frames[i].path /\ frames'[i].next = frames[i].next
            /\ i \in 1 .. Depth /\ i < Depth'
        BY <2>1, <3>1, <3>2
      <4> QED
        BY <2>4, <4>1 DEF LoopsAreDone
    <3>3. CASE i = Depth
      <4>1. /\ frames'[i].path = Top.path /\ frames'[i].next = Top.next + 1
            /\ Top.next \in Nat /\ i \in 1 .. Depth
        BY <2>1, <3>1, <3>3, FrameAt
      <4>2. k \in Nat
        BY <2>1, <4>1, LenProperties, SMTT(20) DEF TypeOK
      <4>3. CASE k < Top.next
        BY <2>1, <2>4, <3>3, <4>1, <4>3 DEF LoopsAreDone
      <4>4. CASE k = Top.next
        <5>1. CASE SkipVisited(Included, Advance)
          BY <2>1, <4>1, <4>4, <5>1 DEF SkipVisited, Closed
        <5>2. CASE Descend(Included, Advance)
          <6>1. i < Depth' /\ k = frames'[i].next - 1
            BY <1>2, <2>1, <3>3, <4>1, <4>4, <5>2, LoopDescends, SMTT(40)
          <6> QED
            BY <6>1
        <5> QED
          BY <2>3, <5>1, <5>2
      <4> QED
        BY <4>1, <4>2, <4>3, <4>4
    <3>4. CASE i > Depth
      <4>1. i = Depth + 1 /\ Descend(Included, Advance)
        BY <2>1, <2>3, <3>1, <3>4, LoopMovesOn DEF SkipVisited
      <4>2. frames'[i].path = Included /\ frames'[i].next = 1
        BY <1>2, <4>1, LoopDescends
      <4>3. k \in Nat \ {0}
        BY <2>1, <4>2, LenProperties, SMTT(20) DEF TypeOK
      <4> QED
        BY <4>2, <4>3
    <3> QED
      BY <2>1, <3>1, <3>2, <3>3, <3>4
  <2> QED
    BY <2>4, <2>5, <2>6, ClosedUnchanged
<1>3. CASE Return
  <2>1. /\ frames # <<>> /\ Depth \in Nat \ {0} /\ Depth' = Depth - 1
        /\ \A i \in 1 .. Depth - 1 : frames'[i] = frames[i]
        /\ OnStack' = OnStack \ {Top.path} /\ Top.path \in OnStack
        /\ UNCHANGED <<dependencies, roots, visited, cycles>>
        /\ Top = frames[Depth] /\ Top.path \in Paths /\ Top.next \in Nat \ {0}
    BY <1>3, ReturnStep, TopOfStack DEF Walk, Top, Frame
  <2>2. ClosedIncludesClosed /\ ClosedIsAcyclic /\ LoopsAreDone
    BY <2>1 DEF Silent
  <2>3. Closed' = Closed \cup {Top.path} /\ Top.path \notin Closed
    BY <2>1 DEF Closed, Walk, StackIsVisited
  <2>4. Successors(Top.path) \subseteq Closed
    <3>1. \A k \in DOMAIN dependencies[Top.path] : k < Top.next
      <4>1. DOMAIN dependencies[Top.path] = 1 .. Len(dependencies[Top.path])
            /\ Len(dependencies[Top.path]) \in Nat
        BY <2>1, LenProperties DEF TypeOK
      <4> QED
        BY <1>3, <2>1, <4>1 DEF Return
    <3>2. \A k \in DOMAIN dependencies[Top.path] : dependencies[Top.path][k] \in Closed
      BY <2>1, <2>2, <3>1 DEF LoopsAreDone
    <3> QED
      BY <3>2 DEF Successors
  <2>5. LoopsAreDone'
    <3> SUFFICES ASSUME NEW i \in 1 .. Depth - 1,
                        NEW k \in DOMAIN dependencies[frames[i].path],
                        k < frames[i].next
                 PROVE  \/ dependencies[frames[i].path][k] \in Closed'
                        \/ i < Depth - 1 /\ k = frames[i].next - 1
      BY <2>1 DEF LoopsAreDone
    <3>1. i \in 1 .. Depth
      BY <2>1
    <3>2. CASE dependencies[frames[i].path][k] \in Closed
      BY <2>3, <3>2
    <3>3. CASE k = frames[i].next - 1
      <4>1. dependencies[frames[i].path][k] = frames[i + 1].path
        BY <3>3 DEF Walk, Chained
      <4>2. CASE i = Depth - 1
        <5>1. i + 1 = Depth
          BY <2>1, <4>2
        <5> QED
          BY <2>1, <2>3, <4>1, <5>1
      <4>3. CASE i # Depth - 1
        BY <2>1, <3>3, <4>3
      <4> QED
        BY <4>2, <4>3
    <3> QED
      BY <2>2, <3>1, <3>2, <3>3 DEF LoopsAreDone
  <2> QED
    BY <2>1, <2>2, <2>3, <2>4, <2>5, ClosedGrows
<1>4. CASE Finished
  BY <1>4, SilentStutter DEF Finished, Silent
<1> QED
  BY <1>1, <1>2, <1>3, <1>4 DEF Next

-----------------------------------------------------------------------------
LEMMA IInvIsInvariant == Spec => []IInv
<1>1. IInv /\ [Next]_vars => IInv'
  <2> SUFFICES ASSUME IInv, [Next]_vars PROVE IInv'
    OBVIOUS
  <2>1. CASE Next
    BY <2>1, TypeStep, WalkStep, CyclesStep, SilentStep DEF IInv, Walk
  <2>2. CASE UNCHANGED vars
    <3>1. TypeOK' /\ Walk'
      BY <2>2 DEF vars, IInv, TypeOK, Walk, Chained, StackIsDistinct, StackIsVisited,
                  RootsRemain, OnStack, Depth
    <3>2. ReportedCyclesAreReal'
      BY <2>2 DEF vars, IInv, ReportedCyclesAreReal, IsCycle, Successors
    <3> QED
      BY <2>2, <3>1, <3>2, SilentStutter DEF IInv
  <2> QED
    BY <2>1, <2>2
<1> QED
  BY <1>1, InitIInv, PTL DEF Spec

(* The walk's variables hold values of their types, on every index          *)
(* (include_cycles, find_cycles).                                           *)
THEOREM WalkIsTyped == Spec => []TypeOK
<1>1. IInv => TypeOK
  BY DEF IInv
<1> QED
  BY <1>1, IInvIsInvariant, PTL

(* Whatever the include graph, finite or not, each sequence include_cycles  *)
(* reports is a cycle of it: the diagnostic of publish is never a false     *)
(* alarm about the index.                                                   *)
THEOREM CyclesAreReal == Spec => []ReportedCyclesAreReal
<1>1. IInv => ReportedCyclesAreReal
  BY DEF IInv
<1> QED
  BY <1>1, IInvIsInvariant, PTL

(* Whatever the include graph, a walk that ends without a report has found  *)
(* no set of files that include one another: the shortcut of the visited    *)
(* set in find_cycles hides no cyclic graph.                                *)
THEOREM SilenceIsSound == Spec => []SilenceMeansAcyclic
<1>1. IInv => SilenceMeansAcyclic
  <2> SUFFICES ASSUME IInv, Done, cycles = <<>>,
                      NEW C \in SUBSET Paths, Entangled(C)
               PROVE  FALSE
    BY DEF SilenceMeansAcyclic
  <2>1. Len(roots) = 0 /\ OnStack = {}
    BY EmptySeq DEF Done, OnStack
  <2>2. \A p \in C : dependencies[p] # <<>>
    BY DEF Entangled, Successors
  <2>3. C \subseteq Closed
    BY <2>1, <2>2 DEF IInv, Walk, RootsRemain, Closed
  <2> QED
    BY <2>3 DEF IInv, Silent, ClosedIsAcyclic
<1> QED
  BY <1>1, IInvIsInvariant, PTL
=============================================================================
