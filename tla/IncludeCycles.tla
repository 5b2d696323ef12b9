---------------------------- MODULE IncludeCycles ----------------------------
(***************************************************************************)
(* Workspace::include_cycles and find_cycles of workspace.rs: a recursive  *)
(* walk of the include graph from every indexed file, in path order, that  *)
(* reports the part of its stack from the file it meets again.             *)
(*                                                                         *)
(* The recursion is kept as a sequence of frames.  A frame is a file and   *)
(* the position in its dependencies the loop of find_cycles has reached; a *)
(* call of find_cycles that returns at once is one step.                   *)
(***************************************************************************)
EXTENDS Naturals, Sequences, FiniteSets

CONSTANTS
  Paths,    \* canonical paths: indexed files and what they include
  Indexes   \* the indexes a walk may start from: the keys of the BTreeMap
            \* `files` in order, and the dependencies of each file

(* A path outside the index has no entry, so no dependencies to follow.     *)
ASSUME IndexesAssumption ==
  \A x \in Indexes :
    /\ x.keys \in Seq(Paths)
    /\ x.dependencies \in [Paths -> Seq(Paths)]
    /\ \A p \in Paths :
         (\A i \in DOMAIN x.keys : x.keys[i] # p) => x.dependencies[p] = <<>>

VARIABLES
  dependencies,   \* of each file; none for a path outside the index
  roots,          \* keys the loop of include_cycles has yet to visit
  frames,         \* the recursion, outermost call first
  visited,
  cycles

vars == <<dependencies, roots, frames, visited, cycles>>

Frame == [path : Paths, next : Nat \ {0}]

Successors(p) == {dependencies[p][i] : i \in DOMAIN dependencies[p]}

Depth    == Len(frames)
Top      == frames[Depth]
OnStack  == {frames[i].path : i \in DOMAIN frames}
Done     == roots = <<>> /\ frames = <<>>

(* A bug: the whole stack is reported. *)
WholeStack(path) == [i \in DOMAIN frames |-> frames[i].path]

(* What `stack[position..]` holds when the walk meets path again. *)
Position(path) == CHOOSE i \in DOMAIN frames : frames[i].path = path
StackFrom(path) ==
  [i \in 1 .. Depth - Position(path) + 1 |-> frames[Position(path) + i - 1].path]

-----------------------------------------------------------------------------
(* One call find_cycles(path) from the frames `rest`. *)

CloseCycle(path, rest) ==
  /\ path \in OnStack
  /\ cycles' = Append(cycles, StackFrom(path))
  /\ frames' = rest
  /\ UNCHANGED visited

SkipVisited(path, rest) ==
  /\ path \notin OnStack /\ path \in visited
  /\ frames' = rest
  /\ UNCHANGED <<visited, cycles>>

Descend(path, rest) ==
  /\ path \notin OnStack /\ path \notin visited
  /\ visited' = visited \cup {path}
  /\ frames' = Append(rest, [path |-> path, next |-> 1])
  /\ UNCHANGED cycles

(* A bug: the visited set is consulted before the stack. *)
FindCyclesVisitedFirst(path, rest) ==
  IF path \in visited THEN frames' = rest /\ UNCHANGED <<visited, cycles>>
                      ELSE Descend(path, rest)

FindCycles(path, rest) ==
  CloseCycle(path, rest) \/ SkipVisited(path, rest) \/ Descend(path, rest)

VisitRoot ==
  /\ frames = <<>> /\ roots # <<>>
  /\ FindCycles(Head(roots), frames)
  /\ roots' = Tail(roots)
  /\ UNCHANGED dependencies

(* A bug: the loop over the dependencies does not move on. *)
Stay == frames

(* A bug: the loop over the dependencies counts down. *)
StepBack == [frames EXCEPT ![Depth].next = @ - 1]

(* The frames once the innermost loop has moved to its next dependency.     *)
Advance == [frames EXCEPT ![Depth].next = @ + 1]

VisitDependency ==
  /\ frames # <<>> /\ Top.next \in DOMAIN dependencies[Top.path]
  /\ FindCycles(dependencies[Top.path][Top.next], Advance)
  /\ UNCHANGED <<dependencies, roots>>

Return ==
  /\ frames # <<>> /\ Top.next \notin DOMAIN dependencies[Top.path]
  /\ frames' = SubSeq(frames, 1, Depth - 1)
  /\ UNCHANGED <<dependencies, roots, visited, cycles>>

(* The walk is over; include_cycles returns. *)
Finished == Done /\ UNCHANGED vars

-----------------------------------------------------------------------------
Init ==
  /\ \E x \in Indexes : dependencies = x.dependencies /\ roots = x.keys
  /\ frames = <<>> /\ visited = {} /\ cycles = <<>>

Next == VisitRoot \/ VisitDependency \/ Return \/ Finished

(* find_cycles does not wait for anything: it runs to its end.              *)
Spec == Init /\ [][Next]_vars /\ WF_vars(Next)

-----------------------------------------------------------------------------
TypeOK ==
  /\ dependencies \in [Paths -> Seq(Paths)]
  /\ roots \in Seq(Paths)
  /\ frames \in Seq(Frame)
  /\ visited \in SUBSET Paths
  /\ cycles \in Seq(Seq(Paths))

(* A sequence of distinct files, each including the next and the last the   *)
(* first.                                                                   *)
IsCycle(c) ==
  /\ c # <<>>
  /\ \A i \in DOMAIN c : i < Len(c) => c[i + 1] \in Successors(c[i])
  /\ c[1] \in Successors(c[Len(c)])
  /\ \A i, j \in DOMAIN c : c[i] = c[j] => i = j

(* Every cycle include_cycles reports is a cycle of the include graph, so   *)
(* publish never shows workspace.include-cycle on an acyclic workspace.     *)
ReportedCyclesAreReal == \A k \in DOMAIN cycles : IsCycle(cycles[k])

(* Each file of the set includes another file of the set, or itself.        *)
Entangled(C) == C # {} /\ \A p \in C : Successors(p) \cap C # {}

(* When nothing is reported, the include graph has no cycle: no set of      *)
(* files, however large, whose members all include members.                 *)
SilenceMeansAcyclic ==
  Done /\ cycles = <<>> => ~\E C \in SUBSET Paths : Entangled(C)

(* The walk ends on every include graph, the cyclic ones too, so a publish  *)
(* that holds the workspace lock for it gets to its end.                    *)
WalkEnds == <>Done
=============================================================================
