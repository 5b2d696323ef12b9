------------------------------ MODULE MCBackend ------------------------------
(* Constants for model checking Backend. *)
EXTENDS BackendProperties, TLC

CONSTANTS a, plain, including, r1, r2, home, missing

OneFile      == {a}
IdentityOn(S) == [x \in S |-> x]
PathOfA      == [u \in {a} |-> u]
TargetOf     == IdentityOn(Paths)
ParentOf     == [p \in Paths |-> home]
LocateOf     == [base \in Bases |-> [r \in Requests |-> a]]
IncludesOf   == [t \in Texts |-> IF t = including THEN {missing} ELSE {}]

Setting(save, change, runner) ==
  [onSave |-> save, onChange |-> change, runner |-> runner, catalog |-> r1,
   includePaths |-> <<>>]

OnSaveConfigs   == {Setting(TRUE, FALSE, NoRunner), Setting(FALSE, FALSE, NoRunner)}
OnChangeConfigs == {Setting(FALSE, TRUE, r1)}
RunnerConfigs   == {Setting(TRUE, FALSE, r1), Setting(TRUE, FALSE, r2)}

(* With the awaits between which a compiler task changes hands. *)
TaskPoints == IoPoints \cup {"RegisterTask", "CancelTask"}

SlotSymmetry == Permutations(Slots)
TaskSymmetry == Permutations(TaskIds)
BackendSymmetry == SlotSymmetry \cup TaskSymmetry
=============================================================================
