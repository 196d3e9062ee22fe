--------------------------- MODULE MCScopeStorage ---------------------------
(* Two names, two values, and two types: one that admits one of the values    *)
(* and one that admits both.                                                  *)
EXTENDS ScopeStorage, TLC

CONSTANTS x, y, one, two, narrow, wide

MCName == {x, y}
NameSymmetry == Permutations(MCName)
MCVal == {one, two}
MCType == {narrow, wide}
MCTypeOf == [v \in MCVal |-> IF v = one THEN narrow ELSE wide]
MCAdmits == [t \in MCType |-> IF t = narrow THEN {one} ELSE MCVal]
=============================================================================
