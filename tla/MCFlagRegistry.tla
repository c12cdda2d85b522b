--------------------------- MODULE MCFlagRegistry ---------------------------
(* Small instances of FlagRegistry for TLC.                                 *)
EXTENDS FlagRegistryRefinement, TLC

CONSTANTS x, xDashed, y, zero, minusZero, one, nan

MCValue == {zero, minusZero, one, nan}
MCEquals == [v \in Value |-> CASE v = nan               -> {}
                               [] v \in {zero, minusZero} -> {zero, minusZero} \cap Value
                               [] OTHER                 -> {v}]
MCUnderscored == [n \in Name |-> IF n = xDashed THEN x ELSE n]

(* Every value has a text, named like it, and "bad" parses as nothing.      *)
MCText == Value \cup {"bad"}
MCParse == [n \in Name |-> [text \in Text |-> IF text = "bad" THEN Illegal ELSE text]]
MCFresh == [n \in Name |-> zero]
MCAccepts == [f \in Validator |-> {<<n, v>> \in Name \X Value : v # one}]

(* A file that takes effect twice, and one that is refused after it took    *)
(* effect.                                                                  *)
MCFiles == {<< <<x, one>>, <<x, zero>> >>, << <<x, zero>>, <<x, "bad">> >>}
MCNoFiles == {}

Symmetry == Permutations(Saver) \cup Permutations(Thread)
=============================================================================
