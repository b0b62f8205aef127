----------------------------- MODULE MCRelinkage -----------------------------
(* Relinkage for TLC: modules, libraries and offset tables.                *)
EXTENDS Relinkage

At(slot, name) == [slot |-> slot, name |-> name]

TwoModules == <<"lib", "exe">>

NeedsAll == [s \in {"exe", "lib"} |-> Libs]

\* Ascending: two symbols of each library in the executable, over three pages,
\* of which the second of bar is the first word of its page; two symbols of foo
\* and one of bar in its library, on a page that is read-only once it is loaded.
Ascending ==
  [exe |-> <<At(1, "a"), At(2, "c"), At(8, "d"), At(9, "b")>>,
   lib |-> <<At(13, "a"), At(14, "c"), At(15, "b")>>]

Disjoint == [foo |-> {"a", "b"}, bar |-> {"c", "d"}]

ASSUME PropertiesApply == SlotsAscend /\ NamesDisjoint
=============================================================================
