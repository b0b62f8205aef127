---------------------------- MODULE MCThreadKeys ----------------------------
(* ThreadKeys for TLC: the keys taken when the namespaces are registered.  *)
EXTENDS ThreadKeys

\* Every libpthread starts with the same keys.
Same == [n \in Namespaces |-> {0}]

\* A library's constructor created a key while the last namespace was being
\* loaded: the base has it, that namespace has not.
OneMissing == [n \in Namespaces |-> IF n = Nb - 1 THEN {} ELSE {0}]

Both == {Same, OneMissing}
=============================================================================
