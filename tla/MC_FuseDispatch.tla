--------------------------- MODULE MC_FuseDispatch ---------------------------
EXTENDS FuseDispatch

MC_Names == {"a", "b"}
MC_OneName == {"a"}
MC_Hidden == <<"h1", "h2">>
\* A directory where an earlier mount left ten hidden files: the first
\* hide gives up after ten probes, the next one skips past them.
MC_Hidden14 == [i \in 1 .. 14 |-> IF i < 10 THEN "h0" \o ToString(i) ELSE "h" \o ToString(i)]
MC_Leftovers == {MC_Hidden14[i] : i \in 1 .. 10}
MC_Symmetry == Permutations(Workers)
=============================================================================
