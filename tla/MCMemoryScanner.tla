--------------------------- MODULE MCMemoryScanner ---------------------------
EXTENDS MemoryScanner, TLC
MCRegions == {[start |-> 0, end |-> 4]}
Symmetry == Permutations(Workers)
MCTarget == <<1, 1>>
=============================================================================
