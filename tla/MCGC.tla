--------------------------------- MODULE MCGC ---------------------------------
\* Instances of GC for TLC.
EXTENDS GC, TLC

CONSTANTS root, a, b, c

FourBlocks  == {root, a, b, c}
ThreeBlocks == {root, a, b}
Apart       == {}
Neighbours  == {<<a, b>>}   \* allocated one after the other
NoneStale   == {}
OneStale    == {<<a, c>>, <<b, c>>}
MCSymmetry  == Permutations({a, b})
=============================================================================
