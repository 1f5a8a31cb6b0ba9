------------------------- MODULE MCOfficialRuntime -------------------------
EXTENDS OfficialRuntime, TLC

\* calls differ by their names only
AnyOrder == Permutations(Calls)
=============================================================================
