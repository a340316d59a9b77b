---------------------------- MODULE MCAsyncCache ----------------------------
(***************************************************************************)
(* Instances of AsyncCache for TLC.                                        *)
(***************************************************************************)
EXTENDS AsyncCache, TLC

CONSTANTS p1, p2, h1, h2

MCProtocols == {p1, p2}
MCHashes == {h1, h2}
MCTimes == 0..1

\* Protocols and hashes are only compared.
Symmetry == Permutations(MCProtocols) \cup Permutations(MCHashes)
=============================================================================
