--------------------------- MODULE MCMacInstaller ---------------------------
(* Two versions of the bundle.                                             *)
EXTENDS MacInstaller, TLC

CONSTANTS v1, v2

MCVersions == {v1, v2}

\* No script compares two versions but for equality.
Symmetry == Permutations(MCVersions)
=============================================================================
