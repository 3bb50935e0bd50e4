---------------------------- MODULE MCFecStream ----------------------------
EXTENDS FecStream

\* Pairs and single parity for a long run of blocks, a larger matrix for a short one.
FramesOfCode == (<<2, 1>> :> 5) @@ (<<3, 2>> :> 3)
=============================================================================
