---------------------------- MODULE MCRatchet -----------------------------
(* The configurations the runs of Ratchet check. *)
EXTENDS Ratchet, TLC

AllTools == Tools
BothModes == {"advisory", "ratchet"}
Symmetry == Permutations(Pulls)
=============================================================================
