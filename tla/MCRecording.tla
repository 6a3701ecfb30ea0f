----------------------------- MODULE MCRecording -----------------------------
(* Small instances of Recording; which upload call carries a chunk is symmetric. *)
EXTENDS Recording, TLC

Symmetry == Permutations(Calls) \cup Permutations(Chunks)
=============================================================================
