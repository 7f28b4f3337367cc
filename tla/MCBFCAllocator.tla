---------------------------- MODULE MCBFCAllocator -----------------------------
(* BFCAllocator for TLC.  Sizes are scaled: kMinAllocationSize is 2 and the   *)
(* device has eight bytes, so that three clients exhaust it.  The allocator is  *)
(* set up plainly, with garbage collection, or with a timing counter besides. *)
EXTENDS BFCAllocator, TLC

MCSetups == {[gc |-> FALSE, timed |-> FALSE], [gc |-> TRUE, timed |-> FALSE],
             [gc |-> TRUE, timed |-> TRUE]}

Symmetry == Permutations(Clients)
================================================================================
