---------------------------- MODULE MCConfigStore ----------------------------
(* ConfigStore with two concurrent saves. *)
EXTENDS ConfigStore, TLC

HandlerSymmetry == Permutations(Handlers)
==============================================================================
