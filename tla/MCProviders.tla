----------------------------- MODULE MCProviders -----------------------------
(***************************************************************************)
(* Providers on small instances: the two defaults of the source, and ids,  *)
(* goroutines and instances that are interchangeable.                      *)
(***************************************************************************)
EXTENDS Providers, TLC

CONSTANTS luna, ollama  \* the names of the defaults

TwoDefaults == <<luna, ollama>>

Symmetry == Permutations(Ids) \cup Permutations(Procs) \cup Permutations(Instances)
=============================================================================
