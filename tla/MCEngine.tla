---- MODULE MCEngine ----
(***************************************************************************)
(* Two models for TLC: a base model that clones voices and a custom_voice  *)
(* model whose embeddings have another dimension; two strings, each an     *)
(* instruction and a cache key.                                            *)
(***************************************************************************)
EXTENDS EngineModels, TLC

CONSTANTS Base, Other

TwoModels == {Base, Other}
TwoTypes == (Base :> "base") @@ (Other :> "custom_voice")
TwoSizes == (Base :> 1) @@ (Other :> 2)
====
