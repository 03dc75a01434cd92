---- MODULE MCWrapper ----
(***************************************************************************)
(* Two models for TLC: a base model and a voice_design model of another    *)
(* size, and one string for instructions and keys.                         *)
(***************************************************************************)
EXTENDS WrapperModels, TLC

CONSTANTS Base, Design

TwoModels == {Base, Design}
TwoTypes == (Base :> "base") @@ (Design :> "voice_design")
TwoSizes == (Base :> 1) @@ (Design :> 2)
====
