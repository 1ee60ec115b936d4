---------------------------- MODULE MCConnection -----------------------------
(***************************************************************************)
(* Instances of Connection for model checking: who posts how much.         *)
(***************************************************************************)
EXTENDS ConnectionProperties, TLC

Posts(a, b) == (A :> a) @@ (B :> b)
Posts10 == Posts(1, 0)
Posts21 == Posts(2, 1)
==============================================================================
