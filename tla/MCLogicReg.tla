------------------------------ MODULE MCLogicReg ------------------------------
(* LogicReg for TLC: groups that nest, overlap and touch, in 12 addresses. *)
EXTENDS LogicReg, TLC

CONSTANTS wr, inner, ro, cb

MCGroup == {wr, inner, ro, cb}
MCType == wr :> "WR" @@ inner :> "WR" @@ ro :> "RO" @@ cb :> "CB"
MCStart == wr :> 1 @@ inner :> 2 @@ ro :> 2 @@ cb :> 4
MCEnd == wr :> 3 @@ inner :> 3 @@ ro :> 4 @@ cb :> 4
=============================================================================
