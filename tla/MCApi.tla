------------------------------- MODULE MCApi -------------------------------
(***************************************************************************)
(* Instances of Api for TLC: two transformers and a cap of two rows,       *)
(* as the ids and the cap are both a thousand; a default limit of one.     *)
(***************************************************************************)
EXTENDS Api, TLC

MCIds == 1 .. 2
MCInstants == 1 .. 2
MCWindows == {1 .. 2, {2}}
MCSamples == {<<1, 1>>, <<1, 2>>}
MCFleets == {[i \in MCIds |-> IF i = 1 THEN "a" ELSE Absent]}

(* One client of every route, and one that registers designs.              *)
MCUses == ("reader" :> Ops) @@ ("writer" :> {"create"})
=============================================================================
