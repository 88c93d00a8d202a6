------------------------------ MODULE MCFleet ------------------------------
(***************************************************************************)
(* An instance of Fleet: powers on both sides of what the generator's      *)
(* rules tell apart (15, 40, 60 and 80 MVA), those that the rounding to    *)
(* tenths carries over among them.                                         *)
(***************************************************************************)
EXTENDS Fleet

MCPowers == {1496, 3998, 4000, 8000}

MCOldDesign(id) ==
    [id |-> id, powerMVA |-> 100, hvKV |-> 690, lvKV |-> 138, cooling |-> "ONAN",
     application |-> "distribution", height |-> 312]
MCOldFleet == <<MCOldDesign(1), MCOldDesign(2)>>
=============================================================================
