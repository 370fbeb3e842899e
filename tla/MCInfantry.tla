----------------------------- MODULE MCInfantry -----------------------------
(* Instances of Infantry for model checking.                                *)
EXTENDS Infantry

Up == {<<5, 0>>}
NoButtons == {}
Friction == {[key |-> "blaste", val |-> 0]}
=============================================================================
