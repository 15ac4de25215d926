--------------------------- MODULE MCModelCatalog ---------------------------
(* Two models are enough for one to be asked for while the other is skipped, *)
(* two requests for a recheck and a late report, or for two writes to race.  *)
EXTENDS ModelCatalog

MCAskers == {"r1", "r2"}
MCModels == {"m1", "m2"}
=============================================================================
