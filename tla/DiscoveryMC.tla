----------------------------- MODULE DiscoveryMC -----------------------------
(* A small instance of Discovery.  The directory "a" has more entries than  *)
(* the budget of a walk; the other drop reaches the file "f2" twice and the *)
(* directory "c" below its depth.                                           *)
EXTENDS Discovery, TLC

CONSTANTS a, b, c, f1, f2, f3, g1, g2

SmallTree == a :> <<b, c, f1, f3>> @@ b :> <<f2, c>> @@ c :> <<f1>>
Overlapping == g1 :> <<b, f2>> @@ g2 :> <<a>>
=============================================================================
