----------------------------- MODULE MCMappings -----------------------------
(***************************************************************************)
(* Two of the rows schema/init.sql inserts, and room for one more.         *)
(***************************************************************************)
EXTENDS Mappings

CONSTANTS map1, map2, map3

TwoSeeds ==
  [i \in {map1, map2} |->
     [name |-> IF i = map1 THEN 1 ELSE 2, source |-> IF i = map1 THEN "x12" ELSE "xml",
      target |-> IF i = map1 THEN "xml" ELSE "x12", active |-> TRUE]]
=============================================================================
