------------------------------ MODULE MCGnuHash -----------------------------
(* Five names: "a" and "e" share their hash, "a" and "b" differ in bit 0   *)
(* only, and "d" passes the bloom filter through the bits of "b" and "c".  *)
EXTENDS GnuHash

SmallHash ==
  [n \in Names |->
     CASE n = "a" -> 2 [] n = "b" -> 3 [] n = "c" -> 82 [] n = "d" -> 19 [] n = "e" -> 2]
=============================================================================
