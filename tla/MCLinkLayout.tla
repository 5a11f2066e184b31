---------------------------- MODULE MCLinkLayout ----------------------------
(* Small links for LinkLayout.  The chunk sizes are those of init_dynamic.  *)
EXTENDS LinkLayout

S(sc, size) == [sc |-> sc, size |-> size]

\* No section; two containers, one of two chains; an empty section.
SmallInputs == {<<>>, <<S(1, 5), S(1, 3), S(2, 8)>>, <<S(1, 0), S(2, 7)>>}

TwoLibraries == <<9, 4>>

ShortNames == [n \in Names |-> IF n = "f" THEN 1 ELSE 6]

RealAlloc ==
  [n \in {".init_array", ".rela.plt", ".dynsym", ".dynstr"} |->
     CASE n = ".init_array" -> 32
       [] n = ".dynstr" -> 12288
       [] OTHER -> 12288 * 24]

\* sizeof(gnu_hash_table) + 3 bloom words + 1 bucket
EmptyGnuHash == 24 + 24 + 8
=============================================================================
