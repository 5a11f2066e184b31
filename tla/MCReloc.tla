------------------------------- MODULE MCReloc -----------------------------
(* Two objects with a text and a data section each and one constructor      *)
(* array.  The first defines "f", the second "g" and, in some worlds, a     *)
(* static "f" of its own; "puts" is the library's, which may know "g" too.  *)
EXTENDS Reloc

Sec(a, k) == [at |-> a, kind |-> k]
Sym(t, n, s, v) == [type |-> t, name |-> n, section |-> s, value |-> v]
Rel(s, o, t, y, a) == [sec |-> s, offset |-> o, type |-> t, sym |-> y, addend |-> a]

First(rs) ==
  [sections |-> <<Sec(64, "text"), Sec(96, "data"), Sec(0, "init_array")>>,
   symbols |-> <<Sym("name", "f", 1, 8), Sym("section", "", 2, 0), Sym("name", "g", 0, 0),
                 Sym("name", "puts", 0, 0), Sym("other", "", 1, 0)>>,
   relocs |-> rs]
Second(static, rs) ==
  [sections |-> <<Sec(128, "text"), Sec(160, "data"), Sec(0, "fini_array")>>,
   symbols |-> <<Sym("name", "g", 1, 16), Sym("name", "puts", 0, 0),
                 IF static THEN Sym("name", "f", 1, 0) ELSE Sym("name", "f", 0, 0),
                 Sym("name", "lost", 0, 0)>>,
   relocs |-> rs]

Types == {"PC32", "PLT32", "32S", "GOTPCRELX", "64", "32"}
Addend(t) == IF t = "64" THEN 0 ELSE -4
At(o) == {Rel(1, o, t, y, Addend(t)) : t \in Types, y \in 1 .. 4}
InText == At(4) \cup {Rel(1, 4, "PC32", 2, 12), Rel(2, 0, "64", 2, 8), Rel(1, 4, "PLT32", 5, -4)}
InArray == {Rel(3, 0, "64", y, 0) : y \in {1, 2, 3}}
Pairs == {<<x, y>> : x \in InText, y \in At(16) \cup InArray}
SecondRelocs ==
  {<<Rel(1, 4, "PLT32", 2, -4), Rel(2, 0, "64", 2, 0)>>,
   <<Rel(1, 4, "GOTPCRELX", 2, -4), Rel(1, 16, "PLT32", 2, -4)>>,
   <<Rel(1, 4, "PC32", 3, -4), Rel(2, 0, "64", 1, 0)>>,
   <<Rel(3, 0, "64", 1, 0), Rel(1, 4, "PC32", 4, -4)>>}

World(x, static, y, l) == [objects |-> <<First(x), Second(static, y)>>, library |-> l]
SmallWorlds ==
  {World(x, FALSE, y, "puts" :> 9000) : x \in Pairs, y \in SecondRelocs}
  \cup
  {World(<<x>>, s, y, l) : x \in InText \cup InArray, y \in SecondRelocs, s \in BOOLEAN,
     l \in {"puts" :> 9000, ("puts" :> 9000) @@ ("g" :> 9016)}}
=============================================================================
