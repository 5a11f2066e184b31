------------------------------- MODULE MCCoff ------------------------------
(* A program and a library as an assembler writes them, in both orders.     *)
EXTENDS Coff

DllOf == ("f1" :> "ex65") @@ ("ExitProcess" :> "kernel32") @@ ("WriteFile" :> "kernel32")
           @@ ("MessageBoxA" :> "user32")
Symbols == {"start", "f1", "eightlet", "datum", ".data", ".file", "ExitProcess", "WriteFile", "MessageBoxA"}
Lengths == ("start" :> 5) @@ ("f1" :> 2) @@ ("eightlet" :> 8) @@ ("datum" :> 5) @@ (".data" :> 5)
             @@ (".file" :> 5) @@ ("ExitProcess" :> 11) @@ ("WriteFile" :> 9) @@ ("MessageBoxA" :> 11)
             @@ ("ex65" :> 4) @@ ("kernel32" :> 8) @@ ("user32" :> 6)
Hashes == [n \in Symbols \cup {Unnamed} |-> IF n \in {"f1", "eightlet", "datum"} THEN 1 ELSE 0]

Sym(name, class, section, value) ==
  [name |-> name, class |-> class, section |-> section, value |-> value, aux |-> 0]
WithAux(sym) == <<[sym EXCEPT !.aux = 1], Sym(".file", 2, 1, 0)>>
Needed(name) == Sym(name, 2, 0, 0)

\* Rows 2 and 4 belong to the symbols in front of them.
Main(relocs) ==
  [sections |-> <<[name |-> ".text", size |-> 32, relocs |-> relocs],
                  [name |-> ".data", size |-> 8, relocs |-> <<>>]>>,
   symbols |-> WithAux(Sym(".file", 103, -2, 0)) \o WithAux(Sym(".data", 3, 2, 0))
      \o <<Sym("start", 2, 1, 4), Needed("f1"), Needed("ExitProcess"), Needed("MessageBoxA"),
           Needed("WriteFile"), Needed("eightlet"), Needed("datum")>>]

Libraries ==
  {[sections |-> <<[name |-> t, size |-> 16, relocs |-> r], [name |-> ".data", size |-> 4, relocs |-> <<>>]>>,
    symbols |-> <<Sym("f1", 2, 1, 8), Sym("eightlet", 2, 1, v), Sym("datum", 2, 2, 2),
                  Needed("WriteFile"), Needed("MessageBoxA"), Sym(".data", 3, 2, 1)>>] :
     t \in {".text", ".code"}, v \in {0, 12}, r \in {<<4>>, <<5, 1, 6>>}}
NoExports == [sections |-> <<[name |-> ".text", size |-> 4, relocs |-> <<>>]>>,
              symbols |-> <<Sym(".data", 3, 1, 0)>>]

SmallWorlds ==
  LET mains == {Main(<<a, b, c>>) : a, b, c \in {3, 6, 7, 8, 9, 10, 11}} \cup {Main(<<>>)}
  IN  {<<m, l>> : m \in mains, l \in Libraries} \cup {<<l, m>> : m \in mains, l \in Libraries}
        \cup {<<m>> : m \in mains} \cup {<<l, l>> : l \in Libraries} \cup {<<NoExports>>}
=============================================================================
