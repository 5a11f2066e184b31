---------------------------- MODULE MCLinkInput -----------------------------
(* Small inputs for LinkInput.                                             *)
EXTENDS LinkInput

S(name, type) == [name |-> name, type |-> type]
Y(name, kind) == [name |-> name, kind |-> kind]

\* One section of each treatment (NOBITS is placed as PROGBITS is), and three
\* relocation sections: with the third one the second is lost.
AllSections ==
  {S(".text", "PROGBITS"), S(".symtab", "SYMTAB"), S(".strtab", "STRTAB"),
   S(".rela.text", "RELA"), S(".rela.data", "RELA"), S(".rela.init_array", "RELA"),
   S(".note.gnu.property", "NOTE"), S(".note.ABI-tag", "NOTE")}

TwoKinds == {Y("f", "default"), Y("f", "undef")}
=============================================================================
