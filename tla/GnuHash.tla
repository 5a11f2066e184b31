------------------------------ MODULE GnuHash -------------------------------
(***************************************************************************)
(* The symbol table of the ELF linker: the .gnu.hash section it builds     *)
(* while it exports the symbols of all objects (add_gnu_hash_entry in      *)
(* src/core/link/elf/dynamic.c) and searches for every relocation          *)
(* (find_sym2 in src/core/link/hashtable.c).                               *)
(*                                                                         *)
(* nbucket is 1, so every hash falls into the one bucket; symoffset is 1,  *)
(* so chain word j belongs to dynsym entry j + 1.  bloom_size is a power   *)
(* of two and `& (bloom_size - 1)' is a remainder.  gnu_hash is any        *)
(* function: Hash gives the 32-bit hash of each name.                      *)
(***************************************************************************)
EXTENDS Integers, Sequences

CONSTANTS
  Names, Hash,
  BloomSize, BloomShift,  \* bloom_size, and 2^bloom_shift
  WordBits,               \* 8 * sizeof(size_t)
  ChainWords              \* words of the chain: DEFAULT_DT_HASH_CHAIN_NUM

ASSUME SizeAssumption ==
  /\ BloomSize \in Nat \ {0} /\ BloomShift \in Nat \ {0}
  /\ WordBits \in Nat \ {0} /\ ChainWords \in Nat \ {0}

\* A hash of 0 or 1 would store a chain word that reads as free.
ASSUME HashAssumption == Hash \in [Names -> Nat] /\ \A n \in Names : Hash[n] >= 2

VARIABLES
  names,    \* the names of the .dynsym entries behind the null one
  exports,  \* how many of them were exported; the others are imports
  bucket, chain, bloom

hashVars == <<names, exports, bucket, chain, bloom>>

HashInit ==
  /\ names = <<>> /\ exports = 0
  /\ bucket = 0
  /\ chain = [j \in 0 .. ChainWords - 1 |-> 0]
  /\ bloom = [w \in 0 .. BloomSize - 1 |-> {}]

----------------------------------------------------------------------------
Word(gh) == (gh \div WordBits) % BloomSize
Bit1(gh) == gh % WordBits
Bit2(gh) == (gh \div BloomShift) % WordBits

set_bloom_bits_FirstOnly(gh) == bloom' = [bloom EXCEPT ![Word(gh)] = @ \cup {Bit1(gh)}]

set_bloom_bits(gh) == bloom' = [bloom EXCEPT ![Word(gh)] = @ \cup {Bit1(gh), Bit2(gh)}]

\* gh & -2
ClearBit0(gh) == 2 * (gh \div 2)

\* for (; *p; p++): the first chain word from j on that is 0.
IsFirstFree(j, k) == chain[k] = 0 /\ \A l \in j .. k - 1 : chain[l] # 0

\* With an empty bucket the symbol becomes its head, otherwise its hash goes to
\* the first free word behind the head.
check_gnu_hash_collision(gh, sym_index) ==
  IF bucket # 0
    THEN /\ \E k \in bucket - 1 .. ChainWords - 1 :
              IsFirstFree(bucket - 1, k) /\ chain' = [chain EXCEPT ![k] = ClearBit0(gh)]
         /\ UNCHANGED bucket
    ELSE /\ bucket' = sym_index
         /\ chain' = [chain EXCEPT ![sym_index - 1] = ClearBit0(gh)]

\* add_export_symbol: a dynsym entry and its hash.  All exports come first.
add_gnu_hash_entry(name) ==
  /\ exports = Len(names) /\ exports < ChainWords
  /\ names' = Append(names, name) /\ exports' = exports + 1
  /\ set_bloom_bits(Hash[name])
  /\ check_gnu_hash_collision(Hash[name], exports + 1)

----------------------------------------------------------------------------
\* (h1 | 1) == (h2 | 1) and the names are equal.  The names behind the
\* exported ones are those of imports.
SameHash(h1, h2) == h1 \div 2 = h2 \div 2
Matches_HashOnly(s, i) == SameHash(Hash[s], chain[i - 1])
Matches(s, i) == SameHash(Hash[s], chain[i - 1]) /\ i <= Len(names) /\ names[i] = s

RunsOff == -1

\* From the head of the bucket to the first match.  A chain word is never odd,
\* so nothing else stops the loop inside the chain.
gnu_lookup(s) ==
  LET found == {i \in bucket .. ChainWords : Matches(s, i)}
  IN  IF bucket = 0 THEN 0
      ELSE IF found = {} THEN RunsOff
      ELSE CHOOSE i \in found : \A j \in found : i <= j

gnu_lookup_filtered(s) ==
  LET f == bloom[Word(Hash[s])]
  IN  IF Bit1(Hash[s]) \in f /\ Bit2(Hash[s]) \in f THEN gnu_lookup(s) ELSE 0

find_sym2(s) == gnu_lookup_filtered(s)

\* add_dynamic_entry: a name that was not found becomes an import, once more for
\* each GOT reference.  Only .dynsym grows.
add_dynsym_import(name) ==
  /\ find_sym2(name) \in {0, RunsOff} /\ Len(names) < ChainWords
  /\ names' = Append(names, name)
  /\ UNCHANGED <<exports, bucket, chain, bloom>>

HashNext == \E name \in Names : add_gnu_hash_entry(name) \/ add_dynsym_import(name)

HashSpec == HashInit /\ [][HashNext]_hashVars

----------------------------------------------------------------------------
(* Properties                                                              *)

TypeOK ==
  /\ names \in Seq(Names) /\ Len(names) <= ChainWords
  /\ exports \in 0 .. Len(names)
  /\ bucket \in 0 .. ChainWords
  /\ chain \in [0 .. ChainWords - 1 -> Nat]
  /\ bloom \in [0 .. BloomSize - 1 -> SUBSET (0 .. WordBits - 1)]

IsExported(s) == \E i \in 1 .. exports : names[i] = s

\* A reference to a name some object exports is bound to the first export of it,
\* in the order of the command line, however many names share its hash bits and
\* however many symbols were added behind it.
ExportedAreFound ==
  \A i \in 1 .. exports :
    (\A j \in 1 .. i - 1 : names[j] # names[i]) => find_sym2(names[i]) = i

\* A reference to a name no object exports is never bound to an entry: the
\* search answers 0, or leaves the chain, which has no end mark.
OthersAreNotFound ==
  \A s \in Names : ~IsExported(s) => find_sym2(s) \in {0, RunsOff}
=============================================================================
