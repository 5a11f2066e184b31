-------------------------- MODULE LinkInputProofs --------------------------
(***************************************************************************)
(* Proofs about what the ELF linker gathers from the object files.         *)
(*                                                                         *)
(* The section lists, for any object files: the room reserved for the      *)
(* headers is what they take, and every section with content is in one     *)
(* chain, in order.                                                        *)
(*                                                                         *)
(* The table of exported names, for every set of names, every hash         *)
(* function and every size: find_sym2 answers with the first export of a   *)
(* name, and with no entry for any other.                                  *)
(***************************************************************************)
EXTENDS LinkInput, GnuHash, TLAPS

----------------------------------------------------------------------------
(* The section lists                                                       *)

ContainerNames == {NoName} \union {s.name : s \in Sections}
SectionIds == Nat \X Nat
Containers == [name : ContainerNames, chain : Seq(SectionIds)]

InputTypes ==
  /\ shdrs \in Seq(Seq(Sections))
  /\ containers \in Seq(Containers) /\ containers # <<>>
  /\ rela \in Seq(Seq(SectionIds)) /\ Len(rela) = Len(shdrs)
  /\ pc = "sections" => shdrs # <<>>

\* One container per name; the nameless one is the first and stays empty.
OnePerName ==
  /\ containers[1].name = NoName /\ containers[1].chain = <<>>
  /\ \A c, d \in DOMAIN containers : containers[c].name = containers[d].name => c = d

ContainersInv == InputTypes /\ OnePerName

\* The section a header callback is about.
NewSection == <<current, Len(shdrs[current]) + 1>>

HasContainer(name) == \E c \in DOMAIN containers : containers[c].name = name

LEMMA NewSectionType ==
  ASSUME InputTypes, pc = "sections"
  PROVE  current \in DOMAIN shdrs /\ NewSection \in SectionIds
BY DEF InputTypes, current, NewSection, SectionIds

\* A container with x at the end of its chain.
Grown(container, x) == [container EXCEPT !.chain = Append(@, x)]

LEMMA GrownContainer ==
  ASSUME NEW container \in Containers, NEW x \in SectionIds
  PROVE  /\ Grown(container, x) \in Containers
         /\ Grown(container, x).name = container.name
         /\ Grown(container, x).chain = Append(container.chain, x)
BY DEF Containers, Grown

\* A name that has a container has one beyond the first, and insert finds it.
LEMMA MatchFindsIt ==
  ASSUME ContainersInv, NEW name, name # NoName, HasContainer(name)
  PROVE  /\ Min(match_section(name)) \in 2 .. Len(containers)
         /\ match_section(name) # {}
         /\ containers[Min(match_section(name))].name = name
<1>1. PICK c \in DOMAIN containers : containers[c].name = name
  BY DEF HasContainer
<1>2. c \in 2 .. Len(containers)
  BY <1>1 DEF ContainersInv, InputTypes, OnePerName
<1>3. match_section(name) = {c}
  BY <1>1, <1>2 DEF match_section, ContainersInv, InputTypes, OnePerName
<1>4. Min({c}) = c
  BY <1>2 DEF Min
<1>5. QED
  BY <1>1, <1>2, <1>3, <1>4

\* What insert does: a container of its own for a new name, at the end; for a
\* known one the section goes to the end of the chain of its container.
LEMMA InsertNew ==
  ASSUME ContainersInv, NEW x, NEW name, name # NoName, insert(x, name), ~HasContainer(name)
  PROVE  containers' = Append(containers, [name |-> name, chain |-> <<x>>])
<1>1. match_section(name) = {}
  BY DEF match_section, HasContainer, ContainersInv, InputTypes
<1>2. QED
  BY <1>1 DEF insert

LEMMA InsertKnown ==
  ASSUME ContainersInv, NEW x \in SectionIds, NEW name, name # NoName,
         insert(x, name), HasContainer(name)
  PROVE  \E i \in 2 .. Len(containers) :
           /\ containers[i].name = name
           /\ containers' = [containers EXCEPT ![i] = Grown(containers[i], x)]
           /\ DOMAIN containers' = DOMAIN containers
           /\ containers'[i] = Grown(containers[i], x)
           /\ \A c \in DOMAIN containers \ {i} : containers'[c] = containers[c]
<1> DEFINE i == Min(match_section(name))
<1>1. i \in 2 .. Len(containers) /\ match_section(name) # {} /\ containers[i].name = name
  BY MatchFindsIt
<1> HIDE DEF i
<1>2. containers' = [containers EXCEPT ![i].chain = Append(@, x)]
  BY <1>1 DEF insert, i
<1>3. containers' = [containers EXCEPT ![i] = Grown(containers[i], x)]
  BY <1>2 DEF Grown
<1>4. i \in DOMAIN containers
  BY <1>1 DEF ContainersInv, InputTypes
<1>5. containers'[i] = Grown(containers[i], x)
  BY <1>3, <1>4
<1>6. DOMAIN containers' = DOMAIN containers
      /\ \A c \in DOMAIN containers \ {i} : containers'[c] = containers[c]
  BY <1>1, <1>2 DEF ContainersInv, InputTypes
<1>7. QED
  BY <1>1, <1>3, <1>5, <1>6

\* Either way the names that have a container are those from before and this.
LEMMA InsertKeepsContainers ==
  ASSUME ContainersInv, NEW x \in SectionIds, NEW name \in ContainerNames, name # NoName, insert(x, name)
  PROVE  /\ containers' \in Seq(Containers) /\ containers' # <<>>
         /\ OnePerName'
         /\ \A n : HasContainer(n)' <=> HasContainer(n) \/ n = name
<1>1. containers \in Seq(Containers) /\ Len(containers) \in Nat /\ 1 \in DOMAIN containers
  BY DEF ContainersInv, InputTypes
<1>2. CASE HasContainer(name)
  <2>1. PICK i \in 2 .. Len(containers) :
           /\ containers[i].name = name
           /\ containers' = [containers EXCEPT ![i] = Grown(containers[i], x)]
           /\ DOMAIN containers' = DOMAIN containers
           /\ containers'[i] = Grown(containers[i], x)
           /\ \A c \in DOMAIN containers \ {i} : containers'[c] = containers[c]
    BY <1>2, InsertKnown
  <2>2. containers'[i] \in Containers /\ containers'[i].name = containers[i].name
    <3>1. containers[i] \in Containers
      BY <1>1, <2>1
    <3>2. QED
      BY <2>1, <3>1, GrownContainer
  <2>3. \A c \in DOMAIN containers : containers'[c] \in Containers /\ containers'[c].name = containers[c].name
    BY <1>1, <2>1, <2>2
  <2>4. containers' = [containers EXCEPT ![i] = Grown(containers[i], x)]
    BY <2>1
  <2>6. containers' \in Seq(Containers) /\ containers' # <<>>
    BY <1>1, <2>1, <2>2, <2>4
  <2>7. OnePerName'
    BY <1>1, <2>1, <2>3 DEF ContainersInv, OnePerName
  <2>8. QED
    BY <1>2, <2>1, <2>3, <2>6, <2>7 DEF HasContainer
<1>3. CASE ~HasContainer(name)
  <2> DEFINE new == [name |-> name, chain |-> <<x>>]
  <2>1. containers' = Append(containers, new)
    BY <1>3, InsertNew
  <2>2. new \in Containers /\ new.name = name
    BY DEF Containers
  <2> HIDE DEF new
  <2>3. /\ containers' \in Seq(Containers) /\ Len(containers') = Len(containers) + 1
        /\ containers'[Len(containers) + 1] = new
        /\ \A c \in DOMAIN containers : containers'[c] = containers[c]
        /\ DOMAIN containers' = DOMAIN containers \union {Len(containers) + 1}
    BY <1>1, <2>1, <2>2
  <2>4. OnePerName'
    BY <1>1, <1>3, <2>2, <2>3 DEF ContainersInv, OnePerName, HasContainer
  <2>5. QED
    BY <1>1, <2>2, <2>3, <2>4 DEF HasContainer
<1>4. QED
  BY <1>2, <1>3

----------------------------------------------------------------------------
(* The callbacks                                                           *)

\* A header's callback reads it, and inserts it, or not.
LEMMA CallbackReads ==
  ASSUME InputTypes, NEW s \in Sections, on_section_callback_for_link(s)
  PROVE  /\ pc = "sections" /\ pc' = "sections"
         /\ current \in DOMAIN shdrs /\ NewSection \in SectionIds
         /\ shdrs' = [shdrs EXCEPT ![current] = Append(@, s)]
         /\ shdrs' \in Seq(Seq(Sections)) /\ Len(shdrs') = Len(shdrs)
         /\ \/ insert(NewSection, s.name) /\ s.type \in {"PROGBITS", "NOBITS", "SYMTAB", "NOTE"}
            \/ UNCHANGED containers /\ s.type \notin {"PROGBITS", "NOBITS", "SYMTAB"}
         /\ rela' = IF s.type = "RELA" /\ alloc_reloc_chain(s)
                    THEN [rela EXCEPT ![current] = LinkRela(@, NewSection)] ELSE rela
<1>1. pc = "sections" /\ pc' = "sections"
  BY DEF on_section_callback_for_link
<1>2. current \in DOMAIN shdrs /\ NewSection \in SectionIds
  BY <1>1, NewSectionType
<1>3. shdrs' = [shdrs EXCEPT ![current] = Append(@, s)]
  BY DEF on_section_callback_for_link
<1>4. shdrs' \in Seq(Seq(Sections)) /\ Len(shdrs') = Len(shdrs)
  BY <1>2, <1>3 DEF InputTypes
<1>5. \/ insert(NewSection, s.name) /\ s.type \in {"PROGBITS", "NOBITS", "SYMTAB", "NOTE"}
      \/ UNCHANGED containers /\ s.type \notin {"PROGBITS", "NOBITS", "SYMTAB"}
  <2>1. CASE s.type \in {"PROGBITS", "NOBITS", "SYMTAB"}
    BY <2>1 DEF on_section_callback_for_link, NewSection
  <2>2. CASE s.type = "NOTE"
    BY <2>2 DEF on_section_callback_for_link, OnNote, NewSection
  <2>3. CASE s.type \notin {"PROGBITS", "NOBITS", "SYMTAB", "NOTE"}
    BY <2>3 DEF on_section_callback_for_link
  <2>4. QED
    BY <2>1, <2>2, <2>3
<1>6. QED
  BY <1>1, <1>2, <1>3, <1>4, <1>5 DEF on_section_callback_for_link, NewSection

LEMMA NameIsInNames ==
  ASSUME NEW s \in Sections
  PROVE  s.name \in ContainerNames /\ s.name # NoName
BY SectionsAssumption DEF ContainerNames, NoName

LEMMA CallbackKeepsContainers ==
  ASSUME ContainersInv, NEW s \in Sections, on_section_callback_for_link(s)
  PROVE  ContainersInv'
<1>1. InputTypes
  BY DEF ContainersInv
<1>2. containers' \in Seq(Containers) /\ containers' # <<>> /\ OnePerName'
  <2>1. CASE insert(NewSection, s.name)
    BY <1>1, <2>1, CallbackReads, NameIsInNames, InsertKeepsContainers
  <2>2. CASE UNCHANGED containers
    BY <2>2 DEF ContainersInv, InputTypes, OnePerName
  <2>3. QED
    BY <1>1, <2>1, <2>2, CallbackReads
<1>3. rela' \in Seq(Seq(SectionIds)) /\ Len(rela') = Len(rela)
  <2>1. current \in DOMAIN rela /\ NewSection \in SectionIds
    BY <1>1, CallbackReads DEF InputTypes
  <2>2. LinkRela(rela[current], NewSection) \in Seq(SectionIds)
    <3>1. rela[current] \in Seq(SectionIds)
      BY <1>1, <2>1 DEF InputTypes
    <3>2. CASE rela[current] = <<>>
      BY <2>1, <3>2 DEF LinkRela
    <3>3. CASE rela[current] # <<>>
      <4>1. rela[current][1] \in SectionIds
        BY <3>1, <3>3
      <4>2. QED
        BY <2>1, <3>3, <4>1 DEF LinkRela
    <3>4. QED
      BY <3>2, <3>3
  <2>3. rela' = rela \/ rela' = [rela EXCEPT ![current] = LinkRela(@, NewSection)]
    BY <1>1, CallbackReads
  <2>4. rela \in Seq(Seq(SectionIds))
    BY <1>1 DEF InputTypes
  <2>5. CASE rela' = [rela EXCEPT ![current] = LinkRela(@, NewSection)]
    BY <2>1, <2>2, <2>4, <2>5
  <2>6. QED
    BY <2>3, <2>4, <2>5
<1>4. InputTypes'
  BY <1>1, <1>2, <1>3, CallbackReads DEF InputTypes
<1>5. QED
  BY <1>2, <1>4 DEF ContainersInv

\* Steps that read no header add at most an object that has none yet.
LEMMA OtherSteps ==
  ASSUME [Next]_vars, InputTypes,
         ~\E s \in Sections : on_section_callback_for_link(s)
  PROVE  /\ UNCHANGED <<containers, headers>>
         /\ \/ UNCHANGED <<shdrs, rela>> /\ (pc' = "sections" => pc = "sections")
            \/ shdrs' = Append(shdrs, <<>>) /\ rela' = Append(rela, <<>>)
BY DEF Next, vars, alloc_obj_chain, SectionsEnd, on_elf_symtab_callback_for_link,
   InputRefused, FilesEnd, Stop

LEMMA ContainersInvNext == ContainersInv /\ [Next]_vars => ContainersInv'
<1> SUFFICES ASSUME ContainersInv, [Next]_vars PROVE ContainersInv'
  OBVIOUS
<1>1. ASSUME NEW s \in Sections, on_section_callback_for_link(s) PROVE ContainersInv'
  BY <1>1, CallbackKeepsContainers
<1>2. CASE ~\E s \in Sections : on_section_callback_for_link(s)
  <2>1. InputTypes
    BY DEF ContainersInv
  <2>2. InputTypes'
    <3>1. CASE UNCHANGED <<shdrs, rela>>
      BY <1>2, <2>1, <3>1, OtherSteps DEF InputTypes
    <3>2. CASE shdrs' = Append(shdrs, <<>>) /\ rela' = Append(rela, <<>>)
      BY <1>2, <2>1, <3>2, OtherSteps DEF InputTypes
    <3>3. QED
      BY <1>2, <2>1, <3>1, <3>2, OtherSteps
  <2>3. QED
    BY <1>2, <2>1, <2>2, OtherSteps DEF ContainersInv, OnePerName
<1>3. QED
  BY <1>1, <1>2

LEMMA ContainersInvInit == Init => ContainersInv
BY DEF Init, ContainersInv, InputTypes, OnePerName, Containers, ContainerNames

----------------------------------------------------------------------------
(* The headers                                                             *)

Fixed == IF InterpLen = 0 THEN 3 ELSE 4

\* The header and the doubled room are reserved when the property section is
\* inserted for the first time, and never again.
Reserved ==
  /\ has_gnu_property \in BOOLEAN
  /\ has_gnu_property <=> HasContainer(Property)
  /\ program_header_num = Fixed + (IF has_gnu_property THEN 1 ELSE 0)
  /\ program_header_tail =
       Ehdr + Fixed * Phdr + InterpLen + (IF has_gnu_property THEN Phdr + Phdr ELSE 0)

LEMMA ReservedNext == ContainersInv /\ Reserved /\ [Next]_vars => Reserved'
<1> SUFFICES ASSUME ContainersInv, Reserved, [Next]_vars PROVE Reserved'
  OBVIOUS
<1>0. InputTypes
  BY DEF ContainersInv
<1>1. ASSUME NEW s \in Sections, on_section_callback_for_link(s) PROVE Reserved'
  <2>1. NewSection \in SectionIds /\ s.name \in ContainerNames /\ s.name # NoName
    BY <1>0, <1>1, CallbackReads, NameIsInNames
  <2>2. CASE UNCHANGED <<containers, headers>>
    BY <2>2 DEF Reserved, headers, HasContainer
  <2>3. CASE insert(NewSection, s.name) /\ s.name # Property /\ UNCHANGED headers
    <3>1. HasContainer(Property)' <=> HasContainer(Property)
      BY <2>1, <2>3, InsertKeepsContainers
    <3>2. QED
      BY <2>3, <3>1 DEF Reserved, headers
  <2>4. CASE insert(NewSection, s.name) /\ s.name = Property /\ ~has_gnu_property /\ ReserveProperty
    <3>1. HasContainer(Property)'
      BY <2>1, <2>4, InsertKeepsContainers
    <3>2. QED
      BY <2>4, <3>1, InterpLenAssumption DEF Reserved, ReserveProperty, Fixed, Ehdr, Phdr
  <2>5. \/ UNCHANGED <<containers, headers>>
        \/ insert(NewSection, s.name) /\ s.name # Property /\ UNCHANGED headers
        \/ insert(NewSection, s.name) /\ s.name = Property /\ ~has_gnu_property /\ ReserveProperty
    <3>1. CASE s.type \in {"PROGBITS", "NOBITS", "SYMTAB"}
      BY <1>1, <3>1, SectionsAssumption DEF on_section_callback_for_link, NewSection, Property
    <3>2. CASE s.type = "NOTE"
      BY <1>1, <3>2 DEF on_section_callback_for_link, OnNote, NewSection
    <3>3. CASE s.type \notin {"PROGBITS", "NOBITS", "SYMTAB", "NOTE"}
      BY <1>1, <3>3 DEF on_section_callback_for_link
    <3>4. QED
      BY <3>1, <3>2, <3>3
  <2>6. QED
    BY <2>2, <2>3, <2>4, <2>5
<1>2. CASE ~\E s \in Sections : on_section_callback_for_link(s)
  BY <1>0, <1>2, OtherSteps DEF Reserved, headers, HasContainer
<1>3. QED
  BY <1>1, <1>2

\* init_program_header_num and callback.c:70-77 reserve as many program headers
\* as are written in the end, and room for them and for the interpreter's name.
THEOREM HeadersFitSound == Spec => []HeadersFit
<1>1. Init => Reserved
  <2> SUFFICES ASSUME Init PROVE Reserved
    OBVIOUS
  <2>1. DOMAIN containers = {1} /\ containers[1].name = NoName
    BY DEF Init
  <2>2. ~HasContainer(Property)
    BY <2>1 DEF HasContainer, NoName, Property
  <2>3. /\ has_gnu_property = FALSE
        /\ program_header_num = Fixed
        /\ program_header_tail = Ehdr + Fixed * Phdr + InterpLen
    BY DEF Init, Fixed
  <2>4. has_gnu_property \in BOOLEAN /\ ~has_gnu_property
    BY <2>3
  <2>5. program_header_num = Fixed + 0 /\ program_header_tail = Ehdr + Fixed * Phdr + InterpLen + 0
    BY <2>3, InterpLenAssumption DEF Fixed, Ehdr, Phdr
  <2>6. QED
    BY <2>2, <2>4, <2>5, Zenon DEF Reserved
<1>2. Reserved => HeadersFit
  BY InterpLenAssumption
     DEF Reserved, HeadersFit, ProgramHeadersWritten, HasContainer, Fixed, Ehdr, Phdr
<1>3. QED
  BY <1>1, <1>2, ContainersInvInit, ContainersInvNext, ReservedNext, PTL DEF Spec

----------------------------------------------------------------------------
(* The chains                                                              *)

Content == {"PROGBITS", "NOBITS", "SYMTAB"}
IsRela(s) == s.type = "RELA" /\ alloc_reloc_chain(s)
Relas(o) == {x \in SectionsRead : x[1] = o /\ IsRela(Section(x))}

InChain(c, i) == c \in DOMAIN containers /\ i \in DOMAIN containers[c].chain

\* The chains hold sections that were read, under their names, in order and
\* each once, and no section with content is in none.
Placed ==
  /\ \A c, i : InChain(c, i) =>
       /\ containers[c].chain[i] \in SectionsRead
       /\ Section(containers[c].chain[i]).name = containers[c].name
  /\ \A c, i, j : InChain(c, i) /\ InChain(c, j) /\ i < j =>
       /\ containers[c].chain[i] # containers[c].chain[j]
       /\ Before(containers[c].chain[i], containers[c].chain[j])
  /\ \A x \in SectionsRead : Section(x).type \in Content =>
       \E c, i : InChain(c, i) /\ containers[c].chain[i] = x

\* A relocation chain is empty, or holds the only one, or the first and the last.
Ends(kept, relas) ==
  \/ kept = <<>> /\ relas = {}
  \/ \E f \in relas : kept = <<f>> /\ relas = {f}
  \/ \E f, l \in relas :
       kept = <<f, l>> /\ f # l /\ \A y \in relas : Before(f, y) /\ Before(y, l)

RelaEnds == \A o \in DOMAIN rela : Ends(rela[o], Relas(o))

\* Before is an order on sections.
LEMMA BeforeOrder ==
  ASSUME NEW x \in SectionIds, NEW y \in SectionIds
  PROVE  Before(x, x) /\ (Before(x, y) /\ Before(y, x) => x = y)
BY DEF SectionIds, Before

LEMMA SectionsReadType ==
  ASSUME InputTypes
  PROVE  /\ \A y : y \in SectionsRead <=>
              \E o \in DOMAIN shdrs : \E k \in DOMAIN shdrs[o] : y = <<o, k>>
         /\ SectionsRead \subseteq SectionIds
<1>1. \A y : y \in SectionsRead <=>
        \E o \in DOMAIN shdrs : \E k \in DOMAIN shdrs[o] : y = <<o, k>>
  BY DEF SectionsRead
<1>2. \A o \in DOMAIN shdrs : o \in Nat /\ DOMAIN shdrs[o] \subseteq Nat
  BY DEF InputTypes
<1>3. QED
  BY <1>1, <1>2 DEF SectionIds

\* A header read is behind all that were read, and changes none of them.
LEMMA SectionIsRead ==
  ASSUME InputTypes, NEW s \in Sections, NEW n, n = NewSection, current \in DOMAIN shdrs,
         shdrs' = [shdrs EXCEPT ![current] = Append(@, s)]
  PROVE  /\ SectionsRead' = SectionsRead \union {n} /\ n \notin SectionsRead
         /\ Section(n)' = s /\ n[1] = current
         /\ \A y \in SectionsRead : Section(y)' = Section(y) /\ Before(y, n)
<1> DEFINE last == Len(shdrs[current]) + 1
<1>0. /\ shdrs[current] \in Seq(Sections) /\ current = Len(shdrs) /\ current \in Nat
      /\ last \in Nat /\ shdrs \in Seq(Seq(Sections))
  BY DEF InputTypes, current
<1>1. /\ DOMAIN shdrs' = DOMAIN shdrs
      /\ \A o \in DOMAIN shdrs \ {current} : shdrs'[o] = shdrs[o]
      /\ shdrs'[current] = Append(shdrs[current], s)
  BY <1>0
<1>2. /\ DOMAIN shdrs'[current] = DOMAIN shdrs[current] \union {last}
      /\ last \notin DOMAIN shdrs[current]
      /\ shdrs'[current][last] = s
      /\ \A k \in DOMAIN shdrs[current] : shdrs'[current][k] = shdrs[current][k]
  BY <1>0, <1>1
<1>3. n = <<current, last>> /\ n[1] = current /\ n[2] = last
  BY DEF NewSection
<1> HIDE DEF last
<1>4. \A y : y \in SectionsRead' <=>
        \E o \in DOMAIN shdrs' : \E k \in DOMAIN shdrs'[o] : y = <<o, k>>
  BY DEF SectionsRead
<1>5. \A y : y \in SectionsRead <=>
        \E o \in DOMAIN shdrs : \E k \in DOMAIN shdrs[o] : y = <<o, k>>
  BY SectionsReadType
<1>6. \A y : y \in SectionsRead' <=> y \in SectionsRead \/ y = n
  BY <1>1, <1>2, <1>3, <1>4, <1>5
<1>7. n \notin SectionsRead
  BY <1>2, <1>3, <1>5
<1>8. Section(n)' = s
  BY <1>2, <1>3 DEF Section
<1>9. ASSUME NEW y \in SectionsRead PROVE Section(y)' = Section(y) /\ Before(y, n)
  <2>0. PICK o \in DOMAIN shdrs : \E k \in DOMAIN shdrs[o] : y = <<o, k>>
    BY <1>5
  <2>1. PICK k \in DOMAIN shdrs[o] : y = <<o, k>>
    BY <2>0
  <2>2. y[1] = o /\ y[2] = k
    BY <2>1
  <2>3. shdrs'[o][k] = shdrs[o][k]
    BY <1>1, <1>2
  <2>4. o < current \/ (o = current /\ k <= last)
    BY <1>0 DEF last
  <2>5. QED
    BY <1>3, <2>2, <2>3, <2>4 DEF Section, Before
<1>10. QED
  BY <1>3, <1>6, <1>7, <1>8, <1>9

\* insert puts the section at the end of one chain, that of its name.
LEMMA InsertAppends ==
  ASSUME ContainersInv, NEW x \in SectionIds, NEW name, name # NoName, insert(x, name)
  PROVE  \E i, old :
           /\ old \in Seq(SectionIds)
           /\ containers'[i].name = name /\ containers'[i].chain = Append(old, x)
           /\ \/ i \in DOMAIN containers /\ old = containers[i].chain /\ containers[i].name = name
              \/ i \notin DOMAIN containers /\ old = <<>>
           /\ DOMAIN containers' = DOMAIN containers \union {i}
           /\ \A c \in DOMAIN containers \ {i} : containers'[c] = containers[c]
<1>0. containers \in Seq(Containers) /\ Len(containers) \in Nat
  BY DEF ContainersInv, InputTypes
<1>1. CASE HasContainer(name)
  <2>1. PICK i \in 2 .. Len(containers) :
           /\ containers[i].name = name
           /\ containers' = [containers EXCEPT ![i] = Grown(containers[i], x)]
           /\ DOMAIN containers' = DOMAIN containers
           /\ containers'[i] = Grown(containers[i], x)
           /\ \A c \in DOMAIN containers \ {i} : containers'[c] = containers[c]
    BY <1>1, InsertKnown
  <2>2. i \in DOMAIN containers /\ containers[i] \in Containers
    BY <1>0
  <2>3. containers[i].chain \in Seq(SectionIds)
    BY <2>2 DEF Containers
  <2>4. containers'[i].name = name /\ containers'[i].chain = Append(containers[i].chain, x)
    BY <2>1, <2>2, GrownContainer
  <2>5. DOMAIN containers' = DOMAIN containers \union {i}
    BY <2>1, <2>2
  <2>6. QED
    BY <2>1, <2>2, <2>3, <2>4, <2>5
<1>2. CASE ~HasContainer(name)
  <2> DEFINE new == [name |-> name, chain |-> <<x>>]
             i == Len(containers) + 1
  <2>1. containers' = Append(containers, new)
    BY <1>2, InsertNew
  <2>2. new.name = name /\ new.chain = Append(<<>>, x)
    OBVIOUS
  <2> HIDE DEF new
  <2>3. /\ containers'[i] = new /\ i \notin DOMAIN containers
        /\ DOMAIN containers' = DOMAIN containers \union {i}
        /\ \A c \in DOMAIN containers \ {i} : containers'[c] = containers[c]
    BY <1>0, <2>1
  <2>4. <<>> \in Seq(SectionIds)
    OBVIOUS
  <2> HIDE DEF i
  <2>5. QED
    BY <2>2, <2>3, <2>4
<1>3. QED
  BY <1>1, <1>2

LEMMA ChainsAreSequences ==
  ASSUME InputTypes, NEW c \in DOMAIN containers
  PROVE  containers[c].chain \in Seq(SectionIds)
<1>1. containers[c] \in Containers
  BY DEF InputTypes
<1>2. QED
  BY <1>1 DEF Containers

\* A section read and inserted goes behind the earlier ones of its name; one
\* that is read only has no content.
LEMMA PlacedInsert ==
  ASSUME ContainersInv, Placed, NEW s \in Sections, on_section_callback_for_link(s),
         insert(NewSection, s.name)
  PROVE  Placed'
<1>0. InputTypes
  BY DEF ContainersInv
<1>a. PICK n : n = NewSection
  OBVIOUS
<1>1. /\ n \in SectionIds /\ current \in DOMAIN shdrs /\ s.name # NoName
      /\ shdrs' = [shdrs EXCEPT ![current] = Append(@, s)] /\ insert(n, s.name)
  BY <1>0, <1>a, CallbackReads, NameIsInNames
<1>2. /\ SectionsRead' = SectionsRead \union {n} /\ n \notin SectionsRead
      /\ Section(n)' = s
      /\ \A y \in SectionsRead : Section(y)' = Section(y) /\ Before(y, n)
  BY <1>0, <1>a, <1>1, SectionIsRead
<1>3. PICK i, old :
        /\ old \in Seq(SectionIds)
        /\ containers'[i].name = s.name /\ containers'[i].chain = Append(old, n)
        /\ \/ i \in DOMAIN containers /\ old = containers[i].chain /\ containers[i].name = s.name
           \/ i \notin DOMAIN containers /\ old = <<>>
        /\ DOMAIN containers' = DOMAIN containers \union {i}
        /\ \A c \in DOMAIN containers \ {i} : containers'[c] = containers[c]
  BY <1>1, InsertAppends
<1> DEFINE last == Len(old) + 1
<1>4. /\ DOMAIN containers'[i].chain = DOMAIN old \union {last} /\ last \notin DOMAIN old
      /\ containers'[i].chain[last] = n
      /\ \A k \in DOMAIN old : containers'[i].chain[k] = old[k] /\ k < last
      /\ \A k, m \in DOMAIN old \union {last} : k < m => k \in DOMAIN old
  BY <1>1, <1>3
<1> HIDE DEF last
\* Any place that is not the new one was a place before.
<1>5. ASSUME NEW c, NEW k, InChain(c, k)'
      PROVE  \/ c = i /\ k = last
             \/ /\ InChain(c, k) /\ containers'[c].chain[k] = containers[c].chain[k]
                /\ containers'[c].name = containers[c].name
  <2>1. CASE c = i
    <3>1. CASE k = last
      BY <2>1, <3>1
    <3>2. CASE k \in DOMAIN old
      BY <1>3, <1>4, <2>1, <3>2 DEF InChain
    <3>3. QED
      BY <1>4, <1>5, <2>1, <3>1, <3>2 DEF InChain
  <2>2. CASE c # i
    BY <1>3, <1>5, <2>2 DEF InChain
  <2>3. QED
    BY <2>1, <2>2
<1>6. ASSUME NEW c, NEW k, InChain(c, k)
      PROVE  InChain(c, k)' /\ containers'[c].chain[k] = containers[c].chain[k]
  <2>1. CASE c = i
    BY <1>3, <1>4, <1>6, <2>1 DEF InChain
  <2>2. CASE c # i
    BY <1>3, <1>6, <2>2 DEF InChain
  <2>3. QED
    BY <2>1, <2>2
<1>7. ASSUME NEW c, NEW k, InChain(c, k)'
      PROVE  /\ containers'[c].chain[k] \in SectionsRead'
             /\ (Section(containers[c].chain[k]).name = containers[c].name)'
  <2>1. CASE c = i /\ k = last
    BY <1>2, <1>3, <1>4, <2>1 DEF Section
  <2>2. CASE /\ InChain(c, k) /\ containers'[c].chain[k] = containers[c].chain[k]
             /\ containers'[c].name = containers[c].name
    BY <1>2, <2>2 DEF Placed, Section
  <2>3. QED
    BY <1>5, <1>7, <2>1, <2>2
<1>8. ASSUME NEW c, NEW k, NEW m, InChain(c, k)', InChain(c, m)', k < m
      PROVE  /\ containers'[c].chain[k] # containers'[c].chain[m]
             /\ Before(containers'[c].chain[k], containers'[c].chain[m])
  <2>1. ~(c = i /\ k = last)
    BY <1>4, <1>8 DEF InChain
  <2>2. InChain(c, k) /\ containers'[c].chain[k] = containers[c].chain[k]
    BY <1>5, <1>8, <2>1
  <2>3. CASE c = i /\ m = last
    BY <1>2, <1>4, <2>2, <2>3 DEF Placed
  <2>4. CASE InChain(c, m) /\ containers'[c].chain[m] = containers[c].chain[m]
    BY <1>8, <2>2, <2>4 DEF Placed
  <2>5. QED
    BY <1>5, <1>8, <2>3, <2>4
<1>9. ASSUME NEW x \in SectionsRead', Section(x)'.type \in Content
      PROVE  \E c, k : InChain(c, k)' /\ containers'[c].chain[k] = x
  <2>1. CASE x = n
    <3>1. InChain(i, last)'
      BY <1>3, <1>4 DEF InChain
    <3>2. QED
      BY <1>4, <2>1, <3>1
  <2>2. CASE x \in SectionsRead
    <3>1. PICK c, k : InChain(c, k) /\ containers[c].chain[k] = x
      BY <1>2, <1>9, <2>2 DEF Placed
    <3>2. QED
      BY <1>6, <3>1
  <2>3. QED
    BY <1>2, <2>1, <2>2
<1>10. QED
  BY <1>7, <1>8, <1>9 DEF Placed, Section

LEMMA PlacedElsewhere ==
  ASSUME ContainersInv, Placed, NEW s \in Sections, on_section_callback_for_link(s),
         UNCHANGED containers, s.type \notin Content
  PROVE  Placed'
<1>0. InputTypes
  BY DEF ContainersInv
<1>1. PICK n : n = NewSection
  OBVIOUS
<1>2. current \in DOMAIN shdrs /\ shdrs' = [shdrs EXCEPT ![current] = Append(@, s)]
  BY <1>0, CallbackReads
<1>3. /\ SectionsRead' = SectionsRead \union {n} /\ n \notin SectionsRead
      /\ Section(n)' = s
      /\ \A y \in SectionsRead : Section(y)' = Section(y) /\ Before(y, n)
  BY <1>0, <1>1, <1>2, SectionIsRead
<1>4. \A c, k : InChain(c, k)' <=> InChain(c, k)
  BY DEF InChain
<1>5. \A c, k : InChain(c, k) =>
         /\ containers'[c].chain[k] \in SectionsRead'
         /\ (Section(containers[c].chain[k]).name = containers[c].name)'
  BY <1>3 DEF Placed, Section
<1>6. \A x \in SectionsRead' : Section(x)'.type \in Content =>
        x \in SectionsRead /\ Section(x).type \in Content
  BY <1>3
<1>7. QED
  BY <1>4, <1>5, <1>6 DEF Placed, Section

\* The chain of an object with n behind it, whether or not the second entry is
\* replaced.
LEMMA EndsGrow ==
  ASSUME NEW relas \in SUBSET SectionIds, NEW kept, Ends(kept, relas),
         NEW n \in SectionIds, n \notin relas, \A y \in relas : Before(y, n)
  PROVE  Ends(LinkRela(kept, n), relas \union {n})
<1>1. Before(n, n)
  BY BeforeOrder
<1>2. CASE kept = <<>> /\ relas = {}
  BY <1>2 DEF LinkRela, Ends
<1>3. ASSUME NEW f \in relas, kept[1] = f, kept # <<>>, \A y \in relas : Before(f, y)
      PROVE  Ends(LinkRela(kept, n), relas \union {n})
  <2>1. LinkRela(kept, n) = <<f, n>>
    BY <1>3 DEF LinkRela
  <2>2. \A y \in relas \union {n} : Before(f, y) /\ Before(y, n)
    BY <1>1, <1>3
  <2>3. QED
    BY <2>1, <2>2 DEF Ends
<1>4. CASE \E f \in relas : kept = <<f>> /\ relas = {f}
  <2>1. PICK f \in relas : kept = <<f>> /\ relas = {f}
    BY <1>4
  <2>2. kept[1] = f /\ kept # <<>> /\ \A y \in relas : Before(f, y)
    BY <2>1, BeforeOrder
  <2>3. QED
    BY <1>3, <2>2
<1>5. CASE \E f, l \in relas :
             kept = <<f, l>> /\ f # l /\ \A y \in relas : Before(f, y) /\ Before(y, l)
  <2>1. PICK f \in relas, l \in relas :
             kept = <<f, l>> /\ \A y \in relas : Before(f, y)
    BY <1>5
  <2>2. kept[1] = f /\ kept # <<>>
    BY <2>1
  <2>3. QED
    BY <1>3, <2>1, <2>2
<1>6. QED
  BY <1>2, <1>4, <1>5 DEF Ends

LEMMA RelaEndsCallback ==
  ASSUME InputTypes, RelaEnds, NEW s \in Sections, on_section_callback_for_link(s)
  PROVE  RelaEnds'
<1>1. PICK n : n = NewSection
  OBVIOUS
<1>2. /\ current \in DOMAIN shdrs /\ shdrs' = [shdrs EXCEPT ![current] = Append(@, s)]
      /\ n \in SectionIds
      /\ rela' = IF IsRela(s) THEN [rela EXCEPT ![current] = LinkRela(@, n)] ELSE rela
  BY <1>1, CallbackReads DEF IsRela
<1>3. /\ SectionsRead' = SectionsRead \union {n} /\ n \notin SectionsRead
      /\ Section(n)' = s /\ n[1] = current
      /\ \A y \in SectionsRead : Section(y)' = Section(y) /\ Before(y, n)
  BY <1>1, <1>2, SectionIsRead
<1>4. DOMAIN rela = DOMAIN shdrs /\ current \in DOMAIN rela
  BY <1>2 DEF InputTypes
<1>5. ASSUME NEW o \in DOMAIN rela PROVE Ends(rela'[o], Relas(o)')
  <2>1. \A x : x \in Relas(o)' <=>
               \/ x \in Relas(o)
               \/ x = n /\ o = current /\ IsRela(s)
    BY <1>3 DEF Relas, IsRela, alloc_reloc_chain
  <2>2. CASE o = current /\ IsRela(s)
    <3>1. Relas(o)' = Relas(o) \union {n}
      BY <2>1, <2>2
    <3>2. /\ Relas(o) \in SUBSET SectionIds /\ n \notin Relas(o)
          /\ \A y \in Relas(o) : Before(y, n)
      BY <1>3, SectionsReadType DEF Relas
    <3>3. Ends(rela[o], Relas(o))
      BY DEF RelaEnds
    <3>4. Ends(LinkRela(rela[o], n), Relas(o) \union {n})
      BY <1>2, <3>2, <3>3, EndsGrow
    <3>5. rela'[o] = LinkRela(rela[o], n)
      BY <1>2, <1>4, <2>2
    <3>6. QED
      BY <3>1, <3>4, <3>5
  <2>3. CASE ~(o = current /\ IsRela(s))
    <3>1. Relas(o)' = Relas(o)
      BY <2>1, <2>3
    <3>2. rela'[o] = rela[o]
      BY <1>2, <1>4, <2>3
    <3>3. QED
      BY <3>1, <3>2 DEF RelaEnds
  <2>4. QED
    BY <2>2, <2>3
<1>6. DOMAIN rela' = DOMAIN rela
  BY <1>2
<1>7. QED
  BY <1>5, <1>6 DEF RelaEnds

\* An object that has no header yet adds no section.
LEMMA NewObject ==
  ASSUME InputTypes, shdrs' = Append(shdrs, <<>>)
  PROVE  /\ SectionsRead' = SectionsRead
         /\ \A y \in SectionsRead : Section(y)' = Section(y)
         /\ \A y \in SectionsRead : y[1] # Len(shdrs) + 1
<1>1. /\ shdrs \in Seq(Seq(Sections)) /\ Len(shdrs) \in Nat
      /\ DOMAIN shdrs' = DOMAIN shdrs \union {Len(shdrs) + 1}
      /\ Len(shdrs) + 1 \notin DOMAIN shdrs
      /\ shdrs'[Len(shdrs) + 1] = <<>>
      /\ \A o \in DOMAIN shdrs : shdrs'[o] = shdrs[o]
  BY DEF InputTypes
<1>2. \A y : y \in SectionsRead' <=>
        \E o \in DOMAIN shdrs' : \E k \in DOMAIN shdrs'[o] : y = <<o, k>>
  BY DEF SectionsRead
<1>3. DOMAIN <<>> = {}
  OBVIOUS
<1>4. \A y : y \in SectionsRead <=> y \in SectionsRead'
  BY <1>1, <1>2, <1>3, SectionsReadType
<1>5. \A y \in SectionsRead : y[1] \in DOMAIN shdrs
  BY SectionsReadType
<1>6. QED
  BY <1>1, <1>4, <1>5 DEF Section

LEMMA ChainsNext ==
  ASSUME ContainersInv, Placed, RelaEnds, [Next]_vars
  PROVE  Placed' /\ RelaEnds'
<1>0. InputTypes
  BY DEF ContainersInv
<1>1. ASSUME NEW s \in Sections, on_section_callback_for_link(s) PROVE Placed' /\ RelaEnds'
  <2>1. \/ insert(NewSection, s.name)
        \/ UNCHANGED containers /\ s.type \notin Content
    BY <1>0, <1>1, CallbackReads DEF Content
  <2>2. Placed'
    BY <1>1, <2>1, PlacedInsert, PlacedElsewhere
  <2>3. QED
    BY <1>0, <1>1, <2>2, RelaEndsCallback
<1>2. CASE ~\E s \in Sections : on_section_callback_for_link(s)
  <2>1. UNCHANGED containers
    BY <1>0, <1>2, OtherSteps
  <2>2. CASE UNCHANGED <<shdrs, rela>>
    BY <2>1, <2>2 DEF Placed, RelaEnds, InChain, SectionsRead, Section, Relas, IsRela, alloc_reloc_chain
  <2>3. CASE shdrs' = Append(shdrs, <<>>) /\ rela' = Append(rela, <<>>)
    <3>1. /\ SectionsRead' = SectionsRead
          /\ \A y \in SectionsRead : Section(y)' = Section(y)
          /\ \A y \in SectionsRead : y[1] # Len(shdrs) + 1
      BY <1>0, <2>3, NewObject
    <3>2. \A c, k : InChain(c, k)' <=> InChain(c, k)
      BY <2>1 DEF InChain
    <3>3. Placed'
      BY <2>1, <3>1, <3>2 DEF Placed, Section
    <3>4. \A o : Relas(o)' = Relas(o)
      BY <3>1 DEF Relas, IsRela, alloc_reloc_chain
    <3>5. /\ DOMAIN rela' = DOMAIN rela \union {Len(shdrs) + 1}
          /\ rela'[Len(shdrs) + 1] = <<>>
          /\ \A o \in DOMAIN rela : rela'[o] = rela[o]
      BY <1>0, <2>3 DEF InputTypes
    <3>6. Relas(Len(shdrs) + 1) = {}
      BY <3>1 DEF Relas
    <3>7. RelaEnds'
      BY <3>4, <3>5, <3>6 DEF RelaEnds, Ends
    <3>8. QED
      BY <3>3, <3>7
  <2>4. QED
    BY <1>0, <1>2, <2>2, <2>3, OtherSteps
<1>3. QED
  BY <1>1, <1>2

\* What is left of a chain of relocation sections are its ends.
LEMMA EndsAreKept ==
  ASSUME NEW relas \in SUBSET SectionIds, NEW kept, Ends(kept, relas)
  PROVE  Range(kept) = {x \in relas : (\A y \in relas : Before(x, y)) \/ (\A y \in relas : Before(y, x))}
<1>1. CASE kept = <<>> /\ relas = {}
  BY <1>1 DEF Range
<1>2. CASE \E f \in relas : kept = <<f>> /\ relas = {f}
  <2>1. PICK f \in relas : kept = <<f>> /\ relas = {f}
    BY <1>2
  <2>2. Range(kept) = {f}
    BY <2>1 DEF Range
  <2>3. Before(f, f)
    BY BeforeOrder
  <2>4. QED
    BY <2>1, <2>2, <2>3
<1>3. CASE \E f, l \in relas :
             kept = <<f, l>> /\ f # l /\ \A y \in relas : Before(f, y) /\ Before(y, l)
  <2>1. PICK f \in relas, l \in relas :
             kept = <<f, l>> /\ \A y \in relas : Before(f, y) /\ Before(y, l)
    BY <1>3
  <2>2. Range(kept) = {f, l}
    BY <2>1 DEF Range
  <2>3. \A x \in relas : (\A y \in relas : Before(x, y)) => x = f
    BY <2>1, BeforeOrder
  <2>4. \A x \in relas : (\A y \in relas : Before(y, x)) => x = l
    BY <2>1, BeforeOrder
  <2>5. QED
    BY <2>1, <2>2, <2>3, <2>4
<1>4. QED
  BY <1>1, <1>2, <1>3 DEF Ends

\* Two places of a section are in the container of its name, and there one.
LEMMA PlacedOnce ==
  ASSUME ContainersInv, Placed, RelaEnds
  PROVE  EverySectionPlaced
<1>0. InputTypes
  BY DEF ContainersInv
<1>1. \A p : p \in Places <=> \E c, k : InChain(c, k) /\ p = <<c, k>>
  BY DEF Places, InChain
<1>2. \A c, k : InChain(c, k) => At(<<c, k>>) = containers[c].chain[k]
  BY DEF At
<1>3. ASSUME NEW c, NEW k, InChain(c, k) PROVE k \in Nat
  BY <1>0, <1>3, ChainsAreSequences DEF InChain
<1>4. ASSUME NEW c, NEW k, NEW d, NEW m, InChain(c, k), InChain(d, m),
             containers[c].chain[k] = containers[d].chain[m]
      PROVE  c = d /\ k = m
  <2>1. c = d
    BY <1>4 DEF Placed, InChain, ContainersInv, OnePerName
  <2>2. k \in Nat /\ m \in Nat
    BY <1>3, <1>4
  <2>3. k = m
    BY <1>4, <2>1, <2>2 DEF Placed
  <2>4. QED
    BY <2>1, <2>3
<1>5. ASSUME NEW x \in SectionsRead, Section(x).type \in Content
      PROVE  \E p \in Places : At(p) = x /\ \A q \in Places : At(q) = x => q = p
  <2>1. PICK c, k : InChain(c, k) /\ containers[c].chain[k] = x
    BY <1>5 DEF Placed
  <2>2. <<c, k>> \in Places /\ At(<<c, k>>) = x
    BY <1>1, <1>2, <2>1
  <2>3. ASSUME NEW q \in Places, At(q) = x PROVE q = <<c, k>>
    <3>1. PICK d, m : InChain(d, m) /\ q = <<d, m>>
      BY <1>1
    <3>2. QED
      BY <1>2, <1>4, <2>1, <2>3, <3>1
  <2>4. QED
    BY <2>2, <2>3
<1>6. ASSUME NEW p \in Places
      PROVE  containers[p[1]].name = Section(At(p)).name
  <2>1. PICK c, k : InChain(c, k) /\ p = <<c, k>>
    BY <1>1
  <2>2. QED
    BY <1>2, <2>1 DEF Placed
<1>7. ASSUME NEW p \in Places, NEW q \in Places, p[1] = q[1], p[2] < q[2]
      PROVE  Before(At(p), At(q))
  <2>1. PICK c, k : InChain(c, k) /\ p = <<c, k>>
    BY <1>1
  <2>2. PICK d, m : InChain(d, m) /\ q = <<d, m>>
    BY <1>1
  <2>3. c = d /\ k < m
    BY <1>7, <2>1, <2>2
  <2>4. QED
    BY <1>2, <2>1, <2>2, <2>3 DEF Placed
<1>8. ASSUME NEW o \in DOMAIN rela
      PROVE  Range(rela[o]) = {x \in Relas(o) :
               (\A y \in Relas(o) : Before(x, y)) \/ (\A y \in Relas(o) : Before(y, x))}
  <2>1. Relas(o) \in SUBSET SectionIds
    BY <1>0, SectionsReadType DEF Relas
  <2>2. Ends(rela[o], Relas(o))
    BY DEF RelaEnds
  <2>3. QED
    BY <2>1, <2>2, EndsAreKept
<1>9. \A c, d \in DOMAIN containers : containers[c].name = containers[d].name => c = d
  BY DEF ContainersInv, OnePerName
<1>10. QED
  BY <1>5, <1>6, <1>7, <1>8, <1>9 DEF EverySectionPlaced, Content, Relas, IsRela

\* link/section.c and on_section_callback_for_link keep every section with
\* content, in one chain and in the order of the command line, whatever objects
\* are linked; of an object's relocation sections the ends.
THEOREM EverySectionPlacedSound == Spec => []EverySectionPlaced
<1>1. Init => Placed /\ RelaEnds
  <2> SUFFICES ASSUME Init PROVE Placed /\ RelaEnds
    OBVIOUS
  <2>1. /\ \A c \in DOMAIN containers : containers[c].chain = <<>>
        /\ shdrs = <<>> /\ rela = <<>>
    BY DEF Init
  <2>2. SectionsRead = {} /\ \A c, k : ~InChain(c, k)
    BY <2>1 DEF SectionsRead, InChain
  <2>3. QED
    BY <2>1, <2>2 DEF Placed, RelaEnds
<1>2. ContainersInv /\ Placed /\ RelaEnds /\ [Next]_vars => ContainersInv' /\ Placed' /\ RelaEnds'
  BY ContainersInvNext, ChainsNext
<1>3. QED
  BY <1>1, <1>2, ContainersInvInit, PlacedOnce, PTL DEF Spec

----------------------------------------------------------------------------
(* The index of a symbol's section                                         *)

Entries == [name : {y.name : y \in Symbols}, section : SectionIds, index : Int]

\* The index says where the section was when the symbol was read.
IndexTells ==
  /\ exported \in Seq(Seq(Entries)) /\ Len(exported) = Len(shdrs)
  /\ \A o \in DOMAIN exported : \A i \in DOMAIN exported[o] :
       exported[o][i].index # 0 =>
         \E c, k : /\ InChain(c, k) /\ containers[c].chain[k] = exported[o][i].section
                  /\ exported[o][i].index = IndexOf(<<c, k>>)

\* While a uint8_t each is enough for the container and for the chain.
BytesSuffice ==
  Len(containers) <= ByteMod /\ \A c \in DOMAIN containers : Len(containers[c].chain) <= ByteMod

LEMMA InChainType ==
  ASSUME InputTypes, NEW c, NEW k, InChain(c, k)
  PROVE  /\ c \in 1 .. Len(containers) /\ k \in 1 .. Len(containers[c].chain)
         /\ c \in Nat /\ k \in Nat
         /\ IndexOf(<<c, k>>) = ((c - 1) % ByteMod) * ByteMod + ((k - 1) % ByteMod)
         /\ IndexOf(<<c, k>>) \in Int
<1>1. c \in 1 .. Len(containers)
  BY DEF InputTypes, InChain
<1>2. k \in 1 .. Len(containers[c].chain)
  BY ChainsAreSequences DEF InChain
<1>3. c \in Nat /\ k \in Nat
  BY <1>1, <1>2
<1>4. IndexOf(<<c, k>>) = ((c - 1) % ByteMod) * ByteMod + ((k - 1) % ByteMod)
  BY DEF IndexOf
<1>5. (c - 1) % ByteMod \in Int /\ (k - 1) % ByteMod \in Int
  BY <1>3, ByteModAssumption
<1>6. QED
  BY <1>1, <1>2, <1>3, <1>4, <1>5, ByteModAssumption

\* Two digits to the base ByteMod are told by their number.
LEMMA DigitsAreTold ==
  ASSUME NEW a \in 0 .. ByteMod - 1, NEW b \in 0 .. ByteMod - 1,
         NEW c \in 0 .. ByteMod - 1, NEW d \in 0 .. ByteMod - 1,
         a * ByteMod + b = c * ByteMod + d
  PROVE  a = c /\ b = d
<1>0. ByteMod \in Nat
  BY ByteModAssumption
<1>1. ASSUME NEW x \in Nat, NEW y \in Nat, x < y PROVE x * ByteMod + ByteMod <= y * ByteMod
  <2>1. PICK e \in Nat : y = x + 1 + e
    <3>1. y - x - 1 \in Nat /\ y = x + 1 + (y - x - 1)
      BY <1>1
    <3>2. QED
      BY <3>1
  <2>2. y * ByteMod = x * ByteMod + ByteMod + e * ByteMod
    BY <1>0, <2>1
  <2>3. e * ByteMod \in Nat /\ x * ByteMod \in Nat
    BY <1>0
  <2>4. QED
    BY <1>0, <2>2, <2>3
<1>2. a * ByteMod \in Nat /\ c * ByteMod \in Nat
  BY <1>0
<1>3. ~(a < c)
  BY <1>0, <1>1, <1>2
<1>4. ~(c < a)
  BY <1>0, <1>1, <1>2
<1>5. a = c
  BY <1>0, <1>3, <1>4
<1>6. QED
  BY <1>0, <1>2, <1>5

\* The only place of a set is the first.
LEMMA FirstOfOne ==
  ASSUME NEW c \in Nat, NEW k \in Nat
  PROVE  First({<<c, k>>}) = <<c, k>>
BY DEF First, Before

\* get_section_index_by_name gives 0 or the index of the section's place.
LEMMA IndexByName ==
  ASSUME ContainersInv, Placed, RelaEnds, NEW name, NEW x
  PROVE  \/ get_section_index_by_name(name, x) = 0
         \/ \E c, k : /\ InChain(c, k) /\ containers[c].chain[k] = x
                      /\ get_section_index_by_name(name, x) = IndexOf(<<c, k>>)
<1> DEFINE places == {p \in Places : containers[p[1]].name = name /\ At(p) = x}
<1>0. InputTypes
  BY DEF ContainersInv
<1>1. \A p : p \in Places <=> \E c, k : InChain(c, k) /\ p = <<c, k>>
  BY DEF Places, InChain
<1>2. CASE places = {}
  BY <1>2 DEF get_section_index_by_name
<1>3. CASE places # {}
  <2>1. PICK p \in Places : containers[p[1]].name = name /\ At(p) = x
    BY <1>3
  <2>2. PICK c, k : InChain(c, k) /\ p = <<c, k>>
    BY <1>1
  <2>3. ASSUME NEW q \in places PROVE q = p
    <3>1. PICK d, m : InChain(d, m) /\ q = <<d, m>>
      BY <1>1
    <3>2. c = d
      BY <2>1, <2>2, <3>1 DEF ContainersInv, OnePerName, InChain
    <3>3. containers[c].chain[k] = x /\ containers[c].chain[m] = x
      BY <2>1, <2>2, <3>1, <3>2 DEF At
    <3>4. k \in Nat /\ m \in Nat
      BY <1>0, <2>2, <3>1, InChainType
    <3>5. k = m
      <4>1. InChain(c, k) /\ InChain(c, m)
        BY <2>2, <3>1, <3>2
      <4>2. ~(k < m) /\ ~(m < k)
        BY <3>3, <4>1 DEF Placed
      <4>3. QED
        BY <3>4, <4>2
    <3>6. QED
      BY <2>2, <3>1, <3>2, <3>5
  <2>4. places = {<<c, k>>}
    BY <2>1, <2>2, <2>3
  <2>5. First(places) = <<c, k>>
    BY <1>0, <2>2, <2>4, InChainType, FirstOfOne
  <2>6. get_section_index_by_name(name, x) = IndexOf(<<c, k>>)
    BY <1>3, <2>5 DEF get_section_index_by_name
  <2>7. containers[c].chain[k] = x
    BY <2>1, <2>2 DEF At
  <2>8. QED
    BY <2>2, <2>6, <2>7
<1>4. QED
  BY <1>2, <1>3

\* Chains only grow: a section stays where it is.
LEMMA PlacesStay ==
  ASSUME ContainersInv, [Next]_vars, NEW c, NEW k, InChain(c, k)
  PROVE  InChain(c, k)' /\ containers'[c].chain[k] = containers[c].chain[k]
<1>0. InputTypes
  BY DEF ContainersInv
<1>1. CASE UNCHANGED containers
  BY <1>1 DEF InChain
<1>2. ASSUME NEW s \in Sections, on_section_callback_for_link(s), insert(NewSection, s.name)
      PROVE  InChain(c, k)' /\ containers'[c].chain[k] = containers[c].chain[k]
  <2>1. NewSection \in SectionIds /\ s.name # NoName
    BY <1>0, <1>2, CallbackReads, NameIsInNames
  <2>2. PICK i, old :
           /\ old \in Seq(SectionIds)
           /\ containers'[i].name = s.name /\ containers'[i].chain = Append(old, NewSection)
           /\ \/ i \in DOMAIN containers /\ old = containers[i].chain /\ containers[i].name = s.name
              \/ i \notin DOMAIN containers /\ old = <<>>
           /\ DOMAIN containers' = DOMAIN containers \union {i}
           /\ \A d \in DOMAIN containers \ {i} : containers'[d] = containers[d]
    BY <1>2, <2>1, InsertAppends
  <2>3. CASE c = i
    BY <2>1, <2>2, <2>3, SMTT(30) DEF InChain
  <2>4. CASE c # i
    BY <2>2, <2>4 DEF InChain
  <2>5. QED
    BY <2>3, <2>4
<1>3. QED
  BY <1>0, <1>1, <1>2, OtherSteps, CallbackReads

LEMMA SymbolIsRead ==
  ASSUME ContainersInv, Placed, RelaEnds, IndexTells,
         NEW y \in Symbols, NEW k \in 1 .. (IF current = 0 THEN 0 ELSE Len(shdrs[current])),
         on_elf_symtab_callback_for_link(y, k)
  PROVE  IndexTells'
<1> DEFINE x == <<current, k>>
           index == get_section_index_by_name(Section(x).name, x)
           entry == [name |-> y.name, section |-> x, index |-> index]
<1>0. InputTypes
  BY DEF ContainersInv
<1>1. current \in DOMAIN shdrs /\ k \in Nat
  BY <1>0 DEF on_elf_symtab_callback_for_link, InputTypes, current
<1>2. x \in SectionIds
  BY <1>0, <1>1 DEF SectionIds, InputTypes
<1>3. \/ index = 0
      \/ \E c, m : InChain(c, m) /\ containers[c].chain[m] = x /\ index = IndexOf(<<c, m>>)
  BY IndexByName
<1>4. UNCHANGED <<shdrs, containers>> /\ \A c, m : InChain(c, m)' <=> InChain(c, m)
  BY DEF on_elf_symtab_callback_for_link, InChain
<1>5. exported' = exported \/ exported' = [exported EXCEPT ![current] = Append(@, entry)]
  BY DEF on_elf_symtab_callback_for_link
<1> HIDE DEF x, index
<1>6. index \in Int
  <2>1. CASE \E c, m : InChain(c, m) /\ containers[c].chain[m] = x /\ index = IndexOf(<<c, m>>)
    <3>1. PICK c, m : InChain(c, m) /\ index = IndexOf(<<c, m>>)
      BY <2>1
    <3>2. IndexOf(<<c, m>>) \in Int
      BY <1>0, <3>1, InChainType
    <3>3. QED
      BY <3>1, <3>2
  <2>2. CASE index = 0
    BY <2>2
  <2>3. QED
    BY <1>3, <2>1, <2>2, Zenon
<1>7. entry \in Entries /\ entry.section = x /\ entry.index = index
  BY <1>2, <1>6 DEF Entries
<1> HIDE DEF entry
<1>8. CASE exported' = exported
  BY <1>4, <1>8 DEF IndexTells, IndexOf
<1>9. CASE exported' = [exported EXCEPT ![current] = Append(@, entry)]
  <2>1. exported \in Seq(Seq(Entries)) /\ current \in DOMAIN exported
    BY <1>0, <1>1 DEF IndexTells, InputTypes
  <2>2. exported[current] \in Seq(Entries)
    BY <2>1
  <2>3. /\ exported' \in Seq(Seq(Entries)) /\ Len(exported') = Len(exported)
        /\ DOMAIN exported' = DOMAIN exported
        /\ exported'[current] = Append(exported[current], entry)
        /\ \A o \in DOMAIN exported \ {current} : exported'[o] = exported[o]
    BY <1>7, <1>9, <2>1, <2>2
  <2>4. /\ DOMAIN exported'[current] = DOMAIN exported[current] \union {Len(exported[current]) + 1}
        /\ exported'[current][Len(exported[current]) + 1] = entry
        /\ \A i \in DOMAIN exported[current] : exported'[current][i] = exported[current][i]
    BY <1>7, <2>2, <2>3
  <2>5. ASSUME NEW o \in DOMAIN exported', NEW i \in DOMAIN exported'[o], exported'[o][i].index # 0
        PROVE  \E c, m : /\ InChain(c, m)' /\ containers'[c].chain[m] = exported'[o][i].section
                        /\ exported'[o][i].index = IndexOf(<<c, m>>)
    <3>1. CASE exported'[o][i] = entry
      <4>1. exported'[o][i].section = x /\ exported'[o][i].index = index /\ index # 0
        BY <1>7, <2>5, <3>1
      <4>2. PICK c, m : InChain(c, m) /\ containers[c].chain[m] = x /\ index = IndexOf(<<c, m>>)
        BY <1>3, <4>1
      <4>3. InChain(c, m)' /\ containers'[c].chain[m] = x
        BY <1>4, <4>2
      <4>4. QED
        BY <4>1, <4>2, <4>3
    <3>2. CASE o \in DOMAIN exported /\ i \in DOMAIN exported[o] /\ exported'[o][i] = exported[o][i]
      <4>1. exported[o][i].index # 0
        BY <2>5, <3>2
      <4>2. PICK c, m : /\ InChain(c, m) /\ containers[c].chain[m] = exported[o][i].section
                        /\ exported[o][i].index = IndexOf(<<c, m>>)
        BY <3>2, <4>1 DEF IndexTells
      <4>3. InChain(c, m)' /\ containers'[c].chain[m] = containers[c].chain[m]
        BY <1>4, <4>2
      <4>4. QED
        BY <3>2, <4>2, <4>3
    <3>3. QED
      BY <2>3, <2>4, <2>5, <3>1, <3>2
  <2>6. QED
    BY <1>4, <2>3, <2>5 DEF IndexTells, IndexOf
<1>10. QED
  BY <1>5, <1>8, <1>9

LEMMA IndexTellsNext ==
  ASSUME ContainersInv, Placed, RelaEnds, IndexTells, [Next]_vars
  PROVE  IndexTells'
<1>0. InputTypes
  BY DEF ContainersInv
<1>1. \A c, k : InChain(c, k) =>
        InChain(c, k)' /\ containers'[c].chain[k] = containers[c].chain[k]
  BY PlacesStay
<1>2. CASE UNCHANGED exported /\ Len(shdrs') = Len(shdrs)
  BY <1>1, <1>2 DEF IndexTells, IndexOf
<1>3. CASE exported' = Append(exported, <<>>) /\ shdrs' = Append(shdrs, <<>>)
  <2>1. exported \in Seq(Seq(Entries)) /\ <<>> \in Seq(Entries)
    BY DEF IndexTells
  <2>2. /\ exported' \in Seq(Seq(Entries)) /\ Len(exported') = Len(shdrs')
        /\ \A o \in DOMAIN exported : exported'[o] = exported[o]
        /\ \A o \in DOMAIN exported' : o \in DOMAIN exported \/ exported'[o] = <<>>
    BY <1>0, <1>3, <2>1 DEF IndexTells, InputTypes
  <2>3. QED
    BY <1>1, <2>2, SMTT(30) DEF IndexTells, IndexOf
<1>4. CASE \E y \in Symbols : \E k \in 1 .. (IF current = 0 THEN 0 ELSE Len(shdrs[current])) :
             on_elf_symtab_callback_for_link(y, k)
  BY <1>4, SymbolIsRead
<1>5. \/ UNCHANGED exported /\ Len(shdrs') = Len(shdrs)
      \/ exported' = Append(exported, <<>>) /\ shdrs' = Append(shdrs, <<>>)
      \/ \E y \in Symbols : \E k \in 1 .. (IF current = 0 THEN 0 ELSE Len(shdrs[current])) :
           on_elf_symtab_callback_for_link(y, k)
  <2>1. ASSUME NEW s \in Sections, on_section_callback_for_link(s)
        PROVE  UNCHANGED exported /\ Len(shdrs') = Len(shdrs)
    <3>1. UNCHANGED exported
      BY <2>1 DEF on_section_callback_for_link
    <3>2. QED
      BY <1>0, <2>1, <3>1, CallbackReads
  <2>2. QED
    BY <2>1 DEF Next, vars, alloc_obj_chain, SectionsEnd, InputRefused, FilesEnd, Stop
<1>6. QED
  BY <1>2, <1>3, <1>4, <1>5

LEMMA IndexTellsImplies ==
  ASSUME ContainersInv, IndexTells, BytesSuffice
  PROVE  IndexFindsSection
<1>0. InputTypes
  BY DEF ContainersInv
<1>1. \A p : p \in Places <=> \E c, k : InChain(c, k) /\ p = <<c, k>>
  BY DEF Places, InChain
<1>2. ASSUME NEW c, NEW k, InChain(c, k)
      PROVE  /\ c \in Nat /\ k \in Nat
             /\ c - 1 \in 0 .. ByteMod - 1 /\ k - 1 \in 0 .. ByteMod - 1
             /\ IndexOf(<<c, k>>) = (c - 1) * ByteMod + (k - 1)
  <2>1. /\ c \in 1 .. Len(containers) /\ k \in 1 .. Len(containers[c].chain)
        /\ c \in Nat /\ k \in Nat
        /\ IndexOf(<<c, k>>) = ((c - 1) % ByteMod) * ByteMod + ((k - 1) % ByteMod)
    BY <1>0, <1>2, InChainType
  <2>2. Len(containers) \in Nat /\ Len(containers[c].chain) \in Nat
    BY <1>0, <1>2, ChainsAreSequences DEF InputTypes, InChain
  <2>3. Len(containers) <= ByteMod /\ Len(containers[c].chain) <= ByteMod
    BY <1>2 DEF BytesSuffice, InChain
  <2>4. c - 1 \in 0 .. ByteMod - 1 /\ k - 1 \in 0 .. ByteMod - 1
    BY <2>1, <2>2, <2>3, ByteModAssumption
  <2>5. (c - 1) % ByteMod = c - 1 /\ (k - 1) % ByteMod = k - 1
    BY <2>4, ByteModAssumption
  <2>6. QED
    BY <2>1, <2>4, <2>5
<1>3. ASSUME NEW o \in DOMAIN exported, NEW i \in DOMAIN exported[o], exported[o][i].index # 0
      PROVE  At(get_section_chain_by_index(exported[o][i].index)) = exported[o][i].section
  <2>1. PICK c, k : /\ InChain(c, k) /\ containers[c].chain[k] = exported[o][i].section
                    /\ exported[o][i].index = IndexOf(<<c, k>>)
    BY <1>3 DEF IndexTells
  <2> DEFINE found == {p \in Places : IndexOf(p) = exported[o][i].index}
  <2>2. ASSUME NEW p \in found PROVE p = <<c, k>>
    <3>1. PICK d, m : InChain(d, m) /\ p = <<d, m>>
      BY <1>1
    <3>2. (c - 1) * ByteMod + (k - 1) = (d - 1) * ByteMod + (m - 1)
      BY <1>2, <2>1, <3>1
    <3>3. c - 1 = d - 1 /\ k - 1 = m - 1
      BY <1>2, <2>1, <3>1, <3>2, DigitsAreTold
    <3>4. c = d /\ k = m
      BY <1>2, <2>1, <3>1, <3>3
    <3>5. QED
      BY <3>1, <3>4
  <2>3. found = {<<c, k>>}
    BY <1>1, <2>1, <2>2
  <2>4. get_section_chain_by_index(exported[o][i].index) = <<c, k>>
    BY <1>2, <2>1, <2>3, FirstOfOne DEF get_section_chain_by_index
  <2>5. QED
    BY <2>1, <2>4 DEF At
<1>4. QED
  BY <1>3 DEF IndexFindsSection

\* set_section_index_by_name and get_section_chain_by_index (link/section.c)
\* agree on every section for as long as there are no more than 256 containers
\* and no chain is longer: later sections never move an earlier one.
THEOREM IndexFindsSectionSound == Spec => [](BytesSuffice => IndexFindsSection)
<1>1. Init => Placed /\ RelaEnds /\ IndexTells
  <2> SUFFICES ASSUME Init PROVE Placed /\ RelaEnds /\ IndexTells
    OBVIOUS
  <2>1. /\ \A c \in DOMAIN containers : containers[c].chain = <<>>
        /\ shdrs = <<>> /\ rela = <<>> /\ exported = <<>>
    BY DEF Init
  <2>2. SectionsRead = {} /\ \A c, k : ~InChain(c, k)
    BY <2>1 DEF SectionsRead, InChain
  <2>3. QED
    BY <2>1, <2>2 DEF Placed, RelaEnds, IndexTells
<1>2. ContainersInv /\ Placed /\ RelaEnds /\ IndexTells /\ [Next]_vars
        => ContainersInv' /\ Placed' /\ RelaEnds' /\ IndexTells'
  BY ContainersInvNext, ChainsNext, IndexTellsNext
<1>3. ContainersInv /\ IndexTells => (BytesSuffice => IndexFindsSection)
  BY IndexTellsImplies
<1>4. QED
  BY <1>1, <1>2, <1>3, ContainersInvInit, PTL DEF Spec

----------------------------------------------------------------------------
(* The table of exported names.  Chain word j is the hash of export j + 1  *)
(* and every later word is free, the bucket points at the first export,    *)
(* and the bloom filter has both bits of every export.                     *)

ChainHolds ==
  \A j \in 0 .. ChainWords - 1 :
    chain[j] = IF j < exports THEN ClearBit0(Hash[names[j + 1]]) ELSE 0
BucketHolds == bucket = IF exports = 0 THEN 0 ELSE 1
BloomHolds ==
  \A i \in 1 .. exports :
    LET h == Hash[names[i]] IN Bit1(h) \in bloom[Word(h)] /\ Bit2(h) \in bloom[Word(h)]

HashInv == TypeOK /\ ChainHolds /\ BucketHolds /\ BloomHolds

\* The bloom filter's word and bits are in range.
LEMMA BloomRange ==
  \A h \in Nat : Word(h) \in 0 .. BloomSize - 1 /\ Bit1(h) \in 0 .. WordBits - 1 /\ Bit2(h) \in 0 .. WordBits - 1
<1> SUFFICES ASSUME NEW h \in Nat
             PROVE  Word(h) \in 0 .. BloomSize - 1 /\ Bit1(h) \in 0 .. WordBits - 1 /\ Bit2(h) \in 0 .. WordBits - 1
    OBVIOUS
<1>1. \A x \in Nat, d \in Nat \ {0} : x % d \in 0 .. d - 1 /\ x \div d \in Nat
    OBVIOUS
<1>2. h \div WordBits \in Nat /\ h \div BloomShift \in Nat
    BY <1>1, SizeAssumption
<1> QED BY <1>1, <1>2, SizeAssumption DEF Word, Bit1, Bit2

\* `gh & -2' keeps everything the comparison looks at, and is not 0.
LEMMA ClearedHash ==
  \A n \in Names : /\ ClearBit0(Hash[n]) \in Nat \ {0}
                   /\ \A m \in Names : SameHash(Hash[m], ClearBit0(Hash[n])) <=> SameHash(Hash[m], Hash[n])
<1> SUFFICES ASSUME NEW n \in Names
             PROVE  /\ ClearBit0(Hash[n]) \in Nat \ {0}
                    /\ \A m \in Names : SameHash(Hash[m], ClearBit0(Hash[n])) <=> SameHash(Hash[m], Hash[n])
    OBVIOUS
<1> DEFINE h == Hash[n]
<1>1. h \in Nat /\ h >= 2
    BY HashAssumption
<1> HIDE DEF h
<1>2. 2 * (h \div 2) \in Nat \ {0} /\ (2 * (h \div 2)) \div 2 = h \div 2
    BY <1>1
<1> QED BY <1>2 DEF h, ClearBit0, SameHash

\* The table starts empty.
LEMMA InitHash == HashInit => HashInv
  BY SizeAssumption DEF HashInit, HashInv, TypeOK, ChainHolds, BucketHolds, BloomHolds

\* Exporting a symbol writes its hash into the chain word of its own index.
LEMMA ExportChain ==
  ASSUME HashInv, NEW name \in Names, add_gnu_hash_entry(name)
  PROVE  /\ chain' = [chain EXCEPT ![exports] = ClearBit0(Hash[name])]
         /\ bucket' = 1
<1> USE DEF HashInv, TypeOK
<1>1. exports \in 0 .. ChainWords - 1
    BY SizeAssumption DEF add_gnu_hash_entry
<1>2. CASE exports = 0
  BY <1>1, <1>2 DEF BucketHolds, add_gnu_hash_entry, check_gnu_hash_collision
<1>3. CASE exports # 0
  <2>1. bucket = 1
      BY <1>3 DEF BucketHolds
  <2>2. PICK k \in 0 .. ChainWords - 1 :
          IsFirstFree(0, k) /\ chain' = [chain EXCEPT ![k] = ClearBit0(Hash[name])]
      BY <2>1 DEF add_gnu_hash_entry, check_gnu_hash_collision
  <2>3. bucket' = 1
      BY <2>1 DEF add_gnu_hash_entry, check_gnu_hash_collision
  <2>4. \A j \in 0 .. ChainWords - 1 : j < exports => chain[j] # 0
    <3> SUFFICES ASSUME NEW j \in 0 .. ChainWords - 1, j < exports PROVE chain[j] # 0
        OBVIOUS
    <3>1. names[j + 1] \in Names
        BY <1>1
    <3> QED BY <3>1, ClearedHash DEF ChainHolds
  <2>5. chain[exports] = 0
      BY <1>1 DEF ChainHolds
  <2>6. k = exports
      BY <1>1, <2>2, <2>4, <2>5 DEF IsFirstFree
  <2> QED BY <2>2, <2>3, <2>6
<1> QED BY <1>2, <1>3

\* Exporting a symbol keeps the invariant.
LEMMA ExportKeeps ==
  ASSUME HashInv, NEW name \in Names, add_gnu_hash_entry(name)
  PROVE  HashInv'
<1> USE DEF HashInv
<1>1. /\ names' = Append(names, name) /\ exports' = exports + 1
      /\ exports = Len(names) /\ exports < ChainWords
    BY DEF add_gnu_hash_entry
<1>2. /\ names \in Seq(Names) /\ exports \in Nat /\ ChainWords \in Nat
      /\ chain \in [0 .. ChainWords - 1 -> Nat]
    BY SizeAssumption DEF TypeOK
<1>3. /\ names' \in Seq(Names) /\ Len(names') = exports + 1
      /\ names'[exports + 1] = name
      /\ \A i \in 1 .. exports : names'[i] = names[i] /\ names[i] \in Names
    BY <1>1, <1>2
<1>4. chain' = [chain EXCEPT ![exports] = ClearBit0(Hash[name])] /\ bucket' = 1
    BY ExportChain
<1>5. Hash[name] \in Nat /\ ClearBit0(Hash[name]) \in Nat
    BY HashAssumption, ClearedHash
<1> DEFINE h == Hash[name]
<1>6. bloom' = [bloom EXCEPT ![Word(h)] = @ \cup {Bit1(h), Bit2(h)}]
    BY DEF add_gnu_hash_entry, set_bloom_bits
<1>7. /\ Word(h) \in 0 .. BloomSize - 1
      /\ Bit1(h) \in 0 .. WordBits - 1 /\ Bit2(h) \in 0 .. WordBits - 1
    BY <1>5, BloomRange
<1>8. bloom \in [0 .. BloomSize - 1 -> SUBSET (0 .. WordBits - 1)]
    BY DEF TypeOK
<1>9. bloom' \in [0 .. BloomSize - 1 -> SUBSET (0 .. WordBits - 1)]
  <2> HIDE DEF h
  <2> QED BY <1>6, <1>7, <1>8
<1>10. TypeOK'
    BY <1>1, <1>2, <1>3, <1>4, <1>5, <1>9 DEF TypeOK
<1>11. ChainHolds'
  <2> SUFFICES ASSUME NEW j \in 0 .. ChainWords - 1
               PROVE  chain'[j] = IF j < exports + 1 THEN ClearBit0(Hash[names'[j + 1]]) ELSE 0
      BY <1>1 DEF ChainHolds
  <2>1. CASE j < exports
    <3>1. names'[j + 1] = names[j + 1]
        BY <1>2, <1>3, <2>1
    <3>2. chain'[j] = chain[j]
        BY <1>2, <1>4, <2>1
    <3> QED BY <1>2, <2>1, <3>1, <3>2 DEF ChainHolds
  <2>2. CASE j = exports
      BY <1>2, <1>3, <1>4, <2>2
  <2>3. CASE j > exports
      BY <1>2, <1>4, <2>3 DEF ChainHolds
  <2> QED BY <1>2, <2>1, <2>2, <2>3
<1>12. BucketHolds'
    BY <1>1, <1>2, <1>4 DEF BucketHolds
<1>13. BloomHolds'
  <2> SUFFICES ASSUME NEW i \in 1 .. exports + 1
               PROVE  /\ Bit1(Hash[names'[i]]) \in bloom'[Word(Hash[names'[i]])]
                      /\ Bit2(Hash[names'[i]]) \in bloom'[Word(Hash[names'[i]])]
      BY <1>1 DEF BloomHolds
  <2>1. CASE i = exports + 1
    <3>1. names'[i] = name
        BY <1>3, <2>1
    <3> HIDE DEF h
    <3>2. Bit1(h) \in bloom'[Word(h)] /\ Bit2(h) \in bloom'[Word(h)]
        BY <1>6, <1>7, <1>8
    <3> QED BY <3>1, <3>2 DEF h
  <2>2. CASE i \in 1 .. exports
    <3> DEFINE g == Hash[names[i]]
    <3>1. names'[i] = names[i] /\ names[i] \in Names
        BY <1>3, <2>2
    <3>2. Word(g) \in 0 .. BloomSize - 1
        BY <3>1, HashAssumption, BloomRange
    <3>3. Bit1(g) \in bloom[Word(g)] /\ Bit2(g) \in bloom[Word(g)]
        BY <2>2 DEF BloomHolds
    <3> HIDE DEF g, h
    <3>4. bloom[Word(g)] \subseteq bloom'[Word(g)]
        BY <1>6, <1>8, <3>2
    <3> QED BY <3>1, <3>3, <3>4 DEF g
  <2> QED BY <1>2, <2>1, <2>2
<1> QED BY <1>10, <1>11, <1>12, <1>13

\* An import adds a name behind the exported ones and touches nothing else.
LEMMA ImportKeeps ==
  ASSUME HashInv, NEW name \in Names, add_dynsym_import(name)
  PROVE  HashInv'
<1> USE DEF HashInv
<1>1. /\ names' = Append(names, name) /\ Len(names) < ChainWords
      /\ UNCHANGED <<exports, bucket, chain, bloom>>
    BY DEF add_dynsym_import
<1>2. names \in Seq(Names) /\ exports \in 0 .. Len(names) /\ ChainWords \in Nat
    BY SizeAssumption DEF TypeOK
<1>3. /\ names' \in Seq(Names) /\ Len(names') = Len(names) + 1
      /\ \A i \in 1 .. exports : names'[i] = names[i]
    BY <1>1, <1>2
<1>4. TypeOK'
    BY <1>1, <1>2, <1>3 DEF TypeOK
<1>5. ChainHolds'
  <2> SUFFICES ASSUME NEW j \in 0 .. ChainWords - 1
               PROVE  chain[j] = IF j < exports THEN ClearBit0(Hash[names'[j + 1]]) ELSE 0
      BY <1>1 DEF ChainHolds
  <2>1. j < exports => names'[j + 1] = names[j + 1]
      BY <1>2, <1>3
  <2> QED BY <2>1 DEF ChainHolds
<1>6. BucketHolds'
    BY <1>1 DEF BucketHolds
<1>7. BloomHolds'
    BY <1>1, <1>3 DEF BloomHolds
<1> QED BY <1>4, <1>5, <1>6, <1>7

\* The indices gnu_lookup accepts are the exports of that name.
LEMMA MatchesAreExports ==
  ASSUME HashInv, NEW s \in Names, NEW i \in 1 .. ChainWords
  PROVE  Matches(s, i) <=> i <= exports /\ names[i] = s
<1> USE DEF HashInv, TypeOK
<1>1. Hash[s] \in Nat /\ Hash[s] >= 2
    BY HashAssumption
<1>2. i - 1 \in 0 .. ChainWords - 1 /\ (i - 1) + 1 = i
    BY SizeAssumption
<1>3. chain[i - 1] = IF i - 1 < exports THEN ClearBit0(Hash[names[i]]) ELSE 0
    BY <1>2 DEF ChainHolds
<1>4. CASE i <= exports
  <2>1. names[i] \in Names /\ i <= Len(names)
      BY <1>4
  <2>2. chain[i - 1] = ClearBit0(Hash[names[i]])
      BY <1>4, <1>3
  <2>3. names[i] = s => SameHash(Hash[s], chain[i - 1])
      BY <2>1, <2>2, ClearedHash DEF SameHash
  <2> QED BY <1>4, <2>1, <2>3 DEF Matches, SameHash
<1>5. CASE ~(i <= exports)
  <2>1. chain[i - 1] = 0
      BY <1>5, <1>3
  <2>2. ~SameHash(Hash[s], 0)
      BY <1>1 DEF SameHash
  <2> QED BY <1>5, <2>1, <2>2 DEF Matches, SameHash
<1> QED BY <1>4, <1>5

\* find_sym2 is right in every state the invariant describes.
LEMMA LookupIsRight == HashInv => ExportedAreFound /\ OthersAreNotFound
<1> SUFFICES ASSUME HashInv PROVE ExportedAreFound /\ OthersAreNotFound
    OBVIOUS
<1> USE DEF HashInv, TypeOK
<1>1. exports \in Nat /\ exports <= ChainWords /\ ChainWords \in Nat
    BY SizeAssumption
<1>2. ExportedAreFound
  <2> SUFFICES ASSUME NEW i \in 1 .. exports, \A j \in 1 .. i - 1 : names[j] # names[i]
               PROVE  find_sym2(names[i]) = i
      BY DEF ExportedAreFound
  <2> DEFINE s == names[i]
             found == {k \in bucket .. ChainWords : Matches(s, k)}
  <2>1. s \in Names /\ i \in 1 .. ChainWords
      BY <1>1
  <2>2. bucket = 1
      BY <1>1 DEF BucketHolds
  <2>3. \A k \in 1 .. ChainWords : Matches(s, k) <=> k <= exports /\ names[k] = s
      BY <2>1, MatchesAreExports
  <2>4. i \in found
      BY <1>1, <2>1, <2>2, <2>3
  <2>5. \A k \in found : i <= k
      BY <1>1, <2>2, <2>3
  <2>6. found \subseteq Nat
      BY <2>2
  <2> DEFINE least == CHOOSE k \in found : \A j \in found : k <= j
  <2> HIDE DEF found
  <2>7. least \in found /\ \A j \in found : least <= j
      BY <2>4, <2>5
  <2> HIDE DEF least
  <2>8. least = i
      BY <2>4, <2>5, <2>6, <2>7
  <2>9. gnu_lookup(s) = i
      BY <2>2, <2>4, <2>8 DEF gnu_lookup, found, least
  <2>10. Bit1(Hash[s]) \in bloom[Word(Hash[s])] /\ Bit2(Hash[s]) \in bloom[Word(Hash[s])]
      BY DEF BloomHolds
  <2> QED BY <2>9, <2>10 DEF find_sym2, gnu_lookup_filtered
<1>3. OthersAreNotFound
  <2> SUFFICES ASSUME NEW s \in Names, ~IsExported(s)
               PROVE  find_sym2(s) \in {0, RunsOff}
      BY DEF OthersAreNotFound
  <2>1. CASE bucket = 0
      BY <2>1 DEF find_sym2, gnu_lookup_filtered, gnu_lookup
  <2>2. CASE bucket # 0
    <3>1. bucket = 1
        BY <2>2 DEF BucketHolds
    <3>2. \A k \in 1 .. ChainWords : ~Matches(s, k)
      <4> SUFFICES ASSUME NEW k \in 1 .. ChainWords PROVE ~Matches(s, k)
          OBVIOUS
      <4>1. Matches(s, k) <=> k <= exports /\ names[k] = s
          BY MatchesAreExports
      <4> QED BY <1>1, <4>1 DEF IsExported
    <3>3. {k \in bucket .. ChainWords : Matches(s, k)} = {}
        BY <3>1, <3>2
    <3> QED BY <2>2, <3>3 DEF find_sym2, gnu_lookup_filtered, gnu_lookup
  <2> QED BY <2>1, <2>2
<1> QED BY <1>2, <1>3

\* find_sym2 binds a name to its first export and never binds a name nobody
\* exports, for every hash function that avoids 0 and 1, in every order of
\* exports and imports.
THEOREM FindSymIsRight == HashSpec => [](TypeOK /\ ExportedAreFound /\ OthersAreNotFound)
<1>1. HashInit => HashInv
    BY InitHash
<1>2. HashInv /\ [HashNext]_hashVars => HashInv'
  <2> SUFFICES ASSUME HashInv, [HashNext]_hashVars PROVE HashInv'
      OBVIOUS
  <2>1. CASE \E name \in Names : add_gnu_hash_entry(name)
      BY <2>1, ExportKeeps
  <2>2. CASE \E name \in Names : add_dynsym_import(name)
      BY <2>2, ImportKeeps
  <2>3. CASE UNCHANGED hashVars
      BY <2>3 DEF hashVars, HashInv, TypeOK, ChainHolds, BucketHolds, BloomHolds
  <2> QED BY <2>1, <2>2, <2>3 DEF HashNext
<1>3. HashInv => TypeOK /\ ExportedAreFound /\ OthersAreNotFound
    BY LookupIsRight DEF HashInv
<1> QED BY <1>1, <1>2, <1>3, PTL DEF HashSpec

\* A name that no object exports is bound to nothing, however full the chains and
\* whatever the Bloom filter lets through.
THEOREM OthersAreNotFoundSound == HashSpec => []OthersAreNotFound
BY FindSymIsRight, PTL
=============================================================================
