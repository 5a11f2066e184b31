------------------------------ MODULE MCBuild ------------------------------
(* Makefiles put together from a few rules, in several orders.              *)
EXTENDS Build

Obj(b) == Word("obj", b, "o")
Src(b) == Word("src", b, "c")
Gen(b) == Word("gen", b, "h")
App == Word("", "app", "")
All == Word("", "all", "")
Cc == Ref("cc")
Tool == Word("", "tool", "")

Rule(t, ds, c) == <<Line("head", t, ds), Line("text", Null, c)>>
Blank == Line("blank", Null, <<>>)
CcIs(v) == Line("var", Word("", "cc", ""), v)

Link == Rule(App, <<Obj("a"), Obj("b")>>, <<Tool, In, Out>>)
Compile == Rule(Obj("%"), <<Src("%"), Gen("x")>>, <<Cc, In, Out>>)
CompileA == Rule(Obj("a"), <<Gen("x"), Src("a")>>, <<Cc, In, Out>>)
Header == Rule(Gen("x"), <<>>, <<Tool, Out>>)
Phony == Rule(All, <<App, Obj("a"), Src("b")>>, <<Tool>>)
Yacc == Rule(Src("%"), <<Gen("%")>>, <<Tool, In, Out>>)
Yacced == Rule(Src("a"), <<Gen("x"), App>>, <<Tool, In, Out>>)
NoCommand == <<Line("head", All, <<App>>), Blank>>
Stray == <<Line("text", Null, <<Tool>>)>>

\* References at the end of a line and as a target, and what does not fit.
EndRef == Rule(Gen("x"), <<>>, <<Tool, Out, Cc>>)
DepRef == Rule(App, <<Obj("a"), Cc>>, <<Tool, In, Out>>)
OnlyRef == Rule(App, <<Cc>>, <<Tool, In, Out>>)
RefHead == Rule(Cc, <<>>, <<Tool>>)
Long == Rule(Gen("x"), <<>>, <<Cc, Tool, Tool, Tool, Tool, Out>>)

Parts == {Link, Compile, CompileA, Header, Phony, Yacc, Yacced, NoCommand, Stray}
Bodies ==
  {b \in [1 .. 3 -> Parts] : Cardinality(Range(b) \cap {Link, Compile, CompileA}) > 1} \cup
  UNION {SetToSeqs({Phony, Link, Compile, p}) : p \in Parts \ {Phony, Link, Compile, Stray}} \cup
  SetToSeqs({Link, CompileA, Header, Yacced}) \cup
  {<<Phony, Link, Compile, Header, Yacc>>, <<Link, NoCommand, Stray, Compile>>} \cup
  {<<Link, Compile, EndRef>>, <<DepRef, CompileA, Header>>, <<OnlyRef, Compile>>,
   <<RefHead, Link, Compile, Header>>, <<Link, Compile, Long>>}

Definition(b) ==
  CASE Header \in Range(b)    -> <<Blank, CcIs(<<Tool>>)>> \o FlattenSeq(b)
    [] Compile \in Range(b)   -> <<CcIs(<<Tool, Tool>>)>> \o b[1] \o <<Blank>> \o FlattenSeq(Tail(b))
    [] OTHER                  -> b[1] \o <<CcIs(<<Tool>>)>> \o FlattenSeq(Tail(b))

Sources == {Src("a"), Src("b")}
Inputs ==
  {[files |-> Sources \cup {Gen("x")}, failing |-> {}],
   [files |-> Sources \cup {Obj("b"), Gen("x")}, failing |-> {Obj("a")}],
   [files |-> Sources \cup {Obj("a")}, failing |-> {}],
   [files |-> {Gen("a"), Gen("b"), Gen("x")}, failing |-> {}],
   [files |-> {}, failing |-> {Obj("a"), Gen("x")}]}

SmallWorlds ==
  {[makefile |-> Definition(b), files |-> i.files, failing |-> i.failing,
    goal |-> IF Phony \in Range(b) THEN All ELSE App] : b \in Bodies, i \in Inputs}
=============================================================================
