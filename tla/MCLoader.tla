------------------------------ MODULE MCLoader -----------------------------
(* Libraries "os" and "log" of the loader, a program and three libraries    *)
(* that need each other in chains, diamonds and cycles.                     *)
EXTENDS Loader

NeededOf(own, os, log, main, a, b, c) ==
  [f \in Files |->
     CASE f = "loader" -> own [] f = "os" -> os [] f = "log" -> log
       [] f = "main" -> main [] f = "a" -> a [] f = "b" -> b [] f = "c" -> c]

DefinesSets ==
  {("loader" :> {}) @@ ("os" :> {"s"}) @@ ("log" :> {"t"}) @@ ("main" :> {}) @@ ("a" :> {"s"})
      @@ ("b" :> {"t"}) @@ ("c" :> {}),
   ("loader" :> {}) @@ ("os" :> {"s", "t"}) @@ ("log" :> {}) @@ ("main" :> {"t"}) @@ ("a" :> {})
      @@ ("b" :> {"s"}) @@ ("c" :> {"s"})}

NeededSets ==
  {NeededOf(own, os, log, main, a, b, c) :
     own \in {<<>>, <<"os", "log">>}, os \in {<<>>, <<"log">>}, log \in {<<"os">>, <<"b">>},
     main \in {<<"a">>, <<"os", "b", "a">>, <<"c", "log">>},
     a \in {<<"b">>, <<"main", "os">>, <<"b", "c">>},
     b \in {<<>>, <<"a", "c">>, <<"log">>}, c \in {<<"a">>}}

Missing == {[gone |-> {}, bad |-> {}], [gone |-> {"b"}, bad |-> {}],
            [gone |-> {"log"}, bad |-> {}], [gone |-> {}, bad |-> {"b"}]}

SmallWorlds ==
  {[needed |-> n, defines |-> d, refers |-> [f \in Files |-> Symbols],
    present |-> Files \ m.gone, mappable |-> Files \ m.bad] :
     n \in NeededSets, d \in DefinesSets, m \in Missing}
=============================================================================
