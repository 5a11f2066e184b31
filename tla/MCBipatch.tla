------------------------------ MODULE MCBipatch ----------------------------
(* Inputs of up to five bytes in pages of two, patches of up to four lines, *)
(* of which the last one may end early.                                     *)
EXTENDS Bipatch

Inputs == {<<>>, <<5>>, <<5, 6>>, <<5, 6, 7>>, <<5, 6, 7, 5, 6>>}
Lines(statuses) ==
  {Insert(a, b, s) : a \in {0, 1, 2, 4}, b \in {<<6>>, <<7, 5>>}, s \in statuses}
  \cup {Delete(a, n, s) : a \in {0, 1, 2, 4}, n \in 1 .. 2, s \in statuses}
LastLines == Lines({"ok"}) \cup
  {l \in Lines({"cmd", "addr", "data", "open"}) : l.addr \in {0, 1} /\ l.len = 1}
Patches ==
  {<<>>} \cup {<<l>> : l \in LastLines} \cup {<<l, m>> : l \in Lines({"ok"}), m \in LastLines}
  \cup {<<l, m, n>> : l \in {Insert(0, <<7, 5>>, "ok"), Delete(1, 1, "ok")},
                      m \in Lines({"ok"}), n \in LastLines}
  \cup {<<Insert(a, x, "ok"), Delete(a, Len(x), "ok"), Insert(b, y, "ok"), Delete(b, Len(y), "ok")>> :
          a \in {0, 1}, b \in {1, 2}, x \in {<<6>>, <<7, 5>>}, y \in {<<6>>, <<7, 5>>}}

SmallWorlds == {[input |-> i, patch |-> x] : i \in Inputs, x \in Patches}
=============================================================================
