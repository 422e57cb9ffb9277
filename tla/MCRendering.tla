---------------------------- MODULE MCRendering ----------------------------
(* Trees rooted at a ScheduleTreeScope with one or two children: the     *)
(* first any node, or any scope (a plain ScheduleTreeScope included)      *)
(* holding one leaf or one empty scope; the second a leaf or an empty     *)
(* scope.  The first child's loops take all 32 settings of their flags;   *)
(* the nested and second ones one setting per form, so every form is      *)
(* printed nested, empty, and followed by a sibling.                       *)
EXTENDS Rendering

Mk(k, lf, ch) == [k |-> k, lf |-> lf, ch |-> ch]

ScopesOver(C) ==
    {Mk(k, NoFlags, c) : k \in HeaderKinds \cup {"scope"}, c \in C}
    \cup {Mk("loop", f, c) : f \in LoopFlags, c \in C}

Leaves == {Mk(k, NoFlags, <<>>) : k \in LeafKinds}

\* One setting of the flags for each of the five forms.
FormFlags ==
    {[init |-> a, update |-> a, var |-> a, inverted |-> i, ubc |-> u] :
        a \in BOOLEAN, i \in BOOLEAN, u \in BOOLEAN} \
    {[init |-> FALSE, update |-> FALSE, var |-> FALSE, inverted |-> i, ubc |-> TRUE] : i \in BOOLEAN}

Level2 ==
    Leaves \cup {Mk(k, NoFlags, <<>>) : k \in HeaderKinds \cup {"scope"}}
    \cup {Mk("loop", f, <<>>) : f \in FormFlags}

Level1 == Leaves \cup ScopesOver({<<>>} \cup {<<n>> : n \in Level2})

MCTrees ==
    {Mk("scope", NoFlags, <<a>>) : a \in Level1}
    \cup {Mk("scope", NoFlags, <<a, b>>) : a \in Level1, b \in Level2}
=============================================================================
