----------------------------- MODULE Dominators -----------------------------
(***************************************************************************)
(* Dominance over the control-flow graph of one SDFG, and the search for   *)
(* the closest common dominator and post-dominator of the states in which  *)
(* a buffer is accessed (framecode.py, _get_dominator_and_postdominator).  *)
(*                                                                         *)
(* A control-flow graph G is a record [node |-> states, edge |-> pairs] as *)
(* in the community module Graphs; s0 is its start block.  The dominator   *)
(* relations themselves come from dace.sdfg.utils (not in this source      *)
(* tree) and are defined here from the spec (section 4.3): reflexive       *)
(* dominance, post-dominance towards a virtual sink joined to every sink   *)
(* state, an immediate dominator of the start block equal to itself, and   *)
(* an immediate post-dominator equal to itself where only the virtual sink *)
(* post-dominates a block.                                                 *)
(***************************************************************************)
EXTENDS Graphs

\* The graph G with block d and its edges removed.
Without(G, d) ==
    [node |-> G.node \ {d},
     edge |-> {e \in G.edge : e[1] # d /\ e[2] # d}]

\* Blocks with no outgoing control-flow edge: they end the SDFG.
Sinks(G) == {n \in G.node : \A e \in G.edge : e[1] # n}

\* d dominates n: every path from s0 to n passes d (n reachable from s0).
Dominates(G, s0, d, n) ==
    \/ d = n
    \/ d = s0
    \/ /\ d # n
       /\ ~ConnectionsIn(Without(G, d))[s0, n]

\* p post-dominates n: every path from n to a sink passes p.
PostDominates(G, p, n) ==
    \/ p = n
    \/ ~\E x \in Sinks(G) \ {p} : ConnectionsIn(Without(G, p))[n, x]

\* Immediate dominator: the strict dominator that all other strict
\* dominators dominate; the start block is its own immediate dominator.
Idom(G, s0, n) ==
    LET strict == {d \in G.node \ {n} : Dominates(G, s0, d, n)}
    IN  IF strict = {} THEN n
        ELSE CHOOSE d \in strict : \A o \in strict : Dominates(G, s0, o, d)

\* Immediate post-dominator; a block post-dominated only by the virtual
\* sink is its own immediate post-dominator.
Ipostdom(G, n) ==
    LET strict == {p \in G.node \ {n} : PostDominates(G, p, n)}
    IN  IF strict = {} THEN n
        ELSE CHOOSE p \in strict : \A o \in strict : PostDominates(G, o, p)

\* Result of a climb whose chain ends at a block that is its own
\* immediate (post-)dominator: NotImplementedError in the code.
Unresolvable == "Unresolvable"

\* The first while loop of _get_dominator_and_postdominator: climb the
\* immediate-dominator chain from x until x dominates every state in S.
RECURSIVE ClimbDominator(_, _, _, _)
ClimbDominator(G, s0, x, S) ==
    IF \A n \in S : Dominates(G, s0, x, n) THEN x
    ELSE IF Idom(G, s0, x) = x THEN Unresolvable
    ELSE ClimbDominator(G, s0, Idom(G, s0, x), S)

\* The second while loop: the same climb along immediate post-dominators.
RECURSIVE ClimbPostdominator(_, _, _)
ClimbPostdominator(G, x, S) ==
    IF \A n \in S : PostDominates(G, x, n) THEN x
    ELSE IF Ipostdom(G, x) = x THEN Unresolvable
    ELSE ClimbPostdominator(G, Ipostdom(G, x), S)

\* _get_dominator_and_postdominator(sdfg, accesses): states is the list of
\* accessed states in access order; the dominator search starts at the
\* first, the post-dominator search at the last.  ok is FALSE where the
\* code raises NotImplementedError.
GetDominatorAndPostdominator(G, s0, states) ==
    LET S     == Range(states)
        start == ClimbDominator(G, s0, states[1], S)
        end   == ClimbPostdominator(G, states[Len(states)], S)
    IN  [ok |-> start # Unresolvable /\ end # Unresolvable,
         dom |-> start, postdom |-> end]
=============================================================================
