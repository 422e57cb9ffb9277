----------------------------- MODULE Rendering -----------------------------
(***************************************************************************)
(* The textual rendering of a schedule tree (the as_string methods of      *)
(* treenodes.py).  A node renders as its own line at its indentation; a   *)
(* scope adds its children one level deeper, or "pass" when it has none;   *)
(* a loop chooses one of five forms by _check_loop_variant and wraps the   *)
(* body in the lines of that form.                                         *)
(*                                                                         *)
(* A node is a record [k (its class), lf (the LoopRegion flags of a loop), *)
(* ch (children)].  A line is a record [ind (indentation level), tok]:    *)
(* tok stands for the line's text with conditions, names and memlets      *)
(* left out, and Blank is an empty line.  The rendered string is kept as  *)
(* its split into lines, so '\n'.join is concatenation and a string that *)
(* ends in '\n' ends with Blank.                                           *)
(***************************************************************************)
EXTENDS Naturals, Sequences, SequencesExt

CONSTANTS
    Trees        \* schedule trees to render, rooted at a ScheduleTreeScope

NoFlags == [init |-> FALSE, update |-> FALSE, var |-> FALSE,
            inverted |-> FALSE, ubc |-> FALSE]
LoopFlags == [init: BOOLEAN, update: BOOLEAN, var: BOOLEAN,
              inverted: BOOLEAN, ubc: BOOLEAN]

\* Classes whose as_string writes a header line and then the children.
HeaderKinds == {"gblock", "if", "stateif", "elif", "else", "map", "consume", "pipeline"}
\* Classes whose as_string writes one line.
LeafKinds == {"label", "goto", "assign", "break", "continue", "tasklet",
              "library", "copy", "dscopy", "view", "nview", "refset"}

Line(ind, tok) == [ind |-> ind, tok |-> tok]
Blank == Line(0, "")

-----------------------------------------------------------------------------

\* GBlock, StateLabel, GotoNode and AssignNode.as_string (lines 85-117).
ControlFlowText(k) ==
    CASE k = "gblock" -> "gblock:" [] k = "label" -> "label"
      [] k = "goto" -> "goto" [] k = "assign" -> "assign"

\* IfScope, StateIfScope, BreakNode, ContinueNode, ElifScope and
\* ElseScope.as_string (lines 181-237).
BranchText(k) ==
    CASE k = "if" -> "if" [] k = "stateif" -> "stateif" [] k = "break" -> "break"
      [] k = "continue" -> "continue" [] k = "elif" -> "elif" [] k = "else" -> "else:"

\* MapScope, ConsumeScope and PipelineScope.as_string (lines 246-274).
DataflowText(k) ==
    CASE k = "map" -> "map" [] k = "consume" -> "consume" [] k = "pipeline" -> "pipeline"

\* TaskletNode, LibraryCall, CopyNode, DynScopeCopyNode, ViewNode, NView and
\* RefSetNode.as_string (lines 283-379): one line each.
LeafText(k) ==
    CASE k = "tasklet" -> "tasklet" [] k = "library" -> "library" [] k = "copy" -> "copy"
      [] k = "dscopy" -> "dscopy" [] k = "view" -> "view" [] k = "nview" -> "nview"
      [] k = "refset" -> "refset"

Text(k) ==
    CASE k \in {"gblock", "label", "goto", "assign"} -> ControlFlowText(k)
      [] k \in {"if", "stateif", "break", "continue", "elif", "else"} -> BranchText(k)
      [] k \in {"map", "consume", "pipeline"} -> DataflowText(k)
      [] OTHER -> LeafText(k)

\* LoopScope._check_loop_variant (lines 127-143).
LoopVariant(lf) ==
    IF lf.update /\ lf.init /\ lf.var
    THEN IF lf.inverted THEN (IF lf.ubc THEN "do-for-uncond-increment" ELSE "do-for")
         ELSE "for"
    ELSE IF lf.inverted THEN "do-while" ELSE "while"

RECURSIVE AsString(_, _), ScopeString(_, _)

\* ScheduleTreeScope.as_string (lines 50-53): the children one level deeper.
ScopeString(n, ind) ==
    IF n.ch = <<>> THEN <<Line(ind + 1, "pass")>>
    ELSE FlattenSeq([j \in DOMAIN n.ch |-> AsString(n.ch[j], ind + 1)])

\* LoopScope.as_string (lines 145-172).  The do-for footer ends in '\n'.
LoopString(n, ind) ==
    LET body == ScopeString(n, ind)
        L(d, t) == Line(ind + d, t)
    IN  CASE LoopVariant(n.lf) = "do-for-uncond-increment" ->
                <<L(0, "init"), L(0, "do:")>> \o body \o <<L(1, "update"), L(0, "while c")>>
          [] LoopVariant(n.lf) = "do-for" ->
                <<L(0, "init"), L(0, "while True:")>> \o body
                \o <<L(1, "if (not c):"), L(2, "break"), L(1, "update"), Blank>>
          [] LoopVariant(n.lf) = "for" -> <<L(0, "for")>> \o body
          [] LoopVariant(n.lf) = "while" -> <<L(0, "while")>> \o body
          [] OTHER -> <<L(0, "do:")>> \o body \o <<L(0, "while c")>>

\* node.as_string(indent), dispatched on the node's class (lines 26-27 and
\* the overrides above).  A plain ScheduleTreeScope has no header.
AsString(n, ind) ==
    CASE n.k = "scope" -> ScopeString(n, ind)
      [] n.k = "loop" -> LoopString(n, ind)
      [] n.k \in HeaderKinds -> <<Line(ind, Text(n.k))>> \o ScopeString(n, ind)
      [] OTHER -> <<Line(ind, Text(n.k))>>

-----------------------------------------------------------------------------

VARIABLES
    tree,        \* the schedule tree
    text         \* tree.as_string(), as lines; <<>> before it is called

vars == <<tree, text>>

Init ==
    /\ tree \in Trees
    /\ text = <<>>

\* stree.as_string()
Render ==
    /\ text = <<>>
    /\ text' = AsString(tree, 0)
    /\ UNCHANGED tree

Rendered ==
    /\ text # <<>>
    /\ UNCHANGED vars

Next == Render \/ Rendered

Spec == Init /\ [][Next]_vars

-----------------------------------------------------------------------------
(* Reading a rendering back: blank lines are skipped, a line at the       *)
(* current level starts a node, and the deeper lines after it are its     *)
(* body.  A loop's form is read from its lines.  A text that cannot be    *)
(* read yields "unreadable" among the nodes.                              *)

\* The loop form the spec's decision table gives for the LoopRegion flags.
TableForm(lf) ==
    IF ~(lf.init /\ lf.update /\ lf.var)
    THEN IF lf.inverted THEN "do-while" ELSE "while"
    ELSE IF ~lf.inverted THEN "for"
    ELSE IF lf.ubc THEN "do-for-uncond-increment" ELSE "do-for"

\* What a tree should read back as: kinds, loop forms and children.
RECURSIVE Expected(_)
Expected(n) ==
    [k |-> n.k, form |-> IF n.k = "loop" THEN TableForm(n.lf) ELSE "none",
     ch |-> [j \in DOMAIN n.ch |-> Expected(n.ch[j])]]

Node(k, form, ch) == [k |-> k, form |-> form, ch |-> ch]

Unreadable == Node("unreadable", "none", <<>>)

\* The number of lines at the start of ls deeper than level d.
RECURSIVE Deeper(_, _)
Deeper(ls, d) == IF ls # <<>> /\ Head(ls).ind > d THEN 1 + Deeper(Tail(ls), d) ELSE 0

Drop(ls, n) == SubSeq(ls, n + 1, Len(ls))

RECURSIVE ReadBlock(_, _)
ReadBody(ls, d) == IF ls = <<Line(d, "pass")>> THEN <<>> ELSE ReadBlock(ls, d)

ReadBlock(ls, d) ==
  IF ls = <<>> THEN <<>>
  ELSE
  LET tok == Head(ls).tok
      nb == Deeper(Tail(ls), d)
      body == SubSeq(ls, 2, nb + 1)
      rest == Drop(ls, nb + 1)
      kindOf == CHOOSE k \in HeaderKinds \cup LeafKinds : Text(k) = tok
      \* the lines after "init": "do:" or "while True:", then a body
      nb2 == Deeper(Drop(ls, 2), d)
      body2 == SubSeq(ls, 3, nb2 + 2)
      rest2 == Drop(ls, nb2 + 2)
      Ends(s, t) == Len(s) >= Len(t) /\ SubSeq(s, Len(s) - Len(t) + 1, Len(s)) = t
      Cut(s, t) == SubSeq(s, 1, Len(s) - Len(t))
      forTail == <<Line(d + 1, "if (not c):"), Line(d + 2, "break"), Line(d + 1, "update")>>
  IN
  CASE Head(ls).ind # d -> <<Unreadable>>
    [] tok \in {"for", "while"} ->
         <<Node("loop", tok, ReadBody(body, d + 1))>> \o ReadBlock(rest, d)
    [] tok = "do:" /\ rest # <<>> /\ Head(rest) = Line(d, "while c") ->
         <<Node("loop", "do-while", ReadBody(body, d + 1))>> \o ReadBlock(Tail(rest), d)
    [] tok = "init" /\ Len(ls) >= 2 /\ ls[2] = Line(d, "do:") /\ Ends(body2, <<Line(d + 1, "update")>>)
         /\ rest2 # <<>> /\ Head(rest2) = Line(d, "while c") ->
         <<Node("loop", "do-for-uncond-increment", ReadBody(Front(body2), d + 1))>>
         \o ReadBlock(Tail(rest2), d)
    [] tok = "init" /\ Len(ls) >= 2 /\ ls[2] = Line(d, "while True:") /\ Ends(body2, forTail) ->
         <<Node("loop", "do-for", ReadBody(Cut(body2, forTail), d + 1))>> \o ReadBlock(rest2, d)
    [] \E k \in HeaderKinds : Text(k) = tok ->
         <<Node(kindOf, "none", ReadBody(body, d + 1))>> \o ReadBlock(rest, d)
    [] \E k \in LeafKinds : Text(k) = tok /\ nb = 0 ->
         <<Node(kindOf, "none", <<>>)>> \o ReadBlock(rest, d)
    [] OTHER -> <<Unreadable>>

ReadBack(ls) == ReadBody(SelectSeq(ls, LAMBDA l : l # Blank), 1)

\* Spec section 4.4: the tree has a canonical textual rendering, and a
\* loop's printed form is the one the decision table over its LoopRegion
\* flags gives.  Once as_string has run, reading its lines back by
\* indentation gives the tree: every node's class, every loop's form and
\* every scope's children, in order.
RenderingReadsBack ==
    text # <<>> => ReadBack(text) = Expected(tree).ch
=============================================================================
