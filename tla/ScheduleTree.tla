---------------------------- MODULE ScheduleTree ----------------------------
(***************************************************************************)
(* A rewrite of a schedule tree by a ScheduleNodeTransformer              *)
(* (treenodes.py:401-429).  generic_visit walks the children of a scope;  *)
(* the transformer's visit method for a child returns None (delete), a    *)
(* node (replace) or a list (splice); a child without a visit method is   *)
(* visited generically, which recurses into it and returns it.  When the *)
(* children are done, every new value gets the scope as its parent and   *)
(* the scope's children are replaced by the new values.                   *)
(*                                                                         *)
(* What a visit method returns is a choice among Results:                  *)
(*   "generic"   no visit method: generic_visit(child), returns the child  *)
(*   "delete"    returns None                                              *)
(*   "replace"   returns a new leaf                                        *)
(*   "rescope"   returns ScheduleTreeScope(children=child.children)        *)
(*   "rescope_dataclass"  returns a subclass scope (LoopScope, MapScope,   *)
(*               ...) built with child.children; its constructor is the   *)
(*               one @dataclass generates, not ScheduleTreeScope.__init__ *)
(*   "unwrap"    returns child.children, a list                           *)
(*   "with_none" returns a list holding the child and a None              *)
(* Each frame of the stack is one generic_visit in progress: the scope,  *)
(* the children still to visit, and new_values.                           *)
(***************************************************************************)
EXTENDS Naturals, Sequences, SequencesExt

CONSTANTS
    Root,          \* the root scope
    Nodes,         \* every node id, fresh ones included
    Fresh,         \* ids of the nodes visit methods construct
    InitScopes,    \* the scopes of the tree built
    InitChildren,  \* children of every node of the tree built
    Results        \* what visit methods may return

NoNode == "none"   \* None

VARIABLES
    children,      \* children[n]: n.children
    parent,        \* parent[n]: n.parent, or NoNode
    scopes,        \* the nodes that are ScheduleTreeScopes
    used,          \* fresh ids already constructed
    chosen,        \* chosen[n]: what the visit of n returned, or "unvisited"
    newNode,       \* newNode[n]: the node a visit of n constructed
    stack,         \* frames of generic_visit, innermost first
    status         \* "running", "done", or "raised" (AttributeError)

vars == <<children, parent, scopes, used, chosen, newNode, stack, status>>

\* ScheduleTreeNode.preorder_traversal / ScheduleTreeScope.preorder_traversal
RECURSIVE Preorder(_)
Preorder(n) ==
    <<n>> \o FlattenSeq([j \in 1..Len(children[n]) |-> Preorder(children[n][j])])

InTree == ToSet(Preorder(Root))

Frame(n) == [node |-> n, todo |-> children[n], newv |-> <<>>]

Init ==
    /\ children = [n \in Nodes |-> IF n \in Fresh THEN <<>> ELSE InitChildren[n]]
    \* The built tree: ScheduleTreeScope.__init__ set every child's parent.
    /\ parent = [n \in Nodes |->
                   IF \E m \in Nodes \ Fresh : n \in ToSet(InitChildren[m])
                   THEN CHOOSE m \in Nodes \ Fresh : n \in ToSet(InitChildren[m])
                   ELSE NoNode]
    /\ scopes = InitScopes
    /\ used = {}
    /\ chosen = [n \in Nodes |-> IF n = Root THEN "generic" ELSE "unvisited"]
    /\ newNode = [n \in Nodes |-> NoNode]
    /\ stack = <<Frame(Root)>>
    /\ status = "running"

Top == Head(stack)
Visiting == Head(Top.todo)
NewId == CHOOSE f \in Fresh \ used : TRUE

\* The top frame, with its next child taken and vals added to new_values.
Continue(vals) == [Top EXCEPT !.todo = Tail(@), !.newv = @ \o vals]

\* One iteration of the loop over node.children (lines 417-425): the visit
\* of the child returns result r.
VisitChild(r) ==
    /\ status = "running"
    /\ Top.todo # <<>>
    /\ chosen' = [chosen EXCEPT ![Visiting] = r]
    /\ \/ /\ r = "generic" /\ Visiting \in scopes
          /\ stack' = <<Frame(Visiting), Continue(<<>>)>> \o Tail(stack)
          /\ UNCHANGED <<children, parent, scopes, used, newNode>>
       \/ /\ r = "generic" /\ Visiting \notin scopes
          /\ stack' = <<Continue(<<Visiting>>)>> \o Tail(stack)
          /\ UNCHANGED <<children, parent, scopes, used, newNode>>
       \/ /\ r = "delete"
          /\ stack' = <<Continue(<<>>)>> \o Tail(stack)
          /\ UNCHANGED <<children, parent, scopes, used, newNode>>
       \/ /\ r = "replace" /\ Fresh \ used # {}
          /\ used' = used \cup {NewId}
          /\ newNode' = [newNode EXCEPT ![Visiting] = NewId]
          /\ stack' = <<Continue(<<NewId>>)>> \o Tail(stack)
          /\ UNCHANGED <<children, parent, scopes>>
       \/ /\ r \in {"rescope", "rescope_dataclass"}
          /\ Visiting \in scopes /\ Fresh \ used # {}
          /\ used' = used \cup {NewId}
          /\ newNode' = [newNode EXCEPT ![Visiting] = NewId]
          /\ scopes' = scopes \cup {NewId}
          /\ children' = [children EXCEPT ![NewId] = children[Visiting]]
          \* ScheduleTreeScope.__init__ (lines 42-48) sets child.parent;
          \* the generated dataclass __init__ only stores the list.
          /\ parent' = IF r = "rescope"
                       THEN [n \in Nodes |-> IF n \in ToSet(children[Visiting])
                                             THEN NewId ELSE parent[n]]
                       ELSE parent
          /\ stack' = <<Continue(<<NewId>>)>> \o Tail(stack)
       \/ /\ r = "unwrap" /\ Visiting \in scopes
          /\ stack' = <<Continue(children[Visiting])>> \o Tail(stack)
          /\ UNCHANGED <<children, parent, scopes, used, newNode>>
       \/ /\ r = "with_none"
          /\ stack' = <<Continue(<<Visiting, NoNode>>)>> \o Tail(stack)
          /\ UNCHANGED <<children, parent, scopes, used, newNode>>
    /\ r \in Results
    /\ UNCHANGED status

\* Index of the first None of new_values, or Len + 1.
FirstNone(s) ==
    IF \E j \in 1..Len(s) : s[j] = NoNode
    THEN CHOOSE j \in 1..Len(s) : s[j] = NoNode /\ \A k \in 1..(j - 1) : s[k] # NoNode
    ELSE Len(s) + 1

\* Mutant: the children are replaced only when some new value is left.
FinishFrameKeepEmpty ==
    /\ status = "running"
    /\ Top.todo = <<>>
    /\ FirstNone(Top.newv) > Len(Top.newv)
    /\ parent' = [n \in Nodes |-> IF n \in ToSet(Top.newv) THEN Top.node ELSE parent[n]]
    /\ children' = IF Top.newv = <<>> THEN children
                   ELSE [children EXCEPT ![Top.node] = Top.newv]
    /\ IF Tail(stack) = <<>>
       THEN stack' = <<>> /\ status' = "done"
       ELSE /\ stack' = [Tail(stack) EXCEPT ![1].newv = Append(@, Top.node)]
            /\ UNCHANGED status
    /\ UNCHANGED <<scopes, used, chosen, newNode>>

\* Mutant: the parent is set only on values that are not None, and the
\* values are stored as they are.
FinishFrameSkipNone ==
    /\ status = "running"
    /\ Top.todo = <<>>
    /\ parent' = [n \in Nodes |-> IF n \in ToSet(Top.newv) THEN Top.node ELSE parent[n]]
    /\ children' = [children EXCEPT ![Top.node] = Top.newv]
    /\ IF Tail(stack) = <<>>
       THEN stack' = <<>> /\ status' = "done"
       ELSE /\ stack' = [Tail(stack) EXCEPT ![1].newv = Append(@, Top.node)]
            /\ UNCHANGED status
    /\ UNCHANGED <<scopes, used, chosen, newNode>>

\* The end of generic_visit (lines 426-429): every new value gets the scope
\* as parent, the children are replaced, and the scope is returned to the
\* enclosing generic_visit, which appends it.  A None among the values
\* raises AttributeError at val.parent after the values before it got
\* their parent, and before the children are replaced.
FinishFrame ==
    /\ status = "running"
    /\ Top.todo = <<>>
    /\ LET cut == FirstNone(Top.newv)
           set == {Top.newv[j] : j \in 1..(cut - 1)}
       IN  /\ parent' = [n \in Nodes |-> IF n \in set THEN Top.node ELSE parent[n]]
           /\ IF cut <= Len(Top.newv)
              THEN /\ stack' = <<>> /\ status' = "raised"
                   /\ UNCHANGED children
              ELSE /\ children' = [children EXCEPT ![Top.node] = Top.newv]
                   /\ IF Tail(stack) = <<>>
                      THEN stack' = <<>> /\ status' = "done"
                      ELSE /\ stack' = [Tail(stack) EXCEPT ![1].newv = Append(@, Top.node)]
                           /\ UNCHANGED status
    /\ UNCHANGED <<scopes, used, chosen, newNode>>

\* The transformer has returned, or raised.
Finished ==
    /\ status \in {"done", "raised"}
    /\ UNCHANGED vars

Next == (\E r \in Results : VisitChild(r)) \/ FinishFrame \/ Finished

Spec == Init /\ [][Next]_vars

-----------------------------------------------------------------------------

\* What the spec says a rewrite makes of child c: nothing when deleted, the
\* returned node when replaced, its children when a list of them is
\* returned, and c itself otherwise.
Contribution(c) ==
    CASE chosen[c] = "delete" -> <<>>
      [] chosen[c] \in {"replace", "rescope", "rescope_dataclass"} -> <<newNode[c]>>
      [] chosen[c] = "unwrap" -> InitChildren[c]
      [] OTHER -> <<c>>

\* Spec section 4.4: returning nothing deletes the node, returning a node
\* replaces it, returning a sequence splices it in place.  After the
\* transformer returns, every scope it visited generically has as children
\* exactly the contributions of its original children, in their order.
RewriteMatchesSpec ==
    status = "done" =>
        \A n \in InTree \ Fresh :
            n \in InitScopes /\ chosen[n] = "generic" =>
                children[n] = FlattenSeq([j \in 1..Len(InitChildren[n]) |->
                                            Contribution(InitChildren[n][j])])

\* Spec section 4.4: children's parent links are always kept consistent
\* with actual containment after any rewrite (generic_visit line 427 and
\* the constructors of the scopes a visit method returns).
ParentsMatchContainment ==
    status = "done" =>
        \A n \in InTree : \A j \in 1..Len(children[n]) : parent[children[n][j]] = n

\* validate_has_no_other_node_types (lines 432-441) never raises on a tree
\* a transformer has rewritten: a visit method whose returned list holds a
\* None is spliced by generic_visit without a check (line 423), and only
\* val.parent (line 427) stops the None before the children are replaced,
\* at whatever depth of the walk the list was returned.
ChildrenAreNodes ==
    \A n \in Nodes : NoNode \notin ToSet(children[n])
=============================================================================
