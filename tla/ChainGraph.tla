----------------------------- MODULE ChainGraph -----------------------------
(***************************************************************************)
(* A production chain is a graph of nodes that operators edit              *)
(* (edges.service.ts).  The module follows the graph of one chain;         *)
(* ChainPlan lays out tasks from it.                                       *)
(***************************************************************************)
EXTENDS Naturals

CONSTANTS
  Nodes,      \* the nodes of the chain
  Graphs,     \* bound: the graphs that the chain may have at first
  Editable,   \* bound: edges, without their kind, that operators add
  MaxEdits    \* bound: calls of operators after that

Edge == [parent : Nodes, child : Nodes, fan : BOOLEAN]

Parents(E, n)  == {e.parent : e \in {f \in E : f.child = n}}
Children(E, n) == {e.child : e \in {f \in E : f.parent = n}}

\* The edges without their kind.
Ends(E) == {<<e.parent, e.child>> : e \in E}

Closed(E, S) == \A e \in E : e.parent \in S => e.child \in S

\* The nodes that are in a set or behind one of its nodes.
Behind(E, from) ==
  {n \in Nodes : \A S \in SUBSET Nodes : from \subseteq S /\ Closed(E, S) => n \in S}

Acyclic(E) == \A n \in Nodes : n \notin Behind(E, Children(E, n))

ASSUME GraphAssumption ==
  /\ MaxEdits \in Nat /\ Editable \subseteq Nodes \X Nodes
  /\ \A E \in Graphs : E \subseteq Edge /\ Acyclic(E)

VARIABLES
  edges,    \* table production_chain_edge
  adds,     \* calls of add that have checked the graph, not yet written
  crossed,  \* history: an add was written over one it had not seen
  edits

graphVars == <<edges, adds, crossed, edits>>

GraphInit == edges \in Graphs /\ adds = {} /\ crossed = FALSE /\ edits = MaxEdits
-----------------------------------------------------------------------------
\* Mutant: the way from the parent to the child is looked for.
ClosesCycleBackward(E, p, c) == c \in Behind(E, {p})

\* assertNoCycle looks for the parent behind the child.
ClosesCycle(E, p, c) == p \in Behind(E, {c})

\* add checks the graph as it is ...
AddRead(p, c, fan) ==
  /\ edits > 0 /\ edits' = edits - 1
  /\ p # c /\ ~ClosesCycle(edges, p, c)
  /\ adds' = adds \cup {[edge |-> [parent |-> p, child |-> c, fan |-> fan],
                         seen |-> edges]}
  /\ UNCHANGED <<edges, crossed>>

\* ... and inserts the edge in a statement of its own, unless there is one
\* between the two nodes.
AddWrite(a) ==
  /\ a \in adds /\ adds' = adds \ {a}
  /\ IF \E e \in edges : e.parent = a.edge.parent /\ e.child = a.edge.child
     THEN UNCHANGED <<edges, crossed>>
     ELSE /\ edges' = edges \cup {a.edge}
          /\ crossed' = (crossed \/ ~(Ends(edges) \subseteq Ends(a.seen)))
  /\ UNCHANGED edits

\* update may turn a static edge into a fan-out edge or back.
UpdateEdge(e) ==
  /\ edits > 0 /\ edits' = edits - 1
  /\ edges' = (edges \ {e}) \cup {[e EXCEPT !.fan = ~@]}
  /\ UNCHANGED <<adds, crossed>>

DeleteEdge(e) ==
  /\ edits > 0 /\ edits' = edits - 1
  /\ edges' = edges \ {e}
  /\ UNCHANGED <<adds, crossed>>

GraphNext ==
  \/ \E pc \in Editable, fan \in BOOLEAN : AddRead(pc[1], pc[2], fan)
  \/ \E a \in adds : AddWrite(a)
  \/ \E e \in edges : UpdateEdge(e) \/ DeleteEdge(e)

GraphSpec == GraphInit /\ [][GraphNext]_graphVars
-----------------------------------------------------------------------------
\* "The graph must remain acyclic": however operators edit, it does, unless
\* two calls of add overlap, each of which checks the graph without the
\* other's edge.
ChainStaysAcyclic == Acyclic(edges) \/ crossed
=============================================================================
