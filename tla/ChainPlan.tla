------------------------------ MODULE ChainPlan ------------------------------
(***************************************************************************)
(* How the API lays out the batches of a task from the graph of its chain  *)
(* (task.service.ts): expand creates the nodes that are not behind a       *)
(* fan-out edge, parents first, and expandFanOut those behind a fan-out    *)
(* edge, for each batch that has succeeded where the edge begins: a        *)
(* fan-out inside another is laid out once per batch of the outer one.     *)
(* The module follows one chain and one task.  Each loop of the code is a  *)
(* function from one of its states to the next, taken as often as the loop *)
(* can run.                                                                *)
(***************************************************************************)
EXTENDS ChainGraph, Sequences, FiniteSets, Functions

CONSTANTS
  Listings,   \* orders in which the database may list nodes and edges
  Widths,     \* bound: how many blocks a batch may list for its fan-out
  MaxNesting  \* bound: fan-outs inside each other

ASSUME ListingAssumption ==
  /\ IsFiniteSet(Nodes) /\ Widths \subseteq Nat \ {0} /\ MaxNesting \in Nat
  /\ Listings \subseteq {l \in Seq(Nodes) : Range(l) = Nodes}

VARIABLES
  plan,     \* the nodes that expand has created, in their order; none before
  batches,  \* table batch
  fanned,   \* batches whose fan-out has been laid out
  edited    \* history: the graph was edited after expand had read it

planVars == <<plan, batches, fanned>>

\* A batch is named by its node, by its block if it is one of those that a
\* fan-out creates for the blocks it was given (0 if not), and by its group:
\* the batches, from the outermost on, whose fan-outs it came out of.
Name  == [node : Nodes, block : Nat]
Batch == [node : Nodes, block : Nat, group : Seq(Name)]

\* The group of what the fan-out of a batch creates.
Inside(b) == Append(b.group, [node |-> b.node, block |-> b.block])

Static(E)      == {e \in E : ~e.fan}
FanChildren(E) == {e.child : e \in E \ Static(E)}

\* The first node of a set in a listing.
First(l, S) ==
  l[CHOOSE i \in DOMAIN l : l[i] \in S /\ \A k \in DOMAIN l : l[k] \in S => i <= k]

\* A loop from its first state on.
Loop(step, start, rounds) ==
  LET run[k \in 0 .. rounds] == IF k = 0 THEN start ELSE step[run[k - 1]]
  IN  run[rounds]

PlanInit ==
  /\ GraphInit /\ edited = FALSE
  /\ plan = <<>> /\ batches = {} /\ fanned = {}

\* The operators' calls.
Edit ==
  /\ GraphNext /\ UNCHANGED planVars
  /\ edited' = (edited \/ (plan # <<>> /\ edges' # edges))
-----------------------------------------------------------------------------
(* expand.                                                                 *)

\* isBlocked: what is behind a fan-out edge is not created yet.
Blocked(E) == Behind(E, FanChildren(E))

\* The nodes that placeNode is called for next and that it does not skip: the
\* parents of the node that is being visited, or any if none is.
Due(E, planned, s) ==
  ((IF s.path = <<>> THEN Nodes ELSE Parents(E, Head(s.path))) \cap planned)
    \ (Range(s.path) \cup Range(s.order))

\* The nodes that are visited, the innermost first, and those that are placed.
Placing == [path : Seq(Nodes), order : Seq(Nodes)]

\* Mutant: a node is placed before its parents are visited.
PlaceNodeFirst(E, planned, l) ==
  [s \in Placing |->
     IF Due(E, planned, s) # {}
     THEN LET n == First(l, Due(E, planned, s))
          IN  [path |-> <<n>> \o s.path, order |-> Append(s.order, n)]
     ELSE IF s.path = <<>> THEN s ELSE [s EXCEPT !.path = Tail(@)]]

\* placeNode: a node is placed when its parents are.
PlaceNode(E, planned, l) ==
  [s \in Placing |->
     IF Due(E, planned, s) # {}
     THEN [s EXCEPT !.path = <<First(l, Due(E, planned, s))>> \o @]
     ELSE IF s.path = <<>> THEN s
     ELSE [path |-> Tail(s.path), order |-> Append(s.order, Head(s.path))]]

Planned(E, l) ==
  Loop(PlaceNode(E, Nodes \ Blocked(E), l), [path |-> <<>>, order |-> <<>>],
       2 * Cardinality(Nodes)).order

Expand(l) ==
  /\ plan = <<>>
  /\ plan' = Planned(edges, l)
  /\ batches' = {[node |-> n, block |-> 0, group |-> <<>>] : n \in Range(plan')}
  /\ UNCHANGED <<graphVars, edited, fanned>>
-----------------------------------------------------------------------------
(* expandFanOut.                                                           *)

\* The breadth-first search behind the fanned-out node, one edge at a time.
Searching == [queue : Seq(Nodes), found : Seq(Nodes)]

Search(E, l) ==
  [s \in Searching |->
     IF s.queue = <<>> THEN s
     ELSE LET fresh == Children(E, Head(s.queue)) \ Range(s.found)
          IN  IF fresh = {} THEN [s EXCEPT !.queue = Tail(@)]
              ELSE [queue |-> Append(s.queue, First(l, fresh)),
                    found |-> Append(s.found, First(l, fresh))]]

\* Mutant: a node is created when one of its parents is.
ResolvedOne(E, n, assigned) == Parents(E, n) \cap assigned # {}

\* All incoming static edges start at nodes of this fan-out.
Resolved(E, n, assigned) == Parents(E, n) \subseteq assigned

\* The loop creates what is resolved and puts the rest at the end; it stops
\* when it has run twice as often as nodes remain, which become fewer.
LayingOut == [remaining : Seq(Nodes), iterations : Nat, assigned : SUBSET Nodes]

LayOut(E) ==
  [s \in LayingOut |->
     IF s.remaining = <<>> \/ s.iterations >= 2 * Len(s.remaining) THEN s
     ELSE LET n == Head(s.remaining)
              resolved == Resolved(E, n, s.assigned)
          IN  [remaining  |-> IF resolved THEN Tail(s.remaining)
                              ELSE Append(Tail(s.remaining), n),
               iterations |-> s.iterations + 1,
               assigned   |-> IF resolved THEN s.assigned \cup {n}
                              ELSE s.assigned]]

\* The nodes that a fan-out to a node creates.
FanOutOf(E, tint, l) ==
  LET found == Loop(Search(E, l), [queue |-> <<tint>>, found |-> <<>>],
                    2 * Cardinality(Nodes) + 1).found
  IN  Loop(LayOut(E),
           [remaining |-> found, iterations |-> 0, assigned |-> {tint}],
           2 * Cardinality(Nodes)).assigned

\* Its batches: one for each block of the first node, one of every other.
LaidOut(tint, new, blocks, group) ==
  {[node |-> tint, block |-> k, group |-> group] : k \in 1 .. blocks}
    \cup {[node |-> m, block |-> 0, group |-> group] : m \in new \ {tint}}

\* A batch succeeds once; the first fan-out edge in the listing is taken.
FanOut(b, l) ==
  LET tints == {m \in Nodes :
                  [parent |-> b.node, child |-> m, fan |-> TRUE] \in edges}
      first == First(l, tints)
      new   == FanOutOf(Static(edges), first, l)
  IN  /\ b \notin fanned /\ tints # {} /\ Len(b.group) < MaxNesting
      /\ \E blocks \in Widths :
           batches' = batches \cup LaidOut(first, new, blocks, Inside(b))
      /\ fanned' = fanned \cup {b}
      /\ UNCHANGED <<graphVars, edited, plan>>

PlanNext ==
  \/ Edit
  \/ \E l \in Listings : Expand(l) \/ \E b \in batches : FanOut(b, l)

PlanSpec == PlanInit /\ [][PlanNext]_<<graphVars, planVars, edited>>
-----------------------------------------------------------------------------
Taken == {b.node : b \in batches}

\* Nodes with a fan-out edge and another edge coming in, whichever its kind.
Mixed(E) == {e.child : e \in {f \in E : f.fan /\ \E g \in E : g # f /\ g.child = f.child}}

\* Out of fan-outs of the same nodes.
SameTrail(g, h) == Len(g) = Len(h) /\ \A i \in 1 .. Len(g) : g[i].node = h[i].node

\* While nobody edits a chain, the plan has the parents of a node before it:
\* the wiring of datasets skips a parent that is not there yet.
ParentsComeFirst ==
  Acyclic(edges) /\ ~edited => \A i \in DOMAIN plan :
    Parents(edges, plan[i]) \subseteq {plan[k] : k \in 1 .. i - 1}

\* While nobody edits a chain, a batch finds its inputs, whatever fan-outs it
\* is inside, beside and in front of: for each static edge into its node there
\* is a batch of the parent in its own group, and for a fan-out edge the batch
\* that fanned out.  And no two fan-outs create the same node, so that it has
\* one batch for each choice of a block in each of those it is inside.  This
\* does not hold, and is not claimed, of a node that has a fan-out edge and
\* another edge coming in, and of the nodes behind such a node.
FanOutsAreWired ==
  Acyclic(edges) /\ ~edited =>
    \A b \in batches : b.node \notin Behind(edges, Mixed(edges)) =>
      /\ \A e \in edges : e.child = b.node =>
           \E c \in batches : /\ c.node = e.parent
                              /\ b.group = IF e.fan THEN Inside(c) ELSE c.group
      /\ \A c \in batches : c.node = b.node => SameTrail(b.group, c.group)
=============================================================================
