---------------------------- MODULE ChainPlanDocs ----------------------------
(***************************************************************************)
(* The production chain of the documentation                               *)
(* (docs/concepts/production-chain.mdx) and what is said about it.         *)
(***************************************************************************)
EXTENDS ChainPlan

CONSTANTS resize, calc, tint, combine, publish, cleanup

static(p, c) == [parent |-> p, child |-> c, fan |-> FALSE]

Warhol == {{static(resize, calc), [static(calc, tint) EXCEPT !.fan = TRUE],
            static(tint, combine), static(combine, publish),
            static(combine, cleanup)}}

SeedOrder == {<<resize, calc, tint, combine, publish, cleanup>>}

\* "Create downstream static nodes in topological order" (task.service.ts,
\* line 1002): once a batch has fanned out, every node behind it has a batch.
EveryNodeBehindIsCreated ==
  \A b \in fanned : Behind(edges, Children(edges, b.node)) \subseteq Taken
=============================================================================
