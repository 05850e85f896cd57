------------------------------ MODULE MCPlanMode ------------------------------
\* PlanMode with a session that does everything and one that only plans.
EXTENDS PlanMode, TLC

CONSTANTS main, other

MCAsks == (main :> {"on", "off", "execute", "ask"}) @@ (other :> {"on"})

MCReplies == {[listed |-> {1, 2}, done |-> {}], [listed |-> {}, done |-> {1}],
              [listed |-> {1}, done |-> {1, 2}]}
=============================================================================
