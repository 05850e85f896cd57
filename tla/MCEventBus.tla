------------------------------ MODULE MCEventBus ------------------------------
\* EventBus on small instances.
EXTENDS EventBus, TLC

CONSTANTS p1, p2, s1, s2

\* One publisher has an order to keep, the other interferes.
MCMaxPublished == p1 :> 2 @@ p2 :> 1

OneEvent == p1 :> 1
=============================================================================
