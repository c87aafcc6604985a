--------------------------- MODULE MCAccountCache ---------------------------
(* Model values and bounds for TLC's runs of AccountCache. *)
EXTENDS AccountCache, TLC

CONSTANTS a1, t1, t2, free, pro, enterprise

\* A daily plan and a monthly one, with quotas small enough to be used up, and
\* one without a quota. The daily quota is 2, so that an entry of an earlier day
\* is found with room left in it.
MCLimit == [p \in LimitedPlans |-> IF p = free THEN 2 ELSE 1]
MCRank  == [p \in Plans |-> CASE p = free -> 0 [] p = pro -> 2 [] OTHER -> 4]

TaskSymmetry == Permutations(Tasks)
=============================================================================
