--------------------------- MODULE MCCodingAttempt ---------------------------
(* Instances of CodingAttempt: four coordinators in two pairs, one or two    *)
(* placements, attempt IDs whose key order is the order of signing, and the  *)
(* faults that are met together.                                             *)
EXTENDS CodingAttempt

CONSTANTS n1, n2, n3, n4, g1, g2

TwoPairs == {<<n1, n2>>, <<n3, n4>>}

InOrder == [a \in Ids |-> a]

Budget(kinds, faults, attempts, epochs, placed) ==
    [kinds |-> kinds, faults |-> faults, attempts |-> attempts,
     epochs |-> epochs, placed |-> placed]

RetryBudget == Budget({"fail", "lost", "crash"}, 2, 3, 1, {g1, g2})
PlacementBudget == Budget({"fail", "unreachable"}, 3, 3, 1, {g1, g2})
BlameBudget == Budget({"invalid", "expire", "conflict"}, 4, 3, 1, {g1})
ExpiryBudget == Budget({"expire", "crash"}, 3, 3, 1, {g1})
RetireBudget == Budget({"retire", "crash"}, 3, 2, 1, {g1, g2})
MembershipBudget ==
    Budget({"membership", "unreachable", "fail"}, 2, 2, 2, {g1, g2})

SafetyBudgets ==
    {RetryBudget, PlacementBudget, BlameBudget, ExpiryBudget, RetireBudget,
     MembershipBudget}

LiveBudgets ==
    {Budget(FaultKinds \ {"retire", "membership"}, 1, 3, 1, {g1}),
     Budget({"fail", "lost", "crash", "conflict"}, 2, 4, 1, {g1})}

=============================================================================
