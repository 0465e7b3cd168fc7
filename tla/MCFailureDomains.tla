-------------------------- MODULE MCFailureDomains --------------------------
(* Four calls, all of one domain, or one person's call of another domain.  *)
EXTENDS FailureDomains

CONSTANTS p1, p2, b1, b2, k1, k2

MCCall == {p1, p2, b1, b2}
MCBackground == {b1, b2}
MCKey == {k1, k2}

MCInit ==
  /\ Init
  /\ \/ key = [c \in MCCall |-> k1]
     \/ key = [c \in MCCall |-> IF c = p2 THEN k2 ELSE k1]

MCSpec == MCInit /\ [][Next]_vars /\ Fairness
=============================================================================
