------------------------ MODULE FailureDomainsClaims ------------------------
(* What internal/operation/domains says of its map, and FailureDomains shows. *)
EXTENDS MCFailureDomains

\* domains.go:26-27: "An idle domain's state is dropped, so changing host ids
\* cannot grow the map": a domain whose calls have all ended, each before its
\* deadline, has no entry.
IdleDomainReclaimed ==
  \A k \in Key :
    (\A c \in Call : key[c] = k =>
       pc[c] \in {"idle", "refused", "done"} /\ state[c] # callSettled)
      => ~dom[k].present
=============================================================================
