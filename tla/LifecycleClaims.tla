--------------------------- MODULE LifecycleClaims ---------------------------
(***************************************************************************)
(* What comments and documents say of the lifecycle kernel and the code    *)
(* does not do.  Each claim has a configuration of its own, which ends in  *)
(* a behaviour of the kernel that contradicts it.                          *)
(***************************************************************************)
EXTENDS LifecycleKernel

\* "At most one attempt is open per domain at a time"
\* (kernel.go, OpenAttempt; docs/lifecycle-protocol.md 7).
AtMostOneAttemptOpen ==
    \A d \in Domain : \A a, b \in OpenAttempts(d) : a = b

\* "events are refused until it is [delivered]" (kernel.go, Kernel): a domain
\* whose accept was not delivered has no attempt.
NothingBeforeAccept ==
    \A a \in Attempt : attempt[a].state = "Open" => ~acceptPending[attempt[a].domain]

\* "the lost lane must still be able to publish the expected recovery fence
\* to the renderer" (kernel.go, RequestDomain): a lane whose active shell is
\* lost has an episode to recover from.
LostLaneKeepsFence == [][\A l \in Lane :
    Top(l) # None /\ state[Top(l)] = "Established" /\ lifecycle'[l].state = "Lost" =>
        recovery'[l].episode # None]_vars

\* "a live top re-derives the state its own events would have set"
\* (kernel.go, TransportLost): a loss elsewhere leaves the top's fact alone.
LossKeepsTopsFact == [][\A t \in Transport, l \in Lane :
    TransportLost(t) /\ Top(l) # None /\ ~adopted[Top(l)] /\ Top(l)' = Top(l) =>
        lifecycle'[l] = lifecycle[l]]_vars

\* "`start` with an explicit `attempt` that mismatches a pending app attempt
\* -> rejected" (docs/lifecycle-protocol.md 7): no start naming another id
\* ever starts the submitted attempt.
MismatchedStartRejected == [][\A a \in KernelAttempt :
    attempt[a].state = "Open" /\ ~attempt[a].started /\ attempt'[a].started =>
        attempt'[a].shellID \in {None, a}]_vars

\* "The shell's `complete` for it is rejected" (docs/lifecycle-protocol.md
\* 12.2, of an attempt open when the coordinator was replaced): no attempt
\* this kernel never held is completed.
ForeignCompletionRejected == [][\A a \in Attempt :
    attempt[a].state = "Unminted" => attempt'[a].state # "Completed"]_vars

=============================================================================
