------------------------- MODULE LifecycleLegClaims -------------------------
(***************************************************************************)
(* What comments of the code say of the leg's end and the leg does not     *)
(* keep.  Each has a configuration, which ends in a violation.             *)
(***************************************************************************)
EXTENDS LifecycleLeg

ServedSpec == FairSpec /\ WF_vars(Serve) /\ WF_vars(FinishCarried)

\* An attachment to a session that has exited ends on its own, "instead of hanging
\* forever waiting for bytes that will never come" (session_readopt.go:887).
ExitIsHeard ==
  (shell.exit = "told" /\ coord.phase = "up") ~> (coord.phase # "up" \/ att.done # "no")

\* "A clean exit sends domain_closed first (stream ordering guarantees it precedes EOF)"
\* (adapter.go:752): a shell that said all, its goodbye included, is not lost by EOF.
GoodbyeIsClean == leg.cause = "EndOfStream" => shell.said < Units
=============================================================================
