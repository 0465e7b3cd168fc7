--------------------------- MODULE RunLeaseClaims ---------------------------
(* What comments of internal/transport promise of a run, and RunLease shows. *)
EXTENDS RunLease

\* request_broker.go:694-696: "at most one goroutine signals p.ch (the consume
\* above removed the pending, and the channel is buffered), so the send never
\* blocks".  withdrawParked sends on the same channel with no pending entry.
ResolveNeverBlocks == req.answering => req.ch = "empty"

\* request_broker.go:210-212: of a parked request "the answer must survive that
\* in the channel's buffer until somebody comes back for it": an answer the
\* broker accepted, of a run nobody ended, is on its way to the model.
AnswerSurvives ==
  /\ req.accepted /\ ~lease.fired /\ person.pc = "idle" /\ lane.takeovers = 0
  /\ At("model") \/ (At("over") /\ call.res \notin {"bound", "noClient"})
  => req.answering \/ req.ch = "result" \/ call.res = "result"

\* ws_run.go:363-370: of "a park record for a run that is being terminalized",
\* which "nothing else would ever withdraw", RequestRun says that it withdraws
\* it.  A run whose bound fired before the verdict is parked all the same.
TerminalizedIsNotParked == At("park") /\ lease.fired => ~lease.done

\* run_park.go:40-46: "a parked run is still bounded when nobody comes back",
\* for "the wall timer is still armed": a command left running with the model
\* has a bound that is still to fire, or is being ended.
ParkedRunIsBounded ==
  At("model") /\ shell.cmd = "running" /\ lane.takeovers = 0
  => ~lease.fired \/ Ending
=============================================================================
