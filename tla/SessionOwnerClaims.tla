-------------------------- MODULE SessionOwnerClaims --------------------------
(***************************************************************************)
(* What the helper says of an intent's record and the owner does not keep. *)
(* The claim has a configuration of its own, which ends in a violation.    *)
(***************************************************************************)
EXTENDS SessionOwner

\* "in_progress" is a token that is bound and awaits its result (proto/intent.go:206), and
\* once the screen's completeness is lost every later intent is refused (runtime.go:875).
\* Commit refuses such an intent before it touches its record, so the owner records the
\* state "admitted" as the intent's result: nobody writes it and its status says
\* "in_progress" for as long as it is kept.
RecordIsTerminal == \A t \in Token : book[t].result # "in_progress"
=============================================================================
