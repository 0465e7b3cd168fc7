---------------------------- MODULE UpdateClaims ----------------------------
(***************************************************************************)
(* What the update's own comments and design say of it and the code does   *)
(* not do.  Each ends in a violation, on the instance of ClaimUpdate.cfg.  *)
(***************************************************************************)
EXTENDS UpdateTransaction

\* "LaunchAttempts counts starts of the build this transaction installed"
\* (journal.go:74) and "the transaction is settled where a launch begins, and
\* nowhere else" (main.go:1381): the count is never above the starts.
LaunchesAreStarts ==
  Journaled /\ journal.owner = journal.to => journal.attempts <= starts

\* "A crash anywhere in this sequence is resolved by simply running it again"
\* (the design's 7.5): a repeated finalisation leaves the replaced bundle as
\* the retained copy.
FinalisationRepeats ==
  [][\A w \in Windows : DropOldBackup(w) /\ journal.old # NoId => backup.id # journal.old]_vars

\* "LaunchAttempts counts ... how many times a process running it reached startup
\* without certifying health.  7.5 rolls back on the third" (journal.go:74-76): a
\* build that was certified is not taken back.  Certification writes nothing, and
\* a finalisation that dies before the swap peer is renamed leaves all to count on.
CertifiedStays ==
  [][Exchanged /\ certified => install'.id # journal.old]_vars

\* "The extraction directory lives from Apply step 5 until reconcile or
\* ReportHealthy removes it" (transaction.go:400): with no journal there is none.
ExtractionExplained == extracts # {} => Journaled \/ lock # NoWindow
=============================================================================
