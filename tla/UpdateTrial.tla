---------------------------- MODULE UpdateTrial ----------------------------
(***************************************************************************)
(* What an in-place update promises, with no file, lock or crash in sight. *)
(* One build is installed.  An update replaces it in one step and keeps    *)
(* the replaced build as the fallback while the new one is on trial.  The  *)
(* updater ends an uncertified trial in one way, by going back to that     *)
(* fallback; only a certified build loses its fallback or its trial with   *)
(* the build kept.  Other hands may replace the build, and are counted.    *)
(***************************************************************************)
EXTENDS Naturals

CONSTANTS Builds, NoBuild

VARIABLES
  installed,   \* the build at the install path, NoBuild before the first
  trial,       \* "none", "trial" or "certified"
  fallback,    \* the build an automatic rollback would put back, or NoBuild
  others       \* how often somebody other than the updater replaced the build

vars == <<installed, trial, fallback, others>>

Init == /\ installed \in Builds \cup {NoBuild}
        /\ trial = "none"
        /\ fallback = NoBuild
        /\ others = 0

Install(b) == /\ trial = "none"
              /\ installed' = b
              /\ trial' = "trial"
              /\ fallback' = installed
              /\ UNCHANGED others

Certify == /\ trial = "trial"
           /\ trial' = "certified"
           /\ UNCHANGED <<installed, fallback, others>>

Retire == /\ trial = "certified"
          /\ fallback' = NoBuild
          /\ UNCHANGED <<installed, trial, others>>

End == /\ trial = "certified"
       /\ trial' = "none"
       /\ fallback' = NoBuild
       /\ UNCHANGED <<installed, others>>

\* A certified build that is still on trial may be taken back as well: nothing
\* on disk says that it was certified (CertifiedStays of UpdateClaims).
RollBack == /\ trial # "none"
            /\ fallback # NoBuild
            /\ installed' = fallback
            /\ trial' = "none"
            /\ fallback' = NoBuild
            /\ UNCHANGED others

\* Somebody other than the updater put a bundle at the install path.
Replace(b) == /\ others' = others + 1
              /\ installed' = b
              /\ trial' = "none"
              /\ fallback' = NoBuild

Next == \/ \E b \in Builds : Install(b) \/ Replace(b)
        \/ Certify \/ Retire \/ End \/ RollBack

Spec == Init /\ [][Next]_vars
=============================================================================
