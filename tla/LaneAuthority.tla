---------------------------- MODULE LaneAuthority ----------------------------
(***************************************************************************)
(* What the lifecycle kernel promises about authority, without its         *)
(* protocol: on every lane at most one shell speaks at a time, a shell     *)
(* speaks for its own lane only, the right to speak never passes from one  *)
(* living shell straight to another, and a shell that has ended never      *)
(* speaks again.                                                           *)
(***************************************************************************)
CONSTANTS Shell, Lane, None

VARIABLES
    home,       \* the lane of each shell that has one
    phase,      \* unborn, alive or dead
    speaker     \* the shell each lane listens to, or None

vars == <<home, phase, speaker>>

Init ==
    /\ home = [d \in Shell |-> None]
    /\ phase = [d \in Shell |-> "unborn"]
    /\ speaker = [l \in Lane |-> None]

\* A shell is expected on a lane.
Expect(d, l) ==
    /\ home[d] = None
    /\ home' = [home EXCEPT ![d] = l]
    /\ UNCHANGED <<phase, speaker>>

\* A new shell speaks on a lane where nobody does.
Begin(d, l) ==
    /\ home[d] \in {None, l}
    /\ phase[d] = "unborn"
    /\ speaker[l] = None
    /\ home' = [home EXCEPT ![d] = l]
    /\ phase' = [phase EXCEPT ![d] = "alive"]
    /\ speaker' = [speaker EXCEPT ![l] = d]

\* The speaker falls silent, and lives on.
Yield(l) ==
    /\ speaker[l] # None
    /\ speaker' = [speaker EXCEPT ![l] = None]
    /\ UNCHANGED <<home, phase>>

\* Some shells end, and with them their right to speak.
End(ended) ==
    /\ phase' = [d \in Shell |-> IF d \in ended THEN "dead" ELSE phase[d]]
    /\ speaker' = [l \in Lane |-> IF speaker[l] \in ended THEN None ELSE speaker[l]]
    /\ UNCHANGED home

\* A silent shell takes its lane back, when nobody speaks on it or whoever
\* did ends in the same step.
Resume(d, l, ended) ==
    /\ home[d] = l
    /\ phase[d] = "alive"
    /\ d \notin ended
    /\ speaker[l] \in ended \cup {None}
    /\ \A m \in Lane \ {l} : speaker[m] \notin ended
    /\ phase' = [e \in Shell |-> IF e \in ended THEN "dead" ELSE phase[e]]
    /\ speaker' = [speaker EXCEPT ![l] = d]
    /\ UNCHANGED home

Next ==
    \/ \E d \in Shell, l \in Lane : Expect(d, l) \/ Begin(d, l)
    \/ \E l \in Lane : Yield(l)
    \/ \E ended \in SUBSET Shell : End(ended)
    \/ \E d \in Shell, l \in Lane, ended \in SUBSET Shell : Resume(d, l, ended)

Spec == Init /\ [][Next]_vars

-----------------------------------------------------------------------------
\* Only the living speak, each on its own lane.
OnlyTheLivingSpeak ==
    \A l \in Lane : speaker[l] # None =>
        phase[speaker[l]] = "alive" /\ home[speaker[l]] = l

=============================================================================
