----------------------------- MODULE FrameLedger -----------------------------
(***************************************************************************)
(* What applying the shell's lifecycle frames promises, without its        *)
(* transactions: the frames enter the ledger whole, one at a time and in   *)
(* the order of the stream, and what a frame has to tell the world is told *)
(* in order, at most once, and only of a frame the ledger holds.           *)
(***************************************************************************)
EXTENDS Naturals, Sequences

VARIABLES
    ledger,     \* what each applied frame stored, in order
    told        \* the last thing told: <<frame, number of its effect>>

vars == <<ledger, told>>

Init ==
    /\ ledger = <<>>
    /\ told = <<0, 0>>

\* The next frame is stored, whatever it holds.
Apply ==
    /\ Len(ledger') = Len(ledger) + 1
    /\ \A i \in DOMAIN ledger : ledger'[i] = ledger[i]
    /\ UNCHANGED told

\* The last frame stored is told of: its next effect, or its first one.
Tell ==
    /\ ledger # <<>>
    /\ \/ told[1] = Len(ledger) /\ told' = <<told[1], told[2] + 1>>
       \/ told[1] < Len(ledger) /\ told' = <<Len(ledger), 1>>
    /\ UNCHANGED ledger

Next == Apply \/ Tell

Spec == Init /\ [][Next]_vars

=============================================================================
