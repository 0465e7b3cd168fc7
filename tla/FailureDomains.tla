--------------------------- MODULE FailureDomains ---------------------------
(***************************************************************************)
(* The bulkhead and breaker of internal/operation/domains (domains.go): a  *)
(* call takes a permit of its failure domain, a worker of its own runs the *)
(* work, and at its deadline the call settles while the worker keeps the   *)
(* permit until it really returns.  Every step between two takes of the    *)
(* registry's lock, or between a lock and the atomic that decides who      *)
(* gives the permit back, is an action.                                    *)
(***************************************************************************)
EXTENDS Integers, FiniteSets

CONSTANTS
  Call,                \* the invocations, each made at most once
  Background,          \* those of background origin
  Key,                 \* the failure domains
  PerDomain, PersonReserve, AbandonedPerDomain, AbandonedGlobal, HealthyReserve

\* Options.validate.
ASSUME OptionsAssumption ==
  /\ IsFiniteSet(Call) /\ Background \subseteq Call
  /\ PerDomain \in Nat \ {0} /\ PersonReserve \in 0..(PerDomain - 1)
  /\ AbandonedPerDomain \in Nat \ {0} /\ AbandonedGlobal \in Nat \ {0}
  /\ HealthyReserve \in 0..AbandonedGlobal

VARIABLES
  dom,           \* each domain's entry of Registry.dom; Idle and absent are told apart
  abandonedAll,  \* Registry.abandonedAll
  key,           \* the domain each call is made on
  pc,            \* the calling goroutine, in Do and acquire
  worker,        \* the goroutine that runs the work
  state,         \* Do's atomic: 0, or who gives the permit back
  waited,        \* acquire's own flag
  woken          \* the change channel a sleeping call holds was closed

vars == <<dom, abandonedAll, key, pc, worker, state, waited, woken>>

callSettled == 1
workerDone == 2

Entry == [present: BOOLEAN, running: Nat, background: Nat, abandoned: Int, waiters: Nat]
Absent == [present |-> FALSE, running |-> 0, background |-> 0, abandoned |-> 0, waiters |-> 0]

TypeOK ==
  /\ dom \in [Key -> Entry]
  /\ \A k \in Key : ~dom[k].present => dom[k] = Absent
  /\ abandonedAll \in Int
  /\ key \in [Call -> Key]
  /\ pc \in [Call -> {"idle", "acquire", "asleep", "working", "abandoning", "refused", "done"}]
  /\ worker \in [Call -> {"none", "running", "late", "gone"}]
  /\ state \in [Call -> {0, callSettled, workerDone}]
  /\ waited \in [Call -> BOOLEAN] /\ woken \in [Call -> BOOLEAN]

Init ==
  /\ dom = [k \in Key |-> Absent]
  /\ abandonedAll = 0
  /\ key \in [Call -> Key]
  /\ pc = [c \in Call |-> "idle"]
  /\ worker = [c \in Call |-> "none"]
  /\ state = [c \in Call |-> 0]
  /\ waited = [c \in Call |-> FALSE]
  /\ woken = [c \in Call |-> FALSE]

-----------------------------------------------------------------------------
(* What the lock's critical sections share.                                *)

One(c) == IF c \in Background THEN 1 ELSE 0

fits(d, c) ==
  /\ d.running < PerDomain
  /\ c \in Background => d.background < PerDomain - PersonReserve

suspect(d) ==
  \/ abandonedAll >= AbandonedGlobal
  \/ d.abandoned >= AbandonedPerDomain
  \/ d.abandoned > 0 /\ abandonedAll >= AbandonedGlobal - HealthyReserve

dropIfIdle(d) ==
  IF d.running = 0 /\ d.abandoned = 0 /\ d.waiters = 0 THEN Absent ELSE d

\* mutant: a release wakes the waiters of every domain but its own.
WakeElsewhere(k) == woken' = [c \in Call |-> woken[c] \/ (pc[c] = "asleep" /\ key[c] # k)]

\* wakeLocked: the channel every waiter of the domain holds is closed.
wake(k) == woken' = [c \in Call |-> woken[c] \/ (pc[c] = "asleep" /\ key[c] = k)]

\* mutant: a late worker's abandonment is never taken back.
FinishStaysAbandoned(c, abandoned) ==
  /\ dom' = [dom EXCEPT ![key[c]] = dropIfIdle([@ EXCEPT !.running = @ - 1,
                                                         !.background = @ - One(c)])]
  /\ wake(key[c])
  /\ UNCHANGED abandonedAll

\* finish: the permit, and the abandoned count when the worker outlived its call.
Finish(c, abandoned) ==
  LET k == key[c]
      n == IF abandoned THEN 1 ELSE 0
  IN
  /\ dom' = [dom EXCEPT ![k] = dropIfIdle([dom[k] EXCEPT !.running = @ - 1,
                                                         !.background = @ - One(c),
                                                         !.abandoned = @ - n])]
  /\ abandonedAll' = abandonedAll - n
  /\ wake(k)

-----------------------------------------------------------------------------
(* acquire.                                                                *)

Start(c) ==
  /\ pc[c] = "idle"
  /\ pc' = [pc EXCEPT ![c] = "acquire"]
  /\ UNCHANGED <<key, dom, abandonedAll, worker, state, waited, woken>>

Touched(c) == [dom[key[c]] EXCEPT !.present = TRUE]

\* A suspect domain refuses at once, and leaves no entry of its own making.
Refuse(c) ==
  /\ pc[c] = "acquire" /\ suspect(Touched(c))
  /\ dom' = [dom EXCEPT ![key[c]] = dropIfIdle(Touched(c))]
  /\ pc' = [pc EXCEPT ![c] = "refused"]
  /\ UNCHANGED <<key, abandonedAll, worker, state, waited, woken>>

\* The permit is counted, and Do starts the worker.
Grant(c) ==
  /\ pc[c] = "acquire" /\ ~suspect(Touched(c)) /\ fits(Touched(c), c)
  /\ dom' = [dom EXCEPT ![key[c]] =
               [Touched(c) EXCEPT !.running = @ + 1,
                                  !.background = @ + One(c),
                                  !.waiters = @ - (IF waited[c] THEN 1 ELSE 0)]]
  /\ pc' = [pc EXCEPT ![c] = "working"]
  /\ worker' = [worker EXCEPT ![c] = "running"]
  /\ UNCHANGED <<key, abandonedAll, state, waited, woken>>

\* No room: the call counts itself waiting, on every turn of the loop.
Wait(c) ==
  /\ pc[c] = "acquire" /\ ~suspect(Touched(c)) /\ ~fits(Touched(c), c)
  /\ dom' = [dom EXCEPT ![key[c]] = [Touched(c) EXCEPT !.waiters = @ + 1]]
  /\ waited' = [waited EXCEPT ![c] = TRUE]
  /\ woken' = [woken EXCEPT ![c] = FALSE]
  /\ pc' = [pc EXCEPT ![c] = "asleep"]
  /\ UNCHANGED <<key, abandonedAll, worker, state>>

Wake(c) ==
  /\ pc[c] = "asleep" /\ woken[c]
  /\ pc' = [pc EXCEPT ![c] = "acquire"]
  /\ UNCHANGED <<key, dom, abandonedAll, worker, state, waited, woken>>

TurnExpires(c) ==
  /\ pc[c] = "asleep"
  /\ dom' = [dom EXCEPT ![key[c]] = dropIfIdle([dom[key[c]] EXCEPT !.waiters = @ - 1])]
  /\ pc' = [pc EXCEPT ![c] = "refused"]
  /\ UNCHANGED <<key, abandonedAll, worker, state, waited, woken>>

-----------------------------------------------------------------------------
(* Do: the worker and the call's deadline race for the atomic.             *)

\* mutant: the worker's swap is a store, and wins whatever the call did.
WorkerStores(c) == workerDone

WorkerSwaps(c) == IF state[c] = 0 THEN workerDone ELSE state[c]

\* The work returns.  The loser of the swap is the one that gives the permit back.
WorkerReturns(c) ==
  /\ worker[c] = "running"
  /\ state' = [state EXCEPT ![c] = WorkerSwaps(c)]
  /\ worker' = [worker EXCEPT ![c] = IF state'[c] = workerDone THEN "gone" ELSE "late"]
  /\ UNCHANGED <<key, dom, abandonedAll, pc, waited, woken>>

WorkerFinishes(c) ==
  /\ worker[c] = "late"
  /\ Finish(c, TRUE)
  /\ worker' = [worker EXCEPT ![c] = "gone"]
  /\ UNCHANGED <<key, pc, state, waited>>

\* The result is read, also by a call whose deadline lost the swap.
Collect(c) ==
  /\ pc[c] = "working" /\ state[c] = workerDone
  /\ Finish(c, FALSE)
  /\ pc' = [pc EXCEPT ![c] = "done"]
  /\ UNCHANGED <<key, worker, state, waited>>

\* The work's deadline: the call settles first ...
Settle(c) ==
  /\ pc[c] = "working" /\ state[c] = 0
  /\ state' = [state EXCEPT ![c] = callSettled]
  /\ pc' = [pc EXCEPT ![c] = "abandoning"]
  /\ UNCHANGED <<key, dom, abandonedAll, worker, waited, woken>>

CountAbandoned == abandonedAll + 1

\* ... and counts its worker abandoned, which may have finished by then.
Abandon(c) ==
  /\ pc[c] = "abandoning"
  /\ dom' = [dom EXCEPT ![key[c]].abandoned = @ + 1]
  /\ abandonedAll' = CountAbandoned
  /\ wake(key[c])
  /\ pc' = [pc EXCEPT ![c] = "done"]
  /\ UNCHANGED <<key, worker, state, waited>>

Running(c) == WorkerReturns(c) \/ WorkerFinishes(c) \/ Collect(c) \/ Abandon(c)

Next ==
  \E c \in Call :
    \/ Start(c) \/ Refuse(c) \/ Grant(c) \/ Wait(c) \/ Wake(c) \/ TurnExpires(c)
    \/ Settle(c) \/ Running(c)

Spec == Init /\ [][Next]_vars

\* The work returns in the end, and the goroutines run; no deadline has to.
Fairness ==
  \A c \in Call :
    /\ WF_vars(Running(c))
    /\ WF_vars(Refuse(c) \/ Grant(c) \/ Wait(c) \/ Wake(c))

FairSpec == Spec /\ Fairness

-----------------------------------------------------------------------------
(* Safety.                                                                 *)

\* The calls whose permit is out: still the call's to give back, or its worker's.
Holders(k) ==
  {c \in Call : key[c] = k /\
     (pc[c] = "working" \/ (pc[c] \in {"abandoning", "done"} /\ state[c] = callSettled
                            /\ worker[c] # "gone"))}

\* A permit is given back exactly once, by the call or by its late worker,
\* whoever lost the swap: the counts are the permits that are out, and a
\* person always finds the reserve (domains.go:302-334).
PermitsCounted ==
  \A k \in Key :
    /\ dom[k].running = Cardinality(Holders(k))
    /\ dom[k].background = Cardinality(Holders(k) \intersect Background)
    /\ dom[k].running <= PerDomain
    /\ dom[k].background <= PerDomain - PersonReserve

\* The breaker's counts are the workers that outlived their call, less those
\* that were back before their call counted them: nothing is counted twice or
\* never uncounted, and the global count is the sum (domains.go:416-440).
AbandonedCounted ==
  LET Counted(k) == {c \in Call : key[c] = k /\ state[c] = callSettled
                                  /\ pc[c] = "done" /\ worker[c] # "gone"}
      Early(k) == {c \in Call : key[c] = k /\ pc[c] = "abandoning" /\ worker[c] = "gone"}
  IN
  /\ \A k \in Key : dom[k].abandoned = Cardinality(Counted(k)) - Cardinality(Early(k))
  /\ abandonedAll = Cardinality(UNION {Counted(k) : k \in Key})
                    - Cardinality(UNION {Early(k) : k \in Key})

\* A call sleeps only while it has no room: no release, return or abandonment
\* that would let it go on is missed between its check and its wait
\* (domains.go:388-394, 531-536).
NoLostWakeup ==
  \A c \in Call : pc[c] = "asleep" /\ ~woken[c] => ~fits(dom[key[c]], c)

\* Every permit, abandonment and wake-up is accounted for.
Accounted == TypeOK /\ PermitsCounted /\ AbandonedCounted /\ NoLostWakeup

(* Liveness.                                                               *)

\* "Once a worker returns the domain is admitted again": a suspect domain
\* whose workers return answers again, without a restart and without anybody's
\* deadline (domains.go:19-25, 427-443).
DomainAnswersAgain == \A k \in Key : suspect(dom[k]) ~> ~suspect(dom[k])

\* A call that waits for capacity is served or refused once the workers before
\* it return; its turn is not what gets it out (domains.go:388-402).
WaitersGoOn == \A c \in Call : pc[c] = "asleep" ~> pc[c] \in {"working", "refused"}
=============================================================================
