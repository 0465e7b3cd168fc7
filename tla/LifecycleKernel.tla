--------------------------- MODULE LifecycleKernel ---------------------------
(***************************************************************************)
(* The authenticated shell-lifecycle kernel of nocx                        *)
(* (internal/lifecycle/kernel.go).  A lane is one terminal pane.  It holds *)
(* a stack of domains, each one shell instance; the top of the stack, when *)
(* Established, is the only domain whose word about the pane is believed.  *)
(* The kernel is a mutex around a pure state machine, so that every public *)
(* method is one atomic step, except Deliver, which sends outside the lock.*)
(*                                                                         *)
(* What is abstracted.  A frame is its domain, its kind and the ids it     *)
(* names: one that fails authentication can only charge the lane           *)
(* (RejectFrame), and one whose sequence number is a replay changes        *)
(* nothing, so any frame may be new.  The capability, the recovery fence   *)
(* and the recovery episode are minted with the domain and never shared:   *)
(* the domain's own id stands for each of them.  The clock is not          *)
(* modelled: wherever the code compares it with a budget both answers are  *)
(* allowed.                                                                *)
(***************************************************************************)
EXTENDS Naturals, Sequences, FiniteSets

CONSTANTS
    Domain,             \* domain ids, minted (RequestDomain) or adopted
    Lane,
    Transport,
    KernelAttempt,      \* attempt ids the kernel mints
    ShellAttempt,       \* attempt ids the shells mint
    None,               \* "" and nil
    MaxEpoch,           \* bound on the epochs minted and adopted
    ScanBudget,         \* garbage a desynchronized domain may accumulate
    MaxDesyncEpisodes,  \* desync episodes in the life of a domain
    HandshakeFailures   \* failures that stop a lane from minting

Attempt == KernelAttempt \cup ShellAttempt

ASSUME NumbersAssumption ==
    /\ MaxEpoch \in Nat /\ ScanBudget \in Nat
    /\ MaxDesyncEpisodes \in Nat /\ HandshakeFailures \in Nat \ {0}

ASSUME NoneAssumption ==
    None \notin Domain \cup Lane \cup Transport \cup Attempt

ASSUME DomainsAssumption == IsFiniteSet(Domain)

ASSUME AttemptIdsAssumption == KernelAttempt \cap ShellAttempt = {}

VARIABLES
    \* the transports
    ports,          \* transports with a registered port
    \* the domain registry: what Register stores once ...
    parent, laneOf, transportOf, epoch, adopted,
    epochCounter,   \* the highest epoch minted or adopted
    \* ... and what changes in a domain's life
    state,          \* its DomainState, "Unminted" before it is registered
    acceptPending,  \* its hello was accepted and its accept not delivered yet
    garbage,        \* garbage scanned in the current desync episode
    episodes,       \* desync episodes so far
    refresh,        \* the episode whose refresh request is outstanding, or 0
    \* the lanes
    stack,          \* bottom first
    lifecycle,      \* the lane fact: authority state, its domain, its attempt
    failures,       \* failed handshakes inside the rate-limit window
    recovery,       \* the recovery episode the lane expects, and its sighting
    \* the execution attempts
    attempt,
    \* accepts the caller of Ingest holds, and accepts on their way out
    accepts, sending

identityVars == <<parent, laneOf, transportOf, epoch, adopted, epochCounter>>
desyncVars == <<garbage, episodes, refresh>>
deliveryVars == <<accepts, sending>>
vars == <<ports, identityVars, state, acceptPending, desyncVars,
          stack, lifecycle, failures, recovery, attempt, deliveryVars>>

Live == {"Established", "Suspended", "Desynchronized"}
Terminal == {"Closed", "Lost"}
DomainState == {"Unminted", "Pending"} \cup Live \cup Terminal
LaneState == {"Native", "PromptReady", "Running", "Desynchronized", "Lost"}
AttemptState == {"Unminted", "Open", "Completed", "Unknown"}

LaneFact ==
    [state : LaneState, domain : Domain \cup {None}, attempt : Attempt \cup {None}]
Fact(st, d, a) == [state |-> st, domain |-> d, attempt |-> a]
NoRecovery == [episode |-> None, sighted |-> FALSE]

\* A kernel attempt record.  shellID is the alias a start attached.
AttemptRecord ==
    [state : AttemptState, domain : Domain \cup {None}, started : BOOLEAN,
     primed : BOOLEAN, shellID : Attempt \cup {None}]
NoAttemptRecord ==
    [state |-> "Unminted", domain |-> None, started |-> FALSE,
     primed |-> FALSE, shellID |-> None]
NewAttempt(d, st, started) ==
    [NoAttemptRecord EXCEPT !.state = st, !.domain = d, !.started = started]

-----------------------------------------------------------------------------
(* Reading the state.                                                      *)

Top(l) == IF stack[l] = <<>> THEN None ELSE stack[l][Len(stack[l])]

Minted(a) == attempt[a].state # "Unminted"
OpenAttempts(d) ==
    {a \in Attempt : attempt[a].state = "Open" /\ attempt[a].domain = d}

\* resolveAttempt: the attempts a shell may mean by an id, exact id first.
Resolve(d, id) ==
    IF Minted(id) THEN {id}
    ELSE {a \in Attempt : attempt[a].domain = d /\ attempt[a].shellID = id}

\* requireActive.
Active(d) ==
    state[d] = "Established" /\ ~acceptPending[d] /\ Top(laneOf[d]) = d

\* The checks of ingestLocked that precede the transition: the frame names a
\* registered domain, on its own bound transport.
Authentic(d) == state[d] # "Unminted" /\ transportOf[d] \in ports

\* checkDesyncBudget, before the handlers that a Desynchronized domain has:
\* when the scan budget is spent the domain is revoked instead.
WithinScanBudget(d) == state[d] = "Desynchronized" => garbage[d] <= ScanBudget

\* The least set that contains S and every domain whose parent it contains:
\* the fixpoint of TransportLost's loop, and what isDescendantOf searches.
ClosedUnderChildren(D) == \A x \in Domain : parent[x] \in D => x \in D
Cascade(S) ==
    {x \in Domain : \A D \in SUBSET Domain :
                       S \subseteq D /\ ClosedUnderChildren(D) => x \in D}

\* removeFromStack for every member of D, the order of the others kept.
Without(s, D) ==
    LET kept == {i \in DOMAIN s : s[i] \notin D}
    IN  [k \in 1 .. Cardinality(kept) |->
            s[CHOOSE i \in kept : Cardinality({j \in kept : j <= i}) = k]]

-----------------------------------------------------------------------------
(* Writing the state.                                                      *)

\* setLifecycle: a lane that turns Native forgets the recovery it expected.
SetLifecycle(l, fact) ==
    /\ lifecycle' = [lifecycle EXCEPT ![l] = fact]
    /\ recovery' = IF fact.state = "Native"
                   THEN [recovery EXCEPT ![l] = NoRecovery]
                   ELSE recovery

\* unknownOpenAttempts, for every domain in D.
UnknownOpenAttempts(D) ==
    [a \in Attempt |->
        IF attempt[a].state = "Open" /\ attempt[a].domain \in D
        THEN [attempt[a] EXCEPT !.state = "Unknown"] ELSE attempt[a]]

\* recordAuthFailure; the count is capped where the budget is exhausted.
ChargeLane(l) ==
    failures' = [failures EXCEPT
        ![l] = IF @ < HandshakeFailures THEN @ + 1 ELSE @]

\* revoke, and the effects domain_closed has as well.
EndDomainForgetsAttempts(d) ==   \* mutant: open attempts outlive the shell
    /\ state' = [state EXCEPT ![d] = "Closed"]
    /\ attempt' = attempt
    /\ stack' = [stack EXCEPT ![laneOf[d]] = Without(@, {d})]
    /\ SetLifecycle(laneOf[d], Fact("Native", None, None))
EndDomain(d) ==
    /\ state' = [state EXCEPT ![d] = "Closed"]
    /\ attempt' = UnknownOpenAttempts({d})
    /\ stack' = [stack EXCEPT ![laneOf[d]] = Without(@, {d})]
    /\ SetLifecycle(laneOf[d], Fact("Native", None, None))
Revoke(d) ==
    /\ EndDomain(d)
    /\ refresh' = [refresh EXCEPT ![d] = 0]

\* The lane fact an Established domain's open attempts determine: with one
\* open it runs, and with none it is at a prompt.
ResumeFacts(d, open) ==
    IF open = {} THEN {Fact("PromptReady", d, None)}
    ELSE {Fact("Running", d, a) : a \in open}

-----------------------------------------------------------------------------
(* Transports and domains, called by the adapters.                         *)

BindTransport(t) ==
    /\ t \notin ports
    /\ ports' = ports \cup {t}
    /\ UNCHANGED <<identityVars, state, acceptPending, desyncVars,
                   stack, lifecycle, failures, recovery, attempt, deliveryVars>>

\* Only ever called for a transport whose first domain could not be made.
UnbindTransport(t) ==
    /\ t \in ports
    /\ \A d \in Domain : transportOf[d] # t
    /\ ports' = ports \ {t}
    /\ UNCHANGED <<identityVars, state, acceptPending, desyncVars,
                   stack, lifecycle, failures, recovery, attempt, deliveryVars>>

\* DomainRegistry.Register.
Register(d, l, p, t, e, isAdopted, st) ==
    /\ parent' = [parent EXCEPT ![d] = p]
    /\ laneOf' = [laneOf EXCEPT ![d] = l]
    /\ transportOf' = [transportOf EXCEPT ![d] = t]
    /\ epoch' = [epoch EXCEPT ![d] = e]
    /\ adopted' = [adopted EXCEPT ![d] = isAdopted]
    /\ state' = [state EXCEPT ![d] = st]

\* A child is minted under the top of its lane, a root on an empty lane.  The
\* lane expects the new domain's recovery from here on, before any hello.
MayNest(p, l) ==
    /\ state[p] \in {"Established", "Suspended"}
    /\ laneOf[p] = l
    /\ Top(l) = p

RequestDomain(d, l, p, t) ==
    /\ state[d] = "Unminted"
    /\ t \in ports
    /\ failures[l] < HandshakeFailures
    /\ IF p = None THEN stack[l] = <<>> ELSE MayNest(p, l)
    /\ epochCounter < MaxEpoch
    /\ epochCounter' = epochCounter + 1
    /\ Register(d, l, p, t, epochCounter', FALSE, "Pending")
    /\ recovery' = [recovery EXCEPT ![l] = [episode |-> d, sighted |-> FALSE]]
    /\ UNCHANGED <<ports, acceptPending, desyncVars, stack, lifecycle,
                   failures, attempt, deliveryVars>>

\* AdoptDomainWithEpisode: a domain another coordinator minted and the shell
\* still believes in.  Its epoch e comes from that coordinator's counter.
AdoptDomainKeepsCounter(d, l, t, e) ==   \* mutant: no adoptEpoch
    /\ state[d] = "Unminted"
    /\ t \in ports
    /\ stack[l] = <<>>
    /\ Register(d, l, None, t, e, TRUE, "Established")
    /\ recovery' = [recovery EXCEPT ![l] = [episode |-> d, sighted |-> FALSE]]
    /\ stack' = [stack EXCEPT ![l] = <<d>>]
    /\ lifecycle' = [lifecycle EXCEPT ![l] = Fact("PromptReady", d, None)]
    /\ UNCHANGED <<epochCounter, ports, acceptPending, desyncVars, failures,
                   attempt, deliveryVars>>
AdoptDomain(d, l, t, e) ==
    /\ state[d] = "Unminted"
    /\ t \in ports
    /\ stack[l] = <<>>
    /\ Register(d, l, None, t, e, TRUE, "Established")
    /\ epochCounter' = IF e > epochCounter THEN e ELSE epochCounter
    /\ recovery' = [recovery EXCEPT ![l] = [episode |-> d, sighted |-> FALSE]]
    /\ stack' = [stack EXCEPT ![l] = <<d>>]
    /\ lifecycle' = [lifecycle EXCEPT ![l] = Fact("PromptReady", d, None)]
    /\ UNCHANGED <<ports, acceptPending, desyncVars, failures, attempt,
                   deliveryVars>>

\* The window of the rate limit moves past some of the recorded failures;
\* overHandshakeBudget forgets them when a domain is next requested.
WindowPasses(l) ==
    /\ \E n \in 0 .. HandshakeFailures :
           n < failures[l] /\ failures' = [failures EXCEPT ![l] = n]
    /\ UNCHANGED <<ports, identityVars, state, acceptPending, desyncVars,
                   stack, lifecycle, recovery, attempt, deliveryVars>>

\* What remains on a lane that lost dead domains decides its fact.
FactsAfterLossBlanket(l, dead) ==   \* mutant: every affected lane is lost
    {Fact("Lost", None, None)}
FactsAfterLoss(l, dead) ==
    LET left == Without(stack[l], dead)
        top == left[Len(left)]
    IN  IF left = <<>> THEN {Fact("Lost", None, None)}
        ELSE IF state[top] = "Established" THEN ResumeFacts(top, OpenAttempts(top))
        ELSE IF state[top] = "Suspended" THEN {Fact("Native", None, None)}
        ELSE {lifecycle[l]}

\* Every domain ever bound to the transport is lost, those already Closed
\* included, and every descendant with it.  The transport stays registered.
TransportLost(t) ==
    /\ t \in ports
    /\ LET dead == Cascade({d \in Domain : transportOf[d] = t})
           affected == {laneOf[d] : d \in dead}
           Facts(l) == IF l \in affected THEN FactsAfterLoss(l, dead)
                       ELSE {lifecycle[l]}
       IN  /\ state' = [d \in Domain |-> IF d \in dead THEN "Lost" ELSE state[d]]
           /\ refresh' = [d \in Domain |-> IF d \in dead THEN 0 ELSE refresh[d]]
           /\ attempt' = UnknownOpenAttempts(dead)
           /\ stack' = [l \in Lane |-> Without(stack[l], dead)]
           /\ lifecycle' \in [Lane -> UNION {Facts(l) : l \in Lane}]
           /\ \A l \in Lane : lifecycle'[l] \in Facts(l)
           /\ recovery' = [l \in Lane |->
                 IF l \in affected /\ lifecycle'[l].state = "Native"
                 THEN NoRecovery ELSE recovery[l]]
    /\ UNCHANGED <<ports, identityVars, acceptPending, garbage, episodes,
                   failures, deliveryVars>>

EstablishmentTimeout(d) ==
    /\ state[d] = "Established"
    /\ acceptPending[d]
    /\ Revoke(d)
    /\ UNCHANGED <<ports, identityVars, acceptPending, garbage, episodes,
                   failures, deliveryVars>>

\* NotifyGap on an Established domain: it loses its authority, or its life
\* when it has no desync episode left.
GapOpensOneTooMany(d, n) ==   \* mutant: episodes compared off by one
    /\ transportOf[d] \in ports
    /\ state[d] = "Established"
    /\ episodes[d] <= MaxDesyncEpisodes
    /\ episodes' = [episodes EXCEPT ![d] = @ + 1]
    /\ state' = [state EXCEPT ![d] = "Desynchronized"]
    /\ garbage' = [garbage EXCEPT ![d] = n]
    /\ refresh' = [refresh EXCEPT ![d] = episodes'[d]]
    /\ IF Top(laneOf[d]) = d
       THEN SetLifecycle(laneOf[d], Fact("Desynchronized", d, None))
       ELSE UNCHANGED <<lifecycle, recovery>>
    /\ UNCHANGED <<ports, identityVars, acceptPending, stack, failures, attempt,
                   deliveryVars>>
GapOpensEpisode(d, n) ==
    /\ transportOf[d] \in ports
    /\ state[d] = "Established"
    /\ episodes[d] < MaxDesyncEpisodes
    /\ episodes' = [episodes EXCEPT ![d] = @ + 1]
    /\ state' = [state EXCEPT ![d] = "Desynchronized"]
    /\ garbage' = [garbage EXCEPT ![d] = n]
    /\ refresh' = [refresh EXCEPT ![d] = episodes'[d]]
    /\ IF Top(laneOf[d]) = d
       THEN SetLifecycle(laneOf[d], Fact("Desynchronized", d, None))
       ELSE UNCHANGED <<lifecycle, recovery>>
    /\ UNCHANGED <<ports, identityVars, acceptPending, stack, failures,
                   attempt, deliveryVars>>

\* NotifyGap on a Desynchronized domain whose budget the garbage leaves.
GapAccumulates(d, n) ==
    /\ transportOf[d] \in ports
    /\ state[d] = "Desynchronized"
    /\ garbage[d] + n <= ScanBudget
    /\ garbage' = [garbage EXCEPT ![d] = @ + n]
    /\ UNCHANGED <<ports, identityVars, state, acceptPending, episodes,
                   refresh, stack, lifecycle, failures, recovery, attempt,
                   deliveryVars>>

\* The revoking branches of NotifyGap, and checkDesyncBudget in ingestLocked:
\* the scan takes longer than ScanDuration, or finds more than its budget.  A
\* frame that finds the budget spent is refused after the revocation.
BudgetRevokes(d) ==
    /\ transportOf[d] \in ports
    /\ \/ state[d] = "Desynchronized"
       \/ state[d] = "Established" /\ episodes[d] = MaxDesyncEpisodes
    /\ Revoke(d)
    /\ UNCHANGED <<ports, identityVars, acceptPending, garbage, episodes,
                   failures, deliveryVars>>

-----------------------------------------------------------------------------
(* The lane's recovery and the app's attempts.                             *)

SightRecovery(l, ep) ==
    /\ lifecycle[l].state = "Lost"
    /\ ep # None
    /\ recovery[l].episode = ep
    /\ recovery' = [recovery EXCEPT ![l].sighted = TRUE]
    /\ UNCHANGED <<ports, identityVars, state, acceptPending, desyncVars,
                   stack, lifecycle, failures, attempt, deliveryVars>>

\* An already Native lane is a success that changes nothing.
RecoverLane(l) ==
    /\ lifecycle[l].state = "Lost"
    /\ recovery[l].sighted
    /\ SetLifecycle(l, Fact("Native", None, None))
    /\ UNCHANGED <<ports, identityVars, state, acceptPending, desyncVars,
                   stack, failures, attempt, deliveryVars>>

\* newAttemptID never repeats an id.
Fresh(a) == a \in KernelAttempt /\ ~Minted(a)

\* A submit needs a prompt: a ready lane, or one that runs an attempt which a
\* prompt_ready has primed.  The primed attempt is then closed.
SubmitAttempt(d, a) ==
    LET l == laneOf[d]
        Submits(attempts) ==
            /\ attempt' = [attempts EXCEPT ![a] = NewAttempt(d, "Open", FALSE)]
            /\ SetLifecycle(l, Fact("Running", d, a))
    IN  /\ Active(d)
        /\ Fresh(a)
        /\ \/ /\ OpenAttempts(d) = {}
              /\ lifecycle[l].state = "PromptReady"
              /\ Submits(attempt)
           \/ \E open \in OpenAttempts(d) :
                 /\ attempt[open].primed
                 /\ \/ lifecycle[l].state = "PromptReady"
                    \/ lifecycle[l].state = "Running" /\ ~attempt[open].started
                 /\ Submits([attempt EXCEPT ![open].state = "Unknown"])
        /\ UNCHANGED <<ports, identityVars, state, acceptPending,
                       desyncVars, stack, failures, deliveryVars>>

AbandonAttempt(a) ==
    /\ attempt[a].state = "Open"
    /\ attempt' = [attempt EXCEPT ![a].state = "Unknown"]
    /\ UNCHANGED <<ports, identityVars, state, acceptPending, desyncVars,
                   stack, lifecycle, failures, recovery, deliveryVars>>

-----------------------------------------------------------------------------
(* Ingest: one action per kind of frame and outcome that changes anything. *)

\* A frame that fails authentication charges the lane it names.
RejectFrame(l) ==
    /\ ports # {}
    /\ ChargeLane(l)
    /\ UNCHANGED <<ports, identityVars, state, acceptPending, desyncVars,
                   stack, lifecycle, recovery, attempt, deliveryVars>>

\* A root needs an empty lane; a child needs its parent Suspended on the top.
MayEstablishBesideSibling(d) ==   \* mutant: the parent need not be the top
    IF parent[d] = None THEN stack[laneOf[d]] = <<>>
    ELSE state[parent[d]] = "Suspended"
MayEstablishOverParent(d) ==   \* mutant: the parent need not be Suspended
    IF parent[d] = None THEN stack[laneOf[d]] = <<>>
    ELSE Top(laneOf[d]) = parent[d]
MayEstablish(d) ==
    IF parent[d] = None THEN stack[laneOf[d]] = <<>>
    ELSE state[parent[d]] = "Suspended" /\ Top(laneOf[d]) = parent[d]

HelloEstablishes(d) ==
    /\ Authentic(d)
    /\ state[d] = "Pending"
    /\ MayEstablish(d)
    /\ state' = [state EXCEPT ![d] = "Established"]
    /\ acceptPending' = [acceptPending EXCEPT ![d] = TRUE]
    /\ accepts' = accepts \cup {d}
    /\ stack' = [stack EXCEPT ![laneOf[d]] = Append(@, d)]
    /\ SetLifecycle(laneOf[d], Fact("PromptReady", d, None))
    /\ UNCHANGED <<ports, identityVars, desyncVars, failures, attempt, sending>>

\* A refused hello of a busy lane or an active parent charges the lane too.
HelloRefused(d) ==
    /\ Authentic(d)
    /\ state[d] = "Pending"
    /\ IF parent[d] = None THEN stack[laneOf[d]] # <<>>
       ELSE state[parent[d]] # "Suspended"
    /\ ChargeLane(laneOf[d])
    /\ UNCHANGED <<ports, identityVars, state, acceptPending, desyncVars,
                   stack, lifecycle, recovery, attempt, deliveryVars>>

\* A reconnect within the epoch is answered with a fresh accept.  To a domain
\* past its first one the delivery changes nothing, and is not kept.
HelloReconnects(d) ==
    /\ Authentic(d)
    /\ state[d] \in Live
    /\ WithinScanBudget(d)
    /\ accepts' = IF acceptPending[d] THEN accepts \cup {d} ELSE accepts
    /\ UNCHANGED <<ports, identityVars, state, acceptPending, desyncVars, stack,
                   lifecycle, failures, recovery, attempt, sending>>

\* The frames that requireActive lets through and that end in an attempt or a
\* lane fact share what they leave alone.
ActiveFrame(d) ==
    /\ Authentic(d)
    /\ Active(d)
    /\ UNCHANGED <<ports, identityVars, acceptPending, desyncVars, stack,
                   failures, deliveryVars>>

\* start: it attaches to the submitted attempt, whose id the shell does not
\* know, or opens an attempt of the shell's at a ready prompt.  The id the
\* shell names for it becomes an alias; its counter never repeats one.
StartAttaches(d, id) ==
    /\ ActiveFrame(d)
    /\ id # None => Resolve(d, id) = {}
    /\ \E open \in OpenAttempts(d) :
          /\ ~attempt[open].started
          /\ attempt' = [attempt EXCEPT ![open].started = TRUE,
                                        ![open].shellID = id]
          /\ SetLifecycle(laneOf[d], Fact("Running", d, open))
    /\ UNCHANGED state

StartReopens(d, a) ==   \* mutant: a known id is accepted again
    /\ ActiveFrame(d)
    /\ OpenAttempts(d) = {}
    /\ lifecycle[laneOf[d]].state = "PromptReady"
    /\ attempt' = [attempt EXCEPT ![a] = NewAttempt(d, "Open", TRUE)]
    /\ SetLifecycle(laneOf[d], Fact("Running", d, a))
    /\ UNCHANGED state
StartOpens(d, a) ==
    /\ ActiveFrame(d)
    /\ OpenAttempts(d) = {}
    /\ lifecycle[laneOf[d]].state = "PromptReady"
    /\ ~Minted(a)
    /\ attempt' = [attempt EXCEPT ![a] = NewAttempt(d, "Open", TRUE)]
    /\ SetLifecycle(laneOf[d], Fact("Running", d, a))
    /\ UNCHANGED state

\* complete: the domain's open attempt, by name or by context.  The lane's
\* fact stays: readiness is the prompt's to report.
CompleteUnstarted(d, id) ==   \* mutant: Started is not asked for
    /\ ActiveFrame(d)
    /\ \E open \in OpenAttempts(d) :
          /\ id # None => open \in Resolve(d, id)
          /\ attempt' = [attempt EXCEPT ![open].state = "Completed"]
    /\ UNCHANGED <<state, lifecycle, recovery>>
CompleteOpen(d, id) ==
    /\ ActiveFrame(d)
    /\ \E open \in OpenAttempts(d) :
          /\ id # None => open \in Resolve(d, id)
          /\ attempt[open].started
          /\ attempt' = [attempt EXCEPT ![open].state = "Completed"]
    /\ UNCHANGED <<state, lifecycle, recovery>>

\* complete on an adopted domain, for an attempt of the coordinator before:
\* it is rebuilt, under the id named or one made for it, and completed.
CompleteRebuilds(d, a) ==
    /\ ActiveFrame(d)
    /\ adopted[d]
    /\ OpenAttempts(d) = {}
    /\ Resolve(d, a) = {}
    /\ attempt' = [attempt EXCEPT ![a] = NewAttempt(d, "Completed", TRUE)]
    /\ SetLifecycle(laneOf[d], Fact("Running", d, a))
    /\ UNCHANGED state

\* The same with an attempt of this coordinator open: the frame is refused,
\* but only after the attempt it names was rebuilt and given the lane.
CompleteRefused(d, id) ==
    /\ ActiveFrame(d)
    /\ adopted[d]
    /\ OpenAttempts(d) # {}
    /\ Resolve(d, id) = {}
    /\ attempt' = [attempt EXCEPT ![id] = NewAttempt(d, "Open", TRUE)]
    /\ SetLifecycle(laneOf[d], Fact("Running", d, id))
    /\ UNCHANGED state

\* prompt_ready with nothing open, or with a submitted attempt no start has
\* reached: the first primes it and the lane runs on, the second closes it.
PromptReady(d) ==
    LET l == laneOf[d]
        AtPrompt == SetLifecycle(l, Fact("PromptReady", d, None))
    IN  /\ ActiveFrame(d)
        /\ \/ OpenAttempts(d) = {} /\ AtPrompt /\ UNCHANGED attempt
           \/ \E open \in OpenAttempts(d) :
                 /\ ~attempt[open].started
                 /\ IF attempt[open].primed
                    THEN /\ attempt' = [attempt EXCEPT ![open].state = "Unknown"]
                         /\ AtPrompt
                    ELSE /\ attempt' = [attempt EXCEPT ![open].primed = TRUE]
                         /\ IF lifecycle[l].state = "Running"
                            THEN UNCHANGED <<lifecycle, recovery>> ELSE AtPrompt
        /\ UNCHANGED state

SuspendSettles(d) ==   \* mutant: suspension read as the command's end
    /\ ActiveFrame(d)
    /\ state' = [state EXCEPT ![d] = "Suspended"]
    /\ SetLifecycle(laneOf[d], Fact("Native", None, None))
    /\ attempt' = UnknownOpenAttempts({d})
Suspend(d) ==
    /\ ActiveFrame(d)
    /\ state' = [state EXCEPT ![d] = "Suspended"]
    /\ SetLifecycle(laneOf[d], Fact("Native", None, None))
    /\ UNCHANGED attempt

\* domain_request and the agent frames: validated, answered, nothing kept.
\* (A granted request reaches the kernel again as RequestDomain.)
EchoFrame(d) ==
    /\ ActiveFrame(d)
    /\ UNCHANGED <<state, lifecycle, recovery, attempt>>

\* domain_activated: the parent outlived its children, so everything above it
\* on the stack is closed if it descends from it.
Activate(d) ==
    LET l == laneOf[d]
        at == CHOOSE i \in DOMAIN stack[l] : stack[l][i] = d
        above == {stack[l][i] : i \in {j \in DOMAIN stack[l] : j > at}}
    IN  /\ Authentic(d)
        /\ state[d] = "Suspended"
        /\ \E i \in DOMAIN stack[l] : stack[l][i] = d
        /\ above \subseteq Cascade({d})
        /\ state' = [x \in Domain |-> IF x \in above THEN "Closed"
                                      ELSE IF x = d THEN "Established" ELSE state[x]]
        /\ refresh' = [x \in Domain |-> IF x \in above THEN 0 ELSE refresh[x]]
        /\ attempt' = UnknownOpenAttempts(above)
        /\ stack' = [stack EXCEPT ![l] = SubSeq(@, 1, at)]
        /\ \E fact \in ResumeFacts(d, OpenAttempts(d)) : SetLifecycle(l, fact)
        /\ UNCHANGED <<ports, identityVars, acceptPending, garbage, episodes,
                       failures, deliveryVars>>

Close(d) ==
    /\ Authentic(d)
    /\ state[d] \in {"Established", "Suspended"}
    /\ Top(laneOf[d]) = d
    /\ EndDomain(d)
    /\ UNCHANGED <<ports, identityVars, acceptPending, desyncVars, failures,
                   deliveryVars>>

\* snapshot: it names a refresh request, r, the attempt the shell runs (active)
\* and the last one it completed (last), None for neither.
Snapshot(d, r, active, last) ==
    LET l == laneOf[d]
        Completed(a) ==
            last # None /\ a \in Resolve(d, last) /\ attempt[a].state = "Open"
        \* a is what the shell runs: minted here when its start was lost
        Reconciled(a) ==
            [b \in Attempt |->
                IF b = a
                THEN IF Minted(a) THEN attempt[a] ELSE NewAttempt(d, "Open", TRUE)
                ELSE IF Completed(b) THEN [attempt[b] EXCEPT !.state = "Completed"]
                ELSE IF b \in OpenAttempts(d)
                THEN [attempt[b] EXCEPT !.state = "Unknown"] ELSE attempt[b]]
    IN  /\ Authentic(d)
        /\ state[d] = "Desynchronized"
        /\ refresh[d] = r
        /\ WithinScanBudget(d)
        /\ active # None => active # last
        /\ last # None => \A a \in Resolve(d, last) : attempt[a].domain = d
        /\ state' = [state EXCEPT ![d] = "Established"]
        /\ refresh' = [refresh EXCEPT ![d] = 0]
        /\ garbage' = [garbage EXCEPT ![d] = 0]
        /\ \/ /\ active = None
              /\ attempt' = Reconciled(None)
              /\ IF Top(l) = d THEN SetLifecycle(l, Fact("PromptReady", d, None))
                 ELSE UNCHANGED <<lifecycle, recovery>>
           \/ /\ active # None
              /\ \E a \in IF Resolve(d, active) = {} THEN {active}
                          ELSE Resolve(d, active) :
                    /\ Minted(a) => a \in OpenAttempts(d)
                    /\ attempt' = Reconciled(a)
                    /\ IF Top(l) = d THEN SetLifecycle(l, Fact("Running", d, a))
                       ELSE UNCHANGED <<lifecycle, recovery>>
        /\ UNCHANGED <<ports, identityVars, acceptPending, episodes, stack,
                       failures, deliveryVars>>

-----------------------------------------------------------------------------
(* Deliver an accept: checked under the lock, sent outside it, and the     *)
(* domain heard from only once it has been sent.                           *)

DeliverBegins(d) ==
    /\ d \in accepts
    /\ state[d] = "Established"
    /\ transportOf[d] \in ports
    /\ accepts' = accepts \ {d}
    /\ sending' = sending \cup {d}
    /\ UNCHANGED <<ports, identityVars, state, acceptPending, desyncVars,
                   stack, lifecycle, failures, recovery, attempt>>

DeliverRefused(d) ==
    /\ d \in accepts
    /\ state[d] # "Established" \/ transportOf[d] \notin ports
    /\ accepts' = accepts \ {d}
    /\ UNCHANGED <<ports, identityVars, state, acceptPending, desyncVars,
                   stack, lifecycle, failures, recovery, attempt, sending>>

DeliverEnds(d) ==
    /\ d \in sending
    /\ sending' = sending \ {d}
    /\ \/ /\ state[d] = "Established"        \* the accept was sent
          /\ acceptPending' = [acceptPending EXCEPT ![d] = FALSE]
       \/ UNCHANGED acceptPending            \* too late, or the send failed
    /\ UNCHANGED <<ports, identityVars, state, desyncVars, stack,
                   lifecycle, failures, recovery, attempt, accepts>>

-----------------------------------------------------------------------------
Init ==
    /\ ports = {}
    /\ parent = [d \in Domain |-> None]
    /\ laneOf = [d \in Domain |-> None]
    /\ transportOf = [d \in Domain |-> None]
    /\ epoch = [d \in Domain |-> 0]
    /\ adopted = [d \in Domain |-> FALSE]
    /\ epochCounter = 0
    /\ state = [d \in Domain |-> "Unminted"]
    /\ acceptPending = [d \in Domain |-> FALSE]
    /\ garbage = [d \in Domain |-> 0]
    /\ episodes = [d \in Domain |-> 0]
    /\ refresh = [d \in Domain |-> 0]
    /\ stack = [l \in Lane |-> <<>>]
    /\ lifecycle = [l \in Lane |-> Fact("Native", None, None)]
    /\ failures = [l \in Lane |-> 0]
    /\ recovery = [l \in Lane |-> NoRecovery]
    /\ attempt = [a \in Attempt |-> NoAttemptRecord]
    /\ accepts = {}
    /\ sending = {}

TransportStep == \E t \in Transport :
    BindTransport(t) \/ UnbindTransport(t) \/ TransportLost(t)

MintStep == \E d \in Domain, l \in Lane, t \in Transport :
    \/ \E p \in Domain \cup {None} : RequestDomain(d, l, p, t)
    \/ \E e \in 1 .. MaxEpoch : AdoptDomain(d, l, t, e)

GapStep == \E d \in Domain :
    \/ \E n \in 0 .. ScanBudget + 1 : GapOpensEpisode(d, n) \/ GapAccumulates(d, n)
    \/ BudgetRevokes(d)

LaneStep == \E l \in Lane :
    \/ WindowPasses(l) \/ RejectFrame(l) \/ RecoverLane(l)
    \/ \E ep \in Domain : SightRecovery(l, ep)

AttemptStep == \E a \in Attempt :
    AbandonAttempt(a) \/ \E d \in Domain : SubmitAttempt(d, a)

DomainFrame == \E d \in Domain :
    \/ HelloEstablishes(d) \/ HelloRefused(d) \/ HelloReconnects(d)
    \/ Suspend(d) \/ Activate(d) \/ Close(d) \/ EchoFrame(d)

AttemptFrame == \E d \in Domain :
    \/ PromptReady(d)
    \/ \E id \in ShellAttempt \cup {None} :
          StartAttaches(d, id) \/ CompleteOpen(d, id)
    \/ \E a \in Attempt : StartOpens(d, a) \/ CompleteRebuilds(d, a)
    \/ \E id \in ShellAttempt : CompleteRefused(d, id)
    \/ \E r \in 1 .. MaxDesyncEpisodes, active, last \in ShellAttempt \cup {None} :
          Snapshot(d, r, active, last)

DeliveryStep == \E d \in Domain :
    \/ DeliverBegins(d) \/ DeliverRefused(d) \/ DeliverEnds(d)
    \/ EstablishmentTimeout(d)

Next ==
    \/ TransportStep \/ MintStep \/ GapStep \/ LaneStep
    \/ AttemptStep \/ DomainFrame \/ AttemptFrame \/ DeliveryStep

Spec == Init /\ [][Next]_vars

-----------------------------------------------------------------------------
(* Properties.                                                             *)

TypeOK ==
    /\ ports \subseteq Transport
    /\ parent \in [Domain -> Domain \cup {None}]
    /\ laneOf \in [Domain -> Lane \cup {None}]
    /\ transportOf \in [Domain -> Transport \cup {None}]
    /\ epoch \in [Domain -> Nat]
    /\ adopted \in [Domain -> BOOLEAN]
    /\ epochCounter \in Nat
    /\ state \in [Domain -> DomainState]
    /\ acceptPending \in [Domain -> BOOLEAN]
    /\ garbage \in [Domain -> Nat]
    /\ episodes \in [Domain -> 0 .. MaxDesyncEpisodes]
    /\ refresh \in [Domain -> Nat]
    /\ stack \in [Lane -> Seq(Domain)]
    /\ lifecycle \in [Lane -> LaneFact]
    /\ failures \in [Lane -> 0 .. HandshakeFailures]
    /\ recovery \in [Lane -> [episode : Domain \cup {None}, sighted : BOOLEAN]]
    /\ attempt \in [Attempt -> AttemptRecord]
    /\ accepts \subseteq Domain
    /\ sending \subseteq Domain

\* A stack holds domains of its lane, each the parent of the next, all but the
\* top Suspended.
StackIsParentChain ==
    \A l \in Lane : \A i \in DOMAIN stack[l] :
        /\ laneOf[stack[l][i]] = l
        /\ parent[stack[l][i]] = IF i = 1 THEN None ELSE stack[l][i - 1]
        /\ state[stack[l][i]] \in IF i = Len(stack[l]) THEN Live ELSE {"Suspended"}
\* No live domain is off the stack of its lane.
LiveIsStacked ==
    \A d \in Domain : state[d] \in Live =>
        laneOf[d] \in Lane /\ \E i \in DOMAIN stack[laneOf[d]] : stack[laneOf[d]][i] = d
\* One authority per lane, whatever transports are lost and shells nested,
\* activated, adopted, closed or revoked, in any order: the stack is the parent
\* chain of its top, only the top may be Established, and every live domain is
\* on the stack of its lane (TransportLost, applyHello, applyActivate, revoke).
OneAuthority == StackIsParentChain /\ LiveIsStacked

\* What a lane publishes about its authority (LaneLifecycleFact) is what its
\* stack says, after every order of losses, closes and activations.
FactMatchesStack ==
    \A l \in Lane : LET fact == lifecycle[l] top == Top(l) IN
        /\ fact.state \in {"PromptReady", "Running"} =>
              fact.domain = top /\ top # None /\ state[top] = "Established"
        /\ fact.state = "Desynchronized" =>
              fact.domain = top /\ top # None /\ state[top] = "Desynchronized"
        /\ fact.state = "Native" => top = None \/ state[top] = "Suspended"
        /\ fact.state = "Lost" => top = None

\* An open attempt belongs to a live shell: whatever ends a domain, its own
\* close, a revocation, an ancestor's loss or its parent's return, settles it.
OpenAttemptsAreLive ==
    \A a \in Attempt : attempt[a].state = "Open" => state[attempt[a].domain] \in Live

\* A shell that was never adopted has at most one attempt open, and while it
\* holds its lane the lane runs that attempt: no prompt over a live command.
OpenAttemptHoldsLane ==
    \A d \in Domain : state[d] = "Established" /\ ~adopted[d] =>
        \A a \in OpenAttempts(d) : lifecycle[laneOf[d]] = Fact("Running", d, a)

\* A dead domain stays dead, and a settled attempt settled, as it was settled:
\* no late start, complete, snapshot, prompt or loss reopens or resettles it.
DeadStayDead == [][
    /\ \A d \in Domain : state[d] \in Terminal => state'[d] \in Terminal
    /\ \A a \in Attempt : attempt[a].state \in {"Completed", "Unknown"} =>
          attempt'[a] = attempt[a]]_vars

\* A domain is minted with an epoch no domain of this kernel had before, the
\* adopted ones included.
FreshEpochs == [][\A d, e \in Domain :
    state[d] = "Unminted" /\ state'[d] = "Pending" /\ state[e] # "Unminted" =>
        epoch[e] < epoch'[d]]_vars

\* Only what has started completes: no exit status for a command the shell
\* never reported running.
CompletedWasStarted ==
    \A a \in Attempt : attempt[a].state = "Completed" => attempt[a].started

\* One command at a time on a shell of this kernel's own, shown as long as it
\* runs, and none completed that did not start (SubmitAttempt, applyStart,
\* applyComplete, applyPromptReady).
AttemptsKept == OpenAttemptHoldsLane /\ CompletedWasStarted

\* A command its shell runs is not forgotten while the shell lives and its
\* word is good, its suspension under a child included: only the app may
\* abandon it.
RunningCommandKept == [][\A a \in Attempt :
    LET d == attempt[a].domain IN
    /\ attempt[a].state = "Open" /\ attempt[a].started
    /\ attempt'[a].state = "Unknown"
    /\ ~adopted[d] /\ state[d] \in {"Established", "Suspended"}
    /\ state'[d] \in Live
    => AbandonAttempt(a)]_vars

\* The refinement mapping to LaneAuthority: the speaker of a lane is the top
\* of its stack while that is Established.
Phase == [d \in Domain |->
    IF state[d] \in Live THEN "alive"
    ELSE IF state[d] \in Terminal THEN "dead" ELSE "unborn"]
Speaker == [l \in Lane |->
    IF Top(l) # None /\ state[Top(l)] = "Established" THEN Top(l) ELSE None]
Authority == INSTANCE LaneAuthority
    WITH Shell <- Domain, home <- laneOf, phase <- Phase, speaker <- Speaker
\* The kernel implements LaneAuthority: every frame, loss and timeout is an
\* expectation, a beginning, a silence, an end or a return of speakers there,
\* or nothing to them; authority never passes straight between living shells.
ImplementsLaneAuthority == Authority!Spec

=============================================================================
