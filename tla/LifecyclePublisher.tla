------------------------- MODULE LifecyclePublisher -------------------------
(***************************************************************************)
(* The lifecycle publisher (internal/lifecyclepub/publisher.go): it        *)
(* forwards every mutation to the kernel and tells the emitter what became *)
(* of the lane.  The kernel answers each call atomically; the publisher    *)
(* reads, mutates, reads again and tells in steps of its own, on the       *)
(* goroutine of whoever called: the pump of a transport, a request handler *)
(* or whoever closes an adapter.  Each lane has one emission turn.         *)
(*                                                                         *)
(* What the emitter sends leaves the process at once, except inside a      *)
(* frame, whose sends wait for the end of the frame, in order, its accept  *)
(* first.  A frame is taken to be stored (LifecycleFrame is about that).   *)
(***************************************************************************)
EXTENDS LifecycleKernel

CONSTANTS
    Handler,        \* goroutines of request handlers
    Closer          \* goroutines that close an adapter: timers, Close

\* A transport's pump is a goroutine too.
Caller == Transport \cup Handler \cup Closer

ASSUME CallersAssumption ==
    /\ Transport \cap Handler = {} /\ Transport \cap Closer = {}
    /\ Handler \cap Closer = {} /\ None \notin Caller

VARIABLES
    turn,           \* who holds the lane's emission turn, or None
    last,           \* the dedupe baseline: the lane's last recorded fact
    known,          \* lanes a later TransportLost looks at
    call,           \* what each goroutine is doing
    \* what the emitter was told
    told,           \* the last fact of each lane
    closedSaid,     \* attempts reported closed
    startSaid       \* attempts reported started

kernelVars == vars
emitted == <<told, closedSaid, startSaid>>
pubVars == <<kernelVars, turn, last, known, call, emitted>>

\* derive: the lane's fact with the state of the attempt it names and, over a
\* lost lane, the recovery it expects.
Unseen == [fact |-> Fact("Native", None, None), attemptState |-> "Unseen",
           recovery |-> NoRecovery]
StateOf(a) == IF a = None THEN "Unminted" ELSE attempt[a].state
Derived(l) ==
    [fact |-> lifecycle[l],
     attemptState |-> StateOf(lifecycle[l].attempt),
     recovery |-> IF lifecycle[l].state = "Lost" THEN recovery[l] ELSE NoRecovery]
\* The fact of a lane no shell has spoken on.
NativeFact == [Unseen EXCEPT !.attemptState = "Unminted"]

Idle == [op |-> "none", at |-> "idle", lane |-> None, dom |-> None, port |-> None,
         open |-> {}, started |-> {}, lanes |-> {}, drawn |-> Unseen, news |-> <<>>]

OpenOn(l) == {a \in Attempt : attempt[a].state = "Open" /\ laneOf[attempt[a].domain] = l}
StartedOf(S) == {a \in S : attempt[a].started}

PubTypeOK ==
    /\ turn \in [Lane -> Caller \cup {None}]
    /\ \A l \in Lane :
          {last[l], told[l]} \subseteq
              [fact : LaneFact, attemptState : AttemptState \cup {"Unseen"},
               recovery : [episode : Domain \cup {None}, sighted : BOOLEAN]]
    /\ known \subseteq Lane
    /\ \A c \in Caller :
          /\ call[c].op \in {"none", "open", "frame", "gap", "loss", "submit", "lane", "replay"}
          /\ call[c].at \in {"idle", "mutate", "grant", "seed", "seedAttempt", "seeded",
                             "report", "publish", "derive", "deriveAttempt", "derived", "tell"}
          /\ call[c].open \subseteq Attempt /\ call[c].started \subseteq call[c].open
          /\ call[c].lanes \subseteq Lane
          /\ Len(call[c].news) <= 2
    /\ closedSaid \subseteq Attempt /\ startSaid \subseteq Attempt

PubInit ==
    /\ Init
    /\ turn = [l \in Lane |-> None]
    /\ last = [l \in Lane |-> Unseen]
    /\ known = {}
    /\ call = [c \in Caller |-> Idle]
    /\ told = [l \in Lane |-> Unseen]
    /\ closedSaid = {} /\ startSaid = {}

-----------------------------------------------------------------------------
(* A call, step by step.                                                   *)
-----------------------------------------------------------------------------
Goto(c, at) == call' = [call EXCEPT ![c].at = at]
Return(c) == call' = [call EXCEPT ![c] = Idle]

\* BindTransport is forwarded, and nothing is told.
Bind(t) ==
    /\ BindTransport(t)
    /\ UNCHANGED <<turn, last, known, call, emitted>>

\* RequestDomain of a lane's first domain, by the handler that opens the
\* session: the kernel's part, and the lane is known from here on.  The adapter
\* has made its transport's id for this lane alone, here and in an adoption.
OpenLane(c, d, l, t) ==
    /\ call[c] = Idle /\ l \notin known
    /\ \A x \in Domain : transportOf[x] # t
    /\ RequestDomain(d, l, None, t)
    /\ known' = known \cup {l}
    /\ call' = [call EXCEPT ![c] = [Idle EXCEPT !.op = "open", !.at = "seed", !.lane = l]]
    /\ UNCHANGED <<turn, last, emitted>>

\* AdoptDomain tells the lane at once: the shell is past its accept.
AdoptLane(c, d, l, t, e) ==
    /\ call[c] = Idle /\ l \notin known
    /\ \A x \in Domain : transportOf[x] # t
    /\ AdoptDomain(d, l, t, e)
    /\ known' = known \cup {l}
    /\ call' = [call EXCEPT ![c] = [Idle EXCEPT !.op = "open", !.at = "report",
                                                !.lane = l, !.lanes = {l}]]
    /\ UNCHANGED <<turn, last, emitted>>

\* derive is two reads of the kernel: the lane's fact, and then the attempt it
\* names, which may have moved meanwhile.
ReadFact(c, from, reading, done) ==
    /\ call[c].at = from
    /\ LET fact == [Derived(call[c].lane) EXCEPT !.attemptState = StateOf(None)]
       IN  call' = [call EXCEPT ![c].drawn = fact,
                       ![c].at = IF fact.fact.attempt = None THEN done ELSE reading]
    /\ UNCHANGED <<kernelVars, turn, last, known, emitted>>

ReadAttempt(c, reading, done) ==
    /\ call[c].at = reading
    /\ call' = [call EXCEPT ![c].at = done,
                   ![c].drawn.attemptState = StateOf(call[c].drawn.fact.attempt)]
    /\ UNCHANGED <<kernelVars, turn, last, known, emitted>>

Derive(c) ==
    \/ ReadFact(c, "seed", "seedAttempt", "seeded") \/ ReadAttempt(c, "seedAttempt", "seeded")
    \/ ReadFact(c, "derive", "deriveAttempt", "derived")
    \/ ReadAttempt(c, "deriveAttempt", "derived")

\* The rest of RequestDomain: the baseline is set to the lane's fact, which
\* nobody is told, without the lane's turn.
SeedRecorded(c) ==
    /\ call[c].at = "seeded"
    /\ last' = [last EXCEPT ![call[c].lane] = call[c].drawn]
    /\ IF call[c].op = "open" THEN Return(c) ELSE Goto(c, "derive")
    /\ UNCHANGED <<kernelVars, turn, known, emitted>>

-----------------------------------------------------------------------------
(* The mutations: what is open is read first, then the kernel is called.   *)
-----------------------------------------------------------------------------
\* What a call on d's lane reads before it mutates.
Begun(op, d) ==
    [Idle EXCEPT !.op = op, !.at = "mutate", !.dom = d, !.lane = laneOf[d],
                 !.lanes = {laneOf[d]}, !.open = OpenOn(laneOf[d]),
                 !.started = StartedOf(OpenOn(laneOf[d]))]

\* A transport's adapter is made from what the first call of its lane returns.
Serves(t, d) ==
    /\ transportOf[d] = t
    /\ \A c \in Caller : call[c].op = "open" => call[c].lane # laneOf[d]

\* A pump has a frame of one of its transport's shells: the lane's turn comes
\* before anything else.
BeginFrame(t, d) ==
    /\ call[t] = Idle /\ Serves(t, d)
    /\ turn[laneOf[d]] = None
    /\ turn' = [turn EXCEPT ![laneOf[d]] = t]
    /\ call' = [call EXCEPT ![t] = Begun("frame", d)]
    /\ UNCHANGED <<kernelVars, last, known, emitted>>

\* A gap of the framing, a submit, a replay: nothing is held.
BeginGap(t, d) ==
    /\ call[t] = Idle /\ Serves(t, d)
    /\ call' = [call EXCEPT ![t] = Begun("gap", d)]
    /\ UNCHANGED <<kernelVars, turn, last, known, emitted>>

BeginSubmit(c, d) ==
    /\ call[c] = Idle /\ state[d] # "Unminted"
    /\ call' = [call EXCEPT ![c] = Begun("submit", d)]
    /\ UNCHANGED <<kernelVars, turn, last, known, emitted>>

BeginReplay(c, l) ==
    /\ call[c] = Idle /\ l \in known
    /\ call' = [call EXCEPT ![c] = [Idle EXCEPT !.op = "replay", !.at = "publish", !.lane = l]]
    /\ UNCHANGED <<kernelVars, turn, last, known, emitted>>

\* The end of a transport whose adapter was made, told by its pump, a timer or
\* Close: of the lanes known, those whose fact names a shell on it are asked
\* what is open.
BeginLoss(c, t) ==
    /\ call[c] = Idle /\ \E d \in Domain : Serves(t, d)
    /\ LET Speaks(l) == lifecycle[l].domain # None /\ transportOf[lifecycle[l].domain] = t
           open == UNION {OpenOn(l) : l \in {k \in known : Speaks(k)}}
       IN  call' = [call EXCEPT ![c] =
                       [Idle EXCEPT !.op = "loss", !.at = "mutate", !.port = t, !.lanes = known,
                                    !.open = open, !.started = StartedOf(open)]]
    /\ UNCHANGED <<kernelVars, turn, last, known, emitted>>

\* The frames of a shell, refused ones included: a refusal may still have
\* revoked the shell, and publishes all the same.
Frame(d) ==
    \/ HelloEstablishes(d) \/ HelloReconnects(d) \/ PromptReady(d)
    \/ Suspend(d) \/ Activate(d) \/ Close(d)
    \/ \E id \in ShellAttempt \cup {None} : StartAttaches(d, id) \/ CompleteOpen(d, id)
    \/ \E a \in Attempt : StartOpens(d, a) \/ CompleteRebuilds(d, a)
    \/ \E id \in ShellAttempt : CompleteRefused(d, id)
    \/ \E r \in 1 .. MaxDesyncEpisodes, active, final \in ShellAttempt \cup {None} :
          Snapshot(d, r, active, final)
    \/ state[d] = "Desynchronized" /\ BudgetRevokes(d)
    \/ UNCHANGED kernelVars

IngestFramePublishes(c) ==   \* mutant: the fact goes before the closures
    /\ call[c].op = "frame" /\ call[c].at = "mutate"
    /\ Frame(call[c].dom)
    /\ Goto(c, "derive")
    /\ UNCHANGED <<turn, last, known, emitted>>
IngestFrame(c) ==
    /\ call[c].op = "frame" /\ call[c].at = "mutate"
    /\ Frame(call[c].dom)
    /\ Goto(c, "report")
    /\ UNCHANGED <<turn, last, known, emitted>>

NotifyGap(c) ==
    /\ call[c].op = "gap" /\ call[c].at = "mutate"
    /\ LET d == call[c].dom
       IN  \/ \E n \in 0 .. ScanBudget + 1 : GapOpensEpisode(d, n) \/ GapAccumulates(d, n)
           \/ BudgetRevokes(d)
           \/ UNCHANGED kernelVars
    /\ Goto(c, "report")
    /\ UNCHANGED <<turn, last, known, emitted>>

LoseTransport(c) ==
    /\ call[c].op = "loss" /\ call[c].at = "mutate"
    /\ TransportLost(call[c].port)
    /\ Goto(c, "report")
    /\ UNCHANGED <<turn, last, known, emitted>>

Submit(c) ==
    /\ call[c].op = "submit" /\ call[c].at = "mutate"
    /\ \/ (\E a \in Attempt : SubmitAttempt(call[c].dom, a)) /\ Goto(c, "report")
       \/ Return(c) /\ UNCHANGED kernelVars
    /\ UNCHANGED <<turn, last, known, emitted>>

\* RecoverLane and SightRecovery: no attempt can change.
MoveLane(c, l) ==
    /\ call[c] = Idle /\ l \in known
    /\ RecoverLane(l) \/ \E ep \in Domain : SightRecovery(l, ep)
    /\ call' = [call EXCEPT ![c] = [Idle EXCEPT !.op = "lane", !.at = "report", !.lanes = {l}]]
    /\ UNCHANGED <<turn, last, known, emitted>>

-----------------------------------------------------------------------------
(* After the mutation: the attempts' transitions, then the lane's fact.    *)
-----------------------------------------------------------------------------
\* transitionsBelow, before the lane's fact, for the next lane of the call.
Report(c, l) ==
    /\ call[c].at = "report" /\ l \in call[c].lanes
    /\ LET mine == {a \in call[c].open : laneOf[attempt[a].domain] = l}
           closed == {a \in mine : attempt[a].state # "Open"}
           starts == {a \in mine \ closed : a \notin call[c].started /\ attempt[a].started}
       IN  closedSaid' = closedSaid \cup closed /\ startSaid' = startSaid \cup starts
    /\ call' = [call EXCEPT ![c].at = IF turn[l] = c THEN "derive" ELSE "publish",
                            ![c].lane = l, ![c].lanes = @ \ {l}]
    /\ UNCHANGED <<kernelVars, turn, last, known, told>>

TakeTurnAtOnce(c) ==   \* mutant: the emission is not ordered
    /\ call[c].at = "publish"
    /\ turn' = [turn EXCEPT ![call[c].lane] = c]
    /\ Goto(c, "derive")
    /\ UNCHANGED <<kernelVars, last, known, emitted>>
TakeTurn(c) ==
    /\ call[c].at = "publish" /\ turn[call[c].lane] = None
    /\ turn' = [turn EXCEPT ![call[c].lane] = c]
    /\ Goto(c, "derive")
    /\ UNCHANGED <<kernelVars, last, known, emitted>>

\* A fact equal to the last is not told again, except to a replay.  A grant
\* still has its frame to publish.
RecordReleases(c) ==   \* mutant: the turn ends before the emitter is called
    /\ call[c].at = "derived"
    /\ LET l == call[c].lane
           new == call[c].drawn # last[l] \/ call[c].op = "replay"
           after == IF call[c].op = "frame" /\ l \in call[c].lanes THEN "report" ELSE "tell"
       IN  /\ last' = [last EXCEPT ![l] = call[c].drawn]
           /\ turn' = [turn EXCEPT ![l] = None]
           /\ call' = [call EXCEPT ![c].at = after, ![c].drawn = Unseen,
                          ![c].news = IF new THEN Append(@, call[c].drawn) ELSE @]
    /\ UNCHANGED <<kernelVars, known, emitted>>
Record(c) ==
    /\ call[c].at = "derived"
    /\ LET l == call[c].lane
           new == call[c].drawn # last[l] \/ call[c].op = "replay"
           after == IF call[c].op = "frame" /\ l \in call[c].lanes THEN "report" ELSE "tell"
       IN  /\ last' = [last EXCEPT ![l] = call[c].drawn]
           /\ call' = [call EXCEPT ![c].at = after, ![c].drawn = Unseen,
                          ![c].news = IF new THEN Append(@, call[c].drawn) ELSE @]
    /\ UNCHANGED <<kernelVars, turn, known, emitted>>

\* What a frame sends, in order: the accept of its shell first.
AcceptGoes(c) ==
    /\ call[c].op = "frame" /\ call[c].at = "tell"
    /\ DeliverBegins(call[c].dom) \/ DeliverRefused(call[c].dom) \/ DeliverEnds(call[c].dom)
    /\ UNCHANGED <<turn, last, known, call, emitted>>

AcceptGoneLater(c) == call[c].op # "none"   \* mutant: the accept is not waited for
AcceptGone(c) == call[c].op = "frame" => call[c].dom \notin accepts \cup sending

Tell(c) ==
    /\ call[c].at = "tell" /\ AcceptGone(c) /\ call[c].news # <<>>
    /\ told' = [told EXCEPT ![call[c].lane] = Head(call[c].news)]
    /\ call' = [call EXCEPT ![c].news = Tail(@)]
    /\ UNCHANGED <<kernelVars, turn, last, known, closedSaid, startSaid>>

\* The turn is given back only when everything has been sent.
EndTurn(c) ==
    /\ call[c].at = "tell" /\ AcceptGone(c) /\ call[c].news = <<>>
    /\ turn' = [turn EXCEPT ![call[c].lane] = None]
    /\ IF call[c].lanes = {} THEN Return(c) ELSE Goto(c, "report")
    /\ UNCHANGED <<kernelVars, last, known, emitted>>

-----------------------------------------------------------------------------
\* A call under way takes its next step.
Proceed(c) ==
    \/ IngestFrame(c) \/ NotifyGap(c) \/ LoseTransport(c) \/ Submit(c)
    \/ (\E l \in Lane : Report(c, l)) \/ TakeTurn(c)
    \/ Derive(c) \/ SeedRecorded(c) \/ Record(c) \/ AcceptGoes(c) \/ Tell(c) \/ EndTurn(c)

Begin ==
    \/ \E t \in Transport : Bind(t)
    \/ \E t \in Transport, d \in Domain : BeginFrame(t, d) \/ BeginGap(t, d)
    \/ \E c \in Transport \cup Closer, t \in Transport :
          (c \in Transport => c = t) /\ BeginLoss(c, t)
    \/ \E c \in Handler, l \in Lane :
          \/ BeginReplay(c, l) \/ MoveLane(c, l)
          \/ \E d \in Domain, t \in Transport :
                OpenLane(c, d, l, t) \/ \E e \in 1 .. MaxEpoch : AdoptLane(c, d, l, t, e)
    \/ \E c \in Handler, d \in Domain : BeginSubmit(c, d)

PubNext == Begin \/ \E c \in Caller : Proceed(c)

PubSpec == PubInit /\ [][PubNext]_pubVars

-----------------------------------------------------------------------------
(* Properties.                                                             *)
-----------------------------------------------------------------------------
\* Whenever no call has changed a lane without having published it yet, the
\* last fact the emitter was told of it is what the kernel says of it: no fact
\* is lost to the dedupe and none overtaken by an older one, whichever pumps,
\* handlers and closers publish the lane at once (publishLane, ReplayLane).
QuietLaneIsTold ==
    \A l \in known :
        (\A c \in Caller : call[c].at \in {"idle", "mutate"}) =>
            \/ told[l] = Derived(l)
            \/ told[l] = Unseen /\ Derived(l) = NativeFact

\* The baseline a fact is compared with is the fact the emitter was told last:
\* outside a turn they never differ, so nothing is deduped against news that
\* was never told.
BaselineIsTold ==
    \A l \in Lane : turn[l] = None =>
        \/ told[l] = last[l]
        \/ told[l] = Unseen /\ last[l] = NativeFact

\* The publisher's own record of what it said is the emitter's.
BaselineKept == PubTypeOK /\ BaselineIsTold

\* A fact that names a completed attempt is handed to the emitter only after
\* the attempt was reported closed: the completion's notification is raised by
\* that report, and by nothing once the fact has closed the row
\* (transitionsBelow).  On an adopted shell an attempt may be rebuilt
\* completed, with nothing to report.
ClosedBeforeTold == [][\A l \in Lane :
    LET f == last'[l] IN
    /\ f # last[l] /\ f.attemptState = "Completed"
    /\ ~adopted[f.fact.domain]
    => f.fact.attempt \in closedSaid]_pubVars

\* No prompt is told of a shell whose accept is still to be sent: a submit
\* against it would find a shell that has not been admitted.
AcceptBeforePrompt == [][\A l \in Lane :
    LET f == told'[l] IN
    f # told[l] /\ f.fact.state = "PromptReady" => f.fact.domain \notin accepts \cup sending]_pubVars
=============================================================================
