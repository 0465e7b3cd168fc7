------------------------------ MODULE RunLease ------------------------------
(***************************************************************************)
(* One run an assistant asks a renderer for, from RequestRun to its last   *)
(* continuation (internal/transport: ws_run.go, run_lease.go, run_park.go, *)
(* request_broker.go).  The call waits inline on the broker request under  *)
(* a lease.  Everything else runs on goroutines of its own: the bound      *)
(* (wall clock or output budget: fire), the quiet bound, the lane's        *)
(* takeover callback, the person's stop (agent.cancel), the renderers'     *)
(* resolution on a read loop, and the ending of a parked run, which up to  *)
(* three of them may execute at once.                                      *)
(*                                                                         *)
(* The session is local, so the ladder's KILL always ends the group it is  *)
(* addressed to; a bound is configured, so the broker's own timeout is off *)
(* (ws_run.go:283-290); which bound fired is not distinguished.            *)
(***************************************************************************)
EXTENDS Naturals, FiniteSets

CONSTANTS
  Conn,         \* the renderer connections
  MaxWaits,     \* bound on the "keep waiting" answers the model gives
  MaxTakeovers  \* bound on the lane's entries into awaiting-takeover

ASSUME RunLeaseAssumption ==
  /\ IsFiniteSet(Conn) /\ Conn # {}
  /\ MaxWaits \in Nat /\ MaxTakeovers \in Nat

Ender == {"bound", "person", "model"}   \* who may run finishParkedRun

VARIABLES
  conns,      \* the live renderer connections
  req,        \* the broker's pendingRequest, its one-slot channel, its park record
  lease,      \* the runLease
  registry,   \* the parked-run registry holds the run
  call,       \* the goroutine of RequestRun or RequestRunWait
  bound,      \* the goroutine fire runs on
  person,     \* the agent.cancel handler and the turn it stops
  ender,      \* each ender's place in finishParkedRun
  renderer,   \* which renderers hold the notification, and which its withdrawal
  shell,      \* the run's command, and what is in the session's foreground
  lane        \* the lane's takeover state and the callback note owes the lease

vars == <<conns, req, lease, registry, call, bound, person, ender, renderer,
          shell, lane>>

PC == {"idle", "new", "attached", "armed", "requesting", "registered", "delivering",
       "waiting", "returned", "disarm", "escalate", "finish", "over",
       "park", "parking", "model", "resuming", "takeBack", "resumed", "stopping"}

Slot == {"empty", "result", "disconnected", "undelivered", "withdrawn"}
Result == Slot \union {"none", "parked", "canceled", "noClient", "unknown", "bound"}

\* Data shapes only: one type invariant for the module.
TypeOK ==
  /\ conns \subseteq Conn
  /\ req \in [pending: BOOLEAN, recipients: SUBSET Conn, toDeliver: SUBSET Conn,
              ch: Slot, answering: BOOLEAN, accepted: BOOLEAN, parked: BOOLEAN]
  /\ lease \in [done: BOOLEAN, fired: BOOLEAN, suspended: BOOLEAN,
                cancelStarted: BOOLEAN, parked: BOOLEAN, parkC: BOOLEAN,
                quiet: BOOLEAN, watching: BOOLEAN, delivered: BOOLEAN,
                parkedEnd: BOOLEAN, cancel: {"nil", "stale", "live"},
                attempt: {"none", "bound", "started"}, accounting: BOOLEAN]
  /\ registry \in BOOLEAN
  /\ call \in [pc: PC, res: Result, waits: 0..MaxWaits, ctxDone: BOOLEAN]
  /\ bound \in {"idle", "cancel"}
  /\ person \in [pc: {"idle", "claim", "naming", "cancel", "signal", "ending",
                      "context", "done"},
                 named: {"nobody", "run", "person"}]
  /\ ender \in [Ender -> {"idle", "withdraw", "escalate"}]
  /\ renderer \in [notified: SUBSET Conn, cancelSent: BOOLEAN, withdrawn: SUBSET Conn]
  /\ shell \in [cmd: {"none", "running", "ended"}, front: {"nobody", "run", "person"},
                persons: 0..1, stray: BOOLEAN]
  /\ lane \in [awaiting: BOOLEAN, owed: BOOLEAN, takeovers: 0..MaxTakeovers]

Init ==
  /\ conns = Conn
  /\ req = [pending |-> FALSE, recipients |-> {}, toDeliver |-> {}, ch |-> "empty",
            answering |-> FALSE, accepted |-> FALSE, parked |-> FALSE]
  /\ lease = [done |-> FALSE, fired |-> FALSE, suspended |-> FALSE,
              cancelStarted |-> FALSE, parked |-> FALSE, parkC |-> FALSE,
              quiet |-> FALSE, watching |-> FALSE, delivered |-> FALSE,
              parkedEnd |-> FALSE, cancel |-> "nil", attempt |-> "none",
              accounting |-> FALSE]
  /\ registry = FALSE
  /\ call = [pc |-> "idle", res |-> "none", waits |-> 0, ctxDone |-> FALSE]
  /\ bound = "idle"
  /\ person = [pc |-> "idle", named |-> "nobody"]
  /\ ender = [e \in Ender |-> "idle"]
  /\ renderer = [notified |-> {}, cancelSent |-> FALSE, withdrawn |-> {}]
  /\ shell = [cmd |-> "none", front |-> "nobody", persons |-> 0, stray |-> FALSE]
  /\ lane = [awaiting |-> FALSE, owed |-> FALSE, takeovers |-> 0]

-----------------------------------------------------------------------------
(* The operations the goroutines share.                                    *)

At(pc) == call.pc = pc
Goto(pc) == call' = [call EXCEPT !.pc = pc]
Return(res, pc) == call' = [call EXCEPT !.res = res, !.pc = pc]

\* The turn's context is cancelled before the person's handler is done.
TurnLive == person.pc = "idle"

\* runLease.disarm.
Disarmed(l) == [l EXCEPT !.done = TRUE, !.quiet = FALSE, !.watching = FALSE]

\* Broker.cancel: the request is dropped and its recipients are told.
Cancel(r) == [r EXCEPT !.pending = FALSE]
TellsRenderers == renderer' = [renderer EXCEPT !.cancelSent = @ \/ (req.pending /\ req.recipients # {})]

\* Broker.withdrawParked: the error goes to the slot unless an answer is there.
WithdrawParked ==
  IF req.parked
    THEN /\ req' = [Cancel(req) EXCEPT !.parked = FALSE,
                                       !.ch = IF @ = "empty" THEN "withdrawn" ELSE @]
         /\ TellsRenderers
    ELSE UNCHANGED <<req, renderer>>

\* stopProcessGroup: the ladder against the one group that was named.
KillGroup(group) ==
  shell' = IF group = "nobody" \/ group # shell.front
             THEN shell
             ELSE [shell EXCEPT !.front = "nobody",
                                !.cmd = IF group = "run" THEN "ended" ELSE @,
                                !.stray = @ \/ group = "person"]

\* runLease.escalate: stopForeground names what is in front when it is called.
StopForeground == KillGroup(shell.front)

-----------------------------------------------------------------------------
(* RequestRun and supervise.                                               *)

RequestRun ==
  /\ At("idle") /\ TurnLive
  /\ ~lane.awaiting
  /\ Goto("new")
  /\ UNCHANGED <<conns, req, lease, registry, bound, person, ender, renderer, shell, lane>>

\* agentRunControl.attachRunLease refuses once the turn is cancelled.
AttachRunLease ==
  /\ At("new")
  /\ IF TurnLive THEN Goto("attached") ELSE Return("canceled", "over")
  /\ UNCHANGED <<conns, req, lease, registry, bound, person, ender, renderer, shell, lane>>

\* supervise's first critical section: a stop that came first is consumed here.
Supervise ==
  /\ At("attached")
  /\ IF lease.cancelStarted
       THEN /\ lease' = Disarmed([lease EXCEPT !.cancel = "live"])
            /\ Return("canceled", "finish")
       ELSE /\ lease' = [lease EXCEPT !.cancel = "live", !.watching = TRUE]
            /\ Goto("armed")
  /\ UNCHANGED <<conns, req, registry, bound, person, ender, renderer, shell, lane>>

\* A lane already awaiting takeover suspends the bounds, and disarms nothing.
RecheckLane ==
  /\ At("armed")
  /\ lease' = [lease EXCEPT !.suspended = @ \/ lane.awaiting]
  /\ Goto("requesting")
  /\ UNCHANGED <<conns, req, registry, bound, person, ender, renderer, shell, lane>>

\* RequestParkable up to the recipient snapshot.
Register ==
  /\ At("requesting")
  /\ IF call.ctxDone \/ conns = {}
       THEN /\ Return(IF call.ctxDone THEN "canceled" ELSE "noClient", "returned")
            /\ UNCHANGED req
       ELSE /\ req' = [req EXCEPT !.pending = TRUE, !.toDeliver = conns]
            /\ Goto("registered")
  /\ UNCHANGED <<conns, lease, registry, bound, person, ender, renderer, shell, lane>>

\* Broker.arm: the connections that died since the snapshot are not armed.
Arm ==
  /\ At("registered")
  /\ LET armed == req.toDeliver \intersect conns IN
       req' = [req EXCEPT !.recipients = armed,
                          !.pending = armed # {},
                          !.ch = IF armed = {} THEN "disconnected" ELSE @]
  /\ Goto("delivering")
  /\ UNCHANGED <<conns, lease, registry, bound, person, ender, renderer, shell, lane>>

\* Broker.pruneRecipient and ConnectionLost: the last recipient to go ends it.
Prune(c, err) ==
  LET left == req.recipients \ {c} IN
  IF req.pending /\ c \in req.recipients
    THEN [req EXCEPT !.recipients = left,
                     !.pending = left # {},
                     !.ch = IF left = {} THEN err ELSE @]
    ELSE req

Deliver(c) ==
  /\ At("delivering") /\ c \in req.toDeliver
  /\ \/ /\ c \in conns
        /\ renderer' = [renderer EXCEPT !.notified = @ \union {c}]
        /\ req' = [req EXCEPT !.toDeliver = @ \ {c}]
     \/ /\ req' = [Prune(c, "undelivered") EXCEPT !.toDeliver = @ \ {c}]
        /\ UNCHANGED renderer
  /\ UNCHANGED <<conns, lease, registry, call, bound, person, ender, shell, lane>>

AfterDeliver ==
  /\ At("delivering") /\ req.toDeliver = {}
  /\ lease' = [lease EXCEPT !.delivered = renderer.notified # {}]
  /\ Goto("waiting")
  /\ UNCHANGED <<conns, req, registry, bound, person, ender, renderer, shell, lane>>

\* Broker.await: one select; any ready arm may be taken.
AwaitAnswer ==
  /\ At("waiting") /\ req.ch # "empty"
  /\ req' = [req EXCEPT !.ch = "empty", !.parked = FALSE]
  /\ Return(req.ch, "returned")
  /\ UNCHANGED <<conns, lease, registry, bound, person, ender, renderer, shell, lane>>

AwaitPark ==
  /\ At("waiting") /\ lease.parkC
  /\ req' = [req EXCEPT !.parked = TRUE]
  /\ Return("parked", "returned")
  /\ UNCHANGED <<conns, lease, registry, bound, person, ender, renderer, shell, lane>>

AwaitCancel ==
  /\ At("waiting") /\ call.ctxDone
  /\ req' = [Cancel(req) EXCEPT !.parked = FALSE]
  /\ TellsRenderers
  /\ Return("canceled", "returned")
  /\ UNCHANGED <<conns, lease, registry, bound, person, ender, shell, lane>>

\* isParked is read before anything is disarmed.
ReadParked ==
  /\ At("returned")
  /\ Goto(IF lease.parked /\ ~lease.fired THEN "park" ELSE "disarm")
  /\ UNCHANGED <<conns, req, lease, registry, bound, person, ender, renderer, shell, lane>>

\* mutant: the verdict is read and the triggers are left armed.
VerdictWithoutDisarm(l) == l

\* What supervise and superviseResume leave of the lease before the verdict.
BeforeVerdict(l) == Disarmed(l)

Abandoned == {"canceled", "disconnected", "undelivered"}

\* RunLeaseError unwraps to ErrRequestParked (assistant/requester.go:353): who
\* took the park arm is parked, though a bound fired before the verdict.
AfterVerdict(res) == IF res = "parked" THEN "park" ELSE "finish"

\* The verdict: a bound wins over the answer; what a bound ends, or its caller
\* or renderer abandoned, is escalated.
ReadVerdict ==
  /\ At("disarm")
  /\ lease' = BeforeVerdict(lease)
  /\ LET res == IF lease.fired /\ call.res # "parked" THEN "bound" ELSE call.res
         escalates == IF lease.fired
                        THEN lease.delivered
                        ELSE /\ call.res \in Abandoned
                             /\ call.waits > 0 \/ ~lease.cancelStarted
     IN Return(res, IF escalates THEN "escalate" ELSE AfterVerdict(res))
  /\ UNCHANGED <<conns, req, registry, bound, person, ender, renderer, shell, lane>>

Escalate ==
  /\ At("escalate")
  /\ StopForeground
  /\ Goto(AfterVerdict(call.res))
  /\ UNCHANGED <<conns, req, lease, registry, bound, person, ender, renderer, lane>>

\* An error withdraws whatever was parked; an answer has nothing to withdraw.
Settle == IF call.res = "result" THEN UNCHANGED <<req, renderer>> ELSE WithdrawParked

\* RequestRun and RequestRunWait end, not parked: the attempt bridge is closed.
Finish ==
  /\ At("finish")
  /\ Settle
  /\ lease' = [lease EXCEPT !.attempt = IF @ = "bound" THEN "none" ELSE @]
  /\ Goto("over")
  /\ UNCHANGED <<conns, registry, bound, person, ender, shell, lane>>

-----------------------------------------------------------------------------
(* The parked run: parkRun, the continuation, the one ending.              *)

\* The supervisor's deferred second look disarms what fired since the first
\* (run_lease.go:359-365); then parkRun puts the run into the registry.
ParkPut ==
  /\ At("park")
  /\ lease' = IF lease.fired THEN Disarmed(lease) ELSE lease
  /\ registry' = TRUE
  /\ Goto("parking")
  /\ UNCHANGED <<conns, req, bound, person, ender, renderer, shell, lane>>

\* mutant: the run waits in the registry with no ending of its own.
ParkedWithoutEnd(l) == [l EXCEPT !.cancel = "stale"]

\* setParkedEnd; the cancellation left in the lease reaches no wait any more.
Parked(l) == [l EXCEPT !.parkedEnd = TRUE, !.cancel = "stale"]

\* The model is told the command is still running.
ParkEnd ==
  /\ At("parking")
  /\ lease' = Parked(lease)
  /\ Return("parked", "model")
  /\ UNCHANGED <<conns, req, registry, bound, person, ender, renderer, shell, lane>>

\* RequestRunWait("continue"): a run no longer in the registry is not waiting.
KeepWaiting ==
  /\ At("model") /\ TurnLive /\ call.waits < MaxWaits
  /\ registry' = FALSE
  /\ call' = IF registry
               THEN [call EXCEPT !.pc = "resuming", !.waits = @ + 1]
               ELSE [call EXCEPT !.pc = "over", !.res = "unknown"]
  /\ UNCHANGED <<conns, req, lease, bound, person, ender, renderer, shell, lane>>

ResumeQuiet ==
  /\ At("resuming")
  /\ lease' = IF lease.done \/ lease.fired
                THEN lease
                ELSE [lease EXCEPT !.parked = FALSE, !.parkC = FALSE,
                                   !.quiet = lease.accounting]
  /\ Goto("takeBack")
  /\ UNCHANGED <<conns, req, registry, bound, person, ender, renderer, shell, lane>>

\* mutant: the ending is cleared, and the new caller's cancellation not installed.
ClearOnly(l) == [l EXCEPT !.parkedEnd = FALSE]

\* The one critical section of takeBack.
HandBack(l) == [l EXCEPT !.parkedEnd = FALSE, !.cancel = "live"]

TakeBack ==
  /\ At("takeBack")
  /\ IF lease.done \/ lease.fired \/ lease.cancelStarted
       THEN /\ Return(IF lease.fired THEN "bound" ELSE "canceled", "finish")
            /\ UNCHANGED lease
       ELSE /\ lease' = HandBack(lease)
            /\ Goto("resumed")
  /\ UNCHANGED <<conns, req, registry, bound, person, ender, renderer, shell, lane>>

ResumeParked ==
  /\ At("resumed")
  /\ CASE ~req.parked -> Return("unknown", "returned")
       [] req.parked /\ call.ctxDone -> Return("canceled", "returned")
       [] OTHER -> Goto("waiting")
  /\ UNCHANGED <<conns, req, lease, registry, bound, person, ender, renderer, shell, lane>>

\* RequestRunWait("stop"): endParkedRun takes the registry's entry.
DeclineRun ==
  /\ At("model") /\ TurnLive
  /\ registry' = FALSE
  /\ IF registry
       THEN ender' = [ender EXCEPT !["model"] = "withdraw"] /\ Goto("stopping")
       ELSE Return("unknown", "over") /\ UNCHANGED ender
  /\ UNCHANGED <<conns, req, lease, bound, person, renderer, shell, lane>>

\* finishParkedRunDetailed up to the end of the attempt bridge ...
EndRun(e) ==
  /\ ender[e] = "withdraw"
  /\ registry' = FALSE
  /\ lease' = [lease EXCEPT !.parkedEnd = FALSE,
                            !.attempt = IF @ = "bound" THEN "none" ELSE @]
  /\ WithdrawParked
  /\ ender' = [ender EXCEPT ![e] = "escalate"]
  /\ UNCHANGED <<conns, call, bound, person, shell, lane>>

\* ... and its disarm and escalation, after which its caller goes on.
EndEscalates(e) ==
  /\ ender[e] = "escalate"
  /\ lease' = Disarmed(lease)
  /\ StopForeground
  /\ ender' = [ender EXCEPT ![e] = "idle"]
  /\ call' = IF e = "model" THEN [call EXCEPT !.pc = "over", !.res = "bound"] ELSE call
  /\ person' = IF e = "person" THEN [person EXCEPT !.pc = "context"] ELSE person
  /\ UNCHANGED <<conns, req, registry, bound, renderer, lane>>

-----------------------------------------------------------------------------
(* The bounds.                                                             *)

\* fire: the wall clock from the first submission on, the budget while counting.
Fire ==
  /\ call.pc \notin {"idle", "new", "attached"}
  /\ ~lease.done /\ ~lease.fired /\ ~lease.suspended
  /\ lease' = [lease EXCEPT !.fired = TRUE]
  /\ IF lease.parkedEnd
       THEN ender' = [ender EXCEPT !["bound"] = "withdraw"] /\ UNCHANGED bound
       ELSE bound' = "cancel" /\ UNCHANGED ender
  /\ UNCHANGED <<conns, req, registry, call, person, renderer, shell, lane>>

\* The cancel fire captured reaches the waiting call only while it is its own.
BoundCancels ==
  /\ bound = "cancel"
  /\ bound' = "idle"
  /\ call' = [call EXCEPT !.ctxDone = @ \/ lease.cancel = "live"]
  /\ UNCHANGED <<conns, req, lease, registry, person, ender, renderer, shell, lane>>

\* onAttemptStart: the authenticated start opens the accounting, once.
AttemptStarts ==
  /\ lease.attempt = "bound" /\ shell.cmd # "none"
  /\ LET counts == ~lease.done /\ ~lease.suspended /\ ~lease.fired IN
       lease' = [lease EXCEPT !.attempt = "started", !.accounting = counts,
                              !.quiet = counts]
  /\ UNCHANGED <<conns, req, registry, call, bound, person, ender, renderer, shell, lane>>

\* checkInactivity on silence: the run is parked, the wait is released.
CheckInactivity ==
  /\ lease.quiet
  /\ ~lease.done /\ ~lease.suspended /\ ~lease.parked /\ ~lease.fired
  /\ lease' = [lease EXCEPT !.parked = TRUE, !.parkC = TRUE, !.quiet = FALSE]
  /\ UNCHANGED <<conns, req, registry, call, bound, person, ender, renderer, shell, lane>>

-----------------------------------------------------------------------------
(* The lane's takeover (laneState.note and the lease's onLane).            *)

LaneReport(awaiting) ==
  /\ awaiting # lane.awaiting
  /\ awaiting => lane.takeovers < MaxTakeovers
  /\ lane' = [awaiting |-> awaiting, owed |-> lane.owed \/ lease.watching,
              takeovers |-> IF awaiting THEN lane.takeovers + 1 ELSE lane.takeovers]
  /\ UNCHANGED <<conns, req, lease, registry, call, bound, person, ender, renderer, shell>>

OnLane ==
  /\ lane.owed
  /\ lane' = [lane EXCEPT !.owed = FALSE]
  /\ lease' = IF lease.done \/ lease.suspended \/ lease.fired \/ ~lane.awaiting
                THEN lease
                ELSE Disarmed([lease EXCEPT !.suspended = TRUE])
  /\ UNCHANGED <<conns, req, registry, call, bound, person, ender, renderer, shell>>

-----------------------------------------------------------------------------
(* The person's stop: handleCancel, then cancelExecution on the turn's lease. *)

BeginCancel ==
  /\ person.pc = "idle" /\ call.pc \notin {"idle", "over"}
  /\ person' = [person EXCEPT !.pc = "claim"]
  /\ UNCHANGED <<conns, req, lease, registry, call, bound, ender, renderer, shell, lane>>

ClaimCancel ==
  /\ person.pc = "claim"
  /\ IF At("new") \/ lease.done \/ lease.cancelStarted
       THEN /\ person' = [person EXCEPT !.pc = "context"]
            /\ UNCHANGED <<lease, ender>>
       ELSE /\ lease' = [lease EXCEPT !.cancelStarted = TRUE]
            /\ person' = [person EXCEPT !.pc = IF lease.parkedEnd THEN "ending"
                                               ELSE IF lease.cancel = "nil" THEN "context"
                                               ELSE "naming"]
            /\ ender' = IF lease.parkedEnd
                          THEN [ender EXCEPT !["person"] = "withdraw"]
                          ELSE ender
  /\ UNCHANGED <<conns, req, registry, call, bound, renderer, shell, lane>>

\* foregroundJob names the addressee; only then is the request withdrawn.
NameForeground ==
  /\ person.pc = "naming"
  /\ person' = [pc |-> "cancel", named |-> shell.front]
  /\ UNCHANGED <<conns, req, lease, registry, call, bound, ender, renderer, shell, lane>>

CancelCall ==
  /\ person.pc = "cancel"
  /\ call' = [call EXCEPT !.ctxDone = @ \/ lease.cancel = "live"]
  /\ person' = [person EXCEPT !.pc = IF person.named = "nobody" THEN "context" ELSE "signal"]
  /\ UNCHANGED <<conns, req, lease, registry, bound, ender, renderer, shell, lane>>

SignalNamed ==
  /\ person.pc = "signal"
  /\ KillGroup(person.named)
  /\ person' = [person EXCEPT !.pc = "context"]
  /\ UNCHANGED <<conns, req, lease, registry, call, bound, ender, renderer, lane>>

\* mutant: the lease's own cancellation is taken for enough.
KeepsTurn(c) == c

CancelsTurn(c) == [c EXCEPT !.ctxDone = TRUE]

\* cancelContext: the turn's own context, which every call of it inherits.
CancelContext ==
  /\ person.pc = "context"
  /\ person' = [person EXCEPT !.pc = "done"]
  /\ call' = CancelsTurn(call)
  /\ UNCHANGED <<conns, req, lease, registry, bound, ender, renderer, shell, lane>>

-----------------------------------------------------------------------------
(* The renderers and the session's foreground.                             *)

\* A renderer that has not read the withdrawal submits; the submit that finds
\* the request pending binds the attempt to it (bindRunAttempt).
Submit(c) ==
  /\ c \in renderer.notified \ renderer.withdrawn
  /\ shell.cmd = "none" /\ shell.front = "nobody"
  /\ shell' = [shell EXCEPT !.cmd = "running", !.front = "run"]
  /\ lease' = [lease EXCEPT !.attempt = IF req.pending /\ c \in req.recipients
                                          THEN "bound" ELSE @]
  /\ UNCHANGED <<conns, req, registry, call, bound, person, ender, renderer, lane>>

SeeCancel(c) ==
  /\ renderer.cancelSent /\ c \in renderer.notified \ renderer.withdrawn
  /\ renderer' = [renderer EXCEPT !.withdrawn = @ \union {c}]
  /\ UNCHANGED <<conns, req, lease, registry, call, bound, person, ender, shell, lane>>

CommandEnds ==
  /\ shell.cmd = "running"
  /\ shell' = [shell EXCEPT !.cmd = "ended", !.front = "nobody"]
  /\ UNCHANGED <<conns, req, lease, registry, call, bound, person, ender, renderer, lane>>

\* The person runs a command of their own at the prompt.
PersonRuns ==
  /\ shell.front = "nobody" /\ shell.persons = 0
  /\ shell' = [shell EXCEPT !.front = "person", !.persons = 1]
  /\ UNCHANGED <<conns, req, lease, registry, call, bound, person, ender, renderer, lane>>

PersonsCommandEnds ==
  /\ shell.front = "person"
  /\ shell' = [shell EXCEPT !.front = "nobody"]
  /\ UNCHANGED <<conns, req, lease, registry, call, bound, person, ender, renderer, lane>>

\* mutant: the resolution is sent without consuming the pending request.
ConsumeNothing(r) == r

\* Broker.Resolve under the lock: the pending request is the ticket to send.
Consume(r) == [r EXCEPT !.pending = FALSE]

Resolve(c) ==
  /\ ~req.answering
  /\ req.pending /\ c \in req.recipients \intersect conns
  /\ c \in renderer.notified \ renderer.withdrawn /\ shell.cmd # "running"
  /\ req' = [Consume(req) EXCEPT !.answering = TRUE, !.accepted = TRUE]
  /\ UNCHANGED <<conns, lease, registry, call, bound, person, ender, renderer, shell, lane>>

\* ... and the send on the one-slot channel, outside it.
SendResolution ==
  /\ req.answering /\ req.ch = "empty"
  /\ req' = [req EXCEPT !.answering = FALSE, !.ch = "result"]
  /\ UNCHANGED <<conns, lease, registry, call, bound, person, ender, renderer, shell, lane>>

ConnectionLost(c) ==
  /\ c \in conns
  /\ conns' = conns \ {c}
  /\ req' = Prune(c, "disconnected")
  /\ UNCHANGED <<lease, registry, call, bound, person, ender, renderer, shell, lane>>

-----------------------------------------------------------------------------
Caller ==
  \/ RequestRun \/ AttachRunLease \/ Supervise \/ RecheckLane \/ Register \/ Arm
  \/ \E c \in Conn : Deliver(c)
  \/ AfterDeliver \/ AwaitAnswer \/ AwaitPark \/ AwaitCancel \/ ReadParked
  \/ ReadVerdict \/ Escalate \/ Finish \/ ParkPut \/ ParkEnd \/ KeepWaiting
  \/ ResumeQuiet \/ TakeBack \/ ResumeParked \/ DeclineRun

Endings == \E e \in Ender : EndRun(e) \/ EndEscalates(e)
Bounds == Fire \/ BoundCancels \/ AttemptStarts \/ CheckInactivity
Takeover == (\E a \in BOOLEAN : LaneReport(a)) \/ OnLane
Stop == BeginCancel \/ ClaimCancel \/ NameForeground \/ CancelCall \/ SignalNamed \/ CancelContext

Renderers ==
  \/ \E c \in Conn : Submit(c) \/ SeeCancel(c) \/ Resolve(c) \/ ConnectionLost(c)
  \/ CommandEnds \/ PersonRuns \/ PersonsCommandEnds \/ SendResolution

Next == Caller \/ Endings \/ Bounds \/ Takeover \/ Stop \/ Renderers

Spec == Init /\ [][Next]_vars

\* The goroutine in a call, the timers and the endings run; the model, the
\* person and the renderers owe nothing.
InCall ==
  \/ AttachRunLease \/ Supervise \/ RecheckLane \/ Register \/ Arm
  \/ \E c \in Conn : Deliver(c)
  \/ AfterDeliver \/ AwaitAnswer \/ AwaitPark \/ AwaitCancel \/ ReadParked
  \/ ReadVerdict \/ Escalate \/ Finish \/ ParkPut \/ ParkEnd \/ ResumeQuiet
  \/ TakeBack \/ ResumeParked

FairSpec ==
  /\ Spec
  /\ WF_vars(InCall) /\ WF_vars(Fire) /\ WF_vars(BoundCancels)
  /\ \A e \in Ender : WF_vars(EndRun(e) \/ EndEscalates(e))

-----------------------------------------------------------------------------
(* Safety.                                                                 *)

Ending == \E e \in Ender : ender[e] # "idle"

\* A request that can still be resolved has an empty slot and no resolution on
\* its way: whatever settles it takes the pending entry first, so two answers
\* (or an answer and a loss) never compete for the slot of one wait
\* (request_broker.go:689-690, 719-743).
OneSettler == req.pending => req.ch = "empty" /\ ~req.answering

\* When the model has the run's outcome nothing is left behind for nobody: no
\* pending request, no park record, no registry entry, whichever of the answer,
\* the park, the bound, the stop and the loss raced (run_park.go, ws_run.go:
\* 364-371, 498-515).  A run that a bound killed while it was parked has none:
\* the model is told that it still runs (RunLeaseClaims).
NothingLeftPending ==
  At("over") /\ ~Ending => ~req.pending /\ ~req.parked /\ ~registry

\* Whatever settles a request does it once, and the outcome of a run leaves
\* nothing of it behind.
SettledOnce == TypeOK /\ OneSettler /\ NothingLeftPending

\* A call that returned the command's answer is never overtaken by its bound
\* or its quiet question: the triggers are dead before the verdict is read, so
\* no bound can fire against what the session runs next (run_lease.go:415-417).
AnsweredNeverExpires == At("over") /\ call.res = "result" => ~lease.fired

\* A command left running while the model holds the question has an owner: the
\* registry and the lease both know how to end it, or an ending is under way
\* (run_park.go:40-48, 104-118).
ParkedRunHasAnEnding ==
  At("model") /\ shell.cmd = "running" => Ending \/ (registry /\ lease.parkedEnd)

(* Liveness.                                                               *)

\* Every wait ends, renewed ones too, even when no renderer ever answers: the
\* wall clock armed at the first submission reaches the goroutine that waits
\* now.  Only a takeover of the lane lifts the bound (run_lease.go:450-459).
WaitEnds == At("waiting") ~> ~At("waiting") \/ lease.suspended

\* After agent.cancel the turn's call comes back, whatever state the request,
\* the park or the lane is in: a suspended lease too is reached by the turn's
\* own context (ws_agent.go:1919-1930).
StopReturns == person.pc = "done" ~> At("over") \/ At("model")
=============================================================================
