---------------------------- MODULE RunLeaseProofs ----------------------------
(***************************************************************************)
(* Proofs about RunLease, for any renderer connections and any number of   *)
(* waits and takeovers: a run is settled once and leaves nothing behind,   *)
(* an answered call is never overtaken by its bound, and a parked command  *)
(* always has an ending.                                                   *)
(*                                                                         *)
(* Six goroutines touch a run, so the invariant says for each of its       *)
(* pieces where the caller stands: a pending entry has a waiter or a park  *)
(* record, the registry has the run only between ParkPut and the next      *)
(* continuation, and an ending runs only where the model holds the         *)
(* question or has just lost it - which is why TakeBack, that looks at     *)
(* three flags of the lease, never hands back a run that is being ended.   *)
(***************************************************************************)
EXTENDS RunLease, TLAPS

\* The request is not registered yet.
Early == {"idle", "new", "attached", "armed", "requesting"}

\* Nothing has happened to a request that nobody has been asked yet.
Untouched ==
  call.pc \in Early \cup {"registered"} =>
    req.ch = "empty" /\ ~req.answering /\ ~req.parked /\ req.recipients = {}

\* A pending request that is not parked has the goroutine that will hear it.
Waiter == req.pending /\ ~req.parked => call.pc \in {"registered", "delivering", "waiting"}

\* An answer was returned: the request is gone, and with the verdict the triggers are dead.
AnswerIsTaken ==
  call.res = "result" =>
    /\ call.pc \in {"returned", "disarm", "finish", "over", "park", "parking"}
    /\ ~req.pending /\ ~req.parked
    /\ call.pc \in {"finish", "over"} => lease.done /\ ~lease.fired

\* The registry has the run while it is parked, and a park record goes with whoever ends it.
Registry ==
  /\ registry => call.pc \in {"parking", "model"}
  /\ call.pc = "parking" => registry
  /\ call.pc = "model" /\ req.parked => registry
  /\ call.pc = "stopping" /\ req.parked => ender["model"] = "withdraw"
  /\ call.pc = "over" => ~req.parked

\* An ending runs only while the model holds the question, and its reason stands in the lease.
Enders ==
  /\ Ending \/ lease.parkedEnd =>
       call.pc \in {"model", "resuming", "takeBack", "finish", "over", "stopping"}
  /\ ender["bound"] # "idle" => lease.fired
  /\ ender["person"] # "idle" => lease.cancelStarted
  /\ ender["model"] # "idle" => call.pc = "stopping"

\* Only a submitted command is counted, asked about or parked, and it has the foreground.
Submitted ==
  /\ shell.cmd = "running" => shell.front = "run"
  /\ \/ lease.quiet \/ lease.parked \/ lease.parkC \/ lease.accounting \/ call.res = "parked"
     \/ call.pc \in {"park", "parking", "model", "resuming", "takeBack", "resumed", "stopping"}
     => shell.cmd # "none"

Core == /\ OneSettler /\ Untouched /\ Waiter /\ AnswerIsTaken
        /\ Registry /\ Enders /\ Submitted /\ ParkedRunHasAnEnding

\* The records of the state.
ReqT == [pending: BOOLEAN, recipients: SUBSET Conn, toDeliver: SUBSET Conn,
         ch: Slot, answering: BOOLEAN, accepted: BOOLEAN, parked: BOOLEAN]
LeaseT == [done: BOOLEAN, fired: BOOLEAN, suspended: BOOLEAN,
                cancelStarted: BOOLEAN, parked: BOOLEAN, parkC: BOOLEAN,
                quiet: BOOLEAN, watching: BOOLEAN, delivered: BOOLEAN,
                parkedEnd: BOOLEAN, cancel: {"nil", "stale", "live"},
                attempt: {"none", "bound", "started"}, accounting: BOOLEAN]
CallT == [pc: PC, res: Result, waits: 0..MaxWaits, ctxDone: BOOLEAN]
PersonT == [pc: {"idle", "claim", "naming", "cancel", "signal", "ending",
                      "context", "done"},
                 named: {"nobody", "run", "person"}]
RendererT == [notified: SUBSET Conn, cancelSent: BOOLEAN, withdrawn: SUBSET Conn]
ShellT == [cmd: {"none", "running", "ended"}, front: {"nobody", "run", "person"},
                persons: 0..1, stray: BOOLEAN]
LaneT == [awaiting: BOOLEAN, owed: BOOLEAN, takeovers: 0..MaxTakeovers]

\* What the updates of the model's records leave is of the same shape.
LEMMA ReqShapes ==
  ASSUME NEW r \in ReqT
  PROVE  /\ \A x \in BOOLEAN : [r EXCEPT !.pending = x] \in ReqT
         /\ \A x \in BOOLEAN : [r EXCEPT !.parked = x] \in ReqT
         /\ \A S \in SUBSET Conn : [r EXCEPT !.toDeliver = S] \in ReqT
         /\ \A x \in BOOLEAN, S \in SUBSET Conn :
             [r EXCEPT !.pending = x, !.toDeliver = S] \in ReqT
         /\ \A x \in BOOLEAN, s \in Slot, S \in SUBSET Conn :
             [r EXCEPT !.recipients = S, !.pending = x, !.ch = s] \in ReqT
         /\ \A x \in BOOLEAN, s \in Slot : [r EXCEPT !.ch = s, !.parked = x] \in ReqT
         /\ \A x \in BOOLEAN, s \in Slot : [r EXCEPT !.parked = x, !.ch = s] \in ReqT
         /\ \A x \in BOOLEAN, y \in BOOLEAN :
             [r EXCEPT !.answering = x, !.accepted = y] \in ReqT
         /\ \A x \in BOOLEAN, s \in Slot : [r EXCEPT !.answering = x, !.ch = s] \in ReqT
<1>1. \A x \in BOOLEAN : [r EXCEPT !.pending = x] \in ReqT  BY DEF ReqT
<1>2. \A x \in BOOLEAN : [r EXCEPT !.parked = x] \in ReqT  BY DEF ReqT
<1>3. \A S \in SUBSET Conn : [r EXCEPT !.toDeliver = S] \in ReqT  BY DEF ReqT
<1>4. \A x \in BOOLEAN, S \in SUBSET Conn :
      [r EXCEPT !.pending = x, !.toDeliver = S] \in ReqT  BY DEF ReqT
<1>5. \A x \in BOOLEAN, s \in Slot, S \in SUBSET Conn :
      [r EXCEPT !.recipients = S, !.pending = x, !.ch = s] \in ReqT  BY DEF ReqT
<1>6. \A x \in BOOLEAN, s \in Slot : [r EXCEPT !.ch = s, !.parked = x] \in ReqT  BY DEF ReqT
<1>7. \A x \in BOOLEAN, s \in Slot : [r EXCEPT !.parked = x, !.ch = s] \in ReqT  BY DEF ReqT
<1>8. \A x \in BOOLEAN, y \in BOOLEAN :
      [r EXCEPT !.answering = x, !.accepted = y] \in ReqT  BY DEF ReqT
<1>9. \A x \in BOOLEAN, s \in Slot : [r EXCEPT !.answering = x, !.ch = s] \in ReqT  BY DEF ReqT
<1> QED  BY <1>1, <1>2, <1>3, <1>4, <1>5, <1>6, <1>7, <1>8, <1>9

\* The same for the lease's flags ...
LEMMA LeaseShapes ==
  ASSUME NEW l \in LeaseT
  PROVE  /\ \A x \in BOOLEAN, y \in BOOLEAN, z \in BOOLEAN :
             [l EXCEPT !.done = x, !.quiet = y, !.watching = z] \in LeaseT
         /\ \A c \in {"nil", "stale", "live"} : [l EXCEPT !.cancel = c] \in LeaseT
         /\ \A x \in BOOLEAN, c \in {"nil", "stale", "live"} :
             [l EXCEPT !.cancel = c, !.watching = x] \in LeaseT
         /\ \A x \in BOOLEAN : [l EXCEPT !.suspended = x] \in LeaseT
         /\ \A x \in BOOLEAN : [l EXCEPT !.delivered = x] \in LeaseT
         /\ \A x \in BOOLEAN : [l EXCEPT !.fired = x] \in LeaseT
         /\ \A x \in BOOLEAN : [l EXCEPT !.cancelStarted = x] \in LeaseT
         /\ \A a \in {"none", "bound", "started"} : [l EXCEPT !.attempt = a] \in LeaseT
         /\ \A x \in BOOLEAN, c \in {"nil", "stale", "live"} :
             [l EXCEPT !.parkedEnd = x, !.cancel = c] \in LeaseT
         /\ \A x \in BOOLEAN, a \in {"none", "bound", "started"} :
             [l EXCEPT !.parkedEnd = x, !.attempt = a] \in LeaseT
         /\ \A x \in BOOLEAN, y \in BOOLEAN, z \in BOOLEAN :
             [l EXCEPT !.parked = x, !.parkC = y, !.quiet = z] \in LeaseT
         /\ \A x \in BOOLEAN, y \in BOOLEAN, a \in {"none", "bound", "started"} :
             [l EXCEPT !.attempt = a, !.accounting = x, !.quiet = y] \in LeaseT
<1>1. \A x \in BOOLEAN, y \in BOOLEAN, z \in BOOLEAN :
      [l EXCEPT !.done = x, !.quiet = y, !.watching = z] \in LeaseT  BY DEF LeaseT
<1>2. \A c \in {"nil", "stale", "live"} : [l EXCEPT !.cancel = c] \in LeaseT  BY DEF LeaseT
<1>3. \A x \in BOOLEAN, c \in {"nil", "stale", "live"} :
      [l EXCEPT !.cancel = c, !.watching = x] \in LeaseT  BY DEF LeaseT
<1>4. \A x \in BOOLEAN : [l EXCEPT !.suspended = x] \in LeaseT  BY DEF LeaseT
<1>5. \A x \in BOOLEAN : [l EXCEPT !.delivered = x] \in LeaseT  BY DEF LeaseT
<1>6. \A x \in BOOLEAN : [l EXCEPT !.fired = x] \in LeaseT  BY DEF LeaseT
<1>7. \A x \in BOOLEAN : [l EXCEPT !.cancelStarted = x] \in LeaseT  BY DEF LeaseT
<1>8. \A a \in {"none", "bound", "started"} : [l EXCEPT !.attempt = a] \in LeaseT  BY DEF LeaseT
<1>9. \A x \in BOOLEAN, c \in {"nil", "stale", "live"} :
      [l EXCEPT !.parkedEnd = x, !.cancel = c] \in LeaseT  BY DEF LeaseT
<1>10. \A x \in BOOLEAN, a \in {"none", "bound", "started"} :
      [l EXCEPT !.parkedEnd = x, !.attempt = a] \in LeaseT  BY DEF LeaseT
<1>11. \A x \in BOOLEAN, y \in BOOLEAN, z \in BOOLEAN :
      [l EXCEPT !.parked = x, !.parkC = y, !.quiet = z] \in LeaseT  BY DEF LeaseT
<1>12. \A x \in BOOLEAN, y \in BOOLEAN, a \in {"none", "bound", "started"} :
      [l EXCEPT !.attempt = a, !.accounting = x, !.quiet = y] \in LeaseT  BY DEF LeaseT
<1> QED  BY <1>1, <1>2, <1>3, <1>4, <1>5, <1>6, <1>7, <1>8, <1>9, <1>10, <1>11, <1>12

\* ... for the caller ...
LEMMA CallShapes ==
  ASSUME NEW c \in CallT
  PROVE  /\ \A p \in PC : [c EXCEPT !.pc = p] \in CallT
         /\ \A p \in PC, r \in Result : [c EXCEPT !.res = r, !.pc = p] \in CallT
         /\ \A p \in PC, r \in Result : [c EXCEPT !.pc = p, !.res = r] \in CallT
         /\ \A p \in PC, n \in 0 .. MaxWaits : [c EXCEPT !.pc = p, !.waits = n] \in CallT
         /\ \A x \in BOOLEAN : [c EXCEPT !.ctxDone = x] \in CallT
<1>1. \A p \in PC : [c EXCEPT !.pc = p] \in CallT  BY DEF CallT
<1>2. \A p \in PC, r \in Result : [c EXCEPT !.res = r, !.pc = p] \in CallT  BY DEF CallT
<1>3. \A p \in PC, r \in Result : [c EXCEPT !.pc = p, !.res = r] \in CallT  BY DEF CallT
<1>4. \A p \in PC, n \in 0 .. MaxWaits :
      [c EXCEPT !.pc = p, !.waits = n] \in CallT  BY DEF CallT
<1>5. \A x \in BOOLEAN : [c EXCEPT !.ctxDone = x] \in CallT  BY DEF CallT
<1> QED  BY <1>1, <1>2, <1>3, <1>4, <1>5

\* ... and for the shell.
LEMMA ShellShapes ==
  ASSUME NEW s \in ShellT
  PROVE  /\ \A f \in {"nobody", "run", "person"}, c \in {"none", "running", "ended"},
               x \in BOOLEAN :
             [s EXCEPT !.front = f, !.cmd = c, !.stray = x] \in ShellT
         /\ \A f \in {"nobody", "run", "person"}, c \in {"none", "running", "ended"} :
             [s EXCEPT !.cmd = c, !.front = f] \in ShellT
         /\ \A f \in {"nobody", "run", "person"}, n \in 0 .. 1 :
             [s EXCEPT !.front = f, !.persons = n] \in ShellT
         /\ \A f \in {"nobody", "run", "person"} : [s EXCEPT !.front = f] \in ShellT
<1>1. \A f \in {"nobody", "run", "person"}, c \in {"none", "running", "ended"}, x \in BOOLEAN :
      [s EXCEPT !.front = f, !.cmd = c, !.stray = x] \in ShellT  BY DEF ShellT
<1>2. \A f \in {"nobody", "run", "person"}, c \in {"none", "running", "ended"} :
      [s EXCEPT !.cmd = c, !.front = f] \in ShellT  BY DEF ShellT
<1>3. \A f \in {"nobody", "run", "person"}, n \in 0 .. 1 :
      [s EXCEPT !.front = f, !.persons = n] \in ShellT  BY DEF ShellT
<1>4. \A f \in {"nobody", "run", "person"} : [s EXCEPT !.front = f] \in ShellT  BY DEF ShellT
<1> QED  BY <1>1, <1>2, <1>3, <1>4

\* TypeOK, with its records named.
Types ==
  /\ conns \subseteq Conn /\ req \in ReqT /\ lease \in LeaseT
  /\ registry \in BOOLEAN /\ call \in CallT /\ bound \in {"idle", "cancel"}
  /\ person \in PersonT
  /\ ender \in [Ender -> {"idle", "withdraw", "escalate"}]
  /\ renderer \in RendererT /\ shell \in ShellT /\ lane \in LaneT

IInv == Types /\ Core

\* A disarmed lease is a lease.
LEMMA DisarmedShape == ASSUME NEW l \in LeaseT  PROVE Disarmed(l) \in LeaseT
  BY LeaseShapes DEF Disarmed

\* A recipient that goes leaves a request.
LEMMA PruneShape ==
  ASSUME req \in ReqT, NEW c, NEW s \in Slot
  PROVE  Prune(c, s) \in ReqT
<1>1. ASSUME NEW left, left = req.recipients \ {c}
      PROVE  [req EXCEPT !.recipients = left, !.pending = left # {},
                         !.ch = IF left = {} THEN s ELSE @] \in ReqT
  <2>1. /\ left \in SUBSET Conn /\ (left # {}) \in BOOLEAN
        /\ (IF left = {} THEN s ELSE req.ch) \in Slot
    BY <1>1 DEF ReqT
  <2> QED  BY <2>1, ReqShapes
<1> QED  BY <1>1 DEF Prune

\* Withdrawing what was parked leaves a request and the renderers' records.
LEMMA WithdrawnShape ==
  ASSUME req \in ReqT, renderer \in RendererT, WithdrawParked
  PROVE  req' \in ReqT /\ renderer' \in RendererT
<1>1. CASE req.parked
  <2>1. PICK p \in ReqT : p = Cancel(req)  BY ReqShapes DEF Cancel
  <2>2. PICK s : s = IF p.ch = "empty" THEN "withdrawn" ELSE p.ch  OBVIOUS
  <2>3. req' \in ReqT
    <3>1. req' = [p EXCEPT !.parked = FALSE, !.ch = s]  BY <1>1, <2>1, <2>2 DEF WithdrawParked, ReqT
    <3>2. s \in Slot  BY <2>2 DEF ReqT, Slot
    <3> QED  BY <3>1, <3>2, ReqShapes
  <2>4. renderer' \in RendererT  BY <1>1 DEF WithdrawParked, TellsRenderers, RendererT
  <2> QED  BY <2>3, <2>4
<1> QED  BY <1>1 DEF WithdrawParked

\* So does the ladder's KILL, of the shell.
LEMMA KilledShape ==
  ASSUME shell \in ShellT, NEW g, KillGroup(g)
  PROVE  shell' \in ShellT
<1>1. (IF g = "run" THEN "ended" ELSE shell.cmd) \in {"none", "running", "ended"}
      /\ (shell.stray \/ g = "person") \in BOOLEAN
  BY DEF ShellT
<1> QED  BY <1>1, ShellShapes DEF KillGroup

\* The caller goes to a place it has, with a result it may have.
LEMMA CallGoes ==
  ASSUME call \in CallT, NEW p \in PC
  PROVE  /\ Goto(p) => call' \in CallT
         /\ \A r \in Result : Return(r, p) => call' \in CallT
  BY CallShapes, ZenonT(60) DEF Goto, Return

\* Every step of RequestRun and its continuations keeps the types.
LEMMA CallerTypes == ASSUME Types, Caller  PROVE Types'
<1> USE DEF Types
<1>1. CASE RequestRun  BY <1>1, CallShapes DEF RequestRun, Goto, PC
<1>2. CASE AttachRunLease  BY <1>2, CallGoes DEF AttachRunLease, PC, Result
<1>3. CASE Supervise
  BY <1>3, CallGoes, LeaseShapes, DisarmedShape, ZenonT(60) DEF Supervise, PC, Result
<1>4. CASE RecheckLane  BY <1>4, CallShapes, LeaseShapes DEF RecheckLane, Goto, PC
<1>5. CASE Register
  <2>1. (IF call.ctxDone THEN "canceled" ELSE "noClient") \in Result  BY DEF Result
  <2>2. call' \in CallT  BY <1>5, <2>1, CallGoes DEF Register, PC
  <2>3. conns \in SUBSET Conn  OBVIOUS
  <2>4. [req EXCEPT !.pending = TRUE, !.toDeliver = conns] \in ReqT  BY <2>3, ReqShapes
  <2>5. req' \in ReqT  BY <1>5, <2>4 DEF Register
  <2> QED  BY <1>5, <2>2, <2>5 DEF Register
<1>6. CASE Arm
  <2>1. ASSUME NEW armed, armed = req.toDeliver \intersect conns
        PROVE  [req EXCEPT !.recipients = armed, !.pending = armed # {},
                           !.ch = IF armed = {} THEN "disconnected" ELSE @] \in ReqT
    <3>1. armed \in SUBSET Conn /\ (armed # {}) \in BOOLEAN
          /\ (IF armed = {} THEN "disconnected" ELSE req.ch) \in Slot
      BY <2>1 DEF ReqT, Slot
    <3> QED  BY <3>1, ReqShapes
  <2> QED  BY <1>6, <2>1, CallShapes DEF Arm, Goto, PC
<1>7. CASE \E c \in Conn : Deliver(c)
  <2>1. PICK c \in Conn : Deliver(c)  BY <1>7
  <2>2. PICK r \in ReqT : /\ r = req \/ r = Prune(c, "undelivered")
                          /\ req' = [r EXCEPT !.toDeliver = @ \ {c}]
    BY <2>1, PruneShape DEF Deliver, Slot
  <2>3. req' \in ReqT
    <3>1. r.toDeliver \ {c} \in SUBSET Conn  BY <2>2 DEF ReqT
    <3> QED  BY <2>2, <3>1, ReqShapes
  <2>4. renderer' \in RendererT  BY <2>1 DEF Deliver, RendererT
  <2> QED  BY <2>1, <2>3, <2>4 DEF Deliver
<1>8. CASE AfterDeliver  BY <1>8, CallShapes, LeaseShapes DEF AfterDeliver, Goto, PC
<1>9. CASE AwaitAnswer
  <2>1. req.ch \in Result  BY DEF ReqT, Result
  <2> QED  BY <1>9, <2>1, CallShapes, ReqShapes DEF AwaitAnswer, Return, PC, Slot
<1>10. CASE AwaitPark  BY <1>10, CallShapes, ReqShapes DEF AwaitPark, Return, PC, Result
<1>11. CASE AwaitCancel
  <2>1. PICK p \in ReqT : p = Cancel(req)  BY ReqShapes DEF Cancel
  <2>2. req' \in ReqT  BY <1>11, <2>1, ReqShapes DEF AwaitCancel
  <2>3. renderer' \in RendererT  BY <1>11 DEF AwaitCancel, TellsRenderers, RendererT
  <2> QED  BY <1>11, <2>2, <2>3, CallShapes DEF AwaitCancel, Return, PC, Result
<1>12. CASE ReadParked  BY <1>12, CallShapes DEF ReadParked, Goto, PC
<1>13. CASE ReadVerdict
  <2>1. lease' \in LeaseT  BY <1>13, DisarmedShape DEF ReadVerdict, BeforeVerdict
  <2>2. call' \in CallT
    <3>1. PICK res, goes : /\ res = call.res \/ res = "bound"
                           /\ goes \in {"escalate", "park", "finish"}
                           /\ Return(res, goes)
      BY <1>13, Zenon DEF ReadVerdict, AfterVerdict
    <3>2. res \in Result  BY <3>1 DEF CallT, Result
    <3>3. goes \in PC  BY <3>1 DEF PC
    <3> QED  BY <3>1, <3>2, <3>3, CallGoes
  <2> QED  BY <1>13, <2>1, <2>2 DEF ReadVerdict
<1>14. CASE Escalate
  BY <1>14, CallShapes, KilledShape DEF Escalate, StopForeground, AfterVerdict, Goto, PC
<1>15. CASE Finish
  <2>1. req' \in ReqT /\ renderer' \in RendererT  BY <1>15, WithdrawnShape DEF Finish, Settle
  <2>2. (IF lease.attempt = "bound" THEN "none" ELSE lease.attempt) \in {"none", "bound", "started"}
    BY DEF LeaseT
  <2>3. lease' \in LeaseT  BY <1>15, <2>2, LeaseShapes DEF Finish
  <2> QED  BY <1>15, <2>1, <2>3, CallShapes DEF Finish, Goto, PC
<1>16. CASE ParkPut  BY <1>16, CallShapes, DisarmedShape DEF ParkPut, Goto, PC
<1>17. CASE ParkEnd
  BY <1>17, CallShapes, LeaseShapes DEF ParkEnd, Parked, Return, PC, Result
<1>18. CASE KeepWaiting
  <2>1. call.waits + 1 \in 0 .. MaxWaits  BY <1>18, RunLeaseAssumption DEF KeepWaiting, CallT
  <2>2. call' \in CallT  BY <1>18, <2>1, CallShapes DEF KeepWaiting, PC, Result
  <2> QED  BY <1>18, <2>2 DEF KeepWaiting
<1>19. CASE ResumeQuiet
  <2>1. lease.accounting \in BOOLEAN  BY DEF LeaseT
  <2> QED  BY <1>19, <2>1, CallShapes, LeaseShapes DEF ResumeQuiet, Goto, PC
<1>20. CASE TakeBack
  <2>1. call' \in CallT  BY <1>20, CallGoes DEF TakeBack, PC, Result
  <2> QED  BY <1>20, <2>1, LeaseShapes DEF TakeBack, HandBack
<1>21. CASE ResumeParked
  <2>1. call' \in CallT  BY <1>21, CallGoes DEF ResumeParked, PC, Result
  <2> QED  BY <1>21, <2>1 DEF ResumeParked
<1>22. CASE DeclineRun
  <2>1. call' \in CallT  BY <1>22, CallGoes DEF DeclineRun, PC, Result
  <2> QED  BY <1>22, <2>1 DEF DeclineRun
<1> QED
  BY <1>1, <1>2, <1>3, <1>4, <1>5, <1>6, <1>7, <1>8, <1>9, <1>10, <1>11, <1>12, <1>13, <1>14,
     <1>15, <1>16, <1>17, <1>18, <1>19, <1>20, <1>21, <1>22 DEF Caller

\* Every step of an ending keeps the types.
LEMMA EndingTypes == ASSUME Types, Endings  PROVE Types'
<1> USE DEF Types
<1>1. ASSUME NEW e \in Ender, EndRun(e)  PROVE Types'
  <2>1. req' \in ReqT /\ renderer' \in RendererT  BY <1>1, WithdrawnShape DEF EndRun
  <2>2. PICK l \in LeaseT : l = [lease EXCEPT !.parkedEnd = FALSE]
    BY DEF LeaseT
  <2>3. (IF l.attempt = "bound" THEN "none" ELSE l.attempt) \in {"none", "bound", "started"}
    BY DEF LeaseT
  <2>4. lease' \in LeaseT  BY <1>1, <2>2, <2>3, LeaseShapes DEF EndRun
  <2> QED  BY <1>1, <2>1, <2>4 DEF EndRun
<1>2. ASSUME NEW e \in Ender, EndEscalates(e)  PROVE Types'
  <2>1. lease' \in LeaseT  BY <1>2, DisarmedShape DEF EndEscalates
  <2>2. shell' \in ShellT  BY <1>2, KilledShape DEF EndEscalates, StopForeground
  <2>3. call' \in CallT  BY <1>2, CallShapes DEF EndEscalates, PC, Result
  <2>4. person' \in PersonT  BY <1>2 DEF EndEscalates, PersonT
  <2> QED  BY <1>2, <2>1, <2>2, <2>3, <2>4 DEF EndEscalates
<1> QED  BY <1>1, <1>2 DEF Endings

\* Every step of a bound or of the lane keeps the types.
LEMMA BoundTypes == ASSUME Types, Bounds \/ Takeover  PROVE Types'
<1> USE DEF Types
<1>1. CASE Fire  BY <1>1, LeaseShapes DEF Fire
<1>2. CASE BoundCancels
  <2>1. (call.ctxDone \/ lease.cancel = "live") \in BOOLEAN  BY DEF CallT
  <2> QED  BY <1>2, <2>1, CallShapes DEF BoundCancels
<1>3. CASE AttemptStarts
  <2>1. (~lease.done /\ ~lease.suspended /\ ~lease.fired) \in BOOLEAN  OBVIOUS
  <2> QED  BY <1>3, <2>1, LeaseShapes DEF AttemptStarts
<1>4. CASE CheckInactivity  BY <1>4, LeaseShapes DEF CheckInactivity
<1>5. ASSUME NEW a \in BOOLEAN, LaneReport(a)  PROVE Types'
  <2>1. lane' \in LaneT  BY <1>5, RunLeaseAssumption DEF LaneReport, LaneT
  <2> QED  BY <1>5, <2>1 DEF LaneReport
<1>6. CASE OnLane
  <2>1. lane' \in LaneT  BY <1>6 DEF OnLane, LaneT
  <2>2. lease' \in LeaseT  BY <1>6, LeaseShapes, DisarmedShape DEF OnLane
  <2> QED  BY <1>6, <2>1, <2>2 DEF OnLane
<1> QED  BY <1>1, <1>2, <1>3, <1>4, <1>5, <1>6 DEF Bounds, Takeover

\* Every step of the person's stop keeps the types.
LEMMA StopTypes == ASSUME Types, Stop  PROVE Types'
<1> USE DEF Types
<1>1. CASE BeginCancel  BY <1>1 DEF BeginCancel, PersonT
<1>2. CASE ClaimCancel
  <2>1. person' \in PersonT  BY <1>2 DEF ClaimCancel, PersonT
  <2>2. lease' \in LeaseT  BY <1>2, LeaseShapes DEF ClaimCancel
  <2>3. ender' \in [Ender -> {"idle", "withdraw", "escalate"}]  BY <1>2 DEF ClaimCancel
  <2> QED  BY <1>2, <2>1, <2>2, <2>3 DEF ClaimCancel
<1>3. CASE NameForeground  BY <1>3 DEF NameForeground, PersonT, ShellT
<1>4. CASE CancelCall
  <2>1. (call.ctxDone \/ lease.cancel = "live") \in BOOLEAN  BY DEF CallT
  <2>2. call' \in CallT  BY <1>4, <2>1, CallShapes DEF CancelCall
  <2>3. person' \in PersonT  BY <1>4 DEF CancelCall, PersonT
  <2> QED  BY <1>4, <2>2, <2>3 DEF CancelCall
<1>5. CASE SignalNamed
  <2>1. person' \in PersonT  BY <1>5 DEF SignalNamed, PersonT
  <2> QED  BY <1>5, <2>1, KilledShape DEF SignalNamed
<1>6. CASE CancelContext
  <2>1. person' \in PersonT  BY <1>6 DEF CancelContext, PersonT
  <2> QED  BY <1>6, <2>1, CallShapes DEF CancelContext, CancelsTurn
<1> QED  BY <1>1, <1>2, <1>3, <1>4, <1>5, <1>6 DEF Stop

\* Every step of the renderers and of the shell keeps the types.
LEMMA RendererTypes == ASSUME Types, Renderers  PROVE Types'
<1> USE DEF Types
<1>1. ASSUME NEW c \in Conn, Submit(c)  PROVE Types'
  <2>1. shell' \in ShellT  BY <1>1, ShellShapes DEF Submit
  <2>2. (IF req.pending /\ c \in req.recipients THEN "bound" ELSE lease.attempt)
          \in {"none", "bound", "started"}
    BY DEF LeaseT
  <2>3. lease' \in LeaseT  BY <1>1, <2>2, LeaseShapes DEF Submit
  <2> QED  BY <1>1, <2>1, <2>3 DEF Submit
<1>2. ASSUME NEW c \in Conn, SeeCancel(c)  PROVE Types'
  BY <1>2 DEF SeeCancel, RendererT
<1>3. ASSUME NEW c \in Conn, Resolve(c)  PROVE Types'
  <2>1. PICK p \in ReqT : p = Consume(req)  BY ReqShapes DEF Consume
  <2>2. req' \in ReqT  BY <1>3, <2>1, ReqShapes DEF Resolve
  <2> QED  BY <1>3, <2>2 DEF Resolve
<1>4. ASSUME NEW c \in Conn, ConnectionLost(c)  PROVE Types'
  BY <1>4, PruneShape DEF ConnectionLost, Slot
<1>5. CASE CommandEnds  BY <1>5, ShellShapes DEF CommandEnds
<1>6. CASE PersonRuns
  <2>1. 1 \in 0 .. 1  OBVIOUS
  <2> QED  BY <1>6, <2>1, ShellShapes DEF PersonRuns
<1>7. CASE PersonsCommandEnds  BY <1>7, ShellShapes DEF PersonsCommandEnds
<1>8. CASE SendResolution  BY <1>8, ReqShapes DEF SendResolution, Slot
<1> QED  BY <1>1, <1>2, <1>3, <1>4, <1>5, <1>6, <1>7, <1>8 DEF Renderers

\* What Goto and Return make of the caller.
LEMMA CallBecomes ==
  ASSUME call \in CallT, NEW p
  PROVE  /\ Goto(p) => call'.pc = p /\ call'.res = call.res /\ call'.waits = call.waits
         /\ \A r : Return(r, p) => call'.pc = p /\ call'.res = r /\ call'.waits = call.waits
  BY DEF CallT, Goto, Return

\* After a withdrawal nothing is parked, and what was is pending no more.
LEMMA WithdrawnIs ==
  ASSUME req \in ReqT, WithdrawParked
  PROVE  /\ ~req'.parked
         /\ req.parked => ~req'.pending
         /\ ~req.parked => req' = req
         /\ req'.pending => req.pending
         /\ req'.recipients = req.recipients /\ req'.answering = req.answering
<1>1. CASE req.parked  BY <1>1 DEF WithdrawParked, Cancel, ReqT
<1> QED  BY <1>1 DEF WithdrawParked, ReqT

\* The caller's steps keep the relation of the request, the registry and its own place

\* (RequestRun, supervise, superviseResume, parkRun, takeBack).
LEMMA CallerKeeps == ASSUME Types, Core, Caller  PROVE Core'
<1> USE DEF Types, Core, OneSettler, Untouched, Early, Waiter, AnswerIsTaken, Registry, Enders,
           Ending, Submitted, ParkedRunHasAnEnding, At
<1>1. CASE RequestRun
  BY <1>1 DEF RequestRun, Goto, CallT
<1>2. CASE AttachRunLease
  <2>1. \/ call'.pc = "attached" /\ call'.res = call.res
        \/ call'.pc = "over" /\ call'.res = "canceled"
    <3>1. CASE TurnLive
      BY <1>2, <3>1, CallBecomes DEF AttachRunLease
    <3>2. CASE ~TurnLive  BY <1>2, <3>2, CallBecomes DEF AttachRunLease, TurnLive
    <3> QED  BY <3>1, <3>2
  <2> QED  BY <1>2, <2>1 DEF AttachRunLease
<1>3. CASE Supervise
  <2>1. CASE lease.cancelStarted
    <3>1. call'.pc = "finish" /\ call'.res = "canceled"
      BY <1>3, <2>1, CallBecomes DEF Supervise
    <3>2. PICK l \in LeaseT : l = [lease EXCEPT !.cancel = "live"]
      BY LeaseShapes
    <3>3. /\ lease'.fired = l.fired /\ lease'.parked = l.parked
          /\ lease'.parkC = l.parkC /\ lease'.parkedEnd = l.parkedEnd
          /\ lease'.accounting = l.accounting /\ ~lease'.quiet
          /\ lease'.cancelStarted = l.cancelStarted
      <4>1. lease' = Disarmed(l)  BY <1>3, <2>1, <3>2 DEF Supervise
      <4> QED  BY <4>1 DEF Disarmed, LeaseT
    <3>4. /\ l.fired = lease.fired /\ l.parked = lease.parked
          /\ l.parkC = lease.parkC /\ l.parkedEnd = lease.parkedEnd
          /\ l.accounting = lease.accounting
          /\ l.cancelStarted = lease.cancelStarted
      BY <3>2 DEF LeaseT
    <3> QED  BY <1>3, <3>1, <3>3, <3>4 DEF Supervise
  <2>2. CASE ~lease.cancelStarted
    <3>1. call'.pc = "armed" /\ call'.res = call.res
      BY <1>3, <2>2, CallBecomes DEF Supervise
    <3>2. /\ lease'.fired = lease.fired /\ lease'.parked = lease.parked
          /\ lease'.parkC = lease.parkC /\ lease'.parkedEnd = lease.parkedEnd
          /\ lease'.accounting = lease.accounting /\ lease'.quiet = lease.quiet
          /\ lease'.cancelStarted = lease.cancelStarted
      BY <1>3, <2>2, ZenonT(60) DEF Supervise, LeaseT
    <3> QED  BY <1>3, <3>1, <3>2 DEF Supervise
  <2> QED  BY <2>1, <2>2
<1>4. CASE RecheckLane
  BY <1>4 DEF RecheckLane, Goto, CallT, LeaseT
<1>5. CASE Register
  <2>1. CASE call.ctxDone \/ conns = {}
    <3>1. call'.pc = "returned" /\ call'.res \in {"canceled", "noClient"} /\ req' = req
      BY <1>5, <2>1, CallBecomes DEF Register
    <3> QED  BY <1>5, <3>1 DEF Register
  <2>2. CASE ~(call.ctxDone \/ conns = {})
    <3>1. call'.pc = "registered" /\ call'.res = call.res
      BY <1>5, <2>2, CallBecomes DEF Register
    <3>2. /\ req'.pending /\ req'.ch = req.ch /\ req'.answering = req.answering
          /\ req'.recipients = req.recipients /\ req'.parked = req.parked
      BY <1>5, <2>2 DEF Register, ReqT
    <3> QED  BY <1>5, <3>1, <3>2 DEF Register
  <2> QED  BY <2>1, <2>2
<1>6. CASE Arm
  BY <1>6 DEF Arm, Goto, CallT, ReqT
<1>7. ASSUME NEW c \in Conn, Deliver(c)  PROVE Core'
  <2>1. PICK r \in ReqT : /\ r = req \/ r = Prune(c, "undelivered")
                          /\ req' = [r EXCEPT !.toDeliver = @ \ {c}]
    BY <1>7, PruneShape DEF Deliver, Slot
  <2>2. /\ req'.pending = r.pending /\ req'.ch = r.ch /\ req'.answering = r.answering
        /\ req'.recipients = r.recipients /\ req'.parked = r.parked
    BY <2>1 DEF ReqT
  <2>3. /\ r.pending => (req.pending /\ r.ch = req.ch)
        /\ r.answering = req.answering /\ r.parked = req.parked
    BY <2>1 DEF Prune, ReqT
  <2> QED  BY <1>7, <2>2, <2>3 DEF Deliver
<1>8. CASE AfterDeliver
  BY <1>8 DEF AfterDeliver, Goto, CallT, LeaseT
<1>9. CASE AwaitAnswer
  BY <1>9 DEF AwaitAnswer, Return, CallT, ReqT, Slot
<1>10. CASE AwaitPark
  BY <1>10 DEF AwaitPark, Return, CallT, ReqT
<1>11. CASE AwaitCancel
  BY <1>11 DEF AwaitCancel, Cancel, Return, CallT, ReqT
<1>12. CASE ReadParked
  BY <1>12 DEF ReadParked, Goto, CallT
<1>13. CASE ReadVerdict
  <2>1. /\ lease'.fired = lease.fired /\ lease'.parked = lease.parked
        /\ lease'.parkC = lease.parkC /\ lease'.parkedEnd = lease.parkedEnd
        /\ lease'.accounting = lease.accounting /\ ~lease'.quiet /\ lease'.done
        /\ lease'.cancelStarted = lease.cancelStarted
    BY <1>13 DEF ReadVerdict, BeforeVerdict, Disarmed, LeaseT
  <2>2. \/ lease.fired /\ call'.res = "bound" /\ call'.pc \in {"escalate", "finish"}
        \/ call.res = "parked" /\ call'.res = "parked" /\ call'.pc \in {"escalate", "park"}
        \/ /\ ~lease.fired /\ call'.res = call.res
           /\ call'.pc = "finish" \/ (call'.pc = "escalate" /\ call.res # "result")
    <3>1. PICK res, goes :
            /\ res = IF lease.fired /\ call.res # "parked" THEN "bound" ELSE call.res
            /\ goes = "escalate" \/ goes = AfterVerdict(res)
            /\ ~lease.fired /\ goes = "escalate" => call.res \in Abandoned
            /\ Return(res, goes)
      BY <1>13, Zenon DEF ReadVerdict, AfterVerdict
    <3>2. call'.pc = goes /\ call'.res = res  BY <3>1, CallBecomes
    <3> QED  BY <3>1, <3>2 DEF AfterVerdict, Abandoned
  <2> QED  BY <1>13, <2>1, <2>2 DEF ReadVerdict
<1>14. CASE Escalate
  <2>1. call'.pc = AfterVerdict(call.res) /\ call'.res = call.res
    BY <1>14, CallBecomes DEF Escalate
  <2> QED  BY <1>14, <2>1 DEF Escalate, StopForeground, KillGroup, AfterVerdict, ShellT
<1>15. CASE Finish
  <2>1. call'.pc = "over" /\ call'.res = call.res BY <1>15, CallBecomes DEF Finish
  <2>2. /\ ~req'.parked /\ ~req'.pending
    BY <1>15, WithdrawnIs DEF Finish, Settle
  <2>3. /\ lease'.fired = lease.fired /\ lease'.parked = lease.parked
        /\ lease'.parkC = lease.parkC /\ lease'.parkedEnd = lease.parkedEnd
        /\ lease'.accounting = lease.accounting /\ lease'.quiet = lease.quiet
        /\ lease'.done = lease.done
        /\ lease'.cancelStarted = lease.cancelStarted
    BY <1>15 DEF Finish, LeaseT
  <2> QED  BY <1>15, <2>1, <2>2, <2>3 DEF Finish
<1>16. CASE ParkPut
  BY <1>16 DEF ParkPut, Disarmed, Goto, CallT, LeaseT
<1>17. CASE ParkEnd
  BY <1>17 DEF ParkEnd, Parked, Return, CallT, LeaseT
<1>18. CASE KeepWaiting
  BY <1>18 DEF KeepWaiting, CallT
<1>19. CASE ResumeQuiet
  BY <1>19 DEF ResumeQuiet, Goto, CallT, LeaseT
<1>20. CASE TakeBack
  <2>1. CASE lease.done \/ lease.fired \/ lease.cancelStarted
    <3>1. call'.pc = "finish" /\ call'.res \in {"canceled", "bound"} /\ lease' = lease
      BY <1>20, <2>1, CallBecomes DEF TakeBack
    <3> QED  BY <1>20, <3>1 DEF TakeBack
  <2>2. CASE ~(lease.done \/ lease.fired \/ lease.cancelStarted)
    <3>1. call'.pc = "resumed" /\ call'.res = call.res
      BY <1>20, <2>2, CallBecomes DEF TakeBack
    <3>2. /\ lease'.fired = lease.fired /\ lease'.parked = lease.parked
        /\ lease'.parkC = lease.parkC /\ ~lease'.parkedEnd
        /\ lease'.accounting = lease.accounting /\ lease'.quiet = lease.quiet
        /\ lease'.done = lease.done
        /\ lease'.cancelStarted = lease.cancelStarted
      BY <1>20, <2>2 DEF TakeBack, HandBack, LeaseT
    <3>3. \A e \in Ender : ender[e] = "idle"
      BY <1>20, <2>2 DEF TakeBack, Ender
    <3> QED  BY <1>20, <3>1, <3>2, <3>3 DEF TakeBack
  <2> QED  BY <2>1, <2>2
<1>21. CASE ResumeParked
  <2>1. \/ call'.pc = "returned" /\ call'.res \in {"unknown", "canceled"}
        \/ call'.pc = "waiting" /\ call'.res = call.res
    BY <1>21, CallBecomes, ZenonT(60) DEF ResumeParked
  <2> QED  BY <1>21, <2>1 DEF ResumeParked
<1>22. CASE DeclineRun
  <2>1. CASE registry
    <3>1. call'.pc = "stopping" /\ call'.res = call.res BY <1>22, <2>1, CallBecomes DEF DeclineRun
    <3> QED  BY <1>22, <2>1, <3>1 DEF DeclineRun, Ender
  <2>2. CASE ~registry
    <3>1. call'.pc = "over" /\ call'.res = "unknown" BY <1>22, <2>2, CallBecomes DEF DeclineRun
    <3> QED  BY <1>22, <2>2, <3>1 DEF DeclineRun
  <2> QED  BY <2>1, <2>2
<1> QED
  BY <1>1, <1>2, <1>3, <1>4, <1>5, <1>6, <1>7, <1>8, <1>9, <1>10, <1>11, <1>12, <1>13,
     <1>14, <1>15, <1>16, <1>17, <1>18, <1>19, <1>20, <1>21, <1>22 DEF Caller

\* Whoever ends a parked run leaves neither its request nor a command nobody owns

\* (finishParkedRunDetailed).
LEMMA EndingsKeep == ASSUME Types, Core, Endings  PROVE Core'
<1> USE DEF Types, Core, OneSettler, Untouched, Early, Waiter, AnswerIsTaken, Registry, Enders,
           Ending, Submitted, ParkedRunHasAnEnding, At
<1>1. ASSUME NEW e \in Ender, EndRun(e)  PROVE Core'
  <2>1. /\ ~req'.parked /\ ~req'.pending
    BY <1>1, WithdrawnIs DEF EndRun
  <2>2. PICK l \in LeaseT : l = [lease EXCEPT !.parkedEnd = FALSE]
      BY DEF LeaseT
  <2>3. /\ lease'.fired = l.fired /\ lease'.parked = l.parked
        /\ lease'.parkC = l.parkC /\ lease'.parkedEnd = l.parkedEnd
        /\ lease'.accounting = l.accounting /\ lease'.quiet = l.quiet /\ lease'.done = l.done
        /\ lease'.cancelStarted = l.cancelStarted
     BY <1>1, <2>2 DEF EndRun, LeaseT
  <2>4. /\ l.fired = lease.fired /\ l.parked = lease.parked
        /\ l.parkC = lease.parkC /\ ~l.parkedEnd
        /\ l.accounting = lease.accounting /\ l.quiet = lease.quiet /\ l.done = lease.done
        /\ l.cancelStarted = lease.cancelStarted
     BY <2>2 DEF LeaseT
  <2>5. ender'[e] = "escalate" /\ \A f \in Ender \ {e} : ender'[f] = ender[f]
     BY <1>1 DEF EndRun
  <2> QED  BY <1>1, <2>1, <2>3, <2>4, <2>5 DEF EndRun, Ender
<1>2. ASSUME NEW e \in Ender, EndEscalates(e)  PROVE Core'
  BY <1>2 DEF EndEscalates, Disarmed, StopForeground, KillGroup, Ender, CallT, LeaseT, ShellT
<1> QED
  BY <1>1, <1>2 DEF Endings

\* A bound that fires either finds the parked run's ending or leaves it to the waiting call.
LEMMA BoundsKeep == ASSUME Types, Core, Bounds \/ Takeover  PROVE Core'
<1> USE DEF Types, Core, OneSettler, Untouched, Early, Waiter, AnswerIsTaken, Registry, Enders,
           Ending, Submitted, ParkedRunHasAnEnding, At
<1>1. CASE Fire
  BY <1>1 DEF Fire, LeaseT, Ender
<1>2. CASE BoundCancels
  BY <1>2 DEF BoundCancels, CallT
<1>3. CASE AttemptStarts
  BY <1>3 DEF AttemptStarts, LeaseT
<1>4. CASE CheckInactivity
  BY <1>4 DEF CheckInactivity, LeaseT
<1>5. ASSUME NEW a \in BOOLEAN, LaneReport(a)  PROVE Core'
  BY <1>5 DEF LaneReport
<1>6. CASE OnLane
  BY <1>6 DEF OnLane, Disarmed, LeaseT
<1> QED
  BY <1>1, <1>2, <1>3, <1>4, <1>5, <1>6 DEF Bounds, Takeover

\* The person's stop takes the ending only of a run that has one.
LEMMA StopKeeps == ASSUME Types, Core, Stop  PROVE Core'
<1> USE DEF Types, Core, OneSettler, Untouched, Early, Waiter, AnswerIsTaken, Registry, Enders,
           Ending, Submitted, ParkedRunHasAnEnding, At
<1>1. CASE BeginCancel
  BY <1>1 DEF BeginCancel
<1>2. CASE ClaimCancel
  BY <1>2 DEF ClaimCancel, LeaseT, Ender
<1>3. CASE NameForeground
  BY <1>3 DEF NameForeground
<1>4. CASE CancelCall
  BY <1>4 DEF CancelCall, CallT
<1>5. CASE SignalNamed
  BY <1>5 DEF SignalNamed, KillGroup, ShellT
<1>6. CASE CancelContext
  BY <1>6 DEF CancelContext, CancelsTurn, CallT
<1> QED
  BY <1>1, <1>2, <1>3, <1>4, <1>5, <1>6 DEF Stop

\* Renderers answer, come and go; the shell runs one command.
LEMMA RenderersKeep == ASSUME Types, Core, Renderers  PROVE Core'
<1> USE DEF Types, Core, OneSettler, Untouched, Early, Waiter, AnswerIsTaken, Registry, Enders,
           Ending, Submitted, ParkedRunHasAnEnding, At
<1>1. ASSUME NEW c \in Conn, Submit(c)  PROVE Core'
  BY <1>1 DEF Submit, LeaseT, ShellT
<1>2. ASSUME NEW c \in Conn, SeeCancel(c)  PROVE Core'
  BY <1>2 DEF SeeCancel
<1>3. ASSUME NEW c \in Conn, Resolve(c)  PROVE Core'
  BY <1>3 DEF Resolve, Consume, ReqT
<1>4. ASSUME NEW c \in Conn, ConnectionLost(c)  PROVE Core'
  BY <1>4 DEF ConnectionLost, Prune, ReqT
<1>5. CASE CommandEnds
  BY <1>5 DEF CommandEnds, ShellT
<1>6. CASE PersonRuns
  BY <1>6 DEF PersonRuns, ShellT
<1>7. CASE PersonsCommandEnds
  BY <1>7 DEF PersonsCommandEnds, ShellT
<1>8. CASE SendResolution
  BY <1>8 DEF SendResolution, ReqT
<1> QED
  BY <1>1, <1>2, <1>3, <1>4, <1>5, <1>6, <1>7, <1>8 DEF Renderers

\* The start.
LEMMA InitHolds == Init => IInv
<1> SUFFICES ASSUME Init  PROVE IInv
  OBVIOUS
<1>1. Types
  <2>1. req \in ReqT /\ renderer \in RendererT  BY DEF Init, ReqT, RendererT, Slot
  <2>2. lease \in LeaseT  BY DEF Init, LeaseT
  <2>3. call \in CallT  BY RunLeaseAssumption DEF Init, CallT, PC, Result
  <2>4. person \in PersonT  BY DEF Init, PersonT
  <2>5. shell \in ShellT  BY DEF Init, ShellT
  <2>6. lane \in LaneT  BY RunLeaseAssumption DEF Init, LaneT
  <2> QED  BY <2>1, <2>2, <2>3, <2>4, <2>5, <2>6 DEF Init, Types
<1>2. Core
  BY DEF Init, Core, OneSettler, Untouched, Early, Waiter, AnswerIsTaken, Registry, Enders,
     Ending, Submitted, ParkedRunHasAnEnding, At, Ender
<1> QED  BY <1>1, <1>2 DEF IInv

\* Every step.
LEMMA StepKeeps == IInv /\ [Next]_vars => IInv'
<1> SUFFICES ASSUME IInv, [Next]_vars  PROVE IInv'
  OBVIOUS
<1>1. Types /\ Core  BY DEF IInv
<1>2. CASE Caller  BY <1>1, <1>2, CallerTypes, CallerKeeps DEF IInv
<1>3. CASE Endings  BY <1>1, <1>3, EndingTypes, EndingsKeep DEF IInv
<1>4. CASE Bounds \/ Takeover  BY <1>1, <1>4, BoundTypes, BoundsKeep DEF IInv
<1>5. CASE Stop  BY <1>1, <1>5, StopTypes, StopKeeps DEF IInv
<1>6. CASE Renderers  BY <1>1, <1>6, RendererTypes, RenderersKeep DEF IInv
<1>7. CASE UNCHANGED vars
  <2>1. Types'  BY <1>1, <1>7 DEF vars, Types
  <2>2. Core'
    BY <1>1, <1>7 DEF vars, Core, OneSettler, Untouched, Early, Waiter, AnswerIsTaken, Registry,
       Enders, Ending, Submitted, ParkedRunHasAnEnding, At
  <2> QED  BY <2>1, <2>2 DEF IInv
<1> QED  BY <1>2, <1>3, <1>4, <1>5, <1>6, <1>7 DEF Next

\* The inductive invariant holds in every state of every run.
THEOREM RunInvariant == Spec => []IInv
<1> QED  BY InitHolds, StepKeeps, PTL DEF Spec

\* A request is settled once and a run that is over leaves nothing pending, parked or
\* registered (Broker.Resolve, withdrawParked, finishParkedRun).
THEOREM SettlesOnce == Spec => []SettledOnce
<1>1. IInv => TypeOK
  BY DEF IInv, Types, TypeOK, ReqT, LeaseT, CallT, PersonT, RendererT, ShellT, LaneT
<1>2. IInv => OneSettler  BY DEF IInv, Core
<1>3. IInv => NothingLeftPending
  BY DEF IInv, Core, Waiter, Registry, NothingLeftPending, At
<1> QED  BY <1>1, <1>2, <1>3, RunInvariant, PTL DEF SettledOnce

\* No bound fires on a call that returned the command's answer (supervise's disarm).
THEOREM AnswerBeatsTheBound == Spec => []AnsweredNeverExpires
<1>1. IInv => AnsweredNeverExpires
  BY DEF IInv, Core, AnswerIsTaken, AnsweredNeverExpires, At
<1> QED  BY <1>1, RunInvariant, PTL

\* A command running while the model holds the question can be ended by somebody (parkRun).
THEOREM ParkedRunIsOwned == Spec => []ParkedRunHasAnEnding
<1>1. IInv => ParkedRunHasAnEnding  BY DEF IInv, Core
<1> QED  BY <1>1, RunInvariant, PTL
=============================================================================
