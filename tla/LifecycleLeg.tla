---------------------------- MODULE LifecycleLeg ----------------------------
(***************************************************************************)
(* The lifecycle leg of one helper-hosted session, from the shell's bytes  *)
(* to the stored cursor, over the coordinators that serve it one after     *)
(* another.  The helper keeps what the shell said in a bounded window and  *)
(* serves it to the attachment (helper/session, helper/client); the bridge *)
(* carries it to the adapter (lifecyclechannel), whose pump applies one    *)
(* frame at a time inside the store's frame (app/lifecycle_cursor.go); a   *)
(* coordinator that stops detaches the leg, one that dies just goes, and   *)
(* the next one resumes at the cursor (app/session_readopt.go).            *)
(*                                                                         *)
(* A frame is two units of the stream, so that a page, the window's base   *)
(* and a coordinator's end may fall inside it: frame f is units 2f-1, 2f.  *)
(* Frame 1 is the hello and the last one the domain's goodbye.  How a      *)
(* frame is stored is LifecycleFrame; here it commits or fails.            *)
(***************************************************************************)
EXTENDS Naturals, Sequences, FiniteSetsExt

CONSTANTS
  Frames,     \* frames the shell can say, hello and goodbye included
  Window,     \* units the helper's lifecycle window retains
  MaxStarts   \* bound on the coordinators that follow the first one

ASSUME LegAssumption ==
  Frames \in Nat \ {0, 1} /\ Window \in Nat \ {0} /\ MaxStarts \in Nat

VARIABLES
  shell,    \* what the shell said into the window, whether it was accepted, its exit
  sub,      \* the helper's subscriber: served at all, and how far
  wire,     \* the attachment's inbound queue: units and resets, in order
  att,      \* the client's attachment
  buf,      \* units the bridge handed the adapter's decoder, each with its relayed end
  eof,      \* the bridge has closed its end of the carrier
  pump,     \* the adapter's pump and the frame in its hand
  leg,      \* how the leg ends (the once), its cause, its handshake bound
  dom,      \* the domain, as this coordinator's kernel has it
  applied,  \* lifecycleCursor.applied
  coord,    \* the coordinator: its phase, and what it took from the inventory
  store,    \* what is durable: the cursor, and the frames whose effect was stored
  settled,  \* monitorExit has settled the session's end
  hole      \* history: a range of the stream was given up, and said so

vars == <<shell, sub, wire, att, buf, eof, pump, leg, dom, applied, coord, store, settled, hole>>

helper == <<shell, sub>>
client == <<wire, att>>
adapter == <<buf, eof, pump, leg, dom, applied>>

Units == 2 * Frames
Unit == 1..Units

Pumping == {"reading", "taken", "applying", "committing", "draining", "ended"}
Phase == {"up", "stopping", "detaching", "handed", "down", "listed", "asking", "attached", "over"}

Item == [kind: {"unit", "reset"}, at: Unit]
Relayed == [unit: Unit, end: 0..Units]

TypeOK ==
  /\ shell \in [said: 0..Units, accepted: BOOLEAN, exit: {"none", "ended", "told"}]
  /\ sub \in [on: BOOLEAN, sent: 0..Units]
  /\ wire \in Seq(Item)
  /\ att \in [registered: BOOLEAN, offset: 0..Units, done: {"no", "told", "read"}, carried: BOOLEAN]
  /\ buf \in Seq(Relayed) /\ eof \in BOOLEAN
  /\ pump \in [pc: Pumping, frame: 0..Frames, at: 0..Units, effect: BOOLEAN]
  /\ leg \in [end: {"open", "losing", "ended"},
              cause: {"none", "EndOfStream", "HelloTimeout", "StoreRefused"},
              bound: {"armed", "expired", "done"}, asked: BOOLEAN]
  /\ dom \in {"pending", "live", "quarantined", "closed", "lost"}
  /\ applied \in 0..Units
  /\ coord \in [phase: Phase, starts: 0..MaxStarts, head: 0..Units, exited: BOOLEAN,
                from: 0..Units, reconciled: BOOLEAN]
  /\ store \in [cursor: 0..Units, rows: Seq(1..Frames)]
  /\ settled \in BOOLEAN /\ hole \in BOOLEAN

Fetching == [pc |-> "reading", frame |-> 0, at |-> 0, effect |-> FALSE]

Init ==
  /\ shell = [said |-> 0, accepted |-> FALSE, exit |-> "none"]
  /\ sub = [on |-> TRUE, sent |-> 0]
  /\ wire = <<>>
  /\ att = [registered |-> TRUE, offset |-> 0, done |-> "no", carried |-> FALSE]
  /\ buf = <<>> /\ eof = FALSE
  /\ pump = Fetching
  /\ leg = [end |-> "open", cause |-> "none", bound |-> "armed", asked |-> FALSE]
  /\ dom = "pending"
  /\ applied = 0
  /\ coord = [phase |-> "up", starts |-> 0, head |-> 0, exited |-> FALSE,
              from |-> 0, reconciled |-> FALSE]
  /\ store = [cursor |-> 0, rows |-> <<>>]
  /\ settled = FALSE /\ hole = FALSE

(***************************************************************************)
(* The helper: the shell's channel, the window, the process's end.         *)
(***************************************************************************)
Base == Max({0, shell.said - Window})

\* proto.ResumeAt, for a request that is never ahead of the stream.
ResumeAt(offset) == Max({Base, offset})

\* lifecyclePump: it may read what was written before the process ended.  A shell
\* waits for its accept before it says more than the hello.
Say ==
  /\ shell.said < Units
  /\ shell.said >= 2 => shell.accepted
  /\ shell' = [shell EXCEPT !.said = @ + 1]
  /\ UNCHANGED <<sub, client, adapter, coord, store, settled, hole>>

\* watchExit records the status, and then notifies whoever is bound.
Exit ==
  /\ shell.exit = "none"
  /\ shell' = [shell EXCEPT !.exit = "ended"]
  /\ UNCHANGED <<sub, client, adapter, coord, store, settled, hole>>

NotifyExit ==
  /\ shell.exit = "ended"
  /\ shell' = [shell EXCEPT !.exit = "told"]
  /\ att' = IF att.registered THEN [att EXCEPT !.done = "told"] ELSE att
  /\ UNCHANGED <<sub, wire, adapter, coord, store, settled, hole>>

\* serveLifecycle: the next page, or a reset to the base.  What is served to an
\* attachment whose bridge has ended changes nothing and is left out.
Serve ==
  /\ sub.on /\ leg.end # "ended"
  /\ \/ /\ sub.sent < Base
        /\ wire' = Append(wire, [kind |-> "reset", at |-> Base])
        /\ sub' = [sub EXCEPT !.sent = Base]
        /\ hole' = TRUE
     \/ /\ sub.sent >= Base /\ sub.sent < shell.said
        /\ wire' = Append(wire, [kind |-> "unit", at |-> sub.sent + 1])
        /\ sub' = [sub EXCEPT !.sent = @ + 1]
        /\ UNCHANGED hole
  /\ UNCHANGED <<shell, att, adapter, coord, store, settled>>

(***************************************************************************)
(* The attachment and the bridge: one item at a time, as both read.        *)
(***************************************************************************)
Running == coord.phase \in {"up", "stopping"}

ResetPending(q) == \E i \in DOMAIN q : q[i].kind = "reset"

\* attachedLifecycle.Read and the bridge's relayed and Write: the ingest cursor is
\* frozen while a reset is queued, and the unit then keeps the older end.
Relay ==
  /\ Running /\ ~eof /\ leg.end # "ended" /\ wire # <<>>
  /\ wire' = Tail(wire)
  /\ LET item == Head(wire)
         offset == IF item.kind = "reset" THEN item.at
                   ELSE IF ResetPending(Tail(wire)) THEN att.offset ELSE att.offset + 1
     IN /\ att' = [att EXCEPT !.offset = offset]
        /\ buf' = IF item.kind = "reset" \/ pump.pc = "draining" THEN buf
                  ELSE Append(buf, [unit |-> item.at, end |-> offset])
  /\ UNCHANGED <<shell, sub, eof, pump, leg, dom, applied, coord, store, settled, hole>>

\* mutant: the pane's output alone ends it.
PaneIsRead == TRUE

\* checkFullyDrained, once the pane's own output has been read: an exit the inventory
\* carried ends the attachment when the lifecycle window it named was read too, or
\* nobody reads it any more.
ReplayIsRead == att.offset >= coord.head \/ eof

FinishCarried ==
  /\ coord.phase = "up" /\ att.carried /\ att.done = "no"
  /\ ReplayIsRead
  /\ att' = [att EXCEPT !.done = "read"]
  /\ UNCHANGED <<shell, sub, wire, adapter, coord, store, settled, hole>>

\* take, on an ended attachment with nothing queued, or the adapter's end closed: the
\* bridge closes both.
BridgeEnds ==
  /\ Running /\ ~eof
  /\ leg.end = "ended" \/ (att.done # "no" /\ wire = <<>>)
  /\ eof' = TRUE
  /\ UNCHANGED <<shell, sub, client, buf, pump, leg, dom, applied, coord, store, settled, hole>>

(***************************************************************************)
(* The adapter: its decoder, its pump, the one end of the leg.             *)
(***************************************************************************)
IsTail(u) == u % 2 = 0

FrameReady == Len(buf) >= 2 /\ ~IsTail(buf[1].unit) /\ buf[2].unit = buf[1].unit + 1

GarbageReady ==
  /\ buf # <<>>
  /\ \/ IsTail(buf[1].unit)
     \/ Len(buf) >= 2 /\ buf[2].unit # buf[1].unit + 1
     \/ Len(buf) = 1 /\ eof

\* mutants: the last end relayed, whatever frame it belongs to; one unit too far.
LastRelayed == buf[Len(buf)].end

\* streamOffsetLocked: a frame ends where its own last unit ended upstream, whatever the
\* decoder holds behind it.
FrameEnd == buf[2].end

\* Decoder.ReadFrame answers a frame.
ReadFrame ==
  /\ pump.pc = "reading" /\ FrameReady
  /\ pump' = [pc |-> "taken", frame |-> (buf[1].unit + 1) \div 2, at |-> FrameEnd, effect |-> FALSE]
  /\ buf' = SubSeq(buf, 3, Len(buf))
  /\ UNCHANGED <<helper, client, eof, leg, dom, applied, coord, store, settled, hole>>

\* Decoder.scan: a region is told to the kernel (NotifyGap), or exhausts the budget,
\* which revokes the domain and leaves the pump draining.
SkipGarbage ==
  /\ pump.pc = "reading" /\ GarbageReady
  /\ \/ /\ buf' = Tail(buf)
        /\ dom' = IF dom = "live" THEN "quarantined" ELSE dom
        /\ UNCHANGED pump
     \/ /\ buf' = <<>>
        /\ dom' = IF dom = "closed" THEN dom ELSE "lost"
        /\ pump' = [pump EXCEPT !.pc = "draining"]
  /\ hole' = TRUE
  /\ UNCHANGED <<helper, client, eof, leg, applied, coord, store, settled>>

Stopping == coord.phase \in {"stopping", "detaching", "handed"}

\* leaveForNext and halt share the once with lose and Detach: whoever comes second
\* waits for the first and does nothing.
EndLeg(cause) ==
  /\ leg.end # "losing"
  /\ leg' = IF leg.end = "ended" THEN leg
            ELSE [leg EXCEPT !.end = "ended", !.cause = cause, !.bound = "done", !.asked = FALSE]

\* mutant: the pump keeps `applying` on this way out.
LeaveLocked == EndLeg("none") /\ UNCHANGED pump

Leave == EndLeg("none") /\ pump' = [pump EXCEPT !.pc = "ended"]

\* What the kernel makes of a frame: a live domain takes it, a quarantined one only
\* what restores it, any other nothing.  The hello asks for an accept.
Takes(effect) ==
  /\ effect => pump.frame > 1 /\ dom \in {"live", "quarantined"}
  /\ pump.frame > 1 /\ dom = "live" => effect

Ingest ==
  \E effect \in BOOLEAN :
    /\ Takes(effect)
    /\ pump' = [pump EXCEPT !.pc = "applying", !.effect = effect]
    /\ dom' = IF ~effect THEN dom ELSE IF pump.frame = Frames THEN "closed" ELSE "live"
    /\ leg' = [leg EXCEPT !.asked = pump.frame = 1 /\ leg.bound = "armed"]
    /\ hole' = (hole \/ (pump.frame > 1 /\ ~effect))

\* The pump takes `applying`, looks whether the leg has ended and whether the
\* coordinator is stopping, and applies the frame.
BeginFrame ==
  /\ pump.pc = "taken"
  /\ \/ /\ leg.end = "ended"
        /\ pump' = [pump EXCEPT !.pc = "ended"]
        /\ UNCHANGED <<leg, dom, hole>>
     \/ /\ leg.end # "ended" /\ Stopping
        /\ Leave
        /\ UNCHANGED <<dom, hole>>
     \/ /\ leg.end # "ended" /\ ~Stopping
        /\ Ingest
  /\ UNCHANGED <<helper, client, buf, eof, applied, coord, store, settled>>

\* The projection has run; a stop that began meanwhile abandons the frame.
EndProjection ==
  /\ pump.pc = "applying"
  /\ IF Stopping THEN Leave
     ELSE pump' = [pump EXCEPT !.pc = "committing"] /\ UNCHANGED leg
  /\ UNCHANGED <<helper, client, buf, eof, dom, applied, coord, store, settled, hole>>

\* The frame commits, rows and cursor at once; recordLifecycleApplied only raises it.
Commit ==
  /\ pump.pc = "committing"
  /\ store' = [cursor |-> Max({store.cursor, pump.at}),
               rows |-> IF pump.effect THEN Append(store.rows, pump.frame) ELSE store.rows]
  /\ applied' = Max({applied, pump.at})
  /\ pump' = Fetching
  /\ UNCHANGED <<helper, client, buf, eof, leg, dom, coord, settled, hole>>

CommitFails ==
  /\ pump.pc = "committing"
  /\ EndLeg(IF Stopping THEN "none" ELSE "StoreRefused")
  /\ pump' = [pump EXCEPT !.pc = "ended"]
  /\ UNCHANGED <<helper, client, buf, eof, dom, applied, coord, store, settled, hole>>

\* The pump reads its own carrier closed, or finds the leg ended.
PumpEnds ==
  /\ leg.end = "ended"
  /\ \/ pump.pc = "reading" /\ ~FrameReady
     \/ pump.pc = "draining"
  /\ pump' = [pump EXCEPT !.pc = "ended"]
  /\ UNCHANGED <<helper, client, buf, eof, leg, dom, applied, coord, store, settled, hole>>

\* lose, up to the kernel's answer: the cause is reported first.
LoseBegins(cause) ==
  /\ leg.end = "open"
  /\ leg' = [leg EXCEPT !.end = "losing", !.cause = cause]
  /\ UNCHANGED <<helper, client, buf, eof, pump, dom, applied, coord, store, settled, hole>>

\* endOfStream: a domain the shell closed, or already lost, ends quietly.
EndOfStream ==
  /\ eof
  /\ \/ pump.pc = "reading" /\ buf = <<>>
     \/ pump.pc = "draining"
  /\ \/ dom \notin {"closed", "lost"} /\ LoseBegins("EndOfStream")
     \/ /\ dom \in {"closed", "lost"} /\ leg.end = "open"
        /\ leg' = [leg EXCEPT !.end = "ended", !.asked = FALSE]
        /\ UNCHANGED <<helper, client, buf, eof, pump, dom, applied, coord, store, settled, hole>>

\* TransportLost has returned; the adapter is closed.
LoseEnds ==
  /\ leg.end = "losing"
  /\ leg' = [leg EXCEPT !.end = "ended", !.bound = "done", !.asked = FALSE]
  /\ dom' = IF dom = "closed" THEN dom ELSE "lost"
  /\ UNCHANGED <<helper, client, buf, eof, pump, applied, coord, store, settled, hole>>

\* The handshake's bound claims its expiry under the adapter's lock, and then loses.
BoundExpires ==
  /\ leg.bound = "armed" /\ leg.end # "ended"
  /\ leg' = [leg EXCEPT !.bound = "expired"]
  /\ UNCHANGED <<helper, client, buf, eof, pump, dom, applied, coord, store, settled, hole>>

BoundLoses == leg.bound = "expired" /\ LoseBegins("HelloTimeout")

\* mutant: only a leg that ended refuses the accept, not a bound that has expired.
MaySendLate == leg.end # "ended"

\* Send writes the accept under the same lock, and only then is the bound stopped.
MaySend == leg.bound # "expired" /\ leg.end # "ended"

SendAccept ==
  /\ leg.asked /\ dom = "pending" /\ MaySend
  /\ leg' = [leg EXCEPT !.bound = "done", !.asked = FALSE]
  /\ dom' = "live"
  /\ shell' = [shell EXCEPT !.accepted = TRUE]
  /\ UNCHANGED <<sub, client, buf, eof, pump, applied, coord, store, settled, hole>>

(***************************************************************************)
(* Coordinators.                                                           *)
(***************************************************************************)
\* Shutdown raises lifecycleStopping, then closes the sessions: each detaches its leg.
BeginStop ==
  /\ coord.phase = "up"
  /\ coord' = [coord EXCEPT !.phase = "stopping"]
  /\ UNCHANGED <<helper, client, adapter, store, settled, hole>>

DetachCloses ==
  /\ coord.phase = "stopping"
  /\ EndLeg("none")
  /\ coord' = [coord EXCEPT !.phase = "detaching"]
  /\ UNCHANGED <<helper, client, buf, eof, pump, dom, applied, store, settled, hole>>

\* mutant: Detach does not wait.
NeverApplying == FALSE

\* Detach waits for the frame being applied: the pump holds `applying` for it.
Applying == pump.pc \in {"applying", "committing"}

DetachReturns ==
  /\ coord.phase = "detaching"
  /\ ~Applying
  /\ coord' = [coord EXCEPT !.phase = "handed"]
  /\ UNCHANGED <<helper, client, adapter, store, settled, hole>>

\* The process is gone, by its own shutdown or not; the helper sees its connection end.
Down ==
  /\ coord.phase \notin {"down", "over"}
  /\ coord' = [coord EXCEPT !.phase = "down", !.head = 0, !.exited = FALSE, !.from = 0, !.reconciled = FALSE]
  /\ sub' = [on |-> FALSE, sent |-> 0]
  /\ wire' = <<>>
  /\ att' = [registered |-> FALSE, offset |-> 0, done |-> "no", carried |-> FALSE]
  /\ buf' = <<>> /\ eof' = FALSE
  /\ pump' = [Fetching EXCEPT !.pc = "ended"]
  /\ leg' = [end |-> "ended", cause |-> "none", bound |-> "done", asked |-> FALSE]
  /\ dom' = "lost"
  /\ applied' = 0
  /\ UNCHANGED <<shell, store, settled, hole>>

\* The next coordinator asks for the inventory.
Inventory ==
  /\ coord.phase = "down" /\ coord.starts < MaxStarts
  /\ coord' = [coord EXCEPT !.phase = "listed", !.starts = @ + 1, !.head = shell.said,
                            !.exited = shell.exit # "none"]
  /\ UNCHANGED <<helper, client, adapter, store, settled, hole>>

\* adoptLifecycle, and Attach up to its call: the domain is adopted with no handshake
\* left to bound, and the attachment is registered.
ResumePoint == store.cursor

Adopt ==
  /\ coord.phase = "listed"
  /\ coord' = [coord EXCEPT !.phase = "asking"]
  /\ att' = [registered |-> TRUE, offset |-> ResumePoint, done |-> "no", carried |-> FALSE]
  /\ pump' = Fetching
  /\ leg' = [leg EXCEPT !.end = "open"]
  /\ dom' = "live"
  /\ UNCHANGED <<helper, wire, buf, eof, applied, store, settled, hole>>

\* hostSession.attach: the subscriber is served from where the window can resume it.
Attach ==
  /\ coord.phase = "asking"
  /\ coord' = [coord EXCEPT !.phase = "attached", !.from = ResumeAt(att.offset)]
  /\ sub' = [on |-> TRUE, sent |-> ResumeAt(att.offset)]
  /\ UNCHANGED <<shell, client, adapter, store, settled, hole>>

\* Attach has answered: the cursor is bound, a lost range said, the inventory's exit
\* carried, the session adopted and its bridge started.
Readopt ==
  /\ coord.phase = "attached"
  /\ coord' = [coord EXCEPT !.phase = "up"]
  /\ att' = [att EXCEPT !.offset = coord.from, !.carried = coord.exited]
  /\ applied' = coord.from
  /\ hole' = (hole \/ coord.from > store.cursor)
  /\ UNCHANGED <<helper, wire, buf, eof, pump, leg, dom, store, settled>>

\* The restart notice goes when the replay has been applied (LifecycleReconciled).
Reached == applied >= coord.head

Reconcile ==
  /\ coord.phase = "up" /\ coord.starts > 0 /\ ~coord.reconciled
  /\ Reached
  /\ coord' = [coord EXCEPT !.reconciled = TRUE]
  /\ UNCHANGED <<helper, client, adapter, store, settled, hole>>

\* mutant: nothing but the replay lifts the hold.
HeldByReplay == coord.head = 0 \/ Reached

\* The end hold, armed when the inventory's window held anything: the replay applied,
\* the adapter stopped, or the loss reported.
HoldLifted == coord.head = 0 \/ Reached \/ pump.pc = "ended" \/ leg.cause # "none"

\* monitorExit: the session is over for every coordinator.
Settle ==
  /\ coord.phase = "up" /\ att.done # "no"
  /\ HoldLifted
  /\ settled' = TRUE
  /\ coord' = [coord EXCEPT !.phase = "over"]
  /\ UNCHANGED <<helper, client, adapter, store, hole>>

Pump == ReadFrame \/ SkipGarbage \/ BeginFrame \/ EndProjection \/ Commit \/ CommitFails
          \/ PumpEnds \/ EndOfStream
Shell == Say \/ Exit \/ NotifyExit
Carriage == Serve \/ Relay \/ BridgeEnds \/ FinishCarried
Bound == BoundExpires \/ BoundLoses
Coordinator == BeginStop \/ DetachCloses \/ DetachReturns \/ Down \/ Inventory \/ Adopt
                 \/ Attach \/ Readopt \/ Reconcile \/ Settle

Next ==
  \/ coord.phase # "over" /\ (Shell \/ Carriage \/ Pump \/ LoseEnds \/ Bound \/ SendAccept)
  \/ Coordinator

Spec == Init /\ [][Next]_vars

\* The goroutines run: the bridge, the pump, whoever is inside the once, the registry's
\* Close, monitorExit.
FairSpec ==
  /\ Spec
  /\ WF_vars(Relay \/ BridgeEnds) /\ WF_vars(Pump) /\ WF_vars(LoseEnds)
  /\ WF_vars(DetachCloses) /\ WF_vars(DetachReturns) /\ WF_vars(Settle)
-----------------------------------------------------------------------------
\* No frame's effect is stored twice or out of order, whichever coordinators resumed
\* the stream and wherever their cursors stood (lifecycleResumePoint, relayed).
StoredOnceInOrder ==
  \A i, j \in DOMAIN store.rows : i < j => store.rows[i] < store.rows[j]

\* Unless a range was given up and said so, the cursor has passed no frame whose effect
\* is not stored: crashes, hand-overs and resumptions skip nothing (ADR-0077).
NothingSkipped ==
  ~hole => /\ ~IsTail(store.cursor + 1)
           /\ store.rows = [i \in 1..Max({0, store.cursor \div 2 - 1}) |-> i + 1]

\* Each frame's effect is stored once, in order, and none is skipped.
StoredExactly == TypeOK /\ StoredOnceInOrder /\ NothingSkipped

\* A shell that was sent its accept is never given up for its handshake's bound
\* (Adapter.Send against the timer's callback).
AcceptedInTime == leg.cause = "HelloTimeout" => ~shell.accepted

\* A session whose exit the inventory carried is not settled ahead of the frames the
\* window held of it (ExitAfterLifecycle, HoldSessionEndFor).  An exit notified to the
\* attachment itself ends it at once and gives no such promise.
ReplayBeforeEnd ==
  settled /\ att.done = "read" /\ ~hole /\ leg.cause # "StoreRefused" =>
    store.cursor >= 2 * (coord.head \div 2)

\* The restart notice is not cleared ahead of the store: everything up to the
\* inventory's head is behind the stored cursor, or was behind the window's base.
ReconciledIsStored ==
  coord.reconciled => store.cursor >= coord.head \/ coord.from >= coord.head

\* What the window held is applied before anybody is told that it was.
ReplayApplied == ReplayBeforeEnd /\ ReconciledIsStored

\* Once Detach has returned this coordinator stores nothing more of the session: its
\* next act lets the block stream go (Adapter.Detach).
HandedOverIsStill == [][coord.phase = "handed" => store' = store]_vars

\* The end of an attachment settles the session, however little of the window its
\* adapter got to apply; unless the coordinator itself goes first.
EndSettles == (coord.phase = "up" /\ att.done # "no") ~> (coord.phase # "up")

\* A stop hands the leg over: Detach, the pump and whoever is losing the leg do not
\* wait for each other.
StopHandsOver == (coord.phase = "stopping") ~> (coord.phase \in {"handed", "down"})
=============================================================================
