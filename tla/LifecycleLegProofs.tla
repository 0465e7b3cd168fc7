------------------------- MODULE LifecycleLegProofs -------------------------
(***************************************************************************)
(* Proofs about LifecycleLeg, for any number of frames and coordinators    *)
(* and any window: each frame is stored once and in order and none is      *)
(* skipped, an accepted shell is not lost to its handshake's bound, the    *)
(* window's replay is applied before anybody is told so, and a leg handed  *)
(* over is still.                                                          *)
(*                                                                         *)
(* What is stored says nothing of what is still on its way, so IInv        *)
(* follows the stream from the shell to the store: the wire, the decoder   *)
(* and the pump hold an ascending run of units that is behind everything   *)
(* stored (Ordered); the client counts along the wire's gaps (Counted); an *)
(* end that is older than its unit belongs to a unit the window has passed *)
(* (Passed), which is why a cursor behind a stored frame does no harm; and *)
(* without a hole the run has no gap from the cursor to the client (Whole).*)
(***************************************************************************)
EXTENDS LifecycleLeg, TLAPS

InHand == pump.pc \in {"taken", "applying", "committing"}

\* Position n of the stream is behind everything still on its way.
Behind(n) ==
  /\ n <= sub.sent
  /\ \A i \in DOMAIN buf : n < buf[i].unit
  /\ \A j \in DOMAIN wire : n < wire[j].at

\* Where the client is in the stream; an attachment not yet answered is where it was granted.
Ingested == IF coord.phase = "attached" THEN coord.from ELSE att.offset

\* What is on its way is in the stream's order, and behind it what was stored.
Ordered ==
  /\ sub.sent <= shell.said
  /\ \A i, j \in DOMAIN wire : i < j => wire[i].at < wire[j].at
  /\ \A i \in DOMAIN wire : wire[i].at <= sub.sent
  /\ \A i, j \in DOMAIN buf : i < j => buf[i].unit < buf[j].unit
  /\ \A i \in DOMAIN buf : buf[i].unit <= sub.sent
  /\ \A i \in DOMAIN buf, j \in DOMAIN wire : buf[i].unit < wire[j].at
  /\ InHand => pump.frame > 0 /\ Behind(2 * pump.frame)
  /\ InHand => \A r \in DOMAIN store.rows : store.rows[r] < pump.frame
  /\ sub.on => \A r \in DOMAIN store.rows : Behind(2 * store.rows[r])

\* Nothing counts past what the shell said.
Within ==
  /\ att.offset <= shell.said /\ coord.from <= shell.said /\ store.cursor <= shell.said
  /\ \A i \in DOMAIN buf : buf[i].end <= shell.said
  /\ InHand => pump.at <= shell.said

\* The wire has no gap but at a reset, and the client counts along it.
Counted ==
  /\ \A i \in DOMAIN wire : i > 1 /\ wire[i].kind = "unit" => wire[i].at = wire[i - 1].at + 1
  /\ wire # <<>> /\ ~ResetPending(wire) => wire[1].at = Ingested + 1
  /\ sub.on => sub.sent = IF wire = <<>> THEN Ingested ELSE wire[Len(wire)].at
  /\ \A i \in DOMAIN wire : wire[i].kind = "reset" => wire[i].at <= Base
  /\ ResetPending(wire) => hole

\* An end is the unit's own, or the window has passed the unit: what is stored is never
\* served again.
Passed ==
  /\ \A i \in DOMAIN buf : buf[i].end = buf[i].unit \/ buf[i].unit <= Base
  /\ InHand => pump.at = 2 * pump.frame \/ 2 * pump.frame <= Base
  /\ \A r \in DOMAIN store.rows : 2 * store.rows[r] <= store.cursor \/ 2 * store.rows[r] <= Base

\* Where the pump is in the stream.
Position == IF InHand THEN 2 * pump.frame ELSE store.cursor

\* Without a hole, the pump has every unit between the cursor and the client.
Whole ==
  ~hole =>
    /\ pump.pc # "draining"
    /\ pump.pc # "ended" =>
         /\ \A i \in DOMAIN buf : buf[i].unit = Position + i /\ buf[i].end = buf[i].unit
         /\ att.offset = Position + Len(buf)
    /\ InHand => pump.at = 2 * pump.frame /\ store.cursor = 2 * pump.frame - 2
    /\ pump.pc \in {"applying", "committing"} => pump.effect = (pump.frame > 1)
    /\ coord.phase # "attached" => coord.from <= store.cursor

\* What a coordinator starts from.
Between ==
  /\ coord.phase \in {"down", "listed", "asking"} =>
       /\ ~sub.on /\ wire = <<>> /\ coord.from = 0
  /\ coord.phase \notin {"down", "listed", "asking"} => sub.on
  /\ coord.phase \in {"down", "listed", "asking", "attached"} =>
       /\ buf = <<>> /\ ~eof /\ applied = 0 /\ ~coord.reconciled
       /\ leg.cause = "none" /\ att.done # "read"
  /\ coord.phase \in {"down", "listed"} => pump.pc = "ended" /\ leg.end = "ended"
  /\ coord.phase \in {"asking", "attached"} =>
       /\ pump.pc = "reading" /\ leg.end = "open" /\ att.offset = store.cursor
  /\ coord.phase = "attached" => coord.from >= store.cursor
  /\ coord.phase \in {"down", "listed", "asking", "attached"} \/ coord.starts > 0 =>
       leg.bound = "done"
  /\ coord.starts = 0 => coord.head = 0

\* An accept and the handshake's bound exclude each other.
OneOrTheOther ==
  /\ leg.end = "open" => leg.cause = "none"
  /\ shell.accepted => leg.bound = "done"
  /\ leg.cause = "HelloTimeout" =>
       /\ ~shell.accepted
       /\ leg.end = "ended" \/ (leg.end = "losing" /\ leg.bound = "expired")

\* A resumed leg that ends with no hole and no refusal has applied all that the client
\* read, and an exit the inventory carried waited for the inventory's head.
ReplayIn ==
  ~hole /\ leg.cause # "StoreRefused" /\ coord.starts > 0 /\ coord.phase = "up" =>
    /\ leg.cause \in {"none", "EndOfStream"}
    /\ leg.end # "open" \/ pump.pc = "ended" \/ leg.cause # "none" =>
         eof /\ buf = <<>> /\ store.cursor = att.offset /\ ~InHand
    /\ eof => att.done # "no"
    /\ att.done = "read" => att.offset >= coord.head

HandedStill == coord.phase = "handed" => ~Applying
SettledIsOver == settled => coord.phase = "over"
AppliedIsStored == applied <= store.cursor \/ applied <= coord.from

Stream ==
  /\ Ordered /\ Within /\ Counted /\ Passed /\ Whole
  /\ StoredOnceInOrder /\ NothingSkipped

Control ==
  /\ Between /\ OneOrTheOther /\ ReplayIn /\ HandedStill /\ SettledIsOver /\ AppliedIsStored
  /\ ReplayApplied

IInv == TypeOK /\ Stream /\ Control

\* The records of the state.
ShellT == [said: 0..Units, accepted: BOOLEAN, exit: {"none", "ended", "told"}]
SubT == [on: BOOLEAN, sent: 0..Units]
AttT == [registered: BOOLEAN, offset: 0..Units, done: {"no", "told", "read"}, carried: BOOLEAN]
PumpT == [pc: Pumping, frame: 0..Frames, at: 0..Units, effect: BOOLEAN]
LegT == [end: {"open", "losing", "ended"},
         cause: {"none", "EndOfStream", "HelloTimeout", "StoreRefused"},
         bound: {"armed", "expired", "done"}, asked: BOOLEAN]
CoordT == [phase: Phase, starts: 0..MaxStarts, head: 0..Units, exited: BOOLEAN,
           from: 0..Units, reconciled: BOOLEAN]
StoreT == [cursor: 0..Units, rows: Seq(1..Frames)]

\* The type invariant, record by record: a step disturbs one or two of them.
LEMMA TypesAre ==
  TypeOK <=>
    /\ shell \in ShellT /\ sub \in SubT /\ wire \in Seq(Item) /\ att \in AttT
    /\ buf \in Seq(Relayed) /\ eof \in BOOLEAN /\ pump \in PumpT /\ leg \in LegT
    /\ dom \in {"pending", "live", "quarantined", "closed", "lost"}
    /\ applied \in 0..Units /\ coord \in CoordT /\ store \in StoreT
    /\ settled \in BOOLEAN /\ hole \in BOOLEAN
BY DEF TypeOK, ShellT, SubT, AttT, PumpT, LegT, CoordT, StoreT

\* The same of the next state.
LEMMA TypesAreNext ==
  TypeOK' <=>
    /\ shell' \in ShellT /\ sub' \in SubT /\ wire' \in Seq(Item) /\ att' \in AttT
    /\ buf' \in Seq(Relayed) /\ eof' \in BOOLEAN /\ pump' \in PumpT /\ leg' \in LegT
    /\ dom' \in {"pending", "live", "quarantined", "closed", "lost"}
    /\ applied' \in 0..Units /\ coord' \in CoordT /\ store' \in StoreT
    /\ settled' \in BOOLEAN /\ hole' \in BOOLEAN
BY DEF TypeOK, ShellT, SubT, AttT, PumpT, LegT, CoordT, StoreT

\* What the steps make of the leg is a leg.
LEMMA EndedLeg ==
  ASSUME NEW l \in LegT, NEW cause \in {"none", "EndOfStream", "HelloTimeout", "StoreRefused"}
  PROVE  /\ [l EXCEPT !.end = "ended", !.cause = cause, !.bound = "done", !.asked = FALSE] \in LegT
         /\ [l EXCEPT !.end = "ended", !.bound = "done", !.asked = FALSE] \in LegT
         /\ [l EXCEPT !.end = "losing", !.cause = cause] \in LegT
         /\ [l EXCEPT !.end = "ended", !.asked = FALSE] \in LegT
         /\ [l EXCEPT !.end = "open"] \in LegT
         /\ [l EXCEPT !.bound = "expired"] \in LegT
         /\ [l EXCEPT !.bound = "done", !.asked = FALSE] \in LegT
BY DEF LegT

-----------------------------------------------------------------------------
\* The larger of two.
LEMMA MaxOf ==
  ASSUME NEW a \in Int, NEW b \in Int
  PROVE  Max({a, b}) = IF a >= b THEN a ELSE b
<1>1. \E x \in {a, b} : \A y \in {a, b} : x >= y  OBVIOUS
<1> QED  BY <1>1 DEF Max

\* A frame's number is half of its last unit.
LEMMA Halves ==
  ASSUME NEW u \in Nat, ~IsTail(u)
  PROVE  /\ (u + 1) \div 2 \in Nat /\ 2 * ((u + 1) \div 2) = u + 1
BY DEF IsTail

\* A unit is a head or a tail, and a frame is two of them.
LEMMA EvenAfterOdd ==
  ASSUME NEW f \in Nat
  PROVE  ~IsTail(2 * f + 1) /\ (2 * f) \div 2 = f /\ IsTail(2*f)
BY DEF IsTail

\* The window's base: what the shell said, less what the window keeps.
LEMMA BaseIs ==
  ASSUME TypeOK
  PROVE  /\ Base \in Nat /\ Base <= shell.said /\ Base = IF shell.said <= Window THEN 0 ELSE shell.said - Window
<1>1. shell.said \in Nat /\ Window \in Nat  BY LegAssumption DEF TypeOK, Units
<1>2. Max({0, shell.said - Window}) = IF 0 >= shell.said - Window THEN 0 ELSE shell.said - Window
  BY <1>1, MaxOf
<1> QED BY <1>1, <1>2 DEF Base

\* What the type invariant says of the numbers.
LEMMA Typed ==
  ASSUME TypeOK
  PROVE /\ Len(wire) \in Nat /\ DOMAIN wire = 1..Len(wire) 
        /\ \A i \in 1..Len(wire) : wire[i].at \in Nat /\ wire[i].kind \in {"unit", "reset"}
        /\ Len(buf) \in Nat /\ DOMAIN buf = 1..Len(buf) 
        /\ \A i \in 1..Len(buf) : buf[i].unit \in Nat /\ buf[i].end \in Nat
        /\ Len(store.rows) \in Nat /\ DOMAIN store.rows = 1..Len(store.rows) 
        /\ \A i \in 1..Len(store.rows) : store.rows[i] \in Nat 
        /\ store.cursor \in Nat /\ sub.sent \in Nat /\ att.offset \in Nat /\ applied \in Nat
        /\ coord.head \in Nat /\ coord.from \in Nat /\ pump.frame \in Nat /\ pump.at \in Nat
        /\ shell.said \in Nat /\ coord.starts \in Nat
<1>1. Units \in Nat /\ Units > 0  BY LegAssumption DEF Units
<1>2. /\ Len(wire) \in Nat /\ DOMAIN wire = 1..Len(wire)
      /\ \A i \in 1..Len(wire) : wire[i].at \in Nat /\ wire[i].kind \in {"unit", "reset"}
  <2>1. wire \in Seq(Item)  BY DEF TypeOK
  <2>2. Len(wire) \in Nat /\ \A i \in 1..Len(wire) : wire[i] \in Item  BY <2>1
  <2>3. \A x \in Item : x.at \in Nat /\ x.kind \in {"unit", "reset"}  BY <1>1 DEF Item, Unit
  <2>4. DOMAIN wire = 1..Len(wire)  BY <2>1
  <2> QED  BY <2>2, <2>3, <2>4
<1>3. /\ Len(buf) \in Nat /\ DOMAIN buf = 1..Len(buf)
      /\ \A i \in 1..Len(buf) : buf[i].unit \in Nat /\ buf[i].end \in Nat
  <2>1. buf \in Seq(Relayed)  BY DEF TypeOK
  <2>2. Len(buf) \in Nat /\ \A i \in 1..Len(buf) : buf[i] \in Relayed  BY <2>1
  <2>3. \A x \in Relayed : x.unit \in Nat /\ x.end \in Nat  BY <1>1 DEF Relayed, Unit
  <2>4. DOMAIN buf = 1..Len(buf)  BY <2>1
  <2> QED  BY <2>2, <2>3, <2>4
<1>4. store.cursor \in Nat /\ store.rows \in Seq(1..Frames)  BY <1>1 DEF TypeOK
<1>5. Frames \in Nat BY LegAssumption
<1>6. /\ Len(store.rows) \in Nat /\ DOMAIN store.rows = 1..Len(store.rows) 
        /\ \A i \in 1..Len(store.rows) : store.rows[i] \in Nat
  BY <1>4, <1>5
<1>7. /\ sub.sent \in Nat /\ att.offset \in Nat /\ applied \in Nat
        /\ coord.head \in Nat /\ coord.from \in Nat /\ pump.at \in Nat
        /\ shell.said \in Nat
   BY <1>1 DEF TypeOK
<1>8. pump.frame \in Nat BY <1>5 DEF TypeOK
<1>9. coord.starts \in Nat BY LegAssumption DEF TypeOK
<1> QED BY <1>2, <1>3, <1>4, <1>6, <1>7, <1>8, <1>9

-----------------------------------------------------------------------------
\* A step that moves nothing of the stream.
LEMMA StreamKept ==
  ASSUME IInv,
         wire' = wire, buf' = buf, sub' = sub, store' = store, pump' = pump,
         att'.offset = att.offset, shell'.said = shell.said, hole' = hole,
         coord'.phase = "attached" <=> coord.phase = "attached", coord'.from = coord.from
  PROVE  Stream'
<1>1. Base' = Base  BY DEF Base
<1>2. Ordered' /\ Within'  BY DEF IInv, Stream, Ordered, Within, Behind, InHand
<1>3. Counted'
  BY <1>1 DEF IInv, Stream, Counted, Ingested, ResetPending
<1>4. Passed'  BY <1>1 DEF IInv, Stream, Passed, InHand
<1>5. Whole'  BY DEF IInv, Stream, Whole, Position, InHand
<1>6. StoredOnceInOrder' /\ NothingSkipped'
  BY DEF IInv, Stream, StoredOnceInOrder, NothingSkipped, IsTail
<1> QED  BY <1>2, <1>3, <1>4, <1>5, <1>6 DEF Stream

\* The status recorded moves nothing of the leg.
LEMMA ExitKeeps ==
  ASSUME IInv, Exit
  PROVE  IInv'
<1> USE DEF Exit, client, adapter
<1>1. TypeOK'  BY SMTT(30) DEF IInv, TypeOK
<1>2. Stream'  BY StreamKept DEF IInv, TypeOK
<1>3. Control'
  BY DEF IInv, TypeOK, Control, Between, OneOrTheOther, ReplayIn, HandedStill, SettledIsOver, AppliedIsStored, ReplayApplied, ReplayBeforeEnd, ReconciledIsStored, InHand, Applying
<1> QED  BY <1>1, <1>2, <1>3 DEF IInv

\* The attachment is told of the exit: nothing it read or will read changes.
LEMMA NotifyExitKeeps ==
  ASSUME IInv, NotifyExit
  PROVE  IInv'
<1> USE DEF NotifyExit, client, adapter
<1>1. TypeOK'
  <2>1. att' \in AttT  BY TypesAre DEF IInv, AttT
  <2>2. shell' \in ShellT  BY TypesAre DEF IInv, ShellT
  <2> QED  BY <2>1, <2>2, TypesAre, TypesAreNext DEF IInv
<1>2. Stream'  BY StreamKept DEF IInv, TypeOK
<1>3. Control'
  BY DEF IInv, TypeOK, Control, Between, OneOrTheOther, ReplayIn, HandedStill, SettledIsOver, AppliedIsStored, ReplayApplied, ReplayBeforeEnd, ReconciledIsStored, InHand, Applying
<1> QED  BY <1>1, <1>2, <1>3 DEF IInv

\* The kernel has been told of the loss.
LEMMA LoseEndsKeeps ==
  ASSUME IInv, LoseEnds
  PROVE  IInv'
<1> USE DEF LoseEnds, client, helper
<1>1. TypeOK'
  <2>1. leg' \in LegT  BY TypesAre, EndedLeg DEF IInv
  <2> QED  BY <2>1, TypesAre, TypesAreNext DEF IInv
<1>2. Stream'  BY StreamKept DEF IInv, TypeOK
<1>3. Control'
  BY DEF IInv, TypeOK, Control, Between, OneOrTheOther, ReplayIn, HandedStill, SettledIsOver, AppliedIsStored, ReplayApplied, ReplayBeforeEnd, ReconciledIsStored, InHand, Applying
<1> QED  BY <1>1, <1>2, <1>3 DEF IInv

\* The leg is lost: at its stream's end, or for an accept that was never sent.
LEMMA LoseBeginsKeeps ==
  ASSUME IInv, NEW cause \in {"EndOfStream", "HelloTimeout"}, LoseBegins(cause),
         cause = "HelloTimeout" => leg.bound = "expired",
         cause = "EndOfStream" => eof /\ (pump.pc = "draining" \/ (pump.pc = "reading" /\ buf = <<>>))
  PROVE  IInv'
<1>1. TypeOK'
  <2>1. leg' \in LegT  BY TypesAre, EndedLeg DEF IInv, LoseBegins, helper, client
  <2> QED  BY <2>1, TypesAre, TypesAreNext DEF IInv, LoseBegins, helper, client
<1>2. Stream'  BY StreamKept DEF IInv, TypeOK, LoseBegins, helper, client
<1>3. Control'
  <2>0. /\ leg.end = "open" /\ leg'.end = "losing" /\ leg'.cause = cause
        /\ leg'.bound = leg.bound
        /\ UNCHANGED <<shell, sub, wire, att, buf, eof, pump, dom, applied, coord, store, settled, hole>>
    BY DEF IInv, TypeOK, LoseBegins, helper, client
  <2>1. ~hole /\ pump.pc = "reading" /\ buf = <<>> => store.cursor = att.offset
    <3>1. store.cursor \in Nat /\ Len(<<>>) = 0  BY Typed DEF IInv
    <3> QED  BY <3>1 DEF IInv, Stream, Whole, Position, InHand
  <2>2. ~hole => pump.pc # "draining"  BY DEF IInv, Stream, Whole
  <2>3. Between' /\ OneOrTheOther'
    BY <2>0 DEF IInv, Control, Between, OneOrTheOther
  <2>4. ReplayIn'
    BY <2>0, <2>1, <2>2 DEF IInv, Control, ReplayIn, Between, OneOrTheOther, InHand
  <2>5. HandedStill' /\ SettledIsOver' /\ AppliedIsStored' /\ ReconciledIsStored'
    BY <2>0 DEF IInv, Control, HandedStill, SettledIsOver, AppliedIsStored, ReplayApplied,
           ReconciledIsStored, Applying
  <2>6. ReplayBeforeEnd'
    BY <2>0 DEF IInv, Control, ReplayApplied, ReplayBeforeEnd, OneOrTheOther
  <2> QED  BY <2>3, <2>4, <2>5, <2>6 DEF Control, ReplayApplied
<1> QED  BY <1>1, <1>2, <1>3 DEF IInv

\* A domain that is over already ends without a cause.
LEMMA EndsQuietlyKeeps ==
  ASSUME IInv, EndOfStream, ~LoseBegins("EndOfStream")
  PROVE  IInv'
<1>1. TypeOK'
  <2>1. leg' \in LegT  BY TypesAre, EndedLeg DEF IInv, EndOfStream, LoseBegins, helper, client
  <2> QED  BY <2>1, TypesAre, TypesAreNext DEF IInv, EndOfStream, LoseBegins, helper, client
<1>2. Stream'  BY StreamKept DEF IInv, TypeOK, EndOfStream, LoseBegins, helper, client
<1>3. Control'
  <2>0. /\ leg.end = "open" /\ leg'.end = "ended" /\ leg'.cause = leg.cause
        /\ leg'.bound = leg.bound /\ eof
        /\ pump.pc = "draining" \/ (pump.pc = "reading" /\ buf = <<>>)
        /\ UNCHANGED <<shell, sub, wire, att, buf, eof, pump, applied, coord, store, settled, hole>>
    BY DEF IInv, TypeOK, EndOfStream, LoseBegins, helper, client
  <2>1. ~hole /\ pump.pc = "reading" /\ buf = <<>> => store.cursor = att.offset
    <3>1. store.cursor \in Nat /\ Len(<<>>) = 0  BY Typed DEF IInv
    <3> QED  BY <3>1 DEF IInv, Stream, Whole, Position, InHand
  <2>2. ~hole => pump.pc # "draining"  BY DEF IInv, Stream, Whole
  <2>3. Between' /\ OneOrTheOther'
    BY <2>0 DEF IInv, Control, Between, OneOrTheOther
  <2>4. ReplayIn'
    BY <2>0, <2>1, <2>2 DEF IInv, Control, ReplayIn, Between, OneOrTheOther, InHand
  <2>5. HandedStill' /\ SettledIsOver' /\ AppliedIsStored' /\ ReconciledIsStored'
    BY <2>0 DEF IInv, Control, HandedStill, SettledIsOver, AppliedIsStored, ReplayApplied,
           ReconciledIsStored, Applying
  <2>6. ReplayBeforeEnd'
    BY <2>0 DEF IInv, Control, ReplayApplied, ReplayBeforeEnd, OneOrTheOther
  <2> QED  BY <2>3, <2>4, <2>5, <2>6 DEF Control, ReplayApplied
<1> QED  BY <1>1, <1>2, <1>3 DEF IInv

\* The bound claims its expiry while no accept was sent.
LEMMA BoundExpiresKeeps ==
  ASSUME IInv, BoundExpires
  PROVE  IInv'
<1> USE DEF BoundExpires, helper, client
<1>1. TypeOK'
  <2>1. leg' \in LegT  BY TypesAre, EndedLeg DEF IInv
  <2> QED  BY <2>1, TypesAre, TypesAreNext DEF IInv
<1>2. Stream'  BY StreamKept DEF IInv, TypeOK
<1>3. Control'
  BY DEF IInv, TypeOK, Control, Between, OneOrTheOther, ReplayIn, HandedStill,
         SettledIsOver, AppliedIsStored, ReplayApplied, ReplayBeforeEnd, ReconciledIsStored, InHand,
         Applying
<1> QED  BY <1>1, <1>2, <1>3 DEF IInv

\* The accept is sent while the bound has not expired, and stops it.
LEMMA SendAcceptKeeps ==
  ASSUME IInv, SendAccept
  PROVE  IInv'
<1> USE DEF SendAccept, MaySend, client
<1>1. TypeOK'
  <2>1. leg' \in LegT  BY TypesAre, EndedLeg DEF IInv
  <2>2. shell' \in ShellT  BY TypesAre DEF IInv, ShellT
  <2> QED  BY <2>1, <2>2, TypesAre, TypesAreNext DEF IInv
<1>2. Stream'  BY StreamKept DEF IInv, TypeOK
<1>3. Control'
  BY DEF IInv, TypeOK, Control, Between, OneOrTheOther, ReplayIn, HandedStill,
         SettledIsOver, AppliedIsStored, ReplayApplied, ReplayBeforeEnd, ReconciledIsStored, InHand,
         Applying
<1> QED  BY <1>1, <1>2, <1>3 DEF IInv

\* The bridge ends with nothing queued, or on an ended leg.
LEMMA BridgeEndsKeeps ==
  ASSUME IInv, BridgeEnds
  PROVE  IInv'
<1> USE DEF BridgeEnds, Running, helper, client
<1>1. TypeOK'
  <2> QED  BY TypesAre, TypesAreNext DEF IInv
<1>2. Stream'  BY StreamKept DEF IInv, TypeOK
<1>3. Control'
  BY DEF IInv, TypeOK, Control, Between, OneOrTheOther, ReplayIn, HandedStill,
         SettledIsOver, AppliedIsStored, ReplayApplied, ReplayBeforeEnd, ReconciledIsStored, InHand,
         Applying
<1> QED  BY <1>1, <1>2, <1>3 DEF IInv

\* The exit the inventory carried waited for the inventory's head.
LEMMA FinishCarriedKeeps ==
  ASSUME IInv, FinishCarried
  PROVE  IInv'
<1> USE DEF FinishCarried, ReplayIsRead, adapter
<1>1. TypeOK'
  <2>1. att' \in AttT  BY TypesAre DEF IInv, AttT
  <2> QED  BY <2>1, TypesAre, TypesAreNext DEF IInv
<1>2. Stream'  BY StreamKept DEF IInv, TypeOK
<1>3. Control'
  BY DEF IInv, TypeOK, Control, Between, OneOrTheOther, ReplayIn, HandedStill,
         SettledIsOver, AppliedIsStored, ReplayApplied, ReplayBeforeEnd, ReconciledIsStored, InHand,
         Applying
<1> QED  BY <1>1, <1>2, <1>3 DEF IInv

\* A stop begins: the promises to a serving coordinator end.
LEMMA BeginStopKeeps ==
  ASSUME IInv, BeginStop
  PROVE  IInv'
<1> USE DEF BeginStop, helper, client, adapter
<1>1. TypeOK'
  <2>1. coord' \in CoordT  BY TypesAre DEF IInv, CoordT, Phase
  <2> QED  BY <2>1, TypesAre, TypesAreNext DEF IInv
<1>2. Stream'  BY StreamKept DEF IInv, TypeOK
<1>3. Control'
  BY DEF IInv, TypeOK, Control, Between, OneOrTheOther, ReplayIn, HandedStill,
         SettledIsOver, AppliedIsStored, ReplayApplied, ReplayBeforeEnd, ReconciledIsStored, InHand,
         Applying
<1> QED  BY <1>1, <1>2, <1>3 DEF IInv

\* Detach ends the leg, unless somebody else has.
LEMMA DetachClosesKeeps ==
  ASSUME IInv, DetachCloses
  PROVE  IInv'
<1> USE DEF DetachCloses, EndLeg, helper, client
<1>1. TypeOK'
  <2>1. coord' \in CoordT  BY TypesAre DEF IInv, CoordT, Phase
  <2>2. leg' \in LegT  BY TypesAre, EndedLeg DEF IInv
  <2> QED  BY <2>1, <2>2, TypesAre, TypesAreNext DEF IInv
<1>2. Stream'  BY StreamKept DEF IInv, TypeOK
<1>3. Control'
  BY DEF IInv, TypeOK, Control, Between, OneOrTheOther, ReplayIn, HandedStill,
         SettledIsOver, AppliedIsStored, ReplayApplied, ReplayBeforeEnd, ReconciledIsStored, InHand,
         Applying
<1> QED  BY <1>1, <1>2, <1>3 DEF IInv

\* Detach returns with no frame being applied.
LEMMA DetachReturnsKeeps ==
  ASSUME IInv, DetachReturns
  PROVE  IInv'
<1> USE DEF DetachReturns, helper, client, adapter
<1>1. TypeOK'
  <2>1. coord' \in CoordT  BY TypesAre DEF IInv, CoordT, Phase
  <2> QED  BY <2>1, TypesAre, TypesAreNext DEF IInv
<1>2. Stream'  BY StreamKept DEF IInv, TypeOK
<1>3. Control'
  BY DEF IInv, TypeOK, Control, Between, OneOrTheOther, ReplayIn, HandedStill,
         SettledIsOver, AppliedIsStored, ReplayApplied, ReplayBeforeEnd, ReconciledIsStored, InHand,
         Applying
<1> QED  BY <1>1, <1>2, <1>3 DEF IInv

\* The next coordinator knows what the window held.
LEMMA InventoryKeeps ==
  ASSUME IInv, Inventory
  PROVE  IInv'
<1> USE DEF Inventory, helper, client, adapter
<1>1. TypeOK'
  <2>1. coord.starts + 1 \in 0..MaxStarts /\ shell.said \in 0..Units
    <3>1. coord.starts \in 0..MaxStarts  BY DEF IInv, TypeOK
    <3> QED  BY <3>1, LegAssumption, SMTT(30) DEF IInv, TypeOK
  <2>2. coord' \in CoordT  BY <2>1, TypesAre DEF IInv, CoordT, Phase
  <2> QED  BY <2>2, TypesAre, TypesAreNext DEF IInv
<1>2. Stream'  BY StreamKept DEF IInv, TypeOK
<1>3. Control'
  BY DEF IInv, TypeOK, Control, Between, OneOrTheOther, ReplayIn, HandedStill,
         SettledIsOver, AppliedIsStored, ReplayApplied, ReplayBeforeEnd, ReconciledIsStored, InHand,
         Applying
<1> QED  BY <1>1, <1>2, <1>3 DEF IInv

\* The notice is cleared once the applied cursor is at the head.
LEMMA ReconcileKeeps ==
  ASSUME IInv, Reconcile
  PROVE  IInv'
<1> USE DEF Reconcile, Reached, helper, client, adapter
<1>1. TypeOK'
  <2>1. coord' \in CoordT  BY TypesAre DEF IInv, CoordT
  <2> QED  BY <2>1, TypesAre, TypesAreNext DEF IInv
<1>2. Stream'  BY StreamKept DEF IInv, TypeOK
<1>3. Control'
  BY DEF IInv, TypeOK, Control, Between, OneOrTheOther, ReplayIn, HandedStill,
         SettledIsOver, AppliedIsStored, ReplayApplied, ReplayBeforeEnd, ReconciledIsStored, InHand,
         Applying
<1> QED  BY <1>1, <1>2, <1>3 DEF IInv

\* The session settles: the head is applied, or the leg ended, and then with
\* everything read applied.
LEMMA SettleKeeps ==
  ASSUME IInv, Settle
  PROVE  IInv'
<1> USE DEF Settle, HoldLifted, Reached, helper, client, adapter
<1>1. TypeOK'
  <2>1. coord' \in CoordT  BY TypesAre DEF IInv, CoordT, Phase
  <2> QED  BY <2>1, TypesAre, TypesAreNext DEF IInv
<1>2. Stream'  BY StreamKept DEF IInv, TypeOK
<1>3. Control'
  <2>1. /\ coord'.phase = "over" /\ coord'.head = coord.head /\ coord'.from = coord.from
        /\ coord'.reconciled = coord.reconciled /\ coord'.starts = coord.starts
    BY DEF IInv, TypeOK
  <2>2. Between' /\ OneOrTheOther' /\ ReplayIn' /\ HandedStill' /\ SettledIsOver'
    BY <2>1 DEF IInv, Control, Between, OneOrTheOther, ReplayIn, HandedStill, SettledIsOver
  <2>3. AppliedIsStored' /\ ReconciledIsStored'
    BY <2>1 DEF IInv, Control, AppliedIsStored, ReplayApplied, ReconciledIsStored
  <2>4. ReplayBeforeEnd'
    <3>1. SUFFICES ASSUME att.done = "read", ~hole, leg.cause # "StoreRefused"
                   PROVE  store.cursor >= 2 * (coord.head \div 2)
      BY <2>1 DEF ReplayBeforeEnd
    <3>2. store.cursor \in Nat /\ coord.head \in Nat /\ coord.from \in Nat /\ applied \in Nat
          /\ coord.starts \in Nat /\ att.offset \in Nat
      BY Typed DEF IInv
    <3>3. CASE coord.head = 0
      BY <3>2, <3>3
    <3>4. CASE coord.head # 0
      <4>1. coord.starts > 0  BY <3>2, <3>4 DEF IInv, Control, Between
      <4>2. coord.from <= store.cursor  BY <3>1 DEF IInv, Stream, Whole
      <4>3. store.cursor >= coord.head
        <5>1. CASE applied >= coord.head
          BY <3>2, <4>2, <5>1 DEF IInv, Control, AppliedIsStored
        <5>2. CASE pump.pc = "ended" \/ leg.cause # "none"
          BY <3>1, <3>2, <4>1, <5>2 DEF IInv, Control, ReplayIn
        <5> QED  BY <3>4, <5>1, <5>2
      <4> QED  BY <3>2, <4>3
    <3> QED  BY <3>3, <3>4
  <2> QED  BY <2>2, <2>3, <2>4 DEF Control, ReplayApplied
<1> QED  BY <1>1, <1>2, <1>3 DEF IInv

\* The shell says a unit: the base may pass one that is stored or on its way.
LEMMA SayKeeps ==
  ASSUME IInv, Say
  PROVE  IInv'
<1> USE DEF Say, client, adapter
<1>1. shell.said \in Nat /\ shell'.said = shell.said + 1  BY Typed DEF IInv, TypeOK
<1>2. TypeOK'
  <2>1. Units \in Nat  BY LegAssumption DEF Units
  <2>2. shell.said + 1 \in 0..Units  BY <1>1, <2>1 DEF IInv, TypeOK
  <2>3. shell' \in ShellT  BY <2>2, TypesAre DEF IInv, ShellT
  <2> QED  BY <2>3, TypesAre, TypesAreNext DEF IInv
<1>3. Base \in Nat /\ Base' \in Nat /\ Base <= Base'
  <2>1. Window \in Nat  BY LegAssumption
  <2>2. /\ Base \in Nat
        /\ Base = IF shell.said <= Window THEN 0 ELSE shell.said - Window
    BY BaseIs DEF IInv
  <2>3. /\ Base' \in Nat
        /\ Base' = IF shell'.said <= Window THEN 0 ELSE shell'.said - Window
    <3>1. Max({0, shell'.said - Window}) =
            IF 0 >= shell'.said - Window THEN 0 ELSE shell'.said - Window
      BY <1>1, <2>1, MaxOf
    <3> QED  BY <1>1, <2>1, <3>1 DEF Base
  <2> QED  BY <1>1, <2>1, <2>2, <2>3
<1>4. Ordered' /\ Within'
  <2>1. /\ sub.sent \in Nat /\ att.offset \in Nat /\ coord.from \in Nat /\ store.cursor \in Nat
        /\ pump.at \in Nat /\ \A i \in DOMAIN buf : buf[i].end \in Nat
    BY Typed DEF IInv
  <2>2. sub'.sent <= shell'.said  BY <1>1, <2>1 DEF IInv, Stream, Ordered
  <2>3. Ordered'  BY <2>2 DEF IInv, Stream, Ordered, Behind, InHand
  <2>4. Within'  BY <1>1, <2>1 DEF IInv, Stream, Within, InHand
  <2> QED  BY <2>3, <2>4
<1>5. Counted'
  <2>1. \A i \in DOMAIN wire : wire[i].at \in Nat  BY Typed DEF IInv
  <2>2. \A i \in DOMAIN wire : wire[i].kind = "reset" => wire[i].at <= Base'
    BY <1>3, <2>1 DEF IInv, Stream, Counted
  <2> QED  BY <2>2 DEF IInv, Stream, Counted, Ingested, ResetPending
<1>6. Passed'
  <2>1. \A i \in DOMAIN buf : buf[i].unit \in Nat  BY Typed DEF IInv
  <2>2. \A r \in DOMAIN store.rows : store.rows[r] \in Nat  BY Typed DEF IInv
  <2>3. pump.frame \in Nat  BY Typed DEF IInv
  <2> QED  BY <1>3, <2>1, <2>2, <2>3 DEF IInv, Stream, Passed, InHand
<1>7. Whole'  BY DEF IInv, Stream, Whole, Position, InHand
<1>8. StoredOnceInOrder' /\ NothingSkipped'
  BY DEF IInv, Stream, StoredOnceInOrder, NothingSkipped, IsTail
<1>9. Stream'  BY <1>4, <1>5, <1>6, <1>7, <1>8 DEF Stream
<1>10. Control'
  BY DEF IInv, TypeOK, Control, Between, OneOrTheOther, ReplayIn, HandedStill,
         SettledIsOver, AppliedIsStored, ReplayApplied, ReplayBeforeEnd, ReconciledIsStored, InHand,
         Applying
<1> QED  BY <1>2, <1>9, <1>10 DEF IInv

\* The pump goes on with the frame in its hand, or stops.
LEMMA PumpMoves ==
  ASSUME IInv,
         wire' = wire, buf' = buf, sub' = sub, store' = store, att' = att, shell' = shell,
         coord' = coord, hole => hole',
         pump'.frame = pump.frame, pump'.at = pump.at,
         \/ pump'.pc = "ended"
         \/ InHand /\ pump'.pc \in {"applying", "committing"} /\
              (hole' \/ pump'.effect = (pump.frame > 1))
  PROVE  Stream'
<1>1. Base' = Base  BY DEF Base
<1>2. InHand' => InHand  BY DEF InHand
<1>3. Ordered' /\ Within'
  <2>1. Ordered'  BY <1>2 DEF IInv, Stream, Ordered, Behind
  <2>2. Within'  BY <1>2 DEF IInv, Stream, Within
  <2> QED  BY <2>1, <2>2
<1>4. Counted'
  BY <1>1 DEF IInv, Stream, Counted, Ingested, ResetPending
<1>5. Passed'  BY <1>1, <1>2 DEF IInv, Stream, Passed
<1>6. Whole'  BY <1>2 DEF IInv, Stream, Whole, Position, InHand
<1>7. StoredOnceInOrder' /\ NothingSkipped'
  BY DEF IInv, Stream, StoredOnceInOrder, NothingSkipped, IsTail
<1> QED  BY <1>3, <1>4, <1>5, <1>6, <1>7 DEF Stream

\* The frame in hand is applied, or the leg has ended or is stopping.
LEMMA BeginFrameKeeps ==
  ASSUME IInv, BeginFrame, coord.phase # "over"
  PROVE  IInv'
<1> USE DEF BeginFrame, helper, client
<1>1. CASE pump' = [pump EXCEPT !.pc = "ended"] /\ UNCHANGED <<leg, dom, hole>> /\ leg.end = "ended"
  <2>1. TypeOK'
    <3>1. pump' \in PumpT  BY <1>1, TypesAre DEF IInv, PumpT, Pumping
    <3> QED  BY <1>1, <3>1, TypesAre, TypesAreNext DEF IInv
  <2>2. Stream'  BY <1>1, PumpMoves DEF IInv, TypeOK
  <2>3. Control'
    BY <1>1 DEF IInv, TypeOK, Control, Between, OneOrTheOther, ReplayIn, HandedStill,
         SettledIsOver, AppliedIsStored, ReplayApplied, ReplayBeforeEnd, ReconciledIsStored, InHand,
         Applying
  <2> QED  BY <2>1, <2>2, <2>3 DEF IInv
<1>2. CASE Leave /\ UNCHANGED <<dom, hole>> /\ leg.end # "ended" /\ Stopping
  <2>1. TypeOK'
    <3>1. pump' \in PumpT  BY <1>2, TypesAre DEF IInv, PumpT, Pumping, Leave
    <3>2. leg' \in LegT  BY <1>2, TypesAre, EndedLeg DEF IInv, Leave, EndLeg
    <3> QED  BY <1>2, <3>1, <3>2, TypesAre, TypesAreNext DEF IInv
  <2>2. Stream'  BY <1>2, PumpMoves DEF IInv, TypeOK, Leave
  <2>3. Control'
    BY <1>2 DEF IInv, TypeOK, Control, Between, OneOrTheOther, ReplayIn, HandedStill,
         SettledIsOver, AppliedIsStored, ReplayApplied, ReplayBeforeEnd, ReconciledIsStored, InHand,
         Applying, Leave, EndLeg, Stopping
  <2> QED  BY <2>1, <2>2, <2>3 DEF IInv
<1>3. CASE Ingest /\ leg.end # "ended" /\ ~Stopping
  <2>1. TypeOK'
    <3>1. pump' \in PumpT  BY <1>3, TypesAre DEF IInv, PumpT, Pumping, Ingest
    <3>2. leg' \in LegT  BY <1>3, TypesAre DEF IInv, Ingest, LegT
    <3>3. dom' \in {"pending", "live", "quarantined", "closed", "lost"} /\ hole' \in BOOLEAN
      BY <1>3, TypesAre DEF IInv, Ingest
    <3> QED  BY <1>3, <3>1, <3>2, <3>3, TypesAre, TypesAreNext DEF IInv
  <2>2. Stream'
    <3>1. hole' \/ pump'.effect = (pump.frame > 1)
      <4>1. PICK effect \in BOOLEAN :
              /\ Takes(effect) /\ pump' = [pump EXCEPT !.pc = "applying", !.effect = effect]
              /\ hole' = (hole \/ (pump.frame > 1 /\ ~effect))
        BY <1>3 DEF Ingest
      <4>2. pump'.effect = effect  BY <4>1 DEF IInv, TypeOK
      <4>3. CASE effect
        BY <4>1, <4>2, <4>3 DEF Takes
      <4>4. CASE ~effect /\ pump.frame > 1
        BY <4>1, <4>4
      <4>5. CASE ~effect /\ ~(pump.frame > 1)
        BY <4>2, <4>5
      <4> QED  BY <4>3, <4>4, <4>5
    <3>2. InHand  BY DEF InHand
    <3>3. /\ pump'.frame = pump.frame /\ pump'.at = pump.at /\ pump'.pc = "applying"
          /\ hole => hole'
      BY <1>3 DEF IInv, TypeOK, Ingest
    <3> QED  BY <3>1, <3>2, <3>3, PumpMoves
  <2>3. Control'
    BY <1>3, ZenonT(60) DEF IInv, TypeOK, Control, Between, OneOrTheOther, ReplayIn, HandedStill,
         SettledIsOver, AppliedIsStored, ReplayApplied, ReplayBeforeEnd, ReconciledIsStored, InHand,
         Applying, Ingest, Stopping
  <2> QED  BY <2>1, <2>2, <2>3 DEF IInv
<1> QED  BY <1>1, <1>2, <1>3

\* The projection has run, or a stop abandons it.
LEMMA EndProjectionKeeps ==
  ASSUME IInv, EndProjection, coord.phase # "over"
  PROVE  IInv'
<1> USE DEF EndProjection, helper, client
<1>1. CASE Stopping
  <2>1. TypeOK'
    <3>1. pump' \in PumpT  BY <1>1, TypesAre DEF IInv, PumpT, Pumping, Leave
    <3>2. leg' \in LegT  BY <1>1, TypesAre, EndedLeg DEF IInv, Leave, EndLeg
    <3> QED  BY <1>1, <3>1, <3>2, TypesAre, TypesAreNext DEF IInv
  <2>2. Stream'  BY <1>1, PumpMoves DEF IInv, TypeOK, Leave
  <2>3. Control'
    <3>1. /\ pump'.pc = "ended" /\ leg.end # "losing"
          /\ IF leg.end = "ended" THEN leg' = leg
             ELSE leg'.end = "ended" /\ leg'.cause = "none" /\ leg'.bound = "done"
          /\ coord.phase \in {"stopping", "detaching", "handed"}
      BY <1>1 DEF IInv, TypeOK, Leave, EndLeg, Stopping
    <3>2. Between' /\ OneOrTheOther'
      BY <3>1 DEF IInv, Control, Between, OneOrTheOther
    <3>3. ReplayIn' /\ HandedStill' /\ SettledIsOver' /\ ReplayBeforeEnd'
      BY <3>1 DEF IInv, Control, ReplayIn, HandedStill, SettledIsOver, Applying, ReplayBeforeEnd
    <3>4. AppliedIsStored' /\ ReconciledIsStored'
      BY DEF IInv, Control, AppliedIsStored, ReplayApplied, ReconciledIsStored
    <3> QED  BY <3>2, <3>3, <3>4 DEF Control, ReplayApplied
  <2> QED  BY <2>1, <2>2, <2>3 DEF IInv
<1>2. CASE ~Stopping
  <2>1. TypeOK'
    <3>1. pump' \in PumpT  BY <1>2, TypesAre DEF IInv, PumpT, Pumping
    <3> QED  BY <1>2, <3>1, TypesAre, TypesAreNext DEF IInv
  <2>2. Stream'
    <3>1. InHand /\ (hole \/ pump.effect = (pump.frame > 1))
      BY DEF InHand, IInv, Stream, Whole
    <3>2. /\ pump'.frame = pump.frame /\ pump'.at = pump.at /\ pump'.effect = pump.effect
          /\ pump'.pc = "committing"
      BY <1>2 DEF IInv, TypeOK
    <3> QED  BY <3>1, <3>2, PumpMoves
  <2>3. Control'
    BY <1>2 DEF IInv, TypeOK, Control, Between, OneOrTheOther, ReplayIn, HandedStill,
         SettledIsOver, AppliedIsStored, ReplayApplied, ReplayBeforeEnd, ReconciledIsStored, InHand,
         Applying, Stopping
  <2> QED  BY <2>1, <2>2, <2>3 DEF IInv
<1> QED  BY <1>1, <1>2

\* A refused commit ends the leg and stores nothing.
LEMMA CommitFailsKeeps ==
  ASSUME IInv, CommitFails, coord.phase # "over"
  PROVE  IInv'
<1> USE DEF CommitFails, EndLeg, helper, client
<1>1. TypeOK'
  <2>1. pump' \in PumpT  BY TypesAre DEF IInv, PumpT, Pumping
  <2>2. leg' \in LegT  BY TypesAre, EndedLeg DEF IInv
  <2> QED  BY <2>1, <2>2, TypesAre, TypesAreNext DEF IInv
<1>2. Stream'  BY PumpMoves DEF IInv, TypeOK
<1>3. Control'
  BY DEF IInv, TypeOK, Control, Between, OneOrTheOther, ReplayIn, HandedStill,
         SettledIsOver, AppliedIsStored, ReplayApplied, ReplayBeforeEnd, ReconciledIsStored, InHand,
         Applying, Stopping
<1> QED  BY <1>1, <1>2, <1>3 DEF IInv

\* The pump ends with the leg.
LEMMA PumpEndsKeeps ==
  ASSUME IInv, PumpEnds, coord.phase # "over"
  PROVE  IInv'
<1> USE DEF PumpEnds, helper, client
<1>1. TypeOK'
  <2>1. pump' \in PumpT  BY TypesAre DEF IInv, PumpT, Pumping
  <2> QED  BY <2>1, TypesAre, TypesAreNext DEF IInv
<1>2. Stream'  BY PumpMoves DEF IInv, TypeOK
<1>3. Control'
  BY DEF IInv, TypeOK, Control, Between, OneOrTheOther, ReplayIn, HandedStill,
         SettledIsOver, AppliedIsStored, ReplayApplied, ReplayBeforeEnd, ReconciledIsStored, InHand,
         Applying
<1> QED  BY <1>1, <1>2, <1>3 DEF IInv

\* The helper serves the next item of the stream.
LEMMA Served ==
  ASSUME IInv, NEW item \in Item, wire' = Append(wire, item), sub'.sent = item.at,
         sub.on, item.at > sub.sent, item.at <= shell.said,
         \/ item.kind = "unit" /\ item.at = sub.sent + 1 /\ hole' = hole
         \/ item.kind = "reset" /\ item.at <= Base /\ hole',
         shell' = shell, buf' = buf, store' = store, pump' = pump, att' = att, coord' = coord
  PROVE  Stream'
<1>1. /\ wire \in Seq(Item) /\ Len(wire) \in Nat /\ DOMAIN wire = 1..Len(wire)
      /\ \A i \in 1..Len(wire) : wire[i].at \in Nat
      /\ sub.sent \in Nat /\ item.at \in Nat /\ shell.said \in Nat
  <2>1. item.at \in Nat  BY LegAssumption DEF Item, Unit, Units
  <2> QED  BY <2>1, Typed DEF IInv, TypeOK
<1>2. /\ Len(wire') = Len(wire) + 1 /\ DOMAIN wire' = 1..(Len(wire) + 1)
      /\ \A i \in 1..Len(wire) : wire'[i] = wire[i]
      /\ wire'[Len(wire) + 1] = item
  BY <1>1
<1>3. Base' = Base  BY DEF Base
<1>4. \A n \in Int : Behind(n) => Behind(n)'
  <2> SUFFICES ASSUME NEW n \in Int, Behind(n)  PROVE Behind(n)'
    OBVIOUS
  <2>1. n <= sub.sent /\ \A j \in 1..Len(wire) : n < wire[j].at  BY <1>1 DEF Behind
  <2>2. n <= sub'.sent /\ n < item.at  BY <1>1, <2>1
  <2>3. \A j \in 1..(Len(wire) + 1) : n < wire'[j].at  BY <1>1, <1>2, <2>1, <2>2
  <2> QED  BY <1>2, <2>2, <2>3 DEF Behind
<1>5. Ordered'
  <2>1. sub'.sent <= shell'.said  BY <1>1
  <2>2. \A i \in 1..Len(wire) : wire[i].at <= sub.sent  BY <1>1 DEF IInv, Stream, Ordered
  <2>3. \A i, j \in DOMAIN wire' : i < j => wire'[i].at < wire'[j].at
    BY <1>1, <1>2, <2>2 DEF IInv, Stream, Ordered
  <2>4. \A i \in DOMAIN wire' : wire'[i].at <= sub'.sent  BY <1>1, <1>2, <2>2
  <2>5. /\ Len(buf) \in Nat /\ DOMAIN buf = 1..Len(buf)
        /\ \A i \in 1..Len(buf) : buf[i].unit \in Nat
        /\ pump.frame \in Nat /\ Len(store.rows) \in Nat /\ DOMAIN store.rows = 1..Len(store.rows)
        /\ \A i \in 1..Len(store.rows) : store.rows[i] \in Nat
    BY Typed DEF IInv
  <2>6. \A i \in DOMAIN buf : buf[i].unit <= sub.sent  BY DEF IInv, Stream, Ordered
  <2>7. \A i \in DOMAIN buf : buf'[i].unit <= sub'.sent /\ buf[i].unit < item.at
    BY <1>1, <2>5, <2>6
  <2>8. \A i \in DOMAIN buf', j \in DOMAIN wire' : buf'[i].unit < wire'[j].at
    BY <1>1, <1>2, <2>7 DEF IInv, Stream, Ordered
  <2>9. InHand' => pump'.frame > 0 /\ Behind(2 * pump.frame)'
    BY <1>4, <2>5 DEF IInv, Stream, Ordered, InHand
  <2>10. sub.on => \A r \in DOMAIN store.rows : Behind(2 * store.rows[r])'
    BY <1>4, <2>5 DEF IInv, Stream, Ordered
  <2> QED  BY <2>1, <2>3, <2>4, <2>7, <2>8, <2>9, <2>10 DEF IInv, Stream, Ordered, InHand, Behind
<1>6. Within'  BY DEF IInv, Stream, Within, InHand
<1>7. Counted'
  <2>1. Ingested' = Ingested /\ Ingested \in Nat  BY Typed DEF IInv, Ingested
  <2>2. sub.sent = IF wire = <<>> THEN Ingested ELSE wire[Len(wire)].at
    BY DEF IInv, Stream, Counted
  <2>3. wire = <<>> <=> Len(wire) = 0  BY <1>1
  <2>4. \A i \in DOMAIN wire' : i > 1 /\ wire'[i].kind = "unit" => wire'[i].at = wire'[i - 1].at + 1
    BY <1>1, <1>2, <2>2, <2>3 DEF IInv, Stream, Counted
  <2>5. wire' # <<>> /\ ~ResetPending(wire)' => wire'[1].at = Ingested' + 1
    <3>1. ~ResetPending(wire)' => ~ResetPending(wire) /\ item.kind = "unit"
      BY <1>1, <1>2 DEF ResetPending, Item
    <3>2. CASE wire = <<>>
      BY <1>1, <1>2, <2>1, <2>2, <2>3, <3>1, <3>2
    <3>3. CASE wire # <<>>
      BY <1>1, <1>2, <2>1, <2>3, <3>1, <3>3 DEF IInv, Stream, Counted
    <3> QED  BY <3>2, <3>3
  <2>6. wire' # <<>> /\ sub'.sent = wire'[Len(wire')].at  BY <1>1, <1>2
  <2>7. \A i \in DOMAIN wire' : wire'[i].kind = "reset" => wire'[i].at <= Base'
    BY <1>1, <1>2, <1>3 DEF IInv, Stream, Counted
  <2>8. ResetPending(wire)' => hole'
    BY <1>1, <1>2 DEF IInv, Stream, Counted, ResetPending
  <2> QED  BY <2>4, <2>5, <2>6, <2>7, <2>8 DEF Counted
<1>8. Passed'  BY <1>3 DEF IInv, Stream, Passed, InHand
<1>9. Whole'  BY DEF IInv, Stream, Whole, Position, InHand
<1>10. StoredOnceInOrder' /\ NothingSkipped'
  BY DEF IInv, Stream, StoredOnceInOrder, NothingSkipped, IsTail
<1> QED  BY <1>5, <1>6, <1>7, <1>8, <1>9, <1>10 DEF Stream

\* The helper serves the next unit, or a reset to the window's base.
LEMMA ServeKeeps ==
  ASSUME IInv, Serve
  PROVE  IInv'
<1> USE DEF Serve, adapter
<1>1. /\ Base \in Nat /\ Base <= shell.said /\ sub.sent \in Nat /\ sub.sent <= shell.said
      /\ shell.said \in Nat /\ shell.said <= Units /\ Units \in Nat
  <2>1. Base \in Nat /\ Base <= shell.said  BY BaseIs DEF IInv
  <2>2. sub.sent \in Nat /\ shell.said \in Nat  BY Typed DEF IInv
  <2>3. sub.sent <= shell.said  BY DEF IInv, Stream, Ordered
  <2>4. Units \in Nat  BY LegAssumption DEF Units
  <2>5. shell.said <= Units  BY <2>4 DEF IInv, TypeOK
  <2> QED  BY <2>1, <2>2, <2>3, <2>4, <2>5
<1>2. PICK item \in Item :
        /\ wire' = Append(wire, item) /\ sub'.sent = item.at
        /\ item.at > sub.sent /\ item.at <= shell.said
        /\ \/ item.kind = "unit" /\ item.at = sub.sent + 1 /\ hole' = hole
           \/ item.kind = "reset" /\ item.at <= Base /\ hole'
  <2>1. CASE sub.sent < Base
    <3> PICK item : item = [kind |-> "reset", at |-> Base]
      OBVIOUS
    <3>1. item \in Item  BY <1>1, <2>1 DEF Item, Unit
    <3>2. /\ wire' = Append(wire, item) /\ sub'.sent = Base /\ hole'
      BY <1>1, <2>1, SMTT(30) DEF IInv, TypeOK
    <3>3. item.at = Base /\ item.kind = "reset"  OBVIOUS
    <3>4. sub'.sent = item.at /\ item.at > sub.sent /\ item.at <= shell.said /\ item.at <= Base
      BY <1>1, <2>1, <3>2, <3>3
    <3> HIDE DEF Serve
    <3> QED  BY <3>1, <3>2, <3>3, <3>4
  <2>2. CASE sub.sent >= Base
    <3> PICK item : item = [kind |-> "unit", at |-> sub.sent + 1]
      OBVIOUS
    <3>1. sub.sent < shell.said  BY <1>1, <2>2
    <3>2. item \in Item  BY <1>1, <3>1 DEF Item, Unit
    <3>3. /\ wire' = Append(wire, item) /\ sub'.sent = sub.sent + 1
          /\ hole' = hole
      BY <1>1, <2>2, SMTT(30) DEF IInv, TypeOK
    <3>4. item.at = sub.sent + 1 /\ item.kind = "unit"  OBVIOUS
    <3> QED  BY <1>1, <3>1, <3>2, <3>3, <3>4
  <2> QED  BY <1>1, <2>1, <2>2
<1>3. TypeOK'
  <2>1. wire' \in Seq(Item)  BY <1>2 DEF IInv, TypeOK
  <2>2. item.at \in 0..Units  BY <1>1, <1>2 DEF Item, Unit
  <2>3. sub' \in SubT
    <3>1. Base \in 0..Units /\ (sub.sent < shell.said => sub.sent + 1 \in 0..Units)
      BY <1>1
    <3> QED  BY <3>1, TypesAre DEF IInv, SubT
  <2>4. hole' \in BOOLEAN  BY DEF IInv, TypeOK
  <2> QED  BY <2>1, <2>3, <2>4, TypesAre, TypesAreNext DEF IInv
<1>4. Stream'
  <2> QED  BY <1>2, Served
<1>5. Control'
  <2>1. sub.on /\ sub'.on  BY DEF IInv, TypeOK
  <2>2. hole => hole'  BY <1>2
  <2> QED
    BY <2>1, <2>2 DEF IInv, TypeOK, Control, Between, OneOrTheOther, ReplayIn, HandedStill,
         SettledIsOver, AppliedIsStored, ReplayApplied, ReplayBeforeEnd, ReconciledIsStored, InHand,
         Applying
<1> QED  BY <1>3, <1>4, <1>5 DEF IInv

\* What the client reads is the wire's next item, and where it stands after it.
LEMMA ItemRead ==
  ASSUME IInv, NEW item \in Item, NEW offset \in Nat,
         wire # <<>>, item = wire[1], wire' = Tail(wire),
         coord.phase # "attached", sub.on,
         \/ item.kind = "reset" /\ offset = item.at
         \/ item.kind = "unit" /\ ResetPending(Tail(wire)) /\ offset = att.offset
         \/ item.kind = "unit" /\ ~ResetPending(Tail(wire)) /\ offset = att.offset + 1
  PROVE  /\ Len(wire') = Len(wire) - 1 /\ DOMAIN wire' = 1..(Len(wire) - 1)
         /\ \A i \in DOMAIN wire' : wire'[i] = wire[i + 1] /\ i + 1 \in DOMAIN wire
         /\ \A j \in DOMAIN wire' : item.at < wire'[j].at
         /\ item.at <= sub.sent /\ offset <= shell.said
         /\ ResetPending(wire') => ResetPending(wire)
         /\ ~ResetPending(wire') => offset = item.at
         /\ offset = item.at \/ item.at <= Base
         /\ ~hole => offset = att.offset + 1 /\ offset = item.at /\ item.kind = "unit"
<1>1. /\ Len(wire) \in Nat \ {0} /\ DOMAIN wire = 1..Len(wire) /\ wire \in Seq(Item)
      /\ \A i \in 1..Len(wire) : wire[i].at \in Nat
      /\ sub.sent \in Nat /\ shell.said \in Nat /\ att.offset \in Nat
  <2>1. wire \in Seq(Item)  BY DEF IInv, TypeOK
  <2>2. Len(wire) # 0  BY <2>1
  <2> QED  BY <2>1, <2>2, Typed DEF IInv
<1>2. /\ Len(wire') = Len(wire) - 1 /\ DOMAIN wire' = 1..(Len(wire) - 1)
      /\ \A i \in 1..(Len(wire) - 1) : wire'[i] = wire[i + 1] /\ i + 1 \in 1..Len(wire)
  BY <1>1
<1>3. \A j \in 1..(Len(wire) - 1) : item.at < wire'[j].at
  <2>1. \A i, j \in 1..Len(wire) : i < j => wire[i].at < wire[j].at
    BY <1>1 DEF IInv, Stream, Ordered
  <2>2. \A j \in 1..(Len(wire) - 1) : 1 < j + 1 /\ j + 1 \in 1..Len(wire)  BY <1>1
  <2> QED  BY <1>1, <1>2, <2>1, <2>2
<1>4. item.at <= sub.sent /\ item.at \in Nat  BY <1>1 DEF IInv, Stream, Ordered
<1>5. ResetPending(wire') => ResetPending(wire)  BY <1>1, <1>2 DEF ResetPending
<1>6. ~ResetPending(wire') => offset = item.at
  <2>1. SUFFICES ASSUME ~ResetPending(wire'), item.kind = "unit"  PROVE offset = item.at
    OBVIOUS
  <2>2. ~ResetPending(wire)
    <3>1. SUFFICES ASSUME NEW i \in 1..Len(wire), wire[i].kind = "reset"  PROVE FALSE
      BY <1>1 DEF ResetPending
    <3>2. i # 1  BY <2>1, <3>1
    <3>3. i - 1 \in 1..(Len(wire) - 1) /\ (i - 1) + 1 = i  BY <1>1, <3>2
    <3>4. wire'[i - 1] = wire[i]  BY <1>2, <3>3
    <3> QED  BY <1>2, <2>1, <3>1, <3>3, <3>4 DEF ResetPending
  <2>3. item.at = att.offset + 1  BY <2>2 DEF IInv, Stream, Counted, Ingested
  <2> QED  BY <2>1, <2>3
<1>7. offset = item.at \/ item.at <= Base
  <2>1. SUFFICES ASSUME ResetPending(wire')  PROVE item.at <= Base
    BY <1>6
  <2>2. PICK j \in 1..(Len(wire) - 1) : wire'[j].kind = "reset"  BY <1>2, <2>1 DEF ResetPending
  <2>3. wire'[j] = wire[j + 1] /\ j + 1 \in DOMAIN wire  BY <1>1, <1>2
  <2>4. wire'[j].at <= Base  BY <2>2, <2>3 DEF IInv, Stream, Counted
  <2>5. wire'[j].at \in Nat /\ Base \in Nat  BY <1>1, <2>3, BaseIs DEF IInv
  <2> QED  BY <1>3, <1>4, <2>4, <2>5
<1>8. ~hole => offset = att.offset + 1 /\ offset = item.at /\ item.kind = "unit"
  <2>1. SUFFICES ASSUME ~hole
                 PROVE  offset = att.offset + 1 /\ offset = item.at /\ item.kind = "unit"
    OBVIOUS
  <2>2. ~ResetPending(wire)  BY <2>1 DEF IInv, Stream, Counted
  <2> QED  BY <1>1, <1>5, <1>6, <2>2 DEF ResetPending, Item
<1>9. offset <= shell.said
  <2>1. sub.sent <= shell.said /\ att.offset <= shell.said
    BY DEF IInv, Stream, Ordered, Within
  <2> QED  BY <1>1, <1>4, <1>6, <2>1
<1> QED  BY <1>2, <1>3, <1>4, <1>5, <1>6, <1>7, <1>8, <1>9

\* The first of m + 1 items leaves the wire.
TakenOff(item, m) ==
  /\ Len(wire) = m + 1 /\ DOMAIN wire = 1..(m + 1) /\ wire # <<>> /\ wire[1] = item
  /\ Len(wire') = m /\ DOMAIN wire' = 1..m /\ (wire' = <<>> <=> m = 0)
  /\ \A i \in 1..m : wire'[i] = wire[i + 1] /\ i + 1 \in DOMAIN wire

\* It is relayed with its end, or thrown away.
PutBehind(item, offset) ==
  /\ Len(buf') = Len(buf) + 1 /\ DOMAIN buf' = 1..(Len(buf) + 1)
  /\ \A i \in 1..Len(buf) : buf'[i] = buf[i]
  /\ buf'[Len(buf) + 1].unit = item.at /\ buf'[Len(buf) + 1].end = offset

Relaying(item, offset) ==
  \/ buf' = buf /\ (item.kind = "reset" \/ pump.pc = "draining")
  \/ PutBehind(item, offset)

\* Either way what the decoder holds was there before or is the item.
LEMMA HeldOrPut ==
  ASSUME TypeOK, NEW item, NEW offset, Relaying(item, offset)
  PROVE  \A i \in DOMAIN buf' :
           \/ i \in DOMAIN buf /\ buf'[i] = buf[i]
           \/ /\ i = Len(buf) + 1
              /\ buf'[i].unit = item.at /\ buf'[i].end = offset
<1>1. Len(buf) \in Nat /\ DOMAIN buf = 1..Len(buf)  BY DEF TypeOK
<1>2. CASE buf' = buf  BY <1>2
<1>3. CASE PutBehind(item, offset)
  <2> SUFFICES ASSUME NEW i \in DOMAIN buf', ~(i \in DOMAIN buf /\ buf'[i] = buf[i])
               PROVE  i = Len(buf) + 1
    BY <1>3 DEF PutBehind
  <2>1. i \in 1..(Len(buf) + 1) /\ ~(i \in 1..Len(buf))  BY <1>1, <1>3 DEF PutBehind
  <2> QED  BY <1>1, <2>1
<1> QED  BY <1>2, <1>3 DEF Relaying

\* The wire without its first item still counts from where the client is.
\* The wire without its first item still counts from where the client is.
LEMMA TakenKeepsCount ==
  ASSUME IInv, NEW item, NEW m \in Nat, NEW offset \in Nat, TakenOff(item, m),
         coord.phase # "attached", sub.on,
         ResetPending(wire') => ResetPending(wire),
         ~ResetPending(wire') => offset = item.at,
         att'.offset = offset, shell' = shell, sub' = sub, coord' = coord, hole' = hole
  PROVE  Counted'
<1>1. Base' = Base  BY DEF Base
<1>2. Ingested' = offset  BY DEF Ingested
<1>3. \A i \in DOMAIN wire : i > 1 /\ wire[i].kind = "unit" => wire[i].at = wire[i - 1].at + 1
  BY DEF IInv, Stream, Counted
<1>4. \A i \in DOMAIN wire' :
        i > 1 /\ wire'[i].kind = "unit" => wire'[i].at = wire'[i - 1].at + 1
  <2> SUFFICES ASSUME NEW i \in DOMAIN wire', i > 1, wire'[i].kind = "unit"
               PROVE  wire'[i].at = wire'[i - 1].at + 1
    OBVIOUS
  <2>1. i \in 1..m /\ i - 1 \in 1..m /\ (i - 1) + 1 = i /\ i + 1 > 1 /\ (i + 1) - 1 = i
    BY DEF TakenOff
  <2>2. wire'[i] = wire[i + 1] /\ wire'[i - 1] = wire[i] /\ i + 1 \in DOMAIN wire
    BY <2>1 DEF TakenOff
  <2> QED  BY <1>3, <2>1, <2>2
<1>5. wire' # <<>> /\ ~ResetPending(wire)' => wire'[1].at = Ingested' + 1
  <2> SUFFICES ASSUME wire' # <<>>, ~ResetPending(wire')  PROVE wire'[1].at = offset + 1
    BY <1>2 DEF ResetPending
  <2>1. 1 \in 1..m /\ 1 \in DOMAIN wire'  BY DEF TakenOff
  <2>2. wire'[1] = wire[2] /\ 2 \in DOMAIN wire /\ wire[1] = item  BY <2>1 DEF TakenOff
  <2>3. wire[2].kind = "unit"
    <3>1. wire[2] \in Item  BY <2>2 DEF IInv, TypeOK
    <3>2. wire'[1].kind # "reset"  BY <2>1 DEF ResetPending
    <3> QED  BY <2>2, <3>1, <3>2 DEF Item
  <2>4. wire[2].at = wire[1].at + 1  BY <1>3, <2>2, <2>3
  <2> QED  BY <2>2, <2>4
<1>6. sub'.sent = IF wire' = <<>> THEN Ingested' ELSE wire'[Len(wire')].at
  <2>1. sub.sent = wire[m + 1].at  BY DEF IInv, Stream, Counted, TakenOff
  <2>2. CASE m = 0
    <3>1. wire' = <<>> /\ wire[1] = item  BY <2>2 DEF TakenOff
    <3>2. ~ResetPending(wire')  BY <2>2 DEF ResetPending, TakenOff
    <3> QED  BY <1>2, <2>1, <2>2, <3>1, <3>2
  <2>3. CASE m # 0
    <3>1. m \in 1..m  BY <2>3
    <3>2. wire' # <<>> /\ wire'[m] = wire[m + 1] /\ Len(wire') = m  BY <2>3, <3>1 DEF TakenOff
    <3> QED  BY <2>1, <3>2
  <2> QED  BY <2>2, <2>3
<1>7. \A i \in DOMAIN wire' : wire'[i].kind = "reset" => wire'[i].at <= Base'
  BY <1>1 DEF IInv, Stream, Counted, TakenOff
<1>8. ResetPending(wire)' => hole'
  BY DEF IInv, Stream, Counted, ResetPending
<1> QED  BY <1>4, <1>5, <1>6, <1>7, <1>8 DEF Counted

\* The bridge hands the adapter's decoder the next item, or throws it away: what is on
\* its way stays in order, and behind it what was stored.
LEMMA RelayKeepsOrder ==
  ASSUME IInv, NEW item, NEW offset, NEW m \in Nat, TakenOff(item, m), item.at \in Nat,
         Relaying(item, offset), sub.on, item.at <= sub.sent,
         shell' = shell, sub' = sub, store' = store, pump' = pump
  PROVE  Ordered'
<1>1. /\ sub.sent \in Nat /\ Len(buf) \in Nat /\ DOMAIN buf = 1..Len(buf)
      /\ Len(wire) \in Nat /\ DOMAIN wire = 1..Len(wire)
      /\ \A i \in 1..Len(wire) : wire[i].at \in Nat
      /\ \A i \in 1..Len(buf) : buf[i].unit \in Nat
      /\ pump.frame \in Nat /\ Len(store.rows) \in Nat
      /\ DOMAIN store.rows = 1..Len(store.rows)
      /\ \A i \in 1..Len(store.rows) : store.rows[i] \in Nat
  BY Typed DEF IInv
<1>2. TypeOK  BY DEF IInv
<1>3. \A j \in DOMAIN wire' : /\ j \in Nat /\ j + 1 \in DOMAIN wire
                               /\ wire'[j] = wire[j + 1]
  BY DEF TakenOff
<1>4. \A i, j \in DOMAIN wire : i < j => wire[i].at < wire[j].at
  BY DEF IInv, Stream, Ordered
<1>5. 1 \in DOMAIN wire /\ wire[1] = item  BY DEF TakenOff
<1>6. \A j \in DOMAIN wire' : item.at < wire'[j].at /\ wire'[j].at \in Nat
  <2> SUFFICES ASSUME NEW j \in DOMAIN wire'
               PROVE  item.at < wire'[j].at /\ wire'[j].at \in Nat
    OBVIOUS
  <2>1. j \in 1..m  BY DEF TakenOff
  <2>2. 1 < j + 1  BY <2>1
  <2> QED  BY <1>1, <1>3, <1>4, <1>5, <2>2
<1>7. \A i \in DOMAIN buf : buf[i].unit < item.at
  BY <1>5 DEF IInv, Stream, Ordered
<1>8. \A i \in DOMAIN buf' :
        \/ i \in DOMAIN buf /\ buf'[i] = buf[i]
        \/ i = Len(buf) + 1 /\ buf'[i].unit = item.at
  BY <1>2, HeldOrPut
<1>9. \A n \in Int : Behind(n) => Behind(n)'
  <2> SUFFICES ASSUME NEW n \in Int, Behind(n)  PROVE Behind(n)'
    OBVIOUS
  <2>1. /\ n <= sub.sent /\ \A i \in DOMAIN buf : n < buf[i].unit
        /\ n < item.at
    BY <1>5 DEF Behind
  <2>2. \A j \in DOMAIN wire' : n < wire'[j].at  BY <1>3 DEF Behind
  <2>3. \A i \in DOMAIN buf' : n < buf'[i].unit  BY <1>8, <2>1
  <2> QED  BY <2>1, <2>2, <2>3 DEF Behind
<1>10. \A i, j \in DOMAIN wire' : i < j => wire'[i].at < wire'[j].at
  <2> SUFFICES ASSUME NEW i \in DOMAIN wire', NEW j \in DOMAIN wire', i < j
               PROVE  wire'[i].at < wire'[j].at
    OBVIOUS
  <2>1. i + 1 < j + 1  BY <1>3
  <2> QED  BY <1>3, <1>4, <2>1
<1>11. \A i \in DOMAIN wire' : wire'[i].at <= sub'.sent
  BY <1>3 DEF IInv, Stream, Ordered
<1>12. \A i, j \in DOMAIN buf' : i < j => buf'[i].unit < buf'[j].unit
  <2> SUFFICES ASSUME NEW i \in DOMAIN buf', NEW j \in DOMAIN buf', i < j
               PROVE  buf'[i].unit < buf'[j].unit
    OBVIOUS
  <2>1. i \in DOMAIN buf /\ buf'[i] = buf[i]  BY <1>1, <1>8
  <2>2. CASE j \in DOMAIN buf /\ buf'[j] = buf[j]
    BY <2>1, <2>2 DEF IInv, Stream, Ordered
  <2>3. CASE buf'[j].unit = item.at  BY <1>7, <2>1, <2>3
  <2> QED  BY <1>8, <2>2, <2>3
<1>13. \A i \in DOMAIN buf' : buf'[i].unit <= sub'.sent
  BY <1>8 DEF IInv, Stream, Ordered
<1>14. \A i \in DOMAIN buf', j \in DOMAIN wire' : buf'[i].unit < wire'[j].at
  <2> SUFFICES ASSUME NEW i \in DOMAIN buf', NEW j \in DOMAIN wire'
               PROVE  buf'[i].unit < wire'[j].at
    OBVIOUS
  <2>1. CASE i \in DOMAIN buf /\ buf'[i] = buf[i]
    BY <1>3, <2>1 DEF IInv, Stream, Ordered
  <2>2. CASE buf'[i].unit = item.at  BY <1>6, <2>2
  <2> QED  BY <1>8, <2>1, <2>2
<1>15. InHand' => pump'.frame > 0 /\ Behind(2 * pump.frame)'
  BY <1>1, <1>9 DEF IInv, Stream, Ordered, InHand
<1>16. \A r \in DOMAIN store'.rows : Behind(2 * store.rows[r])'
  <2> SUFFICES ASSUME NEW r \in DOMAIN store.rows  PROVE Behind(2 * store.rows[r])'
    OBVIOUS
  <2>1. PICK n \in Int : n = 2 * store.rows[r]  BY <1>1
  <2>2. Behind(n)'  BY <1>9, <2>1 DEF IInv, Stream, Ordered
  <2> QED  BY <2>1, <2>2 DEF Behind
<1>17. InHand' => \A r \in DOMAIN store'.rows : store'.rows[r] < pump'.frame
  BY DEF IInv, Stream, Ordered, InHand
<1>18. sub'.sent <= shell'.said  BY DEF IInv, Stream, Ordered
<1> HIDE DEF Behind
<1> QED
  BY <1>10, <1>11, <1>12, <1>13, <1>14, <1>15, <1>16, <1>17, <1>18 DEF Ordered

\* Nor does it leave a gap, while there is no hole.
LEMMA RelayKeepsStream ==
  ASSUME IInv, NEW item, NEW offset \in Nat, NEW m \in Nat, TakenOff(item, m),
         Relaying(item, offset), item.at \in Nat,
         coord.phase # "attached", sub.on,
         item.at <= sub.sent, offset <= shell.said,
         ResetPending(wire') => ResetPending(wire),
         ~ResetPending(wire') => offset = item.at,
         offset = item.at \/ item.at <= Base,
         ~hole => offset = att.offset + 1 /\ offset = item.at /\ item.kind = "unit",
         att'.offset = offset,
         shell' = shell, sub' = sub, store' = store, pump' = pump, coord' = coord, hole' = hole
  PROVE  Stream'
<1>1. /\ att.offset \in Nat /\ Len(buf) \in Nat /\ DOMAIN buf = 1..Len(buf)
      /\ \A i \in 1..Len(buf) : buf[i].unit \in Nat /\ buf[i].end \in Nat
  BY Typed DEF IInv
<1>2. Base' = Base  BY DEF Base
<1>3. \A i \in DOMAIN buf' :
        \/ i \in DOMAIN buf /\ buf'[i] = buf[i]
        \/ /\ i = Len(buf) + 1
           /\ buf'[i].unit = item.at /\ buf'[i].end = offset
  <2>1. TypeOK  BY DEF IInv
  <2> QED  BY <2>1, HeldOrPut
<1>4. Ordered'  BY RelayKeepsOrder
<1>5. Counted'  BY TakenKeepsCount
<1>6. Within'
  <2>1. \A i \in DOMAIN buf' : buf'[i].end <= shell.said
    BY <1>3 DEF IInv, Stream, Within
  <2> QED  BY <2>1 DEF IInv, Stream, Within, InHand
<1>7. Passed'
  <2>1. \A i \in DOMAIN buf' : buf'[i].end = buf'[i].unit \/ buf'[i].unit <= Base
    BY <1>3 DEF IInv, Stream, Passed
  <2>2. InHand' => pump'.at = 2 * pump'.frame \/ 2 * pump'.frame <= Base'
    BY <1>2 DEF IInv, Stream, Passed, InHand
  <2>3. \A r \in DOMAIN store'.rows :
          2 * store'.rows[r] <= store'.cursor \/ 2 * store'.rows[r] <= Base'
    BY <1>2 DEF IInv, Stream, Passed
  <2> QED  BY <1>2, <2>1, <2>2, <2>3 DEF Passed
<1>8. Whole'
  <2> SUFFICES ASSUME ~hole  PROVE Whole'
    BY DEF Whole
  <2>1. /\ pump.pc # "draining"
        /\ pump.pc # "ended" =>
             /\ \A i \in DOMAIN buf : buf[i].unit = Position + i /\ buf[i].end = buf[i].unit
             /\ att.offset = Position + Len(buf)
        /\ Position' = Position /\ InHand' = InHand
    BY DEF IInv, Stream, Whole, Position, InHand
  <2>2. item.kind = "unit" /\ offset = item.at /\ offset = att.offset + 1
    OBVIOUS
  <2>3. Len(buf') = Len(buf) + 1
    BY <2>1, <2>2 DEF Relaying, PutBehind
  <2>4. Position \in Int  BY Typed DEF IInv, Position
  <2>5. ASSUME pump.pc # "ended"
        PROVE  /\ \A i \in DOMAIN buf' : buf'[i].unit = Position + i /\ buf'[i].end = buf'[i].unit
               /\ att'.offset = Position + Len(buf')
    <3>1. att.offset = Position + Len(buf)  BY <2>1, <2>5
    <3>2. item.at = Position + (Len(buf) + 1)  BY <1>1, <2>2, <2>4, <3>1
    <3>3. \A i \in DOMAIN buf : buf[i].unit = Position + i /\ buf[i].end = buf[i].unit
      BY <2>1, <2>5
    <3>4. \A i \in DOMAIN buf' : buf'[i].unit = Position + i /\ buf'[i].end = buf'[i].unit
      BY <1>3, <2>2, <3>2, <3>3
    <3> QED  BY <1>1, <2>2, <2>3, <3>2, <3>4
  <2> QED  BY <2>1, <2>5 DEF IInv, Stream, Whole, InHand
<1>9. StoredOnceInOrder' /\ NothingSkipped'
  BY DEF IInv, Stream, StoredOnceInOrder, NothingSkipped, IsTail
<1> QED  BY <1>4, <1>5, <1>6, <1>7, <1>8, <1>9 DEF Stream

\* An item goes from the wire to the decoder.
LEMMA RelayKeeps ==
  ASSUME IInv, Relay
  PROVE  IInv'
<1> PICK item : item = wire[1]  OBVIOUS
<1> PICK offset : offset = IF item.kind = "reset" THEN item.at
                   ELSE IF ResetPending(Tail(wire)) THEN att.offset ELSE att.offset + 1
  OBVIOUS
<1> PICK m : m = Len(wire) - 1  OBVIOUS
<1>1. /\ wire \in Seq(Item) /\ wire # <<>> /\ Len(wire) \in Nat \ {0} /\ item \in Item
      /\ m \in Nat /\ item.at \in Nat /\ item.at \in Unit
  <2>1. wire \in Seq(Item) /\ wire # <<>>  BY DEF IInv, TypeOK, Relay
  <2>2. Len(wire) \in Nat \ {0}  BY <2>1
  <2>3. item \in Item  BY <2>1, <2>2
  <2>4. item.at \in Unit  BY <2>3 DEF Item
  <2>5. item.at \in Nat  BY <2>4, LegAssumption DEF Unit, Units
  <2> QED  BY <2>1, <2>2, <2>3, <2>4, <2>5
<1>2. /\ coord.phase \in {"up", "stopping"} /\ ~eof /\ leg.end # "ended" /\ sub.on
      /\ UNCHANGED <<shell, sub, eof, pump, leg, dom, applied, coord, store, settled, hole>>
  BY DEF IInv, Control, Between, Relay, Running
<1>3. wire' = Tail(wire) /\ Head(wire) = item  BY <1>1 DEF Relay
<1>4. /\ att' = [att EXCEPT !.offset = offset]
      /\ buf' = IF item.kind = "reset" \/ pump.pc = "draining" THEN buf
                ELSE Append(buf, [unit |-> item.at, end |-> offset])
  BY <1>3 DEF Relay
<1>5. att'.offset = offset /\ att \in AttT /\ att.offset \in Nat
  BY <1>4, TypesAre, Typed DEF IInv, AttT
<1>6. offset \in Nat  BY <1>1, <1>5
<1>7. /\ Len(wire') = Len(wire) - 1 /\ DOMAIN wire' = 1..(Len(wire) - 1)
      /\ \A i \in DOMAIN wire' : wire'[i] = wire[i + 1] /\ i + 1 \in DOMAIN wire
      /\ item.at <= sub.sent /\ offset <= shell.said
      /\ ResetPending(wire') => ResetPending(wire)
      /\ ~ResetPending(wire') => offset = item.at
      /\ offset = item.at \/ item.at <= Base
      /\ ~hole => offset = att.offset + 1 /\ offset = item.at /\ item.kind = "unit"
  <2>1. \/ item.kind = "reset" /\ offset = item.at
        \/ item.kind = "unit" /\ ResetPending(Tail(wire)) /\ offset = att.offset
        \/ item.kind = "unit" /\ ~ResetPending(Tail(wire)) /\ offset = att.offset + 1
    BY <1>1 DEF Item
  <2> QED  BY <1>1, <1>2, <1>3, <1>6, <2>1, ItemRead
<1>8. TakenOff(item, m)
  <2>1. Len(wire) = m + 1 /\ Len(wire) - 1 = m  BY <1>1
  <2>2. wire' = <<>> <=> m = 0
    <3>1. wire' \in Seq(Item) /\ Len(wire') = m  BY <1>1, <1>3, <1>7
    <3>2. wire' = <<>> <=> Len(wire') = 0  BY <3>1
    <3> QED  BY <3>1, <3>2
  <2>3. DOMAIN wire = 1..(m + 1)  BY <1>1, <2>1
  <2> QED  BY <1>1, <1>7, <2>1, <2>2, <2>3 DEF TakenOff
<1>13. offset \in 0..Units
  <2>1. shell.said \in 0..Units  BY DEF IInv, TypeOK
  <2>2. Units \in Nat  BY LegAssumption DEF Units
  <2> QED  BY <1>6, <1>7, <2>1, <2>2
<1>9. /\ Relaying(item, offset) /\ buf' \in Seq(Relayed)
  <2>1. buf \in Seq(Relayed)  BY DEF IInv, TypeOK
  <2>2. CASE item.kind = "reset" \/ pump.pc = "draining"
    BY <1>4, <2>1, <2>2 DEF Relaying
  <2>3. CASE ~(item.kind = "reset" \/ pump.pc = "draining")
    <3> PICK r : r = [unit |-> item.at, end |-> offset]  OBVIOUS
    <3>2. r \in Relayed  BY <1>1, <1>13 DEF Relayed
    <3>3. buf' = Append(buf, r)  BY <1>4, <2>3
    <3>4. buf' \in Seq(Relayed)  BY <2>1, <3>2, <3>3
    <3>5. r.unit = item.at /\ r.end = offset  OBVIOUS
    <3>6. PutBehind(item, offset)  BY <2>1, <3>2, <3>3, <3>5 DEF PutBehind
    <3> QED  BY <3>4, <3>6 DEF Relaying
  <2> QED  BY <2>2, <2>3
<1>10. TypeOK'
  <2>2. att' \in AttT  BY <1>4, <1>5, <1>13 DEF AttT
  <2>3. wire' \in Seq(Item)  BY <1>1, <1>3
  <2> QED  BY <1>2, <1>9, <2>2, <2>3, TypesAre, TypesAreNext DEF IInv
<1>11. Stream'
  BY <1>1, <1>2, <1>5, <1>6, <1>7, <1>8, <1>9, RelayKeepsStream
<1>12. Control'
  <2>1. /\ att'.done = att.done /\ att'.offset = offset /\ att'.registered = att.registered
    BY <1>4, <1>5 DEF AttT
  <2>2. ~hole => offset > att.offset  BY <1>5, <1>7
  <2>3. Between' /\ OneOrTheOther'
    BY <1>2, <2>1 DEF IInv, Control, Between, OneOrTheOther
  <2>4. ReplayIn'
    <3> SUFFICES ASSUME ~hole, leg.cause # "StoreRefused", coord.starts > 0, coord.phase = "up"
                 PROVE  ReplayIn'
      BY <1>2 DEF ReplayIn
    <3>1. coord.head \in Nat  BY Typed DEF IInv
    <3>2. /\ leg.cause \in {"none", "EndOfStream"}
          /\ ~(leg.end # "open" \/ pump.pc = "ended" \/ leg.cause # "none")
          /\ att.done = "read" => att.offset >= coord.head
      BY <1>2 DEF IInv, Control, ReplayIn
    <3>3. att'.done = "read" => att'.offset >= coord.head
      BY <1>5, <1>6, <2>1, <2>2, <3>1, <3>2
    <3> QED  BY <1>2, <3>2, <3>3 DEF ReplayIn, InHand
  <2>5. HandedStill' /\ SettledIsOver' /\ AppliedIsStored'
    BY <1>2 DEF IInv, Control, HandedStill, SettledIsOver, AppliedIsStored, Applying
  <2>6. ReplayApplied'
    BY <1>2, <2>1 DEF IInv, Control, ReplayApplied, ReplayBeforeEnd, ReconciledIsStored
  <2> QED  BY <2>3, <2>4, <2>5, <2>6 DEF Control
<1> QED  BY <1>10, <1>11, <1>12 DEF IInv

\* What the decoder holds after the pump has taken k units of it.
Suffix(k) == \A i \in DOMAIN buf' : i \in Nat /\ i + k \in DOMAIN buf /\ buf'[i] = buf[i + k]

\* The rest of what the decoder holds is in order still.
LEMMA SuffixKeeps ==
  ASSUME IInv, NEW k \in Nat, Suffix(k),
         sub' = sub, wire' = wire, shell' = shell
  PROVE  /\ \A i, j \in DOMAIN buf' : i < j => buf'[i].unit < buf'[j].unit
         /\ \A i \in DOMAIN buf' : buf'[i].unit <= sub.sent
         /\ \A i \in DOMAIN buf', j \in DOMAIN wire : buf'[i].unit < wire[j].at
         /\ \A i \in DOMAIN buf' : buf'[i].end <= shell.said
         /\ \A i \in DOMAIN buf' : buf'[i].end = buf'[i].unit \/ buf'[i].unit <= Base'
         /\ \A n \in Int : Behind(n) => Behind(n)'
<1>1. Base' = Base  BY DEF Base
<1>2. \A i, j \in DOMAIN buf' : i < j => i + k < j + k  BY DEF Suffix
<1>3. \A i, j \in DOMAIN buf' : i < j => buf'[i].unit < buf'[j].unit
  BY <1>2 DEF Suffix, IInv, Stream, Ordered
<1>4. /\ \A i \in DOMAIN buf' : buf'[i].unit <= sub.sent
      /\ \A i \in DOMAIN buf', j \in DOMAIN wire : buf'[i].unit < wire[j].at
  BY DEF Suffix, IInv, Stream, Ordered
<1>5. \A i \in DOMAIN buf' : buf'[i].end <= shell.said
  BY DEF Suffix, IInv, Stream, Within
<1>6. \A i \in DOMAIN buf' : buf'[i].end = buf'[i].unit \/ buf'[i].unit <= Base'
  BY <1>1 DEF Suffix, IInv, Stream, Passed
<1>7. \A n \in Int : Behind(n) => Behind(n)'
  BY DEF Suffix, Behind
<1> QED  BY <1>3, <1>4, <1>5, <1>6, <1>7

\* A frame is read: it is the next one of the stream, and behind it what was stored.
LEMMA ReadFrameKeepsStream ==
  ASSUME IInv, NEW f \in Nat, NEW at, pump.pc = "reading", sub.on,
         1 \in DOMAIN buf, 2 \in DOMAIN buf,
         buf[1].unit + 1 = 2 * f, buf[2].unit = 2 * f, buf[2].end = at,
         pump'.pc = "taken", pump'.frame = f, pump'.at = at,
         Suffix(2), Len(buf') = Len(buf) - 2, 0 \notin DOMAIN buf',
         sub' = sub, wire' = wire, shell' = shell, store' = store, att' = att, coord' = coord,
         hole' = hole
  PROVE  Stream'
<1>1. /\ Len(buf) \in Nat /\ \A i \in DOMAIN buf : buf[i].unit \in Nat /\ buf[i].end \in Nat
      /\ \A r \in DOMAIN store.rows : store.rows[r] \in Nat
      /\ store.cursor \in Nat /\ att.offset \in Nat
      /\ \A j \in DOMAIN wire : wire[j].at \in Nat
  BY Typed DEF IInv
<1>2. Base' = Base  BY DEF Base
<1>3. /\ \A i, j \in DOMAIN buf' : i < j => buf'[i].unit < buf'[j].unit
      /\ \A i \in DOMAIN buf' : buf'[i].unit <= sub.sent
      /\ \A i \in DOMAIN buf', j \in DOMAIN wire : buf'[i].unit < wire[j].at
      /\ \A i \in DOMAIN buf' : buf'[i].end <= shell.said
      /\ \A i \in DOMAIN buf' : buf'[i].end = buf'[i].unit \/ buf'[i].unit <= Base'
      /\ \A n \in Int : Behind(n) => Behind(n)'
  BY SuffixKeeps
<1>4. 2 * f <= sub.sent /\ at <= shell.said /\ (at = 2 * f \/ 2 * f <= Base)
  BY DEF IInv, Stream, Ordered, Within, Passed
<1>5. Behind(2 * f)'
  <2>1. \A i \in DOMAIN buf' : 2 * f < buf'[i].unit
    <3> SUFFICES ASSUME NEW i \in DOMAIN buf'  PROVE 2 * f < buf'[i].unit
      OBVIOUS
    <3>1. /\ i \in Nat /\ i + 2 \in DOMAIN buf /\ buf'[i] = buf[i + 2]  BY DEF Suffix
    <3>2. i # 0  OBVIOUS
    <3>3. 2 < i + 2  BY <3>1, <3>2
    <3> QED  BY <3>1, <3>3 DEF IInv, Stream, Ordered
  <2>2. \A j \in DOMAIN wire : 2 * f < wire[j].at  BY DEF IInv, Stream, Ordered
  <2> QED  BY <1>4, <2>1, <2>2 DEF Behind
<1>6. \A r \in DOMAIN store.rows : store.rows[r] < f
  <2> SUFFICES ASSUME NEW r \in DOMAIN store.rows  PROVE store.rows[r] < f
    OBVIOUS
  <2>1. 2 * store.rows[r] < buf[1].unit  BY DEF IInv, Stream, Ordered, Behind
  <2> QED  BY <1>1, <2>1
<1>7. \A r \in DOMAIN store'.rows : Behind(2 * store.rows[r])'
  <2> SUFFICES ASSUME NEW r \in DOMAIN store.rows  PROVE Behind(2 * store.rows[r])'
    OBVIOUS
  <2>1. PICK n \in Int : n = 2 * store.rows[r]  BY <1>1
  <2>2. Behind(n)'  BY <1>3, <2>1 DEF IInv, Stream, Ordered
  <2> QED  BY <2>1, <2>2 DEF Behind
<1>8. Ordered'
  <2>1. f > 0  BY <1>1
  <2>2. Behind(2 * pump.frame)'  BY <1>5 DEF Behind
  <2>3. /\ sub.sent <= shell.said
        /\ \A i, j \in DOMAIN wire : i < j => wire[i].at < wire[j].at
        /\ \A i \in DOMAIN wire : wire[i].at <= sub.sent
    BY DEF IInv, Stream, Ordered
  <2> HIDE DEF Behind
  <2> QED  BY <1>3, <1>6, <1>7, <2>1, <2>2, <2>3 DEF Ordered
<1>9. Within'  BY <1>3, <1>4 DEF IInv, Stream, Within
<1>10. Counted'  BY <1>2 DEF IInv, Stream, Counted, Ingested, ResetPending
<1>11. Passed'  BY <1>2, <1>3, <1>4 DEF IInv, Stream, Passed
<1>12. Whole'
  <2> SUFFICES ASSUME ~hole  PROVE Whole'
    BY DEF Whole
  <2>1. /\ \A i \in DOMAIN buf : buf[i].unit = store.cursor + i /\ buf[i].end = buf[i].unit
        /\ att.offset = store.cursor + Len(buf)
        /\ coord.phase # "attached" => coord.from <= store.cursor
    BY DEF IInv, Stream, Whole, Position, InHand
  <2>2. at = 2 * f /\ store.cursor = 2 * f - 2  BY <1>1, <2>1
  <2>3. \A i \in DOMAIN buf' : buf'[i].unit = 2 * f + i /\ buf'[i].end = buf'[i].unit
    BY <1>1, <2>1, <2>2 DEF Suffix
  <2>4. att.offset = 2 * f + Len(buf')  BY <1>1, <2>1, <2>2
  <2>5. InHand' /\ Position' = 2 * f  BY DEF InHand, Position
  <2> QED  BY <2>1, <2>2, <2>3, <2>4, <2>5 DEF Whole
<1>13. StoredOnceInOrder' /\ NothingSkipped'
  BY DEF IInv, Stream, StoredOnceInOrder, NothingSkipped, IsTail
<1> QED  BY <1>8, <1>9, <1>10, <1>11, <1>12, <1>13 DEF Stream

\* The decoder answers a frame, which is now the pump's.
LEMMA ReadFrameKeeps ==
  ASSUME IInv, ReadFrame
  PROVE  IInv'
<1>1. /\ buf \in Seq(Relayed) /\ Len(buf) \in Nat /\ Len(buf) >= 2 /\ DOMAIN buf = 1..Len(buf)
      /\ 1 \in DOMAIN buf /\ 2 \in DOMAIN buf /\ buf # <<>>
      /\ buf[1] \in Relayed /\ buf[2] \in Relayed
  <2>1. buf \in Seq(Relayed) /\ Len(buf) >= 2  BY DEF IInv, TypeOK, ReadFrame, FrameReady
  <2> QED  BY <2>1
<1>2. /\ buf[1].unit \in Nat /\ ~IsTail(buf[1].unit) /\ buf[2].unit = buf[1].unit + 1
      /\ buf[2].unit \in Unit /\ buf[2].end \in 0..Units
  BY <1>1, Typed DEF IInv, ReadFrame, FrameReady, Relayed
<1>3. PICK f : f = (buf[1].unit + 1) \div 2  OBVIOUS
<1>4. f \in Nat /\ 2 * f = buf[1].unit + 1  BY <1>2, <1>3, Halves
<1>5. /\ pump.pc = "reading"
      /\ pump' = [pc |-> "taken", frame |-> f, at |-> buf[2].end, effect |-> FALSE]
      /\ buf' = SubSeq(buf, 3, Len(buf))
      /\ UNCHANGED <<shell, sub, wire, att, eof, leg, dom, applied, coord, store, settled, hole>>
  BY <1>3 DEF ReadFrame, FrameEnd, helper, client
<1>6. /\ buf' \in Seq(Relayed) /\ Len(buf') = Len(buf) - 2 /\ Suffix(2)
      /\ 0 \notin DOMAIN buf'
  <2>1. buf' \in Seq(Relayed)  BY <1>1, <1>5
  <2>2. Len(buf') = Len(buf) - 2  BY <1>1, <1>5
  <2>3. DOMAIN buf' = 1..(Len(buf) - 2)  BY <2>1, <2>2
  <2>4. \A i \in 1..(Len(buf) - 2) : buf'[i] = buf[i + 2]
    <3> SUFFICES ASSUME NEW i \in 1..(Len(buf) - 2)  PROVE buf'[i] = buf[i + 2]
      OBVIOUS
    <3>1. i \in 1..(Len(buf) - 3 + 1) /\ 3 + i - 1 = i + 2  BY <1>1
    <3> QED  BY <1>1, <1>5, <3>1
  <2>5. \A i \in 1..(Len(buf) - 2) : i \in Nat /\ i + 2 \in DOMAIN buf  BY <1>1
  <2> QED  BY <2>1, <2>2, <2>3, <2>4, <2>5 DEF Suffix
<1>7. /\ coord.phase \notin {"down", "listed", "asking", "attached"} /\ sub.on
  BY <1>1 DEF IInv, Control, Between
<1>8. TypeOK'
  <2>1. f \in 0..Frames  BY <1>2, <1>4, LegAssumption DEF Unit, Units
  <2>2. pump' \in PumpT  BY <1>2, <1>5, <2>1 DEF PumpT, Pumping
  <2> QED  BY <1>5, <1>6, <2>2, TypesAre, TypesAreNext DEF IInv
<1>9. Stream'
  <2>1. pump'.pc = "taken" /\ pump'.frame = f /\ pump'.at = buf[2].end  BY <1>5
  <2> QED  BY <1>1, <1>2, <1>4, <1>5, <1>6, <1>7, <2>1, ReadFrameKeepsStream
<1>10. Control'
  <2>1. pump'.pc = "taken"  BY <1>5
  <2>2. Between' /\ OneOrTheOther'
    BY <1>5, <1>7 DEF IInv, Control, Between, OneOrTheOther
  <2>3. ReplayIn'
    BY <1>1, <1>5, <2>1 DEF IInv, Control, ReplayIn
  <2>4. HandedStill' /\ SettledIsOver' /\ AppliedIsStored' /\ ReplayApplied'
    BY <1>5, <2>1 DEF IInv, Control, HandedStill, SettledIsOver, AppliedIsStored, Applying,
          ReplayApplied, ReplayBeforeEnd, ReconciledIsStored
  <2> QED  BY <2>2, <2>3, <2>4 DEF Control
<1> QED  BY <1>8, <1>9, <1>10 DEF IInv

\* Garbage is dropped: a range is given up, and what is left is in order.
LEMMA SkipGarbageKeeps ==
  ASSUME IInv, SkipGarbage
  PROVE  IInv'
<1>1. /\ buf \in Seq(Relayed) /\ buf # <<>>
      /\ pump.pc = "reading" /\ pump'.pc \in {"reading", "draining"} /\ hole' = TRUE
      /\ buf' = Tail(buf) \/ buf' = <<>>
      /\ pump' = pump \/ pump' = [pump EXCEPT !.pc = "draining"]
      /\ UNCHANGED <<shell, sub, wire, att, eof, leg, applied, coord, store, settled>>
  BY DEF IInv, TypeOK, SkipGarbage, GarbageReady, helper, client
<1>2. buf' \in Seq(Relayed) /\ Suffix(1)
  <2>1. buf' \in Seq(Relayed)
    <3>1. Tail(buf) \in Seq(Relayed) /\ <<>> \in Seq(Relayed)  BY <1>1
    <3> QED  BY <1>1, <3>1
  <2>2. CASE buf' = Tail(buf)
    <3>1. Len(buf) \in Nat /\ Len(buf) # 0 /\ DOMAIN buf = 1..Len(buf)  BY <1>1
    <3>2. DOMAIN buf' = 1..(Len(buf) - 1)  BY <1>1, <2>2, <3>1
    <3>3. \A i \in 1..(Len(buf) - 1) : buf'[i] = buf[i + 1]  BY <1>1, <2>2, <3>1
    <3>4. \A i \in 1..(Len(buf) - 1) : i \in Nat /\ i + 1 \in DOMAIN buf  BY <3>1
    <3> QED  BY <2>1, <3>2, <3>3, <3>4 DEF Suffix
  <2>3. CASE buf' = <<>>
    <3>1. DOMAIN buf' = {}  BY <2>3
    <3> QED  BY <2>1, <3>1 DEF Suffix
  <2> QED  BY <1>1, <2>1, <2>2, <2>3
<1>3. coord.phase \notin {"down", "listed", "asking", "attached"} /\ sub.on
  BY <1>1 DEF IInv, Control, Between
<1>4. TypeOK'
  <2>1. pump' \in PumpT  BY <1>1, TypesAre DEF IInv, PumpT, Pumping
  <2>2. dom' \in {"pending", "live", "quarantined", "closed", "lost"}
    BY DEF SkipGarbage, IInv, TypeOK
  <2> QED  BY <1>1, <1>2, <2>1, <2>2, TypesAre, TypesAreNext DEF IInv
<1>5. Stream'
  <2>1. Base' = Base  BY <1>1 DEF Base
  <2>2. /\ \A i, j \in DOMAIN buf' : i < j => buf'[i].unit < buf'[j].unit
        /\ \A i \in DOMAIN buf' : buf'[i].unit <= sub.sent
        /\ \A i \in DOMAIN buf', j \in DOMAIN wire : buf'[i].unit < wire[j].at
        /\ \A i \in DOMAIN buf' : buf'[i].end <= shell.said
        /\ \A i \in DOMAIN buf' : buf'[i].end = buf'[i].unit \/ buf'[i].unit <= Base'
        /\ \A n \in Int : Behind(n) => Behind(n)'
    BY <1>1, <1>2, SuffixKeeps
  <2>3. ~InHand'  BY <1>1 DEF InHand
  <2>4. \A r \in DOMAIN store'.rows : Behind(2 * store.rows[r])'
    <3> SUFFICES ASSUME NEW r \in DOMAIN store.rows  PROVE Behind(2 * store.rows[r])'
      BY <1>1
    <3>0. store.rows[r] \in Nat  BY Typed DEF IInv
    <3>1. PICK n \in Int : n = 2 * store.rows[r]  BY <3>0
    <3>2. Behind(n)'  BY <1>3, <2>2, <3>1 DEF IInv, Stream, Ordered
    <3> QED  BY <1>1, <3>1, <3>2 DEF Behind
  <2>5. /\ sub.sent <= shell.said
        /\ \A i, j \in DOMAIN wire : i < j => wire[i].at < wire[j].at
        /\ \A i \in DOMAIN wire : wire[i].at <= sub.sent
    BY DEF IInv, Stream, Ordered
  <2>6. Ordered'
    BY <1>1, <2>2, <2>3, <2>4, <2>5 DEF Ordered
  <2>7. Within'  BY <1>1, <2>2, <2>3 DEF IInv, Stream, Within
  <2>8. Counted'  BY <1>1, <2>1 DEF IInv, Stream, Counted, Ingested, ResetPending
  <2>9. Passed'  BY <1>1, <2>1, <2>2, <2>3 DEF IInv, Stream, Passed
  <2>10. Whole' /\ NothingSkipped'  BY <1>1 DEF Whole, NothingSkipped
  <2>11. StoredOnceInOrder'  BY <1>1 DEF IInv, Stream, StoredOnceInOrder
  <2> QED  BY <2>6, <2>7, <2>8, <2>9, <2>10, <2>11 DEF Stream
<1>6. Control'
  <2>1. Between' /\ OneOrTheOther'
    BY <1>1, <1>3 DEF IInv, Control, Between, OneOrTheOther
  <2>2. ReplayIn' /\ ReplayBeforeEnd'  BY <1>1 DEF ReplayIn, ReplayBeforeEnd
  <2>3. HandedStill' /\ SettledIsOver' /\ AppliedIsStored' /\ ReconciledIsStored'
    BY <1>1 DEF IInv, Control, HandedStill, SettledIsOver, AppliedIsStored, Applying,
          ReplayApplied, ReconciledIsStored
  <2> QED  BY <2>1, <2>2, <2>3 DEF Control, ReplayApplied
<1> QED  BY <1>4, <1>5, <1>6 DEF IInv

\* A cursor behind at least one frame.
LEMMA MaxBelow ==
  ASSUME NEW g \in Nat, g > 0
  PROVE  Max({0, g - 1}) = g - 1
BY MaxOf

\* The frame's commit: the cursor and the frame's row at once, in the stream's order.
LEMMA CommitKeepsStream ==
  ASSUME IInv, pump.pc = "committing", sub.on, coord.phase # "attached", NEW n \in Nat,
         store'.cursor = (IF store.cursor >= pump.at THEN store.cursor ELSE pump.at),
         Len(store'.rows) = n, DOMAIN store'.rows = 1..n,
         \/ ~pump.effect /\ store'.rows = store.rows
         \/ /\ pump.effect /\ n = Len(store.rows) + 1
            /\ \A r \in 1..Len(store.rows) : store'.rows[r] = store.rows[r]
            /\ store'.rows[n] = pump.frame,
         store'.rows \in Seq(1..Frames), pump'.pc = "reading", pump.effect \in BOOLEAN,
         UNCHANGED <<shell, sub, wire, att, buf, coord, hole>>
  PROVE  Stream'
<1>1. /\ Len(store.rows) \in Nat /\ DOMAIN store.rows = 1..Len(store.rows)
      /\ \A r \in 1..Len(store.rows) : store.rows[r] \in Nat
      /\ store.cursor \in Nat /\ att.offset \in Nat /\ shell.said \in Nat
      /\ pump.frame \in Nat /\ pump.at \in Nat /\ coord.from \in Nat
  BY Typed DEF IInv
<1>2. Base' = Base /\ Base \in Nat  BY BaseIs DEF IInv, Base
<1>3. InHand /\ ~InHand'  BY DEF InHand
<1>4. \A r \in DOMAIN store'.rows :
        \/ r \in DOMAIN store.rows /\ store'.rows[r] = store.rows[r]
        \/ r = n /\ store'.rows[r] = pump.frame
  <2>1. CASE store'.rows = store.rows  BY <2>1
  <2>2. CASE /\ n = Len(store.rows) + 1
             /\ \A r \in 1..Len(store.rows) : store'.rows[r] = store.rows[r]
             /\ store'.rows[n] = pump.frame
    <3> SUFFICES ASSUME NEW r \in DOMAIN store'.rows,
                        ~(r \in DOMAIN store.rows /\ store'.rows[r] = store.rows[r])
                 PROVE  r = n
      BY <2>2
    <3>1. r \in 1..(Len(store.rows) + 1) /\ r \notin 1..Len(store.rows)  BY <1>1, <2>2
    <3> QED  BY <1>1, <2>2, <3>1
  <2> QED  BY <2>1, <2>2
<1>5. pump.effect => n = Len(store.rows) + 1  OBVIOUS
<1>6. Ordered'
  <2>1. \A r \in DOMAIN store'.rows : Behind(2 * store'.rows[r])
    <3>1. Behind(2 * pump.frame)  BY <1>3 DEF IInv, Stream, Ordered
    <3>2. \A r \in DOMAIN store.rows : Behind(2 * store.rows[r])  BY DEF IInv, Stream, Ordered
    <3> QED  BY <1>4, <3>1, <3>2
  <2>2. \A r \in DOMAIN store'.rows : Behind(2 * store.rows[r])'  BY <2>1 DEF Behind
  <2>3. /\ sub'.sent <= shell'.said
        /\ \A i, j \in DOMAIN wire' : i < j => wire'[i].at < wire'[j].at
        /\ \A i \in DOMAIN wire' : wire'[i].at <= sub'.sent
        /\ \A i, j \in DOMAIN buf' : i < j => buf'[i].unit < buf'[j].unit
        /\ \A i \in DOMAIN buf' : buf'[i].unit <= sub'.sent
        /\ \A i \in DOMAIN buf', j \in DOMAIN wire' : buf'[i].unit < wire'[j].at
    BY DEF IInv, Stream, Ordered
  <2> HIDE DEF Behind
  <2> QED  BY <1>3, <2>2, <2>3 DEF Ordered
<1>7. Within'
  <2>1. store.cursor <= shell.said /\ pump.at <= shell.said  BY <1>3 DEF IInv, Stream, Within
  <2> QED  BY <1>1, <1>3, <2>1 DEF IInv, Stream, Within
<1>8. Counted'  BY <1>2 DEF IInv, Stream, Counted, Ingested, ResetPending
<1>9. Passed'
  <2> SUFFICES ASSUME NEW r \in DOMAIN store'.rows
               PROVE  2 * store'.rows[r] <= store'.cursor \/ 2 * store'.rows[r] <= Base
    BY <1>2, <1>3 DEF IInv, Stream, Passed
  <2>1. CASE r \in DOMAIN store.rows /\ store'.rows[r] = store.rows[r]
    <3>1. 2 * store.rows[r] <= store.cursor \/ 2 * store.rows[r] <= Base
      BY <2>1 DEF IInv, Stream, Passed
    <3>2. store.rows[r] \in Nat  BY <1>1, <2>1
    <3> QED  BY <1>1, <1>2, <2>1, <3>1, <3>2, SMTT(30)
  <2>2. CASE store'.rows[r] = pump.frame
    <3>1. pump.at = 2 * pump.frame \/ 2 * pump.frame <= Base
      BY <1>3 DEF IInv, Stream, Passed
    <3> QED  BY <1>1, <1>2, <2>2, <3>1
  <2> QED  BY <1>4, <2>1, <2>2
<1>10. ~hole => /\ pump.at = 2 * pump.frame /\ store.cursor = 2 * pump.frame - 2
                /\ store'.cursor = 2 * pump.frame /\ pump.effect = (pump.frame > 1)
  <2>1. ~hole => /\ pump.at = 2 * pump.frame /\ store.cursor = 2 * pump.frame - 2
                 /\ pump.effect = (pump.frame > 1)
    BY <1>3 DEF IInv, Stream, Whole
  <2> QED  BY <1>1, <2>1
<1>11. Whole'
  <2> SUFFICES ASSUME ~hole  PROVE Whole'
    BY DEF Whole
  <2>1. /\ \A i \in DOMAIN buf : buf[i].unit = 2 * pump.frame + i /\ buf[i].end = buf[i].unit
        /\ att.offset = 2 * pump.frame + Len(buf)
        /\ coord.from <= store.cursor
    BY <1>3 DEF IInv, Stream, Whole, Position
  <2>2. Position' = 2 * pump.frame  BY <1>3, <1>10 DEF Position
  <2>3. coord.from <= store'.cursor  BY <1>1, <1>10, <2>1
  <2> QED  BY <1>3, <2>1, <2>2, <2>3 DEF Whole
<1>12. StoredOnceInOrder'
  <2> SUFFICES ASSUME NEW i \in DOMAIN store'.rows, NEW j \in DOMAIN store'.rows, i < j
               PROVE  store'.rows[i] < store'.rows[j]
    BY DEF StoredOnceInOrder
  <2>1. i \in 1..n /\ j \in 1..n  OBVIOUS
  <2>2. i # n  BY <2>1
  <2>3. i \in DOMAIN store.rows /\ store'.rows[i] = store.rows[i]  BY <1>4, <2>2
  <2>4. CASE j \in DOMAIN store.rows /\ store'.rows[j] = store.rows[j]
    BY <2>3, <2>4 DEF IInv, Stream, StoredOnceInOrder
  <2>5. CASE store'.rows[j] = pump.frame
    BY <1>3, <2>3, <2>5 DEF IInv, Stream, Ordered
  <2> QED  BY <1>4, <2>4, <2>5
<1>13. NothingSkipped'
  <2> SUFFICES ASSUME ~hole
               PROVE  /\ ~IsTail(store'.cursor + 1)
                      /\ store'.rows = [i \in 1..Max({0, store'.cursor \div 2 - 1}) |-> i + 1]
    BY DEF NothingSkipped, IsTail
  <2> PICK f : f = pump.frame  OBVIOUS
  <2>1. f \in Nat /\ f > 0 /\ store.cursor = 2 * f - 2 /\ store'.cursor = 2 * f
    BY <1>1, <1>3, <1>10 DEF IInv, Stream, Ordered
  <2>2. ~IsTail(2 * f + 1) /\ (2 * f) \div 2 = f /\ (2 * f - 2) \div 2 = f - 1
    <3>1. f - 1 \in Nat /\ 2 * f - 2 = 2 * (f - 1)  BY <2>1
    <3> QED  BY <2>1, <3>1, EvenAfterOdd
  <2>3. /\ ~IsTail(store'.cursor + 1)
        /\ Max({0, store'.cursor \div 2 - 1}) = f - 1
    <3>1. Max({0, f - 1}) = f - 1  BY <2>1, MaxBelow
    <3>2. store'.cursor \div 2 = f  BY <2>1, <2>2
    <3> QED  BY <2>1, <2>2, <3>1, <3>2
  <2>4. store.rows = [i \in 1..Max({0, (f - 1) - 1}) |-> i + 1]
    BY <2>1, <2>2 DEF IInv, Stream, NothingSkipped
  <2>5. CASE f = 1
    <3>1. store'.rows = store.rows  BY <1>10, <2>5
    <3>2. Max({0, (f - 1) - 1}) = 0  BY <2>5, MaxOf
    <3>3. store.rows = [i \in 1..(f - 1) |-> i + 1]  BY <2>4, <2>5, <3>2
    <3> QED  BY <2>3, <3>1, <3>3
  <2>6. CASE f # 1
    <3>1. f > 1 /\ f - 2 \in Nat  BY <2>1, <2>6
    <3>2. Max({0, (f - 1) - 1}) = f - 2
      <4>1. f - 1 \in Nat /\ f - 1 > 0 /\ (f - 1) - 1 = f - 2  BY <2>1, <3>1
      <4>2. Max({0, (f - 1) - 1}) = (f - 1) - 1  BY <4>1, MaxBelow
      <4> QED  BY <4>1, <4>2
    <3>3. store.rows = [i \in 1..(f - 2) |-> i + 1]  BY <2>4, <3>2
    <3>4. Len(store.rows) = f - 2
      <4>1. DOMAIN store.rows = 1..(f - 2)  BY <3>3
      <4>2. store.rows \in Seq(1..Frames)  BY DEF IInv, TypeOK
      <4> QED  BY <3>1, <4>1, <4>2
    <3>5. pump.effect /\ n = f - 1
      BY <1>1, <1>10, <2>1, <3>1, <3>4
    <3>6. \A r \in 1..(f - 1) : store'.rows[r] = r + 1
      <4> SUFFICES ASSUME NEW r \in 1..(f - 1)  PROVE store'.rows[r] = r + 1
        OBVIOUS
      <4>1. CASE r = f - 1  BY <2>1, <3>5, <4>1
      <4>2. CASE r # f - 1
        <5>1. r \in 1..(f - 2)  BY <2>1, <4>2
        <5>2. store.rows[r] = r + 1  BY <3>3, <5>1
        <5> QED  BY <3>4, <3>5, <5>1, <5>2
      <4> QED  BY <4>1, <4>2
    <3>7. store'.rows = [i \in 1..(f - 1) |-> i + 1]
      <4>1. store'.rows = [r \in 1..n |-> store'.rows[r]]  OBVIOUS
      <4> QED  BY <3>5, <3>6, <4>1
    <3> QED  BY <2>3, <3>7
  <2> QED  BY <2>5, <2>6
<1> QED  BY <1>6, <1>7, <1>8, <1>9, <1>11, <1>12, <1>13 DEF Stream

\* A frame commits: everything behind the cursor is stored.
LEMMA CommitKeeps ==
  ASSUME IInv, Commit
  PROVE  IInv'
<1> PICK e : e = pump.effect  OBVIOUS
<1> PICK f : f = pump.frame  OBVIOUS
<1> PICK at : at = pump.at  OBVIOUS
<1> PICK rows : rows = store.rows  OBVIOUS
<1>1. /\ pump.pc = "committing" /\ e \in BOOLEAN /\ f \in 0..Frames /\ at \in 0..Units
      /\ store.cursor \in 0..Units /\ rows \in Seq(1..Frames) /\ applied \in 0..Units
  BY DEF IInv, TypeOK, Commit
<1>2. /\ store' = [cursor |-> Max({store.cursor, at}), rows |-> IF e THEN Append(rows, f) ELSE rows]
      /\ applied' = Max({applied, at})
      /\ pump' = Fetching
      /\ UNCHANGED <<shell, sub, wire, att, buf, eof, leg, dom, coord, settled, hole>>
  BY DEF Commit, helper, client
<1>3. Units \in Nat /\ Frames \in Nat  BY LegAssumption DEF Units
<1>4. Max({store.cursor, at}) = (IF store.cursor >= at THEN store.cursor ELSE at)
  BY <1>1, <1>3, MaxOf, SMTT(30)
<1>5. Max({applied, at}) = (IF applied >= at THEN applied ELSE at)
  BY <1>1, <1>3, MaxOf, SMTT(30)
<1>6. /\ sub.on /\ coord.phase \notin {"down", "listed", "asking", "attached", "handed"}
  BY <1>1 DEF IInv, Control, Between, HandedStill, Applying
<1>7. f \in 1..Frames
  <2>1. f > 0  BY <1>1 DEF IInv, Stream, Ordered, InHand
  <2> QED  BY <1>1, <1>3, <2>1
<1>8. PICK q : q = IF e THEN Append(rows, f) ELSE rows  OBVIOUS
<1>9. /\ q \in Seq(1..Frames) /\ store'.rows = q /\ Len(q) \in Nat /\ DOMAIN q = 1..Len(q)
      /\ store'.cursor = (IF store.cursor >= at THEN store.cursor ELSE at)
  <2>1. Append(rows, f) \in Seq(1..Frames)  BY <1>1, <1>7
  <2>2. q \in Seq(1..Frames)  BY <1>1, <1>8, <2>1
  <2> QED  BY <1>2, <1>4, <1>8, <2>2
<1>10. \/ ~e /\ q = rows
       \/ /\ e /\ Len(q) = Len(rows) + 1
          /\ \A r \in 1..Len(rows) : q[r] = rows[r]
          /\ q[Len(q)] = f
  <2>1. CASE e
    <3>1. q = Append(rows, f)  BY <1>8, <2>1
    <3>2. Len(q) = Len(rows) + 1 /\ q[Len(rows) + 1] = f  BY <1>1, <1>7, <3>1
    <3>3. \A r \in 1..Len(rows) : q[r] = rows[r]  BY <1>1, <1>7, <3>1
    <3> QED  BY <2>1, <3>2, <3>3
  <2>2. CASE ~e  BY <1>8, <2>2
  <2> QED  BY <2>1, <2>2
<1>11. TypeOK'
  <2>1. store'.cursor \in 0..Units /\ applied' \in 0..Units  BY <1>1, <1>2, <1>5, <1>9
  <2>2. store' \in StoreT  BY <1>2, <1>9, <1>8, <2>1 DEF StoreT
  <2>3. pump' \in PumpT  BY <1>2, <1>3 DEF PumpT, Fetching, Pumping
  <2> QED  BY <1>2, <2>1, <2>2, <2>3, TypesAre, TypesAreNext DEF IInv
<1>12. pump'.pc = "reading"  BY <1>2 DEF Fetching
<1>13. Stream'
  BY <1>1, <1>2, <1>6, <1>9, <1>10, <1>12, CommitKeepsStream, ZenonT(60)
<1>14. store'.cursor >= store.cursor /\ store'.cursor >= at
  BY <1>1, <1>3, <1>9
<1>15. Control'
  <2>1. Between' /\ OneOrTheOther'
    BY <1>2, <1>6 DEF IInv, Control, Between, OneOrTheOther
  <2>2. ReplayIn'
    BY <1>1, <1>2, <1>12 DEF IInv, Control, ReplayIn, InHand
  <2>3. HandedStill' /\ SettledIsOver'
    BY <1>2, <1>12 DEF IInv, Control, HandedStill, SettledIsOver, Applying
  <2>4. AppliedIsStored'
    <3>1. applied <= store.cursor \/ applied <= coord.from
      BY DEF IInv, Control, AppliedIsStored
    <3>2. applied \in Nat /\ store.cursor \in Nat /\ coord.from \in Nat /\ at \in Nat
          /\ store'.cursor \in Nat
      BY <1>1, <1>3, <1>9, Typed DEF IInv
    <3>3. applied' = applied \/ applied' = at  BY <1>2, <1>5
    <3>4. applied' <= store'.cursor \/ applied' <= coord.from
      BY <1>14, <3>1, <3>2, <3>3
    <3> QED  BY <1>2, <3>4 DEF AppliedIsStored
  <2>5. ReplayApplied'
    <3>1. store.cursor \in Nat /\ store'.cursor \in Nat /\ coord.head \in Nat
          /\ 2 * (coord.head \div 2) \in Nat
      BY <1>1, <1>3, <1>9, Typed, SMTT(30) DEF IInv
    <3>2. \A k \in Nat : store.cursor >= k => store'.cursor >= k  BY <1>14, <3>1
    <3> QED
      BY <1>2, <3>1, <3>2 DEF IInv, Control, ReplayApplied, ReplayBeforeEnd, ReconciledIsStored
  <2> QED  BY <2>1, <2>2, <2>3, <2>4, <2>5 DEF Control
<1> QED  BY <1>11, <1>13, <1>15 DEF IInv

\* The process is gone: nothing is on its way any more, and nothing stored is lost.
LEMMA DownKeeps ==
  ASSUME IInv, Down
  PROVE  IInv'
<1>1. /\ sub' = [on |-> FALSE, sent |-> 0] /\ wire' = <<>>
      /\ att' = [registered |-> FALSE, offset |-> 0, done |-> "no", carried |-> FALSE]
      /\ buf' = <<>> /\ eof' = FALSE
      /\ pump' = [Fetching EXCEPT !.pc = "ended"]
      /\ leg' = [end |-> "ended", cause |-> "none", bound |-> "done", asked |-> FALSE]
      /\ dom' = "lost" /\ applied' = 0
      /\ UNCHANGED <<shell, store, settled, hole>>
      /\ coord.phase # "over"
  BY DEF Down
<1>2. /\ coord' \in CoordT /\ coord'.phase = "down" /\ coord'.head = 0 /\ coord'.from = 0
      /\ coord'.reconciled = FALSE /\ coord'.starts = coord.starts
  <2>1. coord \in CoordT  BY TypesAre DEF IInv
  <2>2. 0 \in 0..Units  BY LegAssumption DEF Units
  <2> QED  BY <2>1, <2>2 DEF Down, CoordT, Phase
<1>3. TypeOK'
  <2>1. 0 \in 0..Units /\ 0 \in 0..Frames  BY LegAssumption DEF Units
  <2>2. sub' \in SubT /\ att' \in AttT /\ leg' \in LegT  BY <1>1, <2>1 DEF SubT, AttT, LegT
  <2>3. pump' \in PumpT  BY <1>1, <2>1 DEF PumpT, Fetching, Pumping
  <2>4. wire' \in Seq(Item) /\ buf' \in Seq(Relayed)  BY <1>1
  <2> QED  BY <1>1, <1>2, <2>1, <2>2, <2>3, <2>4, TypesAre, TypesAreNext DEF IInv
<1>4. Stream'
  <2>1. Base' = Base  BY <1>1 DEF Base
  <2>2. shell.said \in Nat /\ store.cursor \in Nat  BY Typed DEF IInv
  <2>3. DOMAIN wire' = {} /\ DOMAIN buf' = {}  BY <1>1
  <2>4. pump'.pc = "ended" /\ ~InHand'  BY <1>1 DEF Fetching, InHand
  <2>5. sub'.on = FALSE /\ sub'.sent = 0 /\ att'.offset = 0  BY <1>1
  <2>6. Ordered'  BY <1>1, <2>2, <2>3, <2>4, <2>5 DEF Ordered
  <2>7. Within'  BY <1>1, <1>2, <2>2, <2>3, <2>4, <2>5 DEF IInv, Stream, Within
  <2>8. Counted'  BY <1>1, <2>3, <2>5 DEF Counted, ResetPending
  <2>9. Passed'  BY <1>1, <2>1, <2>3, <2>4 DEF IInv, Stream, Passed
  <2>10. Whole'  BY <1>2, <1>1, <2>2, <2>4 DEF Whole
  <2>11. StoredOnceInOrder' /\ NothingSkipped'
    BY <1>1 DEF IInv, Stream, StoredOnceInOrder, NothingSkipped, IsTail
  <2> QED  BY <2>6, <2>7, <2>8, <2>9, <2>10, <2>11 DEF Stream
<1>5. Control'
  <2>1. pump'.pc = "ended"  BY <1>1 DEF Fetching
  <2>2. Between'  BY <1>1, <1>2, <2>1 DEF Between
  <2>3. OneOrTheOther' /\ ReplayIn' /\ HandedStill'
    BY <1>1, <1>2, <2>1 DEF OneOrTheOther, ReplayIn, HandedStill
  <2>4. ~settled  BY <1>1 DEF IInv, Control, SettledIsOver
  <2>5. SettledIsOver' /\ ReplayApplied'
    BY <1>1, <1>2, <2>4 DEF SettledIsOver, ReplayApplied, ReplayBeforeEnd, ReconciledIsStored
  <2>6. AppliedIsStored'  BY <1>1, Typed DEF IInv, AppliedIsStored
  <2> QED  BY <2>2, <2>3, <2>5, <2>6 DEF Control
<1> QED  BY <1>3, <1>4, <1>5 DEF IInv

\* The next coordinator resumes at the stored cursor.
LEMMA AdoptKeeps ==
  ASSUME IInv, Adopt
  PROVE  IInv'
<1>1. /\ att' = [registered |-> TRUE, offset |-> store.cursor, done |-> "no", carried |-> FALSE]
      /\ pump' = Fetching /\ leg' = [leg EXCEPT !.end = "open"] /\ dom' = "live"
      /\ UNCHANGED <<shell, sub, wire, buf, eof, applied, store, settled, hole>>
      /\ coord.phase = "listed" /\ coord' = [coord EXCEPT !.phase = "asking"]
  BY DEF Adopt, helper, ResumePoint
<1>2. /\ coord' \in CoordT /\ coord'.phase = "asking" /\ coord'.head = coord.head
      /\ coord'.from = coord.from /\ coord'.reconciled = coord.reconciled
      /\ coord'.starts = coord.starts
  <2>1. coord \in CoordT  BY TypesAre DEF IInv
  <2> QED  BY <1>1, <2>1 DEF CoordT, Phase
<1>3. /\ leg' \in LegT /\ leg'.end = "open" /\ leg'.cause = leg.cause /\ leg'.bound = leg.bound
  <2>1. leg \in LegT  BY TypesAre DEF IInv
  <2> QED  BY <1>1, <2>1 DEF LegT
<1>4. store.cursor \in 0..Units /\ store.cursor \in Nat  BY Typed DEF IInv, TypeOK
<1>5. /\ ~sub.on /\ wire = <<>> /\ coord.from = 0 /\ buf = <<>> /\ ~eof /\ applied = 0
      /\ ~coord.reconciled /\ leg.cause = "none" /\ leg.bound = "done" /\ sub.sent <= shell.said
      /\ (coord.starts = 0 => coord.head = 0)
  BY <1>1 DEF IInv, Control, Between, Stream, Ordered
<1>6. TypeOK'
  <2>1. 0 \in 0..Units /\ 0 \in 0..Frames  BY LegAssumption DEF Units
  <2>2. att' \in AttT  BY <1>1, <1>4 DEF AttT
  <2>3. pump' \in PumpT  BY <1>1, <2>1 DEF PumpT, Fetching, Pumping
  <2> QED  BY <1>1, <1>2, <1>3, <2>2, <2>3, TypesAre, TypesAreNext DEF IInv
<1>7. Stream'
  <2>1. Base' = Base  BY <1>1 DEF Base
  <2>3. DOMAIN wire' = {} /\ DOMAIN buf' = {} /\ Len(buf') = 0  BY <1>1, <1>5
  <2>4. pump'.pc = "reading" /\ ~InHand'  BY <1>1 DEF Fetching, InHand
  <2>5. att'.offset = store.cursor  BY <1>1
  <2>6. Ordered'  BY <1>1, <1>5, <2>3, <2>4 DEF Ordered
  <2>7. Within'  BY <1>1, <1>2, <2>3, <2>4, <2>5 DEF IInv, Stream, Within
  <2>8. Counted'  BY <1>1, <1>5, <2>3 DEF Counted, ResetPending
  <2>9. Passed'  BY <1>1, <2>1, <2>3, <2>4 DEF IInv, Stream, Passed
  <2>10. Whole'  BY <1>1, <1>2, <1>4, <1>5, <2>3, <2>4, <2>5 DEF Whole, Position
  <2>11. StoredOnceInOrder' /\ NothingSkipped'
    BY <1>1 DEF IInv, Stream, StoredOnceInOrder, NothingSkipped, IsTail
  <2> QED  BY <2>6, <2>7, <2>8, <2>9, <2>10, <2>11 DEF Stream
<1>8. Control'
  <2>1. pump'.pc = "reading" /\ att'.done = "no" /\ att'.offset = store.cursor
    BY <1>1 DEF Fetching
  <2>2. Between'  BY <1>1, <1>2, <1>3, <1>5, <2>1 DEF Between
  <2>3. OneOrTheOther' /\ ReplayIn' /\ HandedStill'
    BY <1>1, <1>2, <1>3, <1>5, <2>1 DEF OneOrTheOther, ReplayIn, HandedStill
  <2>4. ~settled  BY <1>1 DEF IInv, Control, SettledIsOver
  <2>5. SettledIsOver' /\ ReplayApplied'
    BY <1>1, <1>2, <1>5, <2>4 DEF SettledIsOver, ReplayApplied, ReplayBeforeEnd, ReconciledIsStored
  <2>6. AppliedIsStored'  BY <1>1, <1>4, <1>5 DEF AppliedIsStored
  <2> QED  BY <2>2, <2>3, <2>5, <2>6 DEF Control
<1> QED  BY <1>6, <1>7, <1>8 DEF IInv

\* The subscriber is served from the cursor, or from the window's base when that is
\* past it: behind everything that is stored.
LEMMA AttachKeeps ==
  ASSUME IInv, Attach
  PROVE  IInv'
<1> PICK from : from = ResumeAt(att.offset)  OBVIOUS
<1>1. /\ coord.phase = "asking" /\ coord' = [coord EXCEPT !.phase = "attached", !.from = from]
      /\ sub' = [on |-> TRUE, sent |-> from]
      /\ UNCHANGED <<shell, wire, att, buf, eof, pump, leg, dom, applied, store, settled, hole>>
  BY DEF Attach, client, adapter
<1>2. /\ ~sub.on /\ wire = <<>> /\ coord.from = 0 /\ buf = <<>> /\ ~eof /\ applied = 0
      /\ ~coord.reconciled /\ leg.cause = "none" /\ leg.bound = "done" /\ pump.pc = "reading"
      /\ leg.end = "open" /\ att.offset = store.cursor /\ att.done # "read"
      /\ (coord.starts = 0 => coord.head = 0)
  BY <1>1 DEF IInv, Control, Between
<1>3. /\ store.cursor \in Nat /\ Base \in Nat /\ Base <= shell.said /\ shell.said \in 0..Units
      /\ store.cursor <= shell.said /\ Units \in Nat
  BY Typed, BaseIs, LegAssumption DEF IInv, Stream, Within, TypeOK, Units
<1>4. from = IF Base >= store.cursor THEN Base ELSE store.cursor
  BY <1>2, <1>3, MaxOf DEF ResumeAt
<1>5. /\ from \in 0..Units /\ from <= shell.said /\ from >= store.cursor /\ from >= Base
      /\ from \in Nat
  BY <1>3, <1>4
<1>6. /\ coord' \in CoordT /\ coord'.phase = "attached" /\ coord'.head = coord.head
      /\ coord'.from = from /\ coord'.reconciled = coord.reconciled
      /\ coord'.starts = coord.starts
  <2>1. coord \in CoordT  BY TypesAre DEF IInv
  <2> QED  BY <1>1, <1>5, <2>1 DEF CoordT, Phase
<1>7. TypeOK'
  <2>1. sub' \in SubT  BY <1>1, <1>5 DEF SubT
  <2> QED  BY <1>1, <1>6, <2>1, TypesAre, TypesAreNext DEF IInv
<1>8. Stream'
  <2>1. Base' = Base  BY <1>1 DEF Base
  <2>2. DOMAIN wire' = {} /\ DOMAIN buf' = {} /\ wire' = <<>>  BY <1>1, <1>2
  <2>3. ~InHand'  BY <1>1, <1>2 DEF InHand
  <2>4. \A r \in DOMAIN store.rows : 2 * store.rows[r] <= from
    <3> SUFFICES ASSUME NEW r \in DOMAIN store.rows  PROVE 2 * store.rows[r] <= from
      OBVIOUS
    <3>1. store.rows[r] \in Nat  BY Typed DEF IInv
    <3>2. 2 * store.rows[r] <= store.cursor \/ 2 * store.rows[r] <= Base
      BY DEF IInv, Stream, Passed
    <3> QED  BY <1>3, <1>5, <3>1, <3>2
  <2>5. sub'.sent = from  BY <1>1
  <2>6. Ordered'  BY <1>1, <1>5, <2>2, <2>3, <2>4, <2>5 DEF Ordered, Behind
  <2>7. Within'  BY <1>1, <1>5, <1>6, <2>2, <2>3 DEF IInv, Stream, Within
  <2>8. Counted'  BY <1>1, <1>6, <2>2, <2>5 DEF Counted, ResetPending, Ingested
  <2>9. Passed'  BY <1>1, <2>1, <2>2, <2>3 DEF IInv, Stream, Passed
  <2>10. Whole'  BY <1>1, <1>2, <1>6 DEF IInv, Stream, Whole, Position, InHand
  <2>11. StoredOnceInOrder' /\ NothingSkipped'
    BY <1>1 DEF IInv, Stream, StoredOnceInOrder, NothingSkipped, IsTail
  <2> QED  BY <2>6, <2>7, <2>8, <2>9, <2>10, <2>11 DEF Stream
<1>9. Control'
  <2>1. sub'.on = TRUE  BY <1>1
  <2>2. Between'  BY <1>1, <1>2, <1>5, <1>6, <2>1 DEF Between
  <2>3. OneOrTheOther' /\ ReplayIn' /\ HandedStill'
    BY <1>1, <1>2, <1>6 DEF OneOrTheOther, ReplayIn, HandedStill
  <2>4. ~settled  BY <1>1 DEF IInv, Control, SettledIsOver
  <2>5. SettledIsOver' /\ ReplayApplied'
    BY <1>1, <1>2, <1>6, <2>4 DEF SettledIsOver, ReplayApplied, ReplayBeforeEnd, ReconciledIsStored
  <2>6. AppliedIsStored'  BY <1>1, <1>2, <1>3 DEF AppliedIsStored
  <2> QED  BY <2>2, <2>3, <2>5, <2>6 DEF Control
<1> QED  BY <1>7, <1>8, <1>9 DEF IInv

\* The session is adopted: what the window had lost behind the cursor is said.
LEMMA ReadoptKeeps ==
  ASSUME IInv, Readopt
  PROVE  IInv'
<1>1. /\ coord.phase = "attached" /\ coord' = [coord EXCEPT !.phase = "up"]
      /\ att' = [att EXCEPT !.offset = coord.from, !.carried = coord.exited]
      /\ applied' = coord.from /\ hole' = (hole \/ coord.from > store.cursor)
      /\ UNCHANGED <<shell, sub, wire, buf, eof, pump, leg, dom, store, settled>>
  BY DEF Readopt, helper
<1>2. /\ sub.on /\ buf = <<>> /\ ~eof /\ ~coord.reconciled /\ att.done # "read"
      /\ leg.cause = "none" /\ leg.bound = "done" /\ pump.pc = "reading" /\ leg.end = "open"
      /\ coord.from >= store.cursor /\ (coord.starts = 0 => coord.head = 0)
  BY <1>1 DEF IInv, Control, Between
<1>3. /\ coord' \in CoordT /\ coord'.phase = "up" /\ coord'.head = coord.head
      /\ coord'.from = coord.from /\ coord'.reconciled = coord.reconciled
      /\ coord'.starts = coord.starts
  <2>1. coord \in CoordT  BY TypesAre DEF IInv
  <2> QED  BY <1>1, <2>1 DEF CoordT, Phase
<1>4. att' \in AttT /\ att'.offset = coord.from /\ att'.done = att.done
  <2>1. att \in AttT /\ coord \in CoordT  BY TypesAre DEF IInv
  <2> QED  BY <1>1, <2>1 DEF AttT, CoordT
<1>5. coord.from \in Nat /\ store.cursor \in Nat  BY Typed DEF IInv
<1>6. ~hole' => ~hole /\ coord.from = store.cursor
  <2>1. ~hole' => ~hole /\ ~(coord.from > store.cursor)
    <3> DEFINE past == coord.from > store.cursor
    <3>1. hole' = (hole \/ past)  BY <1>1
    <3> HIDE DEF past
    <3>2. ~hole' => ~hole /\ ~past  BY <3>1, Zenon
    <3> QED  BY <3>2 DEF past
  <2> QED  BY <1>2, <1>5, <2>1
<1>7. TypeOK'
  <2>1. applied' \in 0..Units /\ hole' \in BOOLEAN  BY <1>1 DEF IInv, TypeOK
  <2> QED  BY <1>1, <1>3, <1>4, <2>1, TypesAre, TypesAreNext DEF IInv
<1>8. Stream'
  <2>1. Base' = Base  BY <1>1 DEF Base
  <2>2. DOMAIN buf' = {} /\ Len(buf') = 0  BY <1>1, <1>2
  <2>3. ~InHand'  BY <1>1, <1>2 DEF InHand
  <2>4. Ordered'
    <3>1. Ordered  BY DEF IInv, Stream
    <3>2. UNCHANGED <<shell, sub, wire, buf, pump, store>>  BY <1>1
    <3> QED  BY <3>1, <3>2 DEF Ordered, Behind, InHand
  <2>5. Within'  BY <1>1, <1>3, <1>4, <2>2, <2>3 DEF IInv, Stream, Within
  <2>6. Counted'
    <3>1. Ingested = coord.from /\ Ingested' = coord.from  BY <1>1, <1>3, <1>4 DEF Ingested
    <3> QED  BY <1>1, <2>1, <3>1 DEF IInv, Stream, Counted, ResetPending
  <2>7. Passed'  BY <1>1, <2>1, <2>2, <2>3 DEF IInv, Stream, Passed
  <2>8. Whole'
    BY <1>1, <1>2, <1>3, <1>4, <1>5, <1>6, <2>2, <2>3 DEF Whole, Position
  <2>9. StoredOnceInOrder' /\ NothingSkipped'
    BY <1>1, <1>6 DEF IInv, Stream, StoredOnceInOrder, NothingSkipped, IsTail
  <2> QED  BY <2>4, <2>5, <2>6, <2>7, <2>8, <2>9 DEF Stream
<1>9. Control'
  <2>1. Between'  BY <1>1, <1>2, <1>3 DEF IInv, Control, Between
  <2>2. OneOrTheOther' /\ HandedStill'
    BY <1>1, <1>3 DEF IInv, Control, OneOrTheOther, HandedStill
  <2>3. ReplayIn'  BY <1>1, <1>2, <1>3, <1>4 DEF ReplayIn
  <2>4. ~settled  BY <1>1 DEF IInv, Control, SettledIsOver
  <2>5. SettledIsOver' /\ ReplayApplied'
    BY <1>1, <1>2, <1>3, <2>4 DEF SettledIsOver, ReplayApplied, ReplayBeforeEnd, ReconciledIsStored
  <2>6. AppliedIsStored'  BY <1>1, <1>3, <1>5 DEF AppliedIsStored
  <2> QED  BY <2>1, <2>2, <2>3, <2>5, <2>6 DEF Control
<1> QED  BY <1>7, <1>8, <1>9 DEF IInv

-----------------------------------------------------------------------------
\* Nothing is on its way, nothing is stored, nobody waits.
LEMMA InitHolds ==
  Init => IInv
<1> SUFFICES ASSUME Init  PROVE IInv
  OBVIOUS
<1>1. /\ Units \in Nat /\ Frames \in Nat /\ MaxStarts \in Nat
      /\ 0 \in 0..Units /\ 0 \in 0..Frames /\ 0 \in 0..MaxStarts
  BY LegAssumption DEF Units
<1>2. TypeOK
  <2>1. shell \in ShellT /\ sub \in SubT /\ att \in AttT  BY <1>1 DEF Init, ShellT, SubT, AttT
  <2>2. pump \in PumpT /\ leg \in LegT
    BY <1>1 DEF Init, PumpT, LegT, Fetching, Pumping
  <2>3. coord \in CoordT  BY <1>1 DEF Init, CoordT, Phase
  <2>4. store \in StoreT
    <3>1. <<>> \in Seq(1..Frames)  OBVIOUS
    <3> QED  BY <1>1, <3>1 DEF Init, StoreT
  <2>5. wire \in Seq(Item) /\ buf \in Seq(Relayed)  BY DEF Init
  <2> QED  BY <1>1, <2>1, <2>2, <2>3, <2>4, <2>5, TypesAre DEF Init
<1>3. /\ sub = [on |-> TRUE, sent |-> 0] /\ shell.said = 0 /\ shell.accepted = FALSE
      /\ wire = <<>> /\ DOMAIN wire = {} /\ buf = <<>> /\ DOMAIN buf = {} /\ Len(buf) = 0
      /\ att.offset = 0 /\ att.done = "no" /\ eof = FALSE
      /\ pump.pc = "reading" /\ ~InHand /\ applied = 0
      /\ leg.end = "open" /\ leg.cause = "none" /\ leg.bound = "armed"
      /\ coord.phase = "up" /\ coord.starts = 0 /\ coord.head = 0 /\ coord.from = 0
      /\ coord.reconciled = FALSE
      /\ store.cursor = 0 /\ store.rows = <<>> /\ DOMAIN store.rows = {}
      /\ settled = FALSE /\ hole = FALSE
  BY DEF Init, Fetching, InHand
<1>4. Ordered /\ Within /\ Passed  BY <1>3 DEF Ordered, Within, Passed
<1>5. Counted  BY <1>3 DEF Counted, ResetPending, Ingested
<1>6. Whole  BY <1>3 DEF Whole, Position
<1>7. StoredOnceInOrder  BY <1>3 DEF StoredOnceInOrder
<1>8. NothingSkipped
  <2>1. ~IsTail(2 * 0 + 1) /\ (2 * 0) \div 2 = 0  BY EvenAfterOdd
  <2>2. ~IsTail(store.cursor + 1) /\ store.cursor \div 2 - 1 = 0 - 1  BY <1>3, <2>1
  <2>3. Max({0, 0 - 1}) = 0  BY MaxOf
  <2>4. <<>> = [i \in 1..0 |-> i + 1]  OBVIOUS
  <2>5. 1..Max({0, store.cursor \div 2 - 1}) = 1..0  BY <2>2, <2>3
  <2> QED  BY <1>3, <2>2, <2>4, <2>5 DEF NothingSkipped
<1>9. Between /\ OneOrTheOther /\ ReplayIn  BY <1>3 DEF Between, OneOrTheOther, ReplayIn
<1>10. HandedStill /\ SettledIsOver /\ AppliedIsStored /\ ReplayApplied
  BY <1>3 DEF HandedStill, SettledIsOver, AppliedIsStored, ReplayApplied, ReplayBeforeEnd,
     ReconciledIsStored
<1> QED
  BY <1>2, <1>4, <1>5, <1>6, <1>7, <1>8, <1>9, <1>10 DEF IInv, Stream, Control

\* No step of the shell, the bridge, the pump, the store or a coordinator breaks it.
LEMMA StepKeeps ==
  IInv /\ [Next]_vars => IInv'
<1> SUFFICES ASSUME IInv, [Next]_vars  PROVE IInv'
  OBVIOUS
<1>1. CASE coord.phase # "over" /\ Shell
  BY <1>1, SayKeeps, ExitKeeps, NotifyExitKeeps DEF Shell
<1>2. CASE coord.phase # "over" /\ Carriage
  BY <1>2, ServeKeeps, RelayKeeps, BridgeEndsKeeps, FinishCarriedKeeps DEF Carriage
<1>3. CASE coord.phase # "over" /\ Pump
  <2>1. CASE EndOfStream /\ LoseBegins("EndOfStream")
    <3>1. eof /\ (pump.pc = "draining" \/ (pump.pc = "reading" /\ buf = <<>>))
      BY <2>1 DEF EndOfStream
    <3> QED  BY <2>1, <3>1, LoseBeginsKeeps
  <2>2. CASE EndOfStream /\ ~LoseBegins("EndOfStream")  BY <2>2, EndsQuietlyKeeps
  <2> QED
    BY <1>3, <2>1, <2>2, ReadFrameKeeps, SkipGarbageKeeps, BeginFrameKeeps, EndProjectionKeeps,
       CommitKeeps, CommitFailsKeeps, PumpEndsKeeps DEF Pump
<1>4. CASE coord.phase # "over" /\ (LoseEnds \/ SendAccept)
  BY <1>4, LoseEndsKeeps, SendAcceptKeeps
<1>5. CASE coord.phase # "over" /\ Bound
  <2>1. CASE BoundExpires  BY <2>1, BoundExpiresKeeps
  <2>2. CASE BoundLoses  BY <2>2, LoseBeginsKeeps DEF BoundLoses
  <2> QED  BY <1>5, <2>1, <2>2 DEF Bound
<1>6. CASE Coordinator
  BY <1>6, BeginStopKeeps, DetachClosesKeeps, DetachReturnsKeeps, DownKeeps, InventoryKeeps,
     AdoptKeeps, AttachKeeps, ReadoptKeeps, ReconcileKeeps, SettleKeeps DEF Coordinator
<1>7. CASE UNCHANGED vars
  <2>1. UNCHANGED <<shell, sub, wire, att, buf, eof, pump, leg, dom, applied, coord, store,
                    settled, hole>>
    BY <1>7 DEF vars
  <2>2. Stream'  BY <2>1, StreamKept
  <2>3. TypeOK'  BY <2>1 DEF IInv, TypeOK
  <2>4. Control'
    BY <2>1 DEF IInv, Control, Between, OneOrTheOther, ReplayIn, HandedStill, SettledIsOver,
       AppliedIsStored, ReplayApplied, ReplayBeforeEnd, ReconciledIsStored, InHand, Applying
  <2> QED  BY <2>2, <2>3, <2>4 DEF IInv
<1> QED  BY <1>1, <1>2, <1>3, <1>4, <1>5, <1>6, <1>7 DEF Next

\* The invariant of the leg, for any number of frames, coordinators and any window.
THEOREM LegInvariant == Spec => []IInv
<1>1. Init => IInv  BY InitHolds
<1>2. IInv /\ [Next]_vars => IInv'  BY StepKeeps
<1> QED  BY <1>1, <1>2, PTL DEF Spec

\* Each frame's effect is stored once, in the stream's order, and unless a range was given
\* up and said so none is skipped: whatever crashes, hands over or resumes, and wherever
\* the window's base or a page's end fell (streamOffsetLocked, lifecycleResumePoint).
THEOREM EachFrameStoredOnce == Spec => []StoredExactly
<1>1. IInv => StoredExactly  BY DEF IInv, Stream, StoredExactly
<1> QED  BY <1>1, LegInvariant, PTL

\* A leg lost for its handshake's bound never sent its accept (Adapter.Send).
THEOREM AcceptExcludesTimeout == Spec => []AcceptedInTime
<1>1. IInv => AcceptedInTime  BY DEF IInv, Control, OneOrTheOther, AcceptedInTime
<1> QED  BY <1>1, LegInvariant, PTL

\* What the window held is applied before the session is settled for it, or the restart
\* notice cleared (ExitAfterLifecycle, LifecycleReconciled).
THEOREM ReplayComesFirst == Spec => []ReplayApplied
<1>1. IInv => ReplayApplied  BY DEF IInv, Control
<1> QED  BY <1>1, LegInvariant, PTL

\* Once Detach has returned this coordinator stores nothing more (Adapter.Detach).
THEOREM DetachedLegIsStill == Spec => HandedOverIsStill
<1>1. IInv /\ [Next]_vars => (coord.phase = "handed" => store' = store)
  <2> SUFFICES ASSUME IInv, [Next]_vars, coord.phase = "handed"  PROVE store' = store
    OBVIOUS
  <2>1. pump.pc # "committing"  BY DEF IInv, Control, HandedStill, Applying
  <2>2. CASE Shell  BY <2>2 DEF Shell, Say, Exit, NotifyExit
  <2>3. CASE Carriage
    BY <2>3 DEF Carriage, Serve, Relay, BridgeEnds, FinishCarried
  <2>4. CASE Pump
    BY <2>1, <2>4 DEF Pump, ReadFrame, SkipGarbage, BeginFrame, EndProjection, Commit,
       CommitFails, PumpEnds, EndOfStream, LoseBegins
  <2>5. CASE LoseEnds \/ Bound \/ SendAccept
    BY <2>5 DEF LoseEnds, Bound, BoundExpires, BoundLoses, LoseBegins, SendAccept
  <2>6. CASE Coordinator
    BY <2>6 DEF Coordinator, BeginStop, DetachCloses, DetachReturns, Down, Inventory, Adopt,
       Attach, Readopt, Reconcile, Settle
  <2>7. CASE UNCHANGED vars  BY <2>7 DEF vars
  <2> QED  BY <2>2, <2>3, <2>4, <2>5, <2>6, <2>7 DEF Next
<1> QED  BY <1>1, LegInvariant, PTL DEF Spec, HandedOverIsStill

=============================================================================
