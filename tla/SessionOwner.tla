----------------------------- MODULE SessionOwner -----------------------------
(***************************************************************************)
(* The helper's I/O owner of one session: one goroutine orders what is     *)
(* typed, resized and answered, reads the terminal between two writes, and *)
(* spends the one-shot targets that intents are presented with.  A writer  *)
(* goroutine may sit in a write for as long as the program does not read.  *)
(*                                                                         *)
(* An item is numbered when it is accepted.  Key bytes, styles and digests *)
(* are reduced to the screen's size and look, and clocks to the fact that  *)
(* a deadline has passed; every item is presented at most once.            *)
(***************************************************************************)
EXTENDS Integers, Sequences, FiniteSetsExt, Functions

CONSTANTS Token, Payload, Look,
          None,                  \* no item, no result, no token
          Reply,                 \* an answer of the emulator, in the queue
          MaxQueue,              \* intentQueueMax
          ReplyReserve,          \* answers that fit replyReserveBytes
          MaxItems, MaxOutput    \* bounds: items accepted, chunks the program writes

ASSUME BoundsAssumption ==
  /\ MaxQueue \in Nat \ {0} /\ ReplyReserve \in Nat
  /\ MaxItems \in Nat /\ MaxOutput \in Nat /\ Look # {}

VARIABLES proc,       \* the terminal: a local one has a read barrier and interruptible writes
          screen,     \* what the runtime has ingested, and whether that is all of it
          items,      \* every item submit accepted, in that order
          incoming, pending, flight,
          used,       \* queueUsed
          reserved,   \* replyBytes, in answers
          own,        \* the owner goroutine
          stop,       \* the caller of stop
          detach,     \* what became of its request to give the writer up
          book        \* the one-shot targets

vars == <<proc, screen, items, incoming, pending, flight, used, reserved, own, stop, detach, book>>

Item == 1..MaxItems
Size == {0, 1}       \* a wide and a narrow grid
Ordinary == {"intent", "key", "frame", "resize"}
Settled == {"executed", "failed", "refused", "cancelled", "in_progress", "unknown"}
Binding == [payload: Payload, epoch: Nat]

\* The marks are told from what they stand beside.
ASSUME MarksAssumption ==
  /\ None \notin Token \cup Payload \cup Nat \cup Settled \cup Binding
  /\ Reply \notin Nat /\ Reply # None

TypeOK ==
  /\ proc \in [local: BOOLEAN, left: 0..MaxOutput, unread: 0..MaxOutput, ended: BOOLEAN, closed: BOOLEAN]
  /\ screen \in [size: Size, look: Look, complete: BOOLEAN]
  /\ items \in Seq([kind: Ordinary \cup {"bump"}, token: Token \cup {None},
                    payload: Payload \cup {None}, epoch: Nat, late: BOOLEAN,
                    handed: BOOLEAN, answer: Settled \cup {None}])
  /\ incoming \in Seq(Item) /\ pending \in Seq(Item \cup {Reply})
  /\ flight \in Item \cup {Reply, None}
  /\ used \in 0..MaxQueue /\ reserved \in 0..ReplyReserve
  /\ own \in [epoch: Nat, closing: BOOLEAN, eof: BOOLEAN, stopped: BOOLEAN]
  /\ stop \in {"no", "asked", "gaveUp", "closed"}
  /\ detach \in {"no", "pending", "done"}
  /\ book \in [Token -> [minted: BOOLEAN, size: Size, look: Look,
                         expired: BOOLEAN, bound: Binding \cup {None},
                         result: Settled \cup {None}]]

Init ==
  /\ \E local \in BOOLEAN : LET look == CHOOSE look \in Look : TRUE IN
       /\ proc = [local |-> local, left |-> MaxOutput, unread |-> 0, ended |-> FALSE, closed |-> FALSE]
       /\ screen = [size |-> 0, look |-> look, complete |-> TRUE]
       /\ book = [t \in Token |-> [minted |-> FALSE, size |-> 0, look |-> look,
                                   expired |-> FALSE, bound |-> None, result |-> None]]
  /\ items = <<>> /\ incoming = <<>> /\ pending = <<>> /\ flight = None /\ used = 0 /\ reserved = 0
  /\ own = [epoch |-> 1, closing |-> FALSE, eof |-> FALSE, stopped |-> FALSE]
  /\ stop = "no" /\ detach = "no"

-----------------------------------------------------------------------------
(* The queue's own operators.                                              *)

IsItem(x) == x \in Item

\* What stays of a queue when the members of D are taken out, in its order.
Without(q, D) ==
  LET kept == {i \in DOMAIN q : q[i] \notin D}
  IN  [k \in 1..Cardinality(kept) |->
         q[CHOOSE i \in kept : Cardinality({j \in kept : j <= i}) = k]]

Tokened(i) == items[i].token # None
Conditional(i) == items[i].kind = "intent"

\* Ordinary items that are in S and get the answer a; their slots come back.
Freed(S) == Cardinality({i \in S : items[i].kind # "bump"})
Answered(S, a) == [i \in DOMAIN items |-> IF i \in S THEN [items[i] EXCEPT !.answer = a] ELSE items[i]]
Answer(S, a) == items' = Answered(S, a) /\ used' = used - Freed(S)

\* recordTokenOutcome, for the items of S that carry a token.
Recorded(S, a) ==
  [t \in Token |-> IF \E i \in S : items[i].token = t THEN [book[t] EXCEPT !.result = a] ELSE book[t]]
Record(S, a) == book' = Recorded(S, a)

\* An answer of the emulator's joins the queue while the reserve holds it; past that the
\* screen is no longer known to be all the program was told (sessionOwner.Reply).
ReplyFits == reserved < ReplyReserve
Reserve(asks) == reserved' = IF asks /\ ReplyFits THEN reserved + 1 ELSE reserved
Replied(asks) == IF asks /\ ReplyFits THEN <<Reply>> ELSE <<>>

\* commitBy, or the token's minute, is over.
Expired(i) == items[i].late \/ (Tokened(i) /\ book[items[i].token].expired)

-----------------------------------------------------------------------------
(* What happens around the owner.                                          *)

Produce ==
  /\ proc.left > 0 /\ ~proc.ended /\ ~proc.closed
  /\ proc' = [proc EXCEPT !.left = @ - 1, !.unread = @ + 1]
  /\ UNCHANGED <<screen, items, incoming, pending, flight, used, reserved, own, stop, detach, book>>

\* An end after the end of the read side is seen by nobody.
ProgramEnds ==
  /\ ~proc.ended /\ ~own.eof
  /\ proc' = [proc EXCEPT !.ended = TRUE]
  /\ UNCHANGED <<screen, items, incoming, pending, flight, used, reserved, own, stop, detach, book>>

\* tokenBook.Mint, dated to the moment the snapshot it names was taken.  The tokens of a
\* remote terminal are left out of the book: the gate refuses them before it looks.
Mint(t) ==
  /\ ~book[t].minted /\ ~own.closing /\ proc.local
  /\ book' = [book EXCEPT ![t] = [@ EXCEPT !.minted = TRUE, !.size = screen.size, !.look = screen.look]]
  /\ UNCHANGED <<proc, screen, items, incoming, pending, flight, used, reserved, own, stop, detach>>

TokenExpires(t) ==
  /\ book[t].minted /\ ~book[t].expired /\ ~own.closing
  /\ book' = [book EXCEPT ![t].expired = TRUE]
  /\ UNCHANGED <<proc, screen, items, incoming, pending, flight, used, reserved, own, stop, detach>>

Presented ==
  LET Of(kind, token, payload, epoch) ==
        [kind |-> kind, token |-> token, payload |-> payload, epoch |-> epoch,
         late |-> FALSE, handed |-> FALSE, answer |-> None]
      Known == {t \in Token : book[t].minted \/ ~proc.local}
  IN  {Of("intent", t, p, e) : t \in Known, p \in Payload, e \in 1..own.epoch}
      \cup {Of("key", None, None, e) : e \in 1..own.epoch}
      \cup {Of(k, None, None, 0) : k \in {"frame", "resize"}}
      \cup {Of("bump", None, None, e) : e \in 1..own.epoch}

\* sessionOwner.submit; a refusal (closing, busy) leaves nothing behind.
Submit(item) ==
  /\ stop = "no" /\ ~own.closing
  /\ Len(items) < MaxItems
  /\ Len(incoming) < MaxQueue
  /\ item.kind \in Ordinary => used < MaxQueue
  /\ items' = Append(items, item)
  /\ incoming' = Append(incoming, Len(items) + 1)
  /\ used' = IF item.kind \in Ordinary THEN used + 1 ELSE used
  /\ UNCHANGED <<proc, screen, pending, flight, reserved, own, stop, detach, book>>

\* commitBy, while somebody still asks for it.
DeadlinePasses(i) ==
  /\ items[i].kind \in {"intent", "key"} /\ i \in Range(incoming \o pending) /\ ~items[i].late
  /\ items' = [items EXCEPT ![i].late = TRUE]
  /\ UNCHANGED <<proc, screen, incoming, pending, flight, used, reserved, own, stop, detach, book>>

\* sessionOwner.stop: the request, its deadline, the close.
Stop ==
  /\ stop = "no"
  /\ stop' = "asked"
  /\ UNCHANGED <<proc, screen, items, incoming, pending, flight, used, reserved, own, detach, book>>

StopGivesUp ==
  /\ stop = "asked" /\ ~own.stopped
  /\ stop' = "gaveUp"
  /\ detach' = IF proc.local THEN detach ELSE "pending"
  /\ UNCHANGED <<proc, screen, items, incoming, pending, flight, used, reserved, own, book>>

StopCloses ==
  /\ stop = "gaveUp"
  /\ stop' = "closed"
  /\ proc' = [proc EXCEPT !.closed = TRUE]
  /\ UNCHANGED <<screen, items, incoming, pending, flight, used, reserved, own, detach, book>>

-----------------------------------------------------------------------------
(* The owner: what it does with one item it receives.                      *)

\* What a newer epoch takes out of the queue; keys stay and are looked at in their turn.
\* mutant: the fence moves and what already waits behind the writer stays.
SweptNothing == {}
Swept == {k \in Range(pending) \cap Item : Tokened(k)}

ApplyBump(i) ==
  LET swept == Swept
      newer == items[i].epoch + 1 > own.epoch
  IN
  /\ items[i].kind = "bump"
  /\ IF newer
     THEN /\ own' = [own EXCEPT !.epoch = items[i].epoch + 1]
          /\ items' = [Answered(swept, "refused") EXCEPT ![i].answer = "executed"]
          /\ used' = used - Freed(swept)
          /\ Record(swept, "refused")
          /\ pending' = Without(pending, swept)
     ELSE Answer({i}, "executed") /\ UNCHANGED <<own, pending, book>>

InteractiveGate(i) ==
  /\ items[i].kind = "key"
  /\ IF items[i].epoch # own.epoch \/ items[i].late
     THEN Answer({i}, "refused") /\ UNCHANGED pending
     ELSE pending' = Append(pending, i) /\ UNCHANGED <<items, used>>
  /\ UNCHANGED <<own, book>>

\* tokenBook.Consume binds the slot, with the refusal that is decided at once if there is one.
\* mutant: the slot is bound by its outcome only.
BoundByOutcome(t, binding, result) ==
  [book EXCEPT ![t].bound = IF result = None THEN None ELSE binding, ![t].result = result]
Bound(t, binding, result) == [book EXCEPT ![t].bound = binding, ![t].result = result]

\* tokenGate: what is decided about the token and the epoch, whatever the screen says.
TokenGate(i) ==
  LET t == items[i].token
      binding == [payload |-> items[i].payload, epoch |-> items[i].epoch]
      Bind(result) == book' = Bound(t, binding, result)
  IN
  /\ items[i].kind = "intent"
  /\ UNCHANGED own
  /\ CASE ~proc.local \/ book[t].expired ->
            Answer({i}, "refused") /\ UNCHANGED <<pending, book>>
       [] OTHER ->
          CASE book[t].bound = None /\ (items[i].epoch < own.epoch \/ items[i].late) ->
                 Bind("refused") /\ Answer({i}, "refused") /\ UNCHANGED pending
            [] book[t].bound = None /\ ~(items[i].epoch < own.epoch \/ items[i].late) ->
                 Bind(None) /\ pending' = Append(pending, i) /\ UNCHANGED <<items, used>>
            [] book[t].bound # None /\ book[t].bound # binding ->
                 Answer({i}, "refused") /\ UNCHANGED <<pending, book>>
            [] OTHER ->
                 /\ Answer({i}, IF book[t].result = None THEN "in_progress" ELSE book[t].result)
                 /\ UNCHANGED <<pending, book>>

Queue(i) ==
  /\ items[i].kind \in {"frame", "resize"}
  /\ pending' = Append(pending, i)
  /\ UNCHANGED <<items, used, own, book>>

\* dispatchIncoming, before the owner closes; BeginClosing settles what is left then.
Dispatch ==
  /\ incoming # <<>> /\ ~own.closing
  /\ incoming' = Tail(incoming)
  /\ LET i == Head(incoming) IN ApplyBump(i) \/ InteractiveGate(i) \/ TokenGate(i) \/ Queue(i)
  /\ UNCHANGED <<proc, screen, flight, reserved, stop, detach>>

-----------------------------------------------------------------------------
(* The owner: the screen and the writer.                                   *)

\* One quantum of output, and what the emulator answers to it.
Ingest ==
  /\ proc.unread > 0 /\ ~own.eof /\ ~(proc.local /\ proc.closed)
  /\ proc' = [proc EXCEPT !.unread = @ - 1]
  /\ \E look \in Look, asks \in BOOLEAN :
       /\ screen' = [screen EXCEPT !.look = look, !.complete = @ /\ (asks => ReplyFits)]
       /\ pending' = pending \o Replied(asks) /\ Reserve(asks)
  /\ UNCHANGED <<items, incoming, flight, used, own, stop, detach, book>>

\* finishRead: a closed local terminal is not read to its end.
ReadEnds ==
  /\ ~own.eof
  /\ \/ (proc.ended \/ proc.closed) /\ proc.unread = 0
     \/ proc.local /\ proc.closed
  /\ own' = [own EXCEPT !.eof = TRUE]
  /\ UNCHANGED <<proc, screen, items, incoming, pending, flight, used, reserved, stop, detach, book>>

\* mutant: deadlines are looked at when the writer is free.
OverdueForWriter ==
  {k \in Range(pending) \cap Item : flight = None /\ items[k].kind \in {"intent", "key"} /\ Expired(k)}
Overdue == {k \in Range(pending) \cap Item : items[k].kind \in {"intent", "key"} /\ Expired(k)}

ExpirePending ==
  LET over == Overdue IN
  /\ over # {}
  /\ Answer(over, "refused") /\ Record(over, "refused")
  /\ pending' = Without(pending, over)
  /\ UNCHANGED <<proc, screen, incoming, flight, reserved, own, stop, detach>>

\* writeStart: nothing is offered to a writer that was given up.
WriteStart(i) ==
  IF detach = "done"
  THEN /\ Answer({i}, "cancelled") /\ Record({i}, "cancelled") /\ UNCHANGED flight
  ELSE /\ flight' = i /\ items' = [items EXCEPT ![i].handed = TRUE] /\ UNCHANGED <<used, book>>

Refuse(i, a) == Answer({i}, a) /\ Record({i}, a) /\ UNCHANGED flight

\* checkToken, under the runtime's lock: the same size, the same rows.
OnTarget(i) ==
  items[i].kind = "intent" =>
    LET t == items[i].token IN screen.size = book[t].size /\ screen.look = book[t].look

\* commitIntent.  What Commit refuses for an incomplete screen it leaves admitted, and the
\* owner answers and records what the runtime says of it.
CommitIntent(i) ==
  CASE Expired(i) \/ (items[i].kind = "key" /\ items[i].epoch # own.epoch) -> Refuse(i, "refused")
    [] ~screen.complete -> Refuse(i, "in_progress")
    [] ~OnTarget(i) -> Refuse(i, "refused")
    [] OTHER -> WriteStart(i)

\* Only what was read to the end may be judged: a conditional head waits for that, and
\* everything behind it waits with it.
MayBeJudged(i) == Conditional(i) => proc.unread = 0 \/ own.eof

WriterFree == flight = None /\ pending # <<>> /\ incoming = <<>> /\ ~own.stopped

AdvanceReply ==
  /\ WriterFree /\ Head(pending) = Reply
  /\ pending' = Tail(pending)
  /\ IF detach = "done"
     THEN reserved' = reserved - 1 /\ UNCHANGED flight
     ELSE flight' = Reply /\ UNCHANGED reserved
  /\ UNCHANGED <<proc, screen, items, incoming, used, own, stop, detach, book>>

AdvanceItem ==
  /\ WriterFree /\ IsItem(Head(pending))
  /\ LET i == Head(pending) IN
       \/ items[i].kind = "frame" /\ WriteStart(i)
       \/ items[i].kind \in {"intent", "key"} /\ (Expired(i) \/ MayBeJudged(i)) /\ CommitIntent(i)
  /\ pending' = Tail(pending)
  /\ UNCHANGED <<proc, screen, incoming, reserved, own, stop, detach>>

\* CommitGeometry, on the owner's goroutine: no write, but the emulator may answer.  One that
\* fails is put back.
AdvanceResize ==
  /\ WriterFree /\ IsItem(Head(pending)) /\ items[Head(pending)].kind = "resize"
  /\ \E size \in Size, look \in Look, asks \in BOOLEAN, ok \in BOOLEAN :
       /\ asks /\ ~ReplyFits => ~ok
       /\ screen' = [size |-> IF ok THEN size ELSE screen.size, look |-> look,
                     complete |-> screen.complete /\ (asks => ReplyFits)]
       /\ pending' = Tail(pending) \o Replied(asks) /\ Reserve(asks)
       /\ Answer({Head(pending)}, IF ok THEN "executed" ELSE "failed")
  /\ UNCHANGED <<proc, incoming, flight, own, stop, detach, book>>

\* The write returns, whole or not.  One that was given up is left to PerformDetach.
CompleteWrite ==
  /\ flight # None /\ detach # "pending"
  /\ flight' = None
  /\ IF flight = Reply THEN reserved' = reserved - 1 /\ UNCHANGED <<items, used, book>>
     ELSE /\ UNCHANGED reserved
          /\ \E result \in {"executed", "failed"} : Answer({flight}, result) /\ Record({flight}, result)
  /\ UNCHANGED <<proc, screen, incoming, pending, own, stop, detach>>

-----------------------------------------------------------------------------
(* The owner: shutdown.                                                    *)

BumpsIn(q) == {items[i].epoch + 1 : i \in {k \in Range(q) : items[k].kind = "bump"}}

\* The fence, what waits, what was accepted before the fence, the hangup and the interrupt.
BeginClosing ==
  LET waiting == Range(pending) \cap Item
      bumps == {i \in Range(incoming) : items[i].kind = "bump"}
      rest == Range(incoming) \ bumps
  IN
  /\ stop # "no" /\ ~own.closing
  /\ own' = [own EXCEPT !.closing = TRUE, !.epoch = Max({@} \cup BumpsIn(incoming))]
  /\ items' = [i \in DOMAIN items |->
                 IF i \in bumps THEN [items[i] EXCEPT !.answer = "executed"]
                 ELSE IF i \in waiting \cup rest THEN [items[i] EXCEPT !.answer = "cancelled"]
                 ELSE items[i]]
  /\ used' = used - Freed(waiting \cup rest)
  /\ Record(waiting, "cancelled")
  /\ pending' = <<>> /\ incoming' = <<>>
  /\ UNCHANGED <<proc, screen, flight, reserved, stop, detach>>

\* The write that stop gave up on: its bytes may or may not have arrived.  A turn of the loop
\* looks for the close before the detach, and the close was asked for first.
PerformDetach ==
  /\ detach = "pending" /\ own.closing
  /\ detach' = IF flight = None THEN "no" ELSE "done"
  /\ flight' = None
  /\ IF IsItem(flight) THEN Answer({flight}, "unknown") ELSE UNCHANGED <<items, used>>
  /\ UNCHANGED <<proc, screen, incoming, pending, reserved, own, stop, book>>

Exit ==
  /\ own.closing /\ own.eof /\ flight = None /\ pending = <<>> /\ ~own.stopped
  /\ own' = [own EXCEPT !.stopped = TRUE]
  /\ UNCHANGED <<proc, screen, items, incoming, pending, flight, used, reserved, stop, detach, book>>

-----------------------------------------------------------------------------
World ==
  \/ Produce \/ ProgramEnds
  \/ \E t \in Token : Mint(t) \/ TokenExpires(t)
  \/ \E item \in Presented : Submit(item)
  \/ \E i \in DOMAIN items : DeadlinePasses(i)
  \/ Stop \/ StopGivesUp \/ StopCloses

Owner == Dispatch \/ Ingest \/ ReadEnds \/ ExpirePending \/ AdvanceReply \/ AdvanceItem
         \/ AdvanceResize \/ BeginClosing \/ PerformDetach \/ Exit

Next == World \/ Owner \/ CompleteWrite

Spec == Init /\ [][Next]_vars

\* The owner's loop goes on while it has anything to do, stop's timer fires and its caller goes
\* on to the close.  A local write that was interrupted returns; a remote one owes nothing,
\* nor do the program, the callers and the clocks.
FairSpec ==
  /\ Spec
  /\ WF_vars(Owner)
  /\ WF_vars(StopGivesUp \/ StopCloses)
  /\ WF_vars(proc.local /\ own.closing /\ CompleteWrite)

-----------------------------------------------------------------------------
(* Properties.                                                             *)

Accepted == DOMAIN items
Waiting == {i \in Accepted : items[i].answer = None}
Places == incoming \o Without(pending, {Reply}) \o (IF IsItem(flight) THEN <<flight>> ELSE <<>>)

\* Every caller is answered once: what is not answered stands in exactly one of the owner's
\* three places and holds its one slot of the queue's bound, and after the owner has stopped
\* nothing is left (owner.go's resolve, expirePending, beginClosing, performDetach).
EachAnsweredOnce ==
  /\ IsInjective(Places) /\ Range(Places) = Waiting
  /\ used = Freed(Waiting)
  /\ own.stopped => Waiting = {}

\* However often an intent is presented, at most one presentation of a token is written, and
\* only the one that bound it; a slot that is bound has its result as soon as no presentation
\* of it is queued or written, and the result says "executed" only of bytes that were handed
\* over, and says nothing was written only when nothing was (tokens.go's Consume and Record).
SpentOnce ==
  \A t \in Token :
    LET own_ == {i \in Accepted : items[i].token = t}
        written == {i \in own_ : items[i].handed}
        bound == book[t].bound
    IN  /\ Cardinality(written) <= 1
        /\ \A i \in written : bound # None /\ bound.payload = items[i].payload
        /\ bound # None /\ book[t].result = None =>
             \E i \in own_ : i \in Range(pending) \cup {flight}
        /\ book[t].result \in {"executed", "failed"} => written # {}
        /\ book[t].result \in {"refused", "cancelled", "in_progress"} => written = {}

OwnerKeepsFaith == TypeOK /\ EachAnsweredOnce /\ SpentOnce

\* Nothing is written against a screen or a permission that has passed.  Bytes go to the
\* writer in the order their items were accepted, never under an access epoch that an
\* accepted revocation had ended; an intent's go only to the screen it was minted on, read to
\* its end and known whole, before its deadline (owner.go's advance and commitIntent,
\* access.go's applyAccessBump, the check of tokens.go).
NothingStaleIsWritten ==
  [][\A i \in Accepted :
       LET item == items[i] IN
       items'[i].handed /\ ~item.handed =>
         /\ \A k \in Accepted : k < i => items'[k].handed \/ items'[k].answer # None
         /\ item.kind \in {"intent", "key"} =>
              /\ ~Expired(i)
              /\ \A k \in Accepted : items[k].kind = "bump" => items[k].epoch < item.epoch
         /\ item.kind = "intent" =>
              /\ proc.local /\ (proc.unread = 0 \/ own.eof) /\ screen.complete
              /\ screen.size = book[item.token].size /\ screen.look = book[item.token].look]_vars

\* The owner always comes round to a state that owes nothing: no intent waits past its
\* deadline, although the writer may never come back (expirePending), and a stop that was
\* asked for has returned, however the program treats its input and its hangup (beginClosing,
\* performDetach, run).  Left out is an answer of the emulator's that a remote terminal does
\* not take after the stop has given up on the writer.
OwesNothing ==
  /\ \A i \in Range(incoming \o pending) \cap Item : items[i].kind \in {"intent", "key"} => ~Expired(i)
  /\ stop = "no" \/ own.stopped \/ (~proc.local /\ detach = "no" /\ flight = Reply)
OwnerComesRound == []<>OwesNothing
=============================================================================
