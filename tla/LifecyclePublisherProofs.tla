---------------------- MODULE LifecyclePublisherProofs ----------------------
(***************************************************************************)
(* Proofs about LifecyclePublisher: that its record of what it said is the *)
(* emitter's, that a quiet lane was told what the kernel says of it, that  *)
(* no completion is told before it is reported, and no prompt before the   *)
(* accept of its shell.                                                    *)
(*                                                                         *)
(* The inductive invariant is KInv, the kernel's, and PInv, the            *)
(* publisher's.  PInv rests on the turns: whoever reads a lane's fact in   *)
(* order to tell it holds the lane's turn until it was told, and a frame   *)
(* holds it from before its mutation.  Whoever changes what the kernel     *)
(* says of a lane still has to publish the lane.  So what a holder has in  *)
(* hand is the lane's fact, or someone comes after it (Covered); what it   *)
(* compares with is what was told, or is about to be (Baseline); and a     *)
(* completion is reported by the frame that brought it, which holds the    *)
(* turn meanwhile (Reported).  The one write to a lane's baseline made     *)
(* without its turn, of the call that opens the lane, finds a lane whose   *)
(* shell was not heard yet (Seeding, SilentLanes).                         *)
(***************************************************************************)
EXTENDS LifecyclePublisher, LifecycleKernelProofs

-----------------------------------------------------------------------------
(* The invariant.                                                          *)

RecoveryT == [episode : Domain \cup {None}, sighted : BOOLEAN]
FactT == [fact : LaneFact, attemptState : AttemptState \cup {"Unseen"},
          recovery : RecoveryT]
Op == {"none", "open", "frame", "gap", "loss", "submit", "lane", "replay"}
At == {"idle", "mutate", "seed", "seeded", "report", "publish", "derive",
       "deriveAttempt", "derived", "tell"}
CallT == [op : Op, at : At, lane : Lane \cup {None}, dom : Domain \cup {None},
          port : Transport \cup {None}, open : SUBSET Attempt,
          started : SUBSET Attempt, lanes : SUBSET Lane, drawn : FactT,
          news : Seq(FactT)]
Types ==
    /\ turn \in [Lane -> Caller \cup {None}]
    /\ last \in [Lane -> FactT] /\ told \in [Lane -> FactT]
    /\ known \in SUBSET Lane
    /\ call \in [Caller -> CallT]
    /\ closedSaid \in SUBSET Attempt /\ startSaid \in SUBSET Attempt
    /\ \A c \in Caller : call[c].started \subseteq call[c].open

\* A lane has one shell and a transport one, and a shell has no parent.
Roots ==
    /\ \A d \in Domain : parent[d] = None /\ laneOf[d] \in known \cup {None}
    /\ \A d, e \in Domain : laneOf[d] # None /\ laneOf[d] = laneOf[e] => d = e
    /\ \A d, e \in Domain : transportOf[d] # None /\ transportOf[d] = transportOf[e] => d = e
\* Every attempt has the shell it was minted for.
Owned ==
    \A a \in Attempt : Minted(a) =>
        attempt[a].domain \in Domain /\ state[attempt[a].domain] # "Unminted"

\* A fact of a lane names its shell, and an attempt of that shell.
Names(f, l) ==
    /\ f.domain # None => laneOf[f.domain] = l
    /\ f.attempt # None =>
          Minted(f.attempt) /\ attempt[f.attempt].domain = f.domain /\ f.domain # None
FactNames == \A l \in Lane : Names(lifecycle[l], l) /\ Names(last[l].fact, l)

\* While it derives and tells, a call holds the turn of its lane; a frame
\* holds it throughout.
Reading == {"derive", "deriveAttempt", "derived", "tell"}
Holds(k) == k.at \in Reading \/ (k.op = "frame" /\ k.at \in {"mutate", "report"})
Turns == \A l \in Lane : turn[l] # None => Holds(call[turn[l]]) /\ call[turn[l]].lane = l

\* What a call may be doing at each of its steps.
Stage(k) ==
    /\ k.at = "idle" <=> k.op = "none"
    /\ k.at = "idle" => k = Idle
    /\ k.at = "mutate" => k.op \in {"frame", "gap", "loss", "submit"}
    /\ k.at \in {"seed", "seeded"} => k.op = "open" /\ k.lanes = {}
    /\ k.op = "frame" => k.at \in {"mutate", "report"} \cup Reading
    /\ k.at = "deriveAttempt" => k.drawn.fact.attempt # None
    /\ k.at = "mutate" /\ k.op # "loss" => k.lanes = {k.lane}
    /\ k.op = "frame" => k.lanes = IF k.at \in {"mutate", "report"} THEN {k.lane} ELSE {}
\* Which lanes and shells it is about.
Places(k) ==
    /\ k.lanes \subseteq known
    /\ k.at \in {"publish", "seed", "seeded"} \cup Reading => k.lane \in known
    /\ k.op = "frame" \/ (k.at = "mutate" /\ k.op \in {"gap", "submit"}) =>
          k.dom \in Domain /\ k.lane = laneOf[k.dom] /\ k.lane \in known
    /\ k.op = "loss" /\ k.at = "mutate" =>
          \E d \in Domain : transportOf[d] = k.port /\ k.port # None /\ laneOf[d] \in k.lanes
\* What it has in hand.
Hand(k) ==
    /\ k.news = <<>> \/ (k.at = "tell" /\ k.news = <<last[k.lane]>>)
    /\ k.at \in {"deriveAttempt", "derived"} => Names(k.drawn.fact, k.lane)
    /\ k.at = "derived" /\ k.drawn.attemptState = "Completed" =>
          k.drawn.fact.attempt # None /\ attempt[k.drawn.fact.attempt].state = "Completed"
CallInv(c) ==
    /\ Stage(call[c]) /\ Places(call[c]) /\ Hand(call[c])
    /\ Holds(call[c]) => turn[call[c].lane] = c
Calls == \A c \in Caller : CallInv(c)

\* A lane whose shell has not spoken has said nothing of it.
Silent(l) == \A d \in Domain : laneOf[d] = l => state[d] = "Pending"
Mute(k, l) ==
    k.lane = l =>
        /\ k.at # "deriveAttempt"
        /\ k.at \in {"derived", "seeded"} => k.drawn = NativeFact
        /\ k.news # <<>> => last[l] = NativeFact
SilentLane(l) ==
    /\ lifecycle[l] = Fact("Native", None, None)
    /\ last[l] \in {Unseen, NativeFact} /\ told[l] \in {Unseen, NativeFact}
    /\ \A c \in Caller : Mute(call[c], l)
SilentLanes == \A l \in Lane : Silent(l) => SilentLane(l)

\* Nobody hears the shell of a lane that is being opened.
Speaks(k, l) ==
    /\ k.at = "mutate"
    /\ \/ k.op \in {"frame", "gap"} /\ k.lane = l
       \/ k.op = "loss" /\ \E d \in Domain : laneOf[d] = l /\ transportOf[d] = k.port
Unheard(l) == Silent(l) /\ \A b \in Caller : ~Speaks(call[b], l)
Seeding == \A c \in Caller : call[c].at \in {"seed", "seeded"} => Unheard(call[c].lane)

\* The emitter and the baseline agree, unless the holder has the news still to
\* tell.
Same(t, f) == t = f \/ (t = Unseen /\ f = NativeFact)
Untold(l) == turn[l] # None /\ call[turn[l]].news # <<>>
BaseOf(l) == ~Untold(l) => Same(told[l], last[l])
Baseline == \A l \in Lane : BaseOf(l)

\* A call that will publish the lane, from what the kernel says then.
Announces(k, l) ==
    \/ k.at \notin {"idle", "mutate"} /\ l \in k.lanes
    \/ k.at \in {"publish", "derive"} /\ k.lane = l
\* What the kernel says of the lane is in the holder's hand, or told.
HalfDerived(l) == [Derived(l) EXCEPT !.attemptState = StateOf(None)]
HolderAt(l, at) == turn[l] # None /\ call[turn[l]].at = at
InStep(l) ==
    IF HolderAt(l, "deriveAttempt") THEN call[turn[l]].drawn = HalfDerived(l)
    ELSE IF HolderAt(l, "derived") THEN call[turn[l]].drawn = Derived(l)
    ELSE IF Untold(l) THEN last[l] = Derived(l)
    ELSE Same(told[l], Derived(l))
CoverOf(l) == (\E c \in Caller : Announces(call[c], l)) \/ InStep(l)
Covered == \A l \in Lane : CoverOf(l)

\* A completion was reported, or is about to be by the frame that brought it.
Settles(k, a) ==
    /\ k.op = "frame" /\ k.at = "report" /\ a \in k.open
    /\ k.lane = laneOf[attempt[a].domain]
Reported == \A a \in Attempt :
    attempt[a].state = "Completed" /\ ~adopted[attempt[a].domain] =>
        a \in closedSaid \/ \E c \in Caller : Settles(call[c], a)
\* What runs on a lane was read as open by the frame about to be heard there.
ReadOpen == \A c \in Caller, a \in Attempt :
    /\ call[c].op = "frame" /\ call[c].at = "mutate"
    /\ attempt[a].state = "Open" /\ attempt[a].started
    /\ laneOf[attempt[a].domain] = call[c].lane
    => a \in call[c].open

\* An accept on its way is its frame's to send.
SendsFor(k, d) == k.op = "frame" /\ k.dom = d /\ k.at # "mutate"
AcceptHeld == \A d \in accepts \cup sending : \E c \in Caller : SendsFor(call[c], d)

Registry == Roots /\ Owned
Telling == Baseline /\ Covered
Closing == Reported /\ ReadOpen
PInv ==
    /\ Types /\ Registry /\ FactNames /\ Turns /\ Calls
    /\ SilentLanes /\ Seeding /\ Telling /\ Closing /\ AcceptHeld

-----------------------------------------------------------------------------
(* What the kernel does in one call of the publisher: it moves one shell.  *)

\* With no shell the parent of another, a lane has one shell stacked at most,
\* and the loss of a transport reaches no other shell.
LEMMA Shallow ==
    ASSUME IInv, Roots
    PROVE  /\ \A l \in Lane : Len(stack[l]) \in {0, 1}
           /\ \A S \in SUBSET Domain : Cascade(S) = S
<1>1. ASSUME NEW l \in Lane PROVE Len(stack[l]) \in {0, 1}
  <2>1. stack[l] \in Seq(Domain)  BY DEF IInv, TypeOK
  <2>2. \A i \in DOMAIN stack[l] : parent[stack[l][i]] = IF i = 1 THEN None ELSE stack[l][i - 1]
    BY DEF IInv, Structure, StackIsParentChain
  <2>3. ASSUME Len(stack[l]) >= 2 PROVE FALSE
    <3>1. 2 \in DOMAIN stack[l] /\ 1 \in DOMAIN stack[l]  BY <2>1, <2>3
    <3>2. parent[stack[l][2]] = stack[l][1]  BY <2>2, <3>1
    <3>3. stack[l][1] \in Domain /\ stack[l][2] \in Domain  BY <2>1, <3>1
    <3> QED  BY <3>2, <3>3, NoneAssumption DEF Roots
  <2>4. Len(stack[l]) \in Nat  BY <2>1
  <2>5. \A n \in Nat : n \in {0, 1} \/ n >= 2  OBVIOUS
  <2> QED  BY <2>3, <2>4, <2>5, Zenon
<1>2. ASSUME NEW S \in SUBSET Domain PROVE Cascade(S) = S
  <2>1. ClosedUnderChildren(S)
    BY NoneAssumption DEF ClosedUnderChildren, Roots
  <2> QED  BY <2>1 DEF Cascade
<1> QED  BY <1>1, <1>2

\* What a step of the shell d leaves alone, and what it may publish.
Elsewhere(d) ==
    /\ UNCHANGED identityVars
    /\ \A x \in Domain \ {d} : state'[x] = state[x]
    /\ \A l \in Lane \ {laneOf[d]} :
          lifecycle'[l] = lifecycle[l] /\ recovery'[l] = recovery[l]
    /\ \A a \in Attempt : attempt'[a] = attempt[a] \/ attempt'[a].domain = d
Here(d, f) ==
    \/ f.domain = None /\ f.attempt = None
    \/ /\ f.domain = d
       /\ f.attempt # None =>
             attempt'[f.attempt].state # "Unminted" /\ attempt'[f.attempt].domain = d
StepOf(d) ==
    /\ Elsewhere(d)
    /\ \/ lifecycle'[laneOf[d]] = lifecycle[laneOf[d]]
       \/ Here(d, lifecycle'[laneOf[d]]) /\ state'[d] # "Pending"
    /\ state'[d] = state[d] \/ state'[d] \notin {"Unminted", "Pending"}

\* The lane fact of one lane is replaced.
LEMMA OneFact ==
    ASSUME IInv, NEW l \in Lane, NEW f, SetLifecycle(l, f)
    PROVE  /\ lifecycle'[l] = f
           /\ \A m \in Lane \ {l} : lifecycle'[m] = lifecycle[m] /\ recovery'[m] = recovery[m]
BY DEF IInv, TypeOK, SetLifecycle

\* Only attempts that are open on the shell change when it ends.
LEMMA EndsItsOwn ==
    ASSUME IInv, NEW d \in Domain, attempt' = UnknownOpenAttempts({d})
    PROVE  \A a \in Attempt : attempt'[a] = attempt[a] \/ attempt'[a].domain = d
BY AttemptType DEF IInv, UnknownOpenAttempts, AttemptRecord

\* One open attempt of the shell changes, or one is made for it.
LEMMA ChangesItsOwn ==
    ASSUME IInv, NEW d \in Domain, NEW o \in Attempt, NEW r, r.domain = d,
           attempt' = [attempt EXCEPT ![o] = r]
    PROVE  \A a \in Attempt : attempt'[a] = attempt[a] \/ attempt'[a].domain = d
BY OneAttempt

\* A shell that is closed or revoked.
LEMMA EndMoves ==
    ASSUME IInv, NEW d \in Domain, TopEnds(d) PROVE StepOf(d)
<1>1. laneOf[d] \in Lane  BY DEF TopEnds, IsTop
<1>2. /\ UNCHANGED identityVars
      /\ state' = [state EXCEPT ![d] = "Closed"]
      /\ attempt' = UnknownOpenAttempts({d})
      /\ SetLifecycle(laneOf[d], Fact("Native", None, None))
  BY DEF TopEnds, EndDomain
<1>3. state'[d] = "Closed" /\ \A x \in Domain \ {d} : state'[x] = state[x]
  BY <1>2 DEF IInv, TypeOK
<1>4. Here(d, Fact("Native", None, None))  BY DEF Here, Fact
<1> QED  BY <1>1, <1>2, <1>3, <1>4, OneFact, EndsItsOwn DEF StepOf, Elsewhere

\* A shell whose stream has a gap, or which suspends.
LEMMA FallMoves ==
    ASSUME IInv, NEW d \in Domain, NEW st \in {"Desynchronized", "Suspended"},
           TopFalls(d, st), \A l \in Lane \ {laneOf[d]} : recovery'[l] = recovery[l]
    PROVE  StepOf(d)
<1>1. laneOf[d] \in Lane  BY DEF TopFalls, IsTop
<1>2. state'[d] = st /\ \A x \in Domain \ {d} : state'[x] = state[x]
  BY DEF TopFalls, IInv, TypeOK
<1>3. /\ lifecycle'[laneOf[d]] = Silenced(d, st)
      /\ \A l \in Lane \ {laneOf[d]} : lifecycle'[l] = lifecycle[l]
  BY <1>1 DEF TopFalls, IInv, TypeOK
<1>4. Here(d, Silenced(d, st))  BY DEF Here, Silenced, Fact
<1> QED  BY <1>1, <1>2, <1>3, <1>4 DEF StepOf, Elsewhere, TopFalls

\* A step that no shell notices.
LEMMA QuietMoves ==
    ASSUME Quiet, UNCHANGED recovery, NEW d \in Domain PROVE StepOf(d)
BY DEF Quiet, StepOf, Elsewhere

\* A frame about attempts changes its shell's, and completes one that was not
\* minted on an adopted shell only.
LEMMA FrameOwn ==
    ASSUME IInv, NEW d \in Domain, NEW a \in Attempt \cup {None}, FrameOf(d, a)
    PROVE  /\ \A b \in Attempt : attempt'[b] = attempt[b] \/ attempt'[b].domain = d
           /\ \A b \in Attempt :
                 attempt'[b].state = "Completed" => Minted(b) \/ adopted[d]
<1>1. attempt \in [Attempt -> AttemptRecord]  BY AttemptType DEF IInv
<1>2. ASSUME NEW o \in OpenAttempts(d), NEW r, attempt' = [attempt EXCEPT ![o] = r],
             r.domain = d
      PROVE  /\ \A b \in Attempt : attempt'[b] = attempt[b] \/ attempt'[b].domain = d
             /\ \A b \in Attempt :
                 attempt'[b].state = "Completed" => Minted(b) \/ adopted[d]
  <2>1. o \in Attempt /\ Minted(o)  BY DEF OpenAttempts, Minted
  <2>2. \A b \in Attempt \ {o} : attempt'[b] = attempt[b]  BY <1>2, <2>1, OneAttempt
  <2> QED  BY <1>2, <2>1, <2>2, ChangesItsOwn DEF Minted
<1>3. CASE PromptReady(d)
  <2>1. \/ UNCHANGED attempt
        \/ \E open \in OpenAttempts(d) :
              \/ attempt' = [attempt EXCEPT ![open].state = "Unknown"]
              \/ attempt' = [attempt EXCEPT ![open].primed = TRUE]
    BY <1>3, Zenon DEF PromptReady
  <2>2. ASSUME NEW o \in OpenAttempts(d)
        PROVE  /\ [attempt[o] EXCEPT !.state = "Unknown"].domain = d
               /\ [attempt[o] EXCEPT !.primed = TRUE].domain = d
    BY <1>1 DEF OpenAttempts, AttemptRecord
  <2>3. CASE UNCHANGED attempt  BY <2>3 DEF Minted
  <2>4. CASE ~UNCHANGED attempt
    <3>1. PICK o \in OpenAttempts(d) : \E r : attempt' = [attempt EXCEPT ![o] = r] /\ r.domain = d
      BY <2>1, <2>2, <2>4
    <3> QED  BY <1>2, <3>1
  <2> QED  BY <2>3, <2>4
<1>4. CASE StartAttaches(d, a)
  <2>1. PICK o \in OpenAttempts(d) :
            attempt' = [attempt EXCEPT ![o].started = TRUE, ![o].shellID = a]
    BY <1>4 DEF StartAttaches
  <2>2. o \in Attempt  BY DEF OpenAttempts
  <2>3. attempt' = [attempt EXCEPT
            ![o] = [attempt[o] EXCEPT !.started = TRUE, !.shellID = a]]
    BY <1>1, <2>1, <2>2
  <2>4. [attempt[o] EXCEPT !.started = TRUE, !.shellID = a].domain = d
    BY <1>1 DEF OpenAttempts, AttemptRecord
  <2> QED  BY <1>2, <2>3, <2>4
<1>5. CASE CompleteOpen(d, a)
  <2>1. PICK o \in OpenAttempts(d) : attempt' = [attempt EXCEPT ![o].state = "Completed"]
    BY <1>5 DEF CompleteOpen
  <2>2. attempt' = [attempt EXCEPT ![o] = [attempt[o] EXCEPT !.state = "Completed"]]
    BY <2>1
  <2>3. [attempt[o] EXCEPT !.state = "Completed"].domain = d
    BY <1>1 DEF OpenAttempts, AttemptRecord
  <2> QED  BY <1>2, <2>2, <2>3
<1>6. CASE \/ a \in Attempt /\ (StartOpens(d, a) \/ CompleteRebuilds(d, a))
           \/ a \in ShellAttempt /\ CompleteRefused(d, a)
  <2>1. PICK st \in {"Open", "Completed"} :
            /\ a \in Attempt
            /\ st = "Completed" => adopted[d]
            /\ attempt' = [attempt EXCEPT ![a] = NewAttempt(d, st, TRUE)]
    BY <1>6 DEF StartOpens, CompleteRebuilds, CompleteRefused, Attempt
  <2>2. /\ NewAttempt(d, st, TRUE).domain = d /\ NewAttempt(d, st, TRUE).state = st
    BY DEF NewAttempt, NoAttemptRecord
  <2>3. /\ attempt'[a].state = st
        /\ \A b \in Attempt \ {a} : attempt'[b] = attempt[b]
    BY <2>1, <2>2, OneAttempt
  <2> QED  BY <2>1, <2>2, <2>3, ChangesItsOwn DEF Minted
<1> QED  BY <1>3, <1>4, <1>5, <1>6 DEF FrameOf

\* What such a frame makes of its lane's fact.
LEMMA FrameTells ==
    ASSUME IInv, NEW d \in Domain, NEW a \in Attempt \cup {None}, FrameOf(d, a)
    PROVE  \/ UNCHANGED <<lifecycle, recovery>>
           \/ SetLifecycle(laneOf[d], Fact("PromptReady", d, None))
           \/ \E b \in Attempt : /\ SetLifecycle(laneOf[d], Fact("Running", d, b))
                                 /\ Minted(b)' /\ attempt'[b].domain = d
<1>1. attempt \in [Attempt -> AttemptRecord]  BY AttemptType DEF IInv
<1>2. CASE PromptReady(d)  BY <1>2, Zenon DEF PromptReady
<1>3. CASE StartAttaches(d, a)
  <2>1. PICK o \in OpenAttempts(d) :
            /\ attempt' = [attempt EXCEPT ![o].started = TRUE, ![o].shellID = a]
            /\ SetLifecycle(laneOf[d], Fact("Running", d, o))
    BY <1>3 DEF StartAttaches
  <2>2. o \in Attempt /\ attempt[o].state = "Open" /\ attempt[o].domain = d
    BY DEF OpenAttempts
  <2>3. attempt' = [attempt EXCEPT
            ![o] = [attempt[o] EXCEPT !.started = TRUE, !.shellID = a]]
    BY <1>1, <2>1, <2>2
  <2>4. attempt'[o].state = "Open" /\ attempt'[o].domain = d
    BY <1>1, <2>2, <2>3, OneAttempt DEF AttemptRecord
  <2> QED  BY <2>1, <2>2, <2>4 DEF Minted
<1>4. CASE CompleteOpen(d, a)  BY <1>4 DEF CompleteOpen
<1>5. CASE \/ a \in Attempt /\ (StartOpens(d, a) \/ CompleteRebuilds(d, a))
           \/ a \in ShellAttempt /\ CompleteRefused(d, a)
  <2>1. PICK st \in {"Open", "Completed"} :
            /\ a \in Attempt
            /\ attempt' = [attempt EXCEPT ![a] = NewAttempt(d, st, TRUE)]
            /\ SetLifecycle(laneOf[d], Fact("Running", d, a))
    BY <1>5 DEF StartOpens, CompleteRebuilds, CompleteRefused, Attempt
  <2>2. /\ NewAttempt(d, st, TRUE).domain = d /\ NewAttempt(d, st, TRUE).state = st
    BY DEF NewAttempt, NoAttemptRecord
  <2>3. attempt'[a] = NewAttempt(d, st, TRUE)  BY <2>1, OneAttempt
  <2> QED  BY <2>1, <2>2, <2>3 DEF Minted
<1> QED  BY <1>2, <1>3, <1>4, <1>5 DEF FrameOf

\* A hello gives its shell a lane of its own.
LEMMA HelloMoves ==
    ASSUME IInv, NEW d \in Domain, HelloEstablishes(d) PROVE StepOf(d)
<1>1. /\ UNCHANGED <<identityVars, attempt>>
      /\ state' = [state EXCEPT ![d] = "Established"]
      /\ SetLifecycle(laneOf[d], Fact("PromptReady", d, None))
      /\ state[d] = "Pending"
  BY DEF HelloEstablishes
<1>2. laneOf[d] \in Lane  BY <1>1 DEF IInv, Structure, Registered
<1>3. state'[d] = "Established" /\ \A x \in Domain \ {d} : state'[x] = state[x]
  BY <1>1 DEF IInv, TypeOK
<1>4. Here(d, Fact("PromptReady", d, None))  BY DEF Here, Fact
<1> QED  BY <1>1, <1>2, <1>3, <1>4, OneFact DEF StepOf, Elsewhere

\* A frame about attempts.
LEMMA FrameOfMoves ==
    ASSUME IInv, NEW d \in Domain, NEW a \in Attempt \cup {None}, FrameOf(d, a)
    PROVE  StepOf(d)
<1>1. /\ UNCHANGED <<identityVars, state>> /\ state[d] = "Established"
      /\ laneOf[d] \in Lane
  BY FrameSpeaker DEF IsTop
<1>2. \A b \in Attempt : attempt'[b] = attempt[b] \/ attempt'[b].domain = d  BY FrameOwn
<1>3. CASE UNCHANGED <<lifecycle, recovery>>
  BY <1>1, <1>2, <1>3 DEF StepOf, Elsewhere
<1>4. ASSUME NEW f, SetLifecycle(laneOf[d], f), Here(d, f) PROVE StepOf(d)
  BY <1>1, <1>2, <1>4, OneFact DEF StepOf, Elsewhere
<1>5. Here(d, Fact("PromptReady", d, None))  BY DEF Here, Fact
<1>6. ASSUME NEW b \in Attempt, Minted(b)', attempt'[b].domain = d
      PROVE  Here(d, Fact("Running", d, b))
  BY <1>6 DEF Here, Fact, Minted
<1> QED  BY <1>3, <1>4, <1>5, <1>6, FrameTells

\* A shell that takes its lane back.
LEMMA ActivateMoves ==
    ASSUME IInv, Roots, NEW d \in Domain, Activate(d) PROVE StepOf(d)
<1> DEFINE l == laneOf[d]
           at == CHOOSE i \in DOMAIN stack[l] : stack[l][i] = d
           above == {stack[l][i] : i \in {j \in DOMAIN stack[l] : j > at}}
<1>1. /\ state' = [x \in Domain |-> IF x \in above THEN "Closed"
                                    ELSE IF x = d THEN "Established" ELSE state[x]]
      /\ attempt' = UnknownOpenAttempts(above)
      /\ \E fact \in ResumeFacts(d, OpenAttempts(d)) : SetLifecycle(l, fact)
      /\ UNCHANGED identityVars
      /\ state[d] = "Suspended"
      /\ \E i \in DOMAIN stack[l] : stack[l][i] = d
  BY DEF Activate
<1>2. l \in Lane  BY <1>1 DEF IInv, Structure, LiveIsStacked, Live
<1>3. above = {}
  <2>1. stack[l] \in Seq(Domain)  BY <1>2 DEF IInv, TypeOK
  <2>2. Len(stack[l]) \in {0, 1}  BY <1>2, Shallow
  <2>3. DOMAIN stack[l] \subseteq {1}  BY <2>1, <2>2
  <2>4. at \in DOMAIN stack[l]  BY <1>1
  <2>5. at = 1  BY <2>3, <2>4
  <2> HIDE DEF at
  <2> QED  BY <2>3, <2>5
<1> HIDE DEF above
<1>4. state'[d] = "Established" /\ \A x \in Domain \ {d} : state'[x] = state[x]
  BY <1>1, <1>3
<1>5. \A a \in Attempt : attempt'[a] = attempt[a]
  BY <1>1, <1>3 DEF UnknownOpenAttempts
<1>6. PICK fact \in ResumeFacts(d, OpenAttempts(d)) : SetLifecycle(l, fact)  BY <1>1
<1>7. Here(d, fact)
  BY <1>5, <1>6 DEF ResumeFacts, Here, Fact, OpenAttempts, Minted
<1> QED  BY <1>1, <1>2, <1>4, <1>5, <1>6, <1>7, OneFact DEF StepOf, Elsewhere

\* A shell that says where it is.
LEMMA SnapshotMoves ==
    ASSUME IInv, StartsKnown, NEW d \in Domain, NEW r \in 1 .. MaxDesyncEpisodes,
           NEW active \in ShellAttempt \cup {None},
           NEW final \in ShellAttempt \cup {None}, Snapshot(d, r, active, final)
    PROVE  /\ StepOf(d)
           /\ \A a \in Attempt : attempt'[a].state = "Completed" => Minted(a)
<1>1. /\ state[d] = "Desynchronized" /\ IsTop(d) /\ UNCHANGED identityVars
      /\ state' = [state EXCEPT ![d] = "Established"]
  BY SnapshotCases
<1>2. PICK a \in Attempt \cup {None} :
          /\ a = None <=> active = None
          /\ a \in Attempt => \/ a \in OpenAttempts(d) /\ attempt'[a] = attempt[a]
                              \/ ~Minted(a) /\ attempt'[a] = NewAttempt(d, "Open", TRUE)
          /\ active # None =>
                lifecycle' = [lifecycle EXCEPT ![laneOf[d]] = Fact("Running", d, a)]
          /\ \A b \in OpenAttempts(d) \ {a} : Settled(b)
          /\ \A b \in Attempt \ (OpenAttempts(d) \cup {a}) : attempt'[b] = attempt[b]
  BY SnapshotAttempts
<1>3. attempt \in [Attempt -> AttemptRecord]  BY AttemptType DEF IInv
<1>4. /\ NewAttempt(d, "Open", TRUE).domain = d /\ NewAttempt(d, "Open", TRUE).state = "Open"
  BY DEF NewAttempt, NoAttemptRecord
<1>5. \A b \in OpenAttempts(d) \ {a} : attempt'[b].domain = d /\ Minted(b)
  BY <1>2, <1>3, ZenonT(60) DEF Settled, OpenAttempts, AttemptRecord, Minted
<1>6. a \in Attempt =>
          /\ attempt'[a].domain = d /\ attempt'[a].state = "Open"
  BY <1>2, <1>4 DEF OpenAttempts
<1>7. /\ \A b \in Attempt : attempt'[b] = attempt[b] \/ attempt'[b].domain = d
      /\ \A b \in Attempt : attempt'[b].state = "Completed" => Minted(b)
  BY <1>2, <1>5, <1>6 DEF Minted
<1>8. laneOf[d] \in Lane /\ Top(laneOf[d]) = d  BY <1>1, HolderTops DEF IsTop
<1>9. PICK f : SetLifecycle(laneOf[d], f) /\ Here(d, f)
  <2>1. CASE active = None
    <3>1. SetLifecycle(laneOf[d], Fact("PromptReady", d, None))
      BY <1>8, <2>1, Zenon DEF Snapshot
    <3>2. Here(d, Fact("PromptReady", d, None))  BY DEF Here, Fact
    <3> QED  BY <3>1, <3>2
  <2>2. CASE active # None
    <3>1. PICK b : SetLifecycle(laneOf[d], Fact("Running", d, b))
      BY <1>8, <2>2, Zenon DEF Snapshot
    <3>2. lifecycle'[laneOf[d]] = Fact("Running", d, b)  BY <1>8, <3>1, OneFact
    <3>3. lifecycle'[laneOf[d]] = Fact("Running", d, a)
      BY <1>2, <1>8, <2>2 DEF IInv, TypeOK
    <3>4. a = b  BY <3>2, <3>3 DEF Fact
    <3>5. Here(d, Fact("Running", d, b))
      BY <1>2, <1>6, <2>2, <3>4 DEF Here, Fact, Minted
    <3> QED  BY <3>1, <3>5
  <2> QED  BY <2>1, <2>2
<1>10. state'[d] = "Established" /\ \A x \in Domain \ {d} : state'[x] = state[x]
  BY <1>1 DEF IInv, TypeOK
<1> QED  BY <1>1, <1>7, <1>8, <1>9, <1>10, OneFact DEF StepOf, Elsewhere

\* A frame of a shell is a step of the kernel, or nothing; it moves its shell,
\* completes what has started, or on an adopted shell what it rebuilds, and
\* leaves it an accept at most.
LEMMA FrameMoves ==
    ASSUME IInv, StartsKnown, Roots, NEW d \in Domain, Frame(d)
    PROVE  /\ StepOf(d)
           /\ [Next]_vars
           /\ \A a \in Attempt : attempt'[a].state = "Completed" => Minted(a) \/ adopted[d]
           /\ accepts' \subseteq accepts \cup {d} /\ sending' = sending
<1> DEFINE Goal == /\ StepOf(d)
                   /\ [Next]_vars
                   /\ \A a \in Attempt :
                         attempt'[a].state = "Completed" => Minted(a) \/ adopted[d]
                   /\ accepts' \subseteq accepts \cup {d} /\ sending' = sending
<1>1. ASSUME Quiet, UNCHANGED recovery
      PROVE  StepOf(d) /\ \A a \in Attempt : attempt'[a].state = "Completed" => Minted(a)
  BY <1>1, QuietMoves DEF Quiet, Minted
<1>2. ASSUME TopEnds(d)
      PROVE  StepOf(d) /\ \A a \in Attempt : attempt'[a].state = "Completed" => Minted(a)
  <2>1. attempt' = UnknownOpenAttempts({d})  BY <1>2 DEF TopEnds, EndDomain
  <2>2. \A a \in Attempt : attempt'[a].state = "Completed" => Minted(a)
    BY <2>1, AttemptType DEF IInv, UnknownOpenAttempts, AttemptRecord, Minted
  <2> QED  BY <1>2, <2>2, EndMoves
<1>3. CASE HelloEstablishes(d)
  <2>1. StepOf(d)  BY <1>3, HelloMoves
  <2>2. UNCHANGED <<attempt, sending>> /\ accepts' = accepts \cup {d}
    BY <1>3 DEF HelloEstablishes
  <2>3. Next  BY <1>3 DEF Next, DomainFrame
  <2> QED  BY <2>1, <2>2, <2>3 DEF Minted
<1>4. CASE HelloReconnects(d)
  <2>1. Quiet /\ UNCHANGED <<recovery, sending>> /\ accepts' \subseteq accepts \cup {d}
    BY <1>4 DEF HelloReconnects, Quiet
  <2>2. Next  BY <1>4 DEF Next, DomainFrame
  <2> QED  BY <1>1, <2>1, <2>2
<1>5. ASSUME NEW a \in Attempt \cup {None}, FrameOf(d, a), AttemptFrame PROVE Goal
  <2>1. StepOf(d)  BY <1>5, FrameOfMoves
  <2>2. UNCHANGED <<accepts, sending>>
    BY <1>5 DEF FrameOf, PromptReady, StartAttaches, CompleteOpen, StartOpens,
                CompleteRebuilds, CompleteRefused, ActiveFrame, deliveryVars
  <2> QED  BY <1>5, <2>1, <2>2, FrameOwn DEF Next
<1>6. CASE \/ PromptReady(d)
           \/ \E id \in ShellAttempt \cup {None} : StartAttaches(d, id) \/ CompleteOpen(d, id)
           \/ \E a \in Attempt : StartOpens(d, a) \/ CompleteRebuilds(d, a)
           \/ \E id \in ShellAttempt : CompleteRefused(d, id)
  <2>1. AttemptFrame  BY <1>6 DEF AttemptFrame
  <2>2. PICK a \in Attempt \cup {None} : FrameOf(d, a)
    BY <1>6 DEF FrameOf, Attempt
  <2>3. Goal  BY <1>5, <2>1, <2>2
  <2> QED  BY <2>3
<1>7. CASE Suspend(d)
  <2>1. state[d] = "Established" /\ IsTop(d)
    BY <1>7, HolderTops DEF Suspend, ActiveFrame, Active
  <2>2. /\ TopFalls(d, "Suspended") /\ UNCHANGED <<attempt, accepts, sending>>
        /\ SetLifecycle(laneOf[d], Fact("Native", None, None))
    BY <1>7, <2>1
    DEF Suspend, ActiveFrame, TopFalls, Silenced, SetLifecycle, deliveryVars
  <2>3. \A l \in Lane \ {laneOf[d]} : recovery'[l] = recovery[l]
    BY <2>1, <2>2, OneFact DEF IsTop
  <2>4. Next  BY <1>7 DEF Next, DomainFrame
  <2> QED  BY <2>2, <2>3, <2>4, FallMoves DEF Minted
<1>8. CASE Activate(d)
  <2>1. StepOf(d)  BY <1>8, ActivateMoves
  <2>2. PICK above : attempt' = UnknownOpenAttempts(above)  BY <1>8, Zenon DEF Activate
  <2>3. \A a \in Attempt : attempt'[a].state = "Completed" => Minted(a)
    BY <2>2, AttemptType DEF IInv, UnknownOpenAttempts, AttemptRecord, Minted
  <2>4. UNCHANGED <<accepts, sending>>  BY <1>8, Zenon DEF Activate, deliveryVars
  <2>5. Next  BY <1>8 DEF Next, DomainFrame
  <2> QED  BY <2>1, <2>3, <2>4, <2>5
<1>9. CASE Close(d)
  <2>1. TopEnds(d)
    <3>1. IsTop(d)
      BY <1>9, NoneAssumption DEF Close, Top, IInv, Structure, Registered, IsTop
    <3> QED  BY <1>9, <3>1 DEF Close, TopEnds, Live
  <2>2. UNCHANGED <<accepts, sending>>  BY <1>9 DEF Close, deliveryVars
  <2>3. Next  BY <1>9 DEF Next, DomainFrame
  <2> QED  BY <1>2, <2>1, <2>2, <2>3
<1>10. ASSUME NEW r \in 1 .. MaxDesyncEpisodes, NEW active \in ShellAttempt \cup {None},
              NEW final \in ShellAttempt \cup {None}, Snapshot(d, r, active, final)
       PROVE  Goal
  <2>1. UNCHANGED <<accepts, sending>>  BY <1>10, Zenon DEF Snapshot, deliveryVars
  <2>2. Next  BY <1>10, Zenon DEF Next, AttemptFrame
  <2> QED  BY <1>10, <2>1, <2>2, SnapshotMoves
<1>11. CASE BudgetRevokes(d)
  <2>1. TopEnds(d)
    BY <1>11, HolderTops DEF BudgetRevokes, Revoke, TopEnds, Live
  <2>2. UNCHANGED <<accepts, sending>>  BY <1>11 DEF BudgetRevokes, deliveryVars
  <2>3. Next  BY <1>11 DEF Next, GapStep
  <2> QED  BY <1>2, <2>1, <2>2, <2>3
<1>12. CASE UNCHANGED kernelVars
  <2>1. Quiet /\ UNCHANGED <<recovery, accepts, sending, vars>>
    BY <1>12 DEF kernelVars, vars, Quiet, deliveryVars
  <2> QED  BY <1>1, <2>1
<1>13. CASE \E r \in 1 .. MaxDesyncEpisodes, active, final \in ShellAttempt \cup {None} :
               Snapshot(d, r, active, final)
  <2>1. Goal  BY <1>10, <1>13
  <2> QED  BY <2>1
<1> HIDE DEF Goal
<1> QED  BY <1>3, <1>4, <1>6, <1>7, <1>8, <1>9, <1>11, <1>12, <1>13 DEF Frame

\* Nothing is completed, and nothing started.
NothingRuns == \A a \in Attempt :
    /\ attempt'[a].state = "Completed" => attempt[a].state = "Completed"
    /\ attempt'[a].state = "Open" /\ attempt'[a].started =>
          attempt[a].state = "Open" /\ attempt[a].started

\* What settles as unknown runs nothing.
LEMMA UnknownRunsNothing ==
    ASSUME IInv, NEW D, attempt' = UnknownOpenAttempts(D)
    PROVE  NothingRuns
BY AttemptType DEF IInv, UnknownOpenAttempts, AttemptRecord, NothingRuns

\* A gap is a step of the kernel, or nothing; it moves its shell only.
LEMMA GapMoves ==
    ASSUME IInv, NEW d \in Domain,
           \/ \E n \in 0 .. ScanBudget + 1 : GapOpensEpisode(d, n) \/ GapAccumulates(d, n)
           \/ BudgetRevokes(d)
           \/ UNCHANGED kernelVars
    PROVE  /\ StepOf(d) /\ NothingRuns
           /\ [Next]_vars
           /\ UNCHANGED <<accepts, sending>>
<1>1. ASSUME UNCHANGED attempt PROVE NothingRuns  BY <1>1 DEF NothingRuns
<1>2. ASSUME NEW n \in 0 .. ScanBudget + 1, GapOpensEpisode(d, n)
      PROVE  StepOf(d) /\ NothingRuns /\ Next /\ UNCHANGED <<accepts, sending>>
  <2>1. state[d] = "Established" /\ IsTop(d) /\ Top(laneOf[d]) = d
    BY <1>2, HolderTops DEF GapOpensEpisode
  <2>2. /\ TopFalls(d, "Desynchronized") /\ UNCHANGED <<attempt, accepts, sending>>
        /\ SetLifecycle(laneOf[d], Fact("Desynchronized", d, None))
    BY <1>2, <2>1
    DEF GapOpensEpisode, TopFalls, Silenced, SetLifecycle, deliveryVars
  <2>3. \A l \in Lane \ {laneOf[d]} : recovery'[l] = recovery[l]
    BY <2>1, <2>2, OneFact DEF IsTop
  <2>4. Next  BY <1>2 DEF Next, GapStep
  <2> QED  BY <1>1, <2>2, <2>3, <2>4, FallMoves
<1>3. ASSUME NEW n \in 0 .. ScanBudget + 1, GapAccumulates(d, n)
      PROVE  StepOf(d) /\ NothingRuns /\ Next /\ UNCHANGED <<accepts, sending>>
  <2>1. Quiet /\ UNCHANGED <<recovery, attempt, accepts, sending>>
    BY <1>3 DEF GapAccumulates, Quiet, deliveryVars
  <2>2. Next  BY <1>3 DEF Next, GapStep
  <2> QED  BY <1>1, <2>1, <2>2, QuietMoves
<1>4. CASE BudgetRevokes(d)
  <2>1. TopEnds(d)
    BY <1>4, HolderTops DEF BudgetRevokes, Revoke, TopEnds, Live
  <2>2. UNCHANGED <<accepts, sending>>  BY <1>4 DEF BudgetRevokes, deliveryVars
  <2>3. Next  BY <1>4 DEF Next, GapStep
  <2>4. attempt' = UnknownOpenAttempts({d})  BY <2>1 DEF TopEnds, EndDomain
  <2> QED  BY <2>1, <2>2, <2>3, <2>4, EndMoves, UnknownRunsNothing
<1>5. CASE UNCHANGED kernelVars
  <2>1. Quiet /\ UNCHANGED <<recovery, attempt, accepts, sending, vars>>
    BY <1>5 DEF kernelVars, vars, Quiet, deliveryVars
  <2> QED  BY <1>1, <2>1, QuietMoves
<1> QED  BY <1>2, <1>3, <1>4, <1>5

\* A lost transport takes its one shell, and what it leaves is no stack.
LEMMA LossMoves ==
    ASSUME IInv, Roots, NEW d \in Domain, NEW t \in Transport, transportOf[d] = t,
           TransportLost(t)
    PROVE  /\ StepOf(d) /\ NothingRuns
           /\ Next
           /\ UNCHANGED <<accepts, sending>>
<1> DEFINE S == {x \in Domain : transportOf[x] = t}
<1>1. S = {d}  BY NoneAssumption DEF Roots
<1>2. Cascade(S) = {d}  BY <1>1, Shallow
<1>3. laneOf[d] \in Lane /\ transportOf[d] \in Transport
  BY NoneAssumption DEF IInv, Structure, Registered
<1>4. /\ state' = [x \in Domain |-> IF x \in Cascade(S) THEN "Lost" ELSE state[x]]
      /\ attempt' = UnknownOpenAttempts(Cascade(S))
      /\ UNCHANGED <<identityVars, accepts, sending>>
      /\ recovery' = [l \in Lane |->
            IF l \in {laneOf[x] : x \in Cascade(S)} /\ lifecycle'[l].state = "Native"
            THEN NoRecovery ELSE recovery[l]]
  BY DEF TransportLost, deliveryVars
<1>5. attempt' = UnknownOpenAttempts({d})  BY <1>2, <1>4
<1>6. state'[d] = "Lost" /\ \A x \in Domain \ {d} : state'[x] = state[x]
  BY <1>2, <1>4
<1>7. ASSUME NEW l \in Lane \ {laneOf[d]}
      PROVE  lifecycle'[l] = lifecycle[l] /\ recovery'[l] = recovery[l]
  <2>1. PICK m : LossLeaves(l, Cascade(S), m)  BY LossCuts
  <2>2. ~\E x \in Cascade(S) : laneOf[x] = l  BY <1>2, <1>7
  <2> QED  BY <1>4, <2>1, <2>2 DEF LossLeaves
<1>8. Here(d, lifecycle'[laneOf[d]])
  <2> DEFINE l == laneOf[d]
  <2>1. PICK m : LossLeaves(l, Cascade(S), m)  BY <1>3, LossCuts
  <2>2. stack[l] \in Seq(Domain)  BY <1>3 DEF IInv, TypeOK
  <2>3. \A i \in 1 .. Len(stack[l]) : stack[l][i] = d
    BY <1>3, <2>2, NoneAssumption DEF IInv, Structure, StackIsParentChain, Roots
  <2>4. m = 0
    BY <1>2, <2>1, <2>2, <2>3 DEF LossLeaves
  <2>5. Without(stack[l], Cascade(S)) = <<>>
    <3>1. \A i \in 1 .. Len(stack[l]) : stack[l][i] \notin Cascade(S) <=> i <= 0
      BY <2>1, <2>4 DEF LossLeaves
    <3>2. Without(stack[l], Cascade(S)) = SubSeq(stack[l], 1, 0)
      BY <2>2, <3>1, WithoutSuffix, SMTT(30)
    <3> QED  BY <2>2, <3>2
  <2>6. lifecycle'[l] \in FactsAfterLoss(l, Cascade(S))
    BY <1>2, <2>1 DEF LossLeaves
  <2>7. lifecycle'[l] = Fact("Lost", None, None)
    BY <2>5, <2>6 DEF FactsAfterLoss
  <2> QED  BY <2>7 DEF Here, Fact
<1>9. Next  BY DEF Next, TransportStep
<1> QED
  BY <1>4, <1>5, <1>6, <1>7, <1>8, <1>9, EndsItsOwn, UnknownRunsNothing
  DEF StepOf, Elsewhere

\* A submit moves its shell's attempts and its lane's fact, not its state.
LEMMA SubmitMoves ==
    ASSUME IInv, NEW d \in Domain, NEW a \in Attempt, SubmitAttempt(d, a)
    PROVE  /\ StepOf(d) /\ NothingRuns
           /\ Next
           /\ UNCHANGED <<accepts, sending, state>>
<1>1. attempt \in [Attempt -> AttemptRecord]  BY AttemptType DEF IInv
<1> DEFINE new == NewAttempt(d, "Open", FALSE)
<1>2. /\ SetLifecycle(laneOf[d], Fact("Running", d, a))
      /\ UNCHANGED <<identityVars, state, accepts, sending>>
      /\ \/ attempt' = [attempt EXCEPT ![a] = new]
         \/ \E o \in OpenAttempts(d) :
               attempt' = [[attempt EXCEPT ![o].state = "Unknown"] EXCEPT ![a] = new]
  BY Zenon DEF SubmitAttempt, deliveryVars
<1>3. new.domain = d /\ new.state = "Open" /\ new.started = FALSE
  BY DEF NewAttempt, NoAttemptRecord
<1> HIDE DEF new
<1>4. /\ attempt'[a] = new
      /\ \A b \in Attempt \ {a} :
            \/ attempt'[b] = attempt[b]
            \/ b \in OpenAttempts(d) /\ attempt'[b] = [attempt[b] EXCEPT !.state = "Unknown"]
  BY <1>1, <1>2 DEF OpenAttempts
<1>5. \A b \in OpenAttempts(d) :
          /\ [attempt[b] EXCEPT !.state = "Unknown"].domain = d
          /\ [attempt[b] EXCEPT !.state = "Unknown"].state = "Unknown"
  BY <1>1 DEF OpenAttempts, AttemptRecord
<1>6. /\ \A b \in Attempt : attempt'[b] = attempt[b] \/ attempt'[b].domain = d
      /\ NothingRuns
  <2>1. ASSUME NEW b \in Attempt
        PROVE  /\ attempt'[b] = attempt[b] \/ attempt'[b].domain = d
               /\ \/ attempt'[b] = attempt[b] \/ attempt'[b].state = "Unknown"
                  \/ attempt'[b].state = "Open" /\ ~attempt'[b].started
    <3>1. CASE b = a  BY <1>3, <1>4, <3>1
    <3>2. CASE b \in OpenAttempts(d) /\ attempt'[b] = [attempt[b] EXCEPT !.state = "Unknown"]
      BY <1>5, <3>2
    <3> QED  BY <1>4, <3>1, <3>2
  <2> QED  BY <2>1 DEF NothingRuns
<1>7. state[d] = "Established" /\ laneOf[d] \in Lane  BY SubmitBears DEF IsTop
<1>8. Here(d, Fact("Running", d, a))
  BY <1>3, <1>4 DEF Here, Fact, Minted
<1>9. Next  BY DEF Next, AttemptStep
<1> QED  BY <1>2, <1>6, <1>7, <1>8, <1>9, OneFact DEF StepOf, Elsewhere

-----------------------------------------------------------------------------
(* The invariant after a step, in terms of what the step makes of the state. *)

NamesAfter(f, l) ==
    /\ f.domain # None => laneOf'[f.domain] = l
    /\ f.attempt # None =>
          /\ attempt'[f.attempt].state # "Unminted"
          /\ attempt'[f.attempt].domain = f.domain /\ f.domain # None
PlacesAfter(k) ==
    /\ k.lanes \subseteq known'
    /\ k.at \in {"publish", "seed", "seeded"} \cup Reading => k.lane \in known'
    /\ k.op = "frame" \/ (k.at = "mutate" /\ k.op \in {"gap", "submit"}) =>
          k.dom \in Domain /\ k.lane = laneOf'[k.dom] /\ k.lane \in known'
    /\ k.op = "loss" /\ k.at = "mutate" =>
          \E d \in Domain : transportOf'[d] = k.port /\ k.port # None /\ laneOf'[d] \in k.lanes
HandAfter(k) ==
    /\ k.news = <<>> \/ (k.at = "tell" /\ k.news = <<last'[k.lane]>>)
    /\ k.at \in {"deriveAttempt", "derived"} => NamesAfter(k.drawn.fact, k.lane)
    /\ k.at = "derived" /\ k.drawn.attemptState = "Completed" =>
          k.drawn.fact.attempt # None /\ attempt'[k.drawn.fact.attempt].state = "Completed"
CallAfter(c) ==
    /\ Stage(call'[c]) /\ PlacesAfter(call'[c]) /\ HandAfter(call'[c])
    /\ Holds(call'[c]) => turn'[call'[c].lane] = c
MuteAfter(k, l) ==
    k.lane = l =>
        /\ k.at # "deriveAttempt"
        /\ k.at \in {"derived", "seeded"} => k.drawn = NativeFact
        /\ k.news # <<>> => last'[l] = NativeFact
SpeaksAfter(k, l) ==
    /\ k.at = "mutate"
    /\ \/ k.op \in {"frame", "gap"} /\ k.lane = l
       \/ k.op = "loss" /\ \E d \in Domain : laneOf'[d] = l /\ transportOf'[d] = k.port
SettlesAfter(k, a) ==
    /\ k.op = "frame" /\ k.at = "report" /\ a \in k.open
    /\ k.lane = laneOf'[attempt'[a].domain]

\* These are the parts of the invariant, primed.
LEMMA AfterParts ==
    /\ FactNames' <=> \A l \in Lane : NamesAfter(lifecycle'[l], l) /\ NamesAfter(last'[l].fact, l)
    /\ Calls' <=> \A c \in Caller : CallAfter(c)
    /\ SilentLanes' <=> \A l \in Lane : Silent(l)' =>
          /\ lifecycle'[l] = Fact("Native", None, None)
          /\ last'[l] \in {Unseen, NativeFact} /\ told'[l] \in {Unseen, NativeFact}
          /\ \A c \in Caller : MuteAfter(call'[c], l)
    /\ Seeding' <=> \A c \in Caller : call'[c].at \in {"seed", "seeded"} =>
          /\ \A d \in Domain : laneOf'[d] = call'[c].lane => state'[d] = "Pending"
          /\ \A b \in Caller : ~SpeaksAfter(call'[b], call'[c].lane)
    /\ Reported' <=> \A a \in Attempt :
          attempt'[a].state = "Completed" /\ ~adopted'[attempt'[a].domain] =>
              a \in closedSaid' \/ \E c \in Caller : SettlesAfter(call'[c], a)
<1>1. FactNames' <=> \A l \in Lane : NamesAfter(lifecycle'[l], l) /\ NamesAfter(last'[l].fact, l)
  BY DEF FactNames, Names, NamesAfter, Minted
<1>2. Calls' <=> \A c \in Caller : CallAfter(c)
  BY DEF Calls, CallInv, CallAfter, Places, PlacesAfter, Hand, HandAfter, Names, NamesAfter,
         Minted, Stage, Holds
<1>3. SilentLanes' <=> \A l \in Lane : Silent(l)' =>
          /\ lifecycle'[l] = Fact("Native", None, None)
          /\ last'[l] \in {Unseen, NativeFact} /\ told'[l] \in {Unseen, NativeFact}
          /\ \A c \in Caller : MuteAfter(call'[c], l)
  BY DEF SilentLanes, SilentLane, Mute, MuteAfter, Silent
<1>4. Seeding' <=> \A c \in Caller : call'[c].at \in {"seed", "seeded"} =>
          /\ \A d \in Domain : laneOf'[d] = call'[c].lane => state'[d] = "Pending"
          /\ \A b \in Caller : ~SpeaksAfter(call'[b], call'[c].lane)
  BY DEF Seeding, Unheard, Silent, Speaks, SpeaksAfter
<1>5. Reported' <=> \A a \in Attempt :
          attempt'[a].state = "Completed" /\ ~adopted'[attempt'[a].domain] =>
              a \in closedSaid' \/ \E c \in Caller : SettlesAfter(call'[c], a)
  BY DEF Reported, Settles, SettlesAfter
<1> QED  BY <1>1, <1>2, <1>3, <1>4, <1>5

\* What no step undoes: where a shell is, what an attempt belongs to, and that
\* it has completed.
Keeps ==
    /\ \A x \in Domain : laneOf[x] # None =>
          laneOf'[x] = laneOf[x] /\ transportOf'[x] = transportOf[x]
    /\ \A a \in Attempt : Minted(a) =>
          /\ attempt'[a].state # "Unminted" /\ attempt'[a].domain = attempt[a].domain
          /\ attempt[a].state = "Completed" => attempt'[a].state = "Completed"
    /\ known \subseteq known'
\* What a step of c leaves to the others.
Local(c) ==
    /\ \A b \in Caller \ {c} : call'[b] = call[b]
    /\ \A l \in Lane : turn'[l] # turn[l] => turn[l] \in {None, c} /\ turn'[l] \in {None, c}
    /\ \A l \in Lane : turn[l] \notin {None, c} /\ call[turn[l]].news # <<>> =>
          last'[l] = last[l]

\* Whom a fact names, it names from then on.
LEMMA NamesKept ==
    ASSUME Keeps, NEW f \in LaneFact, NEW l \in Lane, Names(f, l)
    PROVE  NamesAfter(f, l)
BY NoneAssumption DEF Keeps, Names, NamesAfter, LaneFact, Minted

\* The calls of the others stay what they were.
LEMMA OthersKept ==
    ASSUME Types, Calls, Keeps, NEW c \in Caller, Local(c), NEW b \in Caller \ {c}
    PROVE  CallAfter(b)
<1>1. call'[b] = call[b] /\ CallInv(b) /\ call[b] \in CallT
  BY DEF Local, Calls, Types
<1> DEFINE k == call[b]
<1>2. k.drawn \in FactT /\ k.lane \in Lane \cup {None} /\ k.lanes \in SUBSET Lane
  BY <1>1 DEF CallT
<1>3. k.drawn.fact \in LaneFact  BY <1>2 DEF FactT
<1>4. Holds(k) => turn[k.lane] = b  BY <1>1 DEF CallInv
<1>5. Stage(k) /\ Places(k) /\ Hand(k)  BY <1>1 DEF CallInv
<1>6. known \subseteq Lane  BY DEF Types
<1> HIDE DEF k
<1>7. k.at \in Reading => k.lane \in Lane  BY <1>5, <1>6 DEF Places
<1>8. Holds(k) => turn'[k.lane] = b
  <2> SUFFICES ASSUME Holds(k) PROVE turn'[k.lane] = b  OBVIOUS
  <2>1. k.lane \in Lane  BY <1>5, <1>6 DEF Holds, Places
  <2> QED  BY <1>4, <2>1, CallersAssumption DEF Local
<1>9. PlacesAfter(k)
  <2>1. known \subseteq known' /\ None \notin known  BY <1>6, NoneAssumption DEF Keeps
  <2>2. k.op = "frame" \/ (k.at = "mutate" /\ k.op \in {"gap", "submit"}) =>
            k.dom \in Domain /\ k.lane = laneOf'[k.dom] /\ k.lane \in known'
    BY <1>5, <2>1 DEF Places, Keeps
  <2>3. k.op = "loss" /\ k.at = "mutate" =>
          \E d \in Domain : transportOf'[d] = k.port /\ k.port # None /\ laneOf'[d] \in k.lanes
    BY <1>2, <1>5, NoneAssumption DEF Places, Keeps
  <2> QED  BY <1>5, <2>1, <2>2, <2>3 DEF Places, PlacesAfter
<1>10. HandAfter(k)
  <2>1. k.news # <<>> => last'[k.lane] = last[k.lane]
    <3> SUFFICES ASSUME k.news # <<>> PROVE last'[k.lane] = last[k.lane]  OBVIOUS
    <3>1. k.at = "tell"  BY <1>5 DEF Hand
    <3>2. Holds(k) /\ k.lane \in Lane  BY <1>7, <3>1 DEF Holds, Reading
    <3> QED  BY <1>4, <3>2, CallersAssumption DEF Local, k
  <2>2. k.at \in {"deriveAttempt", "derived"} => NamesAfter(k.drawn.fact, k.lane)
    BY <1>3, <1>5, <1>7, NamesKept DEF Hand, Reading
  <2>3. k.at = "derived" /\ k.drawn.attemptState = "Completed" =>
          k.drawn.fact.attempt # None /\ attempt'[k.drawn.fact.attempt].state = "Completed"
    BY <1>3, <1>5 DEF Hand, Keeps, LaneFact, Minted
  <2> QED  BY <1>5, <2>1, <2>2, <2>3 DEF Hand, HandAfter
<1> QED  BY <1>1, <1>5, <1>8, <1>9, <1>10 DEF CallAfter, k

-----------------------------------------------------------------------------
(* The steps that do not change what the kernel says of the lanes.         *)

\* What a publisher reads of the kernel.
View == <<parent, laneOf, transportOf, adopted, state, lifecycle, recovery, attempt>>

\* Nothing derives differently when nothing read has changed.
LEMMA DerivedSame ==
    ASSUME NEW l \in Lane, lifecycle'[l] = lifecycle[l],
           lifecycle[l].attempt # None =>
               attempt'[lifecycle[l].attempt].state = attempt[lifecycle[l].attempt].state,
           lifecycle[l].state = "Lost" => recovery'[l] = recovery[l]
    PROVE  Derived(l)' = Derived(l) /\ HalfDerived(l)' = HalfDerived(l)
BY DEF Derived, HalfDerived, StateOf

\* A lane that the step of c leaves alone stays as well told as it was.
Aside(c, l) ==
    /\ turn[l] # c /\ turn'[l] # c
    /\ last'[l] = last[l] /\ told'[l] = told[l]
    /\ Derived(l)' = Derived(l) /\ HalfDerived(l)' = HalfDerived(l)
    /\ Announces(call[c], l) => Announces(call'[c], l)
\* The holder of such a lane's turn, and who announces it, are who they were.
LEMMA AsideKeeps ==
    ASSUME Types, NEW c \in Caller, Local(c), NEW l \in Lane, Aside(c, l)
    PROVE  /\ BaseOf(l) => BaseOf(l)'
           /\ CoverOf(l) => CoverOf(l)'
<1>1. turn'[l] = turn[l]
  BY DEF Local, Aside
<1>2. turn[l] # None => turn[l] \in Caller \ {c}
  BY DEF Types, Aside
<1>3. turn[l] # None => call'[turn[l]] = call[turn[l]]  BY <1>2 DEF Local
<1>4. Untold(l)' <=> Untold(l)  BY <1>1, <1>3 DEF Untold
<1>5. BaseOf(l)' <=> BaseOf(l)  BY <1>4 DEF BaseOf, Aside, Same
<1>6. InStep(l)' <=> InStep(l)
  <2>1. \A at : HolderAt(l, at)' <=> HolderAt(l, at)  BY <1>1, <1>3 DEF HolderAt
  <2>2. turn[l] # None => call'[turn'[l]].drawn = call[turn[l]].drawn  BY <1>1, <1>3
  <2> QED  BY <1>4, <2>1, <2>2 DEF InStep, Aside, HolderAt, Same
<1>7. (\E b \in Caller : Announces(call[b], l)) => \E b \in Caller : Announces(call'[b], l)
  BY DEF Aside, Local
<1> QED  BY <1>5, <1>6, <1>7 DEF CoverOf

\* What a step of c must do when it changes nothing the publisher reads.
Talks(c) ==
    /\ UNCHANGED <<View, known>> /\ Local(c)
    /\ accepts' \cup sending' \subseteq accepts \cup sending
    /\ closedSaid \subseteq closedSaid'
    /\ CallAfter(c)
    /\ \A l \in Lane :
          /\ turn'[l] = c => Holds(call'[c]) /\ call'[c].lane = l
          /\ last'[l] # last[l] => NamesAfter(last'[l].fact, l)
          /\ Silent(l) => /\ last'[l] \in {last[l], NativeFact}
                          /\ told'[l] \in {told[l], last[l]}
                          /\ MuteAfter(call'[c], l)
    /\ call'[c].at \in {"seed", "seeded"} =>
          call[c].at \in {"seed", "seeded"} /\ call'[c].lane = call[c].lane
    /\ \A b \in Caller : call[b].at \in {"seed", "seeded"} => ~Speaks(call'[c], call[b].lane)
    /\ \A a \in Attempt :
          /\ attempt[a].state = "Completed" /\ Settles(call[c], a) =>
                Settles(call'[c], a) \/ a \in closedSaid'
          /\ /\ call'[c].op = "frame" /\ call'[c].at = "mutate"
             /\ attempt[a].state = "Open" /\ attempt[a].started
             /\ laneOf[attempt[a].domain] = call'[c].lane
             => a \in call'[c].open
    /\ \A d \in accepts' \cup sending' : SendsFor(call[c], d) => SendsFor(call'[c], d)

\* Such a step keeps everything but the telling, which is each step's own.
LEMMA TalkKeeps ==
    ASSUME PInv, Types', NEW c \in Caller, Talks(c), Telling'
    PROVE  PInv'
<1>1. UNCHANGED View /\ Local(c) /\ known' = known  BY DEF Talks
<1>2. Registry'
  BY <1>1 DEF View, PInv, Registry, Roots, Owned, Minted
<1>3. Keeps  BY <1>1 DEF View, Keeps, Minted
<1>4. FactNames'
  <2> SUFFICES ASSUME NEW l \in Lane
               PROVE  NamesAfter(lifecycle'[l], l) /\ NamesAfter(last'[l].fact, l)
    BY AfterParts
  <2>1. lifecycle'[l] = lifecycle[l] /\ Names(lifecycle[l], l) /\ Names(last[l].fact, l)
    BY <1>1 DEF View, PInv, FactNames
  <2>2. \A f : Names(f, l) => NamesAfter(f, l)
    BY <1>1 DEF View, Names, NamesAfter, Minted
  <2> QED  BY <2>1, <2>2 DEF Talks
<1>5. Turns'
  <2> SUFFICES ASSUME NEW l \in Lane, turn'[l] # None
               PROVE  Holds(call'[turn'[l]]) /\ call'[turn'[l]].lane = l
    BY DEF Turns, Holds
  <2>1. CASE turn'[l] = c  BY <2>1 DEF Talks
  <2>2. CASE turn'[l] # c
    <3>1. turn'[l] = turn[l]  BY <1>1, <2>2 DEF Local
    <3>2. turn[l] \in Caller \ {c}  BY <2>2, <3>1 DEF PInv, Types
    <3> QED  BY <1>1, <3>1, <3>2 DEF Local, PInv, Turns
  <2> QED  BY <2>1, <2>2
<1>6. Calls'
  <2>1. \A b \in Caller \ {c} : CallAfter(b)  BY <1>1, <1>3, OthersKept DEF PInv
  <2> QED  BY <2>1, AfterParts DEF Talks
<1>7. SilentLanes'
  <2> SUFFICES ASSUME NEW l \in Lane, Silent(l)'
               PROVE  /\ lifecycle'[l] = Fact("Native", None, None)
                      /\ last'[l] \in {Unseen, NativeFact} /\ told'[l] \in {Unseen, NativeFact}
                      /\ \A b \in Caller : MuteAfter(call'[b], l)
    BY AfterParts
  <2>1. Silent(l)  BY <1>1 DEF View, Silent
  <2>2. SilentLane(l)  BY <2>1 DEF PInv, SilentLanes
  <2>3. \A b \in Caller \ {c} : MuteAfter(call'[b], l)
    BY <1>1, <2>1, <2>2 DEF Local, SilentLane, Mute, MuteAfter, Talks
  <2> QED  BY <1>1, <2>1, <2>2, <2>3 DEF View, SilentLane, Talks
<1>8. Seeding'
  <2> SUFFICES ASSUME NEW b \in Caller, call'[b].at \in {"seed", "seeded"}
               PROVE  /\ \A d \in Domain : laneOf'[d] = call'[b].lane => state'[d] = "Pending"
                      /\ \A e \in Caller : ~SpeaksAfter(call'[e], call'[b].lane)
    BY AfterParts
  <2>1. call[b].at \in {"seed", "seeded"} /\ call'[b].lane = call[b].lane
    BY <1>1 DEF Local, Talks
  <2>2. Unheard(call[b].lane)  BY <2>1 DEF PInv, Seeding
  <2>3. \A e \in Caller : ~Speaks(call'[e], call[b].lane)
    BY <1>1, <2>1, <2>2 DEF Local, Unheard, Talks
  <2> QED  BY <1>1, <2>1, <2>2, <2>3 DEF View, Unheard, Silent, Speaks, SpeaksAfter
<1>9. Closing'
  <2>1. Reported'
    <3> SUFFICES ASSUME NEW a \in Attempt, attempt[a].state = "Completed",
                        ~adopted[attempt[a].domain]
                 PROVE  a \in closedSaid' \/ \E b \in Caller : SettlesAfter(call'[b], a)
      BY <1>1, AfterParts DEF View
    <3>1. a \in closedSaid \/ \E b \in Caller : Settles(call[b], a)
      BY DEF PInv, Closing, Reported
    <3>2. \A b \in Caller : Settles(call[b], a) => Settles(call'[b], a) \/ a \in closedSaid'
      BY <1>1 DEF Local, Talks
    <3>3. \A b \in Caller : Settles(call'[b], a) => SettlesAfter(call'[b], a)
      BY <1>1 DEF View, Settles, SettlesAfter
    <3> QED  BY <3>1, <3>2, <3>3 DEF Talks
  <2>2. ReadOpen'
    BY <1>1 DEF View, Local, Talks, PInv, Closing, ReadOpen
  <2> QED  BY <2>1, <2>2 DEF Closing
<1>10. AcceptHeld'
  <2> SUFFICES ASSUME NEW d \in accepts' \cup sending'
               PROVE  \E b \in Caller : SendsFor(call'[b], d)
    BY DEF AcceptHeld, SendsFor
  <2>1. PICK b \in Caller : SendsFor(call[b], d)  BY DEF Talks, PInv, AcceptHeld
  <2> QED  BY <1>1, <2>1 DEF Local, Talks
<1> QED
  BY <1>2, <1>4, <1>5, <1>6, <1>7, <1>8, <1>9, <1>10 DEF PInv

\* The records a call is made of.
LEMMA CallTypes ==
    /\ Unseen \in FactT /\ NativeFact \in FactT /\ Idle \in CallT
    /\ NativeFact.fact = Fact("Native", None, None) /\ NativeFact # Unseen
    /\ Idle.op = "none" /\ Idle.at = "idle" /\ Idle.news = <<>> /\ Idle.lanes = {}
    /\ Idle.lane = None /\ Idle.open = {} /\ Idle.started = {}
<1>1. Fact("Native", None, None) \in LaneFact  BY DEF Fact, LaneFact, LaneState
<1>2. NoRecovery \in RecoveryT  BY DEF NoRecovery, RecoveryT
<1>3. Unseen \in FactT  BY <1>1, <1>2 DEF Unseen, FactT
<1>4. NativeFact = [fact |-> Fact("Native", None, None), attemptState |-> "Unminted",
                    recovery |-> NoRecovery]
  BY DEF NativeFact, Unseen
<1>5. NativeFact \in FactT  BY <1>1, <1>2, <1>4 DEF FactT, AttemptState
<1>6. NativeFact # Unseen  BY <1>4 DEF Unseen
<1>7. Idle \in CallT  BY <1>3 DEF Idle, CallT, Op, At
<1> QED  BY <1>3, <1>4, <1>5, <1>6, <1>7 DEF Idle

\* One call takes its step.
LEMMA CallMoves ==
    ASSUME Types, NEW c \in Caller, NEW k \in CallT, k.started \subseteq k.open,
           call' = [call EXCEPT ![c] = k]
    PROVE  /\ call'[c] = k /\ \A b \in Caller \ {c} : call'[b] = call[b]
           /\ call' \in [Caller -> CallT]
           /\ \A b \in Caller : call'[b].started \subseteq call'[b].open
BY DEF Types

\* A goroutine that does nothing holds no turn and announces nothing.
LEMMA IdleCalls ==
    ASSUME PInv, NEW c \in Caller, call[c] = Idle
    PROVE  /\ \A l \in Lane : turn[l] # c /\ ~Announces(call[c], l)
           /\ \A a : ~Settles(call[c], a)
           /\ \A d : ~SendsFor(call[c], d)
<1>1. ~Holds(Idle) /\ \A l : ~Announces(Idle, l)
  BY CallTypes DEF Holds, Announces, Reading
<1>2. \A l \in Lane : turn[l] # c  BY <1>1, CallersAssumption DEF PInv, Turns
<1> QED  BY <1>1, <1>2, CallTypes DEF Settles, SendsFor

\* A goroutine takes up a call: it is about to mutate or to publish.
Takes(c, k) ==
    /\ call[c] = Idle /\ call' = [call EXCEPT ![c] = k]
    /\ UNCHANGED <<kernelVars, last, known, emitted>>
    /\ k \in CallT /\ k.started \subseteq k.open /\ k.news = <<>>
    /\ k.at \in {"mutate", "publish"} /\ Stage(k) /\ Places(k)
    /\ \/ k.op # "frame" /\ turn' = turn
       \/ /\ k.op = "frame" /\ k.at = "mutate"
          /\ turn[k.lane] = None /\ turn' = [turn EXCEPT ![k.lane] = c]
          /\ k.open = OpenOn(k.lane)
    /\ \A b \in Caller : call[b].at \in {"seed", "seeded"} => ~Speaks(k, call[b].lane)
\* Nobody holds more turns than it says, and a frame has read what is open.
LEMMA TakesKeeps ==
    ASSUME PInv, NEW c \in Caller, NEW k, Takes(c, k)
    PROVE  PInv'
<1>1. Types /\ k \in CallT /\ call' = [call EXCEPT ![c] = k] /\ k.started \subseteq k.open
  BY DEF PInv, Takes
<1>2. /\ call'[c] = k /\ \A b \in Caller \ {c} : call'[b] = call[b]
      /\ call' \in [Caller -> CallT]
      /\ \A b \in Caller : call'[b].started \subseteq call'[b].open
  BY <1>1, CallMoves
<1>3. UNCHANGED <<View, accepts, sending, last, known, told, closedSaid, startSaid>>
  BY DEF Takes, View, kernelVars, vars, identityVars, deliveryVars, emitted
<1>4. k.op = "frame" => k.lane \in Lane
  BY <1>1 DEF Takes, Places, Types
<1>5. turn' \in [Lane -> Caller \cup {None}]
  BY <1>1, <1>4 DEF Takes, Types
<1>6. Types'  BY <1>1, <1>2, <1>3, <1>5 DEF Types
<1>7. \A l \in Lane : turn[l] # c /\ ~Announces(call[c], l)  BY IdleCalls DEF Takes
<1>8. \A l \in Lane :
          \/ turn'[l] = turn[l]
          \/ k.op = "frame" /\ l = k.lane /\ turn[l] = None /\ turn'[l] = c
  BY <1>1, <1>4 DEF Takes, Types
<1>9. Local(c)  BY <1>2, <1>3, <1>8 DEF Local
<1>10. Holds(k) <=> k.op = "frame"  BY DEF Holds, Takes, Reading, Stage
<1>11. CallAfter(c)
  <2>1. PlacesAfter(k)  BY <1>3 DEF View, Takes, Places, PlacesAfter
  <2>2. HandAfter(k)  BY DEF Takes, HandAfter
  <2>3. Holds(k) => turn'[k.lane] = c  BY <1>1, <1>4, <1>10 DEF Takes, Types
  <2> QED  BY <1>2, <2>1, <2>2, <2>3 DEF CallAfter, Takes
<1>12. \A l \in Lane : MuteAfter(k, l)  BY DEF MuteAfter, Takes
<1>13. Talks(c)
  <2>1. \A l \in Lane : turn'[l] = c => Holds(call'[c]) /\ call'[c].lane = l
    BY <1>2, <1>7, <1>8, <1>10
  <2>2. \A a : ~Settles(call[c], a)  BY IdleCalls DEF Takes
  <2>3. \A d : ~SendsFor(call[c], d)  BY IdleCalls DEF Takes
  <2>4. \A a \in Attempt :
             /\ call'[c].op = "frame" /\ call'[c].at = "mutate"
             /\ attempt[a].state = "Open" /\ attempt[a].started
             /\ laneOf[attempt[a].domain] = call'[c].lane
             => a \in call'[c].open
    BY <1>2 DEF Takes, OpenOn
  <2>5. call'[c].at \notin {"seed", "seeded"}  BY <1>2 DEF Takes
  <2>6. \A b \in Caller : call[b].at \in {"seed", "seeded"} => ~Speaks(call'[c], call[b].lane)
    BY <1>2 DEF Takes
  <2> QED
    BY <1>2, <1>3, <1>9, <1>11, <1>12, <2>1, <2>2, <2>3, <2>4, <2>5, <2>6 DEF Talks
<1>14. Telling'
  <2>1. ASSUME NEW l \in Lane PROVE BaseOf(l)' /\ CoverOf(l)'
    <3>1. BaseOf(l) /\ CoverOf(l)  BY DEF PInv, Telling, Baseline, Covered
    <3>2. Derived(l)' = Derived(l) /\ HalfDerived(l)' = HalfDerived(l)
      BY <1>3, DerivedSame DEF View
    <3>3. CASE turn'[l] = turn[l]
      <4>1. Aside(c, l)  BY <1>3, <1>7, <3>2, <3>3 DEF Aside
      <4> QED  BY <1>1, <1>9, <3>1, <4>1, AsideKeeps
    <3>4. CASE turn[l] = None /\ turn'[l] = c /\ k.op = "frame"
      <4>1. ~Untold(l) /\ ~Untold(l)'  BY <1>2, <3>4 DEF Untold, Takes
      <4>2. BaseOf(l)'  BY <1>3, <3>1, <4>1 DEF BaseOf, Same
      <4>3. InStep(l) => InStep(l)'
        <5>1. InStep(l) => Same(told[l], Derived(l))
          BY <3>4, <4>1 DEF InStep, HolderAt
        <5>2. ~HolderAt(l, "deriveAttempt")' /\ ~HolderAt(l, "derived")'
          BY <1>2, <3>4 DEF HolderAt, Takes
        <5> QED  BY <1>3, <3>2, <4>1, <5>1, <5>2 DEF InStep, Same
      <4>4. (\E b \in Caller : Announces(call[b], l)) => \E b \in Caller : Announces(call'[b], l)
        BY <1>2, <1>7
      <4> QED  BY <3>1, <4>2, <4>3, <4>4 DEF CoverOf
    <3> QED  BY <1>8, <3>3, <3>4
  <2> QED  BY <2>1 DEF Telling, Baseline, Covered
<1> QED  BY <1>6, <1>13, <1>14, TalkKeeps

\* What a call on a shell reads before it mutates.
LEMMA BegunRecord ==
    ASSUME NEW d \in Domain, laneOf[d] \in known, known \subseteq Lane,
           NEW op \in {"frame", "gap", "submit"}
    PROVE  LET k == Begun(op, d) IN
           /\ k \in CallT /\ k.started \subseteq k.open /\ k.news = <<>>
           /\ k.op = op /\ k.at = "mutate" /\ k.dom = d /\ k.lane = laneOf[d]
           /\ k.open = OpenOn(laneOf[d]) /\ Stage(k) /\ Places(k)
<1> DEFINE k == Begun(op, d)
<1>1. OpenOn(laneOf[d]) \subseteq Attempt /\ StartedOf(OpenOn(laneOf[d])) \subseteq OpenOn(laneOf[d])
  BY DEF OpenOn, StartedOf
<1>2. Idle \in CallT /\ Idle.news = <<>>  BY CallTypes
<1>3. k \in CallT  BY <1>1, <1>2 DEF Begun, CallT, Op, At
<1>4. /\ k.started \subseteq k.open /\ k.news = <<>> /\ k.lanes = {k.lane}
      /\ k.op = op /\ k.at = "mutate" /\ k.dom = d /\ k.lane = laneOf[d]
      /\ k.open = OpenOn(laneOf[d])
  BY <1>1, <1>2 DEF Begun, CallT
<1> HIDE DEF k
<1>5. Stage(k)  BY <1>4 DEF Stage
<1>6. Places(k)  BY <1>4 DEF Places, Reading
<1> QED  BY <1>3, <1>4, <1>5, <1>6 DEF k

\* A minted shell has its lane, and the publisher knows it.
LEMMA MintedKnown ==
    ASSUME IInv, Roots, Types, NEW d \in Domain,
           state[d] # "Unminted" \/ transportOf[d] \in Transport
    PROVE  laneOf[d] \in known /\ laneOf[d] \in Lane /\ known \subseteq Lane
BY NoneAssumption DEF IInv, Structure, Registered, Roots, Types

\* Whoever serves a shell finds its lane opened.
LEMMA ServedIsOpen ==
    ASSUME PInv, NEW t \in Transport, NEW d \in Domain, Serves(t, d),
           NEW b \in Caller, call[b].at \in {"seed", "seeded"}
    PROVE  call[b].lane # laneOf[d]
BY DEF Serves, PInv, Calls, CallInv, Stage

\* A pump, a handler or a closer takes up a call on a shell.
LEMMA BeginKeeps ==
    ASSUME IInv, PInv, NEW c \in Caller, NEW d \in Domain,
           \/ c \in Transport /\ (BeginFrame(c, d) \/ BeginGap(c, d))
           \/ BeginSubmit(c, d)
    PROVE  PInv'
<1>1. Roots /\ Types  BY DEF PInv, Registry
<1>2. /\ laneOf[d] \in known /\ known \subseteq Lane /\ call[c] = Idle
      /\ UNCHANGED <<kernelVars, last, known, emitted>>
  BY <1>1, MintedKnown DEF BeginFrame, BeginGap, BeginSubmit, Serves
<1>3. PICK op \in {"frame", "gap", "submit"} :
          /\ call' = [call EXCEPT ![c] = Begun(op, d)]
          /\ IF op = "frame" THEN turn[laneOf[d]] = None /\ turn' = [turn EXCEPT ![laneOf[d]] = c]
             ELSE turn' = turn
          /\ op # "submit" => c \in Transport /\ Serves(c, d)
  BY DEF BeginFrame, BeginGap, BeginSubmit
<1> DEFINE k == Begun(op, d)
<1>4. /\ k \in CallT /\ k.started \subseteq k.open /\ k.news = <<>>
      /\ k.op = op /\ k.at = "mutate" /\ k.dom = d /\ k.lane = laneOf[d]
      /\ k.open = OpenOn(laneOf[d]) /\ Stage(k) /\ Places(k)
  BY <1>2, BegunRecord
<1>5. \A b \in Caller : call[b].at \in {"seed", "seeded"} => ~Speaks(k, call[b].lane)
  BY <1>3, <1>4, ServedIsOpen DEF Speaks
<1> HIDE DEF k
<1>6. Takes(c, k)  BY <1>2, <1>3, <1>4, <1>5 DEF Takes, k
<1> QED  BY <1>6, TakesKeeps

\* A handler replays a lane to a subscriber.
LEMMA BeginReplayKeeps ==
    ASSUME PInv, NEW c \in Caller, NEW l \in Lane, BeginReplay(c, l)
    PROVE  PInv'
<1> DEFINE k == [Idle EXCEPT !.op = "replay", !.at = "publish", !.lane = l]
<1>1. Idle \in CallT  BY CallTypes
<1>2. k \in CallT  BY <1>1 DEF CallT, Op, At
<1>3. /\ k.started \subseteq k.open /\ k.news = <<>> /\ k.op = "replay"
      /\ k.at = "publish" /\ k.lane = l /\ k.lanes = {}
  BY <1>1, CallTypes DEF CallT
<1>4. /\ call[c] = Idle /\ l \in known /\ call' = [call EXCEPT ![c] = k]
      /\ UNCHANGED <<kernelVars, turn, last, known, emitted>>
  BY DEF BeginReplay
<1> HIDE DEF k
<1>5. Stage(k) /\ Places(k) /\ \A m : ~Speaks(k, m)
  BY <1>3, <1>4 DEF Stage, Places, Reading, Speaks
<1>6. Takes(c, k)  BY <1>2, <1>3, <1>4, <1>5 DEF Takes
<1> QED  BY <1>6, TakesKeeps

\* Whoever sees a transport end takes up its loss.
LEMMA BeginLossKeeps ==
    ASSUME IInv, PInv, NEW c \in Caller, NEW t \in Transport, BeginLoss(c, t)
    PROVE  PInv'
<1>1. Roots /\ Types  BY DEF PInv, Registry
<1>2. PICK d \in Domain : Serves(t, d)  BY DEF BeginLoss
<1>3. PICK open, started :
          /\ call' = [call EXCEPT ![c] =
                 [Idle EXCEPT !.op = "loss", !.at = "mutate", !.port = t, !.lanes = known,
                              !.open = open, !.started = started]]
          /\ open \subseteq Attempt /\ started \subseteq open
  <2> DEFINE on == UNION {OpenOn(l) : l \in {k \in known :
                 lifecycle[k].domain # None /\ transportOf[lifecycle[k].domain] = t}}
  <2>1. call' = [call EXCEPT ![c] =
                 [Idle EXCEPT !.op = "loss", !.at = "mutate", !.port = t, !.lanes = known,
                              !.open = on, !.started = StartedOf(on)]]
    BY DEF BeginLoss
  <2>2. on \subseteq Attempt /\ StartedOf(on) \subseteq on  BY DEF OpenOn, StartedOf
  <2> HIDE DEF on
  <2> QED  BY <2>1, <2>2
<1> DEFINE k == [Idle EXCEPT !.op = "loss", !.at = "mutate", !.port = t, !.lanes = known,
                              !.open = open, !.started = started]
<1>4. Idle \in CallT  BY CallTypes
<1>5. laneOf[d] \in known /\ known \subseteq Lane
  BY <1>1, <1>2, MintedKnown DEF Serves
<1>6. k \in CallT  BY <1>3, <1>4, <1>5 DEF CallT, Op, At
<1>7. /\ k.started \subseteq k.open /\ k.news = <<>> /\ k.op = "loss"
      /\ k.at = "mutate" /\ k.port = t /\ k.lanes = known
  BY <1>3, <1>4, CallTypes DEF CallT
<1>8. /\ call[c] = Idle /\ call' = [call EXCEPT ![c] = k]
      /\ UNCHANGED <<kernelVars, turn, last, known, emitted>>
  BY <1>3 DEF BeginLoss
<1> HIDE DEF k
<1>9. Stage(k)  BY <1>7 DEF Stage
<1>10. Places(k)
  BY <1>2, <1>5, <1>7, NoneAssumption DEF Places, Reading, Serves
<1>11. \A b \in Caller : call[b].at \in {"seed", "seeded"} => ~Speaks(k, call[b].lane)
  <2> SUFFICES ASSUME NEW b \in Caller, call[b].at \in {"seed", "seeded"},
                      Speaks(k, call[b].lane)
               PROVE  FALSE
    OBVIOUS
  <2>1. PICK x \in Domain : laneOf[x] = call[b].lane /\ transportOf[x] = t
    BY <1>7 DEF Speaks
  <2>2. x = d  BY <1>1, <1>2, <2>1, NoneAssumption DEF Roots, Serves
  <2> QED  BY <1>2, <2>1, <2>2, ServedIsOpen
<1>12. Takes(c, k)  BY <1>6, <1>7, <1>8, <1>9, <1>10, <1>11 DEF Takes
<1> QED  BY <1>12, TakesKeeps

\* A call under way takes a step that concerns the lane l only.
Steps(c, k, l) ==
    /\ UNCHANGED <<kernelVars, known>> /\ l \in known
    /\ call' = [call EXCEPT ![c] = k] /\ k \in CallT /\ k.started \subseteq k.open
    /\ turn' \in [Lane -> Caller \cup {None}]
    /\ last' \in [Lane -> FactT] /\ told' \in [Lane -> FactT]
    /\ closedSaid' \in SUBSET Attempt /\ startSaid' \in SUBSET Attempt
    /\ closedSaid \subseteq closedSaid'
    \* the other lanes
    /\ \A m \in Lane \ {l} :
          /\ turn[m] # c /\ turn'[m] = turn[m] /\ last'[m] = last[m] /\ told'[m] = told[m]
          /\ Announces(call[c], m) => Announces(k, m)
    /\ k.lane = l \/ k = Idle
    \* the turn and the baseline of the lane
    /\ turn'[l] # turn[l] => turn[l] \in {None, c} /\ turn'[l] \in {None, c}
    /\ Holds(k) => turn'[k.lane] = c
    /\ turn'[l] = c => Holds(k) /\ k.lane = l
    /\ turn[l] \notin {None, c} /\ call[turn[l]].news # <<>> => last'[l] = last[l]
    /\ last'[l] # last[l] => Names(last'[l].fact, l)
    /\ Silent(l) => /\ last'[l] \in {last[l], NativeFact}
                    /\ told'[l] \in {told[l], last[l]}
                    /\ MuteAfter(k, l)
    /\ BaseOf(l)' /\ CoverOf(l)'
    \* the call
    /\ Stage(k) /\ Places(k) /\ HandAfter(k)
    /\ k.at \notin {"mutate", "seed"}
    /\ k.at = "seeded" => call[c].at = "seed" /\ k.lane = call[c].lane
    /\ \A a \in Attempt : attempt[a].state = "Completed" /\ Settles(call[c], a) =>
          Settles(k, a) \/ a \in closedSaid'
    /\ \A d \in accepts \cup sending : SendsFor(call[c], d) => SendsFor(k, d)
\* Such a step keeps the invariant if the lane stays as well told as it was.
LEMMA StepsKeeps ==
    ASSUME PInv, NEW c \in Caller, NEW k, NEW l, Steps(c, k, l)
    PROVE  PInv'
<1>1. /\ Types /\ k \in CallT /\ call' = [call EXCEPT ![c] = k] /\ k.started \subseteq k.open
      /\ l \in Lane
  BY DEF PInv, Steps, Types
<1>2. /\ call'[c] = k /\ \A b \in Caller \ {c} : call'[b] = call[b]
      /\ call' \in [Caller -> CallT]
      /\ \A b \in Caller : call'[b].started \subseteq call'[b].open
  BY <1>1, CallMoves
<1>3. UNCHANGED <<View, accepts, sending, known>>
  BY DEF Steps, View, kernelVars, vars, identityVars, deliveryVars
<1>4. Types'  BY <1>1, <1>2, <1>3 DEF Types, Steps
<1>5. Local(c)  BY <1>2 DEF Local, Steps
<1>6. CallAfter(c)
  <2>1. PlacesAfter(k)  BY <1>3 DEF View, Steps, Places, PlacesAfter
  <2> QED  BY <1>2, <2>1 DEF CallAfter, Steps
<1>7. \A m \in Lane : turn'[m] = c => Holds(call'[c]) /\ call'[c].lane = m
  BY <1>2 DEF Steps
<1>8. \A m \in Lane : last'[m] # last[m] => NamesAfter(last'[m].fact, m)
  BY <1>3 DEF Steps, View, Names, NamesAfter, Minted
<1>9. \A m \in Lane : Silent(m) =>
          /\ last'[m] \in {last[m], NativeFact} /\ told'[m] \in {told[m], last[m]}
          /\ MuteAfter(call'[c], m)
  <2>1. \A m \in Lane \ {l} : k.lane # m  BY CallTypes, NoneAssumption DEF Steps
  <2> QED  BY <1>2, <2>1 DEF Steps, MuteAfter
<1>10. Talks(c)
  <2>1. \A m : ~Speaks(k, m)  BY DEF Speaks, Steps
  <2>2. \A a \in Attempt :
          attempt[a].state = "Completed" /\ Settles(call[c], a) =>
             Settles(call'[c], a) \/ a \in closedSaid'
    BY <1>2 DEF Steps
  <2>3. \A d \in accepts' \cup sending' : SendsFor(call[c], d) => SendsFor(call'[c], d)
    BY <1>2, <1>3 DEF Steps
  <2>4. k.at # "mutate" /\ (k.at \in {"seed", "seeded"} => call[c].at = "seed" /\ k.lane = call[c].lane)
    BY DEF Steps
  <2> QED
    BY <1>2, <1>3, <1>5, <1>6, <1>7, <1>8, <1>9, <2>1, <2>2, <2>3, <2>4 DEF Talks, Steps
<1>11. Telling'
  <2>1. ASSUME NEW m \in Lane \ {l} PROVE BaseOf(m)' /\ CoverOf(m)'
    <3>1. BaseOf(m) /\ CoverOf(m)  BY DEF PInv, Telling, Baseline, Covered
    <3>2. Derived(m)' = Derived(m) /\ HalfDerived(m)' = HalfDerived(m)
      BY <1>3, DerivedSame DEF View
    <3>3. Aside(c, m)  BY <1>2, <3>2 DEF Aside, Steps
    <3> QED  BY <1>1, <1>5, <3>1, <3>3, AsideKeeps
  <2>2. BaseOf(l)' /\ CoverOf(l)'  BY DEF Steps
  <2>3. \A m \in Lane : BaseOf(m)' /\ CoverOf(m)'  BY <2>1, <2>2
  <2> QED  BY <2>3 DEF Telling, Baseline, Covered
<1> QED  BY <1>4, <1>10, <1>11, TalkKeeps

\* What is known of a call under way.
UnderWay(c) ==
    /\ call[c] \in CallT /\ call[c].started \subseteq call[c].open
    /\ Stage(call[c]) /\ Places(call[c]) /\ Hand(call[c])
    /\ Holds(call[c]) => turn[call[c].lane] = c
    /\ \A m \in Lane : turn[m] = c => Holds(call[c]) /\ call[c].lane = m
    /\ \A m \in Lane : BaseOf(m) /\ CoverOf(m)
\* The invariant says all that of each call.
LEMMA CallUnderWay == ASSUME PInv, NEW c \in Caller PROVE UnderWay(c)
<1>1. \A m \in Lane : turn[m] = c => Holds(call[c]) /\ call[c].lane = m
  BY CallersAssumption DEF PInv, Turns
<1> QED
  BY <1>1 DEF PInv, Calls, CallInv, Types, UnderWay, Telling, Baseline, Covered

\* The attempts' transitions are reported, and the lane is to be published.
LEMMA ReportKeeps ==
    ASSUME PInv, NEW c \in Caller, NEW l \in Lane, Report(c, l)
    PROVE  PInv'
<1> DEFINE r == call[c]
           at == IF turn[l] = c THEN "derive" ELSE "publish"
           k == [r EXCEPT !.at = at, !.lane = l, !.lanes = r.lanes \ {l}]
           mine == {a \in r.open : laneOf[attempt[a].domain] = l}
           closed == {a \in mine : attempt[a].state # "Open"}
           starts == {a \in mine \ closed : a \notin r.started /\ attempt[a].started}
<1>1. /\ r.at = "report" /\ l \in r.lanes
      /\ closedSaid' = closedSaid \cup closed /\ startSaid' = startSaid \cup starts
      /\ call' = [call EXCEPT ![c] = k]
      /\ UNCHANGED <<kernelVars, turn, last, known, told>>
  <2>1. r \in CallT  BY CallUnderWay DEF UnderWay
  <2>2. [call EXCEPT ![c].at = at, ![c].lane = l, ![c].lanes = @ \ {l}] = [call EXCEPT ![c] = k]
    BY <2>1 DEF PInv, Types
  <2> QED  BY <2>2 DEF Report
<1>2. r \in CallT /\ UnderWay(c)  BY CallUnderWay DEF UnderWay
<1>3. /\ k \in CallT /\ k.op = r.op /\ k.at = at /\ k.lane = l /\ k.dom = r.dom /\ k.port = r.port
      /\ k.open = r.open /\ k.started = r.started /\ k.lanes = r.lanes \ {l}
      /\ k.drawn = r.drawn /\ k.news = r.news
  BY <1>2 DEF CallT, At
<1>4. /\ l \in known /\ closed \subseteq Attempt /\ starts \subseteq Attempt
  BY <1>1, <1>2 DEF UnderWay, Places, CallT
<1>5. r.op = "frame" <=> turn[l] = c
  BY <1>1, <1>2 DEF UnderWay, Stage, Holds, Reading
<1>6. r.op = "frame" => r.lanes = {l} /\ r.lane = l
  BY <1>1, <1>2 DEF UnderWay, Stage
<1>7. r.news = <<>>  BY <1>1, <1>2 DEF UnderWay, Hand
<1> HIDE DEF k, closed, starts, at
<1>8. at \in {"derive", "publish"} /\ (at = "derive" <=> r.op = "frame")
  BY <1>5 DEF at
<1>9. Stage(k)  BY <1>1, <1>2, <1>3, <1>6, <1>8 DEF Stage, UnderWay, Reading
<1>10. Places(k)  BY <1>1, <1>2, <1>3, <1>4, <1>6, <1>8 DEF Places, UnderWay, Reading
<1>11. HandAfter(k)  BY <1>3, <1>7, <1>8 DEF HandAfter
<1>12. Holds(k) <=> turn[l] = c  BY <1>3, <1>5, <1>8 DEF Holds, Reading
<1>13. MuteAfter(k, l)  BY <1>3, <1>7, <1>8 DEF MuteAfter
<1>14. \A m \in Lane \ {l} : turn[m] # c
  <2>1. Holds(r) => r.op = "frame"  BY <1>1 DEF Holds, Reading
  <2> QED  BY <1>2, <1>6, <2>1 DEF UnderWay
<1>15. \A m : Announces(r, m) => Announces(k, m)
  BY <1>1, <1>3, <1>8 DEF Announces
<1>16. Announces(k, l)  BY <1>3, <1>8 DEF Announces
<1>17. call'[c] = k /\ \A b \in Caller \ {c} : call'[b] = call[b]
  BY <1>1 DEF PInv, Types
<1>18. BaseOf(l)' /\ CoverOf(l)'
  <2>1. Untold(l)' <=> Untold(l)
    BY <1>1, <1>3, <1>17 DEF Untold, PInv, Types
  <2>2. BaseOf(l)'  BY <1>1, <1>2, <2>1 DEF UnderWay, BaseOf, Same
  <2> QED  BY <1>16, <1>17, <2>2 DEF CoverOf
<1>19. \A a \in Attempt : attempt[a].state = "Completed" /\ Settles(r, a) => a \in closedSaid'
  BY <1>1, <1>6 DEF Settles, closed
<1>20. \A d : SendsFor(r, d) => SendsFor(k, d)  BY <1>3, <1>8 DEF SendsFor
<1>21. Steps(c, k, l)
  BY <1>1, <1>2, <1>3, <1>4, <1>8, <1>9, <1>10, <1>11, <1>12, <1>13, <1>14, <1>15, <1>18,
     <1>19, <1>20 DEF Steps, PInv, Types, UnderWay
<1> QED  BY <1>21, StepsKeeps

\* A call takes the turn of the lane it publishes.
LEMMA TakeTurnKeeps ==
    ASSUME PInv, NEW c \in Caller, TakeTurn(c)
    PROVE  PInv'
<1> DEFINE r == call[c]
           k == [r EXCEPT !.at = "derive"]
<1>1. r \in CallT /\ UnderWay(c)  BY CallUnderWay DEF UnderWay
<1>2. /\ r.at = "publish" /\ turn[r.lane] = None /\ turn' = [turn EXCEPT ![r.lane] = c]
      /\ call' = [call EXCEPT ![c] = k]
      /\ UNCHANGED <<kernelVars, last, known, emitted>>
  BY <1>1 DEF TakeTurn, Goto
<1>3. /\ k \in CallT /\ k.op = r.op /\ k.at = "derive" /\ k.lane = r.lane /\ k.dom = r.dom
      /\ k.port = r.port /\ k.open = r.open /\ k.started = r.started /\ k.lanes = r.lanes
      /\ k.drawn = r.drawn /\ k.news = r.news
  BY <1>1 DEF CallT, At
<1>4. PICK l \in Lane : l = r.lane /\ l \in known
  BY <1>1, <1>2 DEF UnderWay, Places, PInv, Types
<1>5. r.news = <<>> /\ r.op # "frame"
  BY <1>1, <1>2 DEF UnderWay, Hand, Stage, Reading
<1> HIDE DEF k
<1>6. Stage(k)  BY <1>1, <1>2, <1>3, <1>5 DEF Stage, UnderWay
<1>7. Places(k)  BY <1>1, <1>2, <1>3, <1>4, <1>5 DEF Places, UnderWay
<1>8. HandAfter(k) /\ MuteAfter(k, l) /\ Holds(k)
  BY <1>3, <1>5 DEF HandAfter, MuteAfter, Holds, Reading
<1>9. \A m \in Lane : turn[m] # c
  BY <1>1, <1>2, <1>5 DEF UnderWay, Holds, Reading
<1>10. /\ turn' \in [Lane -> Caller \cup {None}] /\ turn'[l] = c
       /\ \A m \in Lane \ {l} : turn'[m] = turn[m]
  BY <1>2, <1>4 DEF PInv, Types
<1>11. /\ UNCHANGED <<told, closedSaid, startSaid>>  BY <1>2 DEF emitted
<1>12. \A m : Announces(r, m) => Announces(k, m)
  BY <1>2, <1>3 DEF Announces
<1>13. call'[c] = k /\ \A b \in Caller \ {c} : call'[b] = call[b]
  BY <1>2 DEF PInv, Types
<1>14. BaseOf(l)' /\ CoverOf(l)'
  <2>1. ~Untold(l) /\ ~Untold(l)'
    BY <1>2, <1>3, <1>4, <1>5, <1>10, <1>13 DEF Untold
  <2>2. BaseOf(l)'  BY <1>1, <1>2, <1>4, <1>11, <2>1 DEF UnderWay, BaseOf, Same
  <2>3. Announces(call'[c], l)  BY <1>3, <1>4, <1>13 DEF Announces
  <2> QED  BY <2>2, <2>3 DEF CoverOf
<1>15. \A a : ~Settles(r, a)  BY <1>2 DEF Settles
<1>16. \A d : ~SendsFor(r, d)  BY <1>5 DEF SendsFor
<1>17. k.started \subseteq k.open /\ k.at # "seeded"  BY <1>1, <1>3 DEF UnderWay
<1>18. Steps(c, k, l)
  BY <1>2, <1>3, <1>4, <1>6, <1>7, <1>8, <1>9, <1>10, <1>11, <1>12, <1>14, <1>15, <1>16, <1>17
  DEF Steps, PInv, Types
<1> QED  BY <1>18, StepsKeeps

\* What the kernel says of a lane, as a fact.
LEMMA DerivedType ==
    ASSUME IInv, NEW l \in Lane
    PROVE  /\ Derived(l) \in FactT /\ HalfDerived(l) \in FactT
           /\ HalfDerived(l).fact = lifecycle[l] /\ HalfDerived(l).attemptState = "Unminted"
           /\ Derived(l) = [HalfDerived(l) EXCEPT !.attemptState = StateOf(lifecycle[l].attempt)]
           /\ lifecycle[l].attempt = None => Derived(l) = HalfDerived(l)
           /\ lifecycle[l] = Fact("Native", None, None) => Derived(l) = NativeFact
<1>1. lifecycle[l] \in LaneFact /\ recovery[l] \in RecoveryT
  BY DEF IInv, TypeOK, RecoveryT
<1>2. NoRecovery \in RecoveryT  BY DEF NoRecovery, RecoveryT
<1>3. \A a \in Attempt \cup {None} : StateOf(a) \in AttemptState
  BY AttemptType DEF IInv, StateOf, AttemptState, AttemptRecord
<1>4. lifecycle[l].attempt \in Attempt \cup {None}  BY <1>1 DEF LaneFact
<1>5. /\ Derived(l) = [fact |-> lifecycle[l],
                       attemptState |-> StateOf(lifecycle[l].attempt),
                       recovery |-> IF lifecycle[l].state = "Lost" THEN recovery[l] ELSE NoRecovery]
      /\ HalfDerived(l) = [fact |-> lifecycle[l], attemptState |-> StateOf(None),
                       recovery |-> IF lifecycle[l].state = "Lost" THEN recovery[l] ELSE NoRecovery]
  BY DEF Derived, HalfDerived
<1>6. StateOf(None) = "Unminted"  BY DEF StateOf
<1>7. Derived(l) \in FactT /\ HalfDerived(l) \in FactT
  BY <1>1, <1>2, <1>3, <1>4, <1>5 DEF FactT
<1>8. NativeFact = [fact |-> Fact("Native", None, None), attemptState |-> "Unminted",
                    recovery |-> NoRecovery]
  BY DEF NativeFact, Unseen
<1>9. lifecycle[l] = Fact("Native", None, None) => Derived(l) = NativeFact
  BY <1>5, <1>6, <1>8 DEF Fact
<1> QED  BY <1>5, <1>6, <1>7, <1>9

\* What a holder of the lane's turn has in hand is the lane's fact.
InHand(k, l, heard, noted) ==
    IF k.at = "deriveAttempt" THEN k.drawn = HalfDerived(l)
    ELSE IF k.at = "derived" THEN k.drawn = Derived(l)
    ELSE IF k.news # <<>> THEN noted = Derived(l)
    ELSE Same(heard, Derived(l))

\* The holder of a lane's turn goes on, up to the telling.
Works(c, k, l) ==
    /\ call[c].at \in Reading /\ l = call[c].lane
    /\ UNCHANGED <<kernelVars, turn, known, closedSaid, startSaid>>
    /\ call' = [call EXCEPT ![c] = k] /\ k \in CallT
    /\ k.op = call[c].op /\ k.lane = l /\ k.dom = call[c].dom /\ k.port = call[c].port
    /\ k.open = call[c].open /\ k.started = call[c].started /\ k.lanes = call[c].lanes
    /\ k.at \in Reading \ {"derive"}
    /\ k.at = "deriveAttempt" => k.drawn.fact.attempt # None
    /\ last' \in [Lane -> FactT] /\ told' \in [Lane -> FactT]
    /\ \A m \in Lane \ {l} : last'[m] = last[m] /\ told'[m] = told[m]
    /\ HandAfter(k)
    /\ last'[l] # last[l] => Names(last'[l].fact, l)
    /\ Silent(l) => /\ last'[l] \in {last[l], NativeFact}
                    /\ told'[l] \in {told[l], last[l]}
                    /\ MuteAfter(k, l)
    /\ k.news # <<>> \/ Same(told'[l], last'[l])
    /\ call[c].at = "derive" \/ InHand(call[c], l, told[l], last[l]) =>
          InHand(k, l, told'[l], last'[l])
\* Such a step keeps the invariant: the holder has the lane's fact in hand.
LEMMA WorksKeeps ==
    ASSUME PInv, NEW c \in Caller, NEW k, NEW l, Works(c, k, l)
    PROVE  PInv'
<1> DEFINE r == call[c]
<1>1. r \in CallT /\ UnderWay(c)  BY CallUnderWay DEF UnderWay
<1>2. l \in known /\ l \in Lane /\ Holds(r) /\ turn[l] = c
  BY <1>1 DEF Works, UnderWay, Places, Holds, PInv, Types
<1>3. call'[c] = k /\ \A b \in Caller \ {c} : call'[b] = call[b]
  BY DEF PInv, Types, Works
<1>4. Stage(k)
  BY <1>1 DEF Works, UnderWay, Stage, Reading
<1>5. Places(k)  BY <1>1 DEF Works, UnderWay, Places, Reading
<1>6. Holds(k) /\ turn'[l] = c /\ turn[l] # None
  BY <1>2, CallersAssumption DEF Works, Holds
<1>7. \A m : m # l => (Announces(r, m) => Announces(k, m))
  BY DEF Works, Announces, Reading
<1>8. BaseOf(l)' /\ CoverOf(l)'
  <2>1. Untold(l)' <=> k.news # <<>>
    BY <1>3, <1>6, CallersAssumption DEF Untold
  <2>2. BaseOf(l)'  BY <2>1 DEF BaseOf, Works, Same
  <2>3. CASE \E b \in Caller \ {c} : Announces(call[b], l)
    BY <1>3, <2>2, <2>3 DEF CoverOf, Announces
  <2>4. CASE l \in r.lanes
    <3>1. Announces(call'[c], l)  BY <1>3, <2>4 DEF Works, Announces, Reading
    <3> QED  BY <2>2, <3>1 DEF CoverOf, Announces
  <2>5. CASE r.at = "derive" \/ InStep(l)
    <3>1. InStep(l) <=> InHand(r, l, told[l], last[l])
      BY <1>2, <1>6 DEF InStep, InHand, HolderAt, Untold
    <3>2. InHand(k, l, told'[l], last'[l])  BY <2>5, <3>1 DEF Works
    <3>3. Derived(l)' = Derived(l) /\ HalfDerived(l)' = HalfDerived(l)
      BY DEF Works, kernelVars, vars, identityVars, deliveryVars, Derived, HalfDerived, StateOf
    <3>4. /\ HolderAt(l, "deriveAttempt")' <=> k.at = "deriveAttempt"
          /\ HolderAt(l, "derived")' <=> k.at = "derived"
          /\ call'[turn'[l]] = k
      BY <1>3, <1>6, CallersAssumption DEF HolderAt
    <3>5. InStep(l)'
      BY <2>1, <3>2, <3>3, <3>4 DEF InStep, InHand, Same
    <3> QED  BY <2>2, <3>5 DEF CoverOf
  <2>6. CoverOf(l)
    BY <1>1, <1>2 DEF UnderWay
  <2>7. CoverOf(l)'
    BY <2>3, <2>4, <2>5, <2>6 DEF CoverOf, Announces, Works, Reading
  <2> QED  BY <2>2, <2>7
<1>9. \A a : ~Settles(r, a)  BY DEF Settles, Works, Reading
<1>10. \A d : SendsFor(r, d) => SendsFor(k, d)  BY DEF SendsFor, Works, Reading
<1>11. k.started \subseteq k.open /\ k.at \notin {"mutate", "seed", "seeded"}
  BY <1>1 DEF UnderWay, Works, Reading
<1>12. \A m \in Lane \ {l} : turn[m] # c  BY <1>1 DEF UnderWay, Works
<1>13. /\ UNCHANGED <<kernelVars, known, turn, closedSaid, startSaid>>
       /\ call' = [call EXCEPT ![c] = k] /\ k \in CallT /\ k.lane = l
       /\ last' \in [Lane -> FactT] /\ told' \in [Lane -> FactT]
       /\ \A m \in Lane \ {l} : last'[m] = last[m] /\ told'[m] = told[m]
       /\ HandAfter(k)
       /\ last'[l] # last[l] => Names(last'[l].fact, l)
       /\ Silent(l) => /\ last'[l] \in {last[l], NativeFact}
                       /\ told'[l] \in {told[l], last[l]}
                       /\ MuteAfter(k, l)
  BY DEF Works
<1>14. Steps(c, k, l)
  BY <1>2, <1>4, <1>5, <1>6, <1>7, <1>8, <1>9, <1>10, <1>11, <1>12, <1>13
  DEF Steps, PInv, Types
<1> QED  BY <1>14, StepsKeeps

\* The holder of the lane's turn and the lane.
LEMMA HolderOf ==
    ASSUME PInv, NEW c \in Caller, call[c].at \in Reading
    PROVE  /\ call[c] \in CallT /\ Stage(call[c]) /\ Hand(call[c])
           /\ call[c].lane \in Lane /\ turn[call[c].lane] = c
           /\ BaseOf(call[c].lane) /\ (Untold(call[c].lane) <=> call[c].news # <<>>)
           /\ Silent(call[c].lane) => SilentLane(call[c].lane) /\ Mute(call[c], call[c].lane)
<1>1. UnderWay(c) /\ call[c] \in CallT  BY CallUnderWay DEF UnderWay
<1>2. call[c].lane \in Lane /\ turn[call[c].lane] = c
  BY <1>1 DEF UnderWay, Places, Holds, PInv, Types
<1>3. Untold(call[c].lane) <=> call[c].news # <<>>
  BY <1>2, CallersAssumption DEF Untold
<1> QED  BY <1>1, <1>2, <1>3 DEF UnderWay, PInv, SilentLanes, SilentLane

\* It reads the lane's fact.
LEMMA ReadFactKeeps ==
    ASSUME IInv, PInv, NEW c \in Caller, ReadFact(c, "derive", "deriveAttempt", "derived")
    PROVE  PInv'
<1> DEFINE r == call[c]
<1>1. r.at = "derive" /\ r.at \in Reading  BY DEF ReadFact, Reading
<1>2. PICK l \in Lane : l = r.lane  BY <1>1, HolderOf
<1> DEFINE at == IF lifecycle[l].attempt = None THEN "derived" ELSE "deriveAttempt"
           k == [r EXCEPT !.drawn = HalfDerived(l), !.at = at]
<1>3. /\ r \in CallT /\ Stage(r) /\ Hand(r) /\ r.news = <<>> /\ BaseOf(l)
      /\ Untold(l) <=> r.news # <<>>
      /\ Silent(l) => SilentLane(l)
  BY <1>1, <1>2, HolderOf DEF Hand
<1>4. /\ HalfDerived(l) \in FactT /\ HalfDerived(l).fact = lifecycle[l]
      /\ HalfDerived(l).attemptState = "Unminted"
      /\ lifecycle[l].attempt = None => Derived(l) = HalfDerived(l)
      /\ lifecycle[l] = Fact("Native", None, None) => Derived(l) = NativeFact
  BY DerivedType
<1>5. call' = [call EXCEPT ![c] = k] /\ UNCHANGED <<kernelVars, turn, last, known, emitted>>
  <2>1. [Derived(l) EXCEPT !.attemptState = StateOf(None)] = HalfDerived(l)
    BY DEF HalfDerived
  <2>2. [call EXCEPT ![c].drawn = HalfDerived(l), ![c].at = at] = [call EXCEPT ![c] = k]
    BY DEF PInv, Types
  <2>3. call' = [call EXCEPT ![c].drawn = HalfDerived(l),
                     ![c].at = IF HalfDerived(l).fact.attempt = None THEN "derived"
                               ELSE "deriveAttempt"]
    BY <1>2, <2>1 DEF ReadFact
  <2>4. at = IF HalfDerived(l).fact.attempt = None THEN "derived" ELSE "deriveAttempt"
    BY <1>4
  <2>5. call' = [call EXCEPT ![c].drawn = HalfDerived(l), ![c].at = at]  BY <2>3, <2>4
  <2>6. UNCHANGED <<kernelVars, turn, last, known, emitted>>  BY DEF ReadFact
  <2> HIDE DEF at, k
  <2>7. call' = [call EXCEPT ![c] = k]  BY <2>2, <2>5
  <2> QED  BY <2>6, <2>7
<1>6. /\ k \in CallT /\ k.op = r.op /\ k.at = at /\ k.lane = l /\ k.dom = r.dom
      /\ k.port = r.port /\ k.open = r.open /\ k.started = r.started /\ k.lanes = r.lanes
      /\ k.drawn = HalfDerived(l) /\ k.news = r.news
  BY <1>2, <1>3, <1>4 DEF CallT, At
<1> HIDE DEF k
<1>7. HandAfter(k)
  <2>1. Names(lifecycle[l], l)  BY DEF PInv, FactNames
  <2>2. NamesAfter(lifecycle[l], l)
    BY <1>5, <2>1
    DEF kernelVars, vars, identityVars, Names, NamesAfter, Minted
  <2> QED  BY <1>3, <1>4, <1>6, <2>2 DEF HandAfter
<1>8. Silent(l) => MuteAfter(k, l)
  <2>1. Silent(l) => lifecycle[l].attempt = None /\ Derived(l) = NativeFact
    BY <1>3, <1>4 DEF SilentLane, Fact
  <2> QED  BY <1>3, <1>4, <1>6, <2>1 DEF MuteAfter
<1>9. InHand(k, l, told'[l], last'[l])
  BY <1>4, <1>6 DEF InHand
<1>10. k.news # <<>> \/ Same(told'[l], last'[l])
  BY <1>3, <1>5 DEF BaseOf, emitted, Same
<1>11. k.at \in Reading \ {"derive"} /\ (k.at = "deriveAttempt" => k.drawn.fact.attempt # None)
  BY <1>4, <1>6 DEF Reading
<1>12. Works(c, k, l)
  BY <1>1, <1>2, <1>5, <1>6, <1>7, <1>8, <1>9, <1>10, <1>11 DEF Works, emitted, PInv, Types
<1> QED  BY <1>12, WorksKeeps

\* It reads the state of the attempt the fact names.
LEMMA ReadAttemptKeeps ==
    ASSUME IInv, PInv, NEW c \in Caller, ReadAttempt(c, "deriveAttempt", "derived")
    PROVE  PInv'
<1> DEFINE r == call[c]
           drawn == [r.drawn EXCEPT !.attemptState = StateOf(r.drawn.fact.attempt)]
           k == [r EXCEPT !.at = "derived", !.drawn = drawn]
<1>1. r.at = "deriveAttempt" /\ r.at \in Reading  BY DEF ReadAttempt, Reading
<1>2. PICK l \in Lane : l = r.lane  BY <1>1, HolderOf
<1>3. /\ r \in CallT /\ Stage(r) /\ Hand(r) /\ r.news = <<>> /\ BaseOf(l)
      /\ Untold(l) <=> r.news # <<>>
      /\ Silent(l) => Mute(r, l)
  BY <1>1, <1>2, HolderOf DEF Hand
<1>4. /\ HalfDerived(l).fact = lifecycle[l]
      /\ Derived(l) = [HalfDerived(l) EXCEPT !.attemptState = StateOf(lifecycle[l].attempt)]
  BY DerivedType
<1>5. call' = [call EXCEPT ![c] = k] /\ UNCHANGED <<kernelVars, turn, last, known, emitted>>
  BY <1>3 DEF ReadAttempt, CallT, PInv, Types
<1>6. r.drawn \in FactT /\ r.drawn.fact.attempt # None /\ r.drawn.fact.attempt \in Attempt
  BY <1>1, <1>3 DEF Stage, CallT, FactT, LaneFact
<1>7. drawn \in FactT /\ drawn.fact = r.drawn.fact
      /\ drawn.attemptState = attempt[r.drawn.fact.attempt].state
  BY <1>6, AttemptType DEF FactT, StateOf, AttemptState, IInv, AttemptRecord
<1> HIDE DEF drawn
<1>8. /\ k \in CallT /\ k.op = r.op /\ k.at = "derived" /\ k.lane = l /\ k.dom = r.dom
      /\ k.port = r.port /\ k.open = r.open /\ k.started = r.started /\ k.lanes = r.lanes
      /\ k.drawn = drawn /\ k.news = r.news
  BY <1>2, <1>3, <1>7 DEF CallT, At
<1> HIDE DEF k
<1>9. HandAfter(k)
  <2>1. Names(drawn.fact, l)  BY <1>1, <1>2, <1>3, <1>7 DEF Hand
  <2>2. UNCHANGED <<laneOf, attempt>>
    BY <1>5 DEF kernelVars, vars, identityVars
  <2>3. NamesAfter(drawn.fact, l)
    BY <2>1, <2>2 DEF Names, NamesAfter, Minted
  <2> QED  BY <1>3, <1>6, <1>7, <1>8, <2>2, <2>3 DEF HandAfter
<1>10. ~Silent(l)  BY <1>1, <1>2, <1>3 DEF Mute
<1>11. InHand(r, l, told[l], last[l]) => InHand(k, l, told'[l], last'[l])
  BY <1>1, <1>4, <1>8 DEF InHand, drawn
<1>12. Same(told'[l], last'[l])
  BY <1>3, <1>5 DEF BaseOf, emitted, Same
<1>13. k.at \in Reading \ {"derive"} /\ k.at # "deriveAttempt"
  BY <1>8 DEF Reading
<1>14. Works(c, k, l)
  BY <1>1, <1>2, <1>5, <1>8, <1>9, <1>10, <1>11, <1>12, <1>13 DEF Works, emitted, PInv, Types
<1> QED  BY <1>14, WorksKeeps

\* It records the fact as the lane's baseline.
LEMMA RecordKeeps ==
    ASSUME PInv, NEW c \in Caller, Record(c)
    PROVE  PInv'
<1> DEFINE r == call[c]
           new == r.drawn # last[r.lane] \/ r.op = "replay"
           news == IF new THEN Append(r.news, r.drawn) ELSE r.news
           k == [r EXCEPT !.at = "tell", !.drawn = Unseen, !.news = news]
<1>1. r.at = "derived" /\ r.at \in Reading  BY DEF Record, Reading
<1>2. PICK l \in Lane : l = r.lane  BY <1>1, HolderOf
<1>3. /\ r \in CallT /\ Stage(r) /\ Hand(r) /\ r.news = <<>> /\ BaseOf(l)
      /\ Untold(l) <=> r.news # <<>>
      /\ Silent(l) => Mute(r, l)
  BY <1>1, <1>2, HolderOf DEF Hand
<1>4. r.op = "frame" => r.lanes = {}  BY <1>1, <1>3 DEF Stage
<1>5. /\ call' = [call EXCEPT ![c] = k] /\ last' = [last EXCEPT ![l] = r.drawn]
      /\ UNCHANGED <<kernelVars, turn, known, emitted>>
  <2>1. ~(r.op = "frame" /\ r.lane \in r.lanes)  BY <1>4
  <2>2. /\ call' = [call EXCEPT ![c].at = "tell", ![c].drawn = Unseen,
                       ![c].news = IF new THEN Append(@, r.drawn) ELSE @]
        /\ last' = [last EXCEPT ![l] = r.drawn]
        /\ UNCHANGED <<kernelVars, turn, known, emitted>>
    BY <1>2, <2>1 DEF Record
  <2>3. [call EXCEPT ![c].at = "tell", ![c].drawn = Unseen,
                     ![c].news = IF new THEN Append(@, r.drawn) ELSE @]
        = [call EXCEPT ![c] = k]
    BY <1>3 DEF CallT, PInv, Types
  <2> QED  BY <2>2, <2>3
<1>6. r.drawn \in FactT  BY <1>3 DEF CallT
<1>7. news = IF new THEN <<r.drawn>> ELSE <<>>  BY <1>3, <1>6
<1> HIDE DEF news, new
<1>8. news \in Seq(FactT) /\ (news # <<>> <=> new)
  <2>1. <<r.drawn>> \in Seq(FactT) /\ <<r.drawn>> # <<>> /\ <<>> \in Seq(FactT)  BY <1>6
  <2> QED  BY <1>7, <2>1
<1> USE DEF new
<1>9. Unseen \in FactT  BY CallTypes
<1>10. /\ k \in CallT /\ k.op = r.op /\ k.at = "tell" /\ k.lane = l /\ k.dom = r.dom
       /\ k.port = r.port /\ k.open = r.open /\ k.started = r.started /\ k.lanes = r.lanes
       /\ k.news = news
  BY <1>2, <1>3, <1>8, <1>9 DEF CallT, At
<1> HIDE DEF k
<1>11. /\ last' \in [Lane -> FactT] /\ last'[l] = r.drawn
       /\ \A m \in Lane \ {l} : last'[m] = last[m]
  BY <1>5, <1>6 DEF PInv, Types
<1>12. HandAfter(k)  BY <1>7, <1>10, <1>11 DEF HandAfter
<1>13. Names(last'[l].fact, l)  BY <1>1, <1>2, <1>3, <1>11 DEF Hand
<1>14. Silent(l) => last'[l] = NativeFact /\ MuteAfter(k, l)
  BY <1>1, <1>2, <1>3, <1>10, <1>11 DEF Mute, MuteAfter
<1>15. k.news # <<>> \/ Same(told'[l], last'[l])
  BY <1>2, <1>3, <1>5, <1>8, <1>10, <1>11 DEF BaseOf, emitted, Same
<1>16. InHand(r, l, told[l], last[l]) => InHand(k, l, told'[l], last'[l])
  BY <1>1, <1>10, <1>11, <1>15 DEF InHand, Same
<1>17. k.at \in Reading \ {"derive"} /\ k.at # "deriveAttempt"
  BY <1>10 DEF Reading
<1>18. Works(c, k, l)
  BY <1>1, <1>2, <1>5, <1>10, <1>11, <1>12, <1>13, <1>14, <1>15, <1>16, <1>17
  DEF Works, emitted, PInv, Types
<1> QED  BY <1>18, WorksKeeps

\* It tells the fact.
LEMMA TellKeeps ==
    ASSUME PInv, NEW c \in Caller, Tell(c)
    PROVE  PInv'
<1> DEFINE r == call[c]
           k == [r EXCEPT !.news = <<>>]
<1>1. r.at = "tell" /\ r.at \in Reading /\ r.news # <<>>  BY DEF Tell, Reading
<1>2. PICK l \in Lane : l = r.lane  BY <1>1, HolderOf
<1>3. r \in CallT /\ r.news = <<last[l]>> /\ last[l] \in FactT
  BY <1>1, <1>2, HolderOf DEF Hand, PInv, Types
<1>4. Head(r.news) = last[l] /\ Tail(r.news) = <<>>  BY <1>3
<1>5. /\ call' = [call EXCEPT ![c] = k] /\ told' = [told EXCEPT ![l] = last[l]]
      /\ UNCHANGED <<kernelVars, turn, last, known, closedSaid, startSaid>>
  BY <1>2, <1>4 DEF Tell
<1>6. /\ k \in CallT /\ k.op = r.op /\ k.at = "tell" /\ k.lane = l /\ k.dom = r.dom
      /\ k.port = r.port /\ k.open = r.open /\ k.started = r.started /\ k.lanes = r.lanes
      /\ k.news = <<>>
  <2>1. <<>> \in Seq(FactT)  OBVIOUS
  <2> QED  BY <1>1, <1>2, <1>3, <2>1 DEF CallT
<1> HIDE DEF k
<1>7. /\ told' \in [Lane -> FactT] /\ told'[l] = last[l]
      /\ \A m \in Lane \ {l} : told'[m] = told[m]
  BY <1>3, <1>5 DEF PInv, Types
<1>8. HandAfter(k) /\ MuteAfter(k, l)  BY <1>6 DEF HandAfter, MuteAfter
<1>9. Same(told'[l], last'[l])  BY <1>5, <1>7 DEF Same
<1>10. InHand(r, l, told[l], last[l]) => InHand(k, l, told'[l], last'[l])
  BY <1>1, <1>6, <1>7 DEF InHand, Same
<1>11. k.at \in Reading \ {"derive"} /\ k.at # "deriveAttempt"  BY <1>6 DEF Reading
<1>12. Works(c, k, l)
  BY <1>1, <1>2, <1>5, <1>6, <1>7, <1>8, <1>9, <1>10, <1>11 DEF Works, PInv, Types
<1> QED  BY <1>12, WorksKeeps

\* It gives the turn back.
LEMMA EndTurnKeeps ==
    ASSUME PInv, NEW c \in Caller, EndTurn(c)
    PROVE  PInv'
<1> DEFINE r == call[c]
           goes == [r EXCEPT !.at = "report"]
           k == IF r.lanes = {} THEN Idle ELSE goes
<1>1. r.at = "tell" /\ r.at \in Reading /\ r.news = <<>> /\ AcceptGone(c)
  BY DEF EndTurn, Reading
<1>2. PICK l \in Lane : l = r.lane  BY <1>1, HolderOf
<1>3. /\ r \in CallT /\ Stage(r) /\ turn[l] = c /\ BaseOf(l) /\ ~Untold(l)
  BY <1>1, <1>2, HolderOf
<1>4. UnderWay(c)  BY CallUnderWay
<1>5. /\ call' = [call EXCEPT ![c] = k] /\ turn' = [turn EXCEPT ![l] = None]
      /\ UNCHANGED <<kernelVars, last, known, emitted>>
  BY <1>2 DEF EndTurn, Return, Goto, PInv, Types
<1>6. /\ goes \in CallT /\ goes.op = r.op /\ goes.at = "report" /\ goes.lane = l
      /\ goes.dom = r.dom /\ goes.port = r.port /\ goes.open = r.open
      /\ goes.started = r.started /\ goes.lanes = r.lanes /\ goes.news = <<>>
  BY <1>1, <1>2, <1>3 DEF CallT, At
<1> HIDE DEF goes
<1>7. r.lanes # {} => r.op # "frame" /\ r.op # "none"
  BY <1>1, <1>3 DEF Stage
<1>8. k \in CallT /\ k.started \subseteq k.open /\ k.news = <<>>
  BY <1>4, <1>6, CallTypes DEF UnderWay
<1>9. Stage(k)
  <2>1. Stage(Idle)  BY CallTypes DEF Stage, Reading
  <2>2. r.lanes # {} => Stage(goes)  BY <1>6, <1>7 DEF Stage
  <2> QED  BY <2>1, <2>2
<1>10. Places(k)
  <2>1. Places(Idle)  BY CallTypes DEF Places, Reading
  <2>2. r.lanes # {} => Places(goes)  BY <1>4, <1>6, <1>7 DEF Places, Reading, UnderWay
  <2> QED  BY <2>1, <2>2
<1>11. ~Holds(k) /\ k.at \in {"idle", "report"} /\ (k.lane = l \/ k = Idle)
  BY <1>6, <1>7, CallTypes DEF Holds, Reading
<1>12. HandAfter(k) /\ MuteAfter(k, l)  BY <1>8, <1>11 DEF HandAfter, MuteAfter
<1>13. /\ turn' \in [Lane -> Caller \cup {None}] /\ turn'[l] = None
       /\ \A m \in Lane \ {l} : turn'[m] = turn[m] /\ turn[m] # c
  BY <1>2, <1>4, <1>5 DEF PInv, Types, UnderWay
<1>14. \A m : m \in r.lanes => Announces(k, m)
  BY <1>6 DEF Announces
<1>15. \A m : Announces(r, m) => Announces(k, m)
  BY <1>1, <1>14 DEF Announces
<1>16. call'[c] = k /\ \A b \in Caller \ {c} : call'[b] = call[b]
  BY <1>5 DEF PInv, Types
<1>17. UNCHANGED <<told, closedSaid, startSaid>>  BY <1>5 DEF emitted
<1>18. BaseOf(l)' /\ CoverOf(l)'
  <2>1. BaseOf(l)'  BY <1>3, <1>5, <1>17 DEF BaseOf, Same
  <2>2. CASE \E b \in Caller : Announces(call[b], l)
    <3>1. \E b \in Caller : Announces(call'[b], l)  BY <1>15, <1>16, <2>2
    <3> QED  BY <2>1, <3>1 DEF CoverOf
  <2>3. CASE InStep(l)
    <3>1. Same(told[l], Derived(l))
      BY <1>1, <1>3, <2>3 DEF InStep, HolderAt
    <3>2. Derived(l)' = Derived(l)
      BY <1>5 DEF kernelVars, vars, identityVars, deliveryVars, Derived, StateOf
    <3>3. InStep(l)'
      BY <1>13, <1>17, <3>1, <3>2 DEF InStep, HolderAt, Untold, Same
    <3> QED  BY <2>1, <3>3 DEF CoverOf
  <2> QED  BY <1>4, <2>1, <2>2, <2>3 DEF UnderWay, CoverOf
<1>19. \A a : ~Settles(r, a)  BY <1>1 DEF Settles
<1>20. \A d \in accepts \cup sending : ~SendsFor(r, d)
  BY <1>1 DEF SendsFor, AcceptGone
<1>21. l \in known  BY <1>1, <1>2, <1>4 DEF UnderWay, Places
<1> HIDE DEF k
<1>22. Steps(c, k, l)
  BY <1>3, <1>5, <1>8, <1>9, <1>10, <1>11, <1>12, <1>13, <1>15, <1>17, <1>18, <1>19, <1>20, <1>21,
     CallersAssumption
  DEF Steps, PInv, Types
<1> QED  BY <1>22, StepsKeeps

\* Who opens a lane reads what nobody has said yet.
LEMMA SeederOf ==
    ASSUME PInv, NEW c \in Caller, call[c].at \in {"seed", "seeded"}
    PROVE  /\ call[c] \in CallT /\ call[c].op = "open" /\ call[c].lanes = {}
           /\ call[c].news = <<>> /\ call[c].started \subseteq call[c].open
           /\ call[c].lane \in known /\ call[c].lane \in Lane
           /\ Silent(call[c].lane) /\ SilentLane(call[c].lane)
           /\ \A m \in Lane : turn[m] # c
<1>1. UnderWay(c)  BY CallUnderWay
<1>2. call[c].lane \in known /\ call[c].lane \in Lane
  BY <1>1 DEF UnderWay, Places, PInv, Types
<1>3. Silent(call[c].lane)  BY DEF PInv, Seeding, Unheard
<1> QED
  BY <1>1, <1>2, <1>3 DEF UnderWay, Stage, Hand, PInv, SilentLanes, Holds, Reading

\* It reads the fact of a lane whose shell has not been heard.
LEMMA SeedKeeps ==
    ASSUME IInv, PInv, NEW c \in Caller, ReadFact(c, "seed", "seedAttempt", "seeded")
    PROVE  PInv'
<1> DEFINE r == call[c]
           k == [r EXCEPT !.drawn = NativeFact, !.at = "seeded"]
<1>1. r.at = "seed"  BY DEF ReadFact
<1>2. PICK l \in Lane : l = r.lane  BY <1>1, SeederOf
<1>3. /\ r \in CallT /\ r.op = "open" /\ r.lanes = {} /\ r.news = <<>>
      /\ r.started \subseteq r.open /\ l \in known /\ SilentLane(l)
      /\ \A m \in Lane : turn[m] # c
  BY <1>1, <1>2, SeederOf
<1>4. HalfDerived(l) = NativeFact /\ lifecycle[l].attempt = None
  BY <1>3, DerivedType DEF SilentLane, Fact
<1>5. call' = [call EXCEPT ![c] = k] /\ UNCHANGED <<kernelVars, turn, last, known, emitted>>
  <2>1. [Derived(l) EXCEPT !.attemptState = StateOf(None)] = NativeFact
    BY <1>4 DEF HalfDerived
  <2>2. NativeFact.fact.attempt = None  BY <1>4, DerivedType
  <2>3. call' = [call EXCEPT ![c].drawn = NativeFact, ![c].at = "seeded"]
    BY <1>2, <2>1, <2>2 DEF ReadFact
  <2>4. [call EXCEPT ![c].drawn = NativeFact, ![c].at = "seeded"] = [call EXCEPT ![c] = k]
    BY DEF PInv, Types
  <2>5. UNCHANGED <<kernelVars, turn, last, known, emitted>>  BY DEF ReadFact
  <2> QED  BY <2>3, <2>4, <2>5
<1>6. /\ k \in CallT /\ k.op = "open" /\ k.at = "seeded" /\ k.lane = l
      /\ k.open = r.open /\ k.started = r.started /\ k.lanes = {}
      /\ k.drawn = NativeFact /\ k.news = <<>>
  BY <1>2, <1>3, CallTypes DEF CallT, At
<1> HIDE DEF k
<1>7. /\ Stage(k) /\ Places(k) /\ ~Holds(k) /\ HandAfter(k) /\ MuteAfter(k, l)
  BY <1>3, <1>6 DEF Stage, Places, Holds, Reading, HandAfter, MuteAfter
<1>8. UNCHANGED <<told, closedSaid, startSaid>>  BY <1>5 DEF emitted
<1>9. BaseOf(l)' /\ CoverOf(l)'
  <2>1. \A b \in Caller \ {c} : call'[b] = call[b]  BY <1>5 DEF PInv, Types
  <2>2. turn[l] # None => turn[l] \in Caller \ {c}  BY <1>3 DEF PInv, Types
  <2>3. turn[l] # None => call'[turn'[l]] = call[turn[l]]  BY <1>5, <2>1, <2>2
  <2>4. Untold(l)' <=> Untold(l)  BY <1>5, <2>3 DEF Untold
  <2>5. BaseOf(l) /\ CoverOf(l)  BY DEF PInv, Telling, Baseline, Covered
  <2>6. BaseOf(l)'  BY <1>5, <1>8, <2>4, <2>5 DEF BaseOf, Same
  <2>7. Derived(l)' = Derived(l) /\ HalfDerived(l)' = HalfDerived(l)
    BY <1>5 DEF kernelVars, vars, identityVars, deliveryVars, Derived, HalfDerived, StateOf
  <2>8. InStep(l) => InStep(l)'
    BY <1>5, <1>8, <2>3, <2>4, <2>7 DEF InStep, HolderAt, Same
  <2>9. ~Announces(call[c], l)  BY <1>1, <1>3 DEF Announces
  <2>10. (\E b \in Caller : Announces(call[b], l)) => \E b \in Caller : Announces(call'[b], l)
    BY <2>1, <2>9
  <2> QED  BY <2>5, <2>6, <2>8, <2>10 DEF CoverOf
<1>10. /\ \A m : ~Announces(r, m)
       /\ \A a : ~Settles(r, a)
       /\ \A d : ~SendsFor(r, d)
  BY <1>1, <1>3 DEF Announces, Settles, SendsFor
<1>11. Steps(c, k, l)
  BY <1>1, <1>2, <1>3, <1>5, <1>6, <1>7, <1>8, <1>9, <1>10
  DEF Steps, PInv, Types
<1> QED  BY <1>11, StepsKeeps

\* It sets the lane's baseline to that, whoever holds the lane's turn.
LEMMA SeedRecordedKeeps ==
    ASSUME IInv, PInv, NEW c \in Caller, SeedRecorded(c)
    PROVE  PInv'
<1> DEFINE r == call[c]
<1>1. r.at = "seeded"  BY DEF SeedRecorded
<1>2. PICK l \in Lane : l = r.lane  BY <1>1, SeederOf
<1>3. /\ r \in CallT /\ r.op = "open" /\ r.lanes = {} /\ l \in known
      /\ Silent(l) /\ SilentLane(l)
      /\ \A m \in Lane : turn[m] # c
  BY <1>1, <1>2, SeederOf
<1>4. r.drawn = NativeFact  BY <1>1, <1>2, <1>3 DEF SilentLane, Mute
<1>5. /\ call' = [call EXCEPT ![c] = Idle] /\ last' = [last EXCEPT ![l] = NativeFact]
      /\ UNCHANGED <<kernelVars, turn, known, emitted>>
  BY <1>1, <1>2, <1>3, <1>4 DEF SeedRecorded, Return
<1>6. /\ last' \in [Lane -> FactT] /\ last'[l] = NativeFact
      /\ \A m \in Lane \ {l} : last'[m] = last[m]
      /\ \A b \in Caller \ {c} : call'[b] = call[b]
  BY <1>5, CallTypes DEF PInv, Types
<1>7. /\ Idle \in CallT /\ Idle.started \subseteq Idle.open /\ Idle.news = <<>>
      /\ Stage(Idle) /\ Places(Idle) /\ ~Holds(Idle) /\ Idle.at = "idle"
      /\ HandAfter(Idle) /\ MuteAfter(Idle, l)
  BY CallTypes DEF Stage, Places, Holds, Reading, HandAfter, MuteAfter
<1>8. UNCHANGED <<told, closedSaid, startSaid>>  BY <1>5 DEF emitted
<1>9. turn[l] # None => turn[l] \in Caller \ {c} /\ call[turn[l]].lane = l
  BY <1>3 DEF PInv, Types, Turns
<1>10. Untold(l) => last[l] = NativeFact
  BY <1>3, <1>9 DEF Untold, SilentLane, Mute
<1>11. BaseOf(l)' /\ CoverOf(l)'
  <2>1. turn[l] # None => call'[turn'[l]] = call[turn[l]]  BY <1>5, <1>6, <1>9
  <2>2. Untold(l)' <=> Untold(l)  BY <1>5, <2>1 DEF Untold
  <2>3. CoverOf(l)  BY DEF PInv, Telling, Covered
  <2>4. BaseOf(l)'
    <3>1. Same(told'[l], last'[l])
      BY <1>3, <1>6, <1>8 DEF SilentLane, Same
    <3> QED  BY <3>1 DEF BaseOf
  <2>5. Derived(l)' = Derived(l) /\ HalfDerived(l)' = HalfDerived(l)
    BY <1>5 DEF kernelVars, vars, identityVars, deliveryVars, Derived, HalfDerived, StateOf
  <2>6. InStep(l) => InStep(l)'
    BY <1>5, <1>6, <1>8, <1>10, <2>1, <2>2, <2>5 DEF InStep, HolderAt, Same
  <2>7. ~Announces(call[c], l)  BY <1>1, <1>3 DEF Announces
  <2>8. (\E b \in Caller : Announces(call[b], l)) => \E b \in Caller : Announces(call'[b], l)
    BY <1>6, <2>7
  <2> QED  BY <2>3, <2>4, <2>6, <2>8 DEF CoverOf
<1>12. /\ \A m : ~Announces(r, m)
       /\ \A a : ~Settles(r, a)
       /\ \A d : ~SendsFor(r, d)
  BY <1>1, <1>3 DEF Announces, Settles, SendsFor
<1>13. Names(NativeFact.fact, l)  BY CallTypes DEF Names, Fact
<1>14. turn[l] \notin {None, c} /\ call[turn[l]].news # <<>> => last'[l] = last[l]
  BY <1>6, <1>10 DEF Untold
<1>15. Steps(c, Idle, l)
  BY <1>3, <1>5, <1>6, <1>7, <1>8, <1>11, <1>12, <1>13, <1>14
  DEF Steps, PInv, Types
<1> QED  BY <1>15, StepsKeeps

\* The two reads, of the lane's first fact or of a later one.
LEMMA DeriveKeeps ==
    ASSUME IInv, PInv, NEW c \in Caller, Derive(c)
    PROVE  PInv'
<1>1. call[c].at # "seedAttempt"  BY DEF PInv, Types, CallT, At
<1> QED  BY <1>1, ReadFactKeeps, ReadAttemptKeeps, SeedKeeps DEF Derive, ReadAttempt

-----------------------------------------------------------------------------
(* The steps that leave the calls alone.                                   *)

\* A step that leaves them alone, and adds no accept, keeps the invariant.
LEMMA StillKeeps ==
    ASSUME PInv, NEW c \in Caller, UNCHANGED <<View, turn, last, known, call, emitted>>,
           accepts' \cup sending' \subseteq accepts \cup sending
    PROVE  PInv'
<1>1. UNCHANGED <<told, closedSaid, startSaid>>  BY DEF emitted
<1>2. Types'  BY <1>1 DEF PInv, Types
<1>3. UnderWay(c)  BY CallUnderWay
<1>4. CallAfter(c)
  <2>1. PlacesAfter(call'[c])  BY <1>3 DEF UnderWay, View, Places, PlacesAfter
  <2>2. HandAfter(call'[c])
    BY <1>3 DEF UnderWay, View, Hand, HandAfter, Names, NamesAfter, Minted
  <2> QED  BY <1>3, <2>1, <2>2 DEF UnderWay, CallAfter
<1>5. \A l \in Lane : Silent(l) => MuteAfter(call'[c], l)
  BY DEF PInv, SilentLanes, SilentLane, Mute, MuteAfter
<1>6. \A b \in Caller : call[b].at \in {"seed", "seeded"} => ~Speaks(call'[c], call[b].lane)
  BY DEF PInv, Seeding, Unheard
<1>7. Talks(c)
  BY <1>1, <1>3, <1>4, <1>5, <1>6 DEF Talks, Local, UnderWay, PInv, Closing, ReadOpen
<1>8. Telling'
  <2>1. ASSUME NEW l \in Lane PROVE BaseOf(l)' /\ CoverOf(l)'
    <3>1. BaseOf(l) /\ CoverOf(l)  BY DEF PInv, Telling, Baseline, Covered
    <3>2. Derived(l)' = Derived(l) /\ HalfDerived(l)' = HalfDerived(l)
      BY DerivedSame DEF View
    <3>3. BaseOf(l)'  BY <1>1, <3>1 DEF BaseOf, Untold, Same
    <3>4. InStep(l) => InStep(l)'  BY <1>1, <3>2 DEF InStep, HolderAt, Untold, Same
    <3> QED  BY <3>1, <3>3, <3>4 DEF CoverOf
  <2> QED  BY <2>1 DEF Telling, Baseline, Covered
<1> QED  BY <1>2, <1>7, <1>8, TalkKeeps

\* A transport is bound.
LEMMA BindKeeps ==
    ASSUME PInv, NEW t \in Transport, Bind(t)
    PROVE  PInv'
<1>1. t \in Caller  BY DEF Caller
<1>2. /\ UNCHANGED <<View, turn, last, known, call, emitted>>
      /\ UNCHANGED <<accepts, sending>>
  BY DEF Bind, BindTransport, View, identityVars, deliveryVars
<1> QED  BY <1>1, <1>2, StillKeeps

\* An accept of a frame goes on its way, or is sent.
LEMMA AcceptGoesKeeps ==
    ASSUME PInv, NEW c \in Caller, AcceptGoes(c)
    PROVE  PInv'
<1>1. PICK d : DeliverBegins(d) \/ DeliverRefused(d) \/ DeliverEnds(d)  BY DEF AcceptGoes
<1>2. UNCHANGED <<turn, last, known, call, emitted>>  BY DEF AcceptGoes
<1>3. UNCHANGED View
  BY <1>1 DEF DeliverBegins, DeliverRefused, DeliverEnds, View, identityVars
<1>4. accepts' \cup sending' \subseteq accepts \cup sending
  BY <1>1 DEF DeliverBegins, DeliverRefused, DeliverEnds
<1> QED  BY <1>2, <1>3, <1>4, StillKeeps

-----------------------------------------------------------------------------
(* The mutations.                                                          *)

\* An attempt that was minted keeps its shell, and that it has completed; it
\* completes from being started and open.
LEMMA AttemptsKeep ==
    ASSUME KInv, [Next]_vars, NEW a \in Attempt
    PROVE  /\ Minted(a) =>
                 /\ attempt'[a].state # "Unminted" /\ attempt'[a].domain = attempt[a].domain
                 /\ attempt[a].state = "Completed" => attempt'[a].state = "Completed"
                 /\ attempt'[a].state = "Completed" /\ attempt[a].state # "Completed" =>
                       attempt[a].state = "Open" /\ attempt[a].started
           /\ ~Minted(a) /\ attempt'[a].state # "Unminted" =>
                 attempt'[a].domain \in Domain /\ state'[attempt'[a].domain] = "Established"
<1>1. attempt[a] \in AttemptRecord  BY AttemptType DEF KInv, IInv
<1>2. Ages(a) \/ \E d \in Domain : BornTo(d, a)
  <2>1. CASE Next  BY <2>1, NextAttempts DEF KInv, Attempts, AttemptsLive
  <2>2. CASE UNCHANGED vars  BY <2>2 DEF vars, Ages
  <2> QED  BY <2>1, <2>2
<1>3. CASE attempt'[a] = attempt[a]  BY <1>3 DEF Minted
<1>4. CASE Settled(a)  BY <1>1, <1>4 DEF Settled, AttemptRecord, Minted
<1>5. CASE Touched(a)  BY <1>1, <1>5 DEF Touched, AttemptRecord, Minted
<1>6. CASE \E d \in Domain : BornTo(d, a)
  BY <1>6 DEF BornTo, NewAttempt, NoAttemptRecord, Minted
<1> QED  BY <1>2, <1>3, <1>4, <1>5, <1>6 DEF Ages

\* What a call does to the kernel: it moves one shell, of a lane it will
\* publish.  A frame may start and complete what its shell runs, and leaves
\* its accept; nothing else does.
Heard(r, d) ==
    /\ r.op = "frame" /\ r.dom = d
    /\ \A a \in Attempt : attempt'[a].state = "Completed" => Minted(a) \/ adopted[d]
    /\ accepts' \subseteq accepts \cup {d} /\ sending' = sending
Mutates(c, d) ==
    /\ call[c].at = "mutate" /\ laneOf[d] \in call[c].lanes
    /\ call[c].op # "loss" => call[c].dom = d
    /\ call[c].op = "loss" => transportOf[d] = call[c].port
    /\ call' = [call EXCEPT ![c].at = "report"]
    /\ UNCHANGED <<turn, last, known, emitted>>
    /\ StepOf(d) /\ [Next]_vars
    /\ Heard(call[c], d) \/ (NothingRuns /\ UNCHANGED <<accepts, sending>>)
    /\ call[c].op = "submit" => UNCHANGED state
\* Such a step keeps the invariant: the lane it moves is announced by its call,
\* which also reports what the step completed.
LEMMA MutateKeeps ==
    ASSUME KInv, PInv, NEW c \in Caller, NEW d \in Domain, Mutates(c, d)
    PROVE  PInv'
<1> DEFINE r == call[c]
           k == [r EXCEPT !.at = "report"]
<1> USE DEF Mutates
<1>1. r \in CallT /\ UnderWay(c) /\ Types  BY CallUnderWay DEF UnderWay, PInv
<1>2. /\ k \in CallT /\ k.op = r.op /\ k.at = "report" /\ k.lane = r.lane /\ k.dom = r.dom
      /\ k.port = r.port /\ k.open = r.open /\ k.started = r.started /\ k.lanes = r.lanes
      /\ k.news = r.news
  BY <1>1 DEF CallT, At
<1>3. call' = [call EXCEPT ![c] = k]  BY <1>1 DEF Types
<1> HIDE DEF k
<1>4. /\ call'[c] = k /\ \A b \in Caller \ {c} : call'[b] = call[b]
      /\ call' \in [Caller -> CallT]
      /\ \A b \in Caller : call'[b].started \subseteq call'[b].open
  BY <1>1, <1>2, <1>3, CallMoves DEF UnderWay
<1>5. PICK l \in Lane : l = laneOf[d]
  BY <1>1 DEF UnderWay, Places, Types
<1>6. /\ parent' = parent /\ laneOf' = laneOf /\ transportOf' = transportOf
      /\ adopted' = adopted
      /\ \A x \in Domain \ {d} : state'[x] = state[x]
      /\ \A m \in Lane \ {l} : lifecycle'[m] = lifecycle[m] /\ recovery'[m] = recovery[m]
      /\ \A a \in Attempt : attempt'[a] = attempt[a] \/ attempt'[a].domain = d
      /\ \/ lifecycle'[l] = lifecycle[l]
         \/ Here(d, lifecycle'[l]) /\ state'[d] # "Pending"
      /\ state'[d] = state[d] \/ state'[d] \notin {"Unminted", "Pending"}
      /\ UNCHANGED <<turn, last, known, told, closedSaid, startSaid>>
  BY <1>5 DEF StepOf, Elsewhere, identityVars, emitted
<1>7. r.news = <<>> /\ r.op # "none" /\ (r.op # "loss" => r.lane = l /\ r.dom = d)
  BY <1>1, <1>5 DEF UnderWay, Stage, Hand
<1>8. Holds(r) <=> r.op = "frame"
  BY DEF Holds, Reading
<1>9. Types'  BY <1>1, <1>4, <1>6 DEF Types
<1>10. Keeps
  BY <1>6, AttemptsKeep DEF Keeps
<1>11. Registry'
  <2>1. Roots'  BY <1>6 DEF PInv, Registry, Roots
  <2>2. Owned'
    <3> SUFFICES ASSUME NEW a \in Attempt, attempt'[a].state # "Unminted"
                 PROVE  attempt'[a].domain \in Domain /\ state'[attempt'[a].domain] # "Unminted"
      BY DEF Owned, Minted
    <3>1. CASE Minted(a)
      <4>1. attempt[a].domain \in Domain /\ state[attempt[a].domain] # "Unminted"
        BY <3>1 DEF PInv, Registry, Owned
      <4> QED  BY <1>6, <3>1, <4>1, AttemptsKeep
    <3>2. CASE ~Minted(a)  BY <3>2, AttemptsKeep
    <3> QED  BY <3>1, <3>2
  <2> QED  BY <2>1, <2>2 DEF Registry
<1>12. FactNames'
  <2> SUFFICES ASSUME NEW m \in Lane
               PROVE  NamesAfter(lifecycle'[m], m) /\ NamesAfter(last'[m].fact, m)
    BY AfterParts
  <2>1. lifecycle[m] \in LaneFact /\ last[m].fact \in LaneFact
    BY <1>1 DEF KInv, IInv, TypeOK, Types, FactT
  <2>2. NamesAfter(lifecycle[m], m) /\ NamesAfter(last[m].fact, m)
    BY <1>10, <2>1, NamesKept DEF PInv, FactNames
  <2>3. ASSUME NEW f, Here(d, f) PROVE NamesAfter(f, l)
    <3>1. laneOf'[d] = l /\ d # None  BY <1>5, <1>6, NoneAssumption
    <3> QED  BY <2>3, <3>1 DEF Here, NamesAfter
  <2> QED  BY <1>6, <2>2, <2>3
<1>13. Local(c)  BY <1>4, <1>6 DEF Local
<1>14. CallAfter(c)
  <2>1. Stage(k)  BY <1>1, <1>2, <1>7 DEF UnderWay, Stage
  <2>2. PlacesAfter(k)
    BY <1>1, <1>2, <1>6 DEF UnderWay, Places, PlacesAfter, Reading
  <2>3. HandAfter(k)  BY <1>2, <1>7 DEF HandAfter
  <2>4. Holds(k) => turn'[k.lane] = c
    BY <1>1, <1>2, <1>6, <1>8 DEF UnderWay, Holds, Reading
  <2> QED  BY <1>4, <2>1, <2>2, <2>3, <2>4 DEF CallAfter
<1>15. Calls'
  <2>1. \A b \in Caller \ {c} : CallAfter(b)  BY <1>1, <1>10, <1>13, OthersKept DEF PInv
  <2> QED  BY <1>14, <2>1, AfterParts
<1>16. Turns'
  <2> SUFFICES ASSUME NEW m \in Lane, turn[m] # None
               PROVE  Holds(call'[turn[m]]) /\ call'[turn[m]].lane = m
    BY <1>6 DEF Turns, Holds
  <2>1. Holds(call[turn[m]]) /\ call[turn[m]].lane = m /\ turn[m] \in Caller
    BY <1>1 DEF PInv, Turns, Types
  <2>2. Holds(r) => Holds(k)  BY <1>2, <1>8 DEF Holds
  <2> QED  BY <1>2, <1>4, <2>1, <2>2
<1>17. SilentLanes'
  <2> SUFFICES ASSUME NEW m \in Lane, Silent(m)'
               PROVE  /\ lifecycle'[m] = Fact("Native", None, None)
                      /\ last'[m] \in {Unseen, NativeFact} /\ told'[m] \in {Unseen, NativeFact}
                      /\ \A b \in Caller : MuteAfter(call'[b], m)
    BY AfterParts
  <2>1. \A x \in Domain : laneOf[x] = m => state'[x] = "Pending"
    BY <1>6 DEF Silent
  <2>2. Silent(m)  BY <1>6, <2>1 DEF Silent
  <2>3. SilentLane(m)  BY <2>2 DEF PInv, SilentLanes
  <2>4. lifecycle'[m] = lifecycle[m]  BY <1>5, <1>6, <2>1
  <2>5. \A b \in Caller \ {c} : MuteAfter(call'[b], m)
    BY <1>4, <1>6, <2>3 DEF SilentLane, Mute, MuteAfter
  <2>6. MuteAfter(k, m)  BY <1>2, <1>7 DEF MuteAfter
  <2> QED  BY <1>4, <1>6, <2>3, <2>4, <2>5, <2>6 DEF SilentLane
<1>18. Seeding'
  <2> SUFFICES ASSUME NEW b \in Caller, call'[b].at \in {"seed", "seeded"}
               PROVE  /\ \A x \in Domain : laneOf'[x] = call'[b].lane => state'[x] = "Pending"
                      /\ \A e \in Caller : ~SpeaksAfter(call'[e], call'[b].lane)
    BY AfterParts
  <2>1. b # c /\ call'[b] = call[b]  BY <1>2, <1>4
  <2>2. Unheard(call[b].lane)  BY <2>1 DEF PInv, Seeding
  <2>3. laneOf[d] = call[b].lane => state'[d] = state[d]
    <3>1. laneOf[d] = call[b].lane => ~Speaks(r, laneOf[d])  BY <2>2 DEF Unheard
    <3>2. ~Speaks(r, laneOf[d]) => r.op = "submit"
      BY <1>1, <1>5, <1>7 DEF Speaks, UnderWay, Stage
    <3> QED  BY <3>1, <3>2
  <2>4. \A x \in Domain : laneOf'[x] = call'[b].lane => state'[x] = "Pending"
    BY <1>6, <2>1, <2>2, <2>3 DEF Unheard, Silent
  <2>5. \A e \in Caller : ~SpeaksAfter(call'[e], call'[b].lane)
    BY <1>2, <1>4, <1>6, <2>1, <2>2 DEF Unheard, Speaks, SpeaksAfter
  <2> QED  BY <2>4, <2>5
<1>19. Telling'
  <2>1. ASSUME NEW m \in Lane \ {l} PROVE BaseOf(m)' /\ CoverOf(m)'
    <3>1. BaseOf(m) /\ CoverOf(m)  BY DEF PInv, Telling, Baseline, Covered
    <3>2. lifecycle[m].attempt # None => attempt'[lifecycle[m].attempt] = attempt[lifecycle[m].attempt]
      <4> DEFINE a == lifecycle[m].attempt
      <4>1. a # None => /\ a \in Attempt /\ Minted(a) /\ laneOf[attempt[a].domain] = m
        BY DEF KInv, IInv, TypeOK, LaneFact, PInv, FactNames, Names
      <4>2. a # None => attempt'[a].domain # d  BY <1>5, <4>1, AttemptsKeep
      <4> QED  BY <1>6, <4>1, <4>2
    <3>3. Derived(m)' = Derived(m) /\ HalfDerived(m)' = HalfDerived(m)
      BY <1>6, <3>2, DerivedSame
    <3>4. turn[m] # c
      BY <1>1, <1>7, <1>8 DEF UnderWay
    <3>5. ~Announces(r, m)  BY DEF Announces
    <3>6. Aside(c, m)  BY <1>6, <3>3, <3>4, <3>5 DEF Aside
    <3> QED  BY <1>1, <1>13, <3>1, <3>6, AsideKeeps
  <2>2. BaseOf(l)' /\ CoverOf(l)'
    <3>1. Untold(l)' <=> Untold(l)
      BY <1>1, <1>2, <1>4, <1>6 DEF Untold, Types
    <3>2. BaseOf(l)'  BY <1>1, <1>6, <3>1 DEF BaseOf, Same, UnderWay
    <3>3. Announces(call'[c], l)  BY <1>2, <1>4, <1>5 DEF Announces
    <3> QED  BY <3>2, <3>3 DEF CoverOf
  <2>3. \A m \in Lane : BaseOf(m)' /\ CoverOf(m)'  BY <2>1, <2>2
  <2> QED  BY <2>3 DEF Telling, Baseline, Covered
<1>20. Reported'
  <2> SUFFICES ASSUME NEW a \in Attempt, attempt'[a].state = "Completed",
                      ~adopted'[attempt'[a].domain]
               PROVE  a \in closedSaid' \/ \E b \in Caller : SettlesAfter(call'[b], a)
    BY AfterParts
  <2>1. CASE attempt[a].state = "Completed"
    <3>1. attempt'[a].domain = attempt[a].domain  BY <2>1, AttemptsKeep DEF Minted
    <3>2. a \in closedSaid \/ \E b \in Caller : Settles(call[b], a)
      BY <1>6, <2>1, <3>1 DEF PInv, Closing, Reported
    <3>3. \A b \in Caller : Settles(call[b], a) => SettlesAfter(call'[b], a)
      BY <1>4, <1>6, <3>1 DEF Settles, SettlesAfter
    <3> QED  BY <1>6, <3>2, <3>3
  <2>2. CASE attempt[a].state # "Completed"
    <3>1. Heard(r, d)  BY <2>2 DEF NothingRuns
    <3>2. attempt'[a].domain = d  BY <1>6, <2>2
    <3>3. Minted(a)  BY <1>6, <3>1, <3>2 DEF Heard
    <3>4. attempt[a].state = "Open" /\ attempt[a].started /\ attempt[a].domain = d
      BY <2>2, <3>2, <3>3, AttemptsKeep
    <3>5. a \in r.open
      BY <1>5, <1>7, <3>1, <3>4 DEF Heard, PInv, Closing, ReadOpen
    <3>6. SettlesAfter(call'[c], a)
      BY <1>2, <1>4, <1>5, <1>6, <1>7, <3>1, <3>2, <3>5 DEF SettlesAfter, Heard
    <3> QED  BY <3>6
  <2> QED  BY <2>1, <2>2
<1>21. ReadOpen'
  <2> SUFFICES ASSUME NEW b \in Caller, NEW a \in Attempt,
                      call'[b].op = "frame", call'[b].at = "mutate",
                      attempt'[a].state = "Open", attempt'[a].started,
                      laneOf'[attempt'[a].domain] = call'[b].lane
               PROVE  a \in call'[b].open
    BY DEF ReadOpen
  <2>1. b # c /\ call'[b] = call[b]  BY <1>2, <1>4
  <2>2. attempt[a].state = "Open" /\ attempt[a].started /\ attempt'[a].domain = attempt[a].domain
    <3>1. CASE NothingRuns
      <4>1. attempt[a].state = "Open" /\ attempt[a].started  BY <3>1 DEF NothingRuns
      <4> QED  BY <4>1, AttemptsKeep DEF Minted
    <3>2. CASE Heard(r, d)
      <4>1. turn[call[b].lane] = b  BY <2>1 DEF PInv, Calls, CallInv, Holds
      <4>2. turn[l] = c  BY <1>1, <1>7, <1>8, <3>2 DEF Heard, UnderWay
      <4>3. attempt'[a].domain # d  BY <1>5, <1>6, <2>1, <4>1, <4>2
      <4> QED  BY <1>6, <4>3
    <3> QED  BY <3>1, <3>2
  <2> QED  BY <1>6, <2>1, <2>2 DEF PInv, Closing, ReadOpen
<1>22. AcceptHeld'
  <2> SUFFICES ASSUME NEW x \in accepts' \cup sending'
               PROVE  \E b \in Caller : SendsFor(call'[b], x)
    BY DEF AcceptHeld, SendsFor
  <2>1. CASE x \in accepts \cup sending
    <3>1. PICK b \in Caller : SendsFor(call[b], x)  BY <2>1 DEF PInv, AcceptHeld
    <3>2. b # c  BY <3>1 DEF SendsFor
    <3> QED  BY <1>4, <3>1, <3>2 DEF SendsFor
  <2>2. CASE Heard(r, d) /\ x = d
    BY <1>2, <1>4, <2>2 DEF Heard, SendsFor
  <2> QED  BY <2>1, <2>2 DEF Heard
<1> QED
  BY <1>9, <1>11, <1>12, <1>15, <1>16, <1>17, <1>18, <1>19, <1>20, <1>21, <1>22
  DEF PInv, Closing

\* A frame of a shell, at the kernel.
LEMMA IngestFrameKeeps ==
    ASSUME KInv, PInv, NEW c \in Caller, IngestFrame(c)
    PROVE  PInv' /\ [Next]_vars
<1> DEFINE r == call[c]
<1>1. /\ r.op = "frame" /\ r.at = "mutate" /\ Frame(r.dom)
      /\ call' = [call EXCEPT ![c].at = "report"]
      /\ UNCHANGED <<turn, last, known, emitted>>
  BY DEF IngestFrame, Goto
<1>2. r.dom \in Domain /\ laneOf[r.dom] \in r.lanes
  BY <1>1, CallUnderWay DEF UnderWay, Places, Stage
<1>3. IInv /\ StartsKnown /\ Roots  BY DEF KInv, Attempts, PInv, Registry
<1>4. PICK d \in Domain : d = r.dom  BY <1>2
<1>5. /\ StepOf(d) /\ [Next]_vars
      /\ \A a \in Attempt : attempt'[a].state = "Completed" => Minted(a) \/ adopted[d]
      /\ accepts' \subseteq accepts \cup {d} /\ sending' = sending
  BY <1>1, <1>3, <1>4, FrameMoves
<1>6. Heard(r, d)  BY <1>1, <1>4, <1>5 DEF Heard
<1>7. Mutates(c, d)  BY <1>1, <1>2, <1>4, <1>5, <1>6 DEF Mutates
<1> QED  BY <1>5, <1>7, MutateKeeps

\* A gap of the framing, at the kernel.
LEMMA NotifyGapKeeps ==
    ASSUME KInv, PInv, NEW c \in Caller, NotifyGap(c)
    PROVE  PInv' /\ [Next]_vars
<1> DEFINE r == call[c]
<1>1. /\ r.op = "gap" /\ r.at = "mutate"
      /\ call' = [call EXCEPT ![c].at = "report"]
      /\ UNCHANGED <<turn, last, known, emitted>>
  BY DEF NotifyGap, Goto
<1>2. r.dom \in Domain /\ laneOf[r.dom] \in r.lanes
  BY <1>1, CallUnderWay DEF UnderWay, Places, Stage
<1>3. IInv  BY DEF KInv
<1>4. PICK d \in Domain : d = r.dom  BY <1>2
<1>5. \/ \E n \in 0 .. ScanBudget + 1 : GapOpensEpisode(d, n) \/ GapAccumulates(d, n)
      \/ BudgetRevokes(d)
      \/ UNCHANGED kernelVars
  BY <1>4 DEF NotifyGap
<1>6. StepOf(d) /\ NothingRuns /\ [Next]_vars /\ UNCHANGED <<accepts, sending>>
  BY <1>3, <1>5, GapMoves
<1>7. Mutates(c, d)  BY <1>1, <1>2, <1>4, <1>6 DEF Mutates
<1> QED  BY <1>6, <1>7, MutateKeeps

\* The loss of a transport, at the kernel.
LEMMA LoseTransportKeeps ==
    ASSUME KInv, PInv, NEW c \in Caller, LoseTransport(c)
    PROVE  PInv' /\ [Next]_vars
<1> DEFINE r == call[c]
<1>1. /\ r.op = "loss" /\ r.at = "mutate" /\ TransportLost(r.port)
      /\ call' = [call EXCEPT ![c].at = "report"]
      /\ UNCHANGED <<turn, last, known, emitted>>
  BY DEF LoseTransport, Goto
<1>2. PICK d \in Domain : transportOf[d] = r.port /\ r.port # None /\ laneOf[d] \in r.lanes
  BY <1>1, CallUnderWay DEF UnderWay, Places
<1>3. r.port \in Transport  BY <1>2, CallUnderWay DEF UnderWay, CallT
<1>4. PICK t \in Transport : t = r.port  BY <1>3
<1>5. IInv /\ Roots  BY DEF KInv, PInv, Registry
<1>6. StepOf(d) /\ NothingRuns /\ Next /\ UNCHANGED <<accepts, sending>>
  BY <1>1, <1>2, <1>4, <1>5, LossMoves
<1>7. Mutates(c, d)  BY <1>1, <1>2, <1>6 DEF Mutates
<1> QED  BY <1>6, <1>7, MutateKeeps

\* A submit that the kernel refuses is over.
LEMMA SubmitKeeps ==
    ASSUME KInv, PInv, NEW c \in Caller, Submit(c)
    PROVE  PInv' /\ [Next]_vars
<1> DEFINE r == call[c]
<1>1. r.op = "submit" /\ r.at = "mutate" /\ UNCHANGED <<turn, last, known, emitted>>
  BY DEF Submit
<1>2. UnderWay(c)  BY CallUnderWay
<1>3. PICK d \in Domain : d = r.dom /\ r.lane = laneOf[d] /\ laneOf[d] \in r.lanes
                          /\ laneOf[d] \in known
  BY <1>1, <1>2 DEF UnderWay, Places, Stage
<1>4. PICK l \in Lane : l = r.lane /\ l \in known
  BY <1>3 DEF PInv, Types
<1>5. CASE (\E a \in Attempt : SubmitAttempt(r.dom, a)) /\ Goto(c, "report")
  <2>1. PICK a \in Attempt : SubmitAttempt(d, a)  BY <1>3, <1>5
  <2>2. /\ StepOf(d) /\ NothingRuns /\ Next
        /\ UNCHANGED <<accepts, sending, state>>
    BY <2>1, SubmitMoves DEF KInv
  <2>3. Mutates(c, d)  BY <1>1, <1>3, <1>5, <2>2 DEF Mutates, Goto
  <2> QED  BY <2>2, <2>3, MutateKeeps
<1>6. CASE Return(c) /\ UNCHANGED kernelVars
  <2>1. call' = [call EXCEPT ![c] = Idle] /\ UNCHANGED <<told, closedSaid, startSaid>>
    BY <1>1, <1>6 DEF Return, emitted
  <2>2. \A b \in Caller \ {c} : call'[b] = call[b]  BY <2>1 DEF PInv, Types
  <2>3. /\ \A m \in Lane : turn[m] # c
        /\ \A m : ~Announces(r, m)
        /\ \A a : ~Settles(r, a)
        /\ \A x : ~SendsFor(r, x)
    BY <1>1, <1>2 DEF UnderWay, Holds, Reading, Announces, Settles, SendsFor
  <2>4. /\ Idle \in CallT /\ Idle.started \subseteq Idle.open /\ Idle.news = <<>>
        /\ Stage(Idle) /\ Places(Idle) /\ ~Holds(Idle) /\ Idle.at = "idle"
        /\ HandAfter(Idle) /\ MuteAfter(Idle, l)
    BY CallTypes DEF Stage, Places, Holds, Reading, HandAfter, MuteAfter
  <2>5. BaseOf(l)' /\ CoverOf(l)'
    <3>1. Local(c)  BY <1>1, <2>2 DEF Local
    <3>2. Derived(l)' = Derived(l) /\ HalfDerived(l)' = HalfDerived(l)
      BY <1>6 DEF kernelVars, vars, identityVars, deliveryVars, Derived, HalfDerived, StateOf
    <3>3. Aside(c, l)  BY <1>1, <2>1, <2>3, <3>2 DEF Aside
    <3> QED  BY <1>2, <3>1, <3>3, AsideKeeps DEF UnderWay, PInv
  <2>6. Steps(c, Idle, l)
    BY <1>1, <1>2, <1>4, <1>6, <2>1, <2>3, <2>4, <2>5 DEF Steps, PInv, Types
  <2> QED  BY <1>6, <2>6, StepsKeeps DEF kernelVars
<1> QED  BY <1>5, <1>6 DEF Submit

-----------------------------------------------------------------------------
(* The steps that open a lane, or move one without its shell.              *)

\* What a goroutine starts that has its lane to seed or to publish.
Starts(c, k) ==
    /\ call[c] = Idle /\ call' = [call EXCEPT ![c] = k]
    /\ UNCHANGED <<turn, last, emitted, attempt, accepts, sending>>
    /\ k \in CallT /\ k.started \subseteq k.open /\ k.news = <<>>
    /\ k.op \in {"lane", "open"} /\ k.at \in {"report", "seed"}
    /\ Stage(k) /\ PlacesAfter(k)
    /\ known' \in SUBSET Lane /\ Keeps /\ Registry' /\ Seeding'
    /\ \A x \in Domain : state[x] # "Unminted" => adopted'[x] = adopted[x]
    /\ \A l \in Lane :
          /\ lifecycle'[l] = lifecycle[l] \/ NamesAfter(lifecycle'[l], l)
          /\ Silent(l)' => Silent(l) /\ lifecycle'[l] = lifecycle[l]
          /\ \/ Announces(k, l)
             \/ Derived(l)' = Derived(l) /\ HalfDerived(l)' = HalfDerived(l)
\* Such a start keeps the invariant.
LEMMA StartsKeeps ==
    ASSUME KInv, PInv, NEW c \in Caller, NEW k, Starts(c, k)
    PROVE  PInv'
<1> USE DEF Starts
<1>1. Types  BY DEF PInv
<1>2. /\ call'[c] = k /\ \A b \in Caller \ {c} : call'[b] = call[b]
      /\ call' \in [Caller -> CallT]
      /\ \A b \in Caller : call'[b].started \subseteq call'[b].open
  BY <1>1, CallMoves
<1>3. UNCHANGED <<turn, last, told, closedSaid, startSaid>>  BY DEF emitted
<1>4. Types'  BY <1>1, <1>2, <1>3 DEF Types
<1>5. /\ \A l \in Lane : turn[l] # c /\ ~Announces(call[c], l)
      /\ \A a : ~Settles(call[c], a)
      /\ \A d : ~SendsFor(call[c], d)
  BY IdleCalls
<1>6. Local(c)  BY <1>2, <1>3 DEF Local
<1>7. FactNames'
  <2> SUFFICES ASSUME NEW m \in Lane
               PROVE  NamesAfter(lifecycle'[m], m) /\ NamesAfter(last'[m].fact, m)
    BY AfterParts
  <2>1. lifecycle[m] \in LaneFact /\ last[m].fact \in LaneFact
    BY <1>1 DEF KInv, IInv, TypeOK, Types, FactT
  <2>2. NamesAfter(lifecycle[m], m) /\ NamesAfter(last[m].fact, m)
    BY <2>1, NamesKept DEF PInv, FactNames
  <2> QED  BY <1>3, <2>2
<1>8. ~Holds(k)  BY DEF Holds, Reading
<1>9. Calls'
  <2>1. \A b \in Caller \ {c} : CallAfter(b)  BY <1>1, <1>6, OthersKept DEF PInv
  <2>2. HandAfter(k)  BY DEF HandAfter
  <2>3. CallAfter(c)  BY <1>2, <1>8, <2>2 DEF CallAfter
  <2> QED  BY <2>1, <2>3, AfterParts
<1>10. Turns'
  <2> SUFFICES ASSUME NEW m \in Lane, turn[m] # None
               PROVE  Holds(call'[turn[m]]) /\ call'[turn[m]].lane = m
    BY <1>3 DEF Turns, Holds
  <2>1. Holds(call[turn[m]]) /\ call[turn[m]].lane = m /\ turn[m] \in Caller \ {c}
    BY <1>1, <1>5 DEF PInv, Turns, Types
  <2> QED  BY <1>2, <2>1
<1>11. SilentLanes'
  <2> SUFFICES ASSUME NEW m \in Lane, Silent(m)'
               PROVE  /\ lifecycle'[m] = Fact("Native", None, None)
                      /\ last'[m] \in {Unseen, NativeFact} /\ told'[m] \in {Unseen, NativeFact}
                      /\ \A b \in Caller : MuteAfter(call'[b], m)
    BY AfterParts
  <2>1. Silent(m) /\ lifecycle'[m] = lifecycle[m]  OBVIOUS
  <2>2. SilentLane(m)  BY <2>1 DEF PInv, SilentLanes
  <2>3. \A b \in Caller \ {c} : MuteAfter(call'[b], m)
    BY <1>2, <1>3, <2>2 DEF SilentLane, Mute, MuteAfter
  <2>4. MuteAfter(k, m)  BY DEF MuteAfter
  <2> QED  BY <1>2, <1>3, <2>1, <2>2, <2>3, <2>4 DEF SilentLane
<1>12. Telling'
  <2>1. ASSUME NEW m \in Lane PROVE BaseOf(m)' /\ CoverOf(m)'
    <3>1. BaseOf(m) /\ CoverOf(m)  BY DEF PInv, Telling, Baseline, Covered
    <3>2. CASE Derived(m)' = Derived(m) /\ HalfDerived(m)' = HalfDerived(m)
      <4>1. Aside(c, m)  BY <1>3, <1>5, <3>2 DEF Aside
      <4> QED  BY <1>1, <1>6, <3>1, <4>1, AsideKeeps
    <3>3. CASE Announces(k, m)
      <4>1. turn[m] # None => call'[turn[m]] = call[turn[m]]
        BY <1>1, <1>2, <1>5 DEF Types
      <4>2. BaseOf(m)'  BY <1>3, <3>1, <4>1 DEF BaseOf, Untold, Same
      <4>3. Announces(call'[c], m)  BY <1>2, <3>3
      <4> QED  BY <4>2, <4>3 DEF CoverOf
    <3> QED  BY <3>2, <3>3
  <2> QED  BY <2>1 DEF Telling, Baseline, Covered
<1>13. \A a \in Attempt : Minted(a) =>
          /\ adopted'[attempt[a].domain] = adopted[attempt[a].domain]
          /\ laneOf'[attempt[a].domain] = laneOf[attempt[a].domain]
  <2> SUFFICES ASSUME NEW a \in Attempt, Minted(a)
               PROVE  /\ adopted'[attempt[a].domain] = adopted[attempt[a].domain]
                      /\ laneOf'[attempt[a].domain] = laneOf[attempt[a].domain]
    OBVIOUS
  <2>1. attempt[a].domain \in Domain /\ state[attempt[a].domain] # "Unminted"
    BY DEF PInv, Registry, Owned
  <2>2. laneOf[attempt[a].domain] # None
    BY <2>1, NoneAssumption DEF KInv, IInv, Structure, Registered
  <2> QED  BY <2>1, <2>2 DEF Keeps
<1>14. Reported'
  <2> SUFFICES ASSUME NEW a \in Attempt, attempt'[a].state = "Completed",
                      ~adopted'[attempt'[a].domain]
               PROVE  a \in closedSaid' \/ \E b \in Caller : SettlesAfter(call'[b], a)
    BY AfterParts
  <2>1. Minted(a) /\ attempt' = attempt  BY DEF Minted
  <2>2. a \in closedSaid \/ \E b \in Caller : Settles(call[b], a)
    BY <1>13, <2>1 DEF PInv, Closing, Reported
  <2>3. \A b \in Caller : Settles(call[b], a) => SettlesAfter(call'[b], a)
    BY <1>2, <1>5, <1>13, <2>1 DEF Settles, SettlesAfter
  <2> QED  BY <1>3, <2>2, <2>3
<1>15. ReadOpen'
  <2> SUFFICES ASSUME NEW b \in Caller, NEW a \in Attempt,
                      call'[b].op = "frame", call'[b].at = "mutate",
                      attempt'[a].state = "Open", attempt'[a].started,
                      laneOf'[attempt'[a].domain] = call'[b].lane
               PROVE  a \in call'[b].open
    BY DEF ReadOpen
  <2>1. b # c /\ call'[b] = call[b]  BY <1>2
  <2>2. Minted(a) /\ attempt' = attempt  BY DEF Minted
  <2> QED  BY <1>13, <2>1, <2>2 DEF PInv, Closing, ReadOpen
<1>16. AcceptHeld'
  <2> SUFFICES ASSUME NEW x \in accepts \cup sending
               PROVE  \E b \in Caller : SendsFor(call'[b], x)
    BY DEF AcceptHeld, SendsFor
  <2>1. PICK b \in Caller : SendsFor(call[b], x)  BY DEF PInv, AcceptHeld
  <2> QED  BY <1>2, <1>5, <2>1
<1> QED
  BY <1>4, <1>7, <1>9, <1>10, <1>11, <1>12, <1>14, <1>15, <1>16 DEF PInv, Closing

\* A shell is registered for a lane that nobody has opened.
LEMMA Registers ==
    ASSUME KInv, PInv, NEW d \in Domain, NEW l \in Lane, NEW t \in Transport,
           l \notin known, state[d] = "Unminted", \A x \in Domain : transportOf[x] # t,
           NEW e, NEW isAdopted, NEW st \in {"Pending", "Established"},
           Register(d, l, None, t, e, isAdopted, st),
           known' = known \cup {l}, UNCHANGED attempt
    PROVE  /\ Registry' /\ Keeps /\ known' \in SUBSET Lane
           /\ \A x \in Domain : laneOf[x] # l
           /\ laneOf'[d] = l /\ transportOf'[d] = t /\ state'[d] = st
           /\ \A x \in Domain \ {d} :
                 /\ parent'[x] = parent[x] /\ laneOf'[x] = laneOf[x]
                 /\ transportOf'[x] = transportOf[x]
                 /\ adopted'[x] = adopted[x] /\ state'[x] = state[x]
           /\ laneOf[d] = None /\ transportOf[d] = None
           /\ Silent(l) /\ SilentLane(l)
<1>1. /\ laneOf[d] = None /\ transportOf[d] = None
      /\ laneOf'[d] = l /\ transportOf'[d] = t /\ state'[d] = st /\ parent'[d] = None
      /\ \A x \in Domain \ {d} :
            /\ parent'[x] = parent[x] /\ laneOf'[x] = laneOf[x]
            /\ transportOf'[x] = transportOf[x]
            /\ adopted'[x] = adopted[x] /\ state'[x] = state[x]
  BY DEF KInv, IInv, TypeOK, Structure, Registered, Register
<1>2. l # None  BY NoneAssumption
<1>3. \A x \in Domain : laneOf[x] # l
  BY <1>2 DEF PInv, Registry, Roots
<1>4. Roots'
  <2>1. \A x \in Domain : parent'[x] = None /\ laneOf'[x] \in known' \cup {None}
    BY <1>1 DEF PInv, Registry, Roots
  <2>2. \A x, y \in Domain : laneOf'[x] # None /\ laneOf'[x] = laneOf'[y] => x = y
    BY <1>1, <1>3 DEF PInv, Registry, Roots
  <2>3. \A x, y \in Domain : transportOf'[x] # None /\ transportOf'[x] = transportOf'[y] => x = y
    BY <1>1 DEF PInv, Registry, Roots
  <2> QED  BY <2>1, <2>2, <2>3 DEF Roots
<1>5. Owned'
  <2>1. \A x \in Domain : state[x] # "Unminted" => state'[x] # "Unminted"  BY <1>1
  <2> QED  BY <2>1 DEF PInv, Registry, Owned, Minted
<1>6. Keeps  BY <1>1 DEF Keeps, Minted
<1>7. Silent(l) /\ SilentLane(l)  BY <1>3 DEF Silent, PInv, SilentLanes
<1> QED  BY <1>1, <1>3, <1>4, <1>5, <1>6, <1>7 DEF Registry, PInv, Types

\* Whoever opens another lane finds it as unheard as it was, and a lane that is
\* opened now is heard by nobody.
LEMMA OpensUnheard ==
    ASSUME PInv, NEW c \in Caller, NEW k, NEW d \in Domain, NEW l \in Lane, NEW t \in Transport,
           l \notin known, \A x \in Domain : transportOf[x] # t,
           \A x \in Domain : laneOf[x] # l,
           laneOf'[d] = l, transportOf'[d] = t, laneOf[d] = None,
           \A x \in Domain \ {d} : /\ laneOf'[x] = laneOf[x] /\ transportOf'[x] = transportOf[x]
                                   /\ state'[x] = state[x],
           call' = [call EXCEPT ![c] = k], k.at # "mutate",
           k.at \in {"seed", "seeded"} => k.lane = l /\ state'[d] = "Pending"
    PROVE  Seeding'
<1>1. call'[c] = k /\ \A b \in Caller \ {c} : call'[b] = call[b]
  BY DEF PInv, Types
<1> SUFFICES ASSUME NEW b \in Caller, call'[b].at \in {"seed", "seeded"}
             PROVE  /\ \A x \in Domain : laneOf'[x] = call'[b].lane => state'[x] = "Pending"
                    /\ \A e \in Caller : ~SpeaksAfter(call'[e], call'[b].lane)
  BY AfterParts
<1>2. ASSUME NEW e \in Caller, SpeaksAfter(call'[e], l) PROVE FALSE
  <2>1. e # c /\ call'[e] = call[e] /\ Places(call[e])
    BY <1>1, <1>2 DEF SpeaksAfter, PInv, Calls, CallInv
  <2>2. call[e].at = "mutate"  BY <1>2, <2>1 DEF SpeaksAfter
  <2>3. CASE call[e].op \in {"frame", "gap"} /\ call[e].lane = l
    BY <2>1, <2>2, <2>3 DEF Places
  <2>4. CASE call[e].op = "loss" /\ \E x \in Domain : laneOf'[x] = l /\ transportOf'[x] = call[e].port
    <3>1. call[e].port = t  BY <2>4
    <3> QED  BY <2>1, <2>2, <2>4, <3>1 DEF Places
  <2> QED  BY <1>2, <2>1, <2>3, <2>4 DEF SpeaksAfter
<1>3. CASE b = c
  BY <1>1, <1>2, <1>3
<1>4. CASE b # c
  <2>1. call'[b] = call[b] /\ call[b].lane \in known /\ call[b].lane # l
    BY <1>1, <1>4 DEF PInv, Calls, CallInv, Places
  <2>2. Unheard(call[b].lane)  BY <2>1 DEF PInv, Seeding
  <2>3. \A x \in Domain : laneOf'[x] = call[b].lane => x # d  BY <2>1
  <2>4. \A x \in Domain : laneOf'[x] = call[b].lane => state'[x] = "Pending"
    BY <2>2, <2>3 DEF Unheard, Silent
  <2>5. \A e \in Caller : ~SpeaksAfter(call'[e], call[b].lane)
    BY <1>1, <2>2, <2>3 DEF Unheard, Speaks, SpeaksAfter
  <2> QED  BY <2>1, <2>4, <2>5
<1> QED  BY <1>3, <1>4

\* A lane is opened for a shell that has not spoken yet.
LEMMA OpenLaneKeeps ==
    ASSUME KInv, PInv, NEW c \in Caller, NEW d \in Domain, NEW l \in Lane, NEW t \in Transport,
           OpenLane(c, d, l, t)
    PROVE  PInv' /\ Next
<1> DEFINE k == [Idle EXCEPT !.op = "open", !.at = "seed", !.lane = l]
<1>1. /\ call[c] = Idle /\ l \notin known /\ \A x \in Domain : transportOf[x] # t
      /\ RequestDomain(d, l, None, t)
      /\ known' = known \cup {l} /\ call' = [call EXCEPT ![c] = k]
      /\ UNCHANGED <<turn, last, emitted>>
  BY DEF OpenLane
<1>2. /\ state[d] = "Unminted" /\ Register(d, l, None, t, epochCounter', FALSE, "Pending")
      /\ recovery' = [recovery EXCEPT ![l] = [episode |-> d, sighted |-> FALSE]]
      /\ UNCHANGED <<lifecycle, attempt, accepts, sending>>
  BY <1>1 DEF RequestDomain, deliveryVars
<1>3. Next  BY <1>1 DEF Next, MintStep
<1>4. /\ k \in CallT /\ k.op = "open" /\ k.at = "seed" /\ k.lane = l /\ k.lanes = {}
      /\ k.news = <<>> /\ k.started \subseteq k.open
  BY CallTypes DEF CallT, Op, At
<1> HIDE DEF k
<1>5. /\ Registry' /\ Keeps /\ known' \in SUBSET Lane
      /\ \A x \in Domain : laneOf[x] # l
      /\ laneOf'[d] = l /\ transportOf'[d] = t /\ state'[d] = "Pending"
      /\ \A x \in Domain \ {d} :
            /\ parent'[x] = parent[x] /\ laneOf'[x] = laneOf[x]
            /\ transportOf'[x] = transportOf[x]
            /\ adopted'[x] = adopted[x] /\ state'[x] = state[x]
      /\ laneOf[d] = None /\ transportOf[d] = None
      /\ Silent(l) /\ SilentLane(l)
  BY <1>1, <1>2, Registers
<1>6. Seeding'  BY <1>1, <1>4, <1>5, OpensUnheard, ZenonT(60)
<1>7. \A m \in Lane : Silent(m)' => Silent(m)
  BY <1>5, NoneAssumption DEF Silent
<1>8. ASSUME NEW m \in Lane
      PROVE  Derived(m)' = Derived(m) /\ HalfDerived(m)' = HalfDerived(m)
  <2>1. m # l => recovery'[m] = recovery[m]
    BY <1>2 DEF KInv, IInv, TypeOK
  <2>2. m = l => lifecycle[m].state # "Lost"
    BY <1>5 DEF SilentLane, Fact
  <2> QED  BY <1>2, <2>1, <2>2, DerivedSame
<1>9. Stage(k) /\ PlacesAfter(k)
  BY <1>1, <1>4 DEF Stage, PlacesAfter, Reading
<1>10. \A x \in Domain : state[x] # "Unminted" => adopted'[x] = adopted[x]
  BY <1>2, <1>5
<1>11. Starts(c, k)
  BY <1>1, <1>2, <1>4, <1>5, <1>6, <1>7, <1>8, <1>9, <1>10 DEF Starts
<1> QED  BY <1>3, <1>11, StartsKeeps

\* A lane is opened for a shell that another coordinator admitted.
LEMMA AdoptLaneKeeps ==
    ASSUME KInv, PInv, NEW c \in Caller, NEW d \in Domain, NEW l \in Lane, NEW t \in Transport,
           NEW e \in 1 .. MaxEpoch, AdoptLane(c, d, l, t, e)
    PROVE  PInv' /\ Next
<1> DEFINE k == [Idle EXCEPT !.op = "open", !.at = "report", !.lane = l, !.lanes = {l}]
<1>1. /\ call[c] = Idle /\ l \notin known /\ \A x \in Domain : transportOf[x] # t
      /\ AdoptDomain(d, l, t, e)
      /\ known' = known \cup {l} /\ call' = [call EXCEPT ![c] = k]
      /\ UNCHANGED <<turn, last, emitted>>
  BY DEF AdoptLane
<1>2. /\ state[d] = "Unminted" /\ Register(d, l, None, t, e, TRUE, "Established")
      /\ recovery' = [recovery EXCEPT ![l] = [episode |-> d, sighted |-> FALSE]]
      /\ lifecycle' = [lifecycle EXCEPT ![l] = Fact("PromptReady", d, None)]
      /\ UNCHANGED <<attempt, accepts, sending>>
  BY <1>1 DEF AdoptDomain, deliveryVars
<1>3. Next  BY <1>1 DEF Next, MintStep
<1>4. /\ k \in CallT /\ k.op = "open" /\ k.at = "report" /\ k.lane = l /\ k.lanes = {l}
      /\ k.news = <<>> /\ k.started \subseteq k.open
  BY CallTypes DEF CallT, Op, At
<1> HIDE DEF k
<1>5. /\ Registry' /\ Keeps /\ known' \in SUBSET Lane
      /\ \A x \in Domain : laneOf[x] # l
      /\ laneOf'[d] = l /\ transportOf'[d] = t /\ state'[d] = "Established"
      /\ \A x \in Domain \ {d} :
            /\ parent'[x] = parent[x] /\ laneOf'[x] = laneOf[x]
            /\ transportOf'[x] = transportOf[x]
            /\ adopted'[x] = adopted[x] /\ state'[x] = state[x]
      /\ laneOf[d] = None /\ transportOf[d] = None
  BY <1>1, <1>2, Registers
<1>6. Seeding'
  <2>1. k.at # "mutate" /\ (k.at \in {"seed", "seeded"} => k.lane = l /\ state'[d] = "Pending")
    BY <1>4
  <2>2. \A x \in Domain \ {d} : /\ laneOf'[x] = laneOf[x] /\ transportOf'[x] = transportOf[x]
                                /\ state'[x] = state[x]
    BY <1>5
  <2>3. /\ l \notin known /\ \A x \in Domain : transportOf[x] # t
        /\ \A x \in Domain : laneOf[x] # l
        /\ laneOf'[d] = l /\ transportOf'[d] = t /\ laneOf[d] = None
        /\ call' = [call EXCEPT ![c] = k]
    BY <1>1, <1>5
  <2> QED  BY <2>1, <2>2, <2>3, OpensUnheard
<1>7. /\ lifecycle'[l] = Fact("PromptReady", d, None)
      /\ \A m \in Lane \ {l} : lifecycle'[m] = lifecycle[m] /\ recovery'[m] = recovery[m]
  BY <1>2 DEF KInv, IInv, TypeOK
<1>8. NamesAfter(lifecycle'[l], l)  BY <1>5, <1>7 DEF NamesAfter, Fact
<1>9. ~Silent(l)' /\ \A m \in Lane \ {l} : Silent(m)' => Silent(m)
  BY <1>5, NoneAssumption DEF Silent
<1>10. \A m \in Lane \ {l} : Derived(m)' = Derived(m) /\ HalfDerived(m)' = HalfDerived(m)
  BY <1>2, <1>7, DerivedSame
<1>11. Announces(k, l)  BY <1>4 DEF Announces
<1>12. Stage(k) /\ PlacesAfter(k)
  BY <1>1, <1>4 DEF Stage, PlacesAfter, Reading
<1>13. \A x \in Domain : state[x] # "Unminted" => adopted'[x] = adopted[x]
  BY <1>2, <1>5
<1>14. Starts(c, k)
  BY <1>1, <1>2, <1>4, <1>5, <1>6, <1>7, <1>8, <1>9, <1>10, <1>11, <1>12, <1>13 DEF Starts
<1> QED  BY <1>3, <1>14, StartsKeeps

\* A lane that is lost takes its recovery, or gives up.
LEMMA MoveLaneKeeps ==
    ASSUME KInv, PInv, NEW c \in Caller, NEW l \in Lane, MoveLane(c, l)
    PROVE  PInv' /\ Next
<1> DEFINE k == [Idle EXCEPT !.op = "lane", !.at = "report", !.lanes = {l}]
<1>1. /\ call[c] = Idle /\ l \in known /\ call' = [call EXCEPT ![c] = k]
      /\ RecoverLane(l) \/ \E ep \in Domain : SightRecovery(l, ep)
      /\ UNCHANGED <<turn, last, known, emitted>>
  BY DEF MoveLane
<1>2. /\ lifecycle[l].state = "Lost"
      /\ UNCHANGED <<identityVars, state, attempt, accepts, sending>>
      /\ lifecycle' = lifecycle \/ SetLifecycle(l, Fact("Native", None, None))
      /\ \A m \in Lane \ {l} : lifecycle'[m] = lifecycle[m] /\ recovery'[m] = recovery[m]
  BY <1>1, OneFact DEF RecoverLane, SightRecovery, deliveryVars, KInv, IInv, TypeOK
<1>3. Next  BY <1>1 DEF Next, LaneStep
<1>4. /\ k \in CallT /\ k.op = "lane" /\ k.at = "report" /\ k.lanes = {l}
      /\ k.news = <<>> /\ k.started \subseteq k.open
  BY CallTypes DEF CallT, Op, At
<1> HIDE DEF k
<1>5. /\ parent' = parent /\ laneOf' = laneOf /\ transportOf' = transportOf /\ adopted' = adopted
  BY <1>2 DEF identityVars
<1>6. Registry' /\ Keeps /\ known' \in SUBSET Lane
  <2>1. Roots'  BY <1>1, <1>5 DEF PInv, Registry, Roots
  <2>2. Owned'  BY <1>2, <1>5 DEF PInv, Registry, Owned, Minted
  <2> QED  BY <1>1, <1>2, <1>5, <2>1, <2>2 DEF Registry, Keeps, Minted, PInv, Types
<1>7. Seeding'
  <2> SUFFICES ASSUME NEW b \in Caller, call'[b].at \in {"seed", "seeded"}
               PROVE  /\ \A x \in Domain : laneOf'[x] = call'[b].lane => state'[x] = "Pending"
                      /\ \A e \in Caller : ~SpeaksAfter(call'[e], call'[b].lane)
    BY AfterParts
  <2>1. call'[c] = k /\ \A e \in Caller \ {c} : call'[e] = call[e]
    BY <1>1 DEF PInv, Types
  <2>2. b # c /\ call'[b] = call[b]  BY <1>4, <2>1
  <2>3. Unheard(call[b].lane)  BY <2>2 DEF PInv, Seeding
  <2> QED
    BY <1>2, <1>4, <1>5, <2>1, <2>2, <2>3 DEF Unheard, Silent, Speaks, SpeaksAfter
<1>8. ~Silent(l)
  BY <1>2 DEF PInv, SilentLanes, SilentLane, Fact
<1>9. \A m \in Lane : Silent(m)' <=> Silent(m)  BY <1>2, <1>5 DEF Silent
<1>10. lifecycle'[l] = lifecycle[l] \/ NamesAfter(lifecycle'[l], l)
  BY <1>2, OneFact DEF NamesAfter, Fact, KInv
<1>11. \A m \in Lane \ {l} : Derived(m)' = Derived(m) /\ HalfDerived(m)' = HalfDerived(m)
  BY <1>2, DerivedSame
<1>12. Announces(k, l)  BY <1>4 DEF Announces
<1>13. Stage(k) /\ PlacesAfter(k)
  BY <1>1, <1>4 DEF Stage, PlacesAfter, Reading
<1>14. Starts(c, k)
  BY <1>1, <1>2, <1>4, <1>5, <1>6, <1>7, <1>8, <1>9, <1>10, <1>11, <1>12, <1>13 DEF Starts
<1> QED  BY <1>3, <1>14, StartsKeeps

-----------------------------------------------------------------------------
(* The invariant of the specification.                                     *)

\* The invariant holds before anybody calls.
LEMMA InitPInv == PubInit => KInv /\ PInv
<1> SUFFICES ASSUME PubInit PROVE KInv /\ PInv  OBVIOUS
<1> USE DEF PubInit
<1>1. KInv  BY InitKInv
<1>2. /\ Idle \in CallT /\ Unseen \in FactT /\ Idle.started = {} /\ Idle.open = {}
      /\ Idle.op = "none" /\ Idle.at = "idle" /\ Idle.news = <<>> /\ Idle.lanes = {}
  BY CallTypes
<1>3. /\ \A d \in Domain : laneOf[d] = None /\ transportOf[d] = None /\ parent[d] = None
      /\ \A a \in Attempt : attempt[a].state = "Unminted"
      /\ \A l \in Lane : lifecycle[l] = Fact("Native", None, None)
      /\ accepts = {} /\ sending = {}
      /\ \A c \in Caller : call[c] = Idle
      /\ \A l \in Lane : turn[l] = None /\ last[l] = Unseen /\ told[l] = Unseen
  BY DEF Init, NoAttemptRecord
<1>4. Types  BY <1>2 DEF Types
<1>5. Registry  BY <1>3 DEF Registry, Roots, Owned, Minted
<1>6. FactNames
  <2>1. Unseen.fact = Fact("Native", None, None)  BY DEF Unseen
  <2> QED  BY <1>3, <2>1 DEF FactNames, Names, Fact
<1>7. Turns  BY <1>3 DEF Turns
<1>8. Calls
  <2>1. Stage(Idle) /\ Places(Idle) /\ Hand(Idle) /\ ~Holds(Idle)
    BY <1>2 DEF Stage, Places, Hand, Holds, Reading
  <2> QED  BY <1>3, <2>1 DEF Calls, CallInv
<1>9. SilentLanes
  <2>1. \A l \in Lane : Mute(Idle, l)  BY <1>2 DEF Mute
  <2> QED  BY <1>3, <2>1 DEF SilentLanes, SilentLane
<1>10. Seeding  BY <1>2, <1>3 DEF Seeding
<1>11. Telling
  <2>1. ASSUME NEW l \in Lane PROVE BaseOf(l) /\ CoverOf(l)
    <3>1. BaseOf(l)  BY <1>3 DEF BaseOf, Same
    <3>2. Derived(l) = NativeFact  BY <1>1, <1>3, DerivedType DEF KInv
    <3>3. InStep(l)  BY <1>3, <3>2 DEF InStep, HolderAt, Untold, Same
    <3> QED  BY <3>1, <3>3 DEF CoverOf
  <2> QED  BY <2>1 DEF Telling, Baseline, Covered
<1>12. Closing  BY <1>2, <1>3 DEF Closing, Reported, ReadOpen
<1>13. AcceptHeld  BY <1>3 DEF AcceptHeld
<1> QED
  BY <1>1, <1>4, <1>5, <1>6, <1>7, <1>8, <1>9, <1>10, <1>11, <1>12, <1>13 DEF PInv

\* Nothing moves.
LEMMA NothingKeeps == ASSUME PInv, UNCHANGED pubVars PROVE PInv'
<1>1. /\ UNCHANGED <<parent, laneOf, transportOf, adopted, state, lifecycle, recovery, attempt>>
      /\ UNCHANGED <<accepts, sending, turn, last, known, call, told, closedSaid, startSaid>>
  BY DEF pubVars, kernelVars, vars, identityVars, deliveryVars, emitted
<1>2. CASE Caller = {}
  <2>1. /\ Types' /\ Registry' /\ FactNames' /\ Turns' /\ Calls' /\ Seeding' /\ AcceptHeld'
    BY <1>1, <1>2
    DEF PInv, Types, Registry, Roots, Owned, Minted, FactNames, Names, Turns, Calls, Seeding,
        AcceptHeld, Holds
  <2>2. SilentLanes'
    BY <1>1, <1>2 DEF PInv, SilentLanes, SilentLane, Silent
  <2>3. Closing'
    BY <1>1, <1>2 DEF PInv, Closing, Reported, ReadOpen
  <2>4. Telling'
    <3>1. ASSUME NEW l \in Lane PROVE BaseOf(l)' /\ CoverOf(l)'
      <4>1. BaseOf(l) /\ CoverOf(l)  BY DEF PInv, Telling, Baseline, Covered
      <4>2. Derived(l)' = Derived(l) /\ HalfDerived(l)' = HalfDerived(l)
        BY <1>1, DerivedSame
      <4> QED
        BY <1>1, <1>2, <4>1, <4>2 DEF BaseOf, CoverOf, InStep, HolderAt, Untold, Same
    <3> QED  BY <3>1 DEF Telling, Baseline, Covered
  <2> QED  BY <2>1, <2>2, <2>3, <2>4 DEF PInv
<1>3. CASE Caller # {}
  <2>1. PICK c \in Caller : TRUE  BY <1>3
  <2> QED  BY <1>1, <2>1, StillKeeps DEF View, emitted
<1> QED  BY <1>2, <1>3

\* A step of the publisher is a step of the kernel, or none, and keeps the
\* invariant.
LEMMA NextPInv ==
    ASSUME KInv, PInv, [PubNext]_pubVars
    PROVE  PInv' /\ [Next]_vars
<1> DEFINE Still == UNCHANGED vars
<1>1. IInv  BY DEF KInv
<1>2. UNCHANGED kernelVars => [Next]_vars  BY DEF kernelVars
<1>3. CASE UNCHANGED pubVars
  BY <1>2, <1>3, NothingKeeps DEF pubVars
<1>4. CASE Begin
  <2>1. ASSUME NEW t \in Transport, Bind(t) PROVE PInv' /\ [Next]_vars
    BY <2>1, BindKeeps DEF Bind, Next, TransportStep
  <2>2. ASSUME NEW t \in Transport, NEW d \in Domain, BeginFrame(t, d) \/ BeginGap(t, d)
        PROVE  PInv' /\ [Next]_vars
    <3>1. t \in Caller  BY DEF Caller
    <3>2. UNCHANGED kernelVars  BY <2>2 DEF BeginFrame, BeginGap
    <3> QED  BY <1>1, <1>2, <2>2, <3>1, <3>2, BeginKeeps
  <2>3. ASSUME NEW c \in Transport \cup Closer, NEW t \in Transport, BeginLoss(c, t)
        PROVE  PInv' /\ [Next]_vars
    <3>1. c \in Caller  BY DEF Caller
    <3>2. UNCHANGED kernelVars  BY <2>3 DEF BeginLoss
    <3> QED  BY <1>1, <1>2, <2>3, <3>1, <3>2, BeginLossKeeps
  <2>4. ASSUME NEW c \in Handler, NEW l \in Lane, BeginReplay(c, l)
        PROVE  PInv' /\ [Next]_vars
    <3>1. c \in Caller  BY DEF Caller
    <3>2. UNCHANGED kernelVars  BY <2>4 DEF BeginReplay
    <3> QED  BY <1>2, <2>4, <3>1, <3>2, BeginReplayKeeps
  <2>5. ASSUME NEW c \in Handler, NEW l \in Lane, MoveLane(c, l)
        PROVE  PInv' /\ [Next]_vars
    <3>1. c \in Caller  BY DEF Caller
    <3> QED  BY <2>5, <3>1, MoveLaneKeeps
  <2>6. ASSUME NEW c \in Handler, NEW l \in Lane, NEW d \in Domain, NEW t \in Transport,
               OpenLane(c, d, l, t) \/ \E e \in 1 .. MaxEpoch : AdoptLane(c, d, l, t, e)
        PROVE  PInv' /\ [Next]_vars
    <3>1. c \in Caller  BY DEF Caller
    <3> QED  BY <2>6, <3>1, OpenLaneKeeps, AdoptLaneKeeps
  <2>7. ASSUME NEW c \in Handler, NEW d \in Domain, BeginSubmit(c, d)
        PROVE  PInv' /\ [Next]_vars
    <3>1. c \in Caller  BY DEF Caller
    <3>2. UNCHANGED kernelVars  BY <2>7 DEF BeginSubmit
    <3> QED  BY <1>1, <1>2, <2>7, <3>1, <3>2, BeginKeeps
  <2> QED  BY <1>4, <2>1, <2>2, <2>3, <2>4, <2>5, <2>6, <2>7 DEF Begin
<1>5. ASSUME NEW c \in Caller, Proceed(c) PROVE PInv' /\ [Next]_vars
  <2>1. CASE IngestFrame(c) \/ NotifyGap(c) \/ LoseTransport(c) \/ Submit(c)
    BY <2>1, IngestFrameKeeps, NotifyGapKeeps, LoseTransportKeeps, SubmitKeeps
  <2>2. CASE \E l \in Lane : Report(c, l)
    <3>1. UNCHANGED kernelVars  BY <2>2 DEF Report
    <3> QED  BY <1>2, <2>2, <3>1, ReportKeeps
  <2>3. CASE TakeTurn(c)
    <3>1. UNCHANGED kernelVars  BY <2>3 DEF TakeTurn
    <3> QED  BY <1>2, <2>3, <3>1, TakeTurnKeeps
  <2>4. CASE Derive(c)
    <3>1. UNCHANGED kernelVars  BY <2>4 DEF Derive, ReadFact, ReadAttempt
    <3> QED  BY <1>1, <1>2, <2>4, <3>1, DeriveKeeps
  <2>5. CASE SeedRecorded(c)
    <3>1. UNCHANGED kernelVars  BY <2>5 DEF SeedRecorded
    <3> QED  BY <1>1, <1>2, <2>5, <3>1, SeedRecordedKeeps
  <2>6. CASE Record(c)
    <3>1. UNCHANGED kernelVars  BY <2>6 DEF Record
    <3> QED  BY <1>2, <2>6, <3>1, RecordKeeps
  <2>7. CASE AcceptGoes(c)
    <3>1. call[c].op = "frame" /\ call[c].dom \in Domain
      BY <2>7, CallUnderWay DEF AcceptGoes, UnderWay, Places
    <3>2. Next  BY <2>7, <3>1 DEF AcceptGoes, Next, DeliveryStep
    <3> QED  BY <2>7, <3>2, AcceptGoesKeeps
  <2>8. CASE Tell(c)
    <3>1. UNCHANGED kernelVars  BY <2>8 DEF Tell
    <3> QED  BY <1>2, <2>8, <3>1, TellKeeps
  <2>9. CASE EndTurn(c)
    <3>1. UNCHANGED kernelVars  BY <2>9 DEF EndTurn
    <3> QED  BY <1>2, <2>9, <3>1, EndTurnKeeps
  <2> QED
    BY <1>5, <2>1, <2>2, <2>3, <2>4, <2>5, <2>6, <2>7, <2>8, <2>9 DEF Proceed
<1> QED  BY <1>3, <1>4, <1>5 DEF PubNext

\* The publisher keeps what its turns are for: KInv and PInv hold throughout.
THEOREM PublisherInvariant == PubSpec => [](KInv /\ PInv)
<1>1. KInv /\ PInv /\ [PubNext]_pubVars => (KInv /\ PInv)'
  <2> SUFFICES ASSUME KInv, PInv, [PubNext]_pubVars PROVE KInv' /\ PInv'  OBVIOUS
  <2>1. PInv' /\ [Next]_vars  BY NextPInv
  <2> QED  BY <2>1, NextKInv
<1> QED  BY <1>1, InitPInv, PTL DEF PubSpec

\* The kernel under the publisher is the kernel: whatever the goroutines do at
\* once, what the kernel goes through is a behaviour of LifecycleKernel.
THEOREM PublisherUsesKernel == PubSpec => Spec
<1>1. PubInit => Init  BY DEF PubInit
<1>2. KInv /\ PInv /\ [PubNext]_pubVars => [Next]_vars  BY NextPInv
<1> QED  BY <1>1, <1>2, PublisherInvariant, PTL DEF PubSpec, Spec

\* The publisher's own record of what it said of a lane is what the emitter was
\* told last, whenever nobody holds the lane's turn.
THEOREM RecordIsTold == PubSpec => []BaselineKept
<1>1. PInv => BaselineKept
  <2> SUFFICES ASSUME PInv PROVE BaselineKept  OBVIOUS
  <2>1. PubTypeOK
    <3>1. ASSUME NEW c \in Caller
          PROVE  /\ call[c].op \in {"none", "open", "frame", "gap", "loss", "submit", "lane", "replay"}
                 /\ call[c].at \in {"idle", "mutate", "grant", "seed", "seedAttempt", "seeded",
                                    "report", "publish", "derive", "deriveAttempt", "derived", "tell"}
                 /\ call[c].open \subseteq Attempt /\ call[c].started \subseteq call[c].open
                 /\ call[c].lanes \subseteq Lane
                 /\ Len(call[c].news) <= 2
      <4>1. UnderWay(c)  BY CallUnderWay
      <4>2. Len(call[c].news) <= 2
        <5>1. CASE call[c].news = <<>>  BY <5>1
        <5>2. CASE call[c].news # <<>>
          <6>1. PICK f : call[c].news = <<f>>  BY <4>1, <5>2 DEF UnderWay, Hand
          <6> QED  BY <6>1
        <5> QED  BY <5>1, <5>2
      <4> QED  BY <4>1, <4>2 DEF UnderWay, CallT, Op, At
    <3> QED  BY <3>1 DEF PubTypeOK, PInv, Types, FactT, RecoveryT
  <2>2. BaselineIsTold
    BY DEF PInv, Telling, Baseline, BaseOf, Untold, Same, BaselineIsTold
  <2> QED  BY <2>1, <2>2 DEF BaselineKept
<1> QED  BY <1>1, PublisherInvariant, PTL

\* No fact of a lane is lost to the dedupe, and none is overtaken by an older
\* one: when everyone who changed the lane has published it, the emitter was
\* told last what the kernel says of it.
THEOREM NothingIsLost == PubSpec => []QuietLaneIsTold
<1>1. PInv => QuietLaneIsTold
  <2> SUFFICES ASSUME PInv, NEW l \in known, \A c \in Caller : call[c].at \in {"idle", "mutate"}
               PROVE  Same(told[l], Derived(l))
    BY DEF QuietLaneIsTold, Same
  <2>1. l \in Lane  BY DEF PInv, Types
  <2>2. \A c \in Caller : ~Announces(call[c], l) /\ call[c].news = <<>>
    BY CallUnderWay DEF Announces, UnderWay, Hand
  <2>3. turn[l] # None => turn[l] \in Caller  BY <2>1 DEF PInv, Types
  <2>4. InStep(l)  BY <2>1, <2>2 DEF PInv, Telling, Covered, CoverOf
  <2> QED  BY <2>2, <2>3, <2>4 DEF InStep, HolderAt, Untold
<1> QED  BY <1>1, PublisherInvariant, PTL

\* Whoever writes a lane's baseline does it in Record, or opens the lane.
LEMMA WhoRecords ==
    ASSUME [PubNext]_pubVars, NEW l, last'[l] # last[l]
    PROVE  \E c \in Caller : Record(c) \/ SeedRecorded(c)
BY ZenonT(60) DEF PubNext, pubVars, Begin, Proceed, Bind, BeginFrame, BeginGap, BeginLoss, BeginReplay,
       MoveLane, OpenLane, AdoptLane, BeginSubmit, IngestFrame, NotifyGap, LoseTransport,
       Submit, Report, TakeTurn, Derive, ReadFact, ReadAttempt, AcceptGoes, Tell, EndTurn
\* Whoever tells the emitter a fact does it in Tell.
LEMMA WhoTells ==
    ASSUME [PubNext]_pubVars, NEW l, told'[l] # told[l]
    PROVE  \E c \in Caller : Tell(c)
BY ZenonT(60) DEF PubNext, pubVars, Begin, Proceed, Bind, BeginFrame, BeginGap, BeginLoss, BeginReplay,
       MoveLane, OpenLane, AdoptLane, BeginSubmit, IngestFrame, NotifyGap, LoseTransport,
       Submit, Report, TakeTurn, Derive, ReadFact, ReadAttempt, AcceptGoes, EndTurn,
       Record, SeedRecorded, emitted

\* A fact that names a completed attempt is recorded to be told only when the
\* attempt was reported closed.
THEOREM CompletionsAreReported == PubSpec => ClosedBeforeTold
<1> DEFINE Reports == \A l \in Lane :
        LET f == last'[l] IN
        /\ f # last[l] /\ f.attemptState = "Completed"
        /\ ~adopted[f.fact.domain]
        => f.fact.attempt \in closedSaid
<1>1. KInv /\ PInv /\ [PubNext]_pubVars => Reports
  <2> SUFFICES ASSUME KInv, PInv, [PubNext]_pubVars, NEW l \in Lane, last'[l] # last[l],
                      last'[l].attemptState = "Completed", ~adopted[last'[l].fact.domain]
               PROVE  last'[l].fact.attempt \in closedSaid
    OBVIOUS
  <2>1. PICK c \in Caller : Record(c) \/ SeedRecorded(c)  BY WhoRecords
  <2>2. /\ call[c].at \in {"derived", "seeded"} /\ (SeedRecorded(c) => call[c].at = "seeded")
        /\ last' = [last EXCEPT ![call[c].lane] = call[c].drawn]
    BY <2>1 DEF Record, SeedRecorded
  <2>3. call[c].lane = l /\ last'[l] = call[c].drawn
    BY <2>2 DEF PInv, Types
  <2>4. call[c].at # "seeded"
    <3>1. call[c].at = "seeded" => call[c].drawn = NativeFact
      BY <2>3, SeederOf DEF SilentLane, Mute
    <3>2. NativeFact.attemptState = "Unminted"  BY DEF NativeFact, Unseen
    <3> QED  BY <2>3, <3>1, <3>2
  <2>5. call[c].at = "derived" /\ call[c].at \in Reading  BY <2>2, <2>4 DEF Reading
  <2> DEFINE a == call[c].drawn.fact.attempt
  <2>6. /\ a # None /\ attempt[a].state = "Completed" /\ Names(call[c].drawn.fact, l)
        /\ turn[l] = c /\ call[c] \in CallT
    BY <2>3, <2>5, HolderOf DEF Hand
  <2>7. a \in Attempt  BY <2>6 DEF CallT, FactT, LaneFact
  <2>8. laneOf[attempt[a].domain] = l /\ ~adopted[attempt[a].domain]
    BY <2>3, <2>6 DEF Names
  <2>9. a \in closedSaid \/ \E b \in Caller : Settles(call[b], a)
    BY <2>6, <2>7, <2>8 DEF PInv, Closing, Reported
  <2>10. ASSUME NEW b \in Caller, Settles(call[b], a) PROVE FALSE
    <3>1. Holds(call[b]) /\ call[b].lane = l /\ call[b].at = "report"
      BY <2>8, <2>10 DEF Settles, Holds
    <3>2. turn[l] = b  BY <3>1 DEF PInv, Calls, CallInv
    <3> QED  BY <2>5, <2>6, <3>1, <3>2
  <2> QED  BY <2>3, <2>9, <2>10
<1> QED  BY <1>1, PublisherInvariant, PTL DEF PubSpec, ClosedBeforeTold

\* No prompt is told of a shell whose accept is still to be sent.
THEOREM PromptFollowsAccept == PubSpec => AcceptBeforePrompt
<1> DEFINE Waits == \A l \in Lane :
        LET f == told'[l] IN
        f # told[l] /\ f.fact.state = "PromptReady" => f.fact.domain \notin accepts \cup sending
<1>1. KInv /\ PInv /\ [PubNext]_pubVars => Waits
  <2> SUFFICES ASSUME KInv, PInv, [PubNext]_pubVars, NEW l \in Lane, told'[l] # told[l],
                      told'[l].fact.domain \in accepts \cup sending
               PROVE  FALSE
    OBVIOUS
  <2>1. PICK c \in Caller : Tell(c)  BY WhoTells
  <2>2. /\ call[c].at = "tell" /\ call[c].at \in Reading /\ AcceptGone(c) /\ call[c].news # <<>>
        /\ told' = [told EXCEPT ![call[c].lane] = Head(call[c].news)]
    BY <2>1 DEF Tell, Reading
  <2>3. call[c].news = <<last[call[c].lane]>> /\ turn[call[c].lane] = c
    BY <2>2, HolderOf DEF Hand
  <2>4. call[c].lane = l /\ told'[l] = last[l] /\ turn[l] = c
    BY <2>2, <2>3 DEF PInv, Types
  <2> DEFINE d == last[l].fact.domain
  <2>5. d \in Domain /\ d \in accepts \cup sending
    BY <2>4 DEF KInv, IInv, TypeOK
  <2>6. laneOf[d] = l
    BY <2>5, NoneAssumption DEF PInv, FactNames, Names
  <2>7. PICK b \in Caller : SendsFor(call[b], d)  BY <2>5 DEF PInv, AcceptHeld
  <2>8. Holds(call[b]) /\ call[b].lane = l
    BY <2>6, <2>7, ZenonT(60) DEF SendsFor, PInv, Calls, CallInv, Stage, Places, Holds
  <2>9. turn[l] = b  BY <2>8 DEF PInv, Calls, CallInv
  <2> QED  BY <2>2, <2>4, <2>5, <2>7, <2>9 DEF SendsFor, AcceptGone
<1> QED  BY <1>1, PublisherInvariant, PTL DEF PubSpec, AcceptBeforePrompt

=============================================================================
