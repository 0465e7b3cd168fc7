------------------------ MODULE LifecycleKernelProofs ------------------------
(***************************************************************************)
(* Proofs about LifecycleKernel: its types, that on every lane one shell   *)
(* at most has the authority, what a lane publishes, what becomes of the   *)
(* attempts, and that the kernel implements LaneAuthority.                 *)
(*                                                                         *)
(* OneAuthority is not inductive by itself.  The stack operations of the   *)
(* code remove entries anywhere (removeFromStack), and only because what   *)
(* they remove is always a suffix of the parent chain does the rest stay a *)
(* chain and a sequence.  IInv adds what that argument needs: that a       *)
(* domain has a lane, a transport and perhaps a parent from its minting    *)
(* on and not before, and that no domain is stacked twice.                 *)
(*                                                                         *)
(* KInv adds what the published facts and the attempts need of one         *)
(* another: that a fact is what the stack says, that an open attempt has a *)
(* live shell, that a shell of this kernel's own has one open attempt at   *)
(* most, also while it is Suspended or Desynchronized and holds no lane    *)
(* (its activation or its snapshot resumes from that one), and that an     *)
(* attempt a shell can name has started.                                   *)
(***************************************************************************)
EXTENDS LifecycleKernel, FiniteSetTheorems, SequenceTheorems,
        NaturalsInduction, WellFoundedInduction, TLAPS

Registered == \A d \in Domain :
    IF state[d] = "Unminted"
    THEN parent[d] = None /\ laneOf[d] = None /\ transportOf[d] = None
    ELSE laneOf[d] \in Lane /\ transportOf[d] \in Transport
StackedOnce ==
    \A l \in Lane : \A i, j \in DOMAIN stack[l] : stack[l][i] = stack[l][j] => i = j
Structure == Registered /\ StackedOnce /\ StackIsParentChain /\ LiveIsStacked
IInv == TypeOK /\ Structure

-----------------------------------------------------------------------------
(* Sequences cut to a prefix.                                              *)

\* A set of natural numbers that is not empty has a least element.
LEMMA LeastNumber ==
    ASSUME NEW T \in SUBSET Nat, T # {}
    PROVE  \E x \in T : \A y \in T : x <= y
<1>1. IsWellFoundedOn(OpToRel(<, Nat), Nat)  BY NatLessThanWellFounded, Zenon
<1>2. \E x \in T : \A y \in T : ~ (<<y, x>> \in OpToRel(<, Nat))
  BY <1>1, WFMin, Zenon
<1>3. \A a, b \in Nat : a < b => <<a, b>> \in OpToRel(<, Nat)
  BY Zenon DEF OpToRel
<1>4. \E x \in T : \A y \in T : ~ (y < x)  BY <1>2, <1>3, Zenon
<1> QED  BY <1>4

\* Without (removeFromStack) of a suffix leaves the prefix before it.
LEMMA WithoutSuffix ==
    ASSUME NEW S, NEW s \in Seq(S), NEW D, NEW m \in 0 .. Len(s),
           \A i \in 1 .. Len(s) : s[i] \notin D <=> i <= m
    PROVE  Without(s, D) = SubSeq(s, 1, m)
<1> DEFINE kept == {i \in DOMAIN s : s[i] \notin D}
           At(i, k) == Cardinality({j \in 1 .. m : j <= i}) = k
           c(k) == CHOOSE i \in 1 .. m : At(i, k)
<1>1. kept = 1 .. m  OBVIOUS
<1>2. \A i \in 1 .. m : {j \in 1 .. m : j <= i} = 1 .. i  OBVIOUS
<1>3. \A i \in 0 .. m : Cardinality(1 .. i) = i
  <2> TAKE i \in 0 .. m
  <2>1. Cardinality(1 .. i) = IF 1 > i THEN 0 ELSE i - 1 + 1
    BY FS_Interval
  <2> QED  BY <2>1
<1>4. \A k \in 1 .. m : c(k) = k
  <2> TAKE k \in 1 .. m
  <2>1. \A i \in 1 .. m : At(i, k) <=> i = k
    <3> TAKE i \in 1 .. m
    <3>1. {j \in 1 .. m : j <= i} = 1 .. i  BY <1>2
    <3>2. Cardinality(1 .. i) = i  BY <1>3
    <3> QED  BY <3>1, <3>2
  <2> HIDE DEF At
  <2>2. \E i \in 1 .. m : At(i, k)  BY <2>1
  <2>3. c(k) \in 1 .. m /\ At(c(k), k)  BY <2>2, Zenon
  <2> QED  BY <2>1, <2>3
<1>5. Cardinality(kept) = m
  <2>1. Cardinality(1 .. m) = m  BY <1>3
  <2> QED  BY <1>1, <2>1
<1> DEFINE Pick(K, n) == [k \in 1 .. n |->
               s[CHOOSE i \in K : Cardinality({j \in K : j <= i}) = k]]
<1>6. Without(s, D) = Pick(kept, Cardinality(kept))  BY DEF Without
<1>7. Without(s, D) = [k \in 1 .. m |-> s[c(k)]]
  <2> HIDE DEF Pick, kept
  <2>1. Without(s, D) = Pick(1 .. m, m)  BY <1>1, <1>5, <1>6
  <2> QED  BY <2>1 DEF Pick
<1> HIDE DEF c
<1>8. Without(s, D) = [k \in 1 .. m |-> s[k]]
  BY <1>4, <1>7
<1>9. SubSeq(s, 1, m) = [k \in 1 .. m |-> s[k]]  OBVIOUS
<1> QED  BY <1>8, <1>9

-----------------------------------------------------------------------------
(* The stack of a lane in a state that satisfies IInv.                     *)

\* A domain that is live but not Suspended is the top of its lane.
LEMMA HolderIsTop ==
    ASSUME IInv, NEW d \in Domain, state[d] \in {"Established", "Desynchronized"}
    PROVE  /\ laneOf[d] \in Lane
           /\ Len(stack[laneOf[d]]) \in DOMAIN stack[laneOf[d]]
           /\ stack[laneOf[d]][Len(stack[laneOf[d]])] = d
           /\ stack[laneOf[d]] # <<>>
<1>1. laneOf[d] \in Lane /\ stack[laneOf[d]] \in Seq(Domain)
  BY DEF IInv, TypeOK, Structure, LiveIsStacked, Live
<1>2. PICK i \in DOMAIN stack[laneOf[d]] : stack[laneOf[d]][i] = d
  BY DEF IInv, Structure, LiveIsStacked, Live
<1>3. i = Len(stack[laneOf[d]])
  BY <1>1, <1>2 DEF IInv, Structure, StackIsParentChain, Live
<1> QED  BY <1>1, <1>2, <1>3

\* Ending the top of a lane pops it (removeFromStack in revoke, applyClose).
LEMMA EndOfTop ==
    ASSUME IInv, NEW l \in Lane, NEW d \in Domain,
           stack[l] # <<>>, stack[l][Len(stack[l])] = d
    PROVE  Without(stack[l], {d}) = SubSeq(stack[l], 1, Len(stack[l]) - 1)
<1>1. stack[l] \in Seq(Domain)  BY DEF IInv, TypeOK
<1>2. Len(stack[l]) - 1 \in 0 .. Len(stack[l])  BY <1>1
<1>3. \A i \in 1 .. Len(stack[l]) :
          stack[l][i] \notin {d} <=> i <= Len(stack[l]) - 1
  BY <1>1 DEF IInv, Structure, StackedOnce
<1> QED  BY <1>1, <1>2, <1>3, WithoutSuffix

\* A cascade contains its seeds and the children of its members.
LEMMA CascadeIsClosed ==
    ASSUME NEW S \in SUBSET Domain
    PROVE  /\ S \subseteq Cascade(S)
           /\ Cascade(S) \subseteq Domain
           /\ \A x \in Domain : parent[x] \in Cascade(S) => x \in Cascade(S)
BY DEF Cascade, ClosedUnderChildren

\* Whatever a transport loss kills on a stack is a suffix of it: an entry
\* above a dead one is its child, and dies with it.
LEMMA CascadeCutsStack ==
    ASSUME IInv, NEW S \in SUBSET Domain, NEW l \in Lane
    PROVE  \E m \in 0 .. Len(stack[l]) :
              /\ \A i \in 1 .. Len(stack[l]) : stack[l][i] \notin Cascade(S) <=> i <= m
              /\ Without(stack[l], Cascade(S)) = SubSeq(stack[l], 1, m)
<1> DEFINE s == stack[l]
           dead == Cascade(S)
           Cut(m) == \A i \in 1 .. Len(s) : s[i] \notin dead <=> i <= m
<1>1. s \in Seq(Domain)  BY DEF IInv, TypeOK
<1>2. \A i \in 1 .. Len(s) : i + 1 \in 1 .. Len(s) /\ s[i] \in dead => s[i + 1] \in dead
  <2> TAKE i \in 1 .. Len(s)
  <2> HAVE i + 1 \in 1 .. Len(s) /\ s[i] \in dead
  <2>1. parent[s[i + 1]] = s[i] /\ s[i + 1] \in Domain
    BY <1>1 DEF IInv, Structure, StackIsParentChain
  <2> QED  BY <2>1, CascadeIsClosed
<1> HIDE DEF dead
<1>3. \E m \in 0 .. Len(s) : Cut(m)
  <2> DEFINE Dead == {i \in 1 .. Len(s) : s[i] \in dead}
  <2>1. CASE Dead = {}
    <3>1. Len(s) \in 0 .. Len(s) /\ Cut(Len(s))  BY <2>1, <1>1
    <3> QED  BY <3>1
  <2>2. CASE Dead # {}
    <3>1. Dead \in SUBSET Nat  BY <1>1
    <3>2. PICK first \in Dead : \A y \in Dead : first <= y
      BY <2>2, <3>1, LeastNumber
    <3> DEFINE Spared == {j \in 1 .. Len(s) : j > first /\ s[j] \notin dead}
    <3>3. Spared = {}
      <4> SUFFICES ASSUME Spared # {} PROVE FALSE  OBVIOUS
      <4>1. Spared \in SUBSET Nat  BY <1>1
      <4>2. PICK j \in Spared : \A y \in Spared : j <= y
        BY <4>1, LeastNumber
      <4>3. j - 1 \in 1 .. Len(s) /\ j \in 1 .. Len(s) /\ j - 1 >= first
        BY <1>1, <3>2, <4>2
      <4>4. s[j - 1] \in dead
        <5>1. CASE j - 1 = first  BY <5>1, <3>2
        <5>2. CASE j - 1 > first
          <6>1. j - 1 \notin Spared  BY <4>2, <4>3
          <6> QED  BY <6>1, <5>2, <4>3
        <5> QED  BY <5>1, <5>2, <4>3, <1>1, <3>2
      <4>5. (j - 1) + 1 = j  BY <4>3, <1>1
      <4>6. s[(j - 1) + 1] \in dead  BY <4>3, <4>4, <4>5, <1>2
      <4> QED  BY <4>2, <4>5, <4>6
    <3>4. first - 1 \in 0 .. Len(s)  BY <3>2, <1>1
    <3>5. Cut(first - 1)  BY <3>2, <3>3, <1>1
    <3> QED  BY <3>4, <3>5
  <2> QED  BY <2>1, <2>2
<1>4. PICK m \in 0 .. Len(s) : Cut(m)  BY <1>3
<1>5. Without(s, dead) = SubSeq(s, 1, m)  BY <1>1, <1>4, WithoutSuffix
<1> QED  BY <1>4, <1>5 DEF dead

-----------------------------------------------------------------------------
(* Types.                                                                  *)

LEMMA FactType ==
    ASSUME NEW st \in LaneState, NEW d \in Domain \cup {None},
           NEW a \in Attempt \cup {None}
    PROVE  Fact(st, d, a) \in LaneFact
BY DEF Fact, LaneFact

LEMMA NewAttemptType ==
    ASSUME NEW d \in Domain, NEW st \in AttemptState, NEW started \in BOOLEAN
    PROVE  NewAttempt(d, st, started) \in AttemptRecord
BY DEF NewAttempt, NoAttemptRecord, AttemptRecord

\* An attempt's record is updated field by field.
LEMMA RecordUpdates ==
    ASSUME NEW r \in AttemptRecord
    PROVE  /\ \A st \in AttemptState : [r EXCEPT !.state = st] \in AttemptRecord
           /\ [r EXCEPT !.primed = TRUE] \in AttemptRecord
           /\ \A id \in Attempt \cup {None} :
                 [r EXCEPT !.started = TRUE, !.shellID = id] \in AttemptRecord
BY DEF AttemptRecord

LEMMA AttemptType == ASSUME TypeOK PROVE attempt \in [Attempt -> AttemptRecord]
BY DEF TypeOK

LEMMA UnknownType ==
    ASSUME TypeOK, NEW D
    PROVE  UnknownOpenAttempts(D) \in [Attempt -> AttemptRecord]
BY AttemptType, RecordUpdates DEF UnknownOpenAttempts, AttemptState

\* One attempt moves to another state.
LEMMA AttemptMovesType ==
    ASSUME TypeOK, NEW a \in Attempt, NEW st \in AttemptState
    PROVE  [attempt EXCEPT ![a].state = st] \in [Attempt -> AttemptRecord]
<1>1. attempt \in [Attempt -> AttemptRecord]  BY AttemptType
<1>2. [attempt[a] EXCEPT !.state = st] \in AttemptRecord  BY <1>1, RecordUpdates
<1> QED  BY <1>1, <1>2

LEMMA OpenAttemptsType ==
    ASSUME NEW d PROVE OpenAttempts(d) \subseteq Attempt
BY DEF OpenAttempts

LEMMA ResumeFactsType ==
    ASSUME NEW d \in Domain
    PROVE  ResumeFacts(d, OpenAttempts(d)) \subseteq LaneFact
BY DEF ResumeFacts, OpenAttempts, Fact, LaneFact, LaneState

LEMMA SetLifecycleType ==
    ASSUME TypeOK, NEW l, NEW fact \in LaneFact, SetLifecycle(l, fact)
    PROVE  /\ lifecycle' \in [Lane -> LaneFact]
           /\ recovery' \in [Lane -> [episode : Domain \cup {None}, sighted : BOOLEAN]]
BY DEF TypeOK, SetLifecycle, NoRecovery

\* A domain that holds a lane or closes on top of it ends with its types kept.
LEMMA EndDomainType ==
    ASSUME IInv, NEW d \in Domain, laneOf[d] \in Lane,
           stack[laneOf[d]] # <<>>, stack[laneOf[d]][Len(stack[laneOf[d]])] = d,
           EndDomain(d)
    PROVE  /\ state' \in [Domain -> DomainState]
           /\ attempt' \in [Attempt -> AttemptRecord]
           /\ stack' \in [Lane -> Seq(Domain)]
           /\ lifecycle' \in [Lane -> LaneFact]
           /\ recovery' \in [Lane -> [episode : Domain \cup {None}, sighted : BOOLEAN]]
<1> DEFINE l == laneOf[d]
<1>1. stack' = [stack EXCEPT ![l] = SubSeq(stack[l], 1, Len(stack[l]) - 1)]
  BY EndOfTop DEF EndDomain
<1>2. SubSeq(stack[l], 1, Len(stack[l]) - 1) \in Seq(Domain)
  BY DEF IInv, TypeOK
<1>3. stack' \in [Lane -> Seq(Domain)]  BY <1>1, <1>2 DEF IInv, TypeOK
<1>4. Fact("Native", None, None) \in LaneFact  BY FactType DEF LaneState
<1>5. /\ lifecycle' \in [Lane -> LaneFact]
      /\ recovery' \in [Lane -> [episode : Domain \cup {None}, sighted : BOOLEAN]]
  BY <1>4, SetLifecycleType DEF EndDomain, IInv
<1>6. attempt' \in [Attempt -> AttemptRecord]
  BY UnknownType DEF EndDomain, IInv
<1>7. state' \in [Domain -> DomainState]
  BY DEF EndDomain, IInv, TypeOK, DomainState, Terminal
<1> QED  BY <1>3, <1>5, <1>6, <1>7

\* After a loss the lane facts come from its survivors and are well typed.
LEMMA FactsAfterLossType ==
    ASSUME IInv, NEW S \in SUBSET Domain, NEW l \in Lane
    PROVE  FactsAfterLoss(l, Cascade(S)) \subseteq LaneFact
<1> DEFINE left == Without(stack[l], Cascade(S))
           top == left[Len(left)]
<1>1. left \in Seq(Domain)
  <2>1. PICK m \in 0 .. Len(stack[l]) : left = SubSeq(stack[l], 1, m)
    BY CascadeCutsStack
  <2> QED  BY <2>1 DEF IInv, TypeOK
<1>2. {Fact("Lost", None, None)} \subseteq LaneFact
      /\ {Fact("Native", None, None)} \subseteq LaneFact
  BY FactType DEF LaneState
<1>3. {lifecycle[l]} \subseteq LaneFact  BY DEF IInv, TypeOK
<1>4. left # <<>> => ResumeFacts(top, OpenAttempts(top)) \subseteq LaneFact
  <2> HAVE left # <<>>
  <2>1. top \in Domain  BY <1>1
  <2> QED  BY <2>1, ResumeFactsType
<1> QED  BY <1>2, <1>3, <1>4 DEF FactsAfterLoss

LEMMA TransportLostType ==
    ASSUME IInv, NEW t \in Transport, TransportLost(t)
    PROVE  TypeOK'
<1> DEFINE dead == Cascade({d \in Domain : transportOf[d] = t})
           affected == {laneOf[d] : d \in dead}
           Facts(l) == IF l \in affected THEN FactsAfterLoss(l, dead)
                       ELSE {lifecycle[l]}
<1>1. \A l \in Lane : Facts(l) \subseteq LaneFact
  <2> TAKE l \in Lane
  <2>1. FactsAfterLoss(l, dead) \subseteq LaneFact  BY FactsAfterLossType
  <2>2. lifecycle[l] \in LaneFact  BY DEF IInv, TypeOK
  <2> QED  BY <2>1, <2>2
<1>2. lifecycle' \in [Lane -> UNION {Facts(l) : l \in Lane}]
  BY Zenon DEF TransportLost
<1>3. lifecycle' \in [Lane -> LaneFact]
  <2>1. UNION {Facts(l) : l \in Lane} \subseteq LaneFact
    <3> HIDE DEF Facts
    <3> QED  BY <1>1
  <2> HIDE DEF Facts
  <2> QED  BY <1>2, <2>1
<1>4. stack' \in [Lane -> Seq(Domain)]
  <2>1. \A l \in Lane : Without(stack[l], dead) \in Seq(Domain)
    <3> TAKE l \in Lane
    <3>1. PICK m \in 0 .. Len(stack[l]) : Without(stack[l], dead) = SubSeq(stack[l], 1, m)
      BY CascadeCutsStack
    <3>2. stack[l] \in Seq(Domain)  BY DEF IInv, TypeOK
    <3> HIDE DEF dead
    <3> QED  BY <3>1, <3>2
  <2>2. stack' = [l \in Lane |-> Without(stack[l], dead)]  BY DEF TransportLost
  <2> QED  BY <2>1, <2>2
<1>5. attempt' \in [Attempt -> AttemptRecord]
  BY UnknownType DEF IInv, TransportLost
<1>6. state' \in [Domain -> DomainState] /\ refresh' \in [Domain -> Nat]
  BY DEF TransportLost, IInv, TypeOK, DomainState, Terminal
<1>7. recovery' \in [Lane -> [episode : Domain \cup {None}, sighted : BOOLEAN]]
  BY DEF TransportLost, IInv, TypeOK, NoRecovery
<1>8. UNCHANGED <<ports, identityVars, acceptPending, garbage, episodes,
                  failures, deliveryVars>>
  BY DEF TransportLost
<1> QED
  BY <1>3, <1>4, <1>5, <1>6, <1>7, <1>8
  DEF IInv, TypeOK, identityVars, deliveryVars

LEMMA TransportStepType == ASSUME IInv, TransportStep PROVE TypeOK'
<1>1. ASSUME NEW t \in Transport, BindTransport(t) PROVE TypeOK'
  BY <1>1 DEF BindTransport, IInv, TypeOK, identityVars, desyncVars, deliveryVars
<1>2. ASSUME NEW t \in Transport, UnbindTransport(t) PROVE TypeOK'
  BY <1>2 DEF UnbindTransport, IInv, TypeOK, identityVars, desyncVars, deliveryVars
<1> QED  BY <1>1, <1>2, TransportLostType DEF TransportStep

LEMMA MintStepType == ASSUME IInv, MintStep PROVE TypeOK'
<1>1. ASSUME NEW d \in Domain, NEW l \in Lane, NEW t \in Transport,
             NEW p \in Domain \cup {None}, RequestDomain(d, l, p, t)
      PROVE  TypeOK'
  BY <1>1 DEF RequestDomain, Register, IInv, TypeOK, DomainState, desyncVars, deliveryVars
<1>2. ASSUME NEW d \in Domain, NEW l \in Lane, NEW t \in Transport,
             NEW e \in 1 .. MaxEpoch, AdoptDomain(d, l, t, e)
      PROVE  TypeOK'
  <2>1. Fact("PromptReady", d, None) \in LaneFact  BY FactType DEF LaneState
  <2>2. <<d>> \in Seq(Domain)  OBVIOUS
  <2>3. e \in Nat  BY NumbersAssumption
  <2> QED
    BY <1>2, <2>1, <2>2, <2>3
    DEF AdoptDomain, Register, IInv, TypeOK, DomainState, Live, desyncVars, deliveryVars
<1> QED  BY <1>1, <1>2 DEF MintStep

\* What a step that ends the top of a lane leaves typed.
LEMMA RevokeType ==
    ASSUME IInv, NEW d \in Domain,
           state[d] \in {"Established", "Desynchronized"}, Revoke(d),
           UNCHANGED <<ports, identityVars, acceptPending, garbage, episodes,
                       failures, deliveryVars>>
    PROVE  TypeOK'
<1>1. EndDomain(d) /\ refresh' = [refresh EXCEPT ![d] = 0]  BY DEF Revoke
<1>2. /\ state' \in [Domain -> DomainState]
      /\ attempt' \in [Attempt -> AttemptRecord]
      /\ stack' \in [Lane -> Seq(Domain)]
      /\ lifecycle' \in [Lane -> LaneFact]
      /\ recovery' \in [Lane -> [episode : Domain \cup {None}, sighted : BOOLEAN]]
  BY <1>1, HolderIsTop, EndDomainType
<1> QED  BY <1>1, <1>2 DEF IInv, TypeOK, identityVars, deliveryVars

LEMMA GapStepType == ASSUME IInv, GapStep PROVE TypeOK'
<1>1. ASSUME NEW d \in Domain, NEW n \in 0 .. ScanBudget + 1, GapOpensEpisode(d, n)
      PROVE  TypeOK'
  <2>1. Fact("Desynchronized", d, None) \in LaneFact  BY FactType DEF LaneState
  <2>2. /\ lifecycle' \in [Lane -> LaneFact]
        /\ recovery' \in [Lane -> [episode : Domain \cup {None}, sighted : BOOLEAN]]
    BY <1>1, <2>1, SetLifecycleType DEF GapOpensEpisode, IInv, TypeOK
  <2>3. episodes' \in [Domain -> 0 .. MaxDesyncEpisodes] /\ n \in Nat
    <3>1. /\ episodes \in [Domain -> 0 .. MaxDesyncEpisodes]
          /\ episodes[d] < MaxDesyncEpisodes
          /\ episodes' = [episodes EXCEPT ![d] = episodes[d] + 1]
      BY <1>1 DEF GapOpensEpisode, IInv, TypeOK
    <3>2. MaxDesyncEpisodes \in Nat /\ ScanBudget \in Nat  BY NumbersAssumption
    <3>3. episodes[d] + 1 \in 0 .. MaxDesyncEpisodes  BY <3>1, <3>2
    <3> QED  BY <3>1, <3>2, <3>3
  <2>4. refresh' \in [Domain -> Nat]
    BY <1>1, <2>3, NumbersAssumption DEF GapOpensEpisode, IInv, TypeOK
  <2>5. state' \in [Domain -> DomainState] /\ garbage' \in [Domain -> Nat]
    BY <1>1, <2>3 DEF GapOpensEpisode, IInv, TypeOK, DomainState, Live
  <2>6. UNCHANGED <<ports, identityVars, acceptPending, stack, failures, attempt,
                    deliveryVars>>
    BY <1>1 DEF GapOpensEpisode
  <2> QED
    BY <2>2, <2>3, <2>4, <2>5, <2>6 DEF IInv, TypeOK, identityVars, deliveryVars
<1>2. ASSUME NEW d \in Domain, NEW n \in 0 .. ScanBudget + 1, GapAccumulates(d, n)
      PROVE  TypeOK'
  <2>1. n \in Nat  BY NumbersAssumption
  <2>2. garbage \in [Domain -> Nat]  BY DEF IInv, TypeOK
  <2>3. garbage' \in [Domain -> Nat]  BY <1>2, <2>1, <2>2 DEF GapAccumulates
  <2> QED
    BY <1>2, <2>3 DEF GapAccumulates, IInv, TypeOK, identityVars, deliveryVars
<1>3. ASSUME NEW d \in Domain, BudgetRevokes(d) PROVE TypeOK'
  BY <1>3, RevokeType DEF BudgetRevokes
<1> QED  BY <1>1, <1>2, <1>3 DEF GapStep

LEMMA ChargeLaneType ==
    ASSUME TypeOK, NEW l, ChargeLane(l)
    PROVE  failures' \in [Lane -> 0 .. HandshakeFailures]
<1>1. HandshakeFailures \in Nat  BY NumbersAssumption
<1>2. \A n \in 0 .. HandshakeFailures :
          (IF n < HandshakeFailures THEN n + 1 ELSE n) \in 0 .. HandshakeFailures
  BY <1>1
<1> QED  BY <1>2 DEF TypeOK, ChargeLane

LEMMA LaneStepType == ASSUME IInv, LaneStep PROVE TypeOK'
<1>1. ASSUME NEW l \in Lane, WindowPasses(l) PROVE TypeOK'
  BY <1>1, NumbersAssumption
  DEF WindowPasses, IInv, TypeOK, identityVars, desyncVars, deliveryVars
<1>2. ASSUME NEW l \in Lane, RejectFrame(l) PROVE TypeOK'
  BY <1>2, ChargeLaneType
  DEF RejectFrame, IInv, TypeOK, identityVars, desyncVars, deliveryVars
<1>3. ASSUME NEW l \in Lane, RecoverLane(l) PROVE TypeOK'
  <2>1. Fact("Native", None, None) \in LaneFact  BY FactType DEF LaneState
  <2> QED
    BY <1>3, <2>1, SetLifecycleType
    DEF RecoverLane, IInv, TypeOK, identityVars, desyncVars, deliveryVars
<1>4. ASSUME NEW l \in Lane, NEW ep \in Domain, SightRecovery(l, ep) PROVE TypeOK'
  <2>1. recovery \in [Lane -> [episode : Domain \cup {None}, sighted : BOOLEAN]]
    BY DEF IInv, TypeOK
  <2>2. recovery' \in [Lane -> [episode : Domain \cup {None}, sighted : BOOLEAN]]
    BY <1>4, <2>1 DEF SightRecovery
  <2> QED
    BY <1>4, <2>2
    DEF SightRecovery, IInv, TypeOK, identityVars, desyncVars, deliveryVars
<1> QED  BY <1>1, <1>2, <1>3, <1>4 DEF LaneStep

LEMMA AttemptStepType == ASSUME IInv, AttemptStep PROVE TypeOK'
<1>1. ASSUME NEW a \in Attempt, AbandonAttempt(a) PROVE TypeOK'
  <2>1. attempt' \in [Attempt -> AttemptRecord]
    BY <1>1, AttemptMovesType DEF AbandonAttempt, IInv, AttemptState
  <2> QED
    BY <1>1, <2>1
    DEF AbandonAttempt, IInv, TypeOK, identityVars, desyncVars, deliveryVars
<1>2. ASSUME NEW a \in Attempt, NEW d \in Domain, SubmitAttempt(d, a) PROVE TypeOK'
  <2>1. NewAttempt(d, "Open", FALSE) \in AttemptRecord
    BY NewAttemptType DEF AttemptState
  <2>2. attempt' \in [Attempt -> AttemptRecord]
    <3>1. CASE attempt' = [attempt EXCEPT ![a] = NewAttempt(d, "Open", FALSE)]
      BY <2>1, <3>1 DEF IInv, TypeOK
    <3>2. ASSUME NEW open \in OpenAttempts(d),
                 attempt' = [[attempt EXCEPT ![open].state = "Unknown"]
                                 EXCEPT ![a] = NewAttempt(d, "Open", FALSE)]
          PROVE  attempt' \in [Attempt -> AttemptRecord]
      <4>1. [attempt EXCEPT ![open].state = "Unknown"] \in [Attempt -> AttemptRecord]
        <5>1. open \in Attempt  BY OpenAttemptsType
        <5> QED  BY <5>1, AttemptMovesType DEF IInv, AttemptState
      <4> QED  BY <2>1, <3>2, <4>1
    <3> QED  BY <1>2, <3>1, <3>2 DEF SubmitAttempt
  <2>3. Fact("Running", d, a) \in LaneFact  BY FactType DEF LaneState
  <2>4. SetLifecycle(laneOf[d], Fact("Running", d, a))  BY <1>2 DEF SubmitAttempt
  <2>5. /\ lifecycle' \in [Lane -> LaneFact]
        /\ recovery' \in [Lane -> [episode : Domain \cup {None}, sighted : BOOLEAN]]
    BY <2>3, <2>4, SetLifecycleType DEF IInv
  <2> QED
    BY <1>2, <2>2, <2>5
    DEF SubmitAttempt, IInv, TypeOK, identityVars, desyncVars, deliveryVars
<1> QED  BY <1>1, <1>2 DEF AttemptStep

LEMMA DeliveryStepType == ASSUME IInv, DeliveryStep PROVE TypeOK'
<1>1. ASSUME NEW d \in Domain, DeliverBegins(d) PROVE TypeOK'
  BY <1>1 DEF DeliverBegins, IInv, TypeOK, identityVars, desyncVars
<1>2. ASSUME NEW d \in Domain, DeliverRefused(d) PROVE TypeOK'
  BY <1>2 DEF DeliverRefused, IInv, TypeOK, identityVars, desyncVars
<1>3. ASSUME NEW d \in Domain, DeliverEnds(d) PROVE TypeOK'
  BY <1>3 DEF DeliverEnds, IInv, TypeOK, identityVars, desyncVars
<1>4. ASSUME NEW d \in Domain, EstablishmentTimeout(d) PROVE TypeOK'
  BY <1>4, RevokeType DEF EstablishmentTimeout
<1> QED  BY <1>1, <1>2, <1>3, <1>4 DEF DeliveryStep

\* A Suspended or Established domain on the stack, and the stack above it cut.
LEMMA ActivateCuts ==
    ASSUME IInv, NEW d \in Domain, Activate(d)
    PROVE  \E at \in 1 .. Len(stack[laneOf[d]]) :
              /\ laneOf[d] \in Lane
              /\ stack[laneOf[d]][at] = d
              /\ \A i \in 1 .. Len(stack[laneOf[d]]) :
                    stack[laneOf[d]][i] = d <=> i = at
              /\ stack' = [stack EXCEPT ![laneOf[d]] = SubSeq(stack[laneOf[d]], 1, at)]
              /\ LET above == {stack[laneOf[d]][i] : i \in
                                  {j \in DOMAIN stack[laneOf[d]] : j > at}}
                 IN  /\ state' = [x \in Domain |->
                            IF x \in above THEN "Closed"
                            ELSE IF x = d THEN "Established" ELSE state[x]]
                     /\ refresh' = [x \in Domain |-> IF x \in above THEN 0 ELSE refresh[x]]
                     /\ attempt' = UnknownOpenAttempts(above)
<1> DEFINE s == stack[laneOf[d]]
           at == CHOOSE i \in DOMAIN s : s[i] = d
<1>1. laneOf[d] \in Lane /\ s \in Seq(Domain)
  BY DEF Activate, IInv, TypeOK, Structure, LiveIsStacked, Live
<1>2. \E i \in DOMAIN s : s[i] = d  BY Zenon DEF Activate
<1>3. at \in DOMAIN s /\ s[at] = d  BY <1>2, Zenon
<1>4. at \in 1 .. Len(s)  BY <1>1, <1>3
<1>5. \A i \in 1 .. Len(s) : s[i] = d <=> i = at
  <2>1. \A i, j \in 1 .. Len(s) : s[i] = s[j] => i = j
    BY <1>1 DEF IInv, Structure, StackedOnce
  <2> HIDE DEF at, s
  <2> QED  BY <1>3, <1>4, <2>1
<1>6. stack' = [stack EXCEPT ![laneOf[d]] = SubSeq(s, 1, at)]
  BY DEF Activate
<1> DEFINE above == {s[i] : i \in {j \in DOMAIN s : j > at}}
<1>7. /\ state' = [x \in Domain |-> IF x \in above THEN "Closed"
                                    ELSE IF x = d THEN "Established" ELSE state[x]]
      /\ refresh' = [x \in Domain |-> IF x \in above THEN 0 ELSE refresh[x]]
      /\ attempt' = UnknownOpenAttempts(above)
  BY DEF Activate
<1> HIDE DEF at
<1> QED  BY <1>1, <1>3, <1>4, <1>5, <1>6, <1>7

LEMMA DomainFrameType == ASSUME IInv, DomainFrame PROVE TypeOK'
<1>1. ASSUME NEW d \in Domain, HelloEstablishes(d) PROVE TypeOK'
  <2>1. laneOf[d] \in Lane  BY <1>1 DEF HelloEstablishes, IInv, Structure, Registered
  <2>2. stack' \in [Lane -> Seq(Domain)]
    BY <1>1, <2>1 DEF HelloEstablishes, IInv, TypeOK
  <2>3. Fact("PromptReady", d, None) \in LaneFact  BY FactType DEF LaneState
  <2>4. /\ lifecycle' \in [Lane -> LaneFact]
        /\ recovery' \in [Lane -> [episode : Domain \cup {None}, sighted : BOOLEAN]]
    BY <1>1, <2>3, SetLifecycleType DEF HelloEstablishes, IInv
  <2>5. /\ state' \in [Domain -> DomainState]
        /\ acceptPending' \in [Domain -> BOOLEAN]
        /\ accepts' \subseteq Domain
    BY <1>1 DEF HelloEstablishes, IInv, TypeOK, DomainState, Live
  <2>6. UNCHANGED <<ports, identityVars, desyncVars, failures, attempt, sending>>
    BY <1>1 DEF HelloEstablishes
  <2> QED
    BY <2>2, <2>4, <2>5, <2>6 DEF IInv, TypeOK, identityVars, desyncVars
<1>2. ASSUME NEW d \in Domain, HelloRefused(d) PROVE TypeOK'
  BY <1>2, ChargeLaneType
  DEF HelloRefused, IInv, TypeOK, identityVars, desyncVars, deliveryVars
<1>3. ASSUME NEW d \in Domain, HelloReconnects(d) PROVE TypeOK'
  BY <1>3 DEF HelloReconnects, IInv, TypeOK, identityVars, desyncVars
<1>4. ASSUME NEW d \in Domain, Suspend(d) PROVE TypeOK'
  <2>1. Fact("Native", None, None) \in LaneFact  BY FactType DEF LaneState
  <2>2. /\ lifecycle' \in [Lane -> LaneFact]
        /\ recovery' \in [Lane -> [episode : Domain \cup {None}, sighted : BOOLEAN]]
    BY <1>4, <2>1, SetLifecycleType DEF Suspend, IInv
  <2>3. state' \in [Domain -> DomainState]
    BY <1>4 DEF Suspend, IInv, TypeOK, DomainState, Live
  <2> QED
    BY <1>4, <2>2, <2>3
    DEF Suspend, ActiveFrame, IInv, TypeOK, identityVars, desyncVars, deliveryVars
<1>5. ASSUME NEW d \in Domain, Activate(d) PROVE TypeOK'
  <2>1. PICK at \in 1 .. Len(stack[laneOf[d]]) :
             stack' = [stack EXCEPT ![laneOf[d]] = SubSeq(stack[laneOf[d]], 1, at)]
    BY <1>5, ActivateCuts
  <2>2. laneOf[d] \in Lane
    BY <1>5 DEF Activate, IInv, Structure, LiveIsStacked, Live
  <2>3. stack' \in [Lane -> Seq(Domain)]
    <3>1. stack[laneOf[d]] \in Seq(Domain)  BY <2>2 DEF IInv, TypeOK
    <3>2. SubSeq(stack[laneOf[d]], 1, at) \in Seq(Domain)  BY <3>1
    <3> QED  BY <2>1, <3>2 DEF IInv, TypeOK
  <2>4. PICK fact \in LaneFact : SetLifecycle(laneOf[d], fact)
    BY <1>5, ResumeFactsType DEF Activate
  <2>5. /\ lifecycle' \in [Lane -> LaneFact]
        /\ recovery' \in [Lane -> [episode : Domain \cup {None}, sighted : BOOLEAN]]
    BY <2>4, SetLifecycleType DEF IInv
  <2>6. /\ state' \in [Domain -> DomainState]
        /\ refresh' \in [Domain -> Nat]
    <3>1. PICK above :
              /\ state' = [x \in Domain |-> IF x \in above THEN "Closed"
                                 ELSE IF x = d THEN "Established" ELSE state[x]]
              /\ refresh' = [x \in Domain |-> IF x \in above THEN 0 ELSE refresh[x]]
      BY <1>5 DEF Activate
    <3> QED  BY <3>1 DEF IInv, TypeOK, DomainState, Live, Terminal
  <2>7. attempt' \in [Attempt -> AttemptRecord]
    <3>1. \E above : attempt' = UnknownOpenAttempts(above)  BY <1>5, Zenon DEF Activate
    <3> QED  BY <3>1, UnknownType DEF IInv
  <2>8. UNCHANGED <<ports, identityVars, acceptPending, garbage, episodes,
                    failures, deliveryVars>>
    BY <1>5 DEF Activate
  <2> QED
    BY <2>3, <2>5, <2>6, <2>7, <2>8 DEF IInv, TypeOK, identityVars, deliveryVars
<1>6. ASSUME NEW d \in Domain, Close(d) PROVE TypeOK'
  <2>1. /\ laneOf[d] \in Lane
        /\ stack[laneOf[d]] # <<>>
        /\ stack[laneOf[d]][Len(stack[laneOf[d]])] = d
    BY <1>6, NoneAssumption DEF Close, Top, IInv, Structure, Registered
  <2>2. EndDomain(d)  BY <1>6 DEF Close
  <2>3. /\ state' \in [Domain -> DomainState]
        /\ attempt' \in [Attempt -> AttemptRecord]
        /\ stack' \in [Lane -> Seq(Domain)]
        /\ lifecycle' \in [Lane -> LaneFact]
        /\ recovery' \in [Lane -> [episode : Domain \cup {None}, sighted : BOOLEAN]]
    BY <2>1, <2>2, EndDomainType
  <2> QED
    BY <1>6, <2>3 DEF Close, IInv, TypeOK, identityVars, desyncVars, deliveryVars
<1>7. ASSUME NEW d \in Domain, EchoFrame(d) PROVE TypeOK'
  BY <1>7
  DEF EchoFrame, ActiveFrame, IInv, TypeOK, identityVars, desyncVars, deliveryVars
<1> QED  BY <1>1, <1>2, <1>3, <1>4, <1>5, <1>6, <1>7 DEF DomainFrame

\* The frames of the active shell change an attempt and the lane's fact only.
LEMMA ActiveFrameType ==
    ASSUME IInv, NEW d \in Domain, ActiveFrame(d), UNCHANGED state,
           attempt' \in [Attempt -> AttemptRecord],
           \/ UNCHANGED <<lifecycle, recovery>>
           \/ \E fact \in LaneFact : SetLifecycle(laneOf[d], fact)
    PROVE  TypeOK'
<1>1. /\ lifecycle' \in [Lane -> LaneFact]
      /\ recovery' \in [Lane -> [episode : Domain \cup {None}, sighted : BOOLEAN]]
  <2>1. CASE UNCHANGED <<lifecycle, recovery>>  BY <2>1 DEF IInv, TypeOK
  <2>2. CASE \E fact \in LaneFact : SetLifecycle(laneOf[d], fact)
    BY <2>2, SetLifecycleType DEF IInv
  <2> QED  BY <2>1, <2>2
<1> QED
  BY <1>1 DEF ActiveFrame, IInv, TypeOK, identityVars, desyncVars, deliveryVars

LEMMA SnapshotType ==
    ASSUME IInv, NEW d \in Domain, NEW r, NEW active, NEW last,
           active \in ShellAttempt \cup {None}, Snapshot(d, r, active, last)
    PROVE  TypeOK'
<1> DEFINE l == laneOf[d]
           Completed(a) ==
               last # None /\ a \in Resolve(d, last) /\ attempt[a].state = "Open"
           Reconciled(a) ==
               [b \in Attempt |->
                   IF b = a
                   THEN IF Minted(a) THEN attempt[a] ELSE NewAttempt(d, "Open", TRUE)
                   ELSE IF Completed(b) THEN [attempt[b] EXCEPT !.state = "Completed"]
                   ELSE IF b \in OpenAttempts(d)
                   THEN [attempt[b] EXCEPT !.state = "Unknown"] ELSE attempt[b]]
<1>1. \A a : Reconciled(a) \in [Attempt -> AttemptRecord]
  <2> TAKE a
  <2> SUFFICES ASSUME NEW b \in Attempt
               PROVE  Reconciled(a)[b] \in AttemptRecord
    OBVIOUS
  <2>1. attempt[b] \in AttemptRecord  BY DEF IInv, TypeOK
  <2>2. NewAttempt(d, "Open", TRUE) \in AttemptRecord
    BY NewAttemptType DEF AttemptState
  <2>3. /\ [attempt[b] EXCEPT !.state = "Completed"] \in AttemptRecord
        /\ [attempt[b] EXCEPT !.state = "Unknown"] \in AttemptRecord
    BY <2>1, RecordUpdates DEF AttemptState
  <2> HIDE DEF Completed
  <2> QED  BY <2>1, <2>2, <2>3
<1>2. attempt' \in [Attempt -> AttemptRecord]
  <2>1. \E a : attempt' = Reconciled(a)  BY ZenonT(60) DEF Snapshot
  <2> HIDE DEF Reconciled
  <2> QED  BY <1>1, <2>1
<1>3. \/ UNCHANGED <<lifecycle, recovery>>
      \/ SetLifecycle(l, Fact("PromptReady", d, None))
      \/ \E a \in Attempt : SetLifecycle(l, Fact("Running", d, a))
  <2>1. CASE active = None  BY <2>1 DEF Snapshot
  <2>2. CASE active # None
    <3>1. Resolve(d, active) \subseteq Attempt /\ active \in Attempt
      BY <2>2 DEF Resolve, Attempt
    <3> QED  BY <2>2, <3>1 DEF Snapshot
  <2> QED  BY <2>1, <2>2
<1>4. /\ lifecycle' \in [Lane -> LaneFact]
      /\ recovery' \in [Lane -> [episode : Domain \cup {None}, sighted : BOOLEAN]]
  <2>1. CASE UNCHANGED <<lifecycle, recovery>>  BY <2>1 DEF IInv, TypeOK
  <2>2. CASE SetLifecycle(l, Fact("PromptReady", d, None))
    <3>1. Fact("PromptReady", d, None) \in LaneFact  BY FactType DEF LaneState
    <3> QED  BY <2>2, <3>1, SetLifecycleType DEF IInv
  <2>3. ASSUME NEW a \in Attempt, SetLifecycle(l, Fact("Running", d, a))
        PROVE  /\ lifecycle' \in [Lane -> LaneFact]
               /\ recovery' \in [Lane -> [episode : Domain \cup {None},
                                          sighted : BOOLEAN]]
    <3>1. Fact("Running", d, a) \in LaneFact  BY FactType DEF LaneState
    <3> QED  BY <2>3, <3>1, SetLifecycleType DEF IInv
  <2> QED  BY <1>3, <2>1, <2>2, <2>3
<1>5. /\ state' \in [Domain -> DomainState]
      /\ refresh' \in [Domain -> Nat] /\ garbage' \in [Domain -> Nat]
  BY DEF Snapshot, IInv, TypeOK, DomainState, Live
<1>6. UNCHANGED <<ports, identityVars, acceptPending, episodes, stack, failures,
                  deliveryVars>>
  BY DEF Snapshot
<1> QED  BY <1>2, <1>4, <1>5, <1>6 DEF IInv, TypeOK, identityVars, deliveryVars

LEMMA AttemptFrameType == ASSUME IInv, AttemptFrame PROVE TypeOK'
<1>1. ASSUME NEW d \in Domain, PromptReady(d) PROVE TypeOK'
  <2>1. ActiveFrame(d) /\ UNCHANGED state  BY <1>1 DEF PromptReady
  <2>2. Fact("PromptReady", d, None) \in LaneFact  BY FactType DEF LaneState
  <2>3. \/ UNCHANGED <<lifecycle, recovery>>
        \/ SetLifecycle(laneOf[d], Fact("PromptReady", d, None))
    BY <1>1 DEF PromptReady
  <2>4. attempt' \in [Attempt -> AttemptRecord]
    <3>1. CASE UNCHANGED attempt  BY <3>1 DEF IInv, TypeOK
    <3>2. ASSUME NEW open \in OpenAttempts(d),
                 \/ attempt' = [attempt EXCEPT ![open].state = "Unknown"]
                 \/ attempt' = [attempt EXCEPT ![open].primed = TRUE]
          PROVE  attempt' \in [Attempt -> AttemptRecord]
      <4>1. open \in Attempt  BY OpenAttemptsType
      <4>2. [attempt EXCEPT ![open].state = "Unknown"] \in [Attempt -> AttemptRecord]
        BY <4>1, AttemptMovesType DEF IInv, AttemptState
      <4>3. [attempt EXCEPT ![open].primed = TRUE] \in [Attempt -> AttemptRecord]
        <5>1. [attempt[open] EXCEPT !.primed = TRUE] \in AttemptRecord
          BY <4>1, AttemptType, RecordUpdates DEF IInv
        <5> QED  BY <4>1, <5>1, AttemptType DEF IInv
      <4> QED  BY <3>2, <4>2, <4>3
    <3>3. \/ UNCHANGED attempt
          \/ \E open \in OpenAttempts(d) :
                \/ attempt' = [attempt EXCEPT ![open].state = "Unknown"]
                \/ attempt' = [attempt EXCEPT ![open].primed = TRUE]
      BY <1>1, Zenon DEF PromptReady
    <3> QED  BY <3>1, <3>2, <3>3
  <2> QED  BY <2>1, <2>2, <2>3, <2>4, ActiveFrameType
<1>2. ASSUME NEW d \in Domain, NEW id \in ShellAttempt \cup {None}, StartAttaches(d, id)
      PROVE  TypeOK'
  <2>1. PICK open \in OpenAttempts(d) :
            /\ attempt' = [attempt EXCEPT ![open].started = TRUE, ![open].shellID = id]
            /\ SetLifecycle(laneOf[d], Fact("Running", d, open))
    BY <1>2 DEF StartAttaches
  <2>2. open \in Attempt  BY OpenAttemptsType
  <2>3. Fact("Running", d, open) \in LaneFact  BY <2>2, FactType DEF LaneState
  <2>4. attempt' \in [Attempt -> AttemptRecord]
    <3>1. id \in Attempt \cup {None}  BY DEF Attempt
    <3>2. [attempt[open] EXCEPT !.started = TRUE, !.shellID = id] \in AttemptRecord
      BY <2>2, <3>1, AttemptType, RecordUpdates DEF IInv
    <3>3. attempt \in [Attempt -> AttemptRecord]  BY AttemptType DEF IInv
    <3>4. attempt' = [attempt EXCEPT
              ![open] = [attempt[open] EXCEPT !.started = TRUE, !.shellID = id]]
      BY <2>1, <2>2, <3>3
    <3> QED  BY <2>2, <3>2, <3>3, <3>4
  <2> QED  BY <1>2, <2>1, <2>3, <2>4, ActiveFrameType DEF StartAttaches
<1>3. ASSUME NEW d \in Domain, NEW id \in ShellAttempt \cup {None}, CompleteOpen(d, id)
      PROVE  TypeOK'
  <2>1. PICK open \in OpenAttempts(d) :
            attempt' = [attempt EXCEPT ![open].state = "Completed"]
    BY <1>3 DEF CompleteOpen
  <2>2. attempt' \in [Attempt -> AttemptRecord]
    BY <2>1, OpenAttemptsType, AttemptMovesType DEF IInv, AttemptState
  <2> QED  BY <1>3, <2>2, ActiveFrameType DEF CompleteOpen
<1>4. ASSUME NEW d \in Domain, NEW a \in Attempt, NEW st \in AttemptState,
             ActiveFrame(d), UNCHANGED state,
             attempt' = [attempt EXCEPT ![a] = NewAttempt(d, st, TRUE)],
             SetLifecycle(laneOf[d], Fact("Running", d, a))
      PROVE  TypeOK'
  <2>1. Fact("Running", d, a) \in LaneFact  BY FactType DEF LaneState
  <2>2. NewAttempt(d, st, TRUE) \in AttemptRecord  BY NewAttemptType
  <2>3. attempt' \in [Attempt -> AttemptRecord]  BY <1>4, <2>2 DEF IInv, TypeOK
  <2> QED  BY <1>4, <2>1, <2>3, ActiveFrameType
<1>5. ASSUME NEW d \in Domain, NEW a \in Attempt,
             StartOpens(d, a) \/ CompleteRebuilds(d, a) \/ CompleteRefused(d, a)
      PROVE  TypeOK'
  <2>1. CASE StartOpens(d, a)  BY <1>4, <2>1 DEF StartOpens, AttemptState
  <2>2. CASE CompleteRebuilds(d, a)
    BY <1>4, <2>2 DEF CompleteRebuilds, AttemptState
  <2>3. CASE CompleteRefused(d, a)
    BY <1>4, <2>3 DEF CompleteRefused, AttemptState
  <2> QED  BY <1>5, <2>1, <2>2, <2>3
<1>6. ShellAttempt \subseteq Attempt  BY DEF Attempt
<1> QED  BY <1>1, <1>2, <1>3, <1>5, <1>6, SnapshotType DEF AttemptFrame

LEMMA NextType == ASSUME IInv, Next PROVE TypeOK'
BY TransportStepType, MintStepType, GapStepType, LaneStepType, AttemptStepType,
   DomainFrameType, AttemptFrameType, DeliveryStepType
DEF Next

-----------------------------------------------------------------------------
(* The stacks stay parent chains of live shells.                           *)

\* Steps that touch neither the registry, nor a domain's state, nor a stack.
LEMMA SameStructure ==
    ASSUME IInv, UNCHANGED <<identityVars, state, stack>>
    PROVE  Structure'
BY DEF IInv, Structure, Registered, StackedOnce, StackIsParentChain, LiveIsStacked,
       identityVars

\* What StackIsParentChain says of one entry.
LEMMA EntryOfChain ==
    ASSUME IInv, NEW l \in Lane, NEW i \in DOMAIN stack[l]
    PROVE  /\ stack[l][i] \in Domain
           /\ laneOf[stack[l][i]] = l
           /\ i = 1 => parent[stack[l][i]] = None
           /\ i # 1 => parent[stack[l][i]] = stack[l][i - 1]
           /\ state[stack[l][i]] \in Live
           /\ i # Len(stack[l]) => state[stack[l][i]] = "Suspended"
<1>1. stack[l] \in Seq(Domain)  BY DEF IInv, TypeOK
<1>2. stack[l][i] \in Domain  BY <1>1
<1>3. StackIsParentChain  BY DEF IInv, Structure
<1> QED  BY <1>2, <1>3 DEF StackIsParentChain, Live

\* A step that cuts every stack to its first cut[l] entries, every live shell
\* being on what is left.
CutsStacks(cut) ==
    /\ \A l \in Lane : cut[l] \in 0 .. Len(stack[l])
    /\ \A l \in Lane : stack'[l] = SubSeq(stack[l], 1, cut[l])
    /\ \A l \in Lane : \A i \in 1 .. cut[l] :
           state'[stack[l][i]] \in IF i = cut[l] THEN Live ELSE {"Suspended"}
    /\ \A d \in Domain : state'[d] \in Live =>
           /\ laneOf[d] \in Lane
           /\ \E i \in 1 .. cut[laneOf[d]] : stack[laneOf[d]][i] = d
    /\ \A d \in Domain : state'[d] = "Unminted" <=> state[d] = "Unminted"

LEMMA CutKeepsStructure ==
    ASSUME IInv, UNCHANGED identityVars, NEW cut, CutsStacks(cut)
    PROVE  Structure'
<1> USE DEF CutsStacks
<1>1. \A l \in Lane : /\ stack[l] \in Seq(Domain)
                      /\ DOMAIN stack'[l] = 1 .. cut[l]
                      /\ Len(stack'[l]) = cut[l]
                      /\ \A i \in 1 .. cut[l] : stack'[l][i] = stack[l][i]
  BY DEF IInv, TypeOK
<1>2. \A l \in Lane : 1 .. cut[l] \subseteq DOMAIN stack[l]
  BY <1>1
<1>3. laneOf' = laneOf /\ parent' = parent /\ transportOf' = transportOf
  BY DEF identityVars
<1>4. Registered'  BY <1>3 DEF IInv, Structure, Registered
<1>5. StackedOnce'
  <2> SUFFICES ASSUME NEW l \in Lane, NEW i \in DOMAIN stack'[l],
                      NEW j \in DOMAIN stack'[l], stack'[l][i] = stack'[l][j]
               PROVE  i = j
    BY DEF StackedOnce
  <2>1. i \in 1 .. cut[l] /\ j \in 1 .. cut[l]  BY <1>1
  <2>2. stack[l][i] = stack[l][j]  BY <1>1, <2>1
  <2>3. i \in DOMAIN stack[l] /\ j \in DOMAIN stack[l]  BY <1>2, <2>1
  <2> QED  BY <2>2, <2>3 DEF IInv, Structure, StackedOnce
<1>6. StackIsParentChain'
  <2> SUFFICES ASSUME NEW l \in Lane, NEW i \in DOMAIN stack'[l]
      PROVE /\ laneOf'[stack'[l][i]] = l
            /\ parent'[stack'[l][i]] = IF i = 1 THEN None ELSE stack'[l][i - 1]
            /\ state'[stack'[l][i]] \in IF i = Len(stack'[l]) THEN Live ELSE {"Suspended"}
    BY DEF StackIsParentChain
  <2>1. i \in 1 .. cut[l] /\ i \in DOMAIN stack[l]  BY <1>1, <1>2
  <2>2. /\ laneOf[stack[l][i]] = l
        /\ i = 1 => parent[stack[l][i]] = None
        /\ i # 1 => parent[stack[l][i]] = stack[l][i - 1]
    <3>1. i \in DOMAIN stack[l]  BY <2>1
    <3>2. laneOf[stack[l][i]] = l  BY <3>1, EntryOfChain
    <3>3. i = 1 => parent[stack[l][i]] = None  BY <3>1, EntryOfChain
    <3>4. i # 1 => parent[stack[l][i]] = stack[l][i - 1]  BY <3>1, EntryOfChain
    <3> QED  BY <3>2, <3>3, <3>4
  <2>3. Len(stack[l]) \in Nat /\ cut[l] \in 0 .. Len(stack[l])
    <3>1. stack[l] \in Seq(Domain)  BY <1>1, Zenon
    <3>2. Len(stack[l]) \in Nat  BY <3>1
    <3>3. cut[l] \in 0 .. Len(stack[l])  BY Zenon
    <3> QED  BY <3>2, <3>3
  <2>4. i # 1 => stack'[l][i - 1] = stack[l][i - 1]
    <3> HAVE i # 1
    <3>1. i - 1 \in 1 .. cut[l]  BY <2>1, <2>3
    <3> QED  BY <1>1, <3>1
  <2>5. stack'[l][i] = stack[l][i] /\ Len(stack'[l]) = cut[l]  BY <1>1, <2>1
  <2>6. state'[stack[l][i]] \in IF i = cut[l] THEN Live ELSE {"Suspended"}
    BY <2>1
  <2> QED  BY <1>3, <2>2, <2>4, <2>5, <2>6
<1>7. LiveIsStacked'
  <2> SUFFICES ASSUME NEW d \in Domain, state'[d] \in Live
      PROVE /\ laneOf[d] \in Lane
            /\ \E i \in DOMAIN stack'[laneOf[d]] : stack'[laneOf[d]][i] = d
    BY <1>3 DEF LiveIsStacked
  <2>1. laneOf[d] \in Lane  OBVIOUS
  <2>2. PICK i \in 1 .. cut[laneOf[d]] : stack[laneOf[d]][i] = d  OBVIOUS
  <2>3. i \in DOMAIN stack'[laneOf[d]] /\ stack'[laneOf[d]][i] = d
    BY <1>1, <2>1, <2>2
  <2> QED  BY <2>1, <2>3
<1> QED  BY <1>4, <1>5, <1>6, <1>7 DEF Structure

\* The top of a lane moves from one live state to another.
LEMMA TopMovesStructure ==
    ASSUME IInv, NEW d \in Domain, NEW st \in Live,
           laneOf[d] \in Lane, stack[laneOf[d]] # <<>>,
           stack[laneOf[d]][Len(stack[laneOf[d]])] = d,
           state' = [state EXCEPT ![d] = st], UNCHANGED <<identityVars, stack>>
    PROVE  Structure'
<1> DEFINE cut == [l \in Lane |-> Len(stack[l])]
<1>1. \A l \in Lane : stack[l] \in Seq(Domain) /\ DOMAIN stack[l] = 1 .. Len(stack[l])
  BY DEF IInv, TypeOK
<1>2. \A l \in Lane : cut[l] \in 0 .. Len(stack[l])  BY <1>1
<1>3. \A l \in Lane : stack'[l] = SubSeq(stack[l], 1, cut[l])  BY <1>1
<1>4. state \in [Domain -> DomainState]  BY DEF IInv, TypeOK
<1>5. \A l \in Lane : \A i \in 1 .. cut[l] :
          state'[stack[l][i]] \in IF i = cut[l] THEN Live ELSE {"Suspended"}
  <2> TAKE l \in Lane
  <2> TAKE i \in 1 .. cut[l]
  <2>1. /\ laneOf[stack[l][i]] = l /\ stack[l][i] \in Domain
        /\ state[stack[l][i]] \in IF i = Len(stack[l]) THEN Live ELSE {"Suspended"}
    BY <1>1 DEF IInv, Structure, StackIsParentChain
  <2>2. CASE stack[l][i] = d
    <3>1. l = laneOf[d]  BY <2>1, <2>2
    <3>2. Len(stack[l]) \in DOMAIN stack[l] /\ i \in DOMAIN stack[l]
      BY <3>1, <1>1
    <3>3. i = Len(stack[l])
      BY <2>2, <3>1, <3>2 DEF IInv, Structure, StackedOnce
    <3> QED  BY <2>2, <3>3, <1>4
  <2>3. CASE stack[l][i] # d  BY <2>1, <2>3, <1>4
  <2> QED  BY <2>2, <2>3
<1>6. \A x \in Domain : state'[x] \in Live =>
          /\ laneOf[x] \in Lane
          /\ \E i \in 1 .. cut[laneOf[x]] : stack[laneOf[x]][i] = x
  <2> SUFFICES ASSUME NEW x \in Domain, state'[x] \in Live
      PROVE /\ laneOf[x] \in Lane
            /\ \E i \in 1 .. Len(stack[laneOf[x]]) : stack[laneOf[x]][i] = x
    OBVIOUS
  <2>1. CASE x = d
    <3>1. Len(stack[laneOf[d]]) \in 1 .. Len(stack[laneOf[d]])  BY <1>1
    <3> QED  BY <2>1, <3>1
  <2>2. CASE x # d
    BY <1>1, <1>4, <2>2 DEF IInv, Structure, LiveIsStacked
  <2> QED  BY <2>1, <2>2
<1>7. state[d] # "Unminted"
  BY <1>1 DEF IInv, Structure, StackIsParentChain, Live
<1>8. \A x \in Domain : state'[x] = "Unminted" <=> state[x] = "Unminted"
  BY <1>4, <1>7 DEF Live
<1> HIDE DEF cut
<1>9. CutsStacks(cut)  BY <1>2, <1>3, <1>5, <1>6, <1>8 DEF CutsStacks
<1> QED  BY <1>9, CutKeepsStructure

\* The top of a lane ends.
LEMMA TopEndsStructure ==
    ASSUME IInv, NEW d \in Domain, laneOf[d] \in Lane, stack[laneOf[d]] # <<>>,
           stack[laneOf[d]][Len(stack[laneOf[d]])] = d,
           EndDomain(d), UNCHANGED identityVars
    PROVE  Structure'
<1> DEFINE cut == [l \in Lane |-> IF l = laneOf[d] THEN Len(stack[l]) - 1
                                  ELSE Len(stack[l])]
<1>1. \A l \in Lane : stack[l] \in Seq(Domain) /\ DOMAIN stack[l] = 1 .. Len(stack[l])
  BY DEF IInv, TypeOK
<1>2. \A l \in Lane : cut[l] \in 0 .. Len(stack[l])  BY <1>1
<1>3. stack' = [stack EXCEPT ![laneOf[d]] =
                    SubSeq(stack[laneOf[d]], 1, Len(stack[laneOf[d]]) - 1)]
  BY EndOfTop DEF EndDomain
<1>4. \A l \in Lane : stack'[l] = SubSeq(stack[l], 1, cut[l])
  <2> TAKE l \in Lane
  <2>1. CASE l = laneOf[d]  BY <1>3, <2>1 DEF IInv, TypeOK
  <2>2. CASE l # laneOf[d]
    <3>1. stack'[l] = stack[l]  BY <1>3, <2>2 DEF IInv, TypeOK
    <3>2. stack[l] = SubSeq(stack[l], 1, Len(stack[l]))  BY <1>1
    <3> QED  BY <2>2, <3>1, <3>2
  <2> QED  BY <2>1, <2>2
<1>5. state \in [Domain -> DomainState] /\ state' = [state EXCEPT ![d] = "Closed"]
  BY DEF IInv, TypeOK, EndDomain
<1>6. \A l \in Lane : \A i \in 1 .. cut[l] :
          state'[stack[l][i]] \in IF i = cut[l] THEN Live ELSE {"Suspended"}
  <2> TAKE l \in Lane
  <2> TAKE i \in 1 .. cut[l]
  <2>1. /\ laneOf[stack[l][i]] = l /\ stack[l][i] \in Domain /\ i \in DOMAIN stack[l]
        /\ state[stack[l][i]] \in IF i = Len(stack[l]) THEN Live ELSE {"Suspended"}
    BY <1>1 DEF IInv, Structure, StackIsParentChain
  <2>2. stack[l][i] # d
    <3> SUFFICES ASSUME stack[l][i] = d PROVE FALSE  OBVIOUS
    <3>1. l = laneOf[d]  BY <2>1
    <3>2. Len(stack[l]) \in DOMAIN stack[l] /\ i # Len(stack[l])  BY <3>1, <1>1
    <3> QED  BY <2>1, <3>1, <3>2 DEF IInv, Structure, StackedOnce
  <2>3. state'[stack[l][i]] = state[stack[l][i]]  BY <1>5, <2>1, <2>2
  <2> QED  BY <2>1, <2>3, <1>1 DEF Live
<1>7. \A x \in Domain : state'[x] \in Live =>
          /\ laneOf[x] \in Lane
          /\ \E i \in 1 .. cut[laneOf[x]] : stack[laneOf[x]][i] = x
  <2> SUFFICES ASSUME NEW x \in Domain, state'[x] \in Live
      PROVE /\ laneOf[x] \in Lane
            /\ \E i \in 1 .. cut[laneOf[x]] : stack[laneOf[x]][i] = x
    OBVIOUS
  <2>1. x # d /\ state[x] \in Live  BY <1>5 DEF Live
  <2>2. laneOf[x] \in Lane /\ \E i \in DOMAIN stack[laneOf[x]] : stack[laneOf[x]][i] = x
    BY <2>1 DEF IInv, Structure, LiveIsStacked
  <2>3. PICK i \in 1 .. Len(stack[laneOf[x]]) : stack[laneOf[x]][i] = x
    BY <2>2, <1>1
  <2>4. i \in 1 .. cut[laneOf[x]]  BY <2>1, <2>2, <2>3, <1>1
  <2> QED  BY <2>2, <2>3, <2>4
<1>8. state[d] # "Unminted"
  BY <1>1 DEF IInv, Structure, StackIsParentChain, Live
<1>9. \A x \in Domain : state'[x] = "Unminted" <=> state[x] = "Unminted"
  BY <1>5, <1>8
<1> HIDE DEF cut
<1>10. CutsStacks(cut)  BY <1>2, <1>4, <1>6, <1>7, <1>9 DEF CutsStacks
<1> QED  BY <1>10, CutKeepsStructure

LEMMA TransportLostStructure ==
    ASSUME IInv, NEW t \in Transport, TransportLost(t)
    PROVE  Structure'
<1> DEFINE dead == Cascade({d \in Domain : transportOf[d] = t})
           Cut(l, m) == /\ \A i \in 1 .. Len(stack[l]) : stack[l][i] \notin dead <=> i <= m
                        /\ Without(stack[l], dead) = SubSeq(stack[l], 1, m)
           cut == [l \in Lane |-> CHOOSE m \in 0 .. Len(stack[l]) : Cut(l, m)]
<1>1. \A l \in Lane : \E m \in 0 .. Len(stack[l]) : Cut(l, m)
  <2> TAKE l \in Lane
  <2> DEFINE S == {d \in Domain : transportOf[d] = t}
  <2>1. S \in SUBSET Domain  OBVIOUS
  <2> HIDE DEF S
  <2> QED  BY <2>1, CascadeCutsStack
<1>2. /\ UNCHANGED identityVars
      /\ state' = [d \in Domain |-> IF d \in dead THEN "Lost" ELSE state[d]]
      /\ stack' = [l \in Lane |-> Without(stack[l], dead)]
  BY DEF TransportLost
<1> HIDE DEF dead
<1>3. \A l \in Lane : cut[l] \in 0 .. Len(stack[l]) /\ Cut(l, cut[l])
  <2> TAKE l \in Lane
  <2> HIDE DEF Cut
  <2>1. \E m \in 0 .. Len(stack[l]) : Cut(l, m)  BY <1>1
  <2> DEFINE c == CHOOSE m \in 0 .. Len(stack[l]) : Cut(l, m)
  <2>2. c \in 0 .. Len(stack[l]) /\ Cut(l, c)  BY <2>1, Zenon
  <2>3. cut[l] = c  OBVIOUS
  <2> HIDE DEF c, cut
  <2> QED  BY <2>2, <2>3
<1> HIDE DEF cut
<1>4. \A l \in Lane : cut[l] \in 0 .. Len(stack[l])  BY <1>3, Zenon
<1>5. \A l \in Lane : stack'[l] = SubSeq(stack[l], 1, cut[l])  BY <1>2, <1>3
<1>6. \A l \in Lane : \A i \in 1 .. cut[l] :
          state'[stack[l][i]] \in IF i = cut[l] THEN Live ELSE {"Suspended"}
  <2> TAKE l \in Lane
  <2> TAKE i \in 1 .. cut[l]
  <2>1. stack[l] \in Seq(Domain) /\ cut[l] \in 0 .. Len(stack[l])
    BY <1>4 DEF IInv, TypeOK
  <2>2. i \in DOMAIN stack[l] /\ i \in 1 .. Len(stack[l]) /\ i <= cut[l]  BY <2>1
  <2>3. stack[l][i] \notin dead  BY <1>3, <2>2
  <2>4. stack[l][i] \in Domain /\ state[stack[l][i]] \in Live
    BY <2>2, EntryOfChain
  <2>5. i # Len(stack[l]) => state[stack[l][i]] = "Suspended"
    BY <2>2, EntryOfChain
  <2>6. state'[stack[l][i]] = state[stack[l][i]]  BY <1>2, <2>3, <2>4
  <2>7. i # cut[l] => i # Len(stack[l])  BY <2>1, <2>2
  <2> QED  BY <2>4, <2>5, <2>6, <2>7
<1>7. \A d \in Domain : state'[d] \in Live =>
          /\ laneOf[d] \in Lane
          /\ \E i \in 1 .. cut[laneOf[d]] : stack[laneOf[d]][i] = d
  <2> SUFFICES ASSUME NEW d \in Domain, state'[d] \in Live
      PROVE /\ laneOf[d] \in Lane
            /\ \E i \in 1 .. cut[laneOf[d]] : stack[laneOf[d]][i] = d
    OBVIOUS
  <2>1. d \notin dead /\ state[d] \in Live  BY <1>2 DEF Live
  <2>2. laneOf[d] \in Lane /\ \E i \in DOMAIN stack[laneOf[d]] : stack[laneOf[d]][i] = d
    BY <2>1 DEF IInv, Structure, LiveIsStacked
  <2>3. stack[laneOf[d]] \in Seq(Domain)  BY <2>2 DEF IInv, TypeOK
  <2>4. PICK i \in 1 .. Len(stack[laneOf[d]]) : stack[laneOf[d]][i] = d
    BY <2>2, <2>3
  <2>5. i <= cut[laneOf[d]]  BY <1>3, <2>1, <2>2, <2>4
  <2>6. i \in 1 .. cut[laneOf[d]]  BY <1>4, <2>2, <2>3, <2>4, <2>5
  <2> QED  BY <2>2, <2>4, <2>6
<1>8. \A d \in Domain : state'[d] = "Unminted" <=> state[d] = "Unminted"
  <2> DEFINE minted == {x \in Domain : state[x] # "Unminted"}
  <2>1. {x \in Domain : transportOf[x] = t} \subseteq minted
    BY NoneAssumption DEF IInv, Structure, Registered
  <2>2. ClosedUnderChildren(minted)
    BY NoneAssumption DEF ClosedUnderChildren, IInv, Structure, Registered
  <2>3. dead \subseteq minted  BY <2>1, <2>2, Zenon DEF Cascade, dead
  <2> QED  BY <1>2, <2>3
<1>9. CutsStacks(cut)  BY <1>4, <1>5, <1>6, <1>7, <1>8 DEF CutsStacks
<1> QED  BY <1>2, <1>9, CutKeepsStructure

LEMMA ActivateStructure ==
    ASSUME IInv, NEW d \in Domain, Activate(d)
    PROVE  Structure'
<1> DEFINE home == laneOf[d]
           s == stack[home]
<1>1. home \in Lane /\ s \in Seq(Domain)
  BY DEF Activate, IInv, TypeOK, Structure, LiveIsStacked, Live
<1>2. PICK at \in 1 .. Len(s) :
         /\ s[at] = d
         /\ \A i \in 1 .. Len(s) : s[i] = d <=> i = at
         /\ stack' = [stack EXCEPT ![home] = SubSeq(s, 1, at)]
         /\ LET above == {s[i] : i \in {j \in DOMAIN s : j > at}}
            IN  state' = [x \in Domain |-> IF x \in above THEN "Closed"
                              ELSE IF x = d THEN "Established" ELSE state[x]]
  BY ActivateCuts
<1> DEFINE above == {s[i] : i \in {j \in DOMAIN s : j > at}}
           cut == [l \in Lane |-> IF l = home THEN at ELSE Len(stack[l])]
<1>3. state' = [x \in Domain |-> IF x \in above THEN "Closed"
                    ELSE IF x = d THEN "Established" ELSE state[x]]
  BY <1>2
<1>4. UNCHANGED identityVars /\ state[d] = "Suspended"  BY DEF Activate
<1>5. \A l \in Lane : stack[l] \in Seq(Domain) /\ DOMAIN stack[l] = 1 .. Len(stack[l])
  BY DEF IInv, TypeOK
<1>6. \A l \in Lane : cut[l] \in 0 .. Len(stack[l])  BY <1>5
<1>7. \A l \in Lane : stack'[l] = SubSeq(stack[l], 1, cut[l])
  <2> TAKE l \in Lane
  <2>1. CASE l = home  BY <1>1, <1>2, <2>1 DEF IInv, TypeOK
  <2>2. CASE l # home
    <3>1. stack'[l] = stack[l]  BY <1>2, <2>2 DEF IInv, TypeOK
    <3>2. stack[l] = SubSeq(stack[l], 1, Len(stack[l]))  BY <1>5
    <3> QED  BY <2>2, <3>1, <3>2
  <2> QED  BY <2>1, <2>2
\* What is above d on its own lane, and nothing else, is superseded.
<1>8. \A l \in Lane : \A i \in 1 .. Len(stack[l]) :
          stack[l][i] \in above <=> l = home /\ i > at
  <2> TAKE l \in Lane
  <2> TAKE i \in 1 .. Len(stack[l])
  <2>1. i \in DOMAIN stack[l] /\ laneOf[stack[l][i]] = l  BY <1>5, EntryOfChain
  <2>2. ASSUME stack[l][i] \in above PROVE l = home /\ i > at
    <3>1. PICK j \in DOMAIN s : j > at /\ s[j] = stack[l][i]  BY <2>2
    <3>2. laneOf[s[j]] = home  BY <1>1, EntryOfChain
    <3>3. l = home  BY <2>1, <3>1, <3>2
    <3>4. i = j  BY <2>1, <3>1, <3>3 DEF IInv, Structure, StackedOnce
    <3> QED  BY <3>1, <3>3, <3>4
  <2>3. ASSUME l = home, i > at PROVE stack[l][i] \in above
    BY <1>5, <2>1, <2>3
  <2> QED  BY <2>2, <2>3
<1> HIDE DEF above
<1>9. \A l \in Lane : \A i \in 1 .. cut[l] :
          state'[stack[l][i]] \in IF i = cut[l] THEN Live ELSE {"Suspended"}
  <2> TAKE l \in Lane
  <2> TAKE i \in 1 .. cut[l]
  <2>1. Len(stack[l]) \in Nat /\ at \in Nat  BY <1>1, <1>2, <1>5
  <2>2. i \in 1 .. Len(stack[l]) /\ (l = home => i <= at)  BY <1>1, <1>2, <2>1
  <2>3. stack[l][i] \notin above  BY <1>8, <2>1, <2>2
  <2>4. i \in DOMAIN stack[l]  BY <1>5, <2>2
  <2>5. stack[l][i] \in Domain /\ state[stack[l][i]] \in Live /\ laneOf[stack[l][i]] = l
    BY <2>4, EntryOfChain
  <2>6. i # Len(stack[l]) => state[stack[l][i]] = "Suspended"
    BY <2>4, EntryOfChain
  <2>7. CASE stack[l][i] = d
    <3>1. l = home /\ i = at  BY <1>2, <2>2, <2>5, <2>7
    <3>2. state'[stack[l][i]] = "Established"  BY <1>3, <2>3, <2>7
    <3> QED  BY <3>1, <3>2 DEF Live
  <2>8. CASE stack[l][i] # d
    <3>1. state'[stack[l][i]] = state[stack[l][i]]  BY <1>3, <2>3, <2>5, <2>8
    <3>2. i # cut[l] => i # Len(stack[l])  BY <1>1, <1>2, <2>1, <2>2
    <3> QED  BY <2>5, <2>6, <3>1, <3>2
  <2> QED  BY <2>7, <2>8
<1>10. \A x \in Domain : state'[x] \in Live =>
          /\ laneOf[x] \in Lane
          /\ \E i \in 1 .. cut[laneOf[x]] : stack[laneOf[x]][i] = x
  <2> SUFFICES ASSUME NEW x \in Domain, state'[x] \in Live
      PROVE /\ laneOf[x] \in Lane
            /\ \E i \in 1 .. cut[laneOf[x]] : stack[laneOf[x]][i] = x
    OBVIOUS
  <2>1. x \notin above /\ state[x] \in Live  BY <1>3, <1>4 DEF Live
  <2>2. laneOf[x] \in Lane /\ \E i \in DOMAIN stack[laneOf[x]] : stack[laneOf[x]][i] = x
    BY <2>1 DEF IInv, Structure, LiveIsStacked
  <2>3. PICK i \in 1 .. Len(stack[laneOf[x]]) : stack[laneOf[x]][i] = x
    BY <1>5, <2>2
  <2>4. laneOf[x] = home => i <= at  BY <1>2, <1>8, <2>1, <2>2, <2>3
  <2>5. i \in 1 .. cut[laneOf[x]]  BY <1>2, <2>2, <2>3, <2>4
  <2> QED  BY <2>2, <2>3, <2>5
<1>11. \A x \in Domain : state'[x] = "Unminted" <=> state[x] = "Unminted"
  <2> TAKE x \in Domain
  <2>1. x \in above => state[x] # "Unminted"
    <3>1. \A i \in DOMAIN s : state[s[i]] \in Live  BY <1>1, EntryOfChain
    <3> QED  BY <3>1 DEF above, Live
  <2>2. state'[x] = IF x \in above THEN "Closed"
                    ELSE IF x = d THEN "Established" ELSE state[x]
    BY <1>3
  <2> QED  BY <1>4, <2>1, <2>2
<1>12. UNCHANGED identityVars  BY <1>4
<1> HIDE DEF cut, home, s
<1>13. CutsStacks(cut)  BY <1>6, <1>7, <1>9, <1>10, <1>11 DEF CutsStacks
<1> QED  BY <1>12, <1>13, CutKeepsStructure

\* A domain that was neither live nor stacked starts its life on top.
LEMMA PushKeepsStructure ==
    ASSUME IInv, NEW d \in Domain, NEW l \in Lane,
           state[d] \in {"Unminted", "Pending"},
           laneOf'[d] = l, transportOf'[d] \in Transport,
           \A x \in Domain \ {d} : /\ laneOf'[x] = laneOf[x]
                                   /\ parent'[x] = parent[x]
                                   /\ transportOf'[x] = transportOf[x],
           parent'[d] = IF stack[l] = <<>> THEN None ELSE stack[l][Len(stack[l])],
           stack[l] # <<>> => state[stack[l][Len(stack[l])]] = "Suspended",
           state' = [state EXCEPT ![d] = "Established"],
           stack' = [stack EXCEPT ![l] = Append(stack[l], d)]
    PROVE  Structure'
<1>1. state \in [Domain -> DomainState] /\ \A m \in Lane : stack[m] \in Seq(Domain)
  BY DEF IInv, TypeOK
<1>2. stack'[l] = Append(stack[l], d) /\ \A m \in Lane \ {l} : stack'[m] = stack[m]
  BY DEF IInv, TypeOK
<1>3. \A m \in Lane : \A i \in DOMAIN stack[m] : stack[m][i] # d
  <2> TAKE m \in Lane
  <2> TAKE i \in DOMAIN stack[m]
  <2>1. state[stack[m][i]] \in Live  BY EntryOfChain
  <2> QED  BY <2>1 DEF Live
<1>4. Registered'
  <2> SUFFICES ASSUME NEW x \in Domain
      PROVE IF state'[x] = "Unminted"
            THEN parent'[x] = None /\ laneOf'[x] = None /\ transportOf'[x] = None
            ELSE laneOf'[x] \in Lane /\ transportOf'[x] \in Transport
    BY DEF Registered
  <2>1. CASE x = d  BY <1>1, <2>1
  <2>2. CASE x # d  BY <1>1, <2>2 DEF IInv, Structure, Registered
  <2> QED  BY <2>1, <2>2
<1>5. \A m \in Lane : \A i \in DOMAIN stack'[m] :
          \/ i \in DOMAIN stack[m] /\ stack'[m][i] = stack[m][i]
          \/ m = l /\ i = Len(stack[l]) + 1 /\ stack'[m][i] = d
  <2> TAKE m \in Lane
  <2>1. CASE m = l  BY <1>1, <1>2, <2>1
  <2>2. CASE m # l  BY <1>2, <2>2
  <2> QED  BY <2>1, <2>2
<1>6. StackedOnce'
  <2> SUFFICES ASSUME NEW m \in Lane, NEW i \in DOMAIN stack'[m],
                      NEW j \in DOMAIN stack'[m], stack'[m][i] = stack'[m][j]
               PROVE  i = j
    BY DEF StackedOnce
  <2> QED  BY <1>3, <1>5 DEF IInv, Structure, StackedOnce
<1>7. StackIsParentChain'
  <2> SUFFICES ASSUME NEW m \in Lane, NEW i \in DOMAIN stack'[m]
      PROVE /\ laneOf'[stack'[m][i]] = m
            /\ parent'[stack'[m][i]] = IF i = 1 THEN None ELSE stack'[m][i - 1]
            /\ state'[stack'[m][i]] \in IF i = Len(stack'[m]) THEN Live ELSE {"Suspended"}
    BY DEF StackIsParentChain
  <2>1. CASE i \in DOMAIN stack[m] /\ stack'[m][i] = stack[m][i]
    <3> DEFINE x == stack[m][i]
    <3>1. /\ x \in Domain /\ laneOf[x] = m /\ state[x] \in Live
          /\ i = 1 => parent[x] = None
          /\ i # 1 => parent[x] = stack[m][i - 1]
          /\ i # Len(stack[m]) => state[x] = "Suspended"
      BY <2>1, EntryOfChain
    <3>2. x # d  BY <1>3, <2>1
    <3>3. laneOf'[x] = laneOf[x] /\ parent'[x] = parent[x] /\ state'[x] = state[x]
      BY <1>1, <3>1, <3>2
    <3>4. i # 1 => stack'[m][i - 1] = stack[m][i - 1]
      <4>1. CASE m = l  BY <1>1, <1>2, <2>1, <4>1
      <4>2. CASE m # l  BY <1>2, <4>2
      <4> QED  BY <4>1, <4>2
    <3>5. i # Len(stack'[m]) => state[x] = "Suspended"
      <4>1. CASE m = l
        <5>1. i # Len(stack[l]) => state[x] = "Suspended"  BY <3>1, <4>1
        <5>2. i = Len(stack[l]) => state[x] = "Suspended"  BY <1>1, <2>1, <4>1
        <5> QED  BY <5>1, <5>2
      <4>2. CASE m # l  BY <1>2, <3>1, <4>2
      <4> QED  BY <4>1, <4>2
    <3>6. state'[x] \in IF i = Len(stack'[m]) THEN Live ELSE {"Suspended"}
      BY <3>1, <3>3, <3>5
    <3>7. parent'[x] = IF i = 1 THEN None ELSE stack'[m][i - 1]
      BY <3>1, <3>3, <3>4
    <3> HIDE DEF x
    <3>8. stack'[m][i] = x  BY <2>1 DEF x
    <3> QED  BY <3>1, <3>3, <3>6, <3>7, <3>8
  <2>2. CASE m = l /\ i = Len(stack[l]) + 1 /\ stack'[m][i] = d
    <3>1. Len(stack'[m]) = i  BY <1>1, <1>2, <2>2
    <3>2. state'[d] = "Established"  BY <1>1
    <3>3. CASE stack[l] = <<>>
      <4>1. i = 1  BY <2>2, <3>3
      <4> QED  BY <2>2, <3>1, <3>2, <3>3, <4>1 DEF Live
    <3>4. CASE stack[l] # <<>>
      <4>1. i # 1 /\ stack'[m][i - 1] = stack[l][Len(stack[l])]
        BY <1>1, <1>2, <2>2, <3>4
      <4> QED  BY <2>2, <3>1, <3>2, <3>4, <4>1 DEF Live
    <3> QED  BY <3>3, <3>4
  <2> QED  BY <1>5, <2>1, <2>2
<1>8. LiveIsStacked'
  <2> SUFFICES ASSUME NEW x \in Domain, state'[x] \in Live
      PROVE /\ laneOf'[x] \in Lane
            /\ \E i \in DOMAIN stack'[laneOf'[x]] : stack'[laneOf'[x]][i] = x
    BY DEF LiveIsStacked
  <2>1. CASE x = d
    <3>1. Len(stack[l]) + 1 \in DOMAIN stack'[l] /\ stack'[l][Len(stack[l]) + 1] = d
      BY <1>1, <1>2
    <3> QED  BY <2>1, <3>1
  <2>2. CASE x # d
    <3>1. state[x] \in Live /\ laneOf'[x] = laneOf[x]  BY <1>1, <2>2
    <3>2. laneOf[x] \in Lane  BY <3>1 DEF IInv, Structure, LiveIsStacked
    <3>3. PICK i \in DOMAIN stack[laneOf[x]] : stack[laneOf[x]][i] = x
      BY <3>1 DEF IInv, Structure, LiveIsStacked
    <3>4. i \in DOMAIN stack'[laneOf[x]] /\ stack'[laneOf[x]][i] = x
      <4>1. CASE laneOf[x] = l  BY <1>1, <1>2, <3>3, <4>1
      <4>2. CASE laneOf[x] # l  BY <1>2, <3>2, <3>3, <4>2
      <4> QED  BY <4>1, <4>2
    <3> QED  BY <3>1, <3>2, <3>4
  <2> QED  BY <2>1, <2>2
<1> QED  BY <1>4, <1>6, <1>7, <1>8 DEF Structure

\* A minted domain waits, on no stack yet.
LEMMA RequestStructure ==
    ASSUME IInv, NEW d \in Domain, NEW l \in Lane, NEW t \in Transport,
           NEW p \in Domain \cup {None}, RequestDomain(d, l, p, t)
    PROVE  Structure'
<1>1. /\ state' = [state EXCEPT ![d] = "Pending"] /\ state[d] = "Unminted"
      /\ parent' = [parent EXCEPT ![d] = p]
      /\ laneOf' = [laneOf EXCEPT ![d] = l]
      /\ transportOf' = [transportOf EXCEPT ![d] = t]
      /\ stack' = stack
  BY DEF RequestDomain, Register
<1>2. /\ state \in [Domain -> DomainState]
      /\ parent \in [Domain -> Domain \cup {None}]
      /\ laneOf \in [Domain -> Lane \cup {None}]
      /\ transportOf \in [Domain -> Transport \cup {None}]
  BY DEF IInv, TypeOK
<1>3. \A x \in Domain \ {d} : /\ state'[x] = state[x] /\ parent'[x] = parent[x]
                              /\ laneOf'[x] = laneOf[x]
                              /\ transportOf'[x] = transportOf[x]
  BY <1>1, <1>2
<1>4. state'[d] = "Pending" /\ laneOf'[d] = l /\ transportOf'[d] = t
  BY <1>1, <1>2
<1>5. \A m \in Lane : \A i \in DOMAIN stack[m] : stack[m][i] \in Domain \ {d}
  <2> TAKE m \in Lane
  <2> TAKE i \in DOMAIN stack[m]
  <2>1. stack[m][i] \in Domain /\ state[stack[m][i]] \in Live  BY EntryOfChain
  <2> QED  BY <1>1, <2>1 DEF Live
<1>6. Registered'
  <2> SUFFICES ASSUME NEW x \in Domain
      PROVE IF state'[x] = "Unminted"
            THEN parent'[x] = None /\ laneOf'[x] = None /\ transportOf'[x] = None
            ELSE laneOf'[x] \in Lane /\ transportOf'[x] \in Transport
    BY DEF Registered
  <2>1. CASE x = d  BY <1>4, <2>1
  <2>2. CASE x # d  BY <1>3, <2>2 DEF IInv, Structure, Registered
  <2> QED  BY <2>1, <2>2
<1>7. StackedOnce'  BY <1>1 DEF IInv, Structure, StackedOnce
<1>8. StackIsParentChain'
  BY <1>1, <1>3, <1>5 DEF IInv, Structure, StackIsParentChain
<1>9. LiveIsStacked'
  <2> SUFFICES ASSUME NEW x \in Domain, state'[x] \in Live
      PROVE /\ laneOf'[x] \in Lane
            /\ \E i \in DOMAIN stack'[laneOf'[x]] : stack'[laneOf'[x]][i] = x
    BY DEF LiveIsStacked
  <2>1. x # d /\ state[x] \in Live /\ laneOf'[x] = laneOf[x]
    BY <1>3, <1>4 DEF Live
  <2> QED  BY <1>1, <2>1 DEF IInv, Structure, LiveIsStacked
<1> QED  BY <1>6, <1>7, <1>8, <1>9 DEF Structure

LEMMA AdoptStructure ==
    ASSUME IInv, NEW d \in Domain, NEW l \in Lane, NEW t \in Transport,
           NEW e, AdoptDomain(d, l, t, e)
    PROVE  Structure'
<1>1. /\ state' = [state EXCEPT ![d] = "Established"] /\ state[d] = "Unminted"
      /\ parent' = [parent EXCEPT ![d] = None]
      /\ laneOf' = [laneOf EXCEPT ![d] = l]
      /\ transportOf' = [transportOf EXCEPT ![d] = t]
      /\ stack[l] = <<>>
      /\ stack' = [stack EXCEPT ![l] = <<d>>]
  BY DEF AdoptDomain, Register
<1>2. /\ parent \in [Domain -> Domain \cup {None}]
      /\ laneOf \in [Domain -> Lane \cup {None}]
      /\ transportOf \in [Domain -> Transport \cup {None}]
  BY DEF IInv, TypeOK
<1>3. /\ \A x \in Domain \ {d} : /\ laneOf'[x] = laneOf[x]
                                 /\ parent'[x] = parent[x]
                                 /\ transportOf'[x] = transportOf[x]
      /\ laneOf'[d] = l /\ parent'[d] = None /\ transportOf'[d] = t
  BY <1>1, <1>2
<1>4. Append(stack[l], d) = <<d>>  BY <1>1
<1> QED  BY <1>1, <1>3, <1>4, PushKeepsStructure

LEMMA HelloStructure ==
    ASSUME IInv, NEW d \in Domain, HelloEstablishes(d)
    PROVE  Structure'
<1>1. /\ state[d] = "Pending" /\ UNCHANGED identityVars /\ MayEstablish(d)
      /\ state' = [state EXCEPT ![d] = "Established"]
      /\ stack' = [stack EXCEPT ![laneOf[d]] = Append(stack[laneOf[d]], d)]
  BY DEF HelloEstablishes
<1>2. laneOf[d] \in Lane /\ transportOf[d] \in Transport
  BY <1>1 DEF IInv, Structure, Registered
<1>3. parent[d] \in Domain \cup {None}  BY DEF IInv, TypeOK
<1>4. /\ parent[d] = IF stack[laneOf[d]] = <<>> THEN None
                     ELSE stack[laneOf[d]][Len(stack[laneOf[d]])]
      /\ stack[laneOf[d]] # <<>> =>
             state[stack[laneOf[d]][Len(stack[laneOf[d]])]] = "Suspended"
  BY <1>1, <1>3, NoneAssumption DEF MayEstablish, Top
<1> QED  BY <1>1, <1>2, <1>4, PushKeepsStructure DEF identityVars

LEMMA NextStructure == ASSUME IInv, Next PROVE Structure'
<1>1. ASSUME TransportStep PROVE Structure'
  <2>1. ASSUME NEW t \in Transport, BindTransport(t) \/ UnbindTransport(t)
        PROVE  Structure'
    BY <2>1, SameStructure DEF BindTransport, UnbindTransport
  <2> QED  BY <1>1, <2>1, TransportLostStructure DEF TransportStep
<1>2. ASSUME MintStep PROVE Structure'
  BY <1>2, RequestStructure, AdoptStructure DEF MintStep
<1>3. ASSUME GapStep PROVE Structure'
  <2>1. ASSUME NEW d \in Domain, NEW n, GapOpensEpisode(d, n) PROVE Structure'
    <3>1. /\ state[d] = "Established" /\ UNCHANGED <<identityVars, stack>>
          /\ state' = [state EXCEPT ![d] = "Desynchronized"]
      BY <2>1 DEF GapOpensEpisode
    <3>2. /\ laneOf[d] \in Lane /\ stack[laneOf[d]] # <<>>
          /\ stack[laneOf[d]][Len(stack[laneOf[d]])] = d
      BY <3>1, HolderIsTop
    <3> QED  BY <3>1, <3>2, TopMovesStructure DEF Live
  <2>2. ASSUME NEW d \in Domain, NEW n, GapAccumulates(d, n) PROVE Structure'
    BY <2>2, SameStructure DEF GapAccumulates
  <2>3. ASSUME NEW d \in Domain, BudgetRevokes(d) PROVE Structure'
    <3>1. /\ state[d] \in {"Established", "Desynchronized"}
          /\ EndDomain(d) /\ UNCHANGED identityVars
      BY <2>3 DEF BudgetRevokes, Revoke
    <3> QED  BY <3>1, HolderIsTop, TopEndsStructure
  <2> QED  BY <1>3, <2>1, <2>2, <2>3 DEF GapStep
<1>4. ASSUME LaneStep PROVE Structure'
  <2>1. ASSUME NEW l \in Lane, WindowPasses(l) \/ RejectFrame(l) \/ RecoverLane(l)
        PROVE  Structure'
    BY <2>1, SameStructure DEF WindowPasses, RejectFrame, RecoverLane
  <2>2. ASSUME NEW l \in Lane, NEW ep \in Domain, SightRecovery(l, ep)
        PROVE  Structure'
    BY <2>2, SameStructure DEF SightRecovery
  <2> QED  BY <1>4, <2>1, <2>2 DEF LaneStep
<1>5. ASSUME AttemptStep PROVE Structure'
  BY <1>5, SameStructure DEF AttemptStep, AbandonAttempt, SubmitAttempt
<1>6. ASSUME DomainFrame PROVE Structure'
  <2>1. ASSUME NEW d \in Domain, HelloRefused(d) \/ HelloReconnects(d) \/ EchoFrame(d)
        PROVE  Structure'
    BY <2>1, SameStructure DEF HelloRefused, HelloReconnects, EchoFrame, ActiveFrame
  <2>2. ASSUME NEW d \in Domain, Suspend(d) PROVE Structure'
    <3>1. /\ state[d] = "Established" /\ UNCHANGED <<identityVars, stack>>
          /\ state' = [state EXCEPT ![d] = "Suspended"]
      BY <2>2 DEF Suspend, ActiveFrame, Active
    <3>2. /\ laneOf[d] \in Lane /\ stack[laneOf[d]] # <<>>
          /\ stack[laneOf[d]][Len(stack[laneOf[d]])] = d
      BY <3>1, HolderIsTop
    <3> QED  BY <3>1, <3>2, TopMovesStructure DEF Live
  <2>3. ASSUME NEW d \in Domain, Close(d) PROVE Structure'
    <3>1. /\ laneOf[d] \in Lane
          /\ stack[laneOf[d]] # <<>>
          /\ stack[laneOf[d]][Len(stack[laneOf[d]])] = d
      BY <2>3, NoneAssumption DEF Close, Top, IInv, Structure, Registered
    <3> QED  BY <2>3, <3>1, TopEndsStructure DEF Close
  <2> QED
    BY <1>6, <2>1, <2>2, <2>3, HelloStructure, ActivateStructure DEF DomainFrame
<1>7. ASSUME AttemptFrame PROVE Structure'
  <2>1. ASSUME NEW d \in Domain, ActiveFrame(d), UNCHANGED state PROVE Structure'
    BY <2>1, SameStructure DEF ActiveFrame
  <2>2. ASSUME NEW d \in Domain, NEW r, NEW active, NEW last,
               Snapshot(d, r, active, last)
        PROVE  Structure'
    <3>1. /\ state[d] = "Desynchronized" /\ UNCHANGED <<identityVars, stack>>
          /\ state' = [state EXCEPT ![d] = "Established"]
      BY <2>2 DEF Snapshot
    <3>2. /\ laneOf[d] \in Lane /\ stack[laneOf[d]] # <<>>
          /\ stack[laneOf[d]][Len(stack[laneOf[d]])] = d
      BY <3>1, HolderIsTop
    <3> QED  BY <3>1, <3>2, TopMovesStructure DEF Live
  <2>3. ASSUME NEW d \in Domain, NEW a,
               \/ PromptReady(d) \/ StartAttaches(d, a) \/ CompleteOpen(d, a)
               \/ StartOpens(d, a) \/ CompleteRebuilds(d, a) \/ CompleteRefused(d, a)
        PROVE  Structure'
    BY <2>1, <2>3 DEF PromptReady, StartAttaches, CompleteOpen, StartOpens,
                      CompleteRebuilds, CompleteRefused
  <2> QED  BY <1>7, <2>2, <2>3 DEF AttemptFrame
<1>8. ASSUME DeliveryStep PROVE Structure'
  <2>1. ASSUME NEW d \in Domain,
               DeliverBegins(d) \/ DeliverRefused(d) \/ DeliverEnds(d)
        PROVE  Structure'
    BY <2>1, SameStructure DEF DeliverBegins, DeliverRefused, DeliverEnds
  <2>2. ASSUME NEW d \in Domain, EstablishmentTimeout(d) PROVE Structure'
    <3>1. /\ state[d] = "Established" /\ EndDomain(d) /\ UNCHANGED identityVars
      BY <2>2 DEF EstablishmentTimeout, Revoke
    <3> QED  BY <3>1, HolderIsTop, TopEndsStructure
  <2> QED  BY <1>8, <2>1, <2>2 DEF DeliveryStep
<1> QED  BY <1>1, <1>2, <1>3, <1>4, <1>5, <1>6, <1>7, <1>8 DEF Next

-----------------------------------------------------------------------------
(* The theorems.                                                           *)

LEMMA InitInv == Init => IInv
<1> SUFFICES ASSUME Init PROVE IInv  OBVIOUS
<1>1. NoAttemptRecord \in AttemptRecord
  BY DEF NoAttemptRecord, AttemptRecord, AttemptState
<1>2. Fact("Native", None, None) \in LaneFact  BY FactType DEF LaneState
<1>3. TypeOK
  BY <1>1, <1>2, NumbersAssumption DEF Init, TypeOK, DomainState, NoRecovery
<1>4. Structure
  BY DEF Init, Structure, Registered, StackedOnce, StackIsParentChain,
         LiveIsStacked, Live
<1> QED  BY <1>3, <1>4 DEF IInv

\* IInv is an invariant of every behaviour of the kernel, for any number of
\* domains, lanes, transports and attempts and any budgets.
THEOREM InductiveInvariant == Spec => []IInv
<1>1. IInv /\ [Next]_vars => IInv'
  <2> SUFFICES ASSUME IInv, [Next]_vars PROVE IInv'  OBVIOUS
  <2>1. CASE Next  BY <2>1, NextType, NextStructure DEF IInv
  <2>2. CASE UNCHANGED vars
    BY <2>2 DEF vars, identityVars, desyncVars, deliveryVars, IInv, TypeOK, Structure,
                Registered, StackedOnce, StackIsParentChain, LiveIsStacked
  <2> QED  BY <2>1, <2>2
<1> QED  BY <1>1, InitInv, PTL DEF Spec

\* Every variable of the kernel keeps its type; what the stacks hold after
\* removeFromStack is a sequence of domains.
THEOREM TypeCorrect == Spec => []TypeOK
BY InductiveInvariant, PTL DEF IInv

\* On every lane the stack is the parent chain of its top, only the top may
\* hold the lane, and no live shell is off its lane's stack: whatever
\* transports are lost, shells activated, adopted, closed or revoked, in any
\* order (TransportLost, applyHello, applyActivate, applyClose, revoke).
THEOREM OneAuthorityHolds == Spec => []OneAuthority
<1>1. IInv => OneAuthority  BY DEF IInv, Structure, OneAuthority
<1> QED  BY <1>1, InductiveInvariant, PTL

-----------------------------------------------------------------------------
(* Published facts, attempts, and the refinement of LaneAuthority.         *)

OpenIsOwned ==
    \A a \in Attempt : attempt[a].state = "Open" =>
        attempt[a].domain \in Domain /\ state[attempt[a].domain] \in Live
OneOpen ==
    \A d \in Domain : ~adopted[d] => \A a, b \in OpenAttempts(d) : a = b
\* What has an id the shell knows, or an outcome, was started.
Known(r, a) ==
    \/ a \in ShellAttempt /\ r.state # "Unminted"
    \/ r.shellID # None
    \/ r.state = "Completed"
StartsKnown == \A a \in Attempt : Known(attempt[a], a) => attempt[a].started
EpochsCounted == \A d \in Domain : epoch[d] <= epochCounter

Attempts == OpenIsOwned /\ OneOpen /\ OpenAttemptHoldsLane /\ StartsKnown
KInv == IInv /\ FactMatchesStack /\ Attempts /\ EpochsCounted

-----------------------------------------------------------------------------
(* The steps, by what they change.                                         *)

IsTop(d) ==
    /\ laneOf[d] \in Lane
    /\ stack[laneOf[d]] # <<>>
    /\ stack[laneOf[d]][Len(stack[laneOf[d]])] = d

\* A step that the registry, the stacks, the facts and the attempts ignore.
Quiet == UNCHANGED <<identityVars, state, stack, lifecycle, attempt>>

\* The speaker of a lane falls silent: its stream has a gap, or it suspends.
Silenced(d, st) == IF st = "Suspended" THEN Fact("Native", None, None)
                   ELSE Fact("Desynchronized", d, None)
TopFalls(d, st) ==
    /\ state[d] = "Established" /\ IsTop(d)
    /\ state' = [state EXCEPT ![d] = st]
    /\ lifecycle' = [lifecycle EXCEPT ![laneOf[d]] = Silenced(d, st)]
    /\ UNCHANGED <<identityVars, stack, attempt>>

\* The top of a lane is closed or revoked.
TopEnds(d) ==
    /\ IsTop(d) /\ state[d] \in Live
    /\ EndDomain(d)
    /\ UNCHANGED identityVars

\* The frames that concern an attempt.
FrameOf(d, a) ==
    \/ PromptReady(d) \/ StartAttaches(d, a) \/ CompleteOpen(d, a)
    \/ (a \in Attempt /\ (StartOpens(d, a) \/ CompleteRebuilds(d, a)))
    \/ (a \in ShellAttempt /\ CompleteRefused(d, a))

\* An Established or Desynchronized shell is the top of its lane.
LEMMA HolderTops ==
    ASSUME IInv, NEW d \in Domain, state[d] \in {"Established", "Desynchronized"}
    PROVE  IsTop(d) /\ Top(laneOf[d]) = d
BY HolderIsTop DEF IsTop, Top

\* A gap silences the top of a lane, ends it, or is only counted.
LEMMA GapCases ==
    ASSUME IInv, GapStep
    PROVE  \/ Quiet
           \/ \E d \in Domain, st \in {"Desynchronized", "Suspended"} : TopFalls(d, st)
           \/ \E d \in Domain : TopEnds(d)
<1>1. ASSUME NEW d \in Domain, NEW n, GapOpensEpisode(d, n)
      PROVE  TopFalls(d, "Desynchronized")
  <2>1. state[d] = "Established"  BY <1>1 DEF GapOpensEpisode
  <2>2. IsTop(d) /\ Top(laneOf[d]) = d  BY <2>1, HolderTops
  <2> QED  BY <1>1, <2>1, <2>2 DEF GapOpensEpisode, TopFalls, Silenced, SetLifecycle
<1>2. ASSUME NEW d \in Domain, NEW n, GapAccumulates(d, n) PROVE Quiet
  BY <1>2 DEF GapAccumulates, Quiet
<1>3. ASSUME NEW d \in Domain, BudgetRevokes(d) PROVE TopEnds(d)
  BY <1>3, HolderTops DEF BudgetRevokes, Revoke, TopEnds, Live
<1> QED  BY <1>1, <1>2, <1>3 DEF GapStep

\* Every step of the kernel is of one of these kinds.
LEMMA NextCases ==
    ASSUME IInv, Next
    PROVE  \/ Quiet
           \/ \E t \in Transport : TransportLost(t)
           \/ \E d \in Domain, l \in Lane, t \in Transport, p \in Domain \cup {None} :
                 RequestDomain(d, l, p, t)
           \/ \E d \in Domain, l \in Lane, t \in Transport, e \in 1 .. MaxEpoch :
                 AdoptDomain(d, l, t, e)
           \/ \E d \in Domain, st \in {"Desynchronized", "Suspended"} : TopFalls(d, st)
           \/ \E d \in Domain : TopEnds(d)
           \/ \E l \in Lane : RecoverLane(l)
           \/ \E a \in Attempt, d \in Domain : SubmitAttempt(d, a)
           \/ \E a \in Attempt : AbandonAttempt(a)
           \/ \E d \in Domain : HelloEstablishes(d) \/ Activate(d)
           \/ \E d \in Domain, a \in Attempt \cup {None} : FrameOf(d, a)
           \/ \E d \in Domain, r \in 1 .. MaxDesyncEpisodes,
                 active, last \in ShellAttempt \cup {None} :
                    Snapshot(d, r, active, last)
<1>1. ASSUME TransportStep
      PROVE  Quiet \/ \E t \in Transport : TransportLost(t)
  BY <1>1 DEF TransportStep, BindTransport, UnbindTransport, Quiet
<1>2. ASSUME LaneStep
      PROVE  Quiet \/ \E l \in Lane : RecoverLane(l)
  BY <1>2 DEF LaneStep, WindowPasses, RejectFrame, SightRecovery, Quiet
<1>3. ASSUME DomainFrame
      PROVE  \/ Quiet
             \/ \E d \in Domain, st \in {"Desynchronized", "Suspended"} : TopFalls(d, st)
             \/ \E d \in Domain : TopEnds(d)
             \/ \E d \in Domain : HelloEstablishes(d) \/ Activate(d)
  <2>1. ASSUME NEW d \in Domain, HelloRefused(d) \/ HelloReconnects(d) \/ EchoFrame(d)
        PROVE  Quiet
    BY <2>1 DEF HelloRefused, HelloReconnects, EchoFrame, ActiveFrame, Quiet
  <2>2. ASSUME NEW d \in Domain, Suspend(d)
        PROVE  TopFalls(d, "Suspended")
    <3>1. state[d] = "Established"  BY <2>2 DEF Suspend, ActiveFrame, Active
    <3>2. IsTop(d)  BY <3>1, HolderTops
    <3> QED  BY <2>2, <3>1, <3>2 DEF Suspend, ActiveFrame, TopFalls, Silenced, SetLifecycle
  <2>3. ASSUME NEW d \in Domain, Close(d) PROVE TopEnds(d)
    <3>1. IsTop(d)
      BY <2>3, NoneAssumption DEF Close, Top, IInv, Structure, Registered, IsTop
    <3> QED  BY <2>3, <3>1 DEF Close, TopEnds, Live
  <2> QED  BY <1>3, <2>1, <2>2, <2>3 DEF DomainFrame
<1>4. ASSUME AttemptFrame
      PROVE  \/ \E d \in Domain, a \in Attempt \cup {None} : FrameOf(d, a)
             \/ \E d \in Domain, r \in 1 .. MaxDesyncEpisodes,
                 active, last \in ShellAttempt \cup {None} :
                   Snapshot(d, r, active, last)
  <2>1. ShellAttempt \subseteq Attempt  BY DEF Attempt
  <2> SUFFICES ASSUME NEW d \in Domain, NEW a \in Attempt \cup {None},
                      \/ PromptReady(d) \/ StartAttaches(d, a) \/ CompleteOpen(d, a)
                      \/ a \in Attempt /\ (StartOpens(d, a) \/ CompleteRebuilds(d, a))
                      \/ a \in ShellAttempt /\ CompleteRefused(d, a)
               PROVE  FrameOf(d, a)
    BY <1>4, <2>1 DEF AttemptFrame
  <2> QED  BY DEF FrameOf
<1>5. ASSUME DeliveryStep
      PROVE  Quiet \/ \E d \in Domain : TopEnds(d)
  <2>1. ASSUME NEW d \in Domain, EstablishmentTimeout(d) PROVE TopEnds(d)
    BY <2>1, HolderTops DEF EstablishmentTimeout, Revoke, TopEnds, Live
  <2> QED
    BY <1>5, <2>1 DEF DeliveryStep, DeliverBegins, DeliverRefused, DeliverEnds, Quiet
<1>6. CASE TransportStep  BY <1>1, <1>6
<1>7. CASE MintStep  BY <1>7 DEF MintStep
<1>8. CASE GapStep  BY <1>8, GapCases
<1>9. CASE LaneStep  BY <1>2, <1>9
<1>10. CASE AttemptStep  BY <1>10 DEF AttemptStep
<1>11. CASE DomainFrame  BY <1>3, <1>11
<1>12. CASE AttemptFrame  BY <1>4, <1>12
<1>13. CASE DeliveryStep  BY <1>5, <1>13
<1> QED
  BY <1>6, <1>7, <1>8, <1>9, <1>10, <1>11, <1>12, <1>13 DEF Next

-----------------------------------------------------------------------------
(* What a lane publishes is what its stack says.                           *)

\* FactMatchesStack for one lane, its fact and stack given.
FactFits(fact, s, st) ==
    LET top == IF s = <<>> THEN None ELSE s[Len(s)] IN
    /\ fact.state \in {"PromptReady", "Running"} =>
          fact.domain = top /\ top # None /\ st[top] = "Established"
    /\ fact.state = "Desynchronized" =>
          fact.domain = top /\ top # None /\ st[top] = "Desynchronized"
    /\ fact.state = "Native" => top = None \/ st[top] = "Suspended"
    /\ fact.state = "Lost" => top = None

\* FactMatchesStack, lane by lane, before a step and after it.
LEMMA FactsFit ==
    /\ FactMatchesStack <=> \A l \in Lane : FactFits(lifecycle[l], stack[l], state)
    /\ FactMatchesStack' <=>
           \A l \in Lane : FactFits(lifecycle'[l], stack'[l], state')
<1>1. FactMatchesStack <=> \A l \in Lane : FactFits(lifecycle[l], stack[l], state)
  BY Zenon DEF FactMatchesStack, FactFits, Top
<1>2. FactMatchesStack' <=>
          \A l \in Lane : FactFits(lifecycle'[l], stack'[l], state')
  BY Zenon DEF FactMatchesStack, FactFits, Top
<1> QED  BY <1>1, <1>2

\* A fact fits a lane whose stack and top are as before.
LEMMA FitsOn ==
    ASSUME IInv, NEW l \in Lane, stack'[l] = stack[l],
           FactFits(lifecycle[l], stack[l], state),
           \A i \in DOMAIN stack[l] : state'[stack[l][i]] = state[stack[l][i]]
    PROVE  FactFits(lifecycle[l], stack'[l], state')
<1>1. CASE stack[l] = <<>>  BY <1>1 DEF FactFits
<1>2. CASE stack[l] # <<>>
  <2>1. stack[l] \in Seq(Domain)  BY DEF IInv, TypeOK
  <2>2. Len(stack[l]) \in DOMAIN stack[l]  BY <1>2, <2>1
  <2> QED  BY <1>2, <2>2 DEF FactFits
<1> QED  BY <1>1, <1>2

\* A step that concerns one lane, and leaves the live shells of others alone.
LEMMA OneLaneFact ==
    ASSUME IInv, FactMatchesStack, NEW l \in Lane, NEW fact,
           lifecycle' = [lifecycle EXCEPT ![l] = fact],
           \A m \in Lane \ {l} : stack'[m] = stack[m],
           \A x \in Domain : laneOf[x] # l /\ state[x] \in Live => state'[x] = state[x],
           FactFits(fact, stack'[l], state')
    PROVE  FactMatchesStack'
<1> SUFFICES ASSUME NEW m \in Lane
             PROVE  FactFits(lifecycle'[m], stack'[m], state')
  BY FactsFit
<1>1. lifecycle \in [Lane -> LaneFact]  BY DEF IInv, TypeOK
<1>2. CASE m = l  BY <1>1, <1>2
<1>3. CASE m # l
  <2>1. lifecycle'[m] = lifecycle[m] /\ stack'[m] = stack[m]  BY <1>1, <1>3
  <2>2. \A i \in DOMAIN stack[m] : state'[stack[m][i]] = state[stack[m][i]]
    BY <1>3, EntryOfChain
  <2>3. FactFits(lifecycle[m], stack[m], state)  BY FactsFit
  <2> QED  BY <2>1, <2>2, <2>3, FitsOn
<1> QED  BY <1>2, <1>3

\* The speaker of a lane publishes what it does.
LEMMA SpeakerFact ==
    ASSUME IInv, FactMatchesStack, NEW d \in Domain, IsTop(d),
           state'[d] = "Established", UNCHANGED stack,
           \A x \in Domain \ {d} : state'[x] = state[x],
           NEW st \in {"PromptReady", "Running"}, NEW a,
           lifecycle' = [lifecycle EXCEPT ![laneOf[d]] = Fact(st, d, a)]
    PROVE  FactMatchesStack'
<1>1. FactFits(Fact(st, d, a), stack'[laneOf[d]], state')
  BY NoneAssumption DEF FactFits, Fact, IsTop
<1>2. \A x \in Domain : laneOf[x] # laneOf[d] /\ state[x] \in Live => state'[x] = state[x]
  OBVIOUS
<1>3. laneOf[d] \in Lane /\ \A m \in Lane \ {laneOf[d]} : stack'[m] = stack[m]
  BY DEF IsTop
<1> HIDE DEF Fact
<1> QED  BY <1>1, <1>2, <1>3, OneLaneFact

\* The attempts and the expectations of a lane do not concern its fact.
LEMMA SameFacts ==
    ASSUME IInv, FactMatchesStack, UNCHANGED <<stack, lifecycle>>,
           \A x \in Domain : state[x] \in Live => state'[x] = state[x]
    PROVE  FactMatchesStack'
<1> SUFFICES ASSUME NEW l \in Lane
             PROVE  FactFits(lifecycle'[l], stack'[l], state')
  BY FactsFit
<1>1. \A i \in DOMAIN stack[l] : state'[stack[l][i]] = state[stack[l][i]]
  BY EntryOfChain
<1>2. FactFits(lifecycle[l], stack[l], state)  BY FactsFit
<1> QED  BY <1>1, <1>2, FitsOn

\* When the top of a lane ends its parent is Suspended, and the lane Native.
LEMMA EndFact ==
    ASSUME IInv, FactMatchesStack, NEW d \in Domain, TopEnds(d)
    PROVE  FactMatchesStack'
<1> DEFINE l == laneOf[d]
           s == stack[l]
           native == Fact("Native", None, None)
<1>1. l \in Lane /\ s \in Seq(Domain) /\ s # <<>> /\ s[Len(s)] = d
  BY DEF TopEnds, IsTop, IInv, TypeOK
<1>2. /\ state' = [state EXCEPT ![d] = "Closed"]
      /\ stack' = [stack EXCEPT ![l] = SubSeq(s, 1, Len(s) - 1)]
      /\ lifecycle' = [lifecycle EXCEPT ![l] = native]
  BY <1>1, EndOfTop DEF TopEnds, EndDomain, SetLifecycle
<1>3. state \in [Domain -> DomainState] /\ stack \in [Lane -> Seq(Domain)]
  BY DEF IInv, TypeOK
<1>4. \A m \in Lane \ {l} : stack'[m] = stack[m]  BY <1>2, <1>3
<1>5. \A x \in Domain : laneOf[x] # l /\ state[x] \in Live => state'[x] = state[x]
  BY <1>2, <1>3
<1>6. FactFits(native, stack'[l], state')
  <2>1. stack'[l] = SubSeq(s, 1, Len(s) - 1)  BY <1>1, <1>2, <1>3
  <2>2. CASE Len(s) = 1
    <3>1. stack'[l] = <<>>  BY <1>1, <2>1, <2>2
    <3> QED  BY <3>1 DEF FactFits, Fact
  <2>3. CASE Len(s) # 1
    <3> DEFINE i == Len(s) - 1
    <3>0. Len(s) \in Nat /\ Len(s) # 0 /\ DOMAIN s = 1 .. Len(s)
      <4> HIDE DEF s
      <4> QED  BY <1>1
    <3>1. i \in DOMAIN s /\ i # Len(s) /\ Len(s) \in DOMAIN s
      <4>1. PICK n \in Nat : n = Len(s)  BY <3>0
      <4>2. n # 0 /\ n # 1  BY <2>3, <3>0, <4>1
      <4>3. n \in 1 .. n  BY <4>2
      <4>4. n - 1 \in 1 .. n   BY <4>2
      <4>5. n - 1 # n   BY <4>2
      <4> QED  BY <3>0, <4>1, <4>3, <4>4, <4>5
    <3>2. s[i] \in Domain /\ state[s[i]] = "Suspended"  BY <1>1, <3>1, EntryOfChain
    <3>3. s[i] # d  BY <1>1, <3>1 DEF IInv, Structure, StackedOnce
    <3>4. state'[s[i]] = "Suspended"  BY <1>2, <1>3, <3>2, <3>3
    <3>5. stack'[l] # <<>> /\ stack'[l][Len(stack'[l])] = s[i]
      <4> HIDE DEF s
      <4>1. i \in 1 .. Len(s) /\ s \in Seq(Domain)  BY <1>1, <3>0, <3>1
      <4> HIDE DEF i
      <4>2. Len(SubSeq(s, 1, i)) = i /\ SubSeq(s, 1, i)[i] = s[i]  BY <4>1
      <4>3. SubSeq(s, 1, i) # <<>>  BY <4>1, <4>2
      <4> QED  BY <2>1, <4>2, <4>3 DEF i
    <3> HIDE DEF i
    <3> QED  BY <3>4, <3>5 DEF FactFits, Fact
  <2> QED  BY <2>2, <2>3
<1> HIDE DEF native, l
<1> QED  BY <1>1, <1>2, <1>4, <1>5, <1>6, OneLaneFact

\* An activation leaves the activated parent on top and publishes it.
LEMMA ActivateFact ==
    ASSUME IInv, FactMatchesStack, NEW d \in Domain, Activate(d)
    PROVE  FactMatchesStack'
<1> DEFINE l == laneOf[d]
           s == stack[l]
<1>1. l \in Lane /\ s \in Seq(Domain) /\ stack \in [Lane -> Seq(Domain)]
      /\ state \in [Domain -> DomainState]
  BY DEF Activate, IInv, TypeOK, Structure, LiveIsStacked, Live
<1>2. PICK at \in 1 .. Len(s) :
         /\ s[at] = d
         /\ \A i \in 1 .. Len(s) : s[i] = d <=> i = at
         /\ stack' = [stack EXCEPT ![l] = SubSeq(s, 1, at)]
         /\ LET above == {s[i] : i \in {j \in DOMAIN s : j > at}}
            IN  state' = [x \in Domain |-> IF x \in above THEN "Closed"
                              ELSE IF x = d THEN "Established" ELSE state[x]]
  BY ActivateCuts
<1> DEFINE above == {s[i] : i \in {j \in DOMAIN s : j > at}}
<1>3. state' = [x \in Domain |-> IF x \in above THEN "Closed"
                    ELSE IF x = d THEN "Established" ELSE state[x]]
  BY <1>2
<1>4. d \notin above  BY <1>1, <1>2
<1>5. \A x \in above : laneOf[x] = l  BY <1>1, EntryOfChain
<1> HIDE DEF above
<1>6. \A x \in Domain : laneOf[x] # l /\ state[x] \in Live => state'[x] = state[x]
  BY <1>3, <1>5
<1>7. stack'[l] # <<>> /\ stack'[l][Len(stack'[l])] = d
  <2>1. stack'[l] = SubSeq(s, 1, at)  BY <1>1, <1>2
  <2> HIDE DEF s
  <2>2. Len(SubSeq(s, 1, at)) = at /\ SubSeq(s, 1, at)[at] = s[at]  BY <1>1, <1>2
  <2>3. SubSeq(s, 1, at) # <<>>  BY <1>1, <1>2, <2>2
  <2> QED  BY <1>2, <2>1, <2>2, <2>3
<1>8. state'[d] = "Established"  BY <1>3, <1>4
<1>9. PICK fact \in ResumeFacts(d, OpenAttempts(d)) : SetLifecycle(l, fact)
  BY DEF Activate
<1>10. fact.state \in {"PromptReady", "Running"} /\ fact.domain = d
  BY DEF ResumeFacts, Fact
<1>11. FactFits(fact, stack'[l], state')
  BY <1>7, <1>8, <1>10, NoneAssumption DEF FactFits
<1>12. \A m \in Lane \ {l} : stack'[m] = stack[m]  BY <1>1, <1>2
<1>13. lifecycle' = [lifecycle EXCEPT ![l] = fact]  BY <1>9 DEF SetLifecycle
<1> HIDE DEF l
<1> QED  BY <1>1, <1>6, <1>11, <1>12, <1>13, OneLaneFact

\* A hello and an adoption publish the shell they put on top.
LEMMA BirthFact ==
    ASSUME IInv, FactMatchesStack, NEW d \in Domain, NEW l \in Lane,
           state[d] \notin Live,
           state' = [state EXCEPT ![d] = "Established"],
           stack' = [stack EXCEPT ![l] = Append(stack[l], d)],
           lifecycle' = [lifecycle EXCEPT ![l] = Fact("PromptReady", d, None)]
    PROVE  FactMatchesStack'
<1>1. stack \in [Lane -> Seq(Domain)] /\ state \in [Domain -> DomainState]
  BY DEF IInv, TypeOK
<1>2. stack'[l] # <<>> /\ stack'[l][Len(stack'[l])] = d  BY <1>1
<1>3. state'[d] = "Established"  BY <1>1
<1>4. FactFits(Fact("PromptReady", d, None), stack'[l], state')
  BY <1>2, <1>3, NoneAssumption DEF FactFits, Fact
<1>5. \A x \in Domain : laneOf[x] # l /\ state[x] \in Live => state'[x] = state[x]
  BY <1>1
<1>6. \A m \in Lane \ {l} : stack'[m] = stack[m]  BY <1>1
<1> HIDE DEF Fact
<1> QED  BY <1>4, <1>5, <1>6, OneLaneFact

\* What a transport loss leaves of each lane: a prefix of its stack, whose
\* shells are as they were, and a fact that follows from it.
LossLeaves(l, dead, m) ==
    /\ m \in 0 .. Len(stack[l])
    /\ stack'[l] = SubSeq(stack[l], 1, m)
    /\ \A i \in 1 .. Len(stack[l]) : stack[l][i] \notin dead <=> i <= m
    /\ \A i \in 1 .. m : state'[stack[l][i]] = state[stack[l][i]]
    /\ IF \E x \in dead : laneOf[x] = l
       THEN lifecycle'[l] \in FactsAfterLoss(l, dead)
       ELSE lifecycle'[l] = lifecycle[l]

\* What a lost transport leaves on a lane is a prefix of its stack.
LEMMA LossCuts ==
    ASSUME IInv, NEW t \in Transport, TransportLost(t), NEW l \in Lane
    PROVE  \E m : LossLeaves(l, Cascade({d \in Domain : transportOf[d] = t}), m)
<1> DEFINE S == {d \in Domain : transportOf[d] = t}
           dead == Cascade(S)
           affected == {laneOf[d] : d \in dead}
           Facts(x) == IF x \in affected THEN FactsAfterLoss(x, dead) ELSE {lifecycle[x]}
<1>1. S \in SUBSET Domain  OBVIOUS
<1>2. state' = [d \in Domain |-> IF d \in dead THEN "Lost" ELSE state[d]]
      /\ stack' = [x \in Lane |-> Without(stack[x], dead)]
  BY DEF TransportLost
<1>3. lifecycle'[l] \in Facts(l)  BY ZenonT(30) DEF TransportLost
<1>4. IF \E x \in dead : laneOf[x] = l
      THEN lifecycle'[l] \in FactsAfterLoss(l, dead)
      ELSE lifecycle'[l] = lifecycle[l]
  <2> HIDE DEF dead
  <2> QED  BY <1>3
<1> HIDE DEF S, Facts, affected
<1>5. PICK m \in 0 .. Len(stack[l]) :
          /\ \A i \in 1 .. Len(stack[l]) : stack[l][i] \notin dead <=> i <= m
          /\ Without(stack[l], dead) = SubSeq(stack[l], 1, m)
  BY <1>1, CascadeCutsStack
<1> HIDE DEF dead
<1>6. stack'[l] = SubSeq(stack[l], 1, m)  BY <1>2, <1>5
<1>7. \A i \in 1 .. m : state'[stack[l][i]] = state[stack[l][i]]
  <2> TAKE i \in 1 .. m
  <2>1. stack[l] \in Seq(Domain)  BY DEF IInv, TypeOK
  <2>2. i \in 1 .. Len(stack[l]) /\ i <= m  BY <1>5, <2>1
  <2>3. stack[l][i] \in Domain /\ stack[l][i] \notin dead  BY <1>5, <2>1, <2>2
  <2> QED  BY <1>2, <2>3
<1>8. LossLeaves(l, dead, m)  BY <1>4, <1>5, <1>6, <1>7 DEF LossLeaves
<1> QED  BY <1>8 DEF S, dead

\* The fact a lost transport leaves on a lane is told by what remains on it.
LEMMA LossFact ==
    ASSUME IInv, FactMatchesStack, NEW t \in Transport, TransportLost(t)
    PROVE  FactMatchesStack'
<1> SUFFICES ASSUME NEW l \in Lane
             PROVE  FactFits(lifecycle'[l], stack'[l], state')
  BY FactsFit
<1> DEFINE dead == Cascade({d \in Domain : transportOf[d] = t})
           s == stack[l]
<1>1. PICK m : LossLeaves(l, dead, m)  BY LossCuts
<1>2. s \in Seq(Domain)  BY DEF IInv, TypeOK
<1>3. m \in 0 .. Len(s) /\ stack'[l] = SubSeq(s, 1, m)  BY <1>1 DEF LossLeaves
<1>4. Without(s, dead) = stack'[l]
  BY <1>1, <1>2, <1>3, WithoutSuffix DEF LossLeaves
<1> HIDE DEF dead
\* Where nothing was cut the top and the fact are as before.
<1>5. ASSUME m = Len(s), lifecycle'[l] = lifecycle[l]
      PROVE  FactFits(lifecycle'[l], stack'[l], state')
  <2>1. stack'[l] = s  BY <1>2, <1>3, <1>5
  <2>2. \A i \in DOMAIN s : state'[s[i]] = state[s[i]]
    BY <1>1, <1>2, <1>5 DEF LossLeaves
  <2>3. FactFits(lifecycle[l], s, state)  BY FactsFit
  <2> QED  BY <1>5, <2>1, <2>2, <2>3, FitsOn
<1>6. CASE ~ \E x \in dead : laneOf[x] = l
  <2>1. lifecycle'[l] = lifecycle[l]  BY <1>1, <1>6 DEF LossLeaves
  <2>2. m = Len(s)
    <3> SUFFICES ASSUME m # Len(s) PROVE FALSE  OBVIOUS
    <3>1. Len(s) \in DOMAIN s /\ Len(s) \in 1 .. Len(s) /\ ~ (Len(s) <= m)
      BY <1>2, <1>3
    <3>2. s[Len(s)] \in dead  BY <1>1, <3>1 DEF LossLeaves
    <3>3. laneOf[s[Len(s)]] = l  BY <3>1, EntryOfChain
    <3> QED  BY <1>6, <3>2, <3>3
  <2> QED  BY <1>5, <2>1, <2>2
<1>7. CASE \E x \in dead : laneOf[x] = l
  <2> DEFINE left == stack'[l]
             top == left[Len(left)]
  <2>1. lifecycle'[l] \in FactsAfterLoss(l, dead)  BY <1>1, <1>7 DEF LossLeaves
  <2>2. CASE left = <<>>
    <3>1. lifecycle'[l] = Fact("Lost", None, None)
      BY <1>4, <2>1, <2>2 DEF FactsAfterLoss
    <3> QED  BY <2>2, <3>1 DEF FactFits, Fact
  <2>3. CASE left # <<>>
    <3>1. m \in 1 .. Len(s) /\ top = s[m] /\ m \in DOMAIN s  BY <1>2, <1>3, <2>3
    <3>2. /\ top \in Domain /\ state[top] \in Live /\ state'[top] = state[top]
          /\ m # Len(s) => state[top] = "Suspended"
      <4>1. s[m] \in Domain /\ state[s[m]] \in Live
            /\ (m # Len(s) => state[s[m]] = "Suspended")
        BY <3>1, EntryOfChain
      <4>2. state'[s[m]] = state[s[m]]  BY <1>1, <3>1 DEF LossLeaves
      <4> QED  BY <3>1, <4>1, <4>2
    <3>3. CASE state[top] = "Established"
      <4>1. lifecycle'[l] \in ResumeFacts(top, OpenAttempts(top))
        BY <1>4, <2>1, <2>3, <3>3 DEF FactsAfterLoss
      <4>2. lifecycle'[l].state \in {"PromptReady", "Running"}
            /\ lifecycle'[l].domain = top
        BY <4>1 DEF ResumeFacts, Fact
      <4> HIDE DEF top
      <4>3. top = left[Len(left)]  BY DEF top
      <4> QED  BY <2>3, <3>2, <3>3, <4>2, <4>3, NoneAssumption DEF FactFits
    <3>4. CASE state[top] = "Suspended"
      <4>1. lifecycle'[l] = Fact("Native", None, None)
        BY <1>4, <2>1, <2>3, <3>4 DEF FactsAfterLoss
      <4> QED  BY <2>3, <3>2, <3>4, <4>1 DEF FactFits, Fact
    <3>5. CASE state[top] \notin {"Established", "Suspended"}
      <4>1. lifecycle'[l] = lifecycle[l]
        BY <1>4, <2>1, <2>3, <3>5 DEF FactsAfterLoss
      <4>2. m = Len(s)  BY <3>2, <3>5
      <4> QED  BY <1>5, <4>1, <4>2
    <3> QED  BY <3>3, <3>4, <3>5
  <2> QED  BY <2>2, <2>3
<1> QED  BY <1>6, <1>7

\* The frames of an attempt come from the speaker of a lane.
LEMMA FrameSpeaker ==
    ASSUME IInv, NEW d \in Domain, NEW a, FrameOf(d, a)
    PROVE  /\ state[d] = "Established" /\ IsTop(d)
           /\ UNCHANGED <<identityVars, state, stack>>
<1>1. ActiveFrame(d) /\ UNCHANGED state
  BY DEF FrameOf, PromptReady, StartAttaches, CompleteOpen, StartOpens,
         CompleteRebuilds, CompleteRefused
<1>2. state[d] = "Established"  BY <1>1 DEF ActiveFrame, Active
<1>3. IsTop(d)  BY <1>2, HolderTops
<1> QED  BY <1>1, <1>2, <1>3 DEF ActiveFrame

\* A frame about an attempt publishes its shell, which holds the lane.
LEMMA FrameFact ==
    ASSUME IInv, FactMatchesStack, NEW d \in Domain, NEW a, FrameOf(d, a)
    PROVE  FactMatchesStack'
<1>1. /\ state[d] = "Established" /\ IsTop(d)
      /\ UNCHANGED <<identityVars, state, stack>>
  BY FrameSpeaker
<1>2. \/ UNCHANGED lifecycle
      \/ \E st \in {"PromptReady", "Running"} : \E b :
            lifecycle' = [lifecycle EXCEPT ![laneOf[d]] = Fact(st, d, b)]
  <2>1. CASE PromptReady(d)  BY <2>1 DEF PromptReady, SetLifecycle
  <2>2. CASE ~PromptReady(d)
    BY <2>2 DEF FrameOf, StartAttaches, CompleteOpen, StartOpens, CompleteRebuilds,
                CompleteRefused, SetLifecycle
  <2> QED  BY <2>1, <2>2
<1>3. CASE UNCHANGED lifecycle  BY <1>1, <1>3, SameFacts
<1>4. ASSUME NEW st \in {"PromptReady", "Running"}, NEW b,
             lifecycle' = [lifecycle EXCEPT ![laneOf[d]] = Fact(st, d, b)]
      PROVE  FactMatchesStack'
  BY <1>1, <1>4, SpeakerFact
<1> QED  BY <1>2, <1>3, <1>4

\* A snapshot takes the top of its lane out of desynchronization.
LEMMA SnapshotCases ==
    ASSUME IInv, NEW d \in Domain, NEW r, NEW active, NEW last,
           Snapshot(d, r, active, last)
    PROVE  /\ state[d] = "Desynchronized" /\ IsTop(d)
           /\ state' = [state EXCEPT ![d] = "Established"]
           /\ UNCHANGED <<identityVars, stack>>
           /\ IF active = None
              THEN lifecycle' = [lifecycle EXCEPT ![laneOf[d]] = Fact("PromptReady", d, None)]
              ELSE \E a : lifecycle' = [lifecycle EXCEPT ![laneOf[d]] = Fact("Running", d, a)]
<1>1. /\ state[d] = "Desynchronized" /\ UNCHANGED <<identityVars, stack>>
      /\ state' = [state EXCEPT ![d] = "Established"]
  BY DEF Snapshot
<1>2. IsTop(d) /\ Top(laneOf[d]) = d  BY <1>1, HolderTops
<1>3. active = None => SetLifecycle(laneOf[d], Fact("PromptReady", d, None))
  BY <1>2 DEF Snapshot
<1>4. active # None => \E a : SetLifecycle(laneOf[d], Fact("Running", d, a))
  BY <1>2, Zenon DEF Snapshot
<1> QED  BY <1>1, <1>2, <1>3, <1>4 DEF SetLifecycle

\* FactMatchesStack is kept by every step.
LEMMA NextFact == ASSUME IInv, FactMatchesStack, Next PROVE FactMatchesStack'
<1>1. CASE Quiet  BY <1>1, SameFacts DEF Quiet
<1>2. ASSUME NEW d \in Domain, NEW l \in Lane, NEW t, NEW p, RequestDomain(d, l, p, t)
      PROVE  FactMatchesStack'
  <2>1. state' = [state EXCEPT ![d] = "Pending"] /\ state[d] = "Unminted"
        /\ UNCHANGED <<stack, lifecycle>>
    BY <1>2 DEF RequestDomain, Register
  <2>2. \A x \in Domain : state[x] \in Live => state'[x] = state[x]
    BY <2>1 DEF Live, IInv, TypeOK
  <2> QED  BY <2>1, <2>2, SameFacts
<1>3. ASSUME NEW d \in Domain, NEW l \in Lane, NEW t, NEW e, AdoptDomain(d, l, t, e)
      PROVE  FactMatchesStack'
  <2>1. /\ state' = [state EXCEPT ![d] = "Established"] /\ state[d] = "Unminted"
        /\ stack[l] = <<>> /\ stack' = [stack EXCEPT ![l] = <<d>>]
        /\ lifecycle' = [lifecycle EXCEPT ![l] = Fact("PromptReady", d, None)]
    BY <1>3 DEF AdoptDomain, Register
  <2>2. Append(stack[l], d) = <<d>> /\ state[d] \notin Live  BY <2>1 DEF Live
  <2> QED  BY <2>1, <2>2, BirthFact
<1>4. ASSUME NEW d \in Domain, NEW st \in {"Desynchronized", "Suspended"}, TopFalls(d, st)
      PROVE  FactMatchesStack'
  <2>1. FactFits(Silenced(d, st), stack'[laneOf[d]], state')
    <3>1. state'[d] = st  BY <1>4 DEF TopFalls, IInv, TypeOK
    <3>2. stack'[laneOf[d]] # <<>> /\ stack'[laneOf[d]][Len(stack'[laneOf[d]])] = d
      BY <1>4 DEF TopFalls, IsTop
    <3> QED  BY <3>1, <3>2, NoneAssumption DEF FactFits, Silenced, Fact
  <2>2. \A x \in Domain :
            laneOf[x] # laneOf[d] /\ state[x] \in Live => state'[x] = state[x]
    BY <1>4 DEF TopFalls, IInv, TypeOK
  <2>3. /\ laneOf[d] \in Lane /\ \A m \in Lane \ {laneOf[d]} : stack'[m] = stack[m]
        /\ lifecycle' = [lifecycle EXCEPT ![laneOf[d]] = Silenced(d, st)]
    BY <1>4 DEF TopFalls, IsTop
  <2> QED  BY <2>1, <2>2, <2>3, OneLaneFact
<1>5. ASSUME NEW l \in Lane, RecoverLane(l) PROVE FactMatchesStack'
  <2>1. /\ lifecycle' = [lifecycle EXCEPT ![l] = Fact("Native", None, None)]
        /\ lifecycle[l].state = "Lost" /\ UNCHANGED <<state, stack>>
    BY <1>5 DEF RecoverLane, SetLifecycle
  <2>2. FactFits(lifecycle[l], stack[l], state)  BY FactsFit
  <2>3. FactFits(Fact("Native", None, None), stack'[l], state')
    BY <2>1, <2>2 DEF FactFits, Fact
  <2> QED  BY <2>1, <2>3, OneLaneFact
<1>6. ASSUME NEW a, NEW d \in Domain, SubmitAttempt(d, a) PROVE FactMatchesStack'
  <2>1. /\ state[d] = "Established" /\ UNCHANGED <<state, stack>>
        /\ lifecycle' = [lifecycle EXCEPT ![laneOf[d]] = Fact("Running", d, a)]
    BY <1>6 DEF SubmitAttempt, Active, SetLifecycle
  <2>2. IsTop(d)  BY <2>1, HolderTops
  <2> QED  BY <2>1, <2>2, SpeakerFact
<1>7. ASSUME NEW a, AbandonAttempt(a) PROVE FactMatchesStack'
  BY <1>7, SameFacts DEF AbandonAttempt
<1>8. ASSUME NEW d \in Domain, HelloEstablishes(d) PROVE FactMatchesStack'
  <2>1. /\ state' = [state EXCEPT ![d] = "Established"] /\ state[d] = "Pending"
        /\ stack' = [stack EXCEPT ![laneOf[d]] = Append(stack[laneOf[d]], d)]
        /\ lifecycle' = [lifecycle EXCEPT ![laneOf[d]] = Fact("PromptReady", d, None)]
    BY <1>8 DEF HelloEstablishes, SetLifecycle
  <2>2. laneOf[d] \in Lane /\ state[d] \notin Live
    BY <2>1 DEF IInv, Structure, Registered, Live
  <2> QED  BY <2>1, <2>2, BirthFact
<1>9. ASSUME NEW d \in Domain, NEW r, NEW active, NEW last, Snapshot(d, r, active, last)
      PROVE  FactMatchesStack'
  <2>1. /\ IsTop(d) /\ state' = [state EXCEPT ![d] = "Established"] /\ UNCHANGED stack
        /\ \E st \in {"PromptReady", "Running"} : \E a :
              lifecycle' = [lifecycle EXCEPT ![laneOf[d]] = Fact(st, d, a)]
    BY <1>9, SnapshotCases
  <2>2. state'[d] = "Established" /\ \A x \in Domain \ {d} : state'[x] = state[x]
    BY <2>1 DEF IInv, TypeOK
  <2> QED  BY <2>1, <2>2, SpeakerFact
<1> QED
  BY NextCases, LossFact, EndFact, ActivateFact, FrameFact,
     <1>1, <1>2, <1>3, <1>4, <1>5, <1>6, <1>7, <1>8, <1>9

-----------------------------------------------------------------------------
(* The life of an attempt, one step of it.                                 *)

Settled(a) ==
    /\ attempt[a].state = "Open"
    /\ \/ attempt'[a] = [attempt[a] EXCEPT !.state = "Unknown"]
       \/ attempt[a].started /\ attempt'[a] = [attempt[a] EXCEPT !.state = "Completed"]
Touched(a) ==
    /\ attempt[a].state = "Open"
    /\ \/ attempt'[a] = [attempt[a] EXCEPT !.primed = TRUE]
       \/ \E id : attempt'[a] = [attempt[a] EXCEPT !.started = TRUE, !.shellID = id]
\* Born to a shell that speaks when the step is done.
BornTo(d, a) ==
    /\ ~Minted(a)
    /\ state'[d] = "Established"
    /\ \/ a \in KernelAttempt /\ attempt'[a] = NewAttempt(d, "Open", FALSE)
       \/ \E st \in {"Open", "Completed"} : attempt'[a] = NewAttempt(d, st, TRUE)
Ages(a) == attempt'[a] = attempt[a] \/ Settled(a) \/ Touched(a)
\* No attempt is born, or only attempts of d.
NoneBorn == \A a \in Attempt : Ages(a)
BornOnlyTo(d) == \A a \in Attempt : Ages(a) \/ BornTo(d, a)
AttemptsLive == \A a \in Attempt : Ages(a) \/ \E d \in Domain : BornTo(d, a)

\* unknownOpenAttempts only settles attempts that were open.
LEMMA SettledOpen ==
    ASSUME IInv, NEW D, attempt' = UnknownOpenAttempts(D)
    PROVE  NoneBorn
BY DEF IInv, TypeOK, UnknownOpenAttempts, NoneBorn, Ages, Settled

\* One attempt changes, and no other.
LEMMA OneAttempt ==
    ASSUME IInv, NEW a \in Attempt, NEW r, attempt' = [attempt EXCEPT ![a] = r]
    PROVE  /\ attempt'[a] = r
           /\ \A b \in Attempt \ {a} : attempt'[b] = attempt[b]
BY DEF IInv, TypeOK

\* What resolves to nothing was never minted.
LEMMA ResolvedMinted ==
    ASSUME NEW d, NEW id
    PROVE  /\ Resolve(d, id) = {} => ~Minted(id)
           /\ Resolve(d, id) \subseteq Attempt \cup {id}
           /\ \A a \in Resolve(d, id) :
                 \/ a = id /\ Minted(id)
                 \/ a \in Attempt /\ attempt[a].shellID = id
BY DEF Resolve

\* What a snapshot makes of the attempts: the one the shell runs, if any, is
\* open, the shell's other open ones are settled, and no other is touched.
LEMMA SnapshotAttempts ==
    ASSUME IInv, StartsKnown, NEW d \in Domain, NEW r,
           NEW active \in ShellAttempt \cup {None},
           NEW last \in ShellAttempt \cup {None},
           Snapshot(d, r, active, last)
    PROVE  \E a \in Attempt \cup {None} :
              /\ a = None <=> active = None
              /\ active # None =>
                    lifecycle' = [lifecycle EXCEPT ![laneOf[d]] = Fact("Running", d, a)]
              /\ a \in Attempt => \/ a \in OpenAttempts(d) /\ attempt'[a] = attempt[a]
                                  \/ ~Minted(a) /\ attempt'[a] = NewAttempt(d, "Open", TRUE)
              /\ \A b \in OpenAttempts(d) \ {a} : Settled(b)
              /\ \A b \in Attempt \ (OpenAttempts(d) \cup {a}) : attempt'[b] = attempt[b]
<1> DEFINE l == laneOf[d]
           Completed(a) ==
               last # None /\ a \in Resolve(d, last) /\ attempt[a].state = "Open"
           Reconciled(a) ==
               [b \in Attempt |->
                   IF b = a
                   THEN IF Minted(a) THEN attempt[a] ELSE NewAttempt(d, "Open", TRUE)
                   ELSE IF Completed(b) THEN [attempt[b] EXCEPT !.state = "Completed"]
                   ELSE IF b \in OpenAttempts(d)
                   THEN [attempt[b] EXCEPT !.state = "Unknown"] ELSE attempt[b]]
<1>1. IsTop(d) /\ Top(l) = d
  <2>1. state[d] = "Desynchronized"  BY DEF Snapshot
  <2> QED  BY <2>1, HolderTops
<1>2. last # None => \A a \in Resolve(d, last) : attempt[a].domain = d
  BY DEF Snapshot
<1>3. \E a \in Attempt \cup {None} :
          /\ a = None <=> active = None
          /\ active # None => SetLifecycle(l, Fact("Running", d, a))
          /\ a \in Attempt => (Minted(a) => a \in OpenAttempts(d))
          /\ attempt' = Reconciled(a)
  <2>1. CASE active = None
    <3>1. attempt' = Reconciled(None)  BY <2>1 DEF Snapshot
    <3>2. None \notin Attempt  BY NoneAssumption
    <3> HIDE DEF Reconciled
    <3> QED  BY <2>1, <3>1, <3>2
  <2>2. CASE active # None
    <3>1. PICK a \in IF Resolve(d, active) = {} THEN {active} ELSE Resolve(d, active) :
              /\ Minted(a) => a \in OpenAttempts(d)
              /\ attempt' = Reconciled(a)
              /\ SetLifecycle(l, Fact("Running", d, a))
      BY <1>1, <2>2 DEF Snapshot
    <3>2. active \in Attempt  BY <2>2 DEF Attempt
    <3>3. a \in Attempt  BY <3>1, <3>2, ResolvedMinted
    <3>4. a # None  BY <3>3, NoneAssumption
    <3> HIDE DEF Reconciled
    <3> QED  BY <2>2, <3>1, <3>3, <3>4
  <2> QED  BY <2>1, <2>2
<1>4. PICK a \in Attempt \cup {None} :
          /\ a = None <=> active = None
          /\ active # None => SetLifecycle(l, Fact("Running", d, a))
          /\ a \in Attempt => (Minted(a) => a \in OpenAttempts(d))
          /\ attempt' = Reconciled(a)
  BY <1>3, Zenon
<1>5. \A b \in Attempt : Completed(b) => b \in OpenAttempts(d) /\ attempt[b].started
  <2> SUFFICES ASSUME NEW b \in Attempt, Completed(b)
               PROVE  b \in OpenAttempts(d) /\ attempt[b].started
    OBVIOUS
  <2>1. b \in OpenAttempts(d)  BY <1>2 DEF OpenAttempts
  <2>2. \/ b = last /\ Minted(b) /\ b \in ShellAttempt
        \/ attempt[b].shellID # None
    BY ResolvedMinted, NoneAssumption
  <2>3. Known(attempt[b], b)  BY <2>2 DEF Known, Minted
  <2> QED  BY <2>1, <2>3 DEF StartsKnown
<1> HIDE DEF Completed
<1>6. a \in Attempt => \/ a \in OpenAttempts(d) /\ attempt'[a] = attempt[a]
                       \/ ~Minted(a) /\ attempt'[a] = NewAttempt(d, "Open", TRUE)
  BY <1>4
<1>7. \A b \in OpenAttempts(d) \ {a} : Settled(b)
  <2> SUFFICES ASSUME NEW b \in OpenAttempts(d) \ {a} PROVE Settled(b)
    OBVIOUS
  <2>1. b \in Attempt /\ attempt[b].state = "Open"  BY DEF OpenAttempts
  <2>2. \/ Completed(b) /\ attempt'[b] = [attempt[b] EXCEPT !.state = "Completed"]
        \/ attempt'[b] = [attempt[b] EXCEPT !.state = "Unknown"]
    BY <1>4, <2>1
  <2> QED  BY <1>5, <2>1, <2>2 DEF Settled
<1>8. \A b \in Attempt \ (OpenAttempts(d) \cup {a}) : attempt'[b] = attempt[b]
  BY <1>4, <1>5
<1> HIDE DEF Reconciled
<1> QED  BY <1>4, <1>6, <1>7, <1>8 DEF SetLifecycle

\* One open attempt settled, and no other attempt changed.
LEMMA OneSettled ==
    ASSUME IInv, NEW a \in Attempt, attempt[a].state = "Open",
           attempt' = [attempt EXCEPT ![a].state = "Unknown"]
    PROVE  NoneBorn
<1>1. attempt' = [attempt EXCEPT ![a] = [attempt[a] EXCEPT !.state = "Unknown"]]
  OBVIOUS
<1>2. Ages(a)  BY <1>1, OneAttempt DEF Ages, Settled
<1> QED  BY <1>1, <1>2, OneAttempt DEF NoneBorn, Ages

\* A submit bears its own attempt and may settle the one that was open.
LEMMA SubmitBears ==
    ASSUME IInv, NEW d \in Domain, NEW a \in Attempt, SubmitAttempt(d, a)
    PROVE  /\ state[d] = "Established" /\ IsTop(d)
           /\ BornOnlyTo(d)
           /\ attempt'[a] = NewAttempt(d, "Open", FALSE)
           /\ \/ OpenAttempts(d) = {} /\ \A b \in Attempt \ {a} : attempt'[b] = attempt[b]
              \/ \E open \in OpenAttempts(d) :
                    /\ Settled(open) /\ open # a
                    /\ \A b \in Attempt \ {a, open} : attempt'[b] = attempt[b]
                    /\ lifecycle[laneOf[d]].state = "PromptReady" \/ ~attempt[open].started
           /\ lifecycle' = [lifecycle EXCEPT ![laneOf[d]] = Fact("Running", d, a)]
<1> DEFINE new == NewAttempt(d, "Open", FALSE)
<1>1. attempt \in [Attempt -> AttemptRecord]  BY AttemptType DEF IInv
<1>2. /\ state[d] = "Established" /\ state'[d] = "Established"
      /\ a \in KernelAttempt /\ ~Minted(a)
      /\ lifecycle' = [lifecycle EXCEPT ![laneOf[d]] = Fact("Running", d, a)]
  BY DEF SubmitAttempt, Active, Fresh, SetLifecycle
<1>3. \/ OpenAttempts(d) = {} /\ attempt' = [attempt EXCEPT ![a] = new]
      \/ \E open \in OpenAttempts(d) :
            /\ lifecycle[laneOf[d]].state = "PromptReady" \/ ~attempt[open].started
            /\ attempt' = [[attempt EXCEPT ![open].state = "Unknown"] EXCEPT ![a] = new]
  BY DEF SubmitAttempt
<1> HIDE DEF new
<1>4. attempt'[a] = new  BY <1>1, <1>3
<1>5. \/ OpenAttempts(d) = {} /\ \A b \in Attempt \ {a} : attempt'[b] = attempt[b]
      \/ \E open \in OpenAttempts(d) :
            /\ Settled(open) /\ open # a
            /\ \A b \in Attempt \ {a, open} : attempt'[b] = attempt[b]
            /\ lifecycle[laneOf[d]].state = "PromptReady" \/ ~attempt[open].started
  <2>1. CASE OpenAttempts(d) = {} /\ attempt' = [attempt EXCEPT ![a] = new]
    BY <1>1, <2>1
  <2>2. ASSUME NEW open \in OpenAttempts(d),
               attempt' = [[attempt EXCEPT ![open].state = "Unknown"] EXCEPT ![a] = new]
        PROVE  /\ Settled(open) /\ open # a
               /\ \A b \in Attempt \ {a, open} : attempt'[b] = attempt[b]
    <3>1. open \in Attempt /\ attempt[open].state = "Open"  BY DEF OpenAttempts
    <3>2. open # a  BY <1>2, <3>1 DEF Minted
    <3>3. attempt'[open] = [attempt[open] EXCEPT !.state = "Unknown"]
      BY <1>1, <2>2, <3>1, <3>2
    <3> QED  BY <1>1, <2>2, <3>1, <3>2, <3>3 DEF Settled
  <2> QED  BY <1>3, <2>1, <2>2
<1>6. BornTo(d, a)  BY <1>2, <1>4 DEF new, BornTo
<1>7. BornOnlyTo(d)  BY <1>5, <1>6 DEF BornOnlyTo, Ages
<1>8. IsTop(d)  BY <1>2, HolderTops
<1> QED  BY <1>2, <1>4, <1>5, <1>7, <1>8 DEF new

\* A frame of d ages the attempts, or one is born to d: opened on a lane with
\* nothing open, or rebuilt on an adopted domain.
LEMMA FrameBears ==
    ASSUME IInv, NEW d \in Domain, NEW a \in Attempt \cup {None}, FrameOf(d, a)
    PROVE  \/ NoneBorn
           \/ /\ BornTo(d, a) /\ a \in Attempt
              /\ \A b \in Attempt \ {a} : attempt'[b] = attempt[b]
              /\ adopted[d] \/ OpenAttempts(d) = {}
              /\ lifecycle' = [lifecycle EXCEPT ![laneOf[d]] = Fact("Running", d, a)]
<1>1. attempt \in [Attempt -> AttemptRecord]  BY AttemptType DEF IInv
<1>2. state'[d] = "Established"  BY FrameSpeaker
<1>3. ASSUME NEW o \in Attempt, NEW r, attempt' = [attempt EXCEPT ![o] = r], Ages(o)
      PROVE  NoneBorn
  BY <1>3, OneAttempt DEF NoneBorn, Ages
<1>4. CASE PromptReady(d)
  <2>1. \/ UNCHANGED attempt
        \/ \E open \in OpenAttempts(d) :
              \/ attempt' = [attempt EXCEPT ![open].state = "Unknown"]
              \/ attempt' = [attempt EXCEPT ![open].primed = TRUE]
    BY <1>4, Zenon DEF PromptReady
  <2>2. ASSUME NEW o \in OpenAttempts(d), attempt' = [attempt EXCEPT ![o].primed = TRUE]
        PROVE  NoneBorn
    <3>1. o \in Attempt /\ attempt[o].state = "Open"  BY DEF OpenAttempts
    <3>2. attempt' = [attempt EXCEPT ![o] = [attempt[o] EXCEPT !.primed = TRUE]]
      BY <2>2
    <3>3. Ages(o)  BY <3>1, <3>2, OneAttempt DEF Ages, Touched
    <3> QED  BY <1>3, <3>1, <3>2, <3>3
  <2>3. UNCHANGED attempt => NoneBorn  BY DEF NoneBorn, Ages
  <2> QED  BY <2>1, <2>2, <2>3, OneSettled DEF OpenAttempts
<1>5. CASE StartAttaches(d, a)
  <2>1. PICK o \in OpenAttempts(d) :
            attempt' = [attempt EXCEPT ![o].started = TRUE, ![o].shellID = a]
    BY <1>5 DEF StartAttaches
  <2>2. o \in Attempt /\ attempt[o].state = "Open"  BY DEF OpenAttempts
  <2>3. attempt' = [attempt EXCEPT
            ![o] = [attempt[o] EXCEPT !.started = TRUE, !.shellID = a]]
    BY <1>1, <2>1, <2>2
  <2>4. Ages(o)  BY <2>2, <2>3, OneAttempt DEF Ages, Touched
  <2> QED  BY <1>3, <2>2, <2>3, <2>4
<1>6. CASE CompleteOpen(d, a)
  <2>1. PICK o \in OpenAttempts(d) :
            attempt[o].started /\ attempt' = [attempt EXCEPT ![o].state = "Completed"]
    BY <1>6 DEF CompleteOpen
  <2>2. o \in Attempt /\ attempt[o].state = "Open"  BY DEF OpenAttempts
  <2>3. attempt' = [attempt EXCEPT ![o] = [attempt[o] EXCEPT !.state = "Completed"]]
    BY <2>1
  <2>4. Ages(o)  BY <2>1, <2>2, <2>3, OneAttempt DEF Ages, Settled
  <2> QED  BY <1>3, <2>2, <2>3, <2>4
<1>7. CASE \/ a \in Attempt /\ (StartOpens(d, a) \/ CompleteRebuilds(d, a))
           \/ a \in ShellAttempt /\ CompleteRefused(d, a)
  <2>1. /\ a \in Attempt /\ ~Minted(a)
        /\ \E st \in {"Open", "Completed"} :
              attempt' = [attempt EXCEPT ![a] = NewAttempt(d, st, TRUE)]
        /\ adopted[d] \/ OpenAttempts(d) = {}
        /\ lifecycle' = [lifecycle EXCEPT ![laneOf[d]] = Fact("Running", d, a)]
    BY <1>7, ResolvedMinted
    DEF StartOpens, CompleteRebuilds, CompleteRefused, Attempt, SetLifecycle
  <2>2. PICK st \in {"Open", "Completed"} :
            attempt' = [attempt EXCEPT ![a] = NewAttempt(d, st, TRUE)]
    BY <2>1
  <2>3. /\ attempt'[a] = NewAttempt(d, st, TRUE)
        /\ \A b \in Attempt \ {a} : attempt'[b] = attempt[b]
    BY <2>1, <2>2, OneAttempt
  <2>4. BornTo(d, a)  BY <1>2, <2>1, <2>3 DEF BornTo
  <2> QED  BY <2>1, <2>3, <2>4
<1> QED  BY <1>4, <1>5, <1>6, <1>7 DEF FrameOf

\* A snapshot bears only the attempt its shell runs.
LEMMA SnapshotBears ==
    ASSUME IInv, StartsKnown, NEW d \in Domain, NEW r,
           NEW active \in ShellAttempt \cup {None},
           NEW last \in ShellAttempt \cup {None},
           Snapshot(d, r, active, last)
    PROVE  BornOnlyTo(d)
<1>1. state'[d] = "Established"  BY DEF Snapshot, IInv, TypeOK
<1>2. PICK a \in Attempt \cup {None} :
          /\ a \in Attempt => \/ a \in OpenAttempts(d) /\ attempt'[a] = attempt[a]
                              \/ ~Minted(a) /\ attempt'[a] = NewAttempt(d, "Open", TRUE)
          /\ \A b \in OpenAttempts(d) \ {a} : Settled(b)
          /\ \A b \in Attempt \ (OpenAttempts(d) \cup {a}) : attempt'[b] = attempt[b]
  BY SnapshotAttempts
<1>3. a \in Attempt => attempt'[a] = attempt[a] \/ BornTo(d, a)
  BY <1>1, <1>2 DEF BornTo
<1> SUFFICES ASSUME NEW b \in Attempt PROVE Ages(b) \/ BornTo(d, b)
  BY DEF BornOnlyTo
<1> QED  BY <1>2, <1>3 DEF Ages

\* The kinds of step in which no attempt is born.
LEMMA StepsWithoutBirth ==
    ASSUME IInv,
           \/ Quiet
           \/ \E t \in Transport : TransportLost(t)
           \/ \E d \in Domain, l \in Lane, t \in Transport, p \in Domain \cup {None} :
                 RequestDomain(d, l, p, t)
           \/ \E d \in Domain, l \in Lane, t \in Transport, e \in 1 .. MaxEpoch :
                 AdoptDomain(d, l, t, e)
           \/ \E d \in Domain, st \in {"Desynchronized", "Suspended"} : TopFalls(d, st)
           \/ \E d \in Domain : TopEnds(d)
           \/ \E l \in Lane : RecoverLane(l)
           \/ \E a \in Attempt : AbandonAttempt(a)
           \/ \E d \in Domain : HelloEstablishes(d) \/ Activate(d)
    PROVE  NoneBorn
<1>1. ASSUME UNCHANGED attempt PROVE NoneBorn  BY <1>1 DEF NoneBorn, Ages
<1>2. ASSUME NEW d \in Domain, TopEnds(d) PROVE NoneBorn
  BY <1>2, SettledOpen DEF TopEnds, EndDomain
<1>3. ASSUME NEW t \in Transport, TransportLost(t) PROVE NoneBorn
  BY <1>3, SettledOpen DEF TransportLost
<1>4. ASSUME NEW d \in Domain, Activate(d) PROVE NoneBorn
  <2>1. \E above : attempt' = UnknownOpenAttempts(above)  BY <1>4, Zenon DEF Activate
  <2> QED  BY <2>1, SettledOpen
<1>5. ASSUME NEW a \in Attempt, AbandonAttempt(a) PROVE NoneBorn
  BY <1>5, OneSettled DEF AbandonAttempt
<1>6. ASSUME \/ Quiet
             \/ \E d \in Domain, l \in Lane, t \in Transport, p \in Domain \cup {None} :
                   RequestDomain(d, l, p, t)
             \/ \E d \in Domain, l \in Lane, t \in Transport, e \in 1 .. MaxEpoch :
                   AdoptDomain(d, l, t, e)
             \/ \E d \in Domain, st \in {"Desynchronized", "Suspended"} : TopFalls(d, st)
             \/ \E l \in Lane : RecoverLane(l)
             \/ \E d \in Domain : HelloEstablishes(d)
      PROVE  NoneBorn
  BY <1>1, <1>6
  DEF Quiet, RequestDomain, AdoptDomain, TopFalls, RecoverLane, HelloEstablishes
<1> QED  BY <1>2, <1>3, <1>4, <1>5, <1>6

\* In every step each attempt stays, is settled, is touched or is born.
LEMMA NextAttempts == ASSUME IInv, StartsKnown, Next PROVE AttemptsLive
<1>1. NoneBorn => AttemptsLive  BY DEF NoneBorn, AttemptsLive
<1>2. \A d \in Domain : BornOnlyTo(d) => AttemptsLive  BY DEF BornOnlyTo, AttemptsLive
<1>3. ASSUME NEW d \in Domain, NEW a \in Attempt \cup {None}, FrameOf(d, a)
      PROVE  AttemptsLive
  <2>1. NoneBorn \/ BornOnlyTo(d)  BY <1>3, FrameBears DEF BornOnlyTo, Ages
  <2> QED  BY <1>1, <1>2, <2>1
<1> QED  BY NextCases, StepsWithoutBirth, SubmitBears, SnapshotBears, <1>1, <1>2, <1>3

-----------------------------------------------------------------------------
(* What the life of the attempts keeps.                                    *)

\* StartsKnown is kept by every step.
LEMMA NextStarts == ASSUME IInv, StartsKnown, Next PROVE StartsKnown'
<1> SUFFICES ASSUME NEW a \in Attempt PROVE Known(attempt'[a], a) => attempt'[a].started
  BY DEF StartsKnown, Known
<1>1. attempt[a] \in AttemptRecord /\ (Known(attempt[a], a) => attempt[a].started)
  BY AttemptType DEF IInv, StartsKnown
<1>2. AttemptsLive  BY NextAttempts
<1>3. CASE attempt'[a] = attempt[a]  BY <1>1, <1>3
<1>4. CASE Settled(a) \/ Touched(a)
  BY <1>1, <1>4 DEF Settled, Touched, Known, AttemptRecord
<1>5. CASE \E d \in Domain : BornTo(d, a)
  BY <1>5, AttemptIdsAssumption DEF BornTo, NewAttempt, NoAttemptRecord, Known
<1> QED  BY <1>2, <1>3, <1>4, <1>5 DEF AttemptsLive, Ages

\* How a step moves the domains: the dead stay dead, and a shell that dies
\* leaves no attempt open.
NoneOutlives(D) ==
    \A a \in Attempt : attempt[a].state = "Open" /\ attempt[a].domain \in D =>
        attempt'[a].state # "Open"
\* unknownOpenAttempts leaves none open for the domains it is called for.
LEMMA SettledInDomains ==
    ASSUME IInv, NEW D, attempt' = UnknownOpenAttempts(D)
    PROVE  NoneOutlives(D)
BY DEF IInv, TypeOK, AttemptRecord, UnknownOpenAttempts, NoneOutlives

DomainsDieOnce ==
    \A d \in Domain : /\ state[d] \in Terminal => state'[d] \in Terminal
                      /\ state[d] \in Live /\ state'[d] \notin Live => NoneOutlives({d})

\* A step that changes domains in none but these ways.
LEMMA DomainsMove ==
    ASSUME IInv, NEW D, NoneOutlives(D),
           \A x \in Domain : \/ state'[x] = state[x]
                             \/ x \in D /\ state'[x] \in Terminal
                             \/ state[x] \notin Terminal /\ state'[x] \in Live
                             \/ state[x] = "Unminted"
    PROVE  DomainsDieOnce
BY DEF DomainsDieOnce, NoneOutlives, Live, Terminal

\* No step revives a domain, and none ends one with an attempt left open.
LEMMA NextDeaths == ASSUME IInv, Next PROVE DomainsDieOnce
<1>0. state \in [Domain -> DomainState] /\ NoneOutlives({})
  BY DEF IInv, TypeOK, NoneOutlives
<1>1. ASSUME UNCHANGED state PROVE DomainsDieOnce
  BY <1>0, <1>1, DomainsMove
<1>2. ASSUME NEW d \in Domain, NEW st \in Live, state[d] \notin Terminal,
             state' = [state EXCEPT ![d] = st]
      PROVE  DomainsDieOnce
  <2>1. \A x \in Domain : \/ state'[x] = state[x]
                          \/ state[x] \notin Terminal /\ state'[x] \in Live
    BY <1>0, <1>2
  <2> QED  BY <1>0, <2>1, DomainsMove
<1>3. ASSUME NEW d \in Domain, NEW st, state[d] = "Unminted",
             state' = [state EXCEPT ![d] = st]
      PROVE  DomainsDieOnce
  <2>1. \A x \in Domain : state'[x] = state[x] \/ state[x] = "Unminted"
    BY <1>0, <1>3
  <2> QED  BY <1>0, <2>1, DomainsMove
<1>4. ASSUME NEW d \in Domain, TopEnds(d) PROVE DomainsDieOnce
  <2>1. state' = [state EXCEPT ![d] = "Closed"] /\ attempt' = UnknownOpenAttempts({d})
    BY <1>4 DEF TopEnds, EndDomain
  <2>2. NoneOutlives({d})  BY <2>1, SettledInDomains
  <2>3. \A x \in Domain : state'[x] = state[x] \/ (x \in {d} /\ state'[x] \in Terminal)
    BY <1>0, <2>1 DEF Terminal
  <2> QED  BY <2>2, <2>3, DomainsMove
<1>5. ASSUME NEW t \in Transport, TransportLost(t) PROVE DomainsDieOnce
  <2> DEFINE dead == Cascade({d \in Domain : transportOf[d] = t})
  <2>1. state' = [d \in Domain |-> IF d \in dead THEN "Lost" ELSE state[d]]
        /\ attempt' = UnknownOpenAttempts(dead)
    BY <1>5 DEF TransportLost
  <2> HIDE DEF dead
  <2>2. NoneOutlives(dead)  BY <2>1, SettledInDomains
  <2>3. \A x \in Domain : state'[x] = state[x] \/ (x \in dead /\ state'[x] \in Terminal)
    BY <2>1 DEF Terminal
  <2> QED  BY <2>2, <2>3, DomainsMove
<1>6. ASSUME NEW d \in Domain, Activate(d) PROVE DomainsDieOnce
  <2>1. PICK above :
            /\ state' = [x \in Domain |-> IF x \in above THEN "Closed"
                               ELSE IF x = d THEN "Established" ELSE state[x]]
            /\ attempt' = UnknownOpenAttempts(above)
            /\ state[d] = "Suspended"
    BY <1>6 DEF Activate
  <2>2. NoneOutlives(above)  BY <2>1, SettledInDomains
  <2>3. \A x \in Domain : \/ state'[x] = state[x]
                          \/ x \in above /\ state'[x] \in Terminal
                          \/ state[x] \notin Terminal /\ state'[x] \in Live
    BY <2>1 DEF Live, Terminal
  <2> QED  BY <2>2, <2>3, DomainsMove
<1>7. ASSUME NEW d \in Domain, HelloEstablishes(d) PROVE DomainsDieOnce
  BY <1>2, <1>7 DEF HelloEstablishes, Live, Terminal
<1>8. ASSUME NEW d \in Domain, NEW st \in {"Desynchronized", "Suspended"}, TopFalls(d, st)
      PROVE  DomainsDieOnce
  BY <1>2, <1>8 DEF TopFalls, Live, Terminal
<1>9. ASSUME NEW d \in Domain, NEW r, NEW active, NEW last, Snapshot(d, r, active, last)
      PROVE  DomainsDieOnce
  BY <1>2, <1>9, SnapshotCases DEF Live, Terminal
<1>10. ASSUME NEW d \in Domain, NEW l, NEW t, NEW p, RequestDomain(d, l, p, t)
       PROVE  DomainsDieOnce
  BY <1>3, <1>10 DEF RequestDomain, Register
<1>11. ASSUME NEW d \in Domain, NEW l, NEW t, NEW e, AdoptDomain(d, l, t, e)
       PROVE  DomainsDieOnce
  BY <1>3, <1>11 DEF AdoptDomain, Register
<1>12. ASSUME \/ Quiet
              \/ \E l \in Lane : RecoverLane(l)
              \/ \E a \in Attempt, d \in Domain : SubmitAttempt(d, a)
              \/ \E a \in Attempt : AbandonAttempt(a)
              \/ \E d \in Domain, a \in Attempt \cup {None} : FrameOf(d, a)
       PROVE  DomainsDieOnce
  <2>1. UNCHANGED state
    BY <1>12, FrameSpeaker DEF Quiet, RecoverLane, SubmitAttempt, AbandonAttempt
  <2> QED  BY <1>1, <2>1
<1> QED
  BY NextCases, <1>4, <1>5, <1>6, <1>7, <1>8, <1>9, <1>10, <1>11, <1>12

\* OpenIsOwned is kept by every step.
LEMMA NextOwned == ASSUME IInv, StartsKnown, OpenIsOwned, Next PROVE OpenIsOwned'
<1> SUFFICES ASSUME NEW a \in Attempt, attempt'[a].state = "Open"
             PROVE  attempt'[a].domain \in Domain /\ state'[attempt'[a].domain] \in Live
  BY DEF OpenIsOwned
<1>1. AttemptsLive /\ DomainsDieOnce  BY NextAttempts, NextDeaths
<1>2. attempt[a] \in AttemptRecord  BY AttemptType DEF IInv
<1>3. CASE \E d \in Domain : BornTo(d, a)
  BY <1>3 DEF BornTo, NewAttempt, NoAttemptRecord, Live
<1>4. CASE Ages(a)
  <2>1. attempt[a].state = "Open" /\ attempt'[a].domain = attempt[a].domain
    BY <1>2, <1>4 DEF Ages, Settled, Touched, AttemptRecord
  <2>2. attempt[a].domain \in Domain /\ state[attempt[a].domain] \in Live
    BY <2>1 DEF OpenIsOwned
  <2>3. state'[attempt[a].domain] \in Live
    BY <1>1, <2>1, <2>2 DEF DomainsDieOnce, NoneOutlives
  <2> QED  BY <2>1, <2>2, <2>3
<1> QED  BY <1>1, <1>3, <1>4 DEF AttemptsLive

-----------------------------------------------------------------------------
(* One open attempt at a time, and the lane runs it.                       *)

OpenAfter(a, d) == attempt'[a].state = "Open" /\ attempt'[a].domain = d
OpensNone(d) == \A a \in Attempt : OpenAfter(a, d) => a \in OpenAttempts(d)
HoldsAfter(d) ==
    state'[d] = "Established" /\ ~adopted'[d] =>
        \A a \in Attempt : OpenAfter(a, d) =>
            lifecycle'[laneOf'[d]] = Fact("Running", d, a)
OneAfter(d) ==
    ~adopted'[d] =>
        \A a, b \in Attempt : OpenAfter(a, d) /\ OpenAfter(b, d) => a = b

\* OneOpen and OpenAttemptHoldsLane after a step, domain by domain.
LEMMA After ==
    /\ OneOpen' <=> \A d \in Domain : OneAfter(d)
    /\ OpenAttemptHoldsLane' <=> \A d \in Domain : HoldsAfter(d)
<1>1. OneOpen' <=> \A d \in Domain : OneAfter(d)
  BY DEF OneOpen, OneAfter, OpenAfter, OpenAttempts
<1>2. OpenAttemptHoldsLane' <=> \A d \in Domain : HoldsAfter(d)
  BY DEF OpenAttemptHoldsLane, HoldsAfter, OpenAfter, OpenAttempts
<1> QED  BY <1>1, <1>2

\* Steps that bear no attempt, or only attempts of d, open none for another.
LEMMA NoBirthOpensNone ==
    ASSUME IInv
    PROVE  /\ NoneBorn => \A x : OpensNone(x)
           /\ \A d : BornOnlyTo(d) => \A x : x # d => OpensNone(x)
<1>1. ASSUME NEW a \in Attempt, NEW x, Ages(a), OpenAfter(a, x)
      PROVE  a \in OpenAttempts(x)
  <2>1. attempt[a] \in AttemptRecord  BY AttemptType DEF IInv
  <2>2. attempt[a].state = "Open" /\ attempt'[a].domain = attempt[a].domain
    BY <1>1, <2>1 DEF Ages, Settled, Touched, OpenAfter, AttemptRecord
  <2> QED  BY <1>1, <2>2 DEF OpenAfter, OpenAttempts
<1>2. \A a, d, x : BornTo(d, a) /\ OpenAfter(a, x) => x = d
  BY DEF BornTo, OpenAfter, NewAttempt, NoAttemptRecord
<1> QED  BY <1>1, <1>2 DEF NoneBorn, BornOnlyTo, OpensNone

\* A shell to which nothing is opened, whose lane keeps its fact.
LEMMA KeepsOne ==
    ASSUME OneOpen, NEW x \in Domain, OpensNone(x), adopted'[x] = adopted[x]
    PROVE  OneAfter(x)
BY DEF OneOpen, OneAfter, OpensNone

\* A shell for which nothing opens, on a lane whose fact stays, holds it as before.
LEMMA KeepsHold ==
    ASSUME OpenAttemptHoldsLane, NEW x \in Domain, OpensNone(x),
           laneOf'[x] = laneOf[x], adopted'[x] = adopted[x],
           state'[x] = "Established" =>
               /\ state[x] = "Established"
               /\ lifecycle'[laneOf[x]] = lifecycle[laneOf[x]]
    PROVE  HoldsAfter(x)
BY DEF OpenAttemptHoldsLane, HoldsAfter, OpensNone

\* Another Established shell has another lane.
LEMMA OtherLane ==
    ASSUME IInv, NEW d \in Domain, IsTop(d), NEW x \in Domain \ {d},
           state[x] = "Established"
    PROVE  laneOf[x] \in Lane /\ laneOf[x] # laneOf[d]
BY HolderTops DEF IsTop

\* A step of the shell d, which holds its lane or is about to.
LEMMA OneShellMoves ==
    ASSUME IInv, OneOpen, OpenAttemptHoldsLane, NEW d \in Domain,
           UNCHANGED identityVars,
           NoneBorn \/ (BornOnlyTo(d) /\ state'[d] = "Established"),
           NEW fact, lifecycle' \in {lifecycle, [lifecycle EXCEPT ![laneOf[d]] = fact]},
           \A x \in Domain \ {d} : state'[x] = "Established" =>
               state[x] = "Established" /\ laneOf[x] # laneOf[d],
           HoldsAfter(d)
    PROVE  OneOpen' /\ OpenAttemptHoldsLane'
<1>1. laneOf' = laneOf /\ adopted' = adopted  BY DEF identityVars
<1>2. \A x \in Domain \ {d} : OpensNone(x)  BY NoBirthOpensNone
<1>3. ASSUME NEW x \in Domain \ {d} PROVE OneAfter(x) /\ HoldsAfter(x)
  <2>1. state'[x] = "Established" =>
            /\ state[x] = "Established"
            /\ lifecycle'[laneOf[x]] = lifecycle[laneOf[x]]
    <3> HAVE state'[x] = "Established"
    <3>1. state[x] = "Established" /\ laneOf[x] # laneOf[d]  OBVIOUS
    <3>2. laneOf[x] \in Lane  BY <3>1, HolderTops DEF IsTop
    <3>3. lifecycle \in [Lane -> LaneFact]  BY DEF IInv, TypeOK
    <3> QED  BY <3>1, <3>2, <3>3
  <2> QED  BY <1>1, <1>2, <2>1, KeepsOne, KeepsHold
<1>4. OneAfter(d)
  <2>1. CASE NoneBorn  BY <1>1, <2>1, NoBirthOpensNone, KeepsOne
  <2>2. CASE state'[d] = "Established"
    <3>1. \A a : Fact("Running", d, a).attempt = a  BY DEF Fact
    <3> QED  BY <2>2, <3>1 DEF HoldsAfter, OneAfter
  <2> QED  BY <2>1, <2>2
<1> QED  BY <1>3, <1>4, After

\* A step that opens nothing, and gives no Established shell another fact.
LEMMA NothingOpened ==
    ASSUME IInv, OneOpen, OpenAttemptHoldsLane, NoneBorn,
           UNCHANGED <<laneOf, adopted>>,
           \A x \in Domain : state'[x] = "Established" =>
               /\ state[x] = "Established"
               /\ lifecycle'[laneOf[x]] = lifecycle[laneOf[x]]
    PROVE  OneOpen' /\ OpenAttemptHoldsLane'
<1>1. \A x \in Domain : OpensNone(x)  BY NoBirthOpensNone
<1> QED  BY <1>1, KeepsOne, KeepsHold, After

\* The same with a domain that is registered, and has no attempts.
LEMMA NewDomainOpensNone ==
    ASSUME IInv, OneOpen, OpenAttemptHoldsLane, OpenIsOwned,
           NEW d \in Domain, state[d] = "Unminted", UNCHANGED attempt,
           \A x \in Domain \ {d} : laneOf'[x] = laneOf[x] /\ adopted'[x] = adopted[x],
           \A x \in Domain \ {d} : state'[x] = "Established" =>
               /\ state[x] = "Established"
               /\ lifecycle'[laneOf[x]] = lifecycle[laneOf[x]]
    PROVE  OneOpen' /\ OpenAttemptHoldsLane'
<1>1. NoneBorn  BY DEF NoneBorn, Ages
<1>2. \A x \in Domain : OpensNone(x)  BY <1>1, NoBirthOpensNone
<1>3. OpenAttempts(d) = {}  BY DEF OpenAttempts, OpenIsOwned, Live
<1>4. OneAfter(d) /\ HoldsAfter(d)  BY <1>2, <1>3 DEF OpensNone, OneAfter, HoldsAfter
<1>5. ASSUME NEW x \in Domain \ {d} PROVE OneAfter(x) /\ HoldsAfter(x)
  BY <1>2, <1>5, KeepsOne, KeepsHold
<1> QED  BY <1>4, <1>5, After

\* The shell's only open attempt is what its lane runs.
LEMMA OnlyOpen ==
    ASSUME OneOpen, NEW d \in Domain, ~adopted[d], NEW o \in OpenAttempts(d)
    PROVE  OpenAttempts(d) = {o}
BY DEF OneOpen

\* The lane resumes from what is open on the shell that holds it.
LEMMA ResumedHolds ==
    ASSUME OneOpen, NEW d \in Domain, OpensNone(d), adopted'[d] = adopted[d],
           lifecycle'[laneOf'[d]] \in ResumeFacts(d, OpenAttempts(d))
    PROVE  HoldsAfter(d)
<1> SUFFICES ASSUME ~adopted[d], NEW a \in Attempt, OpenAfter(a, d)
             PROVE  lifecycle'[laneOf'[d]] = Fact("Running", d, a)
  BY DEF HoldsAfter
<1>1. OpenAttempts(d) = {a}  BY OnlyOpen DEF OpensNone
<1> QED  BY <1>1 DEF ResumeFacts

\* A frame about an attempt leaves its lane running what the shell has open.
LEMMA FrameHolds ==
    ASSUME IInv, OneOpen, OpenAttemptHoldsLane, NEW d \in Domain,
           NEW a \in Attempt \cup {None}, FrameOf(d, a)
    PROVE  /\ HoldsAfter(d)
           /\ \E fact : lifecycle' \in {lifecycle, [lifecycle EXCEPT ![laneOf[d]] = fact]}
<1>1. /\ state[d] = "Established" /\ IsTop(d)
      /\ UNCHANGED <<identityVars, state, stack>>
  BY FrameSpeaker
<1>2. laneOf[d] \in Lane /\ laneOf' = laneOf /\ adopted' = adopted
  BY <1>1 DEF IsTop, identityVars
<1>3. attempt \in [Attempt -> AttemptRecord] /\ lifecycle \in [Lane -> LaneFact]
  BY DEF IInv, TypeOK
<1>4. \E fact : lifecycle' \in {lifecycle, [lifecycle EXCEPT ![laneOf[d]] = fact]}
  <2>1. CASE PromptReady(d)  BY <2>1 DEF PromptReady, SetLifecycle
  <2>2. CASE ~PromptReady(d)
    BY <2>2 DEF FrameOf, StartAttaches, CompleteOpen, StartOpens, CompleteRebuilds,
                CompleteRefused, SetLifecycle
  <2> QED  BY <2>1, <2>2
\* An attempt that is open afterwards, of a shell of this kernel's own.
<1> SUFFICES ASSUME ~adopted[d], NEW b \in Attempt, OpenAfter(b, d)
             PROVE  lifecycle'[laneOf[d]] = Fact("Running", d, b)
  BY <1>2, <1>4 DEF HoldsAfter
<1>5. CASE ~NoneBorn
  <2>1. /\ \A x \in Attempt \ {a} : attempt'[x] = attempt[x]
        /\ OpenAttempts(d) = {}
        /\ lifecycle' = [lifecycle EXCEPT ![laneOf[d]] = Fact("Running", d, a)]
    BY <1>5, FrameBears
  <2>2. b = a  BY <2>1 DEF OpenAfter, OpenAttempts
  <2> QED  BY <1>2, <1>3, <2>1, <2>2
<1>6. CASE NoneBorn
  <2>1. OpenAttempts(d) = {b}
    <3>1. b \in OpenAttempts(d)  BY <1>6, NoBirthOpensNone DEF OpensNone
    <3> QED  BY <3>1, OnlyOpen
  <2>2. lifecycle[laneOf[d]] = Fact("Running", d, b)
    BY <1>1, <2>1 DEF OpenAttemptHoldsLane
  <2>3. attempt[b].state = "Open"  BY <2>1 DEF OpenAttempts
  <2>4. UNCHANGED lifecycle \/ SetLifecycle(laneOf[d], Fact("Running", d, b))
    <3>1. CASE PromptReady(d)
      <4>1. \/ attempt' = [attempt EXCEPT ![b].state = "Unknown"]
            \/ lifecycle[laneOf[d]].state = "Running" => UNCHANGED lifecycle
        BY <2>1, <3>1, Zenon DEF PromptReady
      <4>2. attempt' # [attempt EXCEPT ![b].state = "Unknown"]
        <5>1. [attempt[b] EXCEPT !.state = "Unknown"].state = "Unknown"
          BY <1>3 DEF AttemptRecord
        <5> QED  BY <1>3, <5>1 DEF OpenAfter
      <4>3. lifecycle[laneOf[d]].state = "Running"  BY <2>2 DEF Fact
      <4> QED  BY <4>1, <4>2, <4>3
    <3>2. CASE StartAttaches(d, a)
      BY <2>1, <3>2 DEF StartAttaches
    <3>3. CASE CompleteOpen(d, a)  BY <3>3 DEF CompleteOpen
    <3>4. CASE \/ a \in Attempt /\ (StartOpens(d, a) \/ CompleteRebuilds(d, a))
               \/ a \in ShellAttempt /\ CompleteRefused(d, a)
      BY <1>2, <2>1, <3>4 DEF StartOpens, CompleteRebuilds, CompleteRefused
    <3> QED  BY <3>1, <3>2, <3>3, <3>4 DEF FrameOf
  <2> QED  BY <1>2, <1>3, <2>2, <2>4 DEF SetLifecycle
<1> QED  BY <1>5, <1>6

\* A submit leaves its lane running the submitted attempt and no other.
LEMMA SubmitHolds ==
    ASSUME IInv, OneOpen, OpenAttemptHoldsLane, NEW d \in Domain,
           NEW a \in Attempt, SubmitAttempt(d, a)
    PROVE  HoldsAfter(d)
<1>1. /\ IsTop(d) /\ state[d] = "Established"
      /\ \/ OpenAttempts(d) = {} /\ \A b \in Attempt \ {a} : attempt'[b] = attempt[b]
         \/ \E open \in OpenAttempts(d) :
               /\ Settled(open) /\ open # a
               /\ \A b \in Attempt \ {a, open} : attempt'[b] = attempt[b]
               /\ lifecycle[laneOf[d]].state = "PromptReady" \/ ~attempt[open].started
      /\ lifecycle' = [lifecycle EXCEPT ![laneOf[d]] = Fact("Running", d, a)]
  BY SubmitBears, ZenonT(60)
<1>2. UNCHANGED identityVars  BY DEF SubmitAttempt
<1>3. laneOf' = laneOf /\ adopted' = adopted  BY <1>2 DEF identityVars
<1>4. lifecycle'[laneOf[d]] = Fact("Running", d, a)
  BY <1>1 DEF IsTop, IInv, TypeOK
<1> SUFFICES ASSUME ~adopted[d], NEW b \in Attempt, OpenAfter(b, d), b # a PROVE FALSE
  BY <1>3, <1>4 DEF HoldsAfter
<1>5. ~Settled(b)
  <2>1. attempt[b] \in AttemptRecord  BY AttemptType DEF IInv
  <2> QED  BY <2>1 DEF Settled, OpenAfter, AttemptRecord
<1>6. attempt'[b] = attempt[b] => b \in OpenAttempts(d)  BY DEF OpenAfter, OpenAttempts
<1>7. CASE OpenAttempts(d) = {}  BY <1>1, <1>6, <1>7
<1>8. ASSUME NEW open \in OpenAttempts(d), Settled(open),
             \A x \in Attempt \ {a, open} : attempt'[x] = attempt[x]
      PROVE  FALSE
  <2>1. b # open  BY <1>5, <1>8
  <2>2. b \in OpenAttempts(d)  BY <1>6, <1>8, <2>1
  <2> QED  BY <2>1, <2>2, OnlyOpen
<1> QED  BY <1>1, <1>7, <1>8

\* A snapshot leaves its lane running the attempt the shell runs.
LEMMA SnapshotHolds ==
    ASSUME IInv, StartsKnown, NEW d \in Domain, NEW r,
           NEW active \in ShellAttempt \cup {None},
           NEW last \in ShellAttempt \cup {None},
           Snapshot(d, r, active, last)
    PROVE  HoldsAfter(d)
<1>1. PICK a \in Attempt \cup {None} :
          /\ a = None <=> active = None
          /\ active # None =>
                lifecycle' = [lifecycle EXCEPT ![laneOf[d]] = Fact("Running", d, a)]
          /\ \A b \in OpenAttempts(d) \ {a} : Settled(b)
          /\ \A b \in Attempt \ (OpenAttempts(d) \cup {a}) : attempt'[b] = attempt[b]
  BY SnapshotAttempts
<1>2. IsTop(d) /\ UNCHANGED identityVars  BY SnapshotCases
<1>3. laneOf' = laneOf /\ adopted' = adopted  BY <1>2 DEF identityVars
<1> SUFFICES ASSUME NEW b \in Attempt, OpenAfter(b, d)
             PROVE  lifecycle'[laneOf[d]] = Fact("Running", d, b)
  BY <1>3 DEF HoldsAfter
<1>4. ~Settled(b)
  <2>1. attempt[b] \in AttemptRecord  BY AttemptType DEF IInv
  <2> QED  BY <2>1 DEF Settled, OpenAfter, AttemptRecord
<1>5. attempt'[b] = attempt[b] => b \in OpenAttempts(d)  BY DEF OpenAfter, OpenAttempts
<1>6. b = a  BY <1>1, <1>4, <1>5
<1>7. active # None  BY <1>1, <1>6, NoneAssumption
<1> QED  BY <1>1, <1>2, <1>6, <1>7 DEF IsTop, IInv, TypeOK

\* An activated parent resumes the attempt it had open.
LEMMA ActivateHolds ==
    ASSUME IInv, OneOpen, NEW d \in Domain, Activate(d)
    PROVE  /\ HoldsAfter(d)
           /\ \A x \in Domain \ {d} : state'[x] = "Established" =>
                 state[x] = "Established" /\ laneOf[x] # laneOf[d]
<1> DEFINE l == laneOf[d]
           s == stack[l]
<1>1. l \in Lane /\ s \in Seq(Domain) /\ UNCHANGED identityVars
  BY DEF Activate, IInv, TypeOK, Structure, LiveIsStacked, Live
<1>2. PICK at \in 1 .. Len(s) :
         /\ s[at] = d
         /\ LET above == {s[i] : i \in {j \in DOMAIN s : j > at}}
            IN  state' = [x \in Domain |-> IF x \in above THEN "Closed"
                              ELSE IF x = d THEN "Established" ELSE state[x]]
  BY ActivateCuts
<1> DEFINE above == {s[i] : i \in {j \in DOMAIN s : j > at}}
<1>3. state' = [x \in Domain |-> IF x \in above THEN "Closed"
                    ELSE IF x = d THEN "Established" ELSE state[x]]
  BY <1>2
<1>4. \A x \in Domain \ {d} : state'[x] = "Established" =>
          state[x] = "Established" /\ laneOf[x] # laneOf[d]
  <2> SUFFICES ASSUME NEW x \in Domain \ {d}, state'[x] = "Established", laneOf[x] = l,
                      state[x] = "Established"
               PROVE  FALSE
    BY <1>3
  <2>1. x \notin above
    <3> HIDE DEF above
    <3> QED  BY <1>3
  <2>2. s # <<>> /\ s[Len(s)] = x  BY HolderTops DEF IsTop
  <2>3. Len(s) # at  BY <1>2, <2>2
  <2> HIDE DEF s
  <2>4. Len(s) \in DOMAIN s /\ Len(s) > at  BY <1>1, <1>2, <2>2, <2>3
  <2> QED  BY <2>1, <2>2, <2>4
<1>5. PICK fact \in ResumeFacts(d, OpenAttempts(d)) : SetLifecycle(l, fact)
  BY DEF Activate
<1>6. lifecycle'[l] = fact  BY <1>1, <1>5 DEF SetLifecycle, IInv, TypeOK
<1>7. OpensNone(d)  BY StepsWithoutBirth, NoBirthOpensNone
<1>8. laneOf' = laneOf /\ adopted' = adopted  BY <1>1 DEF identityVars
<1> HIDE DEF l
<1>9. lifecycle'[laneOf'[d]] \in ResumeFacts(d, OpenAttempts(d))
  BY <1>5, <1>6, <1>8 DEF l
<1> QED  BY <1>4, <1>7, <1>8, <1>9, ResumedHolds

\* A shell that says hello has no attempt open yet.
LEMMA HelloHolds ==
    ASSUME IInv, OpenIsOwned, NEW d \in Domain, HelloEstablishes(d)
    PROVE  /\ HoldsAfter(d)
           /\ \A x \in Domain \ {d} : state'[x] = "Established" =>
                 state[x] = "Established" /\ laneOf[x] # laneOf[d]
<1>1. /\ state[d] = "Pending" /\ MayEstablish(d)
      /\ state' = [state EXCEPT ![d] = "Established"] /\ UNCHANGED attempt
  BY DEF HelloEstablishes
<1>2. OpenAttempts(d) = {}  BY <1>1 DEF OpenAttempts, OpenIsOwned, Live
<1>3. HoldsAfter(d)  BY <1>1, <1>2 DEF HoldsAfter, OpenAfter, OpenAttempts
<1>4. ASSUME NEW x \in Domain \ {d}, state'[x] = "Established"
      PROVE  state[x] = "Established" /\ laneOf[x] # laneOf[d]
  <2>1. state[x] = "Established"  BY <1>1, <1>4 DEF IInv, TypeOK
  <2>2. IsTop(x) /\ Top(laneOf[x]) = x  BY <2>1, HolderTops
  <2> QED  BY <1>1, <2>1, <2>2 DEF MayEstablish, IsTop
<1> QED  BY <1>3, <1>4

\* A parent that survives a lost transport runs what it had open.
LEMMA LossHolds ==
    ASSUME IInv, OneOpen, OpenAttemptHoldsLane, NEW t \in Transport, TransportLost(t)
    PROVE  OneOpen' /\ OpenAttemptHoldsLane'
<1> DEFINE dead == Cascade({d \in Domain : transportOf[d] = t})
<1>1. UNCHANGED identityVars
      /\ state' = [d \in Domain |-> IF d \in dead THEN "Lost" ELSE state[d]]
  BY DEF TransportLost
<1>2. laneOf' = laneOf /\ adopted' = adopted  BY <1>1 DEF identityVars
<1> HIDE DEF dead
<1>3. \A x \in Domain : OpensNone(x)  BY StepsWithoutBirth, NoBirthOpensNone
<1>4. ASSUME NEW x \in Domain PROVE HoldsAfter(x)
  <2>1. CASE state'[x] # "Established"  BY <2>1 DEF HoldsAfter
  <2>2. CASE state'[x] = "Established"
    <3> DEFINE l == laneOf[x]
               s == stack[l]
    <3>1. x \notin dead /\ state[x] = "Established"  BY <1>1, <2>2
    <3>2. IsTop(x)  BY <3>1, HolderTops
    <3>3. l \in Lane /\ s \in Seq(Domain) /\ s # <<>> /\ s[Len(s)] = x
      BY <3>2 DEF IsTop, IInv, TypeOK
    <3>4. PICK m : LossLeaves(l, dead, m)  BY <3>3, LossCuts DEF dead
    <3>5. lifecycle'[l] = lifecycle[l] \/ lifecycle'[l] \in ResumeFacts(x, OpenAttempts(x))
      <4>1. CASE ~ \E y \in dead : laneOf[y] = l  BY <3>4, <4>1 DEF LossLeaves
      <4>2. CASE \E y \in dead : laneOf[y] = l
        <5>1. lifecycle'[l] \in FactsAfterLoss(l, dead)
          BY <3>4, <4>2 DEF LossLeaves
        <5>2. m \in 0 .. Len(s) /\ \A i \in 1 .. Len(s) : s[i] \notin dead <=> i <= m
          BY <3>4 DEF LossLeaves
        <5> HIDE DEF s
        <5>3. Len(s) \in 1 .. Len(s)  BY <3>3
        <5>4. m = Len(s)  BY <3>1, <3>3, <5>2, <5>3
        <5>5. Without(s, dead) = s
          <6>1. Without(s, dead) = SubSeq(s, 1, m)  BY <3>3, <5>2, WithoutSuffix
          <6> QED  BY <3>3, <5>4, <6>1
        <5> QED  BY <3>1, <3>3, <5>1, <5>5 DEF FactsAfterLoss, s
      <4> QED  BY <4>1, <4>2
    <3>6. CASE lifecycle'[l] = lifecycle[l]
      BY <1>2, <1>3, <3>1, <3>6, KeepsHold
    <3>7. CASE lifecycle'[l] \in ResumeFacts(x, OpenAttempts(x))
      BY <1>2, <1>3, <3>7, ResumedHolds
    <3> QED  BY <3>5, <3>6, <3>7
  <2> QED  BY <2>1, <2>2
<1> QED  BY <1>2, <1>3, <1>4, KeepsOne, After

\* OneOpen and OpenAttemptHoldsLane are kept by every step.
LEMMA NextHolds ==
    ASSUME IInv, FactMatchesStack, Attempts, Next
    PROVE  OneOpen' /\ OpenAttemptHoldsLane'
<1> USE DEF Attempts
<1>0. state \in [Domain -> DomainState] /\ lifecycle \in [Lane -> LaneFact]
  BY DEF IInv, TypeOK
<1>1. ASSUME NEW d \in Domain, NEW l \in Lane, NEW t \in Transport,
             NEW p \in Domain \cup {None}, RequestDomain(d, l, p, t)
      PROVE  OneOpen' /\ OpenAttemptHoldsLane'
  <2>1. /\ state[d] = "Unminted" /\ state' = [state EXCEPT ![d] = "Pending"]
        /\ laneOf' = [laneOf EXCEPT ![d] = l] /\ adopted' = [adopted EXCEPT ![d] = FALSE]
        /\ UNCHANGED <<attempt, lifecycle>>
    BY <1>1 DEF RequestDomain, Register
  <2>2. \A x \in Domain \ {d} : /\ laneOf'[x] = laneOf[x] /\ adopted'[x] = adopted[x]
                                /\ state'[x] = state[x]
    BY <1>0, <2>1 DEF IInv, TypeOK
  <2> QED  BY <2>1, <2>2, NewDomainOpensNone
<1>2. ASSUME NEW d \in Domain, NEW l \in Lane, NEW t \in Transport, NEW e,
             AdoptDomain(d, l, t, e)
      PROVE  OneOpen' /\ OpenAttemptHoldsLane'
  <2>1. /\ state[d] = "Unminted" /\ state' = [state EXCEPT ![d] = "Established"]
        /\ laneOf' = [laneOf EXCEPT ![d] = l] /\ adopted' = [adopted EXCEPT ![d] = TRUE]
        /\ UNCHANGED attempt /\ stack[l] = <<>>
        /\ lifecycle' = [lifecycle EXCEPT ![l] = Fact("PromptReady", d, None)]
    BY <1>2 DEF AdoptDomain, Register
  <2>2. \A x \in Domain \ {d} : /\ laneOf'[x] = laneOf[x] /\ adopted'[x] = adopted[x]
                                /\ state'[x] = state[x]
    BY <1>0, <2>1 DEF IInv, TypeOK
  <2>3. \A x \in Domain \ {d} : state[x] = "Established" =>
            laneOf[x] \in Lane /\ laneOf[x] # l
    BY <2>1, HolderTops DEF IsTop
  <2>4. \A x \in Domain \ {d} : state'[x] = "Established" =>
            /\ state[x] = "Established"
            /\ lifecycle'[laneOf[x]] = lifecycle[laneOf[x]]
    BY <1>0, <2>1, <2>2, <2>3
  <2> QED  BY <2>1, <2>2, <2>4, NewDomainOpensNone
\* Steps of a shell that holds its lane, or is about to.
<1>3. ASSUME NEW d \in Domain, UNCHANGED identityVars,
             NoneBorn \/ (BornOnlyTo(d) /\ state'[d] = "Established"),
             IsTop(d), \A x \in Domain \ {d} : state'[x] = state[x],
             \E fact : lifecycle' \in {lifecycle, [lifecycle EXCEPT ![laneOf[d]] = fact]},
             HoldsAfter(d)
      PROVE  OneOpen' /\ OpenAttemptHoldsLane'
  <2>1. \A x \in Domain \ {d} : state'[x] = "Established" =>
            state[x] = "Established" /\ laneOf[x] # laneOf[d]
    BY <1>3, OtherLane
  <2> QED  BY <1>3, <2>1, OneShellMoves
<1>4. ASSUME NEW d \in Domain, NEW a \in Attempt, SubmitAttempt(d, a)
      PROVE  OneOpen' /\ OpenAttemptHoldsLane'
  <2>1. /\ UNCHANGED <<identityVars, state>> /\ BornOnlyTo(d)
        /\ state[d] = "Established" /\ IsTop(d)
        /\ \E fact : lifecycle' = [lifecycle EXCEPT ![laneOf[d]] = fact]
    BY <1>4, SubmitBears, ZenonT(60) DEF SubmitAttempt
  <2>2. HoldsAfter(d)  BY <1>4, SubmitHolds
  <2> QED  BY <1>3, <2>1, <2>2
<1>5. ASSUME NEW d \in Domain, NEW a \in Attempt \cup {None}, FrameOf(d, a)
      PROVE  OneOpen' /\ OpenAttemptHoldsLane'
  <2>1. /\ UNCHANGED <<identityVars, state>>
        /\ state[d] = "Established" /\ IsTop(d)
    BY <1>5, FrameSpeaker
  <2>2. NoneBorn \/ BornOnlyTo(d)  BY <1>5, FrameBears DEF BornOnlyTo, Ages
  <2>3. /\ HoldsAfter(d)
        /\ \E fact : lifecycle' \in {lifecycle, [lifecycle EXCEPT ![laneOf[d]] = fact]}
    BY <1>5, FrameHolds
  <2> QED  BY <1>3, <2>1, <2>2, <2>3
<1>6. ASSUME NEW d \in Domain, NEW r, NEW active \in ShellAttempt \cup {None},
             NEW last \in ShellAttempt \cup {None}, Snapshot(d, r, active, last)
      PROVE  OneOpen' /\ OpenAttemptHoldsLane'
  <2>1. /\ UNCHANGED identityVars /\ IsTop(d)
        /\ state' = [state EXCEPT ![d] = "Established"]
        /\ \E fact : lifecycle' = [lifecycle EXCEPT ![laneOf[d]] = fact]
    BY <1>6, SnapshotCases
  <2>2. state'[d] = "Established" /\ \A x \in Domain \ {d} : state'[x] = state[x]
    BY <1>0, <2>1
  <2>3. BornOnlyTo(d) /\ HoldsAfter(d)  BY <1>6, SnapshotBears, SnapshotHolds
  <2> QED  BY <1>3, <2>1, <2>2, <2>3
<1>7. ASSUME NEW d \in Domain, HelloEstablishes(d) \/ Activate(d)
      PROVE  OneOpen' /\ OpenAttemptHoldsLane'
  <2>1. NoneBorn  BY <1>7, StepsWithoutBirth
  <2>2. UNCHANGED identityVars
        /\ \E fact : lifecycle' = [lifecycle EXCEPT ![laneOf[d]] = fact]
    <3>1. UNCHANGED identityVars /\ \E fact : SetLifecycle(laneOf[d], fact)
      <4>1. CASE HelloEstablishes(d)  BY <4>1 DEF HelloEstablishes
      <4>2. CASE Activate(d)
        <5>1. \E fact : SetLifecycle(laneOf[d], fact)  BY <4>2, Zenon DEF Activate
        <5> QED  BY <4>2, <5>1 DEF Activate
      <4> QED  BY <1>7, <4>1, <4>2
    <3> QED  BY <3>1 DEF SetLifecycle
  <2>3. /\ HoldsAfter(d)
        /\ \A x \in Domain \ {d} : state'[x] = "Established" =>
              state[x] = "Established" /\ laneOf[x] # laneOf[d]
    BY <1>7, HelloHolds, ActivateHolds
  <2>4. \E fact : lifecycle' \in {lifecycle, [lifecycle EXCEPT ![laneOf[d]] = fact]}
    BY <2>2
  <2>5. UNCHANGED identityVars  BY <2>2
  <2>6. HoldsAfter(d)  BY <2>3
  <2>7. \A x \in Domain \ {d} : state'[x] = "Established" =>
              state[x] = "Established" /\ laneOf[x] # laneOf[d]
    BY <2>3
  <2> QED  BY <2>1, <2>4, <2>5, <2>6, <2>7, OneShellMoves
\* Steps that open nothing and hold no lane.
<1>8. ASSUME NEW d \in Domain, IsTop(d), UNCHANGED identityVars, NoneBorn,
             NEW st, st # "Established", state' = [state EXCEPT ![d] = st],
             NEW fact, lifecycle' = [lifecycle EXCEPT ![laneOf[d]] = fact]
      PROVE  OneOpen' /\ OpenAttemptHoldsLane'
  <2>1. state'[d] # "Established" /\ \A x \in Domain \ {d} : state'[x] = state[x]
    BY <1>0, <1>8
  <2>2. HoldsAfter(d)  BY <2>1 DEF HoldsAfter
  <2> QED  BY <1>3, <1>8, <2>1, <2>2
<1>9. ASSUME NEW d \in Domain, NEW st \in {"Desynchronized", "Suspended"}, TopFalls(d, st)
      PROVE  OneOpen' /\ OpenAttemptHoldsLane'
  <2>1. NoneBorn  BY <1>9, StepsWithoutBirth
  <2> QED  BY <1>8, <1>9, <2>1 DEF TopFalls
<1>10. ASSUME NEW d \in Domain, TopEnds(d)
       PROVE  OneOpen' /\ OpenAttemptHoldsLane'
  <2>1. NoneBorn  BY <1>10, StepsWithoutBirth
  <2> QED  BY <1>8, <1>10, <2>1 DEF TopEnds, EndDomain, SetLifecycle
<1>11. ASSUME NEW l \in Lane, RecoverLane(l)
       PROVE  OneOpen' /\ OpenAttemptHoldsLane'
  <2>1. /\ lifecycle' = [lifecycle EXCEPT ![l] = Fact("Native", None, None)]
        /\ lifecycle[l].state = "Lost" /\ UNCHANGED <<identityVars, state>>
    BY <1>11 DEF RecoverLane, SetLifecycle
  <2>2. NoneBorn  BY <1>11, StepsWithoutBirth
  <2>3. Top(l) = None  BY <2>1 DEF FactMatchesStack
  <2>4. \A x \in Domain : state[x] = "Established" => laneOf[x] \in Lane /\ laneOf[x] # l
    BY <2>3, HolderTops, NoneAssumption DEF IsTop
  <2>5. \A x \in Domain : state'[x] = "Established" =>
            /\ state[x] = "Established"
            /\ lifecycle'[laneOf[x]] = lifecycle[laneOf[x]]
    BY <1>0, <2>1, <2>4
  <2> QED  BY <2>1, <2>2, <2>5, NothingOpened DEF identityVars
<1>12. ASSUME Quiet \/ \E a \in Attempt : AbandonAttempt(a)
       PROVE  OneOpen' /\ OpenAttemptHoldsLane'
  <2>1. NoneBorn  BY <1>12, StepsWithoutBirth
  <2>2. UNCHANGED <<identityVars, state, lifecycle>>
    BY <1>12 DEF Quiet, AbandonAttempt
  <2> QED  BY <2>1, <2>2, NothingOpened DEF identityVars
<1> QED
  BY NextCases, LossHolds, <1>1, <1>2, <1>4, <1>5, <1>6, <1>7, <1>9, <1>10, <1>11, <1>12

-----------------------------------------------------------------------------
(* Epochs, and the command that runs.                                      *)

\* Only a request makes a domain Pending, and its epoch is above the counter.
MintsAbove ==
    /\ epochCounter' \in Nat /\ EpochsCounted'
    /\ \A d \in Domain : state[d] # "Unminted" => epoch'[d] = epoch[d]
    /\ \A d \in Domain : state[d] = "Unminted" /\ state'[d] = "Pending" =>
          epochCounter < epoch'[d]

\* MintsAbove holds of every step.
LEMMA NextEpochs == ASSUME IInv, EpochsCounted, Next PROVE MintsAbove
<1>0. /\ state \in [Domain -> DomainState] /\ epoch \in [Domain -> Nat]
      /\ epochCounter \in Nat
  BY DEF IInv, TypeOK
<1>1. ASSUME UNCHANGED identityVars,
             \A d \in Domain : state'[d] = "Pending" => state[d] = "Pending"
      PROVE  MintsAbove
  BY <1>0, <1>1 DEF MintsAbove, EpochsCounted, identityVars
<1>2. ASSUME NEW d \in Domain, NEW l, NEW t, NEW p, RequestDomain(d, l, p, t)
      PROVE  MintsAbove
  <2>1. /\ state[d] = "Unminted" /\ state' = [state EXCEPT ![d] = "Pending"]
        /\ epochCounter' = epochCounter + 1
        /\ epoch' = [epoch EXCEPT ![d] = epochCounter + 1]
    BY <1>2 DEF RequestDomain, Register
  <2>2. \A x \in Domain : epoch'[x] = IF x = d THEN epochCounter + 1 ELSE epoch[x]
    BY <1>0, <2>1
  <2>3. \A x \in Domain : epoch[x] \in Nat /\ epoch[x] <= epochCounter
    BY <1>0 DEF EpochsCounted
  <2>4. \A x \in Domain \ {d} : state'[x] = state[x]  BY <1>0, <2>1
  <2> QED  BY <1>0, <2>1, <2>2, <2>3, <2>4 DEF MintsAbove, EpochsCounted
<1>3. ASSUME NEW d \in Domain, NEW l, NEW t, NEW e \in 1 .. MaxEpoch,
             AdoptDomain(d, l, t, e)
      PROVE  MintsAbove
  <2>1. /\ state[d] = "Unminted" /\ state' = [state EXCEPT ![d] = "Established"]
        /\ epochCounter' = IF e > epochCounter THEN e ELSE epochCounter
        /\ epoch' = [epoch EXCEPT ![d] = e]
    BY <1>3 DEF AdoptDomain, Register
  <2>2. \A x \in Domain : epoch'[x] = IF x = d THEN e ELSE epoch[x]
    BY <1>0, <2>1
  <2>3. \A x \in Domain : epoch[x] \in Nat /\ epoch[x] <= epochCounter
    BY <1>0 DEF EpochsCounted
  <2>4. \A x \in Domain : state'[x] = "Pending" => state[x] = "Pending"
    BY <1>0, <2>1
  <2>5. e \in Nat  BY NumbersAssumption
  <2> QED  BY <1>0, <2>1, <2>2, <2>3, <2>4, <2>5 DEF MintsAbove, EpochsCounted
<1>4. ASSUME NEW d \in Domain, NEW st \in {"Established", "Desynchronized", "Suspended", "Closed"},
             UNCHANGED identityVars, state' = [state EXCEPT ![d] = st]
      PROVE  MintsAbove
  <2>1. \A x \in Domain : state'[x] = "Pending" => state[x] = "Pending"  BY <1>0, <1>4
  <2> QED  BY <1>1, <1>4, <2>1
<1>5. ASSUME NEW t \in Transport, TransportLost(t) PROVE MintsAbove
  <2>1. PICK dead :
            /\ state' = [x \in Domain |-> IF x \in dead THEN "Lost" ELSE state[x]]
            /\ UNCHANGED identityVars
    BY <1>5 DEF TransportLost
  <2> QED  BY <1>1, <2>1
<1>6. ASSUME NEW d \in Domain, Activate(d) PROVE MintsAbove
  <2>1. PICK above :
            /\ state' = [x \in Domain |-> IF x \in above THEN "Closed"
                               ELSE IF x = d THEN "Established" ELSE state[x]]
            /\ UNCHANGED identityVars
    BY <1>6 DEF Activate
  <2> QED  BY <1>1, <2>1
<1>7. ASSUME NEW d \in Domain,
             \/ TopEnds(d) \/ HelloEstablishes(d)
             \/ \E st \in {"Desynchronized", "Suspended"} : TopFalls(d, st)
      PROVE  MintsAbove
  BY <1>4, <1>7 DEF TopEnds, EndDomain, HelloEstablishes, TopFalls
<1>8. ASSUME NEW d \in Domain, NEW r, NEW active, NEW last, Snapshot(d, r, active, last)
      PROVE  MintsAbove
  BY <1>4, <1>8, SnapshotCases
<1>9. ASSUME \/ Quiet
             \/ \E l \in Lane : RecoverLane(l)
             \/ \E a \in Attempt, d \in Domain : SubmitAttempt(d, a)
             \/ \E a \in Attempt : AbandonAttempt(a)
             \/ \E d \in Domain, a \in Attempt \cup {None} : FrameOf(d, a)
      PROVE  MintsAbove
  <2>1. UNCHANGED <<identityVars, state>>
    BY <1>9, FrameSpeaker DEF Quiet, RecoverLane, SubmitAttempt, AbandonAttempt
  <2> QED  BY <1>1, <2>1
<1> QED  BY NextCases, <1>2, <1>3, <1>5, <1>6, <1>7, <1>8, <1>9

\* RunningCommandKept, for one attempt.
Forgotten(a) ==
    LET d == attempt[a].domain IN
    /\ attempt[a].state = "Open" /\ attempt[a].started
    /\ attempt'[a].state = "Unknown"
    /\ ~adopted[d] /\ state[d] \in {"Established", "Suspended"}
    /\ state'[d] \in Live

\* A shell's settling of another's attempts, or of those of dead shells.
LEMMA OutlivedNotForgotten ==
    ASSUME IInv, OpenIsOwned, NEW D, attempt' = UnknownOpenAttempts(D),
           \A x \in Domain \cap D : state'[x] \notin Live
    PROVE  \A a \in Attempt : ~Forgotten(a)
BY DEF IInv, TypeOK, UnknownOpenAttempts, AttemptRecord, Forgotten, OpenIsOwned

\* Only AbandonAttempt forgets a command its live shell runs.
LEMMA NextForgets ==
    ASSUME IInv, Attempts, Next, NEW a \in Attempt, Forgotten(a)
    PROVE  AbandonAttempt(a)
<1> USE DEF Attempts
<1> DEFINE d == attempt[a].domain
<1>0. /\ d \in Domain /\ a \in OpenAttempts(d) /\ attempt'[a] # attempt[a]
      /\ attempt \in [Attempt -> AttemptRecord]
  BY DEF Forgotten, OpenIsOwned, OpenAttempts, IInv, TypeOK
<1>1. CASE UNCHANGED attempt  BY <1>0, <1>1
<1>2. ASSUME NEW x \in Domain, TopEnds(x) PROVE FALSE
  <2>1. attempt' = UnknownOpenAttempts({x}) /\ state'[x] \notin Live
    BY <1>2 DEF TopEnds, EndDomain, Live, IInv, TypeOK
  <2>2. \A b \in Attempt : ~Forgotten(b)  BY <2>1, OutlivedNotForgotten
  <2> QED  BY <2>2
<1>3. ASSUME NEW t \in Transport, TransportLost(t) PROVE FALSE
  <2>1. PICK dead :
            /\ state' = [x \in Domain |-> IF x \in dead THEN "Lost" ELSE state[x]]
            /\ attempt' = UnknownOpenAttempts(dead)
    BY <1>3 DEF TransportLost
  <2>2. \A x \in Domain \cap dead : state'[x] \notin Live  BY <2>1 DEF Live
  <2>3. \A b \in Attempt : ~Forgotten(b)  BY <2>1, <2>2, OutlivedNotForgotten
  <2> QED  BY <2>3
<1>4. ASSUME NEW x \in Domain, Activate(x) PROVE FALSE
  <2>1. PICK above :
            /\ state' = [y \in Domain |-> IF y \in above THEN "Closed"
                               ELSE IF y = x THEN "Established" ELSE state[y]]
            /\ attempt' = UnknownOpenAttempts(above)
    BY <1>4 DEF Activate
  <2>2. \A y \in Domain \cap above : state'[y] \notin Live  BY <2>1 DEF Live
  <2>3. \A b \in Attempt : ~Forgotten(b)  BY <2>1, <2>2, OutlivedNotForgotten
  <2> QED  BY <2>3
<1>5. ASSUME NEW b \in Attempt, AbandonAttempt(b) PROVE AbandonAttempt(a)
  <2>1. \A c \in Attempt \ {b} : attempt'[c] = attempt[c]
    BY <1>0, <1>5 DEF AbandonAttempt
  <2> QED  BY <1>0, <1>5, <2>1
\* A submit closes an attempt that has not started, and so does a prompt.
<1>6. ASSUME NEW b \in Attempt, NEW x \in Domain, SubmitAttempt(x, b) PROVE FALSE
  <2>1. /\ attempt'[b] = NewAttempt(x, "Open", FALSE) /\ state[x] = "Established"
        /\ \/ \A c \in Attempt \ {b} : attempt'[c] = attempt[c]
           \/ \E open \in OpenAttempts(x) :
                 /\ \A c \in Attempt \ {b, open} : attempt'[c] = attempt[c]
                 /\ lifecycle[laneOf[x]].state = "PromptReady" \/ ~attempt[open].started
    BY <1>6, SubmitBears, ZenonT(60)
  <2>2. a # b  BY <2>1 DEF Forgotten, NewAttempt, NoAttemptRecord
  <2>3. PICK open \in OpenAttempts(x) :
            /\ \A c \in Attempt \ {b, open} : attempt'[c] = attempt[c]
            /\ lifecycle[laneOf[x]].state = "PromptReady" \/ ~attempt[open].started
    BY <1>0, <2>1, <2>2
  <2>4. a = open  BY <1>0, <2>2, <2>3
  <2>5. d = x /\ attempt[a].started /\ ~adopted[x]
    BY <2>3, <2>4 DEF OpenAttempts, Forgotten
  <2>6. lifecycle[laneOf[x]] = Fact("Running", x, a)
    BY <2>1, <2>3, <2>4, <2>5 DEF OpenAttemptHoldsLane
  <2> QED  BY <2>3, <2>4, <2>5, <2>6 DEF Fact
<1>7. ASSUME NEW x \in Domain, NEW b \in Attempt \cup {None}, FrameOf(x, b) PROVE FALSE
  <2>1. CASE PromptReady(x)
    <3>1. \/ UNCHANGED attempt
          \/ \E open \in OpenAttempts(x) :
                /\ ~attempt[open].started
                /\ \/ attempt' = [attempt EXCEPT ![open].state = "Unknown"]
                   \/ attempt' = [attempt EXCEPT ![open].primed = TRUE]
      BY <2>1, Zenon DEF PromptReady
    <3>2. PICK open \in OpenAttempts(x) :
              /\ ~attempt[open].started
              /\ \/ attempt' = [attempt EXCEPT ![open].state = "Unknown"]
                 \/ attempt' = [attempt EXCEPT ![open].primed = TRUE]
      BY <1>0, <3>1
    <3>3. a # open  BY <3>2 DEF Forgotten
    <3> QED  BY <1>0, <3>2, <3>3
  <2>2. CASE StartAttaches(x, b) \/ CompleteOpen(x, b)
    <3>1. \/ \E open \in OpenAttempts(x) :
                attempt' = [attempt EXCEPT ![open].started = TRUE, ![open].shellID = b]
          \/ \E open \in OpenAttempts(x) :
                attempt' = [attempt EXCEPT ![open].state = "Completed"]
      BY <2>2 DEF StartAttaches, CompleteOpen
    <3>2. PICK open \in OpenAttempts(x) :
              \/ attempt' = [attempt EXCEPT ![open].started = TRUE, ![open].shellID = b]
              \/ attempt' = [attempt EXCEPT ![open].state = "Completed"]
      BY <1>0, <3>1
    <3>3. open \in Attempt /\ attempt[open] \in AttemptRecord
          /\ attempt[open].state = "Open"
      BY <1>0 DEF OpenAttempts
    <3>4. attempt'[open].state # "Unknown"
      BY <1>0, <3>2, <3>3 DEF AttemptRecord
    <3>5. a # open  BY <3>4 DEF Forgotten
    <3>6. attempt'[a] = attempt[a]  BY <1>0, <3>2, <3>5
    <3> QED  BY <1>0, <3>6
  <2>3. CASE \/ b \in Attempt /\ (StartOpens(x, b) \/ CompleteRebuilds(x, b))
             \/ b \in ShellAttempt /\ CompleteRefused(x, b)
    <3>1. \E st \in {"Open", "Completed"} :
              attempt' = [attempt EXCEPT ![b] = NewAttempt(x, st, TRUE)]
      BY <2>3 DEF StartOpens, CompleteRebuilds, CompleteRefused
    <3> QED  BY <1>0, <3>1 DEF Forgotten, NewAttempt, NoAttemptRecord
  <2> QED  BY <1>7, <2>1, <2>2, <2>3 DEF FrameOf
<1>8. ASSUME NEW x \in Domain, NEW r, NEW active \in ShellAttempt \cup {None},
             NEW last \in ShellAttempt \cup {None}, Snapshot(x, r, active, last)
      PROVE  FALSE
  <2>1. state[x] = "Desynchronized"  BY <1>8, SnapshotCases
  <2>2. a \notin OpenAttempts(x)  BY <2>1 DEF OpenAttempts, Forgotten
  <2>3. PICK c \in Attempt \cup {None} :
            /\ c \in Attempt => \/ c \in OpenAttempts(x) /\ attempt'[c] = attempt[c]
                                \/ ~Minted(c) /\ attempt'[c] = NewAttempt(x, "Open", TRUE)
            /\ \A b \in Attempt \ (OpenAttempts(x) \cup {c}) : attempt'[b] = attempt[b]
    BY <1>8, SnapshotAttempts
  <2>4. a # c  BY <2>2, <2>3 DEF Forgotten, Minted
  <2> QED  BY <1>0, <2>2, <2>3, <2>4
<1>9. ASSUME \/ Quiet
             \/ \E x \in Domain, l \in Lane, t \in Transport, p \in Domain \cup {None} :
                   RequestDomain(x, l, p, t)
             \/ \E x \in Domain, l \in Lane, t \in Transport, e \in 1 .. MaxEpoch :
                   AdoptDomain(x, l, t, e)
             \/ \E x \in Domain, st \in {"Desynchronized", "Suspended"} : TopFalls(x, st)
             \/ \E l \in Lane : RecoverLane(l)
             \/ \E x \in Domain : HelloEstablishes(x)
      PROVE  UNCHANGED attempt
  BY <1>9
  DEF Quiet, RequestDomain, AdoptDomain, TopFalls, RecoverLane, HelloEstablishes
<1> QED
  BY NextCases, <1>1, <1>2, <1>3, <1>4, <1>5, <1>6, <1>7, <1>8, <1>9

-----------------------------------------------------------------------------
(* The theorems.                                                           *)

\* The kernel starts with no shell, no attempt and every lane Native.
LEMMA InitKInv == Init => KInv
<1> SUFFICES ASSUME Init PROVE KInv  OBVIOUS
<1>1. IInv  BY InitInv
<1>2. FactMatchesStack  BY DEF Init, FactMatchesStack, Top, Fact
<1>3. Attempts
  <2>1. \A a \in Attempt : /\ attempt[a].state = "Unminted" /\ ~Known(attempt[a], a)
    BY DEF Init, NoAttemptRecord, Known
  <2>2. \A d \in Domain : OpenAttempts(d) = {}  BY <2>1 DEF OpenAttempts
  <2> QED
    BY <2>1, <2>2 DEF Attempts, OpenIsOwned, OneOpen, OpenAttemptHoldsLane, StartsKnown
<1>4. EpochsCounted  BY DEF Init, EpochsCounted
<1> QED  BY <1>1, <1>2, <1>3, <1>4 DEF KInv

\* Every step of the kernel keeps KInv.
LEMMA NextKInv == KInv /\ [Next]_vars => KInv'
<1> SUFFICES ASSUME KInv, [Next]_vars PROVE KInv'  OBVIOUS
<1> USE DEF KInv
<1>1. CASE Next
  <2>1. IInv'  BY <1>1, NextType, NextStructure DEF IInv
  <2>2. FactMatchesStack'  BY <1>1, NextFact
  <2>3. OpenIsOwned' /\ StartsKnown'  BY <1>1, NextOwned, NextStarts DEF Attempts
  <2>4. OneOpen' /\ OpenAttemptHoldsLane'  BY <1>1, NextHolds
  <2>5. EpochsCounted'  BY <1>1, NextEpochs DEF MintsAbove
  <2> QED  BY <2>1, <2>2, <2>3, <2>4, <2>5 DEF Attempts
<1>2. CASE UNCHANGED vars
  <2> USE <1>2 DEF vars, identityVars, desyncVars, deliveryVars
  <2>1. IInv'
    BY DEF IInv, TypeOK, Structure, Registered, StackedOnce, StackIsParentChain,
           LiveIsStacked
  <2>2. FactMatchesStack'  BY DEF FactMatchesStack, Top
  <2>3. Attempts'
    BY DEF Attempts, OpenIsOwned, OneOpen, OpenAttemptHoldsLane, StartsKnown,
           OpenAttempts
  <2>4. EpochsCounted'  BY DEF EpochsCounted
  <2> QED  BY <2>1, <2>2, <2>3, <2>4
<1> QED  BY <1>1, <1>2

\* KInv holds in every behaviour of the kernel: what the lanes publish, what
\* the attempts are and the epochs minted, beside the structure of the stacks.
THEOREM KernelInvariant == Spec => []KInv
BY InitKInv, NextKInv, PTL DEF Spec

\* What a lane publishes about its authority is what its stack says, after
\* every order of losses, closes, activations, gaps and adoptions
\* (LaneLifecycleFact, setLifecycle and every handler that calls it).
THEOREM PublishedFactMatches == Spec => []FactMatchesStack
BY KernelInvariant, PTL DEF KInv

\* An open attempt belongs to a live shell: whatever ends a domain settles
\* its attempts in the same step (unknownOpenAttempts).
THEOREM OpenAttemptsHaveShells == Spec => []OpenAttemptsAreLive
<1>1. KInv => OpenAttemptsAreLive
  BY DEF KInv, Attempts, OpenIsOwned, OpenAttemptsAreLive
<1> QED  BY <1>1, KernelInvariant, PTL

\* A shell of this kernel's own runs one command at a time, its lane runs that
\* command, and nothing completes that did not start (SubmitAttempt,
\* applyStart, applyComplete, applyPromptReady, applySnapshot).
THEOREM OneCommandAtATime == Spec => []AttemptsKept
<1>1. KInv => AttemptsKept
  BY DEF KInv, Attempts, StartsKnown, Known, AttemptsKept, CompletedWasStarted
<1> QED  BY <1>1, KernelInvariant, PTL

\* A dead domain stays dead and a settled attempt settled: no late frame,
\* loss or submit reopens or resettles either.
THEOREM DeadStay == Spec => DeadStayDead
<1> DEFINE Stays ==
      /\ \A d \in Domain : state[d] \in Terminal => state'[d] \in Terminal
      /\ \A a \in Attempt : attempt[a].state \in {"Completed", "Unknown"} =>
            attempt'[a] = attempt[a]
<1>1. KInv /\ [Next]_vars => [Stays]_vars
  <2> SUFFICES ASSUME KInv, Next PROVE Stays  OBVIOUS
  <2>1. DomainsDieOnce /\ AttemptsLive
    BY NextDeaths, NextAttempts DEF KInv, Attempts
  <2>2. \A d \in Domain : state[d] \in Terminal => state'[d] \in Terminal
    BY <2>1 DEF DomainsDieOnce
  <2>3. ASSUME NEW a \in Attempt, attempt[a].state \in {"Completed", "Unknown"}
        PROVE  attempt'[a] = attempt[a]
    BY <2>1, <2>3 DEF AttemptsLive, Ages, Settled, Touched, BornTo, Minted
  <2> QED  BY <2>2, <2>3
<1> QED  BY <1>1, KernelInvariant, PTL DEF Spec, DeadStayDead

\* A domain is minted with an epoch above that of every domain this kernel
\* ever had, the adopted ones included (RequestDomain, adoptEpoch).
THEOREM EpochsAreFresh == Spec => FreshEpochs
<1> DEFINE AboveAll == \A d, e \in Domain :
      state[d] = "Unminted" /\ state'[d] = "Pending" /\ state[e] # "Unminted" =>
          epoch[e] < epoch'[d]
<1>1. KInv /\ [Next]_vars => [AboveAll]_vars
  <2> SUFFICES ASSUME KInv, Next, NEW d \in Domain, NEW e \in Domain,
                      state[d] = "Unminted", state'[d] = "Pending"
               PROVE  epoch[e] < epoch'[d]
    OBVIOUS
  <2>1. IInv /\ IInv' /\ MintsAbove
    BY NextEpochs, NextType, NextStructure DEF KInv, IInv
  <2>2. epoch[e] \in Nat /\ epochCounter \in Nat /\ epoch'[d] \in Nat
    BY <2>1 DEF IInv, TypeOK
  <2>3. epoch[e] <= epochCounter  BY DEF KInv, EpochsCounted
  <2>4. epochCounter < epoch'[d]  BY <2>1 DEF MintsAbove
  <2> QED  BY <2>2, <2>3, <2>4
<1> QED  BY <1>1, KernelInvariant, PTL DEF Spec, FreshEpochs

\* A command its shell runs is not forgotten while the shell lives and its
\* word is good: only the app's AbandonAttempt makes it Unknown.
THEOREM NoCommandForgotten == Spec => RunningCommandKept
<1> DEFINE Kept == \A a \in Attempt :
      LET d == attempt[a].domain IN
      /\ attempt[a].state = "Open" /\ attempt[a].started
      /\ attempt'[a].state = "Unknown"
      /\ ~adopted[d] /\ state[d] \in {"Established", "Suspended"}
      /\ state'[d] \in Live
      => AbandonAttempt(a)
<1>1. KInv /\ [Next]_vars => [Kept]_vars
  <2> SUFFICES ASSUME KInv, Next PROVE Kept  OBVIOUS
  <2>1. \A a \in Attempt : Forgotten(a) => AbandonAttempt(a)
    BY NextForgets DEF KInv
  <2> QED  BY <2>1, Zenon DEF Forgotten
<1> QED  BY <1>1, KernelInvariant, PTL DEF Spec, RunningCommandKept

-----------------------------------------------------------------------------
(* The kernel implements LaneAuthority.                                    *)

\* The speaker of a lane is the one shell of the lane that is Established.
SpeakersSpeak ==
    \A l \in Lane :
        /\ Speaker[l] \in Domain \cup {None}
        /\ \A d \in Domain : Speaker[l] = d <=> laneOf[d] = l /\ state[d] = "Established"

\* SpeakersSpeak follows from the structure of the stacks.
LEMMA SpeakersFit == IInv => SpeakersSpeak
<1> SUFFICES ASSUME IInv, NEW l \in Lane
             PROVE  /\ Speaker[l] \in Domain \cup {None}
                    /\ \A d \in Domain :
                          Speaker[l] = d <=> laneOf[d] = l /\ state[d] = "Established"
  BY DEF SpeakersSpeak
<1>1. stack[l] \in Seq(Domain)  BY DEF IInv, TypeOK
<1>2. Top(l) \in Domain \cup {None}
      /\ (Top(l) # None => laneOf[Top(l)] = l)
  <2>1. CASE stack[l] = <<>>  BY <2>1 DEF Top
  <2>2. CASE stack[l] # <<>>
    <3>1. Len(stack[l]) \in DOMAIN stack[l]  BY <1>1, <2>2
    <3> QED  BY <2>2, <3>1, EntryOfChain DEF Top
  <2> QED  BY <2>1, <2>2
<1>3. \A d \in Domain : laneOf[d] = l /\ state[d] = "Established" => Top(l) = d
  BY HolderTops
<1>4. Speaker[l] = IF Top(l) # None /\ state[Top(l)] = "Established"
                   THEN Top(l) ELSE None
  BY DEF Speaker
<1> HIDE DEF Top
<1> QED  BY <1>2, <1>3, <1>4, NoneAssumption

\* The same when the step is done.
LEMMA SpeakersFitAfter == IInv' => SpeakersSpeak'
BY SpeakersFit, PTL

\* Who speaks when a step is done, told from who is Established.
LEMMA SpeakersAfter ==
    ASSUME SpeakersSpeak', NEW f \in [Lane -> Domain \cup {None}],
           \A l \in Lane, d \in Domain :
               f[l] = d <=> laneOf'[d] = l /\ state'[d] = "Established"
    PROVE  Speaker' = f
<1>1. \A l \in Lane :
        /\ Speaker'[l] \in Domain \cup {None}
        /\ \A d \in Domain : Speaker'[l] = d <=> laneOf'[d] = l /\ state'[d] = "Established"
  BY DEF SpeakersSpeak
<1>2. \A l \in Lane : Speaker'[l] = f[l]  BY <1>1, NoneAssumption
<1>3. Speaker' = [l \in Lane |-> Speaker'[l]]  BY DEF Speaker
<1> QED  BY <1>2, <1>3

\* A step that makes no shell speak or cease to, and none live or dead.
LEMMA AuthorityStutters ==
    ASSUME SpeakersSpeak, SpeakersSpeak', UNCHANGED <<laneOf, state>>
    PROVE  UNCHANGED Authority!vars
<1>1. Speaker \in [Lane -> Domain \cup {None}]
      /\ \A l \in Lane, d \in Domain :
            Speaker[l] = d <=> laneOf'[d] = l /\ state'[d] = "Established"
  BY DEF SpeakersSpeak, Speaker
<1>2. Speaker' = Speaker  BY <1>1, SpeakersAfter
<1>3. Phase' = Phase  BY DEF Phase
<1> QED  BY <1>2, <1>3 DEF Authority!vars

\* RequestDomain expects a shell; nobody hears it yet.
LEMMA RequestExpects ==
    ASSUME IInv, SpeakersSpeak, SpeakersSpeak',
           NEW d \in Domain, NEW l \in Lane, NEW t, NEW p, RequestDomain(d, l, p, t)
    PROVE  Authority!Expect(d, l)
<1>1. /\ state[d] = "Unminted" /\ state' = [state EXCEPT ![d] = "Pending"]
      /\ laneOf' = [laneOf EXCEPT ![d] = l]
  BY DEF RequestDomain, Register
<1>2. laneOf[d] = None  BY <1>1 DEF IInv, Structure, Registered
<1>3. state \in [Domain -> DomainState] /\ laneOf \in [Domain -> Lane \cup {None}]
  BY DEF IInv, TypeOK
<1>4. Speaker \in [Lane -> Domain \cup {None}]
      /\ \A m \in Lane, x \in Domain :
            Speaker[m] = x <=> laneOf'[x] = m /\ state'[x] = "Established"
  <2>1. Speaker \in [Lane -> Domain \cup {None}]  BY DEF SpeakersSpeak, Speaker
  <2>2. ASSUME NEW m \in Lane, NEW x \in Domain
        PROVE  Speaker[m] = x <=> laneOf'[x] = m /\ state'[x] = "Established"
    <3>1. Speaker[m] = x <=> laneOf[x] = m /\ state[x] = "Established"
      BY DEF SpeakersSpeak
    <3>2. CASE x = d  BY <1>1, <1>3, <3>1, <3>2
    <3>3. CASE x # d  BY <1>1, <1>3, <3>1, <3>3
    <3> QED  BY <3>2, <3>3
  <2> QED  BY <2>1, <2>2
<1>5. Speaker' = Speaker  BY <1>4, SpeakersAfter
<1>6. Phase' = Phase
  <2>1. \A x \in Domain : state'[x] # state[x] =>
            state[x] = "Unminted" /\ state'[x] = "Pending"
    BY <1>1, <1>3
  <2>2. \A x \in Domain : /\ state'[x] \in Live <=> state[x] \in Live
                          /\ state'[x] \in Terminal <=> state[x] \in Terminal
    BY <2>1 DEF Live, Terminal
  <2> QED  BY <2>2 DEF Phase
<1> QED  BY <1>1, <1>2, <1>5, <1>6 DEF Authority!Expect

\* A shell is Established on a lane where nobody speaks: a hello, an adoption,
\* a snapshot or, together with the end of those above it, an activation.
LEMMA SpeaksUp ==
    ASSUME IInv, SpeakersSpeak, SpeakersSpeak', NEW d \in Domain, NEW l \in Lane,
           NEW above \in SUBSET Domain, d \notin above,
           \A x \in above : laneOf[x] = l,
           state[d] # "Established", Speaker[l] \in above \cup {None},
           laneOf'[d] = l, \A x \in Domain \ {d} : laneOf'[x] = laneOf[x],
           laneOf[d] \in {None, l},
           \A x \in Domain : state'[x] = IF x \in above THEN "Closed"
                                ELSE IF x = d THEN "Established" ELSE state[x]
    PROVE  /\ Speaker' = [Speaker EXCEPT ![l] = d]
           /\ \A x \in Domain : Phase'[x] = IF x \in above THEN "dead"
                                    ELSE IF x = d THEN "alive" ELSE Phase[x]
           /\ \A m \in Lane \ {l} : Speaker[m] \notin above
<1>1. Speaker \in [Lane -> Domain \cup {None}]  BY DEF SpeakersSpeak, Speaker
<1>2. ASSUME NEW m \in Lane, NEW x \in Domain
      PROVE  [Speaker EXCEPT ![l] = d][m] = x <=>
                 laneOf'[x] = m /\ state'[x] = "Established"
  <2>1. Speaker[m] = x <=> laneOf[x] = m /\ state[x] = "Established"
    BY DEF SpeakersSpeak
  <2>2. CASE x = d  BY <1>1, <2>1, <2>2
  <2>3. CASE x # d /\ m = l
    <3>1. laneOf'[x] = l => ~(state'[x] = "Established")
      <4>1. x \notin above /\ laneOf[x] = l => Speaker[l] # x
        BY NoneAssumption
      <4> QED  BY <2>1, <2>3, <4>1
    <3> QED  BY <1>1, <2>3, <3>1
  <2>4. CASE x # d /\ m # l  BY <1>1, <2>1, <2>4
  <2> QED  BY <2>2, <2>3, <2>4
<1>3. [Speaker EXCEPT ![l] = d] \in [Lane -> Domain \cup {None}]  BY <1>1
<1>4. Speaker' = [Speaker EXCEPT ![l] = d]  BY <1>2, <1>3, SpeakersAfter
<1>5. \A x \in Domain : Phase'[x] = IF x \in above THEN "dead"
                           ELSE IF x = d THEN "alive" ELSE Phase[x]
  BY DEF Phase, Live, Terminal
<1>6. \A m \in Lane \ {l} : Speaker[m] \notin above  BY DEF SpeakersSpeak
<1> QED  BY <1>4, <1>5, <1>6

\* Nobody speaks on a lane whose top is not Established.
LEMMA SilentTop ==
    ASSUME IInv, NEW l \in Lane,
           \/ stack[l] = <<>>
           \/ stack[l] # <<>> /\ state[stack[l][Len(stack[l])]] # "Established"
    PROVE  Speaker[l] = None
BY DEF Speaker, Top

\* An adoption begins, and so does a hello.
LEMMA NewShellBegins ==
    ASSUME IInv, SpeakersSpeak, SpeakersSpeak', NEW d \in Domain, NEW l \in Lane,
           state[d] \in {"Unminted", "Pending"}, laneOf[d] \in {None, l},
           Speaker[l] = None,
           laneOf' = [laneOf EXCEPT ![d] = l],
           state' = [state EXCEPT ![d] = "Established"]
    PROVE  Authority!Begin(d, l)
<1>1. state \in [Domain -> DomainState] /\ laneOf \in [Domain -> Lane \cup {None}]
  BY DEF IInv, TypeOK
<1> PICK above \in SUBSET Domain : above = {}  OBVIOUS
<1>2. laneOf'[d] = l /\ \A x \in Domain \ {d} : laneOf'[x] = laneOf[x]
  BY <1>1
<1>3. /\ Speaker' = [Speaker EXCEPT ![l] = d]
      /\ \A x \in Domain : Phase'[x] = IF x \in above THEN "dead"
                               ELSE IF x = d THEN "alive" ELSE Phase[x]
  <2>1. d \notin above /\ Speaker[l] \in above \cup {None}
        /\ \A x \in above : laneOf[x] = l
    OBVIOUS
  <2>2. state[d] # "Established"  OBVIOUS
  <2>3. \A x \in Domain : state'[x] = IF x \in above THEN "Closed"
                              ELSE IF x = d THEN "Established" ELSE state[x]
    BY <1>1
  <2> HIDE DEF Speaker, Phase
  <2> QED  BY <1>2, <2>1, <2>2, <2>3, SpeaksUp
<1>4. Phase' = [Phase EXCEPT ![d] = "alive"]
  BY <1>3 DEF Phase
<1>5. Phase[d] = "unborn"  BY DEF Phase, Live, Terminal
<1> QED  BY <1>3, <1>4, <1>5 DEF Authority!Begin

\* A hello begins a shell: its parent is Suspended or its lane empty.
LEMMA HelloBegins ==
    ASSUME IInv, SpeakersSpeak, SpeakersSpeak', NEW d \in Domain, HelloEstablishes(d)
    PROVE  Authority!Begin(d, laneOf[d])
<1>1. /\ state[d] = "Pending" /\ UNCHANGED identityVars /\ MayEstablish(d)
      /\ state' = [state EXCEPT ![d] = "Established"]
  BY DEF HelloEstablishes
<1>2. laneOf[d] \in Lane  BY <1>1 DEF IInv, Structure, Registered
<1>3. laneOf' = [laneOf EXCEPT ![d] = laneOf[d]]
  BY <1>1 DEF identityVars, IInv, TypeOK
<1>4. stack[laneOf[d]] # <<>> =>
          state[stack[laneOf[d]][Len(stack[laneOf[d]])]] = "Suspended"
  BY <1>1, NoneAssumption DEF MayEstablish, Top, IInv, TypeOK
<1>5. Speaker[laneOf[d]] = None  BY <1>2, <1>4, SilentTop
<1> QED  BY <1>1, <1>2, <1>3, <1>5, NewShellBegins

\* An adoption begins a shell on an empty lane.
LEMMA AdoptionBegins ==
    ASSUME IInv, SpeakersSpeak, SpeakersSpeak',
           NEW d \in Domain, NEW l \in Lane, NEW t, NEW e, AdoptDomain(d, l, t, e)
    PROVE  Authority!Begin(d, l)
<1>1. /\ state[d] = "Unminted" /\ stack[l] = <<>>
      /\ state' = [state EXCEPT ![d] = "Established"]
      /\ laneOf' = [laneOf EXCEPT ![d] = l]
  BY DEF AdoptDomain, Register
<1>2. laneOf[d] = None  BY <1>1 DEF IInv, Structure, Registered
<1>3. Speaker[l] = None  BY <1>1, SilentTop
<1> QED  BY <1>1, <1>2, <1>3, NewShellBegins

\* A gap and a suspension silence the speaker, and it lives on.
LEMMA FallYields ==
    ASSUME IInv, SpeakersSpeak, SpeakersSpeak',
           NEW d \in Domain, NEW st \in {"Desynchronized", "Suspended"}, TopFalls(d, st)
    PROVE  Authority!Yield(laneOf[d])
<1> DEFINE l == laneOf[d]
<1>1. /\ state[d] = "Established" /\ l \in Lane /\ laneOf' = laneOf
      /\ state' = [state EXCEPT ![d] = st]
  BY DEF TopFalls, IsTop, identityVars
<1>2. state \in [Domain -> DomainState]  BY DEF IInv, TypeOK
<1>3. Speaker \in [Lane -> Domain \cup {None}] /\ Speaker[l] = d
  BY <1>1 DEF SpeakersSpeak, Speaker
<1>4. ASSUME NEW m \in Lane, NEW x \in Domain
      PROVE  [Speaker EXCEPT ![l] = None][m] = x <=>
                 laneOf'[x] = m /\ state'[x] = "Established"
  <2>1. Speaker[m] = x <=> laneOf[x] = m /\ state[x] = "Established"
    BY DEF SpeakersSpeak
  <2>2. CASE m = l  BY <1>1, <1>2, <1>3, <2>1, <2>2, NoneAssumption
  <2>3. CASE m # l  BY <1>1, <1>2, <1>3, <2>1, <2>3
  <2> QED  BY <2>2, <2>3
<1>5. [Speaker EXCEPT ![l] = None] \in [Lane -> Domain \cup {None}]  BY <1>3
<1>6. Speaker' = [Speaker EXCEPT ![l] = None]  BY <1>4, <1>5, SpeakersAfter
<1>7. \A x \in Domain : /\ state'[x] \in Live <=> state[x] \in Live
                        /\ state'[x] \in Terminal <=> state[x] \in Terminal
  BY <1>1, <1>2 DEF Live, Terminal
<1>8. Phase' = Phase  BY <1>7 DEF Phase
<1>9. Speaker[l] # None  BY <1>3, NoneAssumption
<1> QED  BY <1>1, <1>6, <1>8, <1>9 DEF Authority!Yield

\* A close, a revocation and the loss of a transport end some shells.
LEMMA DeathEnds ==
    ASSUME IInv, SpeakersSpeak, SpeakersSpeak', NEW dead, NEW st \in Terminal,
           UNCHANGED laneOf,
           state' = [x \in Domain |-> IF x \in dead THEN st ELSE state[x]]
    PROVE  Authority!End(dead)
<1>1. Speaker \in [Lane -> Domain \cup {None}]  BY DEF SpeakersSpeak, Speaker
<1> DEFINE heard == [l \in Lane |-> IF Speaker[l] \in dead THEN None ELSE Speaker[l]]
<1>2. heard \in [Lane -> Domain \cup {None}]  BY <1>1
<1>3. ASSUME NEW l \in Lane, NEW x \in Domain
      PROVE  heard[l] = x <=> laneOf'[x] = l /\ state'[x] = "Established"
  <2>1. Speaker[l] = x <=> laneOf[x] = l /\ state[x] = "Established"
    BY DEF SpeakersSpeak
  <2>2. st # "Established"  BY DEF Terminal
  <2> QED  BY <2>1, <2>2, NoneAssumption
<1>4. Speaker' = heard
  <2> HIDE DEF heard
  <2> QED  BY <1>2, <1>3, SpeakersAfter
<1>5. Phase' = [x \in Domain |-> IF x \in dead THEN "dead" ELSE Phase[x]]
  BY DEF Phase, Live, Terminal
<1> QED  BY <1>4, <1>5 DEF Authority!End

\* A parent that outlived its children resumes, and they end with that.
LEMMA ActivationResumes ==
    ASSUME IInv, SpeakersSpeak, SpeakersSpeak', NEW d \in Domain, Activate(d)
    PROVE  \E above \in SUBSET Domain : Authority!Resume(d, laneOf[d], above)
<1> DEFINE l == laneOf[d]
           s == stack[l]
<1>1. l \in Lane /\ s \in Seq(Domain) /\ state[d] = "Suspended" /\ laneOf' = laneOf
  BY DEF Activate, IInv, TypeOK, Structure, LiveIsStacked, Live, identityVars
<1>2. PICK at \in 1 .. Len(s) :
         /\ s[at] = d
         /\ \A i \in 1 .. Len(s) : s[i] = d <=> i = at
         /\ LET above == {s[i] : i \in {j \in DOMAIN s : j > at}}
            IN  state' = [x \in Domain |-> IF x \in above THEN "Closed"
                              ELSE IF x = d THEN "Established" ELSE state[x]]
  BY ActivateCuts
<1> DEFINE above == {s[i] : i \in {j \in DOMAIN s : j > at}}
<1>3. \A x \in Domain : state'[x] = IF x \in above THEN "Closed"
                            ELSE IF x = d THEN "Established" ELSE state[x]
  BY <1>2
<1>4. above \in SUBSET Domain /\ d \notin above  BY <1>1, <1>2
<1>5. \A x \in above : laneOf[x] = l  BY <1>1, EntryOfChain
<1>6. Speaker[l] \in above \cup {None}
  <2>1. CASE Speaker[l] = None  BY <2>1
  <2>2. CASE Speaker[l] # None
    <3>1. Speaker[l] = s[Len(s)] /\ s # <<>> /\ state[s[Len(s)]] = "Established"
      BY <1>1, <2>2 DEF Speaker, Top
    <3>2. Len(s) \in DOMAIN s /\ Len(s) # at /\ DOMAIN s = 1 .. Len(s)
      BY <1>1, <1>2, <3>1
    <3>3. Len(s) \in Nat /\ Len(s) > at
      <4>1. Len(s) \in Nat  BY <1>1
      <4> HIDE DEF s
      <4> QED  BY <1>2, <3>2, <4>1
    <3> HIDE DEF s
    <3> QED  BY <3>1, <3>2, <3>3
  <2> QED  BY <2>1, <2>2
<1> HIDE DEF above, s
<1>7. /\ Speaker' = [Speaker EXCEPT ![l] = d]
      /\ \A x \in Domain : Phase'[x] = IF x \in above THEN "dead"
                               ELSE IF x = d THEN "alive" ELSE Phase[x]
      /\ \A m \in Lane \ {l} : Speaker[m] \notin above
  <2>1. state[d] # "Established"  BY <1>1
  <2>2. laneOf'[d] = l /\ \A x \in Domain \ {d} : laneOf'[x] = laneOf[x]  BY <1>1
  <2>3. laneOf[d] \in {None, l}  OBVIOUS
  <2> QED  BY <1>1, <1>3, <1>4, <1>5, <1>6, <2>1, <2>2, <2>3, SpeaksUp
<1>8. Phase[d] = "alive"  BY <1>1 DEF Phase, Live
<1>9. Phase' = [x \in Domain |-> IF x \in above THEN "dead" ELSE Phase[x]]
  BY <1>4, <1>7, <1>8 DEF Phase
<1>10. Authority!Resume(d, l, above)
  BY <1>1, <1>4, <1>6, <1>7, <1>8, <1>9 DEF Authority!Resume
<1> QED  BY <1>4, <1>10

\* A snapshot gives the top of a lane, nobody speaking, its lane back.
LEMMA SnapshotResumes ==
    ASSUME IInv, SpeakersSpeak, SpeakersSpeak', NEW d \in Domain, NEW r, NEW active,
           NEW last, Snapshot(d, r, active, last)
    PROVE  \E none \in SUBSET Domain : Authority!Resume(d, laneOf[d], none)
<1> DEFINE l == laneOf[d]
<1>1. /\ state[d] = "Desynchronized" /\ IsTop(d) /\ laneOf' = laneOf
      /\ state' = [state EXCEPT ![d] = "Established"]
  BY SnapshotCases DEF identityVars
<1>2. l \in Lane  BY <1>1 DEF IsTop
<1>3. Speaker[l] = None  BY <1>1, <1>2, SilentTop DEF IsTop
<1> PICK none \in SUBSET Domain : none = {}  OBVIOUS
<1>4. /\ Speaker' = [Speaker EXCEPT ![l] = d]
      /\ \A x \in Domain : Phase'[x] = IF x \in none THEN "dead"
                               ELSE IF x = d THEN "alive" ELSE Phase[x]
  <2>1. d \notin none /\ Speaker[l] \in none \cup {None}
        /\ \A x \in none : laneOf[x] = l
    BY <1>3
  <2>2. state[d] # "Established"  BY <1>1
  <2>3. \A x \in Domain : state'[x] = IF x \in none THEN "Closed"
                              ELSE IF x = d THEN "Established" ELSE state[x]
    BY <1>1 DEF IInv, TypeOK
  <2>4. laneOf'[d] = l /\ \A x \in Domain \ {d} : laneOf'[x] = laneOf[x]  BY <1>1
  <2> HIDE DEF Speaker, Phase
  <2> QED  BY <1>2, <2>1, <2>2, <2>3, <2>4, SpeaksUp
<1>5. Phase[d] = "alive"  BY <1>1 DEF Phase, Live
<1>6. Phase' = [x \in Domain |-> IF x \in none THEN "dead" ELSE Phase[x]]
  BY <1>4, <1>5 DEF Phase
<1> QED  BY <1>1, <1>2, <1>3, <1>4, <1>5, <1>6 DEF Authority!Resume

\* The kernel implements LaneAuthority: whatever happens, on every lane one
\* shell speaks at most, the word never passes straight between two living
\* shells, and what has ended never speaks again.
THEOREM RefinesLaneAuthority == Spec => ImplementsLaneAuthority
<1>1. Init => Authority!Init
  BY DEF Init, Authority!Init, Phase, Speaker, Top, Live, Terminal
<1>2. IInv /\ IInv' /\ [Next]_vars => [Authority!Next]_(Authority!vars)
  <2> SUFFICES ASSUME IInv, IInv', [Next]_vars
               PROVE  Authority!Next \/ UNCHANGED Authority!vars
    OBVIOUS
  <2>0. SpeakersSpeak /\ SpeakersSpeak'  BY SpeakersFit, SpeakersFitAfter
  <2>1. ASSUME UNCHANGED <<laneOf, state>> PROVE UNCHANGED Authority!vars
    BY <2>0, <2>1, AuthorityStutters
  <2>2. CASE Next
    <3>1. ASSUME \/ Quiet
                 \/ \E l \in Lane : RecoverLane(l)
                 \/ \E a \in Attempt, d \in Domain : SubmitAttempt(d, a)
                 \/ \E a \in Attempt : AbandonAttempt(a)
                 \/ \E d \in Domain, a \in Attempt \cup {None} : FrameOf(d, a)
          PROVE  UNCHANGED Authority!vars
      BY <2>1, <3>1, FrameSpeaker
      DEF Quiet, RecoverLane, SubmitAttempt, AbandonAttempt, identityVars
    <3>2. ASSUME NEW d \in Domain, NEW l \in Lane, NEW t \in Transport,
                 \/ \E p \in Domain \cup {None} : RequestDomain(d, l, p, t)
                 \/ \E e \in 1 .. MaxEpoch : AdoptDomain(d, l, t, e)
          PROVE  Authority!Next
      <4>1. Authority!Expect(d, l) \/ Authority!Begin(d, l)
        BY <2>0, <3>2, RequestExpects, AdoptionBegins
      <4> QED  BY <4>1 DEF Authority!Next
    <3>3. ASSUME NEW d \in Domain,
                 \E st \in {"Desynchronized", "Suspended"} : TopFalls(d, st)
          PROVE  Authority!Next
      <4>1. laneOf[d] \in Lane  BY <3>3 DEF TopFalls, IsTop
      <4>2. Authority!Yield(laneOf[d])  BY <2>0, <3>3, FallYields
      <4> QED  BY <4>1, <4>2 DEF Authority!Next
    <3>4. ASSUME NEW d \in Domain, TopEnds(d) PROVE Authority!Next
      <4>1. /\ UNCHANGED laneOf
            /\ state' = [x \in Domain |-> IF x \in {d} THEN "Closed" ELSE state[x]]
        BY <3>4 DEF TopEnds, EndDomain, identityVars, IInv, TypeOK
      <4> DEFINE dead == {d}
      <4>2. dead \in SUBSET Domain  OBVIOUS
      <4>3. PICK st \in Terminal : st = "Closed"  BY DEF Terminal
      <4>4. state' = [x \in Domain |-> IF x \in dead THEN st ELSE state[x]]
        BY <4>1, <4>3
      <4> HIDE DEF dead
      <4>5. Authority!End(dead)  BY <2>0, <4>1, <4>4, DeathEnds
      <4> QED  BY <4>2, <4>5 DEF Authority!Next
    <3>5. ASSUME NEW t \in Transport, TransportLost(t) PROVE Authority!Next
      <4>1. PICK dead :
                /\ dead \in SUBSET Domain
                /\ state' = [x \in Domain |-> IF x \in dead THEN "Lost" ELSE state[x]]
        BY <3>5 DEF TransportLost, Cascade
      <4>2. UNCHANGED laneOf  BY <3>5 DEF TransportLost, identityVars
      <4>3. PICK st \in Terminal :
                state' = [x \in Domain |-> IF x \in dead THEN st ELSE state[x]]
        BY <4>1 DEF Terminal
      <4>4. Authority!End(dead)  BY <2>0, <4>2, <4>3, DeathEnds
      <4> QED  BY <4>1, <4>4 DEF Authority!Next
    <3>6. ASSUME NEW d \in Domain,
                 \/ HelloEstablishes(d) \/ Activate(d)
                 \/ \E r \in 1 .. MaxDesyncEpisodes :
                       \E active, last \in ShellAttempt \cup {None} :
                          Snapshot(d, r, active, last)
          PROVE  Authority!Next
      <4>1. laneOf[d] \in Lane
        <5>1. state[d] # "Unminted"
          BY <3>6 DEF HelloEstablishes, Activate, Snapshot
        <5> QED  BY <5>1 DEF IInv, Structure, Registered
      <4>2. \/ Authority!Begin(d, laneOf[d])
            \/ \E ended \in SUBSET Domain : Authority!Resume(d, laneOf[d], ended)
        BY <2>0, <3>6, HelloBegins, ActivationResumes, SnapshotResumes
      <4> QED  BY <4>1, <4>2 DEF Authority!Next
    <3> QED  BY <2>2, NextCases, <3>1, <3>2, <3>3, <3>4, <3>5, <3>6
  <2>3. CASE UNCHANGED vars
    BY <2>1, <2>3 DEF vars, identityVars
  <2> QED  BY <2>2, <2>3
<1> QED
  BY <1>1, <1>2, InductiveInvariant, PTL
  DEF Spec, ImplementsLaneAuthority, Authority!Spec

=============================================================================
