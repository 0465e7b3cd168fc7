------------------------ MODULE FailureDomainsProofs ------------------------
(***************************************************************************)
(* Proofs about FailureDomains: for any calls, domains and options, every  *)
(* permit, abandonment and wake-up is accounted for.                       *)
(*                                                                         *)
(* The counts of a domain are cardinalities of sets of calls, and each     *)
(* step moves one call into or out of one of these sets.  What the counts  *)
(* alone do not say is which of the two sides of Do's atomic still has the *)
(* permit (Phases), and that a call that stopped waiting was counted as    *)
(* one (WaitersCounted): without it a waiter's decrement could meet zero.  *)
(***************************************************************************)
EXTENDS FailureDomains, FiniteSetTheorems, TLAPS

\* The late workers that were counted abandoned, and those that were back
\* before their call counted them.
Counted(k) == {c \in Call : key[c] = k /\ state[c] = callSettled
                            /\ pc[c] = "done" /\ worker[c] # "gone"}
Early(k) == {c \in Call : key[c] = k /\ pc[c] = "abandoning" /\ worker[c] = "gone"}
CountedAll == {c \in Call : state[c] = callSettled /\ pc[c] = "done" /\ worker[c] # "gone"}
EarlyAll == {c \in Call : pc[c] = "abandoning" /\ worker[c] = "gone"}

\* The calls that count themselves waiting.
Waiters(k) == {c \in Call : key[c] = k /\ waited[c] /\ pc[c] \in {"acquire", "asleep"}}

\* Where a call and its worker are, and who won the swap.
Phase(c) ==
  /\ pc[c] \in {"idle", "acquire", "asleep", "refused"} => worker[c] = "none" /\ state[c] = 0
  /\ pc[c] = "idle" => ~waited[c]
  /\ pc[c] = "asleep" => waited[c]
  /\ pc[c] = "working" =>
       \/ worker[c] = "running" /\ state[c] = 0
       \/ worker[c] = "gone" /\ state[c] = workerDone
  /\ pc[c] = "abandoning" => worker[c] # "none" /\ state[c] = callSettled
  /\ pc[c] = "done" =>
       \/ worker[c] # "none" /\ state[c] = callSettled
       \/ worker[c] = "gone" /\ state[c] = workerDone
  /\ worker[c] = "late" => state[c] = callSettled

Phases == \A c \in Call : Phase(c)

WaitersCounted == \A k \in Key : dom[k].waiters >= Cardinality(Waiters(k))

Abandonments ==
  /\ \A k \in Key : dom[k].abandoned = Cardinality(Counted(k)) - Cardinality(Early(k))
  /\ abandonedAll = Cardinality(CountedAll) - Cardinality(EarlyAll)

IInv == TypeOK /\ Phases /\ WaitersCounted /\ PermitsCounted /\ Abandonments /\ NoLostWakeup

-----------------------------------------------------------------------------
(* Sets of calls and their sizes.                                          *)

\* Every set of calls has a cardinality.
LEMMA CallsAreFinite ==
  ASSUME NEW S \in SUBSET Call
  PROVE  IsFiniteSet(S) /\ Cardinality(S) \in Nat
BY OptionsAssumption, FS_Subset, FS_CardinalityType

\* A call joins a set it was not in.
LEMMA Joined ==
  ASSUME NEW S \in SUBSET Call, NEW c \in Call, c \notin S
  PROVE  Cardinality(S \cup {c}) = Cardinality(S) + 1
BY CallsAreFinite, FS_AddElement

\* A call leaves a set it was in.
LEMMA Left ==
  ASSUME NEW S \in SUBSET Call, NEW c \in S
  PROVE  Cardinality(S \ {c}) = Cardinality(S) - 1 /\ Cardinality(S) > 0
<1>1. IsFiniteSet(S) /\ Cardinality(S) \in Nat  BY CallsAreFinite
<1>2. Cardinality(S \ {c}) = Cardinality(S) - 1  BY <1>1, FS_RemoveElement
<1>3. Cardinality(S) # 0  BY <1>1, FS_EmptySet
<1> QED  BY <1>1, <1>2, <1>3

\* A subset of a set of calls is no larger.
LEMMA Smaller ==
  ASSUME NEW S \in SUBSET Call, NEW T \in SUBSET S
  PROVE  Cardinality(T) <= Cardinality(S)
BY CallsAreFinite, FS_Subset

\* The sets that are counted are sets of calls.
LEMMA SetsOfCalls ==
  ASSUME NEW k
  PROVE  /\ Holders(k) \subseteq Call /\ Counted(k) \subseteq Holders(k)
         /\ Early(k) \subseteq Call /\ Waiters(k) \subseteq Call
         /\ CountedAll \subseteq Call /\ EarlyAll \subseteq Call
BY DEF Holders, Counted, Early, Waiters, CountedAll, EarlyAll

\* The domains' sets together, each call being of one domain (AbandonedCounted).
LEMMA AllDomains ==
  ASSUME TypeOK
  PROVE  /\ UNION {Counted(k) : k \in Key} = CountedAll
         /\ UNION {Early(k) : k \in Key} = EarlyAll
<1>1. \A c \in Call : key[c] \in Key  BY DEF TypeOK
<1>2. UNION {Counted(k) : k \in Key} = CountedAll
  <2>1. \A c \in CountedAll : c \in Counted(key[c])  BY DEF Counted, CountedAll
  <2>2. \A k \in Key : Counted(k) \subseteq CountedAll  BY DEF Counted, CountedAll
  <2>3. CountedAll \subseteq Call  BY DEF CountedAll
  <2> QED  BY <1>1, <2>1, <2>2, <2>3
<1>3. UNION {Early(k) : k \in Key} = EarlyAll
  <2>1. \A c \in EarlyAll : c \in Early(key[c])  BY DEF Early, EarlyAll
  <2>2. \A k \in Key : Early(k) \subseteq EarlyAll  BY DEF Early, EarlyAll
  <2>3. EarlyAll \subseteq Call  BY DEF EarlyAll
  <2> QED  BY <1>1, <2>1, <2>2, <2>3
<1> QED  BY <1>2, <1>3

-----------------------------------------------------------------------------
(* What a step does to the counts.                                         *)

\* An entry that is dropped had nothing to say (dropIfIdle).
LEMMA Dropped ==
  ASSUME NEW d \in Entry, d.present, d.background <= d.running
  PROVE  /\ dropIfIdle(d) \in Entry
         /\ dropIfIdle(d).running = d.running /\ dropIfIdle(d).background = d.background
         /\ dropIfIdle(d).abandoned = d.abandoned /\ dropIfIdle(d).waiters = d.waiters
         /\ ~dropIfIdle(d).present => dropIfIdle(d) = Absent
BY DEF dropIfIdle, Entry, Absent

\* A background call's permit is one of the domain's permits.
LEMMA BackgroundAmong ==
  ASSUME IInv, NEW k \in Key
  PROVE  dom[k].background <= dom[k].running
BY SetsOfCalls, Smaller DEF IInv, PermitsCounted

\* A call takes a permit.
LEMMA PermitTaken ==
  ASSUME IInv, NEW c \in Call, NEW k \in Key, key[c] = k, c \notin Holders(k),
         \A j \in Key : Holders(j)' = IF j = k THEN Holders(j) \cup {c} ELSE Holders(j)
  PROVE  /\ \A j \in Key : j # k =>
              /\ Cardinality(Holders(j)') = dom[j].running
              /\ Cardinality(Holders(j)' \intersect Background) = dom[j].background
         /\ Cardinality(Holders(k)') = dom[k].running + 1
         /\ Cardinality(Holders(k)' \intersect Background) = dom[k].background + One(c)
<1>2. Holders(k) \subseteq Call /\ Holders(k)' = Holders(k) \cup {c}  BY SetsOfCalls
<1>3. Cardinality(Holders(k)') = dom[k].running + 1
  <2>1. dom[k].running = Cardinality(Holders(k))  BY DEF IInv, PermitsCounted
  <2>2. Cardinality(Holders(k) \cup {c}) = Cardinality(Holders(k)) + 1  BY <1>2, Joined
  <2> QED  BY <1>2, <2>1, <2>2
<1>4. Cardinality(Holders(k)' \intersect Background) = dom[k].background + One(c)
  <2>1. dom[k].background = Cardinality(Holders(k) \intersect Background)
    BY DEF IInv, PermitsCounted
  <2>2. CASE c \in Background
    <3>1. Holders(k)' \intersect Background = (Holders(k) \intersect Background) \cup {c}
      BY <1>2, <2>2
    <3> DEFINE S == Holders(k) \intersect Background
    <3>2. Cardinality(S \cup {c}) = Cardinality(S) + 1
      <4>1. S \subseteq Call /\ c \notin S  BY <1>2
      <4> HIDE DEF S
      <4> QED  BY <4>1, Joined
    <3> QED  BY <2>1, <2>2, <3>1, <3>2 DEF One
  <2>3. CASE c \notin Background
    <3>1. Holders(k)' \intersect Background = Holders(k) \intersect Background
      BY <1>2, <2>3
    <3>2. Cardinality(Holders(k)' \intersect Background) = dom[k].background
      BY <2>1, <3>1, Zenon
    <3>3. dom[k].background \in Nat  BY DEF IInv, TypeOK, Entry
    <3>4. One(c) = 0  BY <2>3 DEF One
    <3> QED  BY <3>2, <3>3, <3>4
  <2> QED  BY <2>2, <2>3
<1>5. \A j \in Key : j # k =>
         /\ Cardinality(Holders(j)') = dom[j].running
         /\ Cardinality(Holders(j)' \intersect Background) = dom[j].background
  BY DEF IInv, PermitsCounted
<1> QED  BY <1>3, <1>4, <1>5

\* A call, or its worker, gives its permit back.
LEMMA PermitReturned ==
  ASSUME IInv, NEW c \in Call, NEW k \in Key, key[c] = k, c \in Holders(k),
         \A j \in Key : Holders(j)' = IF j = k THEN Holders(j) \ {c} ELSE Holders(j)
  PROVE  /\ \A j \in Key : j # k =>
              /\ Cardinality(Holders(j)') = dom[j].running
              /\ Cardinality(Holders(j)' \intersect Background) = dom[j].background
         /\ Cardinality(Holders(k)') = dom[k].running - 1
         /\ Cardinality(Holders(k)' \intersect Background) = dom[k].background - One(c)
         /\ dom[k].running > 0 /\ dom[k].background >= One(c)
         /\ dom[k].background - One(c) <= dom[k].running - 1
<1>2. Holders(k) \subseteq Call /\ Holders(k)' = Holders(k) \ {c}  BY SetsOfCalls
<1>3. Cardinality(Holders(k)') = dom[k].running - 1 /\ dom[k].running > 0
  <2>1. dom[k].running = Cardinality(Holders(k))  BY DEF IInv, PermitsCounted
  <2>2. /\ Cardinality(Holders(k) \ {c}) = Cardinality(Holders(k)) - 1
        /\ Cardinality(Holders(k)) > 0
    BY <1>2, Left
  <2> QED  BY <1>2, <2>1, <2>2
<1>4. /\ Cardinality(Holders(k)' \intersect Background) = dom[k].background - One(c)
      /\ dom[k].background >= One(c)
  <2>1. /\ dom[k].background = Cardinality(Holders(k) \intersect Background)
        /\ dom[k].background \in Nat
    BY DEF IInv, PermitsCounted, TypeOK, Entry
  <2>2. CASE c \in Background
    <3>1. Holders(k)' \intersect Background = (Holders(k) \intersect Background) \ {c}
      BY <1>2, <2>2
    <3> DEFINE S == Holders(k) \intersect Background
    <3>2. Cardinality(S \ {c}) = Cardinality(S) - 1 /\ Cardinality(S) > 0
      <4>1. S \subseteq Call /\ c \in S  BY <1>2, <2>2
      <4> HIDE DEF S
      <4> QED  BY <4>1, Left
    <3>3. Cardinality(Holders(k)' \intersect Background) = Cardinality(S \ {c})  BY <3>1
    <3>4. One(c) = 1  BY <2>2 DEF One
    <3> QED  BY <2>1, <3>2, <3>3, <3>4
  <2>3. CASE c \notin Background
    <3>1. Holders(k)' \intersect Background = Holders(k) \intersect Background
      BY <1>2, <2>3
    <3>2. Cardinality(Holders(k)' \intersect Background) = dom[k].background
      BY <2>1, <3>1, Zenon
    <3>3. One(c) = 0  BY <2>3 DEF One
    <3> QED  BY <2>1, <3>2, <3>3
  <2> QED  BY <2>2, <2>3
<1>5. \A j \in Key : j # k =>
         /\ Cardinality(Holders(j)') = dom[j].running
         /\ Cardinality(Holders(j)' \intersect Background) = dom[j].background
  BY DEF IInv, PermitsCounted
<1>6. Cardinality(Holders(k)' \intersect Background) <= Cardinality(Holders(k)')
  BY <1>2, Smaller
<1> QED  BY <1>3, <1>4, <1>5, <1>6

\* A step that moves no permit and no abandonment, and whose entries say so.
LEMMA NothingMoved ==
  ASSUME IInv,
         \A k \in Key : /\ Holders(k)' = Holders(k) /\ Counted(k)' = Counted(k)
                        /\ Early(k)' = Early(k)
                        /\ dom'[k].running = dom[k].running
                        /\ dom'[k].background = dom[k].background
                        /\ dom'[k].abandoned = dom[k].abandoned,
         CountedAll' = CountedAll, EarlyAll' = EarlyAll, abandonedAll' = abandonedAll
  PROVE  PermitsCounted' /\ Abandonments'
<1>1. PermitsCounted'  BY DEF IInv, PermitsCounted
<1>2. Abandonments'  BY DEF IInv, Abandonments
<1> QED  BY <1>1, <1>2

\* A call begins: it holds nothing and waits for nothing.
LEMMA StartKeeps ==
  ASSUME IInv, NEW c \in Call, Start(c)
  PROVE  IInv'
<1> USE DEF Start
<1>1. TypeOK'  BY DEF IInv, TypeOK, Entry
<1>2. Phases'  BY DEF IInv, TypeOK, Phases, Phase
<1>3. \A k \in Key : /\ Holders(k)' = Holders(k) /\ Counted(k)' = Counted(k)
                     /\ Early(k)' = Early(k) /\ Waiters(k)' = Waiters(k)
  BY DEF IInv, TypeOK, Phases, Phase, Holders, Counted, Early, Waiters
<1>4. CountedAll' = CountedAll /\ EarlyAll' = EarlyAll
  BY DEF IInv, TypeOK, CountedAll, EarlyAll
<1>5. PermitsCounted' /\ Abandonments'  BY <1>3, <1>4, NothingMoved
<1>6. WaitersCounted'  BY <1>3 DEF IInv, WaitersCounted
<1>7. NoLostWakeup'  BY DEF IInv, TypeOK, NoLostWakeup, fits
<1> QED  BY <1>1, <1>2, <1>5, <1>6, <1>7 DEF IInv

\* The entry acquire works on has the counts of the domain's entry.
LEMMA TouchedEntry ==
  ASSUME IInv, NEW c \in Call
  PROVE  /\ key[c] \in Key /\ Touched(c) \in Entry /\ Touched(c).present
         /\ Touched(c).running = dom[key[c]].running
         /\ Touched(c).background = dom[key[c]].background
         /\ Touched(c).abandoned = dom[key[c]].abandoned
         /\ Touched(c).waiters = dom[key[c]].waiters
         /\ Touched(c).background <= Touched(c).running
<1>1. key[c] \in Key /\ dom[key[c]] \in Entry  BY DEF IInv, TypeOK
<1>2. dom[key[c]].background <= dom[key[c]].running  BY <1>1, BackgroundAmong
<1> QED  BY <1>1, <1>2 DEF Touched, Entry

\* A call is refused without a permit.
LEMMA RefuseKeeps ==
  ASSUME IInv, NEW c \in Call, Refuse(c)
  PROVE  IInv'
<1> USE DEF Refuse
<1>1. PICK k \in Key : k = key[c]  BY DEF IInv, TypeOK
<1>2. PICK e \in Entry :
        /\ dom' = [dom EXCEPT ![k] = e]
        /\ e.running = dom[k].running /\ e.background = dom[k].background
        /\ e.abandoned = dom[k].abandoned /\ e.waiters = dom[k].waiters
        /\ ~e.present => e = Absent
  BY <1>1, TouchedEntry, Dropped, ZenonT(60)
<1>3. TypeOK'  BY <1>2 DEF IInv, TypeOK
<1>4. Phases'  BY DEF IInv, TypeOK, Phases, Phase
<1>5. \A j \in Key : /\ Holders(j)' = Holders(j) /\ Counted(j)' = Counted(j)
                     /\ Early(j)' = Early(j) /\ Waiters(j)' \subseteq Waiters(j)
  BY DEF IInv, TypeOK, Phases, Phase, Holders, Counted, Early, Waiters
<1>6. CountedAll' = CountedAll /\ EarlyAll' = EarlyAll
  BY DEF IInv, TypeOK, CountedAll, EarlyAll
<1>7. \A j \in Key : /\ dom'[j].running = dom[j].running
                     /\ dom'[j].background = dom[j].background
                     /\ dom'[j].abandoned = dom[j].abandoned
                     /\ dom'[j].waiters = dom[j].waiters
  BY <1>2 DEF IInv, TypeOK
<1>8. PermitsCounted' /\ Abandonments'  BY <1>5, <1>6, <1>7, NothingMoved
<1>9. WaitersCounted'
  <2>1. \A j \in Key : Cardinality(Waiters(j)') <= Cardinality(Waiters(j))
    BY <1>5, SetsOfCalls, Smaller
  <2>2. \A j \in Key : Cardinality(Waiters(j)') \in Nat /\ Cardinality(Waiters(j)) \in Nat
    BY <1>5, SetsOfCalls, CallsAreFinite
  <2>3. \A j \in Key : dom[j].waiters \in Nat /\ dom[j].waiters >= Cardinality(Waiters(j))
    BY DEF IInv, WaitersCounted, TypeOK, Entry
  <2> QED  BY <1>7, <2>1, <2>2, <2>3 DEF WaitersCounted
<1>10. NoLostWakeup'  BY <1>7 DEF IInv, TypeOK, NoLostWakeup, fits
<1> QED  BY <1>3, <1>4, <1>8, <1>9, <1>10 DEF IInv

\* A call that stops waiting was counted as one.
LEMMA WaiterLeaves ==
  ASSUME IInv, NEW c \in Call, NEW k \in Key, key[c] = k, c \in Waiters(k),
         \A j \in Key : Waiters(j)' = IF j = k THEN Waiters(j) \ {c} ELSE Waiters(j)
  PROVE  /\ dom[k].waiters - 1 \in Nat
         /\ dom[k].waiters - 1 >= Cardinality(Waiters(k)')
         /\ \A j \in Key : j # k => dom[j].waiters >= Cardinality(Waiters(j)')
<1>1. Waiters(k) \subseteq Call  BY SetsOfCalls
<1>2. dom[k].waiters \in Nat /\ dom[k].waiters >= Cardinality(Waiters(k))
  BY DEF IInv, WaitersCounted, TypeOK, Entry
<1>3. Cardinality(Waiters(k) \ {c}) = Cardinality(Waiters(k)) - 1 /\ Cardinality(Waiters(k)) > 0
  BY <1>1, Left
<1>4. Cardinality(Waiters(k)) \in Nat  BY <1>1, CallsAreFinite
<1>5. Waiters(k)' = Waiters(k) \ {c}  OBVIOUS
<1>6. \A j \in Key : j # k => dom[j].waiters >= Cardinality(Waiters(j)')
  BY DEF IInv, WaitersCounted
<1> QED  BY <1>2, <1>3, <1>4, <1>5, <1>6

\* An entry whose counts are set to what counts may be.
LEMMA EntryUpdated ==
  ASSUME NEW d \in Entry, NEW r \in Nat, NEW b \in Nat, NEW w \in Nat
  PROVE  [d EXCEPT !.running = r, !.background = b, !.waiters = w] \in Entry
BY DEF Entry

\* The entry of a domain that granted a permit.
Granted(d, b, n) == [d EXCEPT !.running = @ + 1, !.background = @ + b, !.waiters = @ - n]

\* What a grant does to the counts of one domain.
LEMMA GrantedEntry ==
  ASSUME NEW d \in Entry, NEW b \in Nat, NEW n \in Nat, d.waiters - n \in Nat
  PROVE  LET e == Granted(d, b, n) IN
         /\ e \in Entry /\ e.present = d.present /\ e.abandoned = d.abandoned
         /\ e.running = d.running + 1 /\ e.background = d.background + b
         /\ e.waiters = d.waiters - n
<1>1. d.running + 1 \in Nat /\ d.background + b \in Nat  BY DEF Entry
<1>2. Granted(d, b, n) \in Entry  BY <1>1, EntryUpdated DEF Granted
<1>3. LET e == Granted(d, b, n) IN
      /\ e.present = d.present /\ e.abandoned = d.abandoned
      /\ e.running = d.running + 1 /\ e.background = d.background + b
      /\ e.waiters = d.waiters - n
  BY DEF Granted, Entry
<1> QED  BY <1>2, <1>3

\* A step that replaces one entry, by one that says whether it is there.
LEMMA EntryReplaced ==
  ASSUME IInv, NEW k \in Key, NEW e \in Entry, ~e.present => e = Absent,
         dom' = [dom EXCEPT ![k] = e]
  PROVE  /\ dom' \in [Key -> Entry]
         /\ \A j \in Key : ~dom'[j].present => dom'[j] = Absent
         /\ \A j \in Key : dom'[j] = IF j = k THEN e ELSE dom[j]
BY DEF IInv, TypeOK

\* A permit is granted: the call is in flight, and no longer waiting.
LEMMA GrantKeeps ==
  ASSUME IInv, NEW c \in Call, Grant(c)
  PROVE  IInv'
<1> USE DEF Grant
<1>1. PICK k \in Key : k = key[c]  BY DEF IInv, TypeOK
<1> DEFINE n == IF waited[c] THEN 1 ELSE 0
<1>2. \A j \in Key : Holders(j)' = IF j = k THEN Holders(j) \cup {c} ELSE Holders(j)
  BY <1>1 DEF IInv, TypeOK, Phases, Phase, Holders
<1>3. c \notin Holders(k)  BY DEF Holders
<1>4. \A j \in Key : Waiters(j)' = IF j = k THEN Waiters(j) \ {c} ELSE Waiters(j)
  BY <1>1 DEF IInv, TypeOK, Waiters
<1>5. /\ dom[k].waiters - n \in Nat
      /\ dom[k].waiters - n >= Cardinality(Waiters(k)')
      /\ \A j \in Key : j # k => dom[j].waiters >= Cardinality(Waiters(j)')
  <2>1. CASE waited[c]
    <3>1. c \in Waiters(k)  BY <1>1, <2>1 DEF Waiters
    <3>2. /\ dom[k].waiters - 1 \in Nat
          /\ dom[k].waiters - 1 >= Cardinality(Waiters(k)')
          /\ \A j \in Key : j # k => dom[j].waiters >= Cardinality(Waiters(j)')
      BY <1>1, <1>4, <3>1, WaiterLeaves
    <3>3. n = 1  BY <2>1
    <3> QED  BY <3>2, <3>3
  <2>2. CASE ~waited[c]
    <3>1. \A j \in Key : Waiters(j)' = Waiters(j)  BY <1>4, <2>2 DEF Waiters
    <3>2. dom[k].waiters \in Nat  BY DEF IInv, TypeOK, Entry
    <3>3. \A j \in Key : dom[j].waiters >= Cardinality(Waiters(j)')
      BY <3>1 DEF IInv, WaitersCounted
    <3>4. n = 0  BY <2>2
    <3> HIDE DEF n
    <3> QED  BY <3>2, <3>3, <3>4
  <2> QED  BY <2>1, <2>2
<1> HIDE DEF n
<1>6. PICK e \in Entry :
        /\ dom' = [dom EXCEPT ![k] = e] /\ e.present
        /\ e.running = dom[k].running + 1 /\ e.background = dom[k].background + One(c)
        /\ e.abandoned = dom[k].abandoned /\ e.waiters = dom[k].waiters - n
  <2>1. PICK d : d = Touched(c)  OBVIOUS
  <2>2. PICK b : b = One(c)  OBVIOUS
  <2>3. PICK m : m = n  OBVIOUS
  <2>4. PICK e : e = Granted(d, b, m)  OBVIOUS
  <2>5. dom' = [dom EXCEPT ![k] = e]  BY <1>1, <2>1, <2>2, <2>3, <2>4 DEF n, Granted
  <2>6. /\ d \in Entry /\ d.present
        /\ d.running = dom[k].running /\ d.background = dom[k].background
        /\ d.abandoned = dom[k].abandoned /\ d.waiters = dom[k].waiters
    BY <1>1, <2>1, TouchedEntry
  <2>7. b \in Nat /\ m \in Nat /\ d.waiters - m \in Nat
    BY <1>5, <2>2, <2>3, <2>6 DEF One, n
  <2>8. /\ e \in Entry /\ e.present = d.present /\ e.abandoned = d.abandoned
        /\ e.running = d.running + 1 /\ e.background = d.background + b
        /\ e.waiters = d.waiters - m
    <3> HIDE DEF Grant
    <3> QED  BY <2>4, <2>6, <2>7, GrantedEntry, ZenonT(60)
  <2>9. e.running = dom[k].running + 1 /\ e.background = dom[k].background + One(c)
    BY <2>2, <2>6, <2>8
  <2>10. e.abandoned = dom[k].abandoned /\ e.waiters = dom[k].waiters - n
    BY <2>3, <2>6, <2>8
  <2> QED  BY <2>5, <2>6, <2>8, <2>9, <2>10
<1>7. TypeOK'
  <2>1. /\ dom' \in [Key -> Entry]
        /\ \A j \in Key : ~dom'[j].present => dom'[j] = Absent
    BY <1>6, EntryReplaced DEF IInv
  <2>2. /\ pc' \in [Call -> {"idle", "acquire", "asleep", "working", "abandoning",
                             "refused", "done"}]
        /\ worker' \in [Call -> {"none", "running", "late", "gone"}]
    BY DEF IInv, TypeOK
  <2> QED  BY <2>1, <2>2 DEF IInv, TypeOK
<1>8. Phases'  BY DEF IInv, TypeOK, Phases, Phase
<1>9. \A j \in Key : dom'[j] = IF j = k THEN e ELSE dom[j]
  BY <1>6 DEF IInv, TypeOK
<1>10. PermitsCounted'
  <2>1. /\ \A j \in Key : j # k =>
            /\ Cardinality(Holders(j)') = dom[j].running
            /\ Cardinality(Holders(j)' \intersect Background) = dom[j].background
        /\ Cardinality(Holders(k)') = dom[k].running + 1
        /\ Cardinality(Holders(k)' \intersect Background) = dom[k].background + One(c)
    BY <1>1, <1>2, <1>3, PermitTaken
  <2>2. e.running <= PerDomain /\ e.background <= PerDomain - PersonReserve
    <3>1. /\ dom[k].running < PerDomain /\ dom[k].background <= PerDomain - PersonReserve
          /\ c \in Background => dom[k].background < PerDomain - PersonReserve
      BY <1>1, TouchedEntry DEF fits, IInv, PermitsCounted
    <3>2. dom[k].running \in Nat /\ dom[k].background \in Nat  BY DEF IInv, TypeOK, Entry
    <3> QED  BY <1>6, <3>1, <3>2, OptionsAssumption DEF One
  <2> QED  BY <1>6, <1>9, <2>1, <2>2 DEF IInv, PermitsCounted
<1>11. Abandonments'
  <2>1. \A j \in Key : /\ Counted(j)' = Counted(j) /\ Early(j)' = Early(j)
                       /\ dom'[j].abandoned = dom[j].abandoned
    BY <1>6, <1>9 DEF IInv, TypeOK, Phases, Phase, Counted, Early
  <2>2. CountedAll' = CountedAll /\ EarlyAll' = EarlyAll
    BY DEF IInv, TypeOK, CountedAll, EarlyAll
  <2> QED  BY <2>1, <2>2 DEF IInv, Abandonments
<1>12. WaitersCounted'  BY <1>5, <1>6, <1>9 DEF WaitersCounted
<1>13. NoLostWakeup'
  <2>1. \A j \in Key : /\ dom[j].running \in Nat /\ dom[j].background \in Nat
                       /\ dom'[j].running \in Nat /\ dom'[j].background \in Nat
    BY <1>7 DEF IInv, TypeOK, Entry
  <2>2. e.running >= dom[k].running /\ e.background >= dom[k].background
    BY <1>6, <2>1 DEF One
  <2>3. ASSUME NEW j \in Key
        PROVE  dom'[j].running >= dom[j].running /\ dom'[j].background >= dom[j].background
    <3>1. CASE j = k
      BY <1>9, <2>2, <3>1
    <3>2. CASE j # k
      <4>1. dom'[j] = dom[j]  BY <1>9, <3>2
      <4>2. dom[j].running \in Nat /\ dom[j].background \in Nat  BY <2>1
      <4>3. \A x \in Nat : x >= x  OBVIOUS
      <4> HIDE DEF Grant
      <4> QED  BY <4>1, <4>2, <4>3
    <3> QED  BY <3>1, <3>2
  <2> QED  BY <2>1, <2>3, OptionsAssumption DEF IInv, TypeOK, NoLostWakeup, fits
<1> QED  BY <1>7, <1>8, <1>10, <1>11, <1>12, <1>13 DEF IInv

\* A call that goes on sleeping finds no more room than it did.
LEMMA StillNoRoom ==
  ASSUME IInv, key' = key,
         \A c \in Call : pc'[c] = "asleep" /\ ~woken'[c] =>
           /\ pc[c] = "asleep" /\ ~woken[c]
           /\ dom'[key[c]].running = dom[key[c]].running
           /\ dom'[key[c]].background = dom[key[c]].background
  PROVE  NoLostWakeup'
<1>1. SUFFICES ASSUME NEW c \in Call, pc'[c] = "asleep", ~woken'[c]
               PROVE  ~fits(dom[key[c]], c)'
  BY DEF NoLostWakeup
<1>2. ~fits(dom[key[c]], c)  BY <1>1 DEF IInv, NoLostWakeup
<1>3. /\ dom'[key'[c]].running = dom[key[c]].running
      /\ dom'[key'[c]].background = dom[key[c]].background
  BY <1>1
<1> QED  BY <1>2, <1>3 DEF fits

\* A call counts itself waiting, once.
LEMMA WaitKeeps ==
  ASSUME IInv, NEW c \in Call, Wait(c)
  PROVE  IInv'
<1>1. PICK k \in Key : k = key[c]  BY DEF IInv, TypeOK
<1>2. PICK e \in Entry :
        /\ dom' = [dom EXCEPT ![k] = e] /\ e.present
        /\ e.running = dom[k].running /\ e.background = dom[k].background
        /\ e.abandoned = dom[k].abandoned /\ e.waiters = dom[k].waiters + 1
  <2>1. PICK d : d = Touched(c)  OBVIOUS
  <2>2. PICK e : e = [d EXCEPT !.waiters = @ + 1]  OBVIOUS
  <2>3. dom' = [dom EXCEPT ![k] = e]  BY <1>1, <2>1, <2>2 DEF Wait
  <2>4. /\ d \in Entry /\ d.present
        /\ d.running = dom[k].running /\ d.background = dom[k].background
        /\ d.abandoned = dom[k].abandoned /\ d.waiters = dom[k].waiters
    BY <1>1, <2>1, TouchedEntry
  <2>5. e \in Entry  BY <2>2, <2>4 DEF Entry
  <2>6. /\ e.present = d.present /\ e.running = d.running /\ e.background = d.background
        /\ e.abandoned = d.abandoned /\ e.waiters = d.waiters + 1
    BY <2>2, <2>4 DEF Entry
  <2> QED  BY <2>3, <2>4, <2>5, <2>6
<1>3. /\ dom' \in [Key -> Entry]
      /\ \A j \in Key : ~dom'[j].present => dom'[j] = Absent
      /\ \A j \in Key : dom'[j] = IF j = k THEN e ELSE dom[j]
  BY <1>2, EntryReplaced
<1>4. TypeOK'
  <2>1. /\ pc' \in [Call -> {"idle", "acquire", "asleep", "working", "abandoning",
                             "refused", "done"}]
        /\ waited' \in [Call -> BOOLEAN] /\ woken' \in [Call -> BOOLEAN]
    BY DEF IInv, TypeOK, Wait
  <2> QED  BY <1>3, <2>1 DEF IInv, TypeOK, Wait
<1>5. Phases'  BY DEF IInv, TypeOK, Phases, Phase, Wait
<1>6. PermitsCounted' /\ Abandonments'
  <2>1. \A j \in Key : /\ Holders(j)' = Holders(j) /\ Counted(j)' = Counted(j)
                       /\ Early(j)' = Early(j)
    BY DEF IInv, TypeOK, Phases, Phase, Holders, Counted, Early, Wait
  <2>2. CountedAll' = CountedAll /\ EarlyAll' = EarlyAll
    BY DEF IInv, TypeOK, CountedAll, EarlyAll, Wait
  <2>3. \A j \in Key : /\ dom'[j].running = dom[j].running
                       /\ dom'[j].background = dom[j].background
                       /\ dom'[j].abandoned = dom[j].abandoned
    BY <1>2, <1>3
  <2> QED  BY <2>1, <2>2, <2>3, NothingMoved DEF Wait
<1>7. WaitersCounted'
  <2>1. \A j \in Key : Waiters(j)' = IF j = k THEN Waiters(j) \cup {c} ELSE Waiters(j)
    BY <1>1 DEF IInv, TypeOK, Waiters, Wait
  <2>2. \A j \in Key : dom[j].waiters \in Nat /\ dom[j].waiters >= Cardinality(Waiters(j))
    BY DEF IInv, WaitersCounted, TypeOK, Entry
  <2>3. Waiters(k) \subseteq Call  BY SetsOfCalls
  <2>4. Cardinality(Waiters(k)) \in Nat  BY <2>3, CallsAreFinite
  <2>5. Cardinality(Waiters(k) \cup {c}) <= Cardinality(Waiters(k)) + 1
    <3>1. CASE c \in Waiters(k)
      <4>1. Cardinality(Waiters(k) \cup {c}) = Cardinality(Waiters(k))
        <5>1. Waiters(k) \cup {c} = Waiters(k)  BY <3>1
        <5> QED  BY <5>1, Zenon
      <4> QED  BY <2>4, <4>1
    <3>2. CASE c \notin Waiters(k)
      BY <2>3, <2>4, <3>2, Joined
    <3> QED  BY <3>1, <3>2
  <2>6. Cardinality(Waiters(k) \cup {c}) \in Nat  BY <2>3, CallsAreFinite
  <2>7. e.waiters >= Cardinality(Waiters(k)')
    <3>1. Cardinality(Waiters(k)') = Cardinality(Waiters(k) \cup {c})  BY <2>1
    <3> QED  BY <1>2, <2>2, <2>4, <2>5, <2>6, <3>1
  <2>8. \A j \in Key : j # k => dom[j].waiters >= Cardinality(Waiters(j)')
    BY <2>1, <2>2
  <2> QED  BY <1>3, <2>7, <2>8 DEF WaitersCounted
<1>8. NoLostWakeup'
  <2>1. \A j \in Key : dom'[j].running = dom[j].running /\ dom'[j].background = dom[j].background
    BY <1>2, <1>3
  <2>2. SUFFICES ASSUME NEW x \in Call, pc'[x] = "asleep", ~woken'[x]
                 PROVE  ~fits(dom[key[x]], x)'
    BY DEF NoLostWakeup
  <2>3. PICK j \in Key : j = key[x] /\ j = key'[x]  BY DEF IInv, TypeOK, Wait
  <2>4. CASE x = c
    <3>1. ~fits(Touched(c), c)  BY DEF Wait
    <3>2. ~fits(dom[k], x)
      BY <1>1, <2>4, <3>1, TouchedEntry DEF fits
    <3> QED  BY <1>1, <2>1, <2>3, <2>4, <3>2 DEF fits
  <2>5. CASE x # c
    <3>1. pc[x] = "asleep" /\ ~woken[x]  BY <2>2, <2>5 DEF IInv, TypeOK, Wait
    <3>2. ~fits(dom[j], x)  BY <2>3, <3>1 DEF IInv, NoLostWakeup
    <3> QED  BY <2>1, <2>3, <3>2 DEF fits
  <2> QED  BY <2>4, <2>5
<1> QED  BY <1>4, <1>5, <1>6, <1>7, <1>8 DEF IInv

\* A notice wakes a waiter, which stays counted until its turn.
LEMMA WakeKeeps ==
  ASSUME IInv, NEW c \in Call, Wake(c)
  PROVE  IInv'
<1> USE DEF Wake
<1>1. TypeOK'  BY DEF IInv, TypeOK, Entry
<1>2. Phases'  BY DEF IInv, TypeOK, Phases, Phase
<1>3. \A k \in Key : /\ Holders(k)' = Holders(k) /\ Counted(k)' = Counted(k)
                     /\ Early(k)' = Early(k) /\ Waiters(k)' = Waiters(k)
  BY DEF IInv, TypeOK, Phases, Phase, Holders, Counted, Early, Waiters
<1>4. CountedAll' = CountedAll /\ EarlyAll' = EarlyAll
  BY DEF IInv, TypeOK, CountedAll, EarlyAll
<1>5. PermitsCounted' /\ Abandonments'  BY <1>3, <1>4, NothingMoved
<1>6. WaitersCounted'  BY <1>3 DEF IInv, WaitersCounted
<1>7. NoLostWakeup'  BY DEF IInv, TypeOK, NoLostWakeup, fits
<1> QED  BY <1>1, <1>2, <1>5, <1>6, <1>7 DEF IInv

\* A waiter gives up its turn and takes its count with it.
LEMMA TurnExpiresKeeps ==
  ASSUME IInv, NEW c \in Call, TurnExpires(c)
  PROVE  IInv'
<1>1. PICK k \in Key : k = key[c]  BY DEF IInv, TypeOK
<1>2. \A j \in Key : Waiters(j)' = IF j = k THEN Waiters(j) \ {c} ELSE Waiters(j)
  BY <1>1 DEF IInv, TypeOK, Waiters, TurnExpires
<1>3. c \in Waiters(k)  BY <1>1 DEF IInv, Phases, Phase, Waiters, TurnExpires
<1>4. /\ dom[k].waiters - 1 \in Nat
      /\ dom[k].waiters - 1 >= Cardinality(Waiters(k)')
      /\ \A j \in Key : j # k => dom[j].waiters >= Cardinality(Waiters(j)')
  BY <1>1, <1>2, <1>3, WaiterLeaves
<1>5. PICK e \in Entry :
        /\ dom' = [dom EXCEPT ![k] = e]
        /\ ~e.present => e = Absent
        /\ e.running = dom[k].running /\ e.background = dom[k].background
        /\ e.abandoned = dom[k].abandoned /\ e.waiters = dom[k].waiters - 1
  <2>1. PICK d : d = dom[k]  OBVIOUS
  <2>2. PICK f : f = [d EXCEPT !.waiters = @ - 1]  OBVIOUS
  <2>3. dom' = [dom EXCEPT ![k] = dropIfIdle(f)]  BY <1>1, <2>1, <2>2 DEF TurnExpires
  <2>4. d \in Entry /\ d.waiters - 1 \in Nat /\ d.background <= d.running
    BY <1>4, <2>1, BackgroundAmong DEF IInv, TypeOK
  <2>5. d.present
    <3>1. ~d.present => d.waiters = 0  BY <2>1 DEF IInv, TypeOK, Absent
    <3> QED  BY <2>4, <3>1
  <2>6. f \in Entry  BY <2>2, <2>4 DEF Entry
  <2>7. /\ f.present = d.present /\ f.running = d.running /\ f.background = d.background
        /\ f.abandoned = d.abandoned /\ f.waiters = d.waiters - 1
    BY <2>2, <2>4 DEF Entry
  <2>8. f.present /\ f.background <= f.running  BY <2>4, <2>5, <2>7
  <2>9. PICK e : e = dropIfIdle(f)  OBVIOUS
  <2>10. /\ e \in Entry
         /\ ~e.present => e = Absent
         /\ e.running = f.running /\ e.background = f.background
         /\ e.abandoned = f.abandoned /\ e.waiters = f.waiters
    BY <2>6, <2>8, <2>9, Dropped
  <2> QED  BY <2>1, <2>3, <2>7, <2>9, <2>10
<1>6. /\ dom' \in [Key -> Entry]
      /\ \A j \in Key : ~dom'[j].present => dom'[j] = Absent
      /\ \A j \in Key : dom'[j] = IF j = k THEN e ELSE dom[j]
  BY <1>5, EntryReplaced
<1>7. TypeOK'
  <2>1. pc' \in [Call -> {"idle", "acquire", "asleep", "working", "abandoning",
                          "refused", "done"}]
    BY DEF IInv, TypeOK, TurnExpires
  <2> QED  BY <1>6, <2>1 DEF IInv, TypeOK, TurnExpires
<1>8. Phases'  BY DEF IInv, TypeOK, Phases, Phase, TurnExpires
<1>9. \A j \in Key : /\ dom'[j].running = dom[j].running
                     /\ dom'[j].background = dom[j].background
                     /\ dom'[j].abandoned = dom[j].abandoned
  BY <1>5, <1>6
<1>10. PermitsCounted' /\ Abandonments'
  <2>1. \A j \in Key : /\ Holders(j)' = Holders(j) /\ Counted(j)' = Counted(j)
                       /\ Early(j)' = Early(j)
    BY DEF IInv, TypeOK, Phases, Phase, Holders, Counted, Early, TurnExpires
  <2>2. CountedAll' = CountedAll /\ EarlyAll' = EarlyAll
    BY DEF IInv, TypeOK, CountedAll, EarlyAll, TurnExpires
  <2> QED  BY <1>9, <2>1, <2>2, NothingMoved DEF TurnExpires
<1>11. WaitersCounted'  BY <1>4, <1>5, <1>6 DEF WaitersCounted
<1>12. NoLostWakeup'
  <2>1. \A x \in Call : pc'[x] = "asleep" => pc[x] = "asleep" /\ key[x] \in Key
    BY DEF IInv, TypeOK, TurnExpires
  <2> QED  BY <1>9, <2>1, StillNoRoom DEF TurnExpires
<1> QED  BY <1>7, <1>8, <1>10, <1>11, <1>12 DEF IInv

\* The worker wins the swap.
LEMMA WorkerReturnsKeeps ==
  ASSUME IInv, NEW c \in Call, WorkerReturns(c)
  PROVE  IInv'
<1>1. TypeOK'
  <2>1. state' \in [Call -> {0, callSettled, workerDone}]
    BY DEF IInv, TypeOK, WorkerReturns, WorkerSwaps
  <2>2. worker' \in [Call -> {"none", "running", "late", "gone"}]
    BY DEF IInv, TypeOK, WorkerReturns
  <2> QED  BY <2>1, <2>2 DEF IInv, TypeOK, WorkerReturns
<1>2. /\ \A x \in Call : x # c => state'[x] = state[x] /\ worker'[x] = worker[x]
      /\ state[c] = 0 => state'[c] = workerDone /\ worker'[c] = "gone"
      /\ state[c] # 0 => state'[c] = state[c]
      /\ state[c] = callSettled => worker'[c] = "late"
      /\ worker[c] = "running" /\ pc' = pc /\ waited' = waited
  BY DEF IInv, TypeOK, WorkerReturns, WorkerSwaps, callSettled, workerDone
<1>3. \/ pc[c] = "working" /\ state[c] = 0
      \/ pc[c] \in {"abandoning", "done"} /\ state[c] = callSettled
  BY <1>2 DEF IInv, TypeOK, Phases, Phase
<1>4. Phases'
  BY <1>2, <1>3 DEF IInv, Phases, Phase, callSettled, workerDone
<1>5. \A k \in Key : /\ Holders(k)' = Holders(k) /\ Counted(k)' = Counted(k)
                     /\ Early(k)' = Early(k) /\ Waiters(k)' = Waiters(k)
  BY <1>2, <1>3 DEF WorkerReturns, Holders, Counted, Early, Waiters, callSettled, workerDone
<1>6. CountedAll' = CountedAll /\ EarlyAll' = EarlyAll
  BY <1>2, <1>3 DEF CountedAll, EarlyAll, callSettled, workerDone
<1>7. PermitsCounted' /\ Abandonments'  BY <1>5, <1>6, NothingMoved DEF WorkerReturns
<1>8. WaitersCounted'  BY <1>5 DEF IInv, WaitersCounted, WorkerReturns
<1>9. NoLostWakeup'  BY DEF IInv, NoLostWakeup, fits, WorkerReturns
<1> QED  BY <1>1, <1>4, <1>7, <1>8, <1>9 DEF IInv

\* The call wins the swap: the worker is late.
LEMMA SettleKeeps ==
  ASSUME IInv, NEW c \in Call, Settle(c)
  PROVE  IInv'
<1> USE DEF Settle
<1>1. TypeOK'  BY DEF IInv, TypeOK, Entry
<1>2. Phases'  BY DEF IInv, TypeOK, Phases, Phase, callSettled, workerDone
<1>3. /\ pc[c] = "working" /\ worker[c] = "running" /\ pc'[c] = "abandoning"
      /\ state'[c] = callSettled /\ worker' = worker /\ key' = key /\ waited' = waited
      /\ \A x \in Call : x # c => pc'[x] = pc[x] /\ state'[x] = state[x]
  BY DEF IInv, TypeOK, Phases, Phase, callSettled, workerDone
<1> HIDE DEF Settle
<1>4. \A k \in Key : /\ Holders(k)' = Holders(k) /\ Counted(k)' = Counted(k)
                     /\ Early(k)' = Early(k) /\ Waiters(k)' = Waiters(k)
  BY <1>3 DEF Holders, Counted, Early, Waiters
<1>5. CountedAll' = CountedAll /\ EarlyAll' = EarlyAll
  BY <1>3 DEF CountedAll, EarlyAll
<1>6. PermitsCounted' /\ Abandonments'  BY <1>4, <1>5, NothingMoved DEF Settle
<1>7. WaitersCounted'  BY <1>4 DEF IInv, WaitersCounted, Settle
<1>8. NoLostWakeup'  BY DEF IInv, TypeOK, NoLostWakeup, fits, Settle
<1> QED  BY <1>1, <1>2, <1>6, <1>7, <1>8 DEF IInv

\* The entry of a domain that got a permit back.
Returned(d, b, n) == [d EXCEPT !.running = @ - 1, !.background = @ - b, !.abandoned = @ - n]

\* What a returned permit does to the counts of one domain.
LEMMA ReturnedEntry ==
  ASSUME NEW d \in Entry, NEW b \in Nat, NEW n \in Nat,
         d.running - 1 \in Nat, d.background - b \in Nat
  PROVE  LET e == Returned(d, b, n) IN
         /\ e \in Entry /\ e.present = d.present /\ e.running = d.running - 1
         /\ e.background = d.background - b /\ e.abandoned = d.abandoned - n
         /\ e.waiters = d.waiters
<1>1. d.abandoned - n \in Int  BY DEF Entry
<1>2. Returned(d, b, n) \in Entry
  <2>1. \A r \in Nat, y \in Nat, a \in Int :
          [d EXCEPT !.running = r, !.background = y, !.abandoned = a] \in Entry
    BY DEF Entry
  <2> QED  BY <1>1, <2>1 DEF Returned
<1>3. LET e == Returned(d, b, n) IN
      /\ e.present = d.present /\ e.running = d.running - 1
      /\ e.background = d.background - b /\ e.abandoned = d.abandoned - n
      /\ e.waiters = d.waiters
  BY DEF Returned, Entry
<1> QED  BY <1>2, <1>3

\* What finish does, whoever calls it: the permit's counts, and the waiters woken.
LEMMA FinishCounts ==
  ASSUME IInv, NEW c \in Call, NEW k \in Key, key[c] = k, c \in Holders(k),
         \A j \in Key : Holders(j)' = IF j = k THEN Holders(j) \ {c} ELSE Holders(j),
         NEW a \in BOOLEAN, Finish(c, a), NEW n \in {0, 1}, n = IF a THEN 1 ELSE 0
  PROVE  /\ dom' \in [Key -> Entry]
         /\ \A j \in Key : ~dom'[j].present => dom'[j] = Absent
         /\ abandonedAll' = abandonedAll - n /\ woken' \in [Call -> BOOLEAN]
         /\ PermitsCounted'
         /\ \A j \in Key : dom'[j].waiters = dom[j].waiters
         /\ dom'[k].abandoned = dom[k].abandoned - n
         /\ \A j \in Key : j # k => dom'[j] = dom[j]
         /\ \A x \in Call : pc[x] = "asleep" /\ ~woken'[x] => key[x] # k /\ ~woken[x]
<1>1. /\ \A j \in Key : j # k =>
           /\ Cardinality(Holders(j)') = dom[j].running
           /\ Cardinality(Holders(j)' \intersect Background) = dom[j].background
      /\ Cardinality(Holders(k)') = dom[k].running - 1
      /\ Cardinality(Holders(k)' \intersect Background) = dom[k].background - One(c)
      /\ dom[k].running > 0 /\ dom[k].background >= One(c)
      /\ dom[k].background - One(c) <= dom[k].running - 1
  BY PermitReturned
<1>2. PICK e \in Entry :
        /\ dom' = [dom EXCEPT ![k] = e]
        /\ ~e.present => e = Absent
        /\ e.running = dom[k].running - 1 /\ e.background = dom[k].background - One(c)
        /\ e.abandoned = dom[k].abandoned - n /\ e.waiters = dom[k].waiters
  <2>1. PICK d : d = dom[k]  OBVIOUS
  <2>2. PICK b : b = One(c)  OBVIOUS
  <2>3. PICK f : f = Returned(d, b, n)  OBVIOUS
  <2>4. dom' = [dom EXCEPT ![k] = dropIfIdle(f)]
    BY <2>1, <2>2, <2>3 DEF Finish, Returned
  <2>5. d \in Entry /\ b \in Nat /\ n \in Nat  BY <2>1, <2>2 DEF IInv, TypeOK, One
  <2>6. d.running \in Nat /\ d.background \in Nat  BY <2>5 DEF Entry
  <2>7. d.running - 1 \in Nat /\ d.background - b \in Nat /\ d.background - b <= d.running - 1
    BY <1>1, <2>1, <2>2, <2>5, <2>6
  <2>8. d.present
    <3>1. ~d.present => d.running = 0  BY <2>1 DEF IInv, TypeOK, Absent
    <3> QED  BY <1>1, <2>1, <3>1
  <2>9. /\ f \in Entry /\ f.present = d.present /\ f.running = d.running - 1
        /\ f.background = d.background - b /\ f.abandoned = d.abandoned - n
        /\ f.waiters = d.waiters
    BY <2>3, <2>5, <2>7, ReturnedEntry
  <2>10. f.present /\ f.background <= f.running  BY <2>7, <2>8, <2>9
  <2>11. PICK e : e = dropIfIdle(f)  OBVIOUS
  <2>12. /\ e \in Entry
         /\ ~e.present => e = Absent
         /\ e.running = f.running /\ e.background = f.background
         /\ e.abandoned = f.abandoned /\ e.waiters = f.waiters
    BY <2>9, <2>10, <2>11, Dropped
  <2> QED  BY <2>1, <2>2, <2>4, <2>9, <2>11, <2>12
<1>3. /\ dom' \in [Key -> Entry]
      /\ \A j \in Key : ~dom'[j].present => dom'[j] = Absent
      /\ \A j \in Key : dom'[j] = IF j = k THEN e ELSE dom[j]
  BY <1>2, EntryReplaced
<1>4. PermitsCounted'
  <2>1. /\ dom[k].running \in Nat /\ dom[k].background \in Nat /\ One(c) \in Nat
        /\ PerDomain \in Nat /\ PersonReserve \in Nat
    BY OptionsAssumption DEF IInv, TypeOK, Entry, One
  <2>2. e.running <= PerDomain /\ e.background <= PerDomain - PersonReserve
    <3>1. dom[k].running <= PerDomain /\ dom[k].background <= PerDomain - PersonReserve
      BY DEF IInv, PermitsCounted
    <3> QED  BY <1>2, <2>1, <3>1
  <2>3. \A j \in Key : j # k =>
          dom[j].running <= PerDomain /\ dom[j].background <= PerDomain - PersonReserve
    BY DEF IInv, PermitsCounted
  <2>4. SUFFICES ASSUME NEW j \in Key
                 PROVE  /\ dom'[j].running = Cardinality(Holders(j)')
                        /\ dom'[j].background = Cardinality(Holders(j)' \intersect Background)
                        /\ dom'[j].running <= PerDomain
                        /\ dom'[j].background <= PerDomain - PersonReserve
    BY DEF PermitsCounted
  <2>5. CASE j = k
    BY <1>1, <1>2, <1>3, <2>2, <2>5
  <2>6. CASE j # k
    <3>1. dom'[j] = dom[j]  BY <1>3, <2>6
    <3> QED  BY <1>1, <2>3, <2>6, <3>1
  <2> QED  BY <2>5, <2>6
<1>5. abandonedAll' = abandonedAll - n  BY DEF Finish
<1>6. /\ woken' \in [Call -> BOOLEAN]
      /\ \A x \in Call : pc[x] = "asleep" /\ ~woken'[x] => key[x] # k /\ ~woken[x]
  BY DEF Finish, wake, IInv, TypeOK
<1> QED  BY <1>2, <1>3, <1>4, <1>5, <1>6

\* A counted worker comes back.
LEMMA CountedLeaves ==
  ASSUME IInv, NEW c \in Call, NEW k \in Key, c \in Counted(k), c \in CountedAll,
         \A j \in Key : /\ Counted(j)' = IF j = k THEN Counted(j) \ {c} ELSE Counted(j)
                        /\ Early(j)' = Early(j),
         CountedAll' = CountedAll \ {c}, EarlyAll' = EarlyAll,
         abandonedAll' = abandonedAll - 1, dom'[k].abandoned = dom[k].abandoned - 1,
         \A j \in Key : j # k => dom'[j].abandoned = dom[j].abandoned
  PROVE  Abandonments'
<1>1. /\ Counted(k) \subseteq Call /\ Early(k) \subseteq Call
      /\ CountedAll \subseteq Call /\ EarlyAll \subseteq Call
  BY SetsOfCalls
<1>2. /\ Cardinality(Counted(k) \ {c}) = Cardinality(Counted(k)) - 1
      /\ Cardinality(CountedAll \ {c}) = Cardinality(CountedAll) - 1
  BY <1>1, Left
<1>3. /\ Cardinality(Counted(k)) \in Nat /\ Cardinality(Early(k)) \in Nat
      /\ Cardinality(CountedAll) \in Nat /\ Cardinality(EarlyAll) \in Nat
  BY <1>1, CallsAreFinite
<1>4. /\ Counted(k)' = Counted(k) \ {c} /\ Early(k)' = Early(k)
      /\ \A j \in Key : j # k => Counted(j)' = Counted(j) /\ Early(j)' = Early(j)
  OBVIOUS
<1>5. /\ \A j \in Key : dom[j].abandoned = Cardinality(Counted(j)) - Cardinality(Early(j))
      /\ abandonedAll = Cardinality(CountedAll) - Cardinality(EarlyAll)
  BY DEF IInv, Abandonments
<1>6. dom'[k].abandoned = Cardinality(Counted(k)') - Cardinality(Early(k)')
  BY <1>2, <1>3, <1>4, <1>5
<1>7. abandonedAll' = Cardinality(CountedAll') - Cardinality(EarlyAll')
  BY <1>2, <1>3, <1>5
<1>8. \A j \in Key : j # k =>
        dom'[j].abandoned = Cardinality(Counted(j)') - Cardinality(Early(j)')
  BY <1>4, <1>5
<1> QED  BY <1>6, <1>7, <1>8 DEF Abandonments

\* A worker is back before its call counted it.
LEMMA EarlyJoins ==
  ASSUME IInv, NEW c \in Call, NEW k \in Key, c \notin Early(k), c \notin EarlyAll,
         \A j \in Key : /\ Early(j)' = IF j = k THEN Early(j) \cup {c} ELSE Early(j)
                        /\ Counted(j)' = Counted(j),
         EarlyAll' = EarlyAll \cup {c}, CountedAll' = CountedAll,
         abandonedAll' = abandonedAll - 1, dom'[k].abandoned = dom[k].abandoned - 1,
         \A j \in Key : j # k => dom'[j].abandoned = dom[j].abandoned
  PROVE  Abandonments'
<1>1. /\ Counted(k) \subseteq Call /\ Early(k) \subseteq Call
      /\ CountedAll \subseteq Call /\ EarlyAll \subseteq Call
  BY SetsOfCalls
<1>2. /\ Cardinality(Early(k) \cup {c}) = Cardinality(Early(k)) + 1
      /\ Cardinality(EarlyAll \cup {c}) = Cardinality(EarlyAll) + 1
  BY <1>1, Joined
<1>3. /\ Cardinality(Counted(k)) \in Nat /\ Cardinality(Early(k)) \in Nat
      /\ Cardinality(CountedAll) \in Nat /\ Cardinality(EarlyAll) \in Nat
  BY <1>1, CallsAreFinite
<1>4. /\ Early(k)' = Early(k) \cup {c} /\ Counted(k)' = Counted(k)
      /\ \A j \in Key : j # k => Counted(j)' = Counted(j) /\ Early(j)' = Early(j)
  OBVIOUS
<1>5. /\ \A j \in Key : dom[j].abandoned = Cardinality(Counted(j)) - Cardinality(Early(j))
      /\ abandonedAll = Cardinality(CountedAll) - Cardinality(EarlyAll)
  BY DEF IInv, Abandonments
<1>6. dom'[k].abandoned = Cardinality(Counted(k)') - Cardinality(Early(k)')
  BY <1>2, <1>3, <1>4, <1>5
<1>7. abandonedAll' = Cardinality(CountedAll') - Cardinality(EarlyAll')
  BY <1>2, <1>3, <1>5
<1>8. \A j \in Key : j # k =>
        dom'[j].abandoned = Cardinality(Counted(j)') - Cardinality(Early(j)')
  BY <1>4, <1>5
<1> QED  BY <1>6, <1>7, <1>8 DEF Abandonments

\* The worker returns its permit, and takes back an abandonment that was counted.
LEMMA WorkerFinishesKeeps ==
  ASSUME IInv, NEW c \in Call, WorkerFinishes(c)
  PROVE  IInv'
<1>1. PICK k \in Key : k = key[c]  BY DEF IInv, TypeOK
<1>2. /\ worker[c] = "late" /\ state[c] = callSettled /\ pc[c] \in {"abandoning", "done"}
      /\ worker'[c] = "gone" /\ \A x \in Call : x # c => worker'[x] = worker[x]
      /\ pc' = pc /\ state' = state /\ key' = key /\ waited' = waited
  BY DEF IInv, TypeOK, Phases, Phase, WorkerFinishes, callSettled, workerDone
<1>3. /\ c \in Holders(k)
      /\ \A j \in Key : Holders(j)' = IF j = k THEN Holders(j) \ {c} ELSE Holders(j)
  BY <1>1, <1>2 DEF Holders
<1>4. Finish(c, TRUE)  BY DEF WorkerFinishes
<1>5. /\ dom' \in [Key -> Entry]
      /\ \A j \in Key : ~dom'[j].present => dom'[j] = Absent
      /\ abandonedAll' = abandonedAll - 1 /\ woken' \in [Call -> BOOLEAN]
      /\ PermitsCounted'
      /\ \A j \in Key : dom'[j].waiters = dom[j].waiters
      /\ dom'[k].abandoned = dom[k].abandoned - 1
      /\ \A j \in Key : j # k => dom'[j] = dom[j]
      /\ \A x \in Call : pc[x] = "asleep" /\ ~woken'[x] => key[x] # k /\ ~woken[x]
  BY <1>1, <1>3, <1>4, FinishCounts
<1>6. TypeOK'
  <2>1. worker' \in [Call -> {"none", "running", "late", "gone"}]
    BY DEF IInv, TypeOK, WorkerFinishes
  <2>2. abandonedAll' \in Int  BY <1>5 DEF IInv, TypeOK
  <2> QED  BY <1>2, <1>5, <2>1, <2>2 DEF IInv, TypeOK
<1>7. Phases'  BY <1>2 DEF IInv, Phases, Phase, callSettled, workerDone
<1>8. Abandonments'
  <2>1. CASE pc[c] = "done"
    <3>1. /\ c \in Counted(k) /\ c \in CountedAll
          /\ \A j \in Key : /\ Counted(j)' = IF j = k THEN Counted(j) \ {c} ELSE Counted(j)
                            /\ Early(j)' = Early(j)
          /\ CountedAll' = CountedAll \ {c} /\ EarlyAll' = EarlyAll
      BY <1>1, <1>2, <2>1 DEF Counted, Early, CountedAll, EarlyAll
    <3>2. \A j \in Key : j # k => dom'[j].abandoned = dom[j].abandoned  BY <1>5
    <3> QED  BY <1>5, <3>1, <3>2, CountedLeaves
  <2>2. CASE pc[c] = "abandoning"
    <3>1. /\ c \notin Early(k) /\ c \notin EarlyAll
          /\ \A j \in Key : /\ Early(j)' = IF j = k THEN Early(j) \cup {c} ELSE Early(j)
                            /\ Counted(j)' = Counted(j)
          /\ EarlyAll' = EarlyAll \cup {c} /\ CountedAll' = CountedAll
      BY <1>1, <1>2, <2>2 DEF Counted, Early, CountedAll, EarlyAll
    <3>2. \A j \in Key : j # k => dom'[j].abandoned = dom[j].abandoned  BY <1>5
    <3> QED  BY <1>5, <3>1, <3>2, EarlyJoins
  <2> QED  BY <1>2, <2>1, <2>2
<1>9. WaitersCounted'
  <2>1. \A j \in Key : Waiters(j)' = Waiters(j)  BY <1>2 DEF Waiters
  <2> QED  BY <1>5, <2>1 DEF IInv, WaitersCounted
<1>10. NoLostWakeup'
  <2>1. \A x \in Call : key[x] \in Key  BY DEF IInv, TypeOK
  <2> QED  BY <1>2, <1>5, <2>1, StillNoRoom
<1> QED  BY <1>5, <1>6, <1>7, <1>8, <1>9, <1>10 DEF IInv

\* The call takes the worker's answer.
LEMMA CollectKeeps ==
  ASSUME IInv, NEW c \in Call, Collect(c)
  PROVE  IInv'
<1>1. PICK k \in Key : k = key[c]  BY DEF IInv, TypeOK
<1>2. /\ worker[c] = "gone" /\ state[c] = workerDone /\ pc[c] = "working" /\ pc'[c] = "done"
      /\ \A x \in Call : x # c => pc'[x] = pc[x]
      /\ worker' = worker /\ state' = state /\ key' = key /\ waited' = waited
  BY DEF IInv, TypeOK, Phases, Phase, Collect, callSettled, workerDone
<1>3. /\ c \in Holders(k)
      /\ \A j \in Key : Holders(j)' = IF j = k THEN Holders(j) \ {c} ELSE Holders(j)
  BY <1>1, <1>2 DEF Holders
<1>4. Finish(c, FALSE)  BY DEF Collect
<1>5. /\ dom' \in [Key -> Entry]
      /\ \A j \in Key : ~dom'[j].present => dom'[j] = Absent
      /\ abandonedAll' = abandonedAll - 0 /\ woken' \in [Call -> BOOLEAN]
      /\ PermitsCounted'
      /\ \A j \in Key : dom'[j].waiters = dom[j].waiters
      /\ dom'[k].abandoned = dom[k].abandoned - 0
      /\ \A j \in Key : j # k => dom'[j] = dom[j]
      /\ \A x \in Call : pc[x] = "asleep" /\ ~woken'[x] => key[x] # k /\ ~woken[x]
  BY <1>1, <1>3, <1>4, FinishCounts
<1>6. TypeOK'
  <2>1. pc' \in [Call -> {"idle", "acquire", "asleep", "working", "abandoning",
                          "refused", "done"}]
    BY DEF IInv, TypeOK, Collect
  <2>2. abandonedAll' \in Int  BY <1>5 DEF IInv, TypeOK
  <2> QED  BY <1>2, <1>5, <2>1, <2>2 DEF IInv, TypeOK
<1>7. Phases'  BY <1>2 DEF IInv, Phases, Phase, callSettled, workerDone
<1>8. Abandonments'
  <2>1. \A j \in Key : Counted(j)' = Counted(j) /\ Early(j)' = Early(j)
    BY <1>2 DEF Counted, Early, callSettled, workerDone
  <2>2. CountedAll' = CountedAll /\ EarlyAll' = EarlyAll
    BY <1>2 DEF CountedAll, EarlyAll, callSettled, workerDone
  <2>3. abandonedAll' = abandonedAll /\ dom'[k].abandoned = dom[k].abandoned
    BY <1>5 DEF IInv, TypeOK, Entry
  <2>4. \A j \in Key : dom'[j].abandoned = dom[j].abandoned  BY <1>5, <2>3
  <2> QED  BY <2>1, <2>2, <2>3, <2>4 DEF IInv, Abandonments
<1>9. WaitersCounted'
  <2>1. \A j \in Key : Waiters(j)' = Waiters(j)  BY <1>2 DEF Waiters
  <2> QED  BY <1>5, <2>1 DEF IInv, WaitersCounted
<1>10. NoLostWakeup'
  <2>1. \A x \in Call : key[x] \in Key  BY DEF IInv, TypeOK
  <2> QED  BY <1>2, <1>5, <2>1, StillNoRoom
<1> QED  BY <1>5, <1>6, <1>7, <1>8, <1>9, <1>10 DEF IInv

\* The abandonment of a call whose worker is out is counted, and that of one
\* whose worker was back already is settled: the difference grows by one.
LEMMA AbandonmentCounted ==
  ASSUME IInv, NEW c \in Call, NEW k \in Key, key[c] = k, Abandon(c)
  PROVE  /\ \A j \in Key : j # k => Counted(j)' = Counted(j) /\ Early(j)' = Early(j)
         /\ Cardinality(Counted(k)') - Cardinality(Early(k)') =
              Cardinality(Counted(k)) - Cardinality(Early(k)) + 1
         /\ Cardinality(CountedAll') - Cardinality(EarlyAll') =
              Cardinality(CountedAll) - Cardinality(EarlyAll) + 1
<1>1. /\ pc[c] = "abandoning" /\ state[c] = callSettled /\ pc'[c] = "done"
      /\ \A x \in Call : x # c => pc'[x] = pc[x]
      /\ worker' = worker /\ state' = state /\ key' = key
  BY DEF IInv, TypeOK, Phases, Phase, Abandon
<1>2. \A j \in Key : j # k => Counted(j)' = Counted(j) /\ Early(j)' = Early(j)
  BY <1>1 DEF Counted, Early
<1>3. /\ Counted(k) \subseteq Call /\ Early(k) \subseteq Call
      /\ CountedAll \subseteq Call /\ EarlyAll \subseteq Call
  BY SetsOfCalls
<1>4. /\ Cardinality(Counted(k)) \in Nat /\ Cardinality(Early(k)) \in Nat
      /\ Cardinality(CountedAll) \in Nat /\ Cardinality(EarlyAll) \in Nat
  BY <1>3, CallsAreFinite
<1>5. CASE worker[c] = "gone"
  <2>1. /\ c \in Early(k) /\ c \in EarlyAll
        /\ Early(k)' = Early(k) \ {c} /\ Counted(k)' = Counted(k)
        /\ EarlyAll' = EarlyAll \ {c} /\ CountedAll' = CountedAll
    BY <1>1, <1>5 DEF Counted, Early, CountedAll, EarlyAll
  <2>2. /\ Cardinality(Early(k) \ {c}) = Cardinality(Early(k)) - 1
        /\ Cardinality(EarlyAll \ {c}) = Cardinality(EarlyAll) - 1
    BY <1>3, <2>1, Left
  <2> QED  BY <1>2, <1>4, <2>1, <2>2
<1>6. CASE worker[c] # "gone"
  <2>1. /\ c \notin Counted(k) /\ c \notin CountedAll
        /\ Early(k)' = Early(k) /\ Counted(k)' = Counted(k) \cup {c}
        /\ EarlyAll' = EarlyAll /\ CountedAll' = CountedAll \cup {c}
    BY <1>1, <1>6 DEF Counted, Early, CountedAll, EarlyAll
  <2>2. /\ Cardinality(Counted(k) \cup {c}) = Cardinality(Counted(k)) + 1
        /\ Cardinality(CountedAll \cup {c}) = Cardinality(CountedAll) + 1
    BY <1>3, <2>1, Joined
  <2> QED  BY <1>2, <1>4, <2>1, <2>2
<1> QED  BY <1>5, <1>6

\* An abandonment meets the entry it is written to: a permit is out, or a
\* worker that was back first has made the count negative.
LEMMA AbandonmentHasEntry ==
  ASSUME IInv, NEW c \in Call, NEW k \in Key, key[c] = k, Abandon(c)
  PROVE  dom[k].present
<1>1. SUFFICES ASSUME ~dom[k].present  PROVE FALSE
  OBVIOUS
<1>2. dom[k].running = 0 /\ dom[k].abandoned = 0
  BY <1>1 DEF IInv, TypeOK, Absent
<1>3. /\ Holders(k) \subseteq Call /\ Counted(k) \subseteq Holders(k)
      /\ Early(k) \subseteq Call
  BY SetsOfCalls
<1>4. /\ Cardinality(Holders(k)) \in Nat /\ Cardinality(Counted(k)) \in Nat
      /\ Cardinality(Early(k)) \in Nat
      /\ Cardinality(Counted(k)) <= Cardinality(Holders(k))
  BY <1>3, CallsAreFinite, Smaller
<1>5. Cardinality(Holders(k)) = 0  BY <1>2 DEF IInv, PermitsCounted
<1>6. dom[k].abandoned = Cardinality(Counted(k)) - Cardinality(Early(k))
  BY DEF IInv, Abandonments
<1>7. pc[c] = "abandoning" /\ state[c] = callSettled
  BY DEF IInv, Phases, Phase, Abandon
<1>8. CASE worker[c] = "gone"
  <2>1. c \in Early(k)  BY <1>7, <1>8 DEF Early
  <2>2. Cardinality(Early(k)) > 0  BY <1>3, <2>1, Left
  <2> QED  BY <1>2, <1>4, <1>5, <1>6, <2>2
<1>9. CASE worker[c] # "gone"
  <2>1. c \in Holders(k)  BY <1>7, <1>9 DEF Holders
  <2>2. Cardinality(Holders(k)) > 0  BY <1>3, <2>1, Left
  <2> QED  BY <1>5, <2>2
<1> QED  BY <1>8, <1>9

\* The call counts its worker abandoned, unless it is back already.
LEMMA AbandonKeeps ==
  ASSUME IInv, NEW c \in Call, Abandon(c)
  PROVE  IInv'
<1>1. PICK k \in Key : k = key[c]  BY DEF IInv, TypeOK
<1>2. PICK e \in Entry :
        /\ dom' = [dom EXCEPT ![k] = e] /\ e.present
        /\ e.running = dom[k].running /\ e.background = dom[k].background
        /\ e.abandoned = dom[k].abandoned + 1 /\ e.waiters = dom[k].waiters
  <2>1. PICK d : d = dom[k]  OBVIOUS
  <2>2. PICK e : e = [d EXCEPT !.abandoned = @ + 1]  OBVIOUS
  <2>3. dom' = [dom EXCEPT ![k] = e]  BY <1>1, <2>1, <2>2 DEF Abandon
  <2>4. d \in Entry /\ d.present  BY <1>1, <2>1, AbandonmentHasEntry DEF IInv, TypeOK
  <2>5. e \in Entry  BY <2>2, <2>4 DEF Entry
  <2>6. /\ e.present = d.present /\ e.running = d.running /\ e.background = d.background
        /\ e.abandoned = d.abandoned + 1 /\ e.waiters = d.waiters
    BY <2>2, <2>4 DEF Entry
  <2> QED  BY <2>1, <2>3, <2>4, <2>5, <2>6
<1>3. /\ dom' \in [Key -> Entry]
      /\ \A j \in Key : ~dom'[j].present => dom'[j] = Absent
      /\ \A j \in Key : dom'[j] = IF j = k THEN e ELSE dom[j]
  BY <1>2, EntryReplaced
<1>4. /\ pc[c] = "abandoning" /\ state[c] = callSettled /\ pc'[c] = "done"
      /\ \A x \in Call : x # c => pc'[x] = pc[x]
      /\ worker' = worker /\ state' = state /\ key' = key /\ waited' = waited
      /\ abandonedAll' = abandonedAll + 1 /\ woken' \in [Call -> BOOLEAN]
  BY DEF IInv, TypeOK, Phases, Phase, Abandon, CountAbandoned, wake
<1>5. TypeOK'
  <2>1. pc' \in [Call -> {"idle", "acquire", "asleep", "working", "abandoning",
                          "refused", "done"}]
    BY DEF IInv, TypeOK, Abandon
  <2>2. abandonedAll' \in Int  BY <1>4 DEF IInv, TypeOK
  <2> QED  BY <1>3, <1>4, <2>1, <2>2 DEF IInv, TypeOK
<1>6. Phases'  BY <1>4 DEF IInv, Phases, Phase, callSettled, workerDone
<1>7. \A j \in Key : /\ dom'[j].running = dom[j].running
                     /\ dom'[j].background = dom[j].background
                     /\ dom'[j].waiters = dom[j].waiters
                     /\ j # k => dom'[j].abandoned = dom[j].abandoned
  BY <1>2, <1>3
<1>8. PermitsCounted'
  <2>1. \A j \in Key : Holders(j)' = Holders(j)  BY <1>4 DEF Holders
  <2> QED  BY <1>7, <2>1 DEF IInv, PermitsCounted
<1>9. Abandonments'
  <2>1. /\ \A j \in Key : j # k => Counted(j)' = Counted(j) /\ Early(j)' = Early(j)
        /\ Cardinality(Counted(k)') - Cardinality(Early(k)') =
             Cardinality(Counted(k)) - Cardinality(Early(k)) + 1
        /\ Cardinality(CountedAll') - Cardinality(EarlyAll') =
             Cardinality(CountedAll) - Cardinality(EarlyAll) + 1
    BY <1>1, AbandonmentCounted
  <2>2. /\ \A j \in Key : dom[j].abandoned = Cardinality(Counted(j)) - Cardinality(Early(j))
        /\ abandonedAll = Cardinality(CountedAll) - Cardinality(EarlyAll)
    BY DEF IInv, Abandonments
  <2>3. dom'[k].abandoned = Cardinality(Counted(k)') - Cardinality(Early(k)')
    BY <1>2, <1>3, <2>1, <2>2
  <2>4. \A j \in Key : j # k =>
          dom'[j].abandoned = Cardinality(Counted(j)') - Cardinality(Early(j)')
    BY <1>7, <2>1, <2>2
  <2>5. abandonedAll' = Cardinality(CountedAll') - Cardinality(EarlyAll')
    BY <1>4, <2>1, <2>2
  <2> QED  BY <2>3, <2>4, <2>5 DEF Abandonments
<1>10. WaitersCounted'
  <2>1. \A j \in Key : Waiters(j)' = Waiters(j)  BY <1>4 DEF Waiters
  <2> QED  BY <1>7, <2>1 DEF IInv, WaitersCounted
<1>11. NoLostWakeup'
  <2>1. \A x \in Call : key[x] \in Key  BY DEF IInv, TypeOK
  <2>2. \A x \in Call : pc'[x] = "asleep" /\ ~woken'[x] => pc[x] = "asleep" /\ ~woken[x]
    BY <1>4 DEF IInv, TypeOK, Abandon, wake
  <2> QED  BY <1>4, <1>7, <2>1, <2>2, StillNoRoom
<1> QED  BY <1>5, <1>6, <1>8, <1>9, <1>10, <1>11 DEF IInv

-----------------------------------------------------------------------------
\* Nothing is in flight at the start.
LEMMA InitAccounted == Init => IInv
<1> SUFFICES ASSUME Init PROVE IInv
  OBVIOUS
<1> USE DEF Init
<1>1. TypeOK  BY DEF TypeOK, Entry, Absent
<1>2. Phases  BY DEF Phases, Phase
<1>3. /\ \A k \in Key : /\ Holders(k) = {} /\ Counted(k) = {} /\ Early(k) = {}
                        /\ Waiters(k) = {}
      /\ CountedAll = {} /\ EarlyAll = {}
  BY DEF Holders, Counted, Early, Waiters, CountedAll, EarlyAll
<1>4. Cardinality({}) = 0  BY FS_EmptySet
<1>5. \A k \in Key : /\ dom[k].running = 0 /\ dom[k].background = 0
                     /\ dom[k].abandoned = 0 /\ dom[k].waiters = 0
  BY DEF Absent
<1>6. WaitersCounted  BY <1>3, <1>4, <1>5 DEF WaitersCounted
<1>7. PermitsCounted
  <2>1. PerDomain \in Nat \ {0} /\ PersonReserve \in 0..(PerDomain - 1)
    BY OptionsAssumption
  <2>2. \A k \in Key : Holders(k) \intersect Background = {}  BY <1>3
  <2>3. 0 <= PerDomain /\ 0 <= PerDomain - PersonReserve  BY <2>1
  <2> QED  BY <1>3, <1>4, <1>5, <2>2, <2>3 DEF PermitsCounted
<1>8. Abandonments  BY <1>3, <1>4, <1>5 DEF Abandonments
<1>9. NoLostWakeup  BY DEF NoLostWakeup
<1> QED  BY <1>1, <1>2, <1>6, <1>7, <1>8, <1>9 DEF IInv

\* No step of a call or a worker breaks it.
LEMMA NextAccounted == IInv /\ [Next]_vars => IInv'
<1> SUFFICES ASSUME IInv, [Next]_vars PROVE IInv'
  OBVIOUS
<1>1. CASE UNCHANGED vars
  <2>1. TypeOK' /\ Phases'  BY <1>1 DEF vars, IInv, TypeOK, Phases, Phase
  <2>2. WaitersCounted'  BY <1>1 DEF vars, IInv, WaitersCounted, Waiters
  <2>3. PermitsCounted'  BY <1>1 DEF vars, IInv, PermitsCounted, Holders
  <2>4. Abandonments'
    BY <1>1 DEF vars, IInv, Abandonments, Counted, Early, CountedAll, EarlyAll
  <2>5. NoLostWakeup'  BY <1>1 DEF vars, IInv, NoLostWakeup, fits
  <2> QED  BY <2>1, <2>2, <2>3, <2>4, <2>5 DEF IInv
<1>2. CASE Next
  <2>1. PICK c \in Call :
          \/ Start(c) \/ Refuse(c) \/ Grant(c) \/ Wait(c) \/ Wake(c) \/ TurnExpires(c)
          \/ Settle(c) \/ WorkerReturns(c) \/ WorkerFinishes(c) \/ Collect(c) \/ Abandon(c)
    BY <1>2 DEF Next, Running
  <2>2. CASE Start(c)           BY <2>2, StartKeeps
  <2>3. CASE Refuse(c)          BY <2>3, RefuseKeeps
  <2>4. CASE Grant(c)           BY <2>4, GrantKeeps
  <2>5. CASE Wait(c)            BY <2>5, WaitKeeps
  <2>6. CASE Wake(c)            BY <2>6, WakeKeeps
  <2>7. CASE TurnExpires(c)     BY <2>7, TurnExpiresKeeps
  <2>8. CASE Settle(c)          BY <2>8, SettleKeeps
  <2>9. CASE WorkerReturns(c)   BY <2>9, WorkerReturnsKeeps
  <2>10. CASE WorkerFinishes(c) BY <2>10, WorkerFinishesKeeps
  <2>11. CASE Collect(c)        BY <2>11, CollectKeeps
  <2>12. CASE Abandon(c)        BY <2>12, AbandonKeeps
  <2> QED  BY <2>1, <2>2, <2>3, <2>4, <2>5, <2>6, <2>7, <2>8, <2>9, <2>10, <2>11, <2>12
<1> QED  BY <1>1, <1>2

\* Whatever the calls, their origins, their domains and the options: every
\* permit is given back once and no domain holds more than it may, every
\* abandonment is counted and uncounted once, and no call sleeps through the
\* release that would have let it go on (Registry.Do, acquire and finish).
THEOREM EverythingAccounted == Spec => []Accounted
<1>1. Init => IInv  BY InitAccounted
<1>2. IInv /\ [Next]_vars => IInv'  BY NextAccounted
<1>3. IInv => Accounted
  <2> SUFFICES ASSUME IInv PROVE Accounted
    OBVIOUS
  <2>1. /\ UNION {Counted(k) : k \in Key} = CountedAll
        /\ UNION {Early(k) : k \in Key} = EarlyAll
    BY AllDomains DEF IInv
  <2>2. AbandonedCounted
    BY <2>1 DEF IInv, Abandonments, AbandonedCounted, Counted, Early
  <2> QED  BY <2>2 DEF IInv, Accounted
<1> QED  BY <1>1, <1>2, <1>3, PTL DEF Spec

=============================================================================
