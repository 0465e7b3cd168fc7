-------------------------- MODULE SessionOwnerProofs --------------------------
(***************************************************************************)
(* Proofs about SessionOwner: for any tokens, payloads, looks and bounds,  *)
(* everybody who is accepted is answered once, a one-shot target is spent  *)
(* once, and nothing stale is written.                                     *)
(*                                                                         *)
(* What is not answered stands in the channel, in the queue or in the      *)
(* writer's hand, and the three are told apart by the order of acceptance: *)
(* the numbers rise along the channel and along the queue, and the queue's *)
(* lie below the channel's (Standing).  That is also why the head of the   *)
(* queue is the oldest that waits.  A target's slot is tied to the one     *)
(* presentation that is queued or being written (Slot), and an intent that *)
(* is queued has the epoch that holds (Fence): a bump sweeps the others.   *)
(*                                                                         *)
(* Two proofs are about queues from which members are taken (Without):     *)
(* Counting numbers the members of a finite set by how many lie below      *)
(* them, so that no induction over the queue is needed.                    *)
(***************************************************************************)
EXTENDS SessionOwner, SequenceTheorems, FiniteSetTheorems, TLAPS

-----------------------------------------------------------------------------
(* The invariant.                                                          *)

\* The three places of what is not answered.
Called == Range(incoming)
Queued == Range(pending) \cap Item
InFlight == {flight} \cap Item

Numbered(q) == \A j, k \in DOMAIN q : j < k /\ q[j] \in Item /\ q[k] \in Item => q[j] < q[k]
Unread == proc.left + proc.unread <= MaxOutput
\* Whoever is not answered stands in one place, in the order of acceptance.
Standing ==
  /\ Called \cup Queued \cup InFlight = Waiting
  /\ Numbered(incoming) /\ Numbered(pending)
  /\ \A i \in Queued, k \in Called : i < k
  /\ InFlight \cap (Called \cup Queued) = {}
Slots == used = Freed(Waiting)

\* Answers of the emulator's in the queue and in the writer's hand.
Marks(q) == {k \in DOMAIN q : q[k] = Reply}
Pledged == Cardinality(Marks(pending)) + (IF flight = Reply THEN 1 ELSE 0)
Replies == Pledged <= reserved

Shutdown ==
  /\ own.closing => stop # "no" /\ Called = {} /\ Queued = {}
  /\ own.stopped => own.closing /\ own.eof /\ flight = None /\ pending = <<>>
  /\ detach # "no" => ~proc.local

\* What an item is, and where it may stand.
Shape(i) ==
  /\ items[i].kind = "intent" <=> Tokened(i)
  /\ Tokened(i) => items[i].payload \in Payload
  /\ items[i].epoch <= own.epoch
  /\ items[i].handed => i \notin Called \cup Queued
  /\ i \in InFlight => items[i].handed
  /\ items[i].kind = "bump" => i \notin Queued \cup InFlight
  /\ i \in Queued \cup InFlight /\ Tokened(i) => proc.local
Shapes == \A i \in Accepted : Shape(i)

\* The fence: an answered bump has moved it, and no older intent waits behind it.
Fence ==
  /\ \A i \in Accepted : items[i].kind = "bump" /\ items[i].answer # None => items[i].epoch < own.epoch
  /\ \A i \in Queued : Tokened(i) => items[i].epoch = own.epoch

\* A target's presentations.
Of(t) == {i \in Accepted : items[i].token = t}
BindingOf(i) == [payload |-> items[i].payload, epoch |-> items[i].epoch]
Live(t) == Of(t) \cap (Queued \cup InFlight)
Written(t) == {i \in Of(t) : items[i].handed}
Slot(t) ==
  LET live == Live(t)
      written == Written(t)
      slot == book[t]
  IN
  /\ slot.bound = None => slot.result = None /\ live = {} /\ written = {}
  /\ \A i \in live : slot.bound = BindingOf(i) /\ slot.result = None
  /\ \A i, j \in live : i = j
  /\ slot.bound # None /\ slot.result = None => live # {}
  /\ \A i \in written : slot.bound # None /\ slot.bound.payload = items[i].payload
  /\ \A i, j \in written : i = j
  /\ \A i \in written : i \in InFlight \/ slot.result \in {"executed", "failed"}
  /\ slot.result \in {"executed", "failed"} => written # {}
  /\ slot.result # "unknown"
Targets == \A t \in Token : Slot(t)

IInv == /\ TypeOK /\ Unread /\ Standing /\ Slots /\ Replies
        /\ Shutdown /\ Shapes /\ Fence /\ Targets

-----------------------------------------------------------------------------
(* Queues from which members are taken.                                    *)

\* A finite set of numbers is counted up by its members: the k-th is the one with k
\* members up to it.
LEMMA Counting ==
  ASSUME NEW n \in Nat, NEW S \in SUBSET (1..n)
  PROVE  LET Rank(i) == Cardinality({j \in S : j <= i}) IN
         /\ Cardinality(S) \in Nat
         /\ \A i \in S : Rank(i) \in 1..Cardinality(S)
         /\ \A i, j \in S : i < j => Rank(i) < Rank(j)
         /\ \A k \in 1..Cardinality(S) : \E i \in S : Rank(i) = k
<1> DEFINE Upto(i) == {j \in S : j <= i}
           Rank(i) == Cardinality(Upto(i))
<1>1. IsFiniteSet(S) /\ \A i \in S : IsFiniteSet(Upto(i))
  <2>1. IsFiniteSet(1..n)  BY FS_Interval
  <2>2. \A T \in SUBSET (1..n) : IsFiniteSet(T)  BY <2>1, FS_Subset
  <2> QED  BY <2>2
<1>2. Cardinality(S) \in Nat /\ \A i \in S : Rank(i) \in Nat
  BY <1>1, FS_CardinalityType
<1>3. ASSUME NEW i \in S PROVE Rank(i) \in 1..Cardinality(S)
  <2>1. Upto(i) \subseteq S  OBVIOUS
  <2>2. Rank(i) <= Cardinality(S)  BY <1>1, <2>1, FS_Subset
  <2>3. Upto(i) # {}  OBVIOUS
  <2>4. Rank(i) # 0  BY <1>1, <2>3, FS_EmptySet
  <2> QED  BY <1>2, <2>2, <2>4
<1>4. ASSUME NEW i \in S, NEW j \in S, i < j PROVE Rank(i) < Rank(j)
  <2>0. i \in Int /\ j \in Int /\ \A k \in S : k \in Int  OBVIOUS
  <2>3. j \in Upto(j) /\ j \notin Upto(i)  BY <1>4, <2>0
  <2>5. \A k \in S : k <= i => k <= j  BY <1>4, <2>0
  <2>4. Upto(i) \subseteq Upto(j)  BY <2>5
  <2>1. Upto(i) \subseteq Upto(j) /\ Upto(i) # Upto(j)  BY <2>3, <2>4, Zenon
  <2>2. Rank(i) <= Rank(j) /\ (Rank(i) = Rank(j) => Upto(i) = Upto(j))
    BY <1>1, <2>1, FS_Subset
  <2> QED  BY <1>2, <2>1, <2>2
<1>5. \A k \in 1..Cardinality(S) : \E i \in S : Rank(i) = k
  <2> DEFINE r == [i \in S |-> Rank(i)]
  <2>2. \A i, j \in S : r[i] = r[j] => i = j
    <3> TAKE i, j \in S
    <3>1. i \in Int /\ j \in Int  OBVIOUS
    <3>2. i < j \/ j < i \/ i = j  BY <3>1
    <3> QED  BY <1>2, <1>4, <3>2
  <2>3. r \in Injection(S, 1..Cardinality(S))
    BY <1>3, <2>2 DEF Injection, IsInjective
  <2>4. IsFiniteSet(1..Cardinality(S)) /\ Cardinality(1..Cardinality(S)) = Cardinality(S)
    BY <1>2, FS_Interval
  <2>5. r \in Surjection(S, 1..Cardinality(S))
    BY <2>3, <2>4, FS_Injection
  <2> QED  BY <2>5 DEF Surjection
<1> QED  BY <1>2, <1>3, <1>4, <1>5

\* What Without leaves, it leaves in its order, and it leaves all that is not in D.
LEMMA WithoutKeeps ==
  ASSUME NEW A, NEW q \in Seq(A), NEW D, NEW w, w = Without(q, D)
  PROVE  /\ w \in Seq(A)
         /\ \E h \in [DOMAIN w -> DOMAIN q] :
              /\ \A k \in DOMAIN w : w[k] = q[h[k]] /\ w[k] \notin D
              /\ \A k, l \in DOMAIN w : k < l => h[k] < h[l]
              /\ \A i \in DOMAIN q : q[i] \notin D => \E k \in DOMAIN w : h[k] = i
<1> DEFINE kept == {i \in DOMAIN q : q[i] \notin D}
           Rank(i) == Cardinality({j \in kept : j <= i})
           n == Cardinality(kept)
           h == [k \in 1..n |-> CHOOSE i \in kept : Rank(i) = k]
<1>1. DOMAIN q = 1..Len(q) /\ Len(q) \in Nat /\ kept \in SUBSET (1..Len(q))
  OBVIOUS
<1>2. /\ n \in Nat
      /\ \A i \in kept : Rank(i) \in 1..n
      /\ \A i, j \in kept : i < j => Rank(i) < Rank(j)
      /\ \A k \in 1..n : \E i \in kept : Rank(i) = k
  BY <1>1, Counting
<1>3. w = [k \in 1..n |-> q[h[k]]]  BY DEF Without
<1> HIDE DEF n, Rank
<1>4. \A k \in 1..n : h[k] \in kept /\ Rank(h[k]) = k
  <2> TAKE k \in 1..n
  <2>1. \E i \in kept : Rank(i) = k  BY <1>2
  <2>2. h[k] = CHOOSE i \in kept : Rank(i) = k  OBVIOUS
  <2> HIDE DEF h
  <2> QED  BY <2>1, <2>2, Zenon
<1> HIDE DEF h
<1>5. DOMAIN w = 1..n /\ \A k \in 1..n : w[k] = q[h[k]]  BY <1>3
<1>6. w \in Seq(A)
  <2>1. \A k \in 1..n : q[h[k]] \in A  BY <1>1, <1>4, ElementOfSeq
  <2>2. w \in [1..n -> A]  BY <1>3, <2>1
  <2> QED  BY <1>2, <2>2, SeqDef
<1>7. h \in [DOMAIN w -> DOMAIN q]  BY <1>4, <1>5 DEF h
<1>8. ASSUME NEW k \in DOMAIN w, NEW l \in DOMAIN w, k < l PROVE h[k] < h[l]
  <2>1. k \in 1..n /\ l \in 1..n  BY <1>5
  <2>2. h[k] \in kept /\ h[l] \in kept /\ Rank(h[k]) = k /\ Rank(h[l]) = l  BY <1>4, <2>1
  <2>3. h[k] \in Nat /\ h[l] \in Nat  BY <1>1, <2>2
  <2>4. h[l] < h[k] => FALSE  BY <1>2, <1>8, <2>1, <2>2
  <2>5. h[l] = h[k] => FALSE  BY <1>8, <2>1, <2>2
  <2> QED  BY <2>3, <2>4, <2>5
<1>9. ASSUME NEW i \in DOMAIN q, q[i] \notin D PROVE \E k \in DOMAIN w : h[k] = i
  <2>1. i \in kept /\ Rank(i) \in 1..n  BY <1>2, <1>9
  <2>2. h[Rank(i)] \in kept /\ Rank(h[Rank(i)]) = Rank(i)  BY <1>4, <2>1
  <2>3. i \in Nat /\ h[Rank(i)] \in Nat  BY <1>1, <2>1, <2>2
  <2>4. \A a, b \in 1..n : a < b => a # b  BY <1>2
  <2>5. h[Rank(i)] = i  BY <1>2, <2>1, <2>2, <2>3, <2>4
  <2> QED  BY <1>5, <2>1, <2>5
<1>10. \A k \in DOMAIN w : w[k] = q[h[k]] /\ w[k] \notin D  BY <1>4, <1>5
<1> QED  BY <1>6, <1>7, <1>8, <1>9, <1>10

-----------------------------------------------------------------------------
(* The queue's four moves: members leave it, its head leaves it, an item   *)
(* joins it, an answer of the emulator's joins it.                         *)

Entry == Item \cup {Reply}

\* Answers of the emulator's can be counted.
LEMMA MarksAreFinite ==
  ASSUME NEW q \in Seq(Entry)
  PROVE  IsFiniteSet(Marks(q)) /\ Cardinality(Marks(q)) \in Nat
<1>1. DOMAIN q = 1..Len(q) /\ Len(q) \in Nat  OBVIOUS
<1>2. IsFiniteSet(1..Len(q))  BY <1>1, FS_Interval
<1>3. Marks(q) \in SUBSET (1..Len(q))  BY <1>1 DEF Marks
<1> QED  BY <1>2, <1>3, FS_Subset, FS_CardinalityType

\* Members that are taken out leave the rest in its order, and add no answer of the
\* emulator's.
LEMMA TakenOut ==
  ASSUME NEW q \in Seq(Entry), Numbered(q), NEW D, Reply \notin D, NEW w, w = Without(q, D)
  PROVE  /\ w \in Seq(Entry) /\ Range(w) = Range(q) \ D /\ Numbered(w)
         /\ Cardinality(Marks(w)) <= Cardinality(Marks(q))
<1>1. w \in Seq(Entry)  BY WithoutKeeps
<1>2. PICK h \in [DOMAIN w -> DOMAIN q] :
        /\ \A k \in DOMAIN w : w[k] = q[h[k]] /\ w[k] \notin D
        /\ \A k, l \in DOMAIN w : k < l => h[k] < h[l]
        /\ \A i \in DOMAIN q : q[i] \notin D => \E k \in DOMAIN w : h[k] = i
  BY WithoutKeeps
<1>3. Range(w) = Range(q) \ D
  <2>1. \A k \in DOMAIN w : h[k] \in DOMAIN q  OBVIOUS
  <2>2. Range(w) \subseteq Range(q) \ D  BY <1>2, <2>1 DEF Range
  <2>3. \A i \in DOMAIN q : q[i] \notin D => \E k \in DOMAIN w : w[k] = q[i]
    BY <1>2
  <2> QED  BY <2>2, <2>3 DEF Range
<1>4. Numbered(w)
  <2>1. \A k \in DOMAIN w : h[k] \in DOMAIN q  OBVIOUS
  <2> QED  BY <1>2, <2>1 DEF Numbered
<1>5. Cardinality(Marks(w)) <= Cardinality(Marks(q))
  <2> DEFINE g == [k \in Marks(w) |-> h[k]]
  <2>1. g \in [Marks(w) -> Marks(q)]  BY <1>2 DEF Marks
  <2>2. \A k, l \in Marks(w) : g[k] = g[l] => k = l
    <3> TAKE k, l \in Marks(w)
    <3>1. k \in DOMAIN w /\ l \in DOMAIN w  BY DEF Marks
    <3>2. k \in Nat /\ l \in Nat  BY <1>1, <3>1
    <3>3. h[k] \in Nat /\ h[l] \in Nat  BY <3>1
    <3>4. k < l \/ l < k \/ k = l  BY <3>2
    <3> QED  BY <1>2, <3>1, <3>3, <3>4
  <2>3. g \in Injection(Marks(w), Marks(q))  BY <2>1, <2>2 DEF Injection, IsInjective
  <2> QED  BY <2>3, MarksAreFinite, FS_Injection
<1> QED  BY <1>1, <1>3, <1>4, <1>5

\* The head comes before every other item, and if it is an answer there is one fewer.
LEMMA HeadTaken ==
  ASSUME NEW q \in Seq(Entry), q # <<>>, Numbered(q)
  PROVE  /\ Tail(q) \in Seq(Entry) /\ Head(q) \in Entry
         /\ Range(q) = Range(Tail(q)) \cup {Head(q)} /\ Numbered(Tail(q))
         /\ Head(q) \in Item => \A i \in Range(Tail(q)) \cap Item : Head(q) < i
         /\ Cardinality(Marks(Tail(q))) <=
              Cardinality(Marks(q)) - (IF Head(q) = Reply THEN 1 ELSE 0)
<1>1. /\ Tail(q) \in Seq(Entry) /\ Head(q) \in Entry /\ Head(q) = q[1]
      /\ Len(q) \in Nat /\ Len(q) >= 1 /\ DOMAIN q = 1..Len(q) /\ DOMAIN Tail(q) = 1..Len(q) - 1
      /\ \A k \in 1..Len(q) - 1 : Tail(q)[k] = q[k + 1]
  OBVIOUS
<1>2. \A k \in 1..Len(q) - 1 : k + 1 \in 1..Len(q) /\ 1 < k + 1  BY <1>1
<1>3. \A k \in 1..Len(q) : k = 1 \/ (k - 1 \in 1..Len(q) - 1 /\ (k - 1) + 1 = k)  BY <1>1
<1>4. Range(q) = Range(Tail(q)) \cup {Head(q)}
  <2>0. \A k \in 1..Len(q) : q[k] = Head(q) \/ q[k] = Tail(q)[k - 1]  BY <1>1, <1>3
  <2>1. \A k \in DOMAIN q : q[k] \in Range(Tail(q)) \cup {Head(q)}  BY <1>1, <1>3, <2>0 DEF Range
  <2>2. Range(Tail(q)) \subseteq Range(q)  BY <1>1, <1>2 DEF Range
  <2>3. Head(q) \in Range(q)  BY <1>1 DEF Range
  <2> QED  BY <2>1, <2>2, <2>3 DEF Range
<1>5. Numbered(Tail(q))  BY <1>1, <1>2 DEF Numbered
<1>6. Head(q) \in Item => \A i \in Range(Tail(q)) \cap Item : Head(q) < i
  BY <1>1, <1>2 DEF Numbered, Range
<1>7. Cardinality(Marks(Tail(q))) <= Cardinality(Marks(q)) - (IF Head(q) = Reply THEN 1 ELSE 0)
  <2> DEFINE M == Marks(q) \ {1}
             g == [k \in Marks(Tail(q)) |-> k + 1]
  <2>1. g \in [Marks(Tail(q)) -> M]  BY <1>1, <1>2 DEF Marks
  <2>2. \A k, l \in Marks(Tail(q)) : g[k] = g[l] => k = l  BY <1>1 DEF Marks
  <2>3. g \in Injection(Marks(Tail(q)), M)  BY <2>1, <2>2 DEF Injection, IsInjective
  <2>4. /\ IsFiniteSet(M)
        /\ Cardinality(M) = IF 1 \in Marks(q) THEN Cardinality(Marks(q)) - 1
                            ELSE Cardinality(Marks(q))
    BY MarksAreFinite, FS_RemoveElement
  <2>5. 1 \in Marks(q) <=> Head(q) = Reply  BY <1>1 DEF Marks
  <2>6. Cardinality(Marks(Tail(q))) <= Cardinality(M)  BY <2>3, <2>4, FS_Injection
  <2>7. Cardinality(Marks(q)) \in Nat  BY MarksAreFinite
  <2> HIDE DEF M
  <2> QED  BY <2>4, <2>5, <2>6, <2>7
<1> QED  BY <1>1, <1>4, <1>5, <1>6, <1>7

\* What joins behind every item of the queue keeps its order.
LEMMA Joined ==
  ASSUME NEW q \in Seq(Entry), Numbered(q), NEW i \in Entry,
         i \in Item => \A k \in Range(q) \cap Item : k < i
  PROVE  /\ Append(q, i) \in Seq(Entry) /\ Range(Append(q, i)) = Range(q) \cup {i}
         /\ Numbered(Append(q, i))
         /\ Cardinality(Marks(Append(q, i))) <= Cardinality(Marks(q)) + (IF i = Reply THEN 1 ELSE 0)
<1> DEFINE w == Append(q, i)
           n == Len(q) + 1
<1>1. /\ w \in Seq(Entry) /\ Len(q) \in Nat /\ DOMAIN q = 1..Len(q) /\ DOMAIN w = 1..n
      /\ \A k \in 1..Len(q) : w[k] = q[k]
      /\ w[n] = i
  OBVIOUS
<1>2. \A k \in 1..n : k = n \/ k \in 1..Len(q)  BY <1>1
<1>3. \A k \in 1..Len(q) : k \in 1..n /\ k < n /\ ~(n < k)  BY <1>1
<1>4. n \in 1..n /\ ~(n < n)  BY <1>1
<1> HIDE DEF w, n
<1>5. Range(w) = Range(q) \cup {i}  BY <1>1, <1>2, <1>3, <1>4 DEF Range
<1>6. Numbered(w)
  <2> SUFFICES ASSUME NEW j \in 1..n, NEW k \in 1..n, j < k, w[j] \in Item, w[k] \in Item
               PROVE  w[j] < w[k]
    BY <1>1 DEF Numbered
  <2>1. j \in 1..Len(q)  BY <1>2, <1>3, <1>4
  <2>2. CASE k = n  BY <1>1, <2>1, <2>2 DEF Range
  <2>3. CASE k \in 1..Len(q)  BY <1>1, <2>1, <2>3 DEF Numbered
  <2> QED  BY <1>2, <2>2, <2>3
<1>7. Cardinality(Marks(w)) <= Cardinality(Marks(q)) + (IF i = Reply THEN 1 ELSE 0)
  <2>1. Marks(w) = IF i = Reply THEN Marks(q) \cup {n} ELSE Marks(q)
    BY <1>1, <1>2, <1>3, <1>4 DEF Marks
  <2>2. IsFiniteSet(Marks(q)) /\ Cardinality(Marks(q)) \in Nat  BY MarksAreFinite
  <2>3. Cardinality(Marks(q) \cup {n}) \in {Cardinality(Marks(q)), Cardinality(Marks(q)) + 1}
    BY <2>2, FS_AddElement, Zenon
  <2> QED  BY <2>1, <2>2, <2>3
<1> QED  BY <1>1, <1>5, <1>6, <1>7 DEF w

\* The emulator answers, or does not.
LEMMA Answers ==
  ASSUME NEW q \in Seq(Entry), Numbered(q), NEW asks \in BOOLEAN, NEW w, w = q \o Replied(asks)
  PROVE  /\ w \in Seq(Entry) /\ Range(w) \cap Item = Range(q) \cap Item /\ Numbered(w)
         /\ Cardinality(Marks(w)) <=
              Cardinality(Marks(q)) + (IF asks /\ ReplyFits THEN 1 ELSE 0)
<1>1. CASE asks /\ ReplyFits
  <2>1. w = Append(q, Reply)  BY <1>1 DEF Replied
  <2>2. Reply \in Entry /\ Reply \notin Item  BY MarksAssumption DEF Entry, Item
  <2>3. /\ w \in Seq(Entry) /\ Range(w) = Range(q) \cup {Reply} /\ Numbered(w)
        /\ Cardinality(Marks(w)) <= Cardinality(Marks(q)) + 1
    BY <2>1, <2>2, Joined
  <2> QED  BY <1>1, <2>2, <2>3
<1>2. CASE ~(asks /\ ReplyFits)
  <2>1. w = q  BY <1>2 DEF Replied
  <2> QED  BY <1>2, <2>1, MarksAreFinite
<1> QED  BY <1>1, <1>2

-----------------------------------------------------------------------------
(* Types, variable by variable.                                            *)

ProcT == [local: BOOLEAN, left: 0..MaxOutput, unread: 0..MaxOutput, ended: BOOLEAN, closed: BOOLEAN]
ScreenT == [size: Size, look: Look, complete: BOOLEAN]
ItemT == [kind: Ordinary \cup {"bump"}, token: Token \cup {None},
          payload: Payload \cup {None}, epoch: Nat, late: BOOLEAN,
          handed: BOOLEAN, answer: Settled \cup {None}]
OwnT == [epoch: Nat, closing: BOOLEAN, eof: BOOLEAN, stopped: BOOLEAN]
SlotT == [minted: BOOLEAN, size: Size, look: Look,
          expired: BOOLEAN, bound: Binding \cup {None}, result: Settled \cup {None}]

\* TypeOK, by the names the proofs use.
LEMMA TypesAre ==
  TypeOK <=>
    /\ proc \in ProcT /\ screen \in ScreenT /\ items \in Seq(ItemT)
    /\ incoming \in Seq(Item) /\ pending \in Seq(Entry) /\ flight \in Entry \cup {None}
    /\ used \in 0..MaxQueue /\ reserved \in 0..ReplyReserve /\ own \in OwnT
    /\ stop \in {"no", "asked", "gaveUp", "closed"} /\ detach \in {"no", "pending", "done"}
    /\ book \in [Token -> SlotT]
BY DEF TypeOK, ProcT, ScreenT, ItemT, OwnT, SlotT, Entry

\* The same of the next state.
LEMMA TypesAreNext ==
  TypeOK' <=>
    /\ proc' \in ProcT /\ screen' \in ScreenT /\ items' \in Seq(ItemT)
    /\ incoming' \in Seq(Item) /\ pending' \in Seq(Entry) /\ flight' \in Entry \cup {None}
    /\ used' \in 0..MaxQueue /\ reserved' \in 0..ReplyReserve /\ own' \in OwnT
    /\ stop' \in {"no", "asked", "gaveUp", "closed"} /\ detach' \in {"no", "pending", "done"}
    /\ book' \in [Token -> SlotT]
BY DEF TypeOK, ProcT, ScreenT, ItemT, OwnT, SlotT, Entry

\* An item by its number.
LEMMA ItemsAre ==
  ASSUME TypeOK
  PROVE  /\ Accepted = 1..Len(items) /\ Len(items) \in Nat
         /\ \A i \in Accepted : items[i] \in ItemT
BY TypesAre, ElementOfSeq DEF Accepted

\* No mark is an item, a token or an answer.
LEMMA MarksApart ==
  /\ None \notin Token /\ None \notin Item /\ Reply \notin Item /\ None # Reply
  /\ None \notin Settled /\ None \notin Binding /\ None \notin Payload
BY MarksAssumption DEF Item

\* The items of S get their answer, and nothing else about anyone changes.
LEMMA AnsweredAre ==
  ASSUME TypeOK, NEW S, NEW a \in Settled
  PROVE  /\ Answered(S, a) \in Seq(ItemT) /\ DOMAIN Answered(S, a) = Accepted
         /\ \A i \in Accepted :
              Answered(S, a)[i] = IF i \in S THEN [items[i] EXCEPT !.answer = a] ELSE items[i]
<1>1. /\ Accepted = 1..Len(items) /\ Len(items) \in Nat
      /\ \A i \in Accepted : items[i] \in ItemT
  BY ItemsAre
<1>2. \A i \in Accepted : [items[i] EXCEPT !.answer = a] \in ItemT  BY <1>1 DEF ItemT
<1>3. Answered(S, a) = [i \in Accepted |-> IF i \in S THEN [items[i] EXCEPT !.answer = a] ELSE items[i]]
  BY DEF Answered, Accepted
<1>4. Answered(S, a) \in [1..Len(items) -> ItemT]  BY <1>1, <1>2, <1>3
<1> QED  BY <1>1, <1>3, <1>4, SeqDef

-----------------------------------------------------------------------------
(* What a step leaves of the items.                                        *)

\* Nobody's number, kind, target, epoch or writing changes.
SameItems ==
  /\ DOMAIN items' = Accepted
  /\ \A i \in Accepted :
       /\ items'[i].kind = items[i].kind /\ items'[i].token = items[i].token
       /\ items'[i].payload = items[i].payload /\ items'[i].epoch = items[i].epoch
SameWriting == \A i \in Accepted : items'[i].handed = items[i].handed
\* Exactly those of S are answered, and their slots come back.
Settles(S) ==
  /\ \A i \in Accepted : IF i \in S THEN items'[i].answer # None
                                    ELSE items'[i].answer = items[i].answer
  /\ used' = used - Freed(S)

\* Answer changes the answers of S, and their slots, and nothing else.
LEMMA AnswerSettles ==
  ASSUME TypeOK, NEW S, NEW a \in Settled, Answer(S, a)
  PROVE  /\ items' \in Seq(ItemT) /\ SameItems /\ SameWriting /\ Settles(S)
<1>1. /\ items' \in Seq(ItemT) /\ DOMAIN items' = Accepted
      /\ \A i \in Accepted :
           items'[i] = IF i \in S THEN [items[i] EXCEPT !.answer = a] ELSE items[i]
  BY AnsweredAre DEF Answer
<1>2. \A i \in Accepted :
        /\ [items[i] EXCEPT !.answer = a].answer = a
        /\ [items[i] EXCEPT !.answer = a].kind = items[i].kind
        /\ [items[i] EXCEPT !.answer = a].token = items[i].token
        /\ [items[i] EXCEPT !.answer = a].payload = items[i].payload
        /\ [items[i] EXCEPT !.answer = a].epoch = items[i].epoch
        /\ [items[i] EXCEPT !.answer = a].handed = items[i].handed
  BY ItemsAre DEF ItemT
<1>3. \A i \in Accepted :
        /\ items'[i].kind = items[i].kind /\ items'[i].token = items[i].token
        /\ items'[i].payload = items[i].payload /\ items'[i].epoch = items[i].epoch
        /\ items'[i].handed = items[i].handed
        /\ IF i \in S THEN items'[i].answer = a ELSE items'[i].answer = items[i].answer
  BY <1>1, <1>2
<1>4. SameItems /\ SameWriting  BY <1>1, <1>3 DEF SameItems, SameWriting
<1>5. Settles(S)
  <2>1. a # None /\ used' = used - Freed(S)  BY MarksApart DEF Answer
  <2> QED  BY <1>3, <2>1 DEF Settles
<1> QED  BY <1>1, <1>4, <1>5

\* The slots of those who wait, when some of them leave.
LEMMA SlotsComeBack ==
  ASSUME IInv, NEW S \in SUBSET Waiting, SameItems, Settles(S)
  PROVE  Waiting' = Waiting \ S /\ Slots' /\ used' \in 0..MaxQueue
<1> DEFINE O(T) == {i \in T : items[i].kind # "bump"}
<1>1. Waiting' = Waiting \ S  BY DEF Waiting, Accepted, SameItems, Settles
<1>2. IsFiniteSet(O(Waiting))
  <2>1. O(Waiting) \in SUBSET (1..Len(items)) /\ Len(items) \in Nat
    BY ItemsAre DEF IInv, Waiting
  <2>2. IsFiniteSet(1..Len(items))  BY <2>1, FS_Interval
  <2> HIDE DEF O
  <2> QED  BY <2>1, <2>2, FS_Subset
<1>3. used = Cardinality(O(Waiting))  BY DEF IInv, Slots, Freed
<1>4. Freed(S) = Cardinality(O(S))  BY DEF Freed
<1>5. O(Waiting) \ O(S) = O(Waiting \ S) /\ O(Waiting) \cap O(S) = O(S)  OBVIOUS
<1>6. Cardinality(O(Waiting \ S)) = Cardinality(O(Waiting)) - Cardinality(O(S))
  <2> HIDE DEF O
  <2> QED  BY <1>2, <1>5, FS_Difference
<1>8. {i \in Waiting' : items'[i].kind # "bump"} = O(Waiting \ S)
  BY <1>1 DEF SameItems, Waiting
<1>9. used' = Cardinality(O(Waiting \ S))  BY <1>3, <1>4, <1>6 DEF Settles
<1>10. used' \in Nat /\ used' <= used
  <2>1. IsFiniteSet(O(S)) /\ IsFiniteSet(O(Waiting \ S))  BY <1>2, <1>5, FS_Subset
  <2>2. Cardinality(O(S)) \in Nat /\ Cardinality(O(Waiting \ S)) \in Nat
    BY <2>1, FS_CardinalityType
  <2>3. used \in Nat  BY TypesAre DEF IInv
  <2> QED  BY <1>3, <1>6, <1>9, <2>2, <2>3
<1>11. used \in 0..MaxQueue /\ MaxQueue \in Nat  BY TypesAre, BoundsAssumption DEF IInv
<1>12. Slots'  BY <1>8, <1>9 DEF Slots, Freed
<1> QED  BY <1>1, <1>10, <1>11, <1>12

\* Items keep their places, or go on from the channel to the queue in order, or leave.
LEMMA StandingKept ==
  ASSUME IInv, NEW S, Waiting' = Waiting \ S, Called' \cup Queued' \cup InFlight' = Waiting \ S,
         Numbered(incoming)', Numbered(pending)', Called' \subseteq Called,
         \A i \in Queued' : i \in Queued \/ \A k \in Called' : i < k,
         InFlight' \cap (Called' \cup Queued') = {}
  PROVE  Standing'
<1>1. \A i \in Queued, k \in Called : i < k  BY DEF IInv, Standing
<1>2. \A i \in Queued', k \in Called' : i < k  BY <1>1
<1> QED  BY <1>2 DEF Standing

\* No item appears in the writer's hand, and what joins the queue may.
LEMMA ShapesKept ==
  ASSUME IInv, SameItems, SameWriting, own'.epoch \in Nat, own'.epoch >= own.epoch,
         proc'.local = proc.local, Called' \subseteq Called, InFlight' \subseteq InFlight,
         \A i \in Queued' :
           \/ i \in Queued
           \/ i \in Called /\ items[i].kind # "bump" /\ (Tokened(i) => proc.local)
  PROVE  Shapes'
<1> SUFFICES ASSUME NEW i \in Accepted PROVE Shape(i)'
  BY DEF Shapes, SameItems, Accepted
<1>1. Shape(i)  BY DEF IInv, Shapes
<1>2. /\ items'[i].kind = items[i].kind /\ items'[i].token = items[i].token
      /\ items'[i].payload = items[i].payload /\ items'[i].epoch = items[i].epoch
      /\ items'[i].handed = items[i].handed
  BY DEF SameItems, SameWriting
<1>3. items[i].epoch \in Nat /\ own.epoch \in Nat
  BY ItemsAre, TypesAre DEF IInv, ItemT, OwnT
<1>4. Tokened(i)' <=> Tokened(i)  BY <1>2 DEF Tokened
<1> QED  BY <1>1, <1>2, <1>3, <1>4 DEF Shape

\* The fence does not fall back, and no bump is answered that has not moved it.
LEMMA FenceKept ==
  ASSUME IInv, SameItems, own'.epoch \in Nat, own'.epoch >= own.epoch,
         \A i \in Accepted : items[i].kind = "bump" /\ items'[i].answer # None =>
           items[i].answer # None \/ items[i].epoch < own'.epoch,
         \A i \in Queued' : i \in Accepted /\ (Tokened(i) => items[i].epoch = own'.epoch)
  PROVE  Fence'
<1>1. \A i \in Accepted :
        /\ items'[i].kind = items[i].kind /\ items'[i].epoch = items[i].epoch
        /\ Tokened(i)' <=> Tokened(i)
  BY DEF SameItems, Tokened
<1>2. \A i \in Accepted : items[i].epoch \in Nat  BY ItemsAre DEF IInv, ItemT
<1>3. own.epoch \in Nat  BY TypesAre DEF IInv, OwnT
<1>4. Accepted' = Accepted  BY DEF SameItems, Accepted
<1>5. \A i \in Accepted' : items'[i].kind = "bump" /\ items'[i].answer # None => items'[i].epoch < own'.epoch
  BY <1>1, <1>2, <1>3, <1>4 DEF IInv, Fence
<1>6. \A i \in Queued' : Tokened(i)' => items'[i].epoch = own'.epoch  BY <1>1
<1> QED  BY <1>5, <1>6 DEF Fence

\* Of one target, one presentation waits or is being written.
LEMMA OneLive ==
  ASSUME IInv, NEW t \in Token, NEW i \in Queued, items[i].token = t
  PROVE  /\ Live(t) = {i} /\ Written(t) = {}
         /\ book[t].bound = BindingOf(i) /\ book[t].result = None
<1>1. i \in Waiting /\ i \in Accepted  BY DEF IInv, Standing, Waiting
<1>2. i \in Live(t)  BY <1>1 DEF Live, Of
<1>3. Slot(t)  BY DEF IInv, Targets
<1>4. Live(t) = {i} /\ book[t].bound = BindingOf(i) /\ book[t].result = None
  BY <1>2, <1>3 DEF Slot
<1>5. ASSUME NEW j \in Written(t) PROVE FALSE
  <2>1. j \in InFlight  BY <1>3, <1>4, MarksApart, <1>5 DEF Slot, Settled
  <2>2. j \in Live(t)  BY <2>1, <1>5 DEF Live, Written
  <2>3. j = i  BY <2>2, <1>4
  <2> QED  BY <2>1, <2>3 DEF IInv, Standing
<1> QED  BY <1>4, <1>5

\* The slots of those of S say a, and the others what they said.
Tells(S, a) ==
  \A t \in Token :
    /\ book'[t].bound = book[t].bound
    /\ book'[t].result = IF \E i \in S : items[i].token = t THEN a ELSE book[t].result

\* Presentations that leave the queue unwritten, with that as their target's result.
LEMMA TargetsKept ==
  ASSUME IInv, SameItems, SameWriting, NEW S \in SUBSET Queued,
         NEW a \in {"refused", "cancelled", "in_progress"},
         \A i \in Accepted : Tokened(i) =>
           /\ i \in Queued' <=> i \in Queued \ S
           /\ i \in InFlight' <=> i \in InFlight,
         Tells(S, a)
  PROVE  Targets'
<1> SUFFICES ASSUME NEW t \in Token PROVE Slot(t)'  BY DEF Targets
<1>0. /\ book'[t].bound = book[t].bound
      /\ book'[t].result = IF \E i \in S : items[i].token = t THEN a ELSE book[t].result
  BY DEF Tells
<1>1. Slot(t)  BY DEF IInv, Targets
<1>2. Of(t)' = Of(t) /\ Of(t) \subseteq Accepted /\ Written(t)' = Written(t)
  BY DEF Of, Written, Accepted, SameItems, SameWriting
<1>3. \A i \in Of(t) : Tokened(i) /\ BindingOf(i)' = BindingOf(i) /\ items'[i].payload = items[i].payload
  BY MarksApart DEF Of, Tokened, BindingOf, SameItems
<1>4. Live(t)' = Live(t) \ S
  <2>1. S \cap InFlight = {}  BY DEF IInv, Standing
  <2>2. \A i \in Of(t) : /\ i \in Queued' <=> i \in Queued \ S
                         /\ i \in InFlight' <=> i \in InFlight
    BY <1>2, <1>3
  <2> QED  BY <1>2, <2>1, <2>2 DEF Live
<1>5. \A i \in Written(t) : i \in InFlight' <=> i \in InFlight  BY <1>2, <1>3 DEF Written
<1>6. \A i \in Written(t) : items'[i].payload = items[i].payload  BY <1>3 DEF Written
<1>7. \A i \in Live(t) : BindingOf(i)' = BindingOf(i)  BY <1>3 DEF Live
<1>8. CASE \E i \in S : items[i].token = t
  <2>1. PICK i \in S : items[i].token = t  BY <1>8
  <2>2. Live(t) = {i} /\ Written(t) = {} /\ book[t].bound = BindingOf(i)  BY <2>1, OneLive
  <2>3. Live(t)' = {} /\ Written(t)' = {}  BY <1>2, <1>4, <2>1, <2>2
  <2>4. book'[t].result = a /\ book'[t].bound = BindingOf(i)  BY <1>0, <1>8, <2>2
  <2>5. BindingOf(i) # None
    <3>1. items[i] \in ItemT /\ Shape(i) /\ Tokened(i)
      BY <1>2, <2>1, ItemsAre, MarksApart DEF IInv, Shapes, Standing, Tokened, Waiting
    <3>2. BindingOf(i) \in Binding  BY <3>1 DEF BindingOf, Binding, Shape, ItemT
    <3> QED  BY <3>2, MarksApart
  <2>6. a # None  BY MarksApart DEF Settled
  <2> QED  BY <2>3, <2>4, <2>5, <2>6 DEF Slot
<1>9. CASE ~ \E i \in S : items[i].token = t
  <2>1. Live(t) \cap S = {}  BY <1>9 DEF Live, Of
  <2>2. book'[t].bound = book[t].bound /\ book'[t].result = book[t].result  BY <1>0, <1>9
  <2>3. Live(t)' = Live(t)  BY <1>4, <2>1
  <2> QED  BY <1>1, <1>2, <1>5, <1>6, <1>7, <2>2, <2>3 DEF Slot
<1> QED  BY <1>8, <1>9

-----------------------------------------------------------------------------
(* Steps that move no item.                                                *)

SameSlots == \A t \in Token : book'[t].bound = book[t].bound /\ book'[t].result = book[t].result
Idle ==
  /\ SameItems /\ SameWriting /\ Settles({})
  /\ incoming' = incoming /\ Queued' = Queued /\ InFlight' = InFlight /\ Numbered(pending')
  /\ own'.epoch = own.epoch /\ proc'.local = proc.local /\ SameSlots

\* A step that moves no item keeps what is said of the items.
LEMMA IdleKeeps ==
  ASSUME IInv, Idle PROVE Standing' /\ Slots' /\ Shapes' /\ Fence' /\ Targets'
<1>1. own.epoch \in Nat  BY TypesAre DEF IInv, OwnT
<1>2. Called' = Called  BY DEF Idle, Called
<1>3. Waiting' = Waiting \ {} /\ Slots'  BY SlotsComeBack DEF Idle
<1>4. Standing'
  <2>1. Numbered(incoming)' /\ Numbered(pending)'
    BY DEF Idle, IInv, Standing, Numbered
  <2>2. Called \cup Queued \cup InFlight = Waiting /\ InFlight \cap (Called \cup Queued) = {}
    BY DEF IInv, Standing
  <2> QED  BY <1>2, <1>3, <2>1, <2>2, StandingKept DEF Idle
<1>5. Shapes'  BY <1>1, <1>2, ShapesKept DEF Idle
<1>6. Fence'
  <2>1. \A i \in Accepted : items'[i].answer = items[i].answer  BY DEF Idle, Settles
  <2>2. \A i \in Queued : i \in Accepted /\ (Tokened(i) => items[i].epoch = own.epoch)
    BY DEF IInv, Fence, Standing, Waiting
  <2> QED  BY <1>1, <2>1, <2>2, FenceKept DEF Idle
<1>7. Targets'
  <2>1. {} \in SUBSET Queued /\ Queued \ {} = Queued  OBVIOUS
  <2>2. Tells({}, "refused")  BY DEF Idle, SameSlots, Tells
  <2> QED  BY <2>1, <2>2, TargetsKept DEF Idle
<1> QED  BY <1>3, <1>4, <1>5, <1>6, <1>7

\* Nothing of the items, the queue and the slots changes.
LEMMA StillIsIdle ==
  ASSUME IInv, UNCHANGED <<items, incoming, used>>, Queued' = Queued, InFlight' = InFlight,
         Numbered(pending'), own'.epoch = own.epoch, proc'.local = proc.local, SameSlots
  PROVE  Idle
<1>1. SameItems /\ SameWriting  BY DEF SameItems, SameWriting, Accepted
<1>2. Settles({})
  <2>1. Freed({}) = 0  BY FS_EmptySet DEF Freed
  <2>2. used \in Nat  BY TypesAre DEF IInv
  <2> QED  BY <2>1, <2>2 DEF Settles
<1> QED  BY <1>1, <1>2 DEF Idle

\* The queue, the writer and the emulator's answers stay.
LEMMA QueueStays ==
  ASSUME IInv, UNCHANGED <<pending, flight, reserved>>
  PROVE  Queued' = Queued /\ InFlight' = InFlight /\ Numbered(pending') /\ Replies'
BY DEF IInv, Queued, InFlight, Standing, Replies, Pledged

\* The program writes, or ends.
LEMMA ProduceKeeps == ASSUME IInv, Produce \/ ProgramEnds PROVE IInv'
<1>1. proc \in ProcT /\ proc' \in ProcT /\ proc'.local = proc.local /\ Unread'
  <2>1. MaxOutput \in Nat /\ proc \in ProcT /\ Unread
    BY BoundsAssumption, TypesAre DEF IInv
  <2>2. CASE Produce
    <3>1. /\ proc.left \in Nat /\ proc.unread \in Nat /\ proc.left > 0
          /\ proc.left <= MaxOutput /\ proc.left + proc.unread <= MaxOutput
      BY <2>1, <2>2 DEF Produce, ProcT, Unread
    <3>2. proc.left - 1 \in 0..MaxOutput /\ proc.unread + 1 \in 0..MaxOutput
      BY <2>1, <3>1
    <3>3. proc' = [proc EXCEPT !.left = proc.left - 1, !.unread = proc.unread + 1]
      BY <2>2 DEF Produce
    <3>4. /\ proc'.left = proc.left - 1 /\ proc'.unread = proc.unread + 1
          /\ proc' \in ProcT /\ proc'.local = proc.local
      BY <2>1, <3>2, <3>3 DEF ProcT
    <3> QED  BY <2>1, <3>1, <3>4 DEF Unread
  <2>3. CASE ProgramEnds  BY <2>1, <2>3 DEF ProgramEnds, ProcT, Unread
  <2> QED  BY <2>2, <2>3
<1>2. UNCHANGED <<screen, items, incoming, pending, flight, used, reserved, own, stop, detach, book>>
  BY DEF Produce, ProgramEnds
<1>3. TypeOK'  BY <1>1, <1>2, TypesAre, TypesAreNext DEF IInv
<1>4. Queued' = Queued /\ InFlight' = InFlight /\ Numbered(pending') /\ Replies'  BY <1>2, QueueStays
<1>5. Idle  BY <1>1, <1>2, <1>4, StillIsIdle DEF SameSlots
<1>6. Shutdown'  BY <1>1, <1>2, <1>4 DEF IInv, Shutdown, Called
<1> QED  BY <1>1, <1>3, <1>4, <1>5, <1>6, IdleKeeps DEF IInv

\* A target is minted, or its minute is over.
LEMMA MintKeeps == ASSUME IInv, NEW t \in Token, Mint(t) \/ TokenExpires(t) PROVE IInv'
<1>1. UNCHANGED <<proc, screen, items, incoming, pending, flight, used, reserved, own, stop, detach>>
  BY DEF Mint, TokenExpires
<1>2. book' \in [Token -> SlotT] /\ SameSlots
  <2>1. book \in [Token -> SlotT] /\ screen \in ScreenT  BY TypesAre DEF IInv
  <2>2. CASE Mint(t)  BY <2>1, <2>2 DEF Mint, SlotT, ScreenT, SameSlots
  <2>3. CASE TokenExpires(t)  BY <2>1, <2>3 DEF TokenExpires, SlotT, SameSlots
  <2> QED  BY <2>2, <2>3
<1>3. TypeOK'  BY <1>1, <1>2, TypesAre, TypesAreNext DEF IInv
<1>4. Queued' = Queued /\ InFlight' = InFlight /\ Numbered(pending') /\ Replies'  BY <1>1, QueueStays
<1>5. Idle  BY <1>1, <1>2, <1>4, StillIsIdle
<1>6. Shutdown' /\ Unread'  BY <1>1, <1>4 DEF IInv, Shutdown, Called, Unread
<1> QED  BY <1>3, <1>4, <1>5, <1>6, IdleKeeps DEF IInv

\* A deadline passes.
LEMMA DeadlineKeeps == ASSUME IInv, NEW i \in Accepted, DeadlinePasses(i) PROVE IInv'
<1>1. UNCHANGED <<proc, screen, incoming, pending, flight, used, reserved, own, stop, detach, book>>
  BY DEF DeadlinePasses
<1>2. /\ Accepted = 1..Len(items) /\ Len(items) \in Nat /\ items \in Seq(ItemT)
      /\ \A j \in Accepted : items[j] \in ItemT
  BY ItemsAre, TypesAre DEF IInv
<1>3. items' = [items EXCEPT ![i] = [@ EXCEPT !.late = TRUE]]  BY DEF DeadlinePasses
<1>4. [items[i] EXCEPT !.late = TRUE] \in ItemT  BY <1>2 DEF ItemT
<1>5. items' \in Seq(ItemT)  BY <1>2, <1>3, <1>4, ExceptSeq
<1>6. /\ DOMAIN items' = Accepted
      /\ \A j \in Accepted :
           items'[j] = IF j = i THEN [items[j] EXCEPT !.late = TRUE] ELSE items[j]
  <2>1. items \in [Accepted -> ItemT]  BY <1>2 DEF Accepted
  <2> QED  BY <1>3, <2>1
<1>7. \A j \in Accepted :
        /\ items'[j].kind = items[j].kind /\ items'[j].token = items[j].token
        /\ items'[j].payload = items[j].payload /\ items'[j].epoch = items[j].epoch
        /\ items'[j].handed = items[j].handed /\ items'[j].answer = items[j].answer
  BY <1>2, <1>6 DEF ItemT
<1>8. TypeOK'  BY <1>1, <1>5, TypesAre, TypesAreNext DEF IInv
<1>9. Queued' = Queued /\ InFlight' = InFlight /\ Numbered(pending') /\ Replies'  BY <1>1, QueueStays
<1>10. Idle
  <2>1. Freed({}) = 0  BY FS_EmptySet DEF Freed
  <2>2. used \in Nat  BY TypesAre DEF IInv
  <2>3. Settles({})  BY <1>1, <1>7, <2>1, <2>2 DEF Settles
  <2>4. SameItems /\ SameWriting /\ SameSlots  BY <1>1, <1>6, <1>7 DEF SameItems, SameWriting, SameSlots
  <2> QED  BY <1>1, <1>9, <2>3, <2>4 DEF Idle
<1>11. Shutdown' /\ Unread'  BY <1>1, <1>9 DEF IInv, Shutdown, Called, Unread
<1> QED  BY <1>8, <1>9, <1>10, <1>11, IdleKeeps DEF IInv

\* Stop is asked for, gives the writer of a remote terminal up, and closes.
LEMMA StopKeeps == ASSUME IInv, Stop \/ StopGivesUp \/ StopCloses PROVE IInv'
<1>1. /\ UNCHANGED <<screen, items, incoming, pending, flight, used, reserved, own, book>>
      /\ stop' \in {"asked", "gaveUp", "closed"} /\ detach' \in {"no", "pending", "done"}
      /\ proc' \in ProcT /\ proc'.local = proc.local /\ Unread'
      /\ detach' # "no" => detach # "no" \/ ~proc.local
  <2>1. proc \in ProcT /\ Unread /\ detach \in {"no", "pending", "done"}  BY TypesAre DEF IInv
  <2>2. CASE Stop  BY <2>1, <2>2 DEF Stop, Unread
  <2>3. CASE StopGivesUp  BY <2>1, <2>3 DEF StopGivesUp, Unread
  <2>4. CASE StopCloses  BY <2>1, <2>4 DEF StopCloses, Unread, ProcT
  <2> QED  BY <2>2, <2>3, <2>4
<1>2. TypeOK'  BY <1>1, TypesAre, TypesAreNext DEF IInv
<1>3. Queued' = Queued /\ InFlight' = InFlight /\ Numbered(pending') /\ Replies'  BY <1>1, QueueStays
<1>4. Idle  BY <1>1, <1>3, StillIsIdle DEF SameSlots
<1>5. Shutdown'  BY <1>1, <1>3 DEF IInv, Shutdown, Called
<1> QED  BY <1>1, <1>2, <1>3, <1>4, <1>5, IdleKeeps DEF IInv

\* An answer of the emulator's joins the queue within the reserve.
LEMMA ReplyReserved ==
  ASSUME TypeOK, NEW q \in Seq(Entry), Numbered(q), NEW asks \in BOOLEAN,
         Cardinality(Marks(q)) + (IF flight = Reply THEN 1 ELSE 0) <= reserved,
         pending' = q \o Replied(asks), Reserve(asks), flight' = flight
  PROVE  /\ pending' \in Seq(Entry) /\ Queued' = Range(q) \cap Item /\ Numbered(pending')
         /\ reserved' \in 0..ReplyReserve /\ Replies'
<1>1. /\ pending' \in Seq(Entry) /\ Range(pending') \cap Item = Range(q) \cap Item
      /\ Numbered(pending')
      /\ Cardinality(Marks(pending')) <=
           Cardinality(Marks(q)) + (IF asks /\ ReplyFits THEN 1 ELSE 0)
  BY Answers
<1>2. Cardinality(Marks(q)) \in Nat /\ Cardinality(Marks(pending')) \in Nat
  BY <1>1, MarksAreFinite
<1>3. reserved \in Nat /\ ReplyReserve \in Nat /\ reserved <= ReplyReserve
  BY TypesAre, BoundsAssumption
<1>4. reserved' = reserved + (IF asks /\ ReplyFits THEN 1 ELSE 0)
  BY <1>3 DEF Reserve
<1>5. reserved' \in 0..ReplyReserve  BY <1>3, <1>4 DEF ReplyFits
<1>6. Replies'
  <2> DEFINE more == IF asks /\ ReplyFits THEN 1 ELSE 0
             mine == IF flight = Reply THEN 1 ELSE 0
  <2>1. more \in Nat /\ mine \in Nat  OBVIOUS
  <2>2. Cardinality(Marks(pending')) + mine <= reserved'
    <3> HIDE DEF more, mine
    <3> QED  BY <1>1, <1>2, <1>3, <1>4, <2>1 DEF more, mine
  <2> QED  BY <2>2 DEF Replies, Pledged
<1> QED  BY <1>1, <1>5, <1>6 DEF Queued

\* A quantum of output is read.
LEMMA IngestKeeps == ASSUME IInv, Ingest PROVE IInv'
<1>1. /\ UNCHANGED <<items, incoming, flight, used, own, stop, detach, book>>
      /\ proc' = [proc EXCEPT !.unread = @ - 1] /\ proc.unread > 0 /\ ~own.eof
  BY DEF Ingest
<1>2. PICK look \in Look, asks \in BOOLEAN :
        /\ screen' = [screen EXCEPT !.look = look, !.complete = @ /\ (asks => ReplyFits)]
        /\ pending' = pending \o Replied(asks) /\ Reserve(asks)
  BY DEF Ingest
<1>3. proc' \in ProcT /\ proc'.local = proc.local /\ Unread'
  <2>1. proc \in ProcT /\ Unread /\ MaxOutput \in Nat  BY TypesAre, BoundsAssumption DEF IInv
  <2> QED  BY <1>1, <2>1 DEF ProcT, Unread
<1>4. screen' \in ScreenT
  <2>1. screen \in ScreenT  BY TypesAre DEF IInv
  <2> QED  BY <1>2, <2>1 DEF ScreenT
<1>5. /\ pending' \in Seq(Entry) /\ Queued' = Queued /\ Numbered(pending')
      /\ reserved' \in 0..ReplyReserve /\ Replies'
  <2>1. pending \in Seq(Entry) /\ Numbered(pending)  BY TypesAre DEF IInv, Standing
  <2>2. Cardinality(Marks(pending)) + (IF flight = Reply THEN 1 ELSE 0) <= reserved
    BY DEF IInv, Replies, Pledged
  <2> QED  BY <1>1, <1>2, <2>1, <2>2, ReplyReserved DEF IInv, Queued
<1>6. TypeOK'  BY <1>1, <1>3, <1>4, <1>5, TypesAre, TypesAreNext DEF IInv
<1>7. Idle  BY <1>1, <1>3, <1>5, StillIsIdle DEF SameSlots, InFlight
<1>8. Shutdown'  BY <1>1, <1>3, <1>5 DEF IInv, Shutdown, Called
<1> QED  BY <1>3, <1>5, <1>6, <1>7, <1>8, IdleKeeps DEF IInv

\* The read side ends; the owner is gone.
LEMMA EndsKeep == ASSUME IInv, ReadEnds \/ Exit PROVE IInv'
<1>1. /\ UNCHANGED <<proc, screen, items, incoming, pending, flight, used, reserved, stop, detach, book>>
      /\ own' \in OwnT /\ own'.epoch = own.epoch /\ own'.closing = own.closing
      /\ own'.stopped => \/ own.stopped /\ own'.eof
                         \/ own.closing /\ own'.eof /\ flight = None /\ pending = <<>>
  <2>1. own \in OwnT  BY TypesAre DEF IInv
  <2>2. CASE ReadEnds  BY <2>1, <2>2 DEF ReadEnds, OwnT
  <2>3. CASE Exit  BY <2>1, <2>3 DEF Exit, OwnT
  <2> QED  BY <2>2, <2>3
<1>2. TypeOK'  BY <1>1, TypesAre, TypesAreNext DEF IInv
<1>3. Queued' = Queued /\ InFlight' = InFlight /\ Numbered(pending') /\ Replies'  BY <1>1, QueueStays
<1>4. Idle  BY <1>1, <1>3, StillIsIdle DEF SameSlots
<1>5. Shutdown' /\ Unread'  BY <1>1, <1>3 DEF IInv, Shutdown, Called, Unread
<1> QED  BY <1>2, <1>3, <1>4, <1>5, IdleKeeps DEF IInv

\* An answer of the emulator's goes to the writer, or is dropped.
LEMMA AdvanceReplyKeeps == ASSUME IInv, AdvanceReply PROVE IInv'
<1>1. /\ UNCHANGED <<proc, screen, items, incoming, used, own, stop, detach, book>>
      /\ pending' = Tail(pending) /\ pending # <<>> /\ Head(pending) = Reply
      /\ flight = None /\ ~own.stopped
      /\ \/ reserved' = reserved - 1 /\ flight' = flight
         \/ flight' = Reply /\ reserved' = reserved
  BY DEF AdvanceReply, WriterFree
<1>2. pending \in Seq(Entry) /\ Numbered(pending)  BY TypesAre DEF IInv, Standing
<1>3. /\ pending' \in Seq(Entry) /\ Range(pending) = Range(pending') \cup {Reply} /\ Numbered(pending')
      /\ Cardinality(Marks(pending')) <= Cardinality(Marks(pending)) - 1
  BY <1>1, <1>2, HeadTaken
<1>4. Queued' = Queued /\ InFlight' = InFlight
  BY <1>1, <1>3, MarksApart DEF Queued, InFlight
<1>5. /\ Cardinality(Marks(pending)) \in Nat /\ Cardinality(Marks(pending')) \in Nat
      /\ reserved \in Nat /\ ReplyReserve \in Nat /\ reserved <= ReplyReserve
  BY <1>2, <1>3, MarksAreFinite, TypesAre, BoundsAssumption DEF IInv
<1>6. Cardinality(Marks(pending)) <= reserved
  BY <1>1, MarksApart, <1>5 DEF IInv, Replies, Pledged
<1>7. reserved' \in 0..ReplyReserve /\ Replies'
  BY <1>1, <1>3, <1>5, <1>6, MarksApart DEF Replies, Pledged
<1>8. TypeOK'
  <2>1. flight' \in Entry \cup {None}  BY <1>1 DEF Entry
  <2> QED  BY <1>1, <1>3, <1>7, <2>1, TypesAre, TypesAreNext DEF IInv
<1>9. Idle  BY <1>1, <1>3, <1>4, StillIsIdle DEF SameSlots
<1>10. Shutdown' /\ Unread'  BY <1>1, <1>4 DEF IInv, Shutdown, Called, Unread
<1> QED  BY <1>7, <1>8, <1>9, <1>10, IdleKeeps DEF IInv

-----------------------------------------------------------------------------
(* An item is accepted.                                                    *)

\* It takes one slot, stands last, and is nobody's presentation yet.
LEMMA SubmitKeeps == ASSUME IInv, NEW item \in Presented, Submit(item) PROVE IInv'
<1> DEFINE n == Len(items) + 1
<1>1. /\ UNCHANGED <<proc, screen, pending, flight, reserved, own, stop, detach, book>>
      /\ stop = "no" /\ ~own.closing /\ Len(items) < MaxItems
      /\ items' = Append(items, item) /\ incoming' = Append(incoming, n)
      /\ item.kind \in Ordinary => used < MaxQueue
      /\ used' = IF item.kind \in Ordinary THEN used + 1 ELSE used
  BY DEF Submit
<1>2. /\ Accepted = 1..Len(items) /\ Len(items) \in Nat /\ items \in Seq(ItemT)
      /\ incoming \in Seq(Item) /\ own \in OwnT /\ book \in [Token -> SlotT]
      /\ used \in 0..MaxQueue /\ MaxQueue \in Nat /\ MaxItems \in Nat
      /\ \A j \in Accepted : items[j] \in ItemT
  BY ItemsAre, TypesAre, BoundsAssumption DEF IInv
<1>3. /\ item \in ItemT /\ ~item.handed /\ item.answer = None /\ item.epoch <= own.epoch
      /\ item.kind = "intent" <=> item.token # None
      /\ item.token # None => item.payload \in Payload
  <2>1. own.epoch \in Nat  BY <1>2 DEF OwnT
  <2>2. \A e \in 1..own.epoch : e \in Nat /\ e <= own.epoch  BY <2>1
  <2> DEFINE Accept(k, t, p, e) == [kind |-> k, token |-> t, payload |-> p, epoch |-> e,
                                    late |-> FALSE, handed |-> FALSE, answer |-> None]
  <2>3. \/ \E t \in Token, p \in Payload, e \in 1..own.epoch : item = Accept("intent", t, p, e)
        \/ \E k \in {"key", "bump"}, e \in 1..own.epoch : item = Accept(k, None, None, e)
        \/ \E k \in {"frame", "resize"} : item = Accept(k, None, None, 0)
    BY DEF Presented
  <2>4. CASE \E t \in Token, p \in Payload, e \in 1..own.epoch : item = Accept("intent", t, p, e)
    <3>1. PICK t \in Token, p \in Payload, e \in 1..own.epoch : item = Accept("intent", t, p, e)
      BY <2>4
    <3> QED  BY <2>2, <3>1, MarksApart DEF ItemT, Ordinary
  <2>5. CASE \E k \in {"key", "bump"}, e \in 1..own.epoch : item = Accept(k, None, None, e)
    <3>1. PICK k \in {"key", "bump"}, e \in 1..own.epoch : item = Accept(k, None, None, e)
      BY <2>5
    <3> QED  BY <2>2, <3>1, MarksApart DEF ItemT, Ordinary
  <2>6. CASE \E k \in {"frame", "resize"} : item = Accept(k, None, None, 0)
    BY <2>1, <2>6, MarksApart DEF ItemT, Ordinary
  <2> QED  BY <2>3, <2>4, <2>5, <2>6
<1>4. /\ DOMAIN items' = 1..n /\ items' \in Seq(ItemT) /\ items'[n] = item
      /\ \A j \in Accepted : items'[j] = items[j]
      /\ n \in Item /\ n \notin Accepted /\ \A j \in Accepted : j < n
  BY <1>1, <1>2, <1>3 DEF Item
<1>5. Accepted' = Accepted \cup {n}  BY <1>2, <1>4 DEF Accepted
<1> HIDE DEF n
<1>6. /\ Waiting \subseteq Accepted /\ Called \subseteq Waiting
      /\ Queued \subseteq Waiting /\ InFlight \subseteq Waiting
  BY DEF IInv, Standing, Waiting
<1>7. Waiting' = Waiting \cup {n}  BY <1>3, <1>4, <1>5 DEF Waiting
<1>8. Queued' = Queued /\ InFlight' = InFlight /\ Numbered(pending') /\ Replies'  BY <1>1, QueueStays
<1>9. Called' = Called \cup {n} /\ Numbered(incoming') /\ incoming' \in Seq(Item)
  <2>1. incoming \in Seq(Entry) /\ n \in Entry  BY <1>2, <1>4, SeqMonotonic DEF Entry
  <2>2. Numbered(incoming) /\ \A k \in Range(incoming) \cap Item : k < n
    BY <1>4, <1>6 DEF IInv, Standing, Called
  <2>3. Range(incoming') = Range(incoming) \cup {n} /\ Numbered(incoming')
    BY <1>1, <2>1, <2>2, Joined
  <2>4. incoming' \in Seq(Item)  BY <1>1, <1>2, <1>4
  <2> QED  BY <2>3, <2>4 DEF Called
<1>10. Standing'
  <2>1. /\ Called \cup Queued \cup InFlight = Waiting /\ InFlight \cap (Called \cup Queued) = {}
        /\ \A i \in Queued, k \in Called : i < k
    BY DEF IInv, Standing
  <2>2. Called' \cup Queued' \cup InFlight' = Waiting'  BY <1>7, <1>8, <1>9, <2>1
  <2>3. \A i \in Queued', k \in Called' : i < k  BY <1>4, <1>6, <1>8, <1>9, <2>1
  <2>4. InFlight' \cap (Called' \cup Queued') = {}  BY <1>4, <1>6, <1>8, <1>9, <2>1
  <2>5. Numbered(incoming)' /\ Numbered(pending)'  BY <1>8, <1>9 DEF Numbered
  <2> QED  BY <2>2, <2>3, <2>4, <2>5 DEF Standing
<1>11. Slots' /\ used' \in 0..MaxQueue
  <2> DEFINE O == {i \in Waiting : items[i].kind # "bump"}
             O2 == {i \in Waiting' : items'[i].kind # "bump"}
  <2>1. O2 = IF item.kind # "bump" THEN O \cup {n} ELSE O
    BY <1>4, <1>6, <1>7
  <2>2. IsFiniteSet(O) /\ n \notin O
    <3>1. IsFiniteSet(1..Len(items))  BY <1>2, FS_Interval
    <3>2. O \in SUBSET (1..Len(items)) /\ n \notin O  BY <1>2, <1>4, <1>6
    <3> HIDE DEF O
    <3> QED  BY <3>1, <3>2, FS_Subset
  <2>3. used = Cardinality(O)  BY DEF IInv, Slots, Freed
  <2>4. Cardinality(O \cup {n}) = Cardinality(O) + 1
    <3> HIDE DEF O
    <3> QED  BY <2>2, FS_AddElement
  <2>5. item.kind \in Ordinary <=> item.kind # "bump"  BY <1>3 DEF ItemT, Ordinary
  <2>6. used' = Cardinality(O2)
    <3> HIDE DEF O, O2
    <3> QED  BY <1>1, <2>1, <2>3, <2>4, <2>5
  <2>7. Slots'  BY <2>6 DEF Slots, Freed
  <2>8. used' \in 0..MaxQueue  BY <1>1, <1>2
  <2> QED  BY <2>7, <2>8
<1>12. TypeOK'  BY <1>1, <1>4, <1>9, <1>11, TypesAre, TypesAreNext DEF IInv
<1>13. Shapes'
  <2> SUFFICES ASSUME NEW i \in Accepted' PROVE Shape(i)'  BY DEF Shapes
  <2>1. CASE i = n
    <3>1. n \notin Queued' \cup InFlight'  BY <1>4, <1>6, <1>8
    <3>2. items'[i] = item /\ own'.epoch = own.epoch /\ i \notin Queued' \cup InFlight'
      BY <1>1, <1>4, <2>1, <3>1
    <3>3. Tokened(i)' <=> item.token # None  BY <3>2 DEF Tokened
    <3> QED  BY <1>3, <3>2, <3>3 DEF Shape
  <2>2. CASE i \in Accepted
    <3>1. Shape(i) /\ items'[i] = items[i] /\ i # n  BY <1>4, <2>2 DEF IInv, Shapes
    <3> QED  BY <1>1, <1>8, <1>9, <3>1 DEF Shape, Tokened
  <2> QED  BY <1>5, <2>1, <2>2
<1>14. Fence'
  <2>1. \A i \in Accepted' : items'[i].kind = "bump" /\ items'[i].answer # None => items'[i].epoch < own'.epoch
    BY <1>1, <1>3, <1>4, <1>5 DEF IInv, Fence
  <2>2. \A i \in Queued' : items'[i] = items[i] /\ i \in Queued  BY <1>4, <1>6, <1>8
  <2> QED  BY <1>1, <2>1, <2>2 DEF IInv, Fence, Tokened
<1>15. Targets'
  <2> SUFFICES ASSUME NEW t \in Token PROVE Slot(t)'  BY DEF Targets
  <2>1. Slot(t) /\ book' = book  BY <1>1 DEF IInv, Targets
  <2>2. Of(t)' = Of(t) \/ Of(t)' = Of(t) \cup {n}  BY <1>4, <1>5 DEF Of
  <2>3. Live(t)' = Live(t)  BY <1>4, <1>6, <1>8, <2>2 DEF Live
  <2>4. Written(t)' = Written(t)  BY <1>3, <1>4, <1>5 DEF Written, Of
  <2>5. \A i \in Live(t) \cup Written(t) : items'[i] = items[i]  BY <1>4 DEF Live, Written, Of
  <2>6. \A i \in Live(t) : BindingOf(i)' = BindingOf(i)  BY <2>5 DEF BindingOf
  <2> QED  BY <1>8, <2>1, <2>3, <2>4, <2>5, <2>6 DEF Slot
<1>16. Shutdown' /\ Unread'  BY <1>1, <1>8 DEF IInv, Shutdown, Unread
<1> QED  BY <1>8, <1>10, <1>11, <1>12, <1>13, <1>14, <1>15, <1>16 DEF IInv

-----------------------------------------------------------------------------
(* Items leave, and one may go on to the queue.                            *)

\* Those of S are answered and leave, and what goes on to the queue goes in order.
LEMMA LeavesKeep ==
  ASSUME IInv, SameItems, SameWriting, NEW S \in SUBSET Waiting, Settles(S),
         Called' \subseteq Called, InFlight' \subseteq InFlight,
         Called' \cup Queued' \cup InFlight' = Waiting \ S,
         Numbered(incoming'), Numbered(pending'),
         own'.epoch \in Nat, own'.epoch >= own.epoch, proc'.local = proc.local,
         \A i \in Queued' :
           \/ i \in Queued
           \/ /\ i \in Called /\ items[i].kind # "bump" /\ (Tokened(i) => proc.local)
              /\ \A k \in Called' : i < k,
         \A i \in S : items[i].kind = "bump" => items[i].epoch < own'.epoch,
         \A i \in Queued' : Tokened(i) => items[i].epoch = own'.epoch
  PROVE  Standing' /\ Slots' /\ Shapes' /\ Fence' /\ used' \in 0..MaxQueue
<1>1. Waiting' = Waiting \ S /\ Slots' /\ used' \in 0..MaxQueue  BY SlotsComeBack
<1>2. InFlight \cap (Called \cup Queued) = {}  BY DEF IInv, Standing
<1>3. InFlight' \cap (Called' \cup Queued') = {}  BY <1>2
<1>4. Numbered(incoming)' /\ Numbered(pending)'  BY DEF Numbered
<1>5. Standing'  BY <1>1, <1>3, <1>4, StandingKept
<1>6. Shapes'  BY ShapesKept
<1>7. Fence'
  <2>1. \A i \in Accepted : items'[i].answer # None => items[i].answer # None \/ i \in S
    BY DEF Settles
  <2>2. \A i \in Queued' : i \in Accepted  BY DEF Waiting
  <2> QED  BY <2>1, <2>2, FenceKept
<1> QED  BY <1>1, <1>5, <1>6, <1>7

\* The head of the channel, and what is known of it.
LEMMA NextCalled ==
  ASSUME IInv, incoming # <<>>, incoming' = Tail(incoming), NEW i, i = Head(incoming)
  PROVE  /\ i \in Called /\ i \in Item /\ i \in Waiting /\ i \in Accepted /\ items[i] \in ItemT /\ Shape(i)
         /\ i \notin Queued /\ i \notin InFlight /\ ~items[i].handed /\ items[i].answer = None
         /\ \A k \in Queued : k < i
         /\ incoming' \in Seq(Item) /\ Numbered(incoming')
         /\ Called' = Called \ {i} /\ \A k \in Called' : i < k
<1>1. incoming \in Seq(Item) /\ incoming \in Seq(Entry) /\ Numbered(incoming)
  BY TypesAre, SeqMonotonic DEF IInv, Standing, Entry
<1>2. /\ Range(incoming) = Range(incoming') \cup {i} /\ Numbered(incoming')
      /\ i \in Item => \A k \in Range(incoming') \cap Item : i < k
  BY <1>1, HeadTaken
<1>3. incoming' \in Seq(Item) /\ i \in Item /\ Range(incoming') \subseteq Item
  <2>1. incoming' \in Seq(Item) /\ i \in Item  BY <1>1
  <2>2. \A k \in DOMAIN incoming' : incoming'[k] \in Item  BY <2>1, ElementOfSeq
  <2> QED  BY <2>1, <2>2 DEF Range
<1>4. Called' = Called \ {i} /\ i \in Called /\ \A k \in Called' : i < k
  <2>1. \A k \in Range(incoming') : i < k  BY <1>2, <1>3
  <2>2. ~(i < i)  BY <1>3 DEF Item
  <2> QED  BY <1>2, <2>1, <2>2 DEF Called
<1>5. i \in Waiting /\ i \notin InFlight /\ \A k \in Queued : k < i
  BY <1>4 DEF IInv, Standing
<1>6. i \notin Queued  BY <1>3, <1>5 DEF Item
<1>7. i \in Accepted /\ items[i].answer = None  BY <1>5 DEF Waiting
<1>8. items[i] \in ItemT /\ Shape(i) /\ ~items[i].handed
  BY <1>4, <1>7, ItemsAre DEF IInv, Shapes, Shape
<1> QED  BY <1>2, <1>3, <1>4, <1>5, <1>6, <1>7, <1>8

\* The writer and the reserve stay, and no answer of the emulator's is added.
LEMMA PledgesStay ==
  ASSUME IInv, UNCHANGED <<flight, reserved>>, pending' \in Seq(Entry),
         Cardinality(Marks(pending')) <= Cardinality(Marks(pending))
  PROVE  Replies'
<1>1. Cardinality(Marks(pending)) \in Nat /\ Cardinality(Marks(pending')) \in Nat /\ reserved \in Nat
  BY MarksAreFinite, TypesAre DEF IInv
<1> DEFINE mine == IF flight = Reply THEN 1 ELSE 0
<1>2. mine \in Nat /\ Cardinality(Marks(pending)) + mine <= reserved  BY DEF IInv, Replies, Pledged
<1>3. Cardinality(Marks(pending')) + mine <= reserved'
  <2> HIDE DEF mine
  <2> QED  BY <1>1, <1>2
<1> QED  BY <1>3 DEF Replies, Pledged

\* What a turn of dispatchIncoming leaves alone, whatever the item is.
Dispatching(i) ==
  /\ incoming # <<>> /\ incoming' = Tail(incoming) /\ i = Head(incoming) /\ ~own.closing
  /\ UNCHANGED <<proc, screen, flight, reserved, stop, detach>>

\* What follows of that alone.
LEMMA DispatchLeaves ==
  ASSUME IInv, NEW i, Dispatching(i), own' \in OwnT, own'.closing = own.closing, own'.stopped = own.stopped
  PROVE  Unread' /\ Shutdown' /\ InFlight' = InFlight
BY DEF IInv, Dispatching, Unread, Shutdown, InFlight

\* The item is answered at once.
LEMMA CalledLeaves ==
  ASSUME IInv, NEW i, Dispatching(i), NEW a \in Settled, Answer({i}, a), UNCHANGED <<pending, own>>,
         items[i].kind = "bump" => items[i].epoch < own.epoch
  PROVE  /\ SameItems /\ SameWriting /\ Queued' = Queued /\ InFlight' = InFlight
         /\ Unread' /\ Standing' /\ Slots' /\ Replies' /\ Shutdown' /\ Shapes' /\ Fence'
         /\ book' \in [Token -> SlotT] => TypeOK'
<1>1. /\ i \in Called /\ i \in Waiting /\ i \notin Queued /\ i \notin InFlight /\ ~items[i].handed
      /\ incoming' \in Seq(Item) /\ Numbered(incoming') /\ Called' = Called \ {i}
  BY NextCalled DEF Dispatching
<1>2. items' \in Seq(ItemT) /\ SameItems /\ SameWriting /\ Settles({i})
  BY AnswerSettles DEF IInv
<1>3. own \in OwnT /\ own.epoch \in Nat  BY TypesAre DEF IInv, OwnT
<1>4. Queued' = Queued /\ InFlight' = InFlight /\ Numbered(pending') /\ Replies'
  BY QueueStays DEF Dispatching
<1>5. Called' \cup Queued' \cup InFlight' = Waiting \ {i}
  <2>1. Called \cup Queued \cup InFlight = Waiting  BY DEF IInv, Standing
  <2> QED  BY <1>1, <1>4, <2>1
<1>6. \A k \in Queued' : Tokened(k) => items[k].epoch = own'.epoch  BY <1>4 DEF IInv, Fence
<1>7. {i} \in SUBSET Waiting /\ Called' \subseteq Called /\ own'.epoch >= own.epoch
  BY <1>1, <1>3
<1>8. Standing' /\ Slots' /\ Shapes' /\ Fence' /\ used' \in 0..MaxQueue
  BY <1>1, <1>2, <1>3, <1>4, <1>5, <1>6, <1>7, LeavesKeep DEF Dispatching
<1>9. Unread' /\ Shutdown'  BY <1>3, DispatchLeaves
<1>10. book' \in [Token -> SlotT] => TypeOK'
  BY <1>1, <1>2, <1>8, TypesAre, TypesAreNext DEF IInv, Dispatching
<1> QED  BY <1>2, <1>4, <1>8, <1>9, <1>10

\* The item goes on to the queue.
LEMMA CalledJoins ==
  ASSUME IInv, NEW i, Dispatching(i), pending' = Append(pending, i), UNCHANGED <<items, used, own>>,
         items[i].kind # "bump", Tokened(i) => proc.local /\ items[i].epoch = own.epoch
  PROVE  /\ SameItems /\ SameWriting /\ Queued' = Queued \cup {i} /\ InFlight' = InFlight
         /\ Unread' /\ Standing' /\ Slots' /\ Replies' /\ Shutdown' /\ Shapes' /\ Fence'
         /\ book' \in [Token -> SlotT] => TypeOK'
<1>1. /\ i \in Called /\ i \in Item /\ i \in Waiting /\ i \notin Queued /\ i \notin InFlight
      /\ \A k \in Queued : k < i
      /\ incoming' \in Seq(Item) /\ Numbered(incoming')
      /\ Called' = Called \ {i} /\ \A k \in Called' : i < k
  BY NextCalled DEF Dispatching
<1>2. pending \in Seq(Entry) /\ Numbered(pending) /\ i \in Entry /\ i # Reply
  BY <1>1, TypesAre, MarksApart DEF IInv, Standing, Entry
<1>3. /\ pending' \in Seq(Entry) /\ Range(pending') = Range(pending) \cup {i} /\ Numbered(pending')
      /\ Cardinality(Marks(pending')) <= Cardinality(Marks(pending))
  <2>1. \A k \in Range(pending) \cap Item : k < i  BY <1>1 DEF Queued
  <2>2. /\ pending' \in Seq(Entry) /\ Range(pending') = Range(pending) \cup {i} /\ Numbered(pending')
        /\ Cardinality(Marks(pending')) <= Cardinality(Marks(pending)) + (IF i = Reply THEN 1 ELSE 0)
    BY <1>2, <2>1, Joined
  <2>3. Cardinality(Marks(pending)) \in Nat  BY <1>2, MarksAreFinite
  <2> QED  BY <1>2, <2>2, <2>3
<1>4. Replies'  BY <1>3, PledgesStay DEF Dispatching
<1>5. own \in OwnT /\ own.epoch \in Nat /\ items \in Seq(ItemT)  BY TypesAre DEF IInv, OwnT
<1>6. Unread' /\ Shutdown' /\ InFlight' = InFlight  BY <1>5, DispatchLeaves
<1>7. Queued' = Queued \cup {i}  BY <1>1, <1>3 DEF Queued
<1>8. Called' \cup Queued' \cup InFlight' = Waiting \ {}
  <2>1. Called \cup Queued \cup InFlight = Waiting  BY DEF IInv, Standing
  <2> QED  BY <1>1, <1>6, <1>7, <2>1
<1>9. SameItems /\ SameWriting /\ Settles({})
  <2>1. Freed({}) = 0  BY FS_EmptySet DEF Freed
  <2>2. used \in Nat  BY TypesAre DEF IInv
  <2> QED  BY <2>1, <2>2 DEF SameItems, SameWriting, Settles, Accepted
<1>10. \A k \in Queued' : Tokened(k) => items[k].epoch = own'.epoch  BY <1>7 DEF IInv, Fence
<1>11. \A k \in Queued' :
         \/ k \in Queued
         \/ /\ k \in Called /\ items[k].kind # "bump" /\ (Tokened(k) => proc.local)
            /\ \A l \in Called' : k < l
  BY <1>1, <1>7
<1>12. {} \in SUBSET Waiting /\ Called' \subseteq Called /\ own'.epoch >= own.epoch
  BY <1>1, <1>5
<1>13. Standing' /\ Slots' /\ Shapes' /\ Fence' /\ used' \in 0..MaxQueue
  BY <1>1, <1>3, <1>5, <1>6, <1>8, <1>9, <1>10, <1>11, <1>12, LeavesKeep DEF Dispatching
<1>14. book' \in [Token -> SlotT] => TypeOK'
  BY <1>1, <1>3, <1>5, <1>13, TypesAre, TypesAreNext DEF IInv, Dispatching
<1> QED  BY <1>4, <1>6, <1>7, <1>9, <1>13, <1>14

\* A target whose presentations stay where they are.
LEMMA SlotStays ==
  ASSUME IInv, SameItems, SameWriting, NEW t \in Token,
         book'[t].bound = book[t].bound, book'[t].result = book[t].result,
         \A i \in Of(t) : /\ i \in Queued' <=> i \in Queued
                          /\ i \in InFlight' <=> i \in InFlight
  PROVE  Slot(t)'
<1>1. Slot(t)  BY DEF IInv, Targets
<1>2. Of(t)' = Of(t) /\ Of(t) \subseteq Accepted /\ Written(t)' = Written(t)
  BY DEF Of, Written, Accepted, SameItems, SameWriting
<1>3. \A i \in Of(t) : BindingOf(i)' = BindingOf(i) /\ items'[i].payload = items[i].payload
  BY <1>2 DEF BindingOf, SameItems
<1>4. Live(t)' = Live(t) /\ \A i \in Live(t) : BindingOf(i)' = BindingOf(i)
  BY <1>2, <1>3 DEF Live
<1>5. \A i \in Written(t) : /\ i \in InFlight' <=> i \in InFlight
                            /\ items'[i].payload = items[i].payload
  BY <1>3 DEF Written
<1> QED  BY <1>1, <1>2, <1>4, <1>5 DEF Slot

\* All presentations stay where they are.
LEMMA TargetsStay ==
  ASSUME IInv, SameItems, SameWriting, book' = book,
         \A i \in Accepted : Tokened(i) => /\ i \in Queued' <=> i \in Queued
                                           /\ i \in InFlight' <=> i \in InFlight
  PROVE  Targets'
<1> SUFFICES ASSUME NEW t \in Token PROVE Slot(t)'  BY DEF Targets
<1>1. \A i \in Of(t) : i \in Accepted /\ Tokened(i)  BY MarksApart DEF Of, Tokened
<1> QED  BY <1>1, SlotStays

\* A key, a frame and a resize carry no target.
LEMMA PlainKeep ==
  ASSUME IInv, NEW i, Dispatching(i), InteractiveGate(i) \/ Queue(i)
  PROVE  IInv'
<1>1. /\ items[i].kind \in {"key", "frame", "resize"} /\ UNCHANGED <<own, book>>
      /\ \/ Answer({i}, "refused") /\ pending' = pending
         \/ pending' = Append(pending, i) /\ UNCHANGED <<items, used>>
  BY DEF InteractiveGate, Queue
<1>2. ~Tokened(i)  BY <1>1, NextCalled DEF Dispatching, Shape
<1>3. book' \in [Token -> SlotT] /\ "refused" \in Settled  BY <1>1, TypesAre DEF IInv, Settled
<1>4. CASE Answer({i}, "refused") /\ pending' = pending
  <2>1. /\ SameItems /\ SameWriting /\ Queued' = Queued /\ InFlight' = InFlight
        /\ Unread' /\ Standing' /\ Slots' /\ Replies' /\ Shutdown' /\ Shapes' /\ Fence' /\ TypeOK'
    BY <1>1, <1>3, <1>4, CalledLeaves
  <2>2. Targets'  BY <1>1, <2>1, TargetsStay
  <2> QED  BY <2>1, <2>2 DEF IInv
<1>5. CASE pending' = Append(pending, i) /\ UNCHANGED <<items, used>>
  <2>1. /\ SameItems /\ SameWriting /\ Queued' = Queued \cup {i} /\ InFlight' = InFlight
        /\ Unread' /\ Standing' /\ Slots' /\ Replies' /\ Shutdown' /\ Shapes' /\ Fence' /\ TypeOK'
    BY <1>1, <1>2, <1>3, <1>5, CalledJoins
  <2>2. Targets'  BY <1>1, <1>2, <2>1, TargetsStay
  <2> QED  BY <2>1, <2>2 DEF IInv
<1> QED  BY <1>1, <1>4, <1>5

\* What the gate decides of a target: the first presentation binds it and goes on, or binds it
\* refused; every later one is answered from the slot.
LEMMA TokenGateKeeps == ASSUME IInv, NEW i, Dispatching(i), TokenGate(i) PROVE IInv'
<1>0. PICK t : t = items[i].token  OBVIOUS
<1>1. items[i].kind = "intent" /\ own' = own  BY DEF TokenGate
<1>2. /\ i \in Called /\ i \in Accepted /\ items[i] \in ItemT /\ Shape(i)
      /\ i \notin Queued /\ i \notin InFlight /\ ~items[i].handed
  BY NextCalled DEF Dispatching
<1>3. Tokened(i) /\ t \in Token /\ BindingOf(i) \in Binding /\ items[i].epoch <= own.epoch
  BY <1>0, <1>1, <1>2 DEF Shape, Tokened, ItemT, BindingOf, Binding
<1>4. book \in [Token -> SlotT] /\ own.epoch \in Nat /\ items[i].epoch \in Nat
  BY <1>2, TypesAre DEF IInv, OwnT, ItemT
<1>5. Slot(t) /\ BindingOf(i) # None  BY <1>3, MarksApart DEF IInv, Targets
<1>6. \/ UNCHANGED <<pending, book>> /\ \E a \in Settled : Answer({i}, a)
      \/ /\ book[t].bound = None /\ book' = Bound(t, BindingOf(i), "refused")
         /\ Answer({i}, "refused") /\ pending' = pending
      \/ /\ book[t].bound = None /\ book' = Bound(t, BindingOf(i), None) /\ proc.local
         /\ ~(items[i].epoch < own.epoch)
         /\ pending' = Append(pending, i) /\ UNCHANGED <<items, used>>
  <2>1. "refused" \in Settled /\ "in_progress" \in Settled  BY DEF Settled
  <2>2. book[t].result = None \/ book[t].result \in Settled  BY <1>0, <1>3, <1>4 DEF SlotT
  <2> QED  BY <1>0, <2>1, <2>2 DEF TokenGate, BindingOf
<1>7. CASE UNCHANGED <<pending, book>> /\ \E a \in Settled : Answer({i}, a)
  <2>1. /\ SameItems /\ SameWriting /\ Queued' = Queued /\ InFlight' = InFlight
        /\ Unread' /\ Standing' /\ Slots' /\ Replies' /\ Shutdown' /\ Shapes' /\ Fence' /\ TypeOK'
    BY <1>1, <1>4, <1>7, CalledLeaves
  <2>2. Targets'  BY <1>7, <2>1, TargetsStay
  <2> QED  BY <2>1, <2>2 DEF IInv
<1>8. CASE /\ book[t].bound = None /\ book' = Bound(t, BindingOf(i), "refused")
           /\ Answer({i}, "refused") /\ pending' = pending
  <2>1. /\ book' \in [Token -> SlotT] /\ \A u \in Token : u # t => book'[u] = book[u]
        /\ book'[t].bound = BindingOf(i) /\ book'[t].result = "refused"
    BY <1>0, <1>3, <1>4, <1>8 DEF Bound, SlotT, Settled
  <2>2. "refused" \in Settled  BY DEF Settled
  <2>3. /\ SameItems /\ SameWriting /\ Queued' = Queued /\ InFlight' = InFlight
        /\ Unread' /\ Standing' /\ Slots' /\ Replies' /\ Shutdown' /\ Shapes' /\ Fence' /\ TypeOK'
    BY <1>1, <1>8, <2>1, <2>2, CalledLeaves
  <2>4. Slot(t)'
    <3>1. Live(t) = {} /\ Written(t) = {}  BY <1>5, <1>8 DEF Slot
    <3>2. Live(t)' = {} /\ Written(t)' = {}
      BY <2>3, <3>1 DEF Live, Written, Of, Accepted, SameItems, SameWriting
    <3> QED  BY <1>5, <2>1, <3>2, MarksApart DEF Slot, Settled
  <2>5. \A u \in Token : u # t => Slot(u)'  BY <2>1, <2>3, SlotStays
  <2>6. Targets'  BY <2>4, <2>5 DEF Targets
  <2> QED  BY <2>3, <2>6 DEF IInv
<1>9. CASE /\ book[t].bound = None /\ book' = Bound(t, BindingOf(i), None) /\ proc.local
           /\ ~(items[i].epoch < own.epoch)
           /\ pending' = Append(pending, i) /\ UNCHANGED <<items, used>>
  <2>1. /\ book' \in [Token -> SlotT] /\ \A u \in Token : u # t => book'[u] = book[u]
        /\ book'[t].bound = BindingOf(i) /\ book'[t].result = None
    BY <1>0, <1>3, <1>4, <1>9 DEF Bound, SlotT
  <2>2. items[i].kind # "bump" /\ items[i].epoch = own.epoch  BY <1>1, <1>3, <1>4, <1>9
  <2>3. /\ SameItems /\ SameWriting /\ Queued' = Queued \cup {i} /\ InFlight' = InFlight
        /\ Unread' /\ Standing' /\ Slots' /\ Replies' /\ Shutdown' /\ Shapes' /\ Fence' /\ TypeOK'
    BY <1>1, <1>9, <2>1, <2>2, CalledJoins
  <2>4. Slot(t)'
    <3>1. Live(t) = {} /\ Written(t) = {}  BY <1>5, <1>9 DEF Slot
    <3>2. Of(t)' = Of(t) /\ i \in Of(t)
      BY <1>0, <1>2, <2>3 DEF Of, Accepted, SameItems
    <3>3. Live(t)' = {i}  BY <2>3, <3>1, <3>2 DEF Live
    <3>4. Written(t)' = {}  BY <2>3, <3>1, <3>2 DEF Written, Of, SameWriting
    <3>5. BindingOf(i)' = BindingOf(i)  BY <1>9 DEF BindingOf
    <3>6. book'[t].bound # None /\ None \notin {"executed", "failed"} /\ None # "unknown"
      BY <1>5, <2>1, MarksApart DEF Settled
    <3> QED  BY <2>1, <3>3, <3>4, <3>5, <3>6 DEF Slot
  <2>5. \A u \in Token : u # t => Slot(u)'
    <3> TAKE u \in Token
    <3> HAVE u # t
    <3>1. \A k \in Of(u) : k # i  BY <1>0 DEF Of
    <3> QED  BY <2>1, <2>3, <3>1, SlotStays
  <2>6. Targets'  BY <2>4, <2>5 DEF Targets
  <2> QED  BY <2>3, <2>6 DEF IInv
<1> QED  BY <1>6, <1>7, <1>8, <1>9

\* The queue when members of it leave at once.
LEMMA QueueLoses ==
  ASSUME IInv, NEW D \in SUBSET Queued, pending' = Without(pending, D), UNCHANGED <<flight, reserved>>
  PROVE  /\ pending' \in Seq(Entry) /\ Queued' = Queued \ D /\ InFlight' = InFlight
         /\ Numbered(pending') /\ Replies'
<1>1. pending \in Seq(Entry) /\ Numbered(pending)  BY TypesAre DEF IInv, Standing
<1>2. Reply \notin D  BY MarksApart DEF Queued
<1>3. /\ pending' \in Seq(Entry) /\ Range(pending') = Range(pending) \ D /\ Numbered(pending')
      /\ Cardinality(Marks(pending')) <= Cardinality(Marks(pending))
  BY <1>1, <1>2, TakenOut
<1>4. Queued' = Queued \ D /\ InFlight' = InFlight  BY <1>3 DEF Queued, InFlight
<1> QED  BY <1>3, <1>4, PledgesStay

\* The items of S are recorded at their targets with the outcome a.
LEMMA RecordedAre ==
  ASSUME TypeOK, NEW S, NEW a \in Settled, Record(S, a)
  PROVE  book' \in [Token -> SlotT] /\ Tells(S, a)
<1>1. book \in [Token -> SlotT]  BY TypesAre
<1> SUFFICES ASSUME NEW t \in Token
             PROVE  /\ book'[t] \in SlotT /\ book'[t].bound = book[t].bound
                    /\ book'[t].result = IF \E i \in S : items[i].token = t THEN a ELSE book[t].result
  BY DEF Record, Recorded, Tells
<1>2. book[t] \in SlotT  BY <1>1
<1>3. book'[t] = IF \E i \in S : items[i].token = t THEN [book[t] EXCEPT !.result = a] ELSE book[t]
  BY DEF Record, Recorded
<1> QED  BY <1>2, <1>3 DEF SlotT

\* A revocation that is newer moves the fence and sweeps what waits behind the writer.
LEMMA BumpKeeps == ASSUME IInv, NEW i, Dispatching(i), ApplyBump(i) PROVE IInv'
<1>1. items[i].kind = "bump" /\ "executed" \in Settled /\ "refused" \in Settled
  BY DEF ApplyBump, Settled
<1>2. /\ i \in Called /\ i \in Item /\ i \in Waiting /\ i \in Accepted /\ items[i] \in ItemT /\ Shape(i)
      /\ i \notin Queued /\ i \notin InFlight /\ ~items[i].handed
      /\ incoming' \in Seq(Item) /\ Numbered(incoming') /\ Called' = Called \ {i}
  BY NextCalled DEF Dispatching
<1>3. own \in OwnT /\ own.epoch \in Nat /\ items[i].epoch \in Nat /\ items[i].epoch <= own.epoch
  BY <1>2, TypesAre DEF IInv, OwnT, ItemT, Shape
<1>4. CASE ~(items[i].epoch + 1 > own.epoch)
  <2>1. Answer({i}, "executed") /\ UNCHANGED <<own, pending, book>> /\ items[i].epoch < own.epoch
    BY <1>3, <1>4 DEF ApplyBump
  <2>2. book' \in [Token -> SlotT]  BY <2>1, TypesAre DEF IInv
  <2>3. /\ SameItems /\ SameWriting /\ Queued' = Queued /\ InFlight' = InFlight
        /\ Unread' /\ Standing' /\ Slots' /\ Replies' /\ Shutdown' /\ Shapes' /\ Fence' /\ TypeOK'
    BY <1>1, <2>1, <2>2, CalledLeaves
  <2>4. Targets'  BY <2>1, <2>3, TargetsStay
  <2> QED  BY <2>3, <2>4 DEF IInv
<1>5. CASE items[i].epoch + 1 > own.epoch
  <2>1. /\ own' = [own EXCEPT !.epoch = items[i].epoch + 1]
        /\ items' = [Answered(Swept, "refused") EXCEPT ![i].answer = "executed"]
        /\ used' = used - Freed(Swept) /\ Record(Swept, "refused")
        /\ pending' = Without(pending, Swept)
    BY <1>5 DEF ApplyBump
  <2>2. /\ own' \in OwnT /\ own'.epoch = items[i].epoch + 1 /\ own'.epoch \in Nat
        /\ own'.epoch >= own.epoch /\ items[i].epoch < own'.epoch
        /\ own'.closing = own.closing /\ own'.stopped = own.stopped
    BY <1>3, <1>5, <2>1 DEF OwnT
  <2>3. Swept = {k \in Queued : Tokened(k)} /\ i \notin Swept
    BY <1>2 DEF Swept, Queued
  <2>4. /\ pending' \in Seq(Entry) /\ Queued' = Queued \ Swept /\ InFlight' = InFlight
        /\ Numbered(pending') /\ Replies'
    BY <2>1, <2>3, QueueLoses DEF Dispatching
  <2>5. items' \in Seq(ItemT) /\ SameItems /\ SameWriting /\ Settles({i} \cup Swept)
    <3> DEFINE mid == Answered(Swept, "refused")
    <3>1. /\ mid \in Seq(ItemT) /\ DOMAIN mid = Accepted
          /\ \A k \in Accepted :
               mid[k] = IF k \in Swept THEN [items[k] EXCEPT !.answer = "refused"] ELSE items[k]
      BY <1>1, AnsweredAre DEF IInv
    <3>2. /\ \A k \in Accepted : items[k] \in ItemT
          /\ Accepted = 1..Len(items) /\ Len(items) \in Nat
      BY ItemsAre DEF IInv
    <3>3. items' = [mid EXCEPT ![i] = [mid[i] EXCEPT !.answer = "executed"]]  BY <2>1
    <3>4. mid[i] = items[i] /\ [items[i] EXCEPT !.answer = "executed"] \in ItemT
      BY <1>1, <1>2, <2>3, <3>1 DEF ItemT
    <3> HIDE DEF mid
    <3>5. mid \in [Accepted -> ItemT] /\ items' \in Seq(ItemT)
      <4>1. i \in 1..Len(mid)  BY <1>2, <3>1
      <4>2. items' \in Seq(ItemT)  BY <3>1, <3>3, <3>4, <4>1, ExceptSeq
      <4> QED  BY <3>1, <3>2, <4>2
    <3>6. /\ DOMAIN items' = Accepted
          /\ \A k \in Accepted :
               items'[k] = IF k = i THEN [items[k] EXCEPT !.answer = "executed"]
                           ELSE IF k \in Swept THEN [items[k] EXCEPT !.answer = "refused"]
                           ELSE items[k]
      BY <1>2, <3>1, <3>3, <3>4, <3>5
    <3>7. \A k \in Accepted :
            /\ items'[k].kind = items[k].kind /\ items'[k].token = items[k].token
            /\ items'[k].payload = items[k].payload /\ items'[k].epoch = items[k].epoch
            /\ items'[k].handed = items[k].handed
            /\ IF k \in {i} \cup Swept THEN items'[k].answer \in {"executed", "refused"}
               ELSE items'[k].answer = items[k].answer
      BY <3>2, <3>6 DEF ItemT
    <3>8. Freed({i} \cup Swept) = Freed(Swept)
      <4>1. {k \in {i} \cup Swept : items[k].kind # "bump"} = {k \in Swept : items[k].kind # "bump"}
        BY <1>1
      <4> QED  BY <4>1 DEF Freed
    <3>9. None \notin {"executed", "refused"}  BY MarksApart DEF Settled
    <3> QED  BY <2>1, <3>5, <3>6, <3>7, <3>8, <3>9 DEF SameItems, SameWriting, Settles
  <2>6. \A k \in Queued' : ~Tokened(k) /\ k \in Queued  BY <2>3, <2>4
  <2>7. Called' \cup Queued' \cup InFlight' = Waiting \ ({i} \cup Swept)
    <3>1. Called \cup Queued \cup InFlight = Waiting /\ InFlight \cap (Called \cup Queued) = {}
          /\ \A k \in Queued, l \in Called : k < l
      BY DEF IInv, Standing
    <3>2. Queued \cap Called = {}
      <4>1. \A k \in Queued : ~(k < k)  BY DEF Queued, Item
      <4> QED  BY <3>1, <4>1
    <3> QED  BY <1>2, <2>3, <2>4, <3>1, <3>2
  <2>8. \A k \in {i} \cup Swept : items[k].kind = "bump" => items[k].epoch < own'.epoch
    <3>1. \A k \in Swept : k \in Accepted  BY <2>3 DEF IInv, Standing, Waiting
    <3>2. \A k \in Swept : items[k].kind # "bump"  BY <2>3, <3>1 DEF IInv, Shapes, Shape
    <3> QED  BY <2>2, <3>2
  <2>9. {i} \cup Swept \in SUBSET Waiting /\ Called' \subseteq Called
    BY <1>2, <2>3 DEF IInv, Standing
  <2>10. Standing' /\ Slots' /\ Shapes' /\ Fence' /\ used' \in 0..MaxQueue
    BY <1>2, <2>2, <2>4, <2>5, <2>6, <2>7, <2>8, <2>9, LeavesKeep DEF Dispatching
  <2>11. book' \in [Token -> SlotT] /\ Tells(Swept, "refused")
    BY <1>1, <2>1, RecordedAre DEF IInv
  <2>12. Swept \in SUBSET Queued  BY <2>3
  <2>13. Targets'  BY <2>4, <2>5, <2>11, <2>12, TargetsKept
  <2>14. Unread' /\ Shutdown'  BY <2>2, DispatchLeaves
  <2>15. TypeOK'
    BY <1>2, <2>2, <2>4, <2>5, <2>10, <2>11, TypesAre, TypesAreNext DEF IInv, Dispatching
  <2> QED  BY <2>4, <2>10, <2>13, <2>14, <2>15 DEF IInv
<1> QED  BY <1>4, <1>5

\* One item is taken from the channel (dispatchIncoming).
LEMMA DispatchKeeps == ASSUME IInv, Dispatch PROVE IInv'
<1>1. PICK i : i = Head(incoming)  OBVIOUS
<1>2. Dispatching(i) /\ (ApplyBump(i) \/ InteractiveGate(i) \/ TokenGate(i) \/ Queue(i))
  BY <1>1 DEF Dispatch, Dispatching
<1> QED  BY <1>2, BumpKeeps, PlainKeep, TokenGateKeeps

-----------------------------------------------------------------------------
(* The queue and the writer.                                               *)

\* What the leaving leaves alone.
Elsewhere == UNCHANGED <<proc, screen, incoming, flight, reserved, own, stop, detach>>

\* Items of the queue are answered without having been written, and recorded as that.
LEMMA QueuedLeave ==
  ASSUME IInv, NEW S \in SUBSET Queued, NEW a \in {"refused", "cancelled", "in_progress"},
         Answer(S, a), Record(S, a), ~own.closing, Elsewhere,
         pending' \in Seq(Entry), Queued' = Queued \ S, Numbered(pending'), Replies'
  PROVE  IInv'
<1>0. /\ proc' = proc /\ screen' = screen /\ incoming' = incoming /\ flight' = flight
      /\ reserved' = reserved /\ own' = own /\ stop' = stop /\ detach' = detach
  BY DEF Elsewhere
<1>1. a \in Settled  BY DEF Settled
<1>2. items' \in Seq(ItemT) /\ SameItems /\ SameWriting /\ Settles(S)
  BY <1>1, AnswerSettles DEF IInv
<1>3. book' \in [Token -> SlotT] /\ Tells(S, a)  BY <1>1, RecordedAre DEF IInv
<1>4. own \in OwnT /\ own.epoch \in Nat  BY TypesAre DEF IInv, OwnT
<1>5. Called' = Called /\ InFlight' = InFlight /\ Numbered(incoming')
  BY <1>0 DEF Called, InFlight, IInv, Standing
<1>6. /\ S \in SUBSET Waiting /\ Called' \cup Queued' \cup InFlight' = Waiting \ S
      /\ \A k \in S : k \in Accepted
  <2>1. Called \cup Queued \cup InFlight = Waiting /\ InFlight \cap (Called \cup Queued) = {}
        /\ \A k \in Queued, l \in Called : k < l
    BY DEF IInv, Standing
  <2>2. \A k \in Queued : ~(k < k)  BY DEF Queued, Item
  <2>3. Queued \cap Called = {}  BY <2>1, <2>2
  <2>4. \A k \in S : k \in Accepted  BY <2>1 DEF Waiting
  <2> QED  BY <1>5, <2>1, <2>3, <2>4
<1>7. \A k \in S : items[k].kind # "bump"  BY <1>6 DEF IInv, Shapes, Shape
<1>8. \A k \in Queued' : k \in Queued /\ (Tokened(k) => items[k].epoch = own'.epoch)
  BY <1>0 DEF IInv, Fence
<1>9. own'.epoch \in Nat /\ own'.epoch >= own.epoch /\ proc'.local = proc.local  BY <1>0, <1>4
<1>10. Standing' /\ Slots' /\ Shapes' /\ Fence' /\ used' \in 0..MaxQueue
  BY <1>2, <1>5, <1>6, <1>7, <1>8, <1>9, LeavesKeep
<1>11. Targets'
  <2>1. \A i \in Accepted : /\ i \in Queued' <=> i \in Queued \ S
                            /\ i \in InFlight' <=> i \in InFlight
    BY <1>5
  <2> QED  BY <1>2, <1>3, <2>1, TargetsKept
<1>12. TypeOK'  BY <1>0, <1>2, <1>3, <1>10, TypesAre, TypesAreNext DEF IInv
<1>13. Unread' /\ Shutdown'  BY <1>0 DEF IInv, Unread, Shutdown
<1> QED  BY <1>10, <1>11, <1>12, <1>13 DEF IInv

\* What is past its deadline leaves the queue, whatever the writer does (expirePending).
LEMMA ExpireKeeps == ASSUME IInv, ExpirePending PROVE IInv'
<1>1. /\ UNCHANGED <<proc, screen, incoming, flight, reserved, own, stop, detach>>
      /\ Overdue # {} /\ Answer(Overdue, "refused") /\ Record(Overdue, "refused")
      /\ pending' = Without(pending, Overdue)
  BY DEF ExpirePending
<1>2. Overdue \in SUBSET Queued  BY DEF Overdue, Queued
<1>3. pending' \in Seq(Entry) /\ Queued' = Queued \ Overdue /\ Numbered(pending') /\ Replies'
  BY <1>1, <1>2, QueueLoses
<1>4. ~own.closing  BY <1>1, <1>2 DEF IInv, Shutdown
<1>5. Elsewhere  BY <1>1 DEF Elsewhere
<1> QED  BY <1>1, <1>2, <1>3, <1>4, <1>5, QueuedLeave

\* The head of the queue, and what is known of it.
LEMMA HeadIs ==
  ASSUME IInv, WriterFree, NEW i, i = Head(pending), i \in Item, NEW q, q = Tail(pending)
  PROVE  /\ i \in Queued /\ i \in Waiting /\ i \in Accepted /\ items[i] \in ItemT /\ Shape(i)
         /\ i \notin InFlight /\ i \notin Called /\ ~items[i].handed
         /\ flight = None /\ InFlight = {} /\ Called = {} /\ ~own.closing /\ ~own.stopped
         /\ q \in Seq(Entry) /\ Numbered(q) /\ Range(q) \cap Item = Queued \ {i}
         /\ \A k \in Queued \ {i} : i < k
         /\ Cardinality(Marks(q)) <= Cardinality(Marks(pending))
<1>1. flight = None /\ pending # <<>> /\ incoming = <<>> /\ ~own.stopped  BY DEF WriterFree
<1>2. pending \in Seq(Entry) /\ Numbered(pending)  BY TypesAre DEF IInv, Standing
<1>3. i # Reply  BY MarksApart
<1>4. /\ q \in Seq(Entry) /\ Range(pending) = Range(q) \cup {i} /\ Numbered(q)
      /\ \A k \in Range(q) \cap Item : i < k
      /\ Cardinality(Marks(q)) <= Cardinality(Marks(pending)) - (IF i = Reply THEN 1 ELSE 0)
  BY <1>1, <1>2, HeadTaken
<1>5. Cardinality(Marks(pending)) \in Nat  BY <1>2, MarksAreFinite
<1>6. Cardinality(Marks(q)) <= Cardinality(Marks(pending))  BY <1>3, <1>4, <1>5
<1>7. i \in Queued /\ Range(q) \cap Item = Queued \ {i}
  <2>1. ~(i < i)  BY DEF Item
  <2> QED  BY <1>4, <2>1 DEF Queued
<1>8. Called = {} /\ InFlight = {}  BY <1>1, MarksApart DEF Called, InFlight, Range
<1>9. i \in Waiting /\ i \in Accepted  BY <1>7 DEF IInv, Standing, Waiting
<1>10. items[i] \in ItemT /\ Shape(i) /\ ~items[i].handed
  BY <1>7, <1>9, ItemsAre DEF IInv, Shapes, Shape
<1>11. ~own.closing  BY <1>7 DEF IInv, Shutdown
<1> QED  BY <1>1, <1>4, <1>6, <1>7, <1>8, <1>9, <1>10, <1>11

\* The head is answered without being written.
LEMMA HeadRefused ==
  ASSUME IInv, WriterFree, NEW i, i = Head(pending), i \in Item,
         NEW a \in {"refused", "cancelled", "in_progress"}, Answer({i}, a), Record({i}, a),
         pending' = Tail(pending), Elsewhere
  PROVE  IInv'
<1>1. /\ i \in Queued /\ ~own.closing
      /\ pending' \in Seq(Entry) /\ Numbered(pending') /\ Range(pending') \cap Item = Queued \ {i}
      /\ Cardinality(Marks(pending')) <= Cardinality(Marks(pending))
  BY HeadIs
<1>2. Replies'  BY <1>1, PledgesStay DEF Elsewhere
<1>3. Queued' = Queued \ {i}  BY <1>1 DEF Queued
<1> QED  BY <1>1, <1>2, <1>3, QueuedLeave

\* The head is handed to the writer.
LEMMA HeadHanded ==
  ASSUME IInv, WriterFree, NEW i, i = Head(pending), i \in Item,
         flight' = i, items' = [items EXCEPT ![i].handed = TRUE], pending' = Tail(pending),
         UNCHANGED <<proc, screen, incoming, used, reserved, own, stop, detach, book>>
  PROVE  IInv'
<1>1. /\ i \in Queued /\ i \in Waiting /\ i \in Accepted /\ items[i] \in ItemT /\ Shape(i)
      /\ ~items[i].handed /\ flight = None /\ InFlight = {} /\ Called = {}
      /\ ~own.closing /\ ~own.stopped
      /\ pending' \in Seq(Entry) /\ Numbered(pending') /\ Range(pending') \cap Item = Queued \ {i}
      /\ Cardinality(Marks(pending')) <= Cardinality(Marks(pending))
  BY HeadIs
<1>2. Queued' = Queued \ {i} /\ InFlight' = {i} /\ Called' = {}
  BY <1>1 DEF Queued, InFlight, Called
<1>3. /\ Accepted = 1..Len(items) /\ Len(items) \in Nat /\ items \in Seq(ItemT)
      /\ \A j \in Accepted : items[j] \in ItemT
  BY ItemsAre, TypesAre DEF IInv
<1>4. items' = [items EXCEPT ![i] = [items[i] EXCEPT !.handed = TRUE]]  OBVIOUS
<1>5. items' \in Seq(ItemT)
  <2>1. [items[i] EXCEPT !.handed = TRUE] \in ItemT  BY <1>1 DEF ItemT
  <2> QED  BY <1>1, <1>3, <1>4, <2>1, ExceptSeq
<1>6. /\ DOMAIN items' = Accepted
      /\ \A j \in Accepted :
           items'[j] = IF j = i THEN [items[j] EXCEPT !.handed = TRUE] ELSE items[j]
  <2>1. items \in [Accepted -> ItemT]  BY <1>3 DEF Accepted
  <2> QED  BY <1>1, <1>4, <2>1
<1>7. /\ SameItems
      /\ \A j \in Accepted : /\ items'[j].answer = items[j].answer
                             /\ items'[j].handed <=> j = i \/ items[j].handed
  <2>1. \A j \in Accepted :
          /\ items'[j].kind = items[j].kind /\ items'[j].token = items[j].token
          /\ items'[j].payload = items[j].payload /\ items'[j].epoch = items[j].epoch
          /\ items'[j].answer = items[j].answer
          /\ items'[j].handed <=> j = i \/ items[j].handed
    BY <1>3, <1>6 DEF ItemT
  <2> QED  BY <1>6, <2>1 DEF SameItems
<1>8. Accepted' = Accepted /\ Waiting' = Waiting  BY <1>6, <1>7 DEF Accepted, Waiting
<1>9. TypeOK'
  <2>1. flight' \in Entry \cup {None}  BY DEF Entry
  <2> QED  BY <1>1, <1>5, <2>1, TypesAre, TypesAreNext DEF IInv
<1>10. Standing'
  <2>1. Queued = Waiting /\ Numbered(incoming)  BY <1>1 DEF IInv, Standing
  <2>2. Numbered(incoming)' /\ Numbered(pending)'  BY <1>1, <2>1 DEF Numbered
  <2> QED  BY <1>1, <1>2, <1>8, <2>1, <2>2 DEF Standing
<1>11. Slots'
  <2>1. {k \in Waiting : items'[k].kind # "bump"} = {k \in Waiting : items[k].kind # "bump"}
    BY <1>7 DEF SameItems, Waiting
  <2>2. used = Cardinality({k \in Waiting : items[k].kind # "bump"})  BY DEF IInv, Slots, Freed
  <2>3. used' = Cardinality({k \in Waiting' : items'[k].kind # "bump"})  BY <1>8, <2>1, <2>2
  <2> QED  BY <2>3 DEF Slots, Freed
<1>12. Replies'
  <2>1. flight' # Reply  BY MarksApart
  <2>0. pending \in Seq(Entry) /\ reserved \in Nat  BY TypesAre DEF IInv
  <2>2. Cardinality(Marks(pending)) \in Nat /\ Cardinality(Marks(pending')) \in Nat /\ reserved \in Nat
    BY <1>1, <2>0, MarksAreFinite
  <2>3. Cardinality(Marks(pending)) <= reserved
    BY <1>1, <2>2, MarksApart DEF IInv, Replies, Pledged
  <2> QED  BY <1>1, <2>1, <2>2, <2>3 DEF Replies, Pledged
<1>13. Shapes'
  <2> SUFFICES ASSUME NEW j \in Accepted PROVE Shape(j)'  BY <1>8 DEF Shapes
  <2>1. Shape(j)  BY DEF IInv, Shapes
  <2>2. /\ items'[j].kind = items[j].kind /\ items'[j].token = items[j].token
        /\ items'[j].payload = items[j].payload /\ items'[j].epoch = items[j].epoch
        /\ Tokened(j)' <=> Tokened(j)
        /\ items'[j].handed <=> j = i \/ items[j].handed
    BY <1>7 DEF SameItems, Tokened
  <2>3. /\ j \in Queued' => j \in Queued /\ j # i
        /\ j \notin Called' /\ (j \in InFlight' <=> j = i)
    BY <1>2
  <2> QED  BY <1>1, <2>1, <2>2, <2>3 DEF Shape
<1>14. Fence'
  <2>1. own \in OwnT /\ own.epoch \in Nat  BY TypesAre DEF IInv, OwnT
  <2>2. \A k \in Queued' : k \in Queued /\ k \in Accepted  BY <1>2 DEF IInv, Standing, Waiting
  <2>3. \A k \in Queued' : Tokened(k) => items[k].epoch = own'.epoch  BY <2>2 DEF IInv, Fence
  <2> QED  BY <1>7, <2>1, <2>2, <2>3, FenceKept
<1>15. Targets'
  <2> SUFFICES ASSUME NEW t \in Token PROVE Slot(t)'  BY DEF Targets
  <2>1. Slot(t)  BY DEF IInv, Targets
  <2>2. Of(t)' = Of(t) /\ Of(t) \subseteq Accepted  BY <1>7, <1>8 DEF Of, SameItems
  <2>3. Live(t)' = Live(t)  BY <1>1, <1>2, <2>2 DEF Live
  <2>4. \A k \in Of(t) : BindingOf(k)' = BindingOf(k) /\ items'[k].payload = items[k].payload
    BY <1>7, <2>2 DEF BindingOf, SameItems
  <2>5. CASE items[i].token = t
    <3>1. /\ Live(t) = {i} /\ Written(t) = {}
          /\ book[t].bound = BindingOf(i) /\ book[t].result = None
      BY <1>1, <2>5, OneLive
    <3>2. Written(t)' = {i} /\ i \in Of(t)
      BY <1>1, <1>7, <2>2, <2>5, <3>1 DEF Written, Of
    <3>3. BindingOf(i)' = BindingOf(i) /\ BindingOf(i).payload = items'[i].payload
      BY <2>4, <3>2 DEF BindingOf
    <3>4. book[t].bound # None  BY <2>1, <3>1 DEF Slot
    <3>5. i \in InFlight' /\ None \notin {"executed", "failed"} /\ None # "unknown"
      BY <1>2, MarksApart DEF Settled
    <3> QED  BY <2>3, <3>1, <3>2, <3>3, <3>4, <3>5 DEF Slot
  <2>6. CASE items[i].token # t
    <3>1. i \notin Of(t)  BY <2>6 DEF Of
    <3>2. Written(t)' = Written(t)  BY <1>7, <2>2, <3>1 DEF Written
    <3>3. \A k \in Live(t) \cup Written(t) : k \in Of(t)  BY DEF Live, Written
    <3>4. \A k \in Written(t) : k \in InFlight => k \in InFlight'  BY <1>1
    <3> QED  BY <2>1, <2>3, <2>4, <3>2, <3>3, <3>4 DEF Slot
  <2> QED  BY <2>5, <2>6
<1>16. Unread' /\ Shutdown'  BY <1>1 DEF IInv, Unread, Shutdown
<1> QED  BY <1>9, <1>10, <1>11, <1>12, <1>13, <1>14, <1>15, <1>16 DEF IInv

\* The head is refused or handed to the writer (advance, commitIntent, writeStart).
LEMMA AdvanceItemKeeps == ASSUME IInv, AdvanceItem PROVE IInv'
<1>1. PICK i : i = Head(pending)  OBVIOUS
<1>2. /\ WriterFree /\ i \in Item /\ pending' = Tail(pending)
      /\ UNCHANGED <<proc, screen, incoming, reserved, own, stop, detach>>
      /\ WriteStart(i) \/ CommitIntent(i)
  BY <1>1 DEF AdvanceItem, IsItem
<1>3. ASSUME WriteStart(i) PROVE IInv'
  <2>1. CASE detach = "done"
    <3>1. Answer({i}, "cancelled") /\ Record({i}, "cancelled") /\ flight' = flight
      BY <1>3, <2>1 DEF WriteStart
    <3>2. Elsewhere  BY <1>2, <3>1 DEF Elsewhere
    <3> QED  BY <1>1, <1>2, <3>1, <3>2, HeadRefused
  <2>2. CASE detach # "done"
    <3>1. flight' = i /\ items' = [items EXCEPT ![i].handed = TRUE] /\ UNCHANGED <<used, book>>
      BY <1>3, <2>2 DEF WriteStart
    <3> QED  BY <1>1, <1>2, <3>1, HeadHanded
  <2> QED  BY <2>1, <2>2
<1>4. ASSUME NEW a \in {"refused", "in_progress"}, Refuse(i, a) PROVE IInv'
  <2>1. Answer({i}, a) /\ Record({i}, a) /\ flight' = flight  BY <1>4 DEF Refuse
  <2>2. Elsewhere  BY <1>2, <2>1 DEF Elsewhere
  <2> QED  BY <1>1, <1>2, <2>1, <2>2, HeadRefused
<1>5. CommitIntent(i) => Refuse(i, "refused") \/ Refuse(i, "in_progress") \/ WriteStart(i)
  BY DEF CommitIntent
<1> QED  BY <1>2, <1>3, <1>4, <1>5

\* A geometry is answered on the spot; the emulator may answer it.
LEMMA AdvanceResizeKeeps == ASSUME IInv, AdvanceResize PROVE IInv'
<1>1. PICK i : i = Head(pending)  OBVIOUS
<1>2. PICK q : q = Tail(pending)  OBVIOUS
<1>3. /\ WriterFree /\ i \in Item /\ items[i].kind = "resize"
      /\ UNCHANGED <<proc, incoming, flight, own, stop, detach, book>>
  BY <1>1 DEF AdvanceResize, IsItem
<1>4. PICK size \in Size, look \in Look, asks \in BOOLEAN, ok \in BOOLEAN :
        /\ screen' = [size |-> IF ok THEN size ELSE screen.size, look |-> look,
                      complete |-> screen.complete /\ (asks => ReplyFits)]
        /\ pending' = q \o Replied(asks) /\ Reserve(asks)
        /\ Answer({i}, IF ok THEN "executed" ELSE "failed")
  BY <1>1, <1>2 DEF AdvanceResize
<1>5. /\ i \in Queued /\ i \in Waiting /\ i \in Accepted /\ Shape(i)
      /\ flight = None /\ InFlight = {} /\ Called = {} /\ ~own.closing /\ ~own.stopped
      /\ q \in Seq(Entry) /\ Numbered(q) /\ Range(q) \cap Item = Queued \ {i}
      /\ Cardinality(Marks(q)) <= Cardinality(Marks(pending))
  BY <1>1, <1>2, <1>3, HeadIs
<1>6. ~Tokened(i)  BY <1>3, <1>5 DEF Shape
<1>7. items' \in Seq(ItemT) /\ SameItems /\ SameWriting /\ Settles({i})
  <2>1. (IF ok THEN "executed" ELSE "failed") \in Settled  BY DEF Settled
  <2> QED  BY <1>4, <2>1, AnswerSettles DEF IInv
<1>8. screen' \in ScreenT
  <2>1. screen \in ScreenT  BY TypesAre DEF IInv
  <2>2. ReplyFits \in BOOLEAN  BY DEF ReplyFits
  <2> QED  BY <1>4, <2>1, <2>2 DEF ScreenT
<1>9. Cardinality(Marks(q)) + (IF flight = Reply THEN 1 ELSE 0) <= reserved
  <2>1. pending \in Seq(Entry) /\ reserved \in Nat  BY TypesAre DEF IInv
  <2>2. Cardinality(Marks(pending)) \in Nat /\ Cardinality(Marks(q)) \in Nat
    BY <1>5, <2>1, MarksAreFinite
  <2>3. flight # Reply  BY <1>5, MarksApart
  <2>4. Cardinality(Marks(pending)) <= reserved  BY <2>2, <2>3 DEF IInv, Replies, Pledged
  <2> QED  BY <1>5, <2>1, <2>2, <2>3, <2>4
<1>10. /\ pending' \in Seq(Entry) /\ Queued' = Range(q) \cap Item /\ Numbered(pending')
       /\ reserved' \in 0..ReplyReserve /\ Replies'
  BY <1>3, <1>4, <1>5, <1>9, ReplyReserved DEF IInv
<1>11. Queued' = Queued \ {i} /\ Called' = {} /\ InFlight' = {} /\ Numbered(incoming')
  BY <1>3, <1>5, <1>10 DEF Called, InFlight, IInv, Standing
<1>12. Standing' /\ Slots' /\ Shapes' /\ Fence' /\ used' \in 0..MaxQueue
  <2>1. own \in OwnT /\ own.epoch \in Nat  BY TypesAre DEF IInv, OwnT
  <2>2. own'.epoch \in Nat /\ own'.epoch >= own.epoch /\ proc'.local = proc.local  BY <1>3, <2>1
  <2>3. {i} \in SUBSET Waiting /\ Called' \cup Queued' \cup InFlight' = Waiting \ {i}
    BY <1>5, <1>11 DEF IInv, Standing
  <2>4. \A k \in Queued' : k \in Queued /\ (Tokened(k) => items[k].epoch = own'.epoch)
    BY <1>3, <1>11 DEF IInv, Fence
  <2>5. \A k \in {i} : items[k].kind # "bump"  BY <1>3
  <2> QED  BY <1>5, <1>7, <1>10, <1>11, <2>2, <2>3, <2>4, <2>5, LeavesKeep
<1>13. Targets'  BY <1>3, <1>5, <1>6, <1>7, <1>11, TargetsStay
<1>14. TypeOK'
  BY <1>3, <1>7, <1>8, <1>10, <1>12, TypesAre, TypesAreNext DEF IInv
<1>15. Unread' /\ Shutdown'  BY <1>3, <1>5 DEF IInv, Unread, Shutdown
<1> QED  BY <1>10, <1>12, <1>13, <1>14, <1>15 DEF IInv

\* The item in the writer's hand is answered and leaves it.
LEMMA FlightLeaves ==
  ASSUME IInv, NEW i, i = flight, i \in Item, flight' = None, NEW a \in Settled, Answer({i}, a),
         UNCHANGED <<proc, screen, incoming, pending, reserved, own, stop>>
  PROVE  /\ i \in Accepted /\ Shape(i) /\ items[i].handed /\ items'\in Seq(ItemT)
         /\ SameItems /\ SameWriting /\ Queued' = Queued /\ InFlight = {i} /\ InFlight' = {}
         /\ Unread' /\ Standing' /\ Slots' /\ Replies' /\ Shapes' /\ Fence' /\ ~own.stopped
         /\ book' \in [Token -> SlotT] /\ detach' \in {"no", "pending", "done"} => TypeOK'
<1>1. items' \in Seq(ItemT) /\ SameItems /\ SameWriting /\ Settles({i})
  BY AnswerSettles DEF IInv
<1>2. /\ Called' = Called /\ Queued' = Queued /\ InFlight = {i} /\ InFlight' = {}
      /\ Numbered(incoming') /\ Numbered(pending')
  BY MarksApart DEF Called, Queued, InFlight, IInv, Standing
<1>3. /\ i \in Waiting /\ Called' \cup Queued' \cup InFlight' = Waiting \ {i}
  BY <1>2 DEF IInv, Standing
<1>4. i \in Accepted /\ Shape(i) /\ items[i].handed /\ items[i].kind # "bump"
  BY <1>2, <1>3 DEF IInv, Shapes, Shape, Waiting
<1>5. own \in OwnT /\ own.epoch \in Nat /\ own'.epoch >= own.epoch  BY TypesAre DEF IInv, OwnT
<1>6. \A k \in Queued' : k \in Queued /\ (Tokened(k) => items[k].epoch = own'.epoch)
  BY <1>2 DEF IInv, Fence
<1>7. Standing' /\ Slots' /\ Shapes' /\ Fence' /\ used' \in 0..MaxQueue
  BY <1>1, <1>2, <1>3, <1>4, <1>5, <1>6, LeavesKeep
<1>8. Replies'
  <2>1. flight # Reply /\ flight' # Reply  BY MarksApart
  <2> QED  BY <2>1 DEF IInv, Replies, Pledged
<1>9. book' \in [Token -> SlotT] /\ detach' \in {"no", "pending", "done"} => TypeOK'
  BY <1>1, <1>7, TypesAre, TypesAreNext DEF IInv
<1>10. Unread' /\ ~own.stopped  BY MarksApart DEF IInv, Unread, Shutdown
<1> QED  BY <1>1, <1>2, <1>4, <1>7, <1>8, <1>9, <1>10

\* An answer of the emulator's, or nothing, leaves the writer's hand.
LEMMA HandEmptied ==
  ASSUME IInv, flight \notin Item, flight' = None,
         UNCHANGED <<proc, screen, incoming, pending, own, stop, items, used, book>>
  PROVE  /\ Queued' = Queued /\ Unread' /\ Standing' /\ Slots' /\ Shapes' /\ Fence' /\ Targets'
         /\ reserved' \in 0..ReplyReserve /\ detach' \in {"no", "pending", "done"} => TypeOK'
<1>1. Queued' = Queued /\ InFlight' = InFlight /\ Numbered(pending')
  BY MarksApart DEF Queued, InFlight, IInv, Standing
<1>2. Idle  BY <1>1, StillIsIdle DEF SameSlots
<1>3. reserved' \in 0..ReplyReserve /\ detach' \in {"no", "pending", "done"} => TypeOK'
  BY TypesAre, TypesAreNext DEF IInv
<1>4. Unread'  BY DEF IInv, Unread
<1> QED  BY <1>1, <1>2, <1>3, <1>4, IdleKeeps

\* A write returns: its item is answered and its target says what became of it.
LEMMA CompleteWriteKeeps == ASSUME IInv, CompleteWrite PROVE IInv'
<1>1. /\ flight # None /\ flight' = None
      /\ UNCHANGED <<proc, screen, incoming, pending, own, stop, detach>>
      /\ \/ flight = Reply /\ reserved' = reserved - 1 /\ UNCHANGED <<items, used, book>>
         \/ /\ flight # Reply /\ reserved' = reserved
            /\ \E result \in {"executed", "failed"} : Answer({flight}, result) /\ Record({flight}, result)
  BY DEF CompleteWrite
<1>2. detach \in {"no", "pending", "done"} /\ book \in [Token -> SlotT]  BY TypesAre DEF IInv
<1>3. CASE flight = Reply /\ reserved' = reserved - 1 /\ UNCHANGED <<items, used, book>>
  <2>1. flight \notin Item /\ flight' # Reply  BY <1>1, <1>3, MarksApart
  <2>2. /\ reserved \in Nat /\ ReplyReserve \in Nat /\ reserved <= ReplyReserve
        /\ Cardinality(Marks(pending)) \in Nat
    BY TypesAre, BoundsAssumption, MarksAreFinite DEF IInv
  <2>3. Cardinality(Marks(pending)) + 1 <= reserved  BY <1>3 DEF IInv, Replies, Pledged
  <2>4. reserved' \in 0..ReplyReserve /\ Cardinality(Marks(pending)) <= reserved'
    BY <1>3, <2>2, <2>3
  <2>5. Replies'
    <3>1. Cardinality(Marks(pending)') + 0 <= reserved'  BY <1>1, <2>2, <2>4 DEF Marks
    <3> QED  BY <2>1, <3>1 DEF Replies, Pledged
  <2>6. /\ Queued' = Queued /\ Unread' /\ Standing' /\ Slots' /\ Shapes' /\ Fence' /\ Targets'
        /\ TypeOK'
    BY <1>1, <1>2, <1>3, <2>1, <2>4, HandEmptied
  <2>7. Shutdown'  BY <1>1, <2>6 DEF IInv, Shutdown, Called
  <2> QED  BY <2>5, <2>6, <2>7 DEF IInv
<1>4. CASE /\ flight # Reply /\ reserved' = reserved
           /\ \E result \in {"executed", "failed"} : Answer({flight}, result) /\ Record({flight}, result)
  <2>0. PICK i : i = flight  OBVIOUS
  <2>1. i \in Item  BY <1>1, <1>4, <2>0, TypesAre DEF IInv, Entry
  <2>2. PICK result \in {"executed", "failed"} : Answer({i}, result) /\ Record({i}, result)
    BY <1>4, <2>0
  <2>3. result \in Settled  BY DEF Settled
  <2>4. book' \in [Token -> SlotT] /\ Tells({i}, result)
    BY <2>2, <2>3, RecordedAre DEF IInv
  <2>5. /\ i \in Accepted /\ Shape(i) /\ items[i].handed
        /\ SameItems /\ SameWriting /\ Queued' = Queued /\ InFlight = {i} /\ InFlight' = {}
        /\ Unread' /\ Standing' /\ Slots' /\ Replies' /\ Shapes' /\ Fence' /\ ~own.stopped
        /\ TypeOK'
    BY <1>1, <1>2, <1>4, <2>0, <2>1, <2>2, <2>3, <2>4, FlightLeaves
  <2>6. ASSUME NEW t \in Token PROVE Slot(t)'
    <3>1. CASE items[i].token = t
      <4>1. Slot(t)  BY DEF IInv, Targets
      <4>2. i \in Live(t) /\ i \in Written(t)  BY <2>5, <3>1 DEF Live, Written, Of
      <4>3. Written(t) = {i} /\ Live(t) = {i} /\ book[t].bound = BindingOf(i) /\ book[t].bound # None
        BY <4>1, <4>2 DEF Slot
      <4>4. Of(t)' = Of(t) /\ Written(t)' = Written(t)
        BY <2>5 DEF Of, Written, Accepted, SameItems, SameWriting
      <4>5. Live(t)' = {}
        <5>1. i \notin Queued  BY <2>5 DEF IInv, Standing
        <5> QED  BY <2>5, <4>3, <4>4, <5>1 DEF Live
      <4>6. items'[i].payload = items[i].payload  BY <2>5 DEF SameItems
      <4>7. book'[t].bound = BindingOf(i) /\ book'[t].result = result
        BY <2>4, <3>1, <4>3 DEF Tells
      <4>8. BindingOf(i).payload = items'[i].payload  BY <4>6 DEF BindingOf
      <4>9. result # None /\ result # "unknown"  BY <2>3, MarksApart
      <4> QED  BY <4>3, <4>4, <4>5, <4>7, <4>8, <4>9 DEF Slot
    <3>2. CASE items[i].token # t
      <4>1. \A k \in Of(t) : k # i  BY <3>2 DEF Of
      <4>2. book'[t].bound = book[t].bound /\ book'[t].result = book[t].result
        BY <2>4, <3>2 DEF Tells
      <4> QED  BY <2>5, <4>1, <4>2, SlotStays
    <3> QED  BY <3>1, <3>2
  <2>7. Targets'  BY <2>6 DEF Targets
  <2>8. Shutdown'  BY <1>1, <2>5 DEF IInv, Shutdown, Called
  <2> QED  BY <2>5, <2>7, <2>8 DEF IInv
<1> QED  BY <1>1, <1>3, <1>4

-----------------------------------------------------------------------------
(* Shutdown.                                                               *)

\* A write that was given up on is of a remote terminal, whose items carry no target.
LEMMA PerformDetachKeeps == ASSUME IInv, PerformDetach PROVE IInv'
<1>1. /\ detach = "pending" /\ own.closing /\ detach' \in {"no", "done"} /\ flight' = None
      /\ UNCHANGED <<proc, screen, incoming, pending, reserved, own, stop, book>>
      /\ IF flight \in Item THEN Answer({flight}, "unknown") ELSE UNCHANGED <<items, used>>
  BY DEF PerformDetach, IsItem
<1>2. book' \in [Token -> SlotT] /\ ~proc.local /\ "unknown" \in Settled
  BY <1>1, TypesAre DEF IInv, Shutdown, Settled
<1>3. CASE flight \in Item
  <2>0. PICK i : i = flight  OBVIOUS
  <2>1. /\ i \in Accepted /\ Shape(i)
        /\ SameItems /\ SameWriting /\ Queued' = Queued /\ InFlight = {i} /\ InFlight' = {}
        /\ Unread' /\ Standing' /\ Slots' /\ Replies' /\ Shapes' /\ Fence' /\ TypeOK'
    BY <1>1, <1>2, <1>3, <2>0, FlightLeaves
  <2>2. ~Tokened(i)  BY <1>2, <2>1 DEF Shape
  <2>3. Targets'  BY <1>1, <2>1, <2>2, TargetsStay
  <2>4. Shutdown'  BY <1>1, <1>2, <2>1 DEF IInv, Shutdown, Called
  <2> QED  BY <2>1, <2>3, <2>4 DEF IInv
<1>4. CASE flight \notin Item
  <2>1. /\ Queued' = Queued /\ Unread' /\ Standing' /\ Slots' /\ Shapes' /\ Fence' /\ Targets'
        /\ TypeOK'
    <3>1. reserved' \in 0..ReplyReserve  BY <1>1, TypesAre DEF IInv
    <3> QED  BY <1>1, <1>4, <3>1, HandEmptied
  <2>2. Replies'
    <3>1. pending \in Seq(Entry) /\ reserved \in Nat  BY TypesAre DEF IInv
    <3>2. Cardinality(Marks(pending)) \in Nat  BY <3>1, MarksAreFinite
    <3>3. Cardinality(Marks(pending)) <= reserved  BY <3>1, <3>2 DEF IInv, Replies, Pledged
    <3>4. flight' # Reply /\ Marks(pending)' = Marks(pending)  BY <1>1, MarksApart DEF Marks
    <3> QED  BY <1>1, <3>2, <3>3, <3>4 DEF Replies, Pledged
  <2>3. Shutdown'  BY <1>1, <1>2, <2>1 DEF IInv, Shutdown, Called
  <2> QED  BY <2>1, <2>2, <2>3 DEF IInv
<1> QED  BY <1>3, <1>4

\* The fence after all the bumps that were still to be seen: no bump can have been accepted
\* for an epoch that is still to come, so it rises by one at the most.
LEMMA FenceAfterBumps ==
  ASSUME IInv, NEW e, e = Max({own.epoch} \cup BumpsIn(incoming))
  PROVE  /\ e \in Nat /\ e >= own.epoch
         /\ \A i \in Called : items[i].kind = "bump" => items[i].epoch < e
<1> DEFINE E == {own.epoch} \cup BumpsIn(incoming)
<1>1. own.epoch \in Nat  BY TypesAre DEF IInv, OwnT
<1>2. \A i \in Called : items[i] \in ItemT /\ items[i].epoch \in Nat /\ items[i].epoch <= own.epoch
  <2> TAKE i \in Called
  <2>1. i \in Accepted  BY DEF IInv, Standing, Waiting
  <2> QED  BY <2>1, ItemsAre DEF IInv, Shapes, Shape, ItemT
<1>3. \A x \in E : x \in Nat /\ x <= own.epoch + 1  BY <1>1, <1>2 DEF BumpsIn, Called
<1>4. \E x \in E : \A y \in E : x >= y
  <2> HIDE DEF E
  <2>1. CASE own.epoch + 1 \in E  BY <1>1, <1>3, <2>1
  <2>2. CASE own.epoch + 1 \notin E
    <3>1. own.epoch \in E  BY DEF E
    <3>2. \A x \in E : x <= own.epoch  BY <1>1, <1>3, <2>2
    <3> QED  BY <1>1, <1>3, <3>1, <3>2
  <2> QED  BY <2>1, <2>2
<1>5. e \in E /\ \A y \in E : e >= y
  <2>1. e = CHOOSE x \in E : \A y \in E : x >= y  BY DEF Max
  <2> HIDE DEF E
  <2> QED  BY <1>4, <2>1
<1>6. \A i \in Called : items[i].kind = "bump" => items[i].epoch + 1 \in E  BY DEF BumpsIn, Called
<1>7. own.epoch \in E  OBVIOUS
<1> HIDE DEF E
<1>8. e \in Nat /\ e >= own.epoch  BY <1>3, <1>5, <1>7
<1>9. ASSUME NEW i \in Called, items[i].kind = "bump" PROVE items[i].epoch < e
  <2>1. e >= items[i].epoch + 1  BY <1>5, <1>6, <1>9
  <2>2. items[i].epoch \in Nat  BY <1>2
  <2> QED  BY <1>8, <2>1, <2>2
<1> QED  BY <1>8, <1>9

\* Everything that waits is answered at once, behind a fence (beginClosing).
LEMMA BeginClosingKeeps == ASSUME IInv, BeginClosing PROVE IInv'
<1> DEFINE bumps == {i \in Called : items[i].kind = "bump"}
           S == Called \cup Queued
<1>1. /\ stop # "no" /\ UNCHANGED <<proc, screen, flight, reserved, stop, detach>>
      /\ own' = [own EXCEPT !.closing = TRUE, !.epoch = Max({own.epoch} \cup BumpsIn(incoming))]
      /\ pending' = <<>> /\ incoming' = <<>> /\ Record(Queued, "cancelled")
      /\ used' = used - Freed(Queued \cup (Called \ bumps))
      /\ items' = [i \in Accepted |->
                     IF i \in bumps THEN [items[i] EXCEPT !.answer = "executed"]
                     ELSE IF i \in Queued \cup (Called \ bumps) THEN [items[i] EXCEPT !.answer = "cancelled"]
                     ELSE items[i]]
      /\ ~own.closing
  BY DEF BeginClosing, Queued, Called, Accepted
<1>2. /\ Called \cup Queued \cup InFlight = Waiting /\ InFlight \cap (Called \cup Queued) = {}
      /\ S \in SUBSET Waiting /\ Waiting \subseteq Accepted
  BY DEF IInv, Standing, Waiting
<1>3. \A i \in Queued : items[i].kind # "bump"  BY <1>2 DEF IInv, Shapes, Shape
<1>4. items' \in Seq(ItemT) /\ SameItems /\ SameWriting /\ Settles(S)
  <2>1. /\ Accepted = 1..Len(items) /\ Len(items) \in Nat
        /\ \A i \in Accepted : items[i] \in ItemT
    BY ItemsAre DEF IInv
  <2>2. "executed" \in Settled /\ "cancelled" \in Settled  BY DEF Settled
  <2>3. \A i \in Accepted, a \in Settled : [items[i] EXCEPT !.answer = a] \in ItemT  BY <2>1 DEF ItemT
  <2>4. /\ DOMAIN items' = Accepted
        /\ \A i \in Accepted :
             items'[i] = IF i \in bumps THEN [items[i] EXCEPT !.answer = "executed"]
                         ELSE IF i \in S THEN [items[i] EXCEPT !.answer = "cancelled"]
                         ELSE items[i]
    BY <1>1
  <2> HIDE DEF bumps
  <2>5. \A i \in Accepted : items'[i] \in ItemT  BY <2>1, <2>2, <2>3, <2>4
  <2>6. items' \in Seq(ItemT)
    <3>1. items' \in [Accepted -> ItemT]  BY <1>1, <2>4, <2>5
    <3> QED  BY <2>1, <3>1, SeqDef
  <2>7. bumps \subseteq S  BY DEF bumps
  <2>8. \A i \in Accepted :
          /\ items'[i].kind = items[i].kind /\ items'[i].token = items[i].token
          /\ items'[i].payload = items[i].payload /\ items'[i].epoch = items[i].epoch
          /\ items'[i].handed = items[i].handed
          /\ IF i \in S THEN items'[i].answer \in {"executed", "cancelled"}
             ELSE items'[i].answer = items[i].answer
    BY <2>1, <2>4, <2>7 DEF ItemT
  <2>9. None \notin {"executed", "cancelled"}  BY MarksApart DEF Settled
  <2>10. Freed(S) = Freed(Queued \cup (Called \ bumps))
    <3>1. {i \in S : items[i].kind # "bump"} = {i \in Queued \cup (Called \ bumps) : items[i].kind # "bump"}
      BY DEF bumps
    <3> QED  BY <3>1 DEF Freed
  <2> QED  BY <1>1, <2>4, <2>6, <2>8, <2>9, <2>10 DEF SameItems, SameWriting, Settles
<1>5. own \in OwnT  BY TypesAre DEF IInv
<1>6. /\ own' \in OwnT /\ own'.closing /\ own'.stopped = own.stopped
      /\ own'.epoch \in Nat /\ own'.epoch >= own.epoch
      /\ \A i \in Called : items[i].kind = "bump" => items[i].epoch < own'.epoch
  <2>1. own'.epoch = Max({own.epoch} \cup BumpsIn(incoming))  BY <1>1, <1>5 DEF OwnT
  <2>2. /\ own'.epoch \in Nat /\ own'.epoch >= own.epoch
        /\ \A i \in Called : items[i].kind = "bump" => items[i].epoch < own'.epoch
    BY <2>1, FenceAfterBumps
  <2> QED  BY <1>1, <1>5, <2>1, <2>2 DEF OwnT
<1>7. Called' = {} /\ Queued' = {} /\ InFlight' = InFlight
  BY <1>1 DEF Called, Queued, InFlight, Range
<1>8. Numbered(incoming') /\ Numbered(pending')  BY <1>1 DEF Numbered
<1>9. Standing' /\ Slots' /\ Shapes' /\ Fence' /\ used' \in 0..MaxQueue
  <2>1. Called' \cup Queued' \cup InFlight' = Waiting \ S  BY <1>2, <1>7
  <2>2. \A i \in S : items[i].kind = "bump" => items[i].epoch < own'.epoch  BY <1>3, <1>6
  <2>3. proc'.local = proc.local  BY <1>1
  <2> HIDE DEF S
  <2> QED  BY <1>2, <1>4, <1>6, <1>7, <1>8, <2>1, <2>2, <2>3, LeavesKeep
<1>10. book' \in [Token -> SlotT] /\ Tells(Queued, "cancelled")
  <2>1. "cancelled" \in Settled  BY DEF Settled
  <2> QED  BY <1>1, <2>1, RecordedAre DEF IInv
<1>11. Targets'
  <2>1. Queued \in SUBSET Queued /\ Queued \ Queued = {}  OBVIOUS
  <2> QED  BY <1>4, <1>7, <1>10, <2>1, TargetsKept
<1>12. TypeOK'  BY <1>1, <1>4, <1>6, <1>9, <1>10, TypesAre, TypesAreNext DEF IInv
<1>13. Replies'
  <2>1. pending \in Seq(Entry) /\ reserved \in Nat  BY TypesAre DEF IInv
  <2>2. Cardinality(Marks(pending)) \in Nat  BY <2>1, MarksAreFinite
  <2>3. Marks(pending)' = {}  BY <1>1 DEF Marks
  <2>4. Cardinality(Marks(pending)') = 0  BY <2>3, FS_EmptySet
  <2>5. flight' = Reply => 1 <= reserved  BY <1>1, <2>1, <2>2 DEF IInv, Replies, Pledged
  <2> QED  BY <1>1, <2>1, <2>4, <2>5 DEF Replies, Pledged
<1>14. Unread' /\ Shutdown'
  BY <1>1, <1>6, <1>7 DEF IInv, Unread, Shutdown
<1> QED  BY <1>9, <1>11, <1>12, <1>13, <1>14 DEF IInv

-----------------------------------------------------------------------------
(* The invariant holds.                                                    *)

\* A session starts with nothing accepted and nothing bound.
LEMMA InitIInv == ASSUME Init PROVE IInv
<1>1. /\ items = <<>> /\ incoming = <<>> /\ pending = <<>> /\ flight = None /\ used = 0 /\ reserved = 0
      /\ own = [epoch |-> 1, closing |-> FALSE, eof |-> FALSE, stopped |-> FALSE]
      /\ stop = "no" /\ detach = "no"
  BY DEF Init
<1>2. PICK local \in BOOLEAN : LET look == CHOOSE look \in Look : TRUE IN
        /\ proc = [local |-> local, left |-> MaxOutput, unread |-> 0, ended |-> FALSE, closed |-> FALSE]
        /\ screen = [size |-> 0, look |-> look, complete |-> TRUE]
        /\ book = [t \in Token |-> [minted |-> FALSE, size |-> 0, look |-> look,
                                    expired |-> FALSE, bound |-> None, result |-> None]]
  BY DEF Init
<1>3. PICK look \in Look :
        /\ proc = [local |-> local, left |-> MaxOutput, unread |-> 0, ended |-> FALSE, closed |-> FALSE]
        /\ screen = [size |-> 0, look |-> look, complete |-> TRUE]
        /\ book = [t \in Token |-> [minted |-> FALSE, size |-> 0, look |-> look,
                                    expired |-> FALSE, bound |-> None, result |-> None]]
  <2>1. Look # {}  BY BoundsAssumption
  <2>2. (CHOOSE look \in Look : TRUE) \in Look  BY <2>1
  <2> QED  BY <1>2, <2>2
<1>4. MaxOutput \in Nat /\ MaxQueue \in Nat /\ ReplyReserve \in Nat  BY BoundsAssumption
<1>5. TypeOK
  <2>1. proc \in ProcT /\ screen \in ScreenT /\ own \in OwnT
    BY <1>1, <1>3, <1>4 DEF ProcT, ScreenT, OwnT, Size
  <2>2. book \in [Token -> SlotT]  BY <1>3 DEF SlotT, Size
  <2>3. used \in 0..MaxQueue /\ reserved \in 0..ReplyReserve  BY <1>1, <1>4
  <2> QED  BY <1>1, <2>1, <2>2, <2>3, TypesAre
<1>6. Accepted = {} /\ Waiting = {} /\ Called = {} /\ Queued = {} /\ InFlight = {}
  BY <1>1, MarksApart DEF Accepted, Waiting, Called, Queued, InFlight, Range
<1>7. Unread  BY <1>3, <1>4 DEF Unread
<1>8. Standing  BY <1>1, <1>6 DEF Standing, Numbered
<1>9. Slots  BY <1>1, <1>6, FS_EmptySet DEF Slots, Freed
<1>10. Replies
  <2>1. Marks(pending) = {} /\ flight # Reply  BY <1>1, MarksApart DEF Marks
  <2> QED  BY <1>1, <2>1, FS_EmptySet DEF Replies, Pledged
<1>11. Shutdown  BY <1>1 DEF Shutdown
<1>12. Shapes /\ Fence  BY <1>6 DEF Shapes, Fence
<1>13. Targets
  <2> SUFFICES ASSUME NEW t \in Token PROVE Slot(t)  BY DEF Targets
  <2>1. book[t].bound = None /\ book[t].result = None  BY <1>3
  <2>2. Live(t) = {} /\ Written(t) = {}  BY <1>6 DEF Live, Written, Of
  <2> QED  BY <2>1, <2>2, MarksApart DEF Slot, Settled
<1> QED  BY <1>5, <1>7, <1>8, <1>9, <1>10, <1>11, <1>12, <1>13 DEF IInv

\* Every step keeps the invariant.
LEMMA NextIInv == ASSUME IInv, [Next]_vars PROVE IInv'
<1>1. CASE Next
  <2>1. CASE World
    <3>1. ASSUME NEW t \in Token, Mint(t) \/ TokenExpires(t) PROVE IInv'  BY <3>1, MintKeeps
    <3>2. ASSUME NEW item \in Presented, Submit(item) PROVE IInv'  BY <3>2, SubmitKeeps
    <3>3. ASSUME NEW i \in DOMAIN items, DeadlinePasses(i) PROVE IInv'
      BY <3>3, DeadlineKeeps DEF Accepted
    <3> QED  BY <2>1, <3>1, <3>2, <3>3, ProduceKeeps, StopKeeps DEF World
  <2>2. CASE Owner
    BY <2>2, DispatchKeeps, IngestKeeps, EndsKeep, ExpireKeeps, AdvanceReplyKeeps, AdvanceItemKeeps,
       AdvanceResizeKeeps, BeginClosingKeeps, PerformDetachKeeps DEF Owner
  <2>3. CASE CompleteWrite  BY <2>3, CompleteWriteKeeps
  <2> QED  BY <1>1, <2>1, <2>2, <2>3 DEF Next
<1>2. CASE UNCHANGED vars
  <2>1. /\ UNCHANGED <<proc, screen, items, incoming, pending, flight, used, reserved>>
        /\ UNCHANGED <<own, stop, detach, book>>
    BY <1>2 DEF vars
  <2>2. Queued' = Queued /\ InFlight' = InFlight /\ Numbered(pending') /\ Replies'  BY <2>1, QueueStays
  <2>3. Idle  BY <2>1, <2>2, StillIsIdle DEF SameSlots
  <2>4. TypeOK'  BY <2>1, TypesAre, TypesAreNext DEF IInv
  <2>5. Unread' /\ Shutdown'  BY <2>1, <2>2 DEF IInv, Unread, Shutdown, Called
  <2> QED  BY <2>2, <2>3, <2>4, <2>5, IdleKeeps DEF IInv
<1> QED  BY <1>1, <1>2

\* Every reachable state: the three places of what waits, its slots, its targets, the fence.
THEOREM OwnerInvariant == Spec => []IInv
<1>1. Init => IInv  BY InitIInv
<1>2. IInv /\ [Next]_vars => IInv'  BY NextIInv
<1> QED  BY <1>1, <1>2, PTL DEF Spec

-----------------------------------------------------------------------------
(* Whoever is accepted is answered, and a target is spent once.            *)

\* Two sequences without repetition that share no member, one after the other.
LEMMA OneAfterTheOther ==
  ASSUME NEW a \in Seq(Item), NEW b \in Seq(Item), IsInjective(a), IsInjective(b),
         Range(a) \cap Range(b) = {}
  PROVE  a \o b \in Seq(Item) /\ IsInjective(a \o b) /\ Range(a \o b) = Range(a) \cup Range(b)
<1> DEFINE w == a \o b
           m == Len(a)
           n == Len(a) + Len(b)
<1>1. /\ w \in Seq(Item) /\ m \in Nat /\ Len(b) \in Nat /\ DOMAIN a = 1..m /\ DOMAIN b = 1..Len(b)
      /\ DOMAIN w = 1..n /\ \A k \in 1..n : w[k] = IF k <= m THEN a[k] ELSE b[k - m]
  OBVIOUS
<1>2. \A k \in 1..n : IF k <= m THEN k \in DOMAIN a ELSE k - m \in DOMAIN b  BY <1>1
<1>3. \A k \in DOMAIN a : k \in 1..n /\ w[k] = a[k]  BY <1>1
<1>4. \A k \in DOMAIN b : k + m \in 1..n /\ w[k + m] = b[k]
  <2> TAKE k \in DOMAIN b
  <2>1. k + m \in 1..n /\ ~(k + m <= m) /\ (k + m) - m = k  BY <1>1
  <2> QED  BY <1>1, <2>1
<1>5. Range(w) = Range(a) \cup Range(b)
  <2>1. Range(w) \subseteq Range(a) \cup Range(b)  BY <1>1, <1>2 DEF Range
  <2>2. Range(a) \subseteq Range(w)  BY <1>1, <1>3 DEF Range
  <2>3. Range(b) \subseteq Range(w)  BY <1>1, <1>4 DEF Range
  <2> QED  BY <2>1, <2>2, <2>3
<1>6. IsInjective(w)
  <2> SUFFICES ASSUME NEW j \in 1..n, NEW k \in 1..n, w[j] = w[k] PROVE j = k
    BY <1>1 DEF IsInjective
  <2>1. CASE j <= m /\ k <= m  BY <1>1, <1>2, <2>1 DEF IsInjective
  <2>2. CASE ~(j <= m) /\ ~(k <= m)
    <3>1. j - m \in DOMAIN b /\ k - m \in DOMAIN b /\ b[j - m] = b[k - m]  BY <1>1, <1>2, <2>2
    <3>2. j - m = k - m  BY <3>1 DEF IsInjective
    <3> QED  BY <1>1, <3>2
  <2>3. CASE j <= m /\ ~(k <= m)
    <3>1. w[j] \in Range(a) /\ w[k] \in Range(b)  BY <1>1, <1>2, <2>3 DEF Range
    <3> QED  BY <3>1
  <2>4. CASE ~(j <= m) /\ k <= m
    <3>1. w[k] \in Range(a) /\ w[j] \in Range(b)  BY <1>1, <1>2, <2>4 DEF Range
    <3> QED  BY <3>1
  <2> QED  BY <2>1, <2>2, <2>3, <2>4
<1> QED  BY <1>1, <1>5, <1>6

\* Numbers that rise do not repeat.
LEMMA RisingAreApart == ASSUME NEW q \in Seq(Item), Numbered(q) PROVE IsInjective(q)
<1> SUFFICES ASSUME NEW j \in DOMAIN q, NEW k \in DOMAIN q, q[j] = q[k] PROVE j = k
  BY DEF IsInjective
<1>1. j \in Nat /\ k \in Nat /\ q[j] \in Item /\ q[k] \in Item  BY ElementOfSeq
<1>2. q[j] \in Int  BY <1>1 DEF Item
<1>3. ~(j < k) /\ ~(k < j)  BY <1>1, <1>2 DEF Numbered
<1> QED  BY <1>1, <1>3

\* The queue without the emulator's answers.
LEMMA QueuedItems ==
  ASSUME NEW q \in Seq(Entry), Numbered(q), NEW D, \A x : x \in D <=> x = Reply,
         NEW w, w = Without(q, D)
  PROVE  w \in Seq(Item) /\ IsInjective(w) /\ Range(w) = Range(q) \cap Item
<1>1. w \in Seq(Entry)  BY WithoutKeeps
<1>2. PICK h \in [DOMAIN w -> DOMAIN q] :
        /\ \A k \in DOMAIN w : w[k] = q[h[k]] /\ w[k] \notin D
        /\ \A k, l \in DOMAIN w : k < l => h[k] < h[l]
        /\ \A i \in DOMAIN q : q[i] \notin D => \E k \in DOMAIN w : h[k] = i
  BY WithoutKeeps
<1>3. \A k \in DOMAIN w : w[k] \in Item
  <2>1. \A k \in DOMAIN w : w[k] \in Entry  BY <1>1, ElementOfSeq
  <2> QED  BY <1>2, <2>1 DEF Entry
<1>4. w \in Seq(Item)
  <2>1. Len(w) \in Nat /\ DOMAIN w = 1..Len(w) /\ w \in [1..Len(w) -> Entry]
    BY <1>1, LenProperties
  <2>2. w \in [1..Len(w) -> Item]  BY <1>3, <2>1
  <2> QED  BY <2>1, <2>2, SeqDef
<1>5. \A k \in DOMAIN w : h[k] \in DOMAIN q  OBVIOUS
<1>6. Numbered(w)  BY <1>2, <1>5 DEF Numbered
<1>7. Range(w) = Range(q) \cap Item
  <2>1. Range(w) \subseteq Range(q) \cap Item  BY <1>2, <1>3, <1>5 DEF Range
  <2>2. \A i \in DOMAIN q : q[i] \in Item => \E k \in DOMAIN w : w[k] = q[i]
    BY <1>2, MarksApart
  <2> QED  BY <2>1, <2>2 DEF Range
<1> QED  BY <1>4, <1>6, <1>7, RisingAreApart

\* The three places hold everybody who waits, and nobody twice.
LEMMA AnsweredOnce == ASSUME IInv PROVE EachAnsweredOnce
<1>1. PICK w : w = Without(pending, {Reply})  OBVIOUS
<1>2. PICK f : f = IF IsItem(flight) THEN <<flight>> ELSE <<>>  OBVIOUS
<1>3. w \in Seq(Item) /\ IsInjective(w) /\ Range(w) = Queued
  <2>1. pending \in Seq(Entry) /\ Numbered(pending)  BY TypesAre DEF IInv, Standing
  <2>2. \A x : x \in {Reply} <=> x = Reply  OBVIOUS
  <2> QED  BY <1>1, <2>1, <2>2, QueuedItems DEF Queued
<1>4. incoming \in Seq(Item) /\ IsInjective(incoming) /\ Range(incoming) = Called
  <2>1. incoming \in Seq(Item) /\ Numbered(incoming)  BY TypesAre DEF IInv, Standing
  <2> QED  BY <2>1, RisingAreApart DEF Called
<1>5. f \in Seq(Item) /\ IsInjective(f) /\ Range(f) = InFlight
  <2>1. CASE flight \in Item
    <3>1. f = <<flight>>  BY <1>2, <2>1 DEF IsItem
    <3>2. f \in Seq(Item) /\ DOMAIN f = {1} /\ f[1] = flight  BY <2>1, <3>1
    <3> QED  BY <2>1, <3>2 DEF IsInjective, Range, InFlight
  <2>2. CASE flight \notin Item
    <3>1. f = <<>>  BY <1>2, <2>2 DEF IsItem
    <3>2. f \in Seq(Item) /\ DOMAIN f = {}  BY <3>1
    <3> QED  BY <2>2, <3>2 DEF IsInjective, Range, InFlight
  <2> QED  BY <2>1, <2>2
<1>6. /\ Called \cup Queued \cup InFlight = Waiting /\ InFlight \cap (Called \cup Queued) = {}
      /\ \A k \in Queued, l \in Called : k < l
  BY DEF IInv, Standing
<1>7. Queued \cap Called = {}
  <2>1. \A k \in Queued : ~(k < k)  BY DEF Queued, Item
  <2> QED  BY <1>6, <2>1
<1>8. /\ incoming \o w \in Seq(Item) /\ IsInjective(incoming \o w)
      /\ Range(incoming \o w) = Called \cup Queued
  BY <1>3, <1>4, <1>7, OneAfterTheOther
<1>9. /\ IsInjective((incoming \o w) \o f)
      /\ Range((incoming \o w) \o f) = (Called \cup Queued) \cup InFlight
  BY <1>5, <1>6, <1>8, OneAfterTheOther
<1>10. Places = (incoming \o w) \o f  BY <1>1, <1>2 DEF Places
<1>11. own.stopped => Waiting = {}
  BY <1>6, MarksApart DEF IInv, Shutdown, InFlight
<1> QED  BY <1>6, <1>9, <1>10, <1>11 DEF EachAnsweredOnce, IInv, Slots

\* A slot tells of its presentations what they tell of it.
LEMMA SpentOnceHolds == ASSUME IInv PROVE SpentOnce
<1> SUFFICES ASSUME NEW t \in Token
             PROVE  /\ Cardinality(Written(t)) <= 1
                    /\ \A i \in Written(t) :
                         book[t].bound # None /\ book[t].bound.payload = items[i].payload
                    /\ book[t].bound # None /\ book[t].result = None =>
                         \E i \in Of(t) : i \in Range(pending) \cup {flight}
                    /\ book[t].result \in {"executed", "failed"} => Written(t) # {}
                    /\ book[t].result \in {"refused", "cancelled", "in_progress"} => Written(t) = {}
  BY DEF SpentOnce, Of, Written
<1>1. Slot(t)  BY DEF IInv, Targets
<1>2. Cardinality(Written(t)) <= 1
  <2>1. CASE Written(t) = {}  BY <2>1, FS_EmptySet
  <2>2. CASE Written(t) # {}
    <3>1. PICK i : Written(t) = {i}  BY <1>1, <2>2 DEF Slot
    <3>2. Cardinality({i}) = 1  BY FS_Singleton
    <3> QED  BY <3>1, <3>2
  <2> QED  BY <2>1, <2>2
<1>3. book[t].bound # None /\ book[t].result = None => \E i \in Of(t) : i \in Range(pending) \cup {flight}
  BY <1>1 DEF Slot, Live, Queued, InFlight
<1>4. book[t].result \in {"refused", "cancelled", "in_progress"} => Written(t) = {}
  <2> SUFFICES ASSUME book[t].result \in {"refused", "cancelled", "in_progress"}, NEW i \in Written(t)
               PROVE  FALSE
    OBVIOUS
  <2>1. i \in InFlight  BY <1>1 DEF Slot
  <2>2. i \in Live(t)  BY <2>1 DEF Live, Written
  <2>3. book[t].result = None  BY <1>1, <2>2 DEF Slot
  <2> QED  BY <2>3, MarksApart DEF Settled
<1> QED  BY <1>1, <1>2, <1>3, <1>4 DEF Slot

\* Every caller is answered once, whatever is shut down around it, and a one-shot target is
\* written for one presentation at most and tells what became of it (owner.go's resolve,
\* tokens.go's Consume and Record).
THEOREM OwnerIsFaithful == Spec => []OwnerKeepsFaith
<1>1. IInv => OwnerKeepsFaith  BY AnsweredOnce, SpentOnceHolds DEF OwnerKeepsFaith, IInv
<1> QED  BY <1>1, OwnerInvariant, PTL

-----------------------------------------------------------------------------
(* What is handed to the writer is not stale.                              *)

\* The gate answers what it is given or leaves it unanswered.
LEMMA TokenGateAnswers ==
  ASSUME IInv, NEW i, Dispatching(i), TokenGate(i)
  PROVE  UNCHANGED items \/ \E a \in Settled : Answer({i}, a)
<1>1. items[i].kind = "intent"  BY DEF TokenGate
<1>2. items[i] \in ItemT /\ Shape(i)  BY NextCalled DEF Dispatching
<1>3. items[i].token \in Token  BY <1>1, <1>2 DEF Shape, Tokened, ItemT
<1>4. book \in [Token -> SlotT]  BY TypesAre DEF IInv
<1>5. book[items[i].token].result \in Settled \cup {None}  BY <1>3, <1>4 DEF SlotT
<1>6. "refused" \in Settled /\ "in_progress" \in Settled  BY DEF Settled
<1> QED  BY <1>5, <1>6 DEF TokenGate

\* Nothing but a write that starts hands an item over.
LEMMA OnlyAdvanceHands ==
  ASSUME IInv, Next, NEW i \in Accepted, items'[i].handed, ~items[i].handed
  PROVE  AdvanceItem /\ i = Head(pending)
<1>1. /\ \A j \in Accepted : items[j] \in ItemT
      /\ Accepted = 1..Len(items) /\ Len(items) \in Nat /\ items \in Seq(ItemT)
      /\ items \in [Accepted -> ItemT]
  BY ItemsAre, TypesAre DEF IInv, Accepted
<1>2. \A a \in Settled : /\ [items[i] EXCEPT !.answer = a].handed = items[i].handed
                         /\ [items[i] EXCEPT !.late = TRUE].handed = items[i].handed
  BY <1>1 DEF ItemT
<1>3. "executed" \in Settled /\ "failed" \in Settled /\ "refused" \in Settled
      /\ "cancelled" \in Settled /\ "in_progress" \in Settled /\ "unknown" \in Settled
  BY DEF Settled
<1>4. ASSUME NEW S, NEW a \in Settled, Answer(S, a) PROVE FALSE
  <2>1. SameWriting  BY <1>4, AnswerSettles DEF IInv
  <2> QED  BY <2>1 DEF SameWriting
<1>5. items' # items  OBVIOUS
<1>6. CASE World
  <2>1. ASSUME NEW item \in Presented, Submit(item) PROVE FALSE
    <3>1. items' = Append(items, item) /\ i \in 1..Len(items)  BY <1>1, <2>1 DEF Submit
    <3>2. items'[i] = items[i]  BY <1>1, <3>1
    <3> QED  BY <3>2
  <2>2. ASSUME NEW j \in Accepted, DeadlinePasses(j) PROVE FALSE
    <3>1. items' = [items EXCEPT ![j] = [items[j] EXCEPT !.late = TRUE]]
      BY <2>2 DEF DeadlinePasses
    <3>2. items'[i] = items[i] \/ items'[i] = [items[i] EXCEPT !.late = TRUE]  BY <1>1, <3>1
    <3> QED  BY <1>2, <1>3, <3>2
  <2>3. ASSUME NEW t \in Token, Mint(t) \/ TokenExpires(t) PROVE FALSE
    BY <1>5, <2>3 DEF Mint, TokenExpires
  <2>4. Produce \/ ProgramEnds \/ Stop \/ StopGivesUp \/ StopCloses => FALSE
    BY <1>5 DEF Produce, ProgramEnds, Stop, StopGivesUp, StopCloses
  <2> QED  BY <1>6, <2>1, <2>2, <2>3, <2>4 DEF World, Accepted
<1>7. CASE Dispatch
  <2>1. PICK j : j = Head(incoming)  OBVIOUS
  <2>2. Dispatching(j) /\ (ApplyBump(j) \/ InteractiveGate(j) \/ TokenGate(j) \/ Queue(j))
    BY <1>7, <2>1 DEF Dispatch, Dispatching
  <2>3. CASE ApplyBump(j)
    <3>1. items' = [Answered(Swept, "refused") EXCEPT ![j].answer = "executed"]
      BY <1>3, <1>4, <2>3 DEF ApplyBump
    <3>2. /\ Answered(Swept, "refused") \in Seq(ItemT) /\ DOMAIN Answered(Swept, "refused") = Accepted
          /\ Answered(Swept, "refused")[i] = IF i \in Swept THEN [items[i] EXCEPT !.answer = "refused"]
                                             ELSE items[i]
      BY <1>3, AnsweredAre DEF IInv
    <3>3. Answered(Swept, "refused")[i] \in ItemT  BY <1>1, <3>2 DEF ItemT, Settled
    <3>4. items'[i] = Answered(Swept, "refused")[i]
          \/ items'[i] = [Answered(Swept, "refused")[i] EXCEPT !.answer = "executed"]
      BY <3>1, <3>2
    <3>5. \A r \in ItemT : [r EXCEPT !.answer = "executed"].handed = r.handed  BY DEF ItemT
    <3>6. items'[i].handed = Answered(Swept, "refused")[i].handed  BY <3>3, <3>4, <3>5
    <3> QED  BY <1>2, <1>3, <3>2, <3>6
  <2>4. CASE InteractiveGate(j) \/ Queue(j)
    BY <1>3, <1>4, <1>5, <2>4 DEF InteractiveGate, Queue
  <2>5. CASE TokenGate(j)
    <3>1. UNCHANGED items \/ \E a \in Settled : Answer({j}, a)  BY <2>2, <2>5, TokenGateAnswers
    <3> QED  BY <1>4, <1>5, <3>1
  <2> QED  BY <2>2, <2>3, <2>4, <2>5
<1>8. CASE Owner /\ ~Dispatch
  <2>1. Ingest \/ ReadEnds \/ AdvanceReply \/ Exit => FALSE
    BY <1>5 DEF Ingest, ReadEnds, AdvanceReply, Exit
  <2>2. ExpirePending => FALSE  BY <1>3, <1>4 DEF ExpirePending
  <2>3. AdvanceResize => FALSE  BY <1>3, <1>4 DEF AdvanceResize
  <2>4. PerformDetach => FALSE  BY <1>3, <1>4, <1>5 DEF PerformDetach
  <2>5. ASSUME BeginClosing PROVE FALSE
    <3>1. \/ items'[i] = items[i]
          \/ items'[i] = [items[i] EXCEPT !.answer = "executed"]
          \/ items'[i] = [items[i] EXCEPT !.answer = "cancelled"]
      BY <2>5 DEF BeginClosing, Accepted
    <3> QED  BY <1>2, <1>3, <3>1
  <2>6. AdvanceItem  BY <1>8, <2>1, <2>2, <2>3, <2>4, <2>5 DEF Owner
  <2>7. PICK j : j = Head(pending)  OBVIOUS
  <2>8. WriteStart(j) \/ Refuse(j, "refused") \/ Refuse(j, "in_progress")
    BY <2>6, <2>7 DEF AdvanceItem, CommitIntent
  <2>9. items' = [items EXCEPT ![j].handed = TRUE]
    BY <1>3, <1>4, <2>8 DEF WriteStart, Refuse
  <2>10. i = j  BY <1>1, <2>9
  <2> QED  BY <2>6, <2>7, <2>10
<1>9. CASE CompleteWrite  BY <1>3, <1>4, <1>5, <1>9 DEF CompleteWrite
<1> QED  BY <1>6, <1>7, <1>8, <1>9 DEF Next

\* What goes to the writer goes in the order of acceptance, under the epoch that holds, and an
\* intent onto the screen it was minted on, read to its end (owner.go's advance and
\* commitIntent, access.go's applyAccessBump, the check of tokens.go).
THEOREM OwnerWritesNothingStale == Spec => NothingStaleIsWritten
<1> DEFINE Current ==
      \A i \in Accepted :
        LET item == items[i] IN
        items'[i].handed /\ ~item.handed =>
          /\ \A k \in Accepted : k < i => items'[k].handed \/ items'[k].answer # None
          /\ item.kind \in {"intent", "key"} =>
               /\ ~Expired(i)
               /\ \A k \in Accepted : items[k].kind = "bump" => items[k].epoch < item.epoch
          /\ item.kind = "intent" =>
               /\ proc.local /\ (proc.unread = 0 \/ own.eof) /\ screen.complete
               /\ screen.size = book[item.token].size /\ screen.look = book[item.token].look
<1>1. ASSUME IInv, Next, NEW i \in Accepted, items'[i].handed, ~items[i].handed
      PROVE  /\ \A k \in Accepted : k < i => items'[k].handed \/ items'[k].answer # None
             /\ items[i].kind \in {"intent", "key"} =>
                  /\ ~Expired(i)
                  /\ \A k \in Accepted : items[k].kind = "bump" => items[k].epoch < items[i].epoch
             /\ items[i].kind = "intent" =>
                  /\ proc.local /\ (proc.unread = 0 \/ own.eof) /\ screen.complete
                  /\ screen.size = book[items[i].token].size /\ screen.look = book[items[i].token].look
  <2>1. AdvanceItem /\ i = Head(pending)  BY <1>1, OnlyAdvanceHands
  <2>2. WriterFree /\ i \in Item
        /\ \/ items[i].kind = "frame" /\ WriteStart(i)
           \/ items[i].kind \in {"intent", "key"} /\ (Expired(i) \/ MayBeJudged(i)) /\ CommitIntent(i)
    BY <2>1 DEF AdvanceItem, IsItem
  <2>3. ASSUME NEW a \in Settled, Answer({i}, a) PROVE FALSE
    <3>1. SameWriting  BY <1>1, <2>3, AnswerSettles DEF IInv
    <3> QED  BY <1>1, <3>1 DEF SameWriting
  <2>4. "refused" \in Settled /\ "cancelled" \in Settled /\ "in_progress" \in Settled  BY DEF Settled
  <2>5. items' = [items EXCEPT ![i].handed = TRUE]
    <3>1. WriteStart(i) \/ Refuse(i, "refused") \/ Refuse(i, "in_progress")
      BY <2>2 DEF CommitIntent
    <3> QED  BY <2>3, <2>4, <3>1 DEF WriteStart, Refuse
  <2>6. /\ i \in Queued /\ InFlight = {} /\ Called = {} /\ Shape(i) /\ items[i] \in ItemT
        /\ \A k \in Queued \ {i} : i < k
    BY <1>1, <2>1, <2>2, HeadIs
  <2>7. Waiting = Queued  BY <1>1, <2>6 DEF IInv, Standing
  <2>8. /\ \A k \in Accepted : items[k] \in ItemT
        /\ Accepted = 1..Len(items) /\ Len(items) \in Nat /\ items \in [Accepted -> ItemT]
    BY <1>1, ItemsAre, TypesAre DEF IInv, Accepted
  <2>9. ASSUME NEW k \in Accepted, k < i PROVE items'[k].answer # None
    <3>1. k \in Int /\ i \in Int /\ ~(i < k) /\ k # i  BY <2>2, <2>8, <2>9 DEF Item
    <3>2. k \notin Waiting  BY <2>6, <2>7, <3>1
    <3>3. items'[k] = items[k]  BY <2>5, <2>8, <3>1
    <3> QED  BY <3>2, <3>3 DEF Waiting
  <2>10. items[i].kind \in {"intent", "key"} =>
           ~Expired(i) /\ (items[i].kind = "key" => items[i].epoch = own.epoch)
           /\ screen.complete /\ OnTarget(i)
    <3> SUFFICES ASSUME items[i].kind \in {"intent", "key"}
                 PROVE  ~Expired(i) /\ (items[i].kind = "key" => items[i].epoch = own.epoch)
                        /\ screen.complete /\ OnTarget(i)
      OBVIOUS
    <3>1. CommitIntent(i)  BY <2>2
    <3>2. ~Refuse(i, "refused") /\ ~Refuse(i, "in_progress")  BY <2>3, <2>4 DEF Refuse
    <3> QED  BY <3>1, <3>2 DEF CommitIntent
  <2>11. items[i].kind \in {"intent", "key"} => items[i].epoch = own.epoch
    <3>1. items[i].kind = "intent" => Tokened(i)  BY <2>6 DEF Shape
    <3>2. Tokened(i) => items[i].epoch = own.epoch  BY <1>1, <2>6 DEF IInv, Fence
    <3> QED  BY <2>10, <3>1, <3>2
  <2>12. ASSUME NEW k \in Accepted, items[k].kind = "bump" PROVE items[k].epoch < own.epoch
    <3>1. k \notin Queued  BY <1>1, <2>12 DEF IInv, Shapes, Shape
    <3>2. items[k].answer # None  BY <2>7, <3>1 DEF Waiting
    <3> QED  BY <1>1, <2>12, <3>2 DEF IInv, Fence
  <2>13. ASSUME items[i].kind = "intent"
         PROVE  /\ proc.local /\ (proc.unread = 0 \/ own.eof) /\ screen.complete
                /\ screen.size = book[items[i].token].size /\ screen.look = book[items[i].token].look
    <3>1. proc.local  BY <2>6, <2>13 DEF Shape
    <3>2. proc.unread = 0 \/ own.eof  BY <2>2, <2>10, <2>13 DEF MayBeJudged, Conditional
    <3>3. screen.complete /\ OnTarget(i)  BY <2>10, <2>13
    <3> QED  BY <2>13, <3>1, <3>2, <3>3 DEF OnTarget
  <2> QED  BY <2>9, <2>10, <2>11, <2>12, <2>13
<1>2. IInv /\ [Next]_vars => [Current]_vars
  <2> SUFFICES ASSUME IInv, Next PROVE Current  OBVIOUS
  <2> QED  BY <1>1, Zenon
<1> QED  BY <1>2, OwnerInvariant, PTL DEF Spec, NothingStaleIsWritten
=============================================================================
