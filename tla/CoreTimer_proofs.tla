-------------------------- MODULE CoreTimer_proofs --------------------------
(***************************************************************************)
(* What CoreTimer proves for every set of timers, every delay and every    *)
(* bound: its invariant (NoWakeupLost), that a stopped timer stays stopped *)
(* (StoppedStays), and that its steps are steps of TimerPromise            *)
(* (TimersAsPromised).                                                     *)
(*                                                                         *)
(* The inductive invariant adds to Inv what holds while the handler is     *)
(* under way: the hardware waits for the deadline NextTick was loaded for, *)
(* NextTick has passed once it is compared, what is linked behind the      *)
(* handler is due later, and the timer being served is not linked.         *)
(*                                                                         *)
(* It is proved where the timers a callback or a preempting interrupt      *)
(* starts are one-shots, as in the drivers (StartsOneShots); StoppedStays  *)
(* also needs the timers they stop to be (StopsOneShots), which the soft   *)
(* keyboard's timer is not.                                                *)
(***************************************************************************)
EXTENDS CoreTimer, SequenceTheorems, FiniteSetTheorems, WellFoundedInduction, TLAPS

(* Every non-empty set of natural numbers has a least element: 0..m for m  *)
(* in the set are finite sets, ordered by strict inclusion.                *)
LEMMA Least ==
  ASSUME NEW S \in SUBSET Nat, S # {}
  PROVE  \E m \in S : \A k \in S : m <= k
<1> DEFINE T == {0..m : m \in S}
           R == StrictSubsetOrdering(Nat)
           F == FiniteSubsetsOf(Nat)
<1>1. T \subseteq F
  <2> SUFFICES ASSUME NEW m \in S PROVE 0..m \in F
    OBVIOUS
  <2>1. IsFiniteSet(0..m)
    BY FS_Interval
  <2>2. 0..m \in SUBSET Nat
    OBVIOUS
  <2> QED
    BY <2>1, <2>2 DEF FiniteSubsetsOf
<1>2. T # {}
  OBVIOUS
<1>3. IsWellFoundedOn(R, F)
  BY FS_StrictSubsetOrderingWellFounded
<1>4. PICK x \in T : \A y \in T : ~(<<y, x>> \in R)
  <2> HIDE DEF T, R, F
  <2> QED
    BY <1>1, <1>2, <1>3, WFMin
<1>5. PICK m \in S : x = 0..m
  OBVIOUS
<1>6. ASSUME NEW k \in S, k < m PROVE FALSE
  <2>1. 0..k \in T
    OBVIOUS
  <2>2. 0..k \subseteq 0..m /\ m \in 0..m /\ m \notin 0..k
    BY <1>6
  <2>3. <<0..k, 0..m>> \in R
    BY <2>2 DEF StrictSubsetOrdering
  <2> QED
    BY <1>4, <1>5, <2>1, <2>3
<1>7. \A k \in S : m <= k
  BY <1>6
<1> QED
  BY <1>7

-----------------------------------------------------------------------------
(* The list.                                                               *)

Distinct(l) == \A i, j \in 1..Len(l) : i # j => l[i] # l[j]

Sorted(l, due) == \A i, j \in 1..Len(l) : i < j => due[l[i]] <= due[l[j]]

LEMMA Members ==
  ASSUME NEW l \in Seq(Timers)
  PROVE  /\ \A t : t \in ToSet(l) <=> \E i \in 1..Len(l) : l[i] = t
         /\ ToSet(l) \subseteq Timers
<1>1. DOMAIN l = 1..Len(l) /\ \A i \in 1..Len(l) : l[i] \in Timers
  BY LenProperties, ElementOfSeq
<1> QED
  BY <1>1 DEF ToSet

(* What is cut out of a sequence and put into one.                         *)
LEMMA CutOut ==
  ASSUME NEW l \in Seq(Timers), NEW k \in 1..Len(l)
  PROVE  /\ RemoveAt(l, k) \in Seq(Timers)
         /\ Len(RemoveAt(l, k)) = Len(l) - 1
         /\ \A i \in 1..Len(l) - 1 :
              RemoveAt(l, k)[i] = IF i < k THEN l[i] ELSE l[i + 1]
<1> DEFINE a == SubSeq(l, 1, k - 1)
           b == SubSeq(l, k + 1, Len(l))
<1>0. /\ Len(l) \in Nat /\ k \in Int /\ 1 \in Int /\ k - 1 \in Int /\ k + 1 \in Int
      /\ \A i \in 1..Len(l) : l[i] \in Timers
  BY LenProperties, ElementOfSeq
<1>1. /\ a \in Seq(Timers) /\ Len(a) = k - 1
      /\ \A i \in 1..k - 1 : a[i] = l[i]
  <2>1. \A i \in 1..k - 1 : l[i] \in Timers
    BY <1>0
  <2>2. /\ a \in Seq(Timers)
        /\ Len(a) = IF 1 <= k - 1 THEN k - 1 - 1 + 1 ELSE 0
        /\ \A i \in 1..k - 1 - 1 + 1 : a[i] = l[1 + i - 1]
    BY <1>0, <2>1, SubSeqProperties
  <2> QED
    BY <1>0, <2>2
<1>2. /\ b \in Seq(Timers) /\ Len(b) = Len(l) - k
      /\ \A i \in 1..Len(l) - k : b[i] = l[k + i]
  <2>1. \A i \in (k + 1)..Len(l) : l[i] \in Timers
    BY <1>0
  <2>2. /\ b \in Seq(Timers)
        /\ Len(b) = IF k + 1 <= Len(l) THEN Len(l) - (k + 1) + 1 ELSE 0
        /\ \A i \in 1..Len(l) - (k + 1) + 1 : b[i] = l[k + 1 + i - 1]
    BY <1>0, <2>1, SubSeqProperties
  <2> QED
    BY <1>0, <2>2
<1>3. RemoveAt(l, k) = a \o b
  BY DEF RemoveAt
<1> HIDE DEF a, b
<1>4. /\ a \o b \in Seq(Timers)
      /\ Len(a \o b) = Len(a) + Len(b)
      /\ \A i \in 1..Len(a) + Len(b) :
           (a \o b)[i] = IF i <= Len(a) THEN a[i] ELSE b[i - Len(a)]
  BY <1>1, <1>2, ConcatProperties
<1>5. ASSUME NEW i \in 1..Len(l) - 1
      PROVE  (a \o b)[i] = IF i < k THEN l[i] ELSE l[i + 1]
  <2>0. i \in 1..Len(a) + Len(b)
    BY <1>0, <1>1, <1>2
  <2>1. CASE i < k
    <3>1. i \in 1..k - 1 /\ i <= Len(a)
      BY <1>0, <1>1, <2>1
    <3> QED
      BY <1>1, <1>4, <2>0, <2>1, <3>1
  <2>2. CASE i >= k
    <3>1. /\ ~(i <= Len(a)) /\ ~(i < k)
          /\ i - Len(a) \in 1..Len(l) - k /\ k + (i - Len(a)) = i + 1
      BY <1>0, <1>1, <2>2
    <3> QED
      BY <1>2, <1>4, <2>0, <3>1
  <2>3. i < k \/ i >= k
    BY <1>0
  <2> QED
    BY <2>1, <2>2, <2>3
<1> QED
  BY <1>0, <1>1, <1>2, <1>3, <1>4, <1>5

LEMMA PutIn ==
  ASSUME NEW l \in Seq(Timers), NEW k \in 1..Len(l), NEW t \in Timers
  PROVE  /\ InsertAt(l, k, t) \in Seq(Timers)
         /\ Len(InsertAt(l, k, t)) = Len(l) + 1
         /\ \A i \in 1..Len(l) + 1 :
              InsertAt(l, k, t)[i] = IF i < k THEN l[i]
                                     ELSE IF i = k THEN t ELSE l[i - 1]
<1> DEFINE a == SubSeq(l, 1, k - 1)
           b == SubSeq(l, k, Len(l))
           c == <<t>>
<1>0. /\ Len(l) \in Nat /\ k \in Int /\ 1 \in Int /\ k - 1 \in Int
      /\ \A i \in 1..Len(l) : l[i] \in Timers
  BY LenProperties, ElementOfSeq
<1>1. /\ a \in Seq(Timers) /\ Len(a) = k - 1
      /\ \A i \in 1..k - 1 : a[i] = l[i]
  <2>1. \A i \in 1..k - 1 : l[i] \in Timers
    BY <1>0
  <2>2. /\ a \in Seq(Timers)
        /\ Len(a) = IF 1 <= k - 1 THEN k - 1 - 1 + 1 ELSE 0
        /\ \A i \in 1..k - 1 - 1 + 1 : a[i] = l[1 + i - 1]
    BY <1>0, <2>1, SubSeqProperties
  <2> QED
    BY <1>0, <2>2
<1>2. /\ b \in Seq(Timers) /\ Len(b) = Len(l) - k + 1
      /\ \A i \in 1..Len(l) - k + 1 : b[i] = l[k + i - 1]
  <2>1. \A i \in k..Len(l) : l[i] \in Timers
    BY <1>0
  <2>2. /\ b \in Seq(Timers)
        /\ Len(b) = IF k <= Len(l) THEN Len(l) - k + 1 ELSE 0
        /\ \A i \in 1..Len(l) - k + 1 : b[i] = l[k + i - 1]
    BY <1>0, <2>1, SubSeqProperties
  <2> QED
    BY <1>0, <2>2
<1>3. c \in Seq(Timers) /\ Len(c) = 1 /\ c[1] = t
  OBVIOUS
<1>4. InsertAt(l, k, t) = (a \o c) \o b
  BY DEF InsertAt
<1> HIDE DEF a, b, c
<1> DEFINE ac == a \o c
<1>5. /\ ac \in Seq(Timers)
      /\ Len(ac) = k
      /\ \A i \in 1..k : ac[i] = IF i <= k - 1 THEN a[i] ELSE c[i - (k - 1)]
  <2>1. /\ ac \in Seq(Timers)
        /\ Len(ac) = Len(a) + Len(c)
        /\ \A i \in 1..Len(a) + Len(c) : ac[i] = IF i <= Len(a) THEN a[i] ELSE c[i - Len(a)]
    BY <1>1, <1>3, ConcatProperties
  <2>2. Len(a) + Len(c) = k
    BY <1>0, <1>1, <1>3
  <2> QED
    BY <1>1, <2>1, <2>2
<1>6. \A i \in 1..k : ac[i] = IF i < k THEN l[i] ELSE t
  <2> TAKE i \in 1..k
  <2>1. CASE i < k
    <3>1. i \in 1..k - 1 /\ i <= k - 1
      BY <1>0, <2>1
    <3> QED
      BY <1>1, <1>5, <2>1, <3>1
  <2>2. CASE i = k
    <3>1. ~(i <= k - 1) /\ i - (k - 1) = 1 /\ ~(i < k)
      BY <1>0, <2>2
    <3> QED
      BY <1>3, <1>5, <3>1
  <2>3. i < k \/ i = k
    BY <1>0
  <2> QED
    BY <2>1, <2>2, <2>3
<1> HIDE DEF ac
<1>7. /\ ac \o b \in Seq(Timers)
      /\ Len(ac \o b) = Len(ac) + Len(b)
      /\ \A i \in 1..Len(ac) + Len(b) :
           (ac \o b)[i] = IF i <= Len(ac) THEN ac[i] ELSE b[i - Len(ac)]
  BY <1>2, <1>5, ConcatProperties
<1>8. ASSUME NEW i \in 1..Len(l) + 1
      PROVE  (ac \o b)[i] = IF i < k THEN l[i] ELSE IF i = k THEN t ELSE l[i - 1]
  <2>0. i \in 1..Len(ac) + Len(b)
    BY <1>0, <1>2, <1>5
  <2>1. CASE i <= k
    <3>1. i \in 1..k /\ i <= Len(ac) /\ (i < k \/ i = k)
      BY <1>0, <1>5, <2>1
    <3>2. (ac \o b)[i] = ac[i]
      BY <1>7, <2>0, <3>1
    <3>3. ac[i] = IF i < k THEN l[i] ELSE t
      BY <1>6, <3>1
    <3> QED
      BY <3>1, <3>2, <3>3
  <2>2. CASE i > k
    <3>1. /\ ~(i <= Len(ac)) /\ ~(i < k) /\ i # k
          /\ i - Len(ac) \in 1..Len(l) - k + 1 /\ k + (i - Len(ac)) - 1 = i - 1
      BY <1>0, <1>5, <2>2
    <3> QED
      BY <1>2, <1>7, <2>0, <3>1
  <2>3. i <= k \/ i > k
    BY <1>0
  <2> QED
    BY <2>1, <2>2, <2>3
<1> QED
  <2>1. Len(ac) + Len(b) = Len(l) + 1
    BY <1>0, <1>2, <1>5
  <2> QED
    BY <1>4, <1>7, <1>8, <2>1 DEF ac

(* llist_del takes out one timer and leaves the order of the others.       *)
LEMMA UnlinkKeeps ==
  ASSUME NEW l \in Seq(Timers), NEW t, Distinct(l)
  PROVE  /\ Unlink(l, t) \in Seq(Timers)
         /\ Distinct(Unlink(l, t))
         /\ \A due : Sorted(l, due) => Sorted(Unlink(l, t), due)
         /\ ToSet(Unlink(l, t)) = ToSet(l) \ {t}
         /\ l # <<>> /\ Head(l) # t => /\ Unlink(l, t) # <<>>
                                     /\ Head(Unlink(l, t)) = Head(l)
<1> DEFINE places == {i \in 1..Len(l) : l[i] = t}
           k == CHOOSE i \in places : TRUE
           m == Unlink(l, t)
<1>0. Len(l) \in Nat /\ \A i \in 1..Len(l) : l[i] \in Timers
  BY LenProperties, ElementOfSeq
<1>1. CASE places = {}
  <2>1. m = l
    BY <1>1 DEF Unlink
  <2>2. t \notin ToSet(l)
    BY <1>1, Members
  <2> QED
    BY <2>1, <2>2
<1>2. CASE places # {}
  <2>1. k \in 1..Len(l) /\ l[k] = t
    BY <1>2
  <2>2. m = RemoveAt(l, k)
    BY <1>2 DEF Unlink
  <2> HIDE DEF k, m
  <2>3. /\ m \in Seq(Timers) /\ Len(m) = Len(l) - 1
        /\ \A i \in 1..Len(l) - 1 : m[i] = IF i < k THEN l[i] ELSE l[i + 1]
    BY <2>1, <2>2, CutOut
  <2> DEFINE old(i) == IF i < k THEN i ELSE i + 1
  <2>4. \A i \in 1..Len(m) : old(i) \in 1..Len(l) /\ old(i) # k /\ m[i] = l[old(i)]
    BY <1>0, <2>1, <2>3
  <2>5. \A i, j \in 1..Len(m) : i < j => old(i) < old(j)
    BY <1>0, <2>1, <2>3
  <2>6. \A i, j \in 1..Len(m) : i # j => old(i) # old(j)
    BY <1>0, <2>1, <2>3
  <2>7. \A i \in 1..Len(l) : i # k => \E j \in 1..Len(m) : old(j) = i
    <3> TAKE i \in 1..Len(l)
    <3>1. CASE i < k
      <4>1. i \in 1..Len(m) /\ old(i) = i
        BY <1>0, <2>1, <2>3, <3>1
      <4> QED
        BY <4>1
    <3>2. CASE i > k
      <4>1. i - 1 \in 1..Len(m) /\ old(i - 1) = i
        BY <1>0, <2>1, <2>3, <3>2
      <4> QED
        BY <4>1
    <3> QED
      BY <1>0, <2>1, <3>1, <3>2
  <2> HIDE DEF old
  <2>8. Distinct(m)
    BY <2>4, <2>6 DEF Distinct
  <2>9. \A due : Sorted(l, due) => Sorted(m, due)
    BY <2>4, <2>5 DEF Sorted
  <2>10. ToSet(m) = ToSet(l) \ {t}
    <3>1. ASSUME NEW x PROVE x \in ToSet(m) <=> x \in ToSet(l) /\ x # t
      <4>1. ASSUME x \in ToSet(m) PROVE x \in ToSet(l) /\ x # t
        <5>1. PICK i \in 1..Len(m) : m[i] = x
          BY <2>3, <4>1, Members
        <5>2. old(i) \in 1..Len(l) /\ old(i) # k /\ l[old(i)] = x
          BY <2>4, <5>1
        <5>3. x # t
          BY <2>1, <5>2 DEF Distinct
        <5> QED
          BY <5>2, <5>3, Members
      <4>2. ASSUME x \in ToSet(l), x # t PROVE x \in ToSet(m)
        <5>1. PICK i \in 1..Len(l) : l[i] = x
          BY <4>2, Members
        <5>2. PICK j \in 1..Len(m) : old(j) = i
          BY <2>1, <2>7, <4>2, <5>1
        <5>3. m[j] = x
          BY <2>4, <5>1, <5>2
        <5> QED
          BY <2>3, <5>3, Members
      <4> QED
        BY <4>1, <4>2
    <3> QED
      BY <3>1
  <2>11. l # <<>> /\ Head(l) # t => m # <<>> /\ Head(m) = Head(l)
    <3> SUFFICES ASSUME l # <<>>, Head(l) # t PROVE m # <<>> /\ Head(m) = Head(l)
      OBVIOUS
    <3>1. Head(l) = l[1]
      OBVIOUS
    <3>2. k > 1 /\ Len(m) >= 1 /\ 1 \in 1..Len(l) - 1
      BY <1>0, <2>1, <2>3, <3>1
    <3>3. m[1] = l[1]
      BY <2>3, <3>2
    <3>4. m # <<>>
      BY <3>2, EmptySeq
    <3> QED
      BY <2>3, <3>1, <3>3, <3>4
  <2> QED
    BY <2>3, <2>8, <2>9, <2>10, <2>11 DEF m
<1> QED
  BY <1>1, <1>2

(* Timer_Start and Timer_Update: the timer goes before the first one that  *)
(* is due later, and an ordered list stays ordered.                        *)
LEMMA InsertKeeps ==
  ASSUME NEW l \in Seq(Timers), NEW t \in Timers, NEW due \in [Timers -> Nat],
         Distinct(l), Sorted(l, due), t \notin ToSet(l)
  PROVE  /\ Insert(l, t, due) \in Seq(Timers)
         /\ Insert(l, t, due) # <<>>
         /\ Distinct(Insert(l, t, due))
         /\ Sorted(Insert(l, t, due), due)
         /\ ToSet(Insert(l, t, due)) = ToSet(l) \union {t}
<1> DEFINE later == {i \in 1..Len(l) : due[t] < due[l[i]]}
           m == Insert(l, t, due)
<1>0. /\ Len(l) \in Nat /\ \A i \in 1..Len(l) : l[i] \in Timers
      /\ due[t] \in Nat /\ \A i \in 1..Len(l) : due[l[i]] \in Nat
      /\ \A i \in 1..Len(l) : l[i] # t
  <2>1. Len(l) \in Nat /\ \A i \in 1..Len(l) : l[i] \in Timers
    BY LenProperties, ElementOfSeq
  <2> QED
    BY <2>1, Members
<1>1. \E k \in 1..Len(l) + 1 :
        /\ m \in Seq(Timers) /\ Len(m) = Len(l) + 1
        /\ \A i \in 1..Len(l) + 1 :
             m[i] = IF i < k THEN l[i] ELSE IF i = k THEN t ELSE l[i - 1]
        /\ \A i \in 1..Len(l) : i < k => due[l[i]] <= due[t]
        /\ \A i \in 1..Len(l) : i >= k => due[t] < due[l[i]]
  <2>1. CASE later = {}
    <3>1. m = Append(l, t)
      BY <2>1 DEF Insert
    <3>2. /\ m \in Seq(Timers) /\ Len(m) = Len(l) + 1
          /\ \A i \in 1..Len(l) : m[i] = l[i]
          /\ m[Len(l) + 1] = t
      BY <3>1, AppendProperties
    <3>3. \A i \in 1..Len(l) : due[l[i]] <= due[t]
      BY <1>0, <2>1
    <3> WITNESS Len(l) + 1 \in 1..Len(l) + 1
    <3> HIDE DEF m
    <3>4. ASSUME NEW i \in 1..Len(l) + 1
          PROVE  m[i] = IF i < Len(l) + 1 THEN l[i] ELSE IF i = Len(l) + 1 THEN t ELSE l[i - 1]
      <4>1. CASE i = Len(l) + 1
        BY <1>0, <3>2, <4>1
      <4>2. CASE i \in 1..Len(l)
        <5>1. i < Len(l) + 1
          BY <1>0, <4>2
        <5> QED
          BY <3>2, <4>2, <5>1
      <4> QED
        BY <1>0, <4>1, <4>2
    <3>5. \A i \in 1..Len(l) : ~(i >= Len(l) + 1)
      BY <1>0
    <3> QED
      BY <3>2, <3>3, <3>4, <3>5
  <2>2. CASE later # {}
    <3> DEFINE k == CHOOSE i \in later : \A j \in later : i <= j
    <3>1. \E i \in later : \A j \in later : i <= j
      <4>1. later \in SUBSET Nat
        BY <1>0
      <4> HIDE DEF later
      <4> QED
        BY <2>2, <4>1, Least
    <3>2. k \in later /\ \A j \in later : k <= j
      BY <3>1
    <3>3. m = InsertAt(l, k, t)
      BY <2>2 DEF Insert
    <3> HIDE DEF k, m
    <3>4. k \in 1..Len(l) /\ due[t] < due[l[k]]
      BY <3>2
    <3>5. /\ m \in Seq(Timers) /\ Len(m) = Len(l) + 1
          /\ \A i \in 1..Len(l) + 1 :
               m[i] = IF i < k THEN l[i] ELSE IF i = k THEN t ELSE l[i - 1]
      <4>1. k \in 1..Len(l)
        BY <3>4
      <4>2. /\ InsertAt(l, k, t) \in Seq(Timers)
            /\ Len(InsertAt(l, k, t)) = Len(l) + 1
            /\ \A i \in 1..Len(l) + 1 :
                 InsertAt(l, k, t)[i] = IF i < k THEN l[i]
                                        ELSE IF i = k THEN t ELSE l[i - 1]
        BY <4>1, PutIn
      <4> QED
        BY <3>3, <4>2
    <3>6. \A i \in 1..Len(l) : i < k => due[l[i]] <= due[t]
      BY <1>0, <3>2, <3>4
    <3>7. \A i \in 1..Len(l) : i >= k => due[t] < due[l[i]]
      <4> SUFFICES ASSUME NEW i \in 1..Len(l), i > k PROVE due[t] < due[l[i]]
        BY <1>0, <3>4
      <4>1. due[l[k]] <= due[l[i]]
        BY <3>4 DEF Sorted
      <4> QED
        BY <1>0, <3>4, <4>1
    <3>8. k \in 1..Len(l) + 1
      BY <1>0, <3>4
    <3> QED
      BY <3>5, <3>6, <3>7, <3>8
  <2> QED
    BY <2>1, <2>2
<1> HIDE DEF m
<1>2. PICK k \in 1..Len(l) + 1 :
        /\ m \in Seq(Timers) /\ Len(m) = Len(l) + 1
        /\ \A i \in 1..Len(l) + 1 :
             m[i] = IF i < k THEN l[i] ELSE IF i = k THEN t ELSE l[i - 1]
        /\ \A i \in 1..Len(l) : i < k => due[l[i]] <= due[t]
        /\ \A i \in 1..Len(l) : i >= k => due[t] < due[l[i]]
  BY <1>1
<1> DEFINE old(i) == IF i < k THEN i ELSE i - 1
<1>3. \A i \in 1..Len(m) : i # k => old(i) \in 1..Len(l) /\ m[i] = l[old(i)]
  BY <1>0, <1>2
<1>4. m[k] = t /\ k \in 1..Len(m)
  BY <1>0, <1>2
<1>5. \A i, j \in 1..Len(m) : i # k /\ j # k /\ i < j => old(i) < old(j)
  BY <1>0, <1>2
<1>6. \A i, j \in 1..Len(m) : i # k /\ j # k /\ i # j => old(i) # old(j)
  BY <1>0, <1>2
<1>7. \A i \in 1..Len(m) : /\ i < k => old(i) < k
                           /\ i > k => old(i) >= k
  BY <1>0, <1>2
<1>8. \A i \in 1..Len(l) : \E j \in 1..Len(m) : j # k /\ old(j) = i
  <2> TAKE i \in 1..Len(l)
  <2>1. CASE i < k
    <3>1. i \in 1..Len(m) /\ i # k /\ old(i) = i
      BY <1>0, <1>2, <2>1
    <3> QED
      BY <3>1
  <2>2. CASE i >= k
    <3>1. i + 1 \in 1..Len(m) /\ i + 1 # k /\ old(i + 1) = i
      BY <1>0, <1>2, <2>2
    <3> QED
      BY <3>1
  <2> QED
    BY <1>0, <2>1, <2>2
<1> HIDE DEF old
<1>9. m # <<>>
  BY <1>0, <1>2, EmptySeq
<1>10. Distinct(m)
  <2> SUFFICES ASSUME NEW i \in 1..Len(m), NEW j \in 1..Len(m), i # j
              PROVE  m[i] # m[j]
    BY DEF Distinct
  <2>1. CASE i = k
    BY <1>0, <1>3, <1>4, <2>1
  <2>2. CASE j = k
    BY <1>0, <1>3, <1>4, <2>2
  <2>3. CASE i # k /\ j # k
    BY <1>3, <1>6, <2>3 DEF Distinct
  <2> QED
    BY <2>1, <2>2, <2>3
<1>11. Sorted(m, due)
  <2> SUFFICES ASSUME NEW i \in 1..Len(m), NEW j \in 1..Len(m), i < j
              PROVE  due[m[i]] <= due[m[j]]
    BY DEF Sorted
  <2>1. CASE i = k
    <3>1. j # k /\ j > k
      BY <1>2, <2>1
    <3>2. old(j) \in 1..Len(l) /\ m[j] = l[old(j)] /\ old(j) >= k
      BY <1>3, <1>7, <3>1
    <3>3. due[t] < due[l[old(j)]]
      BY <1>2, <3>2
    <3>4. due[t] \in Nat /\ due[l[old(j)]] \in Nat
      BY <1>0, <3>2
    <3> QED
      BY <1>4, <2>1, <3>2, <3>3, <3>4
  <2>2. CASE j = k
    <3>1. i # k /\ i < k
      BY <1>2, <2>2
    <3>2. old(i) \in 1..Len(l) /\ m[i] = l[old(i)] /\ old(i) < k
      BY <1>3, <1>7, <3>1
    <3> QED
      BY <1>0, <1>2, <1>4, <2>2, <3>2
  <2>3. CASE i # k /\ j # k
    BY <1>3, <1>5, <2>3 DEF Sorted
  <2> QED
    BY <2>1, <2>2, <2>3
<1>12. ToSet(m) = ToSet(l) \union {t}
  <2>1. ASSUME NEW x PROVE x \in ToSet(m) <=> x \in ToSet(l) \/ x = t
    <3>1. ASSUME x \in ToSet(m) PROVE x \in ToSet(l) \/ x = t
      <4>1. PICK i \in 1..Len(m) : m[i] = x
        BY <1>2, <3>1, Members
      <4> QED
        BY <1>3, <1>4, <4>1, Members
    <3>2. ASSUME x \in ToSet(l) PROVE x \in ToSet(m)
      <4>1. PICK i \in 1..Len(l) : l[i] = x
        BY <3>2, Members
      <4>2. PICK j \in 1..Len(m) : j # k /\ old(j) = i
        BY <1>8
      <4>3. m[j] = x
        BY <1>3, <4>1, <4>2
      <4> QED
        BY <1>2, <4>3, Members
    <3>3. t \in ToSet(m)
      BY <1>2, <1>4, Members
    <3> QED
      BY <3>1, <3>2, <3>3
  <2> QED
    BY <2>1
<1> QED
  BY <1>2, <1>9, <1>10, <1>11, <1>12 DEF m

-----------------------------------------------------------------------------
(***************************************************************************)
(* What is inductive.                                                      *)
(***************************************************************************)

(* What is started while the handler runs is never a repeating timer: what *)
(* the UART, audio and I2C drivers do.                                     *)
StartsOneShots == \A t \in InHandlerStart : <<t, TRUE>> \notin Usage

(* Nor is what is stopped then; the soft keyboard does otherwise.          *)
StopsOneShots == \A t \in InHandlerStop : <<t, TRUE>> \notin Usage

(* The hardware will interrupt for NextTick, or has done so.               *)
HwReady ==
  /\ hwOn \/ irq
  /\ ~irq => hwAt <= nextTick + slept \/ hwAt <= now + MinPass

Waits ==
  pc = "idle" => IF list = <<>> THEN nextTick = 0
                 ELSE nextTick = target[Head(list)] /\ HwReady

(* From the comparison on NextTick has passed, unless a call moved it.     *)
Passed ==
  pc \in {"pick", "call", "relink", "next"} => nextTick <= now \/ (rearmed /\ HwReady)

(* What is linked when the traversal is over is either later than NextTick *)
(* or loaded already, so Timer_SetNextIsr does not leave it out.           *)
LeftOver ==
  pc = "next" => HwReady \/ (nextTick <= now /\ \A t \in Linked : target[t] > nextTick)

Positive == \A t \in Linked : target[t] > 0

Serving ==
  /\ pc \in {"call", "relink"} => cur \in alive /\ (add[cur] # 0 => cur \notin Linked)
  /\ pc = "relink" => add[cur] # 0

OneShots == \A t \in InHandlerStart : add[t] = 0

Hardware == Waits /\ Passed /\ LeftOver

IInv ==
  /\ TypeOK /\ Ordered /\ Linked \subseteq alive
  /\ Positive /\ Serving /\ OneShots
  /\ Hardware

LEMMA Sizes ==
  /\ Ticks \subseteq Nat /\ MaxTime \in Nat /\ MaxTime > 0 /\ MaxBurst \in Nat
  /\ Lead \in Nat /\ MinPass \in Nat /\ MinPass > 0 /\ MaxPass \in Nat /\ MaxPass > 0
  /\ InHandlerStart \subseteq Timers /\ InHandlerStop \subseteq Timers
  /\ None \notin Timers /\ None \notin Nat
BY TimerAssumption DEF TimerAssumption

LEMMA OrderedIs ==
  ASSUME TypeOK
  PROVE  Ordered <=> Sorted(list, target) /\ Distinct(list)
<1>0. Len(list) \in Nat
  BY LenProperties DEF TypeOK
<1>1. ASSUME Ordered PROVE Sorted(list, target) /\ Distinct(list)
  <2>1. \A i, j \in 1..Len(list) : i # j => i < j \/ j < i
    BY <1>0
  <2> QED
    BY <1>1, <2>1 DEF Ordered, Sorted, Distinct
<1>2. ASSUME Sorted(list, target), Distinct(list) PROVE Ordered
  <2>1. \A i, j \in 1..Len(list) : i < j => i # j
    BY <1>0
  <2> QED
    BY <1>2, <2>1 DEF Ordered, Sorted, Distinct
<1> QED
  BY <1>1, <1>2

LEMMA OrderedIsNext ==
  ASSUME list' \in Seq(Timers), Sorted(list', target'), Distinct(list')
  PROVE  Ordered'
<1>0. Len(list') \in Nat
  BY LenProperties
<1>1. \A i, j \in 1..Len(list') : i < j => i # j
  BY <1>0
<1> QED
  BY <1>1 DEF Ordered, Sorted, Distinct

LEMMA HeadLinked ==
  ASSUME NEW l \in Seq(Timers), l # <<>>
  PROVE  Head(l) \in ToSet(l) /\ Head(l) \in Timers
<1>1. 1 \in 1..Len(l) /\ Head(l) = l[1]
  BY EmptySeq, LenProperties
<1> QED
  BY <1>1, Members

(* Timer_SetNextIsr leaves the hardware ready for the head, or as it was   *)
(* when it was loaded for the same deadline.                               *)
LEMMA Reprogrammed ==
  ASSUME now \in Nat, nextTick \in Nat, hwOn \in BOOLEAN, hwAt \in Nat /\ slept \in Nat,
         irq \in BOOLEAN, list' \in Seq(Timers), target' \in [Timers -> Nat],
         now' = now, SetNextIsr
  PROVE  /\ nextTick' \in Nat /\ hwOn' \in BOOLEAN /\ hwAt' \in Nat /\ slept' \in Nat /\ irq' \in BOOLEAN
         /\ list' = <<>> => nextTick' = 0
         /\ list' # <<>> =>
              /\ nextTick' = target'[Head(list')]
              /\ \/ nextTick' # nextTick /\ HwReady'
                 \/ nextTick' = nextTick /\ UNCHANGED hwVars
<1>1. CASE list' = <<>>
  <2>1. hwOn' = FALSE /\ nextTick' = 0 /\ hwAt' = hwAt /\ slept' = slept /\ irq' = irq
    BY <1>1 DEF SetNextIsr
  <2> QED
    BY <1>1, <2>1
<1>2. CASE list' # <<>>
  <2> DEFINE due == target'[Head(list')]
  <2>1. due \in Nat
    BY <1>2, HeadLinked
  <2>2. CASE nextTick = due
    BY <1>2, <2>1, <2>2 DEF SetNextIsr, hwVars
  <2>3. CASE nextTick # due
    <3>1. /\ nextTick' = due /\ hwOn' = TRUE /\ irq' = FALSE
          /\ hwAt' = now + Pass(due) /\ slept' = 0
      BY <1>2, <2>3 DEF SetNextIsr, Load
    <3> HIDE DEF due
    <3>2. Pass(due) \in Nat /\ (now + Pass(due) <= due \/ now + Pass(due) <= now + MinPass)
      BY <2>1, Sizes DEF Pass
    <3>3. HwReady'
      BY <2>1, <3>1, <3>2 DEF HwReady
    <3>4. hwOn' \in BOOLEAN /\ irq' \in BOOLEAN
      BY <3>1
    <3>5. hwAt' \in Nat /\ slept' \in Nat
      BY <3>1, <3>2
    <3> QED
      BY <1>2, <2>1, <2>3, <3>1, <3>3, <3>4, <3>5 DEF due
  <2> QED
    BY <2>2, <2>3
<1> QED
  BY <1>1, <1>2

LEMMA Types ==
  ASSUME IInv
  PROVE  /\ now \in Nat /\ now > 0 /\ nextTick \in Nat /\ hwAt \in Nat /\ slept \in Nat
         /\ hwOn \in BOOLEAN /\ irq \in BOOLEAN /\ rearmed \in BOOLEAN
         /\ sleepFlush \in BOOLEAN
         /\ list \in Seq(Timers) /\ target \in [Timers -> Nat] /\ add \in [Timers -> Nat]
         /\ Sorted(list, target) /\ Distinct(list) /\ Linked \subseteq Timers
<1>1. TypeOK
  BY DEF IInv
<1>2. Ordered
  BY DEF IInv
<1>3. list \in Seq(Timers)
  BY <1>1 DEF TypeOK
<1>4. Linked \subseteq Timers
  BY <1>3, Members DEF Linked
<1>5. Sorted(list, target) /\ Distinct(list)
  BY <1>1, <1>2, OrderedIs
<1>6. now \in Nat /\ now > 0
  BY <1>1, Sizes DEF TypeOK
<1> QED
  BY <1>1, <1>3, <1>4, <1>5, <1>6 DEF TypeOK

(* What a call does to the hardware, from outside the handler or within.   *)
LEMMA CallReprograms ==
  ASSUME IInv, list' \in Seq(Timers), target' \in [Timers -> Nat], Positive',
         SetNextIsr, NoteRearm, now' = now, pc' = pc,
         pc # "idle" => \A u \in Linked' :
           (u \in Linked /\ target'[u] = target[u]) \/ target'[u] > now
  PROVE  /\ Hardware'
         /\ nextTick' \in Nat /\ hwOn' \in BOOLEAN /\ hwAt' \in Nat /\ slept' \in Nat /\ irq' \in BOOLEAN
         /\ rearmed' \in BOOLEAN
<1>0. /\ now \in Nat /\ now > 0 /\ nextTick \in Nat /\ hwAt \in Nat /\ slept \in Nat
      /\ hwOn \in BOOLEAN /\ irq \in BOOLEAN /\ rearmed \in BOOLEAN
  BY Types
<1>1. /\ nextTick' \in Nat /\ hwOn' \in BOOLEAN /\ hwAt' \in Nat /\ slept' \in Nat /\ irq' \in BOOLEAN
      /\ list' = <<>> => nextTick' = 0
      /\ list' # <<>> =>
           /\ nextTick' = target'[Head(list')]
           /\ \/ nextTick' # nextTick /\ HwReady'
              \/ nextTick' = nextTick /\ UNCHANGED hwVars
  BY <1>0, Reprogrammed
<1>2. /\ rearmed' \in BOOLEAN
      /\ rearmed => rearmed'
      /\ pc # "idle" /\ nextTick' # nextTick => rearmed'
  BY <1>0 DEF NoteRearm
<1>3. nextTick' = nextTick /\ UNCHANGED hwVars => (HwReady <=> HwReady')
  <2> SUFFICES ASSUME nextTick' = nextTick, UNCHANGED hwVars PROVE HwReady <=> HwReady'
    OBVIOUS
  <2>1. hwOn' = hwOn /\ hwAt' = hwAt /\ slept' = slept /\ irq' = irq /\ nextTick' = nextTick /\ now' = now
    BY DEF hwVars
  <2> QED
    BY <2>1 DEF HwReady
<1>4. list' # <<>> => Head(list') \in Linked'
  BY HeadLinked DEF Linked
<1>5. list' = <<>> => Linked' = {}
  BY DEF Linked, ToSet
<1>6. Waits'
  <2> SUFFICES ASSUME pc = "idle", list' # <<>>
              PROVE  nextTick' = target'[Head(list')] /\ HwReady'
    BY <1>1 DEF Waits
  <2>1. nextTick' > 0
    BY <1>1, <1>4 DEF Positive
  <2>2. CASE nextTick' # nextTick
    BY <1>1, <2>2
  <2>3. CASE nextTick' = nextTick
    <3>1. HwReady
      BY <1>0, <2>1, <2>3 DEF IInv, Hardware, Waits
    <3> QED
      BY <1>1, <1>3, <2>3, <3>1
  <2> QED
    BY <2>2, <2>3
<1>7. Passed'
  <2> SUFFICES ASSUME pc \in {"pick", "call", "relink", "next"}
              PROVE  nextTick' <= now \/ (rearmed' /\ HwReady')
    BY DEF Passed
  <2>1. CASE list' = <<>>
    BY <1>0, <1>1, <2>1
  <2>2. CASE list' # <<>> /\ nextTick' # nextTick
    BY <1>1, <1>2, <2>2
  <2>3. CASE list' # <<>> /\ nextTick' = nextTick
    <3>1. nextTick <= now \/ (rearmed /\ HwReady)
      BY DEF IInv, Hardware, Passed
    <3>2. CASE nextTick <= now
      BY <2>3, <3>2
    <3>3. CASE rearmed /\ HwReady
      BY <1>1, <1>2, <1>3, <2>3, <3>3
    <3> QED
      BY <3>1, <3>2, <3>3
  <2> QED
    BY <2>1, <2>2, <2>3
<1>8. LeftOver'
  <2> SUFFICES ASSUME pc = "next"
              PROVE  HwReady' \/ (nextTick' <= now /\ \A t \in Linked' : target'[t] > nextTick')
    BY DEF LeftOver
  <2>1. CASE list' = <<>>
    BY <1>0, <1>1, <1>5, <2>1
  <2>2. CASE list' # <<>> /\ nextTick' # nextTick
    BY <1>1, <2>2
  <2>3. CASE list' # <<>> /\ nextTick' = nextTick
    <3>1. HwReady \/ (nextTick <= now /\ \A t \in Linked : target[t] > nextTick)
      BY DEF IInv, Hardware, LeftOver
    <3>2. CASE HwReady
      BY <1>1, <1>3, <2>3, <3>2
    <3>3. CASE nextTick <= now /\ \A t \in Linked : target[t] > nextTick
      <4> DEFINE h == Head(list')
      <4>1. h \in Linked' /\ target'[h] = nextTick /\ target'[h] \in Nat
        BY <1>0, <1>1, <1>4, <2>3
      <4>2. (h \in Linked /\ target'[h] = target[h]) \/ target'[h] > now
        BY <4>1
      <4> HIDE DEF h
      <4>3. FALSE
        BY <1>0, <3>3, <4>1, <4>2
      <4> QED
        BY <4>3
    <3> QED
      BY <3>1, <3>2, <3>3
  <2> QED
    BY <2>1, <2>2, <2>3
<1> QED
  BY <1>1, <1>2, <1>6, <1>7, <1>8 DEF Hardware

(* Steps that touch neither the list nor the timers.                       *)
LEMMA ListSame ==
  ASSUME IInv, UNCHANGED <<listVars, alive>>
  PROVE  Ordered' /\ (Linked \subseteq alive)' /\ Positive' /\ OneShots'
         /\ Linked' = Linked
<1>1. list' = list /\ target' = target /\ add' = add /\ alive' = alive
  BY DEF listVars
<1> QED
  BY <1>1 DEF IInv, Ordered, Linked, Positive, OneShots

-----------------------------------------------------------------------------
(* The calls.                                                              *)

LEMMA CreateKeeps == ASSUME IInv, NEW t \in Timers, TimerCreate(t) PROVE IInv'
<1>1. /\ pc = "idle" /\ pc' = pc /\ t \notin alive /\ alive' = alive \union {t}
      /\ target' = [target EXCEPT ![t] = 0] /\ add' = [add EXCEPT ![t] = 0]
      /\ stopped' = stopped \ {t} /\ burst' = burst + 1 /\ burst < MaxBurst
      /\ UNCHANGED <<now, list, nextTick, sleepFlush, hwOn, hwAt, slept, irq, cur, rearmed>>
  BY DEF TimerCreate, CountCall, hwVars
<1>2. TypeOK'
  BY <1>1, Sizes DEF IInv, TypeOK
<1>3. t \notin Linked /\ Linked' = Linked /\ Linked \subseteq Timers
  BY <1>1, Types DEF IInv, Linked
<1>4. \A u \in Linked : target'[u] = target[u]
  BY <1>1, <1>3, Types
<1>5. Ordered'
  <2>1. \A i \in 1..Len(list) : target'[list[i]] = target[list[i]]
    BY <1>4, Types, Members DEF Linked
  <2> QED
    BY <1>1, <2>1 DEF IInv, Ordered
<1>6. (Linked \subseteq alive)' /\ Positive'
  BY <1>1, <1>3, <1>4 DEF IInv, Positive
<1>7. Serving'
  BY <1>1 DEF Serving
<1>8. OneShots'
  BY <1>1, Sizes, Types DEF IInv, OneShots
<1>9. Hardware'
  <2>1. list # <<>> => Head(list) \in Linked
    BY Types, HeadLinked DEF Linked
  <2> QED
    BY <1>1, <1>4, <2>1 DEF IInv, Hardware, Waits, Passed, LeftOver, HwReady
<1> QED
  BY <1>2, <1>5, <1>6, <1>7, <1>8, <1>9 DEF IInv

(* Timer_Start moves one timer to its new place.                           *)
LEMMA StartLinks ==
  ASSUME IInv, NEW t \in Timers, NEW d \in Ticks, NEW repeat \in BOOLEAN,
         TimerStart(t, d, repeat)
  PROVE  /\ target' \in [Timers -> Nat] /\ target'[t] = now + d
         /\ \A u \in Timers : u # t => target'[u] = target[u]
         /\ list' \in Seq(Timers) /\ Distinct(list') /\ Sorted(list', target')
         /\ Linked' = Linked \union {t}
<1> DEFINE rest == Unlink(list, t)
<1>0. /\ now \in Nat /\ d \in Nat /\ list \in Seq(Timers)
      /\ target \in [Timers -> Nat] /\ Sorted(list, target) /\ Distinct(list)
  BY Types, Sizes
<1>1. /\ target' = [target EXCEPT ![t] = now + d]
      /\ list' = Insert(rest, t, target')
  BY DEF TimerStart
<1>2. /\ rest \in Seq(Timers) /\ Distinct(rest) /\ Sorted(rest, target)
      /\ ToSet(rest) = Linked \ {t}
  BY <1>0, UnlinkKeeps DEF Linked
<1> HIDE DEF rest
<1>3. /\ target' \in [Timers -> Nat] /\ target'[t] = now + d
      /\ \A u \in Timers : u # t => target'[u] = target[u]
  BY <1>0, <1>1
<1>4. Sorted(rest, target')
  <2>1. \A i \in 1..Len(rest) : rest[i] \in Timers /\ rest[i] # t
    BY <1>2, Members
  <2> QED
    BY <1>2, <1>3, <2>1 DEF Sorted
<1>5. /\ list' \in Seq(Timers) /\ Distinct(list') /\ Sorted(list', target')
      /\ Linked' = Linked \union {t}
  <2>1. t \notin ToSet(rest)
    BY <1>2
  <2>2. /\ Insert(rest, t, target') \in Seq(Timers)
        /\ Distinct(Insert(rest, t, target'))
        /\ Sorted(Insert(rest, t, target'), target')
        /\ ToSet(Insert(rest, t, target')) = ToSet(rest) \union {t}
    BY <1>2, <1>3, <1>4, <2>1, InsertKeeps
  <2> QED
    BY <1>1, <1>2, <2>2 DEF Linked
<1> QED
  BY <1>3, <1>5

LEMMA StartKeeps ==
  ASSUME IInv, StartsOneShots, NEW t \in Timers, NEW d \in Ticks,
         NEW repeat \in BOOLEAN, TimerStart(t, d, repeat)
  PROVE  IInv'
<1>0. /\ now \in Nat /\ now > 0 /\ d \in Nat /\ list \in Seq(Timers)
      /\ target \in [Timers -> Nat] /\ add \in [Timers -> Nat]
      /\ Sorted(list, target) /\ Distinct(list)
  BY Types, Sizes
<1>1. /\ t \in alive /\ <<t, repeat>> \in Usage
      /\ pc = "idle" \/ (t \in InHandlerStart /\ d > 0)
      /\ target' = [target EXCEPT ![t] = now + d]
      /\ add' = [add EXCEPT ![t] = Period(d, repeat)]
      /\ SetNextIsr /\ NoteRearm
      /\ stopped' = stopped \ {t} /\ burst' = burst + 1 /\ burst < MaxBurst
      /\ UNCHANGED <<now, alive, sleepFlush, pc, cur>>
  BY DEF TimerStart, CountCall
<1>3. /\ target' \in [Timers -> Nat] /\ target'[t] = now + d
      /\ \A u \in Timers : u # t => target'[u] = target[u]
      /\ list' \in Seq(Timers) /\ Distinct(list') /\ Sorted(list', target')
  BY StartLinks
<1>5. list' \in Seq(Timers) /\ Linked' = Linked \union {t}
  BY StartLinks
<1>6. Ordered'
  BY <1>3, OrderedIsNext
<1>7. Positive'
  <2>1. \A u \in Linked : u \in Timers /\ target[u] > 0
    BY Types DEF IInv, Positive
  <2> QED
    BY <1>0, <1>3, <1>5, <2>1 DEF Positive
<1>8. /\ Hardware' /\ nextTick' \in Nat /\ hwOn' \in BOOLEAN /\ hwAt' \in Nat /\ slept' \in Nat
      /\ irq' \in BOOLEAN /\ rearmed' \in BOOLEAN
  <2>1. pc # "idle" => \A u \in Linked' :
          (u \in Linked /\ target'[u] = target[u]) \/ target'[u] > now
    <3>1. pc # "idle" => target'[t] > now
      BY <1>0, <1>1, <1>3
    <3>2. \A u \in Linked' : u = t \/ (u \in Linked /\ target'[u] = target[u])
      BY <1>3, <1>5, Types
    <3> QED
      BY <3>1, <3>2
  <2>2. now' = now /\ pc' = pc
    BY <1>1
  <2> QED
    BY <1>1, <1>3, <1>5, <1>7, <2>1, <2>2, CallReprograms
<1>9. /\ add' \in [Timers -> Nat]
      /\ \A u \in Timers : u # t => add'[u] = add[u]
      /\ add'[t] = IF repeat THEN d ELSE 0
  BY <1>0, <1>1 DEF Period
<1>10. OneShots'
  <2>1. ASSUME t \in InHandlerStart PROVE add'[t] = 0
    <3>1. <<t, TRUE>> \notin Usage
      BY <2>1 DEF StartsOneShots
    <3>2. repeat # TRUE
      BY <1>1, <3>1
    <3> QED
      BY <1>9, <3>2
  <2> QED
    BY <1>9, <2>1, Sizes DEF IInv, OneShots
<1>11. TypeOK'
  <2>1. add' \in [Timers -> Nat]
    BY <1>9
  <2>2. burst' \in 0..MaxBurst /\ stopped' \subseteq Timers
    BY <1>1, Sizes DEF IInv, TypeOK
  <2> QED
    BY <1>1, <1>3, <1>5, <1>8, <2>1, <2>2 DEF IInv, TypeOK
<1>12. (Linked \subseteq alive)'
  BY <1>1, <1>5 DEF IInv
<1>13. Serving'
  <2> SUFFICES ASSUME pc \in {"call", "relink"}
              PROVE  /\ cur \in alive /\ (add'[cur] # 0 => cur \notin Linked')
                     /\ pc = "relink" => add'[cur] # 0
    BY <1>1 DEF Serving
  <2>1. cur \in alive /\ cur \in Timers /\ (add[cur] # 0 => cur \notin Linked)
        /\ (pc = "relink" => add[cur] # 0)
    BY DEF IInv, Serving, TypeOK
  <2>2. t \in InHandlerStart /\ add[t] = 0
    BY <1>1 DEF IInv, OneShots
  <2>3. add'[t] = 0
    BY <1>10, <2>2 DEF OneShots
  <2>4. CASE cur = t
    BY <2>1, <2>2, <2>3, <2>4
  <2>5. CASE cur # t
    BY <1>5, <1>9, <2>1, <2>5
  <2> QED
    BY <2>4, <2>5
<1> QED
  BY <1>6, <1>7, <1>8, <1>10, <1>11, <1>12, <1>13 DEF IInv

(* Timer_Stop and Timer_Release.                                           *)
LEMMA StopBodyKeeps ==
  ASSUME IInv, NEW t \in Timers, StopBody(t), UNCHANGED <<now, pc>>
  PROVE  /\ Hardware' /\ Ordered' /\ Positive' /\ OneShots'
         /\ Linked' = Linked \ {t}
         /\ list' \in Seq(Timers) /\ nextTick' \in Nat /\ hwOn' \in BOOLEAN
         /\ hwAt' \in Nat /\ slept' \in Nat /\ irq' \in BOOLEAN /\ rearmed' \in BOOLEAN
<1>0. /\ list \in Seq(Timers) /\ target \in [Timers -> Nat]
      /\ Sorted(list, target) /\ Distinct(list)
      /\ nextTick \in Nat /\ hwOn \in BOOLEAN /\ hwAt \in Nat /\ slept \in Nat /\ irq \in BOOLEAN
      /\ rearmed \in BOOLEAN
  BY Types
<1>1. /\ list' = Unlink(list, t) /\ target' = target /\ add' = add /\ NoteRearm
      /\ now' = now /\ pc' = pc
  BY DEF StopBody
<1>2. /\ list' \in Seq(Timers) /\ Distinct(list') /\ Sorted(list', target)
      /\ Linked' = Linked \ {t}
      /\ list # <<>> /\ Head(list) # t => list' # <<>> /\ Head(list') = Head(list)
  BY <1>0, <1>1, UnlinkKeeps DEF Linked
<1>3. Ordered'
  BY <1>1, <1>2, OrderedIsNext
<1>4. Positive' /\ OneShots'
  BY <1>1, <1>2 DEF IInv, Positive, OneShots
<1>5. /\ Hardware' /\ nextTick' \in Nat /\ hwOn' \in BOOLEAN /\ hwAt' \in Nat /\ slept' \in Nat
      /\ irq' \in BOOLEAN /\ rearmed' \in BOOLEAN
  <2>1. CASE list # <<>> /\ Head(list) = t
    <3>1. SetNextIsr
      BY <2>1 DEF StopBody
    <3>2. \A u \in Linked' : u \in Linked /\ target'[u] = target[u]
      BY <1>1, <1>2
    <3>3. target' \in [Timers -> Nat]
      BY <1>0, <1>1
    <3> QED
      BY <1>1, <1>2, <1>4, <3>1, <3>2, <3>3, CallReprograms
  <2>2. CASE ~(list # <<>> /\ Head(list) = t)
    <3>1. hwOn' = hwOn /\ hwAt' = hwAt /\ slept' = slept /\ irq' = irq /\ nextTick' = nextTick
      BY <2>2 DEF StopBody, hwVars
    <3>2. rearmed' = rearmed
      BY <1>0, <3>1 DEF StopBody, NoteRearm
    <3>3. HwReady' = HwReady
      BY <1>1, <3>1 DEF HwReady
    <3>4. list = <<>> => list' = <<>>
      <4>1. list = <<>> => 1..Len(list) = {}
        BY EmptySeq
      <4> QED
        BY <1>1, <4>1 DEF Unlink
    <3>5. Waits'
      BY <1>1, <1>2, <2>2, <3>1, <3>3, <3>4 DEF IInv, Hardware, Waits
    <3>6. Passed'
      BY <1>1, <3>1, <3>2, <3>3 DEF IInv, Hardware, Passed
    <3>7. LeftOver'
      BY <1>1, <1>2, <3>1, <3>3 DEF IInv, Hardware, LeftOver
    <3> QED
      BY <1>0, <3>1, <3>2, <3>5, <3>6, <3>7 DEF Hardware
  <2> QED
    BY <2>1, <2>2
<1> QED
  BY <1>2, <1>3, <1>4, <1>5

LEMMA StopKeeps == ASSUME IInv, NEW t \in Timers, TimerStop(t) PROVE IInv'
<1>1. /\ StopBody(t) /\ UNCHANGED <<now, pc>>
      /\ stopped' = stopped \union {t} /\ burst' = burst + 1 /\ burst < MaxBurst
      /\ UNCHANGED <<now, alive, sleepFlush, pc, cur>>
      /\ target' = target /\ add' = add
  BY DEF TimerStop, CountCall, StopBody
<1>2. /\ Hardware' /\ Ordered' /\ Positive' /\ OneShots'
      /\ Linked' = Linked \ {t}
      /\ list' \in Seq(Timers) /\ nextTick' \in Nat /\ hwOn' \in BOOLEAN
      /\ hwAt' \in Nat /\ slept' \in Nat /\ irq' \in BOOLEAN /\ rearmed' \in BOOLEAN
  BY <1>1, StopBodyKeeps
<1>3. TypeOK'
  BY <1>1, <1>2, Sizes DEF IInv, TypeOK
<1>4. (Linked \subseteq alive)' /\ Serving'
  BY <1>1, <1>2 DEF IInv, Serving
<1> QED
  BY <1>2, <1>3, <1>4 DEF IInv

LEMMA ReleaseKeeps == ASSUME IInv, NEW t \in Timers, TimerRelease(t) PROVE IInv'
<1>1. /\ StopBody(t) /\ UNCHANGED <<now, pc>> /\ pc = "idle"
      /\ alive' = alive \ {t}
      /\ stopped' = stopped \union {t} /\ burst' = burst + 1 /\ burst < MaxBurst
      /\ UNCHANGED <<now, sleepFlush, pc, cur>>
      /\ target' = target /\ add' = add
  BY DEF TimerRelease, CountCall, StopBody
<1>2. /\ Hardware' /\ Ordered' /\ Positive' /\ OneShots'
      /\ Linked' = Linked \ {t}
      /\ list' \in Seq(Timers) /\ nextTick' \in Nat /\ hwOn' \in BOOLEAN
      /\ hwAt' \in Nat /\ slept' \in Nat /\ irq' \in BOOLEAN /\ rearmed' \in BOOLEAN
  BY <1>1, StopBodyKeeps
<1>3. TypeOK'
  BY <1>1, <1>2, Sizes DEF IInv, TypeOK
<1>4. (Linked \subseteq alive)' /\ Serving'
  BY <1>1, <1>2 DEF IInv, Serving
<1> QED
  BY <1>2, <1>3, <1>4 DEF IInv

-----------------------------------------------------------------------------
(* The clock and the hardware: ready it stays, and what is slept moves the *)
(* instant it runs out at by as much as the time slept.                    *)
LEMMA TimePasses ==
  ASSUME IInv, NEW d \in Nat, now' \in Nat, now' >= now + d,
         hwAt' = hwAt + d, slept' = slept + d,
         UNCHANGED <<listVars, nextTick, hwOn, irq, rearmed>>,
         pc' = pc \/ pc' = "eoi"
  PROVE  Hardware'
<1>0. /\ now \in Nat /\ nextTick \in Nat /\ hwAt \in Nat /\ slept \in Nat
      /\ MinPass \in Nat /\ hwOn \in BOOLEAN /\ irq \in BOOLEAN
  BY Types, Sizes
<1>1. /\ list' = list /\ target' = target /\ nextTick' = nextTick /\ rearmed' = rearmed
      /\ hwOn' = hwOn /\ irq' = irq
  BY DEF listVars
<1>2. HwReady => HwReady'
  <2> SUFFICES ASSUME HwReady PROVE HwReady'
    OBVIOUS
  <2>1. hwOn' \/ irq'
    BY <1>1 DEF HwReady
  <2>2. ~irq => hwAt <= nextTick + slept \/ hwAt <= now + MinPass
    BY DEF HwReady
  <2>3. /\ hwAt <= now + MinPass => hwAt + d <= now' + MinPass
        /\ hwAt <= nextTick + slept => hwAt + d <= nextTick + (slept + d)
    <3> DEFINE later == now'
    <3>1. later \in Nat /\ later >= now + d
      OBVIOUS
    <3> HIDE DEF later
    <3>2. hwAt <= now + MinPass => hwAt + d <= later + MinPass
      BY <1>0, <3>1
    <3>3. hwAt <= nextTick + slept => hwAt + d <= nextTick + (slept + d)
      BY <1>0
    <3> QED
      BY <3>2, <3>3 DEF later
  <2>4. ~irq' => ~irq
    BY <1>0, <1>1
  <2>5. ~irq => hwAt' <= nextTick' + slept' \/ hwAt' <= now' + MinPass
    BY <1>1, <2>2, <2>3
  <2> QED
    BY <2>1, <2>4, <2>5, Zenon DEF HwReady
<1>3. Linked' = Linked
  BY <1>1 DEF Linked
<1>4. Waits'
  BY <1>1, <1>2 DEF IInv, Hardware, Waits
<1>5. Passed'
  BY <1>0, <1>1, <1>2 DEF IInv, Hardware, Passed
<1>6. LeftOver'
  BY <1>0, <1>1, <1>2, <1>3 DEF IInv, Hardware, LeftOver
<1> QED
  BY <1>4, <1>5, <1>6 DEF Hardware

LEMMA TickKeeps == ASSUME IInv, Tick PROVE IInv'
<1>1. /\ now < MaxTime /\ now' = now + 1 /\ burst' = 0 /\ pc' = pc
      /\ UNCHANGED <<listVars, alive>>
      /\ UNCHANGED <<listVars, nextTick, hwOn, irq, rearmed>>
      /\ UNCHANGED <<list, target, add, hwOn, hwAt, slept, irq, stopped, sleepFlush, cur, alive>>
  BY DEF Tick, listVars, hwVars
<1>2. now' \in Nat /\ now' >= now + 0 /\ now \in 1..MaxTime /\ now' \in 1..MaxTime
  BY <1>1, Types, Sizes DEF IInv, TypeOK
<1>3. Hardware'
  <2>1. hwAt' = hwAt + 0 /\ slept' = slept + 0 /\ 0 \in Nat
    BY <1>1, Types
  <2>2. pc' = pc \/ pc' = "eoi"
    BY <1>1
  <2> QED
    BY <1>1, <1>2, <2>1, <2>2, TimePasses
<1>4. TypeOK'
  BY <1>1, <1>2, Sizes DEF IInv, TypeOK
<1>5. Serving'
  BY <1>1 DEF IInv, Serving, Linked
<1> QED
  BY <1>1, <1>3, <1>4, <1>5, ListSame DEF IInv

LEMMA SleepKeeps == ASSUME IInv, NEW d \in Ticks, Sleep(d) PROVE IInv'
<1>1. /\ now + d <= MaxTime /\ now' = now + d /\ pc = "idle"
      /\ pc' = pc \/ pc' = "eoi"
      /\ burst' = (IF d = 0 THEN burst ELSE 0)
      /\ UNCHANGED <<listVars, alive>>
      /\ hwAt' = hwAt + d /\ slept' = slept + d
      /\ UNCHANGED <<listVars, nextTick, hwOn, irq, rearmed>>
      /\ UNCHANGED <<list, target, add, hwOn, irq, stopped, cur, alive>>
  BY DEF Sleep, listVars
<1>2. /\ d \in Nat /\ now' \in Nat /\ now' >= now + d
      /\ now \in 1..MaxTime /\ now' \in 1..MaxTime
      /\ hwAt' \in Nat /\ slept' \in Nat
  BY <1>1, Types, Sizes DEF IInv, TypeOK
<1>3. Hardware'
  BY <1>1, <1>2, TimePasses
<1>4. sleepFlush' \in BOOLEAN /\ burst' \in 0..MaxBurst
  <2>1. sleepFlush' = TRUE \/ sleepFlush' = sleepFlush
    BY DEF Sleep
  <2>2. burst \in 0..MaxBurst
    BY DEF IInv, TypeOK
  <2>3. burst' \in 0..MaxBurst
    BY <1>1, <2>2, Sizes
  <2> QED
    BY <2>1, <2>3, Types
<1>5. TypeOK'
  BY <1>1, <1>2, <1>4 DEF IInv, TypeOK
<1>6. Serving'
  BY <1>1 DEF IInv, Serving, Linked
<1> QED
  BY <1>1, <1>3, <1>5, <1>6, ListSame DEF IInv

LEMMA HwRunOutKeeps == ASSUME IInv, HwRunOut PROVE IInv'
<1>1. /\ irq' = TRUE /\ pc' = pc /\ now' = now
      /\ UNCHANGED <<listVars, alive>>
      /\ UNCHANGED <<list, target, add, hwOn, hwAt, slept, stopped, sleepFlush, cur, alive,
                     nextTick, rearmed, burst>>
  BY DEF HwRunOut, listVars, clientVars
<1>2. HwReady'
  BY <1>1 DEF HwReady
<1>3. Linked' = Linked
  BY <1>1 DEF Linked
<1>4. Waits' /\ Passed' /\ LeftOver'
  BY <1>1, <1>2, <1>3 DEF IInv, Hardware, Waits, Passed, LeftOver
<1>5. TypeOK'
  BY <1>1 DEF IInv, TypeOK
<1>6. Serving'
  BY <1>1, <1>3 DEF IInv, Serving
<1> QED
  BY <1>1, <1>4, <1>5, <1>6, ListSame DEF IInv, Hardware

-----------------------------------------------------------------------------
(* SystemTimerIrqHandler.                                                  *)

LEMMA EnterKeeps ==
  ASSUME IInv, Enter \/ ClearIrq \/ Disable
  PROVE  IInv'
<1>1. /\ pc' \in {"eoi", "off", "compare"}
      /\ irq' \in {irq, FALSE} /\ hwOn' \in {hwOn, FALSE} /\ hwAt' = hwAt /\ slept' = slept
      /\ UNCHANGED <<listVars, alive>>
      /\ UNCHANGED <<now, list, target, add, alive, stopped, burst, nextTick, sleepFlush,
                     cur, rearmed>>
  BY DEF Enter, ClearIrq, Disable, Goto, listVars, clientVars, hwVars
<1>2. irq' \in BOOLEAN /\ hwOn' \in BOOLEAN
  BY <1>1, Types
<1>3. TypeOK'
  BY <1>1, <1>2 DEF IInv, TypeOK
<1>4. Hardware' /\ Serving'
  BY <1>1 DEF Hardware, Waits, Passed, LeftOver, Serving
<1> QED
  BY <1>1, <1>3, <1>4, ListSame DEF IInv

LEMMA CompareKeeps ==
  ASSUME IInv, Compare \/ Clamp
  PROVE  IInv'
<1>1. /\ UNCHANGED <<listVars, alive>>
      /\ UNCHANGED <<now, list, target, add, alive, stopped, burst, sleepFlush,
                     hwOn, hwAt, slept, irq, cur, rearmed>>
      /\ pc' \in {"clamp", "pick"}
      /\ nextTick' \in {nextTick, now}
      /\ pc' = "pick" => nextTick' <= now
  <2>1. CASE Compare
    BY <2>1, Types DEF Compare, listVars, clientVars, hwVars
  <2>2. CASE Clamp
    BY <2>2, Types DEF Clamp, Goto, listVars, clientVars, hwVars
  <2> QED
    BY <2>1, <2>2
<1>2. nextTick' \in Nat
  BY <1>1, Types
<1>3. TypeOK'
  BY <1>1, <1>2 DEF IInv, TypeOK
<1>4. Hardware' /\ Serving'
  BY <1>1 DEF Hardware, Waits, Passed, LeftOver, Serving
<1> QED
  BY <1>1, <1>3, <1>4, ListSame DEF IInv

(* What llist_traversal finds is linked and NextTick covers it.            *)
LEMMA Found ==
  ASSUME IInv, Due # {}
  PROVE  FirstDue \in Linked /\ FirstDue \in Timers /\ target[FirstDue] <= nextTick
<1>1. Due \in SUBSET Nat
  BY DEF Due
<1>2. \E i \in Due : \A j \in Due : i <= j
  BY <1>1, Least
<1>3. \E i \in Due : FirstDue = list[i]
  BY <1>2 DEF FirstDue
<1> QED
  BY <1>3, Types, Members DEF Due, Linked

(* The handler takes a timer out of the list before it calls back.         *)
LEMMA PickUnlinks ==
  ASSUME IInv, Pick
  PROVE  /\ cur' \in Linked /\ cur' \in Timers /\ target[cur'] <= nextTick
         /\ list' \in Seq(Timers) /\ Distinct(list') /\ Sorted(list', target)
         /\ Linked' = Linked \ {cur'}
<1>1. Due # {} /\ cur' = FirstDue /\ list' = Unlink(list, FirstDue)
  BY DEF Pick
<1>2. cur' \in Linked /\ cur' \in Timers /\ target[cur'] <= nextTick
  BY <1>1, Found
<1>3. /\ list' \in Seq(Timers) /\ Distinct(list') /\ Sorted(list', target)
      /\ Linked' = Linked \ {cur'}
  BY <1>1, Types, UnlinkKeeps DEF Linked
<1> QED
  BY <1>2, <1>3

LEMMA PickKeeps == ASSUME IInv, Pick PROVE IInv'
<1>1. /\ pc' = "call" /\ pc = "pick"
      /\ UNCHANGED <<now, target, add, alive, stopped, burst, nextTick, sleepFlush,
                     hwOn, hwAt, slept, irq, rearmed>>
  BY DEF Pick, Goto, clientVars, hwVars
<1>2. cur' \in Linked /\ cur' \in Timers
  BY PickUnlinks
<1>3. /\ list' \in Seq(Timers) /\ Distinct(list') /\ Sorted(list', target)
      /\ Linked' = Linked \ {cur'}
  BY PickUnlinks
<1>4. Ordered'
  BY <1>1, <1>3, OrderedIsNext
<1>5. TypeOK'
  BY <1>1, <1>2, <1>3 DEF IInv, TypeOK
<1>6. (Linked \subseteq alive)' /\ Positive' /\ OneShots' /\ Serving'
  BY <1>1, <1>2, <1>3 DEF IInv, Positive, OneShots, Serving
<1>7. Hardware'
  BY <1>1 DEF IInv, Hardware, Waits, Passed, LeftOver, HwReady
<1> QED
  BY <1>4, <1>5, <1>6, <1>7 DEF IInv

LEMMA NothingDueKeeps == ASSUME IInv, NothingDue PROVE IInv'
<1>1. /\ Due = {} /\ pc = "pick" /\ pc' = "next"
      /\ UNCHANGED <<listVars, alive>>
      /\ UNCHANGED <<now, list, target, add, alive, stopped, burst, nextTick, sleepFlush,
                     hwOn, hwAt, slept, irq, cur, rearmed>>
  BY DEF NothingDue, Goto, listVars, clientVars, hwVars
<1>2. \A t \in Linked : target[t] > nextTick
  <2> TAKE t \in Linked
  <2>1. PICK i \in 1..Len(list) : list[i] = t
    BY Types, Members DEF Linked
  <2>2. ~(target[list[i]] <= nextTick)
    BY <1>1 DEF Due
  <2> QED
    BY <2>1, <2>2, Types
<1>3. HwReady' = HwReady /\ Linked' = Linked
  BY <1>1 DEF HwReady, Linked
<1>4. Hardware'
  BY <1>1, <1>2, <1>3 DEF IInv, Hardware, Waits, Passed, LeftOver
<1>5. TypeOK' /\ Serving'
  BY <1>1 DEF IInv, TypeOK, Serving
<1> QED
  BY <1>1, <1>4, <1>5, ListSame DEF IInv

LEMMA ReturnKeeps == ASSUME IInv, Return PROVE IInv'
<1>1. /\ pc = "call" /\ pc' = (IF add[cur] # 0 THEN "relink" ELSE "pick")
      /\ UNCHANGED <<listVars, alive>>
      /\ UNCHANGED <<now, list, target, add, alive, stopped, burst, nextTick, sleepFlush,
                     hwOn, hwAt, slept, irq, cur, rearmed>>
  BY DEF Return, listVars, clientVars, hwVars
<1>2. Hardware'
  BY <1>1 DEF IInv, Hardware, Waits, Passed, LeftOver, HwReady
<1>3. TypeOK' /\ Serving'
  BY <1>1 DEF IInv, TypeOK, Serving, Linked
<1> QED
  BY <1>1, <1>2, <1>3, ListSame DEF IInv

(* A repeating timer goes back to a place of its own.                      *)
LEMMA RelinkLinks ==
  ASSUME IInv, Relink
  PROVE  /\ cur \in alive /\ cur \in Timers /\ cur \notin Linked /\ add[cur] # 0
         /\ NextDue(cur) \in Nat /\ NextDue(cur) > 0
         /\ target' \in [Timers -> Nat] /\ target'[cur] = NextDue(cur)
         /\ \A u \in Timers : u # cur => target'[u] = target[u]
         /\ list' \in Seq(Timers) /\ Distinct(list') /\ Sorted(list', target')
         /\ Linked' = Linked \union {cur}
<1>1. /\ pc = "relink" /\ pc' = "pick"
      /\ target' = [target EXCEPT ![cur] = NextDue(cur)]
      /\ list' = Insert(list, cur, target')
      /\ UNCHANGED <<now, add, alive, stopped, burst, nextTick, sleepFlush,
                     hwOn, hwAt, slept, irq, cur, rearmed>>
  BY DEF Relink, Goto, clientVars, hwVars
<1>2. cur \in alive /\ cur \in Timers /\ cur \notin Linked /\ add[cur] # 0
  BY <1>1 DEF IInv, Serving, TypeOK
<1>3. NextDue(cur) \in Nat /\ NextDue(cur) > 0
  BY <1>2, Types, Sizes DEF NextDue, Present
<1>4. /\ target' \in [Timers -> Nat] /\ target'[cur] = NextDue(cur)
      /\ \A u \in Timers : u # cur => target'[u] = target[u]
  BY <1>1, <1>2, <1>3, Types
<1>5. Sorted(list, target')
  <2>1. \A i \in 1..Len(list) : list[i] \in Timers /\ list[i] # cur
    BY <1>2, Types, Members DEF Linked
  <2> QED
    BY <1>4, <2>1, Types DEF Sorted
<1>6. /\ list' \in Seq(Timers) /\ Distinct(list') /\ Sorted(list', target')
      /\ Linked' = Linked \union {cur}
  <2>1. /\ Insert(list, cur, target') \in Seq(Timers)
        /\ Distinct(Insert(list, cur, target'))
        /\ Sorted(Insert(list, cur, target'), target')
        /\ ToSet(Insert(list, cur, target')) = ToSet(list) \union {cur}
    BY <1>2, <1>4, <1>5, Types, InsertKeeps DEF Linked
  <2> QED
    BY <1>1, <2>1 DEF Linked
<1> QED
  BY <1>2, <1>3, <1>4, <1>6

LEMMA RelinkKeeps == ASSUME IInv, Relink PROVE IInv'
<1>1. /\ pc = "relink" /\ pc' = "pick"
      /\ target' = [target EXCEPT ![cur] = NextDue(cur)]
      /\ list' = Insert(list, cur, target')
      /\ UNCHANGED <<now, add, alive, stopped, burst, nextTick, sleepFlush,
                     hwOn, hwAt, slept, irq, cur, rearmed>>
  BY DEF Relink, Goto, clientVars, hwVars
<1>2. cur \in alive /\ cur \in Timers /\ add[cur] # 0
  BY RelinkLinks
<1>3. NextDue(cur) > 0
  BY RelinkLinks
<1>4. /\ target' \in [Timers -> Nat] /\ target'[cur] = NextDue(cur)
      /\ \A u \in Timers : u # cur => target'[u] = target[u]
  BY RelinkLinks
<1>6. /\ list' \in Seq(Timers) /\ Distinct(list') /\ Sorted(list', target')
      /\ Linked' = Linked \union {cur}
  BY RelinkLinks
<1>7. Ordered'
  BY <1>6, OrderedIsNext
<1>8. Positive'
  BY <1>3, <1>4, <1>6, Types DEF IInv, Positive
<1>9. TypeOK'
  BY <1>1, <1>4, <1>6 DEF IInv, TypeOK
<1>10. (Linked \subseteq alive)' /\ OneShots' /\ Serving'
  BY <1>1, <1>2, <1>6 DEF IInv, OneShots, Serving
<1>11. Hardware'
  BY <1>1 DEF IInv, Hardware, Waits, Passed, LeftOver, HwReady
<1> QED
  BY <1>7, <1>8, <1>9, <1>10, <1>11 DEF IInv

(* The last thing the handler does is to see to the hardware.              *)
LEMMA LeaveKeeps == ASSUME IInv, Leave PROVE IInv'
<1>0. /\ now \in Nat /\ nextTick \in Nat /\ hwOn \in BOOLEAN /\ hwAt \in Nat /\ slept \in Nat
      /\ irq \in BOOLEAN /\ list \in Seq(Timers) /\ target \in [Timers -> Nat]
  BY Types
<1>1. /\ pc = "next" /\ pc' = "idle" /\ SetNextIsr
      /\ sleepFlush' = FALSE /\ cur' = None /\ rearmed' = FALSE
      /\ UNCHANGED <<listVars, alive>>
      /\ UNCHANGED <<now, list, target, add, alive, stopped, burst>>
  BY DEF Leave, Goto, listVars, clientVars
<1>2. /\ nextTick' \in Nat /\ hwOn' \in BOOLEAN /\ hwAt' \in Nat /\ slept' \in Nat /\ irq' \in BOOLEAN
      /\ list' = <<>> => nextTick' = 0
      /\ list' # <<>> =>
           /\ nextTick' = target'[Head(list')]
           /\ \/ nextTick' # nextTick /\ HwReady'
              \/ nextTick' = nextTick /\ UNCHANGED hwVars
  BY <1>0, <1>1, Reprogrammed
<1>3. Waits'
  <2> SUFFICES ASSUME list # <<>> PROVE nextTick' = target[Head(list)] /\ HwReady'
    BY <1>1, <1>2 DEF Waits
  <2>1. CASE nextTick' # nextTick
    BY <1>1, <1>2, <2>1
  <2>2. CASE nextTick' = nextTick /\ UNCHANGED hwVars
    <3>1. target[Head(list)] = nextTick /\ Head(list) \in Linked
      BY <1>0, <1>1, <1>2, <2>2, HeadLinked DEF Linked
    <3>2. HwReady
      BY <1>0, <1>1, <3>1 DEF IInv, Hardware, LeftOver
    <3>3. hwOn' = hwOn /\ hwAt' = hwAt /\ slept' = slept /\ irq' = irq /\ nextTick' = nextTick /\ now' = now
      BY <1>1, <2>2 DEF hwVars
    <3>4. HwReady'
      BY <3>2, <3>3 DEF HwReady
    <3> QED
      BY <2>2, <3>1, <3>4
  <2> QED
    BY <1>1, <1>2, <2>1, <2>2
<1>4. Hardware' /\ Serving'
  BY <1>1, <1>3 DEF Hardware, Passed, LeftOver, Serving
<1>5. TypeOK'
  BY <1>1, <1>2 DEF IInv, TypeOK
<1> QED
  BY <1>1, <1>4, <1>5, ListSame DEF IInv

-----------------------------------------------------------------------------
LEMMA InitHolds == Init => IInv
<1> SUFFICES ASSUME Init PROVE IInv
  OBVIOUS
<1>1. list = <<>> /\ Linked = {} /\ list \in Seq(Timers) /\ Len(list) = 0
  BY EmptySeq DEF Init, Linked, ToSet
<1>2. TypeOK
  <2>1. /\ target \in [Timers -> Nat] /\ add \in [Timers -> Nat]
        /\ alive \subseteq Timers /\ stopped \subseteq Timers
    BY DEF Init
  <2>2. now \in 1..MaxTime /\ nextTick \in Nat /\ hwAt \in Nat /\ slept \in Nat /\ burst \in 0..MaxBurst
    BY Sizes DEF Init
  <2>3. /\ sleepFlush \in BOOLEAN /\ hwOn \in BOOLEAN /\ irq \in BOOLEAN
        /\ rearmed \in BOOLEAN /\ cur = None /\ pc = "idle"
    BY DEF Init
  <2> QED
    BY <1>1, <2>1, <2>2, <2>3 DEF TypeOK
<1>3. Ordered
  BY <1>1 DEF Ordered
<1>4. Linked \subseteq alive /\ Positive
  BY <1>1 DEF Positive
<1>5. OneShots
  BY Sizes DEF Init, OneShots
<1>6. Serving /\ Hardware
  BY <1>1 DEF Init, Serving, Hardware, Waits, Passed, LeftOver
<1> QED
  BY <1>2, <1>3, <1>4, <1>5, <1>6 DEF IInv

LEMMA NextKeeps == ASSUME StartsOneShots, IInv, [Next]_vars PROVE IInv'
<1>1. CASE UNCHANGED vars
  <2>1. /\ UNCHANGED <<listVars, alive>>
        /\ UNCHANGED <<now, list, target, add, alive, stopped, burst, nextTick, sleepFlush,
                       hwOn, hwAt, slept, irq, cur, rearmed, pc>>
    BY <1>1 DEF vars, listVars, clientVars, hwVars
  <2>2. TypeOK' /\ Serving'
    BY <2>1 DEF IInv, TypeOK, Serving, Linked
  <2>3. Hardware'
    BY <2>1 DEF IInv, Hardware, Waits, Passed, LeftOver, HwReady, Linked
  <2> QED
    BY <2>1, <2>2, <2>3, ListSame DEF IInv
<1>2. CASE Client
  <2>1. PICK t \in Timers :
          \/ TimerCreate(t)
          \/ \E d \in Ticks, repeat \in BOOLEAN : TimerStart(t, d, repeat)
          \/ TimerStop(t)
          \/ TimerRelease(t)
    BY <1>2 DEF Client
  <2>2. CASE \E d \in Ticks, repeat \in BOOLEAN : TimerStart(t, d, repeat)
    <3>1. PICK d \in Ticks, repeat \in BOOLEAN : TimerStart(t, d, repeat)
      BY <2>2
    <3> QED
      BY <3>1, StartKeeps
  <2> QED
    BY <2>1, <2>2, CreateKeeps, StopKeeps, ReleaseKeeps
<1>3. CASE Tick
  BY <1>3, TickKeeps
<1>4. CASE HwRunOut
  BY <1>4, HwRunOutKeeps
<1>5. CASE \E d \in Ticks : Sleep(d)
  BY <1>5, SleepKeeps
<1>6. CASE Enter \/ ClearIrq \/ Disable
  BY <1>6, EnterKeeps
<1>7. CASE Compare \/ Clamp
  BY <1>7, CompareKeeps
<1>8. CASE Pick \/ NothingDue
  BY <1>8, PickKeeps, NothingDueKeeps
<1>9. CASE Return \/ Relink \/ Leave
  BY <1>9, ReturnKeeps, RelinkKeeps, LeaveKeeps
<1> QED
  BY <1>1, <1>2, <1>3, <1>4, <1>5, <1>6, <1>7, <1>8, <1>9 DEF Next, Handler

LEMMA Inductive == ASSUME StartsOneShots PROVE Spec => []IInv
<1>1. IInv /\ [Next]_vars => IInv'
  BY NextKeeps
<1> QED
  BY InitHolds, <1>1, PTL DEF Spec

(* The list stays ordered and no wakeup is lost, for any timers, delays,   *)
(* loads and interleaving, provided that what callbacks and interrupts     *)
(* start while the handler runs is never a repeating timer.                *)
THEOREM NoWakeupLost == ASSUME StartsOneShots PROVE Spec => []Inv
<1>1. IInv => Inv
  <2> SUFFICES ASSUME IInv PROVE Inv
    OBVIOUS
  <2>1. Armed
    BY DEF IInv, Hardware, Waits, HwReady, Armed
  <2>2. NoDangling
    BY DEF IInv, Serving, NoDangling
  <2> QED
    BY <2>1, <2>2 DEF IInv, Inv
<1> QED
  BY Inductive, <1>1, PTL

-----------------------------------------------------------------------------
(***************************************************************************)
(* Stopping is final.                                                      *)
(***************************************************************************)
StoppedOneShots == \A t \in InHandlerStop : add[t] = 0

SInv == StopIsFinal /\ StoppedOneShots

LEMMA StopNext ==
  ASSUME StopsOneShots, IInv, IInv', SInv, [Next]_vars
  PROVE  SInv'
<1>0. /\ InHandlerStop \subseteq Timers /\ add \in [Timers -> Nat]
      /\ Linked \subseteq alive /\ stopped \subseteq Timers
  BY Sizes, Types DEF IInv, TypeOK
<1>1. CASE \E t \in Timers : TimerCreate(t)
  <2>1. PICK t \in Timers : TimerCreate(t)
    BY <1>1
  <2>2. /\ pc' = "idle" /\ stopped' = stopped \ {t} /\ list' = list
        /\ add' = [add EXCEPT ![t] = 0]
    BY <2>1 DEF TimerCreate
  <2> QED
    BY <1>0, <2>2 DEF SInv, StopIsFinal, StoppedOneShots, Linked
<1>2. CASE \E t \in Timers, d \in Ticks, repeat \in BOOLEAN : TimerStart(t, d, repeat)
  <2>1. PICK t \in Timers, d \in Ticks, repeat \in BOOLEAN : TimerStart(t, d, repeat)
    BY <1>2
  <2>2. /\ <<t, repeat>> \in Usage /\ stopped' = stopped \ {t} /\ pc' = pc /\ cur' = cur
        /\ add' = [add EXCEPT ![t] = IF repeat THEN d ELSE 0]
    BY <2>1 DEF TimerStart, Period
  <2>3. Linked' = Linked \union {t}
    BY <2>1, StartLinks
  <2>4. \A u \in Timers : u # t => add'[u] = add[u]
    BY <1>0, <2>2
  <2>5. t \in InHandlerStop => add'[t] = 0
    <3> SUFFICES ASSUME t \in InHandlerStop PROVE add'[t] = 0
      OBVIOUS
    <3>1. <<t, TRUE>> \notin Usage
      BY DEF StopsOneShots
    <3>2. repeat # TRUE
      BY <2>2, <3>1
    <3> QED
      BY <1>0, <2>2, <3>2
  <2>6. StoppedOneShots'
    BY <1>0, <2>4, <2>5 DEF SInv, StoppedOneShots
  <2>7. StopIsFinal'
    BY <1>0, <2>2, <2>3, <2>4 DEF SInv, StopIsFinal
  <2> QED
    BY <2>6, <2>7 DEF SInv
<1>3. CASE \E t \in Timers : TimerStop(t) \/ TimerRelease(t)
  <2>1. PICK t \in Timers : TimerStop(t) \/ TimerRelease(t)
    BY <1>3
  <2>2. /\ StopBody(t) /\ UNCHANGED <<now, pc>>
        /\ pc = "idle" \/ t \in InHandlerStop
        /\ stopped' = stopped \union {t} /\ pc' = pc /\ cur' = cur /\ add' = add
    BY <2>1 DEF TimerStop, TimerRelease, StopBody
  <2>3. Linked' = Linked \ {t}
    BY <2>2, StopBodyKeeps
  <2>4. pc # "idle" => add[t] = 0
    BY <2>2 DEF SInv, StoppedOneShots
  <2>5. pc = "relink" => add[cur] # 0
    BY DEF IInv, Serving
  <2> QED
    BY <2>2, <2>3, <2>4, <2>5 DEF SInv, StopIsFinal, StoppedOneShots
<1>4. CASE Pick
  <2>1. cur' \in Linked /\ Linked' = Linked \ {cur'}
    BY <1>4, PickUnlinks
  <2>2. pc' = "call" /\ stopped' = stopped /\ add' = add
    BY <1>4 DEF Pick, Goto, clientVars
  <2> QED
    BY <2>1, <2>2 DEF SInv, StopIsFinal, StoppedOneShots
<1>5. CASE Relink
  <2>1. Linked' = Linked \union {cur} /\ pc = "relink"
    BY <1>5, RelinkLinks DEF Relink, Goto
  <2>2. pc' = "pick" /\ stopped' = stopped /\ add' = add
    BY <1>5 DEF Relink, Goto, clientVars
  <2> QED
    BY <2>1, <2>2 DEF SInv, StopIsFinal, StoppedOneShots
<1>6. CASE Return
  <2>1. /\ pc = "call" /\ pc' = (IF add[cur] # 0 THEN "relink" ELSE "pick") /\ cur' = cur
        /\ list' = list /\ stopped' = stopped /\ add' = add
    BY <1>6 DEF Return, listVars, clientVars
  <2> QED
    BY <2>1 DEF SInv, StopIsFinal, StoppedOneShots, Linked
<1>7. CASE Enter \/ ClearIrq \/ Disable \/ Compare \/ Clamp \/ NothingDue \/ Leave
  <2>1. /\ pc' \notin {"call", "relink"}
        /\ list' = list /\ stopped' = stopped /\ add' = add
    BY <1>7 DEF Enter, ClearIrq, Disable, Compare, Clamp, NothingDue, Leave, Goto,
                listVars, clientVars
  <2> QED
    BY <2>1 DEF SInv, StopIsFinal, StoppedOneShots, Linked
<1>8. CASE Tick \/ HwRunOut \/ UNCHANGED vars
  <2>1. pc' = pc /\ cur' = cur /\ list' = list /\ stopped' = stopped /\ add' = add
    BY <1>8 DEF Tick, HwRunOut, vars, listVars, clientVars
  <2> QED
    BY <2>1 DEF SInv, StopIsFinal, StoppedOneShots, Linked
<1>9. CASE \E d \in Ticks : Sleep(d)
  <2>1. /\ pc' \in {"idle", "eoi"}
        /\ list' = list /\ stopped' = stopped /\ add' = add
    BY <1>9 DEF Sleep, listVars
  <2> QED
    BY <2>1 DEF SInv, StopIsFinal, StoppedOneShots, Linked
<1> QED
  BY <1>1, <1>2, <1>3, <1>4, <1>5, <1>6, <1>7, <1>8, <1>9 DEF Next, Client, Handler

(* What is stopped stays stopped, even by a callback or an interrupt in    *)
(* the middle of the handler, as long as none of those touches a repeating *)
(* timer; the soft keyboard shows what happens when one does.              *)
THEOREM StoppedStays ==
  ASSUME StartsOneShots, StopsOneShots PROVE Spec => []StopIsFinal
<1>1. Init => SInv
  BY Sizes DEF Init, SInv, StopIsFinal, StoppedOneShots
<1>2. IInv /\ IInv' /\ SInv /\ [Next]_vars => SInv'
  BY StopNext
<1>3. SInv => StopIsFinal
  BY DEF SInv
<1> QED
  BY Inductive, <1>1, <1>2, <1>3, PTL DEF Spec

-----------------------------------------------------------------------------
(***************************************************************************)
(* The promise: what the list is to its clients.                           *)
(***************************************************************************)
Asked == [t \in Timers |-> IF t \in Linked THEN target[t] ELSE None]

Called == IF pc = "call" THEN cur ELSE None

LEMMA Moving ==
  ASSUME IInv, NoteRearm
  PROVE  rearmed' \in {rearmed, TRUE}
BY Types DEF NoteRearm

(* One timer is asked for, at an instant.                                  *)
LEMMA AskStep ==
  ASSUME NEW t \in Timers, Linked' = Linked \union {t}, target'[t] \in Nat,
         \A u \in Timers : u # t => target'[u] = target[u],
         Called' = Called, rearmed' \in {rearmed, TRUE}, now' = now
  PROVE  Promise!PromiseNext
<1>1. Asked'[t] \in Nat
  BY DEF Asked
<1>2. Asked' = [Asked EXCEPT ![t] = Asked'[t]]
  BY DEF Asked
<1>3. Promise!Ask(t)
  BY <1>1, <1>2 DEF Promise!Ask, Promise!Request, Asked, Called
<1> QED
  BY <1>3 DEF Promise!PromiseNext

(* One is taken back, or was not asked for.                                *)
LEMMA WithdrawStep ==
  ASSUME NEW t \in Timers, Linked' = Linked \ {t}, target' = target,
         Called' = Called, rearmed' \in {rearmed, TRUE}, now' = now
  PROVE  Promise!PromiseNext
<1>1. Asked' = [Asked EXCEPT ![t] = None]
  BY DEF Asked
<1>2. Promise!Withdraw(t)
  BY <1>1 DEF Promise!Withdraw, Promise!Cancel, Asked, Called
<1> QED
  BY <1>2 DEF Promise!PromiseNext

(* A callback is early only if a call moved NextTick.                      *)
LEMMA ServeStep == ASSUME IInv, Pick PROVE Promise!PromiseNext
<1>0. cur' \in Timers
  BY PickUnlinks
<1>1. PICK t \in Timers : /\ t = cur'
      /\ t \in Linked /\ t \in Timers /\ target[t] <= nextTick
      /\ Linked' = Linked \ {t}
  BY <1>0, PickUnlinks
<1>2. /\ pc = "pick" /\ pc' = "call" /\ target' = target /\ now' = now
      /\ rearmed' = rearmed
  BY DEF Pick, Goto
<1>3. Called = None /\ Called' = t
  BY <1>1, <1>2 DEF Called
<1>4. Asked[t] = target[t] /\ target[t] \in Nat /\ Asked[t] # None
  BY <1>1, Types, Sizes DEF Asked
<1>5. Asked' = [Asked EXCEPT ![t] = None]
  BY <1>1, <1>2 DEF Asked
<1>6. nextTick <= now \/ rearmed
  BY <1>2 DEF IInv, Hardware, Passed
<1>7. CASE nextTick <= now
  <2>1. Asked[t] <= now
    BY <1>1, <1>4, <1>7, Types
  <2>2. Promise!Serve(t)
    BY <1>2, <1>3, <1>4, <1>5, <2>1 DEF Promise!Serve, Promise!Expire, Asked, Called
  <2> QED
    BY <1>1, <2>2 DEF Promise!PromiseNext
<1>8. CASE rearmed
  <2>1. Promise!ServeEarly(t)
    BY <1>2, <1>3, <1>4, <1>5, <1>8 DEF Promise!ServeEarly, Promise!Cancel, Asked, Called
  <2> QED
    BY <1>1, <2>1 DEF Promise!PromiseNext
<1> QED
  BY <1>6, <1>7, <1>8

LEMMA ReturnStep == ASSUME IInv, Return PROVE Promise!PromiseNext
<1>1. /\ pc = "call" /\ pc' # "call" /\ list' = list /\ target' = target
      /\ now' = now /\ rearmed' = rearmed
  BY DEF Return, listVars
<1>2. Called # None /\ Called' = None
  BY <1>1, Sizes DEF Called, IInv, TypeOK, Serving
<1>3. Asked' = Asked
  BY <1>1 DEF Asked, Linked
<1>4. Promise!Served
  BY <1>1, <1>2, <1>3 DEF Promise!Served, Asked, Called
<1> QED
  BY <1>4 DEF Promise!PromiseNext

LEMMA LeaveStep == ASSUME IInv, Leave PROVE Promise!PromiseNext
<1>1. /\ pc = "next" /\ pc' = "idle" /\ list' = list /\ target' = target
      /\ now' = now /\ rearmed' = FALSE
  BY DEF Leave, Goto, listVars
<1>2. Called = None /\ Called' = None
  BY <1>1 DEF Called
<1>3. Asked' = Asked
  BY <1>1 DEF Asked, Linked
<1>4. Promise!Settle
  BY <1>1, <1>2, <1>3 DEF Promise!Settle, Asked, Called
<1> QED
  BY <1>4 DEF Promise!PromiseNext

(* The clock goes on, or nothing the clients see changes.                  *)
LEMMA ElapseStep ==
  ASSUME IInv, now' \in Nat, now' >= now, list' = list, target' = target,
         Called' = Called, rearmed' = rearmed
  PROVE  [Promise!PromiseNext]_(Promise!promiseVars)
<1>1. Asked' = Asked
  BY DEF Asked, Linked
<1>2. CASE now' = now
  BY <1>1, <1>2 DEF Promise!promiseVars, Asked, Called
<1>3. CASE now' > now
  <2>1. Promise!Elapse
    BY <1>1, <1>3 DEF Promise!Elapse, Asked, Called
  <2> QED
    BY <2>1 DEF Promise!PromiseNext
<1> QED
  BY <1>2, <1>3, Types

LEMMA StepPromise ==
  ASSUME IInv, [Next]_vars
  PROVE  [Promise!PromiseNext]_(Promise!promiseVars)
<1>1. CASE \E t \in Timers : TimerCreate(t)
  <2>1. PICK t \in Timers : TimerCreate(t)
    BY <1>1
  <2>2. /\ pc = "idle" /\ pc' = "idle" /\ t \notin Linked /\ Linked' = Linked
        /\ now' = now /\ rearmed' = rearmed /\ target' = [target EXCEPT ![t] = 0]
    BY <2>1 DEF TimerCreate, IInv, Linked
  <2>3. Asked' = Asked /\ Called' = Called
    BY <2>2, Types DEF Asked, Called
  <2> QED
    BY <2>2, <2>3 DEF Promise!promiseVars, Asked, Called
<1>2. CASE \E t \in Timers, d \in Ticks, repeat \in BOOLEAN : TimerStart(t, d, repeat)
  <2>1. PICK t \in Timers, d \in Ticks, repeat \in BOOLEAN : TimerStart(t, d, repeat)
    BY <1>2
  <2>2. now' = now /\ pc' = pc /\ cur' = cur /\ NoteRearm
    BY <2>1 DEF TimerStart
  <2>3. /\ Linked' = Linked \union {t} /\ target'[t] = now + d
        /\ \A u \in Timers : u # t => target'[u] = target[u]
    BY <2>1, StartLinks
  <2>4. target'[t] \in Nat
    BY <2>3, Types, Sizes
  <2>5. Called' = Called
    BY <2>2 DEF Called
  <2> QED
    BY <2>2, <2>3, <2>4, <2>5, Moving, AskStep
<1>3. CASE \E t \in Timers : TimerStop(t) \/ TimerRelease(t)
  <2>1. PICK t \in Timers : TimerStop(t) \/ TimerRelease(t)
    BY <1>3
  <2>2. /\ StopBody(t) /\ UNCHANGED <<now, pc>> /\ NoteRearm
        /\ now' = now /\ pc' = pc /\ cur' = cur /\ target' = target
    BY <2>1 DEF TimerStop, TimerRelease, StopBody
  <2>3. Linked' = Linked \ {t}
    BY <2>2, StopBodyKeeps
  <2>4. Called' = Called
    BY <2>2 DEF Called
  <2> QED
    BY <2>2, <2>3, <2>4, Moving, WithdrawStep
<1>4. CASE Pick
  BY <1>4, ServeStep
<1>5. CASE Relink
  <2>1. /\ cur \in Timers /\ NextDue(cur) \in Nat /\ target'[cur] = NextDue(cur)
        /\ \A u \in Timers : u # cur => target'[u] = target[u]
        /\ Linked' = Linked \union {cur}
    BY <1>5, RelinkLinks
  <2>2. now' = now /\ pc = "relink" /\ pc' = "pick" /\ rearmed' = rearmed
    BY <1>5 DEF Relink, Goto
  <2>3. Called' = Called
    BY <2>2 DEF Called
  <2> QED
    BY <2>1, <2>2, <2>3, AskStep
<1>6. CASE Return
  BY <1>6, ReturnStep
<1>7. CASE Leave
  BY <1>7, LeaveStep
<1>8. CASE \/ Enter \/ ClearIrq \/ Disable \/ Compare \/ Clamp \/ NothingDue
           \/ HwRunOut \/ UNCHANGED vars
  <2>1. /\ pc = "call" <=> pc' = "call"
        /\ now' = now /\ cur' = cur /\ list' = list /\ target' = target
        /\ rearmed' = rearmed
    BY <1>8 DEF Enter, ClearIrq, Disable, Compare, Clamp, NothingDue, HwRunOut, Goto, vars,
                listVars
  <2>2. Called' = Called
    BY <2>1 DEF Called
  <2>3. now' \in Nat /\ now' >= now
    BY <2>1, Types
  <2> QED
    BY <2>1, <2>2, <2>3, ElapseStep
<1>9. CASE Tick \/ \E d \in Ticks : Sleep(d)
  <2>1. /\ pc = "call" <=> pc' = "call"
        /\ cur' = cur /\ list' = list /\ target' = target /\ rearmed' = rearmed
    <3>1. CASE Tick
      BY <3>1 DEF Tick, listVars
    <3>2. ASSUME NEW d \in Ticks, Sleep(d)
          PROVE  /\ pc = "idle" /\ pc' \in {"idle", "eoi"}
                 /\ cur' = cur /\ list' = list /\ target' = target /\ rearmed' = rearmed
      BY <3>2 DEF Sleep, listVars
    <3> QED
      BY <1>9, <3>1, <3>2
  <2>2. Called' = Called
    BY <2>1 DEF Called
  <2>3. now' \in Nat /\ now' >= now
    <3>1. CASE Tick
      BY <3>1, Types DEF Tick
    <3>2. ASSUME NEW d \in Ticks, Sleep(d) PROVE now' \in Nat /\ now' >= now
      BY <3>2, Types, Sizes DEF Sleep
    <3> QED
      BY <1>9, <3>1, <3>2
  <2> QED
    BY <2>1, <2>2, <2>3, ElapseStep
<1> QED
  BY <1>1, <1>2, <1>3, <1>4, <1>5, <1>6, <1>7, <1>8, <1>9 DEF Next, Client, Handler

LEMMA InitPromise == Init => Promise!PromiseInit
<1> SUFFICES ASSUME Init PROVE Promise!PromiseInit
  OBVIOUS
<1>1. Linked = {} /\ now = 1 /\ pc = "idle" /\ rearmed = FALSE
  BY DEF Init, Linked, ToSet
<1>2. Asked = [t \in Timers |-> None] /\ Called = None
  BY <1>1 DEF Asked, Called
<1> QED
  BY <1>1, <1>2 DEF Promise!PromiseInit, Asked, Called

(* Every step of the timers is one their promise allows: a request is      *)
(* honoured by one callback, none is called that is not asked for, and     *)
(* none too early unless a call moved NextTick.  That a request is         *)
(* honoured at all, the fairness part, is for the run.                     *)
THEOREM TimersAsPromised ==
  ASSUME StartsOneShots
  PROVE  Spec => Promise!PromiseInit /\ [][Promise!PromiseNext]_(Promise!promiseVars)
<1>1. IInv /\ [Next]_vars => [Promise!PromiseNext]_(Promise!promiseVars)
  BY StepPromise
<1> QED
  BY Inductive, InitPromise, <1>1, PTL DEF Spec
=============================================================================
