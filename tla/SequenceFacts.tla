---------------------------- MODULE SequenceFacts ----------------------------
(***************************************************************************)
(* What Append, Head and Tail do to the elements of a sequence: which there *)
(* are, whether one of a kind is there twice, and how many there are.       *)
(* Queues, pipes and mailboxes are used through these facts.  The last part *)
(* is about functions computed step by step, as loops over lists are.       *)
(***************************************************************************)
EXTENDS Integers, Sequences, FiniteSets, Functions, FiniteSetTheorems, FunctionTheorems,
        SequenceTheorems, WellFoundedInduction, TLAPS

LEMMA EmptyRange == Range(<<>>) = {} /\ \A S : <<>> \in Seq(S)
  BY DEF Range

LEMMA AppendRange ==
  ASSUME NEW S, NEW seq \in Seq(S), NEW m \in S
  PROVE  /\ Append(seq, m) \in Seq(S)
         /\ Range(Append(seq, m)) = Range(seq) \cup {m}
<1>1. Append(seq, m) \in Seq(S) /\ DOMAIN Append(seq, m) = 1..(Len(seq) + 1)
  OBVIOUS
<1>2. /\ \A i \in 1..Len(seq) : Append(seq, m)[i] = seq[i]
      /\ Append(seq, m)[Len(seq) + 1] = m
  OBVIOUS
<1>3. DOMAIN seq = 1..Len(seq) /\ Len(seq) \in Nat
  OBVIOUS
<1>4. DOMAIN Append(seq, m) = DOMAIN seq \cup {Len(seq) + 1}
  BY <1>1, <1>3
<1> QED BY <1>1, <1>2, <1>3, <1>4 DEF Range

LEMMA TailRange ==
  ASSUME NEW S, NEW seq \in Seq(S), seq # <<>>
  PROVE  /\ Tail(seq) \in Seq(S)
         /\ Head(seq) \in S /\ Head(seq) \in Range(seq)
         /\ Range(Tail(seq)) \subseteq Range(seq)
         /\ \A m \in Range(seq) : m = Head(seq) \/ m \in Range(Tail(seq))
<1>1. Tail(seq) \in Seq(S) /\ Head(seq) = seq[1] /\ 1 \in DOMAIN seq /\ Head(seq) \in S
  OBVIOUS
<1>2. \A i \in 1..Len(Tail(seq)) : i + 1 \in DOMAIN seq /\ Tail(seq)[i] = seq[i + 1]
  OBVIOUS
<1>3. DOMAIN Tail(seq) = 1..Len(Tail(seq))
  OBVIOUS
<1>4. \A i \in DOMAIN seq : i # 1 => i - 1 \in 1..Len(Tail(seq)) /\ Tail(seq)[i - 1] = seq[i]
  OBVIOUS
<1>5. ASSUME NEW m \in Range(seq) PROVE m = Head(seq) \/ m \in Range(Tail(seq))
  <2>1. PICK i \in DOMAIN seq : m = seq[i]
    BY DEF Range
  <2>2. i # 1 => i - 1 \in DOMAIN Tail(seq) /\ m = Tail(seq)[i - 1]
    BY <1>3, <1>4, <2>1
  <2> QED BY <1>1, <2>1, <2>2 DEF Range
<1>6. Range(Tail(seq)) \subseteq Range(seq) /\ Head(seq) \in Range(seq)
  BY <1>1, <1>2, <1>3 DEF Range
<1> QED BY <1>1, <1>5, <1>6

LEMMA RangeTyped ==
  ASSUME NEW S, NEW seq \in Seq(S)
  PROVE  Range(seq) \subseteq S
  BY DEF Range

-----------------------------------------------------------------------------
(* At most one element is of a kind.                                        *)
Once(seq, P) == \A i, j \in 1..Len(seq) : seq[i] \in P /\ seq[j] \in P => i = j

LEMMA AppendOnce ==
  ASSUME NEW S, NEW P, NEW seq \in Seq(S), NEW m \in S, Once(seq, P), m \notin P \/ Range(seq) \cap P = {}
  PROVE  Once(Append(seq, m), P)
<1>1. /\ Len(Append(seq, m)) = Len(seq) + 1 /\ Len(seq) \in Nat
      /\ \A i \in 1..Len(seq) : Append(seq, m)[i] = seq[i] /\ seq[i] \in Range(seq)
      /\ Append(seq, m)[Len(seq) + 1] = m
  BY DEF Range
<1>2. ASSUME NEW i \in 1..(Len(seq) + 1), NEW j \in 1..(Len(seq) + 1),
             Append(seq, m)[i] \in P, Append(seq, m)[j] \in P
      PROVE  i = j
  <2>1. (i \in 1..Len(seq) \/ i = Len(seq) + 1) /\ (j \in 1..Len(seq) \/ j = Len(seq) + 1)
    BY <1>1
  <2>2. CASE i \in 1..Len(seq) /\ j \in 1..Len(seq)
    BY <1>1, <1>2, <2>2 DEF Once
  <2>3. i \in 1..Len(seq) => Range(seq) \cap P # {}
    BY <1>1, <1>2
  <2>4. j \in 1..Len(seq) => Range(seq) \cap P # {}
    BY <1>1, <1>2
  <2>5. (i = Len(seq) + 1 \/ j = Len(seq) + 1) => m \in P
    BY <1>1, <1>2
  <2> QED BY <2>1, <2>2, <2>3, <2>4, <2>5
<1> QED BY <1>1, <1>2 DEF Once

LEMMA TailOnce ==
  ASSUME NEW S, NEW P, NEW seq \in Seq(S), seq # <<>>, Once(seq, P)
  PROVE  Once(Tail(seq), P) /\ (Head(seq) \in P => Range(Tail(seq)) \cap P = {})
<1>1. /\ Len(Tail(seq)) = Len(seq) - 1 /\ Len(seq) \in Nat \ {0} /\ Head(seq) = seq[1]
      /\ \A i \in 1..(Len(seq) - 1) : Tail(seq)[i] = seq[i + 1]
  OBVIOUS
<1>2. Range(Tail(seq)) = {Tail(seq)[i] : i \in 1..(Len(seq) - 1)}
  <2>1. DOMAIN Tail(seq) = 1..(Len(seq) - 1)
    BY <1>1
  <2> QED BY <2>1 DEF Range
<1>3. Once(Tail(seq), P)
  BY <1>1 DEF Once
<1>4. ASSUME NEW i \in 1..(Len(seq) - 1), Head(seq) \in P
      PROVE  Tail(seq)[i] \notin P
  <2>1. 1 \in 1..Len(seq) /\ i + 1 \in 1..Len(seq) /\ i + 1 # 1
    BY <1>1
  <2> QED BY <1>1, <1>4, <2>1 DEF Once
<1> QED BY <1>2, <1>3, <1>4

(* Where elements of a kind are, and how many places that makes.            *)
PlacesOf(seq, P) == {i \in DOMAIN seq : seq[i] \in P}

LEMMA PlacesFinite == ASSUME NEW S, NEW P, NEW seq \in Seq(S)
                      PROVE IsFiniteSet(PlacesOf(seq, P)) /\ Cardinality(PlacesOf(seq, P)) \in Nat
<1>1. PlacesOf(seq, P) \subseteq 1..Len(seq) /\ Len(seq) \in Nat
  BY DEF PlacesOf
<1>2. IsFiniteSet(1..Len(seq))
  BY <1>1, FS_Interval
<1>3. IsFiniteSet(PlacesOf(seq, P))
  BY <1>1, <1>2, FS_Subset
<1> QED BY <1>3, FS_CardinalityType

LEMMA AppendPlaces ==
  ASSUME NEW S, NEW P, NEW seq \in Seq(S), NEW m \in S
  PROVE  Cardinality(PlacesOf(Append(seq, m), P))
           = IF m \in P THEN Cardinality(PlacesOf(seq, P)) + 1 ELSE Cardinality(PlacesOf(seq, P))
<1>1. /\ DOMAIN Append(seq, m) = 1..(Len(seq) + 1) /\ Len(seq) \in Nat /\ DOMAIN seq = 1..Len(seq)
      /\ \A i \in 1..Len(seq) : Append(seq, m)[i] = seq[i]
      /\ Append(seq, m)[Len(seq) + 1] = m
  OBVIOUS
<1>2. \A i \in 1..(Len(seq) + 1) : i \in 1..Len(seq) \/ i = Len(seq) + 1
  BY <1>1
<1>3. 1..Len(seq) \subseteq 1..(Len(seq) + 1) /\ Len(seq) + 1 \in 1..(Len(seq) + 1)
      /\ Len(seq) + 1 \notin 1..Len(seq)
  BY <1>1
<1>4. CASE m \in P
  <2>1. PlacesOf(Append(seq, m), P) = PlacesOf(seq, P) \cup {Len(seq) + 1} /\ Len(seq) + 1 \notin PlacesOf(seq, P)
    BY <1>1, <1>2, <1>3, <1>4 DEF PlacesOf
  <2> QED BY <1>4, <2>1, PlacesFinite, FS_AddElement
<1>5. CASE m \notin P
  <2>1. PlacesOf(Append(seq, m), P) = PlacesOf(seq, P)
    BY <1>1, <1>2, <1>3, <1>5 DEF PlacesOf
  <2> QED BY <1>5, <2>1
<1> QED BY <1>4, <1>5

LEMMA TailPlaces ==
  ASSUME NEW S, NEW P, NEW seq \in Seq(S), seq # <<>>
  PROVE  Cardinality(PlacesOf(Tail(seq), P))
           = IF Head(seq) \in P THEN Cardinality(PlacesOf(seq, P)) - 1 ELSE Cardinality(PlacesOf(seq, P))
<1> DEFINE Rest == PlacesOf(seq, P) \ {1}
           shift == [i \in PlacesOf(Tail(seq), P) |-> i + 1]
<1>1. /\ DOMAIN Tail(seq) = 1..(Len(seq) - 1) /\ Len(seq) \in Nat \ {0} /\ DOMAIN seq = 1..Len(seq)
      /\ \A i \in 1..(Len(seq) - 1) : Tail(seq)[i] = seq[i + 1]
      /\ Head(seq) = seq[1] /\ Tail(seq) \in Seq(S)
  OBVIOUS
<1>2. \A i \in 1..(Len(seq) - 1) : i + 1 \in 1..Len(seq) /\ i + 1 # 1
  BY <1>1
<1>3. \A j \in 1..Len(seq) : j # 1 => j - 1 \in 1..(Len(seq) - 1) /\ (j - 1) + 1 = j
  BY <1>1
<1>4. shift \in [PlacesOf(Tail(seq), P) -> Rest]
  BY <1>1, <1>2 DEF PlacesOf
<1>5. \A i, j \in PlacesOf(Tail(seq), P) : shift[i] = shift[j] => i = j
  BY <1>1 DEF PlacesOf
<1>6. \A j \in Rest : \E i \in PlacesOf(Tail(seq), P) : shift[i] = j
  <2> SUFFICES ASSUME NEW j \in Rest PROVE \E i \in PlacesOf(Tail(seq), P) : shift[i] = j
    OBVIOUS
  <2>1. j - 1 \in 1..(Len(seq) - 1) /\ (j - 1) + 1 = j
    BY <1>1, <1>3 DEF PlacesOf
  <2>2. j - 1 \in PlacesOf(Tail(seq), P)
    BY <1>1, <2>1 DEF PlacesOf
  <2> QED BY <2>1, <2>2
<1>7. ExistsBijection(PlacesOf(Tail(seq), P), Rest)
  <2> HIDE DEF Rest, shift
  <2>1. shift \in Bijection(PlacesOf(Tail(seq), P), Rest)
    BY <1>4, <1>5, <1>6, Fun_IsBij
  <2> QED BY <2>1 DEF ExistsBijection
<1>8. Cardinality(Rest) = Cardinality(PlacesOf(Tail(seq), P))
  <2> HIDE DEF Rest
  <2> QED BY <1>1, <1>7, PlacesFinite, FS_Bijection
<1>9. CASE Head(seq) \in P
  <2>1. 1 \in PlacesOf(seq, P)
    BY <1>1, <1>9 DEF PlacesOf
  <2>2. Cardinality(Rest) = Cardinality(PlacesOf(seq, P)) - 1
    BY <2>1, PlacesFinite, FS_RemoveElement
  <2> QED BY <1>8, <1>9, <2>2
<1>10. CASE Head(seq) \notin P
  <2>1. Rest = PlacesOf(seq, P)
    BY <1>1, <1>10 DEF PlacesOf
  <2> QED BY <1>8, <1>10, <2>1
<1> QED BY <1>9, <1>10
-----------------------------------------------------------------------------
(* The last element of a kind, where a later one takes the place of those    *)
(* before it.                                                               *)
Lacks(seq, P) == \A i \in DOMAIN seq : seq[i] \notin P
LastIn(seq, P, Q) ==
  \A i \in DOMAIN seq :
    seq[i] \in P /\ (\A j \in DOMAIN seq : i < j => seq[j] \notin P) => seq[i] \in Q

LEMMA NoneLast == ASSUME NEW seq, NEW P, NEW Q, Lacks(seq, P) PROVE LastIn(seq, P, Q)
  BY DEF Lacks, LastIn

LEMMA LastAppended ==
  ASSUME NEW S, NEW seq \in Seq(S), NEW m \in S, NEW P, NEW Q
  PROVE  /\ m \in P => ~Lacks(Append(seq, m), P) /\ (m \in Q => LastIn(Append(seq, m), P, Q))
         /\ m \notin P /\ Lacks(Append(seq, m), P) => Lacks(seq, P)
         /\ m \notin P /\ LastIn(seq, P, Q) => LastIn(Append(seq, m), P, Q)
         /\ ~Lacks(seq, P) => ~Lacks(Append(seq, m), P)
<1> DEFINE longer == Append(seq, m)
<1>1. DOMAIN longer = 1..(Len(seq) + 1) /\ DOMAIN seq = 1..Len(seq) /\ Len(seq) \in Nat
  OBVIOUS
<1>2. \A i \in 1..Len(seq) : longer[i] = seq[i]
  OBVIOUS
<1>3. longer[Len(seq) + 1] = m
  OBVIOUS
<1> HIDE DEF longer
<1>4. m \in P => ~Lacks(longer, P)
  BY <1>1, <1>3 DEF Lacks
<1>5. ~Lacks(seq, P) => ~Lacks(longer, P)
  BY <1>1, <1>2 DEF Lacks
<1>6. m \in P /\ m \in Q => LastIn(longer, P, Q)
  <2> SUFFICES ASSUME m \in P, m \in Q, NEW i \in DOMAIN longer,
                      \A j \in DOMAIN longer : i < j => longer[j] \notin P
               PROVE  longer[i] \in Q
    BY DEF LastIn
  <2>1. ~(i < Len(seq) + 1)
    BY <1>1, <1>3
  <2>2. i = Len(seq) + 1
    BY <1>1, <2>1
  <2> QED BY <1>3, <2>2
<1>7. m \notin P /\ LastIn(seq, P, Q) => LastIn(longer, P, Q)
  <2> SUFFICES ASSUME m \notin P, LastIn(seq, P, Q), NEW i \in DOMAIN longer, longer[i] \in P,
                      \A j \in DOMAIN longer : i < j => longer[j] \notin P
               PROVE  longer[i] \in Q
    BY DEF LastIn
  <2>1. i \in DOMAIN seq
    BY <1>1, <1>3
  <2>2. \A j \in DOMAIN seq : i < j => seq[j] \notin P
    BY <1>1, <1>2
  <2> QED BY <1>1, <1>2, <2>1, <2>2 DEF LastIn
<1> QED BY <1>4, <1>5, <1>6, <1>7 DEF longer

LEMMA LastTaken ==
  ASSUME NEW S, NEW seq \in Seq(S), seq # <<>>, NEW P, NEW Q, LastIn(seq, P, Q)
  PROVE  /\ LastIn(Tail(seq), P, Q)
         /\ Lacks(Tail(seq), P) => Lacks(seq, P) \/ Head(seq) \in P \cap Q
<1> DEFINE rest == Tail(seq)
<1>1. DOMAIN rest = 1..(Len(seq) - 1) /\ DOMAIN seq = 1..Len(seq) /\ Len(seq) \in Nat \ {0}
      /\ Head(seq) = seq[1]
  OBVIOUS
<1>2. \A i \in 1..(Len(seq) - 1) : rest[i] = seq[i + 1]
  OBVIOUS
<1> HIDE DEF rest
<1>3. \A j \in 1..Len(seq) : j # 1 => (j - 1) \in 1..(Len(seq) - 1) /\ rest[j - 1] = seq[j]
  BY <1>1, <1>2
<1>4. LastIn(rest, P, Q)
  <2> SUFFICES ASSUME NEW i \in DOMAIN rest, rest[i] \in P,
                      \A j \in DOMAIN rest : i < j => rest[j] \notin P
               PROVE  rest[i] \in Q
    BY DEF LastIn
  <2>1. (i + 1) \in DOMAIN seq /\ seq[i + 1] = rest[i] /\ i \in Nat
    BY <1>1, <1>2
  <2>2. \A j \in DOMAIN seq : i + 1 < j => seq[j] \notin P
    BY <1>1, <1>3, <2>1
  <2> QED BY <2>1, <2>2 DEF LastIn
<1>5. ASSUME Lacks(rest, P), ~Lacks(seq, P) PROVE Head(seq) \in P \cap Q
  <2>1. \A j \in DOMAIN seq : 1 < j => seq[j] \notin P
    BY <1>1, <1>3, <1>5 DEF Lacks
  <2>2. seq[1] \in P
    BY <1>1, <1>5, <2>1 DEF Lacks
  <2> QED BY <1>1, <2>1, <2>2 DEF LastIn
<1> QED BY <1>4, <1>5 DEF rest

-----------------------------------------------------------------------------
(* Functions computed step by step: what each step keeps holds after all of  *)
(* them, and there is such a function.  The library's induction theorems     *)
(* take an operator; these take a set of steps, from the least one missing.  *)
LEMMA Least ==
  ASSUME NEW T \in SUBSET Nat, T # {}
  PROVE  \E x \in T : \A y \in T : x <= y
<1>1. PICK x \in T : \A y \in T : ~(<<y, x>> \in OpToRel(<, Nat))
  BY NatLessThanWellFounded, WFMin
<1>2. \A y \in T : y < x => <<y, x>> \in OpToRel(<, Nat)
  BY DEF OpToRel
<1>3. \A y \in T : ~(y < x) /\ y \in Nat /\ x \in Nat
  BY <1>1, <1>2
<1> QED BY <1>3

LEMMA EveryStep ==
  ASSUME NEW N \in Nat, NEW G, 0 \in G, \A n \in 1..N : n - 1 \in G => n \in G
  PROVE  N \in G /\ 0..N \subseteq G
<1> DEFINE T == (0..N) \ G
<1>1. SUFFICES ASSUME T # {} PROVE FALSE
  <2>1. N \in 0..N
    OBVIOUS
  <2> QED BY <2>1
<1>2. T \in SUBSET Nat
  OBVIOUS
<1> HIDE DEF T
<1>3. PICK n \in T : \A m \in T : n <= m
  BY <1>1, <1>2, Least
<1>4. n \in 0..N /\ n \notin G /\ n # 0
  BY DEF T
<1>5. n \in 1..N /\ n - 1 \in 0..N /\ ~(n <= n - 1)
  BY <1>4
<1>6. n - 1 \in G
  BY <1>3, <1>5 DEF T
<1> QED BY <1>4, <1>5, <1>6

Follows(f, N, start, step) == f[0] = start /\ \A n \in 1..N : f[n] = step[<<n, f[n - 1]>>]

LEMMA StepsExist ==
  ASSUME NEW N \in Nat, NEW S, NEW start \in S, NEW step \in [(1..N) \X S -> S]
  PROVE  \E f \in [0..N -> S] : Follows(f, N, start, step)
<1> DEFINE Reach(k) == \E f \in [0..k -> S] : f[0] = start /\ \A n \in 1..k : f[n] = step[<<n, f[n - 1]>>]
           T == {k \in 0..N : ~Reach(k)}
<1>1. SUFFICES ASSUME T # {} PROVE FALSE
  BY DEF Follows
<1>2. T \in SUBSET Nat
  OBVIOUS
<1> HIDE DEF T
<1>3. PICK k \in T : \A m \in T : k <= m
  BY <1>1, <1>2, Least
<1>4. k \in 0..N /\ ~Reach(k)
  BY DEF T
<1>5. k # 0
  <2>1. Reach(0)
    <3> DEFINE f == [n \in 0..0 |-> start]
    <3>1. f \in [0..0 -> S] /\ f[0] = start /\ 1..0 = {}
      OBVIOUS
    <3> QED BY <3>1
  <2> QED BY <1>4, <2>1
<1>6. k \in 1..N /\ k - 1 \in 0..N /\ ~(k <= k - 1)
  BY <1>4, <1>5
<1>7. Reach(k - 1)
  <2> HIDE DEF Reach
  <2> QED BY <1>3, <1>6 DEF T
<1>8. PICK f \in [0..(k - 1) -> S] : f[0] = start /\ \A n \in 1..(k - 1) : f[n] = step[<<n, f[n - 1]>>]
  BY <1>7
<1> DEFINE g == [n \in 0..k |-> IF n = k THEN step[<<k, f[k - 1]>>] ELSE f[n]]
<1>9. /\ \A n \in 0..(k - 1) : n \in 0..k /\ n # k
      /\ \A n \in 0..k : n # k => n \in 0..(k - 1)
      /\ k - 1 \in 0..(k - 1) /\ 0 \in 0..(k - 1) /\ k \in 0..k
  BY <1>6
<1>10. step[<<k, f[k - 1]>>] \in S
  BY <1>6, <1>9
<1>11. g \in [0..k -> S] /\ g[k] = step[<<k, f[k - 1]>>] /\ \A n \in 0..(k - 1) : g[n] = f[n]
  BY <1>9, <1>10
<1> HIDE DEF g
<1>12. ASSUME NEW n \in 1..k PROVE g[n] = step[<<n, g[n - 1]>>]
  <2>1. n - 1 \in 0..(k - 1) /\ g[n - 1] = f[n - 1]
    BY <1>6, <1>11
  <2>2. CASE n = k
    BY <1>11, <2>1, <2>2
  <2>3. CASE n # k
    <3>1. n \in 1..(k - 1) /\ n \in 0..(k - 1)
      BY <1>6, <2>3
    <3> QED BY <1>8, <1>11, <2>1, <3>1
  <2> QED BY <2>2, <2>3
<1>13. Reach(k)
  BY <1>8, <1>9, <1>11, <1>12
<1> QED BY <1>4, <1>13
=============================================================================
