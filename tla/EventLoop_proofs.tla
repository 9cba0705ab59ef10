-------------------------- MODULE EventLoop_proofs ---------------------------
(***************************************************************************)
(* The lists of event.c stay linked and sorted whatever callbacks do, and  *)
(* a pass of the loop calls exactly the events it took: EventLoop          *)
(* implements EventSet, for any number of events.                          *)
(***************************************************************************)
EXTENDS EventLoop, FiniteSetTheorems, WellFoundedInduction, TLAPS

\* A nonempty set of numbers has a least one, by which proofs about recursive
\* functions go by induction.
LEMMA LeastNat ==
  ASSUME NEW T, T \subseteq Nat, T # {}
  PROVE  \E n \in T : \A m \in T : n <= m
<1> DEFINE R == OpToRel(<, Nat)
<1>1. IsWellFoundedOn(R, Nat)
  BY NatLessThanWellFounded
<1>2. \A x, y \in Nat : x < y => <<x, y>> \in R
  BY DEF OpToRel
<1> HIDE DEF R
<1>3. PICK x \in T : \A y \in T : ~ (<<y, x>> \in R)
  BY <1>1, WFMin
<1>4. ASSUME NEW y \in T PROVE x <= y
  <2>1. x \in Nat /\ y \in Nat
    OBVIOUS
  <2>2. ~(y < x)
    BY <1>2, <1>3, <2>1
  <2> QED
    BY <2>1, <2>2
<1> QED
  BY <1>4

-----------------------------------------------------------------------------
(* Behind is the least set that is closed under next. *)

\* One step of the walk from a set of events.
Grown(k, S) == S \cup ({k.next[f] : f \in S} \ {NULL})

\* upto of Behind, as far as n.
Walk(k, e, n, g) == g = [i \in 0..n |-> IF i = 0 THEN {e} ELSE Grown(k, g[i - 1])]

\* Two walks agree as far as both go.
LEMMA WalksAgree ==
  ASSUME NEW k, NEW e, NEW n \in Nat, NEW g, Walk(k, e, n, g),
         NEW m \in Nat, NEW h, Walk(k, e, m, h),
         NEW i \in Nat, i <= n, i <= m
  PROVE  g[i] = h[i]
<1> DEFINE T == {j \in Nat : j <= n /\ j <= m /\ g[j] # h[j]}
<1>1. SUFFICES ASSUME T # {} PROVE FALSE
  OBVIOUS
<1>2. PICK j \in T : \A x \in T : j <= x
  <2>1. T \subseteq Nat
    OBVIOUS
  <2> HIDE DEF T
  <2> QED BY <1>1, <2>1, LeastNat
<1>3. j \in Nat /\ j <= n /\ j <= m /\ g[j] # h[j]
  OBVIOUS
<1>4. j \in 0..n /\ j \in 0..m
  BY <1>3
<1>5. g[j] = (IF j = 0 THEN {e} ELSE Grown(k, g[j - 1]))
  BY <1>4 DEF Walk
<1>6. h[j] = (IF j = 0 THEN {e} ELSE Grown(k, h[j - 1]))
  BY <1>4 DEF Walk
<1>7. j # 0
  BY <1>3, <1>5, <1>6
<1>8. j - 1 \in Nat /\ j - 1 <= n /\ j - 1 <= m /\ ~(j <= j - 1)
  BY <1>3, <1>7
<1>9. g[j - 1] = h[j - 1]
  BY <1>2, <1>8
<1> QED
  BY <1>3, <1>5, <1>6, <1>7, <1>9

\* There is a walk as far as any n.
LEMMA WalkExists ==
  ASSUME NEW k, NEW e, NEW n \in Nat
  PROVE  \E g : Walk(k, e, n, g)
<1> DEFINE T == {j \in Nat : ~\E g : Walk(k, e, j, g)}
<1>1. SUFFICES ASSUME T # {} PROVE FALSE
  OBVIOUS
<1>2. PICK j \in T : \A x \in T : j <= x
  <2>1. T \subseteq Nat
    OBVIOUS
  <2> HIDE DEF T
  <2> QED BY <1>1, <2>1, LeastNat
<1>3. j \in Nat /\ ~\E g : Walk(k, e, j, g)
  OBVIOUS
<1>4. CASE j = 0
  <2> DEFINE g == [i \in 0..0 |-> {e}]
  <2>1. g = [i \in 0..0 |-> IF i = 0 THEN {e} ELSE Grown(k, g[i - 1])]
    OBVIOUS
  <2>2. Walk(k, e, 0, g)
    BY <2>1 DEF Walk
  <2> QED
    BY <1>3, <1>4, <2>2
<1>5. CASE j # 0
  <2>1. j - 1 \in Nat /\ ~(j <= j - 1)
    BY <1>3, <1>5
  <2>2. PICK h : Walk(k, e, j - 1, h)
    BY <1>2, <2>1
  <2> DEFINE g == [i \in 0..j |-> IF i = j THEN Grown(k, h[j - 1]) ELSE h[i]]
  <2>3. ASSUME NEW i \in 0..j PROVE g[i] = IF i = 0 THEN {e} ELSE Grown(k, g[i - 1])
    <3>1. CASE i = j
      <4>1. g[i] = Grown(k, h[j - 1]) /\ g[i - 1] = h[i - 1]
        BY <3>1, <1>3, <1>5
      <4> QED
        BY <4>1, <3>1, <1>5
    <3>2. CASE i # j
      <4>1. i \in 0..(j - 1) /\ g[i] = h[i]
        BY <3>2, <1>3, <1>5
      <4>2. h[i] = IF i = 0 THEN {e} ELSE Grown(k, h[i - 1])
        BY <4>1, <2>2 DEF Walk
      <4>3. CASE i = 0
        BY <4>1, <4>2, <4>3
      <4>4. CASE i # 0
        <5>1. i - 1 \in 0..j /\ i - 1 # j
          BY <4>1, <4>4, <1>3
        <5>2. g[i - 1] = h[i - 1]
          BY <5>1
        <5> QED
          BY <4>1, <4>2, <4>4, <5>2
      <4> QED BY <4>3, <4>4
    <3> QED BY <3>1, <3>2
  <2>4. Walk(k, e, j, g)
    BY <2>3 DEF Walk
  <2> QED
    BY <1>3, <2>4
<1> QED
  BY <1>4, <1>5

\* A function that solves the recursion of upto.
AllWalk(k, e, g) == g = [n \in Nat |-> IF n = 0 THEN {e} ELSE Grown(k, g[n - 1])]

\* The recursion of upto in Behind has a solution.
LEMMA UptoIs ==
  ASSUME NEW k, NEW e
  PROVE  AllWalk(k, e, CHOOSE g : AllWalk(k, e, g))
<1> DEFINE W(n) == CHOOSE g : Walk(k, e, n, g)
           F == [n \in Nat |-> W(n)[n]]
<1>1. ASSUME NEW n \in Nat PROVE Walk(k, e, n, W(n))
  BY WalkExists
<1> HIDE DEF W
<1>2. ASSUME NEW n \in Nat PROVE F[n] = IF n = 0 THEN {e} ELSE Grown(k, F[n - 1])
  <2>1. Walk(k, e, n, W(n)) /\ n \in 0..n
    BY <1>1
  <2>2. W(n)[n] = IF n = 0 THEN {e} ELSE Grown(k, W(n)[n - 1])
    BY <2>1 DEF Walk
  <2>3. CASE n = 0
    BY <2>2, <2>3
  <2>4. CASE n # 0
    <3>1. n - 1 \in Nat /\ n - 1 <= n /\ n - 1 <= n - 1
      BY <2>4
    <3>2. Walk(k, e, n - 1, W(n - 1))
      BY <3>1, <1>1
    <3>3. W(n)[n - 1] = W(n - 1)[n - 1]
      BY <2>1, <3>1, <3>2, WalksAgree
    <3> QED
      BY <2>2, <2>4, <3>1, <3>3
  <2> QED BY <2>3, <2>4
<1>3. F = [n \in Nat |-> IF n = 0 THEN {e} ELSE Grown(k, F[n - 1])]
  BY <1>2
<1> HIDE DEF F
<1>4. AllWalk(k, e, F)
  BY <1>3 DEF AllWalk
<1> QED
  BY <1>4

\* The next event of an event has the same type, and so has the previous one.
SameType(k) ==
    \A e \in Event : /\ k.next[e] \in OfType[ListOf(e)] \cup {NULL}
                     /\ k.prev[e] \in OfType[ListOf(e)] \cup {NULL}

\* An event has one type.
LEMMA TypeFacts ==
  /\ \A name \in Type : OfType[name] \subseteq Event /\ IsFiniteSet(OfType[name])
  /\ \A name \in Type : \A e \in OfType[name] : ListOf(e) = name
  /\ \A e \in Event : ListOf(e) \in Type /\ e \in OfType[ListOf(e)] /\ e # NULL
  /\ OfType["fd"] = Fd /\ OfType["always"] = Always /\ OfType["time"] = Time
<1>1. OfType["fd"] = Fd /\ OfType["always"] = Always /\ OfType["time"] = Time
  BY DEF OfType
<1>2. \A name \in Type : OfType[name] \subseteq Event
  BY <1>1 DEF Type, Event
<1>3. \A name \in Type : IsFiniteSet(OfType[name])
  BY <1>2, EventLoopAssumption, FS_Subset
<1>4. \A n1, n2 \in Type : n1 # n2 => OfType[n1] \cap OfType[n2] = {}
  BY <1>1, EventLoopAssumption DEF Type
<1>5. \A e \in Event : \E name \in Type : e \in OfType[name]
  BY <1>1 DEF Event, Type
<1>6. ASSUME NEW e \in Event PROVE ListOf(e) \in Type /\ e \in OfType[ListOf(e)]
  BY <1>5 DEF ListOf
<1>7. ASSUME NEW name \in Type, NEW e \in OfType[name] PROVE ListOf(e) = name
  BY <1>2, <1>4, <1>6
<1> QED
  BY <1>1, <1>2, <1>3, <1>6, <1>7, EventLoopAssumption

\* Behind holds its first event and is closed under next: when a step of the walk
\* adds nothing the set is closed, and it cannot add an event in each of as many
\* steps as there are events of the type.
LEMMA BehindClosed ==
  ASSUME NEW k, SameType(k), NEW e \in Event
  PROVE  /\ e \in Behind(k, e) /\ Behind(k, e) \subseteq OfType[ListOf(e)]
         /\ \A f \in Behind(k, e) : k.next[f] \in Behind(k, e) \cup {NULL}
<1> DEFINE D == OfType[ListOf(e)]
           upto[n \in Nat] ==
             IF n = 0 THEN {e}
             ELSE LET near == upto[n - 1] IN near \cup ({k.next[f] : f \in near} \ {NULL})
           N == Cardinality(D)
           B == Behind(k, e)
           Stays(S) == \A f \in S : k.next[f] \in S \cup {NULL}
<1>1. IsFiniteSet(D) /\ e \in D /\ e # NULL /\ \A f \in D : k.next[f] \in D \cup {NULL}
  BY TypeFacts DEF SameType
<1>2. upto = [n \in Nat |-> IF n = 0 THEN {e} ELSE Grown(k, upto[n - 1])]
  <2>1. upto = CHOOSE g : AllWalk(k, e, g)
    BY DEF AllWalk, Grown
  <2> HIDE DEF upto
  <2>2. AllWalk(k, e, upto)
    BY <2>1, UptoIs
  <2> QED
    BY <2>2 DEF AllWalk
<1>3. B = upto[N - 1]
  BY <1>1 DEF Behind
<1> HIDE DEF upto
<1>4. N \in Nat /\ N # 0
  BY <1>1, FS_CardinalityType, FS_EmptySet
<1>5. upto[0] = {e} /\ \A n \in Nat : n # 0 => upto[n] = Grown(k, upto[n - 1])
  BY <1>2
<1> HIDE DEF D, N
<1>6. ASSUME NEW S, S \subseteq D PROVE Grown(k, S) \subseteq D /\ S \subseteq Grown(k, S)
  BY <1>1, <1>6 DEF Grown
<1>7. ASSUME NEW n \in Nat PROVE upto[n] \subseteq D /\ e \in upto[n]
  <2> DEFINE T == {j \in Nat : ~(upto[j] \subseteq D /\ e \in upto[j])}
  <2>1. SUFFICES ASSUME T # {} PROVE FALSE
    OBVIOUS
  <2>2. PICK j \in T : \A x \in T : j <= x
    <3>1. T \subseteq Nat
      OBVIOUS
    <3> HIDE DEF T
    <3> QED BY <2>1, <3>1, LeastNat
  <2>3. j \in Nat /\ ~(upto[j] \subseteq D /\ e \in upto[j])
    OBVIOUS
  <2>4. j # 0
    BY <2>3, <1>1, <1>5
  <2>5. j - 1 \in Nat /\ ~(j <= j - 1)
    BY <2>3, <2>4
  <2>6. upto[j - 1] \subseteq D /\ e \in upto[j - 1]
    BY <2>2, <2>5
  <2> QED
    BY <2>3, <2>4, <2>6, <1>5, <1>6
<1>8. ASSUME NEW n \in Nat PROVE Stays(upto[n]) \/ Cardinality(upto[n]) > n
  <2> DEFINE T == {j \in Nat : ~(Stays(upto[j]) \/ Cardinality(upto[j]) > j)}
  <2>1. SUFFICES ASSUME T # {} PROVE FALSE
    OBVIOUS
  <2>2. PICK j \in T : \A x \in T : j <= x
    <3>1. T \subseteq Nat
      OBVIOUS
    <3> HIDE DEF T
    <3> QED BY <2>1, <3>1, LeastNat
  <2>3. j \in Nat /\ ~Stays(upto[j]) /\ ~(Cardinality(upto[j]) > j)
    OBVIOUS
  <2>4. j # 0
    <3>1. Cardinality({e}) = 1
      BY FS_Singleton
    <3> QED
      BY <3>1, <2>3, <1>5
  <2>5. j - 1 \in Nat /\ ~(j <= j - 1)
    BY <2>3, <2>4
  <2> DEFINE P == upto[j - 1]
             Q == upto[j]
  <2>6. Q = Grown(k, P) /\ P \subseteq D /\ Q \subseteq D /\ P \subseteq Q
    BY <2>3, <2>4, <2>5, <1>5, <1>6, <1>7
  <2>7. IsFiniteSet(P) /\ IsFiniteSet(Q) /\ Cardinality(P) \in Nat /\ Cardinality(Q) \in Nat
    BY <2>6, <1>1, FS_Subset, FS_CardinalityType
  <2>8. CASE Stays(P)
    <3>1. Q = P
      BY <2>6, <2>8 DEF Grown
    <3> QED
      BY <3>1, <2>3, <2>8
  <2>9. CASE ~Stays(P)
    <3>1. Cardinality(P) > j - 1
      BY <2>2, <2>5, <2>9
    <3>2. PICK f \in P : k.next[f] \notin P \cup {NULL}
      BY <2>9
    <3> DEFINE x == k.next[f]
    <3>3. x \in Q /\ x \notin P
      BY <3>2, <2>6 DEF Grown
    <3> HIDE DEF P, Q, x
    <3>4. Cardinality(P \cup {x}) = Cardinality(P) + 1
      BY <3>3, <2>7, FS_AddElement
    <3>5. Cardinality(P \cup {x}) <= Cardinality(Q)
      BY <3>3, <2>6, <2>7, FS_Subset
    <3> QED
      BY <2>3, <2>7, <3>1, <3>4, <3>5 DEF Q
  <2> QED BY <2>8, <2>9
<1>9. Stays(B)
  <2>1. N - 1 \in Nat /\ B \subseteq D
    BY <1>3, <1>4, <1>7
  <2>2. CASE Cardinality(B) > N - 1
    <3>1. IsFiniteSet(B) /\ Cardinality(B) \in Nat /\ Cardinality(B) <= N /\ (Cardinality(B) = N => B = D)
      BY <1>1, <2>1, FS_Subset, FS_CardinalityType DEF N
    <3>2. B = D
      BY <3>1, <2>2, <1>4
    <3> QED
      BY <3>2, <1>1
  <2>3. CASE ~(Cardinality(B) > N - 1)
    BY <2>1, <2>3, <1>3, <1>8
  <2> QED BY <2>2, <2>3
<1>10. B \subseteq D /\ e \in B
  BY <1>3, <1>4, <1>7
<1> QED
  BY <1>9, <1>10 DEF D

\* and it is the least such set.
LEMMA BehindLeast ==
  ASSUME NEW k, NEW e \in Event, NEW S, e \in S, \A f \in S : k.next[f] \in S \cup {NULL}
  PROVE  Behind(k, e) \subseteq S
<1> DEFINE D == OfType[ListOf(e)]
           upto[n \in Nat] ==
             IF n = 0 THEN {e}
             ELSE LET near == upto[n - 1] IN near \cup ({k.next[f] : f \in near} \ {NULL})
           N == Cardinality(D)
<1>1. IsFiniteSet(D) /\ e \in D /\ e # NULL
  BY TypeFacts
<1>2. upto = [n \in Nat |-> IF n = 0 THEN {e} ELSE Grown(k, upto[n - 1])]
  <2>1. upto = CHOOSE g : AllWalk(k, e, g)
    BY DEF AllWalk, Grown
  <2> HIDE DEF upto
  <2>2. AllWalk(k, e, upto)
    BY <2>1, UptoIs
  <2> QED
    BY <2>2 DEF AllWalk
<1>3. Behind(k, e) = upto[N - 1]
  BY <1>1 DEF Behind
<1> HIDE DEF upto
<1>4. N \in Nat /\ N # 0
  BY <1>1, FS_CardinalityType, FS_EmptySet
<1>5. upto[0] = {e} /\ \A n \in Nat : n # 0 => upto[n] = Grown(k, upto[n - 1])
  BY <1>2
<1>6. ASSUME NEW X, X \subseteq S PROVE Grown(k, X) \subseteq S
  BY <1>6 DEF Grown
<1>7. ASSUME NEW n \in Nat PROVE upto[n] \subseteq S
  <2> DEFINE T == {j \in Nat : ~(upto[j] \subseteq S)}
  <2>1. SUFFICES ASSUME T # {} PROVE FALSE
    OBVIOUS
  <2>2. PICK j \in T : \A x \in T : j <= x
    <3>1. T \subseteq Nat
      OBVIOUS
    <3> HIDE DEF T
    <3> QED BY <2>1, <3>1, LeastNat
  <2>3. j \in Nat /\ ~(upto[j] \subseteq S)
    OBVIOUS
  <2>4. j # 0
    BY <2>3, <1>5
  <2>5. j - 1 \in Nat /\ ~(j <= j - 1)
    BY <2>3, <2>4
  <2>6. upto[j - 1] \subseteq S
    BY <2>2, <2>5
  <2> QED
    BY <2>3, <2>4, <2>6, <1>5, <1>6
<1> QED
  BY <1>3, <1>4, <1>7

\* A property of e that next keeps holds of all events behind e.
LEMMA BehindInduct ==
  ASSUME NEW k, SameType(k), NEW e \in Event, NEW S, e \in S,
         \A f \in Behind(k, e) : f \in S => k.next[f] \in S \cup {NULL}
  PROVE  Behind(k, e) \subseteq S
<1> DEFINE X == S \cap Behind(k, e)
<1>1. /\ e \in Behind(k, e)
      /\ \A f \in Behind(k, e) : k.next[f] \in Behind(k, e) \cup {NULL}
  BY BehindClosed
<1>2. e \in X /\ \A f \in X : k.next[f] \in X \cup {NULL}
  BY <1>1
<1> HIDE DEF X
<1>3. Behind(k, e) \subseteq X
  BY <1>2, BehindLeast
<1> QED
  BY <1>3 DEF X

\* Nothing is behind NULL.
LEMMA BehindNull == \A k : Behind(k, NULL) = {}
BY DEF Behind

\* What is behind an event behind e is behind e.
LEMMA BehindTrans ==
  ASSUME NEW k, SameType(k), NEW e \in Event, NEW f \in Behind(k, e)
  PROVE  f \in Event /\ Behind(k, f) \subseteq Behind(k, e)
<1>1. Behind(k, e) \subseteq Event /\ \A g \in Behind(k, e) : k.next[g] \in Behind(k, e) \cup {NULL}
  BY BehindClosed, TypeFacts
<1> QED
  BY <1>1, BehindLeast

\* An event, and what is behind the next one.
LEMMA BehindUnfold ==
  ASSUME NEW k, SameType(k), NEW e \in Event
  PROVE  Behind(k, e) = {e} \cup Behind(k, k.next[e])
<1> DEFINE n == k.next[e]
           S == {e} \cup Behind(k, n)
<1>1. /\ e \in Behind(k, e)
      /\ \A f \in Behind(k, e) : k.next[f] \in Behind(k, e) \cup {NULL}
  BY BehindClosed
<1>2. CASE n = NULL
  <2>1. S = {e}
    BY <1>2, BehindNull
  <2>2. \A f \in {e} : k.next[f] \in {e} \cup {NULL}
    BY <1>2
  <2>3. Behind(k, e) \subseteq {e}
    BY <2>2, BehindLeast
  <2> QED
    BY <1>1, <2>1, <2>3
<1>3. CASE n # NULL
  <2>1. n \in Behind(k, e)
    BY <1>1, <1>3
  <2>2. n \in Event /\ Behind(k, n) \subseteq Behind(k, e)
    BY <2>1, BehindTrans
  <2>3. /\ n \in Behind(k, n)
        /\ \A f \in Behind(k, n) : k.next[f] \in Behind(k, n) \cup {NULL}
    BY <2>2, BehindClosed
  <2>4. e \in S /\ \A f \in S : k.next[f] \in S \cup {NULL}
    BY <2>3
  <2> HIDE DEF S, n
  <2>5. Behind(k, e) \subseteq S
    BY <2>4, BehindLeast
  <2> QED
    BY <1>1, <2>2, <2>5 DEF S, n
<1> QED
  BY <1>2, <1>3

\* Lists that agree on next behind e agree on what is behind e.
LEMMA BehindAgree ==
  ASSUME NEW k, SameType(k), NEW k2, SameType(k2), NEW e \in Event,
         \A f \in Behind(k, e) : k2.next[f] = k.next[f]
  PROVE  Behind(k2, e) = Behind(k, e)
<1>1. /\ e \in Behind(k, e) /\ e \in Behind(k2, e)
      /\ \A f \in Behind(k, e) : k.next[f] \in Behind(k, e) \cup {NULL}
      /\ \A f \in Behind(k2, e) : k2.next[f] \in Behind(k2, e) \cup {NULL}
  BY BehindClosed
<1>2. Behind(k2, e) \subseteq Behind(k, e)
  <2>1. \A f \in Behind(k, e) : k2.next[f] \in Behind(k, e) \cup {NULL}
    BY <1>1
  <2> QED
    BY <1>1, <2>1, BehindLeast
<1>3. Behind(k, e) \subseteq Behind(k2, e)
  <2>1. \A f \in Behind(k, e) : f \in Behind(k2, e) => k.next[f] \in Behind(k2, e) \cup {NULL}
    BY <1>1
  <2> QED
    BY <1>1, <2>1, BehindInduct
<1> QED
  BY <1>2, <1>3
-----------------------------------------------------------------------------
(* A list that is linked. *)

\* The record of the lists, with its types.
Fields(k) ==
    /\ k = [next |-> k.next, prev |-> k.prev, head |-> k.head]
    /\ k.next \in [Event -> Event \cup {NULL}] /\ k.prev \in [Event -> Event \cup {NULL}]
    /\ k.head = [name \in Type |-> k.head[name]]
    /\ \A name \in Type : k.head[name] \in OfType[name] \cup {NULL}
    /\ SameType(k)

\* The list of head h: prev is the inverse of next, and the list has an end.
Chain(k, h) ==
    h # NULL => /\ k.prev[h] = NULL
                /\ \A e \in Behind(k, h) : k.next[e] # NULL => k.prev[k.next[e]] = e
                /\ \E z \in Behind(k, h) : k.next[z] = NULL

ListsOK(k) == Fields(k) /\ \A name \in Type : Chain(k, k.head[name])

\* All of a linked list but its head has a predecessor in it, and no event is
\* behind itself.
LEMMA ChainFacts ==
  ASSUME NEW k, SameType(k), NEW h \in Event, Chain(k, h)
  PROVE  /\ \A x \in Behind(k, h) :
              x = h \/ (k.prev[x] \in Behind(k, h) /\ k.next[k.prev[x]] = x)
         /\ \A x \in Behind(k, h) : x \notin Behind(k, k.next[x])
<1> DEFINE L == Behind(k, h)
           S == {x \in L : x = h \/ (k.prev[x] \in L /\ k.next[k.prev[x]] = x)}
           X == {x \in L : x \notin Behind(k, k.next[x])}
<1>1. /\ h # NULL /\ k.prev[h] = NULL
      /\ \A e \in L : k.next[e] # NULL => k.prev[k.next[e]] = e
  BY TypeFacts DEF Chain
<1>2. h \in L /\ \A f \in L : k.next[f] \in L \cup {NULL}
  BY BehindClosed
<1>3. L \subseteq Event
  BY BehindTrans
<1>4. L \subseteq S
  <2>1. h \in S /\ \A f \in L : f \in S => k.next[f] \in S \cup {NULL}
    BY <1>1, <1>2
  <2> HIDE DEF S
  <2> QED
    BY <2>1, BehindInduct
<1>5. h \in X
  <2> DEFINE n == k.next[h]
             Y == {y \in L : k.prev[y] # NULL}
  <2>1. CASE n = NULL
    BY <2>1, <1>2, BehindNull
  <2>2. CASE n # NULL
    <3>1. n \in L /\ n \in Event /\ n \in Y
      BY <2>2, <1>1, <1>2, <1>3
    <3>2. \A f \in Y : k.next[f] \in Y \cup {NULL}
      BY <1>1, <1>2, <1>3, TypeFacts
    <3> HIDE DEF Y
    <3>3. Behind(k, n) \subseteq Y
      BY <3>1, <3>2, BehindLeast
    <3> QED
      BY <3>3, <1>1, <1>2 DEF Y
  <2> QED BY <2>1, <2>2
<1>6. ASSUME NEW x \in L, x \in X, k.next[x] # NULL PROVE k.next[x] \in X
  <2> DEFINE y == k.next[x]
             n == k.next[y]
  <2>1. y \in L /\ y \in Event /\ k.prev[y] = x
    BY <1>1, <1>2, <1>3, <1>6
  <2>2. x \notin Behind(k, y)
    BY <1>6
  <2>3. SUFFICES ASSUME y \in Behind(k, n) PROVE FALSE
    BY <2>1
  <2>4. n # NULL
    BY <2>3, BehindNull
  <2>5. n \in L /\ n \in Event /\ k.prev[n] = y
    BY <2>1, <2>4, <1>1, <1>2, <1>3
  <2> HIDE DEF n, y
  <2>6. Behind(k, y) = {y} \cup Behind(k, n)
    BY <2>1, BehindUnfold DEF n
  <2> DEFINE Z == {z \in Behind(k, n) : z = n \/ k.prev[z] \in Behind(k, n)}
  <2>7. Behind(k, n) \subseteq Z
    <3>1. n \in Behind(k, n) /\ \A f \in Behind(k, n) : k.next[f] \in Behind(k, n) \cup {NULL}
      BY <2>5, BehindClosed
    <3>2. Behind(k, n) \subseteq L
      BY <2>5, BehindTrans
    <3>3. n \in Z /\ \A f \in Behind(k, n) : f \in Z => k.next[f] \in Z \cup {NULL}
      BY <3>1, <3>2, <1>1
    <3> HIDE DEF Z
    <3> QED
      BY <3>3, <2>5, BehindInduct
  <2>8. y = n \/ x \in Behind(k, n)
    BY <2>1, <2>3, <2>7
  <2>9. CASE y = n
    BY <2>9, <2>1, <2>2, <2>3, <2>5, <2>6
  <2>10. CASE x \in Behind(k, n)
    BY <2>10, <2>2, <2>6
  <2> QED
    BY <2>8, <2>9, <2>10
<1>7. L \subseteq X
  <2>1. \A f \in L : f \in X => k.next[f] \in X \cup {NULL}
    BY <1>6
  <2> HIDE DEF X
  <2> QED
    BY <1>5, <2>1, BehindInduct
<1> QED
  BY <1>4, <1>7

\* Some event of a part of the list has all of that part behind it.
LEMMA FirstOf ==
  ASSUME NEW k, SameType(k), NEW h \in Event, NEW P, P \subseteq Behind(k, h), P # {}
  PROVE  \E f \in P : P \subseteq Behind(k, f)
<1> DEFINE S == {x \in Behind(k, h) : P \subseteq Behind(k, x)}
<1>1. SUFFICES ASSUME \A f \in P : ~(P \subseteq Behind(k, f)) PROVE FALSE
  OBVIOUS
<1>2. h \in S
  BY BehindClosed
<1>3. ASSUME NEW x \in Behind(k, h), x \in S PROVE k.next[x] \in S \cup {NULL}
  <2>1. x \notin P /\ P \subseteq Behind(k, x) /\ x \in Event
    BY <1>1, <1>3, BehindTrans
  <2>2. P \subseteq Behind(k, k.next[x])
    BY <2>1, BehindUnfold
  <2>3. k.next[x] \in Behind(k, h) \cup {NULL}
    BY BehindClosed
  <2> QED
    BY <2>2, <2>3
<1>4. Behind(k, h) \subseteq S
  <2> HIDE DEF S
  <2> QED BY <1>2, <1>3, BehindInduct
<1> QED
  BY <1>1, <1>4
-----------------------------------------------------------------------------
(* What the operations do. *)

Lists(nx, pv, hd) == [next |-> nx, prev |-> pv, head |-> hd]

\* next is replaced.
LEMMA SetNext == \A nx, pv, hd, x : [Lists(nx, pv, hd) EXCEPT !.next = x] = Lists(x, pv, hd)
BY DEF Lists

\* prev is replaced.
LEMMA SetPrev == \A nx, pv, hd, x : [Lists(nx, pv, hd) EXCEPT !.prev = x] = Lists(nx, x, hd)
BY DEF Lists

\* The heads are replaced.
LEMMA SetHead == \A nx, pv, hd, x : [Lists(nx, pv, hd) EXCEPT !.head = x] = Lists(nx, pv, x)
BY DEF Lists

\* del_event, field by field.
LEMMA DelForm ==
  ASSUME NEW k, Fields(k), NEW e \in Event
  PROVE  del_event(k, e) =
           Lists([f \in Event |-> IF f = k.prev[e] THEN k.next[e] ELSE k.next[f]],
                 [f \in Event |-> IF f = k.next[e] THEN k.prev[e] ELSE k.prev[f]],
                 [k.head EXCEPT ![ListOf(e)] = IF @ = e THEN k.next[e] ELSE @])
<1> DEFINE nx == [f \in Event |-> IF f = k.prev[e] THEN k.next[e] ELSE k.next[f]]
           pv == [f \in Event |-> IF f = k.next[e] THEN k.prev[e] ELSE k.prev[f]]
           hd == [k.head EXCEPT ![ListOf(e)] = IF @ = e THEN k.next[e] ELSE @]
<1>1. k = Lists(k.next, k.prev, k.head) /\ DOMAIN k = {"next", "prev", "head"}
  BY DEF Fields, Lists
<1>2. del_event(k, e) = [[[k EXCEPT !.prev = pv] EXCEPT !.next = nx] EXCEPT !.head = hd]
  BY <1>1 DEF del_event
<1> HIDE DEF nx, pv, hd
<1>3. [k EXCEPT !.prev = pv] = Lists(k.next, pv, k.head)
  BY <1>1, SetPrev
<1>4. [Lists(k.next, pv, k.head) EXCEPT !.next = nx] = Lists(nx, pv, k.head)
  BY SetNext
<1>5. [Lists(nx, pv, k.head) EXCEPT !.head = hd] = Lists(nx, pv, hd)
  BY SetHead
<1> QED
  BY <1>2, <1>3, <1>4, <1>5 DEF nx, pv, hd

\* The fields of the lists after del_event.
LEMMA DelFields ==
  ASSUME NEW k, Fields(k), NEW e \in Event, NEW k2, k2 = del_event(k, e)
  PROVE  /\ Fields(k2)
         /\ \A f \in Event : k2.next[f] = IF f = k.prev[e] THEN k.next[e] ELSE k.next[f]
         /\ \A f \in Event : k2.prev[f] = IF f = k.next[e] THEN k.prev[e] ELSE k.prev[f]
         /\ \A name \in Type : k2.head[name] =
              IF name = ListOf(e) /\ k.head[name] = e THEN k.next[e] ELSE k.head[name]
<1> DEFINE nx == [f \in Event |-> IF f = k.prev[e] THEN k.next[e] ELSE k.next[f]]
           pv == [f \in Event |-> IF f = k.next[e] THEN k.prev[e] ELSE k.prev[f]]
           hd == [k.head EXCEPT ![ListOf(e)] = IF @ = e THEN k.next[e] ELSE @]
<1>0. k2 = Lists(nx, pv, hd)
  BY DelForm
<1>1. /\ k.next \in [Event -> Event \cup {NULL}] /\ k.prev \in [Event -> Event \cup {NULL}]
      /\ k.head = [name \in Type |-> k.head[name]] /\ DOMAIN k.head = Type
      /\ \A name \in Type : k.head[name] \in OfType[name] \cup {NULL}
      /\ SameType(k)
  BY DEF Fields
<1>2. /\ nx \in [Event -> Event \cup {NULL}] /\ pv \in [Event -> Event \cup {NULL}]
  BY <1>1
<1>3. /\ \A f \in Event : nx[f] = IF f = k.prev[e] THEN k.next[e] ELSE k.next[f]
      /\ \A f \in Event : pv[f] = IF f = k.next[e] THEN k.prev[e] ELSE k.prev[f]
  OBVIOUS
<1>4. hd = [name \in Type |-> hd[name]]
  BY <1>1
<1>5. \A name \in Type : hd[name] =
              IF name = ListOf(e) /\ k.head[name] = e THEN k.next[e] ELSE k.head[name]
  BY <1>1
<1> HIDE DEF nx, pv, hd
<1>6. k2.next = nx /\ k2.prev = pv /\ k2.head = hd /\ k2 = [next |-> k2.next, prev |-> k2.prev, head |-> k2.head]
  BY <1>0 DEF Lists
<1>7. /\ k.next[e] \in OfType[ListOf(e)] \cup {NULL} /\ k.prev[e] \in OfType[ListOf(e)] \cup {NULL}
      /\ ListOf(e) \in Type
  BY <1>1, TypeFacts DEF SameType
<1>8. \A name \in Type : hd[name] \in OfType[name] \cup {NULL}
  BY <1>1, <1>5, <1>7
<1>9. SameType(k2)
  <2> SUFFICES ASSUME NEW f \in Event
               PROVE  /\ nx[f] \in OfType[ListOf(f)] \cup {NULL}
                      /\ pv[f] \in OfType[ListOf(f)] \cup {NULL}
    BY <1>6 DEF SameType
  <2>1. CASE f = k.prev[e]
    <3>1. ListOf(f) = ListOf(e)
      BY <2>1, <1>7, TypeFacts
    <3> QED
      BY <3>1, <1>1, <1>3, <1>7 DEF SameType
  <2>2. CASE f = k.next[e]
    <3>1. ListOf(f) = ListOf(e)
      BY <2>2, <1>7, TypeFacts
    <3> QED
      BY <3>1, <1>1, <1>3, <1>7 DEF SameType
  <2>3. CASE f # k.prev[e] /\ f # k.next[e]
    BY <2>3, <1>1, <1>3 DEF SameType
  <2> QED BY <2>1, <2>2, <2>3
<1> QED
  BY <1>2, <1>3, <1>4, <1>5, <1>6, <1>8, <1>9 DEF Fields

\* The events of a list have its type, and the list is empty or begins with its head.
LEMMA ListFacts ==
  ASSUME NEW k, ListsOK(k), NEW name \in Type
  PROVE  /\ List(k, name) \subseteq OfType[name] /\ List(k, name) \subseteq Event
         /\ k.head[name] = NULL => List(k, name) = {}
         /\ k.head[name] # NULL => k.head[name] \in List(k, name) /\ k.head[name] \in OfType[name]
         /\ \A x \in List(k, name) : k.next[x] \in List(k, name) \cup {NULL}
         /\ SameType(k) /\ Fields(k) /\ Chain(k, k.head[name])
<1> DEFINE h == k.head[name]
<1>1. SameType(k) /\ Fields(k) /\ h \in OfType[name] \cup {NULL} /\ Chain(k, h)
  BY DEF ListsOK, Fields
<1>2. CASE h = NULL
  BY <1>1, <1>2, BehindNull DEF List
<1>3. CASE h # NULL
  <2>1. h \in Event /\ ListOf(h) = name /\ OfType[name] \subseteq Event
    BY <1>1, <1>3, TypeFacts
  <2> QED
    BY <1>1, <1>3, <2>1, BehindClosed DEF List
<1> QED
  BY <1>2, <1>3

\* A list is as it was when its events and its head have not changed.
LEMMA OtherList ==
  ASSUME NEW k, ListsOK(k), NEW k2, Fields(k2), NEW name \in Type,
         \A f \in List(k, name) : k2.next[f] = k.next[f] /\ k2.prev[f] = k.prev[f],
         k2.head[name] = k.head[name]
  PROVE  /\ List(k2, name) = List(k, name)
         /\ Chain(k2, k2.head[name])
         /\ \A x \in List(k, name) : Behind(k2, x) = Behind(k, x)
<1> DEFINE h == k.head[name]
           L == List(k, name)
<1>1. /\ L \subseteq Event /\ SameType(k) /\ Chain(k, h)
      /\ h # NULL => h \in L /\ h \in Event
      /\ h = NULL => L = {}
      /\ \A x \in L : k.next[x] \in L \cup {NULL}
  BY ListFacts
<1>2. SameType(k2)
  BY DEF Fields
<1>3. ASSUME NEW x \in L PROVE Behind(k2, x) = Behind(k, x)
  <2>1. Behind(k, x) \subseteq L
    BY <1>1, BehindLeast
  <2> QED
    BY <1>1, <1>2, <2>1, BehindAgree
<1>4. CASE h = NULL
  BY <1>3, <1>4, BehindNull DEF List, Chain
<1>5. CASE h # NULL
  <2>1. Behind(k2, h) = Behind(k, h) /\ Behind(k, h) = L
    BY <1>1, <1>3, <1>5 DEF List
  <2>2. Chain(k2, h)
    BY <1>1, <1>5, <2>1 DEF Chain
  <2> QED
    BY <1>3, <2>1, <2>2 DEF List
<1> QED
  BY <1>4, <1>5

\* del_event takes a listed event out of its list and leaves the rest linked.
LEMMA DelKeeps ==
  ASSUME NEW k, ListsOK(k), NEW name \in Type, NEW e \in List(k, name),
         NEW k2, k2 = del_event(k, e)
  PROVE  /\ ListsOK(k2)
         /\ List(k2, name) = List(k, name) \ {e}
         /\ \A nm \in Type \ {name} : List(k2, nm) = List(k, nm)
         /\ \A x \in List(k, name) \ {e} : Behind(k2, x) = Behind(k, x) \ {e}
         /\ \A nm \in Type \ {name} : \A x \in List(k, nm) : Behind(k2, x) = Behind(k, x)
         /\ k2.next[e] = k.next[e] /\ k2.prev[e] = k.prev[e]
         /\ \A x \in Event \ {k.prev[e]} : k2.next[x] = k.next[x]
<1> DEFINE L == List(k, name)
           h == k.head[name]
           n == k.next[e]
           p == k.prev[e]
           h2 == k2.head[name]
<1>1. /\ L \subseteq OfType[name] /\ L \subseteq Event /\ SameType(k) /\ Fields(k) /\ Chain(k, h)
      /\ h \in L /\ h \in OfType[name] /\ h # NULL
      /\ \A x \in L : k.next[x] \in L \cup {NULL}
  BY ListFacts
<1>2. e \in L /\ e \in Event /\ ListOf(e) = name /\ h \in Event /\ NULL \notin Event /\ L = Behind(k, h)
  BY <1>1, TypeFacts DEF List
<1>3. /\ Fields(k2)
      /\ \A f \in Event : k2.next[f] = IF f = p THEN n ELSE k.next[f]
      /\ \A f \in Event : k2.prev[f] = IF f = n THEN p ELSE k.prev[f]
      /\ \A nm \in Type : k2.head[nm] =
           IF nm = ListOf(e) /\ k.head[nm] = e THEN k.next[e] ELSE k.head[nm]
  <2>1. Fields(k) /\ e \in Event
    BY <1>1, <1>2
  <2> QED
    BY <2>1, DelFields
<1>4. SameType(k2) /\ h2 = IF h = e THEN n ELSE h
  BY <1>2, <1>3 DEF Fields
<1>5. /\ \A x \in L : x = h \/ (k.prev[x] \in L /\ k.next[k.prev[x]] = x)
      /\ \A x \in L : x \notin Behind(k, k.next[x])
  BY <1>1, <1>2, ChainFacts
<1>6. /\ k.prev[h] = NULL
      /\ \A x \in L : k.next[x] # NULL => k.prev[k.next[x]] = x
      /\ \E z \in L : k.next[z] = NULL
  BY <1>1, <1>2 DEF Chain
<1>7. \A x \in L : x \in Behind(k, x) /\ Behind(k, x) \subseteq L
      /\ \A f \in Behind(k, x) : k.next[f] \in Behind(k, x) \cup {NULL}
  BY <1>1, <1>2, BehindClosed, BehindTrans
<1>8. \A x \in L : k.next[x] # x
  <2>1. ASSUME NEW x \in L, k.next[x] = x PROVE FALSE
    BY <2>1, <1>5, <1>7
  <2> QED BY <2>1
<1>9. p \in L \cup {NULL} /\ n \in L \cup {NULL} /\ p # e /\ n # e /\ (p # NULL => k.next[p] = e)
      /\ (e = h <=> p = NULL)
  <2>1. e = h => p = NULL
    BY <1>6
  <2>2. e # h => p \in L /\ k.next[p] = e
    BY <1>5
  <2> QED
    BY <2>1, <2>2, <1>1, <1>2, <1>8
<1> HIDE DEF L, n, p, h
<1>10. ASSUME NEW x \in L, x # e PROVE Behind(k2, x) = Behind(k, x) \ {e}
  <2> DEFINE B == Behind(k, x) \ {e}
             C == Behind(k2, x)
             S == C \cup (IF p \in C THEN {e} ELSE {})
  <2>0. x \in Event
    BY <1>1
  <2>1. x \in B
    BY <1>7, <1>10
  <2>2. ASSUME NEW f \in B PROVE k2.next[f] \in B \cup {NULL}
    <3>1. f \in L /\ f # e /\ k.next[f] \in Behind(k, x) \cup {NULL} /\ f \in Event
      BY <1>1, <1>7
    <3>2. CASE f = p
      <4>1. k.next[f] = e /\ e \in Behind(k, x)
        BY <3>1, <3>2, <1>2, <1>9
      <4>2. n \in Behind(k, x) \cup {NULL}
        BY <4>1, <1>7 DEF n
      <4> QED
        BY <3>1, <3>2, <4>2, <1>3, <1>9
    <3>3. CASE f # p
      <4>1. k.next[f] # e
        BY <3>1, <3>3, <1>2, <1>6 DEF p
      <4> QED
        BY <3>1, <3>3, <4>1, <1>3
    <3> QED BY <3>2, <3>3
  <2>3. C \subseteq B
    <3> HIDE DEF B
    <3> QED BY <2>0, <2>1, <2>2, BehindLeast
  <2>4. x \in C /\ \A f \in C : k2.next[f] \in C \cup {NULL}
    BY <2>0, <1>4, BehindClosed
  <2>5. ASSUME NEW f \in S PROVE k.next[f] \in S \cup {NULL}
    <3>1. CASE f = e
      <4>1. p \in C /\ p \in Event
        BY <3>1, <2>3, <1>1, <1>7
      <4>2. k2.next[p] = n /\ n \in C \cup {NULL}
        BY <4>1, <2>4, <1>3
      <4> QED
        BY <3>1, <4>2 DEF n
    <3>2. CASE f # e
      <4>1. f \in C /\ f \in L /\ f \in Event /\ k2.next[f] \in C \cup {NULL}
        BY <3>2, <2>3, <2>4, <1>1, <1>7
      <4>2. CASE f = p
        BY <4>1, <4>2, <1>2, <1>9
      <4>3. CASE f # p
        BY <4>1, <4>3, <1>3
      <4> QED BY <4>2, <4>3
    <3> QED BY <3>1, <3>2
  <2>6. Behind(k, x) \subseteq S
    <3> HIDE DEF S
    <3>1. x \in S
      BY <2>4 DEF S
    <3> QED BY <3>1, <2>0, <2>5, BehindLeast
  <2> QED
    BY <2>3, <2>6
<1>11. Behind(k2, h2) = L \ {e}
  <2>1. CASE h = e
    <3>1. L = {e} \cup Behind(k, n) /\ e \notin Behind(k, n)
      BY <2>1, <1>1, <1>2, <1>5, BehindUnfold DEF n
    <3>2. CASE n = NULL
      BY <2>1, <3>1, <3>2, <1>4, BehindNull
    <3>3. CASE n # NULL
      BY <2>1, <3>1, <3>3, <1>4, <1>9, <1>10
    <3> QED BY <3>2, <3>3
  <2>2. CASE h # e
    BY <2>2, <1>1, <1>2, <1>4, <1>10
  <2> QED BY <2>1, <2>2
<1>12. Chain(k2, h2)
  <2> SUFFICES ASSUME h2 # NULL PROVE Chain(k2, h2)
    BY DEF Chain
  <2>1. k2.prev[h2] = NULL
    <3>1. CASE h = e
      BY <3>1, <1>1, <1>3, <1>4, <1>9
    <3>2. CASE h # e
      <4>1. h # n
        BY <3>2, <1>1, <1>2, <1>6 DEF n
      <4> QED
        BY <3>2, <4>1, <1>2, <1>3, <1>4, <1>6
    <3> QED BY <3>1, <3>2
  <2>2. ASSUME NEW f \in L \ {e}, k2.next[f] # NULL PROVE k2.prev[k2.next[f]] = f
    <3>1. f \in L /\ f \in Event
      BY <1>1
    <3>2. CASE f = p
      <4>1. k2.next[f] = n /\ n \in Event
        BY <3>1, <3>2, <2>2, <1>1, <1>3, <1>9
      <4> QED
        BY <3>2, <4>1, <1>3
    <3>3. CASE f # p
      <4>1. k2.next[f] = k.next[f] /\ k.next[f] \in Event /\ k.prev[k.next[f]] = f
        BY <3>1, <3>3, <2>2, <1>1, <1>3, <1>6
      <4>2. k.next[f] # n
        <5>1. k.next[f] = n => k.prev[n] = e
          BY <4>1, <1>2, <1>6 DEF n
        <5> QED
          BY <5>1, <4>1, <2>2
      <4> QED
        BY <4>1, <4>2, <1>3
    <3> QED BY <3>2, <3>3
  <2>3. \E z \in L \ {e} : k2.next[z] = NULL
    <3>1. PICK z \in L : k.next[z] = NULL
      BY <1>6
    <3>2. CASE z = e
      <4>1. n = NULL /\ h # e
        BY <3>1, <3>2, <1>4 DEF n
      <4>2. p \in L \ {e} /\ p \in Event
        BY <4>1, <1>1, <1>9
      <4> QED
        BY <4>1, <4>2, <1>3
    <3>3. CASE z # e
      <4>1. z # p
        BY <3>1, <1>2, <1>9, <1>1
      <4> QED
        BY <3>1, <3>3, <4>1, <1>1, <1>3
    <3> QED BY <3>2, <3>3
  <2> QED
    BY <2>1, <2>2, <2>3, <1>11 DEF Chain
<1>13. ASSUME NEW nm \in Type \ {name}
       PROVE  /\ List(k2, nm) = List(k, nm) /\ Chain(k2, k2.head[nm])
              /\ \A x \in List(k, nm) : Behind(k2, x) = Behind(k, x)
  <2>0. List(k, nm) \subseteq OfType[nm]
    BY ListFacts
  <2>1. \A f \in List(k, nm) : f # p /\ f # n /\ f \in Event
    BY <2>0, <1>1, <1>2, <1>9, TypeFacts
  <2>2. /\ \A f \in List(k, nm) : k2.next[f] = k.next[f] /\ k2.prev[f] = k.prev[f]
        /\ k2.head[nm] = k.head[nm]
    BY <2>1, <1>2, <1>3
  <2> QED
    BY <2>2, <1>3, OtherList
<1>14. ListsOK(k2)
  BY <1>3, <1>12, <1>13 DEF ListsOK
<1>15. List(k2, name) = L \ {e}
  BY <1>11 DEF List
<1>16. k2.next[e] = k.next[e] /\ k2.prev[e] = k.prev[e]
  BY <1>2, <1>3, <1>9
<1> QED
  BY <1>3, <1>10, <1>13, <1>14, <1>15, <1>16 DEF L, p

\* e points into a list that does not point to it.
Loose(k, e) ==
    /\ k.next[e] # NULL => k.prev[k.next[e]] = k.prev[e]
    /\ k.prev[e] # NULL => k.next[k.prev[e]] = k.next[e]
    /\ \A name \in Type : k.head[name] # e

\* del_event changes nothing then.
LEMMA DelLoose ==
  ASSUME NEW k, Fields(k), NEW e \in Event, Loose(k, e)
  PROVE  del_event(k, e) = k
<1> DEFINE nx == [f \in Event |-> IF f = k.prev[e] THEN k.next[e] ELSE k.next[f]]
           pv == [f \in Event |-> IF f = k.next[e] THEN k.prev[e] ELSE k.prev[f]]
           hd == [k.head EXCEPT ![ListOf(e)] = IF @ = e THEN k.next[e] ELSE @]
<1>1. /\ k.next \in [Event -> Event \cup {NULL}] /\ k.prev \in [Event -> Event \cup {NULL}]
      /\ k.head = [name \in Type |-> k.head[name]] /\ NULL \notin Event /\ ListOf(e) \in Type
      /\ k = Lists(k.next, k.prev, k.head)
  BY TypeFacts DEF Fields, Lists
<1>2. nx = k.next
  BY <1>1 DEF Loose
<1>3. pv = k.prev
  BY <1>1 DEF Loose
<1>4. hd = k.head
  BY <1>1 DEF Loose
<1>5. del_event(k, e) = Lists(nx, pv, hd)
  BY DelForm
<1> QED
  BY <1>1, <1>2, <1>3, <1>4, <1>5

\* An event that was removed still points to its neighbors, which point past it.
LEMMA DelLoosens ==
  ASSUME NEW k, ListsOK(k), NEW name \in Type, NEW e \in List(k, name),
         NEW k2, k2 = del_event(k, e)
  PROVE  Loose(k2, e)
<1> DEFINE n == k.next[e]
           p == k.prev[e]
<1>1. /\ ListsOK(k2) /\ List(k2, name) = List(k, name) \ {e} /\ k2.next[e] = n /\ k2.prev[e] = p
  BY DelKeeps
<1>2. e \in Event /\ ListOf(e) = name /\ Fields(k) /\ NULL \notin Event /\ e \in OfType[name]
  BY ListFacts, TypeFacts
<1>3. /\ \A f \in Event : k2.next[f] = IF f = k.prev[e] THEN k.next[e] ELSE k.next[f]
      /\ \A f \in Event : k2.prev[f] = IF f = k.next[e] THEN k.prev[e] ELSE k.prev[f]
  BY <1>2, DelFields
<1>4. n \in Event \cup {NULL} /\ p \in Event \cup {NULL}
  BY <1>2 DEF Fields
<1>5. ASSUME NEW nm \in Type PROVE k2.head[nm] # e
  <2>1. CASE nm = name
    BY <2>1, <1>1, <1>2, ListFacts
  <2>2. CASE nm # name
    BY <2>2, <1>1, <1>2, ListFacts, TypeFacts
  <2> QED BY <2>1, <2>2
<1> QED
  BY <1>1, <1>3, <1>4, <1>5 DEF Loose

\* e goes into a list between p and f.
LEMMA InsertKeeps ==
  ASSUME NEW k, ListsOK(k), NEW name \in Type, NEW e \in OfType[name], e \notin List(k, name),
         NEW p \in List(k, name) \cup {NULL}, NEW f \in List(k, name) \cup {NULL},
         p = NULL => f = k.head[name], p # NULL => k.next[p] = f, f # NULL => k.prev[f] = p,
         NEW k2, Fields(k2), k2.next[e] = f, k2.prev[e] = p,
         \A x \in List(k, name) : /\ k2.next[x] = IF x = p THEN e ELSE k.next[x]
                                  /\ k2.prev[x] = IF x = f THEN e ELSE k.prev[x],
         k2.head[name] = IF p = NULL THEN e ELSE k.head[name],
         \A nm \in Type \ {name} :
           /\ k2.head[nm] = k.head[nm]
           /\ \A x \in List(k, nm) : k2.next[x] = k.next[x] /\ k2.prev[x] = k.prev[x]
  PROVE  /\ ListsOK(k2) /\ List(k2, name) = List(k, name) \cup {e}
         /\ \A nm \in Type \ {name} : List(k2, nm) = List(k, nm)
         /\ \A nm \in Type \ {name} : \A x \in List(k, nm) : Behind(k2, x) = Behind(k, x)
         /\ p = NULL => \A x \in List(k, name) : Behind(k2, x) = Behind(k, x)
<1> DEFINE L == List(k, name)
           h == k.head[name]
           h2 == k2.head[name]
<1>1. /\ L \subseteq Event /\ SameType(k) /\ SameType(k2) /\ Chain(k, h)
      /\ h # NULL => h \in L /\ h \in Event
      /\ h = NULL => L = {}
      /\ \A x \in L : k.next[x] \in L \cup {NULL}
  BY ListFacts DEF Fields
<1>2. e \in Event /\ e # NULL /\ NULL \notin Event /\ L = Behind(k, h)
  BY TypeFacts DEF List
<1>3. h # NULL => /\ k.prev[h] = NULL
                  /\ \A x \in L : k.next[x] # NULL => k.prev[k.next[x]] = x
                  /\ \E z \in L : k.next[z] = NULL
  BY <1>1, <1>2 DEF Chain
<1>4. h2 # NULL /\ h2 \in L \cup {e} /\ h2 \in Event
  BY <1>1, <1>2
<1>5. p = NULL => \A x \in L : Behind(k2, x) = Behind(k, x)
  <2>1. ASSUME p = NULL, NEW x \in L PROVE Behind(k2, x) = Behind(k, x)
    <3>1. \A y \in L : k2.next[y] = k.next[y]
      BY <2>1, <1>1, <1>2
    <3>2. Behind(k, x) \subseteq L
      BY <1>1, BehindLeast
    <3> QED
      BY <3>1, <3>2, <1>1, BehindAgree
  <2> QED BY <2>1
<1>6. Behind(k2, h2) \subseteq L \cup {e}
  <2> DEFINE S == L \cup {e}
  <2>1. \A x \in S : k2.next[x] \in S \cup {NULL}
    BY <1>1, <1>2
  <2>2. h2 \in S
    BY <1>4
  <2> HIDE DEF S
  <2>3. Behind(k2, h2) \subseteq S
    BY <2>1, <2>2, <1>4, BehindLeast
  <2> QED
    BY <2>3 DEF S
<1>7. L \cup {e} \subseteq Behind(k2, h2)
  <2>1. CASE p = NULL
    <3>1. h2 = e /\ Behind(k2, e) = {e} \cup Behind(k2, f)
      BY <2>1, <1>1, <1>2, BehindUnfold
    <3>2. CASE f = NULL
      BY <2>1, <3>1, <3>2, <1>1
    <3>3. CASE f # NULL
      <4>1. f = h /\ f \in L /\ Behind(k2, f) = Behind(k, f)
        BY <2>1, <3>3, <1>1, <1>5
      <4> QED
        BY <3>1, <4>1, <1>2
    <3> QED BY <3>2, <3>3
  <2>2. CASE p # NULL
    <3> DEFINE S == Behind(k2, h2)
    <3>1. p \in L /\ h2 = h /\ h # NULL /\ h \in Event
      BY <2>2, <1>1
    <3>2. h \in S /\ \A x \in S : k2.next[x] \in S \cup {NULL}
      BY <3>1, <1>1, BehindClosed
    <3>3. ASSUME NEW x \in Behind(k, h), x \in S PROVE k.next[x] \in S \cup {NULL}
      <4>1. x \in L /\ k2.next[x] = IF x = p THEN e ELSE k.next[x]
        BY <1>2
      <4>2. CASE x = p
        <5>1. e \in S
          BY <3>2, <3>3, <4>1, <4>2, <1>2
        <5>2. f \in S \cup {NULL}
          BY <5>1, <3>2
        <5> QED
          BY <5>2, <4>2, <2>2
      <4>3. CASE x # p
        BY <3>2, <3>3, <4>1, <4>3
      <4> QED BY <4>2, <4>3
    <3> HIDE DEF S
    <3>4. L \subseteq S
      BY <3>1, <3>2, <3>3, <1>1, <1>2, BehindInduct
    <3>5. e \in S
      BY <3>1, <3>2, <3>4, <1>2
    <3> QED
      BY <3>4, <3>5 DEF S
  <2> QED BY <2>1, <2>2
<1>8. Behind(k2, h2) = L \cup {e}
  BY <1>6, <1>7
<1>9. Chain(k2, h2)
  <2>1. k2.prev[h2] = NULL
    <3>1. CASE p = NULL
      BY <3>1
    <3>2. CASE p # NULL
      <4>1. h2 = h /\ h # NULL /\ h \in L /\ k.prev[h] = NULL
        BY <3>2, <1>1, <1>3
      <4>2. h # f
        BY <3>2, <4>1
      <4> QED
        BY <4>1, <4>2
    <3> QED BY <3>1, <3>2
  <2>2. ASSUME NEW x \in L \cup {e}, k2.next[x] # NULL PROVE k2.prev[k2.next[x]] = x
    <3>1. CASE x = e
      BY <3>1, <2>2, <1>2
    <3>2. CASE x = p
      BY <3>2, <2>2, <1>1, <1>2
    <3>3. CASE x # e /\ x # p
      <4> DEFINE y == k.next[x]
      <4>1. x \in L /\ k2.next[x] = y /\ y \in L /\ h # NULL
        BY <3>3, <2>2, <1>1
      <4>2. k.prev[y] = x
        BY <4>1, <2>2, <1>3
      <4>3. y # f
        BY <4>1, <4>2, <2>2, <3>3
      <4> QED
        BY <4>1, <4>2, <4>3
    <3> QED BY <3>1, <3>2, <3>3
  <2>3. \E z \in L \cup {e} : k2.next[z] = NULL
    <3>1. CASE f = NULL
      BY <3>1
    <3>2. CASE f # NULL
      <4>1. h # NULL
        BY <3>2, <1>1
      <4>2. PICK z \in L : k.next[z] = NULL
        BY <4>1, <1>3
      <4>3. z # p
        BY <4>2, <3>2, <1>1, <1>2
      <4> QED
        BY <4>2, <4>3
    <3> QED BY <3>1, <3>2
  <2> QED
    BY <2>1, <2>2, <2>3, <1>8 DEF Chain
<1>10. ASSUME NEW nm \in Type \ {name}
       PROVE  /\ List(k2, nm) = List(k, nm) /\ Chain(k2, k2.head[nm])
              /\ \A x \in List(k, nm) : Behind(k2, x) = Behind(k, x)
  BY OtherList
<1>11. ListsOK(k2)
  BY <1>9, <1>10 DEF ListsOK
<1>12. List(k2, name) = L \cup {e}
  BY <1>8 DEF List
<1> QED
  BY <1>5, <1>10, <1>11, <1>12

-----------------------------------------------------------------------------
(* The operations that put an event into a list. *)

\* The lists of three such functions are the record that Fields asks for.
LEMMA ListsFields ==
  ASSUME NEW nx \in [Event -> Event \cup {NULL}], NEW pv \in [Event -> Event \cup {NULL}],
         NEW hd, hd = [name \in Type |-> hd[name]],
         \A name \in Type : hd[name] \in OfType[name] \cup {NULL},
         \A f \in Event : /\ nx[f] \in OfType[ListOf(f)] \cup {NULL}
                          /\ pv[f] \in OfType[ListOf(f)] \cup {NULL},
         NEW k, k = Lists(nx, pv, hd)
  PROVE  Fields(k) /\ k.next = nx /\ k.prev = pv /\ k.head = hd
<1>1. k.next = nx /\ k.prev = pv /\ k.head = hd /\ k = [next |-> k.next, prev |-> k.prev, head |-> k.head]
  BY DEF Lists
<1>2. SameType(k)
  BY <1>1 DEF SameType
<1> QED
  BY <1>1, <1>2 DEF Fields

\* What Fields says of each pointer.
LEMMA FieldFacts ==
  ASSUME NEW k, Fields(k)
  PROVE  /\ k = Lists(k.next, k.prev, k.head) /\ DOMAIN k = {"next", "prev", "head"}
         /\ k.next \in [Event -> Event \cup {NULL}] /\ k.prev \in [Event -> Event \cup {NULL}]
         /\ k.head = [name \in Type |-> k.head[name]] /\ DOMAIN k.head = Type
         /\ \A name \in Type : k.head[name] \in OfType[name] \cup {NULL}
         /\ \A f \in Event : /\ k.next[f] \in OfType[ListOf(f)] \cup {NULL}
                             /\ k.prev[f] \in OfType[ListOf(f)] \cup {NULL}
BY DEF Fields, Lists, SameType

\* new_event, field by field.
LEMMA NewFields ==
  ASSUME NEW k, Fields(k), NEW e \in Event, NEW k2, k2 = new_event(k, e)
  PROVE  /\ Fields(k2)
         /\ \A f \in Event : k2.next[f] = IF f = e THEN NULL ELSE k.next[f]
         /\ \A f \in Event : k2.prev[f] = IF f = e THEN NULL ELSE k.prev[f]
         /\ k2.head = k.head
<1> DEFINE nx == [k.next EXCEPT ![e] = NULL]
           pv == [k.prev EXCEPT ![e] = NULL]
           hd == k.head
<1>1. /\ k = Lists(k.next, k.prev, k.head) /\ DOMAIN k = {"next", "prev", "head"}
      /\ k.next \in [Event -> Event \cup {NULL}] /\ k.prev \in [Event -> Event \cup {NULL}]
      /\ k.head = [name \in Type |-> k.head[name]] /\ DOMAIN k.head = Type
      /\ \A name \in Type : k.head[name] \in OfType[name] \cup {NULL}
      /\ \A f \in Event : /\ k.next[f] \in OfType[ListOf(f)] \cup {NULL}
                          /\ k.prev[f] \in OfType[ListOf(f)] \cup {NULL}
  BY FieldFacts
<1>2. k2 = [[k EXCEPT !.next = nx] EXCEPT !.prev = pv]
  BY <1>1 DEF new_event
<1>3. /\ nx \in [Event -> Event \cup {NULL}] /\ pv \in [Event -> Event \cup {NULL}]
      /\ \A f \in Event : nx[f] = IF f = e THEN NULL ELSE k.next[f]
      /\ \A f \in Event : pv[f] = IF f = e THEN NULL ELSE k.prev[f]
  BY <1>1
<1> HIDE DEF nx, pv
<1>4. [k EXCEPT !.next = nx] = Lists(nx, k.prev, k.head)
  BY <1>1, SetNext
<1>a. [Lists(nx, k.prev, k.head) EXCEPT !.prev = pv] = Lists(nx, pv, k.head)
  BY SetPrev
<1>5. k2 = Lists(nx, pv, k.head)
  BY <1>2, <1>4, <1>a
<1>6. \A f \in Event : /\ nx[f] \in OfType[ListOf(f)] \cup {NULL}
                       /\ pv[f] \in OfType[ListOf(f)] \cup {NULL}
  BY <1>1, <1>3
<1>7. Fields(k2) /\ k2.next = nx /\ k2.prev = pv /\ k2.head = k.head
  BY <1>1, <1>3, <1>5, <1>6, ListsFields
<1> QED
  BY <1>3, <1>7

\* Front, field by field.
LEMMA FrontFields ==
  ASSUME NEW k, Fields(k), NEW e \in Event, k.head[ListOf(e)] # e, NEW k2, k2 = Front(k, e)
  PROVE  /\ Fields(k2)
         /\ \A f \in Event : k2.next[f] = IF f = e THEN k.head[ListOf(e)] ELSE k.next[f]
         /\ \A f \in Event : k2.prev[f] = IF f = e THEN NULL
                                          ELSE IF f = k.head[ListOf(e)] THEN e ELSE k.prev[f]
         /\ \A name \in Type : k2.head[name] = IF name = ListOf(e) THEN e ELSE k.head[name]
<1> DEFINE n == new_event(k, e)
           first == n.head[ListOf(e)]
           nx == [n.next EXCEPT ![e] = first]
           pv == [f \in Event |-> IF f = first THEN e ELSE n.prev[f]]
           hd == [n.head EXCEPT ![ListOf(e)] = e]
<1>0. k2 = [n EXCEPT !.next[e] = first,
                  !.prev = [f \in Event |-> IF f = first THEN e ELSE @[f]],
                  !.head[ListOf(e)] = e]
  BY DEF Front
<1>a. /\ Fields(n) /\ n.head = k.head
      /\ \A f \in Event : n.next[f] = IF f = e THEN NULL ELSE k.next[f]
      /\ \A f \in Event : n.prev[f] = IF f = e THEN NULL ELSE k.prev[f]
  BY NewFields
<1> HIDE DEF n
<1>1. /\ n = Lists(n.next, n.prev, n.head) /\ DOMAIN n = {"next", "prev", "head"}
      /\ n.next \in [Event -> Event \cup {NULL}] /\ n.prev \in [Event -> Event \cup {NULL}]
      /\ n.head = [name \in Type |-> n.head[name]] /\ DOMAIN n.head = Type
      /\ \A name \in Type : n.head[name] \in OfType[name] \cup {NULL}
      /\ \A f \in Event : /\ n.next[f] \in OfType[ListOf(f)] \cup {NULL}
                          /\ n.prev[f] \in OfType[ListOf(f)] \cup {NULL}
  BY <1>a, FieldFacts
<1>2. k2 = [[[n EXCEPT !.next = nx] EXCEPT !.prev = pv] EXCEPT !.head = hd]
  BY <1>0, <1>1
<1>b. ListOf(e) \in Type /\ e \in OfType[ListOf(e)] /\ first \in OfType[ListOf(e)] \cup {NULL}
  BY <1>1, TypeFacts
<1>c. first \in Event \cup {NULL} /\ (first # NULL => ListOf(first) = ListOf(e))
  BY <1>b, TypeFacts
<1>3. /\ nx \in [Event -> Event \cup {NULL}] /\ pv \in [Event -> Event \cup {NULL}]
      /\ \A f \in Event : nx[f] = IF f = e THEN first ELSE n.next[f]
      /\ \A f \in Event : pv[f] = IF f = first THEN e ELSE n.prev[f]
      /\ hd = [name \in Type |-> hd[name]]
      /\ \A name \in Type : hd[name] = IF name = ListOf(e) THEN e ELSE n.head[name]
  BY <1>1, <1>c
<1> HIDE DEF nx, pv, hd, first
<1>4. [n EXCEPT !.next = nx] = Lists(nx, n.prev, n.head)
  BY <1>1, SetNext
<1>5. [Lists(nx, n.prev, n.head) EXCEPT !.prev = pv] = Lists(nx, pv, n.head)
  BY SetPrev
<1>d. [Lists(nx, pv, n.head) EXCEPT !.head = hd] = Lists(nx, pv, hd)
  BY SetHead
<1>6. k2 = Lists(nx, pv, hd)
  BY <1>2, <1>4, <1>5, <1>d
<1>7. \A f \in Event : /\ nx[f] \in OfType[ListOf(f)] \cup {NULL}
                       /\ pv[f] \in OfType[ListOf(f)] \cup {NULL}
  BY <1>1, <1>3, <1>b, <1>c, TypeFacts
<1>8. \A name \in Type : hd[name] \in OfType[name] \cup {NULL}
  BY <1>1, <1>3, <1>b
<1>9. Fields(k2) /\ k2.next = nx /\ k2.prev = pv /\ k2.head = hd
  BY <1>3, <1>6, <1>7, <1>8, ListsFields
<1>10. first = k.head[ListOf(e)]
  BY <1>a DEF first
<1> QED
  BY <1>a, <1>3, <1>9, <1>10

\* No event is in two lists.
LEMMA ListsApart ==
  ASSUME NEW k, ListsOK(k), NEW name \in Type, NEW x \in OfType[name],
         NEW nm \in Type \ {name}
  PROVE  x \notin List(k, nm)
<1>1. List(k, nm) \subseteq OfType[nm]
  BY ListFacts
<1>2. x \notin OfType[nm]
  BY TypeFacts
<1> QED BY <1>1, <1>2

\* k2 is k with e put into the list between p and f.
Linked(k, name, e, p, f, k2) ==
    /\ Fields(k2)
    /\ \A g \in Event : k2.next[g] = IF g = e THEN f ELSE IF g = p THEN e ELSE k.next[g]
    /\ \A g \in Event : k2.prev[g] = IF g = e THEN p ELSE IF g = f THEN e ELSE k.prev[g]
    /\ \A nm \in Type : k2.head[nm] = IF nm = name /\ p = NULL THEN e ELSE k.head[nm]

\* InsertKeeps, with the links of all events.
LEMMA InsertAll ==
  ASSUME NEW k, ListsOK(k), NEW name \in Type, NEW e \in OfType[name], e \notin List(k, name),
         NEW p \in List(k, name) \cup {NULL}, NEW f \in List(k, name) \cup {NULL},
         p = NULL => f = k.head[name], p # NULL => k.next[p] = f, f # NULL => k.prev[f] = p,
         NEW k2, Linked(k, name, e, p, f, k2)
  PROVE  /\ ListsOK(k2) /\ List(k2, name) = List(k, name) \cup {e}
         /\ \A nm \in Type \ {name} : List(k2, nm) = List(k, nm)
         /\ \A nm \in Type \ {name} : \A x \in List(k, nm) : Behind(k2, x) = Behind(k, x)
         /\ p = NULL => \A x \in List(k, name) : Behind(k2, x) = Behind(k, x)
<1>0. /\ Fields(k2)
      /\ \A g \in Event : k2.next[g] = IF g = e THEN f ELSE IF g = p THEN e ELSE k.next[g]
      /\ \A g \in Event : k2.prev[g] = IF g = e THEN p ELSE IF g = f THEN e ELSE k.prev[g]
      /\ \A nm \in Type : k2.head[nm] = IF nm = name /\ p = NULL THEN e ELSE k.head[nm]
  BY DEF Linked
<1>1. e \in Event /\ Fields(k2) /\ k2.next[e] = f /\ k2.prev[e] = p
  BY <1>0, TypeFacts
<1>2. \A x \in List(k, name) : /\ k2.next[x] = IF x = p THEN e ELSE k.next[x]
                               /\ k2.prev[x] = IF x = f THEN e ELSE k.prev[x]
  <2>1. List(k, name) \subseteq Event
    BY ListFacts
  <2> QED BY <2>1, <1>0
<1>3. ASSUME NEW nm \in Type \ {name}
      PROVE  /\ k2.head[nm] = k.head[nm]
             /\ \A x \in List(k, nm) : k2.next[x] = k.next[x] /\ k2.prev[x] = k.prev[x]
  <2>1. List(k, name) \subseteq OfType[name] /\ List(k, nm) \subseteq Event
    BY ListFacts
  <2>2. ASSUME NEW x \in List(k, nm) PROVE x # e /\ x # p /\ x # f
    <3>1. x \in Event /\ x # NULL /\ x \notin OfType[name]
      BY <2>1, TypeFacts, ListsApart
    <3> QED BY <3>1, <2>1
  <2> QED BY <2>1, <2>2, <1>0
<1>4. k2.head[name] = IF p = NULL THEN e ELSE k.head[name]
  BY <1>0
<1>5. \A nm \in Type \ {name} :
        /\ k2.head[nm] = k.head[nm]
        /\ \A x \in List(k, nm) : k2.next[x] = k.next[x] /\ k2.prev[x] = k.prev[x]
  BY <1>3
<1>6. Fields(k2)
  BY <1>0
<1>7. k2.next[e] = f
  BY <1>1
<1>8. k2.prev[e] = p
  BY <1>1
<1> QED
  BY <1>2, <1>4, <1>5, <1>6, <1>7, <1>8, InsertKeeps

\* add_fd_event and add_always_event: the list gets a new head, and what was behind
\* an event still is.
LEMMA FrontKeeps ==
  ASSUME NEW k, ListsOK(k), NEW name \in Type, NEW e \in OfType[name], e \notin List(k, name),
         NEW k2, k2 = Front(k, e)
  PROVE  /\ ListsOK(k2) /\ List(k2, name) = List(k, name) \cup {e}
         /\ \A nm \in Type \ {name} : List(k2, nm) = List(k, nm)
         /\ \A nm \in Type : \A x \in List(k, nm) : Behind(k2, x) = Behind(k, x)
<1> DEFINE h == k.head[name]
<1>1. e \in Event /\ ListOf(e) = name /\ e # NULL
  BY TypeFacts
<1>2. Fields(k) /\ h \in List(k, name) \cup {NULL} /\ Chain(k, h)
  BY ListFacts
<1>3. h # e /\ (h # NULL => k.prev[h] = NULL)
  BY <1>1, <1>2 DEF Chain
<1>4. /\ Fields(k2)
      /\ \A f \in Event : k2.next[f] = IF f = e THEN h ELSE k.next[f]
      /\ \A f \in Event : k2.prev[f] = IF f = e THEN NULL ELSE IF f = h THEN e ELSE k.prev[f]
      /\ \A nm \in Type : k2.head[nm] = IF nm = name THEN e ELSE k.head[nm]
  BY <1>1, <1>2, <1>3, FrontFields
<1>5. NULL \notin Event
  BY TypeFacts
<1>6. \A g \in Event : k2.next[g] = IF g = e THEN h ELSE IF g = NULL THEN e ELSE k.next[g]
  BY <1>4, <1>5
<1>7. /\ ListsOK(k2) /\ List(k2, name) = List(k, name) \cup {e}
      /\ \A nm \in Type \ {name} : List(k2, nm) = List(k, nm)
      /\ \A nm \in Type \ {name} : \A x \in List(k, nm) : Behind(k2, x) = Behind(k, x)
      /\ \A x \in List(k, name) : Behind(k2, x) = Behind(k, x)
  <2> HIDE DEF h
  <2> DEFINE p == NULL
  <2>1. /\ p \in List(k, name) \cup {NULL} /\ (p = NULL => h = k.head[name])
        /\ p # NULL => k.next[p] = h
        /\ h # NULL => k.prev[h] = p
    BY <1>3 DEF h
  <2>2. Linked(k, name, e, p, h, k2)
    BY <1>4, <1>6 DEF Linked
  <2>3. p = NULL
    OBVIOUS
  <2> HIDE DEF p
  <2> QED
    BY <1>2, <2>1, <2>2, <2>3, InsertAll
<1> QED
  BY <1>7

\* new_event leaves the lists alone, and the new event is in none of them.
LEMMA NewKeeps ==
  ASSUME NEW k, ListsOK(k), NEW name \in Type, NEW e \in OfType[name], e \notin List(k, name),
         NEW k2, k2 = new_event(k, e)
  PROVE  /\ ListsOK(k2) /\ Loose(k2, e) /\ k2.next[e] = NULL /\ k2.prev[e] = NULL
         /\ \A nm \in Type : List(k2, nm) = List(k, nm)
         /\ \A nm \in Type : \A x \in List(k, nm) : /\ Behind(k2, x) = Behind(k, x)
                                                    /\ k2.next[x] = k.next[x]
<1>1. e \in Event /\ Fields(k)
  BY TypeFacts DEF ListsOK
<1>2. /\ Fields(k2)
      /\ \A f \in Event : k2.next[f] = IF f = e THEN NULL ELSE k.next[f]
      /\ \A f \in Event : k2.prev[f] = IF f = e THEN NULL ELSE k.prev[f]
      /\ k2.head = k.head
  BY <1>1, NewFields
<1>3. ASSUME NEW nm \in Type
      PROVE  /\ List(k, nm) \subseteq Event /\ e \notin List(k, nm) /\ k.head[nm] # e
  <2>1. e \notin List(k, nm)
    BY ListsApart
  <2> QED
    BY <2>1, <1>1, ListFacts, TypeFacts
<1>4. ASSUME NEW nm \in Type
      PROVE  /\ \A f \in List(k, nm) : k2.next[f] = k.next[f] /\ k2.prev[f] = k.prev[f]
             /\ k2.head[nm] = k.head[nm]
  BY <1>2, <1>3
<1>5. ASSUME NEW nm \in Type
      PROVE  /\ List(k2, nm) = List(k, nm) /\ Chain(k2, k2.head[nm])
             /\ \A x \in List(k, nm) : Behind(k2, x) = Behind(k, x)
  BY <1>2, <1>4, OtherList
<1>6. ListsOK(k2)
  BY <1>2, <1>5 DEF ListsOK
<1>7. Loose(k2, e)
  BY <1>1, <1>2, <1>3 DEF Loose
<1> QED
  BY <1>1, <1>2, <1>4, <1>5, <1>6, <1>7

\* Before, field by field.
LEMMA BeforeFields ==
  ASSUME NEW k, Fields(k), NEW e \in Time, NEW f \in Time, NEW k2, k2 = Before(k, e, f)
  PROVE  Linked(k, "time", e, k.prev[f], f, k2)
<1> DEFINE p == k.prev[f]
           nx == [g \in Event |-> IF g = e THEN f ELSE IF g = p THEN e ELSE k.next[g]]
           pv == [g \in Event |-> IF g = e THEN p ELSE IF g = f THEN e ELSE k.prev[g]]
           hd == [k.head EXCEPT !["time"] = IF p = NULL THEN e ELSE @]
<1>1. /\ k = Lists(k.next, k.prev, k.head) /\ DOMAIN k = {"next", "prev", "head"}
      /\ k.next \in [Event -> Event \cup {NULL}] /\ k.prev \in [Event -> Event \cup {NULL}]
      /\ k.head = [name \in Type |-> k.head[name]] /\ DOMAIN k.head = Type
      /\ \A name \in Type : k.head[name] \in OfType[name] \cup {NULL}
      /\ \A g \in Event : /\ k.next[g] \in OfType[ListOf(g)] \cup {NULL}
                          /\ k.prev[g] \in OfType[ListOf(g)] \cup {NULL}
  BY FieldFacts
<1>2. k2 = [[[k EXCEPT !.next = nx] EXCEPT !.prev = pv] EXCEPT !.head = hd]
  BY <1>1 DEF Before
<1>3. /\ "time" \in Type /\ OfType["time"] = Time /\ e \in Event /\ f \in Event
      /\ ListOf(e) = "time" /\ ListOf(f) = "time"
  BY TypeFacts DEF Type
<1>4. p \in Time \cup {NULL} /\ p \in Event \cup {NULL}
  BY <1>1, <1>3, TypeFacts
<1>5. p # NULL => ListOf(p) = "time"
  BY <1>3, <1>4, TypeFacts
<1>6. /\ nx \in [Event -> Event \cup {NULL}] /\ pv \in [Event -> Event \cup {NULL}]
      /\ \A g \in Event : nx[g] = IF g = e THEN f ELSE IF g = p THEN e ELSE k.next[g]
      /\ \A g \in Event : pv[g] = IF g = e THEN p ELSE IF g = f THEN e ELSE k.prev[g]
      /\ hd = [name \in Type |-> hd[name]]
      /\ \A nm \in Type : hd[nm] = IF nm = "time" /\ p = NULL THEN e ELSE k.head[nm]
  BY <1>1, <1>3, <1>4
<1> HIDE DEF nx, pv, hd, p
<1>7. [k EXCEPT !.next = nx] = Lists(nx, k.prev, k.head)
  BY <1>1, SetNext
<1>8. [Lists(nx, k.prev, k.head) EXCEPT !.prev = pv] = Lists(nx, pv, k.head)
  BY SetPrev
<1>9. [Lists(nx, pv, k.head) EXCEPT !.head = hd] = Lists(nx, pv, hd)
  BY SetHead
<1>10. k2 = Lists(nx, pv, hd)
  BY <1>2, <1>7, <1>8, <1>9
<1>11. \A g \in Event : /\ nx[g] \in OfType[ListOf(g)] \cup {NULL}
                        /\ pv[g] \in OfType[ListOf(g)] \cup {NULL}
  <2> SUFFICES ASSUME NEW g \in Event
               PROVE  /\ nx[g] \in OfType[ListOf(g)] \cup {NULL}
                      /\ pv[g] \in OfType[ListOf(g)] \cup {NULL}
    OBVIOUS
  <2>1. CASE g \in {e, f, p}
    <3>1. ListOf(g) = "time" /\ nx[g] \in Time \cup {NULL} /\ pv[g] \in Time \cup {NULL}
      BY <2>1, <1>1, <1>3, <1>4, <1>5, <1>6, TypeFacts
    <3> QED BY <3>1, <1>3
  <2>2. CASE g \notin {e, f, p}
    BY <2>2, <1>1, <1>6
  <2> QED BY <2>1, <2>2
<1>12. \A name \in Type : hd[name] \in OfType[name] \cup {NULL}
  BY <1>1, <1>3, <1>6
<1>13. Fields(k2) /\ k2.next = nx /\ k2.prev = pv /\ k2.head = hd
  BY <1>6, <1>10, <1>11, <1>12, ListsFields
<1> QED
  BY <1>6, <1>13 DEF p, Linked

\* After, field by field.
LEMMA AfterFields ==
  ASSUME NEW k, Fields(k), NEW e \in Time, NEW f \in Time, e # f, NEW k2, k2 = After(k, e, f)
  PROVE  Linked(k, "time", e, f, NULL, k2)
<1> DEFINE n1 == [k.next EXCEPT ![e] = NULL]
           nx == [n1 EXCEPT ![f] = e]
           pv == [k.prev EXCEPT ![e] = f]
<1>1. /\ k = Lists(k.next, k.prev, k.head) /\ DOMAIN k = {"next", "prev", "head"}
      /\ k.next \in [Event -> Event \cup {NULL}] /\ k.prev \in [Event -> Event \cup {NULL}]
      /\ k.head = [name \in Type |-> k.head[name]] /\ DOMAIN k.head = Type
      /\ \A name \in Type : k.head[name] \in OfType[name] \cup {NULL}
      /\ \A g \in Event : /\ k.next[g] \in OfType[ListOf(g)] \cup {NULL}
                          /\ k.prev[g] \in OfType[ListOf(g)] \cup {NULL}
  BY FieldFacts
<1>2. k2 = [[[k EXCEPT !.next = n1] EXCEPT !.prev = pv] EXCEPT !.next = nx]
  BY <1>1 DEF After
<1>3. /\ "time" \in Type /\ OfType["time"] = Time /\ e \in Event /\ f \in Event
      /\ ListOf(e) = "time" /\ ListOf(f) = "time"
  BY TypeFacts DEF Type
<1>4. /\ nx \in [Event -> Event \cup {NULL}] /\ pv \in [Event -> Event \cup {NULL}]
      /\ \A g \in Event : nx[g] = IF g = e THEN NULL ELSE IF g = f THEN e ELSE k.next[g]
      /\ \A g \in Event : pv[g] = IF g = e THEN f ELSE k.prev[g]
  BY <1>1, <1>3
<1> HIDE DEF n1, nx, pv
<1>5. [k EXCEPT !.next = n1] = Lists(n1, k.prev, k.head)
  BY <1>1, SetNext
<1>6. [Lists(n1, k.prev, k.head) EXCEPT !.prev = pv] = Lists(n1, pv, k.head)
  BY SetPrev
<1>7. [Lists(n1, pv, k.head) EXCEPT !.next = nx] = Lists(nx, pv, k.head)
  BY SetNext
<1>8. k2 = Lists(nx, pv, k.head)
  BY <1>2, <1>5, <1>6, <1>7
<1>9. \A g \in Event : /\ nx[g] \in OfType[ListOf(g)] \cup {NULL}
                       /\ pv[g] \in OfType[ListOf(g)] \cup {NULL}
  BY <1>1, <1>3, <1>4
<1>10. Fields(k2) /\ k2.next = nx /\ k2.prev = pv /\ k2.head = k.head
  BY <1>1, <1>4, <1>8, <1>9, ListsFields
<1>11. \A g \in Event : g # NULL
  BY TypeFacts
<1> QED
  BY <1>3, <1>4, <1>10, <1>11 DEF Linked

\* The list of e alone.
Alone(k, e) == [k EXCEPT !.head["time"] = e]

\* The first time event, field by field.
LEMMA AloneFields ==
  ASSUME NEW k, Fields(k), NEW e \in Time, NEW k2, k2 = Alone(k, e)
  PROVE  k.next[e] = NULL /\ k.prev[e] = NULL => Linked(k, "time", e, NULL, NULL, k2)
<1> DEFINE hd == [k.head EXCEPT !["time"] = e]
           nx == k.next
           pv == k.prev
<1>1. /\ k = Lists(k.next, k.prev, k.head) /\ DOMAIN k = {"next", "prev", "head"}
      /\ k.next \in [Event -> Event \cup {NULL}] /\ k.prev \in [Event -> Event \cup {NULL}]
      /\ k.head = [name \in Type |-> k.head[name]] /\ DOMAIN k.head = Type
      /\ \A name \in Type : k.head[name] \in OfType[name] \cup {NULL}
      /\ \A g \in Event : /\ k.next[g] \in OfType[ListOf(g)] \cup {NULL}
                          /\ k.prev[g] \in OfType[ListOf(g)] \cup {NULL}
  BY FieldFacts
<1>2. k2 = [k EXCEPT !.head = hd]
  BY <1>1 DEF Alone
<1>3. "time" \in Type /\ OfType["time"] = Time
  BY TypeFacts DEF Type
<1>4. /\ hd = [name \in Type |-> hd[name]]
      /\ \A nm \in Type : hd[nm] = IF nm = "time" THEN e ELSE k.head[nm]
  BY <1>1, <1>3
<1> HIDE DEF hd
<1>5. k2 = Lists(k.next, k.prev, hd)
  BY <1>1, <1>2, SetHead
<1>6. \A name \in Type : hd[name] \in OfType[name] \cup {NULL}
  BY <1>1, <1>3, <1>4
<1>7. /\ nx \in [Event -> Event \cup {NULL}] /\ pv \in [Event -> Event \cup {NULL}]
      /\ \A g \in Event : /\ nx[g] \in OfType[ListOf(g)] \cup {NULL}
                          /\ pv[g] \in OfType[ListOf(g)] \cup {NULL}
      /\ k2 = Lists(nx, pv, hd)
  BY <1>1, <1>5
<1> HIDE DEF nx, pv
<1>8. Fields(k2) /\ k2.next = nx /\ k2.prev = pv /\ k2.head = hd
  BY <1>4, <1>6, <1>7, ListsFields
<1>9. \A g \in Event : g # NULL
  BY TypeFacts
<1> QED
  BY <1>4, <1>8, <1>9 DEF nx, pv, Linked

-----------------------------------------------------------------------------
(* The list of the time events is sorted. *)

SortedBy(k, lf) == \A e \in List(k, "time") : k.next[e] # NULL => lf[e] <= lf[k.next[e]]

\* What is behind an event is due no earlier.
LEMMA SortedBehind ==
  ASSUME NEW k, ListsOK(k), NEW lf \in [Time -> Int], SortedBy(k, lf),
         NEW x \in List(k, "time"), NEW y \in Behind(k, x)
  PROVE  lf[x] <= lf[y]
<1> DEFINE S == {z \in Time : lf[x] <= lf[z]}
           h == k.head["time"]
<1>1. "time" \in Type /\ OfType["time"] = Time
  BY TypeFacts DEF Type
<1>2. /\ List(k, "time") \subseteq Time /\ List(k, "time") \subseteq Event /\ SameType(k)
      /\ \A z \in List(k, "time") : k.next[z] \in List(k, "time") \cup {NULL}
      /\ h = NULL => List(k, "time") = {}
      /\ h # NULL => h \in OfType["time"]
  BY <1>1, ListFacts
<1>3. h \in Event /\ x \in Behind(k, h) /\ x \in Event
  BY <1>1, <1>2, TypeFacts DEF List
<1>4. Behind(k, x) \subseteq List(k, "time")
  BY <1>2, <1>3, BehindTrans DEF List
<1>5. x \in S
  BY <1>2
<1>6. ASSUME NEW f \in Behind(k, x), f \in S PROVE k.next[f] \in S \cup {NULL}
  <2>1. f \in List(k, "time")
    BY <1>4
  <2>2. CASE k.next[f] # NULL
    <3>1. k.next[f] \in Time /\ lf[f] <= lf[k.next[f]] /\ lf[x] <= lf[f]
      BY <2>1, <2>2, <1>2, <1>6 DEF SortedBy
    <3>2. lf[x] \in Int /\ lf[f] \in Int /\ lf[k.next[f]] \in Int
      BY <3>1, <2>1, <1>2
    <3>3. lf[x] <= lf[k.next[f]]
      BY <3>1, <3>2
    <3> QED BY <3>1, <3>3
  <2> QED BY <2>2
<1> HIDE DEF S
<1>7. Behind(k, x) \subseteq S
  BY <1>2, <1>3, <1>5, <1>6, BehindInduct
<1> QED
  BY <1>7 DEF S

\* The pointers of e, when it is to be the only time event.
Apart(n, e) == List(n, "time") = {} => n.next[e] = NULL /\ n.prev[e] = NULL

\* The time event e was put into its list.
Placed(n, e, k2, lf) ==
    /\ ListsOK(k2) /\ List(k2, "time") = List(n, "time") \cup {e}
    /\ \A nm \in Type \ {"time"} : List(k2, nm) = List(n, nm)
    /\ \A nm \in Type \ {"time"} : \A x \in List(n, nm) : Behind(k2, x) = Behind(n, x)
    /\ SortedBy(k2, lf)

\* resched_time_event puts a time event where it keeps the list linked and sorted.
LEMMA InTimeKeeps ==
  ASSUME left \in [Time -> Int],
         NEW k, NEW e \in Time, NEW n, n = del_event(k, e), ListsOK(n),
         e \notin List(n, "time"), SortedBy(n, left),
         Apart(n, e),
         NEW msec \in Nat, NEW k2, k2 = InTime(k, e, msec)
  PROVE  Placed(n, e, k2, [left EXCEPT ![e] = msec])
<1> DEFINE T == List(n, "time")
           h == n.head["time"]
           later == {x \in T : left[x] > msec}
           lf == [left EXCEPT ![e] = msec]
<1>1. "time" \in Type /\ OfType["time"] = Time /\ e \in OfType["time"] /\ e \in Event /\ e # NULL
  BY TypeFacts DEF Type
<1>2. /\ T \subseteq Time /\ T \subseteq Event /\ SameType(n) /\ Fields(n) /\ Chain(n, h)
      /\ \A x \in T : n.next[x] \in T \cup {NULL}
      /\ h = NULL => T = {}
      /\ h # NULL => h \in T /\ h \in OfType["time"]
  BY <1>1, ListFacts
<1>3. /\ NULL \notin Event /\ T = Behind(n, h) /\ e \notin T
  BY TypeFacts DEF List
<1>4. h # NULL => /\ n.prev[h] = NULL
                  /\ \A x \in T : n.next[x] # NULL => n.prev[n.next[x]] = x
                  /\ \E z \in T : n.next[z] = NULL
                  /\ \A x \in T : x = h \/ (n.prev[x] \in T /\ n.next[n.prev[x]] = x)
                  /\ \A x \in T : x \notin Behind(n, n.next[x])
  <2>1. h # NULL => h \in Event
    BY <1>2
  <2>2. h # NULL => /\ \A x \in Behind(n, h) :
                         x = h \/ (n.prev[x] \in Behind(n, h) /\ n.next[n.prev[x]] = x)
                    /\ \A x \in Behind(n, h) : x \notin Behind(n, n.next[x])
    BY <1>2, <2>1, ChainFacts
  <2>3. h # NULL => /\ n.prev[h] = NULL
                    /\ \A x \in Behind(n, h) : n.next[x] # NULL => n.prev[n.next[x]] = x
                    /\ \E z \in Behind(n, h) : n.next[z] = NULL
    BY <1>2 DEF Chain
  <2> QED
    BY <2>2, <2>3, <1>3
<1>5. k2 = IF T = {} THEN [n EXCEPT !.head["time"] = e]
           ELSE IF later # {} THEN Before(n, e, CHOOSE f \in later : later \subseteq Behind(n, f))
           ELSE After(n, e, CHOOSE f \in T : n.next[f] = NULL)
  BY DEF InTime
<1>6. \A x \in Time : lf[x] = IF x = e THEN msec ELSE left[x]
  OBVIOUS
<1> HIDE DEF T, lf
\* Where e goes: between p and f, behind all events that are not due later.
<1> DEFINE Place(p, f) ==
             /\ p \in T \cup {NULL} /\ f \in T \cup {NULL}
             /\ p = NULL => f = h
             /\ p # NULL => n.next[p] = f /\ left[p] <= msec
             /\ f # NULL => n.prev[f] = p /\ msec <= left[f]
             /\ Linked(n, "time", e, p, f, k2)
<1>7. \E p, f : Place(p, f)
  <2>1. CASE T = {}
    <3>1. h = NULL /\ n.next[e] = NULL /\ n.prev[e] = NULL
      BY <2>1, <1>2 DEF T, Apart
    <3>2. k2 = Alone(n, e) /\ Fields(n)
      BY <2>1, <1>2, <1>5 DEF Alone
    <3>3. Linked(n, "time", e, NULL, NULL, k2)
      BY <3>1, <3>2, AloneFields
    <3>4. Place(NULL, NULL)
      BY <3>1, <3>3, <1>3
    <3> QED BY <3>4
  <2>2. CASE T # {} /\ later # {}
    <3> DEFINE f == CHOOSE f \in later : later \subseteq Behind(n, f)
               p == n.prev[f]
    <3>1. h # NULL /\ h \in Event /\ later \subseteq Behind(n, h)
      BY <2>2, <1>2, <1>3
    <3>2. f \in later /\ later \subseteq Behind(n, f)
      <4> HIDE DEF later
      <4>1. \E g \in later : later \subseteq Behind(n, g)
        BY <2>2, <3>1, <1>2, FirstOf
      <4> QED BY <4>1
    <3>3. k2 = Before(n, e, f)
      BY <2>2, <1>5
    <3> HIDE DEF f
    <3>4. f \in T /\ f \in Time /\ f # NULL /\ left[f] > msec
      BY <3>2, <1>2, <1>3
    <3>a. Fields(n)
      BY <1>2
    <3>5. Linked(n, "time", e, p, f, k2)
      BY <3>3, <3>4, <3>a, BeforeFields
    <3> HIDE DEF p
    <3>6. (f = h /\ p = NULL) \/ (p \in T /\ n.next[p] = f)
      BY <3>1, <3>4, <1>4 DEF p
    <3>7. p \in T => left[p] <= msec
      <4>1. SUFFICES ASSUME p \in T, left[p] > msec PROVE FALSE
        BY <1>2
      <4>2. p \in Behind(n, f)
        BY <4>1, <3>2
      <4>3. n.next[p] = f
        BY <3>6, <4>1, <1>2, <1>3
      <4> QED
        BY <4>1, <4>2, <4>3, <3>1, <1>4
    <3>8. p # NULL => p \in T
      BY <3>6
    <3>9. left[f] \in Int
      BY <3>4
    <3>10. msec <= left[f]
      BY <3>4, <3>9
    <3>11. n.prev[f] = p
      BY DEF p
    <3>12. (p = NULL => f = h) /\ (p # NULL => n.next[p] = f)
      BY <3>6, <1>2, <1>3
    <3>13. Place(p, f)
      BY <3>4, <3>5, <3>7, <3>8, <3>10, <3>11, <3>12
    <3> QED BY <3>13
  <2>3. CASE T # {} /\ later = {}
    <3> DEFINE z == CHOOSE f \in T : n.next[f] = NULL
    <3>1. h # NULL
      BY <2>3, <1>2
    <3>2. z \in T /\ n.next[z] = NULL
      BY <3>1, <1>4
    <3>3. k2 = After(n, e, z)
      BY <2>3, <1>5
    <3> HIDE DEF z
    <3>4. z \in Time /\ z # e /\ z # NULL
      BY <3>2, <1>2, <1>3
    <3>5. Linked(n, "time", e, z, NULL, k2)
      BY <3>3, <3>4, <1>2, AfterFields
    <3>6. ~(left[z] > msec) /\ left[z] \in Int
      BY <2>3, <3>2, <3>4
    <3>7. left[z] <= msec
      BY <3>6
    <3>8. Place(z, NULL)
      BY <3>2, <3>4, <3>5, <3>7
    <3> QED BY <3>8
  <2> QED BY <2>1, <2>2, <2>3
<1>8. PICK p, f : Place(p, f)
  BY <1>7
<1>9. /\ ListsOK(k2) /\ List(k2, "time") = T \cup {e}
      /\ \A nm \in Type \ {"time"} : List(k2, nm) = List(n, nm)
      /\ \A nm \in Type \ {"time"} : \A x \in List(n, nm) : Behind(k2, x) = Behind(n, x)
  <2>1. /\ p \in List(n, "time") \cup {NULL} /\ f \in List(n, "time") \cup {NULL}
        /\ p = NULL => f = n.head["time"]
        /\ p # NULL => n.next[p] = f
        /\ f # NULL => n.prev[f] = p
    BY <1>8 DEF T
  <2>2. Linked(n, "time", e, p, f, k2)
    BY <1>8
  <2> DEFINE name == "time"
  <2>3. name \in Type /\ e \in OfType[name] /\ e \notin List(n, name)
    BY <1>1
  <2>4. /\ ListsOK(k2) /\ List(k2, name) = List(n, name) \cup {e}
        /\ \A nm \in Type \ {name} : List(k2, nm) = List(n, nm)
        /\ \A nm \in Type \ {name} : \A x \in List(n, nm) : Behind(k2, x) = Behind(n, x)
    <3>1. /\ p \in List(n, name) \cup {NULL} /\ f \in List(n, name) \cup {NULL}
          /\ p = NULL => f = n.head[name]
          /\ p # NULL => n.next[p] = f
          /\ f # NULL => n.prev[f] = p
          /\ Linked(n, name, e, p, f, k2)
      BY <2>1, <2>2
    <3> HIDE DEF name
    <3> QED
      BY <3>1, <2>3, InsertAll
  <2> QED
    BY <2>4 DEF T
<1>10. SortedBy(k2, lf)
  <2>a. \A g \in Event : k2.next[g] = IF g = e THEN f ELSE IF g = p THEN e ELSE n.next[g]
    BY <1>8 DEF Linked
  <2> SUFFICES ASSUME NEW x \in T \cup {e}, k2.next[x] # NULL
               PROVE  lf[x] <= lf[k2.next[x]]
    BY <1>9 DEF SortedBy
  <2>1. CASE x = e
    <3>1. k2.next[x] = f /\ f \in T /\ msec <= left[f]
      BY <2>1, <2>a, <1>8, <1>1
    <3> QED
      BY <2>1, <3>1, <1>2, <1>3, <1>6
  <2>2. CASE x = p
    <3>1. x \in T /\ x # e
      BY <2>2, <1>8, <1>1, <1>2, <1>3
    <3>2. k2.next[x] = e /\ left[p] <= msec
      BY <2>2, <2>a, <3>1, <1>8, <1>2, <1>3
    <3> QED
      BY <2>2, <3>1, <3>2, <1>2, <1>6
  <2>3. CASE x # e /\ x # p
    <3>1. x \in T /\ k2.next[x] = n.next[x] /\ n.next[x] \in T
      BY <2>3, <2>a, <1>2
    <3>2. left[x] <= left[n.next[x]]
      BY <3>1 DEF SortedBy, T
    <3> QED
      BY <3>1, <3>2, <1>2, <1>3, <1>6
  <2> QED BY <2>1, <2>2, <2>3
<1> QED
  BY <1>9, <1>10 DEF T, lf, Placed

\* A part of a sorted list, in its order, is sorted.
LEMMA SubSorted ==
  ASSUME NEW k, ListsOK(k), NEW lf \in [Time -> Int], SortedBy(k, lf), NEW k2, ListsOK(k2),
         List(k2, "time") \subseteq List(k, "time"),
         \A x \in List(k2, "time") : Behind(k2, x) \subseteq Behind(k, x)
  PROVE  SortedBy(k2, lf)
<1> SUFFICES ASSUME NEW x \in List(k2, "time"), k2.next[x] # NULL
             PROVE  lf[x] <= lf[k2.next[x]]
  BY DEF SortedBy
<1>1. "time" \in Type
  BY DEF Type
<1>2. x \in Event /\ SameType(k2)
  BY <1>1, ListFacts
<1>3. x \in Behind(k2, x) /\ k2.next[x] \in Behind(k2, x)
  BY <1>2, BehindClosed
<1>4. x \in List(k, "time") /\ k2.next[x] \in Behind(k, x)
  BY <1>3
<1> QED
  BY <1>4, SortedBehind

\* What the rest of the loop's list is, once the callback of x runs.
LEMMA RestOf ==
  ASSUME NEW k, ListsOK(k), NEW name \in Type, NEW x \in List(k, name)
  PROVE  /\ x \in Event /\ x \in Behind(k, x) /\ Behind(k, x) \subseteq List(k, name)
         /\ Behind(k, k.next[x]) = Behind(k, x) \ {x}
         /\ k.next[x] \in List(k, name) \cup {NULL} /\ k.next[x] # x
         /\ k.head[name] = x \/ (k.prev[x] \in List(k, name) /\ k.next[k.prev[x]] = x)
         /\ k.head[name] = x => k.prev[x] = NULL
<1> DEFINE h == k.head[name]
<1>1. /\ List(k, name) \subseteq Event /\ SameType(k) /\ Chain(k, h)
      /\ h = NULL => List(k, name) = {}
      /\ h # NULL => h \in List(k, name)
      /\ k.next[x] \in List(k, name) \cup {NULL}
  BY ListFacts
<1>2. h \in Event /\ List(k, name) = Behind(k, h) /\ h # NULL
  BY <1>1, TypeFacts DEF List
<1>3. /\ x = h \/ (k.prev[x] \in Behind(k, h) /\ k.next[k.prev[x]] = x)
      /\ x \notin Behind(k, k.next[x])
  BY <1>1, <1>2, ChainFacts
<1>4. x \in Event /\ x \in Behind(k, x) /\ Behind(k, x) = {x} \cup Behind(k, k.next[x])
  BY <1>1, BehindClosed, BehindUnfold
<1>5. Behind(k, x) \subseteq List(k, name)
  BY <1>1, <1>2, BehindTrans
<1>6. k.next[x] # x
  BY <1>3, <1>4
<1>7. k.prev[h] = NULL
  BY <1>1, <1>2 DEF Chain
<1> QED
  BY <1>1, <1>2, <1>3, <1>4, <1>5, <1>6, <1>7

\* The lists after e was added or moved, and after it was removed.
Added(k, e, k2) ==
    \A nm \in Type : /\ List(k2, nm) = IF e \in OfType[nm] THEN List(k, nm) \cup {e} ELSE List(k, nm)
                     /\ nm # "time" => \A x \in List(k, nm) : Behind(k2, x) = Behind(k, x)

Removed(k, e, k2) ==
    \A nm \in Type : /\ List(k2, nm) = List(k, nm) \ {e}
                     /\ \A x \in List(k, nm) \ {e} : Behind(k2, x) = Behind(k, x) \ {e}

\* add_fd_event and add_always_event.
LEMMA FrontEffect ==
  ASSUME NEW k, ListsOK(k), NEW lf \in [Time -> Int], SortedBy(k, lf),
         NEW name \in {"fd", "always"}, NEW e \in OfType[name], e \notin List(k, name),
         NEW k2, k2 = Front(k, e)
  PROVE  ListsOK(k2) /\ SortedBy(k2, lf) /\ Added(k, e, k2)
<1>1. name \in Type /\ "time" \in Type /\ name # "time"
  BY DEF Type
<1>2. /\ ListsOK(k2) /\ List(k2, name) = List(k, name) \cup {e}
      /\ \A nm \in Type \ {name} : List(k2, nm) = List(k, nm)
      /\ \A nm \in Type : \A x \in List(k, nm) : Behind(k2, x) = Behind(k, x)
  BY <1>1, FrontKeeps
<1>3. \A nm \in Type : e \in OfType[nm] <=> nm = name
  BY <1>1, TypeFacts
<1>4. Added(k, e, k2)
  BY <1>1, <1>2, <1>3 DEF Added
<1>5. List(k2, "time") = List(k, "time") /\ \A x \in List(k2, "time") : Behind(k2, x) \subseteq Behind(k, x)
  BY <1>1, <1>2
<1>6. SortedBy(k2, lf)
  BY <1>2, <1>5, SubSorted
<1> QED
  BY <1>2, <1>4, <1>6

\* remove_event of a listed event.
LEMMA DelEffect ==
  ASSUME NEW k, ListsOK(k), NEW lf \in [Time -> Int], SortedBy(k, lf),
         NEW name \in Type, NEW e \in List(k, name), NEW k2, k2 = del_event(k, e)
  PROVE  ListsOK(k2) /\ SortedBy(k2, lf) /\ Removed(k, e, k2) /\ Loose(k2, e)
<1>1. /\ ListsOK(k2)
      /\ List(k2, name) = List(k, name) \ {e}
      /\ \A nm \in Type \ {name} : List(k2, nm) = List(k, nm)
      /\ \A x \in List(k, name) \ {e} : Behind(k2, x) = Behind(k, x) \ {e}
      /\ \A nm \in Type \ {name} : \A x \in List(k, nm) : Behind(k2, x) = Behind(k, x)
  BY DelKeeps
<1>2. Loose(k2, e)
  BY DelLoosens
<1>3. e \in OfType[name]
  BY ListFacts
<1>4. ASSUME NEW nm \in Type \ {name}
      PROVE  e \notin List(k, nm) /\ \A x \in List(k, nm) : e \notin Behind(k, x)
  <2>1. e \notin List(k, nm)
    BY <1>3, ListsApart
  <2>2. \A x \in List(k, nm) : Behind(k, x) \subseteq List(k, nm)
    BY RestOf
  <2> QED BY <2>1, <2>2
<1>5. Removed(k, e, k2)
  <2> SUFFICES ASSUME NEW nm \in Type
               PROVE  /\ List(k2, nm) = List(k, nm) \ {e}
                      /\ \A x \in List(k, nm) \ {e} : Behind(k2, x) = Behind(k, x) \ {e}
    BY DEF Removed
  <2>1. CASE nm = name
    BY <2>1, <1>1
  <2>2. CASE nm # name
    <3>1. /\ List(k2, nm) = List(k, nm) /\ e \notin List(k, nm)
          /\ \A x \in List(k, nm) : Behind(k2, x) = Behind(k, x) /\ e \notin Behind(k, x)
      BY <2>2, <1>1, <1>4
    <3> QED BY <3>1
  <2> QED BY <2>1, <2>2
<1>6. "time" \in Type
  BY DEF Type
<1>7. /\ List(k2, "time") \subseteq List(k, "time")
      /\ \A x \in List(k2, "time") : Behind(k2, x) \subseteq Behind(k, x)
  BY <1>5, <1>6 DEF Removed
<1>8. SortedBy(k2, lf)
  BY <1>1, <1>7, SubSorted
<1> QED
  BY <1>1, <1>2, <1>5, <1>8

\* resched_time_event of a listed event.
LEMMA ReschedEffect ==
  ASSUME NEW k, ListsOK(k), left \in [Time -> Int], SortedBy(k, left),
         NEW e \in List(k, "time"), NEW msec \in Nat, NEW k2, k2 = InTime(k, e, msec)
  PROVE  ListsOK(k2) /\ SortedBy(k2, [left EXCEPT ![e] = msec]) /\ Added(k, e, k2)
<1>n. PICK n : n = del_event(k, e)
  OBVIOUS
<1>1. "time" \in Type /\ OfType["time"] = Time
  BY TypeFacts DEF Type
<1>2. ListsOK(n) /\ SortedBy(n, left) /\ Removed(k, e, n)
  BY <1>1, <1>n, DelEffect
<1>3. n.next[e] = k.next[e] /\ n.prev[e] = k.prev[e]
  BY <1>1, <1>n, DelKeeps
<1>4. e \in Time
  BY <1>1, ListFacts
<1>5. List(n, "time") = List(k, "time") \ {e}
  BY <1>1, <1>2 DEF Removed
<1>6. Apart(n, e)
  <2> SUFFICES ASSUME List(n, "time") = {} PROVE n.next[e] = NULL /\ n.prev[e] = NULL
    BY DEF Apart
  <2>1. List(k, "time") = {e}
    BY <1>5
  <2>2. /\ k.next[e] \in List(k, "time") \cup {NULL} /\ k.next[e] # e
        /\ k.head["time"] = e \/ (k.prev[e] \in List(k, "time") /\ k.next[k.prev[e]] = e)
        /\ k.head["time"] = e => k.prev[e] = NULL
    BY <1>1, RestOf
  <2> QED
    BY <2>1, <2>2, <1>3
<1>7. n = del_event(k, e) /\ e \notin List(n, "time")
  BY <1>n, <1>5
<1>a. ListsOK(n) /\ SortedBy(n, left)
  BY <1>2
<1>b. Placed(n, e, k2, [left EXCEPT ![e] = msec])
  BY <1>4, <1>6, <1>7, <1>a, InTimeKeeps
<1>8. /\ ListsOK(k2) /\ List(k2, "time") = List(n, "time") \cup {e}
      /\ \A nm \in Type \ {"time"} : List(k2, nm) = List(n, nm)
      /\ \A nm \in Type \ {"time"} : \A x \in List(n, nm) : Behind(k2, x) = Behind(n, x)
      /\ SortedBy(k2, [left EXCEPT ![e] = msec])
  BY <1>b DEF Placed
<1>9. ASSUME NEW nm \in Type \ {"time"}
      PROVE  /\ e \notin OfType[nm] /\ List(n, nm) = List(k, nm)
             /\ \A x \in List(k, nm) : Behind(n, x) = Behind(k, x)
  <2>1. e \notin OfType[nm] /\ e \notin List(k, nm)
    BY <1>1, <1>4, TypeFacts, ListsApart
  <2>2. /\ List(n, nm) = List(k, nm) \ {e}
        /\ \A x \in List(k, nm) \ {e} : Behind(n, x) = Behind(k, x) \ {e}
    BY <1>2 DEF Removed
  <2>3. \A x \in List(k, nm) : Behind(k, x) \subseteq List(k, nm)
    BY RestOf
  <2> QED BY <2>1, <2>2, <2>3
<1>10. Added(k, e, k2)
  <2> SUFFICES ASSUME NEW nm \in Type
               PROVE  /\ List(k2, nm) = IF e \in OfType[nm] THEN List(k, nm) \cup {e} ELSE List(k, nm)
                      /\ nm # "time" => \A x \in List(k, nm) : Behind(k2, x) = Behind(k, x)
    BY DEF Added
  <2>1. CASE nm = "time"
    BY <2>1, <1>1, <1>4, <1>5, <1>8
  <2>2. CASE nm # "time"
    BY <2>2, <1>8, <1>9
  <2> QED BY <2>1, <2>2
<1> QED
  BY <1>8, <1>10

\* add_time_event of an event that is not listed.
LEMMA AddTimeEffect ==
  ASSUME NEW k, ListsOK(k), left \in [Time -> Int], SortedBy(k, left),
         NEW e \in Time, e \notin List(k, "time"), NEW msec \in Nat,
         NEW k2, k2 = InTime(new_event(k, e), e, msec)
  PROVE  ListsOK(k2) /\ SortedBy(k2, [left EXCEPT ![e] = msec]) /\ Added(k, e, k2)
<1> DEFINE n == new_event(k, e)
<1>1. "time" \in Type /\ OfType["time"] = Time /\ e \in Event
  BY TypeFacts DEF Type
<1>2. /\ ListsOK(n) /\ Loose(n, e) /\ n.next[e] = NULL /\ n.prev[e] = NULL
      /\ \A nm \in Type : List(n, nm) = List(k, nm)
      /\ \A nm \in Type : \A x \in List(k, nm) : Behind(n, x) = Behind(k, x)
  BY <1>1, NewKeeps
<1>3. k2 = InTime(n, e, msec)
  OBVIOUS
<1> HIDE DEF n
<1>4. n = del_event(n, e)
  BY <1>1, <1>2, DelLoose DEF ListsOK
<1>5. List(n, "time") = List(k, "time") /\ \A x \in List(n, "time") : Behind(n, x) \subseteq Behind(k, x)
  BY <1>1, <1>2
<1>6. SortedBy(n, left)
  BY <1>2, <1>5, SubSorted
<1>7. e \notin List(n, "time") /\ Apart(n, e)
  BY <1>2, <1>5 DEF Apart
<1>b. Placed(n, e, k2, [left EXCEPT ![e] = msec])
  BY <1>2, <1>3, <1>4, <1>6, <1>7, InTimeKeeps
<1>8. /\ ListsOK(k2) /\ List(k2, "time") = List(n, "time") \cup {e}
      /\ \A nm \in Type \ {"time"} : List(k2, nm) = List(n, nm)
      /\ \A nm \in Type \ {"time"} : \A x \in List(n, nm) : Behind(k2, x) = Behind(n, x)
      /\ SortedBy(k2, [left EXCEPT ![e] = msec])
  BY <1>b DEF Placed
<1>9. \A nm \in Type : e \in OfType[nm] <=> nm = "time"
  BY <1>1, TypeFacts
<1>10. Added(k, e, k2)
  BY <1>2, <1>8, <1>9 DEF Added
<1> QED
  BY <1>8, <1>10

-----------------------------------------------------------------------------
(* The inductive invariant. *)

\* All events of the lists; Listed is AllOf(l).
AllOf(k) == UNION {List(k, name) : name \in Type}

\* The loop's variable is in the list that is walked, and set while a callback runs.
Walks(name) == (cur # NULL => cur \in List(l, name)) /\ (busy => cur # NULL)

\* The time event that runs may have removed itself.
LoopOK ==
    /\ phase = "init" => busy /\ cur = NULL
    /\ phase \in {"select", "stopped"} => ~busy /\ cur = NULL
    /\ phase = "time" => busy /\ cur \in Time /\ (cur \in List(l, "time") \/ Loose(l, cur))
    /\ phase = "fds" => Walks("fd")
    /\ phase = "always" => Walks("always")

\* All but the lists.
LoopType ==
    /\ left \in [Time -> Int]
    /\ phase \in {"init", "select", "time", "fds", "always", "stopped"}
    /\ cur \in Event \cup {NULL}
    /\ busy \in BOOLEAN /\ remove \in BOOLEAN /\ sigint \in BOOLEAN
    /\ ready \subseteq Fd

IInv == ListsOK(l) /\ SortedBy(l, left) /\ LoopType /\ LoopOK

\* An event is in AllOf when it is in the list of its type.
LEMMA AllOfIs ==
  ASSUME NEW k, ListsOK(k)
  PROVE  /\ \A name \in Type : List(k, name) = AllOf(k) \cap OfType[name]
         /\ AllOf(k) \subseteq Event
         /\ \A e \in AllOf(k) : e \in List(k, ListOf(e))
<1>1. \A name \in Type : List(k, name) \subseteq OfType[name] /\ List(k, name) \subseteq Event
  BY ListFacts
<1>2. ASSUME NEW name \in Type, NEW e \in AllOf(k), e \in OfType[name] PROVE e \in List(k, name)
  <2>1. PICK nm \in Type : e \in List(k, nm)
    BY DEF AllOf
  <2>2. nm = name
    BY <2>1, <1>1, <1>2, TypeFacts
  <2> QED BY <2>1, <2>2
<1>3. \A name \in Type : List(k, name) \subseteq AllOf(k)
  BY DEF AllOf
<1>4. AllOf(k) \subseteq Event
  BY <1>1 DEF AllOf
<1> QED
  BY <1>1, <1>2, <1>3, <1>4, TypeFacts

\* The events of all lists after one was added or removed.
LEMMA AllOfStep ==
  ASSUME NEW k, NEW k2, NEW e \in Event
  PROVE  /\ Added(k, e, k2) => AllOf(k2) = AllOf(k) \cup {e}
         /\ Removed(k, e, k2) => AllOf(k2) = AllOf(k) \ {e}
<1>1. PICK nm \in Type : e \in OfType[nm]
  BY TypeFacts
<1>2. ASSUME Added(k, e, k2) PROVE AllOf(k2) = AllOf(k) \cup {e}
  <2>1. \A name \in Type : /\ List(k, name) \subseteq List(k2, name)
                           /\ List(k2, name) \subseteq List(k, name) \cup {e}
    BY <1>2 DEF Added
  <2>2. e \in List(k2, nm)
    BY <1>1, <1>2 DEF Added
  <2> QED
    BY <2>1, <2>2 DEF AllOf
<1>3. ASSUME Removed(k, e, k2) PROVE AllOf(k2) = AllOf(k) \ {e}
  <2>1. \A name \in Type : List(k2, name) = List(k, name) \ {e}
    BY <1>3 DEF Removed
  <2> QED
    BY <2>1 DEF AllOf
<1> QED BY <1>2, <1>3

\* Where the loop is while a callback goes on.
LEMMA GoesOnFacts ==
  ASSUME IInv, GoesOn
  PROVE  /\ busy /\ phase \in {"init", "time", "fds", "always"}
         /\ phase = "init" => cur = NULL
         /\ phase = "time" => cur \in List(l, "time")
         /\ phase = "fds" => cur \in List(l, "fd") /\ cur # NULL
         /\ phase = "always" => cur \in List(l, "always") /\ cur # NULL
<1>1. Listed = AllOf(l) /\ "time" \in Type /\ OfType["time"] = Time
  BY TypeFacts DEF Listed, AllOf, Type
<1>2. List(l, "time") = AllOf(l) \cap Time
  BY <1>1, AllOfIs DEF IInv
<1> QED
  BY <1>1, <1>2 DEF GoesOn, IInv, LoopOK, LoopType, Walks

\* The invariant holds at the start.
LEMMA InitOK == Init => IInv
<1> SUFFICES ASSUME Init PROVE IInv
  OBVIOUS
<1>1. /\ l.next = [e \in Event |-> NULL] /\ l.prev = [e \in Event |-> NULL]
      /\ l.head = [k \in Type |-> NULL]
      /\ l = [next |-> l.next, prev |-> l.prev, head |-> l.head]
  BY DEF Init, NoLists
<1>2. Fields(l)
  BY <1>1 DEF Fields, SameType
<1>3. ListsOK(l)
  BY <1>1, <1>2 DEF ListsOK, Chain
<1>4. List(l, "time") = {}
  BY <1>1, BehindNull DEF List, Type
<1>5. SortedBy(l, left)
  BY <1>4 DEF SortedBy
<1>6. LoopType /\ LoopOK
  <2>1. left \in [Time -> Int]
    BY DEF Init
  <2> QED BY <2>1 DEF Init, LoopType, LoopOK
<1> QED
  BY <1>3, <1>5, <1>6 DEF IInv

\* The loop does not notice that a callback adds or moves an event.
LEMMA AddedLoop ==
  ASSUME IInv, GoesOn, NEW e \in Event, Added(l, e, l'), UNCHANGED <<phase, cur, busy>>
  PROVE  LoopOK'
<1>1. \A nm \in Type : List(l, nm) \subseteq List(l', nm)
  BY DEF Added
<1>2. "fd" \in Type /\ "always" \in Type /\ "time" \in Type
  BY DEF Type
<1>3. LoopOK
  BY DEF IInv
<1> QED
  BY <1>1, <1>2, <1>3, GoesOnFacts DEF LoopOK, Walks

\* event_loop ends: no list has a head.
Headless(k) == [k EXCEPT !.head = NoLists.head]

\* The loop ends and forgets its events.
LEMMA NoListsOK ==
  ASSUME NEW k, ListsOK(k), NEW lf, NEW k2, k2 = Headless(k)
  PROVE  ListsOK(k2) /\ SortedBy(k2, lf) /\ AllOf(k2) = {}
<1>1. /\ k = Lists(k.next, k.prev, k.head)
      /\ k.next \in [Event -> Event \cup {NULL}] /\ k.prev \in [Event -> Event \cup {NULL}]
      /\ \A f \in Event : /\ k.next[f] \in OfType[ListOf(f)] \cup {NULL}
                          /\ k.prev[f] \in OfType[ListOf(f)] \cup {NULL}
  BY FieldFacts DEF ListsOK
<1> DEFINE hd == NoLists.head
           nx == k.next
           pv == k.prev
<1>2. hd = [name \in Type |-> NULL]
  BY DEF NoLists
<1>3. hd = [name \in Type |-> hd[name]] /\ \A name \in Type : hd[name] = NULL
  BY <1>2
<1> HIDE DEF hd
<1>4. k2 = Lists(nx, pv, hd)
  BY <1>1, SetHead DEF hd, Headless
<1>5. /\ nx \in [Event -> Event \cup {NULL}] /\ pv \in [Event -> Event \cup {NULL}]
      /\ \A f \in Event : /\ nx[f] \in OfType[ListOf(f)] \cup {NULL}
                          /\ pv[f] \in OfType[ListOf(f)] \cup {NULL}
  BY <1>1
<1>6. \A name \in Type : hd[name] \in OfType[name] \cup {NULL}
  BY <1>3
<1> HIDE DEF nx, pv
<1>7. Fields(k2) /\ k2.head = hd
  BY <1>3, <1>4, <1>5, <1>6, ListsFields
<1>8. \A name \in Type : List(k2, name) = {}
  BY <1>3, <1>7, BehindNull DEF List
<1>9. ListsOK(k2)
  BY <1>3, <1>7 DEF ListsOK, Chain
<1>10. SortedBy(k2, lf)
  BY <1>8 DEF SortedBy, Type
<1> QED
  BY <1>8, <1>9, <1>10 DEF AllOf

\* Every step keeps the invariant.
LEMMA StepOK == IInv /\ [Next]_vars => IInv'
<1> SUFFICES ASSUME IInv, [Next]_vars PROVE IInv'
  OBVIOUS
<1>a. ListsOK(l) /\ SortedBy(l, left) /\ LoopType /\ LoopOK
  BY DEF IInv
<1>b. /\ "fd" \in Type /\ "always" \in Type /\ "time" \in Type
      /\ OfType["fd"] = Fd /\ OfType["always"] = Always /\ OfType["time"] = Time
      /\ Fd \subseteq Event /\ Always \subseteq Event /\ Time \subseteq Event
      /\ \A e \in Event : e # NULL /\ ListOf(e) \in Type
  BY TypeFacts DEF Type, Event
<1>c. /\ Listed = AllOf(l) /\ \A name \in Type : List(l, name) = AllOf(l) \cap OfType[name]
      /\ AllOf(l) \subseteq Event /\ \A e \in AllOf(l) : e \in List(l, ListOf(e))
  BY <1>a, AllOfIs DEF Listed, AllOf
<1>d. left \in [Time -> Int]
  BY <1>a DEF LoopType
<1>1. ASSUME NEW e \in Event, add_fd_event(e) PROVE IInv'
  <2>1. e \in OfType["fd"] /\ e \notin List(l, "fd") /\ l' = Front(l, e)
    BY <1>1, <1>b, <1>c DEF add_fd_event
  <2>2. ListsOK(l') /\ SortedBy(l', left) /\ Added(l, e, l')
    BY <2>1, <1>a, <1>d, FrontEffect
  <2>3. GoesOn /\ UNCHANGED <<left, phase, cur, busy, ready, remove, sigint>>
    BY <1>1 DEF add_fd_event, loop
  <2>4. LoopOK'
    BY <2>2, <2>3, AddedLoop
  <2> QED
    BY <2>2, <2>3, <2>4, <1>a DEF IInv, LoopType
<1>2. ASSUME NEW e \in Event, add_always_event(e) PROVE IInv'
  <2>1. e \in OfType["always"] /\ e \notin List(l, "always") /\ l' = Front(l, e)
    BY <1>2, <1>b, <1>c DEF add_always_event
  <2>2. ListsOK(l') /\ SortedBy(l', left) /\ Added(l, e, l')
    BY <2>1, <1>a, <1>d, FrontEffect
  <2>3. GoesOn /\ UNCHANGED <<left, phase, cur, busy, ready, remove, sigint>>
    BY <1>2 DEF add_always_event, loop
  <2>4. LoopOK'
    BY <2>2, <2>3, AddedLoop
  <2> QED
    BY <2>2, <2>3, <2>4, <1>a DEF IInv, LoopType
<1>3. ASSUME NEW e \in Event, remove_event(e) PROVE IInv'
  <2> DEFINE name == ListOf(e)
  <2>1. e \in List(l, name) /\ name \in Type /\ l' = del_event(l, e)
    BY <1>3, <1>b, <1>c DEF remove_event
  <2>2. ListsOK(l') /\ SortedBy(l', left) /\ Removed(l, e, l') /\ Loose(l', e)
    <3> HIDE DEF name
    <3> QED BY <2>1, <1>a, <1>d, DelEffect
  <2>3. GoesOn /\ UNCHANGED <<left, phase, cur, busy, ready, remove, sigint>> /\ (e # cur \/ phase = "time")
    BY <1>3 DEF remove_event, loop
  <2>4. \A nm \in Type : List(l', nm) = List(l, nm) \ {e}
    BY <2>2 DEF Removed
  <2>5. LoopOK'
    BY <2>2, <2>3, <2>4, <1>a, <1>b, GoesOnFacts DEF LoopOK, Walks
  <2> QED
    BY <2>2, <2>3, <2>5, <1>a DEF IInv, LoopType
<1>4. ASSUME NEW e \in Time, NEW msec \in Delay, add_time_event(e, msec) PROVE IInv'
  <2>1. e \notin List(l, "time") /\ l' = InTime(new_event(l, e), e, msec) /\ e \in Event /\ msec \in Nat
    BY <1>4, <1>b, <1>c, EventLoopAssumption DEF add_time_event
  <2>2. ListsOK(l') /\ SortedBy(l', [left EXCEPT ![e] = msec]) /\ Added(l, e, l')
    BY <2>1, <1>a, <1>d, AddTimeEffect
  <2>3. GoesOn /\ left' = [left EXCEPT ![e] = msec] /\ UNCHANGED <<phase, cur, busy, ready, remove, sigint>>
    BY <1>4 DEF add_time_event, loop
  <2>4. LoopOK'
    BY <2>1, <2>2, <2>3, AddedLoop
  <2>5. left' \in [Time -> Int]
    BY <2>1, <2>3, <1>d
  <2>6. LoopType'
    BY <2>3, <2>5, <1>a DEF LoopType
  <2>7. SortedBy(l', left')
    BY <2>2, <2>3
  <2> QED
    BY <2>2, <2>4, <2>6, <2>7 DEF IInv
<1>5. ASSUME NEW e \in Time, NEW msec \in Delay, resched_time_event(e, msec) PROVE IInv'
  <2>1. e \in List(l, "time") /\ l' = InTime(l, e, msec) /\ e \in Event /\ msec \in Nat
    BY <1>5, <1>b, <1>c, EventLoopAssumption DEF resched_time_event
  <2>2. ListsOK(l') /\ SortedBy(l', [left EXCEPT ![e] = msec]) /\ Added(l, e, l')
    BY <2>1, <1>a, <1>d, ReschedEffect
  <2>3. /\ GoesOn /\ left' = [left EXCEPT ![e] = msec] /\ UNCHANGED <<phase, cur, busy, ready, sigint>>
        /\ remove' = (remove /\ e # cur)
    BY <1>5 DEF resched_time_event
  <2>4. LoopOK'
    BY <2>1, <2>2, <2>3, AddedLoop
  <2>5. left' \in [Time -> Int]
    BY <2>1, <2>3, <1>d
  <2>6. remove' \in BOOLEAN
    BY <2>3
  <2>7. LoopType'
    BY <2>3, <2>5, <2>6, <1>a DEF LoopType
  <2>8. SortedBy(l', left')
    BY <2>2, <2>3
  <2> QED
    BY <2>2, <2>4, <2>7, <2>8 DEF IInv
\* Steps that leave the lists alone.
<1>e. ASSUME UNCHANGED <<l, left>>, LoopType', LoopOK' PROVE IInv'
  BY <1>a, <1>e DEF IInv
<1>6. CASE event_loop
  <2>1. UNCHANGED <<l, left>> /\ LoopType' /\ LoopOK'
    BY <1>6, <1>a DEF event_loop, LoopType, LoopOK
  <2> QED BY <2>1, <1>e
<1>7. CASE Tick
  <2>1. \A e \in Time : left[e] \in Int
    BY <1>d
  <2>2. /\ left' = [e \in Time |-> IF e \in List(l, "time") THEN left[e] - 1 ELSE left[e]]
        /\ UNCHANGED <<l, loop>>
    BY <1>7 DEF Tick
  <2>3. left' \in [Time -> Int]
    BY <2>1, <2>2
  <2>4. SortedBy(l, left')
    <3> SUFFICES ASSUME NEW x \in List(l, "time"), l.next[x] # NULL
                 PROVE  left'[x] <= left'[l.next[x]]
      BY DEF SortedBy
    <3>1. x \in Time /\ l.next[x] \in Time /\ l.next[x] \in List(l, "time")
      BY <1>a, <1>b, ListFacts
    <3>2. left[x] <= left[l.next[x]]
      BY <1>a DEF SortedBy
    <3> QED
      BY <3>1, <3>2, <2>1, <2>2
  <2>5. LoopType' /\ LoopOK'
    BY <2>2, <2>3, <1>a DEF loop, LoopType, LoopOK, Walks
  <2> QED
    BY <2>2, <2>4, <2>5, <1>a DEF IInv, loop
<1>8. ASSUME NEW r \in SUBSET Fd, SelectFds(r) PROVE IInv'
  <2>1. l.head["fd"] # NULL => l.head["fd"] \in List(l, "fd")
    BY <1>a, <1>b, ListFacts
  <2>2. l.head["fd"] \in Event \cup {NULL}
    BY <2>1, <1>b, <1>c
  <2>3. UNCHANGED <<l, left>> /\ LoopType'
    BY <1>8, <2>2, <1>a DEF SelectFds, LoopType
  <2>4. LoopOK'
    BY <1>8, <2>1, <1>a DEF SelectFds, LoopOK, Walks
  <2> QED BY <2>3, <2>4, <1>e
<1>9. CASE SelectTime
  <2>1. l.head["time"] # NULL => l.head["time"] \in List(l, "time") /\ l.head["time"] \in Time
    BY <1>a, <1>b, ListFacts
  <2>2. UNCHANGED <<l, left>> /\ LoopType'
    BY <1>9, <2>1, <1>a, <1>b DEF SelectTime, FirstTime, LoopType
  <2>3. LoopOK'
    BY <1>9, <2>1, <1>a DEF SelectTime, FirstTime, LoopOK
  <2> QED BY <2>2, <2>3, <1>e
<1>10. CASE SkipFd
  <2>1. cur \in List(l, "fd")
    BY <1>10, <1>a DEF SkipFd, LoopOK, Walks
  <2>2. l.next[cur] \in List(l, "fd") \cup {NULL} /\ List(l, "fd") \subseteq Event
    BY <2>1, <1>a, <1>b, ListFacts
  <2>3. UNCHANGED <<l, left>> /\ LoopType' /\ LoopOK'
    BY <1>10, <2>2, <1>a DEF SkipFd, LoopType, LoopOK, Walks
  <2> QED BY <2>3, <1>e
<1>11. CASE Call
  <2>1. UNCHANGED <<l, left>> /\ LoopType' /\ LoopOK'
    BY <1>11, <1>a DEF Call, LoopType, LoopOK, Walks
  <2> QED BY <2>1, <1>e
<1>12. CASE ReturnTime
  <2>1. UNCHANGED <<left, ready, remove, sigint>> /\ phase' = "fds" /\ cur' = NULL /\ busy' = FALSE
    BY <1>12 DEF ReturnTime
  <2>2. LoopType' /\ LoopOK'
    BY <2>1, <1>a DEF LoopType, LoopOK, Walks
  <2>3. cur \in Time /\ (cur \in List(l, "time") \/ Loose(l, cur))
    BY <1>12, <1>a DEF ReturnTime, LoopOK
  <2>4. ListsOK(l') /\ SortedBy(l', left)
    <3>1. CASE l' = l
      BY <3>1, <1>a
    <3>2. CASE l' = del_event(l, cur) /\ cur \in List(l, "time")
      BY <3>2, <1>a, <1>b, <1>d, DelEffect
    <3>3. CASE l' = del_event(l, cur) /\ Loose(l, cur)
      <4>1. l' = l
        BY <3>3, <2>3, <1>a, <1>b, DelLoose DEF ListsOK
      <4> QED BY <4>1, <1>a
    <3> QED BY <3>1, <3>2, <3>3, <2>3, <1>12 DEF ReturnTime
  <2> QED
    BY <2>1, <2>2, <2>4 DEF IInv
<1>13. CASE FdsDone
  <2>1. l.head["always"] # NULL => l.head["always"] \in List(l, "always")
    BY <1>a, <1>b, ListFacts
  <2>2. l.head["always"] \in Event \cup {NULL}
    BY <2>1, <1>b, <1>c
  <2>3. UNCHANGED <<l, left>> /\ LoopType'
    BY <1>13, <2>2, <1>a DEF FdsDone, LoopType
  <2>4. LoopOK'
    BY <1>13, <2>1, <1>a DEF FdsDone, LoopOK, Walks
  <2> QED BY <2>3, <2>4, <1>e
<1>14. CASE AlwaysDone
  <2>1. LoopType' /\ LoopOK'
    BY <1>14, <1>a DEF AlwaysDone, LoopType, LoopOK, Walks
  <2>2. UNCHANGED left
    BY <1>14 DEF AlwaysDone
  <2>3. ListsOK(l') /\ SortedBy(l', left)
    <3>1. CASE l' = l
      BY <3>1, <1>a
    <3>2. CASE l' = [l EXCEPT !.head = NoLists.head]
      BY <3>2, <1>a, NoListsOK DEF Headless
    <3> QED BY <3>1, <3>2, <1>14 DEF AlwaysDone
  <2> QED
    BY <2>1, <2>2, <2>3 DEF IInv
<1>15. ASSUME NEW result \in BOOLEAN, Return(result) PROVE IInv'
  <2>1. PICK name \in {"fd", "always"} : cur \in List(l, name) /\ phase = IF name = "fd" THEN "fds" ELSE "always"
    BY <1>15, <1>a DEF Return, LoopOK, Walks
  <2>2. name \in Type
    BY <2>1, <1>b
  <2>3. /\ l.next[cur] \in List(l, name) \cup {NULL} /\ l.next[cur] # cur /\ List(l, name) \subseteq Event
    BY <2>1, <2>2, <1>a, RestOf, ListFacts
  <2>4. /\ UNCHANGED <<left, phase, ready, remove, sigint>> /\ cur' = l.next[cur] /\ busy' = FALSE
        /\ l' = IF result THEN l ELSE del_event(l, cur)
    BY <1>15 DEF Return
  <2>5. /\ ListsOK(l') /\ SortedBy(l', left)
        /\ l.next[cur] # NULL => l.next[cur] \in List(l', name)
    <3>1. CASE result
      BY <3>1, <2>3, <2>4, <1>a
    <3>2. CASE ~result
      <4>1. ListsOK(l') /\ SortedBy(l', left) /\ Removed(l, cur, l')
        BY <3>2, <2>1, <2>2, <2>4, <1>a, <1>d, DelEffect
      <4>2. List(l', name) = List(l, name) \ {cur}
        BY <4>1, <2>2 DEF Removed
      <4> QED
        BY <4>1, <4>2, <2>3
    <3> QED BY <3>1, <3>2
  <2>6. LoopType'
    BY <2>3, <2>4, <1>a DEF LoopType
  <2>7. LoopOK'
    BY <2>1, <2>4, <2>5 DEF LoopOK, Walks
  <2> QED
    BY <2>4, <2>5, <2>6, <2>7 DEF IInv
<1>16. CASE sigint_handler
  <2>1. UNCHANGED <<l, left>> /\ LoopType' /\ LoopOK'
    BY <1>16, <1>a DEF sigint_handler, LoopType, LoopOK, Walks
  <2> QED BY <2>1, <1>e
<1>17. CASE UNCHANGED vars
  <2>1. UNCHANGED <<l, left>> /\ LoopType' /\ LoopOK'
    BY <1>17, <1>a DEF vars, LoopType, LoopOK, Walks
  <2> QED BY <2>1, <1>e
<1> QED
  BY <1>1, <1>2, <1>3, <1>4, <1>5, <1>6, <1>7, <1>8, <1>9, <1>10, <1>11, <1>12, <1>13,
     <1>14, <1>15, <1>16, <1>17 DEF Next, Callback, Stopped

\* EventLoop's state has its types.
THEOREM TypesAlways == Spec => []TypeOK
<1>1. IInv => TypeOK
  BY DEF IInv, LoopType, TypeOK, ListsOK, Fields
<1> QED
  BY <1>1, InitOK, StepOK, PTL DEF Spec

\* Whatever callbacks do while the loop walks the lists, these stay doubly linked and
\* apart, for any number of events.
THEOREM ListsLinkedAlways == Spec => []ListsLinked
<1>1. IInv => ListsLinked
  <2> SUFFICES ASSUME IInv, NEW name \in Type
               PROVE  /\ \A e \in List(l, name) : ListOf(e) = name
                      /\ \A e \in List(l, name) : l.next[e] # NULL => l.prev[l.next[e]] = e
                      /\ l.head[name] # NULL => l.prev[l.head[name]] = NULL
    BY DEF ListsLinked
  <2>1. /\ List(l, name) \subseteq OfType[name] /\ Chain(l, l.head[name])
        /\ l.head[name] = NULL => List(l, name) = {}
    BY ListFacts DEF IInv
  <2>2. \A e \in List(l, name) : ListOf(e) = name
    BY <2>1, TypeFacts
  <2> QED
    BY <2>1, <2>2 DEF Chain, List
<1> QED
  BY <1>1, InitOK, StepOK, PTL DEF Spec

\* The walk of resched_time_event keeps the time events in the order in which they are
\* due, so that the loop need only look at the first one.
THEOREM TimeSortedAlways == Spec => []TimeSorted
<1>1. IInv => TimeSorted
  BY DEF IInv, SortedBy, TimeSorted
<1> QED
  BY <1>1, InitOK, StepOK, PTL DEF Spec

-----------------------------------------------------------------------------
(* The loop with its lists implements EventSet. *)

\* While a callback runs the rest of the pass is what is behind its event.
LEMMA AheadIs ==
  ASSUME IInv, NEW name \in Type, cur \in List(l, name)
  PROVE  Ahead = IF busy THEN Behind(l, cur) \ {cur} ELSE Behind(l, cur)
<1>1. cur \in Event /\ Behind(l, l.next[cur]) = Behind(l, cur) \ {cur}
  BY RestOf DEF IInv
<1> QED
  BY <1>1, TypeFacts DEF Ahead

\* A callback is one of main or of an event.
LEMMA RunningIs ==
  ASSUME IInv, GoesOn
  PROVE  Running # NULL
<1>1. \A name \in Type : List(l, name) \subseteq Event
  BY ListFacts DEF IInv
<1>2. "fd" \in Type /\ "always" \in Type /\ "time" \in Type
  BY DEF Type
<1> QED
  BY <1>1, <1>2, GoesOnFacts, EventLoopAssumption DEF Running

\* An event that is added or moved waits for a later pass.
LEMMA AddedTodo ==
  ASSUME IInv, IInv', GoesOn, NEW e \in Event, Added(l, e, l'), UNCHANGED <<phase, cur, busy, ready>>
  PROVE  /\ Listed' = Listed \cup {e}
         /\ UNCHANGED <<Part, Todo, Running>>
<1>1. Listed = AllOf(l) /\ Listed' = AllOf(l')
  BY DEF Listed, AllOf
<1>2. Listed' = Listed \cup {e}
  BY <1>1, AllOfStep
<1>3. UNCHANGED <<Part, Running>>
  BY DEF Part, Running
<1>4. ASSUME NEW name \in Type, name # "time", cur \in List(l, name) PROVE Ahead' = Ahead
  <2>1. Behind(l', cur) = Behind(l, cur) /\ cur \in List(l', name)
    BY <1>4 DEF Added
  <2>2. /\ Behind(l', l'.next[cur]) = Behind(l', cur) \ {cur}
        /\ Behind(l, l.next[cur]) = Behind(l, cur) \ {cur}
    BY <1>4, <2>1, RestOf DEF IInv
  <2> QED
    BY <2>1, <2>2 DEF Ahead
<1>5. Todo' = Todo
  <2>1. "fd" \in Type /\ "always" \in Type
    BY DEF Type
  <2> QED
    BY <2>1, <1>4, GoesOnFacts DEF Todo
<1> QED
  BY <1>2, <1>3, <1>5

\* An event that is removed is not called in this pass any more.
LEMMA RemovedTodo ==
  ASSUME IInv, IInv', GoesOn, NEW e \in Event, Removed(l, e, l'), e # cur \/ phase = "time",
         UNCHANGED <<phase, cur, busy, ready>>
  PROVE  /\ Listed' = Listed \ {e} /\ Todo' = Todo \ {e}
         /\ UNCHANGED <<Part, Running>>
<1>1. Listed = AllOf(l) /\ Listed' = AllOf(l')
  BY DEF Listed, AllOf
<1>2. Listed' = Listed \ {e}
  BY <1>1, AllOfStep
<1>3. UNCHANGED <<Part, Running>>
  BY DEF Part, Running
<1>4. ASSUME NEW name \in Type, cur \in List(l, name), e # cur PROVE Ahead' = Ahead \ {e}
  <2>1. Behind(l', cur) = Behind(l, cur) \ {e} /\ cur \in List(l', name)
    BY <1>4 DEF Removed
  <2>2. /\ Behind(l', l'.next[cur]) = Behind(l', cur) \ {cur}
        /\ Behind(l, l.next[cur]) = Behind(l, cur) \ {cur}
    BY <1>4, <2>1, RestOf DEF IInv
  <2> QED
    BY <2>1, <2>2 DEF Ahead
<1>5. Todo' = Todo \ {e}
  <2>1. "fd" \in Type /\ "always" \in Type
    BY DEF Type
  <2>2. CASE phase \in {"init", "time"}
    BY <2>2 DEF Todo
  <2>3. CASE phase \in {"fds", "always"}
    <3>1. Ahead' = Ahead \ {e}
      BY <2>1, <2>3, <1>4, GoesOnFacts
    <3> QED
      BY <2>3, <3>1 DEF Todo
  <2> QED BY <2>2, <2>3, GoesOnFacts
<1> QED
  BY <1>2, <1>3, <1>5

\* Every step of the loop is a step of EventSet, or none.
LEMMA PassStep ==
  ASSUME IInv, IInv', [Next]_vars
  PROVE  [Set!Next]_(Set!vars)
<1>a. ListsOK(l) /\ SortedBy(l, left) /\ LoopType /\ LoopOK
  BY DEF IInv
<1>b. /\ "fd" \in Type /\ "always" \in Type /\ "time" \in Type
      /\ OfType["fd"] = Fd /\ OfType["always"] = Always /\ OfType["time"] = Time
      /\ Event = Fd \cup Always \cup Time
      /\ \A e \in Event : e # NULL /\ ListOf(e) \in Type
  BY TypeFacts DEF Type, Event
<1>c. /\ Listed = AllOf(l) /\ \A name \in Type : List(l, name) = Listed \cap OfType[name]
      /\ Listed \subseteq Event /\ \A e \in Listed : e \in List(l, ListOf(e))
  BY <1>a, AllOfIs DEF Listed, AllOf
<1>d. left \in [Time -> Int]
  BY <1>a DEF LoopType
<1>e. NULL \notin Event /\ NULL # "main" /\ "main" \notin Event
  BY EventLoopAssumption
\* The lists are as they were.
<1>f. ASSUME l' = l PROVE Listed' = Listed
  BY <1>f DEF Listed
<1>1. ASSUME NEW e \in Event, add_fd_event(e) PROVE Set!Next
  <2>1. e \in OfType["fd"] /\ e \notin List(l, "fd") /\ l' = Front(l, e)
    BY <1>1, <1>b, <1>c DEF add_fd_event
  <2>2. Added(l, e, l')
    BY <2>1, <1>a, <1>d, FrontEffect
  <2>3. GoesOn /\ UNCHANGED <<left, phase, cur, busy, ready>> /\ e \notin Listed
    BY <1>1 DEF add_fd_event, loop
  <2>4. Listed' = Listed \cup {e} /\ UNCHANGED <<Part, Todo, Running>> /\ Running # NULL
    BY <2>2, <2>3, AddedTodo, RunningIs
  <2>5. left' = [f \in Time |-> IF f = e THEN left'[f] ELSE left[f]]
    BY <2>3, <1>d
  <2>6. Set!Add(e)
    BY <2>3, <2>4, <2>5 DEF Set!Add
  <2> QED BY <2>6, <1>b DEF Set!Next
<1>2. ASSUME NEW e \in Event, add_always_event(e) PROVE Set!Next
  <2>1. e \in OfType["always"] /\ e \notin List(l, "always") /\ l' = Front(l, e)
    BY <1>2, <1>b, <1>c DEF add_always_event
  <2>2. Added(l, e, l')
    BY <2>1, <1>a, <1>d, FrontEffect
  <2>3. GoesOn /\ UNCHANGED <<left, phase, cur, busy, ready>> /\ e \notin Listed
    BY <1>2 DEF add_always_event, loop
  <2>4. Listed' = Listed \cup {e} /\ UNCHANGED <<Part, Todo, Running>> /\ Running # NULL
    BY <2>2, <2>3, AddedTodo, RunningIs
  <2>5. left' = [f \in Time |-> IF f = e THEN left'[f] ELSE left[f]]
    BY <2>3, <1>d
  <2>6. Set!Add(e)
    BY <2>3, <2>4, <2>5 DEF Set!Add
  <2> QED BY <2>6, <1>b DEF Set!Next
<1>3. ASSUME NEW e \in Event, remove_event(e) PROVE Set!Next
  <2> DEFINE name == ListOf(e)
  <2>1. e \in List(l, name) /\ name \in Type /\ l' = del_event(l, e)
    BY <1>3, <1>b, <1>c DEF remove_event
  <2>2. Removed(l, e, l')
    <3> HIDE DEF name
    <3> QED BY <2>1, <1>a, <1>d, DelEffect
  <2>3. GoesOn /\ UNCHANGED <<left, phase, cur, busy, ready>> /\ (e # cur \/ phase = "time")
    BY <1>3 DEF remove_event, loop
  <2>4. /\ Listed' = Listed \ {e} /\ Todo' = Todo \ {e} /\ UNCHANGED <<Part, Running>>
        /\ Running # NULL
    BY <2>2, <2>3, RemovedTodo, RunningIs
  <2>5. Set!Remove(e)
    BY <2>3, <2>4 DEF Set!Remove
  <2> QED BY <2>5, <1>b DEF Set!Next
<1>4. ASSUME NEW e \in Time, NEW msec \in Delay, add_time_event(e, msec) PROVE Set!Next
  <2>1. /\ e \notin List(l, "time") /\ l' = InTime(new_event(l, e), e, msec)
        /\ e \in Event /\ msec \in Nat /\ e \notin Listed
    BY <1>4, <1>b, <1>c, EventLoopAssumption DEF add_time_event
  <2>2. Added(l, e, l')
    BY <2>1, <1>a, <1>d, AddTimeEffect
  <2>3. GoesOn /\ left' = [left EXCEPT ![e] = msec] /\ UNCHANGED <<phase, cur, busy, ready>>
    BY <1>4 DEF add_time_event, loop
  <2>4. Listed' = Listed \cup {e} /\ UNCHANGED <<Part, Todo, Running>> /\ Running # NULL
    BY <2>1, <2>2, <2>3, AddedTodo, RunningIs
  <2>5. left' = [f \in Time |-> IF f = e THEN left'[f] ELSE left[f]]
    BY <2>3, <1>d
  <2>6. Set!Add(e)
    BY <2>1, <2>4, <2>5 DEF Set!Add
  <2> QED BY <2>6, <2>1, <1>b DEF Set!Next
<1>5. ASSUME NEW e \in Time, NEW msec \in Delay, resched_time_event(e, msec) PROVE Set!Next
  <2>1. e \in List(l, "time") /\ l' = InTime(l, e, msec) /\ e \in Event /\ msec \in Nat /\ e \in Listed
    BY <1>5, <1>b, <1>c, EventLoopAssumption DEF resched_time_event
  <2>2. Added(l, e, l')
    BY <2>1, <1>a, <1>d, ReschedEffect
  <2>3. GoesOn /\ left' = [left EXCEPT ![e] = msec] /\ UNCHANGED <<phase, cur, busy, ready>>
    BY <1>5 DEF resched_time_event
  <2>4. Listed' = Listed \cup {e} /\ UNCHANGED <<Part, Todo, Running>> /\ Running # NULL
    BY <2>1, <2>2, <2>3, AddedTodo, RunningIs
  <2>5. left' = [left EXCEPT ![e] = left'[e]]
    BY <2>3, <1>d
  <2>6. Listed' = Listed
    BY <2>1, <2>4
  <2>7. Set!Reschedule(e)
    BY <2>1, <2>4, <2>5, <2>6 DEF Set!Reschedule
  <2> QED BY <2>7, <2>1, <1>b DEF Set!Next
<1>6. ASSUME event_loop PROVE Set!Next
  <2>1. Set!Start
    BY <1>6, <1>a, <1>f DEF event_loop, LoopOK, Part, Todo, Running, Set!Start
  <2> QED BY <2>1 DEF Set!Next
<1>7. ASSUME Tick PROVE Set!Next
  <2>1. UNCHANGED <<l, phase, cur, busy, ready>>
    BY <1>7 DEF Tick, loop
  <2>2. UNCHANGED <<Part, Todo, Running>> /\ Listed' = Listed
    BY <2>1, <1>f DEF Part, Todo, Ahead, Running
  <2>3. \A e \in Time : e \in Listed <=> e \in List(l, "time")
    BY <1>b, <1>c
  <2>4. left' = [e \in Time |-> IF e \in Listed THEN left[e] - 1 ELSE left[e]]
    BY <1>7, <2>3 DEF Tick
  <2>5. Set!Tick
    BY <1>7, <2>2, <2>4 DEF Tick, Part, Set!Tick
  <2> QED BY <2>5 DEF Set!Next
<1>8. ASSUME NEW r \in SUBSET Fd, SelectFds(r) PROVE Set!Next
  <2>1. /\ phase = "select" /\ phase' = "fds" /\ r # {} /\ r \subseteq List(l, "fd")
        /\ cur' = l.head["fd"] /\ ready' = r /\ UNCHANGED <<l, left, busy>>
    BY <1>8 DEF SelectFds
  <2>2. ~busy
    BY <2>1, <1>a DEF LoopOK
  <2>3. l.head["fd"] # NULL
    BY <2>1, <1>a, <1>b, ListFacts
  <2>4. Ahead' = List(l, "fd")
    BY <2>1, <2>2, <2>3 DEF Ahead, List
  <2>5. Todo' = r
    BY <2>1, <2>4 DEF Todo
  <2>6. r \subseteq Listed \cap Fd
    BY <2>1, <1>b, <1>c
  <2>7. Set!Ready(r)
    BY <2>1, <2>2, <2>5, <2>6, <1>f DEF Part, Running, Set!Ready
  <2> QED BY <2>7 DEF Set!Next
<1>9. ASSUME SelectTime PROVE Set!Next
  <2> DEFINE e == l.head["time"]
  <2>1. /\ phase = "select" /\ phase' = "time" /\ e # NULL /\ cur' = e /\ busy' /\ UNCHANGED <<l, left>>
        /\ left[e] <= 0 \/ l.head["always"] # NULL
    BY <1>9 DEF SelectTime, FirstTime, Overdue
  <2>2. e \in List(l, "time") /\ (l.head["always"] # NULL => l.head["always"] \in List(l, "always"))
    BY <2>1, <1>a, <1>b, ListFacts
  <2>3. e \in Listed \cap Time /\ (l.head["always"] # NULL => Listed \cap Always # {})
    BY <2>2, <1>b, <1>c
  <2>4. \A f \in Listed \cap Time : left[e] <= left[f]
    <3>1. \A f \in Listed \cap Time : f \in Behind(l, e)
      BY <1>b, <1>c DEF List
    <3> QED BY <3>1, <2>2, <1>a, <1>d, SortedBehind
  <2>5. Todo' = Todo /\ Part' = "fds" /\ Running' = e /\ Part = "select"
    BY <2>1, <1>f DEF Todo, Part, Running
  <2>6. Set!Timer(e)
    BY <2>1, <2>3, <2>4, <2>5, <1>f DEF Set!Timer
  <2> QED BY <2>6, <2>3 DEF Set!Next
<1>10. ASSUME SkipFd PROVE UNCHANGED Set!vars
  <2>1. /\ phase = "fds" /\ ~busy /\ cur # NULL /\ cur \notin ready /\ cur' = l.next[cur]
        /\ UNCHANGED <<l, left, phase, busy, ready>>
    BY <1>10 DEF SkipFd
  <2>2. cur \in List(l, "fd")
    BY <2>1, <1>a DEF LoopOK, Walks
  <2>3. Behind(l, l.next[cur]) = Behind(l, cur) \ {cur}
    BY <2>2, <1>a, <1>b, RestOf
  <2>4. Ahead' = Ahead \ {cur}
    BY <2>1, <2>3, BehindNull DEF Ahead
  <2>5. Todo' = Todo
    BY <2>1, <2>4 DEF Todo
  <2> QED
    BY <2>1, <2>5, <1>f DEF Part, Running, Set!vars
<1>11. ASSUME Call PROVE Set!Next
  <2>1. /\ phase \in {"fds", "always"} /\ ~busy /\ cur # NULL /\ (phase = "fds" => cur \in ready)
        /\ busy' /\ UNCHANGED <<l, left, phase, cur, ready>>
    BY <1>11 DEF Call
  <2>2. PICK name \in Type : cur \in List(l, name)
    BY <2>1, <1>a, <1>b DEF LoopOK, Walks
  <2>3. cur \in Event /\ cur \in Behind(l, cur) /\ Behind(l, l.next[cur]) = Behind(l, cur) \ {cur}
    BY <2>2, <1>a, RestOf
  <2>4. Ahead = Behind(l, cur) /\ Ahead' = Ahead \ {cur}
    BY <2>1, <2>3 DEF Ahead
  <2>5. cur \in Todo /\ Todo' = Todo \ {cur}
    BY <2>1, <2>3, <2>4 DEF Todo
  <2>6. Set!Call(cur)
    BY <2>1, <2>5, <1>f DEF Part, Running, Set!Call
  <2> QED BY <2>3, <2>6, <1>b DEF Set!Next
<1>12. ASSUME ReturnTime PROVE Set!Next
  <2>1. /\ busy /\ phase = "time" /\ phase' = "fds" /\ cur' = NULL /\ busy' = FALSE
        /\ l' = (IF remove THEN del_event(l, cur) ELSE l) /\ UNCHANGED <<left, ready>>
    BY <1>12 DEF ReturnTime
  <2>2. cur \in Time /\ cur \in Event /\ (cur \in List(l, "time") \/ Loose(l, cur))
    BY <2>1, <1>a, <1>b DEF LoopOK
  <2>3. Listed' \in {Listed, Listed \ {cur}}
    <3>1. CASE l' = l
      BY <3>1, <1>f
    <3>2. CASE l' = del_event(l, cur) /\ cur \in List(l, "time")
      <4>1. Removed(l, cur, l')
        BY <3>2, <1>a, <1>b, <1>d, DelEffect
      <4>2. AllOf(l') = AllOf(l) \ {cur} /\ Listed' = AllOf(l')
        BY <4>1, <2>2, AllOfStep DEF Listed, AllOf
      <4> QED BY <4>2, <1>c
    <3>3. CASE l' = del_event(l, cur) /\ Loose(l, cur)
      <4>1. l' = l
        BY <3>3, <2>2, <1>a, DelLoose DEF ListsOK
      <4> QED BY <4>1, <1>f
    <3> QED BY <3>1, <3>2, <3>3, <2>1, <2>2
  <2>4. Todo' = Todo /\ Part' = Part /\ Running = cur /\ Running' = NULL
    BY <2>1 DEF Todo, Ahead, Part, Running
  <2>5. cur \notin {NULL, "main"}
    BY <2>2, <1>e
  <2>6. Set!Return
    BY <2>1, <2>3, <2>4, <2>5 DEF Set!Return
  <2> QED BY <2>6 DEF Set!Next
<1>13. ASSUME FdsDone PROVE Set!Next
  <2>1. /\ phase = "fds" /\ ~busy /\ cur = NULL /\ phase' = "always" /\ cur' = l.head["always"]
        /\ UNCHANGED <<l, left, busy>>
    BY <1>13 DEF FdsDone
  <2>2. Ahead' = List(l, "always")
    BY <2>1, BehindNull DEF Ahead, List
  <2>3. Todo = {} /\ Todo' = Listed \cap Always
    BY <2>1, <2>2, <1>b, <1>c DEF Todo, Ahead
  <2>4. Set!TakeAlways
    BY <2>1, <2>3, <1>f DEF Part, Running, Set!TakeAlways
  <2> QED BY <2>4 DEF Set!Next
<1>14. ASSUME AlwaysDone PROVE Set!Next
  <2>1. /\ phase = "always" /\ ~busy /\ cur = NULL /\ phase' = (IF sigint THEN "stopped" ELSE "select")
        /\ l' = (IF sigint THEN Headless(l) ELSE l) /\ UNCHANGED <<left, cur, busy>>
    BY <1>14 DEF AlwaysDone, Headless
  <2>2. Todo = {} /\ Todo' = {} /\ Part = "always" /\ Running = NULL /\ Running' = NULL
    BY <2>1 DEF Todo, Ahead, Part, Running
  <2>3. CASE sigint
    <3>1. Listed' = {} /\ Part' = "stopped"
      BY <2>1, <2>3, <1>a, NoListsOK DEF Part, Listed, AllOf
    <3>2. Set!EndPass
      BY <2>1, <2>2, <3>1 DEF Set!EndPass
    <3> QED BY <3>2 DEF Set!Next
  <2>4. CASE ~sigint
    <3>1. Listed' = Listed /\ Part' = "select"
      BY <2>1, <2>4, <1>f DEF Part
    <3>2. Set!EndPass
      BY <2>1, <2>2, <3>1 DEF Set!EndPass
    <3> QED BY <3>2 DEF Set!Next
  <2> QED BY <2>3, <2>4
<1>15. ASSUME NEW result \in BOOLEAN, Return(result) PROVE Set!Next
  <2>1. /\ busy /\ phase \in {"fds", "always"} /\ cur' = l.next[cur] /\ busy' = FALSE
        /\ l' = (IF result THEN l ELSE del_event(l, cur)) /\ UNCHANGED <<left, phase, ready>>
    BY <1>15 DEF Return
  <2>2. PICK name \in Type : cur \in List(l, name)
    BY <2>1, <1>a, <1>b DEF LoopOK, Walks
  <2>3. /\ cur \in Event /\ Behind(l, l.next[cur]) = Behind(l, cur) \ {cur}
        /\ l.next[cur] \in List(l, name) \cup {NULL} /\ l.next[cur] # cur
    BY <2>2, <1>a, RestOf
  <2>4. Ahead = Behind(l, l.next[cur]) /\ Ahead' = Behind(l', l.next[cur])
    BY <2>1, <2>3, <1>b, BehindNull DEF Ahead
  <2>5. Ahead' = Ahead /\ Listed' \in {Listed, Listed \ {cur}}
    <3>1. CASE result
      BY <3>1, <2>1, <2>4, <1>f
    <3>2. CASE ~result
      <4>1. Removed(l, cur, l')
        BY <3>2, <2>1, <2>2, <1>a, <1>d, DelEffect
      <4>2. AllOf(l') = AllOf(l) \ {cur} /\ Listed' = AllOf(l')
        BY <4>1, <2>3, AllOfStep DEF Listed, AllOf
      <4>3. CASE l.next[cur] = NULL
        BY <4>2, <4>3, <2>4, <1>c, BehindNull
      <4>4. CASE l.next[cur] # NULL
        <5>1. Behind(l', l.next[cur]) = Behind(l, l.next[cur]) \ {cur}
          BY <4>1, <4>4, <2>3 DEF Removed
        <5> QED
          BY <5>1, <4>2, <2>3, <2>4, <1>c
      <4> QED BY <4>3, <4>4
    <3> QED BY <3>1, <3>2
  <2>6. Todo' = Todo /\ Part' = Part /\ Running = cur /\ Running' = NULL
    BY <2>1, <2>5 DEF Todo, Part, Running
  <2>7. cur \notin {NULL, "main"}
    BY <2>3, <1>e
  <2>8. Set!Return
    BY <2>1, <2>5, <2>6, <2>7 DEF Set!Return
  <2> QED BY <2>8 DEF Set!Next
<1>16. ASSUME sigint_handler PROVE Set!Next \/ UNCHANGED Set!vars
  <2>1. UNCHANGED <<l, left, busy, ready>> /\ Listed' = Listed
    BY <1>16, <1>f DEF sigint_handler
  <2>2. CASE UNCHANGED <<phase, cur>>
    BY <2>1, <2>2 DEF Part, Todo, Ahead, Running, Set!vars
  <2>3. CASE phase = "select" /\ phase' = "fds" /\ cur' = NULL
    <3>1. ~busy
      BY <2>3, <1>a DEF LoopOK
    <3>2. Todo' = {} /\ Part = "select" /\ Part' = "fds" /\ Running' = Running
      BY <2>1, <2>3, <3>1 DEF Part, Todo, Ahead, Running
    <3> DEFINE none == {}
    <3>3. Set!Ready(none)
      BY <2>1, <3>2 DEF Set!Ready
    <3> QED BY <3>3 DEF Set!Next
  <2> QED BY <2>2, <2>3, <1>16 DEF sigint_handler
<1>17. ASSUME UNCHANGED vars PROVE UNCHANGED Set!vars
  BY <1>17 DEF vars, Listed, Part, Todo, Ahead, Running, Set!vars
<1> QED
  BY <1>1, <1>2, <1>3, <1>4, <1>5, <1>6, <1>7, <1>8, <1>9, <1>10, <1>11, <1>12, <1>13,
     <1>14, <1>15, <1>16, <1>17 DEF Next, Callback, Stopped

\* A pass of the loop calls every event it took exactly once, none that was removed
\* and none that was added meanwhile: event.c's loop implements EventSet.
THEOREM PassesAreExactAlways == Spec => PassesAreExact
<1>1. Init => Set!Init
  <2> SUFFICES ASSUME Init PROVE Set!Init
    OBVIOUS
  <2>1. \A name \in Type : List(l, name) = {}
    BY BehindNull DEF Init, NoLists, List
  <2>2. Listed = {}
    BY <2>1 DEF Listed
  <2> QED
    BY <2>2 DEF Init, Part, Todo, Running, Set!Init
<1>2. IInv /\ IInv' /\ [Next]_vars => [Set!Next]_(Set!vars)
  BY PassStep
<1> QED
  BY <1>1, <1>2, InitOK, StepOK, PTL DEF Spec, PassesAreExact, Set!Spec
=============================================================================
