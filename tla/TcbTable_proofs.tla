-------------------------- MODULE TcbTable_proofs --------------------------
(***************************************************************************)
(* However sessions come and go, rb_insert_color and rb_erase leave a      *)
(* red-black tree in the order of tcbcmp, in which every session is found  *)
(* and which the status page walks from end to end: for any number of      *)
(* sessions.                                                               *)
(***************************************************************************)
EXTENDS TcbTable, FiniteSetTheorems, WellFoundedInduction, TLAPS

N == Cardinality(Node)

\* A nonempty set of numbers has a least one, by which the proofs about recursive
\* functions and about subtrees go by induction.
LEMMA LeastNat ==
  ASSUME NEW T, T \subseteq Nat, T # {}
  PROVE  \E n \in T : \A m \in T : n <= m
<1> DEFINE R == OpToRel(<, Nat)
<1>1. IsWellFoundedOn(R, Nat)
  BY NatLessThanWellFounded
<1>2. \A x, y \in Nat : x < y => <<x, y>> \in R
  BY DEF OpToRel
<1> HIDE DEF R
<1>3. PICK x \in T : \A y \in T : ~ (<<y, x>> \in R)
  BY <1>1, WFMin
<1>4. ASSUME NEW y \in T PROVE x <= y
  <2>1. x \in Nat /\ y \in Nat
    OBVIOUS
  <2>2. ~(y < x)
    BY <1>2, <1>3, <2>1
  <2> QED
    BY <2>1, <2>2
<1> QED
  BY <1>4
-----------------------------------------------------------------------------
(* Loops. *)

\* g holds the values that n iterations of a loop with the body F give, from x on.
Run(F, x, n, g) == g = [i \in 0..n |-> IF i = 0 THEN x ELSE F[g[i - 1]]]

\* Q[k] are the values from which the loop has ended after k iterations.
Sinks(F, Q) ==
    \A k \in Nat : \A y \in Q[k] : F[y] = y \/ (k > 0 /\ F[y] \in Q[k - 1])

\* A loop can be run for any number of iterations.
LEMMA RunExists ==
  ASSUME NEW S, NEW F \in [S -> S], NEW x \in S, NEW n \in Nat
  PROVE  \E g : Run(F, x, n, g) /\ \A i \in 0..n : g[i] \in S
<1> DEFINE Good(j) == \E g : Run(F, x, j, g) /\ \A i \in 0..j : g[i] \in S
           T == {j \in Nat : ~Good(j)}
<1>1. SUFFICES ASSUME T # {} PROVE FALSE
  OBVIOUS
<1>2. PICK j \in T : \A m \in T : j <= m
  <2>1. T \subseteq Nat
    OBVIOUS
  <2> HIDE DEF T
  <2> QED BY <1>1, <2>1, LeastNat
<1>3. j \in Nat /\ ~Good(j)
  OBVIOUS
<1>4. CASE j = 0
  <2> DEFINE g == [i \in 0..0 |-> x]
  <2>1. g = [i \in 0..0 |-> IF i = 0 THEN x ELSE F[g[i - 1]]]
    OBVIOUS
  <2>2. Run(F, x, 0, g) /\ \A i \in 0..0 : g[i] \in S
    BY <2>1 DEF Run
  <2> QED BY <1>3, <1>4, <2>2
<1>5. CASE j # 0
  <2>1. j - 1 \in Nat /\ ~(j <= j - 1)
    BY <1>3, <1>5
  <2>2. j - 1 \notin T
    BY <1>2, <2>1
  <2>3. Good(j - 1)
    BY <2>1, <2>2
  <2>4. PICK h : Run(F, x, j - 1, h) /\ \A i \in 0..(j - 1) : h[i] \in S
    BY <2>3
  <2> DEFINE g == [i \in 0..j |-> IF i = j THEN F[h[j - 1]] ELSE h[i]]
  <2>5. ASSUME NEW i \in 0..j
        PROVE  g[i] = (IF i = 0 THEN x ELSE F[g[i - 1]]) /\ g[i] \in S
    <3>1. CASE i = j
      <4>1. g[i] = F[h[j - 1]] /\ g[i - 1] = h[i - 1] /\ j - 1 \in 0..(j - 1)
        BY <3>1, <1>3, <1>5
      <4> QED BY <4>1, <3>1, <1>5, <2>4
    <3>2. CASE i # j
      <4>1. i \in 0..(j - 1) /\ g[i] = h[i]
        BY <3>2, <1>3, <1>5
      <4>2. h[i] = IF i = 0 THEN x ELSE F[h[i - 1]]
        BY <4>1, <2>4 DEF Run
      <4>3. i # 0 => i - 1 \in 0..j /\ i - 1 # j
        BY <4>1, <1>3
      <4>4. i # 0 => g[i - 1] = h[i - 1]
        BY <4>3
      <4> QED BY <4>1, <4>2, <4>4, <2>4
    <3> QED BY <3>1, <3>2
  <2> HIDE DEF g
  <2>6. g = [i \in 0..j |-> IF i = 0 THEN x ELSE F[g[i - 1]]]
    <3>1. g = [i \in 0..j |-> g[i]]
      BY DEF g
    <3> QED BY <2>5, <3>1
  <2>7. Run(F, x, j, g)
    BY <2>6 DEF Run
  <2> QED BY <1>3, <2>5, <2>7
<1> QED BY <1>4, <1>5

\* A loop that starts in Q[n] has ended after n iterations, in some Q[k].
LEMMA RunEnds ==
  ASSUME NEW F, NEW Q, Sinks(F, Q), NEW n \in Nat, NEW x \in Q[n], NEW g, Run(F, x, n, g)
  PROVE  F[g[n]] = g[n] /\ \E k \in 0..n : g[n] \in Q[k]
<1> DEFINE Good(i) == \/ F[g[i]] = g[i] /\ \E k \in 0..n : g[i] \in Q[k]
                      \/ g[i] \in Q[n - i]
           T == {i \in 0..n : ~Good(i)}
<1>1. T = {}
  <2>1. SUFFICES ASSUME T # {} PROVE FALSE
    OBVIOUS
  <2>2. PICK i \in T : \A m \in T : i <= m
    <3>1. T \subseteq Nat
      OBVIOUS
    <3> HIDE DEF T
    <3> QED BY <2>1, <3>1, LeastNat
  <2>3. i \in 0..n /\ ~Good(i)
    OBVIOUS
  <2>4. i # 0
    <3>1. n - 0 = n /\ 0 \in 0..n
      OBVIOUS
    <3>2. g[0] = x
      BY <3>1 DEF Run
    <3> QED BY <2>3, <3>1, <3>2
  <2>5. i - 1 \in 0..n /\ ~(i <= i - 1)
    BY <2>3, <2>4
  <2>6. i - 1 \notin T
    BY <2>2, <2>5
  <2>7. Good(i - 1)
    BY <2>5, <2>6
  <2>8. g[i] = F[g[i - 1]]
    BY <2>3, <2>4 DEF Run
  <2>9. CASE F[g[i - 1]] = g[i - 1] /\ \E k \in 0..n : g[i - 1] \in Q[k]
    BY <2>3, <2>8, <2>9
  <2>10. CASE g[i - 1] \in Q[n - (i - 1)]
    <3> DEFINE k == n - (i - 1)
    <3>1. k \in Nat /\ k \in 0..n /\ k - 1 = n - i
      BY <2>3, <2>4
    <3>2. F[g[i - 1]] = g[i - 1] \/ F[g[i - 1]] \in Q[k - 1]
      BY <3>1, <2>10 DEF Sinks
    <3> QED BY <3>1, <3>2, <2>3, <2>8, <2>10
  <2> QED BY <2>7, <2>9, <2>10
<1>2. Good(n) /\ n - n = 0
  BY <1>1
<1>3. CASE g[n] \in Q[0]
  BY <1>3 DEF Sinks
<1> QED BY <1>2, <1>3

\* The bodies of the loops that have no name.
LeftStep(t, m) == IF t.kid["rb_left"][m] = NULL THEN m ELSE t.kid["rb_left"][m]
UpStep(t, m) ==
    IF t.parent[m] # NULL /\ t.kid["rb_right"][t.parent[m]] = m THEN t.parent[m] ELSE m
DescendStep(t, k, w) ==
    IF w.at = NULL THEN w
    ELSE LET c == tcbcmp(k, w.at)
             s == IF c < 0 THEN "rb_left" ELSE "rb_right"
         IN  IF c = 0 THEN w ELSE [at |-> t.kid[s][w.at], parent |-> w.at, side |-> s]
AboveStep(t, A) == A \cup ({t.parent[m] : m \in A} \ {NULL})
RowStep(t, w) ==
    IF w.tcb = NULL THEN w ELSE [rows |-> Append(w.rows, w.tcb), tcb |-> rb_next(t, w.tcb)]

\* Each loop ends, under the condition that RunEnds asks for.  An operator cannot be
\* the parameter of a lemma, so there is one for each body.
\* The loop of rb_insert_color.
LEMMA InsertLoop ==
  ASSUME N \in Nat, NEW Q, NEW x \in Q[N],
         \A k \in Nat : \A y \in Q[k] : RepairInsert(y) = y \/ (k > 0 /\ RepairInsert(y) \in Q[k - 1])
  PROVE  \E y : /\ Loop(RepairInsert, x) = y /\ RepairInsert(y) = y
               /\ \E k \in 0..N : y \in Q[k]
<1> HIDE DEF N, RepairInsert
<1> DEFINE S == UNION {Q[k] : k \in Nat}
           F == [y \in S |-> RepairInsert(y)]
           W(g) == g = [i \in 0..N |-> IF i = 0 THEN x ELSE RepairInsert(g[i - 1])]
<1>1. \A y \in S : F[y] \in S /\ F[y] = RepairInsert(y)
  <2> SUFFICES ASSUME NEW y \in S PROVE RepairInsert(y) \in S
    OBVIOUS
  <2>1. PICK k \in Nat : y \in Q[k]
    OBVIOUS
  <2>2. RepairInsert(y) = y \/ (k > 0 /\ RepairInsert(y) \in Q[k - 1])
    BY <2>1
  <2>3. k > 0 => k - 1 \in Nat
    OBVIOUS
  <2>4. \A j \in Nat : Q[j] \subseteq S
    OBVIOUS
  <2> HIDE DEF S
  <2> QED BY <2>2, <2>3, <2>4
<1>2. F \in [S -> S] /\ x \in S
  BY <1>1
<1>3. PICK a : Run(F, x, N, a) /\ \A i \in 0..N : a[i] \in S
  <2> HIDE DEF F, S
  <2> QED BY <1>2, RunExists
<1>4. W(a)
  <2>1. a = [i \in 0..N |-> IF i = 0 THEN x ELSE F[a[i - 1]]]
    BY <1>3 DEF Run
  <2>2. \A i \in 0..N : i # 0 => i - 1 \in 0..N
    OBVIOUS
  <2>3. \A i \in 0..N : i # 0 => F[a[i - 1]] = RepairInsert(a[i - 1])
    <3> HIDE DEF F, S
    <3> QED BY <1>1, <1>3, <2>2
  <2> HIDE DEF F, S
  <2>4. [i \in 0..N |-> IF i = 0 THEN x ELSE F[a[i - 1]]]
        = [i \in 0..N |-> IF i = 0 THEN x ELSE RepairInsert(a[i - 1])]
    BY <2>3
  <2> QED BY <2>1, <2>4
<1> DEFINE g == CHOOSE b : W(b)
<1>5. W(g)
  BY <1>4
<1>6. Loop(RepairInsert, x) = g[N]
  BY DEF Loop, N
<1> HIDE DEF g
<1> DEFINE G == [y \in S \cup {g[i] : i \in 0..N} |-> RepairInsert(y)]
<1>7. \A i \in 0..N : G[g[i]] = RepairInsert(g[i])
  OBVIOUS
<1>8. Run(G, x, N, g)
  <2>1. \A i \in 0..N : i # 0 => i - 1 \in 0..N
    OBVIOUS
  <2>2. \A i \in 0..N : i # 0 => G[g[i - 1]] = RepairInsert(g[i - 1])
    <3> HIDE DEF G
    <3> QED BY <1>7, <2>1
  <2> HIDE DEF G
  <2>3. [i \in 0..N |-> IF i = 0 THEN x ELSE RepairInsert(g[i - 1])]
        = [i \in 0..N |-> IF i = 0 THEN x ELSE G[g[i - 1]]]
    BY <2>2
  <2> QED BY <1>5, <2>3 DEF Run
<1>9. Sinks(G, Q)
  <2> SUFFICES ASSUME NEW k \in Nat, NEW y \in Q[k] PROVE G[y] = y \/ (k > 0 /\ G[y] \in Q[k - 1])
    BY DEF Sinks
  <2>1. G[y] = RepairInsert(y)
    OBVIOUS
  <2> QED BY <2>1
<1>10. G[g[N]] = g[N] /\ \E k \in 0..N : g[N] \in Q[k]
  <2> HIDE DEF G, W
  <2> QED BY <1>8, <1>9, RunEnds
<1>11. G[g[N]] = RepairInsert(g[N])
  <2> HIDE DEF G
  <2> QED BY <1>7
<1> QED BY <1>6, <1>10, <1>11

\* The loop of __rb_erase_color.
LEMMA EraseLoop ==
  ASSUME N \in Nat, NEW Q, NEW x \in Q[N],
         \A k \in Nat : \A y \in Q[k] : RepairErase(y) = y \/ (k > 0 /\ RepairErase(y) \in Q[k - 1])
  PROVE  \E y : /\ Loop(RepairErase, x) = y /\ RepairErase(y) = y
               /\ \E k \in 0..N : y \in Q[k]
<1> HIDE DEF N, RepairErase
<1> DEFINE S == UNION {Q[k] : k \in Nat}
           F == [y \in S |-> RepairErase(y)]
           W(g) == g = [i \in 0..N |-> IF i = 0 THEN x ELSE RepairErase(g[i - 1])]
<1>1. \A y \in S : F[y] \in S /\ F[y] = RepairErase(y)
  <2> SUFFICES ASSUME NEW y \in S PROVE RepairErase(y) \in S
    OBVIOUS
  <2>1. PICK k \in Nat : y \in Q[k]
    OBVIOUS
  <2>2. RepairErase(y) = y \/ (k > 0 /\ RepairErase(y) \in Q[k - 1])
    BY <2>1
  <2>3. k > 0 => k - 1 \in Nat
    OBVIOUS
  <2>4. \A j \in Nat : Q[j] \subseteq S
    OBVIOUS
  <2> HIDE DEF S
  <2> QED BY <2>2, <2>3, <2>4
<1>2. F \in [S -> S] /\ x \in S
  BY <1>1
<1>3. PICK a : Run(F, x, N, a) /\ \A i \in 0..N : a[i] \in S
  <2> HIDE DEF F, S
  <2> QED BY <1>2, RunExists
<1>4. W(a)
  <2>1. a = [i \in 0..N |-> IF i = 0 THEN x ELSE F[a[i - 1]]]
    BY <1>3 DEF Run
  <2>2. \A i \in 0..N : i # 0 => i - 1 \in 0..N
    OBVIOUS
  <2>3. \A i \in 0..N : i # 0 => F[a[i - 1]] = RepairErase(a[i - 1])
    <3> HIDE DEF F, S
    <3> QED BY <1>1, <1>3, <2>2
  <2> HIDE DEF F, S
  <2>4. [i \in 0..N |-> IF i = 0 THEN x ELSE F[a[i - 1]]]
        = [i \in 0..N |-> IF i = 0 THEN x ELSE RepairErase(a[i - 1])]
    BY <2>3
  <2> QED BY <2>1, <2>4
<1> DEFINE g == CHOOSE b : W(b)
<1>5. W(g)
  BY <1>4
<1>6. Loop(RepairErase, x) = g[N]
  BY DEF Loop, N
<1> HIDE DEF g
<1> DEFINE G == [y \in S \cup {g[i] : i \in 0..N} |-> RepairErase(y)]
<1>7. \A i \in 0..N : G[g[i]] = RepairErase(g[i])
  OBVIOUS
<1>8. Run(G, x, N, g)
  <2>1. \A i \in 0..N : i # 0 => i - 1 \in 0..N
    OBVIOUS
  <2>2. \A i \in 0..N : i # 0 => G[g[i - 1]] = RepairErase(g[i - 1])
    <3> HIDE DEF G
    <3> QED BY <1>7, <2>1
  <2> HIDE DEF G
  <2>3. [i \in 0..N |-> IF i = 0 THEN x ELSE RepairErase(g[i - 1])]
        = [i \in 0..N |-> IF i = 0 THEN x ELSE G[g[i - 1]]]
    BY <2>2
  <2> QED BY <1>5, <2>3 DEF Run
<1>9. Sinks(G, Q)
  <2> SUFFICES ASSUME NEW k \in Nat, NEW y \in Q[k] PROVE G[y] = y \/ (k > 0 /\ G[y] \in Q[k - 1])
    BY DEF Sinks
  <2>1. G[y] = RepairErase(y)
    OBVIOUS
  <2> QED BY <2>1
<1>10. G[g[N]] = g[N] /\ \E k \in 0..N : g[N] \in Q[k]
  <2> HIDE DEF G, W
  <2> QED BY <1>8, <1>9, RunEnds
<1>11. G[g[N]] = RepairErase(g[N])
  <2> HIDE DEF G
  <2> QED BY <1>7
<1> QED BY <1>6, <1>10, <1>11

\* The way down to the leftmost node.
LEMMA LeftmostLoop ==
  ASSUME N \in Nat, NEW t, NEW Q, NEW x \in Q[N],
         \A k \in Nat : \A y \in Q[k] : LeftStep(t, y) = y \/ (k > 0 /\ LeftStep(t, y) \in Q[k - 1])
  PROVE  \E y : /\ Leftmost(t, x) = y /\ LeftStep(t, y) = y
               /\ \E k \in 0..N : y \in Q[k]
<1> HIDE DEF N, LeftStep
<1> DEFINE S == UNION {Q[k] : k \in Nat}
           F == [y \in S |-> LeftStep(t, y)]
           W(g) == g = [i \in 0..N |-> IF i = 0 THEN x ELSE LeftStep(t, g[i - 1])]
<1>1. \A y \in S : F[y] \in S /\ F[y] = LeftStep(t, y)
  <2> SUFFICES ASSUME NEW y \in S PROVE LeftStep(t, y) \in S
    OBVIOUS
  <2>1. PICK k \in Nat : y \in Q[k]
    OBVIOUS
  <2>2. LeftStep(t, y) = y \/ (k > 0 /\ LeftStep(t, y) \in Q[k - 1])
    BY <2>1
  <2>3. k > 0 => k - 1 \in Nat
    OBVIOUS
  <2>4. \A j \in Nat : Q[j] \subseteq S
    OBVIOUS
  <2> HIDE DEF S
  <2> QED BY <2>2, <2>3, <2>4
<1>2. F \in [S -> S] /\ x \in S
  BY <1>1
<1>3. PICK a : Run(F, x, N, a) /\ \A i \in 0..N : a[i] \in S
  <2> HIDE DEF F, S
  <2> QED BY <1>2, RunExists
<1>4. W(a)
  <2>1. a = [i \in 0..N |-> IF i = 0 THEN x ELSE F[a[i - 1]]]
    BY <1>3 DEF Run
  <2>2. \A i \in 0..N : i # 0 => i - 1 \in 0..N
    OBVIOUS
  <2>3. \A i \in 0..N : i # 0 => F[a[i - 1]] = LeftStep(t, a[i - 1])
    <3> HIDE DEF F, S
    <3> QED BY <1>1, <1>3, <2>2
  <2> HIDE DEF F, S
  <2>4. [i \in 0..N |-> IF i = 0 THEN x ELSE F[a[i - 1]]]
        = [i \in 0..N |-> IF i = 0 THEN x ELSE LeftStep(t, a[i - 1])]
    BY <2>3
  <2> QED BY <2>1, <2>4
<1> DEFINE g == CHOOSE b : W(b)
<1>5. W(g)
  BY <1>4
<1>6. Leftmost(t, x) = g[N]
  BY DEF Loop, N, Leftmost, LeftStep
<1> HIDE DEF g
<1> DEFINE G == [y \in S \cup {g[i] : i \in 0..N} |-> LeftStep(t, y)]
<1>7. \A i \in 0..N : G[g[i]] = LeftStep(t, g[i])
  OBVIOUS
<1>8. Run(G, x, N, g)
  <2>1. \A i \in 0..N : i # 0 => i - 1 \in 0..N
    OBVIOUS
  <2>2. \A i \in 0..N : i # 0 => G[g[i - 1]] = LeftStep(t, g[i - 1])
    <3> HIDE DEF G
    <3> QED BY <1>7, <2>1
  <2> HIDE DEF G
  <2>3. [i \in 0..N |-> IF i = 0 THEN x ELSE LeftStep(t, g[i - 1])]
        = [i \in 0..N |-> IF i = 0 THEN x ELSE G[g[i - 1]]]
    BY <2>2
  <2> QED BY <1>5, <2>3 DEF Run
<1>9. Sinks(G, Q)
  <2> SUFFICES ASSUME NEW k \in Nat, NEW y \in Q[k] PROVE G[y] = y \/ (k > 0 /\ G[y] \in Q[k - 1])
    BY DEF Sinks
  <2>1. G[y] = LeftStep(t, y)
    OBVIOUS
  <2> QED BY <2>1
<1>10. G[g[N]] = g[N] /\ \E k \in 0..N : g[N] \in Q[k]
  <2> HIDE DEF G, W
  <2> QED BY <1>8, <1>9, RunEnds
<1>11. G[g[N]] = LeftStep(t, g[N])
  <2> HIDE DEF G
  <2> QED BY <1>7
<1> QED BY <1>6, <1>10, <1>11

\* The way up of rb_next.
LEMMA UpLoop ==
  ASSUME N \in Nat, NEW t, NEW Q, NEW x \in Q[N], t.kid["rb_right"][x] = NULL,
         \A k \in Nat : \A y \in Q[k] : UpStep(t, y) = y \/ (k > 0 /\ UpStep(t, y) \in Q[k - 1])
  PROVE  \E y : /\ rb_next(t, x) = t.parent[y] /\ UpStep(t, y) = y
               /\ \E k \in 0..N : y \in Q[k]
<1> HIDE DEF N, UpStep
<1> DEFINE S == UNION {Q[k] : k \in Nat}
           F == [y \in S |-> UpStep(t, y)]
           W(g) == g = [i \in 0..N |-> IF i = 0 THEN x ELSE UpStep(t, g[i - 1])]
<1>1. \A y \in S : F[y] \in S /\ F[y] = UpStep(t, y)
  <2> SUFFICES ASSUME NEW y \in S PROVE UpStep(t, y) \in S
    OBVIOUS
  <2>1. PICK k \in Nat : y \in Q[k]
    OBVIOUS
  <2>2. UpStep(t, y) = y \/ (k > 0 /\ UpStep(t, y) \in Q[k - 1])
    BY <2>1
  <2>3. k > 0 => k - 1 \in Nat
    OBVIOUS
  <2>4. \A j \in Nat : Q[j] \subseteq S
    OBVIOUS
  <2> HIDE DEF S
  <2> QED BY <2>2, <2>3, <2>4
<1>2. F \in [S -> S] /\ x \in S
  BY <1>1
<1>3. PICK a : Run(F, x, N, a) /\ \A i \in 0..N : a[i] \in S
  <2> HIDE DEF F, S
  <2> QED BY <1>2, RunExists
<1>4. W(a)
  <2>1. a = [i \in 0..N |-> IF i = 0 THEN x ELSE F[a[i - 1]]]
    BY <1>3 DEF Run
  <2>2. \A i \in 0..N : i # 0 => i - 1 \in 0..N
    OBVIOUS
  <2>3. \A i \in 0..N : i # 0 => F[a[i - 1]] = UpStep(t, a[i - 1])
    <3> HIDE DEF F, S
    <3> QED BY <1>1, <1>3, <2>2
  <2> HIDE DEF F, S
  <2>4. [i \in 0..N |-> IF i = 0 THEN x ELSE F[a[i - 1]]]
        = [i \in 0..N |-> IF i = 0 THEN x ELSE UpStep(t, a[i - 1])]
    BY <2>3
  <2> QED BY <2>1, <2>4
<1> DEFINE g == CHOOSE b : W(b)
<1>5. W(g)
  BY <1>4
<1>6. rb_next(t, x) = t.parent[g[N]]
  BY DEF Loop, N, rb_next, UpStep
<1> HIDE DEF g
<1> DEFINE G == [y \in S \cup {g[i] : i \in 0..N} |-> UpStep(t, y)]
<1>7. \A i \in 0..N : G[g[i]] = UpStep(t, g[i])
  OBVIOUS
<1>8. Run(G, x, N, g)
  <2>1. \A i \in 0..N : i # 0 => i - 1 \in 0..N
    OBVIOUS
  <2>2. \A i \in 0..N : i # 0 => G[g[i - 1]] = UpStep(t, g[i - 1])
    <3> HIDE DEF G
    <3> QED BY <1>7, <2>1
  <2> HIDE DEF G
  <2>3. [i \in 0..N |-> IF i = 0 THEN x ELSE UpStep(t, g[i - 1])]
        = [i \in 0..N |-> IF i = 0 THEN x ELSE G[g[i - 1]]]
    BY <2>2
  <2> QED BY <1>5, <2>3 DEF Run
<1>9. Sinks(G, Q)
  <2> SUFFICES ASSUME NEW k \in Nat, NEW y \in Q[k] PROVE G[y] = y \/ (k > 0 /\ G[y] \in Q[k - 1])
    BY DEF Sinks
  <2>1. G[y] = UpStep(t, y)
    OBVIOUS
  <2> QED BY <2>1
<1>10. G[g[N]] = g[N] /\ \E k \in 0..N : g[N] \in Q[k]
  <2> HIDE DEF G, W
  <2> QED BY <1>8, <1>9, RunEnds
<1>11. G[g[N]] = UpStep(t, g[N])
  <2> HIDE DEF G
  <2> QED BY <1>7
<1> QED BY <1>6, <1>10, <1>11

\* The way down of tcb_find_rb and tcb_insert.
LEMMA DescendLoop ==
  ASSUME N \in Nat, NEW t, NEW key, NEW x,
         x = [at |-> t.root, parent |-> NULL, side |-> "rb_left"], NEW Q, x \in Q[N],
         \A k \in Nat : \A y \in Q[k] : DescendStep(t, key, y) = y \/ (k > 0 /\ DescendStep(t, key, y) \in Q[k - 1])
  PROVE  \E y : /\ Descend(t, key) = y /\ DescendStep(t, key, y) = y
               /\ \E k \in 0..N : y \in Q[k]
<1> HIDE DEF N, DescendStep
<1> DEFINE S == UNION {Q[k] : k \in Nat}
           F == [y \in S |-> DescendStep(t, key, y)]
           W(g) == g = [i \in 0..N |-> IF i = 0 THEN x ELSE DescendStep(t, key, g[i - 1])]
<1>1. \A y \in S : F[y] \in S /\ F[y] = DescendStep(t, key, y)
  <2> SUFFICES ASSUME NEW y \in S PROVE DescendStep(t, key, y) \in S
    OBVIOUS
  <2>1. PICK k \in Nat : y \in Q[k]
    OBVIOUS
  <2>2. DescendStep(t, key, y) = y \/ (k > 0 /\ DescendStep(t, key, y) \in Q[k - 1])
    BY <2>1
  <2>3. k > 0 => k - 1 \in Nat
    OBVIOUS
  <2>4. \A j \in Nat : Q[j] \subseteq S
    OBVIOUS
  <2> HIDE DEF S
  <2> QED BY <2>2, <2>3, <2>4
<1>2. F \in [S -> S] /\ x \in S
  BY <1>1
<1>3. PICK a : Run(F, x, N, a) /\ \A i \in 0..N : a[i] \in S
  <2> HIDE DEF F, S
  <2> QED BY <1>2, RunExists
<1>4. W(a)
  <2>1. a = [i \in 0..N |-> IF i = 0 THEN x ELSE F[a[i - 1]]]
    BY <1>3 DEF Run
  <2>2. \A i \in 0..N : i # 0 => i - 1 \in 0..N
    OBVIOUS
  <2>3. \A i \in 0..N : i # 0 => F[a[i - 1]] = DescendStep(t, key, a[i - 1])
    <3> HIDE DEF F, S
    <3> QED BY <1>1, <1>3, <2>2
  <2> HIDE DEF F, S
  <2>4. [i \in 0..N |-> IF i = 0 THEN x ELSE F[a[i - 1]]]
        = [i \in 0..N |-> IF i = 0 THEN x ELSE DescendStep(t, key, a[i - 1])]
    BY <2>3
  <2> QED BY <2>1, <2>4
<1> DEFINE g == CHOOSE b : W(b)
<1>5. W(g)
  BY <1>4
<1>6. Descend(t, key) = g[N]
  BY DEF Loop, N, Descend, DescendStep
<1> HIDE DEF g
<1> DEFINE G == [y \in S \cup {g[i] : i \in 0..N} |-> DescendStep(t, key, y)]
<1>7. \A i \in 0..N : G[g[i]] = DescendStep(t, key, g[i])
  OBVIOUS
<1>8. Run(G, x, N, g)
  <2>1. \A i \in 0..N : i # 0 => i - 1 \in 0..N
    OBVIOUS
  <2>2. \A i \in 0..N : i # 0 => G[g[i - 1]] = DescendStep(t, key, g[i - 1])
    <3> HIDE DEF G
    <3> QED BY <1>7, <2>1
  <2> HIDE DEF G
  <2>3. [i \in 0..N |-> IF i = 0 THEN x ELSE DescendStep(t, key, g[i - 1])]
        = [i \in 0..N |-> IF i = 0 THEN x ELSE G[g[i - 1]]]
    BY <2>2
  <2> QED BY <1>5, <2>3 DEF Run
<1>9. Sinks(G, Q)
  <2> SUFFICES ASSUME NEW k \in Nat, NEW y \in Q[k] PROVE G[y] = y \/ (k > 0 /\ G[y] \in Q[k - 1])
    BY DEF Sinks
  <2>1. G[y] = DescendStep(t, key, y)
    OBVIOUS
  <2> QED BY <2>1
<1>10. G[g[N]] = g[N] /\ \E k \in 0..N : g[N] \in Q[k]
  <2> HIDE DEF G, W
  <2> QED BY <1>8, <1>9, RunEnds
<1>11. G[g[N]] = DescendStep(t, key, g[N])
  <2> HIDE DEF G
  <2> QED BY <1>7
<1> QED BY <1>6, <1>10, <1>11

\* The walk of write_status_report.
LEMMA RowLoop ==
  ASSUME N \in Nat, NEW t, NEW x, x = [rows |-> <<>>, tcb |-> rb_first(t)],
         NEW Q, x \in Q[N],
         \A k \in Nat : \A y \in Q[k] : RowStep(t, y) = y \/ (k > 0 /\ RowStep(t, y) \in Q[k - 1])
  PROVE  \E y : /\ Rows(t) = y.rows /\ RowStep(t, y) = y
               /\ \E k \in 0..N : y \in Q[k]
<1> HIDE DEF N, RowStep
<1> DEFINE S == UNION {Q[k] : k \in Nat}
           F == [y \in S |-> RowStep(t, y)]
           W(g) == g = [i \in 0..N |-> IF i = 0 THEN x ELSE RowStep(t, g[i - 1])]
<1>1. \A y \in S : F[y] \in S /\ F[y] = RowStep(t, y)
  <2> SUFFICES ASSUME NEW y \in S PROVE RowStep(t, y) \in S
    OBVIOUS
  <2>1. PICK k \in Nat : y \in Q[k]
    OBVIOUS
  <2>2. RowStep(t, y) = y \/ (k > 0 /\ RowStep(t, y) \in Q[k - 1])
    BY <2>1
  <2>3. k > 0 => k - 1 \in Nat
    OBVIOUS
  <2>4. \A j \in Nat : Q[j] \subseteq S
    OBVIOUS
  <2> HIDE DEF S
  <2> QED BY <2>2, <2>3, <2>4
<1>2. F \in [S -> S] /\ x \in S
  BY <1>1
<1>3. PICK a : Run(F, x, N, a) /\ \A i \in 0..N : a[i] \in S
  <2> HIDE DEF F, S
  <2> QED BY <1>2, RunExists
<1>4. W(a)
  <2>1. a = [i \in 0..N |-> IF i = 0 THEN x ELSE F[a[i - 1]]]
    BY <1>3 DEF Run
  <2>2. \A i \in 0..N : i # 0 => i - 1 \in 0..N
    OBVIOUS
  <2>3. \A i \in 0..N : i # 0 => F[a[i - 1]] = RowStep(t, a[i - 1])
    <3> HIDE DEF F, S
    <3> QED BY <1>1, <1>3, <2>2
  <2> HIDE DEF F, S
  <2>4. [i \in 0..N |-> IF i = 0 THEN x ELSE F[a[i - 1]]]
        = [i \in 0..N |-> IF i = 0 THEN x ELSE RowStep(t, a[i - 1])]
    BY <2>3
  <2> QED BY <2>1, <2>4
<1> DEFINE g == CHOOSE b : W(b)
<1>5. W(g)
  BY <1>4
<1>6. Rows(t) = g[N].rows
  BY DEF Loop, N, Rows, RowStep
<1> HIDE DEF g
<1> DEFINE G == [y \in S \cup {g[i] : i \in 0..N} |-> RowStep(t, y)]
<1>7. \A i \in 0..N : G[g[i]] = RowStep(t, g[i])
  OBVIOUS
<1>8. Run(G, x, N, g)
  <2>1. \A i \in 0..N : i # 0 => i - 1 \in 0..N
    OBVIOUS
  <2>2. \A i \in 0..N : i # 0 => G[g[i - 1]] = RowStep(t, g[i - 1])
    <3> HIDE DEF G
    <3> QED BY <1>7, <2>1
  <2> HIDE DEF G
  <2>3. [i \in 0..N |-> IF i = 0 THEN x ELSE RowStep(t, g[i - 1])]
        = [i \in 0..N |-> IF i = 0 THEN x ELSE G[g[i - 1]]]
    BY <2>2
  <2> QED BY <1>5, <2>3 DEF Run
<1>9. Sinks(G, Q)
  <2> SUFFICES ASSUME NEW k \in Nat, NEW y \in Q[k] PROVE G[y] = y \/ (k > 0 /\ G[y] \in Q[k - 1])
    BY DEF Sinks
  <2>1. G[y] = RowStep(t, y)
    OBVIOUS
  <2> QED BY <2>1
<1>10. G[g[N]] = g[N] /\ \E k \in 0..N : g[N] \in Q[k]
  <2> HIDE DEF G, W
  <2> QED BY <1>8, <1>9, RunEnds
<1>11. G[g[N]] = RowStep(t, g[N])
  <2> HIDE DEF G
  <2> QED BY <1>7
<1> QED BY <1>6, <1>10, <1>11

\* The way up of Above, which takes all steps at once.
LEMMA AboveLoop ==
  ASSUME N \in Nat, NEW t, NEW n, NEW Q, {n} \in Q[N],
         \A k \in Nat : \A y \in Q[k] : AboveStep(t, y) = y \/ (k > 0 /\ AboveStep(t, y) \in Q[k - 1])
  PROVE  \E y : /\ Above(t, n) = y /\ AboveStep(t, y) = y
               /\ \E k \in 0..N : y \in Q[k]
<1> HIDE DEF N, AboveStep
<1> DEFINE S == UNION {Q[k] : k \in Nat}
           F == [y \in S |-> AboveStep(t, y)]
           W(g) == g = [i \in 0..N |-> IF i = 0 THEN {n} ELSE AboveStep(t, g[i - 1])]
<1>1. \A y \in S : F[y] \in S /\ F[y] = AboveStep(t, y)
  <2> SUFFICES ASSUME NEW y \in S PROVE AboveStep(t, y) \in S
    OBVIOUS
  <2>1. PICK k \in Nat : y \in Q[k]
    OBVIOUS
  <2>2. AboveStep(t, y) = y \/ (k > 0 /\ AboveStep(t, y) \in Q[k - 1])
    BY <2>1
  <2>3. k > 0 => k - 1 \in Nat
    OBVIOUS
  <2>4. \A j \in Nat : Q[j] \subseteq S
    OBVIOUS
  <2> HIDE DEF S
  <2> QED BY <2>2, <2>3, <2>4
<1>2. F \in [S -> S] /\ {n} \in S
  BY <1>1
<1>3. PICK a : Run(F, {n}, N, a) /\ \A i \in 0..N : a[i] \in S
  <2> HIDE DEF F, S
  <2> QED BY <1>2, RunExists
<1>4. W(a)
  <2>1. a = [i \in 0..N |-> IF i = 0 THEN {n} ELSE F[a[i - 1]]]
    BY <1>3 DEF Run
  <2>2. \A i \in 0..N : i # 0 => i - 1 \in 0..N
    OBVIOUS
  <2>3. \A i \in 0..N : i # 0 => F[a[i - 1]] = AboveStep(t, a[i - 1])
    <3> HIDE DEF F, S
    <3> QED BY <1>1, <1>3, <2>2
  <2> HIDE DEF F, S
  <2>4. [i \in 0..N |-> IF i = 0 THEN {n} ELSE F[a[i - 1]]]
        = [i \in 0..N |-> IF i = 0 THEN {n} ELSE AboveStep(t, a[i - 1])]
    BY <2>3
  <2> QED BY <2>1, <2>4
<1> DEFINE g == CHOOSE b : W(b)
<1>5. W(g)
  BY <1>4
<1>6. Above(t, n) = g[N]
  BY DEF N, Above, AboveStep
<1> HIDE DEF g
<1> DEFINE G == [y \in S \cup {g[i] : i \in 0..N} |-> AboveStep(t, y)]
<1>7. \A i \in 0..N : G[g[i]] = AboveStep(t, g[i])
  OBVIOUS
<1>8. Run(G, {n}, N, g)
  <2>1. \A i \in 0..N : i # 0 => i - 1 \in 0..N
    OBVIOUS
  <2>2. \A i \in 0..N : i # 0 => G[g[i - 1]] = AboveStep(t, g[i - 1])
    <3> HIDE DEF G
    <3> QED BY <1>7, <2>1
  <2> HIDE DEF G
  <2>3. [i \in 0..N |-> IF i = 0 THEN {n} ELSE AboveStep(t, g[i - 1])]
        = [i \in 0..N |-> IF i = 0 THEN {n} ELSE G[g[i - 1]]]
    BY <2>2
  <2> QED BY <1>5, <2>3 DEF Run
<1>9. Sinks(G, Q)
  <2> SUFFICES ASSUME NEW k \in Nat, NEW y \in Q[k] PROVE G[y] = y \/ (k > 0 /\ G[y] \in Q[k - 1])
    BY DEF Sinks
  <2>1. G[y] = AboveStep(t, y)
    OBVIOUS
  <2> QED BY <2>1
<1>10. G[g[N]] = g[N] /\ \E k \in 0..N : g[N] \in Q[k]
  <2> HIDE DEF G, W
  <2> QED BY <1>8, <1>9, RunEnds
<1>11. G[g[N]] = AboveStep(t, g[N])
  <2> HIDE DEF G
  <2> QED BY <1>7
<1> QED BY <1>6, <1>10, <1>11
-----------------------------------------------------------------------------
(* The order of the tree. *)

\* m is before n on the way from side s to the other side.
Before(s, m, n) == IF s = "rb_left" THEN tcbcmp(m, n) < 0 ELSE tcbcmp(n, m) < 0

\* The fields that tcbcmp compares are numbers.
LEMMA KeyTypes ==
  ASSUME NEW n \in Node
  PROVE  Key(n).rport \in Int /\ Key(n).lport \in Int /\ Key(n).raddr \in Int
<1>1. CASE n = Listener
  BY <1>1 DEF Key
<1>2. CASE n # Listener
  <2>1. n \in DOMAIN Segments
    BY <1>2, TcbTableAssumption
  <2>2. Segments[n] \in [laddr : Nat, lport : Nat, raddr : Nat, rport : Nat]
    <3> DEFINE R == [laddr : Nat, lport : Nat, raddr : Nat, rport : Nat]
    <3>1. Segments \in Seq(R)
      BY TcbTableAssumption
    <3> HIDE DEF R
    <3>2. n \in 1..Len(Segments)
      BY <2>1, <3>1
    <3>3. Segments[n] \in R
      BY <3>1, <3>2
    <3> QED BY <3>3 DEF R
  <2> QED BY <1>2, <2>2 DEF Key
<1> QED BY <1>1, <1>2

\* tcbcmp is a comparison: antisymmetric and transitive.
LEMMA CompareFacts ==
  ASSUME NEW m \in Node, NEW n \in Node
  PROVE  /\ tcbcmp(m, n) \in Int /\ tcbcmp(n, m) = 0 - tcbcmp(m, n)
         /\ \A k \in Node : tcbcmp(m, n) < 0 /\ tcbcmp(n, k) < 0 => tcbcmp(m, k) < 0
<1>1. /\ Key(m).rport \in Int /\ Key(m).lport \in Int /\ Key(m).raddr \in Int
      /\ Key(n).rport \in Int /\ Key(n).lport \in Int /\ Key(n).raddr \in Int
  BY KeyTypes
<1>2. tcbcmp(m, n) \in Int /\ tcbcmp(n, m) = 0 - tcbcmp(m, n)
  BY <1>1 DEF tcbcmp
<1>3. ASSUME NEW k \in Node, tcbcmp(m, n) < 0, tcbcmp(n, k) < 0 PROVE tcbcmp(m, k) < 0
  <2>1. Key(k).rport \in Int /\ Key(k).lport \in Int /\ Key(k).raddr \in Int
    BY KeyTypes
  <2> QED BY <1>1, <1>3, <2>1 DEF tcbcmp
<1> QED BY <1>2, <1>3

\* Before is a strict order, seen from either side.
LEMMA BeforeFacts ==
  ASSUME NEW s \in Side
  PROVE  /\ Other(s) \in Side /\ Other(Other(s)) = s /\ Other(s) # s
         /\ \A r \in Side : r = s \/ r = Other(s)
         /\ \A m, n \in Node : Before(s, m, n) <=> Before(Other(s), n, m)
         /\ \A m, n \in Node : ~(Before(s, m, n) /\ Before(s, n, m))
         /\ \A m \in Node : ~Before(s, m, m)
         /\ \A k, m, n \in Node : Before(s, k, m) /\ Before(s, m, n) => Before(s, k, n)
<1>1. /\ Other(s) \in Side /\ Other(Other(s)) = s /\ Other(s) # s
      /\ \A r \in Side : r = s \/ r = Other(s)
  BY DEF Other, Side
<1>2. \A m, n \in Node : Before(s, m, n) <=> Before(Other(s), n, m)
  BY DEF Before, Other, Side
<1>3. \A m, n \in Node : ~(Before(s, m, n) /\ Before(s, n, m))
  <2> SUFFICES ASSUME NEW m \in Node, NEW n \in Node PROVE ~(tcbcmp(m, n) < 0 /\ tcbcmp(n, m) < 0)
    BY DEF Before
  <2>1. tcbcmp(m, n) \in Int /\ tcbcmp(n, m) = 0 - tcbcmp(m, n)
    BY CompareFacts
  <2> QED BY <2>1
<1>4. \A k, m, n \in Node : Before(s, k, m) /\ Before(s, m, n) => Before(s, k, n)
  BY CompareFacts DEF Before
<1> QED BY <1>1, <1>2, <1>3, <1>4
-----------------------------------------------------------------------------
(* Trees. *)

\* The nodes at and below x, and the black nodes on the way down from x, by D and h.
Sub(D, x) == IF x = NULL THEN {} ELSE D[x]
Ht(h, x) == IF x = NULL THEN 0 ELSE h[x]
Bit(t, n) == IF n \in t.black THEN 1 ELSE 0

KidsOK(t, S, n) ==
    \A s \in Side : t.kid[s][n] # NULL => t.kid[s][n] \in S /\ t.parent[t.kid[s][n]] = n
ParentOK(t, S, n) ==
    n # t.root => t.parent[n] \in S /\ \E s \in Side : t.kid[s][t.parent[n]] = n
SubOK(t, D, n) ==
    \A s \in Side : D[n] = {n} \cup Sub(D, t.kid[s][n]) \cup Sub(D, t.kid[Other(s)][n])
SortedAt(t, D, n) == \A s \in Side : \A m \in Sub(D, t.kid[s][n]) : Before(s, m, n)

RootOK(t, S, D) ==
    \/ t.root = NULL /\ S = {}
    \/ t.root \in S /\ t.parent[t.root] = NULL /\ D[t.root] = S

\* t is a search tree of S, in which D gives the nodes at and below each node.
Shape(t, S, D) ==
    /\ t \in Tree /\ S \subseteq Node /\ D \in [Node -> SUBSET Node]
    /\ RootOK(t, S, D)
    /\ \A n \in S : /\ D[n] \subseteq S /\ KidsOK(t, S, n) /\ ParentOK(t, S, n)
                    /\ SubOK(t, D, n) /\ SortedAt(t, D, n)

\* No node lacks black nodes on one side.
HtOK(t, h, n) == \A s \in Side : h[n] = Ht(h, t.kid[s][n]) + Bit(t, n)

\* A red node is below a black one.
RedOK(t, n) == IsRed(t, n) => n # t.root /\ ~IsRed(t, t.parent[n])

\* There are finitely many nodes.
LEMMA NodeFacts ==
  /\ IsFiniteSet(Node) /\ N \in Nat /\ NULL \notin Node /\ Listener \in Node
  /\ \A S \in SUBSET Node : IsFiniteSet(S) /\ Cardinality(S) \in Nat /\ Cardinality(S) <= N
<1>1. Node = {Listener} \cup DOMAIN Segments /\ NULL \notin Node
  BY TcbTableAssumption
<1>2. DOMAIN Segments = 1..Len(Segments) /\ Len(Segments) \in Nat
  <2> DEFINE R == [laddr : Nat, lport : Nat, raddr : Nat, rport : Nat]
  <2>1. Segments \in Seq(R)
    BY TcbTableAssumption
  <2> HIDE DEF R
  <2> QED BY <2>1
<1>3. IsFiniteSet(DOMAIN Segments)
  BY <1>2, FS_Interval
<1>4. IsFiniteSet(Node)
  BY <1>1, <1>3, FS_AddElement
<1>5. \A S \in SUBSET Node : IsFiniteSet(S) /\ Cardinality(S) \in Nat /\ Cardinality(S) <= N
  <2> SUFFICES ASSUME NEW S \in SUBSET Node
               PROVE  IsFiniteSet(S) /\ Cardinality(S) \in Nat /\ Cardinality(S) <= N
    OBVIOUS
  <2>1. IsFiniteSet(S) /\ Cardinality(S) <= Cardinality(Node)
    BY <1>4, FS_Subset
  <2>2. Cardinality(S) \in Nat
    BY <2>1, FS_CardinalityType
  <2> QED BY <2>1, <2>2 DEF N
<1>6. N \in Nat
  BY <1>4, FS_CardinalityType DEF N
<1> QED BY <1>1, <1>4, <1>5, <1>6

\* A set that has another one and more is larger.
LEMMA Larger ==
  ASSUME NEW A \in SUBSET Node, NEW B \in SUBSET Node, A \subseteq B, A # B
  PROVE  /\ Cardinality(A) \in Nat /\ Cardinality(B) \in Nat /\ Cardinality(A) < Cardinality(B)
         /\ Cardinality(B) <= N
<1>1. IsFiniteSet(B) /\ Cardinality(A) \in Nat /\ Cardinality(B) \in Nat /\ Cardinality(B) <= N
  BY NodeFacts
<1>2. Cardinality(A) <= Cardinality(B) /\ (Cardinality(A) = Cardinality(B) => A = B)
  BY <1>1, FS_Subset
<1> QED BY <1>1, <1>2

\* The fields of a tree.
LEMMA TreeTypes ==
  ASSUME NEW t \in Tree
  PROVE  /\ t.root \in Node \cup {NULL}
         /\ \A s \in Side, n \in Node : t.kid[s][n] \in Node \cup {NULL}
         /\ \A n \in Node : t.parent[n] \in Node \cup {NULL}
         /\ t.black \subseteq Node
  BY DEF Tree

\* A node and its children.
LEMMA NodeSays ==
  ASSUME NEW t, NEW S, NEW D, Shape(t, S, D), NEW n \in S
  PROVE  /\ n \in Node /\ n # NULL /\ n \in D[n] /\ D[n] \subseteq S /\ D[n] \subseteq Node
         /\ t.parent[n] \in S \cup {NULL} /\ (t.parent[n] = NULL <=> n = t.root)
         /\ \A s \in Side :
              /\ t.kid[s][n] \in S \cup {NULL} /\ Sub(D, t.kid[s][n]) \subseteq D[n]
              /\ D[n] = {n} \cup Sub(D, t.kid[s][n]) \cup Sub(D, t.kid[Other(s)][n])
              /\ Sub(D, t.kid[s][n]) \cap Sub(D, t.kid[Other(s)][n]) = {}
              /\ n \notin Sub(D, t.kid[s][n]) /\ t.kid[s][n] # n /\ t.kid[s][n] \notin {t.root} \ {NULL}
              /\ \A m \in Sub(D, t.kid[s][n]) : Before(s, m, n)
              /\ t.kid[s][n] # NULL => t.parent[t.kid[s][n]] = n /\ t.kid[s][n] # t.kid[Other(s)][n]
<1>1. /\ t \in Tree /\ S \subseteq Node /\ D \in [Node -> SUBSET Node] /\ RootOK(t, S, D)
      /\ D[n] \subseteq S /\ KidsOK(t, S, n) /\ ParentOK(t, S, n) /\ SubOK(t, D, n) /\ SortedAt(t, D, n)
  BY DEF Shape
<1>2. n \in Node /\ n # NULL /\ D[n] \subseteq Node
  BY <1>1, NodeFacts
<1>3. n \in D[n]
  <2>1. "rb_left" \in Side
    BY DEF Side
  <2> QED BY <1>1, <2>1 DEF SubOK
<1>4. t.parent[n] \in S \cup {NULL} /\ (t.parent[n] = NULL <=> n = t.root)
  BY <1>1, <1>2, NodeFacts DEF ParentOK, RootOK
<1>5. ASSUME NEW s \in Side
      PROVE  /\ t.kid[s][n] \in S \cup {NULL} /\ Sub(D, t.kid[s][n]) \subseteq D[n]
             /\ D[n] = {n} \cup Sub(D, t.kid[s][n]) \cup Sub(D, t.kid[Other(s)][n])
             /\ Sub(D, t.kid[s][n]) \cap Sub(D, t.kid[Other(s)][n]) = {}
             /\ n \notin Sub(D, t.kid[s][n]) /\ t.kid[s][n] # n /\ t.kid[s][n] \notin {t.root} \ {NULL}
             /\ \A m \in Sub(D, t.kid[s][n]) : Before(s, m, n)
             /\ t.kid[s][n] # NULL => t.parent[t.kid[s][n]] = n /\ t.kid[s][n] # t.kid[Other(s)][n]
  <2>1. t.kid[s][n] \in S \cup {NULL} /\ (t.kid[s][n] # NULL => t.parent[t.kid[s][n]] = n)
    BY <1>1 DEF KidsOK
  <2>2. /\ D[n] = {n} \cup Sub(D, t.kid[s][n]) \cup Sub(D, t.kid[Other(s)][n])
        /\ Sub(D, t.kid[s][n]) \subseteq D[n]
    BY <1>1 DEF SubOK
  <2>3. /\ \A m \in Sub(D, t.kid[s][n]) : Before(s, m, n)
        /\ \A m \in Sub(D, t.kid[Other(s)][n]) : Before(Other(s), m, n)
    BY <1>1, BeforeFacts DEF SortedAt
  <2>4. n \notin Sub(D, t.kid[s][n])
    BY <1>2, <2>3, BeforeFacts
  <2>5. Sub(D, t.kid[s][n]) \cap Sub(D, t.kid[Other(s)][n]) = {}
    <3> SUFFICES ASSUME NEW m \in Sub(D, t.kid[s][n]), m \in Sub(D, t.kid[Other(s)][n]) PROVE FALSE
      OBVIOUS
    <3>1. Before(s, m, n) /\ Before(Other(s), m, n) /\ m \in Node
      BY <1>2, <2>2, <2>3
    <3>2. Before(s, n, m)
      BY <1>2, <3>1, BeforeFacts
    <3> QED BY <1>2, <3>1, <3>2, BeforeFacts
  <2>6. ASSUME t.kid[s][n] # NULL
        PROVE  /\ t.kid[s][n] # n /\ t.kid[s][n] # t.kid[Other(s)][n] /\ t.kid[s][n] # t.root
    <3> DEFINE c == t.kid[s][n]
    <3>1. c \in S /\ t.parent[c] = n
      BY <2>1, <2>6
    <3>2. c \in D[c]
      <4>1. SubOK(t, D, c)
        BY <3>1 DEF Shape
      <4> QED BY <4>1 DEF SubOK
    <3>3. Sub(D, c) = D[c]
      BY <2>6 DEF Sub
    <3>4. c # n
      BY <2>4, <3>2, <3>3
    <3>5. c # t.kid[Other(s)][n]
      BY <2>5, <3>2, <3>3
    <3>6. c # t.root
      BY <1>1, <1>2, <3>1 DEF RootOK
    <3> QED BY <3>4, <3>5, <3>6
  <2>7. t.kid[s][n] # n /\ t.kid[s][n] \notin {t.root} \ {NULL}
    BY <1>2, <2>6
  <2> QED BY <2>1, <2>2, <2>3, <2>4, <2>5, <2>6, <2>7
<1> QED BY <1>1, <1>2, <1>3, <1>4, <1>5

\* The child on one side.
LEMMA KidSays ==
  ASSUME NEW t, NEW S, NEW D, Shape(t, S, D), NEW n \in S, NEW s \in Side,
         NEW c, c = t.kid[s][n]
  PROVE  /\ c \in S \cup {NULL} /\ c \in Node \cup {NULL} /\ c # n
         /\ Sub(D, c) \subseteq D[n] /\ n \notin Sub(D, c)
         /\ Sub(D, c) \cap Sub(D, t.kid[Other(s)][n]) = {}
         /\ D[n] = {n} \cup Sub(D, c) \cup Sub(D, t.kid[Other(s)][n])
         /\ \A m \in Sub(D, c) : m \in Node /\ Before(s, m, n)
         /\ c # NULL => /\ c \in S /\ c \in Node /\ t.parent[c] = n /\ c # t.root
                        /\ c # t.kid[Other(s)][n] /\ c \in D[c] /\ Sub(D, c) = D[c]
                        /\ c \in D[n] /\ n \notin D[c]
<1>1. /\ c \in S \cup {NULL} /\ c # n
      /\ Sub(D, c) \subseteq D[n] /\ n \notin Sub(D, c)
      /\ Sub(D, c) \cap Sub(D, t.kid[Other(s)][n]) = {}
      /\ D[n] = {n} \cup Sub(D, c) \cup Sub(D, t.kid[Other(s)][n])
      /\ \A m \in Sub(D, c) : Before(s, m, n)
      /\ c # NULL => t.parent[c] = n /\ c # t.root /\ c # t.kid[Other(s)][n]
  <2>1. /\ t.kid[s][n] \in S \cup {NULL} /\ t.kid[s][n] # n
        /\ Sub(D, t.kid[s][n]) \subseteq D[n] /\ n \notin Sub(D, t.kid[s][n])
        /\ Sub(D, t.kid[s][n]) \cap Sub(D, t.kid[Other(s)][n]) = {}
    BY NodeSays
  <2>2. D[n] = {n} \cup Sub(D, t.kid[s][n]) \cup Sub(D, t.kid[Other(s)][n])
    BY NodeSays
  <2>3. \A m \in Sub(D, t.kid[s][n]) : Before(s, m, n)
    BY NodeSays
  <2>4. t.kid[s][n] # NULL => /\ t.parent[t.kid[s][n]] = n /\ t.kid[s][n] # t.root
                             /\ t.kid[s][n] # t.kid[Other(s)][n]
    BY NodeSays
  <2> QED BY <2>1, <2>2, <2>3, <2>4
<1>2. S \subseteq Node /\ D[n] \subseteq Node
  BY NodeSays DEF Shape
<1>3. c # NULL => c \in D[c] /\ Sub(D, c) = D[c]
  BY <1>1, NodeSays DEF Sub
<1> QED BY <1>1, <1>2, <1>3

\* A child's only place is below its parent, on one side.
LEMMA OnePlace ==
  ASSUME NEW t, NEW S, NEW D, Shape(t, S, D), NEW n \in S
  PROVE  /\ \A m \in S, s \in Side : t.kid[s][m] = n =>
              /\ m = t.parent[n] /\ n # t.root /\ SideIn(t, m, n) = s
              /\ \A r \in Side : t.kid[r][m] = n => r = s
         /\ n # t.root => /\ SideIn(t, t.parent[n], n) \in Side
                          /\ t.kid[SideIn(t, t.parent[n], n)][t.parent[n]] = n
<1>1. ASSUME NEW m \in S, NEW s \in Side, t.kid[s][m] = n
      PROVE  /\ m = t.parent[n] /\ n # t.root /\ SideIn(t, m, n) = s
             /\ \A r \in Side : t.kid[r][m] = n => r = s
  <2>1. n # NULL /\ m = t.parent[n] /\ n # t.root /\ t.kid[s][m] # t.kid[Other(s)][m]
    BY <1>1, NodeSays
  <2>2. \A r \in Side : t.kid[r][m] = n => r = s
    BY <1>1, <2>1, BeforeFacts
  <2>3. SideIn(t, m, n) = s
    <3>1. s = "rb_left" \/ s = "rb_right"
      BY DEF Side
    <3>2. "rb_left" \in Side
      BY DEF Side
    <3> QED BY <1>1, <2>2, <3>1, <3>2 DEF SideIn
  <2> QED BY <2>1, <2>2, <2>3
<1>2. ASSUME n # t.root
      PROVE  /\ SideIn(t, t.parent[n], n) \in Side
             /\ t.kid[SideIn(t, t.parent[n], n)][t.parent[n]] = n
  <2>1. t.parent[n] \in S /\ \E s \in Side : t.kid[s][t.parent[n]] = n
    BY <1>2 DEF Shape, ParentOK
  <2> QED BY <1>1, <2>1
<1> QED BY <1>1, <1>2

\* What is below a node is below the nodes above it.
LEMMA DownSays ==
  ASSUME NEW t, NEW S, NEW D, Shape(t, S, D), NEW n \in S, NEW m \in D[n]
  PROVE  /\ m \in S /\ D[m] \subseteq D[n]
         /\ m # n => t.parent[m] \in D[n] /\ n \notin D[m] /\ m # t.root
<1> DEFINE Good(a) == \A b \in D[a] :
                        /\ b \in S /\ D[b] \subseteq D[a]
                        /\ b # a => t.parent[b] \in D[a] /\ a \notin D[b] /\ b # t.root
           T == {Cardinality(D[a]) : a \in {b \in S : ~Good(b)}}
<1>1. SUFFICES T = {}
  <2>1. Good(n)
    BY <1>1
  <2> QED BY <2>1
<1>2. SUFFICES ASSUME T # {} PROVE FALSE
  OBVIOUS
<1>3. PICK a \in S : ~Good(a) /\ \A b \in S : ~Good(b) => Cardinality(D[a]) <= Cardinality(D[b])
  <2>1. T \subseteq Nat
    BY NodeSays, NodeFacts
  <2>2. PICK k \in T : \A l \in T : k <= l
    <3> HIDE DEF T
    <3> QED BY <1>2, <2>1, LeastNat
  <2> HIDE DEF Good
  <2> QED BY <2>2
<1>4. ASSUME NEW s \in Side, t.kid[s][a] # NULL PROVE Good(t.kid[s][a])
  <2> DEFINE c == t.kid[s][a]
  <2>1. c \in S /\ Sub(D, c) \subseteq D[a] /\ a \notin Sub(D, c) /\ a \in D[a] /\ D[a] \subseteq Node
    BY <1>4, NodeSays
  <2>2. D[c] \subseteq D[a] /\ D[c] # D[a]
    BY <1>4, <2>1 DEF Sub
  <2>3. /\ Cardinality(D[c]) < Cardinality(D[a])
        /\ Cardinality(D[c]) \in Nat /\ Cardinality(D[a]) \in Nat
    BY <2>1, <2>2, Larger
  <2>4. ~(Cardinality(D[a]) <= Cardinality(D[c]))
    BY <2>3
  <2> HIDE DEF Good, c
  <2>5. Good(c)
    BY <1>3, <2>1, <2>4
  <2> QED BY <2>5 DEF c
<1>5. SUFFICES ASSUME NEW b \in D[a]
               PROVE  /\ b \in S /\ D[b] \subseteq D[a]
                      /\ b # a => t.parent[b] \in D[a] /\ a \notin D[b] /\ b # t.root
  BY <1>3
<1>6. CASE b = a
  BY <1>6, NodeSays
<1>7. CASE b # a
  <2>1. PICK s \in Side : b \in Sub(D, t.kid[s][a])
    <3>1. "rb_left" \in Side /\ Other("rb_left") \in Side
      BY BeforeFacts DEF Side
    <3> QED BY <1>5, <1>7, <3>1, NodeSays
  <2> DEFINE c == t.kid[s][a]
  <2>2. c # NULL /\ Sub(D, c) = D[c]
    BY <2>1 DEF Sub
  <2>3. /\ c \in S /\ D[c] \subseteq D[a] /\ a \notin D[c] /\ a \in D[a]
        /\ t.parent[c] = a /\ c # t.root
    BY <2>2, NodeSays
  <2>4. Good(c) /\ b \in D[c]
    BY <1>4, <2>1, <2>2
  <2>5. b \in S /\ D[b] \subseteq D[c] /\ (b # c => t.parent[b] \in D[c] /\ b # t.root)
    BY <2>4
  <2> QED BY <2>3, <2>5
<1> QED BY <1>6, <1>7
-----------------------------------------------------------------------------
(* The assignments to pointers. *)

\* SideIn is a side.
LEMMA SideInSide == \A t, p, n : SideIn(t, p, n) \in Side
  BY DEF SideIn, Side

\* The pointer down to n in p, or the root.
LEMMA RelinkSays ==
  ASSUME NEW t \in Tree, NEW p \in Node \cup {NULL}, NEW n, NEW m \in Node \cup {NULL}
  PROVE  LET v == Relink(t, p, n, m)
         IN  /\ v \in Tree /\ v.parent = t.parent /\ v.black = t.black
             /\ v.root = IF p = NULL THEN m ELSE t.root
             /\ \A r \in Side, x \in Node :
                  v.kid[r][x] = IF p # NULL /\ x = p /\ r = SideIn(t, p, n) THEN m ELSE t.kid[r][x]
<1>1. CASE p = NULL
  BY <1>1 DEF Relink, Tree
<1>2. CASE p # NULL
  <2> DEFINE s == SideIn(t, p, n)
             v == [t EXCEPT !.kid[s][p] = m]
  <2>1. s \in Side /\ p \in Node
    BY <1>2, SideInSide
  <2> HIDE DEF s
  <2>2. v \in Tree /\ v.parent = t.parent /\ v.black = t.black /\ v.root = t.root
    BY <2>1 DEF Tree
  <2>3. \A r \in Side, x \in Node : v.kid[r][x] = IF x = p /\ r = s THEN m ELSE t.kid[r][x]
    BY <2>1 DEF Tree
  <2>4. Relink(t, p, n, m) = v
    BY <1>2 DEF Relink, s
  <2> HIDE DEF v
  <2> QED BY <1>2, <2>2, <2>3, <2>4 DEF s
<1> QED BY <1>1, <1>2

\* The pointer up.
LEMMA SetParentSays ==
  ASSUME NEW t \in Tree, NEW n \in Node \cup {NULL}, NEW p \in Node \cup {NULL}
  PROVE  LET v == rb_set_parent(t, n, p)
         IN  /\ v \in Tree /\ v.kid = t.kid /\ v.black = t.black /\ v.root = t.root
             /\ \A x \in Node : v.parent[x] = IF n # NULL /\ x = n THEN p ELSE t.parent[x]
  BY DEF rb_set_parent, Tree

\* Colors.
LEMMA RecoloredSays ==
  ASSUME NEW t \in Tree, NEW A, NEW B
  PROVE  LET v == Recolored(t, A, B)
         IN  /\ v.kid = t.kid /\ v.parent = t.parent /\ v.root = t.root
             /\ v.black = (t.black \cup A) \ B
             /\ A \subseteq Node => v \in Tree
  BY DEF Recolored, Tree

\* t2 is t after up, n's child on the other side of s, has taken the place of n.
Turned(t, t2, S, s, n, up) ==
    /\ t2 \in Tree /\ t2.black = t.black
    /\ t2.root = IF n = t.root THEN up ELSE t.root
    /\ t2.kid[s][n] = t.kid[s][n] /\ t2.kid[Other(s)][n] = t.kid[s][up]
    /\ t2.kid[s][up] = n /\ t2.kid[Other(s)][up] = t.kid[Other(s)][up]
    /\ \A m \in S \ {n, up}, r \in Side :
         t2.kid[r][m] = IF t.kid[r][m] = n THEN up ELSE t.kid[r][m]
    /\ \A m \in Node \ S, r \in Side : t2.kid[r][m] = t.kid[r][m]
    /\ t2.parent[up] = t.parent[n] /\ t2.parent[n] = up
    /\ t.kid[s][up] # NULL => t2.parent[t.kid[s][up]] = n
    /\ \A m \in Node \ {n, up, t.kid[s][up]} : t2.parent[m] = t.parent[m]

\* A rotation.
LEMMA RotateSays ==
  ASSUME NEW t, NEW S, NEW D, Shape(t, S, D), NEW s \in Side, NEW n \in S,
         t.kid[Other(s)][n] # NULL
  PROVE  Turned(t, rb_rotate(t, s, n), S, s, n, t.kid[Other(s)][n])
<1> DEFINE up == t.kid[Other(s)][n]
           mid == t.kid[s][up]
           p == t.parent[n]
           v1 == Relink(t, p, n, up)
           v2 == rb_set_parent(v1, mid, n)
           o == Other(s)
           t2 == rb_rotate(t, s, n)
<1>1. t \in Tree /\ S \subseteq Node
  BY DEF Shape
<1>2. o \in Side /\ o # s
  BY BeforeFacts
<1>3. /\ up \in S /\ up # n /\ t.parent[up] = n /\ up # NULL
      /\ n \in Node /\ n # NULL /\ up \in Node /\ p \in S \cup {NULL} /\ (p = NULL <=> n = t.root)
  BY <1>1, <1>2, NodeSays
<1>4. mid \in S \cup {NULL} /\ mid # up /\ (mid # NULL => t.parent[mid] = up)
  BY <1>3, NodeSays
<1>5. mid # n /\ p # n /\ p # up
  <2>1. mid # n
    <3>1. up \in D[n]
      BY <1>2, <1>3, NodeSays DEF Sub
    <3>2. n \notin D[up]
      BY <1>3, <3>1, DownSays
    <3>3. mid # NULL => mid \in D[up]
      BY <1>3, <1>4, NodeSays DEF Sub
    <3> QED BY <1>3, <3>2, <3>3
  <2>2. p # NULL => n \in D[p] /\ p # n /\ p \notin D[n]
    <3>1. SUFFICES ASSUME p # NULL PROVE n \in D[p] /\ p # n /\ p \notin D[n]
      OBVIOUS
    <3>2. PICK r \in Side : t.kid[r][p] = n
      BY <1>3, <3>1, OnePlace, SideInSide
    <3>3. Sub(D, n) \subseteq D[p] /\ p \notin Sub(D, n) /\ p # n
      BY <1>3, <3>1, <3>2, NodeSays
    <3>4. n \in D[n] /\ Sub(D, n) = D[n]
      BY <1>3, NodeSays DEF Sub
    <3> QED BY <3>3, <3>4
  <2>3. up \in D[n]
    BY <1>2, <1>3, NodeSays DEF Sub
  <2> QED BY <1>3, <2>1, <2>2, <2>3
<1>6. /\ v1 \in Tree /\ v1.parent = t.parent /\ v1.black = t.black
      /\ v1.root = IF p = NULL THEN up ELSE t.root
      /\ \A r \in Side, x \in Node :
           v1.kid[r][x] = IF p # NULL /\ x = p /\ r = SideIn(t, p, n) THEN up ELSE t.kid[r][x]
  <2> HIDE DEF up, mid, p
  <2> QED BY <1>1, <1>3, RelinkSays
<1>7. /\ v2 \in Tree /\ v2.kid = v1.kid /\ v2.black = t.black /\ v2.root = v1.root
      /\ \A x \in Node : v2.parent[x] = IF mid # NULL /\ x = mid THEN n ELSE t.parent[x]
  <2>1. mid \in Node \cup {NULL} /\ n \in Node \cup {NULL}
    BY <1>1, <1>3, <1>4
  <2> HIDE DEF up, mid, p, v1
  <2>2. /\ v2 \in Tree /\ v2.kid = v1.kid /\ v2.black = v1.black /\ v2.root = v1.root
        /\ \A x \in Node : v2.parent[x] = IF mid # NULL /\ x = mid THEN n ELSE v1.parent[x]
    BY <1>6, <2>1, SetParentSays
  <2> QED BY <1>6, <2>2
<1>8. t2 = [v2 EXCEPT !.kid[o][n] = mid, !.kid[s][up] = n, !.parent[up] = p, !.parent[n] = up]
  BY DEF rb_rotate, Raise
<1> HIDE DEF up, mid, p, v1, v2, o, t2
<1>9. /\ t2 \in Tree /\ t2.black = v2.black /\ t2.root = v2.root
      /\ \A r \in Side, x \in Node :
           t2.kid[r][x] = IF r = o /\ x = n THEN mid ELSE IF r = s /\ x = up THEN n ELSE v2.kid[r][x]
      /\ \A x \in Node : t2.parent[x] = IF x = n THEN up ELSE IF x = up THEN p ELSE v2.parent[x]
  <2>1. mid \in Node \cup {NULL} /\ p \in Node \cup {NULL}
    BY <1>1, <1>3, <1>4
  <2> QED BY <1>2, <1>3, <1>7, <1>8, <2>1 DEF Tree
<1>10. ASSUME NEW m \in S \ {n, up}, NEW r \in Side
       PROVE  t2.kid[r][m] = IF t.kid[r][m] = n THEN up ELSE t.kid[r][m]
  <2>1. t2.kid[r][m] = IF p # NULL /\ m = p /\ r = SideIn(t, p, n) THEN up ELSE t.kid[r][m]
    BY <1>1, <1>6, <1>7, <1>9
  <2>2. t.kid[r][m] = n <=> p # NULL /\ m = p /\ r = SideIn(t, p, n)
    BY <1>3, OnePlace DEF p
  <2> QED BY <2>1, <2>2
<1>11. \A m \in Node \ S, r \in Side : t2.kid[r][m] = t.kid[r][m]
  BY <1>3, <1>6, <1>7, <1>9
<1>12. t2.root = IF n = t.root THEN up ELSE t.root
  BY <1>3, <1>6, <1>7, <1>9
<1>13. \A m \in Node \ {n, up, mid} : t2.parent[m] = t.parent[m]
  BY <1>7, <1>9
<1>14. /\ t2.kid[s][n] = t.kid[s][n] /\ t2.kid[o][n] = mid
       /\ t2.kid[s][up] = n /\ t2.kid[o][up] = t.kid[o][up]
  BY <1>2, <1>3, <1>5, <1>6, <1>7, <1>9
<1>15. t2.parent[up] = p /\ t2.parent[n] = up /\ (mid # NULL => t2.parent[mid] = n)
  BY <1>1, <1>3, <1>4, <1>5, <1>7, <1>9
<1> QED BY <1>7, <1>9, <1>10, <1>11, <1>12, <1>13, <1>14, <1>15 DEF Turned, up, mid, p, o, t2
-----------------------------------------------------------------------------
(* Rotations. *)

\* The nodes at and below each node after up has taken the place of n.
TurnedSub(t, D, s, n, up) ==
    [D EXCEPT ![up] = D[n], ![n] = {n} \cup Sub(D, t.kid[s][n]) \cup Sub(D, t.kid[s][up])]

\* A rotation keeps the order of the nodes.
LEMMA TurnedShape ==
  ASSUME NEW t, NEW S, NEW D, Shape(t, S, D), NEW s \in Side, NEW n \in S,
         NEW up, up = t.kid[Other(s)][n], up # NULL, NEW t2, Turned(t, t2, S, s, n, up)
  PROVE  Shape(t2, S, TurnedSub(t, D, s, n, up))
<1> DEFINE mid == t.kid[s][up]
           o == Other(s)
           a == t.kid[s][n]
           b == t.kid[o][up]
           D2 == TurnedSub(t, D, s, n, up)
<1>1. t \in Tree /\ S \subseteq Node /\ D \in [Node -> SUBSET Node] /\ RootOK(t, S, D)
  BY DEF Shape
<1>2. o \in Side /\ o # s /\ Other(o) = s /\ \A r \in Side : r = s \/ r = o
  BY BeforeFacts
<1>3. /\ up \in S /\ up # n /\ t.parent[up] = n /\ n \in Node /\ up \in Node /\ n # NULL
      /\ D[n] = {n} \cup Sub(D, a) \cup Sub(D, up) /\ D[n] \subseteq S
      /\ n \notin Sub(D, a) /\ n \notin Sub(D, up) /\ Sub(D, a) \cap Sub(D, up) = {}
      /\ \A m \in Sub(D, a) : m \in Node /\ Before(s, m, n)
      /\ \A m \in Sub(D, up) : m \in Node /\ Before(o, m, n)
      /\ a \in S \cup {NULL} /\ (a # NULL => t.parent[a] = n) /\ a # n /\ a # up
      /\ up \in D[up] /\ Sub(D, up) = D[up]
  <2>1. /\ up \in S \cup {NULL} /\ up # n /\ n \notin Sub(D, up)
        /\ \A m \in Sub(D, up) : m \in Node /\ Before(o, m, n)
        /\ up # NULL => t.parent[up] = n /\ up \in Node /\ up \in D[up] /\ Sub(D, up) = D[up]
    BY <1>2, KidSays
  <2>2. /\ a \in S \cup {NULL} /\ a # n /\ n \notin Sub(D, a) /\ Sub(D, a) \cap Sub(D, up) = {}
        /\ D[n] = {n} \cup Sub(D, a) \cup Sub(D, up)
        /\ \A m \in Sub(D, a) : m \in Node /\ Before(s, m, n)
        /\ a # NULL => t.parent[a] = n /\ a # up
    BY KidSays
  <2>3. n \in Node /\ n # NULL /\ D[n] \subseteq S
    BY NodeSays
  <2> QED BY <2>1, <2>2, <2>3
<1>4. /\ D[up] = {up} \cup Sub(D, mid) \cup Sub(D, b) /\ D[up] \subseteq S
      /\ up \notin Sub(D, mid) /\ up \notin Sub(D, b) /\ Sub(D, mid) \cap Sub(D, b) = {}
      /\ \A m \in Sub(D, mid) : m \in Node /\ Before(s, m, up)
      /\ \A m \in Sub(D, b) : m \in Node /\ Before(o, m, up)
      /\ mid \in S \cup {NULL} /\ (mid # NULL => t.parent[mid] = up) /\ mid # up
      /\ b \in S \cup {NULL} /\ (b # NULL => t.parent[b] = up) /\ b # up
      /\ (mid # NULL => mid # b /\ mid \in D[mid] /\ Sub(D, mid) = D[mid])
      /\ (b # NULL => b \in D[b] /\ Sub(D, b) = D[b])
  <2>1. /\ b \in S \cup {NULL} /\ b # up /\ up \notin Sub(D, b)
        /\ \A m \in Sub(D, b) : m \in Node /\ Before(o, m, up)
        /\ b # NULL => t.parent[b] = up /\ b \in D[b] /\ Sub(D, b) = D[b]
    BY <1>2, <1>3, KidSays
  <2>2. /\ mid \in S \cup {NULL} /\ mid # up /\ up \notin Sub(D, mid) /\ Sub(D, mid) \cap Sub(D, b) = {}
        /\ D[up] = {up} \cup Sub(D, mid) \cup Sub(D, b)
        /\ \A m \in Sub(D, mid) : m \in Node /\ Before(s, m, up)
        /\ mid # NULL => t.parent[mid] = up /\ mid # b /\ mid \in D[mid] /\ Sub(D, mid) = D[mid]
    BY <1>3, KidSays
  <2>3. D[up] \subseteq S
    BY <1>3, NodeSays
  <2> QED BY <2>1, <2>2, <2>3
<1>5. Sub(D, mid) \subseteq D[up] /\ Sub(D, b) \subseteq D[up] /\ D[up] \subseteq D[n]
      /\ (mid # NULL => mid \in D[up]) /\ (b # NULL => b \in D[up])
  <2> HIDE DEF mid, a, b, o, D2
  <2> QED BY <1>3, <1>4
<1>6. mid # n /\ b # n
  <2> HIDE DEF mid, a, b, o, D2
  <2> QED BY <1>3, <1>4, <1>5
<1>7. /\ D2 \in [Node -> SUBSET Node]
      /\ D2[up] = D[n] /\ D2[n] = {n} \cup Sub(D, a) \cup Sub(D, mid)
      /\ \A m \in Node \ {n, up} : D2[m] = D[m]
  <2>1. Sub(D, a) \subseteq Node /\ Sub(D, mid) \subseteq Node
    BY <1>1, <1>3, <1>4
  <2> QED BY <1>1, <1>3, <2>1 DEF TurnedSub
<1>8. /\ t2 \in Tree /\ t2.root = IF n = t.root THEN up ELSE t.root
      /\ t2.kid[s][n] = a /\ t2.kid[o][n] = mid
      /\ t2.kid[s][up] = n /\ t2.kid[o][up] = b
      /\ \A m \in S \ {n, up}, r \in Side :
           t2.kid[r][m] = IF t.kid[r][m] = n THEN up ELSE t.kid[r][m]
      /\ t2.parent[up] = t.parent[n] /\ t2.parent[n] = up
      /\ mid # NULL => t2.parent[mid] = n
      /\ \A m \in Node \ {n, up, mid} : t2.parent[m] = t.parent[m]
  BY DEF Turned
<1> HIDE DEF mid, o, a, b, D2
<1>9. Sub(D2, a) = Sub(D, a) /\ Sub(D2, mid) = Sub(D, mid) /\ Sub(D2, b) = Sub(D, b)
      /\ Sub(D2, n) = D2[n] /\ Sub(D2, up) = D[n]
  BY <1>1, <1>3, <1>4, <1>6, <1>7, NodeFacts DEF Sub
<1>10. RootOK(t2, S, D2)
  <2>1. t.root \in S /\ t.parent[t.root] = NULL /\ D[t.root] = S
    BY <1>1 DEF RootOK
  <2>2. CASE n = t.root
    BY <1>3, <1>7, <1>8, <2>1, <2>2 DEF RootOK
  <2>3. CASE n # t.root
    <3>0. n # NULL /\ up # NULL
      BY <1>3
    <3>1. t.root # up
      BY <1>3, <2>1, <3>0
    <3>2. t.root # mid
      <4>1. t.root # NULL
        BY <1>1, <2>1, NodeFacts
      <4> QED BY <1>4, <2>1, <3>0, <4>1
    <3> QED BY <1>1, <1>7, <1>8, <2>1, <2>3, <3>1, <3>2 DEF RootOK
  <2> QED BY <2>2, <2>3
<1>11. \A x, y \in Node : Before(o, x, y) <=> Before(s, y, x)
  BY BeforeFacts DEF o
<1>12. Before(o, up, n) /\ Before(s, n, up)
  BY <1>3, <1>11
<1>13. D2[n] \subseteq S /\ KidsOK(t2, S, n) /\ SubOK(t2, D2, n) /\ SortedAt(t2, D2, n)
  <2>1. D2[n] \subseteq S
    BY <1>3, <1>4, <1>5, <1>7
  <2>2. KidsOK(t2, S, n)
    <3>1. a # NULL => t2.parent[a] = n /\ a \in S
      <4>1. a # NULL => a # mid
        BY <1>3, <1>4
      <4> QED BY <1>1, <1>3, <1>8, <4>1
    <3> QED BY <1>2, <1>4, <1>8, <3>1 DEF KidsOK
  <2>3. SubOK(t2, D2, n)
    <3> SUFFICES ASSUME NEW r \in Side
                 PROVE  D2[n] = {n} \cup Sub(D2, t2.kid[r][n]) \cup Sub(D2, t2.kid[Other(r)][n])
      BY DEF SubOK
    <3>1. CASE r = s
      BY <1>7, <1>8, <1>9, <3>1 DEF o
    <3>2. CASE r = o
      BY <1>2, <1>7, <1>8, <1>9, <3>2
    <3> QED BY <1>2, <3>1, <3>2
  <2>4. SortedAt(t2, D2, n)
    <3>1. \A m \in Sub(D, mid) : Before(o, m, n)
      BY <1>3, <1>4, <1>5
    <3> QED BY <1>2, <1>3, <1>8, <1>9, <3>1 DEF SortedAt
  <2> QED BY <2>1, <2>2, <2>3, <2>4
<1>14. D2[up] \subseteq S /\ KidsOK(t2, S, up) /\ SubOK(t2, D2, up) /\ SortedAt(t2, D2, up)
  <2>1. KidsOK(t2, S, up)
    <3>1. b # NULL => t2.parent[b] = up /\ b \in S
      BY <1>1, <1>4, <1>6, <1>8
    <3> QED BY <1>2, <1>8, <3>1 DEF KidsOK
  <2>2. D2[up] = {up} \cup Sub(D2, n) \cup Sub(D2, b)
    BY <1>3, <1>4, <1>5, <1>7, <1>9
  <2>3. SubOK(t2, D2, up)
    <3> SUFFICES ASSUME NEW r \in Side
                 PROVE  D2[up] = {up} \cup Sub(D2, t2.kid[r][up]) \cup Sub(D2, t2.kid[Other(r)][up])
      BY DEF SubOK
    <3>1. CASE r = s
      BY <1>8, <2>2, <3>1 DEF o
    <3>2. CASE r = o
      BY <1>2, <1>8, <2>2, <3>2
    <3> QED BY <1>2, <3>1, <3>2
  <2>4. SortedAt(t2, D2, up)
    <3>1. ASSUME NEW m \in D2[n] PROVE Before(s, m, up)
      <4>1. CASE m = n
        BY <1>12, <4>1
      <4>2. CASE m \in Sub(D, a)
        <5>1. Before(s, m, n) /\ m \in Node
          BY <1>1, <1>3, <4>2
        <5> QED BY <1>3, <1>12, <5>1, BeforeFacts
      <4>3. CASE m \in Sub(D, mid)
        BY <1>4, <4>3
      <4> QED BY <1>7, <4>1, <4>2, <4>3
    <3> QED BY <1>2, <1>4, <1>8, <1>9, <3>1 DEF SortedAt
  <2> QED BY <1>3, <1>7, <2>1, <2>3, <2>4
<1>15. ASSUME NEW m \in S, m # n, m # up
       PROVE  D2[m] \subseteq S /\ KidsOK(t2, S, m) /\ SubOK(t2, D2, m) /\ SortedAt(t2, D2, m)
  <2>1. /\ D[m] \subseteq S /\ KidsOK(t, S, m) /\ SubOK(t, D, m) /\ SortedAt(t, D, m)
    BY DEF Shape
  <2>2. ASSUME NEW r \in Side
        PROVE  /\ t2.kid[r][m] = IF t.kid[r][m] = n THEN up ELSE t.kid[r][m]
               /\ Sub(D2, t2.kid[r][m]) = Sub(D, t.kid[r][m])
               /\ t2.kid[r][m] # NULL => t2.kid[r][m] \in S /\ t2.parent[t2.kid[r][m]] = m
    <3>1. t2.kid[r][m] = IF t.kid[r][m] = n THEN up ELSE t.kid[r][m]
      BY <1>8, <2>2, <1>15
    <3>2. CASE t.kid[r][m] = n
      BY <1>3, <1>8, <1>9, <2>1, <2>2, <3>1, <3>2 DEF KidsOK, Sub
    <3>3. CASE t.kid[r][m] # n
      <4> DEFINE c == t.kid[r][m]
      <4>1. c # NULL => c \in S /\ t.parent[c] = m
        BY <2>1, <2>2 DEF KidsOK
      <4>2. c # NULL => c # up /\ c # mid /\ c # n /\ c \in Node
        BY <1>1, <1>3, <1>4, <1>15, <3>3, <4>1
      <4> HIDE DEF c
      <4>3. t2.kid[r][m] = c
        BY <3>1, <3>3 DEF c
      <4>4. Sub(D2, c) = Sub(D, c)
        BY <1>7, <4>2 DEF Sub
      <4>5. c # NULL => t2.parent[c] = m
        BY <1>8, <4>1, <4>2
      <4> QED BY <3>1, <4>1, <4>3, <4>4, <4>5 DEF c
    <3> QED BY <3>2, <3>3, <3>1
  <2>3. D2[m] = D[m]
    BY <1>1, <1>7, <1>15
  <2>4. KidsOK(t2, S, m)
    BY <2>2 DEF KidsOK
  <2>5. SubOK(t2, D2, m)
    <3> SUFFICES ASSUME NEW r \in Side
                 PROVE  D2[m] = {m} \cup Sub(D2, t2.kid[r][m]) \cup Sub(D2, t2.kid[Other(r)][m])
      BY DEF SubOK
    <3>1. Other(r) \in Side
      BY BeforeFacts
    <3>2. D[m] = {m} \cup Sub(D, t.kid[r][m]) \cup Sub(D, t.kid[Other(r)][m])
      BY <2>1 DEF SubOK
    <3> QED BY <2>2, <2>3, <3>1, <3>2
  <2>6. SortedAt(t2, D2, m)
    BY <2>1, <2>2 DEF SortedAt
  <2> QED BY <2>1, <2>3, <2>4, <2>5, <2>6
<1>16. ASSUME NEW m \in S PROVE ParentOK(t2, S, m)
  <2> SUFFICES ASSUME m # t2.root
               PROVE  t2.parent[m] \in S /\ \E r \in Side : t2.kid[r][t2.parent[m]] = m
    BY DEF ParentOK
  <2>1. CASE m = n
    BY <1>3, <1>8, <2>1
  <2>2. CASE m = mid
    BY <1>2, <1>3, <1>4, <1>8, <2>2, NodeFacts, <1>1
  <2>3. CASE m = up
    <3>1. n # t.root
      BY <1>8, <2>3
    <3>2. t.parent[n] \in S /\ \E r \in Side : t.kid[r][t.parent[n]] = n
      BY <3>1 DEF Shape, ParentOK
    <3>3. PICK r \in Side : t.kid[r][t.parent[n]] = n
      BY <3>2
    <3>4. t.parent[n] # n /\ t.parent[n] # up
      <4>1. t.parent[n] # n
        BY <3>2, <3>3, NodeSays
      <4>2. t.parent[n] = up => r = s \/ r = o
        BY <1>2
      <4>3. t.parent[n] = up => n = mid \/ n = b
        BY <3>3, <4>2 DEF mid, b
      <4> QED BY <1>6, <4>1, <4>3
    <3>5. t2.kid[r][t.parent[n]] = up
      BY <1>8, <3>2, <3>3, <3>4
    <3> QED BY <1>8, <2>3, <3>2, <3>5
  <2>4. CASE m \notin {n, mid, up}
    <3>1. m # t.root
      BY <1>8, <2>4
    <3>2. t.parent[m] \in S /\ \E r \in Side : t.kid[r][t.parent[m]] = m
      BY <3>1 DEF Shape, ParentOK
    <3>3. PICK r \in Side : t.kid[r][t.parent[m]] = m
      BY <3>2
    <3>4. t2.parent[m] = t.parent[m]
      BY <1>1, <1>8, <2>4
    <3>5. CASE t.parent[m] \notin {n, up}
      <4>1. t2.kid[r][t.parent[m]] = m
        BY <1>8, <2>4, <3>2, <3>3, <3>5
      <4> QED BY <3>2, <3>4, <4>1
    <3>6. CASE t.parent[m] = n
      <4>1. m = a
        BY <1>2, <2>4, <3>3, <3>6 DEF a, o
      <4> QED BY <1>3, <1>8, <3>4, <3>6, <4>1
    <3>7. CASE t.parent[m] = up
      <4>1. m = b
        BY <1>2, <2>4, <3>3, <3>7 DEF b, mid
      <4> QED BY <1>2, <1>3, <1>8, <3>4, <3>7, <4>1
    <3> QED BY <3>5, <3>6, <3>7
  <2> QED BY <2>1, <2>2, <2>3, <2>4
<1> QED BY <1>1, <1>7, <1>8, <1>10, <1>13, <1>14, <1>15, <1>16 DEF Shape, D2

\* The shape does not depend on colors.
LEMMA SameShape ==
  ASSUME NEW t, NEW S, NEW D, Shape(t, S, D), NEW t2 \in Tree,
         t2.kid = t.kid, t2.parent = t.parent, t2.root = t.root
  PROVE  Shape(t2, S, D)
  BY DEF Shape, RootOK, KidsOK, ParentOK, SubOK, SortedAt

\* A rotation leaves the heights of the other nodes alone, if up becomes as high as n was.
LEMMA TurnedHeight ==
  ASSUME NEW t, NEW S, NEW D, Shape(t, S, D), NEW s \in Side, NEW n \in S,
         NEW up, up = t.kid[Other(s)][n], up # NULL, NEW t2, Turned(t, t2, S, s, n, up),
         NEW h, NEW h2, \A m \in S \ {n, up} : h2[m] = h[m], h2[up] = h[n],
         NEW m \in S \ {n, up}, HtOK(t, h, m)
  PROVE  HtOK(t2, h2, m)
<1> SUFFICES ASSUME NEW r \in Side PROVE h2[m] = Ht(h2, t2.kid[r][m]) + Bit(t2, m)
  BY DEF HtOK
<1>1. h[m] = Ht(h, t.kid[r][m]) + Bit(t, m) /\ h2[m] = h[m]
  BY DEF HtOK
<1>2. Bit(t2, m) = Bit(t, m) /\ t2.kid[r][m] = IF t.kid[r][m] = n THEN up ELSE t.kid[r][m]
  BY DEF Turned, Bit
<1>3. n # NULL /\ t.kid[r][m] \in S \cup {NULL}
  BY NodeSays, KidSays
<1>4. t.kid[r][m] # up
  <2>1. Other(s) \in Side
    BY BeforeFacts
  <2>2. up \in S /\ t.parent[up] = n
    BY <2>1, KidSays
  <2> QED BY <2>2, OnePlace
<1>5. Ht(h2, t2.kid[r][m]) = Ht(h, t.kid[r][m])
  BY <1>2, <1>3, <1>4 DEF Ht
<1> QED BY <1>1, <1>2, <1>5

\* Nodes that are not in the tree.
Clear(t, m) == t.parent[m] = NULL /\ (\A s \in Side : t.kid[s][m] = NULL) /\ m \notin t.black

\* A rotation does not touch them.
LEMMA TurnedClear ==
  ASSUME NEW t, NEW S, NEW D, Shape(t, S, D), NEW s \in Side, NEW n \in S,
         NEW up, up = t.kid[Other(s)][n], up # NULL, NEW t2, Turned(t, t2, S, s, n, up),
         NEW m \in Node \ S, Clear(t, m)
  PROVE  Clear(t2, m)
<1>1. Other(s) \in Side
  BY BeforeFacts
<1>2. up \in S
  BY <1>1, KidSays
<1>3. t.kid[s][up] \in S \cup {NULL}
  BY <1>2, KidSays
<1>4. m \in Node \ {n, up, t.kid[s][up]}
  BY <1>2, <1>3, NodeFacts
<1> QED BY <1>4 DEF Turned, Clear
-----------------------------------------------------------------------------
(* Insertion. *)

\* x is red and may be below a red node or at the root; all else is as it should be.
InsertInv(t, S, D, h, x) ==
    /\ Shape(t, S, D) /\ h \in [Node -> Nat] /\ x \in S /\ IsRed(t, x)
    /\ \A m \in S : HtOK(t, h, m)
    /\ \A m \in S \ {x} : RedOK(t, m)
    /\ \A m \in Node \ S : Clear(t, m)

\* The red parent p of x, which is on side s of its parent g, and the uncle u.
Family(t, x, p, g, s, u) ==
    /\ p = t.parent[x] /\ IsRed(t, p) /\ g = t.parent[p]
    /\ s = SideIn(t, g, p) /\ u = t.kid[Other(s)][g]

\* x, its red parent and its black grandparent.
LEMMA TwoRedsSays ==
  ASSUME NEW t, NEW S, NEW D, NEW h, NEW x, InsertInv(t, S, D, h, x),
         NEW p, NEW g, NEW s, NEW u, Family(t, x, p, g, s, u)
  PROVE  /\ s \in Side /\ t \in Tree /\ S \subseteq Node /\ D \in [Node -> SUBSET Node]
         /\ x \in S /\ p \in S /\ g \in S /\ x # p /\ p # g /\ x # g
         /\ p \notin t.black /\ x \notin t.black /\ g \in t.black
         /\ t.parent[x] = p /\ t.parent[p] = g
         /\ t.kid[s][g] = p /\ t.kid[Other(s)][g] = u /\ u \in S \cup {NULL} /\ u # p /\ u # g /\ u # x
         /\ u # NULL => t.parent[u] = g
         /\ \E r \in Side : t.kid[r][p] = x
         /\ D[x] \subseteq D[g] /\ D[x] # D[g]
<1>1. /\ Shape(t, S, D) /\ x \in S /\ IsRed(t, x) /\ \A m \in S \ {x} : RedOK(t, m)
      /\ t \in Tree /\ S \subseteq Node /\ D \in [Node -> SUBSET Node]
  BY DEF InsertInv, Shape
<1>0. p = t.parent[x] /\ IsRed(t, p) /\ g = t.parent[p] /\ s = SideIn(t, g, p) /\ u = t.kid[Other(s)][g]
  BY DEF Family
<1>2. p # NULL /\ p \notin t.black /\ x \notin t.black
  BY <1>0, <1>1 DEF IsRed
<1>3. p \in S /\ x # t.root
  BY <1>0, <1>1, <1>2, NodeSays
<1>4. PICK r \in Side : t.kid[r][p] = x
  <2>1. t.kid[SideIn(t, t.parent[x], x)][t.parent[x]] = x
    BY <1>1, <1>3, OnePlace
  <2> QED BY <1>0, <2>1, SideInSide
<1>5. /\ x # p /\ D[x] \subseteq D[p] /\ p \notin D[x] /\ p \in D[p] /\ x \in D[x]
  <2>1. x # NULL
    BY <1>1, NodeSays
  <2>2. x # p /\ Sub(D, x) \subseteq D[p] /\ p \notin D[x] /\ Sub(D, x) = D[x] /\ x \in D[x]
    BY <1>1, <1>3, <1>4, <2>1, KidSays
  <2> QED BY <1>1, <1>3, <2>2, NodeSays
<1>6. RedOK(t, p)
  BY <1>1, <1>3, <1>5
<1>7. p # t.root /\ ~IsRed(t, g)
  BY <1>0, <1>6 DEF RedOK
<1>8. g \in S /\ g \in t.black
  <2>1. t.parent[p] \in S /\ t.parent[p] # NULL
    BY <1>1, <1>3, <1>7, NodeSays
  <2> QED BY <1>0, <1>7, <2>1 DEF IsRed
<1>9. s \in Side /\ t.kid[s][g] = p
  <2>1. t.kid[SideIn(t, t.parent[p], p)][t.parent[p]] = p
    BY <1>1, <1>3, <1>7, OnePlace
  <2> QED BY <1>0, <2>1, SideInSide
<1>10. p # g /\ D[p] \subseteq D[g] /\ g \notin D[p]
  BY <1>1, <1>2, <1>8, <1>9, KidSays DEF Sub
<1>11. x # g /\ D[x] \subseteq D[g] /\ D[x] # D[g]
  <2>1. g \in D[g]
    BY <1>1, <1>8, NodeSays
  <2> QED BY <1>5, <1>10, <2>1
<1>12. u \in S \cup {NULL} /\ u # p /\ u # g /\ u # x /\ (u # NULL => t.parent[u] = g)
  <2>1. Other(s) \in Side /\ Other(Other(s)) = s
    BY <1>9, BeforeFacts
  <2>2. u \in S \cup {NULL} /\ u # g /\ (u # NULL => t.parent[u] = g /\ u # p)
    <3>1. /\ t.kid[Other(s)][g] \in S \cup {NULL} /\ t.kid[Other(s)][g] # g
          /\ t.kid[Other(s)][g] # NULL =>
               t.parent[t.kid[Other(s)][g]] = g /\ t.kid[Other(s)][g] # t.kid[Other(Other(s))][g]
      BY <1>1, <1>8, <2>1, KidSays
    <3> QED BY <1>0, <1>9, <2>1, <3>1
  <2>3. x # NULL
    BY <1>1, NodeSays
  <2>4. t.parent[x] = p /\ p # g
    BY <1>0, <1>10
  <2> QED BY <1>2, <2>2, <2>3, <2>4
<1> QED BY <1>0, <1>1, <1>2, <1>3, <1>4, <1>5, <1>8, <1>9, <1>10, <1>11, <1>12

\* The uncle is red too: both get black, and the grandparent, now red, is next.
LEMMA RedUncle ==
  ASSUME NEW t, NEW S, NEW D, NEW h, NEW x, InsertInv(t, S, D, h, x),
         NEW p, NEW g, NEW s, NEW u, Family(t, x, p, g, s, u), IsRed(t, u)
  PROVE  \E h2 : InsertInv(Recolored(t, {p, u}, {g}), S, D, h2, g)
<1> DEFINE t2 == Recolored(t, {p, u}, {g})
           h2 == [h EXCEPT ![p] = h[p] + 1, ![u] = h[u] + 1]
<1>1. /\ s \in Side /\ t \in Tree /\ S \subseteq Node
      /\ x \in S /\ p \in S /\ g \in S /\ x # p /\ p # g /\ x # g
      /\ p \notin t.black /\ x \notin t.black /\ g \in t.black
      /\ t.parent[x] = p /\ t.parent[p] = g
      /\ t.kid[s][g] = p /\ t.kid[Other(s)][g] = u /\ u \in S \cup {NULL} /\ u # p /\ u # g /\ u # x
      /\ u # NULL => t.parent[u] = g
  BY TwoRedsSays
<1>2. u \in S /\ u \notin t.black /\ t.parent[u] = g
  BY <1>1 DEF IsRed
<1>3. /\ Shape(t, S, D) /\ h \in [Node -> Nat]
      /\ \A m \in S : HtOK(t, h, m)
      /\ \A m \in S \ {x} : RedOK(t, m)
      /\ \A m \in Node \ S : Clear(t, m)
  BY DEF InsertInv
<1>4. /\ t2 \in Tree /\ t2.kid = t.kid /\ t2.parent = t.parent /\ t2.root = t.root
      /\ t2.black = (t.black \cup {p, u}) \ {g}
  <2>1. {p, u} \subseteq Node
    BY <1>1, <1>2
  <2> QED BY <1>1, <2>1, RecoloredSays
<1> HIDE DEF t2
<1>5. Shape(t2, S, D)
  BY <1>3, <1>4, SameShape
<1>6. h2 \in [Node -> Nat] /\ h2[p] = h[p] + 1 /\ h2[u] = h[u] + 1 /\ \A m \in Node \ {p, u} : h2[m] = h[m]
  BY <1>1, <1>2, <1>3
<1> HIDE DEF h2
<1>7. ASSUME NEW m \in S PROVE HtOK(t2, h2, m)
  <2> SUFFICES ASSUME NEW r \in Side PROVE h2[m] = Ht(h2, t.kid[r][m]) + Bit(t2, m)
    BY <1>4 DEF HtOK
  <2>1. h[m] = Ht(h, t.kid[r][m]) + Bit(t, m)
    BY <1>3 DEF HtOK
  <2>2. t.kid[r][m] \in S \cup {NULL} /\ h[m] \in Nat /\ Ht(h, t.kid[r][m]) \in Nat
    BY <1>1, <1>3, KidSays DEF Ht
  <2>3. t.kid[r][m] \in {p, u} => m = g
    BY <1>1, <1>2, <1>3, OnePlace
  <2>4. CASE m = g
    <3>1. t.kid[r][m] \in {p, u}
      BY <1>1, <2>4, BeforeFacts
    <3>2. Ht(h2, t.kid[r][m]) = Ht(h, t.kid[r][m]) + 1
      BY <1>1, <1>2, <1>6, <3>1, NodeFacts DEF Ht
    <3>3. h2[m] = h[m]
      BY <1>1, <1>6, <2>4
    <3>4. Bit(t, m) = 1 /\ Bit(t2, m) = 0
      BY <1>1, <1>4, <2>4 DEF Bit
    <3> QED BY <2>1, <2>2, <3>2, <3>3, <3>4
  <2>5. CASE m \in {p, u}
    <3>1. Ht(h2, t.kid[r][m]) = Ht(h, t.kid[r][m])
      BY <1>1, <1>6, <2>2, <2>3, <2>5 DEF Ht
    <3>2. h2[m] = h[m] + 1
      BY <1>6, <2>5
    <3>3. Bit(t, m) = 0 /\ Bit(t2, m) = 1
      BY <1>1, <1>2, <1>4, <2>5 DEF Bit
    <3> QED BY <2>1, <2>2, <3>1, <3>2, <3>3
  <2>6. CASE m \notin {p, u, g}
    <3>1. Ht(h2, t.kid[r][m]) = Ht(h, t.kid[r][m])
      BY <1>1, <1>6, <2>2, <2>3, <2>6 DEF Ht
    <3>2. h2[m] = h[m]
      BY <1>1, <1>6, <2>6
    <3>3. Bit(t, m) = Bit(t2, m)
      BY <1>4, <2>6 DEF Bit
    <3> QED BY <2>1, <3>1, <3>2, <3>3
  <2> QED BY <2>4, <2>5, <2>6
<1>8. ASSUME NEW m \in S \ {g} PROVE RedOK(t2, m)
  <2> SUFFICES ASSUME m \notin t2.black PROVE m # t.root /\ ~IsRed(t2, t.parent[m])
    BY <1>1, <1>4, NodeFacts DEF RedOK, IsRed
  <2>1. m \notin {p, u} /\ m \notin t.black
    BY <1>4, <1>8
  <2>2. t.parent[m] \in S \cup {NULL}
    BY <1>3, NodeSays
  <2>3. CASE m = x
    BY <1>1, <1>3, <1>4, <2>3, NodeSays DEF IsRed
  <2>4. CASE m # x
    <3>1. m # NULL /\ m # t.root /\ ~IsRed(t, t.parent[m])
      BY <1>3, <2>1, <2>4, NodeSays DEF RedOK, IsRed
    <3>2. t.parent[m] # g
      <4>1. ASSUME t.parent[m] = g PROVE FALSE
        <5>1. PICK r \in Side : t.kid[r][g] = m
          BY <1>3, <3>1, <4>1, OnePlace, SideInSide
        <5>2. r = s \/ r = Other(s)
          BY <1>1, BeforeFacts
        <5> QED BY <1>1, <2>1, <5>1, <5>2
      <4> QED BY <4>1
    <3> QED BY <1>4, <3>1, <3>2 DEF IsRed
  <2> QED BY <2>3, <2>4
<1>9. ASSUME NEW m \in Node \ S PROVE Clear(t2, m)
  BY <1>1, <1>2, <1>3, <1>4 DEF Clear
<1>10. IsRed(t2, g)
  BY <1>1, <1>4, NodeFacts DEF IsRed
<1>11. InsertInv(t2, S, D, h2, g)
  BY <1>1, <1>5, <1>6, <1>7, <1>8, <1>9, <1>10 DEF InsertInv
<1> QED BY <1>11 DEF t2

\* The uncle is black: the parent takes the place and the color of the grandparent.
LEMMA OuterRed ==
  ASSUME NEW t, NEW S, NEW D, NEW h, NEW x, InsertInv(t, S, D, h, x),
         NEW p, NEW g, NEW s, NEW u, Family(t, x, p, g, s, u), ~IsRed(t, u),
         t.kid[s][p] = x
  PROVE  LET t2 == rb_rotate(Recolored(t, {p}, {g}), Other(s), g)
         IN  ~IsRed(t2, t2.parent[x]) /\ \E D2, h2 : InsertInv(t2, S, D2, h2, x)
<1> DEFINE t1 == Recolored(t, {p}, {g})
           o == Other(s)
           t2 == rb_rotate(t1, o, g)
           mid == t.kid[o][p]
           D2 == TurnedSub(t1, D, o, g, p)
           h2 == [h EXCEPT ![p] = h[g], ![g] = h[p]]
<1>1. /\ s \in Side /\ t \in Tree /\ S \subseteq Node
      /\ x \in S /\ p \in S /\ g \in S /\ x # p /\ p # g /\ x # g
      /\ p \notin t.black /\ x \notin t.black /\ g \in t.black
      /\ t.parent[x] = p /\ t.parent[p] = g
      /\ t.kid[s][g] = p /\ t.kid[Other(s)][g] = u /\ u \in S \cup {NULL} /\ u # p /\ u # g /\ u # x
      /\ u # NULL => t.parent[u] = g
  BY TwoRedsSays
<1>2. o \in Side /\ Other(o) = s /\ o # s /\ \A r \in Side : r = s \/ r = o
  BY <1>1, BeforeFacts
<1>3. /\ Shape(t, S, D) /\ h \in [Node -> Nat]
      /\ \A m \in S : HtOK(t, h, m)
      /\ \A m \in S \ {x} : RedOK(t, m)
      /\ \A m \in Node \ S : Clear(t, m)
  BY DEF InsertInv
<1>4. /\ t1 \in Tree /\ t1.kid = t.kid /\ t1.parent = t.parent /\ t1.root = t.root
      /\ t1.black = (t.black \cup {p}) \ {g}
  <2>1. {p} \subseteq Node
    BY <1>1
  <2> QED BY <1>1, <2>1, RecoloredSays
<1> HIDE DEF t1
<1>5. Shape(t1, S, D)
  BY <1>3, <1>4, SameShape
<1>6. p = t1.kid[Other(o)][g] /\ p # NULL
  BY <1>1, <1>2, <1>4, NodeFacts
<1>7. Turned(t1, t2, S, o, g, p)
  <2>1. Turned(t1, rb_rotate(t1, o, g), S, o, g, t1.kid[Other(o)][g])
    BY <1>1, <1>2, <1>5, <1>6, RotateSays
  <2> QED BY <1>6, <2>1
<1> HIDE DEF t2
<1>8. Shape(t2, S, D2)
  BY <1>1, <1>2, <1>5, <1>6, <1>7, TurnedShape
<1>9. /\ t2 \in Tree /\ t2.black = (t.black \cup {p}) \ {g}
      /\ t2.root = IF g = t.root THEN p ELSE t.root
      /\ t2.kid[o][g] = u /\ t2.kid[s][g] = mid
      /\ t2.kid[o][p] = g /\ t2.kid[s][p] = x
      /\ t2.parent[p] = t.parent[g] /\ t2.parent[g] = p
      /\ mid # NULL => t2.parent[mid] = g
      /\ \A m \in Node \ {g, p, mid} : t2.parent[m] = t.parent[m]
  <2> HIDE DEF mid, o, D2, h2
  <2>1. Other(o) = s /\ t1.kid[s][g] = p /\ t1.kid[o][g] = u /\ t1.kid[o][p] = mid /\ t1.kid[s][p] = x
    BY <1>1, <1>2, <1>4 DEF o, mid
  <2> QED BY <1>4, <1>7, <2>1 DEF Turned
<1>10. mid \in S \cup {NULL} /\ mid # p /\ (mid # NULL => t.parent[mid] = p /\ mid # x /\ mid # t.root)
  BY <1>1, <1>2, <1>3, KidSays
<1>11. mid # NULL => mid \in t.black
  <2>1. mid # NULL => RedOK(t, mid)
    BY <1>3, <1>10
  <2> QED BY <1>1, <1>10, <2>1, NodeFacts DEF RedOK, IsRed
<1>12. mid # g
  <2>1. p \in D[g] /\ p # g
    BY <1>1, <1>3, KidSays, NodeFacts
  <2>2. g \notin D[p]
    BY <1>1, <1>3, <2>1, DownSays
  <2>3. mid = g => g \in D[p]
    BY <1>1, <1>2, <1>3, KidSays, NodeFacts
  <2> QED BY <2>2, <2>3
<1>13. /\ h2 \in [Node -> Nat] /\ h2[p] = h[g] /\ h2[g] = h[p]
       /\ \A m \in Node \ {g, p} : h2[m] = h[m]
  BY <1>1, <1>3
<1> HIDE DEF h2, D2, mid, o
<1>14. /\ h[p] \in Nat /\ h[g] = h[p] + 1 /\ h[x] = h[p] /\ Ht(h, mid) = h[p] /\ Ht(h, u) = h[p]
  <2>1. HtOK(t, h, p) /\ HtOK(t, h, g) /\ h[p] \in Nat /\ h[g] \in Nat /\ h[x] \in Nat
    BY <1>1, <1>3
  <2>2. Bit(t, p) = 0 /\ Bit(t, g) = 1
    BY <1>1 DEF Bit
  <2>3. Ht(h, p) = h[p] /\ Ht(h, x) = h[x] /\ Ht(h, u) \in Nat /\ Ht(h, mid) \in Nat
    BY <1>1, <1>3, <1>10, NodeFacts DEF Ht
  <2>4. h[p] = Ht(h, x) + Bit(t, p) /\ h[p] = Ht(h, mid) + Bit(t, p)
    BY <1>1, <1>2, <2>1 DEF HtOK, mid
  <2>5. h[g] = Ht(h, p) + Bit(t, g) /\ h[g] = Ht(h, u) + Bit(t, g)
    BY <1>1, <1>2, <2>1 DEF HtOK, o
  <2> QED BY <2>1, <2>2, <2>3, <2>4, <2>5
<1>15. ASSUME NEW m \in S PROVE HtOK(t2, h2, m)
  <2>1. CASE m = g
    <3>1. Ht(h2, u) = h[p] /\ Ht(h2, mid) = h[p]
      BY <1>1, <1>10, <1>12, <1>13, <1>14 DEF Ht
    <3>2. Bit(t2, g) = 0
      BY <1>9 DEF Bit
    <3>3. \A r \in Side : Ht(h2, t2.kid[r][g]) = h[p]
      BY <1>2, <1>9, <3>1
    <3> QED BY <1>13, <1>14, <2>1, <3>2, <3>3 DEF HtOK
  <2>2. CASE m = p
    <3>1. Ht(h2, g) = h[p] /\ Ht(h2, x) = h[p]
      BY <1>1, <1>13, <1>14, NodeFacts DEF Ht
    <3>2. Bit(t2, p) = 1
      BY <1>1, <1>9 DEF Bit
    <3>3. \A r \in Side : Ht(h2, t2.kid[r][p]) = h[p]
      BY <1>2, <1>9, <3>1
    <3> QED BY <1>13, <1>14, <2>2, <3>2, <3>3 DEF HtOK
  <2>3. CASE m \notin {g, p}
    <3>1. HtOK(t1, h, m)
      <4>1. HtOK(t, h, m)
        BY <1>3
      <4>2. Bit(t1, m) = Bit(t, m)
        BY <1>4, <2>3 DEF Bit
      <4> QED BY <1>4, <4>1, <4>2 DEF HtOK
    <3>2. \A y \in S \ {g, p} : h2[y] = h[y]
      BY <1>1, <1>13
    <3> QED BY <1>1, <1>2, <1>5, <1>6, <1>7, <1>13, <2>3, <3>1, <3>2, TurnedHeight
  <2> QED BY <2>1, <2>2, <2>3
<1>16. t2.parent[x] = p /\ ~IsRed(t2, p) /\ IsRed(t2, x)
  <2>1. x # mid /\ t.parent[x] = p /\ x # NULL
    BY <1>1, <1>10, NodeFacts
  <2> QED BY <1>1, <1>9, <2>1 DEF IsRed
<1>17. ASSUME NEW m \in S \ {x} PROVE RedOK(t2, m)
  <2> SUFFICES ASSUME m \notin t2.black PROVE m # t2.root /\ ~IsRed(t2, t2.parent[m])
    BY <1>1, NodeFacts DEF RedOK, IsRed
  <2>1. m # p
    BY <1>1, <1>9
  <2>2. CASE m = g
    BY <1>1, <1>9, <1>16, <2>2
  <2>3. CASE m # g
    <3>1. m \notin t.black /\ m # NULL
      BY <1>1, <1>9, <2>3, NodeFacts
    <3>2. RedOK(t, m)
      BY <1>3
    <3>3. m # t.root /\ ~IsRed(t, t.parent[m])
      BY <3>1, <3>2 DEF RedOK, IsRed
    <3>4. m # mid
      BY <1>11, <3>1
    <3>5. t2.parent[m] = t.parent[m]
      BY <1>1, <1>9, <2>1, <2>3, <3>4
    <3>6. t.parent[m] # g
      <4>1. ASSUME t.parent[m] = g PROVE FALSE
        <5>1. PICK r \in Side : t.kid[r][g] = m
          BY <1>3, <3>3, <4>1, OnePlace, SideInSide
        <5>2. m = u
          BY <1>1, <1>2, <2>1, <5>1 DEF o
        <5> QED BY <3>1, <5>2 DEF IsRed
      <4> QED BY <4>1
    <3> QED BY <1>9, <2>1, <3>3, <3>5, <3>6 DEF IsRed
  <2> QED BY <2>2, <2>3
<1>18. ASSUME NEW m \in Node \ S PROVE Clear(t2, m)
  <2>1. Clear(t1, m)
    <3>1. Clear(t, m)
      BY <1>3
    <3> QED BY <1>1, <1>4, <3>1 DEF Clear
  <2> QED BY <1>1, <1>2, <1>5, <1>6, <1>7, <2>1, TurnedClear
<1>19. InsertInv(t2, S, D2, h2, x)
  BY <1>1, <1>8, <1>13, <1>15, <1>16, <1>17, <1>18 DEF InsertInv
<1> QED BY <1>16, <1>19 DEF t2, t1, o

\* x is on the inner side: it takes the place of its parent, which is outside then.
LEMMA InnerRed ==
  ASSUME NEW t, NEW S, NEW D, NEW h, NEW x, InsertInv(t, S, D, h, x),
         NEW p, NEW g, NEW s, NEW u, Family(t, x, p, g, s, u), ~IsRed(t, u),
         t.kid[Other(s)][p] = x
  PROVE  LET t1 == rb_rotate(t, s, p)
         IN  /\ Family(t1, p, x, g, s, u) /\ ~IsRed(t1, u) /\ t1.kid[s][x] = p
             /\ \E D1 : InsertInv(t1, S, D1, h, p)
<1> DEFINE t1 == rb_rotate(t, s, p)
           o == Other(s)
           mid == t.kid[s][x]
           D1 == TurnedSub(t, D, s, p, x)
<1>1. /\ s \in Side /\ t \in Tree /\ S \subseteq Node
      /\ x \in S /\ p \in S /\ g \in S /\ x # p /\ p # g /\ x # g
      /\ p \notin t.black /\ x \notin t.black /\ g \in t.black
      /\ t.parent[x] = p /\ t.parent[p] = g
      /\ t.kid[s][g] = p /\ t.kid[o][g] = u /\ u \in S \cup {NULL} /\ u # p /\ u # g /\ u # x
      /\ u # NULL => t.parent[u] = g
  BY TwoRedsSays
<1>2. o \in Side /\ Other(o) = s /\ o # s /\ \A r \in Side : r = s \/ r = o
  BY <1>1, BeforeFacts
<1>3. /\ Shape(t, S, D) /\ h \in [Node -> Nat]
      /\ \A m \in S : HtOK(t, h, m)
      /\ \A m \in S \ {x} : RedOK(t, m)
      /\ \A m \in Node \ S : Clear(t, m)
  BY DEF InsertInv
<1>4. x = t.kid[Other(s)][p] /\ x # NULL /\ p # NULL /\ g # NULL
  BY <1>1, NodeFacts
<1>5. Turned(t, t1, S, s, p, x)
  <2>1. Turned(t, t1, S, s, p, t.kid[Other(s)][p])
    BY <1>1, <1>3, <1>4, RotateSays
  <2> QED BY <2>1
<1> HIDE DEF t1
<1>6. Shape(t1, S, D1)
  BY <1>1, <1>3, <1>4, <1>5, TurnedShape
<1>7. mid \in S \cup {NULL} /\ mid # x /\ (mid # NULL => t.parent[mid] = x)
  BY <1>1, <1>3, KidSays
<1> HIDE DEF mid, o, D1
<1>8. /\ t1 \in Tree /\ t1.black = t.black
      /\ t1.root = IF p = t.root THEN x ELSE t.root
      /\ t1.kid[s][p] = t.kid[s][p] /\ t1.kid[o][p] = mid
      /\ t1.kid[s][x] = p /\ t1.kid[o][x] = t.kid[o][x]
      /\ \A m \in S \ {p, x}, r \in Side :
           t1.kid[r][m] = IF t.kid[r][m] = p THEN x ELSE t.kid[r][m]
      /\ t1.parent[x] = g /\ t1.parent[p] = x
      /\ mid # NULL => t1.parent[mid] = p
      /\ \A m \in Node \ {p, x, mid} : t1.parent[m] = t.parent[m]
  BY <1>1, <1>5 DEF Turned, o, mid
<1>9. p # t.root /\ x # t.root
  BY <1>1, <1>3, <1>4, NodeSays
<1>10. t1.kid[s][g] = x /\ t1.kid[o][g] = u
  BY <1>1, <1>2, <1>8
<1>11. SideIn(t1, g, x) = s
  BY <1>1, <1>6, <1>10, OnePlace
<1>12. Family(t1, p, x, g, s, u)
  BY <1>1, <1>4, <1>8, <1>10, <1>11 DEF Family, IsRed, o
<1>13. ASSUME NEW m \in S PROVE HtOK(t1, h, m)
  <2>1. HtOK(t, h, p) /\ HtOK(t, h, x) /\ h[p] \in Nat /\ h[x] \in Nat
    BY <1>1, <1>3
  <2>2. Bit(t, p) = 0 /\ Bit(t, x) = 0 /\ Bit(t1, p) = 0 /\ Bit(t1, x) = 0
    BY <1>1, <1>8 DEF Bit
  <2>3. \A r \in Side : Ht(h, t.kid[r][p]) \in Nat /\ Ht(h, t.kid[r][x]) \in Nat
    <3> SUFFICES ASSUME NEW r \in Side PROVE Ht(h, t.kid[r][p]) \in Nat /\ Ht(h, t.kid[r][x]) \in Nat
      OBVIOUS
    <3>1. t.kid[r][p] \in Node \cup {NULL} /\ t.kid[r][x] \in Node \cup {NULL}
      BY <1>1, <1>3, KidSays
    <3> QED BY <1>3, <3>1 DEF Ht
  <2>4. \A r \in Side : h[p] = Ht(h, t.kid[r][p]) /\ h[x] = Ht(h, t.kid[r][x])
    BY <2>1, <2>2, <2>3 DEF HtOK
  <2>5. Ht(h, x) = h[x] /\ Ht(h, p) = h[p]
    BY <1>4 DEF Ht
  <2>6. h[p] = h[x] /\ Ht(h, mid) = h[x]
    BY <1>1, <1>2, <2>4, <2>5 DEF o, mid
  <2>7. CASE m = p
    <3>1. \A r \in Side : Ht(h, t1.kid[r][p]) = h[p]
      BY <1>1, <1>2, <1>8, <2>4, <2>6
    <3> QED BY <2>1, <2>2, <2>7, <3>1 DEF HtOK
  <2>8. CASE m = x
    <3>1. \A r \in Side : Ht(h, t1.kid[r][x]) = h[x]
      BY <1>1, <1>2, <1>8, <2>4, <2>5, <2>6
    <3> QED BY <2>1, <2>2, <2>8, <3>1 DEF HtOK
  <2>9. CASE m \notin {p, x}
    <3>1. HtOK(t, h, m) /\ \A y \in S \ {p, x} : h[y] = h[y]
      BY <1>3
    <3> QED BY <1>1, <1>3, <1>4, <1>5, <2>6, <2>9, <3>1, TurnedHeight
  <2> QED BY <2>7, <2>8, <2>9
<1>14. ASSUME NEW m \in S \ {p} PROVE RedOK(t1, m)
  <2>1. CASE m = x
    BY <1>1, <1>8, <1>9, <2>1 DEF RedOK, IsRed
  <2>2. CASE m = mid
    <3>1. RedOK(t, mid) /\ mid # NULL
      BY <1>1, <1>3, <1>7, <2>2, NodeFacts
    <3>2. mid \in t.black
      BY <1>1, <1>4, <1>7, <3>1 DEF RedOK, IsRed
    <3> QED BY <1>8, <2>2, <3>2 DEF RedOK, IsRed
  <2>3. CASE m \notin {x, mid}
    <3>1. RedOK(t, m) /\ t1.parent[m] = t.parent[m]
      BY <1>1, <1>3, <1>8, <1>14, <2>3
    <3> QED BY <1>8, <1>9, <3>1 DEF RedOK, IsRed
  <2> QED BY <2>1, <2>2, <2>3
<1>15. ASSUME NEW m \in Node \ S PROVE Clear(t1, m)
  <2>1. Clear(t, m)
    BY <1>3
  <2> QED BY <1>1, <1>3, <1>4, <1>5, <2>1, TurnedClear
<1>16. IsRed(t1, p) /\ ~IsRed(t1, u)
  BY <1>1, <1>4, <1>8 DEF IsRed
<1>17. InsertInv(t1, S, D1, h, p)
  BY <1>1, <1>3, <1>6, <1>13, <1>14, <1>15, <1>16 DEF InsertInv
<1> QED BY <1>8, <1>12, <1>16, <1>17 DEF t1

\* A red-black tree of S.
TreeInv(t, S, D, h) ==
    /\ Shape(t, S, D) /\ h \in [Node -> Nat]
    /\ \A m \in S : HtOK(t, h, m) /\ RedOK(t, m)
    /\ \A m \in Node \ S : Clear(t, m)

\* The states of the loop of rb_insert_color from which it has ended after k iterations.
Inserting(S, k) ==
    {c \in [t : Tree, node : Node] :
       \E D, h : /\ InsertInv(c.t, S, D, h, c.node)
                 /\ IsRed(c.t, c.t.parent[c.node]) => N - Cardinality(D[c.node]) <= k}

\* An iteration.
LEMMA RepairInsertSays ==
  ASSUME NEW S, NEW k \in Nat, NEW c \in Inserting(S, k)
  PROVE  RepairInsert(c) = c \/ (k > 0 /\ RepairInsert(c) \in Inserting(S, k - 1))
<1> DEFINE t == c.t
           x == c.node
           p == t.parent[x]
           g == t.parent[p]
           s == SideIn(t, g, p)
           u == t.kid[Other(s)][g]
           e == RepairInsert(c)
<1>1. t \in Tree /\ x \in Node /\ c = [t |-> t, node |-> x]
  BY DEF Inserting
<1>2. PICK D, h : /\ InsertInv(t, S, D, h, x)
                  /\ IsRed(t, p) => N - Cardinality(D[x]) <= k
  BY DEF Inserting
<1>3. ASSUME ~IsRed(t, p) PROVE e = c
  BY <1>3 DEF RepairInsert
<1>4. CASE IsRed(t, p)
  <2>1. e = TwoReds(t, x, p, g, s)
    BY <1>4 DEF RepairInsert
  <2>2. Family(t, x, p, g, s, u)
    BY <1>4 DEF Family
  <2> HIDE DEF t, x, p, g, s, u, e
  <2>3. /\ s \in Side /\ S \subseteq Node /\ D \in [Node -> SUBSET Node]
        /\ x \in S /\ p \in S /\ g \in S /\ D[x] \subseteq D[g] /\ D[x] # D[g]
        /\ \E r \in Side : t.kid[r][p] = x
    BY <1>2, <2>2, TwoRedsSays
  <2>4. /\ Cardinality(D[x]) \in Nat /\ Cardinality(D[g]) \in Nat
        /\ Cardinality(D[x]) < Cardinality(D[g]) /\ Cardinality(D[g]) <= N /\ N \in Nat
    <3>1. D[x] \in SUBSET Node /\ D[g] \in SUBSET Node
      BY <2>3
    <3> QED BY <2>3, <3>1, Larger, NodeFacts
  <2>5. k > 0 /\ k - 1 \in Nat /\ N - Cardinality(D[g]) <= k - 1
    BY <1>2, <1>4, <2>4
  <2>6. ASSUME NEW t2, NEW y, NEW D2, NEW h2, InsertInv(t2, S, D2, h2, y),
               IsRed(t2, t2.parent[y]) => N - Cardinality(D2[y]) <= k - 1,
               e = [t |-> t2, node |-> y]
        PROVE  e \in Inserting(S, k - 1)
    <3>1. t2 \in Tree /\ y \in Node
      BY <2>3, <2>6 DEF InsertInv, Shape
    <3>2. e \in [t : Tree, node : Node] /\ e.t = t2 /\ e.node = y
      BY <2>6, <3>1
    <3> QED BY <2>6, <3>2 DEF Inserting
  <2>7. ASSUME IsRed(t, u) PROVE e \in Inserting(S, k - 1)
    <3>1. PICK h2 : InsertInv(Recolored(t, {p, u}, {g}), S, D, h2, g)
      BY <1>2, <2>2, <2>7, RedUncle
    <3>2. e = [t |-> Recolored(t, {p, u}, {g}), node |-> g]
      BY <2>1, <2>7 DEF TwoReds, u
    <3> QED BY <2>5, <2>6, <3>1, <3>2
  <2>8. ASSUME ~IsRed(t, u) /\ t.kid[Other(s)][p] = x PROVE e \in Inserting(S, k - 1)
    <3> DEFINE t1 == rb_rotate(t, s, p)
               t2 == rb_rotate(Recolored(t1, {x}, {g}), Other(s), g)
    <3>1. /\ Family(t1, p, x, g, s, u) /\ ~IsRed(t1, u) /\ t1.kid[s][x] = p
          /\ \E D1 : InsertInv(t1, S, D1, h, p)
      BY <1>2, <2>2, <2>8, InnerRed
    <3>2. PICK D1 : InsertInv(t1, S, D1, h, p)
      BY <3>1
    <3>3. e = [t |-> t2, node |-> p]
      BY <2>1, <2>8 DEF TwoReds, u
    <3> HIDE DEF t1
    <3>4. ~IsRed(t2, t2.parent[p]) /\ \E D2, h2 : InsertInv(t2, S, D2, h2, p)
      BY <3>1, <3>2, OuterRed
    <3> HIDE DEF t2
    <3> QED BY <2>5, <2>6, <3>3, <3>4
  <2>9. ASSUME ~IsRed(t, u) /\ t.kid[Other(s)][p] # x PROVE e \in Inserting(S, k - 1)
    <3> DEFINE t2 == rb_rotate(Recolored(t, {p}, {g}), Other(s), g)
    <3>1. t.kid[s][p] = x
      BY <2>3, <2>9, BeforeFacts
    <3>2. e = [t |-> t2, node |-> x]
      BY <2>1, <2>9 DEF TwoReds, u
    <3>3. ~IsRed(t2, t2.parent[x]) /\ \E D2, h2 : InsertInv(t2, S, D2, h2, x)
      BY <1>2, <2>2, <2>9, <3>1, OuterRed
    <3> HIDE DEF t2
    <3> QED BY <2>5, <2>6, <3>2, <3>3
  <2>10. e \in Inserting(S, k - 1)
    BY <2>7, <2>8, <2>9
  <2> QED BY <2>5, <2>10 DEF e
<1> HIDE DEF t, x, p, g, s, u
<1> QED BY <1>3, <1>4

\* rb_insert_color leaves a red-black tree.
LEMMA InsertColorSays ==
  ASSUME NEW t, NEW S, NEW D, NEW h, NEW x, InsertInv(t, S, D, h, x)
  PROVE  \E D2, h2 : TreeInv(rb_insert_color(t, x), S, D2, h2)
<1> DEFINE Q == [k \in Nat |-> Inserting(S, k)]
           c == [t |-> t, node |-> x]
<1>1. t \in Tree /\ S \subseteq Node /\ x \in S /\ x \in Node /\ D \in [Node -> SUBSET Node]
  BY DEF InsertInv, Shape
<1>2. N \in Nat
  BY NodeFacts
<1>3. c \in Q[N]
  <2>1. c \in [t : Tree, node : Node] /\ c.t = t /\ c.node = x
    BY <1>1
  <2>2. Cardinality(D[x]) \in Nat
    BY <1>1, NodeFacts
  <2>3. N - Cardinality(D[x]) <= N
    BY <1>2, <2>2
  <2>4. c \in Inserting(S, N)
    BY <2>1, <2>3 DEF Inserting
  <2> QED BY <1>2, <2>4
<1>4. \A k \in Nat : \A y \in Q[k] : RepairInsert(y) = y \/ (k > 0 /\ RepairInsert(y) \in Q[k - 1])
  <2> SUFFICES ASSUME NEW k \in Nat, NEW y \in Q[k]
               PROVE  RepairInsert(y) = y \/ (k > 0 /\ RepairInsert(y) \in Q[k - 1])
    OBVIOUS
  <2>1. RepairInsert(y) = y \/ (k > 0 /\ RepairInsert(y) \in Inserting(S, k - 1))
    BY RepairInsertSays
  <2>2. k > 0 => Q[k - 1] = Inserting(S, k - 1)
    OBVIOUS
  <2> HIDE DEF Q
  <2>3. CASE RepairInsert(y) = y
    BY <2>3
  <2>4. CASE k > 0 /\ RepairInsert(y) \in Inserting(S, k - 1)
    BY <2>2, <2>4
  <2> QED BY <2>1, <2>3, <2>4
<1> HIDE DEF Q, c
<1>5. PICK y : /\ Loop(RepairInsert, c) = y /\ RepairInsert(y) = y
               /\ \E k \in 0..N : y \in Q[k]
  BY <1>2, <1>3, <1>4, InsertLoop
<1>6. PICK k \in Nat : y \in Inserting(S, k)
  BY <1>2, <1>5 DEF Q
<1>7. PICK D2, h2 : InsertInv(y.t, S, D2, h2, y.node)
  BY <1>6 DEF Inserting
<1> DEFINE t1 == y.t
           z == y.node
           t2 == RootBlack(t1)
           h3 == [h2 EXCEPT ![t1.root] = 1 + Ht(h2, t1.kid["rb_left"][t1.root])]
<1>8. rb_insert_color(t, x) = t2
  BY <1>5 DEF rb_insert_color, c
<1>9. ~IsRed(t1, t1.parent[z])
  <2>1. SUFFICES ASSUME IsRed(t1, t1.parent[z]) PROVE FALSE
    OBVIOUS
  <2> DEFINE p == t1.parent[z]
             g == t1.parent[p]
             s == SideIn(t1, g, p)
             u == t1.kid[Other(s)][g]
  <2>2. Family(t1, z, p, g, s, u)
    BY <2>1 DEF Family
  <2>3. y = TwoReds(t1, z, p, g, s)
    BY <1>5, <2>1 DEF RepairInsert
  <2> HIDE DEF p, g, s, u, t1, z
  <2>4. /\ z # g /\ z # p /\ p # g /\ z \notin t1.black /\ p \notin t1.black /\ g \in t1.black /\ g \in Node
        /\ t1 \in Tree /\ S \subseteq Node /\ g \in S /\ p \in S /\ z \in S
    BY <1>7, <2>2, TwoRedsSays DEF t1, z
  <2>5. CASE IsRed(t1, u)
    <3>1. y.node = g
      BY <2>3, <2>5 DEF TwoReds, u
    <3> QED BY <2>4, <3>1 DEF z
  <2>6. CASE ~IsRed(t1, u) /\ t1.kid[Other(s)][p] = z
    <3>1. y.node = p
      BY <2>3, <2>6 DEF TwoReds, u
    <3> QED BY <2>4, <3>1 DEF z
  <2>7. CASE ~IsRed(t1, u) /\ t1.kid[Other(s)][p] # z
    <3> DEFINE t3 == rb_rotate(Recolored(t1, {p}, {g}), Other(s), g)
    <3>1. y.t = t3
      BY <2>3, <2>7 DEF TwoReds, u
    <3>2. \E r \in Side : t1.kid[r][p] = z
      BY <1>7, <2>2, TwoRedsSays DEF t1, z
    <3>3. t1.kid[s][p] = z
      BY <2>7, <3>2, BeforeFacts, SideInSide DEF s
    <3>4. ~IsRed(t3, t3.parent[z])
      BY <1>7, <2>2, <2>7, <3>3, OuterRed DEF t1, z
    <3> QED BY <2>1, <3>1, <3>4 DEF t1
  <2> QED BY <2>5, <2>6, <2>7
<1>10. TreeInv(t2, S, D2, h3)
  <2> HIDE DEF t1, z
  <2>1. /\ Shape(t1, S, D2) /\ h2 \in [Node -> Nat] /\ z \in S /\ IsRed(t1, z)
        /\ \A m \in S : HtOK(t1, h2, m)
        /\ \A m \in S \ {z} : RedOK(t1, m)
        /\ \A m \in Node \ S : Clear(t1, m)
    BY <1>7 DEF InsertInv, t1, z
  <2> DEFINE r == t1.root
  <2>2. r \in S /\ r \in Node /\ t1.parent[r] = NULL /\ t1 \in Tree /\ S \subseteq Node /\ r # NULL
    BY <2>1, NodeFacts DEF Shape, RootOK
  <2>3. /\ t2 \in Tree /\ t2.kid = t1.kid /\ t2.parent = t1.parent /\ t2.root = t1.root
        /\ t2.black = t1.black \cup {r}
    <3>1. {r} \subseteq Node
      BY <2>2
    <3>2. t2 = Recolored(t1, {r}, {})
      BY DEF RootBlack
    <3> HIDE DEF t2, r
    <3> QED BY <2>2, <3>1, <3>2, RecoloredSays DEF r
  <2>4. Shape(t2, S, D2)
    BY <2>1, <2>3, SameShape
  <2>5. "rb_left" \in Side
    BY DEF Side
  <2>6. t1.kid["rb_left"][r] \in Node \cup {NULL}
    BY <2>1, <2>2, <2>5, KidSays
  <2>7. /\ h3 \in [Node -> Nat] /\ \A m \in Node \ {r} : h3[m] = h2[m]
        /\ h3[r] = 1 + Ht(h2, t1.kid["rb_left"][r])
    <3>1. 1 + Ht(h2, t1.kid["rb_left"][r]) \in Nat
      BY <2>1, <2>6 DEF Ht
    <3> QED BY <2>1, <2>2, <3>1
  <2> HIDE DEF r, t2, h3
  <2>8. ASSUME NEW m \in S PROVE HtOK(t2, h3, m)
    <3> SUFFICES ASSUME NEW b \in Side PROVE h3[m] = Ht(h3, t1.kid[b][m]) + Bit(t2, m)
      BY <2>3 DEF HtOK
    <3>1. t1.kid[b][m] \in Node \cup {NULL} /\ (t1.kid[b][m] # NULL => t1.kid[b][m] # r)
      BY <2>1, KidSays DEF r
    <3>2. Ht(h3, t1.kid[b][m]) = Ht(h2, t1.kid[b][m])
      BY <2>7, <3>1 DEF Ht
    <3>3. h2[m] = Ht(h2, t1.kid[b][m]) + Bit(t1, m)
      BY <2>1 DEF HtOK
    <3>4. CASE m # r
      <4>1. Bit(t2, m) = Bit(t1, m) /\ h3[m] = h2[m]
        BY <2>2, <2>3, <2>7, <3>4 DEF Bit
      <4> QED BY <3>2, <3>3, <4>1
    <3>5. CASE m = r
      <4>1. h2[m] = Ht(h2, t1.kid["rb_left"][m]) + Bit(t1, m)
        BY <2>1, <2>5 DEF HtOK
      <4>2. Ht(h2, t1.kid["rb_left"][m]) \in Nat /\ Ht(h2, t1.kid[b][m]) \in Nat /\ Bit(t1, m) \in Nat
        BY <2>1, <2>6, <3>1, <3>5 DEF Ht, Bit
      <4>3. Ht(h2, t1.kid["rb_left"][m]) = Ht(h2, t1.kid[b][m])
        <5>1. \A i, j, l \in Nat : i + l = j + l => i = j
          OBVIOUS
        <5>2. Ht(h2, t1.kid["rb_left"][m]) + Bit(t1, m) = Ht(h2, t1.kid[b][m]) + Bit(t1, m)
          BY <3>3, <4>1
        <5> QED BY <4>2, <5>1, <5>2
      <4>4. Bit(t2, m) = 1
        BY <2>3, <3>5 DEF Bit
      <4> QED BY <2>7, <3>2, <3>5, <4>2, <4>3, <4>4
    <3> QED BY <3>4, <3>5
  <2>9. ASSUME NEW m \in S PROVE RedOK(t2, m)
    <3>1. CASE m = r
      BY <2>3, <3>1 DEF RedOK, IsRed
    <3>2. CASE m # r /\ m # z
      BY <2>1, <2>3, <3>2 DEF RedOK, IsRed, r
    <3>3. CASE m # r /\ m = z
      BY <1>9, <2>3, <3>3 DEF RedOK, IsRed, r, z, t1
    <3> QED BY <3>1, <3>2, <3>3
  <2>10. ASSUME NEW m \in Node \ S PROVE Clear(t2, m)
    BY <2>1, <2>2, <2>3 DEF Clear
  <2> QED BY <2>4, <2>7, <2>8, <2>9, <2>10 DEF TreeInv
<1> QED BY <1>8, <1>10
-----------------------------------------------------------------------------
(* A new node. *)

\* The place for k is on side s of p.
Place(t, S, D, k, p, s) ==
    \/ p = NULL /\ S = {}
    \/ /\ p \in S /\ t.kid[s][p] = NULL /\ Before(s, k, p)
       /\ \A m \in S, r \in Side : p \in Sub(D, t.kid[r][m]) => Before(r, k, m)

\* The assignments of rb_link_node.
LEMMA LinkFields ==
  ASSUME NEW t \in Tree, NEW k \in Node, NEW p \in Node \cup {NULL}, NEW s \in Side, p # k
  PROVE  LET v == rb_link_node(t, k, p, s)
         IN  /\ v \in Tree /\ v.black = t.black \ {k}
             /\ v.root = IF p = NULL THEN k ELSE t.root
             /\ \A x \in Node : v.parent[x] = IF x = k THEN p ELSE t.parent[x]
             /\ \A r \in Side, x \in Node :
                  v.kid[r][x] = IF x = k THEN NULL
                                ELSE IF p # NULL /\ x = p /\ r = s THEN k ELSE t.kid[r][x]
<1> DEFINE u == [t EXCEPT !.parent[k] = p, !.black = @ \ {k},
                          !.kid = [side \in Side |-> [@[side] EXCEPT ![k] = NULL]]]
           v == rb_link_node(t, k, p, s)
<1>1. /\ u \in Tree /\ u.black = t.black \ {k} /\ u.root = t.root
      /\ \A x \in Node : u.parent[x] = IF x = k THEN p ELSE t.parent[x]
      /\ \A r \in Side, x \in Node : u.kid[r][x] = IF x = k THEN NULL ELSE t.kid[r][x]
  BY DEF Tree
<1>2. v = IF p = NULL THEN [u EXCEPT !.root = k] ELSE [u EXCEPT !.kid[s][p] = k]
  BY DEF rb_link_node
<1> HIDE DEF u, v
<1>3. CASE p = NULL
  <2>1. v = [u EXCEPT !.root = k]
    BY <1>2, <1>3
  <2>2. v \in Tree /\ v.black = u.black /\ v.root = k /\ v.parent = u.parent /\ v.kid = u.kid
    BY <1>1, <2>1 DEF Tree
  <2> QED BY <1>1, <1>3, <2>2 DEF v
<1>4. CASE p # NULL
  <2>1. v = [u EXCEPT !.kid[s][p] = k]
    BY <1>2, <1>4
  <2>2. v \in Tree /\ v.black = u.black /\ v.root = u.root /\ v.parent = u.parent
    BY <1>1, <1>4, <2>1 DEF Tree
  <2>3. \A r \in Side, x \in Node : v.kid[r][x] = IF x = p /\ r = s THEN k ELSE u.kid[r][x]
    BY <1>1, <1>4, <2>1 DEF Tree
  <2> QED BY <1>1, <1>4, <2>2, <2>3 DEF v
<1> QED BY <1>3, <1>4

\* rb_link_node puts a red node into its place.
LEMMA LinkSays ==
  ASSUME NEW t, NEW S, NEW D, NEW h, TreeInv(t, S, D, h), NEW k \in Node \ S,
         NEW p, NEW s \in Side, Place(t, S, D, k, p, s)
  PROVE  \E D2, h2 : InsertInv(rb_link_node(t, k, p, s), S \cup {k}, D2, h2, k)
<1> DEFINE v == rb_link_node(t, k, p, s)
           S2 == S \cup {k}
           D2 == [m \in Node |-> IF m = k THEN {k} ELSE IF p \in D[m] THEN D[m] \cup {k} ELSE D[m]]
           h2 == [h EXCEPT ![k] = 0]
<1>1. /\ Shape(t, S, D) /\ h \in [Node -> Nat] /\ t \in Tree /\ S \subseteq Node
      /\ D \in [Node -> SUBSET Node] /\ RootOK(t, S, D)
      /\ \A m \in S : HtOK(t, h, m) /\ RedOK(t, m)
      /\ \A m \in Node \ S : Clear(t, m)
  BY DEF TreeInv, Shape
<1>2. /\ p \in S \cup {NULL} /\ k # NULL /\ p # k /\ (p = NULL => S = {})
      /\ p # NULL => /\ p \in S /\ t.kid[s][p] = NULL /\ Before(s, k, p)
                     /\ \A m \in S, r \in Side : p \in Sub(D, t.kid[r][m]) => Before(r, k, m)
  BY <1>1, NodeFacts DEF Place
<1>3. /\ v \in Tree /\ v.black = t.black \ {k}
      /\ v.root = IF p = NULL THEN k ELSE t.root
      /\ \A x \in Node : v.parent[x] = IF x = k THEN p ELSE t.parent[x]
      /\ \A r \in Side, x \in Node :
           v.kid[r][x] = IF x = k THEN NULL
                         ELSE IF p # NULL /\ x = p /\ r = s THEN k ELSE t.kid[r][x]
  <2>1. p \in Node \cup {NULL} /\ k \in Node /\ t \in Tree /\ p # k
    BY <1>1, <1>2
  <2> QED BY ONLY <2>1, s \in Side, LinkFields
<1>4. /\ D2 \in [Node -> SUBSET Node] /\ D2[k] = {k}
      /\ \A m \in S : D2[m] = IF p \in D[m] THEN D[m] \cup {k} ELSE D[m]
  BY <1>1
<1>5. h2 \in [Node -> Nat] /\ h2[k] = 0 /\ \A m \in S : h2[m] = h[m]
  BY <1>1
<1>6. Clear(t, k)
  BY <1>1
<1> HIDE DEF v, D2, h2
<1>7. ASSUME NEW m \in S, NEW r \in Side
      PROVE  /\ t.kid[r][m] \in S \cup {NULL} /\ p # NULL
             /\ v.kid[r][m] = IF m = p /\ r = s THEN k ELSE t.kid[r][m]
             /\ Sub(D2, v.kid[r][m]) = IF (m = p /\ r = s) \/ p \in Sub(D, t.kid[r][m])
                                         THEN Sub(D, t.kid[r][m]) \cup {k} ELSE Sub(D, t.kid[r][m])
  <2>1. t.kid[r][m] \in S \cup {NULL} /\ p # NULL
    BY <1>1, <1>2, KidSays
  <2>2. v.kid[r][m] = IF m = p /\ r = s THEN k ELSE t.kid[r][m]
    BY <1>1, <1>3, <2>1
  <2>3. CASE m = p /\ r = s
    <3>1. v.kid[r][m] = k /\ t.kid[r][m] = NULL
      BY <1>2, <2>1, <2>2, <2>3
    <3>2. Sub(D2, k) = {k} /\ Sub(D, NULL) = {}
      BY <1>2, <1>4 DEF Sub
    <3> QED BY <2>1, <2>2, <2>3, <3>1, <3>2
  <2>4. CASE ~(m = p /\ r = s)
    <3>1. v.kid[r][m] = t.kid[r][m]
      BY <2>2, <2>4
    <3>2. CASE t.kid[r][m] = NULL
      <4>1. Sub(D2, NULL) = {} /\ Sub(D, NULL) = {}
        BY DEF Sub
      <4> QED BY <2>1, <2>2, <2>4, <3>1, <3>2, <4>1
    <3>3. CASE t.kid[r][m] # NULL
      <4>1. t.kid[r][m] \in S
        BY <2>1, <3>3
      <4>2. Sub(D2, t.kid[r][m]) = D2[t.kid[r][m]] /\ Sub(D, t.kid[r][m]) = D[t.kid[r][m]]
        BY <3>3 DEF Sub
      <4>3. D2[t.kid[r][m]] = IF p \in D[t.kid[r][m]] THEN D[t.kid[r][m]] \cup {k} ELSE D[t.kid[r][m]]
        BY <1>4, <4>1
      <4> QED BY <2>1, <2>2, <2>4, <3>1, <4>2, <4>3
    <3> QED BY <3>2, <3>3
  <2> QED BY <2>1, <2>2, <2>3, <2>4
<1>8. Shape(v, S2, D2)
  <2>1. RootOK(v, S2, D2)
    <3>1. CASE p = NULL
      BY <1>2, <1>3, <1>4, <3>1 DEF RootOK
    <3>2. CASE p # NULL
      <4>1. t.root \in S /\ t.parent[t.root] = NULL /\ D[t.root] = S /\ t.root # k
        BY <1>1, <1>2, <3>2 DEF RootOK
      <4>2. D2[t.root] = S \cup {k}
        BY <1>2, <1>4, <3>2, <4>1
      <4> QED BY <1>1, <1>3, <3>2, <4>1, <4>2 DEF RootOK
    <3> QED BY <3>1, <3>2
  <2>2. /\ D2[k] \subseteq S2 /\ KidsOK(v, S2, k) /\ SubOK(v, D2, k) /\ SortedAt(v, D2, k)
    <3>1. \A r \in Side : v.kid[r][k] = NULL
      BY <1>3
    <3>2. \A r \in Side : Sub(D2, v.kid[r][k]) = {}
      BY <3>1 DEF Sub
    <3>3. \A r \in Side : Other(r) \in Side
      BY BeforeFacts
    <3>4. SubOK(v, D2, k)
      BY <1>4, <3>2, <3>3 DEF SubOK
    <3> QED BY <1>4, <3>1, <3>2, <3>4 DEF KidsOK, SortedAt
  <2>3. ParentOK(v, S2, k)
    <3>1. CASE p = NULL
      BY <1>3, <3>1 DEF ParentOK
    <3>2. CASE p # NULL
      BY <1>1, <1>2, <1>3, <3>2 DEF ParentOK
    <3> QED BY <3>1, <3>2
  <2>4. ASSUME NEW m \in S
        PROVE  /\ D2[m] \subseteq S2 /\ KidsOK(v, S2, m) /\ ParentOK(v, S2, m)
               /\ SubOK(v, D2, m) /\ SortedAt(v, D2, m)
    <3>1. m \in Node /\ m # k /\ D[m] \subseteq S /\ m \in D[m] /\ v.parent[m] = t.parent[m]
      BY <1>1, <1>3, NodeSays
    <3>2. D2[m] \subseteq S2
      BY <1>4, <3>1
    <3>3. KidsOK(v, S2, m)
      <4> SUFFICES ASSUME NEW r \in Side, v.kid[r][m] # NULL
                   PROVE  v.kid[r][m] \in S2 /\ v.parent[v.kid[r][m]] = m
        BY DEF KidsOK
      <4>1. v.kid[r][m] = IF m = p /\ r = s THEN k ELSE t.kid[r][m]
        BY <1>7
      <4>2. CASE m = p /\ r = s
        BY <1>3, <4>1, <4>2
      <4>3. CASE ~(m = p /\ r = s)
        <5>1. t.kid[r][m] \in S /\ t.parent[t.kid[r][m]] = m
          BY <1>1, <4>1, <4>3, KidSays
        <5> QED BY <1>1, <1>3, <4>1, <4>3, <5>1
      <4> QED BY <4>2, <4>3
    <3>4. ParentOK(v, S2, m)
      <4> SUFFICES ASSUME m # v.root
                   PROVE  t.parent[m] \in S /\ \E r \in Side : v.kid[r][t.parent[m]] = m
        BY <3>1 DEF ParentOK
      <4>1. p # NULL
        BY <1>2
      <4>2. m # t.root
        BY <1>3, <4>1
      <4>3. t.parent[m] \in S
        BY <1>1, <4>2, NodeSays
      <4>4. PICK r \in Side : t.kid[r][t.parent[m]] = m
        BY <1>1, <4>2, OnePlace
      <4>5. ~(t.parent[m] = p /\ r = s)
        BY <1>1, <1>2, <4>1, <4>4, NodeSays
      <4>6. v.kid[r][t.parent[m]] = m
        BY <1>7, <4>3, <4>4, <4>5
      <4> QED BY <4>3, <4>6
    <3>5. ASSUME NEW r \in Side
          PROVE  D2[m] = {m} \cup Sub(D2, v.kid[r][m]) \cup Sub(D2, v.kid[Other(r)][m])
      <4> DEFINE A == Sub(D, t.kid[r][m])
                 B == Sub(D, t.kid[Other(r)][m])
                 A2 == Sub(D2, v.kid[r][m])
                 B2 == Sub(D2, v.kid[Other(r)][m])
      <4>1. D[m] = {m} \cup A \cup B
        BY <1>1, KidSays
      <4>2. Other(r) \in Side /\ (s = r \/ s = Other(r))
        BY BeforeFacts
      <4>3. A2 = IF (m = p /\ r = s) \/ p \in A THEN A \cup {k} ELSE A
        BY <1>7
      <4>4. B2 = IF (m = p /\ Other(r) = s) \/ p \in B THEN B \cup {k} ELSE B
        BY <1>7, <4>2
      <4>5. D2[m] = IF p \in D[m] THEN D[m] \cup {k} ELSE D[m]
        BY <1>4
      <4> HIDE DEF A, B, A2, B2
      <4>6. D2[m] = {m} \cup A2 \cup B2
        BY <4>1, <4>2, <4>3, <4>4, <4>5
      <4> QED BY <4>6 DEF A2, B2
    <3>6. SubOK(v, D2, m)
      BY <3>5 DEF SubOK
    <3>7. SortedAt(v, D2, m)
      <4> SUFFICES ASSUME NEW r \in Side, NEW x \in Sub(D2, v.kid[r][m]) PROVE Before(r, x, m)
        BY DEF SortedAt
      <4>1. \A y \in Sub(D, t.kid[r][m]) : Before(r, y, m)
        BY <1>1, KidSays
      <4>2. Sub(D2, v.kid[r][m]) = IF (m = p /\ r = s) \/ p \in Sub(D, t.kid[r][m])
                                     THEN Sub(D, t.kid[r][m]) \cup {k} ELSE Sub(D, t.kid[r][m])
        BY <1>7
      <4>3. CASE x \in Sub(D, t.kid[r][m])
        BY <4>1, <4>3
      <4>4. CASE x \notin Sub(D, t.kid[r][m])
        <5>1. x = k /\ ((m = p /\ r = s) \/ p \in Sub(D, t.kid[r][m]))
          BY <4>2, <4>4
        <5> QED BY <1>2, <1>7, <5>1
      <4> QED BY <4>3, <4>4
    <3> QED BY <3>2, <3>3, <3>4, <3>6, <3>7
  <2> QED BY <1>1, <1>3, <1>4, <2>1, <2>2, <2>3, <2>4 DEF Shape
<1>9. ASSUME NEW m \in S2 PROVE HtOK(v, h2, m)
  <2> SUFFICES ASSUME NEW r \in Side PROVE h2[m] = Ht(h2, v.kid[r][m]) + Bit(v, m)
    BY DEF HtOK
  <2>1. CASE m = k
    <3>1. v.kid[r][m] = NULL /\ m \notin v.black
      BY <1>3, <2>1
    <3> QED BY <1>5, <2>1, <3>1 DEF Ht, Bit
  <2>2. CASE m # k
    <3>1. m \in S
      BY <2>2
    <3>2. h[m] = Ht(h, t.kid[r][m]) + Bit(t, m) /\ h2[m] = h[m]
      BY <1>1, <1>5, <3>1 DEF HtOK
    <3>3. Bit(v, m) = Bit(t, m)
      BY <1>3, <2>2 DEF Bit
    <3>4. Ht(h2, v.kid[r][m]) = Ht(h, t.kid[r][m])
      <4>1. v.kid[r][m] = (IF m = p /\ r = s THEN k ELSE t.kid[r][m]) /\ t.kid[r][m] \in S \cup {NULL}
        BY <1>7, <3>1
      <4>2. CASE m = p /\ r = s
        BY <1>2, <1>5, <3>1, <4>1, <4>2, NodeFacts, <1>1 DEF Ht
      <4>3. CASE ~(m = p /\ r = s)
        BY <1>5, <4>1, <4>3 DEF Ht
      <4> QED BY <4>2, <4>3
    <3> QED BY <3>2, <3>3, <3>4
  <2> QED BY <2>1, <2>2
<1>10. ASSUME NEW m \in S2 \ {k} PROVE RedOK(v, m)
  <2>1. m \in S /\ m \in Node /\ p # NULL
    BY <1>1, <1>2
  <2>2. RedOK(t, m) /\ v.parent[m] = t.parent[m] /\ v.root = t.root
    BY <1>1, <1>3, <2>1, <1>10
  <2>3. m # t.root => t.parent[m] # k
    BY <1>1, <2>1, NodeSays, <1>2
  <2> QED BY <1>3, <2>1, <2>2, <2>3, <1>10 DEF RedOK, IsRed
<1>11. ASSUME NEW m \in Node \ S2 PROVE Clear(v, m)
  <2>1. Clear(t, m) /\ m # k /\ m # p
    BY <1>1, <1>2, NodeFacts
  <2> QED BY <1>3, <2>1 DEF Clear
<1>12. IsRed(v, k)
  BY <1>2, <1>3 DEF IsRed
<1>13. InsertInv(v, S2, D2, h2, k)
  BY <1>5, <1>8, <1>9, <1>10, <1>11, <1>12 DEF InsertInv
<1> QED BY <1>13 DEF v
-----------------------------------------------------------------------------
(* Removal: the loop of __rb_erase_color. *)

\* The red child up of a black node n, on the other side of s; its brother is not red.
RedChild(t, S, D, h, s, n, up) ==
    /\ Shape(t, S, D) /\ h \in [Node -> Nat] /\ s \in Side /\ n \in S
    /\ up = t.kid[Other(s)][n] /\ IsRed(t, up) /\ n \in t.black /\ ~IsRed(t, t.kid[s][n])
    /\ HtOK(t, h, up) /\ h[n] = h[up] + 1
    /\ \A m \in S : RedOK(t, m)

\* They have changed places and colors.
Swapped(t, t2, S, h, h2, s, n, up) ==
    /\ t2 \in Tree /\ t2.black = (t.black \cup {up}) \ {n} /\ up \in S /\ up # n /\ up # t.root
    /\ t2.kid[s][n] = t.kid[s][n] /\ t2.kid[Other(s)][n] = t.kid[s][up]
    /\ t2.kid[s][up] = n /\ t2.kid[Other(s)][up] = t.kid[Other(s)][up]
    /\ \A m \in S \ {n, up}, r \in Side :
         t2.kid[r][m] = IF t.kid[r][m] = n THEN up ELSE t.kid[r][m]
    /\ ~IsRed(t, t.kid[s][up]) /\ t.kid[s][up] # n
    /\ h2 \in [Node -> Nat] /\ h2[n] = h[up] /\ h2[up] = h[n]
    /\ \A m \in Node \ {n, up} : h2[m] = h[m]
    /\ Ht(h2, t.kid[s][up]) = h[up] /\ Ht(h, t.kid[s][up]) = h[up]
    /\ \A m \in S \ {n} : HtOK(t, h, m) => HtOK(t2, h2, m)
    /\ \A m \in S : RedOK(t2, m)
    /\ \A m \in Node \ S : Clear(t, m) => Clear(t2, m)

\* The red child takes the place and the color of its parent.
LEMMA RedChildUp ==
  ASSUME NEW t, NEW S, NEW D, NEW h, NEW s, NEW n, NEW up, RedChild(t, S, D, h, s, n, up)
  PROVE  LET t2 == rb_rotate(Recolored(t, {up}, {n}), s, n)
         IN  \E D2, h2 : Shape(t2, S, D2) /\ Swapped(t, t2, S, h, h2, s, n, up)
<1> DEFINE t1 == Recolored(t, {up}, {n})
           o == Other(s)
           t2 == rb_rotate(t1, s, n)
           mid == t.kid[s][up]
           b == t.kid[o][up]
           a == t.kid[s][n]
           D2 == TurnedSub(t1, D, s, n, up)
           h2 == [h EXCEPT ![up] = h[n], ![n] = h[up]]
<1>1. /\ Shape(t, S, D) /\ h \in [Node -> Nat] /\ s \in Side /\ n \in S
      /\ t \in Tree /\ S \subseteq Node /\ n \in Node
      /\ t.kid[o][n] = up /\ IsRed(t, up) /\ n \in t.black /\ ~IsRed(t, a)
      /\ HtOK(t, h, up) /\ h[n] = h[up] + 1
      /\ \A m \in S : RedOK(t, m)
  BY DEF RedChild, Shape
<1>2. o \in Side /\ Other(o) = s /\ o # s /\ \A r \in Side : r = s \/ r = o
  BY <1>1, BeforeFacts
<1>3. /\ up # NULL /\ up \notin t.black /\ up \in S /\ up \in Node /\ up # n /\ t.parent[up] = n
      /\ up # t.root /\ up \in D[n] /\ n # NULL
  <2>1. up # NULL /\ up \notin t.black
    BY <1>1 DEF IsRed
  <2>2. t.kid[o][n] # NULL
    BY <1>1, <2>1
  <2>3. /\ t.kid[o][n] \in S /\ t.kid[o][n] \in Node /\ t.kid[o][n] # n
        /\ t.parent[t.kid[o][n]] = n /\ t.kid[o][n] # t.root /\ t.kid[o][n] \in D[n]
    BY <1>1, <1>2, <2>2, KidSays
  <2> QED BY <1>1, <2>1, <2>3, NodeFacts
<1>4. /\ t1 \in Tree /\ t1.kid = t.kid /\ t1.parent = t.parent /\ t1.root = t.root
      /\ t1.black = (t.black \cup {up}) \ {n}
  <2>1. {up} \subseteq Node
    BY <1>3
  <2> QED BY <1>1, <2>1, RecoloredSays
<1> HIDE DEF t1
<1>5. Shape(t1, S, D)
  BY <1>1, <1>4, SameShape
<1>6. up = t1.kid[Other(s)][n]
  BY <1>1, <1>4
<1>7. Turned(t1, t2, S, s, n, up)
  <2>1. Turned(t1, rb_rotate(t1, s, n), S, s, n, t1.kid[Other(s)][n])
    BY <1>1, <1>3, <1>5, <1>6, RotateSays
  <2> QED BY <1>6, <2>1
<1> HIDE DEF t2
<1>8. Shape(t2, S, D2)
  BY <1>1, <1>3, <1>5, <1>6, <1>7, TurnedShape
<1>9. /\ t2 \in Tree /\ t2.black = (t.black \cup {up}) \ {n}
      /\ t2.root = IF n = t.root THEN up ELSE t.root
      /\ t2.kid[s][n] = a /\ t2.kid[o][n] = mid
      /\ t2.kid[s][up] = n /\ t2.kid[o][up] = b
      /\ \A m \in S \ {n, up}, r \in Side :
           t2.kid[r][m] = IF t.kid[r][m] = n THEN up ELSE t.kid[r][m]
      /\ t2.parent[up] = t.parent[n] /\ t2.parent[n] = up
      /\ mid # NULL => t2.parent[mid] = n
      /\ \A m \in Node \ {n, up, mid} : t2.parent[m] = t.parent[m]
  <2> HIDE DEF mid, o, D2, h2, a, b
  <2>1. t1.kid[s][n] = a /\ t1.kid[o][n] = up /\ t1.kid[s][up] = mid /\ t1.kid[o][up] = b
    BY <1>1, <1>4 DEF o, mid, a, b
  <2> QED BY <1>4, <1>7, <2>1 DEF Turned, o
<1>10. mid \in S \cup {NULL} /\ mid # up /\ (mid # NULL => t.parent[mid] = up /\ mid # t.root)
  BY <1>1, <1>3, KidSays
<1>11. b \in S \cup {NULL} /\ b # up
  BY <1>1, <1>2, <1>3, KidSays
<1>12. mid # n /\ b # n
  <2>1. n \notin D[up]
    BY <1>1, <1>3, DownSays
  <2>2. mid # NULL => mid \in D[up]
    BY <1>1, <1>3, KidSays
  <2>3. b # NULL => b \in D[up]
    BY <1>1, <1>2, <1>3, KidSays
  <2> QED BY <1>3, <2>1, <2>2, <2>3
<1>13. mid # NULL => mid \in t.black
  <2>1. mid # NULL => RedOK(t, mid)
    BY <1>1, <1>10
  <2> QED BY <1>1, <1>10, <2>1, NodeFacts DEF RedOK, IsRed
<1>14. /\ h2 \in [Node -> Nat] /\ h2[up] = h[n] /\ h2[n] = h[up]
       /\ \A m \in Node \ {n, up} : h2[m] = h[m]
  BY <1>1, <1>3
<1> HIDE DEF h2, D2, mid, o, a, b
<1>15. h[up] \in Nat /\ Ht(h, mid) = h[up] /\ Ht(h, b) = h[up]
  <2>1. h[up] \in Nat /\ Ht(h, mid) \in Nat /\ Ht(h, b) \in Nat
    BY <1>1, <1>3, <1>10, <1>11 DEF Ht
  <2>2. Bit(t, up) = 0
    BY <1>3 DEF Bit
  <2>3. h[up] = Ht(h, mid) + Bit(t, up) /\ h[up] = Ht(h, b) + Bit(t, up)
    BY <1>1, <1>2 DEF HtOK, mid, b
  <2> QED BY <2>1, <2>2, <2>3
<1>16. Ht(h2, mid) = h[up] /\ Ht(h2, b) = h[up] /\ Ht(h2, n) = h[up]
  BY <1>1, <1>3, <1>10, <1>11, <1>12, <1>14, <1>15 DEF Ht
<1>17. ASSUME NEW m \in S \ {n}, HtOK(t, h, m) PROVE HtOK(t2, h2, m)
  <2>1. CASE m = up
    <3>1. Bit(t2, up) = 1
      BY <1>3, <1>9 DEF Bit
    <3>2. \A r \in Side : Ht(h2, t2.kid[r][up]) = h[up]
      BY <1>2, <1>9, <1>16
    <3> QED BY <1>1, <1>14, <2>1, <3>1, <3>2 DEF HtOK
  <2>2. CASE m # up
    <3>1. HtOK(t1, h, m)
      <4>1. Bit(t1, m) = Bit(t, m)
        BY <1>4, <2>2, <1>17 DEF Bit
      <4> QED BY <1>4, <4>1, <1>17 DEF HtOK
    <3>2. \A y \in S \ {n, up} : h2[y] = h[y]
      BY <1>1, <1>14
    <3> QED BY <1>1, <1>3, <1>5, <1>6, <1>7, <1>14, <2>2, <3>1, <3>2, TurnedHeight
  <2> QED BY <2>1, <2>2
<1>18. ASSUME NEW m \in S PROVE RedOK(t2, m)
  <2> SUFFICES ASSUME m \notin t2.black PROVE m # t2.root /\ ~IsRed(t2, t2.parent[m])
    BY <1>1, NodeFacts DEF RedOK, IsRed
  <2>1. m # up
    BY <1>3, <1>9
  <2>2. CASE m = n
    BY <1>3, <1>9, <2>2 DEF IsRed
  <2>3. CASE m # n
    <3>1. m \notin t.black /\ m # NULL
      BY <1>1, <1>9, <2>3, NodeFacts
    <3>2. RedOK(t, m)
      BY <1>1
    <3>3. m # t.root /\ ~IsRed(t, t.parent[m])
      BY <3>1, <3>2 DEF RedOK, IsRed
    <3>4. m # mid
      BY <1>13, <3>1
    <3>5. t2.parent[m] = t.parent[m]
      BY <1>1, <1>9, <2>1, <2>3, <3>4
    <3>6. t.parent[m] # n
      <4>1. ASSUME t.parent[m] = n PROVE FALSE
        <5>1. PICK r \in Side : t.kid[r][n] = m
          BY <1>1, <3>3, <4>1, OnePlace, SideInSide
        <5>2. m = a
          BY <1>1, <1>2, <2>1, <5>1 DEF o, a
        <5> QED BY <1>1, <3>1, <5>2 DEF IsRed
      <4> QED BY <4>1
    <3> QED BY <1>9, <2>1, <3>3, <3>5, <3>6 DEF IsRed
  <2> QED BY <2>2, <2>3
<1>19. ASSUME NEW m \in Node \ S, Clear(t, m) PROVE Clear(t2, m)
  <2>1. Clear(t1, m)
    BY <1>3, <1>4, <1>19 DEF Clear
  <2> QED BY <1>1, <1>3, <1>5, <1>6, <1>7, <2>1, TurnedClear
<1>20. ~IsRed(t, mid)
  BY <1>13 DEF IsRed
<1>21. Swapped(t, t2, S, h, h2, s, n, up)
  <2>1. t2.kid[s][n] = t.kid[s][n] /\ t2.kid[Other(s)][n] = t.kid[s][up]
        /\ t2.kid[s][up] = n /\ t2.kid[Other(s)][up] = t.kid[Other(s)][up]
    BY <1>9 DEF o, a, b, mid
  <2>2. Ht(h2, t.kid[s][up]) = h[up] /\ Ht(h, t.kid[s][up]) = h[up]
        /\ ~IsRed(t, t.kid[s][up]) /\ t.kid[s][up] # n
    BY <1>12, <1>15, <1>16, <1>20 DEF mid
  <2> QED BY <1>3, <1>9, <1>14, <1>17, <1>18, <1>19, <2>1, <2>2 DEF Swapped
<1> QED BY <1>8, <1>21 DEF t2, t1

\* The subtree x, on side s of p, lacks a black node; g is the node that is removed.
Lacking(t, S, D, h, g, x, p, s) ==
    /\ Shape(t, S, D) /\ h \in [Node -> Nat] /\ s \in Side /\ p \in S
    /\ t.kid[s][p] = x /\ ~IsRed(t, x)
    /\ \A m \in S \ {p} : HtOK(t, h, m)
    /\ h[p] = Ht(h, t.kid[Other(s)][p]) + Bit(t, p)
    /\ Ht(h, t.kid[Other(s)][p]) = Ht(h, x) + 1
    /\ \A m \in S : RedOK(t, m)
    /\ \A m \in Node \ (S \cup {g}) : Clear(t, m)

\* The sibling of x.
LEMMA SiblingSays ==
  ASSUME NEW t, NEW S, NEW D, NEW h, NEW g, NEW x, NEW p, NEW s, Lacking(t, S, D, h, g, x, p, s)
  PROVE  LET w == t.kid[Other(s)][p]
         IN  /\ t \in Tree /\ S \subseteq Node /\ D \in [Node -> SUBSET Node] /\ p \in Node
             /\ p # NULL /\ Other(s) \in Side
             /\ w # NULL /\ w \in S /\ w \in Node /\ w # p /\ w # x /\ w # t.root /\ t.parent[w] = p
             /\ x \in S \cup {NULL} /\ x # p /\ Ht(h, x) \in Nat /\ h[w] = Ht(h, x) + 1
             /\ HtOK(t, h, w) /\ h[p] = h[w] + Bit(t, p) /\ x # t.root
             /\ x # NULL => t.parent[x] = p
<1> DEFINE w == t.kid[Other(s)][p]
<1>1. /\ Shape(t, S, D) /\ h \in [Node -> Nat] /\ s \in Side /\ p \in S /\ t.kid[s][p] = x
      /\ t \in Tree /\ S \subseteq Node /\ D \in [Node -> SUBSET Node] /\ p \in Node
      /\ h[p] = Ht(h, w) + Bit(t, p) /\ Ht(h, w) = Ht(h, x) + 1
      /\ \A m \in S \ {p} : HtOK(t, h, m)
  BY DEF Lacking, Shape
<1>2. Other(s) \in Side /\ Other(Other(s)) = s
  BY <1>1, BeforeFacts
<1>3. x \in S \cup {NULL} /\ x # p /\ (x # NULL => t.parent[x] = p)
  BY <1>1, KidSays
<1>4. Ht(h, x) \in Nat
  BY <1>1, <1>3 DEF Ht
<1>5. w # NULL
  <2>1. Ht(h, w) # 0
    BY <1>1, <1>4
  <2> QED BY <2>1 DEF Ht
<1>6. w \in S /\ w \in Node /\ w # p /\ w # t.root /\ t.parent[w] = p /\ w # x
  BY <1>1, <1>2, <1>5, KidSays
<1>7. Ht(h, w) = h[w] /\ HtOK(t, h, w)
  BY <1>1, <1>5, <1>6 DEF Ht
<1>8. p # NULL /\ t.root # NULL
  BY <1>1, NodeFacts DEF Shape, RootOK
<1>9. x # t.root
  BY <1>1, <1>8, KidSays
<1> QED BY <1>1, <1>2, <1>3, <1>4, <1>5, <1>6, <1>7, <1>8, <1>9

\* A red sibling goes up, and a black one takes its place; p is red then.
LEMMA BlackSiblingSays ==
  ASSUME NEW t, NEW S, NEW D, NEW h, NEW g, NEW x, NEW p, NEW s, Lacking(t, S, D, h, g, x, p, s),
         IsRed(t, t.kid[Other(s)][p])
  PROVE  LET t2 == BlackSibling(t, p, s)
         IN  /\ \E D2, h2 : Lacking(t2, S, D2, h2, g, x, p, s)
             /\ IsRed(t2, p) /\ ~IsRed(t2, t2.kid[Other(s)][p])
<1> DEFINE w == t.kid[Other(s)][p]
           t2 == BlackSibling(t, p, s)
<1>1. /\ Shape(t, S, D) /\ h \in [Node -> Nat] /\ s \in Side /\ p \in S
      /\ t.kid[s][p] = x /\ ~IsRed(t, x)
      /\ \A m \in S \ {p} : HtOK(t, h, m)
      /\ \A m \in S : RedOK(t, m)
      /\ \A m \in Node \ (S \cup {g}) : Clear(t, m)
  BY DEF Lacking
<1>2. /\ t \in Tree /\ S \subseteq Node /\ p \in Node /\ p # NULL /\ Other(s) \in Side
      /\ w # NULL /\ w \in S /\ w \in Node /\ w # p /\ w # x /\ t.parent[w] = p
      /\ x \in S \cup {NULL} /\ x # p /\ Ht(h, x) \in Nat /\ h[w] = Ht(h, x) + 1
      /\ HtOK(t, h, w) /\ h[p] = h[w] + Bit(t, p)
  BY SiblingSays
<1>3. p \in t.black
  <2>1. RedOK(t, w) /\ IsRed(t, w)
    BY <1>1, <1>2
  <2> QED BY <1>2, <2>1 DEF RedOK, IsRed
<1>4. RedChild(t, S, D, h, s, p, w)
  <2>1. Bit(t, p) = 1
    BY <1>3 DEF Bit
  <2> QED BY <1>1, <1>2, <1>3, <2>1 DEF RedChild
<1>5. t2 = rb_rotate(Recolored(t, {w}, {p}), s, p)
  BY DEF BlackSibling
<1> HIDE DEF w, t2
<1>6. PICK D2, h2 : Shape(t2, S, D2) /\ Swapped(t, t2, S, h, h2, s, p, w)
  BY <1>4, <1>5, RedChildUp
<1> DEFINE mid == t.kid[s][w]
<1>7. /\ t2.black = (t.black \cup {w}) \ {p}
      /\ t2.kid[s][p] = x /\ t2.kid[Other(s)][p] = mid
      /\ ~IsRed(t, mid) /\ mid # p /\ h2 \in [Node -> Nat] /\ h2[p] = h[w] /\ h2[w] = h[p]
      /\ Ht(h2, mid) = h[w]
      /\ \A m \in Node \ {p, w} : h2[m] = h[m]
      /\ \A m \in S \ {p} : HtOK(t, h, m) => HtOK(t2, h2, m)
      /\ \A m \in S : RedOK(t2, m)
      /\ \A m \in Node \ S : Clear(t, m) => Clear(t2, m)
  BY <1>1, <1>6 DEF Swapped
<1> HIDE DEF mid
<1>8. ~IsRed(t2, x) /\ ~IsRed(t2, mid) /\ IsRed(t2, p)
  BY <1>1, <1>2, <1>7 DEF IsRed
<1>9. Ht(h2, x) = Ht(h, x)
  BY <1>2, <1>7 DEF Ht
<1>10. Bit(t2, p) = 0
  BY <1>7 DEF Bit
<1>11. Lacking(t2, S, D2, h2, g, x, p, s)
  <2>1. h2[p] = Ht(h2, mid) + Bit(t2, p) /\ Ht(h2, mid) = Ht(h2, x) + 1
    BY <1>2, <1>7, <1>9, <1>10
  <2>2. \A m \in Node \ (S \cup {g}) : Clear(t2, m)
    BY <1>1, <1>7
  <2>3. \A m \in S \ {p} : HtOK(t2, h2, m)
    BY <1>1, <1>7
  <2> QED BY <1>1, <1>6, <1>7, <1>8, <2>1, <2>2, <2>3 DEF Lacking
<1> QED BY <1>7, <1>8, <1>11 DEF t2

\* A red inner nephew takes the place of the black sibling: then the outer one is red.
LEMMA OuterNephewSays ==
  ASSUME NEW t, NEW S, NEW D, NEW h, NEW g, NEW x, NEW p, NEW s, Lacking(t, S, D, h, g, x, p, s),
         NEW w, w = t.kid[Other(s)][p], ~IsRed(t, w),
         \E r \in Side : IsRed(t, t.kid[r][w])
  PROVE  LET t2 == OuterNephew(t, s, w)
             v  == t2.kid[Other(s)][p]
         IN  /\ \E D2, h2 : Lacking(t2, S, D2, h2, g, x, p, s)
             /\ ~IsRed(t2, v) /\ IsRed(t2, t2.kid[Other(s)][v])
<1> DEFINE o == Other(s)
           i == t.kid[s][w]
           t2 == OuterNephew(t, s, w)
<1>1. /\ Shape(t, S, D) /\ h \in [Node -> Nat] /\ s \in Side /\ p \in S
      /\ t.kid[s][p] = x /\ ~IsRed(t, x)
      /\ \A m \in S \ {p} : HtOK(t, h, m)
      /\ \A m \in S : RedOK(t, m)
      /\ \A m \in Node \ (S \cup {g}) : Clear(t, m)
  BY DEF Lacking
<1>2. /\ t \in Tree /\ S \subseteq Node /\ p \in Node /\ p # NULL
      /\ w # NULL /\ w \in S /\ w \in Node /\ w # p /\ w # x /\ t.parent[w] = p
      /\ x \in S \cup {NULL} /\ x # p /\ Ht(h, x) \in Nat /\ h[w] = Ht(h, x) + 1
      /\ HtOK(t, h, w) /\ h[p] = h[w] + Bit(t, p) /\ (x # NULL => t.parent[x] = p)
  BY SiblingSays
<1>3. o \in Side /\ Other(o) = s /\ o # s /\ \A r \in Side : r = s \/ r = o
  BY <1>1, BeforeFacts
<1>4. w \in t.black
  BY <1>2 DEF IsRed
<1>5. CASE IsRed(t, t.kid[o][w])
  <2>1. t2 = t
    BY <1>5 DEF OuterNephew
  <2> QED BY <1>5, <2>1
<1>6. CASE ~IsRed(t, t.kid[o][w])
  <2>1. IsRed(t, i)
    BY <1>3, <1>6
  <2>2. t2 = rb_rotate(Recolored(t, {i}, {w}), o, w)
    BY <1>6 DEF OuterNephew
  <2>3. i # NULL /\ i \in S /\ i \in Node /\ t.parent[i] = w /\ i # w
    <3>1. i # NULL
      BY <2>1 DEF IsRed
    <3> QED BY <1>1, <1>2, <3>1, KidSays
  <2>4. h[w] = h[i] + 1
    <3>1. h[w] = Ht(h, i) + Bit(t, w)
      BY <1>1, <1>2 DEF HtOK
    <3>2. Ht(h, i) = h[i] /\ Bit(t, w) = 1
      BY <1>4, <2>3 DEF Ht, Bit
    <3> QED BY <3>1, <3>2
  <2>5. RedChild(t, S, D, h, o, w, i)
    <3>1. i = t.kid[Other(o)][w]
      BY <1>3
    <3>2. HtOK(t, h, i)
      <4>1. i # p
        <5>1. D[w] \subseteq D[p] /\ w \in D[p]
          BY <1>1, <1>2, <1>3, KidSays
        <5>2. p \notin D[w]
          BY <1>1, <1>2, <5>1, DownSays
        <5>3. i \in D[w]
          BY <1>1, <1>2, <2>3, KidSays
        <5> QED BY <5>2, <5>3
      <4> QED BY <1>1, <2>3, <4>1
    <3> QED BY <1>1, <1>2, <1>3, <1>4, <1>6, <2>1, <2>4, <3>1, <3>2 DEF RedChild
  <2> HIDE DEF i, t2
  <2>6. PICK D2, h2 : Shape(t2, S, D2) /\ Swapped(t, t2, S, h, h2, o, w, i)
    BY <2>2, <2>5, RedChildUp
  <2>7. /\ t2.black = (t.black \cup {i}) \ {w}
        /\ t2.kid[o][i] = w
        /\ \A m \in S \ {w, i}, r \in Side :
             t2.kid[r][m] = IF t.kid[r][m] = w THEN i ELSE t.kid[r][m]
        /\ h2 \in [Node -> Nat] /\ h2[i] = h[w]
        /\ \A m \in Node \ {w, i} : h2[m] = h[m]
        /\ Ht(h2, t.kid[o][i]) = h[i] /\ h2[w] = h[i]
        /\ \A m \in S \ {w} : HtOK(t, h, m) => HtOK(t2, h2, m)
        /\ \A m \in S : RedOK(t2, m)
        /\ \A m \in Node \ S : Clear(t, m) => Clear(t2, m)
        /\ t2.kid[o][w] = t.kid[o][w] /\ t2.kid[Other(o)][w] = t.kid[o][i] /\ t.kid[o][i] # w
    BY <2>6 DEF Swapped
  <2>8. p # i
    <3>1. w \in D[p] /\ p \notin D[w]
      <4>1. w \in D[p] /\ w # p
        BY <1>1, <1>2, <1>3, KidSays
      <4> QED BY <1>1, <4>1, DownSays
    <3>2. i \in D[w]
      BY <1>1, <1>2, <2>3, KidSays DEF i
    <3> QED BY <3>1, <3>2
  <2>9. t2.kid[o][p] = i /\ t2.kid[s][p] = x
    BY <1>1, <1>2, <1>3, <2>7, <2>8
  <2>10. IsRed(t2, w) /\ ~IsRed(t2, i)
    BY <1>2, <2>3, <2>7 DEF IsRed
  <2>11. x # i
    <3>1. x # NULL => t.parent[x] = p
      BY <1>2
    <3> QED BY <1>2, <2>3, <3>1
  <2>12. ~IsRed(t2, x) /\ Ht(h2, x) = Ht(h, x) /\ Bit(t2, p) = Bit(t, p) /\ h2[p] = h[p]
    BY <1>1, <1>2, <2>7, <2>8, <2>11 DEF IsRed, Ht, Bit
  <2>13. HtOK(t2, h2, w)
    <3>1. Bit(t2, w) = 0
      BY <2>7 DEF Bit
    <3>2. h[w] = Ht(h, t.kid[o][w]) + Bit(t, w) /\ Bit(t, w) = 1
      BY <1>2, <1>3, <1>4 DEF HtOK, Bit
    <3>3. t.kid[o][w] \in S \cup {NULL} /\ t.kid[o][w] # w /\ t.kid[o][w] # i
      <4>1. i # NULL => t.kid[Other(s)][w] # i
        BY <1>1, <1>2, <2>3, KidSays DEF i
      <4> QED BY <1>1, <1>2, <1>3, <2>3, <4>1, KidSays
    <3>4. Ht(h2, t.kid[o][w]) = Ht(h, t.kid[o][w]) /\ Ht(h, t.kid[o][w]) \in Nat
      BY <1>1, <1>2, <2>7, <3>3 DEF Ht
    <3>5. Ht(h2, t.kid[o][w]) = h[i] /\ h[i] \in Nat
      BY <1>1, <2>3, <2>4, <3>2, <3>4
    <3>6. \A r \in Side : Ht(h2, t2.kid[r][w]) = h[i]
      BY <1>3, <2>7, <3>5
    <3> QED BY <2>7, <3>1, <3>5, <3>6 DEF HtOK
  <2>14. Lacking(t2, S, D2, h2, g, x, p, s)
    <3>1. Ht(h2, i) = h[w]
      BY <2>3, <2>7 DEF Ht
    <3>2. h2[p] = Ht(h2, i) + Bit(t2, p) /\ Ht(h2, i) = Ht(h2, x) + 1
      BY <1>2, <2>12, <3>1
    <3>3. \A m \in Node \ (S \cup {g}) : Clear(t2, m)
      BY <1>1, <2>7
    <3>4. \A m \in S \ {p} : HtOK(t2, h2, m)
      BY <1>1, <2>7, <2>13
    <3> QED BY <1>1, <2>6, <2>7, <2>9, <2>12, <3>2, <3>3, <3>4 DEF Lacking, o
  <2> QED BY <2>7, <2>9, <2>10, <2>14 DEF t2, o
<1> QED BY <1>5, <1>6

\* A red-black tree of S, except for g, which is not in it any more.
TreeBut(t, S, D, h, g) ==
    /\ Shape(t, S, D) /\ h \in [Node -> Nat]
    /\ \A m \in S : HtOK(t, h, m) /\ RedOK(t, m)
    /\ \A m \in Node \ (S \cup {g}) : Clear(t, m)

\* The colors that Borrow gives.
LEMMA BorrowColors ==
  ASSUME NEW t \in Tree, NEW p \in Node, NEW w \in Node, NEW b \in Node, w \notin {p, b}
  PROVE  LET c1 == IF p \in t.black THEN Recolored(t, {w}, {}) ELSE Recolored(t, {}, {w})
             t1 == Recolored(c1, {p, b}, {})
         IN  /\ t1 \in Tree /\ t1.kid = t.kid /\ t1.parent = t.parent /\ t1.root = t.root
             /\ p \in t1.black /\ b \in t1.black /\ (w \in t1.black <=> p \in t.black)
             /\ \A m \in Node \ {p, b, w} : m \in t1.black <=> m \in t.black
<1> DEFINE c1 == IF p \in t.black THEN Recolored(t, {w}, {}) ELSE Recolored(t, {}, {w})
           t1 == Recolored(c1, {p, b}, {})
<1>1. /\ c1 \in Tree /\ c1.kid = t.kid /\ c1.parent = t.parent /\ c1.root = t.root
      /\ w \in c1.black <=> p \in t.black
      /\ \A m \in Node \ {w} : m \in c1.black <=> m \in t.black
  <2>1. CASE p \in t.black
    <3>1. {w} \subseteq Node
      OBVIOUS
    <3>2. /\ Recolored(t, {w}, {}).kid = t.kid /\ Recolored(t, {w}, {}).parent = t.parent
          /\ Recolored(t, {w}, {}).root = t.root /\ Recolored(t, {w}, {}) \in Tree
          /\ Recolored(t, {w}, {}).black = (t.black \cup {w}) \ {}
      BY <3>1, RecoloredSays
    <3>3. c1 = Recolored(t, {w}, {})
      BY <2>1
    <3> HIDE DEF c1
    <3> QED BY <2>1, <3>2, <3>3
  <2>2. CASE p \notin t.black
    <3>1. /\ Recolored(t, {}, {w}).kid = t.kid /\ Recolored(t, {}, {w}).parent = t.parent
          /\ Recolored(t, {}, {w}).root = t.root /\ Recolored(t, {}, {w}) \in Tree
          /\ Recolored(t, {}, {w}).black = (t.black \cup {}) \ {w}
      BY RecoloredSays
    <3>3. c1 = Recolored(t, {}, {w})
      BY <2>2
    <3> HIDE DEF c1
    <3> QED BY <2>2, <3>1, <3>3
  <2> QED BY <2>1, <2>2
<1> HIDE DEF c1
<1>2. {p, b} \subseteq Node
  OBVIOUS
<1>3. /\ t1.kid = c1.kid /\ t1.parent = c1.parent /\ t1.root = c1.root /\ t1 \in Tree
      /\ t1.black = (c1.black \cup {p, b}) \ {}
  BY <1>1, <1>2, RecoloredSays
<1> HIDE DEF t1
<1> QED BY <1>1, <1>3 DEF t1, c1

\* The red outer nephew makes up for the black node that x lacks.
LEMMA BorrowSays ==
  ASSUME NEW t, NEW S, NEW D, NEW h, NEW g, NEW x, NEW p, NEW s, Lacking(t, S, D, h, g, x, p, s),
         NEW w, w = t.kid[Other(s)][p], ~IsRed(t, w), IsRed(t, t.kid[Other(s)][w])
  PROVE  \E D2, h2 : TreeBut(Borrow(t, p, s, w), S, D2, h2, g)
<1> DEFINE o == Other(s)
           b == t.kid[o][w]
           mid == t.kid[s][w]
           c1 == IF p \in t.black THEN Recolored(t, {w}, {}) ELSE Recolored(t, {}, {w})
           t1 == Recolored(c1, {p, b}, {})
           t2 == rb_rotate(t1, s, p)
           D2 == TurnedSub(t1, D, s, p, w)
           h1 == [h EXCEPT ![b] = h[b] + 1]
           h2 == [h1 EXCEPT ![p] = h[w], ![w] = h[p]]
<1>1. /\ Shape(t, S, D) /\ h \in [Node -> Nat] /\ s \in Side /\ p \in S
      /\ t.kid[s][p] = x /\ ~IsRed(t, x)
      /\ \A m \in S \ {p} : HtOK(t, h, m)
      /\ \A m \in S : RedOK(t, m)
      /\ \A m \in Node \ (S \cup {g}) : Clear(t, m)
  BY DEF Lacking
<1>2. /\ t \in Tree /\ S \subseteq Node /\ p \in Node /\ p # NULL
      /\ w # NULL /\ w \in S /\ w \in Node /\ w # p /\ w # x /\ t.parent[w] = p
      /\ x \in S \cup {NULL} /\ x # p /\ Ht(h, x) \in Nat /\ h[w] = Ht(h, x) + 1
      /\ HtOK(t, h, w) /\ h[p] = h[w] + Bit(t, p) /\ (x # NULL => t.parent[x] = p)
      /\ w # t.root
  BY SiblingSays
<1>3. o \in Side /\ Other(o) = s /\ o # s /\ \A r \in Side : r = s \/ r = o
  BY <1>1, BeforeFacts
<1>4. w \in t.black /\ t.kid[o][p] = w
  BY <1>2 DEF IsRed
<1>5. b # NULL /\ b \notin t.black /\ b \in S /\ b \in Node /\ t.parent[b] = w /\ b # w /\ b # t.root
  <2>1. b # NULL /\ b \notin t.black
    BY DEF IsRed
  <2> QED BY <1>1, <1>2, <1>3, <2>1, KidSays
<1>6. mid \in S \cup {NULL} /\ mid # w /\ (mid # NULL => t.parent[mid] = w) /\ mid # b
  <2>1. mid \in S \cup {NULL} /\ mid # w /\ (mid # NULL => t.parent[mid] = w /\ mid # b)
    BY <1>1, <1>2, KidSays
  <2> QED BY <1>5, <2>1
<1>7. b # p /\ mid # p
  <2>1. w \in D[p] /\ w # p
    BY <1>1, <1>2, <1>3, KidSays
  <2>2. p \notin D[w]
    BY <1>1, <2>1, DownSays
  <2>3. b \in D[w]
    BY <1>1, <1>2, <1>3, <1>5, KidSays
  <2>4. mid # NULL => mid \in D[w]
    BY <1>1, <1>2, KidSays
  <2> QED BY <1>2, <2>2, <2>3, <2>4
<1>8. x # b /\ (x # NULL => x # mid)
  BY <1>2, <1>5, <1>6
<1> HIDE DEF b, mid, o, D2
<1>9. /\ t1 \in Tree /\ t1.kid = t.kid /\ t1.parent = t.parent /\ t1.root = t.root
      /\ p \in t1.black /\ b \in t1.black /\ (w \in t1.black <=> p \in t.black)
      /\ \A m \in Node \ {p, b, w} : m \in t1.black <=> m \in t.black
  <2>1. w \notin {p, b}
    BY <1>2, <1>5
  <2> QED BY <1>2, <1>5, <2>1, BorrowColors
<1>10. Borrow(t, p, s, w) = t2
  BY DEF Borrow, b, o
<1> HIDE DEF t1, c1
<1>11. Shape(t1, S, D)
  BY <1>1, <1>9, SameShape
<1>12. w = t1.kid[Other(s)][p] /\ t1.kid[Other(s)][p] # NULL
  BY <1>2, <1>4, <1>9 DEF o
<1>13. Turned(t1, t2, S, s, p, w)
  <2>1. Turned(t1, rb_rotate(t1, s, p), S, s, p, t1.kid[Other(s)][p])
    BY <1>1, <1>11, <1>12, RotateSays
  <2> QED BY <1>12, <2>1
<1> HIDE DEF t2
<1>14. Shape(t2, S, D2)
  BY <1>1, <1>2, <1>11, <1>12, <1>13, TurnedShape DEF D2
<1>15. /\ t2 \in Tree /\ t2.black = t1.black
       /\ t2.root = IF p = t.root THEN w ELSE t.root
       /\ t2.kid[s][p] = x /\ t2.kid[o][p] = mid
       /\ t2.kid[s][w] = p /\ t2.kid[o][w] = b
       /\ t2.parent[w] = t.parent[p] /\ t2.parent[p] = w
       /\ mid # NULL => t2.parent[mid] = p
       /\ \A m \in Node \ {p, w, mid} : t2.parent[m] = t.parent[m]
  <2>1. t1.kid[s][p] = x /\ t1.kid[s][w] = mid /\ t1.kid[o][w] = b
    BY <1>1, <1>9 DEF mid, b
  <2> QED BY <1>9, <1>13, <2>1 DEF Turned, o
<1>16. /\ h1 \in [Node -> Nat] /\ h1[b] = h[b] + 1 /\ \A m \in Node \ {b} : h1[m] = h[m]
  BY <1>1, <1>5
<1> HIDE DEF h1
<1>17. /\ h2 \in [Node -> Nat] /\ h2[p] = h[w] /\ h2[w] = h[p] /\ h2[b] = h[b] + 1
       /\ \A m \in Node \ {p, w} : h2[m] = h1[m]
       /\ \A m \in Node \ {p, w, b} : h2[m] = h[m]
  BY <1>1, <1>2, <1>5, <1>7, <1>16
<1> HIDE DEF h2
<1>18. /\ h[b] \in Nat /\ h[w] = h[b] + 1 /\ Ht(h, mid) = h[b] /\ Ht(h, x) = h[b]
  <2>1. h[b] \in Nat /\ Ht(h, mid) \in Nat
    BY <1>1, <1>2, <1>5, <1>6 DEF Ht
  <2>2. Bit(t, w) = 1 /\ Ht(h, b) = h[b]
    BY <1>4, <1>5 DEF Bit, Ht
  <2>3. h[w] = Ht(h, b) + Bit(t, w) /\ h[w] = Ht(h, mid) + Bit(t, w)
    BY <1>1, <1>2, <1>3 DEF HtOK, b, mid
  <2> QED BY <1>2, <2>1, <2>2, <2>3
<1>19. ASSUME NEW m \in S PROVE HtOK(t2, h2, m)
  <2>1. CASE m = p
    <3>1. Ht(h2, x) = h[b] /\ Ht(h2, mid) = h[b]
      BY <1>2, <1>6, <1>7, <1>8, <1>17, <1>18 DEF Ht
    <3>2. Bit(t2, p) = 1
      BY <1>9, <1>15 DEF Bit
    <3>3. \A r \in Side : Ht(h2, t2.kid[r][p]) = h[b]
      BY <1>3, <1>15, <3>1
    <3> QED BY <1>17, <1>18, <2>1, <3>2, <3>3 DEF HtOK
  <2>2. CASE m = w
    <3>1. Ht(h2, p) = h[w] /\ Ht(h2, b) = h[w]
      BY <1>2, <1>5, <1>17, <1>18 DEF Ht
    <3>2. Bit(t2, w) = Bit(t, p)
      BY <1>9, <1>15 DEF Bit
    <3>3. \A r \in Side : Ht(h2, t2.kid[r][w]) = h[w]
      BY <1>3, <1>15, <3>1
    <3> QED BY <1>2, <1>17, <2>2, <3>2, <3>3 DEF HtOK
  <2>3. CASE m \notin {p, w}
    <3>1. HtOK(t1, h1, m)
      <4> SUFFICES ASSUME NEW r \in Side PROVE h1[m] = Ht(h1, t.kid[r][m]) + Bit(t1, m)
        BY <1>9 DEF HtOK
      <4>1. h[m] = Ht(h, t.kid[r][m]) + Bit(t, m)
        BY <1>1, <2>3 DEF HtOK
      <4>2. t.kid[r][m] # b /\ t.kid[r][m] \in S \cup {NULL}
        <5>1. t.kid[r][m] = b => m = w
          BY <1>1, <1>5, OnePlace
        <5> QED BY <1>1, <2>3, <5>1, KidSays
      <4>3. Ht(h1, t.kid[r][m]) = Ht(h, t.kid[r][m]) /\ Ht(h, t.kid[r][m]) \in Nat
        BY <1>1, <1>2, <1>16, <4>2 DEF Ht
      <4>4. CASE m = b
        <5>1. Bit(t1, m) = 1 /\ Bit(t, m) = 0
          BY <1>5, <1>9, <4>4 DEF Bit
        <5> QED BY <1>16, <4>1, <4>3, <4>4, <5>1
      <4>5. CASE m # b
        <5>1. Bit(t1, m) = Bit(t, m)
          BY <1>2, <1>9, <2>3, <4>5 DEF Bit
        <5> QED BY <1>2, <1>16, <4>1, <4>3, <4>5, <5>1
      <4> QED BY <4>4, <4>5
    <3>2. \A y \in S \ {p, w} : h2[y] = h1[y]
      BY <1>2, <1>17
    <3>3. h2[w] = h1[p]
      BY <1>2, <1>7, <1>16, <1>17
    <3> QED BY <1>1, <1>2, <1>11, <1>12, <1>13, <2>3, <3>1, <3>2, <3>3, TurnedHeight
  <2> QED BY <2>1, <2>2, <2>3
<1>20. ASSUME NEW m \in S PROVE RedOK(t2, m)
  <2> SUFFICES ASSUME m \notin t2.black PROVE m # t2.root /\ ~IsRed(t2, t2.parent[m])
    BY <1>2, NodeFacts DEF RedOK, IsRed
  <2>1. m # p /\ m # b /\ m \in Node
    BY <1>2, <1>9, <1>15
  <2>2. \A y \in S : ~IsRed(t, y) /\ y # w => ~IsRed(t2, y)
    BY <1>2, <1>9, <1>15 DEF IsRed
  <2>3. CASE m = w
    <3>1. p \notin t.black
      BY <1>9, <1>15, <2>3
    <3>2. p # t.root /\ ~IsRed(t, t.parent[p])
      BY <1>1, <1>2, <3>1 DEF RedOK, IsRed
    <3>3. t.parent[p] \in S /\ t.parent[p] # w
      <4>1. t.parent[p] \in S
        BY <1>1, <3>2, NodeSays
      <4>2. w \in D[p] /\ w # p
        BY <1>1, <1>2, <1>3, <1>4, KidSays
      <4>3. p \notin D[w]
        BY <1>1, <4>2, DownSays
      <4>4. t.parent[p] = w => p \in D[w]
        <5>1. SUFFICES ASSUME t.parent[p] = w PROVE p \in D[w]
          OBVIOUS
        <5>2. PICK r \in Side : t.kid[r][w] = p
          BY <1>1, <3>2, <5>1, OnePlace, SideInSide
        <5> QED BY <1>1, <1>2, <5>2, KidSays
      <4> QED BY <4>1, <4>3, <4>4
    <3> QED BY <1>2, <1>15, <2>2, <2>3, <3>2, <3>3
  <2>4. CASE m # w
    <3>1. m \notin t.black /\ m # NULL
      BY <1>2, <1>9, <1>15, <2>1, <2>4, NodeFacts
    <3>2. m # t.root /\ ~IsRed(t, t.parent[m])
      BY <1>1, <3>1 DEF RedOK, IsRed
    <3>3. CASE m = mid
      BY <1>2, <1>9, <1>15, <2>4, <3>1, <3>2, <3>3 DEF IsRed
    <3>4. CASE m # mid
      <4>1. t2.parent[m] = t.parent[m] /\ t.parent[m] \in S
        BY <1>1, <1>15, <2>1, <2>4, <3>2, <3>4, NodeSays
      <4>2. t.parent[m] # w
        <5>1. SUFFICES ASSUME t.parent[m] = w PROVE FALSE
          OBVIOUS
        <5>2. PICK r \in Side : t.kid[r][w] = m
          BY <1>1, <3>2, <5>1, OnePlace, SideInSide
        <5>3. m = mid \/ m = b
          BY <1>3, <5>2 DEF mid, b
        <5> QED BY <2>1, <3>4, <5>3
      <4> QED BY <1>15, <2>2, <2>4, <3>2, <4>1, <4>2
    <3> QED BY <3>3, <3>4
  <2> QED BY <2>3, <2>4
<1>21. ASSUME NEW m \in Node \ (S \cup {g}) PROVE Clear(t2, m)
  <2>1. Clear(t1, m)
    <3>1. Clear(t, m) /\ m \notin {p, b, w}
      BY <1>1, <1>2, <1>5
    <3> QED BY <1>9, <3>1 DEF Clear
  <2>2. m \in Node \ S
    OBVIOUS
  <2> QED BY <1>1, <1>2, <1>11, <1>12, <1>13, <2>1, <2>2, TurnedClear
<1>22. TreeBut(t2, S, D2, h2, g)
  BY <1>14, <1>17, <1>19, <1>20, <1>21 DEF TreeBut
<1> QED BY <1>10, <1>22

\* x is the root, or lacks a black node; if x is red, it may be below or above a red node.
EraseInv(t, S, D, h, g, x, p) ==
    /\ Shape(t, S, D) /\ h \in [Node -> Nat] /\ x \in S \cup {NULL} /\ p \in S \cup {NULL}
    /\ x = t.root => \A m \in S : HtOK(t, h, m)
    /\ x # t.root => /\ p \in S /\ \A m \in S \ {p} : HtOK(t, h, m)
                     /\ \E s \in Side : /\ t.kid[s][p] = x
                                        /\ h[p] = Ht(h, t.kid[Other(s)][p]) + Bit(t, p)
                                        /\ Ht(h, t.kid[Other(s)][p]) = Ht(h, x) + 1
    /\ \A m \in S : RedOK(t, m) \/ m = x \/ (x # NULL /\ t.parent[m] = x)
    /\ \A m \in Node \ (S \cup {g}) : Clear(t, m)

\* The loop is over.
Ended(t, x) == IsRed(t, x) \/ x = t.root

\* Where the loop goes on.
LEMMA GoesOn ==
  ASSUME NEW t, NEW S, NEW D, NEW h, NEW g, NEW x, NEW p, EraseInv(t, S, D, h, g, x, p),
         ~Ended(t, x)
  PROVE  Lacking(t, S, D, h, g, x, p, SideIn(t, p, x))
<1>1. /\ Shape(t, S, D) /\ h \in [Node -> Nat] /\ x \in S \cup {NULL} /\ p \in S
      /\ x # t.root /\ ~IsRed(t, x) /\ t \in Tree /\ S \subseteq Node
      /\ \A m \in S \ {p} : HtOK(t, h, m)
      /\ \A m \in S : RedOK(t, m) \/ m = x \/ (x # NULL /\ t.parent[m] = x)
      /\ \A m \in Node \ (S \cup {g}) : Clear(t, m)
  BY DEF EraseInv, Ended, Shape
<1>2. PICK s \in Side : /\ t.kid[s][p] = x
                        /\ h[p] = Ht(h, t.kid[Other(s)][p]) + Bit(t, p)
                        /\ Ht(h, t.kid[Other(s)][p]) = Ht(h, x) + 1
  BY <1>1 DEF EraseInv
<1>3. Ht(h, x) \in Nat
  BY <1>1 DEF Ht
<1>4. t.kid[Other(s)][p] # x
  BY <1>2, <1>3
<1>5. SideIn(t, p, x) = s
  <2>1. s = "rb_left" \/ s = "rb_right"
    BY DEF Side
  <2>2. s = "rb_right" => Other(s) = "rb_left"
    BY DEF Other
  <2> QED BY <1>2, <1>4, <2>1, <2>2 DEF SideIn
<1>6. ASSUME NEW m \in S PROVE RedOK(t, m)
  <2>1. CASE m = x
    BY <1>1, <2>1 DEF RedOK
  <2>2. CASE x # NULL /\ t.parent[m] = x
    <3>1. m # t.root
      BY <1>1, <2>2, NodeSays
    <3> QED BY <1>1, <2>2, <3>1 DEF RedOK
  <2> QED BY <1>1, <2>1, <2>2
<1> QED BY <1>1, <1>2, <1>5, <1>6 DEF Lacking

\* No red nephew: the sibling gets red, and p's subtree lacks a black node now.
LEMMA LighterSays ==
  ASSUME NEW t, NEW S, NEW D, NEW h, NEW g, NEW x, NEW p, NEW s, Lacking(t, S, D, h, g, x, p, s),
         NEW w, w = t.kid[Other(s)][p], ~IsRed(t, w),
         \A r \in Side : ~IsRed(t, t.kid[r][w])
  PROVE  LET t2 == Recolored(t, {}, {w})
         IN  \E h2 : EraseInv(t2, S, D, h2, g, p, t.parent[p]) /\ t2.parent = t.parent
                     /\ t2.root = t.root /\ (IsRed(t, p) => IsRed(t2, p))
<1> DEFINE o == Other(s)
           t2 == Recolored(t, {}, {w})
           h2 == [h EXCEPT ![w] = h[w] - 1, ![p] = h[p] - 1]
           q == t.parent[p]
<1>1. /\ Shape(t, S, D) /\ h \in [Node -> Nat] /\ s \in Side /\ p \in S
      /\ t.kid[s][p] = x /\ ~IsRed(t, x)
      /\ \A m \in S \ {p} : HtOK(t, h, m)
      /\ \A m \in S : RedOK(t, m)
      /\ \A m \in Node \ (S \cup {g}) : Clear(t, m)
  BY DEF Lacking
<1>2. /\ t \in Tree /\ S \subseteq Node /\ p \in Node /\ p # NULL
      /\ w # NULL /\ w \in S /\ w \in Node /\ w # p /\ w # x /\ t.parent[w] = p
      /\ x \in S \cup {NULL} /\ x # p /\ Ht(h, x) \in Nat /\ h[w] = Ht(h, x) + 1
      /\ HtOK(t, h, w) /\ h[p] = h[w] + Bit(t, p) /\ (x # NULL => t.parent[x] = p)
      /\ w # t.root
  BY SiblingSays
<1>3. o \in Side /\ Other(o) = s /\ o # s /\ \A r \in Side : r = s \/ r = o
  BY <1>1, BeforeFacts
<1>4. w \in t.black /\ t.kid[o][p] = w
  BY <1>2 DEF IsRed
<1>5. /\ t2 \in Tree /\ t2.kid = t.kid /\ t2.parent = t.parent /\ t2.root = t.root
      /\ t2.black = t.black \ {w}
  BY <1>2, RecoloredSays
<1> HIDE DEF t2, o
<1>6. Shape(t2, S, D)
  BY <1>1, <1>5, SameShape
<1>7. /\ h2 \in [Node -> Nat] /\ h2[w] = h[w] - 1 /\ h2[p] = h[p] - 1
      /\ \A m \in Node \ {p, w} : h2[m] = h[m]
  <2>1. Bit(t, p) \in Nat
    BY DEF Bit
  <2>2. h[w] - 1 \in Nat /\ h[p] - 1 \in Nat
    BY <1>2, <2>1
  <2> QED BY <1>1, <1>2, <2>2
<1> HIDE DEF h2
<1>8. HtOK(t2, h2, p)
  <2>1. Ht(h2, x) = Ht(h, x) /\ Ht(h2, w) = h[w] - 1 /\ Bit(t2, p) = Bit(t, p) /\ Bit(t, p) \in Nat
    BY <1>2, <1>5, <1>7 DEF Ht, Bit
  <2>2. \A r \in Side : Ht(h2, t2.kid[r][p]) = Ht(h, x)
    BY <1>1, <1>2, <1>3, <1>4, <1>5, <2>1
  <2>3. h2[p] = Ht(h, x) + Bit(t2, p)
    BY <1>2, <1>7, <2>1
  <2> QED BY <2>2, <2>3 DEF HtOK
<1>9. HtOK(t2, h2, w)
  <2> SUFFICES ASSUME NEW r \in Side PROVE h2[w] = Ht(h2, t.kid[r][w]) + Bit(t2, w)
    BY <1>5 DEF HtOK
  <2>1. h[w] = Ht(h, t.kid[r][w]) + Bit(t, w) /\ Bit(t, w) = 1 /\ Bit(t2, w) = 0
    BY <1>2, <1>4, <1>5 DEF HtOK, Bit
  <2>2. t.kid[r][w] \in S \cup {NULL} /\ t.kid[r][w] # w /\ t.kid[r][w] # p
    <3>1. w \in D[p] /\ w # p
      BY <1>1, <1>2, <1>3, <1>4, KidSays
    <3>2. p \notin D[w]
      BY <1>1, <3>1, DownSays
    <3>3. t.kid[r][w] # NULL => t.kid[r][w] \in D[w]
      BY <1>1, <1>2, KidSays
    <3> QED BY <1>1, <1>2, <3>2, <3>3, KidSays
  <2>3. Ht(h2, t.kid[r][w]) = Ht(h, t.kid[r][w]) /\ Ht(h, t.kid[r][w]) \in Nat
    BY <1>1, <1>2, <1>7, <2>2 DEF Ht
  <2> QED BY <1>7, <2>1, <2>3
<1>10. ASSUME NEW m \in S \ {p, w, q} PROVE HtOK(t2, h2, m)
  <2> SUFFICES ASSUME NEW r \in Side PROVE h2[m] = Ht(h2, t.kid[r][m]) + Bit(t2, m)
    BY <1>5 DEF HtOK
  <2>1. h[m] = Ht(h, t.kid[r][m]) + Bit(t, m) /\ Bit(t2, m) = Bit(t, m) /\ h2[m] = h[m]
    BY <1>1, <1>2, <1>5, <1>7 DEF HtOK, Bit
  <2>2. t.kid[r][m] \in S \cup {NULL} /\ t.kid[r][m] # p /\ t.kid[r][m] # w
    <3>1. t.kid[r][m] = p => m = q
      BY <1>1, OnePlace
    <3>2. t.kid[r][m] = w => m = p
      BY <1>1, <1>2, OnePlace
    <3> QED BY <1>1, <3>1, <3>2, KidSays
  <2>3. Ht(h2, t.kid[r][m]) = Ht(h, t.kid[r][m])
    BY <1>2, <1>7, <2>2 DEF Ht
  <2> QED BY <2>1, <2>3
<1>11. ASSUME NEW m \in S PROVE RedOK(t2, m) \/ m = p \/ (p # NULL /\ t2.parent[m] = p)
  <2>1. CASE m = w
    BY <1>2, <1>5, <2>1
  <2>2. CASE m # w
    <3>1. RedOK(t, m)
      BY <1>1
    <3>2. CASE t.parent[m] # w
      BY <1>5, <2>2, <3>1, <3>2 DEF RedOK, IsRed
    <3>3. CASE t.parent[m] = w
      <4>1. m # t.root
        BY <1>1, <1>2, <3>3, NodeSays
      <4>2. PICK r \in Side : t.kid[r][w] = m
        BY <1>1, <3>3, <4>1, OnePlace, SideInSide
      <4>3. ~IsRed(t, m)
        BY <4>2
      <4> QED BY <1>5, <2>2, <4>3 DEF RedOK, IsRed
    <3> QED BY <3>2, <3>3
  <2> QED BY <2>1, <2>2
<1>12. ASSUME NEW m \in Node \ (S \cup {g}) PROVE Clear(t2, m)
  BY <1>1, <1>5 DEF Clear
<1>13. IsRed(t, p) => IsRed(t2, p)
  BY <1>5 DEF IsRed
<1>14. p = t.root => q = NULL
  BY <1>1, NodeSays
<1>15. p # t.root => q \in S
  BY <1>1, NodeSays
<1>16. q # p /\ q # w
  <2>1. q = NULL => q # p /\ q # w
    BY <1>2
  <2>2. ASSUME q # NULL PROVE q # p /\ q # w
    <3>1. p # t.root
      BY <1>1, <2>2, NodeSays
    <3>2. PICK r \in Side : t.kid[r][q] = p
      BY <1>1, <3>1, OnePlace, SideInSide
    <3>3. q # p /\ p \in D[q] /\ q \notin D[p]
      BY <1>1, <1>2, <1>15, <3>1, <3>2, KidSays
    <3>4. w \in D[p]
      BY <1>1, <1>2, <1>3, <1>4, KidSays
    <3> QED BY <3>3, <3>4
  <2> QED BY <2>1, <2>2
<1>17. p = t2.root => \A m \in S : HtOK(t2, h2, m)
  <2>1. SUFFICES ASSUME p = t.root, NEW m \in S PROVE HtOK(t2, h2, m)
    BY <1>5
  <2>2. m # q
    BY <1>2, <1>14, <2>1, NodeFacts
  <2> QED BY <1>8, <1>9, <1>10, <2>2
<1>18. ASSUME p # t2.root
       PROVE  /\ q \in S /\ \A m \in S \ {q} : HtOK(t2, h2, m)
              /\ \E r \in Side : /\ t2.kid[r][q] = p
                                 /\ h2[q] = Ht(h2, t2.kid[Other(r)][q]) + Bit(t2, q)
                                 /\ Ht(h2, t2.kid[Other(r)][q]) = Ht(h2, p) + 1
  <2>1. q \in S /\ q \in Node /\ q # NULL
    BY <1>2, <1>5, <1>15, <1>18, NodeFacts
  <2>2. \A m \in S \ {q} : HtOK(t2, h2, m)
    BY <1>8, <1>9, <1>10
  <2>3. PICK r \in Side : t.kid[r][q] = p
    BY <1>1, <1>5, <1>18, OnePlace, SideInSide
  <2> DEFINE c == t.kid[Other(r)][q]
  <2>4. Other(r) \in Side
    BY BeforeFacts
  <2>5. c \in S \cup {NULL} /\ c # p /\ c # w
    <3>1. c \in S \cup {NULL} /\ c # p /\ (c # NULL => t.parent[c] = q)
      BY <1>1, <1>2, <2>1, <2>3, <2>4, KidSays
    <3> QED BY <1>2, <1>16, <3>1
  <2>6. h[q] = Ht(h, p) + Bit(t, q) /\ h[q] = Ht(h, c) + Bit(t, q)
    <3>1. HtOK(t, h, q)
      BY <1>1, <1>16, <2>1
    <3> QED BY <2>3, <2>4, <3>1 DEF HtOK
  <2> HIDE DEF c, q
  <2>7. Ht(h, p) = h[p] /\ Ht(h2, p) = h2[p] /\ Ht(h2, c) = Ht(h, c) /\ Ht(h, c) \in Nat
    BY <1>1, <1>2, <1>7, <2>5 DEF Ht
  <2>8. h2[q] = h[q] /\ Bit(t2, q) = Bit(t, q) /\ Bit(t, q) \in Nat
    BY <1>5, <1>7, <1>16, <2>1 DEF Bit
  <2>9. h[p] \in Nat
    BY <1>1, <1>2
  <2>10. h2[q] = Ht(h2, c) + Bit(t2, q) /\ Ht(h2, c) = Ht(h2, p) + 1
    BY <1>7, <2>6, <2>7, <2>8, <2>9
  <2>11. t2.kid[Other(r)][q] = c /\ t2.kid[r][q] = p
    BY <1>5, <2>3 DEF c
  <2> QED BY <2>1, <2>2, <2>10, <2>11
<1>19. EraseInv(t2, S, D, h2, g, p, q)
  <2>1. q \in S \cup {NULL}
    BY <1>14, <1>15
  <2> HIDE DEF q
  <2> QED BY <1>1, <1>6, <1>7, <1>11, <1>12, <1>17, <1>18, <2>1 DEF EraseInv
<1> QED BY <1>5, <1>13, <1>19 DEF t2

\* What an iteration that began with p gives: the loop is over, or goes on above p.
ErasedStep(t, S, D, g, p, e) ==
    /\ e = [t |-> e.t, node |-> e.node, parent |-> e.parent]
    /\ e.node = p \/ e.node = e.t.root
    /\ \E D2, h2 : /\ EraseInv(e.t, S, D2, h2, g, e.node, e.parent)
                   /\ Ended(e.t, e.node) \/ (D2 = D /\ e.parent = t.parent[p] /\ p # t.root)

\* An iteration with a black sibling.
LEMMA LacksBlackSays ==
  ASSUME NEW t, NEW S, NEW D, NEW h, NEW g, NEW x, NEW p, NEW s, Lacking(t, S, D, h, g, x, p, s),
         ~IsRed(t, t.kid[Other(s)][p])
  PROVE  LET e == LacksBlackAt(t, p, s)
         IN  ErasedStep(t, S, D, g, p, e) /\ (IsRed(t, p) => Ended(e.t, e.node))
<1> DEFINE w == t.kid[Other(s)][p]
           e == LacksBlackAt(t, p, s)
<1>1. e = IF \A r \in Side : ~IsRed(t, t.kid[r][w])
            THEN [t |-> Recolored(t, {}, {w}), node |-> p, parent |-> t.parent[p]]
            ELSE BorrowFrom(OuterNephew(t, s, w), p, s)
  BY DEF LacksBlackAt, LacksBlack
<1>2. p \in S
  BY DEF Lacking
<1>3. CASE \A r \in Side : ~IsRed(t, t.kid[r][w])
  <2> DEFINE t2 == Recolored(t, {}, {w})
  <2>1. PICK h2 : /\ EraseInv(t2, S, D, h2, g, p, t.parent[p]) /\ t2.parent = t.parent
                  /\ t2.root = t.root /\ (IsRed(t, p) => IsRed(t2, p))
    BY <1>3, LighterSays
  <2>2. e = [t |-> t2, node |-> p, parent |-> t.parent[p]]
    BY <1>1, <1>3
  <2> HIDE DEF t2, e, w
  <2>3. e.t = t2 /\ e.node = p /\ e.parent = t.parent[p]
    BY <2>2
  <2>4. Ended(t2, p) \/ (t.parent[p] = t.parent[p] /\ p # t.root)
    BY <2>1 DEF Ended
  <2>5. ErasedStep(t, S, D, g, p, e)
    BY <2>1, <2>2, <2>3, <2>4 DEF ErasedStep
  <2>6. IsRed(t, p) => Ended(e.t, e.node)
    BY <2>1, <2>3 DEF Ended
  <2> QED BY <2>5, <2>6 DEF e
<1>4. CASE ~\A r \in Side : ~IsRed(t, t.kid[r][w])
  <2> DEFINE t1 == OuterNephew(t, s, w)
             v == t1.kid[Other(s)][p]
             t2 == Borrow(t1, p, s, v)
  <2>1. \E r \in Side : IsRed(t, t.kid[r][w])
    BY <1>4
  <2>2. /\ \E D1, h1 : Lacking(t1, S, D1, h1, g, x, p, s)
        /\ ~IsRed(t1, v) /\ IsRed(t1, t1.kid[Other(s)][v])
    BY <2>1, OuterNephewSays
  <2>3. PICK D1, h1 : Lacking(t1, S, D1, h1, g, x, p, s)
    BY <2>2
  <2>4. e = [t |-> t2, node |-> t2.root, parent |-> p]
    BY <1>1, <1>4 DEF BorrowFrom, LoopEnds
  <2> HIDE DEF t1, e, w
  <2>5. PICK D2, h2 : TreeBut(t2, S, D2, h2, g)
    BY <2>2, <2>3, BorrowSays
  <2> HIDE DEF t2, v
  <2>6. e.t = t2 /\ e.node = t2.root /\ e.parent = p
    BY <2>4
  <2>7. EraseInv(t2, S, D2, h2, g, t2.root, p)
    <3>1. t2.root \in S \cup {NULL}
      BY <2>5 DEF TreeBut, Shape, RootOK
    <3> QED BY <1>2, <2>5, <3>1 DEF TreeBut, EraseInv
  <2>8. Ended(t2, t2.root)
    BY DEF Ended
  <2>9. ErasedStep(t, S, D, g, p, e)
    BY <2>4, <2>6, <2>7, <2>8 DEF ErasedStep
  <2> QED BY <2>6, <2>8, <2>9 DEF e
<1> QED BY <1>3, <1>4

\* An iteration.
LEMMA EraseStep ==
  ASSUME NEW t, NEW S, NEW D, NEW h, NEW g, NEW x, NEW p, EraseInv(t, S, D, h, g, x, p),
         ~Ended(t, x)
  PROVE  ErasedStep(t, S, D, g, p, RepairErase([t |-> t, node |-> x, parent |-> p])) /\ x # p
<1> DEFINE s == SideIn(t, p, x)
           e == RepairErase([t |-> t, node |-> x, parent |-> p])
           t1 == BlackSibling(t, p, s)
<1>1. Lacking(t, S, D, h, g, x, p, s)
  BY GoesOn
<1>2. e = LacksBlackAt(t1, p, s)
  BY DEF RepairErase, Ended
<1> HIDE DEF s
<1>3. x # p
  BY <1>1, SiblingSays
<1>4. CASE IsRed(t, t.kid[Other(s)][p])
  <2>1. /\ \E D2, h2 : Lacking(t1, S, D2, h2, g, x, p, s)
        /\ IsRed(t1, p) /\ ~IsRed(t1, t1.kid[Other(s)][p])
    BY <1>1, <1>4, BlackSiblingSays
  <2>2. PICK D2, h2 : Lacking(t1, S, D2, h2, g, x, p, s)
    BY <2>1
  <2> HIDE DEF t1
  <2>3. ErasedStep(t1, S, D2, g, p, e) /\ Ended(e.t, e.node)
    BY <1>2, <2>1, <2>2, LacksBlackSays
  <2> HIDE DEF e
  <2>4. ErasedStep(t, S, D, g, p, e)
    BY <2>3 DEF ErasedStep
  <2> QED BY <1>3, <2>4 DEF e
<1>5. CASE ~IsRed(t, t.kid[Other(s)][p])
  <2>1. t1 = t
    BY <1>5 DEF BlackSibling
  <2> HIDE DEF t1
  <2>2. ErasedStep(t, S, D, g, p, e)
    BY <1>1, <1>2, <1>5, <2>1, LacksBlackSays
  <2> QED BY <1>3, <2>2
<1> QED BY <1>4, <1>5

\* The states of the loop of __rb_erase_color from which it has ended after k iterations.
Erasing(S, g, k) ==
    {c \in [t : Tree, node : Node \cup {NULL}, parent : Node \cup {NULL}] :
       \E D, h : /\ EraseInv(c.t, S, D, h, g, c.node, c.parent)
                 /\ Ended(c.t, c.node) \/ N - Cardinality(D[c.parent]) + 1 <= k}

\* The loop ends.
LEMMA RepairEraseSays ==
  ASSUME NEW S, NEW g, NEW k \in Nat, NEW c \in Erasing(S, g, k)
  PROVE  /\ RepairErase(c) = c \/ (k > 0 /\ RepairErase(c) \in Erasing(S, g, k - 1))
         /\ RepairErase(c) = c => Ended(c.t, c.node)
<1> DEFINE t == c.t
           x == c.node
           p == c.parent
           e == RepairErase(c)
<1>1. c = [t |-> t, node |-> x, parent |-> p] /\ t \in Tree
  BY DEF Erasing
<1>2. PICK D, h : /\ EraseInv(t, S, D, h, g, x, p)
                  /\ Ended(t, x) \/ N - Cardinality(D[p]) + 1 <= k
  BY DEF Erasing
<1>3. CASE Ended(t, x)
  <2>1. e = c
    BY <1>3 DEF RepairErase, Ended
  <2> QED BY <1>3, <2>1
<1>4. CASE ~Ended(t, x)
  <2>1. ErasedStep(t, S, D, g, p, e) /\ x # p
    <3> HIDE DEF t, x, p
    <3> QED BY <1>1, <1>2, <1>4, EraseStep
  <2>2. PICK D2, h2 : /\ EraseInv(e.t, S, D2, h2, g, e.node, e.parent)
                      /\ Ended(e.t, e.node) \/ (D2 = D /\ e.parent = t.parent[p] /\ p # t.root)
    BY <2>1 DEF ErasedStep
  <2>3. e = [t |-> e.t, node |-> e.node, parent |-> e.parent] /\ (e.node = p \/ e.node = e.t.root)
    BY <2>1 DEF ErasedStep
  <2>4. e # c
    <3>1. SUFFICES ASSUME e = c PROVE FALSE
      OBVIOUS
    <3>2. e.node = x /\ e.t = t
      BY <3>1
    <3>3. x = t.root
      BY <2>1, <2>3, <3>2
    <3> QED BY <1>4, <3>3 DEF Ended
  <2> HIDE DEF t, x, p, e
  <2>5. /\ Shape(t, S, D) /\ p \in S /\ D \in [Node -> SUBSET Node] /\ S \subseteq Node /\ p \in Node
    BY <1>2, <1>4 DEF EraseInv, Ended, Shape
  <2>6. N \in Nat /\ Cardinality(D[p]) \in Nat /\ Cardinality(D[p]) <= N
    BY <2>5, NodeFacts
  <2>7. k > 0 /\ k - 1 \in Nat /\ N - Cardinality(D[p]) + 1 <= k
    BY <1>2, <1>4, <2>6
  <2>8. e.t \in Tree /\ e.node \in Node \cup {NULL} /\ e.parent \in Node \cup {NULL}
    BY <2>2 DEF EraseInv, Shape
  <2>9. Ended(e.t, e.node) \/ N - Cardinality(D2[e.parent]) + 1 <= k - 1
    <3>1. SUFFICES ASSUME ~Ended(e.t, e.node) PROVE N - Cardinality(D2[e.parent]) + 1 <= k - 1
      OBVIOUS
    <3> DEFINE q == t.parent[p]
    <3>2. D2 = D /\ e.parent = q /\ p # t.root
      BY <2>2, <3>1
    <3>3. q \in S
      BY <2>5, <3>2, NodeSays
    <3>4. PICK r \in Side : t.kid[r][q] = p
      BY <2>5, <3>2, OnePlace, SideInSide
    <3>5. p # NULL
      BY <2>5, NodeFacts
    <3>6. D[p] \subseteq D[q] /\ q \notin D[p] /\ q \in D[q]
      <4>1. Sub(D, p) \subseteq D[q] /\ q \notin Sub(D, p)
        BY <2>5, <3>3, <3>4, KidSays
      <4>2. q \in D[q]
        BY <2>5, <3>3, NodeSays
      <4> QED BY <3>5, <4>1, <4>2 DEF Sub
    <3>7. /\ Cardinality(D[p]) \in Nat /\ Cardinality(D[q]) \in Nat
          /\ Cardinality(D[p]) < Cardinality(D[q]) /\ Cardinality(D[q]) <= N
      <4>1. D[p] \in SUBSET Node /\ D[q] \in SUBSET Node /\ D[p] # D[q]
        BY <2>5, <3>3, <3>6
      <4> QED BY <3>6, <4>1, Larger
    <3> HIDE DEF q
    <3>8. N - Cardinality(D[q]) + 1 <= k - 1
      BY <2>6, <2>7, <3>7
    <3> QED BY <3>2, <3>8
  <2>10. e \in [t : Tree, node : Node \cup {NULL}, parent : Node \cup {NULL}]
    BY <2>3, <2>8
  <2>11. e \in Erasing(S, g, k - 1)
    BY <2>2, <2>9, <2>10 DEF Erasing
  <2> QED BY <2>4, <2>7, <2>11 DEF e
<1> QED BY <1>3, <1>4

\* At the end node gets black.
LEMMA NodeBlackSays ==
  ASSUME NEW t, NEW S, NEW D, NEW h, NEW g, NEW x, NEW p, EraseInv(t, S, D, h, g, x, p),
         Ended(t, x)
  PROVE  \E h2 : TreeBut(IF x = NULL THEN t ELSE Recolored(t, {x}, {}), S, D, h2, g)
<1>1. /\ Shape(t, S, D) /\ h \in [Node -> Nat] /\ x \in S \cup {NULL}
      /\ t \in Tree /\ S \subseteq Node /\ RootOK(t, S, D)
      /\ \A m \in S : RedOK(t, m) \/ m = x \/ (x # NULL /\ t.parent[m] = x)
      /\ \A m \in Node \ (S \cup {g}) : Clear(t, m)
      /\ x = t.root => \A m \in S : HtOK(t, h, m)
  BY DEF EraseInv, Shape
<1>2. CASE x = NULL
  <2>1. t.root = NULL
    BY <1>2 DEF Ended, IsRed
  <2>2. S = {}
    BY <1>1, <2>1, NodeFacts DEF RootOK
  <2>3. TreeBut(t, S, D, h, g)
    BY <1>1, <2>2 DEF TreeBut
  <2> QED BY <1>2, <2>3
<1>3. CASE x # NULL
  <2> DEFINE t2 == Recolored(t, {x}, {})
  <2>1. x \in S /\ x \in Node
    BY <1>1, <1>3
  <2>2. /\ t2 \in Tree /\ t2.kid = t.kid /\ t2.parent = t.parent /\ t2.root = t.root
        /\ t2.black = t.black \cup {x}
    <3>1. {x} \subseteq Node
      BY <2>1
    <3> QED BY <1>1, <3>1, RecoloredSays
  <2> HIDE DEF t2
  <2>3. Shape(t2, S, D)
    BY <1>1, <2>2, SameShape
  <2>4. ASSUME NEW m \in S PROVE RedOK(t2, m)
    <3>1. CASE m = x
      BY <2>2, <3>1 DEF RedOK, IsRed
    <3>2. CASE t.parent[m] = x
      <4>1. m # t.root
        BY <1>1, <1>3, <3>2, NodeSays
      <4> QED BY <2>2, <3>2, <4>1 DEF RedOK, IsRed
    <3>3. CASE RedOK(t, m)
      BY <2>2, <3>3 DEF RedOK, IsRed
    <3> QED BY <1>1, <3>1, <3>2, <3>3
  <2>5. ASSUME NEW m \in Node \ (S \cup {g}) PROVE Clear(t2, m)
    BY <1>1, <2>1, <2>2 DEF Clear
  <2>6. ASSUME NEW h2 \in [Node -> Nat], \A m \in S : HtOK(t2, h2, m) PROVE \E k2 : TreeBut(t2, S, D, k2, g)
    <3>1. TreeBut(t2, S, D, h2, g)
      BY <2>3, <2>4, <2>5, <2>6 DEF TreeBut
    <3> QED BY <3>1
  <2>7. CASE x \in t.black
    <3>1. x = t.root
      BY <2>7 DEF Ended, IsRed
    <3>2. \A m \in S : HtOK(t, h, m)
      BY <1>1, <3>1
    <3>3. t2.black = t.black
      BY <2>2, <2>7
    <3>4. \A m \in S : HtOK(t2, h, m)
      BY <2>2, <3>2, <3>3 DEF HtOK, Bit
    <3>5. \E k2 : TreeBut(t2, S, D, k2, g)
      BY <1>1, <2>6, <3>4
    <3> QED BY <1>3, <3>5 DEF t2
  <2>8. CASE x \notin t.black
    <3> DEFINE h2 == [h EXCEPT ![x] = h[x] + 1]
    <3>1. h2 \in [Node -> Nat] /\ h2[x] = h[x] + 1 /\ h[x] \in Nat /\ \A m \in Node \ {x} : h2[m] = h[m]
      BY <1>1, <2>1
    <3> HIDE DEF h2
    <3>2. Bit(t2, x) = 1 /\ Bit(t, x) = 0 /\ \A m \in S \ {x} : Bit(t2, m) = Bit(t, m)
      BY <2>2, <2>8 DEF Bit
    <3>3. ASSUME NEW m \in S, NEW r \in Side, HtOK(t, h, m), t.kid[r][m] # x
          PROVE  h2[m] = Ht(h2, t.kid[r][m]) + Bit(t2, m)
      <4>1. h[m] = Ht(h, t.kid[r][m]) + Bit(t, m)
        BY <3>3 DEF HtOK
      <4>2. t.kid[r][m] \in S \cup {NULL}
        BY <1>1, KidSays
      <4>3. Ht(h2, t.kid[r][m]) = Ht(h, t.kid[r][m]) /\ Ht(h, t.kid[r][m]) \in Nat
        BY <1>1, <3>1, <3>3, <4>2 DEF Ht
      <4>4. CASE m = x
        BY <3>1, <3>2, <4>1, <4>3, <4>4
      <4>5. CASE m # x
        BY <1>1, <3>1, <3>2, <4>1, <4>3, <4>5
      <4> QED BY <4>4, <4>5
    <3>4. CASE x = t.root
      <4>1. ASSUME NEW m \in S, NEW r \in Side PROVE h2[m] = Ht(h2, t.kid[r][m]) + Bit(t2, m)
        <5>1. t.kid[r][m] # x
          BY <1>1, <1>3, <3>4, KidSays
        <5> QED BY <1>1, <3>3, <3>4, <5>1
      <4>2. \A m \in S : HtOK(t2, h2, m)
        BY <2>2, <4>1 DEF HtOK
      <4>3. \E k2 : TreeBut(t2, S, D, k2, g)
        BY <2>6, <3>1, <4>2
      <4> QED BY <1>3, <4>3 DEF t2
    <3>5. CASE x # t.root
      <4>1. p \in S /\ \A m \in S \ {p} : HtOK(t, h, m)
        BY <3>5 DEF EraseInv
      <4>2. PICK s \in Side : /\ t.kid[s][p] = x
                              /\ h[p] = Ht(h, t.kid[Other(s)][p]) + Bit(t, p)
                              /\ Ht(h, t.kid[Other(s)][p]) = Ht(h, x) + 1
        BY <3>5 DEF EraseInv
      <4>3. \A r \in Side : r = s \/ r = Other(s)
        BY BeforeFacts
      <4>4. x # p /\ Ht(h, x) = h[x] /\ Ht(h2, x) = h2[x]
        BY <1>1, <1>3, <4>1, <4>2, KidSays DEF Ht
      <4>5. t.kid[Other(s)][p] # x
        BY <3>1, <4>2, <4>4
      <4>6. t.kid[Other(s)][p] \in S \cup {NULL}
        <5>1. Other(s) \in Side
          BY BeforeFacts
        <5> QED BY <1>1, <4>1, <5>1, KidSays
      <4>7. Ht(h2, t.kid[Other(s)][p]) = Ht(h, t.kid[Other(s)][p])
        BY <1>1, <3>1, <4>5, <4>6 DEF Ht
      <4>8. h2[p] = h[p] /\ Bit(t2, p) = Bit(t, p)
        BY <1>1, <3>1, <3>2, <4>1, <4>4
      <4>9. ASSUME NEW m \in S, NEW r \in Side PROVE h2[m] = Ht(h2, t.kid[r][m]) + Bit(t2, m)
        <5>1. CASE m = p /\ r = s
          BY <3>1, <4>2, <4>4, <4>7, <4>8, <5>1
        <5>2. CASE m = p /\ r = Other(s)
          BY <4>2, <4>7, <4>8, <5>2
        <5>3. CASE m # p
          <6>1. t.kid[r][m] # x
            <7>1. t.kid[r][m] = x => m = t.parent[x]
              BY <1>1, <2>1, OnePlace
            <7>2. p = t.parent[x]
              BY <1>1, <2>1, <4>1, <4>2, OnePlace
            <7> QED BY <5>3, <7>1, <7>2
          <6> QED BY <3>3, <4>1, <5>3, <6>1
        <5> QED BY <4>3, <5>1, <5>2, <5>3
      <4>10. \A m \in S : HtOK(t2, h2, m)
        BY <2>2, <4>9 DEF HtOK
      <4>11. \E k2 : TreeBut(t2, S, D, k2, g)
        BY <2>6, <3>1, <4>10
      <4> QED BY <1>3, <4>11 DEF t2
    <3> QED BY <3>4, <3>5
  <2> QED BY <2>7, <2>8
<1> QED BY <1>2, <1>3

\* __rb_erase_color leaves a red-black tree.
LEMMA EraseColorSays ==
  ASSUME NEW t, NEW S, NEW D, NEW h, NEW g, NEW x, NEW p, EraseInv(t, S, D, h, g, x, p)
  PROVE  \E D2, h2 : TreeBut(rb_erase_color(t, x, p), S, D2, h2, g)
<1> DEFINE Q == [k \in Nat |-> Erasing(S, g, k)]
           c == [t |-> t, node |-> x, parent |-> p]
<1>1. /\ t \in Tree /\ S \subseteq Node /\ x \in Node \cup {NULL} /\ p \in Node \cup {NULL}
      /\ D \in [Node -> SUBSET Node] /\ Shape(t, S, D) /\ (x # t.root => p \in S)
  BY DEF EraseInv, Shape
<1>2. N \in Nat
  BY NodeFacts
<1>3. c \in Q[N]
  <2>1. /\ c \in [t : Tree, node : Node \cup {NULL}, parent : Node \cup {NULL}]
        /\ c.t = t /\ c.node = x /\ c.parent = p
    BY <1>1
  <2>2. Ended(t, x) \/ N - Cardinality(D[p]) + 1 <= N
    <3>1. SUFFICES ASSUME ~Ended(t, x) PROVE N - Cardinality(D[p]) + 1 <= N
      OBVIOUS
    <3>2. p \in S /\ p \in Node
      BY <1>1, <3>1 DEF Ended
    <3>3. p \in D[p] /\ D[p] \in SUBSET Node
      BY <1>1, <3>2, NodeSays
    <3>4. {} \in SUBSET Node /\ {} # D[p]
      BY <3>3
    <3>5. Cardinality({}) \in Nat /\ Cardinality(D[p]) \in Nat /\ Cardinality({}) < Cardinality(D[p])
      BY <3>3, <3>4, Larger
    <3> QED BY <1>2, <3>5
  <2>3. c \in Erasing(S, g, N)
    BY <2>1, <2>2 DEF Erasing
  <2> QED BY <1>2, <2>3
<1>4. \A k \in Nat : \A y \in Q[k] : RepairErase(y) = y \/ (k > 0 /\ RepairErase(y) \in Q[k - 1])
  <2> SUFFICES ASSUME NEW k \in Nat, NEW y \in Q[k]
               PROVE  RepairErase(y) = y \/ (k > 0 /\ RepairErase(y) \in Q[k - 1])
    OBVIOUS
  <2>1. RepairErase(y) = y \/ (k > 0 /\ RepairErase(y) \in Erasing(S, g, k - 1))
    BY RepairEraseSays
  <2>2. k > 0 => Q[k - 1] = Erasing(S, g, k - 1)
    OBVIOUS
  <2> HIDE DEF Q
  <2>3. CASE RepairErase(y) = y
    BY <2>3
  <2>4. CASE k > 0 /\ RepairErase(y) \in Erasing(S, g, k - 1)
    BY <2>2, <2>4
  <2> QED BY <2>1, <2>3, <2>4
<1> HIDE DEF Q, c
<1>5. PICK y : /\ Loop(RepairErase, c) = y /\ RepairErase(y) = y
               /\ \E k \in 0..N : y \in Q[k]
  BY <1>2, <1>3, <1>4, EraseLoop
<1>6. PICK k \in Nat : y \in Erasing(S, g, k)
  BY <1>2, <1>5 DEF Q
<1>7. PICK D2, h2 : EraseInv(y.t, S, D2, h2, g, y.node, y.parent)
  BY <1>6 DEF Erasing
<1>8. Ended(y.t, y.node)
  BY <1>5, <1>6, RepairEraseSays
<1>9. rb_erase_color(t, x, p) = IF y.node = NULL THEN y.t ELSE Recolored(y.t, {y.node}, {})
  BY <1>5 DEF rb_erase_color, c, NodeBlack
<1>10. \E h3 : TreeBut(IF y.node = NULL THEN y.t ELSE Recolored(y.t, {y.node}, {}), S, D2, h3, g)
  BY <1>7, <1>8, NodeBlackSays
<1> QED BY <1>9, <1>10
-----------------------------------------------------------------------------
(* Removal: the node leaves the tree. *)

\* v is t after c, the only child of n, has taken the place of n.
Cut(t, v, S, n, c) ==
    /\ v \in Tree /\ v.black = t.black
    /\ v.root = IF n = t.root THEN c ELSE t.root
    /\ \A m \in S, r \in Side : v.kid[r][m] = IF t.kid[r][m] = n THEN c ELSE t.kid[r][m]
    /\ \A m \in Node \ S, r \in Side : v.kid[r][m] = t.kid[r][m]
    /\ \A m \in Node : v.parent[m] = IF c # NULL /\ m = c THEN t.parent[n] ELSE t.parent[m]

\* The assignments.
LEMMA CutFields ==
  ASSUME NEW t, NEW S, NEW D, Shape(t, S, D), NEW n \in S, NEW c \in Node \cup {NULL}
  PROVE  Cut(t, Relink(rb_set_parent(t, c, t.parent[n]), t.parent[n], n, c), S, n, c)
<1> DEFINE p == t.parent[n]
           u == rb_set_parent(t, c, p)
           v == Relink(u, p, n, c)
<1>1. t \in Tree /\ S \subseteq Node /\ n \in Node
  BY DEF Shape
<1>2. p \in S \cup {NULL} /\ p \in Node \cup {NULL} /\ (p = NULL <=> n = t.root)
  BY <1>1, NodeSays
<1> HIDE DEF p
<1>3. /\ u \in Tree /\ u.kid = t.kid /\ u.black = t.black /\ u.root = t.root
      /\ \A x \in Node : u.parent[x] = IF c # NULL /\ x = c THEN p ELSE t.parent[x]
  BY <1>1, <1>2, SetParentSays
<1> HIDE DEF u
<1>4. /\ v \in Tree /\ v.parent = u.parent /\ v.black = u.black
      /\ v.root = IF p = NULL THEN c ELSE u.root
      /\ \A r \in Side, x \in Node :
           v.kid[r][x] = IF p # NULL /\ x = p /\ r = SideIn(u, p, n) THEN c ELSE u.kid[r][x]
  BY <1>2, <1>3, RelinkSays
<1> HIDE DEF v
<1>5. SideIn(u, p, n) = SideIn(t, p, n)
  BY <1>3 DEF SideIn
<1>6. ASSUME NEW m \in S, NEW r \in Side
      PROVE  v.kid[r][m] = IF t.kid[r][m] = n THEN c ELSE t.kid[r][m]
  <2>1. v.kid[r][m] = IF p # NULL /\ m = p /\ r = SideIn(t, p, n) THEN c ELSE t.kid[r][m]
    BY <1>1, <1>3, <1>4, <1>5
  <2>2. t.kid[r][m] = n <=> p # NULL /\ m = p /\ r = SideIn(t, p, n)
    BY <1>1, <1>2, OnePlace DEF p
  <2> QED BY <2>1, <2>2
<1>7. \A m \in Node \ S, r \in Side : v.kid[r][m] = t.kid[r][m]
  BY <1>2, <1>3, <1>4
<1>8. Cut(t, v, S, n, c)
  BY <1>2, <1>3, <1>4, <1>6, <1>7 DEF Cut, p
<1> QED BY <1>8 DEF v, u, p

\* What is left is a search tree.
LEMMA CutShape ==
  ASSUME NEW t, NEW S, NEW D, Shape(t, S, D), NEW n \in S, NEW s \in Side, t.kid[s][n] = NULL,
         NEW v, Cut(t, v, S, n, t.kid[Other(s)][n])
  PROVE  Shape(v, S \ {n}, [m \in Node |-> D[m] \ {n}])
<1> DEFINE c == t.kid[Other(s)][n]
           o == Other(s)
           p == t.parent[n]
           S2 == S \ {n}
           D2 == [m \in Node |-> D[m] \ {n}]
<1>1. t \in Tree /\ S \subseteq Node /\ D \in [Node -> SUBSET Node] /\ RootOK(t, S, D) /\ n \in Node
  BY DEF Shape
<1>2. o \in Side /\ Other(o) = s /\ \A r \in Side : r = s \/ r = o
  BY BeforeFacts
<1>3. /\ c \in S \cup {NULL} /\ c # n /\ n \notin Sub(D, c)
      /\ c # NULL => c \in S /\ c \in Node /\ t.parent[c] = n /\ c # t.root /\ Sub(D, c) = D[c]
  BY <1>1, <1>2, KidSays
<1>4. D[n] = {n} \cup Sub(D, c)
  <2>1. D[n] = {n} \cup Sub(D, c) \cup Sub(D, t.kid[Other(o)][n])
    BY <1>1, <1>2, KidSays
  <2>2. Sub(D, t.kid[Other(o)][n]) = {}
    BY <1>2 DEF Sub
  <2> QED BY <2>1, <2>2
<1>5. /\ v \in Tree /\ v.root = IF n = t.root THEN c ELSE t.root
      /\ \A m \in S, r \in Side : v.kid[r][m] = IF t.kid[r][m] = n THEN c ELSE t.kid[r][m]
      /\ \A m \in Node : v.parent[m] = IF c # NULL /\ m = c THEN p ELSE t.parent[m]
  BY DEF Cut
<1>6. D2 \in [Node -> SUBSET Node] /\ \A m \in Node : D2[m] = D[m] \ {n}
  BY <1>1
<1>7. /\ n # NULL /\ p \in S \cup {NULL} /\ (p = NULL <=> n = t.root) /\ p # n
  <2>1. /\ n # NULL /\ p \in S \cup {NULL} /\ (p = NULL <=> n = t.root)
    BY NodeSays
  <2>2. ASSUME p # NULL PROVE p # n
    <3>1. PICK r \in Side : t.kid[r][p] = n
      BY <2>1, <2>2, OnePlace, SideInSide
    <3> QED BY <2>1, <2>2, <3>1, KidSays
  <2> QED BY <2>1, <2>2
<1> HIDE DEF c, o, p, D2
<1>8. ASSUME NEW m \in S2, NEW r \in Side
      PROVE  /\ v.kid[r][m] # n
             /\ v.kid[r][m] # NULL => v.kid[r][m] \in S2 /\ v.parent[v.kid[r][m]] = m
             /\ Sub(D2, v.kid[r][m]) = Sub(D, t.kid[r][m]) \ {n}
  <2> DEFINE k == t.kid[r][m]
  <2>1. k \in S \cup {NULL} /\ (k # NULL => k \in S /\ t.parent[k] = m /\ k # t.root)
    BY KidSays
  <2>2. v.kid[r][m] = IF k = n THEN c ELSE k
    BY <1>5
  <2> HIDE DEF k
  <2>3. CASE k = n
    <3>1. v.kid[r][m] = c /\ m = p
      BY <1>7, <2>1, <2>2, <2>3 DEF p
    <3>2. c # NULL => c \in S2 /\ v.parent[c] = m
      BY <1>3, <1>5, <3>1
    <3>3. Sub(D2, c) = Sub(D, c)
      <4>1. CASE c = NULL
        BY <4>1 DEF Sub
      <4>2. CASE c # NULL
        <5>1. D2[c] = D[c]
          <6>1. c \in Node /\ n \notin D[c]
            BY <1>3, <4>2
          <6>2. D2[c] = D[c] \ {n}
            BY <1>6, <6>1
          <6> QED BY <6>1, <6>2
        <5> QED BY <4>2, <5>1 DEF Sub
      <4> QED BY <4>1, <4>2
    <3>4. Sub(D, k) = {n} \cup Sub(D, c)
      BY <1>4, <1>7, <2>3 DEF Sub
    <3>5. Sub(D2, c) = Sub(D, k) \ {n}
      BY <1>3, <3>3, <3>4
    <3> QED BY <1>3, <3>1, <3>2, <3>5 DEF k
  <2>4. CASE k # n
    <3>1. v.kid[r][m] = k
      BY <2>2, <2>4
    <3>2. k # NULL => k # c
      BY <1>3, <2>1
    <3>3. k # NULL => k \in S2 /\ v.parent[k] = m
      BY <1>1, <1>5, <2>1, <2>4, <3>2
    <3>4. Sub(D2, k) = Sub(D, k) \ {n}
      BY <1>1, <1>6, <2>1 DEF Sub
    <3> QED BY <2>4, <3>1, <3>3, <3>4 DEF k
  <2> QED BY <2>3, <2>4
<1>9. RootOK(v, S2, D2)
  <2>1. t.root \in S /\ t.parent[t.root] = NULL /\ D[t.root] = S
    BY <1>1 DEF RootOK
  <2>2. CASE n = t.root
    <3>1. v.root = c /\ p = NULL /\ S = {n} \cup Sub(D, c)
      BY <1>4, <1>5, <1>7, <2>1, <2>2
    <3>2. CASE c = NULL
      BY <3>1, <3>2 DEF RootOK, Sub
    <3>3. CASE c # NULL
      <4>1. D2[c] = S2 /\ c \in S2
        BY <1>3, <1>6, <3>1, <3>3
      <4>2. v.parent[c] = NULL
        BY <1>3, <1>5, <3>1, <3>3
      <4> QED BY <3>1, <4>1, <4>2 DEF RootOK
    <3> QED BY <3>2, <3>3
  <2>3. CASE n # t.root
    <3>1. v.root = t.root /\ t.root # c /\ t.root \in S2
      BY <1>1, <1>3, <1>5, <2>1, <2>3, NodeFacts
    <3>2. D2[t.root] = S2 /\ v.parent[t.root] = NULL
      BY <1>1, <1>5, <1>6, <2>1, <3>1
    <3> QED BY <3>1, <3>2 DEF RootOK
  <2> QED BY <2>2, <2>3
<1>10. ASSUME NEW m \in S2
       PROVE  /\ D2[m] \subseteq S2 /\ KidsOK(v, S2, m) /\ ParentOK(v, S2, m)
              /\ SubOK(v, D2, m) /\ SortedAt(v, D2, m)
  <2>1. D2[m] \subseteq S2
    BY <1>1, <1>6, NodeSays
  <2>2. KidsOK(v, S2, m)
    BY <1>8 DEF KidsOK
  <2>3. ASSUME m # v.root
        PROVE  v.parent[m] \in S2 /\ \E r \in Side : v.kid[r][v.parent[m]] = m
    <3>1. CASE m = c
      <4>1. n # t.root
        BY <1>5, <2>3, <3>1
      <4>2. p \in S /\ p # n
        BY <1>7, <4>1
      <4>3. PICK r \in Side : t.kid[r][p] = n
        BY <4>1, OnePlace, SideInSide DEF p
      <4>4. v.kid[r][p] = c
        BY <1>5, <4>2, <4>3
      <4>5. v.parent[m] = p
        BY <1>1, <1>5, <3>1, NodeFacts
      <4> QED BY <3>1, <4>2, <4>4, <4>5
    <3>2. CASE m # c
      <4>1. m # t.root
        BY <1>5, <2>3
      <4>2. t.parent[m] \in S
        BY <4>1, NodeSays
      <4>3. PICK r \in Side : t.kid[r][t.parent[m]] = m
        BY <4>1, OnePlace, SideInSide
      <4>4. t.parent[m] # n
        <5>1. SUFFICES ASSUME t.parent[m] = n PROVE FALSE
          OBVIOUS
        <5>2. r = s \/ r = o
          BY <1>2
        <5>3. m = NULL \/ m = c
          BY <4>3, <5>1, <5>2 DEF c, o
        <5> QED BY <1>1, <3>2, <5>3, NodeFacts
      <4>5. v.kid[r][t.parent[m]] = m
        BY <1>5, <4>2, <4>3
      <4>6. v.parent[m] = t.parent[m]
        BY <1>1, <1>5, <3>2
      <4> QED BY <4>2, <4>4, <4>5, <4>6
    <3> QED BY <3>1, <3>2
  <2>4. ParentOK(v, S2, m)
    BY <2>3 DEF ParentOK
  <2>5. ASSUME NEW r \in Side
        PROVE  D2[m] = {m} \cup Sub(D2, v.kid[r][m]) \cup Sub(D2, v.kid[Other(r)][m])
    <3>1. D[m] = {m} \cup Sub(D, t.kid[r][m]) \cup Sub(D, t.kid[Other(r)][m])
      BY KidSays
    <3>2. Other(r) \in Side
      BY BeforeFacts
    <3>3. /\ Sub(D2, v.kid[r][m]) = Sub(D, t.kid[r][m]) \ {n}
          /\ Sub(D2, v.kid[Other(r)][m]) = Sub(D, t.kid[Other(r)][m]) \ {n}
      BY <1>8, <3>2
    <3>4. D2[m] = D[m] \ {n} /\ m # n
      BY <1>1, <1>6
    <3> QED BY <3>1, <3>3, <3>4
  <2>6. SubOK(v, D2, m)
    BY <2>5 DEF SubOK
  <2>7. SortedAt(v, D2, m)
    <3> SUFFICES ASSUME NEW r \in Side, NEW y \in Sub(D2, v.kid[r][m]) PROVE Before(r, y, m)
      BY DEF SortedAt
    <3>1. y \in Sub(D, t.kid[r][m])
      BY <1>8
    <3> QED BY <3>1, KidSays
  <2> QED BY <2>1, <2>2, <2>4, <2>6, <2>7
<1> QED BY <1>1, <1>5, <1>6, <1>9, <1>10 DEF Shape, D2

\* A red node leaves a red-black tree; the place of a black one lacks a black node.
LEMMA CutSays ==
  ASSUME NEW t, NEW S, NEW D, NEW h, TreeInv(t, S, D, h), NEW n \in S, NEW s \in Side,
         t.kid[s][n] = NULL, NEW v, Cut(t, v, S, n, t.kid[Other(s)][n])
  PROVE  LET D2 == [m \in Node |-> D[m] \ {n}]
         IN  /\ n \notin t.black => TreeBut(v, S \ {n}, D2, h, n)
             /\ n \in t.black => EraseInv(v, S \ {n}, D2, h, n, t.kid[Other(s)][n], t.parent[n])
<1> DEFINE c == t.kid[Other(s)][n]
           o == Other(s)
           p == t.parent[n]
           S2 == S \ {n}
           D2 == [m \in Node |-> D[m] \ {n}]
<1>1. /\ Shape(t, S, D) /\ t \in Tree /\ S \subseteq Node /\ RootOK(t, S, D) /\ n \in Node
      /\ h \in [Node -> Nat] /\ n # NULL
      /\ \A m \in S : HtOK(t, h, m) /\ RedOK(t, m)
      /\ \A m \in Node \ S : Clear(t, m)
  BY NodeFacts DEF TreeInv, Shape
<1>2. o \in Side /\ Other(o) = s /\ \A r \in Side : r = s \/ r = o
  BY BeforeFacts
<1>3. /\ c \in S \cup {NULL} /\ c # n
      /\ c # NULL => c \in S /\ c \in Node /\ t.parent[c] = n /\ c # t.root
  BY <1>1, <1>2, KidSays
<1>4. /\ v \in Tree /\ v.black = t.black /\ v.root = IF n = t.root THEN c ELSE t.root
      /\ \A m \in S, r \in Side : v.kid[r][m] = IF t.kid[r][m] = n THEN c ELSE t.kid[r][m]
      /\ \A m \in Node \ S, r \in Side : v.kid[r][m] = t.kid[r][m]
      /\ \A m \in Node : v.parent[m] = IF c # NULL /\ m = c THEN p ELSE t.parent[m]
  BY DEF Cut
<1>5. Shape(v, S2, D2)
  BY <1>1, CutShape
<1>6. /\ p \in S \cup {NULL} /\ (p = NULL <=> n = t.root) /\ p # n
  <2>1. p \in S \cup {NULL} /\ (p = NULL <=> n = t.root)
    BY <1>1, NodeSays
  <2>2. ASSUME p # NULL PROVE p # n
    <3>1. PICK r \in Side : t.kid[r][p] = n
      BY <1>1, <2>1, <2>2, OnePlace, SideInSide
    <3> QED BY <1>1, <2>1, <2>2, <3>1, KidSays
  <2> QED BY <1>1, <2>1, <2>2
<1>7. h[n] = Ht(h, c) + Bit(t, n) /\ Ht(h, c) \in Nat /\ h[n] \in Nat
  <2>1. h[n] = Ht(h, c) + Bit(t, n)
    BY <1>1, <1>2 DEF HtOK
  <2> QED BY <1>1, <1>3, <2>1 DEF Ht
<1> HIDE DEF c, o, p, D2
<1>8. ASSUME NEW m \in S2, NEW r \in Side, t.kid[r][m] # n \/ n \notin t.black
      PROVE  h[m] = Ht(h, v.kid[r][m]) + Bit(v, m)
  <2>1. h[m] = Ht(h, t.kid[r][m]) + Bit(t, m) /\ Bit(v, m) = Bit(t, m)
    BY <1>1, <1>4 DEF HtOK, Bit
  <2>2. CASE t.kid[r][m] # n
    BY <1>4, <2>1, <2>2
  <2>3. CASE t.kid[r][m] = n /\ n \notin t.black
    <3>1. v.kid[r][m] = c /\ Bit(t, n) = 0
      BY <1>4, <2>3 DEF Bit
    <3>2. Ht(h, n) = Ht(h, c)
      BY <1>1, <1>7, <3>1 DEF Ht
    <3> QED BY <2>1, <2>3, <3>1, <3>2
  <2> QED BY <1>8, <2>2, <2>3
<1>9. ASSUME NEW m \in S2, m # c PROVE RedOK(v, m)
  <2>1. RedOK(t, m) /\ m \in Node
    BY <1>1
  <2>2. v.parent[m] = t.parent[m]
    BY <1>4, <1>9, <2>1
  <2>3. m # t.root => m # v.root
    BY <1>4, <1>9
  <2> QED BY <1>4, <2>1, <2>2, <2>3 DEF RedOK, IsRed
<1>10. ASSUME NEW m \in Node \ (S2 \cup {n}) PROVE Clear(v, m)
  <2>1. Clear(t, m) /\ m \in Node \ S /\ m # c
    BY <1>1, <1>3, NodeFacts
  <2> QED BY <1>4, <2>1 DEF Clear
<1>11. ASSUME n \notin t.black PROVE TreeBut(v, S2, D2, h, n)
  <2>1. \A m \in S2 : HtOK(v, h, m)
    BY <1>8, <1>11 DEF HtOK
  <2>2. c # NULL => RedOK(v, c)
    <3>1. SUFFICES ASSUME c # NULL PROVE ~IsRed(v, c)
      BY DEF RedOK
    <3>2. RedOK(t, c)
      BY <1>1, <1>3, <3>1
    <3> QED BY <1>1, <1>3, <1>4, <1>11, <3>1, <3>2 DEF RedOK, IsRed
  <2>3. \A m \in S2 : RedOK(v, m)
    BY <1>1, <1>9, <2>2, NodeFacts
  <2> QED BY <1>1, <1>5, <1>10, <2>1, <2>3 DEF TreeBut
<1>12. ASSUME n \in t.black PROVE EraseInv(v, S2, D2, h, n, c, p)
  <2>1. c \in S2 \cup {NULL} /\ p \in S2 \cup {NULL}
    BY <1>3, <1>6
  <2>2. c = v.root => \A m \in S2 : HtOK(v, h, m)
    <3>1. SUFFICES ASSUME c = v.root, NEW m \in S2 PROVE HtOK(v, h, m)
      OBVIOUS
    <3>2. n = t.root
      <4>1. t.root \in S /\ t.root # NULL
        BY <1>1, NodeFacts DEF RootOK
      <4> QED BY <1>3, <1>4, <3>1, <4>1
    <3>3. \A r \in Side : t.kid[r][m] # n
      <4> SUFFICES ASSUME NEW r \in Side PROVE t.kid[r][m] # n
        OBVIOUS
      <4> QED BY <1>1, <3>2, KidSays
    <3> QED BY <1>8, <3>3 DEF HtOK
  <2>3. ASSUME c # v.root
        PROVE  /\ p \in S2 /\ \A m \in S2 \ {p} : HtOK(v, h, m)
               /\ \E r \in Side : /\ v.kid[r][p] = c
                                  /\ h[p] = Ht(h, v.kid[Other(r)][p]) + Bit(v, p)
                                  /\ Ht(h, v.kid[Other(r)][p]) = Ht(h, c) + 1
    <3>1. n # t.root
      BY <1>4, <2>3
    <3>2. p \in S2 /\ p \in S
      BY <1>6, <2>1, <3>1
    <3>3. ASSUME NEW m \in S2 \ {p} PROVE HtOK(v, h, m)
      <4>1. \A r \in Side : t.kid[r][m] # n
        BY <1>1, OnePlace DEF p
      <4> QED BY <1>8, <4>1 DEF HtOK
    <3>4. PICK r \in Side : t.kid[r][p] = n
      BY <1>1, <3>1, OnePlace, SideInSide DEF p
    <3> DEFINE a == t.kid[Other(r)][p]
    <3>5. Other(r) \in Side
      BY BeforeFacts
    <3>6. a # n /\ a \in S \cup {NULL}
      BY <1>1, <3>2, <3>4, <3>5, KidSays
    <3>7. v.kid[r][p] = c /\ v.kid[Other(r)][p] = a
      BY <1>4, <3>2, <3>4, <3>5, <3>6
    <3>8. h[p] = Ht(h, n) + Bit(t, p) /\ h[p] = Ht(h, a) + Bit(t, p)
      <4>1. HtOK(t, h, p)
        BY <1>1, <3>2
      <4> QED BY <3>4, <3>5, <4>1 DEF HtOK
    <3> HIDE DEF a
    <3>9. Ht(h, n) = h[n] /\ Ht(h, a) \in Nat /\ Bit(t, p) \in Nat /\ Bit(v, p) = Bit(t, p) /\ Bit(t, n) = 1
      BY <1>1, <1>4, <1>12, <3>6 DEF Ht, Bit
    <3>10. Ht(h, a) = Ht(h, c) + 1 /\ h[p] = Ht(h, a) + Bit(v, p)
      BY <1>7, <3>8, <3>9
    <3> QED BY <3>2, <3>3, <3>7, <3>10
  <2>4. \A m \in S2 : RedOK(v, m) \/ m = c
    BY <1>9
  <2> QED BY <1>1, <1>5, <1>10, <2>1, <2>2, <2>3, <2>4 DEF EraseInv
<1> QED BY <1>11, <1>12 DEF c, p, D2

\* n is not in the tree any more, and is freed.
LEMMA FreedSays ==
  ASSUME NEW t, NEW S, NEW D, NEW h, NEW g \in Node, TreeBut(t, S, D, h, g), g \notin S
  PROVE  TreeInv(Freed(t, g), S, D, h)
<1> DEFINE v == Freed(t, g)
<1>1. /\ Shape(t, S, D) /\ t \in Tree /\ S \subseteq Node /\ D \in [Node -> SUBSET Node]
      /\ h \in [Node -> Nat]
      /\ \A m \in S : HtOK(t, h, m) /\ RedOK(t, m)
      /\ \A m \in Node \ (S \cup {g}) : Clear(t, m)
  BY DEF TreeBut, Shape
<1>2. /\ v \in Tree /\ v.black = t.black \ {g} /\ v.root = t.root
      /\ \A x \in Node : v.parent[x] = IF x = g THEN NULL ELSE t.parent[x]
      /\ \A r \in Side, x \in Node : v.kid[r][x] = IF x = g THEN NULL ELSE t.kid[r][x]
  BY <1>1 DEF Freed, Tree
<1> HIDE DEF v
<1>3. ASSUME NEW m \in S
      PROVE  /\ m \in Node /\ m # g /\ v.parent[m] = t.parent[m] /\ Bit(v, m) = Bit(t, m)
             /\ \A r \in Side : v.kid[r][m] = t.kid[r][m]
  <2>1. m \in Node /\ m # g
    BY <1>1
  <2> QED BY <1>2, <2>1 DEF Bit
<1>4. ASSUME NEW m \in S
      PROVE  /\ D[m] \subseteq S /\ KidsOK(v, S, m) /\ ParentOK(v, S, m)
             /\ SubOK(v, D, m) /\ SortedAt(v, D, m)
  <2>1. /\ D[m] \subseteq S /\ KidsOK(t, S, m) /\ ParentOK(t, S, m)
        /\ SubOK(t, D, m) /\ SortedAt(t, D, m)
    BY <1>1 DEF Shape
  <2>2. KidsOK(v, S, m)
    BY <1>3, <2>1 DEF KidsOK
  <2>3. ParentOK(v, S, m)
    BY <1>2, <1>3, <2>1 DEF ParentOK
  <2>4. \A r \in Side : Other(r) \in Side
    BY BeforeFacts
  <2>5. SubOK(v, D, m)
    BY <1>3, <2>1, <2>4 DEF SubOK
  <2>6. SortedAt(v, D, m)
    BY <1>3, <2>1 DEF SortedAt
  <2> QED BY <2>1, <2>2, <2>3, <2>5, <2>6
<1>5. RootOK(v, S, D)
  BY <1>1, <1>2, <1>3 DEF Shape, RootOK
<1>6. Shape(v, S, D)
  BY <1>1, <1>2, <1>4, <1>5 DEF Shape
<1>7. ASSUME NEW m \in S PROVE HtOK(v, h, m) /\ RedOK(v, m)
  <2>1. HtOK(t, h, m) /\ RedOK(t, m)
    BY <1>1
  <2>2. HtOK(v, h, m)
    BY <1>3, <2>1 DEF HtOK
  <2>3. m # t.root => t.parent[m] # g
    BY <1>1, NodeSays
  <2>4. RedOK(v, m)
    BY <1>2, <1>3, <2>1, <2>3 DEF RedOK, IsRed
  <2> QED BY <2>2, <2>4
<1>8. ASSUME NEW m \in Node \ S PROVE Clear(v, m)
  <2>1. CASE m = g
    BY <1>2, <2>1 DEF Clear
  <2>2. CASE m # g
    <3>1. Clear(t, m)
      BY <1>1, <2>2
    <3> QED BY <1>2, <2>2, <3>1 DEF Clear
  <2> QED BY <2>1, <2>2
<1>9. TreeInv(v, S, D, h)
  BY <1>1, <1>6, <1>7, <1>8 DEF TreeInv
<1> QED BY <1>9 DEF v

\* A node with at most one child is removed.
LEMMA EraseOuterSays ==
  ASSUME NEW t, NEW S, NEW D, NEW h, TreeInv(t, S, D, h), NEW n \in S,
         \E s \in Side : t.kid[s][n] = NULL
  PROVE  \E D2, h2 : TreeBut(EraseOuter(t, n), S \ {n}, D2, h2, n)
<1> DEFINE p == t.parent[n]
           c == IF t.kid["rb_left"][n] = NULL THEN t.kid["rb_right"][n] ELSE t.kid["rb_left"][n]
           v == Relink(rb_set_parent(t, c, p), p, n, c)
<1>1. PICK s \in Side : t.kid[s][n] = NULL /\ t.kid[Other(s)][n] = c
  <2>1. "rb_left" \in Side /\ "rb_right" \in Side /\ Other("rb_left") = "rb_right" /\ Other("rb_right") = "rb_left"
    BY DEF Side, Other
  <2>2. t.kid["rb_left"][n] = NULL \/ t.kid["rb_right"][n] = NULL
    BY DEF Side
  <2> QED BY <2>1, <2>2
<1>2. EraseOuter(t, n) = IF n \in t.black THEN rb_erase_color(v, c, p) ELSE v
  BY DEF EraseOuter
<1> HIDE DEF c
<1>3. Shape(t, S, D)
  BY DEF TreeInv
<1>4. c \in Node \cup {NULL}
  <2>1. Other(s) \in Side
    BY BeforeFacts
  <2> QED BY <1>1, <1>3, <2>1, KidSays
<1>5. Cut(t, v, S, n, t.kid[Other(s)][n])
  BY <1>1, <1>3, <1>4, CutFields
<1> HIDE DEF v, p
<1> DEFINE D2 == [m \in Node |-> D[m] \ {n}]
<1>6. /\ n \notin t.black => TreeBut(v, S \ {n}, D2, h, n)
      /\ n \in t.black => EraseInv(v, S \ {n}, D2, h, n, c, p)
  BY <1>1, <1>5, CutSays DEF p
<1> HIDE DEF D2
<1>7. CASE n \notin t.black
  BY <1>2, <1>6, <1>7
<1>8. CASE n \in t.black
  BY <1>2, <1>6, <1>8, EraseColorSays
<1> QED BY <1>7, <1>8

\* The nodes of D[x] that are not below y are after those that are.
FirstIn(D, x, y) == \A m \in D[x] \ D[y], z \in D[y] : Before("rb_left", z, m)

\* The way down to the first node of a subtree.
LEMMA LeftmostSays ==
  ASSUME NEW t, NEW S, NEW D, Shape(t, S, D), NEW x \in S
  PROVE  LET l == Leftmost(t, x)
         IN  /\ l \in D[x] /\ l \in S /\ t.kid["rb_left"][l] = NULL
             /\ \A m \in D[x] \ {l} : Before("rb_left", l, m)
             /\ l = x \/ t.kid["rb_left"][t.parent[l]] = l
<1> DEFINE Way(k) == {y \in D[x] : /\ Cardinality(D[y]) <= k /\ FirstIn(D, x, y)
                                   /\ y = x \/ t.kid["rb_left"][t.parent[y]] = y}
           Q == [k \in Nat |-> Way(k)]
           L == "rb_left"
           R == "rb_right"
<1>1. /\ L \in Side /\ R \in Side /\ Other(L) = R /\ Other(R) = L
  BY DEF Side, Other
<1>2. N \in Nat /\ S \subseteq Node /\ D \in [Node -> SUBSET Node] /\ D[x] \subseteq S /\ x \in D[x]
  BY NodeFacts, NodeSays DEF Shape
<1> HIDE DEF L, R
<1>3. x \in Q[N]
  <2>1. Cardinality(D[x]) <= N
    BY <1>2, NodeFacts
  <2>2. FirstIn(D, x, x)
    BY DEF FirstIn
  <2>3. x \in Way(N)
    BY <1>2, <2>1, <2>2
  <2> HIDE DEF Way
  <2> QED BY <1>2, <2>3
<1>4. ASSUME NEW y \in D[x]
      PROVE  /\ y \in S /\ y \in Node /\ D[y] \subseteq D[x] /\ y \in D[y] /\ D[y] \subseteq Node
             /\ D[y] = {y} \cup Sub(D, t.kid[L][y]) \cup Sub(D, t.kid[R][y])
             /\ t.kid[L][y] \in S \cup {NULL} /\ t.kid[L][y] # y
             /\ \A m \in Sub(D, t.kid[R][y]) : m \in Node /\ Before(L, y, m)
             /\ \A m \in Sub(D, t.kid[L][y]) : m \in Node /\ Before(L, m, y)
             /\ t.kid[L][y] # NULL => /\ t.kid[L][y] \in S /\ t.parent[t.kid[L][y]] = y
                                      /\ Sub(D, t.kid[L][y]) = D[t.kid[L][y]] /\ y \notin D[t.kid[L][y]]
                                      /\ D[t.kid[L][y]] \subseteq D[y] /\ t.kid[L][y] \in D[y]
  <2>1. y \in S /\ D[y] \subseteq D[x] /\ y \in Node
    BY <1>2, DownSays
  <2>2. y \in D[y] /\ D[y] \subseteq Node
    BY <2>1, NodeSays
  <2>3. /\ D[y] = {y} \cup Sub(D, t.kid[L][y]) \cup Sub(D, t.kid[R][y])
        /\ t.kid[L][y] \in S \cup {NULL} /\ t.kid[L][y] # y
    BY <1>1, <2>1, KidSays
  <2>4. \A m \in Sub(D, t.kid[L][y]) : m \in Node /\ Before(L, m, y)
    BY <1>1, <2>1, KidSays
  <2>5. t.kid[L][y] # NULL => /\ t.kid[L][y] \in S /\ t.parent[t.kid[L][y]] = y
                              /\ Sub(D, t.kid[L][y]) = D[t.kid[L][y]] /\ y \notin D[t.kid[L][y]]
                              /\ Sub(D, t.kid[L][y]) \subseteq D[y] /\ t.kid[L][y] \in D[y]
    BY <1>1, <2>1, KidSays
  <2>6. \A m \in Sub(D, t.kid[R][y]) : m \in Node /\ Before(R, m, y)
    BY <1>1, <2>1, KidSays
  <2>7. \A m \in Sub(D, t.kid[R][y]) : m \in Node /\ Before(L, y, m)
    BY <1>1, <2>1, <2>6, BeforeFacts
  <2> QED BY <2>1, <2>2, <2>3, <2>4, <2>5, <2>7
<1>5. ASSUME NEW k \in Nat, NEW y \in Way(k), t.kid[L][y] # NULL
      PROVE  k > 0 /\ t.kid[L][y] \in Way(k - 1)
  <2> DEFINE z == t.kid[L][y]
  <2>1. /\ y \in D[x] /\ Cardinality(D[y]) <= k /\ FirstIn(D, x, y)
    OBVIOUS
  <2>2. /\ z \in D[x] /\ D[z] \subseteq D[y] /\ y \notin D[z] /\ y \in D[y] /\ D[y] \subseteq Node
        /\ t.parent[z] = y /\ D[y] = {y} \cup D[z] \cup Sub(D, t.kid[R][y]) /\ D[y] \subseteq D[x]
        /\ \A m \in D[z] : m \in Node /\ Before(L, m, y)
        /\ \A m \in Sub(D, t.kid[R][y]) : m \in Node /\ Before(L, y, m)
        /\ y \in Node
    BY <1>4, <1>5, <2>1
  <2> HIDE DEF z, Way
  <2>3. /\ Cardinality(D[z]) \in Nat /\ Cardinality(D[y]) \in Nat /\ Cardinality(D[z]) < Cardinality(D[y])
    <3>1. D[z] \in SUBSET Node /\ D[y] \in SUBSET Node /\ D[z] # D[y]
      BY <2>2
    <3> QED BY <2>2, <3>1, Larger
  <2>4. k > 0 /\ Cardinality(D[z]) <= k - 1
    BY <2>1, <2>3
  <2>5. FirstIn(D, x, z)
    <3> SUFFICES ASSUME NEW m \in D[x] \ D[z], NEW w \in D[z] PROVE Before(L, w, m)
      BY DEF FirstIn, L
    <3>1. CASE m \notin D[y]
      BY <2>1, <2>2, <3>1 DEF FirstIn, L
    <3>2. CASE m = y
      BY <2>2, <3>2
    <3>3. CASE m \in Sub(D, t.kid[R][y])
      <4>1. Before(L, w, y) /\ Before(L, y, m) /\ w \in Node /\ m \in Node /\ y \in Node
        BY <2>2, <3>3
      <4> QED BY <1>1, <4>1, BeforeFacts
    <3> QED BY <2>2, <3>1, <3>2, <3>3
  <2>6. t.kid[L][t.parent[z]] = z
    BY <2>2 DEF z
  <2>7. z \in Way(k - 1)
    BY <2>2, <2>4, <2>5, <2>6 DEF Way, L
  <2> QED BY <2>4, <2>7 DEF z
<1>6. \A k \in Nat : \A y \in Q[k] : LeftStep(t, y) = y \/ (k > 0 /\ LeftStep(t, y) \in Q[k - 1])
  <2> SUFFICES ASSUME NEW k \in Nat, NEW y \in Q[k]
               PROVE  LeftStep(t, y) = y \/ (k > 0 /\ LeftStep(t, y) \in Q[k - 1])
    OBVIOUS
  <2>1. y \in Way(k) /\ (k > 0 => Q[k - 1] = Way(k - 1))
    OBVIOUS
  <2> HIDE DEF Q, Way
  <2>2. CASE t.kid[L][y] = NULL
    BY <2>2 DEF LeftStep, L
  <2>3. CASE t.kid[L][y] # NULL
    BY <1>5, <2>1, <2>3 DEF LeftStep, L
  <2> QED BY <2>2, <2>3
<1> HIDE DEF Q, Way
<1>7. PICK y : /\ Leftmost(t, x) = y /\ LeftStep(t, y) = y
               /\ \E k \in 0..N : y \in Q[k]
  BY <1>2, <1>3, <1>6, LeftmostLoop
<1>8. PICK k \in Nat : y \in Way(k)
  BY <1>2, <1>7 DEF Q
<1>9. y \in D[x] /\ FirstIn(D, x, y) /\ (y = x \/ t.kid[L][t.parent[y]] = y)
  BY <1>8 DEF Way, L
<1>10. y \in S /\ t.kid[L][y] = NULL
  BY <1>4, <1>7, <1>9 DEF LeftStep, L
<1>11. ASSUME NEW m \in D[x] \ {y} PROVE Before(L, y, m)
  <2>1. y \in D[y] /\ D[y] = {y} \cup Sub(D, t.kid[R][y])
    BY <1>4, <1>9, <1>10 DEF Sub
  <2>2. CASE m \in D[y]
    BY <1>4, <1>9, <2>1, <2>2
  <2>3. CASE m \notin D[y]
    BY <1>9, <2>1, <2>3 DEF FirstIn, L
  <2> QED BY <2>2, <2>3
<1> QED BY <1>7, <1>9, <1>10, <1>11 DEF L

\* k in the place of n.
Ren(n, k, m) == IF m = n THEN k ELSE m
RenSet(n, k, A) == IF n \in A THEN (A \ {n}) \cup {k} ELSE A
RenSub(D, n, k) == [y \in Node |-> RenSet(n, k, D[IF y = k THEN n ELSE y])]

\* v is t with k in the place of n.
Renamed(t, v, S, n, k) ==
    /\ v \in Tree /\ v.root = Ren(n, k, t.root)
    /\ \A m \in S, r \in Side : v.kid[r][Ren(n, k, m)] = Ren(n, k, t.kid[r][m])
    /\ \A m \in S : /\ v.parent[Ren(n, k, m)] = Ren(n, k, t.parent[m])
                    /\ Ren(n, k, m) \in v.black <=> m \in t.black
    /\ \A m \in Node \ (S \cup {k}) : Clear(t, m) => Clear(v, m)

\* k is in order there.
FitsFor(t, S, D, n, k) ==
    /\ \A r \in Side : \A m \in Sub(D, t.kid[r][n]) : Before(r, m, k)
    /\ \A r \in Side, m \in S : n \in Sub(D, t.kid[r][m]) => Before(r, k, m)

\* Renaming is one to one.
LEMMA RenFacts ==
  ASSUME NEW S \in SUBSET Node, NEW n \in S, NEW k \in Node \ S
  PROVE  /\ \A a, b \in S \cup {NULL} : Ren(n, k, a) = Ren(n, k, b) => a = b
         /\ \A a \in S \cup {NULL} : /\ Ren(n, k, a) = NULL <=> a = NULL
                                     /\ a \in S => Ren(n, k, a) \in RenSet(n, k, S)
                                     /\ Ren(n, k, a) \in RenSet(n, k, S) \cup {NULL}
         /\ \A y \in RenSet(n, k, S) : \E m \in S : y = Ren(n, k, m)
         /\ RenSet(n, k, S) \subseteq Node /\ n \notin RenSet(n, k, S)
         /\ RenSet(n, k, S) \cup {n} = S \cup {k}
         /\ n # k /\ n # NULL /\ k # NULL
  BY NodeFacts DEF Ren, RenSet

\* The shape does not depend on the name.
LEMMA RenameShape ==
  ASSUME NEW t, NEW S, NEW D, Shape(t, S, D), NEW n \in S, NEW k \in Node \ S,
         NEW v, Renamed(t, v, S, n, k), FitsFor(t, S, D, n, k)
  PROVE  Shape(v, RenSet(n, k, S), RenSub(D, n, k))
<1> DEFINE f(m) == Ren(n, k, m)
           F(A) == RenSet(n, k, A)
           S2 == RenSet(n, k, S)
           D2 == RenSub(D, n, k)
<1>1. t \in Tree /\ S \subseteq Node /\ D \in [Node -> SUBSET Node] /\ RootOK(t, S, D) /\ n \in Node
  BY DEF Shape
<1>2. /\ v \in Tree /\ v.root = f(t.root)
      /\ \A m \in S, r \in Side : v.kid[r][f(m)] = f(t.kid[r][m])
      /\ \A m \in S : v.parent[f(m)] = f(t.parent[m])
  BY DEF Renamed
<1>3. /\ \A a, b \in S \cup {NULL} : f(a) = f(b) => a = b
      /\ \A a \in S \cup {NULL} : (f(a) = NULL <=> a = NULL) /\ (a \in S => f(a) \in S2)
      /\ \A y \in S2 : \E m \in S : y = f(m)
      /\ S2 \subseteq Node /\ n # k /\ n # NULL /\ k # NULL
  <2>1. S \in SUBSET Node
    BY <1>1
  <2>2. /\ \A a, b \in S \cup {NULL} : f(a) = f(b) => a = b
        /\ \A a \in S \cup {NULL} : /\ f(a) = NULL <=> a = NULL
                                    /\ a \in S => f(a) \in S2
                                    /\ f(a) \in S2 \cup {NULL}
        /\ \A y \in S2 : \E m \in S : y = f(m)
        /\ S2 \subseteq Node /\ n \notin S2
        /\ S2 \cup {n} = S \cup {k}
        /\ n # k /\ n # NULL /\ k # NULL
    BY <2>1, RenFacts
  <2> HIDE DEF f, S2
  <2> QED BY <2>2
<1>4. D2 \in [Node -> SUBSET Node]
  BY <1>1 DEF RenSub, RenSet
<1>5. \A m \in S : D2[f(m)] = F(D[m]) /\ D[m] \subseteq S
  <2> SUFFICES ASSUME NEW m \in S PROVE D2[f(m)] = F(D[m]) /\ D[m] \subseteq S
    OBVIOUS
  <2>1. D[m] \subseteq S
    BY NodeSays
  <2>2. CASE m = n
    BY <2>1, <2>2 DEF RenSub, Ren
  <2>3. CASE m # n
    <3>1. m \in Node /\ m # k /\ f(m) = m
      BY <1>1, <2>3 DEF Ren
    <3> QED BY <2>1, <3>1 DEF RenSub
  <2> QED BY <2>2, <2>3
<1>6. \A c \in S \cup {NULL} : Sub(D2, f(c)) = F(Sub(D, c))
  <2> SUFFICES ASSUME NEW c \in S \cup {NULL} PROVE Sub(D2, f(c)) = F(Sub(D, c))
    OBVIOUS
  <2>1. CASE c = NULL
    <3>1. f(c) = NULL
      BY <1>3, <2>1
    <3> QED BY <2>1, <3>1 DEF Sub, RenSet
  <2>2. CASE c # NULL
    <3>1. f(c) # NULL /\ c \in S
      BY <1>3, <2>2
    <3> QED BY <1>5, <2>2, <3>1 DEF Sub
  <2> QED BY <2>1, <2>2
<1>7. \A A, B : F(A \cup B) = F(A) \cup F(B)
  BY DEF RenSet
<1>8. \A m \in S : F({m}) = {f(m)}
  BY DEF RenSet, Ren
<1>9. \A A \in SUBSET S : F(A) \subseteq S2
  BY DEF RenSet
<1> HIDE DEF D2, S2, f, F
<1>10. RootOK(v, S2, D2)
  <2>1. t.root \in S /\ t.parent[t.root] = NULL /\ D[t.root] = S
    BY <1>1 DEF RootOK
  <2>2. f(t.root) \in S2 /\ f(NULL) = NULL
    BY <1>3, <2>1
  <2>3. D2[f(t.root)] = S2
    BY <1>5, <2>1 DEF F, S2
  <2>4. v.parent[f(t.root)] = NULL
    BY <1>2, <2>1, <2>2
  <2> QED BY <1>2, <2>2, <2>3, <2>4 DEF RootOK
<1>11. ASSUME NEW y \in S2
       PROVE  /\ D2[y] \subseteq S2 /\ KidsOK(v, S2, y) /\ ParentOK(v, S2, y)
              /\ SubOK(v, D2, y) /\ SortedAt(v, D2, y)
  <2>1. PICK m \in S : y = f(m)
    BY <1>3
  <2>2. D2[y] \subseteq S2
    BY <1>5, <1>9, <2>1
  <2>3. ASSUME NEW r \in Side
        PROVE  /\ t.kid[r][m] \in S \cup {NULL} /\ v.kid[r][y] = f(t.kid[r][m])
               /\ t.kid[r][m] # NULL => t.kid[r][m] \in S /\ t.parent[t.kid[r][m]] = m
               /\ Sub(D2, v.kid[r][y]) = F(Sub(D, t.kid[r][m]))
    <3>1. /\ t.kid[r][m] \in S \cup {NULL}
          /\ t.kid[r][m] # NULL => t.kid[r][m] \in S /\ t.parent[t.kid[r][m]] = m
      BY KidSays
    <3> QED BY <1>2, <1>6, <2>1, <3>1
  <2>4. KidsOK(v, S2, y)
    <3> SUFFICES ASSUME NEW r \in Side, v.kid[r][y] # NULL
                 PROVE  v.kid[r][y] \in S2 /\ v.parent[v.kid[r][y]] = y
      BY DEF KidsOK
    <3>1. v.kid[r][y] = f(t.kid[r][m]) /\ t.kid[r][m] \in S \cup {NULL}
      BY <2>3
    <3>2. t.kid[r][m] # NULL
      BY <1>3, <3>1
    <3>3. t.kid[r][m] \in S /\ t.parent[t.kid[r][m]] = m
      BY <2>3, <3>2
    <3> QED BY <1>2, <1>3, <2>1, <3>1, <3>3
  <2>5. ParentOK(v, S2, y)
    <3> SUFFICES ASSUME y # v.root
                 PROVE  v.parent[y] \in S2 /\ \E r \in Side : v.kid[r][v.parent[y]] = y
      BY DEF ParentOK
    <3>1. m # t.root
      BY <1>2, <2>1
    <3>2. t.parent[m] \in S
      BY <3>1, NodeSays
    <3>3. PICK r \in Side : t.kid[r][t.parent[m]] = m
      BY <3>1, OnePlace, SideInSide
    <3>4. v.parent[y] = f(t.parent[m])
      BY <1>2, <2>1
    <3>5. v.kid[r][f(t.parent[m])] = y
      BY <1>2, <2>1, <3>2, <3>3
    <3> QED BY <1>3, <3>2, <3>4, <3>5
  <2>6. SubOK(v, D2, y)
    <3> SUFFICES ASSUME NEW r \in Side
                 PROVE  D2[y] = {y} \cup Sub(D2, v.kid[r][y]) \cup Sub(D2, v.kid[Other(r)][y])
      BY DEF SubOK
    <3> DEFINE A == Sub(D, t.kid[r][m])
               B == Sub(D, t.kid[Other(r)][m])
    <3>1. D[m] = {m} \cup A \cup B
      BY KidSays
    <3>2. Other(r) \in Side
      BY BeforeFacts
    <3>3. Sub(D2, v.kid[r][y]) = F(A) /\ Sub(D2, v.kid[Other(r)][y]) = F(B)
      BY <2>3, <3>2
    <3> HIDE DEF A, B
    <3>4. D2[y] = F(D[m])
      BY <1>5, <2>1
    <3>5. F(D[m]) = {y} \cup F(A) \cup F(B)
      <4>1. F(({m} \cup A) \cup B) = F({m} \cup A) \cup F(B)
        BY <1>7
      <4>2. F({m} \cup A) = F({m}) \cup F(A)
        BY <1>7
      <4>3. F({m}) = {y}
        BY <1>8, <2>1
      <4> QED BY <3>1, <4>1, <4>2, <4>3
    <3> QED BY <3>3, <3>4, <3>5
  <2>7. SortedAt(v, D2, y)
    <3> SUFFICES ASSUME NEW r \in Side, NEW z \in Sub(D2, v.kid[r][y]) PROVE Before(r, z, y)
      BY DEF SortedAt
    <3> DEFINE A == Sub(D, t.kid[r][m])
    <3>1. z \in F(A)
      BY <2>3
    <3>2. \A w \in A : Before(r, w, m)
      BY KidSays
    <3>3. m = n => y = k /\ n \notin A
      BY <2>1, KidSays DEF f, Ren
    <3>4. m # n => y = m
      BY <2>1 DEF f, Ren
    <3>5. CASE z \in A /\ z # n
      <4>1. CASE m = n
        BY <3>3, <3>5, <4>1 DEF FitsFor
      <4>2. CASE m # n
        BY <3>2, <3>4, <3>5, <4>2
      <4> QED BY <4>1, <4>2
    <3>6. CASE n \in A /\ z = k
      <4>1. m # n
        BY <3>3, <3>6
      <4> QED BY <3>4, <3>6, <4>1 DEF FitsFor
    <3>7. (z \in A /\ z # n) \/ (n \in A /\ z = k)
      BY <3>1 DEF F, RenSet
    <3> QED BY <3>5, <3>6, <3>7
  <2> QED BY <2>2, <2>4, <2>5, <2>6, <2>7
<1> QED BY <1>2, <1>3, <1>4, <1>10, <1>11 DEF Shape, S2, D2

\* Nor do the colors and the heights.
LEMMA RenameSays ==
  ASSUME NEW t, NEW S, NEW D, NEW h, Shape(t, S, D), h \in [Node -> Nat],
         NEW n \in S, NEW k \in Node \ S, NEW v, Renamed(t, v, S, n, k), FitsFor(t, S, D, n, k)
  PROVE  /\ TreeBut(t, S, D, h, k) =>
              \E D2, h2 : TreeBut(v, RenSet(n, k, S), D2, h2, n)
         /\ \A x, p : EraseInv(t, S, D, h, k, x, p) =>
              \E D2, h2 : EraseInv(v, RenSet(n, k, S), D2, h2, n, Ren(n, k, x), Ren(n, k, p))
<1> DEFINE f(m) == Ren(n, k, m)
           S2 == RenSet(n, k, S)
           D2 == RenSub(D, n, k)
           h2 == [h EXCEPT ![k] = h[n]]
<1>1. t \in Tree /\ S \subseteq Node /\ RootOK(t, S, D) /\ n \in Node
  BY DEF Shape
<1>2. /\ v \in Tree /\ v.root = f(t.root)
      /\ \A m \in S, r \in Side : v.kid[r][f(m)] = f(t.kid[r][m])
      /\ \A m \in S : v.parent[f(m)] = f(t.parent[m]) /\ (f(m) \in v.black <=> m \in t.black)
      /\ \A m \in Node \ (S \cup {k}) : Clear(t, m) => Clear(v, m)
  BY DEF Renamed
<1>3. /\ \A a, b \in S \cup {NULL} : f(a) = f(b) => a = b
      /\ \A a \in S \cup {NULL} : (f(a) = NULL <=> a = NULL) /\ (a \in S => f(a) \in S2) /\ f(a) \in S2 \cup {NULL}
      /\ \A y \in S2 : \E m \in S : y = f(m)
      /\ S2 \cup {n} = S \cup {k}
  <2>1. S \in SUBSET Node
    BY <1>1
  <2>2. /\ \A a, b \in S \cup {NULL} : f(a) = f(b) => a = b
        /\ \A a \in S \cup {NULL} : /\ f(a) = NULL <=> a = NULL
                                    /\ a \in S => f(a) \in S2
                                    /\ f(a) \in S2 \cup {NULL}
        /\ \A y \in S2 : \E m \in S : y = f(m)
        /\ S2 \subseteq Node /\ n \notin S2
        /\ S2 \cup {n} = S \cup {k}
        /\ n # k /\ n # NULL /\ k # NULL
    BY <2>1, RenFacts
  <2> HIDE DEF f, S2
  <2> QED BY <2>2
<1>4. Shape(v, S2, D2)
  BY RenameShape
<1>5. h2 \in [Node -> Nat]
  BY <1>1
<1>6. \A m \in S : h2[f(m)] = h[m]
  BY <1>1 DEF Ren
<1> HIDE DEF f, S2, D2, h2
<1>7. \A c \in S \cup {NULL} : Ht(h2, f(c)) = Ht(h, c)
  BY <1>3, <1>6 DEF Ht
<1>8. \A m \in S : Bit(v, f(m)) = Bit(t, m)
  BY <1>2 DEF Bit
<1>9. \A c \in S \cup {NULL} : IsRed(v, f(c)) <=> IsRed(t, c)
  BY <1>2, <1>3 DEF IsRed
<1>10. ASSUME NEW m \in S, HtOK(t, h, m) PROVE HtOK(v, h2, f(m))
  <2> SUFFICES ASSUME NEW r \in Side PROVE h2[f(m)] = Ht(h2, v.kid[r][f(m)]) + Bit(v, f(m))
    BY DEF HtOK
  <2>1. t.kid[r][m] \in S \cup {NULL} /\ v.kid[r][f(m)] = f(t.kid[r][m])
    BY <1>2, KidSays
  <2>2. h[m] = Ht(h, t.kid[r][m]) + Bit(t, m)
    BY <1>10 DEF HtOK
  <2> QED BY <1>6, <1>7, <1>8, <2>1, <2>2
<1>11. t.root \in S
  BY <1>1 DEF RootOK
<1>12. ASSUME NEW m \in S, RedOK(t, m) PROVE RedOK(v, f(m))
  <2>1. t.parent[m] \in S \cup {NULL} /\ v.parent[f(m)] = f(t.parent[m])
    BY <1>2, NodeSays
  <2>2. f(m) = v.root => m = t.root
    BY <1>2, <1>3, <1>11
  <2> QED BY <1>9, <1>12, <2>1, <2>2 DEF RedOK
<1>13. (\A m \in Node \ (S \cup {k}) : Clear(t, m)) => \A m \in Node \ (S2 \cup {n}) : Clear(v, m)
  BY <1>2, <1>3
<1>14. ASSUME TreeBut(t, S, D, h, k) PROVE TreeBut(v, S2, D2, h2, n)
  <2>1. /\ \A m \in S : HtOK(t, h, m) /\ RedOK(t, m)
        /\ \A m \in Node \ (S \cup {k}) : Clear(t, m)
    BY <1>14 DEF TreeBut
  <2>2. \A y \in S2 : HtOK(v, h2, y) /\ RedOK(v, y)
    BY <1>3, <1>10, <1>12, <2>1
  <2> QED BY <1>4, <1>5, <1>13, <2>1, <2>2 DEF TreeBut
<1>15. ASSUME NEW x, NEW p, EraseInv(t, S, D, h, k, x, p)
       PROVE  EraseInv(v, S2, D2, h2, n, f(x), f(p))
  <2>1. /\ x \in S \cup {NULL} /\ p \in S \cup {NULL}
        /\ \A m \in S : RedOK(t, m) \/ m = x \/ (x # NULL /\ t.parent[m] = x)
        /\ \A m \in Node \ (S \cup {k}) : Clear(t, m)
    BY <1>15 DEF EraseInv
  <2>2. f(x) \in S2 \cup {NULL} /\ f(p) \in S2 \cup {NULL} /\ (f(x) = v.root <=> x = t.root)
    BY <1>2, <1>3, <1>11, <2>1
  <2>3. f(x) = v.root => \A y \in S2 : HtOK(v, h2, y)
    <3>1. SUFFICES ASSUME x = t.root, NEW y \in S2 PROVE HtOK(v, h2, y)
      BY <2>2
    <3>2. \A m \in S : HtOK(t, h, m)
      BY <1>15, <3>1 DEF EraseInv
    <3> QED BY <1>3, <1>10, <3>2
  <2>4. ASSUME f(x) # v.root
        PROVE  /\ f(p) \in S2 /\ \A y \in S2 \ {f(p)} : HtOK(v, h2, y)
               /\ \E s \in Side : /\ v.kid[s][f(p)] = f(x)
                                  /\ h2[f(p)] = Ht(h2, v.kid[Other(s)][f(p)]) + Bit(v, f(p))
                                  /\ Ht(h2, v.kid[Other(s)][f(p)]) = Ht(h2, f(x)) + 1
    <3>1. x # t.root
      BY <2>2, <2>4
    <3>2. p \in S /\ \A m \in S \ {p} : HtOK(t, h, m)
      BY <1>15, <3>1 DEF EraseInv
    <3>3. PICK s \in Side : /\ t.kid[s][p] = x
                            /\ h[p] = Ht(h, t.kid[Other(s)][p]) + Bit(t, p)
                            /\ Ht(h, t.kid[Other(s)][p]) = Ht(h, x) + 1
      BY <1>15, <3>1 DEF EraseInv
    <3> DEFINE a == t.kid[Other(s)][p]
    <3>4. Other(s) \in Side
      BY BeforeFacts
    <3>5. a \in S \cup {NULL}
      BY <3>2, <3>4, KidSays
    <3>6. v.kid[s][f(p)] = f(x) /\ v.kid[Other(s)][f(p)] = f(a)
      BY <1>2, <3>2, <3>3, <3>4
    <3>7. Ht(h2, f(a)) = Ht(h, a) /\ Ht(h2, f(x)) = Ht(h, x) /\ h2[f(p)] = h[p] /\ Bit(v, f(p)) = Bit(t, p)
      BY <1>6, <1>7, <1>8, <2>1, <3>2, <3>5
    <3>8. h2[f(p)] = Ht(h2, f(a)) + Bit(v, f(p)) /\ Ht(h2, f(a)) = Ht(h2, f(x)) + 1
      BY <3>3, <3>7
    <3>9. \A y \in S2 \ {f(p)} : HtOK(v, h2, y)
      BY <1>3, <1>10, <3>2
    <3> HIDE DEF a
    <3> QED BY <1>3, <3>2, <3>6, <3>8, <3>9
  <2>5. ASSUME NEW y \in S2 PROVE RedOK(v, y) \/ y = f(x) \/ (f(x) # NULL /\ v.parent[y] = f(x))
    <3>1. PICK m \in S : y = f(m)
      BY <1>3
    <3>2. CASE RedOK(t, m)
      BY <1>12, <3>1, <3>2
    <3>3. CASE m = x
      BY <3>1, <3>3
    <3>4. CASE x # NULL /\ t.parent[m] = x
      BY <1>2, <1>3, <2>1, <3>1, <3>4
    <3> QED BY <2>1, <3>2, <3>3, <3>4
  <2> QED BY <1>4, <1>5, <1>13, <2>1, <2>2, <2>3, <2>4, <2>5 DEF EraseInv
<1> QED BY <1>14, <1>15 DEF f, S2

\* n has two children L and R, and k, the first node of D[R], has the parent q and the child c.
Heir(t, n, k, p, q, c, L, R) ==
    /\ t \in Tree /\ n \in Node /\ k \in Node /\ L \in Node /\ R \in Node /\ q \in Node
    /\ p \in Node \cup {NULL} /\ c \in Node \cup {NULL}
    /\ t.parent[n] = p /\ t.parent[k] = q /\ t.kid["rb_right"][k] = c
    /\ t.kid["rb_left"][n] = L /\ t.kid["rb_right"][n] = R
    /\ n \notin {k, p, c, L, R} /\ k \notin {p, c, L, q} /\ L # R
    /\ k = R <=> q = n

\* v is t after k has taken the place of n.
Heired(t, v, n, k, p, q, c, L, R) ==
    /\ v \in Tree /\ v.root = (IF p = NULL THEN k ELSE t.root)
    /\ v.black = IF n \in t.black THEN t.black \cup {k} ELSE t.black \ {k}
    /\ \A x \in Node : v.kid["rb_left"][x] =
         IF x = k THEN L ELSE IF q # n /\ x = q THEN c
         ELSE IF p # NULL /\ x = p /\ SideIn(t, p, n) = "rb_left" THEN k ELSE t.kid["rb_left"][x]
    /\ \A x \in Node : v.kid["rb_right"][x] =
         IF x = k THEN (IF q = n THEN c ELSE R)
         ELSE IF p # NULL /\ x = p /\ SideIn(t, p, n) = "rb_right" THEN k ELSE t.kid["rb_right"][x]
    /\ \A x \in Node : v.parent[x] =
         IF x = k THEN p ELSE IF x \in {L, R} THEN k
         ELSE IF q # n /\ c # NULL /\ x = c THEN q ELSE t.parent[x]

\* The assignments.
LEMMA HeiredSays ==
  ASSUME NEW t, NEW n, NEW k, NEW p, NEW q, NEW c, NEW L, NEW R, Heir(t, n, k, p, q, c, L, R)
  PROVE  Heired(t, Replaced(Unhooked(Relink(t, p, n, k), n, k, IF q = n THEN k ELSE q), n, k),
                n, k, p, q, c, L, R)
<1> DEFINE u == Relink(t, p, n, k)
           w == Unhooked(u, n, k, IF q = n THEN k ELSE q)
           v == Replaced(w, n, k)
           lt == "rb_left"
           rt == "rb_right"
           s == SideIn(t, p, n)
<1>1. /\ t \in Tree /\ n \in Node /\ k \in Node /\ L \in Node /\ R \in Node /\ q \in Node
      /\ p \in Node \cup {NULL} /\ c \in Node \cup {NULL}
      /\ n \notin {k, p, c, L, R} /\ k \notin {p, c, L, q} /\ L # R
      /\ k = R <=> q = n
  BY DEF Heir
<1>2. /\ t.parent[n] = p /\ t.parent[k] = q /\ t.kid[rt][k] = c
      /\ t.kid[lt][n] = L /\ t.kid[rt][n] = R
  BY DEF Heir
<1>3. lt \in Side /\ rt \in Side /\ lt # rt /\ s \in Side
  BY SideInSide DEF Side
<1>4. /\ u \in Tree /\ u.parent = t.parent /\ u.black = t.black
      /\ u.root = IF p = NULL THEN k ELSE t.root
      /\ \A r \in Side, x \in Node :
           u.kid[r][x] = IF p # NULL /\ x = p /\ r = s THEN k ELSE t.kid[r][x]
  <2>1. t \in Tree /\ p \in Node \cup {NULL} /\ k \in Node \cup {NULL}
    BY <1>1
  <2> QED BY <2>1, RelinkSays
<1> HIDE DEF u, s
<1>5. u.kid[rt][k] = c /\ u.kid[rt][n] = R /\ u.kid[lt][n] = L
  BY <1>1, <1>2, <1>3, <1>4
<1>6. /\ w \in Tree /\ w.root = u.root /\ w.black = u.black
      /\ \A x \in Node : w.kid[lt][x] = IF q # n /\ x = q THEN c ELSE u.kid[lt][x]
      /\ \A x \in Node : w.kid[rt][x] = IF q # n /\ x = k THEN R ELSE u.kid[rt][x]
      /\ \A x \in Node : w.parent[x] = IF q # n /\ x = R THEN k
                                       ELSE IF q # n /\ c # NULL /\ x = c THEN q ELSE t.parent[x]
  <2>1. CASE q = n
    BY <1>4, <2>1 DEF Unhooked
  <2>2. CASE q # n
    <3> DEFINE a == rb_set_parent(u, c, q)
    <3>1. /\ a \in Tree /\ a.kid = u.kid /\ a.black = u.black /\ a.root = u.root
          /\ \A x \in Node : a.parent[x] = IF c # NULL /\ x = c THEN q ELSE u.parent[x]
      <4>1. u \in Tree /\ c \in Node \cup {NULL} /\ q \in Node \cup {NULL}
        BY <1>1, <1>4
      <4> QED BY <4>1, SetParentSays
    <3>2. w = [a EXCEPT !.kid[lt][q] = c, !.kid[rt][k] = R, !.parent[R] = k]
      BY <1>1, <1>5, <2>2 DEF Unhooked
    <3> HIDE DEF a, w
    <3>3. /\ w \in Tree /\ w.root = a.root /\ w.black = a.black
      BY <1>1, <1>3, <3>1, <3>2 DEF Tree
    <3>4. \A x \in Node : w.kid[lt][x] = IF x = q THEN c ELSE a.kid[lt][x]
      BY <1>1, <1>3, <3>1, <3>2 DEF Tree
    <3>5. \A x \in Node : w.kid[rt][x] = IF x = k THEN R ELSE a.kid[rt][x]
      BY <1>1, <1>3, <3>1, <3>2 DEF Tree
    <3>6. \A x \in Node : w.parent[x] = IF x = R THEN k ELSE a.parent[x]
      BY <1>1, <1>3, <3>1, <3>2 DEF Tree
    <3> QED BY <1>4, <2>2, <3>1, <3>3, <3>4, <3>5, <3>6
  <2> QED BY <2>1, <2>2
<1> HIDE DEF w
<1>7. w.parent[n] = p /\ w.kid[lt][n] = L
  <2>1. w.parent[n] = p
    BY <1>1, <1>2, <1>6
  <2>2. w.kid[lt][n] = L
    BY <1>1, <1>5, <1>6
  <2> QED BY <2>1, <2>2
<1>8. v = [w EXCEPT !.parent[k] = p, !.kid[lt][k] = L, !.parent[L] = k,
                    !.black = IF n \in w.black THEN @ \cup {k} ELSE @ \ {k}]
  BY <1>7 DEF Replaced
<1> HIDE DEF v
<1>9. v \in Tree /\ v.root = w.root /\ v.black = IF n \in w.black THEN w.black \cup {k} ELSE w.black \ {k}
  BY <1>1, <1>3, <1>6, <1>8 DEF Tree
<1>10. \A x \in Node : v.kid[lt][x] = IF x = k THEN L ELSE w.kid[lt][x]
  BY <1>1, <1>3, <1>6, <1>8 DEF Tree
<1>11. \A x \in Node : v.kid[rt][x] = w.kid[rt][x]
  BY <1>1, <1>3, <1>6, <1>8 DEF Tree
<1>12. \A x \in Node : v.parent[x] = IF x = L THEN k ELSE IF x = k THEN p ELSE w.parent[x]
  BY <1>1, <1>3, <1>6, <1>8 DEF Tree
<1>13. \A x \in Node : v.kid[lt][x] =
         IF x = k THEN L ELSE IF q # n /\ x = q THEN c
         ELSE IF p # NULL /\ x = p /\ s = lt THEN k ELSE t.kid[lt][x]
  BY <1>3, <1>4, <1>6, <1>10
<1>14. \A x \in Node : v.kid[rt][x] =
         IF x = k THEN (IF q = n THEN c ELSE R)
         ELSE IF p # NULL /\ x = p /\ s = rt THEN k ELSE t.kid[rt][x]
  BY <1>1, <1>3, <1>4, <1>5, <1>6, <1>11
<1>15. \A x \in Node : v.parent[x] =
         IF x = k THEN p ELSE IF x \in {L, R} THEN k
         ELSE IF q # n /\ c # NULL /\ x = c THEN q ELSE t.parent[x]
  <2> SUFFICES ASSUME NEW x \in Node
               PROVE  v.parent[x] = IF x = k THEN p ELSE IF x \in {L, R} THEN k
                                    ELSE IF q # n /\ c # NULL /\ x = c THEN q ELSE t.parent[x]
    OBVIOUS
  <2>1. v.parent[x] = IF x = L THEN k ELSE IF x = k THEN p ELSE w.parent[x]
    BY <1>12
  <2>2. w.parent[x] = IF q # n /\ x = R THEN k
                      ELSE IF q # n /\ c # NULL /\ x = c THEN q ELSE t.parent[x]
    BY <1>6
  <2> QED BY <1>1, <2>1, <2>2
<1>16. Heired(t, v, n, k, p, q, c, L, R)
  BY <1>4, <1>6, <1>9, <1>13, <1>14, <1>15 DEF Heired, s
<1> QED BY <1>16 DEF v, w, u

\* The nodes that rb_erase moves when n has two children.
Moving(t, S, D, n, k, p, q, c, L, R) ==
    /\ Heir(t, n, k, p, q, c, L, R)
    /\ n \in S /\ k \in S /\ L \in S /\ R \in S /\ q \in S /\ p \in S \cup {NULL} /\ c \in S \cup {NULL}
    /\ t.kid["rb_left"][k] = NULL /\ t.parent[L] = n /\ t.parent[R] = n
    /\ c # NULL => t.parent[c] = k
    /\ k \in D[R] /\ (q # n => t.kid["rb_left"][q] = k)
    /\ \A m \in D[R] \ {k} : Before("rb_left", k, m)

\* n's successor is the first node on its right.
LEMMA MovingSays ==
  ASSUME NEW t, NEW S, NEW D, Shape(t, S, D), NEW n \in S, \A s \in Side : t.kid[s][n] # NULL,
         NEW k, k = Leftmost(t, t.kid["rb_right"][n])
  PROVE  Moving(t, S, D, n, k, t.parent[n], t.parent[k], t.kid["rb_right"][k],
                t.kid["rb_left"][n], t.kid["rb_right"][n])
<1> DEFINE lt == "rb_left"
           rt == "rb_right"
           L == t.kid[lt][n]
           R == t.kid[rt][n]
           p == t.parent[n]
           q == t.parent[k]
           c == t.kid[rt][k]
<1>1. lt \in Side /\ rt \in Side /\ Other(lt) = rt /\ Other(rt) = lt /\ \A s \in Side : s = lt \/ s = rt
  BY DEF Side, Other
<1>2. t \in Tree /\ S \subseteq Node /\ n \in Node
  BY DEF Shape
<1> HIDE DEF lt, rt
<1>3. /\ L \in S /\ t.parent[L] = n /\ L # n /\ L # R /\ L \in D[L] /\ Sub(D, L) = D[L]
  BY <1>1, KidSays
<1>4. /\ R \in S /\ t.parent[R] = n /\ R # n /\ R # t.root /\ Sub(D, R) = D[R] /\ n \notin D[R] /\ R \in D[R]
  BY <1>1, KidSays
<1>5. D[L] \cap D[R] = {}
  <2>1. Sub(D, L) \cap Sub(D, t.kid[Other(lt)][n]) = {}
    BY <1>1, KidSays
  <2> QED BY <1>1, <1>3, <1>4, <2>1
<1>6. /\ k \in D[R] /\ k \in S /\ t.kid[lt][k] = NULL
      /\ \A m \in D[R] \ {k} : Before(lt, k, m)
      /\ k = R \/ t.kid[lt][q] = k
  <2> DEFINE l == Leftmost(t, R)
  <2>1. /\ l \in D[R] /\ l \in S /\ t.kid["rb_left"][l] = NULL
        /\ \A m \in D[R] \ {l} : Before("rb_left", l, m)
        /\ l = R \/ t.kid["rb_left"][t.parent[l]] = l
    BY <1>4, LeftmostSays
  <2>2. l = k
    BY DEF rt
  <2> HIDE DEF l
  <2> QED BY <2>1, <2>2 DEF lt
<1>7. p \in S \cup {NULL} /\ p # n
  <2>1. p \in S \cup {NULL} /\ (p = NULL <=> n = t.root) /\ n # NULL
    BY NodeSays
  <2>2. n # t.root => n # t.parent[n]
    BY <2>1, OnePlace, KidSays
  <2> QED BY <2>1, <2>2
<1>8. /\ c \in S \cup {NULL} /\ c # k /\ (c # NULL => t.parent[c] = k /\ c \in D[k])
  BY <1>1, <1>6, KidSays
<1>9. D[k] \subseteq D[R] /\ (k # R => k # t.root)
  BY <1>4, <1>6, DownSays
<1>10. n # c /\ n # k /\ k # L
  <2>1. n # NULL
    BY NodeSays
  <2> QED BY <1>3, <1>4, <1>5, <1>6, <1>8, <1>9, <2>1
<1>11. k # p
  <2>1. SUFFICES ASSUME k = p PROVE FALSE
    OBVIOUS
  <2>2. n # t.root /\ n # NULL
    BY <1>2, <1>6, <2>1, NodeSays, NodeFacts
  <2>3. PICK s \in Side : t.kid[s][k] = n
    BY <2>1, <2>2, OnePlace
  <2> QED BY <1>1, <1>6, <1>10, <2>2, <2>3
<1>12. k # t.root
  BY <1>4, <1>9
<1>13. PICK s \in Side : t.kid[s][q] = k
  <2>1. SideIn(t, t.parent[k], k) \in Side /\ t.kid[SideIn(t, t.parent[k], k)][t.parent[k]] = k
    BY <1>6, <1>12, OnePlace
  <2> QED BY <2>1
<1>14. q \in S
  BY <1>6, <1>12, NodeSays
<1>15. k # q
  BY <1>13, <1>14, KidSays
<1>16. k = R <=> q = n
  <2>1. k = R => q = n
    BY <1>4
  <2>2. q = n => k = R
    BY <1>1, <1>10, <1>13
  <2> QED BY <2>1, <2>2
<1>17. q # n => t.kid[lt][q] = k
  BY <1>6, <1>16
<1>18. L \in Node /\ R \in Node /\ k \in Node /\ q \in Node /\ p \in Node \cup {NULL} /\ c \in Node \cup {NULL}
  BY <1>2, <1>3, <1>4, <1>6, <1>7, <1>8, <1>14
<1>19. Heir(t, n, k, p, q, c, L, R)
  <2>1. /\ t.parent[n] = p /\ t.parent[k] = q /\ t.kid["rb_right"][k] = c
        /\ t.kid["rb_left"][n] = L /\ t.kid["rb_right"][n] = R
    BY DEF lt, rt
  <2>2. n \notin {k, p, c, L, R} /\ k \notin {p, c, L, q} /\ L # R
    BY <1>3, <1>4, <1>7, <1>8, <1>10, <1>11, <1>15
  <2> HIDE DEF p, q, c, L, R
  <2> QED BY <1>2, <1>16, <1>18, <2>1, <2>2 DEF Heir
<1>20. Moving(t, S, D, n, k, p, q, c, L, R)
  <2>1. t.kid["rb_left"][k] = NULL /\ (q # n => t.kid["rb_left"][q] = k)
    BY <1>6, <1>17 DEF lt
  <2>2. \A m \in D[R] \ {k} : Before("rb_left", k, m)
    BY <1>6 DEF lt
  <2>3. c # NULL => t.parent[c] = k
    BY <1>8
  <2> HIDE DEF p, q, c, L, R
  <2> QED BY <1>3, <1>4, <1>6, <1>7, <1>8, <1>14, <1>19, <2>1, <2>2, <2>3 DEF Moving
<1> QED BY <1>20 DEF lt, rt

\* Without k, t and the result differ only in the name of n.
LEMMA MovedSays ==
  ASSUME NEW t, NEW S, NEW D, Shape(t, S, D), NEW n, NEW k, NEW p, NEW q, NEW c, NEW L, NEW R,
         Moving(t, S, D, n, k, p, q, c, L, R), NEW u, Cut(t, u, S, k, c),
         NEW v, Heired(t, v, n, k, p, q, c, L, R)
  PROVE  Renamed(u, v, S \ {k}, n, k)
<1> DEFINE lt == "rb_left"
           rt == "rb_right"
           s == SideIn(t, p, n)
           f(m) == Ren(n, k, m)
<1>1. /\ t \in Tree /\ n \in Node /\ k \in Node /\ q \in Node
      /\ n \notin {k, p, c, L, R} /\ k \notin {p, c, L, q} /\ L # R
      /\ k = R <=> q = n
  BY DEF Heir, Moving
<1>2. /\ t.parent[n] = p /\ t.parent[k] = q /\ t.kid[rt][k] = c
      /\ t.kid[lt][n] = L /\ t.kid[rt][n] = R /\ t.kid[lt][k] = NULL
      /\ t.parent[L] = n /\ t.parent[R] = n /\ (c # NULL => t.parent[c] = k)
      /\ q # n => t.kid[lt][q] = k
  BY DEF Heir, Moving
<1>3. n \in S /\ k \in S /\ L \in S /\ R \in S /\ q \in S /\ p \in S \cup {NULL} /\ c \in S \cup {NULL}
  BY DEF Moving
<1>4. /\ lt \in Side /\ rt \in Side /\ lt # rt /\ s \in Side /\ Other(lt) = rt
      /\ \A r \in Side : r = lt \/ r = rt
  BY SideInSide DEF Side, Other
<1>5. /\ u \in Tree /\ u.black = t.black
      /\ u.root = IF k = t.root THEN c ELSE t.root
      /\ \A m \in S, r \in Side : u.kid[r][m] = IF t.kid[r][m] = k THEN c ELSE t.kid[r][m]
      /\ \A m \in Node \ S, r \in Side : u.kid[r][m] = t.kid[r][m]
      /\ \A m \in Node : u.parent[m] = IF c # NULL /\ m = c THEN t.parent[k] ELSE t.parent[m]
  BY DEF Cut
<1>6. /\ v \in Tree /\ v.root = (IF p = NULL THEN k ELSE t.root)
      /\ v.black = IF n \in t.black THEN t.black \cup {k} ELSE t.black \ {k}
  BY DEF Heired
<1>7. \A x \in Node : v.kid[lt][x] =
         IF x = k THEN L ELSE IF q # n /\ x = q THEN c
         ELSE IF p # NULL /\ x = p /\ s = lt THEN k ELSE t.kid[lt][x]
  BY DEF Heired
<1>8. \A x \in Node : v.kid[rt][x] =
         IF x = k THEN (IF q = n THEN c ELSE R)
         ELSE IF p # NULL /\ x = p /\ s = rt THEN k ELSE t.kid[rt][x]
  BY DEF Heired
<1>9. \A x \in Node : v.parent[x] =
         IF x = k THEN p ELSE IF x \in {L, R} THEN k
         ELSE IF q # n /\ c # NULL /\ x = c THEN q ELSE t.parent[x]
  BY DEF Heired
<1>10. S \subseteq Node /\ n # NULL /\ k # NULL
  BY <1>1, NodeFacts DEF Shape
<1>12. k # t.root /\ (p = NULL <=> n = t.root)
  <2>1. t.parent[k] # NULL
    BY <1>1, <1>2, NodeFacts
  <2>2. t.parent[k] = NULL <=> k = t.root
    BY <1>3, NodeSays
  <2>3. t.parent[n] = NULL <=> n = t.root
    BY <1>3, NodeSays
  <2> QED BY <1>2, <2>1, <2>2, <2>3
<1> HIDE DEF lt, rt, s
<1>13. \A m \in S, r \in Side : t.kid[r][m] = n <=> (p # NULL /\ m = p /\ r = s)
  <2>1. /\ \A m \in S, r \in Side : t.kid[r][m] = n =>
              /\ m = t.parent[n] /\ n # t.root /\ SideIn(t, m, n) = r
              /\ \A z \in Side : t.kid[z][m] = n => z = r
        /\ n # t.root => /\ SideIn(t, t.parent[n], n) \in Side
                         /\ t.kid[SideIn(t, t.parent[n], n)][t.parent[n]] = n
    BY <1>3, OnePlace
  <2>2. n # t.root => t.kid[s][p] = n
    BY <1>2, <2>1 DEF s
  <2>3. \A m \in S, r \in Side : t.kid[r][m] = n => m = p /\ n # t.root /\ r = s
    BY <1>2, <2>1 DEF s
  <2> QED BY <1>12, <2>2, <2>3
<1>14. \A m \in S, r \in Side : t.kid[r][m] = k <=> (m = q /\ r = IF q = n THEN rt ELSE lt)
  <2>1. \A m \in S, r \in Side : t.kid[r][m] = k =>
              /\ m = t.parent[k] /\ k # t.root /\ SideIn(t, m, k) = r
              /\ \A z \in Side : t.kid[z][m] = k => z = r
    BY <1>3, OnePlace
  <2>2. t.kid[IF q = n THEN rt ELSE lt][q] = k
    BY <1>1, <1>2
  <2> QED BY <1>2, <1>3, <1>4, <2>1, <2>2
<1>15. v.root = f(u.root)
  BY <1>5, <1>6, <1>12 DEF Ren
<1>16. ASSUME NEW m \in S \ {k}, NEW r \in Side PROVE v.kid[r][f(m)] = f(u.kid[r][m])
  <2>1. u.kid[r][m] = IF t.kid[r][m] = k THEN c ELSE t.kid[r][m]
    BY <1>5
  <2>2. CASE m = n
    <3>1. f(m) = k
      BY <2>2 DEF Ren
    <3>2. CASE r = lt
      <4>1. v.kid[lt][k] = L
        BY <1>1, <1>7
      <4>2. u.kid[r][m] = L
        BY <1>1, <1>2, <2>1, <2>2, <3>2
      <4>3. f(L) = L
        BY <1>1 DEF Ren
      <4> QED BY <3>1, <3>2, <4>1, <4>2, <4>3
    <3>3. CASE r = rt
      <4>1. v.kid[rt][k] = IF q = n THEN c ELSE R
        BY <1>1, <1>8
      <4>2. u.kid[r][m] = IF q = n THEN c ELSE R
        BY <1>1, <1>2, <2>1, <2>2, <3>3
      <4>3. f(R) = R /\ f(c) = c
        BY <1>1 DEF Ren
      <4> QED BY <3>1, <3>3, <4>1, <4>2, <4>3
    <3> QED BY <1>4, <3>2, <3>3
  <2>3. CASE m # n
    <3>1. f(m) = m /\ m \in Node /\ m \in S /\ m # k
      BY <1>10, <2>3 DEF Ren
    <3>2. f(c) = c
      BY <1>1 DEF Ren
    <3>3. t.kid[r][m] = n <=> (p # NULL /\ m = p /\ r = s)
      BY <1>13, <3>1
    <3>4. t.kid[r][m] = k <=> (m = q /\ r = lt /\ q # n)
      BY <1>4, <1>14, <2>3, <3>1
    <3>5. v.kid[r][m] = IF q # n /\ m = q /\ r = lt THEN c
                        ELSE IF p # NULL /\ m = p /\ s = r THEN k ELSE t.kid[r][m]
      BY <1>4, <1>7, <1>8, <3>1
    <3>6. CASE q # n /\ m = q /\ r = lt
      BY <2>1, <3>1, <3>2, <3>4, <3>5, <3>6
    <3>7. CASE ~(q # n /\ m = q /\ r = lt)
      <4>1. u.kid[r][m] = t.kid[r][m]
        BY <2>1, <3>4, <3>7
      <4>2. v.kid[r][m] = f(t.kid[r][m])
        BY <3>3, <3>5, <3>7 DEF Ren
      <4> QED BY <3>1, <4>1, <4>2
    <3> QED BY <3>6, <3>7
  <2> QED BY <2>2, <2>3
<1>17. ASSUME NEW m \in S \ {k} PROVE v.parent[f(m)] = f(u.parent[m])
  <2>1. u.parent[m] = IF c # NULL /\ m = c THEN q ELSE t.parent[m]
    BY <1>2, <1>5, <1>10
  <2>2. CASE m = n
    <3>1. f(m) = k /\ f(p) = p
      BY <1>1, <2>2 DEF Ren
    <3>2. u.parent[m] = p
      BY <1>1, <1>2, <2>1, <2>2
    <3>3. v.parent[k] = p
      BY <1>1, <1>9
    <3> QED BY <3>1, <3>2, <3>3
  <2>3. CASE m # n
    <3>1. f(m) = m /\ m \in Node /\ m \in S /\ m # k
      BY <1>10, <2>3 DEF Ren
    <3>2. v.parent[m] = IF m \in {L, R} THEN k
                        ELSE IF q # n /\ c # NULL /\ m = c THEN q ELSE t.parent[m]
      BY <1>9, <3>1
    <3>3. CASE m \in {L, R}
      <4>1. t.parent[m] = n /\ (c # NULL => m # c)
        BY <1>1, <1>2, <3>3
      <4>2. u.parent[m] = n
        BY <2>1, <4>1
      <4>3. f(n) = k
        BY DEF Ren
      <4> QED BY <3>1, <3>2, <3>3, <4>2, <4>3
    <3>4. CASE m \notin {L, R} /\ c # NULL /\ m = c
      <4>1. u.parent[m] = q
        BY <2>1, <3>4
      <4>2. v.parent[m] = IF q # n THEN q ELSE k
        BY <1>2, <3>2, <3>4
      <4>3. f(q) = IF q # n THEN q ELSE k
        BY DEF Ren
      <4> QED BY <3>1, <4>1, <4>2, <4>3
    <3>5. CASE m \notin {L, R} /\ ~(c # NULL /\ m = c)
      <4>1. u.parent[m] = t.parent[m] /\ v.parent[m] = t.parent[m]
        BY <2>1, <3>2, <3>5
      <4>2. t.parent[m] # n
        <5>1. SUFFICES ASSUME t.parent[m] = n PROVE FALSE
          OBVIOUS
        <5>2. m # t.root
          BY <1>10, <3>1, <5>1, NodeSays
        <5>3. /\ SideIn(t, t.parent[m], m) \in Side
              /\ t.kid[SideIn(t, t.parent[m], m)][t.parent[m]] = m
          BY <3>1, <5>2, OnePlace
        <5> QED BY <1>2, <1>4, <3>5, <5>1, <5>3
      <4>3. f(t.parent[m]) = t.parent[m]
        BY <4>2 DEF Ren
      <4> QED BY <3>1, <4>1, <4>3
    <3> QED BY <3>3, <3>4, <3>5
  <2> QED BY <2>2, <2>3
<1>18. ASSUME NEW m \in S \ {k} PROVE f(m) \in v.black <=> m \in u.black
  BY <1>5, <1>6 DEF Ren
<1>19. ASSUME NEW m \in Node \ ((S \ {k}) \cup {k}), Clear(u, m) PROVE Clear(v, m)
  <2>1. m \in Node \ S
    BY <1>3
  <2>2. u.parent[m] = t.parent[m] /\ \A r \in Side : u.kid[r][m] = t.kid[r][m]
    BY <1>3, <1>5, <2>1
  <2>3. v.parent[m] = t.parent[m]
    BY <1>3, <1>9, <2>1
  <2>4. v.kid[lt][m] = t.kid[lt][m]
    BY <1>3, <1>7, <2>1
  <2>5. v.kid[rt][m] = t.kid[rt][m]
    BY <1>3, <1>8, <2>1
  <2>6. m \notin v.black
    BY <1>3, <1>5, <1>6, <1>19, <2>1 DEF Clear
  <2>7. \A r \in Side : v.kid[r][m] = u.kid[r][m]
    BY <1>4, <2>2, <2>4, <2>5
  <2> QED BY <1>19, <2>2, <2>3, <2>6, <2>7 DEF Clear
<1> HIDE DEF f
<1>20. /\ v \in Tree /\ v.root = f(u.root)
       /\ \A m \in S \ {k}, r \in Side : v.kid[r][f(m)] = f(u.kid[r][m])
       /\ \A m \in S \ {k} : /\ v.parent[f(m)] = f(u.parent[m])
                             /\ f(m) \in v.black <=> m \in u.black
       /\ \A m \in Node \ ((S \ {k}) \cup {k}) : Clear(u, m) => Clear(v, m)
  BY <1>6, <1>15, <1>16, <1>17, <1>18, <1>19
<1> QED BY <1>20 DEF Renamed, f

\* The successor is in order in the place of n.
LEMMA MovedFits ==
  ASSUME NEW t, NEW S, NEW D, Shape(t, S, D), NEW n, NEW k, NEW p, NEW q, NEW c, NEW L, NEW R,
         Moving(t, S, D, n, k, p, q, c, L, R), NEW u, Cut(t, u, S, k, c)
  PROVE  FitsFor(u, S \ {k}, [m \in Node |-> D[m] \ {k}], n, k)
<1> DEFINE lt == "rb_left"
           rt == "rb_right"
           E == [m \in Node |-> D[m] \ {k}]
<1>1. /\ n \in Node /\ k \in Node /\ L \in Node /\ R \in Node /\ c \in Node \cup {NULL}
      /\ n \in S /\ k \in S /\ R \in S /\ L \in S /\ c \in S \cup {NULL} /\ k # L /\ k \in D[R]
      /\ \A m \in D[R] \ {k} : Before(lt, k, m)
  BY DEF Heir, Moving
<1>2. t.kid[lt][n] = L /\ t.kid[rt][n] = R /\ t.kid[rt][k] = c
  BY DEF Heir, Moving
<1>3. /\ lt \in Side /\ rt \in Side /\ Other(lt) = rt /\ Other(rt) = lt
      /\ \A r \in Side : r = lt \/ r = rt
  BY DEF Side, Other
<1>4. \A m \in S, r \in Side : u.kid[r][m] = IF t.kid[r][m] = k THEN c ELSE t.kid[r][m]
  BY DEF Cut
<1>5. S \subseteq Node /\ NULL \notin Node /\ D \in [Node -> SUBSET Node]
  BY NodeFacts DEF Shape
<1> HIDE DEF lt, rt
<1>6. \A x \in Node \cup {NULL} : Sub(E, x) = Sub(D, x) \ {k}
  BY <1>5 DEF Sub
<1> HIDE DEF E
<1>7. \A m \in S, r \in Side : t.kid[r][m] \in S \cup {NULL} /\ t.kid[r][m] \in Node \cup {NULL}
  BY KidSays
<1>8. ASSUME NEW m \in S, NEW r \in Side PROVE Sub(E, u.kid[r][m]) \subseteq Sub(D, t.kid[r][m]) \ {k}
  <2>1. Sub(D, c) \subseteq D[k]
    BY <1>1, <1>2, <1>3, KidSays
  <2>2. CASE t.kid[r][m] = k
    <3>1. u.kid[r][m] = c /\ Sub(D, k) = D[k]
      BY <1>1, <1>4, <1>5, <2>2 DEF Sub
    <3> QED BY <1>1, <1>6, <2>1, <2>2, <3>1
  <2>3. CASE t.kid[r][m] # k
    BY <1>4, <1>6, <1>7, <2>3
  <2> QED BY <2>2, <2>3
<1>9. /\ Sub(D, R) = D[R] /\ D[R] \subseteq D[n] /\ D[n] \subseteq Node
      /\ \A m \in D[R] : m \in Node /\ Before(rt, m, n)
  <2>1. /\ Sub(D, R) \subseteq D[n] /\ \A m \in Sub(D, R) : m \in Node /\ Before(rt, m, n)
    BY <1>1, <1>2, <1>3, KidSays
  <2>2. Sub(D, R) = D[R]
    BY <1>1, <1>5 DEF Sub
  <2> QED BY <1>1, <2>1, <2>2, NodeSays
<1>10. Before(lt, n, k)
  <2>1. Before(rt, k, n)
    BY <1>1, <1>9
  <2> QED BY <1>1, <1>3, <2>1, BeforeFacts
<1>11. ASSUME NEW r \in Side, NEW m \in Sub(E, u.kid[r][n]) PROVE Before(r, m, k)
  <2>1. m \in Sub(D, t.kid[r][n]) \ {k}
    BY <1>1, <1>8
  <2>2. CASE r = lt
    <3>1. m \in Node /\ Before(lt, m, n)
      BY <1>1, <1>3, <2>1, <2>2, KidSays
    <3> QED BY <1>1, <1>3, <1>10, <2>2, <3>1, BeforeFacts
  <2>3. CASE r = rt
    <3>1. m \in D[R] \ {k} /\ m \in Node
      BY <1>2, <1>9, <2>1, <2>3
    <3>2. Before(lt, k, m)
      BY <1>1, <3>1
    <3> QED BY <1>1, <1>3, <2>3, <3>1, <3>2, BeforeFacts
  <2> QED BY <1>3, <2>2, <2>3
<1>12. ASSUME NEW r \in Side, NEW m \in S \ {k}, n \in Sub(E, u.kid[r][m]) PROVE Before(r, k, m)
  <2> DEFINE y == t.kid[r][m]
  <2>1. n \in Sub(D, y)
    BY <1>8, <1>12
  <2>2. y # NULL /\ y \in S /\ Sub(D, y) = D[y]
    BY <1>7, <2>1 DEF Sub
  <2>3. D[n] \subseteq D[y]
    BY <2>1, <2>2, DownSays
  <2>4. k \in Sub(D, y)
    BY <1>1, <1>9, <2>2, <2>3
  <2> QED BY <2>4, KidSays
<1> QED BY <1>11, <1>12 DEF FitsFor, E

\* A node with two children is removed.
LEMMA EraseInnerSays ==
  ASSUME NEW t, NEW S, NEW D, NEW h, TreeInv(t, S, D, h), NEW n \in S,
         \A s \in Side : t.kid[s][n] # NULL
  PROVE  \E D2, h2 : TreeBut(EraseInner(t, n), S \ {n}, D2, h2, n)
<1> DEFINE k == Leftmost(t, t.kid["rb_right"][n])
           p == t.parent[n]
           q == t.parent[k]
           c == t.kid["rb_right"][k]
           L == t.kid["rb_left"][n]
           R == t.kid["rb_right"][n]
           b == IF q = n THEN k ELSE q
           v == Replaced(Unhooked(Relink(t, p, n, k), n, k, b), n, k)
           u == Relink(rb_set_parent(t, c, q), q, k, c)
           E == [m \in Node |-> D[m] \ {k}]
<1>1. Shape(t, S, D) /\ h \in [Node -> Nat] /\ S \subseteq Node
  BY DEF TreeInv, Shape
<1>2. Moving(t, S, D, n, k, p, q, c, L, R)
  BY <1>1, MovingSays
<1>3. EraseInner(t, n) = IF k \in t.black THEN rb_erase_color(v, c, b) ELSE v
  BY DEF EraseInner, EraseFor
<1>4. q = t.parent[k] /\ c = t.kid["rb_right"][k] /\ t.kid["rb_left"][k] = NULL
  BY <1>2 DEF Moving
<1> HIDE DEF k, p, q, c, L, R
<1>5. Heir(t, n, k, p, q, c, L, R) /\ k \in S /\ c \in Node \cup {NULL} /\ n # k /\ n # c /\ k \in Node
  BY <1>2 DEF Moving, Heir
<1>6. Heired(t, v, n, k, p, q, c, L, R)
  BY <1>5, HeiredSays
<1>7. Cut(t, u, S, k, c)
  BY <1>1, <1>4, <1>5, CutFields
<1> HIDE DEF v, u
<1>8. Renamed(u, v, S \ {k}, n, k)
  BY <1>1, <1>2, <1>6, <1>7, MovedSays
<1>9. FitsFor(u, S \ {k}, E, n, k)
  BY <1>1, <1>2, <1>7, MovedFits
<1>10. /\ k \notin t.black => TreeBut(u, S \ {k}, E, h, k)
       /\ k \in t.black => EraseInv(u, S \ {k}, E, h, k, c, q)
  <2>1. "rb_left" \in Side /\ Other("rb_left") = "rb_right"
    BY DEF Side, Other
  <2>2. Cut(t, u, S, k, t.kid[Other("rb_left")][k])
    BY <1>4, <1>7, <2>1
  <2>3. /\ k \notin t.black => TreeBut(u, S \ {k}, E, h, k)
        /\ k \in t.black => EraseInv(u, S \ {k}, E, h, k, t.kid[Other("rb_left")][k], t.parent[k])
    BY <1>4, <1>5, <2>1, <2>2, CutSays
  <2> HIDE DEF E
  <2> QED BY <1>4, <2>1, <2>3
<1>11. Shape(u, S \ {k}, E)
  BY <1>10 DEF TreeBut, EraseInv
<1>12. n \in S \ {k} /\ k \in Node \ (S \ {k}) /\ RenSet(n, k, S \ {k}) = S \ {n}
  BY <1>5 DEF RenSet
<1>13. Ren(n, k, c) = c /\ Ren(n, k, q) = b
  BY <1>5 DEF Ren
<1> HIDE DEF E, b
<1>14. /\ TreeBut(u, S \ {k}, E, h, k) =>
            \E D2, h2 : TreeBut(v, RenSet(n, k, S \ {k}), D2, h2, n)
       /\ \A x, y : EraseInv(u, S \ {k}, E, h, k, x, y) =>
            \E D2, h2 : EraseInv(v, RenSet(n, k, S \ {k}), D2, h2, n, Ren(n, k, x), Ren(n, k, y))
  BY <1>1, <1>8, <1>9, <1>11, <1>12, RenameSays
<1>15. CASE k \notin t.black
  BY <1>3, <1>10, <1>12, <1>14, <1>15
<1>16. CASE k \in t.black
  <2>1. PICK D2, h2 : EraseInv(v, S \ {n}, D2, h2, n, c, b)
    BY <1>10, <1>12, <1>13, <1>14, <1>16
  <2> QED BY <1>3, <1>16, <2>1, EraseColorSays
<1> QED BY <1>15, <1>16

\* rb_erase leaves a red-black tree of the others.
LEMMA EraseSays ==
  ASSUME NEW t, NEW S, NEW D, NEW h, TreeInv(t, S, D, h), NEW n \in S
  PROVE  \E D2, h2 : TreeInv(rb_erase(t, n), S \ {n}, D2, h2)
<1> DEFINE v == IF \E s \in Side : t.kid[s][n] = NULL THEN EraseOuter(t, n) ELSE EraseInner(t, n)
<1>1. n \in Node /\ n \notin S \ {n}
  BY DEF TreeInv, Shape
<1>2. PICK D2, h2 : TreeBut(v, S \ {n}, D2, h2, n)
  <2>1. CASE \E s \in Side : t.kid[s][n] = NULL
    BY <2>1, EraseOuterSays
  <2>2. CASE ~\E s \in Side : t.kid[s][n] = NULL
    BY <2>2, EraseInnerSays
  <2> QED BY <2>1, <2>2
<1>3. rb_erase(t, n) = Freed(v, n)
  BY DEF rb_erase
<1> HIDE DEF v
<1> QED BY <1>1, <1>2, <1>3, FreedSays
-----------------------------------------------------------------------------
(* The result is a red-black tree. *)

\* The nodes at and above n.
Ups(S, D, n) == {m \in S : n \in D[m]}

\* Above finds them.
LEMMA AboveSays ==
  ASSUME NEW t, NEW S, NEW D, Shape(t, S, D), NEW n \in S
  PROVE  Above(t, n) = Ups(S, D, n)
<1> DEFINE U == Ups(S, D, n)
           Way(k) == {A \in SUBSET U : n \in A /\ Cardinality(U \ A) <= k}
           Q == [k \in Nat |-> Way(k)]
<1>1. S \subseteq Node /\ N \in Nat /\ NULL \notin Node /\ U \in SUBSET Node /\ U \subseteq S
  BY NodeFacts DEF Shape, Ups
<1>2. n \in U
  BY NodeSays DEF Ups
<1>3. ASSUME NEW m \in U, t.parent[m] # NULL PROVE t.parent[m] \in U
  <2>1. m \in S /\ n \in D[m]
    BY DEF Ups
  <2>2. m # t.root /\ t.parent[m] \in S
    BY <1>3, <2>1, NodeSays
  <2>3. /\ SideIn(t, t.parent[m], m) \in Side
        /\ t.kid[SideIn(t, t.parent[m], m)][t.parent[m]] = m
    BY <2>1, <2>2, OnePlace
  <2>4. m \in D[t.parent[m]]
    BY <1>1, <2>1, <2>2, <2>3, KidSays
  <2>5. D[m] \subseteq D[t.parent[m]]
    BY <2>2, <2>4, DownSays
  <2> QED BY <2>1, <2>2, <2>5 DEF Ups
<1> HIDE DEF U
<1>4. {n} \in Q[N]
  <2>1. Cardinality(U \ {n}) <= N
    BY <1>1, NodeFacts
  <2>2. {n} \in Way(N)
    BY <1>2, <2>1
  <2> HIDE DEF Way
  <2> QED BY <1>1, <2>2
<1>5. ASSUME NEW k \in Nat, NEW A \in Way(k), AboveStep(t, A) # A
      PROVE  k > 0 /\ AboveStep(t, A) \in Way(k - 1)
  <2> DEFINE B == AboveStep(t, A)
  <2>1. A \subseteq U /\ n \in A /\ Cardinality(U \ A) <= k
    OBVIOUS
  <2>2. A \subseteq B /\ B \subseteq U
    BY <1>3, <2>1 DEF AboveStep
  <2> HIDE DEF B, Way
  <2>3. U \ B \in SUBSET Node /\ U \ A \in SUBSET Node /\ U \ B \subseteq U \ A /\ U \ B # U \ A
    <3>1. A # B
      BY <1>5 DEF B
    <3> QED BY <1>1, <2>1, <2>2, <3>1
  <2>4. /\ Cardinality(U \ B) \in Nat /\ Cardinality(U \ A) \in Nat
        /\ Cardinality(U \ B) < Cardinality(U \ A)
    <3> DEFINE X == U \ B
               Y == U \ A
    <3>1. X \in SUBSET Node /\ Y \in SUBSET Node /\ X \subseteq Y /\ X # Y
      BY <2>3
    <3> HIDE DEF X, Y
    <3>2. Cardinality(X) \in Nat /\ Cardinality(Y) \in Nat /\ Cardinality(X) < Cardinality(Y)
      BY <3>1, Larger
    <3> QED BY <3>2 DEF X, Y
  <2>5. k > 0 /\ Cardinality(U \ B) <= k - 1
    BY <2>1, <2>4
  <2>6. B \in Way(k - 1)
    BY <2>1, <2>2, <2>5 DEF Way
  <2> QED BY <2>5, <2>6 DEF B
<1>6. \A k \in Nat : \A y \in Q[k] : AboveStep(t, y) = y \/ (k > 0 /\ AboveStep(t, y) \in Q[k - 1])
  <2> SUFFICES ASSUME NEW k \in Nat, NEW y \in Q[k]
               PROVE  AboveStep(t, y) = y \/ (k > 0 /\ AboveStep(t, y) \in Q[k - 1])
    OBVIOUS
  <2>1. y \in Way(k) /\ (k > 0 => Q[k - 1] = Way(k - 1))
    OBVIOUS
  <2> HIDE DEF Q, Way
  <2> QED BY <1>5, <2>1
<1> HIDE DEF Q, Way
<1>7. PICK y : /\ Above(t, n) = y /\ AboveStep(t, y) = y
               /\ \E k \in 0..N : y \in Q[k]
  BY <1>1, <1>4, <1>6, AboveLoop
<1>8. PICK k \in Nat : y \in Way(k)
  BY <1>1, <1>7 DEF Q
<1>9. y \subseteq U /\ n \in y
  BY <1>8 DEF Way
<1>10. \A m \in y : t.parent[m] # NULL => t.parent[m] \in y
  BY <1>7 DEF AboveStep
<1>11. U \subseteq y
  <2> DEFINE T == {Cardinality(D[m]) : m \in U \ y}
  <2>1. SUFFICES ASSUME T # {} PROVE FALSE
    OBVIOUS
  <2>2. PICK m \in U \ y : \A l \in U \ y : Cardinality(D[m]) <= Cardinality(D[l])
    <3>1. T \subseteq Nat
      BY <1>1, NodeSays, NodeFacts
    <3>2. PICK i \in T : \A l \in T : i <= l
      <4> HIDE DEF T
      <4> QED BY <2>1, <3>1, LeastNat
    <3> QED BY <3>2
  <2>3. m \in S /\ n \in D[m] /\ m # n
    BY <1>9, <2>2 DEF U, Ups
  <2>4. PICK s \in Side : n \in Sub(D, t.kid[s][m])
    <3>1. "rb_left" \in Side /\ Other("rb_left") \in Side
      BY BeforeFacts DEF Side
    <3> QED BY <2>3, <3>1, NodeSays
  <2> DEFINE c == t.kid[s][m]
  <2>5. c # NULL /\ Sub(D, c) = D[c]
    BY <2>4 DEF Sub
  <2>6. c \in S /\ t.parent[c] = m /\ m \notin D[c] /\ Sub(D, c) \subseteq D[m] /\ m # NULL
    BY <2>3, <2>5, KidSays, NodeSays
  <2>7. D[c] \in SUBSET Node /\ D[m] \in SUBSET Node /\ m \in D[m] /\ D[c] \subseteq D[m]
    BY <2>3, <2>5, <2>6, NodeSays
  <2>8. /\ Cardinality(D[c]) \in Nat /\ Cardinality(D[m]) \in Nat /\ Cardinality(D[c]) < Cardinality(D[m])
    BY <2>6, <2>7, Larger
  <2>9. ~(Cardinality(D[m]) <= Cardinality(D[c]))
    BY <2>8
  <2>10. c \in U
    BY <2>4, <2>5, <2>6 DEF U, Ups
  <2>11. c \in y
    BY <2>2, <2>9, <2>10
  <2> HIDE DEF c
  <2> QED BY <1>10, <2>2, <2>6, <2>11
<1> QED BY <1>7, <1>9, <1>11 DEF U

\* The nodes above n are those above its parent, and n.
LEMMA UpsOf ==
  ASSUME NEW t, NEW S, NEW D, Shape(t, S, D), NEW n \in S
  PROVE  /\ n = t.root => Ups(S, D, n) = {n}
         /\ n # t.root => /\ Ups(S, D, n) = Ups(S, D, t.parent[n]) \cup {n}
                          /\ n \notin Ups(S, D, t.parent[n])
<1> DEFINE p == t.parent[n]
<1>1. n \in D[n]
  BY NodeSays
<1>2. \A m \in S : n \in D[m] /\ n # m => t.parent[n] \in D[m] /\ n # t.root
  BY DownSays
<1>3. CASE n = t.root
  BY <1>1, <1>2, <1>3 DEF Ups
<1>4. CASE n # t.root
  <2>1. p \in S /\ SideIn(t, p, n) \in Side /\ t.kid[SideIn(t, p, n)][p] = n /\ n # NULL
    BY <1>4, NodeSays, OnePlace
  <2>2. n \in D[p] /\ p \notin D[n]
    BY <2>1, KidSays
  <2>3. \A m \in S : p \in D[m] => n \in D[m]
    BY <2>2, DownSays
  <2> QED BY <1>1, <1>2, <1>4, <2>1, <2>2, <2>3 DEF Ups
<1> QED BY <1>3, <1>4

\* The black nodes above a node, by the height.
LEMMA BlacksSays ==
  ASSUME NEW t, NEW S, NEW D, NEW h, TreeInv(t, S, D, h), NEW n \in S
  PROVE  Cardinality(Ups(S, D, n) \cap t.black) + h[n] = h[t.root] + Bit(t, n)
<1> DEFINE b(m) == Cardinality(Ups(S, D, m) \cap t.black)
           Good(m) == b(m) + h[m] = h[t.root] + Bit(t, m)
           T == {N - Cardinality(D[m]) : m \in {z \in S : ~Good(z)}}
<1>1. SUFFICES ASSUME T # {} PROVE FALSE
  OBVIOUS
<1>2. Shape(t, S, D) /\ h \in [Node -> Nat] /\ S \subseteq Node /\ \A m \in S : HtOK(t, h, m)
  BY DEF TreeInv, Shape
<1>3. PICK m \in S : ~Good(m) /\ \A l \in S : ~Good(l) => N - Cardinality(D[m]) <= N - Cardinality(D[l])
  <2>1. T \subseteq Nat
    <3> SUFFICES ASSUME NEW z \in S PROVE N - Cardinality(D[z]) \in Nat
      OBVIOUS
    <3>1. D[z] \in SUBSET Node
      BY <1>2, NodeSays
    <3> QED BY <3>1, NodeFacts
  <2>2. PICK i \in T : \A l \in T : i <= l
    <3> HIDE DEF T
    <3> QED BY <1>1, <2>1, LeastNat
  <2> HIDE DEF Good
  <2> QED BY <2>2
<1>4. m \in Node /\ h[m] \in Nat /\ IsFiniteSet({}) /\ Cardinality({}) = 0
  BY <1>2, FS_EmptySet
<1>5. CASE m = t.root
  <2>1. Ups(S, D, m) = {m}
    BY <1>2, <1>5, UpsOf
  <2>2. Cardinality({m}) = 1
    BY FS_Singleton
  <2>3. {m} \cap t.black = IF m \in t.black THEN {m} ELSE {}
    OBVIOUS
  <2>4. b(m) = Bit(t, m)
    BY <1>4, <2>1, <2>2, <2>3 DEF Bit
  <2> QED BY <1>3, <1>4, <1>5, <2>4 DEF Bit
<1>6. CASE m # t.root
  <2> DEFINE p == t.parent[m]
             A == Ups(S, D, p) \cap t.black
  <2>1. p \in S /\ SideIn(t, p, m) \in Side /\ t.kid[SideIn(t, p, m)][p] = m /\ m # NULL
    BY <1>2, <1>6, NodeSays, OnePlace
  <2>2. /\ Ups(S, D, m) = Ups(S, D, p) \cup {m} /\ m \notin Ups(S, D, p)
    BY <1>2, <1>6, UpsOf
  <2>3. m \notin D[m] \/ (D[m] \subseteq D[p] /\ p \notin D[m] /\ p \in D[p] /\ D[p] \in SUBSET Node)
    <3>1. Sub(D, m) \subseteq D[p] /\ p \notin D[m] /\ Sub(D, m) = D[m]
      BY <1>2, <2>1, KidSays
    <3>2. p \in D[p] /\ D[p] \in SUBSET Node
      BY <1>2, <2>1, NodeSays
    <3> QED BY <3>1, <3>2
  <2>4. m \in D[m] /\ D[m] \in SUBSET Node
    BY <1>2, NodeSays
  <2>5. /\ Cardinality(D[m]) \in Nat /\ Cardinality(D[p]) \in Nat /\ Cardinality(D[m]) < Cardinality(D[p])
    BY <2>3, <2>4, Larger
  <2>6. ~(N - Cardinality(D[m]) <= N - Cardinality(D[p]))
    BY <2>5, NodeFacts
  <2> HIDE DEF Good
  <2>7. Good(p)
    BY <1>3, <2>1, <2>6
  <2>8. h[p] = h[m] + Bit(t, p)
    <3>1. h[p] = Ht(h, t.kid[SideIn(t, p, m)][p]) + Bit(t, p)
      BY <1>2, <2>1 DEF HtOK
    <3> QED BY <2>1, <3>1 DEF Ht
  <2>9. A \in SUBSET Node /\ m \notin A
    BY <1>2, <2>2 DEF Ups
  <2>10. Ups(S, D, m) \cap t.black = IF m \in t.black THEN A \cup {m} ELSE A
    BY <2>2
  <2>11. IsFiniteSet(A) /\ Cardinality(A) \in Nat
    BY <2>9, NodeFacts
  <2> HIDE DEF A
  <2>12. Cardinality(A \cup {m}) = Cardinality(A) + 1
    BY <2>9, <2>11, FS_AddElement
  <2>13. b(m) = Cardinality(A) + Bit(t, m)
    <3>1. CASE m \in t.black
      BY <2>10, <2>11, <2>12, <3>1 DEF Bit
    <3>2. CASE m \notin t.black
      <4>1. Ups(S, D, m) \cap t.black = A /\ Bit(t, m) = 0
        BY <2>10, <3>2 DEF Bit
      <4>2. Cardinality(A) = Cardinality(A) + 0
        BY <2>11
      <4> QED BY <4>1, <4>2
    <3> QED BY <3>1, <3>2
  <2>14. b(p) = Cardinality(A)
    BY DEF A
  <2>15. b(p) + h[p] = h[t.root] + Bit(t, p)
    BY <2>7 DEF Good
  <2>16. t.root \in Node
    <3>1. RootOK(t, S, D)
      BY <1>2 DEF Shape
    <3> QED BY <1>2, <3>1 DEF RootOK
  <2>17. h[t.root] \in Nat /\ h[p] \in Nat /\ p \in Node
    BY <1>2, <2>1, <2>16
  <2> HIDE DEF b, p
  <2>18. b(m) + h[m] = h[t.root] + Bit(t, m)
    BY <1>4, <2>8, <2>11, <2>13, <2>14, <2>15, <2>17 DEF Bit
  <2> QED BY <1>3, <2>18 DEF Good
<1> QED BY <1>5, <1>6

\* The tree of TreeInv is a red-black tree of S.
LEMMA RedBlackSays ==
  ASSUME NEW t, NEW S, NEW D, NEW h, TreeInv(t, S, D, h)
  PROVE  IsRedBlack(t) /\ Linked(t) = S
<1>1. /\ Shape(t, S, D) /\ h \in [Node -> Nat] /\ S \subseteq Node /\ RootOK(t, S, D)
      /\ \A m \in S : HtOK(t, h, m) /\ RedOK(t, m)
      /\ \A m \in Node \ S : Clear(t, m)
  BY DEF TreeInv, Shape
<1>2. Linked(t) = S
  <2>1. \A n \in S : n = t.root \/ t.parent[n] # NULL
    BY <1>1, NodeSays
  <2>2. \A n \in Node \ S : n # t.root /\ t.parent[n] = NULL
    BY <1>1, NodeFacts DEF RootOK, Clear
  <2> QED BY <1>1, <2>1, <2>2 DEF Linked
<1>3. \A n \in S, s \in Side : t.kid[s][n] # NULL => t.parent[t.kid[s][n]] = n
  BY <1>1, KidSays
<1>4. \A n \in S : \E s \in Side : n # t.root => t.kid[s][t.parent[n]] = n
  <2> SUFFICES ASSUME NEW n \in S PROVE \E s \in Side : n # t.root => t.kid[s][t.parent[n]] = n
    OBVIOUS
  <2>1. "rb_left" \in Side
    BY DEF Side
  <2>2. n # t.root => /\ SideIn(t, t.parent[n], n) \in Side
                      /\ t.kid[SideIn(t, t.parent[n], n)][t.parent[n]] = n
    BY <1>1, OnePlace
  <2> QED BY <2>1, <2>2
<1>5. \A n \in S : Above(t, n) = Ups(S, D, n)
  BY <1>1, AboveSays
<1>6. \A n \in S : t.root \in Above(t, n)
  BY <1>1, <1>5 DEF RootOK, Ups
<1>7. ~IsRed(t, t.root)
  BY <1>1 DEF RootOK, RedOK, IsRed
<1>8. \A n \in S : IsRed(t, n) => ~IsRed(t, t.parent[n])
  BY <1>1 DEF RedOK
<1>9. ASSUME NEW n \in S, \E s \in Side : t.kid[s][n] = NULL
      PROVE  Cardinality(Above(t, n) \cap t.black) = h[t.root]
  <2>1. h[n] = Bit(t, n)
    <3>1. PICK s \in Side : t.kid[s][n] = NULL
      BY <1>9
    <3>2. h[n] = Ht(h, t.kid[s][n]) + Bit(t, n)
      BY <1>1 DEF HtOK
    <3> QED BY <3>1, <3>2 DEF Ht, Bit
  <2>2. Cardinality(Ups(S, D, n) \cap t.black) + h[n] = h[t.root] + Bit(t, n)
    BY BlacksSays
  <2>3. Cardinality(Ups(S, D, n) \cap t.black) \in Nat
    <3>1. Ups(S, D, n) \cap t.black \in SUBSET Node
      BY <1>1 DEF Ups
    <3> QED BY <3>1, NodeFacts
  <2>4. t.root \in Node
    BY <1>1 DEF RootOK
  <2>5. h[t.root] \in Nat
    BY <1>1, <2>4
  <2>6. Bit(t, n) \in Nat
    BY DEF Bit
  <2>7. Cardinality(Ups(S, D, n) \cap t.black) = h[t.root]
    BY <2>1, <2>2, <2>3, <2>5, <2>6
  <2> QED BY <1>5, <2>7
<1>10. IsRedBlack(t)
  BY <1>2, <1>3, <1>4, <1>6, <1>7, <1>8, <1>9 DEF IsRedBlack
<1> QED BY <1>2, <1>10
-----------------------------------------------------------------------------
(* The way down. *)

\* tcbcmp is 0 for equal ports and the same client, and only for them.
LEMMA EqualFacts ==
  ASSUME NEW m \in Node, NEW n \in Node
  PROVE  /\ tcbcmp(m, n) = 0 <=> /\ Key(m).rport = Key(n).rport /\ Key(m).lport = Key(n).lport
                                 /\ Key(m).raddr = Key(n).raddr
         /\ tcbcmp(m, n) = 0 => \A k \in Node, s \in Side : Before(s, m, k) <=> Before(s, n, k)
<1>1. /\ Key(m).rport \in Int /\ Key(m).lport \in Int /\ Key(m).raddr \in Int
      /\ Key(n).rport \in Int /\ Key(n).lport \in Int /\ Key(n).raddr \in Int
  BY KeyTypes
<1>2. tcbcmp(m, n) = 0 <=> /\ Key(m).rport = Key(n).rport /\ Key(m).lport = Key(n).lport
                           /\ Key(m).raddr = Key(n).raddr
  BY <1>1 DEF tcbcmp
<1>3. ASSUME tcbcmp(m, n) = 0, NEW k \in Node
      PROVE  tcbcmp(m, k) = tcbcmp(n, k) /\ tcbcmp(k, m) = tcbcmp(k, n)
  BY <1>2, <1>3 DEF tcbcmp
<1>4. ASSUME tcbcmp(m, n) = 0, NEW k \in Node, NEW s \in Side PROVE Before(s, m, k) <=> Before(s, n, k)
  BY <1>3, <1>4 DEF Before
<1> QED BY <1>2, <1>4

\* The search for key has come to w.at, and the way there is the right one.
OnWay(t, S, D, key, w) ==
    /\ w \in [at : S \cup {NULL}, parent : S \cup {NULL}, side : Side]
    /\ w.parent = NULL => w.at = t.root
    /\ w.parent # NULL => /\ t.kid[w.side][w.parent] = w.at /\ Before(w.side, key, w.parent)
                          /\ \A m \in S, r \in Side :
                               w.parent \in Sub(D, t.kid[r][m]) => Before(r, key, m)
    /\ \A m \in S : tcbcmp(key, m) = 0 => m \in Sub(D, w.at)

\* A step on the way.
LEMMA DescendOn ==
  ASSUME NEW t, NEW S, NEW D, Shape(t, S, D), NEW key \in Node, NEW w, OnWay(t, S, D, key, w),
         w.at # NULL, tcbcmp(key, w.at) # 0
  PROVE  LET x == DescendStep(t, key, w)
         IN  /\ OnWay(t, S, D, key, x)
             /\ Sub(D, x.at) \in SUBSET Node /\ Sub(D, w.at) \in SUBSET Node
             /\ Sub(D, x.at) \subseteq Sub(D, w.at) /\ Sub(D, x.at) # Sub(D, w.at)
<1> DEFINE a == w.at
           s == IF tcbcmp(key, a) < 0 THEN "rb_left" ELSE "rb_right"
           x == [at |-> t.kid[s][a], parent |-> a, side |-> s]
           y == t.kid[s][a]
<1>1. DescendStep(t, key, w) = x
  BY DEF DescendStep
<1>2. a \in S /\ a \in Node /\ a # NULL /\ S \subseteq Node
  BY DEF OnWay, Shape
<1>3. s \in Side /\ Before(s, key, a)
  <2>1. tcbcmp(key, a) \in Int /\ tcbcmp(a, key) = 0 - tcbcmp(key, a)
    BY <1>2, CompareFacts
  <2> QED BY <2>1 DEF Side, Before
<1>4. /\ w.parent = NULL => a = t.root
      /\ w.parent # NULL => /\ w.parent \in S /\ w.side \in Side
                            /\ t.kid[w.side][w.parent] = a /\ Before(w.side, key, w.parent)
                            /\ \A m \in S, r \in Side :
                                 w.parent \in Sub(D, t.kid[r][m]) => Before(r, key, m)
      /\ \A m \in S : tcbcmp(key, m) = 0 => m \in Sub(D, a)
  BY DEF OnWay
<1>5. x.at = y /\ x.parent = a /\ x.side = s
  OBVIOUS
<1> HIDE DEF s, a
<1>6. /\ y \in S \cup {NULL} /\ Sub(D, y) \subseteq D[a] /\ a \notin Sub(D, y)
      /\ D[a] = {a} \cup Sub(D, y) \cup Sub(D, t.kid[Other(s)][a])
  BY <1>2, <1>3, KidSays
<1>7. a \in D[a] /\ D[a] \in SUBSET Node /\ Sub(D, a) = D[a]
  BY <1>2, NodeSays DEF Sub
<1>8. ASSUME NEW m \in S, NEW r \in Side, a \in Sub(D, t.kid[r][m]) PROVE Before(r, key, m)
  <2> DEFINE z == t.kid[r][m]
  <2>1. z \in S /\ Sub(D, z) = D[z] /\ z # t.root /\ a \in D[z]
    <3>1. z # NULL
      BY <1>8 DEF Sub
    <3> QED BY <1>8, <3>1, KidSays
  <2>2. CASE a = z
    <3>1. m = t.parent[a] /\ a # t.root
      BY <1>2, <2>2, OnePlace
    <3>2. w.parent # NULL
      BY <1>4, <3>1
    <3>3. w.parent = m
      BY <1>2, <1>4, <3>1, <3>2, OnePlace
    <3>4. w.side = r
      BY <1>2, <1>4, <2>2, <3>2, <3>3, OnePlace
    <3> QED BY <1>4, <3>2, <3>3, <3>4
  <2>3. CASE a # z
    <3>1. t.parent[a] \in D[z] /\ a # t.root
      BY <2>1, <2>3, DownSays
    <3>2. w.parent # NULL
      BY <1>4, <3>1
    <3>3. w.parent = t.parent[a]
      BY <1>2, <1>4, <3>2, OnePlace
    <3> QED BY <1>4, <2>1, <3>1, <3>2, <3>3
  <2> QED BY <2>2, <2>3
<1>9. ASSUME NEW m \in S, tcbcmp(key, m) = 0 PROVE m \in Sub(D, y)
  <2>1. m \in D[a] /\ m \in Node
    BY <1>2, <1>4, <1>7, <1>9
  <2>2. m # a
    BY <1>9 DEF a
  <2>3. m \notin Sub(D, t.kid[Other(s)][a])
    <3>1. SUFFICES ASSUME m \in Sub(D, t.kid[Other(s)][a]) PROVE FALSE
      OBVIOUS
    <3>2. Before(Other(s), m, a) /\ Other(s) \in Side
      BY <1>2, <1>3, <3>1, BeforeFacts, KidSays
    <3>3. Before(s, m, a)
      BY <1>2, <1>3, <1>9, <2>1, EqualFacts
    <3>4. Before(s, a, m)
      BY <1>2, <1>3, <2>1, <3>2, BeforeFacts
    <3> QED BY <1>2, <1>3, <2>1, <3>3, <3>4, BeforeFacts
  <2> QED BY <1>6, <2>1, <2>2, <2>3
<1>10. OnWay(t, S, D, key, x)
  <2>1. x \in [at : S \cup {NULL}, parent : S \cup {NULL}, side : Side]
    BY <1>2, <1>3, <1>6
  <2> HIDE DEF x, y
  <2>2. t.kid[x.side][x.parent] = x.at
    BY <1>5 DEF y
  <2> QED BY <1>2, <1>3, <1>5, <1>8, <1>9, <2>1, <2>2 DEF OnWay
<1>11. Sub(D, y) \in SUBSET Node /\ Sub(D, y) # D[a]
  BY <1>6, <1>7
<1> HIDE DEF x, y
<1> QED BY <1>1, <1>5, <1>6, <1>7, <1>10, <1>11 DEF a

\* Where the search for key ends: at an equal tcb, or at the place for the key.
LEMMA DescendSays ==
  ASSUME NEW t, NEW S, NEW D, Shape(t, S, D), NEW key \in Node
  PROVE  LET w == Descend(t, key)
         IN  /\ w.at \in S \cup {NULL} /\ w.side \in Side
             /\ w.at # NULL => w.at \in S /\ tcbcmp(key, w.at) = 0
             /\ w.at = NULL => /\ Place(t, S, D, key, w.parent, w.side)
                               /\ \A m \in S : tcbcmp(key, m) # 0
<1> DEFINE Way(k) == {w \in [at : S \cup {NULL}, parent : S \cup {NULL}, side : Side] :
                        OnWay(t, S, D, key, w) /\ Cardinality(Sub(D, w.at)) <= k}
           Q == [k \in Nat |-> Way(k)]
           x == [at |-> t.root, parent |-> NULL, side |-> "rb_left"]
<1>1. N \in Nat /\ S \subseteq Node /\ D \in [Node -> SUBSET Node] /\ RootOK(t, S, D)
  BY NodeFacts DEF Shape
<1>2. x \in Q[N]
  <2>1. t.root \in S \cup {NULL} /\ "rb_left" \in Side
    BY <1>1 DEF RootOK, Side
  <2>2. Sub(D, t.root) = S
    BY <1>1, NodeFacts DEF RootOK, Sub
  <2>3. x \in [at : S \cup {NULL}, parent : S \cup {NULL}, side : Side]
    BY <2>1
  <2>4. OnWay(t, S, D, key, x)
    BY <2>2, <2>3 DEF OnWay
  <2>5. Cardinality(Sub(D, x.at)) <= N
    BY <1>1, <2>2, NodeFacts
  <2>6. x \in Way(N)
    BY <2>3, <2>4, <2>5
  <2> HIDE DEF Way, x
  <2> QED BY <1>1, <2>6
<1> HIDE DEF x
<1>3. ASSUME NEW k \in Nat, NEW w \in Way(k), DescendStep(t, key, w) # w
      PROVE  k > 0 /\ DescendStep(t, key, w) \in Way(k - 1)
  <2> DEFINE z == DescendStep(t, key, w)
             A == Sub(D, z.at)
             B == Sub(D, w.at)
  <2>1. OnWay(t, S, D, key, w) /\ Cardinality(B) <= k
    OBVIOUS
  <2>2. w.at # NULL /\ tcbcmp(key, w.at) # 0
    BY <1>3 DEF DescendStep
  <2> HIDE DEF Way
  <2>3. /\ OnWay(t, S, D, key, z)
        /\ A \in SUBSET Node /\ B \in SUBSET Node /\ A \subseteq B /\ A # B
    BY <2>1, <2>2, DescendOn
  <2> HIDE DEF z, A, B
  <2>4. Cardinality(A) \in Nat /\ Cardinality(B) \in Nat /\ Cardinality(A) < Cardinality(B)
    BY <2>3, Larger
  <2>5. k > 0 /\ Cardinality(A) <= k - 1
    BY <2>1, <2>4
  <2>6. z \in [at : S \cup {NULL}, parent : S \cup {NULL}, side : Side]
    BY <2>3 DEF OnWay
  <2>7. z \in Way(k - 1)
    BY <2>3, <2>5, <2>6 DEF Way, A
  <2> QED BY <2>5, <2>7 DEF z
<1>4. \A k \in Nat : \A y \in Q[k] :
        DescendStep(t, key, y) = y \/ (k > 0 /\ DescendStep(t, key, y) \in Q[k - 1])
  <2> SUFFICES ASSUME NEW k \in Nat, NEW y \in Q[k]
               PROVE  DescendStep(t, key, y) = y \/ (k > 0 /\ DescendStep(t, key, y) \in Q[k - 1])
    OBVIOUS
  <2>1. y \in Way(k) /\ (k > 0 => Q[k - 1] = Way(k - 1))
    OBVIOUS
  <2> HIDE DEF Q, Way
  <2> QED BY <1>3, <2>1
<1> HIDE DEF Q, Way
<1>5. PICK y : /\ Descend(t, key) = y /\ DescendStep(t, key, y) = y
               /\ \E k \in 0..N : y \in Q[k]
  BY <1>1, <1>2, <1>4, DescendLoop DEF x
<1>6. Descend(t, key) = y
  BY <1>5
<1>7. PICK k \in Nat : y \in Way(k)
  BY <1>1, <1>5 DEF Q
<1>8. OnWay(t, S, D, key, y) /\ y.at \in S \cup {NULL} /\ y.side \in Side /\ y.parent \in S \cup {NULL}
  BY <1>7 DEF Way
<1>9. ASSUME y.at # NULL PROVE y.at \in S /\ tcbcmp(key, y.at) = 0
  <2>1. y.at \in S
    BY <1>8, <1>9
  <2>2. SUFFICES ASSUME tcbcmp(key, y.at) # 0 PROVE FALSE
    BY <2>1
  <2> DEFINE z == DescendStep(t, key, y)
  <2>3. /\ OnWay(t, S, D, key, z)
        /\ Sub(D, z.at) \in SUBSET Node /\ Sub(D, y.at) \in SUBSET Node
        /\ Sub(D, z.at) \subseteq Sub(D, y.at) /\ Sub(D, z.at) # Sub(D, y.at)
    BY <1>8, <1>9, <2>2, DescendOn
  <2>4. z = y
    BY <1>5
  <2> HIDE DEF z
  <2> QED BY <2>3, <2>4
<1>10. ASSUME y.at = NULL PROVE Place(t, S, D, key, y.parent, y.side) /\ \A m \in S : tcbcmp(key, m) # 0
  <2>1. \A m \in S : tcbcmp(key, m) # 0
    BY <1>8, <1>10 DEF OnWay, Sub
  <2>2. CASE y.parent = NULL
    <3>1. t.root = NULL
      BY <1>8, <1>10, <2>2 DEF OnWay
    <3>2. S = {}
      BY <1>1, <3>1, NodeFacts DEF RootOK
    <3> QED BY <2>1, <2>2, <3>2 DEF Place
  <2>3. CASE y.parent # NULL
    <3>1. /\ t.kid[y.side][y.parent] = NULL /\ Before(y.side, key, y.parent)
          /\ \A m \in S, r \in Side : y.parent \in Sub(D, t.kid[r][m]) => Before(r, key, m)
      BY <1>8, <1>10, <2>3 DEF OnWay
    <3> QED BY <1>8, <2>1, <2>3, <3>1 DEF Place
  <2> QED BY <2>2, <2>3
<1> QED BY <1>6, <1>8, <1>9, <1>10
-----------------------------------------------------------------------------
(* tcb.c. *)

\* The table: a red-black tree of S, in which no two tcbs compare equal.
Table(t, S) ==
    /\ \E D, h : TreeInv(t, S, D, h)
    /\ Listener \in S /\ S \subseteq Node
    /\ \A m, n \in S : tcbcmp(m, n) = 0 => m = n
    /\ \A m \in S : m # Listener => Key(m).lport > 0

\* The empty tree.
LEMMA EmptySays == \E D, h : TreeInv(RB_ROOT, {}, D, h)
<1> DEFINE D == [n \in Node |-> {}]
           h == [n \in Node |-> 0]
<1>1. RB_ROOT \in Tree
  BY DEF RB_ROOT, Tree
<1>2. RB_ROOT.root = NULL
  BY DEF RB_ROOT
<1>3. \A m \in Node : Clear(RB_ROOT, m)
  BY DEF RB_ROOT, Clear
<1>4. D \in [Node -> SUBSET Node] /\ h \in [Node -> Nat]
  OBVIOUS
<1> HIDE DEF D, h
<1>5. Shape(RB_ROOT, {}, D)
  BY <1>1, <1>2, <1>4 DEF Shape, RootOK
<1>6. TreeInv(RB_ROOT, {}, D, h)
  BY <1>3, <1>4, <1>5 DEF TreeInv
<1> QED BY <1>6

\* tcb_insert adds a tcb that compares equal to none.
LEMMA InsertSays ==
  ASSUME NEW t, NEW S, NEW D, NEW h, TreeInv(t, S, D, h), NEW k \in Node,
         \A m \in S : tcbcmp(k, m) # 0
  PROVE  \E D2, h2 : TreeInv(tcb_insert(t, k), S \cup {k}, D2, h2)
<1> DEFINE w == Descend(t, k)
<1>1. Shape(t, S, D)
  BY DEF TreeInv
<1>2. /\ w.side \in Side
      /\ w.at # NULL => w.at \in S /\ tcbcmp(k, w.at) = 0
      /\ w.at = NULL => Place(t, S, D, k, w.parent, w.side)
  BY <1>1, DescendSays
<1>3. tcb_insert(t, k) = IF w.at # NULL THEN t ELSE rb_insert_color(rb_link_node(t, k, w.parent, w.side), k)
  BY DEF tcb_insert
<1> HIDE DEF w
<1>4. w.at = NULL
  BY <1>2
<1>5. k \in Node \ S
  <2>1. tcbcmp(k, k) = 0
    BY EqualFacts
  <2> QED BY <2>1
<1>6. PICK D2, h2 : InsertInv(rb_link_node(t, k, w.parent, w.side), S \cup {k}, D2, h2, k)
  BY <1>2, <1>4, <1>5, LinkSays
<1> QED BY <1>3, <1>4, <1>6, InsertColorSays

\* The search finds the tcb that compares equal, and only it.
LEMMA FindRbSays ==
  ASSUME NEW t, NEW S, Table(t, S), NEW k \in Node
  PROVE  LET x == tcb_find_rb(t, k)
         IN  /\ x # NULL => x \in S /\ x \in Node /\ tcbcmp(k, x) = 0
             /\ x = NULL => \A m \in S : tcbcmp(k, m) # 0
             /\ k \in S => x = k
<1> DEFINE x == tcb_find_rb(t, k)
           w == Descend(t, k)
<1>1. PICK D, h : TreeInv(t, S, D, h)
  BY DEF Table
<1>2. Shape(t, S, D) /\ S \subseteq Node
  BY <1>1 DEF TreeInv, Shape
<1>3. /\ w.at # NULL => w.at \in S /\ tcbcmp(k, w.at) = 0
      /\ w.at = NULL => \A m \in S : tcbcmp(k, m) # 0
  BY <1>2, DescendSays
<1>4. x = w.at
  BY DEF tcb_find_rb
<1> HIDE DEF x, w
<1>5. ASSUME k \in S PROVE x = k
  <2>1. tcbcmp(k, k) = 0
    BY EqualFacts
  <2>2. x # NULL
    BY <1>3, <1>4, <1>5, <2>1
  <2> QED BY <1>3, <1>4, <1>5, <2>2 DEF Table
<1> QED BY <1>2, <1>3, <1>4, <1>5 DEF x

\* The tcb of a segment to a port is before the listener.
LEMMA SegmentSays ==
  ASSUME NEW seg \in Node, seg # Listener
  PROVE  Key(seg).lport > 0 => tcbcmp(seg, Listener) < 0 /\ seg \notin LikeListener
<1>1. seg \in DOMAIN Segments
  BY TcbTableAssumption
<1>2. Segments[seg] \in [laddr : Nat, lport : Nat, raddr : Nat, rport : Nat]
  <2> DEFINE R == [laddr : Nat, lport : Nat, raddr : Nat, rport : Nat]
  <2>1. Segments \in Seq(R)
    BY TcbTableAssumption
  <2> HIDE DEF R
  <2>2. seg \in 1..Len(Segments)
    BY <1>1, <2>1
  <2>3. Segments[seg] \in R
    BY <2>1, <2>2
  <2> QED BY <2>3 DEF R
<1>3. /\ Key(seg).rport \in Nat /\ Key(seg).lport \in Nat
      /\ Key(Listener).rport = 0 /\ Key(Listener).lport = 0
  BY <1>2 DEF Key
<1>4. Key(seg).lport > 0 => tcbcmp(seg, Listener) < 0
  BY <1>3 DEF tcbcmp
<1> QED BY <1>4 DEF LikeListener

\* A segment has a number of its own.
LEMMA SegmentNode ==
  ASSUME NEW seg \in DOMAIN Segments
  PROVE  seg \in Node /\ seg # Listener
<1>1. seg \in Node
  BY TcbTableAssumption
<1> DEFINE R == [laddr : Nat, lport : Nat, raddr : Nat, rport : Nat]
<1>2. Segments \in Seq(R)
  BY TcbTableAssumption
<1> HIDE DEF R
<1>3. seg \in 1..Len(Segments) /\ Len(Segments) \in Nat
  BY <1>2
<1> QED BY <1>1, <1>3 DEF Listener

\* The listener is found unless the port is 0, and then only by a segment whose tcb
\* compares equal to it.
LEMMA FindSays ==
  ASSUME NEW t, NEW S, Table(t, S), NEW seg \in DOMAIN Segments
  PROVE  LET x == tcb_find(t, seg)
         IN  /\ x \in S \cup {NULL}
             /\ x \notin {NULL, Listener} => tcbcmp(seg, x) = 0
             /\ x = Listener => \/ seg \in LikeListener
                                \/ Key(seg).lport > 0 /\ \A m \in S : tcbcmp(seg, m) # 0
<1> DEFINE x == tcb_find(t, seg)
           own == tcb_find_rb(t, seg)
           lis == tcb_find_rb(t, Listener)
<1>1. seg \in Node /\ seg # Listener /\ Listener \in Node /\ Listener \in S
  BY SegmentNode, NodeFacts DEF Table
<1>2. /\ own # NULL => own \in S /\ own \in Node /\ tcbcmp(seg, own) = 0
      /\ own = NULL => \A m \in S : tcbcmp(seg, m) # 0
  BY <1>1, FindRbSays
<1>3. lis = Listener
  BY <1>1, FindRbSays
<1>4. x = IF own # NULL THEN own ELSE IF Key(seg).lport > 0 THEN lis ELSE NULL
  BY DEF tcb_find
<1> HIDE DEF x, own, lis
<1>5. own = Listener => seg \in LikeListener
  <2>1. SUFFICES ASSUME own = Listener PROVE seg \in LikeListener
    OBVIOUS
  <2>2. own # NULL
    BY <1>1, <2>1, NodeFacts
  <2>3. tcbcmp(seg, Listener) = 0
    BY <1>2, <2>1, <2>2
  <2> QED BY <1>1, <2>3 DEF LikeListener
<1>6. Listener # NULL
  BY <1>1, NodeFacts
<1>7. CASE own # NULL
  <2>1. x = own
    BY <1>4, <1>7
  <2>2. own \in S /\ tcbcmp(seg, own) = 0
    BY <1>2, <1>7
  <2>3. x \in S /\ tcbcmp(seg, x) = 0 /\ (x = Listener => seg \in LikeListener)
    BY <1>5, <2>1, <2>2
  <2> QED BY <2>3 DEF x
<1>8. CASE own = NULL
  <2>1. \A m \in S : tcbcmp(seg, m) # 0
    BY <1>2, <1>8
  <2>2. CASE Key(seg).lport > 0
    <3>1. x = Listener
      BY <1>3, <1>4, <1>8, <2>2
    <3> QED BY <1>1, <2>1, <2>2, <3>1 DEF x
  <2>3. CASE ~(Key(seg).lport > 0)
    <3>1. x = NULL
      BY <1>4, <1>8, <2>3
    <3> QED BY <1>6, <3>1 DEF x
  <2> QED BY <2>2, <2>3
<1> QED BY <1>7, <1>8

\* A tcb that compares equal to the listener is not in the tree, and stays out.
LEMMA RefusedSays ==
  ASSUME NEW t, NEW S, Table(t, S), NEW k \in LikeListener
  PROVE  k \in Node /\ k \notin S /\ k # Listener /\ tcb_insert(t, k) = t
<1> DEFINE w == Descend(t, k)
<1>1. PICK D, h : TreeInv(t, S, D, h)
  BY DEF Table
<1>2. Shape(t, S, D)
  BY <1>1 DEF TreeInv
<1>3. k \in Node /\ k # Listener /\ tcbcmp(k, Listener) = 0 /\ Listener \in S
  BY DEF LikeListener, Table
<1>4. w.at = NULL => \A m \in S : tcbcmp(k, m) # 0
  BY <1>2, <1>3, DescendSays
<1>5. tcb_insert(t, k) = IF w.at # NULL THEN t ELSE rb_insert_color(rb_link_node(t, k, w.parent, w.side), k)
  BY DEF tcb_insert
<1> HIDE DEF w
<1>6. w.at # NULL
  BY <1>3, <1>4
<1>7. k \notin S
  BY <1>3 DEF Table
<1> QED BY <1>3, <1>5, <1>6, <1>7

\* rb_erase of a tcb that is not in the tree empties the root.
LEMMA EmptiedSays ==
  ASSUME NEW t, NEW S, Table(t, S), NEW k \in LikeListener
  PROVE  rb_erase(t, k) \in Tree /\ rb_erase(t, k).root = NULL
<1>1. PICK D, h : TreeInv(t, S, D, h)
  BY DEF Table
<1>2. k \in Node /\ k \notin S
  BY RefusedSays
<1>3. t \in Tree /\ Clear(t, k)
  BY <1>1, <1>2 DEF TreeInv, Shape
<1>4. /\ t.parent[k] = NULL /\ t.kid["rb_left"][k] = NULL /\ t.kid["rb_right"][k] = NULL
      /\ k \notin t.black
  BY <1>3 DEF Clear, Side
<1>5. EraseOuter(t, k) = [t EXCEPT !.root = NULL]
  BY <1>4 DEF EraseOuter, Relink, rb_set_parent
<1>6. \E s \in Side : t.kid[s][k] = NULL
  BY <1>4 DEF Side
<1>7. rb_erase(t, k) = Freed([t EXCEPT !.root = NULL], k)
  BY <1>5, <1>6 DEF rb_erase
<1> DEFINE v == [t EXCEPT !.root = NULL]
<1>8. v \in Tree /\ v.root = NULL
  BY <1>3 DEF Tree
<1> HIDE DEF v
<1>9. Freed(v, k).root = NULL
  BY <1>8 DEF Freed, Tree
<1>10. Freed(v, k) \in Tree
  <2>1. /\ v.root \in Node \cup {NULL} /\ v.parent \in [Node -> Node \cup {NULL}]
        /\ v.kid \in [Side -> [Node -> Node \cup {NULL}]] /\ v.black \in SUBSET Node
        /\ v = [root |-> v.root, kid |-> v.kid, parent |-> v.parent, black |-> v.black]
    BY <1>8 DEF Tree
  <2>2. [v.parent EXCEPT ![k] = NULL] \in [Node -> Node \cup {NULL}]
    BY <2>1
  <2>3. [side \in Side |-> [v.kid[side] EXCEPT ![k] = NULL]] \in [Side -> [Node -> Node \cup {NULL}]]
    BY <2>1
  <2> DEFINE c == [side \in Side |-> [v.kid[side] EXCEPT ![k] = NULL]]
             p == [v.parent EXCEPT ![k] = NULL]
  <2>4. Freed(v, k) = [[[v EXCEPT !.parent = p] EXCEPT !.black = v.black \ {k}] EXCEPT !.kid = c]
    BY <2>1 DEF Freed
  <2>5. c \in [Side -> [Node -> Node \cup {NULL}]] /\ p \in [Node -> Node \cup {NULL}]
    BY <2>2, <2>3
  <2> HIDE DEF c, p
  <2>6. [v EXCEPT !.parent = p] \in Tree /\ [v EXCEPT !.parent = p].black = v.black
    BY <1>8, <2>5 DEF Tree
  <2> DEFINE v1 == [v EXCEPT !.parent = p]
  <2> HIDE DEF v1
  <2>7. [v1 EXCEPT !.black = v.black \ {k}] \in Tree
    BY <2>1, <2>6 DEF Tree, v1
  <2> DEFINE v2 == [v1 EXCEPT !.black = v.black \ {k}]
  <2> HIDE DEF v2
  <2>8. [v2 EXCEPT !.kid = c] \in Tree
    BY <2>5, <2>7 DEF Tree, v2
  <2> QED BY <2>4, <2>8 DEF v1, v2
<1> QED BY <1>7, <1>9, <1>10 DEF v

\* A tcb that compares equal to none comes into the table.
LEMMA TableInsert ==
  ASSUME NEW t, NEW S, Table(t, S), NEW k \in Node, \A m \in S : tcbcmp(k, m) # 0,
         Key(k).lport > 0
  PROVE  Table(tcb_insert(t, k), S \cup {k})
<1>1. PICK D, h : TreeInv(t, S, D, h)
  BY DEF Table
<1>2. \E D2, h2 : TreeInv(tcb_insert(t, k), S \cup {k}, D2, h2)
  BY <1>1, InsertSays
<1>3. ASSUME NEW m \in S \cup {k}, NEW n \in S \cup {k}, tcbcmp(m, n) = 0 PROVE m = n
  <2>1. CASE m \in S /\ n \in S
    BY <1>3, <2>1 DEF Table
  <2>2. CASE m = k /\ n \in S
    BY <1>3, <2>2
  <2>3. CASE n = k /\ m \in S
    <3>1. m \in Node
      BY <2>3 DEF Table
    <3>2. tcbcmp(k, m) = 0
      BY <1>3, <2>3, <3>1, EqualFacts
    <3> QED BY <2>3, <3>2
  <2>4. CASE m = k /\ n = k
    BY <2>4
  <2> QED BY <2>1, <2>2, <2>3, <2>4
<1>4. Listener \in S \cup {k} /\ S \cup {k} \subseteq Node
  BY DEF Table
<1>5. \A m \in S \cup {k} : m # Listener => Key(m).lport > 0
  BY DEF Table
<1> QED BY <1>2, <1>3, <1>4, <1>5 DEF Table

\* A session goes out of it.
LEMMA TableErase ==
  ASSUME NEW t, NEW S, Table(t, S), NEW k \in S, k # Listener
  PROVE  Table(rb_erase(t, k), S \ {k})
<1>1. PICK D, h : TreeInv(t, S, D, h)
  BY DEF Table
<1>2. \E D2, h2 : TreeInv(rb_erase(t, k), S \ {k}, D2, h2)
  BY <1>1, EraseSays
<1> QED BY <1>2 DEF Table

\* tcp_listen.
LEMMA TableInit == Table(tcb_insert(RB_ROOT, Listener), {Listener})
<1>1. PICK D, h : TreeInv(RB_ROOT, {}, D, h)
  BY EmptySays
<1>2. Listener \in Node
  BY NodeFacts
<1>3. \E D2, h2 : TreeInv(tcb_insert(RB_ROOT, Listener), {} \cup {Listener}, D2, h2)
  <2>1. \A m \in {} : tcbcmp(Listener, m) # 0
    OBVIOUS
  <2> QED BY <1>1, <1>2, <2>1, InsertSays
<1>4. {} \cup {Listener} = {Listener}
  OBVIOUS
<1> QED BY <1>2, <1>3, <1>4 DEF Table

\* The tcbs of the tree.
InTree == tcbs \ LikeListener

\* What is always so: the table is in order, or the root was emptied.
TableOK ==
    /\ tcblist \in Tree /\ Listener \in tcbs /\ tcbs \subseteq Node
    /\ Lost \/ Table(tcblist, InTree)

\* From a table in order comes another one, or none.
LEMMA TableOKSays ==
  ASSUME NEW t, NEW S, Table(t, S \ LikeListener), S \subseteq Node, Listener \in S
  PROVE  t \in Tree
<1>1. PICK D, h : TreeInv(t, S \ LikeListener, D, h)
  BY DEF Table
<1> QED BY <1>1 DEF TreeInv, Shape

\* The end of a session.
LEMMA DeleteStep ==
  ASSUME TableOK, ~Lost, NEW k \in Sessions, tcb_delete(k)
  PROVE  TableOK'
<1>1. /\ Table(tcblist, InTree) /\ k \in tcbs /\ k # Listener /\ k \in Node
      /\ tcblist' = rb_erase(tcblist, k) /\ tcbs' = tcbs \ {k}
  BY DEF TableOK, Sessions, tcb_delete
<1>2. Listener \in tcbs' /\ tcbs' \subseteq Node
  BY <1>1 DEF TableOK
<1>3. CASE k \in LikeListener
  <2>1. rb_erase(tcblist, k) \in Tree /\ rb_erase(tcblist, k).root = NULL
    BY <1>1, <1>3, EmptiedSays
  <2> QED BY <1>1, <1>2, <2>1 DEF TableOK, Lost
<1>4. CASE k \notin LikeListener
  <2>1. Table(rb_erase(tcblist, k), InTree \ {k})
    BY <1>1, <1>4, TableErase DEF InTree
  <2>2. InTree \ {k} = tcbs' \ LikeListener
    BY <1>1 DEF InTree
  <2>3. tcblist' \in Tree
    BY <1>1, <1>2, <2>1, <2>2, TableOKSays
  <2> QED BY <1>1, <1>2, <2>1, <2>2, <2>3 DEF TableOK, InTree
<1> QED BY <1>3, <1>4

\* A new session, that may be closed at once.
LEMMA SynStep ==
  ASSUME TableOK, ~Lost, NEW seg \in DOMAIN Segments, tcb_find(tcblist, seg) = Listener,
         handle_tcp_syn(seg)
  PROVE  TableOK'
<1>1. Table(tcblist, InTree) /\ seg \in Node /\ seg # Listener
  BY SegmentNode DEF TableOK
<1>2. \/ tcb_new(seg)
      \/ tcblist' = rb_erase(tcb_insert(tcblist, seg), seg) /\ UNCHANGED tcbs
  BY DEF handle_tcp_syn
<1>3. Listener \in tcbs' /\ tcbs' \subseteq Node
  BY <1>1, <1>2 DEF TableOK, tcb_new
<1>4. CASE seg \in LikeListener
  <2>1. tcb_insert(tcblist, seg) = tcblist
    BY <1>1, <1>4, RefusedSays
  <2>2. CASE tcb_new(seg)
    <3>1. tcblist' = tcblist /\ tcbs' = tcbs \cup {seg}
      BY <2>1, <2>2 DEF tcb_new
    <3>2. tcbs' \ LikeListener = InTree
      BY <1>4, <3>1 DEF InTree
    <3> QED BY <1>1, <1>3, <3>1, <3>2 DEF TableOK, InTree
  <2>3. CASE tcblist' = rb_erase(tcb_insert(tcblist, seg), seg) /\ UNCHANGED tcbs
    <3>1. rb_erase(tcblist, seg) \in Tree /\ rb_erase(tcblist, seg).root = NULL
      BY <1>1, <1>4, EmptiedSays
    <3> QED BY <1>3, <2>1, <2>3, <3>1 DEF TableOK, Lost
  <2> QED BY <1>2, <2>2, <2>3
<1>5. CASE seg \notin LikeListener
  <2>1. Key(seg).lport > 0 /\ \A m \in InTree : tcbcmp(seg, m) # 0
    BY <1>1, <1>5, FindSays
  <2>2. Table(tcb_insert(tcblist, seg), InTree \cup {seg})
    BY <1>1, <2>1, TableInsert
  <2>3. seg \notin tcbs
    <3>1. tcbcmp(seg, seg) = 0
      BY <1>1, EqualFacts
    <3> QED BY <1>5, <2>1, <3>1 DEF InTree
  <2>4. CASE tcb_new(seg)
    <3>1. tcblist' = tcb_insert(tcblist, seg) /\ tcbs' \ LikeListener = InTree \cup {seg}
      BY <1>5, <2>4 DEF tcb_new, InTree
    <3>2. tcblist' \in Tree
      BY <1>3, <2>2, <3>1, TableOKSays
    <3> QED BY <1>3, <2>2, <3>1, <3>2 DEF TableOK, InTree
  <2>5. CASE tcblist' = rb_erase(tcb_insert(tcblist, seg), seg) /\ UNCHANGED tcbs
    <3>1. seg \in InTree \cup {seg}
      OBVIOUS
    <3>2. Table(rb_erase(tcb_insert(tcblist, seg), seg), (InTree \cup {seg}) \ {seg})
      BY <1>1, <2>2, <3>1, TableErase
    <3>3. (InTree \cup {seg}) \ {seg} = tcbs' \ LikeListener
      BY <2>3, <2>5 DEF InTree
    <3>4. tcblist' \in Tree
      BY <1>3, <2>5, <3>2, <3>3, TableOKSays
    <3> QED BY <1>3, <2>5, <3>2, <3>3, <3>4 DEF TableOK, InTree
  <2> QED BY <1>2, <2>4, <2>5
<1> QED BY <1>4, <1>5

\* No step leaves the table in another state.
LEMMA TableStep ==
  ASSUME TableOK, [Next]_vars
  PROVE  TableOK'
<1>1. CASE UNCHANGED <<tcblist, tcbs>>
  BY <1>1 DEF TableOK, Lost, InTree
<1>2. CASE ~Lost /\ handle_tcp
  <2>1. PICK seg \in DOMAIN Segments :
          LET t == tcb_find(tcblist, seg)
          IN  \/ t \in {NULL, Listener} /\ tcp_fabricate_rst
              \/ t = Listener /\ handle_tcp_syn(seg)
              \/ t \notin {NULL, Listener} /\ handle_tcp_session(t)
    BY <1>2 DEF handle_tcp
  <2> DEFINE x == tcb_find(tcblist, seg)
  <2>2. \/ x \in {NULL, Listener} /\ tcp_fabricate_rst
        \/ x = Listener /\ handle_tcp_syn(seg)
        \/ x \notin {NULL, Listener} /\ handle_tcp_session(x)
    BY <2>1
  <2>3. x \in InTree \cup {NULL}
    BY <1>2, FindSays DEF TableOK
  <2>4. CASE x \in {NULL, Listener} /\ tcp_fabricate_rst
    BY <1>1, <2>4 DEF tcp_fabricate_rst
  <2>5. CASE x = Listener /\ handle_tcp_syn(seg)
    BY <1>2, <2>5, SynStep
  <2> HIDE DEF x
  <2>6. CASE x \notin {NULL, Listener} /\ handle_tcp_session(x)
    <3>1. x \in Sessions
      BY <2>3, <2>6 DEF Sessions, InTree
    <3> QED BY <1>1, <1>2, <2>6, <3>1, DeleteStep DEF handle_tcp_session
  <2> QED BY <2>2, <2>4, <2>5, <2>6
<1>3. CASE ~Lost /\ SessionEnds
  BY <1>3, DeleteStep DEF SessionEnds
<1>4. CASE \E n \in 1..2 : ~Lost /\ write_status_report(n)
  BY <1>1, <1>4 DEF write_status_report
<1>5. CASE UNCHANGED vars
  BY <1>1, <1>5 DEF vars
<1> QED BY <1>2, <1>3, <1>4, <1>5 DEF Next

\* tcp_listen leaves a table in order.
LEMMA TableOKInit == Init => TableOK
<1> SUFFICES ASSUME Init PROVE TableOK
  OBVIOUS
<1>1. tcblist = tcb_insert(RB_ROOT, Listener) /\ tcbs = {Listener}
  BY DEF Init
<1>2. {Listener} \ LikeListener = {Listener}
  BY DEF LikeListener
<1>3. Table(tcblist, {Listener} \ LikeListener)
  BY <1>1, <1>2, TableInit
<1>4. {Listener} \subseteq Node
  BY NodeFacts
<1>5. tcblist \in Tree
  BY <1>3, <1>4, TableOKSays
<1> QED BY <1>1, <1>3, <1>4, <1>5 DEF TableOK, InTree

\* The table is always in order.
LEMMA TableAlways == Spec => []TableOK
<1>1. TableOK /\ [Next]_vars => TableOK'
  BY TableStep
<1> QED BY <1>1, TableOKInit, PTL DEF Spec

\* RedBlack, for any number of sessions: whatever rb_insert_color and rb_erase meet,
\* they leave a red-black tree of the allocated tcbs, without those that compare equal
\* to the listener.  Only when rb_erase is called for one of these is the root emptied.
THEOREM RedBlackAlways == Spec => []RedBlack
<1>1. TableOK => RedBlack
  BY RedBlackSays DEF Table, RedBlack, TableOK, InTree
<1> QED BY <1>1, TableAlways, PTL

\* SessionsFound, for any number of sessions: a search in the tree of the source's
\* comparison ends at the session of the segment, after any rotations.  tcb_insert
\* refuses a tcb only when it compares equal to the listener.
THEOREM SessionsFoundAlways == Spec => []SessionsFound
<1>1. ASSUME TableOK, ~Lost, NEW t \in Sessions \ LikeListener PROVE tcb_find(tcblist, t) = t
  <2>1. t \in InTree /\ t \in Node /\ t # NULL /\ Table(tcblist, InTree)
    BY <1>1, NodeFacts DEF Sessions, TableOK, InTree
  <2>2. tcb_find_rb(tcblist, t) = t
    BY <2>1, FindRbSays
  <2> QED BY <2>1, <2>2 DEF tcb_find
<1>2. TableOK => SessionsFound
  BY <1>1 DEF SessionsFound
<1> QED BY <1>2, TableAlways, PTL

\* In an empty tree nothing is found.
LEMMA NothingFound ==
  ASSUME NEW t, t.root = NULL, NEW k \in Node
  PROVE  tcb_find_rb(t, k) = NULL
<1> DEFINE x == [at |-> t.root, parent |-> NULL, side |-> "rb_left"]
           Q == [i \in Nat |-> {x}]
<1>1. N \in Nat /\ x.at = NULL
  BY NodeFacts
<1>2. DescendStep(t, k, x) = x
  BY <1>1 DEF DescendStep
<1> HIDE DEF x
<1>3. x \in Q[N]
  BY <1>1
<1>4. \A i \in Nat : \A y \in Q[i] :
        DescendStep(t, k, y) = y \/ (i > 0 /\ DescendStep(t, k, y) \in Q[i - 1])
  BY <1>2
<1>5. \A i \in 0..N : Q[i] = {x}
  BY <1>1
<1> HIDE DEF Q
<1>6. PICK y : /\ Descend(t, k) = y /\ DescendStep(t, k, y) = y
               /\ \E i \in 0..N : y \in Q[i]
  BY <1>1, <1>3, <1>4, DescendLoop DEF x
<1>7. y = x
  BY <1>5, <1>6
<1> QED BY <1>1, <1>6, <1>7 DEF tcb_find_rb

\* ClientsKeptApart, for any number of sessions and segments: a session is found only
\* for a segment of its client, between its ports.
THEOREM ClientsKeptApartAlways == Spec => []ClientsKeptApart
<1>1. ASSUME TableOK, NEW seg \in DOMAIN Segments,
             tcb_find(tcblist, seg) \notin {NULL, Listener}
      PROVE  LET t == tcb_find(tcblist, seg)
             IN  /\ Key(t).raddr = Key(seg).raddr
                 /\ Key(t).rport = Key(seg).rport
                 /\ Key(t).lport = Key(seg).lport
  <2> DEFINE t == tcb_find(tcblist, seg)
  <2>0. seg \in Node /\ ~Lost
    <3>1. seg \in Node /\ Listener \in Node
      BY SegmentNode, NodeFacts
    <3>2. CASE Lost
      BY <1>1, <3>1, <3>2, NothingFound DEF Lost, tcb_find
    <3> QED BY <3>1, <3>2
  <2>1. t \in InTree \cup {NULL} /\ tcbcmp(seg, t) = 0
    BY <1>1, <2>0, FindSays DEF TableOK
  <2>2. t \in Node /\ seg \in Node
    BY <1>1, <2>0, <2>1 DEF TableOK, InTree
  <2> HIDE DEF t
  <2>3. /\ Key(seg).rport = Key(t).rport /\ Key(seg).lport = Key(t).lport
        /\ Key(seg).raddr = Key(t).raddr
    BY <2>1, <2>2, EqualFacts
  <2> QED BY <2>3 DEF t
<1>2. TableOK => ClientsKeptApart
  BY <1>1 DEF ClientsKeptApart
<1> QED BY <1>2, TableAlways, PTL
-----------------------------------------------------------------------------
(* The walk over the tree. *)

\* A node that is not below n is before all that are, or after all.
LEMMA OutsideSays ==
  ASSUME NEW t, NEW S, NEW D, Shape(t, S, D), NEW n \in S, NEW m \in S \ D[n]
  PROVE  \E s \in Side : \A z \in D[n] : Before(s, m, z)
<1> DEFINE C == {a \in S : n \in D[a] /\ m \in D[a]}
           T == {Cardinality(D[a]) : a \in C}
<1>1. S \subseteq Node /\ RootOK(t, S, D) /\ D[n] \subseteq S /\ D[n] \subseteq Node
  BY NodeSays DEF Shape
<1>2. PICK a \in C : \A b \in C : Cardinality(D[a]) <= Cardinality(D[b])
  <2>1. t.root \in C
    BY <1>1 DEF RootOK
  <2>2. T \subseteq Nat
    BY NodeSays, NodeFacts
  <2>3. PICK i \in T : \A l \in T : i <= l
    <3>1. T # {}
      BY <2>1
    <3> HIDE DEF T
    <3> QED BY <2>2, <3>1, LeastNat
  <2> HIDE DEF C
  <2> QED BY <2>3
<1>3. a \in S /\ n \in D[a] /\ m \in D[a] /\ a \in Node /\ a # n /\ m \in Node
  BY <1>1, <1>2
<1>4. ASSUME NEW r \in Side, NEW y \in D[a], y # a
      PROVE  y \in Sub(D, t.kid[r][a]) \/ y \in Sub(D, t.kid[Other(r)][a])
  BY <1>3, <1>4, NodeSays
<1>5. PICK s \in Side : n \in Sub(D, t.kid[s][a])
  <2>1. "rb_left" \in Side /\ Other("rb_left") \in Side
    BY BeforeFacts DEF Side
  <2> QED BY <1>3, <1>4, <2>1
<1> DEFINE c == t.kid[s][a]
           o == Other(s)
<1>6. o \in Side /\ Other(o) = s
  BY BeforeFacts
<1>7. c # NULL /\ c \in S /\ Sub(D, c) = D[c] /\ Sub(D, c) \subseteq D[a] /\ a \notin D[c]
  <2>1. c # NULL
    BY <1>5 DEF Sub
  <2> QED BY <1>3, <2>1, KidSays
<1>8. \A z \in D[c] : z \in Node /\ Before(s, z, a)
  <2>1. \A z \in Sub(D, c) : z \in Node /\ Before(s, z, a)
    BY <1>3, KidSays
  <2> QED BY <1>7, <2>1
<1>9. D[n] \subseteq D[c]
  BY <1>5, <1>7, DownSays
<1>10. m \notin D[c]
  <2>1. SUFFICES ASSUME m \in D[c] PROVE FALSE
    OBVIOUS
  <2>2. c \in C
    BY <1>5, <1>7, <2>1
  <2>3. D[c] \in SUBSET Node /\ D[a] \in SUBSET Node /\ a \in D[a]
    BY <1>3, <1>7, NodeSays
  <2>4. Cardinality(D[c]) \in Nat /\ Cardinality(D[a]) \in Nat /\ Cardinality(D[c]) < Cardinality(D[a])
    <3>1. D[c] \subseteq D[a] /\ D[c] # D[a]
      BY <1>7, <2>3
    <3> HIDE DEF c
    <3> QED BY <2>3, <3>1, Larger
  <2>5. Cardinality(D[a]) <= Cardinality(D[c])
    BY <1>2, <2>2
  <2> QED BY <2>4, <2>5
<1> HIDE DEF c, o, C
<1>11. CASE m = a
  <2>1. \A z \in D[n] : Before(o, m, z)
    BY <1>3, <1>6, <1>8, <1>9, <1>11, BeforeFacts DEF o
  <2> QED BY <1>6, <2>1
<1>12. CASE m # a
  <2>1. m \in Sub(D, t.kid[o][a])
    BY <1>3, <1>4, <1>7, <1>10, <1>12 DEF c, o
  <2>2. Before(o, m, a)
    BY <1>3, <1>6, <2>1, KidSays
  <2>3. ASSUME NEW z \in D[n] PROVE Before(o, m, z)
    <3>1. z \in Node /\ Before(s, z, a)
      BY <1>8, <1>9
    <3>2. Before(o, a, z)
      BY <1>3, <3>1, BeforeFacts DEF o
    <3> QED BY <1>3, <1>6, <2>2, <3>1, <3>2, BeforeFacts
  <2> QED BY <1>6, <2>3
<1> QED BY <1>11, <1>12

\* x is the node after n, if there is one.
After(S, n, x) ==
    \/ x = NULL /\ \A m \in S \ {n} : Before("rb_left", m, n)
    \/ /\ x \in S /\ Before("rb_left", n, x)
       /\ \A m \in S \ {n, x} : Before("rb_left", m, n) \/ Before("rb_left", x, m)

\* n is the last node below y.
LastIn(D, n, y) == n \in D[y] /\ \A m \in D[y] \ {n} : Before("rb_left", m, n)

\* Way up: n stays the last one.
LEMMA UpOn ==
  ASSUME NEW t, NEW S, NEW D, Shape(t, S, D), NEW n \in S, NEW y \in S, LastIn(D, n, y),
         UpStep(t, y) # y
  PROVE  LET p == UpStep(t, y)
         IN  /\ p \in S /\ LastIn(D, n, p)
             /\ D[y] \in SUBSET Node /\ D[p] \in SUBSET Node /\ D[y] \subseteq D[p] /\ D[y] # D[p]
<1> DEFINE lt == "rb_left"
           rt == "rb_right"
           p == t.parent[y]
<1>1. UpStep(t, y) = p /\ p # NULL /\ t.kid[rt][p] = y
  BY DEF UpStep
<1>2. lt \in Side /\ rt \in Side /\ Other(rt) = lt /\ Other(lt) = rt
  BY DEF Side, Other
<1>3. p \in S /\ y # NULL
  BY <1>1, NodeSays
<1> HIDE DEF lt, rt, p
<1>4. /\ Sub(D, y) \subseteq D[p] /\ Sub(D, y) = D[y] /\ p \notin D[y]
      /\ D[p] = {p} \cup Sub(D, y) \cup Sub(D, t.kid[lt][p])
      /\ \A m \in Sub(D, y) : m \in Node /\ Before(rt, m, p)
  BY <1>1, <1>2, <1>3, KidSays
<1>5. /\ \A m \in Sub(D, t.kid[lt][p]) : m \in Node /\ Before(lt, m, p)
  BY <1>2, <1>3, KidSays
<1>6. p \in D[p] /\ p \in Node /\ D[p] \in SUBSET Node /\ D[y] \in SUBSET Node
  BY <1>3, NodeSays
<1>7. n \in D[y] /\ n \in Node /\ \A m \in D[y] \ {n} : Before(lt, m, n)
  BY <1>6 DEF LastIn, lt
<1>8. Before(lt, p, n)
  <2>1. Before(rt, n, p)
    BY <1>4, <1>7
  <2> QED BY <1>2, <1>6, <1>7, <2>1, BeforeFacts
<1>9. ASSUME NEW m \in D[p] \ {n} PROVE Before(lt, m, n)
  <2>1. CASE m = p
    BY <1>8, <2>1
  <2>2. CASE m \in D[y]
    BY <1>7, <2>2
  <2>3. CASE m \in Sub(D, t.kid[lt][p])
    <3>1. m \in Node /\ Before(lt, m, p)
      BY <1>5, <2>3
    <3> QED BY <1>2, <1>6, <1>7, <1>8, <3>1, BeforeFacts
  <2> QED BY <1>4, <2>1, <2>2, <2>3
<1>10. LastIn(D, n, p)
  BY <1>4, <1>7, <1>9 DEF LastIn, lt
<1> QED BY <1>1, <1>3, <1>4, <1>6, <1>10

\* rb_next gives the node that comes next in the order of tcbcmp.
LEMMA NextSays ==
  ASSUME NEW t, NEW S, NEW D, Shape(t, S, D), NEW n \in S
  PROVE  After(S, n, rb_next(t, n))
<1> DEFINE lt == "rb_left"
           rt == "rb_right"
<1>1. lt \in Side /\ rt \in Side /\ Other(rt) = lt /\ Other(lt) = rt /\ \A r \in Side : r = lt \/ r = rt
  BY DEF Side, Other
<1>2. S \subseteq Node /\ n \in Node /\ D \in [Node -> SUBSET Node] /\ n \in D[n] /\ RootOK(t, S, D) /\ N \in Nat
  BY NodeSays, NodeFacts DEF Shape
<1>3. ASSUME NEW a \in S, NEW x \in D[a], NEW y \in D[a], NEW m \in S \ D[a]
      PROVE  Before(lt, m, x) \/ Before(lt, y, m)
  <2>1. PICK s \in Side : \A z \in D[a] : Before(s, m, z)
    BY OutsideSays
  <2>2. m \in Node /\ y \in Node
    BY <1>2, NodeSays
  <2>3. CASE s = lt
    BY <2>1, <2>3
  <2>4. CASE s = rt
    <3>1. Before(rt, m, y)
      BY <2>1, <2>4
    <3> QED BY <1>1, <2>2, <3>1, BeforeFacts
  <2> QED BY <1>1, <2>3, <2>4
<1> HIDE DEF lt, rt
<1>4. CASE t.kid[rt][n] # NULL
  <2> DEFINE R == t.kid[rt][n]
             x == Leftmost(t, R)
  <2>1. rb_next(t, n) = x
    BY <1>4 DEF rb_next, rt
  <2>2. R \in S /\ Sub(D, R) = D[R] /\ Sub(D, R) \subseteq D[n]
    BY <1>1, <1>4, KidSays
  <2>3. /\ D[n] = {n} \cup Sub(D, R) \cup Sub(D, t.kid[lt][n])
        /\ \A m \in Sub(D, R) : m \in Node /\ Before(rt, m, n)
    BY <1>1, KidSays
  <2>4. \A m \in Sub(D, t.kid[lt][n]) : Before(lt, m, n)
    BY <1>1, KidSays
  <2>5. /\ x \in D[R] /\ x \in S /\ \A m \in D[R] \ {x} : Before("rb_left", x, m)
    BY <2>2, LeftmostSays
  <2> HIDE DEF R, x
  <2>6. Before(lt, n, x)
    BY <1>1, <1>2, <2>2, <2>3, <2>5, BeforeFacts
  <2>7. ASSUME NEW m \in S \ {n, x} PROVE Before(lt, m, n) \/ Before(lt, x, m)
    <3>1. CASE m \notin D[n]
      BY <1>2, <1>3, <2>2, <2>5, <3>1
    <3>2. CASE m \in D[R]
      BY <2>5, <2>7, <3>2 DEF lt
    <3>3. CASE m \in Sub(D, t.kid[lt][n])
      BY <2>4, <3>3
    <3> QED BY <2>2, <2>3, <2>7, <3>1, <3>2, <3>3
  <2> QED BY <2>1, <2>5, <2>6, <2>7 DEF After, lt
<1>5. CASE t.kid[rt][n] = NULL
  <2> DEFINE Way(k) == {y \in S : LastIn(D, n, y) /\ N - Cardinality(D[y]) <= k}
             Q == [k \in Nat |-> Way(k)]
  <2>1. n \in Q[N]
    <3>1. D[n] = {n} \cup Sub(D, t.kid[rt][n]) \cup Sub(D, t.kid[lt][n])
      BY <1>1, KidSays
    <3>2. \A m \in D[n] \ {n} : Before(lt, m, n)
      BY <1>1, <1>5, <3>1, KidSays DEF Sub
    <3>3. LastIn(D, n, n)
      BY <1>2, <3>2 DEF LastIn, lt
    <3>4. Cardinality(D[n]) \in Nat
      BY <1>2, NodeFacts
    <3>5. n \in Way(N)
      BY <1>2, <3>3, <3>4
    <3> HIDE DEF Way
    <3> QED BY <1>2, <3>5
  <2>2. ASSUME NEW k \in Nat, NEW y \in Way(k), UpStep(t, y) # y
        PROVE  k > 0 /\ UpStep(t, y) \in Way(k - 1)
    <3> DEFINE p == UpStep(t, y)
    <3>1. y \in S /\ LastIn(D, n, y) /\ N - Cardinality(D[y]) <= k
      OBVIOUS
    <3>2. /\ p \in S /\ LastIn(D, n, p)
          /\ D[y] \in SUBSET Node /\ D[p] \in SUBSET Node /\ D[y] \subseteq D[p] /\ D[y] # D[p]
      BY <2>2, <3>1, UpOn
    <3> HIDE DEF Way, p
    <3>3. /\ Cardinality(D[y]) \in Nat /\ Cardinality(D[p]) \in Nat /\ Cardinality(D[y]) < Cardinality(D[p])
          /\ Cardinality(D[p]) <= N
      BY <3>2, Larger
    <3>4. k > 0 /\ N - Cardinality(D[p]) <= k - 1
      BY <1>2, <3>1, <3>3
    <3>5. p \in Way(k - 1)
      BY <3>2, <3>4 DEF Way
    <3> QED BY <3>4, <3>5 DEF p
  <2>3. \A k \in Nat : \A y \in Q[k] : UpStep(t, y) = y \/ (k > 0 /\ UpStep(t, y) \in Q[k - 1])
    <3> SUFFICES ASSUME NEW k \in Nat, NEW y \in Q[k]
                 PROVE  UpStep(t, y) = y \/ (k > 0 /\ UpStep(t, y) \in Q[k - 1])
      OBVIOUS
    <3>1. y \in Way(k) /\ (k > 0 => Q[k - 1] = Way(k - 1))
      OBVIOUS
    <3> HIDE DEF Q, Way
    <3> QED BY <2>2, <3>1
  <2> HIDE DEF Q, Way
  <2>4. PICK y : /\ rb_next(t, n) = t.parent[y] /\ UpStep(t, y) = y
                 /\ \E k \in 0..N : y \in Q[k]
    BY <1>2, <1>5, <2>1, <2>3, UpLoop DEF rt
  <2>5. PICK k \in Nat : y \in Way(k)
    BY <1>2, <2>4 DEF Q
  <2>6. y \in S /\ LastIn(D, n, y)
    BY <2>5 DEF Way
  <2> DEFINE x == t.parent[y]
  <2>7. CASE x = NULL
    <3>1. y = t.root
      BY <2>6, <2>7, NodeSays
    <3>2. D[y] = S
      BY <1>2, <2>6, <3>1, NodeFacts DEF RootOK
    <3> QED BY <2>4, <2>6, <2>7, <3>2 DEF After, LastIn
  <2>8. CASE x # NULL
    <3>1. x \in S /\ y # t.root /\ y # NULL
      BY <2>6, <2>8, NodeSays
    <3>2. /\ SideIn(t, x, y) \in Side /\ t.kid[SideIn(t, x, y)][x] = y
      BY <2>6, <3>1, OnePlace
    <3>3. t.kid[lt][x] = y
      <4>1. x # y
        BY <3>1, <3>2, KidSays
      <4>2. t.kid[rt][x] # y
        BY <2>4, <2>8, <4>1 DEF UpStep, rt
      <4> QED BY <1>1, <3>2, <4>2
    <3> HIDE DEF x
    <3>4. /\ Sub(D, y) = D[y] /\ Sub(D, y) \subseteq D[x]
          /\ D[x] = {x} \cup Sub(D, y) \cup Sub(D, t.kid[rt][x])
          /\ \A m \in Sub(D, y) : m \in Node /\ Before(lt, m, x)
      BY <1>1, <3>1, <3>3, KidSays
    <3>5. \A m \in Sub(D, t.kid[rt][x]) : m \in Node /\ Before(rt, m, x)
      BY <1>1, <3>1, KidSays
    <3>6. n \in D[y] /\ \A m \in D[y] \ {n} : Before(lt, m, n)
      BY <2>6 DEF LastIn, lt
    <3>7. Before(lt, n, x)
      BY <3>4, <3>6
    <3>8. x \in D[x] /\ x \in Node
      BY <3>1, NodeSays
    <3>9. ASSUME NEW m \in S \ {n, x} PROVE Before(lt, m, n) \/ Before(lt, x, m)
      <4>1. CASE m \notin D[x]
        BY <1>3, <3>1, <3>4, <3>6, <3>8, <4>1
      <4>2. CASE m \in D[y]
        BY <3>6, <3>9, <4>2
      <4>3. CASE m \in Sub(D, t.kid[rt][x])
        BY <1>1, <3>5, <3>8, <4>3, BeforeFacts
      <4> QED BY <3>4, <3>9, <4>1, <4>2, <4>3
    <3>10. rb_next(t, n) = x
      BY <2>4 DEF x
    <3> QED BY <3>1, <3>7, <3>9, <3>10 DEF After, lt
  <2> QED BY <2>7, <2>8
<1> QED BY <1>4, <1>5

\* The rows hold the first tcbs in order, and w.tcb is the next one.
Walk(S, w) ==
    LET ran == {w.rows[i] : i \in 1..Len(w.rows)}
    IN  /\ w \in [rows : Seq(S), tcb : S \cup {NULL}]
        /\ \A i, j \in 1..Len(w.rows) : i < j => tcbcmp(w.rows[i], w.rows[j]) < 0
        /\ Len(w.rows) = Cardinality(ran)
        /\ w.tcb = NULL => ran = S
        /\ w.tcb # NULL => /\ w.tcb \notin ran /\ \A m \in ran : tcbcmp(m, w.tcb) < 0
                           /\ \A m \in S \ (ran \cup {w.tcb}) : tcbcmp(w.tcb, m) < 0

\* A row is written.
LEMMA WalkOn ==
  ASSUME NEW t, NEW S, NEW D, Shape(t, S, D), NEW w, Walk(S, w), w.tcb # NULL
  PROVE  LET x == RowStep(t, w)
             A == S \ {x.rows[i] : i \in 1..Len(x.rows)}
             B == S \ {w.rows[i] : i \in 1..Len(w.rows)}
         IN  /\ Walk(S, x) /\ x # w
             /\ A \in SUBSET Node /\ B \in SUBSET Node /\ A \subseteq B /\ A # B
<1> DEFINE n == w.tcb
           q == w.rows
           ran == {q[i] : i \in 1..Len(q)}
           q2 == Append(q, n)
           nx == rb_next(t, n)
           x == RowStep(t, w)
           ran2 == {q2[i] : i \in 1..Len(q2)}
<1>1. S \subseteq Node
  BY DEF Shape
<1>2. /\ q \in Seq(S) /\ n \in S /\ Len(q) = Cardinality(ran) /\ n \notin ran
  BY DEF Walk
<1>3. \A i, j \in 1..Len(q) : i < j => tcbcmp(q[i], q[j]) < 0
  BY DEF Walk
<1>4. \A m \in ran : tcbcmp(m, n) < 0
  BY DEF Walk
<1>5. \A m \in S \ (ran \cup {n}) : tcbcmp(n, m) < 0
  BY DEF Walk
<1>6. x = [rows |-> q2, tcb |-> nx]
  BY DEF RowStep
<1>7. After(S, n, nx)
  BY <1>2, NextSays
<1> HIDE DEF n, q, nx
<1>8. /\ q2 \in Seq(S) /\ Len(q2) = Len(q) + 1 /\ q2[Len(q) + 1] = n /\ Len(q) \in Nat
      /\ \A i \in 1..Len(q) : q2[i] = q[i]
  <2>1. q \in Seq(S) /\ n \in S
    BY <1>2
  <2>2. Len(q) \in Nat /\ q2 \in Seq(S) /\ Len(q2) = Len(q) + 1
    BY <2>1
  <2>3. q2[Len(q) + 1] = n
    BY <2>1
  <2>4. \A i \in 1..Len(q) : q2[i] = q[i]
    BY <2>1
  <2> QED BY <2>2, <2>3, <2>4
<1> HIDE DEF q2
<1>9. ran2 = ran \cup {n}
  <2>1. \A i \in 1..Len(q2) : i \in 1..Len(q) \/ i = Len(q) + 1
    BY <1>8
  <2>2. \A i \in 1..Len(q) : i \in 1..Len(q2)
    BY <1>8
  <2>3. Len(q) + 1 \in 1..Len(q2)
    BY <1>8
  <2> QED BY <1>8, <2>1, <2>2, <2>3
<1>10. ran \subseteq S /\ ran \in SUBSET Node /\ n \in Node
  <2>1. ran \subseteq S
    <3>1. q \in Seq(S)
      BY <1>2
    <3>2. \A i \in 1..Len(q) : q[i] \in S
      BY <3>1
    <3> QED BY <3>2
  <2> QED BY <1>1, <1>2, <2>1
<1>11. \A i \in 1..Len(q) : q[i] \in ran
  OBVIOUS
<1> HIDE DEF ran, ran2
<1>12. ASSUME NEW i \in 1..Len(q2), NEW j \in 1..Len(q2), i < j PROVE tcbcmp(q2[i], q2[j]) < 0
  <2>1. i \in 1..Len(q) /\ q2[i] = q[i]
    BY <1>8, <1>12
  <2>2. CASE j \in 1..Len(q)
    BY <1>3, <1>8, <1>12, <2>1, <2>2
  <2>3. CASE j = Len(q) + 1
    BY <1>4, <1>8, <1>11, <2>1, <2>3
  <2> QED BY <1>8, <2>2, <2>3
<1>13. Len(q2) = Cardinality(ran2)
  <2>1. IsFiniteSet(ran)
    BY <1>10, NodeFacts
  <2>2. Cardinality(ran \cup {n}) = Cardinality(ran) + 1
    BY <1>2, <2>1, FS_AddElement
  <2> QED BY <1>2, <1>8, <1>9, <2>2
<1>14. \A m \in S : ~(tcbcmp(m, n) < 0 /\ tcbcmp(n, m) < 0)
  <2> SUFFICES ASSUME NEW m \in S PROVE ~(tcbcmp(m, n) < 0 /\ tcbcmp(n, m) < 0)
    OBVIOUS
  <2>1. tcbcmp(m, n) \in Int /\ tcbcmp(n, m) = 0 - tcbcmp(m, n)
    BY <1>1, <1>10, CompareFacts
  <2> QED BY <2>1
<1>15. ASSUME nx = NULL PROVE ran2 = S
  <2>1. \A m \in S \ {n} : tcbcmp(m, n) < 0
    BY <1>1, <1>7, <1>15, NodeFacts DEF After, Before
  <2>2. S \subseteq ran \cup {n}
    BY <1>5, <1>14, <2>1
  <2> QED BY <1>2, <1>9, <1>10, <2>2
<1>16. ASSUME nx # NULL
       PROVE  /\ nx \in S /\ nx \notin ran2 /\ \A m \in ran2 : tcbcmp(m, nx) < 0
              /\ \A m \in S \ (ran2 \cup {nx}) : tcbcmp(nx, m) < 0
  <2>1. /\ nx \in S /\ tcbcmp(n, nx) < 0
        /\ \A m \in S \ {n, nx} : tcbcmp(m, n) < 0 \/ tcbcmp(nx, m) < 0
    BY <1>7, <1>16 DEF After, Before
  <2>2. ASSUME NEW m \in ran2 PROVE tcbcmp(m, nx) < 0
    <3>1. CASE m = n
      BY <2>1, <3>1
    <3>2. CASE m \in ran
      <4>1. tcbcmp(m, n) < 0 /\ m \in Node /\ nx \in Node
        BY <1>1, <1>4, <1>10, <2>1, <3>2
      <4> QED BY <1>10, <2>1, <4>1, CompareFacts
    <3> QED BY <1>9, <3>1, <3>2
  <2>3. nx \notin ran2
    <3>1. ~(tcbcmp(nx, nx) < 0)
      <4>1. nx \in Node
        BY <1>1, <2>1
      <4>2. tcbcmp(nx, nx) = 0
        BY <4>1, EqualFacts
      <4> QED BY <4>2
    <3> QED BY <2>2, <3>1
  <2>4. ASSUME NEW m \in S \ (ran2 \cup {nx}) PROVE tcbcmp(nx, m) < 0
    <3>1. m \in S \ {n, nx} /\ m \in S \ (ran \cup {n})
      BY <1>9
    <3>2. tcbcmp(n, m) < 0
      BY <1>5, <3>1
    <3> QED BY <1>14, <2>1, <3>1, <3>2
  <2> QED BY <2>1, <2>2, <2>3, <2>4
<1>17. x.rows = q2 /\ x.tcb = nx /\ x \in [rows : Seq(S), tcb : S \cup {NULL}]
  BY <1>6, <1>8, <1>16
<1>18. Walk(S, x)
  <2> HIDE DEF x
  <2> QED BY <1>12, <1>13, <1>15, <1>16, <1>17 DEF Walk, ran2
<1>19. x # w
  <2>1. Len(q2) # Len(q)
    BY <1>8
  <2> HIDE DEF x
  <2> QED BY <1>17, <2>1 DEF q
<1>20. /\ S \ ran2 \in SUBSET Node /\ S \ ran \in SUBSET Node /\ S \ ran2 \subseteq S \ ran
       /\ S \ ran2 # S \ ran
  BY <1>1, <1>2, <1>9
<1> HIDE DEF x
<1> QED BY <1>17, <1>18, <1>19, <1>20 DEF ran, ran2, q, x

\* The rows of a page.
LEMMA RowsSay ==
  ASSUME NEW t, NEW S, Table(t, S)
  PROVE  LET q == Rows(t)
         IN  /\ q \in Seq(S) /\ {q[i] : i \in 1..Len(q)} = S /\ Len(q) = Cardinality(S)
             /\ \A i, j \in 1..Len(q) : i < j => tcbcmp(q[i], q[j]) < 0
<1> DEFINE Rest(w) == S \ {w.rows[i] : i \in 1..Len(w.rows)}
           Way(k) == {w \in [rows : Seq(S), tcb : S \cup {NULL}] :
                        Walk(S, w) /\ Cardinality(Rest(w)) <= k}
           Q == [k \in Nat |-> Way(k)]
           x == [rows |-> <<>>, tcb |-> rb_first(t)]
<1>1. PICK D, h : TreeInv(t, S, D, h)
  BY DEF Table
<1>2. /\ Shape(t, S, D) /\ S \subseteq Node /\ Listener \in S /\ RootOK(t, S, D) /\ N \in Nat
  BY <1>1, NodeFacts DEF TreeInv, Shape, Table
<1>3. /\ rb_first(t) \in S /\ \A m \in S \ {rb_first(t)} : Before("rb_left", rb_first(t), m)
  <2>1. t.root \in S /\ D[t.root] = S /\ t.root # NULL
    BY <1>2, NodeFacts DEF RootOK
  <2>2. rb_first(t) = Leftmost(t, t.root)
    BY <2>1 DEF rb_first
  <2> DEFINE l == Leftmost(t, t.root)
  <2>3. /\ l \in S /\ \A m \in D[t.root] \ {l} : Before("rb_left", l, m)
    BY <1>2, <2>1, LeftmostSays
  <2> HIDE DEF l
  <2> QED BY <2>1, <2>2, <2>3 DEF l
<1>4. x \in Q[N]
  <2>1. x \in [rows : Seq(S), tcb : S \cup {NULL}] /\ x.rows = <<>> /\ x.tcb = rb_first(t)
    BY <1>3
  <2>2. Len(x.rows) = 0 /\ 1..Len(x.rows) = {}
    BY <2>1
  <2>3. Cardinality({}) = 0
    BY FS_EmptySet
  <2> HIDE DEF x
  <2>4. {x.rows[i] : i \in 1..Len(x.rows)} = {}
    BY <2>2
  <2>5. x.tcb # NULL /\ \A m \in S \ {x.tcb} : tcbcmp(x.tcb, m) < 0
    BY <1>2, <1>3, <2>1, NodeFacts DEF Before
  <2>6. Walk(S, x)
    BY <2>1, <2>2, <2>3, <2>4, <2>5 DEF Walk
  <2>7. Cardinality(Rest(x)) <= N
    BY <1>2, NodeFacts
  <2>8. x \in Way(N)
    BY <2>1, <2>6, <2>7
  <2> HIDE DEF Way
  <2> QED BY <1>2, <2>8
<1>5. ASSUME NEW k \in Nat, NEW w \in Way(k), RowStep(t, w) # w
      PROVE  k > 0 /\ RowStep(t, w) \in Way(k - 1)
  <2> DEFINE z == RowStep(t, w)
             A == Rest(z)
             B == Rest(w)
  <2>1. Walk(S, w) /\ Cardinality(B) <= k
    OBVIOUS
  <2>2. w.tcb # NULL
    BY <1>5 DEF RowStep
  <2>3. /\ Walk(S, z) /\ z # w
        /\ A \in SUBSET Node /\ B \in SUBSET Node /\ A \subseteq B /\ A # B
    BY <1>2, <2>1, <2>2, WalkOn
  <2> HIDE DEF z, A, B, Way
  <2>4. Cardinality(A) \in Nat /\ Cardinality(B) \in Nat /\ Cardinality(A) < Cardinality(B)
    BY <2>3, Larger
  <2>5. k > 0 /\ Cardinality(A) <= k - 1
    BY <2>1, <2>4
  <2>6. z \in [rows : Seq(S), tcb : S \cup {NULL}]
    BY <2>3 DEF Walk
  <2>7. z \in Way(k - 1)
    BY <2>3, <2>5, <2>6 DEF Way, A
  <2> QED BY <2>5, <2>7 DEF z
<1>6. \A k \in Nat : \A y \in Q[k] : RowStep(t, y) = y \/ (k > 0 /\ RowStep(t, y) \in Q[k - 1])
  <2> SUFFICES ASSUME NEW k \in Nat, NEW y \in Q[k]
               PROVE  RowStep(t, y) = y \/ (k > 0 /\ RowStep(t, y) \in Q[k - 1])
    OBVIOUS
  <2>1. y \in Way(k) /\ (k > 0 => Q[k - 1] = Way(k - 1))
    OBVIOUS
  <2> HIDE DEF Q, Way
  <2> QED BY <1>5, <2>1
<1> HIDE DEF Q, Way, x
<1>7. PICK y : /\ Rows(t) = y.rows /\ RowStep(t, y) = y
               /\ \E k \in 0..N : y \in Q[k]
  BY <1>2, <1>4, <1>6, RowLoop DEF x
<1>8. PICK k \in Nat : y \in Way(k)
  BY <1>2, <1>7 DEF Q
<1>9. Walk(S, y)
  BY <1>8 DEF Way
<1>10. y.tcb = NULL
  <2>1. SUFFICES ASSUME y.tcb # NULL PROVE FALSE
    OBVIOUS
  <2>2. RowStep(t, y) # y
    BY <1>2, <1>9, <2>1, WalkOn
  <2> QED BY <1>7, <2>2
<1>11. /\ y.rows \in Seq(S) /\ {y.rows[i] : i \in 1..Len(y.rows)} = S /\ Len(y.rows) = Cardinality(S)
       /\ \A i, j \in 1..Len(y.rows) : i < j => tcbcmp(y.rows[i], y.rows[j]) < 0
  BY <1>9, <1>10 DEF Walk
<1> QED BY <1>7, <1>11

\* The page's last row is the listener's.
LEMMA ListenerLast ==
  ASSUME NEW t, NEW S, Table(t, S)
  PROVE  Rows(t)[Len(Rows(t))] = Listener
<1> DEFINE q == Rows(t)
           l == Len(q)
<1>1. /\ q \in Seq(S) /\ {q[i] : i \in 1..Len(q)} = S
      /\ \A i, j \in 1..Len(q) : i < j => tcbcmp(q[i], q[j]) < 0
  BY RowsSay
<1>2. Listener \in S /\ S \subseteq Node
  BY DEF Table
<1> HIDE DEF q
<1>3. PICK i \in 1..Len(q) : q[i] = Listener
  BY <1>1, <1>2
<1>4. l \in 1..Len(q) /\ l \in Nat /\ q[l] \in Node
  <2>1. q \in Seq(S) /\ Len(q) \in Nat
    BY <1>1
  <2>2. l \in 1..Len(q)
    BY <1>3, <2>1
  <2>3. q[l] \in S
    BY <2>1, <2>2
  <2> QED BY <1>2, <2>1, <2>2, <2>3
<1>5. SUFFICES ASSUME q[l] # Listener PROVE FALSE
  BY DEF q
<1>6. i < l
  BY <1>3, <1>4, <1>5
<1>7. tcbcmp(Listener, q[l]) < 0
  BY <1>1, <1>3, <1>4, <1>6
<1>8. Key(q[l]).lport > 0
  <2>1. q[l] \in S
    BY <1>1, <1>4
  <2> QED BY <1>5, <2>1 DEF Table
<1>9. tcbcmp(q[l], Listener) < 0
  BY <1>4, <1>5, <1>8, SegmentSays
<1>10. tcbcmp(Listener, q[l]) \in Int /\ tcbcmp(q[l], Listener) = 0 - tcbcmp(Listener, q[l])
  BY <1>2, <1>4, CompareFacts
<1> QED BY <1>7, <1>9, <1>10

\* The table, and the pages written in the last step.
TableInv ==
    /\ TableOK
    /\ pages \in Seq([rows : Seq(Node), connection_count : Nat])
    /\ PageListsSessions

\* write_status_report.
LEMMA ReportStep ==
  ASSUME TableInv, ~Lost, NEW n \in 1..2, write_status_report(n)
  PROVE  pages' \in Seq([rows : Seq(Node), connection_count : Nat]) /\ PageListsSessions'
<1> DEFINE q == Rows(tcblist)
           P == [rows : Seq(Node), connection_count : Nat]
           page(i) == [rows |-> IF i = 1 THEN q ELSE <<>>, connection_count |-> Len(q)]
<1>1. Table(tcblist, InTree) /\ InTree \subseteq Node
  BY DEF TableInv, TableOK, InTree
<1>2. /\ q \in Seq(InTree) /\ {q[i] : i \in 1..Len(q)} = InTree /\ Len(q) = Cardinality(InTree)
      /\ \A i, j \in 1..Len(q) : i < j => tcbcmp(q[i], q[j]) < 0
  BY <1>1, RowsSay
<1>3. q[Len(q)] = Listener
  BY <1>1, ListenerLast
<1>4. pages' = [i \in 1..n |-> page(i)] /\ tcbs' = tcbs
  BY DEF write_status_report
<1> HIDE DEF q
<1>5. q \in Seq(Node) /\ Len(q) \in Nat /\ DOMAIN q = 1..Len(q)
  <2>1. q \in Seq(InTree)
    BY <1>2
  <2>2. Len(q) \in Nat /\ DOMAIN q = 1..Len(q)
    BY <2>1
  <2>3. \A i \in 1..Len(q) : q[i] \in InTree
    BY <2>1
  <2>4. q \in [1..Len(q) -> Node]
    BY <1>1, <2>1, <2>2, <2>3
  <2> QED BY <2>2, <2>4
<1>6. \A i \in 1..n : page(i) \in P
  BY <1>5
<1>7. pages'[1] = page(1)
  BY <1>4
<1>8. pages'[1].rows = q /\ pages'[1].connection_count = Len(q)
  BY <1>7
<1>9. PageListsSessions'
  <2> HIDE DEF page
  <2> QED BY <1>2, <1>3, <1>4, <1>5, <1>8 DEF PageListsSessions, InTree
<1>10. pages' \in Seq(P)
  <2> HIDE DEF page, P
  <2> QED BY <1>4, <1>6
<1> QED BY <1>9, <1>10

\* Every step keeps the table and writes pages that list it.
LEMMA TableInvStep ==
  ASSUME TableInv, [Next]_vars
  PROVE  TableInv'
<1>1. TableOK'
  BY TableStep DEF TableInv
<1>2. ASSUME pages' = <<>>
      PROVE  pages' \in Seq([rows : Seq(Node), connection_count : Nat]) /\ PageListsSessions'
  <2>1. PageListsSessions'
    BY <1>2 DEF PageListsSessions
  <2> QED BY <1>2, <2>1
<1>3. CASE ~Lost /\ handle_tcp
  BY <1>1, <1>2, <1>3 DEF handle_tcp, TableInv
<1>4. CASE ~Lost /\ SessionEnds
  BY <1>1, <1>2, <1>4 DEF SessionEnds, TableInv
<1>5. CASE \E n \in 1..2 : ~Lost /\ write_status_report(n)
  BY <1>1, <1>5, ReportStep DEF TableInv
<1>6. CASE UNCHANGED vars
  BY <1>1, <1>6 DEF TableInv, vars, PageListsSessions
<1> QED BY <1>3, <1>4, <1>5, <1>6 DEF Next

\* So they always do.
LEMMA TableInvAlways == Spec => []TableInv
<1>1. Init => TableInv
  <2> SUFFICES ASSUME Init PROVE TableInv
    OBVIOUS
  <2>1. TableOK
    BY TableOKInit
  <2>2. pages = <<>>
    BY DEF Init
  <2>3. PageListsSessions
    BY <2>2 DEF PageListsSessions
  <2> QED BY <2>1, <2>2, <2>3 DEF TableInv
<1>2. TableInv /\ [Next]_vars => TableInv'
  BY TableInvStep
<1> QED BY <1>1, <1>2, PTL DEF Spec

\* TypeOK: the pointers of the tree are nodes or null, and the pages are pages.
THEOREM TypesAlways == Spec => []TypeOK
<1>1. TableInv => TypeOK
  BY DEF TableInv, TableOK, TypeOK
<1> QED BY <1>1, TableInvAlways, PTL

\* PageListsSessions, for any number of sessions: the walk of rb_first and rb_next
\* comes to every tcb once, in the order of tcbcmp, and ends at the listener.
THEOREM PageListsSessionsAlways == Spec => []PageListsSessions
<1>1. TableInv => PageListsSessions
  BY DEF TableInv
<1> QED BY <1>1, TableInvAlways, PTL
=============================================================================
