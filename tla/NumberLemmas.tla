---------------------------- MODULE NumberLemmas ----------------------------
(***************************************************************************)
(* Facts about numbers that the proofs of several components use: the      *)
(* smallest of a set, and a timer that counts modulo some N.               *)
(***************************************************************************)
EXTENDS Integers, FiniteSetsExt, NaturalsInduction, WellFoundedInduction, TLAPS

(* The smaller of two numbers. *)
LEMMA MinOfTwo ==
  ASSUME NEW a \in Int, NEW b \in Int
  PROVE  Min({a, b}) = IF a <= b THEN a ELSE b
  <1> DEFINE m == IF a <= b THEN a ELSE b
  <1>1. m \in {a, b} /\ \A y \in {a, b} : m =< y
    OBVIOUS
  <1>2. ASSUME NEW x \in {a, b}, \A y \in {a, b} : x =< y PROVE x = m
    BY <1>2
  <1>3. QED
    BY <1>1, <1>2 DEF Min

(* The naturals are well-founded. *)
LEMMA LeastNatural ==
  ASSUME NEW S, S \subseteq Nat, S # {}
  PROVE  \E x \in S : \A y \in S : x =< y
  <1> DEFINE less == {ss \in Nat \X Nat : ss[1] < ss[2]}
  <1>1. IsWellFoundedOn(less, Nat)
    BY NatLessThanWellFounded, Zenon DEF OpToRel
  <1>2. PICK x \in S : \A y \in S : ~(<<y, x>> \in less)
    <2> HIDE DEF less
    <2>1. QED
      BY <1>1, WFMin, Zenon
  <1>3. ASSUME NEW y \in S PROVE x =< y
    <2>1. x \in Nat /\ y \in Nat /\ ~(y < x)
      BY <1>2
    <2>2. QED
      BY <2>1, SMT
  <1>4. QED
    BY <1>3

(* The first of the numbers a loop tries that satisfies its test is one of  *)
(* them.                                                                    *)
LEMMA MinIsMember ==
  ASSUME NEW S, S \subseteq Nat, S # {}
  PROVE  Min(S) \in S
  BY LeastNatural DEF Min

(* Arithmetic of a timer or of a counter that wraps stays in its range. *)
LEMMA ModInRange ==
  ASSUME NEW n \in Nat \ {0}, NEW x \in Int
  PROVE  x % n \in 0..(n - 1)
  OBVIOUS

(* A timer that has just been read is not old. *)
LEMMA TimerSame ==
  ASSUME NEW n \in Nat \ {0}, NEW x \in 0..(n - 1)
  PROVE  (x - x) % n = 0
  OBVIOUS

(* timer_elapsed across an overflow: a timer that was read at time now and   *)
(* again d later tells d, as long as d is less than one round.               *)
LEMMA TimerAdvance ==
  ASSUME NEW n \in Nat \ {0}, NEW now \in 0..(n - 1), NEW d \in 0..(n - 1)
  PROVE  (((now + d) % n) - now) % n = d
  OBVIOUS

(* The age of a timer value grows with the clock, up to one round. *)
LEMMA TimerAge ==
  ASSUME NEW n \in Nat \ {0}, NEW now \in 0..(n - 1), NEW d \in 0..(n - 1),
         NEW last \in 0..(n - 1), ((now - last) % n) + d < n
  PROVE  (((now + d) % n) - last) % n = ((now - last) % n) + d
  OBVIOUS

(* Induction up to a bound, for a set of numbers. *)
LEMMA UpTo ==
  ASSUME NEW N \in Nat, NEW P, 0 \in P, \A n \in 1..N : n - 1 \in P => n \in P
  PROVE  \A n \in 0..N : n \in P
  <1> DEFINE Missing == (0..N) \ P
  <1> SUFFICES ASSUME Missing # {} PROVE FALSE
    OBVIOUS
  <1>1. Missing \subseteq Nat
    OBVIOUS
  <1>2. PICK x \in Missing : \A y \in Missing : x =< y
    <2> HIDE DEF Missing
    <2>1. QED
      BY <1>1, LeastNatural
  <1>3. x \in 1..N /\ x \notin P /\ x - 1 \in 0..N
    BY <1>2
  <1>4. x - 1 \in P
    BY <1>2, <1>3
  <1>5. QED
    BY <1>3, <1>4

(* A loop of N turns that starts with b; the n-th turn takes x to F[n][x]. *)
LoopBody(F, N, S) == F \in [1..N -> [S -> S]]
IsLoop(f, F, N, S, b) ==
  f \in [0..N -> S] /\ f[0] = b /\ \A n \in 1..N : f[n] = F[n][f[n - 1]]

(* A loop whose body takes the values of S to values of S has a run. *)
LEMMA LoopExists ==
  ASSUME NEW N, NEW S, NEW b, NEW F, N \in Nat, b \in S, LoopBody(F, N, S)
  PROVE  \E f : IsLoop(f, F, N, S, b)
  <1> DEFINE P == {m \in 0..N : \E f : IsLoop(f, F, m, S, b)}
  <1>1. 0 \in P
    <2>1. PICK f : f = [n \in 0..0 |-> b]
      OBVIOUS
    <2>2. IsLoop(f, F, 0, S, b)
      BY <2>1 DEF IsLoop
    <2>3. QED
      BY <2>2
  <1>2. ASSUME NEW m \in 1..N, m - 1 \in P PROVE m \in P
    <2>1. PICK f : IsLoop(f, F, m - 1, S, b)
      BY <1>2
    <2>2. m \in Nat /\ m - 1 \in 0..(m - 1) /\ f[m - 1] \in S
      BY <1>2, <2>1 DEF IsLoop
    <2>3. PICK g : g = [n \in 0..m |-> IF n = m THEN F[m][f[m - 1]] ELSE f[n]]
      OBVIOUS
    <2>4. ASSUME NEW n \in 0..(m - 1) PROVE n \in 0..m /\ n # m /\ g[n] = f[n]
      BY <2>2, <2>3
    <2>5. g[m] = F[m][f[m - 1]] /\ g[m] \in S
      <3>1. F[m] \in [S -> S]
        BY <1>2 DEF LoopBody
      <3>2. QED
        BY <2>2, <2>3, <3>1
    <2>6. g \in [0..m -> S]
      <3>1. ASSUME NEW n \in 0..m PROVE g[n] \in S
        BY <2>1, <2>2, <2>4, <2>5 DEF IsLoop
      <3>2. QED
        BY <2>3, <3>1
    <2>7. ASSUME NEW n \in 1..m PROVE g[n] = F[n][g[n - 1]]
      <3>1. n - 1 \in 0..(m - 1) /\ g[n - 1] = f[n - 1]
        BY <2>2, <2>4
      <3>2. CASE n = m
        BY <2>5, <3>1, <3>2
      <3>3. CASE n # m
        <4>1. n \in 1..(m - 1) /\ n \in 0..(m - 1)
          BY <2>2, <3>3
        <4>2. QED
          BY <2>1, <2>4, <3>1, <4>1 DEF IsLoop
      <3>4. QED
        BY <3>2, <3>3
    <2>8. g[0] = b
      BY <2>1, <2>2, <2>4 DEF IsLoop
    <2>9. IsLoop(g, F, m, S, b)
      BY <2>6, <2>7, <2>8 DEF IsLoop
    <2>10. QED
      BY <2>9
  <1>3. N \in P
    <2>1. \A n \in 1..N : n - 1 \in P => n \in P
      BY <1>2
    <2> HIDE DEF P
    <2>2. \A n \in 0..N : n \in P
      BY <1>1, <2>1, UpTo
    <2>3. QED
      BY <2>2
  <1>4. QED
    BY <1>3

(* A set of numbers with a bound has a greatest one. *)
LEMMA GreatestNatural ==
  ASSUME NEW N \in Nat, NEW S, S \subseteq 0..N, S # {}
  PROVE  \E x \in S : \A y \in S : y =< x
  <1> DEFINE T == {n \in 0..N : N - n \in S}
  <1>1. \A y \in S : N - y \in 0..N /\ N - (N - y) = y
    OBVIOUS
  <1>2. \A y \in S : N - y \in T
    BY <1>1
  <1>3. T \subseteq Nat /\ T # {}
    <2>1. T \subseteq Nat
      OBVIOUS
    <2>2. T # {}
      <3> HIDE DEF T
      <3>1. QED
        BY <1>2
    <2>3. QED
      BY <2>1, <2>2
  <1>4. PICK x \in T : \A y \in T : x =< y
    <2> HIDE DEF T
    <2>1. QED
      BY <1>3, LeastNatural
  <1>5. ASSUME NEW y \in S PROVE y =< N - x
    <2>1. x =< N - y
      <3> HIDE DEF T
      <3>1. QED
        BY <1>2, <1>4
    <2>2. x \in 0..N /\ y \in 0..N
      BY <1>4
    <2>3. QED
      BY <2>1, <2>2
  <1>6. QED
    BY <1>4, <1>5
=============================================================================
