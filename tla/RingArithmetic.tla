--------------------------- MODULE RingArithmetic ---------------------------
(* Facts about positions modulo the size M of a ring of cells, and about    *)
(* queues of consecutive numbers.                                           *)
EXTENDS Integers, Sequences, TLAPS

(* The division theorem for the built-in operators.                         *)
LEMMA Division ==
    ASSUME NEW M \in Nat \ {0}, NEW a \in Nat
    PROVE  /\ a = M * (a \div M) + (a % M)
           /\ a \div M \in Nat
           /\ a % M \in 0..(M - 1)
  OBVIOUS

(* Multiples of M are at least M apart.                                     *)
LEMMA MultiplesApart ==
    ASSUME NEW M \in Nat \ {0}, NEW a \in Int, NEW b \in Int, a < b
    PROVE  M * a + M <= M * b
  <1>1. M * (b - a - 1) >= 0
    OBVIOUS
  <1>2. M * (b - a - 1) = M * b - M * a - M
    OBVIOUS
  <1> QED
    BY <1>1, <1>2

(* The remainder is unique.                                                 *)
LEMMA RemainderUnique ==
    ASSUME NEW M \in Nat \ {0}, NEW q \in Int, NEW r \in 0..(M - 1),
           M * q + r \in Nat
    PROVE  (M * q + r) % M = r
  <1> DEFINE a == M * q + r
             q2 == a \div M
             r2 == a % M
  <1>1. a \in Nat
    OBVIOUS
  <1>2. a = M * q + r
    OBVIOUS
  <1> HIDE DEF a
  <1>3. a = M * q2 + r2 /\ q2 \in Int /\ r2 \in 0..(M - 1)
    BY <1>1, Division
  <1> HIDE DEF q2, r2
  <1>4. ~(q < q2)
    BY <1>2, <1>3, MultiplesApart
  <1>5. ~(q2 < q)
    BY <1>2, <1>3, MultiplesApart
  <1>6. q = q2
    BY <1>3, <1>4, <1>5
  <1>7. r = r2
    BY <1>2, <1>3, <1>6
  <1> QED
    BY <1>2, <1>7 DEF r2

(* Going once round the ring ends in the same cell.                         *)
LEMMA OnceRound ==
    ASSUME NEW M \in Nat \ {0}, NEW a \in Nat
    PROVE  (a + M) % M = a % M
  <1> DEFINE q == a \div M
             r == a % M
  <1>1. a = M * q + r /\ q \in Int /\ r \in 0..(M - 1)
    BY Division
  <1> HIDE DEF q, r
  <1>2. M * (q + 1) = M * q + M
    BY <1>1
  <1>3. a + M = M * (q + 1) + r /\ a + M \in Nat
    BY <1>1, <1>2
  <1>4. (M * (q + 1) + r) % M = r
    BY <1>1, <1>3, RemainderUnique
  <1> QED
    BY <1>3, <1>4 DEF r

(* The position after that of a is the position of a + 1.                   *)
LEMMA NextCell ==
    ASSUME NEW M \in Nat \ {0}, NEW a \in Nat
    PROVE  (a + 1) % M = ((a % M) + 1) % M
  <1> DEFINE q == a \div M
             r == a % M
  <1>1. a = M * q + r /\ q \in Int /\ r \in 0..(M - 1)
    BY Division
  <1> HIDE DEF q, r
  <1>2. CASE r + 1 < M
    <2>1. a + 1 = M * q + (r + 1) /\ r + 1 \in 0..(M - 1)
      BY <1>1, <1>2
    <2>2. (a + 1) % M = r + 1
      BY <2>1, <1>1, RemainderUnique
    <2>3. M * 0 + (r + 1) = r + 1
      BY <1>1
    <2>4. (r + 1) % M = r + 1
      BY <2>1, <2>3, RemainderUnique
    <2> QED
      BY <2>2, <2>4 DEF r
  <1>3. CASE r + 1 = M
    <2>1. M * (q + 1) = M * q + M
      BY <1>1
    <2>2. a + 1 = M * (q + 1) + 0
      BY <1>1, <1>3, <2>1
    <2>3. (a + 1) % M = 0
      BY <1>1, <2>2, RemainderUnique
    <2>4. M % M = 0
      <3>1. M = M * 1 + 0
        OBVIOUS
      <3> QED
        BY <3>1, RemainderUnique
    <2> QED
      BY <1>3, <2>3, <2>4 DEF r
  <1> QED
    BY <1>1, <1>2, <1>3

-----------------------------------------------------------------------------
(* m line numbers in a row, from k + 1 on.                                  *)
Run(k, m) == [i \in 1..m |-> k + i]

(* What a queue of consecutive line numbers looks like: its length, its     *)
(* first line, and what Append and Tail make of it.                         *)
LEMMA RunProperties ==
    ASSUME NEW k \in Nat, NEW m \in Nat
    PROVE  /\ Run(k, m) \in Seq(Nat) /\ Len(Run(k, m)) = m
           /\ Append(Run(k, m), k + m + 1) = Run(k, m + 1)
           /\ m > 0 => /\ Run(k, m) # <<>>
                       /\ Head(Run(k, m)) = k + 1
                       /\ Tail(Run(k, m)) = Run(k + 1, m - 1)
  <1>1. Run(k, m) \in Seq(Nat) /\ Len(Run(k, m)) = m
    BY DEF Run
  <1>2. Append(Run(k, m), k + m + 1) = Run(k, m + 1)
    BY <1>1 DEF Run
  <1>3. ASSUME m > 0
        PROVE  Run(k, m) # <<>> /\ Head(Run(k, m)) = k + 1
    BY <1>1, <1>3 DEF Run
  <1>4. ASSUME m > 0
        PROVE  Tail(Run(k, m)) = Run(k + 1, m - 1)
    BY <1>1, <1>4 DEF Run
  <1> QED
    BY <1>1, <1>2, <1>3, <1>4
=============================================================================
