--------------------------- MODULE ModularArithmetic ---------------------------
(***************************************************************************)
(* Facts about counters that wrap around, for the proofs about the rings of*)
(* the code: the byte cursors of the shared-memory ring and the cursor of  *)
(* the decision log.                                                       *)
(***************************************************************************)
EXTENDS Integers, WellFoundedInduction, TLAPS

(* A set of naturals that is not empty has a least element: what every     *)
(* argument by a smallest counterexample starts with.                      *)
LEMMA Least ==
  ASSUME NEW T, T \subseteq Nat, T # {}
  PROVE  \E x \in T : \A y \in T : x <= y
<1>1. \E x \in T : \A y \in T : ~(<<y, x>> \in OpToRel(<, Nat))
  BY NatLessThanWellFounded, WFMin, Zenon
<1>2. PICK x \in T : \A y \in T : ~(<<y, x>> \in OpToRel(<, Nat))
  BY <1>1
<1>3. ASSUME NEW y \in T
      PROVE  x <= y
  <2>1. x \in Nat /\ y \in Nat
    OBVIOUS
  <2>2. ~(y < x)
    BY <1>2, <2>1, Zenon DEF OpToRel
  <2> QED
    BY <2>1, <2>2
<1> QED
  BY <1>3

-----------------------------------------------------------------------------
(* x is a multiple of C and a remainder, with the product named so that    *)
(* what uses it is linear.                                                 *)
LEMMA Division ==
  ASSUME NEW C \in Nat \ {0}, NEW x \in Int
  PROVE  \E q \in Int, m \in Int, r \in 0 .. C - 1 : m = C * q /\ r = x % C /\ x = m + r
<1>1. PICK r : r = x % C
  OBVIOUS
<1>2. r \in 0 .. C - 1
  BY <1>1
<1>3. PICK q \in Int : r = x - C * q
  <2>1. x % C = x - C * (x \div C) /\ x \div C \in Int
    OBVIOUS
  <2> QED
    BY <1>1, <2>1
<1>4. PICK m \in Int : m = C * q
  OBVIOUS
<1>5. x = m + r
  BY <1>2, <1>3, <1>4
<1> QED
  BY <1>1, <1>2, <1>4, <1>5, Zenon

(* Only 0 is a multiple of C between -C and C.                             *)
LEMMA NoMultiple ==
  ASSUME NEW C \in Nat \ {0}, NEW k \in Int, C * k < C, -C < C * k
  PROVE  k = 0
<1>1. k >= 1 => C * k >= C
  OBVIOUS
<1>2. k <= -1 => C * k <= -C
  OBVIOUS
<1> QED
  BY <1>1, <1>2

(* The remainder is the only one.                                          *)
LEMMA Remainder ==
  ASSUME NEW C \in Nat \ {0}, NEW k \in Int, NEW r \in 0 .. C - 1, NEW x \in Int,
         x = C * k + r
  PROVE  x % C = r
<1>1. PICK q \in Int, b \in Int, s \in 0 .. C - 1 : b = C * q /\ s = x % C /\ x = b + s
  BY Division, Zenon
<1>2. x = b + s
  BY <1>1, Zenon
<1>3. PICK a \in Int : a = C * k
  OBVIOUS
<1>4. x = a + r
  BY <1>3
<1>5. C * (k - q) = a - b
  <2>1. b = C * q
    BY <1>1, Zenon
  <2> QED
    BY <1>3, <2>1
<1>6. a - b < C /\ -C < a - b
  BY <1>2, <1>4
<1>7. k - q = 0
  BY <1>5, <1>6, NoMultiple
<1>8. k = q
  BY <1>7
<1>9. a = b
  BY <1>1, <1>3, <1>8, Zenon
<1>10. s = r
  BY <1>2, <1>4, <1>9
<1> QED
  BY <1>1, <1>10, Zenon

(* Moving by at most one turn wraps at most once.                          *)
LEMMA ModAdd ==
  ASSUME NEW C \in Nat \ {0}, NEW x \in Int, NEW d \in 0 .. C
  PROVE  (x + d) % C = IF (x % C) + d < C THEN (x % C) + d ELSE (x % C) + d - C
<1>1. PICK q \in Int, m \in Int, r \in 0 .. C - 1 : m = C * q /\ r = x % C /\ x = m + r
  BY Division, Zenon
<1>2. m = C * q /\ x = m + r
  BY <1>1, Zenon
<1>3. PICK y \in Int : y = x + d
  OBVIOUS
<1>4. CASE r + d < C
  <2>1. PICK s \in 0 .. C - 1 : s = r + d
    BY <1>4
  <2>2. y = C * q + s
    BY <1>2, <1>3, <2>1
  <2>3. y % C = s
    BY <2>2, Remainder
  <2> QED
    BY <1>1, <1>3, <1>4, <2>1, <2>3, Zenon
<1>5. CASE ~(r + d < C)
  <2>1. PICK s \in 0 .. C - 1 : s = r + d - C
    BY <1>5
  <2>2. PICK p \in Int : p = q + 1
    OBVIOUS
  <2>3. C * p = m + C
    BY <1>2, <2>2
  <2>4. y = C * p + s
    BY <1>2, <1>3, <2>1, <2>3
  <2>5. y % C = s
    BY <2>4, Remainder
  <2> QED
    BY <1>1, <1>3, <1>5, <2>1, <2>5, Zenon
<1> QED
  BY <1>4, <1>5, Zenon

(* A counter that wraps at a multiple of C is, as an index of C slots, the *)
(* counter that does not wrap: why the capacity is a power of two          *)
(* (shm_ringbuffer.c:160-165) and why the decision log may be indexed with *)
(* an unsigned that wraps (cost_model.c:233, 252).                         *)
LEMMA ModMod ==
  ASSUME NEW C \in Nat \ {0}, NEW W \in Nat \ {0}, W % C = 0, NEW x \in Int
  PROVE  (x % W) % C = x % C
<1>1. PICK k \in Int, a \in Int, y \in 0 .. W - 1 : a = W * k /\ y = x % W /\ x = a + y
  BY Division, Zenon
<1>2. a = W * k /\ x = a + y /\ y \in Int
  <2>1. a = W * k /\ x = a + y
    BY <1>1, Zenon
  <2> QED
    BY <2>1
<1>3. PICK m \in Int : W = C * m
  <2>1. W \in Int
    OBVIOUS
  <2>2. PICK q \in Int, m \in Int, r \in 0 .. C - 1 : m = C * q /\ r = W % C /\ W = m + r
    BY <2>1, Division, Zenon
  <2>3. m = C * q /\ r = 0 /\ W = m + r
    BY <2>2, Zenon
  <2> QED
    BY <2>3
<1>4. PICK j \in Int, b \in Int, r \in 0 .. C - 1 : b = C * j /\ r = y % C /\ y = b + r
  BY <1>2, Division, Zenon
<1>5. b = C * j /\ y = b + r
  BY <1>4, Zenon
<1>6. PICK i \in Int : i = m * k
  OBVIOUS
<1>7. a = C * i
  BY <1>2, <1>3, <1>6
<1>8. PICK h \in Int : h = i + j
  OBVIOUS
<1>9. C * h = a + b
  BY <1>5, <1>7, <1>8
<1>10. x = C * h + r
  BY <1>2, <1>5, <1>9
<1>11. x % C = r
  BY <1>10, Remainder
<1> QED
  BY <1>1, <1>4, <1>11, Zenon

(* Two counters at the same slot stay at the same slot when both step back *)
(* by at most a turn.                                                      *)
LEMMA SameSlot ==
  ASSUME NEW C \in Nat \ {0}, NEW x \in Int, NEW y \in Int, x % C = y % C, NEW d \in -C .. 0
  PROVE  (x + d) % C = (y + d) % C
<1>1. PICK e \in 0 .. C : e = d + C
  OBVIOUS
<1>2. ASSUME NEW z \in Int
      PROVE  (z + d) % C = IF (z % C) + e < C THEN (z % C) + e ELSE (z % C) + e - C
  <2>1. PICK v \in Int : v = z + d
    OBVIOUS
  <2>2. (v + C) % C = IF (v % C) + C < C THEN (v % C) + C ELSE (v % C) + C - C
    <3>1. C \in 0 .. C
      OBVIOUS
    <3> QED
      BY <2>1, <3>1, ModAdd, Zenon
  <2>3. v % C \in 0 .. C - 1
    BY <2>1
  <2>4. (v + C) % C = v % C
    BY <2>2, <2>3
  <2>5. v + C = z + e
    BY <1>1, <2>1
  <2>6. (z + e) % C = IF (z % C) + e < C THEN (z % C) + e ELSE (z % C) + e - C
    BY <1>1, ModAdd, Zenon
  <2> QED
    BY <2>1, <2>4, <2>5, <2>6, Zenon
<1> QED
  BY <1>2, Zenon

(* Less than a turn on is another slot.                                    *)
LEMMA OtherSlot ==
  ASSUME NEW C \in Nat \ {0}, NEW x \in Int, NEW d \in 1 .. C - 1
  PROVE  (x + d) % C # x % C
<1>1. PICK r \in 0 .. C - 1 : r = x % C
  OBVIOUS
<1>2. d \in 0 .. C
  OBVIOUS
<1>3. (x + d) % C = IF r + d < C THEN r + d ELSE r + d - C
  BY <1>1, <1>2, ModAdd, Zenon
<1>4. (IF r + d < C THEN r + d ELSE r + d - C) # r
  OBVIOUS
<1> QED
  BY <1>1, <1>3, <1>4, Zenon

================================================================================
