----------------------------- MODULE SpscRingProofs -----------------------------
(***************************************************************************)
(* What holds of SpscRing for every capacity, width of the cursors and set *)
(* of records: the ring is a FIFO of whole records.                        *)
(*                                                                         *)
(* The invariant says that some records lie one after the other between    *)
(* the cursors, each in its place or behind a sentinel at the start of the *)
(* data.  Which records is not kept by the code, so the invariant          *)
(* quantifies over them, and every step is shown to leave them, to append  *)
(* the one pushed, or to take out the first.  What the consumer would read *)
(* is then what lies there, although From is defined by reading.           *)
(***************************************************************************)
EXTENDS SpscRing, ModularArithmetic, SequenceTheorems

-----------------------------------------------------------------------------
(* Cursors: unsigned counters, and the offsets they are masked to.         *)

(* The part of the assumption that concerns offsets.                       *)
LEMMA Room == Hdr \in Nat \ {0} /\ Cap \in Nat /\ Cap > 2 * Hdr
BY SpscRingAssumption DEF SpscRingAssumption

(* A cursor n bytes on; the bytes from one cursor to another; the offset n *)
(* bytes before and after an offset of the data.                           *)
Move(c, n) == (c + n) % Wrap
Distance(h, t) == (h - t) % Wrap
Back(p, u) == IF p >= u THEN p - u ELSE p - u + Cap

(* A cursor moved by at most a turn of the data is a cursor.               *)
LEMMA Forward ==
  ASSUME NEW c \in Cursor, NEW n \in 0 .. Cap
  PROVE  /\ Move(c, n) = IF c + n < Wrap THEN c + n ELSE c + n - Wrap
         /\ Move(c, n) \in Cursor
<1> USE SpscRingAssumption DEF SpscRingAssumption, Cursor
<1>1. PICK W \in Nat \ {0} : W = Wrap
  OBVIOUS
<1>2. c \in 0 .. W - 1 /\ c \in Int /\ n \in 0 .. W
  BY <1>1
<1>3. c = W * 0 + c
  BY <1>2
<1>4. c % W = c
  BY <1>2, <1>3, Remainder
<1>5. (c + n) % W = IF (c % W) + n < W THEN (c % W) + n ELSE (c % W) + n - W
  BY <1>2, ModAdd
<1>6. Move(c, n) = IF c + n < Wrap THEN c + n ELSE c + n - Wrap
  BY <1>1, <1>4, <1>5, Zenon DEF Move
<1> QED
  BY <1>1, <1>2, <1>6

(* The unsigned difference of two cursors is the distance between them,    *)
(* also when the first has wrapped and the second has not (h - t in the    *)
(* space checks).                                                          *)
LEMMA Apart ==
  ASSUME NEW h \in Cursor, NEW t \in Cursor
  PROVE  /\ Distance(h, t) = IF h >= t THEN h - t ELSE h - t + Wrap
         /\ Distance(h, t) \in Cursor
<1> USE SpscRingAssumption DEF SpscRingAssumption, Cursor
<1>1. PICK x \in Int : x = h - t
  OBVIOUS
<1>2. CASE h >= t
  <2>1. x = Wrap * 0 + x /\ x \in 0 .. Wrap - 1
    BY <1>1, <1>2
  <2>2. x % Wrap = x
    BY <2>1, Remainder
  <2> QED
    BY <1>1, <1>2, <2>1, <2>2, Zenon DEF Distance
<1>3. CASE ~(h >= t)
  <2>1. PICK r \in 0 .. Wrap - 1 : r = x + Wrap
    BY <1>1, <1>3
  <2>2. x = Wrap * (-1) + r
    BY <1>1, <2>1
  <2>3. x % Wrap = r
    BY <2>2, Remainder
  <2> QED
    BY <1>1, <1>3, <2>1, <2>3, Zenon DEF Distance
<1> QED
  BY <1>2, <1>3

(* A masked cursor is an offset of the data.                               *)
LEMMA PosRange ==
  ASSUME NEW c \in Int
  PROVE  Pos(c) \in 0 .. Cap - 1
BY SpscRingAssumption DEF SpscRingAssumption, Pos

Fore(p, n) == IF p + n < Cap THEN p + n ELSE p + n - Cap

(* How the offset of a cursor follows the cursor: n bytes on, n bytes on   *)
(* after the cursor has wrapped, and n bytes before.                       *)
LEMMA PosFore ==
  ASSUME NEW c \in Int, NEW n \in 0 .. Cap
  PROVE  Pos(c + n) = Fore(Pos(c), n)
<1>1. Cap \in Nat \ {0}
  BY SpscRingAssumption DEF SpscRingAssumption
<1>2. (c + n) % Cap = IF (c % Cap) + n < Cap THEN (c % Cap) + n ELSE (c % Cap) + n - Cap
  BY <1>1, ModAdd, Zenon
<1> QED
  BY <1>2, Zenon DEF Pos, Fore

LEMMA PosMoved ==
  ASSUME NEW c \in Cursor, NEW n \in 0 .. Cap
  PROVE  Pos(Move(c, n)) = IF Pos(c) + n < Cap THEN Pos(c) + n ELSE Pos(c) + n - Cap
<1>1. /\ c \in Int /\ Cap \in Nat \ {0} /\ Wrap \in Nat \ {0}
      /\ n \in 0 .. Cap /\ Wrap % Cap = 0
  BY SpscRingAssumption DEF SpscRingAssumption, Cursor
<1>2. PICK x \in Int : x = c + n
  BY <1>1
<1>3. (x % Wrap) % Cap = x % Cap
  BY <1>1, ModMod, Zenon
<1>4. Pos(Move(c, n)) = (c + n) % Cap
  BY <1>2, <1>3, Zenon DEF Pos, Move
<1>5. (c + n) % Cap = IF (c % Cap) + n < Cap THEN (c % Cap) + n ELSE (c % Cap) + n - Cap
  BY <1>1, ModAdd, Zenon
<1> QED
  BY <1>4, <1>5, Zenon DEF Pos

LEMMA PosBack ==
  ASSUME NEW h \in Cursor, NEW u \in 0 .. Cap
  PROVE  Pos(h - u) = Back(Pos(h), u)
<1> USE SpscRingAssumption DEF SpscRingAssumption, Cursor
<1>1. PICK x \in Int : x = h - u
  OBVIOUS
<1>2. (x + u) % Cap = IF (x % Cap) + u < Cap THEN (x % Cap) + u ELSE (x % Cap) + u - Cap
  <2>1. Cap \in Nat \ {0} /\ u \in 0 .. Cap
    OBVIOUS
  <2> QED
    BY <2>1, ModAdd, Zenon
<1>3. x + u = h
  BY <1>1
<1>4. Pos(h) = IF Pos(x) + u < Cap THEN Pos(x) + u ELSE Pos(x) + u - Cap
  BY <1>2, <1>3, Zenon DEF Pos
<1>5. PICK p \in 0 .. Cap - 1 : p = Pos(x)
  BY PosRange
<1>6. PICK r \in 0 .. Cap - 1 : r = Pos(h)
  BY PosRange
<1>7. r = IF p + u < Cap THEN p + u ELSE p + u - Cap
  BY <1>4, <1>5, <1>6, Zenon
<1>8. p = Back(r, u)
  BY <1>7 DEF Back
<1> QED
  BY <1>1, <1>5, <1>6, <1>8, Zenon

(* The offset of tail, counted back from that of head.                     *)
LEMMA PosTail ==
  ASSUME NEW h \in Cursor, NEW t \in Cursor, Distance(h, t) <= Cap
  PROVE  Pos(t) = Back(Pos(h), Distance(h, t))
<1> USE SpscRingAssumption DEF SpscRingAssumption
<1>1. PICK u \in 0 .. Cap : u = Distance(h, t)
  BY Apart DEF Cursor
<1>2. Move(t, u) = h
  <2>1. u = IF h >= t THEN h - t ELSE h - t + Wrap
    BY <1>1, Apart
  <2>2. Move(t, u) = IF t + u < Wrap THEN t + u ELSE t + u - Wrap
    BY Forward
  <2> QED
    BY <2>1, <2>2 DEF Cursor
<1>3. Pos(h) = IF Pos(t) + u < Cap THEN Pos(t) + u ELSE Pos(t) + u - Cap
  BY <1>2, PosMoved
<1>4. Pos(t) \in 0 .. Cap - 1 /\ Pos(h) \in 0 .. Cap - 1
  BY PosRange DEF Cursor
<1>5. Pos(t) = Back(Pos(h), u)
  BY <1>3, <1>4 DEF Back
<1> QED
  BY <1>1, <1>5

(* What an advance of tail, and one of head, does to the bytes in use.     *)
LEMMA Consumed ==
  ASSUME NEW h \in Cursor, NEW t \in Cursor, NEW n \in 0 .. Cap, n <= Distance(h, t)
  PROVE  Distance(h, Move(t, n)) = Distance(h, t) - n
<1> USE SpscRingAssumption DEF SpscRingAssumption
<1>1. PICK s \in Cursor : s = Move(t, n)
  BY Forward
<1>2. s = IF t + n < Wrap THEN t + n ELSE t + n - Wrap
  BY <1>1, Forward
<1>3. Distance(h, t) = IF h >= t THEN h - t ELSE h - t + Wrap
  BY Apart
<1>4. Distance(h, s) = IF h >= s THEN h - s ELSE h - s + Wrap
  BY Apart
<1>5. Distance(h, s) = Distance(h, t) - n
  BY <1>2, <1>3, <1>4 DEF Cursor
<1> QED
  BY <1>1, <1>5

LEMMA Produced ==
  ASSUME NEW h \in Cursor, NEW t \in Cursor, NEW n \in 0 .. Cap, Distance(h, t) + n <= Cap
  PROVE  Distance(Move(h, n), t) = Distance(h, t) + n
<1> USE SpscRingAssumption DEF SpscRingAssumption
<1>1. PICK s \in Cursor : s = Move(h, n)
  BY Forward
<1>2. s = IF h + n < Wrap THEN h + n ELSE h + n - Wrap
  BY <1>1, Forward
<1>3. Distance(h, t) = IF h >= t THEN h - t ELSE h - t + Wrap
  BY Apart
<1>4. Distance(s, t) = IF s >= t THEN s - t ELSE s - t + Wrap
  BY Apart
<1>5. Distance(s, t) = Distance(h, t) + n
  BY <1>2, <1>3, <1>4 DEF Cursor
<1> QED
  BY <1>1, <1>5

(* The padding and the record are added to head one after the other        *)
(* (shm_ringbuffer.c:307-308).                                             *)
LEMMA MoveTwice ==
  ASSUME NEW c \in Cursor, NEW a \in Nat, NEW b \in Nat, a + b <= Cap
  PROVE  Move(Move(c, a), b) = Move(c, a + b)
<1> USE SpscRingAssumption DEF SpscRingAssumption
<1>0. a \in 0 .. Cap /\ b \in 0 .. Cap /\ a + b \in 0 .. Cap
  OBVIOUS
<1>1. PICK s \in Cursor : s = Move(c, a)
  BY <1>0, Forward
<1>2. s = IF c + a < Wrap THEN c + a ELSE c + a - Wrap
  BY <1>0, <1>1, Forward
<1>3. Move(s, b) = IF s + b < Wrap THEN s + b ELSE s + b - Wrap
  BY <1>0, Forward
<1>4. Move(c, a + b) = IF c + (a + b) < Wrap THEN c + (a + b) ELSE c + (a + b) - Wrap
  BY <1>0, Forward
<1>5. Move(s, b) = Move(c, a + b)
  BY <1>2, <1>3, <1>4 DEF Cursor
<1> QED
  BY <1>1, <1>5

(* The first byte of the next lap is the padding away                      *)
(* (shm_ringbuffer.c:307-308, 408-410).                                    *)
LEMMA NextLapMoves ==
  ASSUME NEW c \in Cursor
  PROVE  NextLap(c) = Move(c, Cap - Pos(c))
<1> USE SpscRingAssumption DEF SpscRingAssumption
<1>1. Pos(c) \in 0 .. Cap - 1 /\ c \in Int
  BY PosRange DEF Cursor
<1>2. c - Pos(c) + Cap = c + (Cap - Pos(c))
  BY <1>1
<1> QED
  BY <1>2, Zenon DEF NextLap, Move

-----------------------------------------------------------------------------
(* Reading: what is at an offset, and From as the function it defines.     *)

(* A record, or a sentinel, is in memory at an offset.                     *)
Whole(m, o, r) ==
  /\ \A i \in 0 .. Hdr - 1 : m[o + i] = LenByte(r.size, i)
  /\ \A i \in 0 .. r.size - 1 : m[o + Hdr + i] = Byte(r.id, i)

Mark(m, o) == \A i \in 0 .. Hdr - 1 : m[o + i] = Zero

(* Read back, a record that is whole is the one that was copied.           *)
LEMMA ReadWhole ==
  ASSUME NEW o \in Nat, NEW r \in Record, Whole(mem, o, r), o + Need(r.size) <= Cap
  PROVE  LenAt(o) = r.size /\ BodyAt(o + Hdr, r.size) = r
<1> USE SpscRingAssumption DEF SpscRingAssumption
<1>1. /\ r.size \in Sizes /\ r.size \in Nat \ {0} /\ r.id \in Ids
      /\ r = [id |-> r.id, size |-> r.size]
  BY DEF Record
<1>2. o + 0 = o /\ o + Hdr + 0 = o + Hdr /\ 0 \in 0 .. Hdr - 1 /\ 0 \in 0 .. r.size - 1
  BY <1>1
<1>3. mem[o] = LenByte(r.size, 0) /\ mem[o + Hdr] = Byte(r.id, 0)
  BY <1>2, Zenon DEF Whole
<1>4. mem[o][2] = r.size /\ mem[o] # Zero /\ mem[o + Hdr][1] = r.id
  BY <1>3 DEF LenByte, Zero, Byte
<1>5. ~(\A i \in 0 .. Hdr - 1 : mem[o + i] = Zero)
  BY <1>2, <1>4, Zenon
<1>6. LenAt(o) = r.size
  BY <1>1, <1>4, <1>5, Zenon DEF LenAt, Whole
<1>7. o + Hdr + r.size <= Cap
  BY <1>1 DEF Need
<1>8. BodyAt(o + Hdr, r.size) = r
  BY <1>1, <1>4, <1>7, Zenon DEF BodyAt, Whole
<1> QED
  BY <1>6, <1>8

(* A length prefix is a size, the sentinel, or neither.                    *)
LEMMA LenKinds ==
  ASSUME NEW o \in Nat
  PROVE  LenAt(o) \in Sizes \cup {0, -1}
<1> USE SpscRingAssumption DEF SpscRingAssumption
<1>1. o + 0 = o /\ 0 \in 0 .. Hdr - 1
  OBVIOUS
<1>2. ASSUME NEW n \in Sizes, \A i \in 0 .. Hdr - 1 : mem[o + i] = LenByte(n, i)
      PROVE  mem[o][2] \in Sizes
  <2>1. mem[o] = LenByte(n, 0)
    BY <1>1, <1>2, Zenon
  <2> QED
    BY <2>1 DEF LenByte
<1> QED
  BY <1>2 DEF LenAt

(* What From says of u bytes before head, given what it says of less. It   *)
(* is a recursive function, and this section shows that it exists.         *)
FromAt(f, u) ==
  LET o == Pos(head - u)
      n == LenAt(o)
  IN IF u = 0 THEN << >>
     ELSE IF n = 0 /\ Cap - o < u THEN f[u - (Cap - o)]
     ELSE IF n > 0 /\ Need(n) <= u THEN <<BodyAt(o + Hdr, n)>> \o f[u - Need(n)]
     ELSE <<Torn>>

LEMMA FromAtLess ==
  ASSUME head \in Cursor, NEW u \in Nat, NEW f, NEW g,
         \A v \in 0 .. u - 1 : f[v] = g[v]
  PROVE  FromAt(f, u) = FromAt(g, u)
<1> USE SpscRingAssumption DEF SpscRingAssumption
<1>1. PICK o \in 0 .. Cap - 1 : o = Pos(head - u)
  <2>1. head - u \in Int
    BY DEF Cursor
  <2> QED
    BY <2>1, PosRange
<1>2. PICK n \in Int : n = LenAt(o)
  <2>1. LenAt(o) \in Sizes \cup {0, -1}
    BY LenKinds
  <2>2. Sizes \cup {0, -1} \subseteq Int
    OBVIOUS
  <2> QED
    BY <2>1, <2>2, Zenon
<1>3. n = 0 /\ Cap - o < u => f[u - (Cap - o)] = g[u - (Cap - o)]
  <2>1. n = 0 /\ Cap - o < u => u - (Cap - o) \in 0 .. u - 1
    OBVIOUS
  <2> QED
    BY <2>1, Zenon
<1>4. n > 0 /\ Need(n) <= u => f[u - Need(n)] = g[u - Need(n)]
  <2>1. n > 0 /\ Need(n) <= u => u - Need(n) \in 0 .. u - 1
    BY DEF Need
  <2> QED
    BY <2>1, Zenon
<1> QED
  BY <1>1, <1>2, <1>3, <1>4, Zenon DEF FromAt

(* There is a function that satisfies the definition of From: if not on    *)
(* all of 0 .. Cap, then on some least 0 .. n not, and from one on 0 .. n  *)
(* - 1 it can be made.                                                     *)
LEMMA FromIs ==
  ASSUME head \in Cursor
  PROVE  From = [u \in 0 .. Cap |-> FromAt(From, u)]
<1> USE SpscRingAssumption DEF SpscRingAssumption
<1> DEFINE Good(n) == \E f : f = [u \in 0 .. n |-> FromAt(f, u)]
           Bad == {n \in Nat : ~Good(n)}
<1> HIDE DEF Good
<1>1. Bad = {}
  <2> SUFFICES ASSUME Bad # {} PROVE FALSE
    OBVIOUS
  <2>1. PICK n \in Bad : \A k \in Bad : n <= k
    BY Least
  <2>2. CASE n = 0
    <3> DEFINE f == [u \in 0 .. 0 |-> << >>]
    <3>1. \A u \in 0 .. 0 : FromAt(f, u) = << >>
      BY DEF FromAt
    <3>2. f = [u \in 0 .. 0 |-> FromAt(f, u)]
      BY <3>1
    <3> QED
      BY <2>2, <3>2 DEF Good
  <2>3. CASE n # 0
    <3>1. n - 1 \in Nat /\ n \in Nat /\ n - 1 < n
      BY <2>3
    <3>2. Good(n - 1)
      BY <2>1, <3>1
    <3>3. PICK f : f = [u \in 0 .. n - 1 |-> FromAt(f, u)]
      BY <3>2 DEF Good
    <3> DEFINE g == [u \in 0 .. n |-> IF u < n THEN f[u] ELSE FromAt(f, n)]
    <3>4. ASSUME NEW u \in 0 .. n PROVE g[u] = FromAt(g, u)
      <4>1. \A v \in 0 .. u - 1 : f[v] = g[v]
        BY <3>1
      <4>2. FromAt(f, u) = FromAt(g, u)
        <5> HIDE DEF g
        <5> QED
          BY <3>1, <4>1, FromAtLess
      <4>3. g[u] = FromAt(f, u)
        BY <3>1, <3>3
      <4> QED
        BY <4>2, <4>3
    <3>5. g = [u \in 0 .. n |-> FromAt(g, u)]
      BY <3>4
    <3> QED
      BY <3>5 DEF Good
  <2> QED
    BY <2>2, <2>3
<1>2. Good(Cap)
  BY <1>1
<1>3. \E f : f = [u \in 0 .. Cap |-> FromAt(f, u)]
  BY <1>2 DEF Good
<1> QED
  BY <1>3, Zenon DEF From, FromAt

-----------------------------------------------------------------------------
(* The records in the ring.                                                *)

(* The record r begins u bytes before head and ends v bytes before it:     *)
(* where it was copied, or behind a sentinel at the start of the data.     *)
Slot(h, m, r, u, v) ==
  LET o == Back(h, u)
  IN \/ /\ o + Need(r.size) <= Cap
        /\ u = v + Need(r.size)
        /\ Whole(m, o, r)
     \/ /\ o + Need(r.size) > Cap
        /\ u = v + (Cap - o) + Need(r.size)
        /\ Mark(m, o) /\ Whole(m, 0, r)

(* The records of q lie one after the other in the b bytes before head, at *)
(* the distances u from it. Distances rather than offsets are kept because *)
(* a push changes them all alike and no wrap changes them.                 *)
Layout(h, m, b, q, u) ==
  /\ q \in Seq(Record)
  /\ u \in [1 .. Len(q) + 1 -> 0 .. b]
  /\ u[1] = b /\ u[Len(q) + 1] = 0
  /\ \A i, j \in 1 .. Len(q) + 1 : i <= j => u[j] <= u[i]
  /\ \A i \in 1 .. Len(q) : Slot(h, m, q[i], u[i], u[i + 1])

(* A record has a body, and takes more than its prefix.                    *)
LEMMA SizeOf ==
  ASSUME NEW r \in Record
  PROVE  r.size \in Sizes /\ r.size \in Nat \ {0} /\ Need(r.size) \in Nat /\ Need(r.size) > Hdr
<1>1. r.size \in Sizes
  BY DEF Record
<1>2. PICK n \in Nat \ {0} : n = r.size
  BY <1>1, SpscRingAssumption DEF SpscRingAssumption
<1>3. Need(n) \in Nat /\ Need(n) > Hdr
  BY SpscRingAssumption DEF SpscRingAssumption, Need
<1> QED
  BY <1>1, <1>2, <1>3, Zenon

(* Reading from where a record begins gives that record, then what         *)
(* follows.                                                                *)
LEMMA FromSlot ==
  ASSUME head \in Cursor, NEW r \in Record, NEW u \in 0 .. Cap, NEW v \in 0 .. Cap,
         Slot(Pos(head), mem, r, u, v)
  PROVE  From[u] = <<r>> \o From[v]
<1> USE SpscRingAssumption DEF SpscRingAssumption
<1>1. PICK o \in 0 .. Cap - 1 : o = Pos(head - u)
  <2>1. head - u \in Int
    BY DEF Cursor
  <2> QED
    BY <2>1, PosRange
<1>2. o = Back(Pos(head), u)
  BY <1>1, PosBack
<1>3. PICK n \in Nat \ {0} : n = r.size
  BY SizeOf
<1>4. Need(n) \in Nat /\ Need(n) > 0 /\ Need(n) = n + Hdr
  BY DEF Need
<1>5. \A w \in 0 .. Cap : From[w] = FromAt(From, w)
  BY FromIs, Zenon
<1>6. ASSUME NEW w \in 0 .. Cap, NEW p \in 0 .. Cap - 1, p = Pos(head - w),
             p + Need(n) <= Cap, w = v + Need(n), Whole(mem, p, r)
      PROVE  From[w] = <<r>> \o From[v]
  <2>1. LenAt(p) = n /\ BodyAt(p + Hdr, n) = r
    BY <1>3, <1>6, ReadWhole
  <2>2. w # 0 /\ n # 0 /\ n > 0 /\ Need(n) <= w /\ w - Need(n) = v
    BY <1>4, <1>6
  <2>3. FromAt(From, w) = <<r>> \o From[v]
    BY <1>6, <2>1, <2>2, Zenon DEF FromAt
  <2> QED
    BY <1>5, <2>3, Zenon
<1>7. CASE o + Need(n) <= Cap /\ u = v + Need(n) /\ Whole(mem, o, r)
  BY <1>1, <1>6, <1>7
<1>8. CASE /\ o + Need(n) > Cap /\ u = v + (Cap - o) + Need(n)
           /\ Mark(mem, o) /\ Whole(mem, 0, r)
  <2>1. PICK w \in 0 .. Cap : w = u - (Cap - o)
    BY <1>4, <1>8
  <2>2. w = v + Need(n) /\ u # 0 /\ Cap - o < u /\ Need(n) <= Cap
    BY <1>4, <1>8, <2>1
  <2>3. Pos(head - w) = 0
    <3>1. Pos(head - w) = Back(Pos(head), w)
      BY PosBack
    <3>2. Pos(head) \in 0 .. Cap - 1
      BY PosRange DEF Cursor
    <3>3. Back(Pos(head), w) = 0
      BY <1>2, <2>1, <2>2, <3>2 DEF Back
    <3> QED
      BY <3>1, <3>3
  <2>4. From[w] = <<r>> \o From[v]
    <3>1. 0 \in 0 .. Cap - 1 /\ 0 + Need(n) <= Cap
      BY <1>4, <2>2
    <3> QED
      BY <1>6, <1>8, <2>2, <2>3, <3>1, Zenon
  <2>5. LenAt(o) = 0
    BY <1>8, Zenon DEF LenAt, Mark
  <2>6. FromAt(From, u) = From[w]
    BY <1>1, <2>1, <2>2, <2>5, Zenon DEF FromAt
  <2> QED
    BY <1>5, <2>4, <2>6, Zenon
<1> QED
  BY <1>2, <1>3, <1>7, <1>8, Zenon DEF Slot

(* Reading from tail gives exactly the records that lie there. By the      *)
(* smallest suffix of q of which it were wrong.                            *)
LEMMA FromLayout ==
  ASSUME head \in Cursor, NEW b \in 0 .. Cap, NEW q, NEW u, Layout(Pos(head), mem, b, q, u)
  PROVE  From[b] = q
<1> USE SpscRingAssumption DEF SpscRingAssumption
<1>1. /\ q \in Seq(Record) /\ Len(q) \in Nat
      /\ u \in [1 .. Len(q) + 1 -> 0 .. Cap] /\ u[1] = b /\ u[Len(q) + 1] = 0
      /\ \A i \in 1 .. Len(q) : Slot(Pos(head), mem, q[i], u[i], u[i + 1])
  BY DEF Layout
<1> DEFINE Good(i) == From[u[i]] = SubSeq(q, i, Len(q))
           Bad == {k \in Nat : k <= Len(q) /\ ~Good(Len(q) + 1 - k)}
<1> HIDE DEF Good
<1>2. Bad = {}
  <2> SUFFICES ASSUME Bad # {} PROVE FALSE
    OBVIOUS
  <2>1. PICK k \in Bad : \A l \in Bad : k <= l
    BY Least
  <2>2. CASE k = 0
    <3>1. Len(q) + 1 - k = Len(q) + 1
      BY <1>1, <2>2
    <3>2. From[0] = << >>
      <4>1. 0 \in 0 .. Cap
        OBVIOUS
      <4>2. From[0] = FromAt(From, 0)
        BY <4>1, FromIs, Zenon
      <4> QED
        BY <4>2, Zenon DEF FromAt
    <3>3. SubSeq(q, Len(q) + 1, Len(q)) = << >>
      BY <1>1, SubSeqEmpty
    <3>4. Good(Len(q) + 1)
      BY <1>1, <3>2, <3>3, Zenon DEF Good
    <3> QED
      BY <3>1, <3>4
  <2>3. CASE k # 0
    <3>1. PICK i \in 1 .. Len(q) : i = Len(q) + 1 - k
      BY <1>1, <2>3
    <3>2. k - 1 \in Nat /\ k - 1 <= Len(q) /\ k - 1 < k /\ Len(q) + 1 - (k - 1) = i + 1
      BY <1>1, <2>3, <3>1
    <3>3. Good(i + 1)
      BY <2>1, <3>2
    <3>4. q[i] \in Record /\ u[i] \in 0 .. Cap /\ u[i + 1] \in 0 .. Cap
      <4>1. i \in 1 .. Len(q) + 1 /\ i + 1 \in 1 .. Len(q) + 1
        BY <1>1
      <4> QED
        BY <1>1, <4>1, ElementOfSeq, Zenon
    <3>5. From[u[i]] = <<q[i]>> \o From[u[i + 1]]
      <4>1. Slot(Pos(head), mem, q[i], u[i], u[i + 1])
        BY <1>1, Zenon
      <4> QED
        BY <3>4, <4>1, FromSlot, ZenonT(30)
    <3>6. SubSeq(q, i, Len(q)) = <<q[i]>> \o SubSeq(q, i + 1, Len(q))
      BY <1>1, <3>1, SubSeqRecursiveFirst
    <3>7. Good(i)
      BY <3>3, <3>5, <3>6, Zenon DEF Good
    <3> QED
      BY <3>1, <3>7
  <2> QED
    BY <2>2, <2>3
<1>3. Good(1)
  <2>1. Len(q) \in Nat /\ Len(q) <= Len(q) /\ Len(q) + 1 - Len(q) = 1
    BY <1>1
  <2> QED
    BY <1>2, <2>1
<1>4. SubSeq(q, 1, Len(q)) = q
  BY <1>1, SubSeqFull
<1> QED
  BY <1>1, <1>3, <1>4, Zenon DEF Good

(* What the records take, framing included, is no more than the distances  *)
(* they span: sentinels only add to it.                                    *)
LEMMA BytesBound ==
  ASSUME NEW q \in Seq(Record), NEW u \in [1 .. Len(q) + 1 -> Nat],
         \A i \in 1 .. Len(q) : u[i + 1] + Need(q[i].size) <= u[i]
  PROVE  Queue!Bytes(q) \in Nat /\ Queue!Bytes(q) <= u[1]
<1> USE SpscRingAssumption DEF SpscRingAssumption
<1> DEFINE Sum(f, i) == IF i = 0 THEN 0 ELSE f[i - 1] + q[i].size + Hdr
           Good(n) == \E f : f = [i \in 0 .. n |-> Sum(f, i)]
           Bad == {n \in Nat : ~Good(n)}
<1> HIDE DEF Good
<1>0. Len(q) \in Nat
  OBVIOUS
<1>1. Bad = {}
  <2> SUFFICES ASSUME Bad # {} PROVE FALSE
    OBVIOUS
  <2>1. PICK n \in Bad : \A k \in Bad : n <= k
    BY Least
  <2>2. CASE n = 0
    <3> DEFINE f == [i \in 0 .. 0 |-> 0]
    <3>1. f = [i \in 0 .. 0 |-> Sum(f, i)]
      OBVIOUS
    <3> QED
      BY <2>2, <3>1 DEF Good
  <2>3. CASE n # 0
    <3>1. n - 1 \in Nat /\ n \in Nat /\ n - 1 < n
      BY <2>3
    <3>2. Good(n - 1)
      BY <2>1, <3>1
    <3>3. PICK f : f = [i \in 0 .. n - 1 |-> Sum(f, i)]
      BY <3>2 DEF Good
    <3> DEFINE g == [i \in 0 .. n |-> IF i < n THEN f[i] ELSE Sum(f, n)]
    <3>4. ASSUME NEW i \in 0 .. n PROVE g[i] = Sum(g, i)
      <4>1. i # 0 => g[i - 1] = f[i - 1]
        BY <3>1
      <4>2. g[i] = Sum(f, i)
        BY <3>1, <3>3
      <4> QED
        BY <4>1, <4>2
    <3>5. g = [i \in 0 .. n |-> Sum(g, i)]
      BY <3>4
    <3> QED
      BY <3>5 DEF Good
  <2> QED
    BY <2>2, <2>3
<1>2. Good(Len(q))
  BY <1>0, <1>1
<1>3. \E f : f = [i \in 0 .. Len(q) |-> Sum(f, i)]
  BY <1>2 DEF Good
<1>4. PICK sum : /\ sum = [i \in 0 .. Len(q) |-> Sum(sum, i)]
                 /\ Queue!Bytes(q) = sum[Len(q)]
  BY <1>3, Zenon DEF Queue!Bytes
<1>5. \A i \in 0 .. Len(q) : sum[i] = Sum(sum, i)
  BY <1>4, Zenon
<1> DEFINE Below(i) == sum[i] \in Nat /\ sum[i] + u[i + 1] <= u[1]
           Over == {n \in Nat : n <= Len(q) /\ ~Below(n)}
<1> HIDE DEF Below, Sum
<1>6. Over = {}
  <2> SUFFICES ASSUME Over # {} PROVE FALSE
    OBVIOUS
  <2>1. PICK n \in Over : \A k \in Over : n <= k
    BY Least
  <2>2. n \in 0 .. Len(q) /\ n \in Nat
    BY <1>0
  <2>3. CASE n = 0
    <3>1. sum[0] = 0
      BY <1>5, <2>2, <2>3 DEF Sum
    <3>2. u[1] \in Nat
      BY <1>0
    <3> QED
      BY <2>3, <3>1, <3>2 DEF Below
  <2>4. CASE n # 0
    <3>1. n - 1 \in Nat /\ n - 1 <= Len(q) /\ n - 1 < n /\ (n - 1) + 1 = n
      BY <2>2, <2>4
    <3>2. Below(n - 1)
      BY <2>1, <3>1
    <3>3. PICK s \in Nat, v \in Nat, x \in Nat, y \in Nat :
             s = sum[n - 1] /\ v = u[n] /\ x = u[1] /\ y = u[n + 1]
      <4>1. n \in 1 .. Len(q) + 1 /\ n + 1 \in 1 .. Len(q) + 1 /\ 1 \in 1 .. Len(q) + 1
        BY <1>0, <2>2, <2>4
      <4>2. u[n] \in Nat /\ u[n + 1] \in Nat /\ u[1] \in Nat
        BY <4>1, Zenon
      <4> QED
        BY <3>2, <4>2 DEF Below
    <3>4. s + v <= x
      BY <3>1, <3>2, <3>3 DEF Below
    <3>5. PICK z \in Nat : z = q[n].size
      <4>1. q[n] \in Record
        BY <1>0, <2>2, <2>4, ElementOfSeq
      <4> QED
        BY <4>1, SizeOf
    <3>6. y + Need(z) <= v
      <4>1. n \in 1 .. Len(q)
        BY <2>2, <2>4
      <4> QED
        BY <3>3, <3>5, <4>1, Zenon
    <3>7. sum[n] = s + z + Hdr
      BY <1>5, <2>2, <2>4, <3>3, <3>5, Zenon DEF Sum
    <3>8. Below(n)
      <4>1. s + z + Hdr \in Nat /\ (s + z + Hdr) + y <= x
        BY <3>4, <3>6 DEF Need
      <4> QED
        BY <3>3, <3>7, <4>1, Zenon DEF Below
    <3> QED
      BY <3>8
  <2> QED
    BY <2>3, <2>4
<1>7. Below(Len(q))
  BY <1>0, <1>6
<1>8. u[Len(q) + 1] \in Nat /\ u[1] \in Nat
  BY <1>0
<1> QED
  BY <1>4, <1>7, <1>8 DEF Below

(* Each record lies within its distances; the ring is empty just when      *)
(* there is no record.                                                     *)
LEMMA Shape ==
  ASSUME NEW h, NEW m, NEW b \in 0 .. Cap, NEW q, NEW u, Layout(h, m, b, q, u),
         h \in 0 .. Cap - 1
  PROVE  /\ q \in Seq(Record) /\ Len(q) \in Nat
         /\ b \in Nat /\ u \in [1 .. Len(q) + 1 -> Nat]
         /\ \A i \in 1 .. Len(q) : u[i + 1] + Need(q[i].size) <= u[i]
         /\ b = 0 <=> Len(q) = 0
<1> USE SpscRingAssumption DEF SpscRingAssumption
<1>1. /\ q \in Seq(Record) /\ Len(q) \in Nat
      /\ u \in [1 .. Len(q) + 1 -> 0 .. b] /\ u[1] = b /\ u[Len(q) + 1] = 0
      /\ \A i \in 1 .. Len(q) : Slot(h, m, q[i], u[i], u[i + 1])
  BY DEF Layout
<1>2. ASSUME NEW i \in 1 .. Len(q)
      PROVE  u[i + 1] + Need(q[i].size) <= u[i] /\ u[i] > 0
  <2>1. i \in 1 .. Len(q) + 1 /\ i + 1 \in 1 .. Len(q) + 1
    BY <1>1
  <2>2. q[i] \in Record
    BY <1>1, ElementOfSeq
  <2>3. PICK n \in Nat : n = Need(q[i].size) /\ n > 0
    <3>1. Need(q[i].size) \in Nat /\ Need(q[i].size) > Hdr
      BY <2>2, SizeOf
    <3> QED
      BY <3>1
  <2>4. PICK v \in 0 .. b, w \in 0 .. b : v = u[i] /\ w = u[i + 1]
    BY <1>1, <2>1
  <2>5. PICK o \in 0 .. Cap - 1 : o = Back(h, v)
    <3>1. Back(h, v) \in 0 .. Cap - 1
      BY DEF Back
    <3> QED
      BY <3>1
  <2>6. v = w + n \/ v = w + (Cap - o) + n
    BY <1>1, <2>3, <2>4, <2>5, Zenon DEF Slot
  <2>7. w + n <= v /\ v > 0
    BY <2>3, <2>6
  <2> QED
    BY <2>3, <2>4, <2>7, Zenon
<1>3. b = 0 <=> Len(q) = 0
  BY <1>1, <1>2
<1> QED
  BY <1>1, <1>2, <1>3

(* All distances of u have grown by n.                                     *)
Farther(w, u, n) == \A i \in DOMAIN u : w[i] = u[i] + n

(* The head moves by the bytes of one record.                              *)
LEMMA Grown ==
  ASSUME NEW h \in 0 .. Cap - 1, NEW m, NEW b \in 0 .. Cap, NEW q, NEW u,
         Layout(h, m, b, q, u), NEW r \in Record, NEW n \in 0 .. Cap, b + n <= Cap,
         Slot(Fore(h, n), m, r, n, 0)
  PROVE  \E w : /\ Layout(Fore(h, n), m, b + n, Append(q, r), w)
               /\ Farther(w, u, n)
<1> USE SpscRingAssumption DEF SpscRingAssumption
<1> DEFINE N == Len(q)
           w == [i \in 1 .. N + 2 |-> IF i <= N + 1 THEN u[i] + n ELSE 0]
<1>0. PICK k \in 0 .. Cap - 1 : k = Fore(h, n)
  <2>1. Fore(h, n) \in 0 .. Cap - 1
    BY DEF Fore
  <2> QED
    BY <2>1
<1>1. /\ q \in Seq(Record) /\ N \in Nat
      /\ u \in [1 .. N + 1 -> 0 .. b] /\ u[1] = b /\ u[N + 1] = 0
      /\ \A i, j \in 1 .. N + 1 : i <= j => u[j] <= u[i]
      /\ \A i \in 1 .. N : Slot(h, m, q[i], u[i], u[i + 1])
  BY DEF Layout
<1>2. /\ Append(q, r) \in Seq(Record) /\ Len(Append(q, r)) = N + 1
      /\ Append(q, r)[N + 1] = r /\ \A i \in 1 .. N : Append(q, r)[i] = q[i]
  BY <1>1
<1>3. w \in [1 .. N + 2 -> 0 .. b + n] /\ w[1] = b + n /\ w[N + 2] = 0 /\ w[N + 1] = n
  BY <1>1
<1>4. ASSUME NEW i \in 1 .. N + 2, NEW j \in 1 .. N + 2, i <= j
      PROVE  w[j] <= w[i]
  <2>1. CASE j = N + 2
    BY <1>3, <2>1
  <2>2. CASE j # N + 2
    <3>1. i \in 1 .. N + 1 /\ j \in 1 .. N + 1
      BY <1>1, <1>4, <2>2
    <3>2. u[j] <= u[i] /\ u[i] \in 0 .. b /\ u[j] \in 0 .. b
      BY <1>1, <1>4, <3>1, Zenon
    <3>3. w[i] = u[i] + n /\ w[j] = u[j] + n
      BY <1>1, <3>1
    <3> HIDE DEF w
    <3> QED
      BY <3>2, <3>3
  <2> QED
    BY <2>1, <2>2
<1>5. ASSUME NEW i \in 1 .. N
      PROVE  Slot(k, m, q[i], w[i], w[i + 1])
  <2>1. i \in 1 .. N + 1 /\ i + 1 \in 1 .. N + 1
    BY <1>1
  <2>2. PICK x \in 0 .. b, y \in 0 .. b : x = u[i] /\ y = u[i + 1]
    BY <1>1, <2>1
  <2>3. w[i] = x + n /\ w[i + 1] = y + n
    BY <2>1, <2>2
  <2>4. Slot(h, m, q[i], x, y)
    BY <1>1, <2>2, Zenon
  <2>5. Back(k, x + n) = Back(h, x)
    BY <1>0 DEF Back, Fore
  <2>6. PICK o \in Int : o = Back(h, x)
    <3>1. Back(h, x) \in Int
      BY DEF Back
    <3> QED
      BY <3>1
  <2>7. PICK z \in Nat : z = Need(q[i].size)
    <3>1. q[i] \in Record
      BY <1>1, ElementOfSeq
    <3> QED
      BY <3>1, SizeOf
  <2>8. /\ x = y + z => x + n = (y + n) + z
        /\ x = y + (Cap - o) + z => x + n = (y + n) + (Cap - o) + z
    OBVIOUS
  <2>9. Slot(k, m, q[i], x + n, y + n)
    BY <2>4, <2>5, <2>6, <2>7, <2>8, Zenon DEF Slot
  <2> QED
    BY <2>3, <2>9, Zenon
<1>6. ASSUME NEW i \in 1 .. N + 1
      PROVE  Slot(k, m, Append(q, r)[i], w[i], w[i + 1])
  <2>1. CASE i = N + 1
    <3>1. Append(q, r)[i] = r /\ w[i] = n /\ w[i + 1] = 0
      BY <1>1, <1>2, <1>3, <2>1
    <3> QED
      BY <1>0, <3>1, Zenon
  <2>2. CASE i # N + 1
    <3>1. i \in 1 .. N
      BY <1>1, <2>2
    <3> QED
      BY <1>2, <1>5, <3>1, Zenon
  <2> QED
    BY <2>1, <2>2
<1>7. Farther(w, u, n)
  BY <1>1 DEF Farther
<1> HIDE DEF w
<1>8. Layout(k, m, b + n, Append(q, r), w)
  <2>1. N + 1 + 1 = N + 2
    BY <1>1
  <2> QED
    BY <1>2, <1>3, <1>4, <1>6, <2>1, Zenon DEF Layout
<1> QED
  BY <1>0, <1>7, <1>8, Zenon

(* The tail moves past the first record.                                   *)
LEMMA Shrunk ==
  ASSUME NEW h, NEW m, NEW b \in 0 .. Cap, NEW q, NEW u,
         Layout(h, m, b, q, u), Len(q) >= 1
  PROVE  /\ \E w : Layout(h, m, u[2], Tail(q), w)
         /\ Head(q) = q[1] /\ q # << >> /\ u[2] \in 0 .. b
<1> DEFINE N == Len(q)
           w == [i \in 1 .. N |-> u[i + 1]]
<1>1. /\ q \in Seq(Record) /\ N \in Nat /\ N >= 1
      /\ u \in [1 .. N + 1 -> 0 .. b] /\ u[1] = b /\ u[N + 1] = 0
      /\ \A i, j \in 1 .. N + 1 : i <= j => u[j] <= u[i]
      /\ \A i \in 1 .. N : Slot(h, m, q[i], u[i], u[i + 1])
  BY DEF Layout
<1>2. /\ q # << >> /\ Head(q) = q[1]
      /\ Tail(q) \in Seq(Record) /\ Len(Tail(q)) = N - 1
      /\ \A i \in 1 .. N - 1 : Tail(q)[i] = q[i + 1]
  BY <1>1
<1>3. \A i \in 1 .. N : i + 1 \in 1 .. N + 1 /\ w[i] = u[i + 1]
  BY <1>1
<1>4. u[2] \in 0 .. b /\ \A i \in 1 .. N : w[i] \in 0 .. u[2]
  <2>1. 2 \in 1 .. N + 1
    BY <1>1
  <2>2. ASSUME NEW i \in 1 .. N PROVE u[i + 1] \in 0 .. u[2]
    <3>1. i + 1 \in 1 .. N + 1 /\ 2 <= i + 1
      BY <1>1
    <3>2. u[i + 1] <= u[2] /\ u[i + 1] \in 0 .. b /\ u[2] \in 0 .. b
      BY <1>1, <2>1, <3>1, Zenon
    <3> QED
      BY <3>2
  <2> QED
    BY <1>1, <1>3, <2>1, <2>2
<1>5. w \in [1 .. N -> 0 .. u[2]] /\ w[1] = u[2] /\ w[N] = 0
  BY <1>1, <1>3, <1>4
<1>6. ASSUME NEW i \in 1 .. N, NEW j \in 1 .. N, i <= j
      PROVE  w[j] <= w[i]
  <2>1. i + 1 \in 1 .. N + 1 /\ j + 1 \in 1 .. N + 1 /\ i + 1 <= j + 1
    BY <1>1, <1>6
  <2>2. u[j + 1] <= u[i + 1]
    BY <1>1, <2>1, Zenon
  <2> QED
    BY <1>3, <2>2, Zenon
<1>7. ASSUME NEW i \in 1 .. N - 1
      PROVE  Slot(h, m, Tail(q)[i], w[i], w[i + 1])
  <2>1. i + 1 \in 1 .. N /\ i \in 1 .. N
    BY <1>1
  <2>2. Slot(h, m, q[i + 1], u[i + 1], u[i + 1 + 1])
    BY <1>1, <2>1, Zenon
  <2>3. w[i] = u[i + 1] /\ w[i + 1] = u[i + 1 + 1]
    BY <1>3, <2>1, Zenon
  <2> QED
    BY <1>2, <2>2, <2>3, Zenon
<1> HIDE DEF w
<1>8. Layout(h, m, u[2], Tail(q), w)
  <2>1. N - 1 + 1 = N
    BY <1>1
  <2> QED
    BY <1>2, <1>5, <1>6, <1>7, <2>1, Zenon DEF Layout
<1> QED
  BY <1>2, <1>4, <1>8

(* A sentinel takes the bytes to the end of the data, and what follows it  *)
(* begins at offset 0.                                                     *)
LEMMA LapBytes ==
  ASSUME NEW h \in 0 .. Cap - 1, NEW b \in 0 .. Cap, NEW o \in 0 .. Cap - 1, o = Back(h, b),
         NEW x \in 0 .. b, NEW z \in Nat, b = x + (Cap - o) + z
  PROVE  \E c \in 0 .. b : /\ c = b - (Cap - o) /\ c = x + z /\ x <= c
                           /\ 0 + z <= Cap /\ Back(h, c) = 0
<1> USE Room
<1>1. PICK c \in 0 .. b : c = b - (Cap - o)
  OBVIOUS
<1>2. c = x + z /\ x <= c /\ 0 + z <= Cap
  <2>1. PICK y \in 1 .. Cap : y = Cap - o
    OBVIOUS
  <2>2. b = x + y + z /\ c = b - y
    BY <1>1, <2>1, Zenon
  <2>3. c = x + z
    BY <2>2
  <2> QED
    BY <2>2, <2>3
<1>3. Back(h, c) = 0
  BY <1>1 DEF Back
<1> QED
  BY <1>1, <1>2, <1>3

(* A sentinel at the tail is passed.                                       *)
LEMMA Skipped ==
  ASSUME NEW h \in 0 .. Cap - 1, NEW m, NEW b \in 0 .. Cap, NEW q, NEW u,
         Layout(h, m, b, q, u), Len(q) >= 1, NEW o \in 0 .. Cap - 1, o = Back(h, b),
         NEW x \in 0 .. b, NEW z \in Nat, x = u[2], z = Need(q[1].size),
         b = x + (Cap - o) + z, Whole(m, 0, q[1])
  PROVE  /\ b - (Cap - o) \in 0 .. b
         /\ \E w : Layout(h, m, b - (Cap - o), q, w)
<1> DEFINE N == Len(q)
<1>0. /\ q \in Seq(Record) /\ u \in [1 .. N + 1 -> 0 .. b] /\ u[1] = b /\ u[N + 1] = 0
      /\ \A i, j \in 1 .. N + 1 : i <= j => u[j] <= u[i]
      /\ \A i \in 1 .. N : Slot(h, m, q[i], u[i], u[i + 1])
  BY Zenon DEF Layout
<1>1. N \in Nat /\ N >= 1
  <2>1. N \in Nat
    BY <1>0, LenProperties
  <2> QED
    BY <2>1
<1>2. 2 \in 1 .. N + 1
  BY <1>1
<1>3. PICK c \in 0 .. b : /\ c = b - (Cap - o) /\ c = x + z /\ x <= c
                         /\ 0 + z <= Cap /\ Back(h, c) = 0
  BY LapBytes
<1> DEFINE w == [i \in 1 .. N + 1 |-> IF i = 1 THEN c ELSE u[i]]
<1>7. \A i \in 2 .. N + 1 : i \in 1 .. N + 1 /\ w[i] = u[i] /\ u[i] \in 0 .. c
  <2>1. ASSUME NEW i \in 2 .. N + 1
        PROVE  i \in 1 .. N + 1 /\ w[i] = u[i] /\ u[i] \in 0 .. c
    <3>1. i \in 1 .. N + 1 /\ 2 <= i /\ i # 1
      BY <1>1
    <3>2. u[i] <= x /\ u[i] \in 0 .. b
      BY <1>0, <1>2, <3>1, Zenon
    <3>3. u[i] \in 0 .. c
      BY <1>3, <3>2
    <3> QED
      BY <3>1, <3>3
  <2> QED
    BY <2>1
<1>8. 1 \in 1 .. N + 1 /\ w[1] = c
  BY <1>1
<1>9. \A i \in 1 .. N + 1 : i = 1 \/ i \in 2 .. N + 1
  BY <1>1
<1>10. w \in [1 .. N + 1 -> 0 .. c] /\ w[N + 1] = 0
  <2>1. \A i \in 1 .. N + 1 : w[i] \in 0 .. c
    <3>1. c \in 0 .. c
      OBVIOUS
    <3> QED
      BY <1>7, <1>8, <1>9, <3>1, Zenon
  <2>2. N + 1 \in 2 .. N + 1
    BY <1>1
  <2>3. w[N + 1] = 0
    BY <1>0, <1>7, <2>2, Zenon
  <2> QED
    BY <2>1, <2>3
<1>11. ASSUME NEW i \in 1 .. N + 1, NEW j \in 1 .. N + 1, i <= j
       PROVE  w[j] <= w[i]
  <2>1. CASE i = 1
    <3>1. w[j] \in 0 .. c
      BY <1>10
    <3> QED
      BY <1>8, <2>1, <3>1
  <2>2. CASE i # 1
    <3>1. j # 1
      BY <1>1, <1>11, <2>2
    <3>2. w[i] = u[i] /\ w[j] = u[j]
      BY <1>7, <1>9, <2>2, <3>1, Zenon
    <3>3. u[j] <= u[i]
      BY <1>0, <1>11, Zenon
    <3> QED
      BY <3>2, <3>3, Zenon
  <2> QED
    BY <2>1, <2>2
<1>12. ASSUME NEW i \in 1 .. N
       PROVE  Slot(h, m, q[i], w[i], w[i + 1])
  <2>1. CASE i = 1
    <3>1. i + 1 = 2 /\ 2 \in 2 .. N + 1
      BY <1>1, <2>1
    <3>2. w[i] = c /\ w[i + 1] = x
      BY <1>7, <1>8, <2>1, <3>1, Zenon
    <3>3. Slot(h, m, q[1], c, x)
      BY <1>3, Zenon DEF Slot
    <3> QED
      BY <2>1, <3>2, <3>3, Zenon
  <2>2. CASE i # 1
    <3>1. i \in 2 .. N + 1 /\ i + 1 \in 2 .. N + 1
      BY <1>1, <2>2
    <3> QED
      BY <1>0, <1>7, <3>1, Zenon
  <2> QED
    BY <2>1, <2>2
<1> HIDE DEF w
<1>13. Layout(h, m, c, q, w)
  BY <1>0, <1>8, <1>10, <1>11, <1>12, Zenon DEF Layout
<1> QED
  BY <1>3, <1>13, Zenon

(* Offsets that the b bytes before head, or the slack behind the data, lie *)
(* at: the ones a push must not touch.                                     *)
Keeps(h, b, o) ==
  o >= Cap \/ (IF o >= h THEN o - h ELSE o - h + Cap) >= Cap - b

(* The bytes of a record in use are among them.                            *)
LEMMA SlotKept ==
  ASSUME NEW h \in 0 .. Cap - 1, NEW b \in 0 .. Cap, NEW v \in 0 .. b,
         NEW o \in 0 .. Cap - 1, o = Back(h, v), NEW k \in Nat
  PROVE  /\ k < v => Keeps(h, b, o + k)
         /\ (Cap - o) + k < v => Keeps(h, b, k)
BY Room DEF Keeps, Back

(* Every byte of the prefix and of the body is one of the record's.        *)
LEMMA PartsOf ==
  ASSUME NEW s \in Nat, NEW z \in Nat, z = s + Hdr
  PROVE  /\ \A k \in 0 .. Hdr - 1 : k \in 0 .. z - 1
         /\ \A k \in 0 .. s - 1 : Hdr + k \in 0 .. z - 1
BY Room

(* A memory that agrees on those offsets has the same records.             *)
LEMMA Kept ==
  ASSUME NEW h \in 0 .. Cap - 1, NEW m, NEW mm, NEW b \in 0 .. Cap, NEW q, NEW u,
         Layout(h, m, b, q, u), \A o \in Offset : Keeps(h, b, o) => mm[o] = m[o]
  PROVE  Layout(h, mm, b, q, u)
<1> USE Room
<1>1. /\ q \in Seq(Record) /\ Len(q) \in Nat
      /\ u \in [1 .. Len(q) + 1 -> 0 .. b]
      /\ \A i \in 1 .. Len(q) : Slot(h, m, q[i], u[i], u[i + 1])
  BY DEF Layout
<1>2. ASSUME NEW i \in 1 .. Len(q)
      PROVE  Slot(h, mm, q[i], u[i], u[i + 1])
  <2>1. PICK v \in 0 .. b, w \in 0 .. b : v = u[i] /\ w = u[i + 1]
    <3>1. i \in 1 .. Len(q) + 1 /\ i + 1 \in 1 .. Len(q) + 1
      BY <1>1
    <3> QED
      BY <1>1, <3>1
  <2>2. PICK o \in 0 .. Cap - 1 : o = Back(h, v)
    <3>1. Back(h, v) \in 0 .. Cap - 1
      BY DEF Back
    <3> QED
      BY <3>1
  <2>3. PICK s \in Nat, z \in Nat : s = q[i].size /\ z = Need(q[i].size) /\ z = s + Hdr /\ s > 0
    <3>1. q[i] \in Record
      BY <1>1, ElementOfSeq
    <3>2. q[i].size \in Nat \ {0} /\ Need(q[i].size) \in Nat
      BY <3>1, SizeOf
    <3> QED
      BY <3>2 DEF Need
  <2>4. Slot(h, m, q[i], v, w)
    BY <1>1, <2>1, Zenon
  <2>5. CASE o + z <= Cap /\ v = w + z /\ Whole(m, o, q[i])
    <3>1. ASSUME NEW k \in 0 .. z - 1 PROVE mm[o + k] = m[o + k]
      <4>1. o + k \in Offset
        BY <2>5 DEF Offset
      <4>2. Keeps(h, b, o + k)
        <5>1. k \in Nat /\ k < v
          BY <2>5
        <5> QED
          BY <2>2, <5>1, SlotKept
      <4> QED
        BY <4>1, <4>2
    <3>2. ASSUME NEW k \in 0 .. Hdr - 1 PROVE mm[o + k] = m[o + k]
      <4>1. k \in 0 .. z - 1
        BY <2>3, PartsOf, Zenon
      <4> QED
        BY <3>1, <4>1, Zenon
    <3>3. ASSUME NEW k \in 0 .. s - 1 PROVE mm[o + Hdr + k] = m[o + Hdr + k]
      <4>1. Hdr + k \in 0 .. z - 1 /\ o + Hdr + k = o + (Hdr + k)
        <5>1. Hdr + k \in 0 .. z - 1
          BY <2>3, PartsOf, Zenon
        <5>2. o + Hdr + k = o + (Hdr + k)
          OBVIOUS
        <5> QED
          BY <5>1, <5>2
      <4> QED
        BY <3>1, <4>1, Zenon
    <3>4. Whole(mm, o, q[i])
      BY <2>3, <2>5, <3>2, <3>3, Zenon DEF Whole
    <3> QED
      BY <2>1, <2>2, <2>3, <2>5, <3>4, Zenon DEF Slot
  <2>6. CASE /\ o + z > Cap /\ v = w + (Cap - o) + z
             /\ Mark(m, o) /\ Whole(m, 0, q[i])
    <3>1. ASSUME NEW k \in 0 .. z - 1 PROVE mm[0 + k] = m[0 + k]
      <4>1. k \in Offset /\ 0 + k = k
        BY <2>6 DEF Offset
      <4>2. Keeps(h, b, k)
        <5>1. k \in Nat /\ k < z /\ v = w + (Cap - o) + z
          BY <2>6
        <5>2. (Cap - o) + k < v
          BY <5>1
        <5> QED
          BY <2>2, <5>1, SlotKept
      <4> QED
        BY <4>1, <4>2
    <3>2. ASSUME NEW k \in 0 .. Hdr - 1 PROVE mm[0 + k] = m[0 + k]
      <4>1. k \in 0 .. z - 1
        BY <2>3, PartsOf, Zenon
      <4> QED
        BY <3>1, <4>1, Zenon
    <3>3. ASSUME NEW k \in 0 .. s - 1 PROVE mm[0 + Hdr + k] = m[0 + Hdr + k]
      <4>1. Hdr + k \in 0 .. z - 1 /\ 0 + Hdr + k = 0 + (Hdr + k)
        <5>1. Hdr + k \in 0 .. z - 1
          BY <2>3, PartsOf, Zenon
        <5>2. 0 + Hdr + k = 0 + (Hdr + k)
          OBVIOUS
        <5> QED
          BY <5>1, <5>2
      <4> QED
        BY <3>1, <4>1, Zenon
    <3>4. Whole(mm, 0, q[i])
      BY <2>3, <2>6, <3>2, <3>3, Zenon DEF Whole
    <3>5. ASSUME NEW k \in 0 .. Hdr - 1 PROVE mm[o + k] = m[o + k]
      <4>1. o + k \in Offset
        BY DEF Offset
      <4>2. Keeps(h, b, o + k)
        <5>1. k \in Nat /\ k < v
          <6>1. PICK y \in Nat : y = Cap - o
            OBVIOUS
          <6>2. v = w + y + z /\ z = s + Hdr
            BY <2>3, <2>6, <6>1, Zenon
          <6> QED
            BY <6>2
        <5> QED
          BY <2>2, <5>1, SlotKept
      <4> QED
        BY <4>1, <4>2
    <3>6. Mark(mm, o)
      BY <2>6, <3>5, Zenon DEF Mark
    <3> QED
      BY <2>1, <2>2, <2>3, <2>6, <3>4, <3>6, Zenon DEF Slot
  <2> QED
    BY <2>2, <2>3, <2>4, <2>5, <2>6, Zenon DEF Slot
<1> QED
  BY <1>2, Zenon DEF Layout

-----------------------------------------------------------------------------
(* The producer: space, place and copy.                                    *)

(* What a byte of memory may be.                                           *)
Cells == {Zero} \cup {LenByte(n, i) : n \in Sizes, i \in 0 .. Hdr - 1}
                \cup {Byte(id, i) : id \in Ids, i \in 0 .. Cap - 1}

(* The offset head will have after n more bytes.                           *)
Ahead(n) == Fore(Pos(head), n)

(* The producer. Between its space check and its publish the space it      *)
(* found is still there; after its copy the record is in memory, whole,    *)
(* just where the publish will put head behind it.                         *)
PushInv ==
  /\ Used <= Cap
  /\ \A o \in Offset : o >= Cap => mem[o] = Zero
  /\ ppc # "idle" => /\ pmsg \in Record
                     /\ pmsg.size <= Cap - Hdr
                     /\ Used + Required(pmsg.size) <= Cap
  /\ ppc = "publish" =>
       Slot(Ahead(Required(pmsg.size)), mem, pmsg, Required(pmsg.size), 0)

LEMMA CellKinds ==
  /\ \A n \in Sizes, i \in 0 .. Hdr - 1 : LenByte(n, i) \in Cells
  /\ \A id \in Ids, i \in 0 .. Cap - 1 : Byte(id, i) \in Cells
BY DEF Cells

(* Where the record of a push goes, and how far head will move: with       *)
(* padding the record starts at 0 and stays below head, and without it     *)
(* ends within the data (shm_ringbuffer.c:286-295).                        *)
LEMMA Place ==
  ASSUME head \in Cursor, tail \in Cursor, PushInv, ppc # "idle"
  PROVE  \E h \in 0 .. Cap - 1, b \in 0 .. Cap, s \in Nat \ {0}, z \in Nat, n \in 0 .. Cap :
           /\ h = Pos(head) /\ b = Used /\ s = pmsg.size /\ z = Need(pmsg.size)
           /\ z = s + Hdr /\ n = Required(pmsg.size) /\ b + n <= Cap /\ z <= Cap
           /\ Wraps(pmsg.size) => h + z > Cap /\ n = (Cap - h) + z /\ z <= h
           /\ ~Wraps(pmsg.size) => h + z <= Cap /\ n = z
           /\ Back(Ahead(n), n) = h /\ Ahead(n) \in 0 .. Cap - 1
<1> USE Room
<1>1. PICK h \in 0 .. Cap - 1 : h = Pos(head)
  BY PosRange DEF Cursor
<1>2. PICK b \in 0 .. Cap : b = Used
  <2>1. Used \in 0 .. Cap
    BY Apart DEF PushInv, Used, Distance, Cursor
  <2> QED
    BY <2>1
<1>3. PICK s \in Nat \ {0} : s = pmsg.size
  BY SizeOf DEF PushInv
<1>4. PICK z \in Nat : z = Need(s) /\ z = s + Hdr
  BY DEF Need
<1>5. z <= Cap
  BY <1>3, <1>4 DEF PushInv
<1>6. Wraps(s) <=> h + z > Cap
  BY <1>1, <1>4 DEF Wraps, Contiguous
<1>7. Required(s) = IF h + z > Cap THEN (Cap - h) + z ELSE z
  BY <1>1, <1>4, <1>6 DEF Required, Contiguous
<1>8. PICK n \in 0 .. Cap : n = Required(s) /\ b + n <= Cap
  <2>1. Required(s) \in Nat
    BY <1>7
  <2>2. b + Required(s) <= Cap
    BY <1>2, <1>3 DEF PushInv
  <2> QED
    BY <2>1, <2>2
<1>9. n = IF h + z > Cap THEN (Cap - h) + z ELSE z
  BY <1>7, <1>8
<1>10. Ahead(n) = IF h + n < Cap THEN h + n ELSE h + n - Cap
  BY <1>1, Zenon DEF Ahead, Fore
<1>11. Back(Ahead(n), n) = h /\ Ahead(n) \in 0 .. Cap - 1
  BY <1>10 DEF Back
<1>12. /\ Wraps(s) => h + z > Cap /\ n = (Cap - h) + z /\ z <= h
       /\ ~Wraps(s) => h + z <= Cap /\ n = z
  BY <1>6, <1>9
<1> QED
  BY <1>1, <1>2, <1>3, <1>4, <1>5, <1>8, <1>11, <1>12, Zenon

(* The copy of a push: the record is whole and nothing in use is touched,  *)
(* the sentinel runs at most into the slack (shm_ringbuffer.c:298-311,     *)
(* 357-381).                                                               *)
LEMMA Written ==
  ASSUME head \in Cursor, tail \in Cursor, mem \in [Offset -> Cells], PushInv, PushCopy
  PROVE  /\ mem' \in [Offset -> Cells]
         /\ \A o \in Offset : Keeps(Pos(head), Used, o) => mem'[o] = mem[o]
         /\ Slot(Ahead(Required(pmsg.size)), mem', pmsg, Required(pmsg.size), 0)
<1> USE Room
<1>1. PICK h \in 0 .. Cap - 1, b \in 0 .. Cap, s \in Nat \ {0}, z \in Nat, n \in 0 .. Cap :
           /\ h = Pos(head) /\ b = Used /\ s = pmsg.size /\ z = Need(pmsg.size)
           /\ z = s + Hdr /\ n = Required(pmsg.size) /\ b + n <= Cap /\ z <= Cap
           /\ Wraps(pmsg.size) => h + z > Cap /\ n = (Cap - h) + z /\ z <= h
           /\ ~Wraps(pmsg.size) => h + z <= Cap /\ n = z
           /\ Back(Ahead(n), n) = h /\ Ahead(n) \in 0 .. Cap - 1
  BY Place DEF PushCopy
<1>2. z = s + Hdr /\ b + n <= Cap /\ z <= Cap
  BY <1>1, Zenon
<1>3. pmsg \in Record /\ s \in Sizes
  <2>1. pmsg \in Record
    BY DEF PushCopy, PushInv
  <2> QED
    BY <1>1, <2>1, SizeOf, Zenon
<1>4. PICK at \in 0 .. Cap - 1 : at = IF Wraps(pmsg.size) THEN 0 ELSE h
  OBVIOUS
<1>5. PICK zero : zero = [i \in 0 .. Hdr - 1 |-> Zero]
  OBVIOUS
<1>6. PICK len : len = [i \in 0 .. Hdr - 1 |-> LenByte(s, i)]
  OBVIOUS
<1>7. PICK body : body = [i \in 0 .. s - 1 |-> Byte(pmsg.id, i)]
  OBVIOUS
<1>8. PICK M : M = IF Wraps(pmsg.size) THEN Copy(mem, h, zero) ELSE mem
  OBVIOUS
<1>9. PICK N : N = Copy(M, at, len)
  OBVIOUS
<1>10. mem' = Copy(N, at + Hdr, body)
  BY <1>1, <1>4, <1>5, <1>6, <1>7, <1>8, <1>9, Zenon DEF PushCopy
<1>11. \A o \in Offset : M[o] = IF Wraps(pmsg.size) /\ h <= o /\ o < h + Hdr THEN Zero ELSE mem[o]
  <2>1. \A o \in Offset : h <= o /\ o < h + Hdr <=> o - h \in 0 .. Hdr - 1
    BY DEF Offset
  <2>2. \A o \in Offset : Wraps(pmsg.size) =>
          M[o] = IF o - h \in DOMAIN zero THEN zero[o - h] ELSE mem[o]
    BY <1>8, Zenon DEF Copy
  <2>3. DOMAIN zero = 0 .. Hdr - 1 /\ \A i \in 0 .. Hdr - 1 : zero[i] = Zero
    BY <1>5
  <2> QED
    BY <1>8, <2>1, <2>2, <2>3, Zenon
<1>12. \A o \in Offset : N[o] = IF at <= o /\ o < at + Hdr THEN LenByte(s, o - at) ELSE M[o]
  <2>1. \A o \in Offset : at <= o /\ o < at + Hdr <=> o - at \in 0 .. Hdr - 1
    BY DEF Offset
  <2>2. \A o \in Offset : N[o] = IF o - at \in DOMAIN len THEN len[o - at] ELSE M[o]
    BY <1>9, Zenon DEF Copy
  <2>3. DOMAIN len = 0 .. Hdr - 1 /\ \A i \in 0 .. Hdr - 1 : len[i] = LenByte(s, i)
    BY <1>6
  <2> QED
    BY <2>1, <2>2, <2>3, Zenon
<1>13. PICK c \in Nat : c = at + Hdr
  OBVIOUS
<1>14. /\ \A o \in Offset : mem'[o] = IF c <= o /\ o < c + s THEN Byte(pmsg.id, o - c) ELSE N[o]
       /\ \A o \in Offset : c <= o /\ o < c + s <=> o - c \in 0 .. s - 1
       /\ mem' = [o \in Offset |-> mem'[o]]
  <2>1. \A o \in Offset : c <= o /\ o < c + s <=> o - c \in 0 .. s - 1
    BY DEF Offset
  <2>2. PICK m2 : m2 = mem'
    OBVIOUS
  <2>3. m2 = Copy(N, c, body)
    BY <1>10, <1>13, <2>2, Zenon
  <2>4. \A o \in Offset : m2[o] = IF o - c \in DOMAIN body THEN body[o - c] ELSE N[o]
    BY <2>3, Zenon DEF Copy
  <2>5. m2 = [o \in Offset |-> m2[o]]
    BY <2>3, Zenon DEF Copy
  <2>6. DOMAIN body = 0 .. s - 1 /\ \A i \in 0 .. s - 1 : body[i] = Byte(pmsg.id, i)
    BY <1>7
  <2>7. \A o \in Offset : m2[o] = IF c <= o /\ o < c + s THEN Byte(pmsg.id, o - c) ELSE N[o]
    BY <2>1, <2>4, <2>6, Zenon
  <2> QED
    BY <2>1, <2>2, <2>5, <2>7, Zenon
<1>15. at + z <= Cap
  BY <1>1, <1>2, <1>4
<1>16. Whole(mem', at, pmsg)
  <2>1. ASSUME NEW i \in 0 .. Hdr - 1 PROVE mem'[at + i] = LenByte(pmsg.size, i)
    <3>1. PICK o \in Offset : o = at + i
      BY <1>2, <1>15 DEF Offset
    <3>2. at <= o /\ o < at + Hdr /\ ~(c <= o) /\ o - at = i
      BY <1>13, <3>1
    <3> QED
      BY <1>1, <1>12, <1>14, <3>1, <3>2, Zenon
  <2>2. ASSUME NEW i \in 0 .. s - 1 PROVE mem'[at + Hdr + i] = Byte(pmsg.id, i)
    <3>1. PICK o \in Offset : o = at + Hdr + i
      BY <1>2, <1>15 DEF Offset
    <3>2. c <= o /\ o < c + s /\ o - c = i
      BY <1>13, <3>1
    <3> QED
      BY <1>14, <3>1, <3>2, Zenon
  <2> QED
    BY <1>1, <2>1, <2>2, Zenon DEF Whole
<1>17. Wraps(pmsg.size) => Mark(mem', h)
  <2>1. ASSUME Wraps(pmsg.size), NEW i \in 0 .. Hdr - 1 PROVE mem'[h + i] = Zero
    <3>1. PICK o \in Offset : o = h + i
      BY DEF Offset
    <3>2. z <= h /\ at = 0
      BY <1>1, <1>4, <2>1
    <3>3. /\ ~(o < at + Hdr) /\ ~(o < c + s) /\ h <= o /\ o < h + Hdr
      BY <1>2, <1>13, <3>1, <3>2
    <3> QED
      BY <1>11, <1>12, <1>14, <2>1, <3>1, <3>3, Zenon
  <2> QED
    BY <2>1, Zenon DEF Mark
<1>18. ASSUME NEW o \in Offset, Keeps(h, b, o) PROVE mem'[o] = mem[o]
  <2>1. ~(at <= o /\ o < at + z)
    <3>1. CASE Wraps(pmsg.size)
      <4>1. at = 0 /\ z <= h /\ n = (Cap - h) + z
        BY <1>1, <1>4, <3>1
      <4> QED
        BY <1>2, <1>18, <4>1 DEF Keeps, Offset
    <3>2. CASE ~Wraps(pmsg.size)
      <4>1. at = h /\ n = z /\ h + z <= Cap
        BY <1>1, <1>4, <3>2
      <4> QED
        BY <1>2, <1>18, <4>1 DEF Keeps, Offset
    <3> QED
      BY <3>1, <3>2
  <2>2. ~(at <= o /\ o < at + Hdr) /\ ~(c <= o /\ o < c + s)
    BY <1>2, <1>13, <2>1 DEF Offset
  <2>3. mem'[o] = M[o]
    BY <1>12, <1>14, <2>2, Zenon
  <2>4. CASE o >= Cap
    <3>1. mem[o] = Zero
      BY <2>4, Zenon DEF PushInv
    <3> QED
      BY <1>11, <2>3, <3>1, Zenon
  <2>5. CASE ~(o >= Cap)
    <3>1. ~(Wraps(pmsg.size) /\ h <= o)
      <4>1. ASSUME Wraps(pmsg.size), h <= o PROVE FALSE
        <5>1. n = (Cap - h) + z
          BY <1>1, <4>1
        <5> QED
          BY <1>2, <1>18, <2>5, <4>1, <5>1 DEF Keeps, Offset
      <4> QED
        BY <4>1
    <3> QED
      BY <1>11, <2>3, <3>1, Zenon
  <2> QED
    BY <2>4, <2>5
<1>19. ASSUME NEW o \in Offset PROVE mem'[o] \in Cells
  <2>1. M[o] \in Cells
    <3>1. mem[o] \in Cells /\ Zero \in Cells
      BY DEF Cells
    <3> QED
      BY <1>11, <3>1, Zenon
  <2>2. N[o] \in Cells
    <3>1. at <= o /\ o < at + Hdr => o - at \in 0 .. Hdr - 1
      BY DEF Offset
    <3>2. at <= o /\ o < at + Hdr => LenByte(s, o - at) \in Cells
      BY <1>3, <3>1, CellKinds, Zenon
    <3> QED
      BY <1>12, <2>1, <3>2, Zenon
  <2>3. c <= o /\ o < c + s => Byte(pmsg.id, o - c) \in Cells
    <3>1. pmsg.id \in Ids
      BY <1>3 DEF Record
    <3>2. \A i \in 0 .. s - 1 : i \in 0 .. Cap - 1
      BY <1>2
    <3> QED
      BY <1>14, <3>1, <3>2, CellKinds, Zenon
  <2> QED
    BY <1>14, <2>2, <2>3, Zenon
<1>20. mem' \in [Offset -> Cells]
  BY <1>14, <1>19
<1>21. Slot(Ahead(n), mem', pmsg, n, 0)
  <2>1. CASE Wraps(pmsg.size)
    <3>1. h + z > Cap /\ n = 0 + (Cap - h) + z /\ at = 0
      BY <1>1, <1>4, <2>1
    <3> QED
      BY <1>1, <1>16, <1>17, <2>1, <3>1, Zenon DEF Slot
  <2>2. CASE ~Wraps(pmsg.size)
    <3>1. h + z <= Cap /\ n = 0 + z /\ at = h
      BY <1>1, <1>4, <2>2
    <3> QED
      BY <1>1, <1>16, <3>1, Zenon DEF Slot
  <2> QED
    BY <2>1, <2>2
<1> QED
  BY <1>1, <1>18, <1>20, <1>21, Zenon

-----------------------------------------------------------------------------
(* The invariant, and the steps of the producer.                           *)

(* The ring holds the records q, at the distances u; and a consumer in the *)
(* middle of a pop is at the first of them.                                *)
Ring(q, u) ==
  /\ Layout(Pos(head), mem, Used, q, u)
  /\ cpc # "idle" => Len(q) >= 1
  /\ cpc = "advance" => cmsg = q[1] /\ Used = u[2] + Need(cmsg.size)

(* The inductive invariant: some records lie in the ring. Which ones is    *)
(* not state of the code, so they are quantified.                          *)
RingInv == TypeOK /\ PushInv /\ \E q, u : Ring(q, u)

(* What the invariant says, with the numbers typed.                        *)
LEMMA Here ==
  ASSUME TypeOK, PushInv, NEW q, NEW u, Ring(q, u)
  PROVE  /\ head \in Cursor /\ tail \in Cursor /\ mem \in [Offset -> Cells]
         /\ Used \in 0 .. Cap /\ Used = Distance(head, tail)
         /\ Pos(head) \in 0 .. Cap - 1 /\ Pos(tail) \in 0 .. Cap - 1
         /\ Pos(tail) = Back(Pos(head), Used)
         /\ Layout(Pos(head), mem, Used, q, u)
         /\ q \in Seq(Record) /\ Len(q) \in Nat
         /\ Used = 0 <=> head = tail
         /\ Len(q) = 0 <=> head = tail
<1>1. head \in Cursor /\ tail \in Cursor /\ mem \in [Offset -> Cells]
  BY DEF TypeOK, Cells
<1>2. Used = Distance(head, tail)
  BY Zenon DEF Used, Distance
<1>3. Used \in 0 .. Cap /\ (Used = 0 <=> head = tail)
  <2>1. PICK d \in Cursor : d = Distance(head, tail)
    BY <1>1, Apart
  <2>2. d = IF head >= tail THEN head - tail ELSE head - tail + Wrap
    BY <1>1, <2>1, Apart
  <2>3. d <= Cap
    BY <1>2, <2>1, Zenon DEF PushInv
  <2>4. PICK h \in Nat, t \in Nat, W \in Nat : h = head /\ t = tail /\ W = Wrap /\ h < W /\ t < W
    BY <1>1, SpscRingAssumption DEF Cursor, SpscRingAssumption
  <2>5. d \in 0 .. Cap /\ (d = 0 <=> h = t)
    BY <2>1, <2>2, <2>3, <2>4, Room DEF Cursor
  <2> QED
    BY <1>2, <2>1, <2>4, <2>5, Zenon
<1>4. Pos(head) \in 0 .. Cap - 1 /\ Pos(tail) \in 0 .. Cap - 1
  <2>1. head \in Int /\ tail \in Int
    BY <1>1 DEF Cursor
  <2> QED
    BY <2>1, PosRange
<1>5. Pos(tail) = Back(Pos(head), Used)
  <2>1. Distance(head, tail) <= Cap
    BY <1>2 DEF PushInv
  <2> QED
    BY <1>1, <1>2, <2>1, PosTail, Zenon
<1>6. Layout(Pos(head), mem, Used, q, u)
  BY Zenon DEF Ring
<1>7. q \in Seq(Record) /\ Len(q) \in Nat /\ (Used = 0 <=> Len(q) = 0)
  BY <1>3, <1>4, <1>6, Shape
<1> QED
  BY <1>1, <1>2, <1>3, <1>4, <1>5, <1>6, <1>7, Zenon

(* What a pop finds at the tail of a ring that is not empty.               *)
LEMMA First ==
  ASSUME TypeOK, PushInv, NEW q, NEW u, Ring(q, u), Len(q) >= 1
  PROVE  \E o \in 0 .. Cap - 1, b \in 0 .. Cap :
           \E x \in 0 .. b, z \in Nat :
             /\ o = Pos(tail) /\ b = Used /\ x = u[2] /\ z = Need(q[1].size)
             /\ q[1] \in Record /\ z > 0
             /\ \/ /\ LenAt(o) = q[1].size /\ LenAt(o) # 0 /\ b = x + z
                   /\ BodyAt(o + Hdr, LenAt(o)) = q[1]
                \/ LenAt(o) = 0 /\ b = x + (Cap - o) + z /\ Whole(mem, 0, q[1])
<1> USE Room
<1>1. PICK o \in 0 .. Cap - 1, b \in 0 .. Cap : o = Pos(tail) /\ b = Used /\ o = Back(Pos(head), b)
  BY Here, Zenon
<1>2. /\ q \in Seq(Record) /\ u \in [1 .. Len(q) + 1 -> 0 .. b] /\ u[1] = b
      /\ \A i \in 1 .. Len(q) : Slot(Pos(head), mem, q[i], u[i], u[i + 1])
  BY <1>1, Here, Zenon DEF Layout
<1>3. Len(q) \in Nat /\ 1 \in 1 .. Len(q) /\ 2 \in 1 .. Len(q) + 1 /\ 1 + 1 = 2
  BY <1>2
<1>4. PICK x \in 0 .. b : x = u[2]
  BY <1>2, <1>3, Zenon
<1>5. q[1] \in Record
  BY <1>2, <1>3, ElementOfSeq
<1>6. PICK z \in Nat : z = Need(q[1].size) /\ z > 0
  <2>1. Need(q[1].size) \in Nat /\ Need(q[1].size) > Hdr
    BY <1>5, SizeOf
  <2> QED
    BY <2>1
<1>7. Slot(Pos(head), mem, q[1], b, x)
  BY <1>2, <1>3, <1>4, Zenon
<1>8. CASE o + z <= Cap /\ b = x + z /\ Whole(mem, o, q[1])
  <2>1. LenAt(o) = q[1].size /\ BodyAt(o + Hdr, q[1].size) = q[1]
    BY <1>5, <1>6, <1>8, ReadWhole
  <2>2. q[1].size # 0
    BY <1>5, SizeOf
  <2> QED
    BY <1>1, <1>4, <1>5, <1>6, <1>8, <2>1, <2>2, Zenon
<1>9. CASE b = x + (Cap - o) + z /\ Mark(mem, o) /\ Whole(mem, 0, q[1])
  <2>1. LenAt(o) = 0
    BY <1>9, Zenon DEF LenAt, Mark
  <2> QED
    BY <1>1, <1>4, <1>5, <1>6, <1>9, <2>1, Zenon
<1> QED
  BY <1>1, <1>6, <1>7, <1>8, <1>9, Zenon DEF Slot

(* The three ways a step may change what is in the ring.                   *)
Moves(q, p) ==
  \/ p = q /\ got' = got
  \/ \E r \in Record : p = Append(q, r) /\ got' = got
  \/ q # << >> /\ p = Tail(q) /\ got' = Head(q)

(* A step that touches neither cursors, memory nor the copied record.      *)
LEMMA Quiet ==
  ASSUME NEW q, NEW u, Ring(q, u), UNCHANGED <<head, tail, mem, cmsg, got>>,
         cpc' # "idle" => Len(q) >= 1, cpc' = "advance" => cpc = "advance"
  PROVE  Ring(q, u)' /\ Moves(q, q)
<1>1. Used' = Used /\ Pos(head)' = Pos(head)
  BY DEF Used, Pos
<1> QED
  BY <1>1 DEF Ring, Moves

(* The space check (shm_ringbuffer.c:274-295, 329-352).                    *)
LEMMA PushCallStep ==
  ASSUME TypeOK, PushInv, NEW q, NEW u, Ring(q, u),
         NEW entry \in {"push", "scatter"}, NEW r \in Record, PushCall(entry, r)
  PROVE  TypeOK' /\ PushInv' /\ Ring(q, u)' /\ Moves(q, q)
<1>1. UNCHANGED <<head, tail, mem, cpc, cbuf, cmsg, cret, got>>
  BY DEF PushCall, ring, consumer
<1>2. Ring(q, u)' /\ Moves(q, q)
  BY <1>1, Quiet DEF Ring
<1>3. Used' = Used /\ Required(r.size)' = Required(r.size) /\ Used \in 0 .. Cap
  BY <1>1, Here DEF Used, Required, Need, Wraps, Contiguous, Pos
<1>4. PICK b \in 0 .. Cap : b = Used
  BY <1>3
<1>5. CASE Outcome(entry, r.size) = "ok"
  <2>1. ppc' = "copy" /\ pmsg' = r /\ pret' = pret
    BY <1>5 DEF PushCall
  <2>2. ~(r.size > Limit(entry)) /\ Fits(r.size)
    BY <1>5, Zenon DEF Outcome
  <2>3. r.size <= Cap - Hdr
    <3>1. PICK s \in Nat : s = r.size
      BY SizeOf
    <3>2. Limit(entry) = Cap - Hdr \/ Limit(entry) = Cap - 2 * Hdr
      BY DEF Limit
    <3>3. s <= Cap - Hdr
      BY <2>2, <3>1, <3>2, Room
    <3> QED
      BY <3>1, <3>3
  <2>4. Used + Required(r.size) <= Cap
    <3>1. Required(r.size) \in Int
      BY SizeOf, Here, Room DEF Required, Contiguous
    <3>2. PICK n \in Int : n = Required(r.size)
      BY <3>1
    <3>3. Cap - b >= n
      BY <1>4, <2>2, <3>2, Zenon DEF Fits
    <3>4. b + n <= Cap
      BY <3>3, Room
    <3> QED
      BY <1>4, <3>2, <3>4, Zenon
  <2>5. PushInv'
    BY <1>1, <1>3, <2>1, <2>3, <2>4, Zenon DEF PushInv
  <2>6. TypeOK'
    BY <1>1, <2>1 DEF TypeOK
  <2> QED
    BY <1>2, <2>5, <2>6
<1>6. CASE Outcome(entry, r.size) # "ok"
  <2>1. UNCHANGED <<ppc, pmsg>> /\ pret' \in {"EMSGSIZE", "EAGAIN"}
    BY <1>6 DEF PushCall, Outcome
  <2>2. PushInv'
    BY <1>1, <2>1 DEF PushInv, Used, Required, Need, Wraps, Contiguous, Pos, Ahead
  <2>3. TypeOK'
    BY <1>1, <2>1 DEF TypeOK
  <2> QED
    BY <1>2, <2>2, <2>3
<1> QED
  BY <1>5, <1>6

(* The copy, seen from the records that lie in the ring already.           *)
LEMMA PushCopyStep ==
  ASSUME TypeOK, PushInv, NEW q, NEW u, Ring(q, u), PushCopy
  PROVE  TypeOK' /\ PushInv' /\ Ring(q, u)' /\ Moves(q, q)
<1>1. /\ UNCHANGED <<head, tail, pmsg, pret, cpc, cbuf, cmsg, cret, got>>
      /\ ppc = "copy" /\ ppc' = "publish"
  BY DEF PushCopy, consumer
<1>2. /\ head \in Cursor /\ tail \in Cursor /\ mem \in [Offset -> Cells]
      /\ Used \in 0 .. Cap /\ Pos(head) \in 0 .. Cap - 1
      /\ Layout(Pos(head), mem, Used, q, u)
  BY Here, Zenon
<1>3. /\ mem' \in [Offset -> Cells]
      /\ \A o \in Offset : Keeps(Pos(head), Used, o) => mem'[o] = mem[o]
      /\ Slot(Ahead(Required(pmsg.size)), mem', pmsg, Required(pmsg.size), 0)
  BY <1>2, Written, Zenon
<1>4. PICK h \in 0 .. Cap - 1, b \in 0 .. Cap, n \in {Required(pmsg.size)}, m \in {mem}, mm \in {mem'} :
         /\ h = Pos(head) /\ b = Used /\ n = Required(pmsg.size) /\ m = mem /\ mm = mem'
  BY <1>2, Zenon
<1>5. /\ Used' = Used /\ Pos(head)' = Pos(head)
      /\ Required(pmsg.size)' = Required(pmsg.size) /\ Ahead(n)' = Ahead(n)
  BY <1>1 DEF Used, Required, Need, Wraps, Contiguous, Pos, Ahead
<1>6. Layout(h, mm, b, q, u)
  <2>1. Layout(h, m, b, q, u) /\ \A o \in Offset : Keeps(h, b, o) => mm[o] = m[o]
    BY <1>2, <1>3, <1>4, Zenon
  <2> QED
    BY <2>1, Kept
<1>7. Ring(q, u)' /\ Moves(q, q)
  BY <1>1, <1>4, <1>5, <1>6 DEF Ring, Moves
<1>8. TypeOK'
  <2>1. mem' \in [Offset -> {Zero} \cup {LenByte(k, i) : k \in Sizes, i \in 0 .. Hdr - 1}
                                 \cup {Byte(id, i) : id \in Ids, i \in 0 .. Cap - 1}]
    BY <1>3 DEF Cells
  <2> QED
    BY <1>1, <2>1 DEF TypeOK
<1>9. PushInv'
  <2>1. \A o \in Offset : o >= Cap => mem'[o] = Zero
    BY <1>3, Zenon DEF Keeps, PushInv
  <2>2. ppc # "idle"
    BY <1>1
  <2>3. /\ pmsg' \in Record /\ (pmsg.size)' <= Cap - Hdr
        /\ (Used + Required(pmsg.size))' <= Cap /\ Used' <= Cap
    BY <1>1, <1>5, <2>2, Zenon DEF PushInv
  <2>4. Slot(Ahead(Required(pmsg.size)), mem, pmsg, Required(pmsg.size), 0)'
    <3>1. Slot(Ahead(n), mem', pmsg, n, 0)
      BY <1>3, <1>4, Zenon
    <3>2. Slot(Ahead(n), mem, pmsg, n, 0)'
      BY <1>1, <1>5, <3>1, Zenon
    <3> QED
      BY <1>4, <1>5, <3>2, Zenon
  <2> QED
    BY <2>1, <2>3, <2>4, Zenon DEF PushInv
<1> QED
  BY <1>7, <1>8, <1>9

(* The store of head moves it by what was checked, in one step or with the *)
(* padding in two (shm_ringbuffer.c:307-316, 384-386).                     *)
LEMMA PublishMoves ==
  ASSUME TypeOK, PushInv, NEW q, NEW u, Ring(q, u), PushPublish
  PROVE  \E n \in 0 .. Cap :
           /\ n = Required(pmsg.size) /\ Used + n <= Cap
           /\ head' = Move(head, n) /\ head' \in Cursor
           /\ Used' = Used + n
           /\ Pos(head)' = Ahead(n) /\ Ahead(n) \in 0 .. Cap - 1
<1> USE Room
<1>1. ppc = "publish" /\ ppc # "idle" /\ tail' = tail
  BY DEF PushPublish
<1>2. head \in Cursor /\ tail \in Cursor /\ Used = Distance(head, tail)
  BY Here, Zenon
<1>3. PICK h \in 0 .. Cap - 1, b \in 0 .. Cap, s \in Nat \ {0}, z \in Nat, n \in 0 .. Cap :
           /\ h = Pos(head) /\ b = Used /\ s = pmsg.size /\ z = Need(pmsg.size)
           /\ z = s + Hdr /\ n = Required(pmsg.size) /\ b + n <= Cap /\ z <= Cap
           /\ Wraps(pmsg.size) => h + z > Cap /\ n = (Cap - h) + z /\ z <= h
           /\ ~Wraps(pmsg.size) => h + z <= Cap /\ n = z
           /\ Back(Ahead(n), n) = h /\ Ahead(n) \in 0 .. Cap - 1
  BY <1>1, <1>2, Place
<1>4. head' = Move(head, n)
  <2>1. CASE Wraps(pmsg.size)
    <3>1. PICK k \in Nat : k = Cap - h
      OBVIOUS
    <3>2. NextLap(head) = Move(head, k)
      BY <1>2, <1>3, <3>1, NextLapMoves, Zenon
    <3>3. head' = Move(Move(head, k), z)
      BY <1>3, <2>1, <3>2, Zenon DEF PushPublish, Move
    <3>4. n = k + z
      BY <1>3, <2>1, <3>1
    <3>5. k + z <= Cap
      BY <3>4
    <3> QED
      BY <1>2, <3>3, <3>4, <3>5, MoveTwice
  <2>2. CASE ~Wraps(pmsg.size)
    BY <1>3, <2>2, Zenon DEF PushPublish, Move
  <2> QED
    BY <2>1, <2>2
<1>5. head' \in Cursor
  BY <1>2, <1>4, Forward
<1>6. Used' = Used + n
  <2>1. Distance(head, tail) + n <= Cap
    BY <1>2, <1>3, Zenon
  <2>2. Distance(Move(head, n), tail) = Distance(head, tail) + n
    BY <1>2, <2>1, Produced
  <2> QED
    BY <1>1, <1>2, <1>4, <2>2, Zenon DEF Used, Distance
<1>7. Pos(head)' = Ahead(n)
  <2>1. Pos(Move(head, n)) = Ahead(n)
    BY <1>2, PosMoved DEF Ahead, Fore
  <2> QED
    BY <1>4, <2>1, Zenon DEF Pos
<1> QED
  BY <1>3, <1>4, <1>5, <1>6, <1>7, Zenon

(* The publish appends the record that was passed to the push.             *)
LEMMA PublishStep ==
  ASSUME TypeOK, PushInv, NEW q, NEW u, Ring(q, u), PushPublish
  PROVE  TypeOK' /\ PushInv' /\ \E p, w : Ring(p, w)' /\ Moves(q, p)
<1>1. /\ UNCHANGED <<tail, mem, cpc, cbuf, cmsg, cret, got>> /\ ppc = "publish"
      /\ ppc' = "idle" /\ pmsg' = NoRecord /\ pret' = "ok"
  BY DEF PushPublish, consumer
<1>2. PICK n \in 0 .. Cap : /\ n = Required(pmsg.size) /\ Used + n <= Cap
                            /\ head' \in Cursor /\ Used' = Used + n
                            /\ Pos(head)' = Ahead(n) /\ Ahead(n) \in 0 .. Cap - 1
  BY PublishMoves, Zenon
<1>3. PICK r \in Record : r = pmsg
  BY <1>1 DEF PushInv
<1>4. PICK h \in 0 .. Cap - 1, b \in 0 .. Cap, k \in 0 .. Cap - 1, m \in {mem} :
         h = Pos(head) /\ b = Used /\ k = Ahead(n) /\ m = mem
  BY <1>2, Here, Zenon
<1>5. b + n <= Cap
  BY <1>2, <1>4, Zenon
<1>6. k = Fore(h, n) /\ Layout(h, m, b, q, u) /\ Slot(Fore(h, n), m, r, n, 0)
  BY <1>1, <1>2, <1>3, <1>4, Here, Zenon DEF PushInv, Ahead
<1>7. PICK w : Layout(k, m, b + n, Append(q, r), w) /\ Farther(w, u, n)
  <2>1. \E w : Layout(Fore(h, n), m, b + n, Append(q, r), w) /\ Farther(w, u, n)
    BY <1>5, <1>6, Grown
  <2> QED
    BY <1>6, <2>1, Zenon
<1>8. q \in Seq(Record) /\ Len(q) \in Nat
  BY Here, Zenon
<1>9. Ring(Append(q, r), w)'
  <2>1. Layout(Pos(head), mem, Used, Append(q, r), w)'
    BY <1>1, <1>2, <1>4, <1>7, Zenon
  <2>2. Len(Append(q, r)) >= 1
    BY <1>8
  <2>3. ASSUME cpc = "advance"
        PROVE  (cmsg = Append(q, r)[1] /\ Used = w[2] + Need(cmsg.size))'
    <3>1. Len(q) >= 1 /\ cmsg = q[1] /\ Used = u[2] + Need(cmsg.size)
      BY <2>3 DEF Ring
    <3>9. PICK f : f = q[1]
      OBVIOUS
    <3>2. PICK x \in 0 .. Cap, z \in Nat : x = u[2] /\ z = Need(q[1].size)
      <4>1. PICK o \in 0 .. Cap - 1, c \in 0 .. Cap :
                \E x \in 0 .. c, z \in Nat : x = u[2] /\ z = Need(q[1].size)
        BY <3>1, First, Zenon
      <4>2. PICK x \in 0 .. c, z \in Nat : x = u[2] /\ z = Need(q[1].size)
        BY <4>1
      <4>3. x \in 0 .. Cap
        BY Room
      <4> QED
        BY <4>2, <4>3, Zenon
    <3>3. Append(q, r)[1] = f
      BY <1>8, <3>1, <3>9
    <3>4. w[2] = x + n
      <4>1. 2 \in 1 .. Len(q) + 1
        BY <1>8, <3>1
      <4>2. DOMAIN u = 1 .. Len(q) + 1
        BY <1>6, Zenon DEF Layout
      <4> QED
        BY <1>7, <3>2, <4>1, <4>2, Zenon DEF Farther
    <3>5. b = x + z
      BY <1>4, <3>1, <3>2, Zenon
    <3>6. b + n = (x + n) + z
      BY <3>5
    <3>7. Used' = w[2] + z
      BY <1>2, <1>4, <3>4, <3>6, Zenon
    <3>8. cmsg' = f /\ Need(cmsg.size)' = z
      BY <1>1, <3>1, <3>2, <3>9, Zenon DEF Need
    <3> QED
      BY <3>3, <3>7, <3>8, Zenon
  <2> QED
    BY <1>1, <2>1, <2>2, <2>3 DEF Ring
<1>10. TypeOK'
  BY <1>1, <1>2 DEF TypeOK
<1>11. PushInv'
  <2>1. Used' <= Cap
    BY <1>2, Zenon
  <2> QED
    BY <1>1, <2>1 DEF PushInv
<1>12. Moves(q, Append(q, r))
  BY <1>1 DEF Moves
<1> QED
  BY <1>9, <1>10, <1>11, <1>12, Zenon

-----------------------------------------------------------------------------
(* The steps of the consumer.                                              *)

(* Steps of the consumer that leave the cursors alone do not concern the   *)
(* producer.                                                               *)
LEMMA ProducerKeeps ==
  ASSUME PushInv, UNCHANGED <<head, tail, mem, ppc, pmsg>>
  PROVE  PushInv'
BY DEF PushInv, Used, Required, Need, Wraps, Contiguous, Pos, Ahead

(* Calls and retries of a pop, and a buffer too small, leave the records   *)
(* alone (shm_ringbuffer.c:393-400, 416).                                  *)
LEMMA PopStep ==
  ASSUME TypeOK, PushInv, NEW q, NEW u, Ring(q, u),
         \/ \E buf \in Bufs : PopCall(buf)
         \/ PopRetry \/ PopTooSmall \/ UNCHANGED vars
  PROVE  TypeOK' /\ PushInv' /\ Ring(q, u)' /\ Moves(q, q)
<1>1. UNCHANGED <<head, tail, mem, ppc, pmsg, pret, cmsg, got>>
  BY DEF PopCall, PopRetry, PopTooSmall, vars, ring, producer, consumer
<1>2. /\ cpc' # "idle" => cpc # "idle" \/ head # tail
      /\ cpc' = "advance" => cpc = "advance"
  BY DEF PopCall, PopRetry, PopTooSmall, vars, ring, producer, consumer
<1>3. cpc' # "idle" => Len(q) >= 1
  <2>1. Len(q) \in Nat /\ (Len(q) = 0 <=> head = tail)
    BY Here, Zenon
  <2>2. cpc # "idle" => Len(q) >= 1
    BY Zenon DEF Ring
  <2> QED
    BY <1>2, <2>1, <2>2
<1>4. Ring(q, u)' /\ Moves(q, q)
  BY <1>1, <1>2, <1>3, Quiet
<1>5. PushInv'
  BY <1>1, ProducerKeeps
<1>6. /\ cpc' \in {"idle", "read", "retry", "advance"} /\ cbuf' \in Bufs \cup {0}
      /\ cret' \in {"none", "ok", "EAGAIN", "EMSGSIZE"}
  BY DEF TypeOK, PopCall, PopRetry, PopTooSmall, vars, consumer
<1>7. TypeOK'
  BY <1>1, <1>6 DEF TypeOK
<1> QED
  BY <1>4, <1>5, <1>7

(* The body that a pop copies is that of the first record, whatever the    *)
(* producer is doing meanwhile (shm_ringbuffer.c:418).                     *)
LEMMA PopCopyStep ==
  ASSUME TypeOK, PushInv, NEW q, NEW u, Ring(q, u), PopCopy
  PROVE  TypeOK' /\ PushInv' /\ Ring(q, u)' /\ Moves(q, q)
<1>1. /\ UNCHANGED <<head, tail, mem, ppc, pmsg, pret, cbuf, cret, got>>
      /\ cpc = "read" /\ cpc' = "advance" /\ LenAt(Pos(tail)) # 0
      /\ cmsg' = BodyAt(Pos(tail) + Hdr, LenAt(Pos(tail)))
  BY DEF PopCopy, ring, producer
<1>2. Len(q) >= 1
  BY <1>1, Zenon DEF Ring
<1>3. /\ q[1] \in Record /\ cmsg' = q[1] /\ Used = u[2] + Need(q[1].size)
  BY <1>1, <1>2, First, Zenon
<1>4. Used' = Used /\ Pos(head)' = Pos(head)
  BY <1>1 DEF Used, Pos
<1>5. PICK f : f = q[1]
  OBVIOUS
<1>6. (cmsg = q[1] /\ Used = u[2] + Need(cmsg.size))'
  <2>1. Used = u[2] + Need(f.size)
    BY <1>3, <1>5, Zenon
  <2> QED
    BY <1>3, <1>4, <1>5, <2>1, Zenon DEF Need
<1>7. Layout(Pos(head), mem, Used, q, u)'
  BY <1>1, <1>4, Here, Zenon
<1>8. Ring(q, u)' /\ Moves(q, q)
  BY <1>1, <1>2, <1>6, <1>7, Zenon DEF Ring, Moves
<1>9. PushInv'
  BY <1>1, ProducerKeeps
<1>10. TypeOK'
  BY <1>1, <1>3 DEF TypeOK
<1> QED
  BY <1>8, <1>9, <1>10

(* tail moves on by n bytes that were unread.                              *)
LEMMA TailMoves ==
  ASSUME TypeOK, PushInv, NEW q, NEW u, Ring(q, u), NEW n \in 0 .. Used,
         tail' = Move(tail, n), UNCHANGED <<head, mem, ppc, pmsg>>
  PROVE  /\ tail' \in Cursor /\ Used' = Used - n /\ Pos(head)' = Pos(head)
         /\ PushInv'
<1>1. head \in Cursor /\ tail \in Cursor /\ Used \in 0 .. Cap /\ Used = Distance(head, tail)
  BY Here, Zenon
<1>2. n \in 0 .. Cap
  BY <1>1, Room
<1>3. tail' \in Cursor
  BY <1>1, <1>2, Forward
<1>4. Used' = Used - n
  <2>1. n <= Distance(head, tail)
    BY <1>1
  <2>2. Distance(head, Move(tail, n)) = Distance(head, tail) - n
    BY <1>1, <1>2, <2>1, Consumed
  <2> QED
    BY <1>1, <2>2, Zenon DEF Used, Distance
<1>5. /\ Pos(head)' = Pos(head) /\ Required(pmsg.size)' = Required(pmsg.size)
      /\ Ahead(Required(pmsg.size))' = Ahead(Required(pmsg.size))
  BY DEF Required, Need, Wraps, Contiguous, Pos, Ahead
<1>6. PICK b \in 0 .. Cap : b = Used
  BY <1>1, Zenon
<1>7. Used' = b - n /\ b - n <= b
  <2>1. Used' = b - n
    BY <1>4, <1>6, Zenon
  <2> QED
    BY <1>2, <2>1
<1>8. ppc # "idle" => (Used + Required(pmsg.size))' <= Cap
  <2>1. ASSUME ppc # "idle" PROVE (Used + Required(pmsg.size))' <= Cap
    <3>1. PICK s \in 0 .. Cap : s = Required(pmsg.size) /\ Used + s <= Cap
      BY <1>1, <2>1, Place, Zenon
    <3>2. b + s <= Cap
      BY <1>6, <3>1, Zenon
    <3>3. (b - n) + s <= Cap
      BY <1>2, <3>2, Room
    <3>4. Required(pmsg.size)' = s
      BY <1>5, <3>1, Zenon
    <3> QED
      BY <1>7, <3>3, <3>4, Zenon
  <2> QED
    BY <2>1
<1>9. Used' <= Cap
  BY <1>2, <1>7, Room
<1>10. PushInv'
  BY <1>5, <1>8, <1>9 DEF PushInv
<1> QED
  BY <1>3, <1>4, <1>5, <1>10

(* A sentinel is passed: the records are the same                          *)
(* (shm_ringbuffer.c:406-413).                                             *)
LEMMA PopSentinelStep ==
  ASSUME TypeOK, PushInv, NEW q, NEW u, Ring(q, u), PopSentinel
  PROVE  TypeOK' /\ PushInv' /\ (\E w : Ring(q, w)') /\ Moves(q, q)
<1>1. /\ UNCHANGED <<head, mem, ppc, pmsg, pret, cbuf, cmsg, cret, got>>
      /\ cpc = "read" /\ cpc' = "retry" /\ LenAt(Pos(tail)) = 0 /\ tail' = NextLap(tail)
  BY DEF PopSentinel, producer
<1>2. Len(q) >= 1
  BY <1>1, Zenon DEF Ring
<1>3. PICK o \in 0 .. Cap - 1, b \in 0 .. Cap :
        \E x \in 0 .. b, z \in Nat :
          /\ o = Pos(tail) /\ b = Used /\ x = u[2] /\ z = Need(q[1].size)
          /\ LenAt(o) = 0 => b = x + (Cap - o) + z /\ Whole(mem, 0, q[1])
  BY <1>2, First, ZenonT(30)
<1>4. PICK x \in 0 .. b, z \in Nat :
          /\ o = Pos(tail) /\ b = Used /\ x = u[2] /\ z = Need(q[1].size)
          /\ LenAt(o) = 0 => b = x + (Cap - o) + z /\ Whole(mem, 0, q[1])
  BY <1>3
<1>5. PICK h \in 0 .. Cap - 1, m \in {mem} : h = Pos(head) /\ m = mem
  BY Here, Zenon
<1>6. Layout(h, m, b, q, u) /\ o = Back(h, b) /\ Whole(m, 0, q[1])
  BY <1>1, <1>4, <1>5, Here, Zenon
<1>7. b = x + (Cap - o) + z
  BY <1>1, <1>4, Zenon
<1>8. /\ b - (Cap - o) \in 0 .. b
      /\ \E w : Layout(h, m, b - (Cap - o), q, w)
  BY <1>2, <1>4, <1>6, <1>7, Skipped, Zenon
<1>9. PICK n \in 0 .. b : n = Cap - o
  BY <1>8, Room
<1>10. PICK w : Layout(h, m, b - n, q, w)
  BY <1>8, <1>9, Zenon
<1>11. tail' = Move(tail, n)
  BY <1>1, <1>4, <1>9, Here, NextLapMoves, Zenon
<1>12. tail' \in Cursor /\ Used' = b - n /\ Pos(head)' = h /\ PushInv'
  BY <1>1, <1>4, <1>5, <1>11, TailMoves
<1>13. Ring(q, w)'
  BY <1>1, <1>2, <1>5, <1>10, <1>12 DEF Ring
<1>14. TypeOK' /\ Moves(q, q)
  BY <1>1, <1>12 DEF TypeOK, Moves
<1> QED
  BY <1>12, <1>13, <1>14

(* The store of tail after a copy takes the first record out               *)
(* (shm_ringbuffer.c:419-421).                                             *)
LEMMA PopAdvanceStep ==
  ASSUME TypeOK, PushInv, NEW q, NEW u, Ring(q, u), PopAdvance
  PROVE  TypeOK' /\ PushInv' /\ (\E p, w : Ring(p, w)' /\ Moves(q, p))
<1>1. /\ UNCHANGED <<head, mem, ppc, pmsg, pret>>
      /\ cpc = "advance" /\ cpc' = "idle" /\ cret' = "ok" /\ cmsg' = NoRecord /\ cbuf' = 0
      /\ tail' = (tail + Need(cmsg.size)) % Wrap /\ got' = cmsg
  BY DEF PopAdvance, producer
<1>2. Len(q) >= 1 /\ cmsg = q[1] /\ Used = u[2] + Need(cmsg.size)
  BY <1>1 DEF Ring
<1>3. Len(q) >= 1
  BY <1>2
<1>4. PICK o \in 0 .. Cap - 1, b \in 0 .. Cap :
        \E x \in 0 .. b, z \in Nat : b = Used /\ x = u[2] /\ z = Need(q[1].size)
  BY <1>3, First, Zenon
<1>5. PICK x \in 0 .. b, z \in Nat : b = Used /\ x = u[2] /\ z = Need(q[1].size)
  BY <1>4
<1>6. b = x + z
  BY <1>2, <1>5, Zenon
<1>7. PICK n \in 0 .. b : n = z
  BY <1>6
<1>8. tail' = Move(tail, n)
  BY <1>1, <1>2, <1>5, <1>7, Zenon DEF Move
<1>9. PICK h, m : h = Pos(head) /\ m = mem
  OBVIOUS
<1>10. tail' \in Cursor /\ Used' = b - n /\ Pos(head)' = h /\ PushInv'
  BY <1>1, <1>5, <1>8, <1>9, TailMoves
<1>11. Used' = x
  BY <1>6, <1>7, <1>10
<1>12. /\ \E w : Layout(h, m, u[2], Tail(q), w)
       /\ Head(q) = q[1] /\ q # << >>
  <2>1. Layout(h, m, b, q, u)
    BY <1>5, <1>9, Here, Zenon
  <2> QED
    BY <1>2, <2>1, Shrunk
<1>13. PICK w : Layout(h, m, x, Tail(q), w)
  BY <1>5, <1>12, Zenon
<1>14. Ring(Tail(q), w)'
  BY <1>1, <1>9, <1>10, <1>11, <1>13 DEF Ring
<1>15. Moves(q, Tail(q))
  BY <1>1, <1>2, <1>12 DEF Moves
<1>16. TypeOK'
  BY <1>1, <1>10 DEF TypeOK
<1> QED
  BY <1>10, <1>14, <1>15, <1>16

-----------------------------------------------------------------------------
(* The invariant holds, and what follows from it.                          *)

(* Every step keeps the invariant, and changes the records in one of the   *)
(* three ways.                                                             *)
LEMMA RingStep ==
  ASSUME TypeOK, PushInv, NEW q, NEW u, Ring(q, u), [Next]_vars
  PROVE  TypeOK' /\ PushInv' /\ \E p, w : Ring(p, w)' /\ Moves(q, p)
<1>1. ASSUME NEW entry \in {"push", "scatter"}, NEW r \in Record, PushCall(entry, r)
      PROVE  TypeOK' /\ PushInv' /\ Ring(q, u)' /\ Moves(q, q)
  BY <1>1, PushCallStep
<1>2. CASE PushCopy
  BY <1>2, PushCopyStep
<1>3. CASE PushPublish
  BY <1>3, PublishStep
<1>4. CASE (\E buf \in Bufs : PopCall(buf)) \/ PopRetry \/ PopTooSmall \/ UNCHANGED vars
  BY <1>4, PopStep
<1>5. CASE PopSentinel
  BY <1>5, PopSentinelStep
<1>6. CASE PopCopy
  BY <1>6, PopCopyStep
<1>7. CASE PopAdvance
  BY <1>7, PopAdvanceStep
<1> QED
  BY <1>1, <1>2, <1>3, <1>4, <1>5, <1>6, <1>7, Zenon DEF Next, Producer, Consumer

(* A ring that was just created is empty (shm_ringbuffer.c:225-226).       *)
LEMMA InitRing == Init => RingInv
<1> SUFFICES ASSUME Init PROVE RingInv
  OBVIOUS
<1> USE Room
<1>1. TypeOK
  <2>1. 0 \in Cursor
    BY SpscRingAssumption DEF SpscRingAssumption, Cursor
  <2>2. mem \in [Offset -> {Zero} \cup {LenByte(n, i) : n \in Sizes, i \in 0 .. Hdr - 1}
                                 \cup {Byte(id, i) : id \in Ids, i \in 0 .. Cap - 1}]
    BY DEF Init
  <2> QED
    BY <2>1, <2>2 DEF Init, TypeOK
<1>2. Used = 0 /\ Pos(head) \in 0 .. Cap - 1
  <2>1. head \in Cursor /\ tail \in Cursor /\ head = tail
    BY <1>1 DEF TypeOK, Init
  <2>2. Distance(head, tail) = 0
    <3>1. head >= tail /\ head - tail = 0
      BY <2>1 DEF Cursor
    <3> QED
      BY <2>1, <3>1, Apart
  <2>3. Used = 0
    BY <2>2, Zenon DEF Used, Distance
  <2>4. head \in Int
    BY <2>1 DEF Cursor
  <2>5. Pos(head) \in 0 .. Cap - 1
    BY <2>4, PosRange, Zenon
  <2> QED
    BY <2>3, <2>5
<1>3. PushInv
  BY <1>2 DEF Init, PushInv
<1>4. PICK q, u : q = << >> /\ u = [i \in 1 .. 1 |-> 0]
  OBVIOUS
<1>5. q \in Seq(Record) /\ Len(q) = 0 /\ u \in [1 .. 1 -> 0 .. 0] /\ u[1] = 0
  BY <1>4
<1>6. Layout(Pos(head), mem, 0, q, u)
  BY <1>4, <1>5 DEF Layout
<1>7. Ring(q, u)
  BY <1>2, <1>6 DEF Ring, Init
<1> QED
  BY <1>1, <1>3, <1>7 DEF RingInv

(* The invariant holds throughout.                                         *)
LEMMA RingSafe == Spec => []RingInv
<1>1. RingInv /\ [Next]_vars => RingInv'
  <2> SUFFICES ASSUME RingInv, [Next]_vars PROVE RingInv'
    OBVIOUS
  <2>1. PICK q, u : TypeOK /\ PushInv /\ Ring(q, u)
    BY DEF RingInv
  <2>2. TypeOK' /\ PushInv' /\ \E p, w : Ring(p, w)' /\ Moves(q, p)
    BY <2>1, RingStep
  <2> QED
    BY <2>2 DEF RingInv
<1> QED
  BY <1>1, InitRing, PTL DEF Spec

(* The cursors stay numbers of their width, and memory holds nothing but   *)
(* bytes that were copied there.                                           *)
THEOREM TypeCorrect == Spec => []TypeOK
<1>1. RingInv => TypeOK
  BY DEF RingInv
<1> QED
  BY <1>1, RingSafe, PTL

(* For every capacity, width of the cursors and set of sizes: while a push *)
(* copies, none of the bytes it writes is one the consumer may still read, *)
(* although each side works with a cursor of the other that it loaded      *)
(* earlier (shm_ringbuffer.c:280-311, 341-381, 394-418).                   *)
THEOREM CopiesDoNotOverlap == Spec => []NoOverwrite
<1>1. RingInv => NoOverwrite
  <2> SUFFICES ASSUME RingInv, ppc = "copy", NEW o \in UnreadBytes
               PROVE  o \notin WrittenBytes
    BY Zenon DEF NoOverwrite
  <2> USE Room
  <2>1. PICK q, u : TypeOK /\ PushInv /\ Ring(q, u)
    BY DEF RingInv
  <2>2. head \in Cursor /\ tail \in Cursor /\ Pos(tail) = Back(Pos(head), Used)
    BY <2>1, Here, Zenon
  <2>3. ppc # "idle"
    OBVIOUS
  <2>4. PICK h \in 0 .. Cap - 1, b \in 0 .. Cap, s \in Nat \ {0}, z \in Nat, n \in 0 .. Cap :
           /\ h = Pos(head) /\ b = Used /\ s = pmsg.size /\ z = Need(pmsg.size)
           /\ z = s + Hdr /\ n = Required(pmsg.size) /\ b + n <= Cap /\ z <= Cap
           /\ Wraps(pmsg.size) => h + z > Cap /\ n = (Cap - h) + z /\ z <= h
           /\ ~Wraps(pmsg.size) => h + z <= Cap /\ n = z
           /\ Back(Ahead(n), n) = h /\ Ahead(n) \in 0 .. Cap - 1
    BY <2>1, <2>2, <2>3, Place
  <2>5. PICK t \in 0 .. Cap - 1 : t = Pos(tail) /\ t = Back(h, b)
    BY <2>1, <2>2, <2>4, Here, Zenon
  <2>6. PICK k \in 0 .. b - 1 : o = Fore(t, k)
    <3>1. PICK k \in 0 .. b - 1 : o = Pos(tail + k)
      BY <2>4, Zenon DEF UnreadBytes
    <3>2. k \in 0 .. Cap /\ tail \in Int
      BY <2>2 DEF Cursor
    <3>3. Pos(tail + k) = Fore(Pos(tail), k)
      BY <3>2, PosFore
    <3> QED
      BY <2>5, <3>1, <3>3, Zenon
  <2>7. /\ z = s + Hdr /\ b + n <= Cap
    BY <2>4, Zenon
  <2>8. o \in 0 .. Cap - 1 /\ Keeps(h, b, o)
    BY <2>5, <2>6 DEF Fore, Back, Keeps
  <2>9. CASE Wraps(pmsg.size)
    <3>1. n = (Cap - h) + z /\ z <= h
      BY <2>4, <2>9
    <3>2. WrittenBytes = (h .. h + Hdr - 1) \cup (0 .. z - 1)
      BY <2>4, <2>9, Zenon DEF WrittenBytes
    <3>3. o \notin h .. h + Hdr - 1 /\ o \notin 0 .. z - 1
      BY <2>7, <2>8, <3>1 DEF Keeps
    <3> QED
      BY <3>2, <3>3, Zenon
  <2>10. CASE ~Wraps(pmsg.size)
    <3>1. n = z /\ h + z <= Cap
      BY <2>4, <2>10
    <3>2. WrittenBytes = h .. h + z - 1
      BY <2>4, <2>10, Zenon DEF WrittenBytes
    <3>3. o \notin h .. h + z - 1
      BY <2>7, <2>8, <3>1 DEF Keeps
    <3> QED
      BY <3>2, <3>3, Zenon
  <2> QED
    BY <2>9, <2>10
<1> QED
  BY <1>1, RingSafe, PTL

(* Padding never keeps a record of at most half of the ring out of a ring  *)
(* that is empty, wherever the records before it, and the wraps of the     *)
(* cursor, have left the two cursors (shm_ringbuffer.c:286-295, 346-352):  *)
(* what the retry of a push after -EAGAIN relies on.                       *)
THEOREM HalfAlwaysFits == Spec => []EmptyRingFitsHalf
<1>1. RingInv => EmptyRingFitsHalf
  <2> SUFFICES ASSUME RingInv, head = tail, NEW n \in Sizes, 2 * Need(n) <= Cap
               PROVE  Fits(n)
    BY DEF EmptyRingFitsHalf
  <2> USE SpscRingAssumption DEF SpscRingAssumption
  <2>1. head \in Cursor
    BY DEF RingInv, TypeOK
  <2>2. Used = 0
    BY <2>1 DEF Used, Cursor
  <2>3. Contiguous \in 1 .. Cap
    BY <2>1 DEF Contiguous, Pos, Cursor
  <2>4. Need(n) \in Nat
    BY DEF Need
  <2>5. Required(n) <= 2 * Need(n)
    BY <2>3, <2>4 DEF Required, Wraps
  <2>6. Required(n) \in Nat
    BY <2>3, <2>4 DEF Required
  <2> QED
    BY <2>2, <2>4, <2>5, <2>6 DEF Fits
<1> QED
  BY <1>1, RingSafe, PTL

(* What the invariant says of Unread.                                      *)
Decodes ==
  \A q, u : TypeOK /\ PushInv /\ Ring(q, u) =>
    Unread = q /\ q \in Seq(Record) /\ Queue!Bytes(q) <= Cap

LEMMA UnreadIs == Decodes
<1> SUFFICES ASSUME NEW q, NEW u, TypeOK, PushInv, Ring(q, u)
             PROVE  Unread = q /\ q \in Seq(Record) /\ Queue!Bytes(q) <= Cap
  BY Zenon DEF Decodes
<1>1. PICK b \in 0 .. Cap, h \in 0 .. Cap - 1, m \in {mem} :
        /\ b = Used /\ h = Pos(head) /\ m = mem /\ Layout(h, m, b, q, u)
  BY Here, Zenon
<1>2. head \in Cursor
  BY Here
<1>3. From[b] = q
  BY <1>1, <1>2, FromLayout, Zenon
<1>4. b <= Cap
  BY Room
<1>5. Unread = q
  BY <1>1, <1>3, <1>4, Zenon DEF Unread
<1>6. /\ q \in Seq(Record) /\ u \in [1 .. Len(q) + 1 -> Nat]
      /\ \A i \in 1 .. Len(q) : u[i + 1] + Need(q[i].size) <= u[i]
  BY <1>1, Shape
<1>7. u[1] = b
  BY <1>1, Zenon DEF Layout
<1>8. Queue!Bytes(q) \in Nat /\ Queue!Bytes(q) <= b
  BY <1>6, <1>7, BytesBound, Zenon
<1>9. Queue!Bytes(q) <= Cap
  BY <1>4, <1>8, Room
<1> QED
  BY <1>5, <1>6, <1>9

(* The ring implements MsgQueue: records come out whole, once, in the      *)
(* order they were accepted, and nothing is lost or invented by a          *)
(* sentinel, a wrap of a cursor or a refused call (the release and acquire *)
(* pairs of shm_ringbuffer.c:315 and 396).                                 *)
THEOREM RingIsFIFO == Spec => FIFO
<1>1. Init => Queue!Init
  <2> SUFFICES ASSUME Init PROVE Unread = << >> /\ got = Queue!NoRecord
    BY DEF Queue!Init
  <2>1. PICK q, u : TypeOK /\ PushInv /\ Ring(q, u)
    BY InitRing DEF RingInv
  <2>2. Unread = q
    BY <2>1, UnreadIs, Zenon DEF Decodes
  <2>3. q \in Seq(Record) /\ Len(q) = 0
    BY <2>1, Here DEF Init
  <2> QED
    BY <2>2, <2>3 DEF Init, NoRecord, Queue!NoRecord
<1>2. RingInv /\ [Next]_vars => [Queue!Next]_(Queue!vars)
  <2> SUFFICES ASSUME RingInv, [Next]_vars PROVE [Queue!Next]_(Queue!vars)
    OBVIOUS
  <2>1. Decodes'
    BY UnreadIs, PTL
  <2>2. PICK q, u : TypeOK /\ PushInv /\ Ring(q, u)
    BY DEF RingInv
  <2>3. PICK p, w : TypeOK' /\ PushInv' /\ Ring(p, w)' /\ Moves(q, p)
    BY <2>2, RingStep
  <2>4. Unread = q /\ q \in Seq(Record)
    BY <2>2, UnreadIs, Zenon DEF Decodes
  <2>5. Unread' = p /\ Queue!Bytes(p) <= Cap
    BY <2>1, <2>3, Zenon DEF Decodes
  <2>6. CASE p = q /\ got' = got
    BY <2>4, <2>5, <2>6, Zenon DEF Queue!vars
  <2>7. ASSUME NEW r \in Record, p = Append(q, r), got' = got
        PROVE  Queue!Accept(r) /\ r \in Queue!Record
    BY <2>4, <2>5, <2>7, Zenon DEF Queue!Accept, Queue!Record, Record
  <2>8. ASSUME q # << >>, p = Tail(q), got' = Head(q)
        PROVE  Queue!Receive
    BY <2>4, <2>5, <2>8, Zenon DEF Queue!Receive
  <2> QED
    BY <2>3, <2>6, <2>7, <2>8, Zenon DEF Moves, Queue!Next
<1> QED
  BY <1>1, <1>2, RingSafe, PTL DEF Spec, FIFO, Queue!Spec

================================================================================
