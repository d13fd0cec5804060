-------------------------------- MODULE SpscRing --------------------------------
(***************************************************************************)
(* The lock-free single-producer, single-consumer ring of                  *)
(* src/src/shm_ringbuffer.c: shm_ring_push, shm_ring_push_scatter and      *)
(* shm_ring_pop over a byte array in shared memory and two monotonic byte  *)
(* cursors.  A call is cut where the other side can run in between: the    *)
(* load of the peer's cursor, the copy, the store of the own cursor.       *)
(* Watermarks and parking are the business of FlowControl.                 *)
(*                                                                         *)
(* Memory is one cell per byte.  A cell remembers which byte of which      *)
(* length or payload was copied there, so that a torn, stale or overlapped *)
(* record is told apart from the one that was sent.                        *)
(***************************************************************************)
EXTENDS Integers, Sequences

CONSTANTS Ids,      \* payload identities
          Sizes,    \* body lengths the caller passes
          Bufs,     \* receive buffer sizes the caller passes
          Hdr,      \* SHM_RING_MSG_HDR_SIZE: bytes of the length prefix
          Cap,      \* rb->capacity, a power of two
          Wrap      \* cursors are unsigned: 2^64 in the code, a multiple of Cap

ASSUME SpscRingAssumption ==
  /\ Hdr \in Nat \ {0}
  /\ Cap \in Nat /\ Cap > 2 * Hdr
  /\ Wrap \in Nat /\ Wrap > Cap /\ Wrap % Cap = 0
  /\ Sizes \subseteq Nat \ {0}
  /\ Bufs \subseteq Nat

VARIABLES head, tail,     \* the shared cursors of shm_ring_header
          mem,            \* rb->data and the slack behind it
          ppc, pmsg, pret,      \* producer: where it is, its record, last result
          cpc, cbuf, cmsg, cret, got  \* consumer: the same, and what it received

ring == <<head, tail, mem>>
producer == <<ppc, pmsg, pret>>
consumer == <<cpc, cbuf, cmsg, cret, got>>
vars == <<ring, producer, consumer>>

-----------------------------------------------------------------------------
Cursor == 0 .. Wrap - 1
Record == [id : Ids, size : Sizes]
NoRecord == [id |-> "none", size |-> 0]
Torn == [id |-> "torn", size |-> 0]

(* A sentinel written less than Hdr bytes before the end of the data runs  *)
(* into the rest of the last mapped page.                                  *)
Offset == 0 .. Cap + Hdr - 2

Zero == <<"zero", 0, 0>>
LenByte(n, i) == <<"len", n, i>>
Byte(id, i) == <<id, 0, i>>

Used == (head - tail) % Wrap
Pos(cursor) == cursor % Cap
Contiguous == Cap - Pos(head)
Need(size) == size + Hdr
Wraps(size) == Contiguous < Need(size)

(* Slips in the space check: the padding forgotten, or always counted.     *)
RequiredUnpadded(size) == Need(size)
RequiredOverPadded(size) == Contiguous + Need(size)

Required(size) == IF Wraps(size) THEN Contiguous + Need(size) ELSE Need(size)
Fits(size) == Cap - Used >= Required(size)

(* The first byte of the next lap: (c & ~(cap - 1)) + cap.  The slip: a    *)
(* cursor wider than its type.                                             *)
NextLapUnbounded(cursor) == cursor - Pos(cursor) + Cap
NextLap(cursor) == (cursor - Pos(cursor) + Cap) % Wrap

(* The two entry points differ in the largest body they take.              *)
Limit(entry) == IF entry = "push" THEN Cap - Hdr ELSE Cap - 2 * Hdr

Outcome(entry, size) == IF size > Limit(entry) THEN "EMSGSIZE"
                        ELSE IF Fits(size) THEN "ok" ELSE "EAGAIN"

(* Memory after a memcpy of the bytes, numbered from 0, to offset at.      *)
Copy(m, at, bytes) ==
  [o \in Offset |-> IF o - at \in DOMAIN bytes THEN bytes[o - at] ELSE m[o]]

(* The length prefix found at an offset; -1 if it is not one that was      *)
(* written as a whole.                                                     *)
LenAt(o) ==
  IF \A i \in 0 .. Hdr - 1 : mem[o + i] = Zero THEN 0
  ELSE IF \E n \in Sizes : \A i \in 0 .. Hdr - 1 : mem[o + i] = LenByte(n, i)
       THEN mem[o][2] ELSE -1

(* The record whose body of n bytes is found at an offset.                 *)
BodyAt(o, n) ==
  IF /\ o + n <= Cap
     /\ \E id \in Ids : \A i \in 0 .. n - 1 : mem[o + i] = Byte(id, i)
  THEN [id |-> mem[o][1], size |-> n] ELSE Torn

-----------------------------------------------------------------------------
Init ==
  /\ head = 0 /\ tail = 0
  /\ mem = [o \in Offset |-> Zero]
  /\ ppc = "idle" /\ pmsg = NoRecord /\ pret = "none"
  /\ cpc = "idle" /\ cbuf = 0 /\ cmsg = NoRecord /\ cret = "none"
  /\ got = NoRecord

(* A call of either push up to the space check.  The consumer's cursor is  *)
(* loaded once; the space found can only grow afterwards.                  *)
PushCall(entry, r) ==
  /\ ppc = "idle"
  /\ IF Outcome(entry, r.size) = "ok"
     THEN ppc' = "copy" /\ pmsg' = r /\ UNCHANGED pret
     ELSE pret' = Outcome(entry, r.size) /\ UNCHANGED <<ppc, pmsg>>
  /\ UNCHANGED <<ring, consumer>>

(* The sentinel, if the record does not fit before the end of the data,    *)
(* then the length prefix and the body.                                    *)
PushCopy ==
  /\ ppc = "copy"
  /\ LET at == IF Wraps(pmsg.size) THEN 0 ELSE Pos(head)
         zero == [i \in 0 .. Hdr - 1 |-> Zero]
         len == [i \in 0 .. Hdr - 1 |-> LenByte(pmsg.size, i)]
         body == [i \in 0 .. pmsg.size - 1 |-> Byte(pmsg.id, i)]
         padded == IF Wraps(pmsg.size) THEN Copy(mem, Pos(head), zero) ELSE mem
     IN mem' = Copy(Copy(padded, at, len), at + Hdr, body)
  /\ ppc' = "publish"
  /\ UNCHANGED <<head, tail, pmsg, pret, consumer>>

PushPublish ==
  /\ ppc = "publish"
  /\ head' = IF Wraps(pmsg.size) THEN (NextLap(head) + Need(pmsg.size)) % Wrap
                                 ELSE (head + Need(pmsg.size)) % Wrap
  /\ ppc' = "idle" /\ pmsg' = NoRecord /\ pret' = "ok"
  /\ UNCHANGED <<tail, mem, consumer>>

(* shm_ring_pop: the cursors are loaded, and the call returns at once when *)
(* the ring is empty.                                                      *)
PopCall(buf) ==
  /\ cpc = "idle"
  /\ IF head = tail
     THEN cret' = "EAGAIN" /\ UNCHANGED <<cpc, cbuf>>
     ELSE cpc' = "read" /\ cbuf' = buf /\ UNCHANGED cret
  /\ UNCHANGED <<ring, producer, cmsg, got>>

(* The length prefix is a sentinel: move to the next lap and start over.   *)
PopSentinel ==
  /\ cpc = "read" /\ LenAt(Pos(tail)) = 0
  /\ tail' = NextLap(tail)
  /\ cpc' = "retry"
  /\ UNCHANGED <<head, mem, producer, cbuf, cmsg, cret, got>>

PopRetry ==
  /\ cpc = "retry"
  /\ IF head = tail
     THEN cpc' = "idle" /\ cret' = "EAGAIN" /\ cbuf' = 0
     ELSE cpc' = "read" /\ UNCHANGED <<cret, cbuf>>
  /\ UNCHANGED <<ring, producer, cmsg, got>>

(* The caller's buffer is too small: the record stays in the ring.  The    *)
(* slip: it is skipped.                                                    *)
PopTooSmallSkips ==
  /\ cpc = "read" /\ LenAt(Pos(tail)) # 0 /\ cbuf < LenAt(Pos(tail))
  /\ tail' = (tail + Need(LenAt(Pos(tail)))) % Wrap
  /\ cpc' = "idle" /\ cret' = "EMSGSIZE" /\ cbuf' = 0
  /\ UNCHANGED <<head, mem, producer, cmsg, got>>

PopTooSmall ==
  /\ cpc = "read" /\ LenAt(Pos(tail)) # 0 /\ cbuf < LenAt(Pos(tail))
  /\ cpc' = "idle" /\ cret' = "EMSGSIZE" /\ cbuf' = 0
  /\ UNCHANGED <<ring, producer, cmsg, got>>

PopCopy ==
  /\ cpc = "read" /\ LenAt(Pos(tail)) # 0 /\ cbuf >= LenAt(Pos(tail))
  /\ cmsg' = BodyAt(Pos(tail) + Hdr, LenAt(Pos(tail)))
  /\ cpc' = "advance"
  /\ UNCHANGED <<ring, producer, cbuf, cret, got>>

PopAdvance ==
  /\ cpc = "advance"
  /\ tail' = (tail + Need(cmsg.size)) % Wrap
  /\ got' = cmsg
  /\ cpc' = "idle" /\ cret' = "ok" /\ cmsg' = NoRecord /\ cbuf' = 0
  /\ UNCHANGED <<head, mem, producer>>

Producer == \/ \E entry \in {"push", "scatter"}, r \in Record : PushCall(entry, r)
            \/ PushCopy
            \/ PushPublish

Consumer == \/ \E buf \in Bufs : PopCall(buf)
            \/ PopSentinel \/ PopRetry \/ PopTooSmall \/ PopCopy \/ PopAdvance

Next == Producer \/ Consumer

Spec == Init /\ [][Next]_vars

-----------------------------------------------------------------------------
TypeOK ==
  /\ head \in Cursor /\ tail \in Cursor
  /\ mem \in [Offset -> {Zero} \cup {LenByte(n, i) : n \in Sizes, i \in 0 .. Hdr - 1}
                             \cup {Byte(id, i) : id \in Ids, i \in 0 .. Cap - 1}]
  /\ ppc \in {"idle", "copy", "publish"} /\ pmsg \in Record \cup {NoRecord}
  /\ pret \in {"none", "ok", "EAGAIN", "EMSGSIZE"}
  /\ cpc \in {"idle", "read", "retry", "advance"} /\ cbuf \in Bufs \cup {0}
  /\ cmsg \in Record \cup {NoRecord, Torn} /\ got \in Record \cup {NoRecord, Torn}
  /\ cret \in {"none", "ok", "EAGAIN", "EMSGSIZE"}

(* The records between the cursors, read off memory the way shm_ring_pop   *)
(* reads them, from u bytes before head.  A sentinel must be followed by a *)
(* record: both are published by one store of head.                        *)
From[u \in 0 .. Cap] ==
  LET o == Pos(head - u)
      n == LenAt(o)
  IN IF u = 0 THEN << >>
     ELSE IF n = 0 /\ Cap - o < u THEN From[u - (Cap - o)]
     ELSE IF n > 0 /\ Need(n) <= u THEN <<BodyAt(o + Hdr, n)>> \o From[u - Need(n)]
     ELSE <<Torn>>

Unread == IF Used <= Cap THEN From[Used] ELSE <<Torn>>

(* The ring is a FIFO of whole records: what is in memory between the      *)
(* cursors is the queue of MsgQueue, every publish appends the record that *)
(* was passed to the push, every advance of tail past a record delivers    *)
(* the oldest one, and no other step (a refused push, a sentinel, a copy,  *)
(* a cursor that wraps around) changes it.  The comments at                *)
(* shm_ringbuffer.c:315 and 396 claim it of the release/acquire pairs.     *)
Queue == INSTANCE MsgQueue WITH queue <- Unread
FIFO == Queue!Spec

(* While the producer copies, the bytes it writes are none of those the    *)
(* consumer may still read, although both run on cursors loaded earlier.   *)
UnreadBytes == {Pos(tail + k) : k \in 0 .. Used - 1}
WrittenBytes == IF Wraps(pmsg.size)
                THEN (Pos(head) .. Pos(head) + Hdr - 1) \cup (0 .. Need(pmsg.size) - 1)
                ELSE Pos(head) .. Pos(head) + Need(pmsg.size) - 1
NoOverwrite == ppc = "copy" => WrittenBytes \cap UnreadBytes = {}

(* A record that takes, with its prefix, at most half of the ring fits     *)
(* whenever the ring is empty, whatever the position of the cursors is     *)
(* after earlier records: the space check at shm_ringbuffer.c:293-295.     *)
EmptyRingFitsHalf ==
  head = tail => \A n \in Sizes : 2 * Need(n) <= Cap => Fits(n)

================================================================================
