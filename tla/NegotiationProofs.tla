--------------------------- MODULE NegotiationProofs ---------------------------
(***************************************************************************)
(* What the runs of Negotiation check with two processes, a few messages   *)
(* and a short queue holds for every number of messages, restarts, crashes *)
(* and failures, under what each theorem assumes: types, that a message is *)
(* delivered at most once, that none is dropped while the consumer stays   *)
(* up, that both sides map one object, and that the answers fit the queue. *)
(***************************************************************************)
EXTENDS Negotiation, SequenceTheorems, FiniteSetTheorems, TLAPS

Wire == {Request(o) : o \in Objects} \cup {Data(m) : m \in 1 .. MaxSends}

(* A call under way has a message to send; it negotiates only while nothing*)
(* is mapped, and pushes only to what is; and a datagram names an object   *)
(* or carries a message.                                                   *)
CallInv ==
  /\ ppc # "idle" => next <= MaxSends
  /\ ppc = "push" => pring = process
  /\ ppc \in {"request", "await"} => pring = 0
  /\ p2c \in Seq(Wire)

TypeInv == TypeOK /\ CallInv

LEMMA WireTags ==
  /\ Wire \subseteq [tag : {"REQ", "DATA"}, arg : Nat]
  /\ \A d \in Wire : /\ d.tag = "REQ" => d.arg \in Objects
                     /\ d.tag = "DATA" => d.arg \in 1 .. MaxSends /\ d = Data(d.arg)
  /\ \A o \in Objects : Request(o) \in Wire
  /\ \A m \in 1 .. MaxSends : Data(m) \in Wire
<1> USE NegotiationAssumption DEF NegotiationAssumption
<1>1. \A o \in Objects : Request(o) \in Wire
  BY DEF Wire
<1>2. \A m \in 1 .. MaxSends : Data(m) \in Wire
  BY DEF Wire
<1>3. ASSUME NEW o \in Objects
      PROVE  /\ Request(o) \in [tag : {"REQ", "DATA"}, arg : Nat]
             /\ Request(o).tag = "REQ" /\ Request(o).arg = o
  BY DEF Request, Objects
<1>4. ASSUME NEW m \in 1 .. MaxSends
      PROVE  /\ Data(m) \in [tag : {"REQ", "DATA"}, arg : Nat]
             /\ Data(m).tag = "DATA" /\ Data(m).arg = m
  BY DEF Data
<1> QED
  BY <1>1, <1>2, <1>3, <1>4 DEF Wire

LEMMA WireSeq ==
  ASSUME NEW s \in Seq(Wire)
  PROVE  s \in Seq([tag : {"REQ", "DATA"}, arg : Nat])
BY WireTags, SeqMonotonic

(* A step leaves a queue alone, adds to its end or takes from its front.   *)
LEMMA QueueStep ==
  ASSUME NEW S, NEW s \in Seq(S)
  PROVE  /\ Len(s) \in Nat
         /\ \A x \in S : Append(s, x) \in Seq(S) /\ Len(Append(s, x)) = Len(s) + 1
         /\ s # << >> => /\ Head(s) \in S /\ Tail(s) \in Seq(S)
                         /\ Len(s) \in Nat \ {0} /\ Len(Tail(s)) = Len(s) - 1
         /\ << >> \in Seq(S) /\ Len(<< >>) = 0
BY LenProperties, AppendProperties, HeadTailProperties, EmptySeq

(* Of the shared queues: each holds what it may hold, and no more than its *)
(* socket does.                                                            *)
QueuesOK ==
  /\ p2c \in Seq(Wire) /\ Len(p2c) <= QLen
  /\ c2p \in Seq({0, 1}) /\ Len(c2p) <= QLen
  /\ shm \in [Objects -> Seq(1 .. MaxSends)] /\ delivered \in Seq(1 .. MaxSends)

(* Every step keeps the queues in range (adapt_ipc.c:128-131, 148-156, 216,*)
(* 497-556; uds_fallback.c).                                               *)
LEMMA QueuesStep == TypeInv /\ [Next]_vars => QueuesOK'
<1> SUFFICES ASSUME TypeInv, [Next]_vars PROVE QueuesOK'
  OBVIOUS
<1> USE NegotiationAssumption DEF NegotiationAssumption, producer, consumer, bounds
<1>0. QueuesOK /\ process \in Objects /\ pring \in {0} \cup Objects /\ next \in Nat \ {0}
      /\ (ppc # "idle" => next \in 1 .. MaxSends) /\ status \in {0, 1}
      /\ (ppc = "push" => pring \in Objects) /\ cring \in {0} \cup Objects
  BY DEF TypeInv, TypeOK, CallInv, QueuesOK
<1>1. CASE SendRequest
  <2>1. UNCHANGED <<c2p, shm, delivered>>
    BY <1>1 DEF SendRequest
  <2>2. p2c' = p2c \/ (Len(p2c) < QLen /\ p2c' = Append(p2c, Request(process)))
    BY <1>1 DEF SendRequest
  <2>3. Request(process) \in Wire
    BY <1>0, WireTags
  <2>4. p2c' \in Seq(Wire) /\ Len(p2c') <= QLen
    <3>1. p2c \in Seq(Wire) /\ Len(p2c) \in Nat /\ Len(p2c) <= QLen
      BY <1>0, LenProperties DEF QueuesOK
    <3>2. /\ Append(p2c, Request(process)) \in Seq(Wire)
          /\ Len(Append(p2c, Request(process))) = Len(p2c) + 1
      BY <2>3, <3>1, QueueStep
    <3> QED
      BY <2>2, <3>1, <3>2
  <2> QED
    BY <1>0, <2>1, <2>4 DEF QueuesOK
<1>2. CASE TakeAck
  <2>1. UNCHANGED <<p2c, delivered>> /\ c2p # << >> /\ c2p' = Tail(c2p)
    BY <1>2 DEF TakeAck
  <2>2. shm' = shm \/ shm' = [shm EXCEPT ![process] = << >>]
    BY <1>2 DEF TakeAck
  <2>3. shm' \in [Objects -> Seq(1 .. MaxSends)]
    BY <1>0, <2>2, QueueStep DEF QueuesOK
  <2> QED
    BY <1>0, <2>1, <2>3, QueueStep DEF QueuesOK
<1>3. CASE SendDatagram
  <2>1. UNCHANGED <<c2p, shm, delivered>> /\ ppc # "idle"
    BY <1>3 DEF SendDatagram
  <2>2. p2c' = p2c \/ (Len(p2c) < QLen /\ p2c' = Append(p2c, Data(next)))
    BY <1>3 DEF SendDatagram
  <2>3. Data(next) \in Wire
    BY <1>0, <2>1, WireTags
  <2>4. p2c' \in Seq(Wire) /\ Len(p2c') <= QLen
    <3>1. p2c \in Seq(Wire) /\ Len(p2c) \in Nat /\ Len(p2c) <= QLen
      BY <1>0, LenProperties DEF QueuesOK
    <3>2. /\ Append(p2c, Data(next)) \in Seq(Wire)
          /\ Len(Append(p2c, Data(next))) = Len(p2c) + 1
      BY <2>3, <3>1, QueueStep
    <3> QED
      BY <2>2, <3>1, <3>2
  <2> QED
    BY <1>0, <2>1, <2>4 DEF QueuesOK
<1>4. CASE PushRecord
  <2>1. UNCHANGED <<p2c, c2p, delivered>> /\ pring \in Objects /\ next \in 1 .. MaxSends
    BY <1>0, <1>4 DEF PushRecord
  <2>2. shm' = [shm EXCEPT ![pring] = Append(shm[pring], next)]
    BY <1>4 DEF PushRecord
  <2>3. shm' \in [Objects -> Seq(1 .. MaxSends)]
    BY <1>0, <2>1, <2>2, QueueStep DEF QueuesOK
  <2> QED
    BY <1>0, <2>1, <2>3 DEF QueuesOK
<1>5. CASE PollRing
  <2>1. CASE UNCHANGED <<p2c, c2p, shm, delivered>>
    BY <1>0, <2>1 DEF QueuesOK
  <2>2. CASE cring # 0 /\ shm[cring] # << >>
    <3>1. /\ UNCHANGED <<p2c, c2p>> /\ delivered' = Append(delivered, Head(shm[cring]))
          /\ shm' = [shm EXCEPT ![cring] = Tail(shm[cring])]
      BY <1>5, <2>2 DEF PollRing
    <3>2. cring \in Objects /\ shm[cring] \in Seq(1 .. MaxSends)
      BY <1>0, <2>2 DEF QueuesOK
    <3>3. Head(shm[cring]) \in 1 .. MaxSends /\ Tail(shm[cring]) \in Seq(1 .. MaxSends)
      BY <2>2, <3>2, QueueStep
    <3> QED
      BY <1>0, <3>1, <3>2, <3>3, QueueStep DEF QueuesOK
  <2> QED
    BY <1>5, <2>1, <2>2 DEF PollRing
<1>6. CASE ReceiveData
  <2>1. /\ UNCHANGED <<c2p, shm>> /\ p2c # << >> /\ Head(p2c).tag = "DATA"
        /\ p2c' = Tail(p2c) /\ delivered' = Append(delivered, Head(p2c).arg)
    BY <1>6 DEF ReceiveData
  <2>2. Head(p2c).arg \in 1 .. MaxSends
    BY <1>0, <2>1, QueueStep, WireTags DEF QueuesOK
  <2> QED
    BY <1>0, <2>1, <2>2, QueueStep DEF QueuesOK
<1>7. CASE ReceiveRequest
  <2>1. UNCHANGED <<c2p, shm, delivered>> /\ p2c # << >> /\ p2c' = Tail(p2c)
    BY <1>7 DEF ReceiveRequest
  <2> QED
    BY <1>0, <2>1, QueueStep DEF QueuesOK
<1>8. CASE SendAck
  <2>1. UNCHANGED <<p2c, shm, delivered>> /\ Len(c2p) < QLen /\ c2p' = Append(c2p, status)
    BY <1>8 DEF SendAck
  <2> QED
    BY <1>0, <2>1, QueueStep DEF QueuesOK
<1>9. CASE CrashConsumer
  <2>1. UNCHANGED <<c2p, shm, delivered>> /\ p2c' = << >>
    BY <1>9 DEF CrashConsumer
  <2> QED
    BY <1>0, <2>1, QueueStep DEF QueuesOK
<1>10. CASE RestartProducer
  <2>1. UNCHANGED <<p2c, shm, delivered>> /\ c2p' = << >>
    BY <1>10 DEF RestartProducer
  <2> QED
    BY <1>0, <2>1, QueueStep DEF QueuesOK
<1>11. CASE UNCHANGED <<p2c, c2p, shm, delivered>>
  BY <1>0, <1>11 DEF QueuesOK
<1> QED
  BY <1>1, <1>2, <1>3, <1>4, <1>5, <1>6, <1>7, <1>8, <1>9, <1>10, <1>11
  DEF Next, Producer, Consumer, Send, TimeOut, PollTimeOut, StartConsumer, vars

(* The rest of the types, and what the calls under way rely on.            *)
LEMMA TypeInvStep == TypeInv /\ [Next]_vars => TypeInv'
<1> SUFFICES ASSUME TypeInv, [Next]_vars PROVE TypeInv'
  OBVIOUS
<1> USE NegotiationAssumption DEF NegotiationAssumption, producer, consumer, bounds
<1> DEFINE ProducerOK ==
             /\ ppc \in {"idle", "request", "await", "push", "datagram"}
             /\ class \in {"none", "small", "shm", "big"} /\ next \in 1 .. MaxSends + 1
             /\ retry \in BOOLEAN /\ due \in BOOLEAN
             /\ process \in 1 .. MaxProducers /\ pring \in {0, process}
             /\ ppc # "idle" => next <= MaxSends
             /\ ppc = "push" => pring = process
             /\ ppc \in {"request", "await"} => pring = 0
           ConsumerOK ==
             /\ cpc \in {"ring", "socket", "ack"} /\ cring \in {0} \cup Objects
             /\ status \in {0, 1} /\ up \in BOOLEAN
           BoundsOK ==
             /\ attachFails \in 0 .. MaxAttachFails /\ mapFails \in 0 .. MaxMapFails
             /\ late \in 0 .. MaxLate /\ crashes \in 0 .. MaxCrashes
<1>1. ProducerOK /\ ConsumerOK /\ BoundsOK /\ QueuesOK
  BY DEF TypeInv, TypeOK, CallInv, QueuesOK, Objects
<1>2. ProducerOK'
  <2>1. ASSUME NEW c \in {"small", "shm", "big"}, Send(c)
        PROVE  ProducerOK'
    BY <1>1, <2>1 DEF Send
  <2>2. CASE SendRequest
    BY <1>1, <2>2 DEF SendRequest, FallBack
  <2>3. CASE TakeAck
    BY <1>1, <2>3 DEF TakeAck, FallBack
  <2>4. CASE TimeOut
    BY <1>1, <2>4 DEF TimeOut, FallBack
  <2>5. CASE SendDatagram \/ PushRecord
    <3>1. /\ ppc # "idle" /\ ppc' = "idle" /\ class' = "none" /\ next' \in {next, next + 1}
          /\ retry' \in BOOLEAN /\ UNCHANGED <<due, process, pring>>
      BY <1>1, <2>5 DEF SendDatagram, PushRecord, Accepted
    <3> QED
      BY <1>1, <3>1
  <2>6. CASE RestartProducer
    <3>1. /\ ppc' = "idle" /\ class' = "none" /\ retry' = FALSE /\ due' = TRUE /\ pring' = 0
          /\ process < MaxProducers /\ process' = process + 1 /\ next' = next
      BY <2>6 DEF RestartProducer
    <3>2. process' \in 1 .. MaxProducers /\ next' \in 1 .. MaxSends + 1
      BY <1>1, <3>1
    <3> QED
      BY <3>1, <3>2
  <2>7. CASE UNCHANGED producer
    BY <1>1, <2>7
  <2> QED
    BY <2>1, <2>2, <2>3, <2>4, <2>5, <2>6, <2>7
    DEF Next, Producer, Consumer, PollRing, PollTimeOut, ReceiveData, ReceiveRequest,
        SendAck, StartConsumer, CrashConsumer, vars
<1>3. ConsumerOK'
  <2>1. CASE ReceiveRequest
    <3>1. p2c # << >> /\ Head(p2c).tag = "REQ"
      BY <2>1 DEF ReceiveRequest
    <3>2. Head(p2c).arg \in Objects
      BY <1>1, <3>1, QueueStep, WireTags DEF QueuesOK
    <3> QED
      BY <1>1, <2>1, <3>2 DEF ReceiveRequest
  <2>2. CASE PollRing \/ PollTimeOut \/ ReceiveData \/ SendAck
    BY <1>1, <2>2 DEF PollRing, PollTimeOut, ReceiveData, SendAck
  <2>3. CASE StartConsumer \/ CrashConsumer
    BY <1>1, <2>3 DEF StartConsumer, CrashConsumer
  <2>4. CASE UNCHANGED <<cpc, cring, status, up>>
    BY <1>1, <2>4
  <2> QED
    BY <2>1, <2>2, <2>3, <2>4
    DEF Next, Producer, Consumer, Send, SendRequest, TakeAck, TimeOut, SendDatagram,
        PushRecord, RestartProducer, vars
<1>4. BoundsOK'
  <2>1. CASE TakeAck
    BY <1>1, <2>1 DEF TakeAck
  <2>2. CASE TimeOut
    BY <1>1, <2>2 DEF TimeOut
  <2>3. CASE ReceiveRequest
    BY <1>1, <2>3 DEF ReceiveRequest
  <2>4. CASE CrashConsumer
    BY <1>1, <2>4 DEF CrashConsumer
  <2>5. CASE UNCHANGED bounds
    BY <1>1, <2>5
  <2> QED
    BY <2>1, <2>2, <2>3, <2>4, <2>5
    DEF Next, Producer, Consumer, Send, SendRequest, SendDatagram, PushRecord, PollRing,
        PollTimeOut, ReceiveData, SendAck, StartConsumer, RestartProducer, vars
<1>5. QueuesOK'
  BY QueuesStep
<1>6. p2c' \in Seq([tag : {"REQ", "DATA"}, arg : Nat])
  BY <1>5, WireSeq DEF QueuesOK
<1> QED
  BY <1>2, <1>3, <1>4, <1>5, <1>6 DEF TypeInv, TypeOK, CallInv, QueuesOK, Objects

(* Nothing is under way, mapped or queued in the beginning.                *)
LEMMA InitTypes == Init => TypeInv
<1> SUFFICES ASSUME Init PROVE TypeInv
  OBVIOUS
<1> USE NegotiationAssumption DEF NegotiationAssumption
<1>1. << >> \in Seq(Wire) /\ << >> \in Seq([tag : {"REQ", "DATA"}, arg : Nat])
      /\ << >> \in Seq({0, 1}) /\ << >> \in Seq(1 .. MaxSends) /\ Len(<< >>) = 0
  BY EmptySeq
<1>2. /\ p2c \in Seq([tag : {"REQ", "DATA"}, arg : Nat]) /\ Len(p2c) <= QLen
      /\ c2p \in Seq({0, 1}) /\ Len(c2p) <= QLen
      /\ shm \in [Objects -> Seq(1 .. MaxSends)] /\ delivered \in Seq(1 .. MaxSends)
  BY <1>1 DEF Init
<1>3. /\ ppc = "idle" /\ class = "none" /\ next = 1 /\ retry = FALSE /\ due = TRUE
      /\ process = 1 /\ pring = 0 /\ cpc = "ring" /\ cring = 0 /\ status = 0
      /\ up \in BOOLEAN /\ attachFails = 0 /\ mapFails = 0 /\ late = 0 /\ crashes = 0
      /\ p2c = << >>
  BY DEF Init
<1>4. /\ next \in 1 .. MaxSends + 1 /\ process \in Objects /\ pring \in {0, process}
      /\ attachFails \in 0 .. MaxAttachFails /\ mapFails \in 0 .. MaxMapFails
      /\ late \in 0 .. MaxLate /\ crashes \in 0 .. MaxCrashes
  BY <1>3 DEF Objects
<1>5. TypeOK
  BY <1>2, <1>3, <1>4 DEF TypeOK
<1> QED
  BY <1>1, <1>3, <1>5 DEF TypeInv, CallInv

(* The state stays in range whatever the queues, the messages, the restarts*)
(* and the failures: in particular no socket ever holds more than it can.  *)
THEOREM TypeCorrect == Spec => []TypeOK
<1>1. Init => TypeInv
  BY InitTypes
<1>2. TypeInv /\ [Next]_vars => TypeInv'
  BY TypeInvStep
<1>3. TypeInv => TypeOK
  BY DEF TypeInv
<1> QED
  BY <1>1, <1>2, <1>3, PTL DEF Spec

-----------------------------------------------------------------------------
Messages  == 1 .. MaxSends
Datagrams == {Data(m) : m \in Messages}

OnWire == {m \in Messages : Data(m) \in Range(p2c)}
In(o)  == Range(shm[o])
Done   == Range(delivered)
Sent   == 1 .. next - 1

(* No element of T is in the sequence twice.                               *)
Once(s, T) == \A i, j \in DOMAIN s : s[i] = s[j] /\ s[i] \in T => i = j

(* What a step does to the elements of a queue.                            *)
LEMMA RangeStep ==
  ASSUME NEW S, NEW s \in Seq(S), NEW T
  PROVE  /\ \A x \in S : /\ Range(Append(s, x)) = Range(s) \cup {x}
                         /\ Once(s, T) /\ (x \in T => x \notin Range(s))
                              => Once(Append(s, x), T)
         /\ s # << >> => /\ Range(s) = Range(Tail(s)) \cup {Head(s)}
                         /\ Once(s, T) => /\ Once(Tail(s), T)
                                          /\ Head(s) \in T => Head(s) \notin Range(Tail(s))
         /\ Range(<< >>) = {} /\ Once(<< >>, T)
<1>1. DOMAIN s = 1 .. Len(s) /\ Len(s) \in Nat
  BY LenProperties
<1>2. ASSUME NEW x \in S
      PROVE  /\ Range(Append(s, x)) = Range(s) \cup {x}
             /\ Once(s, T) /\ (x \in T => x \notin Range(s)) => Once(Append(s, x), T)
  <2> DEFINE t == Append(s, x)
  <2>1. DOMAIN t = 1 .. Len(s) + 1
    BY AppendProperties, LenProperties
  <2>2. (\A i \in 1 .. Len(s) : t[i] = s[i]) /\ t[Len(s) + 1] = x
    BY AppendProperties
  <2> HIDE DEF t
  <2>3. Range(t) = Range(s) \cup {x}
    BY <1>1, <2>1, <2>2 DEF Range
  <2>4. Once(s, T) /\ (x \in T => x \notin Range(s)) => Once(t, T)
    BY <1>1, <2>1, <2>2 DEF Range, Once
  <2> QED
    BY <2>3, <2>4 DEF t
<1>3. ASSUME s # << >>
      PROVE  /\ Range(s) = Range(Tail(s)) \cup {Head(s)}
             /\ Once(s, T) => /\ Once(Tail(s), T)
                              /\ Head(s) \in T => Head(s) \notin Range(Tail(s))
  <2> DEFINE t == Tail(s)
             h == Head(s)
  <2>1. Len(s) >= 1 /\ DOMAIN t = 1 .. Len(s) - 1
    BY <1>1, <1>3, EmptySeq, HeadTailProperties, LenProperties
  <2>2. (\A i \in 1 .. Len(s) - 1 : t[i] = s[i + 1]) /\ h = s[1]
    BY <1>3, HeadTailProperties
  <2> HIDE DEF t, h
  <2>3. \A i \in DOMAIN t : i + 1 \in DOMAIN s /\ t[i] = s[i + 1] /\ i + 1 # 1
    BY <1>1, <2>1, <2>2
  <2>4. \A i \in DOMAIN s : i # 1 => \E k \in DOMAIN t : i = k + 1 /\ s[i] = t[k]
    <3> SUFFICES ASSUME NEW i \in DOMAIN s, i # 1
                 PROVE  i - 1 \in DOMAIN t /\ i = (i - 1) + 1 /\ s[i] = t[i - 1]
      OBVIOUS
    <3>1. i - 1 \in 1 .. Len(s) - 1 /\ (i - 1) + 1 = i
      BY <1>1
    <3> QED
      BY <2>1, <2>2, <3>1
  <2>5. 1 \in DOMAIN s /\ h = s[1]
    BY <1>1, <2>1, <2>2
  <2>6. Range(s) = Range(t) \cup {h}
    <3>1. ASSUME NEW x \in Range(s) PROVE x \in Range(t) \cup {h}
      <4>1. PICK i \in DOMAIN s : x = s[i]
        BY <3>1 DEF Range
      <4> QED
        BY <2>4, <2>5, <4>1 DEF Range
    <3>2. Range(t) \subseteq Range(s) /\ h \in Range(s)
      BY <2>3, <2>5 DEF Range
    <3> QED
      BY <3>1, <3>2
  <2>7. Once(s, T) => (h \in T => h \notin Range(t))
    BY <2>3, <2>5 DEF Range, Once
  <2>8. ASSUME Once(s, T), NEW i \in DOMAIN t, NEW k \in DOMAIN t, t[i] = t[k], t[i] \in T
        PROVE  i = k
    <3>1. i + 1 = k + 1
      BY <2>3, <2>8 DEF Once
    <3> QED
      BY <1>1, <2>1, <3>1
  <2>9. Once(s, T) => Once(t, T)
    BY <2>8 DEF Once
  <2> QED
    BY <2>6, <2>7, <2>9 DEF t, h
<1>4. Range(<< >>) = {} /\ Once(<< >>, T)
  BY DEF Range, Once
<1> QED
  BY <1>2, <1>3, <1>4

(* A message is in one place at most, and only if it has been sent: on its *)
(* way as a datagram, in one object, or delivered.                         *)
OnceInv ==
  /\ Once(p2c, Datagrams) /\ Once(delivered, Messages)
  /\ \A o \in Objects : Once(shm[o], Messages)
  /\ OnWire \subseteq Sent /\ Done \subseteq Sent /\ OnWire \cap Done = {}
  /\ \A o \in Objects : /\ In(o) \subseteq Sent
                        /\ In(o) \cap OnWire = {} /\ In(o) \cap Done = {}
  /\ \A o, q \in Objects : o # q => In(o) \cap In(q) = {}

(* A message that was sent is somewhere; the object of a process that has  *)
(* mapped none yet is still empty, and so are those of its successors.     *)
HeldInv ==
  /\ \A m \in Sent : m \in OnWire \cup Done \/ \E o \in Objects : m \in In(o)
  /\ \A o \in Objects : o > process \/ (o = process /\ pring = 0) => shm[o] = << >>

(* Whatever arrives, is lost, or starts anew, no message gets into a second*)
(* place (adapt_ipc.c:128-131, 148-156, 497-556).                          *)
LEMMA OnceStep == TypeInv /\ OnceInv /\ [Next]_vars => OnceInv'
<1> SUFFICES ASSUME TypeInv, OnceInv, [Next]_vars PROVE OnceInv'
  OBVIOUS
<1> USE NegotiationAssumption DEF NegotiationAssumption, producer, consumer
<1>0. /\ p2c \in Seq(Wire) /\ delivered \in Seq(Messages)
      /\ shm \in [Objects -> Seq(Messages)]
      /\ next \in Nat \ {0} /\ (ppc # "idle" => next \in Messages)
      /\ process \in Objects /\ (ppc = "push" => pring \in Objects)
      /\ cring \in {0} \cup Objects
  BY DEF TypeInv, TypeOK, CallInv, Messages, Objects
<1>1. CASE /\ UNCHANGED <<next, shm, delivered>>
           /\ p2c' \in {p2c, << >>} \/ (p2c # << >> /\ p2c' = Tail(p2c))
  <2>1. Range(p2c') \subseteq Range(p2c) /\ Once(p2c', Datagrams)
    <3>1. CASE p2c' = p2c
      BY <3>1 DEF OnceInv
    <3>2. CASE p2c' = << >>
      BY <1>0, <3>2, RangeStep
    <3>3. CASE p2c # << >> /\ p2c' = Tail(p2c)
      BY <1>0, <3>3, RangeStep DEF OnceInv
    <3> QED
      BY <1>1, <3>1, <3>2, <3>3
  <2>2. OnWire' \subseteq OnWire
    BY <2>1 DEF OnWire
  <2> QED
    BY <1>1, <2>1, <2>2 DEF OnceInv, Done, In, Sent
<1>2. CASE UNCHANGED <<next, shm, delivered>> /\ p2c' = Append(p2c, Request(process))
  <2>1. Request(process) \in Wire /\ Request(process) \notin Datagrams
        /\ \A m \in Messages : Request(process) # Data(m)
    BY <1>0, WireTags DEF Datagrams, Request, Data
  <2>2. OnWire' = OnWire /\ Once(p2c', Datagrams)
    BY <1>0, <1>2, <2>1, RangeStep DEF OnWire, OnceInv
  <2> QED
    BY <1>2, <2>2 DEF OnceInv, Done, In, Sent
<1>3. CASE TakeAck
  <2>1. UNCHANGED <<next, p2c, delivered>>
    BY <1>3 DEF TakeAck
  <2>2. shm' = shm \/ shm' = [shm EXCEPT ![process] = << >>]
    BY <1>3 DEF TakeAck
  <2>3. \A o \in Objects : In(o)' \subseteq In(o) /\ Once(shm'[o], Messages)
    BY <1>0, <2>2, RangeStep DEF OnceInv, In
  <2> QED
    BY <2>1, <2>3 DEF OnceInv, OnWire, Done, Sent
<1>4. CASE SendDatagram /\ p2c' # p2c
  <2>1. /\ UNCHANGED <<shm, delivered>> /\ next' = next + 1 /\ next \in Messages
        /\ p2c' = Append(p2c, Data(next))
    BY <1>0, <1>4 DEF SendDatagram, Accepted
  <2>2. Data(next) \in Wire /\ next \notin Sent /\ Data(next) \notin Range(p2c)
    <3>1. Data(next) \in Wire
      BY <2>1, WireTags DEF Messages
    <3>2. next \notin Sent
      BY <1>0 DEF Sent
    <3> QED
      BY <2>1, <3>1, <3>2 DEF OnceInv, OnWire
  <2>3. Once(p2c', Datagrams) /\ Range(p2c') = Range(p2c) \cup {Data(next)}
    BY <1>0, <2>1, <2>2, RangeStep DEF OnceInv
  <2>4. OnWire' = OnWire \cup {next} /\ Sent' = Sent \cup {next}
    <3>1. \A m \in Messages : Data(m) = Data(next) => m = next
      BY DEF Data
    <3>2. Sent' = Sent \cup {next}
      BY <1>0, <2>1 DEF Sent
    <3> QED
      BY <2>1, <2>3, <3>1, <3>2 DEF OnWire
  <2> QED
    BY <2>1, <2>2, <2>3, <2>4 DEF OnceInv, Done, In
<1>5. CASE PushRecord
  <2>1. PICK p \in Objects :
          /\ UNCHANGED <<p2c, delivered>> /\ next' = next + 1 /\ next \in Messages
          /\ shm' = [shm EXCEPT ![p] = Append(shm[p], next)]
    BY <1>0, <1>5 DEF PushRecord, Accepted
  <2>2. next \notin Sent /\ Sent' = Sent \cup {next}
    BY <1>0, <2>1 DEF Sent
  <2>3. /\ Range(shm'[p]) = Range(shm[p]) \cup {next} /\ Once(shm'[p], Messages)
        /\ \A o \in Objects : o # p => shm'[o] = shm[o]
    <3>1. shm[p] \in Seq(Messages) /\ Once(shm[p], Messages)
      BY <1>0, <2>1 DEF OnceInv
    <3>2. next \notin Range(shm[p])
      BY <2>1, <2>2 DEF OnceInv, In
    <3>3. /\ Range(Append(shm[p], next)) = Range(shm[p]) \cup {next}
          /\ Once(Append(shm[p], next), Messages)
      BY <2>1, <3>1, <3>2, RangeStep
    <3> QED
      BY <1>0, <2>1, <3>3
  <2>4. OnWire' = OnWire /\ Done' = Done /\ Once(p2c', Datagrams) /\ Once(delivered', Messages)
    BY <2>1 DEF OnceInv, OnWire, Done
  <2>5. \A o \in Objects : Once(shm'[o], Messages)
    BY <2>3 DEF OnceInv
  <2>6. \A o \in Objects : /\ In(o)' \subseteq In(o) \cup {next}
                           /\ o # p => In(o)' = In(o)
    BY <2>3 DEF In
  <2> QED
    BY <2>2, <2>4, <2>5, <2>6 DEF OnceInv
<1>6. CASE PollRing /\ cring # 0 /\ shm[cring] # << >>
  <2>1. PICK c \in Objects :
          /\ UNCHANGED <<next, p2c>> /\ shm[c] # << >>
          /\ delivered' = Append(delivered, Head(shm[c]))
          /\ shm' = [shm EXCEPT ![c] = Tail(shm[c])]
    BY <1>0, <1>6 DEF PollRing
  <2>2. PICK h : h = Head(shm[c])
    OBVIOUS
  <2>3. shm[c] \in Seq(Messages) /\ h \in Messages
    BY <1>0, <2>1, <2>2, QueueStep
  <2>4. /\ Range(shm[c]) = Range(shm'[c]) \cup {h} /\ h \notin Range(shm'[c])
        /\ Once(shm'[c], Messages)
        /\ \A o \in Objects : o # c => shm'[o] = shm[o]
    <3>1. Once(shm[c], Messages)
      BY <2>1 DEF OnceInv
    <3>2. /\ Range(shm[c]) = Range(Tail(shm[c])) \cup {h}
          /\ h \notin Range(Tail(shm[c])) /\ Once(Tail(shm[c]), Messages)
      BY <2>1, <2>2, <2>3, <3>1, RangeStep
    <3> QED
      BY <1>0, <2>1, <3>2
  <2>5. h \in In(c) /\ h \notin Done
    BY <2>4 DEF OnceInv, In
  <2>6. Done' = Done \cup {h} /\ Once(delivered', Messages)
    BY <1>0, <2>1, <2>2, <2>3, <2>5, RangeStep DEF OnceInv, Done
  <2>7. OnWire' = OnWire /\ Sent' = Sent /\ Once(p2c', Datagrams)
    BY <2>1 DEF OnceInv, OnWire, Sent
  <2>8. \A o \in Objects : Once(shm'[o], Messages)
    BY <2>4 DEF OnceInv
  <2>9. \A o \in Objects : In(o)' \subseteq In(o) /\ h \notin In(o)'
    BY <2>1, <2>4, <2>5 DEF OnceInv, In
  <2> QED
    BY <2>1, <2>5, <2>6, <2>7, <2>8, <2>9 DEF OnceInv
<1>7. CASE ReceiveData
  <2>1. /\ UNCHANGED <<next, shm>> /\ p2c # << >> /\ p2c' = Tail(p2c)
        /\ Head(p2c).tag = "DATA" /\ delivered' = Append(delivered, Head(p2c).arg)
    BY <1>7 DEF ReceiveData
  <2>2. PICK h : h = Head(p2c).arg
    OBVIOUS
  <2>3. Head(p2c) \in Wire /\ h \in Messages /\ Head(p2c) = Data(h)
    BY <1>0, <2>1, <2>2, QueueStep, WireTags DEF Messages
  <2>4. /\ Range(p2c) = Range(p2c') \cup {Data(h)} /\ Data(h) \notin Range(p2c')
        /\ Once(p2c', Datagrams)
    BY <1>0, <2>1, <2>3, RangeStep DEF OnceInv, Datagrams
  <2>5. OnWire' \subseteq OnWire /\ h \in OnWire /\ h \notin OnWire'
    BY <2>3, <2>4 DEF OnWire
  <2>6. h \notin Done /\ Done' = Done \cup {h} /\ Once(delivered', Messages)
    BY <1>0, <2>1, <2>2, <2>3, <2>5, RangeStep DEF OnceInv, Done
  <2>7. Sent' = Sent /\ shm' = shm
    BY <2>1 DEF Sent
  <2> QED
    BY <2>4, <2>5, <2>6, <2>7 DEF OnceInv, In
<1>8. CASE SendRequest
  BY <1>1, <1>2, <1>8 DEF SendRequest
<1>9. CASE SendDatagram /\ p2c' = p2c
  BY <1>0, <1>1, <1>9, AppendProperties DEF SendDatagram
<1>10. CASE PollRing /\ ~(cring # 0 /\ shm[cring] # << >>)
  BY <1>1, <1>10 DEF PollRing
<1>11. CASE ReceiveRequest \/ CrashConsumer
  BY <1>1, <1>11 DEF ReceiveRequest, CrashConsumer
<1>12. CASE UNCHANGED <<next, shm, delivered, p2c>>
  BY <1>1, <1>12
<1> QED
  BY <1>3, <1>4, <1>5, <1>6, <1>7, <1>8, <1>9, <1>10, <1>11, <1>12
  DEF Next, Producer, Consumer, Send, TimeOut, PollTimeOut, SendAck, StartConsumer,
      RestartProducer, vars

LEMMA InitOnce == Init => OnceInv
BY DEF Init, OnceInv, Once, OnWire, In, Done, Sent, Range

(* The places a message is found in are those of OnceInv.                  *)
LEMMA PlacesOf ==
  ASSUME TypeInv, NEW m \in Messages, NEW p
  PROVE  p \in Places(m) <=>
           \/ \E i \in DOMAIN p2c : p2c[i] = Data(m) /\ p = <<"datagram", i>>
           \/ \E i \in DOMAIN delivered : delivered[i] = m /\ p = <<"delivered", i>>
           \/ \E o \in Objects : \E i \in DOMAIN shm[o] : shm[o][i] = m /\ p = <<o, i>>
BY DEF Places

LEMMA PlacesOnce ==
  ASSUME TypeInv, OnceInv, NEW m \in Messages
  PROVE  /\ Cardinality(Places(m)) <= IF m < next THEN 1 ELSE 0
         /\ Places(m) # {} => Cardinality(Places(m)) = 1
<1>1. ASSUME NEW p \in Places(m), NEW q \in Places(m)
      PROVE  p = q
  <2>1. CASE \E i \in DOMAIN p2c : p2c[i] = Data(m) /\ p = <<"datagram", i>>
    <3>1. m \in OnWire
      BY <2>1 DEF OnWire, Range
    <3>2. m \notin Done /\ \A o \in Objects : m \notin In(o)
      BY <3>1 DEF OnceInv
    <3>3. \E i \in DOMAIN p2c : p2c[i] = Data(m) /\ q = <<"datagram", i>>
      BY <3>2, PlacesOf DEF Done, In, Range
    <3> QED
      BY <2>1, <3>3 DEF OnceInv, Once, Datagrams
  <2>2. CASE \E i \in DOMAIN delivered : delivered[i] = m /\ p = <<"delivered", i>>
    <3>1. m \in Done
      BY <2>2 DEF Done, Range
    <3>2. m \notin OnWire /\ \A o \in Objects : m \notin In(o)
      BY <3>1 DEF OnceInv
    <3>3. \E i \in DOMAIN delivered : delivered[i] = m /\ q = <<"delivered", i>>
      BY <3>2, PlacesOf DEF OnWire, In, Range
    <3> QED
      BY <2>2, <3>3 DEF OnceInv, Once
  <2>3. CASE \E o \in Objects : \E i \in DOMAIN shm[o] : shm[o][i] = m /\ p = <<o, i>>
    <3>1. PICK o \in Objects : \E i \in DOMAIN shm[o] : shm[o][i] = m /\ p = <<o, i>>
      BY <2>3
    <3>2. m \in In(o)
      BY <3>1 DEF In, Range
    <3>3. m \notin OnWire /\ m \notin Done /\ \A r \in Objects : m \in In(r) => r = o
      BY <3>2 DEF OnceInv
    <3>4. PICK r \in Objects : \E k \in DOMAIN shm[r] : shm[r][k] = m /\ q = <<r, k>>
      BY <3>3, PlacesOf DEF OnWire, Done, Range
    <3>5. r = o
      BY <3>3, <3>4 DEF In, Range
    <3> QED
      BY <3>1, <3>4, <3>5 DEF OnceInv, Once
  <2> QED
    BY <2>1, <2>2, <2>3, PlacesOf
<1>2. Places(m) # {} => Cardinality(Places(m)) = 1
  <2>1. Places(m) # {} => \E p : Places(m) = {p}
    BY <1>1
  <2> QED
    BY <2>1, FS_Singleton
<1>3. Places(m) # {} => m \in Sent
  <2>1. Places(m) # {} => m \in OnWire \/ m \in Done \/ \E o \in Objects : m \in In(o)
    BY PlacesOf DEF OnWire, Done, In, Range
  <2> QED
    BY <2>1 DEF OnceInv
<1>4. m \in Sent => m < next
  BY DEF Sent, Messages, TypeInv, TypeOK
<1> QED
  BY <1>2, <1>3, <1>4, FS_EmptySet

(* Nothing is delivered twice, or without having been sent, whatever the   *)
(* restarts, the crashes, the requests sent again and the answers that come*)
(* late (adapt_ipc.c:128-190, 197-232).                                    *)
THEOREM DeliveredAtMostOnce == Spec => []AtMostOnce
<1>1. Init => TypeInv /\ OnceInv
  BY InitTypes, InitOnce
<1>2. TypeInv /\ OnceInv /\ [Next]_vars => (TypeInv /\ OnceInv)'
  BY TypeInvStep, OnceStep
<1>3. TypeInv /\ OnceInv => AtMostOnce
  BY PlacesOnce DEF AtMostOnce, Messages
<1> QED
  BY <1>1, <1>2, <1>3, PTL DEF Spec

-----------------------------------------------------------------------------
(* Only a crash of the consumer, which loses what its socket holds, and an *)
(* object taken over with records in it could drop a message; the second   *)
(* never happens (adapt_ipc.c:108, 171-176).                               *)
LEMMA HeldStep ==
  ASSUME MaxCrashes = 0
  PROVE  TypeInv /\ HeldInv /\ [Next]_vars => HeldInv'
<1> SUFFICES ASSUME TypeInv, HeldInv, [Next]_vars PROVE HeldInv'
  OBVIOUS
<1> USE NegotiationAssumption DEF NegotiationAssumption, producer, consumer
<1>0. /\ p2c \in Seq(Wire) /\ delivered \in Seq(Messages)
      /\ shm \in [Objects -> Seq(Messages)]
      /\ next \in Nat \ {0} /\ (ppc # "idle" => next \in Messages)
      /\ process \in Objects /\ (ppc = "push" => pring = process) /\ process # 0
      /\ (ppc = "await" => pring = 0)
      /\ cring \in {0} \cup Objects /\ crashes = 0
  BY DEF TypeInv, TypeOK, CallInv, Messages, Objects
<1>1. CASE UNCHANGED <<next, p2c, shm, delivered, process, pring>>
  BY <1>1 DEF HeldInv, OnWire, Done, In, Sent
<1>2. CASE SendRequest
  <2>1. UNCHANGED <<next, shm, delivered, process, pring>>
        /\ (p2c' = p2c \/ p2c' = Append(p2c, Request(process)))
    BY <1>2 DEF SendRequest
  <2>2. Request(process) \in Wire
    BY <1>0, WireTags
  <2>3. Range(p2c) \subseteq Range(p2c')
    <3>1. Range(Append(p2c, Request(process))) = Range(p2c) \cup {Request(process)}
      BY <1>0, <2>2, RangeStep
    <3> QED
      BY <2>1, <3>1
  <2>4. OnWire \subseteq OnWire'
    BY <2>3 DEF OnWire
  <2> QED
    BY <2>1, <2>4 DEF HeldInv, Done, In, Sent
<1>3. CASE TakeAck
  <2>1. UNCHANGED <<next, p2c, delivered, process>> /\ pring = 0
        /\ (UNCHANGED <<shm, pring>>
             \/ (pring' = process /\ shm' = [shm EXCEPT ![process] = << >>]))
    BY <1>0, <1>3 DEF TakeAck
  <2>2. shm[process] = << >>
    BY <1>0, <2>1 DEF HeldInv
  <2>3. shm' = shm
    BY <1>0, <2>1, <2>2
  <2> QED
    BY <1>0, <2>1, <2>3 DEF HeldInv, OnWire, Done, In, Sent
<1>4. CASE SendDatagram /\ up
  <2>1. /\ UNCHANGED <<shm, delivered, process, pring>> /\ next' = next + 1
        /\ next \in Messages /\ p2c' = Append(p2c, Data(next))
    BY <1>0, <1>4 DEF SendDatagram, Accepted
  <2>2. Data(next) \in Wire /\ Sent' = Sent \cup {next}
    <3>1. Data(next) \in Wire
      BY <2>1, WireTags DEF Messages
    <3>2. Sent' = Sent \cup {next}
      BY <1>0, <2>1 DEF Sent
    <3> QED
      BY <3>1, <3>2
  <2>3. Range(p2c') = Range(p2c) \cup {Data(next)}
    BY <1>0, <2>1, <2>2, RangeStep
  <2>4. OnWire \subseteq OnWire' /\ next \in OnWire'
    BY <2>1, <2>3 DEF OnWire
  <2> QED
    BY <2>1, <2>2, <2>4 DEF HeldInv, Done, In
<1>5. CASE PushRecord
  <2>1. /\ UNCHANGED <<p2c, delivered, process, pring>> /\ next' = next + 1
        /\ next \in Messages /\ pring = process
        /\ shm' = [shm EXCEPT ![process] = Append(shm[process], next)]
    BY <1>0, <1>5 DEF PushRecord, Accepted
  <2>2. Sent' = Sent \cup {next}
    BY <1>0, <2>1 DEF Sent
  <2>3. /\ Range(shm'[process]) = Range(shm[process]) \cup {next}
        /\ \A o \in Objects : o # process => shm'[o] = shm[o]
    <3>1. shm[process] \in Seq(Messages)
      BY <1>0
    <3>2. Range(Append(shm[process], next)) = Range(shm[process]) \cup {next}
      BY <2>1, <3>1, RangeStep
    <3> QED
      BY <1>0, <2>1, <3>2
  <2>4. \A m \in Sent' : m \in OnWire' \cup Done' \/ \E o \in Objects : m \in In(o)'
    <3>1. \A o \in Objects : Range(shm[o]) \subseteq Range(shm'[o])
      BY <2>3
    <3>2. OnWire' = OnWire /\ Done' = Done
      BY <2>1 DEF OnWire, Done
    <3> QED
      BY <1>0, <2>2, <2>3, <3>1, <3>2 DEF HeldInv, In
  <2>5. \A o \in Objects : o > process' \/ (o = process' /\ pring' = 0) => shm'[o] = << >>
    BY <1>0, <2>1, <2>3 DEF HeldInv, Objects
  <2> QED
    BY <2>4, <2>5 DEF HeldInv
<1>6. CASE PollRing /\ cring # 0 /\ shm[cring] # << >>
  <2>1. PICK c \in Objects :
          /\ UNCHANGED <<next, p2c, process, pring>> /\ shm[c] # << >>
          /\ delivered' = Append(delivered, Head(shm[c]))
          /\ shm' = [shm EXCEPT ![c] = Tail(shm[c])]
    BY <1>0, <1>6 DEF PollRing
  <2>2. PICK h : h = Head(shm[c])
    OBVIOUS
  <2>3. shm[c] \in Seq(Messages) /\ h \in Messages
    BY <1>0, <2>1, <2>2, QueueStep
  <2>4. /\ Range(shm[c]) = Range(shm'[c]) \cup {h}
        /\ \A o \in Objects : o # c => shm'[o] = shm[o]
    <3>1. Range(shm[c]) = Range(Tail(shm[c])) \cup {h}
      BY <2>1, <2>2, <2>3, RangeStep
    <3> QED
      BY <1>0, <2>1, <3>1
  <2>5. Done' = Done \cup {h} /\ OnWire' = OnWire /\ Sent' = Sent
    BY <1>0, <2>1, <2>2, <2>3, RangeStep DEF Done, OnWire, Sent
  <2>6. \A o \in Objects : In(o) \subseteq In(o)' \cup {h}
    BY <2>4 DEF In
  <2>7. \A m \in Sent' : m \in OnWire' \cup Done' \/ \E o \in Objects : m \in In(o)'
    BY <2>5, <2>6 DEF HeldInv
  <2>8. \A o \in Objects : o > process' \/ (o = process' /\ pring' = 0) => shm'[o] = << >>
    BY <2>1, <2>4 DEF HeldInv
  <2> QED
    BY <2>7, <2>8 DEF HeldInv
<1>7. CASE ReceiveData
  <2>1. /\ UNCHANGED <<next, shm, process, pring>> /\ p2c # << >> /\ p2c' = Tail(p2c)
        /\ Head(p2c).tag = "DATA" /\ delivered' = Append(delivered, Head(p2c).arg)
    BY <1>7 DEF ReceiveData
  <2>2. PICK h : h = Head(p2c).arg
    OBVIOUS
  <2>3. Head(p2c) \in Wire /\ h \in Messages /\ Head(p2c) = Data(h)
    BY <1>0, <2>1, <2>2, QueueStep, WireTags DEF Messages
  <2>4. Range(p2c) = Range(p2c') \cup {Data(h)} /\ Done' = Done \cup {h}
    BY <1>0, <2>1, <2>2, <2>3, RangeStep DEF Done
  <2>5. OnWire \subseteq OnWire' \cup {h}
    <3>1. \A m \in Messages : Data(m) = Data(h) => m = h
      BY DEF Data
    <3> QED
      BY <2>4, <3>1 DEF OnWire
  <2> QED
    BY <2>1, <2>4, <2>5 DEF HeldInv, In, Sent
<1>8. CASE ReceiveRequest
  <2>1. /\ UNCHANGED <<next, shm, delivered, process, pring>> /\ p2c # << >>
        /\ p2c' = Tail(p2c) /\ Head(p2c).tag = "REQ"
    BY <1>8 DEF ReceiveRequest
  <2>2. Range(p2c) = Range(p2c') \cup {Head(p2c)}
    BY <1>0, <2>1, RangeStep
  <2>3. \A m \in Messages : Data(m) # Head(p2c)
    BY <2>1 DEF Data
  <2>4. OnWire \subseteq OnWire'
    BY <2>2, <2>3 DEF OnWire
  <2> QED
    BY <2>1, <2>4 DEF HeldInv, Done, In, Sent
<1>9. CASE RestartProducer
  <2>1. /\ UNCHANGED <<next, p2c, shm, delivered>>
        /\ process' = process + 1 /\ pring' = 0
    BY <1>9 DEF RestartProducer
  <2>2. \A o \in Objects : o > process' \/ (o = process' /\ pring' = 0) => shm'[o] = << >>
    BY <1>0, <2>1 DEF HeldInv, Objects
  <2> QED
    BY <2>1, <2>2 DEF HeldInv, OnWire, Done, In, Sent
<1>10. CASE SendDatagram /\ ~up
  BY <1>1, <1>10 DEF SendDatagram
<1>11. CASE PollRing /\ ~(cring # 0 /\ shm[cring] # << >>)
  BY <1>1, <1>11 DEF PollRing
<1>12. ~CrashConsumer
  BY <1>0 DEF CrashConsumer
<1> QED
  BY <1>1, <1>2, <1>3, <1>4, <1>5, <1>6, <1>7, <1>8, <1>9, <1>10, <1>11, <1>12
  DEF Next, Producer, Consumer, Send, TimeOut, PollTimeOut, SendAck, StartConsumer, vars

(* "No messages are dropped" (adapt_ipc.c:108): while the consumer stays   *)
(* up, every message adapt_send took is in exactly one place, however often*)
(* its producer is replaced, and one that was refused is nowhere.          *)
THEOREM NothingDropped == ASSUME MaxCrashes = 0 PROVE Spec => []Conserved
<1>1. Init => TypeInv /\ OnceInv /\ HeldInv
  BY InitTypes, InitOnce DEF Init, HeldInv, Sent
<1>2. TypeInv /\ OnceInv /\ HeldInv /\ [Next]_vars => (TypeInv /\ OnceInv /\ HeldInv)'
  BY TypeInvStep, OnceStep, HeldStep
<1>3. TypeInv /\ OnceInv /\ HeldInv => Conserved
  <2> SUFFICES ASSUME TypeInv, OnceInv, HeldInv, NEW m \in Messages
               PROVE  Cardinality(Places(m)) = IF m < next THEN 1 ELSE 0
    BY DEF Conserved, Messages
  <2>1. CASE m < next
    <3>0. next \in Nat
      BY DEF TypeInv, TypeOK
    <3>1. m \in Sent
      BY <2>1, <3>0 DEF Sent, Messages
    <3>2. m \in OnWire \/ m \in Done \/ \E o \in Objects : m \in In(o)
      BY <3>1 DEF HeldInv
    <3>3. Places(m) # {}
      <4>1. CASE m \in OnWire
        BY <4>1, PlacesOf DEF OnWire, Range
      <4>2. CASE m \in Done
        BY <4>2, PlacesOf DEF Done, Range
      <4>3. CASE \E o \in Objects : m \in In(o)
        <5>1. PICK o \in Objects : m \in In(o)
          BY <4>3
        <5>2. PICK i \in DOMAIN shm[o] : shm[o][i] = m
          BY <5>1, Zenon DEF In, Range
        <5>3. <<o, i>> \in Places(m)
          BY <5>2, PlacesOf, Zenon
        <5> QED
          BY <5>3
      <4> QED
        BY <3>2, <4>1, <4>2, <4>3
    <3> QED
      BY <2>1, <3>3, PlacesOnce
  <2>2. CASE ~(m < next)
    <3>1. Places(m) = {}
      BY <2>2, PlacesOnce
    <3> QED
      BY <2>2, <3>1, FS_EmptySet
  <2> QED
    BY <2>1, <2>2
<1> QED
  BY <1>1, <1>2, <1>3, PTL DEF Spec

-----------------------------------------------------------------------------
(* A good answer given, on its way or taken means that the consumer has    *)
(* mapped the one object there is.                                         *)
SameInv ==
  pring # 0 \/ 0 \in Range(c2p) \/ (cpc = "ack" /\ status = 0) => cring = 1

(* Of one producer process and a consumer that stays up, the mapping on one*)
(* side is never ahead of the other's (adapt_ipc.c:160-176, 199-216).      *)
LEMMA SameStep ==
  ASSUME MaxProducers = 1, MaxCrashes = 0
  PROVE  TypeInv /\ SameInv /\ [Next]_vars => SameInv'
<1> SUFFICES ASSUME TypeInv, SameInv, [Next]_vars PROVE SameInv'
  OBVIOUS
<1> USE DEF producer, consumer
<1>0. /\ c2p \in Seq({0, 1}) /\ p2c \in Seq(Wire) /\ status \in {0, 1}
      /\ process = 1 /\ Objects = {1} /\ cring \in {0, 1} /\ crashes = 0
  BY DEF TypeInv, TypeOK, CallInv, Objects
<1>1. CASE TakeAck
  <2>1. UNCHANGED consumer /\ c2p # << >> /\ c2p' = Tail(c2p)
        /\ (pring' # 0 => pring # 0 \/ Head(c2p) = 0)
    BY <1>1 DEF TakeAck
  <2>2. Range(c2p) = Range(c2p') \cup {Head(c2p)}
    BY <1>0, <2>1, RangeStep
  <2> QED
    BY <2>1, <2>2 DEF SameInv
<1>2. CASE ReceiveRequest
  <2>1. /\ UNCHANGED <<pring, c2p>> /\ p2c # << >> /\ Head(p2c).tag = "REQ"
        /\ \/ cring # 0 /\ cring' = cring
           \/ cring = 0 /\ cring' = Head(p2c).arg
           \/ cring = 0 /\ cring' = 0 /\ status' = 1
    BY <1>2 DEF ReceiveRequest
  <2>2. Head(p2c).arg = 1
    BY <1>0, <2>1, QueueStep, WireTags
  <2> QED
    BY <1>0, <2>1, <2>2 DEF SameInv
<1>3. CASE SendAck
  <2>1. /\ UNCHANGED <<pring, cring>> /\ cpc = "ack" /\ cpc' = "ring"
        /\ c2p' = Append(c2p, status)
    BY <1>3 DEF SendAck
  <2>2. Range(c2p') = Range(c2p) \cup {status}
    BY <1>0, <2>1, RangeStep
  <2> QED
    BY <2>1, <2>2 DEF SameInv
<1>4. ~CrashConsumer
  BY <1>0 DEF CrashConsumer
<1>5. ~RestartProducer
  BY <1>0 DEF RestartProducer
<1>6. CASE UNCHANGED <<pring, c2p, cring, status>> /\ (cpc' = "ack" => cpc = "ack")
  BY <1>6 DEF SameInv
<1> QED
  BY <1>1, <1>2, <1>3, <1>4, <1>5, <1>6
  DEF Next, Producer, Consumer, Send, SendRequest, TimeOut, SendDatagram, PushRecord,
      PollRing, PollTimeOut, ReceiveData, StartConsumer, vars

(* "Returns 0 once the ring is mapped on both sides" (adapt_ipc.c:109) is  *)
(* true of one process on each side, whatever the order of requests, late  *)
(* answers and failures to map.                                            *)
THEOREM BothMapOneObject ==
  ASSUME MaxProducers = 1, MaxCrashes = 0 PROVE Spec => []SameObject
<1>1. Init => TypeInv /\ SameInv
  BY InitTypes DEF Init, SameInv, Range
<1>2. TypeInv /\ SameInv /\ [Next]_vars => (TypeInv /\ SameInv)'
  BY TypeInvStep, SameStep
<1>3. TypeInv /\ SameInv => SameObject
  BY DEF TypeInv, TypeOK, Objects, SameInv, SameObject
<1> QED
  BY <1>1, <1>2, <1>3, PTL DEF Spec

-----------------------------------------------------------------------------
Requests(s) == {i \in DOMAIN s : s[i].tag = "REQ"}

LEMMA RequestCount ==
  ASSUME NEW s \in Seq(Wire)
  PROVE  /\ IsFiniteSet(Requests(s)) /\ Cardinality(Requests(s)) \in Nat
         /\ \A d \in Wire : Cardinality(Requests(Append(s, d)))
                              = Cardinality(Requests(s)) + IF d.tag = "REQ" THEN 1 ELSE 0
         /\ s # << >> => Cardinality(Requests(Tail(s)))
                           = Cardinality(Requests(s)) - IF Head(s).tag = "REQ" THEN 1 ELSE 0
         /\ Cardinality(Requests(<< >>)) = 0
<1>1. Len(s) \in Nat /\ DOMAIN s = 1 .. Len(s)
  BY LenProperties
<1>2. IsFiniteSet(Requests(s)) /\ Cardinality(Requests(s)) \in Nat
  <2>1. IsFiniteSet(1 .. Len(s)) /\ Requests(s) \in SUBSET (1 .. Len(s))
    BY <1>1, FS_Interval DEF Requests
  <2> QED
    BY <2>1, FS_Subset, FS_CardinalityType
<1>3. ASSUME NEW d \in Wire
      PROVE  Cardinality(Requests(Append(s, d)))
               = Cardinality(Requests(s)) + IF d.tag = "REQ" THEN 1 ELSE 0
  <2> DEFINE t == Append(s, d)
  <2>1. DOMAIN t = 1 .. Len(s) + 1 /\ t[Len(s) + 1] = d
        /\ \A i \in 1 .. Len(s) : t[i] = s[i]
    BY AppendProperties, LenProperties
  <2> HIDE DEF t
  <2>2. CASE d.tag = "REQ"
    <3>1. Requests(t) = Requests(s) \cup {Len(s) + 1} /\ Len(s) + 1 \notin Requests(s)
      BY <1>1, <2>1, <2>2 DEF Requests
    <3> QED
      BY <1>2, <2>2, <3>1, FS_AddElement DEF t
  <2>3. CASE d.tag # "REQ"
    <3>1. Requests(t) = Requests(s)
      BY <1>1, <2>1, <2>3 DEF Requests
    <3> QED
      BY <1>2, <2>3, <3>1 DEF t
  <2> QED
    BY <2>2, <2>3
<1>4. ASSUME s # << >>
      PROVE  Cardinality(Requests(Tail(s)))
               = Cardinality(Requests(s)) - IF Head(s).tag = "REQ" THEN 1 ELSE 0
  <2> DEFINE t == Tail(s)
             R == Requests(s) \ {1}
  <2>1. DOMAIN t = 1 .. Len(s) - 1 /\ Head(s) = s[1] /\ Len(s) >= 1
        /\ \A i \in 1 .. Len(s) - 1 : t[i] = s[i + 1]
    BY <1>1, <1>4, HeadTailProperties, LenProperties, EmptySeq
  <2> HIDE DEF t
  <2>2. PICK f : f = [i \in R |-> i - 1]
    OBVIOUS
  <2>3. \A i \in R : i \in 2 .. Len(s) /\ s[i].tag = "REQ" /\ i - 1 \in Requests(t)
    BY <1>1, <2>1 DEF Requests
  <2>4. \A k \in Requests(t) : k + 1 \in R /\ f[k + 1] = k
    BY <1>1, <2>1, <2>2 DEF Requests
  <2>5. f \in Bijection(R, Requests(t))
    <3>1. f \in [R -> Requests(t)]
      BY <2>2, <2>3
    <3>2. \A i, k \in R : f[i] = f[k] => i = k
      BY <2>2, <2>3
    <3> QED
      BY <2>4, <3>1, <3>2 DEF Bijection, Injection, Surjection, IsInjective
  <2>6. IsFiniteSet(R)
        /\ Cardinality(R) = IF 1 \in Requests(s) THEN Cardinality(Requests(s)) - 1
                                                 ELSE Cardinality(Requests(s))
    BY <1>2, FS_RemoveElement
  <2>7. Cardinality(Requests(t)) = Cardinality(R)
    BY <2>5, <2>6, FS_Bijection DEF ExistsBijection
  <2>8. 1 \in Requests(s) <=> Head(s).tag = "REQ"
    BY <1>1, <2>1 DEF Requests
  <2> QED
    BY <1>2, <2>6, <2>7, <2>8 DEF t
<1>5. Cardinality(Requests(<< >>)) = 0
  BY FS_EmptySet DEF Requests
<1> QED
  BY <1>2, <1>3, <1>4, <1>5

(* Every answer that is owed or given stands for a request: for the one    *)
(* this process waits for, for one whose wait it gave up, or for the last  *)
(* one of a process before it.                                             *)
OwedInv ==
  Cardinality(Requests(p2c)) + (IF cpc = "ack" THEN 1 ELSE 0) + Len(c2p)
    <= late + (process - 1) + (IF ppc = "await" THEN 1 ELSE 0)

(* A request adds one answer and one wait for it; a wait that ends without *)
(* one is late, unless nothing is owed (adapt_ipc.c:148-182, 216).         *)
LEMMA OwedStep == TypeInv /\ OwedInv /\ [Next]_vars => OwedInv'
<1> SUFFICES ASSUME TypeInv, OwedInv, [Next]_vars PROVE OwedInv'
  OBVIOUS
<1> USE DEF producer, consumer, bounds
<1> DEFINE Owed == Cardinality(Requests(p2c))
<1>0. /\ p2c \in Seq(Wire) /\ c2p \in Seq({0, 1}) /\ Len(c2p) \in Nat
      /\ process \in Objects /\ process \in Nat \ {0} /\ next \in Nat \ {0} /\ late \in Nat
      /\ (ppc # "idle" => next \in 1 .. MaxSends) /\ status \in {0, 1}
  BY NegotiationAssumption, LenProperties
  DEF NegotiationAssumption, TypeInv, TypeOK, CallInv, Objects
<1>1. Owed \in Nat
  BY <1>0, RequestCount
<1>2. CASE SendRequest
  <2>1. CASE up
    <3>1. /\ UNCHANGED <<late, process, c2p, cpc>> /\ ppc = "request" /\ ppc' = "await"
          /\ p2c' = Append(p2c, Request(process))
      BY <1>2, <2>1 DEF SendRequest
    <3>2. Owed' = Owed + 1
      <4>1. Request(process) \in Wire /\ Request(process).tag = "REQ"
        BY <1>0, WireTags DEF Request
      <4> QED
        BY <1>0, <3>1, <4>1, RequestCount
    <3> QED
      BY <1>0, <1>1, <3>1, <3>2 DEF OwedInv
  <2>2. CASE ~up
    BY <1>2, <2>2 DEF SendRequest, FallBack, OwedInv
  <2> QED
    BY <2>1, <2>2
<1>3. CASE TakeAck
  <2>1. /\ UNCHANGED <<late, process, p2c, cpc>> /\ ppc = "await" /\ c2p # << >>
        /\ c2p' = Tail(c2p)
    BY <1>3 DEF TakeAck
  <2>2. Len(c2p') = Len(c2p) - 1
    BY <1>0, <2>1, QueueStep
  <2> QED
    BY <1>0, <1>1, <2>1, <2>2 DEF OwedInv
<1>4. CASE TimeOut
  <2>1. /\ UNCHANGED <<process, p2c, c2p, cpc>> /\ ppc = "await" /\ ppc' # "await"
        /\ c2p = << >> /\ late' = IF AnswerOwed THEN late + 1 ELSE late
    BY <1>4 DEF TimeOut, FallBack
  <2>2. CASE AnswerOwed
    BY <1>0, <1>1, <2>1, <2>2 DEF OwedInv
  <2>3. CASE ~AnswerOwed
    <3>1. Requests(p2c) = {} /\ cpc # "ack"
      BY <2>3 DEF AnswerOwed, Requests
    <3>2. Owed = 0 /\ Len(c2p) = 0
      BY <2>1, <3>1, FS_EmptySet, EmptySeq
    <3> QED
      BY <1>0, <2>1, <2>3, <3>1, <3>2 DEF OwedInv
  <2> QED
    BY <2>2, <2>3
<1>5. CASE SendDatagram
  <2>1. UNCHANGED <<late, process, c2p, cpc>> /\ ppc = "datagram" /\ ppc' = "idle"
        /\ p2c' \in {p2c, Append(p2c, Data(next))}
    BY <1>5 DEF SendDatagram, Accepted
  <2>2. Owed' = Owed
    <3>1. Data(next) \in Wire /\ Data(next).tag # "REQ"
      BY <1>0, <2>1, WireTags DEF Data
    <3>2. Cardinality(Requests(Append(p2c, Data(next)))) = Owed
      BY <1>0, <1>1, <3>1, RequestCount
    <3> QED
      BY <2>1, <3>2
  <2> QED
    BY <2>1, <2>2 DEF OwedInv
<1>6. CASE ReceiveData \/ ReceiveRequest
  <2>1. /\ UNCHANGED <<late, process, c2p, ppc>> /\ p2c # << >> /\ p2c' = Tail(p2c)
        /\ cpc = "socket" /\ cpc' = IF Head(p2c).tag = "REQ" THEN "ack" ELSE "ring"
    BY <1>6 DEF ReceiveData, ReceiveRequest
  <2>2. Owed' = Owed - IF Head(p2c).tag = "REQ" THEN 1 ELSE 0
    BY <1>0, <2>1, RequestCount
  <2> QED
    BY <1>0, <1>1, <2>1, <2>2 DEF OwedInv
<1>7. CASE SendAck
  <2>1. /\ UNCHANGED <<late, process, p2c, ppc>> /\ cpc = "ack" /\ cpc' = "ring"
        /\ c2p' = Append(c2p, status)
    BY <1>7 DEF SendAck
  <2>2. Len(c2p') = Len(c2p) + 1
    BY <1>0, <2>1, QueueStep
  <2> QED
    BY <1>0, <1>1, <2>1, <2>2 DEF OwedInv
<1>8. CASE CrashConsumer
  <2>1. UNCHANGED <<late, process, ppc, c2p>> /\ cpc' = "ring" /\ p2c' = << >>
    BY <1>8 DEF CrashConsumer
  <2>2. Owed' = 0
    BY <1>0, <2>1, RequestCount
  <2> QED
    BY <1>0, <1>1, <2>1, <2>2 DEF OwedInv
<1>9. CASE RestartProducer
  <2>1. /\ UNCHANGED <<late, cpc, p2c>> /\ process' = process + 1 /\ ppc' = "idle"
        /\ c2p' = << >>
    BY <1>9 DEF RestartProducer
  <2>2. Len(c2p') = 0
    BY <2>1, EmptySeq
  <2> QED
    BY <1>0, <1>1, <2>1, <2>2 DEF OwedInv
<1>10. CASE UNCHANGED <<late, process, p2c, c2p>> /\ (ppc = "await" => ppc' = "await")
            /\ (cpc' = "ack" => cpc = "ack")
  BY <1>0, <1>1, <1>10 DEF OwedInv
<1> QED
  BY <1>2, <1>3, <1>4, <1>5, <1>6, <1>7, <1>8, <1>9, <1>10
  DEF Next, Producer, Consumer, Send, PushRecord, PollRing, PollTimeOut, StartConsumer,
      vars

(* A producer that has finished negotiating reads no answer any more.  As  *)
(* long as fewer waits were given up, and fewer processes replaced, than   *)
(* the queue has room for, the consumer never blocks answering it          *)
(* (adapt_ipc.c:216): NegotiationDeadlock shows what happens otherwise.    *)
THEOREM AnswersFit ==
  ASSUME MaxLate + MaxProducers < QLen + 2 PROVE Spec => []AckHasRoom
<1>1. Init => TypeInv /\ OwedInv
  <2>1. << >> \in Seq(Wire)
    BY EmptySeq
  <2>2. Cardinality(Requests(<< >>)) = 0 /\ Len(<< >>) = 0
    BY <2>1, RequestCount, EmptySeq
  <2> QED
    BY <2>2, InitTypes DEF Init, OwedInv
<1>2. TypeInv /\ OwedInv /\ [Next]_vars => (TypeInv /\ OwedInv)'
  BY TypeInvStep, OwedStep
<1>3. TypeInv /\ OwedInv => AckHasRoom
  <2> SUFFICES ASSUME TypeInv, OwedInv, cpc = "ack", pring # 0
               PROVE  Len(c2p) < QLen
    BY DEF AckHasRoom
  <2>1. ppc # "await" /\ process <= MaxProducers /\ late <= MaxLate
        /\ process \in Nat /\ late \in Nat /\ Len(c2p) \in Nat
        /\ Cardinality(Requests(p2c)) \in Nat
    BY NegotiationAssumption, LenProperties, RequestCount
    DEF NegotiationAssumption, TypeInv, TypeOK, CallInv, Objects
  <2> QED
    BY <2>1, NegotiationAssumption DEF OwedInv, NegotiationAssumption
<1> QED
  BY <1>1, <1>2, <1>3, PTL DEF Spec

================================================================================
