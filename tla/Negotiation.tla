------------------------------- MODULE Negotiation ------------------------------
(***************************************************************************)
(* Lazy set-up of the shared-memory path and the fallback to datagrams     *)
(* meanwhile: adapt_send with producer_ensure_shm in one process,          *)
(* adapt_recv with handle_control in the other, over two AF_UNIX datagram  *)
(* sockets and the shared-memory objects they name to each other           *)
(* (src/src/adapt_ipc.c, src/src/uds_fallback.c).                          *)
(*                                                                         *)
(* A local datagram socket loses and reorders nothing while it is bound;   *)
(* it holds QLen datagrams and then blocks the sender.  What is queued in  *)
(* it is gone when its owner restarts.  The time-outs are choices: a wait  *)
(* may give up whenever nothing is there to be read.  Every object has the *)
(* number of the producer process that names it, and its records are a     *)
(* queue (SpscRing, FlowControl) with room for MaxSends.                   *)
(***************************************************************************)
EXTENDS Integers, Sequences, FiniteSets

CONSTANTS QLen,         \* datagrams a socket's receive queue holds
          MaxSends,     \* bound: messages the application sends
          MaxProducers, \* bound: producer processes, one after the other
          MaxCrashes,   \* bound: crashes of the consumer
          MaxAttachFails, \* bound: times the consumer fails to map an object
          MaxMapFails,    \* bound: times the producer does
          MaxLate         \* bound: waits that give up with an answer owed

ASSUME NegotiationAssumption ==
  /\ QLen \in Nat \ {0} /\ MaxSends \in Nat /\ MaxProducers \in Nat \ {0}
  /\ MaxCrashes \in Nat /\ MaxAttachFails \in Nat
  /\ MaxMapFails \in Nat /\ MaxLate \in Nat

VARIABLES
  ppc,        \* producer: its place in adapt_send
  class,      \* the message: "small" routed to UDS, "shm" to the ring, "big"
              \* too: it does not fit a datagram
  next,       \* number of the message to send
  retry,      \* ctx->retry_pending
  due,        \* more than ADAPT_NEGOT_RESEND_MS since the last request
  process,    \* number of the producer process, hence of its neg_name
  pring,      \* the object the producer has mapped, 0 if none: negot_done
  cpc,        \* consumer: its place in adapt_recv
  cring,      \* the object the consumer has mapped, 0 if none
  status,     \* status of the ACK it is about to send
  up,         \* the consumer's socket is bound
  p2c, c2p,   \* receive queues of the consumer's and the producer's socket
  shm,        \* records in each object
  delivered,  \* messages adapt_recv returned, in order
  attachFails, mapFails, late, crashes

producer == <<ppc, class, next, retry, due, process, pring>>
consumer == <<cpc, cring, status, up, delivered>>
bounds == <<attachFails, mapFails, late, crashes>>
vars == <<producer, consumer, p2c, c2p, shm, bounds>>

-----------------------------------------------------------------------------
Objects == 1 .. MaxProducers
Request(object) == [tag |-> "REQ", arg |-> object]
Data(m) == [tag |-> "DATA", arg |-> m]

Init ==
  /\ ppc = "idle" /\ class = "none" /\ next = 1 /\ retry = FALSE /\ due = TRUE
  /\ process = 1 /\ pring = 0
  /\ cpc = "ring" /\ cring = 0 /\ status = 0 /\ up \in BOOLEAN
  /\ p2c = << >> /\ c2p = << >> /\ shm = [o \in Objects |-> << >>]
  /\ delivered = << >>
  /\ attachFails = 0 /\ mapFails = 0 /\ late = 0 /\ crashes = 0

-----------------------------------------------------------------------------
(* The slip: the test of the interval between requests is inverted.        *)
SendUnlessDue(c) ==
  /\ ppc = "idle" /\ next <= MaxSends
  /\ retry => c = "big"
  /\ class' = c
  /\ due' \in {due, TRUE}
  /\ ppc' = IF c = "small" THEN "datagram"
            ELSE IF pring # 0 THEN "push"
            ELSE IF due' THEN "await" ELSE "request"
  /\ UNCHANGED <<next, retry, process, pring, consumer, p2c, c2p, shm, bounds>>

(* adapt_send.  A message that was refused with -EAGAIN keeps its route    *)
(* when it is sent again; another one is classified.                       *)
Send(c) ==
  /\ ppc = "idle" /\ next <= MaxSends
  /\ retry => c = "big"
  /\ class' = c
  /\ due' \in {due, TRUE}
  /\ ppc' = IF c = "small" THEN "datagram"
            ELSE IF pring # 0 THEN "push"
            ELSE IF due' THEN "request" ELSE "await"
  /\ UNCHANGED <<next, retry, process, pring, consumer, p2c, c2p, shm, bounds>>

(* producer_ensure_shm failed: a message that fits goes as a datagram, the *)
(* caller of another one is told to come back.                             *)
FallBack ==
  IF class = "shm"
  THEN ppc' = "datagram" /\ UNCHANGED <<class, retry>>
  ELSE ppc' = "idle" /\ class' = "none" /\ retry' = TRUE

Accepted == ppc' = "idle" /\ class' = "none" /\ next' = next + 1 /\ retry' = FALSE

(* The slip: sendto does not wait for room.                                *)
SendRequestUnbounded ==
  /\ ppc = "request" /\ up
  /\ p2c' = Append(p2c, Request(process))
  /\ ppc' = "await" /\ due' = FALSE
  /\ UNCHANGED <<class, retry, next, process, pring, consumer, c2p, shm, bounds>>

(* SHM_SETUP_REQ names the object; sendto waits for room in the queue, and *)
(* fails at once if nobody is bound.                                       *)
SendRequest ==
  /\ ppc = "request"
  /\ \/ /\ up /\ Len(p2c) < QLen
        /\ p2c' = Append(p2c, Request(process))
        /\ ppc' = "await" /\ due' = FALSE
        /\ UNCHANGED <<class, retry>>
     \/ /\ ~up
        /\ FallBack
        /\ UNCHANGED <<p2c, due>>
  /\ UNCHANGED <<next, process, pring, consumer, c2p, shm, bounds>>

(* The slip: the status of the ACK is not looked at.                       *)
TakeAnyAck ==
  /\ ppc = "await" /\ c2p # << >>
  /\ c2p' = Tail(c2p)
  /\ pring' = process /\ shm' = [shm EXCEPT ![process] = << >>]
  /\ ppc' = "push"
  /\ UNCHANGED <<class, retry, next, due, process, consumer, p2c, bounds>>

(* An ACK with status 0 lets the producer map the object and initialise    *)
(* its header; any other datagram is ignored and the wait goes on.         *)
TakeAck ==
  /\ ppc = "await" /\ c2p # << >>
  /\ c2p' = Tail(c2p)
  /\ \/ /\ Head(c2p) = 0
        /\ pring' = process /\ shm' = [shm EXCEPT ![process] = << >>]
        /\ ppc' = "push"
        /\ UNCHANGED <<class, retry, mapFails>>
     \/ /\ Head(c2p) = 0 /\ mapFails < MaxMapFails
        /\ mapFails' = mapFails + 1
        /\ FallBack
        /\ UNCHANGED <<pring, shm>>
     \/ /\ Head(c2p) # 0
        /\ UNCHANGED <<ppc, class, retry, pring, shm, mapFails>>
  /\ UNCHANGED <<next, due, process, consumer, p2c, attachFails, late, crashes>>

(* The deadline is only looked at when nothing is there to be read; it is  *)
(* longer than the interval between requests.                              *)
AnswerOwed == cpc = "ack" \/ \E i \in DOMAIN p2c : p2c[i].tag = "REQ"

(* The slips: the wait gives up at the first empty poll, ...               *)
TimeOutAtOnce ==
  /\ ppc = "await" /\ c2p = << >>
  /\ FallBack
  /\ UNCHANGED <<next, due, process, pring, consumer, p2c, c2p, shm, bounds>>

(* ... or polls for ever.                                                  *)
TimeOutNever == ppc = "await" /\ c2p = << >> /\ UNCHANGED vars

TimeOut ==
  /\ ppc = "await" /\ c2p = << >>
  /\ IF AnswerOwed THEN late < MaxLate /\ late' = late + 1 ELSE UNCHANGED late
  /\ FallBack
  /\ due' = TRUE
  /\ UNCHANGED <<next, process, pring, consumer, p2c, c2p, shm,
                 attachFails, mapFails, crashes>>

(* The slips: a failed sendto is taken for a sent message, ...             *)
SendDatagramUnchecked ==
  /\ ppc = "datagram"
  /\ up => Len(p2c) < QLen
  /\ p2c' = IF up THEN Append(p2c, Data(next)) ELSE p2c
  /\ Accepted
  /\ UNCHANGED <<due, process, pring, consumer, c2p, shm, bounds>>

(* ... or a sent message for a failed one, which the caller sends again.   *)
SendDatagramFails ==
  /\ ppc = "datagram"
  /\ up => Len(p2c) < QLen
  /\ p2c' = IF up THEN Append(p2c, Data(next)) ELSE p2c
  /\ ppc' = "idle" /\ class' = "none"
  /\ UNCHANGED <<next, retry, due, process, pring, consumer, c2p, shm, bounds>>

SendDatagram ==
  /\ ppc = "datagram"
  /\ \/ /\ up /\ Len(p2c) < QLen
        /\ p2c' = Append(p2c, Data(next))
        /\ Accepted
     \/ /\ ~up
        /\ ppc' = "idle" /\ class' = "none"
        /\ UNCHANGED <<next, retry, p2c>>
  /\ UNCHANGED <<due, process, pring, consumer, c2p, shm, bounds>>

PushRecord ==
  /\ ppc = "push"
  /\ shm' = [shm EXCEPT ![pring] = Append(@, next)]
  /\ Accepted
  /\ UNCHANGED <<due, process, pring, consumer, p2c, c2p, bounds>>

-----------------------------------------------------------------------------
(* adapt_recv: the ring first, then up to ADAPT_UDS_POLL_MS on the socket. *)
PollRing ==
  /\ up /\ cpc = "ring"
  /\ IF cring # 0 /\ shm[cring] # << >>
     THEN /\ delivered' = Append(delivered, Head(shm[cring]))
          /\ shm' = [shm EXCEPT ![cring] = Tail(@)]
          /\ UNCHANGED cpc
     ELSE cpc' = "socket" /\ UNCHANGED <<delivered, shm>>
  /\ UNCHANGED <<producer, cring, status, up, p2c, c2p, bounds>>

(* The slip: the ring is not polled again after an empty wait.             *)
PollTimeOutStays == up /\ cpc = "socket" /\ p2c = << >> /\ UNCHANGED vars

PollTimeOut ==
  /\ up /\ cpc = "socket" /\ p2c = << >>
  /\ cpc' = "ring"
  /\ UNCHANGED <<producer, cring, status, up, delivered, p2c, c2p, shm, bounds>>

ReceiveData ==
  /\ up /\ cpc = "socket" /\ p2c # << >> /\ Head(p2c).tag = "DATA"
  /\ delivered' = Append(delivered, Head(p2c).arg)
  /\ p2c' = Tail(p2c) /\ cpc' = "ring"
  /\ UNCHANGED <<producer, cring, status, up, c2p, shm, bounds>>

(* handle_control: map the object that is named, unless one is mapped, and *)
(* answer in either case.                                                  *)
ReceiveRequest ==
  /\ up /\ cpc = "socket" /\ p2c # << >> /\ Head(p2c).tag = "REQ"
  /\ p2c' = Tail(p2c) /\ cpc' = "ack"
  /\ \/ /\ cring # 0
        /\ status' = 0
        /\ UNCHANGED <<cring, attachFails>>
     \/ /\ cring = 0
        /\ status' = 0 /\ cring' = Head(p2c).arg
        /\ UNCHANGED attachFails
     \/ /\ cring = 0 /\ attachFails < MaxAttachFails
        /\ status' = 1 /\ attachFails' = attachFails + 1
        /\ UNCHANGED cring
  /\ UNCHANGED <<producer, up, delivered, c2p, shm, mapFails, late, crashes>>

SendAck ==
  /\ up /\ cpc = "ack" /\ Len(c2p) < QLen
  /\ c2p' = Append(c2p, status)
  /\ cpc' = "ring" /\ status' = 0
  /\ UNCHANGED <<producer, cring, up, delivered, p2c, shm, bounds>>

-----------------------------------------------------------------------------
(* adapt_init of the consumer binds its socket; a stale one is unlinked.   *)
StartConsumer ==
  /\ ~up
  /\ up' = TRUE
  /\ UNCHANGED <<producer, cpc, cring, status, delivered, p2c, c2p, shm, bounds>>

CrashConsumer ==
  /\ up /\ crashes < MaxCrashes
  /\ crashes' = crashes + 1
  /\ up' = FALSE /\ cpc' = "ring" /\ cring' = 0 /\ status' = 0 /\ p2c' = << >>
  /\ UNCHANGED <<producer, delivered, c2p, shm, attachFails, mapFails, late>>

(* Another producer process takes the place of this one, with the next     *)
(* name and a socket of its own on the same path.                          *)
RestartProducer ==
  /\ process < MaxProducers
  /\ process' = process + 1
  /\ ppc' = "idle" /\ class' = "none" /\ retry' = FALSE /\ due' = TRUE /\ pring' = 0
  /\ c2p' = << >>
  /\ UNCHANGED <<next, consumer, p2c, shm, bounds>>

Producer == SendRequest \/ TakeAck \/ TimeOut \/ SendDatagram \/ PushRecord
Consumer == PollRing \/ PollTimeOut \/ ReceiveData \/ ReceiveRequest \/ SendAck

Next == \/ \E c \in {"small", "shm", "big"} : Send(c)
        \/ Producer \/ Consumer
        \/ StartConsumer \/ CrashConsumer \/ RestartProducer

Spec == Init /\ [][Next]_vars

(* A send under way goes on; the consumer is started and keeps calling     *)
(* adapt_recv; a message that was refused with -EAGAIN is sent again.      *)
FairSpec == /\ Spec
            /\ WF_vars(Producer)
            /\ WF_vars(StartConsumer) /\ WF_vars(Consumer) /\ WF_vars(retry /\ Send("big"))

-----------------------------------------------------------------------------
TypeOK ==
  /\ ppc \in {"idle", "request", "await", "push", "datagram"}
  /\ class \in {"none", "small", "shm", "big"} /\ next \in 1 .. MaxSends + 1
  /\ retry \in BOOLEAN /\ due \in BOOLEAN
  /\ process \in Objects /\ pring \in {0, process}
  /\ cpc \in {"ring", "socket", "ack"} /\ cring \in {0} \cup Objects
  /\ status \in {0, 1} /\ up \in BOOLEAN
  /\ p2c \in Seq([tag : {"REQ", "DATA"}, arg : Nat]) /\ Len(p2c) <= QLen
  /\ c2p \in Seq({0, 1}) /\ Len(c2p) <= QLen
  /\ shm \in [Objects -> Seq(1 .. MaxSends)] /\ delivered \in Seq(1 .. MaxSends)
  /\ attachFails \in 0 .. MaxAttachFails /\ mapFails \in 0 .. MaxMapFails
  /\ late \in 0 .. MaxLate /\ crashes \in 0 .. MaxCrashes

(* "Returns 0 once the ring is mapped on both sides" (adapt_ipc.c:109, and *)
(* :72 of negot_done): a producer that has mapped an object sends to a     *)
(* consumer that has mapped the same one.                                  *)
SameObject == pring # 0 => cring = pring

(* The producer never reads its socket again once negotiation is done, so  *)
(* the answers to the requests it sent before must fit the queue: else the *)
(* consumer blocks in sendto (adapt_ipc.c:216) and reads neither transport.*)
AckHasRoom == cpc = "ack" /\ pring # 0 => Len(c2p) < QLen

(* "No messages are dropped" (adapt_ipc.c:108): a message adapt_send took  *)
(* is in exactly one place, in a queue, in the object the consumer reads,  *)
(* or delivered; one that was refused is nowhere.                          *)
Places(m) == {<<"datagram", i>> : i \in {j \in DOMAIN p2c : p2c[j] = Data(m)}}
        \cup {<<"delivered", i>> : i \in {j \in DOMAIN delivered : delivered[j] = m}}
        \cup UNION {{<<o, i>> : i \in {j \in DOMAIN shm[o] : shm[o][j] = m}} :
                      o \in Objects}
Conserved == \A m \in 1 .. MaxSends : Cardinality(Places(m)) = IF m < next THEN 1 ELSE 0

(* Nothing is delivered twice or without having been sent, whatever        *)
(* restarts, re-sent requests and stale answers do.                        *)
AtMostOnce ==
  \A m \in 1 .. MaxSends :
    Cardinality(Places(m)) <= IF m < next THEN 1 ELSE 0

(* What adapt_send took on either path is delivered in the end.            *)
AllDelivered ==
  \A m \in 1 .. MaxSends : (next > m) ~> (\E i \in DOMAIN delivered : delivered[i] = m)

(* A message only the ring can carry gets through, if it is sent again as  *)
(* long as it is refused, even if every wait for an answer gives up before *)
(* the answer is there: the request stands, and a late answer is taken.    *)
BigGetsThrough ==
  \A m \in 1 .. MaxSends : (class = "big" /\ next = m) ~> (next > m)

(* adapt_send returns as long as the peer receives: whatever answers are   *)
(* lost, late or negative, the wait for one ends (adapt_ipc.c:159-182).    *)
SendReturns == (ppc # "idle") ~> (ppc = "idle")

================================================================================
