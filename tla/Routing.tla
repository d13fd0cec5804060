--------------------------------- MODULE Routing ---------------------------------
(***************************************************************************)
(* adapt_send as the caller sees it: the classification of a message, its  *)
(* resumption when the message is sent again after -EAGAIN, the decision   *)
(* and its log, the guard rails for messages a transport cannot carry, and *)
(* the outcomes of the transport.  What the transports do is in            *)
(* Negotiation and RecordFlow; here an outcome is a choice.                *)
(*                                                                         *)
(* A message is known by its size class.  The EWMA of the sizes is kept as *)
(* the band it is in: whatever its weight, it moves to a value between the *)
(* old one and the size.                                                   *)
(***************************************************************************)
EXTENDS CostModel, DecisionLog, FiniteSets

CONSTANTS Sizes,        \* size classes, each [band, dgram, ring, fits, small]:
                        \* where the size lies for the EWMA, whether a datagram
                        \* can carry it, whether it is within the configured
                        \* capacity, whether the ring takes it (up to 8 bytes
                        \* less than its own capacity, a power of two), and if
                        \* it is at most ADAPT_LEARN_SMALL_MAX
          Worlds,       \* what the estimates are estimates of: such records
          Budgets,      \* latency budgets
          Eps,          \* error of an estimated cost, at most
          MinSamples,   \* cfg->learn_min_samples
          MaxSeq        \* bound on logged decisions

ASSUME RoutingAssumption ==
  /\ Eps \in Nat /\ MinSamples \in Nat /\ MaxSeq \in Nat /\ Budgets \subseteq Nat
  /\ Worlds \subseteq [uds : Nat, shm : Nat, prior : Nat, q : Nat, hp : Nat, notify : Nat]
  /\ \A s \in Sizes : s.band \in {"low", "mid", "high"}

VARIABLES policy, logging, budget,                \* configuration
          band, lastRoute,                        \* ewma_size, last_route
          retryPending, pendingSize, pendingRoute,
          mapped,                                 \* ring # NULL
          learnt,       \* small messages measured per transport, to MinSamples
          pc, size, route,                        \* the call under way
          result,                                 \* of the last call
          world,        \* what is really the case
          extreme, flips, classified, inherited   \* history, see the properties

config == <<policy, logging, budget>>
sticky == <<band, lastRoute>>
retry == <<retryPending, pendingSize, pendingRoute>>
history == <<extreme, flips, classified, inherited>>
vars == <<config, sticky, retry, mapped, learnt, pc, size, route, result, world,
          history, logvars>>

NoSize == [band |-> "none"]

Init ==
  /\ policy \in Policies /\ logging \in BOOLEAN /\ budget \in Budgets
  /\ band = "low" /\ lastRoute = NoRoute
  /\ retryPending = FALSE /\ pendingSize = NoSize /\ pendingRoute = NoRoute
  /\ mapped = FALSE /\ learnt = [r \in Routes |-> 0]
  /\ pc = "idle" /\ size = NoSize /\ route = NoRoute /\ result = "none"
  /\ world \in Worlds
  /\ extreme = "UDS" /\ flips = 0 /\ classified = 0 /\ inherited = FALSE
  /\ LogInit

-----------------------------------------------------------------------------
(* ewma_update.                                                            *)
Between(a, b) ==
  IF a = b THEN {a}
  ELSE IF "mid" \in {a, b} THEN {a, b} ELSE {"low", "mid", "high"}

(* A ring that is not there has no queue.                                  *)
Estimate(e, f) ==
  [world EXCEPT !.uds = @ + e, !.shm = @ + f, !.q = IF mapped THEN @ ELSE 0]

Cold == \E r \in Routes : learnt[r] < MinSamples

(* A message is taken for the one that was refused if it has its size.  The*)
(* slip: to take it for a new one.                                         *)
ResumesNever(s) == FALSE

Resumes(s) == retryPending /\ pendingSize = s /\ pendingRoute # NoRoute

(* What the decision did to the history: the route of the last band that   *)
(* is not the dead one, and the switches since anything really changed or a*)
(* decision was not taken by cost.                                         *)
Remember(decided) ==
  /\ extreme' = CASE band' = "high" -> "SHM" [] band' = "low" -> "UDS" [] OTHER -> extreme
  /\ flips' = IF ~ByCost(policy, Cold) THEN 0
              ELSE IF lastRoute \in Routes \ {decided} /\ flips < 2 THEN flips + 1 ELSE flips

(* The EWMA and the decision, which is logged if the log is enabled, and   *)
(* remembered as the route to stick to.                                    *)
Classify(s) ==
  /\ band' \in Between(band, s.band)
  /\ \E e, f \in -Eps .. Eps :
       lastRoute' = Decide(policy, band', lastRoute, Estimate(e, f), mapped, s.dgram, Cold,
                           budget)
  /\ retryPending' = FALSE
  /\ IF logging THEN seq < MaxSeq /\ Record ELSE UNCHANGED logvars
  /\ Remember(lastRoute')

(* The guard rails: what no datagram can carry goes to the ring, whatever  *)
(* was decided; what is beyond the configured capacity is refused there.   *)
Escalated(r, s) == IF r # "SHM" /\ ~s.dgram THEN "SHM" ELSE r

Dispatch(r, s, pending) ==
  /\ size' = s
  /\ IF r = "SHM" /\ ~s.ring
     THEN /\ result' = "EMSGSIZE"
          /\ pendingRoute' = pending
          /\ UNCHANGED <<pc, route, pendingSize>>
     ELSE /\ pc' = "routed" /\ route' = r
          /\ pendingSize' = s /\ pendingRoute' = r
          /\ UNCHANGED result

(* adapt_send up to the transport.  The caller sends the refused message   *)
(* again, or gives it up and sends another, perhaps of the same size.      *)
Send(s, again) ==
  /\ pc = "idle" /\ (again => result = "EAGAIN" /\ s = size)
  /\ IF Resumes(s)
     THEN /\ Dispatch(Escalated(pendingRoute, s), s, pendingRoute)
          /\ UNCHANGED <<sticky, retryPending, logvars, extreme, flips>>
          /\ classified' = IF again THEN classified ELSE 0
          /\ inherited' = (~again \/ inherited)
     ELSE /\ Classify(s)
          /\ Dispatch(Escalated(lastRoute', s), s, NoRoute)
          /\ classified' = IF again THEN classified + 1 ELSE 1
          /\ inherited' = FALSE
  /\ UNCHANGED <<config, mapped, learnt, world>>

(* producer_ensure_shm gives a ring, or none: then the message takes the   *)
(* datagram if it fits, and is refused if not.                             *)
Negotiate ==
  /\ pc = "routed" /\ route = "SHM" /\ ~mapped
  /\ mapped' = TRUE /\ flips' = 0
  /\ UNCHANGED <<config, sticky, retry, learnt, pc, size, route, result, world, extreme,
                 classified, inherited, logvars>>

(* The slip: to send it as a datagram in any case.                         *)
FallBackUnchecked ==
  /\ pc = "routed" /\ route = "SHM" /\ ~mapped
  /\ route' = "UDS" /\ pendingRoute' = "UDS"
  /\ UNCHANGED <<config, sticky, retryPending, pendingSize, mapped, learnt, pc, size, result,
                 world, history, logvars>>

(* The slip: to stick to the transport that was used in place of the one   *)
(* decided.                                                                *)
FallBackSticks ==
  /\ pc = "routed" /\ route = "SHM" /\ ~mapped /\ size.dgram
  /\ route' = "UDS" /\ pendingRoute' = "UDS" /\ lastRoute' = "UDS"
  /\ UNCHANGED <<config, band, retryPending, pendingSize, mapped, learnt, pc, size, result,
                 world, history, logvars>>

FallBack ==
  /\ pc = "routed" /\ route = "SHM" /\ ~mapped /\ size.dgram
  /\ route' = "UDS" /\ pendingRoute' = "UDS"
  /\ UNCHANGED <<config, sticky, retryPending, pendingSize, mapped, learnt, pc, size, result,
                 world, history, logvars>>

Return(r, again) ==
  /\ pc' = "idle" /\ route' = NoRoute /\ result' = r /\ retryPending' = again
  /\ UNCHANGED <<config, sticky, pendingSize, pendingRoute, mapped, size, world, history,
                 logvars>>

Wait ==
  /\ pc = "routed" /\ route = "SHM" /\ ~mapped /\ ~size.dgram
  /\ \E r \in {"EAGAIN", "error"} : Return(r, TRUE)
  /\ UNCHANGED learnt

(* adapt_learn_observe: the cost-aware policies measure every push, and the*)
(* datagrams that are sent.                                                *)
Measure(r) ==
  learnt' = IF policy \in {"COST_AWARE", "FULL_ADAPTIVE"} /\ size.small
                 /\ learnt[r] < MinSamples
            THEN [learnt EXCEPT ![r] = @ + 1] ELSE learnt

(* A push that is refused is resumed; one that fails otherwise is not.  A  *)
(* record the ring never takes is not tried.                               *)
PushRecord ==
  /\ pc = "routed" /\ route = "SHM" /\ mapped
  /\ \/ size.fits /\ Return("EAGAIN", TRUE)
     \/ size.fits /\ \E r \in {"ok", "error"} : Return(r, FALSE)
     \/ ~size.fits /\ Return("EMSGSIZE", FALSE)
  /\ Measure("SHM")

(* Nobody at the other socket leaves the retry state as it is.             *)
SendDatagram ==
  /\ pc = "routed" /\ route = "UDS"
  /\ \/ Return("ok", FALSE) /\ Measure("UDS")
     \/ Return("error", FALSE) /\ UNCHANGED learnt
     \/ Return("ECONNREFUSED", retryPending) /\ UNCHANGED learnt

(* Loads, queues and costs change between calls, the costs with the sizes  *)
(* of the messages too.                                                    *)
Change ==
  /\ pc = "idle"
  /\ world' \in Worlds \ {world} /\ flips' = 0
  /\ UNCHANGED <<config, sticky, retry, mapped, learnt, pc, size, route, result, extreme,
                 classified, inherited, logvars>>

Transmit == Negotiate \/ FallBack \/ Wait \/ PushRecord \/ SendDatagram

Next == \/ \E s \in Sizes, again \in BOOLEAN : Send(s, again)
        \/ Transmit
        \/ Change

Spec == Init /\ [][Next]_vars

-----------------------------------------------------------------------------
(* The calls of a caller always leave something to retry, or nothing; the  *)
(* log keeps its types.                                                    *)
TypeOK ==
  /\ LogTypeOK
  /\ policy \in Policies /\ logging \in BOOLEAN /\ budget \in Budgets
  /\ band \in {"low", "mid", "high"} /\ lastRoute \in Routes \cup {NoRoute}
  /\ retryPending \in BOOLEAN /\ pendingSize \in Sizes \cup {NoSize}
  /\ pendingRoute \in Routes \cup {NoRoute}
  /\ mapped \in BOOLEAN /\ learnt \in [Routes -> 0 .. MinSamples]
  /\ pc \in {"idle", "routed"} /\ size \in Sizes \cup {NoSize}
  /\ route \in IF pc = "routed" THEN Routes ELSE {NoRoute}
  /\ result \in {"none", "ok", "EAGAIN", "EMSGSIZE", "ECONNREFUSED", "error"}
  /\ world \in Worlds /\ extreme \in Routes /\ flips \in 0 .. 2
  /\ classified \in Nat /\ inherited \in BOOLEAN

(* Whatever was decided, resumed, escalated or fallen back to, what goes to*)
(* uds_send fits the frame of UDS_MAX_DGRAM bytes on the stack it is copied*)
(* into (adapt_ipc.c:419, 469).                                            *)
FrameFits == pc = "routed" /\ route = "UDS" => size.dgram

(* A message is classified once, however often it is refused with -EAGAIN  *)
(* and sent again, and whatever the transports do in between: "Re-applying *)
(* the EWMA on every retry would let backlog pressure distort the          *)
(* classifier" (adapt_ipc.c:330-334).  It is not classified at all only if *)
(* it has the size of one the caller gave up, or whose negotiation failed. *)
ClassifiedOnce == size # NoSize => classified = IF inherited THEN 0 ELSE 1

(* The route of the size policies follows the last band that was not the   *)
(* dead one: neither the guard rails, nor a fallback, nor a retry moves it *)
(* (adapt_ipc.c:385-389), and a queue only ever drives messages to the     *)
(* other transport.                                                        *)
StickyRoute ==
  lastRoute # NoRoute =>
    /\ policy = "SIZE_HYSTERESIS" => lastRoute = extreme
    /\ policy = "QUEUE_AWARE" /\ lastRoute = "SHM" => extreme = "SHM"

(* While nothing really changes, noise alone switches the route of a       *)
(* cost-aware policy at most once, to where it belongs, if no latency is   *)
(* budgeted: "measurement noise alone cannot flip the decision as long as  *)
(* margin_us > 2*eps" (cost_model.c:17-20).                                *)
NoFlap == budget = 0 => flips <= 1

================================================================================
