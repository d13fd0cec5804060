----------------------------- MODULE RuntimeContext -----------------------------
(***************************************************************************)
(* What adapt_send observes before it decides: the samples of              *)
(* adapt_rtctx_sample (arrival, drain, occupancy of the ring) and, once    *)
(* there is a ring, of adapt_health_update_shm, taken on every attempt,    *)
(* with the ring that the attempts fill and the consumer drains.           *)
(*                                                                         *)
(* Time and rates are left open: whether the clock moved since the last    *)
(* sample, whether the last drain is within ADAPT_DRAIN_STALE_NS, and      *)
(* whether the smoothed drain rate is below half of the arrival rate; so is*)
(* which transport the router gives a message to.  The attempt itself is   *)
(* cut where it can last: before the ring is negotiated, before the push,  *)
(* at the watermark (FlowControl has that protocol), and at the sendto.    *)
(***************************************************************************)
EXTENDS Health

CONSTANTS Cap,        \* capacity of the ring
          Sizes,      \* payloads of the caller's messages, which both transports take
          Framing,    \* prefix and tag byte
          MaxPad,     \* padding of a wrap, at most
          MinSamples  \* rc->min_samples

ASSUME RuntimeContextAssumption ==
  /\ Cap \in Nat \ {0} /\ Sizes \subseteq Nat \ {0}
  /\ Framing \in Nat /\ MaxPad \in Nat /\ MinSamples \in Nat

VARIABLES mode,       \* how the ring is pushed to: nonblocking_send, and the policy
          mapped,     \* ctx->ring # NULL
          occ,        \* bytes in the ring
          at,         \* where the attempt under way is, "idle" between attempts
          sending,    \* its payload, 0 between attempts
          prev,       \* rc->prev_occ_bytes
          timed,      \* rc->last_ns # 0
          samples,    \* rc->samples, up to MinSamples
          drainValid, fresh,    \* rc->drain_valid; the last drain is not stale
          drained,    \* history: bytes popped since the last sample
          last        \* history: what became of the last attempt

ring == <<mapped, occ, at, sending, last>>
estimate == <<prev, timed, samples, drainValid, fresh>>
cvars == <<vars, mode, ring, estimate, drained>>

Modes == {"blocking", "measured", "nonblocking"}

CInit ==
  /\ Init
  /\ mode \in Modes
  /\ mapped = FALSE /\ occ = 0 /\ at = "idle" /\ sending = 0 /\ last = "none"
  /\ prev = 0 /\ timed = FALSE /\ samples = 0 /\ drainValid = FALSE /\ fresh = FALSE
  /\ drained = 0

-----------------------------------------------------------------------------
(* The bands of Health, by occupancy; a ring that is not empty may also be *)
(* drained too slowly, as far as the two rates tell.                       *)
BandsNow ==
  IF 100 * occ >= 95 * Cap THEN {"blocked"}
  ELSE IF 100 * occ >= 80 * Cap THEN {"degraded"}
  ELSE {IF 100 * occ <= 20 * Cap THEN "low" ELSE "mid"}
         \cup (IF occ > 0 /\ drainValid' /\ timed THEN {"deficit"} ELSE {})

(* What the ring will hold if the push that follows succeeds.  The slip: to*)
(* count the payload twice, before and after the push.                     *)
ExpectedTwice(size) == occ + 2 * size

Expected(size) == occ + size

(* adapt_rtctx_sample: less in the ring than expected is a drain.          *)
SampleContext(size, elapsed) ==
  LET drain == elapsed /\ occ < prev IN
  /\ timed' = TRUE
  /\ samples' = IF drain /\ samples < MinSamples THEN samples + 1 ELSE samples
  /\ drainValid' = (drainValid \/ drain)
  /\ fresh' = (fresh \/ drain)
  /\ prev' = Expected(size)


SampleHealth ==
  IF mapped THEN \E b \in BandsNow : Sample(b) ELSE UNCHANGED vars

(* A blocking push throttles before it tries; with a cost-aware policy one *)
(* measured try comes first.                                               *)
Entry == IF mode = "blocking" THEN "throttled" ELSE "try"

(* adapt_send up to its decision; the first sample has no time before it.  *)
Attempt(size) ==
  /\ at = "idle"
  /\ \E elapsed \in {FALSE, timed} : SampleContext(size, elapsed)
  /\ SampleHealth
  /\ sending' = size /\ drained' = 0
  /\ at' \in {"datagram", IF mapped THEN Entry ELSE "negotiate"}
  /\ UNCHANGED <<mode, mapped, occ, last>>

(* The attempt goes on, or ends.                                           *)
GoOn(place) == at' = place /\ UNCHANGED <<sending, last>>
Return(how) == at' = "idle" /\ sending' = 0 /\ last' = how

(* The negotiation ends with a ring.                                       *)
Map ==
  /\ at = "negotiate" /\ GoOn(Entry)
  /\ mapped' = TRUE
  /\ UNCHANGED <<vars, mode, occ, estimate, drained>>

(* It does not: a datagram, or -EAGAIN.                                    *)
FallBack ==
  /\ at = "negotiate" /\ (GoOn("datagram") \/ Return("elsewhere"))
  /\ UNCHANGED <<vars, mode, mapped, occ, estimate, drained>>

BelowHW == occ < (80 * Cap) \div 100

(* The record is pushed if there is room for it and its padding; the       *)
(* blocking push looks first whether the ring is below the watermark.      *)
Push ==
  /\ at = "try" \/ (at = "throttled" /\ BelowHW)
  /\ \E pad \in 0 .. MaxPad :
       /\ occ + sending + Framing + pad <= Cap
       /\ occ' = occ + sending + Framing + pad
  /\ Return("ring")
  /\ UNCHANGED <<vars, mode, mapped, estimate, drained>>

(* It does not fit: -EAGAIN to the caller, or the blocking push.           *)
PushFails ==
  /\ at = "try" /\ occ + sending + Framing + MaxPad > Cap
  /\ IF mode = "nonblocking" THEN Return("elsewhere") ELSE GoOn("throttled")
  /\ UNCHANGED <<vars, mode, mapped, occ, estimate, drained>>

Park ==
  /\ at = "throttled" /\ ~BelowHW /\ GoOn("parked")
  /\ UNCHANGED <<vars, mode, mapped, occ, estimate, drained>>

(* Woken by the consumer, or for no reason; or the wait ends in an error.  *)
Wake ==
  /\ at = "parked" /\ (GoOn("throttled") \/ Return("elsewhere"))
  /\ UNCHANGED <<vars, mode, mapped, occ, estimate, drained>>

(* The sendto, which may wait for a full queue as long as it likes.        *)
Datagram ==
  /\ at = "datagram" /\ Return("elsewhere")
  /\ UNCHANGED <<vars, mode, mapped, occ, estimate, drained>>

(* The consumer, at any time.                                              *)
Pop ==
  /\ \E n \in 1 .. occ : occ' = occ - n /\ drained' = drained + n
  /\ UNCHANGED <<vars, mode, mapped, at, sending, last, estimate>>

(* ADAPT_DRAIN_STALE_NS go by without another drain.                       *)
Expire ==
  /\ fresh /\ fresh' = FALSE
  /\ UNCHANGED <<vars, mode, ring, prev, timed, samples, drainValid, drained>>

(* The caller sends on, and what adapt_send does without waiting.          *)
Proceed ==
  (\E size \in Sizes : Attempt(size)) \/ Map \/ FallBack \/ Push \/ PushFails \/ Park

CNext == Proceed \/ Wake \/ Datagram \/ Pop \/ Expire

CSpec == CInit /\ [][CNext]_cvars

(* Nothing makes a parked producer wake up, a sendto return, or the        *)
(* consumer pop.                                                           *)
CFairSpec == CSpec /\ WF_cvars(Proceed)

-----------------------------------------------------------------------------
CTypeOK ==
  /\ TypeOK
  /\ mode \in Modes /\ mapped \in BOOLEAN /\ occ \in 0 .. Cap /\ sending \in Sizes \cup {0}
  /\ at \in {"idle", "negotiate", "try", "throttled", "parked", "datagram"}
  /\ sending = 0 <=> at = "idle"
  /\ last \in {"none", "ring", "elsewhere"}
  /\ prev \in Nat /\ samples \in 0 .. MinSamples /\ drained \in 0 .. 2 * Cap
  /\ {timed, drainValid, fresh} \subseteq BOOLEAN

(* After a push the next sample never counts more bytes as drained than the*)
(* consumer has taken since the last one, whatever it pops between the     *)
(* sample, the push and the next sample: "prev_occ already includes the    *)
(* previous payload (post-push occupancy)" (runtime_context.c:53-54).      *)
DrainIsReal == sending = 0 /\ last = "ring" => prev - occ <= drained

(* "drain rate: what the consumer removed since the previous observation"  *)
(* (runtime_context.c:52-53): of a ring with something in it from which    *)
(* nothing was removed, a stale estimate is not made fresh.                *)
NoPhantomDrain ==
  [][sending = 0 /\ sending' # 0 /\ occ > 0 /\ ~fresh /\ fresh' => drained > 0]_cvars

(* A ring that stays nearly empty is at last healthy, one that stays above *)
(* 80 % degraded and one above 95 % blocked, whatever came before, as long *)
(* as attempts go on: no state, streak or wrapped counter is a dead end    *)
(* (transport_health.c:62-91).                                             *)
Follows(b, s) == (<>[](band = b)) => <>[](state = s)
StateFollowsBand ==
  ([]<>(at = "idle")) => /\ Follows("low", "HEALTHY")
                        /\ Follows("degraded", "DEGRADED")
                        /\ Follows("blocked", "BLOCKED")


(* What the monitor does is what Health says, so its theorems hold here.   *)
ImplementsHealth == Spec

================================================================================
