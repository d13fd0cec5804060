----------------------------- MODULE RoutingProofs -----------------------------
(* Proofs about adapt_send and the decision rule, for every set of sizes,  *)
(* every cost configuration and every error of the estimates.              *)
EXTENDS Routing, ModularArithmetic

-----------------------------------------------------------------------------
(* Stability of the cost rule.                                             *)

(* By how much the ring is really better, before the cost of switching.    *)
Gain(w, p, m) ==
  w.uds - w.shm - (IF m THEN w.q ELSE 0) - Penalty(p, w, m) - (IF m THEN 0 ELSE SetupCost)

FlapInv ==
  /\ world \in Worlds /\ mapped \in BOOLEAN
  /\ lastRoute \in Routes \cup {NoRoute}
  /\ flips \in Nat
  /\ budget = 0 /\ flips # 0 =>
       /\ flips = 1
       /\ \/ /\ lastRoute = "SHM"
             /\ Gain(world, policy, mapped) > SwitchCost + Margin - 2 * Eps
          \/ /\ lastRoute = "UDS"
             /\ -Gain(world, policy, mapped) > SwitchCost + Margin - 2 * Eps

(* What an estimate differs in from the case it estimates.                 *)
LEMMA EstimateError ==
  ASSUME world \in Worlds, NEW e \in -Eps .. Eps, NEW f \in -Eps .. Eps
  PROVE  LET est == Estimate(e, f)
         IN  /\ est.uds = world.uds + e /\ est.shm = world.shm + f
             /\ est.q = IF mapped THEN world.q ELSE 0
             /\ est.hp = world.hp
<1>1. world \in [uds : Nat, shm : Nat, prior : Nat, q : Nat, hp : Nat, notify : Nat]
  BY RoutingAssumption
<1> QED BY <1>1 DEF Estimate

(* The rule leaves a route only for one that looks better by more than the *)
(* cost of switching and the margin.                                       *)
LEMMA SwitchIsWorth ==
  ASSUME NEW est, NEW m \in BOOLEAN, NEW hp \in Int, NEW current \in Routes,
         est.uds \in Int, est.shm \in Int, est.q \in Int,
         CostRoute(current, est, m, hp, 0) # current
  PROVE  LET gain == est.uds - est.shm - est.q - hp - (IF m THEN 0 ELSE SetupCost)
         IN  /\ current = "UDS" => /\ CostRoute(current, est, m, hp, 0) = "SHM"
                                   /\ gain > SwitchCost + Margin
             /\ current = "SHM" => /\ CostRoute(current, est, m, hp, 0) = "UDS"
                                   /\ -gain > SwitchCost + Margin
<1>1. SwitchCost \in Nat /\ Margin \in Nat /\ SetupCost \in Nat
  BY CostModelAssumption
<1>2. LatencyPenalty(est, m, 0) = 0
  BY DEF LatencyPenalty
<1>3. ScoreUds(current, est, m, 0) = est.uds + (IF current = "UDS" THEN 0 ELSE SwitchCost)
  BY <1>1, <1>2 DEF ScoreUds
<1>4. ScoreShm(current, est, m, hp, 0) =
        est.shm + est.q + hp + (IF m THEN 0 ELSE SetupCost)
                + (IF current = "SHM" THEN 0 ELSE SwitchCost)
  BY <1>1, <1>2 DEF ScoreShm
<1> QED BY <1>1, <1>3, <1>4 DEF CostRoute, Routes, NoRoute

(* A decision by cost, seen from what is really the case.                  *)
LEMMA SwitchIsReal ==
  ASSUME world \in Worlds, mapped \in BOOLEAN, budget = 0, NEW cold,
         ByCost(policy, cold), NEW e \in -Eps .. Eps, NEW f \in -Eps .. Eps, NEW b, NEW fits,
         lastRoute \in Routes,
         NEW decided,
         decided = Decide(policy, b, lastRoute, Estimate(e, f), mapped, fits, cold, budget),
         decided # lastRoute
  PROVE  \/ /\ lastRoute = "UDS" /\ decided = "SHM"
            /\ Gain(world, policy, mapped) > SwitchCost + Margin - 2 * Eps
         \/ /\ lastRoute = "SHM" /\ decided = "UDS"
            /\ -Gain(world, policy, mapped) > SwitchCost + Margin - 2 * Eps
<1> DEFINE est == Estimate(e, f)
           hp == Penalty(policy, est, mapped)
<1>1. decided = CostRoute(lastRoute, est, mapped, hp, 0)
  BY DEF Decide
<1>2. /\ est.uds = world.uds + e /\ est.shm = world.shm + f
      /\ est.q = IF mapped THEN world.q ELSE 0
      /\ est.hp = world.hp
  BY EstimateError
<1>3. world.uds \in Nat /\ world.shm \in Nat /\ world.q \in Nat /\ world.hp \in Nat
  BY RoutingAssumption
<1>4. hp = Penalty(policy, world, mapped) /\ hp \in Nat
  <2> HIDE DEF est
  <2> QED BY <1>2, <1>3 DEF Penalty
<1> HIDE DEF est
<1>5. SwitchCost \in Nat /\ Margin \in Nat /\ SetupCost \in Nat /\ Eps \in Nat
  BY CostModelAssumption, RoutingAssumption
<1> DEFINE gain == est.uds - est.shm - est.q - hp - (IF mapped THEN 0 ELSE SetupCost)
<1>6. /\ lastRoute = "UDS" => decided = "SHM" /\ gain > SwitchCost + Margin
      /\ lastRoute = "SHM" => decided = "UDS" /\ -gain > SwitchCost + Margin
  <2>1. est.uds \in Int /\ est.shm \in Int /\ est.q \in Int
    BY <1>2, <1>3, <1>5
  <2>2. CostRoute(lastRoute, est, mapped, hp, 0) # lastRoute
    BY <1>1
  <2> HIDE DEF hp
  <2> QED BY <1>1, <1>4, <2>1, <2>2, SwitchIsWorth
<1>7. /\ gain - Gain(world, policy, mapped) <= 2 * Eps
      /\ Gain(world, policy, mapped) - gain <= 2 * Eps
      /\ gain \in Int /\ Gain(world, policy, mapped) \in Int
  <2>1. Gain(world, policy, mapped) =
          world.uds - world.shm - est.q - hp - (IF mapped THEN 0 ELSE SetupCost)
    BY <1>2, <1>4 DEF Gain
  <2> HIDE DEF hp
  <2> QED BY <1>2, <1>3, <1>4, <1>5, <2>1
<1> QED
  <2> DEFINE g == Gain(world, policy, mapped)
  <2>1. /\ gain - g <= 2 * Eps /\ g - gain <= 2 * Eps
        /\ gain \in Int /\ g \in Int
    BY <1>7
  <2> HIDE DEF gain, g
  <2>2. gain > SwitchCost + Margin => g > SwitchCost + Margin - 2 * Eps
    BY <1>5, <2>1
  <2>3. -gain > SwitchCost + Margin => -g > SwitchCost + Margin - 2 * Eps
    BY <1>5, <2>1
  <2> QED BY <1>6, <2>2, <2>3 DEF Routes, g

LEMMA DecidesARoute ==
  ASSUME NEW b, NEW current \in Routes \cup {NoRoute}, NEW est, NEW m, NEW fits, NEW cold,
         NEW bud
  PROVE  Decide(policy, b, current, est, m, fits, cold, bud) \in Routes
<1>1. CostRoute(current, est, m, Penalty(policy, est, m), bud) \in Routes
  <2> DEFINE shm == ScoreShm(current, est, m, Penalty(policy, est, m), bud)
             uds == ScoreUds(current, est, m, bud)
  <2> HIDE DEF shm, uds
  <2> QED BY DEF CostRoute, Routes, shm, uds
<1>2. SizeRoute(b, current) \in Routes
  BY DEF SizeRoute, Routes
<1>3. EscapeRoute(b, current, est.q + Penalty(policy, est, m), est, fits) \in Routes
  BY <1>2 DEF EscapeRoute, Routes
<1> QED BY <1>1, <1>2, <1>3 DEF Decide, Routes

LEMMA ClassifyRoutes ==
  ASSUME lastRoute \in Routes \cup {NoRoute}, NEW s, Classify(s)
  PROVE  lastRoute' \in Routes
<1>1. PICK e \in -Eps .. Eps, f \in -Eps .. Eps :
        lastRoute' = Decide(policy, band', lastRoute, Estimate(e, f), mapped, s.dgram, Cold,
                            budget)
  BY DEF Classify
<1> QED BY <1>1, DecidesARoute

LEMMA FlapStep ==
  ASSUME 2 * Eps <= SwitchCost + Margin, FlapInv, [Next]_vars
  PROVE  FlapInv'
<1>1. Eps \in Nat /\ SwitchCost \in Nat /\ Margin \in Nat
  BY RoutingAssumption, CostModelAssumption
<1>2. CASE UNCHANGED <<budget, policy, world, mapped, lastRoute, flips>>
  BY <1>2 DEF FlapInv, Gain, Penalty
<1>3. CASE Negotiate
  BY <1>3 DEF FlapInv, Negotiate, config, sticky, Gain, Penalty
<1>4. CASE Change
  BY <1>4 DEF FlapInv, Change, config, sticky, Gain, Penalty
<1>5. ASSUME NEW s \in Sizes, Classify(s), UNCHANGED <<config, mapped, world>>
      PROVE  FlapInv'
  <2>1. PICK e \in -Eps .. Eps, f \in -Eps .. Eps :
          lastRoute' = Decide(policy, band', lastRoute, Estimate(e, f), mapped, s.dgram, Cold,
                              budget)
    BY <1>5 DEF Classify
  <2>2. lastRoute' \in Routes
    BY <1>5, ClassifyRoutes DEF FlapInv
  <2>3. flips' = IF ~ByCost(policy, Cold) THEN 0
                 ELSE IF lastRoute \in Routes \ {lastRoute'} /\ flips < 2
                      THEN flips + 1 ELSE flips
    BY <1>5 DEF Classify, Remember
  <2>4. UNCHANGED <<policy, budget, mapped, world>>
    BY <1>5 DEF config
  <2>5. CASE budget = 0 /\ ByCost(policy, Cold) /\ lastRoute \in Routes
             /\ lastRoute # lastRoute'
    <3>1. \/ /\ lastRoute = "UDS" /\ lastRoute' = "SHM"
             /\ Gain(world, policy, mapped) > SwitchCost + Margin - 2 * Eps
          \/ /\ lastRoute = "SHM" /\ lastRoute' = "UDS"
             /\ -Gain(world, policy, mapped) > SwitchCost + Margin - 2 * Eps
      BY <2>1, <2>5, SwitchIsReal DEF FlapInv
    <3>2. Gain(world, policy, mapped) \in Int
      BY RoutingAssumption, CostModelAssumption DEF FlapInv, Gain, Penalty
    <3>3. flips = 0
      BY <1>1, <2>5, <3>1, <3>2 DEF FlapInv
    <3>4. flips' = 1
      BY <2>3, <2>5, <3>3
    <3>5. Gain(world, policy, mapped)' = Gain(world, policy, mapped)
      BY <2>4 DEF Gain, Penalty
    <3> QED BY <2>2, <2>4, <3>1, <3>2, <3>4, <3>5 DEF FlapInv
  <2>6. CASE budget = 0 /\ ByCost(policy, Cold)
             /\ (lastRoute = lastRoute' \/ lastRoute \notin Routes)
    <3>1. flips' = flips
      BY <2>3, <2>6 DEF FlapInv
    <3>2. flips # 0 => lastRoute' = lastRoute
      BY <2>6 DEF FlapInv, Routes
    <3> QED BY <2>2, <2>4, <2>6, <3>1, <3>2 DEF FlapInv, Gain, Penalty
  <2>7. CASE budget # 0 \/ ~ByCost(policy, Cold)
    BY <2>2, <2>3, <2>4, <2>7 DEF FlapInv
  <2> QED BY <2>5, <2>6, <2>7
<1>6. ASSUME NEW s \in Sizes, NEW again \in BOOLEAN, Send(s, again)
      PROVE  FlapInv'
  BY <1>2, <1>5, <1>6 DEF Send, config, sticky
<1>7. CASE FallBack
  BY <1>2, <1>7 DEF FallBack, config, sticky, history
<1>8. CASE Wait
  BY <1>2, <1>8 DEF Wait, Return, config, sticky, history
<1>9. CASE PushRecord
  BY <1>2, <1>9 DEF PushRecord, Return, config, sticky, history
<1>10. CASE SendDatagram
  BY <1>2, <1>10 DEF SendDatagram, Return, config, sticky, history
<1>11. CASE UNCHANGED vars
  BY <1>2, <1>11 DEF vars, config, sticky, history
<1> QED BY <1>3, <1>4, <1>6, <1>7, <1>8, <1>9, <1>10, <1>11 DEF Next, Transmit

(* Noise alone does not make the route of a cost-aware policy flip to and  *)
(* fro, for all costs: it is enough that the margin and the cost of        *)
(* switching together reach twice the error, where cost_model.c:17-20 asks *)
(* it of the margin alone; and it holds only without a latency budget.     *)
THEOREM RouteDoesNotFlap ==
  ASSUME 2 * Eps <= SwitchCost + Margin
  PROVE  Spec => []NoFlap
<1>1. Init => FlapInv
  <2>1. Init => world \in Worlds /\ mapped = FALSE /\ lastRoute = NoRoute /\ flips = 0
    BY DEF Init
  <2>2. Init => mapped \in BOOLEAN
    BY <2>1, Zenon
  <2>3. Init => flips \in Nat
    BY <2>1
  <2> QED BY <2>1, <2>2, <2>3 DEF FlapInv
<1>2. FlapInv /\ [Next]_vars => FlapInv'
  BY FlapStep
<1>3. FlapInv => NoFlap
  BY DEF FlapInv, NoFlap
<1> QED BY <1>1, <1>2, <1>3, PTL DEF Spec

-----------------------------------------------------------------------------
(* The message and its retries.                                            *)

RetryInv ==
  /\ FrameFits /\ ClassifiedOnce
  /\ {lastRoute, pendingRoute} \subseteq Routes \cup {NoRoute}
  /\ pc = "routed" => route \in Routes /\ pendingSize = size /\ pendingRoute = route
  /\ pc # "routed" /\ result = "EAGAIN" =>
       retryPending /\ pendingSize = size /\ pendingRoute \in Routes

LEMMA RetryStep ==
  ASSUME RetryInv, [Next]_vars
  PROVE  RetryInv'
<1> USE DEF RetryInv, FrameFits, ClassifiedOnce
<1>1. ASSUME NEW s \in Sizes, NEW again \in BOOLEAN, Send(s, again)
      PROVE  RetryInv'
  <2>1. pc # "routed" /\ (again => result = "EAGAIN" /\ s = size)
    BY <1>1 DEF Send
  <2>2. again => Resumes(s)
    BY <2>1 DEF Resumes, Routes, NoRoute
  <2>3. ClassifiedOnce' /\ size' = s /\ lastRoute' \in Routes \cup {NoRoute}
    <3>1. CASE Resumes(s)
      BY <1>1, <2>1, <3>1 DEF Send, Dispatch, sticky
    <3>2. CASE ~Resumes(s)
      BY <1>1, <2>2, <3>2, ClassifyRoutes DEF Send, Dispatch
    <3> QED BY <3>1, <3>2
  <2>4. PICK r \in Routes, pending \in Routes \cup {NoRoute} :
          Dispatch(r, s, pending) /\ (r = "SHM" \/ s.dgram)
    <3>1. CASE Resumes(s)
      <4>1. pendingRoute \in Routes
        BY <3>1 DEF Resumes
      <4>2. Escalated(pendingRoute, s) \in Routes
            /\ (Escalated(pendingRoute, s) = "SHM" \/ s.dgram)
        BY <4>1 DEF Escalated, Routes
      <4> QED BY <1>1, <2>1, <3>1, <4>1, <4>2 DEF Send, Dispatch
    <3>2. CASE ~Resumes(s)
      <4>1. lastRoute' \in Routes
        BY <1>1, <3>2, ClassifyRoutes DEF Send
      <4>2. Escalated(lastRoute', s) \in Routes
            /\ (Escalated(lastRoute', s) = "SHM" \/ s.dgram)
        BY <4>1 DEF Escalated, Routes
      <4> QED BY <1>1, <2>1, <3>2, <4>1, <4>2 DEF Send, Dispatch
    <3> QED BY <3>1, <3>2
  <2>5. CASE r = "SHM" /\ ~s.ring
    BY <2>1, <2>3, <2>4, <2>5 DEF Dispatch
  <2>6. CASE ~(r = "SHM" /\ ~s.ring)
    BY <2>3, <2>4, <2>6 DEF Dispatch, Routes
  <2> QED BY <2>5, <2>6
<1>2. CASE Negotiate
  BY <1>2 DEF Negotiate, sticky, retry
<1>3. CASE FallBack
  BY <1>3 DEF FallBack, sticky, history, Routes
<1>4. CASE Wait
  BY <1>4 DEF Wait, Return, sticky, history
<1>5. CASE PushRecord
  <2>1. CASE Return("EAGAIN", TRUE)
    BY <1>5, <2>1 DEF PushRecord, Return, sticky, history
  <2>2. CASE \E r \in {"ok", "error", "EMSGSIZE"} : Return(r, FALSE)
    BY <2>2 DEF Return, sticky, history
  <2> QED BY <1>5, <2>1, <2>2 DEF PushRecord
<1>6. CASE SendDatagram
  <2>1. \/ Return("ok", FALSE) \/ Return("error", FALSE)
        \/ Return("ECONNREFUSED", retryPending)
    BY <1>6 DEF SendDatagram
  <2>2. ASSUME NEW r, NEW again, r # "EAGAIN", Return(r, again)
        PROVE  RetryInv'
    BY <2>2 DEF Return, sticky, history
  <2> QED BY <2>1, <2>2
<1>7. CASE Change
  BY <1>7 DEF Change, sticky, retry
<1>8. CASE UNCHANGED vars
  BY <1>8 DEF vars, sticky, retry, history
<1> QED BY <1>1, <1>2, <1>3, <1>4, <1>5, <1>6, <1>7, <1>8 DEF Next, Transmit

(* Together: no message too long for a datagram reaches the socket, and a  *)
(* retry never moves the classifier, for all sizes and policies.           *)
LEMMA Retries == Spec => []RetryInv
<1>1. Init => RetryInv
  BY DEF Init, RetryInv, FrameFits, ClassifiedOnce
<1>2. RetryInv /\ [Next]_vars => RetryInv'
  BY RetryStep
<1> QED BY <1>1, <1>2, PTL DEF Spec

(* What is copied into the frame on the stack and goes to the socket fits  *)
(* it, whatever sizes are sent and however they were routed, escalated,    *)
(* resumed or fallen back (adapt_ipc.c:390-395, 407-410, 419, 469).        *)
THEOREM FramesFit == Spec => []FrameFits
<1>1. RetryInv => FrameFits
  BY DEF RetryInv
<1> QED BY <1>1, Retries, PTL

(* A message that is refused with -EAGAIN and sent again is classified     *)
(* once (adapt_ipc.c:330-334, 353-355, 412, 459).                          *)
THEOREM RetriesKeepTheirClass == Spec => []ClassifiedOnce
<1>1. RetryInv => ClassifiedOnce
  BY DEF RetryInv
<1> QED BY <1>1, Retries, PTL

-----------------------------------------------------------------------------
(* The size policies.                                                      *)

StickyInv ==
  /\ extreme \in Routes
  /\ policy = "SIZE_HYSTERESIS" => IF lastRoute = NoRoute THEN extreme = "UDS"
                                   ELSE lastRoute = extreme
  /\ policy = "QUEUE_AWARE" /\ lastRoute = "SHM" => extreme = "SHM"

LEMMA StickyStep ==
  ASSUME StickyInv, [Next]_vars
  PROVE  StickyInv'
<1>1. CASE UNCHANGED <<policy, lastRoute, extreme>>
  BY <1>1 DEF StickyInv
<1>2. ASSUME NEW s \in Sizes, Classify(s), UNCHANGED config
      PROVE  StickyInv'
  <2>1. PICK e \in -Eps .. Eps, f \in -Eps .. Eps :
          lastRoute' = Decide(policy, band', lastRoute, Estimate(e, f), mapped, s.dgram, Cold,
                              budget)
    BY <1>2 DEF Classify
  <2>2. extreme' = CASE band' = "high" -> "SHM" [] band' = "low" -> "UDS" [] OTHER -> extreme
    BY <1>2 DEF Classify, Remember
  <2>3. policy' = policy
    BY <1>2 DEF config
  <2>4. extreme' \in Routes
    BY <2>2 DEF StickyInv, Routes
  <2>5. CASE policy = "SIZE_HYSTERESIS"
    <3>1. lastRoute' = SizeRoute(band', lastRoute)
      BY <2>1, <2>5 DEF Decide, ByCost
    <3> QED BY <2>2, <2>3, <2>4, <2>5, <3>1 DEF SizeRoute, StickyInv, Routes, NoRoute
  <2>6. CASE policy = "QUEUE_AWARE"
    <3>1. PICK wait, est : lastRoute' = EscapeRoute(band', lastRoute, wait, est, s.dgram)
      BY <2>1, <2>6 DEF Decide, ByCost
    <3>2. lastRoute' = "SHM" => band' = "high" \/ (band' # "low" /\ lastRoute = "SHM")
      BY <3>1 DEF EscapeRoute, SizeRoute
    <3> QED BY <2>2, <2>3, <2>4, <2>6, <3>2 DEF StickyInv
  <2> QED BY <2>3, <2>4, <2>5, <2>6 DEF StickyInv
<1>3. ASSUME NEW s \in Sizes, NEW again \in BOOLEAN, Send(s, again)
      PROVE  StickyInv'
  BY <1>1, <1>2, <1>3 DEF Send, config, sticky
<1>4. CASE Transmit \/ Change \/ UNCHANGED vars
  BY <1>1, <1>4 DEF Transmit, Negotiate, FallBack, Wait, PushRecord, SendDatagram, Return,
                    Change, vars, config, sticky, history
<1> QED BY <1>3, <1>4 DEF Next

(* The remembered route of the size policies is moved by decisions alone,  *)
(* never by an escalation, a fallback or a retry (adapt_ipc.c:385-389).    *)
THEOREM RouteSticks == Spec => []StickyRoute
<1>1. Init => StickyInv
  BY DEF Init, StickyInv, Routes, NoRoute
<1>2. StickyInv /\ [Next]_vars => StickyInv'
  BY StickyStep
<1>3. StickyInv => StickyRoute
  BY DEF StickyInv, StickyRoute
<1> QED BY <1>1, <1>2, <1>3, PTL DEF Spec

-----------------------------------------------------------------------------
(* The decision log.  The decision numbered n is where it was recorded, at *)
(* (n - 1) modulo the size of the log, and the cursor, which is the number  *)
(* of decisions cut to its word, points to where the next one goes.        *)
LogInv ==
  /\ log \in [0 .. LogSize - 1 -> Nat] /\ seq \in Nat
  /\ count = IF seq < LogSize THEN seq ELSE LogSize
  /\ next = seq % LogWord
  /\ \A n \in seq - count + 1 .. seq : log[(n - 1) % LogSize] = n

(* Recording overwrites only the entry that falls out of the last LogSize  *)
(* (cost_model.c:232-235).                                                 *)
LEMMA RecordStep ==
  ASSUME LogInv, Record
  PROVE  LogInv'
<1> USE DecisionLogAssumption
<1>1. PICK S \in Nat \ {0}, W \in Nat \ {0} : S = LogSize /\ W = LogWord /\ W % S = 0
  BY DEF DecisionLogAssumption
<1>2. PICK s \in Nat, c \in Nat : s = seq /\ c = count /\ c = IF s < S THEN s ELSE S
  BY <1>1 DEF LogInv
<1>3. PICK d \in Nat : d = count' /\ d = IF s + 1 < S THEN s + 1 ELSE S
  BY <1>1, <1>2 DEF Record
<1>4. PICK i \in 0 .. S - 1 : i = s % S
  BY <1>1, <1>2
<1>5. next % S = i
  <2>1. s \in Int
    OBVIOUS
  <2>2. (s % W) % S = s % S
    BY <1>1, <2>1, ModMod
  <2> QED
    BY <1>1, <1>2, <1>4, <2>2, Zenon DEF LogInv
<1>6. seq' = s + 1 /\ log' = [log EXCEPT ![i] = s + 1] /\ log \in [0 .. S - 1 -> Nat]
  BY <1>1, <1>2, <1>5, Zenon DEF Record, LogInv
<1>7. next' = (s + 1) % W
  <2>1. PICK m \in 0 .. W - 1 : m = s % W
    BY <1>1, <1>2
  <2>2. m % W = m
    <3>1. m \in Int /\ m = W * 0 + m
      OBVIOUS
    <3> QED
      BY <3>1, Remainder
  <2>3. next' = (m + 1) % W
    BY <1>1, <1>2, <2>1, Zenon DEF Record, LogInv
  <2>4. 1 \in 0 .. W /\ s \in Int /\ m \in Int
    OBVIOUS
  <2>5. /\ (m + 1) % W = IF (m % W) + 1 < W THEN (m % W) + 1 ELSE (m % W) + 1 - W
        /\ (s + 1) % W = IF (s % W) + 1 < W THEN (s % W) + 1 ELSE (s % W) + 1 - W
    BY <2>4, ModAdd, Zenon
  <2> QED
    BY <2>1, <2>2, <2>3, <2>5, Zenon
<1>8. log' \in [0 .. S - 1 -> Nat]
  BY <1>6
<1>9. ASSUME NEW n \in s + 1 - d + 1 .. s + 1
      PROVE  log'[(n - 1) % S] = n
  <2>1. CASE n = s + 1
    <3>1. n - 1 = s
      BY <2>1
    <3>2. log'[i] = s + 1
      BY <1>6
    <3> QED
      BY <1>4, <2>1, <3>1, <3>2, Zenon
  <2>2. CASE n # s + 1
    <3>1. n \in s - c + 1 .. s
      BY <1>2, <1>3, <2>2
    <3>2. log[(n - 1) % S] = n
      BY <1>1, <1>2, <3>1, Zenon DEF LogInv
    <3>3. PICK j \in 0 .. S - 1 : j = (n - 1) % S
      OBVIOUS
    <3>4. j # i
      <4>1. PICK e \in 1 .. S - 1 : e = s - (n - 1)
        BY <1>3, <3>1
      <4>2. n - 1 \in Int /\ (n - 1) + e = s
        BY <4>1
      <4>3. ((n - 1) + e) % S # (n - 1) % S
        BY <4>2, OtherSlot
      <4> QED
        BY <1>4, <3>3, <4>2, <4>3, Zenon
    <3>5. log'[j] = log[j]
      BY <1>6, <3>4
    <3> QED
      BY <3>2, <3>3, <3>5, Zenon
  <2> QED
    BY <2>1, <2>2
<1>10. seq' \in Nat /\ (count' = IF seq' < LogSize THEN seq' ELSE LogSize)
  BY <1>1, <1>3, <1>6
<1> QED
  <2>1. log' \in [0 .. LogSize - 1 -> Nat] /\ next' = seq' % LogWord
    BY <1>1, <1>6, <1>7, <1>8, Zenon
  <2>2. \A n \in seq' - count' + 1 .. seq' : log'[(n - 1) % LogSize] = n
    <3>1. \A n \in s + 1 - d + 1 .. s + 1 : log'[(n - 1) % S] = n
      BY <1>9
    <3>2. seq' = s + 1 /\ count' = d /\ LogSize = S
      BY <1>1, <1>3, <1>6
    <3>3. ASSUME NEW n \in seq' - count' + 1 .. seq'
          PROVE  log'[(n - 1) % LogSize] = n
      <4>1. n \in s + 1 - d + 1 .. s + 1
        BY <3>2
      <4> QED
        BY <3>1, <3>2, <4>1, Zenon
    <3> QED
      BY <3>3
  <2> QED
    BY <1>10, <2>1, <2>2, Zenon DEF LogInv

(* So the dump, which counts back from the cursor in its own word, finds   *)
(* the decisions it looks for (cost_model.c:251-252).                      *)
LEMMA LogOf ==
  ASSUME LogInv
  PROVE  LogTypeOK /\ LogIsSuffix
<1>1. PICK S \in Nat \ {0}, W \in Nat \ {0} : S = LogSize /\ W = LogWord /\ W % S = 0
  BY DecisionLogAssumption DEF DecisionLogAssumption
<1>2. PICK s \in Nat, c \in 0 .. S, x \in 0 .. W - 1 :
         s = seq /\ c = count /\ x = next /\ x = s % W /\ c <= s
  <2>1. next \in 0 .. W - 1
    BY <1>1 DEF LogInv
  <2>2. count \in 0 .. S /\ seq \in Nat /\ count <= seq
    BY <1>1 DEF LogInv
  <2> QED
    BY <1>1, <2>1, <2>2 DEF LogInv
<1>3. LogTypeOK
  BY <1>1, <1>2, Zenon DEF LogTypeOK, LogInv
<1>4. ASSUME NEW k \in 1 .. c
      PROVE  Dump[k] = s - c + k
  <2>1. PICK d \in -S .. 0 : d = k - 1 - c
    BY <1>2
  <2>2. PICK y \in Int : y = x + d
    OBVIOUS
  <2>3. x - c + k - 1 = y /\ (s - c + k) - 1 = s + d /\ s - c + k \in s - c + 1 .. s
    BY <1>2, <2>1, <2>2
  <2>4. (y % W) % S = y % S
    <3>1. S \in Nat \ {0} /\ W \in Nat \ {0} /\ W % S = 0 /\ y \in Int
      BY <1>1, Zenon
    <3> QED
      BY <3>1, ModMod, Zenon
  <2>5. x % S = s % S
    <3>1. s \in Int
      OBVIOUS
    <3>2. (s % W) % S = s % S
      <4>1. S \in Nat \ {0} /\ W \in Nat \ {0} /\ W % S = 0
        BY <1>1, Zenon
      <4> QED
        BY <3>1, <4>1, ModMod, Zenon
    <3> QED
      BY <1>2, <3>2, Zenon
  <2>6. (x + d) % S = (s + d) % S
    <3>1. x \in Int /\ s \in Int
      OBVIOUS
    <3> QED
      BY <2>5, <3>1, SameSlot
  <2>7. log[(s + d) % S] = s - c + k
    BY <1>1, <1>2, <2>3, Zenon DEF LogInv
  <2>8. Dump[k] = log[(y % W) % S]
    BY <1>1, <1>2, <2>3, Zenon DEF Dump
  <2> QED
    BY <2>2, <2>4, <2>6, <2>7, <2>8, Zenon
<1>5. LogIsSuffix
  BY <1>1, <1>2, <1>4, Zenon DEF LogIsSuffix, LogInv
<1> QED
  BY <1>3, <1>5

(* In particular the log keeps its types.                                   *)
LEMMA LogTyped == LogInv => LogTypeOK
  BY LogOf

(* An empty log (cost_model.c:225-228).                                    *)
LEMMA LogInitially == LogInit => LogInv
<1> SUFFICES ASSUME LogInit PROVE LogInv
  OBVIOUS
<1>1. LogSize \in Nat \ {0} /\ LogWord \in Nat \ {0}
  BY DecisionLogAssumption DEF DecisionLogAssumption
<1>2. 0 % LogWord = 0
  <2>1. 0 = LogWord * 0 + 0 /\ 0 \in 0 .. LogWord - 1
    BY <1>1
  <2> QED
    BY <1>1, <2>1, Remainder
<1> QED
  BY <1>1, <1>2 DEF LogInit, LogInv

TypedInv == TypeOK /\ LogInv

(* What the history remembers of a decision.                               *)
LEMMA RememberTyped ==
  ASSUME extreme \in Routes, flips \in 0 .. 2, NEW decided, Remember(decided)
  PROVE  extreme' \in Routes /\ flips' \in 0 .. 2
BY DEF Remember, Routes

(* A classification keeps the band and the route in their sets, and the log*)
(* in order (cost_model.c:232-235, adapt_ipc.c:353-372).                   *)
LEMMA ClassifyTyped ==
  ASSUME TypedInv, NEW s \in Sizes, Classify(s)
  PROVE  /\ band' \in {"low", "mid", "high"} /\ lastRoute' \in Routes
         /\ retryPending' \in BOOLEAN
         /\ extreme' \in Routes /\ flips' \in 0 .. 2
         /\ LogInv'
<1>1. lastRoute' \in Routes
  BY ClassifyRoutes DEF TypedInv, TypeOK
<1>2. band' \in {"low", "mid", "high"}
  BY RoutingAssumption DEF RoutingAssumption, Classify, Between, TypedInv, TypeOK
<1>3. extreme' \in Routes /\ flips' \in 0 .. 2
  BY RememberTyped DEF Classify, TypedInv, TypeOK
<1>4. LogInv'
  <2>1. CASE logging
    BY <2>1, RecordStep DEF Classify, TypedInv
  <2>2. CASE ~logging
    BY <2>2 DEF Classify, TypedInv, logvars, LogInv
  <2> QED
    BY <2>1, <2>2
<1>5. retryPending' \in BOOLEAN
  BY DEF Classify
<1> QED
  BY <1>1, <1>2, <1>3, <1>4, <1>5

(* Every step keeps the types and the log.                                 *)
LEMMA TypedStep == TypedInv /\ [Next]_vars => TypedInv'
<1> SUFFICES ASSUME TypedInv, [Next]_vars PROVE TypedInv'
  OBVIOUS
<1> USE DEF TypedInv
<1>1. (LogInv => LogTypeOK)'
  BY LogTyped, PTL
<1>2. ASSUME NEW s \in Sizes, NEW again \in BOOLEAN, Send(s, again)
      PROVE  TypedInv'
  <2>1. /\ UNCHANGED <<policy, logging, budget, mapped, learnt, world>> /\ pc = "idle"
        /\ classified' \in Nat /\ inherited' \in BOOLEAN
    <3>1. UNCHANGED <<policy, logging, budget, mapped, learnt, world>> /\ pc = "idle"
      BY <1>2 DEF Send, config
    <3>2. classified' \in {classified, 0, classified + 1, 1}
      BY <1>2, Zenon DEF Send
    <3>3. inherited' \in BOOLEAN
      BY <1>2, Zenon DEF Send, TypeOK
    <3>4. classified \in Nat
      BY DEF TypeOK
    <3> QED
      BY <3>1, <3>2, <3>3, <3>4
  <2>2. /\ band' \in {"low", "mid", "high"} /\ lastRoute' \in Routes \cup {NoRoute}
        /\ retryPending' \in BOOLEAN
        /\ extreme' \in Routes /\ flips' \in 0 .. 2
        /\ LogInv'
    <3>1. CASE Resumes(s)
      BY <1>2, <3>1 DEF Send, sticky, logvars, LogInv, TypeOK
    <3>2. CASE ~Resumes(s)
      BY <1>2, <3>2, ClassifyTyped DEF Send
    <3> QED
      BY <3>1, <3>2
  <2>3. PICK r \in Routes, pending \in Routes \cup {NoRoute} : Dispatch(r, s, pending)
    <3>1. CASE Resumes(s)
      <4>1. pendingRoute \in Routes
        BY <3>1 DEF Resumes, TypeOK
      <4>2. Escalated(pendingRoute, s) \in Routes
        BY <4>1 DEF Escalated, Routes
      <4> QED
        BY <1>2, <3>1, <4>1, <4>2 DEF Send
    <3>2. CASE ~Resumes(s)
      <4>1. lastRoute' \in Routes
        BY <1>2, <3>2, ClassifyTyped DEF Send
      <4>2. Escalated(lastRoute', s) \in Routes
        BY <4>1 DEF Escalated, Routes
      <4> QED
        BY <1>2, <3>2, <4>1, <4>2 DEF Send
    <3> QED
      BY <3>1, <3>2
  <2>4. /\ size' \in Sizes \cup {NoSize} /\ pendingSize' \in Sizes \cup {NoSize}
        /\ pendingRoute' \in Routes \cup {NoRoute} /\ pc' \in {"idle", "routed"}
        /\ route' \in IF pc' = "routed" THEN Routes ELSE {NoRoute}
        /\ result' \in {"none", "ok", "EAGAIN", "EMSGSIZE", "ECONNREFUSED", "error"}
    BY <2>1, <2>3 DEF Dispatch, TypeOK
  <2> QED
    BY <1>1, <2>1, <2>2, <2>4 DEF TypeOK
<1>3. CASE Negotiate
  BY <1>1, <1>3 DEF Negotiate, config, sticky, retry, logvars, LogInv, TypeOK
<1>4. CASE FallBack
  BY <1>1, <1>4 DEF FallBack, config, sticky, history, logvars, LogInv, TypeOK, Routes
<1>5. ASSUME NEW r, NEW again \in BOOLEAN, Return(r, again),
             r \in {"none", "ok", "EAGAIN", "EMSGSIZE", "ECONNREFUSED", "error"},
             learnt' \in [Routes -> 0 .. MinSamples]
      PROVE  TypedInv'
  BY <1>1, <1>5 DEF Return, config, sticky, history, logvars, LogInv, TypeOK
<1>6. ASSUME NEW r \in Routes, Measure(r)
      PROVE  learnt' \in [Routes -> 0 .. MinSamples]
  <2>1. learnt \in [Routes -> 0 .. MinSamples] /\ MinSamples \in Nat
    BY RoutingAssumption DEF RoutingAssumption, TypeOK
  <2>2. \/ learnt' = learnt
        \/ learnt[r] < MinSamples /\ learnt' = [learnt EXCEPT ![r] = learnt[r] + 1]
    BY <1>6, Zenon DEF Measure
  <2> QED
    BY <2>1, <2>2
<1>7. learnt \in [Routes -> 0 .. MinSamples] /\ retryPending \in BOOLEAN
      /\ "UDS" \in Routes /\ "SHM" \in Routes
  BY DEF TypeOK, Routes
<1>8. CASE Wait
  BY <1>5, <1>7, <1>8 DEF Wait
<1>9. CASE PushRecord
  BY <1>5, <1>6, <1>7, <1>9 DEF PushRecord
<1>10. CASE SendDatagram
  BY <1>5, <1>6, <1>7, <1>10 DEF SendDatagram
<1>11. CASE Change
  BY <1>1, <1>11 DEF Change, config, sticky, retry, logvars, LogInv, TypeOK
<1>12. CASE UNCHANGED vars
  BY <1>1, <1>12 DEF vars, config, sticky, retry, history, logvars, LogInv, TypeOK
<1> QED
  BY <1>2, <1>3, <1>4, <1>8, <1>9, <1>10, <1>11, <1>12 DEF Next, Transmit

(* The invariant of the log holds, whatever is sent.                       *)
LEMMA Logged == Spec => []TypedInv
<1>1. Init => TypedInv
  <2> SUFFICES ASSUME Init PROVE TypedInv
    OBVIOUS
  <2>1. LogInv /\ LogTypeOK
    BY LogInitially, LogOf DEF Init
  <2>2. learnt \in [Routes -> 0 .. MinSamples]
    BY RoutingAssumption DEF Init, RoutingAssumption
  <2>3. extreme \in Routes /\ flips \in 0 .. 2 /\ classified \in Nat
    BY DEF Init, Routes
  <2>4. TypeOK
    BY <2>1, <2>2, <2>3, Zenon DEF Init, TypeOK
  <2> QED
    BY <2>1, <2>4 DEF TypedInv
<1> QED
  BY <1>1, TypedStep, PTL DEF Spec

(* Every variable keeps its type, the cursor and the count of the log too. *)
THEOREM TypeCorrect == Spec => []TypeOK
<1>1. TypedInv => TypeOK
  BY DEF TypedInv
<1> QED
  BY <1>1, Logged, PTL

(* The dump is the last decisions in their order, whatever the size of the *)
(* log and of the cursor's word, as long as the one divides the other:     *)
(* "Keep the last N decisions in a ring for dumping" (cost_model.h:201).   *)
THEOREM DumpIsSuffix == Spec => []LogIsSuffix
<1>1. TypedInv => LogIsSuffix
  BY LogOf DEF TypedInv
<1> QED
  BY <1>1, Logged, PTL

================================================================================
