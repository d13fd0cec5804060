---------------------------- MODULE RingInitProofs -----------------------------
(***************************************************************************)
(* What holds of RingInit for every ring, any number of messages and any   *)
(* number of consumers in a row: nobody touches bytes that the object does *)
(* not have, whoever starts, stops and dies; and as long as the name has   *)
(* one producer, both sides use one object, and the records come out of it *)
(* once and in order, but for one for each consumer that dies before its   *)
(* pop returns, and what an orderly shutdown of the producer drops.        *)
(***************************************************************************)
EXTENDS RingInit, SequenceTheorems, FiniteSetTheorems, TLAPS

(* One run of the program: no producer before, none after.                 *)
OneRun == ~Leftover /\ Starts["producer"] <= 1

Object == [grown : BOOLEAN, initialized : {0, 1}, head : Nat, tail : Nat,
           data : [0 .. Slots - 1 -> Nat]]

ConsumerPlaces == {"down", "opened", "short", "sized", "mapped", "created",
                   "running", "loaded", "copied", "stored"}
ProducerPlaces == {"down", "opened", "short", "sized", "mapped", "reset",
                   "announce", "created", "running"}

(* The variables have their kinds, and whoever is up has an object.        *)
Shape ==
  /\ objs \in Seq(Object) /\ name \in 0 .. Len(objs)
  /\ pc \in [Sides -> ProducerPlaces \cup ConsumerPlaces] /\ at \in [Sides -> Nat]
  /\ pc["producer"] \in ProducerPlaces /\ pc["consumer"] \in ConsumerPlaces
  /\ \A s \in Sides : pc[s] # "down" => at[s] \in 1 .. Len(objs)
  /\ \A s \in Sides : pc[s] = "down" => at[s] = Nobody
  /\ starts \in [Sides -> Nat]
  /\ item \in [tail : Nat, rec : Nat] /\ sent \in Nat /\ got \in Seq(Nat)

(* An object that was grown stays so, and Stat asks before anything is     *)
(* mapped.                                                                 *)
BackedInv ==
  \A s \in Sides : pc[s] \notin {"down", "opened", "short"} => objs[at[s]].grown

-----------------------------------------------------------------------------
(* A store to one object leaves the others, and the list, as they are.     *)
LEMMA Stored ==
  ASSUME objs \in Seq(Object), NEW o \in 1 .. Len(objs), NEW v \in Object
  PROVE  /\ [objs EXCEPT ![o] = v] \in Seq(Object)
         /\ Len([objs EXCEPT ![o] = v]) = Len(objs)
         /\ \A x \in 1 .. Len(objs) : [objs EXCEPT ![o] = v][x] = IF x = o THEN v ELSE objs[x]
BY ExceptSeq

(* What the two kinds of stores to an object leave of it.                  *)
LEMMA Fields ==
  ASSUME NEW o \in Object, NEW n \in Nat, NEW d \in [0 .. Slots - 1 -> Nat]
  PROVE  /\ [o EXCEPT !.tail = n] \in Object /\ [o EXCEPT !.tail = n].grown = o.grown
         /\ [o EXCEPT !.tail = n].head = o.head /\ [o EXCEPT !.tail = n].tail = n
         /\ [o EXCEPT !.tail = n].data = o.data
         /\ [o EXCEPT !.data = d, !.head = n] \in Object
         /\ [o EXCEPT !.data = d, !.head = n].grown = o.grown
         /\ [o EXCEPT !.data = d, !.head = n].tail = o.tail
         /\ [o EXCEPT !.data = d, !.head = n].head = n
         /\ [o EXCEPT !.data = d, !.head = n].data = d
BY DEF Object

(* The object that is new or found when a side opens the name.             *)
LEMMA Opened ==
  ASSUME Shape, NEW s \in Sides, Open(s)
  PROVE  /\ objs' \in Seq(Object) /\ name' \in 1 .. Len(objs')
         /\ Len(objs) <= Len(objs')
         /\ \A x \in 1 .. Len(objs) : objs'[x] = objs[x]
         /\ \A x \in 1 .. Len(objs') : x \notin 1 .. Len(objs) => objs'[x] = Zero
         /\ name # Nobody => name' = name /\ objs' = objs
<1>1. Zero \in Object
  BY RingInitAssumption DEF Zero, Object, RingInitAssumption, Stale
<1>2. CASE name = Nobody
  <2>1. objs \in Seq(Object) /\ Len(objs) \in Nat
    BY DEF Shape
  <2>2. name' = Len(objs) + 1 /\ objs' = Append(objs, Zero)
    BY <1>2 DEF Open
  <2>3. /\ objs' \in Seq(Object) /\ Len(objs') = Len(objs) + 1
        /\ objs'[Len(objs) + 1] = Zero
        /\ \A x \in 1 .. Len(objs) : objs'[x] = objs[x]
    BY <1>1, <2>1, <2>2, AppendProperties
  <2> QED
    BY <1>2, <2>1, <2>2, <2>3
<1>3. CASE name # Nobody
  BY <1>3 DEF Open, Shape, Nobody, mem
<1> QED
  BY <1>2, <1>3

(* Every step of either side (shm_ringbuffer.c:167-251, 390-430, 517-524). *)
LEMMA ShapeStep == Shape /\ BackedInv /\ [Next]_vars => Shape' /\ BackedInv'
<1> SUFFICES ASSUME Shape, BackedInv, [Next]_vars PROVE Shape' /\ BackedInv'
  OBVIOUS
<1> USE RingInitAssumption
<1> USE DEF RingInitAssumption, BackedInv, GoTo, Down, mem, traffic, Sides, Nobody, NoItem,
            ProducerPlaces, ConsumerPlaces
<1>len. Len(objs) \in Nat
  BY DEF Shape
<1>num. sent \in Nat /\ item.tail \in Nat
  BY DEF Shape
<1>1. ASSUME NEW s \in Sides, Open(s)
      PROVE  Shape' /\ BackedInv'
  <2>1. /\ objs' \in Seq(Object) /\ name' \in 1 .. Len(objs')
        /\ Len(objs') \in Nat /\ Len(objs) <= Len(objs')
        /\ \A x \in 1 .. Len(objs) : objs'[x] = objs[x]
    <3>1. /\ objs' \in Seq(Object) /\ name' \in 1 .. Len(objs')
          /\ Len(objs) <= Len(objs')
          /\ \A x \in 1 .. Len(objs) : objs'[x] = objs[x]
      BY <1>1, Opened, Zenon
    <3>2. Len(objs') \in Nat
      BY <3>1, LenProperties
    <3> QED
      BY <3>1, <3>2, Zenon
  <2>2. name' \in Nat /\ pc[s] = "down"
    <3>1. name' \in Nat
      BY <2>1
    <3> QED
      BY <1>1, <3>1, Zenon DEF Open
  <2>3. /\ pc' = [pc EXCEPT ![s] = "opened"] /\ at' = [at EXCEPT ![s] = name']
        /\ starts' = [starts EXCEPT ![s] = @ + 1] /\ UNCHANGED <<item, sent, got>>
    BY <1>1 DEF Open
  <2>4. /\ pc' \in [Sides -> ProducerPlaces \cup ConsumerPlaces] /\ at' \in [Sides -> Nat]
        /\ starts' \in [Sides -> Nat]
        /\ pc'["producer"] \in ProducerPlaces /\ pc'["consumer"] \in ConsumerPlaces
    BY <2>2, <2>3 DEF Shape
  <2>5. ASSUME NEW t \in Sides
        PROVE  /\ pc'[t] # "down" => at'[t] \in 1 .. Len(objs')
               /\ pc'[t] = "down" => at'[t] = Nobody
               /\ pc'[t] \notin {"down", "opened", "short"} => objs'[at'[t]].grown
    <3>1. CASE t = s
      BY <2>1, <2>3, <3>1 DEF Shape
    <3>2. CASE t # s
      <4>1. pc'[t] = pc[t] /\ at'[t] = at[t]
        BY <2>3, <3>2 DEF Shape
      <4>2. pc[t] # "down" => at[t] \in 1 .. Len(objs) /\ at[t] \in 1 .. Len(objs')
        BY <2>1, <1>len DEF Shape
      <4>3. pc[t] = "down" => at[t] = Nobody
        BY Zenon DEF Shape
      <4> QED
        BY <2>1, <4>1, <4>2, <4>3
    <3> QED
      BY <3>1, <3>2
  <2>6. item' \in [tail : Nat, rec : Nat] /\ sent' \in Nat /\ got' \in Seq(Nat)
    BY <2>3 DEF Shape
  <2>7. name' \in 0 .. Len(objs')
    BY <2>1
  <2> QED
    BY <2>1, <2>4, <2>5, <2>6, <2>7, Zenon DEF Shape
<1>2. ASSUME NEW s \in Sides, Stat(s) \/ Mmap(s) \/ InitDone(s)
      PROVE  Shape' /\ BackedInv'
  <2>1. /\ UNCHANGED <<objs, name, at, starts, item, sent, got>>
        /\ pc[s] \in {"opened", "sized", "created"}
        /\ \E q \in {"short", "sized", "mapped", "running"} : pc' = [pc EXCEPT ![s] = q]
        /\ pc[s] = "opened" /\ pc'[s] # "short" => objs[at[s]].grown
    BY <1>2 DEF Stat, Mmap, InitDone, Shape
  <2>2. PICK q \in {"short", "sized", "mapped", "running"} : pc' = [pc EXCEPT ![s] = q]
    BY <2>1
  <2>3. Shape'
    BY <2>1, <2>2 DEF Shape
  <2>4. BackedInv'
    BY <2>1, <2>2 DEF Shape
  <2> QED
    BY <2>3, <2>4
<1>3. ASSUME NEW s \in Sides, Truncate(s)
      PROVE  Shape' /\ BackedInv'
  <2> DEFINE v == [objs[at[s]] EXCEPT !.grown = TRUE]
  <2>1. at[s] \in 1 .. Len(objs) /\ objs[at[s]] \in Object
    BY <1>3, ElementOfSeq DEF Truncate, Shape
  <2>2. v \in Object /\ v.grown
    BY <2>1 DEF Object
  <2>3. objs' = [objs EXCEPT ![at[s]] = v]
    BY <1>3 DEF Truncate
  <2>4. /\ objs' \in Seq(Object) /\ Len(objs') = Len(objs)
        /\ \A x \in 1 .. Len(objs) : objs'[x] = IF x = at[s] THEN v ELSE objs[x]
    <3>1. objs \in Seq(Object)
      BY DEF Shape
    <3> HIDE DEF v
    <3> QED
      BY <2>1, <2>2, <2>3, <3>1, Stored
  <2> HIDE DEF v
  <2> QED
    BY <1>3, <2>1, <2>2, <2>4, <1>len DEF Truncate, Shape
<1>4. CASE Reset
  <2> DEFINE p == at["producer"]
  <2>1. PICK v \in Object : objs' = [objs EXCEPT ![p] = v] /\ v.grown = objs[p].grown
    <3>1. p \in 1 .. Len(objs) /\ objs[p] \in Object
      BY <1>4, ElementOfSeq DEF Reset, ResetHead, ResetTail, Announce, Shape
    <3>2. /\ [objs[p] EXCEPT !.head = 0] \in Object
          /\ [objs[p] EXCEPT !.tail = 0] \in Object
          /\ [objs[p] EXCEPT !.initialized = 1] \in Object
      BY <3>1 DEF Object
    <3>3. \/ objs' = [objs EXCEPT ![p] = [objs[p] EXCEPT !.head = 0]]
          \/ objs' = [objs EXCEPT ![p] = [objs[p] EXCEPT !.tail = 0]]
          \/ objs' = [objs EXCEPT ![p] = [objs[p] EXCEPT !.initialized = 1]]
      BY <1>4 DEF Reset, ResetHead, ResetTail, Announce
    <3> QED
      BY <3>1, <3>2, <3>3 DEF Object
  <2>2. p \in 1 .. Len(objs)
    BY <1>4 DEF Reset, ResetHead, ResetTail, Announce, Shape
  <2>3. /\ objs' \in Seq(Object) /\ Len(objs') = Len(objs)
        /\ \A x \in 1 .. Len(objs) : objs'[x].grown = objs[x].grown
    <3>1. objs \in Seq(Object)
      BY DEF Shape
    <3> HIDE DEF p
    <3> QED
      BY <2>1, <2>2, <3>1, Stored
  <2>4. PICK place \in ProducerPlaces \ {"down"} :
          /\ pc' = [pc EXCEPT !["producer"] = place]
          /\ UNCHANGED <<name, at, starts, item, sent, got>>
    BY <1>4 DEF Reset, ResetHead, ResetTail, Announce, GoTo, traffic, ProducerPlaces
  <2>5. pc["producer"] \notin {"down", "opened", "short"}
    BY <1>4 DEF Reset, ResetHead, ResetTail, Announce
  <2> HIDE DEF p
  <2>6. /\ pc' \in [Sides -> ProducerPlaces \cup ConsumerPlaces]
        /\ pc'["producer"] = place /\ pc'["consumer"] = pc["consumer"]
        /\ pc'["producer"] \in ProducerPlaces /\ pc'["consumer"] \in ConsumerPlaces
    BY <2>4 DEF Shape, Sides
  <2>7. ASSUME NEW s \in Sides
        PROVE  /\ pc'[s] # "down" => at'[s] \in 1 .. Len(objs')
               /\ pc'[s] = "down" => at'[s] = Nobody
               /\ pc'[s] \notin {"down", "opened", "short"} => objs'[at'[s]].grown
    <3>1. at'[s] = at[s] /\ Len(objs') = Len(objs)
      BY <2>3, <2>4
    <3>2. pc[s] # "down" => at[s] \in 1 .. Len(objs) /\ objs'[at[s]].grown = objs[at[s]].grown
      BY <2>3 DEF Shape
    <3>3. pc[s] \notin {"down", "opened", "short"} => objs[at[s]].grown
      BY DEF BackedInv
    <3>4. CASE s = "producer"
      BY <2>4, <2>5, <2>6, <3>1, <3>2, <3>3, <3>4
    <3>5. CASE s = "consumer"
      <4>1. pc'[s] = pc[s] /\ (pc[s] = "down" => at[s] = Nobody)
        BY <2>6, <3>5 DEF Shape
      <4> QED
        BY <3>1, <3>2, <3>3, <4>1
    <3> QED
      BY <3>4, <3>5 DEF Sides
  <2>8. name' \in 0 .. Len(objs') /\ objs' \in Seq(Object)
    BY <2>3, <2>4 DEF Shape
  <2>9. /\ at' \in [Sides -> Nat] /\ starts' \in [Sides -> Nat]
        /\ item' \in [tail : Nat, rec : Nat] /\ sent' \in Nat /\ got' \in Seq(Nat)
    BY <2>4 DEF Shape
  <2> QED
    BY <2>6, <2>7, <2>8, <2>9, Zenon DEF Shape, BackedInv
<1>5. CASE Attach
  BY <1>5 DEF Attach, Shape
<1>6. ASSUME NEW s \in Sides, Close(s) \/ Die(s)
      PROVE  Shape' /\ BackedInv'
  <2>1. /\ pc' = [pc EXCEPT ![s] = "down"] /\ at' = [at EXCEPT ![s] = Nobody]
        /\ name' \in {Nobody, name} /\ UNCHANGED <<objs, starts, sent, got>>
    BY <1>6 DEF Close, Die
  <2>2. item' \in {item, NoItem}
    BY <1>6 DEF Close, Die
  <2> QED
    BY <2>1, <2>2, <1>len DEF Shape, Stale
<1>7. CASE Push
  <2> DEFINE p == at["producer"]
             d == [objs[p].data EXCEPT ![objs[p].head % Slots] = sent + 1]
             h == objs[p].head + 1
             v == [objs[p] EXCEPT !.data = d, !.head = h]
  <2>1. p \in 1 .. Len(objs) /\ objs[p] \in Object
    <3>1. objs \in Seq(Object) /\ p \in 1 .. Len(objs)
      BY <1>7 DEF Push, Shape
    <3> HIDE DEF p
    <3> QED
      BY <3>1, ElementOfSeq
  <2>2. objs[p].head % Slots \in 0 .. Slots - 1
    <3>1. objs[p].head \in Nat
      BY <2>1 DEF Object
    <3> HIDE DEF p
    <3> QED
      BY <3>1
  <2>3. v \in Object /\ v.grown = objs[p].grown
    <3> HIDE DEF p
    <3>1. /\ sent + 1 \in Nat /\ h \in Nat
          /\ objs[p].data \in [0 .. Slots - 1 -> Nat]
      BY <2>1, <1>num DEF Object
    <3>2. d \in [0 .. Slots - 1 -> Nat]
      BY <2>2, <3>1
    <3> HIDE DEF d, h
    <3>3. /\ [objs[p] EXCEPT !.data = d, !.head = h] \in Object
          /\ [objs[p] EXCEPT !.data = d, !.head = h].grown = objs[p].grown
      BY <2>1, <3>1, <3>2 DEF Object
    <3> QED
      BY <3>3
  <2>4. objs' = [objs EXCEPT ![p] = v]
    BY <1>7 DEF Push
  <2>5. /\ objs' \in Seq(Object) /\ Len(objs') = Len(objs)
        /\ \A x \in 1 .. Len(objs) : objs'[x].grown = objs[x].grown
    <3>1. objs \in Seq(Object)
      BY DEF Shape
    <3> HIDE DEF v, d, p
    <3> QED
      BY <2>1, <2>3, <2>4, <3>1, Stored
  <2> HIDE DEF v, d, p
  <2> QED
    <3>1. pc["producer"] = "running" /\ sent' \in Nat
      <4>1. pc["producer"] = "running" /\ sent' = sent + 1
        BY <1>7, Zenon DEF Push
      <4> QED
        BY <1>num, <4>1
    <3>2. UNCHANGED <<name, pc, at, starts, item, got>>
      BY <1>7 DEF Push
    <3> QED
      BY <2>5, <3>1, <3>2, <1>len DEF Shape
<1>8. CASE PopLoad \/ PopCopy \/ PopReturn
  <2>1. pc["consumer"] # "down" => objs[at["consumer"]] \in Object
    BY ElementOfSeq DEF Shape
  <2>2. PopLoad => Shape' /\ BackedInv'
    <3> SUFFICES ASSUME PopLoad PROVE Shape' /\ BackedInv'
      OBVIOUS
    <3>1. objs[at["consumer"]].tail \in Nat
      BY <2>1 DEF PopLoad, Object
    <3>2. item' \in [tail : Nat, rec : Nat]
      BY <3>1 DEF PopLoad, Stale
    <3>3. /\ pc["consumer"] = "running" /\ pc' = [pc EXCEPT !["consumer"] = "loaded"]
          /\ UNCHANGED <<objs, name, at, starts, sent, got>>
      BY DEF PopLoad
    <3> QED
      BY <3>2, <3>3 DEF Shape
  <2>3. PopCopy => Shape' /\ BackedInv'
    <3> SUFFICES ASSUME PopCopy PROVE Shape' /\ BackedInv'
      OBVIOUS
    <3>1. item.tail % Slots \in 0 .. Slots - 1
      BY DEF Shape
    <3>2. objs[at["consumer"]].data[item.tail % Slots] \in Nat
      BY <2>1, <3>1 DEF PopCopy, Object
    <3>3. item' \in [tail : Nat, rec : Nat]
      BY <3>2 DEF PopCopy, Shape
    <3> QED
      BY <3>3 DEF PopCopy, Shape
  <2>4. PopReturn => Shape' /\ BackedInv'
    <3> SUFFICES ASSUME PopReturn PROVE Shape' /\ BackedInv'
      OBVIOUS
    <3>1. got \in Seq(Nat) /\ item.rec \in Nat
      BY DEF Shape
    <3>2. got' \in Seq(Nat)
      BY <3>1, AppendProperties DEF PopReturn
    <3>3. item' \in [tail : Nat, rec : Nat]
      BY DEF PopReturn, Stale
    <3>4. /\ pc["consumer"] = "stored" /\ pc' = [pc EXCEPT !["consumer"] = "running"]
          /\ UNCHANGED <<objs, name, at, starts, sent>>
      BY DEF PopReturn
    <3> QED
      BY <3>2, <3>3, <3>4 DEF Shape
  <2> QED
    BY <1>8, <2>2, <2>3, <2>4
<1>9. CASE PopStore
  <2> DEFINE c == at["consumer"]
             v == [objs[c] EXCEPT !.tail = item.tail + 1]
  <2>1. c \in 1 .. Len(objs) /\ objs[c] \in Object
    <3>1. objs \in Seq(Object) /\ c \in 1 .. Len(objs)
      BY <1>9 DEF PopStore, Shape
    <3> HIDE DEF c
    <3> QED
      BY <3>1, ElementOfSeq
  <2>2. v \in Object /\ v.grown = objs[c].grown
    <3> HIDE DEF c
    <3>1. item.tail + 1 \in Nat /\ objs[c].data \in [0 .. Slots - 1 -> Nat]
      <4>1. objs[c].data \in [0 .. Slots - 1 -> Nat]
        BY <2>1, Zenon DEF Object
      <4> QED
        BY <1>num, <4>1
    <3> QED
      BY <2>1, <3>1, Fields
  <2>3. objs' = [objs EXCEPT ![c] = v]
    BY <1>9 DEF PopStore
  <2>4. /\ objs' \in Seq(Object) /\ Len(objs') = Len(objs)
        /\ \A x \in 1 .. Len(objs) : objs'[x].grown = objs[x].grown
    BY <2>1, <2>2, <2>3, Stored DEF Shape
  <2> HIDE DEF v, c
  <2> QED
    BY <1>9, <2>4, <1>len DEF PopStore, Shape
<1>10. CASE UNCHANGED vars
  BY <1>10 DEF vars, Shape
<1> QED
  BY <1>1, <1>2, <1>3, <1>4, <1>5, <1>6, <1>7, <1>8, <1>9, <1>10 DEF Next, Setup, Pop

LEMMA ShapeInit == Init => Shape /\ BackedInv
<1> SUFFICES ASSUME Init PROVE Shape /\ BackedInv
  OBVIOUS
<1>1. Zero \in Object /\ Used \in Object
  BY RingInitAssumption DEF Zero, Used, Object, RingInitAssumption, Stale
<1>2. objs \in Seq(Object) /\ name \in 0 .. Len(objs)
  <2>1. CASE name = Nobody /\ objs = << >>
    BY <2>1 DEF Nobody
  <2>2. CASE name = 1 /\ objs = <<Used>>
    <3> HIDE DEF Used, Object
    <3> QED
      BY <1>1, <2>2
  <2> QED
    BY <2>1, <2>2 DEF Init
<1> QED
  BY <1>2 DEF Init, Shape, BackedInv, Sides, ProducerPlaces, ConsumerPlaces, NoItem,
              Nobody, Stale

(* Whoever has mapped an object has its bytes, in any number of starts,    *)
(* stops and deaths of both sides, and after runs that left the object     *)
(* behind (shm_ringbuffer.c:178-202).                                      *)
THEOREM AlwaysBacked == Spec => []Backed
<1>1. BackedInv => Backed
  BY DEF BackedInv, Backed
<1> QED
  BY <1>1, ShapeInit, ShapeStep, PTL DEF Spec

-----------------------------------------------------------------------------
(* Until its only producer stops, nobody unlinks the name.                 *)
NameInv ==
  /\ Shape
  /\ starts["producer"] = 0 => pc["producer"] = "down"
  /\ pc["producer"] # "down" \/ starts["producer"] = 0
       => \A s \in Sides : pc[s] # "down" => at[s] = name

(* The name changes hands only while no producer is up (ring_map,          *)
(* shm_ring_close).                                                        *)
LEMMA NameStep ==
  ASSUME Starts["producer"] <= 1, NameInv, Shape', [Next]_vars
  PROVE  NameInv'
<1> USE RingInitAssumption
<1> USE DEF RingInitAssumption, NameInv, GoTo, Down, mem, traffic, Sides, Nobody
<1>0. /\ pc \in [Sides -> ProducerPlaces \cup ConsumerPlaces] /\ at \in [Sides -> Nat]
      /\ starts \in [Sides -> Nat] /\ name \in Nat
      /\ \A s \in Sides : pc[s] # "down" => at[s] # 0
  <2>1. Shape /\ Len(objs) \in Nat
    BY DEF Shape
  <2>2. name \in Nat
    <3>1. name \in 0 .. Len(objs)
      BY <2>1, Zenon DEF Shape
    <3> QED
      BY <3>1, <2>1
  <2>3. ASSUME NEW s \in Sides, pc[s] # "down"
        PROVE  at[s] # 0
    <3>1. at[s] \in 1 .. Len(objs)
      BY <2>1, <2>3, Zenon DEF Shape
    <3> QED
      BY <3>1, <2>1
  <2> QED
    BY <2>1, <2>2, <2>3, Zenon DEF Shape
<1>1. ASSUME NEW s \in Sides, Open(s)
      PROVE  NameInv'
  <2>1. name # 0 => name' = name
    BY <1>1 DEF Open
  <2>2. /\ pc' = [pc EXCEPT ![s] = "opened"] /\ at' = [at EXCEPT ![s] = name']
        /\ starts' = [starts EXCEPT ![s] = @ + 1] /\ starts[s] < Starts[s]
        /\ pc[s] = "down"
    BY <1>1 DEF Open
  <2>3. CASE s = "producer"
    <3>1. starts["producer"] = 0 /\ starts'["producer"] = 1
      BY <1>0, <2>2, <2>3
    <3>2. \A t \in Sides : pc[t] # "down" => at[t] = name /\ name' = name
      BY <1>0, <2>1, <3>1
    <3> QED
      BY <1>0, <2>2, <2>3, <3>1, <3>2
  <2>4. CASE s = "consumer"
    <3>1. pc'["producer"] = pc["producer"] /\ starts'["producer"] = starts["producer"]
      BY <1>0, <2>2, <2>4
    <3>2. ASSUME pc["producer"] # "down" \/ starts["producer"] = 0
          PROVE  \A t \in Sides : pc[t] # "down" => at[t] = name /\ name' = name
      BY <1>0, <2>1, <3>2
    <3> QED
      BY <1>0, <2>2, <2>4, <3>1, <3>2
  <2> QED
    BY <2>3, <2>4
<1>2. ASSUME NEW s \in Sides, Stat(s) \/ Truncate(s) \/ Mmap(s) \/ InitDone(s)
      PROVE  NameInv'
  BY <1>0, <1>2 DEF Stat, Truncate, Mmap, InitDone
<1>3. ASSUME NEW s \in Sides, Close(s) \/ Die(s)
      PROVE  NameInv'
  BY <1>0, <1>3 DEF Close, Die
<1>4. CASE Reset \/ Push
  BY <1>0, <1>4 DEF Reset, ResetHead, ResetTail, Announce, Push
<1>5. CASE Attach \/ Pop
  BY <1>0, <1>5 DEF Attach, Pop, PopLoad, PopCopy, PopStore, PopReturn
<1>6. CASE UNCHANGED vars
  BY <1>6 DEF vars
<1> QED
  BY <1>1, <1>2, <1>3, <1>4, <1>5, <1>6 DEF Next, Setup

(* With one producer on a name, both sides use one object, also one of an  *)
(* earlier run, however many consumers come and go (adapt_ipc.c:635, 319). *)
THEOREM OneObject ==
  ASSUME Starts["producer"] <= 1 PROVE Spec => []SameRing
<1>1. Init => NameInv
  BY ShapeInit DEF Init, NameInv, Sides
<1>2. NameInv /\ Shape' /\ [Next]_vars => NameInv'
  BY NameStep
<1>3. NameInv => SameRing
  BY DEF NameInv, SameRing, Sides
<1>4. Spec => [](Shape /\ BackedInv)
  BY ShapeInit, ShapeStep, PTL DEF Spec
<1> QED
  BY <1>1, <1>2, <1>3, <1>4, PTL DEF Spec

-----------------------------------------------------------------------------
(* In one run records are numbered by their place in the ring.  Lane: what *)
(* is in an object; only one object is ever written to, and nothing before *)
(* the producer has announced its header.                                  *)
Lane(o) ==
  /\ o.tail <= o.head /\ o.head <= o.tail + Slots /\ o.head \in {0, sent}
  /\ \A i \in Nat : o.tail <= i /\ i < o.head => o.data[i % Slots] = i + 1
  /\ \A i \in 0 .. Slots - 1 : o.data[i] <= sent

LaneInv ==
  /\ \A x \in 1 .. Len(objs) : Lane(objs[x])
  /\ \A x, y \in 1 .. Len(objs) : x # y => objs[x].head = 0 \/ objs[y].head = 0
  /\ starts["producer"] = 0 \/ pc["producer"] \notin {"running", "down"} => sent = 0
  /\ pc["producer"] = "running" => objs[at["producer"]].head = sent

(* The pop under way, between its loads and its return.                    *)
PopInv ==
  LET c == objs[at["consumer"]] IN
  /\ pc["consumer"] \in {"loaded", "copied"} => item.tail = c.tail /\ c.tail < c.head
  /\ pc["consumer"] = "copied" => item.rec = c.tail + 1
  /\ pc["consumer"] = "stored" =>
       /\ item.rec = c.tail /\ item.rec \in 1 .. sent
       /\ \A i \in 1 .. Len(got) : got[i] < item.rec

(* What was returned is behind the tail.                                   *)
GotInv ==
  /\ \A i \in 1 .. Len(got) : got[i] \in 1 .. sent
  /\ \A i \in 1 .. Len(got) : i > 1 => got[i - 1] < got[i]
  /\ \A x \in 1 .. Len(objs) : objs[x].head > 0 =>
       \A i \in 1 .. Len(got) : got[i] <= objs[x].tail

OrderInv == NameInv /\ LaneInv /\ PopInv /\ GotInv

(* The slot of a record, as the producer and the consumer compute it.      *)
LEMMA SlotOf ==
  ASSUME NEW n \in Nat PROVE n % Slots \in 0 .. Slots - 1
BY RingInitAssumption DEF RingInitAssumption

(* Two places of a window of at most N have different slots.               *)
LEMMA OtherSlot ==
  ASSUME NEW N \in Nat \ {0}, NEW i \in Nat, NEW h \in Nat, i < h, h < i + N
  PROVE  i % N # h % N
<1> DEFINE a == i \div N  b == h \div N  r == i % N
<1>1. a \in Int /\ b \in Int /\ r \in 0 .. N - 1
  OBVIOUS
<1>2. i = N * a + r
  OBVIOUS
<1>3. SUFFICES ASSUME h % N = r PROVE FALSE
  OBVIOUS
<1>4. h = N * b + r
  BY <1>3
<1> HIDE DEF a, b, r
<1>5. N * b - N * a > 0 /\ N * b - N * a < N
  BY <1>1, <1>2, <1>4
<1>6. CASE b <= a
  <2>1. N * b <= N * a
    BY <1>1, <1>6
  <2> QED
    BY <1>1, <1>5, <2>1
<1>7. CASE b >= a + 1
  <2>1. N * b >= N * (a + 1)
    BY <1>1, <1>7
  <2>2. N * (a + 1) = N * a + N
    BY <1>1
  <2> QED
    BY <1>1, <1>5, <2>1, <2>2
<1> QED
  BY <1>1, <1>6, <1>7

(* Steps that move neither the cursors nor the records.                    *)
LEMMA QuietStep ==
  ASSUME OneRun, OrderInv, NameInv', UNCHANGED <<sent, got>>,
         Len(objs') >= Len(objs),
         \A x \in 1 .. Len(objs) : /\ objs'[x].head = objs[x].head
                                  /\ objs'[x].tail = objs[x].tail
                                  /\ objs'[x].data = objs[x].data,
         \A x \in 1 .. Len(objs') : x \notin 1 .. Len(objs) => objs'[x] = Zero,
         \/ pc'["producer"] = pc["producer"] /\ starts'["producer"] = starts["producer"]
            /\ at'["producer"] = at["producer"]
         \/ pc'["producer"] = "down" /\ starts'["producer"] = starts["producer"]
         \/ sent = 0 /\ at'["producer"] \in 1 .. Len(objs'),
         \/ pc'["consumer"] \notin {"loaded", "copied", "stored"}
         \/ /\ pc'["consumer"] = pc["consumer"] /\ at'["consumer"] = at["consumer"]
            /\ item' = item
  PROVE  OrderInv'
<1> USE RingInitAssumption DEF RingInitAssumption
<1>0. /\ Len(objs) \in Nat /\ Len(objs') \in Nat /\ sent \in Nat
      /\ pc["consumer"] # "down" => at["consumer"] \in 1 .. Len(objs)
      /\ pc["producer"] # "down" => at["producer"] \in 1 .. Len(objs)
  <2>1. objs \in Seq(Object) /\ objs' \in Seq(Object)
    BY Zenon DEF OrderInv, NameInv, Shape
  <2>2. Len(objs) \in Nat /\ Len(objs') \in Nat
    BY <2>1, LenProperties
  <2> QED
    BY <2>2 DEF OrderInv, NameInv, Shape, Sides
<1>1. \A x \in 1 .. Len(objs') : Lane(objs[x])'
  <2>1. \A x \in 1 .. Len(objs) : Lane(objs[x])'
    BY DEF OrderInv, LaneInv, Lane
  <2>2. Lane(Zero)'
    BY <1>0 DEF Lane, Zero, Stale
  <2> QED
    BY <2>1, <2>2 DEF Lane
<1>2. \A x \in 1 .. Len(objs') : x \in 1 .. Len(objs) \/ objs'[x].head = 0
  BY DEF Zero
<1>3. sent = 0 => \A x \in 1 .. Len(objs) : objs[x].head = 0
  BY DEF OrderInv, LaneInv, Lane
<1>4. LaneInv'
  <2>1. ASSUME NEW x \in 1 .. Len(objs'), NEW y \in 1 .. Len(objs'), x # y
        PROVE  objs'[x].head = 0 \/ objs'[y].head = 0
    BY <1>2, <2>1 DEF OrderInv, LaneInv
  <2>2. starts'["producer"] = 0 \/ pc'["producer"] \notin {"running", "down"} => sent' = 0
    BY DEF OrderInv, LaneInv
  <2>3. pc'["producer"] = "running" => objs'[at'["producer"]].head = sent'
    BY <1>0, <1>2, <1>3 DEF OrderInv, LaneInv
  <2> QED
    BY <1>1, <2>1, <2>2, <2>3 DEF LaneInv
<1>5. PopInv'
  BY <1>0 DEF OrderInv, PopInv
<1>6. GotInv'
  <2>1. ASSUME NEW x \in 1 .. Len(objs'), objs'[x].head > 0
        PROVE  \A i \in 1 .. Len(got) : got[i] <= objs'[x].tail
    <3>1. x \in 1 .. Len(objs)
      BY <1>2, <2>1
    <3>2. objs[x].head > 0 /\ objs'[x].tail = objs[x].tail
      BY <2>1, <3>1
    <3> QED
      BY <3>1, <3>2 DEF OrderInv, GotInv
  <2> QED
    BY <2>1 DEF OrderInv, GotInv
<1> QED
  BY <1>4, <1>5, <1>6 DEF OrderInv

(* The producer writes behind the last record of the only ring that has    *)
(* records (shm_ring_push).                                                *)
LEMMA PushStep ==
  ASSUME OneRun, OrderInv, NameInv', Push
  PROVE  OrderInv'
<1> USE RingInitAssumption DEF RingInitAssumption
<1> DEFINE p == at["producer"]  h == objs[p].head
           d == [objs[p].data EXCEPT ![h % Slots] = sent + 1]
           n == h + 1
           v == [objs[p] EXCEPT !.data = d, !.head = n]
<1>1. /\ p \in 1 .. Len(objs) /\ objs[p] \in Object /\ Len(objs) \in Nat
      /\ sent \in Nat /\ pc["producer"] = "running"
      /\ pc["consumer"] # "down" => at["consumer"] \in 1 .. Len(objs)
  <2>1. pc["producer"] = "running"
    BY DEF Push
  <2>2. objs \in Seq(Object) /\ p \in 1 .. Len(objs)
    BY <2>1 DEF OrderInv, NameInv, Shape, Sides
  <2>3. objs[p] \in Object /\ Len(objs) \in Nat
    BY <2>2, ElementOfSeq, LenProperties
  <2>4. /\ sent \in Nat
        /\ pc["consumer"] # "down" => at["consumer"] \in 1 .. Len(objs)
    BY DEF OrderInv, NameInv, Shape, Sides
  <2> QED
    BY <2>1, <2>2, <2>3, <2>4
<1>2. h \in Nat /\ objs[p].tail \in Nat /\ h % Slots \in 0 .. Slots - 1
  <2>1. h \in Nat /\ objs[p].tail \in Nat
    BY <1>1 DEF Object
  <2> QED
    BY <2>1, SlotOf
<1>3. objs' = [objs EXCEPT ![p] = v] /\ sent' = sent + 1
  BY DEF Push
<1>4. v \in Object /\ v.head = n /\ v.tail = objs[p].tail /\ v.data = d
  <2>1. objs[p].data \in [0 .. Slots - 1 -> Nat] /\ n \in Nat
    <3>1. objs[p].data \in [0 .. Slots - 1 -> Nat]
      BY <1>1 DEF Object
    <3> HIDE DEF p, h
    <3>2. n \in Nat
      BY <1>2
    <3> QED
      BY <3>1, <3>2
  <2>2. d \in [0 .. Slots - 1 -> Nat]
    <3>1. sent + 1 \in Nat
      BY <1>1
    <3> HIDE DEF p, h
    <3> QED
      BY <1>2, <2>1, <3>1
  <2> HIDE DEF p, h, n, d
  <2>3. /\ [objs[p] EXCEPT !.data = d, !.head = n] \in Object
        /\ [objs[p] EXCEPT !.data = d, !.head = n].head = n
        /\ [objs[p] EXCEPT !.data = d, !.head = n].tail = objs[p].tail
        /\ [objs[p] EXCEPT !.data = d, !.head = n].data = d
    BY <1>1, <2>1, <2>2 DEF Object
  <2> QED
    BY <2>3
<1>5. /\ Len(objs') = Len(objs) /\ objs'[p] = v
      /\ \A x \in 1 .. Len(objs) : x # p => objs'[x] = objs[x]
  <2>1. objs \in Seq(Object)
    BY DEF OrderInv, NameInv, Shape
  <2> HIDE DEF p, v
  <2> QED
    BY <1>1, <1>3, <1>4, <2>1, Stored
<1>6. h = sent /\ Lane(objs[p]) /\ h < objs[p].tail + Slots
  <2>1. h = sent /\ Lane(objs[p])
    BY <1>1 DEF OrderInv, LaneInv
  <2>2. h - objs[p].tail # Slots
    BY DEF Push
  <2>3. h <= objs[p].tail + Slots
    BY <2>1 DEF Lane
  <2> QED
    BY <1>2, <2>2, <2>1, <2>3
<1>7. \A x \in 1 .. Len(objs) : x # p => objs[x].head = 0
  <2>1. CASE sent = 0
    BY <1>1, <2>1 DEF OrderInv, LaneInv, Lane
  <2>2. CASE sent # 0
    BY <1>1, <1>6, <2>2 DEF OrderInv, LaneInv
  <2> QED
    BY <2>1, <2>2
<1> HIDE DEF p, h, d, n, v
<1>8. LaneInv'
  <2>1. Lane(objs[p])'
    <3>1. v.data[h % Slots] = h + 1
      BY <1>1, <1>2, <1>4, <1>6 DEF d, Object
    <3>2. ASSUME NEW i \in Nat, objs[p].tail <= i, i < h
          PROVE  v.data[i % Slots] = i + 1
      <4>1. i % Slots # h % Slots
        BY <1>2, <1>6, <3>2, OtherSlot
      <4>2. i % Slots \in 0 .. Slots - 1 /\ objs[p].data[i % Slots] = i + 1
        BY <1>6, <3>2 DEF Lane, h
      <4> QED
        BY <1>1, <1>4, <4>1, <4>2 DEF d, Object
    <3>3. ASSUME NEW i \in 0 .. Slots - 1
          PROVE  v.data[i] <= sent + 1
      <4>1. objs[p].data[i] \in Nat /\ objs[p].data[i] <= sent
        BY <1>1, <1>6, <3>3 DEF Lane, Object
      <4>2. v.data[i] \in {sent + 1, objs[p].data[i]}
        BY <1>1, <1>4, <3>3 DEF d, Object
      <4>3. sent \in Nat
        BY <1>1
      <4> QED
        BY <4>1, <4>2, <4>3
    <3>4. ASSUME NEW i \in Nat, v.tail <= i, i < v.head
          PROVE  v.data[i % Slots] = i + 1
      <4>1. objs[p].tail <= i /\ i < h + 1
        BY <1>4, <3>4 DEF n
      <4>2. CASE i = h
        BY <4>2, <3>1
      <4>3. CASE i # h
        BY <1>2, <4>1, <4>3, <3>2
      <4> QED
        BY <4>2, <4>3
    <3>5. v.tail <= v.head /\ v.head <= v.tail + Slots /\ v.head = sent'
      <4>1. objs[p].tail <= h
        BY <1>6 DEF Lane, h
      <4> QED
        BY <1>2, <1>3, <1>4, <1>6, <4>1 DEF n
    <3>6. \A i \in 0 .. Slots - 1 : v.data[i] <= sent'
      BY <1>3, <3>3
    <3>7. /\ v.tail <= v.head /\ v.head <= v.tail + Slots /\ v.head \in {0, sent'}
          /\ \A i \in Nat : v.tail <= i /\ i < v.head => v.data[i % Slots] = i + 1
          /\ \A i \in 0 .. Slots - 1 : v.data[i] <= sent'
      BY <3>4, <3>5, <3>6, Zenon
    <3>8. at' = at
      BY DEF Push
    <3> QED
      BY <1>5, <3>7, <3>8, Zenon DEF Lane, p
  <2>2. ASSUME NEW x \in 1 .. Len(objs), x # p
        PROVE  Lane(objs[x])'
    <3>1. objs'[x] = objs[x] /\ objs[x].head = 0 /\ Lane(objs[x]) /\ objs[x] \in Object
      BY <1>5, <1>7, <2>2, ElementOfSeq DEF OrderInv, LaneInv, NameInv, Shape
    <3>2. \A i \in 0 .. Slots - 1 : objs[x].data[i] \in Nat /\ objs[x].data[i] <= sent
      BY <3>1 DEF Lane, Object
    <3>3. objs[x].tail \in Nat /\ sent \in Nat
      BY <1>1, <3>1 DEF Object
    <3>4. \A i \in 0 .. Slots - 1 : objs[x].data[i] <= sent'
      BY <1>3, <3>2, <3>3
    <3>5. objs[x].tail = 0 /\ objs[x].tail <= objs[x].head
      BY <3>1, <3>3 DEF Lane
    <3> QED
      BY <3>1, <3>4, <3>5 DEF Lane
  <2>3. objs'[p].head = sent'
    BY <1>3, <1>4, <1>5, <1>6 DEF n
  <2>4. /\ pc' = pc /\ at' = at /\ starts' = starts /\ Len(objs') = Len(objs)
        /\ starts["producer"] # 0 /\ pc["producer"] = "running"
    BY <1>1, <1>5 DEF Push, OrderInv, NameInv
  <2>5. \A x, y \in 1 .. Len(objs') : x # y => objs'[x].head = 0 \/ objs'[y].head = 0
    BY <1>5, <1>7
  <2> QED
    BY <2>1, <2>2, <2>3, <2>4, <2>5 DEF LaneInv, p
<1>9. PopInv'
  <2>0. UNCHANGED <<pc, at, item, got>>
    BY DEF Push
  <2> SUFFICES ASSUME pc["consumer"] \in {"loaded", "copied", "stored"} PROVE PopInv'
    BY <2>0 DEF PopInv
  <2> DEFINE c == at["consumer"]
  <2>1. /\ UNCHANGED <<pc, at, item, got>> /\ c \in 1 .. Len(objs)
    BY <1>1, <2>0
  <2>3. objs[c] \in Object
    <3>1. objs \in Seq(Object)
      BY DEF OrderInv, NameInv, Shape
    <3> HIDE DEF c
    <3> QED
      BY <2>1, <3>1, ElementOfSeq
  <2> HIDE DEF c
  <2>4. objs[c].tail \in Nat /\ objs[c].head \in Nat
    BY <2>3 DEF Object
  <2>2. /\ objs'[c].tail = objs[c].tail /\ objs'[c].head \in Nat
        /\ objs[c].head <= objs'[c].head
    <3>1. CASE c = p
      <4>1. objs'[c].tail = objs[c].tail /\ objs'[c].head = n
        BY <1>4, <1>5, <3>1, Zenon
      <4>2. n = h + 1 /\ h = objs[c].head
        BY <3>1, Zenon DEF n, h
      <4> HIDE DEF n, h
      <4> QED
        BY <2>4, <4>1, <4>2
    <3>2. CASE c # p
      BY <1>5, <2>1, <2>4, <3>2
    <3> QED
      BY <3>1, <3>2
  <2> QED
    BY <1>1, <1>3, <2>1, <2>2, <2>4 DEF OrderInv, PopInv, c
<1>10. GotInv'
  <2>1. \A i \in 1 .. Len(got) : got[i] \in 1 .. sent + 1
    BY <1>1 DEF OrderInv, GotInv
  <2>2. ASSUME NEW x \in 1 .. Len(objs), objs'[x].head > 0
        PROVE  \A i \in 1 .. Len(got) : got[i] <= objs'[x].tail
    <3>1. x = p
      BY <1>5, <1>7, <2>2
    <3>2. objs'[x].tail = objs[x].tail
      BY <1>4, <1>5, <3>1
    <3>3. CASE h = 0
      <4>1. \A i \in 1 .. Len(got) : got[i] \in 1 .. 0
        BY <1>6, <3>3 DEF OrderInv, GotInv
      <4> QED
        BY <4>1
    <3>4. CASE h # 0
      <4>1. objs[p].head > 0
        BY <1>2, <3>4 DEF h
      <4>2. \A i \in 1 .. Len(got) : got[i] <= objs[p].tail
        BY <1>1, <4>1 DEF OrderInv, GotInv
      <4> QED
        BY <3>1, <3>2, <4>2
    <3> QED
      BY <3>3, <3>4
  <2> QED
    BY <1>1, <1>3, <1>5, <2>1, <2>2 DEF OrderInv, GotInv, Push
<1> QED
  BY <1>8, <1>9, <1>10 DEF OrderInv

(* The consumer returns the record at the tail, and gives its slot back    *)
(* before its caller has it (shm_ring_pop).                                *)
LEMMA PopStep ==
  ASSUME OneRun, OrderInv, NameInv', Pop
  PROVE  OrderInv'
<1> USE RingInitAssumption DEF RingInitAssumption
<1> DEFINE c == at["consumer"]  o == objs[c]
<1>1. /\ c \in 1 .. Len(objs) /\ o \in Object /\ Len(objs) \in Nat
      /\ sent \in Nat /\ item.tail \in Nat /\ item.rec \in Nat /\ got \in Seq(Nat)
      /\ pc["consumer"] # "down"
  <2>1. pc["consumer"] # "down"
    BY DEF Pop, PopLoad, PopCopy, PopStore, PopReturn
  <2>2. objs \in Seq(Object) /\ c \in 1 .. Len(objs)
    BY <2>1 DEF OrderInv, NameInv, Shape, Sides
  <2>3. o \in Object /\ Len(objs) \in Nat
    BY <2>2, ElementOfSeq, LenProperties
  <2>4. sent \in Nat /\ item.tail \in Nat /\ item.rec \in Nat /\ got \in Seq(Nat)
    BY DEF OrderInv, NameInv, Shape
  <2> QED
    BY <2>1, <2>2, <2>3, <2>4
<1>2. o.head \in Nat /\ o.tail \in Nat /\ Lane(o)
  BY <1>1 DEF Object, OrderInv, LaneInv
<1>3. pc \in [Sides -> ProducerPlaces \cup ConsumerPlaces]
  BY DEF OrderInv, NameInv, Shape
<1>4. /\ pc'["producer"] = pc["producer"] /\ at' = at /\ starts' = starts /\ sent' = sent
  BY <1>3 DEF Pop, PopLoad, PopCopy, PopStore, PopReturn, GoTo, mem, traffic, Sides
<1>5. CASE PopLoad
  <2>1. /\ UNCHANGED <<objs, got>> /\ item' = [NoItem EXCEPT !.tail = o.tail]
        /\ o.head # o.tail /\ pc'["consumer"] = "loaded"
    BY <1>3, <1>5 DEF PopLoad, GoTo, mem, Sides
  <2>2. item'.tail = o.tail /\ o.tail < o.head
    BY <1>2, <2>1 DEF NoItem, Lane
  <2>3. PopInv'
    BY <1>4, <2>1, <2>2 DEF PopInv
  <2> QED
    BY <1>4, <2>1, <2>3 DEF OrderInv, LaneInv, GotInv, Lane
<1>6. CASE PopCopy
  <2>1. /\ UNCHANGED <<objs, got>> /\ item' = [item EXCEPT !.rec = o.data[item.tail % Slots]]
        /\ pc["consumer"] = "loaded" /\ pc'["consumer"] = "copied"
    BY <1>3, <1>6 DEF PopCopy, GoTo, mem, Sides
  <2>2. item.tail = o.tail /\ o.tail < o.head
    BY <2>1 DEF OrderInv, PopInv
  <2>3. o.data[item.tail % Slots] = o.tail + 1
    BY <1>2, <2>2 DEF Lane
  <2>4. item'.tail = o.tail /\ item'.rec = o.tail + 1
    BY <2>1, <2>2, <2>3 DEF OrderInv, NameInv, Shape
  <2>5. PopInv'
    BY <1>4, <2>1, <2>2, <2>4 DEF PopInv
  <2> QED
    BY <1>4, <2>1, <2>5 DEF OrderInv, LaneInv, GotInv, Lane
<1>7. CASE PopStore
  <2> DEFINE n == item.tail + 1  v == [o EXCEPT !.tail = n]
  <2>1. /\ pc["consumer"] = "copied" /\ pc'["consumer"] = "stored"
        /\ UNCHANGED <<item, got>> /\ objs' = [objs EXCEPT ![c] = v]
    BY <1>3, <1>7 DEF PopStore, GoTo, traffic, Sides
  <2>2. item.tail = o.tail /\ o.tail < o.head /\ item.rec = n
    BY <2>1 DEF OrderInv, PopInv
  <2>3. v \in Object /\ v.head = o.head /\ v.tail = n /\ v.data = o.data
    <3> HIDE DEF o
    <3>1. n \in Nat
      BY <1>1
    <3>2. o.data \in [0 .. Slots - 1 -> Nat]
      BY <1>1 DEF Object
    <3> HIDE DEF n
    <3>3. /\ [o EXCEPT !.tail = n] \in Object /\ [o EXCEPT !.tail = n].head = o.head
          /\ [o EXCEPT !.tail = n].tail = n /\ [o EXCEPT !.tail = n].data = o.data
      BY <1>1, <3>1, <3>2 DEF Object
    <3> QED
      BY <3>3
  <2>4. /\ Len(objs') = Len(objs) /\ objs'[c] = v
        /\ \A x \in 1 .. Len(objs) : x # c => objs'[x] = objs[x]
    <3>1. objs \in Seq(Object)
      BY DEF OrderInv, NameInv, Shape
    <3> HIDE DEF c, v
    <3> QED
      BY <1>1, <2>1, <2>3, <3>1, Stored
  <2>5. o.head = sent /\ o.head > 0 /\ n <= o.head /\ n > o.tail /\ n \in Nat
    <3>1. o.head \in {0, sent}
      BY <1>2, Zenon DEF Lane
    <3> HIDE DEF o
    <3> QED
      BY <1>1, <1>2, <2>2, <3>1
  <2>6. \A i \in 1 .. Len(got) : got[i] <= o.tail /\ got[i] \in Nat
    BY <1>1, <2>5, ElementOfSeq DEF OrderInv, GotInv
  <2>7. \A i \in 1 .. Len(got) : got[i] < n
    BY <1>2, <2>5, <2>6
  <2> HIDE DEF v, n
  <2>8. LaneInv'
    <3>1. /\ v.tail <= v.head /\ v.head <= v.tail + Slots /\ v.head \in {0, sent}
          /\ \A i \in Nat : v.tail <= i /\ i < v.head => v.data[i % Slots] = i + 1
          /\ \A i \in 0 .. Slots - 1 : v.data[i] <= sent
      <4>1. /\ o.tail <= o.head /\ o.head <= o.tail + Slots /\ o.head \in {0, sent}
            /\ \A i \in Nat : o.tail <= i /\ i < o.head => o.data[i % Slots] = i + 1
            /\ \A i \in 0 .. Slots - 1 : o.data[i] <= sent
        BY <1>2 DEF Lane
      <4>2. ASSUME NEW i \in Nat, v.tail <= i, i < v.head
            PROVE  v.data[i % Slots] = i + 1
        <5>1. o.tail <= i /\ i < o.head
          BY <1>2, <2>3, <2>5, <4>2
        <5> QED
          BY <2>3, <4>1, <5>1
      <4> QED
        BY <1>2, <2>3, <2>5, <4>1, <4>2
    <3>2. \A x \in 1 .. Len(objs) : Lane(objs[x])'
      <4>1. ASSUME NEW x \in 1 .. Len(objs), x = c
            PROVE  Lane(objs[x])'
        BY <1>4, <2>4, <3>1, <4>1, Zenon DEF Lane
      <4>2. ASSUME NEW x \in 1 .. Len(objs), x # c
            PROVE  Lane(objs[x])'
        <5>1. objs'[x] = objs[x] /\ Lane(objs[x])
          BY <2>4, <4>2 DEF OrderInv, LaneInv
        <5> QED
          BY <1>4, <5>1, Zenon DEF Lane
      <4> QED
        BY <4>1, <4>2
    <3>3. \A x \in 1 .. Len(objs) : objs'[x].head = objs[x].head
      BY <2>3, <2>4
    <3>4. pc["producer"] = "running" => at["producer"] \in 1 .. Len(objs)
      BY DEF OrderInv, NameInv, Shape, Sides
    <3> QED
      BY <1>4, <2>4, <3>2, <3>3, <3>4 DEF OrderInv, LaneInv
  <2>9. PopInv'
    BY <1>1, <1>4, <2>1, <2>2, <2>3, <2>4, <2>5, <2>7 DEF PopInv
  <2>10. GotInv'
    <3>1. ASSUME NEW x \in 1 .. Len(objs), objs'[x].head > 0
          PROVE  \A i \in 1 .. Len(got) : got[i] <= objs'[x].tail
      <4>1. CASE x = c
        BY <2>3, <2>4, <2>5, <2>6, <2>7, <4>1
      <4>2. CASE x # c
        BY <2>4, <3>1, <4>2 DEF OrderInv, GotInv
      <4> QED
        BY <4>1, <4>2
    <3> QED
      BY <1>4, <2>1, <2>4, <3>1 DEF OrderInv, GotInv
  <2> QED
    BY <2>8, <2>9, <2>10 DEF OrderInv
<1>8. CASE PopReturn
  <2>1. /\ pc["consumer"] = "stored" /\ pc'["consumer"] = "running"
        /\ UNCHANGED objs /\ got' = Append(got, item.rec)
    BY <1>3, <1>8 DEF PopReturn, GoTo, mem, Sides
  <2>2. /\ item.rec = o.tail /\ item.rec \in 1 .. sent
        /\ \A i \in 1 .. Len(got) : got[i] < item.rec
    BY <2>1 DEF OrderInv, PopInv
  <2>3. /\ Len(got') = Len(got) + 1 /\ got'[Len(got) + 1] = item.rec
        /\ \A i \in 1 .. Len(got) : got'[i] = got[i]
        /\ Len(got) \in Nat
    BY <1>1, <2>1, AppendProperties, LenProperties
  <2>4. ASSUME NEW x \in 1 .. Len(objs), objs[x].head > 0
        PROVE  objs[x].tail = o.tail
    <3>1. o.head > 0
      BY <1>2, <2>2 DEF Lane
    <3>2. x = c
      <4>1. objs[x].head # 0 /\ objs[c].head # 0
        BY <2>4, <3>1
      <4>2. \A y, z \in 1 .. Len(objs) : y # z => objs[y].head = 0 \/ objs[z].head = 0
        BY DEF OrderInv, LaneInv
      <4> HIDE DEF c
      <4> QED
        BY <1>1, <4>1, <4>2
    <3> QED
      BY <3>2
  <2>5. GotInv'
    <3>1. \A i \in 1 .. Len(got) + 1 : got'[i] \in 1 .. sent
      BY <2>2, <2>3 DEF OrderInv, GotInv
    <3>2. ASSUME NEW i \in 1 .. Len(got) + 1, i > 1
          PROVE  got'[i - 1] < got'[i]
      <4>1. CASE i = Len(got) + 1
        <5>1. i - 1 = Len(got) /\ i - 1 \in 1 .. Len(got)
          BY <2>3, <3>2, <4>1
        <5> QED
          BY <2>2, <2>3, <4>1, <5>1
      <4>2. CASE i # Len(got) + 1
        <5>1. i \in 1 .. Len(got) /\ i - 1 \in 1 .. Len(got)
          BY <2>3, <3>2, <4>2
        <5>2. got[i - 1] < got[i]
          BY <3>2, <5>1 DEF OrderInv, GotInv
        <5> QED
          BY <2>3, <5>1, <5>2
      <4> QED
        BY <4>1, <4>2
    <3>3. ASSUME NEW x \in 1 .. Len(objs), objs[x].head > 0,
                 NEW i \in 1 .. Len(got) + 1
          PROVE  got'[i] <= objs[x].tail
      <4>1. item.rec <= objs[x].tail
        BY <1>2, <2>2, <2>4, <3>3
      <4>2. CASE i = Len(got) + 1
        BY <2>3, <4>1, <4>2
      <4>3. CASE i # Len(got) + 1
        <5>1. i \in 1 .. Len(got) /\ got'[i] = got[i]
          BY <2>3, <4>3
        <5>2. got[i] <= objs[x].tail
          BY <3>3, <5>1 DEF OrderInv, GotInv
        <5> QED
          BY <5>1, <5>2, Zenon
      <4> QED
        BY <4>2, <4>3
    <3> QED
      BY <1>4, <2>1, <2>3, <3>1, <3>2, <3>3 DEF GotInv
  <2>6. PopInv'
    BY <2>1 DEF PopInv
  <2> QED
    BY <1>4, <2>1, <2>5, <2>6 DEF OrderInv, LaneInv, Lane
<1> QED
  BY <1>5, <1>6, <1>7, <1>8 DEF Pop

(* Every step of one run: those that set the ring up or take it down leave *)
(* its records alone.                                                      *)
LEMMA OrderStep ==
  ASSUME OneRun, OrderInv, NameInv', [Next]_vars
  PROVE  OrderInv'
<1> USE DEF GoTo, Down, mem, traffic, Sides
<1>0. /\ Len(objs) \in Nat /\ pc \in [Sides -> ProducerPlaces \cup ConsumerPlaces]
      /\ at \in [Sides -> Nat] /\ starts \in [Sides -> Nat] /\ objs \in Seq(Object)
      /\ \A s \in Sides : pc[s] # "down" => at[s] \in 1 .. Len(objs)
  BY LenProperties DEF OrderInv, NameInv, Shape
<1>young. starts["producer"] = 0 \/ pc["producer"] \notin {"running", "down"} => sent = 0
  BY DEF OrderInv, LaneInv
<1>1. ASSUME NEW s \in Sides, Open(s)
      PROVE  OrderInv'
  <2>1. /\ pc' = [pc EXCEPT ![s] = "opened"] /\ at' = [at EXCEPT ![s] = name']
        /\ starts' = [starts EXCEPT ![s] = @ + 1] /\ starts[s] < Starts[s]
        /\ UNCHANGED <<item, sent, got>>
    BY <1>1 DEF Open
  <2>2. /\ Len(objs') \in Nat /\ Len(objs) <= Len(objs')
        /\ \A x \in 1 .. Len(objs) : objs'[x] = objs[x]
        /\ \A x \in 1 .. Len(objs') : x \notin 1 .. Len(objs) => objs'[x] = Zero
    BY <1>1, Opened, LenProperties DEF OrderInv, NameInv
  <2>3. CASE s = "consumer"
    <3>1. /\ pc'["producer"] = pc["producer"] /\ starts'["producer"] = starts["producer"]
          /\ at'["producer"] = at["producer"] /\ pc'["consumer"] = "opened"
      BY <1>0, <2>1, <2>3
    <3> QED
      BY <2>1, <2>2, <3>1, QuietStep
  <2>4. CASE s = "producer"
    <3>1. sent = 0 /\ at'["producer"] \in 1 .. Len(objs')
      <4>1. starts["producer"] = 0
        BY <1>0, <2>1, <2>4, RingInitAssumption DEF OneRun, RingInitAssumption
      <4>2. name' \in 1 .. Len(objs')
        BY <1>1, Opened DEF OrderInv, NameInv
      <4> QED
        BY <1>0, <1>young, <2>1, <2>4, <4>1, <4>2
    <3>2. pc'["consumer"] = pc["consumer"] /\ at'["consumer"] = at["consumer"]
      BY <1>0, <2>1, <2>4
    <3> QED
      BY <2>1, <2>2, <3>1, <3>2, QuietStep
  <2> QED
    BY <2>3, <2>4
<1>2. ASSUME NEW s \in Sides, Stat(s) \/ Mmap(s)
      PROVE  OrderInv'
  BY <1>0, <1>2, <1>young, QuietStep DEF Stat, Mmap
<1>3. ASSUME NEW s \in Sides, InitDone(s)
      PROVE  OrderInv'
  BY <1>0, <1>3, <1>young, QuietStep DEF InitDone
<1>4. ASSUME NEW s \in Sides, Close(s) \/ Die(s)
      PROVE  OrderInv'
  BY <1>0, <1>4, <1>young, QuietStep DEF Close, Die
<1>5. ASSUME NEW s \in Sides, Truncate(s)
      PROVE  OrderInv'
  <2> DEFINE v == [objs[at[s]] EXCEPT !.grown = TRUE]
  <2>1. /\ at[s] \in 1 .. Len(objs) /\ objs[at[s]] \in Object
        /\ objs' = [objs EXCEPT ![at[s]] = v] /\ pc[s] = "short"
    BY <1>0, <1>5, ElementOfSeq DEF Truncate
  <2>2. /\ v \in Object /\ v.head = objs[at[s]].head /\ v.tail = objs[at[s]].tail
        /\ v.data = objs[at[s]].data
    BY <2>1 DEF Object
  <2>3. /\ Len(objs') = Len(objs)
        /\ \A x \in 1 .. Len(objs) : objs'[x] = IF x = at[s] THEN v ELSE objs[x]
    BY <1>0, <2>1, <2>2, Stored
  <2>4. \A x \in 1 .. Len(objs) : /\ objs'[x].head = objs[x].head
                                  /\ objs'[x].tail = objs[x].tail
                                  /\ objs'[x].data = objs[x].data
    BY <2>2, <2>3
  <2>5. /\ pc' = [pc EXCEPT ![s] = "sized"] /\ UNCHANGED <<at, starts, item, sent, got>>
    BY <1>5 DEF Truncate
  <2> HIDE DEF v
  <2> QED
    BY <1>0, <1>young, <2>1, <2>3, <2>4, <2>5, QuietStep
<1>6. CASE Reset
  <2> DEFINE p == at["producer"]
  <2>1. /\ p \in 1 .. Len(objs) /\ objs[p] \in Object /\ sent = 0
        /\ pc["producer"] \in {"mapped", "reset", "announce"}
        /\ pc'["producer"] \in {"reset", "announce", "created"}
        /\ pc'["consumer"] = pc["consumer"] /\ UNCHANGED <<at, starts, item, sent, got>>
    BY <1>0, <1>6, <1>young, ElementOfSeq DEF Reset, ResetHead, ResetTail, Announce
  <2>2. objs[p].head = 0 /\ objs[p].tail = 0
    BY <2>1 DEF OrderInv, LaneInv, Lane, Object
  <2>3. PICK v \in Object : /\ objs' = [objs EXCEPT ![p] = v] /\ v.head = 0 /\ v.tail = 0
                            /\ v.data = objs[p].data
    <3>1. /\ [objs[p] EXCEPT !.head = 0] \in Object
          /\ [objs[p] EXCEPT !.tail = 0] \in Object
          /\ [objs[p] EXCEPT !.initialized = 1] \in Object
      BY <2>1 DEF Object
    <3>2. \/ objs' = [objs EXCEPT ![p] = [objs[p] EXCEPT !.head = 0]]
          \/ objs' = [objs EXCEPT ![p] = [objs[p] EXCEPT !.tail = 0]]
          \/ objs' = [objs EXCEPT ![p] = [objs[p] EXCEPT !.initialized = 1]]
      BY <1>6 DEF Reset, ResetHead, ResetTail, Announce
    <3> QED
      BY <2>1, <2>2, <3>1, <3>2 DEF Object
  <2>4. /\ Len(objs') = Len(objs)
        /\ \A x \in 1 .. Len(objs) : objs'[x] = IF x = p THEN v ELSE objs[x]
    BY <1>0, <2>1, <2>3, Stored
  <2>5. \A x \in 1 .. Len(objs) : /\ objs'[x].head = objs[x].head
                                  /\ objs'[x].tail = objs[x].tail
                                  /\ objs'[x].data = objs[x].data
    BY <2>2, <2>3, <2>4
  <2> QED
    BY <1>0, <2>1, <2>4, <2>5, QuietStep
<1>7. CASE Attach
  BY <1>0, <1>7, QuietStep DEF Attach
<1>8. CASE UNCHANGED vars
  BY <1>0, <1>8, QuietStep DEF vars
<1> QED
  BY <1>1, <1>2, <1>3, <1>4, <1>5, <1>6, <1>7, <1>8, PushStep, PopStep DEF Next, Setup

-----------------------------------------------------------------------------
(* The bounds that the starts and the pushes put on the rest.              *)
CountInv ==
  /\ \A s \in Sides : starts[s] <= Starts[s]
  /\ Len(objs) <= 1 + starts["producer"] + starts["consumer"]
  /\ sent <= Messages /\ item.tail <= sent

(* The records up to t that are not in R.                                  *)
Behind(t, R) == (1 .. t) \ R

(* The consumers that took a record with them, or still have one in hand.  *)
Taken == killed + (IF pc["consumer"] = "stored" THEN 1 ELSE 0)

(* Slots that were given back without their record returned: one for each  *)
(* consumer that died before its return, or is about to return it.         *)
LossInv ==
  /\ killed \in Nat
  /\ sent = 0 \/ \E x \in 1 .. Len(objs) : objs[x].head = sent
  /\ \A x \in 1 .. Len(objs) : Cardinality(Behind(objs[x].tail, Received)) <= Taken

(* Until the producer closes, the object that was pushed to has its name.  *)
AliveInv ==
  /\ closed \in BOOLEAN
  /\ ~closed => \A x \in 1 .. Len(objs) : objs[x].head > 0 => name = x

LEMMA BehindCount ==
  ASSUME NEW t \in Nat, NEW R
  PROVE  /\ IsFiniteSet(Behind(t, R)) /\ Cardinality(Behind(t, R)) \in Nat
         /\ Cardinality(Behind(0, R)) = 0
         /\ Cardinality(Behind(t + 1, R)) <= Cardinality(Behind(t, R)) + 1
         /\ t > 0 /\ t \notin R
              => Cardinality(Behind(t, R \cup {t})) = Cardinality(Behind(t, R)) - 1
<1>1. IsFiniteSet(1 .. t)
  BY FS_Interval
<1>2. IsFiniteSet(Behind(t, R))
  BY <1>1, FS_Difference DEF Behind
<1>3. Cardinality(Behind(t, R)) \in Nat
  BY <1>2, FS_CardinalityType
<1>4. Cardinality(Behind(0, R)) = 0
  <2>1. Behind(0, R) = {}
    BY DEF Behind
  <2> QED
    BY <2>1, FS_EmptySet
<1>5. Cardinality(Behind(t + 1, R)) <= Cardinality(Behind(t, R)) + 1
  <2>1. CASE t + 1 \in R
    <3>1. Behind(t + 1, R) = Behind(t, R)
      BY <2>1 DEF Behind
    <3> QED
      BY <3>1, <1>3
  <2>2. CASE t + 1 \notin R
    <3>1. Behind(t + 1, R) = Behind(t, R) \cup {t + 1} /\ t + 1 \notin Behind(t, R)
      BY <2>2 DEF Behind
    <3>2. Cardinality(Behind(t, R) \cup {t + 1}) = Cardinality(Behind(t, R)) + 1
      BY <1>2, <3>1, FS_AddElement
    <3>3. Cardinality(Behind(t + 1, R)) = Cardinality(Behind(t, R)) + 1
      BY <3>1, <3>2, Zenon
    <3> QED
      BY <1>3, <3>3
  <2> QED
    BY <2>1, <2>2
<1>6. ASSUME t > 0, t \notin R
      PROVE  Cardinality(Behind(t, R \cup {t})) = Cardinality(Behind(t, R)) - 1
  <2>1. Behind(t, R \cup {t}) = Behind(t, R) \ {t} /\ t \in Behind(t, R)
    BY <1>6 DEF Behind
  <2>2. Cardinality(Behind(t, R) \ {t}) = Cardinality(Behind(t, R)) - 1
    BY <1>2, <2>1, FS_RemoveElement
  <2> QED
    BY <2>1, <2>2
<1> QED
  BY <1>2, <1>3, <1>4, <1>5, <1>6

(* A pop reads a place of the ring below the last push, and a start makes  *)
(* at most one object.                                                     *)
LEMMA CountStep ==
  ASSUME OrderInv, CountInv, [Next]_vars
  PROVE  CountInv'
<1> USE RingInitAssumption
<1> USE DEF RingInitAssumption, GoTo, Down, mem, traffic, Sides
<1>0. /\ Len(objs) \in Nat /\ starts \in [Sides -> Nat] /\ sent \in Nat
      /\ item \in [tail : Nat, rec : Nat] /\ objs \in Seq(Object)
      /\ \A s \in Sides : pc[s] # "down" => at[s] \in 1 .. Len(objs)
  BY LenProperties DEF OrderInv, NameInv, Shape
<1>1. ASSUME NEW s \in Sides, Open(s)
      PROVE  CountInv'
  <2>1. /\ starts' = [starts EXCEPT ![s] = @ + 1] /\ starts[s] < Starts[s]
        /\ UNCHANGED <<item, sent>> /\ Len(objs') <= Len(objs) + 1
    BY <1>0, <1>1, AppendProperties DEF Open
  <2>2. Len(objs') \in Nat
    BY <1>1, Opened, LenProperties DEF OrderInv, NameInv
  <2> QED
    BY <1>0, <2>1, <2>2 DEF CountInv
<1>2. ASSUME NEW s \in Sides, Stat(s) \/ Mmap(s) \/ InitDone(s) \/ Close(s) \/ Die(s)
      PROVE  CountInv'
  BY <1>0, <1>2 DEF CountInv, Stat, Mmap, InitDone, Close, Die, NoItem
<1>3. ASSUME NEW s \in Sides, Truncate(s) \/ Reset \/ Attach
      PROVE  CountInv'
  <2>1. UNCHANGED <<starts, item, sent>>
    BY <1>3 DEF Truncate, Reset, ResetHead, ResetTail, Announce, Attach
  <2>2. Len(objs') = Len(objs)
    BY <1>0, <1>3, ExceptSeq DEF Truncate, Reset, ResetHead, ResetTail, Announce, Attach
  <2> QED
    BY <2>1, <2>2 DEF CountInv
<1>4. CASE Push
  <2>1. UNCHANGED <<starts, item>> /\ sent' = sent + 1 /\ sent < Messages
    BY <1>4 DEF Push
  <2>2. Len(objs') = Len(objs)
    BY <1>0, <1>4, ExceptSeq DEF Push
  <2> QED
    BY <1>0, <2>1, <2>2 DEF CountInv
<1>5. CASE Pop
  <2> DEFINE o == objs[at["consumer"]]
  <2>1. UNCHANGED <<starts, sent>> /\ pc["consumer"] # "down"
    BY <1>5 DEF Pop, PopLoad, PopCopy, PopStore, PopReturn
  <2>2. o \in Object /\ Lane(o)
    BY <1>0, <2>1, ElementOfSeq DEF OrderInv, LaneInv
  <2>3. Len(objs') = Len(objs)
    BY <1>0, <1>5, ExceptSeq DEF Pop, PopLoad, PopCopy, PopStore, PopReturn
  <2>4. o.tail <= sent /\ o.tail \in Nat /\ o.head \in Nat
    <3>1. o.tail \in Nat /\ o.head \in Nat
      BY <2>2 DEF Object
    <3>2. o.tail <= o.head /\ o.head \in {0, sent}
      BY <2>2, Zenon DEF Lane
    <3> HIDE DEF o
    <3> QED
      BY <1>0, <3>1, <3>2
  <2>5. item'.tail \in {item.tail, o.tail, 0}
    BY <1>0, <1>5 DEF Pop, PopLoad, PopCopy, PopStore, PopReturn, NoItem
  <2>6. item'.tail <= sent
    <3> HIDE DEF o
    <3>1. item.tail <= sent
      BY DEF CountInv
    <3> QED
      BY <1>0, <2>4, <2>5, <3>1
  <2> QED
    BY <2>1, <2>3, <2>6 DEF CountInv
<1>6. CASE UNCHANGED vars
  BY <1>6 DEF vars, CountInv
<1> QED
  BY <1>1, <1>2, <1>3, <1>4, <1>5, <1>6 DEF Next, Setup

(* Steps after which the same records are given back, and the same ones    *)
(* returned.                                                               *)
LEMMA SameLoss ==
  ASSUME OrderInv, LossInv, NameInv', UNCHANGED <<sent, got>>,
         Len(objs') >= Len(objs), Len(objs') \in Nat,
         \A x \in 1 .. Len(objs) : /\ objs'[x].head = objs[x].head
                                  /\ objs'[x].tail = objs[x].tail,
         \A x \in 1 .. Len(objs') : x \notin 1 .. Len(objs) => objs'[x] = Zero,
         killed' \in Nat, Taken' >= Taken
  PROVE  LossInv'
<1>0. Len(objs) \in Nat /\ objs \in Seq(Object)
  BY LenProperties DEF OrderInv, NameInv, Shape
<1>1. Received' = Received
  BY DEF Received
<1>2. sent = 0 \/ \E x \in 1 .. Len(objs') : objs'[x].head = sent
  BY <1>0 DEF LossInv
<1>3. Taken \in Int /\ Taken' \in Int /\ Taken >= 0
  BY DEF Taken, LossInv
<1>4. ASSUME NEW x \in 1 .. Len(objs')
      PROVE  Cardinality(Behind(objs'[x].tail, Received)) <= Taken'
  <2>1. CASE x \in 1 .. Len(objs)
    <3>0. objs[x] \in Object
      BY <1>0, <2>1, ElementOfSeq
    <3>1. objs[x].tail \in Nat /\ objs'[x].tail = objs[x].tail
      BY <2>1, <3>0 DEF Object
    <3>2. Cardinality(Behind(objs[x].tail, Received)) \in Nat
      BY <3>1, BehindCount
    <3>3. Cardinality(Behind(objs[x].tail, Received)) <= Taken
      BY <2>1 DEF LossInv
    <3>4. Cardinality(Behind(objs'[x].tail, Received)) <= Taken
      BY <3>1, <3>3
    <3> QED
      BY <1>3, <3>1, <3>2, <3>3
  <2>2. CASE x \notin 1 .. Len(objs)
    <3>1. objs'[x].tail = 0
      BY <2>2 DEF Zero
    <3>2. Cardinality(Behind(0, Received)) = 0
      BY BehindCount
    <3> QED
      BY <1>3, <3>1, <3>2
  <2> QED
    BY <2>1, <2>2
<1> QED
  BY <1>1, <1>2, <1>4 DEF LossInv

LEMMA LossPush ==
  ASSUME OneRun, OrderInv, LossInv, Push
  PROVE  LossInv'
<1> DEFINE p == at["producer"]  h == objs[p].head
           d == [objs[p].data EXCEPT ![h % Slots] = sent + 1]
           v == [objs[p] EXCEPT !.data = d, !.head = h + 1]
<1>1. /\ objs \in Seq(Object) /\ p \in 1 .. Len(objs) /\ h = sent /\ sent \in Nat
  BY DEF Push, OrderInv, NameInv, Shape, LaneInv, Sides
<1>2. objs[p] \in Object
  BY <1>1, ElementOfSeq
<1>3. v \in Object /\ v.head = sent + 1 /\ v.tail = objs[p].tail
  <2>1. /\ objs[p].data \in [0 .. Slots - 1 -> Nat] /\ h % Slots \in 0 .. Slots - 1
        /\ h + 1 \in Nat /\ sent + 1 \in Nat
    <3>1. objs[p].data \in [0 .. Slots - 1 -> Nat]
      BY <1>2 DEF Object
    <3> HIDE DEF h
    <3>2. h \in Nat /\ h + 1 \in Nat /\ sent + 1 \in Nat
      BY <1>1
    <3> QED
      BY <3>1, <3>2, SlotOf
  <2>2. d \in [0 .. Slots - 1 -> Nat]
    BY <2>1
  <2> DEFINE n == h + 1
  <2>3. n = sent + 1 /\ n \in Nat
    BY <1>1, <2>1
  <2> HIDE DEF p, h, d, n
  <2>4. /\ [objs[p] EXCEPT !.data = d, !.head = n] \in Object
        /\ [objs[p] EXCEPT !.data = d, !.head = n].head = n
        /\ [objs[p] EXCEPT !.data = d, !.head = n].tail = objs[p].tail
    BY <1>2, <2>2, <2>3 DEF Object
  <2> QED
    BY <2>3, <2>4 DEF n
<1>4. /\ objs' = [objs EXCEPT ![p] = v] /\ sent' = sent + 1
      /\ UNCHANGED <<pc, killed, got>>
  BY DEF Push, history
<1> HIDE DEF p, v
<1>5. /\ Len(objs') = Len(objs) /\ objs'[p] = v
      /\ \A x \in 1 .. Len(objs) : objs'[x].tail = objs[x].tail
  BY <1>1, <1>3, <1>4, Stored
<1>6. Received' = Received /\ Taken' = Taken
  BY <1>4 DEF Received, Taken
<1>7. \E x \in 1 .. Len(objs') : objs'[x].head = sent'
  BY <1>1, <1>3, <1>4, <1>5
<1>8. \A x \in 1 .. Len(objs') : Cardinality(Behind(objs'[x].tail, Received')) <= Taken'
  BY <1>5, <1>6 DEF LossInv
<1> QED
  BY <1>4, <1>7, <1>8 DEF LossInv

(* Between the store and the return one more slot is given back, and then  *)
(* its record is returned.                                                 *)
LEMMA LossPop ==
  ASSUME OneRun, OrderInv, LossInv, Pop
  PROVE  LossInv'
<1> DEFINE c == at["consumer"]
<1>0. /\ objs \in Seq(Object) /\ c \in 1 .. Len(objs) /\ got \in Seq(Nat)
      /\ pc \in [Sides -> ProducerPlaces \cup ConsumerPlaces]
      /\ pc["consumer"] \in {"running", "loaded", "copied", "stored"}
      /\ item \in [tail : Nat, rec : Nat] /\ sent \in Nat
  <2>1. pc["consumer"] \in {"running", "loaded", "copied", "stored"}
    BY DEF Pop, PopLoad, PopCopy, PopStore, PopReturn
  <2> QED
    BY <2>1 DEF OrderInv, NameInv, Shape, Sides
<1>1. \A x \in 1 .. Len(objs) : objs[x] \in Object /\ objs[x].tail \in Nat /\ objs[x].head \in Nat
  <2>1. \A x \in 1 .. Len(objs) : objs[x] \in Object
    BY <1>0, ElementOfSeq
  <2> QED
    BY <2>1 DEF Object
<1>2. killed \in Nat
  BY DEF LossInv
<1>3. CASE PopLoad \/ PopCopy
  <2>1. /\ UNCHANGED <<objs, killed, sent, got>> /\ pc["consumer"] \in {"running", "loaded"}
        /\ pc'["consumer"] \in {"loaded", "copied"}
    BY <1>0, <1>3 DEF PopLoad, PopCopy, GoTo, mem, history, Sides
  <2>2. Taken' = Taken /\ Received' = Received
    BY <2>1 DEF Taken, Received
  <2> QED
    BY <1>2, <2>1, <2>2 DEF LossInv
<1>4. CASE PopStore
  <2> DEFINE t == item.tail  v == [objs[c] EXCEPT !.tail = t + 1]
  <2>1. /\ UNCHANGED <<killed, sent, got>> /\ pc["consumer"] = "copied"
        /\ pc'["consumer"] = "stored" /\ objs' = [objs EXCEPT ![c] = v]
    BY <1>0, <1>4 DEF PopStore, GoTo, traffic, Sides
  <2>2. t = objs[c].tail
    BY <2>1 DEF OrderInv, PopInv
  <2>3. v \in Object /\ v.tail = t + 1 /\ v.head = objs[c].head
    <3>1. t + 1 \in Nat /\ objs[c] \in Object
      BY <1>0, <1>1
    <3>2. objs[c].data \in [0 .. Slots - 1 -> Nat]
      BY <3>1 DEF Object
    <3> HIDE DEF t, c
    <3> QED
      BY <3>1, <3>2, Fields
  <2>4. /\ Len(objs') = Len(objs)
        /\ \A x \in 1 .. Len(objs) : objs'[x] = IF x = c THEN v ELSE objs[x]
    <3> HIDE DEF c, v
    <3> QED
      BY <1>0, <2>1, <2>3, Stored
  <2> HIDE DEF c, t, v
  <2>5. \A x \in 1 .. Len(objs) : objs'[x].head = objs[x].head
    BY <2>3, <2>4
  <2>6. Received' = Received /\ Taken' = killed + 1
    BY <1>2, <2>1 DEF Received, Taken
  <2>7. Taken = killed
    BY <1>2, <2>1 DEF Taken
  <2>8. ASSUME NEW x \in 1 .. Len(objs)
        PROVE  Cardinality(Behind(objs'[x].tail, Received)) <= killed + 1
    <3>1. /\ Cardinality(Behind(objs[x].tail, Received)) \in Nat
          /\ Cardinality(Behind(objs[x].tail + 1, Received))
               <= Cardinality(Behind(objs[x].tail, Received)) + 1
      BY <1>1, BehindCount
    <3>2. Cardinality(Behind(objs[x].tail, Received)) <= killed
      BY <2>7 DEF LossInv
    <3>3. CASE x = c
      <4>1. objs'[x].tail = objs[x].tail + 1
        BY <2>2, <2>3, <2>4, <3>3
      <4>2. Cardinality(Behind(objs[x].tail + 1, Received)) \in Nat
        <5>1. objs[x].tail + 1 \in Nat
          BY <1>1
        <5> QED
          BY <5>1, BehindCount
      <4>3. Cardinality(Behind(objs[x].tail + 1, Received)) <= killed + 1
        BY <1>2, <3>1, <3>2, <4>2
      <4> QED
        BY <4>1, <4>3, Zenon
    <3>4. CASE x # c
      <4>1. objs'[x].tail = objs[x].tail
        BY <2>4, <3>4
      <4>2. Cardinality(Behind(objs[x].tail, Received)) <= killed + 1
        BY <1>2, <3>1, <3>2
      <4> QED
        BY <4>1, <4>2, Zenon
    <3> QED
      BY <3>3, <3>4
  <2> QED
    BY <1>2, <2>1, <2>4, <2>5, <2>6, <2>8 DEF LossInv
<1>5. CASE PopReturn
  <2>1. /\ UNCHANGED <<objs, killed, sent>> /\ pc["consumer"] = "stored"
        /\ pc'["consumer"] = "running" /\ got' = Append(got, item.rec)
    BY <1>0, <1>5 DEF PopReturn, GoTo, mem, history, Sides
  <2>2. /\ item.rec = objs[c].tail /\ item.rec \in 1 .. sent
        /\ \A i \in 1 .. Len(got) : got[i] < item.rec
    BY <2>1 DEF OrderInv, PopInv
  <2>3. Received' = Received \cup {item.rec}
    <3>1. /\ Len(got) \in Nat /\ DOMAIN got = 1 .. Len(got) /\ DOMAIN got' = 1 .. Len(got) + 1
          /\ got'[Len(got) + 1] = item.rec /\ \A i \in 1 .. Len(got) : got'[i] = got[i]
      BY <1>0, <2>1, AppendProperties, LenProperties
    <3> QED
      BY <3>1 DEF Received
  <2>4. item.rec \notin Received
    <3>1. DOMAIN got = 1 .. Len(got) /\ \A i \in 1 .. Len(got) : got[i] \in Nat
      BY <1>0, LenProperties, ElementOfSeq
    <3>2. ASSUME NEW i \in 1 .. Len(got)
          PROVE  got[i] # item.rec
      BY <1>0, <2>2, <3>1
    <3> QED
      BY <3>1, <3>2 DEF Received
  <2>5. Taken' = killed /\ Taken = killed + 1
    BY <1>2, <2>1 DEF Taken
  <2>6. ASSUME NEW x \in 1 .. Len(objs)
        PROVE  Cardinality(Behind(objs[x].tail, Received')) <= killed
    <3>1. Cardinality(Behind(objs[x].tail, Received)) \in Nat
      BY <1>1, BehindCount
    <3>2. Cardinality(Behind(objs[x].tail, Received)) <= killed + 1
      BY <2>5 DEF LossInv
    <3>3. CASE x = c
      <4>1. objs[x].tail = item.rec /\ objs[x].tail > 0
        BY <1>0, <2>2, <3>3
      <4>2. Cardinality(Behind(objs[x].tail, Received \cup {objs[x].tail}))
              = Cardinality(Behind(objs[x].tail, Received)) - 1
        BY <1>1, <2>4, <4>1, BehindCount
      <4>3. Cardinality(Behind(objs[x].tail, Received'))
              = Cardinality(Behind(objs[x].tail, Received)) - 1
        BY <2>3, <4>1, <4>2, Zenon
      <4> QED
        BY <1>2, <3>1, <3>2, <4>3
    <3>4. CASE x # c
      <4>1. objs[c].head > 0 /\ objs[c].head \in Nat
        <5>1. objs[c].tail <= objs[c].head
          BY <1>0 DEF OrderInv, LaneInv, Lane
        <5>2. objs[c].tail > 0 /\ objs[c].tail \in Nat /\ objs[c].head \in Nat
          BY <1>0, <1>1, <2>2
        <5> QED
          BY <5>1, <5>2
      <4>2. objs[x].head = 0
        <5>1. \A y, z \in 1 .. Len(objs) : y # z => objs[y].head = 0 \/ objs[z].head = 0
          BY Zenon DEF OrderInv, LaneInv
        <5>2. objs[c].head # 0
          BY <4>1
        <5> QED
          BY <1>0, <3>4, <5>1, <5>2, Zenon
      <4>3. objs[x].tail = 0
        BY <1>1, <4>2 DEF OrderInv, LaneInv, Lane
      <4>4. Cardinality(Behind(0, Received')) = 0
        BY BehindCount
      <4> QED
        BY <1>2, <4>3, <4>4
    <3> QED
      BY <3>3, <3>4
  <2> QED
    BY <1>2, <2>1, <2>5, <2>6 DEF LossInv
<1> QED
  BY <1>3, <1>4, <1>5 DEF Pop

LEMMA LossStep ==
  ASSUME OneRun, OrderInv, LossInv, NameInv', [Next]_vars
  PROVE  LossInv'
<1> USE DEF GoTo, Down, mem, traffic, history, Sides
<1>0. /\ Len(objs) \in Nat /\ pc \in [Sides -> ProducerPlaces \cup ConsumerPlaces]
      /\ starts \in [Sides -> Nat] /\ objs \in Seq(Object) /\ sent \in Nat
      /\ got \in Seq(Nat) /\ item \in [tail : Nat, rec : Nat]
      /\ \A s \in Sides : pc[s] # "down" => at[s] \in 1 .. Len(objs)
  BY LenProperties DEF OrderInv, NameInv, Shape
<1>count. \A x \in 1 .. Len(objs) : /\ objs[x] \in Object /\ objs[x].tail \in Nat
                                    /\ objs[x].head \in Nat
  <2>1. \A x \in 1 .. Len(objs) : objs[x] \in Object
    BY <1>0, ElementOfSeq
  <2> QED
    BY <2>1 DEF Object
<1>num. killed \in Nat /\ Taken \in Int
  BY DEF Taken, LossInv
<1>1. ASSUME NEW s \in Sides, Open(s)
      PROVE  LossInv'
  <2>1. /\ pc' = [pc EXCEPT ![s] = "opened"] /\ starts' = [starts EXCEPT ![s] = @ + 1]
        /\ UNCHANGED <<sent, got>> /\ pc[s] = "down"
    BY <1>1 DEF Open
  <2>2. /\ Len(objs') \in Nat /\ Len(objs) <= Len(objs')
        /\ \A x \in 1 .. Len(objs) : objs'[x] = objs[x]
        /\ \A x \in 1 .. Len(objs') : x \notin 1 .. Len(objs) => objs'[x] = Zero
    BY <1>1, Opened, LenProperties DEF OrderInv, NameInv
  <2>3. killed' = killed
    BY <1>1 DEF Open
  <2>4. Taken' >= Taken
    BY <1>0, <1>num, <2>1, <2>3 DEF Taken
  <2> QED
    BY <1>num, <2>1, <2>2, <2>3, <2>4, SameLoss
<1>2. ASSUME NEW s \in Sides, Stat(s) \/ Mmap(s) \/ InitDone(s) \/ Close(s) \/ Die(s)
      PROVE  LossInv'
  <2>1. UNCHANGED <<objs, sent, got>>
    BY <1>2 DEF Stat, Mmap, InitDone, Close, Die
  <2>2. \/ /\ pc' = [pc EXCEPT ![s] = "down"]
           /\ killed' = IF pc[s] = "stored" THEN killed + 1 ELSE killed
        \/ /\ pc[s] \in {"opened", "sized", "created"} /\ killed' = killed
           /\ \E q \in {"sized", "short", "mapped", "running"} : pc' = [pc EXCEPT ![s] = q]
    BY <1>2 DEF Stat, Mmap, InitDone, Close, Die
  <2>3. Taken' >= Taken /\ killed' \in Nat
    <3>1. pc["producer"] # "stored"
      BY DEF OrderInv, NameInv, Shape, ProducerPlaces
    <3> QED
      BY <1>0, <1>num, <2>2, <3>1 DEF Taken
  <2> QED
    BY <1>0, <2>1, <2>3, SameLoss
<1>3. ASSUME NEW s \in Sides, Truncate(s) \/ Reset
      PROVE  LossInv'
  <2>1. /\ UNCHANGED <<killed, sent, got>>
        /\ \E t \in Sides, q \in {"sized", "reset", "announce", "created"} :
             /\ pc' = [pc EXCEPT ![t] = q] /\ pc[t] \in {"short", "mapped", "reset", "announce"}
    BY <1>3 DEF Truncate, Reset, ResetHead, ResetTail, Announce
  <2>2. /\ Len(objs') = Len(objs)
        /\ \A x \in 1 .. Len(objs) : /\ objs'[x].head = objs[x].head
                                     /\ objs'[x].tail = objs[x].tail
    <3>1. CASE Truncate(s)
      <4> DEFINE a == at[s]  v == [objs[a] EXCEPT !.grown = TRUE]
      <4>1. a \in 1 .. Len(objs) /\ objs' = [objs EXCEPT ![a] = v]
        BY <1>0, <3>1 DEF Truncate
      <4>2. v \in Object /\ v.head = objs[a].head /\ v.tail = objs[a].tail
        BY <1>count, <4>1 DEF Object
      <4> HIDE DEF a, v
      <4> QED
        BY <1>0, <4>1, <4>2, Stored
    <3>2. CASE Reset
      <4> DEFINE p == at["producer"]
      <4>1. p \in 1 .. Len(objs) /\ sent = 0
        BY <1>0, <3>2 DEF Reset, ResetHead, ResetTail, Announce, OrderInv, LaneInv
      <4>2. objs[p] \in Object /\ objs[p].head = 0 /\ objs[p].tail = 0
        BY <1>count, <4>1 DEF OrderInv, LaneInv, Lane
      <4>3. PICK v \in Object : objs' = [objs EXCEPT ![p] = v] /\ v.head = 0 /\ v.tail = 0
        <5>1. /\ [objs[p] EXCEPT !.head = 0] \in Object
              /\ [objs[p] EXCEPT !.tail = 0] \in Object
              /\ [objs[p] EXCEPT !.initialized = 1] \in Object
          BY <4>2 DEF Object
        <5>2. \/ objs' = [objs EXCEPT ![p] = [objs[p] EXCEPT !.head = 0]]
              \/ objs' = [objs EXCEPT ![p] = [objs[p] EXCEPT !.tail = 0]]
              \/ objs' = [objs EXCEPT ![p] = [objs[p] EXCEPT !.initialized = 1]]
          BY <3>2 DEF Reset, ResetHead, ResetTail, Announce
        <5> QED
          BY <4>2, <5>1, <5>2 DEF Object
      <4> HIDE DEF p
      <4> QED
        BY <1>0, <4>1, <4>2, <4>3, Stored
    <3> QED
      BY <1>3, <3>1, <3>2
  <2>3. Taken' = Taken
    BY <1>0, <2>1 DEF Taken
  <2>4. killed' \in Nat
    BY <1>num, <2>1
  <2>5. Taken' >= Taken
    BY <1>num, <2>3
  <2>6. /\ Len(objs') >= Len(objs) /\ Len(objs') \in Nat
        /\ \A x \in 1 .. Len(objs') : x \notin 1 .. Len(objs) => objs'[x] = Zero
    BY <1>0, <2>2
  <2>7. UNCHANGED <<sent, got>>
    BY <2>1
  <2> QED
    BY <2>2, <2>4, <2>5, <2>6, <2>7, SameLoss
<1>4. CASE Attach
  <2>1. /\ UNCHANGED <<objs, killed, sent, got>> /\ pc' = [pc EXCEPT !["consumer"] = "created"]
        /\ pc["consumer"] = "mapped"
    BY <1>4 DEF Attach
  <2>2. Taken' >= Taken /\ killed' \in Nat
    BY <1>0, <1>num, <2>1 DEF Taken
  <2> QED
    BY <1>0, <2>1, <2>2, SameLoss
<1>5. CASE UNCHANGED vars
  <2>1. UNCHANGED <<objs, killed, sent, got, pc>>
    BY <1>5 DEF vars
  <2>2. Taken' >= Taken /\ killed' \in Nat
    BY <1>num, <2>1 DEF Taken
  <2> QED
    BY <1>0, <2>1, <2>2, SameLoss
<1> QED
  BY <1>1, <1>2, <1>3, <1>4, <1>5, LossPush, LossPop DEF Next, Setup

(* Only the producer takes the name away, and it pushes to the object that *)
(* has it.                                                                 *)
LEMMA AliveStep ==
  ASSUME OneRun, OrderInv, OrderInv', AliveInv, [Next]_vars
  PROVE  AliveInv'
<1> USE DEF GoTo, Down, mem, traffic, history, Sides
<1>0. /\ Len(objs) \in Nat /\ objs \in Seq(Object) /\ sent \in Nat
      /\ \A s \in Sides : pc[s] # "down" => at[s] \in 1 .. Len(objs)
      /\ \A x \in 1 .. Len(objs) : objs[x] \in Object
  BY LenProperties, ElementOfSeq DEF OrderInv, NameInv, Shape
<1>1. ASSUME \/ closed' = closed /\ name' = name
             \/ closed' = closed /\ name = Nobody
             \/ closed' = TRUE,
             \A x \in 1 .. Len(objs') : \/ objs'[x].head = 0
                                        \/ x \in 1 .. Len(objs) /\ objs'[x].head = objs[x].head
      PROVE  AliveInv'
  <2>1. closed' \in BOOLEAN
    BY <1>1, Zenon DEF AliveInv
  <2>2. ASSUME ~closed', NEW x \in 1 .. Len(objs'), objs'[x].head > 0
        PROVE  name' = x
    <3>1. x \in 1 .. Len(objs) /\ objs'[x].head = objs[x].head
      BY <1>1, <2>2
    <3>2. ~closed
      BY <1>1, <2>2
    <3>3. objs[x].head > 0 /\ x # Nobody
      BY <2>2, <3>1 DEF Nobody
    <3>4. name = x
      BY <3>1, <3>2, <3>3 DEF AliveInv
    <3> QED
      BY <1>1, <2>2, <3>3, <3>4
  <2> QED
    BY <2>1, <2>2 DEF AliveInv
<1>2. ASSUME NEW s \in Sides, Open(s)
      PROVE  AliveInv'
  <2>1. /\ closed' = closed /\ (name' = name \/ name = Nobody)
        /\ Len(objs) <= Len(objs') /\ Len(objs') \in Nat
        /\ \A x \in 1 .. Len(objs) : objs'[x] = objs[x]
        /\ \A x \in 1 .. Len(objs') : x \notin 1 .. Len(objs) => objs'[x] = Zero
    <3>1. Len(objs') \in Nat
      BY <1>2, Opened, LenProperties DEF OrderInv, NameInv
    <3>2. closed' = closed /\ (name' = name \/ name = Nobody)
      BY <1>2 DEF Open
    <3> QED
      BY <1>2, <3>1, <3>2, Opened DEF OrderInv, NameInv
  <2>2. \A x \in 1 .. Len(objs') : \/ objs'[x].head = 0
                                   \/ x \in 1 .. Len(objs) /\ objs'[x].head = objs[x].head
    BY <2>1 DEF Zero
  <2> QED
    BY <1>1, <2>1, <2>2
<1>3. ASSUME NEW s \in Sides, Stat(s) \/ Mmap(s) \/ InitDone(s) \/ Die(s) \/ Attach
      PROVE  AliveInv'
  BY <1>1, <1>3 DEF Stat, Mmap, InitDone, Die, Attach
<1>4. ASSUME NEW s \in Sides, Close(s)
      PROVE  AliveInv'
  <2>1. closed' = (closed \/ s = "producer") /\ objs' = objs
    BY <1>4, Zenon DEF Close
  <2>2. s # "producer" => name' = name
    BY <1>4 DEF Close
  <2>3. closed \in BOOLEAN
    BY DEF AliveInv
  <2>4. closed' = TRUE \/ (closed' = closed /\ name' = name)
    BY <2>1, <2>2, <2>3
  <2> QED
    BY <1>1, <2>1, <2>4
<1>5. ASSUME NEW s \in Sides, Truncate(s)
      PROVE  AliveInv'
  <2> DEFINE a == at[s]  v == [objs[a] EXCEPT !.grown = TRUE]
  <2>1. a \in 1 .. Len(objs) /\ objs' = [objs EXCEPT ![a] = v] /\ closed' = closed /\ name' = name
    BY <1>0, <1>5 DEF Truncate
  <2>2. v \in Object /\ v.head = objs[a].head
    BY <1>0, <2>1 DEF Object
  <2> HIDE DEF a, v
  <2>3. Len(objs') = Len(objs) /\ \A x \in 1 .. Len(objs) : objs'[x].head = objs[x].head
    BY <1>0, <2>1, <2>2, Stored
  <2> QED
    BY <1>1, <2>1, <2>3
<1>6. CASE Reset
  <2>1. closed' = closed /\ name' = name /\ sent' = 0
    <3>1. pc["producer"] \in {"mapped", "reset", "announce"} /\ UNCHANGED <<closed, name, sent>>
      BY <1>6 DEF Reset, ResetHead, ResetTail, Announce
    <3>2. starts["producer"] # 0
      BY <3>1 DEF OrderInv, NameInv
    <3>3. sent = 0
      BY <3>1, <3>2 DEF OrderInv, LaneInv
    <3> QED
      BY <3>1, <3>3
  <2>2. \A x \in 1 .. Len(objs') : objs'[x].head = 0
    BY <2>1 DEF OrderInv, LaneInv, Lane
  <2> QED
    BY <1>1, <2>1, <2>2
<1>7. CASE Push
  <2> DEFINE p == at["producer"]
  <2>1. /\ pc' = pc /\ at' = at /\ name' = name /\ closed' = closed /\ sent' = sent + 1
        /\ pc["producer"] = "running" /\ p = name
    BY <1>7 DEF Push, OrderInv, NameInv
  <2>2. p \in 1 .. Len(objs') /\ objs'[p].head = sent + 1
    <3>1. objs' \in Seq(Object) /\ p \in 1 .. Len(objs')
      BY <2>1 DEF OrderInv, NameInv, Shape
    <3> QED
      BY <2>1, <3>1 DEF OrderInv, LaneInv
  <2>3. \A x \in 1 .. Len(objs') : x # p => objs'[x].head = 0
    <3>1. \A x, y \in 1 .. Len(objs') : x # y => objs'[x].head = 0 \/ objs'[y].head = 0
      BY Zenon DEF OrderInv, LaneInv
    <3>2. objs'[p].head # 0
      BY <1>0, <2>2
    <3> HIDE DEF p
    <3> QED
      BY <2>2, <3>1, <3>2, Zenon
  <2> HIDE DEF p
  <2>4. ASSUME NEW x \in 1 .. Len(objs'), objs'[x].head > 0
        PROVE  name' = x
    BY <2>1, <2>3, <2>4
  <2> QED
    BY <2>1, <2>4 DEF AliveInv
<1>8. CASE Pop
  <2>1. closed' = closed /\ name' = name
    BY <1>8 DEF Pop, PopLoad, PopCopy, PopStore, PopReturn
  <2>2. Len(objs') = Len(objs) /\ \A x \in 1 .. Len(objs) : objs'[x].head = objs[x].head
    <3>1. CASE PopStore
      <4> DEFINE c == at["consumer"]  t == item.tail + 1  v == [objs[c] EXCEPT !.tail = t]
      <4>1. c \in 1 .. Len(objs) /\ objs' = [objs EXCEPT ![c] = v]
        BY <1>0, <3>1 DEF PopStore
      <4>2. objs[c] \in Object /\ t \in Nat
        <5>1. item.tail \in Nat
          BY DEF OrderInv, NameInv, Shape
        <5> HIDE DEF c
        <5> QED
          BY <1>0, <4>1, <5>1
      <4>3. objs[c].data \in [0 .. Slots - 1 -> Nat]
        BY <4>2 DEF Object
      <4> HIDE DEF c, t
      <4>4. v \in Object /\ v.head = objs[c].head
        BY <4>2, <4>3, Fields
      <4> HIDE DEF v
      <4> QED
        BY <1>0, <4>1, <4>4, Stored
    <3>2. CASE PopLoad \/ PopCopy \/ PopReturn
      BY <3>2 DEF PopLoad, PopCopy, PopReturn
    <3> QED
      BY <1>8, <3>1, <3>2 DEF Pop
  <2> QED
    BY <1>1, <2>1, <2>2
<1>9. CASE UNCHANGED vars
  BY <1>1, <1>9 DEF vars
<1> QED
  BY <1>2, <1>3, <1>4, <1>5, <1>6, <1>7, <1>8, <1>9 DEF Next, Setup

(* The initial state of one run.                                           *)
LEMMA OneRunInit ==
  ASSUME OneRun, Init PROVE OrderInv /\ CountInv /\ LossInv /\ AliveInv
<1>1. Shape
  BY ShapeInit
<1>2. /\ objs = << >> /\ got = << >> /\ sent = 0 /\ item = NoItem
      /\ pc = [s \in Sides |-> "down"] /\ starts = [s \in Sides |-> 0]
      /\ killed = 0 /\ closed = FALSE
  BY DEF Init, OneRun
<1>3. pc["producer"] = "down" /\ pc["consumer"] = "down" /\ Len(objs) = 0 /\ Len(got) = 0
  BY <1>2, EmptySeq DEF Sides
<1>4. NameInv
  BY <1>1, <1>2 DEF NameInv, Sides
<1>5. LaneInv /\ GotInv
  BY <1>2, <1>3 DEF LaneInv, GotInv
<1>6. PopInv
  BY <1>3 DEF PopInv
<1>7. CountInv
  BY <1>2, <1>3, RingInitAssumption DEF CountInv, NoItem, Sides, RingInitAssumption
<1>8. LossInv /\ AliveInv
  <2>1. LossInv
    BY <1>2, <1>3 DEF LossInv
  <2>2. \A x \in 1 .. Len(objs) : objs[x].head > 0 => name = x
    BY <1>3
  <2>3. closed \in BOOLEAN
    BY <1>2, Zenon
  <2> QED
    BY <2>1, <2>2, <2>3, Zenon DEF AliveInv
<1> QED
  BY <1>4, <1>5, <1>6, <1>7, <1>8 DEF OrderInv

(* The invariant of one run, together.                                     *)
RunInv == OrderInv /\ CountInv /\ LossInv /\ AliveInv

LEMMA RunInvHolds ==
  ASSUME OneRun PROVE Spec => []RunInv
<1>1. Init => RunInv
  BY OneRunInit DEF RunInv
<1>2. NameInv /\ Shape' /\ [Next]_vars => NameInv'
  BY NameStep DEF OneRun
<1>3. RunInv => NameInv
  BY DEF RunInv, OrderInv
<1>4. RunInv /\ NameInv' /\ [Next]_vars => RunInv'
  BY OrderStep, CountStep, LossStep, AliveStep DEF RunInv
<1>5. Spec => [](Shape /\ BackedInv)
  BY ShapeInit, ShapeStep, PTL DEF Spec
<1> QED
  BY <1>1, <1>2, <1>3, <1>4, <1>5, PTL DEF Spec

(* In one run the consumers, however many there are in a row and wherever  *)
(* they die, return the records in the order they were pushed, each once   *)
(* (adapt_ipc.c:290-293, shm_ringbuffer.c:272-317, 390-430).               *)
THEOREM RecordsInOrder ==
  ASSUME OneRun PROVE Spec => []InOrderOnce
<1>1. RunInv => InOrderOnce
  <2> SUFFICES ASSUME RunInv PROVE InOrderOnce
    OBVIOUS
  <2>1. got \in Seq(Nat) /\ GotInv
    BY DEF RunInv, OrderInv, NameInv, Shape
  <2>2. DOMAIN got = 1 .. Len(got)
    BY <2>1, LenProperties
  <2> QED
    BY <2>1, <2>2 DEF GotInv, InOrderOnce
<1> QED
  BY <1>1, RunInvHolds, PTL

(* In one run no object is ever outside what both sides take for granted:  *)
(* head and tail are at most a ring apart, and a slot holds a record of    *)
(* this run (shm_ringbuffer.c:272-317, 390-430).                           *)
THEOREM TypeCorrect ==
  ASSUME OneRun PROVE Spec => []TypeOK
<1>1. RunInv => TypeOK
  <2> SUFFICES ASSUME RunInv PROVE TypeOK
    OBVIOUS
  <2>1. Shape /\ LaneInv /\ CountInv
    BY DEF RunInv, OrderInv, NameInv
  <2>2. /\ objs \in Seq(Object) /\ name \in 0 .. Len(objs) /\ starts \in [Sides -> Nat]
        /\ item \in [tail : Nat, rec : Nat] /\ sent \in Nat
        /\ pc["producer"] \in ProducerPlaces /\ pc["consumer"] \in ConsumerPlaces
        /\ Len(objs) \in Nat /\ DOMAIN objs = 1 .. Len(objs)
    BY <2>1, LenProperties DEF Shape
  <2>3. /\ starts["producer"] \in Nat /\ starts["consumer"] \in Nat
        /\ Starts["producer"] \in Nat /\ Starts["consumer"] \in Nat
        /\ Messages \in Nat /\ Slots \in Nat \ {0}
    BY <2>2, RingInitAssumption DEF RingInitAssumption, Sides
  <2>4. Len(objs) <= Cardinality(Objects)
    <3>1. Cardinality(Objects) = 1 + Starts["producer"] + Starts["consumer"]
      <4> DEFINE n == 1 + Starts["producer"] + Starts["consumer"]
      <4>1. n \in Nat /\ n > 0
        BY <2>3
      <4> HIDE DEF n
      <4>2. Cardinality(1 .. n) = n
        BY <4>1, FS_Interval
      <4> QED
        BY <4>2 DEF n, Objects
    <3>2. /\ Len(objs) <= 1 + starts["producer"] + starts["consumer"]
          /\ starts["producer"] <= Starts["producer"]
          /\ starts["consumer"] <= Starts["consumer"]
      BY <2>1 DEF CountInv, Sides
    <3> QED
      BY <2>2, <2>3, <3>1, <3>2
  <2>5. \A s \in Sides : at[s] \in IF pc[s] = "down" THEN {Nobody} ELSE DOMAIN objs
    BY <2>1, <2>2 DEF Shape
  <2>6. ASSUME NEW o \in DOMAIN objs
        PROVE  /\ objs[o].head - objs[o].tail \in 0 .. Slots
               /\ objs[o].data \in [0 .. Slots - 1 -> Stale .. sent]
    <3>1. o \in 1 .. Len(objs)
      BY <2>2
    <3>2. objs[o] \in Object /\ Lane(objs[o])
      BY <2>1, <2>2, <3>1, ElementOfSeq DEF LaneInv
    <3>3. /\ objs[o].head \in Nat /\ objs[o].tail \in Nat
          /\ objs[o].data \in [0 .. Slots - 1 -> Nat]
      BY <3>2 DEF Object
    <3>4. /\ objs[o].tail <= objs[o].head /\ objs[o].head <= objs[o].tail + Slots
          /\ \A i \in 0 .. Slots - 1 : objs[o].data[i] <= sent
      BY <3>2, Zenon DEF Lane
    <3>5. ASSUME NEW i \in 0 .. Slots - 1
          PROVE  objs[o].data[i] \in 0 .. sent
      <4> DEFINE n == objs[o].data[i]
      <4>1. n \in Nat
        BY <3>3
      <4>2. n <= sent
        BY <3>4
      <4> HIDE DEF n
      <4>3. n \in 0 .. sent
        BY <2>2, <4>1, <4>2
      <4> QED
        BY <4>3 DEF n
    <3>6. objs[o].data \in [0 .. Slots - 1 -> 0 .. sent]
      BY <3>3, <3>5
    <3>7. objs[o].head - objs[o].tail \in 0 .. Slots
      BY <2>3, <3>3, <3>4
    <3> QED
      BY <3>6, <3>7, Zenon DEF Stale
  <2>7. sent \in 0 .. Messages /\ item.tail \in 0 .. Messages
    <3>1. item.tail \in Nat /\ sent <= Messages /\ item.tail <= sent
      BY <2>1, <2>2 DEF CountInv
    <3> QED
      BY <2>2, <2>3, <3>1
  <2>8. killed \in Nat /\ closed \in BOOLEAN
    BY DEF RunInv, LossInv, AliveInv
  <2> QED
    BY <2>2, <2>4, <2>5, <2>6, <2>7, <2>8 DEF TypeOK, ProducerPlaces, ConsumerPlaces
<1> QED
  BY <1>1, RunInvHolds, PTL

(* What is unread is in the object that has the name, until the producer   *)
(* has closed.                                                             *)
LEMMA UnreadHasName ==
  ASSUME RunInv, ~closed, NEW x \in DOMAIN objs, Records(objs[x]) # {}
  PROVE  Exists(x)
<1>1. x \in 1 .. Len(objs) /\ objs[x] \in Object
  <2>1. objs \in Seq(Object)
    BY DEF RunInv, OrderInv, NameInv, Shape
  <2> QED
    BY <2>1, LenProperties, ElementOfSeq
<1>2. objs[x].tail \in Nat /\ objs[x].head \in Nat
  BY <1>1 DEF Object
<1>3. objs[x].head > 0
  <2>1. \E i \in objs[x].tail .. objs[x].head - 1 : TRUE
    BY DEF Records
  <2> QED
    BY <1>2, <2>1
<1>4. name = x
  BY <1>1, <1>3 DEF RunInv, AliveInv
<1> QED
  BY <1>4 DEF Exists

(* In one run no death and no close loses a record but these: a consumer   *)
(* that dies between the store of tail and its return, one; and what is    *)
(* unread when the last user of an object leaves, but only after the       *)
(* producer has closed (shm_ringbuffer.c:418-428, 517-524).                *)
THEOREM OneLostPerDeath ==
  ASSUME OneRun PROVE Spec => []LossPerDeath
<1>1. RunInv => LossPerDeath
  <2> SUFFICES ASSUME RunInv PROVE LossPerDeath
    OBVIOUS
  <2> DEFINE existing == {o \in DOMAIN objs : Exists(o)}
             dropped == Unread(DOMAIN objs \ existing)
             lost == (1 .. sent) \ (Received \cup Unread(existing))
             rest == lost \ dropped
  <2>1. /\ objs \in Seq(Object) /\ sent \in Nat
        /\ Len(objs) \in Nat /\ DOMAIN objs = 1 .. Len(objs)
    BY LenProperties DEF RunInv, OrderInv, NameInv, Shape
  <2>2. Taken \in Nat
    BY DEF RunInv, LossInv, Taken
  <2>3. dropped # {} => closed
    <3> SUFFICES ASSUME ~closed, NEW m \in dropped PROVE FALSE
      OBVIOUS
    <3>1. PICK o \in DOMAIN objs : ~Exists(o) /\ m \in Records(objs[o])
      BY DEF Unread
    <3> QED
      BY <3>1, UnreadHasName, Zenon
  <2>4. \A o \in DOMAIN objs : \A m \in rest : m \in 1 .. sent /\ m \notin Received /\ m \notin Records(objs[o])
    <3> SUFFICES ASSUME NEW o \in DOMAIN objs, NEW m \in rest, m \in Records(objs[o]) PROVE FALSE
      BY Zenon
    <3>1. CASE Exists(o)
      <4>1. m \in Unread(existing)
        BY <3>1 DEF Unread
      <4> QED
        BY <4>1
    <3>2. CASE ~Exists(o)
      <4>1. m \in Unread(DOMAIN objs \ existing)
        BY <3>2 DEF Unread
      <4> QED
        BY <4>1
    <3> QED
      BY <3>1, <3>2
  <2>5. sent = 0 => rest = {}
    BY <2>1
  <2> HIDE DEF rest
  <2>6. Cardinality(rest) <= Taken
    <3>1. CASE sent = 0
      <4>1. Cardinality(rest) = 0
        BY <2>5, <3>1, FS_EmptySet
      <4> QED
        BY <2>2, <4>1
    <3>2. CASE sent # 0
      <4>1. PICK x \in 1 .. Len(objs) : objs[x].head = sent
        BY <3>2 DEF RunInv, LossInv
      <4>2. /\ objs[x].tail \in Nat /\ objs[x].tail <= sent
            /\ \A i \in Nat : objs[x].tail <= i /\ i < sent => objs[x].data[i % Slots] = i + 1
        <5>1. objs[x] \in Object /\ Lane(objs[x])
          BY <2>1, <4>1, ElementOfSeq DEF RunInv, OrderInv, LaneInv
        <5> QED
          BY <4>1, <5>1 DEF Lane, Object
      <4>3. ASSUME NEW m \in rest
            PROVE  m \in Behind(objs[x].tail, Received)
        <5>1. m \in 1 .. sent /\ m \notin Received /\ m \notin Records(objs[x])
          BY <2>1, <2>4, <4>1, <4>3
        <5>2. CASE m > objs[x].tail
          <6> DEFINE i == m - 1
          <6>1. /\ i \in Nat /\ objs[x].tail <= i /\ i < sent /\ i + 1 = m
                /\ i \in objs[x].tail .. objs[x].head - 1
            BY <2>1, <4>1, <4>2, <5>1, <5>2
          <6> HIDE DEF i
          <6>2. objs[x].data[i % Slots] = m
            BY <4>2, <6>1
          <6>3. m \in Records(objs[x])
            BY <6>1, <6>2 DEF Records
          <6> QED
            BY <5>1, <6>3
        <5>3. CASE ~(m > objs[x].tail)
          BY <2>1, <4>2, <5>1, <5>3 DEF Behind
        <5> QED
          BY <5>2, <5>3
      <4>4. rest \in SUBSET Behind(objs[x].tail, Received)
        BY <4>3
      <4>5. /\ IsFiniteSet(Behind(objs[x].tail, Received))
            /\ Cardinality(Behind(objs[x].tail, Received)) \in Nat
        BY <4>2, BehindCount
      <4>6. /\ IsFiniteSet(rest)
            /\ Cardinality(rest) <= Cardinality(Behind(objs[x].tail, Received))
        BY <4>4, <4>5, FS_Subset
      <4>7. Cardinality(rest) \in Nat
        BY <4>6, FS_CardinalityType
      <4>8. Cardinality(Behind(objs[x].tail, Received)) <= Taken
        BY <4>1 DEF RunInv, LossInv
      <4> QED
        BY <2>2, <4>5, <4>6, <4>7, <4>8
    <3> QED
      BY <3>1, <3>2
  <2> QED
    BY <2>3, <2>6 DEF LossPerDeath, Taken, rest
<1> QED
  BY <1>1, RunInvHolds, PTL

================================================================================
