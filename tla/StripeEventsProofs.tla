------------------------- MODULE StripeEventsProofs -------------------------
(***************************************************************************)
(* Proofs about the lock on a Stripe event, for any events, any finite     *)
(* number of deliveries at work and any number of faults.                  *)
(*                                                                         *)
(* The argument is one of time.  A delivery that is in time has taken its  *)
(* clock less than the window ago, and a claim bears that clock: a record  *)
(* that is stale to somebody else is nobody's claim any more.  So a claim  *)
(* is alone, and what was done under claims can be counted.  If Stripe is  *)
(* patient, a delivery is alone on its event from the start, and finds no  *)
(* record but a processed or a stale one.                                  *)
(***************************************************************************)
EXTENDS StripeEvents, FiniteSetTheorems, TLAPS

Claiming(d) == task[d].stage \in {"insert", "read", "takeover"}
About(d, e) == task[d].event = e

(* Nothing is dated after the last delivery of its event.                   *)
Dated ==
    /\ \A e \in Event :
          /\ stripe[e].last <= now
          /\ record[e].status # "absent" => record[e].started <= stripe[e].last
          /\ record[e].status = "processed" => record[e].status # "absent"
    /\ \A d \in Delivery :
          /\ Busy(d) => task[d].at <= stripe[task[d].event].last
          /\ Holds(d) \/ task[d].stage \in {"read", "takeover"} =>
                record[task[d].event].status # "absent"

InTime == \A d \in Delivery : Busy(d) => now < task[d].at + Stale

(* A claim bears the clock of the delivery that holds it.                   *)
Claimed ==
    \A d \in Delivery : Holds(d) =>
        /\ record[task[d].event].status # "absent"
        /\ record[task[d].event].status # "processed"
        /\ record[task[d].event].started = task[d].at

SawStale ==
    \A d \in Delivery : AtStage(d, "takeover") => task[d].seen + Stale <= task[d].at

HeldAlone ==
    \A c, d \in Delivery :
        Holds(c) /\ Holds(d) /\ task[c].event = task[d].event => c = d

(* A success is recorded, or about to be, or was kept from it by a fault.   *)
Recording(e) == \E d \in Delivery : AtStage(d, "succeeded") /\ About(d, e)
Counted ==
    \A e \in Event :
        done[e] = unrecorded[e] + (IF record[e].status = "processed" THEN 1 ELSE 0)
                                + (IF Recording(e) THEN 1 ELSE 0)

Quick == InTime /\ Claimed /\ SawStale /\ HeldAlone /\ Counted

(* With Stripe patient, a delivery is alone, and what it finds is old.      *)
Patient ==
    /\ \A c, d \in Delivery :
          Busy(c) /\ Busy(d) /\ task[c].event = task[d].event => c = d
    /\ \A d \in Delivery :
          /\ Claiming(d) /\ record[task[d].event].status # "absent" =>
                record[task[d].event].started + Stale <= task[d].at
          /\ AtStage(d, "takeover") =>
                /\ record[task[d].event].status # "processed"
                /\ record[task[d].event].started = task[d].seen
          /\ AtStage(d, "ok") => done[task[d].event] > 0
    /\ \A e \in Event : stripe[e].acked => done[e] > 0

IInv ==
    /\ TypeOK /\ Dated
    /\ ~slow => Quick
    /\ ~slow /\ ~hasty => Patient

-----------------------------------------------------------------------------
(* Types.                                                                   *)

(* The successes a set of deliveries has not recorded yet can be counted.   *)
LEMMA CountTyped ==
    ASSUME NEW D \in SUBSET Delivery, NEW e \in Event
    PROVE  Cardinality({d \in D : AtStage(d, "succeeded") /\ task[d].event = e})
               \in Nat
<1> DEFINE S == {d \in D : AtStage(d, "succeeded") /\ task[d].event = e}
<1>1. IsFiniteSet(Delivery)
  BY DeliveryAssumption
<1>2. S \subseteq Delivery
  OBVIOUS
<1>3. IsFiniteSet(S)
  BY <1>1, <1>2, FS_Subset
<1> QED BY <1>3, FS_CardinalityType

(* What is forgotten is a number.                                           *)
LEMMA ForgottenTyped ==
    ASSUME TypeOK, NEW D \in SUBSET Delivery, Forgotten(D)
    PROVE  unrecorded' \in [Event -> Nat]
<1>1. \A e \in Event :
        Cardinality({d \in D : AtStage(d, "succeeded") /\ task[d].event = e})
            \in Nat
  BY CountTyped
<1> QED BY <1>1 DEF TypeOK, Forgotten

(* A delivery that leaves, or is at another stage, is well typed.           *)
LEMMA TaskTyped ==
    ASSUME TypeOK, now' = now
    PROVE  /\ \A d \in Delivery, s \in Stage : GoTo(d, s) =>
                  task' \in [Delivery -> Task']
           /\ \A D \in SUBSET Delivery : Leave(D) => task' \in [Delivery -> Task']
<1>1. Task' = Task
  BY DEF Task
<1>2. \A t \in Task : Idle(t) \in Task
  BY DEF TypeOK, Task, Idle, Stage
<1>3. \A t \in Task, s \in Stage : [t EXCEPT !.stage = s] \in Task
  BY DEF Task
<1>4. \A d \in Delivery, s \in Stage : GoTo(d, s) => task' \in [Delivery -> Task]
  BY <1>3 DEF TypeOK, GoTo
<1>5. \A D \in SUBSET Delivery : Leave(D) => task' \in [Delivery -> Task]
  BY <1>2, Zenon DEF TypeOK, Leave
<1> QED BY <1>1, <1>4, <1>5

(* What a write to the collection leaves behind.                            *)
LEMMA Written ==
    ASSUME TypeOK, NEW e \in Event, NEW p \in {"open", "processed"},
           NEW s \in 0 .. now, Write(e, p, s)
    PROVE  /\ record' \in [Event -> Record]
           /\ record'[e].status = p
           /\ record'[e].started = s
           /\ \A f \in Event : f # e => record'[f] = record[f]
<1> DEFINE r == [status |-> p, started |-> s]
<1>1. r \in Record /\ r.status = p /\ r.started = s
  BY DEF Record
<1>2. record' = [record EXCEPT ![e] = r]
  BY DEF Write
<1> HIDE DEF r
<1> QED BY <1>1, <1>2 DEF TypeOK

(* Every step keeps the types.                                              *)
LEMMA TypeStep ==
    ASSUME TypeOK, [Next]_vars
    PROVE  TypeOK'
<1> USE DEF TypeOK
<1>s. /\ "ok" \in Stage /\ "error" \in Stage /\ "read" \in Stage
      /\ "takeover" \in Stage /\ "handler" \in Stage /\ "succeeded" \in Stage
      /\ "failed" \in Stage /\ "insert" \in Stage
  BY DEF Stage
<1>r. now' = now => Record' = Record /\ Task' = Task
  BY DEF Record, Task
<1>0. CASE UNCHANGED vars
  BY <1>0, <1>r DEF vars
<1>1. ASSUME NEW e \in Event, NEW d \in Delivery, Deliver(e, d)
      PROVE  TypeOK'
  <2>1. [stage |-> "insert", event |-> e, at |-> now, seen |-> 0] \in Task
    BY <1>s DEF Task
  <2>2. task' \in [Delivery -> Task']
    BY <1>1, <1>r, <2>1 DEF Deliver, UtcNow
  <2>3. stripe' \in [Event -> StripeView]
    <3> DEFINE view == [acked |-> FALSE, sent |-> stripe[e].sent + 1,
                        last |-> now]
    <3>1. view \in StripeView
      BY DEF StripeView
    <3>2. stripe' = [stripe EXCEPT ![e] = view]
      BY <1>1 DEF Deliver
    <3> HIDE DEF view
    <3> QED BY <3>1, <3>2
  <2> QED BY <1>1, <1>r, <2>2, <2>3 DEF Deliver
<1>2. CASE Tick
  <2>1. Record \subseteq Record' /\ Task \subseteq Task'
    BY <1>2 DEF Tick, Record, Task
  <2> QED BY <1>2, <2>1 DEF Tick
<1>3. ASSUME NEW d \in Delivery, Lock(d)
      PROVE  TypeOK'
  <2> DEFINE e == task[d].event
  <2>1. e \in Event /\ task[d].at \in 0 .. now /\ record[e] \in Record
    BY DEF Task
  <2>2. CASE Insert(d)
    BY <1>r, <1>s, <2>1, <2>2, TaskTyped, Written DEF Insert
  <2>3. CASE Read(d)
    <3>1. [stage |-> "takeover", event |-> e, at |-> task[d].at,
           seen |-> record[e].started] \in Task
      BY <1>s, <2>1 DEF Task, Record
    <3>2. CASE Refuses(d, record[e])
      BY <1>r, <1>s, <2>3, <3>2, TaskTyped DEF Read
    <3>3. CASE ~Refuses(d, record[e])
      BY <1>r, <2>3, <3>1, <3>3 DEF Read
    <3> QED BY <3>2, <3>3
  <2>4. CASE TakeOver(d)
    BY <1>r, <1>s, <2>1, <2>4, TaskTyped, Written DEF TakeOver
  <2> QED BY <1>3, <2>2, <2>3, <2>4 DEF Lock
<1>4. ASSUME NEW d \in Delivery, Handle(d)
      PROVE  TypeOK'
  <2>1. task[d].event \in Event
    BY DEF Task
  <2>2. CASE Succeed(d)
    BY <1>r, <1>s, <2>1, <2>2, TaskTyped DEF Succeed
  <2>3. CASE Raise(d)
    BY <1>r, <1>s, <2>3, TaskTyped DEF Raise, Fault
  <2>4. CASE Mark(d)
    <3>1. Outcome(d) \in {"open", "processed"}
      BY DEF Outcome
    <3>2. record' \in [Event -> Record] /\ now' = now
      BY <2>1, <2>4, <3>1, Written DEF Mark, Record
    <3> QED BY <1>r, <1>s, <2>4, <3>2, TaskTyped DEF Mark
  <2>5. CASE DbFails(d)
    BY <1>r, <1>s, <2>5, TaskTyped, ForgottenTyped DEF DbFails, Fault
  <2> QED BY <1>4, <2>2, <2>3, <2>4, <2>5 DEF Handle
<1>5. ASSUME NEW d \in Delivery, Reply(d)
      PROVE  TypeOK'
  <2>1. CASE Acknowledge(d)
    <3>1. stripe' \in [Event -> StripeView]
      BY <2>1 DEF Acknowledge, StripeView, Task
    <3> QED BY <1>r, <2>1, <3>1, TaskTyped DEF Acknowledge
  <2>2. CASE Unacknowledged(d)
    BY <1>r, <2>2, TaskTyped DEF Unacknowledged, Fault
  <2> QED BY <1>5, <2>1, <2>2 DEF Reply
<1>6. CASE Crash
  BY <1>r, <1>6, TaskTyped, ForgottenTyped DEF Crash, Fault
<1> QED BY <1>0, <1>1, <1>2, <1>3, <1>4, <1>5, <1>6 DEF Next

(* The types hold at first.                                                 *)
LEMMA TypeAtFirst ==
    ASSUME Init
    PROVE  TypeOK
<1>1. now = 0 /\ NoRecord \in Record
  BY DEF Init, NoRecord, Record
<1>2. \A e \in Event :
        /\ [stage |-> "idle", event |-> e, at |-> 0, seen |-> 0] \in Task
        /\ [acked |-> FALSE, sent |-> 0, last |-> -Stale] \in StripeView
  BY <1>1, StaleAssumption DEF Task, Stage, StripeView
<1>3. task \in [Delivery -> Task]
  BY <1>2 DEF Init
<1>4. stripe \in [Event -> StripeView] /\ record \in [Event -> Record]
  BY <1>1, <1>2 DEF Init
<1>5. /\ done \in [Event -> Nat] /\ unrecorded \in [Event -> Nat]
      /\ now \in Nat /\ faults \in Nat
      /\ slow \in BOOLEAN /\ hasty \in BOOLEAN
  BY DEF Init
<1> QED BY <1>3, <1>4, <1>5 DEF TypeOK

(* The types hold in every reachable state: a record, and whoever reads it, *)
(* is never dated after the clock (models of billing_events).               *)
THEOREM TypeCorrect == Spec => []TypeOK
<1>1. Init => TypeOK
  BY TypeAtFirst
<1> QED BY <1>1, TypeStep, PTL DEF Spec

-----------------------------------------------------------------------------
(* The invariant.                                                           *)

(* What is known of the data when a step is taken.                          *)
LEMMA Typed ==
    ASSUME TypeOK
    PROVE  /\ now \in Nat /\ Stale \in Nat /\ Stale > 0
           /\ \A d \in Delivery :
                 /\ task[d].event \in Event
                 /\ task[d].at \in Nat /\ task[d].at <= now
                 /\ task[d].seen \in Nat
           /\ \A e \in Event :
                 /\ stripe[e].last \in Int
                 /\ record[e].started \in Nat /\ record[e].started <= now
                 /\ record[e].status \in {"absent", "open", "processed"}
                 /\ done[e] \in Nat /\ unrecorded[e] \in Nat
           /\ {"ok", "error", "read", "takeover", "handler", "succeeded",
               "failed"} \subseteq Stage
BY StaleAssumption DEF TypeOK, Task, Record, StripeView, Stage

(* What a step at one delivery leaves of the others, and of it.             *)
LEMMA TasksAfter ==
    ASSUME TypeOK
    PROVE  /\ \A d \in Delivery, s \in Stage : GoTo(d, s) =>
                  \A c \in Delivery :
                      /\ task'[c].stage = IF c = d THEN s ELSE task[c].stage
                      /\ task'[c].event = task[c].event
                      /\ task'[c].at = task[c].at
                      /\ task'[c].seen = task[c].seen
           /\ \A D \in SUBSET Delivery : Leave(D) =>
                  \A c \in Delivery :
                      /\ task'[c].stage = IF c \in D THEN "idle" ELSE task[c].stage
                      /\ task'[c].event = task[c].event
                      /\ c \notin D => task'[c] = task[c]
BY DEF TypeOK, GoTo, Leave, Idle, Task

(* Nothing is dated after the last delivery of its event.                   *)
LEMMA DatedStep ==
    ASSUME TypeOK, Dated, [Next]_vars
    PROVE  Dated'
<1> USE DEF Dated, Busy, Exists, Holds, AtStage
<1>t. /\ now \in Nat
      /\ \A d \in Delivery : task[d].event \in Event /\ task[d].at \in Nat
                             /\ task[d].at <= now
      /\ \A e \in Event : stripe[e].last \in Int
  BY DEF TypeOK, Task, StripeView
<1>s. /\ "ok" \in Stage /\ "error" \in Stage /\ "read" \in Stage
      /\ "takeover" \in Stage /\ "handler" \in Stage /\ "succeeded" \in Stage
      /\ "failed" \in Stage
  BY DEF Stage
<1>0. CASE UNCHANGED vars
  BY <1>0 DEF vars
<1>1. ASSUME NEW e \in Event, NEW d \in Delivery, Deliver(e, d)
      PROVE  Dated'
  <2>1. \A c \in Delivery : task'[c] =
          IF c = d THEN [stage |-> "insert", event |-> e, at |-> now, seen |-> 0]
                   ELSE task[c]
    BY <1>1 DEF Deliver, UtcNow, TypeOK
  <2>2. \A f \in Event : stripe'[f].last = IF f = e THEN now ELSE stripe[f].last
    BY <1>1 DEF Deliver, TypeOK, StripeView
  <2>3. record' = record /\ now' = now
    BY <1>1 DEF Deliver
  <2>4. \A f \in Event : record[f].started \in Int
    BY DEF TypeOK, Record
  <2> QED BY <1>t, <2>1, <2>2, <2>3, <2>4
<1>2. CASE Tick
  BY <1>2, <1>t DEF Tick
<1>3. ASSUME NEW d \in Delivery, Lock(d)
      PROVE  Dated'
  <2> DEFINE e == task[d].event
  <2>i. CASE Insert(d) /\ record[e].status # "absent"
    BY <1>t, <1>s, <2>i, TasksAfter DEF Insert
  <2>j. CASE Insert(d) /\ record[e].status = "absent"
    <3>1. /\ record'[e].status # "absent" /\ record'[e].started = task[d].at
          /\ \A f \in Event : f # e => record'[f] = record[f]
      BY <1>t, <2>j, Written DEF Insert
    <3>2. UNCHANGED <<stripe, now>> /\ GoTo(d, "handler")
      BY <2>j DEF Insert
    <3> QED BY <1>t, <1>s, <2>j, <3>1, <3>2, TasksAfter DEF Insert
  <2>2. CASE Read(d)
    <3>1. \A c \in Delivery : c # d => task'[c] = task[c]
      BY <2>2 DEF Read, GoTo, TypeOK
    <3>2. /\ task'[d].stage \in {"ok", "takeover"}
          /\ task'[d].event = task[d].event /\ task'[d].at = task[d].at
      BY <1>s, <2>2, TasksAfter DEF Read, TypeOK
    <3> QED BY <1>t, <2>2, <3>1, <3>2 DEF Read
  <2>3. CASE TakeOver(d)
    <3>1. CASE Matches(d, record[e])
      <4>1. /\ record'[e].status # "absent" /\ record'[e].started = task[d].at
            /\ \A f \in Event : f # e => record'[f] = record[f]
        BY <1>t, <2>3, <3>1, Written DEF TakeOver
      <4>2. UNCHANGED <<stripe, now>> /\ GoTo(d, "handler")
        BY <2>3, <3>1 DEF TakeOver
      <4> QED BY <1>t, <1>s, <2>3, <4>1, <4>2, TasksAfter DEF TakeOver
    <3>2. CASE ~Matches(d, record[e])
      BY <1>t, <1>s, <2>3, <3>2, TasksAfter DEF TakeOver
    <3> QED BY <3>1, <3>2
  <2> HIDE DEF Dated
  <2> QED BY <1>3, <2>i, <2>j, <2>2, <2>3 DEF Lock
<1>4. ASSUME NEW d \in Delivery, Handle(d)
      PROVE  Dated'
  <2>1. CASE Succeed(d)
    BY <1>s, <2>1, TasksAfter DEF Succeed
  <2>2. CASE Raise(d)
    BY <1>s, <2>2, TasksAfter DEF Raise
  <2>3. CASE Mark(d)
    <3>1. /\ record'[task[d].event].status # "absent"
          /\ record'[task[d].event].started = record[task[d].event].started
          /\ \A f \in Event : f # task[d].event => record'[f] = record[f]
      BY <1>t, <2>3, Written, Typed DEF Mark, Outcome
    <3>2. UNCHANGED <<stripe, now>> /\ (GoTo(d, "ok") \/ GoTo(d, "error"))
      BY <2>3 DEF Mark
    <3>3. record[task[d].event].status # "absent"
      BY <2>3 DEF Mark
    <3> QED BY <1>t, <1>s, <2>3, <3>1, <3>2, <3>3, TasksAfter DEF Mark
  <2>4. CASE DbFails(d)
    BY <1>s, <2>4, TasksAfter DEF DbFails
  <2> HIDE DEF Dated
  <2> QED BY <1>4, <2>1, <2>2, <2>3, <2>4 DEF Handle
<1>5. ASSUME NEW d \in Delivery, Reply(d)
      PROVE  Dated'
  <2>1. \A c \in Delivery : c # d => task'[c] = task[c]
    BY <1>5, TasksAfter DEF Reply, Acknowledge, Unacknowledged
  <2>2. task'[d].stage = "idle" /\ task'[d].event = task[d].event
    BY <1>5, TasksAfter DEF Reply, Acknowledge, Unacknowledged
  <2>3. \A e \in Event : stripe'[e].last = stripe[e].last
    BY <1>5 DEF Reply, Acknowledge, Unacknowledged, TypeOK, StripeView
  <2>4. record' = record /\ now' = now
    BY <1>5 DEF Reply, Acknowledge, Unacknowledged
  <2> QED BY <1>t, <2>1, <2>2, <2>3, <2>4
<1>6. CASE Crash
  BY <1>6, TasksAfter DEF Crash
<1> HIDE DEF Dated
<1> QED BY <1>0, <1>1, <1>2, <1>3, <1>4, <1>5, <1>6 DEF Next


(* The clock of a delivery at work is still within the window.              *)
LEMMA InTimeStep ==
    ASSUME TypeOK, [Next]_vars, ~slow => InTime, ~slow'
    PROVE  InTime'
<1> USE Typed DEF InTime, Busy, AtStage
<1>s. ~slow
  BY DEF Next, vars, Deliver, Tick, Lock, Insert, Read, TakeOver, Handle, Succeed,
         Raise, Mark, DbFails, Reply, Acknowledge, Unacknowledged, Crash
<1>0. CASE UNCHANGED vars
  BY <1>0, <1>s DEF vars
<1>1. ASSUME NEW e \in Event, NEW d \in Delivery, Deliver(e, d)
      PROVE  InTime'
  <2>1. \A c \in Delivery : task'[c] =
          IF c = d THEN [stage |-> "insert", event |-> e, at |-> now, seen |-> 0]
                   ELSE task[c]
    BY <1>1 DEF Deliver, UtcNow, TypeOK
  <2>2. now' = now
    BY <1>1 DEF Deliver
  <2> QED BY <1>s, <2>1, <2>2
<1>2. CASE Tick
  <2>1. \A d \in Delivery : Busy(d) => ~(task[d].at + Stale <= now')
    BY <1>2, Zenon DEF Tick
  <2>2. task' = task /\ now' = now + 1
    BY <1>2 DEF Tick
  <2> QED BY <2>1, <2>2
<1>3. ASSUME NEW d \in Delivery, Lock(d)
      PROVE  InTime'
  <2>1. \A c \in Delivery : c # d => task'[c] = task[c]
    BY <1>3 DEF Lock, Insert, Read, TakeOver, GoTo, TypeOK
  <2>2. task'[d].at = task[d].at /\ now' = now /\ Busy(d)
    <3>1. CASE Read(d)
      BY <3>1, TasksAfter DEF Read, TypeOK
    <3>2. CASE Insert(d)
      BY <3>2, TasksAfter DEF Insert
    <3>3. CASE TakeOver(d)
      BY <3>3, TasksAfter DEF TakeOver
    <3> QED BY <1>3, <3>1, <3>2, <3>3 DEF Lock
  <2> QED BY <1>s, <2>1, <2>2
<1>4. ASSUME NEW d \in Delivery, Handle(d)
      PROVE  InTime'
  <2>1. /\ now' = now /\ Busy(d)
        /\ GoTo(d, "succeeded") \/ GoTo(d, "failed") \/ GoTo(d, "ok")
           \/ GoTo(d, "error")
    BY <1>4 DEF Handle, Succeed, Raise, Mark, DbFails
  <2>2. \A c \in Delivery :
          /\ task'[c].at = task[c].at
          /\ c # d => task'[c].stage = task[c].stage
    BY <2>1, TasksAfter
  <2> QED BY <1>s, <2>1, <2>2
<1>5. ASSUME NEW d \in Delivery, Reply(d)
      PROVE  InTime'
  BY <1>5, <1>s, TasksAfter DEF Reply, Acknowledge, Unacknowledged
<1>6. CASE Crash
  BY <1>6, <1>s, TasksAfter DEF Crash
<1> HIDE DEF InTime
<1> QED BY <1>0, <1>1, <1>2, <1>3, <1>4, <1>5, <1>6 DEF Next

(* A claim, and what it excludes.                                           *)
Claims == Claimed /\ SawStale /\ HeldAlone

(* A step that only moves deliveries to stages without a claim.             *)
LEMMA ClaimsKept ==
    ASSUME Claims, UNCHANGED record,
           \A c \in Delivery :
               /\ Holds(c)' => Holds(c)
               /\ Holds(c)' \/ AtStage(c, "takeover")' =>
                     /\ task'[c].event = task[c].event
                     /\ task'[c].at = task[c].at
                     /\ task'[c].seen = task[c].seen
               /\ AtStage(c, "takeover")' => AtStage(c, "takeover")
    PROVE  Claims'
BY DEF Claims, Claimed, SawStale, HeldAlone

(* A delivery takes a claim where there is none.                            *)
LEMMA ClaimTaken ==
    ASSUME TypeOK, Claims, NEW d \in Delivery, GoTo(d, "handler"), ~Holds(d),
           \A c \in Delivery : Holds(c) => task[c].event # task[d].event,
           record'[task[d].event].status # "absent",
           record'[task[d].event].status # "processed",
           record'[task[d].event].started = task[d].at,
           \A e \in Event : e # task[d].event => record'[e] = record[e]
    PROVE  Claims'
<1> DEFINE e == task[d].event
<1>1. \A c \in Delivery :
        /\ task'[c].stage = IF c = d THEN "handler" ELSE task[c].stage
        /\ task'[c].event = task[c].event /\ task'[c].event \in Event
        /\ task'[c].at = task[c].at /\ task'[c].seen = task[c].seen
  BY TasksAfter, Typed
<1>2. Claimed'
  BY <1>1 DEF Claims, Claimed, Holds
<1>3. SawStale'
  BY <1>1 DEF Claims, SawStale, AtStage
<1>4. HeldAlone'
  BY <1>1 DEF Claims, HeldAlone, Holds
<1> QED BY <1>2, <1>3, <1>4 DEF Claims

(* Every step keeps the claims, as long as deliveries are in time.          *)
LEMMA ClaimsStep ==
    ASSUME TypeOK, Dated, InTime, Claims, [Next]_vars
    PROVE  Claims'
<1> USE Typed
<1>0. CASE UNCHANGED vars
  BY <1>0, ClaimsKept DEF vars, Holds, AtStage
<1>1. ASSUME NEW e \in Event, NEW d \in Delivery, Deliver(e, d)
      PROVE  Claims'
  BY <1>1, ClaimsKept DEF Deliver, TypeOK, Holds, AtStage
<1>2. CASE Tick
  BY <1>2, ClaimsKept DEF Tick, Holds, AtStage
<1>3. ASSUME NEW d \in Delivery, Lock(d)
      PROVE  Claims'
  <2> DEFINE e == task[d].event
  <2>1. CASE Insert(d) /\ record[e].status # "absent"
    BY <2>1, TasksAfter, ClaimsKept DEF Insert, Exists, Holds, AtStage
  <2>2. CASE Insert(d) /\ record[e].status = "absent"
    <3>1. \A c \in Delivery : Holds(c) => task[c].event # e
      BY <2>2 DEF Claims, Claimed
    <3>2. GoTo(d, "handler") /\ ~Holds(d)
      BY <2>2 DEF Insert, Exists, Holds, AtStage
    <3>3. /\ record'[e].status # "absent" /\ record'[e].status # "processed"
          /\ record'[e].started = task[d].at
          /\ \A f \in Event : f # e => record'[f] = record[f]
      BY <2>2, Written DEF Insert, Exists
    <3> QED BY <3>1, <3>2, <3>3, ClaimTaken
  <2>3. CASE Read(d) /\ Refuses(d, record[e])
    BY <2>3, TasksAfter, ClaimsKept DEF Read, Holds, AtStage
  <2>4. CASE Read(d) /\ ~Refuses(d, record[e])
    <3>1. record' = record /\ \A c \in Delivery : task'[c] =
            IF c = d THEN [stage |-> "takeover", event |-> e, at |-> task[d].at,
                           seen |-> record[e].started]
                     ELSE task[c]
      BY <2>4 DEF Read, TypeOK
    <3>2. record[e].started + Stale <= task[d].at
      BY <2>4 DEF Refuses, Fresh
    <3>3. Claimed' /\ HeldAlone'
      BY <3>1 DEF Claims, Claimed, HeldAlone, Holds
    <3>4. SawStale'
      BY <3>1, <3>2 DEF Claims, SawStale, AtStage
    <3> QED BY <3>3, <3>4 DEF Claims
  <2>5. CASE TakeOver(d) /\ ~Matches(d, record[e])
    BY <2>5, TasksAfter, ClaimsKept DEF TakeOver, Holds, AtStage
  <2>6. CASE TakeOver(d) /\ Matches(d, record[e])
    <3>1. record[e].started + Stale <= task[d].at /\ task[d].at <= now
      BY <2>6 DEF TakeOver, Matches, Claims, SawStale
    <3>2. \A c \in Delivery : Holds(c) => task[c].event # e
      <4> SUFFICES ASSUME NEW c \in Delivery, Holds(c), task[c].event = e
                   PROVE  FALSE
        OBVIOUS
      <4>1. record[e].started = task[c].at
        BY DEF Claims, Claimed
      <4>2. now < task[c].at + Stale
        BY DEF InTime, Holds, Busy
      <4> QED BY <3>1, <4>1, <4>2
    <3>3. GoTo(d, "handler") /\ ~Holds(d)
      BY <2>6 DEF TakeOver, Holds, AtStage
    <3>4. record[e].status # "absent"
      BY <2>6 DEF Dated, TakeOver, AtStage
    <3>5. /\ record'[e].status # "absent" /\ record'[e].status # "processed"
          /\ record'[e].started = task[d].at
          /\ \A f \in Event : f # e => record'[f] = record[f]
      BY <2>6, Written DEF TakeOver
    <3> QED BY <3>2, <3>3, <3>5, ClaimTaken
  <2> QED BY <1>3, <2>1, <2>2, <2>3, <2>4, <2>5, <2>6 DEF Lock, Insert, Read, TakeOver
<1>4. ASSUME NEW d \in Delivery, Handle(d)
      PROVE  Claims'
  <2>1. CASE Succeed(d) \/ Raise(d) \/ DbFails(d)
    <3>1. record' = record /\ (Holds(d) \/ GoTo(d, "error"))
          /\ (GoTo(d, "succeeded") \/ GoTo(d, "failed") \/ GoTo(d, "error"))
      BY <2>1 DEF Succeed, Raise, DbFails, Holds, AtStage
    <3> QED BY <3>1, TasksAfter, ClaimsKept DEF Holds, AtStage
  <2>2. CASE Mark(d)
    <3> DEFINE e == task[d].event
    <3>1. Holds(d) /\ (GoTo(d, "ok") \/ GoTo(d, "error"))
      BY <2>2 DEF Mark, Holds
    <3>2. \A f \in Event : f # e => record'[f] = record[f]
      BY <2>2, Written DEF Mark, Outcome, AtStage
    <3>3. \A c \in Delivery :
            /\ Holds(c)' => c # d /\ Holds(c) /\ task[c].event # e
            /\ task'[c].event = task[c].event /\ task'[c].at = task[c].at
            /\ task'[c].seen = task[c].seen
            /\ AtStage(c, "takeover")' => AtStage(c, "takeover")
      BY <3>1, TasksAfter DEF Claims, HeldAlone, Holds, AtStage
    <3>4. Claimed'
      BY <3>2, <3>3 DEF Claims, Claimed
    <3>5. SawStale' /\ HeldAlone'
      BY <3>3 DEF Claims, SawStale, HeldAlone
    <3> QED BY <3>4, <3>5 DEF Claims
  <2> QED BY <1>4, <2>1, <2>2 DEF Handle
<1>5. ASSUME NEW d \in Delivery, Reply(d)
      PROVE  Claims'
  <2>1. record' = record /\ Leave({d})
    BY <1>5 DEF Reply, Acknowledge, Unacknowledged
  <2> QED BY <2>1, TasksAfter, ClaimsKept DEF Holds, AtStage
<1>6. CASE Crash
  BY <1>6, TasksAfter, ClaimsKept DEF Crash, Holds, AtStage
<1> QED BY <1>0, <1>1, <1>2, <1>3, <1>4, <1>5, <1>6 DEF Next


(* The successes waiting to be recorded, by event: one or none.             *)
LEMMA OneToForget ==
    ASSUME HeldAlone, NEW D \in SUBSET Delivery, NEW e \in Event
    PROVE  Cardinality({d \in D : AtStage(d, "succeeded") /\ task[d].event = e})
           = IF \E d \in D : AtStage(d, "succeeded") /\ About(d, e) THEN 1 ELSE 0
<1> DEFINE S == {d \in D : AtStage(d, "succeeded") /\ task[d].event = e}
<1>1. CASE S = {}
  BY <1>1, FS_EmptySet DEF About
<1>2. ASSUME NEW d \in S
      PROVE  Cardinality(S) = 1
  <2>1. \A c \in S : c = d
    BY DEF HeldAlone, Holds, AtStage
  <2>2. S = {d}
    BY <2>1
  <2> QED BY <2>2, FS_Singleton
<1> QED BY <1>1, <1>2 DEF About

(* A step that neither succeeds nor records a success.                      *)
LEMMA CountKept ==
    ASSUME Counted, UNCHANGED <<done, unrecorded>>,
           \A e \in Event :
               /\ record'[e].status = "processed" <=> record[e].status = "processed"
               /\ Recording(e)' <=> Recording(e)
    PROVE  Counted'
BY DEF Counted

(* Successes are counted, as long as claims are alone.                      *)
LEMMA CountedStep ==
    ASSUME TypeOK, Dated, Claims, Counted, [Next]_vars
    PROVE  Counted'
<1> USE Typed
<1>h. \A c, d \in Delivery :
        Holds(c) /\ Holds(d) /\ task[c].event = task[d].event => c = d
  BY DEF Claims, HeldAlone
<1>0. CASE UNCHANGED vars
  BY <1>0, CountKept DEF vars, Recording, AtStage, About
<1>1. ASSUME NEW e \in Event, NEW d \in Delivery, Deliver(e, d)
      PROVE  Counted'
  <2>1. \A c \in Delivery : task'[c] =
          IF c = d THEN [stage |-> "insert", event |-> e, at |-> now, seen |-> 0]
                   ELSE task[c]
    BY <1>1 DEF Deliver, UtcNow, TypeOK
  <2>2. ~AtStage(d, "succeeded") /\ UNCHANGED <<record, done, unrecorded>>
    BY <1>1 DEF Deliver, Busy, AtStage
  <2> QED BY <2>1, <2>2, CountKept DEF Recording, AtStage, About
<1>2. CASE Tick
  BY <1>2, CountKept DEF Tick, Recording, AtStage, About
<1>3. ASSUME NEW d \in Delivery, Lock(d)
      PROVE  Counted'
  <2>1. /\ ~AtStage(d, "succeeded") /\ ~AtStage(d, "succeeded")'
        /\ UNCHANGED <<done, unrecorded>>
    BY <1>3, TasksAfter DEF Lock, Insert, Read, TakeOver, AtStage, TypeOK
  <2>2. \A c \in Delivery : c # d => task'[c] = task[c]
    BY <1>3 DEF Lock, Insert, Read, TakeOver, GoTo, TypeOK
  <2>3. \A e \in Event : record'[e].status = "processed" <=> record[e].status = "processed"
    <3>1. CASE Insert(d) /\ record[task[d].event].status = "absent"
      <4>1. record[task[d].event].status # "processed"
        BY <3>1 DEF Dated, Exists
      <4> QED BY <3>1, <4>1, Written DEF Insert, Exists
    <3>2. CASE TakeOver(d)
      BY <3>2, Written DEF TakeOver, Matches
    <3>3. CASE Read(d) \/ (Insert(d) /\ record[task[d].event].status # "absent")
      BY <3>3 DEF Read, Insert, Exists
    <3> QED BY <1>3, <3>1, <3>2, <3>3 DEF Lock
  <2>4. \A e \in Event : Recording(e)' <=> Recording(e)
    BY <2>1, <2>2 DEF Recording, AtStage, About
  <2> QED BY <2>1, <2>3, <2>4, CountKept
<1>4. ASSUME NEW d \in Delivery, Handle(d)
      PROVE  Counted'
  <2>0. PICK e \in Event : e = task[d].event
    OBVIOUS
  <2>1. CASE Succeed(d)
    <3>1. Holds(d) /\ AtStage(d, "handler") /\ GoTo(d, "succeeded")
          /\ UNCHANGED <<record, unrecorded>>
          /\ \A f \in Event : done'[f] = IF f = e THEN done[f] + 1 ELSE done[f]
      BY <2>0, <2>1 DEF Succeed, Holds, AtStage, TypeOK
    <3>2. record[e].status # "processed"
      BY <2>0, <3>1 DEF Claims, Claimed
    <3>3. ~Recording(e)
      BY <2>0, <1>h, <3>1 DEF Recording, Holds, AtStage, About
    <3>4. Recording(e)' /\ \A f \in Event : f # e => (Recording(f)' <=> Recording(f))
      BY <2>0, <3>1, TasksAfter DEF Recording, AtStage, About
    <3> SUFFICES ASSUME NEW f \in Event
                 PROVE  Counted!(f)'
      BY DEF Counted
    <3>5. CASE f = e
      BY <2>0, <3>1, <3>2, <3>3, <3>4, <3>5 DEF Counted
    <3>6. CASE f # e
      BY <2>0, <3>1, <3>4, <3>6 DEF Counted
    <3> QED BY <2>0, <3>5, <3>6
  <2>2. CASE Raise(d)
    <3>1. AtStage(d, "handler") /\ GoTo(d, "failed")
          /\ UNCHANGED <<record, done, unrecorded>>
      BY <2>0, <2>2 DEF Raise
    <3> QED BY <2>0, <3>1, TasksAfter, CountKept DEF Recording, AtStage, About
  <2>3. CASE Mark(d)
    <3>1. /\ Holds(d) /\ UNCHANGED <<done, unrecorded>>
          /\ GoTo(d, "ok") \/ GoTo(d, "error")
          /\ record'[e].status = "processed" <=> AtStage(d, "succeeded")
          /\ \A f \in Event : f # e => record'[f] = record[f]
      BY <2>0, <2>3, Written DEF Mark, Outcome, Holds, AtStage
    <3>2. record[e].status # "processed"
      BY <2>0, <3>1 DEF Claims, Claimed
    <3>3. ~Recording(e)' /\ \A f \in Event : f # e => (Recording(f)' <=> Recording(f))
      BY <2>0, <1>h, <3>1, TasksAfter DEF Recording, Holds, AtStage, About
    <3>4. Recording(e) <=> AtStage(d, "succeeded")
      BY <2>0, <1>h, <3>1 DEF Recording, Holds, AtStage, About
    <3> SUFFICES ASSUME NEW f \in Event
                 PROVE  Counted!(f)'
      BY DEF Counted
    <3>5. CASE f = e
      BY <2>0, <3>1, <3>2, <3>3, <3>4, <3>5 DEF Counted
    <3>6. CASE f # e
      BY <2>0, <3>1, <3>3, <3>6 DEF Counted
    <3> QED BY <2>0, <3>5, <3>6
  <2>4. CASE DbFails(d)
    <3>1. GoTo(d, "error") /\ UNCHANGED <<record, done>> /\ Forgotten({d})
      BY <2>0, <2>4 DEF DbFails
    <3>2. \A f \in Event : unrecorded'[f] = unrecorded[f]
            + IF AtStage(d, "succeeded") /\ f = e THEN 1 ELSE 0
      <4>1. \A f \in Event :
              (\E c \in {d} : AtStage(c, "succeeded") /\ About(c, f))
                <=> AtStage(d, "succeeded") /\ f = e
        BY <2>0 DEF About
      <4> QED BY <2>0, <3>1, <4>1, OneToForget, ZenonT(40) DEF Claims, Forgotten
    <3>3. \A f \in Event : Recording(f)' <=>
            Recording(f) /\ ~(AtStage(d, "succeeded") /\ f = e)
      BY <2>0, <1>h, <3>1, TasksAfter DEF Recording, Holds, AtStage, About
    <3>4. AtStage(d, "succeeded") => Recording(e)
      BY <2>0 DEF Recording, About
    <3> QED BY <2>0, <3>1, <3>2, <3>3, <3>4 DEF Counted
  <2> QED BY <2>0, <1>4, <2>1, <2>2, <2>3, <2>4 DEF Handle
<1>5. ASSUME NEW d \in Delivery, Reply(d)
      PROVE  Counted'
  <2>1. ~AtStage(d, "succeeded") /\ Leave({d})
        /\ UNCHANGED <<record, done, unrecorded>>
    BY <1>5 DEF Reply, Acknowledge, Unacknowledged, AtStage
  <2> QED BY <2>1, TasksAfter, CountKept DEF Recording, AtStage, About
<1>6. CASE Crash
  <2>1. Leave(Delivery) /\ UNCHANGED <<record, done>> /\ Forgotten(Delivery)
    BY <1>6 DEF Crash
  <2>2. \A f \in Event : unrecorded'[f] =
          unrecorded[f] + IF Recording(f) THEN 1 ELSE 0
    BY <2>1, OneToForget DEF Claims, Forgotten, Recording
  <2>3. \A f \in Event : ~Recording(f)'
    BY <2>1, TasksAfter DEF Recording, AtStage
  <2> QED BY <2>1, <2>2, <2>3 DEF Counted
<1> QED BY <1>0, <1>1, <1>2, <1>3, <1>4, <1>5, <1>6 DEF Next


-----------------------------------------------------------------------------
(* Stripe patient.                                                          *)

(* A success is never taken back.                                           *)
LEMMA DoneKept ==
    ASSUME TypeOK, [Next]_vars
    PROVE  \A e \in Event : done'[e] \in Nat /\ done'[e] >= done[e]
<1>1. ASSUME NEW d \in Delivery, Succeed(d)
      PROVE  \A e \in Event : done'[e] \in Nat /\ done'[e] >= done[e]
  BY <1>1, Typed DEF Succeed, TypeOK
<1>2. UNCHANGED done => \A e \in Event : done'[e] \in Nat /\ done'[e] >= done[e]
  BY Typed
<1> QED BY <1>1, <1>2
     DEF Next, vars, Deliver, Tick, Lock, Insert, Read, TakeOver, Handle, Raise,
         Mark, DbFails, Reply, Acknowledge, Unacknowledged, Crash

(* What a processed record says.                                            *)
LEMMA ProcessedWasDone ==
    ASSUME TypeOK, Counted, NEW e \in Event, record[e].status = "processed"
    PROVE  done[e] > 0
BY Typed DEF Counted

(* Every step keeps it.                                                     *)
LEMMA PatientStep ==
    ASSUME TypeOK, Dated, InTime, Claims, Counted, Patient, [Next]_vars, ~hasty'
    PROVE  Patient'
<1> USE Typed, DoneKept
<1>0. CASE UNCHANGED vars
  BY <1>0 DEF vars, Patient, Busy, Claiming, AtStage
<1>a. \A c, d \in Delivery :
        Busy(c) /\ Busy(d) /\ task[c].event = task[d].event => c = d
  BY DEF Patient
<1>k. \A e \in Event : stripe[e].acked => done[e] > 0
  BY DEF Patient
<1>1. ASSUME NEW e \in Event, NEW d \in Delivery, Deliver(e, d)
      PROVE  Patient'
  <2>1. \A c \in Delivery : task'[c] =
          IF c = d THEN [stage |-> "insert", event |-> e, at |-> now, seen |-> 0]
                   ELSE task[c]
    BY <1>1 DEF Deliver, UtcNow, TypeOK
  <2>2. /\ UNCHANGED <<now, record, done>>
        /\ stripe[e].last + Stale <= now
        /\ ~Busy(d)
    <3>1. ~(now < stripe[e].last + Stale)
      BY <1>1, Zenon DEF Deliver
    <3> QED BY <1>1, <3>1 DEF Deliver
  <2>3. \A f \in Event : stripe'[f].acked => stripe[f].acked
    BY <1>1 DEF Deliver, TypeOK
  <2>4. \A c \in Delivery : Busy(c) => task[c].event # e
    BY <2>2 DEF InTime, Dated
  <2>5. record[e].status # "absent" => record[e].started + Stale <= now
    BY <2>2 DEF Dated
  <2>6. \A c, b \in Delivery :
          Busy(c)' /\ Busy(b)' /\ task'[c].event = task'[b].event => c = b
    BY <1>a, <2>1, <2>4 DEF Busy
  <2>7. \A c \in Delivery : c # d =>
          Claiming(c)' = Claiming(c) /\ AtStage(c, "ok")' = AtStage(c, "ok")
          /\ AtStage(c, "takeover")' = AtStage(c, "takeover")
    BY <2>1 DEF Claiming, AtStage
  <2> QED BY <1>k, <2>1, <2>2, <2>3, <2>5, <2>6 DEF Patient, Claiming, AtStage
<1>2. CASE Tick
  BY <1>2 DEF Tick, Patient, Busy, Claiming, AtStage
<1>3. ASSUME NEW d \in Delivery, Lock(d)
      PROVE  Patient'
  <2>0. PICK e \in Event : e = task[d].event
    OBVIOUS
  <2>1. /\ UNCHANGED <<now, stripe, done>> /\ Busy(d) /\ Claiming(d)
        /\ \A c \in Delivery : c # d => task'[c] = task[c]
    BY <1>3 DEF Lock, Insert, Read, TakeOver, GoTo, TypeOK, Busy, Claiming, AtStage
  <2>2. task'[d].event = e /\ task'[d].at = task[d].at
    BY <1>3, <2>0, TasksAfter DEF Lock, Insert, Read, TakeOver, TypeOK
  <2>3. \A f \in Event : f # e => record'[f] = record[f]
    <3>1. CASE Insert(d)
      BY <2>0, <3>1, Written DEF Insert
    <3>2. CASE TakeOver(d)
      BY <2>0, <3>2, Written DEF TakeOver
    <3> QED BY <1>3, <3>1, <3>2 DEF Lock, Read
  <2>4. \A c \in Delivery : c # d /\ Busy(c) => task[c].event # e
    BY <1>a, <2>0, <2>1
  <2>5. \A b, c \in Delivery :
          Busy(c)' /\ Busy(b)' /\ task'[c].event = task'[b].event => c = b
    BY <1>a, <2>0, <2>1, <2>2 DEF Busy
  <2>6. ASSUME (Claiming(d) /\ record[e].status # "absent" =>
                   record[e].started + Stale <= task[d].at)',
               (AtStage(d, "takeover") =>
                   /\ record[e].status # "processed"
                   /\ record[e].started = task[d].seen)',
               (AtStage(d, "ok") => done[e] > 0)'
        PROVE  Patient'
    <3>1. \A c \in Delivery : c # d => Claiming(c)' = Claiming(c)
                                       /\ Busy(c)' = Busy(c)
      BY <2>1 DEF Claiming, Busy
    <3>2. ASSUME NEW c \in Delivery, c # d
          PROVE  /\ (Claiming(c) /\ record[task[c].event].status # "absent" =>
                        record[task[c].event].started + Stale <= task[c].at)'
                 /\ (AtStage(c, "takeover") =>
                        /\ record[task[c].event].status # "processed"
                        /\ record[task[c].event].started = task[c].seen)'
                 /\ (AtStage(c, "ok") => done[task[c].event] > 0)'
      BY <2>1, <2>3, <2>4, <3>1, <3>2 DEF Patient, Busy, Claiming, AtStage
    <3>3. \A f \in Event : stripe'[f].acked => done'[f] > 0
      BY <1>k, <2>1
    <3> QED BY <2>2, <2>5, <2>6, <3>2, <3>3 DEF Patient
  <2>7. CASE Insert(d)
    <3>1. CASE ~Exists(e)
      <4>1. GoTo(d, "handler")
        BY <2>0, <2>7, <3>1 DEF Insert
      <4>2. task'[d].stage = "handler"
        BY <4>1, TasksAfter
      <4> QED BY <2>6, <4>2 DEF Claiming, AtStage
    <3>2. CASE Exists(e)
      <4>1. GoTo(d, "read") /\ record' = record
        BY <2>0, <2>7, <3>2 DEF Insert
      <4>2. task'[d].stage = "read"
        BY <4>1, TasksAfter
      <4>3. record[e].started + Stale <= task[d].at
        BY <2>0, <2>1, <3>2 DEF Patient, Exists
      <4> QED BY <2>2, <2>6, <4>1, <4>2, <4>3 DEF Claiming, AtStage
    <3> QED BY <3>1, <3>2
  <2>8. CASE Read(d)
    <3>1. record[e].started + Stale <= task[d].at /\ record' = record
      BY <2>0, <2>1, <2>8 DEF Patient, Dated, Read, AtStage
    <3>2. CASE record[e].status = "processed"
      <4>1. GoTo(d, "ok") /\ done[e] > 0
        BY <2>0, <2>8, <3>2, ProcessedWasDone DEF Read, Refuses
      <4>2. task'[d].stage = "ok"
        BY <4>1, TasksAfter
      <4> QED BY <2>1, <2>6, <4>1, <4>2 DEF Claiming, AtStage
    <3>3. CASE record[e].status # "processed"
      <4>1. ~Refuses(d, record[e])
        BY <2>0, <3>1, <3>3 DEF Refuses, Fresh
      <4>2. task'[d].stage = "takeover" /\ task'[d].seen = record[e].started
        BY <2>0, <2>8, <4>1 DEF Read, TypeOK
      <4> QED BY <2>2, <2>6, <3>1, <3>3, <4>2 DEF Claiming, AtStage
    <3> QED BY <3>2, <3>3
  <2>9. CASE TakeOver(d)
    <3>1. /\ record[e].status # "processed" /\ record[e].started = task[d].seen
          /\ record[e].status # "absent"
      BY <2>0, <2>9 DEF TakeOver, Patient, Dated, AtStage
    <3>2. record[e].status = "open"
      BY <3>1 DEF TypeOK, Record
    <3>3. GoTo(d, "handler")
      BY <2>0, <2>9, <3>1, <3>2 DEF TakeOver, Matches
    <3>4. task'[d].stage = "handler"
      BY <3>3, TasksAfter
    <3> QED BY <2>6, <3>4 DEF Claiming, AtStage
  <2> QED BY <1>3, <2>7, <2>8, <2>9 DEF Lock
<1>4. ASSUME NEW d \in Delivery, Handle(d)
      PROVE  Patient'
  <2>0. PICK e \in Event : e = task[d].event
    OBVIOUS
  <2>1. CASE AtStage(d, "insert") \/ AtStage(d, "read") \/ AtStage(d, "takeover")
    <3>1. GoTo(d, "error") /\ UNCHANGED <<now, stripe, record, done>>
      BY <1>4, <2>1 DEF Handle, Succeed, Raise, Mark, DbFails, AtStage
    <3>2. \A c \in Delivery :
            /\ task'[c].stage = IF c = d THEN "error" ELSE task[c].stage
            /\ task'[c].event = task[c].event /\ task'[c].at = task[c].at
            /\ task'[c].seen = task[c].seen
      BY <3>1, TasksAfter
    <3>3. Busy(d)
      BY <2>1 DEF Busy, AtStage
    <3> QED BY <3>1, <3>2, <3>3 DEF Patient, Busy, Claiming, AtStage
  <2>2. CASE Holds(d)
    <3>1. /\ UNCHANGED <<now, stripe>> /\ Busy(d)
          /\ \A f \in Event : f # e => record'[f] = record[f]
      <4>1. CASE Mark(d)
        BY <2>0, <4>1, Written DEF Mark, Outcome, Busy
      <4> QED BY <1>4, <2>2, <4>1 DEF Handle, Succeed, Raise, DbFails, Holds, Busy
    <3>2. PICK s \in {"succeeded", "failed", "ok", "error"} : GoTo(d, s)
      BY <1>4 DEF Handle, Succeed, Raise, Mark, DbFails
    <3>3. \A c \in Delivery :
            /\ task'[c].stage = IF c = d THEN s ELSE task[c].stage
            /\ task'[c].event = task[c].event /\ task'[c].at = task[c].at
            /\ task'[c].seen = task[c].seen
      BY <3>2, TasksAfter
    <3>4. \A c \in Delivery : c # d /\ Busy(c) => task[c].event # e
      BY <1>a, <2>0, <3>1
    <3>5. s = "ok" => done[e] > 0
      <4>1. s = "ok" => AtStage(d, "succeeded")
        BY <1>4, <3>2, <3>3, TasksAfter
           DEF Handle, Succeed, Raise, Mark, DbFails, AtStage
      <4>2. AtStage(d, "succeeded") => Recording(e)
        BY <2>0 DEF Recording, About
      <4>3. Recording(e) => done[e] > 0
        BY DEF Counted
      <4> QED BY <4>1, <4>2, <4>3
    <3>6. \A b, c \in Delivery :
            Busy(c)' /\ Busy(b)' /\ task'[c].event = task'[b].event => c = b
      BY <1>a, <3>1, <3>3 DEF Busy
    <3>7. ASSUME NEW c \in Delivery, c # d
          PROVE  /\ (Claiming(c) /\ record[task[c].event].status # "absent" =>
                        record[task[c].event].started + Stale <= task[c].at)'
                 /\ (AtStage(c, "takeover") =>
                        /\ record[task[c].event].status # "processed"
                        /\ record[task[c].event].started = task[c].seen)'
                 /\ (AtStage(c, "ok") => done[task[c].event] > 0)'
      BY <3>1, <3>3, <3>4, <3>7 DEF Patient, Busy, Claiming, AtStage
    <3>8. /\ ~Claiming(d)' /\ ~AtStage(d, "takeover")'
          /\ (AtStage(d, "ok") => done[task[d].event] > 0)'
      BY <2>0, <3>3, <3>5 DEF Claiming, AtStage
    <3>9. \A f \in Event : stripe'[f].acked => done'[f] > 0
      BY <1>k, <3>1
    <3> QED BY <3>6, <3>7, <3>8, <3>9 DEF Patient
  <2> QED BY <1>4, <2>1, <2>2
       DEF Handle, Succeed, Raise, Mark, DbFails, Holds, AtStage
<1>5. ASSUME NEW d \in Delivery, Reply(d)
      PROVE  Patient'
  <2>1. Leave({d}) /\ UNCHANGED <<now, record, done>> /\ Busy(d)
    BY <1>5 DEF Reply, Acknowledge, Unacknowledged, Busy, AtStage
  <2>2. \A c \in Delivery :
          /\ c # d => task'[c] = task[c]
          /\ c = d => task'[c].stage = "idle"
    BY <2>1, TasksAfter
  <2>3. \A f \in Event : stripe'[f].acked => done'[f] > 0
    <3>1. CASE Acknowledge(d)
      <4>1. done[task[d].event] > 0
        BY <3>1 DEF Acknowledge, Patient
      <4>2. \A f \in Event : f # task[d].event => stripe'[f] = stripe[f]
        BY <3>1 DEF Acknowledge, TypeOK
      <4> QED BY <1>k, <2>1, <4>1, <4>2
    <3>2. CASE Unacknowledged(d)
      BY <1>k, <3>2 DEF Unacknowledged
    <3> QED BY <1>5, <3>1, <3>2 DEF Reply
  <2> QED BY <2>1, <2>2, <2>3 DEF Patient, Busy, Claiming, AtStage
<1>6. CASE Crash
  <2>1. Leave(Delivery) /\ UNCHANGED <<now, stripe, record, done>>
    BY <1>6 DEF Crash
  <2>2. \A c \in Delivery : task'[c].stage = "idle"
    BY <2>1, TasksAfter
  <2> QED BY <1>k, <2>1, <2>2 DEF Patient, Busy, Claiming, AtStage
<1> QED BY <1>0, <1>1, <1>2, <1>3, <1>4, <1>5, <1>6 DEF Next

-----------------------------------------------------------------------------
(* Results.                                                                 *)

(* The excuses last.                                                        *)
LEMMA Excused ==
    ASSUME [Next]_vars
    PROVE  (slow => slow') /\ (hasty => hasty')
<1>1. \/ UNCHANGED <<slow, hasty>> \/ Tick
      \/ \E e \in Event, d \in Delivery : Deliver(e, d)
  BY DEF Next, vars, Lock, Insert, Read, TakeOver, Handle, Succeed, Raise, Mark,
         DbFails, Reply, Acknowledge, Unacknowledged, Crash
<1>2. CASE UNCHANGED <<slow, hasty>>
  <2>1. slow' = slow /\ hasty' = hasty
    BY <1>2
  <2> QED BY <2>1, Zenon
<1>3. ASSUME NEW e \in Event, NEW d \in Delivery, Deliver(e, d)
      PROVE  (slow => slow') /\ (hasty => hasty')
  <2>1. slow' = slow
    BY <1>3 DEF Deliver
  <2>2. hasty => hasty'
    BY <1>3, Zenon DEF Deliver
  <2> QED BY <2>1, <2>2, Zenon
<1>4. CASE Tick
  <2>1. slow => slow'
    BY <1>4, Zenon DEF Tick
  <2>2. hasty' = hasty
    BY <1>4 DEF Tick
  <2> QED BY <2>1, <2>2, Zenon
<1> QED BY <1>1, <1>2, <1>3, <1>4, Zenon

(* The inductive invariant.                                                 *)
LEMMA Invariance == Spec => []IInv
<1>1. Init => IInv
  <2> SUFFICES ASSUME Init
               PROVE  IInv
    OBVIOUS
  <2>1. TypeOK
    BY TypeAtFirst
  <2>2. \A d \in Delivery : task[d].stage = "idle"
    BY DEF Init
  <2>3. \A e \in Event :
          /\ record[e] = NoRecord /\ done[e] = 0 /\ unrecorded[e] = 0
          /\ ~stripe[e].acked /\ stripe[e].last = -Stale
    BY DEF Init
  <2>4. Dated
    BY <2>1, <2>2, <2>3, Typed DEF Dated, NoRecord, Busy, Holds, Init
  <2>5. Quick
    BY <2>2, <2>3 DEF Quick, InTime, Claimed, SawStale, HeldAlone, Counted,
                      Recording, NoRecord, Busy, Holds, AtStage
  <2>6. Patient
    BY <2>2, <2>3 DEF Patient, Busy, Claiming, AtStage
  <2> QED BY <2>1, <2>4, <2>5, <2>6 DEF IInv
<1>2. IInv /\ [Next]_vars => IInv'
  <2> SUFFICES ASSUME IInv, [Next]_vars
               PROVE  IInv'
    OBVIOUS
  <2>1. TypeOK' /\ Dated'
    BY TypeStep, DatedStep DEF IInv
  <2>2. ASSUME ~slow'
        PROVE  Quick'
    <3>1. ~slow
      BY <2>2, Excused
    <3> QED BY <2>2, <3>1, InTimeStep, ClaimsStep, CountedStep DEF IInv, Quick, Claims
  <2>3. ASSUME ~slow', ~hasty'
        PROVE  Patient'
    <3>1. ~slow /\ ~hasty
      BY <2>3, Excused
    <3> QED BY <2>3, <3>1, PatientStep DEF IInv, Quick, Claims
  <2> QED BY <2>1, <2>2, <2>3 DEF IInv
<1> QED BY <1>1, <1>2, PTL DEF Spec

(* Two deliveries never handle an event at once while deliveries are in     *)
(* time (handle_webhook_event: "can never both execute side effects").      *)
THEOREM HandledByOne == Spec => []HandledAlone
<1>1. IInv => HandledAlone
  BY DEF IInv, Quick, HeldAlone, HandledAlone, Handling, Holds, AtStage
<1> QED BY <1>1, Invariance, PTL

(* Then an event takes effect once, and once more for every success whose   *)
(* record was lost (mark_event_processed).                                  *)
THEOREM TakesEffectOnce == Spec => []AppliedOnce
<1>1. IInv => AppliedOnce
  <2> SUFFICES ASSUME IInv, ~slow, NEW e \in Event
               PROVE  done[e] <= 1 + unrecorded[e]
    BY DEF AppliedOnce
  <2>1. ~(record[e].status = "processed" /\ Recording(e))
    BY DEF IInv, Quick, Claimed, Recording, About, Holds, AtStage
  <2> QED BY <2>1, Typed DEF IInv, Quick, Counted
<1> QED BY <1>1, Invariance, PTL

(* And while Stripe is patient as well, what it no longer delivers has been *)
(* handled (stripe_webhook).                                                *)
THEOREM AckIsHandled == Spec => []AckedWasHandled
<1>1. IInv => AckedWasHandled
  BY DEF IInv, Patient, AckedWasHandled
<1> QED BY <1>1, Invariance, PTL

=============================================================================
