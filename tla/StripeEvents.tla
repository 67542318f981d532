----------------------------- MODULE StripeEvents -----------------------------
(***************************************************************************)
(* The lock on a Stripe event (billing_repository, stripe_service,         *)
(* routers/billing).  Stripe delivers an event until a delivery is         *)
(* answered 2xx.  A delivery claims the event by inserting its record;     *)
(* finding one, it leaves a processed or a fresh one alone and takes over  *)
(* a stale one.  The delivery that holds the claim runs the handler and    *)
(* marks the record processed, or unprocessed with an error.               *)
(*                                                                         *)
(* Stripe is external: it may deliver an event again while an earlier      *)
(* delivery is still being handled (its timeout, or a duplicate), and an   *)
(* answer may miss it.                                                     *)
(***************************************************************************)
EXTENDS Integers, FiniteSets

CONSTANTS Event,         \* events of Stripe
          Delivery,      \* requests the server handles at once
          Stale,         \* stale_after_seconds
          MaxTime,       \* bound: the clock
          MaxDeliveries, \* bound: deliveries of an event
          MaxFaults      \* bound: failed handlers, database calls, restarts

ASSUME StaleAssumption == Stale \in Nat \ {0}
ASSUME DeliveryAssumption == IsFiniteSet(Delivery)

VARIABLES now,    \* the clock
          stripe, \* what Stripe knows of an event: owed, acked, and how often
                  \* and when last it has been delivered
          record, \* billing_events, unique on stripe_event_id
          task,   \* the server's deliveries
          faults,
          done,       \* ghost: handler runs that succeeded, by event
          unrecorded, \* ghost: those whose record was never marked
          slow,       \* ghost: a delivery has outlived the stale window
          hasty       \* ghost: Stripe has delivered within that window

vars == <<now, stripe, record, task, faults, done, unrecorded, slow, hasty>>

-----------------------------------------------------------------------------
(* Data.                                                                    *)

NoRecord == [status |-> "absent", started |-> 0]
Record == [status : {"absent", "open", "processed"}, started : 0 .. now]

Stage == {"idle", "insert", "read", "takeover", "handler", "succeeded",
          "failed", "ok", "error"}

(* at is the now of try_acquire_event_lock, seen the started_at it read.    *)
Task == [stage : Stage, event : Event, at : 0 .. now, seen : 0 .. now]

StripeView == [acked : BOOLEAN, sent : Nat, last : Int]

TypeOK ==
    /\ now \in Nat
    /\ stripe \in [Event -> StripeView]
    /\ record \in [Event -> Record]
    /\ task \in [Delivery -> Task]
    /\ faults \in Nat
    /\ done \in [Event -> Nat]
    /\ unrecorded \in [Event -> Nat]
    /\ slow \in BOOLEAN
    /\ hasty \in BOOLEAN

Init ==
    /\ now = 0
    /\ stripe = [e \in Event |-> [acked |-> FALSE, sent |-> 0, last |-> -Stale]]
    /\ record = [e \in Event |-> NoRecord]
    /\ task \in {[d \in Delivery |->
                    [stage |-> "idle", event |-> e, at |-> 0, seen |-> 0]]
                 : e \in Event}
    /\ faults = 0
    /\ done = [e \in Event |-> 0]
    /\ unrecorded = [e \in Event |-> 0]
    /\ slow = FALSE
    /\ hasty = FALSE

Busy(d) == task[d].stage # "idle"
AtStage(d, stage) == task[d].stage = stage
GoTo(d, stage) == task' = [task EXCEPT ![d].stage = stage]
Idle(t) == [stage |-> "idle", event |-> t.event, at |-> 0, seen |-> 0]
Leave(D) == task' = [d \in Delivery |-> IF d \in D THEN Idle(task[d]) ELSE task[d]]
Write(e, status, started) ==
    record' = [record EXCEPT ![e] = [status |-> status, started |-> started]]
Exists(e) == record[e].status # "absent"
Fault == faults < MaxFaults /\ faults' = faults + 1

(* A delivery that has a claim, and one whose handler is running.           *)
Holds(d) == task[d].stage \in {"handler", "succeeded", "failed"}
Handling(d, e) == AtStage(d, "handler") /\ task[d].event = e

-----------------------------------------------------------------------------
(* Stripe and time.                                                         *)

UtcNow == now

(* An event that is owed is delivered; the server takes the time.           *)
Deliver(e, d) ==
    /\ ~stripe[e].acked
    /\ stripe[e].sent < MaxDeliveries
    /\ ~Busy(d)
    /\ stripe' = [stripe EXCEPT
                    ![e] = [acked |-> FALSE, sent |-> @.sent + 1, last |-> now]]
    /\ task' = [task EXCEPT
                  ![d] = [stage |-> "insert", event |-> e, at |-> UtcNow, seen |-> 0]]
    /\ hasty' = (hasty \/ now < stripe[e].last + Stale)
    /\ UNCHANGED <<now, record, faults, done, unrecorded, slow>>

Tick ==
    /\ now < MaxTime
    /\ now' = now + 1
    /\ slow' = (slow \/ \E d \in Delivery : Busy(d) /\ task[d].at + Stale <= now')
    /\ UNCHANGED <<stripe, record, task, faults, done, unrecorded, hasty>>

-----------------------------------------------------------------------------
(* try_acquire_event_lock.                                                  *)

(* The insert, or its DuplicateKeyError.                                    *)
Insert(d) ==
    LET e == task[d].event IN
    /\ AtStage(d, "insert")
    /\ IF Exists(e)
       THEN GoTo(d, "read") /\ UNCHANGED record
       ELSE Write(e, "open", task[d].at) /\ GoTo(d, "handler")
    /\ UNCHANGED <<now, stripe, faults, done, unrecorded, slow, hasty>>

(* Mutants: half the window is enough; the window never ends.               *)
Fresh_Half(d, r) == r.started > task[d].at - (Stale \div 2)
Fresh_Forever(d, r) == TRUE

(* Started within the window, by the clock of this delivery.                *)
Fresh(d, r) == r.started > task[d].at - Stale

(* already_processed, in_flight: answered 200 without a handler.            *)
Refuses(d, r) == r.status = "processed" \/ Fresh(d, r)

Read(d) ==
    LET e == task[d].event IN
    /\ AtStage(d, "read")
    /\ IF Refuses(d, record[e])
       THEN GoTo(d, "ok")
       ELSE task' = [task EXCEPT ![d] = [stage |-> "takeover", event |-> e,
                         at |-> task[d].at, seen |-> record[e].started]]
    /\ UNCHANGED <<now, stripe, record, faults, done, unrecorded, slow, hasty>>

(* Mutant: the takeover matches whatever started_at the record has.         *)
Matches_Any(d, r) == r.status = "open"

(* The filter of the conditional update.                                    *)
Matches(d, r) == r.status = "open" /\ r.started = task[d].seen

(* The stale record is taken over, unless another delivery was first:       *)
(* contention, answered 200 as well.                                        *)
TakeOver(d) ==
    LET e == task[d].event IN
    /\ AtStage(d, "takeover")
    /\ IF Matches(d, record[e])
       THEN Write(e, "open", task[d].at) /\ GoTo(d, "handler")
       ELSE GoTo(d, "ok") /\ UNCHANGED record
    /\ UNCHANGED <<now, stripe, faults, done, unrecorded, slow, hasty>>

-----------------------------------------------------------------------------
(* handle_webhook_event under the claim.                                    *)

Succeed(d) ==
    /\ AtStage(d, "handler")
    /\ GoTo(d, "succeeded")
    /\ done' = [done EXCEPT ![task[d].event] = @ + 1]
    /\ UNCHANGED <<now, stripe, record, faults, unrecorded, slow, hasty>>

(* The handler raises.                                                      *)
Raise(d) ==
    /\ AtStage(d, "handler")
    /\ Fault
    /\ GoTo(d, "failed")
    /\ UNCHANGED <<now, stripe, record, done, unrecorded, slow, hasty>>

(* Mutant: an error closes the event as well.                               *)
Outcome_Processed(d) == "processed"

(* What is stored: an error leaves the event open.                          *)
Outcome(d) == IF AtStage(d, "succeeded") THEN "processed" ELSE "open"

(* mark_event_processed: whatever the record has become in the meantime.    *)
Mark(d) ==
    LET e == task[d].event IN
    /\ task[d].stage \in {"succeeded", "failed"}
    /\ Write(e, Outcome(d), record[e].started)
    /\ GoTo(d, IF AtStage(d, "succeeded") THEN "ok" ELSE "error")
    /\ UNCHANGED <<now, stripe, faults, done, unrecorded, slow, hasty>>

(* What a success leaves behind when its record is never marked.            *)
Forgotten(D) ==
    unrecorded' = [e \in Event |->
        unrecorded[e] + Cardinality(
            {d \in D : AtStage(d, "succeeded") /\ task[d].event = e})]

(* A call of the lock or of the mark fails at the database: a 500.          *)
DbFails(d) ==
    /\ task[d].stage \in {"insert", "read", "takeover", "succeeded", "failed"}
    /\ Fault
    /\ GoTo(d, "error")
    /\ Forgotten({d})
    /\ UNCHANGED <<now, stripe, record, done, slow, hasty>>

(* The server restarts: its deliveries are gone, its records stay.          *)
Crash ==
    /\ \E d \in Delivery : Busy(d)
    /\ Fault
    /\ Leave(Delivery)
    /\ Forgotten(Delivery)
    /\ UNCHANGED <<now, stripe, record, done, slow, hasty>>

-----------------------------------------------------------------------------
(* stripe_webhook answers: 500 for an error, else 200.                      *)

Acknowledge(d) ==
    /\ AtStage(d, "ok")
    /\ stripe' = [stripe EXCEPT ![task[d].event].acked = TRUE]
    /\ Leave({d})
    /\ UNCHANGED <<now, record, faults, done, unrecorded, slow, hasty>>

(* A 500, or a 200 that Stripe no longer waits for: the event is owed.      *)
Unacknowledged(d) ==
    /\ \/ AtStage(d, "error") /\ UNCHANGED faults
       \/ AtStage(d, "ok") /\ Fault
    /\ Leave({d})
    /\ UNCHANGED <<now, stripe, record, done, unrecorded, slow, hasty>>

-----------------------------------------------------------------------------

Lock(d) == Insert(d) \/ Read(d) \/ TakeOver(d)
Handle(d) == Succeed(d) \/ Raise(d) \/ Mark(d) \/ DbFails(d)
Reply(d) == Acknowledge(d) \/ Unacknowledged(d)

Next ==
    \/ \E e \in Event, d \in Delivery : Deliver(e, d)
    \/ \E d \in Delivery : Lock(d) \/ Handle(d) \/ Reply(d)
    \/ Crash
    \/ Tick

Spec == Init /\ [][Next]_vars

(* The event loop runs every delivery, and Stripe retries what it is owed.  *)
Fairness ==
    /\ \A d \in Delivery : WF_vars(Lock(d) \/ Handle(d) \/ Reply(d))
    /\ \A e \in Event : WF_vars(\E d \in Delivery : Deliver(e, d))

FairSpec == Spec /\ Fairness

-----------------------------------------------------------------------------
(* Properties.                                                              *)

(* Unless a delivery outlives the stale window, an event is never handled   *)
(* by two deliveries at once, however often Stripe delivers it and whatever *)
(* fails: reserve-before-run (handle_webhook_event).                        *)
HandledAlone ==
    ~slow => \A e \in Event, c, d \in Delivery :
                Handling(c, e) /\ Handling(d, e) => c = d

(* Unless a delivery outlives the window, an event takes effect once, and   *)
(* once more at most for every success whose record a fault kept open: no   *)
(* delivery, late failure or takeover reopens a handled event.              *)
AppliedOnce == ~slow => \A e \in Event : done[e] <= 1 + unrecorded[e]

(* While Stripe leaves the stale window between two deliveries and none     *)
(* outlives it, an acknowledged event has been handled.                     *)
AckedWasHandled ==
    ~slow /\ ~hasty => \A e \in Event : stripe[e].acked => done[e] > 0

(* ... and every event is handled in the end: a failed or crashed claim     *)
(* does not keep the retries out.                                           *)
EventHandled == \A e \in Event : <>(slow \/ hasty \/ done[e] > 0)

=============================================================================
