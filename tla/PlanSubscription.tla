--------------------------- MODULE PlanSubscription ---------------------------
(***************************************************************************)
(* The commercial plan of an organization and the Stripe subscription that *)
(* pays for it (stripe_service, plan_provisioning, billing_lifecycle).     *)
(* The plan is the org document's billing fields together with the active  *)
(* module subscriptions, the rows.  Webhooks, the success page of a        *)
(* checkout, the owner's buttons, an administrator and the billing sweep   *)
(* all provision and deprovision it.                                       *)
(*                                                                         *)
(* One organization, which is one Stripe customer; one module, so a plan   *)
(* has one row.  A handler is a sequence of awaits, one action each.       *)
(***************************************************************************)
EXTENDS Integers, Sequences, FiniteSets, SequencesExt

CONSTANTS Sub,        \* checkouts, and the subscriptions they become
          NoSub,
          Sold,       \* plans sold by checkout
          Worker,     \* handlers the server runs at once
          Admins,     \* whether administrators assign plans
          Impatient,  \* bound: whether people and renewals may be hasty
          MaxChanges, \* bound: what Stripe's billing does on its own
          MaxRequests,\* bound: requests of people
          MaxCrashes  \* bound: restarts

ASSUME PlanAssumption == /\ Sold \cap {"free", "none", "begun", "void"} = {}
                         /\ NoSub \notin Sub
                         /\ IsFiniteSet(Worker)
                         /\ {Admins, Impatient} \subseteq BOOLEAN
                         /\ {MaxChanges, MaxRequests, MaxCrashes} \subseteq Nat

VARIABLES stripe,  \* subscriptions and checkout sessions on Stripe
          events,  \* Stripe's events not yet handled, oldest first
          page,    \* the success page of a checkout: the plan it waits to change
          org,     \* the billing fields of the organization
          rows,    \* its active module_subscriptions
          task,    \* the handlers
          spent,   \* the bounds
          hasty,   \* ghost: something began before what came earlier had ended
          granted  \* ghost: the plan an administrator assigned

vars == <<stripe, events, page, org, rows, task, spent, hasty, granted>>

-----------------------------------------------------------------------------
(* Data.                                                                    *)

Plan == Sold \cup {"free"}
NoPlan == "none"

(* An assignment is begun, made, and void once somebody buys a plan.        *)
Grant == Plan \cup {NoPlan, "begun", "void"}

SubStatus == {"none", "open", "active", "past_due", "unpaid", "canceled"}
ACTIVE_BILLING_STATES == {"active", "past_due"}
TERMINAL_BILLING_STATUSES == {"canceled", "unpaid"}

EventKind == {"completed", "updated", "deleted", "paid", "failed"}
Event == [kind : EventKind, sub : Sub, status : SubStatus, plan : Sold]

Row == [id : Nat \ {0}, plan : Plan, sub : Sub \cup {NoSub}]

Stage == {"idle", "guard", "cancel_old", "retrieve", "list", "clear", "write",
          "sweep", "sweep_cancel", "unlink",
          "deprovision", "cancel_rows", "reset", "free_row",
          "summary", "metadata", "org", "status",
          "verify", "check", "hard_cancel", "modify", "stale"}

Operation == EventKind \cup {"verify", "cancel", "modify", "admin", "sweep"}

(* plan and status are those the handler will write, old the subscription  *)
(* it has read of the org, list the rows and subs the subscriptions it has *)
(* still to cancel, event what Stripe sent.                                *)
Task == [op : Operation, stage : Stage, sub : Sub \cup {NoSub}, plan : Plan,
         status : SubStatus \cup {"manual"}, old : Sub \cup {NoSub},
         list : SUBSET Nat, subs : SUBSET Sub, event : Seq(Event)]

TypeOK ==
    /\ stripe \in [Sub -> [status : SubStatus, plan : Sold]]
    /\ events \in Seq(Event)
    /\ page \in [Sub -> Plan \cup {NoPlan}]
    /\ org \in [plan : Plan, sub : Sub \cup {NoSub},
                status : {"none", "manual"} \cup SubStatus,
                by : {"signup", "stripe", "admin", "billing_sweep"}]
    /\ rows \subseteq Row
    /\ \A r, q \in rows : r.id = q.id => r = q
    /\ task \in [Worker -> Task]
    /\ spent \in [changes : 0 .. MaxChanges, requests : 0 .. MaxRequests,
                  crashes : 0 .. MaxCrashes]
    /\ hasty \in BOOLEAN
    /\ granted \in Grant

Idle == [op |-> "sweep", stage |-> "idle", sub |-> NoSub, plan |-> "free",
         status |-> "none", old |-> NoSub, list |-> {}, subs |-> {},
         event |-> << >>]

(* Signup has provisioned the free plan.                                    *)
Init ==
    /\ stripe \in [Sub -> [status : {"none"}, plan : Sold]]
    /\ events = << >>
    /\ page = [s \in Sub |-> NoPlan]
    /\ org = [plan |-> "free", sub |-> NoSub, status |-> "none", by |-> "signup"]
    /\ rows = {[id |-> 1, plan |-> "free", sub |-> NoSub]}
    /\ task = [w \in Worker |-> Idle]
    /\ spent = [changes |-> 0, requests |-> 0, crashes |-> 0]
    /\ hasty = FALSE
    /\ granted = NoPlan

Busy(w) == task[w].stage # "idle"
At(w, stage) == task[w].stage = stage
GoTo(w, stage) == task' = [task EXCEPT ![w].stage = stage]
End(w) == task' = [task EXCEPT ![w] = Idle]

Live(s) == stripe[s].status \in {"active", "past_due"}
LiveSubs == {s \in Sub : Live(s)}

(* Given up, but not ended: Stripe may still cancel it, and say so.         *)
Standing(s) == Live(s) \/ stripe[s].status = "unpaid"

Still == \A w \in Worker : ~Busy(w)
Quiet == events = << >> /\ Still

(* Where people are patient by the bound, they pay once no handler runs,    *)
(* and start something new once all events are handled too.                 *)
MayPay == Impatient \/ Still
MayBegin == Impatient \/ Quiet

(* Whoever begins something earlier than that is hasty.                     *)
Begins == hasty' = (hasty \/ ~Quiet)

-----------------------------------------------------------------------------
(* Stripe.  Every change of a subscription becomes an event.                *)

Emitted(kind, s, after) ==
    Append(events, [kind |-> kind, sub |-> s, status |-> after.status,
                    plan |-> after.plan])

(* Subscription.cancel; of a subscription that is not live it fails, and    *)
(* every caller logs that and goes on.                                      *)
CancelOnStripe(s) ==
    IF s \in Sub /\ Standing(s)
      THEN LET after == [stripe[s] EXCEPT !.status = "canceled"] IN
           /\ stripe' = [stripe EXCEPT ![s] = after]
           /\ events' = Emitted("deleted", s, after)
      ELSE UNCHANGED <<stripe, events>>

(* The customer completes the checkout and is sent to the success page.     *)
CustomerPays(s) ==
    /\ stripe[s].status = "open"
    /\ MayPay
    /\ LET after == [stripe[s] EXCEPT !.status = "active"] IN
       /\ stripe' = [stripe EXCEPT ![s] = after]
       /\ events' = Emitted("completed", s, after)
                      \o <<[kind |-> "paid", sub |-> s, status |-> "active",
                            plan |-> after.plan]>>
    /\ page' = [page EXCEPT ![s] = org.plan]
    /\ hasty' = (hasty \/ ~Quiet \/ \E q \in Sub : Standing(q))
    /\ granted' = IF granted = NoPlan THEN NoPlan ELSE "void"
    /\ UNCHANGED <<org, rows, task, spent>>

(* Renewals that fail, recover or are given up, and cancellations that are  *)
(* not asked for through this server.  A renewal is due long after the      *)
(* subscription's earlier events were delivered and open sessions expired.  *)
BillingMoves(s, to) ==
    /\ MayBegin
    /\ Begins
    /\ spent.changes < MaxChanges
    /\ to # "canceled" =>
         /\ \A i \in DOMAIN events : events[i].sub # s
         /\ \A q \in Sub : stripe[q].status # "open"
    /\ LET after == [stripe[s] EXCEPT !.status = to] IN
       /\ \/ /\ stripe[s].status = "active"
             /\ to = "past_due"
             /\ events' = Emitted("failed", s, after)
                            \o <<[kind |-> "updated", sub |-> s,
                                  status |-> to, plan |-> after.plan]>>
          \/ /\ stripe[s].status = "past_due"
             /\ to = "active"
             /\ events' = Emitted("updated", s, after)
                            \o <<[kind |-> "paid", sub |-> s,
                                  status |-> to, plan |-> after.plan]>>
          \/ /\ stripe[s].status = "past_due"
             /\ to = "unpaid"
             /\ events' = Emitted("updated", s, after)
          \/ /\ Standing(s)
             /\ to = "canceled"
             /\ events' = Emitted("deleted", s, after)
       /\ stripe' = [stripe EXCEPT ![s] = after]
    /\ spent' = [spent EXCEPT !.changes = @ + 1]
    /\ UNCHANGED <<page, org, rows, task, granted>>

-----------------------------------------------------------------------------
(* Requests.                                                                *)

Begin(w, op, stage, s, p, status) ==
    /\ ~Busy(w)
    /\ task' = [task EXCEPT ![w] =
                  [Idle EXCEPT !.op = op, !.stage = stage, !.sub = s,
                               !.plan = p, !.status = status]]

(* Somebody makes a request.                                                *)
Ask == /\ spent.requests < MaxRequests
       /\ spent' = [spent EXCEPT !.requests = @ + 1]

(* create_checkout_session.  Its guard on Stripe's side needs the customer  *)
(* id, which get_org_subscription_guard does not return: it never runs.     *)
MayCheckOut(p) ==
    org.status \in ACTIVE_BILLING_STATES =>
        /\ org.plan # p
        /\ org.status # "past_due"
        /\ org.sub = NoSub

Checkout(s, p) ==
    /\ stripe[s].status = "none"
    /\ MayCheckOut(p)
    /\ Ask
    /\ stripe' = [stripe EXCEPT ![s] = [status |-> "open", plan |-> p]]
    /\ UNCHANGED <<events, page, org, rows, task, hasty, granted>>

(* cancel_subscription with immediate effect, and modify_subscription.      *)
Cancel(w) ==
    /\ Ask /\ MayBegin /\ Begins
    /\ org.sub # NoSub
    /\ Begin(w, "cancel", "check", org.sub, "free", "canceled")
    /\ UNCHANGED <<stripe, events, page, org, rows, granted>>

Modify(w, p) ==
    /\ Ask /\ MayBegin /\ Begins
    /\ org.sub # NoSub
    /\ org.status # "past_due"
    /\ org.plan # p
    /\ Begin(w, "modify", "modify", org.sub, p, "none")
    /\ UNCHANGED <<stripe, events, page, org, rows, granted>>

AdminSetPlan(w, p) ==
    /\ Admins
    /\ Ask /\ MayBegin /\ Begins
    /\ Begin(w, "admin", "guard", NoSub, p, "manual")
    /\ granted' = "begun"
    /\ UNCHANGED <<stripe, events, page, org, rows>>

(* The success page polls the billing status and is content once the plan   *)
(* has changed or is active; if it never sees that, it asks to verify.      *)
Landed(s) == org.plan # page[s] \/ org.status = "active"

PageSees(s) ==
    /\ page[s] # NoPlan
    /\ Landed(s)
    /\ page' = [page EXCEPT ![s] = NoPlan]
    /\ UNCHANGED <<stripe, events, org, rows, task, spent, hasty, granted>>

PageVerifies(w, s) ==
    /\ page[s] # NoPlan
    /\ ~Landed(s)
    /\ page' = [page EXCEPT ![s] = NoPlan]
    /\ Begin(w, "verify", "verify", s, stripe[s].plan, "none")
    /\ UNCHANGED <<stripe, events, org, rows, spent, hasty, granted>>

(* run_billing_sweep has found the organization past due.                   *)
Sweep(w) ==
    /\ org.status = "past_due"
    /\ Begin(w, "sweep", "stale", org.sub, "free", "none")
    /\ UNCHANGED <<stripe, events, page, org, rows, spent, hasty, granted>>

(* A webhook: the oldest event is delivered, one at a time.  A handler that *)
(* dies is delivered again (StripeEvents).                                  *)
FirstStage == [completed |-> "guard", updated |-> "summary",
               deleted |-> "deprovision", paid |-> "org", failed |-> "org"]

Deliver(w) ==
    /\ ~Busy(w)
    /\ events # << >>
    /\ \A v \in Worker : task[v].event = << >>
    /\ LET e == Head(events) IN
       task' = [task EXCEPT ![w] =
                  [Idle EXCEPT !.op = e.kind, !.stage = FirstStage[e.kind],
                               !.sub = e.sub, !.plan = e.plan,
                               !.status = e.status, !.event = <<e>>]]
    /\ events' = Tail(events)
    /\ UNCHANGED <<stripe, page, org, rows, spent, hasty, granted>>

-----------------------------------------------------------------------------
(* provision_commercial_plan and what surrounds it.                         *)

(* A subscription other than the one paid for is cancelled, whatever the    *)
(* checkout or the administrator will put in its place.                     *)
Guard(w) ==
    /\ At(w, "guard")
    /\ task' = [task EXCEPT ![w].old = org.sub, ![w].stage = "cancel_old"]
    /\ UNCHANGED <<stripe, events, page, org, rows, spent, hasty, granted>>

(* Mutant: only a checkout cancels the subscription before it. *)
CancelOld_CheckoutOnly(w) ==
    /\ At(w, "cancel_old")
    /\ IF task[w].old = task[w].sub \/ task[w].op = "admin"
         THEN UNCHANGED <<stripe, events>>
         ELSE CancelOnStripe(task[w].old)
    /\ GoTo(w, IF task[w].op = "completed" THEN "retrieve" ELSE "list")
    /\ UNCHANGED <<page, org, rows, spent, hasty, granted>>

CancelOld(w) ==
    /\ At(w, "cancel_old")
    /\ IF task[w].old = task[w].sub
         THEN UNCHANGED <<stripe, events>>
         ELSE CancelOnStripe(task[w].old)
    /\ GoTo(w, IF task[w].op = "completed" THEN "retrieve" ELSE "list")
    /\ UNCHANGED <<page, org, rows, spent, hasty, granted>>

(* _provision_from_checkout_session asks Stripe for the status, and takes   *)
(* it as it is.                                                             *)
Retrieve(w) ==
    /\ At(w, "retrieve")
    /\ task' = [task EXCEPT ![w].status = stripe[task[w].sub].status,
                            ![w].stage = "list"]
    /\ UNCHANGED <<stripe, events, page, org, rows, spent, hasty, granted>>

(* Mutant: the rows of the plan before are not looked up. *)
ListRows_None(w) ==
    /\ At(w, "list")
    /\ GoTo(w, "clear")
    /\ UNCHANGED <<stripe, events, page, org, rows, spent, hasty, granted>>

ListRows(w) ==
    /\ At(w, "list")
    /\ task' = [task EXCEPT ![w].list = {r.id : r \in rows}, ![w].stage = "clear"]
    /\ UNCHANGED <<stripe, events, page, org, rows, spent, hasty, granted>>

ClearRow(w) ==
    /\ At(w, "clear")
    /\ \E i \in task[w].list :
          /\ rows' = {r \in rows : r.id # i}
          /\ task' = [task EXCEPT ![w].list = @ \ {i}]
    /\ UNCHANGED <<stripe, events, page, org, spent, hasty, granted>>

(* Mutant: rows numbered by how many there are. *)
NewId_Counted == Cardinality(rows) + 1

(* An id no row has, and no handler has read.                               *)
NewId == LET used == {r.id : r \in rows} \cup UNION {task[w].list : w \in Worker}
         IN CHOOSE i \in 1 .. Cardinality(used) + 1 : i \notin used

(* The subscription the new plan is linked to, if any.                      *)
Link(t) == IF t.op \in {"admin", "sweep"} THEN NoSub ELSE t.sub

CreateRow(w) ==
    /\ At(w, "clear")
    /\ task[w].list = {}
    /\ rows' = rows \cup {[id |-> NewId, plan |-> task[w].plan,
                           sub |-> Link(task[w])]}
    /\ GoTo(w, "write")
    /\ UNCHANGED <<stripe, events, page, org, spent, hasty, granted>>

AssignedBy(op) == CASE op = "admin" -> "admin"
                    [] op = "sweep" -> "billing_sweep"
                    [] OTHER -> "stripe"

(* A provisioning without a subscription leaves the stored one.             *)
WritePlan(w) ==
    /\ At(w, "write")
    /\ LET t == task[w] IN
       /\ org' = [plan |-> t.plan, status |-> t.status, by |-> AssignedBy(t.op),
                  sub |-> IF Link(t) = NoSub THEN org.sub ELSE Link(t)]
       /\ CASE t.op = "completed" -> GoTo(w, "sweep")
            [] t.op = "admin" -> GoTo(w, "unlink")
            [] OTHER -> End(w)
    /\ UNCHANGED <<stripe, events, page, rows, spent, hasty, granted>>

(* Mutant: no sweep over the customer's other subscriptions. *)
SweepOrphans_None(w) ==
    /\ At(w, "sweep")
    /\ GoTo(w, "sweep_cancel")
    /\ UNCHANGED <<stripe, events, page, org, rows, spent, hasty, granted>>

(* _cancel_orphan_subs_for_customer: the other subscriptions that Stripe    *)
(* lists as active, one after the other.                                    *)
SweepOrphans(w) ==
    /\ At(w, "sweep")
    /\ task' = [task EXCEPT ![w].stage = "sweep_cancel",
                  ![w].subs = {s \in Sub \ {task[w].sub} :
                                 stripe[s].status = "active"}]
    /\ UNCHANGED <<stripe, events, page, org, rows, spent, hasty, granted>>

CancelOrphan(w) ==
    /\ At(w, "sweep_cancel")
    /\ \/ /\ task[w].subs = {}
          /\ End(w)
          /\ UNCHANGED <<stripe, events>>
       \/ \E s \in task[w].subs :
            /\ CancelOnStripe(s)
            /\ task' = [task EXCEPT ![w].subs = @ \ {s}]
    /\ UNCHANGED <<page, org, rows, spent, hasty, granted>>

Unlink(w) ==
    /\ At(w, "unlink")
    /\ org' = [org EXCEPT !.sub = NoSub]
    /\ granted' = IF granted = "begun" THEN task[w].plan ELSE granted
    /\ End(w)
    /\ UNCHANGED <<stripe, events, page, rows, spent, hasty>>

-----------------------------------------------------------------------------
(* deprovision_stripe_subscription.                                         *)

Reverted == org.plan = "free" /\ org.sub = NoSub

Deprovision(w) ==
    /\ At(w, "deprovision")
    /\ IF Reverted THEN End(w) ELSE GoTo(w, "cancel_rows")
    /\ UNCHANGED <<stripe, events, page, org, rows, spent, hasty, granted>>

CancelRows(w) ==
    /\ At(w, "cancel_rows")
    /\ rows' = {r \in rows : r.sub # task[w].sub}
    /\ GoTo(w, "reset")
    /\ UNCHANGED <<stripe, events, page, org, spent, hasty, granted>>

Reset(w) ==
    /\ At(w, "reset")
    /\ org' = [plan |-> "free", sub |-> NoSub, status |-> "canceled", by |-> "stripe"]
    /\ GoTo(w, "free_row")
    /\ UNCHANGED <<stripe, events, page, rows, spent, hasty, granted>>

FreeRow(w) ==
    /\ At(w, "free_row")
    /\ rows' = rows \cup {[id |-> NewId, plan |-> "free", sub |-> NoSub]}
    /\ End(w)
    /\ UNCHANGED <<stripe, events, page, org, spent, hasty, granted>>

-----------------------------------------------------------------------------
(* The other handlers.  The guards of updated and deleted against plans an  *)
(* administrator assigned test a field that get_org_subscription_guard does *)
(* not return: they never hold.                                             *)

(* Mutant: an ended subscription handled like any change of its status. *)
Summary_NoEnd(w) ==
    /\ At(w, "summary")
    /\ GoTo(w, IF task[w].plan # org.plan THEN "list" ELSE "metadata")
    /\ UNCHANGED <<stripe, events, page, org, rows, spent, hasty, granted>>

Summary(w) ==
    /\ At(w, "summary")
    /\ CASE task[w].status \in TERMINAL_BILLING_STATUSES -> GoTo(w, "deprovision")
         [] task[w].status \notin TERMINAL_BILLING_STATUSES
              /\ task[w].plan # org.plan -> GoTo(w, "list")
         [] OTHER -> GoTo(w, "metadata")
    /\ UNCHANGED <<stripe, events, page, org, rows, spent, hasty, granted>>

(* A status, and for a webhook with it that Stripe governs the plan.        *)
WriteStatus(w) ==
    /\ At(w, "metadata")
    /\ org' = [org EXCEPT !.status = task[w].status,
                          !.by = IF task[w].op = "sweep" THEN @ ELSE "stripe"]
    /\ End(w)
    /\ UNCHANGED <<stripe, events, page, rows, spent, hasty, granted>>

(* invoice.paid and invoice.payment_failed read the whole org.              *)
Invoice(w) ==
    /\ At(w, "org")
    /\ IF org.by = "admin" THEN End(w) ELSE GoTo(w, "metadata")
    /\ UNCHANGED <<stripe, events, page, org, rows, spent, hasty, granted>>

(* verify_checkout_session.                                                 *)
Verify(w) ==
    /\ At(w, "verify")
    /\ IF /\ org.sub = task[w].sub
          /\ org.plan = task[w].plan
          /\ org.status \in ACTIVE_BILLING_STATES
         THEN End(w)
         ELSE GoTo(w, "check")
    /\ UNCHANGED <<stripe, events, page, org, rows, spent, hasty, granted>>

Check(w) ==
    /\ At(w, "check")
    /\ LET status == stripe[task[w].sub].status IN
       CASE task[w].op = "verify" /\ ~Live(task[w].sub) -> End(w)
         [] task[w].op = "verify" /\ Live(task[w].sub) ->
              task' = [task EXCEPT ![w].status = status, ![w].stage = "list"]
         [] task[w].op = "cancel" ->
              GoTo(w, IF status = "canceled" THEN "deprovision" ELSE "hard_cancel")
    /\ UNCHANGED <<stripe, events, page, org, rows, spent, hasty, granted>>

HardCancel(w) ==
    /\ At(w, "hard_cancel")
    /\ CancelOnStripe(task[w].sub)
    /\ IF stripe[task[w].sub].status = "canceled" THEN End(w) ELSE GoTo(w, "deprovision")
    /\ UNCHANGED <<page, org, rows, spent, hasty, granted>>

(* Stripe refuses to modify a subscription that has ended.                  *)
ModifyOnStripe(w) ==
    /\ At(w, "modify")
    /\ LET s == task[w].sub
           after == [stripe[s] EXCEPT !.plan = task[w].plan] IN
       IF stripe[s].status = "canceled"
         THEN End(w) /\ UNCHANGED <<stripe, events>>
         ELSE /\ stripe' = [stripe EXCEPT ![s] = after]
              /\ events' = Emitted("updated", s, after)
              /\ task' = [task EXCEPT ![w].status = after.status, ![w].stage = "list"]
    /\ UNCHANGED <<page, org, rows, spent, hasty, granted>>

(* Mutant: a stale organization is given up without asking Stripe. *)
SyncStale_GivesUp(w) ==
    /\ At(w, "stale")
    /\ GoTo(w, IF task[w].sub = NoSub THEN "list" ELSE "deprovision")
    /\ UNCHANGED <<stripe, events, page, org, rows, spent, hasty, granted>>

(* _sync_stale_past_due of the org it has read.                             *)
SyncStale(w) ==
    /\ At(w, "stale")
    /\ LET s == task[w].sub IN
       CASE s = NoSub -> GoTo(w, "list")
         [] s # NoSub /\ stripe[s].status = "active" ->
              task' = [task EXCEPT ![w].status = "active", ![w].stage = "metadata"]
         [] s # NoSub /\ stripe[s].status \in TERMINAL_BILLING_STATUSES ->
              GoTo(w, "deprovision")
         [] OTHER -> End(w)
    /\ UNCHANGED <<stripe, events, page, org, rows, spent, hasty, granted>>

(* A restart ends a handler; Stripe delivers its event again.               *)
Crash(w) ==
    /\ Busy(w)
    /\ spent.crashes < MaxCrashes
    /\ spent' = [spent EXCEPT !.crashes = @ + 1]
    /\ events' = task[w].event \o events
    /\ End(w)
    /\ UNCHANGED <<stripe, page, org, rows, hasty, granted>>

-----------------------------------------------------------------------------
Provisioning(w) ==
    \/ Guard(w) \/ CancelOld(w) \/ Retrieve(w) \/ ListRows(w) \/ ClearRow(w)
    \/ CreateRow(w) \/ WritePlan(w) \/ SweepOrphans(w) \/ CancelOrphan(w) \/ Unlink(w)

Deprovisioning(w) ==
    Deprovision(w) \/ CancelRows(w) \/ Reset(w) \/ FreeRow(w)

Step(w) ==
    \/ Provisioning(w) \/ Deprovisioning(w)
    \/ Summary(w) \/ WriteStatus(w) \/ Invoice(w) \/ Verify(w) \/ Check(w)
    \/ HardCancel(w) \/ ModifyOnStripe(w) \/ SyncStale(w)

People ==
    \/ \E s \in Sub : CustomerPays(s) \/ PageSees(s)
    \/ \E s \in Sub, p \in Sold : Checkout(s, p)
    \/ \E w \in Worker : Cancel(w)
    \/ \E w \in Worker, s \in Sub : PageVerifies(w, s)
    \/ \E w \in Worker, p \in Sold : Modify(w, p)
    \/ \E w \in Worker, p \in Plan : AdminSetPlan(w, p)

Next ==
    \/ People
    \/ \E s \in Sub, to \in SubStatus : BillingMoves(s, to)
    \/ \E w \in Worker : Deliver(w) \/ Sweep(w) \/ Step(w) \/ Crash(w)

Spec == Init /\ [][Next]_vars

-----------------------------------------------------------------------------
(* Properties.                                                              *)

(* A paid plan is paid for: when all events are handled, an organization on *)
(* a plan that Stripe governs has a live subscription, of that plan, unless *)
(* a payment, a request or a renewal met events or handlers under way.      *)
PlanIsPaid ==
    (Quiet /\ ~hasty /\ org.by = "stripe" /\ org.plan # "free") =>
        /\ org.sub # NoSub
        /\ Live(org.sub)
        /\ stripe[org.sub].plan = org.plan

(* Who pays is served: when all events are handled, the subscription a      *)
(* customer pays for is the one the organization has, with its plan and its *)
(* status, unless something was hasty or a checkout was paid twice over.    *)
LiveSubIsServed ==
    (Quiet /\ ~hasty) =>
        \A s \in LiveSubs : /\ org.sub = s
                            /\ org.plan = stripe[s].plan
                            /\ org.status = stripe[s].status

(* Nobody pays twice: when all events are handled, at most one subscription *)
(* is live, however many checkouts were paid, in whatever order, if no      *)
(* renewal has failed; the orphans looked for are those listed as active.   *)
OneLiveSub == (Quiet /\ spent.changes = 0) => Cardinality(LiveSubs) <= 1

(* The rows, which open the modules, are those of the plan, and without a   *)
(* restart there is one, unless something was hasty.                        *)
RowsMatchPlan ==
    (Quiet /\ ~hasty /\ granted = NoPlan) =>
        /\ \A r \in rows : r.plan = org.plan
        /\ spent.crashes = 0 => rows # {}

(* An administrator's plan ends the billing: once it is assigned, no        *)
(* subscription is live until somebody buys one, unless something was hasty.*)
GrantEndsBilling ==
    (Quiet /\ ~hasty /\ granted \in Plan) => LiveSubs = {}

(* A plan assigned by an administrator stands until somebody buys another   *)
(* (stripe_service: "Guard: skip if plan was manually assigned by admin").  *)
AdminPlanStands == (Quiet /\ granted \in Plan) => org.plan = granted

=============================================================================
