------------------------ MODULE PlanSubscriptionProofs ------------------------
(***************************************************************************)
(* Proofs about PlanSubscription, for any number of subscriptions, plans,  *)
(* handlers, requests, renewals and restarts.                              *)
(*                                                                         *)
(* As long as nothing was hasty, a subscription is bought when none        *)
(* stands, so at most one does, and there are two sorts of state.  In      *)
(* Alive(c) the subscription c is live: every event and every handler is   *)
(* about c as it is on Stripe, and the organization has it, or something   *)
(* that a restart does not lose will see to that.  In Dead none is live:   *)
(* what is still on its way takes the plan away, and it is on its way as   *)
(* long as the organization has a plan or a subscription from Stripe.      *)
(***************************************************************************)
EXTENDS PlanSubscription, FiniteSetTheorems, FunctionTheorems, TLAPS

-----------------------------------------------------------------------------
(* The tasks a handler may have.                                            *)

Ended == {"deprovision", "cancel_rows", "reset", "free_row"}
Provided == {"list", "clear", "write"}

StagesOf(op) ==
    CASE op = "completed" -> {"guard", "cancel_old", "retrieve", "sweep",
                              "sweep_cancel"} \cup Provided
      [] op = "updated" -> {"summary", "metadata"} \cup Provided \cup Ended
      [] op = "deleted" -> Ended
      [] op = "paid" -> {"org", "metadata"}
      [] op = "failed" -> {"org", "metadata"}
      [] op = "verify" -> {"verify", "check"} \cup Provided
      [] op = "cancel" -> {"check", "hard_cancel"} \cup Ended
      [] op = "modify" -> {"modify"} \cup Provided
      [] op = "admin" -> {"guard", "cancel_old", "unlink"} \cup Provided
      [] op = "sweep" -> {"stale", "metadata"} \cup Provided \cup Ended

(* A webhook keeps its event, for Stripe to deliver it again.               *)
Fits(t) ==
    /\ t.stage \in StagesOf(t.op)
    /\ t.op \notin {"admin", "sweep"} => t.sub \in Sub
    /\ t.op = "modify" => t.plan \in Sold
    /\ t.op = "admin" => t.sub = NoSub /\ t.status = "manual"
    /\ IF t.op \in EventKind
         THEN \E e \in Event : t.event = <<e>> /\ e.kind = t.op /\ e.sub = t.sub
         ELSE t.event = << >>

World ==
    /\ stripe \in [Sub -> [status : SubStatus, plan : Sold]]
    /\ events \in Seq(Event)
    /\ page \in [Sub -> Plan \cup {NoPlan}]
    /\ org \in [plan : Plan, sub : Sub \cup {NoSub},
                status : {"none", "manual"} \cup SubStatus,
                by : {"signup", "stripe", "admin", "billing_sweep"}]
    /\ rows \subseteq Row /\ IsFiniteSet(rows)
    /\ \A r, q \in rows : r.id = q.id => r = q
    /\ spent \in [changes : 0 .. MaxChanges, requests : 0 .. MaxRequests,
                  crashes : 0 .. MaxCrashes]
    /\ hasty \in BOOLEAN
    /\ granted \in Grant

WellFormed(t) ==
    /\ t \in Task
    /\ IsFiniteSet(t.list)
    /\ t.stage = "idle" => t = Idle
    /\ t.stage # "idle" => Fits(t)

Typed ==
    /\ World
    /\ task \in [Worker -> Task]
    /\ \A w \in Worker : WellFormed(task[w])

-----------------------------------------------------------------------------
(* At most one subscription: two that are active will be found by a sweep.  *)

ToSweep ==
    \/ \E i \in DOMAIN events : events[i].kind = "completed"
    \/ \E w \in Worker : /\ Busy(w)
                         /\ task[w].op = "completed"
                         /\ task[w].stage # "sweep_cancel"

Swept(s) == \E w \in Worker : At(w, "sweep_cancel") /\ s \in task[w].subs

Orphans ==
    spent.changes = 0 =>
        /\ \A s \in Sub : stripe[s].status \in {"none", "open", "active", "canceled"}
        /\ \A s, q \in Sub :
              stripe[s].status = "active" /\ stripe[q].status = "active" /\ s # q
                => ToSweep \/ Swept(s) \/ Swept(q)

-----------------------------------------------------------------------------
(* One request of people at a time; what an administrator has touched; a    *)
(* row, or a handler that will make one.                                    *)

Asks(t) == t.stage # "idle" /\ t.op \in {"admin", "cancel", "modify"}

OneAsks == \A v, w \in Worker : Asks(task[v]) /\ Asks(task[w]) => v = w

Administers(t) == t.stage # "idle" /\ t.op = "admin"

NoAdmin ==
    granted = NoPlan =>
        org.by # "admin" /\ \A w \in Worker : ~ Administers(task[w])

MakesRow(t) == t.stage \in {"clear", "reset", "free_row"}

HasRow ==
    spent.crashes = 0 => rows # {} \/ \E w \in Worker : MakesRow(task[w])

OneStands == \A s, q \in Sub : Standing(s) /\ Standing(q) => s = q

-----------------------------------------------------------------------------
(* While no subscription is live.                                           *)

Ending(e) ==
    \/ e.kind = "deleted"
    \/ e.kind = "updated" /\ e.status \in TERMINAL_BILLING_STATUSES

(* A handler t that runs while o is the organization.                       *)
DeadTask(t, o) ==
    \/ /\ t.op \in {"deleted", "updated"}
       /\ t.stage \in {"summary"} \cup Ended
       /\ t.stage = "summary" => t.status \in TERMINAL_BILLING_STATUSES
       /\ \A i \in DOMAIN t.event : Ending(t.event[i])
    \/ t.op = "cancel" /\ t.stage \in Ended
    \/ t.op = "verify" /\ t.stage \in {"verify", "check"}
    \/ t.op = "sweep" /\ t.stage \in {"stale"} \cup Ended /\ t.sub # NoSub
    \/ /\ t.op = "admin"
       /\ t.stage = "guard" => o.sub = NoSub
       /\ t.stage = "cancel_old" => t.old = NoSub
       /\ t.stage = "unlink" => o.status # "past_due"

(* An event that will end the plan, delivered or not.                       *)
Owing(t) ==
    /\ t.op \in {"deleted", "updated"}
    /\ t.stage \in {"summary", "deprovision", "cancel_rows", "reset"}

Owed == events # << >> \/ \E w \in Worker : Owing(task[w])

Entitled(o) == o.sub # NoSub \/ (o.by # "admin" /\ o.plan # "free")

(* What is ended is what the organization has.                              *)
Ends(t) == t.stage \in {"summary", "stale"} \cup Ended

EndsOrg ==
    org.sub # NoSub =>
        /\ \A i \in DOMAIN events : events[i].sub = org.sub
        /\ \A w \in Worker : Ends(task[w]) => task[w].sub = org.sub

DeadRows ==
    /\ \A r \in rows : r.plan # "free" => org.sub # NoSub /\ r.sub = org.sub
    /\ (\E w \in Worker : task[w].stage = "reset") => \A r \in rows : r.plan = "free"

Dead ==
    /\ LiveSubs = {}
    /\ \A i \in DOMAIN events : Ending(events[i])
    /\ \A w \in Worker : task[w].stage # "idle" => DeadTask(task[w], org)
    /\ Entitled(org) => Owed
    /\ org.status = "past_due" => org.sub # NoSub
    /\ EndsOrg
    /\ granted = NoPlan => DeadRows

-----------------------------------------------------------------------------
(* While a subscription c is live, and is x on Stripe.                      *)

Has(o, c, x) ==
    o.plan = x.plan /\ o.sub = c /\ o.status = x.status /\ o.by = "stripe"

About(e, c, x) ==
    e.kind # "deleted" /\ e.sub = c /\ e.plan = x.plan /\ e.status = x.status

(* What a handler is about to write is what is on Stripe.                   *)
True(t, c, x) == t.sub = c /\ t.plan = x.plan /\ t.status = x.status

AliveTask(t, c, o, x) ==
    /\ \A i \in DOMAIN t.event : About(t.event[i], c, x)
    /\ t.stage \notin Ended
    /\ t.stage \in Provided => True(t, c, x)
    /\ t.op = "completed" =>
          t.sub = c /\ t.plan = x.plan /\ t.old \in {NoSub, c} /\ t.subs = {}
    /\ t.op \in {"updated", "paid", "failed"} => True(t, c, x)
    /\ t.op = "updated" /\ t.stage = "metadata" => o.plan = x.plan
    /\ t.op = "verify" /\ t.sub = c => t.plan = x.plan
    /\ t.op = "sweep" =>
          /\ t.sub = c /\ t.stage \in {"stale", "metadata"}
          /\ t.stage = "metadata" => t.status = x.status
    /\ t.op \in {"modify", "cancel"} => t.sub = c
    /\ t.op = "admin" => t.stage \in {"guard", "cancel_old"}
    /\ t.op = "admin" /\ t.stage = "cancel_old" => t.old = c

(* The organization will have c, and will have it as it is.                 *)
Completing(t) ==
    t.op = "completed" /\ t.stage \notin {"idle", "sweep", "sweep_cancel"}

ToComplete ==
    \/ \E i \in DOMAIN events : events[i].kind = "completed"
    \/ \E w \in Worker : Completing(task[w])

Updating(t) == t.op = "updated" /\ t.stage # "idle"

ToUpdate ==
    \/ \E i \in DOMAIN events : events[i].kind = "updated"
    \/ \E w \in Worker : Updating(task[w])

AliveOrg(c) ==
    /\ Has(org, c, stripe[c]) \/ ToComplete \/ (ToUpdate /\ org.by = "stripe")
    /\ org.sub \in {NoSub, c}
    /\ ToUpdate \/ "past_due" \in {org.status, stripe[c].status} => org.sub = c

Others(c, x) == {r \in rows : r.plan # x.plan \/ r.sub # c}

AliveRows(c) ==
    /\ org.sub = c /\ org.plan = stripe[c].plan => Others(c, stripe[c]) = {}
    /\ \A w \in Worker : task[w].stage = "clear" =>
          \A r \in Others(c, stripe[c]) : r.id \in task[w].list
    /\ \A w \in Worker : task[w].stage = "write" => Others(c, stripe[c]) = {}

(* Before a request has reached Stripe, the state is the one it was made    *)
(* in, with the handlers that may have been begun then.                     *)
Asked(t) == Asks(t) /\ t.stage \notin Provided

Meets(t, c, x) ==
    /\ t.op \notin EventKind
    /\ t.op = "sweep" => t.stage = "stale" /\ x.status = "past_due"
    /\ t.op = "verify" /\ t.sub = c => t.stage = "verify" /\ x.status = "past_due"

AliveAsked(c) ==
    \A w \in Worker : Asked(task[w]) =>
        /\ Has(org, c, stripe[c])
        /\ events = << >>
        /\ task[w].op = "modify" => stripe[c].status = "active"
        /\ \A v \in Worker : task[v].stage # "idle" => Meets(task[v], c, stripe[c])

Alive(c) ==
    /\ Live(c)
    /\ \A i \in DOMAIN events : About(events[i], c, stripe[c])
    /\ \A w \in Worker : task[w].stage # "idle" => AliveTask(task[w], c, org, stripe[c])
    /\ AliveOrg(c)
    /\ AliveRows(c)
    /\ AliveAsked(c)
    /\ granted \notin Plan

Calm == ~hasty => OneAsks /\ OneStands /\ (Dead \/ \E c \in Sub : Alive(c))

-----------------------------------------------------------------------------
(* The types.                                                               *)

Only(w, t) == task' = [task EXCEPT ![w] = t]

LEMMA OnlyIs ==
    ASSUME Typed, NEW w \in Worker, NEW t, Only(w, t)
    PROVE  /\ task'[w] = t
           /\ \A v \in Worker : v # w => task'[v] = task[v]
           /\ DOMAIN task' = Worker
BY DEF Typed, Only

(* A handler moves on to another stage of its operation.                    *)
LEMMA Staged ==
    ASSUME NEW t \in Task, NEW x \in Stage
    PROVE  LET u == [t EXCEPT !.stage = x]
           IN  /\ u \in Task /\ u.stage = x
               /\ u.op = t.op /\ u.sub = t.sub /\ u.plan = t.plan
               /\ u.status = t.status /\ u.old = t.old /\ u.list = t.list
               /\ u.subs = t.subs /\ u.event = t.event
BY DEF Task

LEMMA GoToIs ==
    ASSUME Typed, NEW w \in Worker, NEW x, GoTo(w, x)
    PROVE  Only(w, [task[w] EXCEPT !.stage = x])
BY DEF Typed, GoTo, Only

LEMMA EndIs ==
    ASSUME NEW w \in Worker, End(w)
    PROVE  Only(w, Idle)
BY DEF End, Only

LEMMA IdleFormed == WellFormed(Idle)
<1>1. Idle \in Task
  BY DEF Idle, Task, Operation, Stage, Plan, SubStatus
<1>2. Idle.list = {} /\ Idle.stage = "idle"
  BY DEF Idle
<1> QED BY <1>1, <1>2, FS_EmptySet DEF WellFormed

LEMMA GoToFormed ==
    ASSUME NEW t, WellFormed(t), t.stage # "idle",
           NEW x \in StagesOf(t.op), x \in Stage \ {"idle"}
    PROVE  WellFormed([t EXCEPT !.stage = x])
BY Staged DEF WellFormed, Fits

LEMMA TypedNext ==
    ASSUME Typed, World', NEW w \in Worker, NEW t, Only(w, t), WellFormed(t)
    PROVE  Typed'
<1>1. t \in Task
  BY DEF WellFormed
<1>2. task' \in [Worker -> Task]
  BY <1>1 DEF Typed, Only
<1>3. ASSUME NEW v \in Worker PROVE WellFormed(task'[v])
  BY OnlyIs DEF Typed
<1> QED BY <1>2, <1>3 DEF Typed

(* A handler is begun.                                                      *)
LEMMA BegunFormed ==
    ASSUME NEW t \in Task, t.list = {}, t.stage # "idle", Fits(t)
    PROVE  WellFormed(t)
<1>1. IsFiniteSet(t.list)
  BY FS_EmptySet
<1> QED BY <1>1 DEF WellFormed

Begun(op, x, s, p, st) ==
    [Idle EXCEPT !.op = op, !.stage = x, !.sub = s, !.plan = p, !.status = st]

LEMMA BegunIs ==
    ASSUME NEW op \in Operation, NEW x \in Stage, NEW s \in Sub \cup {NoSub},
           NEW p \in Plan, NEW st \in SubStatus \cup {"manual"}
    PROVE  LET t == Begun(op, x, s, p, st)
           IN  /\ t \in Task /\ t.op = op /\ t.stage = x /\ t.sub = s
               /\ t.plan = p /\ t.status = st /\ t.old = NoSub
               /\ t.list = {} /\ t.subs = {} /\ t.event = << >>
<1>1. /\ Idle \in Task /\ Idle.old = NoSub
      /\ Idle.list = {} /\ Idle.subs = {} /\ Idle.event = << >>
  BY IdleFormed DEF WellFormed, Idle
<1>2. PICK i : i = Idle
  OBVIOUS
<1> QED BY <1>1, <1>2 DEF Task, Begun

LEMMA EmittedTyped ==
    ASSUME World, NEW kind \in EventKind, NEW s \in Sub,
           NEW after \in [status : SubStatus, plan : Sold]
    PROVE  Emitted(kind, s, after) \in Seq(Event)
<1>1. [kind |-> kind, sub |-> s, status |-> after.status, plan |-> after.plan] \in Event
  BY DEF Event
<1> QED BY <1>1 DEF World, Emitted

LEMMA CancelTyped ==
    ASSUME World, NEW s, CancelOnStripe(s)
    PROVE  /\ stripe' \in [Sub -> [status : SubStatus, plan : Sold]]
           /\ events' \in Seq(Event)
<1>1. CASE s \in Sub /\ Standing(s)
  <2> DEFINE after == [stripe[s] EXCEPT !.status = "canceled"]
  <2>1. after \in [status : SubStatus, plan : Sold]
    BY <1>1 DEF World, SubStatus
  <2>2. stripe' = [stripe EXCEPT ![s] = after] /\ events' = Emitted("deleted", s, after)
    BY <1>1 DEF CancelOnStripe
  <2> HIDE DEF after
  <2>3. "deleted" \in EventKind
    BY DEF EventKind
  <2> QED BY <1>1, <2>1, <2>2, <2>3, EmittedTyped DEF World
<1>2. CASE ~ (s \in Sub /\ Standing(s))
  BY <1>2 DEF CancelOnStripe, World
<1> QED BY <1>1, <1>2

-----------------------------------------------------------------------------
(* What is done outside the handlers keeps the types.                       *)

LEMMA CheckoutTyped ==
    ASSUME Typed, NEW s \in Sub, NEW p \in Sold, Checkout(s, p)
    PROVE  Typed'
<1>1. [status |-> "open", plan |-> p] \in [status : SubStatus, plan : Sold]
  BY DEF SubStatus
<1>2. spent' \in [changes : 0 .. MaxChanges, requests : 0 .. MaxRequests,
                  crashes : 0 .. MaxCrashes]
  BY PlanAssumption DEF Typed, World, Checkout, Ask
<1>3. World'
  BY <1>1, <1>2 DEF Typed, World, Checkout
<1> QED BY <1>3 DEF Typed, Checkout

(* What is hasty and what is not.                                           *)
LEMMA BeginsTyped ==
    ASSUME Typed, Begins
    PROVE  hasty' \in BOOLEAN
BY DEF Begins, Typed, World, Quiet, Still

LEMMA BeginsQuiet ==
    ASSUME Begins, ~ hasty'
    PROVE  Quiet
BY DEF Begins

LEMMA PaysTyped ==
    ASSUME Typed, NEW s \in Sub, CustomerPays(s)
    PROVE  Typed'
<1>1. PICK after : after = [stripe[s] EXCEPT !.status = "active"]
  OBVIOUS
<1>2. after \in [status : SubStatus, plan : Sold] /\ after.plan \in Sold
  BY <1>1 DEF Typed, World, SubStatus
<1>3. PICK e : e = [kind |-> "paid", sub |-> s, status |-> "active", plan |-> after.plan]
  OBVIOUS
<1>4. e \in Event
  BY <1>2, <1>3 DEF Event, EventKind, SubStatus
<1>5. Emitted("completed", s, after) \in Seq(Event)
  BY <1>2, EmittedTyped DEF EventKind, Typed
<1>6. events' = Emitted("completed", s, after) \o <<e>>
  BY <1>1, <1>3 DEF CustomerPays
<1>7. events' \in Seq(Event)
  BY <1>4, <1>5, <1>6
<1>8. stripe' \in [Sub -> [status : SubStatus, plan : Sold]]
  BY <1>1, <1>2 DEF Typed, World, CustomerPays
<1>9. page' \in [Sub -> Plan \cup {NoPlan}] /\ hasty' \in BOOLEAN /\ granted' \in Grant
  BY DEF Typed, World, CustomerPays, Grant
<1>10. World'
  BY <1>7, <1>8, <1>9 DEF Typed, World, CustomerPays
<1> QED BY <1>10 DEF Typed, CustomerPays

LEMMA BillingTyped ==
    ASSUME Typed, NEW s \in Sub, NEW to \in SubStatus, BillingMoves(s, to)
    PROVE  Typed'
<1>1. PICK after : after = [stripe[s] EXCEPT !.status = to]
  OBVIOUS
<1>2. after \in [status : SubStatus, plan : Sold] /\ after.plan \in Sold
  BY <1>1 DEF Typed, World
<1>3. \A kind \in EventKind :
         /\ Emitted(kind, s, after) \in Seq(Event)
         /\ [kind |-> kind, sub |-> s, status |-> to, plan |-> after.plan] \in Event
  BY <1>2, EmittedTyped DEF Typed, Event
<1>4. \/ \E k \in EventKind : events' = Emitted(k, s, after)
      \/ \E k1, k2 \in EventKind : events' = Emitted(k1, s, after) \o
               <<[kind |-> k2, sub |-> s, status |-> to, plan |-> after.plan]>>
  <2>1. {"failed", "updated", "paid", "deleted"} \subseteq EventKind
    BY DEF EventKind
  <2>2. \/ events' = Emitted("failed", s, after) \o
               <<[kind |-> "updated", sub |-> s, status |-> to, plan |-> after.plan]>>
        \/ events' = Emitted("updated", s, after) \o
               <<[kind |-> "paid", sub |-> s, status |-> to, plan |-> after.plan]>>
        \/ events' = Emitted("updated", s, after)
        \/ events' = Emitted("deleted", s, after)
    BY <1>1 DEF BillingMoves
  <2> QED BY <2>1, <2>2
<1>5. events' \in Seq(Event)
  <2>1. CASE \E k \in EventKind : events' = Emitted(k, s, after)
    BY <1>3, <2>1
  <2>2. ASSUME NEW k1 \in EventKind, NEW k2 \in EventKind,
               events' = Emitted(k1, s, after) \o
                 <<[kind |-> k2, sub |-> s, status |-> to, plan |-> after.plan]>>
        PROVE  events' \in Seq(Event)
    <3>1. PICK e \in Event :
             e = [kind |-> k2, sub |-> s, status |-> to, plan |-> after.plan]
      BY <1>3
    <3>2. PICK q \in Seq(Event) : q = Emitted(k1, s, after)
      BY <1>3
    <3> QED BY <2>2, <3>1, <3>2
  <2> QED BY <1>4, <2>1, <2>2
<1>6. spent' \in [changes : 0 .. MaxChanges, requests : 0 .. MaxRequests,
                  crashes : 0 .. MaxCrashes]
  <2>1. spent' = [spent EXCEPT !.changes = @ + 1] /\ spent.changes < MaxChanges
    BY DEF BillingMoves
  <2> QED BY <2>1, PlanAssumption DEF Typed, World
<1>7. stripe' \in [Sub -> [status : SubStatus, plan : Sold]]
  BY <1>1, <1>2 DEF Typed, World, BillingMoves
<1>9. hasty' \in BOOLEAN
  BY BeginsTyped DEF BillingMoves
<1>8. World'
  BY <1>5, <1>6, <1>7, <1>9 DEF Typed, World, BillingMoves
<1> QED BY <1>8 DEF Typed, BillingMoves

LEMMA PageTyped ==
    ASSUME Typed, NEW s \in Sub, PageSees(s)
    PROVE  Typed'
<1>1. World'
  BY DEF Typed, World, PageSees
<1> QED BY <1>1 DEF Typed, PageSees

-----------------------------------------------------------------------------
(* Handlers: which operation is at which stage.                             *)

OpsOf(op, x) ==
    /\ x \in {"guard", "cancel_old"} => op \in {"completed", "admin"}
    /\ x \in {"retrieve", "sweep", "sweep_cancel"} => op = "completed"
    /\ x \in Provided =>
          op \in {"completed", "updated", "verify", "modify", "admin", "sweep"}
    /\ x \in Ended => op \in {"updated", "deleted", "cancel", "sweep"}
    /\ x = "unlink" => op = "admin"
    /\ x = "summary" => op = "updated"
    /\ x = "metadata" => op \in {"updated", "paid", "failed", "sweep"}
    /\ x = "org" => op \in {"paid", "failed"}
    /\ x = "verify" => op = "verify"
    /\ x = "check" => op \in {"verify", "cancel"}
    /\ x = "hard_cancel" => op = "cancel"
    /\ x = "modify" => op = "modify"
    /\ x = "stale" => op = "sweep"

LEMMA OpsOfStage ==
    ASSUME NEW op \in Operation, NEW x \in StagesOf(op)
    PROVE  OpsOf(op, x)
<1>1. CASE op = "completed"
  BY <1>1 DEF StagesOf, Provided, Ended, OpsOf
<1>2. CASE op = "updated"
  BY <1>2 DEF StagesOf, Provided, Ended, OpsOf
<1>3. CASE op = "deleted"
  BY <1>3 DEF StagesOf, Provided, Ended, OpsOf
<1>4. CASE op = "paid"
  BY <1>4 DEF StagesOf, Provided, Ended, OpsOf
<1>5. CASE op = "failed"
  BY <1>5 DEF StagesOf, Provided, Ended, OpsOf
<1>6. CASE op = "verify"
  BY <1>6 DEF StagesOf, Provided, Ended, OpsOf
<1>7. CASE op = "cancel"
  BY <1>7 DEF StagesOf, Provided, Ended, OpsOf
<1>8. CASE op = "modify"
  BY <1>8 DEF StagesOf, Provided, Ended, OpsOf
<1>9. CASE op = "admin"
  BY <1>9 DEF StagesOf, Provided, Ended, OpsOf
<1>10. CASE op = "sweep"
  BY <1>10 DEF StagesOf, Provided, Ended, OpsOf
<1> QED BY <1>1, <1>2, <1>3, <1>4, <1>5, <1>6, <1>7, <1>8, <1>9, <1>10 DEF Operation, EventKind

LEMMA OpsAt ==
    ASSUME Typed, NEW w \in Worker, Busy(w)
    PROVE  OpsOf(task[w].op, task[w].stage)
<1>1. task[w].stage \in StagesOf(task[w].op) /\ task[w].op \in Operation
  BY DEF Typed, WellFormed, Fits, Busy, Task
<1> QED BY <1>1, OpsOfStage

LEMMA TaskIs ==
    ASSUME Typed, NEW w \in Worker
    PROVE  /\ task[w] \in Task
           /\ IsFiniteSet(task[w].list)
           /\ task[w].op \in Operation /\ task[w].stage \in Stage
           /\ task[w].sub \in Sub \cup {NoSub} /\ task[w].plan \in Plan
           /\ task[w].old \in Sub \cup {NoSub}
           /\ task[w].list \subseteq Nat /\ task[w].subs \subseteq Sub
           /\ task[w].event \in Seq(Event)
           /\ Busy(w) => Fits(task[w])
           /\ Busy(w) /\ task[w].op \notin {"admin", "sweep"} => task[w].sub \in Sub
           /\ Busy(w) /\ task[w].op = "modify" => task[w].plan \in Sold
           /\ Busy(w) /\ task[w].op = "admin" =>
                task[w].sub = NoSub /\ task[w].status = "manual"
           /\ ~ Busy(w) => task[w] = Idle
BY DEF Typed, WellFormed, Fits, Busy, Task

(* The stage after.                                                         *)
LEMMA GoToTyped ==
    ASSUME Typed, World', NEW w \in Worker, Busy(w),
           NEW x \in Stage \ {"idle"}, x \in StagesOf(task[w].op), GoTo(w, x)
    PROVE  Typed'
<1>1. WellFormed(task[w]) /\ task[w].stage # "idle"
  BY DEF Typed, Busy
<1>2. WellFormed([task[w] EXCEPT !.stage = x])
  BY <1>1, GoToFormed
<1> QED BY <1>2, GoToIs, TypedNext

LEMMA EndTyped ==
    ASSUME Typed, World', NEW w \in Worker, End(w)
    PROVE  Typed'
BY EndIs, IdleFormed, TypedNext

-----------------------------------------------------------------------------
(* Handlers that begin.                                                     *)

LEMMA BeginIs ==
    ASSUME NEW w \in Worker, NEW op, NEW x, NEW s, NEW p, NEW st,
           Begin(w, op, x, s, p, st)
    PROVE  ~ Busy(w) /\ Only(w, Begun(op, x, s, p, st))
BY DEF Begin, Only, Begun

LEMMA BeginTyped ==
    ASSUME Typed, World', NEW w \in Worker, NEW op, NEW x, NEW s, NEW p, NEW st,
           Begin(w, op, x, s, p, st),
           op \in Operation \ EventKind, x \in Stage \ {"idle"}, x \in StagesOf(op),
           op = "modify" => p \in Sold, op = "admin" => s = NoSub /\ st = "manual",
           s \in Sub \cup {NoSub}, op \notin {"admin", "sweep"} => s \in Sub,
           p \in Plan, st \in SubStatus \cup {"manual"}
    PROVE  Typed'
<1>1. PICK t : t = Begun(op, x, s, p, st)
  OBVIOUS
<1>2. /\ t \in Task /\ t.op = op /\ t.stage = x /\ t.sub = s
      /\ t.plan = p /\ t.status = st /\ t.list = {} /\ t.event = << >>
  BY <1>1, BegunIs
<1>3. Only(w, t)
  BY <1>1, BeginIs
<1>4. Fits(t)
  BY <1>2 DEF Fits
<1>5. WellFormed(t)
  BY <1>2, <1>4, BegunFormed
<1> QED BY <1>3, <1>5, TypedNext

LEMMA PlansAre == NoSub \notin Sub /\ Sold \subseteq Plan /\ "free" \in Plan
BY PlanAssumption DEF Plan

LEMMA AskTyped ==
    ASSUME Typed, Ask
    PROVE  spent' \in [changes : 0 .. MaxChanges, requests : 0 .. MaxRequests,
                       crashes : 0 .. MaxCrashes]
<1>1. spent' = [spent EXCEPT !.requests = @ + 1] /\ spent.requests < MaxRequests
  BY DEF Ask
<1> QED BY <1>1, PlanAssumption DEF Typed, World

LEMMA CancelRequestTyped ==
    ASSUME Typed, NEW w \in Worker, Cancel(w)
    PROVE  Typed'
<1>1. World'
  BY AskTyped, BeginsTyped DEF Typed, World, Cancel
<1>2. org.sub \in Sub
  BY DEF Typed, World, Cancel
<1>3. Begin(w, "cancel", "check", org.sub, "free", "canceled")
  BY DEF Cancel
<1>4. /\ "cancel" \in Operation \ EventKind /\ "check" \in Stage \ {"idle"}
      /\ "check" \in StagesOf("cancel") /\ "canceled" \in SubStatus
  BY DEF Operation, EventKind, Stage, StagesOf, SubStatus
<1> QED BY <1>1, <1>2, <1>3, <1>4, PlansAre, BeginTyped

LEMMA ModifyTyped ==
    ASSUME Typed, NEW w \in Worker, NEW p \in Sold, Modify(w, p)
    PROVE  Typed'
<1>1. World'
  BY AskTyped, BeginsTyped DEF Typed, World, Modify
<1>2. org.sub \in Sub
  BY DEF Typed, World, Modify
<1>3. Begin(w, "modify", "modify", org.sub, p, "none")
  BY DEF Modify
<1>4. /\ "modify" \in Operation \ EventKind /\ "modify" \in Stage \ {"idle"}
      /\ "modify" \in StagesOf("modify") /\ "none" \in SubStatus
  BY DEF Operation, EventKind, Stage, StagesOf, SubStatus
<1> QED BY <1>1, <1>2, <1>3, <1>4, PlansAre, BeginTyped

LEMMA AdminTyped ==
    ASSUME Typed, NEW w \in Worker, NEW p \in Plan, AdminSetPlan(w, p)
    PROVE  Typed'
<1>1. World'
  BY AskTyped, BeginsTyped DEF Typed, World, AdminSetPlan, Grant
<1>2. Begin(w, "admin", "guard", NoSub, p, "manual")
  BY DEF AdminSetPlan
<1>3. /\ "admin" \in Operation \ EventKind /\ "guard" \in Stage \ {"idle"}
      /\ "guard" \in StagesOf("admin")
  BY DEF Operation, EventKind, Stage, StagesOf
<1> QED BY <1>1, <1>2, <1>3, BeginTyped

LEMMA PageVerifiesTyped ==
    ASSUME Typed, NEW w \in Worker, NEW s \in Sub, PageVerifies(w, s)
    PROVE  Typed'
<1>1. World'
  BY DEF Typed, World, PageVerifies
<1>2. stripe[s].plan \in Plan
  BY PlansAre DEF Typed, World
<1>3. Begin(w, "verify", "verify", s, stripe[s].plan, "none")
  BY DEF PageVerifies
<1>4. /\ "verify" \in Operation \ EventKind /\ "verify" \in Stage \ {"idle"}
      /\ "verify" \in StagesOf("verify") /\ "none" \in SubStatus
  BY DEF Operation, EventKind, Stage, StagesOf, SubStatus
<1> QED BY <1>1, <1>2, <1>3, <1>4, BeginTyped

LEMMA SweepTyped ==
    ASSUME Typed, NEW w \in Worker, Sweep(w)
    PROVE  Typed'
<1>1. World' /\ org.sub \in Sub \cup {NoSub}
  BY DEF Typed, World, Sweep
<1>2. Begin(w, "sweep", "stale", org.sub, "free", "none")
  BY DEF Sweep
<1>3. /\ "sweep" \in Operation \ EventKind /\ "stale" \in Stage \ {"idle"}
      /\ "stale" \in StagesOf("sweep") /\ "none" \in SubStatus
  BY DEF Operation, EventKind, Stage, StagesOf, SubStatus
<1> QED BY <1>1, <1>2, <1>3, PlansAre, BeginTyped

(* What a webhook begins with.                                              *)
Webhook(e) == [Idle EXCEPT !.op = e.kind, !.stage = FirstStage[e.kind],
                           !.sub = e.sub, !.plan = e.plan,
                           !.status = e.status, !.event = <<e>>]

LEMMA WebhookIs ==
    ASSUME NEW e \in Event
    PROVE  LET t == Webhook(e)
           IN  /\ t \in Task /\ t.op = e.kind /\ t.stage = FirstStage[e.kind]
               /\ t.sub = e.sub /\ t.plan = e.plan /\ t.status = e.status
               /\ t.old = NoSub /\ t.list = {} /\ t.subs = {} /\ t.event = <<e>>
<1>1. /\ Idle \in Task /\ Idle.old = NoSub
      /\ Idle.list = {} /\ Idle.subs = {}
  BY IdleFormed DEF WellFormed, Idle
<1>2. PICK i : i = Idle
  OBVIOUS
<1>3. /\ e.kind \in Operation /\ FirstStage[e.kind] \in Stage
      /\ e.sub \in Sub \cup {NoSub} /\ e.plan \in Plan
      /\ e.status \in SubStatus \cup {"manual"}
  BY PlansAre DEF Event, EventKind, Operation, Stage, FirstStage
<1>4. PICK q \in Seq(Event) : q = <<e>>
  <2>1. <<e>> \in Seq(Event)
    OBVIOUS
  <2> QED BY <2>1
<1>5. PICK f \in Stage : f = FirstStage[e.kind]
  BY <1>3
<1>6. PICK k \in Operation : k = e.kind
  BY <1>3
<1>7. PICK a \in Sub \cup {NoSub} : a = e.sub
  BY <1>3
<1>8. PICK p \in Plan : p = e.plan
  BY <1>3
<1>9. PICK st \in SubStatus \cup {"manual"} : st = e.status
  BY <1>3
<1>10. Webhook(e) = [i EXCEPT !.op = k, !.stage = f, !.sub = a, !.plan = p,
                              !.status = st, !.event = q]
  BY <1>2, <1>4, <1>5, <1>6, <1>7, <1>8, <1>9 DEF Webhook
<1> QED BY <1>1, <1>2, <1>4, <1>5, <1>6, <1>7, <1>8, <1>9, <1>10 DEF Task

LEMMA DeliverIs ==
    ASSUME Typed, NEW w \in Worker, Deliver(w)
    PROVE  /\ events # << >> /\ Head(events) \in Event
           /\ Only(w, Webhook(Head(events)))
           /\ events' = Tail(events) /\ events' \in Seq(Event)
BY DEF Deliver, Typed, World, Only, Webhook

LEMMA DeliverTyped ==
    ASSUME Typed, NEW w \in Worker, Deliver(w)
    PROVE  Typed'
<1>1. PICK e \in Event : e = Head(events) /\ Only(w, Webhook(e)) /\ events' \in Seq(Event)
  BY DeliverIs
<1>2. World'
  BY <1>1 DEF Typed, World, Deliver
<1>3. PICK t : t = Webhook(e)
  OBVIOUS
<1>4. /\ t \in Task /\ t.op = e.kind /\ t.stage = FirstStage[e.kind]
      /\ t.sub = e.sub /\ t.list = {} /\ t.event = <<e>>
  BY <1>3, WebhookIs
<1>5. /\ FirstStage[e.kind] \in StagesOf(e.kind) \ {"idle"}
      /\ e.kind \in EventKind /\ e.sub \in Sub
  BY DEF Event, EventKind, FirstStage, StagesOf, Ended
<1>6. Fits(t)
  BY <1>4, <1>5 DEF Fits, EventKind
<1>7. WellFormed(t)
  BY <1>4, <1>5, <1>6, BegunFormed
<1> QED BY <1>1, <1>2, <1>3, <1>7, TypedNext

-----------------------------------------------------------------------------
(* Steps of a handler.                                                      *)

LEMMA ChangedFormed ==
    ASSUME NEW t, WellFormed(t), t.stage # "idle", NEW u \in Task,
           u.op = t.op, u.sub = t.sub, u.event = t.event, u.plan = t.plan,
           u.op = "admin" => u.status = t.status, u.stage \in StagesOf(t.op), u.stage # "idle", IsFiniteSet(u.list)
    PROVE  WellFormed(u)
BY DEF WellFormed, Fits

LEMMA ChangedTyped ==
    ASSUME Typed, World', NEW w \in Worker, Busy(w), NEW u \in Task, Only(w, u),
           u.op = task[w].op, u.sub = task[w].sub, u.event = task[w].event,
           u.plan = task[w].plan, u.op = "admin" => u.status = task[w].status,
           u.stage \in StagesOf(task[w].op), u.stage # "idle", IsFiniteSet(u.list)
    PROVE  Typed'
<1>1. WellFormed(task[w]) /\ task[w].stage # "idle"
  BY DEF Typed, Busy
<1>2. WellFormed(u)
  BY <1>1, ChangedFormed
<1> QED BY <1>2, TypedNext

LEMMA BusyAt ==
    ASSUME NEW w \in Worker, NEW x, At(w, x), x # "idle"
    PROVE  Busy(w) /\ task[w].stage = x
BY DEF At, Busy

LEMMA GuardIs ==
    ASSUME Typed, NEW w \in Worker, Guard(w)
    PROVE  /\ Busy(w) /\ task[w].stage = "guard"
           /\ task[w].op \in {"completed", "admin"}
           /\ \E u \in Task :
                 /\ Only(w, u) /\ u.stage = "cancel_old" /\ u.old = org.sub
                 /\ u.op = task[w].op /\ u.sub = task[w].sub /\ u.event = task[w].event
                 /\ u.plan = task[w].plan /\ u.status = task[w].status
                 /\ u.list = task[w].list /\ u.subs = task[w].subs
<1>1. Busy(w) /\ task[w].stage = "guard"
  BY BusyAt DEF Guard
<1>2. task[w].op \in {"completed", "admin"}
  BY <1>1, OpsAt DEF OpsOf
<1>3. PICK u : u = [task[w] EXCEPT !.old = org.sub, !.stage = "cancel_old"]
  OBVIOUS
<1>4. Only(w, u)
  BY <1>3 DEF Guard, Only, Typed
<1>5. task[w] \in Task /\ org.sub \in Sub \cup {NoSub} /\ "cancel_old" \in Stage
  BY TaskIs DEF Typed, World, Stage
<1>6. /\ u \in Task /\ u.stage = "cancel_old" /\ u.old = org.sub
      /\ u.op = task[w].op /\ u.sub = task[w].sub /\ u.event = task[w].event
      /\ u.plan = task[w].plan /\ u.status = task[w].status
      /\ u.list = task[w].list /\ u.subs = task[w].subs
  BY <1>3, <1>5 DEF Task
<1> QED BY <1>1, <1>2, <1>4, <1>6

LEMMA GuardTyped ==
    ASSUME Typed, NEW w \in Worker, Guard(w)
    PROVE  Typed'
<1>1. World'
  BY DEF Typed, World, Guard
<1>2. "cancel_old" \in StagesOf(task[w].op)
  BY GuardIs DEF StagesOf
<1> QED BY <1>1, <1>2, GuardIs, ChangedTyped, TaskIs

(* A move to a stage.                                                       *)
LEMMA StepTyped ==
    ASSUME Typed, World', NEW w \in Worker, NEW x, At(w, x), x # "idle",
           \/ End(w)
           \/ \E y \in Stage \ {"idle"} :
                 /\ \A op \in Operation : OpsOf(op, x) => y \in StagesOf(op)
                 /\ GoTo(w, y)
    PROVE  Typed'
<1>1. Busy(w) /\ task[w].op \in Operation /\ OpsOf(task[w].op, x)
  BY BusyAt, OpsAt, TaskIs
<1> QED BY <1>1, GoToTyped, EndTyped

LEMMA CancelOldTyped ==
    ASSUME Typed, NEW w \in Worker, CancelOld(w)
    PROVE  Typed'
<1>1. /\ stripe' \in [Sub -> [status : SubStatus, plan : Sold]]
      /\ events' \in Seq(Event)
  BY CancelTyped DEF Typed, World, CancelOld
<1>2. World'
  BY <1>1 DEF Typed, World, CancelOld
<1>3. Busy(w) /\ task[w].op \in {"completed", "admin"}
  BY BusyAt, OpsAt DEF CancelOld, At, OpsOf
<1>4. CASE task[w].op = "completed"
  BY <1>2, <1>3, <1>4, GoToTyped DEF CancelOld, StagesOf, Stage
<1>5. CASE task[w].op = "admin"
  BY <1>2, <1>3, <1>5, GoToTyped DEF CancelOld, StagesOf, Stage, Provided
<1> QED BY <1>3, <1>4, <1>5

LEMMA RetrieveIs ==
    ASSUME Typed, NEW w \in Worker, Retrieve(w)
    PROVE  /\ Busy(w) /\ task[w].stage = "retrieve" /\ task[w].op = "completed"
           /\ task[w].sub \in Sub
           /\ \E u \in Task :
                 /\ Only(w, u) /\ u.stage = "list"
                 /\ u.status = stripe[task[w].sub].status
                 /\ u.op = task[w].op /\ u.sub = task[w].sub /\ u.event = task[w].event
                 /\ u.plan = task[w].plan /\ u.old = task[w].old
                 /\ u.list = task[w].list /\ u.subs = task[w].subs
<1>1. Busy(w) /\ task[w].stage = "retrieve"
  BY BusyAt DEF Retrieve
<1>2. task[w].op = "completed"
  BY <1>1, OpsAt DEF OpsOf
<1>3. task[w].sub \in Sub /\ task[w] \in Task
  BY <1>1, <1>2, TaskIs
<1>4. PICK st \in SubStatus : st = stripe[task[w].sub].status
  BY <1>3 DEF Typed, World
<1>5. PICK u : u = [task[w] EXCEPT !.status = st, !.stage = "list"]
  OBVIOUS
<1>6. Only(w, u)
  BY <1>4, <1>5 DEF Retrieve, Only, Typed
<1>7. "list" \in Stage
  BY DEF Stage
<1>8. /\ u \in Task /\ u.stage = "list" /\ u.status = st
      /\ u.op = task[w].op /\ u.sub = task[w].sub /\ u.event = task[w].event
      /\ u.plan = task[w].plan /\ u.old = task[w].old
      /\ u.list = task[w].list /\ u.subs = task[w].subs
  BY <1>3, <1>5, <1>7 DEF Task
<1> QED BY <1>1, <1>2, <1>3, <1>4, <1>6, <1>8

LEMMA RetrieveTyped ==
    ASSUME Typed, NEW w \in Worker, Retrieve(w)
    PROVE  Typed'
<1>1. World'
  BY DEF Typed, World, Retrieve
<1>2. "list" \in StagesOf(task[w].op)
  BY RetrieveIs DEF StagesOf, Provided
<1> QED BY <1>1, <1>2, RetrieveIs, ChangedTyped, TaskIs

LEMMA ImageFinite ==
    ASSUME NEW S, IsFiniteSet(S), NEW f
    PROVE  IsFiniteSet({f[x] : x \in S})
<1> DEFINE T == {f[x] : x \in S}
           g == [x \in S |-> f[x]]
<1>1. g \in [S -> T] /\ \A t \in T : \E x \in S : g[x] = t
  OBVIOUS
<1>2. g \in Surjection(S, T)
  BY <1>1, Fun_IsSurj
<1> QED BY <1>2, FS_Surjection

LEMMA IdsFinite ==
    ASSUME Typed
    PROVE  IsFiniteSet({r.id : r \in rows})
<1>1. PICK f : f = [r \in rows |-> r.id]
  OBVIOUS
<1>2. IsFiniteSet(rows)
  BY DEF Typed, World
<1>3. IsFiniteSet({f[r] : r \in rows})
  BY <1>2, ImageFinite
<1>4. {f[r] : r \in rows} = {r.id : r \in rows}
  BY <1>1
<1> QED BY <1>3, <1>4

LEMMA ListRowsIs ==
    ASSUME Typed, NEW w \in Worker, ListRows(w)
    PROVE  /\ Busy(w) /\ task[w].stage = "list"
           /\ \E u \in Task :
                 /\ Only(w, u) /\ u.stage = "clear" /\ IsFiniteSet(u.list)
                 /\ u.list = {r.id : r \in rows}
                 /\ u.op = task[w].op /\ u.sub = task[w].sub /\ u.event = task[w].event
                 /\ u.plan = task[w].plan /\ u.status = task[w].status
                 /\ u.old = task[w].old /\ u.subs = task[w].subs
<1>1. Busy(w) /\ task[w].stage = "list"
  BY BusyAt DEF ListRows
<1>2. PICK l : l = {r.id : r \in rows}
  OBVIOUS
<1>3. l \subseteq Nat
  BY <1>2 DEF Typed, World, Row
<1>4. IsFiniteSet(l)
  BY <1>2, IdsFinite
<1>5. PICK u : u = [task[w] EXCEPT !.list = l, !.stage = "clear"]
  OBVIOUS
<1>6. Only(w, u)
  BY <1>2, <1>5 DEF ListRows, Only, Typed
<1>7. "clear" \in Stage /\ task[w] \in Task
  BY TaskIs DEF Stage
<1>8. /\ u \in Task /\ u.stage = "clear" /\ u.list = l
      /\ u.op = task[w].op /\ u.sub = task[w].sub /\ u.event = task[w].event
      /\ u.plan = task[w].plan /\ u.status = task[w].status
      /\ u.old = task[w].old /\ u.subs = task[w].subs
  BY <1>3, <1>5, <1>7 DEF Task
<1> QED BY <1>1, <1>2, <1>4, <1>6, <1>8

LEMMA ListRowsTyped ==
    ASSUME Typed, NEW w \in Worker, ListRows(w)
    PROVE  Typed'
<1>1. World'
  BY DEF Typed, World, ListRows
<1>2. task[w].op \in {"completed", "updated", "verify", "modify", "admin", "sweep"}
  BY ListRowsIs, OpsAt DEF OpsOf, Provided
<1>3. "clear" \in StagesOf(task[w].op)
  BY <1>2 DEF StagesOf, Provided
<1> QED BY <1>1, <1>3, ListRowsIs, ChangedTyped

LEMMA ClearRowIs ==
    ASSUME Typed, NEW w \in Worker, ClearRow(w)
    PROVE  /\ Busy(w) /\ task[w].stage = "clear"
           /\ \E i \in task[w].list, u \in Task :
                 /\ rows' = {r \in rows : r.id # i}
                 /\ Only(w, u) /\ u.stage = "clear" /\ IsFiniteSet(u.list)
                 /\ u.list = task[w].list \ {i}
                 /\ u.op = task[w].op /\ u.sub = task[w].sub /\ u.event = task[w].event
                 /\ u.plan = task[w].plan /\ u.status = task[w].status
                 /\ u.old = task[w].old /\ u.subs = task[w].subs
<1>1. Busy(w) /\ task[w].stage = "clear"
  BY BusyAt DEF ClearRow
<1>2. PICK i \in task[w].list :
         /\ rows' = {r \in rows : r.id # i}
         /\ task' = [task EXCEPT ![w].list = @ \ {i}]
  BY DEF ClearRow
<1>3. PICK u : u = [task[w] EXCEPT !.list = task[w].list \ {i}]
  OBVIOUS
<1>4. Only(w, u)
  BY <1>2, <1>3 DEF Only, Typed
<1>5. task[w] \in Task /\ IsFiniteSet(task[w].list)
  BY TaskIs
<1>6. IsFiniteSet(task[w].list \ {i})
  BY <1>5, FS_RemoveElement
<1>7. task[w].list \ {i} \in SUBSET Nat
  BY TaskIs
<1>8. /\ u \in Task /\ u.stage = task[w].stage /\ u.list = task[w].list \ {i}
      /\ u.op = task[w].op /\ u.sub = task[w].sub /\ u.event = task[w].event
      /\ u.plan = task[w].plan /\ u.status = task[w].status
      /\ u.old = task[w].old /\ u.subs = task[w].subs
  BY <1>3, <1>5, <1>7 DEF Task
<1> QED BY <1>1, <1>2, <1>4, <1>6, <1>8

LEMMA ClearRowTyped ==
    ASSUME Typed, NEW w \in Worker, ClearRow(w)
    PROVE  Typed'
<1>1. rows' \subseteq rows
  BY ClearRowIs
<1>2. IsFiniteSet(rows')
  BY <1>1, FS_Subset DEF Typed, World
<1>3. World'
  BY <1>1, <1>2 DEF Typed, World, ClearRow
<1>4. "clear" \in StagesOf(task[w].op)
  BY ClearRowIs, TaskIs DEF Fits
<1> QED BY <1>3, <1>4, ClearRowIs, ChangedTyped

(* A new row's id is used nowhere.                                          *)
LEMMA NewIdIs ==
    ASSUME Typed
    PROVE  /\ NewId \in Nat \ {0}
           /\ \A r \in rows : r.id # NewId
           /\ \A w \in Worker : NewId \notin task[w].list
<1> DEFINE ids == {r.id : r \in rows}
           lists == {task[w].list : w \in Worker}
           used == ids \cup UNION lists
           n == Cardinality(used)
<1>1. IsFiniteSet(ids)
  BY IdsFinite
<1>2. IsFiniteSet(lists)
  <2> DEFINE f == [w \in Worker |-> task[w].list]
  <2>1. IsFiniteSet({f[w] : w \in Worker})
    BY PlanAssumption, ImageFinite
  <2>2. {f[w] : w \in Worker} = lists
    OBVIOUS
  <2> QED BY <2>1, <2>2
<1>3. \A l \in lists : IsFiniteSet(l)
  BY TaskIs
<1>4. IsFiniteSet(UNION lists)
  BY <1>2, <1>3, FS_UNION
<1>5. IsFiniteSet(used)
  BY <1>1, <1>4, FS_Union
<1>6. n \in Nat
  BY <1>5, FS_CardinalityType
<1>7. \E i \in 1 .. n + 1 : i \notin used
  <2>1. SUFFICES ASSUME 1 .. n + 1 \subseteq used PROVE FALSE
    OBVIOUS
  <2>2. Cardinality(1 .. n + 1) = n + 1
    BY <1>6, FS_Interval
  <2>3. Cardinality(1 .. n + 1) <= n
    BY <1>5, <2>1, FS_Subset
  <2> QED BY <1>6, <2>2, <2>3
<1>8. NewId = CHOOSE i \in 1 .. n + 1 : i \notin used
  BY DEF NewId
<1>9. NewId \in 1 .. n + 1 /\ NewId \notin used
  BY <1>7, <1>8
<1> QED BY <1>6, <1>9

LEMMA RowAdded ==
    ASSUME Typed, NEW r \in Row, r.id = NewId, rows' = rows \cup {r}
    PROVE  /\ rows' \subseteq Row /\ IsFiniteSet(rows')
           /\ \A a, b \in rows' : a.id = b.id => a = b
<1>1. IsFiniteSet(rows')
  BY FS_AddElement DEF Typed, World
<1> QED BY <1>1, NewIdIs DEF Typed, World

LEMMA CreateRowIs ==
    ASSUME Typed, NEW w \in Worker, CreateRow(w)
    PROVE  /\ Busy(w) /\ task[w].stage = "clear" /\ task[w].list = {}
           /\ \E r \in Row :
                 /\ r.id = NewId /\ r.plan = task[w].plan /\ r.sub = Link(task[w])
                 /\ rows' = rows \cup {r}
           /\ GoTo(w, "write")
<1>1. Busy(w) /\ task[w].stage = "clear"
  BY BusyAt DEF CreateRow
<1>2. PICK r : r = [id |-> NewId, plan |-> task[w].plan, sub |-> Link(task[w])]
  OBVIOUS
<1>3. r \in Row /\ r.id = NewId /\ r.plan = task[w].plan /\ r.sub = Link(task[w])
  BY <1>2, NewIdIs, TaskIs DEF Row, Link
<1> QED BY <1>1, <1>2, <1>3 DEF CreateRow

LEMMA CreateRowTyped ==
    ASSUME Typed, NEW w \in Worker, CreateRow(w)
    PROVE  Typed'
<1>1. World'
  BY CreateRowIs, RowAdded DEF Typed, World, CreateRow
<1>2. At(w, "clear") /\ GoTo(w, "write")
  BY DEF CreateRow
<1>3. \A op \in Operation : OpsOf(op, "clear") => "write" \in StagesOf(op)
  BY DEF OpsOf, StagesOf, Provided
<1> QED BY <1>1, <1>2, <1>3, StepTyped DEF Stage

LEMMA LinkIs ==
    ASSUME Typed, NEW w \in Worker
    PROVE  /\ Link(task[w]) \in Sub \cup {NoSub}
           /\ task[w].op \in {"admin", "sweep"} => Link(task[w]) = NoSub
           /\ task[w].op \notin {"admin", "sweep"} => Link(task[w]) = task[w].sub
BY TaskIs DEF Link

LEMMA WritePlanIs ==
    ASSUME Typed, NEW w \in Worker, WritePlan(w)
    PROVE  /\ Busy(w) /\ task[w].stage = "write"
           /\ task[w].op \in {"completed", "updated", "verify", "modify", "admin", "sweep"}
           /\ org'.plan = task[w].plan /\ org'.status = task[w].status
           /\ org'.by = AssignedBy(task[w].op)
           /\ org'.sub = IF Link(task[w]) = NoSub THEN org.sub ELSE Link(task[w])
           /\ org' \in [plan : Plan, sub : Sub \cup {NoSub},
                status : {"none", "manual"} \cup SubStatus,
                by : {"signup", "stripe", "admin", "billing_sweep"}]
           /\ task[w].op = "completed" => GoTo(w, "sweep")
           /\ task[w].op = "admin" => GoTo(w, "unlink")
           /\ task[w].op \notin {"completed", "admin"} => End(w)
<1>1. Busy(w) /\ task[w].stage = "write"
  BY BusyAt DEF WritePlan
<1>2. task[w].op \in {"completed", "updated", "verify", "modify", "admin", "sweep"}
  BY <1>1, OpsAt DEF OpsOf, Provided
<1>3. PICK t : t = task[w]
  OBVIOUS
<1>4. org' = [plan |-> t.plan, status |-> t.status, by |-> AssignedBy(t.op),
              sub |-> IF Link(t) = NoSub THEN org.sub ELSE Link(t)]
  BY <1>3 DEF WritePlan
<1>5. AssignedBy(t.op) \in {"signup", "stripe", "admin", "billing_sweep"}
  BY DEF AssignedBy
<1>6. t.plan \in Plan /\ t.status \in {"none", "manual"} \cup SubStatus
  BY <1>3, TaskIs DEF Task
<1>7. (IF Link(t) = NoSub THEN org.sub ELSE Link(t)) \in Sub \cup {NoSub}
  BY <1>3, LinkIs DEF Typed, World
<1>8. /\ task[w].op = "completed" => GoTo(w, "sweep")
      /\ task[w].op = "admin" => GoTo(w, "unlink")
      /\ task[w].op \notin {"completed", "admin"} => End(w)
  BY DEF WritePlan
<1> QED BY <1>1, <1>2, <1>3, <1>4, <1>5, <1>6, <1>7, <1>8

LEMMA WritePlanTyped ==
    ASSUME Typed, NEW w \in Worker, WritePlan(w)
    PROVE  Typed'
<1>1. World'
  BY WritePlanIs DEF Typed, World, WritePlan
<1>2. CASE task[w].op = "completed"
  BY <1>1, <1>2, WritePlanIs, GoToTyped DEF StagesOf, Stage
<1>3. CASE task[w].op = "admin"
  BY <1>1, <1>3, WritePlanIs, GoToTyped DEF StagesOf, Stage
<1>4. CASE task[w].op \notin {"completed", "admin"}
  BY <1>1, <1>4, WritePlanIs, EndTyped
<1> QED BY <1>2, <1>3, <1>4

LEMMA SweepOrphansIs ==
    ASSUME Typed, NEW w \in Worker, SweepOrphans(w)
    PROVE  /\ Busy(w) /\ task[w].stage = "sweep" /\ task[w].op = "completed"
           /\ \E u \in Task :
                 /\ Only(w, u) /\ u.stage = "sweep_cancel"
                 /\ u.subs = {s \in Sub \ {task[w].sub} : stripe[s].status = "active"}
                 /\ u.op = task[w].op /\ u.sub = task[w].sub /\ u.event = task[w].event
                 /\ u.plan = task[w].plan /\ u.status = task[w].status
                 /\ u.old = task[w].old /\ u.list = task[w].list
<1>1. Busy(w) /\ task[w].stage = "sweep"
  BY BusyAt DEF SweepOrphans
<1>2. task[w].op = "completed"
  BY <1>1, OpsAt DEF OpsOf, Provided
<1>3. PICK q : q = {s \in Sub \ {task[w].sub} : stripe[s].status = "active"}
  OBVIOUS
<1>4. PICK u : u = [task[w] EXCEPT !.stage = "sweep_cancel", !.subs = q]
  OBVIOUS
<1>5. Only(w, u)
  BY <1>3, <1>4 DEF SweepOrphans, Only, Typed
<1>6. task[w] \in Task /\ q \in SUBSET Sub /\ "sweep_cancel" \in Stage
  BY <1>3, TaskIs DEF Stage
<1>7. /\ u \in Task /\ u.stage = "sweep_cancel" /\ u.subs = q
      /\ u.op = task[w].op /\ u.sub = task[w].sub /\ u.event = task[w].event
      /\ u.plan = task[w].plan /\ u.status = task[w].status
      /\ u.old = task[w].old /\ u.list = task[w].list
  BY <1>4, <1>6 DEF Task
<1> QED BY <1>1, <1>2, <1>3, <1>5, <1>7

LEMMA SweepOrphansTyped ==
    ASSUME Typed, NEW w \in Worker, SweepOrphans(w)
    PROVE  Typed'
<1>1. World'
  BY DEF Typed, World, SweepOrphans
<1>2. "sweep_cancel" \in StagesOf(task[w].op)
  BY SweepOrphansIs DEF StagesOf
<1> QED BY <1>1, <1>2, SweepOrphansIs, TaskIs, ChangedTyped

LEMMA CancelOrphanIs ==
    ASSUME Typed, NEW w \in Worker, CancelOrphan(w)
    PROVE  /\ Busy(w) /\ task[w].stage = "sweep_cancel" /\ task[w].op = "completed"
           /\ \/ /\ task[w].subs = {} /\ End(w)
                 /\ UNCHANGED <<stripe, events>>
              \/ \E s \in task[w].subs, u \in Task :
                    /\ CancelOnStripe(s)
                    /\ Only(w, u) /\ u.stage = "sweep_cancel"
                    /\ u.subs = task[w].subs \ {s}
                    /\ u.op = task[w].op /\ u.sub = task[w].sub /\ u.event = task[w].event
                    /\ u.plan = task[w].plan /\ u.status = task[w].status
                    /\ u.old = task[w].old /\ u.list = task[w].list
<1>1. Busy(w) /\ task[w].stage = "sweep_cancel"
  BY BusyAt DEF CancelOrphan
<1>2. task[w].op = "completed"
  BY <1>1, OpsAt DEF OpsOf, Provided
<1>3. ASSUME NEW s \in task[w].subs, CancelOnStripe(s),
             task' = [task EXCEPT ![w].subs = @ \ {s}]
      PROVE  \E u \in Task :
                    /\ Only(w, u) /\ u.stage = "sweep_cancel"
                    /\ u.subs = task[w].subs \ {s}
                    /\ u.op = task[w].op /\ u.sub = task[w].sub /\ u.event = task[w].event
                    /\ u.plan = task[w].plan /\ u.status = task[w].status
                    /\ u.old = task[w].old /\ u.list = task[w].list
  <2>1. PICK u : u = [task[w] EXCEPT !.subs = task[w].subs \ {s}]
    OBVIOUS
  <2>2. Only(w, u)
    BY <1>3, <2>1 DEF Only, Typed
  <2>3. task[w] \in Task /\ task[w].subs \ {s} \in SUBSET Sub
    BY TaskIs
  <2>4. /\ u \in Task /\ u.stage = task[w].stage /\ u.subs = task[w].subs \ {s}
        /\ u.op = task[w].op /\ u.sub = task[w].sub /\ u.event = task[w].event
        /\ u.plan = task[w].plan /\ u.status = task[w].status
        /\ u.old = task[w].old /\ u.list = task[w].list
    BY <2>1, <2>3 DEF Task
  <2> QED BY <1>1, <2>2, <2>4
<1>4. \/ task[w].subs = {} /\ End(w) /\ UNCHANGED <<stripe, events>>
      \/ \E s \in task[w].subs :
            CancelOnStripe(s) /\ task' = [task EXCEPT ![w].subs = @ \ {s}]
  BY DEF CancelOrphan
<1> QED BY <1>1, <1>2, <1>3, <1>4

LEMMA CancelOrphanTyped ==
    ASSUME Typed, NEW w \in Worker, CancelOrphan(w)
    PROVE  Typed'
<1>1. /\ stripe' \in [Sub -> [status : SubStatus, plan : Sold]]
      /\ events' \in Seq(Event)
  BY CancelOrphanIs, CancelTyped DEF Typed, World
<1>2. World'
  BY <1>1 DEF Typed, World, CancelOrphan
<1>3. "sweep_cancel" \in StagesOf(task[w].op)
  BY CancelOrphanIs DEF StagesOf
<1> QED BY <1>2, <1>3, CancelOrphanIs, TaskIs, ChangedTyped, EndTyped

LEMMA UnlinkTyped ==
    ASSUME Typed, NEW w \in Worker, Unlink(w)
    PROVE  Typed'
<1>1. task[w].plan \in Plan
  BY TaskIs
<1>2. World'
  BY <1>1 DEF Typed, World, Unlink, Grant
<1> QED BY <1>2, EndTyped DEF Unlink

LEMMA DeprovisionTyped ==
    ASSUME Typed, NEW w \in Worker, Deprovision(w)
    PROVE  Typed'
<1>1. World' /\ At(w, "deprovision")
  BY DEF Typed, World, Deprovision
<1>2. \A op \in Operation : OpsOf(op, "deprovision") => "cancel_rows" \in StagesOf(op)
  BY DEF OpsOf, StagesOf, Ended
<1> QED BY <1>1, <1>2, StepTyped DEF Deprovision, Stage

LEMMA CancelRowsTyped ==
    ASSUME Typed, NEW w \in Worker, CancelRows(w)
    PROVE  Typed'
<1>1. rows' \subseteq rows
  BY DEF CancelRows
<1>2. IsFiniteSet(rows')
  BY <1>1, FS_Subset DEF Typed, World
<1>3. World' /\ At(w, "cancel_rows")
  BY <1>1, <1>2 DEF Typed, World, CancelRows
<1>4. \A op \in Operation : OpsOf(op, "cancel_rows") => "reset" \in StagesOf(op)
  BY DEF OpsOf, StagesOf, Ended
<1> QED BY <1>3, <1>4, StepTyped DEF CancelRows, Stage

LEMMA ResetTyped ==
    ASSUME Typed, NEW w \in Worker, Reset(w)
    PROVE  Typed'
<1>1. World' /\ At(w, "reset")
  BY PlansAre DEF Typed, World, Reset, SubStatus
<1>2. \A op \in Operation : OpsOf(op, "reset") => "free_row" \in StagesOf(op)
  BY DEF OpsOf, StagesOf, Ended
<1> QED BY <1>1, <1>2, StepTyped DEF Reset, Stage

LEMMA FreeRowIs ==
    ASSUME Typed, NEW w \in Worker, FreeRow(w)
    PROVE  /\ Busy(w) /\ task[w].stage = "free_row"
           /\ \E r \in Row :
                 /\ r.id = NewId /\ r.plan = "free" /\ r.sub = NoSub
                 /\ rows' = rows \cup {r}
           /\ End(w)
<1>1. Busy(w) /\ task[w].stage = "free_row"
  BY BusyAt DEF FreeRow
<1>2. PICK r : r = [id |-> NewId, plan |-> "free", sub |-> NoSub]
  OBVIOUS
<1>3. r \in Row /\ r.id = NewId /\ r.plan = "free" /\ r.sub = NoSub
  BY <1>2, NewIdIs, PlansAre DEF Row
<1> QED BY <1>1, <1>2, <1>3 DEF FreeRow

LEMMA FreeRowTyped ==
    ASSUME Typed, NEW w \in Worker, FreeRow(w)
    PROVE  Typed'
<1>1. World'
  BY FreeRowIs, RowAdded DEF Typed, World, FreeRow
<1> QED BY <1>1, EndTyped DEF FreeRow

LEMMA SummaryIs ==
    ASSUME Typed, NEW w \in Worker, Summary(w)
    PROVE  /\ Busy(w) /\ task[w].stage = "summary" /\ task[w].op = "updated"
           /\ \/ task[w].status \in TERMINAL_BILLING_STATUSES /\ GoTo(w, "deprovision")
              \/ /\ task[w].status \notin TERMINAL_BILLING_STATUSES
                 /\ task[w].plan # org.plan /\ GoTo(w, "list")
              \/ /\ task[w].status \notin TERMINAL_BILLING_STATUSES
                 /\ task[w].plan = org.plan /\ GoTo(w, "metadata")
<1>1. Busy(w) /\ task[w].stage = "summary"
  BY BusyAt DEF Summary
<1>2. task[w].op = "updated"
  BY <1>1, OpsAt DEF OpsOf
<1> QED BY <1>1, <1>2 DEF Summary

LEMMA SummaryTyped ==
    ASSUME Typed, NEW w \in Worker, Summary(w)
    PROVE  Typed'
<1>1. World'
  BY DEF Typed, World, Summary
<1>2. \E x \in {"deprovision", "list", "metadata"} : GoTo(w, x)
  BY SummaryIs
<1>3. {"deprovision", "list", "metadata"} \subseteq StagesOf("updated") \cap (Stage \ {"idle"})
  BY DEF StagesOf, Provided, Ended, Stage
<1> QED BY <1>1, <1>2, <1>3, SummaryIs, GoToTyped

LEMMA WriteStatusIs ==
    ASSUME Typed, NEW w \in Worker, WriteStatus(w)
    PROVE  /\ Busy(w) /\ task[w].stage = "metadata"
           /\ task[w].op \in {"updated", "paid", "failed", "sweep"}
           /\ org'.plan = org.plan /\ org'.sub = org.sub
           /\ org'.status = task[w].status
           /\ org'.by = IF task[w].op = "sweep" THEN org.by ELSE "stripe"
           /\ org' \in [plan : Plan, sub : Sub \cup {NoSub},
                status : {"none", "manual"} \cup SubStatus,
                by : {"signup", "stripe", "admin", "billing_sweep"}]
           /\ End(w)
<1>1. Busy(w) /\ task[w].stage = "metadata"
  BY BusyAt DEF WriteStatus
<1>2. task[w].op \in {"updated", "paid", "failed", "sweep"}
  BY <1>1, OpsAt DEF OpsOf
<1>3. task[w].status \in {"none", "manual"} \cup SubStatus
  BY TaskIs DEF Task
<1>4. org' = [org EXCEPT !.status = task[w].status,
                         !.by = IF task[w].op = "sweep" THEN @ ELSE "stripe"]
  BY DEF WriteStatus
<1>5. End(w)
  BY DEF WriteStatus
<1>6. PICK op : op = task[w].op
  OBVIOUS
<1>7. PICK st : st = task[w].status
  OBVIOUS
<1>8. org' = [org EXCEPT !.status = st, !.by = IF op = "sweep" THEN org.by ELSE "stripe"]
  BY <1>4, <1>6, <1>7
<1> QED BY <1>1, <1>2, <1>3, <1>5, <1>6, <1>7, <1>8 DEF Typed, World

LEMMA WriteStatusTyped ==
    ASSUME Typed, NEW w \in Worker, WriteStatus(w)
    PROVE  Typed'
<1>1. World'
  BY WriteStatusIs DEF Typed, World, WriteStatus
<1> QED BY <1>1, EndTyped DEF WriteStatus

LEMMA InvoiceTyped ==
    ASSUME Typed, NEW w \in Worker, Invoice(w)
    PROVE  Typed'
<1>1. World' /\ At(w, "org")
  BY DEF Typed, World, Invoice
<1>2. \A op \in Operation : OpsOf(op, "org") => "metadata" \in StagesOf(op)
  BY DEF OpsOf, StagesOf
<1> QED BY <1>1, <1>2, StepTyped DEF Invoice, Stage

LEMMA VerifyTyped ==
    ASSUME Typed, NEW w \in Worker, Verify(w)
    PROVE  Typed'
<1>1. World' /\ At(w, "verify")
  BY DEF Typed, World, Verify
<1>2. \A op \in Operation : OpsOf(op, "verify") => "check" \in StagesOf(op)
  BY DEF OpsOf, StagesOf
<1> QED BY <1>1, <1>2, StepTyped DEF Verify, Stage

(* A handler goes on with the status it has read on Stripe.                 *)
Informed(w, st, x) ==
    \E u \in Task :
       /\ Only(w, u) /\ u.stage = x /\ u.status = st
       /\ u.op = task[w].op /\ u.sub = task[w].sub /\ u.event = task[w].event
       /\ u.plan = task[w].plan /\ u.old = task[w].old
       /\ u.list = task[w].list /\ u.subs = task[w].subs

LEMMA InformedIs ==
    ASSUME Typed, NEW w \in Worker, NEW st \in SubStatus, NEW x \in Stage,
           task' = [task EXCEPT ![w].status = st, ![w].stage = x]
    PROVE  Informed(w, st, x)
<1>1. PICK u : u = [task[w] EXCEPT !.status = st, !.stage = x]
  OBVIOUS
<1>2. Only(w, u)
  BY <1>1 DEF Only, Typed
<1>3. task[w] \in Task
  BY TaskIs
<1>4. /\ u \in Task /\ u.stage = x /\ u.status = st
      /\ u.op = task[w].op /\ u.sub = task[w].sub /\ u.plan = task[w].plan
      /\ u.old = task[w].old /\ u.list = task[w].list
      /\ u.subs = task[w].subs /\ u.event = task[w].event
  BY <1>1, <1>3 DEF Task
<1> QED BY <1>2, <1>4 DEF Informed

LEMMA InformedTyped ==
    ASSUME Typed, World', NEW w \in Worker, Busy(w), NEW st, NEW x, Informed(w, st, x),
           task[w].op # "admin", x \in StagesOf(task[w].op), x # "idle"
    PROVE  Typed'
<1>1. IsFiniteSet(task[w].list)
  BY TaskIs
<1> QED BY <1>1, ChangedTyped DEF Informed

LEMMA StatusTyped ==
    ASSUME Typed, NEW s \in Sub
    PROVE  /\ stripe[s] \in [status : SubStatus, plan : Sold]
           /\ stripe[s].status \in SubStatus /\ stripe[s].plan \in Sold
BY DEF Typed, World

LEMMA CheckIs ==
    ASSUME Typed, NEW w \in Worker, Check(w)
    PROVE  /\ Busy(w) /\ task[w].stage = "check" /\ task[w].sub \in Sub
           /\ \/ task[w].op = "verify" /\ ~ Live(task[w].sub) /\ End(w)
              \/ /\ task[w].op = "verify" /\ Live(task[w].sub)
                 /\ Informed(w, stripe[task[w].sub].status, "list")
              \/ /\ task[w].op = "cancel" /\ stripe[task[w].sub].status = "canceled"
                 /\ GoTo(w, "deprovision")
              \/ /\ task[w].op = "cancel" /\ stripe[task[w].sub].status # "canceled"
                 /\ GoTo(w, "hard_cancel")
<1>1. Busy(w) /\ task[w].stage = "check"
  BY BusyAt DEF Check
<1>2. task[w].op \in {"verify", "cancel"}
  BY <1>1, OpsAt DEF OpsOf
<1>3. task[w].sub \in Sub
  BY <1>1, <1>2, TaskIs
<1>4. PICK st \in SubStatus : st = stripe[task[w].sub].status
  BY <1>3, StatusTyped
<1>5. CASE task[w].op = "verify" /\ ~ Live(task[w].sub)
  BY <1>1, <1>3, <1>5 DEF Check
<1>6. CASE task[w].op = "verify" /\ Live(task[w].sub)
  <2>1. task' = [task EXCEPT ![w].status = st, ![w].stage = "list"]
    BY <1>4, <1>6 DEF Check
  <2>2. "list" \in Stage
    BY DEF Stage
  <2> QED BY <1>1, <1>3, <1>4, <1>6, <2>1, <2>2, InformedIs
<1>7. CASE task[w].op = "cancel"
  BY <1>1, <1>3, <1>7 DEF Check
<1> QED BY <1>2, <1>5, <1>6, <1>7

LEMMA CheckTyped ==
    ASSUME Typed, NEW w \in Worker, Check(w)
    PROVE  Typed'
<1>1. World'
  BY DEF Typed, World, Check
<1>2. {"deprovision", "hard_cancel"} \subseteq StagesOf("cancel") \cap (Stage \ {"idle"})
  BY DEF StagesOf, Ended, Stage
<1>3. "list" \in StagesOf("verify")
  BY DEF StagesOf, Provided
<1> QED BY <1>1, <1>2, <1>3, CheckIs, EndTyped, GoToTyped, InformedTyped

LEMMA HardCancelIs ==
    ASSUME Typed, NEW w \in Worker, HardCancel(w)
    PROVE  /\ Busy(w) /\ task[w].stage = "hard_cancel" /\ task[w].op = "cancel"
           /\ task[w].sub \in Sub /\ CancelOnStripe(task[w].sub)
           /\ IF stripe[task[w].sub].status = "canceled" THEN End(w)
                                                         ELSE GoTo(w, "deprovision")
<1>1. Busy(w) /\ task[w].stage = "hard_cancel"
  BY BusyAt DEF HardCancel
<1>2. task[w].op = "cancel"
  BY <1>1, OpsAt DEF OpsOf
<1> QED BY <1>1, <1>2, TaskIs DEF HardCancel

LEMMA HardCancelTyped ==
    ASSUME Typed, NEW w \in Worker, HardCancel(w)
    PROVE  Typed'
<1>1. /\ stripe' \in [Sub -> [status : SubStatus, plan : Sold]]
      /\ events' \in Seq(Event)
  BY HardCancelIs, CancelTyped DEF Typed
<1>2. World'
  BY <1>1 DEF Typed, World, HardCancel
<1>3. "deprovision" \in StagesOf("cancel") \cap (Stage \ {"idle"})
  BY DEF StagesOf, Ended, Stage
<1> QED BY <1>2, <1>3, HardCancelIs, EndTyped, GoToTyped

LEMMA ModifyOnStripeIs ==
    ASSUME Typed, NEW w \in Worker, ModifyOnStripe(w)
    PROVE  /\ Busy(w) /\ task[w].stage = "modify" /\ task[w].op = "modify"
           /\ task[w].sub \in Sub
           /\ \/ /\ stripe[task[w].sub].status = "canceled"
                 /\ End(w) /\ UNCHANGED <<stripe, events>>
              \/ \E after \in [status : SubStatus, plan : Sold] :
                    /\ stripe[task[w].sub].status # "canceled"
                    /\ after = [stripe[task[w].sub] EXCEPT !.plan = task[w].plan]
                    /\ after.status = stripe[task[w].sub].status
                    /\ after.plan = task[w].plan
                    /\ stripe' = [stripe EXCEPT ![task[w].sub] = after]
                    /\ events' = Emitted("updated", task[w].sub, after)
                    /\ Informed(w, stripe[task[w].sub].status, "list")
<1>1. Busy(w) /\ task[w].stage = "modify"
  BY BusyAt DEF ModifyOnStripe
<1>2. task[w].op = "modify"
  BY <1>1, OpsAt DEF OpsOf
<1>3. task[w].sub \in Sub /\ task[w].plan \in Sold
  BY <1>1, <1>2, TaskIs
<1>4. CASE stripe[task[w].sub].status = "canceled"
  BY <1>1, <1>2, <1>3, <1>4 DEF ModifyOnStripe
<1>5. CASE stripe[task[w].sub].status # "canceled"
  <2>1. PICK after : after = [stripe[task[w].sub] EXCEPT !.plan = task[w].plan]
    OBVIOUS
  <2>2. /\ after \in [status : SubStatus, plan : Sold]
        /\ after.status = stripe[task[w].sub].status
        /\ after.plan = task[w].plan
    BY <1>3, <2>1, StatusTyped
  <2>3. /\ stripe' = [stripe EXCEPT ![task[w].sub] = after]
        /\ events' = Emitted("updated", task[w].sub, after)
        /\ task' = [task EXCEPT ![w].status = after.status, ![w].stage = "list"]
    BY <1>5, <2>1 DEF ModifyOnStripe
  <2>4. stripe[task[w].sub].status \in SubStatus /\ "list" \in Stage
    BY <1>3, StatusTyped DEF Stage
  <2>5. Informed(w, stripe[task[w].sub].status, "list")
    BY <2>2, <2>3, <2>4, InformedIs
  <2> QED BY <1>1, <1>2, <1>3, <1>5, <2>1, <2>2, <2>3, <2>5
<1> QED BY <1>4, <1>5

LEMMA SyncStaleIs ==
    ASSUME Typed, NEW w \in Worker, SyncStale(w)
    PROVE  /\ Busy(w) /\ task[w].stage = "stale" /\ task[w].op = "sweep"
           /\ task[w].sub \in Sub \cup {NoSub}
           /\ \/ task[w].sub = NoSub /\ GoTo(w, "list")
              \/ /\ task[w].sub \in Sub /\ stripe[task[w].sub].status = "active"
                 /\ Informed(w, "active", "metadata")
              \/ /\ task[w].sub \in Sub
                 /\ stripe[task[w].sub].status \in TERMINAL_BILLING_STATUSES
                 /\ GoTo(w, "deprovision")
              \/ End(w)
<1>1. Busy(w) /\ task[w].stage = "stale"
  BY BusyAt DEF SyncStale
<1>2. task[w].op = "sweep"
  BY <1>1, OpsAt DEF OpsOf
<1>3. task[w].sub \in Sub \cup {NoSub}
  BY TaskIs
<1>4. CASE task[w].sub = NoSub
  BY <1>1, <1>2, <1>3, <1>4 DEF SyncStale
<1>5. CASE task[w].sub # NoSub /\ stripe[task[w].sub].status = "active"
  <2>1. task' = [task EXCEPT ![w].status = "active", ![w].stage = "metadata"]
    BY <1>5 DEF SyncStale, TERMINAL_BILLING_STATUSES
  <2>2. "metadata" \in Stage /\ "active" \in SubStatus
    BY DEF Stage, SubStatus
  <2> QED BY <1>1, <1>2, <1>3, <1>5, <2>1, <2>2, InformedIs
<1>6. CASE task[w].sub # NoSub /\ stripe[task[w].sub].status # "active"
  BY <1>1, <1>2, <1>3, <1>6 DEF SyncStale
<1> QED BY <1>4, <1>5, <1>6

LEMMA SyncStaleTyped ==
    ASSUME Typed, NEW w \in Worker, SyncStale(w)
    PROVE  Typed'
<1>1. World'
  BY DEF Typed, World, SyncStale
<1>2. {"list", "deprovision", "metadata"} \subseteq StagesOf("sweep") \cap (Stage \ {"idle"})
  BY DEF StagesOf, Provided, Ended, Stage
<1>3. "active" \in SubStatus
  BY DEF SubStatus
<1> QED BY <1>1, <1>2, <1>3, SyncStaleIs, EndTyped, GoToTyped, InformedTyped

LEMMA CrashIs ==
    ASSUME Typed, NEW w \in Worker, Crash(w)
    PROVE  /\ Busy(w) /\ End(w)
           /\ spent.crashes < MaxCrashes /\ spent' = [spent EXCEPT !.crashes = @ + 1]
           /\ \/ task[w].op \notin EventKind /\ task[w].event = << >> /\ events' = events
              \/ \E e \in Event :
                    /\ task[w].op \in EventKind /\ e.kind = task[w].op
                    /\ e.sub = task[w].sub /\ task[w].event = <<e>>
                    /\ events' = <<e>> \o events
           /\ events' \in Seq(Event)
<1>1. Busy(w) /\ Fits(task[w])
  BY TaskIs DEF Crash
<1>2. events \in Seq(Event) /\ events' = task[w].event \o events
  BY DEF Typed, World, Crash
<1>3. CASE task[w].op \in EventKind
  <2>1. PICK e \in Event :
           task[w].event = <<e>> /\ e.kind = task[w].op /\ e.sub = task[w].sub
    BY <1>1, <1>3 DEF Fits
  <2>2. events' = <<e>> \o events
    BY <1>2, <2>1
  <2>3. events' \in Seq(Event)
    BY <1>2, <2>2
  <2> QED BY <1>1, <1>3, <2>1, <2>2, <2>3 DEF Crash
<1>4. CASE task[w].op \notin EventKind
  <2>1. task[w].event = << >>
    BY <1>1, <1>4 DEF Fits
  <2>2. events' = events
    BY <1>2, <2>1
  <2> QED BY <1>1, <1>2, <1>4, <2>1, <2>2 DEF Crash
<1> QED BY <1>3, <1>4

LEMMA CrashTyped ==
    ASSUME Typed, NEW w \in Worker, Crash(w)
    PROVE  Typed'
<1>1. events' \in Seq(Event) /\ End(w)
  BY CrashIs
<1>2. spent' \in [changes : 0 .. MaxChanges, requests : 0 .. MaxRequests,
                  crashes : 0 .. MaxCrashes]
  <2>1. spent' = [spent EXCEPT !.crashes = @ + 1] /\ spent.crashes < MaxCrashes
    BY DEF Crash
  <2> QED BY <2>1, PlanAssumption DEF Typed, World
<1>3. World'
  BY <1>1, <1>2 DEF Typed, World, Crash
<1> QED BY <1>1, <1>3, EndTyped

LEMMA ModifyOnStripeTyped ==
    ASSUME Typed, NEW w \in Worker, ModifyOnStripe(w)
    PROVE  Typed'
<1>1. CASE stripe[task[w].sub].status = "canceled"
  <2>1. End(w) /\ UNCHANGED <<stripe, events>>
    BY <1>1, ModifyOnStripeIs
  <2>2. World'
    BY <2>1 DEF Typed, World, ModifyOnStripe
  <2> QED BY <2>1, <2>2, EndTyped
<1>2. CASE stripe[task[w].sub].status # "canceled"
  <2>1. PICK after \in [status : SubStatus, plan : Sold] :
           /\ stripe' = [stripe EXCEPT ![task[w].sub] = after]
           /\ events' = Emitted("updated", task[w].sub, after)
           /\ Informed(w, stripe[task[w].sub].status, "list")
    BY <1>2, ModifyOnStripeIs
  <2>2. /\ Busy(w) /\ task[w].op = "modify" /\ task[w].sub \in Sub
        /\ "updated" \in EventKind /\ "list" \in StagesOf("modify")
    BY ModifyOnStripeIs DEF EventKind, StagesOf, Provided
  <2>3. events' \in Seq(Event)
    BY <2>1, <2>2, EmittedTyped DEF Typed
  <2>4. World'
    BY <2>1, <2>2, <2>3 DEF Typed, World, ModifyOnStripe
  <2> QED BY <2>1, <2>2, <2>4, InformedTyped
<1> QED BY <1>1, <1>2

-----------------------------------------------------------------------------
(* The initial states, and every step.                                      *)

LEMMA TypedInit ==
    ASSUME Init
    PROVE  Typed
<1>1. PICK r : r = [id |-> 1, plan |-> "free", sub |-> NoSub]
  OBVIOUS
<1>2. r \in Row
  BY <1>1, PlansAre DEF Row
<1>3. rows = {r}
  BY <1>1 DEF Init
<1>4. IsFiniteSet(rows)
  BY <1>3, FS_Singleton
<1>5. events \in Seq(Event)
  BY DEF Init
<1>6. stripe \in [Sub -> [status : SubStatus, plan : Sold]]
  BY DEF Init, SubStatus
<1>7. spent \in [changes : 0 .. MaxChanges, requests : 0 .. MaxRequests,
                 crashes : 0 .. MaxCrashes]
  BY PlanAssumption DEF Init
<1>8. World
  BY <1>2, <1>3, <1>4, <1>5, <1>6, <1>7, PlansAre DEF Init, World, Grant
<1>9. \A w \in Worker : WellFormed(task[w]) /\ task[w] \in Task
  BY IdleFormed DEF Init, WellFormed
<1> QED BY <1>8, <1>9 DEF Typed, Init

LEMMA TypedStep ==
    ASSUME Typed, Next
    PROVE  Typed'
<1>1. CASE People
  BY <1>1, PaysTyped, PageTyped, CheckoutTyped, CancelRequestTyped, PageVerifiesTyped,
     ModifyTyped, AdminTyped DEF People
<1>2. ASSUME NEW s \in Sub, NEW to \in SubStatus, BillingMoves(s, to)
      PROVE  Typed'
  BY <1>2, BillingTyped
<1>3. ASSUME NEW w \in Worker, Deliver(w) \/ Sweep(w) \/ Crash(w)
      PROVE  Typed'
  BY <1>3, DeliverTyped, SweepTyped, CrashTyped
<1>4. ASSUME NEW w \in Worker, Provisioning(w)
      PROVE  Typed'
  BY <1>4, GuardTyped, CancelOldTyped, RetrieveTyped, ListRowsTyped, ClearRowTyped,
     CreateRowTyped, WritePlanTyped, SweepOrphansTyped, CancelOrphanTyped, UnlinkTyped
     DEF Provisioning
<1>5. ASSUME NEW w \in Worker, Deprovisioning(w)
      PROVE  Typed'
  BY <1>5, DeprovisionTyped, CancelRowsTyped, ResetTyped, FreeRowTyped DEF Deprovisioning
<1>6. ASSUME NEW w \in Worker, Step(w)
      PROVE  Typed'
  BY <1>4, <1>5, <1>6, SummaryTyped, WriteStatusTyped, InvoiceTyped, VerifyTyped,
     CheckTyped, HardCancelTyped, ModifyOnStripeTyped, SyncStaleTyped DEF Step
<1> QED BY <1>1, <1>2, <1>3, <1>6 DEF Next

LEMMA TypedStutter ==
    ASSUME Typed, UNCHANGED vars
    PROVE  Typed'
<1>1. World'
  BY DEF Typed, World, vars
<1> QED BY <1>1 DEF Typed, vars

LEMMA TypedAlways == Spec => []Typed
<1>1. Init => Typed
  BY TypedInit
<1>2. Typed /\ [Next]_vars => Typed'
  BY TypedStep, TypedStutter
<1> QED BY <1>1, <1>2, PTL DEF Spec

(* Every variable keeps its type, and no two rows have one id: a row's id   *)
(* is used by no row, and by no handler that still has it to deactivate.    *)
THEOREM TypeCorrect == Spec => []TypeOK
<1>1. Typed => TypeOK
  BY DEF Typed, World, TypeOK
<1> QED BY <1>1, TypedAlways, PTL

-----------------------------------------------------------------------------
(* At most one live subscription: the invariant Orphans.                    *)

EventsStay == \A i \in DOMAIN events : \E j \in DOMAIN events' : events'[j] = events[i]

(* Nothing becomes active.                                                  *)
NothingStarts ==
    \A s \in Sub : stripe'[s].status \in {stripe[s].status, "canceled"}

LEMMA AppendStays ==
    ASSUME World, NEW e, events' = Append(events, e)
    PROVE  EventsStay
BY DEF World, EventsStay

LEMMA SameStays ==
    ASSUME events' = events
    PROVE  EventsStay
BY DEF EventsStay

LEMMA SameStarts ==
    ASSUME stripe' = stripe
    PROVE  NothingStarts
BY DEF NothingStarts

LEMMA CancelIs ==
    ASSUME World, NEW s, CancelOnStripe(s)
    PROVE  /\ EventsStay /\ NothingStarts
           /\ s \in Sub => stripe'[s].status # "active"
<1>1. CASE s \in Sub /\ Standing(s)
  <2>1. PICK after : after = [stripe[s] EXCEPT !.status = "canceled"]
    OBVIOUS
  <2>2. stripe' = [stripe EXCEPT ![s] = after] /\ events' = Emitted("deleted", s, after)
    BY <1>1, <2>1 DEF CancelOnStripe
  <2>3. after.status = "canceled"
    BY <1>1, <2>1 DEF World
  <2>4. EventsStay
    BY <2>2, AppendStays DEF Emitted
  <2>5. NothingStarts
    BY <2>2, <2>3 DEF NothingStarts, World
  <2> QED BY <1>1, <2>2, <2>3, <2>4, <2>5 DEF World
<1>2. CASE ~ (s \in Sub /\ Standing(s))
  <2>1. UNCHANGED <<stripe, events>>
    BY <1>2 DEF CancelOnStripe
  <2>2. s \in Sub => stripe'[s].status # "active"
    BY <1>2, <2>1 DEF Standing, Live
  <2> QED BY <2>1, <2>2, SameStays, SameStarts
<1> QED BY <1>1, <1>2

Sweeping(t) == t.stage # "idle" /\ t.op = "completed" /\ t.stage # "sweep_cancel"

LEMMA SweepingIs ==
    ToSweep <=> \/ \E i \in DOMAIN events : events[i].kind = "completed"
                \/ \E w \in Worker : Sweeping(task[w])
BY DEF ToSweep, Busy, Sweeping

LEMMA SweepingIsNext ==
    ToSweep' <=> \/ \E i \in DOMAIN events' : events'[i].kind = "completed"
                 \/ \E w \in Worker : Sweeping(task'[w])
BY DEF ToSweep, Busy, Sweeping

(* The step of one handler.                                                 *)
LEMMA OrphansKept ==
    ASSUME Typed, Orphans, NEW w \in Worker, NEW t, Only(w, t),
           spent'.changes = spent.changes, EventsStay, NothingStarts,
           Sweeping(task[w]) => Sweeping(t),
           task[w].stage = "sweep_cancel" =>
              \A s \in task[w].subs : stripe'[s].status = "active" =>
                  t.stage = "sweep_cancel" /\ s \in t.subs
    PROVE  Orphans'
<1> SUFFICES ASSUME spent.changes = 0
             PROVE  /\ \A s \in Sub : stripe'[s].status \in {"none", "open", "active", "canceled"}
                    /\ \A s, q \in Sub :
                         stripe'[s].status = "active" /\ stripe'[q].status = "active" /\ s # q
                           => ToSweep' \/ Swept(s)' \/ Swept(q)'
  BY DEF Orphans
<1>1. \A s \in Sub : stripe'[s].status \in {"none", "open", "active", "canceled"}
  BY DEF Orphans, NothingStarts
<1>2. ToSweep => ToSweep'
  <2>1. (\E i \in DOMAIN events : events[i].kind = "completed") => ToSweep'
    BY SweepingIsNext DEF EventsStay
  <2>2. ASSUME NEW v \in Worker, Sweeping(task[v]) PROVE ToSweep'
    <3>1. Sweeping(task'[v])
      BY <2>2, OnlyIs
    <3> QED BY <3>1, SweepingIsNext
  <2> QED BY <2>1, <2>2, SweepingIs
<1>3. \A s \in Sub : Swept(s) /\ stripe'[s].status = "active" => Swept(s)'
  <2>1. SUFFICES ASSUME NEW s \in Sub, stripe'[s].status = "active",
                        NEW v \in Worker, task[v].stage = "sweep_cancel", s \in task[v].subs
                 PROVE  task'[v].stage = "sweep_cancel" /\ s \in task'[v].subs
    BY DEF Swept, At
  <2> QED BY <2>1, OnlyIs
<1>4. ASSUME NEW s \in Sub, stripe'[s].status = "active"
      PROVE  stripe[s].status = "active"
  BY <1>4 DEF NothingStarts
<1> QED BY <1>1, <1>2, <1>3, <1>4 DEF Orphans

(* Handlers that are not of a paid checkout, and those of one that goes on. *)
LEMMA OtherKeepsOrphans ==
    ASSUME Typed, Orphans, NEW w \in Worker, NEW t, Only(w, t),
           spent'.changes = spent.changes, EventsStay, NothingStarts,
           Busy(w) => task[w].op # "completed"
    PROVE  Orphans'
<1>1. ~ Sweeping(task[w])
  BY DEF Sweeping, Busy
<1>2. task[w].stage # "sweep_cancel"
  BY OpsAt DEF OpsOf, Busy
<1> QED BY <1>1, <1>2, OrphansKept

LEMMA SweepingKeepsOrphans ==
    ASSUME Typed, Orphans, NEW w \in Worker, NEW t, Only(w, t),
           spent'.changes = spent.changes, EventsStay, NothingStarts,
           task[w].stage # "sweep_cancel", Sweeping(task[w]) => Sweeping(t)
    PROVE  Orphans'
BY OrphansKept

LEMMA PaysKeepsOrphans ==
    ASSUME Typed, Orphans, NEW s \in Sub, CustomerPays(s)
    PROVE  Orphans'
<1>1. PICK after : after = [stripe[s] EXCEPT !.status = "active"]
  OBVIOUS
<1>2. PICK e : e = [kind |-> "completed", sub |-> s, status |-> after.status,
                    plan |-> after.plan]
  OBVIOUS
<1>3. PICK f : f = [kind |-> "paid", sub |-> s, status |-> "active", plan |-> after.plan]
  OBVIOUS
<1>4. after \in [status : SubStatus, plan : Sold] /\ after.status = "active"
  BY <1>1 DEF Typed, World, SubStatus
<1>5. e \in Event /\ f \in Event /\ e.kind = "completed"
  BY <1>2, <1>3, <1>4 DEF Event, EventKind, SubStatus
<1>6. events \in Seq(Event) /\ events' = Append(events, e) \o <<f>>
  BY <1>1, <1>2, <1>3 DEF CustomerPays, Emitted, Typed, World
<1>7. Len(events) + 1 \in DOMAIN events' /\ events'[Len(events) + 1] = e
  BY <1>5, <1>6
<1>8. ToSweep'
  BY <1>5, <1>7, SweepingIsNext
<1>9. stripe' = [stripe EXCEPT ![s] = after] /\ spent' = spent
  BY <1>1 DEF CustomerPays
<1>10. \A q \in Sub : stripe'[q].status \in {stripe[q].status, "active"}
  BY <1>4, <1>9 DEF Typed, World
<1> QED BY <1>8, <1>9, <1>10 DEF Orphans

LEMMA CheckoutKeepsOrphans ==
    ASSUME Typed, Orphans, NEW s \in Sub, NEW p \in Sold, Checkout(s, p)
    PROVE  Orphans'
<1>1. \A q \in Sub : stripe'[q].status \in {stripe[q].status, "open"}
  BY DEF Checkout, Typed, World
<1>2. UNCHANGED <<events, task>> /\ spent'.changes = spent.changes
  BY DEF Checkout, Ask, Typed, World
<1>3. ToSweep' <=> ToSweep
  BY <1>2 DEF ToSweep, Busy
<1>4. \A q \in Sub : Swept(q)' <=> Swept(q)
  BY <1>2 DEF Swept, At
<1> QED BY <1>1, <1>2, <1>3, <1>4 DEF Orphans

LEMMA PageKeepsOrphans ==
    ASSUME Orphans, NEW s \in Sub, PageSees(s)
    PROVE  Orphans'
BY DEF Orphans, PageSees, ToSweep, Swept, At, Busy

LEMMA BillingKeepsOrphans ==
    ASSUME Typed, NEW s \in Sub, NEW to \in SubStatus, BillingMoves(s, to)
    PROVE  Orphans'
<1>1. spent' = [spent EXCEPT !.changes = @ + 1] /\ spent.changes \in Nat
  BY DEF BillingMoves, Typed, World
<1>2. spent'.changes # 0
  BY <1>1 DEF Typed, World
<1> QED BY <1>2 DEF Orphans

LEMMA BeginKeepsOrphans ==
    ASSUME Typed, Orphans, NEW w \in Worker, NEW op, NEW x, NEW s, NEW p, NEW st,
           Begin(w, op, x, s, p, st), UNCHANGED <<stripe, events>>,
           spent'.changes = spent.changes
    PROVE  Orphans'
BY BeginIs, SameStays, SameStarts, OtherKeepsOrphans

LEMMA RequestsKeepOrphans ==
    ASSUME Typed, Orphans, NEW w \in Worker,
           \/ Cancel(w) \/ Sweep(w)
           \/ \E s \in Sub : PageVerifies(w, s)
           \/ \E p \in Sold : Modify(w, p)
           \/ \E p \in Plan : AdminSetPlan(w, p)
    PROVE  Orphans'
<1>1. UNCHANGED <<stripe, events>>
  BY DEF Cancel, Sweep, PageVerifies, Modify, AdminSetPlan
<1>2. spent'.changes = spent.changes
  <2>1. spent' = spent \/ spent' = [spent EXCEPT !.requests = @ + 1]
    BY DEF Cancel, Sweep, PageVerifies, Modify, AdminSetPlan, Ask
  <2> QED BY <2>1 DEF Typed, World
<1>3. \E op, x, s, p, st : Begin(w, op, x, s, p, st)
  BY DEF Cancel, Sweep, PageVerifies, Modify, AdminSetPlan
<1> QED BY <1>1, <1>2, <1>3, BeginKeepsOrphans

LEMMA DeliverKeepsOrphans ==
    ASSUME Typed, Orphans, NEW w \in Worker, Deliver(w)
    PROVE  Orphans'
<1>1. PICK e \in Event : e = Head(events) /\ Only(w, Webhook(e)) /\ events' = Tail(events)
  BY DeliverIs
<1>2. events \in Seq(Event) /\ events # << >>
  BY DeliverIs DEF Typed, World
<1>3. ~ Busy(w) /\ UNCHANGED <<stripe, spent>>
  BY DEF Deliver
<1>4. PICK t : t = Webhook(e)
  OBVIOUS
<1>5. e.kind = "completed" => Sweeping(t)
  BY <1>4, WebhookIs DEF Sweeping, FirstStage, Event, EventKind
<1>6. \A v \in Worker : Sweeping(task[v]) => Sweeping(task'[v])
  BY <1>1, <1>3, OnlyIs DEF Sweeping, Busy
<1>7. \A s \in Sub : Swept(s) => Swept(s)'
  BY <1>1, <1>3, OnlyIs DEF Swept, At, Busy
<1>8. ToSweep => ToSweep'
  <2>1. ASSUME NEW i \in DOMAIN events, events[i].kind = "completed"
        PROVE  ToSweep'
    <3>1. CASE i = 1
      <4>1. e.kind = "completed"
        BY <1>1, <1>2, <2>1, <3>1
      <4>2. Sweeping(task'[w])
        BY <1>1, <1>4, <1>5, <4>1, OnlyIs
      <4> QED BY <4>2, SweepingIsNext
    <3>2. CASE i # 1
      <4>1. i - 1 \in DOMAIN events' /\ events'[i - 1] = events[i]
        BY <1>1, <1>2, <3>2
      <4> QED BY <2>1, <4>1, SweepingIsNext
    <3> QED BY <3>1, <3>2
  <2> QED BY <1>6, <2>1, SweepingIs, SweepingIsNext
<1> QED BY <1>3, <1>7, <1>8 DEF Orphans

LEMMA CrashKeepsOrphans ==
    ASSUME Typed, Orphans, NEW w \in Worker, Crash(w)
    PROVE  Orphans'
<1>1. Only(w, Idle) /\ UNCHANGED stripe /\ Busy(w)
  BY EndIs, CrashIs DEF Crash
<1>2. spent'.changes = spent.changes
  <2>1. spent' = [spent EXCEPT !.crashes = @ + 1]
    BY DEF Crash
  <2> QED BY <2>1 DEF Typed, World
<1>3. CASE task[w].op = "completed"
  <2>1. PICK e \in Event : e.kind = "completed" /\ events' = <<e>> \o events
    BY <1>3, CrashIs DEF EventKind
  <2>2. 1 \in DOMAIN events' /\ events'[1] = e
    BY <2>1 DEF Typed, World
  <2>3. ToSweep'
    BY <2>1, <2>2, SweepingIsNext
  <2> QED BY <1>1, <1>2, <2>3 DEF Orphans
<1>4. CASE task[w].op # "completed"
  <2>1. EventsStay
    <3>1. CASE events' = events
      BY <3>1, SameStays
    <3>2. CASE \E e \in Event : events' = <<e>> \o events
      <4>1. PICK e \in Event : events' = <<e>> \o events
        BY <3>2
      <4>2. \A i \in DOMAIN events : i + 1 \in DOMAIN events' /\ events'[i + 1] = events[i]
        BY <4>1 DEF Typed, World
      <4> QED BY <4>2 DEF EventsStay
    <3> QED BY <3>1, <3>2, CrashIs
  <2> QED BY <1>1, <1>2, <1>4, <2>1, SameStarts, OtherKeepsOrphans
<1> QED BY <1>3, <1>4

(* A handler's steps that change nothing on Stripe.                         *)
LEMMA AwayKeepsOrphans ==
    ASSUME Typed, Orphans, NEW w \in Worker, NEW x, At(w, x), x # "idle",
           UNCHANGED <<stripe, events, spent>>, NEW t, Only(w, t),
           x # "sweep_cancel", Sweeping(task[w]) => Sweeping(t)
    PROVE  Orphans'
BY SameStays, SameStarts, SweepingKeepsOrphans DEF At

LEMMA GoesKeepsOrphans ==
    ASSUME Typed, Orphans, NEW w \in Worker, NEW x, At(w, x), x # "idle",
           UNCHANGED <<stripe, events, spent>>, x # "sweep_cancel",
           NEW y \in Stage \ {"idle", "sweep_cancel"}, GoTo(w, y)
    PROVE  Orphans'
<1>1. Only(w, [task[w] EXCEPT !.stage = y]) /\ task[w] \in Task
  BY GoToIs, TaskIs
<1>2. Sweeping(task[w]) => Sweeping([task[w] EXCEPT !.stage = y])
  BY <1>1, Staged DEF Sweeping
<1> QED BY <1>1, <1>2, AwayKeepsOrphans

LEMMA EndsKeepsOrphans ==
    ASSUME Typed, Orphans, NEW w \in Worker, NEW x, At(w, x), x # "idle",
           UNCHANGED <<stripe, events, spent>>, End(w), ~ OpsOf("completed", x)
    PROVE  Orphans'
<1>1. task[w].op # "completed"
  BY BusyAt, OpsAt
<1> QED BY <1>1, EndIs, SameStays, SameStarts, OtherKeepsOrphans

LEMMA ProvisioningKeepsOrphans ==
    ASSUME Typed, Orphans, NEW w \in Worker, Provisioning(w)
    PROVE  Orphans'
<1>1. CASE Guard(w)
  <2>1. PICK u \in Task : Only(w, u) /\ u.stage = "cancel_old" /\ u.op = task[w].op
    BY <1>1, GuardIs
  <2>2. At(w, "guard") /\ UNCHANGED <<stripe, events, spent>>
    BY <1>1 DEF Guard
  <2>3. Sweeping(task[w]) => Sweeping(u)
    BY <2>1 DEF Sweeping
  <2> QED BY <2>1, <2>2, <2>3, AwayKeepsOrphans
<1>2. CASE CancelOld(w)
  <2>1. EventsStay /\ NothingStarts
    BY <1>2, CancelIs, SameStays, SameStarts DEF CancelOld, Typed
  <2>2. PICK y \in {"retrieve", "list"} : GoTo(w, y)
    BY <1>2 DEF CancelOld
  <2>3. Only(w, [task[w] EXCEPT !.stage = y]) /\ task[w] \in Task /\ y \in Stage
    BY <2>2, GoToIs, TaskIs DEF Stage
  <2>4. Sweeping(task[w]) => Sweeping([task[w] EXCEPT !.stage = y])
    BY <2>3, Staged DEF Sweeping
  <2>5. task[w].stage # "sweep_cancel" /\ spent' = spent
    BY <1>2 DEF CancelOld, At
  <2> QED BY <2>1, <2>3, <2>4, <2>5, SweepingKeepsOrphans
<1>3. CASE Retrieve(w)
  <2>1. PICK u \in Task : Only(w, u) /\ u.stage = "list" /\ u.op = task[w].op
    BY <1>3, RetrieveIs
  <2>2. At(w, "retrieve") /\ UNCHANGED <<stripe, events, spent>>
    BY <1>3 DEF Retrieve
  <2>3. Sweeping(task[w]) => Sweeping(u)
    BY <2>1 DEF Sweeping
  <2> QED BY <2>1, <2>2, <2>3, AwayKeepsOrphans
<1>4. CASE ListRows(w)
  <2>1. PICK u \in Task : Only(w, u) /\ u.stage = "clear" /\ u.op = task[w].op
    BY <1>4, ListRowsIs
  <2>2. At(w, "list") /\ UNCHANGED <<stripe, events, spent>>
    BY <1>4 DEF ListRows
  <2>3. Sweeping(task[w]) => Sweeping(u)
    BY <2>1 DEF Sweeping
  <2> QED BY <2>1, <2>2, <2>3, AwayKeepsOrphans
<1>5. CASE ClearRow(w)
  <2>1. PICK u \in Task : Only(w, u) /\ u.stage = "clear" /\ u.op = task[w].op
    BY <1>5, ClearRowIs
  <2>2. At(w, "clear") /\ UNCHANGED <<stripe, events, spent>>
    BY <1>5 DEF ClearRow
  <2>3. Sweeping(task[w]) => Sweeping(u)
    BY <2>1 DEF Sweeping
  <2> QED BY <2>1, <2>2, <2>3, AwayKeepsOrphans
<1>6. CASE CreateRow(w)
  BY <1>6, GoesKeepsOrphans DEF CreateRow, Stage
<1>7. CASE WritePlan(w)
  <2>1. At(w, "write") /\ UNCHANGED <<stripe, events, spent>>
    BY <1>7 DEF WritePlan
  <2>2. CASE task[w].op \in {"completed", "admin"}
    BY <1>7, <2>1, <2>2, WritePlanIs, GoesKeepsOrphans DEF Stage
  <2>3. CASE task[w].op \notin {"completed", "admin"}
    BY <1>7, <2>1, <2>3, WritePlanIs, EndIs, SameStays, SameStarts, OtherKeepsOrphans
  <2> QED BY <2>2, <2>3
<1>8. CASE SweepOrphans(w)
  <2>1. PICK u \in Task :
           /\ Only(w, u) /\ u.stage = "sweep_cancel" /\ task[w].stage = "sweep"
           /\ u.subs = {s \in Sub \ {task[w].sub} : stripe[s].status = "active"}
    BY <1>8, SweepOrphansIs
  <2>2. UNCHANGED <<stripe, events, spent>>
    BY <1>8 DEF SweepOrphans
  <2>3. \A s \in Sub \ {task[w].sub} : stripe[s].status = "active" => Swept(s)'
    <3>1. task'[w] = u
      BY <2>1, OnlyIs
    <3> QED BY <2>1, <3>1 DEF Swept, At
  <2> QED BY <2>2, <2>3 DEF Orphans
<1>9. CASE CancelOrphan(w)
  <2>1. task[w].stage = "sweep_cancel" /\ spent' = spent
    BY <1>9, CancelOrphanIs DEF CancelOrphan
  <2>2. CASE task[w].subs = {} /\ End(w) /\ UNCHANGED <<stripe, events>>
    BY <2>1, <2>2, EndIs, SameStays, SameStarts, OrphansKept DEF Sweeping
  <2>3. CASE ~ (task[w].subs = {} /\ End(w) /\ UNCHANGED <<stripe, events>>)
    <3>1. PICK s \in task[w].subs, u \in Task :
             /\ CancelOnStripe(s) /\ Only(w, u)
             /\ u.stage = "sweep_cancel" /\ u.subs = task[w].subs \ {s}
      BY <1>9, <2>3, CancelOrphanIs
    <3>2. s \in Sub
      BY TaskIs
    <3>3. EventsStay /\ NothingStarts /\ stripe'[s].status # "active"
      BY <3>1, <3>2, CancelIs DEF Typed
    <3> QED BY <2>1, <3>1, <3>3, OrphansKept DEF Sweeping
  <2> QED BY <2>2, <2>3
<1>10. CASE Unlink(w)
  BY <1>10, EndsKeepsOrphans DEF Unlink, OpsOf
<1> QED BY <1>1, <1>2, <1>3, <1>4, <1>5, <1>6, <1>7, <1>8, <1>9, <1>10 DEF Provisioning

LEMMA StepKeepsOrphans ==
    ASSUME Typed, Orphans, NEW w \in Worker, Step(w)
    PROVE  Orphans'
<1>1. CASE Deprovision(w)
  BY <1>1, GoesKeepsOrphans, EndsKeepsOrphans DEF Deprovision, Stage, OpsOf, Ended
<1>2. CASE CancelRows(w)
  BY <1>2, GoesKeepsOrphans DEF CancelRows, Stage
<1>3. CASE Reset(w)
  BY <1>3, GoesKeepsOrphans DEF Reset, Stage
<1>4. CASE FreeRow(w)
  BY <1>4, EndsKeepsOrphans DEF FreeRow, OpsOf, Ended
<1>5. CASE Summary(w)
  BY <1>5, SummaryIs, GoesKeepsOrphans DEF Summary, Stage
<1>6. CASE WriteStatus(w)
  BY <1>6, EndsKeepsOrphans DEF WriteStatus, OpsOf
<1>7. CASE Invoice(w)
  BY <1>7, GoesKeepsOrphans, EndsKeepsOrphans DEF Invoice, Stage, OpsOf
<1>8. CASE Verify(w)
  BY <1>8, GoesKeepsOrphans, EndsKeepsOrphans DEF Verify, Stage, OpsOf
<1>9. CASE Check(w)
  <2>1. At(w, "check") /\ UNCHANGED <<stripe, events, spent>>
    BY <1>9 DEF Check
  <2>2. CASE Informed(w, stripe[task[w].sub].status, "list")
    BY <2>1, <2>2, AwayKeepsOrphans DEF Informed, Sweeping
  <2> QED BY <1>9, <2>1, <2>2, CheckIs, GoesKeepsOrphans, EndsKeepsOrphans DEF Stage, OpsOf
<1>10. CASE HardCancel(w)
  <2>1. EventsStay /\ NothingStarts /\ task[w].op = "cancel" /\ spent' = spent
    BY <1>10, HardCancelIs, CancelIs DEF Typed, HardCancel
  <2>2. \E t : Only(w, t)
    BY <1>10, HardCancelIs, EndIs, GoToIs
  <2> QED BY <2>1, <2>2, OtherKeepsOrphans
<1>11. CASE ModifyOnStripe(w)
  <2>1. task[w].op = "modify" /\ spent' = spent
    BY <1>11, ModifyOnStripeIs DEF ModifyOnStripe
  <2>2. CASE End(w) /\ UNCHANGED <<stripe, events>>
    BY <2>1, <2>2, EndIs, SameStays, SameStarts, OtherKeepsOrphans
  <2>3. CASE ~ (End(w) /\ UNCHANGED <<stripe, events>>)
    <3>1. PICK after \in [status : SubStatus, plan : Sold] :
             /\ after.status = stripe[task[w].sub].status
             /\ stripe' = [stripe EXCEPT ![task[w].sub] = after]
             /\ events' = Emitted("updated", task[w].sub, after)
             /\ Informed(w, stripe[task[w].sub].status, "list")
      BY <1>11, <2>3, ModifyOnStripeIs
    <3>2. EventsStay
      BY <3>1, AppendStays DEF Emitted, Typed
    <3>3. NothingStarts
      BY <3>1 DEF NothingStarts, Typed, World
    <3> QED BY <2>1, <3>1, <3>2, <3>3, OtherKeepsOrphans DEF Informed
  <2> QED BY <2>2, <2>3
<1>12. CASE SyncStale(w)
  <2>1. UNCHANGED <<stripe, events, spent>> /\ task[w].op = "sweep"
    BY <1>12, SyncStaleIs DEF SyncStale
  <2>2. \E t : Only(w, t)
    BY <1>12, SyncStaleIs, EndIs, GoToIs DEF Informed
  <2> QED BY <2>1, <2>2, SameStays, SameStarts, OtherKeepsOrphans
<1>13. CASE Provisioning(w)
  BY <1>13, ProvisioningKeepsOrphans
<1> QED BY <1>1, <1>2, <1>3, <1>4, <1>5, <1>6, <1>7, <1>8, <1>9, <1>10, <1>11, <1>12, <1>13
       DEF Step, Deprovisioning

LEMMA OrphansStep ==
    ASSUME Typed, Orphans, Next
    PROVE  Orphans'
<1>1. CASE People
  BY <1>1, PaysKeepsOrphans, PageKeepsOrphans, CheckoutKeepsOrphans, RequestsKeepOrphans
     DEF People
<1>2. ASSUME NEW s \in Sub, NEW to \in SubStatus, BillingMoves(s, to)
      PROVE  Orphans'
  BY <1>2, BillingKeepsOrphans
<1>3. ASSUME NEW w \in Worker, Deliver(w) \/ Sweep(w) \/ Step(w) \/ Crash(w)
      PROVE  Orphans'
  BY <1>3, DeliverKeepsOrphans, RequestsKeepOrphans, StepKeepsOrphans, CrashKeepsOrphans
<1> QED BY <1>1, <1>2, <1>3 DEF Next

LEMMA OrphansAlways == Spec => [](Typed /\ Orphans)
<1>1. Init => Orphans
  BY DEF Init, Orphans
<1>2. Typed /\ Orphans /\ UNCHANGED vars => Orphans'
  BY DEF Orphans, ToSweep, Swept, At, Busy, vars
<1>3. Typed /\ Orphans /\ [Next]_vars => Orphans'
  BY <1>2, OrphansStep
<1>4. Init => Typed
  BY TypedInit
<1>5. Typed /\ [Next]_vars => Typed'
  BY TypedStep, TypedStutter
<1> QED BY <1>1, <1>3, <1>4, <1>5, PTL DEF Spec

(* A customer who pays several checkouts, in any order and with any restart *)
(* in between, pays for one subscription in the end: of two that are active *)
(* one is found by the sweep of a checkout still to be handled, or has been *)
(* found by one (_cancel_orphan_subs_for_customer).                         *)
THEOREM OnePaid == Spec => []OneLiveSub
<1>1. Typed /\ Orphans => OneLiveSub
  <2>1. SUFFICES ASSUME Typed, Orphans, Quiet, spent.changes = 0
                 PROVE  Cardinality(LiveSubs) <= 1
    BY DEF OneLiveSub
  <2>2. ~ ToSweep /\ \A s \in Sub : ~ Swept(s)
    BY <2>1 DEF Quiet, Still, Busy, ToSweep, Swept, At
  <2>3. \A s, q \in LiveSubs : s = q
    BY <2>1, <2>2 DEF Orphans, LiveSubs, Live
  <2>4. LiveSubs = {} \/ \E s : LiveSubs = {s}
    BY <2>3
  <2>5. Cardinality(LiveSubs) \in {0, 1}
    BY <2>4, FS_EmptySet, FS_Singleton
  <2> QED BY <2>5
<1> QED BY <1>1, OrphansAlways, PTL

-----------------------------------------------------------------------------
(* How a handler changes, whatever it does.                                 *)

Same(t, u) ==
    /\ u.op = t.op /\ u.sub = t.sub /\ u.plan = t.plan
    /\ u.event = t.event /\ u.old = t.old

Moves(w, u, x) ==
    /\ u \in Task /\ Only(w, u) /\ u.stage = x /\ Same(task[w], u)
    /\ u.status = task[w].status /\ u.list = task[w].list /\ u.subs = task[w].subs

LEMMA GoToMoves ==
    ASSUME Typed, NEW w \in Worker, NEW x \in Stage, GoTo(w, x)
    PROVE  \E u : Moves(w, u, x)
<1>1. PICK u : u = [task[w] EXCEPT !.stage = x]
  OBVIOUS
<1>2. Only(w, u) /\ task[w] \in Task
  BY <1>1, GoToIs, TaskIs
<1>3. /\ u \in Task /\ u.stage = x
      /\ u.op = task[w].op /\ u.sub = task[w].sub /\ u.plan = task[w].plan
      /\ u.status = task[w].status /\ u.old = task[w].old /\ u.list = task[w].list
      /\ u.subs = task[w].subs /\ u.event = task[w].event
  BY <1>1, <1>2, Staged
<1> QED BY <1>2, <1>3 DEF Moves, Same

LEMMA IdleIs ==
    /\ Idle \in Task /\ Idle.stage = "idle" /\ Idle.op = "sweep" /\ Idle.event = << >>
BY IdleFormed DEF WellFormed, Idle

(* A step ends the handler, or keeps its operation.                         *)
Steps(w, t) ==
    Busy(w) /\ Only(w, t) /\ t \in Task /\ (t.stage # "idle" => t.op = task[w].op)

LEMMA GoesSteps ==
    ASSUME Typed, NEW w \in Worker, NEW x, At(w, x), x # "idle",
           \/ End(w)
           \/ \E y \in Stage \ {"idle"} : GoTo(w, y)
    PROVE  \E t : Steps(w, t)
<1>1. Busy(w)
  BY BusyAt
<1>2. CASE End(w)
  BY <1>1, <1>2, EndIs, IdleIs DEF Steps
<1>3. ASSUME NEW y \in Stage \ {"idle"}, GoTo(w, y)
      PROVE  \E t : Steps(w, t)
  <2>1. PICK u : Moves(w, u, y)
    BY <1>3, GoToMoves
  <2> QED BY <1>1, <2>1 DEF Moves, Same, Steps
<1> QED BY <1>2, <1>3

LEMMA InformedSteps ==
    ASSUME Typed, NEW w \in Worker, Busy(w), NEW st, NEW x, Informed(w, st, x)
    PROVE  \E t : Steps(w, t)
BY DEF Informed, Steps

LEMMA StepIs ==
    ASSUME Typed, NEW w \in Worker, Step(w)
    PROVE  \E t : Steps(w, t)
<1>1. CASE Guard(w)
  BY <1>1, GuardIs DEF Steps
<1>2. CASE CancelOld(w)
  BY <1>2, GoesSteps DEF CancelOld, Stage
<1>3. CASE Retrieve(w)
  BY <1>3, RetrieveIs DEF Steps
<1>4. CASE ListRows(w)
  BY <1>4, ListRowsIs DEF Steps
<1>5. CASE ClearRow(w)
  BY <1>5, ClearRowIs DEF Steps
<1>6. CASE CreateRow(w)
  BY <1>6, GoesSteps DEF CreateRow, Stage
<1>7. CASE WritePlan(w)
  <2>1. At(w, "write")
    BY <1>7 DEF WritePlan
  <2>2. End(w) \/ GoTo(w, "sweep") \/ GoTo(w, "unlink")
    BY <1>7, WritePlanIs
  <2> QED BY <2>1, <2>2, GoesSteps DEF Stage
<1>8. CASE SweepOrphans(w)
  BY <1>8, SweepOrphansIs DEF Steps
<1>9. CASE CancelOrphan(w)
  BY <1>9, CancelOrphanIs, EndIs, IdleIs DEF Steps
<1>10. CASE Unlink(w)
  BY <1>10, GoesSteps DEF Unlink
<1>11. CASE Deprovisioning(w)
  BY <1>11, GoesSteps DEF Deprovisioning, Deprovision, CancelRows, Reset, FreeRow, Stage
<1>12. CASE Summary(w)
  <2>1. At(w, "summary")
    BY <1>12 DEF Summary
  <2> QED BY <1>12, <2>1, SummaryIs, GoesSteps DEF Stage
<1>13. CASE WriteStatus(w)
  BY <1>13, GoesSteps DEF WriteStatus
<1>14. CASE Invoice(w)
  BY <1>14, GoesSteps DEF Invoice, Stage
<1>15. CASE Verify(w)
  BY <1>15, GoesSteps DEF Verify, Stage
<1>16. CASE Check(w)
  <2>1. At(w, "check")
    BY <1>16 DEF Check
  <2> QED BY <1>16, <2>1, CheckIs, GoesSteps, InformedSteps DEF Stage
<1>17. CASE HardCancel(w)
  BY <1>17, GoesSteps DEF HardCancel, Stage
<1>18. CASE ModifyOnStripe(w)
  <2>1. At(w, "modify")
    BY <1>18 DEF ModifyOnStripe
  <2> QED BY <1>18, <2>1, ModifyOnStripeIs, GoesSteps, InformedSteps
<1>19. CASE SyncStale(w)
  <2>1. At(w, "stale")
    BY <1>19 DEF SyncStale
  <2> QED BY <1>19, <2>1, SyncStaleIs, GoesSteps, InformedSteps DEF Stage
<1> QED BY <1>1, <1>2, <1>3, <1>4, <1>5, <1>6, <1>7, <1>8, <1>9, <1>10, <1>11, <1>12,
           <1>13, <1>14, <1>15, <1>16, <1>17, <1>18, <1>19 DEF Step, Provisioning

-----------------------------------------------------------------------------
(* One request at a time.                                                   *)

LEMMA OneAsksKept ==
    ASSUME Typed, OneAsks, NEW w \in Worker, NEW t, Only(w, t),
           \/ Asks(t) => Asks(task[w])
           \/ \A v \in Worker : ~ Busy(v)
    PROVE  OneAsks'
<1>1. \A v \in Worker : v # w => task'[v] = task[v]
  BY OnlyIs
<1>2. task'[w] = t
  BY OnlyIs
<1>3. CASE Asks(t) => Asks(task[w])
  <2>1. \A v \in Worker : Asks(task'[v]) => Asks(task[v])
    BY <1>1, <1>2, <1>3
  <2> QED BY <2>1 DEF OneAsks
<1>4. CASE \A v \in Worker : ~ Busy(v)
  <2>1. \A v \in Worker : Asks(task'[v]) => v = w
    BY <1>1, <1>4 DEF Asks, Busy
  <2> QED BY <2>1 DEF OneAsks
<1> QED BY <1>3, <1>4

LEMMA OneAsksSame ==
    ASSUME OneAsks, UNCHANGED task
    PROVE  OneAsks'
BY DEF OneAsks

LEMMA OneAsksStep ==
    ASSUME Typed, OneAsks, Next, ~ hasty'
    PROVE  OneAsks'
<1>1. ASSUME NEW w \in Worker, NEW op, NEW x, NEW s, NEW p, NEW st,
             Begin(w, op, x, s, p, st), Begins
      PROVE  OneAsks'
  <2>1. \A v \in Worker : ~ Busy(v)
    BY <1>1, BeginsQuiet DEF Quiet, Still
  <2> QED BY <1>1, <2>1, BeginIs, OneAsksKept
<1>2. ASSUME NEW w \in Worker, NEW op \in {"verify", "sweep"}, NEW x \in Stage,
             NEW s \in Sub \cup {NoSub}, NEW p \in Plan,
             Begin(w, op, x, s, p, "none")
      PROVE  OneAsks'
  <2>1. PICK t : t = Begun(op, x, s, p, "none")
    OBVIOUS
  <2>2. op \in Operation /\ "none" \in SubStatus \cup {"manual"}
    BY DEF Operation, SubStatus
  <2>3. t.op = op
    BY <2>1, <2>2, BegunIs
  <2>4. Only(w, t)
    BY <1>2, <2>1, BeginIs
  <2>5. ~ Asks(t)
    BY <2>3 DEF Asks
  <2> QED BY <2>4, <2>5, OneAsksKept
<1>3. CASE People
  <2>1. ASSUME NEW s \in Sub, CustomerPays(s) \/ PageSees(s)
        PROVE  OneAsks'
    BY <2>1, OneAsksSame DEF CustomerPays, PageSees
  <2>2. ASSUME NEW s \in Sub, NEW p \in Sold, Checkout(s, p)
        PROVE  OneAsks'
    BY <2>2, OneAsksSame DEF Checkout
  <2>3. ASSUME NEW w \in Worker, Cancel(w)
        PROVE  OneAsks'
    BY <1>1, <2>3 DEF Cancel
  <2>4. ASSUME NEW w \in Worker, NEW s \in Sub, PageVerifies(w, s)
        PROVE  OneAsks'
    <3>1. stripe[s].plan \in Plan /\ "verify" \in Stage
      BY StatusTyped, PlansAre DEF Stage
    <3> QED BY <1>2, <2>4, <3>1 DEF PageVerifies
  <2>5. ASSUME NEW w \in Worker, NEW p \in Sold, Modify(w, p)
        PROVE  OneAsks'
    BY <1>1, <2>5 DEF Modify
  <2>6. ASSUME NEW w \in Worker, NEW p \in Plan, AdminSetPlan(w, p)
        PROVE  OneAsks'
    BY <1>1, <2>6 DEF AdminSetPlan
  <2> QED BY <1>3, <2>1, <2>2, <2>3, <2>4, <2>5, <2>6 DEF People
<1>4. ASSUME NEW s \in Sub, NEW to \in SubStatus, BillingMoves(s, to)
      PROVE  OneAsks'
  BY <1>4, OneAsksSame DEF BillingMoves
<1>5. ASSUME NEW w \in Worker, Deliver(w)
      PROVE  OneAsks'
  <2>1. PICK e \in Event : Only(w, Webhook(e))
    BY <1>5, DeliverIs
  <2>2. PICK t : t = Webhook(e)
    OBVIOUS
  <2>3. t.op \notin {"admin", "cancel", "modify"}
    BY <2>2, WebhookIs DEF Event, EventKind
  <2> QED BY <2>1, <2>2, <2>3, OneAsksKept DEF Asks
<1>6. ASSUME NEW w \in Worker, Sweep(w)
      PROVE  OneAsks'
  <2>1. org.sub \in Sub \cup {NoSub} /\ "stale" \in Stage
    BY DEF Typed, World, Stage
  <2> QED BY <1>2, <1>6, <2>1, PlansAre DEF Sweep
<1>7. ASSUME NEW w \in Worker, Step(w)
      PROVE  OneAsks'
  <2>1. PICK t : Steps(w, t)
    BY <1>7, StepIs
  <2> QED BY <2>1, OneAsksKept DEF Steps, Asks, Busy
<1>8. ASSUME NEW w \in Worker, Crash(w)
      PROVE  OneAsks'
  BY <1>8, CrashIs, EndIs, IdleIs, OneAsksKept DEF Asks
<1> QED BY <1>3, <1>4, <1>5, <1>6, <1>7, <1>8 DEF Next

-----------------------------------------------------------------------------
(* Until an administrator assigns a plan, none has touched the organization.*)

LEMMA GrantsAre == NoPlan \notin Plan /\ "begun" \notin Plan /\ "void" \notin Plan
                   /\ NoPlan # "begun" /\ NoPlan # "void"
BY PlanAssumption DEF Plan, NoPlan

LEMMA NoAdminKept ==
    ASSUME Typed, NoAdmin, NEW w \in Worker, NEW t, Only(w, t),
           granted' = NoPlan => granted = NoPlan,
           granted' = NoPlan => org'.by # "admin",
           granted' = NoPlan => (Administers(t) => Administers(task[w]))
    PROVE  NoAdmin'
<1>1. SUFFICES ASSUME granted' = NoPlan
               PROVE  org'.by # "admin" /\ \A v \in Worker : ~ Administers(task'[v])
  BY DEF NoAdmin
<1>2. \A v \in Worker : ~ Administers(task'[v])
  BY <1>1, OnlyIs DEF NoAdmin
<1> QED BY <1>1, <1>2

LEMMA NoAdminSame ==
    ASSUME NoAdmin, UNCHANGED <<org, task>>, granted' = NoPlan => granted = NoPlan
    PROVE  NoAdmin'
BY DEF NoAdmin

Began(w, op, x, s, p, st) ==
    /\ ~ Busy(w)
    /\ \E t \in Task : /\ Only(w, t) /\ t.op = op /\ t.stage = x /\ t.sub = s
                       /\ t.plan = p /\ t.status = st /\ t.old = NoSub
                       /\ t.list = {} /\ t.subs = {} /\ t.event = << >>

LEMMA BeganIs ==
    ASSUME NEW w \in Worker, NEW op \in Operation, NEW x \in Stage,
           NEW s \in Sub \cup {NoSub}, NEW p \in Plan, NEW st \in SubStatus \cup {"manual"},
           Begin(w, op, x, s, p, st)
    PROVE  Began(w, op, x, s, p, st)
<1>1. PICK t : t = Begun(op, x, s, p, st)
  OBVIOUS
<1>2. /\ t \in Task /\ t.op = op /\ t.stage = x /\ t.sub = s
      /\ t.plan = p /\ t.status = st /\ t.old = NoSub
      /\ t.list = {} /\ t.subs = {} /\ t.event = << >>
  BY <1>1, BegunIs
<1>3. ~ Busy(w) /\ Only(w, t)
  BY <1>1, BeginIs
<1> QED BY <1>2, <1>3 DEF Began

LEMMA CancelBegins ==
    ASSUME Typed, NEW w \in Worker, Cancel(w)
    PROVE  /\ ~ Busy(w)
           /\ \E t \in Task : /\ Only(w, t) /\ t.op = "cancel" /\ t.stage = "check"
                              /\ t.sub = org.sub /\ t.old = NoSub
                              /\ t.list = {} /\ t.subs = {} /\ t.event = << >>
<1>1. Begin(w, "cancel", "check", org.sub, "free", "canceled")
  BY DEF Cancel
<1>2. /\ "cancel" \in Operation /\ "check" \in Stage /\ "free" \in Plan
      /\ org.sub \in Sub \cup {NoSub} /\ NoSub \in Sub \cup {NoSub}
      /\ {"none", "canceled", "manual"} \subseteq SubStatus \cup {"manual"}
  BY PlansAre DEF Operation, Stage, Typed, World, SubStatus
<1>3. Began(w, "cancel", "check", org.sub, "free", "canceled")
  BY <1>1, <1>2, PlansAre, StatusTyped, BeganIs
<1> QED BY <1>3 DEF Began

LEMMA ModifyBegins ==
    ASSUME Typed, NEW w \in Worker, NEW p \in Sold, Modify(w, p)
    PROVE  /\ ~ Busy(w)
           /\ \E t \in Task : /\ Only(w, t) /\ t.op = "modify" /\ t.stage = "modify"
                              /\ t.sub = org.sub /\ t.plan = p /\ t.old = NoSub
                              /\ t.list = {} /\ t.subs = {} /\ t.event = << >>
<1>1. Begin(w, "modify", "modify", org.sub, p, "none")
  BY DEF Modify
<1>2. /\ "modify" \in Operation /\ "modify" \in Stage /\ "free" \in Plan
      /\ org.sub \in Sub \cup {NoSub} /\ NoSub \in Sub \cup {NoSub}
      /\ {"none", "canceled", "manual"} \subseteq SubStatus \cup {"manual"}
  BY PlansAre DEF Operation, Stage, Typed, World, SubStatus
<1>3. Began(w, "modify", "modify", org.sub, p, "none")
  BY <1>1, <1>2, PlansAre, StatusTyped, BeganIs
<1> QED BY <1>3 DEF Began

LEMMA AdminBegins ==
    ASSUME Typed, NEW w \in Worker, NEW p \in Plan, AdminSetPlan(w, p)
    PROVE  /\ ~ Busy(w)
           /\ \E t \in Task : /\ Only(w, t) /\ t.op = "admin" /\ t.stage = "guard"
                              /\ t.sub = NoSub /\ t.plan = p /\ t.old = NoSub
                              /\ t.list = {} /\ t.subs = {} /\ t.event = << >>
<1>1. Begin(w, "admin", "guard", NoSub, p, "manual")
  BY DEF AdminSetPlan
<1>2. /\ "admin" \in Operation /\ "guard" \in Stage /\ "free" \in Plan
      /\ org.sub \in Sub \cup {NoSub} /\ NoSub \in Sub \cup {NoSub}
      /\ {"none", "canceled", "manual"} \subseteq SubStatus \cup {"manual"}
  BY PlansAre DEF Operation, Stage, Typed, World, SubStatus
<1>3. Began(w, "admin", "guard", NoSub, p, "manual")
  BY <1>1, <1>2, PlansAre, StatusTyped, BeganIs
<1> QED BY <1>3 DEF Began

LEMMA PageBegins ==
    ASSUME Typed, NEW w \in Worker, NEW s \in Sub, PageVerifies(w, s)
    PROVE  /\ ~ Busy(w)
           /\ \E t \in Task : /\ Only(w, t) /\ t.op = "verify" /\ t.stage = "verify"
                              /\ t.sub = s /\ t.plan = stripe[s].plan /\ t.old = NoSub
                              /\ t.list = {} /\ t.subs = {} /\ t.event = << >>
<1>1. Begin(w, "verify", "verify", s, stripe[s].plan, "none")
  BY DEF PageVerifies
<1>2. /\ "verify" \in Operation /\ "verify" \in Stage /\ "free" \in Plan
      /\ org.sub \in Sub \cup {NoSub} /\ NoSub \in Sub \cup {NoSub}
      /\ {"none", "canceled", "manual"} \subseteq SubStatus \cup {"manual"}
  BY PlansAre DEF Operation, Stage, Typed, World, SubStatus
<1>3. Began(w, "verify", "verify", s, stripe[s].plan, "none")
  BY <1>1, <1>2, PlansAre, StatusTyped, BeganIs
<1> QED BY <1>3 DEF Began

LEMMA SweepBegins ==
    ASSUME Typed, NEW w \in Worker, Sweep(w)
    PROVE  /\ ~ Busy(w)
           /\ \E t \in Task : /\ Only(w, t) /\ t.op = "sweep" /\ t.stage = "stale"
                              /\ t.sub = org.sub /\ t.old = NoSub
                              /\ t.list = {} /\ t.subs = {} /\ t.event = << >>
<1>1. Begin(w, "sweep", "stale", org.sub, "free", "none")
  BY DEF Sweep
<1>2. /\ "sweep" \in Operation /\ "stale" \in Stage /\ "free" \in Plan
      /\ org.sub \in Sub \cup {NoSub} /\ NoSub \in Sub \cup {NoSub}
      /\ {"none", "canceled", "manual"} \subseteq SubStatus \cup {"manual"}
  BY PlansAre DEF Operation, Stage, Typed, World, SubStatus
<1>3. Began(w, "sweep", "stale", org.sub, "free", "none")
  BY <1>1, <1>2, PlansAre, StatusTyped, BeganIs
<1> QED BY <1>3 DEF Began

LEMMA DeliverBegins ==
    ASSUME Typed, NEW w \in Worker, Deliver(w)
    PROVE  /\ ~ Busy(w) /\ events # << >>
           /\ \E t \in Task, e \in Event :
                 /\ e = Head(events) /\ events' = Tail(events)
                 /\ Only(w, t) /\ t.op = e.kind /\ t.stage = FirstStage[e.kind]
                 /\ t.sub = e.sub /\ t.plan = e.plan /\ t.status = e.status
                 /\ t.old = NoSub /\ t.list = {} /\ t.subs = {} /\ t.event = <<e>>
<1>1. PICK e \in Event : e = Head(events) /\ Only(w, Webhook(e)) /\ events' = Tail(events)
  BY DeliverIs
<1>2. PICK t : t = Webhook(e)
  OBVIOUS
<1>3. /\ t \in Task /\ t.op = e.kind /\ t.stage = FirstStage[e.kind]
      /\ t.sub = e.sub /\ t.plan = e.plan /\ t.status = e.status
      /\ t.old = NoSub /\ t.list = {} /\ t.subs = {} /\ t.event = <<e>>
  BY <1>2, WebhookIs
<1> QED BY <1>1, <1>2, <1>3 DEF Deliver

LEMMA NoAdminStep ==
    ASSUME Typed, NoAdmin, Next
    PROVE  NoAdmin'
<1>1. CASE People
  <2>1. ASSUME NEW s \in Sub, CustomerPays(s)
        PROVE  NoAdmin'
    BY <2>1, GrantsAre, NoAdminSame DEF CustomerPays
  <2>2. ASSUME NEW s \in Sub, PageSees(s)
        PROVE  NoAdmin'
    BY <2>2, NoAdminSame DEF PageSees
  <2>3. ASSUME NEW s \in Sub, NEW p \in Sold, Checkout(s, p)
        PROVE  NoAdmin'
    BY <2>3, NoAdminSame DEF Checkout
  <2>4. ASSUME NEW w \in Worker, Cancel(w)
        PROVE  NoAdmin'
    <3>1. PICK t : Only(w, t) /\ t.op = "cancel"
      BY <2>4, CancelBegins
    <3> QED BY <2>4, <3>1, NoAdminKept DEF Cancel, Administers, NoAdmin
  <2>5. ASSUME NEW w \in Worker, NEW s \in Sub, PageVerifies(w, s)
        PROVE  NoAdmin'
    <3>1. PICK t : Only(w, t) /\ t.op = "verify"
      BY <2>5, PageBegins
    <3> QED BY <2>5, <3>1, NoAdminKept DEF PageVerifies, Administers, NoAdmin
  <2>6. ASSUME NEW w \in Worker, NEW p \in Sold, Modify(w, p)
        PROVE  NoAdmin'
    <3>1. PICK t : Only(w, t) /\ t.op = "modify"
      BY <2>6, ModifyBegins
    <3> QED BY <2>6, <3>1, NoAdminKept DEF Modify, Administers, NoAdmin
  <2>7. ASSUME NEW w \in Worker, NEW p \in Plan, AdminSetPlan(w, p)
        PROVE  NoAdmin'
    BY <2>7, GrantsAre DEF AdminSetPlan, NoAdmin
  <2> QED BY <1>1, <2>1, <2>2, <2>3, <2>4, <2>5, <2>6, <2>7 DEF People
<1>2. ASSUME NEW s \in Sub, NEW to \in SubStatus, BillingMoves(s, to)
      PROVE  NoAdmin'
  BY <1>2, NoAdminSame DEF BillingMoves
<1>3. ASSUME NEW w \in Worker, Deliver(w)
      PROVE  NoAdmin'
  <2>1. PICK t \in Task, e \in Event : Only(w, t) /\ t.op = e.kind
    BY <1>3, DeliverBegins
  <2>2. ~ Administers(t)
    BY <2>1 DEF Administers, Event, EventKind
  <2> QED BY <1>3, <2>1, <2>2, NoAdminKept DEF Deliver, NoAdmin
<1>4. ASSUME NEW w \in Worker, Sweep(w)
      PROVE  NoAdmin'
  <2>1. PICK t : Only(w, t) /\ t.op = "sweep"
    BY <1>4, SweepBegins
  <2> QED BY <1>4, <2>1, NoAdminKept DEF Sweep, Administers, NoAdmin
<1>5. ASSUME NEW w \in Worker, Step(w)
      PROVE  NoAdmin'
  <2>1. PICK t : Steps(w, t)
    BY <1>5, StepIs
  <2>2. Only(w, t) /\ Busy(w) /\ (Administers(t) => Administers(task[w]))
    BY <2>1 DEF Steps, Administers, Busy
  <2>3. CASE Unlink(w)
    <3>1. task[w].op = "admin"
      BY <2>2, <2>3, OpsAt DEF Unlink, At, OpsOf
    <3>2. granted # NoPlan
      BY <2>2, <3>1 DEF NoAdmin, Administers, Busy
    <3>3. granted' # NoPlan
      BY <2>3, <3>2, TaskIs, GrantsAre DEF Unlink
    <3> QED BY <3>3 DEF NoAdmin
  <2>4. CASE WritePlan(w)
    <3>1. granted = NoPlan => task[w].op # "admin"
      BY <2>2 DEF NoAdmin, Administers, Busy
    <3>2. granted = NoPlan => org'.by # "admin"
      BY <2>4, <3>1, WritePlanIs DEF AssignedBy
    <3> QED BY <2>2, <2>4, <3>2, NoAdminKept DEF WritePlan
  <2>5. CASE Reset(w)
    BY <2>2, <2>5, NoAdminKept DEF Reset
  <2>6. CASE WriteStatus(w)
    BY <2>2, <2>6, WriteStatusIs, NoAdminKept DEF WriteStatus, NoAdmin
  <2>7. CASE ~ (Unlink(w) \/ WritePlan(w) \/ Reset(w) \/ WriteStatus(w))
    <3>1. UNCHANGED <<org, granted>>
      BY <1>5, <2>7 DEF Step, Provisioning, Deprovisioning, Guard, CancelOld, Retrieve,
         ListRows, ClearRow, CreateRow, SweepOrphans, CancelOrphan, Deprovision,
         CancelRows, FreeRow, Summary, Invoice, Verify, Check, HardCancel,
         ModifyOnStripe, SyncStale
    <3> QED BY <2>2, <3>1, NoAdminKept DEF NoAdmin
  <2> QED BY <2>3, <2>4, <2>5, <2>6, <2>7
<1>6. ASSUME NEW w \in Worker, Crash(w)
      PROVE  NoAdmin'
  <2>1. Only(w, Idle) /\ ~ Administers(Idle)
    BY <1>6, EndIs, IdleIs DEF Crash, Administers
  <2> QED BY <1>6, <2>1, NoAdminKept DEF Crash, NoAdmin
<1> QED BY <1>1, <1>2, <1>3, <1>4, <1>5, <1>6 DEF Next

-----------------------------------------------------------------------------
(* Without a restart there is a row, or a handler that will make one.       *)

LEMMA HasRowKept ==
    ASSUME Typed, HasRow, NEW w \in Worker, NEW t, Only(w, t),
           spent'.crashes = 0 => spent.crashes = 0,
           rows # {} => rows' # {} \/ MakesRow(t),
           MakesRow(task[w]) => rows' # {} \/ MakesRow(t)
    PROVE  HasRow'
<1>1. SUFFICES ASSUME spent'.crashes = 0
               PROVE  rows' # {} \/ \E v \in Worker : MakesRow(task'[v])
  BY DEF HasRow
<1>2. task'[w] = t
  BY OnlyIs
<1>3. CASE rows # {}
  BY <1>2, <1>3
<1>4. ASSUME NEW v \in Worker, MakesRow(task[v])
      PROVE  rows' # {} \/ \E u \in Worker : MakesRow(task'[u])
  BY <1>2, <1>4, OnlyIs
<1> QED BY <1>1, <1>3, <1>4 DEF HasRow

LEMMA HasRowSame ==
    ASSUME HasRow, UNCHANGED <<rows, task>>, spent'.crashes = 0 => spent.crashes = 0
    PROVE  HasRow'
BY DEF HasRow

LEMMA HasRowStep ==
    ASSUME Typed, HasRow, Next
    PROVE  HasRow'
<1>1. ASSUME NEW w \in Worker, NEW t, Only(w, t), ~ Busy(w),
             UNCHANGED rows, spent'.crashes = spent.crashes
      PROVE  HasRow'
  BY <1>1, HasRowKept DEF MakesRow, Busy
<1>2. ASSUME Ask
      PROVE  spent'.crashes = spent.crashes
  BY <1>2 DEF Ask, Typed, World
<1>3. CASE People
  <2>1. ASSUME NEW s \in Sub, CustomerPays(s) \/ PageSees(s)
        PROVE  HasRow'
    BY <2>1, HasRowSame DEF CustomerPays, PageSees
  <2>2. ASSUME NEW s \in Sub, NEW p \in Sold, Checkout(s, p)
        PROVE  HasRow'
    BY <1>2, <2>2, HasRowSame DEF Checkout
  <2>3. ASSUME NEW w \in Worker, Cancel(w)
        PROVE  HasRow'
    BY <1>1, <1>2, <2>3, CancelBegins DEF Cancel
  <2>4. ASSUME NEW w \in Worker, NEW s \in Sub, PageVerifies(w, s)
        PROVE  HasRow'
    BY <1>1, <2>4, PageBegins DEF PageVerifies
  <2>5. ASSUME NEW w \in Worker, NEW p \in Sold, Modify(w, p)
        PROVE  HasRow'
    BY <1>1, <1>2, <2>5, ModifyBegins DEF Modify
  <2>6. ASSUME NEW w \in Worker, NEW p \in Plan, AdminSetPlan(w, p)
        PROVE  HasRow'
    BY <1>1, <1>2, <2>6, AdminBegins DEF AdminSetPlan
  <2> QED BY <1>3, <2>1, <2>2, <2>3, <2>4, <2>5, <2>6 DEF People
<1>4. ASSUME NEW s \in Sub, NEW to \in SubStatus, BillingMoves(s, to)
      PROVE  HasRow'
  <2>1. spent' = [spent EXCEPT !.changes = @ + 1]
    BY <1>4 DEF BillingMoves
  <2>2. spent'.crashes = spent.crashes
    BY <2>1 DEF Typed, World
  <2> QED BY <1>4, <2>2, HasRowSame DEF BillingMoves
<1>5. ASSUME NEW w \in Worker, Deliver(w)
      PROVE  HasRow'
  BY <1>1, <1>5, DeliverBegins DEF Deliver
<1>6. ASSUME NEW w \in Worker, Sweep(w)
      PROVE  HasRow'
  BY <1>1, <1>6, SweepBegins DEF Sweep
<1>7. ASSUME NEW w \in Worker, Step(w)
      PROVE  HasRow'
  <2>1. PICK t : Steps(w, t)
    BY <1>7, StepIs
  <2>2. Only(w, t)
    BY <2>1 DEF Steps
  <2>3. spent' = spent
    BY <1>7 DEF Step, Provisioning, Deprovisioning, Guard, CancelOld, Retrieve,
       ListRows, ClearRow, CreateRow, WritePlan, SweepOrphans, CancelOrphan, Unlink,
       Deprovision, CancelRows, Reset, FreeRow, Summary, WriteStatus, Invoice, Verify,
       Check, HardCancel, ModifyOnStripe, SyncStale
  <2>4. CASE ClearRow(w)
    <3>1. PICK u : Only(w, u) /\ u.stage = "clear"
      BY <2>4, ClearRowIs
    <3> QED BY <2>3, <3>1, HasRowKept DEF MakesRow
  <2>5. CASE CreateRow(w)
    <3>1. rows' # {}
      BY <2>5 DEF CreateRow
    <3> QED BY <2>2, <2>3, <3>1, HasRowKept
  <2>6. CASE CancelRows(w)
    <3>1. PICK u : Moves(w, u, "reset")
      BY <2>6, GoToMoves DEF CancelRows, Stage
    <3> QED BY <2>3, <3>1, HasRowKept DEF Moves, MakesRow
  <2>7. CASE Reset(w)
    <3>1. PICK u : Moves(w, u, "free_row")
      BY <2>7, GoToMoves DEF Reset, Stage
    <3>2. rows' = rows
      BY <2>7 DEF Reset
    <3> QED BY <2>3, <3>1, <3>2, HasRowKept DEF Moves, MakesRow
  <2>8. CASE FreeRow(w)
    <3>1. rows' # {}
      BY <2>8 DEF FreeRow
    <3> QED BY <2>2, <2>3, <3>1, HasRowKept
  <2>9. CASE ~ (ClearRow(w) \/ CreateRow(w) \/ CancelRows(w) \/ Reset(w) \/ FreeRow(w))
    <3>1. rows' = rows /\ ~ MakesRow(task[w])
      BY <1>7, <2>9 DEF Step, Provisioning, Deprovisioning, Guard, CancelOld, Retrieve,
         ListRows, WritePlan, SweepOrphans, CancelOrphan, Unlink, Deprovision, Summary,
         WriteStatus, Invoice, Verify, Check, HardCancel, ModifyOnStripe, SyncStale,
         At, MakesRow
    <3> QED BY <2>2, <2>3, <3>1, HasRowKept
  <2> QED BY <2>4, <2>5, <2>6, <2>7, <2>8, <2>9
<1>8. ASSUME NEW w \in Worker, Crash(w)
      PROVE  HasRow'
  <2>1. spent' = [spent EXCEPT !.crashes = @ + 1] /\ spent.crashes \in Nat
    BY <1>8 DEF Crash, Typed, World
  <2>2. spent'.crashes # 0
    BY <2>1 DEF Typed, World
  <2> QED BY <2>2 DEF HasRow
<1> QED BY <1>3, <1>4, <1>5, <1>6, <1>7, <1>8 DEF Next

-----------------------------------------------------------------------------
(* At most one subscription stands, unless the customer was hasty.          *)

LEMMA StepStarts ==
    ASSUME Typed, NEW w \in Worker, Step(w)
    PROVE  NothingStarts
<1>1. CASE CancelOld(w)
  BY <1>1, CancelIs, SameStarts DEF CancelOld, Typed
<1>2. CASE CancelOrphan(w)
  BY <1>2, CancelOrphanIs, CancelIs, SameStarts DEF Typed
<1>3. CASE HardCancel(w)
  BY <1>3, HardCancelIs, CancelIs DEF Typed
<1>4. CASE ModifyOnStripe(w)
  <2>1. CASE UNCHANGED <<stripe, events>>
    BY <2>1, SameStarts
  <2>2. CASE ~ UNCHANGED <<stripe, events>>
    <3>1. PICK after \in [status : SubStatus, plan : Sold] :
             /\ after.status = stripe[task[w].sub].status
             /\ stripe' = [stripe EXCEPT ![task[w].sub] = after]
      BY <1>4, <2>2, ModifyOnStripeIs
    <3> QED BY <3>1 DEF NothingStarts, Typed, World
  <2> QED BY <2>1, <2>2
<1>5. CASE ~ (CancelOld(w) \/ CancelOrphan(w) \/ HardCancel(w) \/ ModifyOnStripe(w))
  <2>1. stripe' = stripe
    BY <1>5 DEF Step, Provisioning, Deprovisioning, Guard, Retrieve, ListRows, ClearRow,
       CreateRow, WritePlan, SweepOrphans, Unlink, Deprovision, CancelRows, Reset, FreeRow,
       Summary, WriteStatus, Invoice, Verify, Check, SyncStale
  <2> QED BY <2>1, SameStarts
<1> QED BY <1>1, <1>2, <1>3, <1>4, <1>5

Stands(x) == x.status \in {"active", "past_due", "unpaid"}

LEMMA StandsIs == \A s : Standing(s) <=> Stands(stripe[s])
BY DEF Standing, Live, Stands

LEMMA StandsKept ==
    ASSUME OneStands, \A s \in Sub : Stands(stripe'[s]) => Stands(stripe[s])
    PROVE  OneStands'
<1>1. \A s, q \in Sub : Stands(stripe'[s]) /\ Stands(stripe'[q]) => s = q
  BY StandsIs DEF OneStands
<1> QED BY <1>1 DEF OneStands, Standing, Live, Stands

LEMMA OneStandsStep ==
    ASSUME Typed, OneStands, Next, ~ hasty'
    PROVE  OneStands'
<1>1. ASSUME stripe' = stripe
      PROVE  OneStands'
  BY <1>1, StandsKept
<1>2. ASSUME NEW s \in Sub, CustomerPays(s)
      PROVE  OneStands'
  <2>1. \A q \in Sub : ~ Stands(stripe[q])
    BY <1>2, StandsIs DEF CustomerPays
  <2>2. \A q \in Sub : q # s => stripe'[q] = stripe[q]
    BY <1>2 DEF CustomerPays, Typed, World
  <2>3. \A p, q \in Sub : Stands(stripe'[p]) /\ Stands(stripe'[q]) => p = q
    BY <2>1, <2>2
  <2> QED BY <2>3 DEF OneStands, Standing, Live, Stands
<1>3. ASSUME NEW s \in Sub, NEW p \in Sold, Checkout(s, p)
      PROVE  OneStands'
  <2>1. \A q \in Sub : stripe'[q].status = stripe[q].status \/ stripe'[q].status = "open"
    BY <1>3 DEF Checkout, Typed, World
  <2> QED BY <2>1, StandsKept DEF Stands
<1>4. ASSUME NEW s \in Sub, NEW to \in SubStatus, BillingMoves(s, to)
      PROVE  OneStands'
  <2>1. Stands(stripe[s])
    BY <1>4 DEF BillingMoves, Standing, Live, Stands
  <2>2. \A q \in Sub : q # s => stripe'[q] = stripe[q]
    BY <1>4 DEF BillingMoves, Typed, World
  <2> QED BY <2>1, <2>2, StandsKept
<1>5. ASSUME NEW w \in Worker, Step(w)
      PROVE  OneStands'
  BY <1>5, StepStarts, StandsKept DEF NothingStarts, Stands
<1>6. CASE People
  BY <1>1, <1>2, <1>3, <1>6 DEF People, PageSees, Cancel, PageVerifies, Modify, AdminSetPlan
<1> QED BY <1>1, <1>4, <1>5, <1>6 DEF Next, Deliver, Sweep, Crash

-----------------------------------------------------------------------------
(* While no subscription is live: a step that leaves the organization alone.*)

LEMMA DeadStep ==
    ASSUME Typed, Dead, NEW w \in Worker, NEW t, Only(w, t), org' = org, LiveSubs' = {},
           \A j \in DOMAIN events' :
              /\ Ending(events'[j])
              /\ org.sub # NoSub => events'[j].sub = org.sub,
           t.stage # "idle" => DeadTask(t, org),
           Entitled(org) => Owed',
           org.sub # NoSub => (Ends(t) => t.sub = org.sub),
           granted' = NoPlan => DeadRows'
    PROVE  Dead'
<1>1. task'[w] = t /\ \A v \in Worker : v # w => task'[v] = task[v]
  BY OnlyIs
<1>2. \A v \in Worker : task'[v].stage # "idle" => DeadTask(task'[v], org')
  BY <1>1 DEF Dead
<1>3. org'.sub # NoSub =>
        /\ \A i \in DOMAIN events' : events'[i].sub = org'.sub
        /\ \A v \in Worker : Ends(task'[v]) => task'[v].sub = org'.sub
  BY <1>1 DEF Dead, EndsOrg
<1>4. EndsOrg'
  BY <1>3 DEF EndsOrg
<1>5. Entitled(org') => Owed'
  OBVIOUS
<1>6. org'.status = "past_due" => org'.sub # NoSub
  BY DEF Dead
<1> QED BY <1>2, <1>4, <1>5, <1>6 DEF Dead

LEMMA OwedKept ==
    ASSUME Typed, Owed, NEW w \in Worker, NEW t, Only(w, t),
           events # << >> => events' # << >> \/ Owing(t),
           Owing(task[w]) => events' # << >> \/ Owing(t)
    PROVE  Owed'
<1>1. task'[w] = t /\ \A v \in Worker : v # w => task'[v] = task[v]
  BY OnlyIs
<1>2. events' # << >> \/ \E v \in Worker : Owing(task'[v])
  BY <1>1 DEF Owed
<1> QED BY <1>2 DEF Owed

LEMMA DeadRowsKept ==
    ASSUME Typed, DeadRows, NEW w \in Worker, NEW t, Only(w, t), org' = org,
           \A r \in rows' : r \in rows \/ r.plan = "free",
           t.stage = "reset" => task[w].stage = "reset" \/ \A r \in rows' : r.plan = "free"
    PROVE  DeadRows'
<1>1. task'[w] = t /\ \A v \in Worker : v # w => task'[v] = task[v]
  BY OnlyIs
<1>2. \A r \in rows' : r.plan # "free" => org'.sub # NoSub /\ r.sub = org'.sub
  BY DEF DeadRows
<1>3. (\E v \in Worker : task'[v].stage = "reset") => \A r \in rows' : r.plan = "free"
  <2>1. SUFFICES ASSUME NEW v \in Worker, task'[v].stage = "reset"
                 PROVE  \A r \in rows' : r.plan = "free"
    OBVIOUS
  <2>2. CASE v = w
    BY <1>1, <2>1, <2>2 DEF DeadRows
  <2>3. CASE v # w
    BY <1>1, <2>1, <2>3 DEF DeadRows
  <2> QED BY <2>2, <2>3
<1> QED BY <1>2, <1>3 DEF DeadRows

LEMMA LiveIs == LiveSubs = {} <=> \A s \in Sub : stripe[s].status \notin {"active", "past_due"}
BY DEF LiveSubs, Live

LEMMA LiveIsNext ==
    LiveSubs' = {} <=> \A s \in Sub : stripe'[s].status \notin {"active", "past_due"}
BY DEF LiveSubs, Live

LEMMA NothingLives ==
    ASSUME Dead, NothingStarts
    PROVE  LiveSubs' = {}
BY LiveIs, LiveIsNext DEF Dead, NothingStarts

(* A handler goes on, ends or begins, and nothing else changes.             *)
LEMMA DeadGoes ==
    ASSUME Typed, Dead, NEW w \in Worker, NEW t, Only(w, t),
           UNCHANGED <<stripe, events, org, rows, granted>>,
           t.stage # "idle" => DeadTask(t, org),
           Owing(task[w]) => Owing(t) \/ ~ Entitled(org),
           org.sub # NoSub => (Ends(t) => t.sub = org.sub),
           t.stage # "reset"
    PROVE  Dead'
<1>1. LiveSubs' = {}
  BY SameStarts, NothingLives
<1>2. Entitled(org) => Owed'
  BY OwedKept DEF Dead
<1>3. granted' = NoPlan => DeadRows'
  BY DeadRowsKept DEF Dead
<1> QED BY <1>1, <1>2, <1>3, DeadStep DEF Dead, EndsOrg

LEMMA DeadSame ==
    ASSUME Dead, UNCHANGED <<events, org, rows, task, granted>>, LiveSubs' = {}
    PROVE  Dead'
BY DEF Dead, Owed, EndsOrg, DeadRows

-----------------------------------------------------------------------------
(* While no subscription is live: what people, Stripe and restarts do.      *)

LEMMA QuietIs ==
    ASSUME Quiet
    PROVE  events = << >> /\ \A w \in Worker : ~ Busy(w) /\ task[w].stage = "idle"
BY DEF Quiet, Still, Busy

LEMMA DeadQuiet ==
    ASSUME Dead, Quiet
    PROVE  ~ Owed /\ ~ Entitled(org) /\ org.sub = NoSub /\ org.status # "past_due"
<1>1. ~ Owed
  BY QuietIs DEF Owed, Owing
<1>2. ~ Entitled(org)
  BY <1>1 DEF Dead
<1> QED BY <1>1, <1>2 DEF Entitled, Dead

LEMMA TwoEvents ==
    ASSUME NEW e \in Event, NEW f \in Event, NEW q, q = Append(<< >>, e) \o <<f>>
    PROVE  DOMAIN q = {1, 2} /\ q[1] = e /\ q[2] = f
OBVIOUS

(* The customer pays a checkout, and its subscription lives.                *)
LEMMA DeadPays ==
    ASSUME Typed, Dead, NEW s \in Sub, CustomerPays(s), ~ hasty'
    PROVE  Alive(s)'
<1>1. Quiet
  BY DEF CustomerPays
<1>2. PICK x : x = [stripe[s] EXCEPT !.status = "active"]
  OBVIOUS
<1>3. x \in [status : SubStatus, plan : Sold] /\ x.status = "active"
  BY <1>2, StatusTyped DEF SubStatus
<1>4. PICK e : e = [kind |-> "completed", sub |-> s, status |-> x.status, plan |-> x.plan]
  OBVIOUS
<1>5. PICK f : f = [kind |-> "paid", sub |-> s, status |-> "active", plan |-> x.plan]
  OBVIOUS
<1>6. events' = Append(<< >>, e) \o <<f>>
  BY <1>1, <1>2, <1>4, <1>5, QuietIs DEF CustomerPays, Emitted
<1>7. DOMAIN events' = {1, 2} /\ events'[1] = e /\ events'[2] = f
  <2>1. e \in Event /\ f \in Event
    BY <1>3, <1>4, <1>5 DEF Event, EventKind, SubStatus
  <2> QED BY <1>6, <2>1, TwoEvents
<1>8. About(e, s, x) /\ About(f, s, x) /\ e.kind = "completed" /\ f.kind = "paid"
  BY <1>3, <1>4, <1>5 DEF About
<1>9. stripe'[s] = x /\ UNCHANGED <<org, rows, task>>
  BY <1>2 DEF CustomerPays, Typed, World
<1>10. \A w \in Worker : task'[w].stage = "idle"
  BY <1>1, <1>9, QuietIs
<1>11. org.sub = NoSub /\ org.status # "past_due" /\ NoSub # s
  BY <1>1, DeadQuiet, PlansAre
<1>12. Live(s)'
  BY <1>3, <1>9 DEF Live
<1>13. \A i \in DOMAIN events' : About(events'[i], s, stripe'[s]) /\ events'[i].kind # "updated"
  BY <1>7, <1>8, <1>9
<1>14. ToComplete'
  <2>1. 1 \in DOMAIN events' /\ events'[1].kind = "completed"
    BY <1>7, <1>8
  <2> QED BY <2>1 DEF ToComplete
<1>15. ~ ToUpdate'
  BY <1>10, <1>13 DEF ToUpdate, Updating
<1>16. AliveOrg(s)'
  BY <1>3, <1>9, <1>11, <1>14, <1>15 DEF AliveOrg
<1>17. AliveRows(s)'
  BY <1>9, <1>10, <1>11 DEF AliveRows
<1>18. AliveAsked(s)'
  BY <1>10 DEF AliveAsked, Asked, Asks
<1>19. granted' \notin Plan
  BY GrantsAre DEF CustomerPays
<1> QED BY <1>10, <1>12, <1>13, <1>16, <1>17, <1>18, <1>19 DEF Alive

LEMMA DeadCheckout ==
    ASSUME Typed, Dead, NEW s \in Sub, NEW p \in Sold, Checkout(s, p)
    PROVE  Dead'
<1>1. \A q \in Sub : stripe'[q].status \in {stripe[q].status, "open"}
  BY DEF Checkout, Typed, World
<1>2. LiveSubs' = {}
  BY <1>1, LiveIs, LiveIsNext DEF Dead
<1> QED BY <1>2, DeadSame DEF Checkout

LEMMA DeadPage ==
    ASSUME Typed, Dead, NEW s \in Sub, PageSees(s)
    PROVE  Dead'
<1>1. LiveSubs' = {}
  BY LiveIs, LiveIsNext DEF PageSees, Dead
<1> QED BY <1>1, DeadSame DEF PageSees

LEMMA DeadVerifies ==
    ASSUME Typed, Dead, NEW w \in Worker, NEW s \in Sub, PageVerifies(w, s)
    PROVE  Dead'
<1>1. PICK t \in Task : Only(w, t) /\ t.op = "verify" /\ t.stage = "verify"
  BY PageBegins
<1>2. ~ Busy(w) /\ UNCHANGED <<stripe, events, org, rows, granted>>
  BY PageBegins DEF PageVerifies
<1> QED BY <1>1, <1>2, DeadGoes DEF DeadTask, Owing, Ends, Ended, Busy

LEMMA DeadSweep ==
    ASSUME Typed, Dead, NEW w \in Worker, Sweep(w)
    PROVE  Dead'
<1>1. PICK t \in Task : Only(w, t) /\ t.op = "sweep" /\ t.stage = "stale" /\ t.sub = org.sub
  BY SweepBegins
<1>2. ~ Busy(w) /\ UNCHANGED <<stripe, events, org, rows, granted>> /\ org.sub # NoSub
  BY SweepBegins DEF Sweep, Dead
<1> QED BY <1>1, <1>2, DeadGoes DEF DeadTask, Owing, Busy

LEMMA DeadAdmin ==
    ASSUME Typed, Dead, NEW w \in Worker, NEW p \in Plan, AdminSetPlan(w, p), ~ hasty'
    PROVE  Dead'
<1>1. PICK t \in Task : Only(w, t) /\ t.op = "admin" /\ t.stage = "guard"
  BY AdminBegins
<1>2. Quiet /\ UNCHANGED <<stripe, events, org, rows>> /\ granted' = "begun"
  BY BeginsQuiet DEF AdminSetPlan
<1>3. LiveSubs' = {}
  BY <1>2, SameStarts, NothingLives
<1>4. DeadTask(t, org)
  BY <1>1, <1>2, DeadQuiet DEF DeadTask
<1>5. ~ Ends(t)
  BY <1>1 DEF Ends, Ended
<1> QED BY <1>1, <1>2, <1>3, <1>4, <1>5, DeadQuiet, GrantsAre, DeadStep DEF Dead, EndsOrg

LEMMA DeadRequests ==
    ASSUME Dead, ~ hasty', NEW w \in Worker, Cancel(w) \/ \E p \in Sold : Modify(w, p)
    PROVE  FALSE
<1>1. Quiet /\ org.sub # NoSub
  BY BeginsQuiet DEF Cancel, Modify
<1> QED BY <1>1, DeadQuiet

LEMMA DeadBilling ==
    ASSUME Typed, Dead, ~ hasty', NEW s \in Sub, NEW to \in SubStatus, BillingMoves(s, to)
    PROVE  Dead'
<1>1. Quiet /\ ~ Live(s) /\ UNCHANGED <<org, rows, task, granted>>
  BY BeginsQuiet DEF BillingMoves, Dead, LiveSubs
<1>2. PICK x : x = [stripe[s] EXCEPT !.status = to]
  OBVIOUS
<1>3. PICK e : e = [kind |-> "deleted", sub |-> s, status |-> x.status, plan |-> x.plan]
  OBVIOUS
<1>4. to = "canceled" /\ events' = Append(<< >>, e) /\ stripe' = [stripe EXCEPT ![s] = x]
  BY <1>1, <1>2, <1>3, QuietIs DEF BillingMoves, Live, Emitted
<1>5. events' = <<e>>
  BY <1>4
<1>6. x.status = "canceled"
  BY <1>2, <1>4, StatusTyped
<1>7. LiveSubs' = {}
  BY <1>4, <1>6, LiveIs, LiveIsNext DEF Dead, Typed, World
<1>8. \A i \in DOMAIN events' : Ending(events'[i])
  BY <1>3, <1>5 DEF Ending
<1>9. events' # << >>
  BY <1>5
<1>10. org.sub = NoSub
  BY <1>1, DeadQuiet
<1>11. granted = NoPlan => DeadRows'
  BY <1>1 DEF Dead, DeadRows
<1> QED BY <1>1, <1>7, <1>8, <1>9, <1>10, <1>11 DEF Dead, Owed, EndsOrg

LEMMA HeadAndTail ==
    ASSUME events \in Seq(Event), events # << >>, events' = Tail(events)
    PROVE  /\ \A i \in DOMAIN events :
                 \/ events[i] = Head(events)
                 \/ \E j \in DOMAIN events' : events'[j] = events[i]
           /\ \A j \in DOMAIN events' : \E i \in DOMAIN events : events[i] = events'[j]
           /\ \E i \in DOMAIN events : events[i] = Head(events)
<1>1. ASSUME NEW i \in DOMAIN events, i # 1
      PROVE  i - 1 \in DOMAIN events' /\ events'[i - 1] = events[i]
  BY <1>1
<1>2. ASSUME NEW j \in DOMAIN events'
      PROVE  j + 1 \in DOMAIN events /\ events[j + 1] = events'[j]
  BY <1>2
<1>3. 1 \in DOMAIN events /\ events[1] = Head(events)
  OBVIOUS
<1> QED BY <1>1, <1>2, <1>3

LEMMA DeadDeliver ==
    ASSUME Typed, Dead, NEW w \in Worker, Deliver(w)
    PROVE  Dead'
<1>1. PICK t \in Task, e \in Event :
         /\ e = Head(events) /\ events' = Tail(events)
         /\ Only(w, t) /\ t.op = e.kind /\ t.stage = FirstStage[e.kind]
         /\ t.sub = e.sub /\ t.status = e.status /\ t.event = <<e>>
  BY DeliverBegins
<1>2. /\ events \in Seq(Event) /\ events # << >>
      /\ UNCHANGED <<stripe, org, rows, granted>> /\ ~ Busy(w)
  BY DeliverBegins DEF Typed, World, Deliver
<1>3. \A j \in DOMAIN events' : \E i \in DOMAIN events : events[i] = events'[j]
  BY <1>1, <1>2, HeadAndTail
<1>4. Ending(e) /\ (org.sub # NoSub => e.sub = org.sub)
  BY <1>1, <1>2, HeadAndTail DEF Dead, EndsOrg
<1>5. \A i \in DOMAIN t.event : t.event[i] = e
  BY <1>1
<1>6. \/ e.kind = "deleted" /\ t.stage = "deprovision"
      \/ e.kind = "updated" /\ t.stage = "summary" /\ e.status \in TERMINAL_BILLING_STATUSES
  BY <1>1, <1>4 DEF Ending, FirstStage, EventKind
<1>7. DeadTask(t, org) /\ Owing(t)
  BY <1>1, <1>4, <1>5, <1>6 DEF DeadTask, Owing, Ended
<1>8. Owed'
  BY <1>1, <1>7, OnlyIs DEF Owed
<1>9. granted' = NoPlan => DeadRows'
  BY <1>1, <1>2, <1>6, DeadRowsKept DEF Dead
<1>10. LiveSubs' = {}
  BY <1>2, SameStarts, NothingLives
<1> QED BY <1>1, <1>2, <1>3, <1>4, <1>7, <1>8, <1>9, <1>10, DeadStep DEF Dead, EndsOrg

LEMMA CrashEvents ==
    ASSUME Typed, NEW w \in Worker, Crash(w)
    PROVE  /\ EventsStay
           /\ \A j \in DOMAIN events' :
                 \/ \E i \in DOMAIN events : events[i] = events'[j]
                 \/ /\ task[w].op \in EventKind
                    /\ events'[j].kind = task[w].op /\ events'[j].sub = task[w].sub
                    /\ \E i \in DOMAIN task[w].event : task[w].event[i] = events'[j]
           /\ task[w].op \in EventKind =>
                 \E j \in DOMAIN events' : events'[j].kind = task[w].op
           /\ task[w].op \notin EventKind => events' = events
<1>1. CASE events' = events /\ task[w].op \notin EventKind
  BY <1>1, SameStays
<1>2. ASSUME NEW e \in Event, task[w].op \in EventKind, e.kind = task[w].op,
             e.sub = task[w].sub, task[w].event = <<e>>, events' = <<e>> \o events
      PROVE  /\ EventsStay
             /\ \A j \in DOMAIN events' :
                   \/ \E i \in DOMAIN events : events[i] = events'[j]
                   \/ /\ task[w].op \in EventKind
                      /\ events'[j].kind = task[w].op /\ events'[j].sub = task[w].sub
                      /\ \E i \in DOMAIN task[w].event : task[w].event[i] = events'[j]
             /\ \E j \in DOMAIN events' : events'[j].kind = task[w].op
  <2>1. events \in Seq(Event)
    BY DEF Typed, World
  <2>2. \A i \in DOMAIN events : i + 1 \in DOMAIN events' /\ events'[i + 1] = events[i]
    BY <1>2, <2>1
  <2>3. 1 \in DOMAIN events' /\ events'[1] = e
    BY <1>2, <2>1
  <2>4. \A j \in DOMAIN events' : j = 1 \/ (j - 1 \in DOMAIN events /\ events[j - 1] = events'[j])
    BY <1>2, <2>1
  <2>5. 1 \in DOMAIN task[w].event /\ task[w].event[1] = e
    BY <1>2
  <2> QED BY <1>2, <2>2, <2>3, <2>4, <2>5, ZenonT(40) DEF EventsStay
<1>3. \/ events' = events /\ task[w].op \notin EventKind
      \/ \E e \in Event :
            /\ task[w].op \in EventKind /\ e.kind = task[w].op
            /\ e.sub = task[w].sub /\ task[w].event = <<e>> /\ events' = <<e>> \o events
  BY CrashIs
<1> QED BY <1>1, <1>2, <1>3

LEMMA DeadCrash ==
    ASSUME Typed, Dead, NEW w \in Worker, Crash(w)
    PROVE  Dead'
<1>1. Only(w, Idle) /\ Busy(w) /\ UNCHANGED <<stripe, org, rows, granted>>
  BY CrashIs, EndIs DEF Crash
<1>2. DeadTask(task[w], org)
  BY <1>1 DEF Dead, Busy
<1>3. task[w].op \in EventKind => Ends(task[w]) /\ \A i \in DOMAIN task[w].event : Ending(task[w].event[i])
  BY <1>2 DEF DeadTask, EventKind, Ends
<1>4. \A j \in DOMAIN events' : Ending(events'[j]) /\ (org.sub # NoSub => events'[j].sub = org.sub)
  BY <1>3, CrashEvents DEF Dead, EndsOrg
<1>5. Owing(task[w]) => events' # << >>
  BY CrashEvents DEF Owing, EventKind
<1>6. events # << >> => events' # << >>
  BY CrashEvents DEF EventsStay, Typed, World
<1>7. Entitled(org) => Owed'
  BY <1>1, <1>5, <1>6, OwedKept DEF Dead
<1>8. granted' = NoPlan => DeadRows'
  BY <1>1, IdleIs, DeadRowsKept DEF Dead
<1>9. LiveSubs' = {}
  BY <1>1, SameStarts, NothingLives
<1>10. ~ Ends(Idle)
  BY IdleIs DEF Ends, Ended
<1> QED BY <1>1, <1>4, <1>7, <1>8, <1>9, <1>10, IdleIs, DeadStep

-----------------------------------------------------------------------------
(* While no subscription is live: what the handlers do.                     *)

LEMMA DeadTaskIs ==
    ASSUME Dead, NEW w \in Worker, Busy(w)
    PROVE  DeadTask(task[w], org)
BY DEF Dead, Busy

LEMMA DeadMoves ==
    ASSUME Typed, Dead, NEW w \in Worker, Busy(w), NEW x \in Stage \ {"idle", "reset"},
           GoTo(w, x), UNCHANGED <<stripe, events, org, rows, granted>>,
           NEW u, Moves(w, u, x), DeadTask(u, org),
           Owing(task[w]) => Owing(u) \/ ~ Entitled(org),
           Ends(u) => Ends(task[w])
    PROVE  Dead'
<1>1. Only(w, u) /\ u.stage = x /\ u.sub = task[w].sub
  BY DEF Moves, Same
<1>2. org.sub # NoSub => (Ends(u) => u.sub = org.sub)
  BY <1>1 DEF Dead, EndsOrg
<1> QED BY <1>1, <1>2, DeadGoes

LEMMA DeadEnds ==
    ASSUME Typed, Dead, NEW w \in Worker, End(w),
           UNCHANGED <<stripe, events, org, rows, granted>>,
           Owing(task[w]) => ~ Entitled(org)
    PROVE  Dead'
<1>1. Only(w, Idle) /\ ~ Ends(Idle)
  BY EndIs, IdleIs DEF Ends, Ended
<1> QED BY <1>1, IdleIs, DeadGoes

LEMMA DeadGuard ==
    ASSUME Typed, Dead, NEW w \in Worker, Guard(w)
    PROVE  Dead'
<1>1. Busy(w) /\ task[w].stage = "guard" /\ task[w].op \in {"completed", "admin"}
  BY GuardIs
<1>2. task[w].op = "admin" /\ org.sub = NoSub
  BY <1>1, DeadTaskIs DEF DeadTask, Ended
<1>3. PICK u \in Task : Only(w, u) /\ u.stage = "cancel_old" /\ u.old = org.sub /\ u.op = task[w].op
  BY GuardIs
<1>4. DeadTask(u, org) /\ ~ Ends(u) /\ ~ Owing(task[w])
  BY <1>2, <1>3 DEF DeadTask, Ends, Ended, Owing
<1> QED BY <1>3, <1>4, DeadGoes DEF Guard

LEMMA DeadCancelOld ==
    ASSUME Typed, Dead, NEW w \in Worker, CancelOld(w)
    PROVE  Dead'
<1>1. Busy(w) /\ task[w].stage = "cancel_old"
  BY BusyAt DEF CancelOld
<1>2. task[w].op = "admin" /\ task[w].old = NoSub /\ task[w].sub = NoSub
  <2>1. task[w].op \in {"completed", "admin"}
    BY <1>1, OpsAt DEF OpsOf
  <2> QED BY <1>1, <2>1, DeadTaskIs, TaskIs DEF DeadTask, Ended
<1>3. GoTo(w, "list") /\ UNCHANGED <<stripe, events, org, rows, granted>>
  BY <1>2 DEF CancelOld
<1>4. "list" \in Stage \ {"idle", "reset"}
  BY DEF Stage
<1>5. PICK u : Moves(w, u, "list")
  BY <1>3, <1>4, GoToMoves
<1>6. DeadTask(u, org) /\ ~ Ends(u) /\ ~ Owing(task[w])
  BY <1>2, <1>5 DEF DeadTask, Ends, Ended, Owing, Moves, Same
<1> QED BY <1>1, <1>3, <1>4, <1>5, <1>6, DeadMoves

LEMMA DeadListRows ==
    ASSUME Typed, Dead, NEW w \in Worker, ListRows(w)
    PROVE  Dead'
<1>1. Busy(w) /\ task[w].stage = "list"
  BY ListRowsIs
<1>2. task[w].op = "admin"
  BY <1>1, DeadTaskIs DEF DeadTask, Ended
<1>3. PICK u \in Task : Only(w, u) /\ u.stage = "clear" /\ u.op = task[w].op
  BY ListRowsIs
<1>4. DeadTask(u, org) /\ ~ Ends(u) /\ ~ Owing(task[w])
  BY <1>2, <1>3 DEF DeadTask, Ends, Ended, Owing
<1> QED BY <1>3, <1>4, DeadGoes DEF ListRows

(* Rows change while the organization and Stripe do not.                    *)
LEMMA DeadRowsStep ==
    ASSUME Typed, Dead, NEW w \in Worker, NEW t, Only(w, t),
           UNCHANGED <<stripe, events, org, granted>>,
           t.stage # "idle" => DeadTask(t, org),
           Owing(task[w]) => Owing(t), Ends(t) => Ends(task[w]) /\ t.sub = task[w].sub,
           granted' = NoPlan => DeadRows'
    PROVE  Dead'
<1>1. LiveSubs' = {}
  BY SameStarts, NothingLives
<1>2. Entitled(org) => Owed'
  BY OwedKept DEF Dead
<1>3. org.sub # NoSub => (Ends(t) => t.sub = org.sub)
  BY DEF Dead, EndsOrg
<1> QED BY <1>1, <1>2, <1>3, DeadStep DEF Dead, EndsOrg

LEMMA DeadClearRow ==
    ASSUME Typed, Dead, NEW w \in Worker, ClearRow(w)
    PROVE  Dead'
<1>1. Busy(w) /\ task[w].stage = "clear"
  BY ClearRowIs
<1>2. task[w].op = "admin"
  BY <1>1, DeadTaskIs DEF DeadTask, Ended
<1>3. PICK i \in task[w].list, u \in Task :
         /\ rows' = {r \in rows : r.id # i}
         /\ Only(w, u) /\ u.stage = "clear" /\ u.op = task[w].op
  BY ClearRowIs
<1>4. DeadTask(u, org) /\ ~ Ends(u) /\ ~ Owing(task[w])
  BY <1>2, <1>3 DEF DeadTask, Ends, Ended, Owing
<1>5. UNCHANGED <<stripe, events, org, granted>>
  BY DEF ClearRow
<1>6. granted' = NoPlan => DeadRows'
  BY <1>3, <1>5, DeadRowsKept DEF Dead
<1> QED BY <1>3, <1>4, <1>5, <1>6, DeadRowsStep

LEMMA DeadCreateRow ==
    ASSUME Typed, Dead, NoAdmin, NEW w \in Worker, CreateRow(w)
    PROVE  Dead'
<1>1. Busy(w) /\ task[w].stage = "clear" /\ GoTo(w, "write")
  BY CreateRowIs
<1>2. task[w].op = "admin"
  BY <1>1, DeadTaskIs DEF DeadTask, Ended
<1>3. "write" \in Stage \ {"idle", "reset"}
  BY DEF Stage
<1>4. PICK u : Moves(w, u, "write")
  BY <1>1, <1>3, GoToMoves
<1>5. Only(w, u) /\ DeadTask(u, org) /\ ~ Ends(u) /\ ~ Owing(task[w])
  BY <1>2, <1>4 DEF DeadTask, Ends, Ended, Owing, Moves, Same
<1>6. UNCHANGED <<stripe, events, org, granted>> /\ granted' # NoPlan
  BY <1>1, <1>2 DEF CreateRow, NoAdmin, Administers
<1> QED BY <1>5, <1>6, DeadRowsStep

LEMMA DeadFreeRow ==
    ASSUME Typed, Dead, NEW w \in Worker, FreeRow(w)
    PROVE  Dead'
<1>1. Busy(w) /\ task[w].stage = "free_row" /\ Only(w, Idle)
  BY FreeRowIs, EndIs
<1>2. PICK r \in Row : r.plan = "free" /\ rows' = rows \cup {r}
  BY FreeRowIs
<1>3. UNCHANGED <<stripe, events, org, granted>>
  BY DEF FreeRow
<1>4. granted' = NoPlan => DeadRows'
  BY <1>1, <1>2, <1>3, IdleIs, DeadRowsKept DEF Dead
<1>5. ~ Ends(Idle) /\ ~ Owing(task[w])
  BY <1>1, IdleIs DEF Ends, Ended, Owing
<1> QED BY <1>1, <1>3, <1>4, <1>5, IdleIs, DeadRowsStep

LEMMA DeadDeprovision ==
    ASSUME Typed, Dead, NEW w \in Worker, Deprovision(w)
    PROVE  Dead'
<1>1. Busy(w) /\ task[w].stage = "deprovision" /\ UNCHANGED <<stripe, events, org, rows, granted>>
  BY BusyAt DEF Deprovision
<1>2. CASE Reverted
  <2>1. End(w)
    BY <1>2 DEF Deprovision
  <2>2. ~ Entitled(org)
    BY <1>2 DEF Reverted, Entitled
  <2> QED BY <1>1, <2>1, <2>2, DeadEnds
<1>3. CASE ~ Reverted
  <2>1. GoTo(w, "cancel_rows") /\ "cancel_rows" \in Stage \ {"idle", "reset"}
    BY <1>3 DEF Deprovision, Stage
  <2>2. PICK u : Moves(w, u, "cancel_rows")
    BY <2>1, GoToMoves
  <2>3. DeadTask(u, org) /\ Ends(task[w])
    BY <1>1, <2>2, DeadTaskIs DEF DeadTask, Ends, Ended, Moves, Same
  <2>4. Owing(task[w]) => Owing(u)
    BY <2>2 DEF Owing, Moves, Same
  <2> QED BY <1>1, <2>1, <2>2, <2>3, <2>4, DeadMoves
<1> QED BY <1>2, <1>3

LEMMA DeadCancelRows ==
    ASSUME Typed, Dead, NEW w \in Worker, CancelRows(w)
    PROVE  Dead'
<1>1. /\ Busy(w) /\ task[w].stage = "cancel_rows" /\ GoTo(w, "reset")
      /\ UNCHANGED <<stripe, events, org, granted>>
      /\ rows' = {r \in rows : r.sub # task[w].sub}
  BY BusyAt DEF CancelRows
<1>2. PICK u : Moves(w, u, "reset")
  BY <1>1, GoToMoves DEF Stage
<1>3. Only(w, u) /\ u.stage = "reset" /\ u.sub = task[w].sub /\ u.op = task[w].op
  BY <1>2 DEF Moves, Same
<1>4. DeadTask(u, org)
  BY <1>1, <1>2, DeadTaskIs DEF DeadTask, Ended, Moves, Same
<1>5. Owing(task[w]) => Owing(u)
  BY <1>3 DEF Owing
<1>6. Ends(task[w])
  BY <1>1 DEF Ends, Ended
<1>7. granted' = NoPlan => DeadRows'
  <2>1. SUFFICES ASSUME granted = NoPlan PROVE DeadRows'
    BY <1>1
  <2>2. DeadRows
    BY <2>1 DEF Dead
  <2>3. \A r \in rows' : r.plan = "free"
    <3>1. SUFFICES ASSUME NEW r \in rows', r.plan # "free" PROVE FALSE
      OBVIOUS
    <3>2. org.sub # NoSub /\ r.sub = org.sub /\ r.sub # task[w].sub
      BY <1>1, <2>2, <3>1 DEF DeadRows
    <3> QED BY <1>6, <3>2 DEF Dead, EndsOrg
  <2> QED BY <1>1, <1>3, <2>2, <2>3, DeadRowsKept
<1> QED BY <1>1, <1>3, <1>4, <1>5, <1>6, <1>7, DeadRowsStep

(* The organization changes, and Stripe does not.                           *)
LEMMA DeadWrites ==
    ASSUME Typed, Dead, NEW w \in Worker, NEW t, Only(w, t), UNCHANGED <<stripe, events>>,
           org'.sub \in {NoSub, org.sub}, org'.status # "past_due",
           ~ Ends(t) \/ org'.sub = NoSub, t.stage # "idle" => DeadTask(t, org'),
           Entitled(org') => Entitled(org) /\ ~ Owing(task[w]),
           granted' = NoPlan => DeadRows'
    PROVE  Dead'
<1>1. task'[w] = t /\ \A v \in Worker : v # w => task'[v] = task[v]
  BY OnlyIs
<1>2. LiveSubs' = {}
  BY SameStarts, NothingLives
<1>3. \A i \in DOMAIN events' : Ending(events'[i])
  BY DEF Dead
<1>4. ASSUME NEW v \in Worker, task'[v].stage # "idle"
      PROVE  DeadTask(task'[v], org')
  <2>1. CASE v = w
    BY <1>1, <1>4, <2>1
  <2>2. CASE v # w
    <3>1. DeadTask(task[v], org)
      BY <1>1, <1>4, <2>2 DEF Dead
    <3> QED BY <1>1, <2>2, <3>1 DEF DeadTask
  <2> QED BY <2>1, <2>2
<1>5. Entitled(org') => Owed'
  BY OwedKept DEF Dead
<1>6. EndsOrg'
  <2>1. org'.sub # NoSub =>
          /\ \A i \in DOMAIN events' : events'[i].sub = org'.sub
          /\ \A v \in Worker : Ends(task'[v]) => task'[v].sub = org'.sub
    BY <1>1 DEF Dead, EndsOrg
  <2> QED BY <2>1 DEF EndsOrg
<1> QED BY <1>2, <1>3, <1>4, <1>5, <1>6 DEF Dead

LEMMA DeadReset ==
    ASSUME Typed, Dead, NEW w \in Worker, Reset(w)
    PROVE  Dead'
<1>1. /\ Busy(w) /\ task[w].stage = "reset" /\ GoTo(w, "free_row")
      /\ UNCHANGED <<stripe, events, rows, granted>>
      /\ org'.plan = "free" /\ org'.sub = NoSub /\ org'.status = "canceled"
  BY BusyAt DEF Reset
<1>2. PICK u : Moves(w, u, "free_row")
  BY <1>1, GoToMoves DEF Stage
<1>3. Only(w, u)
  BY <1>2 DEF Moves
<1>4. DeadTask(u, org')
  BY <1>1, <1>2, DeadTaskIs DEF DeadTask, Ended, Moves, Same
<1>5. ~ Entitled(org')
  BY <1>1 DEF Entitled
<1>6. granted' = NoPlan => DeadRows'
  <2>1. SUFFICES ASSUME granted = NoPlan PROVE DeadRows'
    BY <1>1
  <2>2. \A r \in rows' : r.plan = "free"
    BY <1>1, <2>1 DEF Dead, DeadRows
  <2> QED BY <2>2 DEF DeadRows
<1> QED BY <1>1, <1>3, <1>4, <1>5, <1>6, DeadWrites

LEMMA DeadWritePlan ==
    ASSUME Typed, Dead, NoAdmin, NEW w \in Worker, WritePlan(w)
    PROVE  Dead'
<1>1. Busy(w) /\ task[w].stage = "write"
  BY WritePlanIs
<1>2. task[w].op = "admin" /\ task[w].status = "manual"
  BY <1>1, DeadTaskIs, TaskIs DEF DeadTask, Ended
<1>3. /\ org'.sub = org.sub /\ org'.status = "manual" /\ org'.by = "admin"
      /\ GoTo(w, "unlink")
  BY <1>2, WritePlanIs, LinkIs DEF AssignedBy
<1>4. UNCHANGED <<stripe, events, granted>> /\ granted' # NoPlan
  BY <1>1, <1>2 DEF WritePlan, NoAdmin, Administers, Busy
<1>5. PICK u : Moves(w, u, "unlink")
  BY <1>3, GoToMoves DEF Stage
<1>6. /\ Only(w, u) /\ DeadTask(u, org') /\ ~ Ends(u) /\ ~ Owing(task[w])
  BY <1>1, <1>2, <1>3, <1>5 DEF DeadTask, Ends, Ended, Owing, Moves, Same
<1>7. Entitled(org') => Entitled(org)
  BY <1>3 DEF Entitled
<1> QED BY <1>3, <1>4, <1>6, <1>7, DeadWrites

LEMMA DeadUnlink ==
    ASSUME Typed, Dead, NoAdmin, NEW w \in Worker, Unlink(w)
    PROVE  Dead'
<1>1. /\ Busy(w) /\ task[w].stage = "unlink" /\ Only(w, Idle)
      /\ UNCHANGED <<stripe, events>> /\ org' = [org EXCEPT !.sub = NoSub]
      /\ granted' = IF granted = "begun" THEN task[w].plan ELSE granted
  BY BusyAt, EndIs DEF Unlink
<1>2. task[w].op = "admin"
  BY <1>1, OpsAt DEF OpsOf
<1>3. /\ org'.sub = NoSub /\ org'.by = org.by /\ org'.plan = org.plan
      /\ org'.status = org.status
  BY <1>1 DEF Typed, World
<1>4. org'.status # "past_due"
  BY <1>1, <1>2, <1>3, DeadTaskIs DEF DeadTask, Ended
<1>5. granted' # NoPlan
  BY <1>1, <1>2, TaskIs, GrantsAre DEF NoAdmin, Administers
<1>6. Entitled(org') => Entitled(org)
  BY <1>3 DEF Entitled
<1>7. ~ Owing(task[w])
  BY <1>2 DEF Owing
<1> QED BY <1>1, <1>3, <1>4, <1>5, <1>6, <1>7, IdleIs, DeadWrites

LEMMA DeadSummary ==
    ASSUME Typed, Dead, NEW w \in Worker, Summary(w)
    PROVE  Dead'
<1>1. Busy(w) /\ task[w].stage = "summary" /\ task[w].op = "updated"
  BY SummaryIs
<1>2. task[w].status \in TERMINAL_BILLING_STATUSES
  BY <1>1, DeadTaskIs DEF DeadTask
<1>3. GoTo(w, "deprovision") /\ "deprovision" \in Stage \ {"idle", "reset"}
  BY <1>2, SummaryIs DEF Stage
<1>4. PICK u : Moves(w, u, "deprovision")
  BY <1>3, GoToMoves
<1>5. DeadTask(u, org) /\ Ends(task[w]) /\ Owing(u)
  BY <1>1, <1>4, DeadTaskIs DEF DeadTask, Ends, Ended, Owing, Moves, Same
<1>6. UNCHANGED <<stripe, events, org, rows, granted>>
  BY DEF Summary
<1> QED BY <1>1, <1>3, <1>4, <1>5, <1>6, DeadMoves

LEMMA DeadVerify ==
    ASSUME Typed, Dead, NEW w \in Worker, Verify(w)
    PROVE  Dead'
<1>1. Busy(w) /\ task[w].stage = "verify" /\ UNCHANGED <<stripe, events, org, rows, granted>>
  BY BusyAt DEF Verify
<1>2. task[w].op = "verify" /\ ~ Owing(task[w])
  BY <1>1, OpsAt DEF OpsOf, Owing
<1>3. CASE End(w)
  BY <1>1, <1>2, <1>3, DeadEnds
<1>4. CASE GoTo(w, "check")
  <2>1. "check" \in Stage \ {"idle", "reset"}
    BY DEF Stage
  <2>2. PICK u : Moves(w, u, "check")
    BY <1>4, <2>1, GoToMoves
  <2>3. DeadTask(u, org) /\ ~ Ends(u)
    BY <1>2, <2>2 DEF DeadTask, Ends, Ended, Moves, Same
  <2> QED BY <1>1, <1>2, <1>4, <2>1, <2>2, <2>3, DeadMoves
<1> QED BY <1>3, <1>4 DEF Verify

LEMMA DeadCheck ==
    ASSUME Typed, Dead, NEW w \in Worker, Check(w)
    PROVE  Dead'
<1>1. Busy(w) /\ task[w].stage = "check" /\ task[w].sub \in Sub
  BY CheckIs
<1>2. task[w].op = "verify" /\ ~ Owing(task[w])
  BY <1>1, CheckIs, DeadTaskIs DEF DeadTask, Ended, Owing
<1>3. ~ Live(task[w].sub)
  BY <1>1 DEF Dead, LiveSubs
<1>4. End(w) /\ UNCHANGED <<stripe, events, org, rows, granted>>
  BY <1>2, <1>3, CheckIs DEF Check
<1> QED BY <1>2, <1>4, DeadEnds

LEMMA DeadSyncStale ==
    ASSUME Typed, Dead, NEW w \in Worker, SyncStale(w)
    PROVE  Dead'
<1>1. Busy(w) /\ task[w].stage = "stale" /\ task[w].op = "sweep"
  BY SyncStaleIs
<1>2. task[w].sub # NoSub /\ ~ Owing(task[w])
  BY <1>1, DeadTaskIs DEF DeadTask, Ended, Owing
<1>3. UNCHANGED <<stripe, events, org, rows, granted>>
  BY DEF SyncStale
<1>4. CASE End(w)
  BY <1>2, <1>3, <1>4, DeadEnds
<1>5. CASE GoTo(w, "deprovision")
  <2>1. "deprovision" \in Stage \ {"idle", "reset"}
    BY DEF Stage
  <2>2. PICK u : Moves(w, u, "deprovision")
    BY <1>5, <2>1, GoToMoves
  <2>3. DeadTask(u, org) /\ Ends(task[w])
    BY <1>1, <1>2, <2>2, DeadTaskIs DEF DeadTask, Ends, Ended, Moves, Same
  <2> QED BY <1>1, <1>2, <1>3, <1>5, <2>1, <2>2, <2>3, DeadMoves
<1>6. \A s \in Sub : stripe[s].status # "active"
  BY LiveIs DEF Dead
<1> QED BY <1>2, <1>4, <1>5, <1>6, SyncStaleIs

(* Stages no handler is at.                                                 *)
LEMMA DeadStages ==
    ASSUME Typed, Dead, NEW w \in Worker, NEW x, At(w, x),
           x \in {"retrieve", "sweep", "sweep_cancel", "metadata", "org", "hard_cancel", "modify"}
    PROVE  FALSE
<1>1. Busy(w) /\ task[w].stage = x
  BY BusyAt
<1>2. OpsOf(task[w].op, x) /\ DeadTask(task[w], org)
  BY <1>1, OpsAt, DeadTaskIs
<1> QED BY <1>1, <1>2 DEF OpsOf, DeadTask, Ended

LEMMA DeadSteps ==
    ASSUME Typed, Dead, NoAdmin, NEW w \in Worker, Step(w)
    PROVE  Dead'
<1>1. ~ (Retrieve(w) \/ SweepOrphans(w) \/ CancelOrphan(w) \/ WriteStatus(w)
           \/ Invoice(w) \/ HardCancel(w) \/ ModifyOnStripe(w))
  BY DeadStages
     DEF Retrieve, SweepOrphans, CancelOrphan, WriteStatus, Invoice, HardCancel, ModifyOnStripe
<1>2. CASE Provisioning(w)
  BY <1>1, <1>2, DeadGuard, DeadCancelOld, DeadListRows, DeadClearRow, DeadCreateRow,
     DeadWritePlan, DeadUnlink DEF Provisioning
<1>3. CASE Deprovisioning(w)
  BY <1>3, DeadDeprovision, DeadCancelRows, DeadReset, DeadFreeRow DEF Deprovisioning
<1> QED BY <1>1, <1>2, <1>3, DeadSummary, DeadVerify, DeadCheck, DeadSyncStale DEF Step

-----------------------------------------------------------------------------
(* While a subscription c is live.                                          *)

LEMMA LiveStatus ==
    ASSUME NEW c, Live(c)
    PROVE  /\ Standing(c) /\ stripe[c].status \in {"active", "past_due"}
           /\ stripe[c].status \notin TERMINAL_BILLING_STATUSES
BY DEF Live, Standing, TERMINAL_BILLING_STATUSES

LEMMA AliveTaskIs ==
    ASSUME NEW c, Alive(c), NEW w \in Worker, Busy(w)
    PROVE  AliveTask(task[w], c, org, stripe[c])
BY DEF Alive, Busy

(* Nobody has asked when a webhook or an event is on its way.               *)
LEMMA AskedIs ==
    ASSUME NEW c, Alive(c), NEW v \in Worker, Asked(task[v])
    PROVE  /\ Has(org, c, stripe[c]) /\ events = << >>
           /\ task[v].op = "modify" => stripe[c].status = "active"
           /\ \A w \in Worker : Busy(w) => Meets(task[w], c, stripe[c])
BY DEF Alive, AliveAsked, Busy

LEMMA AliveQuiet ==
    ASSUME NEW c, Alive(c), Quiet
    PROVE  Has(org, c, stripe[c]) /\ Others(c, stripe[c]) = {}
<1>1. ~ ToComplete /\ ~ ToUpdate
  BY QuietIs DEF ToComplete, ToUpdate, Completing, Updating
<1>2. Has(org, c, stripe[c])
  BY <1>1 DEF Alive, AliveOrg
<1> QED BY <1>2 DEF Has, Alive, AliveRows

(* A step of one handler that leaves c and the organization as they are.    *)
LEMMA AliveStep ==
    ASSUME Typed, NEW c \in Sub, Alive(c), NEW w \in Worker, NEW t, Only(w, t),
           org' = org, stripe'[c] = stripe[c], granted' \notin Plan,
           \A j \in DOMAIN events' : About(events'[j], c, stripe[c]),
           t.stage # "idle" => AliveTask(t, c, org, stripe[c]),
           AliveOrg(c)', AliveRows(c)', AliveAsked(c)'
    PROVE  Alive(c)'
<1>1. task'[w] = t /\ \A v \in Worker : v # w => task'[v] = task[v]
  BY OnlyIs
<1>2. \A v \in Worker : task'[v].stage # "idle" => AliveTask(task'[v], c, org', stripe'[c])
  BY <1>1 DEF Alive
<1>3. Live(c)'
  BY DEF Alive, Live
<1>4. \A j \in DOMAIN events' : About(events'[j], c, stripe'[c])
  OBVIOUS
<1> QED BY <1>2, <1>3, <1>4 DEF Alive

LEMMA AliveOrgKept ==
    ASSUME Typed, NEW c \in Sub, Alive(c), NEW w \in Worker, NEW t, Only(w, t),
           org' = org, stripe'[c] = stripe[c],
           \A i \in DOMAIN events : events[i].kind \in {"completed", "updated"} =>
              \/ \E j \in DOMAIN events' : events'[j].kind = events[i].kind
              \/ events[i].kind = "completed" /\ Completing(t)
              \/ events[i].kind = "updated" /\ Updating(t),
           Completing(task[w]) => \/ Completing(t) \/ Has(org, c, stripe[c])
                                  \/ \E j \in DOMAIN events' : events'[j].kind = "completed",
           Updating(task[w]) => \/ Updating(t) \/ Has(org, c, stripe[c])
                                \/ \E j \in DOMAIN events' : events'[j].kind = "updated",
           \A j \in DOMAIN events' : events'[j].kind = "updated" => ToUpdate,
           Updating(t) => ToUpdate
    PROVE  AliveOrg(c)'
<1>1. task'[w] = t /\ \A v \in Worker : v # w => task'[v] = task[v]
  BY OnlyIs
<1>2. ToComplete => ToComplete' \/ Has(org, c, stripe[c])
  <2>1. (\E i \in DOMAIN events : events[i].kind = "completed") => ToComplete'
    BY <1>1 DEF ToComplete
  <2>2. ASSUME NEW v \in Worker, Completing(task[v]) PROVE ToComplete' \/ Has(org, c, stripe[c])
    BY <1>1, <2>2 DEF ToComplete
  <2> QED BY <2>1, <2>2 DEF ToComplete
<1>3. ToUpdate => ToUpdate' \/ Has(org, c, stripe[c])
  <2>1. (\E i \in DOMAIN events : events[i].kind = "updated") => ToUpdate'
    BY <1>1 DEF ToUpdate
  <2>2. ASSUME NEW v \in Worker, Updating(task[v]) PROVE ToUpdate' \/ Has(org, c, stripe[c])
    BY <1>1, <2>2 DEF ToUpdate
  <2> QED BY <2>1, <2>2 DEF ToUpdate
<1>4. ToUpdate' => ToUpdate
  BY <1>1 DEF ToUpdate
<1>5. AliveOrg(c)
  BY DEF Alive
<1>6. Has(org', c, stripe'[c]) \/ ToComplete' \/ (ToUpdate' /\ org'.by = "stripe")
  BY <1>2, <1>3, <1>5 DEF AliveOrg
<1>7. org'.sub \in {NoSub, c}
  BY <1>5 DEF AliveOrg
<1>8. ToUpdate' \/ "past_due" \in {org'.status, stripe'[c].status} => org'.sub = c
  BY <1>4, <1>5 DEF AliveOrg
<1> QED BY <1>6, <1>7, <1>8 DEF AliveOrg

LEMMA AliveRowsKept ==
    ASSUME Typed, NEW c \in Sub, Alive(c), NEW w \in Worker, NEW t, Only(w, t),
           org' = org, stripe'[c] = stripe[c], rows' = rows,
           t.stage = "clear" =>
              \/ \A r \in rows : r.id \in t.list
              \/ task[w].stage = "clear" /\ t.list = task[w].list,
           t.stage = "write" => task[w].stage = "write"
    PROVE  AliveRows(c)'
<1>1. task'[w] = t /\ \A v \in Worker : v # w => task'[v] = task[v]
  BY OnlyIs
<1>2. PICK S : S = Others(c, stripe[c])
  OBVIOUS
<1>3. S \subseteq rows /\ Others(c, stripe[c])' = S
  BY <1>2 DEF Others
<1>4. org.sub = c /\ org.plan = stripe[c].plan => S = {}
  BY <1>2 DEF Alive, AliveRows
<1>5. \A v \in Worker : task[v].stage = "clear" => \A r \in S : r.id \in task[v].list
  BY <1>2 DEF Alive, AliveRows
<1>6. \A v \in Worker : task[v].stage = "write" => S = {}
  BY <1>2 DEF Alive, AliveRows
<1>7. \A v \in Worker : task'[v].stage = "clear" => \A r \in S : r.id \in task'[v].list
  BY <1>1, <1>3, <1>5
<1>8. \A v \in Worker : task'[v].stage = "write" => S = {}
  BY <1>1, <1>6
<1> QED BY <1>3, <1>4, <1>7, <1>8 DEF AliveRows

LEMMA AliveAskedKept ==
    ASSUME Typed, NEW c \in Sub, Alive(c), NEW w \in Worker, NEW t, Only(w, t),
           org' = org, stripe'[c] = stripe[c],
           Asked(t) => Asked(task[w]) /\ t.op = task[w].op,
           ASSUME NEW v \in Worker, Asked(task[v])
           PROVE  events' = << >> /\ (t.stage # "idle" => Meets(t, c, stripe[c]))
    PROVE  AliveAsked(c)'
<1>1. task'[w] = t /\ \A v \in Worker : v # w => task'[v] = task[v]
  BY OnlyIs
<1>2. SUFFICES ASSUME NEW v \in Worker, Asked(task'[v])
               PROVE  /\ Has(org', c, stripe'[c]) /\ events' = << >>
                      /\ task'[v].op = "modify" => stripe'[c].status = "active"
                      /\ \A u \in Worker : task'[u].stage # "idle" => Meets(task'[u], c, stripe'[c])
  BY DEF AliveAsked
<1>3. Asked(task[v]) /\ task'[v].op = task[v].op
  BY <1>1, <1>2
<1>4. /\ Has(org, c, stripe[c]) /\ (task[v].op = "modify" => stripe[c].status = "active")
      /\ \A u \in Worker : task[u].stage # "idle" => Meets(task[u], c, stripe[c])
  BY <1>3, AskedIs DEF Busy
<1>5. \A u \in Worker : task'[u].stage # "idle" => Meets(task'[u], c, stripe[c])
  BY <1>1, <1>3, <1>4
<1> QED BY <1>3, <1>4, <1>5

(* A handler goes on or ends, and at most rows change.                      *)
LEMMA AliveGoes ==
    ASSUME Typed, NEW c \in Sub, Alive(c), NEW w \in Worker, Busy(w), NEW t, Only(w, t),
           UNCHANGED <<stripe, events, org, granted>>, AliveRows(c)',
           t.stage # "idle" =>
              t.op = task[w].op /\ AliveTask(t, c, org, stripe[c]),
           Completing(task[w]) => Completing(t) \/ Has(org, c, stripe[c]),
           Updating(task[w]) => Updating(t) \/ Has(org, c, stripe[c]),
           Asked(t) => Asked(task[w]),
           ASSUME NEW v \in Worker, Asked(task[v]), Meets(task[w], c, stripe[c]), t.stage # "idle"
           PROVE  Meets(t, c, stripe[c])
    PROVE  Alive(c)'
<1>1. Updating(t) => ToUpdate
  BY DEF Updating, ToUpdate, Busy
<1>2. \A j \in DOMAIN events' : events'[j].kind = "updated" => ToUpdate
  BY DEF ToUpdate
<1>3. AliveOrg(c)'
  BY <1>1, <1>2, AliveOrgKept
<1>4. Asked(t) => Asked(task[w]) /\ t.op = task[w].op
  BY DEF Asked, Asks
<1>5. ASSUME NEW v \in Worker, Asked(task[v])
      PROVE  events' = << >> /\ (t.stage # "idle" => Meets(t, c, stripe[c]))
  BY <1>5, AskedIs
<1>6. AliveAsked(c)'
  BY <1>4, <1>5, AliveAskedKept
<1> QED BY <1>3, <1>6, AliveStep DEF Alive

LEMMA AliveMoves ==
    ASSUME Typed, NEW c \in Sub, Alive(c), NEW w \in Worker, Busy(w),
           UNCHANGED <<stripe, events, org, rows, granted>>,
           NEW x \in Stage \ {"idle", "clear", "write"}, NEW u, Moves(w, u, x),
           AliveTask(u, c, org, stripe[c]),
           Completing(task[w]) => Completing(u),
           Asked(u) => Asked(task[w]),
           ASSUME NEW v \in Worker, Asked(task[v]), Meets(task[w], c, stripe[c])
           PROVE  Meets(u, c, stripe[c])
    PROVE  Alive(c)'
<1>1. Only(w, u) /\ u.stage = x /\ u.op = task[w].op
  BY DEF Moves, Same
<1>2. AliveRows(c)'
  BY <1>1, AliveRowsKept
<1>3. Updating(task[w]) => Updating(u)
  BY <1>1 DEF Updating
<1> QED BY <1>1, <1>2, <1>3, AliveGoes

LEMMA AliveInformed ==
    ASSUME Typed, NEW c \in Sub, Alive(c), NEW w \in Worker, Busy(w),
           UNCHANGED <<stripe, events, org, rows, granted>>,
           NEW x \in Stage \ {"idle", "clear", "write"}, NEW u, Only(w, u), u.stage = x,
           u.op = task[w].op,
           AliveTask(u, c, org, stripe[c]),
           Completing(task[w]) => Completing(u),
           Asked(u) => Asked(task[w]),
           ASSUME NEW v \in Worker, Asked(task[v]), Meets(task[w], c, stripe[c])
           PROVE  Meets(u, c, stripe[c])
    PROVE  Alive(c)'
<1>2. AliveRows(c)'
  BY AliveRowsKept
<1>3. Updating(task[w]) => Updating(u)
  BY DEF Updating
<1> QED BY <1>2, <1>3, AliveGoes

LEMMA AliveQuits ==
    ASSUME Typed, NEW c \in Sub, Alive(c), NEW w \in Worker, Busy(w), End(w),
           UNCHANGED <<stripe, events, org, rows, granted>>,
           Completing(task[w]) => Has(org, c, stripe[c]),
           Updating(task[w]) => Has(org, c, stripe[c])
    PROVE  Alive(c)'
<1>1. Only(w, Idle)
  BY EndIs
<1>2. AliveRows(c)'
  BY <1>1, IdleIs, AliveRowsKept
<1>3. ~ Asked(Idle)
  BY IdleIs DEF Asked, Asks
<1> QED BY <1>1, <1>2, <1>3, IdleIs, AliveGoes

LEMMA AliveGuard ==
    ASSUME Typed, NEW c \in Sub, Alive(c), NEW w \in Worker, Guard(w)
    PROVE  Alive(c)'
<1>1. Busy(w) /\ task[w].stage = "guard" /\ task[w].op \in {"completed", "admin"}
  BY GuardIs
<1>2. PICK u \in Task :
         /\ Only(w, u) /\ u.stage = "cancel_old" /\ u.old = org.sub
         /\ u.op = task[w].op /\ u.sub = task[w].sub /\ u.event = task[w].event
         /\ u.plan = task[w].plan /\ u.status = task[w].status /\ u.subs = task[w].subs
  BY GuardIs
<1>3. UNCHANGED <<stripe, events, org, rows, granted>>
  BY DEF Guard
<1>4. AliveTask(task[w], c, org, stripe[c])
  BY <1>1, AliveTaskIs
<1>5. Asked(task[w]) => org.sub = c
  BY AskedIs DEF Has
<1>6. task[w].op = "admin" => Asked(task[w])
  BY <1>1 DEF Asked, Asks, Provided
<1>7. org.sub \in {NoSub, c}
  BY DEF Alive, AliveOrg
<1>8. AliveTask(u, c, org, stripe[c])
  BY <1>1, <1>2, <1>4, <1>5, <1>6, <1>7 DEF AliveTask, Ended, Provided
<1>9. Completing(task[w]) => Completing(u)
  BY <1>2 DEF Completing
<1>10. Asked(u) => Asked(task[w])
  BY <1>1, <1>2 DEF Asked, Asks, Provided
<1>11. Meets(task[w], c, stripe[c]) => Meets(u, c, stripe[c])
  BY <1>1, <1>2 DEF Meets
<1> QED BY <1>1, <1>2, <1>3, <1>8, <1>9, <1>10, <1>11, AliveInformed DEF Stage

LEMMA AliveCancelOld ==
    ASSUME Typed, NEW c \in Sub, Alive(c), NEW w \in Worker, CancelOld(w),
           task[w].op = "completed"
    PROVE  Alive(c)'
<1>1. Busy(w) /\ task[w].stage = "cancel_old" /\ GoTo(w, "retrieve")
  BY BusyAt DEF CancelOld
<1>2. AliveTask(task[w], c, org, stripe[c])
  BY <1>1, AliveTaskIs
<1>3. task[w].sub = c /\ task[w].old \in {NoSub, c}
  BY <1>2 DEF AliveTask
<1>4. UNCHANGED <<stripe, events, org, rows, granted>>
  BY <1>3, PlansAre DEF CancelOld, CancelOnStripe
<1>5. PICK u : Moves(w, u, "retrieve")
  BY <1>1, GoToMoves DEF Stage
<1>6. AliveTask(u, c, org, stripe[c])
  BY <1>2, <1>5 DEF AliveTask, Ended, Provided, Moves, Same
<1>7. Completing(u) /\ ~ Asked(u)
  BY <1>5 DEF Completing, Asked, Asks, Moves, Same
<1>8. ~ Meets(task[w], c, stripe[c])
  BY DEF Meets, EventKind
<1> QED BY <1>1, <1>4, <1>5, <1>6, <1>7, <1>8, AliveMoves DEF Stage

LEMMA AliveRetrieve ==
    ASSUME Typed, NEW c \in Sub, Alive(c), NEW w \in Worker, Retrieve(w)
    PROVE  Alive(c)'
<1>1. Busy(w) /\ task[w].stage = "retrieve" /\ task[w].op = "completed"
  BY RetrieveIs
<1>2. PICK u \in Task :
         /\ Only(w, u) /\ u.stage = "list" /\ u.status = stripe[task[w].sub].status
         /\ u.op = task[w].op /\ u.sub = task[w].sub /\ u.event = task[w].event
         /\ u.plan = task[w].plan /\ u.old = task[w].old /\ u.subs = task[w].subs
  BY RetrieveIs
<1>3. UNCHANGED <<stripe, events, org, rows, granted>>
  BY DEF Retrieve
<1>4. AliveTask(task[w], c, org, stripe[c])
  BY <1>1, AliveTaskIs
<1>5. AliveTask(u, c, org, stripe[c])
  BY <1>1, <1>2, <1>4 DEF AliveTask, Ended, Provided, True
<1>6. Completing(u) /\ ~ Asked(u)
  BY <1>1, <1>2 DEF Completing, Asked, Asks
<1>7. ~ Meets(task[w], c, stripe[c])
  BY <1>1 DEF Meets, EventKind
<1> QED BY <1>1, <1>2, <1>3, <1>5, <1>6, <1>7, AliveInformed DEF Stage

LEMMA AliveListRows ==
    ASSUME Typed, NEW c \in Sub, Alive(c), NEW w \in Worker, ListRows(w)
    PROVE  Alive(c)'
<1>1. Busy(w) /\ task[w].stage = "list"
  BY ListRowsIs
<1>2. PICK u \in Task :
         /\ Only(w, u) /\ u.stage = "clear" /\ u.list = {r.id : r \in rows}
         /\ u.op = task[w].op /\ u.sub = task[w].sub /\ u.event = task[w].event
         /\ u.plan = task[w].plan /\ u.status = task[w].status
         /\ u.old = task[w].old /\ u.subs = task[w].subs
  BY ListRowsIs
<1>3. UNCHANGED <<stripe, events, org, rows, granted>>
  BY DEF ListRows
<1>4. AliveTask(task[w], c, org, stripe[c])
  BY <1>1, AliveTaskIs
<1>5. AliveTask(u, c, org, stripe[c])
  BY <1>1, <1>2, <1>4 DEF AliveTask, Ended, Provided, True
<1>6. (Completing(task[w]) => Completing(u)) /\ (Updating(task[w]) => Updating(u)) /\ ~ Asked(u)
  BY <1>1, <1>2 DEF Completing, Updating, Asked, Provided
<1>7. Meets(task[w], c, stripe[c]) => Meets(u, c, stripe[c])
  BY <1>1, <1>2, <1>4 DEF Meets, AliveTask, Provided, True
<1>8. AliveRows(c)'
  BY <1>2, <1>3, AliveRowsKept
<1> QED BY <1>1, <1>2, <1>3, <1>5, <1>6, <1>7, <1>8, AliveGoes

LEMMA AliveClearRow ==
    ASSUME Typed, NEW c \in Sub, Alive(c), NEW w \in Worker, ClearRow(w)
    PROVE  Alive(c)'
<1>1. Busy(w) /\ task[w].stage = "clear"
  BY ClearRowIs
<1>2. PICK i \in task[w].list, u \in Task :
         /\ rows' = {r \in rows : r.id # i}
         /\ Only(w, u) /\ u.stage = "clear" /\ u.list = task[w].list \ {i}
         /\ u.op = task[w].op /\ u.sub = task[w].sub /\ u.event = task[w].event
         /\ u.plan = task[w].plan /\ u.status = task[w].status
         /\ u.old = task[w].old /\ u.subs = task[w].subs
  BY ClearRowIs
<1>3. UNCHANGED <<stripe, events, org, granted>>
  BY DEF ClearRow
<1>4. AliveTask(task[w], c, org, stripe[c])
  BY <1>1, AliveTaskIs
<1>5. AliveTask(u, c, org, stripe[c])
  BY <1>1, <1>2, <1>4 DEF AliveTask, Ended, Provided, True
<1>6. (Completing(task[w]) => Completing(u)) /\ (Updating(task[w]) => Updating(u)) /\ ~ Asked(u)
  BY <1>1, <1>2 DEF Completing, Updating, Asked, Provided
<1>7. Meets(task[w], c, stripe[c]) => Meets(u, c, stripe[c])
  BY <1>1, <1>2, <1>4 DEF Meets, AliveTask, Provided, True
<1>8. AliveRows(c)'
  <2>1. task'[w] = u /\ \A v \in Worker : v # w => task'[v] = task[v]
    BY <1>2, OnlyIs
  <2>2. PICK S : S = Others(c, stripe[c])
    OBVIOUS
  <2>3. PICK T : T = Others(c, stripe[c])'
    OBVIOUS
  <2>4. T \subseteq S /\ \A r \in T : r.id # i
    BY <1>2, <1>3, <2>2, <2>3 DEF Others
  <2>5. /\ org.sub = c /\ org.plan = stripe[c].plan => S = {}
        /\ \A v \in Worker : task[v].stage = "clear" => \A r \in S : r.id \in task[v].list
        /\ \A v \in Worker : task[v].stage = "write" => S = {}
    BY <2>2 DEF Alive, AliveRows
  <2>6. \A v \in Worker : task'[v].stage = "clear" => \A r \in T : r.id \in task'[v].list
    BY <1>1, <1>2, <2>1, <2>4, <2>5
  <2>7. \A v \in Worker : task'[v].stage = "write" => T = {}
    BY <1>2, <2>1, <2>4, <2>5
  <2> QED BY <1>3, <2>3, <2>4, <2>5, <2>6, <2>7 DEF AliveRows
<1> QED BY <1>1, <1>2, <1>3, <1>5, <1>6, <1>7, <1>8, AliveGoes

(* The handlers that write a plan.                                          *)
LEMMA AliveProvides ==
    ASSUME Typed, NEW c \in Sub, Alive(c), NEW w \in Worker, Busy(w), task[w].stage \in Provided
    PROVE  /\ True(task[w], c, stripe[c]) /\ Link(task[w]) = c
           /\ task[w].op \notin {"admin", "sweep"}
<1>1. AliveTask(task[w], c, org, stripe[c])
  BY AliveTaskIs
<1>2. True(task[w], c, stripe[c]) /\ task[w].op \notin {"admin", "sweep"}
  BY <1>1 DEF AliveTask, Provided
<1> QED BY <1>2, LinkIs DEF True

LEMMA AliveCreateRow ==
    ASSUME Typed, NEW c \in Sub, Alive(c), NEW w \in Worker, CreateRow(w)
    PROVE  Alive(c)'
<1>1. Busy(w) /\ task[w].stage = "clear" /\ task[w].list = {} /\ GoTo(w, "write")
  BY CreateRowIs
<1>2. PICK r \in Row : r.plan = task[w].plan /\ r.sub = Link(task[w]) /\ rows' = rows \cup {r}
  BY CreateRowIs
<1>3. PICK u : Moves(w, u, "write")
  BY <1>1, GoToMoves DEF Stage
<1>4. UNCHANGED <<stripe, events, org, granted>>
  BY DEF CreateRow
<1>5. r.plan = stripe[c].plan /\ r.sub = c
  BY <1>1, <1>2, AliveProvides DEF True, Provided
<1>6. AliveTask(u, c, org, stripe[c])
  <2>1. AliveTask(task[w], c, org, stripe[c])
    BY <1>1, AliveTaskIs
  <2> QED BY <1>1, <1>3, <2>1 DEF AliveTask, Ended, Provided, True, Moves, Same
<1>7. (Completing(task[w]) => Completing(u)) /\ (Updating(task[w]) => Updating(u)) /\ ~ Asked(u)
  BY <1>1, <1>3 DEF Completing, Updating, Asked, Provided, Moves, Same
<1>8. Meets(task[w], c, stripe[c]) => Meets(u, c, stripe[c])
  BY <1>1, <1>3, AliveProvides DEF Meets, Provided, True, Moves, Same
<1>9. AliveRows(c)'
  <2>1. Others(c, stripe[c]) = {}
    BY <1>1 DEF Alive, AliveRows, Others
  <2>2. Others(c, stripe[c])' = {}
    BY <1>2, <1>4, <1>5, <2>1 DEF Others
  <2> QED BY <2>2 DEF AliveRows
<1>10. Only(w, u) /\ u.stage = "write" /\ u.op = task[w].op
  BY <1>3 DEF Moves, Same
<1> QED BY <1>1, <1>4, <1>6, <1>7, <1>8, <1>9, <1>10, AliveGoes

(* The organization changes, and Stripe does not.                           *)
LEMMA AliveWrites ==
    ASSUME Typed, NEW c \in Sub, Alive(c), NEW w \in Worker, Busy(w), NEW t, Only(w, t),
           UNCHANGED <<stripe, events, rows, granted>>,
           org'.plan = org.plan \/ org'.plan = stripe[c].plan,
           AliveOrg(c)', AliveRows(c)',
           Has(org, c, stripe[c]) => Has(org', c, stripe[c]),
           t.stage # "idle" => AliveTask(t, c, org', stripe[c]) /\ t.op = "completed",
           t.stage # "idle" => task[w].op = "completed"
    PROVE  Alive(c)'
<1>1. task'[w] = t /\ \A v \in Worker : v # w => task'[v] = task[v]
  BY OnlyIs
<1>2. ASSUME NEW v \in Worker, task'[v].stage # "idle"
      PROVE  AliveTask(task'[v], c, org', stripe'[c])
  <2>1. CASE v = w
    BY <1>1, <1>2, <2>1
  <2>2. CASE v # w
    <3>1. AliveTask(task[v], c, org, stripe[c])
      BY <1>1, <1>2, <2>2 DEF Alive
    <3>2. AliveTask(task[v], c, org', stripe[c])
      BY <3>1 DEF AliveTask
    <3> QED BY <1>1, <2>2, <3>2
  <2> QED BY <2>1, <2>2
<1>3. AliveAsked(c)'
  <2>1. SUFFICES ASSUME NEW v \in Worker, Asked(task'[v])
                 PROVE  /\ Has(org', c, stripe'[c]) /\ events' = << >>
                        /\ task'[v].op = "modify" => stripe'[c].status = "active"
                        /\ \A u \in Worker : task'[u].stage # "idle" => Meets(task'[u], c, stripe'[c])
    BY DEF AliveAsked
  <2>2. v # w /\ Asked(task[v]) /\ task'[v] = task[v]
    BY <1>1, <2>1 DEF Asked, Asks
  <2>3. /\ Has(org, c, stripe[c]) /\ events = << >>
        /\ task[v].op = "modify" => stripe[c].status = "active"
        /\ \A u \in Worker : Busy(u) => Meets(task[u], c, stripe[c])
    BY <2>2, AskedIs
  <2>4. t.stage = "idle"
    BY <2>3 DEF Meets, EventKind
  <2>5. \A u \in Worker : task'[u].stage # "idle" => Meets(task'[u], c, stripe[c])
    BY <1>1, <2>3, <2>4 DEF Busy
  <2> QED BY <2>2, <2>3, <2>5
<1>4. Live(c)' /\ \A j \in DOMAIN events' : About(events'[j], c, stripe'[c])
  BY DEF Alive, Live
<1> QED BY <1>2, <1>3, <1>4 DEF Alive

LEMMA AliveWritePlan ==
    ASSUME Typed, NEW c \in Sub, Alive(c), NEW w \in Worker, WritePlan(w)
    PROVE  Alive(c)'
<1>1. Busy(w) /\ task[w].stage = "write"
  BY WritePlanIs
<1>2. /\ True(task[w], c, stripe[c]) /\ Link(task[w]) = c
      /\ task[w].op \notin {"admin", "sweep"} /\ c # NoSub
  BY <1>1, AliveProvides, PlansAre DEF Provided
<1>3. /\ org'.plan = task[w].plan /\ org'.status = task[w].status
      /\ org'.by = AssignedBy(task[w].op)
      /\ org'.sub = IF Link(task[w]) = NoSub THEN org.sub ELSE Link(task[w])
  BY WritePlanIs
<1>4. Has(org', c, stripe[c])
  BY <1>2, <1>3 DEF Has, True, AssignedBy
<1>5. UNCHANGED <<stripe, events, rows, granted>>
  BY DEF WritePlan
<1>6. AliveOrg(c)'
  <2>1. Has(org', c, stripe'[c])
    BY <1>4, <1>5
  <2> QED BY <2>1 DEF AliveOrg, Has
<1>7. Others(c, stripe[c])' = {}
  <2>1. Others(c, stripe[c]) = {}
    BY <1>1 DEF Alive, AliveRows
  <2> QED BY <1>5, <2>1 DEF Others
<1>8. AliveRows(c)'
  BY <1>7 DEF AliveRows
<1>9. CASE task[w].op = "completed"
  <2>1. GoTo(w, "sweep")
    BY <1>9, WritePlanIs
  <2>2. PICK u : Moves(w, u, "sweep")
    BY <2>1, GoToMoves DEF Stage
  <2>3. AliveTask(task[w], c, org, stripe[c])
    BY <1>1, AliveTaskIs
  <2>4. AliveTask(u, c, org', stripe[c])
    BY <1>9, <2>2, <2>3 DEF AliveTask, Ended, Provided, Moves, Same
  <2>5. Only(w, u) /\ u.op = "completed"
    BY <1>9, <2>2 DEF Moves, Same
  <2> QED BY <1>1, <1>2, <1>3, <1>4, <1>5, <1>6, <1>8, <1>9, <2>4, <2>5, AliveWrites DEF True
<1>10. CASE task[w].op # "completed"
  <2>1. Only(w, Idle)
    BY <1>2, <1>10, WritePlanIs, EndIs
  <2> QED BY <1>1, <1>2, <1>3, <1>4, <1>5, <1>6, <1>8, <2>1, IdleIs, AliveWrites DEF True
<1> QED BY <1>9, <1>10

LEMMA AliveWriteStatus ==
    ASSUME Typed, NEW c \in Sub, Alive(c), NEW w \in Worker, WriteStatus(w)
    PROVE  Alive(c)'
<1>1. /\ Busy(w) /\ task[w].stage = "metadata"
      /\ task[w].op \in {"updated", "paid", "failed", "sweep"}
      /\ org'.plan = org.plan /\ org'.sub = org.sub /\ org'.status = task[w].status
      /\ org'.by = IF task[w].op = "sweep" THEN org.by ELSE "stripe"
      /\ Only(w, Idle)
  BY WriteStatusIs, EndIs
<1>2. UNCHANGED <<stripe, events, rows, granted>>
  BY DEF WriteStatus
<1>3. AliveTask(task[w], c, org, stripe[c])
  BY <1>1, AliveTaskIs
<1>4. org'.status = stripe[c].status
  BY <1>1, <1>3 DEF AliveTask, True
<1>5. Has(org, c, stripe[c]) => Has(org', c, stripe[c])
  BY <1>1, <1>4 DEF Has
<1>6. task'[w] = Idle /\ \A v \in Worker : v # w => task'[v] = task[v]
  BY <1>1, OnlyIs
<1>7. AliveOrg(c)
  BY DEF Alive
<1>8. ToComplete => ToComplete'
  BY <1>1, <1>2, <1>6 DEF ToComplete, Completing
<1>9. ToUpdate' => ToUpdate
  BY <1>2, <1>6, IdleIs DEF ToUpdate, Updating
<1>10. Has(org', c, stripe'[c]) \/ ToComplete' \/ (ToUpdate' /\ org'.by = "stripe")
  <2>1. CASE task[w].op = "updated"
    <3>1. ToUpdate
      BY <1>1, <2>1 DEF ToUpdate, Updating
    <3>2. org.sub = c /\ org.plan = stripe[c].plan
      BY <1>1, <1>3, <1>7, <2>1, <3>1 DEF AliveOrg, AliveTask
    <3> QED BY <1>1, <1>2, <1>4, <2>1, <3>2 DEF Has
  <2>2. CASE task[w].op # "updated"
    <3>1. ToUpdate => ToUpdate'
      BY <1>2, <1>6, <2>2 DEF ToUpdate, Updating
    <3>2. org.by = "stripe" => org'.by = "stripe"
      BY <1>1
    <3> QED BY <1>2, <1>5, <1>7, <1>8, <3>1, <3>2 DEF AliveOrg
  <2> QED BY <2>1, <2>2
<1>11. ToUpdate' \/ "past_due" \in {org'.status, stripe'[c].status} => org'.sub = c
  BY <1>1, <1>2, <1>4, <1>7, <1>9 DEF AliveOrg
<1>12. AliveOrg(c)'
  <2>1. org'.sub \in {NoSub, c}
    BY <1>1, <1>7 DEF AliveOrg
  <2> QED BY <1>10, <1>11, <2>1 DEF AliveOrg
<1>13. AliveRows(c)'
  <2>1. PICK S : S = Others(c, stripe[c])
    OBVIOUS
  <2>2. S = Others(c, stripe[c])'
    BY <1>2, <2>1 DEF Others
  <2>3. /\ org'.sub = c /\ org'.plan = stripe'[c].plan => S = {}
        /\ \A v \in Worker : task'[v].stage = "clear" => \A r \in S : r.id \in task'[v].list
        /\ \A v \in Worker : task'[v].stage = "write" => S = {}
    BY <1>1, <1>2, <1>6, <2>1, IdleIs DEF Alive, AliveRows
  <2> QED BY <2>2, <2>3 DEF AliveRows
<1> QED BY <1>1, <1>2, <1>5, <1>12, <1>13, IdleIs, AliveWrites

LEMMA AliveSweepOrphans ==
    ASSUME Typed, OneStands, NEW c \in Sub, Alive(c), NEW w \in Worker, SweepOrphans(w)
    PROVE  Alive(c)'
<1>1. Busy(w) /\ task[w].stage = "sweep" /\ task[w].op = "completed"
  BY SweepOrphansIs
<1>2. PICK u \in Task :
         /\ Only(w, u) /\ u.stage = "sweep_cancel"
         /\ u.subs = {s \in Sub \ {task[w].sub} : stripe[s].status = "active"}
         /\ u.op = task[w].op /\ u.sub = task[w].sub /\ u.event = task[w].event
         /\ u.plan = task[w].plan /\ u.status = task[w].status /\ u.old = task[w].old
  BY SweepOrphansIs
<1>3. UNCHANGED <<stripe, events, org, rows, granted>>
  BY DEF SweepOrphans
<1>4. AliveTask(task[w], c, org, stripe[c]) /\ task[w].sub = c
  BY <1>1, AliveTaskIs DEF AliveTask
<1>5. u.subs = {}
  <2>1. SUFFICES ASSUME NEW s \in Sub, s # c, stripe[s].status = "active" PROVE FALSE
    BY <1>2, <1>4
  <2>2. Standing(s) /\ Standing(c)
    BY <2>1, LiveStatus DEF Standing, Live, Alive
  <2> QED BY <2>1, <2>2 DEF OneStands
<1>6. AliveTask(u, c, org, stripe[c])
  BY <1>1, <1>2, <1>4, <1>5 DEF AliveTask, Ended, Provided
<1>7. ~ Completing(task[w]) /\ ~ Asked(u)
  BY <1>1, <1>2 DEF Completing, Asked, Asks
<1>8. ~ Meets(task[w], c, stripe[c])
  BY <1>1 DEF Meets, EventKind
<1> QED BY <1>1, <1>2, <1>3, <1>6, <1>7, <1>8, AliveInformed DEF Stage

LEMMA AliveCancelOrphan ==
    ASSUME Typed, NEW c \in Sub, Alive(c), NEW w \in Worker, CancelOrphan(w)
    PROVE  Alive(c)'
<1>1. Busy(w) /\ task[w].stage = "sweep_cancel" /\ task[w].op = "completed"
  BY CancelOrphanIs
<1>2. task[w].subs = {}
  BY <1>1, AliveTaskIs DEF AliveTask
<1>3. End(w) /\ UNCHANGED <<stripe, events, org, rows, granted>>
  BY <1>2, CancelOrphanIs DEF CancelOrphan
<1>4. ~ Completing(task[w]) /\ ~ Updating(task[w])
  BY <1>1 DEF Completing, Updating
<1> QED BY <1>1, <1>3, <1>4, AliveQuits

LEMMA AliveSummary ==
    ASSUME Typed, NEW c \in Sub, Alive(c), NEW w \in Worker, Summary(w)
    PROVE  Alive(c)'
<1>1. Busy(w) /\ task[w].stage = "summary" /\ task[w].op = "updated"
  BY SummaryIs
<1>2. AliveTask(task[w], c, org, stripe[c]) /\ True(task[w], c, stripe[c])
  BY <1>1, AliveTaskIs DEF AliveTask
<1>3. task[w].status \notin TERMINAL_BILLING_STATUSES
  BY <1>2, LiveStatus DEF True, Alive
<1>4. UNCHANGED <<stripe, events, org, rows, granted>>
  BY DEF Summary
<1>5. ~ Meets(task[w], c, stripe[c]) /\ ~ Completing(task[w])
  BY <1>1 DEF Meets, EventKind, Completing
<1>6. CASE GoTo(w, "list")
  <2>1. PICK u : Moves(w, u, "list")
    BY <1>6, GoToMoves DEF Stage
  <2>2. AliveTask(u, c, org, stripe[c]) /\ ~ Asked(u)
    BY <1>1, <1>2, <2>1 DEF AliveTask, Ended, Provided, True, Moves, Same, Asked
  <2> QED BY <1>1, <1>4, <1>5, <2>1, <2>2, AliveMoves DEF Stage
<1>7. CASE task[w].plan = org.plan /\ GoTo(w, "metadata")
  <2>1. PICK u : Moves(w, u, "metadata")
    BY <1>7, GoToMoves DEF Stage
  <2>2. AliveTask(u, c, org, stripe[c]) /\ ~ Asked(u)
    BY <1>1, <1>2, <1>7, <2>1 DEF AliveTask, Ended, Provided, True, Moves, Same, Asked, Asks
  <2> QED BY <1>1, <1>4, <1>5, <2>1, <2>2, AliveMoves DEF Stage
<1> QED BY <1>3, <1>6, <1>7, SummaryIs

LEMMA AliveInvoice ==
    ASSUME Typed, NEW c \in Sub, Alive(c), NEW w \in Worker, Invoice(w)
    PROVE  Alive(c)'
<1>1. Busy(w) /\ task[w].stage = "org" /\ UNCHANGED <<stripe, events, org, rows, granted>>
  BY BusyAt DEF Invoice
<1>2. task[w].op \in {"paid", "failed"}
  BY <1>1, OpsAt DEF OpsOf
<1>3. ~ Meets(task[w], c, stripe[c]) /\ ~ Completing(task[w]) /\ ~ Updating(task[w])
  BY <1>2 DEF Meets, EventKind, Completing, Updating
<1>4. CASE End(w)
  BY <1>1, <1>3, <1>4, AliveQuits
<1>5. CASE GoTo(w, "metadata")
  <2>1. PICK u : Moves(w, u, "metadata")
    BY <1>5, GoToMoves DEF Stage
  <2>2. AliveTask(u, c, org, stripe[c]) /\ ~ Asked(u)
    BY <1>1, <1>2, <2>1, AliveTaskIs
       DEF AliveTask, Ended, Provided, True, Moves, Same, Asked, Asks
  <2> QED BY <1>1, <1>3, <2>1, <2>2, AliveMoves DEF Stage
<1> QED BY <1>4, <1>5 DEF Invoice

LEMMA AliveVerify ==
    ASSUME Typed, NEW c \in Sub, Alive(c), NEW w \in Worker, Verify(w)
    PROVE  Alive(c)'
<1>1. Busy(w) /\ task[w].stage = "verify" /\ UNCHANGED <<stripe, events, org, rows, granted>>
  BY BusyAt DEF Verify
<1>2. task[w].op = "verify" /\ ~ Completing(task[w]) /\ ~ Updating(task[w])
  BY <1>1, OpsAt DEF OpsOf, Completing, Updating
<1>3. AliveTask(task[w], c, org, stripe[c])
  BY <1>1, AliveTaskIs
<1>4. CASE End(w)
  BY <1>1, <1>2, <1>4, AliveQuits
<1>5. CASE GoTo(w, "check") /\ ~ (/\ org.sub = task[w].sub /\ org.plan = task[w].plan
                                  /\ org.status \in ACTIVE_BILLING_STATES)
  <2>1. PICK u : Moves(w, u, "check")
    BY <1>5, GoToMoves DEF Stage
  <2>2. AliveTask(u, c, org, stripe[c]) /\ ~ Asked(u)
    BY <1>1, <1>2, <1>3, <2>1 DEF AliveTask, Ended, Provided, Moves, Same, Asked, Asks
  <2>3. ASSUME NEW v \in Worker, Asked(task[v]) PROVE Meets(u, c, stripe[c])
    <3>1. Has(org, c, stripe[c])
      BY <2>3, AskedIs
    <3>2. org.status \in ACTIVE_BILLING_STATES
      BY <3>1, LiveStatus DEF Has, Alive, ACTIVE_BILLING_STATES
    <3>3. task[w].sub # c
      BY <1>2, <1>3, <1>5, <3>1, <3>2 DEF AliveTask, Has
    <3> QED BY <1>2, <2>1, <3>3 DEF Meets, Moves, Same, EventKind
  <2> QED BY <1>1, <1>2, <2>1, <2>2, <2>3, AliveMoves DEF Stage
<1> QED BY <1>4, <1>5 DEF Verify

LEMMA AliveCheck ==
    ASSUME Typed, OneStands, NEW c \in Sub, Alive(c), NEW w \in Worker, Check(w)
    PROVE  Alive(c)'
<1>1. Busy(w) /\ task[w].stage = "check" /\ task[w].sub \in Sub /\ task[w].op \in {"verify", "cancel"}
  BY CheckIs
<1>2. UNCHANGED <<stripe, events, org, rows, granted>>
  BY DEF Check
<1>3. AliveTask(task[w], c, org, stripe[c]) /\ ~ Completing(task[w]) /\ ~ Updating(task[w])
  BY <1>1, AliveTaskIs DEF Completing, Updating
<1>4. CASE End(w)
  BY <1>1, <1>2, <1>3, <1>4, AliveQuits
<1>5. CASE /\ task[w].op = "verify" /\ Live(task[w].sub)
           /\ Informed(w, stripe[task[w].sub].status, "list")
  <2>1. task[w].sub = c
    BY <1>1, <1>5, LiveStatus DEF OneStands, Alive
  <2>2. PICK u \in Task :
         /\ Only(w, u) /\ u.stage = "list" /\ u.status = stripe[task[w].sub].status
         /\ u.op = task[w].op /\ u.sub = task[w].sub /\ u.event = task[w].event
         /\ u.plan = task[w].plan /\ u.old = task[w].old /\ u.subs = task[w].subs
    BY <1>5 DEF Informed
  <2>3. AliveTask(u, c, org, stripe[c])
    BY <1>3, <1>5, <2>1, <2>2 DEF AliveTask, Ended, Provided, True
  <2>4. ~ Asked(u) /\ ~ Meets(task[w], c, stripe[c])
    BY <1>1, <1>5, <2>1, <2>2 DEF Asked, Provided, Meets
  <2> QED BY <1>1, <1>2, <1>3, <2>2, <2>3, <2>4, AliveInformed DEF Stage
<1>6. CASE task[w].op = "cancel" /\ GoTo(w, "hard_cancel")
  <2>1. PICK u : Moves(w, u, "hard_cancel")
    BY <1>6, GoToMoves DEF Stage
  <2>2. AliveTask(u, c, org, stripe[c])
    BY <1>1, <1>3, <1>6, <2>1 DEF AliveTask, Ended, Provided, Moves, Same
  <2>3. Asked(task[w]) /\ (Meets(task[w], c, stripe[c]) => Meets(u, c, stripe[c]))
    BY <1>1, <1>6, <2>1 DEF Asked, Asks, Provided, Meets, Moves, Same
  <2> QED BY <1>1, <1>2, <1>3, <2>1, <2>2, <2>3, AliveMoves DEF Stage
<1>7. task[w].op = "cancel" => stripe[task[w].sub].status # "canceled"
  <2>1. task[w].op = "cancel" => task[w].sub = c
    BY <1>3 DEF AliveTask
  <2> QED BY <2>1, LiveStatus DEF Alive
<1> QED BY <1>4, <1>5, <1>6, <1>7, CheckIs

LEMMA AliveSyncStale ==
    ASSUME Typed, NEW c \in Sub, Alive(c), NEW w \in Worker, SyncStale(w)
    PROVE  Alive(c)'
<1>1. Busy(w) /\ task[w].stage = "stale" /\ task[w].op = "sweep"
  BY SyncStaleIs
<1>2. UNCHANGED <<stripe, events, org, rows, granted>>
  BY DEF SyncStale
<1>3. AliveTask(task[w], c, org, stripe[c]) /\ ~ Completing(task[w]) /\ ~ Updating(task[w])
  BY <1>1, AliveTaskIs DEF Completing, Updating
<1>4. task[w].sub = c /\ c # NoSub /\ stripe[c].status \notin TERMINAL_BILLING_STATUSES
  BY <1>1, <1>3, PlansAre, LiveStatus DEF AliveTask, Alive
<1>5. CASE End(w)
  BY <1>1, <1>2, <1>3, <1>5, AliveQuits
<1>6. CASE stripe[task[w].sub].status = "active" /\ Informed(w, "active", "metadata")
  <2>1. PICK u \in Task :
         /\ Only(w, u) /\ u.stage = "metadata" /\ u.status = "active"
         /\ u.op = task[w].op /\ u.sub = task[w].sub /\ u.event = task[w].event
         /\ u.plan = task[w].plan /\ u.old = task[w].old /\ u.subs = task[w].subs
    BY <1>6 DEF Informed
  <2>2. AliveTask(u, c, org, stripe[c])
    BY <1>1, <1>3, <1>4, <1>6, <2>1 DEF AliveTask, Ended, Provided
  <2>3. ~ Asked(u) /\ ~ Meets(task[w], c, stripe[c])
    BY <1>1, <1>4, <1>6, <2>1 DEF Asked, Asks, Meets
  <2> QED BY <1>1, <1>2, <1>3, <2>1, <2>2, <2>3, AliveInformed DEF Stage
<1> QED BY <1>4, <1>5, <1>6, SyncStaleIs

(* Stages no handler is at.                                                 *)
LEMMA AliveStages ==
    ASSUME Typed, NEW c, Alive(c), NEW w \in Worker, NEW x, At(w, x), x \in Ended \cup {"unlink"}
    PROVE  FALSE
<1>1. Busy(w) /\ task[w].stage = x
  BY BusyAt DEF Ended
<1>2. OpsOf(task[w].op, x) /\ AliveTask(task[w], c, org, stripe[c])
  BY <1>1, OpsAt, AliveTaskIs
<1>3. x = "unlink"
  BY <1>1, <1>2 DEF AliveTask
<1> QED BY <1>1, <1>2, <1>3 DEF OpsOf, AliveTask

(* The subscription ends.                                                   *)
LEMMA GoesDead ==
    ASSUME Typed, NEW c \in Sub, Alive(c), Has(org, c, stripe[c]),
           UNCHANGED <<org, rows>>, LiveSubs' = {},
           NEW e, events' = <<e>>, Ending(e), e.sub = c,
           ASSUME NEW v \in Worker, task'[v].stage # "idle"
           PROVE  /\ DeadTask(task'[v], org) /\ task'[v].stage # "reset"
                  /\ Ends(task'[v]) => task'[v].sub = c
    PROVE  Dead'
<1>1. c # NoSub /\ org.sub = c
  BY PlansAre DEF Has
<1>2. \A i \in DOMAIN events' : events'[i] = e
  OBVIOUS
<1>3. Owed'
  <2>1. events' # << >>
    OBVIOUS
  <2> QED BY <2>1 DEF Owed
<1>4. EndsOrg'
  <2>1. ASSUME NEW v \in Worker, Ends(task'[v]) PROVE task'[v].sub = c
    <3>1. task'[v].stage # "idle"
      BY <2>1 DEF Ends, Ended
    <3> QED BY <2>1, <3>1
  <2> QED BY <1>1, <1>2, <2>1 DEF EndsOrg
<1>5. DeadRows'
  <2>1. Others(c, stripe[c]) = {}
    BY DEF Alive, AliveRows, Has
  <2>2. \A r \in rows' : r.sub = c
    BY <2>1 DEF Others
  <2>3. \A v \in Worker : task'[v].stage # "reset"
    OBVIOUS
  <2> QED BY <1>1, <2>2, <2>3 DEF DeadRows
<1>6. \A i \in DOMAIN events' : Ending(events'[i])
  BY <1>2
<1> QED BY <1>1, <1>3, <1>4, <1>5, <1>6 DEF Dead

(* Once c has ended, nothing stands.                                        *)
LEMMA NoneLive ==
    ASSUME Typed, OneStands, NEW c \in Sub, Alive(c),
           NEW after, after.status \notin {"active", "past_due"},
           stripe' = [stripe EXCEPT ![c] = after]
    PROVE  LiveSubs' = {}
<1>1. SUFFICES ASSUME NEW s \in Sub PROVE stripe'[s].status \notin {"active", "past_due"}
  BY LiveIsNext
<1>2. CASE s = c
  BY <1>2 DEF Typed, World
<1>3. CASE s # c
  <2>1. ~ Standing(s)
    BY <1>3, LiveStatus DEF OneStands, Alive
  <2>2. stripe'[s] = stripe[s]
    BY <1>3 DEF Typed, World
  <2> QED BY <2>1, <2>2 DEF Standing, Live
<1> QED BY <1>2, <1>3

(* Those who meet a request, once it has ended the subscription.            *)
LEMMA MeetsDead ==
    ASSUME Typed, OneAsks, NEW c \in Sub, Alive(c), NEW w \in Worker, Asked(task[w]),
           NEW v \in Worker, v # w, Busy(v)
    PROVE  /\ DeadTask(task[v], org) /\ task[v].stage # "reset"
           /\ Ends(task[v]) => task[v].sub = c
<1>1. Meets(task[v], c, stripe[c]) /\ AliveTask(task[v], c, org, stripe[c])
  BY AskedIs, AliveTaskIs
<1>2. task[v].op \in {"verify", "sweep"}
  <2>1. task[v].op \notin {"admin", "cancel", "modify"}
    BY DEF OneAsks, Asks, Asked, Busy
  <2> QED BY <1>1, <2>1, TaskIs DEF Meets, Operation
<1>3. OpsOf(task[v].op, task[v].stage) /\ task[v].stage \in StagesOf(task[v].op)
  BY OpsAt, TaskIs DEF Fits
<1>4. CASE task[v].op = "verify"
  <2>1. task[v].stage \in {"verify", "check"} \cup Provided
    BY <1>3, <1>4 DEF StagesOf
  <2>2. task[v].stage \notin Provided
    BY <1>1, <1>4 DEF AliveTask, True, Meets, Provided
  <2> QED BY <1>4, <2>1, <2>2 DEF DeadTask, Ends, Ended
<1>5. CASE task[v].op = "sweep"
  BY <1>1, <1>5, PlansAre DEF DeadTask, Meets, AliveTask, Ends, Ended
<1> QED BY <1>2, <1>4, <1>5

LEMMA CancelsDead ==
    ASSUME Typed, OneStands, OneAsks, NEW c \in Sub, Alive(c), NEW w \in Worker,
           Asked(task[w]), CancelOnStripe(c), UNCHANGED <<org, rows>>,
           NEW t, Only(w, t), DeadTask(t, org), t.stage # "reset", Ends(t) => t.sub = c
    PROVE  Dead'
<1>1. task'[w] = t /\ \A v \in Worker : v # w => task'[v] = task[v]
  BY OnlyIs
<1>2. Has(org, c, stripe[c]) /\ events = << >>
  BY AskedIs
<1>3. PICK after : after = [stripe[c] EXCEPT !.status = "canceled"]
  OBVIOUS
<1>4. stripe' = [stripe EXCEPT ![c] = after] /\ events' = Emitted("deleted", c, after)
  BY <1>3, LiveStatus DEF CancelOnStripe, Alive
<1>5. after.status = "canceled"
  BY <1>3, StatusTyped
<1>6. LiveSubs' = {}
  BY <1>4, <1>5, NoneLive
<1>7. PICK e : e = [kind |-> "deleted", sub |-> c, status |-> after.status, plan |-> after.plan]
  OBVIOUS
<1>8. events' = <<e>>
  BY <1>2, <1>4, <1>7 DEF Emitted
<1>9. Ending(e) /\ e.sub = c
  BY <1>7 DEF Ending
<1>10. ASSUME NEW v \in Worker, task'[v].stage # "idle"
       PROVE  /\ DeadTask(task'[v], org) /\ task'[v].stage # "reset"
              /\ Ends(task'[v]) => task'[v].sub = c
  BY <1>1, <1>10, MeetsDead DEF Busy
<1> QED BY <1>2, <1>6, <1>8, <1>9, <1>10, GoesDead

LEMMA AliveHardCancel ==
    ASSUME Typed, OneStands, OneAsks, NEW c \in Sub, Alive(c), NEW w \in Worker, HardCancel(w)
    PROVE  Dead'
<1>1. /\ Busy(w) /\ task[w].stage = "hard_cancel" /\ task[w].op = "cancel"
      /\ CancelOnStripe(task[w].sub)
  BY HardCancelIs
<1>2. task[w].sub = c
  BY <1>1, AliveTaskIs DEF AliveTask
<1>3. GoTo(w, "deprovision")
  <2>1. stripe[c].status # "canceled"
    BY LiveStatus DEF Alive
  <2> QED BY <1>2, <2>1, HardCancelIs
<1>4. PICK u : Moves(w, u, "deprovision")
  BY <1>3, GoToMoves DEF Stage
<1>5. Only(w, u) /\ DeadTask(u, org) /\ u.stage # "reset" /\ u.sub = c
  BY <1>1, <1>2, <1>4 DEF Moves, Same, DeadTask, Ended
<1>6. Asked(task[w])
  BY <1>1 DEF Asked, Asks, Provided
<1> QED BY <1>1, <1>2, <1>5, <1>6, CancelsDead DEF HardCancel

LEMMA AliveAdminCancels ==
    ASSUME Typed, OneStands, OneAsks, NEW c \in Sub, Alive(c), NEW w \in Worker, CancelOld(w),
           task[w].op = "admin"
    PROVE  Dead'
<1>1. Busy(w) /\ task[w].stage = "cancel_old" /\ GoTo(w, "list")
  BY BusyAt DEF CancelOld
<1>2. task[w].old = c /\ task[w].sub = NoSub /\ c # NoSub
  BY <1>1, AliveTaskIs, TaskIs, PlansAre DEF AliveTask
<1>3. CancelOnStripe(c)
  BY <1>2 DEF CancelOld
<1>4. PICK u : Moves(w, u, "list")
  BY <1>1, GoToMoves DEF Stage
<1>5. Only(w, u) /\ DeadTask(u, org) /\ u.stage # "reset" /\ ~ Ends(u)
  BY <1>4 DEF Moves, Same, DeadTask, Ends, Ended
<1>6. Asked(task[w])
  BY <1>1 DEF Asked, Asks, Provided
<1> QED BY <1>3, <1>5, <1>6, CancelsDead DEF CancelOld

(* The plan of c changes on Stripe.                                         *)
LEMMA AliveModifies ==
    ASSUME Typed, OneAsks, NEW c \in Sub, Alive(c), NEW w \in Worker, ModifyOnStripe(w)
    PROVE  Alive(c)'
<1>1. Busy(w) /\ task[w].stage = "modify" /\ task[w].op = "modify"
  BY ModifyOnStripeIs
<1>2. AliveTask(task[w], c, org, stripe[c]) /\ task[w].sub = c /\ Asked(task[w])
  BY <1>1, AliveTaskIs DEF AliveTask, Asked, Asks, Provided
<1>3. stripe[c].status = "active" /\ Has(org, c, stripe[c]) /\ events = << >>
  BY <1>1, <1>2, AskedIs
<1>4. PICK x \in [status : SubStatus, plan : Sold] :
         /\ x.status = stripe[c].status /\ x.plan = task[w].plan
         /\ stripe' = [stripe EXCEPT ![c] = x] /\ events' = Emitted("updated", c, x)
         /\ Informed(w, stripe[c].status, "list")
  BY <1>2, <1>3, ModifyOnStripeIs
<1>5. PICK u \in Task :
         /\ Only(w, u) /\ u.stage = "list" /\ u.status = stripe[c].status
         /\ u.op = task[w].op /\ u.sub = task[w].sub /\ u.event = task[w].event
         /\ u.plan = task[w].plan /\ u.old = task[w].old /\ u.subs = task[w].subs
  BY <1>4 DEF Informed
<1>6. task'[w] = u /\ \A v \in Worker : v # w => task'[v] = task[v]
  BY <1>5, OnlyIs
<1>7. stripe'[c] = x /\ UNCHANGED <<org, rows, granted>>
  BY <1>4 DEF Typed, World, ModifyOnStripe
<1>8. PICK e : e = [kind |-> "updated", sub |-> c, status |-> x.status, plan |-> x.plan]
  OBVIOUS
<1>9. events' = <<e>> /\ About(e, c, x) /\ e.kind = "updated"
  BY <1>3, <1>4, <1>8 DEF Emitted, About
<1>10. \A i \in DOMAIN events' : About(events'[i], c, stripe'[c])
  BY <1>7, <1>9
<1>11. ToUpdate'
  <2>1. 1 \in DOMAIN events' /\ events'[1].kind = "updated"
    BY <1>9
  <2> QED BY <2>1 DEF ToUpdate
<1>12. ASSUME NEW v \in Worker, v # w, Busy(v)
       PROVE  task[v].op = "verify" /\ task[v].sub # c /\ AliveTask(task[v], c, org, stripe[c])
  <2>1. Meets(task[v], c, stripe[c]) /\ AliveTask(task[v], c, org, stripe[c])
    BY <1>2, <1>12, AskedIs, AliveTaskIs
  <2>2. task[v].op \notin {"admin", "cancel", "modify"}
    BY <1>2, <1>12 DEF OneAsks, Asks, Asked, Busy
  <2> QED BY <1>3, <2>1, <2>2, TaskIs DEF Meets, Operation
<1>13. ASSUME NEW v \in Worker, v # w, Busy(v) PROVE task[v].event = << >>
  BY <1>12, <1>13, TaskIs DEF Fits, EventKind
<1>14. ASSUME NEW v \in Worker, v # w, Busy(v)
       PROVE  AliveTask(task[v], c, org, x) /\ task[v].stage \notin Provided
  BY <1>12, <1>13, <1>14 DEF AliveTask, True
<1>15. AliveTask(u, c, org, x) /\ ~ Asked(u)
  BY <1>1, <1>2, <1>4, <1>5, TaskIs
     DEF AliveTask, Ended, Provided, True, Asked, Fits, EventKind
<1>16. \A v \in Worker : task'[v].stage # "idle" => AliveTask(task'[v], c, org', stripe'[c])
  BY <1>6, <1>7, <1>14, <1>15 DEF Busy
<1>17. AliveOrg(c)'
  BY <1>3, <1>7, <1>11 DEF AliveOrg, Has
<1>18. AliveRows(c)'
  <2>1. Others(c, stripe[c]) = {}
    BY <1>3 DEF Alive, AliveRows, Has
  <2>2. org'.plan = stripe'[c].plan => Others(c, stripe[c])' = {}
    BY <1>3, <1>7, <2>1 DEF Others, Has
  <2>3. \A v \in Worker : task'[v].stage \notin {"clear", "write"}
    BY <1>5, <1>6, <1>14 DEF Provided, Busy
  <2> QED BY <2>2, <2>3 DEF AliveRows
<1>19. AliveAsked(c)'
  <2>1. \A v \in Worker : ~ Asked(task'[v])
    BY <1>6, <1>12, <1>15 DEF Asked, Asks, Busy
  <2> QED BY <2>1 DEF AliveAsked
<1>20. Live(c)'
  BY <1>3, <1>4, <1>7 DEF Live
<1> QED BY <1>7, <1>10, <1>16, <1>17, <1>18, <1>19, <1>20 DEF Alive

-----------------------------------------------------------------------------
(* While c is live: what people, Stripe and restarts do.                    *)

LEMMA AliveSame ==
    ASSUME NEW c \in Sub, Alive(c), stripe'[c] = stripe[c],
           UNCHANGED <<events, org, rows, task, granted>>
    PROVE  Alive(c)'
<1>1. AliveOrg(c)'
  BY DEF Alive, AliveOrg, ToComplete, ToUpdate
<1>2. AliveRows(c)'
  BY DEF Alive, AliveRows, Others
<1>3. AliveAsked(c)'
  BY DEF Alive, AliveAsked
<1>4. Live(c)'
  BY DEF Alive, Live
<1> QED BY <1>1, <1>2, <1>3, <1>4 DEF Alive

LEMMA AliveCheckout ==
    ASSUME Typed, NEW c \in Sub, Alive(c), NEW s \in Sub, NEW p \in Sold, Checkout(s, p)
    PROVE  Alive(c)'
<1>1. s # c
  BY LiveStatus DEF Checkout, Alive
<1>2. stripe'[c] = stripe[c]
  BY <1>1 DEF Checkout, Typed, World
<1> QED BY <1>2, AliveSame DEF Checkout

LEMMA AlivePage ==
    ASSUME Typed, NEW c \in Sub, Alive(c), NEW s \in Sub, PageSees(s)
    PROVE  Alive(c)'
BY AliveSame DEF PageSees

(* A handler begins.                                                        *)
LEMMA AliveBegins ==
    ASSUME Typed, NEW c \in Sub, Alive(c), NEW w \in Worker, ~ Busy(w), NEW t, Only(w, t),
           UNCHANGED <<stripe, events, org, rows>>, granted' \notin Plan,
           t.stage \notin Provided, t.op \notin EventKind,
           AliveTask(t, c, org, stripe[c]), AliveAsked(c)'
    PROVE  Alive(c)'
<1>1. ~ Completing(task[w]) /\ ~ Updating(task[w]) /\ ~ Updating(t)
  BY DEF Completing, Updating, Busy, EventKind
<1>2. \A j \in DOMAIN events' : events'[j].kind = "updated" => ToUpdate
  BY DEF ToUpdate
<1>3. AliveOrg(c)'
  BY <1>1, <1>2, AliveOrgKept
<1>4. AliveRows(c)'
  BY AliveRowsKept DEF Provided
<1> QED BY <1>3, <1>4, AliveStep DEF Alive

LEMMA AliveVerifies ==
    ASSUME Typed, NEW c \in Sub, Alive(c), NEW w \in Worker, NEW s \in Sub, PageVerifies(w, s)
    PROVE  Alive(c)'
<1>1. PICK t \in Task :
         /\ Only(w, t) /\ t.op = "verify" /\ t.stage = "verify" /\ t.sub = s
         /\ t.plan = stripe[s].plan /\ t.event = << >>
  BY PageBegins
<1>2. ~ Busy(w) /\ UNCHANGED <<stripe, events, org, rows, granted>>
  BY PageBegins DEF PageVerifies
<1>3. AliveTask(t, c, org, stripe[c])
  BY <1>1 DEF AliveTask, Ended, Provided
<1>4. org.status # "active"
  BY DEF PageVerifies, Landed
<1>5. ASSUME NEW v \in Worker, Asked(task[v]) PROVE events' = << >> /\ Meets(t, c, stripe[c])
  <2>1. Has(org, c, stripe[c]) /\ events = << >>
    BY <1>5, AskedIs
  <2>2. stripe[c].status = "past_due"
    BY <1>4, <2>1, LiveStatus DEF Has, Alive
  <2> QED BY <1>1, <1>2, <2>1, <2>2 DEF Meets, EventKind
<1>6. ~ Asked(t)
  BY <1>1 DEF Asked, Asks
<1>7. AliveAsked(c)'
  BY <1>1, <1>2, <1>5, <1>6, AliveAskedKept
<1> QED BY <1>1, <1>2, <1>3, <1>7, AliveBegins DEF Provided, EventKind, Alive

LEMMA AliveSweeps ==
    ASSUME Typed, NEW c \in Sub, Alive(c), NEW w \in Worker, Sweep(w)
    PROVE  Alive(c)'
<1>1. PICK t \in Task :
         /\ Only(w, t) /\ t.op = "sweep" /\ t.stage = "stale" /\ t.sub = org.sub
         /\ t.event = << >>
  BY SweepBegins
<1>2. ~ Busy(w) /\ UNCHANGED <<stripe, events, org, rows, granted>> /\ org.status = "past_due"
  BY SweepBegins DEF Sweep
<1>3. org.sub = c
  BY <1>2 DEF Alive, AliveOrg
<1>4. AliveTask(t, c, org, stripe[c])
  BY <1>1, <1>3 DEF AliveTask, Ended, Provided
<1>5. ASSUME NEW v \in Worker, Asked(task[v]) PROVE events' = << >> /\ Meets(t, c, stripe[c])
  <2>1. Has(org, c, stripe[c]) /\ events = << >>
    BY <1>5, AskedIs
  <2> QED BY <1>1, <1>2, <2>1 DEF Meets, EventKind, Has
<1>6. ~ Asked(t)
  BY <1>1 DEF Asked, Asks
<1>7. AliveAsked(c)'
  BY <1>1, <1>2, <1>5, <1>6, AliveAskedKept
<1> QED BY <1>1, <1>2, <1>4, <1>7, AliveBegins DEF Provided, EventKind, Alive

(* A request of people, which are patient.                                  *)
LEMMA AliveRequests ==
    ASSUME Typed, NEW c \in Sub, Alive(c), Quiet, NEW w \in Worker, NEW t, Only(w, t),
           UNCHANGED <<stripe, events, org, rows>>, granted' \notin Plan,
           t.op \in {"cancel", "modify", "admin"}, t.stage \notin Provided \cup Ended,
           t.op \in {"cancel", "modify"} => t.sub = c,
           t.op = "admin" => t.stage = "guard", t.event = << >>,
           t.op = "modify" => stripe[c].status = "active"
    PROVE  Alive(c)'
<1>1. ~ Busy(w) /\ events = << >> /\ \A v \in Worker : task[v].stage = "idle"
  BY QuietIs
<1>2. task'[w] = t /\ \A v \in Worker : v # w => task'[v] = task[v]
  BY OnlyIs
<1>3. AliveTask(t, c, org, stripe[c])
  BY DEF AliveTask
<1>4. \A v \in Worker : task'[v].stage # "idle" => v = w
  BY <1>1, <1>2
<1>5. Meets(t, c, stripe[c])
  BY DEF Meets, EventKind
<1>6. AliveAsked(c)'
  <2>1. SUFFICES ASSUME NEW v \in Worker, Asked(task'[v])
                 PROVE  /\ Has(org', c, stripe'[c]) /\ events' = << >>
                        /\ task'[v].op = "modify" => stripe'[c].status = "active"
                        /\ \A q \in Worker : task'[q].stage # "idle" => Meets(task'[q], c, stripe'[c])
    BY DEF AliveAsked
  <2>2. task'[v] = t
    BY <1>2, <1>4, <2>1 DEF Asked, Asks
  <2>3. \A q \in Worker : task'[q].stage # "idle" => Meets(task'[q], c, stripe'[c])
    BY <1>2, <1>4, <1>5
  <2> QED BY <1>1, <2>2, <2>3, AliveQuiet
<1> QED BY <1>1, <1>3, <1>6, AliveBegins DEF EventKind

LEMMA AliveAsks ==
    ASSUME Typed, NEW c \in Sub, Alive(c), ~ hasty', NEW w \in Worker,
           \/ Cancel(w)
           \/ \E p \in Sold : Modify(w, p)
           \/ \E p \in Plan : AdminSetPlan(w, p)
    PROVE  Alive(c)'
<1>1. CASE Cancel(w)
  <2>1. Quiet /\ UNCHANGED <<stripe, events, org, rows, granted>>
    BY <1>1, BeginsQuiet DEF Cancel
  <2>2. PICK t \in Task : /\ Only(w, t) /\ t.op = "cancel" /\ t.stage = "check"
                          /\ t.sub = org.sub /\ t.event = << >>
    BY <1>1, CancelBegins
  <2>3. org.sub = c
    BY <2>1, AliveQuiet DEF Has
  <2> QED BY <2>1, <2>2, <2>3, AliveRequests DEF Provided, Ended, Alive
<1>2. ASSUME NEW p \in Sold, Modify(w, p) PROVE Alive(c)'
  <2>1. Quiet /\ UNCHANGED <<stripe, events, org, rows, granted>> /\ org.status # "past_due"
    BY <1>2, BeginsQuiet DEF Modify
  <2>2. PICK t \in Task : /\ Only(w, t) /\ t.op = "modify" /\ t.stage = "modify"
                          /\ t.sub = org.sub /\ t.event = << >>
    BY <1>2, ModifyBegins
  <2>3. org.sub = c /\ stripe[c].status = "active"
    BY <2>1, AliveQuiet, LiveStatus DEF Has, Alive
  <2> QED BY <2>1, <2>2, <2>3, AliveRequests DEF Provided, Ended, Alive
<1>3. ASSUME NEW p \in Plan, AdminSetPlan(w, p) PROVE Alive(c)'
  <2>1. Quiet /\ UNCHANGED <<stripe, events, org, rows>> /\ granted' = "begun"
    BY <1>3, BeginsQuiet DEF AdminSetPlan
  <2>2. PICK t \in Task : /\ Only(w, t) /\ t.op = "admin" /\ t.stage = "guard" /\ t.event = << >>
    BY <1>3, AdminBegins
  <2>3. granted' \notin Plan
    BY <2>1, GrantsAre
  <2> QED BY <2>1, <2>2, <2>3, AliveRequests DEF Provided, Ended
<1> QED BY <1>1, <1>2, <1>3

LEMMA AliveBilling ==
    ASSUME Typed, OneStands, NEW c \in Sub, Alive(c), ~ hasty',
           NEW s \in Sub, NEW to \in SubStatus, BillingMoves(s, to)
    PROVE  Dead' \/ Alive(c)'
<1>1. Quiet /\ UNCHANGED <<org, rows, task, granted>>
  BY BeginsQuiet DEF BillingMoves
<1>2. /\ events = << >> /\ \A w \in Worker : task'[w].stage = "idle"
      /\ Has(org, c, stripe[c]) /\ Others(c, stripe[c]) = {}
  BY <1>1, QuietIs, AliveQuiet
<1>3. s = c
  <2>1. Standing(s)
    BY DEF BillingMoves, Standing, Live
  <2> QED BY <2>1, LiveStatus DEF OneStands, Alive
<1>4. PICK x : x = [stripe[c] EXCEPT !.status = to]
  OBVIOUS
<1>5. /\ x \in [status : SubStatus, plan : Sold] /\ x.status = to /\ x.plan = stripe[c].plan
  BY <1>4, StatusTyped
<1>6. stripe' = [stripe EXCEPT ![c] = x]
  BY <1>3, <1>4 DEF BillingMoves
<1>7. stripe'[c] = x
  BY <1>6 DEF Typed, World
<1>8. PICK e : e = [kind |-> "updated", sub |-> c, status |-> x.status, plan |-> x.plan]
  OBVIOUS
<1>9. PICK d : d = [kind |-> "deleted", sub |-> c, status |-> x.status, plan |-> x.plan]
  OBVIOUS
<1>10. PICK f : f = [kind |-> "failed", sub |-> c, status |-> x.status, plan |-> x.plan]
  OBVIOUS
<1>11. PICK g : g = [kind |-> "paid", sub |-> c, status |-> x.status, plan |-> x.plan]
  OBVIOUS
<1>12. e \in Event /\ d \in Event /\ f \in Event /\ g \in Event
  BY <1>5, <1>8, <1>9, <1>10, <1>11 DEF Event, EventKind
<1>13. \/ /\ to \in {"active", "past_due"}
          /\ \/ events' = Append(<< >>, f) \o <<e>>
             \/ events' = Append(<< >>, e) \o <<g>>
       \/ to = "unpaid" /\ events' = <<e>>
       \/ to = "canceled" /\ events' = <<d>>
  <2>1. \/ to = "past_due" /\ events' = Emitted("failed", s, x) \o <<[kind |-> "updated", sub |-> s, status |-> to, plan |-> x.plan]>>
        \/ to = "active" /\ events' = Emitted("updated", s, x) \o <<[kind |-> "paid", sub |-> s, status |-> to, plan |-> x.plan]>>
        \/ to = "unpaid" /\ events' = Emitted("updated", s, x)
        \/ to = "canceled" /\ events' = Emitted("deleted", s, x)
    BY <1>3, <1>4 DEF BillingMoves
  <2>2. /\ [kind |-> "updated", sub |-> s, status |-> to, plan |-> x.plan] = e
        /\ [kind |-> "paid", sub |-> s, status |-> to, plan |-> x.plan] = g
    BY <1>3, <1>5, <1>8, <1>11
  <2>3. /\ Emitted("updated", s, x) = Append(<< >>, e)
        /\ Emitted("failed", s, x) = Append(<< >>, f)
        /\ Emitted("deleted", s, x) = Append(<< >>, d)
    BY <1>2, <1>3, <1>8, <1>9, <1>10 DEF Emitted
  <2>4. Append(<< >>, e) = <<e>> /\ Append(<< >>, d) = <<d>>
    OBVIOUS
  <2> QED BY <2>1, <2>2, <2>3, <2>4
<1>14. CASE to \in {"unpaid", "canceled"}
  <2>1. PICK y : events' = <<y>> /\ Ending(y) /\ y.sub = c
    <3>1. CASE to = "unpaid"
      BY <1>5, <1>8, <1>13, <3>1 DEF Ending, TERMINAL_BILLING_STATUSES
    <3>2. CASE to = "canceled"
      BY <1>9, <1>13, <3>2 DEF Ending
    <3> QED BY <1>14, <3>1, <3>2
  <2>2. LiveSubs' = {}
    BY <1>5, <1>6, <1>14, NoneLive
  <2> QED BY <1>1, <1>2, <2>1, <2>2, GoesDead
<1>15. CASE to \in {"active", "past_due"}
  <2>1. PICK y \in Event, z \in Event :
           /\ events' = Append(<< >>, y) \o <<z>> /\ {y, z} \in {{f, e}, {e, g}}
    BY <1>12, <1>13, <1>15
  <2>2. DOMAIN events' = {1, 2} /\ events'[1] = y /\ events'[2] = z
    BY <2>1, TwoEvents
  <2>3. About(e, c, x) /\ About(f, c, x) /\ About(g, c, x) /\ e.kind = "updated"
    BY <1>8, <1>10, <1>11 DEF About
  <2>4. y \in {e, f, g} /\ z \in {e, f, g} /\ (y = e \/ z = e)
    BY <2>1
  <2>5. \A i \in DOMAIN events' : About(events'[i], c, stripe'[c])
    BY <1>7, <2>2, <2>3, <2>4
  <2>6. ToUpdate'
    <3>1. \E i \in DOMAIN events' : events'[i].kind = "updated"
      BY <2>2, <2>3, <2>4
    <3> QED BY <3>1 DEF ToUpdate
  <2>7. AliveOrg(c)'
    BY <1>1, <1>2, <2>6 DEF AliveOrg, Has
  <2>8. AliveRows(c)'
    <3>1. Others(c, stripe[c])' = {}
      BY <1>1, <1>2, <1>5, <1>7 DEF Others
    <3> QED BY <1>2, <3>1 DEF AliveRows
  <2>9. AliveAsked(c)'
    BY <1>2 DEF AliveAsked, Asked, Asks
  <2>10. Live(c)'
    BY <1>5, <1>7, <1>15 DEF Live
  <2> QED BY <1>1, <1>2, <2>5, <2>7, <2>8, <2>9, <2>10 DEF Alive
<1> QED BY <1>13, <1>14, <1>15

LEMMA AliveDeliver ==
    ASSUME Typed, NEW c \in Sub, Alive(c), NEW w \in Worker, Deliver(w)
    PROVE  Alive(c)'
<1>1. PICK t \in Task, e \in Event :
         /\ e = Head(events) /\ events' = Tail(events)
         /\ Only(w, t) /\ t.op = e.kind /\ t.stage = FirstStage[e.kind]
         /\ t.sub = e.sub /\ t.plan = e.plan /\ t.status = e.status
         /\ t.old = NoSub /\ t.subs = {} /\ t.event = <<e>>
  BY DeliverBegins
<1>2. /\ events \in Seq(Event) /\ events # << >>
      /\ UNCHANGED <<stripe, org, rows, granted>> /\ ~ Busy(w)
  BY DeliverBegins DEF Typed, World, Deliver
<1>3. /\ \A i \in DOMAIN events : events[i] = e \/ \E j \in DOMAIN events' : events'[j] = events[i]
      /\ \A j \in DOMAIN events' : \E i \in DOMAIN events : events[i] = events'[j]
      /\ \E i \in DOMAIN events : events[i] = e
  BY <1>1, <1>2, HeadAndTail
<1>4. About(e, c, stripe[c]) /\ \A j \in DOMAIN events' : About(events'[j], c, stripe[c])
  BY <1>3 DEF Alive
<1>5. \A i \in DOMAIN t.event : t.event[i] = e
  BY <1>1
<1>6. \/ e.kind = "completed" /\ t.stage = "guard"
      \/ e.kind = "updated" /\ t.stage = "summary"
      \/ e.kind \in {"paid", "failed"} /\ t.stage = "org"
  <2>1. e.kind \in EventKind \ {"deleted"}
    BY <1>4 DEF Event, About
  <2> QED BY <1>1, <2>1 DEF FirstStage, EventKind
<1>7. AliveTask(t, c, org, stripe[c])
  BY <1>1, <1>4, <1>5, <1>6 DEF AliveTask, About, True, Ended, Provided
<1>8. (e.kind = "completed" => Completing(t)) /\ (e.kind = "updated" <=> Updating(t))
  BY <1>1, <1>6 DEF Completing, Updating
<1>9. ~ Completing(task[w]) /\ ~ Updating(task[w]) /\ ~ Asked(t)
  BY <1>1, <1>2, <1>6 DEF Completing, Updating, Busy, Asked, Asks
<1>10. \A j \in DOMAIN events' : events'[j].kind = "updated" => ToUpdate
  BY <1>3 DEF ToUpdate
<1>11. Updating(t) => ToUpdate
  BY <1>3, <1>8 DEF ToUpdate
<1>12. AliveOrg(c)'
  BY <1>1, <1>2, <1>3, <1>8, <1>9, <1>10, <1>11, AliveOrgKept
<1>13. AliveRows(c)'
  BY <1>1, <1>2, <1>6, AliveRowsKept
<1>14. \A v \in Worker : ~ Asked(task[v])
  BY <1>2, AskedIs
<1>15. AliveAsked(c)'
  BY <1>1, <1>2, <1>9, <1>14, AliveAskedKept
<1> QED BY <1>1, <1>2, <1>4, <1>7, <1>12, <1>13, <1>15, AliveStep DEF Alive

LEMMA AliveCrash ==
    ASSUME Typed, NEW c \in Sub, Alive(c), NEW w \in Worker, Crash(w)
    PROVE  Alive(c)'
<1>1. Only(w, Idle) /\ Busy(w) /\ UNCHANGED <<stripe, org, rows, granted>>
  BY CrashIs, EndIs DEF Crash
<1>2. AliveTask(task[w], c, org, stripe[c])
  BY <1>1, AliveTaskIs
<1>3. \A j \in DOMAIN events' : About(events'[j], c, stripe[c])
  BY <1>2, CrashEvents DEF Alive, AliveTask
<1>4. \A i \in DOMAIN events : \E j \in DOMAIN events' : events'[j] = events[i]
  BY CrashEvents DEF EventsStay
<1>5. task[w].op \in EventKind => \E j \in DOMAIN events' : events'[j].kind = task[w].op
  BY CrashEvents
<1>6. /\ Completing(task[w]) => \E j \in DOMAIN events' : events'[j].kind = "completed"
      /\ Updating(task[w]) => \E j \in DOMAIN events' : events'[j].kind = "updated"
  BY <1>5 DEF Completing, Updating, EventKind
<1>7. \A j \in DOMAIN events' : events'[j].kind = "updated" => ToUpdate
  <2>1. SUFFICES ASSUME NEW j \in DOMAIN events', events'[j].kind = "updated" PROVE ToUpdate
    OBVIOUS
  <2>2. (\E i \in DOMAIN events : events[i] = events'[j]) \/ task[w].op = "updated"
    BY <2>1, CrashEvents
  <2> QED BY <1>1, <2>1, <2>2 DEF ToUpdate, Updating, Busy
<1>8. ~ Updating(Idle) /\ ~ Asked(Idle)
  BY IdleIs DEF Updating, Asked, Asks
<1>9. AliveOrg(c)'
  BY <1>1, <1>4, <1>6, <1>7, <1>8, AliveOrgKept
<1>10. AliveRows(c)'
  BY <1>1, IdleIs, AliveRowsKept
<1>11. ASSUME NEW v \in Worker, Asked(task[v]) PROVE events' = << >>
  <2>1. events = << >> /\ Meets(task[w], c, stripe[c])
    BY <1>1, <1>11, AskedIs
  <2> QED BY <2>1, CrashEvents DEF Meets
<1>12. AliveAsked(c)'
  BY <1>1, <1>8, <1>11, IdleIs, AliveAskedKept
<1> QED BY <1>1, <1>3, <1>9, <1>10, <1>12, IdleIs, AliveStep DEF Alive

LEMMA AliveSteps ==
    ASSUME Typed, OneStands, OneAsks, NEW c \in Sub, Alive(c), NEW w \in Worker, Step(w)
    PROVE  Dead' \/ Alive(c)'
<1>1. ~ (Unlink(w) \/ Deprovision(w) \/ CancelRows(w) \/ Reset(w) \/ FreeRow(w))
  BY AliveStages DEF Unlink, Deprovision, CancelRows, Reset, FreeRow, Ended
<1>2. CASE CancelOld(w)
  <2>1. task[w].op \in {"completed", "admin"}
    BY <1>2, BusyAt, OpsAt DEF CancelOld, OpsOf
  <2> QED BY <1>2, <2>1, AliveCancelOld, AliveAdminCancels
<1>3. CASE Provisioning(w)
  BY <1>1, <1>2, <1>3, AliveGuard, AliveRetrieve, AliveListRows, AliveClearRow,
     AliveCreateRow, AliveWritePlan, AliveSweepOrphans, AliveCancelOrphan DEF Provisioning
<1> QED BY <1>1, <1>3, AliveSummary, AliveWriteStatus, AliveInvoice, AliveVerify,
        AliveCheck, AliveHardCancel, AliveModifies, AliveSyncStale
     DEF Step, Deprovisioning

-----------------------------------------------------------------------------
(* The invariant, as long as nothing is hasty.                              *)

LEMMA HastyStays ==
    ASSUME Next, hasty
    PROVE  hasty'
BY ZenonT(40) DEF Next, People, CustomerPays, PageSees, Checkout, Cancel, PageVerifies, Modify,
       AdminSetPlan, BillingMoves, Deliver, Sweep, Step, Crash, Provisioning, Deprovisioning,
       Guard, CancelOld, Retrieve, ListRows, ClearRow, CreateRow, WritePlan, SweepOrphans,
       CancelOrphan, Unlink, Deprovision, CancelRows, Reset, FreeRow, Summary, WriteStatus,
       Invoice, Verify, Check, HardCancel, ModifyOnStripe, SyncStale, Begins

LEMMA DeadNext ==
    ASSUME Typed, NoAdmin, Dead, Next, ~ hasty'
    PROVE  Dead' \/ \E c \in Sub : Alive(c)'
<1>1. CASE People
  <2>1. ASSUME NEW s \in Sub, CustomerPays(s) PROVE \E c \in Sub : Alive(c)'
    BY <2>1, DeadPays
  <2>2. ASSUME NEW s \in Sub, PageSees(s) PROVE Dead'
    BY <2>2, DeadPage
  <2>3. ASSUME NEW s \in Sub, NEW p \in Sold, Checkout(s, p) PROVE Dead'
    BY <2>3, DeadCheckout
  <2>4. ASSUME NEW w \in Worker, Cancel(w) \/ \E p \in Sold : Modify(w, p) PROVE Dead'
    BY <2>4, DeadRequests
  <2>5. ASSUME NEW w \in Worker, NEW s \in Sub, PageVerifies(w, s) PROVE Dead'
    BY <2>5, DeadVerifies
  <2>6. ASSUME NEW w \in Worker, NEW p \in Plan, AdminSetPlan(w, p) PROVE Dead'
    BY <2>6, DeadAdmin
  <2> QED BY <1>1, <2>1, <2>2, <2>3, <2>4, <2>5, <2>6 DEF People
<1>2. ASSUME NEW s \in Sub, NEW to \in SubStatus, BillingMoves(s, to) PROVE Dead'
  BY <1>2, DeadBilling
<1>3. ASSUME NEW w \in Worker, Deliver(w) \/ Sweep(w) \/ Step(w) \/ Crash(w) PROVE Dead'
  BY <1>3, DeadDeliver, DeadSweep, DeadSteps, DeadCrash
<1> QED BY <1>1, <1>2, <1>3 DEF Next

LEMMA AliveNext ==
    ASSUME Typed, OneStands, OneAsks, NEW c \in Sub, Alive(c), Next, ~ hasty'
    PROVE  Dead' \/ Alive(c)'
<1>1. CASE People
  <2>1. ASSUME NEW s \in Sub, CustomerPays(s) PROVE FALSE
    <3>1. Standing(c)
      BY LiveStatus DEF Alive
    <3> QED BY <2>1, <3>1 DEF CustomerPays
  <2>2. ASSUME NEW s \in Sub, PageSees(s) PROVE Alive(c)'
    BY <2>2, AlivePage
  <2>3. ASSUME NEW s \in Sub, NEW p \in Sold, Checkout(s, p) PROVE Alive(c)'
    BY <2>3, AliveCheckout
  <2>4. ASSUME NEW w \in Worker, Cancel(w) \/ \E p \in Sold : Modify(w, p) PROVE Alive(c)'
    BY <2>4, AliveAsks
  <2>5. ASSUME NEW w \in Worker, NEW s \in Sub, PageVerifies(w, s) PROVE Alive(c)'
    BY <2>5, AliveVerifies
  <2>6. ASSUME NEW w \in Worker, NEW p \in Plan, AdminSetPlan(w, p) PROVE Alive(c)'
    BY <2>6, AliveAsks
  <2> QED BY <1>1, <2>1, <2>2, <2>3, <2>4, <2>5, <2>6 DEF People
<1>2. ASSUME NEW s \in Sub, NEW to \in SubStatus, BillingMoves(s, to) PROVE Dead' \/ Alive(c)'
  BY <1>2, AliveBilling
<1>3. ASSUME NEW w \in Worker, Deliver(w) \/ Sweep(w) \/ Step(w) \/ Crash(w)
      PROVE  Dead' \/ Alive(c)'
  BY <1>3, AliveDeliver, AliveSweeps, AliveSteps, AliveCrash
<1> QED BY <1>1, <1>2, <1>3 DEF Next

LEMMA CalmStep ==
    ASSUME Typed, NoAdmin, Calm, Next
    PROVE  Calm'
<1>1. SUFFICES ASSUME ~ hasty'
               PROVE  OneAsks' /\ OneStands' /\ (Dead' \/ \E c \in Sub : Alive(c)')
  BY DEF Calm
<1>2. OneAsks /\ OneStands /\ (Dead \/ \E c \in Sub : Alive(c))
  BY <1>1, HastyStays DEF Calm
<1>6. OneAsks'
  BY <1>1, <1>2, OneAsksStep
<1>3. OneStands'
  BY <1>1, <1>2, OneStandsStep
<1>4. CASE Dead
  BY <1>1, <1>2, <1>3, <1>4, <1>6, DeadNext
<1>5. ASSUME NEW c \in Sub, Alive(c) PROVE Dead' \/ Alive(c)'
  BY <1>1, <1>2, <1>5, AliveNext
<1> QED BY <1>2, <1>3, <1>4, <1>5, <1>6

LEMMA CalmStutter ==
    ASSUME Calm, UNCHANGED vars
    PROVE  Calm'
<1>1. OneStands => OneStands'
  BY StandsKept DEF vars, StandsIs, OneStands, Standing, Live
<1>2. Dead => Dead'
  BY DeadSame DEF vars, Dead, LiveSubs, Live
<1>3. ASSUME NEW c \in Sub, Alive(c) PROVE Alive(c)'
  BY <1>3, AliveSame DEF vars
<1>4. OneAsks => OneAsks'
  BY OneAsksSame DEF vars
<1> QED BY <1>1, <1>2, <1>3, <1>4 DEF Calm, vars

PInv == Typed /\ NoAdmin /\ HasRow /\ Calm

LEMMA PInvInit ==
    ASSUME Init
    PROVE  PInv
<1>1. Typed
  BY TypedInit
<1>2. /\ \A w \in Worker : task[w] = Idle
      /\ \A s \in Sub : stripe[s].status = "none"
      /\ events = << >> /\ granted = NoPlan
      /\ org.plan = "free" /\ org.sub = NoSub /\ org.status = "none" /\ org.by = "signup"
      /\ rows = {[id |-> 1, plan |-> "free", sub |-> NoSub]}
  <2>1. \A s \in Sub : stripe[s] \in [status : {"none"}, plan : Sold]
    BY DEF Init
  <2>2. \A s \in Sub : stripe[s].status = "none"
    BY <2>1
  <2> QED BY <2>2 DEF Init
<1>3. OneAsks
  BY <1>2, IdleIs DEF OneAsks, Asks
<1>4. NoAdmin
  BY <1>2, IdleIs DEF NoAdmin, Administers
<1>5. HasRow
  BY <1>2 DEF HasRow
<1>6. OneStands
  BY <1>2 DEF OneStands, Standing, Live
<1>7. Dead
  <2>1. ~ Entitled(org)
    BY <1>2 DEF Entitled
  <2>2. EndsOrg
    BY <1>2 DEF EndsOrg
  <2>3. DeadRows
    BY <1>2, IdleIs DEF DeadRows
  <2> QED BY <1>2, <2>1, <2>2, <2>3, IdleIs, LiveIs DEF Dead
<1> QED BY <1>1, <1>3, <1>4, <1>5, <1>6, <1>7 DEF PInv, Calm

LEMMA PInvStep ==
    ASSUME PInv, [Next]_vars
    PROVE  PInv'
<1>1. CASE Next
  BY <1>1, TypedStep, NoAdminStep, HasRowStep, CalmStep DEF PInv
<1>2. CASE UNCHANGED vars
  <2>1. Typed' /\ Calm'
    BY <1>2, TypedStutter, CalmStutter DEF PInv
  <2>2. NoAdmin' /\ HasRow'
    BY <1>2, NoAdminSame, HasRowSame DEF PInv, vars
  <2> QED BY <2>1, <2>2 DEF PInv
<1> QED BY <1>1, <1>2

LEMMA PInvAlways == Spec => []PInv
<1>1. Init => PInv
  BY PInvInit
<1>2. PInv /\ [Next]_vars => PInv'
  BY PInvStep
<1> QED BY <1>1, <1>2, PTL DEF Spec

-----------------------------------------------------------------------------
(* What holds once everything is handled.                                   *)

(* When all events are handled, either no subscription is live, and nothing *)
(* is left of what one paid for, or the organization has the one that is.   *)
LEMMA Settled ==
    ASSUME PInv, Quiet, ~ hasty
    PROVE  \/ LiveSubs = {} /\ ~ Entitled(org) /\ (granted = NoPlan => DeadRows)
           \/ \E c \in Sub : /\ LiveSubs = {c} /\ Has(org, c, stripe[c])
                             /\ Others(c, stripe[c]) = {} /\ granted \notin Plan
<1>1. CASE Dead
  BY <1>1, DeadQuiet DEF Dead
<1>2. ASSUME NEW c \in Sub, Alive(c)
      PROVE  /\ LiveSubs = {c} /\ Has(org, c, stripe[c])
             /\ Others(c, stripe[c]) = {} /\ granted \notin Plan
  <2>1. Live(c) /\ granted \notin Plan
    BY <1>2 DEF Alive
  <2>2. \A s \in Sub : Live(s) => s = c
    BY <2>1 DEF PInv, Calm, OneStands, Standing
  <2>3. LiveSubs = {c}
    BY <2>1, <2>2 DEF LiveSubs
  <2> QED BY <1>2, <2>1, <2>3, AliveQuiet
<1> QED BY <1>1, <1>2 DEF PInv, Calm

(* A plan that Stripe governs is paid for: an organization that has one,    *)
(* once all events are handled, has a live subscription of that plan, for   *)
(* any events lost in a restart and delivered again, any renewals and any   *)
(* requests (_provision_from_checkout_session, deprovision).                *)
THEOREM PlanPaidFor == Spec => []PlanIsPaid
<1>1. PInv => PlanIsPaid
  <2>1. SUFFICES ASSUME PInv, Quiet, ~ hasty, org.by = "stripe", org.plan # "free"
                 PROVE  org.sub # NoSub /\ Live(org.sub) /\ stripe[org.sub].plan = org.plan
    BY DEF PlanIsPaid
  <2>2. PICK c \in Sub : LiveSubs = {c} /\ Has(org, c, stripe[c])
    BY <2>1, Settled DEF Entitled
  <2>3. Live(c) /\ c # NoSub
    BY <2>2, PlansAre DEF LiveSubs
  <2> QED BY <2>2, <2>3 DEF Has
<1> QED BY <1>1, PInvAlways, PTL

(* The subscription a customer pays for is the one the organization has,    *)
(* with its plan and its status, once all events are handled.               *)
THEOREM PayerServed == Spec => []LiveSubIsServed
<1>1. PInv => LiveSubIsServed
  <2>1. SUFFICES ASSUME PInv, Quiet, ~ hasty, NEW s \in LiveSubs
                 PROVE  /\ org.sub = s /\ org.plan = stripe[s].plan
                        /\ org.status = stripe[s].status
    BY DEF LiveSubIsServed
  <2>2. PICK c \in Sub : LiveSubs = {c} /\ Has(org, c, stripe[c])
    BY <2>1, Settled
  <2> QED BY <2>1, <2>2 DEF Has
<1> QED BY <1>1, PInvAlways, PTL

(* The rows, which open the modules, are those of the plan, and unless a    *)
(* restart stopped a handler between removing them and making one (the      *)
(* deactivation and the insert of provision_commercial_plan) there is one.  *)
THEOREM RowsOfPlan == Spec => []RowsMatchPlan
<1>1. PInv => RowsMatchPlan
  <2>1. SUFFICES ASSUME PInv, Quiet, ~ hasty, granted = NoPlan
                 PROVE  /\ \A r \in rows : r.plan = org.plan
                        /\ spent.crashes = 0 => rows # {}
    BY DEF RowsMatchPlan
  <2>2. spent.crashes = 0 => rows # {}
    BY <2>1, QuietIs DEF PInv, HasRow, MakesRow
  <2>3. CASE LiveSubs = {} /\ ~ Entitled(org) /\ DeadRows
    BY <2>1, <2>2, <2>3 DEF Entitled, DeadRows, PInv, NoAdmin
  <2>4. ASSUME NEW c \in Sub, Has(org, c, stripe[c]), Others(c, stripe[c]) = {}
        PROVE  \A r \in rows : r.plan = org.plan
    BY <2>4 DEF Has, Others
  <2> QED BY <2>1, <2>2, <2>3, <2>4, Settled
<1> QED BY <1>1, PInvAlways, PTL

(* Once an administrator's plan is assigned, and all events are handled, no *)
(* subscription is live until somebody buys one: the guard cancels the one  *)
(* the organization has.                                                    *)
THEOREM GrantedNotBilled == Spec => []GrantEndsBilling
<1>1. PInv => GrantEndsBilling
  BY Settled DEF GrantEndsBilling
<1> QED BY <1>1, PInvAlways, PTL

=============================================================================
