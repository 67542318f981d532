------------------------- MODULE IdempotencyGateProofs -------------------------
(***************************************************************************)
(* What IdempotencyGate guarantees for any calls, any number of retries,   *)
(* database failures and restarts: at most one order per key and truthful  *)
(* answers.  Polling, timeouts and crashes only make tasks end; the heart  *)
(* of the proof is that a record is never removed, so the insert that      *)
(* found none is the only one that ever succeeds for its key.              *)
(***************************************************************************)
EXTENDS IdempotencyGate, TLAPS

(* A task that won the claim and still shows it: it runs the handler, has   *)
(* placed an order or carries the answer of its own handler.                *)
OwnAnswer(r) == task[r].answer \in HandlerAnswer /\ task[r].answer.of = r

Won(r) ==
    /\ r \notin degraded
    /\ \/ task[r].stage \in {"running", "answered"}
       \/ r \in orders
       \/ OwnAnswer(r)

ClaimStands == \A r \in Request : Won(r) => record[r[1]] # Absent

OneWinner == \A r, s \in Request : Won(r) /\ Won(s) /\ r[1] = s[1] => r = s

(* Only a task that is past its handler has placed an order or answered.    *)
InOrder ==
    \A r \in Request :
        /\ r \in orders => task[r].stage \in {"answered", "over"}
        /\ task[r].stage \notin {"answered", "over"} => task[r].answer = None

(* An answer a task carries is a success of an order of its call, or the    *)
(* failure of its own handler.                                              *)
BackedAnswer(r, answer) ==
    /\ answer.of \in Request
    /\ answer.of[1] = r[1]
    /\ answer.status = "ok" => answer.of \in orders
    /\ answer.status # "ok" => answer.of = r
    /\ answer.status \in {"refused", "busy"} => r \notin orders

TaskAnswers ==
    \A r \in Request :
        task[r].answer \in HandlerAnswer => BackedAnswer(r, task[r].answer)

RecordAnswers ==
    \A c \in Call :
        record[c].status = "completed" =>
            /\ record[c].answer \in HandlerAnswer
            /\ record[c].answer.status = "ok"
            /\ record[c].answer.of[1] = c
            /\ record[c].answer.of \in orders

CallAnswers ==
    \A c \in Call :
        call[c].answer \in HandlerAnswer =>
            /\ call[c].answer.of \in Request
            /\ call[c].answer.of[1] = c
            /\ call[c].answer.status = "ok" => call[c].answer.of \in orders
            /\ call[c].answer.status # "ok" =>
                  task[call[c].answer.of] =
                      [stage |-> "over", answer |-> call[c].answer]

(* A backoff is followed by an attempt there is.                            *)
RetriesLeft ==
    \A c \in Call : call[c].phase = "backoff" => call[c].attempt < MaxRetries

(* The server does not know of an attempt that was not made.                *)
Unsent(r) == call[r[1]].phase = "new" \/ r[2] > call[r[1]].attempt
NotBeforeSent == \A r \in Request : Unsent(r) => task[r].stage = "absent"

IInv ==
    /\ TypeOK
    /\ RetriesLeft
    /\ NotBeforeSent
    /\ ClaimStands
    /\ OneWinner
    /\ InOrder
    /\ TaskAnswers
    /\ RecordAnswers
    /\ CallAnswers

-----------------------------------------------------------------------------
(* Types.                                                                   *)

(* The constants among the answers are no answers of the handler.           *)
LEMMA PlainAnswers ==
    /\ None \notin HandlerAnswer
    /\ NoResponse \notin HandlerAnswer
    /\ RaceTimeout \notin HandlerAnswer
    /\ None \in Answer /\ NoResponse \in Answer /\ RaceTimeout \in Answer
<1>1. None.status = "none" /\ NoResponse.status = "network"
      /\ RaceTimeout.status = "conflict"
  BY DEF None, NoResponse, RaceTimeout
<1>2. \A a \in HandlerAnswer : a.status \in {"ok", "refused", "busy", "error"}
  BY DEF HandlerAnswer
<1> QED BY <1>1, <1>2 DEF Answer

(* The initial states have the declared types.                              *)
LEMMA InitTyped == Init => TypeOK
<1> USE RetriesAssumption
<1> SUFFICES ASSUME Init PROVE TypeOK
  OBVIOUS
<1>1. 0 \in Attempt
  BY DEF Attempt
<1>2. None \in Answer
  BY PlainAnswers
<1>3. call \in [Call -> [phase : Phase, attempt : Attempt, answer : Answer]]
  BY <1>1, <1>2 DEF Init, Phase
<1>4. task \in [Request -> [stage : Stage, answer : Answer]]
  BY <1>2 DEF Init, Stage
<1>5. record \in [Call -> Record]
  BY DEF Init, Record
<1> QED BY <1>3, <1>4, <1>5 DEF Init, TypeOK

(* What the client learns leaves its record well typed.                     *)
LEMMA LearnTyped ==
    ASSUME TypeOK, NEW c \in Call, NEW answer \in Answer, Learn(c, answer)
    PROVE  call' \in [Call -> [phase : Phase, attempt : Attempt, answer : Answer]]
  BY DEF TypeOK, Learn, Phase

(* The client's steps keep the types.                                       *)
LEMMA ClientTyped ==
    ASSUME TypeOK, RetriesLeft, NEW c \in Call, ClientStep(c) \/ Disconnect(c)
    PROVE  TypeOK' /\ RetriesLeft'
<1> USE RetriesAssumption
<1>0. Current(c) \in Request
  BY DEF TypeOK, Current, Request
<1>l. ASSUME NEW answer \in Answer, Learn(c, answer)
      PROVE  RetriesLeft'
  BY <1>l DEF RetriesLeft, Learn, WillRetry, TypeOK
<1>1. CASE Send(c)
  <2>1. <<c, 0>> \in Request
    BY DEF Request, Attempt
  <2>2. call' \in [Call -> [phase : Phase, attempt : Attempt, answer : Answer]]
    BY <1>1 DEF Send, TypeOK, Phase
  <2>3. task' \in [Request -> [stage : Stage, answer : Answer]]
    BY <1>1, <2>1 DEF Send, Arrive, TypeOK, Stage
  <2>4. RetriesLeft'
    BY <1>1 DEF Send, TypeOK, RetriesLeft
  <2> QED BY <1>1, <2>2, <2>3, <2>4 DEF Send, TypeOK
<1>2. CASE Resend(c)
  <2>1. call[c].attempt + 1 \in Attempt
    BY <1>2 DEF Resend, RetriesLeft, TypeOK, Attempt
  <2>2. <<c, call[c].attempt + 1>> \in Request
    BY <2>1 DEF Request
  <2>3. call' \in [Call -> [phase : Phase, attempt : Attempt, answer : Answer]]
    BY <1>2, <2>1 DEF Resend, TypeOK, Phase
  <2>4. task' \in [Request -> [stage : Stage, answer : Answer]]
    BY <1>2, <2>2 DEF Resend, Arrive, TypeOK, Stage
  <2>5. RetriesLeft'
    BY <1>2 DEF Resend, TypeOK, RetriesLeft
  <2> QED BY <1>2, <2>3, <2>4, <2>5 DEF Resend, TypeOK
<1>3. CASE Receive(c)
  <2>1. task[Current(c)].answer \in Answer
    BY <1>0 DEF TypeOK
  <2>2. call' \in [Call -> [phase : Phase, attempt : Attempt, answer : Answer]]
    BY <1>3, <2>1, LearnTyped DEF Receive
  <2>3. RetriesLeft'
    BY <1>3, <2>1, <1>l DEF Receive
  <2> QED BY <1>3, <2>2, <2>3 DEF Receive, TypeOK
<1>4. CASE Disconnect(c)
  <2>1. call' \in [Call -> [phase : Phase, attempt : Attempt, answer : Answer]]
    BY <1>4, LearnTyped, PlainAnswers DEF Disconnect
  <2>2. task' \in [Request -> [stage : Stage, answer : Answer]]
    BY <1>4, <1>0 DEF Disconnect, TypeOK, Stage
  <2>3. RetriesLeft'
    BY <1>4, <1>l, PlainAnswers DEF Disconnect
  <2> QED BY <1>4, <2>1, <2>2, <2>3 DEF Disconnect, TypeOK
<1> QED BY <1>1, <1>2, <1>3, <1>4 DEF ClientStep

(* So do the gate's.                                                        *)
LEMMA GateTyped ==
    ASSUME TypeOK, RecordAnswers, TaskAnswers, NEW r \in Request, GateStep(r)
    PROVE  TypeOK'
<1>0. r[1] \in Call
  BY DEF Request
<1>m. ASSUME NEW stage \in Stage, MoveTo(r, stage)
      PROVE  task' \in [Request -> [stage : Stage, answer : Answer]]
  BY <1>m DEF MoveTo, TypeOK
<1>r. ASSUME NEW answer \in Answer, Respond(r, answer)
      PROVE  task' \in [Request -> [stage : Stage, answer : Answer]]
  BY <1>r DEF Respond, TypeOK, Stage
<1>s. {"polling", "claiming", "running", "over"} \subseteq Stage
  BY DEF Stage
<1>a. HandlerAnswer \subseteq Answer
  BY DEF Answer
<1>d. DbFails => dbErrors' \in Nat
  BY DEF DbFails, TypeOK
<1>1. CASE LookUp(r)
  <2>1. record[r[1]].status = "completed" => record[r[1]].answer \in Answer
    BY <1>0, <1>a DEF RecordAnswers
  <2>2. task' \in [Request -> [stage : Stage, answer : Answer]]
    BY <1>1, <2>1, <1>m, <1>r, <1>s DEF LookUp
  <2> QED BY <1>1, <2>2, <1>d DEF LookUp, TypeOK
<1>2. CASE Claim(r)
  <2>1. task' \in [Request -> [stage : Stage, answer : Answer]]
    BY <1>2, <1>m, <1>s DEF Claim
  <2>2. record' \in [Call -> Record]
    BY <1>2, <1>0 DEF Claim, TypeOK, Record
  <2> QED BY <1>2, <2>1, <2>2 DEF Claim, TypeOK
<1>3. CASE ClaimFails(r)
  BY <1>3, <1>m, <1>s, <1>d DEF ClaimFails, TypeOK
<1>4. CASE Handle(r)
  <2>1. PICK s \in {"ok", "refused", "busy", "error"} :
           task' = [task EXCEPT ![r] =
              [stage |-> "answered", answer |-> [status |-> s, of |-> r]]]
    BY <1>4 DEF Handle
  <2>2. [status |-> s, of |-> r] \in Answer
    BY DEF Answer, HandlerAnswer
  <2>3. task' \in [Request -> [stage : Stage, answer : Answer]]
    BY <2>1, <2>2 DEF TypeOK, Stage
  <2>4. orders' \subseteq Request
    BY <1>4 DEF Handle, TypeOK
  <2> QED BY <1>4, <2>3, <2>4 DEF Handle, TypeOK
<1>5. CASE Store(r)
  <2>1. task' \in [Request -> [stage : Stage, answer : Answer]]
    BY <1>5, <1>m, <1>s DEF Store
  <2>2. RecordAfter(r, task[r].answer) \in Record
    <3>1. CASE task[r].answer.status = "ok"
      <4>1. task[r].answer \in HandlerAnswer
        BY <3>1 DEF TypeOK, Answer, None, NoResponse, RaceTimeout
      <4> QED BY <4>1, <1>0 DEF RecordAfter, Record, TypeOK
    <3>2. CASE task[r].answer.status # "ok"
      BY <3>2, <1>0 DEF RecordAfter, TypeOK
    <3> QED BY <3>1, <3>2
  <2>3. record' \in [Call -> Record]
    BY <1>5, <2>2, <1>0 DEF Store, TypeOK
  <2> QED BY <1>5, <2>1, <2>3, <1>d DEF Store, TypeOK
<1>6. CASE Poll(r)
  <2>1. record[r[1]].answer \in Answer
    BY <1>6, <1>0, <1>a DEF RecordAnswers, Poll
  <2> QED BY <1>6, <2>1, <1>r DEF Poll, TypeOK
<1>7. CASE PollTimeout(r)
  BY <1>7, <1>r, PlainAnswers DEF PollTimeout, TypeOK
<1> QED BY <1>1, <1>2, <1>3, <1>4, <1>5, <1>6, <1>7 DEF GateStep

-----------------------------------------------------------------------------
(* The invariant is inductive.                                              *)

(* The rest of the invariant, apart from the types.                         *)
Rest ==
    ClaimStands /\ OneWinner /\ InOrder /\ TaskAnswers /\ RecordAnswers
    /\ CallAnswers

(* It holds at first.                                                       *)
LEMMA InitRest == Init => Rest
<1> SUFFICES ASSUME Init PROVE Rest
  OBVIOUS
<1>1. \A r \in Request : ~Won(r)
  BY PlainAnswers DEF Init, Won, OwnAnswer
<1>2. \A r \in Request : task[r].answer \notin HandlerAnswer
  BY PlainAnswers DEF Init
<1>3. \A c \in Call : call[c].answer \notin HandlerAnswer
  BY PlainAnswers DEF Init
<1>4. \A c \in Call : record[c].status # "completed"
  BY DEF Init, Absent
<1>5. InOrder
  BY DEF Init, InOrder
<1> QED
  BY <1>1, <1>2, <1>3, <1>4, <1>5
  DEF Rest, ClaimStands, OneWinner, TaskAnswers, RecordAnswers, CallAnswers

(* A step that leaves orders, records and claims alone, gives no task an    *)
(* answer and does not set it running, keeps it, whatever tasks it ends.    *)
LEMMA QuietKeepsRest ==
    ASSUME TypeOK, Rest, UNCHANGED <<record, orders, degraded>>,
           \A r \in Request :
              \/ task'[r] = task[r]
              \/ /\ task[r].stage \notin {"over"}
                 /\ task'[r].stage = "over"
                 /\ task'[r].answer \notin HandlerAnswer
              \/ /\ task[r].stage \in {"absent", "arrived", "claiming"}
                 /\ task'[r].stage \in {"arrived", "claiming", "polling"}
                 /\ task'[r].answer = task[r].answer,
           \A c \in Call :
              \/ call'[c].answer = call[c].answer
              \/ call'[c].answer \notin HandlerAnswer
              \/ \E r \in Request : /\ r[1] = c
                                    /\ task[r].stage = "over"
                                    /\ task[r].answer = call'[c].answer
    PROVE  Rest'
<1>1. \A r \in Request : Won(r)' => Won(r)
  BY PlainAnswers DEF Won, OwnAnswer, Rest, InOrder
<1>2. ClaimStands' /\ OneWinner'
  BY <1>1 DEF Rest, ClaimStands, OneWinner
<1>3. InOrder'
  BY DEF Rest, InOrder
<1>4. TaskAnswers'
  BY PlainAnswers DEF Rest, InOrder, TaskAnswers, BackedAnswer
<1>5. RecordAnswers'
  BY DEF Rest, RecordAnswers
<1>6. ASSUME NEW c \in Call, call'[c].answer \in HandlerAnswer
      PROVE  /\ call'[c].answer.of \in Request
             /\ call'[c].answer.of[1] = c
             /\ call'[c].answer.status = "ok" => call'[c].answer.of \in orders'
             /\ call'[c].answer.status # "ok" =>
                   task'[call'[c].answer.of] =
                       [stage |-> "over", answer |-> call'[c].answer]
  <2>1. CASE call'[c].answer = call[c].answer
    BY <1>6, <2>1 DEF Rest, CallAnswers
  <2>2. ASSUME NEW r \in Request, r[1] = c, task[r].stage = "over",
               task[r].answer = call'[c].answer
        PROVE  /\ call'[c].answer.of \in Request
               /\ call'[c].answer.of[1] = c
               /\ call'[c].answer.status = "ok" => call'[c].answer.of \in orders'
               /\ call'[c].answer.status # "ok" =>
                     task'[call'[c].answer.of] =
                         [stage |-> "over", answer |-> call'[c].answer]
    <3>1. BackedAnswer(r, task[r].answer)
      BY <1>6, <2>2 DEF Rest, TaskAnswers
    <3>2. task[r] = [stage |-> "over", answer |-> call'[c].answer]
      BY <2>2 DEF TypeOK
    <3>3. task'[r] = task[r]
      BY <2>2
    <3> QED BY <2>2, <3>1, <3>2, <3>3 DEF BackedAnswer
  <2> QED BY <1>6, <2>1, <2>2
<1>7. CallAnswers'
  BY <1>6 DEF CallAnswers
<1> QED BY <1>2, <1>3, <1>4, <1>5, <1>7 DEF Rest

(* The client's steps and restarts are such steps.                          *)
LEMMA ClientKeepsRest ==
    ASSUME TypeOK, RetriesLeft, NotBeforeSent, Rest, NEW c \in Call,
           ClientStep(c) \/ Disconnect(c)
    PROVE  Rest'
<1>0. Current(c) \in Request /\ Current(c)[1] = c
  BY DEF TypeOK, Current, Request
<1>1. CASE Send(c)
  <2>1. <<c, 0>> \in Request /\ Unsent(<<c, 0>>)
    BY <1>1, RetriesAssumption DEF Send, Request, Attempt, Unsent
  <2>2. task[<<c, 0>>].stage = "absent"
    BY <2>1 DEF NotBeforeSent
  <2>3. \A r \in Request :
           \/ task'[r] = task[r]
           \/ /\ task[r].stage = "absent"
              /\ task'[r].stage = "arrived"
              /\ task'[r].answer = task[r].answer
    BY <1>1, <2>1, <2>2 DEF Send, Arrive, TypeOK
  <2>4. \A d \in Call : call'[d].answer = call[d].answer
    BY <1>1 DEF Send, TypeOK
  <2> QED BY <1>1, <2>3, <2>4, QuietKeepsRest DEF Send
<1>2. CASE Resend(c)
  <2> DEFINE next == <<c, call[c].attempt + 1>>
  <2>1. next \in Request /\ Unsent(next)
    BY <1>2, RetriesAssumption
    DEF Resend, RetriesLeft, TypeOK, Request, Attempt, Unsent
  <2>2. task[next].stage = "absent"
    BY <2>1 DEF NotBeforeSent
  <2>3. \A r \in Request :
           \/ task'[r] = task[r]
           \/ /\ task[r].stage = "absent"
              /\ task'[r].stage = "arrived"
              /\ task'[r].answer = task[r].answer
    BY <1>2, <2>1, <2>2 DEF Resend, Arrive, TypeOK
  <2>4. \A d \in Call : call'[d].answer = call[d].answer
    BY <1>2 DEF Resend, TypeOK
  <2> QED BY <1>2, <2>3, <2>4, QuietKeepsRest DEF Resend
<1>3. CASE Receive(c)
  <2>1. \A d \in Call :
           \/ call'[d].answer = call[d].answer
           \/ d = c /\ call'[d].answer = task[Current(c)].answer
    BY <1>3 DEF Receive, Learn, TypeOK
  <2>2. \A d \in Call :
           \/ call'[d].answer = call[d].answer
           \/ \E r \in Request : /\ r[1] = d
                                 /\ task[r].stage = "over"
                                 /\ task[r].answer = call'[d].answer
    BY <1>0, <1>3, <2>1 DEF Receive
  <2> QED BY <1>3, <2>2, QuietKeepsRest DEF Receive
<1>4. CASE Disconnect(c)
  <2>1. \A d \in Call :
           \/ call'[d].answer = call[d].answer
           \/ call'[d].answer \notin HandlerAnswer
    BY <1>4, PlainAnswers DEF Disconnect, Learn, TypeOK
  <2>2. \A r \in Request :
           \/ task'[r] = task[r]
           \/ /\ task[r].stage = "arrived"
              /\ task'[r].stage = "over"
              /\ task'[r].answer = task[r].answer
    BY <1>0, <1>4 DEF Disconnect, TypeOK
  <2>3. \A r \in Request : task[r].stage = "arrived" => task[r].answer = None
    BY DEF Rest, InOrder
  <2> QED BY <1>4, <2>1, <2>2, <2>3, PlainAnswers, QuietKeepsRest DEF Disconnect
<1> QED BY <1>1, <1>2, <1>3, <1>4 DEF ClientStep

(* A restart ends tasks and no more.                                        *)
LEMMA CrashKeepsRest == ASSUME TypeOK, Rest, Crash PROVE Rest'
<1>1. \A r \in Request :
         \/ task'[r] = task[r]
         \/ /\ task[r].stage \notin {"over"}
            /\ task'[r].stage = "over"
            /\ task'[r].answer = None
  BY DEF Crash, TypeOK
<1> QED BY <1>1, PlainAnswers, QuietKeepsRest DEF Crash

(* The server does not run ahead of the client.                             *)
LEMMA SentKept ==
    ASSUME TypeOK, RetriesLeft, NotBeforeSent, [Next]_vars
    PROVE  NotBeforeSent'
<1> USE RetriesAssumption
<1>1. ASSUME NEW c \in Call, Send(c)
      PROVE  NotBeforeSent'
  BY <1>1 DEF Send, Arrive, NotBeforeSent, Unsent, TypeOK, Request, Attempt
<1>2. ASSUME NEW c \in Call, Resend(c)
      PROVE  NotBeforeSent'
  BY <1>2 DEF Resend, Arrive, NotBeforeSent, Unsent, TypeOK, Request, Attempt
<1>3. ASSUME NEW c \in Call, Receive(c)
      PROVE  NotBeforeSent'
  <2>1. \A d \in Call : /\ call'[d].attempt = call[d].attempt
                        /\ call'[d].phase = "new" => call[d].phase = "new"
    BY <1>3 DEF Receive, Learn, TypeOK
  <2> QED BY <1>3, <2>1 DEF Receive, NotBeforeSent, Unsent, Request
<1>4. ASSUME NEW c \in Call, Disconnect(c)
      PROVE  NotBeforeSent'
  <2>1. \A d \in Call : /\ call'[d].attempt = call[d].attempt
                        /\ call'[d].phase = "new" => call[d].phase = "new"
    BY <1>4 DEF Disconnect, Learn, TypeOK
  <2>2. \A r \in Request : task[r].stage = "absent" => task'[r].stage = "absent"
    BY <1>4 DEF Disconnect, TypeOK
  <2> QED BY <2>1, <2>2 DEF NotBeforeSent, Unsent, Request
<1>5. ASSUME NEW r \in Request, GateStep(r)
      PROVE  NotBeforeSent'
  <2>1. task[r].stage # "absent" /\ UNCHANGED call
    BY <1>5 DEF GateStep, LookUp, Claim, ClaimFails, Handle, Store, Poll,
                PollTimeout
  <2>2. \A q \in Request : q # r => task'[q] = task[q]
    BY <1>5 DEF GateStep, LookUp, Claim, ClaimFails, Handle, Store, Poll,
                PollTimeout, MoveTo, Respond, TypeOK
  <2> QED BY <2>1, <2>2 DEF NotBeforeSent, Unsent
<1>6. CASE Crash
  BY <1>6 DEF Crash, NotBeforeSent, Unsent, TypeOK
<1>7. CASE UNCHANGED vars
  BY <1>7 DEF vars, NotBeforeSent, Unsent
<1> QED BY <1>1, <1>2, <1>3, <1>4, <1>5, <1>6, <1>7 DEF Next, ClientStep

(* A replay: a request is given the stored answer of its key.               *)
LEMMA ReplayKeepsRest ==
    ASSUME TypeOK, Rest, UNCHANGED <<call, record, orders, degraded>>,
           NEW r \in Request,
           task[r].stage \in {"arrived", "polling"},
           record[r[1]].status = "completed",
           Respond(r, record[r[1]].answer)
    PROVE  Rest'
<1>u. call' = call /\ record' = record /\ orders' = orders
  OBVIOUS
<1>d. PICK a \in HandlerAnswer : a = record[r[1]].answer
  BY DEF Rest, RecordAnswers, Request
<1>1. /\ a \in HandlerAnswer /\ a.status = "ok"
      /\ a.of[1] = r[1] /\ a.of \in orders
  BY <1>d DEF Rest, RecordAnswers, Request
<1>2. task' = [task EXCEPT ![r] = [stage |-> "over", answer |-> a]]
  BY <1>d DEF Respond
<1>3. a.of # r
  BY <1>1 DEF Rest, InOrder
<1>4. \A q \in Request : q # r => task'[q] = task[q]
  BY <1>2 DEF TypeOK
<1>5. task'[r] = [stage |-> "over", answer |-> a]
  BY <1>2 DEF TypeOK
<1>6. \A q \in Request : Won(q)' => Won(q)
  BY <1>3, <1>4, <1>5 DEF Won, OwnAnswer
<1>7. ClaimStands' /\ OneWinner'
  BY <1>6 DEF Rest, ClaimStands, OneWinner
<1>8. InOrder'
  BY <1>4, <1>5 DEF Rest, InOrder
<1>9. TaskAnswers'
  <2>1. BackedAnswer(r, a)'
    BY <1>1, <1>u DEF BackedAnswer, HandlerAnswer
  <2>2. ASSUME NEW q \in Request, q # r, task'[q].answer \in HandlerAnswer
        PROVE  BackedAnswer(q, task[q].answer)'
    <3>1. task'[q].answer = task[q].answer
      BY <2>2, <1>4
    <3>2. BackedAnswer(q, task[q].answer)
      BY <2>2, <3>1 DEF Rest, TaskAnswers
    <3> QED BY <3>1, <3>2, <1>u DEF BackedAnswer
  <2>3. task'[r].answer = a
    BY <1>5
  <2>4. BackedAnswer(r, task[r].answer)'
    BY <2>1, <2>3 DEF BackedAnswer
  <2> QED BY <2>2, <2>4 DEF TaskAnswers
<1>10. RecordAnswers'
  BY DEF Rest, RecordAnswers
<1>11. CallAnswers'
  BY <1>4 DEF Rest, CallAnswers
<1> QED BY <1>7, <1>8, <1>9, <1>10, <1>11 DEF Rest

(* The steps of the gate keep it: the claim is where the one winner comes   *)
(* from.                                                                    *)
LEMMA GateKeepsRest ==
    ASSUME TypeOK, Rest, NEW r \in Request, GateStep(r)
    PROVE  Rest'
<1>0. r[1] \in Call
  BY DEF Request
<1>a. \A c \in Call : call'[c].answer = call[c].answer
  BY DEF GateStep, LookUp, Claim, ClaimFails, Handle, Store, Poll, PollTimeout
<1>m. ASSUME NEW stage, MoveTo(r, stage)
      PROVE  /\ \A q \in Request : q # r => task'[q] = task[q]
             /\ task'[r].stage = stage
             /\ task'[r].answer = task[r].answer
  BY <1>m DEF MoveTo, TypeOK
<1>1. CASE LookUp(r)
  <2>1. CASE record[r[1]].status = "completed" /\ Respond(r, record[r[1]].answer)
    BY <1>1, <2>1, ReplayKeepsRest DEF LookUp
  <2>2. ASSUME NEW stage \in {"polling", "claiming"}, MoveTo(r, stage)
        PROVE  Rest'
    BY <1>1, <1>a, <2>2, <1>m, QuietKeepsRest DEF LookUp
  <2> QED BY <1>1, <2>1, <2>2 DEF LookUp
<1>2. CASE Claim(r)
  <2>1. CASE record[r[1]] # Absent
    BY <1>2, <2>1, <1>a, <1>m, QuietKeepsRest DEF Claim
  <2>2. CASE record[r[1]] = Absent
    <3>1. /\ record' = [record EXCEPT ![r[1]] = Pending]
          /\ UNCHANGED <<call, orders, degraded>>
          /\ MoveTo(r, "running")
      BY <1>2, <2>2 DEF Claim
    <3>2. \A q \in Request : Won(q)' => Won(q) \/ q = r
      BY <3>1, <1>m DEF Won, OwnAnswer
    <3>3. \A q \in Request : Won(q) => q[1] # r[1]
      BY <2>2 DEF Rest, ClaimStands
    <3>4. OneWinner'
      BY <3>2, <3>3 DEF Rest, OneWinner
    <3>5. \A c \in Call : record'[c] = IF c = r[1] THEN Pending ELSE record[c]
      BY <3>1, <1>0 DEF TypeOK
    <3>6. ClaimStands'
      BY <3>2, <3>5 DEF Rest, ClaimStands, Request, Pending, Absent
    <3>7. RecordAnswers'
      BY <3>1, <3>5 DEF Rest, RecordAnswers, Pending
    <3>8. task[r].stage = "claiming"
      BY <1>2 DEF Claim
    <3>9. InOrder'
      BY <3>1, <3>8, <1>m DEF Rest, InOrder
    <3>10. TaskAnswers'
      BY <3>1, <3>8, <1>m, PlainAnswers DEF Rest, InOrder, TaskAnswers, BackedAnswer
    <3>11. CallAnswers'
      BY <3>1, <3>8, <1>m DEF Rest, CallAnswers
    <3> QED BY <3>4, <3>6, <3>7, <3>9, <3>10, <3>11 DEF Rest
  <2> QED BY <2>1, <2>2
<1>3. CASE ClaimFails(r)
  <2>1. /\ degraded' = degraded \cup {r}
        /\ UNCHANGED <<call, record, orders>>
        /\ MoveTo(r, "running") /\ task[r].stage = "claiming"
    BY <1>3 DEF ClaimFails
  <2>2. \A q \in Request : Won(q)' => Won(q)
    BY <2>1, <1>m DEF Won, OwnAnswer
  <2>3. ClaimStands' /\ OneWinner'
    BY <2>1, <2>2 DEF Rest, ClaimStands, OneWinner
  <2>4. InOrder'
    BY <2>1, <1>m DEF Rest, InOrder
  <2>5. TaskAnswers'
    BY <2>1, <1>m, PlainAnswers DEF Rest, InOrder, TaskAnswers, BackedAnswer
  <2>6. RecordAnswers' /\ CallAnswers'
    BY <2>1, <1>m DEF Rest, RecordAnswers, CallAnswers
  <2> QED BY <2>3, <2>4, <2>5, <2>6 DEF Rest
<1>4. CASE Handle(r)
  <2>1. PICK s \in {"ok", "refused", "busy", "error"} :
           /\ task' = [task EXCEPT ![r] =
                 [stage |-> "answered", answer |-> [status |-> s, of |-> r]]]
           /\ \/ s \in {"ok", "error"} /\ orders' = orders \cup {r}
              \/ s # "ok" /\ orders' = orders
    BY <1>4 DEF Handle
  <2>a. PICK a \in HandlerAnswer : a = [status |-> s, of |-> r]
    BY DEF HandlerAnswer
  <2>2. /\ \A q \in Request : q # r => task'[q] = task[q]
        /\ task'[r] = [stage |-> "answered", answer |-> a]
    BY <2>1, <2>a DEF TypeOK
  <2>3. a.of = r /\ a.status = s
    BY <2>a
  <2>4. task[r].stage = "running" /\ UNCHANGED <<call, record, degraded>>
    BY <1>4 DEF Handle
  <2>5. \A q \in Request : Won(q)' => Won(q)
    BY <2>1, <2>2, <2>4 DEF Won, OwnAnswer
  <2>6. ClaimStands' /\ OneWinner'
    BY <2>4, <2>5 DEF Rest, ClaimStands, OneWinner
  <2>7. InOrder'
    BY <2>1, <2>2 DEF Rest, InOrder
  <2>8. r \notin orders
    BY <2>4 DEF Rest, InOrder
  <2>9. TaskAnswers'
    <3>0. /\ s = "ok" => r \in orders'
          /\ s \in {"refused", "busy"} => r \notin orders'
          /\ \A q \in Request : q \in orders => q \in orders'
          /\ \A q \in Request \ {r} : q \in orders' => q \in orders
      BY <2>1, <2>8
    <3>1. BackedAnswer(r, a)'
      BY <2>3, <3>0 DEF BackedAnswer
    <3>2. ASSUME NEW q \in Request \ {r}, task[q].answer \in HandlerAnswer
          PROVE  BackedAnswer(q, task[q].answer)'
      <4>1. BackedAnswer(q, task[q].answer) /\ task'[q] = task[q]
        BY <2>2, <3>2 DEF Rest, TaskAnswers
      <4> QED BY <3>0, <4>1 DEF BackedAnswer
    <3> QED BY <2>2, <3>1, <3>2 DEF TaskAnswers
  <2>10. RecordAnswers'
    BY <2>1, <2>4 DEF Rest, RecordAnswers
  <2>11. CallAnswers'
    BY <2>1, <2>2, <2>4 DEF Rest, CallAnswers
  <2> QED BY <2>6, <2>7, <2>9, <2>10, <2>11 DEF Rest
<1>5. CASE Store(r)
  <2>1. /\ task[r].stage = "answered" /\ MoveTo(r, "over")
        /\ UNCHANGED <<call, orders, degraded>>
    BY <1>5 DEF Store
  <2>2. \/ record' = record
        \/ /\ task[r].answer.status = "ok" /\ record[r[1]] # Absent
           /\ record' = [record EXCEPT ![r[1]] = Completed(task[r].answer)]
    BY <1>5, <1>0 DEF Store, RecordAfter, TypeOK
  <2>3. \A q \in Request : Won(q)' => Won(q)
    BY <2>1, <1>m DEF Won, OwnAnswer
  <2>4. \A c \in Call : record[c] # Absent => record'[c] # Absent
    BY <2>2, <1>0 DEF TypeOK, Completed, Absent
  <2>5. ClaimStands' /\ OneWinner'
    BY <2>3, <2>4 DEF Rest, ClaimStands, OneWinner, Request
  <2>6. InOrder' /\ TaskAnswers' /\ CallAnswers'
    BY <2>1, <1>m DEF Rest, InOrder, TaskAnswers, BackedAnswer, CallAnswers
  <2>7. RecordAnswers'
    <3>1. CASE record' = record
      BY <2>1, <3>1 DEF Rest, RecordAnswers
    <3>2. CASE /\ task[r].answer.status = "ok"
               /\ record' = [record EXCEPT ![r[1]] = Completed(task[r].answer)]
      <4>1. task[r].answer \in HandlerAnswer
        BY <3>2 DEF TypeOK, Answer, None, NoResponse, RaceTimeout
      <4>2. BackedAnswer(r, task[r].answer)
        BY <4>1 DEF Rest, TaskAnswers
      <4>3. \A c \in Call : record'[c] = IF c = r[1] THEN Completed(task[r].answer)
                                         ELSE record[c]
        BY <3>2, <1>0 DEF TypeOK
      <4> QED BY <2>1, <3>2, <4>1, <4>2, <4>3
              DEF Rest, RecordAnswers, BackedAnswer, Completed
    <3> QED BY <2>2, <3>1, <3>2
  <2> QED BY <2>5, <2>6, <2>7 DEF Rest
<1>6. CASE Poll(r)
  BY <1>6, ReplayKeepsRest DEF Poll
<1>7. CASE PollTimeout(r)
  <2>1. /\ \A q \in Request : q # r => task'[q] = task[q]
        /\ task'[r].stage = "over" /\ task'[r].answer \notin HandlerAnswer
    BY <1>7, PlainAnswers DEF PollTimeout, Respond, TypeOK
  <2> QED BY <1>7, <1>a, <2>1, QuietKeepsRest DEF PollTimeout
<1> QED BY <1>1, <1>2, <1>3, <1>4, <1>5, <1>6, <1>7 DEF GateStep

-----------------------------------------------------------------------------
(* The theorems.                                                            *)

(* The invariant holds at first and is kept by every step.                  *)
LEMMA Inductive ==
    /\ Init => IInv
    /\ IInv /\ [Next]_vars => IInv'
<1>1. Init => IInv
  <2>1. Init => RetriesLeft /\ NotBeforeSent
    BY DEF Init, RetriesLeft, NotBeforeSent
  <2> QED BY <2>1, InitTyped, InitRest DEF IInv, Rest
<1>2. ASSUME IInv, [Next]_vars PROVE IInv'
  <2>0. TypeOK /\ RetriesLeft /\ NotBeforeSent /\ Rest
    BY <1>2 DEF IInv, Rest
  <2>1. NotBeforeSent'
    BY <1>2, <2>0, SentKept
  <2>2. ASSUME NEW c \in Call, ClientStep(c) \/ Disconnect(c) PROVE IInv'
    BY <2>0, <2>1, <2>2, ClientTyped, ClientKeepsRest DEF IInv, Rest
  <2>3. ASSUME NEW r \in Request, GateStep(r) PROVE IInv'
    <3>1. TypeOK' /\ Rest'
      BY <2>0, <2>3, GateTyped, GateKeepsRest DEF Rest
    <3>2. RetriesLeft'
      BY <2>0, <2>3 DEF RetriesLeft, GateStep, LookUp, Claim, ClaimFails,
                        Handle, Store, Poll, PollTimeout
    <3> QED BY <2>1, <3>1, <3>2 DEF IInv, Rest
  <2>4. CASE Crash
    <3>1. TypeOK'
      BY <2>0, <2>4, PlainAnswers DEF Crash, TypeOK, Stage
    <3> QED BY <2>0, <2>1, <2>4, <3>1, CrashKeepsRest
            DEF IInv, Rest, Crash, RetriesLeft
  <2>5. CASE UNCHANGED vars
    <3>1. TypeOK' /\ RetriesLeft'
      BY <2>0, <2>5 DEF vars, TypeOK, RetriesLeft
    <3>2. Rest'
      BY <2>0, <2>5, QuietKeepsRest DEF vars
    <3> QED BY <2>1, <3>1, <3>2 DEF IInv, Rest
  <2> QED BY <1>2, <2>2, <2>3, <2>4, <2>5 DEF Next
<1> QED BY <1>1, <1>2

(* The invariant holds throughout.                                          *)
LEMMA Invariance == Spec => []IInv
  BY Inductive, PTL DEF Spec

(* Every variable keeps its type.                                           *)
THEOREM TypeCorrect == Spec => []TypeOK
<1>1. IInv => TypeOK
  BY DEF IInv
<1> QED BY <1>1, Invariance, PTL

(* A call places at most one order through the claims of its key, for any   *)
(* number of retries, overlapping requests and restarts.                    *)
THEOREM OrdersOnce == Spec => []AtMostOnce
<1>1. IInv => AtMostOnce
  <2> SUFFICES ASSUME IInv, NEW r \in orders \ degraded,
                      NEW s \in orders \ degraded, r[1] = s[1]
               PROVE  r = s
    BY DEF AtMostOnce
  <2>1. Won(r) /\ Won(s)
    BY DEF Won
  <2>2. r \in Request /\ s \in Request
    BY DEF IInv, TypeOK
  <2> QED BY <2>1, <2>2 DEF IInv, OneWinner
<1> QED BY <1>1, Invariance, PTL

(* A success names the one order of its call, and a refusal means there is  *)
(* none and will be none, unless a request of the call ran without a claim. *)
THEOREM AnswersTrue == Spec => []AnswerTellsTheTruth
<1>1. IInv => AnswerTellsTheTruth
  <2> SUFFICES ASSUME IInv, NEW c \in Call, call[c].phase = "returned",
                      \A r \in degraded : r[1] # c
               PROVE  /\ call[c].answer.status = "ok"
                         => {r \in orders : r[1] = c} = {call[c].answer.of}
                      /\ call[c].answer.status \in {"refused", "busy"}
                         => \A r \in Request : r[1] = c =>
                               r \notin orders /\ task[r].stage # "running"
    BY DEF AnswerTellsTheTruth
  <2> DEFINE a == call[c].answer
  <2>1. a \in HandlerAnswer \/ a \in {None, NoResponse, RaceTimeout}
    BY DEF IInv, TypeOK, Answer
  <2>2. CASE a \in {None, NoResponse, RaceTimeout}
    BY <2>2 DEF None, NoResponse, RaceTimeout
  <2>3. CASE a \in HandlerAnswer
    <3>1. a.of \in Request /\ a.of[1] = c
      BY <2>3 DEF IInv, CallAnswers
    <3>2. ASSUME NEW r \in Request, r[1] = c,
                 r \in orders \/ task[r].stage = "running", Won(a.of)
          PROVE  r = a.of
      <4>1. Won(r)
        BY <3>2 DEF Won
      <4> QED BY <3>1, <3>2, <4>1 DEF IInv, OneWinner
    <3>3. CASE a.status = "ok"
      <4>1. a.of \in orders /\ Won(a.of)
        BY <2>3, <3>1, <3>3 DEF IInv, CallAnswers, Won
      <4>2. orders \subseteq Request
        BY DEF IInv, TypeOK
      <4> QED BY <3>1, <3>2, <3>3, <4>1, <4>2
    <3>4. CASE a.status # "ok"
      <4>1. task[a.of] = [stage |-> "over", answer |-> a]
        BY <2>3, <3>4 DEF IInv, CallAnswers
      <4>2. Won(a.of)
        BY <2>3, <3>1, <4>1 DEF Won, OwnAnswer
      <4>3. a.status \in {"refused", "busy"} => a.of \notin orders
        BY <2>3, <3>1, <4>1 DEF IInv, TaskAnswers, BackedAnswer
      <4> QED BY <3>1, <3>2, <3>4, <4>1, <4>2, <4>3
    <3> QED BY <3>3, <3>4
  <2> QED BY <2>1, <2>2, <2>3
<1> QED BY <1>1, Invariance, PTL

=============================================================================
