--------------------------- MODULE IdempotencyGate ---------------------------
(***************************************************************************)
(* A mutating call of the embed client and the gate in front of its        *)
(* handler.  The client (packages/api-client) gives a call one fresh       *)
(* Idempotency-Key and sends it again under that key after a network       *)
(* error, a 429 or a 5xx.  The server (middleware/idempotency.py) claims   *)
(* the key by inserting a pending record, runs the handler, stores a       *)
(* successful answer and replays it; a request that finds the key claimed  *)
(* polls.  A request the client has given up goes on at the server.        *)
(*                                                                         *)
(* The handler is POST /embed/checkout/start: it places an order or not,   *)
(* and answers.  Keys of different calls differ, so a call stands for its  *)
(* key; its record lives longer than the call (24 hours against seconds).  *)
(***************************************************************************)
EXTENDS Naturals

CONSTANTS Call,        \* calls of request(), one key each
          MaxRetries,  \* maxRetries of the client
          MaxDbErrors, \* bound: failed calls of the gate to its collection
          MaxCrashes   \* bound: restarts of the server

ASSUME RetriesAssumption == MaxRetries \in Nat

VARIABLES call,     \* the client's side: phase, attempt, answer
          task,     \* the server's side of each attempt: stage, answer
          record,   \* idempotency_keys: the record of each key
          orders,   \* tasks whose handler has placed an order
          degraded, \* tasks that run without a claim: the insert failed
          dbErrors, crashes

vars == <<call, task, record, orders, degraded, dbErrors, crashes>>

-----------------------------------------------------------------------------
(* Data.                                                                    *)

Attempt == 0 .. MaxRetries

(* A request: the attempt a of the call c.                                  *)
Request == Call \X Attempt

(* What the classes of status codes are to the client: 2xx, 4xx, 429, 5xx,  *)
(* the gate's 409 and no response at all.                                   *)
Status == {"ok", "refused", "busy", "error", "conflict", "network"}

None == [status |-> "none"]
NoResponse == [status |-> "network"]
RaceTimeout == [status |-> "conflict"]

(* An answer of the handler, told apart by the task that gave it.           *)
HandlerAnswer == [status : {"ok", "refused", "busy", "error"}, of : Request]
Answer == HandlerAnswer \cup {None, NoResponse, RaceTimeout}

Phase == {"new", "waiting", "backoff", "returned"}
Stage == {"absent", "arrived", "claiming", "polling", "running", "answered",
          "over"}
Absent == [status |-> "absent"]
Pending == [status |-> "pending"]
Completed(answer) == [status |-> "completed", answer |-> answer]
Record == {Absent, Pending} \cup {Completed(a) : a \in HandlerAnswer}

TypeOK ==
    /\ call \in [Call -> [phase : Phase, attempt : Attempt, answer : Answer]]
    /\ task \in [Request -> [stage : Stage, answer : Answer]]
    /\ record \in [Call -> Record]
    /\ orders \subseteq Request
    /\ degraded \subseteq Request
    /\ dbErrors \in Nat
    /\ crashes \in Nat

Init ==
    /\ call = [c \in Call |-> [phase |-> "new", attempt |-> 0, answer |-> None]]
    /\ task = [r \in Request |-> [stage |-> "absent", answer |-> None]]
    /\ record = [c \in Call |-> Absent]
    /\ orders = {}
    /\ degraded = {}
    /\ dbErrors = 0
    /\ crashes = 0

-----------------------------------------------------------------------------
(* The client: request, requestWithRetry, parseResponse.                    *)

(* What is tried again: network errors, 429 and 5xx, maxRetries times.      *)
WillRetry(c, status) ==
    /\ status \in {"network", "busy", "error"}
    /\ call[c].attempt < MaxRetries

(* The client learns the fate of its current attempt.                       *)
Learn(c, answer) ==
    call' = [call EXCEPT ![c] =
                IF WillRetry(c, answer.status)
                THEN [@ EXCEPT !.phase = "backoff"]
                ELSE [@ EXCEPT !.phase = "returned", !.answer = answer]]

Arrive(c, a) == task' = [task EXCEPT ![<<c, a>>].stage = "arrived"]

(* The first fetch of a call, under a fresh key.                            *)
Send(c) ==
    /\ call[c].phase = "new"
    /\ call' = [call EXCEPT ![c].phase = "waiting"]
    /\ Arrive(c, 0)
    /\ UNCHANGED <<record, orders, degraded, dbErrors, crashes>>

(* The backoff is over: the same headers, hence the same key, again.        *)
Resend(c) ==
    /\ call[c].phase = "backoff"
    /\ call' = [call EXCEPT ![c].phase = "waiting", ![c].attempt = @ + 1]
    /\ Arrive(c, call[c].attempt + 1)
    /\ UNCHANGED <<record, orders, degraded, dbErrors, crashes>>

Current(c) == <<c, call[c].attempt>>

(* A response arrives.                                                      *)
Receive(c) ==
    /\ call[c].phase = "waiting"
    /\ task[Current(c)].stage = "over"
    /\ task[Current(c)].answer # None
    /\ Learn(c, task[Current(c)].answer)
    /\ UNCHANGED <<task, record, orders, degraded, dbErrors, crashes>>

(* fetch rejects: the connection broke.  The request may never have         *)
(* reached the server; if it did, its task goes on.                         *)
Disconnect(c) ==
    /\ call[c].phase = "waiting"
    /\ Learn(c, NoResponse)
    /\ \/ UNCHANGED task
       \/ /\ task[Current(c)].stage = "arrived"
          /\ task' = [task EXCEPT ![Current(c)].stage = "over"]
    /\ UNCHANGED <<record, orders, degraded, dbErrors, crashes>>

-----------------------------------------------------------------------------
(* The gate: dispatch and its helpers, one action per await.                *)

MoveTo(r, stage) == task' = [task EXCEPT ![r].stage = stage]

Respond(r, answer) ==
    task' = [task EXCEPT ![r] = [stage |-> "over", answer |-> answer]]

DbFails ==
    /\ dbErrors < MaxDbErrors
    /\ dbErrors' = dbErrors + 1

(* _lookup_cached_response, and what dispatch does with the record it       *)
(* finds: replay a stored answer, wait for a pending one, or go on to       *)
(* claim.  A lookup that fails counts as a miss.                            *)
LookUp(r) ==
    /\ task[r].stage = "arrived"
    /\ LET found == record[r[1]] IN
       \/ /\ found.status = "completed"
          /\ Respond(r, found.answer)
          /\ UNCHANGED dbErrors
       \/ /\ found.status = "pending"
          /\ MoveTo(r, "polling")
          /\ UNCHANGED dbErrors
       \/ /\ found.status = "absent"
          /\ MoveTo(r, "claiming")
          /\ UNCHANGED dbErrors
       \/ /\ DbFails
          /\ MoveTo(r, "claiming")
    /\ UNCHANGED <<call, record, orders, degraded, crashes>>

(* Mutant: the digest is not a unique index.                                *)
Claim_NotUnique(r) ==
    /\ task[r].stage = "claiming"
    /\ record' = [record EXCEPT ![r[1]] = Pending]
    /\ MoveTo(r, "running")
    /\ UNCHANGED <<call, orders, degraded, dbErrors, crashes>>

(* _claim_idempotency_lock: the insert succeeds only if no record has the   *)
(* digest.                                                                  *)
Claim(r) ==
    /\ task[r].stage = "claiming"
    /\ IF record[r[1]] = Absent
       THEN /\ record' = [record EXCEPT ![r[1]] = Pending]
            /\ MoveTo(r, "running")
       ELSE /\ MoveTo(r, "polling")
            /\ UNCHANGED record
    /\ UNCHANGED <<call, orders, degraded, dbErrors, crashes>>

(* Any other error of the insert: go on without a claim.                    *)
ClaimFails(r) ==
    /\ task[r].stage = "claiming"
    /\ DbFails
    /\ degraded' = degraded \cup {r}
    /\ MoveTo(r, "running")
    /\ UNCHANGED <<call, record, orders, crashes>>

(* call_next: the handler places the order and answers 2xx, or answers      *)
(* something else; a 5xx may come after the order was placed.               *)
Handle(r) ==
    /\ task[r].stage = "running"
    /\ \E s \in {"ok", "refused", "busy", "error"} :
          /\ task' = [task EXCEPT ![r] =
                [stage |-> "answered", answer |-> [status |-> s, of |-> r]]]
          /\ \/ /\ s \in {"ok", "error"}
                /\ orders' = orders \cup {r}
             \/ /\ s # "ok"
                /\ UNCHANGED orders
    /\ UNCHANGED <<call, record, degraded, dbErrors, crashes>>

(* Mutant: the claim is released after an answer that is not stored.        *)
RecordAfter_Released(r, answer) ==
    IF answer.status = "ok" /\ record[r[1]] # Absent
    THEN Completed(answer)
    ELSE Absent

(* What becomes of the record once the handler has answered: a 2xx is       *)
(* stored in the record of the digest, if there is one; after any other     *)
(* answer the record stays as it is.                                        *)
RecordAfter(r, answer) ==
    IF answer.status = "ok" /\ record[r[1]] # Absent
    THEN Completed(answer)
    ELSE record[r[1]]

(* _store_cached_response, which may fail, and the response.                *)
Store(r) ==
    /\ task[r].stage = "answered"
    /\ MoveTo(r, "over")
    /\ \/ /\ record' = [record EXCEPT ![r[1]] = RecordAfter(r, task[r].answer)]
          /\ UNCHANGED dbErrors
       \/ /\ task[r].answer.status = "ok"
          /\ DbFails
          /\ UNCHANGED record
    /\ UNCHANGED <<call, orders, degraded, crashes>>

(* _poll_for_lock_completion finds the stored answer.                       *)
Poll(r) ==
    /\ task[r].stage = "polling"
    /\ record[r[1]].status = "completed"
    /\ Respond(r, record[r[1]].answer)
    /\ UNCHANGED <<call, record, orders, degraded, dbErrors, crashes>>

(* Mutant: polling has no deadline.                                         *)
PollTimeout_Never(r) == FALSE /\ UNCHANGED vars

(* Mutant: the deadline is looked at before the record.                     *)
PollTimeout_Early(r) ==
    /\ task[r].stage = "polling"
    /\ Respond(r, RaceTimeout)
    /\ UNCHANGED <<call, record, orders, degraded, dbErrors, crashes>>

(* Thirty seconds have passed and the record is still pending: 409.         *)
PollTimeout(r) ==
    /\ task[r].stage = "polling"
    /\ record[r[1]].status # "completed"
    /\ Respond(r, RaceTimeout)
    /\ UNCHANGED <<call, record, orders, degraded, dbErrors, crashes>>

(* The server restarts: every request it was serving is cut off.            *)
Crash ==
    /\ crashes < MaxCrashes
    /\ crashes' = crashes + 1
    /\ task' = [r \in Request |->
                  IF task[r].stage \in {"absent", "over"} THEN task[r]
                  ELSE [stage |-> "over", answer |-> None]]
    /\ UNCHANGED <<call, record, orders, degraded, dbErrors>>

-----------------------------------------------------------------------------
(* The specification.                                                       *)

ClientStep(c) == Send(c) \/ Resend(c) \/ Receive(c)

GateStep(r) ==
    LookUp(r) \/ Claim(r) \/ ClaimFails(r) \/ Handle(r) \/ Store(r)
    \/ Poll(r) \/ PollTimeout(r)

Next ==
    \/ \E c \in Call : ClientStep(c) \/ Disconnect(c)
    \/ \E r \in Request : GateStep(r)
    \/ Crash

Spec == Init /\ [][Next]_vars

(* A request whose task is over without an answer has lost its connection,  *)
(* and fetch rejects in the end.                                            *)
CutOff(c) ==
    /\ task[Current(c)] = [stage |-> "over", answer |-> None]
    /\ Disconnect(c)

(* Timers fire, fetch settles, and the event loop of the server runs every  *)
(* task it has; nothing makes a connection break or the server restart.     *)
Fairness ==
    /\ \A c \in Call : WF_vars(ClientStep(c)) /\ WF_vars(CutOff(c))
    /\ \A r \in Request : WF_vars(GateStep(r))

FairSpec == Spec /\ Fairness

-----------------------------------------------------------------------------
(* Properties.                                                              *)

(* However often a call is sent, and whenever its requests overlap, its     *)
(* handler places at most one order, except where the gate ran the handler  *)
(* without a claim because its database failed.                             *)
AtMostOnce ==
    \A r, s \in orders \ degraded : r[1] = s[1] => r = s

(* What the client is told in the end is what happened: a success names the *)
(* one order of the call, and a refusal (4xx or a last 429) means that no   *)
(* request of the call placed one, or will.                                 *)
AnswerTellsTheTruth ==
    \A c \in Call :
        /\ call[c].phase = "returned"
        /\ \A r \in degraded : r[1] # c
        => /\ call[c].answer.status = "ok"
              => {r \in orders : r[1] = c} = {call[c].answer.of}
           /\ call[c].answer.status \in {"refused", "busy"}
              => \A r \in Request :
                    r[1] = c => r \notin orders /\ task[r].stage # "running"

(* Every call returns, whatever breaks: no attempt waits for ever for an    *)
(* answer, and a claim whose holder died does not keep the others waiting.  *)
EveryCallReturns ==
    \A c \in Call :
        call[c].phase = "waiting" ~> call[c].phase = "returned"

(* A call that is still to be retried when its answer is stored gets that   *)
(* answer, or its connections break to the last; it is never told that the  *)
(* request failed.                                                          *)
StoredAnswerIsDelivered ==
    \A c \in Call :
        record[c].status = "completed" /\ call[c].phase = "backoff"
        ~> \/ /\ call[c].phase = "returned"
              /\ call[c].answer.status \in {"ok", "network"}
           \/ \E r \in degraded : r[1] = c

=============================================================================
