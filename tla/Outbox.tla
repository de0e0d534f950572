------------------------------- MODULE Outbox -------------------------------
(***************************************************************************)
(* The transactional outbox (audit/outbox.py) for one event: the relay     *)
(* makes one delivery per consumer and sends a task for each; workers run  *)
(* the consumer's handler and record what happened; a failed attempt, a    *)
(* lost task or a dead worker is sent again when the delivery's lease or   *)
(* backoff ends; too many failures end in the dead letters, from which an  *)
(* operator retries.                                                       *)
(*                                                                         *)
(* A worker's transaction is three steps, since the database runs READ     *)
(* COMMITTED: it reads the rows, it writes them (locking the delivery),    *)
(* it commits.  What it wrote is seen by others at the commit only.  Two   *)
(* tasks of one delivery run at once when a task waits in the queue for    *)
(* longer than its lease, or when the broker delivers it again.            *)
(***************************************************************************)
EXTENDS Integers, FiniteSets, TLC, TLAPS

CONSTANTS Consumers,    \* the consumers registered for the event's type
          Workers,      \* processes that run deliver_event
          MaxAttempts,  \* MAX_ATTEMPTS (8 in the code)
          MaxTasks,     \* bound: tasks of one delivery that wait in the queue
          MaxFaults,    \* bound: lost tasks and dead workers
          MaxRetries    \* bound: times the operator retries the event

ASSUME OutboxAssumption ==
    MaxAttempts \in Nat \ {0} /\ MaxTasks \in Nat /\ MaxFaults \in Nat /\ MaxRetries \in Nat

VARIABLES event,      \* the event's status
          delivery,   \* the row of each consumer's delivery
          processed,  \* the consumers with a ProcessedEvent row
          effects,    \* how often the effects of each consumer's handler were committed
          queue,      \* how many tasks of each delivery wait in the broker
          worker,     \* what each worker is doing
          faults, retries

outboxVars == <<event, delivery, processed, effects, queue, worker, faults, retries>>

\* Workers and consumers are interchangeable.
Symmetry == Permutations(Workers) \cup Permutations(Consumers)

OutboxStatus == {"pending", "dispatched", "done", "failed"}

\* next: next_attempt_at is in the past ("now"), in the future ("later"), or null ("never").
Row == [status : {"none", "pending", "done", "failed"}, attempts : Nat,
        next : {"now", "later", "never"}]
NoRow == [status |-> "none", attempts |-> 0, next |-> "never"]

\* seen, row: the event's status and the delivery as the worker's session loaded them;
\* new: the delivery as the session changed it; settles: it will mark the event done.
Task(step, c, seen, row, new, settles) ==
    [step |-> step, consumer |-> c, seen |-> seen, row |-> row, new |-> new,
     settles |-> settles]
Resting == Task("idle", "none", "none", NoRow, NoRow, FALSE)

-----------------------------------------------------------------------------
(* The queue and the rows *)

\* The commit comes first, the tasks are sent after it: a dead process sends some only.
Dispatch(cs) ==
    \E sent \in SUBSET cs :
        /\ sent # cs => faults < MaxFaults
        /\ \A c \in cs : queue[c] < MaxTasks
        /\ queue' = [c \in Consumers |-> IF c \in sent THEN queue[c] + 1 ELSE queue[c]]
        /\ faults' = IF sent = cs THEN faults ELSE faults + 1

Locked(c) == \E w \in Workers : worker[w].step = "written" /\ worker[w].consumer = c

\* The session writes the columns it changed, over whatever the row holds by then; a later
\* time is a new time.
Written(row, new, now) ==
    [f \in DOMAIN now |-> IF new[f] = row[f] /\ (f = "next" => new[f] # "later")
                          THEN now[f] ELSE new[f]]

Idle(w) == worker' = [worker EXCEPT ![w] = Resting]

-----------------------------------------------------------------------------
\* `relay_pending`: the deliveries are made leased, one per consumer.
Relay ==
    /\ event = "pending"
    /\ event' = IF Consumers = {} THEN "done" ELSE "dispatched"
    /\ delivery' = [c \in Consumers |-> [status |-> "pending", attempts |-> 0, next |-> "later"]]
    /\ Dispatch(Consumers)
    /\ UNCHANGED <<processed, effects, worker, retries>>

LeaseEnds(c) ==
    /\ delivery[c].next = "later"
    /\ delivery' = [delivery EXCEPT ![c].next = "now"]
    /\ UNCHANGED <<event, processed, effects, queue, worker, faults, retries>>

\* `claim_due_deliveries`: SKIP LOCKED; the lease is renewed as the task is sent again.
Claimable(c) == delivery[c].status = "pending" /\ delivery[c].next = "now" /\ ~Locked(c)

Claim ==
    LET due == {c \in Consumers : Claimable(c)}
    IN  /\ due # {}
        /\ delivery' = [c \in Consumers |->
                           IF c \in due THEN [delivery[c] EXCEPT !.next = "later"]
                                        ELSE delivery[c]]
        /\ Dispatch(due)
        /\ UNCHANGED <<event, processed, effects, worker, retries>>

\* `retry_failed`, the operator's button; it takes an event in any status.
RetryFailed ==
    /\ retries < MaxRetries /\ retries' = retries + 1
    /\ \A c \in Consumers : delivery[c].status = "failed" => ~Locked(c)
    /\ delivery' = [c \in Consumers |->
                       IF delivery[c].status = "failed"
                       THEN [status |-> "pending", attempts |-> 0, next |-> "now"]
                       ELSE delivery[c]]
    /\ event' = "dispatched"
    /\ UNCHANGED <<processed, effects, queue, worker, faults>>

-----------------------------------------------------------------------------
(* `deliver` *)

\* The task is taken; a processed event is a duplicate and the task ends.
Begin(w, c) ==
    /\ worker[w].step = "idle" /\ queue[c] > 0
    /\ queue' = [queue EXCEPT ![c] = @ - 1]
    /\ IF c \in processed
       THEN UNCHANGED worker
       ELSE worker' = [worker EXCEPT ![w] = Task("running", c, event, NoRow, NoRow, FALSE)]
    /\ UNCHANGED <<event, delivery, processed, effects, faults, retries>>

\* The handler returned: the delivery is read, to be closed.
HandlerReturns(w) ==
    LET c == worker[w].consumer
    IN  /\ worker[w].step = "running"
        /\ worker' = [worker EXCEPT ![w] =
                         Task("succeeded", c, @.seen, delivery[c],
                              [delivery[c] EXCEPT !.status = "done", !.attempts = @ + 1],
                              FALSE)]
        /\ UNCHANGED <<event, delivery, processed, effects, queue, faults, retries>>

\* The handler raised: its work is rolled back; the event and the delivery are read again.
AfterFailure_CountLost(row) == [row EXCEPT !.attempts = 1, !.next = "later"]      \* mutant
AfterFailure(row) ==
    IF row.attempts + 1 >= MaxAttempts
    THEN [status |-> "failed", attempts |-> row.attempts + 1, next |-> "never"]
    ELSE [row EXCEPT !.attempts = @ + 1, !.next = "later"]

HandlerRaises(w) ==
    LET c == worker[w].consumer
    IN  /\ worker[w].step = "running"
        /\ worker' = [worker EXCEPT ![w] =
                         Task("raised", c, event, delivery[c], AfterFailure(delivery[c]), FALSE)]
        /\ UNCHANGED <<event, delivery, processed, effects, queue, faults, retries>>

\* The attempt is recorded and committed; the dead letters mark the event too.
RecordFailure(w) ==
    LET c == worker[w].consumer
    IN  /\ worker[w].step = "raised" /\ ~Locked(c)
        /\ delivery' = [delivery EXCEPT ![c] = Written(worker[w].row, worker[w].new, @)]
        /\ event' = IF worker[w].row.attempts + 1 >= MaxAttempts /\ worker[w].seen # "failed"
                    THEN "failed" ELSE event
        /\ Idle(w)
        /\ UNCHANGED <<processed, effects, queue, faults, retries>>

\* ProcessedEvent's key is unique: another worker's row makes this one roll everything back.
Taken_Never(c) == FALSE                  \* mutant
Taken(c) == c \in processed

\* `_settle_event` counts the deliveries it can see that are not done.
OthersDone_NotPending(c) == \A d \in Consumers \ {c} : delivery[d].status # "pending"    \* mutant
OthersDone(c) == \A d \in Consumers \ {c} : delivery[d].status = "done"

\* `flush`, then `_settle_event`.
Flush(w) ==
    LET c == worker[w].consumer
    IN  /\ worker[w].step = "succeeded" /\ ~Locked(c)
        /\ IF Taken(c)
           THEN Idle(w)
           ELSE worker' = [worker EXCEPT ![w].step = "written",
                                         ![w].settles =
                                            OthersDone(c) /\ worker[w].seen # "failed"]
        /\ UNCHANGED <<event, delivery, processed, effects, queue, faults, retries>>

Commit(w) ==
    LET c == worker[w].consumer
    IN  /\ worker[w].step = "written"
        /\ delivery' = [delivery EXCEPT ![c] = Written(worker[w].row, worker[w].new, @)]
        /\ processed' = processed \cup {c}
        /\ effects' = [effects EXCEPT ![c] = @ + 1]
        /\ event' = IF worker[w].settles /\ worker[w].seen # "done" THEN "done" ELSE event
        /\ Idle(w)
        /\ UNCHANGED <<queue, faults, retries>>

\* The worker dies or its transaction fails; the broker may deliver the task again.
Crash(w) ==
    LET c == worker[w].consumer
    IN  /\ worker[w].step # "idle"
        /\ faults < MaxFaults /\ faults' = faults + 1
        /\ Idle(w)
        /\ \E again \in {0, 1} :
              /\ queue[c] + again <= MaxTasks
              /\ queue' = [queue EXCEPT ![c] = @ + again]
        /\ UNCHANGED <<event, delivery, processed, effects, retries>>

-----------------------------------------------------------------------------
OutboxInit ==
    /\ event = "pending"
    /\ delivery = [c \in Consumers |-> NoRow]
    /\ processed = {}
    /\ effects = [c \in Consumers |-> 0]
    /\ queue = [c \in Consumers |-> 0]
    /\ worker = [w \in Workers |-> Resting]
    /\ faults = 0
    /\ retries = 0

Work(w) == HandlerReturns(w) \/ HandlerRaises(w) \/ RecordFailure(w) \/ Flush(w) \/ Commit(w)

OutboxNext ==
    \/ Relay \/ Claim \/ RetryFailed
    \/ \E c \in Consumers : LeaseEnds(c) \/ \E w \in Workers : Begin(w, c)
    \/ \E w \in Workers : Work(w) \/ Crash(w)

OutboxSpec == OutboxInit /\ [][OutboxNext]_outboxVars

\* The beat relays every 5 s and claims every 30 s; a queued task is taken in its turn (the
\* queue is first in, first out) and a worker's task ends: task_time_limit.
OutboxFair ==
    /\ WF_outboxVars(Relay) /\ WF_outboxVars(Claim)
    /\ \A c \in Consumers : /\ WF_outboxVars(LeaseEnds(c))
                            /\ SF_outboxVars(\E w \in Workers : Begin(w, c))
    /\ \A w \in Workers : WF_outboxVars(Work(w))

-----------------------------------------------------------------------------

\* `deliver` runs one consumer for one event "exactly once": however many tasks run at once,
\* die or come twice, the handler's effects are committed at most once, together with the row
\* that says so.
HandledOnce == \A c \in Consumers : effects[c] = IF c \in processed THEN 1 ELSE 0

\* An event the panel shows as done was handled by every consumer, whatever worker saw which
\* rows when it settled the event, failed late or retried.
DoneEventIsHandled == event = "done" => processed = Consumers

\* Every consumer handles the event, or its delivery reaches the dead letters, in spite of lost
\* tasks and dead workers, unless the operator steps in before.
EventReachesConsumers ==
    \A c \in Consumers : <>(c \in processed \/ delivery[c].status = "failed" \/ retries > 0)

-----------------------------------------------------------------------------
(* Proof of HandledOnce and DoneEventIsHandled, for every set of consumers and workers and any  *)
(* number of attempts, waiting tasks, faults and retries.                                       *)

\* What a worker holds.
Tasks ==
    [step : {"idle", "running", "succeeded", "raised", "written"},
     consumer : Consumers \cup {"none"}, seen : OutboxStatus \cup {"none"},
     row : Row, new : Row, settles : BOOLEAN]

Busy(t) == t.step # "idle" => t.consumer \in Consumers

Shapes ==
    /\ event \in OutboxStatus
    /\ delivery \in [Consumers -> Row]
    /\ processed \subseteq Consumers
    /\ effects \in [Consumers -> Nat]
    /\ worker \in [Workers -> Tasks]
    /\ \A w \in Workers : Busy(worker[w])

\* The row lock: one worker at most has written a delivery it has not committed, and nobody has
\* committed that delivery's event before.
OneWriter ==
    \A w \in Workers : worker[w].step = "written" =>
        /\ worker[w].consumer \notin processed
        /\ \A v \in Workers : worker[v].step = "written" /\ worker[v].consumer = worker[w].consumer
                                  => v = w

\* A delivery shows "done" only once its handler's effects are committed, and a failing worker
\* never turns one to "done".
DoneIsProcessed ==
    /\ \A c \in Consumers : delivery[c].status = "done" => c \in processed
    /\ \A w \in Workers : worker[w].step = "raised" =>
          worker[w].new.status \in {"failed", worker[w].row.status}

\* A worker that will mark the event done has seen every other consumer's delivery done.
SettlesLast ==
    \A w \in Workers : worker[w].step = "written" /\ worker[w].settles =>
        Consumers \ {worker[w].consumer} \subseteq processed

IInv == /\ Shapes /\ OneWriter /\ HandledOnce
        /\ DoneIsProcessed /\ SettlesLast /\ DoneEventIsHandled

-----------------------------------------------------------------------------
\* The row a worker writes is a row, and its status is the old one or the worker's.
LEMMA WrittenRow ==
    ASSUME NEW row \in Row, NEW new \in Row, NEW now \in Row
    PROVE  /\ Written(row, new, now) \in Row
           /\ Written(row, new, now).status \in {now.status, new.status}
           /\ new.status = row.status => Written(row, new, now).status = now.status
<1> DEFINE keep(f) == new[f] = row[f] /\ (f = "next" => new[f] # "later")
<1>1. DOMAIN now = {"status", "attempts", "next"}
  BY DEF Row
<1>2. Written(row, new, now) =
        [f \in {"status", "attempts", "next"} |-> IF keep(f) THEN now[f] ELSE new[f]]
  BY <1>1 DEF Written
<1>3. Written(row, new, now) =
        [status |-> IF keep("status") THEN now.status ELSE new.status,
         attempts |-> IF keep("attempts") THEN now.attempts ELSE new.attempts,
         next |-> IF keep("next") THEN now.next ELSE new.next]
  BY <1>2
<1>4. /\ row.status \in {"none", "pending", "done", "failed"}
      /\ new.status \in {"none", "pending", "done", "failed"}
      /\ now.status \in {"none", "pending", "done", "failed"}
      /\ new.attempts \in Nat /\ now.attempts \in Nat
      /\ new.next \in {"now", "later", "never"} /\ now.next \in {"now", "later", "never"}
  BY DEF Row
<1>5. Written(row, new, now) \in Row
  <2> HIDE DEF keep
  <2> QED
    BY <1>3, <1>4 DEF Row
<1> QED
  BY <1>3, <1>5

LEMMA AfterFailureRow ==
    ASSUME NEW row \in Row
    PROVE  /\ AfterFailure(row) \in Row
           /\ AfterFailure(row).status \in {"failed", row.status}
<1>1. /\ row.status \in {"none", "pending", "done", "failed"}
      /\ row.attempts + 1 \in Nat
      /\ DOMAIN row = {"status", "attempts", "next"}
  BY DEF Row
<1> DEFINE last == row.attempts + 1 >= MaxAttempts
           dead == [status |-> "failed", attempts |-> row.attempts + 1, next |-> "never"]
           more == [row EXCEPT !.attempts = @ + 1, !.next = "later"]
<1>2. dead \in Row /\ dead.status = "failed"
  BY <1>1 DEF Row
<1>3. more \in Row /\ more.status = row.status
  BY <1>1 DEF Row
<1>4. AfterFailure(row) = IF last THEN dead ELSE more
  BY DEF AfterFailure
<1> HIDE DEF last, dead, more
<1> QED
  BY <1>2, <1>3, <1>4

LEMMA DoneRow ==
    ASSUME NEW row \in Row
    PROVE  [row EXCEPT !.status = "done", !.attempts = @ + 1] \in Row
<1>1. row.attempts + 1 \in Nat
  BY DEF Row
<1> QED
  BY <1>1 DEF Row

\* Nothing has happened yet.
LEMMA Initially == OutboxInit => IInv
BY DEF OutboxInit, IInv, Shapes, OneWriter, HandledOnce, DoneIsProcessed, SettlesLast,
       DoneEventIsHandled, Resting, Task, NoRow, Row, Tasks, Busy, OutboxStatus

\* An action that touches no worker's transaction, takes nobody's processed row back and turns
\* no delivery to "done" keeps the invariant.
LEMMA RowsOnly ==
    ASSUME IInv, delivery' \in [Consumers -> Row], event' \in OutboxStatus,
           \A c \in Consumers : delivery'[c].status = "done" => delivery[c].status = "done",
           event' = "done" => processed = Consumers,
           UNCHANGED <<processed, effects, worker>>
    PROVE  IInv'
BY DEF IInv, Shapes, OneWriter, HandledOnce, DoneIsProcessed, SettlesLast, DoneEventIsHandled, Busy

\* A worker that takes up, goes on with or drops a transaction without writing keeps it.
LEMMA WorkerOnly ==
    ASSUME IInv, NEW w \in Workers, NEW t \in Tasks, Busy(t), t.step # "written",
           t.step = "raised" => t.new.status \in {"failed", t.row.status},
           worker' = [worker EXCEPT ![w] = t],
           UNCHANGED <<event, delivery, processed, effects>>
    PROVE  IInv'
<1> USE DEF IInv
<1>1. worker' \in [Workers -> Tasks] /\ \A v \in Workers : Busy(worker'[v])
  BY DEF Shapes, Busy
<1>2. Shapes'
  BY <1>1 DEF Shapes, Busy
<1>3. \A v \in Workers : worker'[v] = IF v = w THEN t ELSE worker[v]
  BY DEF Shapes
<1>4. OneWriter'
  BY <1>3 DEF OneWriter
<1>5. DoneIsProcessed'
  BY <1>3 DEF DoneIsProcessed
<1>6. SettlesLast'
  BY <1>3 DEF SettlesLast
<1> QED
  BY <1>2, <1>4, <1>5, <1>6 DEF HandledOnce, DoneEventIsHandled

LEMMA IdleTask == Resting \in Tasks /\ Busy(Resting) /\ Resting.step = "idle"
BY DEF Resting, Task, Tasks, Busy, NoRow, Row

-----------------------------------------------------------------------------
\* The step lemma: one step per action of the next-state relation.
LEMMA Step == IInv /\ [OutboxNext]_outboxVars => IInv'
<1> SUFFICES ASSUME IInv, [OutboxNext]_outboxVars PROVE IInv'
  OBVIOUS
<1>s. Shapes
  BY DEF IInv
<1>1. CASE Relay
  <2> DEFINE fresh == [status |-> "pending", attempts |-> 0, next |-> "later"]
  <2>1. fresh \in Row
    BY DEF Row
  <2>2. delivery' = [c \in Consumers |-> fresh]
    BY <1>1 DEF Relay
  <2>3. \A c \in Consumers : delivery'[c].status # "done"
    BY <2>2
  <2>4. event' \in OutboxStatus /\ (event' = "done" => processed = Consumers)
    BY <1>1, <1>s DEF Relay, OutboxStatus, Shapes
  <2> HIDE DEF fresh
  <2> QED
    BY <1>1, <2>1, <2>2, <2>3, <2>4, RowsOnly DEF Relay
<1>2. CASE Claim
  <2>1. \A c \in Consumers : delivery[c] \in Row /\ [delivery[c] EXCEPT !.next = "later"] \in Row
                             /\ [delivery[c] EXCEPT !.next = "later"].status = delivery[c].status
    BY <1>s DEF Shapes, Row
  <2>2. \A c \in Consumers : delivery'[c] \in {delivery[c], [delivery[c] EXCEPT !.next = "later"]}
    BY <1>2 DEF Claim
  <2>3. delivery' \in [Consumers -> Row]
    BY <1>2, <2>1 DEF Claim
  <2>4. \A c \in Consumers : delivery'[c].status = delivery[c].status
    BY <2>1, <2>2
  <2> QED
    BY <1>2, <1>s, <2>3, <2>4, RowsOnly DEF Claim, IInv, Shapes, DoneEventIsHandled
<1>3. CASE RetryFailed
  <2> DEFINE again == [status |-> "pending", attempts |-> 0, next |-> "now"]
  <2>1. again \in Row /\ again.status # "done"
    BY DEF Row
  <2> HIDE DEF again
  <2>2. delivery' = [c \in Consumers |-> IF delivery[c].status = "failed" THEN again
                                                                      ELSE delivery[c]]
    BY <1>3 DEF RetryFailed, again
  <2>3. delivery' \in [Consumers -> Row]
    BY <2>1, <2>2, <1>s DEF Shapes
  <2>4. \A c \in Consumers : delivery'[c].status = "done" => delivery[c].status = "done"
    BY <2>1, <2>2
  <2>5. event' \in OutboxStatus /\ event' # "done"
    BY <1>3 DEF RetryFailed, OutboxStatus
  <2> QED
    BY <1>3, <2>3, <2>4, <2>5, RowsOnly DEF RetryFailed
<1>4. ASSUME NEW c \in Consumers, LeaseEnds(c) PROVE IInv'
  <2>1. delivery[c] \in Row /\ [delivery[c] EXCEPT !.next = "now"] \in Row
        /\ [delivery[c] EXCEPT !.next = "now"].status = delivery[c].status
    BY <1>s DEF Shapes, Row
  <2>2. delivery' = [delivery EXCEPT ![c] = [delivery[c] EXCEPT !.next = "now"]]
    BY <1>4 DEF LeaseEnds
  <2>3. delivery' \in [Consumers -> Row]
        /\ \A d \in Consumers : delivery'[d].status = delivery[d].status
    BY <2>1, <2>2, <1>s DEF Shapes
  <2> QED
    BY <1>4, <1>s, <2>3, RowsOnly DEF LeaseEnds, IInv, Shapes, DoneEventIsHandled
<1>5. ASSUME NEW w \in Workers, NEW c \in Consumers, Begin(w, c) PROVE IInv'
  <2> DEFINE t == Task("running", c, event, NoRow, NoRow, FALSE)
  <2>1. t \in Tasks /\ Busy(t) /\ t.step = "running"
    BY <1>s DEF Task, Tasks, Busy, NoRow, Row, Shapes
  <2>2. CASE worker' = [worker EXCEPT ![w] = t]
    <3> HIDE DEF t
    <3> QED
      BY <1>5, <2>1, <2>2, WorkerOnly DEF Begin
  <2>3. CASE UNCHANGED worker
    BY <1>5, <2>3, <1>s, RowsOnly DEF Begin, Shapes, IInv, DoneEventIsHandled
  <2> QED
    BY <1>5, <2>2, <2>3 DEF Begin
<1>6. ASSUME NEW w \in Workers, HandlerReturns(w) PROVE IInv'
  <2> DEFINE c == worker[w].consumer
             new == [delivery[c] EXCEPT !.status = "done", !.attempts = @ + 1]
             t == Task("succeeded", c, worker[w].seen, delivery[c], new, FALSE)
  <2>1. c \in Consumers /\ worker[w] \in Tasks
    BY <1>6, <1>s DEF HandlerReturns, Shapes, Busy
  <2>2. delivery[c] \in Row /\ new \in Row
    BY <2>1, <1>s, DoneRow DEF Shapes
  <2>3. t \in Tasks /\ Busy(t) /\ t.step = "succeeded"
    <3> HIDE DEF c, new
    <3> QED
      BY <2>1, <2>2 DEF Task, Tasks, Busy
  <2>4. worker' = [worker EXCEPT ![w] = t]
    BY <1>6, <1>s DEF HandlerReturns, Shapes
  <2> HIDE DEF t
  <2> QED
    BY <1>6, <2>3, <2>4, WorkerOnly DEF HandlerReturns
<1>7. ASSUME NEW w \in Workers, HandlerRaises(w) PROVE IInv'
  <2> DEFINE c == worker[w].consumer
             t == Task("raised", c, event, delivery[c], AfterFailure(delivery[c]), FALSE)
  <2>1. c \in Consumers
    BY <1>7, <1>s DEF HandlerRaises, Shapes, Busy
  <2>2. delivery[c] \in Row /\ AfterFailure(delivery[c]) \in Row
        /\ AfterFailure(delivery[c]).status \in {"failed", delivery[c].status}
    BY <2>1, <1>s, AfterFailureRow DEF Shapes
  <2>3. t \in Tasks /\ Busy(t) /\ t.step = "raised"
        /\ t.new.status \in {"failed", t.row.status}
    <3> HIDE DEF c
    <3> QED
      BY <2>1, <2>2, <1>s DEF Task, Tasks, Busy, Shapes
  <2>4. worker' = [worker EXCEPT ![w] = t]
    BY <1>7 DEF HandlerRaises
  <2> HIDE DEF t
  <2> QED
    BY <1>7, <2>3, <2>4, WorkerOnly DEF HandlerRaises
<1>8. ASSUME NEW w \in Workers, RecordFailure(w) PROVE IInv'
  <2> DEFINE c == worker[w].consumer
             row == Written(worker[w].row, worker[w].new, delivery[c])
  <2>1. c \in Consumers /\ worker[w].row \in Row /\ worker[w].new \in Row /\ delivery[c] \in Row
    BY <1>8, <1>s DEF RecordFailure, Shapes, Busy, Tasks
  <2>2. worker[w].new.status \in {"failed", worker[w].row.status}
    BY <1>8 DEF RecordFailure, IInv, DoneIsProcessed
  <2>3. row \in Row /\ (row.status = "done" => delivery[c].status = "done")
    BY <2>1, <2>2, WrittenRow
  <2>4. delivery' = [delivery EXCEPT ![c] = row]
    BY <1>8 DEF RecordFailure
  <2>5. delivery' \in [Consumers -> Row]
        /\ \A d \in Consumers : delivery'[d].status = "done" => delivery[d].status = "done"
    <3> HIDE DEF row, c
    <3> QED
      BY <2>1, <2>3, <2>4, <1>s DEF Shapes
  <2>6. event' \in OutboxStatus /\ (event' = "done" => event = "done")
    BY <1>8, <1>s DEF RecordFailure, Shapes, OutboxStatus
  <2>7. worker' = [worker EXCEPT ![w] = Resting] /\ UNCHANGED <<processed, effects>>
    BY <1>8 DEF RecordFailure, Idle
  <2>8. worker' \in [Workers -> Tasks]
        /\ \A v \in Workers : worker'[v] = IF v = w THEN Resting ELSE worker[v]
    BY <2>7, <1>s, IdleTask DEF Shapes
  <2>9. Shapes'
    BY <2>5, <2>6, <2>7, <2>8, <1>s, IdleTask DEF Shapes, Busy
  <2>10. OneWriter' /\ SettlesLast'
    BY <2>7, <2>8, IdleTask DEF IInv, OneWriter, SettlesLast
  <2>11. DoneIsProcessed'
    BY <2>5, <2>7, <2>8, IdleTask DEF IInv, DoneIsProcessed
  <2> QED
    BY <2>6, <2>7, <2>9, <2>10, <2>11 DEF IInv, HandledOnce, DoneEventIsHandled
<1>9. ASSUME NEW w \in Workers, Flush(w) PROVE IInv'
  <2> DEFINE c == worker[w].consumer
  <2>1. CASE Taken(c)
    BY <1>9, <2>1, IdleTask, WorkerOnly DEF Flush, Idle
  <2>2. CASE ~Taken(c)
    <3> DEFINE last == OthersDone(c) /\ worker[w].seen # "failed"
               t == [worker[w] EXCEPT !.step = "written", !.settles = last]
    <3>1. c \in Consumers /\ worker[w] \in Tasks /\ c \notin processed
      BY <1>9, <2>2, <1>s DEF Flush, Shapes, Busy, Taken
    <3>2. worker' = [worker EXCEPT ![w] = t] /\ UNCHANGED <<event, delivery, processed, effects>>
      BY <1>9, <2>2, <1>s DEF Flush, Shapes
    <3>3. last \in BOOLEAN
      BY DEF OthersDone
    <3>4. last => Consumers \ {c} \subseteq processed
      BY DEF OthersDone, IInv, DoneIsProcessed
    <3> HIDE DEF last
    <3>5. t \in Tasks /\ t.step = "written" /\ t.consumer = c /\ t.settles = last
      BY <3>1, <3>3 DEF Tasks
    <3> HIDE DEF t
    <3>6. \A v \in Workers : worker'[v] = IF v = w THEN t ELSE worker[v]
      BY <3>2, <1>s DEF Shapes
    <3>7. Shapes'
      BY <3>1, <3>2, <3>5, <3>6, <1>s DEF Shapes, Busy
    <3>8. OneWriter'
      <4>1. \A v \in Workers : ~(worker[v].step = "written" /\ worker[v].consumer = c)
        BY <1>9 DEF Flush, Locked
      <4> HIDE DEF c
      <4> QED
        BY <3>1, <3>2, <3>5, <3>6, <4>1 DEF IInv, OneWriter
    <3>9. SettlesLast'
      <4> HIDE DEF c
      <4> QED
        BY <3>2, <3>4, <3>5, <3>6 DEF IInv, SettlesLast
    <3>10. DoneIsProcessed'
      BY <3>2, <3>5, <3>6 DEF IInv, DoneIsProcessed
    <3> QED
      BY <3>2, <3>7, <3>8, <3>9, <3>10 DEF IInv, HandledOnce, DoneEventIsHandled
  <2> QED
    BY <2>1, <2>2
<1>10. ASSUME NEW w \in Workers, Commit(w) PROVE IInv'
  <2> DEFINE c == worker[w].consumer
             row == Written(worker[w].row, worker[w].new, delivery[c])
  <2>1. c \in Consumers /\ worker[w].row \in Row /\ worker[w].new \in Row /\ delivery[c] \in Row
    BY <1>10, <1>s DEF Commit, Shapes, Busy, Tasks
  <2>2. row \in Row
    BY <2>1, WrittenRow
  <2>3. /\ delivery' = [delivery EXCEPT ![c] = row]
        /\ processed' = processed \cup {c}
        /\ effects' = [effects EXCEPT ![c] = @ + 1]
        /\ worker' = [worker EXCEPT ![w] = Resting]
    BY <1>10 DEF Commit, Idle
  <2>4. /\ worker[w].step = "written" /\ c \notin processed
        /\ \A v \in Workers \ {w} : ~(worker[v].step = "written" /\ worker[v].consumer = c)
    BY <1>10 DEF Commit, IInv, OneWriter
  <2>5. event' \in OutboxStatus
        /\ (event' = "done" => event = "done" \/ Consumers \ {c} \subseteq processed)
    BY <1>10, <1>s DEF Commit, IInv, SettlesLast, Shapes, OutboxStatus
  <2> HIDE DEF row, c
  <2>6. worker' \in [Workers -> Tasks]
        /\ \A v \in Workers : worker'[v] = IF v = w THEN Resting ELSE worker[v]
    BY <2>3, <1>s, IdleTask DEF Shapes
  <2>7. Shapes'
    BY <2>1, <2>2, <2>3, <2>5, <2>6, <1>s, IdleTask DEF Shapes, Busy
  <2>8. OneWriter' /\ SettlesLast'
    BY <2>3, <2>4, <2>6, IdleTask DEF IInv, OneWriter, SettlesLast
  <2>9. DoneIsProcessed'
    BY <2>1, <2>3, <2>6, <1>s, IdleTask DEF IInv, DoneIsProcessed, Shapes
  <2>10. HandledOnce'
    BY <2>1, <2>3, <2>4, <1>s DEF IInv, HandledOnce, Shapes
  <2>11. DoneEventIsHandled'
    BY <2>1, <2>3, <2>5, <1>s DEF IInv, DoneEventIsHandled, Shapes
  <2> QED
    BY <2>7, <2>8, <2>9, <2>10, <2>11 DEF IInv
<1>11. ASSUME NEW w \in Workers, Crash(w) PROVE IInv'
  BY <1>11, IdleTask, WorkerOnly DEF Crash, Idle
<1>12. CASE UNCHANGED outboxVars
  BY <1>12, <1>s, RowsOnly DEF outboxVars, IInv, Shapes, DoneEventIsHandled
<1> QED
  BY <1>1, <1>2, <1>3, <1>4, <1>5, <1>6, <1>7, <1>8, <1>9, <1>10, <1>11, <1>12
     DEF OutboxNext, Work

LEMMA Invariant == OutboxSpec => []IInv
BY Initially, Step, PTL DEF OutboxSpec

\* Exactly once: for any number of workers, duplicated tasks, crashes and retries, the effects
\* of each consumer's handler are committed once, with the row that says so.
THEOREM HandledExactlyOnce == OutboxSpec => []HandledOnce
<1>1. IInv => HandledOnce
  BY DEF IInv
<1> QED
  BY <1>1, Invariant, PTL

\* An event the panel shows as done was handled by every consumer, although each worker settles
\* it from what it loaded earlier and from the deliveries it can see.
THEOREM DoneMeansHandled == OutboxSpec => []DoneEventIsHandled
<1>1. IInv => DoneEventIsHandled
  BY DEF IInv
<1> QED
  BY <1>1, Invariant, PTL
=============================================================================
