----------------------------- MODULE WorkersProofs -----------------------------
(***************************************************************************)
(* Proofs about Courier and Shipment: no courier gets out of the store's   *)
(* hands, whatever the number of rows, workers, prices, errors and deaths; *)
(* and no label is paid twice, whatever is refused, lost or repeated.      *)
(*                                                                         *)
(* An action of Courier touches one row, the courier of its key and one    *)
(* worker.  So the invariant is said of one row (RowInv), each action is   *)
(* first put as what it does field by field (its `Does`), and the rows it  *)
(* does not touch keep their invariant by one lemma (StillHolds).          *)
(***************************************************************************)
EXTENDS MCWorkers, TLAPS

-----------------------------------------------------------------------------
(* Types *)

RowStatus == OPEN \cup CLOSED \cup {"none"}
Nexts == {"never", "later", "now"}
RowRecords == [status : RowStatus, next : Nexts, attempts : Nat, quote : Nat,
               id : {"none", "del"}, cap : Nat, quoted : Nat]
UberRecords == [state : {"none"} \cup Deliveries, quote : Nat, fee : Nat]
Answers == Deliveries \cup {"none", "error", "refused", "over", "nothing"}
Tasks == {"none", "dispatch", "track", "cancel"}
Places == {"none", "find", "quote", "remember", "create", "ask", "record"}
Callers == [row : 0..MaxRows, claim : Nat, task : Tasks, at : Places,
            quote : Nat, id : {"none", "del"}, cap : Nat, fee : Nat, answer : Answers]

RowOK == row \in [Rows -> RowRecords]
UberOK == uber \in [Rows -> UberRecords]
CallerOK == caller \in [Workers -> Callers]
\* A worker is at one of the steps of its task, on a row.
StepsOK ==
    \A w \in Workers :
        /\ caller[w].task \in Tasks
        /\ caller[w].task = "dispatch" =>
                caller[w].at \in {"find", "quote", "remember", "create", "record"}
        /\ caller[w].task \in {"track", "cancel"} => caller[w].at \in {"ask", "record"}
        /\ caller[w].task = "none" <=> caller[w].at = "none"
        /\ caller[w].task = "none" <=> caller[w].row = 0
TypeOK == RowOK /\ UberOK /\ CallerOK /\ StepsOK /\ missed \subseteq Rows /\ faults \in Nat

-----------------------------------------------------------------------------
(* The invariant of a row *)

On(w, r, task) == caller[w].task = task /\ caller[w].row = r
Calls(w, r) == On(w, r, "dispatch")
Claims(w, r) == Calls(w, r) \/ On(w, r, "cancel")

\* Who dispatches or cancels has a claim of its own; who claimed last for a cancel finds it so.
ClaimsAt(r) ==
    /\ \A w \in Workers : Claims(w, r) => caller[w].claim <= row[r].attempts /\ caller[w].claim > 0
    /\ \A w, x \in Workers : Claims(w, r) /\ Claims(x, r) /\ caller[w].claim = caller[x].claim => w = x
    /\ \A w \in Workers : On(w, r, "cancel") /\ caller[w].claim = row[r].attempts =>
          row[r].status = "cancelling" /\ caller[w].quote = row[r].quote

\* The ceiling only goes up, so what a worker was told of it holds.
FeesAt(r) ==
    /\ \A w \in Workers : Calls(w, r) =>
          /\ caller[w].cap <= row[r].cap
          /\ row[r].status = "creating" /\ row[r].attempts = caller[w].claim =>
                caller[w].cap = row[r].cap
          /\ caller[w].at \in {"remember", "create"} => caller[w].fee <= caller[w].cap
          /\ caller[w].at = "record" /\ caller[w].answer = "over" => caller[w].fee > caller[w].cap
    /\ row[r].status = "awaiting_confirmation" => row[r].quoted >= row[r].cap
    /\ uber[r].state # "none" => uber[r].fee <= row[r].cap

Ended == {"delivered", "canceled", "returned"}

\* What the row and the workers were told of the courier is so, and an end is for ever.
TruthsAt(r) ==
    /\ row[r].status \in {"none", "requested", "creating", "awaiting_confirmation"} =>
          row[r].id = "none"
    /\ row[r].id = "del" => uber[r].state # "none"
    /\ \A w \in Workers : caller[w].row = r /\ caller[w].at = "record" =>
          /\ caller[w].answer \in Deliveries => uber[r].state # "none"
          /\ caller[w].answer \in Ended => uber[r].state = caller[w].answer
          /\ caller[w].task = "cancel" =>
                caller[w].answer \notin {"pending", "picked", "delivered", "returned", "over"}

\* A cancel that is about to close the row over nothing is right, or the row is marked.
NothingAt(r) ==
    \A w \in Workers :
        On(w, r, "cancel") /\ caller[w].at = "record" /\ caller[w].answer = "nothing"
          /\ caller[w].claim = row[r].attempts =>
            \/ r \in missed
            \/ /\ row[r].id = "none" /\ \A x \in Workers : ~Calls(x, r)
               /\ faults = 0 => uber[r].state = "none"

\* Without an error one call at a time has the row, and it knows the courier it made.
UndisturbedAt(r) ==
    faults = 0 =>
    /\ \A w, x \in Workers : Calls(w, r) /\ Calls(x, r) => w = x
    /\ \A w \in Workers : Calls(w, r) =>
          /\ row[r].status \notin {"none", "requested", "awaiting_confirmation"}
          /\ row[r].status = "creating" => row[r].attempts = caller[w].claim /\ row[r].next = "later"
          /\ caller[w].at = "create" => row[r].quote = caller[w].claim
          /\ row[r].status \in CLOSED => r \in missed \/ uber[r].state # "none"
    /\ uber[r].state # "none" =>
          /\ row[r].status \notin {"none", "requested", "awaiting_confirmation"}
          /\ row[r].quote = uber[r].quote
          /\ row[r].status = "creating" =>
                InCall(r) /\ \A w \in Workers : Calls(w, r) =>
                    caller[w].at = "record" /\ caller[w].answer \in Deliveries

HandAt(r) ==
    r \notin missed /\ uber[r].state \in Live =>
       /\ row[r].id = "del" => row[r].status \in OPEN
       /\ faults = 0 => row[r].status \in OPEN

RowInv(r) == ClaimsAt(r) /\ FeesAt(r) /\ TruthsAt(r) /\ NothingAt(r) /\ UndisturbedAt(r) /\ HandAt(r)
IInv == TypeOK /\ \A r \in Rows : RowInv(r)

-----------------------------------------------------------------------------
(* What a step leaves alone *)

Untouched(r) == row'[r] = row[r] /\ uber'[r] = uber[r] /\ (r \in missed' <=> r \in missed)
Still(r) ==
    /\ Untouched(r)
    /\ \A w \in Workers : caller'[w] = caller[w] \/ (caller[w].row # r /\ caller'[w].row # r)
    /\ faults' = 0 => faults = 0
OthersStill(r) == \A q \in Rows : q # r => Still(q)

\* A row that a step does not touch keeps its invariant.
LEMMA StillHolds ==
    ASSUME NEW r \in Rows, RowInv(r), Still(r)
    PROVE  RowInv(r)'
<1>1. ClaimsAt(r)' BY DEF RowInv, Still, Untouched, ClaimsAt, Claims, Calls, On
<1>2. FeesAt(r)' BY DEF RowInv, Still, Untouched, FeesAt, Calls, On
<1>3. TruthsAt(r)' BY DEF RowInv, Still, Untouched, TruthsAt
<1>4. NothingAt(r)' BY DEF RowInv, Still, Untouched, NothingAt, Calls, On
<1>5. UndisturbedAt(r)' BY DEF RowInv, Still, Untouched, UndisturbedAt, Calls, On, InCall
<1>6. HandAt(r)' BY DEF RowInv, Still, Untouched, HandAt
<1>. QED BY <1>1, <1>2, <1>3, <1>4, <1>5, <1>6 DEF RowInv

\* What the types say of a row and of the workers, for the steps below.
Numbers(r) ==
    /\ row[r].attempts \in Nat /\ row[r].cap \in Nat /\ row[r].quoted \in Nat /\ uber[r].fee \in Nat
    /\ faults \in Nat
    /\ \A w \in Workers : caller[w].claim \in Nat /\ caller[w].cap \in Nat /\ caller[w].fee \in Nat
Names(r) ==
    /\ uber[r].state \in {"none", "pending", "picked", "delivered", "canceled", "returned"}
    /\ row[r].status \in RowStatus /\ row[r].id \in {"none", "del"}

LEMMA TypedRow ==
    ASSUME TypeOK, NEW r \in Rows
    PROVE  Numbers(r) /\ Names(r)
<1>1. Numbers(r) BY DEF TypeOK, RowOK, UberOK, CallerOK, RowRecords, UberRecords, Callers, Numbers
<1>2. Names(r) BY DEF TypeOK, RowOK, UberOK, RowRecords, UberRecords, Names, Deliveries
<1>. QED BY <1>1, <1>2

\* The same after a step.
LEMMA TypedRowAfter ==
    ASSUME TypeOK', NEW r \in Rows
    PROVE  Numbers(r)' /\ Names(r)'
<1>1. Numbers(r)' BY DEF TypeOK, RowOK, UberOK, CallerOK, RowRecords, UberRecords, Callers, Numbers
<1>2. Names(r)' BY DEF TypeOK, RowOK, UberOK, RowRecords, UberRecords, Names, Deliveries
<1>. QED BY <1>1, <1>2

-----------------------------------------------------------------------------
(* Records stay what they are *)

LEMMA PutRow ==
    ASSUME RowOK, NEW r \in Rows, NEW q \in RowRecords, row' = [row EXCEPT ![r] = q]
    PROVE  RowOK'
BY DEF RowOK

LEMMA PutCaller ==
    ASSUME CallerOK, NEW w \in Workers, NEW k \in Callers, caller' = [caller EXCEPT ![w] = k]
    PROVE  CallerOK'
BY DEF CallerOK

LEMMA MovedRecord ==
    ASSUME NEW q \in RowRecords, NEW s \in RowStatus, NEW n \in Nexts
    PROVE  [q EXCEPT !.status = s, !.next = n] \in RowRecords /\ [q EXCEPT !.next = n] \in RowRecords
BY DEF RowRecords

LEMMA ClaimedRecord ==
    ASSUME NEW q \in RowRecords, NEW s \in RowStatus, NEW n \in Nexts, NEW a \in Nat
    PROVE  /\ [q EXCEPT !.attempts = a, !.next = n] \in RowRecords
           /\ [q EXCEPT !.status = s, !.attempts = a, !.next = n] \in RowRecords
BY DEF RowRecords

LEMMA AppliedRecord ==
    ASSUME NEW q \in RowRecords, NEW s
    PROVE  Applied(q, s) \in RowRecords
BY DEF RowRecords, Applied, RowStatus, OPEN, CLOSED, Nexts

LEMMA AnsweredCaller ==
    ASSUME CallerOK, NEW w \in Workers, NEW a \in Answers, Answer(w, a)
    PROVE  CallerOK'
<1>1. caller[w] \in Callers BY DEF CallerOK
<1>2. [caller[w] EXCEPT !.at = "record", !.answer = a] \in Callers BY <1>1 DEF Callers, Places
<1>. QED BY <1>2, PutCaller DEF Answer

LEMMA WentCaller ==
    ASSUME CallerOK, NEW w \in Workers, NEW at \in Places, Go(w, at)
    PROVE  CallerOK'
BY DEF CallerOK, Callers, Go

LEMMA FreedCaller ==
    ASSUME CallerOK, NEW w \in Workers, caller' = [caller EXCEPT ![w] = Free]
    PROVE  CallerOK'
BY CourierAssumption DEF CallerOK, Callers, Free, Answers, Tasks, Places

LEMMA FailsCaller ==
    ASSUME CallerOK, NEW w \in Workers, Fails(w)
    PROVE  CallerOK'
<1>1. PICK a \in {"error", "refused"} : Answer(w, a) BY DEF Fails
<1>. QED BY <1>1, AnsweredCaller DEF Answers

LEMMA TakesCaller ==
    ASSUME CallerOK, RowOK, RowOK', NEW w \in Workers, NEW r \in Rows, NEW t \in Tasks, NEW at \in Places,
           Takes(w, r, t, at)
    PROVE  CallerOK'
<1>1. row[r] \in RowRecords /\ row'[r] \in RowRecords BY DEF RowOK
<1>2. row'[r].attempts \in Nat /\ row[r].quote \in Nat /\ row[r].id \in {"none", "del"} /\ row[r].cap \in Nat
    BY <1>1 DEF RowRecords
<1>3. r \in 0..MaxRows BY CourierAssumption DEF Rows
<1>4. [Free EXCEPT !.row = r, !.claim = row'[r].attempts, !.task = t, !.at = at,
                   !.quote = row[r].quote, !.id = row[r].id, !.cap = row[r].cap] \in Callers
    BY <1>2, <1>3 DEF Free, Callers, Answers
<1>. QED BY <1>4, PutCaller DEF Takes

LEMMA QuoteCaller ==
    ASSUME CallerOK, NEW w \in Workers, Quote(w)
    PROVE  CallerOK'
<1>1. CASE Fails(w) BY <1>1, FailsCaller
<1>2. ASSUME NEW fee \in Fees,
             caller' = [caller EXCEPT ![w] = [@ EXCEPT !.fee = fee,
                !.at = IF TooDear(fee, caller[w].cap) THEN "record" ELSE "remember",
                !.answer = IF TooDear(fee, caller[w].cap) THEN "over" ELSE "none"]]
      PROVE  CallerOK'
  <2>1. fee \in Nat /\ caller[w] \in Callers BY CourierAssumption DEF CallerOK
  <2>2. [caller[w] EXCEPT !.fee = fee,
            !.at = IF TooDear(fee, caller[w].cap) THEN "record" ELSE "remember",
            !.answer = IF TooDear(fee, caller[w].cap) THEN "over" ELSE "none"] \in Callers
    BY <2>1 DEF Callers, Answers, Places
  <2>. QED BY <1>2, <2>2, PutCaller
<1>. QED BY <1>1, <1>2 DEF Quote

LEMMA CancelledRow ==
    ASSUME RowOK, NEW r \in Rows, Cancelled(r)
    PROVE  RowOK'
<1>. DEFINE q == IF ClosesHere(r) THEN [row[r] EXCEPT !.status = "cancelled", !.next = "never"]
                 ELSE IF row[r].status # "cancelling"
                 THEN [row[r] EXCEPT !.status = "cancelling", !.next = "now"]
                 ELSE row[r]
<1>1. row[r] \in RowRecords BY DEF RowOK
<1>2. q \in RowRecords BY <1>1, MovedRecord DEF RowStatus, OPEN, CLOSED, Nexts
<1>3. row' = [row EXCEPT ![r] = q] BY DEF Cancelled
<1>. QED BY <1>2, <1>3, PutRow

LEMMA StartDispatchRow ==
    ASSUME RowOK, NEW w, NEW r \in Rows, StartDispatch(w, r)
    PROVE  RowOK'
<1>1. row[r] \in RowRecords /\ row[r].attempts + 1 \in Nat BY DEF RowOK, RowRecords
<1>2. CASE order = "ready_for_pickup"
  <2>1. row' = [row EXCEPT ![r] = [row[r] EXCEPT !.status = "creating",
                                        !.attempts = row[r].attempts + 1, !.next = "later"]]
    BY <1>2 DEF StartDispatch, Later
  <2>. QED BY <2>1, <1>1, ClaimedRecord, PutRow DEF RowStatus, OPEN, Nexts
<1>3. CASE order # "ready_for_pickup"
    BY <1>3, <1>1, MovedRecord, PutRow DEF RowStatus, CLOSED, StartDispatch, Nexts
<1>. QED BY <1>2, <1>3

LEMMA StartCancelRow ==
    ASSUME RowOK, NEW w, NEW r \in Rows, StartCancel(w, r)
    PROVE  RowOK'
<1>1. row[r] \in RowRecords /\ row[r].attempts + 1 \in Nat BY DEF RowOK, RowRecords
<1>2. [row[r] EXCEPT !.attempts = row[r].attempts + 1, !.next = "later"] \in RowRecords
    BY <1>1, ClaimedRecord DEF Nexts, RowStatus, OPEN
<1>. QED BY <1>2, PutRow DEF StartCancel, Later

LEMMA RecordDispatchRow ==
    ASSUME RowOK, CallerOK, NEW w \in Workers, caller[w].row \in Rows, RecordDispatch(w)
    PROVE  RowOK'
<1>. DEFINE r == caller[w].row
            a == caller[w].answer
            learnt == [row[r] EXCEPT !.id = IF a \in Deliveries THEN "del" ELSE row[r].id, !.next = "now"]
            asked == [row[r] EXCEPT !.status = "awaiting_confirmation", !.next = "never",
                                    !.quoted = caller[w].fee]
            q == IF row[r].status = "cancelling" THEN learnt
                 ELSE IF ~StillMine(w) THEN row[r]
                 ELSE IF a \in Deliveries THEN Applied(row[r], a)
                 ELSE IF a = "over" THEN asked
                 ELSE IF a = "refused" \/ row[r].attempts >= MaxAttempts
                 THEN [row[r] EXCEPT !.status = "failed", !.next = "never"]
                 ELSE [row[r] EXCEPT !.status = "requested", !.next = "later"]
<1>1. row[r] \in RowRecords /\ caller[w].fee \in Nat BY DEF RowOK, CallerOK, Callers
<1>2. learnt \in RowRecords BY <1>1 DEF RowRecords, Nexts
<1>3. asked \in RowRecords BY <1>1 DEF RowRecords, RowStatus, OPEN, Nexts
<1>4. q \in RowRecords BY <1>1, <1>2, <1>3, AppliedRecord, MovedRecord DEF RowStatus, OPEN, CLOSED, Nexts
<1>5. row' = [row EXCEPT ![r] = q] BY DEF RecordDispatch
<1>. QED BY <1>4, <1>5, PutRow

LEMMA RecordTrackRow ==
    ASSUME RowOK, NEW w, caller[w].row \in Rows, RecordTrack(w)
    PROVE  RowOK'
BY AppliedRecord, PutRow DEF RecordTrack, RowOK

LEMMA RecordCancelRow ==
    ASSUME RowOK, NEW w, caller[w].row \in Rows, RecordCancel(w)
    PROVE  RowOK'
<1>. DEFINE r == caller[w].row
            a == caller[w].answer
            q == IF row[r].status # "cancelling" \/ row[r].attempts # caller[w].claim THEN row[r]
                 ELSE IF a = "canceled" THEN Applied(row[r], a)
                 ELSE IF a = "nothing" THEN [row[r] EXCEPT !.status = "cancelled", !.next = "never"]
                 ELSE IF a = "refused" \/ row[r].attempts >= MaxAttempts
                 THEN [row[r] EXCEPT !.status = AfterRefusal, !.next = "never"]
                 ELSE [row[r] EXCEPT !.next = "later"]
<1>1. row[r] \in RowRecords BY DEF RowOK
<1>2. q \in RowRecords
    BY <1>1, AppliedRecord, MovedRecord DEF RowStatus, OPEN, CLOSED, AfterRefusal, Nexts
<1>3. row' = [row EXCEPT ![r] = q] BY DEF RecordCancel
<1>. QED BY <1>2, <1>3, PutRow

-----------------------------------------------------------------------------
(* What a step does, field by field *)

RowIs(r, status, next, attempts, quote, id, cap, quoted) ==
    /\ row'[r].status = status /\ row'[r].next = next /\ row'[r].attempts = attempts
    /\ row'[r].quote = quote /\ row'[r].id = id /\ row'[r].cap = cap /\ row'[r].quoted = quoted
Becomes(r, status, next) ==
    RowIs(r, status, next, row[r].attempts, row[r].quote, row[r].id, row[r].cap, row[r].quoted)
Claimed(r, status) ==
    RowIs(r, status, "later", row[r].attempts + 1, row[r].quote, row[r].id, row[r].cap, row[r].quoted)
Learns(r, status, next) ==
    RowIs(r, status, next, row[r].attempts, row[r].quote, "del", row[r].cap, row[r].quoted)
\* `Applied`.
Follows(r, s) ==
    \/ s = "delivered" /\ Learns(r, "delivered", "never")
    \/ s = "canceled" /\ row[r].status = "cancelling" /\ Learns(r, "cancelled", "never")
    \/ s = "canceled" /\ row[r].status # "cancelling" /\ Learns(r, "failed", "never")
    \/ s = "returned" /\ Learns(r, "failed", "never")
    \/ s \notin Ended /\ row[r].status = "cancelling" /\ Learns(r, "cancelling", row[r].next)
    \/ s \notin Ended /\ row[r].status # "cancelling" /\ Learns(r, "active", "later")

Turns(r, s) == uber'[r].state = s /\ uber'[r].quote = uber[r].quote /\ uber'[r].fee = uber[r].fee

Others(w) == \A x \in Workers : x # w => caller'[x] = caller[x]
Keeps(w) ==
    /\ caller'[w].row = caller[w].row /\ caller'[w].task = caller[w].task
    /\ caller'[w].claim = caller[w].claim /\ caller'[w].quote = caller[w].quote
    /\ caller'[w].id = caller[w].id /\ caller'[w].cap = caller[w].cap
Heard(w, a) ==
    /\ Others(w) /\ Keeps(w) /\ caller'[w].fee = caller[w].fee
    /\ caller'[w].at = "record" /\ caller'[w].answer = a
Goes(w, at) ==
    /\ Others(w) /\ Keeps(w) /\ caller'[w].fee = caller[w].fee
    /\ caller'[w].at = at /\ caller'[w].answer = caller[w].answer
Failed(w) == faults' = faults + 1 /\ \E a \in {"error", "refused"} : Heard(w, a)
TakesOn(w, r, task, at) ==
    /\ Others(w) /\ caller[w].row = 0 /\ caller[w].task = "none"
    /\ caller'[w].row = r /\ caller'[w].claim = row'[r].attempts
    /\ caller'[w].task = task /\ caller'[w].at = at
    /\ caller'[w].quote = row[r].quote /\ caller'[w].id = row[r].id /\ caller'[w].cap = row[r].cap
    /\ caller'[w].fee = 0 /\ caller'[w].answer = "none"
Leaves(w) == Others(w) /\ caller'[w].row = 0 /\ caller'[w].task = "none" /\ caller'[w].at = "none"

LEMMA AppliedFollows ==
    ASSUME RowOK, NEW r \in Rows, NEW s, row' = [row EXCEPT ![r] = Applied(@, s)]
    PROVE  Follows(r, s)
BY DEF RowOK, RowRecords, Applied, Follows, Learns, RowIs, Ended

LEMMA AnswerHeard ==
    ASSUME CallerOK, NEW w \in Workers, NEW a, Answer(w, a)
    PROVE  Heard(w, a)
BY DEF CallerOK, Callers, Answer, Heard, Others, Keeps

LEMMA GoGoes ==
    ASSUME CallerOK, NEW w \in Workers, NEW at, Go(w, at)
    PROVE  Goes(w, at)
BY DEF CallerOK, Callers, Go, Goes, Others, Keeps

LEMMA FailsFailed ==
    ASSUME CallerOK, NEW w \in Workers, Fails(w)
    PROVE  Failed(w)
BY AnswerHeard DEF Fails, Failed, Spend

LEMMA TakesTakesOn ==
    ASSUME CallerOK, NEW w \in Workers, NEW r, NEW t, NEW at, caller[w] = Free, Takes(w, r, t, at)
    PROVE  TakesOn(w, r, t, at)
BY DEF CallerOK, Takes, TakesOn, Others, Free

LEMMA FreeLeaves ==
    ASSUME CallerOK, NEW w \in Workers, caller' = [caller EXCEPT ![w] = Free]
    PROVE  Leaves(w)
BY DEF CallerOK, Leaves, Others, Free

-----------------------------------------------------------------------------
(* One lemma per action *)

\* A row is reserved only where there is none.
LEMMA ReserveHolds ==
    ASSUME TypeOK, NEW r \in Rows, RowInv(r),
           Reserve(r), UNCHANGED <<uber, caller, missed, faults>>
    PROVE  TypeOK' /\ OthersStill(r) /\ RowInv(r)'
<1>1. row[r].status = "none" /\ Becomes(r, "requested", "now")
    BY DEF TypeOK, RowOK, RowRecords, Reserve, Becomes, RowIs
<1>2. RowOK' /\ UberOK' /\ CallerOK'
    BY MovedRecord, PutRow DEF TypeOK, RowOK, Reserve, UberOK, CallerOK, RowStatus, OPEN, Nexts
<1>3. StepsOK'
    BY DEF TypeOK, StepsOK
<1>4. missed' \subseteq Rows /\ faults' \in Nat
    BY DEF TypeOK
<1>5. TypeOK' BY <1>2, <1>3, <1>4 DEF TypeOK
<1>6. OthersStill(r)
  <2>1. \A q \in Rows : q # r => Untouched(q)
      BY DEF Untouched, Reserve
  <2>. QED BY <1>1, <2>1 DEF TypeOK, OthersStill, Still
<1>8. ClaimsAt(r)' BY <1>1 DEF Becomes, RowIs, Claims, Calls, On, ClaimsAt, RowInv
<1>9. FeesAt(r)' BY <1>1 DEF Becomes, RowIs, Calls, On, FeesAt, RowInv
<1>10. TruthsAt(r)' BY <1>1 DEF Becomes, RowIs, TruthsAt, RowInv
<1>11. NothingAt(r)' BY <1>1 DEF Becomes, RowIs, Calls, On, NothingAt, RowInv
<1>12. UndisturbedAt(r)' BY <1>1 DEF Calls, On, UndisturbedAt, RowInv
<1>13. HandAt(r)' BY <1>1 DEF Becomes, RowIs, OPEN, HandAt
<1>. QED BY <1>5, <1>6, <1>8, <1>9, <1>10, <1>11, <1>12, <1>13 DEF RowInv

\* What may exist at Uber is not closed.
LEMMA CancelledHolds ==
    ASSUME TypeOK, NEW r \in Rows, RowInv(r),
           r \in Open, Cancelled(r), UNCHANGED <<uber, caller, missed, faults>>
    PROVE  TypeOK' /\ OthersStill(r) /\ RowInv(r)'
<1>1. /\ row[r].status \in OPEN
      /\ \/ /\ row[r].status \in {"requested", "awaiting_confirmation"}
            /\ row[r].quote = 0 /\ row[r].id = "none" /\ Becomes(r, "cancelled", "never")
         \/ /\ row[r].status # "cancelling" /\ Becomes(r, "cancelling", "now")
            /\ row[r].status \in {"requested", "awaiting_confirmation"} =>
                  row[r].quote # 0 \/ row[r].id # "none"
         \/ row[r].status = "cancelling" /\ row'[r] = row[r]
  <2>1. CASE ClosesHere(r)
      BY <2>1 DEF TypeOK, RowOK, RowRecords, Cancelled, Becomes, RowIs, Open, ClosesHere
  <2>2. CASE ~ClosesHere(r)
      BY <2>2 DEF TypeOK, RowOK, RowRecords, Cancelled, Becomes, RowIs, Open, ClosesHere
  <2>. QED BY <2>1, <2>2
<1>2. RowOK' /\ UberOK' /\ CallerOK'
    BY CancelledRow DEF TypeOK, UberOK, CallerOK
<1>3. StepsOK'
    BY DEF TypeOK, StepsOK
<1>4. missed' \subseteq Rows /\ faults' \in Nat
    BY DEF TypeOK
<1>5. TypeOK' BY <1>2, <1>3, <1>4 DEF TypeOK
<1>6. OthersStill(r)
  <2>1. \A q \in Rows : q # r => Untouched(q)
      BY <1>1 DEF Untouched, TypeOK, RowOK, UberOK, Cancelled
  <2>. QED BY <1>1, <2>1 DEF TypeOK, OthersStill, Still
<1>8. ClaimsAt(r)' BY <1>1 DEF Becomes, RowIs, Claims, Calls, On, ClaimsAt, RowInv
<1>9. FeesAt(r)' BY <1>1 DEF Becomes, RowIs, Calls, On, FeesAt, RowInv
<1>10. TruthsAt(r)' BY <1>1 DEF Becomes, RowIs, TruthsAt, RowInv
<1>11. NothingAt(r)' BY <1>1 DEF Becomes, RowIs, Calls, On, NothingAt, RowInv
<1>12. UndisturbedAt(r)' BY <1>1 DEF Becomes, RowIs, Calls, On, CLOSED, UndisturbedAt, RowInv
<1>13. HandAt(r)' BY <1>1 DEF Becomes, RowIs, OPEN, Live, HandAt, UndisturbedAt, RowInv
<1>. QED BY <1>5, <1>6, <1>8, <1>9, <1>10, <1>11, <1>12, <1>13 DEF RowInv

\* The store confirms the quote it was shown, which is above its ceiling.
LEMMA ConfirmFeeHolds ==
    ASSUME TypeOK, NEW r \in Rows, RowInv(r),
           ConfirmFee(r)
    PROVE  TypeOK' /\ OthersStill(r) /\ RowInv(r)'
<1>1. /\ row[r].status = "awaiting_confirmation" /\ UNCHANGED <<uber, caller, missed, faults>>
      /\ RowIs(r, "requested", "now", row[r].attempts, row[r].quote, row[r].id, row[r].quoted, row[r].quoted)
    BY DEF TypeOK, RowOK, RowRecords, ConfirmFee, RowIs
<1>2. RowOK' /\ UberOK' /\ CallerOK'
  <2>1. row[r] \in RowRecords BY DEF TypeOK, RowOK
  <2>2. [row[r] EXCEPT !.status = "requested", !.next = "now", !.cap = row[r].quoted] \in RowRecords
      BY <2>1 DEF RowRecords, RowStatus, OPEN, Nexts
  <2>. QED BY <2>2, PutRow DEF TypeOK, UberOK, CallerOK, ConfirmFee
<1>3. StepsOK' BY <1>1 DEF TypeOK, StepsOK
<1>4. missed' \subseteq Rows /\ faults' \in Nat BY <1>1 DEF TypeOK
<1>5. TypeOK' BY <1>2, <1>3, <1>4 DEF TypeOK
<1>6. OthersStill(r)
  <2>1. \A q \in Rows : q # r => Untouched(q)
      BY DEF Untouched, ConfirmFee
  <2>. QED BY <1>1, <2>1 DEF TypeOK, OthersStill, Still
<1>7. Numbers(r) /\ Numbers(r)' /\ Names(r) /\ Names(r)' BY <1>5, TypedRow, TypedRowAfter
<1>8. ClaimsAt(r)' BY <1>1 DEF RowIs, Claims, Calls, On, ClaimsAt, RowInv
<1>9. FeesAt(r)' BY <1>1, <1>7 DEF RowIs, Calls, On, FeesAt, RowInv, Numbers
<1>10. TruthsAt(r)' BY <1>1 DEF RowIs, TruthsAt, RowInv
<1>11. NothingAt(r)' BY <1>1 DEF RowIs, Calls, On, NothingAt, RowInv
<1>12. UndisturbedAt(r)' BY <1>1 DEF Calls, On, UndisturbedAt, RowInv
<1>13. HandAt(r)' BY <1>1 DEF RowIs, OPEN, HandAt
<1>. QED BY <1>5, <1>6, <1>8, <1>9, <1>10, <1>11, <1>12, <1>13 DEF RowInv

\* A hint only makes the row due.
LEMMA WebhookHintHolds ==
    ASSUME TypeOK, NEW r \in Rows, RowInv(r),
           WebhookHint(r)
    PROVE  TypeOK' /\ OthersStill(r) /\ RowInv(r)'
<1>1. /\ row[r].status = "active" /\ row[r].id = "del" /\ UNCHANGED <<uber, caller, missed, faults>>
      /\ Becomes(r, "active", "now")
    BY DEF TypeOK, RowOK, RowRecords, WebhookHint, Becomes, RowIs
<1>2. RowOK' /\ UberOK' /\ CallerOK'
    BY DEF TypeOK, RowOK, UberOK, CallerOK, RowRecords, Nexts, WebhookHint
<1>3. StepsOK' BY <1>1 DEF TypeOK, StepsOK
<1>4. missed' \subseteq Rows /\ faults' \in Nat BY <1>1 DEF TypeOK
<1>5. TypeOK' BY <1>2, <1>3, <1>4 DEF TypeOK
<1>6. OthersStill(r)
  <2>1. \A q \in Rows : q # r => Untouched(q)
      BY DEF Untouched, WebhookHint
  <2>. QED BY <1>1, <2>1 DEF TypeOK, OthersStill, Still
<1>8. ClaimsAt(r)' BY <1>1 DEF Becomes, RowIs, Claims, Calls, On, ClaimsAt, RowInv
<1>9. FeesAt(r)' BY <1>1 DEF Becomes, RowIs, Calls, On, FeesAt, RowInv
<1>10. TruthsAt(r)' BY <1>1 DEF Becomes, RowIs, TruthsAt, RowInv
<1>11. NothingAt(r)' BY <1>1 DEF Becomes, RowIs, On, NothingAt, RowInv
<1>12. UndisturbedAt(r)' BY <1>1 DEF Becomes, RowIs, Calls, On, UndisturbedAt, RowInv
<1>13. HandAt(r)' BY <1>1 DEF Becomes, RowIs, HandAt, RowInv
<1>. QED BY <1>5, <1>6, <1>8, <1>9, <1>10, <1>11, <1>12, <1>13 DEF RowInv

\* A row fails for want of a phone or of keys.
LEMMA CannotCallHolds ==
    ASSUME TypeOK, NEW r \in Rows, RowInv(r),
           CannotCall(r)
    PROVE  TypeOK' /\ OthersStill(r) /\ RowInv(r)'
<1>1. /\ row[r].status \in {"requested", "creating"} /\ Becomes(r, "failed", "never")
      /\ UNCHANGED <<uber, caller, missed>> /\ faults' = faults + 1
    BY DEF TypeOK, RowOK, RowRecords, CannotCall, Spend, Becomes, RowIs
<1>2. RowOK' /\ UberOK' /\ CallerOK'
  <2>1. row[r] \in RowRecords BY DEF TypeOK, RowOK
  <2>2. [row[r] EXCEPT !.status = "failed", !.next = "never"] \in RowRecords
      BY <2>1, MovedRecord DEF RowStatus, CLOSED, Nexts
  <2>. QED BY <2>2, PutRow DEF TypeOK, UberOK, CallerOK, CannotCall
<1>3. StepsOK' BY <1>1 DEF TypeOK, StepsOK
<1>4. missed' \subseteq Rows /\ faults' \in Nat BY <1>1 DEF TypeOK
<1>5. TypeOK' BY <1>2, <1>3, <1>4 DEF TypeOK
<1>6. OthersStill(r)
  <2>1. \A q \in Rows : q # r => Untouched(q)
      BY DEF Untouched, CannotCall
  <2>. QED BY <1>1, <2>1 DEF TypeOK, OthersStill, Still
<1>8. ClaimsAt(r)' BY <1>1 DEF Becomes, RowIs, Claims, Calls, On, ClaimsAt, RowInv
<1>9. FeesAt(r)' BY <1>1 DEF Becomes, RowIs, Calls, On, FeesAt, RowInv
<1>10. TruthsAt(r)' BY <1>1 DEF Becomes, RowIs, TruthsAt, RowInv
<1>11. NothingAt(r)' BY <1>1 DEF Becomes, RowIs, Calls, On, NothingAt, RowInv, TypeOK
<1>12. UndisturbedAt(r)' BY <1>1 DEF UndisturbedAt, TypeOK
<1>13. HandAt(r)' BY <1>1 DEF Becomes, RowIs, HandAt, TruthsAt, RowInv, TypeOK
<1>. QED BY <1>5, <1>6, <1>8, <1>9, <1>10, <1>11, <1>12, <1>13 DEF RowInv

\* A lease ends under a worker only if that worker is slow, which is a fault.
LEMMA TimeComesHolds ==
    ASSUME TypeOK, NEW r \in Rows, RowInv(r),
           TimeComes(r)
    PROVE  TypeOK' /\ OthersStill(r) /\ RowInv(r)'
<1>1. /\ row[r].next = "later" /\ Becomes(r, row[r].status, "now") /\ UNCHANGED <<uber, caller, missed>>
      /\ \/ faults' = faults + 1
         \/ faults' = faults /\ \A w \in Workers : caller[w].row # r
  <2>1. row[r].next = "later" /\ Becomes(r, row[r].status, "now")
      BY DEF TypeOK, RowOK, RowRecords, TimeComes, Becomes, RowIs
  <2>2. CASE \A w \in Workers : caller[w].row # r BY <2>1, <2>2 DEF TimeComes
  <2>3. CASE ~\A w \in Workers : caller[w].row # r BY <2>1, <2>3 DEF TimeComes, Spend
  <2>. QED BY <2>2, <2>3
<1>2. RowOK' /\ UberOK' /\ CallerOK'
    BY DEF TypeOK, RowOK, UberOK, CallerOK, RowRecords, Nexts, TimeComes
<1>3. StepsOK' BY <1>1 DEF TypeOK, StepsOK
<1>4. missed' \subseteq Rows /\ faults' \in Nat BY <1>1 DEF TypeOK
<1>5. TypeOK' BY <1>2, <1>3, <1>4 DEF TypeOK
<1>6. OthersStill(r)
  <2>1. \A q \in Rows : q # r => Untouched(q)
      BY <1>1 DEF Untouched, TypeOK, RowOK, UberOK, TimeComes
  <2>. QED BY <1>1, <2>1 DEF TypeOK, OthersStill, Still
<1>8. ClaimsAt(r)' BY <1>1 DEF Becomes, RowIs, Claims, Calls, On, ClaimsAt, RowInv
<1>9. FeesAt(r)' BY <1>1 DEF Becomes, RowIs, Calls, On, FeesAt, RowInv
<1>10. TruthsAt(r)' BY <1>1 DEF Becomes, RowIs, TruthsAt, RowInv
<1>11. NothingAt(r)' BY <1>1 DEF Becomes, RowIs, Calls, On, NothingAt, RowInv, TypeOK
<1>12. UndisturbedAt(r)'
    BY <1>1 DEF Becomes, RowIs, Calls, On, InCall, UndisturbedAt, RowInv, TypeOK
<1>13. HandAt(r)' BY <1>1 DEF Becomes, RowIs, HandAt, RowInv, TypeOK
<1>. QED BY <1>5, <1>6, <1>8, <1>9, <1>10, <1>11, <1>12, <1>13 DEF RowInv

\* Uber picks, delivers, returns or cancels what is not over.
LEMMA UberMovesHolds ==
    ASSUME TypeOK, NEW r \in Rows, RowInv(r),
           UberMoves(r)
    PROVE  TypeOK' /\ OthersStill(r) /\ RowInv(r)'
<1>1. /\ UNCHANGED <<row, caller, missed, faults>>
      /\ \/ uber[r].state = "pending" /\ \E s \in {"picked", "canceled"} : Turns(r, s)
         \/ uber[r].state = "picked" /\ \E s \in {"delivered", "returned"} : Turns(r, s)
    BY DEF TypeOK, UberOK, UberRecords, UberMoves, Turns
<1>2. RowOK' /\ UberOK' /\ CallerOK'
    BY DEF TypeOK, RowOK, UberOK, CallerOK, UberRecords, Deliveries, UberMoves
<1>3. StepsOK' BY <1>1 DEF TypeOK, StepsOK
<1>4. missed' \subseteq Rows /\ faults' \in Nat BY <1>1 DEF TypeOK
<1>5. TypeOK' BY <1>2, <1>3, <1>4 DEF TypeOK
<1>6. OthersStill(r)
  <2>1. \A q \in Rows : q # r => Untouched(q)
      BY DEF Untouched, UberMoves
  <2>. QED BY <1>1, <2>1 DEF TypeOK, OthersStill, Still
<1>8. ClaimsAt(r)' BY <1>1 DEF Claims, Calls, On, ClaimsAt, RowInv
<1>9. FeesAt(r)' BY <1>1 DEF Turns, Calls, On, FeesAt, RowInv
<1>10. TruthsAt(r)' BY <1>1 DEF Turns, Ended, TruthsAt, RowInv
<1>11. NothingAt(r)' BY <1>1 DEF Calls, On, NothingAt, RowInv
<1>12. UndisturbedAt(r)' BY <1>1 DEF Turns, Calls, On, InCall, UndisturbedAt, RowInv
<1>13. HandAt(r)' BY <1>1 DEF Live, HandAt, RowInv
<1>. QED BY <1>5, <1>6, <1>8, <1>9, <1>10, <1>11, <1>12, <1>13 DEF RowInv

\* A dispatch takes the row with a claim of its own.
LEMMA StartDispatchHolds ==
    ASSUME TypeOK, NEW w \in Workers, NEW r \in Rows, RowInv(r),
           StartDispatch(w, r)
    PROVE  TypeOK' /\ OthersStill(r) /\ RowInv(r)'
<1>1. /\ row[r].next = "now" /\ row[r].status \in {"requested", "creating"}
      /\ UNCHANGED <<uber, missed, faults>>
      /\ \/ Claimed(r, "creating") /\ \E at \in {"find", "quote"} : TakesOn(w, r, "dispatch", at)
         \/ Becomes(r, "cancelled", "never") /\ caller' = caller
  <2>1. CASE order = "ready_for_pickup"
    <3>1. /\ row' = [row EXCEPT ![r] = [@ EXCEPT !.status = "creating",
                                             !.attempts = row[r].attempts + 1, !.next = "later"]]
          /\ caller[w] = Free
          /\ Takes(w, r, "dispatch", "find") \/ Takes(w, r, "dispatch", "quote")
        BY <2>1 DEF StartDispatch, Later
    <3>2. Claimed(r, "creating") BY <3>1 DEF TypeOK, RowOK, RowRecords, Claimed, RowIs
    <3>. QED BY <3>1, <3>2, TakesTakesOn DEF TypeOK, StartDispatch, Due
  <2>2. CASE order # "ready_for_pickup"
    <3>1. row' = [row EXCEPT ![r] = [@ EXCEPT !.status = "cancelled", !.next = "never"]]
        BY <2>2 DEF StartDispatch
    <3>2. Becomes(r, "cancelled", "never") BY <3>1 DEF TypeOK, RowOK, RowRecords, Becomes, RowIs
    <3>. QED BY <2>2, <3>2 DEF StartDispatch, Due
  <2>. QED BY <2>1, <2>2
<1>2. RowOK' /\ UberOK' /\ CallerOK'
  <2>1. RowOK' BY StartDispatchRow DEF TypeOK
  <2>2. CallerOK' BY <2>1, TakesCaller DEF TypeOK, StartDispatch, Tasks, Places, CallerOK
  <2>. QED BY <2>1, <2>2 DEF TypeOK, StartDispatch, UberOK
<1>3. StepsOK' BY <1>1 DEF TypeOK, StepsOK, TakesOn, Others, Tasks, Rows
<1>4. missed' \subseteq Rows /\ faults' \in Nat BY <1>1 DEF TypeOK
<1>5. TypeOK' BY <1>2, <1>3, <1>4 DEF TypeOK
<1>6. OthersStill(r)
  <2>1. \A q \in Rows : q # r => Untouched(q)
      BY <1>1 DEF Untouched, TypeOK, RowOK, UberOK, StartDispatch
  <2>. QED BY <1>1, <2>1 DEF TypeOK, OthersStill, Still, Rows, TakesOn, Others
<1>7. Numbers(r) /\ Numbers(r)' /\ Names(r) /\ Names(r)' BY <1>5, TypedRow, TypedRowAfter
<1>8. ClaimsAt(r)'
    BY <1>1, <1>7 DEF Claimed, Becomes, RowIs, TakesOn, Others, Claims, Calls, On, ClaimsAt, RowInv,
        Numbers
<1>9. FeesAt(r)'
    BY <1>1, <1>7 DEF Claimed, Becomes, RowIs, TakesOn, Others, Claims, Calls, On, FeesAt, ClaimsAt,
        RowInv, Numbers
<1>10. TruthsAt(r)' BY <1>1 DEF Claimed, Becomes, RowIs, TakesOn, Others, TruthsAt, RowInv
<1>11. NothingAt(r)'
    BY <1>1, <1>7 DEF Claimed, Becomes, RowIs, TakesOn, Others, Claims, On, NothingAt, ClaimsAt,
        RowInv, Numbers
<1>12. UndisturbedAt(r)'
    BY <1>1 DEF Claimed, RowIs, TakesOn, Others, Calls, On, InCall, CLOSED, UndisturbedAt, RowInv
<1>13. HandAt(r)'
    BY <1>1 DEF Claimed, Becomes, RowIs, Calls, On, InCall, Live, HandAt, TruthsAt, UndisturbedAt,
        RowInv
<1>. QED BY <1>5, <1>6, <1>8, <1>9, <1>10, <1>11, <1>12, <1>13 DEF RowInv

\* A look at Uber leaves the row as it is.
LEMMA StartTrackHolds ==
    ASSUME TypeOK, NEW w \in Workers, NEW r \in Rows, RowInv(r),
           StartTrack(w, r)
    PROVE  TypeOK' /\ OthersStill(r) /\ RowInv(r)'
<1>1. /\ row[r].status = "active" /\ Becomes(r, "active", "later") /\ TakesOn(w, r, "track", "ask")
      /\ UNCHANGED <<uber, missed, faults>>
    BY TakesTakesOn DEF StartTrack, TypeOK, RowOK, RowRecords, Becomes, RowIs
<1>2. RowOK' /\ UberOK' /\ CallerOK'
  <2>1. RowOK' BY DEF TypeOK, RowOK, RowRecords, StartTrack, Nexts
  <2>2. CallerOK' BY <2>1, TakesCaller DEF TypeOK, StartTrack, Tasks, Places
  <2>. QED BY <2>1, <2>2 DEF TypeOK, StartTrack, UberOK
<1>3. StepsOK' BY <1>1 DEF TypeOK, StepsOK, TakesOn, Others, Tasks, Rows
<1>4. missed' \subseteq Rows /\ faults' \in Nat BY <1>1 DEF TypeOK
<1>5. TypeOK' BY <1>2, <1>3, <1>4 DEF TypeOK
<1>6. OthersStill(r)
  <2>1. \A q \in Rows : q # r => Untouched(q)
      BY <1>1 DEF Untouched, TypeOK, RowOK, UberOK, StartTrack
  <2>. QED BY <1>1, <2>1 DEF TypeOK, OthersStill, Still, Rows, TakesOn, Others
<1>8. ClaimsAt(r)' BY <1>1 DEF Becomes, RowIs, TakesOn, Others, Claims, Calls, On, ClaimsAt, RowInv
<1>9. FeesAt(r)' BY <1>1 DEF Becomes, RowIs, TakesOn, Others, Calls, On, FeesAt, RowInv
<1>10. TruthsAt(r)' BY <1>1 DEF Becomes, RowIs, TakesOn, Others, TruthsAt, RowInv
<1>11. NothingAt(r)' BY <1>1 DEF Becomes, RowIs, TakesOn, Others, Calls, On, NothingAt, RowInv
<1>12. UndisturbedAt(r)'
    BY <1>1 DEF Becomes, RowIs, TakesOn, Others, Calls, On, UndisturbedAt, RowInv
<1>13. HandAt(r)' BY <1>1 DEF Becomes, RowIs, HandAt, RowInv
<1>. QED BY <1>5, <1>6, <1>8, <1>9, <1>10, <1>11, <1>12, <1>13 DEF RowInv

\* A cancel takes the row with a claim of its own.
LEMMA StartCancelHolds ==
    ASSUME TypeOK, NEW w \in Workers, NEW r \in Rows, RowInv(r),
           StartCancel(w, r)
    PROVE  TypeOK' /\ OthersStill(r) /\ RowInv(r)'
<1>1. /\ row[r].status = "cancelling" /\ row[r].next = "now" /\ Claimed(r, "cancelling")
      /\ TakesOn(w, r, "cancel", "ask") /\ UNCHANGED <<uber, missed, faults>>
  <2>1. Claimed(r, "cancelling") BY DEF StartCancel, TypeOK, RowOK, RowRecords, Claimed, RowIs, Later
  <2>2. TakesOn(w, r, "cancel", "ask") BY TakesTakesOn DEF TypeOK, StartCancel
  <2>. QED BY <2>1, <2>2 DEF StartCancel, Due
<1>2. RowOK' /\ UberOK' /\ CallerOK'
  <2>1. RowOK' BY StartCancelRow DEF TypeOK
  <2>2. CallerOK' BY <2>1, TakesCaller DEF TypeOK, StartCancel, Tasks, Places
  <2>. QED BY <2>1, <2>2 DEF TypeOK, StartCancel, UberOK
<1>3. StepsOK' BY <1>1 DEF TypeOK, StepsOK, TakesOn, Others, Tasks, Rows
<1>4. missed' \subseteq Rows /\ faults' \in Nat BY <1>1 DEF TypeOK
<1>5. TypeOK' BY <1>2, <1>3, <1>4 DEF TypeOK
<1>6. OthersStill(r)
  <2>1. \A q \in Rows : q # r => Untouched(q)
      BY <1>1 DEF Untouched, TypeOK, RowOK, UberOK, StartCancel
  <2>. QED BY <1>1, <2>1 DEF TypeOK, OthersStill, Still, Rows, TakesOn, Others
<1>7. Numbers(r) /\ Numbers(r)' /\ Names(r) /\ Names(r)' BY <1>5, TypedRow, TypedRowAfter
<1>8. ClaimsAt(r)'
    BY <1>1, <1>7 DEF Claimed, RowIs, TakesOn, Others, Claims, Calls, On, ClaimsAt, RowInv, Numbers
<1>9. FeesAt(r)' BY <1>1 DEF Claimed, RowIs, TakesOn, Others, Calls, On, FeesAt, RowInv
<1>10. TruthsAt(r)' BY <1>1 DEF Claimed, RowIs, TakesOn, Others, TruthsAt, RowInv
<1>11. NothingAt(r)'
    BY <1>1, <1>7 DEF Claimed, RowIs, TakesOn, Others, Claims, On, NothingAt, ClaimsAt, RowInv,
        Numbers
<1>12. UndisturbedAt(r)'
    BY <1>1 DEF Claimed, RowIs, TakesOn, Others, Calls, On, UndisturbedAt, RowInv
<1>13. HandAt(r)' BY <1>1 DEF Claimed, RowIs, HandAt, RowInv
<1>. QED BY <1>5, <1>6, <1>8, <1>9, <1>10, <1>11, <1>12, <1>13 DEF RowInv

\* Who finds the courier of an earlier quote is told its state.
LEMMA FindHolds ==
    ASSUME TypeOK, NEW w \in Workers, NEW r \in Rows, caller[w].row = r, RowInv(r),
           Find(w)
    PROVE  TypeOK' /\ OthersStill(r) /\ RowInv(r)'
<1>1. /\ caller[w].at = "find" /\ UNCHANGED <<row, uber, missed>>
      /\ \/ Failed(w)
         \/ faults' = faults /\ uber[r].state # "none" /\ Heard(w, uber[r].state)
         \/ faults' = faults /\ Goes(w, "quote")
    BY FailsFailed, AnswerHeard, GoGoes DEF TypeOK, Find
<1>2. RowOK' /\ UberOK' /\ CallerOK'
  <2>1. uber[r].state \in Answers BY DEF TypeOK, UberOK, UberRecords, Answers
  <2>2. CallerOK' BY <2>1, FailsCaller, AnsweredCaller, WentCaller DEF TypeOK, Find, Places
  <2>. QED BY <2>2 DEF TypeOK, Find, RowOK, UberOK
<1>3. StepsOK' BY <1>1 DEF TypeOK, StepsOK, Failed, Heard, Goes, Others, Keeps
<1>4. missed' \subseteq Rows /\ faults' \in Nat BY <1>1 DEF TypeOK, Failed
<1>5. TypeOK' BY <1>2, <1>3, <1>4 DEF TypeOK
<1>6. OthersStill(r)
  <2>1. \A q \in Rows : q # r => Untouched(q) BY <1>1 DEF Untouched, TypeOK, RowOK, UberOK, Find
  <2>. QED BY <1>1, <2>1 DEF TypeOK, OthersStill, Still, Rows, Failed, Heard, Goes, Others, Keeps
<1>7. Numbers(r) /\ Numbers(r)' /\ Names(r) /\ Names(r)' BY <1>5, TypedRow, TypedRowAfter
<1>8. ClaimsAt(r)'
    BY <1>1 DEF Failed, Heard, Goes, Others, Keeps, Claims, Calls, On, ClaimsAt, RowInv
<1>9. FeesAt(r)'
    BY <1>1, <1>7 DEF Failed, Heard, Goes, Others, Keeps, Calls, On, FeesAt, RowInv, Names
<1>10. TruthsAt(r)'
    BY <1>1 DEF Failed, Heard, Goes, Others, Keeps, Ended, Deliveries, TruthsAt, RowInv, TypeOK,
        StepsOK
<1>11. NothingAt(r)'
    BY <1>1 DEF Failed, Heard, Goes, Others, Keeps, Calls, On, NothingAt, RowInv, TypeOK, StepsOK
<1>12. UndisturbedAt(r)'
    BY <1>1 DEF Failed, Heard, Goes, Others, Keeps, Calls, On, InCall, UndisturbedAt, RowInv, TypeOK
<1>13. HandAt(r)' BY <1>1 DEF Failed, HandAt, RowInv, TypeOK
<1>. QED BY <1>5, <1>6, <1>8, <1>9, <1>10, <1>11, <1>12, <1>13 DEF RowInv

\* A quote is either within the ceiling the worker knows, or said to be above it.
LEMMA QuoteHolds ==
    ASSUME TypeOK, NEW w \in Workers, NEW r \in Rows, caller[w].row = r, RowInv(r),
           Quote(w)
    PROVE  TypeOK' /\ OthersStill(r) /\ RowInv(r)'
<1>1. /\ caller[w].at = "quote" /\ UNCHANGED <<row, uber, missed>>
      /\ \/ Failed(w)
         \/ /\ faults' = faults /\ Others(w) /\ Keeps(w)
            /\ \/ /\ caller'[w].at = "record" /\ caller'[w].answer = "over"
                  /\ caller'[w].fee > caller[w].cap
               \/ /\ caller'[w].at = "remember" /\ caller'[w].answer = "none"
                  /\ ~(caller'[w].fee > caller[w].cap)
  <2>1. CASE Fails(w) BY <2>1, FailsFailed DEF TypeOK, Quote
  <2>2. ASSUME NEW fee \in Fees,
               caller' = [caller EXCEPT ![w] = [@ EXCEPT !.fee = fee,
                  !.at = IF TooDear(fee, caller[w].cap) THEN "record" ELSE "remember",
                  !.answer = IF TooDear(fee, caller[w].cap) THEN "over" ELSE "none"]]
        PROVE  /\ Others(w) /\ Keeps(w)
               /\ \/ /\ caller'[w].at = "record" /\ caller'[w].answer = "over"
                     /\ caller'[w].fee > caller[w].cap
                  \/ /\ caller'[w].at = "remember" /\ caller'[w].answer = "none"
                     /\ ~(caller'[w].fee > caller[w].cap)
      BY <2>2 DEF TypeOK, CallerOK, Callers, Others, Keeps, TooDear
  <2>. QED BY <2>1, <2>2 DEF Quote
<1>2. RowOK' /\ UberOK' /\ CallerOK'
    BY QuoteCaller DEF TypeOK, Quote, RowOK, UberOK
<1>3. StepsOK' BY <1>1 DEF TypeOK, StepsOK, Failed, Heard, Others, Keeps
<1>4. missed' \subseteq Rows /\ faults' \in Nat BY <1>1 DEF TypeOK, Failed
<1>5. TypeOK' BY <1>2, <1>3, <1>4 DEF TypeOK
<1>6. OthersStill(r)
  <2>1. \A q \in Rows : q # r => Untouched(q) BY <1>1 DEF Untouched, TypeOK, RowOK, UberOK, Quote
  <2>. QED BY <1>1, <2>1 DEF TypeOK, OthersStill, Still, Rows, Failed, Heard, Goes, Others, Keeps
<1>7. Numbers(r) /\ Numbers(r)' /\ Names(r) /\ Names(r)' BY <1>5, TypedRow, TypedRowAfter
<1>8. ClaimsAt(r)' BY <1>1 DEF Failed, Heard, Others, Keeps, Claims, Calls, On, ClaimsAt, RowInv
<1>9. FeesAt(r)' BY <1>1, <1>7 DEF Failed, Heard, Others, Keeps, Calls, On, FeesAt, RowInv, Numbers
<1>10. TruthsAt(r)'
    BY <1>1 DEF Failed, Heard, Others, Keeps, Ended, Deliveries, TruthsAt, RowInv, TypeOK, StepsOK
<1>11. NothingAt(r)' BY <1>1 DEF Failed, Heard, Others, Keeps, Calls, On, NothingAt, RowInv, TypeOK
<1>12. UndisturbedAt(r)'
    BY <1>1, <1>7 DEF Failed, Others, Keeps, Calls, On, InCall, UndisturbedAt, RowInv, TypeOK
<1>13. HandAt(r)' BY <1>1 DEF Failed, HandAt, RowInv, TypeOK
<1>. QED BY <1>5, <1>6, <1>8, <1>9, <1>10, <1>11, <1>12, <1>13 DEF RowInv

\* Only the claim that still has the row stores its quote.
LEMMA RememberHolds ==
    ASSUME TypeOK, NEW w \in Workers, NEW r \in Rows, caller[w].row = r, RowInv(r),
           Remember(w)
    PROVE  TypeOK' /\ OthersStill(r) /\ RowInv(r)'
<1>1. /\ caller[w].at = "remember" /\ UNCHANGED <<uber, missed, faults>>
      /\ \/ /\ StillMine(w) /\ Goes(w, "create")
            /\ RowIs(r, row[r].status, row[r].next, row[r].attempts, caller[w].claim, row[r].id,
                     row[r].cap, row[r].quoted)
         \/ ~StillMine(w) /\ Heard(w, "error") /\ row'[r] = row[r]
    BY AnswerHeard, GoGoes DEF Remember, TypeOK, RowOK, RowRecords, RowIs
<1>2. RowOK' /\ UberOK' /\ CallerOK'
  <2>1. [row[r] EXCEPT !.quote = caller[w].claim] \in RowRecords
      BY DEF TypeOK, RowOK, RowRecords, CallerOK, Callers
  <2>2. RowOK' BY <2>1, PutRow DEF TypeOK, Remember, RowOK
  <2>3. CallerOK' BY AnsweredCaller, WentCaller DEF TypeOK, Remember, Places, Answers
  <2>. QED BY <2>2, <2>3 DEF TypeOK, Remember, UberOK
<1>3. StepsOK' BY <1>1 DEF TypeOK, StepsOK, Heard, Goes, Others, Keeps
<1>4. missed' \subseteq Rows /\ faults' \in Nat BY <1>1 DEF TypeOK
<1>5. TypeOK' BY <1>2, <1>3, <1>4 DEF TypeOK
<1>6. OthersStill(r)
  <2>1. \A q \in Rows : q # r => Untouched(q) BY <1>1 DEF Untouched, TypeOK, RowOK, UberOK, Remember
  <2>. QED BY <1>1, <2>1 DEF TypeOK, OthersStill, Still, Rows, Failed, Heard, Goes, Others, Keeps
<1>8. ClaimsAt(r)'
    BY <1>1 DEF Heard, Goes, Others, Keeps, StillMine, RowIs, Claims, Calls, On, ClaimsAt, RowInv
<1>9. FeesAt(r)' BY <1>1 DEF Heard, Goes, Others, Keeps, RowIs, Calls, On, FeesAt, RowInv
<1>10. TruthsAt(r)' BY <1>1 DEF Heard, Goes, Others, RowIs, Ended, Deliveries, TruthsAt, RowInv
<1>11. NothingAt(r)' BY <1>1 DEF Heard, Goes, Others, Keeps, RowIs, Calls, On, NothingAt, RowInv
<1>12. UndisturbedAt(r)'
    BY <1>1 DEF Heard, Goes, Others, Keeps, StillMine, RowIs, Calls, On, UndisturbedAt, RowInv,
        TypeOK, StepsOK, Tasks
<1>13. HandAt(r)' BY <1>1 DEF RowIs, HandAt, RowInv
<1>. QED BY <1>5, <1>6, <1>8, <1>9, <1>10, <1>11, <1>12, <1>13 DEF RowInv

\* Uber makes one courier for a row's key, with the quote and the price of the worker that asked.
LEMMA CreateHolds ==
    ASSUME TypeOK, NEW w \in Workers, NEW r \in Rows, caller[w].row = r, RowInv(r),
           Create(w)
    PROVE  TypeOK' /\ OthersStill(r) /\ RowInv(r)'
<1>1. /\ caller[w].at = "create" /\ UNCHANGED <<row, missed>>
      /\ \/ /\ uber[r].state = "none" /\ uber'[r].state = "pending"
            /\ uber'[r].quote = caller[w].claim /\ uber'[r].fee = caller[w].fee
            /\ \/ Heard(w, "pending") /\ faults' = faults
               \/ Heard(w, "error") /\ faults' = faults + 1
         \/ uber[r].state # "none" /\ Heard(w, "refused") /\ UNCHANGED <<uber, faults>>
         \/ Failed(w) /\ uber' = uber
    BY AnswerHeard, FailsFailed DEF TypeOK, Create, Spend, UberOK
<1>2. RowOK' /\ UberOK' /\ CallerOK'
  <2>1. UberOK' BY DEF TypeOK, CallerOK, UberOK, Callers, Create, UberRecords, Deliveries
  <2>2. CallerOK' BY FailsCaller, AnsweredCaller DEF TypeOK, Create, Answers, Deliveries
  <2>. QED BY <2>1, <2>2 DEF TypeOK, Create, RowOK
<1>3. StepsOK' BY <1>1 DEF TypeOK, StepsOK, Failed, Heard, Others, Keeps
<1>4. missed' \subseteq Rows /\ faults' \in Nat BY <1>1 DEF TypeOK, Failed
<1>5. TypeOK' BY <1>2, <1>3, <1>4 DEF TypeOK
<1>6. OthersStill(r)
  <2>1. \A q \in Rows : q # r => Untouched(q) BY <1>1 DEF Untouched, TypeOK, RowOK, UberOK, Create
  <2>. QED BY <1>1, <2>1 DEF TypeOK, OthersStill, Still, Rows, Failed, Heard, Goes, Others, Keeps
<1>7. Numbers(r) /\ Numbers(r)' /\ Names(r) /\ Names(r)' BY <1>5, TypedRow, TypedRowAfter
<1>8. ClaimsAt(r)' BY <1>1 DEF Failed, Heard, Others, Keeps, Claims, Calls, On, ClaimsAt, RowInv
<1>9. FeesAt(r)'
    BY <1>1, <1>7 DEF Failed, Heard, Others, Keeps, Calls, On, FeesAt, RowInv, TypeOK, StepsOK,
        Tasks, Numbers
<1>10. TruthsAt(r)'
    BY <1>1 DEF Failed, Heard, Others, Keeps, Ended, Deliveries, TruthsAt, RowInv, TypeOK, StepsOK
<1>11. NothingAt(r)'
    BY <1>1 DEF Failed, Heard, Others, Calls, On, NothingAt, RowInv, TypeOK, StepsOK, Tasks
<1>12. UndisturbedAt(r)'
    BY <1>1 DEF Failed, Heard, Others, Keeps, Calls, On, InCall, Deliveries, UndisturbedAt, RowInv,
        TypeOK, StepsOK, Tasks
<1>13. HandAt(r)'
    BY <1>1, <1>7 DEF Failed, Calls, On, HandAt, TruthsAt, UndisturbedAt, RowInv, TypeOK, StepsOK,
        Tasks, Names, RowStatus
<1>. QED BY <1>5, <1>6, <1>8, <1>9, <1>10, <1>11, <1>12, <1>13 DEF RowInv

\* A look tells the state as it is.
LEMMA AskTrackHolds ==
    ASSUME TypeOK, NEW w \in Workers, NEW r \in Rows, caller[w].row = r, RowInv(r),
           AskTrack(w)
    PROVE  TypeOK' /\ OthersStill(r) /\ RowInv(r)'
<1>1. /\ caller[w].task = "track" /\ caller[w].at = "ask" /\ UNCHANGED <<row, uber, missed>>
      /\ \/ Heard(w, uber[r].state) /\ faults' = faults
         \/ Heard(w, "error") /\ faults' = faults + 1
    BY AnswerHeard DEF TypeOK, AskTrack, Spend
<1>2. RowOK' /\ UberOK' /\ CallerOK'
  <2>1. uber[r].state \in Answers /\ "error" \in Answers BY DEF TypeOK, UberOK, UberRecords, Answers
  <2>2. CallerOK' BY <2>1, AnsweredCaller DEF TypeOK, AskTrack
  <2>. QED BY <2>2 DEF TypeOK, AskTrack, RowOK, UberOK
<1>3. StepsOK' BY <1>1 DEF TypeOK, StepsOK, Heard, Others, Keeps
<1>4. missed' \subseteq Rows /\ faults' \in Nat BY <1>1 DEF TypeOK
<1>5. TypeOK' BY <1>2, <1>3, <1>4 DEF TypeOK
<1>6. OthersStill(r)
  <2>1. \A q \in Rows : q # r => Untouched(q) BY <1>1 DEF Untouched, TypeOK, RowOK, UberOK, AskTrack
  <2>. QED BY <1>1, <2>1 DEF TypeOK, OthersStill, Still, Rows, Failed, Heard, Goes, Others, Keeps
<1>8. ClaimsAt(r)' BY <1>1 DEF Heard, Others, Keeps, Claims, Calls, On, ClaimsAt, RowInv
<1>9. FeesAt(r)' BY <1>1 DEF Heard, Others, Keeps, Calls, On, FeesAt, RowInv
<1>10. TruthsAt(r)' BY <1>1 DEF Heard, Others, Keeps, Ended, Deliveries, TruthsAt, RowInv
<1>11. NothingAt(r)' BY <1>1 DEF Heard, Others, Keeps, Calls, On, NothingAt, RowInv, TypeOK
<1>12. UndisturbedAt(r)'
    BY <1>1 DEF Heard, Others, Keeps, Calls, On, InCall, UndisturbedAt, RowInv, TypeOK
<1>13. HandAt(r)' BY <1>1 DEF HandAt, RowInv, TypeOK
<1>. QED BY <1>5, <1>6, <1>8, <1>9, <1>10, <1>11, <1>12, <1>13 DEF RowInv

\* A cancel that finds nothing although there is, or may yet be, a courier marks the row.
LEMMA AskCancelHolds ==
    ASSUME TypeOK, NEW w \in Workers, NEW r \in Rows, caller[w].row = r, RowInv(r),
           AskCancel(w)
    PROVE  TypeOK' /\ OthersStill(r) /\ RowInv(r)'
<1>1. /\ caller[w].task = "cancel" /\ caller[w].at = "ask" /\ UNCHANGED row
      /\ \/ /\ ~(uber[r].state # "none" /\ (caller[w].id = "del" \/ caller[w].quote = uber[r].quote))
            /\ Heard(w, "nothing") /\ UNCHANGED <<uber, faults>>
            /\ missed' = IF row[r].id = "del" \/ InCall(r) THEN missed \cup {r} ELSE missed
         \/ /\ uber[r].state = "pending" /\ missed' = missed /\ Turns(r, "canceled")
            /\ \/ Heard(w, "canceled") /\ faults' = faults
               \/ Heard(w, "error") /\ faults' = faults + 1
         \/ /\ uber[r].state \notin {"none", "pending"} /\ Heard(w, "refused")
            /\ UNCHANGED <<uber, missed, faults>>
         \/ Heard(w, "error") /\ faults' = faults + 1 /\ UNCHANGED <<uber, missed>>
    BY AnswerHeard DEF TypeOK, AskCancel, Spend, UberOK, UberRecords, Turns
<1>2. RowOK' /\ UberOK' /\ CallerOK'
  <2>1. UberOK' BY DEF TypeOK, UberOK, AskCancel, UberRecords, Deliveries
  <2>2. CallerOK' BY AnsweredCaller DEF TypeOK, AskCancel, Answers, Deliveries
  <2>. QED BY <2>1, <2>2 DEF TypeOK, AskCancel, RowOK
<1>3. StepsOK' BY <1>1 DEF TypeOK, StepsOK, Heard, Others, Keeps
<1>4. missed' \subseteq Rows /\ faults' \in Nat BY <1>1 DEF TypeOK
<1>5. TypeOK' BY <1>2, <1>3, <1>4 DEF TypeOK
<1>6. OthersStill(r)
  <2>1. \A q \in Rows : q # r => Untouched(q)
      BY <1>1 DEF Untouched, TypeOK, RowOK, UberOK, AskCancel
  <2>. QED BY <1>1, <2>1 DEF TypeOK, OthersStill, Still, Rows, Failed, Heard, Goes, Others, Keeps
<1>7. Numbers(r) /\ Numbers(r)' /\ Names(r) /\ Names(r)' BY <1>5, TypedRow, TypedRowAfter
<1>8. ClaimsAt(r)' BY <1>1 DEF Heard, Others, Keeps, Claims, Calls, On, ClaimsAt, RowInv
<1>9. FeesAt(r)' BY <1>1 DEF Heard, Others, Keeps, Turns, Calls, On, FeesAt, RowInv
<1>10. TruthsAt(r)' BY <1>1 DEF Heard, Others, Turns, Ended, Deliveries, TruthsAt, RowInv
<1>11. NothingAt(r)'
    BY <1>1, <1>7 DEF Heard, Others, Keeps, InCall, Calls, On, NothingAt, ClaimsAt, UndisturbedAt,
        RowInv, TypeOK, Names
<1>12. UndisturbedAt(r)'
    BY <1>1, <1>7 DEF Heard, Others, Keeps, InCall, Turns, Calls, On, UndisturbedAt, RowInv, Tasks,
        Numbers, Names, RowStatus
<1>13. HandAt(r)' BY <1>1, <1>7 DEF Live, HandAt, RowInv, TypeOK, RowStatus
<1>. QED BY <1>5, <1>6, <1>8, <1>9, <1>10, <1>11, <1>12, <1>13 DEF RowInv

\* The answer of a dispatch: a row being cancelled only learns that there is a courier, and a row
\* that another claim has is left alone.
LEMMA RecordDispatchHolds ==
    ASSUME TypeOK, NEW w \in Workers, NEW r \in Rows, caller[w].row = r, RowInv(r),
           RecordDispatch(w)
    PROVE  TypeOK' /\ OthersStill(r) /\ RowInv(r)'
<1>1. /\ caller[w].task = "dispatch" /\ caller[w].at = "record" /\ Leaves(w)
      /\ UNCHANGED <<uber, missed, faults>>
      /\ \/ row[r].status = "cancelling" /\ caller[w].answer \in Deliveries /\ Learns(r, "cancelling", "now")
         \/ row[r].status = "cancelling" /\ caller[w].answer \notin Deliveries /\ Becomes(r, "cancelling", "now")
         \/ row[r].status # "cancelling" /\ ~StillMine(w) /\ row'[r] = row[r]
         \/ StillMine(w) /\ caller[w].answer \in Deliveries /\ Follows(r, caller[w].answer)
         \/ /\ StillMine(w) /\ caller[w].answer = "over"
            /\ RowIs(r, "awaiting_confirmation", "never", row[r].attempts, row[r].quote, row[r].id,
                     row[r].cap, caller[w].fee)
         \/ StillMine(w) /\ caller[w].answer \notin Deliveries /\ Becomes(r, "failed", "never")
         \/ StillMine(w) /\ caller[w].answer \notin Deliveries /\ Becomes(r, "requested", "later")
  <2>1. Leaves(w) BY FreeLeaves DEF TypeOK, RecordDispatch
  <2>2. CASE row[r].status = "cancelling"
      BY <2>1, <2>2 DEF RecordDispatch, TypeOK, RowOK, RowRecords, Learns, Becomes, RowIs
  <2>3. CASE row[r].status # "cancelling" /\ ~StillMine(w)
      BY <2>1, <2>3 DEF RecordDispatch, TypeOK, RowOK
  <2>4. CASE row[r].status # "cancelling" /\ StillMine(w) /\ caller[w].answer \in Deliveries
    <3>1. row' = [row EXCEPT ![r] = Applied(@, caller[w].answer)] BY <2>4 DEF RecordDispatch
    <3>. QED BY <2>1, <2>4, <3>1, AppliedFollows DEF RecordDispatch, TypeOK
  <2>5. CASE row[r].status # "cancelling" /\ StillMine(w) /\ caller[w].answer \notin Deliveries
      BY <2>1, <2>5 DEF RecordDispatch, TypeOK, RowOK, RowRecords, Becomes, RowIs
  <2>. QED BY <2>2, <2>3, <2>4, <2>5
<1>2. RowOK' /\ UberOK' /\ CallerOK'
    BY RecordDispatchRow, FreedCaller DEF TypeOK, RecordDispatch, UberOK
<1>3. StepsOK' BY <1>1 DEF TypeOK, StepsOK, Leaves, Others, Tasks
<1>4. missed' \subseteq Rows /\ faults' \in Nat BY <1>1 DEF TypeOK
<1>5. TypeOK' BY <1>2, <1>3, <1>4 DEF TypeOK
<1>6. OthersStill(r)
  <2>1. \A q \in Rows : q # r => Untouched(q)
      BY <1>1 DEF Untouched, TypeOK, RowOK, UberOK, RecordDispatch
  <2>. QED BY <1>1, <2>1 DEF TypeOK, OthersStill, Still, Rows, Leaves, Others
<1>7. Numbers(r) /\ Numbers(r)' /\ Names(r) /\ Names(r)' BY <1>5, TypedRow, TypedRowAfter
<1>8. ClaimsAt(r)'
  <2>1. /\ row'[r].attempts = row[r].attempts /\ row'[r].quote = row[r].quote
        /\ row[r].status = "cancelling" => row'[r].status = "cancelling"
      BY <1>1 DEF StillMine, Becomes, Learns, RowIs, Follows
  <2>. QED BY <1>1, <2>1 DEF Leaves, Others, Claims, Calls, On, ClaimsAt, RowInv
<1>9. FeesAt(r)'
  <2>1. /\ row'[r].attempts = row[r].attempts /\ row'[r].cap = row[r].cap
        /\ row'[r].status = "creating" => row[r].status = "creating"
        /\ row'[r].status = "awaiting_confirmation" =>
              \/ row[r].status = "awaiting_confirmation" /\ row'[r].quoted = row[r].quoted
              \/ StillMine(w) /\ caller[w].answer = "over" /\ row'[r].quoted = caller[w].fee
      BY <1>1 DEF Becomes, Learns, RowIs, Follows
  <2>2. row'[r].status = "awaiting_confirmation" => row'[r].quoted >= row'[r].cap
      BY <1>1, <1>7, <2>1 DEF FeesAt, StillMine, Calls, On, RowInv, Numbers
  <2>. QED BY <1>1, <2>1, <2>2 DEF Leaves, Others, Calls, On, FeesAt, RowInv
<1>10. TruthsAt(r)'
    BY <1>1, <1>7 DEF Leaves, Others, StillMine, Becomes, Learns, RowIs, Follows, TruthsAt, RowInv,
        StepsOK, Tasks, Numbers, Names, RowStatus
<1>11. NothingAt(r)'
  <2>1. row'[r].attempts = row[r].attempts BY <1>1 DEF Becomes, Learns, RowIs, Follows
  <2>2. Calls(w, r) BY <1>1 DEF Calls, On
  <2>. QED BY <1>1, <2>1, <2>2 DEF Leaves, Others, Calls, On, NothingAt, RowInv
<1>12. UndisturbedAt(r)'
  <2>1. Calls(w, r) /\ \A x \in Workers : Calls(x, r)' => x # w /\ Calls(x, r)
      BY <1>1, <1>3 DEF Leaves, Others, Calls, On, StepsOK
  <2>2. ASSUME faults' = 0 PROVE \A x \in Workers : ~Calls(x, r)'
      BY <1>1, <2>1, <2>2 DEF RowInv, UndisturbedAt
  <2>3. ASSUME faults' = 0, uber'[r].state # "none"
        PROVE  /\ row'[r].status \notin {"none", "requested", "awaiting_confirmation", "creating"}
               /\ row'[r].quote = uber'[r].quote
    <3>1. /\ row[r].status \notin {"none", "requested", "awaiting_confirmation"}
          /\ row[r].quote = uber[r].quote
          /\ row[r].status = "creating" => StillMine(w) /\ caller[w].answer \in Deliveries
        BY <1>1, <2>1, <2>3 DEF RowInv, UndisturbedAt, StillMine
    <3>. QED BY <1>1, <3>1 DEF StillMine, Becomes, Learns, RowIs, Follows, Ended, Deliveries
  <2>. QED BY <2>2, <2>3 DEF UndisturbedAt
<1>13. HandAt(r)'
    BY <1>1 DEF StillMine, Becomes, Learns, RowIs, Follows, Calls, On, OPEN, Ended, Live, HandAt,
        TruthsAt, UndisturbedAt, RowInv
<1>. QED BY <1>5, <1>6, <1>8, <1>9, <1>10, <1>11, <1>12, <1>13 DEF RowInv

\* The answer of a look is applied to an active row.
LEMMA RecordTrackHolds ==
    ASSUME TypeOK, NEW w \in Workers, NEW r \in Rows, caller[w].row = r, RowInv(r),
           RecordTrack(w)
    PROVE  TypeOK' /\ OthersStill(r) /\ RowInv(r)'
<1>1. /\ caller[w].task = "track" /\ caller[w].at = "record" /\ Leaves(w)
      /\ UNCHANGED <<uber, missed, faults>>
      /\ \/ row' = row
         \/ /\ row[r].status = "active" /\ caller[w].answer \in Deliveries
            /\ Follows(r, caller[w].answer)
  <2>1. Leaves(w) BY FreeLeaves DEF TypeOK, RecordTrack
  <2>2. CASE row[r].status = "active" /\ caller[w].answer \in Deliveries
    <3>1. row' = [row EXCEPT ![r] = Applied(@, caller[w].answer)] BY <2>2 DEF RecordTrack
    <3>. QED BY <2>1, <2>2, <3>1, AppliedFollows DEF RecordTrack, TypeOK
  <2>3. CASE ~(row[r].status = "active" /\ caller[w].answer \in Deliveries)
      BY <2>1, <2>3 DEF RecordTrack
  <2>. QED BY <2>2, <2>3
<1>2. RowOK' /\ UberOK' /\ CallerOK'
    BY RecordTrackRow, FreedCaller DEF TypeOK, RecordTrack, UberOK
<1>3. StepsOK' BY <1>1 DEF TypeOK, StepsOK, Leaves, Others, Tasks
<1>4. missed' \subseteq Rows /\ faults' \in Nat BY <1>1 DEF TypeOK
<1>5. TypeOK' BY <1>2, <1>3, <1>4 DEF TypeOK
<1>6. OthersStill(r)
  <2>1. \A q \in Rows : q # r => Untouched(q)
      BY <1>1 DEF Untouched, TypeOK, RowOK, UberOK, RecordTrack
  <2>. QED BY <1>1, <2>1 DEF TypeOK, OthersStill, Still, Rows, Leaves, Others
<1>7. Numbers(r) /\ Numbers(r)' /\ Names(r) /\ Names(r)' BY <1>5, TypedRow, TypedRowAfter
<1>8. ClaimsAt(r)'
    BY <1>1 DEF Leaves, Others, Learns, RowIs, Follows, Claims, Calls, On, ClaimsAt, RowInv
<1>9. FeesAt(r)' BY <1>1 DEF Leaves, Others, Learns, RowIs, Follows, Calls, On, FeesAt, RowInv
<1>10. TruthsAt(r)' BY <1>1 DEF Leaves, Others, Learns, RowIs, Follows, TruthsAt, RowInv
<1>11. NothingAt(r)'
    BY <1>1 DEF Leaves, Others, Learns, RowIs, Follows, Calls, On, NothingAt, ClaimsAt, RowInv
<1>12. UndisturbedAt(r)'
    BY <1>1, <1>7 DEF Leaves, Others, Learns, RowIs, Follows, Calls, On, InCall, UndisturbedAt,
        TruthsAt, RowInv, Tasks, Names, RowStatus
<1>13. HandAt(r)' BY <1>1 DEF Learns, RowIs, Follows, OPEN, Ended, Live, HandAt, TruthsAt, RowInv
<1>. QED BY <1>5, <1>6, <1>8, <1>9, <1>10, <1>11, <1>12, <1>13 DEF RowInv

\* The answer of a cancel counts only for the claim that has the row.
LEMMA RecordCancelHolds ==
    ASSUME TypeOK, NEW w \in Workers, NEW r \in Rows, caller[w].row = r, RowInv(r),
           RecordCancel(w)
    PROVE  TypeOK' /\ OthersStill(r) /\ RowInv(r)'
<1>1. /\ caller[w].task = "cancel" /\ caller[w].at = "record" /\ Leaves(w)
      /\ UNCHANGED <<uber, missed, faults>>
      /\ \/ (row[r].status # "cancelling" \/ row[r].attempts # caller[w].claim) /\ row'[r] = row[r]
         \/ /\ row[r].status = "cancelling" /\ row[r].attempts = caller[w].claim
            /\ \/ caller[w].answer = "canceled" /\ Follows(r, "canceled")
               \/ caller[w].answer = "nothing" /\ Becomes(r, "cancelled", "never")
               \/ caller[w].answer \notin {"canceled", "nothing"} /\ Becomes(r, "active", "never")
               \/ caller[w].answer \notin {"canceled", "nothing"} /\ Becomes(r, "cancelling", "later")
  <2>1. Leaves(w) BY FreeLeaves DEF TypeOK, RecordCancel
  <2>2. CASE row[r].status # "cancelling" \/ row[r].attempts # caller[w].claim
      BY <2>1, <2>2 DEF RecordCancel, TypeOK, RowOK
  <2>3. CASE /\ row[r].status = "cancelling" /\ row[r].attempts = caller[w].claim
             /\ caller[w].answer = "canceled"
    <3>1. row' = [row EXCEPT ![r] = Applied(@, "canceled")] BY <2>3 DEF RecordCancel
    <3>. QED BY <2>1, <2>3, <3>1, AppliedFollows DEF RecordCancel, TypeOK
  <2>4. CASE /\ row[r].status = "cancelling" /\ row[r].attempts = caller[w].claim
             /\ caller[w].answer # "canceled"
      BY <2>1, <2>4 DEF RecordCancel, TypeOK, RowOK, RowRecords, Becomes, RowIs, AfterRefusal
  <2>. QED BY <2>2, <2>3, <2>4
<1>2. RowOK' /\ UberOK' /\ CallerOK'
    BY RecordCancelRow, FreedCaller DEF TypeOK, RecordCancel, UberOK
<1>3. StepsOK' BY <1>1 DEF TypeOK, StepsOK, Leaves, Others, Tasks
<1>4. missed' \subseteq Rows /\ faults' \in Nat BY <1>1 DEF TypeOK
<1>5. TypeOK' BY <1>2, <1>3, <1>4 DEF TypeOK
<1>6. OthersStill(r)
  <2>1. \A q \in Rows : q # r => Untouched(q)
      BY <1>1 DEF Untouched, TypeOK, RowOK, UberOK, RecordCancel
  <2>. QED BY <1>1, <2>1 DEF TypeOK, OthersStill, Still, Rows, Leaves, Others
<1>8. ClaimsAt(r)'
    BY <1>1 DEF Leaves, Others, Learns, RowIs, Follows, Becomes, Claims, Calls, On, ClaimsAt, RowInv
<1>9. FeesAt(r)'
    BY <1>1 DEF Leaves, Others, Learns, RowIs, Follows, Becomes, Calls, On, FeesAt, RowInv
<1>10. TruthsAt(r)'
    BY <1>1 DEF Leaves, Others, Learns, RowIs, Follows, Becomes, Deliveries, TruthsAt, RowInv
<1>11. NothingAt(r)'
    BY <1>1 DEF Leaves, Others, Learns, RowIs, Follows, Becomes, Claims, Calls, On, NothingAt,
        ClaimsAt, RowInv
<1>12. UndisturbedAt(r)'
    BY <1>1 DEF Leaves, Others, Learns, RowIs, Follows, Becomes, Calls, On, InCall, Deliveries,
        CLOSED, UndisturbedAt, TruthsAt, NothingAt, RowInv
<1>13. HandAt(r)'
    BY <1>1 DEF RowIs, Becomes, On, OPEN, Ended, Live, HandAt, TruthsAt, NothingAt, RowInv
<1>. QED BY <1>5, <1>6, <1>8, <1>9, <1>10, <1>11, <1>12, <1>13 DEF RowInv

\* A worker that dies leaves what it did, and that is a fault.
LEMMA DiesHolds ==
    ASSUME TypeOK, NEW w \in Workers, NEW r \in Rows, caller[w].row = r, RowInv(r),
           Dies(w)
    PROVE  TypeOK' /\ OthersStill(r) /\ RowInv(r)'
<1>1. Leaves(w) /\ UNCHANGED <<row, uber, missed>> /\ faults' = faults + 1
    BY FreeLeaves DEF TypeOK, Dies, Spend
<1>2. RowOK' /\ UberOK' /\ CallerOK'
    BY FreedCaller DEF TypeOK, Dies, RowOK, UberOK
<1>3. StepsOK' BY <1>1 DEF TypeOK, StepsOK, Leaves, Others, Tasks
<1>4. missed' \subseteq Rows /\ faults' \in Nat BY <1>1 DEF TypeOK
<1>5. TypeOK' BY <1>2, <1>3, <1>4 DEF TypeOK
<1>6. OthersStill(r)
  <2>1. \A q \in Rows : q # r => Untouched(q)
      BY DEF Untouched, Dies
  <2>. QED BY <1>1, <2>1 DEF TypeOK, OthersStill, Still, Rows, Leaves, Others
<1>8. ClaimsAt(r)' BY <1>1 DEF Leaves, Others, Claims, Calls, On, ClaimsAt, RowInv
<1>9. FeesAt(r)' BY <1>1 DEF Leaves, Others, Calls, On, FeesAt, RowInv
<1>10. TruthsAt(r)' BY <1>1 DEF Leaves, Others, TruthsAt, RowInv
<1>11. NothingAt(r)' BY <1>1 DEF Leaves, Others, Calls, On, NothingAt, RowInv, TypeOK
<1>12. UndisturbedAt(r)' BY <1>1 DEF UndisturbedAt, TypeOK
<1>13. HandAt(r)' BY <1>1 DEF HandAt, RowInv, TypeOK
<1>. QED BY <1>5, <1>6, <1>8, <1>9, <1>10, <1>11, <1>12, <1>13 DEF RowInv

-----------------------------------------------------------------------------
(* All together *)

LEMMA InitHolds ==
    ASSUME CourierInit
    PROVE  IInv
<1>1. RowOK /\ UberOK /\ CallerOK
    BY CourierAssumption DEF CourierInit, RowOK, UberOK, CallerOK, RowRecords, RowStatus, Nexts,
        UberRecords, Callers, Free, Answers, Tasks, Places
<1>2. StepsOK BY DEF CourierInit, StepsOK, Free, Tasks
<1>3. TypeOK BY <1>1, <1>2 DEF TypeOK, CourierInit
<1>4. ASSUME NEW r \in Rows PROVE RowInv(r)
  <2>1. row[r].status = "none" /\ row[r].id = "none" /\ uber[r].state = "none" BY DEF CourierInit
  <2>2. \A w \in Workers : caller[w].row = 0 /\ caller[w].task = "none" /\ r # 0
    BY CourierAssumption DEF CourierInit, Free, Rows
  <2>3. ClaimsAt(r) BY <2>2 DEF ClaimsAt, Claims, Calls, On
  <2>4. FeesAt(r) BY <2>1, <2>2 DEF FeesAt, Calls, On
  <2>5. TruthsAt(r) BY <2>1, <2>2 DEF TruthsAt
  <2>6. NothingAt(r) BY <2>2 DEF NothingAt, On
  <2>7. UndisturbedAt(r) BY <2>1, <2>2 DEF UndisturbedAt, Calls, On
  <2>8. HandAt(r) BY <2>1 DEF HandAt, Live
  <2>. QED BY <2>3, <2>4, <2>5, <2>6, <2>7, <2>8 DEF RowInv
<1>. QED BY <1>3, <1>4 DEF IInv

\* One row holds and the others were not touched.
LEMMA Combined ==
    ASSUME IInv, NEW r \in Rows, TypeOK' /\ OthersStill(r) /\ RowInv(r)'
    PROVE  IInv'
<1>1. ASSUME NEW q \in Rows PROVE RowInv(q)'
    BY StillHolds DEF IInv, OthersStill
<1>. QED BY <1>1 DEF IInv, Rows

\* No row was touched.
LEMMA NothingTouched ==
    ASSUME IInv, TypeOK', \A r \in Rows : Still(r)
    PROVE  IInv'
<1>1. ASSUME NEW q \in Rows PROVE RowInv(q)'
    BY StillHolds DEF IInv
<1>. QED BY <1>1 DEF IInv, Rows

LEMMA OrderOnly ==
    ASSUME IInv, UNCHANGED <<row, uber, caller, missed, faults>>
    PROVE  IInv'
<1>1. TypeOK' BY DEF IInv, TypeOK, RowOK, UberOK, CallerOK, StepsOK
<1>2. \A r \in Rows : Still(r) BY DEF Still, Untouched
<1>. QED BY <1>1, <1>2, NothingTouched

\* A worker that is somewhere is on a row.
LEMMA OnARow ==
    ASSUME TypeOK, NEW w \in Workers, caller[w].row # 0
    PROVE  caller[w].row \in Rows
BY CourierAssumption DEF TypeOK, CallerOK, Callers, Rows

LEMMA AtIsOnARow ==
    ASSUME TypeOK, NEW w \in Workers, caller[w].at # "none"
    PROVE  caller[w].row \in Rows
BY OnARow DEF TypeOK, StepsOK

LEMMA DeathHolds ==
    ASSUME IInv, NEW w \in Workers, Dies(w)
    PROVE  IInv'
<1>1. CASE caller[w].row # 0
    BY <1>1, OnARow, DiesHolds, Combined DEF IInv
<1>2. CASE caller[w].row = 0
  <2>1. Leaves(w) /\ UNCHANGED <<row, uber, missed>> /\ faults' = faults + 1
    BY FreeLeaves DEF IInv, TypeOK, Dies, Spend
  <2>2. CallerOK' BY FreedCaller DEF IInv, TypeOK, Dies
  <2>3. StepsOK' BY <2>1 DEF IInv, TypeOK, StepsOK, Leaves, Others, Tasks
  <2>4. TypeOK' BY <2>1, <2>2, <2>3 DEF IInv, TypeOK, RowOK, UberOK
  <2>5. \A r \in Rows : Still(r)
    BY <2>1, <1>2 DEF IInv, TypeOK, Still, Untouched, Leaves, Others, Rows
  <2>. QED BY <2>4, <2>5, NothingTouched
<1>. QED BY <1>1, <1>2

LEMMA WorkHolds ==
    ASSUME IInv, NEW w \in Workers, Works(w)
    PROVE  IInv'
<1>. DEFINE r == caller[w].row
<1>0. TypeOK BY DEF IInv
<1>1. ASSUME NEW q \in Rows, StartDispatch(w, q) PROVE IInv'
    BY <1>1, StartDispatchHolds, Combined DEF IInv
<1>2. ASSUME NEW q \in Rows, StartTrack(w, q) PROVE IInv'
    BY <1>2, StartTrackHolds, Combined DEF IInv
<1>3. ASSUME NEW q \in Rows, StartCancel(w, q) PROVE IInv'
    BY <1>3, StartCancelHolds, Combined DEF IInv
<1>4. ASSUME Find(w) \/ Quote(w) \/ Remember(w) \/ Create(w) \/ AskTrack(w) \/ AskCancel(w)
             \/ RecordDispatch(w) \/ RecordTrack(w) \/ RecordCancel(w)
      PROVE  r \in Rows
  <2>1. r \in Rows BY <1>0, <1>4, AtIsOnARow DEF Find, Quote, Remember, Create, AskTrack, AskCancel,
                      RecordDispatch, RecordTrack, RecordCancel
  <2>. QED BY <2>1
<1>5. CASE Find(w) BY <1>4, <1>5, FindHolds, Combined DEF IInv
<1>6. CASE Quote(w) BY <1>4, <1>6, QuoteHolds, Combined DEF IInv
<1>7. CASE Remember(w) BY <1>4, <1>7, RememberHolds, Combined DEF IInv
<1>8. CASE Create(w) BY <1>4, <1>8, CreateHolds, Combined DEF IInv
<1>9. CASE AskTrack(w) BY <1>4, <1>9, AskTrackHolds, Combined DEF IInv
<1>10. CASE AskCancel(w) BY <1>4, <1>10, AskCancelHolds, Combined DEF IInv
<1>11. CASE RecordDispatch(w) BY <1>4, <1>11, RecordDispatchHolds, Combined DEF IInv
<1>12. CASE RecordTrack(w) BY <1>4, <1>12, RecordTrackHolds, Combined DEF IInv
<1>13. CASE RecordCancel(w) BY <1>4, <1>13, RecordCancelHolds, Combined DEF IInv
<1>. QED BY <1>1, <1>2, <1>3, <1>5, <1>6, <1>7, <1>8, <1>9, <1>10, <1>11, <1>12, <1>13 DEF Works

LEMMA ConsumeHolds ==
    ASSUME IInv, NEW e, Consume(e)
    PROVE  IInv'
<1>1. UNCHANGED <<uber, caller, missed, faults>> BY DEF Consume
<1>2. ASSUME NEW r \in Open, Cancelled(r) PROVE IInv'
  <2>1. r \in Rows BY DEF Open
  <2>. QED BY <1>1, <1>2, <2>1, CancelledHolds, Combined DEF IInv
<1>3. ASSUME NEW r \in Rows, Reserve(r) PROVE IInv'
    BY <1>1, <1>3, ReserveHolds, Combined DEF IInv
<1>4. CASE UNCHANGED row BY <1>1, <1>4, OrderOnly
<1>. QED BY <1>2, <1>3, <1>4 DEF Consume

LEMMA NextHolds ==
    ASSUME IInv, [CourierNext]_courierVars
    PROVE  IInv'
<1>1. ASSUME NEW target, OrderMoves(target) PROVE IInv'
    BY <1>1, OrderOnly DEF OrderMoves
<1>2. ASSUME NEW e, Consume(e) PROVE IInv'
    BY <1>2, ConsumeHolds
<1>3. ASSUME NEW r \in Rows, RequestCourier(r) PROVE IInv'
    BY <1>3, ReserveHolds, Combined DEF IInv, RequestCourier
<1>4. ASSUME NEW r \in Rows, ConfirmFee(r) PROVE IInv'
    BY <1>4, ConfirmFeeHolds, Combined DEF IInv
<1>5. ASSUME NEW r \in Rows, RequestCancel(r) PROVE IInv'
    BY <1>5, CancelledHolds, Combined DEF IInv, RequestCancel
<1>6. ASSUME NEW r \in Rows, WebhookHint(r) PROVE IInv'
    BY <1>6, WebhookHintHolds, Combined DEF IInv
<1>7. ASSUME NEW r \in Rows, CannotCall(r) PROVE IInv'
    BY <1>7, CannotCallHolds, Combined DEF IInv
<1>8. ASSUME NEW r \in Rows, UberMoves(r) PROVE IInv'
    BY <1>8, UberMovesHolds, Combined DEF IInv
<1>9. ASSUME NEW r \in Rows, TimeComes(r) PROVE IInv'
    BY <1>9, TimeComesHolds, Combined DEF IInv
<1>10. ASSUME NEW w \in Workers, Works(w) PROVE IInv'
    BY <1>10, WorkHolds
<1>11. ASSUME NEW w \in Workers, Dies(w) PROVE IInv'
    BY <1>11, DeathHolds
<1>12. CASE UNCHANGED courierVars BY <1>12, OrderOnly DEF courierVars
<1>. QED BY <1>1, <1>2, <1>3, <1>4, <1>5, <1>6, <1>7, <1>8, <1>9, <1>10, <1>11, <1>12 DEF CourierNext

LEMMA InvIsHand ==
    ASSUME IInv
    PROVE  CourierInHand
<1>1. KnownCourierFollowed BY DEF IInv, RowInv, HandAt, KnownCourierFollowed, Open
<1>2. NoCourierLeft BY DEF IInv, RowInv, HandAt, NoCourierLeft, Open
<1>3. FeeAccepted BY DEF IInv, RowInv, FeesAt, FeeAccepted
<1>. QED BY <1>1, <1>2, <1>3 DEF CourierInHand

\* No courier gets out of the store's hands: one the store knows of has an open row until it is done,
\* without an error so has any other, and none costs more than the store accepted; but for the
\* rows whose cancel looked too early (courier/service.py).
THEOREM CourierStaysInHand == CourierSpec => []CourierInHand
<1>1. CourierInit => IInv BY InitHolds
<1>2. IInv /\ [CourierNext]_courierVars => IInv' BY NextHolds
<1>3. IInv => CourierInHand BY InvIsHand
<1>. QED BY <1>1, <1>2, <1>3, PTL DEF CourierSpec

-----------------------------------------------------------------------------
(* The labels: dispatches one after the other (OneAtATime), whatever the mode, the refusals, lost *)
(* answers and deaths.  A volume that was bought and is not lost has its label in the row or in   *)
(* the hands of the dispatch that bought it.  With a label each, what a dispatch knows of the     *)
(* labels is what the row says; with one for all, the row has it only once it is purchased, and a *)
(* dispatch begins without it.                                                                    *)

OneAtATime == \A c, d \in Clerks : c = d

ShipmentRows == [status : {"none", "creating", "failed"} \cup S!DONE, label : [1..2 -> BOOLEAN],
                 recent : BOOLEAN]
Dispatches == [at : {"none", "row", "ship", "mark"}, mine : ShipmentRows, was : ShipmentRows,
               new : BOOLEAN, holds : BOOLEAN]
Carriers == [mode : {"one", "each"}, stamped : BOOLEAN, bought : [1..2 -> Nat], lost : [1..2 -> Nat],
             volume : [1..2 -> {"bought", "posted", "delivered"}]]
ShipmentTypes ==
    /\ shipment \in ShipmentRows /\ carrier \in Carriers /\ clerk \in [Clerks -> Dispatches]
    /\ tracker # "none" => shipment.status # "none"
    /\ \A c \in Clerks : clerk[c].at = "none" => clerk[c] = S!Gone

\* What a dispatch may have read: nothing that was bought already.
NotDone(c) ==
    clerk[c].at # "none" => /\ clerk[c].mine.status \notin S!DONE /\ clerk[c].was.status \notin S!DONE
                            /\ clerk[c].at \in {"ship", "mark"} => clerk[c].mine.status # "none"
                            /\ clerk[c].at = "row" /\ clerk[c].mine.status = "none" =>
                                    shipment.status = "none"
KnowsEach(c) ==
    carrier.mode = "each" /\ clerk[c].at # "none" =>
        clerk[c].mine.label = shipment.label /\ clerk[c].was.label = shipment.label
KnowsOne(c) ==
    carrier.mode = "one" /\ clerk[c].at # "none" =>
        /\ ~shipment.label[1] /\ ~clerk[c].was.label[1]
        /\ clerk[c].mine.label[1] <=> clerk[c].at = "mark"
LabelledIsDone == carrier.mode = "one" /\ shipment.label[1] => shipment.status \in S!DONE

InHand(n) == shipment.label[n] \/ \E c \in Clerks : clerk[c].mine.label[n]
Counted(n) == carrier.bought[n] <= carrier.lost[n] + (IF InHand(n) THEN 1 ELSE 0)
DispatchInv(c) == NotDone(c) /\ KnowsEach(c) /\ KnowsOne(c)
ShipmentInv ==
    /\ ShipmentTypes /\ LabelledIsDone
    /\ \A c \in Clerks : DispatchInv(c)
    /\ \A n \in S!Volumes : Counted(n)

\* A step of nobody's dispatch: the labels stay, and the row's status moves only forward.
Background ==
    /\ clerk' = clerk /\ carrier' \in Carriers
    /\ carrier'.mode = carrier.mode /\ carrier'.bought = carrier.bought /\ carrier'.lost = carrier.lost
    /\ shipment' \in ShipmentRows /\ shipment'.label = shipment.label
    /\ shipment'.status = shipment.status \/ (shipment'.status \in S!DONE /\ shipment.status # "none")
    /\ tracker' # "none" => shipment'.status # "none"

\* Such a step keeps the invariant.
LEMMA BackgroundHolds ==
    ASSUME ShipmentInv, Background
    PROVE  ShipmentInv'
<1>1. ShipmentTypes' BY DEF ShipmentInv, Background, ShipmentTypes
<1>2. LabelledIsDone' BY DEF ShipmentInv, Background, LabelledIsDone
<1>3. ASSUME NEW c \in Clerks PROVE DispatchInv(c)'
  <2>1. NotDone(c)' BY DEF ShipmentInv, Background, DispatchInv, NotDone, S!DONE
  <2>2. KnowsEach(c)' /\ KnowsOne(c)' BY DEF ShipmentInv, Background, DispatchInv, KnowsEach, KnowsOne
  <2>. QED BY <2>1, <2>2 DEF DispatchInv
<1>4. S!Volumes' = S!Volumes BY DEF Background, S!Volumes
<1>5. ASSUME NEW n \in S!Volumes PROVE Counted(n)'
  BY DEF ShipmentInv, Background, Counted, InHand
<1>. QED BY <1>1, <1>2, <1>3, <1>4, <1>5 DEF ShipmentInv

\* The clock, the customer, the carrier and the tracking are such steps.
LEMMA OthersAreBackground ==
    ASSUME ShipmentInv,
           \/ S!TenMinutes \/ S!CancelOrder \/ S!TrackStarts \/ S!TrackEnds
           \/ \E n \in 1..2 : S!CarrierMoves(n)
           \/ UNCHANGED S!shipmentVars
    PROVE  Background
<1> USE DEF ShipmentInv, ShipmentTypes
<1>1. CASE S!TenMinutes BY <1>1 DEF S!TenMinutes, Background, ShipmentRows
<1>2. CASE S!CancelOrder BY <1>2 DEF S!CancelOrder, Background
<1>3. CASE S!TrackStarts BY <1>3 DEF S!TrackStarts, Background, S!OPEN_SHIPMENT
<1>4. CASE S!TrackEnds
  <2> DEFINE next == S!Combined({carrier.volume[n] : n \in S!Volumes})
  <2>1. next \in {"delivered", "purchased", "posted"} BY DEF S!Combined
  <2> HIDE DEF next
  <2>2. /\ UNCHANGED <<carrier, clerk>> /\ tracker' = "none" /\ tracker # "none"
        /\ \/ shipment' = [shipment EXCEPT !.status = IF next # tracker THEN next ELSE @]
           \/ shipment' = shipment
    BY <1>4 DEF S!TrackEnds, next
  <2>. QED BY <2>1, <2>2 DEF Background, ShipmentRows, S!DONE
<1>5. CASE \E n \in 1..2 : S!CarrierMoves(n)
  <2>1. PICK n \in 1..2 : S!CarrierMoves(n) BY <1>5
  <2>2. PICK step \in {<<"bought", "posted">>, <<"posted", "delivered">>} :
          carrier' = [carrier EXCEPT !.volume[n] = step[2]]
    BY <2>1 DEF S!CarrierMoves
  <2>3. step[2] \in {"posted", "delivered"} BY <2>2
  <2>4. UNCHANGED <<shipment, clerk, tracker>> BY <2>1 DEF S!CarrierMoves
  <2>5. carrier' \in Carriers /\ carrier'.mode = carrier.mode /\ carrier'.bought = carrier.bought
        /\ carrier'.lost = carrier.lost
    BY <2>2, <2>3 DEF Carriers
  <2>. QED BY <2>4, <2>5 DEF Background
<1>6. CASE UNCHANGED S!shipmentVars BY <1>6 DEF S!shipmentVars, Background
<1>. QED BY <1>1, <1>2, <1>3, <1>4, <1>5, <1>6

\* A step of the one dispatch there is, which puts k in the place of what it has.
Puts(c, k) == clerk' = [clerk EXCEPT ![c] = k]

\* What is left to show of such a step.
LEMMA PutHolds ==
    ASSUME OneAtATime, ShipmentInv, NEW c \in Clerks, NEW k \in Dispatches, Puts(c, k),
           k.at = "none" => k = S!Gone,
           carrier' \in Carriers, carrier'.mode = carrier.mode,
           shipment' \in ShipmentRows, shipment.status # "none" => shipment'.status # "none",
           tracker' = tracker,
           LabelledIsDone', DispatchInv(c)',
           \A n \in S!Volumes : Counted(n)'
    PROVE  ShipmentInv'
<1>1. ShipmentTypes' BY DEF ShipmentInv, ShipmentTypes, Puts
<1>2. \A d \in Clerks : d = c BY DEF OneAtATime
<1>3. S!Volumes' = S!Volumes BY DEF S!Volumes
<1>. QED BY <1>1, <1>2, <1>3 DEF ShipmentInv

LEMMA GoneIsDispatch ==
    /\ S!NoRow \in ShipmentRows /\ S!Gone \in Dispatches /\ S!Gone.at = "none" /\ S!Gone.mine = S!NoRow
    /\ S!NoRow.label = [n \in 1..2 |-> FALSE]
BY DEF S!Gone, S!NoRow, ShipmentRows, Dispatches

\* A dispatch begins with what the row says, of labels not all bought yet.
LEMMA OpensHolds ==
    ASSUME OneAtATime, ShipmentInv, NEW c \in Clerks, S!Opens(c)
    PROVE  ShipmentInv'
<1> USE DEF ShipmentInv, ShipmentTypes
<1> DEFINE k == [S!Gone EXCEPT !.at = "row", !.mine = shipment, !.was = shipment]
<1>1. /\ k \in Dispatches /\ k.at = "row" /\ k.mine = shipment /\ k.was = shipment
  BY GoneIsDispatch DEF S!Gone, Dispatches
<1>2. /\ clerk' = [clerk EXCEPT ![c] = k] /\ clerk[c] = S!Gone /\ shipment.status \notin S!DONE
      /\ UNCHANGED <<sale, carrier, shipment, tracker, timeline, faults>>
  BY DEF S!Opens
<1> HIDE DEF k
<1>3. clerk'[c] = k BY <1>2
<1>4. LabelledIsDone' BY <1>2 DEF LabelledIsDone
<1>5. DispatchInv(c)'
  BY <1>1, <1>2, <1>3 DEF DispatchInv, NotDone, KnowsEach, KnowsOne, LabelledIsDone
<1>6. ASSUME NEW n \in S!Volumes PROVE Counted(n)'
  <2>1. n \in 1..2 BY DEF S!Volumes
  <2>2. InHand(n) => InHand(n)' BY <1>1, <1>2, <1>3, <2>1, GoneIsDispatch DEF InHand, OneAtATime
  <2>3. carrier.bought[n] \in Nat /\ carrier.lost[n] \in Nat BY <2>1 DEF Carriers
  <2>. QED BY <1>2, <2>2, <2>3 DEF Counted
<1>. QED BY <1>1, <1>2, <1>4, <1>5, <1>6, PutHolds DEF Puts

\* Taking the row, new or again, changes no label.
LEMMA TakesRowHolds ==
    ASSUME OneAtATime, ShipmentInv, NEW c \in Clerks, S!TakesRow(c)
    PROVE  ShipmentInv'
<1> USE DEF ShipmentInv, ShipmentTypes
<1> DEFINE own == clerk[c]
           mine == clerk[c].mine
           fresh == [clerk[c] EXCEPT !.at = "ship", !.mine.status = "creating", !.new = TRUE, !.holds = TRUE]
           again == [clerk[c] EXCEPT !.at = "ship", !.mine = [mine EXCEPT !.status = "creating"],
                                     !.was = mine, !.holds = TRUE]
<1>1. own \in Dispatches /\ own.at = "row" /\ mine \in ShipmentRows /\ mine.status \notin S!DONE
      /\ own.was.status \notin S!DONE /\ (mine.status = "none" => shipment.status = "none")
  BY DEF S!TakesRow, DispatchInv, NotDone, Dispatches
<1>2. UNCHANGED <<sale, carrier, shipment, tracker, timeline, faults>> BY DEF S!TakesRow
<1>3. PICK k \in {fresh, again, S!Gone} : clerk' = [clerk EXCEPT ![c] = k]
  <2>1. CASE mine.status # "none" BY <1>1, <2>1 DEF S!TakesRow, S!Retaken
  <2>2. CASE mine.status = "none" BY <1>1, <2>2 DEF S!TakesRow
  <2>. QED BY <2>1, <2>2
<1>4. /\ k \in Dispatches /\ (k.at = "none" => k = S!Gone)
      /\ k.at # "none" =>
            /\ k.at = "ship" /\ k.mine.status = "creating" /\ k.mine.label = mine.label
            /\ k.was \in {own.was, mine}
  <2>1. CASE k = fresh BY <1>1, <2>1 DEF Dispatches, ShipmentRows
  <2>2. CASE k = again BY <1>1, <2>2 DEF Dispatches, ShipmentRows
  <2>3. CASE k = S!Gone BY <2>3, GoneIsDispatch
  <2>. QED BY <2>1, <2>2, <2>3
<1>5. clerk'[c] = k BY <1>3
<1>6. LabelledIsDone' BY <1>2 DEF LabelledIsDone
<1>7. DispatchInv(c)'
  <2>1. NotDone(c)' BY <1>1, <1>4, <1>5 DEF NotDone, S!DONE
  <2>2. KnowsEach(c)' BY <1>1, <1>2, <1>4, <1>5 DEF DispatchInv, KnowsEach
  <2>3. KnowsOne(c)' BY <1>1, <1>2, <1>4, <1>5 DEF DispatchInv, KnowsOne
  <2>. QED BY <2>1, <2>2, <2>3 DEF DispatchInv
<1>8. ASSUME NEW n \in S!Volumes PROVE Counted(n)'
  <2>1. n \in 1..2 /\ (carrier.mode # "each" => n = 1) BY DEF S!Volumes
  <2>2. carrier.mode \in {"one", "each"} BY DEF Carriers
  <2>3. mine.label[n] => shipment.label[n] BY <1>1, <2>1, <2>2 DEF DispatchInv, KnowsEach, KnowsOne
  <2>4. InHand(n) => InHand(n)' BY <1>2, <2>3 DEF InHand, OneAtATime
  <2>5. carrier.bought[n] \in Nat /\ carrier.lost[n] \in Nat BY <2>1 DEF Carriers
  <2>. QED BY <1>2, <2>4, <2>5 DEF Counted
<1>. QED BY <1>2, <1>3, <1>4, <1>6, <1>7, <1>8, PutHolds DEF Puts

\* What a commit leaves in the row.
LEMMA CommitsRow ==
    ASSUME ShipmentTypes, NEW c \in Clerks, NEW written \in ShipmentRows, S!Commits(c, written)
    PROVE  /\ shipment' \in ShipmentRows
           /\ shipment'.status \in {written.status, shipment.status}
           /\ clerk[c].holds \/ written.status # clerk[c].was.status => shipment'.status = written.status
           /\ shipment'.label = IF written.label # clerk[c].was.label THEN written.label ELSE shipment.label
BY DEF S!Commits, ShipmentTypes, ShipmentRows

\* A dispatch that leaves: what it bought and knows is in the row, or lost.
LEMMA LeavesHolds ==
    ASSUME OneAtATime, ShipmentInv, NEW c \in Clerks, clerk[c].at # "none", S!Leaves(c),
           carrier' \in Carriers, carrier'.mode = carrier.mode, tracker' = tracker,
           shipment' \in ShipmentRows, shipment.status # "none" => shipment'.status # "none",
           LabelledIsDone',
           \A n \in S!Volumes :
                carrier'.bought[n] - carrier'.lost[n] <=
                carrier.bought[n] - carrier.lost[n]
                  + (IF shipment'.label[n] THEN 1 ELSE 0) - (IF InHand(n) THEN 1 ELSE 0)
    PROVE  ShipmentInv'
<1>1. clerk'[c] = S!Gone BY DEF S!Leaves, ShipmentInv, ShipmentTypes
<1>2. DispatchInv(c)' BY <1>1, GoneIsDispatch DEF DispatchInv, NotDone, KnowsEach, KnowsOne
<1>3. ASSUME NEW n \in S!Volumes PROVE Counted(n)'
  <2>1. n \in 1..2 BY DEF S!Volumes
  <2>2. /\ carrier.bought[n] \in Nat /\ carrier.lost[n] \in Nat
        /\ carrier'.bought[n] \in Nat /\ carrier'.lost[n] \in Nat
    BY <2>1 DEF ShipmentInv, ShipmentTypes, Carriers
  <2>3. Counted(n) BY DEF ShipmentInv
  <2>4. shipment'.label[n] => InHand(n)' BY DEF InHand
  <2>5. /\ carrier'.bought[n] - carrier'.lost[n] <=
                carrier.bought[n] - carrier.lost[n]
                  + (IF shipment'.label[n] THEN 1 ELSE 0) - (IF InHand(n) THEN 1 ELSE 0)
    OBVIOUS
  <2>. QED BY <2>2, <2>3, <2>4, <2>5 DEF Counted
<1>. QED BY <1>2, <1>3, GoneIsDispatch, PutHolds DEF S!Leaves, Puts

\* Its hands are empty but for the row, unless it holds the one label it has just bought.
LEMMA Hands ==
    ASSUME OneAtATime, ShipmentInv, NEW c \in Clerks, clerk[c].at # "none",
           NEW n \in S!Volumes
    PROVE  /\ n \in 1..2 /\ carrier.mode \in {"one", "each"}
           /\ carrier.bought[n] \in Nat /\ carrier.lost[n] \in Nat
           /\ carrier.mode = "each" \/ clerk[c].at # "mark" => (InHand(n) <=> shipment.label[n])
           /\ carrier.mode = "one" => n = 1 /\ ~shipment.label[n]
                                      /\ (InHand(n) <=> clerk[c].at = "mark")
<1>1. n \in 1..2 /\ (carrier.mode # "each" => n = 1) BY DEF S!Volumes
<1>2. carrier.mode \in {"one", "each"} BY DEF ShipmentInv, ShipmentTypes, Carriers
<1>3. carrier.bought[n] \in Nat /\ carrier.lost[n] \in Nat
  BY <1>1 DEF ShipmentInv, ShipmentTypes, Carriers
<1>4. InHand(n) <=> shipment.label[n] \/ clerk[c].mine.label[n] BY DEF InHand, OneAtATime
<1>5. KnowsEach(c) /\ KnowsOne(c) BY DEF ShipmentInv, DispatchInv
<1>. QED BY <1>1, <1>2, <1>3, <1>4, <1>5 DEF KnowsEach, KnowsOne

\* What was bought is in the row once the order is shipped.
LEMMA FinishesHolds ==
    ASSUME OneAtATime, ShipmentInv, NEW c \in Clerks, S!Finishes(c)
    PROVE  ShipmentInv'
<1> DEFINE written == [clerk[c].mine EXCEPT !.status = "purchased"]
<1>1. clerk[c].at = "mark" /\ S!Leaves(c) /\ UNCHANGED <<carrier, tracker>> BY DEF S!Finishes
<1>2. written \in ShipmentRows /\ written.status = "purchased" /\ written.label = clerk[c].mine.label
  BY DEF ShipmentInv, ShipmentTypes, Dispatches, ShipmentRows, S!DONE
<1>3. clerk[c].was.status # "purchased" BY <1>1 DEF ShipmentInv, DispatchInv, NotDone, S!DONE
<1>4. /\ shipment' \in ShipmentRows /\ shipment'.status = "purchased"
      /\ shipment'.label = IF written.label # clerk[c].was.label THEN written.label ELSE shipment.label
  BY <1>2, <1>3, CommitsRow DEF S!Finishes, ShipmentInv
<1> HIDE DEF written
<1>5. ASSUME NEW n \in S!Volumes PROVE InHand(n) => shipment'.label[n]
  <2>1. carrier.mode \in {"one", "each"} /\ (carrier.mode = "one" => n = 1)
        /\ (carrier.mode = "each" => (InHand(n) => shipment.label[n]))
    BY <1>1, Hands
  <2>2. KnowsEach(c) /\ KnowsOne(c) BY DEF ShipmentInv, DispatchInv
  <2>. QED BY <1>1, <1>2, <1>4, <2>1, <2>2 DEF KnowsEach, KnowsOne
<1>6. ASSUME NEW n \in S!Volumes
      PROVE  carrier'.bought[n] - carrier'.lost[n] <= carrier.bought[n] - carrier.lost[n]
                + (IF shipment'.label[n] THEN 1 ELSE 0) - (IF InHand(n) THEN 1 ELSE 0)
  <2>1. carrier.bought[n] \in Nat /\ carrier.lost[n] \in Nat BY <1>1, Hands
  <2>. QED BY <1>1, <1>5, <2>1
<1>7. LabelledIsDone' BY <1>4 DEF LabelledIsDone, S!DONE
<1>8. carrier' \in Carriers BY <1>1 DEF ShipmentInv, ShipmentTypes
<1>. QED BY <1>1, <1>4, <1>6, <1>7, <1>8, LeavesHolds

\* A crash loses the label that was bought and not committed, and says so.
LEMMA CrashesHolds ==
    ASSUME OneAtATime, ShipmentInv, NEW c \in Clerks, S!Crashes(c)
    PROVE  ShipmentInv'
<1> DEFINE loses == clerk[c].at = "mark" /\ carrier.mode = "one"
<1>1. clerk[c].at # "none" BY DEF S!Crashes, ShipmentInv, ShipmentTypes
<1>2. /\ S!Leaves(c) /\ UNCHANGED <<shipment, tracker>>
      /\ carrier' = IF loses THEN [carrier EXCEPT !.lost[1] = @ + 1] ELSE carrier
  BY DEF S!Crashes
<1> HIDE DEF loses
<1>3. carrier \in Carriers /\ shipment \in ShipmentRows /\ LabelledIsDone BY DEF ShipmentInv, ShipmentTypes
<1>4. /\ carrier' \in Carriers /\ carrier'.mode = carrier.mode /\ carrier'.bought = carrier.bought
      /\ loses => carrier'.lost[1] = carrier.lost[1] + 1
      /\ ~loses => carrier'.lost = carrier.lost
  BY <1>2, <1>3 DEF Carriers
<1>5. ASSUME NEW n \in S!Volumes
      PROVE  carrier'.bought[n] - carrier'.lost[n] <= carrier.bought[n] - carrier.lost[n]
                + (IF shipment'.label[n] THEN 1 ELSE 0) - (IF InHand(n) THEN 1 ELSE 0)
  BY <1>1, <1>2, <1>4, Hands DEF loses
<1>6. LabelledIsDone' BY <1>2, <1>3, <1>4 DEF LabelledIsDone
<1>. QED BY <1>1, <1>2, <1>3, <1>4, <1>5, <1>6, LeavesHolds

\* One more label bought, or lost, of one volume.
LEMMA OneMoreBought ==
    ASSUME NEW k \in Carriers, NEW m \in 1..2
    PROVE  LET b == [k EXCEPT !.bought[m] = @ + 1]
           IN  /\ b \in Carriers /\ b.mode = k.mode /\ b.lost = k.lost
               /\ b.bought[m] = k.bought[m] + 1
               /\ \A n \in 1..2 : n # m => b.bought[n] = k.bought[n]
BY DEF Carriers

LEMMA OneMoreLost ==
    ASSUME NEW k \in Carriers, NEW m \in 1..2
    PROVE  LET b == [k EXCEPT !.lost[m] = @ + 1]
           IN  /\ b \in Carriers /\ b.mode = k.mode /\ b.bought = k.bought
               /\ b.lost[m] = k.lost[m] + 1
               /\ \A n \in 1..2 : n # m => b.lost[n] = k.lost[n]
BY DEF Carriers

\* A call that fails, or whose answer is lost after the carrier did what was asked.
LEMMA FailingHolds ==
    ASSUME OneAtATime, ShipmentInv, NEW c \in Clerks, clerk[c].at = "ship", S!Failing(c),
           tracker' = tracker, NEW m \in S!Volumes,
           \/ carrier' = carrier
           \/ carrier' = [[carrier EXCEPT !.bought[m] = @ + 1] EXCEPT !.lost[m] = @ + 1]
    PROVE  ShipmentInv'
<1> DEFINE written == [clerk[c].mine EXCEPT !.status = "failed"]
<1>1. written \in ShipmentRows /\ written.status = "failed" /\ written.label = clerk[c].mine.label
  BY DEF ShipmentInv, ShipmentTypes, Dispatches, ShipmentRows
<1>2. /\ shipment' \in ShipmentRows /\ shipment'.status \in {"failed", shipment.status}
      /\ shipment'.label = IF written.label # clerk[c].was.label THEN written.label ELSE shipment.label
  BY <1>1, CommitsRow DEF S!Failing, ShipmentInv
<1> HIDE DEF written
<1>3. carrier \in Carriers /\ shipment \in ShipmentRows BY DEF ShipmentInv, ShipmentTypes
<1>4. m \in 1..2 BY DEF S!Volumes
<1>5. /\ carrier' \in Carriers /\ carrier'.mode = carrier.mode
      /\ \A n \in 1..2 : carrier'.bought[n] - carrier'.lost[n] = carrier.bought[n] - carrier.lost[n]
  <2>1. CASE carrier' = carrier
    <3>1. \A n \in 1..2 : carrier.bought[n] - carrier.lost[n] = carrier.bought[n] - carrier.lost[n] OBVIOUS
    <3>. QED BY <1>3, <2>1, <3>1
  <2>2. CASE carrier' = [[carrier EXCEPT !.bought[m] = @ + 1] EXCEPT !.lost[m] = @ + 1]
    <3> DEFINE b == [carrier EXCEPT !.bought[m] = @ + 1]
    <3>1. /\ b \in Carriers /\ b.mode = carrier.mode /\ b.lost = carrier.lost
          /\ b.bought[m] = carrier.bought[m] + 1
          /\ \A n \in 1..2 : n # m => b.bought[n] = carrier.bought[n]
      BY <1>3, <1>4, OneMoreBought
    <3> HIDE DEF b
    <3>2. /\ carrier' \in Carriers /\ carrier'.mode = b.mode /\ carrier'.bought = b.bought
          /\ carrier'.lost[m] = b.lost[m] + 1
          /\ \A n \in 1..2 : n # m => carrier'.lost[n] = b.lost[n]
      <4>1. carrier' = [b EXCEPT !.lost[m] = @ + 1] BY <2>2 DEF b
      <4>. QED BY <1>4, <3>1, <4>1, OneMoreLost
    <3>3. \A n \in 1..2 : carrier.bought[n] \in Nat /\ carrier.lost[n] \in Nat BY <1>3 DEF Carriers
    <3>. QED BY <1>4, <3>1, <3>2, <3>3
  <2>. QED BY <2>1, <2>2
<1>6. KnowsEach(c) /\ KnowsOne(c) BY DEF ShipmentInv, DispatchInv
<1>7. ASSUME NEW n \in S!Volumes
      PROVE  carrier'.bought[n] - carrier'.lost[n] <= carrier.bought[n] - carrier.lost[n]
                + (IF shipment'.label[n] THEN 1 ELSE 0) - (IF InHand(n) THEN 1 ELSE 0)
  <2>1. /\ n \in 1..2 /\ carrier.bought[n] \in Nat /\ carrier.lost[n] \in Nat
        /\ carrier.mode \in {"one", "each"} /\ (carrier.mode = "one" => ~InHand(n))
        /\ InHand(n) <=> shipment.label[n]
    BY Hands
  <2>2. carrier.mode = "each" => shipment'.label = shipment.label BY <1>1, <1>2, <1>6 DEF KnowsEach
  <2>. QED BY <1>5, <2>1, <2>2
<1>8. LabelledIsDone' BY <1>1, <1>2, <1>5, <1>6 DEF LabelledIsDone, KnowsOne
<1>. QED BY <1>2, <1>3, <1>5, <1>7, <1>8, LeavesHolds DEF S!Failing

\* The least of some volumes is one of them.
LEMMA Least ==
    ASSUME NEW T \in SUBSET (1..2), T # {}
    PROVE  (CHOOSE v \in T : \A m \in T : v <= m) \in T
<1>1. \E v \in T : \A m \in T : v <= m
  <2>1. CASE 1 \in T BY <2>1
  <2>2. CASE 1 \notin T
    <3>1. \A m \in T : m = 2 BY <2>2
    <3>2. 2 \in T BY <3>1
    <3>. QED BY <3>1, <3>2
  <2>. QED BY <2>1, <2>2
<1>. QED BY <1>1

\* A volume is bought when it has no label in the row or in hand.
LEMMA BuysHolds ==
    ASSUME OneAtATime, ShipmentInv, NEW c \in Clerks, S!Buys(c)
    PROVE  ShipmentInv'
<1> DEFINE mine == clerk[c].mine
           n == CHOOSE v \in S!Wanted(mine) : \A m \in S!Wanted(mine) : v <= m
           after == [mine EXCEPT !.label[n] = TRUE]
           counted == [carrier EXCEPT !.bought[n] = @ + 1]
<1>1. clerk[c].at = "ship" /\ S!Wanted(mine) # {} /\ tracker' = tracker BY DEF S!Buys
<1>2. n \in S!Wanted(mine)
  <2>1. S!Wanted(mine) \in SUBSET (1..2) BY DEF S!Wanted, S!Labelled, S!Volumes
  <2>. QED BY <1>1, <2>1, Least
<1>3. n \in S!Volumes /\ n \in 1..2 /\ (carrier.mode = "each" => ~mine.label[n])
  <2> HIDE DEF n, mine
  <2>1. n \in S!Volumes /\ (carrier.mode = "each" => n \notin S!Labelled(mine)) BY <1>2 DEF S!Wanted, S!Labelled
  <2>. QED BY <2>1 DEF S!Labelled, S!Volumes
<1>4. /\ carrier \in Carriers /\ shipment \in ShipmentRows /\ clerk[c] \in Dispatches
      /\ mine \in ShipmentRows /\ carrier.mode \in {"one", "each"}
  BY DEF ShipmentInv, ShipmentTypes, Dispatches, Carriers
<1>5. /\ after \in ShipmentRows /\ after.status = mine.status
      /\ after.label = [mine.label EXCEPT ![n] = TRUE] /\ after.label[n]
      /\ \A m \in 1..2 : m # n => after.label[m] = mine.label[m]
  BY <1>3, <1>4 DEF ShipmentRows
<1>6. /\ counted \in Carriers /\ counted.mode = carrier.mode /\ counted.lost = carrier.lost
      /\ counted.bought[n] = carrier.bought[n] + 1
      /\ \A m \in 1..2 : m # n => counted.bought[m] = carrier.bought[m]
  BY <1>3, <1>4, OneMoreBought
<1>7. /\ mine.status \notin S!DONE \cup {"none"} /\ clerk[c].was.status \notin S!DONE
      /\ KnowsEach(c) /\ KnowsOne(c) /\ LabelledIsDone
  BY <1>1 DEF ShipmentInv, DispatchInv, NotDone
<1>8. CASE /\ carrier.mode = "each" /\ carrier' = counted /\ S!Commits(c, after)
           /\ clerk' = [clerk EXCEPT ![c].mine = after, ![c].was = after,
                                     ![c].new = FALSE, ![c].holds = FALSE,
                                     ![c].at = IF S!Complete(after) THEN "mark" ELSE @]
  <2> DEFINE k == [clerk[c] EXCEPT !.mine = after, !.was = after, !.new = FALSE, !.holds = FALSE,
                                   !.at = IF S!Complete(after) THEN "mark" ELSE @]
  <2> HIDE DEF mine, n, after, counted
  <2>1. /\ k \in Dispatches /\ k.mine = after /\ k.was = after /\ k.at \in {"ship", "mark"}
    BY <1>1, <1>4, <1>5 DEF Dispatches
  <2>2. Puts(c, k) /\ clerk'[c] = k BY <1>8 DEF Puts, ShipmentInv, ShipmentTypes
  <2> HIDE DEF k
  <2>3. mine.label = shipment.label /\ clerk[c].was.label = shipment.label
    BY <1>1, <1>7, <1>8 DEF KnowsEach, mine
  <2>4. after.label # clerk[c].was.label BY <1>3, <1>5, <1>8, <2>3
  <2>5. /\ shipment' \in ShipmentRows /\ shipment'.label = after.label
        /\ shipment'.status \in {mine.status, shipment.status}
    BY <1>5, <1>8, <2>4, CommitsRow DEF ShipmentInv
  <2>6. DispatchInv(c)'
    <3>1. NotDone(c)' BY <1>5, <1>7, <2>1, <2>2 DEF NotDone
    <3>2. KnowsEach(c)' BY <2>1, <2>2, <2>5 DEF KnowsEach
    <3>3. KnowsOne(c)' BY <1>6, <1>8 DEF KnowsOne
    <3>. QED BY <3>1, <3>2, <3>3 DEF DispatchInv
  <2>7. LabelledIsDone' BY <1>6, <1>8 DEF LabelledIsDone
  <2>8. ASSUME NEW m \in S!Volumes PROVE Counted(m)'
    <3>1. /\ m \in 1..2 /\ carrier.bought[m] \in Nat /\ carrier.lost[m] \in Nat
          /\ InHand(m) <=> shipment.label[m]
      BY <1>1, Hands
    <3>2. InHand(m)' <=> shipment'.label[m] BY <2>1, <2>2, <2>5 DEF InHand, OneAtATime
    <3>3. Counted(m) BY DEF ShipmentInv
    <3>4. CASE m = n BY <1>3, <1>5, <1>6, <1>8, <2>3, <2>5, <3>1, <3>2, <3>3, <3>4 DEF Counted
    <3>5. CASE m # n BY <1>5, <1>6, <1>8, <2>3, <2>5, <3>1, <3>2, <3>3, <3>5 DEF Counted
    <3>. QED BY <3>4, <3>5
  <2>9. shipment'.status # "none" \/ shipment.status = "none" BY <1>7, <2>5
  <2>10. carrier' \in Carriers /\ carrier'.mode = carrier.mode BY <1>6, <1>8
  <2>. QED BY <1>1, <2>1, <2>2, <2>5, <2>6, <2>7, <2>8, <2>9, <2>10, PutHolds
<1>9. CASE /\ carrier.mode = "one" /\ carrier' = counted /\ UNCHANGED shipment
           /\ clerk' = [clerk EXCEPT ![c].mine = after, ![c].at = "mark"]
  <2> DEFINE k == [clerk[c] EXCEPT !.mine = after, !.at = "mark"]
  <2> HIDE DEF mine, n, after, counted
  <2>1. /\ k \in Dispatches /\ k.mine = after /\ k.was = clerk[c].was /\ k.at = "mark"
    BY <1>4, <1>5 DEF Dispatches
  <2>2. Puts(c, k) /\ clerk'[c] = k BY <1>9 DEF Puts, ShipmentInv, ShipmentTypes
  <2> HIDE DEF k
  <2>3. n = 1 BY <1>3, <1>9 DEF S!Volumes
  <2>4. DispatchInv(c)'
    <3>1. NotDone(c)' BY <1>5, <1>7, <2>1, <2>2 DEF NotDone
    <3>2. KnowsEach(c)' BY <1>6, <1>9 DEF KnowsEach
    <3>3. KnowsOne(c)' BY <1>1, <1>5, <1>7, <1>9, <2>1, <2>2, <2>3 DEF KnowsOne
    <3>. QED BY <3>1, <3>2, <3>3 DEF DispatchInv
  <2>5. LabelledIsDone' BY <1>6, <1>7, <1>9 DEF LabelledIsDone
  <2>6. ASSUME NEW m \in S!Volumes PROVE Counted(m)'
    <3>1. /\ m = n /\ carrier.bought[m] \in Nat /\ carrier.lost[m] \in Nat /\ ~InHand(m)
      BY <1>1, <1>9, <2>3, Hands
    <3>2. InHand(m)' BY <1>5, <2>1, <2>2, <3>1 DEF InHand
    <3>3. Counted(m) BY DEF ShipmentInv
    <3>. QED BY <1>6, <1>9, <3>1, <3>2, <3>3 DEF Counted
  <2>7. carrier' \in Carriers /\ carrier'.mode = carrier.mode BY <1>6, <1>9
  <2>. QED BY <1>1, <1>4, <1>9, <2>1, <2>2, <2>4, <2>5, <2>6, <2>7, PutHolds
<1>10. CASE S!Failing(c) /\ (carrier' = carrier \/ carrier' = [counted EXCEPT !.lost[n] = @ + 1])
  BY <1>1, <1>3, <1>10, FailingHolds
<1>. QED BY <1>4, <1>8, <1>9, <1>10 DEF S!Buys

-----------------------------------------------------------------------------
\* Every step keeps the invariant, and it holds at first.
LEMMA ShipmentStep ==
    ASSUME OneAtATime
    PROVE  ShipmentInv /\ [S!ShipmentNext]_(S!shipmentVars) => ShipmentInv'
<1> SUFFICES ASSUME ShipmentInv, [S!ShipmentNext]_(S!shipmentVars) PROVE ShipmentInv' OBVIOUS
<1>1. CASE \E c \in Clerks : S!Opens(c) \/ S!TakesRow(c) \/ S!Buys(c) \/ S!Finishes(c) \/ S!Crashes(c)
  BY <1>1, OpensHolds, TakesRowHolds, BuysHolds, FinishesHolds, CrashesHolds
<1>2. CASE ~\E c \in Clerks : S!Opens(c) \/ S!TakesRow(c) \/ S!Buys(c) \/ S!Finishes(c) \/ S!Crashes(c)
  BY <1>2, OthersAreBackground, BackgroundHolds DEF S!ShipmentNext
<1>. QED BY <1>1, <1>2

LEMMA ShipmentInitially == S!ShipmentInit => ShipmentInv
<1> SUFFICES ASSUME S!ShipmentInit PROVE ShipmentInv OBVIOUS
<1>1. /\ carrier \in Carriers /\ carrier.bought = [n \in 1..2 |-> 0] /\ carrier.lost = [n \in 1..2 |-> 0]
  BY DEF S!ShipmentInit, Carriers
<1>2. ShipmentTypes BY <1>1, GoneIsDispatch DEF S!ShipmentInit, ShipmentTypes
<1>3. LabelledIsDone BY GoneIsDispatch DEF S!ShipmentInit, LabelledIsDone
<1>4. ASSUME NEW c \in Clerks PROVE DispatchInv(c)
  BY GoneIsDispatch DEF S!ShipmentInit, DispatchInv, NotDone, KnowsEach, KnowsOne
<1>5. ASSUME NEW n \in S!Volumes PROVE Counted(n) BY <1>1 DEF Counted, S!Volumes
<1>. QED BY <1>2, <1>3, <1>4, <1>5 DEF ShipmentInv

\* The rest of the worker pool does not touch it.
LEMMA PoolStep ==
    ASSUME OneAtATime
    PROVE  ShipmentInv /\ [WorkersNext]_workersVars => ShipmentInv'
<1> SUFFICES ASSUME ShipmentInv, [WorkersNext]_workersVars PROVE ShipmentInv' OBVIOUS
<1>1. S!ShipmentNext \/ UNCHANGED shipmentOnly
  BY DEF WorkersNext, workersVars
<1>2. CASE S!ShipmentNext BY <1>2, ShipmentStep
<1>3. CASE UNCHANGED shipmentOnly
  <2>1. Background BY <1>3 DEF shipmentOnly, Background, ShipmentInv, ShipmentTypes
  <2>. QED BY <2>1, BackgroundHolds
<1>. QED BY <1>1, <1>2, <1>3

\* LabelsBoughtOnce, of `dispatch`, `_row` and the retries, for any number of faults: a volume is paid
\* twice only after a label the store never heard of.
THEOREM LabelsAreBoughtOnce ==
    ASSUME OneAtATime
    PROVE  WorkersSpec => []LabelsBoughtOnce
<1>1. ShipmentInv => LabelsBoughtOnce
  <2> SUFFICES ASSUME ShipmentInv, NEW n \in S!Volumes
               PROVE  carrier.bought[n] <= 1 + carrier.lost[n]
    BY DEF LabelsBoughtOnce, S!LabelsBoughtOnce
  <2>1. n \in 1..2 /\ carrier.bought[n] \in Nat /\ carrier.lost[n] \in Nat
    BY DEF ShipmentInv, ShipmentTypes, Carriers, S!Volumes
  <2>2. Counted(n) BY DEF ShipmentInv
  <2>. QED BY <2>1, <2>2 DEF Counted
<1>2. WorkersInit => ShipmentInv BY ShipmentInitially DEF WorkersInit
<1>3. ShipmentInv /\ [WorkersNext]_workersVars => ShipmentInv' BY PoolStep
<1>. QED BY <1>1, <1>2, <1>3, PTL DEF WorkersSpec
================================================================================
