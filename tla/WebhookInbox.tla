------------------------------ MODULE WebhookInbox ------------------------------
(***************************************************************************)
(* The inbox of payment notices (payments/webhooks) for one charge at a    *)
(* provider.  The provider announces each change of the charge, in any     *)
(* order and more than once; `ingest` stores a notice the first time;      *)
(* `process` claims it with a lease, asks the provider about the charge    *)
(* with no lock held, and writes its outcome on the row.  The charge may   *)
(* be announced before our own create call has recorded it.                *)
(*                                                                         *)
(* What a change means for payment and order is Payments: here the charge  *)
(* is the number of changes it has seen.                                   *)
(***************************************************************************)
EXTENDS Naturals, FiniteSets

CONSTANTS Changes,       \* the charge changes this many times (model bound)
          Workers,
          MaxAttempts,   \* MAX_ATTEMPTS
          MaxFaults      \* provider down, dead or slow workers, second deliveries (model bound)

VARIABLES charge,    \* changes so far, at the provider
          recorded,  \* our payment has the provider's id
          seen,      \* changes our payment knows of
          row,       \* per notice: status, found (payment_id set), attempts, due
          worker,    \* per worker: the notice it handles, found, its outcome
          faults

inboxVars == <<charge, recorded, seen, row, worker, faults>>
Notices == 1..Changes
Idle == [notice |-> 0, found |-> FALSE, outcome |-> "none"]
Fault == faults < MaxFaults /\ faults' = faults + 1

-----------------------------------------------------------------------------
(* Outside *)

Happens == /\ charge < Changes /\ charge' = charge + 1
           /\ UNCHANGED <<recorded, seen, row, worker, faults>>

\* The create call comes back: from here on the charge is found by its id.
Records == /\ charge > 0 /\ ~recorded /\ recorded' = TRUE
           /\ UNCHANGED <<charge, seen, row, worker, faults>>

-----------------------------------------------------------------------------
(* The request *)

\* `ingest`: a second delivery conflicts with the unique key and changes nothing.
Ingest(n) ==
    /\ n <= charge
    /\ \/ /\ row[n].status = "none"
          /\ row' = [row EXCEPT ![n] = [status |-> "received", found |-> recorded,
                                        attempts |-> 0, due |-> "now"]]
          /\ UNCHANGED faults
       \/ /\ row[n].status # "none" /\ Fault
          /\ UNCHANGED row
    /\ UNCHANGED <<charge, recorded, seen, worker>>

-----------------------------------------------------------------------------
(* `process`: the task of the request, or the beat's sweep *)

Due(n) == row[n].status \in {"received", "failed"} /\ row[n].due = "now"
Claims(w, n) ==
    /\ worker[w] = Idle /\ Due(n)
    /\ row' = [row EXCEPT ![n].attempts = @ + 1, ![n].due = "leased"]
    /\ worker' = [worker EXCEPT ![w] = [notice |-> n, found |-> row[n].found, outcome |-> "asking"]]
    /\ UNCHANGED <<charge, recorded, seen, faults>>

\* `_handle`.  A sync that found nothing to do, or could not ask (it answers "failed").
Outcome_Done == "processed"             \* mutant: an answer that did not come counts as one
Outcome == "failed"
Handles(w) ==
    LET found == worker[w].found \/ recorded
        ends(o) == worker' = [worker EXCEPT ![w].outcome = o]
    IN  /\ worker[w].outcome = "asking"
        /\ \/ ~found /\ ends("ignored") /\ UNCHANGED <<seen, faults>>
           \/ found /\ ends("processed") /\ seen' = charge /\ UNCHANGED faults
           \/ found /\ Fault /\ ends(Outcome) /\ UNCHANGED seen
        /\ UNCHANGED <<charge, recorded, row>>

\* The outcome is written on the row as it is now; a failed one is tried again after a pause,
\* until the last attempt.
Retries(n) == row[n].attempts < MaxAttempts
Finishes(w) ==
    LET n == worker[w].notice
        o == worker[w].outcome
    IN  /\ o \notin {"none", "asking"}
        /\ worker' = [worker EXCEPT ![w] = Idle]
        /\ row' = [row EXCEPT ![n].status = o,
                              ![n].found = @ \/ (worker[w].found /\ o # "ignored"),
                              ![n].due = IF o = "failed" /\ Retries(n) THEN "now" ELSE "never"]
        /\ UNCHANGED <<charge, recorded, seen, faults>>

Dies(w) == /\ worker[w] # Idle /\ Fault
           /\ worker' = [worker EXCEPT ![w] = Idle]
           /\ UNCHANGED <<charge, recorded, seen, row>>

\* Two minutes: the lease of a dead worker ends, or of one that is slow.
Lapses(n) ==
    /\ row[n].due = "leased"
    /\ IF \A w \in Workers : worker[w].notice # n THEN UNCHANGED faults ELSE Fault
    /\ row' = [row EXCEPT ![n].due = "now"]
    /\ UNCHANGED <<charge, recorded, seen, worker>>

-----------------------------------------------------------------------------
InboxInit ==
    /\ charge = 0 /\ recorded = FALSE /\ seen = 0 /\ faults = 0
    /\ row = [n \in Notices |-> [status |-> "none", found |-> FALSE, attempts |-> 0, due |-> "never"]]
    /\ worker = [w \in Workers |-> Idle]

InboxNext ==
    \/ Happens \/ Records
    \/ \E n \in Notices : Ingest(n) \/ Lapses(n)
    \/ \E w \in Workers : \/ \E n \in Notices : Claims(w, n)
                          \/ Handles(w) \/ Finishes(w) \/ Dies(w)

\* The beat sweeps, time passes and a task that runs comes to its end.
InboxFair ==
    /\ \A n \in Notices : WF_inboxVars(Lapses(n))
    /\ \A w \in Workers : /\ WF_inboxVars(Handles(w) \/ Finishes(w))
                          /\ \A n \in Notices : SF_inboxVars(Claims(w, n))

InboxSpec == InboxInit /\ [][InboxNext]_inboxVars /\ InboxFair

-----------------------------------------------------------------------------
\* A notice that came when the charge was already recorded leads to our payment knowing at least
\* that change, whatever workers died, overlapped or could not ask, unless every attempt failed.
Known(n) == row[n].status = "received" /\ row[n].found
Heard(n) == seen >= n \/ (row[n].status = "failed" /\ row[n].attempts >= MaxAttempts)
NoticeIsHeard == \A n \in Notices : Known(n) ~> Heard(n)
=============================================================================
