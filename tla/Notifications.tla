----------------------------- MODULE Notifications -----------------------------
(***************************************************************************)
(* The e-mails of one order (notifications/): the notifier, a consumer of  *)
(* the outbox, queues one for each event the customer hears about, written *)
(* from the order as it stands when the event is handled; the beat's job   *)
(* claims it with a lease, sends it without a lock and records the answer. *)
(*                                                                         *)
(* The outbox hands each event over at least once (Outbox.tla) and in any  *)
(* order.  Templates, the store's own e-mails and the links are left out.  *)
(***************************************************************************)
EXTENDS Naturals, Sequences, FiniteSetsExt, FiniteSetTheorems, TLAPS

CONSTANTS Course,       \* the statuses the order goes through, in order
          TOLD_ABOUT,   \* those a customer is written to about
          Workers, MaxAttempts,
          MaxFaults     \* dead or slow workers and lost answers (model bound)

ASSUME NotificationsAssumption == IsFiniteSet(Workers)

VARIABLES at,         \* the order's status: a position of Course
          handled,    \* events the notifier has handled
          mail,       \* per event: its row
          transport,  \* whether the store has one configured
          sender,     \* per worker: the e-mail it sends, and the answer
          inbox,      \* per event: copies of its e-mail that reached the customer
          mishaps     \* per event: lost answers, dead and slow workers

mailVars == <<at, handled, mail, transport, sender, inbox, mishaps>>

Events == 2..Len(Course)      \* the n-th status was reached with event n
Emitted == 2..at
OPEN_MAIL == {"queued", "sending"}
NoMail == [status |-> "none", about |-> 0, attempts |-> 0, due |-> FALSE]
Idle == [job |-> "idle", mail |-> 0, answer |-> "none", attempts |-> 0]
Mishaps == MapThenSumSet(LAMBDA n : mishaps[n], Events)
Mishap(e) == /\ Mishaps < MaxFaults
             /\ mishaps' = [mishaps EXCEPT ![e] = @ + 1]

-----------------------------------------------------------------------------
(* The order and the notifier *)

OrderMoves ==
    /\ at < Len(Course) /\ at' = at + 1
    /\ UNCHANGED <<handled, mail, transport, sender, inbox, mishaps>>

Queued_Again(e) == TRUE                                      \* mutant: no unique key
Queued(e) == mail[e].status = "none"
Consumes(e) ==
    /\ e \in Emitted
    /\ handled' = handled \cup {e}
    /\ IF Course[at] \in TOLD_ABOUT /\ Queued(e)
       THEN mail' = [mail EXCEPT ![e] = [NoMail EXCEPT !.status = "queued", !.about = at, !.due = TRUE]]
       ELSE UNCHANGED mail
    /\ UNCHANGED <<at, transport, sender, inbox, mishaps>>

-----------------------------------------------------------------------------
(* `send_one`: claim, send, record *)

Due_NotClaimed(e) == mail[e].status = "queued" /\ mail[e].due         \* mutant
Due(e) == mail[e].status \in OPEN_MAIL /\ mail[e].due

Claims(w, e) ==
    /\ sender[w].job = "idle" /\ Due(e)
    /\ IF transport
       THEN /\ mail' = [mail EXCEPT ![e].status = "sending", ![e].due = FALSE, ![e].attempts = @ + 1]
            /\ sender' = [sender EXCEPT ![w] =
                  [job |-> "sends", mail |-> e, answer |-> "none", attempts |-> mail[e].attempts + 1]]
       ELSE /\ mail' = [mail EXCEPT ![e].status = "skipped", ![e].due = FALSE]
            /\ UNCHANGED sender
    /\ UNCHANGED <<at, handled, transport, inbox, mishaps>>

\* The e-mail goes out or not; the answer says so, or is lost on its way.
Sends(w) ==
    LET e == sender[w].mail
    IN  /\ sender[w].job = "sends"
        /\ \E answer \in {"sent", "refused", "unreachable", "lost"} :
             /\ sender' = [sender EXCEPT ![w].job = "records", ![w].answer = answer]
             /\ inbox' = [inbox EXCEPT ![e] = @ + (IF answer \in {"sent", "lost"} THEN 1 ELSE 0)]
             /\ IF answer = "lost" THEN Mishap(e) ELSE UNCHANGED mishaps
        /\ UNCHANGED <<at, handled, mail, transport>>

\* What is recorded does not depend on the row still being this sender's.
Outcome(answer, attempts) ==
    IF answer = "sent" THEN "sent"
    ELSE IF answer = "refused" \/ attempts >= MaxAttempts THEN "failed" ELSE "queued"
Records(w) ==
    LET e == sender[w].mail
    IN  /\ sender[w].job = "records"
        /\ mail' = [mail EXCEPT ![e].status = Outcome(sender[w].answer, sender[w].attempts),
                                ![e].due = FALSE]
        /\ sender' = [sender EXCEPT ![w] = Idle]
        /\ UNCHANGED <<at, handled, transport, inbox, mishaps>>

Dies(w) ==
    /\ sender[w].job # "idle" /\ Mishap(sender[w].mail)
    /\ sender' = [sender EXCEPT ![w] = Idle]
    /\ UNCHANGED <<at, handled, mail, transport, inbox>>

\* next_attempt_at comes: the pause after a failure, or the lease, whose holder is dead or slow.
TimeComes(e) ==
    /\ mail[e].status \in OPEN_MAIL /\ ~mail[e].due
    /\ mail' = [mail EXCEPT ![e].due = TRUE]
    /\ IF \E w \in Workers : sender[w].job # "idle" /\ sender[w].mail = e
       THEN Mishap(e) ELSE UNCHANGED mishaps
    /\ UNCHANGED <<at, handled, transport, sender, inbox>>

Configures ==
    /\ transport' = ~transport
    /\ UNCHANGED <<at, handled, mail, sender, inbox, mishaps>>

-----------------------------------------------------------------------------
MailInit ==
    /\ at = 1 /\ handled = {} /\ transport \in BOOLEAN
    /\ mail = [e \in Events |-> NoMail]
    /\ sender = [w \in Workers |-> Idle]
    /\ inbox = [e \in Events |-> 0] /\ mishaps = [e \in Events |-> 0]

MailNext ==
    \/ OrderMoves \/ Configures
    \/ \E e \in Events : Consumes(e) \/ TimeComes(e)
    \/ \E w \in Workers : \/ Sends(w) \/ Records(w) \/ Dies(w)
                          \/ \E e \in Events : Claims(w, e)

\* The outbox delivers, the clock goes on, the beat sends what is due, and a call is answered.
MailFair ==
    /\ \A e \in Events : /\ WF_mailVars(Consumes(e) /\ e \notin handled)
                         /\ WF_mailVars(TimeComes(e))
                         /\ SF_mailVars(\E w \in Workers : Claims(w, e))
    /\ \A w \in Workers : WF_mailVars(Sends(w) \/ Records(w))

MailSpec == MailInit /\ [][MailNext]_mailVars /\ MailFair

-----------------------------------------------------------------------------
\* No e-mail reaches the customer twice, however often its event is delivered, but for a copy for
\* each answer that was lost and each sender that died or outlived its lease.
MailSentOnce == \A e \in Events : inbox[e] <= 1 + mishaps[e]

\* Where an order comes to rest the customer is written to, or the e-mail is seen to have failed or
\* had no transport: nothing stays queued or claimed for ever, whoever dies.
RestingIsTold ==
    \A n \in Events : Course[n] \in TOLD_ABOUT =>
        (<>[](at = n) => <>(\E e \in Events : /\ mail[e].about = n
                                               /\ mail[e].status \in {"sent", "failed", "skipped"}))

-----------------------------------------------------------------------------
(* Proof that no e-mail goes out twice, for every course of the order, any number of workers,   *)
(* attempts, deliveries of the events and mishaps.  It keeps a budget for each e-mail: the      *)
(* copies out, those that calls on their way may still make or have made again, and the one a   *)
(* row that anybody may claim allows, are no more than one and its mishaps.                     *)

MailRecords == [status : OPEN_MAIL \cup {"none", "sent", "failed", "skipped"}, about : Nat,
                attempts : Nat, due : BOOLEAN]
Senders == [job : {"idle", "sends", "records"}, mail : Events \cup {0},
            answer : {"none", "sent", "refused", "unreachable", "lost"}, attempts : Nat]
MailTypes ==
    /\ at \in Nat
    /\ mail \in [Events -> MailRecords] /\ sender \in [Workers -> Senders]
    /\ inbox \in [Events -> Nat] /\ mishaps \in [Events -> Nat]
    /\ \A w \in Workers : /\ sender[w].job # "idle" => sender[w].mail \in Events
                          /\ sender[w].job = "records" => sender[w].answer # "none"

On(w, e) == sender[w].job # "idle" /\ sender[w].mail = e
\* Whose call may still deliver a copy, or put the row back to be sent again.
Owing(w, e) ==
    On(w, e) /\ (sender[w].job = "sends" \/ sender[w].answer \in {"unreachable", "lost"})
Owed(e) == {w \in Workers : Owing(w, e)}
\* The row may be claimed without a new mishap.
Claimable(e) ==
    \/ mail[e].status \in {"none", "queued"}
    \/ mail[e].status = "sending" /\ (mail[e].due \/ \A w \in Workers : ~On(w, e))
Budget(e) == inbox[e] + Cardinality(Owed(e)) + (IF Claimable(e) THEN 1 ELSE 0) <= 1 + mishaps[e]
MailInv == MailTypes /\ \A e \in Events : Budget(e)

-----------------------------------------------------------------------------
\* Of sets of workers: one more or one less counts one more or one less.
LEMMA Counts ==
    ASSUME NEW S \in SUBSET Workers, NEW T \in SUBSET Workers, NEW w \in Workers
    PROVE  /\ Cardinality(S) \in Nat /\ Cardinality(T) \in Nat
           /\ T \subseteq S => Cardinality(T) <= Cardinality(S)
           /\ T \subseteq S \cup {w} => Cardinality(T) <= Cardinality(S) + 1
           /\ w \in S /\ T \subseteq S \ {w} => Cardinality(T) <= Cardinality(S) - 1
<1>1. IsFiniteSet(S) /\ IsFiniteSet(T) BY NotificationsAssumption, FS_Subset
<1>2. Cardinality(S) \in Nat /\ Cardinality(T) \in Nat BY <1>1, FS_CardinalityType
<1>3. T \subseteq S => Cardinality(T) <= Cardinality(S) BY <1>1, FS_Subset
<1>4. ASSUME T \subseteq S \cup {w} PROVE Cardinality(T) <= Cardinality(S) + 1
  <2>1. IsFiniteSet(S \cup {w}) /\ Cardinality(S \cup {w}) \in {Cardinality(S), Cardinality(S) + 1}
    BY <1>1, <1>2, FS_AddElement
  <2>2. Cardinality(T) <= Cardinality(S \cup {w}) BY <1>4, <2>1, FS_Subset
  <2>. QED BY <1>2, <2>1, <2>2
<1>5. ASSUME w \in S, T \subseteq S \ {w} PROVE Cardinality(T) <= Cardinality(S) - 1
  <2>1. IsFiniteSet(S \ {w}) /\ Cardinality(S \ {w}) = Cardinality(S) - 1
    BY <1>1, <1>2, <1>5, FS_RemoveElement
  <2>2. Cardinality(T) <= Cardinality(S \ {w}) BY <1>5, <2>1, FS_Subset
  <2>. QED BY <2>1, <2>2
<1>. QED BY <1>2, <1>3, <1>4, <1>5

-----------------------------------------------------------------------------
\* A step that leaves the row of an e-mail, its copies and its senders alone keeps its budget.
LEMMA BudgetStill ==
    ASSUME NEW e \in Events, Budget(e), mail'[e] = mail[e],
           inbox'[e] = inbox[e], mishaps'[e] = mishaps[e],
           \A w \in Workers : sender'[w] = sender[w] \/ (~On(w, e) /\ ~On(w, e)')
    PROVE  Budget(e)'
<1>1. \A w \in Workers : (On(w, e)' <=> On(w, e)) /\ (Owing(w, e)' <=> Owing(w, e)) BY DEF On, Owing
<1>2. Owed(e)' = Owed(e) BY <1>1 DEF Owed
<1>3. Claimable(e)' <=> Claimable(e) BY <1>1 DEF Claimable
<1>. QED BY <1>2, <1>3 DEF Budget

\* At first nothing is queued and each row is free to be claimed once.
LEMMA MailInitially == MailInit => MailInv
<1> SUFFICES ASSUME MailInit PROVE MailInv OBVIOUS
<1>1. MailTypes BY DEF MailInit, MailTypes, NoMail, Idle, MailRecords, Senders, OPEN_MAIL
<1>2. ASSUME NEW e \in Events PROVE Budget(e)
  <2>1. Owed(e) = {} BY DEF MailInit, Owed, Owing, On, Idle
  <2>2. Cardinality(Owed(e)) = 0 BY <2>1, FS_EmptySet
  <2>3. inbox[e] = 0 /\ mishaps[e] = 0 BY DEF MailInit
  <2>. QED BY <2>2, <2>3 DEF Budget
<1>. QED BY <1>1, <1>2 DEF MailInv

-----------------------------------------------------------------------------
(* One lemma for each action that touches an e-mail *)

\* Queued once: the row that is made was allowed already.
LEMMA ConsumesHolds ==
    ASSUME MailInv, NEW e \in Events, Consumes(e)
    PROVE  MailInv'
<1>1. MailTypes'
  <2>1. [NoMail EXCEPT !.status = "queued", !.about = at, !.due = TRUE] \in MailRecords
    BY DEF MailInv, MailTypes, NoMail, MailRecords, OPEN_MAIL
  <2>. QED BY <2>1 DEF MailInv, MailTypes, Consumes
<1>2. ASSUME NEW f \in Events PROVE Budget(f)'
  <2>1. Owed(f)' = Owed(f) BY DEF Consumes, Owed, Owing, On
  <2>2. Claimable(f)' => Claimable(f)
    BY DEF Consumes, Claimable, Queued, On, MailInv, MailTypes, NoMail
  <2>3. inbox'[f] = inbox[f] /\ mishaps'[f] = mishaps[f] BY DEF Consumes
  <2>4. Budget(f) BY DEF MailInv
  <2>5. inbox[f] \in Nat /\ mishaps[f] \in Nat BY DEF MailInv, MailTypes
  <2>6. Cardinality(Owed(f)) \in Nat BY FS_Subset, FS_CardinalityType, NotificationsAssumption DEF Owed
  <2>. QED BY <2>1, <2>2, <2>3, <2>4, <2>5, <2>6 DEF Budget
<1>. QED BY <1>1, <1>2 DEF MailInv

\* What the row allowed, the claim owes.
LEMMA ClaimsHolds ==
    ASSUME MailInv, NEW e \in Events, NEW w \in Workers, Claims(w, e)
    PROVE  MailInv'
<1> USE DEF MailInv, MailTypes
<1>1. /\ mail[e] \in MailRecords /\ mail[e].status \in OPEN_MAIL /\ mail[e].due
      /\ sender[w].job = "idle"
  BY DEF Claims, Due
<1>2. MailTypes'
  <2>1. [mail[e] EXCEPT !.status = "skipped", !.due = FALSE] \in MailRecords
    BY <1>1 DEF MailRecords
  <2> DEFINE claimed == [status |-> "sending", about |-> mail[e].about,
                         attempts |-> mail[e].attempts + 1, due |-> FALSE]
  <2>2. claimed \in MailRecords BY <1>1 DEF MailRecords, OPEN_MAIL
  <2>3. [job |-> "sends", mail |-> e, answer |-> "none", attempts |-> mail[e].attempts + 1] \in Senders
    BY <1>1 DEF MailRecords, Senders
  <2>4. CASE transport
    <3>1. mail' = [mail EXCEPT ![e] = claimed] BY <1>1, <2>4 DEF Claims, MailRecords
    <3>2. mail' \in [Events -> MailRecords] BY <2>2, <3>1
    <3>3. sender' \in [Workers -> Senders] BY <2>3, <2>4 DEF Claims
    <3>4. \A x \in Workers : /\ sender'[x].job # "idle" => sender'[x].mail \in Events
                             /\ sender'[x].job = "records" => sender'[x].answer # "none"
      BY <2>4 DEF Claims
    <3>. QED BY <3>2, <3>3, <3>4 DEF Claims
  <2>5. CASE ~transport BY <2>1, <2>5 DEF Claims
  <2>. QED BY <2>4, <2>5
<1>3. ASSUME NEW f \in Events, f # e PROVE Budget(f)'
  <2>1. \A x \in Workers : sender'[x] = sender[x] \/ (~On(x, f) /\ ~On(x, f)')
    BY <1>1, <1>3 DEF Claims, On
  <2>. QED BY <1>3, <2>1, BudgetStill DEF Claims
<1>4. Budget(e)'
  <2>1. Claimable(e) BY <1>1 DEF Claimable, OPEN_MAIL
  <2>2. ~Claimable(e)'
    <3>1. CASE transport
      <4>1. mail'[e].status = "sending" /\ mail'[e].due = FALSE BY <1>1, <3>1 DEF Claims, MailRecords
      <4>2. On(w, e)' BY <3>1 DEF Claims, On
      <4>. QED BY <4>1, <4>2 DEF Claimable
    <3>2. CASE ~transport
      <4>1. mail'[e].status = "skipped" BY <1>1, <3>2 DEF Claims, MailRecords
      <4>. QED BY <4>1 DEF Claimable
    <3>. QED BY <3>1, <3>2
  <2>3. Owed(e)' \subseteq Owed(e) \cup {w}
    BY DEF Claims, Owed, Owing, On
  <2>4. /\ Cardinality(Owed(e)) \in Nat /\ Cardinality(Owed(e)') \in Nat
        /\ Cardinality(Owed(e)') <= Cardinality(Owed(e)) + 1
    <3>1. Owed(e) \in SUBSET Workers /\ Owed(e)' \in SUBSET Workers BY DEF Owed
    <3>. QED BY <2>3, <3>1, Counts
  <2>5. inbox' = inbox /\ mishaps' = mishaps BY DEF Claims
  <2>. QED BY <2>1, <2>2, <2>4, <2>5 DEF Budget
<1>. QED BY <1>2, <1>3, <1>4

\* What the call owed is out, or may still be; a lost answer is a mishap of its own.
LEMMA SendsHolds ==
    ASSUME MailInv, NEW w \in Workers, Sends(w)
    PROVE  MailInv'
<1> USE DEF MailInv, MailTypes
<1>0. PICK e \in Events : sender[w].mail = e BY DEF Sends
<1>1. sender[w] \in Senders /\ sender[w].job = "sends" /\ sender[w].mail = e BY <1>0 DEF Sends
<1>2. PICK answer \in {"sent", "refused", "unreachable", "lost"} :
        /\ sender' = [sender EXCEPT ![w].job = "records", ![w].answer = answer]
        /\ inbox' = [inbox EXCEPT ![e] = @ + (IF answer \in {"sent", "lost"} THEN 1 ELSE 0)]
        /\ IF answer = "lost" THEN Mishap(e) ELSE UNCHANGED mishaps
  BY <1>0 DEF Sends
<1>3. /\ answer = "lost" => mishaps' = [mishaps EXCEPT ![e] = @ + 1]
      /\ answer # "lost" => mishaps' = mishaps
  BY <1>2 DEF Mishap
<1>4. at' = at /\ mail' = mail BY DEF Sends
<1>5. [sender[w] EXCEPT !.job = "records", !.answer = answer] \in Senders BY <1>1 DEF Senders
<1>6. /\ sender'[w].job = "records" /\ sender'[w].mail = e /\ sender'[w].answer = answer
      /\ \A x \in Workers : x # w => sender'[x] = sender[x]
  BY <1>1, <1>2 DEF Senders
<1>7. MailTypes'
  <2>1. sender' \in [Workers -> Senders] BY <1>2, <1>5
  <2>2. inbox' \in [Events -> Nat] /\ mishaps' \in [Events -> Nat] BY <1>1, <1>2, <1>3
  <2>. QED BY <1>1, <1>4, <1>6, <2>1, <2>2
<1>8. ASSUME NEW f \in Events, f # e PROVE Budget(f)'
  <2>1. \A x \in Workers : sender'[x] = sender[x] \/ (~On(x, f) /\ ~On(x, f)')
    BY <1>1, <1>6, <1>8 DEF On
  <2>2. mail'[f] = mail[f] /\ inbox'[f] = inbox[f] /\ mishaps'[f] = mishaps[f]
    BY <1>2, <1>3, <1>4, <1>8
  <2>. QED BY <1>8, <2>1, <2>2, BudgetStill
<1>9. Budget(e)'
  <2>1. Claimable(e)' <=> Claimable(e) BY <1>1, <1>4, <1>6 DEF Claimable, On
  <2>2. w \in Owed(e) BY <1>1 DEF Owed, Owing, On
  <2>3. Owed(e)' \subseteq Owed(e) BY <1>6, <2>2 DEF Owed, Owing, On
  <2>4. answer \in {"sent", "refused"} => Owed(e)' \subseteq Owed(e) \ {w}
    BY <1>6, <2>3 DEF Owed, Owing, On
  <2>5. /\ Cardinality(Owed(e)) \in Nat /\ Cardinality(Owed(e)') \in Nat
        /\ Cardinality(Owed(e)') <= Cardinality(Owed(e))
        /\ answer \in {"sent", "refused"} => Cardinality(Owed(e)') <= Cardinality(Owed(e)) - 1
    <3>1. Owed(e) \in SUBSET Workers /\ Owed(e)' \in SUBSET Workers BY DEF Owed
    <3>. QED BY <2>2, <2>3, <2>4, <3>1, Counts
  <2>6. inbox[e] \in Nat /\ mishaps[e] \in Nat BY <1>1
  <2>7. Budget(e) BY <1>1
  <2>8. inbox'[e] = inbox[e] + (IF answer \in {"sent", "lost"} THEN 1 ELSE 0) BY <1>1, <1>2
  <2>9. mishaps'[e] = mishaps[e] + (IF answer = "lost" THEN 1 ELSE 0) BY <1>1, <1>3, <2>6
  <2>. QED BY <2>1, <2>5, <2>6, <2>7, <2>8, <2>9 DEF Budget
<1>. QED BY <1>7, <1>8, <1>9

\* Only who owes puts the row back in the queue.
LEMMA RecordsHolds ==
    ASSUME MailInv, NEW w \in Workers, Records(w)
    PROVE  MailInv'
<1> USE DEF MailInv, MailTypes
<1>0. PICK e \in Events : sender[w].mail = e BY DEF Records
<1>1. /\ sender[w] \in Senders /\ sender[w].job = "records" /\ sender[w].mail = e
      /\ sender[w].answer \in {"sent", "refused", "unreachable", "lost"}
      /\ mail[e] \in MailRecords
  BY <1>0 DEF Records, Senders
<1> DEFINE out == Outcome(sender[w].answer, sender[w].attempts)
<1>2. out \in {"sent", "failed", "queued"} /\ (out = "queued" => sender[w].answer \in {"unreachable", "lost"})
  BY <1>1 DEF Outcome
<1>3. /\ mail' = [mail EXCEPT ![e].status = out, ![e].due = FALSE]
      /\ sender' = [sender EXCEPT ![w] = Idle]
      /\ UNCHANGED <<at, inbox, mishaps>>
  BY <1>0 DEF Records
<1> HIDE DEF out
<1>4. [mail[e] EXCEPT !.status = out, !.due = FALSE] \in MailRecords BY <1>1, <1>2 DEF MailRecords, OPEN_MAIL
<1>5. MailTypes'
  <2>1. Idle \in Senders /\ Idle.job = "idle" BY DEF Idle, Senders
  <2>2. mail' = [mail EXCEPT ![e] = [mail[e] EXCEPT !.status = out, !.due = FALSE]] BY <1>3
  <2>. QED BY <1>3, <1>4, <2>1, <2>2
<1>6. ASSUME NEW f \in Events, f # e PROVE Budget(f)'
  <2>1. \A x \in Workers : sender'[x] = sender[x] \/ (~On(x, f) /\ ~On(x, f)')
    BY <1>1, <1>3, <1>6 DEF On, Idle
  <2>. QED BY <1>3, <1>6, <2>1, BudgetStill
<1>7. Budget(e)'
  <2>1. Owed(e)' \subseteq Owed(e) \ {w} BY <1>3 DEF Owed, Owing, On, Idle
  <2>2. out = "queued" => w \in Owed(e) BY <1>1, <1>2 DEF Owed, Owing, On
  <2>3. out # "queued" => ~Claimable(e)' BY <1>1, <1>2, <1>3 DEF Claimable, MailRecords
  <2>4. /\ Cardinality(Owed(e)) \in Nat /\ Cardinality(Owed(e)') \in Nat
        /\ Cardinality(Owed(e)') <= Cardinality(Owed(e))
        /\ out = "queued" => Cardinality(Owed(e)') <= Cardinality(Owed(e)) - 1
    <3>1. Owed(e) \in SUBSET Workers /\ Owed(e)' \in SUBSET Workers BY DEF Owed
    <3>2. Owed(e)' \subseteq Owed(e) BY <2>1
    <3>. QED BY <2>1, <2>2, <3>1, <3>2, Counts
  <2>5. inbox[e] \in Nat /\ mishaps[e] \in Nat OBVIOUS
  <2>. QED BY <1>3, <2>3, <2>4, <2>5 DEF Budget
<1>. QED BY <1>5, <1>6, <1>7

\* A death may free the row, and is a mishap.
LEMMA DiesHolds ==
    ASSUME MailInv, NEW w \in Workers, Dies(w)
    PROVE  MailInv'
<1> USE DEF MailInv, MailTypes
<1>0. PICK e \in Events : sender[w].mail = e BY DEF Dies
<1>1. sender[w].job # "idle" BY DEF Dies
<1>2. /\ sender' = [sender EXCEPT ![w] = Idle]
      /\ mishaps' = [mishaps EXCEPT ![e] = @ + 1]
      /\ UNCHANGED <<at, mail, inbox>>
  BY <1>0 DEF Dies, Mishap
<1>3. MailTypes'
  <2>1. Idle \in Senders /\ Idle.job = "idle" BY DEF Idle, Senders
  <2>2. mishaps' \in [Events -> Nat] BY <1>2
  <2>. QED BY <1>2, <2>1, <2>2
<1>4. ASSUME NEW f \in Events, f # e PROVE Budget(f)'
  <2>1. \A x \in Workers : sender'[x] = sender[x] \/ (~On(x, f) /\ ~On(x, f)')
    BY <1>0, <1>2, <1>4 DEF On, Idle
  <2>. QED BY <1>2, <1>4, <2>1, BudgetStill
<1>5. Budget(e)'
  <2>1. Owed(e)' \subseteq Owed(e) BY <1>2 DEF Owed, Owing, On, Idle
  <2>2. /\ Cardinality(Owed(e)) \in Nat /\ Cardinality(Owed(e)') \in Nat
        /\ Cardinality(Owed(e)') <= Cardinality(Owed(e))
    <3>1. Owed(e) \in SUBSET Workers /\ Owed(e)' \in SUBSET Workers BY DEF Owed
    <3>. QED BY <2>1, <3>1, Counts
  <2>3. inbox[e] \in Nat /\ mishaps[e] \in Nat OBVIOUS
  <2>. QED BY <1>2, <2>2, <2>3 DEF Budget
<1>. QED BY <1>3, <1>4, <1>5

\* A lease that ends frees the row: of a dead sender it was free, of a slow one it is a mishap.
LEMMA TimeComesHolds ==
    ASSUME MailInv, NEW e \in Events, TimeComes(e)
    PROVE  MailInv'
<1> USE DEF MailInv, MailTypes
<1> DEFINE held == \E w \in Workers : sender[w].job # "idle" /\ sender[w].mail = e
<1>1. /\ mail[e] \in MailRecords /\ mail[e].status \in {"queued", "sending"} /\ ~mail[e].due
      /\ mail' = [mail EXCEPT ![e].due = TRUE]
      /\ UNCHANGED <<at, sender, inbox>>
      /\ IF held THEN mishaps' = [mishaps EXCEPT ![e] = @ + 1] ELSE mishaps' = mishaps
  BY DEF TimeComes, Mishap, OPEN_MAIL
<1>2. MailTypes'
  <2> HIDE DEF held
  <2>1. [mail[e] EXCEPT !.due = TRUE] \in MailRecords BY <1>1 DEF MailRecords
  <2>2. mail' \in [Events -> MailRecords] BY <1>1, <2>1
  <2>3. mishaps' \in [Events -> Nat] BY <1>1
  <2>. QED BY <1>1, <2>2, <2>3
<1>3. ASSUME NEW f \in Events, f # e PROVE Budget(f)'
  <2>1. mail'[f] = mail[f] /\ inbox'[f] = inbox[f] /\ mishaps'[f] = mishaps[f] BY <1>1, <1>3
  <2>. QED BY <1>1, <1>3, <2>1, BudgetStill
<1>4. Budget(e)'
  <2>1. Owed(e)' = Owed(e) BY <1>1 DEF Owed, Owing, On
  <2>2. ~held => Claimable(e) BY <1>1 DEF Claimable, On
  <2>3. Cardinality(Owed(e)) \in Nat BY FS_Subset, FS_CardinalityType, NotificationsAssumption DEF Owed
  <2>4. inbox[e] \in Nat /\ mishaps[e] \in Nat OBVIOUS
  <2>5. mishaps'[e] = mishaps[e] + (IF held THEN 1 ELSE 0) BY <1>1, <2>4
  <2> HIDE DEF held
  <2>. QED BY <1>1, <2>1, <2>2, <2>3, <2>4, <2>5 DEF Budget
<1>. QED BY <1>2, <1>3, <1>4

-----------------------------------------------------------------------------
\* The order and the transport do not touch the e-mails.
LEMMA NothingSent ==
    ASSUME MailInv, UNCHANGED <<mail, sender, inbox, mishaps>>, at' \in Nat
    PROVE  MailInv'
BY BudgetStill DEF MailInv, MailTypes

\* Every step keeps the budgets.
LEMMA MailStep == MailInv /\ [MailNext]_mailVars => MailInv'
<1> SUFFICES ASSUME MailInv, [MailNext]_mailVars PROVE MailInv' OBVIOUS
<1>1. CASE OrderMoves BY <1>1, NothingSent DEF OrderMoves, MailInv, MailTypes
<1>2. CASE Configures BY <1>2, NothingSent DEF Configures, MailInv, MailTypes
<1>3. CASE UNCHANGED mailVars BY <1>3, NothingSent DEF mailVars, MailInv, MailTypes
<1>4. CASE \E e \in Events : Consumes(e) \/ TimeComes(e) BY <1>4, ConsumesHolds, TimeComesHolds
<1>5. CASE \E w \in Workers : Sends(w) \/ Records(w) \/ Dies(w) \/ \E e \in Events : Claims(w, e)
  BY <1>5, SendsHolds, RecordsHolds, DiesHolds, ClaimsHolds
<1>. QED BY <1>1, <1>2, <1>3, <1>4, <1>5 DEF MailNext

\* MailSentOnce, the property above of `send_one` and the notifier, holds whatever the constants are.
THEOREM MailIsSentOnce == MailSpec => []MailSentOnce
<1>1. MailInv => MailSentOnce
  <2> SUFFICES ASSUME MailInv, NEW e \in Events PROVE inbox[e] <= 1 + mishaps[e]
    BY DEF MailSentOnce
  <2>1. Cardinality(Owed(e)) \in Nat BY FS_Subset, FS_CardinalityType, NotificationsAssumption DEF Owed
  <2>. QED BY <2>1 DEF MailInv, MailTypes, Budget
<1>. QED BY <1>1, MailInitially, MailStep, PTL DEF MailSpec
=============================================================================
