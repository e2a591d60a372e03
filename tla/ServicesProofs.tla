--------------------------- MODULE ServicesProofs ---------------------------
(***************************************************************************)
(* The safety of three services of the servers that have no state in       *)
(* common, each with its queue or its slots: the delivery of outcomes, the *)
(* image jobs and the byte cache.  For any number of jobs, requests,       *)
(* calls, slots, attempts and failures.                                    *)
(***************************************************************************)
EXTENDS OutcomeDelivery, ImageJobs, ByteCache, SequenceFacts, FiniteSetTheorems

-----------------------------------------------------------------------------
(* OutcomeDelivery.  An outcome has one way at a time: until its task is   *)
(* over it is nowhere, in the queue of emails it has no copy yet, and      *)
(* while it is sent its copies are fewer than its attempts.                *)

LEMMA DeliveryInitInv == DeliveryInit => DeliveryIInv
<1> SUFFICES ASSUME DeliveryInit PROVE DeliveryIInv
  OBVIOUS
<1>1. DeliveryTypeOK
  BY DeliveryAssumption DEF DeliveryInit, DeliveryTypeOK, Channel, Tab, TaskStage
<1>2. \A j \in Jobs : ~OnTheWay(j) /\ copies[j] = 0 /\ j \notin Accepted
  BY DeliveryAssumption, EmptyToSet DEF DeliveryInit, OnTheWay, Accepted
<1>3. EmailIsFallback /\ NothingElseIsLost /\ NothingBeforeTheEnd
  BY <1>2 DEF DeliveryInit, EmailIsFallback, NothingElseIsLost, NothingBeforeTheEnd
<1>4. TasksWait /\ MailsAreNew /\ CopiesByAttempts
  BY DEF DeliveryInit, TasksWait, MailsAreNew, CopiesByAttempts
<1> QED
  BY <1>1, <1>3, <1>4 DEF DeliveryIInv, OutcomesSafe

-----------------------------------------------------------------------------
(* The queue of tasks.                                                     *)

(* A job whose task is not over changes its stage, and nothing else is     *)
(* touched.                                                                *)
LEMMA StageMoves ==
  ASSUME DeliveryIInv, DeliveryTypeOK', TasksWait',
         UNCHANGED <<channel, mails, sender, traces>>,
         \A j \in Jobs : stage'[j] = "over" => stage[j] = "over",
         \A j \in Jobs : stage'[j] \notin {"over", "lost"} => stage[j] \notin {"over", "lost"}
  PROVE  DeliveryIInv'
<1>1. \A j : OnTheWay(j)' <=> OnTheWay(j)
  BY DEF OnTheWay, sender
<1>2. Accepted' = Accepted /\ UNCHANGED <<copies, logged, spilled, cancelled>>
  BY DEF Accepted, traces, toasts, emails
<1> QED
  BY <1>1, <1>2 DEF DeliveryIInv, OutcomesSafe, EmailIsFallback, NothingElseIsLost, NothingBeforeTheEnd,
     MailsAreNew, CopiesByAttempts, sender

LEMMA EnqueueKeeps == ASSUME DeliveryIInv, NEW j \in Jobs, Enqueue(j) PROVE DeliveryIInv'
<1>1. /\ stage[j] = "new" /\ tasks \in Seq(Jobs) /\ stage \in [Jobs -> TaskStage]
      /\ UNCHANGED <<setup, tab, mails, sender, traces, stops>>
  BY DEF Enqueue, DeliveryIInv, OutcomesSafe, DeliveryTypeOK
<1>2. CASE Len(tasks) < TaskCap
  <2>1. stage' = [stage EXCEPT ![j] = "queued"] /\ tasks' = Append(tasks, j)
    BY <1>2 DEF Enqueue
  <2>2. DeliveryTypeOK'
    BY <1>1, <1>2, <2>1, Appended, LenProperties, DeliveryAssumption
       DEF DeliveryIInv, OutcomesSafe, DeliveryTypeOK, TaskStage, setup, sender, traces, toasts, emails
  <2>3. \A i \in 1..Len(tasks) : tasks[i] \in Jobs /\ tasks[i] # j
    BY <1>1, ElementOfSeq DEF DeliveryIInv, TasksWait
  <2>4. TasksWait'
    BY <1>1, <2>1, <2>3, Appended, LenProperties DEF DeliveryIInv, TasksWait
  <2> QED
    BY <1>1, <2>1, <2>2, <2>4, StageMoves DEF setup
<1>3. CASE ~(Len(tasks) < TaskCap)
  <2>1. stage' = [stage EXCEPT ![j] = "refused"] /\ tasks' = tasks
    BY <1>3 DEF Enqueue
  <2>2. DeliveryTypeOK'
    BY <1>1, <2>1 DEF DeliveryIInv, OutcomesSafe, DeliveryTypeOK, TaskStage, setup, sender, traces, toasts, emails
  <2>3. TasksWait'
    BY <1>1, <2>1, ElementOfSeq DEF DeliveryIInv, TasksWait
  <2> QED
    BY <1>1, <2>1, <2>2, <2>3, StageMoves DEF setup
<1> QED
  BY <1>2, <1>3

LEMMA TakeKeeps == ASSUME DeliveryIInv, Take PROVE DeliveryIInv'
<1>1. /\ tasks \in Seq(Jobs) /\ tasks # <<>> /\ stage \in [Jobs -> TaskStage]
      /\ stage' = [stage EXCEPT ![Head(tasks)] = "running"] /\ tasks' = Tail(tasks)
      /\ UNCHANGED <<setup, tab, mails, sender, traces, stops>>
  BY DEF Take, DeliveryIInv, OutcomesSafe, DeliveryTypeOK
<1>2. Head(tasks) \in Jobs /\ stage[Head(tasks)] = "queued"
  BY <1>1, Taken DEF DeliveryIInv, TasksWait
<1>3. DeliveryTypeOK'
  BY <1>1, <1>2, Taken, LenProperties, DeliveryAssumption
     DEF DeliveryIInv, OutcomesSafe, DeliveryTypeOK, TaskStage, setup, sender, traces, toasts, emails
<1>4. \A i \in 1..Len(tasks') : i + 1 \in 1..Len(tasks) /\ tasks'[i] = tasks[i + 1] /\ tasks'[i] # Head(tasks) /\ tasks'[i] \in Jobs
  BY <1>1, Taken, LenProperties, ElementOfSeq DEF DeliveryIInv, TasksWait
<1>5. TasksWait'
  BY <1>1, <1>4, Taken, LenProperties DEF DeliveryIInv, TasksWait
<1> QED
  BY <1>1, <1>2, <1>3, <1>5, StageMoves DEF setup

LEMMA TaskFailsKeeps == ASSUME DeliveryIInv, NEW j \in Jobs, TaskFails(j) PROVE DeliveryIInv'
<1>1. /\ stage[j] = "running" /\ stage \in [Jobs -> TaskStage]
      /\ stage' = [stage EXCEPT ![j] = "over"] /\ logged' = logged \union {j}
      /\ UNCHANGED <<setup, tab, tasks, mails, sender, toasts, copies, spilled, cancelled, stops>>
  BY DEF TaskFails, DeliveryIInv, OutcomesSafe, DeliveryTypeOK
<1>2. DeliveryTypeOK'
  BY <1>1 DEF DeliveryIInv, OutcomesSafe, DeliveryTypeOK, TaskStage, setup, sender, toasts
<1>3. (\A i : OnTheWay(i)' <=> OnTheWay(i)) /\ Accepted' = Accepted
  BY <1>1 DEF OnTheWay, Accepted, sender, toasts
<1>4. EmailIsFallback' /\ NothingElseIsLost' /\ NothingBeforeTheEnd'
  BY <1>1, <1>3 DEF DeliveryIInv, OutcomesSafe, EmailIsFallback, NothingElseIsLost, NothingBeforeTheEnd, setup
<1>5. TasksWait'
  BY <1>1, ElementOfSeq DEF DeliveryIInv, OutcomesSafe, DeliveryTypeOK, TasksWait
<1>6. MailsAreNew' /\ CopiesByAttempts'
  BY <1>1 DEF DeliveryIInv, MailsAreNew, CopiesByAttempts, sender
<1> QED
  BY <1>2, <1>4, <1>5, <1>6 DEF DeliveryIInv, OutcomesSafe

-----------------------------------------------------------------------------
(* DeliverAsync.                                                           *)

(* A toast that a channel accepts ends the matter: no email was under way. *)
LEMMA ToastKeeps == ASSUME DeliveryIInv, NEW j \in Jobs, Toast(j) PROVE DeliveryIInv'
<1>1. /\ stage[j] = "running" /\ stage \in [Jobs -> TaskStage] /\ tab[j] \in Tab
      /\ stage'[j] \in {"over", "unreached"} /\ stage' = [stage EXCEPT ![j] = stage'[j]]
      /\ UNCHANGED <<setup, tab, tasks, mails, sender, seen, unread, overtaken, copies, logged, spilled, cancelled, stops>>
  BY DEF Toast, DeliveryIInv, OutcomesSafe, DeliveryTypeOK, emails
<1>2. /\ waiting' = IF Published(j) THEN waiting \union {j} ELSE waiting
      /\ stage'[j] = IF Published(j) \/ channel[j] = "Realtime" THEN "over" ELSE "unreached"
  BY <1>1 DEF Toast
<1>3. DeliveryTypeOK'
  <2>1. UNION {waiting, seen, unread, overtaken} \subseteq Jobs
    BY DEF DeliveryIInv, OutcomesSafe, DeliveryTypeOK
  <2>2. waiting' \subseteq Jobs
    BY <1>2, <2>1
  <2>3. (UNION {waiting, seen, unread, overtaken} \subseteq Jobs)'
    BY <1>1, <2>1, <2>2
  <2>4. stage' \in [Jobs -> TaskStage]
    BY <1>1 DEF TaskStage
  <2> QED
    BY <1>1, <2>3, <2>4 DEF DeliveryIInv, OutcomesSafe, DeliveryTypeOK, setup, sender
<1>4. /\ \A i : OnTheWay(i)' <=> OnTheWay(i)
      /\ Accepted' = IF Published(j) THEN Accepted \union {j} ELSE Accepted
  BY <1>1, <1>2 DEF OnTheWay, Accepted, sender
<1>5. EmailIsFallback' /\ NothingBeforeTheEnd'
  BY <1>1, <1>2, <1>4 DEF DeliveryIInv, OutcomesSafe, EmailIsFallback, NothingBeforeTheEnd, setup
<1>6. NothingElseIsLost'
  BY <1>1, <1>2, <1>4 DEF DeliveryIInv, OutcomesSafe, NothingElseIsLost, setup
<1>7. TasksWait'
  BY <1>1, ElementOfSeq DEF DeliveryIInv, OutcomesSafe, DeliveryTypeOK, TasksWait
<1>8. MailsAreNew' /\ CopiesByAttempts'
  BY <1>1 DEF DeliveryIInv, MailsAreNew, CopiesByAttempts, sender
<1> QED
  BY <1>3, <1>5, <1>6, <1>7, <1>8 DEF DeliveryIInv, OutcomesSafe

LEMMA SendEmailKeeps == ASSUME DeliveryIInv, NEW j \in Jobs, SendEmail(j) PROVE DeliveryIInv'
<1>1. /\ stage[j] \in {"unreached", "running"} /\ stage \in [Jobs -> TaskStage]
      /\ stage' = [stage EXCEPT ![j] = "over"] /\ mails \in Seq(Jobs) /\ MailCap \in Nat /\ Len(mails) \in Nat
      /\ UNCHANGED <<setup, tab, tasks, sender, toasts, copies, cancelled, stops>>
  BY DeliveryAssumption, LenProperties DEF SendEmail, DeliveryIInv, OutcomesSafe, DeliveryTypeOK
<1>2. ~OnTheWay(j) /\ copies[j] = 0 /\ j \notin Accepted /\ Accepted' = Accepted
  BY <1>1 DEF DeliveryIInv, NothingBeforeTheEnd, Accepted, toasts
<1>3. TasksWait'
  BY <1>1, ElementOfSeq DEF DeliveryIInv, OutcomesSafe, DeliveryTypeOK, TasksWait
<1>4. CopiesByAttempts'
  BY <1>1 DEF DeliveryIInv, CopiesByAttempts, sender
<1>5. CASE mails' = mails /\ logged' \union spilled' = logged \union spilled \union {j} /\ {logged', spilled'} \subseteq SUBSET Jobs
  <2>1. \A i : OnTheWay(i)' <=> OnTheWay(i)
    BY <1>1, <1>5 DEF OnTheWay, sender
  <2>2. DeliveryTypeOK'
    BY <1>1, <1>5 DEF DeliveryIInv, OutcomesSafe, DeliveryTypeOK, TaskStage, setup, sender, toasts
  <2>3. EmailIsFallback' /\ NothingElseIsLost' /\ NothingBeforeTheEnd'
    BY <1>1, <1>2, <1>5, <2>1 DEF DeliveryIInv, OutcomesSafe, EmailIsFallback, NothingElseIsLost, NothingBeforeTheEnd, setup
  <2>4. MailsAreNew'
    BY <1>1, <1>5 DEF DeliveryIInv, MailsAreNew, sender
  <2> QED
    BY <1>3, <1>4, <2>2, <2>3, <2>4 DEF DeliveryIInv, OutcomesSafe
<1>6. CASE Len(mails) < MailCap /\ mails' = Append(mails, j) /\ UNCHANGED <<logged, spilled>>
  <2>1. \A i : OnTheWay(i)' <=> OnTheWay(i) \/ i = j
    BY <1>1, <1>6, Appended DEF OnTheWay, sender
  <2>2. DeliveryTypeOK'
    BY <1>1, <1>6, Appended DEF DeliveryIInv, OutcomesSafe, DeliveryTypeOK, TaskStage, setup, sender, toasts
  <2>3. EmailIsFallback' /\ NothingElseIsLost' /\ NothingBeforeTheEnd'
    BY <1>1, <1>2, <1>6, <2>1 DEF DeliveryIInv, OutcomesSafe, EmailIsFallback, NothingElseIsLost, NothingBeforeTheEnd, setup
  <2>4. j # sending /\ \A i \in 1..Len(mails) : mails[i] # j
    BY <1>1, <1>2, LenProperties DEF OnTheWay, ToSet
  <2>5. /\ copies' = copies /\ sending' = sending /\ copies[j] = 0
        /\ \A i \in 1..Len(mails) : mails[i] # sending /\ copies[mails[i]] = 0
        /\ \A i, k \in 1..Len(mails) : mails[i] = mails[k] => i = k
    BY <1>1, <1>2 DEF DeliveryIInv, MailsAreNew, sender
  <2>6. Len(mails') = Len(mails) + 1 /\ mails'[Len(mails) + 1] = j /\ \A i \in 1..Len(mails) : mails'[i] = mails[i]
    BY <1>1, <1>6, Appended
  <2>7. MailsAreNew'
    BY <1>1, <2>4, <2>5, <2>6 DEF MailsAreNew
  <2> QED
    BY <1>3, <1>4, <2>2, <2>3, <2>7 DEF DeliveryIInv, OutcomesSafe
<1> QED
  BY <1>5, <1>6 DEF SendEmail, DeliveryIInv, OutcomesSafe, DeliveryTypeOK

-----------------------------------------------------------------------------
(* The email sender.                                                       *)

LEMMA ReceiveKeeps == ASSUME DeliveryIInv, Receive PROVE DeliveryIInv'
<1>1. /\ sending = NoMail /\ mails # <<>> /\ mails \in Seq(Jobs)
      /\ sending' = Head(mails) /\ attempt' = 1 /\ mails' = Tail(mails)
      /\ UNCHANGED <<setup, tab, stage, tasks, traces, stops>>
  BY DEF Receive, DeliveryIInv, OutcomesSafe, DeliveryTypeOK
<1>2. DeliveryTypeOK'
  BY <1>1, Taken, LenProperties, DeliveryAssumption
     DEF DeliveryIInv, OutcomesSafe, DeliveryTypeOK, setup, traces, toasts, emails
<1>3. \A i \in Jobs : OnTheWay(i)' <=> OnTheWay(i)
  BY <1>1, Taken, DeliveryAssumption DEF OnTheWay
<1>4. EmailIsFallback' /\ NothingElseIsLost' /\ NothingBeforeTheEnd'
  BY <1>1, <1>3 DEF DeliveryIInv, OutcomesSafe, EmailIsFallback, NothingElseIsLost, NothingBeforeTheEnd, Accepted,
     setup, traces, toasts, emails
<1>5. TasksWait'
  BY <1>1 DEF DeliveryIInv, TasksWait
<1>6. MailsAreNew'
  BY <1>1, Taken, LenProperties DEF DeliveryIInv, MailsAreNew, traces, emails
<1>7. CopiesByAttempts'
  BY <1>1, Taken, DeliveryAssumption DEF DeliveryIInv, MailsAreNew, CopiesByAttempts, traces, emails
<1> QED
  BY <1>2, <1>4, <1>5, <1>6, <1>7 DEF DeliveryIInv, OutcomesSafe

(* The message in hand: its task is over, and it may have copies already.  *)
LEMMA InHand ==
  ASSUME DeliveryIInv, sending # NoMail
  PROVE  /\ sending \in Jobs /\ attempt \in 1..MaxAttempts /\ copies[sending] \in 0..(attempt - 1)
         /\ OnTheWay(sending) /\ stage[sending] \in {"over", "lost"}
         /\ channel[sending] = "Auto" => sending \notin Accepted
BY DeliveryAssumption DEF DeliveryIInv, OutcomesSafe, DeliveryTypeOK, OnTheWay, CopiesByAttempts,
   NothingBeforeTheEnd, EmailIsFallback

(* An attempt ends: the message stays in hand, or it is done with it, a    *)
(* copy accepted, its end logged or the attempt cancelled.                 *)
LEMMA AttemptEnds ==
  ASSUME DeliveryIInv, sending # NoMail,
         copies' \in {copies, [copies EXCEPT ![sending] = @ + 1]},
         logged' \in {logged, logged \union {sending}},
         cancelled' \in {cancelled, cancelled \union {sending}},
         \/ UNCHANGED sending /\ attempt' = attempt + 1 /\ attempt < MaxAttempts
         \/ Done /\ (copies'[sending] > 0 \/ sending \in logged' \union cancelled'),
         UNCHANGED <<setup, tab, stage, tasks, mails, toasts, spilled, stops>>
  PROVE  DeliveryIInv'
<1>1. /\ copies \in [Jobs -> 0..MaxAttempts] /\ logged \subseteq Jobs /\ MaxAttempts \in Nat
      /\ copies'[sending] \in {copies[sending], copies[sending] + 1}
      /\ \A i \in Jobs : i # sending => copies'[i] = copies[i]
      /\ copies' \in [Jobs -> 0..MaxAttempts] /\ logged' \subseteq Jobs
  <2>1. copies \in [Jobs -> 0..MaxAttempts] /\ logged \subseteq Jobs /\ MaxAttempts \in Nat
    BY DeliveryAssumption DEF DeliveryIInv, OutcomesSafe, DeliveryTypeOK
  <2>2. sending \in Jobs /\ copies[sending] \in Nat /\ copies[sending] + 1 \in 0..MaxAttempts /\ logged' \subseteq Jobs
    BY <2>1, InHand
  <2>3. CASE copies' = copies
    BY <2>1, <2>2, <2>3
  <2>4. CASE copies' = [copies EXCEPT ![sending] = @ + 1]
    BY <2>1, <2>2, <2>4
  <2> QED
    BY <2>1, <2>2, <2>3, <2>4
<1>2. DeliveryTypeOK'
  BY <1>1, InHand, DeliveryAssumption DEF DeliveryIInv, OutcomesSafe, DeliveryTypeOK, Done, setup, toasts
<1>3. /\ \A i \in Jobs : (OnTheWay(i)' => OnTheWay(i)) /\ (i # sending => (OnTheWay(i) => OnTheWay(i)'))
      /\ Accepted' = Accepted
  BY DeliveryAssumption DEF OnTheWay, Done, Accepted, toasts
<1>4. EmailIsFallback' /\ NothingBeforeTheEnd'
  BY <1>1, <1>3, InHand DEF DeliveryIInv, OutcomesSafe, EmailIsFallback, NothingBeforeTheEnd, setup
<1>5. NothingElseIsLost'
  <2> SUFFICES ASSUME NEW i \in Jobs, (stage[i] = "over" /\ channel[i] # "Realtime")'
               PROVE  (i \in UNION {Accepted, logged, spilled, cancelled} \/ OnTheWay(i) \/ copies[i] > 0)'
    BY DEF NothingElseIsLost
  <2>1. i \in UNION {Accepted, logged, spilled, cancelled} \/ OnTheWay(i) \/ copies[i] > 0
    BY DEF DeliveryIInv, OutcomesSafe, NothingElseIsLost, setup
  <2>2. CASE i # sending
    BY <1>1, <1>3, <2>1, <2>2
  <2>3. CASE i = sending /\ UNCHANGED sending
    BY <2>3 DEF OnTheWay
  <2>4. CASE i = sending /\ Done /\ (copies'[sending] > 0 \/ sending \in logged' \union cancelled')
    BY <2>4
  <2> QED
    BY <2>2, <2>3, <2>4
<1>6. TasksWait'
  BY DEF DeliveryIInv, TasksWait
<1>7. MailsAreNew'
  <2>1. \A i \in 1..Len(mails) : mails[i] \in Jobs /\ mails[i] # sending /\ mails[i] # NoMail
    BY ElementOfSeq, DeliveryAssumption DEF DeliveryIInv, OutcomesSafe, DeliveryTypeOK, MailsAreNew
  <2> QED
    BY <1>1, <2>1 DEF DeliveryIInv, MailsAreNew, Done
<1>8. CopiesByAttempts'
  BY <1>1, InHand DEF DeliveryIInv, CopiesByAttempts, Done
<1> QED
  BY <1>2, <1>4, <1>5, <1>6, <1>7, <1>8 DEF DeliveryIInv, OutcomesSafe

LEMMA SenderKeeps == ASSUME DeliveryIInv, Sent \/ AttemptFails \/ AttemptCancelled \/ Discard PROVE DeliveryIInv'
<1>1. CASE Sent
  <2>1. copies'[sending] > 0
    BY <1>1, InHand DEF Sent, DeliveryIInv, OutcomesSafe, DeliveryTypeOK
  <2> QED
    BY <1>1, <2>1, AttemptEnds DEF Sent
<1>2. CASE AttemptFails
  BY <1>2, AttemptEnds DEF AttemptFails, Retry
<1>3. CASE AttemptCancelled
  BY <1>3, AttemptEnds DEF AttemptCancelled
<1>4. CASE Discard
  BY <1>4, AttemptEnds DEF Discard
<1> QED
  BY <1>1, <1>2, <1>3, <1>4

-----------------------------------------------------------------------------
(* Toasts that end, tabs that go, and the stop of the process.             *)

(* Nothing leaves what a channel has accepted but by a stop.               *)
LEMMA TabsKeep ==
  ASSUME DeliveryIInv, NEW j \in Jobs, Show(j) \/ Overtake(j) \/ Vanish(j) \/ Unsubscribe(j)
  PROVE  DeliveryIInv'
<1>1. UNCHANGED <<setup, stage, tasks, mails, sender, emails, stops>>
  BY DEF Show, Overtake, Vanish, Unsubscribe, traces
<1>2. DeliveryTypeOK'
  BY <1>1 DEF Show, Overtake, Vanish, Unsubscribe, DeliveryIInv, OutcomesSafe, DeliveryTypeOK, Tab,
     setup, sender, traces, toasts, emails
<1>3. Accepted' = Accepted
  BY DEF Show, Overtake, Vanish, Unsubscribe, Accepted, traces, toasts
<1>4. \A i : OnTheWay(i)' <=> OnTheWay(i)
  BY <1>1 DEF OnTheWay, sender
<1> QED
  BY <1>1, <1>2, <1>3, <1>4
     DEF DeliveryIInv, OutcomesSafe, EmailIsFallback, NothingElseIsLost, NothingBeforeTheEnd, TasksWait,
         MailsAreNew, CopiesByAttempts, setup, sender, emails

LEMMA HostStopsKeeps == ASSUME DeliveryIInv, HostStops PROVE DeliveryIInv'
<1>1. /\ stage \in [Jobs -> TaskStage] /\ tab \in [Jobs -> Tab]
      /\ stage' = [j \in Jobs |-> IF stage[j] \in {"queued", "running", "unreached"} \/ OnTheWay(j) \/ j \in waiting
                                   THEN "lost" ELSE stage[j]]
      /\ tasks' = <<>> /\ mails' = <<>> /\ waiting' = {} /\ sending' = NoMail /\ attempt' = 0
      /\ UNCHANGED <<setup, seen, unread, overtaken, emails>>
  BY DEF HostStops, Done, OnTheWay, DeliveryIInv, OutcomesSafe, DeliveryTypeOK
<1>2. stage' \in [Jobs -> TaskStage]
  BY <1>1 DEF TaskStage
<1>3. DeliveryTypeOK'
  BY <1>1, <1>2, EmptySeq, DeliveryAssumption
     DEF HostStops, DeliveryIInv, OutcomesSafe, DeliveryTypeOK, Tab, setup, emails
<1>4. \A i \in Jobs : ~OnTheWay(i)'
  BY <1>1, EmptyToSet, DeliveryAssumption DEF OnTheWay
<1>5. \A i \in Jobs : (i \in Accepted' => i \in Accepted) /\ (i \in Accepted => i \in Accepted' \union waiting)
  BY <1>1 DEF Accepted
<1>6. EmailIsFallback' /\ NothingElseIsLost' /\ NothingBeforeTheEnd'
  BY <1>1, <1>4, <1>5
     DEF DeliveryIInv, OutcomesSafe, EmailIsFallback, NothingElseIsLost, NothingBeforeTheEnd, setup, emails
<1>7. TasksWait' /\ MailsAreNew' /\ CopiesByAttempts'
  BY <1>1, EmptySeq DEF TasksWait, MailsAreNew, CopiesByAttempts
<1> QED
  BY <1>3, <1>6, <1>7 DEF DeliveryIInv, OutcomesSafe

-----------------------------------------------------------------------------
LEMMA NextKeeps == DeliveryIInv /\ [DeliveryNext]_deliveryVars => DeliveryIInv'
<1> SUFFICES ASSUME DeliveryIInv, [DeliveryNext]_deliveryVars PROVE DeliveryIInv'
  OBVIOUS
<1>1. CASE \E j \in Jobs : Enqueue(j) \/ Show(j) \/ Overtake(j) \/ Vanish(j) \/ Unsubscribe(j)
  BY <1>1, EnqueueKeeps, TabsKeep
<1>2. CASE Worker
  BY <1>2, TakeKeeps, TaskFailsKeeps, ToastKeeps, SendEmailKeeps DEF Worker, Run
<1>3. CASE Sender
  BY <1>3, ReceiveKeeps, SenderKeeps DEF Sender
<1>4. CASE HostStops
  BY <1>4, HostStopsKeeps
<1>5. CASE UNCHANGED deliveryVars
  <2>1. DeliveryTypeOK' /\ TasksWait'
    BY <1>5 DEF DeliveryIInv, OutcomesSafe, DeliveryTypeOK, TasksWait, deliveryVars, setup, sender, traces, toasts, emails
  <2> QED
    BY <1>5, <2>1, StageMoves DEF deliveryVars, setup
<1> QED
  BY <1>1, <1>2, <1>3, <1>4, <1>5 DEF DeliveryNext

(* An outcome that may go by email reaches its user once, whatever fails,  *)
(* is retried, goes away or stops: never by email after a tab has it,      *)
(* never without a trace but by a dead connection, a full queue of emails  *)
(* or the end of the process (DeliverAsync, SendWithRetryAsync).           *)
THEOREM OutcomesAreSafe == DeliverySpec => []OutcomesSafe
<1>1. DeliveryIInv => OutcomesSafe
  BY DEF DeliveryIInv
<1> QED
  BY <1>1, DeliveryInitInv, NextKeeps, PTL DEF DeliverySpec

-----------------------------------------------------------------------------
(* ImageJobs.  The counter _activeJobs says how many jobs hold a slot; the *)
(* hand-over of releaseJobSlot swaps one holder for another.               *)

LEMMA JobsInitInv == Init => IInv
<1> SUFFICES ASSUME Init PROVE IInv
  OBVIOUS
<1>1. Holders = {}
  BY DEF Init, Holders
<1>2. IsFiniteSet(Holders) /\ Cardinality(Holders) = 0
  BY <1>1, FS_EmptySet
<1>3. TypeOK
  BY JobsAssumption DEF Init, TypeOK, FileState, Stage, JobStage
<1>4. ActiveCountsHolders /\ QueueOnlyWhenFull
  BY <1>2 DEF Init, ActiveCountsHolders, QueueOnlyWhenFull
<1>5. QueueIsQueued /\ JobsListed /\ EntriesAlive /\ UnstartedHaveNoJob
  BY DEF Init, QueueIsQueued, JobsListed, EntriesAlive, UnstartedHaveNoJob, Alive
<1> QED
  BY <1>2, <1>3, <1>4, <1>5 DEF IInv

(* Steps of the handlers and of the files leave jobs and slots alone.      *)
LEMMA JobsSlotsUntouched ==
  ASSUME IInv, UNCHANGED <<slots, key>>, TypeOK',
         \A r \in Requests : pc'[r] \in {"new", "checking", "hit", "miss"} => job[r] = "none"
  PROVE  IInv'
<1>1. Holders' = Holders
  BY DEF slots, Holders
<1> QED
  BY <1>1 DEF slots, IInv, QueueIsQueued, ActiveCountsHolders, QueueOnlyWhenFull, JobsListed, EntriesAlive,
     UnstartedHaveNoJob, Alive

LEMMA HandlersKeep ==
  ASSUME IInv, NEW r \in Requests, Arrive(r) \/ Check(r) \/ Hit(r) \/ Join(r) \/ Send(r)
  PROVE  IInv'
<1>1. UNCHANGED <<slots, key>>
  BY DEF Arrive, Check, Hit, Join, Send
<1>2. TypeOK'
  BY DEF Arrive, Check, Hit, Join, Send, slots, IInv, TypeOK, Stage
<1>3. \A q \in Requests : pc'[q] \in {"new", "checking", "hit", "miss"} => job[q] = "none"
  BY DEF Arrive, Check, Hit, Join, Send, IInv, TypeOK, UnstartedHaveNoJob
<1> QED
  BY <1>1, <1>2, <1>3, JobsSlotsUntouched

LEMMA PruneKeeps == ASSUME IInv, NEW k \in Keys, Prune(k) PROVE IInv'
<1>1. TypeOK'
  BY DEF Prune, handlers, slots, IInv, TypeOK, FileState
<1> QED
  BY <1>1, JobsSlotsUntouched DEF Prune, handlers, IInv, UnstartedHaveNoJob

(* The holders stay the same set when a job goes from ready to writing.    *)
LEMMA WriteKeeps == ASSUME IInv, NEW j \in Requests, Write(j) PROVE IInv'
<1>1. Holders' = Holders
  BY DEF Write, Holders, IInv, TypeOK
<1>2. TypeOK'
  BY DEF Write, handlers, IInv, TypeOK, FileState, JobStage
<1>3. QueueIsQueued'
  BY DEF Write, IInv, TypeOK, QueueIsQueued
<1>4. JobsListed' /\ EntriesAlive' /\ UnstartedHaveNoJob'
  BY JobsAssumption DEF Write, handlers, IInv, TypeOK, JobsListed, EntriesAlive, UnstartedHaveNoJob, Alive
<1> QED
  BY <1>1, <1>2, <1>3, <1>4 DEF Write, IInv, ActiveCountsHolders, QueueOnlyWhenFull

(* A newcomer takes a free slot, or goes to the end of the queue.          *)
LEMMA StartKeeps == ASSUME IInv, NEW r \in Requests, Start(r) PROVE IInv'
<1>1. /\ pc[r] = "miss" /\ key[r] \in Keys /\ inProgress[key[r]] = None /\ job[r] = "none"
      /\ UNCHANGED <<file, key, got, faults>>
      /\ pc' = [pc EXCEPT ![r] = "waiting"] /\ awaited' = [awaited EXCEPT ![r] = r]
      /\ inProgress' = [inProgress EXCEPT ![key[r]] = r]
  BY DEF Start, IInv, TypeOK, UnstartedHaveNoJob
<1>2. active \in Nat /\ Slots \in Nat /\ queue \in Seq(Requests) /\ r \notin Holders
  BY <1>1, JobsAssumption DEF IInv, TypeOK, Holders
<1>3. CASE active < Slots
  <2>1. job' = [job EXCEPT ![r] = "ready"] /\ active' = active + 1 /\ queue' = queue
    BY <1>3 DEF Start, Acquire
  <2>2. Holders' = Holders \union {r}
    BY <2>1 DEF Holders, IInv, TypeOK
  <2>3. IsFiniteSet(Holders)' /\ ActiveCountsHolders'
    BY <1>2, <2>1, <2>2, FS_AddElement, FS_CardinalityType DEF IInv, ActiveCountsHolders
  <2>4. TypeOK'
    BY <1>1, <1>2, <1>3, <2>1 DEF IInv, TypeOK, Stage, JobStage
  <2>5. QueueIsQueued'
    BY <1>1, <2>1 DEF IInv, TypeOK, QueueIsQueued
  <2>6. QueueOnlyWhenFull'
    BY <1>2, <1>3, <2>1 DEF IInv, QueueOnlyWhenFull
  <2>7. JobsListed' /\ EntriesAlive' /\ UnstartedHaveNoJob'
    BY <1>1, <2>1, JobsAssumption DEF IInv, TypeOK, JobsListed, EntriesAlive, UnstartedHaveNoJob, Alive
  <2> QED
    BY <2>3, <2>4, <2>5, <2>6, <2>7 DEF IInv
<1>4. CASE ~(active < Slots)
  <2>1. job' = [job EXCEPT ![r] = "queued"] /\ active' = active /\ queue' = Append(queue, r)
    BY <1>4 DEF Start, Acquire
  <2>2. Holders' = Holders
    BY <1>1, <2>1 DEF Holders, IInv, TypeOK
  <2>3. /\ queue' \in Seq(Requests) /\ Len(queue') = Len(queue) + 1 /\ Len(queue) \in Nat
        /\ queue'[Len(queue) + 1] = r
        /\ \A i \in 1..Len(queue) : queue'[i] = queue[i]
    BY <1>2, <2>1, AppendProperties
  <2>4. TypeOK'
    BY <1>1, <2>1, <2>3 DEF IInv, TypeOK, Stage, JobStage
  <2>5. \A i \in 1..Len(queue) : queue[i] # r /\ queue[i] \in Requests
    BY <1>1, <1>2, ElementOfSeq DEF IInv, QueueIsQueued
  <2>6. QueueIsQueued'
    <3>1. \A i \in 1..Len(queue') : job'[queue'[i]] = "queued"
      BY <2>1, <2>3, <2>5 DEF IInv, TypeOK, QueueIsQueued
    <3>2. \A i, k \in 1..Len(queue') : queue'[i] = queue'[k] => i = k
      BY <2>3, <2>5 DEF IInv, QueueIsQueued
    <3>3. ASSUME NEW q \in Requests, job'[q] = "queued"
          PROVE  \E i \in 1..Len(queue') : queue'[i] = q
      <4>1. CASE q = r
        <5>1. Len(queue) + 1 \in 1..Len(queue')
          BY <2>3
        <5> QED
          BY <2>3, <4>1, <5>1
      <4>2. CASE q # r
        <5>1. PICK i \in 1..Len(queue) : queue[i] = q
          BY <2>1, <3>3, <4>2 DEF IInv, TypeOK, QueueIsQueued
        <5>2. i \in 1..Len(queue') /\ queue'[i] = q
          BY <2>3, <5>1
        <5> QED
          BY <5>2
      <4> QED
        BY <4>1, <4>2
    <3> QED
      BY <3>1, <3>2, <3>3 DEF QueueIsQueued
  <2>7. IsFiniteSet(Holders)' /\ ActiveCountsHolders' /\ QueueOnlyWhenFull'
    BY <1>2, <1>4, <2>1, <2>2 DEF IInv, TypeOK, ActiveCountsHolders, QueueOnlyWhenFull
  <2>8. JobsListed' /\ EntriesAlive' /\ UnstartedHaveNoJob'
    BY <1>1, <2>1, JobsAssumption DEF IInv, TypeOK, JobsListed, EntriesAlive, UnstartedHaveNoJob, Alive
  <2> QED
    BY <2>4, <2>6, <2>7, <2>8 DEF IInv
<1> QED
  BY <1>3, <1>4

(* The slot of j passes to the head of the queue, or becomes free.         *)
LEMMA ReleaseKeeps ==
  ASSUME IInv, NEW j \in Requests, job[j] \in {"ready", "writing"}, Release(j)
  PROVE  /\ job' \in [Requests -> JobStage] /\ active' \in 0..Slots /\ queue' \in Seq(Requests)
         /\ QueueIsQueued' /\ IsFiniteSet(Holders)' /\ ActiveCountsHolders' /\ QueueOnlyWhenFull'
         /\ \A r \in Requests : Alive(r)' <=> Alive(r) /\ r # j
         /\ \A r \in Requests : job[r] = "none" => job'[r] = "none"
<1>1. j \in Holders /\ active \in Nat /\ Slots \in Nat /\ queue \in Seq(Requests)
  BY JobsAssumption DEF IInv, TypeOK, Holders
<1>2. IsFiniteSet(Holders) /\ active = Cardinality(Holders) /\ Cardinality(Holders \ {j}) = active - 1
      /\ IsFiniteSet(Holders \ {j}) /\ active - 1 \in Nat
  <2>1. IsFiniteSet(Holders) /\ active = Cardinality(Holders)
    BY DEF IInv, ActiveCountsHolders
  <2>2. IsFiniteSet(Holders \ {j}) /\ Cardinality(Holders \ {j}) = Cardinality(Holders) - 1
    BY <1>1, <2>1, FS_RemoveElement
  <2>3. Cardinality(Holders \ {j}) \in Nat
    BY <2>2, FS_CardinalityType
  <2> QED
    BY <2>1, <2>2, <2>3
<1>3. CASE queue = <<>>
  <2>1. job' = [job EXCEPT ![j] = "over"] /\ active' = active - 1 /\ queue' = queue
    BY <1>3 DEF Release
  <2>2. Holders' = Holders \ {j}
    BY <2>1 DEF Holders, IInv, TypeOK
  <2>3. QueueIsQueued'
    BY <2>1 DEF IInv, TypeOK, QueueIsQueued
  <2>4. IsFiniteSet(Holders)' /\ ActiveCountsHolders' /\ QueueOnlyWhenFull'
    BY <1>2, <1>3, <2>1, <2>2 DEF ActiveCountsHolders, QueueOnlyWhenFull
  <2>5. job' \in [Requests -> JobStage] /\ active' \in 0..Slots
    BY <1>1, <1>2, <2>1 DEF IInv, TypeOK, JobStage
  <2>6. \A r \in Requests : (Alive(r)' <=> Alive(r) /\ r # j) /\ (job[r] = "none" => job'[r] = "none")
    BY <2>1 DEF IInv, TypeOK, Alive
  <2> QED
    BY <1>1, <2>1, <2>3, <2>4, <2>5, <2>6
<1>4. CASE queue # <<>>
  <2> DEFINE h == Head(queue)
  <2>1. job' = [job EXCEPT ![j] = "over", ![h] = "ready"] /\ active' = active /\ queue' = Tail(queue)
    BY <1>4 DEF Release
  <2>2. /\ h \in Requests /\ h = queue[1] /\ 1 \in 1..Len(queue) /\ Len(queue) \in Nat
        /\ queue' \in Seq(Requests) /\ Len(queue') = Len(queue) - 1
        /\ \A i \in 1..Len(queue') : queue'[i] = queue[i + 1]
    BY <1>1, <1>4, <2>1, HeadTailProperties, EmptySeq
  <2>3. job[h] = "queued" /\ h # j
    BY <2>2 DEF IInv, QueueIsQueued
  <2>4. \A r \in Requests : job'[r] = IF r = h THEN "ready" ELSE IF r = j THEN "over" ELSE job[r]
    BY <2>1, <2>2 DEF IInv, TypeOK
  <2> HIDE DEF h
  <2>5. Holders' = (Holders \ {j}) \union {h} /\ h \notin Holders \ {j}
    BY <2>2, <2>3, <2>4 DEF Holders
  <2>6. IsFiniteSet(Holders)' /\ ActiveCountsHolders'
    <3>1. /\ IsFiniteSet((Holders \ {j}) \union {h})
          /\ Cardinality((Holders \ {j}) \union {h}) = Cardinality(Holders \ {j}) + 1
      BY <1>2, <2>5, FS_AddElement
    <3>2. Cardinality(Holders)' = active
      BY <1>1, <1>2, <2>5, <3>1
    <3> QED
      BY <2>1, <2>5, <3>1, <3>2 DEF ActiveCountsHolders
  <2>7. QueueOnlyWhenFull'
    BY <1>4, <2>1 DEF IInv, QueueOnlyWhenFull
  <2>8. QueueIsQueued'
    <3>1. ASSUME NEW i \in 1..Len(queue')
          PROVE  job'[queue'[i]] = "queued"
      <4>1. i + 1 \in 1..Len(queue) /\ i + 1 # 1 /\ queue'[i] = queue[i + 1]
        BY <2>2
      <4>2. queue[i + 1] \in Requests /\ queue[i + 1] # h /\ job[queue[i + 1]] = "queued"
        BY <1>1, <2>2, <4>1, ElementOfSeq DEF IInv, QueueIsQueued
      <4> QED
        BY <2>4, <4>1, <4>2
    <3>2. \A i, k \in 1..Len(queue') : queue'[i] = queue'[k] => i = k
      <4> SUFFICES ASSUME NEW i \in 1..Len(queue'), NEW k \in 1..Len(queue'), queue'[i] = queue'[k]
                   PROVE  i = k
        OBVIOUS
      <4>1. i + 1 \in 1..Len(queue) /\ k + 1 \in 1..Len(queue) /\ queue[i + 1] = queue[k + 1]
        BY <2>2
      <4>2. i + 1 = k + 1
        BY <4>1 DEF IInv, QueueIsQueued
      <4> QED
        BY <2>2, <4>2
    <3>3. ASSUME NEW r \in Requests, job'[r] = "queued"
          PROVE  \E i \in 1..Len(queue') : queue'[i] = r
      <4>1. job[r] = "queued" /\ r # h
        BY <2>4, <3>3
      <4>2. PICK i \in 1..Len(queue) : queue[i] = r
        BY <4>1 DEF IInv, QueueIsQueued
      <4>3. i # 1
        BY <2>2, <4>1, <4>2
      <4>4. i - 1 \in 1..Len(queue') /\ queue'[i - 1] = r
        BY <2>2, <4>2, <4>3
      <4> QED
        BY <4>4
    <3> QED
      BY <3>1, <3>2, <3>3 DEF QueueIsQueued
  <2>9. job' \in [Requests -> JobStage]
    BY <2>1, <2>2 DEF IInv, TypeOK, JobStage, h
  <2>10. \A r \in Requests : (Alive(r)' <=> Alive(r) /\ r # j) /\ (job[r] = "none" => job'[r] = "none")
    BY <2>3, <2>4 DEF Alive
  <2> QED
    BY <2>1, <2>2, <2>6, <2>7, <2>8, <2>9, <2>10 DEF IInv, TypeOK
<1> QED
  BY <1>3, <1>4

LEMMA SettleKeeps ==
  ASSUME IInv, NEW j \in Requests, NEW reached \in {"sending", "answered"},
         job[j] \in {"ready", "writing"}, Settle(j, reached),
         file' \in [Keys -> FileState], faults' \in 0..MaxFaults
  PROVE  IInv'
<1>1. /\ Release(j)
      /\ inProgress' = [inProgress EXCEPT ![key[j]] = None]
      /\ pc' = [r \in Requests |-> IF pc[r] = "waiting" /\ awaited[r] = j THEN reached ELSE pc[r]]
      /\ UNCHANGED <<key, awaited, got>>
  BY DEF Settle
<1>2. /\ job' \in [Requests -> JobStage] /\ active' \in 0..Slots /\ queue' \in Seq(Requests)
      /\ QueueIsQueued' /\ IsFiniteSet(Holders)' /\ ActiveCountsHolders' /\ QueueOnlyWhenFull'
      /\ \A r \in Requests : Alive(r)' <=> Alive(r) /\ r # j
      /\ \A r \in Requests : job[r] = "none" => job'[r] = "none"
  BY <1>1, ReleaseKeeps
<1>3. key[j] \in Keys /\ inProgress[key[j]] = j
  BY DEF IInv, TypeOK, JobsListed, Alive
<1>4. TypeOK'
  BY <1>1, <1>2 DEF IInv, TypeOK, Stage
<1>5. JobsListed' /\ EntriesAlive'
  <2>1. ASSUME NEW i \in Requests, Alive(i)' PROVE inProgress'[key'[i]] = i
    <3>1. Alive(i) /\ i # j /\ key[i] \in Keys /\ inProgress[key[i]] = i
      BY <1>2, <2>1 DEF IInv, TypeOK, JobsListed
    <3> QED
      BY <1>1, <1>3, <3>1 DEF IInv, TypeOK
  <2>2. ASSUME NEW k \in Keys, inProgress'[k] # None PROVE Alive(inProgress[k])' /\ key'[inProgress'[k]] = k
    <3>1. inProgress'[k] = inProgress[k] /\ k # key[j] /\ inProgress[k] \in Requests
      BY <1>1, <1>3, <2>2 DEF IInv, TypeOK
    <3>2. Alive(inProgress[k]) /\ key[inProgress[k]] = k
      BY <2>2, <3>1 DEF IInv, EntriesAlive
    <3>3. inProgress[k] # j
      BY <3>1, <3>2
    <3>4. \A i \in Requests : Alive(i) /\ i # j => job'[i] \in {"queued", "ready", "writing"}
      BY <1>2 DEF Alive
    <3>5. job'[inProgress'[k]] \in {"queued", "ready", "writing"}
      BY <3>1, <3>2, <3>3, <3>4
    <3> QED
      BY <1>1, <3>1, <3>2, <3>5 DEF Alive
  <2> QED
    BY <2>1, <2>2 DEF JobsListed, EntriesAlive
<1>6. UnstartedHaveNoJob'
  BY <1>1, <1>2 DEF IInv, TypeOK, UnstartedHaveNoJob
<1> QED
  BY <1>2, <1>4, <1>5, <1>6 DEF IInv

LEMMA FinishKeeps == ASSUME IInv, NEW j \in Requests, Finish(j) PROVE IInv'
<1>1. file' \in [Keys -> FileState] /\ faults' \in 0..MaxFaults
  BY DEF Finish, IInv, TypeOK, FileState
<1> QED
  BY <1>1, SettleKeeps DEF Finish

LEMMA FailKeeps == ASSUME IInv, NEW j \in Requests, Fail(j) PROVE IInv'
<1>1. file' \in [Keys -> FileState] /\ faults' \in 0..MaxFaults
  BY JobsAssumption DEF Fail, Fault, IInv, TypeOK
<1> QED
  BY <1>1, SettleKeeps DEF Fail

(* The memory of the server is lost: no job is left.                       *)
LEMMA RestartKeeps == ASSUME IInv, Restart PROVE IInv'
<1>1. \A r \in Requests : ~Alive(r)'
  BY DEF Restart, Alive
<1>2. Holders' = {}
  BY <1>1 DEF Holders, Alive
<1>3. IsFiniteSet(Holders)' /\ ActiveCountsHolders' /\ QueueOnlyWhenFull'
  BY <1>2, FS_EmptySet DEF Restart, ActiveCountsHolders, QueueOnlyWhenFull
<1>4. TypeOK'
  BY JobsAssumption DEF Restart, Fault, IInv, TypeOK, Stage, JobStage
<1>5. QueueIsQueued'
  BY <1>1 DEF Restart, QueueIsQueued, Alive
<1>6. JobsListed' /\ EntriesAlive' /\ UnstartedHaveNoJob'
  BY <1>1 DEF Restart, IInv, TypeOK, JobsListed, EntriesAlive, UnstartedHaveNoJob, Alive
<1> QED
  BY <1>3, <1>4, <1>5, <1>6 DEF IInv

LEMMA JobsNextInv == IInv /\ [Next]_vars => IInv'
<1> SUFFICES ASSUME IInv, [Next]_vars PROVE IInv'
  OBVIOUS
<1>1. ASSUME NEW r \in Requests, Arrive(r) \/ Handle(r) PROVE IInv'
  BY <1>1, HandlersKeep, StartKeeps DEF Handle
<1>2. ASSUME NEW j \in Requests, Work(j) \/ Fail(j) PROVE IInv'
  BY <1>2, WriteKeeps, FinishKeeps, FailKeeps DEF Work
<1>3. ASSUME NEW k \in Keys, Prune(k) PROVE IInv'
  BY <1>3, PruneKeeps
<1>4. CASE Restart
  BY <1>4, RestartKeeps
<1>5. CASE UNCHANGED vars
  <2>1. TypeOK'
    BY <1>5 DEF vars, handlers, slots, IInv, TypeOK
  <2> QED
    BY <1>5, <2>1, JobsSlotsUntouched DEF vars, handlers, slots, IInv, UnstartedHaveNoJob
<1> QED
  BY <1>1, <1>2, <1>3, <1>4, <1>5 DEF Next

LEMMA JobsInvariance == Spec => []IInv
<1> QED
  BY JobsInitInv, JobsNextInv, PTL DEF Spec

(* Never more jobs at work than IMAGE_JOBS_MAX, through hand-overs,        *)
(* failures and restarts (releaseJobSlot).                                 *)
THEOREM SlotsAreRespected == Spec => []SlotsRespected
<1>1. IInv => SlotsRespected
  BY DEF IInv, TypeOK, ActiveCountsHolders, SlotsRespected
<1> QED
  BY <1>1, JobsInvariance, PTL

(* No slot is idle while a job waits (releaseJobSlot hands it over).       *)
THEOREM QueueMeansFull == Spec => []NobodyWaitsForAFreeSlot
<1>1. IInv => NobodyWaitsForAFreeSlot
  BY DEF IInv, ActiveCountsHolders, QueueOnlyWhenFull, NobodyWaitsForAFreeSlot
<1> QED
  BY <1>1, JobsInvariance, PTL

(* Two jobs never write the same file (inProgress in both routes).         *)
THEOREM JobsAreAlone == Spec => []OneJobPerKey
<1>1. IInv => OneJobPerKey
  BY DEF IInv, JobsListed, OneJobPerKey
<1> QED
  BY <1>1, JobsInvariance, PTL

(* An entry of the map is a job still alive (finally, inProgress.delete).  *)
THEOREM EntriesAreAlive == Spec => []EntriesAlive
<1>1. IInv => EntriesAlive
  BY DEF IInv
<1> QED
  BY <1>1, JobsInvariance, PTL

(* The four together (JobsSafe).                                           *)
THEOREM JobsAreSafe == Spec => []JobsSafe
BY SlotsAreRespected, QueueMeansFull, JobsAreAlone, EntriesAreAlive, PTL DEF JobsSafe

-----------------------------------------------------------------------------
(* ByteCache.  A decode holds exactly one of DecodeSlots, and a Lazy stays *)
(* in the dictionary until one of its key is over.                         *)

LEMMA CacheInitInv == CacheInit => CacheIInv
<1> SUFFICES ASSUME CacheInit PROVE CacheIInv
  OBVIOUS
<1>1. Decoding = {}
  BY DEF CacheInit, Decoding
<1>2. IsFiniteSet(Decoding) /\ Cardinality(Decoding) = 0
  BY <1>1, FS_EmptySet
<1>3. CacheTypeOK
  BY CacheAssumption DEF CacheInit, CacheTypeOK, CallStage, LazyStage
<1>4. SlotsExact
  BY <1>2, CacheAssumption DEF CacheInit, SlotsExact
<1>5. EntriesHaveTheirMaker /\ EntriesMade /\ MakersWait /\ ListedUntilOver
  BY DEF CacheInit, EntriesHaveTheirMaker, EntriesMade, MakersWait, ListedUntilOver, Running
<1> QED
  BY <1>2, <1>3, <1>4, <1>5 DEF CacheIInv

(* The steps that neither take nor release a slot.                         *)
LEMMA CacheSlotsUntouched ==
  ASSUME CacheIInv, Decoding' = Decoding, free' = free
  PROVE  IsFiniteSet(Decoding)' /\ SlotsExact'
BY DEF CacheIInv, SlotsExact

LEMMA TryGetKeeps == ASSUME CacheIInv, NEW r \in Callers, TryGet(r) PROVE CacheIInv'
<1>1. Decoding' = Decoding /\ free' = free
  BY DEF TryGet, Decoding
<1>2. CacheTypeOK'
  BY DEF TryGet, CacheIInv, CacheTypeOK, CallStage
<1>3. EntriesHaveTheirMaker' /\ EntriesMade' /\ MakersWait' /\ ListedUntilOver'
  BY DEF TryGet, CacheIInv, CacheTypeOK, CallStage, EntriesHaveTheirMaker, EntriesMade, MakersWait, ListedUntilOver, Running, Over
<1> QED
  BY <1>1, <1>2, <1>3, CacheSlotsUntouched DEF CacheIInv

LEMMA ClaimKeeps == ASSUME CacheIInv, NEW r \in Callers, Claim(r) PROVE CacheIInv'
<1>1. Decoding' = Decoding /\ free' = free
  BY DEF Claim, Decoding, CacheIInv, CacheTypeOK, MakersWait
<1>2. CacheTypeOK'
  BY DEF Claim, CacheIInv, CacheTypeOK, CallStage, LazyStage
<1>3. variant[r] \in Variants /\ callPc[r] = "missed" /\ lazy[r] = "none"
  BY DEF Claim, CacheIInv, CacheTypeOK, MakersWait
<1>4. EntriesHaveTheirMaker' /\ EntriesMade'
  BY <1>3, CacheAssumption DEF Claim, CacheIInv, CacheTypeOK, EntriesHaveTheirMaker, EntriesMade
<1>5. MakersWait'
  BY <1>3, CacheAssumption DEF Claim, CacheIInv, CacheTypeOK, EntriesHaveTheirMaker, EntriesMade, MakersWait
<1>6. ListedUntilOver'
  BY <1>3, CacheAssumption DEF Claim, CacheIInv, CacheTypeOK, ListedUntilOver, Running, Over
<1> QED
  BY <1>1, <1>2, <1>4, <1>5, <1>6, CacheSlotsUntouched DEF CacheIInv

LEMMA AwaitValueKeeps == ASSUME CacheIInv, NEW r \in Callers, AwaitValue(r) PROVE CacheIInv'
<1>1. lazyOf[r] \in Callers /\ callPc[r] = "claimed"
  BY DEF AwaitValue, CacheIInv, CacheTypeOK, MakersWait
<1>2. Decoding' = Decoding /\ free' = free
  BY <1>1 DEF AwaitValue, Decoding, CacheIInv, CacheTypeOK
<1>3. CacheTypeOK'
  BY <1>1 DEF AwaitValue, CacheIInv, CacheTypeOK, CallStage, LazyStage
<1>4. EntriesHaveTheirMaker' /\ EntriesMade' /\ MakersWait' /\ ListedUntilOver'
  BY <1>1, CacheAssumption DEF AwaitValue, CacheIInv, CacheTypeOK, EntriesHaveTheirMaker, EntriesMade, MakersWait, ListedUntilOver, Running, Over
<1> QED
  BY <1>2, <1>3, <1>4, CacheSlotsUntouched DEF CacheIInv

(* A slot for the decode that enters, back from the one that leaves.       *)
LEMMA AdmitKeeps == ASSUME CacheIInv, NEW j \in Callers, Admit(j) PROVE CacheIInv'
<1>1. j \notin Decoding /\ Decoding' = Decoding \union {j}
  BY DEF Admit, Decoding, CacheIInv, CacheTypeOK
<1>2. IsFiniteSet(Decoding)' /\ Cardinality(Decoding)' = Cardinality(Decoding) + 1
  BY <1>1, FS_AddElement DEF CacheIInv
<1>3. Cardinality(Decoding) \in Nat
  BY FS_CardinalityType DEF CacheIInv
<1>4. CacheTypeOK' /\ SlotsExact'
  BY <1>2, <1>3, CacheAssumption DEF Admit, CacheIInv, CacheTypeOK, LazyStage, SlotsExact
<1>5. EntriesHaveTheirMaker' /\ EntriesMade' /\ MakersWait' /\ ListedUntilOver'
  BY CacheAssumption DEF Admit, CacheIInv, CacheTypeOK, EntriesHaveTheirMaker, EntriesMade, MakersWait, ListedUntilOver, Running, Over
<1> QED
  BY <1>2, <1>4, <1>5 DEF CacheIInv

LEMMA SlotReleased ==
  ASSUME CacheIInv, NEW j \in Callers, lazy[j] = "decoding", Decoding' = Decoding \ {j}, free' = free + 1
  PROVE  IsFiniteSet(Decoding)' /\ SlotsExact' /\ free' \in 0..DecodeSlots
<1>1. j \in Decoding
  BY DEF Decoding
<1>2. IsFiniteSet(Decoding)' /\ Cardinality(Decoding)' = Cardinality(Decoding) - 1
  BY <1>1, FS_RemoveElement DEF CacheIInv
<1>3. Cardinality(Decoding) \in Nat /\ Cardinality(Decoding)' \in Nat
  BY <1>2, FS_CardinalityType DEF CacheIInv
<1> QED
  BY <1>2, <1>3, CacheAssumption DEF CacheIInv, CacheTypeOK, SlotsExact

LEMMA DecodeKeeps == ASSUME CacheIInv, NEW j \in Callers, Decode(j) PROVE CacheIInv'
<1>1. lazy[j] = "decoding" /\ Decoding' = Decoding \ {j} /\ free' = free + 1
  BY DEF Decode, Decoding, CacheIInv, CacheTypeOK
<1>2. CacheTypeOK'
  BY <1>1, SlotReleased DEF Decode, CacheIInv, CacheTypeOK, LazyStage
<1>3. EntriesHaveTheirMaker' /\ EntriesMade' /\ MakersWait' /\ ListedUntilOver'
  BY CacheAssumption DEF Decode, CacheIInv, CacheTypeOK, EntriesHaveTheirMaker, EntriesMade, MakersWait, ListedUntilOver, Running, Over
<1> QED
  BY <1>1, <1>2, <1>3, SlotReleased DEF CacheIInv

LEMMA DecodeFailsKeeps == ASSUME CacheIInv, NEW j \in Callers, DecodeFails(j) PROVE CacheIInv'
<1>1. lazy[j] = "decoding" /\ Decoding' = Decoding \ {j} /\ free' = free + 1
  BY DEF DecodeFails, Decoding, CacheIInv, CacheTypeOK
<1>2. CacheTypeOK'
  BY <1>1, SlotReleased, CacheAssumption DEF DecodeFails, CacheIInv, CacheTypeOK, LazyStage
<1>3. EntriesHaveTheirMaker' /\ EntriesMade' /\ MakersWait' /\ ListedUntilOver'
  BY CacheAssumption DEF DecodeFails, CacheIInv, CacheTypeOK, EntriesHaveTheirMaker, EntriesMade, MakersWait, ListedUntilOver, Running, Over
<1> QED
  BY <1>1, <1>2, <1>3, SlotReleased DEF CacheIInv

LEMMA StoreKeeps == ASSUME CacheIInv, NEW j \in Callers, Store(j) PROVE CacheIInv'
<1>1. Decoding' = Decoding /\ free' = free
  BY DEF Store, Decoding, CacheIInv, CacheTypeOK
<1>2. CacheTypeOK'
  BY DEF Store, CacheIInv, CacheTypeOK, LazyStage
<1>3. EntriesHaveTheirMaker' /\ EntriesMade' /\ MakersWait' /\ ListedUntilOver'
  BY CacheAssumption DEF Store, CacheIInv, CacheTypeOK, EntriesHaveTheirMaker, EntriesMade, MakersWait, ListedUntilOver, Running, Over
<1> QED
  BY <1>1, <1>2, <1>3, CacheSlotsUntouched DEF CacheIInv

(* The entry removed may be another's: one of its key is over by then.     *)
LEMMA LeaveKeeps == ASSUME CacheIInv, NEW r \in Callers, Leave(r) PROVE CacheIInv'
<1>1. Decoding' = Decoding /\ free' = free
  BY DEF Leave, Decoding
<1>2. CacheTypeOK'
  BY DEF Leave, CacheIInv, CacheTypeOK, CallStage
<1>3. EntriesHaveTheirMaker' /\ EntriesMade' /\ MakersWait'
  BY CacheAssumption DEF Leave, CacheIInv, CacheTypeOK, EntriesHaveTheirMaker, EntriesMade, MakersWait
<1>4. lazyOf[r] \in Callers /\ variant[lazyOf[r]] = variant[r] /\ Over(lazyOf[r])
  BY DEF Leave, CacheIInv, CacheTypeOK, MakersWait
<1>5. ListedUntilOver'
  BY <1>4 DEF Leave, CacheIInv, CacheTypeOK, ListedUntilOver, Running, Over
<1> QED
  BY <1>1, <1>2, <1>3, <1>5, CacheSlotsUntouched DEF CacheIInv

LEMMA EvictKeeps == ASSUME CacheIInv, NEW k \in Variants, Evict(k) PROVE CacheIInv'
<1>1. Decoding' = Decoding /\ free' = free
  BY DEF Evict, Decoding
<1>2. CacheTypeOK'
  BY DEF Evict, CacheIInv, CacheTypeOK
<1>3. EntriesHaveTheirMaker' /\ EntriesMade' /\ MakersWait' /\ ListedUntilOver'
  BY DEF Evict, CacheIInv, EntriesHaveTheirMaker, EntriesMade, MakersWait, ListedUntilOver, Running, Over
<1> QED
  BY <1>1, <1>2, <1>3, CacheSlotsUntouched DEF CacheIInv

LEMMA CacheNextInv == CacheIInv /\ [CacheNext]_cacheVars => CacheIInv'
<1> SUFFICES ASSUME CacheIInv, [CacheNext]_cacheVars PROVE CacheIInv'
  OBVIOUS
<1>1. ASSUME NEW r \in Callers, TryGet(r) \/ Call(r) PROVE CacheIInv'
  BY <1>1, TryGetKeeps, ClaimKeeps, AwaitValueKeeps, LeaveKeeps DEF Call
<1>2. ASSUME NEW j \in Callers, Factory(j) \/ DecodeFails(j) PROVE CacheIInv'
  BY <1>2, AdmitKeeps, DecodeKeeps, StoreKeeps, DecodeFailsKeeps DEF Factory
<1>3. ASSUME NEW k \in Variants, Evict(k) PROVE CacheIInv'
  BY <1>3, EvictKeeps
<1>4. CASE UNCHANGED cacheVars
  <2>1. Decoding' = Decoding /\ free' = free
    BY <1>4 DEF cacheVars, Decoding
  <2>2. CacheTypeOK' /\ EntriesHaveTheirMaker' /\ EntriesMade' /\ MakersWait' /\ ListedUntilOver'
    BY <1>4 DEF cacheVars, CacheIInv, CacheTypeOK, EntriesHaveTheirMaker, EntriesMade, MakersWait, ListedUntilOver, Running, Over
  <2> QED
    BY <2>1, <2>2, CacheSlotsUntouched DEF CacheIInv
<1> QED
  BY <1>1, <1>2, <1>3, <1>4 DEF CacheNext

LEMMA CacheInvariance == CacheSpec => []CacheIInv
<1> QED
  BY CacheInitInv, CacheNextInv, PTL DEF CacheSpec

(* Free slots and decodes always add up to ResizeSlots, also when decodes  *)
(* throw (the finally of the factory in EngineBlobController).             *)
THEOREM SlotsNeverLeak == CacheSpec => []SlotsExact
<1>1. CacheIInv => SlotsExact
  BY DEF CacheIInv
<1> QED
  BY <1>1, CacheInvariance, PTL

(* An entry of the dictionary belongs to a call still inside its try       *)
(* (GetOrCreateAsync, finally).                                            *)
THEOREM EntriesAreServed == CacheSpec => []EntriesHaveTheirMaker
<1>1. CacheIInv => EntriesHaveTheirMaker
  BY DEF CacheIInv
<1> QED
  BY <1>1, CacheInvariance, PTL

(* Two decodes of a key overlap only once an earlier one of that key is    *)
(* over (GetOrAdd and Lazy of GetOrCreateAsync).                           *)
THEOREM DecodesAreShared == CacheSpec => []FirstWaveShares
<1>1. CacheIInv => FirstWaveShares
  BY DEF CacheIInv, ListedUntilOver, FirstWaveShares
<1> QED
  BY <1>1, CacheInvariance, PTL

(* The three together (CacheSafe).                                         *)
THEOREM CacheIsSafe == CacheSpec => []CacheSafe
BY SlotsNeverLeak, EntriesAreServed, DecodesAreShared, PTL DEF CacheSafe
=============================================================================
