-------------------------- MODULE OutcomeDelivery --------------------------
(***************************************************************************)
(* Long jobs and the delivery of their outcome: the queue of background    *)
(* tasks with its worker (BackgroundTasks.cs), the choice between toast    *)
(* and email (DeliveryService) and the queue of emails with its sender and *)
(* its retries (Mail.cs, EngineMailer.cs).                                 *)
(*                                                                         *)
(* Requests, worker, sender and the tabs that come and go run side by      *)
(* side.  Both queues and the channels of the connections live in memory:  *)
(* a stop of the process empties them.                                     *)
(***************************************************************************)
EXTENDS Naturals, Sequences, SequencesExt

CONSTANTS
  Jobs,         \* accepted at most once each; a job is also its outcome
  NoMail,
  TaskCap,      \* capacity of the task queue (1000)
  MailCap,      \* capacity of the email queue (1000)
  MaxAttempts,  \* EmailSenderHostedService.MaxAttempts (3)
  MaxStops      \* bound: stops of the process

ASSUME DeliveryAssumption ==
  /\ {TaskCap, MailCap, MaxAttempts} \subseteq Nat \ {0}
  /\ NoMail \notin Jobs
  /\ MaxStops \in Nat

VARIABLES
  enabled,  \* IEngineMailer.IsEnabled, fixed at the start
  channel,  \* [Jobs -> Channel], what the task asks of DeliverAsync
  address,  \* [Jobs -> BOOLEAN], DeliveryMessage.Email is given
  tab,      \* [Jobs -> Tab], the connection its toast goes to
  stage,    \* [Jobs -> Stage]
  tasks,    \* Seq(Jobs), the task queue
  mails,    \* Seq(Jobs), the email queue
  sending,  \* Jobs \union {NoMail}, the message the sender has taken
  attempt,  \* its attempt
  waiting,   \* SUBSET Jobs, toasts in the channel of their connection
  seen,      \* SUBSET Jobs, toasts a tab has received
  unread,    \* SUBSET Jobs, toasts that ended in a dead connection
  overtaken, \* SUBSET Jobs, toasts that newer messages pushed out of a full channel
  copies,    \* [Jobs -> Nat], copies the SMTP server accepted
  logged,    \* SUBSET Jobs, outcomes whose end without delivery is in the log
  spilled,   \* SUBSET Jobs, outcomes whose email found the queue full
  cancelled, \* SUBSET Jobs, outcomes whose email a cancelled attempt ended
  stops

setup  == <<enabled, channel, address>>
sender == <<sending, attempt>>
toasts == <<waiting, seen, unread, overtaken>>
emails == <<copies, logged, spilled, cancelled>>
traces == <<toasts, emails>>
deliveryVars   == <<setup, tab, stage, tasks, mails, sender, traces, stops>>

-----------------------------------------------------------------------------
Channel == {"Auto", "Realtime", "Email"}
(* "vanished": its client is gone and the handler has not noticed.         *)
Tab == {"reading", "vanished", "gone"}
TaskStage == {"new", "refused", "queued", "running", "unreached", "over", "lost"}

DeliveryInit ==
  /\ enabled \in BOOLEAN
  /\ channel \in [Jobs -> Channel]
  /\ address \in [Jobs -> BOOLEAN]
  /\ tab = [j \in Jobs |-> "reading"]
  /\ stage = [j \in Jobs |-> "new"]
  /\ tasks = <<>>
  /\ mails = <<>>
  /\ sending = NoMail
  /\ attempt = 0
  /\ waiting = {} /\ seen = {} /\ unread = {} /\ overtaken = {}
  /\ copies = [j \in Jobs |-> 0]
  /\ logged = {} /\ spilled = {} /\ cancelled = {}
  /\ stops = 0

-----------------------------------------------------------------------------

(* The endpoint: 202, or 503 when TryWrite finds the queue full.           *)
Enqueue(j) ==
  /\ stage[j] = "new"
  /\ IF Len(tasks) < TaskCap
       THEN stage' = [stage EXCEPT ![j] = "queued"] /\ tasks' = Append(tasks, j)
       ELSE stage' = [stage EXCEPT ![j] = "refused"] /\ UNCHANGED tasks
  /\ UNCHANGED <<setup, tab, mails, sender, traces, stops>>

(* Mutant: a task that fails ends the loop.                                *)
IdleAndSound == \A j \in Jobs : stage[j] \notin {"running", "unreached"} /\ j \notin logged

Idle == \A j \in Jobs : stage[j] \notin {"running", "unreached"}

(* The worker takes the next task when the last one has ended.             *)
Take ==
  /\ Idle
  /\ tasks # <<>>
  /\ stage' = [stage EXCEPT ![Head(tasks)] = "running"]
  /\ tasks' = Tail(tasks)
  /\ UNCHANGED <<setup, tab, mails, sender, traces, stops>>

(* A task that throws is logged, the worker goes on.                       *)
TaskFails(j) ==
  /\ stage[j] = "running"
  /\ stage' = [stage EXCEPT ![j] = "over"]
  /\ logged' = logged \union {j}
  /\ UNCHANGED <<setup, tab, tasks, mails, sender, toasts, copies, spilled, cancelled, stops>>

-----------------------------------------------------------------------------
(* DeliverAsync.                                                           *)

(* Publish answers true when the channel of the connection takes the       *)
(* toast, which is not to say that somebody reads it.                      *)
Published(j) == tab[j] \in {"reading", "vanished"}

(* Realtime and Auto publish; Auto falls back on the email.                *)
Toast(j) ==
  /\ stage[j] = "running"
  /\ channel[j] \in {"Auto", "Realtime"}
  /\ waiting' = IF Published(j) THEN waiting \union {j} ELSE waiting
  /\ stage' = [stage EXCEPT ![j] =
       IF Published(j) \/ channel[j] = "Realtime" THEN "over" ELSE "unreached"]
  /\ UNCHANGED <<setup, tab, tasks, mails, sender, seen, unread, overtaken, emails, stops>>

(* Mutant: without an address nothing is logged.                           *)
SendEmailQuietly(j) ==
  /\ stage[j] = "unreached" \/ (stage[j] = "running" /\ channel[j] = "Email")
  /\ stage' = [stage EXCEPT ![j] = "over"]
  /\ CASE ~enabled -> logged' = logged \union {j} /\ UNCHANGED <<mails, spilled>>
       [] enabled /\ address[j] /\ Len(mails) < MailCap -> mails' = Append(mails, j) /\ UNCHANGED <<logged, spilled>>
       [] enabled /\ address[j] /\ Len(mails) = MailCap -> spilled' = spilled \union {j} /\ UNCHANGED <<mails, logged>>
       [] OTHER -> UNCHANGED <<mails, logged, spilled>>
  /\ UNCHANGED <<setup, tab, tasks, sender, toasts, copies, cancelled, stops>>

(* SendEmail: logged when the mailer is off or there is no address; what   *)
(* TryEnqueue answers is ignored.                                          *)
SendEmail(j) ==
  /\ stage[j] = "unreached" \/ (stage[j] = "running" /\ channel[j] = "Email")
  /\ stage' = [stage EXCEPT ![j] = "over"]
  /\ CASE ~(enabled /\ address[j]) -> logged' = logged \union {j} /\ UNCHANGED <<mails, spilled>>
       [] enabled /\ address[j] /\ Len(mails) < MailCap -> mails' = Append(mails, j) /\ UNCHANGED <<logged, spilled>>
       [] OTHER -> spilled' = spilled \union {j} /\ UNCHANGED <<mails, logged>>
  /\ UNCHANGED <<setup, tab, tasks, sender, toasts, copies, cancelled, stops>>

-----------------------------------------------------------------------------
(* The email sender.                                                       *)

Receive ==
  /\ sending = NoMail
  /\ mails # <<>>
  /\ sending' = Head(mails)
  /\ attempt' = 1
  /\ mails' = Tail(mails)
  /\ UNCHANGED <<setup, tab, stage, tasks, traces, stops>>

Done == sending' = NoMail /\ attempt' = 0

(* The server has the message and the connection was closed in order.      *)
Sent ==
  /\ sending # NoMail
  /\ copies' = [copies EXCEPT ![sending] = @ + 1]
  /\ Done
  /\ UNCHANGED <<setup, tab, stage, tasks, mails, toasts, logged, spilled, cancelled, stops>>

(* Again after the delay, or given up with an error in the log.            *)
Retry ==
  IF attempt < MaxAttempts
    THEN attempt' = attempt + 1 /\ UNCHANGED <<sending, logged>>
    ELSE Done /\ logged' = logged \union {sending}

(* SMTP fails before the server has the message, or after it: when         *)
(* DisconnectAsync throws, a message already accepted is sent again.       *)
AttemptFails ==
  /\ sending # NoMail
  /\ copies' \in {copies, [copies EXCEPT ![sending] = @ + 1]}
  /\ Retry
  /\ UNCHANGED <<setup, tab, stage, tasks, mails, toasts, spilled, cancelled, stops>>

(* Mailer off, invalid address: logged, no retry.                          *)
Discard ==
  /\ sending # NoMail
  /\ Done
  /\ logged' = logged \union {sending}
  /\ UNCHANGED <<setup, tab, stage, tasks, mails, toasts, copies, spilled, cancelled, stops>>

(* Any OperationCanceledException, that of a timeout too, ends the matter  *)
(* at once: no log and no retry.                                           *)
AttemptCancelled ==
  /\ sending # NoMail
  /\ copies' \in {copies, [copies EXCEPT ![sending] = @ + 1]}
  /\ cancelled' = cancelled \union {sending}
  /\ Done
  /\ UNCHANGED <<setup, tab, stage, tasks, mails, toasts, logged, spilled, stops>>

-----------------------------------------------------------------------------
(* What becomes of a toast in the channel of its connection.               *)

(* The handler of the stream writes it to a tab that reads.                *)
Show(j) ==
  /\ j \in waiting /\ tab[j] = "reading"
  /\ waiting' = waiting \ {j}
  /\ seen' = seen \union {j}
  /\ UNCHANGED <<setup, tab, stage, tasks, mails, sender, unread, overtaken, emails, stops>>

(* A slow reader: newer messages fill the channel, which drops the oldest. *)
Overtake(j) ==
  /\ j \in waiting
  /\ waiting' = waiting \ {j}
  /\ overtaken' = overtaken \union {j}
  /\ UNCHANGED <<setup, tab, stage, tasks, mails, sender, seen, unread, emails, stops>>

(* The client of a tab goes, what its channel holds notwithstanding; later *)
(* its handler unsubscribes, and the toast ends there.                     *)
Vanish(j) ==
  /\ tab[j] = "reading"
  /\ tab' = [tab EXCEPT ![j] = "vanished"]
  /\ UNCHANGED <<setup, stage, tasks, mails, sender, traces, stops>>

Unsubscribe(j) ==
  /\ tab[j] = "vanished"
  /\ tab' = [tab EXCEPT ![j] = "gone"]
  /\ waiting' = waiting \ {j}
  /\ unread' = unread \union (waiting \intersect {j})
  /\ UNCHANGED <<setup, stage, tasks, mails, sender, seen, overtaken, emails, stops>>

(* The stopping token ends worker and sender without a word; queues,       *)
(* connections and what was under way are gone.                            *)
HostStops ==
  /\ stops < MaxStops
  /\ stops' = stops + 1
  /\ stage' = [j \in Jobs |->
       IF stage[j] \in {"queued", "running", "unreached"} \/ j \in ToSet(mails) \union {sending} \union waiting
         THEN "lost" ELSE stage[j]]
  /\ tab' = [j \in Jobs |-> IF stage[j] = "new" THEN "reading" ELSE "gone"]
  /\ tasks' = <<>>
  /\ mails' = <<>>
  /\ waiting' = {}
  /\ Done
  /\ UNCHANGED <<setup, seen, unread, overtaken, emails>>

Run(j) == TaskFails(j) \/ Toast(j) \/ SendEmail(j)
Worker == Take \/ \E j \in Jobs : Run(j)
Sender == Receive \/ Sent \/ AttemptFails \/ AttemptCancelled \/ Discard

DeliveryNext ==
  \/ \E j \in Jobs : Enqueue(j) \/ Show(j) \/ Overtake(j) \/ Vanish(j) \/ Unsubscribe(j)
  \/ Worker
  \/ Sender
  \/ HostStops

(* Both hosted services run; an SMTP attempt ends, at the latest by its    *)
(* timeout.                                                                *)
DeliveryFairness == WF_deliveryVars(Worker) /\ WF_deliveryVars(Sender)

DeliverySpec == DeliveryInit /\ [][DeliveryNext]_deliveryVars
FairDeliverySpec == DeliverySpec /\ DeliveryFairness

-----------------------------------------------------------------------------
DeliveryTypeOK ==
  /\ enabled \in BOOLEAN
  /\ channel \in [Jobs -> Channel]
  /\ address \in [Jobs -> BOOLEAN]
  /\ tab \in [Jobs -> Tab]
  /\ stage \in [Jobs -> TaskStage]
  /\ tasks \in Seq(Jobs) /\ Len(tasks) <= TaskCap
  /\ mails \in Seq(Jobs) /\ Len(mails) <= MailCap
  /\ sending \in Jobs \union {NoMail}
  /\ attempt \in 0..MaxAttempts
  /\ UNION {waiting, seen, unread, overtaken} \subseteq Jobs
  /\ copies \in [Jobs -> 0..MaxAttempts]
  /\ UNION {logged, spilled, cancelled} \subseteq Jobs
  /\ stops \in 0..MaxStops

OnTheWay(j) == j \in ToSet(mails) \union {sending}

(* Publish has answered true for it.                                       *)
Accepted == UNION {waiting, seen, unread, overtaken}

(* With Auto the email is a fallback: an outcome the channel of a          *)
(* connection has accepted is never sent by email too, whatever becomes of *)
(* the toast (DeliverAsync, Auto).                                         *)
EmailIsFallback ==
  \A j \in Jobs : channel[j] = "Auto" /\ j \in Accepted => ~OnTheWay(j) /\ copies[j] = 0

(* The ways an outcome that may go by email can end without a trace: the   *)
(* toast was accepted by a connection that was dead, or pushed out of its  *)
(* channel by newer messages; the email queue was full; an attempt was     *)
(* cancelled; the process stopped.  In every other case it is in a         *)
(* channel, at a tab, at the SMTP server, in the log or on the way,        *)
(* through failing tasks, retries and giving up (SendEmail,                *)
(* SendWithRetryAsync).                                                    *)
NothingElseIsLost ==
  \A j \in Jobs : stage[j] = "over" /\ channel[j] # "Realtime" =>
    \/ j \in UNION {Accepted, logged, spilled, cancelled}
    \/ OnTheWay(j)
    \/ copies[j] > 0

(* An outcome takes one way to its user: never email after a channel has   *)
(* it, never lost without a trace but in the ways above (DeliverAsync).    *)
OutcomesSafe == DeliveryTypeOK /\ EmailIsFallback /\ NothingElseIsLost

-----------------------------------------------------------------------------
(* What the proofs need beyond it.  A job is queued once, and its turn has *)
(* not come.                                                               *)
TasksWait ==
  /\ \A i \in 1..Len(tasks) : stage[tasks[i]] = "queued"
  /\ \A i, k \in 1..Len(tasks) : tasks[i] = tasks[k] => i = k

(* Until its task is over an outcome is nowhere.                           *)
NothingBeforeTheEnd ==
  \A j \in Jobs : stage[j] \notin {"over", "lost"} =>
    ~OnTheWay(j) /\ copies[j] = 0 /\ j \notin Accepted

(* An email is queued once and leaves the queue before its first copy.     *)
MailsAreNew ==
  /\ \A i \in 1..Len(mails) : mails[i] # sending /\ copies[mails[i]] = 0
  /\ \A i, k \in 1..Len(mails) : mails[i] = mails[k] => i = k

(* The copies of the one that is being sent come from earlier attempts.    *)
CopiesByAttempts ==
  /\ sending = NoMail <=> attempt = 0
  /\ sending # NoMail => copies[sending] < attempt

DeliveryIInv == OutcomesSafe /\ TasksWait /\ NothingBeforeTheEnd /\ MailsAreNew /\ CopiesByAttempts

-----------------------------------------------------------------------------
(* An accepted job ends although others throw or wait for SMTP: the worker *)
(* survives (BackgroundTaskHostedService).                                 *)
AcceptedEnds == \A j \in Jobs : stage[j] = "queued" ~> stage[j] \in {"over", "lost"}

(* A queued email is sent or given up with a log, unless an attempt is     *)
(* cancelled or the process stops: retries end (SendWithRetryAsync).       *)
QueuedEmailEnds ==
  \A j \in Jobs : OnTheWay(j) ~> copies[j] > 0 \/ j \in logged \union cancelled \/ stage[j] = "lost"

(* Neither queue keeps anything for ever.                                  *)
OutcomesEnd == AcceptedEnds /\ QueuedEmailEnds
=============================================================================
