----------------------------- MODULE EmailQueue -----------------------------
(***************************************************************************)
(* The e-mail pipeline of one customer of one seller.  The API             *)
(* (apps/api/src/email-marketing) writes EmailJob rows and never touches   *)
(* the queue; the worker (apps/worker/src/processors) does the rest:       *)
(*                                                                         *)
(*   - the lifecycle scheduler writes a row and pushes it to BullMQ;       *)
(*   - the e-mail scheduler pushes the due QUEUED rows, a batch at a time; *)
(*   - the send processor takes a job, claims its row, calls SendGrid and  *)
(*     stores the outcome;                                                 *)
(*   - SendGrid's events and the tracking links move the row afterwards.   *)
(*                                                                         *)
(* BullMQ keeps one job per row (its id is email-<row id>).  A job that    *)
(* ended is kept, an add of a job it knows is ignored, and a job whose     *)
(* worker died is run once more.                                           *)
(***************************************************************************)
EXTENDS Integers, Sequences, FiniteSets

CONSTANTS
  Mail,         \* EmailJob rows
  Lifecycle,    \* those the lifecycle scheduler writes; the API the others
  Confirmation, \* order confirmations: the API cancels pending mail with them
  Priority,     \* 1 is transactional, 3 lifecycle
  MaxAttempts,  \* EmailJob.maxAttempts
  BatchSize,    \* rows one run of the e-mail scheduler takes
  Concurrency,  \* jobs the send worker runs at the same time
  MaxErrors,    \* bound: rows the send processor meets a database error with
  MaxCrashes,   \* bound: crashes of the worker process
  Reports       \* SendGrid events received, as the statuses they set

JobStatuses ==
  {"QUEUED", "SENDING", "SENT", "DELIVERED", "OPENED", "CLICKED", "FAILED",
   "BOUNCED", "COMPLAINED", "CANCELLED"}

ASSUME EmailAssumption ==
  /\ Lifecycle \subseteq Mail /\ Confirmation \subseteq Mail \ Lifecycle
  /\ Priority \in [Mail -> 1 .. 4]
  /\ MaxAttempts \in Nat \ {0} /\ BatchSize \in Nat \ {0}
  /\ Concurrency \in Nat \ {0}
  /\ MaxErrors \in Nat /\ MaxCrashes \in Nat
  /\ Reports \subseteq JobStatuses \ {"QUEUED", "SENDING", "SENT", "CANCELLED"}

VARIABLES
  job,       \* EmailJob.status, or "NONE" before the row exists
  attempts,  \* EmailJob.attemptCount
  due,       \* the rows whose scheduledAt has passed, by scheduledAt
  known,     \* rows whose providerMessageId is stored
  seen,      \* openedAt and clickedAt: which of them are set
  tasks,     \* calls the API has started and not awaited
  bull,      \* the BullMQ job of each row
  stalls,    \* times the BullMQ job lost its worker
  proc,      \* where the send processor stands with each row
  dispatch,  \* the run of the e-mail scheduler
  life,      \* the run of the lifecycle scheduler
  accepted,  \* times SendGrid accepted each mail
  broken,    \* rows the send processor met a database error with
  crashes,   \* crashes of the worker so far
  keyed      \* the worker was started with a SENDGRID_API_KEY

rows == <<job, attempts, due, known, seen>>
worker == <<bull, stalls, proc, dispatch, life, broken, crashes, keyed>>

vars == <<rows, tasks, worker, accepted>>

Due == {due[i] : i \in DOMAIN due}

Idle == [pc |-> "idle"]

(* The type invariant of the pipeline.                                     *)
EmailTypeOK ==
  /\ job \in [Mail -> JobStatuses \cup {"NONE"}]
  /\ attempts \in [Mail -> Nat]
  /\ due \in Seq(Mail)
  /\ known \subseteq Mail
  /\ seen \in [Mail -> SUBSET {"open", "click"}]
  /\ tasks \subseteq {"queue", "cancel"} \X Mail
  /\ bull \in [Mail -> {"absent", "waiting", "active", "kept"}]
  /\ stalls \in [Mail -> 0 .. 1]
  /\ proc \in [Mail -> {"none", "load", "claim", "send", "store", "fail",
                        "done"}]
  /\ dispatch \in {Idle} \cup [pc : {"check"}, todo : SUBSET Mail]
                    \cup [pc : {"add"}, todo : SUBSET Mail, mail : Mail]
  /\ life \in {Idle} \cup [pc : {"add"}, mail : Mail]
  /\ accepted \in [Mail -> Nat]
  /\ broken \subseteq Mail
  /\ crashes \in 0 .. MaxCrashes
  /\ keyed \in BOOLEAN

Init ==
  /\ job = [m \in Mail |-> "NONE"]
  /\ attempts = [m \in Mail |-> 0]
  /\ due = << >> /\ known = {}
  /\ seen = [m \in Mail |-> {}]
  /\ tasks = {}
  /\ bull = [m \in Mail |-> "absent"]
  /\ stalls = [m \in Mail |-> 0]
  /\ proc = [m \in Mail |-> "none"]
  /\ dispatch = Idle /\ life = Idle
  /\ accepted = [m \in Mail |-> 0]
  /\ broken = {} /\ crashes = 0
  /\ keyed \in BOOLEAN

SetJob(m, s) == job' = [job EXCEPT ![m] = s]

-----------------------------------------------------------------------------
(* The API: notices are started and not awaited.                           *)

Notify(m) ==
  /\ m \notin Lifecycle /\ job[m] = "NONE" /\ <<"queue", m>> \notin tasks
  /\ tasks' = tasks \cup {<<"queue", m>>}
                    \cup {<<"cancel", c>> : c \in {m} \cap Confirmation}
  /\ UNCHANGED <<rows, worker, accepted>>

(* Mutant: the row is given the status of an order.                        *)
QueueEmailPending(m) ==
  /\ <<"queue", m>> \in tasks
  /\ tasks' = tasks \ {<<"queue", m>>}
  /\ SetJob(m, "PENDING")
  /\ due' = Append(due, m)
  /\ UNCHANGED <<attempts, known, seen, worker, accepted>>

(* queueEmail: the row is due at once.                                     *)
QueueEmail(m) ==
  /\ <<"queue", m>> \in tasks
  /\ tasks' = tasks \ {<<"queue", m>>}
  /\ SetJob(m, "QUEUED")
  /\ due' = Append(due, m)
  /\ UNCHANGED <<attempts, known, seen, worker, accepted>>

(* cancelRecoveryEmails: every QUEUED row of the customer, of any flow.    *)
CancelPending(m) ==
  /\ <<"cancel", m>> \in tasks
  /\ tasks' = tasks \ {<<"cancel", m>>}
  /\ job' = [n \in Mail |-> IF job[n] = "QUEUED" THEN "CANCELLED" ELSE job[n]]
  /\ UNCHANGED <<attempts, due, known, seen, worker, accepted>>

(* A SendGrid event finds the row by its providerMessageId and writes its  *)
(* status over any other; nothing orders the events.                       *)
Report(m, s) ==
  /\ accepted[m] > 0 /\ m \in known
  /\ SetJob(m, s)
  /\ seen' = [seen EXCEPT ![m] = @ \cup {x \in {"open"} : s = "OPENED"}
                                   \cup {x \in {"click"} : s = "CLICKED"}]
  /\ UNCHANGED <<attempts, due, known, tasks, worker, accepted>>

(* The tracking pixel and links, the first time they are followed.         *)
TrackOpen(m) ==
  /\ accepted[m] > 0 /\ "open" \notin seen[m]
  /\ SetJob(m, "OPENED")
  /\ seen' = [seen EXCEPT ![m] = @ \cup {"open"}]
  /\ UNCHANGED <<attempts, due, known, tasks, worker, accepted>>

TrackClick(m) ==
  /\ accepted[m] > 0 /\ "click" \notin seen[m]
  /\ SetJob(m, "CLICKED")
  /\ seen' = [seen EXCEPT ![m] = {"open", "click"}]
  /\ UNCHANGED <<attempts, due, known, tasks, worker, accepted>>

(* Time passes a lifecycle mail's scheduledAt.                             *)
Tick(m) ==
  /\ job[m] # "NONE" /\ m \notin Due
  /\ due' = Append(due, m)
  /\ UNCHANGED <<job, attempts, known, seen, tasks, worker, accepted>>

-----------------------------------------------------------------------------
(* The schedulers.                                                         *)

(* Mutant: a job BullMQ knows is queued again.                             *)
AddAgain(m) ==
  bull' = [bull EXCEPT ![m] = IF @ = "active" THEN @ ELSE "waiting"]

(* emailSendQueue.add with the row's job id.                               *)
Add(m) == bull' = [bull EXCEPT ![m] = IF @ = "absent" THEN "waiting" ELSE @]

(* A milestone is reached and no row of this flow exists: it is written    *)
(* with a sendAt that may lie ahead...                                     *)
LifeCreate(m) ==
  /\ life = Idle /\ m \in Lifecycle /\ job[m] = "NONE"
  /\ SetJob(m, "QUEUED")
  /\ due' \in {due, Append(due, m)}
  /\ life' = [pc |-> "add", mail |-> m]
  /\ UNCHANGED <<attempts, known, seen, tasks, bull, stalls, proc, dispatch,
                 broken, crashes, keyed, accepted>>

(* ... and pushed at once, without a delay.                                *)
LifeAdd ==
  /\ life.pc = "add"
  /\ Add(life.mail)
  /\ life' = Idle
  /\ UNCHANGED <<rows, tasks, stalls, proc, dispatch, broken, crashes,
                 keyed, accepted>>

(* Mutant: lifecycle mail is left to the lifecycle scheduler.              *)
PendingOfApi == {m \in Due \ Lifecycle : job[m] = "QUEUED"}

Pending == {m \in Due : job[m] = "QUEUED"}

(* orderBy priority, then scheduledAt.                                     *)
Before(m, n) ==
  \/ Priority[m] < Priority[n]
  \/ /\ Priority[m] = Priority[n]
     /\ \E i, j \in DOMAIN due : i < j /\ due[i] = m /\ due[j] = n

Batch ==
  {m \in Pending : Cardinality({n \in Pending : Before(n, m)}) < BatchSize}

(* The run ends after its last row.                                        *)
Checking(todo) == IF todo = {} THEN Idle ELSE [pc |-> "check", todo |-> todo]

DispatchRead ==
  /\ dispatch = Idle /\ Batch # {}
  /\ dispatch' = Checking(Batch)
  /\ UNCHANGED <<rows, tasks, bull, stalls, proc, life, broken, crashes,
                 keyed, accepted>>

DispatchCheck(m) ==
  /\ dispatch.pc = "check" /\ m \in dispatch.todo
  /\ LET rest == dispatch.todo \ {m}
     IN dispatch' = IF bull[m] = "absent"
                    THEN [pc |-> "add", todo |-> rest, mail |-> m]
                    ELSE Checking(rest)
  /\ UNCHANGED <<rows, tasks, bull, stalls, proc, life, broken, crashes,
                 keyed, accepted>>

DispatchAdd ==
  /\ dispatch.pc = "add"
  /\ Add(dispatch.mail)
  /\ dispatch' = Checking(dispatch.todo)
  /\ UNCHANGED <<rows, tasks, stalls, proc, life, broken, crashes,
                 keyed, accepted>>

-----------------------------------------------------------------------------
(* The send processor.                                                     *)

Goto(m, from, to) == proc[m] = from /\ proc' = [proc EXCEPT ![m] = to]

(* What every step of the processor but its first and last leaves alone.   *)
KeepQueues ==
  UNCHANGED <<tasks, bull, stalls, dispatch, life, crashes, keyed>>

NoError == UNCHANGED broken

Take(m) ==
  /\ bull[m] = "waiting"
  /\ Cardinality({n \in Mail : bull[n] = "active"}) < Concurrency
  /\ bull' = [bull EXCEPT ![m] = "active"]
  /\ Goto(m, "none", "load")
  /\ UNCHANGED <<rows, tasks, stalls, dispatch, life, broken, crashes,
                 keyed, accepted>>

(* "If already processed, skip".                                           *)
Load(m) ==
  /\ Goto(m, "load", IF job[m] = "QUEUED" THEN "claim" ELSE "done")
  /\ KeepQueues /\ NoError /\ UNCHANGED <<rows, accepted>>

(* Mutant: the row is not marked before the mail is sent.                  *)
ClaimUnmarked(m) ==
  /\ Goto(m, "claim", "send")
  /\ KeepQueues /\ NoError /\ UNCHANGED <<rows, accepted>>

(* The status is written over whatever it is by now.                       *)
Claim(m) ==
  /\ Goto(m, "claim", "send")
  /\ SetJob(m, "SENDING")
  /\ KeepQueues /\ NoError
  /\ UNCHANGED <<attempts, due, known, seen, accepted>>

(* Mutant: a refusal is taken for an acceptance.                           *)
SendAssumed(m) ==
  /\ keyed
  /\ \E times \in {0, 1} : accepted' = [accepted EXCEPT ![m] = @ + times]
  /\ Goto(m, "send", "store")
  /\ KeepQueues /\ NoError /\ UNCHANGED rows

(* sgMail.send accepts the mail, or not, or accepts it and its answer is   *)
(* lost.                                                                   *)
Send(m) ==
  /\ keyed
  /\ \/ /\ accepted' = [accepted EXCEPT ![m] = @ + 1]
        /\ Goto(m, "send", "store") \/ Goto(m, "send", "fail")
     \/ Goto(m, "send", "fail") /\ UNCHANGED accepted
  /\ KeepQueues /\ NoError /\ UNCHANGED rows

(* Without a key the mail is only logged, and its row is stored as SENT    *)
(* with no providerMessageId.                                              *)
DryRun(m) ==
  /\ ~keyed
  /\ Goto(m, "send", "done")
  /\ SetJob(m, "SENT")
  /\ attempts' = [attempts EXCEPT ![m] = @ + 1]
  /\ KeepQueues /\ NoError /\ UNCHANGED <<due, known, seen, accepted>>

Store(m) ==
  /\ Goto(m, "store", "done")
  /\ SetJob(m, "SENT")
  /\ attempts' = [attempts EXCEPT ![m] = @ + 1]
  /\ known' = known \cup {m}
  /\ KeepQueues /\ NoError /\ UNCHANGED <<due, seen, accepted>>

(* Mutant: the attempt is counted and the row stays SENDING.               *)
FailCountsOnly(m) ==
  /\ Goto(m, "fail", "done")
  /\ attempts' = [attempts EXCEPT ![m] = @ + 1]
  /\ KeepQueues /\ NoError /\ UNCHANGED <<job, due, known, seen, accepted>>

(* The catch block: the row is QUEUED again, whatever it was, and the job  *)
(* ends as a success.                                                      *)
Fail(m) ==
  /\ Goto(m, "fail", "done")
  /\ attempts' = [attempts EXCEPT ![m] = @ + 1]
  /\ SetJob(m, IF attempts'[m] >= MaxAttempts THEN "FAILED" ELSE "QUEUED")
  /\ KeepQueues /\ NoError /\ UNCHANGED <<due, known, seen, accepted>>

(* A query of the processor throws: into the catch block, or, in it, to    *)
(* the end.                                                                *)
DatabaseError(m) ==
  /\ m \notin broken /\ Cardinality(broken) < MaxErrors
  /\ \/ \E pc \in {"load", "claim", "send", "store"} : Goto(m, pc, "fail")
     \/ Goto(m, "fail", "done")
  /\ broken' = broken \cup {m}
  /\ KeepQueues /\ UNCHANGED <<rows, accepted>>

(* BullMQ marks the job completed and keeps it.                            *)
Finish(m) ==
  /\ Goto(m, "done", "none")
  /\ bull' = [bull EXCEPT ![m] = "kept"]
  /\ UNCHANGED <<rows, tasks, stalls, dispatch, life, broken, crashes,
                 keyed, accepted>>

(* The worker restarts, in the same environment.  Its schedulers run       *)
(* again; a job it was running is stalled, and run again unless it was     *)
(* stalled before.                                                         *)
Crash ==
  /\ crashes < MaxCrashes /\ crashes' = crashes + 1
  /\ proc' = [m \in Mail |-> "none"]
  /\ dispatch' = Idle /\ life' = Idle
  /\ bull' = [m \in Mail |-> IF bull[m] # "active" THEN bull[m]
                             ELSE IF stalls[m] = 0 THEN "waiting" ELSE "kept"]
  /\ stalls' = [m \in Mail |-> IF bull[m] = "active" THEN 1 ELSE stalls[m]]
  /\ UNCHANGED <<rows, tasks, broken, keyed, accepted>>

-----------------------------------------------------------------------------
Api(m) ==
  \/ Notify(m)
  \/ QueueEmail(m)
  \/ CancelPending(m)
  \/ \E s \in Reports : Report(m, s)
  \/ TrackOpen(m)
  \/ TrackClick(m)

Process(m) ==
  \/ Load(m)
  \/ Claim(m)
  \/ Send(m)
  \/ DryRun(m)
  \/ Store(m)
  \/ Fail(m)
  \/ DatabaseError(m)
  \/ Finish(m)

Dispatch ==
  \/ DispatchRead
  \/ \E m \in Mail : DispatchCheck(m)
  \/ DispatchAdd

Next ==
  \/ Crash
  \/ LifeAdd
  \/ Dispatch
  \/ \E m \in Mail :
       Api(m) \/ Tick(m) \/ LifeCreate(m) \/ Take(m) \/ Process(m)

Spec == Init /\ [][Next]_vars

(* The worker runs what it started, takes the jobs that wait, and its      *)
(* repeatable jobs run again and again.  The API's calls, SendGrid, the    *)
(* customer and the clock are not fair.                                    *)
Fairness ==
  /\ WF_vars(Dispatch) /\ WF_vars(LifeAdd)
  /\ \A m \in Mail : WF_vars(Take(m)) /\ WF_vars(Process(m))

FairSpec == Spec /\ Fairness

-----------------------------------------------------------------------------
(* Properties.                                                             *)

(* A customer receives a mail once, whichever scheduler pushes it, in      *)
(* which order, and however often SendGrid's answer is lost; only a worker *)
(* that died in the middle of a run may cost one more copy.                *)
SentOncePerRun == \A m \in Mail : accepted[m] <= 1 + stalls[m]

SaysSent == {"SENT", "DELIVERED", "OPENED", "CLICKED", "BOUNCED", "COMPLAINED"}

(* The row of a mail says it reached SendGrid only if it did, or if the    *)
(* worker has no key and stores SENT for every mail it runs                *)
(* (email-send.processor.ts:217).                                          *)
SentWasAccepted ==
  \A m \in Mail : job[m] \in SaysSent => accepted[m] > 0 \/ ~keyed

(* A run that was neither cut short nor met a database error leaves a      *)
(* verdict: its row does not stay SENDING, where nobody looks at it again. *)
RunLeavesVerdict ==
  \A m \in Mail :
    /\ bull[m] = "kept" /\ stalls[m] = 0 /\ m \notin broken
    => job[m] # "SENDING"

(* A row is claimed before its mail is sent, so the API cannot cancel it   *)
(* while SendGrid accepts it.                                              *)
NeverSentWhileCancelled ==
  [][\A m \in Mail : accepted'[m] > accepted[m] => job[m] # "CANCELLED"]_vars

(* "Pick up QUEUED EmailJobs" (email-scheduler.processor.ts:132): a due    *)
(* QUEUED row is run, though the scheduler that should have pushed it died *)
(* first, unless its status changes before.                                *)
EveryMailIsRun ==
  \A m \in Mail :
    (m \in Due /\ job[m] = "QUEUED") ~> (bull[m] = "kept" \/ job[m] # "QUEUED")

(* What a row says of its mail, and how far its runs have come.            *)
Saying(m) ==
  CASE job[m] = "NONE" -> "none"
    [] job[m] = "CANCELLED" -> "cancelled"
    [] job[m] \in SaysSent -> "sent"
    [] job[m] \in {"QUEUED", "SENDING", "FAILED"} -> "open"

RunsOf(m) == stalls[m] + IF bull[m] \in {"active", "kept"} THEN 1 ELSE 0

Unsent == {m \in Mail : proc[m] \in {"load", "claim", "send"}}

(* The pipeline implements MailContract: whatever the schedulers push      *)
(* twice, SendGrid leaves unanswered and a dead worker repeats, a mail is  *)
(* handed over once in each of at most two runs, under a row that is not   *)
(* cancelled, and a row says sent of a mail SendGrid does not have only    *)
(* where the worker has no key (email-send.processor.ts).                  *)
Contract ==
  INSTANCE MailContract WITH
    says <- [m \in Mail |-> Saying(m)],
    runs <- [m \in Mail |-> RunsOf(m)],
    unsent <- Unsent,
    copies <- accepted,
    keyed <- keyed

MailsKept == Contract!Spec

-----------------------------------------------------------------------------
(* What the comments say and the code does not keep.                       *)

(* "Cancel any pending cart/checkout recovery emails for this customer"    *)
(* (webhook.service.ts:131): the order confirmation is not cancelled.      *)
ConfirmationNotCancelled == \A m \in Confirmation : job[m] # "CANCELLED"
=============================================================================
