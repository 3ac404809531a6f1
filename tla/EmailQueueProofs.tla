-------------------------- MODULE EmailQueueProofs --------------------------
(***************************************************************************)
(* Proofs about EmailQueue, for any number of mails, priorities, errors    *)
(* and crashes: a mail is sent once per run, never while it is cancelled,  *)
(* its row tells the truth about it, and the pipeline implements           *)
(* MailContract.                                                           *)
(***************************************************************************)
EXTENDS EmailQueue, TLAPS

(* Every push finds a row, and a row about to be written does not exist:   *)
(* only a row that exists has a BullMQ job.                                *)
RowsFirst ==
  /\ \A m \in Mail : job[m] = "NONE" => bull[m] = "absent"
  /\ dispatch # Idle => \A m \in dispatch.todo : job[m] # "NONE"
  /\ dispatch.pc = "add" => job[dispatch.mail] # "NONE"
  /\ life.pc = "add" => job[life.mail] # "NONE"
  /\ \A m \in Mail :
       <<"queue", m>> \in tasks => job[m] = "NONE" /\ m \notin Lifecycle

(* One run at a time, and room for one copy more in the runs to come.      *)
Run(m) ==
  /\ bull[m] = "active" <=> proc[m] # "none"
  /\ bull[m] = "absent" => accepted[m] = 0 /\ stalls[m] = 0
  /\ bull[m] = "waiting" => accepted[m] <= stalls[m]
  /\ proc[m] \in {"load", "claim", "send"} => accepted[m] <= stalls[m]
  /\ accepted[m] <= 1 + stalls[m]
  /\ proc[m] = "store" => accepted[m] > 0

Runs == \A m \in Mail : Run(m)

(* What the row says while the processor is at work, and after.            *)
Verdicts ==
  \A m \in Mail :
    /\ proc[m] = "send" => job[m] \notin {"NONE", "QUEUED", "CANCELLED"}
    /\ job[m] = "SENDING" /\ stalls[m] = 0 /\ m \notin broken
         => proc[m] \in {"send", "store", "fail"}

IInv == EmailTypeOK /\ RowsFirst /\ Runs /\ Verdicts /\ SentWasAccepted

(* SendGrid's acceptances are only ever added to.                          *)
LEMMA SendCounts ==
  ASSUME EmailTypeOK, NEW m \in Mail, Send(m)
  PROVE  /\ accepted' \in [Mail -> Nat]
         /\ \A n \in Mail : accepted[n] > 0 => accepted'[n] > 0
<1>1. accepted' = accepted \/ accepted' = [accepted EXCEPT ![m] = @ + 1]
  BY Zenon DEF Send
<1>2. accepted \in [Mail -> Nat]
  BY DEF EmailTypeOK
<1>3. CASE accepted' = accepted
  BY <1>2, <1>3
<1>4. CASE accepted' = [accepted EXCEPT ![m] = @ + 1]
  BY <1>2, <1>4
<1> QED
  BY <1>1, <1>3, <1>4

(* Every step keeps the types.                                             *)
LEMMA StepType ==
  EmailTypeOK /\ [Next]_vars => EmailTypeOK'
<1> SUFFICES ASSUME EmailTypeOK, [Next]_vars PROVE EmailTypeOK'
  OBVIOUS
<1> USE EmailAssumption DEF EmailTypeOK, JobStatuses, Idle
<1>1. CASE UNCHANGED vars
  BY <1>1 DEF vars, rows, worker
<1>2. CASE Crash
  BY <1>2 DEF Crash, rows
<1>3. CASE LifeAdd
  BY <1>3 DEF LifeAdd, Add, rows
<1>4. CASE DispatchRead
  BY <1>4 DEF DispatchRead, Checking, Batch, Pending, Due, rows
<1>5. CASE DispatchAdd
  BY <1>5 DEF DispatchAdd, Add, Checking, rows
<1>6. ASSUME NEW m \in Mail, DispatchCheck(m) PROVE EmailTypeOK'
  BY <1>6 DEF DispatchCheck, Checking, rows
<1>7. ASSUME NEW m \in Mail, Notify(m) PROVE EmailTypeOK'
  BY <1>7 DEF Notify, rows, worker
<1>8. ASSUME NEW m \in Mail, QueueEmail(m) PROVE EmailTypeOK'
  BY <1>8 DEF QueueEmail, SetJob, worker
<1>9. ASSUME NEW m \in Mail, CancelPending(m) PROVE EmailTypeOK'
  BY <1>9 DEF CancelPending, worker
<1>10. ASSUME NEW m \in Mail, TrackOpen(m) PROVE EmailTypeOK'
  BY <1>10 DEF TrackOpen, SetJob, worker
<1>11. ASSUME NEW m \in Mail, TrackClick(m) PROVE EmailTypeOK'
  BY <1>11 DEF TrackClick, SetJob, worker
<1>12. ASSUME NEW m \in Mail, Tick(m) PROVE EmailTypeOK'
  BY <1>12 DEF Tick, Due, worker
<1>13. ASSUME NEW m \in Mail, LifeCreate(m) PROVE EmailTypeOK'
  <2>1. due' \in Seq(Mail)
    <3>1. due' = due \/ due' = Append(due, m)
      BY <1>13 DEF LifeCreate
    <3>2. due \in Seq(Mail)
      OBVIOUS
    <3> HIDE DEF EmailTypeOK
    <3> QED
      BY <3>1, <3>2
  <2>2. life' \in [pc : {"add"}, mail : Mail]
    BY <1>13 DEF LifeCreate
  <2>3. job' \in [Mail -> JobStatuses \cup {"NONE"}]
    BY <1>13 DEF LifeCreate, SetJob
  <2> QED
    BY <1>13, <2>1, <2>2, <2>3 DEF LifeCreate
<1>14. ASSUME NEW m \in Mail, Take(m) PROVE EmailTypeOK'
  BY <1>14 DEF Take, Goto, rows
<1>15. ASSUME NEW m \in Mail, Load(m) PROVE EmailTypeOK'
  BY <1>15 DEF Load, Goto, KeepQueues, NoError, rows
<1>16. ASSUME NEW m \in Mail, Claim(m) PROVE EmailTypeOK'
  BY <1>16 DEF Claim, Goto, KeepQueues, NoError, SetJob
<1>17. ASSUME NEW m \in Mail, Send(m) PROVE EmailTypeOK'
  <2>1. proc' \in [Mail -> {"none", "load", "claim", "send", "store", "fail",
                           "done"}]
    BY <1>17 DEF Send, Goto
  <2>2. accepted' \in [Mail -> Nat]
    BY <1>17, SendCounts
  <2> QED
    BY <1>17, <2>1, <2>2 DEF Send, KeepQueues, NoError, rows
<1>18. ASSUME NEW m \in Mail, Store(m) PROVE EmailTypeOK'
  BY <1>18 DEF Store, Goto, KeepQueues, NoError, SetJob
<1>19. ASSUME NEW m \in Mail, Fail(m) PROVE EmailTypeOK'
  BY <1>19 DEF Fail, Goto, KeepQueues, NoError, SetJob
<1>20. ASSUME NEW m \in Mail, DatabaseError(m) PROVE EmailTypeOK'
  BY <1>20 DEF DatabaseError, Goto, KeepQueues, rows
<1>21. ASSUME NEW m \in Mail, Finish(m) PROVE EmailTypeOK'
  BY <1>21 DEF Finish, Goto, rows
<1>22. ASSUME NEW m \in Mail, NEW s \in Reports, Report(m, s) PROVE EmailTypeOK'
  BY <1>22 DEF Report, SetJob, worker
<1>23. ASSUME NEW m \in Mail, DryRun(m) PROVE EmailTypeOK'
  BY <1>23 DEF DryRun, Goto, KeepQueues, NoError, SetJob
<1> QED
  BY <1>1, <1>2, <1>3, <1>4, <1>5, <1>6, <1>7, <1>8, <1>9, <1>10, <1>11,
     <1>12, <1>13, <1>14, <1>15, <1>16, <1>17, <1>18, <1>19, <1>20, <1>21,
     <1>22, <1>23
  DEF Next, Api, Process, Dispatch

(* The schedulers work on mails.                                           *)
LEMMA RowMails ==
  EmailTypeOK =>
    /\ dispatch # Idle => dispatch.todo \subseteq Mail
    /\ dispatch.pc = "add" => dispatch.mail \in Mail
    /\ life.pc = "add" => life.mail \in Mail
BY DEF EmailTypeOK, Idle

(* Every step keeps a row in front of every job.                           *)
LEMMA StepRowsFirst ==
  EmailTypeOK /\ RowsFirst /\ Runs /\ [Next]_vars => RowsFirst'
<1> SUFFICES ASSUME EmailTypeOK, RowsFirst, Runs, [Next]_vars PROVE RowsFirst'
  OBVIOUS
<1> USE EmailAssumption DEF EmailTypeOK, RowsFirst, Run, Runs, Idle, JobStatuses
<1>1. CASE UNCHANGED vars
  BY <1>1 DEF vars, rows, worker
<1>2. CASE Crash
  BY <1>2 DEF Crash, rows
<1>3. CASE LifeAdd
  BY <1>3 DEF LifeAdd, Add, rows
<1>4. CASE DispatchRead
  BY <1>4 DEF DispatchRead, Checking, Batch, Pending, Due, rows
<1>5. CASE DispatchAdd
  BY <1>5 DEF DispatchAdd, Add, Checking, rows
<1>6. ASSUME NEW m \in Mail, DispatchCheck(m) PROVE RowsFirst'
  BY <1>6 DEF DispatchCheck, Checking, rows
<1>7. ASSUME NEW m \in Mail, Notify(m) PROVE RowsFirst'
  BY <1>7 DEF Notify, rows, worker
<1>8. ASSUME NEW m \in Mail, QueueEmail(m) PROVE RowsFirst'
  BY <1>8 DEF QueueEmail, SetJob, worker
<1>9. ASSUME NEW m \in Mail, CancelPending(m) PROVE RowsFirst'
  BY <1>9 DEF CancelPending, worker
<1>10. ASSUME NEW m \in Mail, TrackOpen(m) PROVE RowsFirst'
  BY <1>10 DEF TrackOpen, SetJob, worker
<1>11. ASSUME NEW m \in Mail, TrackClick(m) PROVE RowsFirst'
  BY <1>11 DEF TrackClick, SetJob, worker
<1>12. ASSUME NEW m \in Mail, Tick(m) PROVE RowsFirst'
  BY <1>12 DEF Tick, Due, worker
<1>13. ASSUME NEW m \in Mail, LifeCreate(m) PROVE RowsFirst'
  <2>1. job'[m] = "QUEUED" /\ \A n \in Mail \ {m} : job'[n] = job[n]
    BY <1>13 DEF LifeCreate, SetJob
  <2>2. <<"queue", m>> \notin tasks
    BY <1>13 DEF LifeCreate
  <2> HIDE DEF EmailTypeOK, Run, Runs
  <2> QED
    BY <1>13, <2>1, <2>2, RowMails DEF LifeCreate
<1>14. ASSUME NEW m \in Mail, Take(m) PROVE RowsFirst'
  BY <1>14 DEF Take, Goto, rows
<1>15. ASSUME NEW m \in Mail, Load(m) PROVE RowsFirst'
  BY <1>15 DEF Load, Goto, KeepQueues, NoError, rows
<1>16. ASSUME NEW m \in Mail, Claim(m) PROVE RowsFirst'
  <2>1. proc[m] = "claim" /\ job' = [job EXCEPT ![m] = "SENDING"]
    BY <1>16 DEF Claim, Goto, SetJob
  <2>2. bull[m] = "active" /\ DOMAIN job = Mail
    <3>1. Run(m) /\ DOMAIN job = Mail
      OBVIOUS
    <3> HIDE DEF EmailTypeOK, RowsFirst, Runs
    <3> QED
      BY <2>1, <3>1
  <2>3. job[m] # "NONE"
    BY <2>2
  <2> HIDE DEF EmailTypeOK, Run, Runs
  <2>4. \A n \in Mail : job'[n] = "NONE" <=> job[n] = "NONE"
    BY <2>1, <2>2, <2>3
  <2> QED
    BY <1>16, <2>4, RowMails DEF Claim, KeepQueues
<1>17. ASSUME NEW m \in Mail, Send(m) PROVE RowsFirst'
  BY <1>17 DEF Send, Goto, KeepQueues, NoError, rows
<1>18. ASSUME NEW m \in Mail, Store(m) PROVE RowsFirst'
  BY <1>18 DEF Store, Goto, KeepQueues, NoError, SetJob
<1>19. ASSUME NEW m \in Mail, Fail(m) PROVE RowsFirst'
  <2>1. \A n \in Mail : job'[n] = "NONE" <=> job[n] = "NONE"
    <3>1. \E s \in {"FAILED", "QUEUED"} : job' = [job EXCEPT ![m] = s]
      BY <1>19 DEF Fail, SetJob
    <3>2. job[m] # "NONE"
      BY <1>19 DEF Fail, Goto
    <3> QED
      BY <3>1, <3>2
  <2> HIDE DEF EmailTypeOK, Run, Runs
  <2> QED
    BY <1>19, <2>1, RowMails DEF Fail, KeepQueues
<1>20. ASSUME NEW m \in Mail, DatabaseError(m) PROVE RowsFirst'
  BY <1>20 DEF DatabaseError, Goto, KeepQueues, rows
<1>21. ASSUME NEW m \in Mail, Finish(m) PROVE RowsFirst'
  <2>1. job[m] # "NONE"
    BY <1>21 DEF Finish, Goto
  <2>2. \A n \in Mail \ {m} : bull'[n] = bull[n]
    BY <1>21 DEF Finish
  <2> HIDE DEF EmailTypeOK, Run, Runs
  <2> QED
    BY <1>21, <2>1, <2>2 DEF Finish, rows
<1>22. ASSUME NEW m \in Mail, NEW s \in Reports, Report(m, s) PROVE RowsFirst'
  BY <1>22 DEF Report, SetJob, worker
<1>23. ASSUME NEW m \in Mail, DryRun(m) PROVE RowsFirst'
  <2>1. \A n \in Mail : job'[n] = "NONE" <=> job[n] = "NONE"
    <3>1. job' = [job EXCEPT ![m] = "SENT"]
      BY <1>23 DEF DryRun, SetJob
    <3>2. job[m] # "NONE"
      BY <1>23 DEF DryRun, Goto
    <3> QED
      BY <3>1, <3>2
  <2> HIDE DEF EmailTypeOK, Run, Runs
  <2> QED
    BY <1>23, <2>1, RowMails DEF DryRun, KeepQueues
<1> QED
  BY <1>1, <1>2, <1>3, <1>4, <1>5, <1>6, <1>7, <1>8, <1>9, <1>10, <1>11,
     <1>12, <1>13, <1>14, <1>15, <1>16, <1>17, <1>18, <1>19, <1>20, <1>21,
     <1>22, <1>23
  DEF Next, Api, Process, Dispatch

(* Every step keeps a mail within its runs.                                *)
LEMMA StepRuns ==
  EmailTypeOK /\ Runs /\ [Next]_vars => Runs'
<1> SUFFICES ASSUME EmailTypeOK, Runs, [Next]_vars PROVE Runs'
  OBVIOUS
<1> USE EmailAssumption DEF EmailTypeOK, Run, Runs
<1>1. CASE UNCHANGED vars
  BY <1>1 DEF vars, rows, worker
<1>2. CASE Crash
  <2> SUFFICES ASSUME NEW n \in Mail PROVE Run(n)'
    BY DEF Runs
  <2>1. proc'[n] = "none" /\ accepted'[n] = accepted[n]
    BY <1>2 DEF Crash
  <2>2. CASE bull[n] # "active"
    BY <1>2, <2>1, <2>2 DEF Crash
  <2>3. CASE bull[n] = "active" /\ stalls[n] = 0
    BY <1>2, <2>1, <2>3 DEF Crash
  <2>4. CASE bull[n] = "active" /\ stalls[n] = 1
    BY <1>2, <2>1, <2>4 DEF Crash
  <2> QED
    BY <2>2, <2>3, <2>4
<1>3. CASE LifeAdd
  BY <1>3 DEF LifeAdd, Add, rows
<1>4. CASE DispatchRead
  BY <1>4 DEF DispatchRead, Checking, Batch, Pending, Due, rows
<1>5. CASE DispatchAdd
  BY <1>5 DEF DispatchAdd, Add, Checking, rows
<1>6. ASSUME NEW m \in Mail, DispatchCheck(m) PROVE Runs'
  BY <1>6 DEF DispatchCheck, Checking, rows
<1>7. ASSUME NEW m \in Mail, Notify(m) PROVE Runs'
  BY <1>7 DEF Notify, rows, worker
<1>8. ASSUME NEW m \in Mail, QueueEmail(m) PROVE Runs'
  BY <1>8 DEF QueueEmail, SetJob, worker
<1>9. ASSUME NEW m \in Mail, CancelPending(m) PROVE Runs'
  BY <1>9 DEF CancelPending, worker
<1>10. ASSUME NEW m \in Mail, TrackOpen(m) PROVE Runs'
  BY <1>10 DEF TrackOpen, SetJob, worker
<1>11. ASSUME NEW m \in Mail, TrackClick(m) PROVE Runs'
  BY <1>11 DEF TrackClick, SetJob, worker
<1>12. ASSUME NEW m \in Mail, Tick(m) PROVE Runs'
  BY <1>12 DEF Tick, Due, worker
<1>13. ASSUME NEW m \in Mail, LifeCreate(m) PROVE Runs'
  BY <1>13 DEF LifeCreate, SetJob
<1>14. ASSUME NEW m \in Mail, Take(m) PROVE Runs'
  BY <1>14 DEF Take, Goto, rows
<1>15. ASSUME NEW m \in Mail, Load(m) PROVE Runs'
  BY <1>15 DEF Load, Goto, KeepQueues, NoError, rows
<1>16. ASSUME NEW m \in Mail, Claim(m) PROVE Runs'
  BY <1>16 DEF Claim, Goto, KeepQueues, NoError, SetJob
<1>17. ASSUME NEW m \in Mail, Send(m) PROVE Runs'
  BY <1>17 DEF Send, Goto, KeepQueues, NoError, rows
<1>18. ASSUME NEW m \in Mail, Store(m) PROVE Runs'
  BY <1>18 DEF Store, Goto, KeepQueues, NoError, SetJob
<1>19. ASSUME NEW m \in Mail, Fail(m) PROVE Runs'
  BY <1>19 DEF Fail, Goto, KeepQueues, NoError, SetJob
<1>20. ASSUME NEW m \in Mail, DatabaseError(m) PROVE Runs'
  BY <1>20 DEF DatabaseError, Goto, KeepQueues, rows
<1>21. ASSUME NEW m \in Mail, Finish(m) PROVE Runs'
  BY <1>21 DEF Finish, Goto, rows
<1>22. ASSUME NEW m \in Mail, NEW s \in Reports, Report(m, s) PROVE Runs'
  BY <1>22 DEF Report, SetJob, worker
<1>23. ASSUME NEW m \in Mail, DryRun(m) PROVE Runs'
  BY <1>23 DEF DryRun, Goto, KeepQueues, NoError, SetJob
<1> QED
  BY <1>1, <1>2, <1>3, <1>4, <1>5, <1>6, <1>7, <1>8, <1>9, <1>10, <1>11,
     <1>12, <1>13, <1>14, <1>15, <1>16, <1>17, <1>18, <1>19, <1>20, <1>21,
     <1>22, <1>23
  DEF Next, Api, Process, Dispatch

(* Every step keeps what the rows say while a run is on.                   *)
LEMMA StepVerdicts ==
  EmailTypeOK /\ RowsFirst /\ Runs /\ Verdicts /\ [Next]_vars => Verdicts'
<1> SUFFICES ASSUME EmailTypeOK, RowsFirst, Runs, Verdicts, [Next]_vars
             PROVE  Verdicts'
  OBVIOUS
<1> USE EmailAssumption
    DEF EmailTypeOK, RowsFirst, Run, Runs, Verdicts, JobStatuses
<1>1. CASE UNCHANGED vars
  BY <1>1 DEF vars, rows, worker
<1>2. CASE Crash
  <2>1. \A n \in Mail :
          stalls'[n] = 0 => stalls[n] = 0 /\ proc[n] = "none"
    BY <1>2 DEF Crash
  <2>2. \A n \in Mail : proc'[n] = "none"
    BY <1>2 DEF Crash
  <2> HIDE DEF EmailTypeOK, RowsFirst, Run, Runs
  <2> QED
    BY <1>2, <2>1, <2>2 DEF Crash, rows
<1>3. CASE LifeAdd
  BY <1>3 DEF LifeAdd, Add, rows
<1>4. CASE DispatchRead
  BY <1>4 DEF DispatchRead, Checking, Batch, Pending, Due, rows
<1>5. CASE DispatchAdd
  BY <1>5 DEF DispatchAdd, Add, Checking, rows
<1>6. ASSUME NEW m \in Mail, DispatchCheck(m) PROVE Verdicts'
  BY <1>6 DEF DispatchCheck, Checking, rows
<1>7. ASSUME NEW m \in Mail, Notify(m) PROVE Verdicts'
  BY <1>7 DEF Notify, rows, worker
<1>8. ASSUME NEW m \in Mail, QueueEmail(m) PROVE Verdicts'
  BY <1>8 DEF QueueEmail, SetJob, worker
<1>9. ASSUME NEW m \in Mail, CancelPending(m) PROVE Verdicts'
  BY <1>9 DEF CancelPending, worker
<1>10. ASSUME NEW m \in Mail, TrackOpen(m) PROVE Verdicts'
  BY <1>10 DEF TrackOpen, SetJob, worker
<1>11. ASSUME NEW m \in Mail, TrackClick(m) PROVE Verdicts'
  BY <1>11 DEF TrackClick, SetJob, worker
<1>12. ASSUME NEW m \in Mail, Tick(m) PROVE Verdicts'
  BY <1>12 DEF Tick, Due, worker
<1>13. ASSUME NEW m \in Mail, LifeCreate(m) PROVE Verdicts'
  BY <1>13 DEF LifeCreate, SetJob
<1>14. ASSUME NEW m \in Mail, Take(m) PROVE Verdicts'
  BY <1>14 DEF Take, Goto, rows
<1>15. ASSUME NEW m \in Mail, Load(m) PROVE Verdicts'
  BY <1>15 DEF Load, Goto, KeepQueues, NoError, rows
<1>16. ASSUME NEW m \in Mail, Claim(m) PROVE Verdicts'
  BY <1>16 DEF Claim, Goto, KeepQueues, NoError, SetJob
<1>17. ASSUME NEW m \in Mail, Send(m) PROVE Verdicts'
  BY <1>17 DEF Send, Goto, KeepQueues, NoError, rows
<1>18. ASSUME NEW m \in Mail, Store(m) PROVE Verdicts'
  BY <1>18 DEF Store, Goto, KeepQueues, NoError, SetJob
<1>19. ASSUME NEW m \in Mail, Fail(m) PROVE Verdicts'
  BY <1>19 DEF Fail, Goto, KeepQueues, NoError, SetJob
<1>20. ASSUME NEW m \in Mail, DatabaseError(m) PROVE Verdicts'
  BY <1>20 DEF DatabaseError, Goto, KeepQueues, rows
<1>21. ASSUME NEW m \in Mail, Finish(m) PROVE Verdicts'
  BY <1>21 DEF Finish, Goto, rows
<1>22. ASSUME NEW m \in Mail, NEW s \in Reports, Report(m, s) PROVE Verdicts'
  BY <1>22 DEF Report, SetJob, worker
<1>23. ASSUME NEW m \in Mail, DryRun(m) PROVE Verdicts'
  BY <1>23 DEF DryRun, Goto, KeepQueues, NoError, SetJob
<1> QED
  BY <1>1, <1>2, <1>3, <1>4, <1>5, <1>6, <1>7, <1>8, <1>9, <1>10, <1>11,
     <1>12, <1>13, <1>14, <1>15, <1>16, <1>17, <1>18, <1>19, <1>20, <1>21,
     <1>22, <1>23
  DEF Next, Api, Process, Dispatch

(* Every step keeps the rows true to SendGrid's answers.                   *)
LEMMA StepAccepted ==
  EmailTypeOK /\ Runs /\ SentWasAccepted /\ [Next]_vars => SentWasAccepted'
<1> SUFFICES ASSUME EmailTypeOK, Runs, SentWasAccepted, [Next]_vars
             PROVE  SentWasAccepted'
  OBVIOUS
<1> USE EmailAssumption
    DEF EmailTypeOK, Run, Runs, SentWasAccepted, SaysSent
<1>1. CASE UNCHANGED vars
  BY <1>1 DEF vars, rows, worker
<1>2. CASE Crash
  BY <1>2 DEF Crash, rows
<1>3. CASE LifeAdd
  BY <1>3 DEF LifeAdd, Add, rows
<1>4. CASE DispatchRead
  BY <1>4 DEF DispatchRead, Checking, Batch, Pending, Due, rows
<1>5. CASE DispatchAdd
  BY <1>5 DEF DispatchAdd, Add, Checking, rows
<1>6. ASSUME NEW m \in Mail, DispatchCheck(m) PROVE SentWasAccepted'
  BY <1>6 DEF DispatchCheck, Checking, rows
<1>7. ASSUME NEW m \in Mail, Notify(m) PROVE SentWasAccepted'
  BY <1>7 DEF Notify, rows, worker
<1>8. ASSUME NEW m \in Mail, QueueEmail(m) PROVE SentWasAccepted'
  BY <1>8 DEF QueueEmail, SetJob, worker
<1>9. ASSUME NEW m \in Mail, CancelPending(m) PROVE SentWasAccepted'
  BY <1>9 DEF CancelPending, worker
<1>10. ASSUME NEW m \in Mail, TrackOpen(m) PROVE SentWasAccepted'
  BY <1>10 DEF TrackOpen, SetJob, worker
<1>11. ASSUME NEW m \in Mail, TrackClick(m) PROVE SentWasAccepted'
  BY <1>11 DEF TrackClick, SetJob, worker
<1>12. ASSUME NEW m \in Mail, Tick(m) PROVE SentWasAccepted'
  BY <1>12 DEF Tick, Due, worker
<1>13. ASSUME NEW m \in Mail, LifeCreate(m) PROVE SentWasAccepted'
  BY <1>13 DEF LifeCreate, SetJob
<1>14. ASSUME NEW m \in Mail, Take(m) PROVE SentWasAccepted'
  BY <1>14 DEF Take, Goto, rows
<1>15. ASSUME NEW m \in Mail, Load(m) PROVE SentWasAccepted'
  BY <1>15 DEF Load, Goto, KeepQueues, NoError, rows
<1>16. ASSUME NEW m \in Mail, Claim(m) PROVE SentWasAccepted'
  BY <1>16 DEF Claim, Goto, KeepQueues, NoError, SetJob
<1>17. ASSUME NEW m \in Mail, Send(m) PROVE SentWasAccepted'
  <2>1. \A n \in Mail : accepted[n] > 0 => accepted'[n] > 0
    BY <1>17, SendCounts
  <2> QED
    BY <1>17, <2>1 DEF Send, rows
<1>18. ASSUME NEW m \in Mail, Store(m) PROVE SentWasAccepted'
  BY <1>18 DEF Store, Goto, KeepQueues, NoError, SetJob
<1>19. ASSUME NEW m \in Mail, Fail(m) PROVE SentWasAccepted'
  BY <1>19 DEF Fail, Goto, KeepQueues, NoError, SetJob
<1>20. ASSUME NEW m \in Mail, DatabaseError(m) PROVE SentWasAccepted'
  BY <1>20 DEF DatabaseError, Goto, KeepQueues, rows
<1>21. ASSUME NEW m \in Mail, Finish(m) PROVE SentWasAccepted'
  BY <1>21 DEF Finish, Goto, rows
<1>22. ASSUME NEW m \in Mail, NEW s \in Reports, Report(m, s)
       PROVE  SentWasAccepted'
  BY <1>22 DEF Report, SetJob, worker
<1>23. ASSUME NEW m \in Mail, DryRun(m) PROVE SentWasAccepted'
  BY <1>23 DEF DryRun, Goto, KeepQueues, NoError, SetJob
<1> QED
  BY <1>1, <1>2, <1>3, <1>4, <1>5, <1>6, <1>7, <1>8, <1>9, <1>10, <1>11,
     <1>12, <1>13, <1>14, <1>15, <1>16, <1>17, <1>18, <1>19, <1>20, <1>21,
     <1>22, <1>23
  DEF Next, Api, Process, Dispatch

(* The inductive invariant holds at first.                                 *)
LEMMA InitIInv == Init => IInv
BY EmailAssumption
DEF Init, IInv, EmailTypeOK, RowsFirst, Run, Runs, Verdicts, SentWasAccepted,
    SaysSent, Idle

(* The inductive invariant holds in every state.                           *)
LEMMA Inductive == Spec => []IInv
<1>1. IInv /\ [Next]_vars => IInv'
  BY StepType, StepRowsFirst, StepRuns, StepVerdicts, StepAccepted DEF IInv
<1> QED
  BY <1>1, InitIInv, PTL DEF Spec

(* The rows, BullMQ's jobs and the processors keep their types.            *)
THEOREM EmailTypeCorrect == Spec => []EmailTypeOK
<1>1. IInv => EmailTypeOK
  BY DEF IInv
<1> QED
  BY <1>1, Inductive, PTL

(* However the schedulers, the processor and lost answers interleave, a    *)
(* mail is sent once, and once more only if its worker died (the send      *)
(* processor and BullMQ's job ids).                                        *)
THEOREM SentOnce == Spec => []SentOncePerRun
<1>1. IInv => SentOncePerRun
  BY DEF IInv, Run, Runs, SentOncePerRun
<1> QED
  BY <1>1, Inductive, PTL

(* Where the worker has a key, a row says SENT, or anything SendGrid says  *)
(* of a sent mail, only after SendGrid accepted it.                        *)
THEOREM SentIsAccepted == Spec => []SentWasAccepted
<1>1. IInv => SentWasAccepted
  BY DEF IInv
<1> QED
  BY <1>1, Inductive, PTL

(* A run without a crash or a database error does not leave its row        *)
(* SENDING.                                                                *)
THEOREM RunEndsWithVerdict == Spec => []RunLeavesVerdict
<1>1. IInv => RunLeavesVerdict
  BY DEF IInv, Run, Runs, Verdicts, RunLeavesVerdict
<1> QED
  BY <1>1, Inductive, PTL

(* SendGrid never accepts a mail whose row the API has cancelled.          *)
THEOREM CancelledIsNotSent == Spec => NeverSentWhileCancelled
<1>1. IInv /\ [Next]_vars
        => [\A m \in Mail :
              accepted'[m] > accepted[m] => job[m] # "CANCELLED"]_vars
  <2> SUFFICES ASSUME IInv, Next, NEW n \in Mail, accepted'[n] > accepted[n]
               PROVE  job[n] # "CANCELLED"
    OBVIOUS
  <2>1. accepted' # accepted
    BY DEF IInv, EmailTypeOK
  <2>2. PICK m \in Mail : Send(m)
    BY <2>1
    DEF Next, Api, Process, Dispatch, Crash, LifeAdd, DispatchRead,
        DispatchCheck, DispatchAdd, Notify, QueueEmail, CancelPending, Report,
        TrackOpen, TrackClick, Tick, LifeCreate, Take, Load, Claim, DryRun,
        Store, Fail, DatabaseError, Finish
  <2>3. m = n
    BY <2>2 DEF Send, IInv, EmailTypeOK
  <2> QED
    BY <2>2, <2>3 DEF Send, Goto, IInv, Verdicts
<1> QED
  BY <1>1, Inductive, PTL DEF Spec, NeverSentWhileCancelled
-----------------------------------------------------------------------------
(* The pipeline implements MailContract, step by step.                     *)
Says == [m \in Mail |-> Saying(m)]
RunsSoFar == [m \in Mail |-> RunsOf(m)]

ContractStep == [Contract!Next]_<<Says, RunsSoFar, Unsent, accepted, keyed>>

(* What the contract reads from a row.                                     *)
LEMMA SayingIs ==
  ASSUME NEW m \in Mail
  PROVE  /\ job[m] = "NONE" => Saying(m) = "none"
         /\ job[m] = "CANCELLED" => Saying(m) = "cancelled"
         /\ job[m] \in SaysSent => Saying(m) = "sent"
         /\ job[m] \in {"QUEUED", "SENDING", "FAILED"} => Saying(m) = "open"
  BY DEF Saying, SaysSent

(* A row says none only before it exists, and cancelled only if it is.     *)
LEMMA SayingSays ==
  ASSUME EmailTypeOK, NEW m \in Mail
  PROVE  /\ Saying(m) = "none" => job[m] = "NONE"
         /\ Saying(m) = "cancelled" => job[m] = "CANCELLED"
<1>1. \/ job[m] \in {"NONE", "CANCELLED"} \/ job[m] \in SaysSent
      \/ job[m] \in {"QUEUED", "SENDING", "FAILED"}
  BY DEF EmailTypeOK, JobStatuses, SaysSent
<1> QED
  BY <1>1, SayingIs

(* A step in which at most some runs end without a copy.                   *)
LEMMA OnlyMisses ==
  ASSUME job' = job, accepted' = accepted, keyed' = keyed,
         \A m \in Mail : RunsOf(m)' = RunsOf(m),
         \A m \in Mail : m \in Unsent' => m \in Unsent
  PROVE  ContractStep
<1>1. \A m \in Mail : Saying(m)' = Saying(m)
  BY DEF Saying
<1>2. Says' = Says /\ RunsSoFar' = RunsSoFar
  BY <1>1 DEF Says, RunsSoFar
<1>3. PICK mails \in SUBSET Unsent : Unsent' = Unsent \ mails
  <2>1. /\ Unsent \ Unsent' \in SUBSET Unsent
        /\ Unsent' = Unsent \ (Unsent \ Unsent')
    BY DEF Unsent
  <2> QED
    BY <2>1
<1>4. Contract!Miss(mails)
  BY <1>2, <1>3 DEF Contract!Miss, Says, RunsSoFar
<1> QED
  BY <1>4 DEF ContractStep, Contract!Next

(* A step in which rows say something else of their mails.                 *)
LEMMA OnlySays ==
  ASSUME accepted' = accepted, Unsent' = Unsent, keyed' = keyed,
         \A m \in Mail : RunsOf(m)' = RunsOf(m),
         NEW mails \in SUBSET Mail, NEW s \in {"open", "cancelled", "sent"},
         \A m \in mails : /\ Saying(m)' = s /\ Saying(m) # "none"
                          /\ s = "sent" => accepted[m] > 0,
         \A m \in Mail \ mails : Saying(m)' = Saying(m)
  PROVE  ContractStep
<1>1. /\ Says' = [m \in Mail |-> IF m \in mails THEN s ELSE Says[m]]
      /\ RunsSoFar' = RunsSoFar
  BY DEF Says, RunsSoFar
<1>2. Contract!Say(mails, s)
  BY <1>1 DEF Contract!Say, Says, RunsSoFar
<1> QED
  BY <1>2 DEF ContractStep, Contract!Next

(* One row takes a status of which it says s.                              *)
LEMMA OneSays ==
  ASSUME EmailTypeOK, accepted' = accepted, Unsent' = Unsent, keyed' = keyed,
         \A m \in Mail : RunsOf(m)' = RunsOf(m),
         NEW m \in Mail, NEW x, job' = [job EXCEPT ![m] = x],
         job[m] # "NONE",
         \/ x \in {"QUEUED", "SENDING", "FAILED"}
         \/ x \in SaysSent /\ accepted[m] > 0
  PROVE  ContractStep
<1>1. /\ job'[m] = x
      /\ \A n \in Mail \ {m} : job'[n] = job[n]
  BY DEF EmailTypeOK
<1>2. \A n \in Mail \ {m} : Saying(n)' = Saying(n)
  BY <1>1 DEF Saying
<1>3. Saying(m) # "none"
  BY SayingSays
<1>4. CASE x \in {"QUEUED", "SENDING", "FAILED"}
  <2>1. Saying(m)' = "open"
    BY <1>1, <1>4 DEF Saying, SaysSent
  <2>2. {m} \in SUBSET Mail /\ "open" \in {"open", "cancelled", "sent"}
    OBVIOUS
  <2>3. \A i \in {m} : /\ Saying(i)' = "open" /\ Saying(i) # "none"
                       /\ "open" = "sent" => accepted[i] > 0
    BY <1>3, <2>1
  <2> QED
    BY <1>2, <2>2, <2>3, OnlySays
<1>5. CASE x \in SaysSent /\ accepted[m] > 0
  <2>1. Saying(m)' = "sent"
    BY <1>1, <1>5 DEF Saying, SaysSent
  <2>2. {m} \in SUBSET Mail /\ "sent" \in {"open", "cancelled", "sent"}
    OBVIOUS
  <2>3. \A i \in {m} : /\ Saying(i)' = "sent" /\ Saying(i) # "none"
                       /\ "sent" = "sent" => accepted[i] > 0
    BY <1>3, <1>5, <2>1
  <2> QED
    BY <1>2, <2>2, <2>3, OnlySays
<1> QED
  BY <1>4, <1>5

(* A row is written.                                                       *)
LEMMA RowWrites ==
  ASSUME EmailTypeOK, NEW m \in Mail, job[m] = "NONE",
         job' = [job EXCEPT ![m] = "QUEUED"],
         UNCHANGED <<accepted, proc, bull, stalls, keyed>>
  PROVE  ContractStep
<1>1. /\ job'[m] = "QUEUED"
      /\ \A n \in Mail \ {m} : job'[n] = job[n]
  BY DEF EmailTypeOK
<1>2. Saying(m) = "none" /\ Saying(m)' = "open"
  BY <1>1 DEF Saying, SaysSent
<1>3. \A n \in Mail \ {m} : Saying(n)' = Saying(n)
  BY <1>1 DEF Saying
<1>4. Says' = [Says EXCEPT ![m] = "open"] /\ Says[m] = "none"
  BY <1>2, <1>3 DEF Says
<1>5. RunsSoFar' = RunsSoFar /\ Unsent' = Unsent
  BY DEF RunsSoFar, RunsOf, Unsent
<1>6. Contract!Write(m)
  BY <1>4, <1>5 DEF Contract!Write, Says, RunsSoFar
<1> QED
  BY <1>6 DEF ContractStep, Contract!Next

(* A job is taken: the mail has had at most one run.                       *)
LEMMA TakeRuns ==
  ASSUME IInv, NEW m \in Mail, Take(m)
  PROVE  ContractStep
<1> USE DEF IInv
<1>1. /\ bull[m] = "waiting" /\ proc[m] = "none" /\ job[m] # "NONE"
      /\ bull' = [bull EXCEPT ![m] = "active"]
      /\ proc' = [proc EXCEPT ![m] = "load"]
      /\ UNCHANGED <<job, stalls, accepted, keyed>>
  BY DEF Take, Goto, RowsFirst, rows
<1>2. /\ bull'[m] = "active" /\ proc'[m] = "load" /\ stalls[m] \in 0 .. 1
      /\ \A n \in Mail \ {m} : bull'[n] = bull[n] /\ proc'[n] = proc[n]
  BY <1>1 DEF EmailTypeOK
<1>3. RunsOf(m) = stalls[m] /\ RunsOf(m)' = stalls[m] + 1
  BY <1>1, <1>2 DEF RunsOf
<1>4. \A n \in Mail \ {m} : RunsOf(n)' = RunsOf(n)
  BY <1>1, <1>2 DEF RunsOf
<1>5. /\ RunsSoFar' = [RunsSoFar EXCEPT ![m] = @ + 1]
      /\ RunsSoFar[m] = stalls[m]
  BY <1>3, <1>4 DEF RunsSoFar
<1>6. m \notin Unsent /\ Unsent' = Unsent \cup {m}
  BY <1>1, <1>2 DEF Unsent
<1>7. Says' = Says /\ Says[m] # "none"
  <2>1. \A n \in Mail : Saying(n)' = Saying(n)
    BY <1>1 DEF Saying
  <2>2. Saying(m) # "none"
    BY <1>1, SayingSays
  <2> QED
    BY <2>1, <2>2 DEF Says
<1>8. Contract!Run(m)
  BY <1>1, <1>2, <1>5, <1>6, <1>7
  DEF Contract!Run, Contract!MaxRuns, Says, RunsSoFar
<1> QED
  BY <1>8 DEF ContractStep, Contract!Next

(* SendGrid accepts: it is the run's only copy, of a row not cancelled.    *)
LEMMA SendAccepts ==
  ASSUME IInv, NEW m \in Mail, Send(m)
  PROVE  ContractStep
<1> USE DEF IInv
<1>1. /\ proc[m] = "send" /\ UNCHANGED <<job, bull, stalls, keyed>>
      /\ keyed /\ \E pc \in {"store", "fail"} : proc' = [proc EXCEPT ![m] = pc]
  BY DEF Send, Goto, KeepQueues, rows
<1>2. /\ proc'[m] \in {"store", "fail"}
      /\ \A n \in Mail \ {m} : proc'[n] = proc[n]
  BY <1>1 DEF EmailTypeOK
<1>3. m \in Unsent /\ Unsent' = Unsent \ {m}
  BY <1>1, <1>2 DEF Unsent
<1>4. /\ Says' = Says /\ RunsSoFar' = RunsSoFar
      /\ \A n \in Mail : RunsOf(n)' = RunsOf(n)
  BY <1>1 DEF Says, Saying, RunsSoFar, RunsOf
<1>5. CASE accepted' = accepted
  BY <1>1, <1>3, <1>4, <1>5, OnlyMisses
<1>6. CASE accepted' = [accepted EXCEPT ![m] = @ + 1]
  <2>1. Says[m] # "cancelled"
    BY <1>1, SayingSays DEF Says, Verdicts
  <2>2. Contract!Accept(m)
    BY <1>1, <1>3, <1>4, <1>6, <2>1 DEF Contract!Accept, Says, RunsSoFar
  <2> QED
    BY <2>2 DEF ContractStep, Contract!Next
<1> QED
  BY <1>5, <1>6, Zenon DEF Send

(* A run without a key: the row says sent, and is not cancelled.           *)
LEMMA DryRunSays ==
  ASSUME IInv, NEW m \in Mail, DryRun(m)
  PROVE  ContractStep
<1> USE DEF IInv
<1>1. /\ proc[m] = "send" /\ proc' = [proc EXCEPT ![m] = "done"]
      /\ job' = [job EXCEPT ![m] = "SENT"]
      /\ ~keyed /\ UNCHANGED <<bull, stalls, accepted, keyed>>
  BY DEF DryRun, Goto, SetJob, KeepQueues
<1>2. /\ proc'[m] = "done" /\ job'[m] = "SENT"
      /\ \A n \in Mail \ {m} : proc'[n] = proc[n] /\ job'[n] = job[n]
  BY <1>1 DEF EmailTypeOK
<1>3. m \in Unsent /\ Unsent' = Unsent \ {m}
  BY <1>1, <1>2 DEF Unsent
<1>4. RunsSoFar' = RunsSoFar
  BY <1>1 DEF RunsSoFar, RunsOf
<1>5. Says' = [Says EXCEPT ![m] = "sent"]
  <2>1. Saying(m)' = "sent"
    BY <1>2 DEF Saying, SaysSent
  <2>2. \A n \in Mail \ {m} : Saying(n)' = Saying(n)
    BY <1>2 DEF Saying
  <2> QED
    BY <2>1, <2>2 DEF Says
<1>6. Says[m] # "cancelled"
  BY <1>1, SayingSays DEF Says, Verdicts
<1>7. Contract!DryRun(m)
  BY <1>1, <1>3, <1>4, <1>5, <1>6 DEF Contract!DryRun, Says, RunsSoFar
<1> QED
  BY <1>7 DEF ContractStep, Contract!Next

(* Every step of the pipeline is a step of the contract, or stutters.      *)
LEMMA StepIsContractStep ==
  ASSUME IInv, [Next]_vars
  PROVE  ContractStep
<1> USE DEF IInv
<1>0. SUFFICES ASSUME Next PROVE ContractStep
  <2> SUFFICES ASSUME UNCHANGED vars PROVE ContractStep
    BY DEF vars
  <2>1. UNCHANGED <<job, bull, stalls, proc, accepted, keyed>>
    BY DEF vars, rows, worker
  <2> QED
    BY <2>1, OnlyMisses DEF RunsOf, Unsent
<1>1. CASE Crash
  <2>1. job' = job /\ accepted' = accepted /\ keyed' = keyed
    BY <1>1 DEF Crash, rows
  <2>2. \A m \in Mail : m \notin Unsent'
    BY <1>1 DEF Crash, Unsent
  <2>3. ASSUME NEW m \in Mail PROVE RunsOf(m)' = RunsOf(m)
    <3>1. bull[m] \in {"absent", "waiting", "active", "kept"}
      BY DEF EmailTypeOK
    <3>2. stalls[m] \in 0 .. 1
      BY DEF EmailTypeOK
    <3>3. /\ bull'[m] = IF bull[m] # "active" THEN bull[m]
                       ELSE IF stalls[m] = 0 THEN "waiting" ELSE "kept"
          /\ stalls'[m] = IF bull[m] = "active" THEN 1 ELSE stalls[m]
      BY <1>1 DEF Crash
    <3> QED
      BY <3>1, <3>2, <3>3 DEF RunsOf
  <2> QED
    BY <2>1, <2>2, <2>3, OnlyMisses
<1>2. CASE LifeAdd \/ Dispatch
  <2>1. UNCHANGED <<job, accepted, proc, stalls, keyed>>
    BY <1>2 DEF LifeAdd, Dispatch, DispatchRead, DispatchCheck, DispatchAdd,
                rows
  <2>2. \A m \in Mail : \/ bull'[m] = bull[m]
                        \/ bull[m] = "absent" /\ bull'[m] = "waiting"
    BY <1>2 DEF LifeAdd, Dispatch, DispatchRead, DispatchCheck, DispatchAdd,
                Add, EmailTypeOK
  <2> QED
    BY <2>1, <2>2, OnlyMisses DEF RunsOf, Unsent
<1>3. ASSUME NEW m \in Mail, Notify(m) \/ Tick(m) PROVE ContractStep
  <2>1. UNCHANGED <<job, accepted, proc, bull, stalls, keyed>>
    BY <1>3 DEF Notify, Tick, rows, worker
  <2> QED
    BY <2>1, OnlyMisses DEF RunsOf, Unsent
<1>4. ASSUME NEW m \in Mail, QueueEmail(m) \/ LifeCreate(m)
      PROVE  ContractStep
  <2>1. /\ job[m] = "NONE" /\ job' = [job EXCEPT ![m] = "QUEUED"]
        /\ UNCHANGED <<accepted, proc, bull, stalls, keyed>>
    BY <1>4 DEF QueueEmail, LifeCreate, SetJob, RowsFirst, worker
  <2> QED
    BY <2>1, RowWrites
<1>5. ASSUME NEW m \in Mail, CancelPending(m) PROVE ContractStep
  <2>1. /\ job' = [n \in Mail |-> IF job[n] = "QUEUED" THEN "CANCELLED"
                                  ELSE job[n]]
        /\ UNCHANGED <<accepted, proc, bull, stalls, keyed>>
    BY <1>5 DEF CancelPending, worker
  <2> DEFINE mails == {n \in Mail : job[n] = "QUEUED"}
  <2>2. ASSUME NEW n \in mails
        PROVE  Saying(n)' = "cancelled" /\ Saying(n) # "none"
    BY <2>1 DEF Saying, SaysSent
  <2>3. ASSUME NEW n \in Mail \ mails PROVE Saying(n)' = Saying(n)
    BY <2>1 DEF Saying
  <2>4. Unsent' = Unsent /\ \A n \in Mail : RunsOf(n)' = RunsOf(n)
    BY <2>1 DEF Unsent, RunsOf
  <2>5. /\ mails \in SUBSET Mail
        /\ "cancelled" \in {"open", "cancelled", "sent"}
        /\ \A n \in mails : /\ Saying(n)' = "cancelled" /\ Saying(n) # "none"
                            /\ "cancelled" = "sent" => accepted[n] > 0
    BY <2>2
  <2> HIDE DEF mails
  <2> QED
    BY <2>1, <2>3, <2>4, <2>5, OnlySays
<1>6. ASSUME NEW m \in Mail,
             TrackOpen(m) \/ TrackClick(m) \/ \E s \in Reports : Report(m, s)
      PROVE  ContractStep
  <2>1. PICK x \in {"OPENED", "CLICKED"} \cup Reports :
          job' = [job EXCEPT ![m] = x]
    BY <1>6 DEF TrackOpen, TrackClick, Report, SetJob
  <2>2. /\ accepted[m] > 0 /\ UNCHANGED <<accepted, proc, bull, stalls, keyed>>
    BY <1>6 DEF TrackOpen, TrackClick, Report, worker
  <2>3. job[m] # "NONE"
    BY <2>2 DEF RowsFirst, Runs, Run
  <2>4. \/ x \in {"QUEUED", "SENDING", "FAILED"} \/ x \in SaysSent
    BY EmailAssumption DEF JobStatuses, SaysSent
  <2>5. Unsent' = Unsent /\ \A n \in Mail : RunsOf(n)' = RunsOf(n)
    BY <2>2 DEF Unsent, RunsOf
  <2> QED
    BY <2>1, <2>2, <2>3, <2>4, <2>5, OneSays
<1>7. ASSUME NEW m \in Mail, Take(m) \/ Send(m) \/ DryRun(m)
      PROVE  ContractStep
  BY <1>7, TakeRuns, SendAccepts, DryRunSays
<1>8. ASSUME NEW m \in Mail, Load(m) \/ DatabaseError(m) PROVE ContractStep
  <2>1. /\ UNCHANGED <<job, accepted, bull, stalls, keyed>>
        /\ proc' = [proc EXCEPT ![m] = proc'[m]]
        /\ proc'[m] \in {"load", "claim", "send"}
             => proc[m] \in {"load", "claim", "send"}
    BY <1>8 DEF Load, DatabaseError, Goto, KeepQueues, rows, EmailTypeOK
  <2>2. \A n \in Mail : n \in Unsent' => n \in Unsent
    BY <2>1 DEF Unsent, EmailTypeOK
  <2> QED
    BY <2>1, <2>2, OnlyMisses DEF RunsOf
<1>9. ASSUME NEW m \in Mail, Claim(m) \/ Store(m) \/ Fail(m)
      PROVE  ContractStep
  <2>1. PICK x \in {"SENDING", "SENT", "FAILED", "QUEUED"} :
          /\ job' = [job EXCEPT ![m] = x]
          /\ x = "SENT" => proc[m] = "store"
    BY <1>9 DEF Claim, Store, Fail, SetJob, Goto
  <2>2. /\ UNCHANGED <<accepted, bull, stalls, keyed>> /\ proc[m] # "none"
        /\ \A n \in Mail \ {m} : proc'[n] = proc[n]
        /\ \/ proc[m] = "claim" /\ proc'[m] = "send"
           \/ proc[m] \in {"store", "fail"} /\ proc'[m] = "done"
    BY <1>9 DEF Claim, Store, Fail, Goto, KeepQueues, EmailTypeOK
  <2>3. job[m] # "NONE" /\ (proc[m] = "store" => accepted[m] > 0)
    BY <2>2 DEF RowsFirst, Runs, Run
  <2>4. Unsent' = Unsent /\ \A n \in Mail : RunsOf(n)' = RunsOf(n)
    BY <2>2 DEF Unsent, RunsOf
  <2>5. \/ x \in {"QUEUED", "SENDING", "FAILED"}
        \/ x \in SaysSent /\ accepted[m] > 0
    BY <2>1, <2>3 DEF SaysSent
  <2> QED
    BY <2>1, <2>2, <2>3, <2>4, <2>5, OneSays
<1>10. ASSUME NEW m \in Mail, Finish(m) PROVE ContractStep
  <2>1. /\ UNCHANGED <<job, accepted, stalls, keyed>>
        /\ proc[m] = "done" /\ proc' = [proc EXCEPT ![m] = "none"]
        /\ bull[m] = "active" /\ bull' = [bull EXCEPT ![m] = "kept"]
    BY <1>10 DEF Finish, Goto, Runs, Run, rows
  <2>2. \A n \in Mail : n \in Unsent' => n \in Unsent
    BY <2>1 DEF Unsent, EmailTypeOK
  <2>3. \A n \in Mail : RunsOf(n)' = RunsOf(n)
    BY <2>1 DEF RunsOf, EmailTypeOK
  <2> QED
    BY <2>1, <2>2, <2>3, OnlyMisses
<1> QED
  BY <1>0, <1>1, <1>2, <1>3, <1>4, <1>5, <1>6, <1>7, <1>8, <1>9, <1>10
  DEF Next, Api, Process

(* The first states are the contract's.                                    *)
LEMMA InitIsContractInit == Init => Contract!Init
<1> SUFFICES ASSUME Init PROVE Contract!Init
  OBVIOUS
<1>1. \A m \in Mail : Saying(m) = "none"
  BY SayingIs DEF Init
<1>2. \A m \in Mail : RunsOf(m) = 0
  BY DEF Init, RunsOf
<1>3. Unsent = {}
  BY DEF Init, Unsent
<1> QED
  BY <1>1, <1>2, <1>3 DEF Init, Contract!Init

(* A mail is handed over once in each of at most two runs, under a row     *)
(* that is not cancelled, whatever the schedulers push twice, SendGrid     *)
(* leaves unanswered and a dead worker repeats; its row says sent with no  *)
(* copy at SendGrid only where the worker has no key.                      *)
THEOREM MailsAreKept == Spec => MailsKept
<1>1. IInv /\ [Next]_vars => [Contract!Next]_Contract!mailVars
  BY StepIsContractStep DEF ContractStep, Says, RunsSoFar, Contract!mailVars
<1> QED
  BY <1>1, Inductive, InitIsContractInit, PTL
  DEF Spec, MailsKept, Contract!Spec
=============================================================================
