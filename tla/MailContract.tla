---------------------------- MODULE MailContract ----------------------------
(***************************************************************************)
(* What the e-mail pipeline promises of each mail, with no schedulers,     *)
(* queue, processor or lost answers in it:                                 *)
(*                                                                         *)
(*   - a mail is run at most twice, and never before its row exists;       *)
(*   - a run hands the mail to SendGrid at most once, and not while the    *)
(*     row says it is cancelled;                                           *)
(*   - the row says sent only of a mail SendGrid has, or of any mail that  *)
(*     was run where there is no key and no mail is handed over.           *)
(*                                                                         *)
(* EmailQueue implements it (MailsKept).  That a mail that was refused is  *)
(* tried again is not promised: EmailQueue shows that it is not.           *)
(***************************************************************************)
EXTENDS Integers

CONSTANT Mail

VARIABLES
  says,    \* what the row says: "none", "open", "cancelled" or "sent"
  runs,    \* runs started
  unsent,  \* the mails with a run that may still hand them to SendGrid
  copies,  \* copies SendGrid accepted
  keyed    \* the worker has SendGrid's key

mailVars == <<says, runs, unsent, copies, keyed>>

(* A run whose worker dies is repeated once.                               *)
MaxRuns == 2

Init ==
  /\ says = [m \in Mail |-> "none"]
  /\ runs = [m \in Mail |-> 0]
  /\ unsent = {}
  /\ copies = [m \in Mail |-> 0]
  /\ keyed \in BOOLEAN

Write(m) ==
  /\ says[m] = "none"
  /\ says' = [says EXCEPT ![m] = "open"]
  /\ UNCHANGED <<runs, unsent, copies, keyed>>

Run(m) ==
  /\ says[m] # "none" /\ m \notin unsent /\ runs[m] < MaxRuns
  /\ runs' = [runs EXCEPT ![m] = @ + 1]
  /\ unsent' = unsent \cup {m}
  /\ UNCHANGED <<says, copies, keyed>>

Accept(m) ==
  /\ keyed /\ m \in unsent /\ says[m] # "cancelled"
  /\ copies' = [copies EXCEPT ![m] = @ + 1]
  /\ unsent' = unsent \ {m}
  /\ UNCHANGED <<says, runs, keyed>>

(* A run without a key.                                                    *)
DryRun(m) ==
  /\ ~keyed /\ m \in unsent /\ says[m] # "cancelled"
  /\ says' = [says EXCEPT ![m] = "sent"]
  /\ unsent' = unsent \ {m}
  /\ UNCHANGED <<runs, copies, keyed>>

(* Runs end without a copy: skipped, refused, or dead with their worker.   *)
Miss(mails) ==
  /\ unsent' = unsent \ mails
  /\ UNCHANGED <<says, runs, copies, keyed>>

(* Rows change, those of several mails at once when they are cancelled.    *)
Say(mails, s) ==
  /\ \A m \in mails : says[m] # "none" /\ (s = "sent" => copies[m] > 0)
  /\ says' = [m \in Mail |-> IF m \in mails THEN s ELSE says[m]]
  /\ UNCHANGED <<runs, unsent, copies, keyed>>

Next ==
  \/ \E m \in Mail : Write(m) \/ Run(m) \/ Accept(m) \/ DryRun(m)
  \/ \E mails \in SUBSET unsent : Miss(mails)
  \/ \E mails \in SUBSET Mail, s \in {"open", "cancelled", "sent"} :
       Say(mails, s)

Spec == Init /\ [][Next]_mailVars
=============================================================================
