--------------------------- MODULE ReportContract ---------------------------
(***************************************************************************)
(* What a seller's endpoints are promised of the reports of an order, with *)
(* no queries, lost answers, edits or restarts in it:                      *)
(*                                                                         *)
(*   - a report is of one change of the order and shows the order as it    *)
(*     was at one moment since, the same at every attempt;                 *)
(*   - an endpoint takes it at most MaxAttempts times, and not once more   *)
(*     after a row says success;                                           *)
(*   - a row says success only of a report the endpoint took, and is the   *)
(*     last of its delivery.                                               *)
(*                                                                         *)
(* OutboundWebhooks implements it (ReportsKept).  That a report arrives is *)
(* not promised: a restart drops it.                                       *)
(***************************************************************************)
EXTENDS Integers

CONSTANTS Run, Endpoint, MaxAttempts

VARIABLES
  version, \* the changes of the order so far
  told,    \* told[d]: the change report d is of, or 0
  shown,   \* shown[d]: the change it shows the order after, or 0
  taken,   \* taken[d][p]: how often endpoint p took it
  noted    \* noted[d][p]: what its rows say

reportVars == <<version, told, shown, taken, noted>>

Init ==
  /\ version = 0
  /\ told = [d \in Run |-> 0]
  /\ shown = [d \in Run |-> 0]
  /\ taken = [d \in Run |-> [p \in Endpoint |-> 0]]
  /\ noted = [d \in Run |-> [p \in Endpoint |-> {}]]

Change ==
  /\ version' = version + 1
  /\ UNCHANGED <<told, shown, taken, noted>>

(* The last change is reported, by whoever made it or again.               *)
Tell(d) ==
  /\ told[d] = 0 /\ version' \in {version, version + 1} /\ version' > 0
  /\ told' = [told EXCEPT ![d] = version']
  /\ UNCHANGED <<shown, taken, noted>>

Show(d) ==
  /\ told[d] \in 1 .. version /\ shown[d] = 0
  /\ shown' = [shown EXCEPT ![d] = version]
  /\ UNCHANGED <<version, told, taken, noted>>

Open(d, p) == shown[d] > 0 /\ "ok" \notin noted[d][p]

Take(d, p) ==
  /\ Open(d, p) /\ taken[d][p] < MaxAttempts
  /\ taken' = [taken EXCEPT ![d][p] = @ + 1]
  /\ UNCHANGED <<version, told, shown, noted>>

Note(d, p, verdict) ==
  /\ Open(d, p) /\ (verdict = "ok" => taken[d][p] > 0)
  /\ noted' = [noted EXCEPT ![d][p] = @ \cup {verdict}]
  /\ UNCHANGED <<version, told, shown, taken>>

Next ==
  \/ Change
  \/ \E d \in Run :
       \/ Tell(d) \/ Show(d)
       \/ \E p \in Endpoint :
            Take(d, p) \/ Note(d, p, "ok") \/ Note(d, p, "failed")

Spec == Init /\ [][Next]_reportVars
=============================================================================
