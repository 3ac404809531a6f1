---------------------------- MODULE MCEmailQueue ----------------------------
(* Three mails of one customer: two the API writes, one of them an order   *)
(* confirmation, and one of the lifecycle scheduler.                       *)
EXTENDS EmailQueue

CONSTANTS confirmation, shipping, welcome

MailsPriority == [m \in Mail |-> IF m \in Lifecycle THEN 3 ELSE 1]
=============================================================================
