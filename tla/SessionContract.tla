-------------------------- MODULE SessionContract ---------------------------
(***************************************************************************)
(* What the refresh-token rotation of the API promises of sessions         *)
(* (apps/api/src/auth), with no browser, tabs, requests or crashes in it:  *)
(*                                                                         *)
(*   - a session has at most one refresh token, and two sessions never     *)
(*     share one;                                                          *)
(*   - an exchange takes the token away in one step and gives the next in  *)
(*     another, and the session may end between the two;                   *)
(*   - a session that ended stays so: no token of it appears again.        *)
(*                                                                         *)
(* Sessions implements it (SessionsKept).                                  *)
(***************************************************************************)
EXTENDS Integers

CONSTANT Token

VARIABLES
  opened,  \* sessions so far: they count from one
  open,    \* those that have not ended
  tokens   \* tokens[n]: the refresh tokens session n can be continued with

sessionVars == <<opened, open, tokens>>

Init ==
  /\ opened = 0
  /\ open = {}
  /\ tokens = [n \in 1 .. 0 |-> {}]

(* Somebody signs in; the session has no token yet.                        *)
Open ==
  /\ opened' = opened + 1
  /\ open' = open \cup {opened + 1}
  /\ tokens' = [n \in 1 .. opened + 1 |->
                  IF n <= opened THEN tokens[n] ELSE {}]

(* The first token, or the next.                                           *)
Issue(n, k) ==
  /\ n \in open /\ tokens[n] = {}
  /\ \A m \in 1 .. opened : k \notin tokens[m]
  /\ tokens' = [tokens EXCEPT ![n] = {k}]
  /\ UNCHANGED <<opened, open>>

(* The token is presented: whoever presents it again has nothing.          *)
Exchange(n, k) ==
  /\ n \in open /\ tokens[n] = {k}
  /\ tokens' = [tokens EXCEPT ![n] = {}]
  /\ UNCHANGED <<opened, open>>

(* Sessions end: refused, expired, or lost with the request that would     *)
(* have issued their token.                                                *)
End(ended) ==
  /\ ended # {}
  /\ open' = open \ ended
  /\ tokens' = [n \in 1 .. opened |-> IF n \in ended THEN {} ELSE tokens[n]]
  /\ UNCHANGED opened

Next ==
  \/ Open
  \/ \E n \in open, k \in Token : Issue(n, k) \/ Exchange(n, k)
  \/ \E ended \in SUBSET open : End(ended)

Spec == Init /\ [][Next]_sessionVars
=============================================================================
