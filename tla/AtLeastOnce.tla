---------------------------- MODULE AtLeastOnce ----------------------------
(***************************************************************************)
(* What a transactional outbox promises, with no database, no relay and no  *)
(* broker in it.  Committing a business transaction incurs a debt: one       *)
(* message is owed to the broker.  Copies of it may be delivered while the   *)
(* debt stands, the debt is settled only when at least one copy has been     *)
(* delivered, and it may be abandoned, which is final and visible.           *)
(***************************************************************************)
EXTENDS Naturals

CONSTANT Ids            \* the messages

VARIABLES debt,         \* debt[i]: what is still owed for message i
          copies        \* copies[i]: how many copies the broker accepted

abstractVars == <<debt, copies>>

DebtState == {"none", "owed", "abandoned", "settled"}

AbstractInit == /\ debt = [i \in Ids |-> "none"]
                /\ copies = [i \in Ids |-> 0]

Incur(i) == /\ debt[i] = "none"
            /\ debt' = [debt EXCEPT ![i] = "owed"]
            /\ UNCHANGED copies

Deliver(i) == /\ debt[i] = "owed"
              /\ copies' = [copies EXCEPT ![i] = @ + 1]
              /\ UNCHANGED debt

Abandon(i) == /\ debt[i] = "owed"
              /\ debt' = [debt EXCEPT ![i] = "abandoned"]
              /\ UNCHANGED copies

(* A whole batch of debts is settled at once, each already delivered.       *)
Settle(S) == /\ \A i \in S : debt[i] = "owed" /\ copies[i] > 0
             /\ debt' = [i \in Ids |-> IF i \in S THEN "settled" ELSE debt[i]]
             /\ UNCHANGED copies

AbstractNext == \/ \E i \in Ids : Incur(i) \/ Deliver(i) \/ Abandon(i)
                \/ \E S \in SUBSET Ids : Settle(S)

AbstractSpec == AbstractInit /\ [][AbstractNext]_abstractVars
=============================================================================
