---------------------------- MODULE AllOrNothing ----------------------------
(***************************************************************************)
(* What domain/saga promises for one transaction made of parts: it ends     *)
(* committed with every part standing, or aborted with every revocable part *)
(* taken back, but for the part whose own failure was the reason; if taking *)
(* one back failed it ends torn, and torn is never passed off as aborted.   *)
(* How parts are attempted, repeated and recorded is left out.              *)
(***************************************************************************)
CONSTANTS Parts,     \* the parts of the transaction
          Revocable  \* those that can be taken back

VARIABLES phase,     \* how the transaction stands
          standing,  \* the parts whose effect is in force
          culprit,   \* the part whose failure turned the transaction back
          stuck      \* the parts that could not be taken back

abstractVars == <<phase, standing, culprit, stuck>>

Phase == {"forward", "back", "committed", "aborted", "torn"}

AbstractInit == phase = "forward" /\ standing = {} /\ culprit = {} /\ stuck = {}

Apply(p) == /\ phase = "forward"
            /\ standing' = standing \cup {p}
            /\ UNCHANGED <<phase, culprit, stuck>>

TurnBack == /\ phase = "forward"
            /\ phase' = "back"
            /\ culprit' \in {{}} \cup {{p} : p \in Parts}
            /\ UNCHANGED <<standing, stuck>>

Revoke(p) == /\ phase = "back"
             /\ standing' = standing \ {p}
             /\ UNCHANGED <<phase, culprit, stuck>>

(* Whether a part that resists was taken back all the same is not known.    *)
Resist(p) == /\ phase = "back"
             /\ stuck' = stuck \cup {p}
             /\ standing' \in {standing, standing \ {p}}
             /\ UNCHANGED <<phase, culprit>>

Commit == /\ phase = "forward" /\ standing = Parts
          /\ phase' = "committed"
          /\ UNCHANGED <<standing, culprit, stuck>>

GiveUp == /\ phase = "back"
          /\ standing \cap Revocable \subseteq culprit \cup stuck
          /\ phase' = IF stuck = {} THEN "aborted" ELSE "torn"
          /\ UNCHANGED <<standing, culprit, stuck>>

AbstractNext == \/ \E p \in Parts : Apply(p)
                \/ \E p \in Revocable : Revoke(p) \/ Resist(p)
                \/ TurnBack \/ Commit \/ GiveUp

AbstractSpec == AbstractInit /\ [][AbstractNext]_abstractVars
=============================================================================
