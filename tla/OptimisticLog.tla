---------------------------- MODULE OptimisticLog ----------------------------
(***************************************************************************)
(* What domain/eventsourcing promises to the sessions that share its        *)
(* aggregates: every aggregate is a log that only grows, loading one is one *)
(* look at the whole of its log, and saving adds the session's own events   *)
(* to it in one piece, provided nobody added any since that look.           *)
(* Snapshots, and the statements that loading and saving are made of, are   *)
(* left out.                                                                 *)
(***************************************************************************)
EXTENDS Naturals, Sequences

CONSTANTS Sessions, \* whoever works on an aggregate
          Ids,      \* the aggregates
          NoId,     \* where a session stands that works on none
          MaxBatch  \* bound: events of one save

VARIABLES log, \* log[i]: the events of aggregate i
          view \* view[s]: the aggregate s works on, and its log as s saw it

logVars == <<log, view>>

NoView == [of |-> NoId, seen |-> <<>>]

LogInit == /\ log = [i \in Ids |-> <<>>]
           /\ view = [s \in Sessions |-> NoView]

(* A new aggregate is taken to be empty, a loaded one is what it is now.    *)
Open(s, i) == /\ view[s] = NoView
              /\ \E seen \in {<<>>, log[i]} : view' = [view EXCEPT ![s] = [of |-> i, seen |-> seen]]
              /\ UNCHANGED log

(* Whether the session learns of its success is left open.                  *)
Save(s, i) == /\ view[s] = [of |-> i, seen |-> log[i]]
              /\ \E n \in 1 .. MaxBatch :
                   log' = [log EXCEPT ![i] = @ \o [v \in 1 .. n |-> s]]
              /\ \/ view' = [view EXCEPT ![s] = [of |-> i, seen |-> log'[i]]]
                 \/ UNCHANGED view

Close(s) == /\ view' = [view EXCEPT ![s] = NoView]
            /\ UNCHANGED log

LogNext == \E s \in Sessions : Close(s) \/ \E i \in Ids : Open(s, i) \/ Save(s, i)

LogSpec == LogInit /\ [][LogNext]_logVars
=============================================================================
