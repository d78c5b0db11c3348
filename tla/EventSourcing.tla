---------------------------- MODULE EventSourcing ----------------------------
(***************************************************************************)
(* domain/eventsourcing with its GORM stores: sessions that create or load  *)
(* an aggregate, raise events on it in memory and save them.                *)
(*                                                                         *)
(* The table events has a unique index on (aggregate, version), which is    *)
(* all the concurrency control there is; the table snapshots has one row    *)
(* per aggregate, overwritten by every snapshot.  One SQL statement is one  *)
(* step, so Load reads the snapshot and the events at two moments and Save  *)
(* writes them at two.                                                       *)
(*                                                                         *)
(* The state of an aggregate is the sequence of the events applied to it;   *)
(* an event is told apart by the session that raised it.                    *)
(***************************************************************************)
EXTENDS Naturals, Sequences

CONSTANTS Sessions,      \* whoever works on an aggregate
          Ids,           \* the aggregates
          NoId,          \* the empty id, given to the factory of a repository
          RestoresId,    \* whether the aggregate's own ApplyEvent and UnmarshalJSON
                         \* put its id back, which nothing in the package does
          MaxVersion,    \* bound: versions of one aggregate
          SnapshotEvery, \* WithSnapshotEvery, with a snapshot store
          Faults,        \* the faults that may happen, of AllFaults
          MaxFaults      \* bound: how many of them happen

AllFaults == {"events", "snapshot", "crash"}

ASSUME IdsAssumption == NoId \notin Ids
ASSUME RestoresIdAssumption == RestoresId \in BOOLEAN
ASSUME MaxVersionAssumption == MaxVersion \in Nat
ASSUME SnapshotEveryAssumption == SnapshotEvery \in Nat \ {0}
ASSUME FaultsAssumption == Faults \subseteq AllFaults /\ MaxFaults \in Nat

VARIABLES
  row,     \* row[k][v]: the event with version v of aggregate k, or NoRow
  snap,    \* snap[k]: the row of snapshots for k; version 0 when there is none
  pc,      \* pc[s]: where session s stands
  home,    \* home[s]: the aggregate s asked for (history)
  id,      \* id[s]: AggregateID() of the aggregate s holds
  version, \* version[s]: its Version()
  state,   \* state[s]: the events applied to it
  fresh,   \* fresh[s]: how many of the last of them are uncommitted
  missed,  \* missed[k]: the last snapshot due of k was not left (history)
  acked,   \* the events whose Save returned nil (history)
  faults   \* faults that have happened

dbVars  == <<row, snap>>
aggVars == <<home, id, version, state, fresh>>
vars    == <<dbVars, pc, aggVars, missed, acked, faults>>

Keys     == Ids \cup {NoId}
Versions == 1 .. MaxVersion
NoRow    == "no row"
States   == UNION {[1 .. n -> Sessions] : n \in 0 .. MaxVersion}
Snapshot == [version : 0 .. MaxVersion, state : States]
NoSnap   == [version |-> 0, state |-> <<>>]

ASSUME SessionsAssumption == NoRow \notin Sessions

TypeOK ==
  /\ row \in [Keys -> [Versions -> Sessions \cup {NoRow}]]
  /\ snap \in [Keys -> Snapshot]
  /\ pc \in [Sessions -> {"idle", "loading", "open", "snapshot"}]
  /\ home \in [Sessions -> Keys] /\ id \in [Sessions -> Keys]
  /\ version \in [Sessions -> 0 .. MaxVersion]
  /\ state \in [Sessions -> States]
  /\ fresh \in [Sessions -> 0 .. MaxVersion]
  /\ missed \in [Keys -> BOOLEAN]
  /\ acked \subseteq Keys \X Versions \X Sessions
  /\ faults \in 0 .. MaxFaults

Init ==
  /\ row = [k \in Keys |-> [v \in Versions |-> NoRow]]
  /\ snap = [k \in Keys |-> NoSnap]
  /\ pc = [s \in Sessions |-> "idle"]
  /\ home = [s \in Sessions |-> NoId] /\ id = [s \in Sessions |-> NoId]
  /\ version = [s \in Sessions |-> 0]
  /\ state = [s \in Sessions |-> <<>>]
  /\ fresh = [s \in Sessions |-> 0]
  /\ missed = [k \in Keys |-> FALSE]
  /\ acked = {}
  /\ faults = 0

MayFail(f) == f \in Faults /\ faults < MaxFaults

Exists(k, v) == row[k][v] # NoRow

-----------------------------------------------------------------------------
(* Opening an aggregate.                                                     *)

Hold(s, i, ver, st) ==
  /\ id' = [id EXCEPT ![s] = i]
  /\ version' = [version EXCEPT ![s] = ver]
  /\ state' = [state EXCEPT ![s] = st]
  /\ fresh' = [fresh EXCEPT ![s] = 0]

(* The caller makes a new aggregate with an id of its own choice.           *)
Create(s, i) ==
  /\ pc[s] = "idle"
  /\ home' = [home EXCEPT ![s] = i]
  /\ Hold(s, i, 0, <<>>)
  /\ pc' = [pc EXCEPT ![s] = "open"]
  /\ UNCHANGED <<dbVars, missed, acked, faults>>

(* Load, first statement.  A snapshot that cannot be read or decoded is     *)
(* passed over and the aggregate is replayed from the start.  The factory   *)
(* is not given the id, and json.Unmarshal does not reach BaseAggregate.id.  *)
LoadSnapshot(s, i) ==
  /\ pc[s] = "idle"
  /\ home' = [home EXCEPT ![s] = i]
  /\ \/ Hold(s, NoId, snap[i].version, snap[i].state) /\ UNCHANGED faults
     \/ /\ MayFail("snapshot")
        /\ Hold(s, NoId, 0, <<>>)
        /\ faults' = faults + 1
  /\ pc' = [pc EXCEPT ![s] = "loading"]
  /\ UNCHANGED <<dbVars, missed, acked>>

(* mutant: version >= ?, the event the snapshot was taken at is applied again *)
FromTheSnapshot(v, from) == v >= from

AfterTheSnapshot(v, from) == v > from

Later(k, from) == {v \in Versions : AfterTheSnapshot(v, from) /\ Exists(k, v)}

Greatest(S) == CHOOSE v \in S : \A u \in S : u <= v

(* The events after the snapshot in the order of their versions, applied to *)
(* the aggregate one by one; a version that is missing is not noticed.      *)
Replayed(k, from, st) ==
  LET ReplayTo[v \in 0 .. MaxVersion] ==
        IF v = 0 THEN st
        ELSE IF v \in Later(k, from) THEN Append(ReplayTo[v - 1], row[k][v])
        ELSE ReplayTo[v - 1]
  IN  ReplayTo[MaxVersion]

(* Load, second statement.  Without a snapshot and without events there is  *)
(* no such aggregate.                                                        *)
LoadEvents(s) ==
  /\ pc[s] = "loading"
  /\ LET k     == home[s]
         later == Later(k, version[s])
     IN  IF version[s] = 0 /\ later = {}
           THEN /\ pc' = [pc EXCEPT ![s] = "idle"]
                /\ UNCHANGED <<id, version, state, fresh>>
           ELSE /\ Hold(s, IF RestoresId THEN k ELSE NoId,
                        IF later = {} THEN version[s] ELSE Greatest(later),
                        Replayed(k, version[s], state[s]))
                /\ pc' = [pc EXCEPT ![s] = "open"]
  /\ UNCHANGED <<dbVars, home, missed, acked, faults>>

(* The second statement fails: Load returns an error.                       *)
LoadFails(s) ==
  /\ pc[s] = "loading" /\ MayFail("events")
  /\ pc' = [pc EXCEPT ![s] = "idle"]
  /\ faults' = faults + 1
  /\ UNCHANGED <<dbVars, aggVars, missed, acked>>

-----------------------------------------------------------------------------
(* Working on it.                                                            *)

(* RaiseEvent whose applier accepts the event.  One that is refused leaves  *)
(* the version as it was and changes nothing.                                *)
Raise(s) ==
  /\ pc[s] = "open" /\ version[s] < MaxVersion
  /\ version' = [version EXCEPT ![s] = @ + 1]
  /\ state' = [state EXCEPT ![s] = Append(@, s)]
  /\ fresh' = [fresh EXCEPT ![s] = @ + 1]
  /\ UNCHANGED <<dbVars, pc, home, id, missed, acked, faults>>

Batch(s) == {v \in Versions : version[s] - fresh[s] < v /\ v <= version[s]}

(* mutant: the unique index is missing, a second insert replaces the row *)
NeverConflicts(s) == FALSE

(* The unique index refuses the statement, and with it the whole batch.     *)
Conflicts(s) == \E v \in Batch(s) : Exists(id[s], v)

Inserted(s) ==
  row' = [row EXCEPT ![id[s]] = [v \in Versions |-> IF v \in Batch(s) THEN s ELSE @[v]]]

(* mutant: the version the batch started from decides *)
DueAtStart(s) == (version[s] - fresh[s]) % SnapshotEvery = 0

Due(s) == version[s] % SnapshotEvery = 0

(* A multiple of SnapshotEvery lies inside the batch and not at its end.    *)
StepsOver(s) ==
  /\ version[s] % SnapshotEvery # 0
  /\ \E v \in Batch(s) : v % SnapshotEvery = 0

(* How far the log goes, and the last version in it a snapshot was due at.  *)
Length(k) == IF \E v \in Versions : Exists(k, v)
               THEN Greatest({v \in Versions : Exists(k, v)}) ELSE 0

LastDue(k) == Length(k) - (Length(k) % SnapshotEvery)

Acknowledged(s) == {home[s]} \X Batch(s) \X {s}

(* Save, first statement: one INSERT for all events.                        *)
SaveEvents(s) ==
  /\ pc[s] = "open" /\ fresh[s] > 0 /\ ~ Conflicts(s)
  /\ Inserted(s)
  /\ IF Due(s)
       THEN /\ pc' = [pc EXCEPT ![s] = "snapshot"]
            /\ UNCHANGED <<fresh, acked>>
       ELSE /\ fresh' = [fresh EXCEPT ![s] = 0]
            /\ acked' = acked \cup Acknowledged(s)
            /\ UNCHANGED pc
  /\ missed' = IF StepsOver(s) THEN [missed EXCEPT ![id[s]] = TRUE] ELSE missed
  /\ UNCHANGED <<snap, home, id, version, state, faults>>

(* The insert took effect and the answer was lost: the caller sees an error *)
(* and the events stay uncommitted in memory.  (One that took no effect, or *)
(* a conflict, changes nothing: the caller may save again, work on, or let  *)
(* go of the aggregate.)                                                     *)
SaveLost(s) ==
  /\ pc[s] = "open" /\ fresh[s] > 0 /\ ~ Conflicts(s) /\ MayFail("events")
  /\ Inserted(s)
  /\ missed' = IF version[s] % SnapshotEvery = 0 \/ StepsOver(s) THEN [missed EXCEPT ![id[s]] = TRUE] ELSE missed
  /\ faults' = faults + 1
  /\ UNCHANGED <<snap, pc, aggVars, acked>>

(* Save, second statement: the snapshot overwrites whatever is there, also  *)
(* a later one; its error is logged and Save returns nil.                   *)
SaveSnapshot(s) ==
  /\ pc[s] = "snapshot"
  /\ \/ /\ snap' = [snap EXCEPT ![id[s]] = [version |-> version[s], state |-> state[s]]]
        /\ missed' = [missed EXCEPT ![id[s]] =
                        version[s] < LastDue(id[s]) /\ (@ \/ snap[id[s]].version > version[s])]
        /\ UNCHANGED faults
     \/ /\ MayFail("snapshot")
        /\ missed' = [missed EXCEPT ![id[s]] = TRUE]
        /\ faults' = faults + 1
        /\ UNCHANGED snap
  /\ fresh' = [fresh EXCEPT ![s] = 0]
  /\ acked' = acked \cup Acknowledged(s)
  /\ pc' = [pc EXCEPT ![s] = "open"]
  /\ UNCHANGED <<row, home, id, version, state>>

(* The caller drops the aggregate.                                           *)
LetGo(s) ==
  /\ pc[s] = "open"
  /\ pc' = [pc EXCEPT ![s] = "idle"]
  /\ Hold(s, NoId, 0, <<>>)
  /\ home' = [home EXCEPT ![s] = NoId]
  /\ UNCHANGED <<dbVars, missed, acked, faults>>

(* The process of s dies inside Save, between the two statements.           *)
Crash(s) ==
  /\ pc[s] = "snapshot" /\ MayFail("crash")
  /\ pc' = [pc EXCEPT ![s] = "idle"]
  /\ Hold(s, NoId, 0, <<>>)
  /\ home' = [home EXCEPT ![s] = NoId]
  /\ missed' = [missed EXCEPT ![id[s]] = TRUE]
  /\ faults' = faults + 1
  /\ UNCHANGED <<dbVars, acked>>

-----------------------------------------------------------------------------
Session(s) ==
  \/ \E i \in Ids : Create(s, i) \/ LoadSnapshot(s, i)
  \/ LoadEvents(s) \/ LoadFails(s)
  \/ Raise(s)
  \/ SaveEvents(s) \/ SaveLost(s) \/ SaveSnapshot(s)
  \/ LetGo(s) \/ Crash(s)

Next == \E s \in Sessions : Session(s)

Spec == Init /\ [][Next]_vars

-----------------------------------------------------------------------------
(* Correctness.                                                              *)

(* The log of an aggregate has no gap.                                      *)
NoGaps(k) == \A v \in 1 .. Length(k) : Exists(k, v)

(* st is what the first n events of the log of k build.                     *)
Builds(k, n, st) == n <= Length(k) /\ Len(st) >= n /\ \A v \in 1 .. n : st[v] = row[k][v]

(* Whatever way an aggregate got into memory or into the snapshot table     *)
(* (created, replayed from the start, from a snapshot read before others    *)
(* saved more, or from one that an older writer put back), its committed    *)
(* part is what replaying the log to that version builds.                   *)
ReplayAgrees ==
  /\ \A i \in Ids : /\ NoGaps(i)
                    /\ Builds(i, snap[i].version, snap[i].state)
                    /\ Len(snap[i].state) = snap[i].version
  /\ \A s \in Sessions :
       pc[s] # "idle" => /\ Builds(home[s], version[s] - fresh[s], state[s])
                         /\ Len(state[s]) = version[s]

(* What session s works on, and the part of it that it has from the log, or *)
(* has just brought there.                                                   *)
Seen(s) == [v \in 1 .. (IF pc[s] = "snapshot" THEN version[s] ELSE version[s] - fresh[s])
              |-> state[s][v]]

View(s) == IF pc[s] \in {"open", "snapshot"} /\ id[s] # NoId
             THEN [of |-> id[s], seen |-> Seen(s)]
             ELSE [of |-> NoId, seen |-> <<>>]

Recorded(i) == [v \in 1 .. Length(i) |-> row[i][v]]

Promise == INSTANCE OptimisticLog WITH
  MaxBatch <- MaxVersion,
  log      <- [i \in Ids |-> Recorded(i)],
  view     <- [s \in Sessions |-> View(s)]

(* Load reads two tables at two moments and Save writes them at two, a      *)
(* snapshot may be old and an insert may have succeeded unnoticed; yet for   *)
(* every aggregate a Load is one look at the log and a Save one addition to  *)
(* the log the session saw: events are neither overwritten nor saved twice,  *)
(* and none are built over events unseen.                                    *)
KeepsPromise == Promise!LogSpec

(* As long as the last snapshot due was taken (no batch stepped over the   *)
(* multiple, it did not fail, no older one came late, nobody crashed before *)
(* it), a load replays fewer than SnapshotEvery events.                      *)
ReplayIsShort ==
  \A i \in Ids :
    ~ missed[i] /\ (\A s \in Sessions : id[s] = i => pc[s] # "snapshot")
      => Length(i) - snap[i].version < SnapshotEvery

(* What Save acknowledged is found by the next Load of that aggregate       *)
(* (README.md:11 of the package: the state is rebuilt from all the events    *)
(* that happened on the aggregate).                                          *)
AckedIsFound == \A a \in acked : row[a[1]][a[2]] = a[3]
=============================================================================
