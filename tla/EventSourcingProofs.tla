------------------------ MODULE EventSourcingProofs ------------------------
(* Theorems about EventSourcing, for any sessions, aggregates, versions,     *)
(* snapshots and faults.                                                     *)
EXTENDS EventSourcing, SequenceTheorems, WellFoundedInduction, TLAPS

USE IdsAssumption, MaxVersionAssumption, SnapshotEveryAssumption, SessionsAssumption

-----------------------------------------------------------------------------
(* Induction by the least counterexample, and the last multiple.             *)

LEMMA LeastBy ==
  ASSUME NEW R, IsWellFoundedOn(R, Nat), \A x, y \in Nat : x < y => <<x, y>> \in R,
         NEW T, T \subseteq Nat, T # {}
  PROVE  \E n \in T : \A m \in T : n <= m
<1>1. PICK n \in T : \A m \in T : ~ (<<m, n>> \in R)
  BY WFMin
<1>2. ASSUME NEW m \in T PROVE n <= m
  <2>1. ~ (m < n)
    BY <1>1
  <2> QED BY <2>1
<1> QED BY <1>1, <1>2

LEMMA Least ==
  ASSUME NEW T, T \subseteq Nat, T # {}
  PROVE  \E n \in T : \A m \in T : n <= m
<1>1. \A x, y \in Nat : x < y => <<x, y>> \in OpToRel(<, Nat)
  BY DEF OpToRel
<1> QED BY <1>1, NatLessThanWellFounded, LeastBy, Zenon

LEMMA Product ==
  ASSUME NEW d \in Nat \ {0}, NEW p \in Int, NEW q \in Int, p < q
  PROVE  d * p + d <= d * q
<1>1. q - p - 1 \in Nat /\ q = p + 1 + (q - p - 1)
  OBVIOUS
<1>2. d * (q - p - 1) \in Nat
  BY <1>1
<1>3. d * q = d * p + d + d * (q - p - 1)
  BY <1>1
<1> QED BY <1>2, <1>3

LEMMA LastMultiple ==
  ASSUME NEW n \in Nat, NEW d \in Nat \ {0}
  PROVE  /\ n % d \in 0 .. d - 1 /\ n - (n % d) \in 0 .. n
         /\ (n - (n % d)) % d = 0
         /\ \A v \in 0 .. n : v % d = 0 => v <= n - (n % d)
<1>1. n % d \in 0 .. d - 1 /\ n = (d * (n \div d)) + (n % d) /\ n \div d \in Int
  OBVIOUS
<1>2. n - (n % d) \in 0 .. n
  OBVIOUS
<1> DEFINE m == n - (n % d)
<1>3. (m % d) \in 0 .. d - 1 /\ m = (d * (m \div d)) + (m % d) /\ (m \div d) \in Int
  OBVIOUS
<1>4. m % d = 0
  <2>1. m = d * (n \div d)
    BY <1>1
  <2>2. CASE (m \div d) < (n \div d)
    <3>1. d * (m \div d) + d <= d * (n \div d)
      BY <1>1, <1>3, <2>2, Product
    <3> QED BY <1>1, <1>3, <2>1, <3>1
  <2>3. CASE (n \div d) < (m \div d)
    <3>1. d * (n \div d) + d <= d * (m \div d)
      BY <1>1, <1>3, <2>3, Product
    <3> QED BY <1>1, <1>3, <2>1, <3>1
  <2>4. CASE (n \div d) = (m \div d)
    BY <1>1, <1>3, <2>1, <2>4
  <2> QED BY <1>1, <1>3, <2>2, <2>3, <2>4
<1>5. ASSUME NEW v \in 0 .. n, v % d = 0 PROVE v <= m
  <2>1. v = d * (v \div d) /\ (v \div d) \in Int
    BY <1>5
  <2>2. CASE (v \div d) <= (n \div d)
    BY <1>1, <2>1, <2>2
  <2>3. CASE (n \div d) < (v \div d)
    <3>1. d * (n \div d) + d <= d * (v \div d)
      BY <1>1, <2>1, <2>3, Product
    <3> QED BY <1>1, <2>1, <3>1
  <2> QED BY <1>1, <2>1, <2>2, <2>3
<1> QED BY <1>1, <1>2, <1>4, <1>5

-----------------------------------------------------------------------------
(* Sequences of events, and the log.                                         *)

LEMMA StatesAre ==
  ASSUME NEW st \in States
  PROVE  /\ st \in Seq(Sessions) /\ Len(st) \in 0 .. MaxVersion
         /\ st \in [1 .. Len(st) -> Sessions]
<1>1. PICK n \in 0 .. MaxVersion : st \in [1 .. n -> Sessions]
  BY DEF States
<1>2. st \in Seq(Sessions) /\ Len(st) = n
  BY <1>1, IsASeq, LenProperties
<1> QED BY <1>1, <1>2

LEMMA AreStates ==
  ASSUME NEW n \in 0 .. MaxVersion, NEW st \in [1 .. n -> Sessions]
  PROVE  st \in States /\ st \in Seq(Sessions) /\ Len(st) = n
<1>1. st \in Seq(Sessions) /\ Len(st) = n
  BY IsASeq, LenProperties
<1> QED BY <1>1 DEF States

LEMMA EmptyState == <<>> \in States /\ Len(<<>>) = 0
<1>1. <<>> \in [1 .. 0 -> Sessions]
  OBVIOUS
<1>2. 0 \in 0 .. MaxVersion
  OBVIOUS
<1> QED BY <1>1, <1>2, AreStates

LEMMA AppendState ==
  ASSUME NEW st \in States, Len(st) < MaxVersion, NEW s \in Sessions
  PROVE  /\ Append(st, s) \in States /\ Len(Append(st, s)) = Len(st) + 1
         /\ \A v \in 1 .. Len(st) : Append(st, s)[v] = st[v]
         /\ Append(st, s)[Len(st) + 1] = s
<1>1. st \in Seq(Sessions) /\ Len(st) \in 0 .. MaxVersion
  BY StatesAre
<1>2. /\ Append(st, s) \in Seq(Sessions) /\ Len(Append(st, s)) = Len(st) + 1
      /\ \A v \in 1 .. Len(st) : Append(st, s)[v] = st[v]
      /\ Append(st, s)[Len(st) + 1] = s
  BY <1>1, AppendProperties
<1>3. Append(st, s) \in [1 .. Len(st) + 1 -> Sessions]
  BY <1>2, LenProperties
<1>4. Len(st) + 1 \in 0 .. MaxVersion
  BY <1>1
<1>5. Append(st, s) \in States
  BY <1>3, <1>4, AreStates
<1> QED BY <1>2, <1>5

RowType == row \in [Keys -> [Versions -> Sessions \cup {NoRow}]]

(* The log of k is its first n versions.                                     *)
Filled(k, n) == \A v \in Versions : Exists(k, v) <=> v <= n

Log(k, n) == [v \in 1 .. n |-> row[k][v]]

LEMMA LogType ==
  ASSUME RowType, NEW k \in Keys, NEW n \in 0 .. MaxVersion, Filled(k, n), NEW m \in 0 .. n
  PROVE  /\ Log(k, m) \in [1 .. m -> Sessions]
         /\ Log(k, m) \in States /\ Len(Log(k, m)) = m
<1>1. Log(k, m) \in [1 .. m -> Sessions]
  <2>1. ASSUME NEW v \in 1 .. m PROVE row[k][v] \in Sessions
    <3>1. v \in Versions /\ v <= n
      BY DEF Versions
    <3> QED BY <3>1 DEF RowType, Filled, Exists
  <2> QED BY <2>1 DEF Log
<1> QED BY <1>1, AreStates

LEMMA LogAppend ==
  ASSUME RowType, NEW k \in Keys, NEW n \in 0 .. MaxVersion, Filled(k, n), NEW m \in 0 .. n - 1
  PROVE  Append(Log(k, m), row[k][m + 1]) = Log(k, m + 1)
<1>1. Log(k, m) \in States /\ Len(Log(k, m)) = m
  BY LogType
<1>2. Log(k, m + 1) \in States /\ Len(Log(k, m + 1)) = m + 1 /\ Log(k, m + 1) \in [1 .. m + 1 -> Sessions]
  BY LogType
<1>3. row[k][m + 1] \in Sessions
  BY <1>2 DEF Log
<1> DEFINE longer == Append(Log(k, m), row[k][m + 1])
<1>4. /\ longer \in States /\ Len(longer) = m + 1
      /\ \A v \in 1 .. m : longer[v] = Log(k, m)[v]
      /\ longer[m + 1] = row[k][m + 1]
  BY <1>1, <1>3, AppendState
<1>5. longer \in [1 .. m + 1 -> Sessions]
  BY <1>4, StatesAre
<1>6. ASSUME NEW v \in 1 .. m + 1 PROVE longer[v] = Log(k, m + 1)[v]
  BY <1>4 DEF Log
<1> HIDE DEF longer
<1>7. longer = Log(k, m + 1)
  BY <1>2, <1>5, <1>6
<1> QED BY <1>7 DEF longer

LEMMA GreatestIs ==
  ASSUME NEW n \in Nat, NEW S, S \subseteq Nat, n \in S, \A v \in S : v <= n
  PROVE  Greatest(S) = n
<1> DEFINE P(v) == v \in S /\ \A u \in S : u <= v
<1>1. P(n)
  OBVIOUS
<1>2. \A v : P(v) => v = n
  OBVIOUS
<1>3. Greatest(S) = CHOOSE v \in S : \A u \in S : u <= v
  BY DEF Greatest
<1> QED BY <1>1, <1>2, <1>3

LEMMA LengthIs ==
  ASSUME NEW k \in Keys, NEW n \in 0 .. MaxVersion, Filled(k, n)
  PROVE  Length(k) = n
<1> DEFINE S == {v \in Versions : Exists(k, v)}
<1>1. S = 1 .. n
  BY DEF Filled, Versions
<1>2. CASE n = 0
  BY <1>1, <1>2 DEF Length
<1>3. CASE n # 0
  <2>1. Greatest(S) = n
    <3> HIDE DEF S
    <3> QED BY <1>1, <1>3, GreatestIs
  <2>2. \E v \in Versions : Exists(k, v)
    BY <1>1, <1>3
  <2> QED BY <2>1, <2>2 DEF Length
<1> QED BY <1>2, <1>3

-----------------------------------------------------------------------------
(* Load.  What it replays after the snapshot is the log.                     *)

(* Whatever follows the equation of ReplayTo is what Replayed computes.      *)
LEMMA ReplayIs ==
  ASSUME NEW k, NEW from, NEW st, NEW g,
         \A v \in 0 .. MaxVersion :
           g[v] = IF v = 0 THEN st
                  ELSE IF v \in Later(k, from) THEN Append(g[v - 1], row[k][v])
                  ELSE g[v - 1]
  PROVE  Replayed(k, from, st) = g[MaxVersion]
<1> DEFINE Step(f) == [v \in 0 .. MaxVersion |->
                        IF v = 0 THEN st
                        ELSE IF v \in Later(k, from) THEN Append(f[v - 1], row[k][v])
                        ELSE f[v - 1]]
           F == CHOOSE f : f = Step(f)
<1>1. Replayed(k, from, st) = F[MaxVersion]
  BY DEF Replayed
<1>2. \E f : f = Step(f)
  <2> DEFINE h == [v \in 0 .. MaxVersion |-> g[v]]
  <2>1. ASSUME NEW v \in 0 .. MaxVersion PROVE h[v] = Step(h)[v]
    OBVIOUS
  <2>2. h = Step(h)
    BY <2>1
  <2> QED BY <2>2
<1>3. F = Step(F)
  <2> HIDE DEF Step
  <2> QED BY <1>2
<1> HIDE DEF F
<1>4. \A v \in 0 .. MaxVersion : F[v] = g[v]
  <2> DEFINE T == {v \in 0 .. MaxVersion : F[v] # g[v]}
  <2> SUFFICES ASSUME T # {} PROVE FALSE
    OBVIOUS
  <2>1. PICK n \in T : \A m \in T : n <= m
    <3>1. T \subseteq Nat
      OBVIOUS
    <3> HIDE DEF T
    <3> QED BY <3>1, Least
  <2>2. n # 0
    BY <1>3, <2>1
  <2>3. F[n - 1] = g[n - 1]
    BY <2>1, <2>2
  <2>4. F[n] = g[n]
    BY <1>3, <2>1, <2>2, <2>3
  <2> QED BY <2>1, <2>4
<1> QED BY <1>1, <1>4

LEMMA ReplayedIs ==
  ASSUME RowType, NEW k \in Keys, NEW n \in 0 .. MaxVersion, Filled(k, n), NEW from \in 0 .. n
  PROVE  Replayed(k, from, Log(k, from)) = Log(k, n)
<1> DEFINE upTo(v) == IF v <= from THEN from ELSE IF v <= n THEN v ELSE n
<1> DEFINE g == [v \in 0 .. MaxVersion |-> Log(k, upTo(v))]
<1>1. ASSUME NEW v \in 0 .. MaxVersion
      PROVE  g[v] = IF v = 0 THEN Log(k, from)
                    ELSE IF v \in Later(k, from) THEN Append(g[v - 1], row[k][v])
                    ELSE g[v - 1]
  <2>1. g[v] = Log(k, upTo(v)) /\ (v # 0 => g[v - 1] = Log(k, upTo(v - 1)))
    OBVIOUS
  <2>2. v \in Later(k, from) <=> from < v /\ v <= n
    BY DEF Later, AfterTheSnapshot, Filled, Versions
  <2>3. CASE v = 0
    <3>1. upTo(v) = from
      BY <2>3
    <3> QED BY <2>1, <2>3, <3>1
  <2>4. CASE v # 0 /\ from < v /\ v <= n
    <3>1. upTo(v) = v /\ upTo(v - 1) = v - 1 /\ v - 1 \in 0 .. n - 1 /\ (v - 1) + 1 = v
      BY <2>4
    <3>2. Append(Log(k, v - 1), row[k][v]) = Log(k, v)
      BY <3>1, LogAppend
    <3> QED BY <2>1, <2>2, <2>4, <3>1, <3>2
  <2>5. CASE v # 0 /\ ~ (from < v /\ v <= n)
    <3>1. upTo(v) = upTo(v - 1)
      BY <2>5
    <3> QED BY <2>1, <2>2, <2>5, <3>1
  <2> QED BY <2>3, <2>4, <2>5
<1>3. g[MaxVersion] = Log(k, n)
  OBVIOUS
<1> HIDE DEF g
<1>4. Replayed(k, from, Log(k, from)) = g[MaxVersion]
  BY <1>1, ReplayIs
<1> QED BY <1>3, <1>4

-----------------------------------------------------------------------------
(* The inductive invariant.                                                  *)

Logged == \A i \in Ids : \E n \in 0 .. MaxVersion : Filled(i, n)

(* The first n events of st are those of the log of k.                       *)
Agrees(k, n, st) == Len(st) >= n /\ \A v \in 1 .. n : Exists(k, v) /\ st[v] = row[k][v]

SnapsAgree ==
  \A i \in Ids : Len(snap[i].state) = snap[i].version /\ Agrees(i, snap[i].version, snap[i].state)

Committed(s) == version[s] - fresh[s]

(* Where a session stands says what it holds; what it has not committed it   *)
(* raised itself.                                                            *)
Stands(s) ==
  /\ pc[s] # "idle" => home[s] \in Ids /\ Len(state[s]) = version[s]
  /\ id[s] \in {NoId, home[s]}
  /\ pc[s] \in {"idle", "loading"} => id[s] = NoId
  /\ RestoresId /\ pc[s] \in {"open", "snapshot"} => id[s] # NoId
  /\ pc[s] = "loading" => fresh[s] = 0
  /\ fresh[s] <= version[s]
  /\ pc[s] # "idle" => \A v \in Committed(s) + 1 .. version[s] : state[s][v] = s

(* Whoever is loading, or has kept the id it asked for, holds the log; while *)
(* it saves a snapshot, all it holds is the log.                             *)
Attached(s) == pc[s] = "loading" \/ (pc[s] # "idle" /\ id[s] # NoId)

Holds(s) ==
  Attached(s) => /\ Agrees(home[s], Committed(s), state[s])
                 /\ pc[s] = "snapshot" => Agrees(home[s], version[s], state[s])

Good == TypeOK /\ Logged /\ SnapsAgree /\ \A s \in Sessions : Stands(s) /\ Holds(s)

(* Unless one was missed, every snapshot due was taken or is being taken.    *)
DueLeft ==
  \A i \in Ids : ~ missed[i] =>
    \A v \in Versions : Exists(i, v) /\ v % SnapshotEvery = 0 =>
      \/ v <= snap[i].version
      \/ \E s \in Sessions : id[s] = i /\ pc[s] = "snapshot" /\ v <= version[s]

LEMMA GoodInit == Init => Good /\ DueLeft
<1> SUFFICES ASSUME Init PROVE Good /\ DueLeft
  OBVIOUS
<1> USE DEF Init
<1>1. <<>> \in States /\ Len(<<>>) = 0
  BY EmptyState
<1>2. NoSnap \in Snapshot /\ 0 \in 0 .. MaxVersion
  BY <1>1 DEF NoSnap, Snapshot
<1>3. TypeOK
  BY <1>1, <1>2, FaultsAssumption DEF TypeOK, Keys
<1>4. \A i \in Ids, v \in Versions : ~ Exists(i, v)
  BY DEF Exists, Keys
<1>5. Logged
  <2>1. \A i \in Ids : Filled(i, 0)
    BY <1>4 DEF Filled, Versions
  <2> QED BY <1>2, <2>1 DEF Logged
<1>6. SnapsAgree
  BY <1>1 DEF SnapsAgree, Agrees, NoSnap, Keys
<1>7. ASSUME NEW s \in Sessions PROVE Stands(s) /\ Holds(s)
  <2>1. pc[s] = "idle" /\ id[s] = NoId /\ version[s] = 0 /\ fresh[s] = 0
    OBVIOUS
  <2>2. fresh[s] <= version[s]
    BY <2>1
  <2>3. Stands(s)
    BY <2>1, <2>2 DEF Stands
  <2>4. Holds(s)
    BY <2>1 DEF Holds, Attached
  <2> QED BY <2>3, <2>4
<1>8. DueLeft
  BY <1>4 DEF DueLeft
<1> QED BY <1>3, <1>5, <1>6, <1>7, <1>8 DEF Good

(* The others stay as they are.                                              *)
LEMMA SessionFrame ==
  ASSUME TypeOK, NEW s \in Sessions, Session(s), NEW t \in Sessions, t # s
  PROVE  /\ pc'[t] = pc[t] /\ home'[t] = home[t] /\ id'[t] = id[t]
         /\ version'[t] = version[t] /\ state'[t] = state[t] /\ fresh'[t] = fresh[t]
<1> USE DEF TypeOK, Hold, aggVars
<1>1. CASE \E i \in Ids : Create(s, i) \/ LoadSnapshot(s, i)
  BY <1>1 DEF Create, LoadSnapshot
<1>2. CASE LoadEvents(s) \/ LoadFails(s)
  BY <1>2 DEF LoadEvents, LoadFails
<1>3. CASE Raise(s) \/ SaveEvents(s) \/ SaveLost(s) \/ SaveSnapshot(s)
  BY <1>3 DEF Raise, SaveEvents, SaveLost, SaveSnapshot
<1>4. CASE LetGo(s) \/ Crash(s)
  BY <1>4 DEF LetGo, Crash
<1> QED BY <1>1, <1>2, <1>3, <1>4 DEF Session

(* The insert of a session that kept its id goes on top of the log.          *)
LEMMA InsertIs ==
  ASSUME Good, NEW s \in Sessions, pc[s] = "open", fresh[s] > 0, ~ Conflicts(s), Inserted(s)
  PROVE  /\ RowType'
         /\ \A k \in Keys, v \in Versions :
              row'[k][v] = IF k = id[s] /\ v \in Batch(s) THEN s ELSE row[k][v]
         /\ \A k \in Keys, v \in Versions : Exists(k, v) => row'[k][v] = row[k][v]
         /\ id[s] \in Ids => /\ id[s] = home[s] /\ Filled(id[s], Committed(s))
                             /\ \A v \in Versions : row'[id[s]][v] # NoRow <=> v <= version[s]
<1> USE DEF Good, TypeOK
<1>1. id[s] \in Keys /\ row \in [Keys -> [Versions -> Sessions \cup {NoRow}]]
  OBVIOUS
<1>2. \A k \in Keys, v \in Versions :
        row'[k][v] = IF k = id[s] /\ v \in Batch(s) THEN s ELSE row[k][v]
  BY <1>1 DEF Inserted
<1>3. RowType'
  BY <1>1 DEF Inserted, RowType
<1>4. \A k \in Keys, v \in Versions : Exists(k, v) => row'[k][v] = row[k][v]
  BY <1>2 DEF Conflicts
<1>5. ASSUME id[s] \in Ids
      PROVE  /\ id[s] = home[s] /\ Filled(id[s], Committed(s))
             /\ \A v \in Versions : row'[id[s]][v] # NoRow <=> v <= version[s]
  <2>1. id[s] = home[s] /\ Attached(s)
    BY <1>5 DEF Stands, Attached
  <2>2. /\ Committed(s) \in 0 .. MaxVersion /\ Committed(s) + 1 \in Batch(s)
        /\ Batch(s) = Committed(s) + 1 .. version[s]
    BY DEF Stands, Committed, Batch, Versions
  <2>3. PICK n \in 0 .. MaxVersion : Filled(id[s], n)
    BY <1>5 DEF Logged
  <2>4. n = Committed(s)
    <3>1. ~ (Committed(s) + 1 <= n)
      BY <2>2, <2>3 DEF Conflicts, Filled, Batch
    <3>2. Committed(s) <= n
      <4>1. Agrees(id[s], Committed(s), state[s])
        BY <2>1 DEF Holds
      <4>2. CASE Committed(s) # 0
        <5>1. Committed(s) \in 1 .. Committed(s) /\ Committed(s) \in Versions
          BY <2>2, <4>2 DEF Versions
        <5>2. Exists(id[s], Committed(s))
          BY <4>1, <5>1 DEF Agrees
        <5> QED BY <2>3, <5>1, <5>2 DEF Filled
      <4> QED BY <2>2, <2>3, <4>2
    <3> QED BY <2>2, <3>1, <3>2
  <2>5. ASSUME NEW v \in Versions
        PROVE  row'[id[s]][v] # NoRow <=> v <= version[s]
    <3>1. v \in Batch(s) <=> Committed(s) < v /\ v <= version[s]
      BY DEF Batch, Committed
    <3>2. row[id[s]][v] # NoRow <=> v <= Committed(s)
      BY <2>3, <2>4 DEF Filled, Exists
    <3> QED BY <1>1, <1>2, <2>2, <3>1, <3>2 DEF Versions
  <2> QED BY <2>1, <2>3, <2>4, <2>5
<1> QED BY <1>2, <1>3, <1>4, <1>5

LEMMA OpensGood ==
  ASSUME Good, NEW s \in Sessions, NEW i \in Ids, Create(s, i) \/ LoadSnapshot(s, i)
  PROVE  TypeOK' /\ Stands(s)' /\ Holds(s)'
<1> USE DEF Good, TypeOK, Hold, Keys, dbVars
<1>1. <<>> \in States /\ Len(<<>>) = 0 /\ 0 \in 0 .. MaxVersion
  BY EmptyState
<1>2. CASE Create(s, i)
  <2>1. /\ pc'[s] = "open" /\ home'[s] = i /\ id'[s] = i /\ version'[s] = 0 /\ state'[s] = <<>>
        /\ fresh'[s] = 0
    BY <1>2 DEF Create
  <2>2. TypeOK'
    BY <1>1, <1>2 DEF Create
  <2> QED BY <1>1, <2>1, <2>2 DEF Stands, Holds, Attached, Committed, Agrees
<1>3. CASE LoadSnapshot(s, i)
  <2>1. PICK ver \in 0 .. MaxVersion, st \in States :
          /\ Hold(s, NoId, ver, st) /\ Len(st) = ver /\ Agrees(i, ver, st)
          /\ faults' \in 0 .. MaxFaults
    <3>1. CASE Hold(s, NoId, snap[i].version, snap[i].state) /\ faults' = faults
      <4>1. snap[i].version \in 0 .. MaxVersion /\ snap[i].state \in States
        BY DEF Snapshot
      <4> QED BY <3>1, <4>1 DEF SnapsAgree
    <3>2. CASE Hold(s, NoId, 0, <<>>) /\ MayFail("snapshot") /\ faults' = faults + 1
      <4>1. faults' \in 0 .. MaxFaults
        BY <3>2, FaultsAssumption DEF MayFail
      <4>2. Agrees(i, 0, <<>>)
        BY <1>1 DEF Agrees
      <4> QED BY <1>1, <3>2, <4>1, <4>2
    <3> QED BY <1>3, <3>1, <3>2 DEF LoadSnapshot
  <2>2. /\ pc'[s] = "loading" /\ home'[s] = i /\ id'[s] = NoId /\ version'[s] = ver /\ state'[s] = st
        /\ fresh'[s] = 0 /\ row' = row
    BY <1>3, <2>1 DEF LoadSnapshot
  <2>3. TypeOK'
    BY <1>1, <1>3, <2>1 DEF LoadSnapshot
  <2> QED BY <2>1, <2>2, <2>3 DEF Stands, Holds, Attached, Committed, Agrees, Exists
<1> QED BY <1>2, <1>3

(* A Load that finds the aggregate holds its whole log.                      *)
LEMMA LoadedIs ==
  ASSUME Good, NEW s \in Sessions, LoadEvents(s)
  PROVE  /\ home[s] \in Ids
         /\ \/ pc'[s] = "idle" /\ UNCHANGED <<row, home, id, version, state, fresh>> /\ TypeOK'
            \/ \E n \in 0 .. MaxVersion :
                 /\ Filled(home[s], n) /\ pc'[s] = "open" /\ UNCHANGED <<row, home>> /\ TypeOK'
                 /\ id'[s] = (IF RestoresId THEN home[s] ELSE NoId)
                 /\ version'[s] = n /\ fresh'[s] = 0 /\ state'[s] = Log(home[s], n)
<1> USE DEF Good, TypeOK, Keys, dbVars
<1> DEFINE k == home[s]
           later == Later(k, version[s])
<1>0. pc[s] = "loading" /\ k \in Ids /\ fresh[s] = 0 /\ Len(state[s]) = version[s] /\ id[s] = NoId
  BY DEF LoadEvents, Stands
<1>1. PICK n \in 0 .. MaxVersion : Filled(k, n)
  BY <1>0 DEF Logged
<1>2. Agrees(k, version[s], state[s])
  BY <1>0 DEF Holds, Attached, Committed
<1>3. version[s] \in 0 .. n
  BY <1>1, <1>2 DEF Agrees, Filled, Versions
<1>4. state[s] = Log(k, version[s])
  <2>1. state[s] \in [1 .. version[s] -> Sessions]
    BY <1>0, StatesAre
  <2>2. \A v \in 1 .. version[s] : state[s][v] = row[k][v]
    BY <1>2 DEF Agrees
  <2> QED BY <2>1, <2>2 DEF Log
<1>5. RowType
  BY DEF RowType
<1>6. Replayed(k, version[s], state[s]) = Log(k, n)
  BY <1>0, <1>1, <1>3, <1>4, <1>5, ReplayedIs
<1>7. Log(k, n) \in States /\ Len(Log(k, n)) = n
  BY <1>0, <1>1, <1>5, LogType
<1>8. /\ later = {} => version[s] = n
      /\ later # {} => Greatest(later) = n
  <2>1. later = version[s] + 1 .. n
    BY <1>1, <1>3 DEF Later, AfterTheSnapshot, Filled, Versions
  <2>2. ASSUME later # {} PROVE Greatest(later) = n
    <3>1. n \in later /\ later \subseteq Nat /\ \A v \in later : v <= n
      BY <1>3, <2>1, <2>2
    <3> HIDE DEF later
    <3> QED BY <3>1, GreatestIs
  <2>3. ASSUME later = {} PROVE version[s] = n
    <3>1. n \notin version[s] + 1 .. n
      BY <2>1, <2>3
    <3>2. version[s] \in Int /\ n \in Int /\ version[s] <= n
      BY <1>3
    <3> HIDE DEF Good
    <3> QED BY <3>1, <3>2
  <2> HIDE DEF later
  <2> QED BY <2>2, <2>3
<1>9. CASE version[s] = 0 /\ later = {}
  BY <1>0, <1>9 DEF LoadEvents
<1>10. CASE ~ (version[s] = 0 /\ later = {})
  <2>1. /\ Hold(s, IF RestoresId THEN k ELSE NoId, n, Log(k, n))
        /\ pc' = [pc EXCEPT ![s] = "open"] /\ UNCHANGED <<dbVars, home, missed, acked, faults>>
    BY <1>6, <1>8, <1>10 DEF LoadEvents
  <2>2. TypeOK'
    BY <1>0, <1>7, <2>1 DEF Hold
  <2>3. /\ pc'[s] = "open" /\ id'[s] = (IF RestoresId THEN k ELSE NoId) /\ version'[s] = n
        /\ state'[s] = Log(k, n) /\ fresh'[s] = 0 /\ home' = home /\ row' = row
    BY <2>1 DEF Hold
  <2> QED BY <1>0, <1>1, <2>2, <2>3
<1> QED BY <1>9, <1>10

LEMMA LoadsGood ==
  ASSUME Good, NEW s \in Sessions, LoadEvents(s)
  PROVE  TypeOK' /\ Stands(s)' /\ Holds(s)'
<1> DEFINE k == home[s]
<1>0. /\ TypeOK /\ pc[s] = "loading" /\ k \in Ids /\ fresh[s] = 0 /\ Len(state[s]) = version[s]
      /\ id[s] = NoId /\ RowType /\ k \in Keys /\ version[s] \in 0 .. MaxVersion
  BY DEF LoadEvents, Good, Stands, TypeOK, RowType, Keys
<1>1. CASE /\ pc'[s] = "idle" /\ UNCHANGED <<row, home, id, version, state, fresh>> /\ TypeOK'
  BY <1>0, <1>1 DEF Stands, Holds, Attached, Committed
<1>2. ASSUME NEW n \in 0 .. MaxVersion,
             /\ Filled(k, n) /\ pc'[s] = "open" /\ UNCHANGED <<row, home>> /\ TypeOK'
             /\ id'[s] = (IF RestoresId THEN k ELSE NoId)
             /\ version'[s] = n /\ fresh'[s] = 0 /\ state'[s] = Log(k, n)
      PROVE  TypeOK' /\ Stands(s)' /\ Holds(s)'
  <2>1. Log(k, n) \in States /\ Len(Log(k, n)) = n
    BY <1>0, <1>2, LogType
  <2>2. Stands(s)'
    BY <1>0, <1>2, <2>1 DEF Stands, Committed
  <2>3. Agrees(k, n, Log(k, n))
    BY <1>2, <2>1 DEF Agrees, Log, Filled, Versions
  <2> QED BY <1>2, <2>2, <2>3 DEF Holds, Attached, Committed, Agrees, Exists
<1> QED BY <1>1, <1>2, LoadedIs

LEMMA RaiseGood ==
  ASSUME Good, NEW s \in Sessions, Raise(s)
  PROVE  TypeOK' /\ Stands(s)' /\ Holds(s)'
<1> USE DEF Good, TypeOK
<1>0. /\ pc[s] = "open" /\ version[s] < MaxVersion /\ Len(state[s]) = version[s]
      /\ fresh[s] <= version[s] /\ home[s] \in Ids /\ version[s] \in Nat
  BY DEF Raise, Stands
<1>1. /\ Append(state[s], s) \in States /\ Len(Append(state[s], s)) = version[s] + 1
      /\ \A v \in 1 .. version[s] : Append(state[s], s)[v] = state[s][v]
      /\ Append(state[s], s)[version[s] + 1] = s
  BY <1>0, AppendState
<1>2. /\ pc' = pc /\ home' = home /\ id' = id /\ row' = row
      /\ version'[s] = version[s] + 1 /\ fresh'[s] = fresh[s] + 1
      /\ state'[s] = Append(state[s], s)
  BY DEF Raise, dbVars
<1>3. TypeOK'
  BY <1>0, <1>1 DEF Raise, dbVars
<1>4. Committed(s)' = Committed(s) /\ Committed(s) \in 0 .. version[s]
  BY <1>0, <1>2 DEF Committed
<1>5. Stands(s)'
  <2>1. ASSUME NEW v \in Committed(s) + 1 .. version[s] + 1 PROVE Append(state[s], s)[v] = s
    <3>1. \/ v \in 1 .. version[s] /\ v \in Committed(s) + 1 .. version[s]
         \/ v = version[s] + 1
      <4> HIDE DEF Good
      <4> QED BY <1>0, <1>4
    <3>2. v \in Committed(s) + 1 .. version[s] => state[s][v] = s
      BY <1>0 DEF Stands
    <3> QED BY <1>1, <3>1, <3>2
  <2>2. fresh'[s] <= version'[s]
    BY <1>0, <1>2
  <2>3. Stands(s)
    OBVIOUS
  <2> QED BY <1>0, <1>1, <1>2, <1>4, <2>1, <2>2, <2>3 DEF Stands
<1>6. Holds(s)'
  BY <1>0, <1>1, <1>2, <1>4 DEF Holds, Attached, Agrees, Exists
<1> QED BY <1>3, <1>5, <1>6

(* After it all the session holds is the log.                                *)
LEMMA SavedIsLog ==
  ASSUME Good, NEW s \in Sessions, pc[s] = "open", fresh[s] > 0, ~ Conflicts(s), Inserted(s),
         id[s] # NoId, NEW v \in 1 .. version[s]
  PROVE  row'[home[s]][v] # NoRow /\ state[s][v] = row'[home[s]][v]
<1>1. /\ TypeOK /\ Stands(s) /\ Holds(s)
      /\ id[s] = home[s] /\ home[s] \in Ids /\ home[s] \in Keys
      /\ version[s] \in 0 .. MaxVersion /\ fresh[s] \in 0 .. version[s]
  BY DEF Good, Stands, TypeOK, Keys
<1>2. v \in Versions
  BY <1>1 DEF Versions
<1>3. /\ row'[home[s]][v] = IF v \in Batch(s) THEN s ELSE row[home[s]][v]
      /\ Exists(home[s], v) => row'[home[s]][v] = row[home[s]][v]
  BY <1>1, <1>2, InsertIs
<1>4. CASE v <= Committed(s)
  <2>1. v \in 1 .. Committed(s)
    BY <1>1, <1>4 DEF Committed
  <2>2. Exists(home[s], v) /\ state[s][v] = row[home[s]][v]
    BY <1>1, <2>1 DEF Holds, Attached, Agrees
  <2> QED BY <1>3, <2>2 DEF Exists
<1>5. CASE ~ (v <= Committed(s))
  <2>1. v \in Batch(s) /\ v \in Committed(s) + 1 .. version[s]
    BY <1>1, <1>2, <1>5 DEF Committed, Batch
  <2>2. state[s][v] = s
    BY <1>1, <2>1 DEF Stands
  <2> QED BY <1>3, <2>1, <2>2
<1> QED BY <1>4, <1>5

LEMMA SavesGood ==
  ASSUME Good, NEW s \in Sessions, SaveEvents(s) \/ SaveLost(s)
  PROVE  TypeOK' /\ Stands(s)' /\ Holds(s)'
<1>1. pc[s] = "open" /\ fresh[s] > 0 /\ ~ Conflicts(s) /\ Inserted(s)
  BY DEF SaveEvents, SaveLost
<1>2. /\ RowType'
      /\ \A k \in Keys, v \in Versions :
           row'[k][v] = IF k = id[s] /\ v \in Batch(s) THEN s ELSE row[k][v]
      /\ \A k \in Keys, v \in Versions : Exists(k, v) => row'[k][v] = row[k][v]
      /\ id[s] \in Ids => id[s] = home[s]
  BY <1>1, InsertIs
<1>3. /\ TypeOK /\ Stands(s) /\ Holds(s)
      /\ home[s] \in Ids /\ id[s] \in {NoId, home[s]} /\ Len(state[s]) = version[s]
      /\ version[s] \in 0 .. MaxVersion /\ fresh[s] \in 0 .. version[s]
  BY <1>1 DEF Good, Stands, TypeOK
<1>4. TypeOK'
  <2>1. acked \cup Acknowledged(s) \subseteq Keys \X Versions \X Sessions
    BY <1>3 DEF TypeOK, Acknowledged, Batch, Keys
  <2>2. missed' \in [Keys -> BOOLEAN]
    BY <1>3 DEF SaveEvents, SaveLost, TypeOK
  <2>3. CASE SaveEvents(s)
    <3>1. /\ pc' \in [Sessions -> {"idle", "loading", "open", "snapshot"}]
          /\ fresh' \in [Sessions -> 0 .. MaxVersion]
      <4>1. \/ pc' = [pc EXCEPT ![s] = "snapshot"] /\ fresh' = fresh
            \/ fresh' = [fresh EXCEPT ![s] = 0] /\ pc' = pc
        BY <2>3 DEF SaveEvents
      <4>2. /\ pc \in [Sessions -> {"idle", "loading", "open", "snapshot"}]
            /\ fresh \in [Sessions -> 0 .. MaxVersion] /\ 0 \in 0 .. MaxVersion
        BY <1>3 DEF TypeOK
      <4> QED BY <4>1, <4>2
    <3>2. acked' \subseteq Keys \X Versions \X Sessions
      BY <1>3, <2>1, <2>3 DEF SaveEvents, TypeOK
    <3> QED BY <1>2, <1>3, <2>2, <2>3, <3>1, <3>2 DEF SaveEvents, TypeOK, RowType
  <2>4. CASE SaveLost(s)
    <3>1. faults' \in 0 .. MaxFaults
      BY <1>3, <2>4, FaultsAssumption DEF SaveLost, MayFail, TypeOK
    <3> QED BY <1>2, <1>3, <2>2, <2>4, <3>1 DEF SaveLost, TypeOK, RowType, aggVars
  <2> QED BY <2>3, <2>4
<1>5. /\ UNCHANGED <<home, id, version, state>>
      /\ \/ pc'[s] = "open" /\ fresh'[s] = fresh[s]
         \/ pc'[s] = "open" /\ fresh'[s] = 0
         \/ pc'[s] = "snapshot" /\ fresh'[s] = fresh[s]
  BY <1>1, <1>3 DEF SaveEvents, SaveLost, TypeOK, aggVars
<1>6. Stands(s)'
  <2>1. fresh'[s] <= version[s] /\ (fresh'[s] = fresh[s] \/ fresh'[s] = 0)
    BY <1>3, <1>5
  <2>2. ASSUME NEW v \in version[s] - fresh'[s] + 1 .. version[s] PROVE state[s][v] = s
    BY <1>1, <1>3, <2>1, <2>2 DEF Stands, Committed
  <2> QED BY <1>1, <1>3, <1>5, <2>1, <2>2 DEF Stands, Committed
<1>7. id[s] # NoId =>
        /\ \A v \in 1 .. version[s] : row'[home[s]][v] # NoRow /\ state[s][v] = row'[home[s]][v]
        /\ Len(state[s]) >= version[s]
  BY <1>1, <1>3, SavedIsLog
<1>8. Holds(s)'
  <2>1. Committed(s)' \in 0 .. version[s]
    BY <1>3, <1>5 DEF Committed
  <2> QED BY <1>3, <1>5, <1>7, <2>1 DEF Holds, Attached, Agrees, Exists
<1> QED BY <1>4, <1>6, <1>8

LEMMA SnapshotsGood ==
  ASSUME Good, NEW s \in Sessions, SaveSnapshot(s)
  PROVE  TypeOK' /\ Stands(s)' /\ Holds(s)' /\ SnapsAgree'
<1>1. /\ TypeOK /\ Stands(s) /\ Holds(s) /\ pc[s] = "snapshot"
      /\ home[s] \in Ids /\ id[s] \in {NoId, home[s]} /\ Len(state[s]) = version[s]
      /\ version[s] \in 0 .. MaxVersion /\ fresh[s] \in 0 .. version[s]
  BY DEF Good, Stands, TypeOK, SaveSnapshot
<1> DEFINE taken == [version |-> version[s], state |-> state[s]]
<1>2. taken \in Snapshot
  BY <1>1 DEF TypeOK, Snapshot
<1>3. snap' = snap \/ snap' = [snap EXCEPT ![id[s]] = taken]
  BY DEF SaveSnapshot
<1>4. TypeOK'
  <2>1. acked \cup Acknowledged(s) \subseteq Keys \X Versions \X Sessions
    BY <1>1 DEF TypeOK, Acknowledged, Batch, Keys
  <2>2. missed' \in [Keys -> BOOLEAN]
    BY <1>1 DEF SaveSnapshot, TypeOK
  <2>3. faults' \in 0 .. MaxFaults
    BY <1>1, FaultsAssumption DEF SaveSnapshot, MayFail, TypeOK
  <2>4. snap' \in [Keys -> Snapshot]
    <3> HIDE DEF taken
    <3> QED BY <1>1, <1>2, <1>3 DEF TypeOK
  <2>5. fresh' \in [Sessions -> 0 .. MaxVersion]
    BY <1>1 DEF SaveSnapshot, TypeOK
  <2> QED BY <1>1, <2>1, <2>2, <2>3, <2>4, <2>5 DEF SaveSnapshot, TypeOK
<1>5. UNCHANGED <<row, home, id, version, state>> /\ pc'[s] = "open" /\ fresh'[s] = 0
  BY <1>1 DEF SaveSnapshot, TypeOK
<1>6. Stands(s)'
  <2>1. \A v \in version[s] - 0 + 1 .. version[s] : FALSE
    BY <1>1
  <2> QED BY <1>1, <1>5, <2>1 DEF Stands, Committed
<1>7. id[s] # NoId => Agrees(home[s], version[s], state[s])
  BY <1>1 DEF Holds, Attached
<1>8. Holds(s)'
  BY <1>1, <1>5, <1>7 DEF Holds, Attached, Agrees, Exists, Committed
<1>9. ASSUME NEW i \in Ids
      PROVE  Len(snap'[i].state) = snap'[i].version /\ Agrees(i, snap'[i].version, snap'[i].state)
  <2>1. CASE snap'[i] = snap[i]
    BY <2>1 DEF Good, SnapsAgree
  <2>2. CASE snap'[i] = taken /\ i = id[s]
    BY <1>1, <1>7, <2>2
  <2> QED BY <1>1, <1>3, <2>1, <2>2 DEF TypeOK, Keys
<1>10. SnapsAgree'
  BY <1>5, <1>9 DEF SnapsAgree, Agrees, Exists
<1> QED BY <1>4, <1>6, <1>8, <1>10

LEMMA EndsGood ==
  ASSUME Good, NEW s \in Sessions, LetGo(s) \/ Crash(s) \/ LoadFails(s)
  PROVE  TypeOK' /\ Stands(s)' /\ Holds(s)'
<1>1. /\ TypeOK /\ Stands(s) /\ fresh[s] <= version[s]
      /\ <<>> \in States /\ 0 \in 0 .. MaxVersion
  BY EmptyState DEF Good, Stands
<1>2. faults' \in 0 .. MaxFaults
  BY <1>1, FaultsAssumption DEF LetGo, Crash, LoadFails, MayFail, TypeOK
<1>3. missed' \in [Keys -> BOOLEAN]
  BY <1>1 DEF LetGo, Crash, LoadFails, TypeOK
<1>4. TypeOK'
  <2>1. CASE LetGo(s) \/ Crash(s)
    <3>1. /\ Hold(s, NoId, 0, <<>>) /\ home' = [home EXCEPT ![s] = NoId]
          /\ pc' = [pc EXCEPT ![s] = "idle"] /\ UNCHANGED <<dbVars, acked>>
      BY <2>1 DEF LetGo, Crash
    <3> QED BY <1>1, <1>2, <1>3, <3>1 DEF Hold, TypeOK, dbVars, Keys
  <2>2. CASE LoadFails(s)
    BY <1>1, <1>2, <1>3, <2>2 DEF LoadFails, TypeOK, dbVars, aggVars
  <2> QED BY <2>1, <2>2
<1>5. /\ pc'[s] = "idle" /\ id'[s] = NoId /\ fresh'[s] <= version'[s]
  <2>1. CASE LetGo(s) \/ Crash(s)
    BY <1>1, <2>1 DEF LetGo, Crash, Hold, TypeOK
  <2>2. CASE LoadFails(s)
    BY <1>1, <2>2 DEF LoadFails, TypeOK, aggVars, Stands
  <2> QED BY <2>1, <2>2
<1> QED BY <1>4, <1>5 DEF Stands, Holds, Attached

LEMMA RowGrows ==
  ASSUME Good, NEW s \in Sessions, Session(s), NEW k \in Keys, NEW v \in Versions, Exists(k, v)
  PROVE  row'[k][v] = row[k][v]
<1>1. CASE SaveEvents(s) \/ SaveLost(s)
  <2>1. pc[s] = "open" /\ fresh[s] > 0 /\ ~ Conflicts(s) /\ Inserted(s)
    BY <1>1 DEF SaveEvents, SaveLost
  <2> QED BY <2>1, InsertIs
<1>2. CASE ~ (SaveEvents(s) \/ SaveLost(s))
  <2>1. row' = row
    BY <1>2 DEF Session, Create, LoadSnapshot, LoadEvents, LoadFails, Raise, SaveSnapshot, LetGo, Crash,
                dbVars
  <2> QED BY <2>1
<1> QED BY <1>1, <1>2

LEMMA LoggedStep ==
  ASSUME Good, NEW s \in Sessions, Session(s)
  PROVE  Logged'
<1> SUFFICES ASSUME NEW i \in Ids PROVE \E n \in 0 .. MaxVersion : Filled(i, n)'
  BY DEF Logged
<1>1. PICK n \in 0 .. MaxVersion : Filled(i, n)
  BY DEF Good, Logged
<1>2. CASE SaveEvents(s) \/ SaveLost(s)
  <2>1. pc[s] = "open" /\ fresh[s] > 0 /\ ~ Conflicts(s) /\ Inserted(s)
    BY <1>2 DEF SaveEvents, SaveLost
  <2>2. CASE id[s] = i
    <3>1. version[s] \in 0 .. MaxVersion
      BY DEF Good, TypeOK
    <3>2. \A v \in Versions : row'[i][v] # NoRow <=> v <= version[s]
      BY <2>1, <2>2, InsertIs
    <3> QED BY <3>1, <3>2 DEF Filled, Exists
  <2>3. CASE id[s] # i
    <3>1. \A v \in Versions : row'[i][v] = row[i][v]
      BY <2>1, <2>3, InsertIs DEF Keys
    <3> QED BY <1>1, <3>1 DEF Filled, Exists
  <2> QED BY <2>2, <2>3
<1>3. CASE ~ (SaveEvents(s) \/ SaveLost(s))
  <2>1. row' = row
    BY <1>3 DEF Session, Create, LoadSnapshot, LoadEvents, LoadFails, Raise, SaveSnapshot, LetGo, Crash,
                dbVars
  <2> QED BY <1>1, <2>1 DEF Filled, Exists
<1> QED BY <1>2, <1>3

LEMMA GoodStep ==
  ASSUME Good, [Next]_vars
  PROVE  Good'
<1>1. ASSUME NEW s \in Sessions, Session(s) PROVE Good'
  <2>0. TypeOK /\ Ids \subseteq Keys
    BY DEF Good, Keys
  <2>1. TypeOK' /\ Stands(s)' /\ Holds(s)'
    BY <1>1, OpensGood, LoadsGood, RaiseGood, SavesGood, SnapshotsGood, EndsGood DEF Session
  <2>2. Logged'
    BY <1>1, LoggedStep
  <2>3. \A k \in Keys, v \in Versions : Exists(k, v) => row'[k][v] = row[k][v]
    BY <1>1, RowGrows
  <2>4. SnapsAgree'
    <3>1. CASE SaveSnapshot(s)
      BY <3>1, SnapshotsGood
    <3>2. CASE ~ SaveSnapshot(s)
      <4>1. snap' = snap
        BY <1>1, <3>2 DEF Session, Create, LoadSnapshot, LoadEvents, LoadFails, Raise, SaveEvents,
                          SaveLost, LetGo, Crash, dbVars
      <4>2. ASSUME NEW i \in Ids
            PROVE  Len(snap[i].state) = snap[i].version /\ Agrees(i, snap[i].version, snap[i].state)'
        <5>1. Len(snap[i].state) = snap[i].version /\ Agrees(i, snap[i].version, snap[i].state)
          BY DEF Good, SnapsAgree
        <5>2. snap[i].version \in 0 .. MaxVersion
          BY <2>0 DEF TypeOK, Snapshot
        <5>3. \A v \in 1 .. snap[i].version : v \in Versions
          BY <5>2 DEF Versions
        <5> QED BY <2>0, <2>3, <4>1, <5>1, <5>3 DEF Agrees, Exists
      <4> QED BY <4>1, <4>2 DEF SnapsAgree
    <3> QED BY <3>1, <3>2
  <2>5. ASSUME NEW t \in Sessions, t # s PROVE Stands(t)' /\ Holds(t)'
    <3>1. /\ pc'[t] = pc[t] /\ home'[t] = home[t] /\ id'[t] = id[t]
          /\ version'[t] = version[t] /\ state'[t] = state[t] /\ fresh'[t] = fresh[t]
      BY <1>1, <2>0, <2>5, SessionFrame
    <3>2. Stands(t) /\ Holds(t) /\ version[t] \in 0 .. MaxVersion /\ fresh[t] \in 0 .. MaxVersion
      BY DEF Good, TypeOK
    <3>3. Stands(t)'
      BY <3>1, <3>2 DEF Stands, Committed
    <3>4. ASSUME NEW n \in Int, n <= version[t], home[t] \in Ids, Agrees(home[t], n, state[t])
          PROVE  Agrees(home[t], n, state[t])'
      <4>1. \A v \in 1 .. n : v \in Versions
        BY <3>2, <3>4 DEF Versions
      <4> QED BY <2>0, <2>3, <3>1, <3>4, <4>1 DEF Agrees, Exists
    <3>5. Committed(t)' = Committed(t) /\ Committed(t) \in Int /\ Committed(t) <= version[t]
      BY <3>1, <3>2 DEF Committed
    <3>6. Holds(t)'
      <4>1. Attached(t)' <=> Attached(t)
        BY <3>1 DEF Attached
      <4>2. Attached(t) => home[t] \in Ids
        BY <3>2 DEF Attached, Stands
      <4>3. Attached(t) => Agrees(home[t], Committed(t), state[t])'
        BY <3>2, <3>4, <3>5, <4>2 DEF Holds
      <4>4. Attached(t) /\ pc[t] = "snapshot" => Agrees(home[t], version[t], state[t])'
        BY <3>1, <3>2, <3>4, <4>2 DEF Holds
      <4> QED BY <3>1, <3>5, <4>1, <4>3, <4>4 DEF Holds
    <3> QED BY <3>3, <3>6
  <2> QED BY <2>1, <2>2, <2>4, <2>5 DEF Good
<1>2. CASE UNCHANGED vars
  <2>1. UNCHANGED <<row, snap, pc, home, id, version, state, fresh, missed, acked, faults>>
    BY <1>2 DEF vars, dbVars, aggVars
  <2>2. TypeOK'
    BY <2>1 DEF Good, TypeOK
  <2>3. Logged'
    BY <2>1 DEF Good, Logged, Filled, Exists
  <2>4. SnapsAgree'
    BY <2>1 DEF Good, SnapsAgree, Agrees, Exists
  <2>5. ASSUME NEW s \in Sessions PROVE Stands(s)' /\ Holds(s)'
    <3>1. Stands(s) /\ Holds(s)
      BY DEF Good
    <3> QED BY <2>1, <3>1 DEF Stands, Holds, Attached, Committed, Agrees, Exists
  <2> QED BY <2>2, <2>3, <2>4, <2>5 DEF Good
<1> QED BY <1>1, <1>2 DEF Next

-----------------------------------------------------------------------------
(* Snapshots are taken when they are due.                                    *)

LEMMA DueStep ==
  ASSUME Good, DueLeft, [Next]_vars
  PROVE  DueLeft'
<1> SUFFICES ASSUME NEW i \in Ids, ~ missed'[i],
                    NEW v \in Versions, row'[i][v] # NoRow, v % SnapshotEvery = 0
             PROVE  \/ v <= snap'[i].version
                    \/ \E t \in Sessions : id'[t] = i /\ pc'[t] = "snapshot" /\ v <= version'[t]
  BY DEF DueLeft, Exists
<1> DEFINE Being(t) == id[t] = i /\ pc[t] = "snapshot" /\ v <= version[t]
<1>1. TypeOK /\ i \in Keys /\ i # NoId
  BY DEF Good, Keys
<1>2. ASSUME ~ missed[i], Exists(i, v)
      PROVE  v <= snap[i].version \/ \E t \in Sessions : Being(t)
  BY <1>2 DEF DueLeft
<1>3. ASSUME NEW s \in Sessions, Session(s), NEW t \in Sessions, t # s, Being(t)
      PROVE  id'[t] = i /\ pc'[t] = "snapshot" /\ v <= version'[t]
  BY <1>1, <1>3, SessionFrame
<1>4. ASSUME NEW s \in Sessions, Session(s), SaveEvents(s) \/ SaveLost(s)
      PROVE  \/ v <= snap'[i].version
             \/ \E t \in Sessions : id'[t] = i /\ pc'[t] = "snapshot" /\ v <= version'[t]
  <2>1. pc[s] = "open" /\ fresh[s] > 0 /\ ~ Conflicts(s) /\ Inserted(s)
    BY <1>4 DEF SaveEvents, SaveLost
  <2>2. row'[i][v] = IF i = id[s] /\ v \in Batch(s) THEN s ELSE row[i][v]
    BY <1>1, <2>1, InsertIs
  <2>3. ~ missed[i] /\ (id[s] = i => ~ StepsOver(s)) /\ snap' = snap
    BY <1>1, <1>4 DEF SaveEvents, SaveLost, TypeOK
  <2>4. CASE id[s] = i /\ v \in Batch(s)
    <3>1. version[s] % SnapshotEvery = 0 /\ v <= version[s]
      BY <2>3, <2>4 DEF StepsOver, Batch
    <3>2. ~ SaveLost(s)
      BY <1>1, <2>4, <3>1 DEF SaveLost, TypeOK
    <3>3. id'[s] = i /\ pc'[s] = "snapshot" /\ version'[s] = version[s]
      BY <1>1, <1>4, <2>4, <3>1, <3>2 DEF SaveEvents, Due, TypeOK
    <3> QED BY <3>1, <3>3
  <2>5. CASE ~ (id[s] = i /\ v \in Batch(s))
    <3>1. Exists(i, v)
      BY <2>2, <2>5 DEF Exists
    <3>2. CASE v <= snap[i].version
      BY <2>3, <3>2
    <3>3. CASE \E t \in Sessions : Being(t)
      <4>1. PICK t \in Sessions : Being(t)
        BY <3>3
      <4>2. t # s
        BY <2>1, <4>1
      <4> QED BY <1>3, <1>4, <4>1, <4>2
    <3> QED BY <1>2, <2>3, <3>1, <3>2, <3>3
  <2> QED BY <2>4, <2>5
<1>5. ASSUME NEW s \in Sessions, Session(s), SaveSnapshot(s)
      PROVE  \/ v <= snap'[i].version
             \/ \E t \in Sessions : id'[t] = i /\ pc'[t] = "snapshot" /\ v <= version'[t]
  <2>1. Exists(i, v) /\ id[s] \in Keys
    BY <1>1, <1>5 DEF SaveSnapshot, Exists, TypeOK
  <2>2. CASE id[s] # i
    <3>1. snap'[i] = snap[i] /\ ~ missed[i]
      BY <1>1, <1>5, <2>1, <2>2 DEF SaveSnapshot, TypeOK
    <3>2. CASE v <= snap[i].version
      BY <3>1, <3>2
    <3>3. CASE \E t \in Sessions : Being(t)
      <4>1. PICK t \in Sessions : Being(t)
        BY <3>3
      <4>2. t # s
        BY <2>2, <4>1
      <4> QED BY <1>3, <1>5, <4>1, <4>2
    <3> QED BY <1>2, <2>1, <3>1, <3>2, <3>3
  <2>3. CASE id[s] = i
    <3>1. /\ snap'[i].version = version[s]
          /\ ~ (version[s] < LastDue(i) /\ (missed[i] \/ snap[i].version > version[s]))
      <4>1. CASE /\ snap' = [snap EXCEPT ![id[s]] = [version |-> version[s], state |-> state[s]]]
                 /\ missed' = [missed EXCEPT ![id[s]] =
                        version[s] < LastDue(id[s]) /\ (@ \/ snap[id[s]].version > version[s])]
        <5>1. snap'[i].version = version[s]
          BY <1>1, <2>3, <4>1 DEF TypeOK
        <5>2. missed'[i] = (version[s] < LastDue(i) /\ (missed[i] \/ snap[i].version > version[s]))
          BY <1>1, <2>3, <4>1 DEF TypeOK
        <5> QED BY <5>1, <5>2
      <4>2. CASE missed' = [missed EXCEPT ![id[s]] = TRUE]
        BY <1>1, <2>3, <4>2 DEF TypeOK
      <4> QED BY <1>5, <4>1, <4>2 DEF SaveSnapshot
    <3>0. version[s] \in 0 .. MaxVersion /\ snap[i].version \in 0 .. MaxVersion
      BY <1>1 DEF TypeOK, Snapshot
    <3>2. CASE ~ (version[s] < LastDue(i))
      <4>1. PICK n \in 0 .. MaxVersion : Filled(i, n)
        BY DEF Good, Logged
      <4>2. Length(i) = n
        BY <1>1, <4>1, LengthIs
      <4>3. v \in 0 .. n
        BY <2>1, <4>1 DEF Filled, Versions
      <4>4. v <= n - (n % SnapshotEvery) /\ n - (n % SnapshotEvery) \in Nat
        <5>1. n \in Nat /\ SnapshotEvery \in Nat \ {0}
          OBVIOUS
        <5>2. /\ n - (n % SnapshotEvery) \in 0 .. n
              /\ \A u \in 0 .. n : u % SnapshotEvery = 0 => u <= n - (n % SnapshotEvery)
          BY <5>1, LastMultiple
        <5> QED BY <4>3, <5>2
      <4>5. LastDue(i) = n - (n % SnapshotEvery)
        BY <4>2 DEF LastDue
      <4> QED BY <3>0, <3>1, <3>2, <4>3, <4>4, <4>5
    <3>3. CASE ~ missed[i] /\ ~ (snap[i].version > version[s])
      <4>1. CASE v <= snap[i].version
        BY <3>0, <3>1, <3>3, <4>1 DEF Versions
      <4>2. CASE \E t \in Sessions : Being(t)
        <5>1. PICK t \in Sessions : Being(t)
          BY <4>2
        <5>2. CASE t = s
          BY <3>1, <5>1, <5>2
        <5>3. CASE t # s
          BY <1>3, <1>5, <5>1, <5>3
        <5> QED BY <5>2, <5>3
      <4> QED BY <1>2, <2>1, <3>3, <4>1, <4>2
    <3> QED BY <3>1, <3>2, <3>3
  <2> QED BY <2>2, <2>3
<1>6. ASSUME NEW s \in Sessions, Session(s), ~ (SaveEvents(s) \/ SaveLost(s) \/ SaveSnapshot(s))
      PROVE  \/ v <= snap'[i].version
             \/ \E t \in Sessions : id'[t] = i /\ pc'[t] = "snapshot" /\ v <= version'[t]
  <2>1. /\ row' = row /\ snap' = snap /\ ~ missed[i]
        /\ pc[s] = "snapshot" => id[s] # i
    <3>1. CASE Crash(s)
      BY <1>1, <3>1 DEF Crash, dbVars, TypeOK
    <3>2. CASE ~ Crash(s)
      BY <1>6, <3>2 DEF Session, Create, LoadSnapshot, LoadEvents, LoadFails, Raise, LetGo, dbVars
    <3> QED BY <3>1, <3>2
  <2>2. CASE v <= snap[i].version
    BY <2>1, <2>2
  <2>3. CASE \E t \in Sessions : Being(t)
    <3>1. PICK t \in Sessions : Being(t)
      BY <2>3
    <3>2. t # s
      BY <2>1, <3>1
    <3> QED BY <1>3, <1>6, <3>1, <3>2
  <2> QED BY <1>2, <2>1, <2>2, <2>3 DEF Exists
<1>7. CASE UNCHANGED vars
  BY <1>2, <1>7 DEF vars, dbVars, aggVars, Exists
<1> QED BY <1>4, <1>5, <1>6, <1>7 DEF Next

-----------------------------------------------------------------------------
(* Theorems.                                                                 *)

LEMMA Always == Spec => [](Good /\ DueLeft)
BY GoodInit, GoodStep, DueStep, PTL DEF Spec

(* TypeOK.                                                                   *)
THEOREM TypeCorrect == Spec => []TypeOK
<1>1. Good /\ DueLeft => TypeOK
  BY DEF Good
<1> QED BY <1>1, Always, PTL

LEMMA AgreesBuilds ==
  ASSUME Good, NEW i \in Ids, NEW n \in 0 .. MaxVersion, NEW st, Agrees(i, n, st)
  PROVE  Builds(i, n, st)
<1>1. PICK m \in 0 .. MaxVersion : Filled(i, m)
  BY DEF Good, Logged
<1>2. Length(i) = m
  BY <1>1, LengthIs DEF Keys
<1>3. CASE n = 0
  BY <1>2, <1>3 DEF Agrees, Builds
<1>4. CASE n # 0
  <2>1. n \in 1 .. n /\ n \in Versions
    BY <1>4 DEF Versions
  <2>2. n <= m
    BY <1>1, <2>1 DEF Agrees, Filled
  <2> QED BY <1>2, <2>2 DEF Agrees, Builds
<1> QED BY <1>3, <1>4

LEMMA NoGapsEver ==
  ASSUME Good, NEW i \in Ids
  PROVE  NoGaps(i)
<1>1. PICK m \in 0 .. MaxVersion : Filled(i, m)
  BY DEF Good, Logged
<1>2. Length(i) = m
  BY <1>1, LengthIs DEF Keys
<1> QED BY <1>1, <1>2 DEF NoGaps, Filled, Versions

(* What ReplayAgrees says of the two tables, without the sessions: no gap in *)
(* the log of an aggregate, and its snapshot is what the log builds.         *)
StoresAgree ==
  \A i \in Ids : /\ NoGaps(i)
                /\ Builds(i, snap[i].version, snap[i].state)
                /\ Len(snap[i].state) = snap[i].version

LEMMA GoodStores == Good => StoresAgree
<1> SUFFICES ASSUME Good, NEW i \in Ids
             PROVE  /\ NoGaps(i) /\ Builds(i, snap[i].version, snap[i].state)
                    /\ Len(snap[i].state) = snap[i].version
  BY DEF StoresAgree
<1>1. snap[i].version \in 0 .. MaxVersion
  BY DEF Good, TypeOK, Keys, Snapshot
<1> QED BY <1>1, AgreesBuilds, NoGapsEver DEF Good, SnapsAgree

(* The first half of ReplayAgrees, whatever an aggregate does with its id:   *)
(* the unique index keeps the log without a gap, and every row of snapshots, *)
(* also one that an older writer put back, is what the log builds up to its  *)
(* version.                                                                  *)
THEOREM StoresAgreeCorrect == Spec => []StoresAgree
<1>1. Good /\ DueLeft => StoresAgree
  BY GoodStores
<1> QED BY <1>1, Always, PTL

(* ReplayAgrees: if the aggregate puts its id back, which Load does not do   *)
(* for it, then whatever sessions load, raise and save, what any of them has *)
(* in memory is what replaying the log to its committed version builds.      *)
THEOREM ReplayAgreesCorrect ==
  ASSUME RestoresId
  PROVE  Spec => []ReplayAgrees
<1>1. Good => ReplayAgrees
  <2> SUFFICES ASSUME Good PROVE ReplayAgrees
    OBVIOUS
  <2>1. StoresAgree
    BY GoodStores
  <2>2. ASSUME NEW s \in Sessions, pc[s] # "idle"
        PROVE  Builds(home[s], version[s] - fresh[s], state[s]) /\ Len(state[s]) = version[s]
    <3>1. /\ home[s] \in Ids /\ Len(state[s]) = version[s] /\ fresh[s] <= version[s]
          /\ RestoresId /\ pc[s] \in {"open", "snapshot"} => id[s] # NoId
          /\ Holds(s)
      BY <2>2 DEF Good, Stands
    <3>2. pc[s] \in {"idle", "loading", "open", "snapshot"} /\ Committed(s) \in 0 .. MaxVersion
      BY <3>1 DEF Good, TypeOK, Committed
    <3>3. Agrees(home[s], Committed(s), state[s])
      BY <2>2, <3>1, <3>2 DEF Holds, Attached
    <3> QED BY <3>1, <3>2, <3>3, AgreesBuilds DEF Committed
  <2> QED BY <2>1, <2>2 DEF ReplayAgrees, StoresAgree
<1> QED BY <1>1, Always, PTL

(* ReplayIsShort: as long as no batch stepped over the multiple and no       *)
(* snapshot due was lost or put back, Load replays fewer than SnapshotEvery  *)
(* events.                                                                   *)
THEOREM ReplayIsShortCorrect == Spec => []ReplayIsShort
<1>1. ASSUME Good, DueLeft, NEW i \in Ids, ~ missed[i],
             \A s \in Sessions : id[s] = i => pc[s] # "snapshot"
      PROVE  Length(i) - snap[i].version < SnapshotEvery
  <2>1. PICK n \in 0 .. MaxVersion : Filled(i, n)
    BY <1>1 DEF Good, Logged
  <2>2. Length(i) = n
    BY <2>1, LengthIs DEF Keys
  <2>3. snap[i].version \in 0 .. MaxVersion
    BY <1>1 DEF Good, TypeOK, Keys, Snapshot
  <2> DEFINE due == n - (n % SnapshotEvery)
  <2>4. /\ n \in Nat /\ n % SnapshotEvery \in 0 .. SnapshotEvery - 1
        /\ due \in 0 .. n /\ due % SnapshotEvery = 0
    <3>1. n \in Nat /\ SnapshotEvery \in Nat \ {0}
      OBVIOUS
    <3>2. /\ n % SnapshotEvery \in 0 .. SnapshotEvery - 1 /\ n - (n % SnapshotEvery) \in 0 .. n
          /\ (n - (n % SnapshotEvery)) % SnapshotEvery = 0
      BY <3>1, LastMultiple
    <3> QED BY <3>1, <3>2
  <2>5. due <= snap[i].version
    <3>1. CASE due # 0
      <4>1. due \in Versions /\ Exists(i, due)
        BY <2>1, <2>4, <3>1 DEF Versions, Filled
      <4> QED BY <1>1, <2>4, <4>1 DEF DueLeft
    <3>2. CASE due = 0
      BY <2>3, <3>2
    <3> QED BY <3>1, <3>2
  <2> QED BY <2>2, <2>3, <2>4, <2>5
<1>2. Good /\ DueLeft => ReplayIsShort
  BY <1>1 DEF ReplayIsShort
<1> QED BY <1>2, Always, PTL

-----------------------------------------------------------------------------
(* The repository implements OptimisticLog.                                  *)

LEMMA Joined ==
  ASSUME NEW st \in States, NEW n \in 0 .. Len(st), NEW s \in Sessions,
         \A v \in n + 1 .. Len(st) : st[v] = s
  PROVE  st = [v \in 1 .. n |-> st[v]] \o [v \in 1 .. Len(st) - n |-> s]
<1> DEFINE old == [v \in 1 .. n |-> st[v]]
           new == [v \in 1 .. Len(st) - n |-> s]
<1>1. st \in Seq(Sessions) /\ Len(st) \in Nat /\ Len(st) - n \in Nat /\ n \in Nat
  BY StatesAre
<1>2. old \in Seq(Sessions) /\ Len(old) = n
  <2>1. old \in [1 .. n -> Sessions]
    BY <1>1, StatesAre
  <2> HIDE DEF old
  <2> QED BY <1>1, <2>1, IsASeq, LenProperties
<1>3. new \in Seq(Sessions) /\ Len(new) = Len(st) - n
  <2>1. new \in [1 .. Len(st) - n -> Sessions]
    OBVIOUS
  <2> HIDE DEF new
  <2> QED BY <1>1, <2>1, IsASeq, LenProperties
<1>4. \A v \in 1 .. n : old[v] = st[v]
  OBVIOUS
<1>5. \A v \in 1 .. Len(st) - n : new[v] = s
  OBVIOUS
<1> HIDE DEF old, new
<1>6. /\ old \o new \in Seq(Sessions) /\ Len(old \o new) = Len(st)
      /\ \A v \in 1 .. Len(st) : (old \o new)[v] = IF v <= n THEN old[v] ELSE new[v - n]
  <2>1. Len(old) + Len(new) = Len(st)
    BY <1>1, <1>2, <1>3
  <2> QED BY <1>2, <1>3, <2>1, ConcatProperties
<1>7. ASSUME NEW v \in 1 .. Len(st) PROVE st[v] = (old \o new)[v]
  <2>1. CASE v <= n
    <3>1. v \in 1 .. n
      BY <2>1
    <3> QED BY <1>4, <1>6, <2>1, <3>1
  <2>2. CASE ~ (v <= n)
    <3>1. v - n \in 1 .. Len(st) - n /\ v \in n + 1 .. Len(st)
      BY <1>1, <2>2
    <3> QED BY <1>5, <1>6, <2>2, <3>1
  <2> QED BY <2>1, <2>2
<1>8. st = old \o new
  BY <1>1, <1>6, <1>7, SeqEqual
<1> QED BY <1>8 DEF old, new

(* What a session has from the log before an insert is the log, and after it *)
(* all it holds is.                                                          *)
LEMMA InsertRecords ==
  ASSUME Good, NEW s \in Sessions, pc[s] = "open", fresh[s] > 0, ~ Conflicts(s), Inserted(s),
         NEW i \in Ids, id[s] = i
  PROVE  /\ Recorded(i) = [v \in 1 .. Committed(s) |-> state[s][v]]
         /\ Recorded(i)' = state[s]
         /\ state[s] = Recorded(i) \o [v \in 1 .. fresh[s] |-> s]
<1>1. /\ i = home[s] /\ id[s] # NoId /\ i \in Keys /\ Len(state[s]) = version[s]
      /\ state[s] \in States /\ version[s] \in 0 .. MaxVersion /\ fresh[s] \in 0 .. version[s]
      /\ Committed(s) \in 0 .. MaxVersion /\ Committed(s) \in 0 .. version[s]
      /\ version[s] - Committed(s) = fresh[s]
  BY DEF Good, Stands, TypeOK, Keys, Committed
<1>2. /\ Filled(i, Committed(s))
      /\ \A v \in Versions : row'[i][v] # NoRow <=> v <= version[s]
  BY InsertIs
<1>3. Recorded(i) = [v \in 1 .. Committed(s) |-> state[s][v]]
  <2>1. Length(i) = Committed(s)
    BY <1>1, <1>2, LengthIs
  <2>2. \A v \in 1 .. Committed(s) : state[s][v] = row[i][v]
    BY <1>1 DEF Good, Holds, Attached, Agrees
  <2> QED BY <2>1, <2>2 DEF Recorded
<1>4. Length(i)' = version[s]
  <2> DEFINE S == {v \in Versions : row'[i][v] # NoRow}
  <2>1. S = 1 .. version[s]
    BY <1>1, <1>2 DEF Versions
  <2>2. Length(i)' = IF \E v \in Versions : row'[i][v] # NoRow THEN Greatest(S) ELSE 0
    BY DEF Length, Exists, Greatest
  <2>3. version[s] \in Versions /\ row'[i][version[s]] # NoRow
    BY <1>1, <1>2 DEF Versions
  <2>4. Greatest(S) = version[s]
    <3>1. version[s] \in S /\ S \subseteq Nat /\ \A v \in S : v <= version[s]
      BY <1>1, <2>1, <2>3
    <3> HIDE DEF S
    <3> QED BY <1>1, <3>1, GreatestIs
  <2> HIDE DEF S
  <2> QED BY <2>2, <2>3, <2>4
<1>5. Recorded(i)' = state[s]
  <2>1. state[s] \in [1 .. version[s] -> Sessions]
    BY <1>1, StatesAre
  <2>2. \A v \in 1 .. version[s] : state[s][v] = row'[i][v]
    BY <1>1, SavedIsLog
  <2>3. state[s] = [v \in 1 .. version[s] |-> row'[i][v]]
    BY <2>1, <2>2
  <2> QED BY <1>4, <2>3 DEF Recorded
<1>6. state[s] = Recorded(i) \o [v \in 1 .. fresh[s] |-> s]
  <2>1. \A v \in Committed(s) + 1 .. Len(state[s]) : state[s][v] = s
    BY <1>1 DEF Good, Stands
  <2>2. state[s] = [v \in 1 .. Committed(s) |-> state[s][v]]
                     \o [v \in 1 .. Len(state[s]) - Committed(s) |-> s]
    BY <1>1, <2>1, Joined
  <2> QED BY <1>1, <1>3, <2>2
<1> QED BY <1>3, <1>5, <1>6

LEMMA RecordedStays ==
  ASSUME NEW i \in Ids, row'[i] = row[i]
  PROVE  Recorded(i)' = Recorded(i)
<1>1. Length(i)' = Length(i)
  BY DEF Length, Exists, Greatest
<1> QED BY <1>1 DEF Recorded

(* A step touches one view.                                                  *)
LEMMA ViewsStay ==
  ASSUME TypeOK, NEW s \in Sessions, Session(s)
  PROVE  [t \in Sessions |-> View(t)]' = [[t \in Sessions |-> View(t)] EXCEPT ![s] = View(s)']
<1>1. ASSUME NEW t \in Sessions, t # s PROVE View(t)' = View(t)
  BY <1>1, SessionFrame DEF View, Seen
<1> QED BY <1>1

LEMMA StepStutters ==
  ASSUME Good, NEW s \in Sessions, Session(s), \A i \in Ids : row'[i] = row[i], View(s)' = View(s)
  PROVE  UNCHANGED Promise!logVars
<1>1. [t \in Sessions |-> View(t)]' = [t \in Sessions |-> View(t)]
  BY ViewsStay DEF Good
<1>2. [i \in Ids |-> Recorded(i)]' = [i \in Ids |-> Recorded(i)]
  BY RecordedStays
<1> QED BY <1>1, <1>2 DEF Promise!logVars

LEMMA StepOpens ==
  ASSUME Good, NEW s \in Sessions, Session(s), NEW i \in Ids, row' = row,
         pc[s] \notin {"open", "snapshot"},
         pc'[s] = "open", id'[s] = i, Seen(s)' \in {<<>>, Recorded(i)}
  PROVE  Promise!Open(s, i)
<1>1. View(s) = Promise!NoView
  BY DEF View, Promise!NoView
<1>2. View(s)' = [of |-> i, seen |-> Seen(s)']
  BY IdsAssumption DEF View
<1>3. [t \in Sessions |-> View(t)]' = [[t \in Sessions |-> View(t)] EXCEPT ![s] = [of |-> i, seen |-> Seen(s)']]
  BY <1>2, ViewsStay DEF Good
<1>4. [k \in Ids |-> Recorded(k)]' = [k \in Ids |-> Recorded(k)]
  BY RecordedStays
<1> QED BY <1>1, <1>3, <1>4 DEF Promise!Open

LEMMA StepSaves ==
  ASSUME Good, NEW s \in Sessions, Session(s), SaveEvents(s) \/ SaveLost(s),
         NEW i \in Ids, id[s] = i
  PROVE  Promise!Save(s, i)
<1> DEFINE log == [k \in Ids |-> Recorded(k)]
           view == [t \in Sessions |-> View(t)]
<1>1. /\ pc[s] = "open" /\ fresh[s] > 0 /\ ~ Conflicts(s) /\ Inserted(s)
      /\ UNCHANGED <<home, id, version, state>>
  BY DEF SaveEvents, SaveLost, aggVars
<1>2. /\ fresh[s] \in 1 .. MaxVersion /\ Len(state[s]) = version[s] /\ state[s] \in States /\ id[s] # NoId
      /\ id[s] \in Keys /\ version[s] \in 0 .. MaxVersion
  BY <1>1, IdsAssumption DEF Good, TypeOK, Stands
<1>3. /\ Recorded(i) = [v \in 1 .. Committed(s) |-> state[s][v]]
      /\ Recorded(i)' = state[s]
      /\ state[s] = Recorded(i) \o [v \in 1 .. fresh[s] |-> s]
  BY <1>1, InsertRecords
<1>4. view[s] = [of |-> i, seen |-> log[i]]
  BY <1>1, <1>2, <1>3 DEF View, Seen, Committed
<1>5. log' = [log EXCEPT ![i] = @ \o [v \in 1 .. fresh[s] |-> s]]
  <2>1. ASSUME NEW k \in Ids, k # i PROVE Recorded(k)' = Recorded(k)
    <3>1. row'[k] = row[k]
      BY <1>1, <2>1 DEF Inserted, Good, TypeOK, Keys
    <3> QED BY <3>1, RecordedStays
  <2>2. Recorded(i)' = Recorded(i) \o [v \in 1 .. fresh[s] |-> s]
    BY <1>3
  <2> QED BY <2>1, <2>2
<1>6. View(s)' = [of |-> i, seen |-> log'[i]] \/ View(s)' = View(s)
  <2>1. \/ pc'[s] = "snapshot"
        \/ pc'[s] = "open" /\ fresh'[s] = 0
        \/ pc'[s] = "open" /\ fresh'[s] = fresh[s]
    BY <1>1 DEF SaveEvents, SaveLost, aggVars, Good, TypeOK
  <2>2. state[s] = [v \in 1 .. version[s] |-> state[s][v]]
    BY <1>2, StatesAre
  <2>3. CASE pc'[s] = "snapshot" \/ (pc'[s] = "open" /\ fresh'[s] = 0)
    <3>1. Seen(s)' = state[s]
      BY <1>1, <1>2, <2>2, <2>3 DEF Seen
    <3> QED BY <1>1, <1>2, <1>3, <2>3, <3>1 DEF View
  <2>4. CASE pc'[s] = "open" /\ fresh'[s] = fresh[s]
    BY <1>1, <2>4 DEF View, Seen
  <2> QED BY <2>1, <2>3, <2>4
<1>7. view' = [view EXCEPT ![s] = [of |-> i, seen |-> log'[i]]] \/ view' = view
  <2>1. view' = [view EXCEPT ![s] = View(s)']
    BY ViewsStay DEF Good
  <2> QED BY <1>6, <2>1
<1> HIDE DEF log, view
<1>8. \E n \in 1 .. MaxVersion : log' = [log EXCEPT ![i] = @ \o [v \in 1 .. n |-> s]]
  BY <1>2, <1>5
<1> QED BY <1>4, <1>7, <1>8 DEF Promise!Save, log, view

(* Load: snapshot and events, read at two moments, are the log as it is at   *)
(* the second.                                                               *)
LEMMA LoadIsALook ==
  ASSUME Good, NEW s \in Sessions, LoadEvents(s), pc'[s] = "open", id'[s] # NoId
  PROVE  home[s] \in Ids /\ id'[s] = home[s] /\ Seen(s)' = Recorded(home[s])
<1>1. PICK n \in 0 .. MaxVersion :
        /\ Filled(home[s], n) /\ home[s] \in Ids
        /\ id'[s] = home[s] /\ version'[s] = n /\ fresh'[s] = 0 /\ state'[s] = Log(home[s], n)
  BY LoadedIs
<1>2. Length(home[s]) = n
  BY <1>1, LengthIs DEF Keys
<1>3. Seen(s)' = Log(home[s], n)
  BY <1>1 DEF Seen, Log
<1> QED BY <1>1, <1>2, <1>3 DEF Recorded, Log

LEMMA StepKeepsPromise ==
  ASSUME Good, NEW s \in Sessions, Session(s)
  PROVE  [Promise!LogNext]_(Promise!logVars)
<1>0. /\ TypeOK /\ Stands(s) /\ Holds(s) /\ id[s] \in {NoId} \cup Ids
      /\ version[s] \in 0 .. MaxVersion /\ fresh[s] \in 0 .. version[s]
  BY DEF Good, TypeOK, Stands, Keys
<1>1. ASSUME NEW i \in Ids, Create(s, i) PROVE Promise!Open(s, i)
  <2>1. /\ pc[s] = "idle" /\ row' = row /\ pc'[s] = "open" /\ id'[s] = i
        /\ version'[s] = 0 /\ fresh'[s] = 0 /\ state'[s] = <<>>
    BY <1>0, <1>1 DEF Create, Hold, TypeOK, dbVars, Keys
  <2>2. Seen(s)' = <<>>
    BY <2>1 DEF Seen
  <2> QED BY <2>1, <2>2, StepOpens
<1>2. CASE (\E i \in Ids : LoadSnapshot(s, i)) \/ LoadFails(s)
  <2>1. row' = row /\ pc[s] \in {"idle", "loading"} /\ pc'[s] \in {"idle", "loading"}
    BY <1>0, <1>2 DEF LoadSnapshot, LoadFails, TypeOK, dbVars
  <2>2. View(s)' = View(s)
    BY <2>1 DEF View
  <2> QED BY <2>1, <2>2, StepStutters
<1>3. CASE LoadEvents(s)
  <2>1. row' = row /\ pc[s] = "loading" /\ pc'[s] \in {"idle", "open"}
    BY <1>0, <1>3 DEF LoadEvents, TypeOK, dbVars
  <2>2. CASE pc'[s] = "idle" \/ id'[s] = NoId
    <3>1. View(s)' = View(s)
      BY <2>1, <2>2 DEF View
    <3> QED BY <2>1, <3>1, StepStutters
  <2>3. CASE pc'[s] = "open" /\ id'[s] # NoId
    <3>1. home[s] \in Ids /\ id'[s] = home[s] /\ Seen(s)' = Recorded(home[s])
      BY <1>3, <2>1, <2>3, LoadIsALook
    <3>2. Promise!Open(s, home[s])
      BY <2>1, <2>3, <3>1, StepOpens
    <3> QED BY <3>1, <3>2 DEF Promise!LogNext
  <2> QED BY <2>1, <2>2, <2>3
<1>4. CASE Raise(s)
  <2>1. /\ row' = row /\ pc' = pc /\ id' = id /\ pc[s] = "open"
        /\ version'[s] - fresh'[s] = version[s] - fresh[s] /\ version[s] - fresh[s] \in 0 .. Len(state[s])
        /\ state'[s] = Append(state[s], s) /\ state[s] \in Seq(Sessions)
    <3>1. /\ version'[s] = version[s] + 1 /\ fresh'[s] = fresh[s] + 1 /\ state'[s] = Append(state[s], s)
          /\ row' = row /\ pc' = pc /\ id' = id /\ pc[s] = "open"
      BY <1>0, <1>4 DEF Raise, TypeOK, dbVars
    <3>2. Len(state[s]) = version[s] /\ state[s] \in States
      BY <1>0, <3>1 DEF Stands, TypeOK
    <3>3. state[s] \in Seq(Sessions)
      BY <3>2, StatesAre
    <3>4. version[s] \in Int /\ fresh[s] \in Int /\ version[s] - fresh[s] \in 0 .. version[s]
      BY <1>0
    <3>5. version'[s] - fresh'[s] = version[s] - fresh[s]
      BY <3>1, <3>4
    <3> HIDE DEF Good
    <3> QED BY <3>1, <3>2, <3>3, <3>4, <3>5
  <2>2. \A v \in 1 .. Len(state[s]) : Append(state[s], s)[v] = state[s][v]
    BY <2>1, AppendProperties
  <2>3. Seen(s)' = Seen(s)
    BY <2>1, <2>2 DEF Seen
  <2> QED BY <2>1, <2>3, StepStutters DEF View
<1>5. CASE SaveEvents(s) \/ SaveLost(s)
  <2>1. CASE id[s] \in Ids
    <3>1. Promise!Save(s, id[s])
      BY <1>5, <2>1, StepSaves
    <3> QED BY <2>1, <3>1 DEF Promise!LogNext
  <2>2. CASE id[s] = NoId
    <3>1. id' = id /\ Inserted(s)
      BY <1>5 DEF SaveEvents, SaveLost, aggVars
    <3>2. \A i \in Ids : row'[i] = row[i]
      BY <1>0, <2>2, <3>1, IdsAssumption DEF Inserted, TypeOK, Keys
    <3>3. View(s)' = View(s)
      BY <2>2, <3>1 DEF View
    <3> QED BY <3>2, <3>3, StepStutters
  <2> QED BY <1>0, <2>1, <2>2
<1>6. CASE SaveSnapshot(s)
  <2>1. /\ row' = row /\ pc[s] = "snapshot" /\ pc'[s] = "open" /\ fresh'[s] = 0
        /\ id' = id /\ version' = version /\ state' = state
    BY <1>0, <1>6 DEF SaveSnapshot, TypeOK
  <2>2. Seen(s)' = Seen(s)
    BY <1>0, <2>1 DEF Seen
  <2> QED BY <2>1, <2>2, StepStutters DEF View
<1>7. CASE LetGo(s) \/ Crash(s)
  <2>1. row' = row /\ pc'[s] = "idle"
    BY <1>0, <1>7 DEF LetGo, Crash, TypeOK, dbVars
  <2>2. [k \in Ids |-> Recorded(k)]' = [k \in Ids |-> Recorded(k)]
    BY <2>1, RecordedStays
  <2>3. View(s)' = Promise!NoView
    BY <2>1 DEF View, Promise!NoView
  <2>4. [t \in Sessions |-> View(t)]' = [[t \in Sessions |-> View(t)] EXCEPT ![s] = Promise!NoView]
    BY <1>0, <2>3, ViewsStay
  <2>5. Promise!Close(s)
    BY <2>2, <2>4 DEF Promise!Close
  <2> QED BY <2>5 DEF Promise!LogNext
<1> QED BY <1>1, <1>2, <1>3, <1>4, <1>5, <1>6, <1>7 DEF Session, Promise!LogNext

(* KeepsPromise: the repository implements OptimisticLog, whether or not the *)
(* application restores the id, and with every fault: logs only grow, a Load *)
(* is one look at a log, and what a Save adds it adds to the log its session *)
(* saw, once.                                                                *)
THEOREM RepositoryKeepsPromise == Spec => KeepsPromise
<1>1. Init => Promise!LogInit
  <2> SUFFICES ASSUME Init PROVE Promise!LogInit
    OBVIOUS
  <2>1. ASSUME NEW i \in Ids PROVE Recorded(i) = <<>>
    <3>1. \A v \in Versions : ~ Exists(i, v)
      BY DEF Init, Exists, Keys
    <3>2. Length(i) = 0
      BY <3>1 DEF Length
    <3> QED BY <3>2 DEF Recorded
  <2>2. \A s \in Sessions : View(s) = Promise!NoView
    BY DEF Init, View, Promise!NoView
  <2> QED BY <2>1, <2>2 DEF Promise!LogInit
<1>2. Good /\ [Next]_vars => [Promise!LogNext]_(Promise!logVars)
  <2>1. CASE UNCHANGED vars
    <3>1. \A i \in Ids : Recorded(i)' = Recorded(i)
      BY <2>1, RecordedStays DEF vars, dbVars
    <3>2. \A s \in Sessions : View(s)' = View(s)
      BY <2>1 DEF vars, aggVars, View, Seen
    <3> QED BY <3>1, <3>2 DEF Promise!logVars
  <2> QED BY <2>1, StepKeepsPromise DEF Next
<1> QED BY <1>1, <1>2, Always, PTL DEF Spec, KeepsPromise, Promise!LogSpec
=============================================================================
