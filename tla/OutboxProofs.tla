---------------------------- MODULE OutboxProofs ----------------------------
(* Theorems about Outbox, for every number of relays, messages and faults.  *)
EXTENDS Outbox, FiniteSetTheorems, TLAPS

(* The batch of a poll is a set of messages.                                 *)
LEMMA OldestSubset == ASSUME NEW S PROVE Oldest(S) \subseteq S
  BY DEF Oldest

(* Charging an outcome keeps the count of faults within its bound, because  *)
(* only "ok" is possible once the bound is reached.                          *)
LEMMA ChargeBound ==
  ASSUME faults \in 0 .. MaxFaults, NEW o \in DbOutcomes, Charge(o)
  PROVE  faults' \in 0 .. MaxFaults
  BY FaultsAssumption DEF DbOutcomes, Charge, MayFail

(* TypeOK: the variables keep their types, and only a running poll holds    *)
(* messages.                                                                 *)
THEOREM TypeCorrect == Spec => []TypeOK
<1>1. Init => TypeOK
  BY FaultsAssumption, MaxStartsAssumption
  DEF Init, TypeOK, TxState, Status, PollState, StopState
<1>2. TypeOK /\ [Next]_vars => TypeOK'
  <2> SUFFICES ASSUME TypeOK, [Next]_vars PROVE TypeOK'
    OBVIOUS
  <2> USE DEF TypeOK, dbVars, pollVars, lifeVars, histVars
  <2>1. ASSUME NEW i \in Ids, Business(i) PROVE TypeOK'
    BY <2>1 DEF Business, Save, SaveDirect, Commit, Rollback, Unused, SavedInTx,
                TxState, Status
  <2>2. ASSUME NEW r \in Relays, Start(r) PROVE TypeOK'
    <3>1. PICK g \in 1 .. MaxStarts : g = gen[r] + 1
      BY <2>2, MaxStartsAssumption DEF Start
    <3>2. PICK w \in Loops : w = <<r, g>>
      BY DEF Loops
    <3>3. /\ gen' = [gen EXCEPT ![r] = g]
          /\ pc' = [pc EXCEPT ![w] = "first"]
          /\ aux' = [aux EXCEPT ![w] = Aux]
      BY <2>2, <3>1, <3>2 DEF Start
    <3>4. pc[w] = "off"
      BY <3>1, <3>2, MaxStartsAssumption
    <3>5. \A v \in Loops : v[1] \in Relays /\ v[2] \in 1 .. MaxStarts /\ v = <<v[1], v[2]>>
      BY DEF Loops
    <3>6. \A v \in Loops : v[2] > gen'[v[1]] => v[2] > gen[v[1]] /\ v # w
      BY <3>1, <3>2, <3>3, <3>5, MaxStartsAssumption
    <3>7. /\ running' = [running EXCEPT ![r] = TRUE]
          /\ UNCHANGED <<dbVars, todo, sent, failing, cancelled, stop, histVars>>
      BY <2>2 DEF Start
    <3>8. gen' \in [Relays -> 0 .. MaxStarts] /\ pc' \in [Loops -> PollState]
          /\ aux' \in [Loops -> SUBSET Aux]
      BY <3>1, <3>3, MaxStartsAssumption DEF PollState
    <3>9. \A v \in Loops : v # w => pc'[v] = pc[v] /\ aux'[v] = aux[v]
      BY <3>3
    <3>10. pc'[w] = "first"
      BY <3>3
    <3> QED BY <3>4, <3>6, <3>7, <3>8, <3>9, <3>10
  <2>3. ASSUME NEW r \in Relays, Stop(r) PROVE TypeOK'
    <3>1. CASE gen[r] = 0
      <4>1. <<r, gen[r]>> \notin Loops
        BY <3>1, MaxStartsAssumption DEF Loops
      <4> QED BY <2>3, <4>1 DEF Stop, StopState
    <3>2. CASE gen[r] # 0
      <4>1. PICK w \in Loops : w = <<r, gen[r]>>
        <5>1. gen[r] \in 1 .. MaxStarts
          BY <3>2, MaxStartsAssumption
        <5> QED BY <5>1 DEF Loops
      <4> QED BY <2>3, <4>1, MaxStartsAssumption DEF Stop, StopState, Loops
    <3> QED BY <3>1, <3>2
  <2>4. ASSUME NEW r \in Relays, Crash(r) PROVE TypeOK'
    BY <2>4, FaultsAssumption DEF Crash, MayFail, PollState, StopState
  <2>5. ASSUME NEW w \in Loops, StopReturns(w) \/ StopTimesOut(w) PROVE TypeOK'
    BY <2>5 DEF StopReturns, StopTimesOut, StopState
  <2>6. ASSUME NEW w \in Loops, NEW o \in DbOutcomes, FetchEnds(w, o) PROVE TypeOK'
    <3> DEFINE batch == Oldest(Pending)
               msgs  == {[id |-> i, retry |-> retry[i]] : i \in batch}
    <3>1. msgs \subseteq Fetched
      <4>1. batch \subseteq Ids
        BY OldestSubset DEF Pending
      <4>2. \A i \in batch : retry[i] \in Nat
        BY <4>1
      <4> QED BY <4>1, <4>2 DEF Fetched
    <3>2. faults' \in 0 .. MaxFaults
      BY <2>6, ChargeBound DEF FetchEnds
    <3>3. status' \in [Ids -> Status]
      BY <2>6 DEF FetchEnds, Status, Claimed
    <3>4. IF o = "ok" /\ batch # {}
            THEN /\ pc' = [pc EXCEPT ![w] = "send"]
                 /\ todo' = [todo EXCEPT ![w] = msgs]
            ELSE /\ pc' = [pc EXCEPT ![w] = "idle"]
                 /\ UNCHANGED todo
      BY <2>6 DEF FetchEnds
    <3>5. /\ pc[w] \in {"first", "idle"}
          /\ UNCHANGED <<tx, retry, sent, failing, lifeVars, delivered, resets>>
      BY <2>6 DEF FetchEnds
    <3> HIDE DEF batch, msgs
    <3>6. CASE o = "ok" /\ batch # {}
      BY <3>1, <3>2, <3>3, <3>4, <3>5, <3>6 DEF PollState
    <3>7. CASE ~ (o = "ok" /\ batch # {})
      BY <3>2, <3>3, <3>4, <3>5, <3>7 DEF PollState
    <3> QED BY <3>6, <3>7
  <2>7. ASSUME NEW w \in Loops, NEW m \in todo[w], NEW o \in SendOutcomes(w, m),
               SendEnds(w, m, o)
        PROVE  TypeOK'
    <3>1. m.id \in Ids /\ m.retry \in Nat
      BY DEF Fetched
    <3>2. faults' \in 0 .. MaxFaults
      BY <2>7, <3>1, FaultsAssumption, MaxRetriesAssumption
      DEF SendEnds, SendOutcomes, IsFault, MayFail
    <3>3. delivered' \in [Ids -> Nat]
      BY <2>7, <3>1 DEF SendEnds
    <3>4. CASE Confirmed(o)
      BY <2>7, <3>1, <3>2, <3>3, <3>4 DEF SendEnds
    <3>5. CASE ~ Confirmed(o)
      BY <2>7, <3>1, <3>2, <3>3, <3>5 DEF SendEnds, PollState
    <3> QED BY <3>4, <3>5
  <2>8. ASSUME NEW w \in Loops, NEW o \in DbOutcomes, MarkFailedEnds(w, o) PROVE TypeOK'
    <3>1. faults' \in 0 .. MaxFaults
      BY <2>8, ChargeBound DEF MarkFailedEnds
    <3> QED BY <2>8, <3>1 DEF MarkFailedEnds, Status, PollState
  <2>9. ASSUME NEW w \in Loops, NEW o \in DbOutcomes, MarkSentEnds(w, o) PROVE TypeOK'
    <3>1. faults' \in 0 .. MaxFaults
      BY <2>9, ChargeBound DEF MarkSentEnds
    <3> QED BY <2>9, <3>1 DEF MarkSentEnds, FreshSentIDs, Status, PollState
  <2>10. ASSUME NEW w \in Loops, PollExit(w) PROVE TypeOK'
    BY <2>10 DEF PollExit, PollState
  <2>11. ASSUME NEW w \in Loops, NEW S \in SUBSET Ids, ResetRows(w, S) \/ CleanRows(w, S)
         PROVE  TypeOK'
    BY <2>11, FaultsAssumption DEF ResetRows, CleanRows, Stale, MayFail, Status
  <2>13. ASSUME NEW w \in Loops, AuxExit(w) PROVE TypeOK'
    BY <2>13 DEF AuxExit, Listening
  <2>12. CASE UNCHANGED vars
    BY <2>12 DEF vars
  <2> QED BY <2>1, <2>2, <2>3, <2>4, <2>5, <2>6, <2>7, <2>8, <2>9, <2>10, <2>11, <2>12, <2>13
          DEF Next, Life, PollLoop, AuxLoops, Fetch, Send, MarkFailed, MarkSent, ResetStale, Cleanup
<1> QED BY <1>1, <1>2, PTL DEF Spec

-----------------------------------------------------------------------------
(* The steps that neither touch a row nor what a loop holds.                *)
Bookkeeping == UNCHANGED <<tx, status, todo, sent, failing, delivered>>

LEMMA QuietSteps ==
  \/ UNCHANGED vars
  \/ \E r \in Relays : Start(r) \/ Stop(r)
  \/ \E w \in Loops : StopReturns(w) \/ StopTimesOut(w) \/ PollExit(w) \/ AuxExit(w)
  => Bookkeeping
  BY DEF Bookkeeping, vars, dbVars, pollVars, histVars, Start, Stop, StopReturns,
         StopTimesOut, PollExit, AuxExit

(* The ids a loop has in hand are ids of rows.                              *)
LEMMA HandIds ==
  ASSUME TypeOK, NEW w \in Loops
  PROVE  /\ \A m \in todo[w] : m.id \in Ids /\ m.retry \in Nat
         /\ \A i \in sent[w] \cup failing[w] : i \in Ids
  BY DEF TypeOK, Fetched

(* Every row that was visible stays visible, and the lists only shrink.     *)
LEMMA LedgerFrame ==
  ASSUME TypeOK, Ledger,
         UNCHANGED <<tx, delivered>>,
         \A i \in Ids : /\ status'[i] = "none" <=> status[i] = "none"
                        /\ status'[i] \in {"sent", "deleted"} =>
                             status[i] \in {"sent", "deleted"} \/ delivered[i] > 0,
         \A w \in Loops : /\ \A m \in todo'[w] : m \in todo[w]
                                                     \/ (m.id \in Ids /\ status[m.id] # "none")
                          /\ sent'[w] \subseteq sent[w]
                          /\ failing'[w] \subseteq failing[w]
  PROVE  Ledger'
  <1>1. \A w \in Loops : \A m \in todo'[w] : m.id \in Ids /\ status[m.id] # "none"
    BY HandIds DEF Ledger
  <1>2. \A w \in Loops : \A i \in sent'[w] \cup failing'[w] : i \in Ids /\ status[i] # "none"
    BY HandIds DEF Ledger
  <1> QED BY <1>1, <1>2 DEF Ledger

(* Ledger: what is delivered, what is in hand and what the table says agree. *)
THEOREM LedgerCorrect == Spec => []Ledger
<1>1. Init => Ledger
  BY DEF Init, Ledger, Durable
<1>2. TypeOK /\ Ledger /\ [Next]_vars => Ledger'
  <2> SUFFICES ASSUME TypeOK, Ledger, [Next]_vars PROVE Ledger'
    OBVIOUS
  <2>1. ASSUME NEW i \in Ids, Business(i) PROVE Ledger'
    <3>1. UNCHANGED <<todo, sent, failing, delivered>>
      BY <2>1 DEF Business, Save, SaveDirect, Commit, Rollback, pollVars, histVars
    <3>2. \A j \in Ids : j # i => tx'[j] = tx[j] /\ status'[j] = status[j]
      BY <2>1 DEF Business, Save, SaveDirect, Commit, Rollback, TypeOK
    <3>3. status[i] = "none"
      BY <2>1 DEF Business, Save, SaveDirect, Commit, Rollback, Unused, Durable, Ledger
    <3>4. status'[i] \in {"none", "pending"} /\ (tx'[i] \in Durable <=> status'[i] # "none")
      BY <2>1, <3>3 DEF Business, Save, SaveDirect, Commit, Rollback, SavedInTx, TypeOK, Durable
    <3> QED BY <3>1, <3>2, <3>3, <3>4, HandIds DEF Ledger
  <2>2. CASE Bookkeeping
    BY <2>2 DEF Bookkeeping, Ledger
  <2>3. ASSUME NEW r \in Relays, Crash(r) PROVE Ledger'
    BY <2>3, LedgerFrame DEF Crash, dbVars
  <2>4. ASSUME NEW w \in Loops, NEW o \in DbOutcomes, FetchEnds(w, o) PROVE Ledger'
    <3> DEFINE batch == Oldest(Pending)
               msgs  == {[id |-> i, retry |-> retry[i]] : i \in batch}
    <3>1. \A i \in batch : i \in Ids /\ status[i] = "pending"
      BY OldestSubset DEF Pending
    <3>2. \A m \in msgs : m.id \in Ids /\ status[m.id] # "none"
      BY <3>1
    <3>3. /\ todo' = [todo EXCEPT ![w] = msgs] \/ UNCHANGED todo
          /\ UNCHANGED <<tx, sent, failing, delivered>>
      BY <2>4 DEF FetchEnds
    <3>4. status' = [i \in Ids |-> IF i \in batch /\ o # "error" THEN Claimed ELSE status[i]]
      BY <2>4 DEF FetchEnds
    <3> HIDE DEF batch, msgs
    <3>5. \A i \in Ids : \/ status'[i] = status[i]
                         \/ (status'[i] = "processing" /\ status[i] = "pending")
      BY <3>1, <3>4 DEF Claimed
    <3>6. \A v \in Loops : todo'[v] \subseteq todo[v] \cup msgs
      BY <3>3 DEF TypeOK
    <3> QED BY <3>2, <3>3, <3>5, <3>6, LedgerFrame
  <2>5. ASSUME NEW w \in Loops, NEW m \in todo[w], NEW o \in SendOutcomes(w, m),
               SendEnds(w, m, o)
        PROVE  Ledger'
    <3>1. m.id \in Ids /\ status[m.id] # "none"
      BY HandIds DEF Ledger
    <3>2. UNCHANGED <<tx, status>>
      BY <2>5 DEF SendEnds, dbVars
    <3>3. \A i \in Ids : i # m.id => delivered'[i] = delivered[i]
      BY <2>5, <3>1 DEF SendEnds, TypeOK
    <3>4. delivered'[m.id] \in {delivered[m.id], delivered[m.id] + 1} /\ delivered[m.id] \in Nat
      BY <2>5, <3>1 DEF SendEnds, TypeOK
    <3>5. Confirmed(o) => delivered'[m.id] = delivered[m.id] + 1
      BY <2>5, <3>1 DEF SendEnds, TypeOK, Confirmed
    <3>6. /\ \A v \in Loops : todo'[v] \subseteq todo[v]
          /\ \A v \in Loops : failing'[v] \subseteq failing[v] \cup {m.id}
          /\ \A v \in Loops : sent'[v] \subseteq sent[v] \cup {m.id}
          /\ ~ Confirmed(o) => sent' = sent
      <4>1. CASE Confirmed(o)
        BY <2>5, <4>1 DEF SendEnds, TypeOK
      <4>2. CASE ~ Confirmed(o)
        BY <2>5, <4>2 DEF SendEnds, TypeOK
      <4> QED BY <4>1, <4>2
    <3>7. \A i \in Ids : /\ delivered'[i] > 0 => status[i] # "none"
                         /\ delivered[i] > 0 => delivered'[i] > 0
      BY <3>1, <3>3, <3>4 DEF Ledger
    <3>8. \A v \in Loops : \A i \in sent'[v] : delivered'[i] > 0
      <4>1. \A v \in Loops : \A i \in sent[v] : i \in Ids /\ delivered[i] > 0
        BY HandIds DEF Ledger
      <4>2. \A v \in Loops : \A i \in sent[v] : delivered'[i] > 0
        BY <3>7, <4>1
      <4>3. Confirmed(o) => delivered'[m.id] > 0
        BY <3>4, <3>5
      <4> QED BY <3>6, <4>2, <4>3
    <3>9. \A v \in Loops : \A i \in sent'[v] \cup failing'[v] : status[i] # "none"
      BY <3>1, <3>6 DEF Ledger
    <3>10. \A v \in Loops : \A n \in todo'[v] : status[n.id] # "none"
      BY <3>6 DEF Ledger
    <3>11. \A i \in Ids : status[i] \in {"sent", "deleted"} => delivered'[i] > 0
      BY <3>7 DEF Ledger
    <3> QED BY <3>2, <3>7, <3>8, <3>9, <3>10, <3>11 DEF Ledger
  <2>6. ASSUME NEW w \in Loops, NEW o \in DbOutcomes,
               MarkFailedEnds(w, o) \/ MarkSentEnds(w, o)
        PROVE  Ledger'
    <3>1. UNCHANGED <<tx, delivered, todo>>
      BY <2>6 DEF MarkFailedEnds, MarkSentEnds
    <3>2. \A v \in Loops : sent'[v] \subseteq sent[v] /\ failing'[v] \subseteq failing[v]
      BY <2>6 DEF MarkFailedEnds, MarkSentEnds, FreshSentIDs, TypeOK
    <3>3. \A i \in Ids : \/ status'[i] = status[i]
                         \/ (status'[i] = "failed" /\ InTable(i))
                         \/ (status'[i] = "sent" /\ InTable(i) /\ i \in sent[w])
      <4>1. CASE MarkFailedEnds(w, o)
        BY <4>1 DEF MarkFailedEnds
      <4>2. CASE MarkSentEnds(w, o)
        BY <4>2 DEF MarkSentEnds
      <4> QED BY <2>6, <4>1, <4>2
    <3> QED BY <3>1, <3>2, <3>3, LedgerFrame DEF InTable, Ledger
  <2>7. ASSUME NEW w \in Loops, NEW S \in SUBSET Ids, ResetRows(w, S) \/ CleanRows(w, S)
        PROVE  Ledger'
    <3>1. UNCHANGED <<tx, delivered, todo, sent, failing>>
      BY <2>7 DEF ResetRows, CleanRows, pollVars, histVars
    <3>2. \A i \in Ids : \/ status'[i] = status[i]
                         \/ (status'[i] = "pending" /\ status[i] = "processing")
                         \/ (status'[i] = "deleted" /\ status[i] = "sent")
      <4>1. CASE ResetRows(w, S)
        BY <4>1 DEF ResetRows
      <4>2. CASE CleanRows(w, S)
        BY <4>2 DEF CleanRows
      <4> QED BY <2>7, <4>1, <4>2
    <3> QED BY <3>1, <3>2, LedgerFrame DEF Ledger
  <2> QED BY <2>1, <2>2, <2>3, <2>4, <2>5, <2>6, <2>7, QuietSteps
          DEF Next, Life, PollLoop, AuxLoops, Fetch, Send, MarkFailed, MarkSent,
              ResetStale, Cleanup
<1> QED BY <1>1, <1>2, TypeCorrect, PTL DEF Spec

(* NothingLost: no undelivered message of a committed transaction is ever   *)
(* marked Sent, deleted or otherwise forgotten.                              *)
THEOREM NothingIsLost == Spec => []NothingLost
<1>1. TypeOK /\ Ledger => NothingLost
  BY DEF TypeOK, Ledger, NothingLost, Status
<1> QED BY <1>1, TypeCorrect, LedgerCorrect, PTL

(* NoPhantom: what the broker has was committed with its business write.    *)
THEOREM NoPhantoms == Spec => []NoPhantom
<1>1. Ledger => NoPhantom
  BY DEF Ledger, NoPhantom
<1> QED BY <1>1, LedgerCorrect, PTL

-----------------------------------------------------------------------------
(* What a step does to the lists of one loop: nothing, a fetch into empty   *)
(* lists, a send that moves one message on, or a loss of part of them.      *)
LEMMA HandSteps ==
  ASSUME TypeOK, [Next]_vars, NEW v \in Loops
  PROVE  \/ /\ todo'[v] \subseteq todo[v]
            /\ sent'[v] \subseteq sent[v]
            /\ failing'[v] \subseteq failing[v]
         \/ /\ sent[v] = {} /\ failing[v] = {} /\ sent'[v] = {} /\ failing'[v] = {}
            /\ todo[v] = {}
            /\ todo'[v] = {[id |-> i, retry |-> retry[i]] : i \in Oldest(Pending)}
         \/ \E m \in todo[v] :
              /\ failing[v] = {} /\ todo'[v] = todo[v] \ {m}
              /\ \/ sent'[v] = sent[v] \cup {m.id} /\ failing'[v] = {}
                 \/ sent'[v] = sent[v] /\ failing'[v] = {m.id}
<1> DEFINE Shrinks == /\ todo'[v] \subseteq todo[v]
                      /\ sent'[v] \subseteq sent[v]
                      /\ failing'[v] \subseteq failing[v]
<1>1. ASSUME NEW i \in Ids, Business(i) PROVE Shrinks
  BY <1>1 DEF Business, Save, SaveDirect, Commit, Rollback, pollVars
<1>2. ASSUME Bookkeeping PROVE Shrinks
  BY <1>2 DEF Bookkeeping
<1>3. ASSUME NEW r \in Relays, Crash(r) PROVE Shrinks
  BY <1>3 DEF Crash
<1>4. ASSUME NEW w \in Loops, NEW o \in DbOutcomes, FetchEnds(w, o), v # w PROVE Shrinks
  BY <1>4 DEF FetchEnds, TypeOK
<1>5. ASSUME NEW o \in DbOutcomes, FetchEnds(v, o)
      PROVE  \/ Shrinks
             \/ /\ sent[v] = {} /\ failing[v] = {} /\ sent'[v] = {} /\ failing'[v] = {}
                /\ todo[v] = {}
                /\ todo'[v] = {[id |-> i, retry |-> retry[i]] : i \in Oldest(Pending)}
  <2>1. /\ sent[v] = {} /\ failing[v] = {} /\ todo[v] = {} /\ UNCHANGED <<sent, failing>>
    BY <1>5 DEF FetchEnds, TypeOK
  <2>2. \/ UNCHANGED todo
        \/ todo'[v] = {[id |-> i, retry |-> retry[i]] : i \in Oldest(Pending)}
    BY <1>5 DEF FetchEnds, TypeOK
  <2> QED BY <2>1, <2>2
<1>6. ASSUME NEW w \in Loops, NEW m \in todo[w], NEW o \in SendOutcomes(w, m),
             SendEnds(w, m, o), v # w
      PROVE  Shrinks
  BY <1>6 DEF SendEnds, TypeOK
<1>7. ASSUME NEW m \in todo[v], NEW o \in SendOutcomes(v, m), SendEnds(v, m, o)
      PROVE  /\ failing[v] = {} /\ todo'[v] = todo[v] \ {m}
             /\ \/ sent'[v] = sent[v] \cup {m.id} /\ failing'[v] = {}
                \/ sent'[v] = sent[v] /\ failing'[v] = {m.id}
  <2>1. failing[v] = {} /\ todo'[v] = todo[v] \ {m}
    BY <1>7 DEF SendEnds, TypeOK
  <2>2. CASE Confirmed(o)
    BY <1>7, <2>1, <2>2 DEF SendEnds, TypeOK
  <2>3. CASE ~ Confirmed(o)
    BY <1>7, <2>3 DEF SendEnds, TypeOK
  <2> QED BY <2>1, <2>2, <2>3
<1>8. ASSUME NEW w \in Loops, NEW o \in DbOutcomes,
             MarkFailedEnds(w, o) \/ MarkSentEnds(w, o)
      PROVE  Shrinks
  BY <1>8 DEF MarkFailedEnds, MarkSentEnds, FreshSentIDs, TypeOK
<1>9. ASSUME NEW w \in Loops, NEW S \in SUBSET Ids, ResetRows(w, S) \/ CleanRows(w, S)
      PROVE  Shrinks
  BY <1>9 DEF ResetRows, CleanRows, pollVars
<1> HIDE DEF Shrinks
<1>10. \/ Shrinks
       \/ \E o \in DbOutcomes : FetchEnds(v, o)
       \/ \E m \in todo[v] : \E o \in SendOutcomes(v, m) : SendEnds(v, m, o)
  <2> DEFINE Goal == \/ Shrinks
                     \/ \E o \in DbOutcomes : FetchEnds(v, o)
                     \/ \E m \in todo[v] : \E o \in SendOutcomes(v, m) : SendEnds(v, m, o)
  <2>1. ASSUME NEW w \in Loops, Fetch(w) PROVE Goal
    BY <2>1, <1>4 DEF Fetch
  <2>2. ASSUME NEW w \in Loops, Send(w) PROVE Goal
    BY <2>2, <1>6 DEF Send
  <2>3. ASSUME NEW w \in Loops, MarkFailed(w) \/ MarkSent(w) PROVE Goal
    BY <2>3, <1>8 DEF MarkFailed, MarkSent
  <2>4. ASSUME NEW w \in Loops, ResetStale(w) \/ Cleanup(w) PROVE Goal
    BY <2>4, <1>9 DEF ResetStale, Cleanup
  <2>5. Bookkeeping => Goal
    BY <1>2
  <2> HIDE DEF Goal
  <2>6. ASSUME NEW w \in Loops, PollLoop(w) \/ AuxLoops(w) PROVE Goal
    <3>1. PollExit(w) \/ AuxExit(w) => Bookkeeping
      BY QuietSteps
    <3> QED BY <2>1, <2>2, <2>3, <2>4, <2>5, <2>6, <3>1 DEF PollLoop, AuxLoops
  <2>7. Life \/ UNCHANGED vars => Goal
    <3>1. Life \/ UNCHANGED vars => Bookkeeping \/ \E r \in Relays : Crash(r)
      BY QuietSteps DEF Life
    <3>2. (\E r \in Relays : Crash(r)) => Goal
      BY <1>3 DEF Goal
    <3> QED BY <2>5, <3>1, <3>2
  <2>8. Goal
    <3>1. (\E i \in Ids : Business(i)) => Goal
      BY <1>1 DEF Goal
    <3> QED BY <2>6, <2>7, <3>1 DEF Next
  <2> QED BY <2>8 DEF Goal
<1> QED BY <1>5, <1>7, <1>10 DEF Shrinks

(* HoldsOnce: within one loop a message is on one list, and there once.     *)
THEOREM HoldsOnceCorrect == Spec => []HoldsOnce
<1>1. Init => HoldsOnce
  BY DEF Init, HoldsOnce
<1>2. TypeOK /\ HoldsOnce /\ [Next]_vars => HoldsOnce'
  <2> SUFFICES ASSUME TypeOK, HoldsOnce, [Next]_vars, NEW v \in Loops
               PROVE  /\ \A m, n \in todo'[v] : m.id = n.id => m = n
                      /\ \A m \in todo'[v] : m.id \notin sent'[v] \cup failing'[v]
                      /\ sent'[v] \cap failing'[v] = {}
    BY DEF HoldsOnce
  <2>1. /\ \A m, n \in todo[v] : m.id = n.id => m = n
        /\ \A m \in todo[v] : m.id \notin sent[v] \cup failing[v]
        /\ sent[v] \cap failing[v] = {}
    BY DEF HoldsOnce
  <2> QED BY <2>1, HandSteps
<1> QED BY <1>1, <1>2, TypeCorrect, PTL DEF Spec

-----------------------------------------------------------------------------
(* A step that lets no loop take a message, and no row of a message in hand *)
(* change, keeps OneHolder.                                                  *)
LEMMA OneHolderFrame ==
  ASSUME OneHolder,
         \A v \in Loops : InHand(v)' \subseteq InHand(v),
         \A i \in Ids : \A v \in Loops : i \in InHand(v)' => status'[i] = status[i]
  PROVE  OneHolder'
  <1> SUFFICES ASSUME NEW i \in Ids, NEW v \in Loops, NEW w \in Loops, i \in InHand(v)'
               PROVE  status'[i] = "processing" /\ (i \in InHand(w)' => v = w)
    BY DEF OneHolder
  <1> QED BY DEF OneHolder

LEMMA ShrinkingHand ==
  ASSUME NEW v \in Loops, todo'[v] \subseteq todo[v], sent'[v] \subseteq sent[v],
         failing'[v] \subseteq failing[v]
  PROVE  InHand(v)' \subseteq InHand(v)
  BY DEF InHand

(* OneHolder: with no relay slower than staleTimeout, a message is in one   *)
(* pair of hands and its row is Processing meanwhile, with any number of    *)
(* relays, generations, crashes, broker and database errors.                *)
THEOREM OneHolderCorrect == ASSUME "slow" \notin Faults PROVE Spec => []OneHolder
<1>1. Init => OneHolder
  BY DEF Init, OneHolder, InHand
<1>2. TypeOK /\ Ledger /\ HoldsOnce /\ OneHolder /\ [Next]_vars => OneHolder'
  <2> SUFFICES ASSUME TypeOK, Ledger, HoldsOnce, OneHolder, [Next]_vars PROVE OneHolder'
    OBVIOUS
  <2>a. \A i \in Ids : \A v \in Loops : i \in InHand(v) => status[i] = "processing"
    BY DEF OneHolder
  <2>1. ASSUME NEW i \in Ids, Business(i) PROVE OneHolder'
    <3>1. \A v \in Loops : InHand(v)' \subseteq InHand(v)
      BY <2>1, ShrinkingHand DEF Business, Save, SaveDirect, Commit, Rollback, pollVars
    <3>2. \A j \in Ids : status'[j] = status[j] \/ j = i
      BY <2>1 DEF Business, Save, SaveDirect, Commit, Rollback, TypeOK
    <3>3. status[i] = "none"
      BY <2>1 DEF Business, Save, SaveDirect, Commit, Rollback, Unused, Durable, Ledger
    <3> QED BY <3>1, <3>2, <3>3, <2>a, OneHolderFrame
  <2>2. ASSUME Bookkeeping PROVE OneHolder'
    <3>1. \A v \in Loops : InHand(v)' \subseteq InHand(v)
      BY <2>2, ShrinkingHand DEF Bookkeeping
    <3> QED BY <2>2, <3>1, OneHolderFrame DEF Bookkeeping
  <2>3. ASSUME NEW r \in Relays, Crash(r) PROVE OneHolder'
    <3>1. \A v \in Loops : InHand(v)' \subseteq InHand(v)
      BY <2>3, ShrinkingHand DEF Crash
    <3> QED BY <2>3, <3>1, OneHolderFrame DEF Crash, dbVars
  <2>4. ASSUME NEW w \in Loops, NEW o \in DbOutcomes, FetchEnds(w, o) PROVE OneHolder'
    <3> DEFINE batch == Oldest(Pending)
               msgs  == {[id |-> i, retry |-> retry[i]] : i \in batch}
    <3>1. \A i \in batch : i \in Ids /\ status[i] = "pending"
      BY OldestSubset DEF Pending
    <3>2. \A v \in Loops : v # w => InHand(v)' \subseteq InHand(v)
      BY <2>4 DEF FetchEnds, TypeOK, InHand
    <3>3. todo[w] = {} /\ sent'[w] = {} /\ failing'[w] = {}
      BY <2>4 DEF FetchEnds, TypeOK
    <3>4. CASE o = "ok"
      <4>1. todo'[w] = {} \/ todo'[w] = msgs
        BY <2>4, <3>3 DEF FetchEnds, TypeOK
      <4>2. InHand(w)' \subseteq batch
        BY <3>3, <4>1 DEF InHand
      <4>3. status' = [i \in Ids |-> IF i \in batch THEN "processing" ELSE status[i]]
        BY <2>4, <3>4 DEF FetchEnds, Claimed
      <4> HIDE DEF batch
      <4>4. \A i \in batch : \A v \in Loops : i \notin InHand(v)
        BY <3>1, <2>a
      <4>5. \A i \in Ids : i \in batch => status'[i] = "processing"
        BY <4>3
      <4>6. \A i \in Ids : i \notin batch => status'[i] = status[i]
        BY <4>3
      <4> SUFFICES ASSUME NEW i \in Ids, NEW v \in Loops, NEW u \in Loops, i \in InHand(v)'
                   PROVE  status'[i] = "processing" /\ (i \in InHand(u)' => v = u)
        BY DEF OneHolder
      <4> QED BY <3>1, <3>2, <4>2, <4>4, <4>5, <4>6 DEF OneHolder
    <3>5. CASE o # "ok"
      <4>1. todo'[w] = {}
        BY <2>4, <3>3, <3>5 DEF FetchEnds, TypeOK
      <4>2. InHand(w)' = {}
        BY <3>3, <4>1 DEF InHand
      <4>3. \A i \in Ids : i \notin batch => status'[i] = status[i]
        BY <2>4 DEF FetchEnds
      <4> HIDE DEF batch
      <4>4. \A v \in Loops : InHand(v)' \subseteq InHand(v)
        BY <3>2, <4>2
      <4>5. \A i \in batch : \A v \in Loops : i \notin InHand(v)
        BY <3>1, <2>a
      <4> QED BY <4>3, <4>4, <4>5, OneHolderFrame
    <3> QED BY <3>4, <3>5
  <2>5. ASSUME NEW w \in Loops, NEW m \in todo[w], NEW o \in SendOutcomes(w, m),
               SendEnds(w, m, o)
        PROVE  OneHolder'
    <3>1. /\ \A v \in Loops : todo'[v] \subseteq todo[v]
          /\ \A v \in Loops : v # w => sent'[v] = sent[v] /\ failing'[v] = failing[v]
          /\ sent'[w] \subseteq sent[w] \cup {m.id}
          /\ failing'[w] \subseteq failing[w] \cup {m.id}
      <4>1. CASE Confirmed(o)
        BY <2>5, <4>1 DEF SendEnds, TypeOK
      <4>2. CASE ~ Confirmed(o)
        BY <2>5, <4>2 DEF SendEnds, TypeOK
      <4> QED BY <4>1, <4>2
    <3>2. \A v \in Loops : InHand(v)' \subseteq InHand(v)
      BY <3>1 DEF InHand
    <3> QED BY <2>5, <3>2, OneHolderFrame DEF SendEnds, dbVars
  <2>6. ASSUME NEW w \in Loops, NEW o \in DbOutcomes, MarkFailedEnds(w, o) PROVE OneHolder'
    <3>1. /\ \A v \in Loops : failing'[v] \subseteq failing[v]
          /\ failing'[w] = {} /\ UNCHANGED <<todo, sent>>
      BY <2>6 DEF MarkFailedEnds, TypeOK
    <3>2. \A v \in Loops : InHand(v)' \subseteq InHand(v)
      BY <3>1, ShrinkingHand
    <3>3. \A i \in Ids : status'[i] = status[i] \/ i \in failing[w]
      BY <2>6 DEF MarkFailedEnds
    <3>4. \A i \in failing[w] : i \in InHand(w) /\ i \notin InHand(w)'
      BY <3>1 DEF HoldsOnce, InHand
    <3>5. \A i \in Ids : \A v \in Loops : i \in InHand(v)' => i \notin failing[w]
      BY <3>2, <3>4 DEF OneHolder
    <3> QED BY <3>2, <3>3, <3>5, OneHolderFrame
  <2>7. ASSUME NEW w \in Loops, NEW o \in DbOutcomes, MarkSentEnds(w, o) PROVE OneHolder'
    <3>1. /\ \A v \in Loops : sent'[v] \subseteq sent[v]
          /\ sent'[w] = {} /\ UNCHANGED <<todo, failing>>
      BY <2>7 DEF MarkSentEnds, FreshSentIDs, TypeOK
    <3>2. \A v \in Loops : InHand(v)' \subseteq InHand(v)
      BY <3>1, ShrinkingHand
    <3>3. \A i \in Ids : status'[i] = status[i] \/ i \in sent[w]
      BY <2>7 DEF MarkSentEnds
    <3>4. \A i \in sent[w] : i \in InHand(w) /\ i \notin InHand(w)'
      BY <3>1 DEF HoldsOnce, InHand
    <3>5. \A i \in Ids : \A v \in Loops : i \in InHand(v)' => i \notin sent[w]
      BY <3>2, <3>4 DEF OneHolder
    <3> QED BY <3>2, <3>3, <3>5, OneHolderFrame
  <2>8. ASSUME NEW w \in Loops, NEW S \in SUBSET Ids, ResetRows(w, S) \/ CleanRows(w, S)
        PROVE  OneHolder'
    <3>1. \A v \in Loops : InHand(v)' \subseteq InHand(v)
      BY <2>8, ShrinkingHand DEF ResetRows, CleanRows, pollVars
    <3>2. \A i \in Ids : status'[i] = status[i] \/ i \in S
      BY <2>8 DEF ResetRows, CleanRows
    <3>3. \A i \in S : \A v \in Loops : i \notin InHand(v)
      BY <2>8, <2>a DEF ResetRows, CleanRows, Stale, Held, MayFail
    <3> QED BY <3>1, <3>2, <3>3, OneHolderFrame
  <2> QED
    <3>1. ASSUME NEW w \in Loops, PollLoop(w) \/ AuxLoops(w) PROVE OneHolder'
      <4>1. PollExit(w) \/ AuxExit(w) => Bookkeeping
        BY QuietSteps
      <4> QED BY <2>2, <2>4, <2>5, <2>6, <2>7, <2>8, <3>1, <4>1
              DEF PollLoop, AuxLoops, Fetch, Send, MarkFailed, MarkSent, ResetStale, Cleanup
    <3>2. Life \/ UNCHANGED vars => Bookkeeping \/ \E r \in Relays : Crash(r)
      BY QuietSteps DEF Life
    <3> QED BY <2>1, <2>2, <2>3, <3>1, <3>2 DEF Next
<1> QED BY <1>1, <1>2, TypeCorrect, LedgerCorrect, HoldsOnceCorrect, PTL DEF Spec

-----------------------------------------------------------------------------
LEMMA WaitingFinite == ASSUME NEW i PROVE IsFiniteSet(Waiting(i)) /\ Cardinality(Waiting(i)) \in Nat
  <1>1. IsFiniteSet(1 .. MaxStarts)
    BY FS_Interval, MaxStartsAssumption
  <1>2. IsFiniteSet(Loops)
    BY <1>1, FS_Product, RelaysAssumption DEF Loops
  <1>3. Waiting(i) \in SUBSET Loops
    BY DEF Waiting
  <1> QED BY <1>2, <1>3, FS_Subset, FS_CardinalityType

(* One message: what a step may do to the terms of AttemptsArePaid.         *)
LEMMA PaidFrame ==
  ASSUME TypeOK, AttemptsArePaid, NEW i \in Ids,
         Waiting(i)' \subseteq Waiting(i),
         delivered'[i] = delivered[i],
         resets'[i] = resets[i] /\ (status'[i] = "pending" => status[i] = "pending")
  PROVE  delivered'[i] + Cardinality(Waiting(i)') + (IF status'[i] = "pending" THEN 1 ELSE 0)
           <= resets'[i] + 1
  <1>1. Cardinality(Waiting(i)') <= Cardinality(Waiting(i)) /\ Cardinality(Waiting(i)') \in Nat
    BY WaitingFinite, FS_Subset, FS_CardinalityType
  <1>2. delivered[i] \in Nat /\ resets[i] \in Nat /\ Cardinality(Waiting(i)) \in Nat
    BY WaitingFinite DEF TypeOK
  <1>3. delivered[i] + Cardinality(Waiting(i)) + (IF status[i] = "pending" THEN 1 ELSE 0)
          <= resets[i] + 1
    BY DEF AttemptsArePaid
  <1> QED BY <1>1, <1>2, <1>3

(* AttemptsArePaid: every copy of a message beyond the first was paid for   *)
(* by a ResetStale of its row.                                               *)
THEOREM PaidCorrect == Spec => []AttemptsArePaid
<1>1. Init => AttemptsArePaid
  <2> SUFFICES ASSUME Init, NEW i \in Ids
               PROVE  delivered[i] + Cardinality(Waiting(i))
                        + (IF status[i] = "pending" THEN 1 ELSE 0) <= resets[i] + 1
    BY DEF AttemptsArePaid
  <2>1. Waiting(i) = {}
    BY DEF Init, Waiting
  <2>2. Cardinality(Waiting(i)) = 0
    BY <2>1, FS_EmptySet
  <2> QED BY <2>2 DEF Init
<1>2. TypeOK /\ Ledger /\ HoldsOnce /\ AttemptsArePaid /\ [Next]_vars => AttemptsArePaid'
  <2> SUFFICES ASSUME TypeOK, Ledger, HoldsOnce, AttemptsArePaid, [Next]_vars, NEW i \in Ids
               PROVE  delivered'[i] + Cardinality(Waiting(i)')
                        + (IF status'[i] = "pending" THEN 1 ELSE 0) <= resets'[i] + 1
    BY DEF AttemptsArePaid
  <2> DEFINE Paid == delivered'[i] + Cardinality(Waiting(i)')
                       + (IF status'[i] = "pending" THEN 1 ELSE 0) <= resets'[i] + 1
  <2>a. /\ delivered[i] \in Nat /\ resets[i] \in Nat /\ Cardinality(Waiting(i)) \in Nat
        /\ IsFiniteSet(Waiting(i))
    BY WaitingFinite DEF TypeOK
  <2>b. delivered[i] + Cardinality(Waiting(i)) + (IF status[i] = "pending" THEN 1 ELSE 0)
          <= resets[i] + 1
    BY DEF AttemptsArePaid
  <2>1. ASSUME NEW j \in Ids, Business(j) PROVE Paid
    <3>1. UNCHANGED <<todo, delivered, resets>>
      BY <2>1 DEF Business, Save, SaveDirect, Commit, Rollback, pollVars, histVars
    <3>2. Waiting(i)' = Waiting(i)
      BY <3>1 DEF Waiting
    <3>3. CASE i # j
      <4>1. status'[i] = status[i]
        BY <2>1, <3>3 DEF Business, Save, SaveDirect, Commit, Rollback, TypeOK
      <4> QED BY <3>1, <3>2, <4>1, PaidFrame
    <3>4. CASE i = j
      <4>1. status[i] = "none"
        BY <2>1, <3>4 DEF Business, Save, SaveDirect, Commit, Rollback, Unused, Durable, Ledger
      <4>2. delivered[i] = 0
        BY <4>1, <2>a DEF Ledger
      <4>3. Waiting(i) = {}
        BY <4>1 DEF Waiting, Ledger
      <4>4. Cardinality(Waiting(i)') = 0
        BY <4>3, <3>2, FS_EmptySet
      <4> QED BY <3>1, <4>2, <4>4, <2>a
    <3> QED BY <3>3, <3>4
  <2>2. ASSUME Bookkeeping, UNCHANGED resets PROVE Paid
    BY <2>2, PaidFrame DEF Bookkeeping, Waiting
  <2>3. ASSUME NEW r \in Relays, Crash(r) PROVE Paid
    <3>1. Waiting(i)' \subseteq Waiting(i)
      BY <2>3 DEF Crash, Waiting
    <3> QED BY <2>3, <3>1, PaidFrame DEF Crash, dbVars
  <2>4. ASSUME NEW w \in Loops, NEW o \in DbOutcomes, FetchEnds(w, o) PROVE Paid
    <3> DEFINE batch == Oldest(Pending)
               msgs  == {[id |-> j, retry |-> retry[j]] : j \in batch}
    <3>1. i \in batch => status[i] = "pending"
      BY OldestSubset DEF Pending
    <3>2. UNCHANGED <<delivered, resets>>
      BY <2>4 DEF FetchEnds
    <3>3. todo' = [todo EXCEPT ![w] = msgs] \/ UNCHANGED todo
      BY <2>4 DEF FetchEnds
    <3>4. status'[i] = IF i \in batch /\ o # "error" THEN "processing" ELSE status[i]
      BY <2>4 DEF FetchEnds, Claimed
    <3>5. o # "ok" => UNCHANGED todo
      BY <2>4 DEF FetchEnds
    <3>6. \A m \in msgs : m.id \in batch
      OBVIOUS
    <3> HIDE DEF batch, msgs
    <3>7. CASE i \in batch /\ o = "ok"
      <4>1. Waiting(i)' \subseteq Waiting(i) \cup {w}
        BY <3>3 DEF Waiting, TypeOK
      <4>2. /\ IsFiniteSet(Waiting(i) \cup {w})
            /\ Cardinality(Waiting(i) \cup {w}) <= Cardinality(Waiting(i)) + 1
            /\ Cardinality(Waiting(i) \cup {w}) \in Nat
        <5>1. /\ IsFiniteSet(Waiting(i) \cup {w})
              /\ \/ Cardinality(Waiting(i) \cup {w}) = Cardinality(Waiting(i))
                 \/ Cardinality(Waiting(i) \cup {w}) = Cardinality(Waiting(i)) + 1
          BY <2>a, FS_AddElement
        <5> QED BY <5>1, <2>a
      <4>3. Cardinality(Waiting(i)') <= Cardinality(Waiting(i)) + 1
            /\ Cardinality(Waiting(i)') \in Nat
        BY <4>1, <4>2, <2>a, FS_Subset, FS_CardinalityType
      <4> QED BY <3>1, <3>2, <3>4, <3>7, <4>3, <2>a, <2>b
    <3>8. CASE ~ (i \in batch /\ o = "ok")
      <4>1. Waiting(i)' \subseteq Waiting(i)
        BY <3>3, <3>5, <3>6, <3>8 DEF Waiting, TypeOK
      <4> QED BY <3>2, <3>4, <4>1, PaidFrame
    <3> QED BY <3>7, <3>8
  <2>5. ASSUME NEW w \in Loops, NEW m \in todo[w], NEW o \in SendOutcomes(w, m),
               SendEnds(w, m, o)
        PROVE  Paid
    <3>1. todo' = [todo EXCEPT ![w] = @ \ {m}] /\ UNCHANGED <<status, resets>>
      BY <2>5 DEF SendEnds, dbVars
    <3>2. CASE m.id = i
      <4>1. Waiting(i)' \subseteq Waiting(i) \ {w}
        BY <3>1, <3>2 DEF Waiting, HoldsOnce, TypeOK
      <4>2. w \in Waiting(i)
        BY <3>2 DEF Waiting
      <4>3. /\ IsFiniteSet(Waiting(i) \ {w})
            /\ Cardinality(Waiting(i) \ {w}) = Cardinality(Waiting(i)) - 1
        BY <4>2, <2>a, FS_RemoveElement
      <4>4. Cardinality(Waiting(i)') <= Cardinality(Waiting(i)) - 1
            /\ Cardinality(Waiting(i)') \in Nat
        BY <4>1, <4>3, FS_Subset, FS_CardinalityType
      <4>5. delivered'[i] \in {delivered[i], delivered[i] + 1}
        BY <2>5, <3>2 DEF SendEnds, TypeOK
      <4> QED BY <3>1, <4>4, <4>5, <2>a, <2>b
    <3>3. CASE m.id # i
      <4>1. Waiting(i)' \subseteq Waiting(i)
        BY <3>1 DEF Waiting, TypeOK
      <4>2. delivered'[i] = delivered[i]
        BY <2>5, <3>3 DEF SendEnds, TypeOK
      <4> QED BY <3>1, <4>1, <4>2, PaidFrame
    <3> QED BY <3>2, <3>3
  <2>6. ASSUME NEW w \in Loops, NEW o \in DbOutcomes,
               MarkFailedEnds(w, o) \/ MarkSentEnds(w, o)
        PROVE  Paid
    <3>1. UNCHANGED <<todo, delivered, resets>>
      BY <2>6 DEF MarkFailedEnds, MarkSentEnds
    <3>2. status'[i] = "pending" => status[i] = "pending"
      <4>1. CASE MarkFailedEnds(w, o)
        BY <4>1 DEF MarkFailedEnds
      <4>2. CASE MarkSentEnds(w, o)
        BY <4>2 DEF MarkSentEnds
      <4> QED BY <2>6, <4>1, <4>2
    <3>3. Waiting(i)' = Waiting(i)
      BY <3>1 DEF Waiting
    <3> QED BY <3>1, <3>2, <3>3, PaidFrame
  <2>7. ASSUME NEW w \in Loops, NEW S \in SUBSET Ids, ResetRows(w, S) PROVE Paid
    <3>1. UNCHANGED <<todo, delivered>>
      BY <2>7 DEF ResetRows, pollVars
    <3>2. Waiting(i)' = Waiting(i)
      BY <3>1 DEF Waiting
    <3>3. CASE i \in S
      <4>1. status[i] = "processing" /\ resets'[i] = resets[i] + 1
        BY <2>7, <3>3 DEF ResetRows
      <4> QED BY <3>1, <3>2, <4>1, <2>a, <2>b
    <3>4. CASE i \notin S
      <4>1. status'[i] = status[i] /\ resets'[i] = resets[i]
        BY <2>7, <3>4 DEF ResetRows
      <4> QED BY <3>1, <3>2, <4>1, PaidFrame
    <3> QED BY <3>3, <3>4
  <2>8. ASSUME NEW w \in Loops, NEW S \in SUBSET Ids, CleanRows(w, S) PROVE Paid
    <3>1. /\ UNCHANGED <<todo, delivered, resets>>
          /\ status'[i] = "pending" => status[i] = "pending"
      BY <2>8 DEF CleanRows, pollVars, histVars
    <3> QED BY <3>1, PaidFrame DEF Waiting
  <2> HIDE DEF Paid
  <2>9. Paid
    <3>1. ASSUME NEW w \in Loops, PollLoop(w) \/ AuxLoops(w) PROVE Paid
      <4>1. PollExit(w) \/ AuxExit(w) => Bookkeeping /\ UNCHANGED resets
        BY QuietSteps DEF PollExit, AuxExit, histVars
      <4> QED BY <2>2, <2>4, <2>5, <2>6, <2>7, <2>8, <3>1, <4>1
              DEF PollLoop, AuxLoops, Fetch, Send, MarkFailed, MarkSent, ResetStale, Cleanup
    <3>2. Life \/ UNCHANGED vars =>
            (Bookkeeping /\ UNCHANGED resets) \/ \E r \in Relays : Crash(r)
      BY QuietSteps DEF Life, Start, Stop, StopReturns, StopTimesOut, vars, histVars
    <3> QED BY <2>1, <2>2, <2>3, <3>1, <3>2 DEF Next
  <2> QED BY <2>9 DEF Paid
<1> QED BY <1>1, <1>2, TypeCorrect, LedgerCorrect, HoldsOnceCorrect, PTL DEF Spec

(* DuplicatesAreResets: at most one copy per insert and per reset.          *)
THEOREM DuplicatesBounded == Spec => []DuplicatesAreResets
<1>1. TypeOK /\ AttemptsArePaid => DuplicatesAreResets
  <2> SUFFICES ASSUME TypeOK, AttemptsArePaid, NEW i \in Ids
               PROVE  delivered[i] <= resets[i] + 1
    BY DEF DuplicatesAreResets
  <2>1. delivered[i] \in Nat /\ resets[i] \in Nat /\ Cardinality(Waiting(i)) \in Nat
    BY WaitingFinite DEF TypeOK
  <2>2. delivered[i] + Cardinality(Waiting(i)) + (IF status[i] = "pending" THEN 1 ELSE 0)
          <= resets[i] + 1
    BY DEF AttemptsArePaid
  <2> QED BY <2>1, <2>2
<1> QED BY <1>1, TypeCorrect, PaidCorrect, PTL

-----------------------------------------------------------------------------
(* The outbox implements AtLeastOnce.                                        *)

(* A loop marks one message as failed at a time.                             *)
OneFailing == \A w \in Loops : \A i, j \in failing[w] : i = j

LEMMA OneFailingStep ==
  ASSUME TypeOK, OneFailing, [Next]_vars
  PROVE  OneFailing'
<1> SUFFICES ASSUME NEW w \in Loops PROVE \A i, j \in failing'[w] : i = j
  BY DEF OneFailing
<1>1. \A i, j \in failing[w] : i = j
  BY DEF OneFailing
<1> QED BY <1>1, HandSteps

(* How a row's status reads as a debt.                                       *)
DebtOf(s) == CASE s = "none" -> "none"
               [] s \in {"pending", "processing"} -> "owed"
               [] s = "failed" -> "abandoned"
               [] s \in {"sent", "deleted"} -> "settled"

(* What the mapping of debt in KeepsPromise comes to.                        *)
debts == [i \in Ids |-> CASE status[i] = "none" -> "none"
                          [] status[i] \in {"pending", "processing"} -> "owed"
                          [] status[i] = "failed" -> "abandoned"
                          [] status[i] \in {"sent", "deleted"} -> "settled"]

LEMMA DebtsAre == debts = [i \in Ids |-> DebtOf(status[i])]
BY DEF debts, DebtOf

LEMMA DebtsWillBe == debts' = [i \in Ids |-> DebtOf(status'[i])]
BY DEF debts, DebtOf

LEMMA PromiseOfDebts ==
  /\ Promise!AbstractInit <=>
       debts = [i \in Ids |-> "none"] /\ delivered = [i \in Ids |-> 0]
  /\ \A i \in Ids :
       /\ Promise!Incur(i) <=> /\ debts[i] = "none"
                               /\ debts' = [debts EXCEPT ![i] = "owed"]
                               /\ UNCHANGED delivered
       /\ Promise!Deliver(i) <=> /\ debts[i] = "owed"
                                 /\ delivered' = [delivered EXCEPT ![i] = @ + 1]
                                 /\ UNCHANGED debts
       /\ Promise!Abandon(i) <=> /\ debts[i] = "owed"
                                 /\ debts' = [debts EXCEPT ![i] = "abandoned"]
                                 /\ UNCHANGED delivered
  /\ \A S \in SUBSET Ids :
       Promise!Settle(S) <=> /\ \A i \in S : debts[i] = "owed" /\ delivered[i] > 0
                             /\ debts' = [i \in Ids |-> IF i \in S THEN "settled" ELSE debts[i]]
                             /\ UNCHANGED delivered
  /\ UNCHANGED <<debts, delivered>> => UNCHANGED Promise!abstractVars
<1>1. Promise!AbstractInit <=>
        debts = [i \in Ids |-> "none"] /\ delivered = [i \in Ids |-> 0]
  BY DEF debts, Promise!AbstractInit
<1>2. ASSUME NEW i \in Ids
      PROVE  Promise!Incur(i) <=> /\ debts[i] = "none"
                                  /\ debts' = [debts EXCEPT ![i] = "owed"]
                                  /\ UNCHANGED delivered
  BY Zenon DEF debts, Promise!Incur
<1>3. ASSUME NEW i \in Ids
      PROVE  Promise!Deliver(i) <=> /\ debts[i] = "owed"
                                    /\ delivered' = [delivered EXCEPT ![i] = @ + 1]
                                    /\ UNCHANGED debts
  BY Zenon DEF debts, Promise!Deliver
<1>4. ASSUME NEW i \in Ids
      PROVE  Promise!Abandon(i) <=> /\ debts[i] = "owed"
                                    /\ debts' = [debts EXCEPT ![i] = "abandoned"]
                                    /\ UNCHANGED delivered
  BY Zenon DEF debts, Promise!Abandon
<1>5. ASSUME NEW S \in SUBSET Ids
      PROVE  Promise!Settle(S) <=>
               /\ \A i \in S : debts[i] = "owed" /\ delivered[i] > 0
               /\ debts' = [i \in Ids |-> IF i \in S THEN "settled" ELSE debts[i]]
               /\ UNCHANGED delivered
  BY Zenon DEF debts, Promise!Settle
<1>6. UNCHANGED <<debts, delivered>> => UNCHANGED Promise!abstractVars
  BY DEF debts, Promise!abstractVars
<1> QED BY <1>1, <1>2, <1>3, <1>4, <1>5, <1>6

(* The debts after the rows of S got status s.                               *)
LEMMA DebtsAfter ==
  ASSUME NEW S, NEW s, status' = [i \in Ids |-> IF i \in S THEN s ELSE status[i]]
  PROVE  debts' = [i \in Ids |-> IF i \in S THEN DebtOf(s) ELSE debts[i]]
BY DebtsAre, DebtsWillBe

(* The debts after row k got status s.                                        *)
LEMMA DebtAfter ==
  ASSUME NEW k \in Ids, NEW s, status' = [i \in Ids |-> IF i = k THEN s ELSE status[i]]
  PROVE  debts' = [debts EXCEPT ![k] = DebtOf(s)]
BY DebtsAre, DebtsWillBe

Kept == [Promise!AbstractNext]_(Promise!abstractVars)

LEMMA KeptBy ==
  /\ UNCHANGED <<debts, delivered>> => Kept
  /\ (\E i \in Ids : Promise!Incur(i) \/ Promise!Deliver(i) \/ Promise!Abandon(i)) => Kept
  /\ (\E S \in SUBSET Ids : Promise!Settle(S)) => Kept
BY PromiseOfDebts DEF Kept, Promise!AbstractNext

(* A step that moves no row between two kinds of debt is a stutter.          *)
LEMMA SameDebts ==
  ASSUME \A i \in Ids : DebtOf(status'[i]) = DebtOf(status[i])
  PROVE  UNCHANGED debts
BY DebtsAre, DebtsWillBe

LEMMA StepKeepsPromise ==
  ASSUME TypeOK, Ledger, OneHolder, OneFailing, [Next]_vars
  PROVE  Kept
<1>1. ASSUME NEW i \in Ids, Business(i) PROVE Kept
  <2>1. status[i] = "none" /\ UNCHANGED delivered
    BY <1>1 DEF Business, Save, SaveDirect, Commit, Rollback, Unused, Durable, Ledger, histVars
  <2>2. CASE Save(i) \/ Rollback(i)
    <3>1. \A j \in Ids : status'[j] = status[j]
      BY <2>1, <2>2 DEF Save, Rollback, SavedInTx, TypeOK
    <3> QED BY <2>1, <3>1, SameDebts, KeptBy
  <2>3. CASE SaveDirect(i) \/ Commit(i)
    <3>1. status' = [j \in Ids |-> IF j = i THEN "pending" ELSE status[j]]
      BY <2>3 DEF SaveDirect, Commit, TypeOK
    <3>2. debts' = [debts EXCEPT ![i] = DebtOf("pending")]
      BY <3>1, DebtAfter
    <3>3. debts[i] = "none" /\ debts' = [debts EXCEPT ![i] = "owed"]
      BY <2>1, <3>2, DebtsAre DEF DebtOf
    <3> QED BY <2>1, <3>3, PromiseOfDebts, KeptBy
  <2> QED BY <1>1, <2>2, <2>3 DEF Business
<1>2. ASSUME Bookkeeping PROVE Kept
  BY <1>2, SameDebts, KeptBy DEF Bookkeeping
<1>3. ASSUME NEW r \in Relays, Crash(r) PROVE Kept
  BY <1>3, SameDebts, KeptBy DEF Crash, dbVars
<1>4. ASSUME NEW w \in Loops, NEW o \in DbOutcomes, FetchEnds(w, o) PROVE Kept
  <2>1. \A i \in Oldest(Pending) : status[i] = "pending"
    BY OldestSubset DEF Pending
  <2>2. \A i \in Ids : DebtOf(status'[i]) = DebtOf(status[i])
    BY <1>4, <2>1 DEF FetchEnds, Claimed, DebtOf
  <2> QED BY <1>4, <2>2, SameDebts, KeptBy DEF FetchEnds
<1>5. ASSUME NEW w \in Loops, NEW m \in todo[w], NEW o \in SendOutcomes(w, m), SendEnds(w, m, o)
      PROVE  Kept
  <2>1. m.id \in Ids /\ status[m.id] = "processing"
    BY HandIds DEF OneHolder, InHand
  <2>2. UNCHANGED debts /\ debts[m.id] = "owed"
    BY <1>5, <2>1, DebtsAre, DebtsWillBe DEF SendEnds, dbVars, DebtOf
  <2>3. CASE o = "error"
    <3>1. UNCHANGED delivered
      BY <1>5, <2>3, <2>1 DEF SendEnds, TypeOK
    <3> QED BY <2>2, <3>1, KeptBy
  <2>4. CASE o # "error"
    <3>1. delivered' = [delivered EXCEPT ![m.id] = @ + 1]
      BY <1>5, <2>4 DEF SendEnds
    <3> QED BY <2>1, <2>2, <3>1, PromiseOfDebts, KeptBy
  <2> QED BY <2>3, <2>4
<1>6. ASSUME NEW w \in Loops, NEW o \in DbOutcomes, MarkFailedEnds(w, o) PROVE Kept
  <2>1. UNCHANGED delivered
    BY <1>6 DEF MarkFailedEnds
  <2>2. CASE failing[w] = {} \/ o = "error"
    <3>1. \A i \in Ids : status'[i] = status[i]
      BY <1>6, <2>2 DEF MarkFailedEnds
    <3> QED BY <2>1, <3>1, SameDebts, KeptBy
  <2>3. CASE failing[w] # {} /\ o # "error"
    <3>1. PICK i \in Ids : failing[w] = {i}
      BY <2>3, HandIds DEF OneFailing
    <3>2. status[i] = "processing"
      BY <3>1 DEF OneHolder, InHand
    <3>3. status' = [j \in Ids |-> IF j = i THEN "failed" ELSE status[j]]
      BY <1>6, <2>3, <3>1, <3>2 DEF MarkFailedEnds, InTable
    <3>4. debts' = [debts EXCEPT ![i] = DebtOf("failed")]
      BY <3>3, DebtAfter
    <3>5. debts[i] = "owed" /\ debts' = [debts EXCEPT ![i] = "abandoned"]
      BY <3>2, <3>4, DebtsAre DEF DebtOf
    <3> QED BY <2>1, <3>5, PromiseOfDebts, KeptBy
  <2> QED BY <2>2, <2>3
<1>7. ASSUME NEW w \in Loops, NEW o \in DbOutcomes, MarkSentEnds(w, o) PROVE Kept
  <2>1. UNCHANGED delivered
    BY <1>7 DEF MarkSentEnds
  <2>2. \A i \in sent[w] : i \in Ids /\ status[i] = "processing" /\ delivered[i] > 0
    BY HandIds DEF OneHolder, InHand, Ledger
  <2>3. CASE o = "error"
    <3>1. \A i \in Ids : status'[i] = status[i]
      BY <1>7, <2>3 DEF MarkSentEnds
    <3> QED BY <2>1, <3>1, SameDebts, KeptBy
  <2>4. CASE o # "error"
    <3>1. PICK S \in SUBSET Ids : S = sent[w]
      BY <2>2
    <3>2. status' = [i \in Ids |-> IF i \in S THEN "sent" ELSE status[i]]
      BY <1>7, <2>2, <2>4, <3>1 DEF MarkSentEnds, InTable
    <3>3. \A i \in S : debts[i] = "owed" /\ delivered[i] > 0
      BY <2>2, <3>1, DebtsAre DEF DebtOf
    <3>4. debts' = [i \in Ids |-> IF i \in S THEN "settled" ELSE debts[i]]
      <4>1. debts' = [i \in Ids |-> IF i \in S THEN DebtOf("sent") ELSE debts[i]]
        BY <3>2, DebtsAfter
      <4>2. DebtOf("sent") = "settled"
        BY DEF DebtOf
      <4> QED BY <4>1, <4>2
    <3>5. Promise!Settle(S)
      BY <2>1, <3>3, <3>4, PromiseOfDebts
    <3> QED BY <3>5, KeptBy
  <2> QED BY <2>3, <2>4
<1>8. ASSUME NEW w \in Loops, NEW S \in SUBSET Ids, ResetRows(w, S) \/ CleanRows(w, S) PROVE Kept
  <2>1. \A i \in Ids : DebtOf(status'[i]) = DebtOf(status[i])
    BY <1>8 DEF ResetRows, CleanRows, DebtOf
  <2> QED BY <1>8, <2>1, SameDebts, KeptBy DEF ResetRows, CleanRows, histVars
<1> QED
  <2>1. ASSUME NEW w \in Loops, PollLoop(w) \/ AuxLoops(w) PROVE Kept
    <3>1. PollExit(w) \/ AuxExit(w) => Bookkeeping
      BY QuietSteps
    <3> QED BY <1>2, <1>4, <1>5, <1>6, <1>7, <1>8, <2>1, <3>1
            DEF PollLoop, AuxLoops, Fetch, Send, MarkFailed, MarkSent, ResetStale, Cleanup
  <2>2. Life \/ UNCHANGED vars => Bookkeeping \/ \E r \in Relays : Crash(r)
    BY QuietSteps DEF Life
  <2> QED BY <1>1, <1>2, <1>3, <2>1, <2>2 DEF Next

(* KeepsPromise: with relays that are not slow the outbox is an outbox:      *)
(* whatever else fails, a debt is settled only when a copy was delivered.    *)
THEOREM OutboxKeepsPromise ==
  ASSUME "slow" \notin Faults
  PROVE  Spec => KeepsPromise
<1>1. Init => Promise!AbstractInit
  BY PromiseOfDebts DEF Init, debts, DebtOf
<1>2. Init => OneFailing
  BY DEF Init, OneFailing
<1>3. TypeOK /\ OneFailing /\ [Next]_vars => OneFailing'
  BY OneFailingStep
<1>4. TypeOK /\ Ledger /\ OneHolder /\ OneFailing /\ [Next]_vars
        => [Promise!AbstractNext]_(Promise!abstractVars)
  BY StepKeepsPromise DEF Kept
<1>5. Spec => []OneHolder
  BY OneHolderCorrect
<1> QED BY <1>1, <1>2, <1>3, <1>4, <1>5, TypeCorrect, LedgerCorrect, PTL
        DEF Spec, KeepsPromise, Promise!AbstractSpec

-----------------------------------------------------------------------------
(* Stop.                                                                     *)

(* A Stop is about a generation that was started: later ones come on top.    *)
StopsStarted == \A w \in Loops : stop[w] # "none" => w[2] <= gen[w[1]]

LEMMA StopStep ==
  ASSUME TypeOK, StopsStarted, StopIsQuiet, [Next]_vars
  PROVE  StopsStarted' /\ StopIsQuiet'
<1> DEFINE Still(v) == Quiet(v) => Quiet(v)'
<1> USE DEF Quiet
<1>0. ASSUME UNCHANGED <<stop, gen>>, \A v \in Loops : Still(v)
      PROVE  StopsStarted' /\ StopIsQuiet'
  BY <1>0 DEF StopsStarted, StopIsQuiet
<1>1. ASSUME NEW i \in Ids, Business(i) PROVE StopsStarted' /\ StopIsQuiet'
  BY <1>0, <1>1 DEF Business, Save, SaveDirect, Commit, Rollback, pollVars, lifeVars
<1>2. ASSUME NEW r \in Relays, Start(r) PROVE StopsStarted' /\ StopIsQuiet'
  <2>1. PICK g \in 1 .. MaxStarts : g = gen[r] + 1
    BY <1>2, MaxStartsAssumption DEF Start, TypeOK
  <2>2. PICK u \in Loops : u = <<r, g>>
    BY DEF Loops
  <2>3. \A v \in Loops : v # u => pc'[v] = pc[v] /\ aux'[v] = aux[v]
    BY <1>2, <2>1, <2>2 DEF Start, TypeOK
  <2>4. /\ UNCHANGED stop
        /\ \A q \in Relays : gen'[q] = IF q = r THEN g ELSE gen[q]
    BY <1>2, <2>1 DEF Start, TypeOK
  <2>5. \A v \in Loops : v[1] \in Relays /\ v[2] \in Nat /\ gen[v[1]] \in Nat
    BY DEF Loops, TypeOK
  <2>6. StopsStarted'
    BY <2>1, <2>4, <2>5 DEF StopsStarted
  <2>7. \A w \in Loops : stop[w] # "none" /\ u[1] = w[1] => ~ u[2] <= w[2]
    BY <2>1, <2>2, <2>5 DEF StopsStarted
  <2>8. StopIsQuiet'
    BY <2>3, <2>4, <2>7 DEF StopIsQuiet
  <2> QED BY <2>6, <2>8
<1>3. ASSUME NEW r \in Relays, Stop(r) PROVE StopsStarted' /\ StopIsQuiet'
  <2>1. /\ UNCHANGED <<pc, aux, gen>>
        /\ \A w \in Loops : stop'[w] = stop[w]
                              \/ (w = <<r, gen[r]>> /\ stop'[w] = "waiting")
    BY <1>3 DEF Stop, pollVars, TypeOK
  <2>2. \A w \in Loops : w[1] \in Relays /\ gen[w[1]] \in Nat
    BY DEF Loops, TypeOK
  <2> QED BY <2>1, <2>2 DEF StopsStarted, StopIsQuiet
<1>4. ASSUME NEW r \in Relays, Crash(r) PROVE StopsStarted' /\ StopIsQuiet'
  <2>1. \A v \in Loops : Still(v)
    BY <1>4 DEF Crash
  <2>2. \A v \in Loops : stop'[v] # "none" => stop'[v] = stop[v]
    BY <1>4 DEF Crash
  <2> QED BY <1>4, <2>1, <2>2 DEF Crash, StopsStarted, StopIsQuiet
<1>5. ASSUME NEW w \in Loops, StopReturns(w) \/ StopTimesOut(w)
      PROVE  StopsStarted' /\ StopIsQuiet'
  <2>1. /\ UNCHANGED <<pc, aux, gen>> /\ stop[w] = "waiting"
        /\ \A u \in Loops : u # w => stop'[u] = stop[u]
        /\ stop'[w] = "ok" => \A v \in Loops : v[1] = w[1] => Quiet(v)
    BY <1>5 DEF StopReturns, StopTimesOut, pollVars, TypeOK
  <2> QED BY <2>1 DEF StopsStarted, StopIsQuiet
<1>6. ASSUME NEW w \in Loops, PollLoop(w) PROVE StopsStarted' /\ StopIsQuiet'
  <2>1. /\ pc[w] \notin {"off", "exited"} /\ UNCHANGED <<aux, stop, gen>>
        /\ \A v \in Loops : v # w => pc'[v] = pc[v]
    <3>1. CASE Fetch(w)
      BY <3>1 DEF Fetch, FetchEnds, lifeVars, TypeOK
    <3>2. CASE Send(w)
      BY <3>2 DEF Send, SendEnds, lifeVars, TypeOK
    <3>3. CASE MarkFailed(w) \/ MarkSent(w) \/ PollExit(w)
      BY <3>3 DEF MarkFailed, MarkFailedEnds, MarkSent, MarkSentEnds, PollExit, lifeVars, TypeOK
    <3> QED BY <1>6, <3>1, <3>2, <3>3 DEF PollLoop
  <2> QED BY <1>0, <2>1
<1>7. ASSUME NEW w \in Loops, AuxLoops(w) PROVE StopsStarted' /\ StopIsQuiet'
  <2>1. /\ UNCHANGED <<pc, stop, gen>>
        /\ \A v \in Loops : aux'[v] \subseteq aux[v]
    BY <1>7 DEF AuxLoops, ResetStale, ResetRows, Cleanup, CleanRows, AuxExit, pollVars, lifeVars,
                Listening, TypeOK
  <2> QED BY <1>0, <2>1
<1>8. CASE UNCHANGED vars
  BY <1>0, <1>8 DEF vars, pollVars, lifeVars
<1> QED BY <1>1, <1>2, <1>3, <1>4, <1>5, <1>6, <1>7, <1>8 DEF Next, Life

(* StopIsQuiet: a Stop that returned nil left no goroutine of its generation *)
(* or of an earlier one behind.                                              *)
THEOREM StopIsQuietCorrect == Spec => []StopIsQuiet
<1>1. Init => StopsStarted /\ StopIsQuiet
  BY DEF Init, StopsStarted, StopIsQuiet
<1>2. TypeOK /\ StopsStarted /\ StopIsQuiet /\ [Next]_vars => StopsStarted' /\ StopIsQuiet'
  BY StopStep
<1> QED BY <1>1, <1>2, TypeCorrect, PTL DEF Spec
=============================================================================
