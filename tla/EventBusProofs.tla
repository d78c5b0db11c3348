--------------------------- MODULE EventBusProofs ---------------------------
(* Theorems about EventBus, for any number of goroutines, workers, handlers, *)
(* topics and events, whatever handlers publish or close.                    *)
EXTENDS EventBus, FiniteSetTheorems, SequenceTheorems, TLAPS

LEMMA CapacityNat == Capacity \in Nat
BY WorkersAssumption, PerWorkerAssumption, FS_CardinalityType DEF Capacity

LEMMA Appended ==
  ASSUME NEW S, NEW s \in Seq(S), NEW e \in S
  PROVE  Append(s, e) \in Seq(S) /\ Len(Append(s, e)) = Len(s) + 1
OBVIOUS

LEMMA TypeInit == Init => TypeOK
<1> SUFFICES ASSUME Init PROVE TypeOK
  OBVIOUS
<1>1. asyncCh \in Seq(Handlers) /\ Len(asyncCh) <= Capacity
  BY CapacityNat, EmptySeq DEF Init
<1>2. published \in 0 .. MaxPublish
  BY MaxPublishAssumption DEF Init
<1> QED BY <1>1, <1>2 DEF Init, TypeOK

LEMMA TypeStep ==
  ASSUME TypeOK, [Next]_vars
  PROVE  TypeOK'
<1> USE DEF TypeOK, subVars, runVars, chanVars, lockVars, histVars, Goes
<1>1. ASSUME NEW h \in Handlers, Subscribe(h) \/ Unsubscribe(h) PROVE TypeOK'
  BY <1>1 DEF Subscribe, Unsubscribe
<1>2. ASSUME NEW g \in Goroutines, NEW t \in Topics, Publish(g, t) PROVE TypeOK'
  <2>1. published' \in 0 .. MaxPublish /\ rest' \in [Goroutines -> SUBSET Handlers]
    BY <1>2, MaxPublishAssumption DEF Publish, Collect
  <2> QED BY <1>2, <2>1 DEF Publish
<1>3. ASSUME NEW g \in Goroutines, NEW t \in Topics, PublishAsync(g, t) PROVE TypeOK'
  <2>1. published' \in 0 .. MaxPublish
    BY <1>3, MaxPublishAssumption DEF PublishAsync
  <2> QED BY <1>3, <2>1 DEF PublishAsync
<1>4. ASSUME NEW g \in Goroutines, Close(g) PROVE TypeOK'
  BY <1>4 DEF Close
<1>5. ASSUME NEW g \in Goroutines, CallNext(g) PROVE TypeOK'
  BY <1>5 DEF CallNext
<1>6. ASSUME NEW g \in Goroutines, HandlerReturns(g) PROVE TypeOK'
  BY <1>6 DEF HandlerReturns
<1>7. ASSUME NEW g \in Goroutines, Enter(g) PROVE TypeOK'
  BY <1>7 DEF Enter, Returns, Collect
<1>8. ASSUME NEW g \in Goroutines, Send(g) PROVE TypeOK'
  <2> PICK h \in out[g] : asyncCh' = Append(asyncCh, h) /\ out' = [out EXCEPT ![g] = @ \ {h}]
    BY <1>8 DEF Send
  <2>1. asyncCh' \in Seq(Handlers) /\ Len(asyncCh') <= Capacity
    BY <1>8, Appended, CapacityNat DEF Send
  <2> QED BY <1>8, <2>1 DEF Send
<1>9. ASSUME NEW g \in Goroutines, Leave(g) PROVE TypeOK'
  BY <1>9 DEF Leave, Returns, ReadersWithout
<1>10. ASSUME NEW g \in Goroutines, Receive(g) PROVE TypeOK'
  <2>1. /\ asyncCh' \in Seq(Handlers) /\ Len(asyncCh') <= Capacity
        /\ Head(asyncCh) \in Handlers
    BY <1>10, HeadTailProperties, LenProperties, CapacityNat DEF Receive
  <2> QED BY <1>10, <2>1 DEF Receive
<1>11. ASSUME NEW g \in Goroutines, Exit(g) \/ CloseChannel(g) \/ CloseReturns(g) PROVE TypeOK'
  BY <1>11 DEF Exit, CloseChannel, CloseReturns, Returns
<1>12. CASE UNCHANGED vars
  BY <1>12 DEF vars
<1> QED BY <1>1, <1>2, <1>3, <1>4, <1>5, <1>6, <1>7, <1>8, <1>9, <1>10, <1>11, <1>12
        DEF Next, Call, Proceed

(* TypeOK: the channel never holds more than it has room for.                *)
THEOREM TypeCorrect == Spec => []TypeOK
BY TypeInit, TypeStep, PTL DEF Spec

-----------------------------------------------------------------------------
(* What stands behind CloseIsClean: who holds closeMu, who closes, and where *)
(* every accepted task is.                                                   *)
ReadersSend == \A g \in Goroutines : pc[g] = "send" <=> g \in readers

Closers ==
  /\ \A g \in Goroutines : pc[g] = "lock" => closed
  /\ chClosed => closed /\ readers = {}
  /\ closed /\ ~ chClosed => \E g \in Goroutines : pc[g] = "lock"
  /\ chClosed => AllExited \/ \E g \in Goroutines : pc[g] = "wait"

WorkersBusy ==
  \A w \in Workers : pc[w] # "sync" /\ (task[w] = {} <=> pc[w] \in {"idle", "exited"})

ExitedLast == (\E w \in Workers : pc[w] = "exited") => chClosed /\ asyncCh = <<>>

Busy == {w \in Workers : task[w] # {}}

Accounts == accepted = handled + Len(asyncCh) + Cardinality(Busy)

Orderly == ReadersSend /\ Closers /\ WorkersBusy /\ ExitedLast

(* Every goroutine but g stands where it stood.                              *)
Only(g) == \A q \in Goroutines \ {g} : pc'[q] = pc[q]

LEMMA OrderlyInit == Init => Orderly
BY DEF Init, Orderly, ReadersSend, Closers, WorkersBusy, ExitedLast, Goroutines

(* Steps of a goroutine that neither hold closeMu nor close, before or       *)
(* after.                                                                    *)
LEMMA PlainStep ==
  ASSUME TypeOK, Orderly, NEW g \in Goroutines, Only(g),
         pc[g] \in {"idle", "run", "sync", "rlock"}, pc'[g] \in {"idle", "run", "sync", "rlock"},
         UNCHANGED <<readers, closed, chClosed>>, WorkersBusy',
         asyncCh = <<>> => asyncCh' = <<>>
  PROVE  Orderly'
<1>1. ReadersSend'
  BY DEF Orderly, ReadersSend, Only
<1>2. \A q \in Goroutines : /\ pc'[q] = "lock" <=> pc[q] = "lock"
                            /\ pc'[q] = "wait" <=> pc[q] = "wait"
                            /\ pc'[q] = "exited" <=> pc[q] = "exited"
  BY DEF Only
<1>3. Workers \subseteq Goroutines
  BY DEF Goroutines
<1>4. Closers'
  BY <1>2, <1>3 DEF Orderly, Closers, AllExited
<1>5. ExitedLast'
  BY <1>2, <1>3 DEF Orderly, ExitedLast
<1> QED BY <1>1, <1>4, <1>5 DEF Orderly

LEMMA OrderlyPlain ==
  ASSUME TypeOK, Orderly, NEW g \in Goroutines,
         \/ \E t \in Topics : Publish(g, t) \/ PublishAsync(g, t)
         \/ CallNext(g) \/ HandlerReturns(g) \/ Receive(g)
  PROVE  Orderly'
<1> USE DEF TypeOK, Goes, MayCall
<1>1. /\ Only(g) /\ UNCHANGED <<readers, closed, chClosed>>
      /\ pc[g] \in {"idle", "run", "sync", "rlock"} /\ pc'[g] \in {"idle", "run", "sync", "rlock"}
  BY DEF Publish, PublishAsync, CallNext, HandlerReturns, Receive, chanVars, lockVars, Only
<1>2. \A q \in Goroutines \ {g} : task'[q] = task[q]
  BY DEF Publish, PublishAsync, CallNext, HandlerReturns, Receive
<1>3. asyncCh = <<>> => asyncCh' = <<>>
  BY DEF Publish, PublishAsync, CallNext, HandlerReturns, Receive, chanVars
<1>4. g \in Workers => pc'[g] # "sync" /\ (task'[g] = {} <=> pc'[g] \in {"idle", "exited"})
  <2> SUFFICES ASSUME g \in Workers
               PROVE  pc'[g] # "sync" /\ (task'[g] = {} <=> pc'[g] \in {"idle", "exited"})
    OBVIOUS
  <2>1. g \notin Outside /\ pc[g] # "sync" /\ (task[g] = {} <=> pc[g] \in {"idle", "exited"})
    BY WorkersAssumption DEF Orderly, WorkersBusy
  <2> QED BY <2>1 DEF Publish, PublishAsync, CallNext, HandlerReturns, Receive
<1>5. WorkersBusy'
  BY <1>1, <1>2, <1>4 DEF Orderly, WorkersBusy, Only, Goroutines
<1> QED BY <1>1, <1>3, <1>5, PlainStep

LEMMA OrderlyEnter ==
  ASSUME TypeOK, Orderly, NEW g \in Goroutines, Enter(g) \/ Leave(g) \/ Send(g)
  PROVE  Orderly'
<1> USE DEF TypeOK, Goes, Returns
<1>1. /\ Only(g) /\ UNCHANGED <<closed, chClosed, task>>
      /\ pc[g] \in {"rlock", "send"} /\ pc'[g] \in {"idle", "run", "send"}
  BY DEF Enter, Leave, Send, chanVars, lockVars, Only
<1>2. ReadersSend'
  BY <1>1 DEF Orderly, ReadersSend, Enter, Leave, Send, lockVars, ReadersWithout, Only
<1>3. Workers \subseteq Goroutines
  BY DEF Goroutines
<1>4. chClosed => readers' = {} /\ asyncCh' = asyncCh
  <2> SUFFICES ASSUME chClosed PROVE readers' = {} /\ asyncCh' = asyncCh
    OBVIOUS
  <2>1. closed /\ readers = {} /\ pc[g] # "send"
    BY DEF Orderly, Closers, ReadersSend
  <2> QED BY <2>1 DEF Enter, Leave, Send, chanVars
<1>5. \A q \in Goroutines : /\ pc'[q] = "lock" <=> pc[q] = "lock"
                            /\ pc'[q] = "wait" <=> pc[q] = "wait"
                            /\ pc'[q] = "exited" <=> pc[q] = "exited"
  BY <1>1 DEF Only
<1>6. Closers'
  BY <1>1, <1>3, <1>4, <1>5 DEF Orderly, Closers, AllExited
<1>7. ExitedLast'
  BY <1>1, <1>3, <1>4, <1>5 DEF Orderly, ExitedLast
<1>8. WorkersBusy'
  <2>1. g \in Workers => task[g] # {} /\ pc'[g] \in {"run", "send"}
    BY <1>1 DEF Orderly, WorkersBusy, Enter, Leave, Send
  <2> QED BY <1>1, <1>3, <2>1 DEF Orderly, WorkersBusy, Only
<1> QED BY <1>2, <1>6, <1>7, <1>8 DEF Orderly

LEMMA OrderlyClose ==
  ASSUME TypeOK, Orderly, NEW g \in Goroutines, Close(g) \/ CloseChannel(g) \/ CloseReturns(g)
  PROVE  Orderly'
<1> USE DEF TypeOK, Goes, Returns, MayCall
<1>1. /\ Only(g) /\ UNCHANGED <<readers, task, asyncCh>>
      /\ pc[g] \in {"idle", "run", "lock", "wait"} /\ pc'[g] \in {"idle", "run", "lock", "wait"}
  BY DEF Close, CloseChannel, CloseReturns, chanVars, lockVars, Only
<1>2. Workers \subseteq Goroutines
  BY DEF Goroutines
<1>3. ReadersSend'
  BY <1>1 DEF Orderly, ReadersSend, Only
<1>4. WorkersBusy'
  <2>1. g \in Workers => task[g] # {} /\ pc'[g] \in {"run", "lock", "wait"}
    BY <1>1, WorkersAssumption DEF Orderly, WorkersBusy, Close, CloseChannel, CloseReturns
  <2> QED BY <1>1, <1>2, <2>1 DEF Orderly, WorkersBusy, Only
<1>5. /\ \A w \in Workers : pc'[w] = "exited" <=> pc[w] = "exited"
      /\ chClosed => chClosed'
  BY <1>1, <1>2 DEF Only, Close, CloseChannel, CloseReturns, chanVars
<1>6. ExitedLast'
  BY <1>1, <1>5 DEF Orderly, ExitedLast
<1>7. CASE Close(g)
  BY <1>1, <1>3, <1>4, <1>6, <1>7 DEF Orderly, Closers, Close, chanVars, Only
<1>8. CASE CloseChannel(g)
  BY <1>1, <1>3, <1>4, <1>6, <1>8 DEF Orderly, Closers, CloseChannel, NoReaders, lockVars, Only
<1>9. CASE CloseReturns(g)
  <2>1. AllExited'
    BY <1>5, <1>9 DEF CloseReturns, AllExited
  <2> QED BY <1>1, <1>3, <1>4, <1>6, <1>9, <2>1
          DEF Orderly, Closers, CloseReturns, chanVars, lockVars, Only
<1> QED BY <1>7, <1>8, <1>9

LEMMA OrderlyExit ==
  ASSUME TypeOK, Orderly, NEW g \in Goroutines, Exit(g)
  PROVE  Orderly'
<1> USE DEF TypeOK, Goes
<1>1. /\ Only(g) /\ g \in Workers /\ pc[g] = "idle" /\ pc'[g] = "exited"
      /\ UNCHANGED <<readers, closed, chClosed, asyncCh, task>>
      /\ chClosed /\ asyncCh = <<>>
  BY DEF Exit, Drained, chanVars, lockVars, Only
<1>2. ReadersSend' /\ ExitedLast'
  BY <1>1 DEF Orderly, ReadersSend, ExitedLast, Only
<1>3. WorkersBusy'
  BY <1>1 DEF Orderly, WorkersBusy, Only, Goroutines
<1>4. Closers'
  <2>1. AllExited => AllExited'
    BY <1>1 DEF AllExited, Only, Goroutines
  <2> QED BY <1>1, <2>1 DEF Orderly, Closers, Only
<1> QED BY <1>2, <1>3, <1>4 DEF Orderly

LEMMA OrderlyStep ==
  ASSUME TypeOK, Orderly, [Next]_vars
  PROVE  Orderly'
<1>1. ASSUME NEW h \in Handlers, Subscribe(h) \/ Unsubscribe(h) PROVE Orderly'
  BY <1>1 DEF Subscribe, Unsubscribe, runVars, chanVars, lockVars,
              Orderly, ReadersSend, Closers, AllExited, WorkersBusy, ExitedLast
<1>2. CASE UNCHANGED vars
  BY <1>2 DEF vars, runVars, chanVars, lockVars,
              Orderly, ReadersSend, Closers, AllExited, WorkersBusy, ExitedLast
<1> QED BY <1>1, <1>2, OrderlyPlain, OrderlyEnter, OrderlyClose, OrderlyExit
        DEF Next, Call, Proceed

-----------------------------------------------------------------------------
(* The accounts.                                                             *)

LEMMA BusyFinite == IsFiniteSet(Busy) /\ Cardinality(Busy) \in Nat
BY WorkersAssumption, FS_Subset, FS_CardinalityType DEF Busy

LEMMA AccountsStep ==
  ASSUME TypeOK, Orderly, Accounts, [Next]_vars
  PROVE  Accounts'
<1> USE LenProperties DEF TypeOK, subVars, runVars, chanVars, lockVars, histVars
<1>1. CASE task' = task /\ asyncCh' = asyncCh /\ UNCHANGED histVars
  BY <1>1 DEF Accounts, Busy
<1>2. ASSUME NEW g \in Outside, task' = [task EXCEPT ![g] = task'[g]], asyncCh' = asyncCh,
             UNCHANGED histVars
      PROVE  Accounts'
  <2>1. Busy' = Busy
    BY <1>2, WorkersAssumption DEF Busy, Goroutines
  <2> QED BY <1>2, <2>1 DEF Accounts
<1>3. ASSUME NEW g \in Goroutines, CallNext(g) PROVE Accounts'
  <2>1. g \in Outside
    BY <1>3 DEF CallNext, Orderly, WorkersBusy, Goroutines
  <2> QED BY <1>1, <1>2, <1>3, <2>1 DEF CallNext
<1>4. ASSUME NEW g \in Goroutines, HandlerReturns(g) PROVE Accounts'
  <2>1. CASE g \in Outside
    BY <1>2, <1>4, <2>1, WorkersAssumption DEF HandlerReturns
  <2>2. CASE g \in Workers
    <3>1. g \in Busy /\ Busy' = Busy \ {g}
      BY <1>4, <2>2 DEF HandlerReturns, Orderly, WorkersBusy, Busy, Goroutines
    <3>2. Cardinality(Busy') = Cardinality(Busy) - 1
      BY <3>1, BusyFinite, FS_RemoveElement
    <3>3. handled' = handled + 1 /\ accepted' = accepted /\ asyncCh' = asyncCh
      BY <1>4, <2>2, WorkersAssumption DEF HandlerReturns
    <3> QED BY <3>2, <3>3, BusyFinite DEF Accounts
  <2> QED BY <2>1, <2>2 DEF Goroutines
<1>5. ASSUME NEW g \in Goroutines, Send(g) PROVE Accounts'
  <2> PICK h \in out[g] : asyncCh' = Append(asyncCh, h)
    BY <1>5 DEF Send
  <2>1. Len(asyncCh') = Len(asyncCh) + 1
    BY Appended
  <2>2. Busy' = Busy
    BY <1>5 DEF Send, Busy
  <2> QED BY <1>5, <2>1, <2>2, BusyFinite DEF Send, Accounts
<1>6. ASSUME NEW g \in Goroutines, Receive(g) PROVE Accounts'
  <2>1. Len(asyncCh') = Len(asyncCh) - 1
    BY <1>6, HeadTailProperties DEF Receive
  <2>2. g \notin Busy /\ Busy' = Busy \cup {g}
    BY <1>6 DEF Receive, Orderly, WorkersBusy, Busy, Goroutines
  <2>3. Cardinality(Busy') = Cardinality(Busy) + 1
    BY <2>2, BusyFinite, FS_AddElement
  <2> QED BY <1>6, <2>1, <2>3, BusyFinite DEF Receive, Accounts
<1> QED BY <1>1, <1>3, <1>4, <1>5, <1>6
        DEF Next, Call, Proceed, Subscribe, Unsubscribe, Publish, PublishAsync, Enter, Leave, Exit,
            Close, CloseChannel, CloseReturns, vars

(* CloseIsClean: nothing is sent on the closed channel, and a Close that     *)
(* returned left no task behind and no worker running.                       *)
THEOREM CloseIsCleanCorrect == Spec => []CloseIsClean
<1>1. Init => Accounts
  <2> SUFFICES ASSUME Init PROVE Accounts
    OBVIOUS
  <2>1. Busy = {}
    BY DEF Init, Busy, Goroutines
  <2>2. Cardinality(Busy) = 0 /\ Len(asyncCh) = 0
    BY <2>1, FS_EmptySet, EmptySeq DEF Init
  <2> QED BY <2>2 DEF Init, Accounts
<1>2. TypeOK /\ Orderly /\ Accounts => CloseIsClean
  <2> SUFFICES ASSUME TypeOK, Orderly, Accounts PROVE CloseIsClean
    OBVIOUS
  <2>1. NoSendAfterClose
    BY DEF Orderly, ReadersSend, Closers, NoSendAfterClose
  <2>2. ASSUME closed, \A g \in Goroutines : pc[g] \notin {"lock", "wait"}
        PROVE  handled = accepted /\ (\A w \in Workers : pc[w] = "exited")
               /\ \A g \in Goroutines : pc[g] # "send"
    <3>1. chClosed /\ AllExited
      BY <2>2 DEF Orderly, Closers
    <3>2. Busy = {}
      BY <3>1 DEF Orderly, WorkersBusy, AllExited, Busy
    <3>3. asyncCh = <<>>
      <4>1. CASE Workers = {}
        <5>1. Capacity = 0
          BY <4>1, FS_EmptySet, PerWorkerAssumption DEF Capacity
        <5> QED BY <5>1, EmptySeq, LenProperties DEF TypeOK
      <4>2. CASE Workers # {}
        BY <3>1, <4>2 DEF Orderly, ExitedLast, AllExited
      <4> QED BY <4>1, <4>2
    <3>4. handled = accepted
      BY <3>2, <3>3, FS_EmptySet, EmptySeq DEF Accounts, TypeOK
    <3> QED BY <2>1, <3>1, <3>4 DEF AllExited, NoSendAfterClose
  <2> QED BY <2>1, <2>2 DEF CloseIsClean, CloseIsFinal
<1>3. TypeOK /\ Orderly /\ Accounts /\ [Next]_vars => Orderly' /\ Accounts'
  BY OrderlyStep, AccountsStep
<1> QED BY <1>1, <1>2, <1>3, OrderlyInit, TypeCorrect, PTL DEF Spec

-----------------------------------------------------------------------------
(* What is safety in HangsOnlyWedged: where nothing goes on.                 *)

(* The guards of Proceed(g).                                                 *)
Ready(g) ==
  \/ pc[g] \in {"sync", "run"}
  \/ pc[g] = "rlock" /\ ~ WriterWaits
  \/ pc[g] = "send" /\ (out[g] = {} \/ Len(asyncCh) < Capacity)
  \/ pc[g] = "idle" /\ g \in Workers /\ (asyncCh # <<>> \/ Drained)
  \/ pc[g] = "lock" /\ NoReaders
  \/ pc[g] = "wait" /\ AllExited

(* Every call has returned, and every task was taken.                        *)
AtRest == asyncCh = <<>> /\ \A g \in Outside : pc[g] = "idle"

StopsOnlyWedged == Wedged \/ AtRest \/ \E g \in Goroutines : Ready(g)

(* Whoever waits has closed the channel, and only workers exit.              *)
Waits == /\ \A g \in Goroutines : pc[g] = "wait" => chClosed
         /\ \A g \in Outside : pc[g] # "exited"

LEMMA WaitsStep ==
  ASSUME TypeOK, Waits, [Next]_vars
  PROVE  Waits'
<1> USE DEF TypeOK, Goes
<1>1. ASSUME NEW g \in Goroutines, Call(g) \/ Proceed(g) PROVE Waits'
  <2>1. chClosed => chClosed'
    BY <1>1 DEF Call, Proceed, Publish, PublishAsync, Close, CallNext, HandlerReturns, Enter, Send, Leave,
                Receive, Exit, CloseChannel, CloseReturns, chanVars
  <2>2. \A q \in Goroutines \ {g} : pc'[q] = pc[q]
    BY <1>1 DEF Call, Proceed, Publish, PublishAsync, Close, CallNext, HandlerReturns, Enter, Send, Leave,
                Receive, Exit, CloseChannel, CloseReturns, Returns
  <2>3. pc'[g] = "wait" => chClosed'
    BY <1>1 DEF Waits, Call, Proceed, Publish, PublishAsync, Close, CallNext, HandlerReturns, Enter, Send,
                Leave, Receive, Exit, CloseChannel, CloseReturns, Returns
  <2>4. pc'[g] = "exited" => pc[g] = "exited" \/ g \in Workers
    BY <1>1 DEF Call, Proceed, Publish, PublishAsync, Close, CallNext, HandlerReturns, Enter, Send,
                Leave, Receive, Exit, CloseChannel, CloseReturns, Returns
  <2> QED BY <2>1, <2>2, <2>3, <2>4, WorkersAssumption DEF Waits, Goroutines
<1>2. ASSUME NEW h \in Handlers, Subscribe(h) \/ Unsubscribe(h) PROVE Waits'
  BY <1>2 DEF Subscribe, Unsubscribe, runVars, chanVars, Waits
<1>3. CASE UNCHANGED vars
  BY <1>3 DEF vars, runVars, chanVars, Waits
<1> QED BY <1>1, <1>2, <1>3 DEF Next

LEMMA Always == Spec => [](TypeOK /\ Orderly /\ Waits)
<1>1. Init => Waits
  BY DEF Init, Waits, Goroutines
<1> QED BY <1>1, OrderlyInit, OrderlyStep, TypeInit, TypeStep, WaitsStep, PTL DEF Spec

LEMMA StuckIsWedged ==
  ASSUME TypeOK, Orderly, Waits, \A g \in Goroutines : ~ Ready(g), ~ Wedged
  PROVE  AtRest
<1> USE DEF TypeOK
<1>1. PICK w \in Workers : pc[w] \notin {"rlock", "send"}
  BY DEF Wedged
<1>2. w \in Goroutines /\ pc[w] \in {"idle", "exited"}
  BY <1>1 DEF Wedged, Ready, Goroutines, Orderly, WorkersBusy
<1>3. asyncCh = <<>> /\ (chClosed => pc[w] = "exited")
  BY <1>1, <1>2 DEF Ready, Orderly, ExitedLast, Drained
<1>4. Len(asyncCh) < Capacity
  <2>1. Cardinality(Workers) \in Nat /\ Cardinality(Workers) # 0
    BY <1>1, WorkersAssumption, FS_CardinalityType, FS_EmptySet
  <2>2. \A m, n \in Nat \ {0} : m * n > 0
    OBVIOUS
  <2>3. Capacity > 0
    BY <2>1, <2>2, PerWorkerAssumption DEF Capacity
  <2> QED BY <1>3, <2>3, EmptySeq, LenProperties
<1>5. \A g \in Goroutines : pc[g] # "send"
  BY <1>4 DEF Ready
<1>6. \A g \in Goroutines : pc[g] # "lock"
  <2>1. NoReaders
    BY <1>5 DEF Orderly, ReadersSend, NoReaders
  <2> QED BY <2>1 DEF Ready
<1>7. \A g \in Goroutines : pc[g] # "rlock"
  BY <1>6 DEF Ready, WriterWaits
<1>8. \A g \in Goroutines : pc[g] # "wait"
  <2> SUFFICES ASSUME NEW g \in Goroutines, pc[g] = "wait" PROVE FALSE
    OBVIOUS
  <2>1. Drained
    BY <1>3 DEF Waits, Drained
  <2>2. AllExited
    <3> SUFFICES ASSUME NEW q \in Workers PROVE pc[q] = "exited"
      BY DEF AllExited
    <3>1. q \in Goroutines /\ pc[q] \notin {"lock", "wait"}
      BY DEF Wedged, Goroutines
    <3> QED BY <1>5, <1>7, <2>1, <3>1 DEF Ready
  <2> QED BY <2>2 DEF Ready
<1>9. \A g \in Outside : pc[g] = "idle"
  <2> SUFFICES ASSUME NEW g \in Outside PROVE pc[g] = "idle"
    OBVIOUS
  <2>1. g \in Goroutines /\ pc[g] \notin {"sync", "run", "exited"}
    BY DEF Ready, Waits, Goroutines
  <2> QED BY <1>5, <1>6, <1>7, <1>8, <2>1
<1> QED BY <1>3, <1>9 DEF AtRest

(* As long as a call is under way or a task waits in the channel, somebody   *)
(* can go on, but for the two ways of wedging that Wedged names: there is no *)
(* other circle in which senders, workers and Close wait for one another.    *)
THEOREM StopsOnlyWedgedCorrect == Spec => []StopsOnlyWedged
<1>1. TypeOK /\ Orderly /\ Waits => StopsOnlyWedged
  BY StuckIsWedged DEF StopsOnlyWedged
<1> QED BY <1>1, Always, PTL

(* A bus whose handlers neither publish nor close is never wedged, however   *)
(* small its channel is.                                                     *)
THEOREM PlainHandlersNeverWedge ==
  ASSUME Workers # {}, Publishing = {}, Closing = {}
  PROVE  Spec => []~ Wedged
<1> DEFINE Plain == \A w \in Workers : pc[w] \in {"idle", "run", "exited"}
<1>1. Init => Plain
  BY DEF Init, Goroutines
<1>2. TypeOK /\ Orderly /\ Plain /\ [Next]_vars => Plain'
  <2> SUFFICES ASSUME TypeOK, Orderly, Plain, [Next]_vars PROVE Plain'
    OBVIOUS
  <2> USE DEF TypeOK, Goes
  <2>1. ASSUME NEW g \in Goroutines, Call(g) \/ Proceed(g), NEW w \in Workers
        PROVE  pc'[w] \in {"idle", "run", "exited"}
    <3>1. w \in Goroutines /\ w \notin Outside /\ pc[w] \in {"idle", "run", "exited"}
      BY WorkersAssumption DEF Goroutines
    <3>2. CASE g # w
      <4>1. pc'[w] = pc[w]
        BY <2>1, <3>1, <3>2 DEF Call, Proceed, Publish, PublishAsync, Close, CallNext, HandlerReturns, Enter,
                                Send, Leave, Receive, Exit, CloseChannel, CloseReturns, Returns
      <4> QED BY <3>1, <4>1
    <3>3. CASE g = w
      <4>1. ~ MayCall(w, {})
        BY <3>1 DEF MayCall, Orderly, WorkersBusy
      <4>2. ~ Call(w)
        BY <3>1, <4>1 DEF Call, Publish, PublishAsync, Close
      <4> QED BY <2>1, <3>1, <3>3, <4>2 DEF Proceed, CallNext, HandlerReturns, Enter, Send, Leave, Receive, Exit,
                                            CloseChannel, CloseReturns
    <3> QED BY <3>2, <3>3
  <2>2. ASSUME NEW h \in Handlers, Subscribe(h) \/ Unsubscribe(h) PROVE pc' = pc
    BY <2>2 DEF Subscribe, Unsubscribe, runVars
  <2>3. CASE UNCHANGED vars
    BY <2>3 DEF vars, runVars
  <2> QED BY <2>1, <2>2, <2>3 DEF Next
<1>3. Plain => ~ Wedged
  BY DEF Wedged
<1> QED BY <1>1, <1>2, <1>3, Always, PTL DEF Spec
=============================================================================
