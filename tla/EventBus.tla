------------------------------ MODULE EventBus ------------------------------
(***************************************************************************)
(* The in-process event bus (messaging/eventbus): subscriptions, the        *)
(* synchronous Publish, PublishAsync over one bounded channel, the worker   *)
(* goroutines, and Close.                                                    *)
(*                                                                         *)
(* A handler is user code and may itself call PublishAsync or Close, so     *)
(* workers and outside goroutines take the same steps.  closeMu is a Go     *)
(* RWMutex: once a writer waits, no new reader gets in.  mu is held for     *)
(* moments only, inside one step.  A channel operation is one step.         *)
(***************************************************************************)
EXTENDS Naturals, Sequences, FiniteSets

CONSTANTS Outside,       \* goroutines that are no workers of the bus
          Workers,       \* the asyncWorkers goroutines
          PerWorker,     \* the capacity of asyncCh per worker; 16 in New
          Handlers,      \* the subscriptions made with Subscribe or SubscribeAll
          Topics,        \* the topics events may have
          Listens,       \* Listens[h]: the topics that reach h; all of them for SubscribeAll
          Publishing,    \* the handlers that call PublishAsync
          Closing,       \* the handlers that call Close
          MaxPublish     \* bound: how many events are published

ASSUME WorkersAssumption == IsFiniteSet(Workers) /\ Workers \cap Outside = {}
ASSUME PerWorkerAssumption == PerWorker \in Nat \ {0}
ASSUME ListensAssumption == Listens \in [Handlers -> SUBSET Topics]
ASSUME HandlersAssumption == Publishing \subseteq Handlers /\ Closing \subseteq Handlers
ASSUME MaxPublishAssumption == MaxPublish \in Nat

VARIABLES
  subs,      \* the subscriptions in force
  gone,      \* those that were cancelled
  pc,        \* pc[g]: where goroutine g stands
  task,      \* task[g]: the handler g executes, as a set
  rest,      \* rest[g]: the handlers that g's Publish has still to call
  event,     \* event[g]: the topic of the event g publishes asynchronously, as a set
  out,       \* out[g]: the handlers whose tasks g has still to send
  asyncCh,   \* the tasks in the channel
  chClosed,  \* close(asyncCh) was called
  readers,   \* the goroutines that hold closeMu for reading
  closed,    \* Bus.closed
  published, \* events published so far
  accepted,  \* tasks sent to the channel so far (history)
  handled    \* tasks whose handler has returned (history)

subVars  == <<subs, gone>>
runVars  == <<pc, task, rest, event, out>>
chanVars == <<asyncCh, chClosed>>
lockVars == <<readers, closed>>
histVars == <<accepted, handled>>
vars     == <<subVars, runVars, chanVars, lockVars, published, histVars>>

Goroutines == Outside \cup Workers
Capacity   == PerWorker * Cardinality(Workers)

TypeOK ==
  /\ subs \subseteq Handlers /\ gone \subseteq Handlers
  /\ pc \in [Goroutines -> {"idle", "sync", "run", "rlock", "send", "lock", "wait", "exited"}]
  /\ task \in [Goroutines -> SUBSET Handlers] /\ rest \in [Goroutines -> SUBSET Handlers]
  /\ event \in [Goroutines -> SUBSET Topics] /\ out \in [Goroutines -> SUBSET Handlers]
  /\ asyncCh \in Seq(Handlers) /\ Len(asyncCh) <= Capacity
  /\ readers \subseteq Goroutines
  /\ chClosed \in BOOLEAN /\ closed \in BOOLEAN
  /\ published \in 0 .. MaxPublish /\ accepted \in Nat /\ handled \in Nat

Init ==
  /\ subs = {} /\ gone = {}
  /\ pc = [g \in Goroutines |-> "idle"]
  /\ task = [g \in Goroutines |-> {}] /\ rest = [g \in Goroutines |-> {}]
  /\ event = [g \in Goroutines |-> {}]
  /\ out = [g \in Goroutines |-> {}]
  /\ asyncCh = <<>> /\ chClosed = FALSE
  /\ readers = {} /\ closed = FALSE
  /\ published = 0 /\ accepted = 0 /\ handled = 0

Goes(g, where) == pc' = [pc EXCEPT ![g] = where]

-----------------------------------------------------------------------------
(* Subscriptions.                                                            *)

Subscribe(h) ==
  /\ h \notin subs \cup gone
  /\ subs' = subs \cup {h}
  /\ UNCHANGED <<gone, runVars, chanVars, lockVars, published, histVars>>

Unsubscribe(h) ==
  /\ h \in subs
  /\ subs' = subs \ {h} /\ gone' = gone \cup {h}
  /\ UNCHANGED <<runVars, chanVars, lockVars, published, histVars>>

(* A copy of the list as it is now; its order matters to no property.       *)
Collect(T) == {h \in subs : T \subseteq Listens[h]}

-----------------------------------------------------------------------------
(* Publish: the handlers run one after the other in the caller.             *)

Publish(g, t) ==
  /\ g \in Outside /\ pc[g] = "idle" /\ published < MaxPublish
  /\ ~ closed
  /\ rest' = [rest EXCEPT ![g] = Collect({t})]
  /\ Goes(g, "sync")
  /\ published' = published + 1
  /\ UNCHANGED <<subVars, task, event, out, chanVars, lockVars, histVars>>

CallNext(g) ==
  /\ pc[g] = "sync"
  /\ \/ /\ rest[g] = {}
        /\ Goes(g, "idle")
        /\ UNCHANGED <<task, rest>>
     \/ \E h \in rest[g] :
          /\ task' = [task EXCEPT ![g] = {h}]
          /\ rest' = [rest EXCEPT ![g] = @ \ {h}]
          /\ Goes(g, "run")
  /\ UNCHANGED <<subVars, event, out, chanVars, lockVars, published, histVars>>

(* The handler returns.  A worker goes for the next task whatever it        *)
(* returned; Publish goes on after nil and gives up after an error.         *)
HandlerReturns(g) ==
  /\ pc[g] = "run"
  /\ task' = [task EXCEPT ![g] = {}]
  /\ \/ /\ g \in Workers
        /\ Goes(g, "idle")
        /\ handled' = handled + 1
        /\ UNCHANGED rest
     \/ /\ g \in Outside
        /\ Goes(g, "sync")
        /\ UNCHANGED <<rest, handled>>
     \/ /\ g \in Outside
        /\ Goes(g, "idle")
        /\ rest' = [rest EXCEPT ![g] = {}]
        /\ UNCHANGED handled
  /\ UNCHANGED <<subVars, event, out, chanVars, lockVars, published, accepted>>

-----------------------------------------------------------------------------
(* PublishAsync.                                                             *)

MayCall(g, S) == (g \in Outside /\ pc[g] = "idle") \/ (pc[g] = "run" /\ task[g] \subseteq S)

Returns(g) == Goes(g, IF task[g] = {} THEN "idle" ELSE "run")

PublishAsync(g, t) ==
  /\ MayCall(g, Publishing) /\ published < MaxPublish
  /\ event' = [event EXCEPT ![g] = {t}]
  /\ Goes(g, "rlock")
  /\ published' = published + 1
  /\ UNCHANGED <<subVars, task, rest, out, chanVars, lockVars, histVars>>

WriterWaits == \E g \in Goroutines : pc[g] = "lock"

(* RLock, the test of closed, and collect.                                  *)
Enter(g) ==
  /\ pc[g] = "rlock" /\ ~ WriterWaits
  /\ IF closed
       THEN Returns(g) /\ UNCHANGED <<out, readers>>
       ELSE /\ out' = [out EXCEPT ![g] = Collect(event[g])]
            /\ readers' = readers \cup {g}
            /\ Goes(g, "send")
  /\ event' = [event EXCEPT ![g] = {}]
  /\ UNCHANGED <<subVars, task, rest, chanVars, closed, published, histVars>>

(* One send; it blocks while the channel is full.                           *)
Send(g) ==
  /\ pc[g] = "send" /\ Len(asyncCh) < Capacity
  /\ \E h \in out[g] :
       /\ asyncCh' = Append(asyncCh, h)
       /\ out' = [out EXCEPT ![g] = @ \ {h}]
  /\ accepted' = accepted + 1
  /\ UNCHANGED <<subVars, pc, task, rest, event, chClosed, lockVars, published, handled>>

(* mutant: RUnlock is forgotten *)
StillHeldBy(g) == readers

ReadersWithout(g) == readers \ {g}

(* All are sent: RUnlock.                                                    *)
Leave(g) ==
  /\ pc[g] = "send" /\ out[g] = {}
  /\ readers' = ReadersWithout(g)
  /\ Returns(g)
  /\ UNCHANGED <<subVars, task, rest, event, out, chanVars, closed, published, histVars>>

-----------------------------------------------------------------------------
(* worker: range over the channel.                                           *)

Receive(w) ==
  /\ w \in Workers /\ pc[w] = "idle" /\ asyncCh # <<>>
  /\ task' = [task EXCEPT ![w] = {Head(asyncCh)}]
  /\ asyncCh' = Tail(asyncCh)
  /\ Goes(w, "run")
  /\ UNCHANGED <<subVars, rest, event, out, chClosed, lockVars, published, histVars>>

Drained == chClosed /\ asyncCh = <<>>

Exit(w) ==
  /\ w \in Workers /\ pc[w] = "idle" /\ Drained
  /\ Goes(w, "exited")
  /\ UNCHANGED <<subVars, task, rest, event, out, chanVars, lockVars, published, histVars>>

-----------------------------------------------------------------------------
(* Close: the first caller closes, any other returns at once.               *)

Close(g) ==
  /\ MayCall(g, Closing)
  /\ ~ closed
  /\ closed' = TRUE
  /\ Goes(g, "lock")
  /\ UNCHANGED <<subVars, task, rest, event, out, chanVars, readers, published, histVars>>

(* mutant: close(asyncCh) without taking closeMu *)
NeverMindTheReaders == TRUE

NoReaders == readers = {}

(* Lock, close(asyncCh), Unlock.                                             *)
CloseChannel(g) ==
  /\ pc[g] = "lock" /\ NoReaders
  /\ chClosed' = TRUE
  /\ Goes(g, "wait")
  /\ UNCHANGED <<subVars, task, rest, event, out, asyncCh, lockVars, published, histVars>>

AllExited == \A w \in Workers : pc[w] = "exited"

CloseReturns(g) ==
  /\ pc[g] = "wait" /\ AllExited
  /\ Returns(g)
  /\ UNCHANGED <<subVars, task, rest, event, out, chanVars, lockVars, published, histVars>>

-----------------------------------------------------------------------------
Call(g) == \/ \E t \in Topics : Publish(g, t) \/ PublishAsync(g, t)
           \/ Close(g)

(* What goes on without a new call of anybody.                              *)
Proceed(g) == \/ CallNext(g) \/ HandlerReturns(g)
              \/ Enter(g) \/ Send(g) \/ Leave(g)
              \/ Receive(g) \/ Exit(g)
              \/ CloseChannel(g) \/ CloseReturns(g)

Next == \/ \E h \in Handlers : Subscribe(h) \/ Unsubscribe(h)
        \/ \E g \in Goroutines : Call(g) \/ Proceed(g)

Spec == Init /\ [][Next]_vars

(* Every goroutine is scheduled and handlers return; nobody has to publish, *)
(* subscribe or close.                                                       *)
LiveSpec == Spec /\ \A g \in Goroutines : WF_vars(Proceed(g))

-----------------------------------------------------------------------------
(* Correctness.                                                              *)

(* No task is ever sent on the closed channel, which would panic: whoever   *)
(* is sending holds closeMu, and Close waits for it.                         *)
NoSendAfterClose == chClosed => \A g \in Goroutines : pc[g] # "send"

(* When Close (the call that closed) returns, every task that was accepted  *)
(* has been handled, and nothing more is accepted or handled afterwards.    *)
CloseIsFinal ==
  closed /\ (\A g \in Goroutines : pc[g] \notin {"lock", "wait"}) =>
    /\ handled = accepted
    /\ \A w \in Workers : pc[w] = "exited"
    /\ \A g \in Goroutines : pc[g] # "send"

CloseIsClean == NoSendAfterClose /\ CloseIsFinal

(* How the bus can wedge: a worker's handler has called Close, which waits  *)
(* for that worker, or all workers are inside PublishAsync, waiting for     *)
(* room in the channel that only they make or for a lock that Close will    *)
(* give up only after a sender has found room.                              *)
Wedged == \/ \E w \in Workers : pc[w] \in {"lock", "wait"}
          \/ \A w \in Workers : pc[w] \in {"rlock", "send"}

(* Nothing else hangs: if a Publish, a PublishAsync or a Close never        *)
(* returns, or a task is never taken from the channel, it is because the    *)
(* bus is wedged; so it never is when no handler publishes or closes.       *)
HangsOnlyWedged ==
  \/ <>[] Wedged
  \/ /\ \A g \in Outside : []<>(pc[g] = "idle")
     /\ []<>(asyncCh = <<>>)
=============================================================================
