------------------------------- MODULE Outbox -------------------------------
(***************************************************************************)
(* The transactional outbox of domain/outbox and its GORM store.            *)
(*                                                                         *)
(* Business transactions insert a row into the table outbox_message; relay  *)
(* processes poll the table, publish the rows to a broker and mark them.    *)
(* Every relay runs three goroutines (poll, reset of stale rows, cleanup),  *)
(* which share nothing but the table.  Start after a Stop that timed out    *)
(* leaves the old goroutines running beside the new ones, so the goroutines *)
(* belong to a generation: one Loop is one generation of one relay.         *)
(*                                                                         *)
(* One SQL statement, and one transaction of FetchPending, is one step.     *)
(* Wall-clock time appears only as a choice: ResetStale may find any row    *)
(* that nobody works on older than staleTimeout, and Cleanup any Sent row   *)
(* older than cleanupAge; that a row somebody still works on is found stale *)
(* is the fault "slow".                                                     *)
(***************************************************************************)
EXTENDS Naturals, FiniteSets

CONSTANTS NumMsgs,     \* bound: how many rows are ever inserted
          Relays,      \* the relay processes
          MaxStarts,   \* bound: how often one relay is started
          BatchSize,   \* WithBatchSize
          MaxRetries,  \* WithMaxRetries
          Faults,      \* the faults that may happen, of AllFaults
          MaxFaults    \* bound: how many of them happen

AllFaults == {"broker", "db", "crash", "slow"}

ASSUME NumMsgsAssumption == NumMsgs \in Nat
ASSUME RelaysAssumption == IsFiniteSet(Relays)
ASSUME MaxStartsAssumption == MaxStarts \in Nat
ASSUME BatchSizeAssumption == BatchSize \in Nat
ASSUME MaxRetriesAssumption == MaxRetries \in Nat
ASSUME FaultsAssumption == Faults \subseteq AllFaults /\ MaxFaults \in Nat

VARIABLES
  tx,        \* tx[i]: the transaction that inserts row i
  status,    \* status[i]: column status of row i, as other transactions see it
  retry,     \* retry[i]: column retry_count of row i
  pc,        \* pc[w]: where the poll loop of w stands
  todo,      \* todo[w]: fetched and not yet sent, with the fetched retry_count
  sent,      \* sent[w]: sentIDs of the current poll
  failing,   \* failing[w]: the message whose send just failed, as a set
  aux,       \* aux[w]: the other loops of w that have not returned
  cancelled, \* cancelled[w]: relayCtx is done
  running,   \* running[r]: Relay.running
  gen,       \* gen[r]: how often r was started
  stop,      \* stop[w]: the Stop call that cancelled w
  delivered, \* delivered[i]: copies of message i the broker accepted
  resets,    \* resets[i]: how often ResetStale put row i back (history)
  faults     \* faults that have happened

dbVars   == <<tx, status, retry>>
pollVars == <<pc, todo, sent, failing>>
lifeVars == <<aux, cancelled, running, gen, stop>>
histVars == <<delivered, resets, faults>>
vars     == <<dbVars, pollVars, lifeVars, histVars>>

Ids   == 1 .. NumMsgs
Loops == Relays \X (1 .. MaxStarts)
Aux   == {"cleanup", "reset"}

TxState     == {"none", "open", "committed", "aborted", "direct"}
Status      == {"none", "pending", "processing", "sent", "failed", "deleted"}
PollState   == {"off", "first", "idle", "send", "fail", "exited"}
StopState   == {"none", "waiting", "ok", "timeout"}
Fetched     == [id : Ids, retry : Nat]
Durable     == {"committed", "direct"}

(* Types; a generation that was not started yet is off; a loop has messages *)
(* in hand only while a poll runs.                                           *)
TypeOK ==
  /\ tx \in [Ids -> TxState]
  /\ status \in [Ids -> Status]
  /\ retry \in [Ids -> Nat]
  /\ pc \in [Loops -> PollState]
  /\ todo \in [Loops -> SUBSET Fetched]
  /\ sent \in [Loops -> SUBSET Ids]
  /\ failing \in [Loops -> SUBSET Ids]
  /\ aux \in [Loops -> SUBSET Aux]
  /\ cancelled \in [Loops -> BOOLEAN]
  /\ running \in [Relays -> BOOLEAN]
  /\ gen \in [Relays -> 0 .. MaxStarts]
  /\ stop \in [Loops -> StopState]
  /\ delivered \in [Ids -> Nat]
  /\ resets \in [Ids -> Nat]
  /\ faults \in 0 .. MaxFaults
  /\ \A w \in Loops :
       /\ w[2] > gen[w[1]] => pc[w] = "off" /\ aux[w] = {} /\ ~ cancelled[w]
       /\ pc[w] # "fail" => failing[w] = {}
       /\ pc[w] \notin {"send", "fail"} => todo[w] = {} /\ sent[w] = {}

Init ==
  /\ tx = [i \in Ids |-> "none"]
  /\ status = [i \in Ids |-> "none"]
  /\ retry = [i \in Ids |-> 0]
  /\ pc = [w \in Loops |-> "off"]
  /\ todo = [w \in Loops |-> {}]
  /\ sent = [w \in Loops |-> {}]
  /\ failing = [w \in Loops |-> {}]
  /\ aux = [w \in Loops |-> {}]
  /\ cancelled = [w \in Loops |-> FALSE]
  /\ running = [r \in Relays |-> FALSE]
  /\ gen = [r \in Relays |-> 0]
  /\ stop = [w \in Loops |-> "none"]
  /\ delivered = [i \in Ids |-> 0]
  /\ resets = [i \in Ids |-> 0]
  /\ faults = 0

MayFail(f) == f \in Faults /\ faults < MaxFaults

(* How one database call may end: it did its work; it did nothing and       *)
(* returned an error; it did its work and the answer was lost.               *)
DbOutcomes == {"ok"} \cup (IF MayFail("db") THEN {"error", "lost"} ELSE {})

Charge(outcome) == faults' = IF outcome = "ok" THEN faults ELSE faults + 1

-----------------------------------------------------------------------------
(* The business side.  Ids are handed out by the insert (autoIncrement), so *)
(* in order; transactions may commit in another order.                       *)

Unused(i) == tx[i] = "none" /\ \A j \in Ids : j < i => tx[j] # "none"

(* What others see of a row saved inside a transaction that is still open.  *)
SavedInTx == "none"

(* Save with a transaction in the context.                                   *)
Save(i) ==
  /\ Unused(i)
  /\ tx' = [tx EXCEPT ![i] = "open"]
  /\ status' = [status EXCEPT ![i] = SavedInTx]
  /\ UNCHANGED <<retry, pollVars, lifeVars, histVars>>

(* Save without one: visible at once, and tied to no business write.        *)
SaveDirect(i) ==
  /\ Unused(i)
  /\ tx' = [tx EXCEPT ![i] = "direct"]
  /\ status' = [status EXCEPT ![i] = "pending"]
  /\ UNCHANGED <<retry, pollVars, lifeVars, histVars>>

(* WithTx: fn returned nil, the business write and the row become visible.  *)
Commit(i) ==
  /\ tx[i] = "open"
  /\ tx' = [tx EXCEPT ![i] = "committed"]
  /\ status' = [status EXCEPT ![i] = "pending"]
  /\ UNCHANGED <<retry, pollVars, lifeVars, histVars>>

(* WithTx: fn returned an error or panicked, or the process died.           *)
Rollback(i) ==
  /\ tx[i] = "open"
  /\ tx' = [tx EXCEPT ![i] = "aborted"]
  /\ UNCHANGED <<status, retry, pollVars, lifeVars, histVars>>

-----------------------------------------------------------------------------
(* The life of a relay.                                                      *)

Start(r) ==
  /\ ~ running[r]
  /\ gen[r] < MaxStarts
  /\ LET w == <<r, gen[r] + 1>> IN
       /\ gen' = [gen EXCEPT ![r] = @ + 1]
       /\ pc' = [pc EXCEPT ![w] = "first"]
       /\ aux' = [aux EXCEPT ![w] = Aux]
  /\ running' = [running EXCEPT ![r] = TRUE]
  /\ UNCHANGED <<dbVars, todo, sent, failing, cancelled, stop, histVars>>

Stop(r) ==
  /\ running[r]
  /\ running' = [running EXCEPT ![r] = FALSE]
  /\ cancelled' = [cancelled EXCEPT ![<<r, gen[r]>>] = TRUE]
  /\ stop' = [stop EXCEPT ![<<r, gen[r]>>] = "waiting"]
  /\ UNCHANGED <<dbVars, pollVars, aux, gen, histVars>>

(* mutant: only the poll loop is counted by the WaitGroup *)
PollQuiet(w) == pc[w] \in {"off", "exited"}

Quiet(w) == pc[w] \in {"off", "exited"} /\ aux[w] = {}

(* r.wg is one WaitGroup for all generations of the relay.                  *)
StopReturns(w) ==
  /\ stop[w] = "waiting"
  /\ \A v \in Loops : v[1] = w[1] => Quiet(v)
  /\ stop' = [stop EXCEPT ![w] = "ok"]
  /\ UNCHANGED <<dbVars, pollVars, aux, cancelled, running, gen, histVars>>

StopTimesOut(w) ==
  /\ stop[w] = "waiting"
  /\ stop' = [stop EXCEPT ![w] = "timeout"]
  /\ UNCHANGED <<dbVars, pollVars, aux, cancelled, running, gen, histVars>>

(* The process dies: everything in memory is lost, the table is not.        *)
Crash(r) ==
  /\ MayFail("crash")
  /\ \E w \in Loops : w[1] = r /\ ~ Quiet(w)
  /\ pc' = [w \in Loops |-> IF w[1] = r /\ pc[w] # "off" THEN "exited" ELSE pc[w]]
  /\ todo' = [w \in Loops |-> IF w[1] = r THEN {} ELSE todo[w]]
  /\ sent' = [w \in Loops |-> IF w[1] = r THEN {} ELSE sent[w]]
  /\ failing' = [w \in Loops |-> IF w[1] = r THEN {} ELSE failing[w]]
  /\ aux' = [w \in Loops |-> IF w[1] = r THEN {} ELSE aux[w]]
  /\ stop' = [w \in Loops |-> IF w[1] = r /\ stop[w] = "waiting" THEN "none" ELSE stop[w]]
  /\ running' = [running EXCEPT ![r] = FALSE]
  /\ faults' = faults + 1
  /\ UNCHANGED <<dbVars, cancelled, gen, delivered, resets>>

-----------------------------------------------------------------------------
(* One poll: FetchPending, the sends in the order of the ids, MarkSent.     *)

Pending == {i \in Ids : status[i] = "pending"}

(* mutant: the limit is off by one *)
OldestButOne(S) == {i \in S : Cardinality({j \in S : j < i}) + 1 < BatchSize}

(* Order("id ASC").Limit(BatchSize)                                          *)
Oldest(S) == {i \in S : Cardinality({j \in S : j < i}) < BatchSize}

(* mutant: the rows are selected and never marked *)
Unclaimed == "pending"

(* The status FetchPending gives to the rows it returns.                     *)
Claimed == "processing"

(* FetchPending: select the oldest Pending rows (FOR UPDATE SKIP LOCKED)    *)
(* and mark them Processing in one transaction.  If it returns an error the *)
(* poll is over, whether or not the transaction took effect.                *)
FetchEnds(w, outcome) ==
  /\ pc[w] \in {"first", "idle"}
  /\ LET batch == Oldest(Pending) IN
       /\ status' = [i \in Ids |-> IF i \in batch /\ outcome # "error"
                                     THEN Claimed ELSE status[i]]
       /\ IF outcome = "ok" /\ batch # {}
            THEN /\ pc' = [pc EXCEPT ![w] = "send"]
                 /\ todo' = [todo EXCEPT ![w] =
                               {[id |-> i, retry |-> retry[i]] : i \in batch}]
            ELSE /\ pc' = [pc EXCEPT ![w] = "idle"]
                 /\ UNCHANGED todo
  /\ Charge(outcome)
  /\ UNCHANGED <<tx, retry, sent, failing, lifeVars, delivered, resets>>

Fetch(w) == \E outcome \in DbOutcomes : FetchEnds(w, outcome)

(* What send may return for m: "ok" (the broker has it), "error" (it does   *)
(* not), "lost" (it does, and the caller sees an error).  A message at      *)
(* maxRetries is not published at all; a cancelled relayCtx, which is the   *)
(* context given to Publish, makes it fail without any fault.               *)
SendOutcomes(w, m) ==
  IF m.retry >= MaxRetries THEN {"error"}
  ELSE {"ok"} \cup (IF cancelled[w] \/ MayFail("broker") THEN {"error", "lost"} ELSE {})

IsFault(w, m, outcome) == outcome # "ok" /\ ~ cancelled[w] /\ m.retry < MaxRetries

(* mutant: the id is put on sentIDs whatever Publish returned *)
AlwaysConfirmed(outcome) == TRUE

Confirmed(outcome) == outcome = "ok"

SendEnds(w, m, outcome) ==
  /\ pc[w] = "send"
  /\ \A n \in todo[w] : m.id <= n.id
  /\ todo' = [todo EXCEPT ![w] = @ \ {m}]
  /\ delivered' = [delivered EXCEPT ![m.id] = IF outcome = "error" THEN @ ELSE @ + 1]
  /\ IF Confirmed(outcome)
       THEN /\ sent' = [sent EXCEPT ![w] = @ \cup {m.id}]
            /\ UNCHANGED <<pc, failing>>
       ELSE /\ failing' = [failing EXCEPT ![w] = {m.id}]
            /\ pc' = [pc EXCEPT ![w] = "fail"]
            /\ UNCHANGED sent
  /\ faults' = IF IsFault(w, m, outcome) THEN faults + 1 ELSE faults
  /\ UNCHANGED <<dbVars, lifeVars, resets>>

Send(w) == \E m \in todo[w] : \E outcome \in SendOutcomes(w, m) : SendEnds(w, m, outcome)

InTable(i) == status[i] \notin {"none", "deleted"}

(* MarkFailed: by id alone, whatever the status of the row is by now.       *)
MarkFailedEnds(w, outcome) ==
  /\ pc[w] = "fail"
  /\ LET hit(i) == i \in failing[w] /\ InTable(i) /\ outcome # "error" IN
       /\ status' = [i \in Ids |-> IF hit(i) THEN "failed" ELSE status[i]]
       /\ retry' = [i \in Ids |-> IF hit(i) THEN retry[i] + 1 ELSE retry[i]]
  /\ Charge(outcome)
  /\ failing' = [failing EXCEPT ![w] = {}]
  /\ pc' = [pc EXCEPT ![w] = "send"]
  /\ UNCHANGED <<tx, todo, sent, lifeVars, delivered, resets>>

MarkFailed(w) == \E outcome \in DbOutcomes : MarkFailedEnds(w, outcome)

FreshSentIDs(w) == {}

(* The end of a poll: one MarkSent for everything the broker took, again by *)
(* id alone; an error is logged and forgotten.                               *)
MarkSentEnds(w, outcome) ==
  /\ pc[w] = "send" /\ todo[w] = {}
  /\ outcome = "ok" \/ sent[w] # {}
  /\ status' = [i \in Ids |-> IF i \in sent[w] /\ InTable(i) /\ outcome # "error"
                                THEN "sent" ELSE status[i]]
  /\ Charge(outcome)
  /\ sent' = [sent EXCEPT ![w] = FreshSentIDs(w)]
  /\ pc' = [pc EXCEPT ![w] = "idle"]
  /\ UNCHANGED <<tx, retry, todo, failing, lifeVars, delivered, resets>>

MarkSent(w) == \E outcome \in DbOutcomes : MarkSentEnds(w, outcome)

(* select in pollLoop: with both channels ready either may be taken, so a   *)
(* cancelled loop may still poll.                                            *)
PollExit(w) ==
  /\ pc[w] = "idle" /\ cancelled[w]
  /\ pc' = [pc EXCEPT ![w] = "exited"]
  /\ UNCHANGED <<dbVars, todo, sent, failing, lifeVars, histVars>>

-----------------------------------------------------------------------------
(* The two other loops.                                                      *)

InHand(w) == {m.id : m \in todo[w]} \cup sent[w] \cup failing[w]
Held(i)   == \E w \in Loops : i \in InHand(w)

(* mutant: the age of the row is not looked at *)
AnyAge(S) == TRUE

(* updated_at < threshold for every row of S: no surprise for a row nobody  *)
(* works on, a fault for one that somebody does.                             *)
Stale(S) == (\E i \in S : Held(i)) => MayFail("slow")

(* ResetStale: Processing rows older than staleTimeout go back to Pending.  *)
ResetRows(w, S) ==
  /\ "reset" \in aux[w]
  /\ S # {} /\ \A i \in S : status[i] = "processing"
  /\ Stale(S)
  /\ status' = [i \in Ids |-> IF i \in S THEN "pending" ELSE status[i]]
  /\ resets' = [i \in Ids |-> IF i \in S THEN resets[i] + 1 ELSE resets[i]]
  /\ faults' = IF \E i \in S : Held(i) THEN faults + 1 ELSE faults
  /\ UNCHANGED <<tx, retry, pollVars, lifeVars, delivered>>

ResetStale(w) == \E S \in SUBSET Ids : ResetRows(w, S)

(* Cleanup: Sent rows older than cleanupAge are deleted.                    *)
CleanRows(w, S) ==
  /\ "cleanup" \in aux[w]
  /\ S # {} /\ \A i \in S : status[i] = "sent"
  /\ status' = [i \in Ids |-> IF i \in S THEN "deleted" ELSE status[i]]
  /\ UNCHANGED <<tx, retry, pollVars, lifeVars, histVars>>

Cleanup(w) == \E S \in SUBSET Ids : CleanRows(w, S)

(* mutant: resetStaleLoop does not look at ctx.Done() *)
OnlyCleanupListens(w) == aux[w] \ {"reset"}

Listening(w) == aux[w]

AuxExit(w) ==
  /\ cancelled[w]
  /\ \E l \in Listening(w) : aux' = [aux EXCEPT ![w] = @ \ {l}]
  /\ UNCHANGED <<dbVars, pollVars, cancelled, running, gen, stop, histVars>>

-----------------------------------------------------------------------------
Business(i) == Save(i) \/ SaveDirect(i) \/ Commit(i) \/ Rollback(i)

Life == \/ \E r \in Relays : Start(r) \/ Stop(r) \/ Crash(r)
        \/ \E w \in Loops : StopReturns(w) \/ StopTimesOut(w)

PollLoop(w) == Fetch(w) \/ Send(w) \/ MarkFailed(w) \/ MarkSent(w) \/ PollExit(w)

AuxLoops(w) == ResetStale(w) \/ Cleanup(w) \/ AuxExit(w)

Next == \/ \E i \in Ids : Business(i)
        \/ Life
        \/ \E w \in Loops : PollLoop(w) \/ AuxLoops(w)

Spec == Init /\ [][Next]_vars

(* The goroutines of a relay are scheduled, tickers tick and a database or  *)
(* broker call returns; nobody has to start, stop or crash anything, and    *)
(* transactions need not end.                                               *)
Fairness ==
  \A w \in Loops : /\ WF_vars(Fetch(w))
                   /\ WF_vars(Send(w))
                   /\ WF_vars(MarkFailed(w))
                   /\ WF_vars(MarkSent(w))
                   /\ WF_vars(PollExit(w))
                   /\ WF_vars(ResetStale(w))
                   /\ WF_vars(AuxExit(w))
                   /\ WF_vars(StopReturns(w))

LiveSpec == Spec /\ Fairness

-----------------------------------------------------------------------------
(* Safety.                                                                   *)

(* A message whose insert was committed and that the broker never took is   *)
(* still in the table with a status that says so, whatever fails or dies:   *)
(* neither MarkSent nor Cleanup ever disposes of an undelivered message.    *)
NothingLost ==
  \A i \in Ids : tx[i] \in Durable /\ delivered[i] = 0
                   => status[i] \in {"pending", "processing", "failed"}

(* No message of a transaction that is open or was rolled back reaches the  *)
(* broker: business write and message are one unit.                          *)
NoPhantom == \A i \in Ids : delivered[i] > 0 => tx[i] \in Durable

(* The bookkeeping both rest on, inductive with TypeOK: a row is visible    *)
(* exactly when its insert was committed, whatever was delivered or is in   *)
(* hand has a row, and only what was delivered is on a list of sent ids, is *)
(* Sent, or was deleted.                                                     *)
Ledger ==
  /\ \A i \in Ids :
       /\ tx[i] \in Durable <=> status[i] # "none"
       /\ delivered[i] > 0 => status[i] # "none"
       /\ status[i] \in {"sent", "deleted"} => delivered[i] > 0
  /\ \A w \in Loops :
       /\ \A m \in todo[w] : status[m.id] # "none"
       /\ \A i \in sent[w] \cup failing[w] : status[i] # "none"
       /\ \A i \in sent[w] : delivered[i] > 0

(* The broker sees a second copy of a message only after ResetStale put the *)
(* row back: without it, delivery is at most once, with any number of       *)
(* relays on the table.                                                      *)
DuplicatesAreResets == \A i \in Ids : delivered[i] <= resets[i] + 1

(* Why that is so: the copies delivered, the loops about to send one, and   *)
(* the fetch that a Pending row still has coming are paid for by the insert *)
(* and by the resets.                                                        *)
Waiting(i) == {w \in Loops : \E m \in todo[w] : m.id = i}

AttemptsArePaid ==
  \A i \in Ids :
    delivered[i] + Cardinality(Waiting(i)) + (IF status[i] = "pending" THEN 1 ELSE 0)
      <= resets[i] + 1

(* A loop holds a message once: to be sent, sent, or just failed.           *)
HoldsOnce ==
  \A w \in Loops :
    /\ \A m, n \in todo[w] : m.id = n.id => m = n
    /\ \A m \in todo[w] : m.id \notin sent[w] \cup failing[w]
    /\ sent[w] \cap failing[w] = {}

(* As long as no relay is slower than staleTimeout, no two poll loops (of   *)
(* one relay or of several) have the same message in hand, and a message in *)
(* hand is Processing: no mark can overwrite a later state.                  *)
OneHolder ==
  \A i \in Ids : \A v, w \in Loops :
    i \in InHand(v) => /\ status[i] = "processing"
                       /\ i \in InHand(w) => v = w

(* When Stop has returned nil, no goroutine of that or of an earlier        *)
(* generation of the relay is left, so the store may be closed.              *)
StopIsQuiet ==
  \A w \in Loops : stop[w] = "ok" =>
    \A v \in Loops :
      v[1] = w[1] /\ v[2] <= w[2] => pc[v] \in {"off", "exited"} /\ aux[v] = {}

(* Without slow relays the outbox keeps the promise of AtLeastOnce.         *)
Promise == INSTANCE AtLeastOnce WITH
  debt   <- [i \in Ids |-> CASE status[i] = "none" -> "none"
                             [] status[i] \in {"pending", "processing"} -> "owed"
                             [] status[i] = "failed" -> "abandoned"
                             [] status[i] \in {"sent", "deleted"} -> "settled"],
  copies <- delivered

KeepsPromise == Promise!AbstractSpec

-----------------------------------------------------------------------------
(* Liveness.                                                                 *)

Owed(i) == status[i] \in {"pending", "processing"}

SomeRelayStays == \E w \in Loops : pc[w] \notin {"off", "exited"} /\ ~ cancelled[w]

(* If from some time on some relay is up and not told to stop, every        *)
(* message that is owed ends as sent or failed: rows left Processing by a   *)
(* dead relay, or by a MarkSent that failed, are picked up by another.      *)
EverythingSettled == <>[] SomeRelayStays => \A i \in Ids : Owed(i) ~> ~ Owed(i)

(* A Stop without a deadline returns, unless the relay is started again     *)
(* under it.                                                                 *)
StopEnds ==
  \A w \in Loops : (stop[w] = "waiting") ~> (stop[w] # "waiting" \/ running[w[1]])
=============================================================================
