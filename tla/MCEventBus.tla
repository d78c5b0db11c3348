----------------------------- MODULE MCEventBus -----------------------------
(* Small instances of EventBus: one topic handler that publishes in turn,   *)
(* one wildcard handler that does not, one that closes the bus.             *)
EXTENDS EventBus

CONSTANTS g1, g2, w1, nested, plain, closing, t1, t2

TwoOutside   == {g1, g2}
OneWorker    == {w1}
ThreeKinds   == {nested, plain, closing}
TwoTopics    == {t1, t2}
WhoListens   == [h \in ThreeKinds |-> CASE h = nested  -> {t1}
                                       [] h = plain   -> {t1, t2}
                                       [] h = closing -> {t2}]
Nesting      == {nested}
ClosingOnes  == {closing}
=============================================================================
