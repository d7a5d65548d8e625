------------------------------- MODULE Sender -------------------------------
(***************************************************************************)
(* The push side, internal/push: Sender.Push, run once a cycle by the       *)
(* poller's goroutine through Config.OnCycle, and Sender.Shutdown, run by   *)
(* main's.  Both drain the ring of unsent batches, one at a time under the  *)
(* drain token; each batch goes to the OTLP receiver in an Export that      *)
(* makes at most one request (the retry is off).                            *)
(*                                                                          *)
(* A batch is the number of the cycle it was collected in, which is also    *)
(* the order of the takenAt it is stamped with.  Contexts end at a moment   *)
(* nobody chooses, so there is no clock.  The exporter lets two Exports run *)
(* at once: more than the library may allow, never less.                    *)
(***************************************************************************)
EXTENDS Integers, Sequences, FiniteSets, Functions, Ring

CONSTANTS
    MaxCycles,       \* bound on the cycles pushed
    MaxCyclesAlone,  \* the same where Shutdown does not wait for the poller
    Wirings          \* which values of joinFirst to explore

ASSUME SenderAssumption ==
    MaxCycles \in Nat /\ MaxCyclesAlone \in 0..MaxCycles /\ Wirings \subseteq BOOLEAN

VARIABLES
    joinFirst,  \* Shutdown waits for the poller, as main's stop sequence has it;
                \* Sender itself allows them to run at once
    pc,         \* where Push and Shutdown are
    spent,      \* whose context is over
    item,       \* the batch each is exporting; NoBatch for the process body
    rt,         \* what became of that Export's request
    cycle,      \* the last cycle begun
    fresh,      \* the batch Push collected; NoBatch once disposed of, or empty
    errs,       \* the kinds of error this Push met so far
    ring,       \* Sender.ring
    refused,    \* Sender.refused
    failing,    \* Sender.failing: the log's last word is "push failed"
    token,      \* who holds drainToken
    last,       \* statusTransport.last
    closed,     \* the exporter is shut down
    metrics,    \* pushMetrics: buffered, dropped, ok, failed
    left,       \* Shutdown's count of what stays in the ring; -1 when not drained
    drainErr,   \* Shutdown's error from its drain
    \* History.
    fate,       \* what became of each cycle's batch
    stored,     \* the last batch the receiver stored
    turnedDown  \* the last batch the receiver answered with a refusal

history  == <<fate, stored, turnedDown>>
pushVars == <<cycle, fresh, errs, failing>>
stopVars == <<closed, left, drainErr>>
vars == <<joinFirst, pc, spent, item, rt, pushVars, ring, refused, token, last, metrics,
          stopVars, history>>

Procs   == {"push", "stop"}
NoBatch == nil

\* The answers of a receiver, by what permanent makes of their status: "refused"
\* is a 4xx but 408 and 429, "retry" any other failure.
Answers == {"ok", "refused", "retry"}
permanent(code) == code = "refused"

DroppedEvictionsOnly == ring.evicted
Dropped == ring.evicted + refused

Init ==
    /\ joinFirst \in Wirings
    /\ pc = [push |-> "idle", stop |-> "off"]
    /\ spent = [p \in Procs |-> FALSE]
    /\ item = [p \in Procs |-> NoBatch] /\ rt = [p \in Procs |-> "none"]
    /\ cycle = 0 /\ fresh = NoBatch /\ errs = {} /\ ring = newRing /\ refused = 0
    /\ failing = FALSE /\ token = "free" /\ last = "none" /\ closed = FALSE
    /\ metrics = [buffered |-> 0, dropped |-> 0, ok |-> 0, failed |-> 0]
    /\ left = 0 /\ drainErr = FALSE
    /\ fate = [b \in 1..MaxCycles |-> "none"] /\ stored = NoBatch
    /\ turnedDown = NoBatch

-----------------------------------------------------------------------------
(* The ring, and one Export.                                                *)

\* ring.push of a batch that could not be sent; the oldest may make room.
Keep(b) ==
    /\ ring' = push(ring, b)
    /\ fate' = IF full(ring) THEN [fate EXCEPT ![oldest(ring)] = "evicted"] ELSE fate

\* Export starts.  On a spent context, or on a closed exporter, it makes no
\* request at all; the process body goes out without a reset of the status.
Export(p, b, where) ==
    /\ pc' = [pc EXCEPT ![p] = where]
    /\ item' = [item EXCEPT ![p] = b]
    /\ rt' = [rt EXCEPT ![p] = IF spent[p] \/ closed THEN "skipped" ELSE "pending"]

SendWithoutReset(p, b, where) == Export(p, b, where) /\ UNCHANGED last

\* send: reset, then Export.
send(p, b, where) == Export(p, b, where) /\ last' = "none"

Exporting(p) == pc[p] \in {"sending", "sendingFresh", "sendingProcess"}

\* RoundTrip comes back with an answer, or without one: the request or its reply
\* was lost, and the receiver may have stored the batch all the same.
RoundTrip(p) ==
    /\ Exporting(p) /\ rt[p] = "pending"
    /\ \E code \in Answers \cup {"none"}, arrived \in BOOLEAN :
         /\ code = "ok" => arrived
         /\ code \in {"refused", "retry"} => ~arrived
         /\ code # "none" => ~spent[p]
         /\ rt' = [rt EXCEPT ![p] = IF code = "none" THEN "lost" ELSE code]
         /\ last' = code
         /\ stored' = IF arrived /\ item[p] # NoBatch THEN item[p] ELSE stored
         /\ turnedDown' = IF code = "refused" THEN item[p] ELSE turnedDown
    /\ UNCHANGED <<joinFirst, pc, spent, item, pushVars, ring, refused, token, metrics,
                   stopVars, fate>>

\* What Export returned: nil only for an answered ok, and not even then if the
\* context ended before the body was read.
Returns(p) == Exporting(p) /\ rt[p] \notin {"none", "pending"}
Sent(p)    == Returns(p) /\ rt[p] = "ok"
NotSent(p) == Returns(p) /\ (rt[p] = "ok" => spent[p])

\* The three ends of send, and what each counts.
Counted(ok) == metrics' = IF ok THEN [metrics EXCEPT !.ok = @ + 1]
                          ELSE [metrics EXCEPT !.failed = @ + 1]

SendSucceeds(p) ==
    /\ Sent(p) /\ Counted(TRUE) /\ fate' = [fate EXCEPT ![item[p]] = "delivered"]
    /\ UNCHANGED <<refused, errs>>

\* Push keeps what it met for report; Shutdown's drain reports on its own.  A send
\* that failed is the drain's error or the fresh batch's.
Met(p, err) == errs' = IF p = "push" THEN errs \cup {err} ELSE errs

SendRefused(p) ==
    /\ NotSent(p) /\ permanent(last) /\ Counted(FALSE) /\ Met(p, "refused")
    /\ refused' = refused + 1 /\ fate' = [fate EXCEPT ![item[p]] = "refused"]

SendFails(p) ==
    /\ NotSent(p) /\ ~permanent(last) /\ Counted(FALSE)
    /\ Met(p, IF pc[p] = "sending" THEN "drain" ELSE "send")
    /\ UNCHANGED refused

EndExport(p) == item' = [item EXCEPT ![p] = NoBatch] /\ rt' = [rt EXCEPT ![p] = "none"]

-----------------------------------------------------------------------------
(* Draining, by whoever holds the token.                                    *)

KeptToken == UNCHANGED token
Free == token' = "free"

\* drain peeks at the head and sends it.
DrainNext(p) ==
    /\ pc[p] = "drain" /\ len(ring) > 0
    /\ send(p, oldest(ring), "sending")
    /\ UNCHANGED <<joinFirst, spent, pushVars, ring, refused, token, metrics, stopVars,
                   history>>

\* A batch sent, or refused for good, leaves the ring.
DrainedOne(p) ==
    /\ pc[p] = "sending"
    /\ SendSucceeds(p) \/ SendRefused(p)
    /\ EndExport(p)
    /\ ring' = removeOldest(ring)
    /\ pc' = [pc EXCEPT ![p] = "drain"]
    /\ UNCHANGED <<joinFirst, spent, cycle, fresh, failing, token, last, stopVars,
                   stored, turnedDown>>

\* Push's drain stops: the fresh batch queues behind what was not sent.
PushDrainFails ==
    /\ pc["push"] = "sending" /\ SendFails("push") /\ EndExport("push")
    /\ IF fresh = NoBatch THEN UNCHANGED <<ring, fate>> ELSE Keep(fresh)
    /\ fresh' = NoBatch /\ Free
    /\ pc' = [pc EXCEPT !["push"] = "process"]
    /\ UNCHANGED <<joinFirst, spent, cycle, failing, last, stopVars, stored, turnedDown>>

StopDrainFailsSilently ==
    /\ pc["stop"] = "sending" /\ SendFails("stop") /\ EndExport("stop")
    /\ left' = len(ring) /\ Free
    /\ pc' = [pc EXCEPT !["stop"] = "close"]
    /\ UNCHANGED <<joinFirst, spent, cycle, fresh, failing, ring, last, closed, drainErr,
                   history>>

\* Shutdown's does: what is left is counted before the token goes.
StopDrainFails ==
    /\ pc["stop"] = "sending" /\ SendFails("stop") /\ EndExport("stop")
    /\ left' = len(ring) /\ drainErr' = TRUE /\ Free
    /\ pc' = [pc EXCEPT !["stop"] = "close"]
    /\ UNCHANGED <<joinFirst, spent, cycle, fresh, failing, ring, last, closed, history>>

-----------------------------------------------------------------------------
(* Push.                                                                    *)

\* What most steps of Push leave alone, and what Shutdown's leave alone.
Held    == UNCHANGED <<joinFirst, refused, stopVars, stored, turnedDown>>
Resting == UNCHANGED <<joinFirst, pushVars, item, rt, refused, last, metrics, history>>

LastCycle == IF joinFirst THEN MaxCycles ELSE MaxCyclesAlone

\* The cycle is collected before anything is sent.  A registry that gathered
\* nothing gives a batch without metrics.
PushCollects ==
    /\ pc["push"] = "idle" /\ cycle < LastCycle
    /\ cycle' = cycle + 1
    /\ \E empty \in BOOLEAN :
         /\ fresh' = IF empty THEN NoBatch ELSE cycle + 1
         /\ fate' = [fate EXCEPT ![cycle + 1] = IF empty THEN "empty" ELSE "pending"]
    /\ spent' = [spent EXCEPT !["push"] = FALSE]
    /\ pc' = [pc EXCEPT !["push"] = "waiting"]
    /\ UNCHANGED <<item, rt, errs, failing, ring, token, last, metrics>> /\ Held

\* Collect returns an error, and Push with it, past syncBuffer and report.
CollectFails ==
    /\ pc["push"] = "idle" /\ cycle < LastCycle
    /\ cycle' = cycle + 1 /\ fate' = [fate EXCEPT ![cycle + 1] = "empty"]
    /\ UNCHANGED <<pc, spent, item, rt, fresh, errs, failing, ring, token, last, metrics>>
    /\ Held

\* deliver waits for the token however long it takes.
PushTakesToken ==
    /\ pc["push"] = "waiting" /\ token = "free"
    /\ token' = "push" /\ pc' = [pc EXCEPT !["push"] = "drain"]
    /\ UNCHANGED <<spent, item, rt, pushVars, ring, last, metrics, fate>> /\ Held

PushSendsFreshFirst ==
    /\ pc["push"] = "drain" /\ fresh # NoBatch
    /\ send("push", fresh, "sendingFresh")
    /\ UNCHANGED <<spent, pushVars, ring, token, metrics, fate>> /\ Held

\* The ring is empty: the fresh batch goes, if there is one.
PushSendsFresh ==
    /\ pc["push"] = "drain" /\ len(ring) = 0 /\ fresh # NoBatch
    /\ send("push", fresh, "sendingFresh")
    /\ UNCHANGED <<spent, pushVars, ring, token, metrics, fate>> /\ Held

PushHasNothingFresh ==
    /\ pc["push"] = "drain" /\ len(ring) = 0 /\ fresh = NoBatch
    /\ Free /\ pc' = [pc EXCEPT !["push"] = "process"]
    /\ UNCHANGED <<spent, item, rt, pushVars, ring, last, metrics, fate>> /\ Held

\* The token is released only once the fresh batch is disposed of.
FreshDone ==
    /\ pc["push"] = "sendingFresh"
    /\ SendSucceeds("push") \/ SendRefused("push")
    /\ EndExport("push") /\ fresh' = NoBatch /\ Free
    /\ pc' = [pc EXCEPT !["push"] = "process"]
    /\ UNCHANGED <<joinFirst, spent, cycle, failing, ring, last, stopVars, stored, turnedDown>>

FreshKept ==
    /\ pc["push"] = "sendingFresh" /\ SendFails("push") /\ EndExport("push")
    /\ Keep(fresh) /\ fresh' = NoBatch /\ Free
    /\ pc' = [pc EXCEPT !["push"] = "process"]
    /\ UNCHANGED <<joinFirst, spent, cycle, failing, last, stopVars, stored, turnedDown>>

\* The process metrics, outside the token; Collect refuses a spent context.
PushSendsProcess ==
    /\ pc["push"] = "process" /\ ~spent["push"]
    /\ Export("push", NoBatch, "sendingProcess")
    /\ UNCHANGED <<spent, pushVars, ring, token, last, metrics, fate>> /\ Held

PushSkipsProcess ==
    /\ pc["push"] = "process" /\ spent["push"]
    /\ pc' = [pc EXCEPT !["push"] = "sync"]
    /\ UNCHANGED <<spent, item, rt, pushVars, ring, token, last, metrics, fate>> /\ Held

ProcessDone ==
    /\ pc["push"] = "sendingProcess" /\ Returns("push") /\ EndExport("push")
    /\ pc' = [pc EXCEPT !["push"] = "sync"]
    /\ UNCHANGED <<spent, pushVars, ring, token, last, metrics, fate>> /\ Held

\* Slip: report is handed the error of the cycle's own send only.
ReportOfTheSend == IF "send" \in errs THEN TRUE
                   ELSE IF "refused" \in errs THEN failing ELSE FALSE
\* report: an outage begins with a failure and ends with a cycle clean of both;
\* a refusal alone changes nothing.
report == IF errs \ {"refused"} # {} THEN TRUE ELSE IF errs = {} THEN FALSE ELSE failing

\* syncBuffer and report.
PushReports ==
    /\ pc["push"] = "sync"
    /\ metrics' = [metrics EXCEPT !.buffered = len(ring),
                                  !.dropped = IF Dropped > @ THEN Dropped ELSE @]
    /\ failing' = report /\ errs' = {}
    /\ pc' = [pc EXCEPT !["push"] = "idle"]
    /\ UNCHANGED <<spent, item, rt, cycle, fresh, ring, token, last, fate>> /\ Held

\* Run has returned: no further cycle.
PollerDone ==
    /\ pc["push"] = "idle"
    /\ pc' = [pc EXCEPT !["push"] = "stopped"]
    /\ UNCHANGED <<spent, item, rt, pushVars, ring, token, last, metrics, fate>> /\ Held

-----------------------------------------------------------------------------
(* Shutdown.                                                                *)

StopBegins ==
    /\ pc["stop"] = "off" /\ (joinFirst => pc["push"] = "stopped")
    /\ pc' = [pc EXCEPT !["stop"] = "waiting"]
    /\ UNCHANGED <<spent, ring, token, stopVars>> /\ Resting

StopTakesToken ==
    /\ pc["stop"] = "waiting" /\ token = "free"
    /\ token' = "stop" /\ pc' = [pc EXCEPT !["stop"] = "drain"]
    /\ UNCHANGED <<spent, ring, stopVars>> /\ Resting

\* The wait for a drain in flight ends with ctx.
StopGivesUp ==
    /\ pc["stop"] = "waiting" /\ spent["stop"]
    /\ left' = -1 /\ drainErr' = TRUE
    /\ pc' = [pc EXCEPT !["stop"] = "close"]
    /\ UNCHANGED <<spent, ring, token, closed>> /\ Resting

StopDrained ==
    /\ pc["stop"] = "drain" /\ len(ring) = 0
    /\ left' = 0 /\ Free
    /\ pc' = [pc EXCEPT !["stop"] = "close"]
    /\ UNCHANGED <<spent, ring, closed, drainErr>> /\ Resting

\* exporter.Shutdown, on a context whose end does not matter.
StopCloses ==
    /\ pc["stop"] = "close"
    /\ closed' = TRUE /\ pc' = [pc EXCEPT !["stop"] = "count"]
    /\ UNCHANGED <<spent, ring, token, left, drainErr>> /\ Resting

\* What a drain in other hands leaves is counted after the close.
StopCounts ==
    /\ pc["stop"] = "count"
    /\ left' = IF left < 0 THEN len(ring) ELSE left
    /\ pc' = [pc EXCEPT !["stop"] = "stopped"]
    /\ UNCHANGED <<spent, ring, token, closed, drainErr>> /\ Resting

\* A context ends: Push's within cfg.Timeout, Shutdown's with the one it was given.
ContextEnds(p) ==
    /\ pc[p] \notin {"idle", "off", "stopped"} /\ ~spent[p]
    /\ spent' = [spent EXCEPT ![p] = TRUE]
    /\ UNCHANGED <<pc, ring, token, stopVars>> /\ Resting

-----------------------------------------------------------------------------
Push ==
    \/ PushTakesToken \/ DrainNext("push") \/ DrainedOne("push") \/ PushDrainFails
    \/ PushSendsFresh \/ PushHasNothingFresh \/ FreshDone \/ FreshKept
    \/ PushSendsProcess \/ PushSkipsProcess \/ ProcessDone \/ PushReports

Shutdown ==
    \/ StopTakesToken \/ StopGivesUp \/ DrainNext("stop") \/ DrainedOne("stop")
    \/ StopDrainFails \/ StopDrained \/ StopCloses \/ StopCounts

Next ==
    \/ PushCollects \/ CollectFails \/ PollerDone \/ StopBegins
    \/ Push \/ Shutdown
    \/ \E p \in Procs : RoundTrip(p) \/ ContextEnds(p)

Spec == Init /\ [][Next]_vars

\* Both goroutines keep running, and a request returns: the http.Client has a
\* timeout of its own.
FairSpec ==
    /\ Spec /\ WF_vars(Push) /\ WF_vars(Shutdown)
    /\ \A p \in Procs : WF_vars(RoundTrip(p))

-----------------------------------------------------------------------------
(* Properties.                                                              *)

Batches == 1..MaxCycles

\* The fields of Sender, ring, statusTransport and pushMetrics have their types; and
\* removeOldest and push leave no batch alive in a slot outside the entries.
TypeOK ==
    /\ pc["push"] \in {"idle", "waiting", "drain", "sending", "sendingFresh", "process",
                       "sendingProcess", "sync", "stopped"}
    /\ pc["stop"] \in {"off", "waiting", "drain", "sending", "close", "count", "stopped"}
    /\ spent \in [Procs -> BOOLEAN] /\ item \in [Procs -> Batches \cup {NoBatch}]
    /\ rt \in [Procs -> {"none", "pending", "skipped", "lost"} \cup Answers]
    /\ cycle \in 0..MaxCycles /\ fresh \in Batches \cup {NoBatch}
    /\ errs \subseteq {"refused", "drain", "send"} /\ failing \in BOOLEAN
    /\ ring.buf \in [Slots -> Batches \cup {nil}] /\ ring.head \in Slots
    /\ \A s \in Slots :
         ring.buf[s] # nil <=> (s + Capacity - ring.head) % Capacity < ring.size
    /\ ring.size \in 0..Capacity /\ {ring.evicted, refused} \subseteq Nat
    /\ token \in {"free"} \cup Procs /\ last \in {"none"} \cup Answers
    /\ {closed, drainErr, joinFirst} \subseteq BOOLEAN /\ left \in Nat \cup {-1}
    /\ metrics \in [buffered : 0..Capacity, dropped : Nat, ok : Nat, failed : Nat]
    /\ fate \in [Batches -> {"none", "empty", "pending", "delivered", "refused", "evicted"}]
    /\ {stored, turnedDown} \subseteq Batches \cup {NoBatch}

InHand == IF fresh = NoBatch THEN <<>> ELSE <<fresh>>
DroppedBatches == {b \in Batches : fate[b] \in {"refused", "evicted"}}

\* deliver, drainRing, ring.push: a batch nobody has delivered or dropped is in the
\* hands of Push or in the ring, once, at every moment and whoever drains; and
\* every batch dropped is counted in Dropped.
EveryBatchIsSomewhere ==
    LET waiting == contents(ring) \o InHand
    IN /\ {b \in Batches : fate[b] = "pending"} = Range(waiting)
       /\ Cardinality(Range(waiting)) = Len(waiting)
       /\ Dropped = Cardinality(DroppedBatches)

Promise == INSTANCE Delivery WITH
             pending <- contents(ring) \o InHand, begun <- cycle, evicted <- ring.evicted

\* Push, Shutdown, ring: whatever is lost on the way, sent twice or drained by the
\* stop, every step delivers, keeps or drops as Delivery allows: the receiver sees
\* the oldest first, and a full buffer gives up its oldest.
ImplementsDelivery == Promise!Spec

\* send, statusTransport: a batch is dropped as refused only if the receiver's last
\* refusal was of that batch, and not for an answer to another request.
RefusedByTheReceiver ==
    [][joinFirst => \A b \in Batches : fate'[b] # fate[b] /\ fate'[b] = "refused"
                                         => turnedDown = b]_vars

\* syncBuffer: between cycles the delivery metrics say what is buffered, dropped
\* and sent, whichever step of the cycles before failed.
MetricsAreExact ==
    pc["push"] \in {"idle", "stopped"} /\ pc["stop"] = "off" =>
        /\ metrics.buffered = Cardinality({b \in Batches : fate[b] = "pending"})
        /\ metrics.dropped = Cardinality(DroppedBatches)
        /\ metrics.ok = Cardinality({b \in Batches : fate[b] = "delivered"})

\* report: between cycles the log's last word is "recovered", or nothing yet, only
\* if no batch is waiting; refusals, empty cycles and failed collections in
\* between do not end an outage for the reader of the log.
SilenceMeansNothingWaits ==
    pc["push"] \in {"idle", "stopped"} /\ ~failing => len(ring) = 0

\* Shutdown: what stays behind is reported with an error, and once the poller is
\* joined it is exactly what the ring loses.
StopReportsWhatIsLost ==
    pc["stop"] = "stopped" =>
        /\ left > 0 => drainErr
        /\ joinFirst => left = len(ring)

\* drainWithin, Shutdown: the stop ends, also while a cycle holds the token.
StopEnds == pc["stop"] # "off" ~> pc["stop"] = "stopped"
=============================================================================
