------------------------------ MODULE Exporter ------------------------------
(***************************************************************************)
(* The process: main and its stop sequence (cmd/tplink_exporter/main.go)    *)
(* around the polling loop, which is the contract Lifecycle here, the HTTP  *)
(* server of pull mode, the sender of push mode, and the signals.           *)
(*                                                                          *)
(* One clock for all of it: it advances while every goroutine waits.        *)
(***************************************************************************)
EXTENDS Options

CONSTANTS
    CommandLines,    \* what the process may be started with
    shutdownTimeout, \* bounds the server's shutdown, and the sender's
    MaxSignals,      \* bound on the signals sent
    MaxTime          \* bound on the clock until the loop is cancelled

ASSUME ExporterAssumption ==
    shutdownTimeout \in Nat \ {0} /\ MaxSignals \in Nat /\ MaxTime \in Nat

\* What is not a text is a number or a duration, and both are integers once parsed.
ASSUME CommandLineAssumption ==
    \A l \in CommandLines : \A n \in Settings \ {"Host", "LogLevel", "PushURL"} :
        /\ {l[n].flag, l[n].env} \subseteq Seq(Int \cup {Unparsable})
        /\ Len(l[n].env) <= 1
\* Set splits a pair at its equals sign, if it has one.
ASSUME LabelAssumption ==
    \A l \in CommandLines : {l.labels.flag, l.labels.env} \subseteq Seq(Seq(STRING))

VARIABLES
    \* The polling loop, as Lifecycle has it.
    phase, now, start, deadline, cancelled, config,
    line,          \* the flags and the environment
    inForce,       \* what NewPoller, push.New and pushConfig made of them
    main,          \* where main is
    exitCode,      \* how the process ended
    exitErr,       \* main's exitErr: the listener failed
    mainDeadline,  \* of the part being shut down
    listener,      \* the HTTP server: "none", "listening", "failed", "closed"
    request,       \* it has a request in flight
    notified,      \* signals come to signal.NotifyContext, not to the runtime
    signals,       \* how many were sent
    closed,        \* the sender's exporter is shut down
    stopAt         \* history: when the stop was asked for; NoTime if never

Loop == INSTANCE Lifecycle

loopVars == <<phase, now, start, deadline, cancelled, config>>
stopVars == <<exitErr, mainDeadline, listener, closed>>
vars == <<loopVars, stopVars, line, inForce, main, exitCode, request, notified, signals,
          stopAt>>

NoTime  == -1
options == bindFlags(line)
push    == pushMode(options)

Init ==
    /\ Loop!Init /\ config = [Interval |-> 0, Timeout |-> 0, PushTimeout |-> 0,
                              LogoutTimeout |-> 0]
    /\ line \in CommandLines /\ inForce = <<>>
    /\ main = "configure" /\ exitCode = "none" /\ exitErr = FALSE /\ mainDeadline = 0
    /\ listener = "none" /\ request = FALSE /\ notified = FALSE /\ signals = 0
    /\ closed = FALSE /\ stopAt = NoTime

-----------------------------------------------------------------------------
(* main, up to its select.                                                  *)

\* The command line may be unreadable, ask for the version, or have faults.
Verdict == IF flagFaults(line) # {} THEN "usage"
           ELSE IF line.Version THEN "ok"
           ELSE IF configure(line) # {} THEN "fault" ELSE "run"

Refuse ==
    /\ main = "configure" /\ Verdict # "run"
    /\ main' = "exit" /\ exitCode' = Verdict
    /\ UNCHANGED <<loopVars, stopVars, line, inForce, request, notified, signals, stopAt>>

\* tpapi.New, or push.New, makes nothing of a command line without a fault.
NewFails ==
    /\ main = "configure" /\ Verdict = "run"
    /\ main' = "exit" /\ exitCode' = "fault"
    /\ UNCHANGED <<loopVars, stopVars, line, inForce, request, notified, signals, stopAt>>

\* The poller's goroutine and, in pull mode, the listener's are started.
Start ==
    /\ main = "configure" /\ Verdict = "run"
    /\ LET poller == NewPoller(options) IN
         /\ config' = [Interval |-> poller.Interval, Timeout |-> poller.Timeout,
                       PushTimeout |-> IF push THEN options.PushTimeout ELSE 0,
                       LogoutTimeout |-> Shorter(poller.Timeout, options.RequestTimeout)]
         /\ inForce' = [poller |-> poller, buffer |-> Buffer(options),
                        labels |-> pushLabels(labelPairs(line))]
    /\ notified' = TRUE /\ listener' = IF push THEN "none" ELSE "listening"
    /\ main' = "waiting"
    /\ UNCHANGED <<phase, now, start, deadline, cancelled, line, exitCode, exitErr,
                   mainDeadline, request, signals, closed, stopAt>>

Asked == stopAt' = IF stopAt = NoTime THEN now ELSE stopAt

\* The select: the listener's error, or the signal.
ListenFailed ==
    /\ main = "waiting" /\ listener = "failed"
    /\ exitErr' = TRUE /\ Asked /\ main' = "cancel"
    /\ UNCHANGED <<loopVars, mainDeadline, listener, closed, line, inForce, exitCode,
                   request, notified, signals>>

Signalled ==
    /\ main = "waiting" /\ cancelled
    /\ main' = "cancel"
    /\ UNCHANGED <<loopVars, stopVars, line, inForce, exitCode, request, notified,
                   signals, stopAt>>

-----------------------------------------------------------------------------
(* stopSequence.run.                                                        *)

ForgetsToCancel == UNCHANGED cancelled
CancelLoop == cancelled' = TRUE

\* cancel is the stop of NotifyContext: it ends the poller's context and hands
\* the signals back to the runtime.  Shutdown begins by closing the listener.
StopCancels ==
    /\ main = "cancel" /\ CancelLoop /\ notified' = FALSE
    /\ main' = IF push THEN "join" ELSE "server"
    /\ mainDeadline' = now + shutdownTimeout
    /\ listener' = IF push THEN listener ELSE "closed"
    /\ UNCHANGED <<phase, now, start, deadline, config, exitErr, closed, line, inForce,
                   exitCode, request, signals, stopAt>>

\* The server's Shutdown waits for its requests, within the timeout.
ServerDown ==
    /\ main = "server" /\ (request => now >= mainDeadline)
    /\ main' = "join"
    /\ UNCHANGED <<loopVars, stopVars, line, inForce, exitCode, request, notified, signals,
                   stopAt>>

NotJoined == TRUE
Joined == phase = "done"

Ends == main' = "exit" /\ exitCode' = IF exitErr THEN "fault" ELSE "ok"

\* The poller is joined before the sender closes.
JoinPoller ==
    /\ main = "join" /\ Joined
    /\ IF push THEN main' = "sender" /\ mainDeadline' = now + shutdownTimeout
                    /\ UNCHANGED exitCode
               ELSE Ends /\ UNCHANGED mainDeadline
    /\ UNCHANGED <<loopVars, exitErr, listener, closed, line, inForce, request, notified,
                   signals, stopAt>>

\* The last drain is over, whatever it left, and the exporter closed.
SenderDown ==
    /\ main = "sender" /\ closed' = TRUE /\ Ends
    /\ UNCHANGED <<loopVars, exitErr, mainDeadline, listener, line, inForce, request,
                   notified, signals, stopAt>>

-----------------------------------------------------------------------------
(* What runs beside main.                                                   *)

Up == main \notin {"configure", "exit"}

Poll ==
    /\ Up /\ Loop!Step
    /\ UNCHANGED <<stopVars, line, inForce, main, exitCode, request, notified, signals,
                   stopAt>>

\* ListenAndServe fails: the address is taken, or Accept stops working.
ServeFails ==
    /\ main = "waiting" /\ listener = "listening"
    /\ listener' = "failed"
    /\ UNCHANGED <<loopVars, exitErr, mainDeadline, closed, line, inForce, main, exitCode,
                   request, notified, signals, stopAt>>

Request ==
    /\ Up /\ request' = ~request /\ (request' => listener = "listening")
    /\ UNCHANGED <<loopVars, stopVars, line, inForce, main, exitCode, notified, signals,
                   stopAt>>

\* SIGINT or SIGTERM: caught, it cancels the poller's context, a second one in
\* vain; handed back to the runtime, it kills.
Signal ==
    /\ main # "exit" /\ signals < MaxSignals /\ signals' = signals + 1
    /\ IF notified
       THEN cancelled' = TRUE /\ Asked /\ UNCHANGED <<main, exitCode>>
       ELSE main' = "exit" /\ exitCode' = "killed" /\ UNCHANGED <<cancelled, stopAt>>
    /\ UNCHANGED <<phase, now, start, deadline, config, stopVars, line, inForce, request,
                   notified>>

MainBlocked ==
    \/ main = "waiting" /\ ~cancelled /\ listener # "failed"
    \/ main = "server" /\ request /\ now < mainDeadline
    \/ main = "join" /\ phase # "done"
    \/ main = "sender" /\ now < mainDeadline

Tick ==
    /\ now < MaxTime \/ cancelled
    /\ MainBlocked /\ Loop!Tick
    /\ UNCHANGED <<stopVars, line, inForce, main, exitCode, request, notified, signals,
                   stopAt>>

Main == Refuse \/ NewFails \/ Start \/ ListenFailed \/ Signalled \/ StopCancels \/ ServerDown
        \/ JoinPoller \/ SenderDown

Next == Main \/ Poll \/ ServeFails \/ Request \/ Signal \/ Tick

Spec == Init /\ [][Next]_vars

\* Goroutines are scheduled, and what has a deadline ends: the loop by its
\* contract, the server's shutdown once the clock is past its own.
FairSpec == Spec /\ WF_vars(Main) /\ WF_vars(Poll) /\ WF_vars(Tick)

-----------------------------------------------------------------------------
(* Properties.                                                              *)

\* The locals of main and the loop's have their types; every duration the loop
\* runs on is one.
TypeOK ==
    /\ phase \in {"ready", "cycle", "push", "sleep", "logout", "done"}
    /\ {now, start, deadline, mainDeadline, signals} \subseteq Nat
    /\ config \in [Interval : Nat, Timeout : Nat, PushTimeout : Nat, LogoutTimeout : Nat]
    /\ {cancelled, exitErr, request, notified, closed} \subseteq BOOLEAN
    /\ main \in {"configure", "waiting", "cancel", "server", "join", "sender", "exit"}
    /\ exitCode \in {"none", "ok", "fault", "usage", "killed"}
    /\ listener \in {"none", "listening", "failed", "closed"} /\ stopAt \in Nat \cup {NoTime}

\* stopSequence.run, main: the sender is closed only under a loop that is over, so
\* that no cycle is handed to a closed one; and a process that was polling ends by
\* itself, a failed listener included, only after the logout and the last drain.
ExitOrder ==
    /\ closed => phase = "done"
    /\ main = "exit" /\ inForce # <<>> /\ exitCode # "killed" =>
         phase = "done" /\ (push => closed)

\* The README's sum: in push mode the push owed, the logout and the last drain one
\* after the other; in pull mode the server's shutdown beside the logout.
Grace == IF push THEN config.PushTimeout + config.LogoutTimeout + shutdownTimeout
                 ELSE Longer(shutdownTimeout, config.LogoutTimeout)

\* stopSequence.run, Run: wherever the signal finds the loop, and whatever hangs,
\* the process is gone within that sum.
StopWithinGrace == stopAt # NoTime /\ main # "exit" => now - stopAt <= Grace

\* validate: in push mode no cycle starts late, whatever the last one and its push
\* took, since validate refused what would drift.
CyclesDoNotDrift == [][push /\ start' # start => start' = start + config.Interval]_vars

\* What the person who wrote the command line expects of the labels.
LabelsGiven == IF line.labels.flag # <<>> THEN line.labels.flag ELSE line.labels.env
LabelWanted(n) ==
    LET of == {i \in DOMAIN LabelsGiven : LabelsGiven[i][1] = n}
    IN IF of = {} THEN "own" ELSE LabelsGiven[Max(of)][2]

\* configure, NewPoller, push.New, labelList: a command line that is accepted is run
\* as it was written; no constructor puts a default in the place of a value given,
\* and no label of the environment survives beside one of a flag.
SettingsInForce ==
    inForce # <<>> =>
        /\ \A n \in DOMAIN inForce.poller : inForce.poller[n] = options[n]
        /\ push => inForce.buffer = options.PushBuffer
LabelsInForce ==
    inForce # <<>> =>
        /\ \A n \in DOMAIN inForce.labels : inForce.labels[n] = LabelWanted(n)
        /\ {l[1] : l \in Range(LabelsGiven)} \subseteq DOMAIN inForce.labels
RunsAsConfigured == SettingsInForce /\ LabelsInForce

\* main, stopSequence.run: a signal, or a listener that fails, ends the process.
StopCompletes == stopAt # NoTime ~> main = "exit"
=============================================================================
