------------------------------ MODULE Lifecycle ------------------------------
(***************************************************************************)
(* What the process around it counts on from the polling loop, Poller.Run:  *)
(* cycles a period apart, each bounded by Timeout and handed to OnCycle,    *)
(* which bounds itself by PushTimeout; and after a cancellation no waiting  *)
(* but for the OnCycle under way or owed, then one logout.                  *)
(***************************************************************************)
EXTENDS Naturals

VARIABLES
    phase,      \* "ready", "cycle", "push", "sleep", "logout" or "done"
    now,        \* the clock
    start,      \* when the cycle started
    deadline,   \* the end of what the loop is in
    cancelled,  \* its context is
    config      \* the durations: Interval, Timeout, PushTimeout, LogoutTimeout

vars == <<phase, now, start, deadline, cancelled, config>>

Init == phase = "ready" /\ now = 0 /\ start = 0 /\ deadline = 0 /\ cancelled = FALSE

ToPush == phase' = "push" /\ deadline' = now + config.PushTimeout

\* A cycle begins; one whose login is held back is over at once.
BeginCycle ==
    /\ phase = "ready" /\ start' = now
    /\ ToPush \/ (phase' = "cycle" /\ deadline' = now + config.Timeout)
    /\ UNCHANGED <<now, cancelled, config>>

EndCycle ==
    /\ phase = "cycle" /\ ToPush
    /\ UNCHANGED <<now, start, cancelled, config>>

ToLogout == phase' = "logout" /\ deadline' = now + config.LogoutTimeout

\* OnCycle returns.
EndPush ==
    /\ phase = "push"
    /\ IF cancelled THEN ToLogout ELSE phase' = "sleep" /\ UNCHANGED deadline
    /\ UNCHANGED <<now, start, cancelled, config>>

\* The sleep ends at the timer or the cancellation, either if both are there.
Wake ==
    /\ phase = "sleep" /\ now >= start + config.Interval
    /\ phase' = "ready" /\ UNCHANGED <<now, start, deadline, cancelled, config>>

Leave ==
    /\ phase = "sleep" /\ cancelled /\ ToLogout
    /\ UNCHANGED <<now, start, cancelled, config>>

EndLogout ==
    /\ phase = "logout" /\ phase' = "done"
    /\ UNCHANGED <<now, start, deadline, cancelled, config>>

Step == BeginCycle \/ EndCycle \/ EndPush \/ Wake \/ Leave \/ EndLogout

BlockedDespiteTheSignal ==
    \/ phase \in {"cycle", "push", "logout"} /\ now < deadline
    \/ phase = "sleep" /\ ~cancelled /\ now < start + config.Interval
    \/ phase = "done"
\* Time passes only while the loop waits, and for a cancelled cycle it does not.
Blocked ==
    \/ phase = "cycle" /\ ~cancelled /\ now < deadline
    \/ phase \in {"push", "logout"} /\ now < deadline
    \/ phase = "sleep" /\ ~cancelled /\ now < start + config.Interval
    \/ phase = "done"

Tick   == Blocked /\ now' = now + 1 /\ UNCHANGED <<phase, start, deadline, cancelled, config>>
Cancel == cancelled' = TRUE /\ UNCHANGED <<phase, now, start, deadline, config>>

Next == Step \/ Tick \/ Cancel
Spec == Init /\ [][Next]_vars
=============================================================================
