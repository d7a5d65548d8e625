------------------------------- MODULE Poller -------------------------------
(***************************************************************************)
(* The polling loop of internal/exporter/poller.go: Run, cycle, the login   *)
(* policy (holdOff, sessionLost, growBackoff, capReached, renew) and the    *)
(* State a scrape and a push read.  The tpapi client appears through the    *)
(* Router interface the poller uses (Login, Call, Logout) and through the   *)
(* one thing it remembers between calls, whether it has a stok.  The router *)
(* itself, the people who open its web UI and the shutdown signal are the   *)
(* environment.                                                             *)
(*                                                                          *)
(* Time is a clock that advances only while the loop is blocked: in a       *)
(* request, in Config.OnCycle or in the sleep between two cycles.  Steps of *)
(* the program take no time of their own.  Log lines are left out, and with *)
(* them polledOK and failing, which only decide what is logged.             *)
(***************************************************************************)
EXTENDS Integers, Sequences, FiniteSets

CONSTANTS
    Interval, Timeout,           \* Config.Interval and Config.Timeout
    MinBackoff, MaxBackoff,      \* Config.MinBackoff and Config.MaxBackoff
    SessionCooldown,             \* Config.SessionCooldown
    SessionRenew,                \* Config.SessionRenew; 0 is no renewal
    MaxLoginsPerHour,            \* Config.MaxLoginsPerHour
    lossWindow,                  \* the hour of lossWindow
    PushTimeout,                 \* what OnCycle may take; 0 in pull mode
    NumSources,                  \* len(sourcesFor(mode))
    MaxTime                      \* bound on the clock

\* What NewPoller leaves a Config in: every default applied, the ceiling of
\* the backoff never under its floor.
ASSUME ConfigAssumption ==
    /\ Interval \in Nat \ {0} /\ Timeout \in Nat \ {0}
    /\ MinBackoff \in Nat \ {0} /\ MaxBackoff \in Nat /\ MaxBackoff >= MinBackoff
    /\ SessionCooldown \in Nat \ {0} /\ SessionRenew \in Nat
    /\ MaxLoginsPerHour \in Nat \ {0} /\ lossWindow \in Nat \ {0}
    /\ PushTimeout \in Nat /\ NumSources \in Nat \ {0} /\ MaxTime \in Nat

VARIABLES
    \* The goroutine of Run: where it is, its contexts, the signal.
    pc,            \* the call or the decision it is at
    now,           \* time.Now()
    start,         \* when the current cycle started
    deadline,      \* the end of the context in force
    timedOut,      \* that context's deadline has fired
    cancelled,     \* Run's own ctx is cancelled
    \* Fields of Poller touched from Run's goroutine only.
    loggedIn, loggedInAt, backoff, cooldown, quietUntil, loginAfter,
    lossHistory,   \* the losses still counted, as indices into losses
    loginHistory,  \* the attempts still counted, as indices into attempts
    state,         \* Poller.state, what State() copies
    poll,          \* the locals of poll: TakenAt, calls made, replies, error
    stamp,         \* the takenAt handed to OnCycle
    \* The client and the router.
    hasStok,       \* tpapi.Client.stok # ""
    router,        \* who holds the router's one session: nobody ("free"), a
                   \* browser on another device ("remote") or on this one
                   \* ("local"), the client with a stok it was given
                   \* ("exporter"), or a login whose reply is not in ("orphan")
    wire,          \* what became of the request in flight
    \* History, read by lossHistory and loginHistory and by the properties.
    attempts,      \* when each login was attempted
    losses,        \* when each session was declared lost
    warned         \* the logout at the end reported an error

runVars     == <<pc, now, start, deadline, timedOut, cancelled>>
waitVars    == <<backoff, cooldown, quietUntil, loginAfter>>
sessionVars == <<loggedIn, loggedInAt, hasStok>>
historyVars == <<lossHistory, loginHistory, attempts, losses>>
routerVars  == <<router, wire>>
vars == <<runVars, waitVars, sessionVars, historyVars, routerVars,
          state, poll, stamp, warned>>

Longer(d, e)  == IF d >= e THEN d ELSE e
Shorter(d, e) == IF d <= e THEN d ELSE e

NoSnapshot == -1
NoPoll     == [TakenAt |-> 0, calls |-> 0, gathered |-> 0, err |-> "nil"]

\* Where the loop can be.  "start", "judge" and "renew" are decisions, taken at
\* once; the others wait for somebody.
InLogin   == pc \in {"login", "renewLogin"}
InLogout  == pc \in {"renewLogout", "logout"}
InCycle   == pc \in {"login", "poll", "judge", "renew", "renewLogout", "renewLogin"}
InRequest == pc \in {"login", "poll", "renewLogout", "renewLogin", "logout"}

\* ctx.Err() # nil for the context of the request in flight.  The logout at the
\* end of Run has a context of its own, which the signal does not end.
CtxDone == timedOut \/ (cancelled /\ InCycle)

Init ==
    /\ pc = "start" /\ now = 0 /\ start = 0 /\ deadline = 0
    /\ timedOut = FALSE /\ cancelled = FALSE
    /\ loggedIn = FALSE /\ loggedInAt = 0
    /\ backoff = 0 /\ cooldown = 0 /\ quietUntil = 0 /\ loginAfter = 0
    /\ lossHistory = {} /\ loginHistory = {} /\ attempts = <<>> /\ losses = <<>>
    /\ state = [Up |-> FALSE, SessionBlocked |-> FALSE, LastAttempt |-> NoSnapshot,
                Snapshot |-> NoSnapshot, Logins |-> 0, LoginFailures |-> 0,
                SessionsLost |-> 0, LoginsSuppressed |-> 0]
    /\ poll = NoPoll /\ stamp = 0
    /\ hasStok = FALSE /\ router \in {"free", "remote", "local"} /\ wire = "none"
    /\ warned = FALSE

-----------------------------------------------------------------------------
(* The login policy.                                                        *)

\* within: the entries of a history that are younger than the window.
within(history, times) == {i \in history : now - times[i] < lossWindow}

RecentLogins == within(loginHistory, attempts)
RecentLosses == within(lossHistory, losses)

CapReachedOneLate == Cardinality(RecentLogins) > MaxLoginsPerHour
capReached == Cardinality(RecentLogins) >= MaxLoginsPerHour

HoldOffWithoutBackoff == CASE loggedIn                      -> ""
                           [] ~loggedIn /\ now < quietUntil -> "taken"
                           [] OTHER -> IF capReached THEN "cap" ELSE ""

\* holdOff: why the login of a cycle starting now is held back, "" if it is not.
holdOff == CASE loggedIn                        -> ""
             [] ~loggedIn /\ now < quietUntil   -> "taken"
             [] OTHER -> IF capReached THEN "cap"
                         ELSE IF now < loginAfter THEN "backoff" ELSE ""

\* holdOff asks capReached, which prunes, only past its first two answers.
PruneLogins == loginHistory' = IF loggedIn \/ now < quietUntil THEN loginHistory
                               ELSE RecentLogins

NextBackoff == CASE backoff = 0               -> MinBackoff
                 [] backoff # 0 /\ backoff >= MaxBackoff \div 2 -> MaxBackoff
                 [] OTHER                     -> 2 * backoff

\* growBackoff and the loginAfter its callers set from it.
growBackoff ==
    /\ backoff' = NextBackoff
    /\ loginAfter' = start + Longer(Interval, NextBackoff)

\* Slips in sessionLost: the wrong floor, no ceiling, a ceiling under the floor.
CooldownFromBackoff   == IF cooldown = 0 THEN MinBackoff
                         ELSE Shorter(2 * cooldown, Longer(MaxBackoff, SessionCooldown))
CooldownUnbounded     == IF cooldown = 0 THEN SessionCooldown ELSE 2 * cooldown
CooldownUnderTheFloor == IF cooldown = 0 THEN SessionCooldown
                         ELSE Shorter(2 * cooldown, MaxBackoff)

NextCooldown == IF cooldown = 0 THEN SessionCooldown
                ELSE Shorter(2 * cooldown, Longer(MaxBackoff, SessionCooldown))

\* sessionLost: the first loss in the window costs a cycle, the next a wait.
sessionLost ==
    /\ losses' = Append(losses, now)
    /\ lossHistory' = RecentLosses \cup {Len(losses) + 1}
    /\ IF RecentLosses = {}
       THEN UNCHANGED <<cooldown, quietUntil>>
       ELSE cooldown' = NextCooldown /\ quietUntil' = now + NextCooldown

\* The escalation only clears once the window has run dry.
CooldownClearedAtOnce == 0
CooldownAfterSuccess  == IF RecentLosses = {} THEN 0 ELSE cooldown

\* Slips in record: a busy flag nobody takes back, an empty snapshot published.
RecordedBusyForGood(s, ok, blocked, t, gathered) ==
    [s EXCEPT !.LastAttempt = start, !.Up = ok, !.SessionBlocked = @ \/ blocked,
              !.Snapshot = IF gathered > 0 THEN t ELSE @]
RecordedEmpty(s, ok, blocked, t, gathered) ==
    [s EXCEPT !.LastAttempt = start, !.Up = ok, !.SessionBlocked = blocked, !.Snapshot = t]

\* record: one finished cycle, published in one step.  gathered replies at t
\* replace the snapshot, none leave it in place.
Recorded(s, ok, blocked, t, gathered) ==
    [s EXCEPT !.LastAttempt = start, !.Up = ok, !.SessionBlocked = blocked,
              !.Snapshot = IF gathered > 0 THEN t ELSE @]

PublishedAtStart    == start
PublishedAtPrevious == state.Snapshot
publishedAt == IF poll.gathered > 0 THEN poll.TakenAt ELSE start

-----------------------------------------------------------------------------
(* The steps of Run and cycle.                                              *)

\* The head of login: the attempt is on the books before it is made.
Attempt ==
    /\ attempts' = Append(attempts, now)
    /\ wire' = "none"

\* The tail of cycle, or of renew: OnCycle runs next, on a context of its own
\* that the signal does not reach.
ToOnCycle ==
    /\ pc' = "onCycle" /\ deadline' = now + PushTimeout /\ timedOut' = FALSE
    /\ poll' = NoPoll /\ wire' = "none"

BeginCycle == start' = now /\ deadline' = now + Timeout /\ timedOut' = FALSE

\* A cycle whose login is held back: suppress.
Suppress ==
    /\ pc = "start" /\ holdOff # ""
    /\ start' = now /\ stamp' = now
    /\ PruneLogins
    /\ state' = [state EXCEPT !.LoginsSuppressed = @ + 1, !.LastAttempt = now,
                              !.Up = FALSE,
                              !.SessionBlocked = @ \/ holdOff = "taken"]
    /\ ToOnCycle
    /\ UNCHANGED <<now, cancelled, waitVars, sessionVars, lossHistory, attempts,
                   losses, router, warned>>

\* A cycle that has to log in first.
StartLogin ==
    /\ pc = "start" /\ holdOff = "" /\ ~loggedIn
    /\ BeginCycle /\ Attempt
    /\ loginHistory' = RecentLogins \cup {Len(attempts) + 1}
    /\ pc' = "login"
    /\ UNCHANGED <<now, cancelled, waitVars, sessionVars, lossHistory, losses,
                   router, state, poll, stamp, warned>>

\* A cycle on the session already held.
StartPoll ==
    /\ pc = "start" /\ loggedIn
    /\ BeginCycle
    /\ pc' = "poll" /\ poll' = [NoPoll EXCEPT !.TakenAt = now]
    /\ UNCHANGED <<now, cancelled, waitVars, sessionVars, historyVars, routerVars,
                   state, stamp, warned>>

\* login returned nil: the stok is ours.  Somebody may have taken the session
\* while the reply was on its way.
LoggedIn ==
    /\ wire = "granted"
    /\ loggedIn' = TRUE /\ loggedInAt' = now /\ hasStok' = TRUE
    /\ router' = IF router = "orphan" THEN "exporter" ELSE router
    /\ state' = [state EXCEPT !.Logins = @ + 1]

LoginSucceeds ==
    /\ pc = "login" /\ LoggedIn
    /\ pc' = "poll" /\ poll' = [NoPoll EXCEPT !.TakenAt = now] /\ wire' = "none"
    /\ UNCHANGED <<now, start, deadline, timedOut, cancelled, waitVars, historyVars,
                   stamp, warned>>

\* login returned an error: refused as busy, or failed at any of its requests,
\* a granted login whose reply was lost included.
LoginFails ==
    /\ pc = "login" /\ ~cancelled
    /\ \E busy \in {wire = "busy", FALSE} :
         state' = [Recorded(state, FALSE, busy, 0, 0) EXCEPT !.LoginFailures = @ + 1]
    /\ growBackoff
    /\ stamp' = start /\ ToOnCycle
    /\ UNCHANGED <<now, start, cancelled, cooldown, quietUntil, sessionVars,
                   historyVars, router, warned>>

\* A shutdown, not a refusal: counted by login, recorded by nobody.
LoginCutShort ==
    /\ pc = "login" /\ cancelled
    /\ state' = [state EXCEPT !.LoginFailures = @ + 1]
    /\ stamp' = start /\ ToOnCycle
    /\ UNCHANGED <<now, start, cancelled, waitVars, sessionVars, historyVars, router,
                   warned>>

\* poll: one source after the other, until the router disowns the session.
AfterCall(gathered) ==
    LET calls == poll.calls + 1 IN
    /\ pc' = IF calls = NumSources THEN "judge" ELSE "poll"
    /\ poll' = [poll EXCEPT !.calls = calls, !.gathered = gathered,
                  !.err = IF calls = NumSources /\ gathered = 0 THEN "silent" ELSE @]
    /\ UNCHANGED <<now, start, deadline, timedOut, cancelled, waitVars, sessionVars,
                   historyVars, routerVars, state, stamp, warned>>

CallAnswers ==
    /\ pc = "poll" /\ ~CtxDone /\ router = "exporter"
    /\ AfterCall(poll.gathered + 1)

CallFails == pc = "poll" /\ AfterCall(poll.gathered)

CallExpired ==
    /\ pc = "poll" /\ ~CtxDone /\ router # "exporter"
    /\ pc' = "judge" /\ poll' = [poll EXCEPT !.calls = @ + 1, !.err = "expired"]
    /\ UNCHANGED <<now, start, deadline, timedOut, cancelled, waitVars, sessionVars,
                   historyVars, routerVars, state, stamp, warned>>

-----------------------------------------------------------------------------
(* The switch at the end of cycle, in its order.                            *)

CutShortNotHandedOver ==
    /\ pc = "judge" /\ cancelled
    /\ pc' = "logout" /\ deadline' = now + Timeout /\ stamp' = start
    /\ poll' = NoPoll /\ wire' = "none"
    /\ UNCHANGED <<now, start, timedOut, cancelled, waitVars, sessionVars, historyVars,
                   router, state, warned>>

CycleCutShort ==
    /\ pc = "judge" /\ cancelled
    /\ stamp' = start /\ ToOnCycle
    /\ UNCHANGED <<now, start, cancelled, waitVars, sessionVars, historyVars, router,
                   state, warned>>

CycleSucceeds ==
    /\ pc = "judge" /\ ~cancelled /\ poll.err = "nil"
    /\ state' = Recorded(state, TRUE, FALSE, poll.TakenAt, poll.gathered)
    /\ backoff' = 0
    /\ lossHistory' = RecentLosses
    /\ cooldown' = CooldownAfterSuccess
    /\ stamp' = publishedAt
    /\ pc' = "renew"
    /\ UNCHANGED <<now, start, deadline, timedOut, cancelled, quietUntil, loginAfter,
                   sessionVars, loginHistory, attempts, losses, routerVars, poll,
                   warned>>

CycleTimedOut ==
    /\ pc = "judge" /\ ~cancelled /\ poll.err # "nil" /\ timedOut
    /\ loggedIn' = FALSE
    /\ state' = Recorded(state, FALSE, FALSE, poll.TakenAt, poll.gathered)
    /\ growBackoff
    /\ stamp' = publishedAt /\ ToOnCycle
    /\ UNCHANGED <<now, start, cancelled, cooldown, quietUntil, loggedInAt, hasStok,
                   historyVars, router, warned>>

CycleLosesSession ==
    /\ pc = "judge" /\ ~cancelled /\ poll.err # "nil" /\ ~timedOut
    /\ loggedIn' = FALSE
    /\ sessionLost
    /\ state' = [Recorded(state, FALSE, RecentLosses # {}, poll.TakenAt, poll.gathered)
                   EXCEPT !.SessionsLost = @ + 1]
    /\ stamp' = publishedAt /\ ToOnCycle
    /\ UNCHANGED <<now, start, cancelled, backoff, loginAfter, loggedInAt, hasStok,
                   loginHistory, attempts, router, warned>>

-----------------------------------------------------------------------------
(* renew, after a good cycle and inside its context.                        *)

RenewDue == SessionRenew > 0 /\ loggedIn /\ now - loggedInAt >= SessionRenew

KeepSession ==
    /\ pc = "renew" /\ (cancelled \/ ~RenewDue \/ capReached)
    /\ loginHistory' = IF cancelled \/ ~RenewDue THEN loginHistory ELSE RecentLogins
    /\ ToOnCycle
    /\ UNCHANGED <<now, start, cancelled, waitVars, sessionVars, lossHistory, attempts,
                   losses, router, state, stamp, warned>>

StartRenewal ==
    /\ pc = "renew" /\ ~cancelled /\ RenewDue /\ ~capReached
    /\ loginHistory' = RecentLogins
    /\ pc' = "renewLogout" /\ wire' = "none"
    /\ UNCHANGED <<now, start, deadline, timedOut, cancelled, waitVars, sessionVars,
                   lossHistory, attempts, losses, router, state, poll, stamp, warned>>

\* tpapi.Client.Logout drops the stok whatever came back, and so does logout
\* with loggedIn.  Without a stok nothing was sent and nothing failed.
LogoutOutcomes == IF ~hasStok THEN {"nil"}
                  ELSE IF wire = "done" THEN {"nil", "error"} ELSE {"error"}

LoggedOut == hasStok' = FALSE /\ loggedIn' = FALSE /\ UNCHANGED loggedInAt

\* The renewal goes on to log in, on the same context, whether or not the
\* logout failed.
RenewalLogsIn ==
    /\ pc = "renewLogout"
    /\ \E err \in LogoutOutcomes : ~(err = "error" /\ cancelled)
    /\ LoggedOut /\ Attempt
    /\ loginHistory' = loginHistory \cup {Len(attempts) + 1}
    /\ pc' = "renewLogin"
    /\ UNCHANGED <<now, start, deadline, timedOut, cancelled, waitVars, lossHistory,
                   losses, router, state, poll, stamp, warned>>

RenewalCutShort ==
    /\ pc = "renewLogout" /\ cancelled /\ "error" \in LogoutOutcomes
    /\ LoggedOut /\ ToOnCycle
    /\ UNCHANGED <<now, start, cancelled, waitVars, historyVars, router, state, stamp,
                   warned>>

RenewalSucceeds ==
    /\ pc = "renewLogin" /\ LoggedIn /\ ToOnCycle
    /\ UNCHANGED <<now, start, cancelled, waitVars, historyVars, stamp, warned>>

RenewalFailsUncounted ==
    /\ pc = "renewLogin"
    /\ ToOnCycle
    /\ UNCHANGED <<now, start, cancelled, waitVars, sessionVars, historyVars, router,
                   state, stamp, warned>>

\* Not a lost session and not a failed cycle: only the counter moves.
RenewalFails ==
    /\ pc = "renewLogin"
    /\ state' = [state EXCEPT !.LoginFailures = @ + 1]
    /\ ToOnCycle
    /\ UNCHANGED <<now, start, cancelled, waitVars, sessionVars, historyVars, router,
                   stamp, warned>>

-----------------------------------------------------------------------------
(* The loop of Run around the cycle, and its deferred logout.               *)

ToFinalLogout == pc' = "logout" /\ deadline' = now + Timeout

OnCycleReturns ==
    /\ pc = "onCycle"
    /\ IF cancelled THEN ToFinalLogout ELSE pc' = "sleep" /\ UNCHANGED deadline
    /\ UNCHANGED <<now, start, timedOut, cancelled, waitVars, sessionVars, historyVars,
                   routerVars, state, poll, stamp, warned>>

\* Slip: the wait from when the cycle and its push are over.
NextCycleFromTheEnd == deadline + Interval

\* The wait runs from the start of the cycle, whatever its outcome.
NextCycleAt == start + Interval

\* The timer fires.  With the signal pending too, select may choose either.
Wake ==
    /\ pc = "sleep" /\ now >= NextCycleAt
    /\ pc' = "start"
    /\ UNCHANGED <<now, start, deadline, timedOut, cancelled, waitVars, sessionVars,
                   historyVars, routerVars, state, poll, stamp, warned>>

StopSleepingAtTheTimer ==
    /\ pc = "sleep" /\ cancelled /\ now >= NextCycleAt
    /\ ToFinalLogout
    /\ UNCHANGED <<now, start, timedOut, cancelled, waitVars, sessionVars, historyVars,
                   routerVars, state, poll, stamp, warned>>

StopSleeping ==
    /\ pc = "sleep" /\ cancelled
    /\ ToFinalLogout
    /\ UNCHANGED <<now, start, timedOut, cancelled, waitVars, sessionVars, historyVars,
                   routerVars, state, poll, stamp, warned>>

FinalLogoutReturns ==
    /\ pc = "logout"
    /\ \E err \in LogoutOutcomes : warned' = (err = "error")
    /\ LoggedOut
    /\ pc' = "done"
    /\ UNCHANGED <<now, start, deadline, timedOut, cancelled, waitVars, historyVars,
                   routerVars, state, poll, stamp>>

-----------------------------------------------------------------------------
(* The environment: the router's answers, the people, the clock, the signal.*)

\* A login reaches the router.  A browser on another device keeps its session;
\* one on this machine, or a session of ours, is replaced in silence.
RouterSeesLogin ==
    /\ InLogin /\ wire = "none" /\ ~CtxDone
    /\ IF router = "remote" THEN wire' = "busy" /\ UNCHANGED router
                            ELSE wire' = "granted" /\ router' = "orphan"
    /\ UNCHANGED <<runVars, waitVars, sessionVars, historyVars, state, poll, stamp,
                   warned>>

\* A logout reaches the router, which frees the session its stok names.
RouterSeesLogout ==
    /\ InLogout /\ hasStok /\ wire = "none" /\ ~CtxDone
    /\ wire' = "done"
    /\ router' = IF router = "exporter" THEN "free" ELSE router
    /\ UNCHANGED <<runVars, waitVars, sessionVars, historyVars, state, poll, stamp,
                   warned>>

\* Somebody opens the web UI, evicting whoever is there; or the session that is
\* there ends: a closed tab, the idle timeout, a reboot.
SomebodyElse ==
    /\ pc # "done"
    /\ router' \in {"free", "remote", "local"} \ {router}
    /\ UNCHANGED <<runVars, waitVars, sessionVars, historyVars, wire, state, poll, stamp,
                   warned>>

Tick ==
    /\ now < MaxTime
    /\ \/ pc = "sleep" /\ now < NextCycleAt /\ ~cancelled
       \/ pc = "onCycle" /\ now < deadline
       \/ InRequest /\ now < deadline /\ ~CtxDone
    /\ now' = now + 1
    /\ UNCHANGED <<pc, start, deadline, timedOut, cancelled, waitVars, sessionVars,
                   historyVars, routerVars, state, poll, stamp, warned>>

\* The deadline of the cycle, or of the logout at the end, fires.
Deadline ==
    /\ InCycle \/ pc = "logout"
    /\ now >= deadline /\ ~timedOut
    /\ timedOut' = TRUE
    /\ UNCHANGED <<pc, now, start, deadline, cancelled, waitVars, sessionVars,
                   historyVars, routerVars, state, poll, stamp, warned>>

\* SIGINT or SIGTERM, or the stop sequence.
Cancel ==
    /\ ~cancelled /\ pc # "done"
    /\ cancelled' = TRUE
    /\ UNCHANGED <<pc, now, start, deadline, timedOut, waitVars, sessionVars,
                   historyVars, routerVars, state, poll, stamp, warned>>

-----------------------------------------------------------------------------
Decide  == Suppress \/ StartLogin \/ StartPoll
Return  == LoginSucceeds \/ LoginFails \/ LoginCutShort
           \/ CallAnswers \/ CallFails \/ CallExpired
Judge   == CycleCutShort \/ CycleSucceeds \/ CycleTimedOut \/ CycleLosesSession
Renew   == KeepSession \/ StartRenewal \/ RenewalLogsIn \/ RenewalCutShort
           \/ RenewalSucceeds \/ RenewalFails
Loop    == OnCycleReturns \/ Wake \/ StopSleeping \/ FinalLogoutReturns
Run     == Decide \/ Return \/ Judge \/ Renew \/ Loop
Environment == RouterSeesLogin \/ RouterSeesLogout \/ SomebodyElse
               \/ Tick \/ Deadline \/ Cancel

Next == Run \/ Environment

Spec == Init /\ [][Next]_vars

\* The goroutine keeps running: every request returns (the http.Client has a
\* timeout of its own), OnCycle bounds its own time, and so on.
FairSpec == Spec /\ WF_vars(Run)
-----------------------------------------------------------------------------
(* Properties.                                                              *)

Places == {"start", "login", "poll", "judge", "renew", "renewLogout", "renewLogin",
           "onCycle", "sleep", "logout", "done"}

RunTypes ==
    /\ pc \in Places
    /\ now \in Nat /\ start \in Nat /\ deadline \in Nat
    /\ timedOut \in BOOLEAN /\ cancelled \in BOOLEAN
    /\ router \in {"free", "remote", "local", "exporter", "orphan"}
    /\ wire \in {"none", "granted", "busy", "done"}

WaitTypes ==
    /\ loggedIn \in BOOLEAN /\ loggedInAt \in Nat /\ hasStok \in BOOLEAN
    /\ backoff \in Nat /\ cooldown \in Nat
    /\ quietUntil \in Nat /\ loginAfter \in Nat

HistoryTypes ==
    /\ attempts \in Seq(Nat) /\ loginHistory \subseteq 1..Len(attempts)
    /\ losses \in Seq(Nat) /\ lossHistory \subseteq 1..Len(losses)

StateTypes ==
    /\ state \in [Up : BOOLEAN, SessionBlocked : BOOLEAN,
                  LastAttempt : Nat \cup {NoSnapshot}, Snapshot : Nat \cup {NoSnapshot},
                  Logins : Nat, LoginFailures : Nat,
                  SessionsLost : Nat, LoginsSuppressed : Nat]
    /\ poll \in [TakenAt : Nat, calls : Nat, gathered : Nat,
                 err : {"nil", "silent", "expired"}]
    /\ stamp \in Nat /\ warned \in BOOLEAN

\* The fields of poller.go's Poller and State have their types, and the two
\* histories name events that happened.
TypeOK == RunTypes /\ WaitTypes /\ HistoryTypes /\ StateTypes

\* capReached, holdOff, renew: no window of an hour, wherever it starts, holds
\* more than MaxLoginsPerHour login attempts, renewals and failures included.
LoginCap ==
    \A i \in 1..Len(attempts) :
        i + MaxLoginsPerHour <= Len(attempts) =>
            attempts[i + MaxLoginsPerHour] - attempts[i] >= lossWindow

\* sessionLost, holdOff: two losses inside the window are followed by at least
\* SessionCooldown without a login, on any path that logs in.
QuietAfterRepeatedLoss ==
    \A i \in 1..Len(losses), j \in 1..Len(attempts) :
        /\ i > 1
        /\ losses[i] - losses[i - 1] < lossWindow
        /\ attempts[j] > losses[i]
        => attempts[j] >= losses[i] + SessionCooldown

\* cycle, holdOff: no session is held, and so none is used or renewed, inside a
\* wait that was armed to stay away from the router.
NoSessionInsideAWait ==
    loggedIn => quietUntil <= loggedInAt /\ loginAfter <= loggedInAt

\* growBackoff, sessionLost: however failures and losses interleave, a wait is
\* never shorter than its floor, nor longer than the ceiling of its flags.
WaitsBounded ==
    /\ backoff \in {0} \cup MinBackoff..MaxBackoff
    /\ cooldown \in {0} \cup SessionCooldown..Longer(MaxBackoff, SessionCooldown)
    /\ quietUntil <= now + Longer(MaxBackoff, SessionCooldown)
    /\ loginAfter <= now + Longer(Interval, MaxBackoff)

\* cycle, sessionLost: the escalation of the cooldown outlives good cycles and
\* backs down only to zero, only when no loss is left in the window.
EscalationOutlivesGoodCycles ==
    [][cooldown' < cooldown => cooldown' = 0 /\ lossHistory' = {}]_vars

\* record, suppress: a scrape between two cycles of a quiet spell sees the web
\* UI as busy, and no scrape ever sees it busy and the poll up at once.
QuietIsPublished ==
    /\ ~(state.Up /\ state.SessionBlocked)
    /\ pc \in {"onCycle", "sleep", "start"} /\ now < quietUntil => state.SessionBlocked

\* publishedAt, record: a push is stamped with the snapshot a scrape would read
\* whenever this cycle published one, and a cycle published as up has one.
PushAgreesWithScrape ==
    pc = "onCycle" =>
        /\ state.Snapshot >= start => stamp = state.Snapshot
        /\ state.Up /\ ~cancelled => stamp = state.Snapshot
        /\ stamp >= start

\* Run, poll, record: the times handed to OnCycle never run backwards, nor does
\* the snapshot a scrape reads, and no two cycles carry the same time.
TimesAdvance ==
    [][/\ stamp' >= stamp
       /\ state'.Snapshot >= state.Snapshot
       /\ pc = "start" /\ now > 0 => stamp < now]_vars

\* Run: cycles start Interval apart whatever the last one met; only one that
\* outlasted the interval, push included, starts the next one late.
CyclesHoldTheirPeriod ==
    [][start' # start => start' - start \in Interval..Longer(Interval, Timeout + PushTimeout)]_vars

\* login, sessionLost: every attempt is counted once, as a login or a failure,
\* and every loss once, whichever path made it.
CountersAgree ==
    /\ Len(attempts) = state.Logins + state.LoginFailures + (IF pc \in {"login", "renewLogin"} THEN 1 ELSE 0)
    /\ Len(losses) = state.SessionsLost

\* Run: after the signal the loop ends, from wherever it was.
StopsWhenCancelled == cancelled ~> pc = "done"

\* What the rest of the process sees of the loop.
Phase == CASE pc = "start"   -> "ready"
           [] pc = "onCycle" -> "push"
           [] InCycle        -> "cycle"
           [] OTHER          -> pc

Contract == INSTANCE Lifecycle WITH
              phase <- Phase,
              config <- [Interval |-> Interval, Timeout |-> Timeout,
                         PushTimeout |-> PushTimeout, LogoutTimeout |-> Timeout]

\* Run: a cycle lasts no longer than Timeout, a cancelled one no time at all;
\* every cycle goes through OnCycle, and the only way out is the logout.
ImplementsLifecycle == Contract!Spec

-----------------------------------------------------------------------------
(* What the documentation says and the code does not do.                    *)

\* README.md:220, poller.go:199: the stop frees the session.  Read leniently, a
\* session whose stok the client was given is freed, or the logout that failed
\* to free it is reported.
StopFreesTheSession == pc = "done" /\ ~warned => router # "exporter"

\* poller.go:89: what OnCycle reads is this cycle's data.
OnCycleReadsThisCycle == pc = "onCycle" => state.LastAttempt = start
=============================================================================
