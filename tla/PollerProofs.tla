---------------------------- MODULE PollerProofs ----------------------------
(***************************************************************************)
(* What Poller promises for every configuration NewPoller accepts.  Each    *)
(* argument has two halves: a lemma that says what any step of the loop or  *)
(* of its environment does to a few variables, proved action by action, and *)
(* a lemma that such a step preserves an invariant of those variables.      *)
(***************************************************************************)
EXTENDS Poller, TLAPS, FiniteSetTheorems

USE DEF runVars, waitVars, sessionVars, historyVars, routerVars

-----------------------------------------------------------------------------
(* Arithmetic and sets.                                                     *)

LEMMA ConstantTypes ==
  /\ Interval \in Nat /\ Timeout \in Nat /\ MinBackoff \in Nat /\ MaxBackoff \in Nat
  /\ SessionCooldown \in Nat /\ lossWindow \in Nat /\ PushTimeout \in Nat
  /\ MaxLoginsPerHour \in Nat \ {0}
BY ConfigAssumption DEF ConfigAssumption

LEMMA OneMore ==
  ASSUME NEW n \in Nat, NEW S, S \subseteq 1..n
  PROVE  S \cup {n + 1} \subseteq 1..(n + 1)
OBVIOUS

\* Of the last m of n, one is missing from any set of fewer than m.
LEMMA Pigeonhole ==
  ASSUME NEW n \in Nat, NEW m \in Nat \ {0}, m <= n,
         NEW H, H \subseteq 1..n, Cardinality(H) < m
  PROVE  \E j \in (n + 1 - m)..n : j \notin H
<1> DEFINE last == (n + 1 - m)..n
<1> SUFFICES ASSUME last \subseteq H PROVE FALSE
  OBVIOUS
<1>1. IsFiniteSet(1..n)
  BY FS_Interval
<1>2. IsFiniteSet(H)
  BY <1>1, FS_Subset
<1>3. Cardinality(last) = m
  <2>1. n + 1 - m \in Int /\ n \in Int /\ n + 1 - m <= n
    OBVIOUS
  <2>2. Cardinality(last) = n - (n + 1 - m) + 1
    BY <2>1, FS_Interval
  <2> QED BY <2>2
<1>4. Cardinality(last) <= Cardinality(H)
  BY <1>2, FS_Subset
<1>5. Cardinality(H) \in Nat
  BY <1>2, FS_CardinalityType
<1> QED BY <1>3, <1>4, <1>5

LEMMA NextBackoffType ==
  ASSUME backoff \in Nat
  PROVE  NextBackoff \in Nat
BY ConfigAssumption DEF ConfigAssumption, NextBackoff

\* growBackoff keeps the backoff between its floor and its ceiling.
LEMMA NextBackoffBounds ==
  ASSUME backoff \in {0} \cup MinBackoff..MaxBackoff
  PROVE  NextBackoff \in MinBackoff..MaxBackoff
BY ConfigAssumption DEF ConfigAssumption, NextBackoff

LEMMA NextCooldownType ==
  ASSUME cooldown \in Nat
  PROVE  NextCooldown \in Nat
BY ConfigAssumption DEF ConfigAssumption, NextCooldown, Longer, Shorter

\* sessionLost keeps the cooldown over its floor and under the longer of the
\* floor and the backoff's ceiling.
LEMMA NextCooldownBounds ==
  ASSUME cooldown \in Nat, cooldown = 0 \/ cooldown >= SessionCooldown
  PROVE  NextCooldown \in SessionCooldown..Longer(MaxBackoff, SessionCooldown)
BY ConfigAssumption DEF ConfigAssumption, NextCooldown, Longer, Shorter

-----------------------------------------------------------------------------
(* What a step does.                                                        *)

RunSteps ==
  /\ now' \in {now, now + 1} /\ start' \in {start, now}
  /\ deadline' \in {deadline, now + Timeout, now + PushTimeout}
  /\ timedOut' \in {timedOut, TRUE, FALSE} /\ cancelled' \in {cancelled, TRUE}
  /\ pc' \in {pc} \cup Places
  /\ router' \in {router, "free", "remote", "local", "exporter", "orphan"}
  /\ wire' \in {wire, "none", "granted", "busy", "done"}

WaitSteps ==
  /\ backoff' \in {backoff, 0, NextBackoff}
  /\ loginAfter' \in {loginAfter, start + Longer(Interval, NextBackoff)}
  /\ loggedIn' \in {loggedIn, TRUE, FALSE} /\ hasStok' \in {hasStok, TRUE, FALSE}
  /\ loggedInAt' \in {loggedInAt, now}
  /\ stamp' \in {stamp, now, start, publishedAt} /\ warned' \in {warned, TRUE, FALSE}

\* The losses are kept, pruned after a good cycle, or one is added.
LossesKept   == UNCHANGED <<losses, lossHistory, cooldown, quietUntil>>
LossesPruned == /\ UNCHANGED <<losses, quietUntil, now>>
                /\ lossHistory' = RecentLosses /\ cooldown' = CooldownAfterSuccess
LossMade     == sessionLost /\ UNCHANGED <<now, attempts>> /\ pc = "judge"
LossSteps    == LossesKept \/ LossesPruned \/ LossMade

\* The attempts are kept, pruned by capReached, or one is added: at the start of
\* a cycle, which has just pruned, or in a renewal, which pruned before its logout.
LoginsKept   == /\ UNCHANGED <<attempts, loginHistory>>
                /\ pc' = "renewLogout" => pc = "renewLogout"
LoginsPruned == /\ UNCHANGED <<attempts, now>> /\ loginHistory' = RecentLogins
                /\ pc' = "renewLogout" => ~capReached
LoginMadeFrom(history) ==
  /\ attempts' = Append(attempts, now) /\ UNCHANGED now
  /\ loginHistory' = history \cup {Len(attempts) + 1}
  /\ pc' \in {"login", "renewLogin"}
CycleLogin   == ~capReached /\ LoginMadeFrom(RecentLogins)
RenewalLogin == pc = "renewLogout" /\ LoginMadeFrom(loginHistory)
LoginSteps   == LoginsKept \/ LoginsPruned \/ CycleLogin \/ RenewalLogin

LEMMA Steps ==
  ASSUME [Next]_vars
  PROVE  RunSteps /\ WaitSteps /\ LossSteps
<1> USE DEF RunSteps, WaitSteps, LossSteps, LossesKept, LossesPruned, LossMade, ToOnCycle, Places
<1>0. CASE UNCHANGED vars
  BY <1>0 DEF vars
<1>1. CASE Decide
  BY <1>1 DEF Decide, Suppress, StartLogin, StartPoll, BeginCycle, Attempt
<1>2. CASE Return
  BY <1>2 DEF Return, LoginSucceeds, LoginFails, LoginCutShort, CallAnswers, CallFails,
              CallExpired, AfterCall, LoggedIn, growBackoff
<1>3. CASE Judge
  <2>1. CASE CycleCutShort
    BY <2>1 DEF CycleCutShort
  <2>2. CASE CycleSucceeds
    BY <2>2 DEF CycleSucceeds
  <2>3. CASE CycleTimedOut
    BY <2>3 DEF CycleTimedOut, growBackoff
  <2>4. CASE CycleLosesSession
    BY <2>4 DEF CycleLosesSession
  <2> QED BY <1>3, <2>1, <2>2, <2>3, <2>4 DEF Judge
<1>4. CASE Renew
  BY <1>4 DEF Renew, KeepSession, StartRenewal, RenewalLogsIn, RenewalCutShort,
              RenewalSucceeds, RenewalFails, Attempt, LoggedIn, LoggedOut
<1>5. CASE Loop
  BY <1>5 DEF Loop, OnCycleReturns, Wake, StopSleeping, FinalLogoutReturns,
              ToFinalLogout, LoggedOut
<1>6. CASE Environment
  BY <1>6 DEF Environment, RouterSeesLogin, RouterSeesLogout, SomebodyElse, Tick,
              Deadline, Cancel
<1> QED BY <1>0, <1>1, <1>2, <1>3, <1>4, <1>5, <1>6 DEF Next, Run

LEMMA StepsOfTheBooks ==
  ASSUME [Next]_vars
  PROVE  LoginSteps
<1> USE DEF LoginSteps, LoginsKept, LoginsPruned, CycleLogin, RenewalLogin, LoginMadeFrom, ToOnCycle
<1>0. CASE UNCHANGED vars
  BY <1>0 DEF vars
<1>1. CASE Suppress
  BY <1>1 DEF Suppress, PruneLogins
<1>2. CASE StartLogin
  BY <1>2 DEF StartLogin, Attempt, BeginCycle, holdOff
<1>3. CASE StartPoll
  BY <1>3 DEF StartPoll
<1>4. CASE Return
  BY <1>4 DEF Return, LoginSucceeds, LoginFails, LoginCutShort, CallAnswers, CallFails,
              CallExpired, AfterCall, LoggedIn
<1>5. CASE Judge
  BY <1>5 DEF Judge, CycleCutShort, CycleSucceeds, CycleTimedOut, CycleLosesSession
<1>6. CASE KeepSession
  BY <1>6 DEF KeepSession
<1>7. CASE StartRenewal
  BY <1>7 DEF StartRenewal
<1>8. CASE RenewalLogsIn
  BY <1>8 DEF RenewalLogsIn, Attempt
<1>9. CASE RenewalCutShort \/ RenewalSucceeds \/ RenewalFails
  BY <1>9 DEF RenewalCutShort, RenewalSucceeds, RenewalFails, LoggedIn
<1>10. CASE Loop
  BY <1>10 DEF Loop, OnCycleReturns, Wake, StopSleeping, FinalLogoutReturns, ToFinalLogout
<1>11. CASE Environment
  BY <1>11 DEF Environment, RouterSeesLogin, RouterSeesLogout, SomebodyElse, Tick,
               Deadline, Cancel
<1> QED BY <1>0, <1>1, <1>2, <1>3, <1>4, <1>5, <1>6, <1>7, <1>8, <1>9, <1>10, <1>11
        DEF Next, Run, Decide, Renew

-----------------------------------------------------------------------------
(* Type correctness.                                                        *)

LEMMA RunTypesStep ==
  ASSUME RunTypes, [Next]_vars
  PROVE  RunTypes'
<1>1. now' \in Nat /\ start' \in Nat /\ deadline' \in Nat
  <2>1. /\ now' \in {now, now + 1} /\ start' \in {start, now}
        /\ deadline' \in {deadline, now + Timeout, now + PushTimeout}
    BY Steps DEF RunSteps
  <2>2. now \in Nat /\ start \in Nat /\ deadline \in Nat
    BY DEF RunTypes
  <2> QED BY <2>1, <2>2, ConstantTypes
<1>2. timedOut' \in BOOLEAN /\ cancelled' \in BOOLEAN
  BY Steps DEF RunSteps, RunTypes
<1>3. /\ pc' \in Places
      /\ router' \in {"free", "remote", "local", "exporter", "orphan"}
      /\ wire' \in {"none", "granted", "busy", "done"}
  BY Steps DEF RunSteps, RunTypes
<1> QED BY <1>1, <1>2, <1>3 DEF RunTypes

LEMMA WaitTypesStep ==
  ASSUME RunTypes, WaitTypes, [Next]_vars
  PROVE  WaitTypes'
<1>1. backoff' \in Nat /\ loginAfter' \in Nat
  <2>1. start \in Nat /\ Longer(Interval, NextBackoff) \in Nat
    BY NextBackoffType, ConstantTypes DEF RunTypes, WaitTypes, Longer
  <2>2. /\ backoff' \in {backoff, 0, NextBackoff}
        /\ loginAfter' \in {loginAfter, start + Longer(Interval, NextBackoff)}
    BY Steps DEF WaitSteps
  <2>3. backoff \in Nat /\ loginAfter \in Nat
    BY DEF WaitTypes
  <2> QED BY <2>1, <2>2, <2>3, NextBackoffType
<1>2. loggedIn' \in BOOLEAN /\ hasStok' \in BOOLEAN /\ loggedInAt' \in Nat
  BY Steps DEF RunTypes, WaitTypes, WaitSteps
<1>3. cooldown' \in Nat /\ quietUntil' \in Nat
  <2>1. NextCooldown \in Nat
    BY NextCooldownType DEF WaitTypes
  <2>2. /\ cooldown' \in {cooldown, 0, NextCooldown}
        /\ quietUntil' \in {quietUntil, now + NextCooldown}
    BY Steps DEF LossSteps, LossesKept, LossesPruned, LossMade, sessionLost, CooldownAfterSuccess
  <2>3. cooldown \in Nat /\ quietUntil \in Nat /\ now \in Nat
    BY DEF WaitTypes, RunTypes
  <2> QED BY <2>1, <2>2, <2>3
<1> QED BY <1>1, <1>2, <1>3 DEF WaitTypes

LEMMA HistoryTypesStep ==
  ASSUME RunTypes, HistoryTypes, [Next]_vars
  PROVE  HistoryTypes'
<1>0. /\ now \in Nat /\ Len(attempts) \in Nat /\ Len(losses) \in Nat
      /\ RecentLogins \subseteq 1..Len(attempts) /\ RecentLosses \subseteq 1..Len(losses)
  <2>1. now \in Nat /\ Len(attempts) \in Nat /\ Len(losses) \in Nat
    BY DEF RunTypes, HistoryTypes
  <2>2. RecentLogins \subseteq loginHistory /\ RecentLosses \subseteq lossHistory
    BY DEF RecentLogins, RecentLosses, within
  <2> QED BY <2>1, <2>2 DEF HistoryTypes
<1>1. attempts' \in Seq(Nat) /\ loginHistory' \subseteq 1..Len(attempts')
  <2>1. CASE attempts' = attempts /\ loginHistory' \in {loginHistory, RecentLogins}
    BY <1>0, <2>1 DEF HistoryTypes
  <2>2. ASSUME NEW H, H \subseteq 1..Len(attempts), LoginMadeFrom(H)
        PROVE  attempts' \in Seq(Nat) /\ loginHistory' \subseteq 1..Len(attempts')
    <3>1. attempts' \in Seq(Nat) /\ Len(attempts') = Len(attempts) + 1
      BY <1>0, <2>2 DEF LoginMadeFrom, HistoryTypes
    <3> QED BY <1>0, <2>2, <3>1, OneMore DEF LoginMadeFrom
  <2>3. CASE CycleLogin
    BY <1>0, <2>2, <2>3 DEF CycleLogin
  <2>4. CASE RenewalLogin
    BY <2>2, <2>4 DEF RenewalLogin, HistoryTypes
  <2> QED BY <2>1, <2>3, <2>4, StepsOfTheBooks DEF LoginSteps, LoginsKept, LoginsPruned
<1>2. losses' \in Seq(Nat) /\ lossHistory' \subseteq 1..Len(losses')
  <2>1. CASE losses' = losses /\ lossHistory' \in {lossHistory, RecentLosses}
    BY <1>0, <2>1 DEF HistoryTypes
  <2>2. CASE sessionLost
    <3>1. losses' = Append(losses, now) /\ lossHistory' = RecentLosses \cup {Len(losses) + 1}
      BY <2>2 DEF sessionLost
    <3>2. losses' \in Seq(Nat) /\ Len(losses') = Len(losses) + 1
      BY <1>0, <3>1 DEF HistoryTypes
    <3> QED BY <1>0, <3>1, <3>2, OneMore
  <2> QED BY <2>1, <2>2, Steps DEF LossSteps, LossesKept, LossesPruned, LossMade
<1> QED BY <1>1, <1>2 DEF HistoryTypes

StateType ==
  [Up : BOOLEAN, SessionBlocked : BOOLEAN,
   LastAttempt : Nat \cup {NoSnapshot}, Snapshot : Nat \cup {NoSnapshot},
   Logins : Nat, LoginFailures : Nat, SessionsLost : Nat, LoginsSuppressed : Nat]
PollType ==
  [TakenAt : Nat, calls : Nat, gathered : Nat, err : {"nil", "silent", "expired"}]

\* The ways a step publishes a state and goes on with a poll.
Suppressed(busy) ==
  [state EXCEPT !.LoginsSuppressed = @ + 1, !.LastAttempt = now, !.Up = FALSE,
                !.SessionBlocked = busy]
LoginRefused(busy) == [Recorded(state, FALSE, busy, 0, 0) EXCEPT !.LoginFailures = @ + 1]
Judged(ok, busy)   == Recorded(state, ok, busy, poll.TakenAt, poll.gathered)

StateSteps ==
  \/ state' = state
  \/ state' = [state EXCEPT !.Logins = @ + 1]
  \/ state' = [state EXCEPT !.LoginFailures = @ + 1]
  \/ \E busy \in BOOLEAN : state' = Suppressed(busy)
  \/ \E busy \in BOOLEAN : state' = LoginRefused(busy)
  \/ \E ok, busy \in BOOLEAN : state' = Judged(ok, busy)
  \/ \E busy \in BOOLEAN : state' = [Judged(FALSE, busy) EXCEPT !.SessionsLost = @ + 1]

PollSteps ==
  \/ poll' \in {poll, NoPoll, [NoPoll EXCEPT !.TakenAt = now]}
  \/ \E g \in {poll.gathered, poll.gathered + 1}, e \in {poll.err, "silent", "expired"} :
       \/ poll' = [poll EXCEPT !.calls = @ + 1, !.gathered = g, !.err = e]
       \/ poll' = [poll EXCEPT !.calls = @ + 1, !.err = e]

LEMMA PublishingSteps ==
  ASSUME [Next]_vars
  PROVE  StateSteps /\ PollSteps
<1> USE DEF PollSteps, StateSteps, ToOnCycle
<1>1. CASE UNCHANGED <<state, poll>>
  BY <1>1
<1>2. CASE Suppress
  <2>1. (state.SessionBlocked \/ holdOff = "taken") \in BOOLEAN
    OBVIOUS
  <2> QED BY <1>2, <2>1 DEF Suppress, Suppressed
<1>3. CASE StartLogin \/ StartPoll
  BY <1>3 DEF StartLogin, StartPoll
<1>4. CASE LoginSucceeds
  BY <1>4 DEF LoginSucceeds, LoggedIn
<1>5. CASE LoginFails
  <2>1. PICK busy \in {wire = "busy", FALSE} : state' = LoginRefused(busy)
    BY <1>5 DEF LoginFails, LoginRefused
  <2>2. busy \in BOOLEAN
    OBVIOUS
  <2> QED BY <1>5, <2>1, <2>2 DEF LoginFails
<1>6. CASE LoginCutShort
  BY <1>6 DEF LoginCutShort
<1>7. CASE CallAnswers \/ CallFails
  BY <1>7 DEF CallAnswers, CallFails, AfterCall
<1>8. CASE CallExpired
  BY <1>8 DEF CallExpired
<1>9. CASE CycleCutShort
  BY <1>9 DEF CycleCutShort
<1>10. CASE CycleSucceeds
  BY <1>10 DEF CycleSucceeds, Judged
<1>11. CASE CycleTimedOut
  BY <1>11 DEF CycleTimedOut, Judged
<1>12. CASE CycleLosesSession
  <2>1. (RecentLosses # {}) \in BOOLEAN
    OBVIOUS
  <2> QED BY <1>12, <2>1 DEF CycleLosesSession, Judged
<1>13. CASE KeepSession \/ StartRenewal \/ RenewalLogsIn \/ RenewalCutShort
  BY <1>13 DEF KeepSession, StartRenewal, RenewalLogsIn, RenewalCutShort
<1>14. CASE RenewalSucceeds
  BY <1>14 DEF RenewalSucceeds, LoggedIn
<1>15. CASE RenewalFails
  BY <1>15 DEF RenewalFails
<1>16. CASE Loop
  BY <1>16 DEF Loop, OnCycleReturns, Wake, StopSleeping, FinalLogoutReturns
<1>17. CASE Environment
  BY <1>17 DEF Environment, RouterSeesLogin, RouterSeesLogout, SomebodyElse, Tick,
               Deadline, Cancel
<1> QED BY <1>1, <1>2, <1>3, <1>4, <1>5, <1>6, <1>7, <1>8, <1>9, <1>10, <1>11, <1>12,
           <1>13, <1>14, <1>15, <1>16, <1>17
        DEF Next, Run, Decide, Return, Judge, Renew, vars

LEMMA RecordedType ==
  ASSUME NEW s \in StateType, NEW ok \in BOOLEAN, NEW busy \in BOOLEAN,
         NEW t \in Nat, NEW gathered \in Nat, start \in Nat
  PROVE  Recorded(s, ok, busy, t, gathered) \in StateType
BY DEF Recorded, StateType

LEMMA CountedType ==
  ASSUME NEW s \in StateType
  PROVE  /\ [s EXCEPT !.Logins = @ + 1] \in StateType
         /\ [s EXCEPT !.LoginFailures = @ + 1] \in StateType
         /\ [s EXCEPT !.SessionsLost = @ + 1] \in StateType
         /\ [s EXCEPT !.LoginsSuppressed = @ + 1] \in StateType
BY DEF StateType

LEMMA SuppressedType ==
  ASSUME state \in StateType, now \in Nat, NEW busy \in BOOLEAN
  PROVE  Suppressed(busy) \in StateType
<1> DEFINE counted == [state EXCEPT !.LoginsSuppressed = @ + 1]
<1>1. counted \in StateType
  BY CountedType
<1>2. ASSUME NEW s \in StateType, NEW up \in BOOLEAN
      PROVE  [s EXCEPT !.LastAttempt = now, !.Up = up, !.SessionBlocked = busy] \in StateType
  BY DEF StateType
<1>3. [counted EXCEPT !.LastAttempt = now, !.Up = FALSE, !.SessionBlocked = busy] \in StateType
  BY <1>1, <1>2
<1> QED BY <1>3, Zenon DEF Suppressed

LEMMA CallType ==
  ASSUME NEW p \in PollType, NEW g \in Nat, NEW e \in {"nil", "silent", "expired"}
  PROVE  /\ [p EXCEPT !.calls = @ + 1, !.gathered = g, !.err = e] \in PollType
         /\ [p EXCEPT !.calls = @ + 1, !.err = e] \in PollType
<1> DEFINE called == [p EXCEPT !.calls = @ + 1]
<1>1. called \in PollType
  BY DEF PollType
<1>2. ASSUME NEW q \in PollType
      PROVE  [q EXCEPT !.gathered = g, !.err = e] \in PollType /\ [q EXCEPT !.err = e] \in PollType
  BY DEF PollType
<1>3. [called EXCEPT !.gathered = g, !.err = e] \in PollType /\ [called EXCEPT !.err = e] \in PollType
  BY <1>1, <1>2
<1> QED BY <1>3, Zenon

LEMMA StateTypesStep ==
  ASSUME RunTypes, StateTypes, [Next]_vars
  PROVE  StateTypes'
<1>1. now \in Nat /\ start \in Nat
  BY DEF RunTypes
<1>2. state \in StateType /\ poll \in PollType /\ stamp \in Nat /\ warned \in BOOLEAN
  BY DEF StateTypes, StateType, PollType
<1>3. poll.TakenAt \in Nat /\ poll.gathered \in Nat
  BY <1>2 DEF PollType
<1>4. poll' \in PollType
  <2>1. CASE poll' \in {poll, NoPoll, [NoPoll EXCEPT !.TakenAt = now]}
    <3>1. NoPoll \in PollType /\ [NoPoll EXCEPT !.TakenAt = now] \in PollType
      BY <1>1 DEF NoPoll, PollType
    <3> QED BY <1>2, <2>1, <3>1
  <2>2. ASSUME NEW g \in {poll.gathered, poll.gathered + 1},
               NEW e \in {poll.err, "silent", "expired"},
               \/ poll' = [poll EXCEPT !.calls = @ + 1, !.gathered = g, !.err = e]
               \/ poll' = [poll EXCEPT !.calls = @ + 1, !.err = e]
        PROVE  poll' \in PollType
    <3>1. g \in Nat /\ e \in {"nil", "silent", "expired"}
      BY <1>2 DEF PollType
    <3>2. /\ [poll EXCEPT !.calls = @ + 1, !.gathered = g, !.err = e] \in PollType
          /\ [poll EXCEPT !.calls = @ + 1, !.err = e] \in PollType
      BY <1>2, <3>1, CallType
    <3> QED BY <2>2, <3>2
  <2> QED BY <2>1, <2>2, PublishingSteps DEF PollSteps
<1>5. state' \in StateType
  <2>1. \A ok \in BOOLEAN, busy \in BOOLEAN : Judged(ok, busy) \in StateType
    BY <1>1, <1>2, <1>3, RecordedType DEF Judged
  <2>2. \A busy \in BOOLEAN : LoginRefused(busy) \in StateType
    <3>1. \A busy \in BOOLEAN : Recorded(state, FALSE, busy, 0, 0) \in StateType
      BY <1>1, <1>2, RecordedType
    <3> QED BY <3>1, CountedType DEF LoginRefused
  <2>3. \A busy \in BOOLEAN : [Judged(FALSE, busy) EXCEPT !.SessionsLost = @ + 1] \in StateType
    BY <2>1, CountedType
  <2>4. \A busy \in BOOLEAN : Suppressed(busy) \in StateType
    BY <1>1, <1>2, SuppressedType
  <2>5. [state EXCEPT !.Logins = @ + 1] \in StateType /\ [state EXCEPT !.LoginFailures = @ + 1] \in StateType
    BY <1>2, CountedType
  <2> QED BY <1>2, <2>1, <2>2, <2>3, <2>4, <2>5, PublishingSteps DEF StateSteps
<1>6. stamp' \in Nat
  <2>1. publishedAt \in Nat
    BY <1>1, <1>3 DEF publishedAt
  <2> QED BY <1>1, <1>2, <2>1, Steps DEF WaitSteps
<1>7. warned' \in BOOLEAN
  BY <1>2, Steps DEF WaitSteps
<1> QED BY <1>4, <1>5, <1>6, <1>7 DEF StateTypes, StateType, PollType

LEMMA TypeInit == Init => TypeOK
<1> SUFFICES ASSUME Init PROVE TypeOK
  OBVIOUS
<1>1. RunTypes
  BY DEF Init, RunTypes, Places
<1>2. WaitTypes
  BY DEF Init, WaitTypes
<1>3. HistoryTypes
  BY DEF Init, HistoryTypes
<1>4. StateTypes
  BY DEF Init, StateTypes, NoPoll, NoSnapshot
<1> QED BY <1>1, <1>2, <1>3, <1>4 DEF TypeOK

LEMMA TypeStep == TypeOK /\ [Next]_vars => TypeOK'
BY RunTypesStep, WaitTypesStep, HistoryTypesStep, StateTypesStep DEF TypeOK

\* The variables of the poller keep their types, and its two histories name
\* events that happened, for every configuration NewPoller accepts.
THEOREM TypeCorrect == Spec => []TypeOK
BY TypeInit, TypeStep, PTL DEF Spec

-----------------------------------------------------------------------------
(* The cap on logins.  A login is forgotten only once it is older than the   *)
(* window, and a login is made only while fewer than MaxLoginsPerHour are    *)
(* remembered: of the last MaxLoginsPerHour attempts one is then forgotten,  *)
(* the oldest of them is older still, and the new one is a window away.      *)

LoginOrder ==
  \A i, j \in 1..Len(attempts) : i <= j => attempts[i] <= attempts[j] /\ attempts[j] <= now
OldAfter(history) ==
  \A i \in 1..Len(attempts) : i \notin history => now - attempts[i] >= lossWindow
OnlyOldLoginsAreForgotten == OldAfter(loginHistory)
RenewalHasRoom == pc = "renewLogout" => Cardinality(loginHistory) < MaxLoginsPerHour

LoginTypes == now \in Nat /\ attempts \in Seq(Nat) /\ loginHistory \subseteq 1..Len(attempts)
LoginInv ==
  LoginTypes /\ LoginOrder /\ OnlyOldLoginsAreForgotten /\ RenewalHasRoom /\ LoginCap

LEMMA PruningForgetsTheOld ==
  ASSUME LoginTypes, OnlyOldLoginsAreForgotten
  PROVE  RecentLogins \subseteq 1..Len(attempts) /\ OldAfter(RecentLogins)
<1>1. RecentLogins \subseteq loginHistory /\ loginHistory \subseteq 1..Len(attempts)
  BY DEF LoginTypes, RecentLogins, within
<1>2. OldAfter(RecentLogins)
  <2> SUFFICES ASSUME NEW i \in 1..Len(attempts), i \notin RecentLogins
               PROVE  now - attempts[i] >= lossWindow
    BY DEF OldAfter
  <2>1. attempts[i] \in Nat /\ now \in Nat
    BY DEF LoginTypes
  <2>2. i \in loginHistory => ~(now - attempts[i] < lossWindow)
    BY DEF RecentLogins, within
  <2> QED BY <2>1, <2>2, ConstantTypes DEF OnlyOldLoginsAreForgotten, OldAfter
<1> QED BY <1>1, <1>2

LEMMA RoomForOneMore ==
  ASSUME LoginTypes, OnlyOldLoginsAreForgotten, ~capReached
  PROVE  Cardinality(RecentLogins) < MaxLoginsPerHour
<1>1. IsFiniteSet(1..Len(attempts))
  <2>1. 1 \in Int /\ Len(attempts) \in Int
    BY DEF LoginTypes
  <2> QED BY <2>1, FS_Interval
<1>2. RecentLogins \in SUBSET (1..Len(attempts))
  BY PruningForgetsTheOld
<1>3. Cardinality(RecentLogins) \in Nat
  <2>1. IsFiniteSet(RecentLogins)
    BY <1>1, <1>2, FS_Subset
  <2> QED BY <2>1, FS_CardinalityType
<1> QED BY <1>3, ConstantTypes DEF capReached

LEMMA AttemptKeepsTheCap ==
  ASSUME LoginInv, NEW H, H \subseteq 1..Len(attempts), Cardinality(H) < MaxLoginsPerHour,
         OldAfter(H), LoginMadeFrom(H)
  PROVE  LoginInv'
<1> DEFINE n == Len(attempts)
<1>1. n \in Nat /\ now \in Nat /\ \A i \in 1..n : attempts[i] \in Nat
  BY DEF LoginInv, LoginTypes
<1>2. /\ attempts' \in Seq(Nat) /\ Len(attempts') = n + 1 /\ attempts'[n + 1] = now
      /\ \A i \in 1..n : attempts'[i] = attempts[i]
  <2>1. attempts' = Append(attempts, now)
    BY DEF LoginMadeFrom
  <2> QED BY <2>1 DEF LoginInv, LoginTypes
<1>3. \A i \in 1..(n + 1) : i \in 1..n \/ i = n + 1
  BY <1>1
<1>4. now' = now /\ loginHistory' = H \cup {n + 1} /\ pc' # "renewLogout"
  BY DEF LoginMadeFrom
<1>5. H \subseteq 1..n /\ \A i \in 1..n : i \notin H => now - attempts[i] >= lossWindow
  BY DEF OldAfter
<1>6. \A i, j \in 1..n : i <= j => attempts[i] <= attempts[j] /\ attempts[j] <= now
  BY DEF LoginInv, LoginOrder
<1>7. \A i \in 1..n : i + MaxLoginsPerHour <= n => attempts[i + MaxLoginsPerHour] - attempts[i] >= lossWindow
  BY DEF LoginInv, LoginCap
<1> HIDE DEF n
<1>8. LoginTypes'
  BY <1>1, <1>2, <1>4, <1>5, OneMore DEF LoginTypes
<1>9. LoginOrder'
  <2> SUFFICES ASSUME NEW i \in 1..(n + 1), NEW j \in 1..(n + 1), i <= j
               PROVE  attempts'[i] <= attempts'[j] /\ attempts'[j] <= now
    BY <1>2, <1>4 DEF LoginOrder
  <2>1. CASE j = n + 1
    BY <2>1, <1>1, <1>2, <1>3, <1>6
  <2>2. CASE j \in 1..n
    <3>1. i \in 1..n
      BY <2>2, <1>1
    <3> QED BY <2>2, <3>1, <1>2, <1>6
  <2> QED BY <2>1, <2>2, <1>3
<1>10. OnlyOldLoginsAreForgotten'
  <2> SUFFICES ASSUME NEW i \in 1..(n + 1), i \notin H \cup {n + 1}
               PROVE  now - attempts'[i] >= lossWindow
    BY <1>2, <1>4 DEF OnlyOldLoginsAreForgotten, OldAfter
  <2> QED BY <1>2, <1>3, <1>5
<1>11. RenewalHasRoom'
  BY <1>4 DEF RenewalHasRoom
<1>12. LoginCap'
  <2> DEFINE M == MaxLoginsPerHour
  <2> SUFFICES ASSUME NEW i \in 1..(n + 1), i + M <= n + 1
               PROVE  attempts'[i + M] - attempts'[i] >= lossWindow
    BY <1>2 DEF LoginCap
  <2>1. /\ M \in Nat \ {0} /\ lossWindow \in Nat
        /\ i \in 1..n /\ (i + M <= n \/ i + M = n + 1)
    BY ConstantTypes, <1>1
  <2>2. CASE i + M <= n
    <3> DEFINE k == i + M
    <3>1. k \in 1..n
      BY <2>1, <2>2, <1>1
    <3>2. attempts[k] - attempts[i] >= lossWindow
      BY <2>1, <2>2, <1>7
    <3>3. attempts'[k] = attempts[k] /\ attempts'[i] = attempts[i]
      BY <3>1, <2>1, <1>2
    <3> QED BY <3>2, <3>3
  <2>3. CASE i + M = n + 1
    <3>1. M <= n /\ n + 1 - M = i
      BY <2>1, <2>3, <1>1
    <3>2. PICK j \in (n + 1 - M)..n : j \notin H
      BY <3>1, <2>1, <1>1, <1>5, Pigeonhole
    <3>3. j \in 1..n /\ i <= j
      BY <3>1, <3>2, <2>1, <1>1
    <3>4. now - attempts[j] >= lossWindow /\ attempts[i] <= attempts[j]
      BY <3>2, <3>3, <2>1, <1>5, <1>6
    <3>5. now - attempts[i] >= lossWindow
      BY <3>3, <3>4, <2>1, <1>1
    <3> QED BY <3>5, <2>1, <2>3, <1>2
  <2> QED BY <2>1, <2>2, <2>3
<1> QED BY <1>8, <1>9, <1>10, <1>11, <1>12 DEF LoginInv

LEMMA LoginInit == Init => LoginInv
BY DEF Init, LoginInv, LoginTypes, LoginOrder, OnlyOldLoginsAreForgotten, OldAfter,
       RenewalHasRoom, LoginCap

LEMMA LoginStep == LoginInv /\ [Next]_vars => LoginInv'
<1> SUFFICES ASSUME LoginInv, [Next]_vars PROVE LoginInv'
  OBVIOUS
<1>1. RecentLogins \subseteq 1..Len(attempts) /\ OldAfter(RecentLogins)
  BY PruningForgetsTheOld DEF LoginInv
<1>2. CASE LoginsKept
  <2>1. /\ now \in Nat /\ now' \in {now, now + 1} /\ lossWindow \in Nat
        /\ \A i \in 1..Len(attempts) : attempts[i] \in Nat
    <3>1. now' \in {now, now + 1}
      BY Steps DEF RunSteps
    <3> QED BY <3>1, ConstantTypes DEF LoginInv, LoginTypes
  <2>2. LoginTypes' /\ RenewalHasRoom' /\ LoginCap'
    BY <1>2, <2>1 DEF LoginInv, LoginsKept, LoginTypes, RenewalHasRoom, LoginCap
  <2>3. LoginOrder'
    BY <1>2, <2>1 DEF LoginInv, LoginsKept, LoginOrder
  <2>4. OnlyOldLoginsAreForgotten'
    BY <1>2, <2>1 DEF LoginInv, LoginsKept, OnlyOldLoginsAreForgotten, OldAfter
  <2> QED BY <2>2, <2>3, <2>4 DEF LoginInv
<1>3. CASE LoginsPruned
  <2>1. LoginTypes' /\ LoginOrder' /\ LoginCap'
    BY <1>1, <1>3 DEF LoginInv, LoginsPruned, LoginTypes, LoginOrder, LoginCap
  <2>2. OnlyOldLoginsAreForgotten'
    BY <1>1, <1>3 DEF LoginsPruned, OnlyOldLoginsAreForgotten, OldAfter
  <2>3. RenewalHasRoom'
    BY <1>3, RoomForOneMore DEF LoginInv, LoginsPruned, RenewalHasRoom
  <2> QED BY <2>1, <2>2, <2>3 DEF LoginInv
<1>4. CASE CycleLogin
  BY <1>1, <1>4, RoomForOneMore, AttemptKeepsTheCap DEF LoginInv, CycleLogin
<1>5. CASE RenewalLogin
  <2>1. /\ loginHistory \subseteq 1..Len(attempts) /\ OldAfter(loginHistory)
        /\ Cardinality(loginHistory) < MaxLoginsPerHour
    BY <1>5 DEF LoginInv, LoginTypes, OnlyOldLoginsAreForgotten, RenewalHasRoom, RenewalLogin
  <2> QED BY <1>5, <2>1, AttemptKeepsTheCap DEF RenewalLogin
<1> QED BY <1>2, <1>3, <1>4, <1>5, StepsOfTheBooks DEF LoginSteps

\* No hour holds more than MaxLoginsPerHour logins, wherever the hour starts and
\* whichever path made them: a cycle after a failure, after a loss, a renewal.
THEOREM LoginCapHolds == Spec => []LoginCap
<1>1. LoginInv => LoginCap
  BY DEF LoginInv
<1> QED BY <1>1, LoginInit, LoginStep, PTL DEF Spec

-----------------------------------------------------------------------------
(* The waits.  A cycle is entered only outside both waits, or on a session   *)
(* logged in since they were armed, and whatever arms one ends the cycle.    *)

SessionPlaces ==
  /\ pc = "login" => ~loggedIn
  /\ pc \in {"poll", "judge", "renew", "renewLogout"} => loggedIn
NoRequestInsideAWait == InCycle => quietUntil <= now /\ loginAfter <= now
LoggedInEarlier      == loggedIn => loggedInAt <= now
StartedEarlier       == start <= now
SessionInv ==
  /\ SessionPlaces /\ NoRequestInsideAWait /\ LoggedInEarlier /\ StartedEarlier
  /\ NoSessionInsideAWait

CycleSteps ==
  InCycle' =>
    /\ UNCHANGED <<quietUntil, loginAfter>>
    /\ InCycle \/ loggedIn \/ (now >= quietUntil /\ now >= loginAfter)
SessionSteps ==
  loggedIn' =>
    /\ UNCHANGED <<quietUntil, loginAfter>>
    /\ (loggedIn /\ loggedInAt' = loggedInAt) \/ (InCycle /\ loggedInAt' = now)

LEMMA StepsOfTheSession ==
  ASSUME quietUntil \in Nat, loginAfter \in Nat, now \in Nat, SessionPlaces, [Next]_vars
  PROVE  SessionPlaces' /\ CycleSteps /\ SessionSteps
<1> USE DEF SessionPlaces, CycleSteps, SessionSteps, ToOnCycle, InCycle
<1>0. CASE UNCHANGED vars
  BY <1>0 DEF vars
<1>1. CASE Suppress
  BY <1>1 DEF Suppress
<1>2. CASE StartLogin
  <2>1. now >= quietUntil /\ now >= loginAfter
    BY <1>2 DEF StartLogin, holdOff
  <2> QED BY <1>2, <2>1 DEF StartLogin
<1>3. CASE StartPoll
  BY <1>3 DEF StartPoll
<1>4. CASE LoginSucceeds
  BY <1>4 DEF LoginSucceeds, LoggedIn
<1>5. CASE LoginFails \/ LoginCutShort
  <2>1. pc = "login" /\ pc' = "onCycle" /\ loggedIn' = loggedIn
    BY <1>5 DEF LoginFails, LoginCutShort
  <2> QED BY <2>1
<1>6. CASE CallAnswers \/ CallFails
  BY <1>6 DEF CallAnswers, CallFails, AfterCall
<1>7. CASE CallExpired
  BY <1>7 DEF CallExpired
<1>8. CASE CycleCutShort \/ CycleSucceeds
  BY <1>8 DEF CycleCutShort, CycleSucceeds
<1>9. CASE CycleTimedOut \/ CycleLosesSession
  BY <1>9 DEF CycleTimedOut, CycleLosesSession
<1>10. CASE Renew
  BY <1>10 DEF Renew, KeepSession, StartRenewal, RenewalLogsIn, RenewalCutShort,
               RenewalSucceeds, RenewalFails, LoggedIn, LoggedOut
<1>11. CASE Loop
  BY <1>11 DEF Loop, OnCycleReturns, Wake, StopSleeping, FinalLogoutReturns,
               ToFinalLogout, LoggedOut
<1>12. CASE Environment
  BY <1>12 DEF Environment, RouterSeesLogin, RouterSeesLogout, SomebodyElse, Tick,
               Deadline, Cancel
<1> QED BY <1>0, <1>1, <1>2, <1>3, <1>4, <1>5, <1>6, <1>7, <1>8, <1>9, <1>10, <1>11, <1>12
        DEF Next, Run, Decide, Return, Judge

LEMMA SessionInit == Init => SessionInv
BY DEF Init, SessionInv, SessionPlaces, NoRequestInsideAWait, LoggedInEarlier, StartedEarlier,
       NoSessionInsideAWait, InCycle

LEMMA SessionStep ==
  ASSUME RunTypes, WaitTypes, SessionInv, [Next]_vars
  PROVE  SessionInv'
<1>1. /\ now \in Nat /\ start \in Nat /\ quietUntil \in Nat /\ loginAfter \in Nat
      /\ loggedInAt \in Nat
  BY DEF RunTypes, WaitTypes
<1>2. now' \in {now, now + 1} /\ start' \in {start, now}
  BY Steps DEF RunSteps
<1>3. SessionPlaces' /\ CycleSteps /\ SessionSteps
  BY <1>1, StepsOfTheSession DEF SessionInv
<1>4. NoRequestInsideAWait'
  <2> SUFFICES ASSUME InCycle' PROVE quietUntil' <= now' /\ loginAfter' <= now'
    BY DEF NoRequestInsideAWait
  <2>1. quietUntil' = quietUntil /\ loginAfter' = loginAfter
    BY <1>3 DEF CycleSteps
  <2>2. quietUntil <= now /\ loginAfter <= now
    <3>1. CASE InCycle
      BY <3>1 DEF SessionInv, NoRequestInsideAWait
    <3>2. CASE loggedIn
      <4>1. quietUntil <= loggedInAt /\ loginAfter <= loggedInAt /\ loggedInAt <= now
        BY <3>2 DEF SessionInv, NoSessionInsideAWait, LoggedInEarlier
      <4> QED BY <4>1, <1>1
    <3>3. CASE now >= quietUntil /\ now >= loginAfter
      BY <3>3, <1>1
    <3> QED BY <3>1, <3>2, <3>3, <1>3 DEF CycleSteps
  <2> QED BY <1>1, <1>2, <2>1, <2>2
<1>5. LoggedInEarlier' /\ NoSessionInsideAWait'
  <2> SUFFICES ASSUME loggedIn'
               PROVE  loggedInAt' <= now' /\ quietUntil' <= loggedInAt' /\ loginAfter' <= loggedInAt'
    BY DEF LoggedInEarlier, NoSessionInsideAWait
  <2>1. quietUntil' = quietUntil /\ loginAfter' = loginAfter
    BY <1>3 DEF SessionSteps
  <2>2. CASE loggedIn /\ loggedInAt' = loggedInAt
    <3>1. quietUntil <= loggedInAt /\ loginAfter <= loggedInAt /\ loggedInAt <= now
      BY <2>2 DEF SessionInv, NoSessionInsideAWait, LoggedInEarlier
    <3> QED BY <3>1, <2>1, <2>2, <1>1, <1>2
  <2>3. CASE InCycle /\ loggedInAt' = now
    <3>1. quietUntil <= now /\ loginAfter <= now
      BY <2>3 DEF SessionInv, NoRequestInsideAWait
    <3> QED BY <3>1, <2>1, <2>3, <1>1, <1>2
  <2> QED BY <1>3, <2>2, <2>3 DEF SessionSteps
<1>6. StartedEarlier'
  BY <1>1, <1>2 DEF SessionInv, StartedEarlier
<1> QED BY <1>3, <1>4, <1>5, <1>6 DEF SessionInv

\* No session is held, used or renewed inside a wait armed since its login.
THEOREM NoSessionInsideAWaitHolds == Spec => []NoSessionInsideAWait
<1>1. TypeOK /\ SessionInv /\ [Next]_vars => TypeOK' /\ SessionInv'
  BY TypeStep, SessionStep DEF TypeOK
<1>2. SessionInv => NoSessionInsideAWait
  BY DEF SessionInv
<1> QED BY <1>1, <1>2, TypeInit, SessionInit, PTL DEF Spec

LEMMA WaitsInit == Init => WaitsBounded
BY ConfigAssumption DEF Init, WaitsBounded, ConfigAssumption, Longer

LEMMA WaitsStep ==
  ASSUME RunTypes, WaitTypes, StartedEarlier, WaitsBounded, [Next]_vars
  PROVE  WaitsBounded'
<1>1. /\ now \in Nat /\ start \in Nat /\ start <= now /\ quietUntil \in Nat /\ loginAfter \in Nat
      /\ backoff \in Nat /\ cooldown \in Nat
  BY DEF RunTypes, WaitTypes, StartedEarlier
<1>2. now' \in {now, now + 1}
  BY Steps DEF RunSteps
<1>3. NextBackoff \in MinBackoff..MaxBackoff
  BY NextBackoffBounds DEF WaitsBounded
<1>4. NextCooldown \in SessionCooldown..Longer(MaxBackoff, SessionCooldown)
  <2>1. cooldown = 0 \/ cooldown >= SessionCooldown
    BY ConstantTypes DEF WaitsBounded, Longer
  <2> QED BY <1>1, <2>1, NextCooldownBounds
<1>5. backoff' \in {0} \cup MinBackoff..MaxBackoff
  BY <1>3, Steps DEF WaitSteps, WaitsBounded
<1>6. /\ cooldown' \in {cooldown, 0, NextCooldown}
      /\ quietUntil' \in {quietUntil, now + NextCooldown}
  BY Steps DEF LossSteps, LossesKept, LossesPruned, LossMade, sessionLost, CooldownAfterSuccess
<1>7. cooldown' \in {0} \cup SessionCooldown..Longer(MaxBackoff, SessionCooldown)
  BY <1>4, <1>6 DEF WaitsBounded
<1>8. quietUntil' <= now' + Longer(MaxBackoff, SessionCooldown)
  <2>1. quietUntil <= now + Longer(MaxBackoff, SessionCooldown)
    BY DEF WaitsBounded
  <2>2. Longer(MaxBackoff, SessionCooldown) \in Nat
    BY ConstantTypes DEF Longer
  <2>3. CASE quietUntil' = quietUntil
    BY <2>1, <2>2, <2>3, <1>1, <1>2
  <2>4. CASE quietUntil' = now + NextCooldown
    BY <2>2, <2>4, <1>1, <1>2, <1>4
  <2> QED BY <2>3, <2>4, <1>6
<1>9. loginAfter' <= now' + Longer(Interval, MaxBackoff)
  <2>1. loginAfter' \in {loginAfter, start + Longer(Interval, NextBackoff)}
    BY Steps DEF WaitSteps
  <2>2. loginAfter <= now + Longer(Interval, MaxBackoff)
    BY DEF WaitsBounded
  <2>3. /\ Longer(Interval, MaxBackoff) \in Nat /\ Longer(Interval, NextBackoff) \in Nat
        /\ Longer(Interval, NextBackoff) <= Longer(Interval, MaxBackoff)
    BY <1>3, ConstantTypes DEF Longer
  <2>4. CASE loginAfter' = loginAfter
    BY <2>2, <2>3, <2>4, <1>1, <1>2
  <2>5. CASE loginAfter' = start + Longer(Interval, NextBackoff)
    BY <2>3, <2>5, <1>1, <1>2
  <2> QED BY <2>1, <2>4, <2>5
<1> QED BY <1>5, <1>7, <1>8, <1>9 DEF WaitsBounded

LEMMA WaitInvariants == Spec => [](TypeOK /\ SessionInv /\ WaitsBounded)
<1>1. TypeOK /\ SessionInv /\ WaitsBounded /\ [Next]_vars => (TypeOK /\ SessionInv /\ WaitsBounded)'
  BY TypeStep, SessionStep, WaitsStep DEF TypeOK, SessionInv
<1> QED BY <1>1, TypeInit, SessionInit, WaitsInit, PTL DEF Spec

\* However failures and losses interleave, the backoff and the cooldown stay
\* between their floors and their ceilings, and no wait reaches further.
THEOREM WaitsAreBounded == Spec => []WaitsBounded
BY WaitInvariants, PTL

\* The cooldown never shrinks but to zero, and that with no loss left to count.
THEOREM EscalationHolds == Spec => EscalationOutlivesGoodCycles
<1>1. ASSUME TypeOK, WaitsBounded, [Next]_vars, cooldown' < cooldown
      PROVE  cooldown' = 0 /\ lossHistory' = {}
  <2>1. cooldown \in Nat
    BY <1>1 DEF TypeOK, WaitTypes
  <2>2. ~(cooldown' = cooldown)
    BY <1>1, <2>1
  <2>3. CASE LossesPruned
    BY <2>2, <2>3 DEF LossesPruned, CooldownAfterSuccess
  <2>4. CASE LossMade
    <3>1. cooldown' = NextCooldown
      BY <2>2, <2>4 DEF LossMade, sessionLost
    <3>2. NextCooldown >= cooldown
      BY <1>1, <2>1, ConstantTypes DEF WaitsBounded, NextCooldown, Longer, Shorter
    <3>3. NextCooldown \in Nat
      BY <2>1, NextCooldownType
    <3> QED BY <3>1, <3>2, <3>3, <2>1, <1>1
  <2> QED BY <1>1, <2>2, <2>3, <2>4, Steps DEF LossSteps, LossesKept
<1>2. TypeOK /\ WaitsBounded /\ [Next]_vars
      => [cooldown' < cooldown => cooldown' = 0 /\ lossHistory' = {}]_vars
  BY <1>1
<1> QED BY <1>2, WaitInvariants, PTL DEF Spec, EscalationOutlivesGoodCycles

-----------------------------------------------------------------------------
(* The quiet after a repeated loss.  A loss is forgotten only once it is     *)
(* older than the window, so that one less than a window after another finds *)
(* it counted and arms the cooldown; and no request is made inside a wait.   *)

Repeated(i) == i \in 2..Len(losses) /\ losses[i] - losses[i - 1] < lossWindow

LossOrder == \A i \in 1..Len(losses) : losses[i] <= now
OnlyOldLossesAreForgotten ==
  \A i \in 1..Len(losses) : i \notin lossHistory => now - losses[i] >= lossWindow
CooldownFloor == cooldown = 0 \/ cooldown >= SessionCooldown
QuietArmed == \A i \in 1..Len(losses) : Repeated(i) => losses[i] + SessionCooldown <= quietUntil
LossInv == LossOrder /\ OnlyOldLossesAreForgotten /\ CooldownFloor /\ QuietArmed

LEMMA LossInit == Init => LossInv
BY DEF Init, LossInv, LossOrder, OnlyOldLossesAreForgotten, CooldownFloor, QuietArmed

LEMMA LossIsAppended ==
  ASSUME TypeOK, sessionLost
  PROVE  /\ Len(losses) \in Nat /\ Len(losses') = Len(losses) + 1
         /\ losses'[Len(losses) + 1] = now
         /\ \A i \in 1..Len(losses) : losses'[i] = losses[i]
         /\ \A i \in 1..(Len(losses) + 1) : i \in 1..Len(losses) \/ i = Len(losses) + 1
<1>1. losses' = Append(losses, now)
  BY DEF sessionLost
<1>2. losses \in Seq(Nat) /\ now \in Nat
  BY DEF TypeOK, RunTypes, HistoryTypes
<1> QED BY <1>1, <1>2

LEMMA LossStep ==
  ASSUME TypeOK, SessionInv, LossInv, [Next]_vars
  PROVE  LossInv'
<1>1. /\ now \in Nat /\ cooldown \in Nat /\ quietUntil \in Nat
      /\ \A i \in 1..Len(losses) : losses[i] \in Nat
  BY DEF TypeOK, RunTypes, WaitTypes, HistoryTypes
<1>2. now' \in {now, now + 1}
  BY Steps DEF RunSteps
<1>3. NextCooldown \in Nat /\ NextCooldown >= SessionCooldown
  <2>1. NextCooldown \in SessionCooldown..Longer(MaxBackoff, SessionCooldown)
    BY <1>1, NextCooldownBounds DEF LossInv, CooldownFloor
  <2> QED BY <2>1, ConstantTypes DEF Longer
<1>4. CooldownFloor'
  <2>1. cooldown' \in {cooldown, 0, NextCooldown}
    BY Steps DEF LossSteps, LossesKept, LossesPruned, LossMade, sessionLost, CooldownAfterSuccess
  <2> QED BY <1>3, <2>1 DEF LossInv, CooldownFloor
<1>5. CASE LossesKept
  <2>1. LossOrder' /\ QuietArmed'
    BY <1>1, <1>2, <1>5 DEF LossesKept, LossInv, LossOrder, QuietArmed, Repeated
  <2>2. OnlyOldLossesAreForgotten'
    BY <1>1, <1>2, <1>5, ConstantTypes DEF LossesKept, LossInv, OnlyOldLossesAreForgotten
  <2> QED BY <1>4, <2>1, <2>2 DEF LossInv
<1>6. CASE LossesPruned
  <2>1. LossOrder' /\ QuietArmed'
    BY <1>6 DEF LossesPruned, LossInv, LossOrder, QuietArmed, Repeated
  <2>2. OnlyOldLossesAreForgotten'
    BY <1>1, <1>6, ConstantTypes
       DEF LossesPruned, LossInv, OnlyOldLossesAreForgotten, RecentLosses, within
  <2> QED BY <1>4, <2>1, <2>2 DEF LossInv
<1>7. CASE LossMade
  <2> DEFINE n == Len(losses)
  <2>1. sessionLost /\ now' = now /\ pc = "judge"
    BY <1>7 DEF LossMade
  <2>2. /\ n \in Nat /\ Len(losses') = n + 1 /\ losses'[n + 1] = now
        /\ \A i \in 1..n : losses'[i] = losses[i]
        /\ \A i \in 1..(n + 1) : i \in 1..n \/ i = n + 1
    BY <2>1, LossIsAppended
  <2>3. LossOrder'
    BY <1>1, <2>1, <2>2 DEF LossInv, LossOrder
  <2>4. OnlyOldLossesAreForgotten'
    <3> SUFFICES ASSUME NEW i \in 1..(n + 1), i \notin lossHistory'
                 PROVE  now - losses'[i] >= lossWindow
      BY <2>1, <2>2 DEF OnlyOldLossesAreForgotten
    <3>1. i \in 1..n /\ i \notin RecentLosses
      BY <2>1, <2>2 DEF sessionLost
    <3>2. now - losses[i] >= lossWindow
      BY <1>1, <3>1, ConstantTypes DEF LossInv, OnlyOldLossesAreForgotten, RecentLosses, within
    <3> QED BY <2>2, <3>1, <3>2
  <2>5. QuietArmed'
    <3> SUFFICES ASSUME NEW i \in 1..(n + 1), Repeated(i)'
                 PROVE  losses'[i] + SessionCooldown <= quietUntil'
      BY <2>2 DEF QuietArmed
    <3>1. quietUntil <= quietUntil' /\ quietUntil' \in Nat
      <4>1. quietUntil <= now
        BY <2>1 DEF SessionInv, NoRequestInsideAWait, InCycle
      <4>2. quietUntil' \in {quietUntil, now + NextCooldown}
        BY <2>1 DEF sessionLost
      <4> QED BY <4>1, <4>2, <1>1, <1>3
    <3>2. CASE i \in 1..n
      <4>1. i - 1 \in 1..n /\ Repeated(i)
        BY <2>2, <3>2 DEF Repeated
      <4>2. losses[i] + SessionCooldown <= quietUntil
        BY <3>2, <4>1 DEF LossInv, QuietArmed
      <4>3. losses[i] \in Nat /\ SessionCooldown \in Nat
        BY <1>1, <3>2, ConstantTypes
      <4> QED BY <1>1, <2>2, <3>1, <3>2, <4>2, <4>3
    <3>3. CASE i = n + 1
      <4>1. n \in 1..n /\ now - losses[n] < lossWindow
        BY <2>2, <3>3 DEF Repeated
      <4>2. n \in RecentLosses
        <5>1. n \in lossHistory
          BY <1>1, <4>1, ConstantTypes DEF LossInv, OnlyOldLossesAreForgotten
        <5> QED BY <4>1, <5>1 DEF RecentLosses, within
      <4>3. quietUntil' = now + NextCooldown
        BY <2>1, <4>2 DEF sessionLost
      <4> QED BY <1>1, <1>3, <2>2, <3>3, <4>3, ConstantTypes
    <3> QED BY <2>2, <3>2, <3>3
  <2> QED BY <1>4, <2>3, <2>4, <2>5 DEF LossInv
<1> QED BY <1>5, <1>6, <1>7, Steps DEF LossSteps

Books == TypeOK /\ SessionInv /\ LoginInv /\ LossInv

LEMMA AttemptsAvoidTheWait ==
  ASSUME Books, [Next]_vars, NEW H, LoginMadeFrom(H)
  PROVE  quietUntil <= now
<1>1. SessionInv' /\ CycleSteps
  BY SessionStep, StepsOfTheSession DEF Books, TypeOK, RunTypes, WaitTypes, SessionInv
<1>2. InCycle' /\ now' = now
  BY DEF LoginMadeFrom, InCycle
<1> QED BY <1>1, <1>2 DEF SessionInv, NoRequestInsideAWait, CycleSteps

LEMMA QuietStep ==
  ASSUME Books, QuietAfterRepeatedLoss, [Next]_vars
  PROVE  QuietAfterRepeatedLoss'
<1>1. /\ now \in Nat /\ quietUntil \in Nat /\ Len(attempts) \in Nat /\ Len(losses) \in Nat
      /\ \A j \in 1..Len(attempts) : attempts[j] \in Nat
      /\ \A i \in 1..Len(losses) : losses[i] \in Nat
  BY DEF Books, TypeOK, RunTypes, WaitTypes, HistoryTypes
<1>2. \A j \in 1..Len(attempts) : attempts[j] <= now
  BY DEF Books, LoginInv, LoginOrder
<1>3. CASE losses' = losses /\ attempts' = attempts
  BY <1>3 DEF QuietAfterRepeatedLoss
<1>4. ASSUME NEW H, LoginMadeFrom(H), losses' = losses
      PROVE  QuietAfterRepeatedLoss'
  <2> DEFINE n == Len(attempts)
  <2>1. attempts' = Append(attempts, now) /\ attempts \in Seq(Nat)
    BY <1>4 DEF LoginMadeFrom, Books, TypeOK, HistoryTypes
  <2>2. /\ Len(attempts') = n + 1 /\ attempts'[n + 1] = now
        /\ \A j \in 1..n : attempts'[j] = attempts[j]
        /\ \A j \in 1..(n + 1) : j \in 1..n \/ j = n + 1
    BY <1>1, <2>1
  <2> SUFFICES ASSUME NEW i \in 1..Len(losses), NEW j \in 1..(n + 1), i > 1,
                      losses[i] - losses[i - 1] < lossWindow, attempts'[j] > losses[i]
               PROVE  attempts'[j] >= losses[i] + SessionCooldown
    BY <1>4, <2>2 DEF QuietAfterRepeatedLoss
  <2>3. CASE j \in 1..n
    BY <2>2, <2>3 DEF QuietAfterRepeatedLoss
  <2>4. CASE j = n + 1
    <3>1. Repeated(i)
      BY <1>1 DEF Repeated
    <3>2. losses[i] + SessionCooldown <= quietUntil
      BY <3>1 DEF Books, LossInv, QuietArmed
    <3>3. quietUntil <= now
      BY <1>4, AttemptsAvoidTheWait
    <3> QED BY <1>1, <2>2, <2>4, <3>2, <3>3, ConstantTypes
  <2> QED BY <2>2, <2>3, <2>4
<1>5. CASE LossMade
  <2> DEFINE n == Len(losses)
  <2>1. sessionLost /\ attempts' = attempts
    BY <1>5 DEF LossMade
  <2>2. /\ n \in Nat /\ Len(losses') = n + 1 /\ losses'[n + 1] = now
        /\ \A i \in 1..n : losses'[i] = losses[i]
        /\ \A i \in 1..(n + 1) : i \in 1..n \/ i = n + 1
    BY <2>1, LossIsAppended DEF Books
  <2> SUFFICES ASSUME NEW i \in 1..(n + 1), NEW j \in 1..Len(attempts), i > 1,
                      losses'[i] - losses'[i - 1] < lossWindow, attempts[j] > losses'[i]
               PROVE  attempts[j] >= losses'[i] + SessionCooldown
    BY <2>1, <2>2 DEF QuietAfterRepeatedLoss
  <2>3. i \in 1..n
    BY <1>1, <1>2, <2>2
  <2>4. i - 1 \in 1..n
    BY <2>2, <2>3
  <2> QED BY <2>2, <2>3, <2>4 DEF QuietAfterRepeatedLoss
<1>6. losses' = losses \/ LossMade
  BY Steps DEF LossSteps, LossesKept, LossesPruned
<1>7. attempts' = attempts \/ \E H : LoginMadeFrom(H)
  BY StepsOfTheBooks DEF LoginSteps, LoginsKept, LoginsPruned, CycleLogin, RenewalLogin
<1> QED BY <1>3, <1>4, <1>5, <1>6, <1>7

\* After two losses inside the window nothing logs in for SessionCooldown: not
\* the next cycle, not a renewal, whatever else failed in between.
THEOREM QuietHolds == Spec => []QuietAfterRepeatedLoss
<1>1. Init => Books /\ QuietAfterRepeatedLoss
  <2>1. Init => QuietAfterRepeatedLoss
    BY DEF Init, QuietAfterRepeatedLoss
  <2> QED BY <2>1, TypeInit, SessionInit, LoginInit, LossInit DEF Books
<1>2. Books /\ QuietAfterRepeatedLoss /\ [Next]_vars => Books' /\ QuietAfterRepeatedLoss'
  <2>1. Books /\ [Next]_vars => Books'
    BY TypeStep, SessionStep, LoginStep, LossStep DEF Books, TypeOK
  <2> QED BY <2>1, QuietStep
<1> QED BY <1>1, <1>2, PTL DEF Spec
=============================================================================
