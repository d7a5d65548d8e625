----------------------------- MODULE LoopProofs -----------------------------
(***************************************************************************)
(* What the rest of the process sees of the polling loop, for every         *)
(* configuration NewPoller accepts: the State a scrape copies, the time a   *)
(* push is stamped with, the counters, and the life cycle main relies on.   *)
(***************************************************************************)
EXTENDS PollerProofs

USE DEF runVars, waitVars, sessionVars, historyVars, routerVars

-----------------------------------------------------------------------------
(* The fields of a State after a step has published one.                    *)

Counts(s, logins, failures, lost) ==
  s.Logins = logins /\ s.LoginFailures = failures /\ s.SessionsLost = lost
SameCounts(s, r) == Counts(s, r.Logins, r.LoginFailures, r.SessionsLost)

\* What a scrape reads of the last cycle.
Shows(s, up, busy, snapshot) == s.Up = up /\ s.SessionBlocked = busy /\ s.Snapshot = snapshot
ShowsTheSame(s, r) == Shows(s, r.Up, r.SessionBlocked, r.Snapshot)

LEMMA RecordedFields ==
  ASSUME NEW s \in StateType, NEW ok \in BOOLEAN, NEW busy \in BOOLEAN,
         NEW t \in Nat, NEW gathered \in Nat, start \in Nat
  PROVE  /\ Recorded(s, ok, busy, t, gathered) \in StateType
         /\ Shows(Recorded(s, ok, busy, t, gathered), ok, busy,
                  IF gathered > 0 THEN t ELSE s.Snapshot)
         /\ SameCounts(Recorded(s, ok, busy, t, gathered), s)
<1>1. Recorded(s, ok, busy, t, gathered) \in StateType
  BY RecordedType
<1> QED BY <1>1 DEF Recorded, StateType, Counts, SameCounts, Shows

LEMMA CountedFields ==
  ASSUME NEW s \in StateType
  PROVE  /\ Counts([s EXCEPT !.Logins = @ + 1], s.Logins + 1, s.LoginFailures, s.SessionsLost)
         /\ Counts([s EXCEPT !.LoginFailures = @ + 1],
                   s.Logins, s.LoginFailures + 1, s.SessionsLost)
         /\ Counts([s EXCEPT !.SessionsLost = @ + 1],
                   s.Logins, s.LoginFailures, s.SessionsLost + 1)
         /\ ShowsTheSame([s EXCEPT !.Logins = @ + 1], s)
         /\ ShowsTheSame([s EXCEPT !.LoginFailures = @ + 1], s)
         /\ ShowsTheSame([s EXCEPT !.SessionsLost = @ + 1], s)
BY DEF StateType, Counts, ShowsTheSame, Shows

LEMMA SuppressedFields ==
  ASSUME state \in StateType, now \in Nat, NEW busy \in BOOLEAN
  PROVE  /\ Shows(Suppressed(busy), FALSE, busy, state.Snapshot)
         /\ SameCounts(Suppressed(busy), state)
BY DEF Suppressed, StateType, Counts, SameCounts, Shows

-----------------------------------------------------------------------------
(* The steps that publish: which they are, what they show and count.        *)

Published(ok, busy) ==
  Shows(state', ok, busy, IF poll.gathered > 0 THEN poll.TakenAt ELSE state.Snapshot)

LEMMA Publications ==
  ASSUME TypeOK
  PROVE  /\ Suppress => /\ SameCounts(state', state)
                        /\ Shows(state', FALSE, state.SessionBlocked \/ holdOff = "taken",
                                 state.Snapshot)
         /\ LoggedIn => /\ ShowsTheSame(state', state)
                        /\ Counts(state', state.Logins + 1, state.LoginFailures,
                                  state.SessionsLost)
         /\ LoginCutShort \/ RenewalFails =>
              /\ ShowsTheSame(state', state)
              /\ Counts(state', state.Logins, state.LoginFailures + 1, state.SessionsLost)
         /\ LoginFails =>
              /\ \E busy \in BOOLEAN : Shows(state', FALSE, busy, state.Snapshot)
              /\ Counts(state', state.Logins, state.LoginFailures + 1, state.SessionsLost)
         /\ CycleSucceeds => SameCounts(state', state) /\ Published(TRUE, FALSE)
         /\ CycleTimedOut => SameCounts(state', state) /\ Published(FALSE, FALSE)
         /\ CycleLosesSession =>
              /\ Published(FALSE, RecentLosses # {})
              /\ Counts(state', state.Logins, state.LoginFailures, state.SessionsLost + 1)
<1>0. /\ state \in StateType /\ now \in Nat /\ start \in Nat
      /\ poll.TakenAt \in Nat /\ poll.gathered \in Nat
  BY DEF TypeOK, RunTypes, StateTypes, StateType
<1>1. ASSUME Suppress
      PROVE  /\ SameCounts(state', state)
             /\ Shows(state', FALSE, state.SessionBlocked \/ holdOff = "taken", state.Snapshot)
  <2>1. (state.SessionBlocked \/ holdOff = "taken") \in BOOLEAN
    OBVIOUS
  <2>2. state' = Suppressed(state.SessionBlocked \/ holdOff = "taken")
    BY <1>1 DEF Suppress, Suppressed
  <2> QED BY <1>0, <2>1, <2>2, SuppressedFields
<1>2. ASSUME LoggedIn
      PROVE  /\ ShowsTheSame(state', state)
             /\ Counts(state', state.Logins + 1, state.LoginFailures, state.SessionsLost)
  BY <1>0, <1>2, CountedFields DEF LoggedIn
<1>3. ASSUME LoginCutShort \/ RenewalFails
      PROVE  /\ ShowsTheSame(state', state)
             /\ Counts(state', state.Logins, state.LoginFailures + 1, state.SessionsLost)
  BY <1>0, <1>3, CountedFields DEF LoginCutShort, RenewalFails
<1>4. ASSUME LoginFails
      PROVE  /\ \E busy \in BOOLEAN : Shows(state', FALSE, busy, state.Snapshot)
             /\ Counts(state', state.Logins, state.LoginFailures + 1, state.SessionsLost)
  <2>1. PICK busy \in BOOLEAN : state' = LoginRefused(busy)
    BY <1>4 DEF LoginFails, LoginRefused
  <2> DEFINE r == Recorded(state, FALSE, busy, 0, 0)
  <2>2. r \in StateType /\ Shows(r, FALSE, busy, state.Snapshot) /\ SameCounts(r, state)
    <3>1. 0 \in Nat /\ FALSE \in BOOLEAN /\ ~(0 > 0)
      OBVIOUS
    <3>2. /\ r \in StateType /\ SameCounts(r, state)
          /\ Shows(r, FALSE, busy, IF 0 > 0 THEN 0 ELSE state.Snapshot)
      BY <1>0, <3>1, RecordedFields, Zenon
    <3> QED BY <3>1, <3>2
  <2>3. state' = [r EXCEPT !.LoginFailures = @ + 1]
    BY <2>1 DEF LoginRefused
  <2> HIDE DEF r
  <2>4. /\ ShowsTheSame(state', r)
        /\ Counts(state', r.Logins, r.LoginFailures + 1, r.SessionsLost)
    BY <2>2, <2>3, CountedFields
  <2> QED BY <2>2, <2>4 DEF ShowsTheSame, SameCounts, Shows, Counts
<1>5. ASSUME CycleSucceeds \/ CycleTimedOut
      PROVE  /\ SameCounts(state', state)
             /\ CycleSucceeds => Published(TRUE, FALSE)
             /\ CycleTimedOut => Published(FALSE, FALSE)
  BY <1>0, <1>5, RecordedFields DEF CycleSucceeds, CycleTimedOut, Published
<1>6. ASSUME CycleLosesSession
      PROVE  /\ Published(FALSE, RecentLosses # {})
             /\ Counts(state', state.Logins, state.LoginFailures, state.SessionsLost + 1)
  <2> DEFINE r == Recorded(state, FALSE, RecentLosses # {}, poll.TakenAt, poll.gathered)
  <2>1. (RecentLosses # {}) \in BOOLEAN
    OBVIOUS
  <2>2. /\ r \in StateType /\ SameCounts(r, state)
        /\ Shows(r, FALSE, RecentLosses # {},
                 IF poll.gathered > 0 THEN poll.TakenAt ELSE state.Snapshot)
    BY <1>0, <2>1, RecordedFields
  <2>3. state' = [r EXCEPT !.SessionsLost = @ + 1]
    BY <1>6 DEF CycleLosesSession
  <2> HIDE DEF r
  <2>4. /\ ShowsTheSame(state', r)
        /\ Counts(state', r.Logins, r.LoginFailures, r.SessionsLost + 1)
    BY <2>2, <2>3, CountedFields
  <2> QED BY <2>2, <2>4 DEF ShowsTheSame, SameCounts, Shows, Counts, Published
<1> QED BY <1>1, <1>2, <1>3, <1>4, <1>5, <1>6

-----------------------------------------------------------------------------
(* The counters.  Between an attempt and its answer the login under way is  *)
(* the one that is not counted yet.                                         *)

UnderWay(place) == IF place \in {"login", "renewLogin"} THEN 1 ELSE 0

CountsKept ==
  /\ UNCHANGED <<attempts, losses>> /\ SameCounts(state', state)
  /\ UnderWay(pc') = UnderWay(pc)
Attempted ==
  /\ attempts' = Append(attempts, now) /\ UNCHANGED <<losses, state>>
  /\ UnderWay(pc) = 0 /\ UnderWay(pc') = 1
Answered ==
  /\ UNCHANGED <<attempts, losses>> /\ UnderWay(pc) = 1 /\ UnderWay(pc') = 0
  /\ \/ Counts(state', state.Logins + 1, state.LoginFailures, state.SessionsLost)
     \/ Counts(state', state.Logins, state.LoginFailures + 1, state.SessionsLost)
LossCounted ==
  /\ UNCHANGED attempts /\ losses' = Append(losses, now)
  /\ Counts(state', state.Logins, state.LoginFailures, state.SessionsLost + 1)
  /\ UnderWay(pc) = 0 /\ UnderWay(pc') = 0

LEMMA StepsOfTheCounters ==
  ASSUME TypeOK, [Next]_vars
  PROVE  CountsKept \/ Attempted \/ Answered \/ LossCounted
<1> USE DEF UnderWay, ToOnCycle
<1>1. CASE StartLogin \/ RenewalLogsIn
  BY <1>1 DEF StartLogin, RenewalLogsIn, Attempt, Attempted
<1>2. CASE LoginSucceeds \/ RenewalSucceeds
  <2>1. Counts(state', state.Logins + 1, state.LoginFailures, state.SessionsLost)
    BY <1>2, Publications DEF LoginSucceeds, RenewalSucceeds
  <2>2. UNCHANGED <<attempts, losses>> /\ pc \in {"login", "renewLogin"} /\ pc' \in {"poll", "onCycle"}
    BY <1>2 DEF LoginSucceeds, RenewalSucceeds
  <2> QED BY <2>1, <2>2 DEF Answered
<1>3. CASE LoginCutShort \/ RenewalFails \/ LoginFails
  <2>1. Counts(state', state.Logins, state.LoginFailures + 1, state.SessionsLost)
    BY <1>3, Publications
  <2>2. UNCHANGED <<attempts, losses>> /\ pc \in {"login", "renewLogin"} /\ pc' = "onCycle"
    BY <1>3 DEF LoginCutShort, RenewalFails, LoginFails
  <2> QED BY <2>1, <2>2 DEF Answered
<1>4. CASE CycleLosesSession
  <2>1. Counts(state', state.Logins, state.LoginFailures, state.SessionsLost + 1)
    BY <1>4, Publications
  <2> QED BY <1>4, <2>1 DEF CycleLosesSession, sessionLost, LossCounted
<1>5. CASE CycleSucceeds \/ CycleTimedOut \/ Suppress
  <2>1. SameCounts(state', state)
    BY <1>5, Publications
  <2>2. UNCHANGED <<attempts, losses>> /\ {pc, pc'} \subseteq {"start", "judge", "renew", "onCycle"}
    BY <1>5 DEF CycleSucceeds, CycleTimedOut, Suppress
  <2> QED BY <2>1, <2>2 DEF CountsKept
<1>6. ASSUME UNCHANGED <<attempts, losses, state>>, UnderWay(pc') = UnderWay(pc)
      PROVE  CountsKept
  BY <1>6 DEF CountsKept, SameCounts, Counts
<1>7. CASE StartPoll \/ CallAnswers \/ CallFails \/ CallExpired \/ CycleCutShort
  <2>1. /\ UNCHANGED <<attempts, losses, state>>
        /\ {pc, pc'} \subseteq {"start", "poll", "judge", "onCycle"}
    BY <1>7 DEF StartPoll, CallAnswers, CallFails, AfterCall, CallExpired, CycleCutShort
  <2> QED BY <1>6, <2>1
<1>8. CASE KeepSession \/ StartRenewal \/ RenewalCutShort
  <2>1. /\ UNCHANGED <<attempts, losses, state>>
        /\ {pc, pc'} \subseteq {"renew", "renewLogout", "onCycle"}
    BY <1>8 DEF KeepSession, StartRenewal, RenewalCutShort
  <2> QED BY <1>6, <2>1
<1>9. CASE Loop
  <2>1. /\ UNCHANGED <<attempts, losses, state>>
        /\ {pc, pc'} \subseteq {"onCycle", "sleep", "start", "logout", "done"}
    BY <1>9 DEF Loop, OnCycleReturns, Wake, StopSleeping, FinalLogoutReturns, ToFinalLogout
  <2> QED BY <1>6, <2>1
<1>10. CASE Environment \/ UNCHANGED vars
  <2>1. UNCHANGED <<attempts, losses, state, pc>>
    BY <1>10 DEF Environment, RouterSeesLogin, RouterSeesLogout, SomebodyElse, Tick, Deadline,
                 Cancel, vars
  <2> QED BY <1>6, <2>1
<1> QED BY <1>1, <1>2, <1>3, <1>4, <1>5, <1>7, <1>8, <1>9, <1>10
        DEF Next, Run, Decide, Return, Judge, Renew

\* Every attempt is counted once, as a login or a failure, and every loss once,
\* whichever of the paths of cycle and renew made it.
THEOREM CountersHold == Spec => []CountersAgree
<1>1. Init => CountersAgree
  BY DEF Init, CountersAgree
<1>2. ASSUME TypeOK, CountersAgree, [Next]_vars PROVE CountersAgree'
  <2>1. /\ Len(attempts) \in Nat /\ Len(losses) \in Nat
        /\ Len(Append(attempts, now)) = Len(attempts) + 1
        /\ Len(Append(losses, now)) = Len(losses) + 1
    BY <1>2 DEF TypeOK, RunTypes, HistoryTypes
  <2>2. state.Logins \in Nat /\ state.LoginFailures \in Nat /\ state.SessionsLost \in Nat
    BY <1>2 DEF TypeOK, StateTypes
  <2>3. /\ Len(attempts) = state.Logins + state.LoginFailures + UnderWay(pc)
        /\ Len(losses) = state.SessionsLost
    BY <1>2 DEF CountersAgree, UnderWay
  <2>4. UnderWay(pc) \in {0, 1} /\ UnderWay(pc') \in {0, 1}
    BY DEF UnderWay
  <2> DEFINE Agree == /\ Len(attempts') = state'.Logins + state'.LoginFailures + UnderWay(pc')
                      /\ Len(losses') = state'.SessionsLost
  <2>5. CountsKept => Agree
    BY <2>1, <2>2, <2>3, <2>4 DEF CountsKept, SameCounts, Counts
  <2>6. Attempted => Agree
    BY <2>1, <2>2, <2>3, <2>4 DEF Attempted
  <2>7. ASSUME Answered PROVE Agree
    <3>1. /\ Len(attempts') = Len(attempts) /\ Len(losses') = Len(losses)
          /\ UnderWay(pc) = 1 /\ UnderWay(pc') = 0
      BY <2>7 DEF Answered
    <3>2. state'.Logins + state'.LoginFailures = state.Logins + state.LoginFailures + 1
      BY <2>2, <2>7 DEF Answered, Counts
    <3>3. state'.SessionsLost = state.SessionsLost /\ state'.Logins + state'.LoginFailures \in Nat
      BY <2>2, <2>7 DEF Answered, Counts
    <3> QED BY <2>1, <2>2, <2>3, <3>1, <3>2, <3>3
  <2>8. LossCounted => Agree
    BY <2>1, <2>2, <2>3, <2>4 DEF LossCounted, Counts
  <2>9. Agree
    BY <1>2, <2>5, <2>6, <2>7, <2>8, StepsOfTheCounters
  <2> QED BY <2>9 DEF CountersAgree, UnderWay
<1> QED BY <1>1, <1>2, TypeCorrect, PTL DEF Spec

-----------------------------------------------------------------------------
(* The busy flag.  A cycle runs only outside a wait, so that at its end the  *)
(* router is waited for only if the cycle has just said so.                  *)

LEMMA QuietPublishedStep ==
  ASSUME TypeOK, SessionInv, QuietIsPublished, [Next]_vars
  PROVE  QuietIsPublished'
<1> USE DEF QuietIsPublished, ToOnCycle
<1>0. /\ now \in Nat /\ quietUntil \in Nat
      /\ InCycle => quietUntil <= now
  BY DEF TypeOK, RunTypes, WaitTypes, SessionInv, NoRequestInsideAWait
<1>1. CASE Suppress
  <2>1. Shows(state', FALSE, state.SessionBlocked \/ holdOff = "taken", state.Snapshot)
    BY <1>1, Publications
  <2>2. now < quietUntil => holdOff = "taken"
    BY <1>1 DEF Suppress, holdOff
  <2>3. now' = now /\ quietUntil' = quietUntil
    BY <1>1 DEF Suppress
  <2> QED BY <2>1, <2>2, <2>3 DEF Shows
<1>2. CASE CycleLosesSession
  <2>1. Shows(state', FALSE, RecentLosses # {},
              IF poll.gathered > 0 THEN poll.TakenAt ELSE state.Snapshot)
    BY <1>2, Publications DEF Published
  <2>2. now' = now /\ quietUntil <= now
    BY <1>0, <1>2 DEF CycleLosesSession, InCycle
  <2>3. RecentLosses = {} => quietUntil' = quietUntil
    BY <1>2 DEF CycleLosesSession, sessionLost
  <2>4. RecentLosses = {} => ~(now < quietUntil)
    BY <1>0, <2>2
  <2> QED BY <2>1, <2>2, <2>3, <2>4 DEF Shows
<1>3. ASSUME UNCHANGED <<now, quietUntil>>, ~state'.Up \/ ~state'.SessionBlocked, InCycle
      PROVE  QuietIsPublished'
  BY <1>0, <1>3
<1>4. CASE LoginFails
  <2>1. PICK busy \in BOOLEAN : Shows(state', FALSE, busy, state.Snapshot)
    BY <1>4, Publications
  <2>2. UNCHANGED <<now, quietUntil>> /\ InCycle
    BY <1>4 DEF LoginFails, InCycle
  <2> QED BY <1>3, <2>1, <2>2 DEF Shows
<1>5. CASE CycleSucceeds \/ CycleTimedOut
  <2>1. Published(TRUE, FALSE) \/ Published(FALSE, FALSE)
    BY <1>5, Publications
  <2>2. UNCHANGED <<now, quietUntil>> /\ InCycle
    BY <1>5 DEF CycleSucceeds, CycleTimedOut, InCycle
  <2> QED BY <1>3, <2>1, <2>2 DEF Published, Shows
<1>6. CASE LoginSucceeds \/ RenewalSucceeds \/ LoginCutShort \/ RenewalFails
  <2>1. ShowsTheSame(state', state)
    BY <1>6, Publications DEF LoginSucceeds, RenewalSucceeds
  <2>2. UNCHANGED <<now, quietUntil>> /\ InCycle
    BY <1>6 DEF LoginSucceeds, RenewalSucceeds, LoginCutShort, RenewalFails, InCycle
  <2> QED BY <1>3, <2>1, <2>2 DEF ShowsTheSame, Shows
<1>7. CASE StartLogin \/ StartPoll
  <2>1. UNCHANGED state /\ pc' \in {"login", "poll"}
    BY <1>7 DEF StartLogin, StartPoll
  <2> QED BY <2>1
<1>8. CASE CallAnswers \/ CallFails \/ CallExpired \/ CycleCutShort
  <2>1. UNCHANGED <<now, quietUntil, state>> /\ InCycle
    BY <1>8 DEF CallAnswers, CallFails, AfterCall, CallExpired, CycleCutShort, InCycle
  <2> QED BY <1>3, <2>1
<1>9. CASE KeepSession \/ StartRenewal \/ RenewalLogsIn \/ RenewalCutShort
  <2>1. UNCHANGED <<now, quietUntil, state>> /\ InCycle
    BY <1>9 DEF KeepSession, StartRenewal, RenewalLogsIn, RenewalCutShort, InCycle
  <2> QED BY <1>3, <2>1
<1>10. CASE Loop
  <2>1. UNCHANGED <<now, quietUntil, state>>
    BY <1>10 DEF Loop, OnCycleReturns, Wake, StopSleeping, FinalLogoutReturns
  <2>2. pc \in {"onCycle", "sleep"} \/ pc' = "done"
    BY <1>10 DEF Loop, OnCycleReturns, Wake, StopSleeping, FinalLogoutReturns
  <2> QED BY <2>1, <2>2
<1>11. CASE Environment \/ UNCHANGED vars
  <2>1. UNCHANGED <<quietUntil, state, pc>>
    BY <1>11 DEF Environment, RouterSeesLogin, RouterSeesLogout, SomebodyElse, Tick, Deadline,
                 Cancel, vars
  <2>2. now' \in {now, now + 1}
    BY Steps DEF RunSteps
  <2>3. now' < quietUntil => now < quietUntil
    BY <1>0, <2>2
  <2> QED BY <2>1, <2>3
<1> QED BY <1>1, <1>2, <1>4, <1>5, <1>6, <1>7, <1>8, <1>9, <1>10, <1>11
        DEF Next, Run, Decide, Return, Judge, Renew

LEMMA SessionInvariance == Spec => [](TypeOK /\ SessionInv)
<1>1. TypeOK /\ SessionInv /\ [Next]_vars => (TypeOK /\ SessionInv)'
  BY TypeStep, SessionStep DEF TypeOK
<1> QED BY <1>1, TypeInit, SessionInit, PTL DEF Spec

\* Between two cycles of a quiet spell the web UI reads as busy, and it never reads
\* as busy while the poll is up.
THEOREM QuietIsPublishedHolds == Spec => []QuietIsPublished
<1>1. Init => QuietIsPublished
  BY DEF Init, QuietIsPublished
<1> QED BY <1>1, QuietPublishedStep, SessionInvariance, PTL DEF Spec

-----------------------------------------------------------------------------
(* The clock.  No request outlasts the context it is made on, OnCycle bounds *)
(* itself, and the wait ends with the interval.                              *)

Latest == Longer(Interval, Timeout + PushTimeout)

ClockInv ==
  /\ start <= now
  /\ InCycle => now <= deadline /\ deadline = start + Timeout
  /\ pc = "onCycle" => now <= deadline /\ deadline <= start + Timeout + PushTimeout
  /\ pc = "sleep" => now <= start + Latest
  /\ pc = "start" => now = start \/ now - start \in Interval..Latest

LEMMA LatestIsLate == Latest \in Nat /\ Interval <= Latest /\ Timeout + PushTimeout <= Latest
BY ConstantTypes DEF Latest, Longer

\* The two ways a step leaves the clock alone inside a cycle.
Cycling  == UNCHANGED <<now, start, deadline, cancelled>> /\ InCycle /\ InCycle'
Handover == /\ UNCHANGED <<now, start, cancelled>> /\ InCycle
            /\ pc' = "onCycle" /\ deadline' = now + PushTimeout

LEMMA StepsOfTheCycle ==
  ASSUME [Next]_vars
  PROVE  \/ Suppress \/ StartLogin \/ StartPoll \/ Cycling \/ Handover
         \/ Loop \/ Environment \/ UNCHANGED vars
<1> USE DEF ToOnCycle, InCycle
<1>1. CASE LoginSucceeds \/ CallAnswers \/ CallFails \/ CallExpired
  <2>1. Cycling
    BY <1>1 DEF LoginSucceeds, CallAnswers, CallFails, AfterCall, CallExpired, Cycling
  <2> QED BY <2>1
<1>2. CASE LoginFails \/ LoginCutShort
  <2>1. Handover
    BY <1>2 DEF LoginFails, LoginCutShort, Handover
  <2> QED BY <2>1
<1>3. CASE CycleCutShort \/ CycleTimedOut \/ CycleLosesSession
  <2>1. Handover
    BY <1>3 DEF CycleCutShort, CycleTimedOut, CycleLosesSession, Handover
  <2> QED BY <2>1
<1>4. CASE CycleSucceeds \/ StartRenewal \/ RenewalLogsIn
  <2>1. Cycling
    BY <1>4 DEF CycleSucceeds, StartRenewal, RenewalLogsIn, Cycling
  <2> QED BY <2>1
<1>5. CASE KeepSession \/ RenewalCutShort \/ RenewalSucceeds \/ RenewalFails
  <2>1. Handover
    BY <1>5 DEF KeepSession, RenewalCutShort, RenewalSucceeds, RenewalFails, Handover
  <2> QED BY <2>1
<1> QED BY <1>1, <1>2, <1>3, <1>4, <1>5 DEF Next, Run, Decide, Return, Judge, Renew

LEMMA ClockStep ==
  ASSUME RunTypes, ClockInv, [Next]_vars
  PROVE  ClockInv'
<1> USE DEF ClockInv
<1>0. /\ now \in Nat /\ start \in Nat /\ deadline \in Nat
      /\ Interval \in Nat /\ Timeout \in Nat /\ PushTimeout \in Nat
  BY ConstantTypes DEF RunTypes
<1>1. CASE Suppress
  <2>1. now' = now /\ start' = now /\ deadline' = now + PushTimeout /\ pc' = "onCycle"
    BY <1>1 DEF Suppress, ToOnCycle
  <2> QED BY <1>0, <2>1 DEF InCycle
<1>2. CASE StartLogin \/ StartPoll
  <2>1. now' = now /\ start' = now /\ deadline' = now + Timeout /\ pc' \in {"login", "poll"}
    BY <1>2 DEF StartLogin, StartPoll, BeginCycle
  <2> QED BY <1>0, <2>1 DEF InCycle
<1>3. CASE Cycling
  BY <1>3 DEF Cycling, InCycle
<1>4. CASE Handover
  BY <1>0, <1>4 DEF Handover, InCycle
<1>5. CASE OnCycleReturns
  <2>1. UNCHANGED <<now, start>> /\ pc = "onCycle" /\ pc' \in {"sleep", "logout"}
    BY <1>5 DEF OnCycleReturns, ToFinalLogout
  <2> QED BY <1>0, <2>1, LatestIsLate DEF InCycle
<1>6. CASE Wake
  <2>1. UNCHANGED <<now, start>> /\ pc = "sleep" /\ pc' = "start" /\ now >= start + Interval
    BY <1>6 DEF Wake, NextCycleAt
  <2> QED BY <1>0, <2>1, LatestIsLate DEF InCycle
<1>7. CASE StopSleeping \/ FinalLogoutReturns
  BY <1>7 DEF StopSleeping, FinalLogoutReturns, ToFinalLogout, InCycle
<1>8. CASE Tick
  <2>1. UNCHANGED <<start, deadline, pc>> /\ now' = now + 1
    BY <1>8 DEF Tick
  <2>2. /\ InCycle \/ pc = "onCycle" => now < deadline
        /\ pc = "sleep" => now < start + Interval
        /\ pc # "start"
    BY <1>8 DEF Tick, InRequest, InCycle, NextCycleAt
  <2>3. InCycle' = InCycle
    BY <2>1 DEF InCycle
  <2> QED BY <1>0, <2>1, <2>2, <2>3, LatestIsLate
<1>9. CASE \/ RouterSeesLogin \/ RouterSeesLogout \/ SomebodyElse \/ Deadline \/ Cancel
           \/ UNCHANGED vars
  <2>1. UNCHANGED <<start, deadline, pc, now>>
    BY <1>9 DEF RouterSeesLogin, RouterSeesLogout, SomebodyElse, Deadline, Cancel, vars
  <2> QED BY <2>1 DEF InCycle
<1> QED BY <1>1, <1>2, <1>3, <1>4, <1>5, <1>6, <1>7, <1>8, <1>9, StepsOfTheCycle
        DEF Loop, Environment

LEMMA ClockInvariance == Spec => [](TypeOK /\ ClockInv)
<1>1. Init => ClockInv
  BY DEF Init, ClockInv, InCycle
<1>2. TypeOK /\ ClockInv /\ [Next]_vars => (TypeOK /\ ClockInv)'
  BY TypeStep, ClockStep DEF TypeOK
<1> QED BY <1>1, <1>2, TypeInit, PTL DEF Spec

\* Cycles start Interval apart, and a late one is late by no more than the cycle
\* and its push outlasted the interval.
THEOREM PeriodHolds == Spec => CyclesHoldTheirPeriod
<1>1. ASSUME TypeOK, ClockInv, [Next]_vars, start' # start
      PROVE  start' - start \in Interval..Longer(Interval, Timeout + PushTimeout)
  <2>1. start' = now /\ pc = "start"
    <3>1. CASE Suppress \/ StartLogin \/ StartPoll
      BY <3>1 DEF Suppress, StartLogin, StartPoll, BeginCycle
    <3>2. CASE Loop
      BY <1>1, <3>2 DEF Loop, OnCycleReturns, Wake, StopSleeping, FinalLogoutReturns
    <3>3. CASE Environment \/ UNCHANGED vars
      BY <1>1, <3>3 DEF Environment, RouterSeesLogin, RouterSeesLogout, SomebodyElse, Tick,
                        Deadline, Cancel, vars
    <3> QED BY <1>1, <3>1, <3>2, <3>3, StepsOfTheCycle DEF Cycling, Handover
  <2> QED BY <1>1, <2>1 DEF ClockInv, Latest
<1>2. TypeOK /\ ClockInv /\ [Next]_vars
      => [start' # start => start' - start \in Interval..Longer(Interval, Timeout + PushTimeout)]_vars
  BY <1>1
<1> QED BY <1>2, ClockInvariance, PTL DEF Spec, CyclesHoldTheirPeriod

-----------------------------------------------------------------------------
(* The times.  What a cycle publishes was taken in it, what was published    *)
(* before is older, and stamp is set once, at the end of the reading.        *)

Reading  == {"login", "poll", "judge"}
Renewing == {"renew", "renewLogout", "renewLogin"}

StampInv ==
  /\ start <= now /\ state.Snapshot <= now /\ stamp <= now
  /\ pc \in Reading => state.Snapshot <= start /\ stamp <= start
  /\ pc \in {"poll", "judge"} => start <= poll.TakenAt /\ poll.TakenAt <= now
  /\ pc = "judge" /\ poll.err = "nil" => poll.gathered > 0
  /\ pc \in Renewing => stamp = state.Snapshot /\ start <= stamp

\* The steps, as the times see them.
Begins == /\ pc = "start" /\ start' = now /\ UNCHANGED <<now, cancelled>>
          /\ state'.Snapshot = state.Snapshot
Held   == Begins /\ pc' = "onCycle" /\ stamp' = now /\ ~state'.Up
Opened == /\ Begins /\ pc' \in {"login", "poll"} /\ UNCHANGED stamp
          /\ pc' = "poll" => poll'.TakenAt = now
Still  == UNCHANGED <<now, start, stamp, cancelled>> /\ ShowsTheSame(state', state)
Reads  == /\ Still
          /\ \/ pc = "login" /\ pc' = "poll" /\ poll'.TakenAt = now
             \/ /\ pc = "poll" /\ pc' \in {"poll", "judge"} /\ poll'.TakenAt = poll.TakenAt
                /\ pc' = "judge" /\ poll'.err = "nil" => poll'.gathered > 0
Ends   == UNCHANGED <<now, start, cancelled>> /\ pc \in Reading
Unread == /\ Ends /\ pc' = "onCycle" /\ stamp' = start
          /\ state'.Snapshot = state.Snapshot /\ (cancelled \/ ~state'.Up)
Read   == /\ Ends /\ pc = "judge" /\ stamp' = publishedAt
          /\ state'.Snapshot = IF poll.gathered > 0 THEN poll.TakenAt ELSE state.Snapshot
          /\ (pc' = "renew" /\ poll.err = "nil") \/ (pc' = "onCycle" /\ ~state'.Up)
Renews == Still /\ pc \in Renewing /\ pc' \in Renewing \cup {"onCycle"}
Turns  == /\ Still /\ pc \in {"onCycle", "sleep", "logout"}
          /\ pc' \in {"sleep", "start", "logout", "done"}
          /\ pc' = "start" => pc = "sleep" /\ now >= start + Interval
          /\ pc' = "sleep" => pc = "onCycle"
Passes == /\ UNCHANGED <<start, stamp, state, poll, pc>> /\ now' \in {now, now + 1}
          /\ cancelled' = cancelled \/ cancelled' = TRUE
          /\ pc = "start" => now' = now

LEMMA BeginningsAndReadings ==
  ASSUME TypeOK
  PROVE  /\ Suppress => Held
         /\ StartLogin \/ StartPoll => Opened
         /\ LoginSucceeds \/ CallAnswers \/ CallFails \/ CallExpired => Reads
<1> USE DEF ToOnCycle, NoPoll
<1>1. ASSUME Suppress PROVE Held
  <2>1. Shows(state', FALSE, state.SessionBlocked \/ holdOff = "taken", state.Snapshot)
    BY <1>1, Publications
  <2> QED BY <1>1, <2>1 DEF Suppress, Held, Begins, Shows
<1>2. ASSUME StartLogin \/ StartPoll PROVE Opened
  BY <1>2 DEF StartLogin, StartPoll, BeginCycle, Opened, Begins
<1>3. ASSUME LoginSucceeds PROVE Reads
  <2>1. ShowsTheSame(state', state)
    BY <1>3, Publications DEF LoginSucceeds
  <2> QED BY <1>3, <2>1 DEF LoginSucceeds, Reads, Still
<1>4. ASSUME NEW g \in {poll.gathered, poll.gathered + 1}, pc = "poll", AfterCall(g) PROVE Reads
  <2>1. poll \in PollType /\ g \in Nat
    BY DEF TypeOK, StateTypes, PollType
  <2>2. Still /\ pc' \in {"poll", "judge"}
    BY <1>4 DEF AfterCall, Still, ShowsTheSame, Shows
  <2>3. poll'.TakenAt = poll.TakenAt /\ poll'.gathered = g
    BY <1>4, <2>1 DEF AfterCall, PollType
  <2>4. pc' = "judge" /\ g = 0 => poll'.err = "silent"
    BY <1>4, <2>1 DEF AfterCall, PollType
  <2> QED BY <1>4, <2>1, <2>2, <2>3, <2>4 DEF Reads
<1>5. ASSUME CallAnswers \/ CallFails PROVE Reads
  BY <1>4, <1>5 DEF CallAnswers, CallFails
<1>6. ASSUME CallExpired PROVE Reads
  <2>1. poll \in PollType
    BY DEF TypeOK, StateTypes, PollType
  <2>2. Still /\ pc = "poll" /\ pc' = "judge"
    BY <1>6 DEF CallExpired, Still, ShowsTheSame, Shows
  <2>3. poll'.TakenAt = poll.TakenAt /\ poll'.err = "expired"
    BY <1>6, <2>1 DEF CallExpired, PollType
  <2> QED BY <2>2, <2>3 DEF Reads
<1> QED BY <1>1, <1>2, <1>3, <1>5, <1>6

LEMMA EndingsAndTurns ==
  ASSUME TypeOK
  PROVE  /\ LoginFails \/ LoginCutShort \/ CycleCutShort => Unread
         /\ CycleSucceeds \/ CycleTimedOut \/ CycleLosesSession => Read
         /\ Renew => Renews
         /\ Loop => Turns
<1> USE DEF ToOnCycle, Reading, Renewing
<1>1. ASSUME LoginFails PROVE Unread
  <2>1. PICK busy \in BOOLEAN : Shows(state', FALSE, busy, state.Snapshot)
    BY <1>1, Publications
  <2> QED BY <1>1, <2>1 DEF LoginFails, Unread, Ends, Shows
<1>2. ASSUME LoginCutShort PROVE Unread
  <2>1. ShowsTheSame(state', state)
    BY <1>2, Publications
  <2> QED BY <1>2, <2>1 DEF LoginCutShort, Unread, Ends, ShowsTheSame, Shows
<1>3. ASSUME CycleCutShort PROVE Unread
  BY <1>3 DEF CycleCutShort, Unread, Ends
<1>4. ASSUME CycleSucceeds PROVE Read
  <2>1. Published(TRUE, FALSE)
    BY <1>4, Publications
  <2> QED BY <1>4, <2>1 DEF CycleSucceeds, Read, Ends, Published, Shows
<1>5. ASSUME CycleTimedOut PROVE Read
  <2>1. Published(FALSE, FALSE)
    BY <1>5, Publications
  <2> QED BY <1>5, <2>1 DEF CycleTimedOut, Read, Ends, Published, Shows
<1>6. ASSUME CycleLosesSession PROVE Read
  <2>1. Published(FALSE, RecentLosses # {})
    BY <1>6, Publications
  <2> QED BY <1>6, <2>1 DEF CycleLosesSession, Read, Ends, Published, Shows
<1>7. ASSUME Renew PROVE Renews
  <2>1. ShowsTheSame(state', state)
    <3>1. CASE RenewalSucceeds
      BY <3>1, Publications DEF RenewalSucceeds
    <3>2. CASE RenewalFails
      BY <3>2, Publications
    <3>3. CASE KeepSession \/ StartRenewal \/ RenewalLogsIn \/ RenewalCutShort
      <4>1. state' = state
        BY <3>3 DEF KeepSession, StartRenewal, RenewalLogsIn, RenewalCutShort
      <4> QED BY <4>1 DEF ShowsTheSame, Shows
    <3> QED BY <1>7, <3>1, <3>2, <3>3 DEF Renew
  <2> QED BY <1>7, <2>1 DEF Renew, KeepSession, StartRenewal, RenewalLogsIn, RenewalCutShort,
                            RenewalSucceeds, RenewalFails, Renews, Still
<1>8. ASSUME Loop PROVE Turns
  <2>1. state' = state
    BY <1>8 DEF Loop, OnCycleReturns, Wake, StopSleeping, FinalLogoutReturns
  <2> QED BY <1>8, <2>1 DEF Loop, OnCycleReturns, Wake, StopSleeping, FinalLogoutReturns,
                            ToFinalLogout, NextCycleAt, Turns, Still, ShowsTheSame, Shows
<1> QED BY <1>1, <1>2, <1>3, <1>4, <1>5, <1>6, <1>7, <1>8

LEMMA StepsOfTheTimes ==
  ASSUME TypeOK, [Next]_vars
  PROVE  Held \/ Opened \/ Reads \/ Unread \/ Read \/ Renews \/ Turns \/ Passes
<1>1. Environment \/ UNCHANGED vars => Passes
  BY DEF Environment, RouterSeesLogin, RouterSeesLogout, SomebodyElse, Tick, Deadline, Cancel,
         InRequest, vars, Passes
<1> QED BY <1>1, BeginningsAndReadings, EndingsAndTurns DEF Next, Run, Decide, Return, Judge

LEMMA StampTypes ==
  ASSUME TypeOK
  PROVE  /\ now \in Nat /\ start \in Nat /\ stamp \in Nat /\ state.Snapshot \in Int
         /\ poll.TakenAt \in Nat /\ poll.gathered \in Nat
BY DEF TypeOK, RunTypes, StateTypes, NoSnapshot

\* The snapshot and the stamp of a cycle that has read something.
LEMMA ReadIsOfThisCycle ==
  ASSUME TypeOK, StampInv, Read
  PROVE  /\ start <= stamp' /\ stamp' <= now /\ stamp <= stamp' /\ state.Snapshot <= state'.Snapshot
         /\ state'.Snapshot <= now /\ state'.Snapshot \in Int /\ stamp' \in Nat
         /\ state'.Snapshot >= start => stamp' = state'.Snapshot
         /\ pc' = "renew" => stamp' = state'.Snapshot
<1>1. pc = "judge" /\ pc \in Reading /\ stamp' = publishedAt
  BY DEF Read, Reading
<1>2. /\ start <= poll.TakenAt /\ poll.TakenAt <= now /\ start <= now
      /\ state.Snapshot <= start /\ stamp <= start
  BY <1>1 DEF StampInv
<1>3. CASE poll.gathered > 0
  <2>1. stamp' = poll.TakenAt /\ state'.Snapshot = poll.TakenAt
    BY <1>1, <1>3 DEF Read, publishedAt
  <2> QED BY <1>2, <2>1, StampTypes
<1>4. CASE ~(poll.gathered > 0)
  <2>1. stamp' = start /\ state'.Snapshot = state.Snapshot
    BY <1>1, <1>4 DEF Read, publishedAt
  <2>2. pc' # "renew"
    BY <1>1, <1>4 DEF Read, StampInv
  <2> QED BY <1>2, <2>1, <2>2, StampTypes
<1> QED BY <1>3, <1>4

LEMMA StampStep ==
  ASSUME TypeOK, StampInv, [Next]_vars
  PROVE  StampInv'
<1> USE DEF StampInv, Reading, Renewing
<1>0. /\ now \in Nat /\ start \in Nat /\ stamp \in Nat /\ state.Snapshot \in Int
      /\ poll.TakenAt \in Nat /\ poll.gathered \in Nat
  BY StampTypes
<1>1. CASE Held
  BY <1>0, <1>1 DEF Held, Begins
<1>2. CASE Opened
  BY <1>0, <1>2 DEF Opened, Begins
<1>3. CASE Reads
  BY <1>0, <1>3 DEF Reads, Still, ShowsTheSame, Shows
<1>4. CASE Unread
  BY <1>0, <1>4 DEF Unread, Ends
<1>5. CASE Read
  <2>1. /\ start <= stamp' /\ stamp' <= now /\ state'.Snapshot <= now
        /\ pc' = "renew" => stamp' = state'.Snapshot
    BY <1>5, ReadIsOfThisCycle
  <2>2. UNCHANGED <<now, start>> /\ pc' \in {"renew", "onCycle"}
    BY <1>5 DEF Read, Ends
  <2> QED BY <2>1, <2>2
<1>6. CASE Renews
  BY <1>0, <1>6 DEF Renews, Still, ShowsTheSame, Shows
<1>7. CASE Turns
  BY <1>0, <1>7 DEF Turns, Still, ShowsTheSame, Shows
<1>8. CASE Passes
  BY <1>0, <1>8 DEF Passes
<1> QED BY <1>1, <1>2, <1>3, <1>4, <1>5, <1>6, <1>7, <1>8, StepsOfTheTimes

LEMMA PushStep ==
  ASSUME TypeOK, StampInv, PushAgreesWithScrape, [Next]_vars
  PROVE  PushAgreesWithScrape'
<1> USE DEF PushAgreesWithScrape
<1>0. /\ now \in Nat /\ start \in Nat /\ stamp \in Nat /\ state.Snapshot \in Int
  BY StampTypes
<1>1. CASE Held
  BY <1>0, <1>1 DEF Held, Begins, StampInv
<1>2. CASE Opened \/ Reads \/ Turns
  BY <1>2 DEF Opened, Reads, Turns
<1>3. CASE Unread
  <2>1. state.Snapshot <= start /\ stamp' = start /\ start' = start /\ state'.Snapshot = state.Snapshot
    BY <1>3 DEF Unread, Ends, StampInv
  <2>2. cancelled' \/ ~state'.Up
    BY <1>3 DEF Unread, Ends
  <2> QED BY <1>0, <2>1, <2>2
<1>4. CASE Read
  <2>1. start <= stamp' /\ (state'.Snapshot >= start => stamp' = state'.Snapshot) /\ stamp' \in Nat
    BY <1>4, ReadIsOfThisCycle
  <2>2. start' = start /\ (pc' = "onCycle" => ~state'.Up)
    BY <1>4 DEF Read, Ends
  <2> QED BY <1>0, <2>1, <2>2
<1>5. CASE Renews
  <2>1. stamp = state.Snapshot /\ start <= stamp
    BY <1>5 DEF Renews, StampInv
  <2>2. stamp' = stamp /\ start' = start /\ state'.Snapshot = state.Snapshot
    BY <1>5 DEF Renews, Still, ShowsTheSame, Shows
  <2> QED BY <1>0, <2>1, <2>2
<1>6. CASE Passes
  <2>1. UNCHANGED <<start, stamp, state, pc>> /\ (~cancelled' => ~cancelled)
    BY <1>6 DEF Passes
  <2> QED BY <2>1
<1> QED BY <1>1, <1>2, <1>3, <1>4, <1>5, <1>6, StepsOfTheTimes

LEMMA StampInit == Init => StampInv /\ PushAgreesWithScrape
BY DEF Init, StampInv, Reading, Renewing, PushAgreesWithScrape, NoSnapshot

\* A push is stamped with the snapshot a scrape would read, whenever its cycle
\* published one, and never with a time before its cycle.
THEOREM PushAgreesHolds == Spec => []PushAgreesWithScrape
<1>1. TypeOK /\ StampInv /\ PushAgreesWithScrape /\ [Next]_vars
      => (TypeOK /\ StampInv /\ PushAgreesWithScrape)'
  BY TypeStep, StampStep, PushStep
<1> QED BY <1>1, TypeInit, StampInit, PTL DEF Spec

LEMMA StampInvariance == Spec => [](TypeOK /\ StampInv)
<1>1. TypeOK /\ StampInv /\ [Next]_vars => (TypeOK /\ StampInv)'
  BY TypeStep, StampStep
<1> QED BY <1>1, TypeInit, StampInit, PTL DEF Spec

LEMMA NothingRunsBackwards ==
  ASSUME TypeOK, StampInv, [Next]_vars
  PROVE  stamp' >= stamp /\ state'.Snapshot >= state.Snapshot
<1>0. /\ now \in Nat /\ start \in Nat /\ stamp \in Nat /\ state.Snapshot \in Int
  BY StampTypes
<1>1. CASE Held
  BY <1>0, <1>1 DEF Held, Begins, StampInv
<1>2. CASE Opened
  BY <1>0, <1>2 DEF Opened, Begins
<1>3. CASE Reads \/ Renews \/ Turns
  BY <1>0, <1>3 DEF Reads, Renews, Turns, Still, ShowsTheSame, Shows
<1>4. CASE Unread
  BY <1>0, <1>4 DEF Unread, Ends, StampInv
<1>5. CASE Read
  BY <1>0, <1>5, ReadIsOfThisCycle
<1>6. CASE Passes
  BY <1>0, <1>6 DEF Passes
<1> QED BY <1>1, <1>2, <1>3, <1>4, <1>5, <1>6, StepsOfTheTimes

\* Whatever the flags, the times handed to OnCycle and the snapshot a scrape reads
\* never run backwards.
THEOREM TimesNeverRunBackwards ==
  Spec => [][stamp' >= stamp /\ state'.Snapshot >= state.Snapshot]_vars
<1>1. TypeOK /\ StampInv /\ [Next]_vars
      => [stamp' >= stamp /\ state'.Snapshot >= state.Snapshot]_vars
  BY NothingRunsBackwards
<1> QED BY <1>1, StampInvariance, PTL DEF Spec

\* The stamp of a cycle is older than the next cycle where the cycle's own timeout
\* is within the interval.
StampedEarly ==
  /\ InCycle \/ pc \in {"onCycle", "sleep"} => stamp <= start + Timeout
  /\ pc = "start" => now = 0 \/ stamp < now

LEMMA StampedEarlyStep ==
  ASSUME Timeout < Interval, TypeOK, ClockInv, StampInv, StampedEarly, [Next]_vars
  PROVE  StampedEarly'
<1> USE DEF StampedEarly
<1>0. /\ now \in Nat /\ start \in Nat /\ stamp \in Nat /\ Timeout \in Nat /\ Interval \in Nat
  BY StampTypes, ConstantTypes
<1>1. CASE Held
  BY <1>0, <1>1 DEF Held, Begins, InCycle
<1>2. CASE Opened
  BY <1>0, <1>2 DEF Opened, Begins, InCycle, StampInv
<1>3. CASE Reads \/ Renews
  BY <1>0, <1>3 DEF Reads, Renews, Still, InCycle, Renewing
<1>4. CASE Unread
  BY <1>0, <1>4 DEF Unread, Ends, InCycle
<1>5. CASE Read
  <2>1. now <= start + Timeout
    BY <1>0, <1>5 DEF Read, ClockInv, InCycle
  <2>2. stamp' <= now /\ stamp' \in Nat
    BY <1>5, ReadIsOfThisCycle
  <2>3. start' = start /\ pc' \in {"renew", "onCycle"}
    BY <1>5 DEF Read, Ends
  <2> QED BY <1>0, <2>1, <2>2, <2>3
<1>6. CASE Turns
  <2>1. /\ UNCHANGED <<now, start, stamp>> /\ pc \in {"onCycle", "sleep", "logout"}
        /\ pc' \in {"sleep", "start", "logout", "done"}
        /\ pc' = "start" => pc = "sleep" /\ now >= start + Interval
        /\ pc' = "sleep" => pc \in {"onCycle", "sleep"}
    BY <1>6 DEF Turns, Still
  <2> QED BY <1>0, <2>1 DEF InCycle
<1>7. CASE Passes
  <2>1. UNCHANGED <<start, stamp, pc>> /\ (pc = "start" => now' = now)
    BY <1>7 DEF Passes
  <2>2. InCycle' = InCycle
    BY <2>1 DEF InCycle
  <2> QED BY <2>1, <2>2
<1> QED BY <1>1, <1>2, <1>3, <1>4, <1>5, <1>6, <1>7, StepsOfTheTimes

\* In a configuration validate lets push, every cycle carries a later time than all
\* those before it.
THEOREM TimesAdvanceHolds ==
  ASSUME Timeout + PushTimeout < Interval
  PROVE  Spec => TimesAdvance
<1>0. Timeout < Interval
  BY ConstantTypes
<1>1. Init => StampedEarly
  BY ConstantTypes DEF Init, StampedEarly, InCycle
<1>2. TypeOK /\ ClockInv /\ StampInv /\ StampedEarly /\ [Next]_vars => StampedEarly'
  BY <1>0, StampedEarlyStep
<1>3. TypeOK /\ ClockInv /\ StampInv /\ StampedEarly /\ [Next]_vars
      => [/\ stamp' >= stamp
          /\ state'.Snapshot >= state.Snapshot
          /\ pc = "start" /\ now > 0 => stamp < now]_vars
  <2>1. TypeOK /\ StampedEarly => (pc = "start" /\ now > 0 => stamp < now)
    BY DEF TypeOK, RunTypes, StampedEarly
  <2> QED BY <2>1, NothingRunsBackwards
<1> QED BY <1>1, <1>2, <1>3, ClockInvariance, StampInvariance, PTL DEF Spec, TimesAdvance

-----------------------------------------------------------------------------
(* The life cycle.  Each step of the loop is a step of the contract main and *)
(* the stop sequence rely on, or none that they see.                         *)

LEMMA PhaseOf ==
  /\ pc = "start" => Phase = "ready"
  /\ pc = "onCycle" => Phase = "push"
  /\ InCycle => Phase = "cycle"
  /\ pc \in {"sleep", "logout", "done"} => Phase = pc
BY DEF Phase, InCycle

LEMMA PhaseNext ==
  /\ pc' = "start" => Phase' = "ready"
  /\ pc' = "onCycle" => Phase' = "push"
  /\ InCycle' => Phase' = "cycle"
  /\ pc' \in {"sleep", "logout", "done"} => Phase' = pc'
BY DEF Phase, InCycle

LEMMA LifecycleInit == Init => Contract!Init
<1> SUFFICES ASSUME Init PROVE Contract!Init
  OBVIOUS
<1>1. pc = "start" /\ now = 0 /\ start = 0 /\ deadline = 0
  BY DEF Init
<1>2. cancelled = FALSE
  BY Zenon DEF Init
<1>3. Phase = "ready"
  BY <1>1, PhaseOf
<1> QED BY <1>1, <1>2, <1>3, Zenon DEF Contract!Init

LEMMA CycleRefines ==
  /\ Suppress \/ StartLogin \/ StartPoll => Contract!BeginCycle
  /\ Cycling => UNCHANGED Contract!vars
  /\ Handover => Contract!EndCycle
<1>1. ASSUME Suppress PROVE Contract!BeginCycle
  <2>1. /\ pc = "start" /\ pc' = "onCycle" /\ start' = now /\ deadline' = now + PushTimeout
        /\ UNCHANGED <<now, cancelled>>
    BY <1>1 DEF Suppress, ToOnCycle
  <2> QED BY <2>1, PhaseOf, PhaseNext DEF Contract!BeginCycle, Contract!ToPush
<1>2. ASSUME StartLogin \/ StartPoll PROVE Contract!BeginCycle
  <2>1. /\ pc = "start" /\ InCycle' /\ start' = now /\ deadline' = now + Timeout
        /\ UNCHANGED <<now, cancelled>>
    BY <1>2 DEF StartLogin, StartPoll, BeginCycle, InCycle
  <2> QED BY <2>1, PhaseOf, PhaseNext DEF Contract!BeginCycle
<1>3. ASSUME Cycling PROVE UNCHANGED Contract!vars
  BY <1>3, PhaseOf, PhaseNext DEF Cycling, Contract!vars
<1>4. ASSUME Handover PROVE Contract!EndCycle
  BY <1>4, PhaseOf, PhaseNext DEF Handover, Contract!EndCycle, Contract!ToPush
<1> QED BY <1>1, <1>2, <1>3, <1>4

LEMMA LoopRefines ==
  /\ OnCycleReturns => Contract!EndPush
  /\ Wake => Contract!Wake
  /\ StopSleeping => Contract!Leave
  /\ FinalLogoutReturns => Contract!EndLogout
<1>1. ASSUME OnCycleReturns PROVE Contract!EndPush
  <2>1. /\ pc = "onCycle" /\ UNCHANGED <<now, start, cancelled>>
        /\ IF cancelled THEN pc' = "logout" /\ deadline' = now + Timeout
                        ELSE pc' = "sleep" /\ UNCHANGED deadline
    BY <1>1 DEF OnCycleReturns, ToFinalLogout
  <2> QED BY <2>1, PhaseOf, PhaseNext DEF Contract!EndPush, Contract!ToLogout
<1>2. ASSUME Wake PROVE Contract!Wake
  BY <1>2, PhaseOf, PhaseNext DEF Wake, NextCycleAt, Contract!Wake
<1>3. ASSUME StopSleeping PROVE Contract!Leave
  BY <1>3, PhaseOf, PhaseNext
     DEF StopSleeping, ToFinalLogout, Contract!Leave, Contract!ToLogout
<1>4. ASSUME FinalLogoutReturns PROVE Contract!EndLogout
  BY <1>4, PhaseOf, PhaseNext DEF FinalLogoutReturns, Contract!EndLogout
<1> QED BY <1>1, <1>2, <1>3, <1>4

LEMMA EnvironmentRefines ==
  /\ Tick => Contract!Tick
  /\ Cancel => Contract!Cancel
  /\ RouterSeesLogin \/ RouterSeesLogout \/ SomebodyElse \/ Deadline \/ UNCHANGED vars
       => UNCHANGED Contract!vars
<1>1. ASSUME pc' = pc PROVE Phase' = Phase
  BY <1>1 DEF Phase, InCycle
<1>2. ASSUME Tick PROVE Contract!Tick
  <2>1. pc' = pc /\ now' = now + 1 /\ UNCHANGED <<start, deadline, cancelled>>
    BY <1>2 DEF Tick
  <2>2. Contract!Blocked
    <3>1. CASE pc = "sleep" /\ now < NextCycleAt /\ ~cancelled
      BY <3>1, PhaseOf DEF NextCycleAt, Contract!Blocked
    <3>2. CASE pc = "onCycle" /\ now < deadline
      BY <3>2, PhaseOf DEF Contract!Blocked
    <3>3. CASE InRequest /\ now < deadline /\ ~CtxDone
      <4>1. pc = "logout" \/ (InCycle /\ ~cancelled)
        BY <3>3 DEF InRequest, CtxDone, InCycle
      <4> QED BY <3>3, <4>1, PhaseOf DEF Contract!Blocked
    <3> QED BY <1>2, <3>1, <3>2, <3>3 DEF Tick
  <2> QED BY <1>1, <2>1, <2>2 DEF Contract!Tick
<1>3. ASSUME Cancel PROVE Contract!Cancel
  BY <1>1, <1>3 DEF Cancel, Contract!Cancel
<1>4. ASSUME RouterSeesLogin \/ RouterSeesLogout \/ SomebodyElse \/ Deadline \/ UNCHANGED vars
      PROVE  UNCHANGED Contract!vars
  <2>1. UNCHANGED <<pc, now, start, deadline, cancelled>>
    BY <1>4 DEF RouterSeesLogin, RouterSeesLogout, SomebodyElse, Deadline, vars
  <2> QED BY <1>1, <2>1 DEF Contract!vars
<1> QED BY <1>2, <1>3, <1>4

LEMMA LifecycleStep == [Next]_vars => [Contract!Next]_(Contract!vars)
BY StepsOfTheCycle, CycleRefines, LoopRefines, EnvironmentRefines
   DEF Loop, Environment, Contract!Next, Contract!Step

\* Run keeps the contract: a cycle within Timeout, cut short by the signal; every
\* cycle through OnCycle; one logout, and no other way out.
THEOREM LifecycleIsImplemented == Spec => ImplementsLifecycle
BY LifecycleInit, LifecycleStep, PTL DEF Spec, ImplementsLifecycle, Contract!Spec
=============================================================================
