--------------------------- MODULE ExporterProofs ---------------------------
(***************************************************************************)
(* What the process promises for every command line, grace period and       *)
(* number of signals: its stop sequence ends in order and in time, it runs  *)
(* with the settings and labels it was given, and a command line that       *)
(* validate accepts keeps the loop on its period.                           *)
(***************************************************************************)
EXTENDS Exporter, TLAPS, SequenceTheorems

-----------------------------------------------------------------------------
(* What configure leaves of a command line.                                 *)

NumberSettings == Settings \ {"Host", "LogLevel", "PushURL"}

\* resolved: a setting that holds numbers, and none that is unparsable among its
\* flags, comes out a number.
LEMMA ResolvedIsANumber ==
    ASSUME NEW s, NEW d \in Int,
           {s.flag, s.env} \subseteq Seq(Int \cup {Unparsable}), Len(s.env) <= 1,
           Unparsable \notin Range(s.flag)
    PROVE  resolved(s, d) \in Int
<1>1. ASSUME s.flag # <<>> PROVE Last(s.flag) \in Int
  <2>1. s.flag \in Seq(Int \cup {Unparsable}) OBVIOUS
  <2>2. Len(s.flag) \in 1..Len(s.flag) /\ DOMAIN s.flag = 1..Len(s.flag)
    BY <1>1, <2>1, EmptySeq, LenProperties
  <2>3. s.flag[Len(s.flag)] \in Int \cup {Unparsable} BY <2>1, <2>2, ElementOfSeq
  <2>4. s.flag[Len(s.flag)] \in Range(s.flag) BY <2>2 DEF Range
  <2> QED BY <2>3, <2>4 DEF Last
<1>2. fromEnv(s.env, d) \in Int
  <2>1. s.env \in Seq(Int \cup {Unparsable}) OBVIOUS
  <2>2. CASE s.env \in {<<>>, <<Unparsable>>} BY <2>2 DEF fromEnv
  <2>3. CASE s.env \notin {<<>>, <<Unparsable>>}
    <3>1. Len(s.env) = 1
      <4>1. s.env # <<>> BY <2>3
      <4>2. Len(s.env) \in Nat /\ Len(s.env) # 0 BY <2>1, <4>1, EmptySeq, LenProperties
      <4>3. Len(s.env) <= 1 OBVIOUS
      <4>4. \A k \in Nat : k # 0 /\ k <= 1 => k = 1 OBVIOUS
      <4> QED BY <4>2, <4>3, <4>4, Zenon
    <3>2. s.env[1] \in Int \cup {Unparsable} BY <2>1, <3>1, ElementOfSeq
    <3>3. s.env = <<s.env[1]>> BY <2>1, <3>1, SeqEqual
    <3>4. s.env[1] # Unparsable BY <2>3, <3>3
    <3> QED BY <2>3, <3>2, <3>4 DEF fromEnv
  <2> QED BY <2>2, <2>3
<1> QED BY <1>1, <1>2 DEF resolved

\* bindFlags: where flag.Parse found no fault, the options that are numbers are.
LEMMA OptionsAreNumbers ==
    ASSUME line \in CommandLines, flagFaults(line) = {}, NEW n \in NumberSettings
    PROVE  options[n] \in Int
<1>1. n \in Settings /\ n \in Settings \ {"Host", "LogLevel", "PushURL"} BY DEF NumberSettings
<1>2. Defaults[n] \in Int
  <2>1. n \in {"Interval", "Timeout", "RequestTimeout", "MinBackoff", "MaxBackoff",
              "SessionRenew", "SessionCooldown", "PushTimeout", "PushBuffer"}
    BY DEF NumberSettings, Settings, Defaults
  <2>2. /\ Defaults["Interval"] = 6 /\ Defaults["Timeout"] = 3
        /\ Defaults["RequestTimeout"] = 1 /\ Defaults["MinBackoff"] = 6
        /\ Defaults["MaxBackoff"] = 90 /\ Defaults["SessionRenew"] = 180
        /\ Defaults["SessionCooldown"] = 30 /\ Defaults["PushTimeout"] = 1
        /\ Defaults["PushBuffer"] = 300
    BY DEF Defaults
  <2> QED BY <2>1, <2>2
<1>3. {line[n].flag, line[n].env} \subseteq Seq(Int \cup {Unparsable}) /\ Len(line[n].env) <= 1
  BY <1>1, CommandLineAssumption
<1>4. Unparsable \notin Range(line[n].flag) BY <1>1 DEF flagFaults
<1>5. resolved(line[n], Defaults[n]) \in Int BY <1>2, <1>3, <1>4, ResolvedIsANumber
<1> QED BY <1>1, <1>5 DEF options, bindFlags

\* The settings of an accepted command line, as its constructors find them.
Sound(o) ==
    /\ \A n \in NumberSettings : o[n] \in Int
    /\ \A n \in {"Interval", "Timeout", "RequestTimeout", "MinBackoff", "SessionCooldown"} :
         o[n] > 0
    /\ o.SessionRenew >= 0 /\ o.MaxBackoff >= o.MinBackoff
    /\ pushMode(o) => o.PushTimeout > 0 /\ o.PushBuffer > 0 /\ o.Timeout + o.PushTimeout < o.Interval

\* A check of validate that reports nothing found nothing broken.
LEMMA FaultIsAFault == \A name, broken : Fault(name, broken) = {} => ~broken
BY DEF Fault

\* validate: what it lets through is sound.
LEMMA AcceptedIsSound ==
    ASSUME line \in CommandLines, Verdict = "run"
    PROVE  Sound(options)
<1>1. flagFaults(line) = {} /\ configure(line) = {} BY DEF Verdict
<1>2. \A n \in NumberSettings : options[n] \in Int BY <1>1, OptionsAreNumbers
<1>3. validate(options) = {} BY <1>1 DEF configure, options
<1>4. \A n \in {"Interval", "Timeout", "RequestTimeout", "MinBackoff", "SessionCooldown"} :
        n \in NumberSettings /\ ~(options[n] <= 0)
  <2>1. Fault("positive", \E n \in {"Interval", "Timeout", "RequestTimeout",
                                    "MinBackoff", "SessionCooldown"} : options[n] <= 0) = {}
    BY <1>3 DEF validate
  <2> QED BY <2>1, FaultIsAFault DEF NumberSettings, Settings, Defaults
<1>5. ~(options.SessionRenew < 0) /\ ~(options.MaxBackoff < options.MinBackoff)
  BY <1>3, FaultIsAFault DEF validate
<1>6. ASSUME pushMode(options)
      PROVE  /\ ~(options.PushTimeout <= 0) /\ ~(options.PushBuffer <= 0)
             /\ ~(options.Timeout + options.PushTimeout >= options.Interval)
  <2>1. pushFaults(options) = {} BY <1>3, <1>6 DEF validate
  <2> QED BY <2>1, FaultIsAFault
        DEF pushFaults, pushTimeoutFault, pushBufferFault, driftFault
<1>7. {"SessionRenew", "MaxBackoff", "MinBackoff", "PushTimeout", "PushBuffer", "Timeout",
       "Interval"} \subseteq NumberSettings
  BY DEF NumberSettings, Settings, Defaults
<1> QED BY <1>2, <1>4, <1>5, <1>6, <1>7 DEF Sound

\* NewPoller, push.New: over sound settings they put no default in place of a value.
LEMMA ConstructorsKeepWhatTheyAreGiven ==
    ASSUME NEW o, Sound(o)
    PROVE  /\ NewPoller(o) = [Interval |-> o.Interval, Timeout |-> o.Timeout,
                              MinBackoff |-> o.MinBackoff, MaxBackoff |-> o.MaxBackoff,
                              SessionCooldown |-> o.SessionCooldown,
                              SessionRenew |-> o.SessionRenew]
           /\ pushMode(o) => Buffer(o) = o.PushBuffer
<1>1. /\ o.Interval \in Int /\ o.Timeout \in Int /\ o.MinBackoff \in Int
      /\ o.MaxBackoff \in Int /\ o.SessionCooldown \in Int /\ o.SessionRenew \in Int
      /\ o.PushBuffer \in Int
  BY DEF Sound, NumberSettings, Settings, Defaults
<1>2. /\ o.Interval > 0 /\ o.Timeout > 0 /\ o.MinBackoff > 0 /\ o.SessionCooldown > 0
      /\ o.SessionRenew >= 0 /\ o.MaxBackoff >= o.MinBackoff
      /\ pushMode(o) => o.PushBuffer > 0
  BY DEF Sound
<1>3. /\ orDefault(o.Interval, "Interval") = o.Interval
      /\ orDefault(o.Timeout, "Timeout") = o.Timeout
      /\ orDefault(o.MinBackoff, "MinBackoff") = o.MinBackoff
      /\ orDefault(o.SessionCooldown, "SessionCooldown") = o.SessionCooldown
      /\ Longer(o.SessionRenew, 0) = o.SessionRenew
  BY <1>1, <1>2 DEF orDefault, Longer
<1>4. ~(o.MaxBackoff < o.MinBackoff) BY <1>1, <1>2
<1>5. pushMode(o) => Buffer(o) = o.PushBuffer BY <1>1, <1>2 DEF Buffer
<1> QED BY <1>3, <1>4, <1>5 DEF NewPoller

-----------------------------------------------------------------------------
(* The labels: a fold over the flags.                                       *)

Labels == INSTANCE FoldTheorems WITH op <- LAMBDA c, l, v : Set(l, v)

\* labelList.Set: the first flag drops what the variable seeded, the others append.
LEMMA LabelsAreTheFlags ==
    ASSUME NEW X, NEW flags \in Seq(X), NEW env \in Seq(X)
    PROVE  FoldLeft(Set, [pairs |-> env, flagged |-> FALSE], flags).pairs
             = IF flags = <<>> THEN env ELSE flags
<1> DEFINE B == [pairs : Seq(X), flagged : BOOLEAN]
           base == [pairs |-> env, flagged |-> FALSE]
           n == Len(flags)
<1>1. base \in B /\ n \in Nat
  BY LenProperties
<1>2. \A l \in B, v \in X : Set(l, v) \in B
  BY DEF Set
<1>3. PICK f \in [0..n -> B] :
        Labels!Steps(0, base, flags, f) /\ Labels!Fold(0, base, flags) = f[n]
  <2> HIDE DEF B, base, n
  <2>1. Labels!InSteps(0, B, base, flags, Labels!Fold(0, base, flags))
    BY <1>1, <1>2, Labels!FoldSteps
  <2> QED
    BY <2>1 DEF Labels!InSteps, n
<1>4. Labels!Fold(0, base, flags) = FoldLeft(Set, base, flags)
  BY DEF Labels!Fold, Labels!FoldLeft, FoldLeft, Labels!MapThenFoldSet, MapThenFoldSet,
         Labels!Max, Max
<1>5. f[0] = base /\ \A i \in 1..n : f[i] = Set(f[i - 1], flags[i])
  BY <1>3 DEF Labels!Steps
<1> DEFINE T == {i \in Nat : i = 0 \/ f[i] = [pairs |-> SubSeq(flags, 1, i), flagged |-> TRUE]}
<1>6. 0 \in T
  OBVIOUS
<1>7. ASSUME NEW i \in 1..n, i - 1 \in T PROVE i \in T
  <2>1. flags[i] \in X /\ i - 1 \in Nat /\ i \in Nat
    BY <1>1, ElementOfSeq
  <2>2. SubSeq(flags, 1, i) = SubSeq(flags, 1, i - 1) \o <<flags[i]>>
    BY <1>1, SubSeqRecursiveSecond
  <2>3. SubSeq(flags, 1, i - 1) \in Seq(X)
    <3>1. \A j \in 1..(i - 1) : flags[j] \in X
      BY <1>1, ElementOfSeq
    <3> QED
      BY <2>1, <3>1, SubSeqProperties
  <2>4. Append(SubSeq(flags, 1, i - 1), flags[i]) = SubSeq(flags, 1, i)
    BY <2>1, <2>2, <2>3, AppendIsConcat
  <2>5. CASE i = 1
    <3>1. SubSeq(flags, 1, i - 1) = <<>>
      BY <2>5, SubSeqEmpty
    <3>2. SubSeq(flags, 1, i) = <<flags[i]>>
      <4>1. Append(<<>>, flags[i]) = <<flags[i]>>
        OBVIOUS
      <4> QED
        BY <2>4, <3>1, <4>1
    <3>3. f[0] = base /\ f[i] = Set(f[0], flags[i])
      BY <1>5, <2>5
    <3>4. f[i] = [pairs |-> <<flags[i]>>, flagged |-> TRUE]
      BY <3>3 DEF Set
    <3> QED
      BY <2>1, <3>2, <3>4
  <2>6. CASE i # 1
    <3>1. f[i - 1] = [pairs |-> SubSeq(flags, 1, i - 1), flagged |-> TRUE]
      BY <1>7, <2>1, <2>6
    <3>2. f[i] = [pairs |-> Append(SubSeq(flags, 1, i - 1), flags[i]), flagged |-> TRUE]
      <4>1. f[i] = Set(f[i - 1], flags[i])
        BY <1>5
      <4> QED
        BY <3>1, <4>1 DEF Set
    <3> QED
      BY <2>1, <2>4, <3>2
  <2> QED
    BY <2>5, <2>6
<1>8. n \in T
  <2>1. \A i \in 0..n : i \in T
    <3> HIDE DEF T, n
    <3> QED
      BY <1>1, <1>6, <1>7, Labels!Induction
  <2>2. n \in 0..n
    BY <1>1
  <2> HIDE DEF T, n
  <2> QED
    BY <2>1, <2>2
<1>9. CASE flags = <<>>
  BY <1>3, <1>4, <1>5, <1>9
<1>10. CASE flags # <<>>
  <2>1. n # 0
    BY <1>10, EmptySeq
  <2>2. SubSeq(flags, 1, n) = flags
    BY SubSeqFull
  <2> QED
    BY <1>3, <1>4, <1>8, <1>10, <2>1, <2>2
<1> QED
  BY <1>9, <1>10

\* The pairs pushLabels is given are those of the flags, or without flags those of the
\* environment: the fold of labelPairs adds and loses none.
LEMMA LabelsOfTheLine ==
    ASSUME line \in CommandLines
    PROVE  LabelsGiven \in Seq(Seq(STRING)) /\ labelPairs(line) = LabelsGiven
<1>1. line.labels.flag \in Seq(Seq(STRING)) /\ line.labels.env \in Seq(Seq(STRING))
  BY LabelAssumption
<1> QED
  BY <1>1, LabelsAreTheFlags DEF labelPairs, LabelsGiven

Named(pairs, n) == {i \in DOMAIN pairs : pairs[i][1] = n}

\* pushLabels: of the labels of one name the last is the one served.
LEMMA LastOfANameWins ==
    ASSUME NEW X, NEW pairs \in Seq(X), NEW n, Named(pairs, n) # {}
    PROVE  pushLabels(pairs)[n] = pairs[Max(Named(pairs, n))][2]
<1> DEFINE named == {i \in 1..Len(pairs) : pairs[i][1] = n}
<1>1. Len(pairs) \in Nat /\ DOMAIN pairs = 1..Len(pairs)
  BY LenProperties
<1>2. named = Named(pairs, n) /\ named # {}
  BY <1>1 DEF Named
<1>3. Max(named) \in named /\ \A i \in named : i <= Max(named)
  <2>1. Labels!Max(named) \in named /\ \A i \in named : i <= Labels!Max(named)
    <3> HIDE DEF named
    <3>1. named \in SUBSET (1..Len(pairs))
      BY DEF named
    <3> QED
      BY <1>1, <1>2, <3>1, Labels!MaxOfIndices
  <2>2. Labels!Max(named) = Max(named)
    BY DEF Labels!Max, Max
  <2> QED
    BY <2>1, <2>2
<1>4. (CHOOSE i \in named : \A j \in named : j <= i) = Max(named)
  <2>1. \A i \in named : i \in Int
    BY <1>1
  <2> HIDE DEF named
  <2> DEFINE last == CHOOSE i \in named : \A j \in named : j <= i
  <2>2. last \in named /\ \A j \in named : j <= last
    BY <1>3
  <2> HIDE DEF last
  <2>3. last = Max(named)
    BY <1>3, <2>1, <2>2
  <2> QED
    BY <2>3 DEF last
<1>5. n \in {pairs[i][1] : i \in 1..Len(pairs)}
  BY <1>2
<1>6. pushLabels(pairs)[n] = pairs[CHOOSE i \in named : \A j \in named : j <= i][2]
  BY <1>2, <1>5 DEF pushLabels
<1> QED
  BY <1>2, <1>4, <1>6

\* pushLabels: every label served is the last given of its name, and the program's own
\* stand only where none was given.
LEMMA LabelsWanted ==
    ASSUME line \in CommandLines
    PROVE  LET labels == pushLabels(labelPairs(line))
           IN  /\ \A n \in DOMAIN labels : labels[n] = LabelWanted(n)
               /\ {l[1] : l \in Range(LabelsGiven)} \subseteq DOMAIN labels
<1>1. LabelsGiven \in Seq(Seq(STRING)) /\ labelPairs(line) = LabelsGiven
  BY LabelsOfTheLine
<1>2. DOMAIN LabelsGiven = 1..Len(LabelsGiven)
  BY <1>1, LenProperties
<1> DEFINE pairs == LabelsGiven
<1>3. DOMAIN pushLabels(pairs) = {"job", "instance"} \cup {pairs[i][1] : i \in 1..Len(pairs)}
  BY DEF pushLabels
<1>4. ASSUME NEW n \in DOMAIN pushLabels(pairs) PROVE pushLabels(pairs)[n] = LabelWanted(n)
  <2>1. CASE Named(pairs, n) = {}
    <3>1. pushLabels(pairs)[n] = "own"
      BY <1>2, <1>3, <2>1 DEF pushLabels, Named
    <3> QED
      BY <2>1, <3>1 DEF LabelWanted, Named
  <2>2. CASE Named(pairs, n) # {}
    <3>1. pushLabels(pairs)[n] = pairs[Max(Named(pairs, n))][2]
      BY <1>1, <2>2, LastOfANameWins
    <3> QED
      BY <2>2, <3>1 DEF LabelWanted, Named
  <2> QED
    BY <2>1, <2>2
<1>5. {l[1] : l \in Range(pairs)} \subseteq DOMAIN pushLabels(pairs)
  BY <1>2, <1>3 DEF Range
<1> QED
  BY <1>1, <1>4, <1>5

-----------------------------------------------------------------------------
(* The inductive invariant, in parts.                                       *)

\* Before main has read its command line nothing runs.
Unstarted ==
    /\ main = "configure" => /\ inForce = <<>> /\ phase = "ready" /\ now = 0 /\ start = 0
                             /\ ~cancelled /\ stopAt = NoTime /\ ~notified /\ ~closed
    /\ inForce = <<>> => main \in {"configure", "exit"} /\ ~closed

\* What polls was accepted; in push mode a cycle and its push fit in the interval.
Accepted ==
    /\ line \in CommandLines
    /\ inForce # <<>> => /\ Sound(options)
                         /\ inForce.poller = NewPoller(options)
                         /\ inForce.buffer = Buffer(options)
                         /\ inForce.labels = pushLabels(labelPairs(line))
    /\ push /\ inForce # <<>> => config.Timeout + config.PushTimeout < config.Interval
    /\ ~push => config.PushTimeout = 0

\* Where the clock can be in each phase.
LoopTimes ==
    /\ start <= now
    /\ phase = "cycle" => now <= deadline /\ deadline = start + config.Timeout
    /\ phase = "push" => /\ now <= deadline /\ deadline <= now + config.PushTimeout
                         /\ deadline <= start + config.Timeout + config.PushTimeout
    /\ push /\ phase = "sleep" => now <= start + config.Interval
    /\ push /\ phase = "ready" => now \in {start, start + config.Interval}

\* After the stop was asked for no time passes until the loop is in a push or in its
\* logout, and each of those ends by itself.
LoopEnds ==
    /\ cancelled => stopAt # NoTime
    /\ cancelled /\ phase \in {"ready", "cycle", "sleep"} => now = stopAt
    /\ cancelled /\ phase = "push" => deadline <= stopAt + config.PushTimeout
    /\ phase = "logout" =>
         now <= deadline /\ deadline <= stopAt + config.PushTimeout + config.LogoutTimeout
    /\ phase \in {"logout", "done"} => cancelled

\* And the parts main shuts down, in their order.
MainEnds ==
    /\ stopAt # NoTime => stopAt \in Nat /\ stopAt <= now
    /\ main = "cancel" => stopAt # NoTime
    /\ main = "waiting" /\ stopAt # NoTime => cancelled
    /\ main \in {"waiting", "cancel"} /\ stopAt # NoTime => now = stopAt
    /\ main \in {"server", "join", "sender"} => cancelled
    /\ main = "server" => ~push /\ now <= mainDeadline /\ mainDeadline = stopAt + shutdownTimeout
    /\ main = "join" =>
         now <= stopAt + IF push THEN config.PushTimeout + config.LogoutTimeout
                                 ELSE Longer(shutdownTimeout, config.LogoutTimeout)
    /\ main = "sender" =>
         /\ push /\ phase = "done" /\ now <= mainDeadline
         /\ mainDeadline <= stopAt + config.PushTimeout + config.LogoutTimeout + shutdownTimeout

IInv == TypeOK /\ Unstarted /\ Accepted /\ LoopTimes /\ LoopEnds /\ MainEnds /\ ExitOrder

\* A started process satisfies the inductive invariant.
LEMMA Initially == Init => IInv
<1> SUFFICES ASSUME Init PROVE IInv OBVIOUS
<1> USE DEF Init, Loop!Init, NoTime
<1>1. TypeOK
  <2>1. {cancelled, exitErr, request, notified, closed} \subseteq BOOLEAN OBVIOUS
  <2>2. config \in [Interval : Nat, Timeout : Nat, PushTimeout : Nat, LogoutTimeout : Nat]
    OBVIOUS
  <2> QED BY <2>1, <2>2 DEF TypeOK
<1>2. Unstarted BY DEF Unstarted
<1>3. Accepted BY DEF Accepted
<1>4. LoopTimes /\ LoopEnds /\ MainEnds BY DEF LoopTimes, LoopEnds, MainEnds
<1>5. ExitOrder BY DEF ExitOrder
<1> QED BY <1>1, <1>2, <1>3, <1>4, <1>5 DEF IInv

\* What a command line says does not change while the process runs.
LEMMA LineStays ==
    ASSUME line' = line
    PROVE  push' = push /\ options' = options /\ Verdict' = Verdict
BY DEF push, options, Verdict

\* Every step of main, of the loop and of the operator keeps the inductive invariant.
LEMMA Inductive == IInv /\ [Next]_vars => IInv'
<1> SUFFICES ASSUME IInv, [Next]_vars PROVE IInv' OBVIOUS
<1> USE ExporterAssumption DEF IInv, NoTime
<1>1. CASE Refuse
  <2> USE <1>1 DEF Refuse, stopVars, loopVars
  <2>1. push' = push /\ options' = options BY LineStays
  <2>2. TypeOK'
    <3>1. exitCode' \in {"usage", "ok", "fault"} BY DEF Verdict
    <3> QED BY <3>1 DEF TypeOK
  <2>3. Unstarted' BY DEF Unstarted
  <2>4. MainEnds' BY <2>1 DEF MainEnds, Longer
  <2>5. ExitOrder' BY <2>1 DEF Unstarted, ExitOrder
  <2>6. Accepted' /\ LoopTimes' /\ LoopEnds' BY <2>1 DEF Accepted, LoopTimes, LoopEnds
  <2> QED BY <2>2, <2>3, <2>4, <2>5, <2>6
<1>2. CASE ListenFailed
  <2> USE <1>2 DEF ListenFailed, Asked, stopVars, loopVars
  <2>1. push' = push /\ options' = options BY LineStays
  <2>2. TypeOK' BY DEF TypeOK
  <2>3. Unstarted' BY DEF Unstarted
  <2>4. LoopEnds' BY DEF LoopEnds
  <2>5. MainEnds' BY <2>1 DEF TypeOK, MainEnds, Longer
  <2>6. ExitOrder' BY <2>1 DEF ExitOrder
  <2>7. Accepted' /\ LoopTimes' BY <2>1 DEF Accepted, LoopTimes
  <2> QED BY <2>2, <2>3, <2>4, <2>5, <2>6, <2>7
<1>3. CASE Signalled
  <2> USE <1>3 DEF Signalled, stopVars, loopVars
  <2>1. push' = push /\ options' = options BY LineStays
  <2>2. TypeOK' BY DEF TypeOK
  <2>3. Unstarted' BY DEF Unstarted
  <2>4. MainEnds' BY <2>1 DEF TypeOK, LoopEnds, MainEnds, Longer
  <2>5. ExitOrder' BY <2>1 DEF ExitOrder
  <2>6. Accepted' /\ LoopTimes' /\ LoopEnds' BY <2>1 DEF Accepted, LoopTimes, LoopEnds
  <2> QED BY <2>2, <2>3, <2>4, <2>5, <2>6
<1>4. CASE StopCancels
  <2> USE <1>4 DEF StopCancels, CancelLoop, stopVars, loopVars
  <2>1. push' = push /\ options' = options BY LineStays
  <2>2. TypeOK'
    <3>1. {cancelled, exitErr, request, notified, closed}' \subseteq BOOLEAN BY DEF TypeOK
    <3> QED BY <3>1 DEF TypeOK
  <2>3. Unstarted' BY DEF Unstarted
  <2>4. LoopEnds' BY DEF TypeOK, LoopTimes, LoopEnds, MainEnds
  <2>5. MainEnds' BY <2>1 DEF TypeOK, MainEnds, Longer
  <2>6. ExitOrder' BY <2>1 DEF ExitOrder
  <2>7. Accepted' /\ LoopTimes' BY <2>1 DEF Accepted, LoopTimes
  <2> QED BY <2>2, <2>3, <2>4, <2>5, <2>6, <2>7
<1>5. CASE ServerDown
  <2> USE <1>5 DEF ServerDown, stopVars, loopVars
  <2>1. push' = push /\ options' = options BY LineStays
  <2>2. TypeOK' BY DEF TypeOK
  <2>3. Unstarted' BY DEF Unstarted
  <2>4. MainEnds' BY <2>1 DEF TypeOK, MainEnds, Longer
  <2>5. ExitOrder' BY <2>1 DEF ExitOrder
  <2>6. Accepted' /\ LoopTimes' /\ LoopEnds' BY <2>1 DEF Accepted, LoopTimes, LoopEnds
  <2> QED BY <2>2, <2>3, <2>4, <2>5, <2>6
<1>6. CASE JoinPoller
  <2> USE <1>6 DEF JoinPoller, Joined, Ends, stopVars, loopVars
  <2>1. push' = push /\ options' = options BY LineStays
  <2>2. TypeOK' BY DEF TypeOK
  <2>3. Unstarted' BY DEF Unstarted
  <2>4. MainEnds' BY <2>1 DEF TypeOK, MainEnds, Longer
  <2>5. ExitOrder' BY <2>1 DEF ExitOrder
  <2>6. Accepted' /\ LoopTimes' /\ LoopEnds' BY <2>1 DEF Accepted, LoopTimes, LoopEnds
  <2> QED BY <2>2, <2>3, <2>4, <2>5, <2>6
<1>7. CASE SenderDown
  <2> USE <1>7 DEF SenderDown, Ends, stopVars, loopVars
  <2>1. push' = push /\ options' = options BY LineStays
  <2>2. TypeOK' BY DEF TypeOK
  <2>3. Unstarted' BY DEF Unstarted
  <2>4. MainEnds' BY <2>1 DEF MainEnds, Longer
  <2>5. ExitOrder' BY <2>1 DEF MainEnds, ExitOrder
  <2>6. Accepted' /\ LoopTimes' /\ LoopEnds' BY <2>1 DEF Accepted, LoopTimes, LoopEnds
  <2> QED BY <2>2, <2>3, <2>4, <2>5, <2>6
<1>8. CASE Poll /\ Loop!BeginCycle
  <2> USE <1>8 DEF Loop!BeginCycle, Poll, Up, Loop!ToPush, stopVars, loopVars
  <2>1. push' = push /\ options' = options BY LineStays
  <2>2. TypeOK' BY DEF TypeOK
  <2>3. Unstarted' BY DEF Unstarted
  <2>4. LoopTimes' BY <2>1 DEF TypeOK, LoopTimes
  <2>5. LoopEnds' BY DEF TypeOK, LoopEnds
  <2>6. MainEnds' BY <2>1 DEF MainEnds, Longer
  <2>7. ExitOrder' BY <2>1 DEF ExitOrder
  <2>8. Accepted' BY <2>1 DEF Accepted
  <2> QED BY <2>2, <2>3, <2>4, <2>5, <2>6, <2>7, <2>8
<1>9. CASE Poll /\ Loop!EndCycle
  <2> USE <1>9 DEF Loop!EndCycle, Poll, Up, Loop!ToPush, stopVars, loopVars
  <2>1. push' = push /\ options' = options BY LineStays
  <2>2. TypeOK' BY DEF TypeOK
  <2>3. Unstarted' BY DEF Unstarted
  <2>4. LoopTimes' BY <2>1 DEF TypeOK, LoopTimes
  <2>5. LoopEnds' BY DEF LoopEnds
  <2>6. MainEnds' BY <2>1 DEF MainEnds, Longer
  <2>7. ExitOrder' BY <2>1 DEF ExitOrder
  <2>8. Accepted' BY <2>1 DEF Accepted
  <2> QED BY <2>2, <2>3, <2>4, <2>5, <2>6, <2>7, <2>8
<1>10. CASE Poll /\ Loop!EndPush
  <2> USE <1>10 DEF Loop!EndPush, Poll, Up, Loop!ToLogout, stopVars, loopVars
  <2>1. push' = push /\ options' = options BY LineStays
  <2>2. TypeOK' BY DEF TypeOK
  <2>3. Unstarted' BY DEF Unstarted
  <2>4. LoopTimes' BY <2>1 DEF TypeOK, Unstarted, Accepted, LoopTimes
  <2>5. LoopEnds' BY DEF TypeOK, LoopTimes, LoopEnds
  <2>6. MainEnds' BY <2>1 DEF MainEnds, Longer
  <2>7. ExitOrder' BY <2>1 DEF ExitOrder
  <2>8. Accepted' BY <2>1 DEF Accepted
  <2> QED BY <2>2, <2>3, <2>4, <2>5, <2>6, <2>7, <2>8
<1>11. CASE Poll /\ Loop!Wake
  <2> USE <1>11 DEF Loop!Wake, Poll, Up, stopVars, loopVars
  <2>1. push' = push /\ options' = options BY LineStays
  <2>2. TypeOK' BY DEF TypeOK
  <2>3. Unstarted' BY DEF Unstarted
  <2>4. LoopTimes' BY <2>1 DEF TypeOK, LoopTimes
  <2>5. LoopEnds' BY DEF LoopEnds
  <2>6. MainEnds' BY <2>1 DEF MainEnds, Longer
  <2>7. ExitOrder' BY <2>1 DEF ExitOrder
  <2>8. Accepted' BY <2>1 DEF Accepted
  <2> QED BY <2>2, <2>3, <2>4, <2>5, <2>6, <2>7, <2>8
<1>12. CASE Poll /\ Loop!Leave
  <2> USE <1>12 DEF Loop!Leave, Poll, Up, Loop!ToLogout, stopVars, loopVars
  <2>1. push' = push /\ options' = options BY LineStays
  <2>2. TypeOK' BY DEF TypeOK
  <2>3. Unstarted' BY DEF Unstarted
  <2>4. LoopTimes' BY <2>1 DEF LoopTimes
  <2>5. LoopEnds' BY DEF TypeOK, LoopEnds
  <2>6. MainEnds' BY <2>1 DEF MainEnds, Longer
  <2>7. ExitOrder' BY <2>1 DEF ExitOrder
  <2>8. Accepted' BY <2>1 DEF Accepted
  <2> QED BY <2>2, <2>3, <2>4, <2>5, <2>6, <2>7, <2>8
<1>13. CASE Poll /\ Loop!EndLogout
  <2> USE <1>13 DEF Loop!EndLogout, Poll, Up, stopVars, loopVars
  <2>1. push' = push /\ options' = options BY LineStays
  <2>2. TypeOK' BY DEF TypeOK
  <2>3. Unstarted' BY DEF Unstarted
  <2>4. LoopTimes' BY <2>1 DEF LoopTimes
  <2>5. LoopEnds' BY DEF LoopEnds
  <2>6. MainEnds' BY <2>1 DEF MainEnds, Longer
  <2>7. ExitOrder' BY <2>1 DEF ExitOrder
  <2>8. Accepted' BY <2>1 DEF Accepted
  <2> QED BY <2>2, <2>3, <2>4, <2>5, <2>6, <2>7, <2>8
<1>14. CASE ServeFails
  <2> USE <1>14 DEF ServeFails, stopVars, loopVars
  <2>1. push' = push /\ options' = options BY LineStays
  <2>2. TypeOK' BY DEF TypeOK
  <2>3. Unstarted' /\ Accepted' /\ LoopTimes' /\ LoopEnds' /\ MainEnds' /\ ExitOrder' BY <2>1 DEF Unstarted, Accepted, LoopTimes, LoopEnds, MainEnds, ExitOrder, Longer
  <2> QED BY <2>2, <2>3
<1>15. CASE Request
  <2> USE <1>15 DEF Request, Up, stopVars, loopVars
  <2>1. push' = push /\ options' = options BY LineStays
  <2>2. TypeOK' BY DEF TypeOK
  <2>3. Unstarted' /\ Accepted' /\ LoopTimes' /\ LoopEnds' /\ MainEnds' /\ ExitOrder' BY <2>1 DEF Unstarted, Accepted, LoopTimes, LoopEnds, MainEnds, ExitOrder, Longer
  <2> QED BY <2>2, <2>3
<1>16. CASE Signal
  <2> USE <1>16 DEF Signal, Asked, stopVars, loopVars
  <2>1. push' = push /\ options' = options BY LineStays
  <2>2. TypeOK'
    <3>1. {cancelled, exitErr, request, notified, closed}' \subseteq BOOLEAN BY DEF TypeOK
    <3> QED BY <3>1 DEF TypeOK
  <2>3. Unstarted' BY DEF Unstarted
  <2>4. LoopEnds' BY DEF TypeOK, Unstarted, LoopTimes, LoopEnds, MainEnds
  <2>5. MainEnds' BY <2>1 DEF TypeOK, LoopEnds, MainEnds, Longer
  <2>6. ExitOrder' BY <2>1 DEF ExitOrder
  <2>7. Accepted' /\ LoopTimes' BY <2>1 DEF Accepted, LoopTimes
  <2> QED BY <2>2, <2>3, <2>4, <2>5, <2>6, <2>7
<1>17. CASE Tick
  <2> USE <1>17 DEF Tick, MainBlocked, Loop!Tick, Loop!Blocked, stopVars, loopVars
  <2>1. push' = push /\ options' = options BY LineStays
  <2>2. TypeOK' BY DEF TypeOK
  <2>3. Unstarted' BY DEF Unstarted
  <2>4. LoopTimes' BY <2>1 DEF TypeOK, LoopTimes
  <2>5. LoopEnds' BY DEF TypeOK, LoopEnds
  <2>6. MainEnds' BY <2>1 DEF TypeOK, Accepted, LoopEnds, MainEnds, Longer
  <2>7. ExitOrder' BY <2>1 DEF ExitOrder
  <2>8. Accepted' BY <2>1 DEF Accepted
  <2> QED BY <2>2, <2>3, <2>4, <2>5, <2>6, <2>7, <2>8
<1>18. CASE UNCHANGED vars
  <2>1. push' = push /\ options' = options BY <1>18, LineStays DEF vars
  <2> QED BY <1>18, <2>1 DEF vars, loopVars, stopVars, TypeOK, Unstarted, Accepted, LoopTimes, LoopEnds, MainEnds, ExitOrder
<1>19. CASE Start
  <2> USE <1>19 DEF Start
  <2>1. line' = line OBVIOUS
  <2>2. push' = push /\ options' = options BY <2>1, LineStays
  <2>3. Sound(options) BY AcceptedIsSound DEF Accepted
  <2>4. NewPoller(options).Interval = options.Interval /\ NewPoller(options).Timeout = options.Timeout
    BY <2>3, ConstructorsKeepWhatTheyAreGiven
  <2>5. /\ options.Interval \in Nat /\ options.Timeout \in Nat /\ options.RequestTimeout \in Nat
        /\ push => /\ options.PushTimeout \in Nat
                   /\ options.Timeout + options.PushTimeout < options.Interval
    BY <2>3 DEF Sound, push, NumberSettings, Settings, Defaults
  <2>6. /\ config' \in [Interval : Nat, Timeout : Nat, PushTimeout : Nat, LogoutTimeout : Nat]
        /\ push => config'.Timeout + config'.PushTimeout < config'.Interval
        /\ ~push => config'.PushTimeout = 0
    BY <2>4, <2>5 DEF Shorter
  <2>7. /\ inForce'.poller = NewPoller(options) /\ inForce'.buffer = Buffer(options)
        /\ inForce'.labels = pushLabels(labelPairs(line))
    OBVIOUS
  <2>8. inForce' # <<>> OBVIOUS
  <2>9. phase = "ready" /\ now = 0 /\ start = 0 /\ ~cancelled /\ stopAt = NoTime /\ ~notified /\ ~closed
    BY DEF Unstarted
  <2>10. TypeOK' BY <2>6 DEF TypeOK
  <2>11. Unstarted' BY <2>8 DEF Unstarted
  <2>12. Accepted' BY <2>1, <2>2, <2>3, <2>6, <2>7 DEF Accepted
  <2>13. LoopTimes' /\ LoopEnds' /\ MainEnds' BY <2>9 DEF LoopTimes, LoopEnds, MainEnds
  <2>14. ExitOrder' BY <2>9 DEF ExitOrder
  <2> QED BY <2>10, <2>11, <2>12, <2>13, <2>14 DEF IInv
<1>20. CASE NewFails
  <2> USE <1>20 DEF NewFails, stopVars, loopVars
  <2>1. push' = push /\ options' = options BY LineStays
  <2>2. TypeOK'
    <3>1. exitCode' \in {"usage", "ok", "fault"} BY DEF Verdict
    <3> QED BY <3>1 DEF TypeOK
  <2>3. Unstarted' BY DEF Unstarted
  <2>4. MainEnds' BY <2>1 DEF MainEnds, Longer
  <2>5. ExitOrder' BY <2>1 DEF Unstarted, ExitOrder
  <2>6. Accepted' /\ LoopTimes' /\ LoopEnds' BY <2>1 DEF Accepted, LoopTimes, LoopEnds
  <2> QED BY <2>2, <2>3, <2>4, <2>5, <2>6
<1> QED
  BY <1>1, <1>2, <1>3, <1>4, <1>5, <1>6, <1>7, <1>8, <1>9, <1>10, <1>11,
     <1>12, <1>13, <1>14, <1>15, <1>16, <1>17, <1>18, <1>19, <1>20 DEF Next, Main, Poll, Loop!Step

\* StopWithinGrace is what IInv says of the clock in each of main's stages.
LEMMA Graceful == IInv => StopWithinGrace
<1> SUFFICES ASSUME IInv, stopAt # NoTime, main # "exit" PROVE now - stopAt <= Grace
  BY DEF StopWithinGrace
<1>1. main # "configure" BY DEF IInv, Unstarted
<1>2. /\ now \in Nat /\ stopAt \in Nat /\ shutdownTimeout \in Nat
      /\ config.PushTimeout \in Nat /\ config.LogoutTimeout \in Nat /\ mainDeadline \in Nat
  BY ExporterAssumption DEF IInv, TypeOK, MainEnds
<1>3. CASE main \in {"waiting", "cancel"}
  BY <1>2, <1>3 DEF IInv, MainEnds, Grace, Longer
<1>4. CASE main = "server" BY <1>2, <1>4 DEF IInv, MainEnds, Grace, Longer
<1>5. CASE main = "join" BY <1>2, <1>5 DEF IInv, MainEnds, Grace, Longer
<1>6. CASE main = "sender" BY <1>2, <1>6 DEF IInv, MainEnds, Grace
<1> QED BY <1>1, <1>3, <1>4, <1>5, <1>6 DEF IInv, TypeOK

\* A cycle begins where LoopTimes leaves the clock at the end of the sleep.
LEMMA OnPeriod ==
    IInv /\ [Next]_vars => (push /\ start' # start => start' = start + config.Interval)
<1> SUFFICES ASSUME IInv, [Next]_vars, push, start' # start
             PROVE  start' = start + config.Interval
  OBVIOUS
<1>1. Poll /\ Loop!BeginCycle
  BY DEF Next, Main, vars, loopVars, Refuse, NewFails, Start, ListenFailed, Signalled,
         StopCancels, ServerDown, JoinPoller, SenderDown, Poll, Loop!Step, Loop!EndCycle, Loop!EndPush,
         Loop!Wake, Loop!Leave, Loop!EndLogout, ServeFails, Request, Signal, Tick, Loop!Tick
<1> QED BY <1>1 DEF Loop!BeginCycle, IInv, LoopTimes

\* Hence it holds throughout.
LEMMA Invariance == Spec => []IInv
BY Initially, Inductive, PTL DEF Spec

-----------------------------------------------------------------------------
(* The theorems.                                                            *)

\* main, Run: their locals keep their types, and every duration the loop runs on is
\* a duration, for every command line configure accepts.
THEOREM ExporterTypeCorrect == Spec => []TypeOK
<1>1. IInv => TypeOK BY DEF IInv
<1> QED BY Invariance, <1>1, PTL

\* stopSequence.run: the sender is closed under a loop that is over, and a process
\* that polled ends by itself only after the logout and the last drain.
THEOREM ExitOrderHolds == Spec => []ExitOrder
<1>1. IInv => ExitOrder BY DEF IInv
<1> QED BY Invariance, <1>1, PTL

\* stopSequence.run, Run: wherever the signal or the listener's failure finds the loop
\* the process is gone within the README's sum, for all the timeouts there are.
THEOREM StopWithinGraceHolds == Spec => []StopWithinGrace
BY Invariance, Graceful, PTL

\* validate: what it accepts in push mode starts every cycle on its period.
THEOREM CyclesDoNotDriftHolds == Spec => CyclesDoNotDrift
<1>1. IInv /\ [Next]_vars =>
        [push /\ start' # start => start' = start + config.Interval]_vars
  BY OnPeriod
<1> QED BY Invariance, <1>1, PTL DEF Spec, CyclesDoNotDrift

\* configure, NewPoller, push.New: every number an accepted command line gives, or
\* leaves to bindFlags, is the one the poller and the sender run on.
THEOREM SettingsInForceHolds == Spec => []SettingsInForce
<1>1. IInv => SettingsInForce
  <2> SUFFICES ASSUME IInv, inForce # <<>>
               PROVE  /\ \A n \in DOMAIN inForce.poller : inForce.poller[n] = options[n]
                      /\ push => inForce.buffer = options.PushBuffer
    BY DEF SettingsInForce
  <2>1. /\ Sound(options) /\ inForce.poller = NewPoller(options)
        /\ inForce.buffer = Buffer(options)
    BY DEF IInv, Accepted
  <2>2. inForce.poller = [Interval |-> options.Interval, Timeout |-> options.Timeout,
                          MinBackoff |-> options.MinBackoff, MaxBackoff |-> options.MaxBackoff,
                          SessionCooldown |-> options.SessionCooldown,
                          SessionRenew |-> options.SessionRenew]
    BY <2>1, ConstructorsKeepWhatTheyAreGiven
  <2>3. push => inForce.buffer = options.PushBuffer
    BY <2>1, ConstructorsKeepWhatTheyAreGiven DEF push
  <2> QED BY <2>2, <2>3
<1> QED BY Invariance, <1>1, PTL

\* configure, NewPoller, push.New, labelList: an accepted command line is run as it was
\* written, its labels with its numbers.
THEOREM RunsAsConfiguredHolds == Spec => []RunsAsConfigured
<1>1. IInv => LabelsInForce
  <2> SUFFICES ASSUME IInv, inForce # <<>> PROVE LabelsInForce
    BY DEF LabelsInForce
  <2>1. line \in CommandLines /\ inForce.labels = pushLabels(labelPairs(line))
    BY DEF IInv, Accepted
  <2> QED
    BY <2>1, LabelsWanted DEF LabelsInForce
<1> QED
  BY Invariance, SettingsInForceHolds, <1>1, PTL DEF RunsAsConfigured
=============================================================================
