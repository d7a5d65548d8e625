------------------------------- MODULE Options -------------------------------
(***************************************************************************)
(* The command line of cmd/tplink_exporter: from flags and environment to   *)
(* options (bindFlags, env, labelList), the faults of configure, and the    *)
(* Config the poller and the sender run on after their constructors.        *)
(*                                                                          *)
(* A setting is the values of its flag, in order, and at most one value of  *)
(* its variable; a duration is in units of ten seconds.  A text no parser   *)
(* takes is Unparsable.  A label is a pair of a name and a value, or        *)
(* <<name>> without the equals sign.                                        *)
(***************************************************************************)
EXTENDS Integers, Sequences, SequencesExt

CONSTANT Unparsable

\* bindFlags: each flag's default.  The texts are those the faults depend on.
Defaults == [Host |-> "", LogLevel |-> "info", PushURL |-> "",
             Interval |-> 6, Timeout |-> 3, RequestTimeout |-> 1,
             MinBackoff |-> 6, MaxBackoff |-> 90, SessionRenew |-> 180,
             SessionCooldown |-> 30, PushTimeout |-> 1, PushBuffer |-> 300]

Settings == DOMAIN Defaults

\* env.str, env.num, env.dur: a variable that does not parse leaves the default.
fromEnv(env, default) == IF env \in {<<>>, <<Unparsable>>} THEN default ELSE env[1]

\* The flag wins over the variable, and its last occurrence over the others.
resolved(setting, default) ==
    IF setting.flag # <<>> THEN Last(setting.flag) ELSE fromEnv(setting.env, default)

\* labelList.Set: the first flag replaces what the variable seeded.
SetAppends(l, v) == [pairs |-> Append(l.pairs, v), flagged |-> TRUE]
Set(l, v) == [pairs |-> IF l.flagged THEN Append(l.pairs, v) ELSE <<v>>, flagged |-> TRUE]

labelPairs(line) ==
    FoldLeft(Set, [pairs |-> line.labels.env, flagged |-> FALSE], line.labels.flag).pairs

bindFlags(line) == [n \in Settings |-> resolved(line[n], Defaults[n])]

pushMode(o) == o.PushURL # ""

-----------------------------------------------------------------------------
(* The faults, by what they are about.                                      *)

Fault(name, broken) == IF broken THEN {name} ELSE {}

\* flag.Parse refuses the command line before anything else is looked at.
flagFaults(line) == {n \in Settings : Unparsable \in Range(line[n].flag)}

\* What bindFlags recorded, whether or not a flag overrides the variable.
envFaults(line) == {n \in Settings : line[n].env = <<Unparsable>>}

\* readPassword: from the variable or the file, never both.
passwordFaults(p) ==
    Fault("password", \/ p.env # "" /\ p.file # ""
                      \/ p.env = "" /\ p.file \in {"", "unreadable", "empty"})

pushTimeoutFaultOfZero(o) == Fault("push-timeout", o.PushTimeout = 0)
pushTimeoutFault(o)       == Fault("push-timeout", o.PushTimeout <= 0)
pushBufferFaultOfANegative(o) == Fault("push-buffer", o.PushBuffer < 0)
pushBufferFault(o)            == Fault("push-buffer", o.PushBuffer <= 0)
\* A cycle ends with the push it feeds, so the interval has to hold both.
driftFaultOfTheCycle(o) == Fault("drift", o.Timeout >= o.Interval)
driftFault(o)           == Fault("drift", o.Timeout + o.PushTimeout >= o.Interval)

pushFaults(o) ==
    Fault("push-url", o.PushURL = "bad") \cup pushTimeoutFault(o)
        \cup pushBufferFault(o) \cup driftFault(o)

validate(o) ==
    Fault("host", o.Host = "")
        \cup Fault("session-renew", o.SessionRenew < 0)
        \cup Fault("positive", \E n \in {"Interval", "Timeout", "RequestTimeout",
                                         "MinBackoff", "SessionCooldown"} : o[n] <= 0)
        \cup Fault("max-backoff", o.MaxBackoff < o.MinBackoff)
        \cup (IF pushMode(o) THEN pushFaults(o) ELSE {})

\* pushLabels reports a malformed pair in either mode.
labelFaults(pairs) == Fault("push-label", \E i \in 1..Len(pairs) : Len(pairs[i]) = 1)

\* configure, with what was recorded before it.
configure(line) ==
    LET o == bindFlags(line)
    IN envFaults(line) \cup Fault("log-level", o.LogLevel = "bad")
         \cup passwordFaults(line.password) \cup validate(o) \cup labelFaults(labelPairs(line))

-----------------------------------------------------------------------------
(* What runs on them.                                                       *)

Shorter(d, e) == IF d <= e THEN d ELSE e
Longer(d, e)  == IF d >= e THEN d ELSE e

\* NewPoller's defaults, over the fields pollerConfig copied.
orDefault(d, n) == IF d <= 0 THEN Defaults[n] ELSE d
NewPoller(o) ==
    LET floor == orDefault(o.MinBackoff, "MinBackoff")
    IN [Interval        |-> orDefault(o.Interval, "Interval"),
        Timeout         |-> orDefault(o.Timeout, "Timeout"),
        MinBackoff      |-> floor,
        MaxBackoff      |-> IF o.MaxBackoff < floor
                            THEN Longer(Defaults.MaxBackoff, floor) ELSE o.MaxBackoff,
        SessionCooldown |-> orDefault(o.SessionCooldown, "SessionCooldown"),
        SessionRenew    |-> Longer(o.SessionRenew, 0)]

\* push.New: a zero buffer is the default one.
Buffer(o) == IF o.PushBuffer = 0 THEN Defaults.PushBuffer ELSE o.PushBuffer

\* pushConfig: job and instance, and what the labels add or replace.  The last of
\* a name wins.
pushLabels(pairs) ==
    LET named(n) == {i \in 1..Len(pairs) : pairs[i][1] = n}
    IN [n \in {"job", "instance"} \cup {pairs[i][1] : i \in 1..Len(pairs)} |->
          IF named(n) = {} THEN "own"
          ELSE pairs[CHOOSE i \in named(n) : \A j \in named(n) : j <= i][2]]
=============================================================================
