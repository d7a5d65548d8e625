----------------------------- MODULE MCExporter -----------------------------
(* The command lines Exporter starts with: two that are sound, in pull and in *)
(* push mode, each with one setting changed, and the second with two.         *)
EXTENDS Exporter

Given(flag, env) == [flag |-> flag, env |-> env]
Unset == Given(<<>>, <<>>)

Pull == [n \in Settings |-> IF n = "Host" THEN Given(<<"router">>, <<>>) ELSE Unset]
        @@ [Version |-> FALSE, password |-> [env |-> "secret", file |-> ""],
            labels |-> [flag |-> <<>>, env |-> <<>>]]
Push == [Pull EXCEPT !.PushURL = Given(<<>>, <<"receiver">>)]

\* Around each rule of validate and each default: below, at and above it, by
\* flag, by variable, by both, and unreadable in either.
Numbers == [Interval |-> {0, 4, 5}, Timeout |-> {0, 4}, RequestTimeout |-> {-1, 2},
            MinBackoff |-> {0, 91}, MaxBackoff |-> {5, 6}, SessionRenew |-> {-1, 0},
            SessionCooldown |-> {0, 20}, PushTimeout |-> {-1, 0, 2, 3},
            PushBuffer |-> {-1, 0, 1}]

Ways(v) == {Given(<<v>>, <<>>), Given(<<>>, <<v>>), Given(<<v>>, <<Unparsable>>)}
Odd == {Given(<<Unparsable>>, <<>>), Given(<<>>, <<Unparsable>>)}

OneNumber == UNION {{<<n, w>> : w \in Odd \cup UNION {Ways(v) : v \in Numbers[n]}} :
                      n \in DOMAIN Numbers}
ByFlag == UNION {{<<n, Given(<<v>>, <<>>)>> : v \in Numbers[n]} : n \in DOMAIN Numbers}
Other ==
    {<<"Host", Unset>>, <<"LogLevel", Given(<<>>, <<"bad">>)>>,
     <<"PushURL", Given(<<"bad">>, <<"receiver">>)>>, <<"Version", TRUE>>}
    \cup {<<"password", [env |-> e, file |-> f]>> :
            e \in {"", "secret"}, f \in {"", "unreadable", "empty", "secret"}}
    \cup {<<"labels", [flag |-> f, env |-> e]>> :
            f \in {<<>>, <<<<"site", "a">>>>, <<<<"site", "a">>, <<"job", "b">>, <<"site", "c">>>>,
                   <<<<"oops">>>>},
            e \in {<<>>, <<<<"instance", "x">>, <<"site", "y">>>>}}

Lines ==
    {[base EXCEPT ![c[1]] = c[2]] : base \in {Pull, Push}, c \in OneNumber \cup Other}
    \cup {[Push EXCEPT ![c[1]] = c[2], ![d[1]] = d[2]] : c \in ByFlag, d \in ByFlag}
=============================================================================
