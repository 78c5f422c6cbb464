------------------------------- MODULE MCHost -------------------------------
(* Three calls, two of them for the same URI, one of these with its body;    *)
(* durations scaled so that every cap can bind.                              *)
EXTENDS Host, TLC

CONSTANTS c1, c2, c3, u, v, lower, upper

Unset == [concurrency |-> {}, request_interval |-> {}]
Nothing == [host_concurrency |-> {}, host_request_interval |-> {},
            hosts |-> [h \in Spellings |-> Unset]]
Own(options) == [Nothing EXCEPT !.hosts[lower] = options]

\* Two files: the later one has the concurrency, the earlier one the interval.
Files ==
    [cli |-> Nothing,
     files |-> <<[Own([concurrency |-> {2}, request_interval |-> {1}])
                     EXCEPT !.host_concurrency = {3}],
                 Own([concurrency |-> {1}, request_interval |-> {}])>>,
     default |-> Own([concurrency |-> {3}, request_interval |-> {0}])]
\* The host's own table in lychee.toml against options of the command line.
Table ==
    [cli |-> [Nothing EXCEPT !.host_concurrency = {1}, !.host_request_interval = {1}],
     files |-> <<>>,
     default |-> [Nothing EXCEPT !.hosts[lower].concurrency = {2},
                                 !.hosts[upper].request_interval = {3}]]

MCSetups == {Files, Table}

MCUriOf == c1 :> u @@ c2 :> u @@ c3 :> v
=============================================================================
