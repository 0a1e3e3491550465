---------------------------- MODULE MCEndpoint ----------------------------
(* The endpoint for TLC.                                                   *)
EXTENDS Endpoint

SomeAddrs == { <<":", "9100">>, <<"[", ":", ":", "1", "]", ":", "9100">>, <<"host">>,
               <<"host", ":">>, <<"host", ":", "http">>, <<"long", ":", "9100">> }
Numbers == {"1", "9100"}
Long == {"long"}

Ask(method, path) == [method |-> method, path |-> path, rest |-> <<SP, "HTTP">>]
SomeRequests == {
    Ask(GET, Metrics), Ask(GET, Slash), Ask(GET, Health), Ask(GET, <<"/", "metrics", "?">>),
    Ask(<<"POST">>, Metrics), [method |-> GET, path |-> <<>>, rest |-> <<>>] }
=============================================================================
