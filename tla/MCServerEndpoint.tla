-------------------------- MODULE MCServerEndpoint --------------------------
(* ServerEndpoint for TLC: every kind of request, three prefixes, a client   *)
(* for each and one too short of a name, calls that are bound and one that   *)
(* is not, two goroutines.                                                   *)
EXTENDS ServerEndpoint

CONSTANTS w1, w2

MCWorkers == {w1, w2}
MCPrefixes == {<<>>, <<"/", "a">>, <<"/", "b", "/", "a">>}
MCClients ==
  {[base |-> <<>>, urlPrefix |-> <<>>], [base |-> <<"/">>, urlPrefix |-> <<"a", "/">>],
   [base |-> <<"/", "b", "/">>, urlPrefix |-> <<"a">>], [base |-> <<>>, urlPrefix |-> <<"/">>]}
MCKeys == {Key(<<"x">>, <<"y">>), Key(<<"x">>, <<"y", "/", "x">>), Key(<<"y">>, <<"x">>)}
MCBound == {Key(<<"x">>, <<"y">>), Key(<<"x">>, <<"y", "/", "x">>)}
MCPaths == {<<>>, <<"/">>, <<"/", "a">>, <<"/", "a", "/">>, <<"/", "a", "/", "x">>,
            <<"/", "a", "b", "x", "/", "y">>}
=============================================================================
