---------------------------- MODULE MCHttpCalls ----------------------------
(* An instance of HttpCalls for TLC: two clients, each wrapped in any of    *)
(* six ways, up to two wrappers with a span between them or two under one.  *)
EXTENDS HttpCalls, TLC

CONSTANTS c1, c2

MCClients   == {c1, c2}
MCLayerings == {<<"span">>, <<"native">>, <<"native", "span">>, <<"span", "native">>,
                <<"native", "span", "native">>, <<"native", "span", "span">>}

MCSymmetry == Permutations(MCClients)

=============================================================================
