--------------------------- MODULE MCAzureNetwork ---------------------------
(* Instances of AzureNetwork, for TLC. *)
EXTENDS AzureNetwork

\* VNETs at the edges: the first and last blocks, written with their own
\* address or with that of a host in them.
EdgeNetworks ==
    [family : {"v4"}, third : {0, 1, 16, 127, 254, 255}, fourth : {0, 255},
     prefix : {16, 20, 23, 24}]
    \cup [family : {"v6", "bad", "none"}, third : {0}, fourth : {0}, prefix : {16}]

SomeBalancers ==
    {[named |-> FALSE, frontends |-> <<>>],
     [named |-> TRUE,  frontends |-> <<>>],
     [named |-> TRUE,  frontends |-> <<"nameless", "bare">>],
     [named |-> TRUE,  frontends |-> <<"bare", "named">>],
     [named |-> TRUE,  frontends |-> <<"named">>]}

SomeLayouts == {<<>>, <<"master">>, <<"worker">>, <<"master", "worker">>, <<"pool">>,
                <<"pool", "pool">>, <<"master", "pool">>}
=============================================================================
