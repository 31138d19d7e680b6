------------------------------ MODULE MCRouter ------------------------------
(***************************************************************************)
(* A literal route, a wildcard and routes with one and two parameters, for *)
(* three methods that have a table and one that has none.                  *)
(***************************************************************************)
EXTENDS Router

MCMethods == {"get", "post", "put", "patch"}
MCPatterns == {<<"/", "a">>, <<"/", ".*">>, <<"/", "a", "/", ":", "x">>,
               <<"/", ":", "x", "/", "b", "/", ":", "y">>}
MCPaths == {<<>>, <<"/">>, <<"/", "a">>, <<"/", "a", "/", "b">>,
            <<"/", "a", "/", "b", "/", "c">>}
=============================================================================
