--------------------------- MODULE MCSignedRequests ---------------------------
(***************************************************************************)
(* SignedRequests for TLC.                                                 *)
(***************************************************************************)
EXTENDS SignedRequests, TLC

http == [scheme |-> "http", port |-> "other", path |-> "/introspect"]
Urls == {http, [http EXCEPT !.scheme = "https", !.port = "default"]}
SomeHeaders == {{"authorization"}}
SomeCovers == {{"@target-uri"}, {"@method", "@target-uri", "@authority"},
               {"@method", "@target-uri", "@path"}}
Public == {TRUE}
Symmetry == Permutations(Method)
=============================================================================
