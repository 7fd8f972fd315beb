-------------------------- MODULE MCRouteRegistry --------------------------
(* An instance of RouteRegistry for TLC: "/a", "/a/b" beneath it and the   *)
(* pattern "/**", which matches every URI; "/a/b" may be protected.        *)
EXTENDS RouteRegistry, TLC

CONSTANTS h1, h2, c1, c2, c3, site, host, k1, null

MCKeys == {<<"auth", "/a/b">>} \cup ({"request"} \X Uris)
MCBeneath == {<<"/a", "/a/b">>}
MCGlobs == {<<u, v>> \in Uris \X Uris : u \in {v, "/**"} \/ <<u, v>> = <<"/a", "/a/b">>}
MCSymmetry == Permutations(Handlers) \cup Permutations(Cells)
=============================================================================
