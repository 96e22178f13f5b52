----------------------------- MODULE MCRouteIndex -----------------------------
(***************************************************************************)
(* Small instances of RouteIndex: two names of two kinds give four         *)
(* contenders for a Service.  Names, Services, projections and policies    *)
(* are interchangeable (the kinds are not: they are strings).              *)
(***************************************************************************)
EXTENDS RouteIndex, TLC

Symmetry == Permutations(Names) \cup Permutations(Backends)
                \cup Permutations(Projections) \cup Permutations(PolicyRefs)
=============================================================================
