-------------------------- MODULE BackendAttribution --------------------------
(***************************************************************************)
(* What a route index promises to the enrichment path about Services,      *)
(* without saying how: every live route claims a set of Services, and a    *)
(* Service is answered by at most one route.  A Service with one claimant  *)
(* is answered once that claimant is upserted.  With several, an answer    *)
(* may be withheld, but an upsert never leaves another route's answer      *)
(* standing; and whoever lets go of a Service is never its answer.         *)
(***************************************************************************)
EXTENDS Naturals

CONSTANTS Names, Backends, Projections, None

VARIABLES
    live,       \* route key -> attributes of a live route, or None
    claims,     \* route key -> the Services the route references
    answer      \* Service -> the attributes a lookup returns, or None

Kinds == {"HTTPRoute", "GRPCRoute"}
Keys == Kinds \X Names
Attributes == [kind : Kinds, name : Names, proj : Projections]
KeyOf(ra) == <<ra.kind, ra.name>>

avars == <<live, claims, answer>>

Init ==
    /\ live = [k \in Keys |-> None]
    /\ claims = [k \in Keys |-> {}]
    /\ answer = [b \in Backends |-> None]

ClaimedElsewhere(k, b) == \E other \in Keys \ {k} : b \in claims[other]

\* Answers for a Service route k no longer claims: k's own are gone.
LetGo(k, b) ==
    \/ answer'[b] = None
    \/ answer'[b] = answer[b] /\ KeyOf(answer[b]) # k

\* Answers for a Service route k claims with attributes ra.
Claim(k, ra, b) ==
    \/ answer'[b] = ra
    \/ answer'[b] = None /\ ClaimedElsewhere(k, b)

Upsert(ra, refs) ==
    LET k == KeyOf(ra)
    IN  /\ live' = [live EXCEPT ![k] = ra]
        /\ claims' = [claims EXCEPT ![k] = refs]
        /\ answer' \in [Backends -> Attributes \cup {None}]
        /\ \A b \in refs : Claim(k, ra, b)
        /\ \A b \in claims[k] \ refs : LetGo(k, b)
        /\ \A b \in Backends \ (refs \cup claims[k]) : answer'[b] = answer[b]

Delete(k) ==
    /\ live' = [live EXCEPT ![k] = None]
    /\ claims' = [claims EXCEPT ![k] = {}]
    /\ answer' \in [Backends -> Attributes \cup {None}]
    /\ \A b \in claims[k] : LetGo(k, b)
    /\ \A b \in Backends \ claims[k] : answer'[b] = answer[b]

Next ==
    \/ \E ra \in Attributes, refs \in SUBSET Backends : Upsert(ra, refs)
    \/ \E k \in Keys : Delete(k)

Spec == Init /\ [][Next]_avars

-----------------------------------------------------------------------------
\* An answer is the current attributes of a live route that claims the
\* Service.
AnswerIsLiveClaimant ==
    \A b \in Backends :
        answer[b] # None =>
            /\ live[KeyOf(answer[b])] = answer[b]
            /\ b \in claims[KeyOf(answer[b])]

=============================================================================
