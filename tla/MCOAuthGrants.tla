----------------------------- MODULE MCOAuthGrants -----------------------------
(***************************************************************************)
(* The two ways a program is given a token that reads as a person, each on *)
(* its own small instance: the grant of a sign-in, and the code a person   *)
(* approves.  They share no rows, so a behaviour is one of one part.       *)
(***************************************************************************)
EXTENDS OAuthGrants, ConnectRequests, FiniteSets, TLC

CONSTANTS w1, w2, u, p1, p2, n1, n2, k1, k2

VARIABLE part

BothInit ==
    /\ Init /\ ConnectInit
    /\ part \in {"grants", "codes"}
    /\ part = "grants" => sight = {}

\* A request is sealed while a code can still be issued for it, and allowed by one answer at a time.
Worthwhile ==
    /\ Cardinality(deciding') =< 1
    /\ issued = MaxCodes => sealed' =< sealed

BothNext ==
    /\ UNCHANGED part
    /\ \/ part = "grants" /\ Next /\ Worthwhile /\ UNCHANGED connects
       \/ part = "codes" /\ ConnectNext /\ UNCHANGED vars

BothSpec == BothInit /\ [][BothNext]_<<part, vars, connects>>

Symmetry == Permutations(Worker) \union Permutations(Person)
================================================================================
