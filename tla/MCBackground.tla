----------------------------- MODULE MCBackground -----------------------------
(***************************************************************************)
(* What goes on in a server beside its answers, each on its own small      *)
(* instance: the embedding of indexes, the counting of requests, and what  *)
(* a process keeps for the next request, installation tokens and answered  *)
(* searches.  They share no state, so a behaviour is one of one part.  A   *)
(* snapshot that may not be embedded for a while is the first mishap, and  *)
(* over before the next.                                                   *)
(***************************************************************************)
EXTENDS EmbeddingJobs, InstallationTokens, SearchCache, UsageRecorder, TLC

CONSTANTS w1, w2, b1, b2, b3, b4

\* The second index has a new body where the first had one, and one body twice.
TwoIndexes == <<<<b1, b2, b3>>, <<b3, b4, b3>>>>

VARIABLE part

Init ==
    /\ EmbeddingInit /\ InstallationInit /\ SearchInit /\ UsageInit
    /\ part \in {"embedding", "tokens", "search", "counting"}
    /\ part # "tokens" => \A r \in Repository : covering[r] = NoInstallation

Next ==
    /\ UNCHANGED part
    /\ \/ /\ part = "embedding" /\ EmbeddingNext /\ UNCHANGED <<app, search, counting>>
          /\ standing' = "wanted" \/ mishaps' =< 1
       \/ part = "tokens" /\ InstallationNext /\ UNCHANGED <<embeddings, search, counting>>
       \/ part = "search" /\ SearchNext /\ UNCHANGED <<embeddings, app, counting>>
       \/ part = "counting" /\ UsageNext /\ UNCHANGED <<embeddings, app, search>>

Spec == Init /\ [][Next]_<<part, embeddings, app, search, counting>>

\* The workers go on and the sweep runs; the other parts owe nobody a step.
FairSpec == Spec /\ EmbeddingFairness
================================================================================
