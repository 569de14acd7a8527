------------------------------- MODULE MCRollout -------------------------------
(***************************************************************************)
(* SnapshotIndexing on two instances, told apart by the commit the first   *)
(* requests are of, as r2 never asks in the second: two builds of the      *)
(* server that index and serve one commit, with one upset; and one process *)
(* that serves a ref that moves from a commit to the one after it, with    *)
(* two upsets and waits that the git host asks for.                        *)
(***************************************************************************)
EXTENDS MCSnapshotIndexing

OneCommit ==
    /\ \A r \in Request : req'[r].commit = c1
    /\ upsets' <= 1
    /\ \A s \in Snapshot : rows'[s] # None => rows'[s].retry <= MaxRetry

OneProcess ==
    /\ req'[r2] = req[r2]
    /\ p2 \notin closing'

OneInstance == IF req[r2].commit = c1 THEN OneCommit ELSE OneProcess
================================================================================
