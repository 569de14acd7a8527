----------------------------- MODULE CommitIndex -----------------------------
(***************************************************************************)
(* What the snapshots table promises the readers of an index, without the  *)
(* leases, the retries and the processes that bring it about.              *)
(*                                                                         *)
(* A snapshot is the row of one commit.  Attempts to index it come and go; *)
(* at most one of them holds the snapshot, only the one that holds it may  *)
(* publish, and publishing ends its attempt.  What was published stays     *)
(* readable until another attempt publishes over it or the repository is   *)
(* purged.                                                                 *)
(***************************************************************************)
EXTENDS Naturals

CONSTANTS
    Snapshot,   \* ids of rows
    Owner,      \* tokens that name attempts
    Version,    \* versions of the reading rules an index is built under
    None

VARIABLES
    attempts,   \* pairs <<snapshot, owner>>: the attempts at work
    holder,     \* the attempt that may publish each snapshot, or None
    published   \* the version of the index readers find; 0 when there is none

vars == <<attempts, holder, published>>

Init ==
    /\ attempts = {}
    /\ holder = [s \in Snapshot |-> None]
    /\ published = [s \in Snapshot |-> 0]

\* An attempt takes the snapshot, from nobody or from an attempt that lost it. The claim may be
\* recorded without the attempt ever learning that it was (the caller died in between).
Take(s, o) ==
    /\ holder' = [holder EXCEPT ![s] = o]
    /\ \/ attempts' = attempts \union {<<s, o>>}
       \/ attempts' = attempts
    /\ UNCHANGED published

\* Only the attempt that holds the snapshot publishes, and its index replaces the one before whole.
Publish(s, o) ==
    /\ <<s, o>> \in attempts
    /\ holder[s] = o
    /\ \E v \in Version : published' = [published EXCEPT ![s] = v]
    /\ holder' = [holder EXCEPT ![s] = None]
    /\ \/ attempts' = attempts \ {<<s, o>>}
       \/ attempts' = attempts

\* An attempt hands its snapshot back: it failed, or was interrupted.
HandBack(s, o) ==
    /\ <<s, o>> \in attempts
    /\ holder[s] = o
    /\ holder' = [holder EXCEPT ![s] = None]
    /\ attempts' = attempts \ {<<s, o>>}
    /\ UNCHANGED published

\* Attempts end without a word: they lost the snapshot, or their process died.
Die ==
    /\ attempts' \in SUBSET attempts
    /\ UNCHANGED <<holder, published>>

\* The repository is purged: nothing of it is readable any more.
Purge ==
    /\ holder' = [s \in Snapshot |-> None]
    /\ published' = [s \in Snapshot |-> 0]
    /\ UNCHANGED attempts

Next ==
    \/ \E s \in Snapshot, o \in Owner : Take(s, o) \/ Publish(s, o) \/ HandBack(s, o)
    \/ Die
    \/ Purge

Spec == Init /\ [][Next]_vars

=============================================================================
