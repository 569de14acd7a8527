-------------------------------- MODULE MCMounts --------------------------------
(***************************************************************************)
(* The three questions of a mount, each on its own small instance: which   *)
(* repository a name is to everyone, which it is to a person, and which    *)
(* commit a ref of it is at.  They share no state that the others' answers *)
(* depend on, so a behaviour is one of one part.  The first is asked of a  *)
(* name that means one repository, by two processes, and of one that comes *)
(* to mean another, by one process where nobody notes that the name is     *)
(* nothing; besides lookups there are a person's request and the delivery  *)
(* of an event, two of all of them at once.                                *)
(***************************************************************************)
EXTENDS RepoNames, Refs, PrivateNames, FiniteSets, TLC

CONSTANTS p1, p2, c1, c2, c3, r1, r2, o1, o2

VARIABLE part

\* What the name ever meant.
Meant == {r \in Repository :
    \/ visibility[r] # "unseen"
    \/ r \in {host.shows, person.repo}
    \/ \E p \in Replica : lookup[p].step \in {"public", "private"} /\ lookup[p].row.repo = r}

\* The processes with a lookup under way, and what else is: a person's request, a delivery.
Busy == {p \in Replica : lookup[p] # AtRest}
Others == ({person.step} \ {"none"}) \union ({events.applying} \ {None})

Init ==
    /\ RepoNamesInit /\ RefsInit /\ PrivateNamesInit
    /\ part \in {"names", "renamed", "refs", "private"}
    /\ part \in {"refs", "private"} => host.shows = None
    /\ part # "refs" => head = c1
    /\ part # "private" => sight.now = {}

Next ==
    /\ UNCHANGED part
    /\ \/ /\ part = "names" /\ RepoNamesNext /\ UNCHANGED <<refs, privates>>
          /\ Cardinality(Meant') =< 1 /\ Cardinality(Busy') + Cardinality(Others') =< 2
       \/ /\ part = "renamed" /\ RepoNamesNext /\ UNCHANGED <<refs, privates>>
          /\ Cardinality(Busy') =< 1 /\ Cardinality(Busy') + Cardinality(Others') =< 2
          /\ \A p \in Busy' : ~lookup'[p].anyone
       \/ part = "refs" /\ RefsNext /\ UNCHANGED <<names, privates>>
       \/ /\ part = "private" /\ PrivateNamesNext /\ UNCHANGED <<names, refs>>
          /\ installed' \/ meant'.now \in sight'.now

Spec == Init /\ [][Next]_<<part, names, refs, privates>>

Symmetry == Permutations(Replica) \union Permutations(Repo) \union Permutations(Repository)
================================================================================
