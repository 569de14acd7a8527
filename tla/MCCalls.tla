-------------------------------- MODULE MCCalls --------------------------------
(***************************************************************************)
(* A server's calls to others, each on its own small instance: those to    *)
(* the inference server, and those to the git host with the credential of  *)
(* a person.  They share no state, so a behaviour is one of one part.  Of  *)
(* the credential it is one of all requests when nothing is upset, one of  *)
(* two of them (of one process, or of two) and what upsets them, or one of *)
(* one of them whose person signs in where another secret is sealed with.  *)
(***************************************************************************)
EXTENDS InferenceClient, UserCredentials, TLC

CONSTANTS p1, p2, p3, r1, r2, r3

\* r1 and r2 share a process, r3 is answered by the other.
SharedAndAlone == (r1 :> p1) @@ (r2 :> p1) @@ (r3 :> p2)
OneEach        == (r1 :> p1) @@ (r2 :> p2)

\* p3 seals with a secret that the others do not have: what it stored they cannot read.
TwoSecrets == [p \in Process |-> IF p = p3 THEN 2 ELSE 1]

VARIABLES part, crew

UpsetsAreFew ==
    /\ \A r \in Request \ crew : req'[r] = AtRest
    /\ crew = Request /\ r3 \in Request => upsets' = 0
    /\ stored' # None /\ stored'.by = p3 => Cardinality(crew) = 1

CallsInit ==
    /\ Init /\ CredentialsInit
    /\ part \in {"inference", "credentials"}
    /\ crew \in {Request, {r1, r2}, {r1, r3}, {r1}} \intersect SUBSET Request
    /\ part = "inference" => crew = Request

CallsNext ==
    /\ UNCHANGED <<part, crew>>
    /\ \/ part = "inference" /\ Next /\ UNCHANGED credentials
       \/ part = "credentials" /\ CredentialsNext /\ UpsetsAreFew /\ UNCHANGED vars

CallsSpec == CallsInit /\ [][CallsNext]_<<part, crew, vars, credentials>>

\* Calls to the inference server keep being made where they are what the behaviour is of.
FairCallsSpec ==
    /\ CallsSpec
    /\ Fairness /\ CredentialsFairness
    /\ \A c \in Call : WF_vars(part = "inference" /\ Ask(c))

-----------------------------------------------------------------------------

\* Every call to the inference server ends, and every request for a credential; and a server that was
\* left alone is called again until it answers.
EveryCallEnds == CallsEnd /\ RequestsEnd /\ ServerIsAskedAgain
================================================================================
