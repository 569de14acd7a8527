------------------------------- MODULE MCClients -------------------------------
(***************************************************************************)
(* What stands between an answer and whoever reads it, each on its own     *)
(* small instance: the pages of the web app, a client that reads a skill   *)
(* in pages, a directory that the command serves, and the index of a       *)
(* commit with its readers.  They share no state, so a behaviour is one of *)
(* one part.                                                               *)
(***************************************************************************)
EXTENDS WebPages, SkillPages, LocalPack, MCPacks

CONSTANTS f1, f2

\* A file that goes on twice, and one that goes on once.
ThreeAndTwo == (f1 :> 3) @@ (f2 :> 2)

\* Rules, a body and included files of one to three characters, some of more than one byte, an empty
\* text, and a file that is not there.
Packs ==
    [rules    : {<<>>, <<<<1>>, <<1, 3>>>>},
     body     : {<<1, 1, 2>>, <<>>},
     included : {<<>>, <<<<2, 1, 1>>>>, <<<<1, 2>>, <<4, 1>>>>, <<Unavailable, <<1, 1>>>>}]

\* Bodies are told apart by what the directory has of them only.
Symmetry == Permutations(Body)

VARIABLE client

\* The files change under a watcher that stays, and the embedding follows.
FilesChange ==
    /\ \/ MeaningStep
       \/ ServeDirectory \/ DiskChanges \/ Hears \/ TimerFires \/ ReadEnds \/ Stop
       \/ \E b \in Body : ReadFile(b)
    /\ disk'.at = 1
    /\ serving' = "watched" => watcher' = 1

clients == <<client, pages, skillPages, localPack, building>>

ClientsInit ==
    /\ client \in {"connect", "file", "skill", "watch", "meaning", "pack"}
    /\ WebPagesInit
    /\ client # "connect" => url = NoOne /\ cookie = NoOne
    /\ client # "file" => file = f1
    /\ SkillPagesInit
    /\ client # "skill" => index = [n |-> 1, pack |-> CHOOSE p \in Pack : TRUE] /\ room = 0
    /\ LocalInit
    /\ IF client = "meaning" THEN meaning = TRUE
       ELSE meaning = FALSE /\ (client # "watch" => inMemory = {})
    /\ BuildInit
    /\ client # "pack" => source = [files |-> Copied, limits |-> Wide]

ClientsNext ==
    /\ UNCHANGED client
    /\ \/ client = "connect" /\ ConnectStep /\ UNCHANGED <<skillPages, localPack, building>>
       \/ client = "file" /\ FileStep /\ UNCHANGED <<skillPages, localPack, building>>
       \/ client = "skill" /\ SkillPagesNext /\ UNCHANGED <<pages, localPack, building>>
       \/ client = "watch" /\ WatchStep /\ UNCHANGED <<pages, skillPages, building>>
       \/ client = "meaning" /\ FilesChange /\ UNCHANGED <<pages, skillPages, building>>
       \/ client = "pack" /\ BuildStep /\ UNCHANGED <<pages, skillPages, localPack>>

ClientsSpec == ClientsInit /\ [][ClientsNext]_clients
================================================================================
