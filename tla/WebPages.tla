-------------------------------- MODULE WebPages --------------------------------
(***************************************************************************)
(* Two pages of the web app, as the browser holds them.  The page where a  *)
(* person approves a command (ConnectPage) asks who is signed in and what  *)
(* a code stands for, and sends the person's answer; the page of a file    *)
(* (MountFile) loads the file a page at a time.  Both are kept by React    *)
(* while the URL changes under them, so answers arrive at a page that      *)
(* shows something else by then.  A render and the effects that follow it  *)
(* are one step, as they are after a click or a step in the history.       *)
(***************************************************************************)
EXTENDS Naturals, Sequences, FiniteSets

CONSTANTS
    Code,       \* codes of commands that asked to connect
    Visitor,    \* people who may be signed in on this browser
    File,       \* files of the mount
    PagesOf,    \* how many pages each file has
    NoOne,      \* not a value of any of these
    MaxMoves    \* how often the person goes elsewhere

ASSUME WebAssumption ==
    /\ NoOne \notin Code \union Visitor \union File
    /\ {NoOne, "unknown", "none", "sent"} \intersect Visitor = {}
    /\ PagesOf \in [File -> Nat \ {0}]
    /\ MaxMoves \in Nat

VARIABLES
    url,        \* the code in the URL, NoOne where one is typed
    cookie,     \* whom the server takes the browser for
    session,    \* whom the page takes it for (SessionProvider)
    leaving,    \* whether a sign-out that the server heard is yet to be shown
    me,         \* the question who is signed in, unless a later one was asked
    asked,      \* useResource: what the page shows of the request of a code
    loads,      \* its loads: the code each is for, what the server said, and whether it was aborted
    outcome,    \* what the page says became of the request
    answering,  \* the person's answer on its way: its code, and what the server said
    requests,   \* the requests of the commands, at the server
    file,       \* the file in the URL of the other page
    first,      \* whether its first page is there
    later,      \* LaterPages: the pages after the first, and of which file
    fetches,    \* pages on their way, each with what loadNext closed over
    moves

connectVars == <<url, cookie, session, leaving, me, asked, loads, outcome, answering, requests>>
fileVars == <<file, first, later, fetches>>
pages == <<connectVars, fileVars, moves>>

NothingAsked == [state |-> "ready", of |-> NoOne, shown |-> "nothing"]

Shown == {"nothing", "pending", "approved"}

WebTypeOK ==
    /\ url \in Code \union {NoOne}
    /\ cookie \in Visitor \union {NoOne}
    /\ session \in Visitor \union {NoOne, "unknown"}
    /\ me \in Visitor \union {NoOne, "none", "sent"}
    /\ asked \in [state: {"loading", "ready", "error"}, of: Code \union {NoOne}, shown: Shown]
    /\ loads \subseteq [of: Code, said: {"sent", "failed", "pending", "approved"}, aborted: BOOLEAN]
    /\ leaving \in BOOLEAN
    /\ outcome \in {"none", "approved", "denied", "public"}
    /\ answering = NoOne
       \/ answering \in [code: Code, approve: BOOLEAN, said: {"sent", "approved", "denied", "public", "refused", "hidden"}]
    /\ requests \in [Code -> {"pending", "approved", "gone"}]
    /\ file \in File
    /\ first \in BOOLEAN
    /\ later \in [of: File, pages: Seq(File \X Nat), loading: BOOLEAN]
    /\ fetches \subseteq [of: File, had: Seq(File \X Nat), at: 0..MaxMoves]
    /\ moves \in 0..MaxMoves

WebPagesInit ==
    /\ url \in Code \union {NoOne}
    /\ cookie \in Visitor \union {NoOne}
    /\ session = "unknown"
    /\ me = "sent"
    /\ asked = NothingAsked
    /\ loads = {}
    /\ leaving = FALSE
    /\ outcome = "none"
    /\ answering = NoOne
    /\ requests = [c \in Code |-> "pending"]
    /\ file \in File
    /\ first = FALSE
    /\ later = [of |-> file, pages |-> <<>>, loading |-> FALSE]
    /\ fetches = {}
    /\ moves = 0

-----------------------------------------------------------------------------
(* The request of a code: useResource under the key of the code and the person *)

\* A new key or version: what was loading is aborted, and the page loads. There is nothing to ask
\* without a code, and nobody to ask it as without a person.
Load(c, s) ==
    LET aborted == {[l EXCEPT !.aborted = TRUE] : l \in loads} IN
    IF c = NoOne \/ s \notin Visitor
    THEN asked' = NothingAsked /\ loads' = aborted
    ELSE /\ asked' = [state |-> "loading", of |-> c, shown |-> "nothing"]
         /\ loads' = aborted \union {[of |-> c, said |-> "sent", aborted |-> FALSE]}

Login(s) == IF s \in Visitor THEN s ELSE NoOne

\* The effect runs only when the key, the code and the person, has changed.
LoadIfNew(c, s) ==
    IF c = url /\ Login(s) = Login(session) THEN UNCHANGED <<asked, loads>> ELSE Load(c, s)

\* The person goes to another code, or back to where one is typed: the page stays, with its state.
GoToCode(c) ==
    /\ moves < MaxMoves /\ moves' = moves + 1
    /\ c # url
    /\ url' = c
    /\ LoadIfNew(c, session)
    /\ UNCHANGED <<cookie, session, leaving, me, outcome, answering, requests, fileVars>>

\* connection(code), as whom the server takes the browser for; or the request fails on its way.
ServerShows(l) ==
    /\ l \in loads /\ l.said = "sent"
    /\ \E said \in {"failed"} \union (IF cookie = NoOne \/ requests[l.of] = "gone" THEN {} ELSE {requests[l.of]}) :
          loads' = (loads \ {l}) \union {[l EXCEPT !.said = said]}
    /\ UNCHANGED <<url, cookie, session, leaving, me, asked, outcome, answering, requests, fileVars, moves>>

\* Variants of definitions, named with an underscore, are not part of the specification: each is the
\* definition with a slip that the property it is listed with in PROJECT.json must notice.
Dropped_None(l) == FALSE

\* The answer of a load that was aborted meanwhile is dropped.
Dropped(l) == l.aborted

LoadEnds(l) ==
    /\ l \in loads /\ l.said # "sent"
    /\ loads' = loads \ {l}
    /\ IF Dropped(l) THEN UNCHANGED asked
       ELSE asked' = IF l.said = "failed" THEN [state |-> "error", of |-> l.of, shown |-> "nothing"]
                     ELSE [state |-> "ready", of |-> l.of, shown |-> l.said]
    /\ UNCHANGED <<url, cookie, session, leaving, me, outcome, answering, requests, fileVars, moves>>

\* "Try again" under an error, or "look again" under a repository that is not shown.
Reload ==
    /\ moves < MaxMoves /\ moves' = moves + 1
    /\ url # NoOne /\ session \in Visitor /\ outcome = "none" /\ answering = NoOne
    /\ asked.state # "loading"
    /\ Load(url, session)
    /\ UNCHANGED <<url, cookie, session, leaving, me, outcome, answering, requests, fileVars>>

-----------------------------------------------------------------------------
(* The person's answer *)

\* What the page puts its buttons under: what else is to be shown comes before the request.
Offers == url # NoOne /\ session \in Visitor /\ outcome = "none"
          /\ asked.state = "ready" /\ asked.shown = "pending"

SendAnswer(approve) ==
    /\ Offers /\ answering = NoOne
    /\ answering' = [code |-> url, approve |-> approve, said |-> "sent"]
    /\ UNCHANGED <<url, cookie, session, leaving, me, asked, loads, outcome, requests, fileVars, moves>>

\* The server decides as whoever the browser is signed in as: the request is open once, and a
\* repository everyone reads needs no token; the person may see it no longer.
ServerDecides ==
    /\ answering # NoOne /\ answering.said = "sent"
    /\ LET c == answering.code IN
       \/ /\ cookie = NoOne \/ requests[c] # "pending"
          /\ answering' = [answering EXCEPT !.said = "refused"]
          /\ UNCHANGED requests
       \/ /\ cookie # NoOne /\ requests[c] = "pending" /\ ~answering.approve
          /\ requests' = [requests EXCEPT ![c] = "gone"]
          /\ answering' = [answering EXCEPT !.said = "denied"]
       \/ /\ cookie # NoOne /\ requests[c] = "pending" /\ answering.approve
          /\ \/ /\ requests' = [requests EXCEPT ![c] = "approved"]
                /\ answering' = [answering EXCEPT !.said = "approved"]
             \/ /\ requests' = [requests EXCEPT ![c] = "gone"]
                /\ answering' = [answering EXCEPT !.said = "public"]
             \/ /\ answering' = [answering EXCEPT !.said = "hidden"]
                /\ UNCHANGED requests
    /\ UNCHANGED <<url, cookie, session, leaving, me, asked, loads, outcome, fileVars, moves>>

\* What the server said is shown, or the page asks again.
AnswerArrives ==
    /\ answering # NoOne /\ answering.said # "sent"
    /\ outcome' = IF answering.said \in {"refused", "hidden"} THEN outcome ELSE answering.said
    /\ IF answering.said = "hidden" THEN Load(url, session) ELSE UNCHANGED <<asked, loads>>
    /\ answering' = NoOne
    /\ UNCHANGED <<url, cookie, session, leaving, me, requests, fileVars, moves>>

\* A command claims its token, or the time of a request is over.
RequestEnds(c) ==
    /\ requests[c] # "gone"
    /\ requests' = [requests EXCEPT ![c] = "gone"]
    /\ UNCHANGED <<url, cookie, session, leaving, me, asked, loads, outcome, answering, fileVars, moves>>

-----------------------------------------------------------------------------
(* Who is signed in *)

ServerSaysWho ==
    /\ me = "sent"
    /\ me' = cookie
    /\ UNCHANGED <<url, cookie, session, leaving, asked, loads, outcome, answering, requests, fileVars, moves>>

\* An error counts as nobody.
WhoArrives(s) ==
    /\ \/ me \in Visitor \union {NoOne} /\ s = me
       \/ me = "sent" /\ s = NoOne
    /\ session' = s
    /\ me' = "none"
    /\ LoadIfNew(url, s)
    /\ UNCHANGED <<url, cookie, leaving, outcome, answering, requests, fileVars, moves>>

\* The browser brings the page back as it was left, and the page asks again who is signed in.
PageRestored ==
    /\ moves < MaxMoves /\ moves' = moves + 1
    /\ me' = "sent"
    /\ UNCHANGED <<url, cookie, session, leaving, asked, loads, outcome, answering, requests, fileVars>>

\* signOut(): the server forgets the session, and then the page does.
SignOutAtServer ==
    /\ session \in Visitor /\ cookie # NoOne /\ ~leaving
    /\ cookie' = NoOne
    /\ leaving' = TRUE
    /\ UNCHANGED <<url, session, me, asked, loads, outcome, answering, requests, fileVars, moves>>

SignOutShown ==
    /\ leaving
    /\ leaving' = FALSE
    /\ session' = NoOne
    /\ LoadIfNew(url, NoOne)
    /\ UNCHANGED <<url, cookie, me, outcome, answering, requests, fileVars, moves>>

\* Somebody signs in or out in another tab.
OtherTab ==
    /\ moves < MaxMoves /\ moves' = moves + 1
    /\ \E v \in Visitor \union {NoOne} : v # cookie /\ cookie' = v
    /\ UNCHANGED <<url, session, leaving, me, asked, loads, outcome, answering, requests, fileVars>>

-----------------------------------------------------------------------------
(* A file, a page at a time *)

\* The first page is asked for under the key of the file; what loads for another file is aborted.
GoToFile(f) ==
    /\ moves < MaxMoves /\ moves' = moves + 1
    /\ f # file
    /\ file' = f
    /\ first' = FALSE
    /\ UNCHANGED <<connectVars, later, fetches>>

FirstArrives ==
    /\ ~first
    /\ first' = TRUE
    /\ UNCHANGED <<connectVars, file, later, fetches, moves>>

\* "Pages loaded for another file are not this file's."
More == IF later.of = file THEN later ELSE [of |-> file, pages |-> <<>>, loading |-> FALSE]

\* What the page shows of the file.
FilePages == IF first THEN <<<<file, 1>>>> \o More.pages ELSE <<>>

\* loadNext: its answer will be put after the pages that are there now.
LoadNext ==
    /\ first /\ ~More.loading
    /\ Len(FilePages) < PagesOf[file]
    /\ later' = [More EXCEPT !.loading = TRUE]
    /\ fetches' = fetches \union {[of |-> file, had |-> More.pages, at |-> moves]}
    /\ UNCHANGED <<connectVars, file, first, moves>>

\* Nothing aborts it: the answer is set whatever file is shown by then.
NextArrives(f) ==
    /\ f \in fetches
    /\ later' = [of |-> f.of, pages |-> Append(f.had, <<f.of, Len(f.had) + 2>>), loading |-> FALSE]
    /\ fetches' = fetches \ {f}
    /\ UNCHANGED <<connectVars, file, first, moves>>

NextFails(f) ==
    /\ f \in fetches
    /\ later' = [of |-> f.of, pages |-> f.had, loading |-> FALSE]
    /\ fetches' = fetches \ {f}
    /\ UNCHANGED <<connectVars, file, first, moves>>

-----------------------------------------------------------------------------

ConnectStep ==
    \/ \E c \in Code \union {NoOne} : GoToCode(c)
    \/ Reload
    \/ \E l \in loads : ServerShows(l) \/ LoadEnds(l)
    \/ \E approve \in BOOLEAN : SendAnswer(approve)
    \/ ServerDecides \/ AnswerArrives
    \/ \E c \in Code : RequestEnds(c)
    \/ ServerSaysWho
    \/ \E s \in Visitor \union {NoOne} : WhoArrives(s)
    \/ PageRestored \/ SignOutAtServer \/ SignOutShown \/ OtherTab

FileStep ==
    \/ \E f \in File : GoToFile(f)
    \/ FirstArrives \/ LoadNext
    \/ \E f \in fetches : NextArrives(f) \/ NextFails(f)

WebPagesNext == ConnectStep \/ FileStep

WebPagesSpec == WebPagesInit /\ [][WebPagesNext]_pages

-----------------------------------------------------------------------------
(* Properties *)

\* What a page shows is of what its URL names, whatever is on its way when the person goes elsewhere
\* and back: the request a person is asked to decide is the one of the code, and the pages of a file
\* are that file's, in order, each once.
AsksAboutTheCode == url # NoOne /\ session \in Visitor /\ asked.state = "ready" => asked.of = url
PagesFollowOn == FilePages = [n \in 1..Len(FilePages) |-> <<file, n>>]
ShowsWhatIsNamed == WebTypeOK /\ AsksAboutTheCode /\ PagesFollowOn
=============================================================================
