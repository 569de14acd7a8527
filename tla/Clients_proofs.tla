----------------------------- MODULE Clients_proofs -----------------------------
(***************************************************************************)
(* Theorems about what stands between an answer and whoever reads it: the  *)
(* pages of the web app (WebPages), for any codes, people and files, a     *)
(* directory that the command serves (LocalPack), for any files, changes   *)
(* and failures, and a skill that is read in pages (SkillPages), for any   *)
(* skill, size of a page and number of builds.  They share no state.       *)
(***************************************************************************)
EXTENDS WebPages, LocalPack, SkillPages, Sums, SequenceTheorems, FiniteSetTheorems, TLAPS

-----------------------------------------------------------------------------
(* The page of a request to connect *)

\* What loads and was not aborted is what the page would ask for now.
LoadsAreCurrent == \A l \in loads : ~l.aborted => l.of = url

\* The pages after the first that somebody has, or puts the next one after.
Onward(of, texts) == texts = [n \in 1..Len(texts) |-> <<of, n + 1>>]

LaterFollowOn == Onward(later.of, later.pages) /\ \A f \in fetches : Onward(f.of, f.had)

AsNamed == WebTypeOK /\ AsksAboutTheCode /\ LoadsAreCurrent /\ LaterFollowOn

\* The page of a request to connect, with its types.
Connecting ==
    /\ url \in Code \union {NoOne}
    /\ asked \in [state: {"loading", "ready", "error"}, of: Code \union {NoOne}, shown: Shown]
    /\ loads \subseteq [of: Code, said: {"sent", "failed", "pending", "approved"}, aborted: BOOLEAN]
    /\ session \in Visitor \union {NoOne, "unknown"}
    /\ AsksAboutTheCode /\ LoadsAreCurrent

\* Asking anew drops what was asked before.
LEMMA LoadsAnew ==
    ASSUME Connecting, NEW c \in Code \union {NoOne}, NEW s \in Visitor \union {NoOne, "unknown"},
           url' = c, session' = s, Load(c, s)
    PROVE  Connecting'
<1> DEFINE aborted == {[l EXCEPT !.aborted = TRUE] : l \in loads}
<1>1. aborted \subseteq [of: Code, said: {"sent", "failed", "pending", "approved"}, aborted: BOOLEAN]
      /\ \A l \in aborted : l.aborted
  BY DEF Connecting
<1> HIDE DEF aborted
<1>2. CASE c = NoOne \/ s \notin Visitor
  <2>1. asked' = NothingAsked /\ loads' = aborted
    BY <1>2 DEF Load, aborted
  <2> QED
    BY <1>1, <1>2, <2>1 DEF Connecting, AsksAboutTheCode, LoadsAreCurrent, NothingAsked, Shown
<1>3. CASE ~(c = NoOne \/ s \notin Visitor)
  <2>1. /\ asked' = [state |-> "loading", of |-> c, shown |-> "nothing"]
        /\ loads' = aborted \union {[of |-> c, said |-> "sent", aborted |-> FALSE]}
    BY <1>3 DEF Load, aborted
  <2>2. c \in Code
    BY <1>3
  <2>3. loads' \subseteq [of: Code, said: {"sent", "failed", "pending", "approved"}, aborted: BOOLEAN]
    <3>1. [of |-> c, said |-> "sent", aborted |-> FALSE]
             \in [of: Code, said: {"sent", "failed", "pending", "approved"}, aborted: BOOLEAN]
      BY <2>2
    <3> QED
      BY <1>1, <2>1, <3>1
  <2>4. asked' \in [state: {"loading", "ready", "error"}, of: Code \union {NoOne}, shown: Shown] /\ asked'.state = "loading"
    BY <2>1 DEF Shown
  <2>5. AsksAboutTheCode'
    BY <2>4 DEF AsksAboutTheCode
  <2>6. LoadsAreCurrent'
    BY <1>1, <2>1 DEF LoadsAreCurrent
  <2> QED
    BY <2>3, <2>4, <2>5, <2>6 DEF Connecting
<1> QED
  BY <1>2, <1>3

\* The key of what is asked is the code and the person.
LEMMA LoadsIfNew ==
    ASSUME Connecting, NEW c \in Code \union {NoOne}, NEW s \in Visitor \union {NoOne, "unknown"},
           url' = c, session' = s, LoadIfNew(c, s)
    PROVE  Connecting'
<1>1. CASE c = url /\ Login(s) = Login(session)
  <2>1. asked' = asked /\ loads' = loads /\ url' = url
    BY <1>1 DEF LoadIfNew
  <2>2. session' \in Visitor <=> session \in Visitor
    BY <1>1, WebAssumption DEF Login, Connecting
  <2> QED
    BY <2>1, <2>2 DEF Connecting, AsksAboutTheCode, LoadsAreCurrent
<1>2. CASE ~(c = url /\ Login(s) = Login(session))
  BY <1>2, LoadsAnew DEF LoadIfNew
<1> QED
  BY <1>1, <1>2

LEMMA SameAsked ==
    ASSUME Connecting, url' = url, session' = session, asked' = asked, loads' = loads
    PROVE  Connecting'
BY DEF Connecting, AsksAboutTheCode, LoadsAreCurrent

LEMMA ConnectingStep == ASSUME WebTypeOK, Connecting, ConnectStep PROVE Connecting'
<1>1. ASSUME NEW c \in Code \union {NoOne}, GoToCode(c) PROVE Connecting'
  <2>1. session \in Visitor \union {NoOne, "unknown"} /\ session' = session /\ url' = c /\ LoadIfNew(c, session)
    BY <1>1 DEF GoToCode, Connecting
  <2> QED
    BY <2>1, LoadsIfNew
<1>2. ASSUME Reload PROVE Connecting'
  <2>1. session \in Visitor \union {NoOne, "unknown"} /\ url \in Code \union {NoOne} /\ session' = session
        /\ url' = url /\ Load(url, session)
    BY <1>2 DEF Reload, Connecting
  <2> QED
    BY <2>1, LoadsAnew
<1>3. ASSUME NEW l \in loads, ServerShows(l) PROVE Connecting'
  <2>1. PICK said \in {"failed"} \union (IF cookie = NoOne \/ requests[l.of] = "gone" THEN {} ELSE {requests[l.of]}) :
            loads' = (loads \ {l}) \union {[l EXCEPT !.said = said]}
    BY <1>3 DEF ServerShows
  <2>2. l \in [of: Code, said: {"sent", "failed", "pending", "approved"}, aborted: BOOLEAN]
    BY <1>3 DEF Connecting
  <2>3. said \in {"sent", "failed", "pending", "approved"}
    BY <2>1, <2>2 DEF WebTypeOK
  <2>4. [l EXCEPT !.said = said] \in [of: Code, said: {"sent", "failed", "pending", "approved"}, aborted: BOOLEAN]
        /\ [l EXCEPT !.said = said].of = l.of /\ [l EXCEPT !.said = said].aborted = l.aborted
    BY <2>2, <2>3
  <2>5. asked' = asked /\ url' = url /\ session' = session
    BY <1>3 DEF ServerShows
  <2> QED
    BY <2>1, <2>4, <2>5 DEF Connecting, AsksAboutTheCode, LoadsAreCurrent
<1>4. ASSUME NEW l \in loads, LoadEnds(l) PROVE Connecting'
  <2>1. loads' = loads \ {l} /\ url' = url /\ session' = session
    BY <1>4 DEF LoadEnds
  <2>2. l \in [of: Code, said: {"sent", "failed", "pending", "approved"}, aborted: BOOLEAN] /\ l.said # "sent"
    BY <1>4 DEF Connecting, LoadEnds
  <2>3. CASE l.aborted
    <3>1. asked' = asked
      BY <1>4, <2>3 DEF LoadEnds, Dropped
    <3> QED
      BY <2>1, <3>1 DEF Connecting, AsksAboutTheCode, LoadsAreCurrent
  <2>4. CASE ~l.aborted
    <3>1. asked' = IF l.said = "failed" THEN [state |-> "error", of |-> l.of, shown |-> "nothing"]
                     ELSE [state |-> "ready", of |-> l.of, shown |-> l.said]
      BY <1>4, <2>4 DEF LoadEnds, Dropped
    <3>2. l.of = url
      BY <2>4 DEF Connecting, LoadsAreCurrent
    <3>3. asked'.of = url /\ asked' \in [state: {"loading", "ready", "error"}, of: Code \union {NoOne}, shown: Shown]
      BY <2>2, <3>1, <3>2 DEF Shown
    <3> QED
      BY <2>1, <3>3 DEF Connecting, AsksAboutTheCode, LoadsAreCurrent
  <2> QED
    BY <2>3, <2>4
<1>5. ASSUME AnswerArrives PROVE Connecting'
  <2>1. url' = url /\ session' = session
    BY <1>5 DEF AnswerArrives
  <2>2. CASE answering.said = "hidden"
    BY <1>5, <2>1, <2>2, LoadsAnew DEF AnswerArrives, Connecting
  <2>3. CASE answering.said # "hidden"
    BY <1>5, <2>1, <2>3, SameAsked DEF AnswerArrives
  <2> QED
    BY <2>2, <2>3
<1>6. ASSUME NEW s \in Visitor \union {NoOne}, WhoArrives(s) PROVE Connecting'
  <2>1. session' = s /\ url' = url /\ LoadIfNew(url, s) /\ url \in Code \union {NoOne}
    BY <1>6 DEF WhoArrives, Connecting
  <2> QED
    BY <2>1, LoadsIfNew
<1>7. ASSUME SignOutShown PROVE Connecting'
  <2>1. session' = NoOne /\ url' = url /\ LoadIfNew(url, NoOne) /\ url \in Code \union {NoOne}
    BY <1>7 DEF SignOutShown, Connecting
  <2> QED
    BY <2>1, LoadsIfNew
<1>8. ASSUME \/ \E approve \in BOOLEAN : SendAnswer(approve)
             \/ ServerDecides
             \/ \E c \in Code : RequestEnds(c)
             \/ ServerSaysWho
             \/ PageRestored \/ SignOutAtServer \/ OtherTab
      PROVE  Connecting'
  <2>1. url' = url /\ session' = session /\ asked' = asked /\ loads' = loads
    BY <1>8 DEF SendAnswer, ServerDecides, RequestEnds, ServerSaysWho, PageRestored, SignOutAtServer, OtherTab
  <2> QED
    BY <2>1, SameAsked
<1> QED
  BY <1>1, <1>2, <1>3, <1>4, <1>5, <1>6, <1>7, <1>8 DEF ConnectStep

\* The types of what else a step of the connect page changes.
LEMMA ConnectTypes == ASSUME WebTypeOK, Connecting', ConnectStep PROVE WebTypeOK'
<1> DEFINE Rest ==
        /\ cookie \in Visitor \union {NoOne}
        /\ me \in Visitor \union {NoOne, "none", "sent"}
        /\ leaving \in BOOLEAN
        /\ outcome \in {"none", "approved", "denied", "public"}
        /\ answering = NoOne
           \/ answering \in [code: Code, approve: BOOLEAN, said: {"sent", "approved", "denied", "public", "refused", "hidden"}]
        /\ requests \in [Code -> {"pending", "approved", "gone"}]
        /\ moves \in 0..MaxMoves
<1>1. SUFFICES Rest'
  <2>1. file' = file /\ first' = first /\ later' = later /\ fetches' = fetches
    BY DEF ConnectStep, GoToCode, Reload, ServerShows, LoadEnds, SendAnswer, ServerDecides, AnswerArrives, RequestEnds,
           ServerSaysWho, WhoArrives, PageRestored, SignOutAtServer, SignOutShown, OtherTab, fileVars
  <2> QED
    BY <2>1 DEF WebTypeOK, Connecting
<1>2. Rest /\ MaxMoves \in Nat
  BY WebAssumption DEF WebTypeOK
<1>3. ASSUME NEW c \in Code \union {NoOne}, GoToCode(c) PROVE Rest'
  BY <1>2, <1>3 DEF GoToCode
<1>4. ASSUME Reload PROVE Rest'
  BY <1>2, <1>4 DEF Reload
<1>5. ASSUME NEW l \in loads, ServerShows(l) \/ LoadEnds(l) PROVE Rest'
  BY <1>2, <1>5 DEF ServerShows, LoadEnds
<1>6. ASSUME NEW approve \in BOOLEAN, SendAnswer(approve) PROVE Rest'
  <2>1. url \in Code
    BY <1>6 DEF SendAnswer, Offers, WebTypeOK
  <2> QED
    BY <1>2, <1>6, <2>1 DEF SendAnswer
<1>7. ASSUME ServerDecides PROVE Rest'
  BY <1>2, <1>7 DEF ServerDecides
<1>8. ASSUME AnswerArrives PROVE Rest'
  BY <1>2, <1>8 DEF AnswerArrives
<1>9. ASSUME NEW c \in Code, RequestEnds(c) PROVE Rest'
  BY <1>2, <1>9 DEF RequestEnds
<1>10. ASSUME ServerSaysWho PROVE Rest'
  BY <1>2, <1>10 DEF ServerSaysWho
<1>11. ASSUME NEW s \in Visitor \union {NoOne}, WhoArrives(s) PROVE Rest'
  BY <1>2, <1>11 DEF WhoArrives
<1>12. ASSUME PageRestored PROVE Rest'
  BY <1>2, <1>12 DEF PageRestored
<1>13. ASSUME SignOutAtServer \/ SignOutShown PROVE Rest'
  BY <1>2, <1>13 DEF SignOutAtServer, SignOutShown
<1>14. ASSUME OtherTab PROVE Rest'
  BY <1>2, <1>14 DEF OtherTab
<1> QED
  BY <1>3, <1>4, <1>5, <1>6, <1>7, <1>8, <1>9, <1>10, <1>11, <1>12, <1>13, <1>14
  DEF ConnectStep

LEMMA NamedConnects == ASSUME AsNamed, ConnectStep PROVE AsNamed'
<1>1. Connecting
  BY DEF AsNamed, WebTypeOK, Connecting
<1>2. Connecting'
  BY <1>1, ConnectingStep DEF AsNamed
<1>3. WebTypeOK'
  BY <1>2, ConnectTypes DEF AsNamed
<1>4. later' = later /\ fetches' = fetches
  BY DEF ConnectStep, GoToCode, Reload, ServerShows, LoadEnds, SendAnswer, ServerDecides, AnswerArrives, RequestEnds,
         ServerSaysWho, WhoArrives, PageRestored, SignOutAtServer, SignOutShown, OtherTab, fileVars
<1>5. LaterFollowOn'
  BY <1>4 DEF AsNamed, LaterFollowOn
<1> QED
  BY <1>2, <1>3, <1>5 DEF AsNamed, Connecting

-----------------------------------------------------------------------------
(* The pages of a file *)

LEMMA OneMore ==
    ASSUME NEW f \in File, NEW texts \in Seq(File \X Nat), Onward(f, texts)
    PROVE  /\ Append(texts, <<f, Len(texts) + 2>>) \in Seq(File \X Nat)
           /\ Onward(f, Append(texts, <<f, Len(texts) + 2>>))
<1> DEFINE more == Append(texts, <<f, Len(texts) + 2>>)
<1>1. Len(texts) \in Nat /\ <<f, Len(texts) + 2>> \in File \X Nat
  OBVIOUS
<1>2. more \in Seq(File \X Nat) /\ Len(more) = Len(texts) + 1
  BY <1>1
<1>3. DOMAIN more = 1..Len(more)
  BY <1>2
<1>4. ASSUME NEW n \in 1..Len(more) PROVE more[n] = <<f, n + 1>>
  <2>1. CASE n = Len(texts) + 1
    BY <1>1, <2>1
  <2>2. CASE n # Len(texts) + 1
    <3>1. n \in 1..Len(texts) /\ more[n] = texts[n]
      BY <1>1, <1>2, <2>2
    <3>2. texts[n] = <<f, n + 1>>
      BY <3>1 DEF Onward
    <3> QED
      BY <3>1, <3>2
  <2> QED
    BY <2>1, <2>2
<1>5. more = [n \in 1..Len(more) |-> more[n]]
  BY <1>2, <1>3
<1>6. [n \in 1..Len(more) |-> more[n]] = [n \in 1..Len(more) |-> <<f, n + 1>>]
  BY <1>4
<1>7. more = [n \in 1..Len(more) |-> <<f, n + 1>>]
  BY <1>5, <1>6
<1> QED
  BY <1>2, <1>7 DEF Onward

LEMMA MoreOfIt ==
    ASSUME WebTypeOK, LaterFollowOn
    PROVE  More \in [of: File, pages: Seq(File \X Nat), loading: BOOLEAN] /\ More.of = file /\ Onward(file, More.pages)
<1>1. CASE later.of = file
  BY <1>1 DEF More, WebTypeOK, LaterFollowOn
<1>2. CASE later.of # file
  <2>1. More = [of |-> file, pages |-> <<>>, loading |-> FALSE]
    BY <1>2 DEF More
  <2>2. <<>> = [n \in 1..Len(<<>>) |-> <<file, n + 1>>]
    OBVIOUS
  <2> QED
    BY <2>1, <2>2 DEF WebTypeOK, Onward
<1> QED
  BY <1>1, <1>2

LEMMA NamedReads == ASSUME AsNamed, FileStep PROVE AsNamed'
<1> DEFINE Later == [of: File, pages: Seq(File \X Nat), loading: BOOLEAN]
<1> DEFINE Fetch == [of: File, had: Seq(File \X Nat), at: 0..MaxMoves]
<1> DEFINE Filed == /\ file \in File /\ first \in BOOLEAN /\ moves \in 0..MaxMoves
                    /\ later \in Later
                    /\ fetches \subseteq Fetch
                    /\ LaterFollowOn
<1>1. UNCHANGED connectVars
  BY DEF FileStep, GoToFile, FirstArrives, LoadNext, NextArrives, NextFails
<1>2. Filed
  BY DEF AsNamed, WebTypeOK
<1>3. SUFFICES Filed'
  BY <1>1 DEF AsNamed, WebTypeOK, connectVars, AsksAboutTheCode, LoadsAreCurrent
<1>4. ASSUME NEW f \in File, GoToFile(f) PROVE Filed'
  <2>1. file' = f /\ first' = FALSE /\ later' = later /\ fetches' = fetches /\ moves' = moves + 1 /\ moves < MaxMoves
    BY <1>4 DEF GoToFile
  <2>2. moves' \in 0..MaxMoves
    BY <1>2, <2>1, WebAssumption
  <2> QED
    BY <1>2, <2>1, <2>2 DEF LaterFollowOn
<1>5. ASSUME FirstArrives PROVE Filed'
  BY <1>2, <1>5 DEF FirstArrives, LaterFollowOn
<1>6. ASSUME LoadNext PROVE Filed'
  <2> DEFINE fetch == [of |-> file, had |-> More.pages, at |-> moves]
  <2>1. More \in Later /\ More.of = file /\ Onward(file, More.pages)
    BY MoreOfIt DEF AsNamed
  <2>2. later' = [More EXCEPT !.loading = TRUE] /\ fetches' = fetches \union {fetch}
    BY <1>6 DEF LoadNext
  <2>3. later' \in Later /\ later'.of = file /\ later'.pages = More.pages
    BY <2>1, <2>2
  <2>4. fetch \in Fetch /\ Onward(fetch.of, fetch.had)
    BY <1>2, <2>1
  <2> HIDE DEF fetch
  <2>5. LaterFollowOn'
    BY <1>2, <2>1, <2>2, <2>3, <2>4 DEF LaterFollowOn
  <2> QED
    BY <1>2, <1>6, <2>2, <2>3, <2>4, <2>5 DEF LoadNext
<1>7. ASSUME NEW f \in fetches, NextArrives(f) PROVE Filed'
  <2> DEFINE more == Append(f.had, <<f.of, Len(f.had) + 2>>)
  <2>1. later' = [of |-> f.of, pages |-> more, loading |-> FALSE] /\ fetches' = fetches \ {f}
    BY <1>7 DEF NextArrives
  <2>2. f \in Fetch /\ Onward(f.of, f.had)
    BY <1>2 DEF LaterFollowOn
  <2>3. more \in Seq(File \X Nat) /\ Onward(f.of, more)
    BY <2>2, OneMore
  <2> HIDE DEF more
  <2>4. later' \in Later /\ LaterFollowOn'
    BY <1>2, <2>1, <2>2, <2>3 DEF LaterFollowOn
  <2> QED
    BY <1>2, <1>7, <2>1, <2>4 DEF NextArrives
<1>8. ASSUME NEW f \in fetches, NextFails(f) PROVE Filed'
  <2>1. later' = [of |-> f.of, pages |-> f.had, loading |-> FALSE] /\ fetches' = fetches \ {f}
    BY <1>8 DEF NextFails
  <2>2. f \in Fetch /\ Onward(f.of, f.had)
    BY <1>2 DEF LaterFollowOn
  <2>3. later' \in Later /\ LaterFollowOn'
    BY <1>2, <2>1, <2>2 DEF LaterFollowOn
  <2> QED
    BY <1>2, <1>8, <2>1, <2>3 DEF NextFails
<1> QED
  BY <1>4, <1>5, <1>6, <1>7, <1>8 DEF FileStep

\* The first page, and those after it.
LEMMA FollowOn == ASSUME AsNamed PROVE PagesFollowOn
<1>1. More \in [of: File, pages: Seq(File \X Nat), loading: BOOLEAN] /\ Onward(file, More.pages)
  BY MoreOfIt DEF AsNamed
<1> DEFINE rest == More.pages
<1> HIDE DEF rest
<1>2. rest \in Seq(File \X Nat) /\ rest = [n \in 1..Len(rest) |-> <<file, n + 1>>]
  BY <1>1 DEF Onward, rest
<1>3. CASE first
  <2> DEFINE all == <<<<file, 1>>>> \o rest
  <2>1. FilePages = all
    BY <1>3 DEF FilePages, rest
  <2>2. file \in File
    BY DEF AsNamed, WebTypeOK
  <2>3. <<<<file, 1>>>> \in Seq(File \X Nat) /\ Len(<<<<file, 1>>>>) = 1
    BY <2>2
  <2>4. all \in Seq(File \X Nat) /\ Len(all) = Len(rest) + 1 /\ Len(rest) \in Nat
    BY <1>2, <2>3
  <2>5. ASSUME NEW n \in 1..Len(all) PROVE all[n] = <<file, n>>
    <3>1. CASE n = 1
      BY <1>2, <2>3, <3>1
    <3>2. CASE n # 1
      <4>1. n - 1 \in 1..Len(rest) /\ all[n] = rest[n - 1]
        BY <1>2, <2>3, <2>4, <3>2
      <4>2. rest[n - 1] = <<file, (n - 1) + 1>>
        BY <1>2, <4>1
      <4> QED
        BY <4>1, <4>2
    <3> QED
      BY <3>1, <3>2
  <2>6. all = [n \in 1..Len(all) |-> all[n]]
    BY <2>4
  <2>7. [n \in 1..Len(all) |-> all[n]] = [n \in 1..Len(all) |-> <<file, n>>]
    BY <2>5
  <2> HIDE DEF all
  <2> QED
    BY <2>1, <2>6, <2>7 DEF PagesFollowOn
<1>4. CASE ~first
  <2>1. FilePages = <<>>
    BY <1>4 DEF FilePages
  <2>2. <<>> = [n \in 1..Len(<<>>) |-> <<file, n>>]
    OBVIOUS
  <2> QED
    BY <2>1, <2>2 DEF PagesFollowOn
<1> QED
  BY <1>3, <1>4 DEF AsNamed, WebTypeOK

LEMMA NamedInit == WebPagesInit => AsNamed
<1> SUFFICES ASSUME WebPagesInit PROVE AsNamed
  OBVIOUS
<1>1. "unknown" \notin Visitor /\ MaxMoves \in Nat
  BY WebAssumption
<1>2. <<>> \in Seq(File \X Nat)
  OBVIOUS
<1>3. WebTypeOK
  <2>1. asked \in [state: {"loading", "ready", "error"}, of: Code \union {NoOne}, shown: Shown]
    BY DEF WebPagesInit, NothingAsked, Shown
  <2>2. later \in [of: File, pages: Seq(File \X Nat), loading: BOOLEAN] /\ file \in File
    BY <1>2 DEF WebPagesInit
  <2>3. requests \in [Code -> {"pending", "approved", "gone"}] /\ moves \in 0..MaxMoves
    BY <1>1 DEF WebPagesInit
  <2> QED
    BY <2>1, <2>2, <2>3 DEF WebPagesInit, WebTypeOK
<1>4. AsksAboutTheCode /\ LoadsAreCurrent
  BY <1>1 DEF WebPagesInit, AsksAboutTheCode, LoadsAreCurrent
<1>5. <<>> = [n \in 1..Len(<<>>) |-> <<file, n + 1>>]
  OBVIOUS
<1>6. LaterFollowOn
  BY <1>5 DEF WebPagesInit, LaterFollowOn, Onward
<1> QED
  BY <1>3, <1>4, <1>6 DEF AsNamed

LEMMA NamedStep == AsNamed /\ [WebPagesNext]_pages => AsNamed'
<1>1. ASSUME AsNamed, UNCHANGED pages PROVE AsNamed'
  BY <1>1 DEF AsNamed, WebTypeOK, AsksAboutTheCode, LoadsAreCurrent, LaterFollowOn, pages, connectVars, fileVars
<1> QED
  BY <1>1, NamedConnects, NamedReads DEF WebPagesNext

\* Whatever is on its way when a person goes elsewhere and back, the connect page asks them about the
\* request of the code in the URL (connect.tsx ConnectPage over useResource), and the page of a file
\* shows that file's pages, in order, each once (mount-file.tsx).
THEOREM NamedIsShown == WebPagesSpec => []ShowsWhatIsNamed
<1>1. AsNamed => ShowsWhatIsNamed
  BY FollowOn DEF AsNamed, ShowsWhatIsNamed
<1> QED
  BY <1>1, NamedInit, NamedStep, PTL DEF WebPagesSpec

-----------------------------------------------------------------------------
(* A directory that is served: what is read of it *)

WatchTypes ==
    /\ meaning \in BOOLEAN /\ disk \in [at: Nat, files: SUBSET Body]
    /\ serving \in {"mounted", "watched", "closed"} /\ inMemory \subseteq Body
    /\ reload \in [on: BOOLEAN, left: SUBSET Body, got: SUBSET Body]
    /\ {again, timer, heard, statting, unseen, unread} \subseteq BOOLEAN
    /\ watcher \in Nat /\ identity \in Nat /\ looks \subseteq [first: BOOLEAN, saw: Nat]
    /\ changes \in 0..MaxChanges

\* A change that somebody will see to.
ToBeRead == heard \/ timer \/ again

NotYetServed ==
    serving = "mounted" =>
        watcher = 0 /\ ~ToBeRead /\ ~reload.on /\ looks = {} /\ ~statting /\ ~unread

ReadAgain == again => reload.on

\* What is not yet to be read again is what a read has got so far, or what was read.
UpToDate ==
    ~unseen /\ serving # "closed" =>
        \/ ToBeRead
        \/ reload.on /\ reload.got = disk.files \ reload.left
        \/ ~reload.on /\ (unread \/ inMemory = disk.files)

Watched == WatchTypes /\ NotYetServed /\ ReadAgain /\ UpToDate

LEMMA Reads ==
    /\ Reading \in [on: BOOLEAN, left: SUBSET Body, got: SUBSET Body]
    /\ NotReading \in [on: BOOLEAN, left: SUBSET Body, got: SUBSET Body]
    /\ Reading.on /\ Reading.left = Body /\ Reading.got = {}
    /\ ~NotReading.on
BY DEF Reading, NotReading

LEMMA WatchedInit == LocalInit => Watched
<1> SUFFICES ASSUME LocalInit PROVE Watched
  OBVIOUS
<1>1. PICK files \in SUBSET Body : disk = [at |-> 1, files |-> files] /\ inMemory = files
  BY DEF LocalInit
<1>2. WatchTypes
  <2>1. disk \in [at: Nat, files: SUBSET Body] /\ inMemory \subseteq Body
    BY <1>1
  <2>2. reload \in [on: BOOLEAN, left: SUBSET Body, got: SUBSET Body]
    BY Reads DEF LocalInit
  <2>3. changes \in 0..MaxChanges /\ meaning \in BOOLEAN
    BY LocalAssumption DEF LocalInit
  <2> QED
    BY <2>1, <2>2, <2>3 DEF LocalInit, WatchTypes
<1> QED
  BY <1>1, <1>2 DEF LocalInit, Watched, NotYetServed, ReadAgain, UpToDate, ToBeRead, NotReading

LEMMA Arms ==
    ASSUME WatchTypes, Arm
    PROVE  watcher' \in Nat /\ (watcher' = disk.at \/ watcher' = 0)
BY DEF Arm, WatchTypes

LEMMA ReadsNext ==
    ASSUME WatchTypes, ReadAgain, NextRead
    PROVE  /\ reload' \in [on: BOOLEAN, left: SUBSET Body, got: SUBSET Body] /\ again' \in BOOLEAN
           /\ ~again'
           /\ again => reload'.on /\ reload'.got = {} /\ reload'.left = Body
           /\ ~again => ~reload'.on
<1>1. again \in BOOLEAN
  BY DEF WatchTypes
<1>2. CASE again
  BY <1>2, Reads DEF NextRead
<1>3. CASE ~again
  BY <1>1, <1>3, Reads DEF NextRead
<1> QED
  BY <1>2, <1>3

LEMMA WatchedServe == ASSUME Watched, ServeDirectory PROVE Watched'
<1>1. WatchTypes'
  BY Arms DEF Watched, ServeDirectory, WatchTypes
<1> QED
  BY <1>1 DEF Watched, ServeDirectory, NotYetServed, ReadAgain, UpToDate, ToBeRead

LEMMA WatchedChanges == ASSUME Watched, DiskChanges PROVE Watched'
<1>1. disk' \in [at: Nat, files: SUBSET Body] /\ (disk'.at = disk.at => disk.at # 0)
  <2>0. disk \in [at: Nat, files: SUBSET Body] /\ changes \in Nat
    BY LocalAssumption DEF Watched, WatchTypes
  <2>1. ASSUME NEW b \in Body, disk.at # 0,
               disk' = [disk EXCEPT !.files = IF b \in @ THEN @ \ {b} ELSE @ \union {b}]
        PROVE  disk' \in [at: Nat, files: SUBSET Body] /\ disk.at # 0
    BY <2>0, <2>1
  <2>2. ASSUME disk.at # 0, disk' = [at |-> 0, files |-> {}]
        PROVE  disk' \in [at: Nat, files: SUBSET Body] /\ disk.at # 0
    BY <2>2
  <2>3. ASSUME NEW files \in SUBSET Body, disk.at # changes + 2, disk' = [at |-> changes + 2, files |-> files]
        PROVE  disk' \in [at: Nat, files: SUBSET Body] /\ disk'.at # disk.at
    BY <2>0, <2>3
  <2> QED
    BY <2>1, <2>2, <2>3 DEF DiskChanges
<1>2. heard' \in BOOLEAN /\ unseen' \in BOOLEAN
  BY DEF DiskChanges
<1>3. changes' \in 0..MaxChanges
  BY LocalAssumption DEF Watched, WatchTypes, DiskChanges
<1>4. WatchTypes'
  BY <1>1, <1>2, <1>3 DEF Watched, WatchTypes, DiskChanges
<1>5. ~unseen' => heard'
  BY <1>1 DEF DiskChanges
<1>6. NotYetServed'
  <2>1. serving = "mounted" => ~heard'
    BY DEF Watched, NotYetServed, ToBeRead, DiskChanges
  <2> QED
    BY <2>1 DEF Watched, NotYetServed, ToBeRead, DiskChanges
<1> QED
  BY <1>4, <1>5, <1>6 DEF Watched, DiskChanges, ReadAgain, UpToDate, ToBeRead

LEMMA WatchedHears == ASSUME Watched, Hears PROVE Watched'
<1>1. timer' \in BOOLEAN /\ (serving = "watched" => timer')
  BY DEF Hears
<1>2. serving # "mounted"
  BY DEF Watched, NotYetServed, ToBeRead, Hears
<1> QED
  BY <1>1, <1>2 DEF Watched, Hears, WatchTypes, NotYetServed, ReadAgain, UpToDate, ToBeRead

LEMMA WatchedFires == ASSUME Watched, TimerFires PROVE Watched'
<1>1. serving # "mounted"
  BY DEF Watched, NotYetServed, ToBeRead, TimerFires
<1>2. /\ reload' \in [on: BOOLEAN, left: SUBSET Body, got: SUBSET Body] /\ again' \in BOOLEAN
      /\ reload'.on
      /\ again' \/ (reload'.got = {} /\ reload'.left = Body)
  BY Reads DEF Watched, WatchTypes, TimerFires
<1>3. disk.files \subseteq Body
  BY DEF Watched, WatchTypes
<1> QED
  BY <1>1, <1>2, <1>3 DEF Watched, TimerFires, WatchTypes, NotYetServed, ReadAgain, UpToDate, ToBeRead

LEMMA WatchedReads == ASSUME Watched, NEW b \in Body, ReadFile(b) PROVE Watched'
<1>1. /\ reload' \in [on: BOOLEAN, left: SUBSET Body, got: SUBSET Body]
      /\ reload'.on = reload.on /\ reload'.left = reload.left \ {b}
      /\ reload'.got = IF b \in disk.files THEN reload.got \union {b} ELSE reload.got
      /\ reload.on /\ b \in reload.left
  BY DEF Watched, WatchTypes, ReadFile
<1>2. reload.got = disk.files \ reload.left => reload'.got = disk.files \ reload'.left
  BY <1>1
<1> QED
  BY <1>1, <1>2 DEF Watched, ReadFile, WatchTypes, NotYetServed, ReadAgain, UpToDate, ToBeRead

LEMMA WatchedEnds == ASSUME Watched, ReadEnds PROVE Watched'
<1>1. /\ reload' \in [on: BOOLEAN, left: SUBSET Body, got: SUBSET Body] /\ again' \in BOOLEAN
      /\ ~again'
      /\ again => reload'.on /\ reload'.got = {} /\ reload'.left = Body
      /\ ~again => ~reload'.on
  BY ReadsNext DEF Watched, ReadEnds
<1>2. serving # "mounted" /\ disk.files \subseteq Body /\ reload.got \subseteq Body /\ inMemory' = reload.got
  BY DEF Watched, WatchTypes, NotYetServed, ReadEnds
<1>3. WatchTypes'
  BY <1>1, <1>2 DEF Watched, WatchTypes, ReadEnds
<1> QED
  BY <1>1, <1>2, <1>3 DEF Watched, ReadEnds, NotYetServed, ReadAgain, UpToDate, ToBeRead

LEMMA WatchedFails == ASSUME Watched, ReadFails PROVE Watched'
<1>1. /\ reload' \in [on: BOOLEAN, left: SUBSET Body, got: SUBSET Body] /\ again' \in BOOLEAN
      /\ ~again'
      /\ again => reload'.on /\ reload'.got = {} /\ reload'.left = Body
      /\ ~again => ~reload'.on
  BY ReadsNext DEF Watched, ReadFails
<1>2. serving # "mounted" /\ disk.files \subseteq Body
  BY DEF Watched, WatchTypes, NotYetServed, ReadFails
<1> QED
  BY <1>1, <1>2 DEF Watched, WatchTypes, ReadFails, NotYetServed, ReadAgain, UpToDate, ToBeRead

LEMMA WatchedLooks ==
    ASSUME Watched, \/ \E first_ \in BOOLEAN : Stat(first_)
                    \/ \E look \in looks : FirstLook(look)
    PROVE  Watched'
<1>1. ASSUME NEW first_ \in BOOLEAN, Stat(first_) PROVE Watched'
  <2>1. serving # "mounted"
    BY <1>1 DEF Watched, NotYetServed, Stat
  <2>2. looks' \subseteq [first: BOOLEAN, saw: Nat] /\ statting' \in BOOLEAN
    BY <1>1 DEF Watched, WatchTypes, Stat
  <2> QED
    BY <1>1, <2>1, <2>2 DEF Watched, WatchTypes, Stat, NotYetServed, ReadAgain, UpToDate, ToBeRead
<1>2. ASSUME NEW look \in looks, FirstLook(look) PROVE Watched'
  <2>1. serving # "mounted"
    BY <1>2 DEF Watched, NotYetServed, FirstLook
  <2>2. looks' \subseteq [first: BOOLEAN, saw: Nat] /\ identity' \in Nat
    BY <1>2 DEF Watched, WatchTypes, FirstLook
  <2> QED
    BY <1>2, <2>1, <2>2 DEF Watched, WatchTypes, FirstLook, NotYetServed, ReadAgain, UpToDate, ToBeRead
<1> QED
  BY <1>1, <1>2

LEMMA WatchedChecks == ASSUME Watched, NEW look \in looks, LivenessCheck(look) PROVE Watched'
<1>1. serving # "mounted"
  BY DEF Watched, NotYetServed, LivenessCheck
<1>2. looks' \subseteq [first: BOOLEAN, saw: Nat] /\ look.saw \in Nat
  BY DEF Watched, WatchTypes, LivenessCheck
<1>3. /\ watcher' \in Nat /\ identity' \in Nat /\ timer' \in BOOLEAN /\ unseen' \in BOOLEAN
      /\ timer => timer'
      /\ unseen /\ ~unseen' => timer'
  BY <1>2, Arms DEF Watched, WatchTypes, LivenessCheck
<1> QED
  BY <1>1, <1>2, <1>3 DEF Watched, WatchTypes, LivenessCheck, NotYetServed, ReadAgain, UpToDate, ToBeRead

LEMMA WatchedStops == ASSUME Watched, WatcherFails \/ Stop PROVE Watched'
<1>1. CASE WatcherFails
  <2>1. WatchTypes'
    BY <1>1 DEF Watched, WatchTypes, WatcherFails
  <2> QED
    BY <1>1, <2>1 DEF Watched, WatcherFails, NotYetServed, ReadAgain, UpToDate, ToBeRead
<1>2. CASE Stop
  <2>1. WatchTypes'
    BY <1>2 DEF Watched, WatchTypes, Stop
  <2> QED
    BY <1>2, <2>1 DEF Watched, Stop, NotYetServed, ReadAgain, UpToDate, ToBeRead
<1> QED
  BY <1>1, <1>2

LEMMA WatchedStep == Watched /\ [LocalNext]_localPack => Watched'
<1>1. ASSUME Watched, UNCHANGED <<meaning, watchVars, changes>> PROVE Watched'
  BY <1>1 DEF Watched, WatchTypes, NotYetServed, ReadAgain, UpToDate, ToBeRead, watchVars
<1>2. MeaningStep \/ UNCHANGED localPack => UNCHANGED <<meaning, watchVars, changes>>
  BY DEF MeaningStep, LookFor, TakeNext, Embedded, StopsShort, CallFails, Written, PassEnds, localPack
<1> QED
  BY <1>1, <1>2, WatchedServe, WatchedChanges, WatchedHears, WatchedFires, WatchedReads, WatchedEnds, WatchedFails,
     WatchedLooks, WatchedChecks, WatchedStops DEF LocalNext, WatchStep

-----------------------------------------------------------------------------
(* What is searched of it *)

MeaningTypes ==
    /\ {vectors, cache, latest, pending} \subseteq SUBSET Body
    /\ passes \subseteq Pass /\ IsFiniteSet(passes)
    /\ {stopped, troubled} \subseteq BOOLEAN

\* Whatever is being embedded is in the hands of a pass.
InHand == \A b \in pending : \E pass \in passes : b \in pass.embedding \union pass.writing

NotStopped == serving # "closed" => ~stopped

OnItsWay(b) ==
    \/ b \in vectors \union cache \union pending
    \/ \E pass \in passes : ~pass.failed /\ b \in pass.left \union pass.missing

\* The embedding is of what is served; nothing is lost on the way of a body the index names.
Searched ==
    meaning /\ serving = "watched" =>
        /\ latest = inMemory
        /\ passes = {} => vectors \subseteq latest
        /\ ~troubled => \A b \in latest : OnItsWay(b)

Meant == MeaningTypes /\ InHand /\ NotStopped /\ Searched

LEMMA MeantInit == LocalInit => Meant
<1> SUFFICES ASSUME LocalInit PROVE Meant
  OBVIOUS
<1>1. cache \subseteq Body
  BY DEF LocalInit
<1>2. IsFiniteSet(passes)
  BY FS_EmptySet DEF LocalInit
<1> QED
  BY <1>1, <1>2 DEF LocalInit, Meant, MeaningTypes, InHand, NotStopped, Searched

\* A number no pass has.
LEMMA FreshNumber ==
    ASSUME IsFiniteSet(passes)
    PROVE  \E n \in 1..Cardinality(passes) + 1 : \A pass \in passes : pass.of # n
<1> DEFINE k == Cardinality(passes)
<1> DEFINE taken == {pass.of : pass \in passes}
<1>1. k \in Nat
  BY FS_CardinalityType
<1>2. IsFiniteSet(taken) /\ Cardinality(taken) <= k
  <2>1. [pass \in passes |-> pass.of] \in Surjection(passes, taken)
    BY DEF Surjection
  <2> QED
    BY <2>1, FS_Surjection
<1>3. SUFFICES ASSUME 1..k + 1 \subseteq taken PROVE FALSE
  OBVIOUS
<1>4. Cardinality(1..k + 1) = k + 1
  BY <1>1, FS_Interval
<1>5. Cardinality(1..k + 1) <= Cardinality(taken)
  BY <1>2, <1>3, FS_Subset
<1>6. Cardinality(taken) \in Nat
  BY <1>2, FS_CardinalityType
<1> QED
  BY <1>1, <1>2, <1>4, <1>5, <1>6

\* A pass begins with all that the index names.
LEMMA PassBegins ==
    ASSUME MeaningTypes, InHand, meaning \in BOOLEAN, NEW fs \in SUBSET Body, BeginPass(fs)
    PROVE  /\ MeaningTypes' /\ InHand'
           /\ stopped' = stopped
           /\ meaning => latest' = fs /\ passes' # {} /\ \A b \in fs : OnItsWay(b)'
<1>1. CASE ~meaning
  BY <1>1 DEF BeginPass, MeaningTypes, InHand, meaningVars
<1>2. CASE meaning
  <2> DEFINE n == CHOOSE n \in 1..Cardinality(passes) + 1 : \A pass \in passes : pass.of # n
  <2> DEFINE new == [of |-> n, left |-> fs, missing |-> {}, embedding |-> {}, writing |-> {}, failed |-> FALSE]
  <2>1. n \in 1..Cardinality(passes) + 1
    BY FreshNumber DEF MeaningTypes
  <2>2. n \in Nat
    BY <2>1, FS_CardinalityType DEF MeaningTypes
  <2>3. /\ latest' = fs /\ passes' = passes \union {new} /\ troubled' = FALSE
        /\ vectors' = vectors /\ cache' = cache /\ pending' = pending /\ stopped' = stopped
    BY <1>2 DEF BeginPass
  <2> HIDE DEF n
  <2>4. new \in Pass /\ new.left = fs /\ ~new.failed
    BY <2>2 DEF Pass
  <2> HIDE DEF new
  <2>5. IsFiniteSet(passes')
    BY <2>3, FS_AddElement DEF MeaningTypes
  <2>6. MeaningTypes'
    BY <2>3, <2>4, <2>5 DEF MeaningTypes
  <2>7. InHand'
    BY <2>3 DEF InHand
  <2>8. new \in passes'
    BY <2>3
  <2> QED
    BY <2>3, <2>4, <2>6, <2>7, <2>8 DEF OnItsWay
<1> QED
  BY <1>1, <1>2

\* A pass goes on: it holds on to what it takes, and lets go of nothing that has not arrived.
LEMMA PassGoesOn ==
    ASSUME Meant, NEW pass \in passes, NEW to \in Pass, Change(pass, to),
           meaning' = meaning, serving' = serving, inMemory' = inMemory, latest' = latest, stopped' = stopped,
           vectors' \subseteq Body, cache' \subseteq Body, pending' \subseteq Body, troubled' \in BOOLEAN,
           \A b \in pending' : \/ b \in to.embedding \union to.writing
                               \/ b \in pending /\ b \notin pass.embedding \union pass.writing,
           serving = "watched" /\ ~troubled' =>
               /\ ~troubled
               /\ vectors \union cache \union pending \subseteq vectors' \union cache' \union pending'
               /\ ~pass.failed => /\ ~to.failed
                                  /\ pass.left \union pass.missing \subseteq
                                        to.left \union to.missing \union vectors' \union cache' \union pending'
    PROVE  Meant'
<1>1. passes' = (passes \ {pass}) \union {to}
  BY DEF Change
<1>2. IsFiniteSet(passes')
  BY <1>1, FS_AddElement, FS_RemoveElement DEF Meant, MeaningTypes
<1>3. MeaningTypes'
  BY <1>1, <1>2 DEF Meant, MeaningTypes
<1>4. InHand'
  <2> SUFFICES ASSUME NEW b \in pending' PROVE \E q \in passes' : b \in q.embedding \union q.writing
    BY DEF InHand
  <2>1. CASE b \in to.embedding \union to.writing
    BY <1>1, <2>1
  <2>2. CASE b \in pending /\ b \notin pass.embedding \union pass.writing
    <3>1. PICK q \in passes : b \in q.embedding \union q.writing
      BY <2>2 DEF Meant, InHand
    <3>2. q \in passes'
      BY <1>1, <2>2, <3>1
    <3> QED
      BY <3>1, <3>2
  <2> QED
    BY <2>1, <2>2
<1>5. passes' # {} /\ to \in passes'
  BY <1>1
<1>6. ASSUME meaning, serving = "watched", ~troubled', NEW b \in latest PROVE OnItsWay(b)'
  <2>1. OnItsWay(b)
    BY <1>6 DEF Meant, Searched
  <2>2. CASE b \in vectors \union cache \union pending
    BY <1>6, <2>2 DEF OnItsWay
  <2>3. ASSUME NEW q \in passes, ~q.failed, b \in q.left \union q.missing PROVE OnItsWay(b)'
    <3>1. CASE q = pass
      BY <1>5, <1>6, <2>3, <3>1 DEF OnItsWay
    <3>2. CASE q # pass
      BY <1>1, <2>3, <3>2 DEF OnItsWay
    <3> QED
      BY <3>1, <3>2
  <2> QED
    BY <2>1, <2>2, <2>3 DEF OnItsWay
<1>7. Searched'
  BY <1>5, <1>6 DEF Meant, Searched
<1> QED
  BY <1>3, <1>4, <1>7 DEF Meant, NotStopped

LEMMA MeantUntouched ==
    ASSUME Meant, UNCHANGED <<meaning, serving, inMemory, meaningVars>>
    PROVE  Meant'
BY DEF Meant, MeaningTypes, InHand, NotStopped, Searched, OnItsWay, meaningVars

LEMMA MeantLooks == ASSUME Meant, NEW pass \in passes, NEW b \in Body, LookFor(pass, b) PROVE Meant'
<1> DEFINE seen == [pass EXCEPT !.left = @ \ {b}]
<1> DEFINE missed == [seen EXCEPT !.missing = @ \union {b}]
<1>1. pass \in Pass /\ vectors \subseteq Body /\ cache \subseteq Body /\ pending \subseteq Body /\ troubled \in BOOLEAN
  BY DEF Meant, MeaningTypes
<1>2. /\ seen \in Pass /\ seen.left = pass.left \ {b} /\ seen.missing = pass.missing
      /\ seen.embedding = pass.embedding /\ seen.writing = pass.writing /\ seen.failed = pass.failed
  BY <1>1 DEF Pass
<1>3. /\ missed \in Pass /\ missed.left = pass.left \ {b} /\ missed.missing = pass.missing \union {b}
      /\ missed.embedding = pass.embedding /\ missed.writing = pass.writing /\ missed.failed = pass.failed
  BY <1>1 DEF Pass
<1>4. UNCHANGED <<meaning, serving, inMemory, latest, stopped, cache, pending, troubled>>
  BY DEF LookFor, watchVars
<1>5. CASE b \in vectors \union pending \union cache
  <2>1. /\ Change(pass, seen)
        /\ vectors' = IF b \in pending \ vectors THEN vectors ELSE vectors \union {b}
    BY <1>5 DEF LookFor
  <2>2. vectors' \subseteq Body /\ vectors \subseteq vectors'
    BY <1>1, <2>1
  <2> HIDE DEF seen
  <2> QED
    BY <1>1, <1>2, <1>4, <1>5, <2>1, <2>2, PassGoesOn
<1>6. CASE b \notin vectors \union pending \union cache
  <2>1. Change(pass, missed) /\ vectors' = vectors
    BY <1>6 DEF LookFor
  <2> HIDE DEF missed
  <2> QED
    BY <1>1, <1>3, <1>4, <2>1, PassGoesOn
<1> QED
  BY <1>5, <1>6

LEMMA MeantTakes == ASSUME Meant, NEW pass \in passes, NEW b \in Body, TakeNext(pass, b) PROVE Meant'
<1> DEFINE taken == [pass EXCEPT !.missing = @ \ {b}]
<1> DEFINE held == [taken EXCEPT !.embedding = @ \union {b}]
<1>1. pass \in Pass /\ vectors \subseteq Body /\ cache \subseteq Body /\ pending \subseteq Body /\ troubled \in BOOLEAN
  BY DEF Meant, MeaningTypes
<1>2. /\ taken \in Pass /\ taken.left = pass.left /\ taken.missing = pass.missing \ {b}
      /\ taken.embedding = pass.embedding /\ taken.writing = pass.writing /\ taken.failed = pass.failed
  BY <1>1 DEF Pass
<1>3. /\ held \in Pass /\ held.left = pass.left /\ held.missing = pass.missing \ {b}
      /\ held.embedding = pass.embedding \union {b} /\ held.writing = pass.writing /\ held.failed = pass.failed
  BY <1>1 DEF Pass
<1>4. UNCHANGED <<meaning, serving, inMemory, latest, stopped, cache, vectors, troubled>>
  BY DEF TakeNext, watchVars
<1>5. CASE b \in pending \union vectors
  <2>1. Change(pass, taken) /\ pending' = pending
    BY <1>5 DEF TakeNext
  <2> HIDE DEF taken
  <2> QED
    BY <1>1, <1>2, <1>4, <1>5, <2>1, PassGoesOn
<1>6. CASE b \notin pending \union vectors
  <2>1. Change(pass, held) /\ pending' = pending \union {b}
    BY <1>6 DEF TakeNext
  <2> HIDE DEF held
  <2>2. \A x \in pending' : \/ x \in held.embedding \union held.writing
                            \/ x \in pending /\ x \notin pass.embedding \union pass.writing
    BY <1>3, <2>1
  <2> QED
    BY <1>1, <1>3, <1>4, <2>1, <2>2, PassGoesOn
<1> QED
  BY <1>5, <1>6

LEMMA MeantEmbeds == ASSUME Meant, NEW pass \in passes, NEW b \in Body, Embedded(pass, b) PROVE Meant'
<1> DEFINE to == [pass EXCEPT !.embedding = @ \ {b}, !.writing = @ \union {b}]
<1>1. pass \in Pass /\ vectors \subseteq Body /\ cache \subseteq Body /\ pending \subseteq Body /\ troubled \in BOOLEAN
  BY DEF Meant, MeaningTypes
<1>2. /\ to \in Pass /\ to.left = pass.left /\ to.missing = pass.missing
      /\ to.embedding = pass.embedding \ {b} /\ to.writing = pass.writing \union {b} /\ to.failed = pass.failed
  BY <1>1 DEF Pass
<1>3. UNCHANGED <<meaning, serving, inMemory, latest, stopped, cache, pending, troubled>>
      /\ Change(pass, to) /\ vectors' = vectors \union {b}
  BY DEF Embedded, watchVars
<1> HIDE DEF to
<1> QED
  BY <1>1, <1>2, <1>3, PassGoesOn

LEMMA MeantStops == ASSUME Meant, NEW pass \in passes, NEW b \in Body, StopsShort(pass, b) PROVE Meant'
<1> DEFINE to == [pass EXCEPT !.embedding = @ \ {b}]
<1>1. pass \in Pass /\ vectors \subseteq Body /\ cache \subseteq Body /\ pending \subseteq Body /\ troubled \in BOOLEAN
  BY DEF Meant, MeaningTypes
<1>2. /\ to \in Pass /\ to.left = pass.left /\ to.missing = pass.missing
      /\ to.embedding = pass.embedding \ {b} /\ to.writing = pass.writing /\ to.failed = pass.failed
  BY <1>1 DEF Pass
<1>3. UNCHANGED <<meaning, serving, inMemory, latest, stopped, cache, vectors, troubled>>
      /\ Change(pass, to) /\ pending' = pending \ {b}
  BY DEF StopsShort, watchVars
<1>4. serving # "watched"
  BY DEF StopsShort, Meant, NotStopped
<1> HIDE DEF to
<1> QED
  BY <1>1, <1>2, <1>3, <1>4, PassGoesOn

LEMMA MeantCallFails == ASSUME Meant, NEW pass \in passes, NEW b \in Body, CallFails(pass, b) PROVE Meant'
<1> DEFINE to == [pass EXCEPT !.embedding = @ \ {b}, !.failed = TRUE]
<1>1. pass \in Pass /\ vectors \subseteq Body /\ cache \subseteq Body /\ pending \subseteq Body
  BY DEF Meant, MeaningTypes
<1>2. to \in Pass /\ to.embedding = pass.embedding \ {b} /\ to.writing = pass.writing
  BY <1>1 DEF Pass
<1>3. UNCHANGED <<meaning, serving, inMemory, latest, stopped, cache, vectors>>
      /\ Change(pass, to) /\ pending' = pending \ {b} /\ troubled' = TRUE
  BY DEF CallFails, watchVars
<1> HIDE DEF to
<1> QED
  BY <1>1, <1>2, <1>3, PassGoesOn

LEMMA MeantWrites == ASSUME Meant, NEW pass \in passes, NEW b \in Body, Written(pass, b) PROVE Meant'
<1> DEFINE to == [pass EXCEPT !.writing = @ \ {b}]
<1>1. pass \in Pass /\ vectors \subseteq Body /\ cache \subseteq Body /\ pending \subseteq Body /\ troubled \in BOOLEAN
  BY DEF Meant, MeaningTypes
<1>2. /\ to \in Pass /\ to.left = pass.left /\ to.missing = pass.missing
      /\ to.embedding = pass.embedding /\ to.writing = pass.writing \ {b} /\ to.failed = pass.failed
  BY <1>1 DEF Pass
<1>3. /\ UNCHANGED <<meaning, serving, inMemory, latest, stopped, vectors>>
      /\ Change(pass, to) /\ pending' = pending \ {b}
      /\ \/ cache' = cache \union {b} /\ troubled' = troubled
         \/ cache' = cache /\ troubled' = TRUE
  BY DEF Written, watchVars
<1> HIDE DEF to
<1>4. cache' \subseteq Body /\ cache \subseteq cache' /\ troubled' \in BOOLEAN
  BY <1>1, <1>3
<1>5. \A x \in pending' : \/ x \in to.embedding \union to.writing
                          \/ x \in pending /\ x \notin pass.embedding \union pass.writing
  BY <1>2, <1>3
<1>6. ~troubled' => b \in cache' /\ ~troubled
  BY <1>1, <1>3
<1>7. ~troubled' => vectors \union cache \union pending \subseteq vectors' \union cache' \union pending'
  BY <1>3, <1>4, <1>6
<1> QED
  BY <1>1, <1>2, <1>3, <1>4, <1>5, <1>6, <1>7, PassGoesOn

LEMMA MeantEnds == ASSUME Meant, NEW pass \in passes, PassEnds(pass) PROVE Meant'
<1>1. pass \in Pass /\ vectors \subseteq Body
  BY DEF Meant, MeaningTypes
<1>2. /\ UNCHANGED <<meaning, serving, inMemory, latest, stopped, cache, pending, troubled>>
      /\ vectors' = vectors \intersect latest /\ passes' = passes \ {pass}
      /\ pass.left = {} /\ pass.embedding = {} /\ pass.writing = {}
      /\ pass.missing = {} \/ pass.failed \/ stopped
  BY DEF PassEnds, watchVars, Named
<1>3. IsFiniteSet(passes')
  BY <1>2, FS_RemoveElement DEF Meant, MeaningTypes
<1>4. MeaningTypes'
  BY <1>2, <1>3 DEF Meant, MeaningTypes
<1>5. InHand'
  BY <1>2 DEF Meant, InHand
<1>6. ASSUME meaning, serving = "watched", ~troubled, NEW b \in latest PROVE OnItsWay(b)'
  <2>1. OnItsWay(b) /\ ~stopped
    BY <1>6 DEF Meant, Searched, NotStopped
  <2>2. CASE b \in vectors \union cache \union pending
    BY <1>2, <2>2 DEF OnItsWay
  <2>3. ASSUME NEW q \in passes, ~q.failed, b \in q.left \union q.missing PROVE OnItsWay(b)'
    <3>1. q # pass
      BY <1>2, <2>1, <2>3
    <3> QED
      BY <1>2, <2>3, <3>1 DEF OnItsWay
  <2> QED
    BY <2>1, <2>2, <2>3 DEF OnItsWay
<1>7. Searched'
  BY <1>2, <1>6 DEF Meant, Searched
<1> QED
  BY <1>2, <1>4, <1>5, <1>7 DEF Meant, NotStopped

\* The directory is served, or a read of it ends.
LEMMA MeantBegins ==
    ASSUME Meant, Watched, NEW fs \in SUBSET Body, BeginPass(fs), meaning' = meaning, inMemory' = fs,
           serving' = serving \/ (serving # "closed" /\ serving' = "watched")
    PROVE  Meant'
<1>1. meaning \in BOOLEAN
  BY DEF Watched, WatchTypes
<1>2. /\ MeaningTypes' /\ InHand' /\ stopped' = stopped
      /\ meaning => latest' = fs /\ passes' # {} /\ \A b \in fs : OnItsWay(b)'
  BY <1>1, PassBegins DEF Meant
<1> QED
  BY <1>2 DEF Meant, NotStopped, Searched

LEMMA MeantStep == Meant /\ Watched /\ [LocalNext]_localPack => Meant'
<1> SUFFICES ASSUME Meant, Watched, [LocalNext]_localPack PROVE Meant'
  OBVIOUS
<1>1. ASSUME ServeDirectory PROVE Meant'
  <2>1. inMemory \subseteq Body /\ serving = "mounted"
    BY <1>1 DEF Watched, WatchTypes, ServeDirectory
  <2> QED
    BY <1>1, <2>1, MeantBegins DEF ServeDirectory
<1>2. ASSUME ReadEnds PROVE Meant'
  <2>1. reload.got \subseteq Body
    BY DEF Watched, WatchTypes
  <2> QED
    BY <1>2, <2>1, MeantBegins DEF ReadEnds
<1>3. ASSUME Stop PROVE Meant'
  <2>1. serving' = "closed" /\ stopped' \in BOOLEAN /\ UNCHANGED <<vectors, cache, latest, pending, passes, troubled>>
    BY <1>3 DEF Stop, Watched, WatchTypes
  <2> QED
    BY <2>1 DEF Meant, MeaningTypes, InHand, NotStopped, Searched
<1>4. ASSUME \/ DiskChanges \/ Hears \/ TimerFires \/ ReadFails \/ WatcherFails
             \/ \E b \in Body : ReadFile(b)
             \/ \E first_ \in BOOLEAN : Stat(first_)
             \/ \E look \in looks : FirstLook(look) \/ LivenessCheck(look)
             \/ UNCHANGED localPack
      PROVE Meant'
  <2>1. UNCHANGED <<meaning, serving, inMemory, meaningVars>>
    BY <1>4 DEF DiskChanges, Hears, TimerFires, ReadFails, WatcherFails, ReadFile, Stat, FirstLook, LivenessCheck,
                localPack, watchVars
  <2> QED
    BY <2>1, MeantUntouched
<1>5. MeaningStep => Meant'
  BY MeantLooks, MeantTakes, MeantEmbeds, MeantStops, MeantCallFails, MeantWrites, MeantEnds DEF MeaningStep
<1> QED
  BY <1>1, <1>2, <1>3, <1>4, <1>5 DEF LocalNext, WatchStep

\* The bound on what fails.
LEMMA MishapsBounded == mishaps \in 0..MaxMishaps /\ [LocalNext]_localPack => mishaps' \in 0..MaxMishaps
<1> SUFFICES ASSUME mishaps \in 0..MaxMishaps, [LocalNext]_localPack PROVE mishaps' \in 0..MaxMishaps
  OBVIOUS
<1>1. mishaps' = mishaps \/ Mishap
  BY DEF LocalNext, WatchStep, MeaningStep, ServeDirectory, DiskChanges, Hears, TimerFires, ReadEnds, ReadFails, WatcherFails,
         Stop, ReadFile, Stat, FirstLook, LivenessCheck, LookFor, TakeNext, Embedded, StopsShort, CallFails, Written,
         PassEnds, Arm, localPack
<1> QED
  BY <1>1, LocalAssumption DEF Mishap

LEMMA SearchFollows == Meant => MeaningFollows
<1> SUFFICES ASSUME Meant, meaning, serving = "watched", passes = {}, ~troubled
             PROVE  vectors \subseteq inMemory /\ inMemory \ vectors \subseteq cache
  BY DEF MeaningFollows
<1>1. latest = inMemory /\ vectors \subseteq latest /\ \A b \in latest : OnItsWay(b)
  BY DEF Meant, Searched
<1>2. pending = {}
  BY DEF Meant, InHand
<1> QED
  BY <1>1, <1>2 DEF OnItsWay

LEMMA ReadsFollow == Watched => ChangesAreRead
BY DEF Watched, UpToDate, ReadAgain, ToBeRead, ChangesAreRead, Quiet

\* When the bursts of changes are over, what is served is the directory, unless something changed
\* while nobody watched or it cannot be read (local.ts watchDirectory); and when the embedding has come
\* to its end without a failure, in whatever order its passes ended, the search by meaning answers for
\* nothing that is not served, and for all that is, but for a body that one pass let go of while another
\* was writing it down: that one is in the cache, for the next read to take up (vectors.ts createVectorSet).
THEOREM FollowsDirectory == LocalSpec => []DirectoryIsFollowed
<1> DEFINE Sound == Watched /\ Meant /\ mishaps \in 0..MaxMishaps
<1>1. LocalInit => Sound
  BY WatchedInit, MeantInit, LocalAssumption DEF LocalInit
<1>2. Sound => DirectoryIsFollowed
  <2>1. Watched /\ Meant /\ mishaps \in 0..MaxMishaps => LocalTypeOK
    BY DEF Watched, WatchTypes, Meant, MeaningTypes, LocalTypeOK
  <2> QED
    BY <2>1, SearchFollows, ReadsFollow DEF DirectoryIsFollowed
<1>3. Sound /\ [LocalNext]_localPack => Sound'
  BY WatchedStep, MeantStep, MishapsBounded
<1> HIDE DEF Sound
<1> QED
  BY <1>1, <1>2, <1>3, PTL DEF LocalSpec

-----------------------------------------------------------------------------
(* A text gives characters to a page of a skill *)

\* How many bytes so many characters take, and where they end.
Counts(f, text, offset) ==
    f = [n \in 0..Len(text) - offset |-> IF n = 0 THEN 0 ELSE f[n - 1] + text[offset + n]]

\* contextPage, with the function that counts its bytes named.
LEMMA ContextPageIs ==
    ASSUME NEW text, NEW offset, NEW budget
    PROVE  LET bytes == CHOOSE f : Counts(f, text, offset)
               taken == CHOOSE n \in DOMAIN bytes :
                           bytes[n] <= budget /\ \A m \in DOMAIN bytes : bytes[m] <= budget => m <= n
           IN  ContextPage(text, offset, budget) =
                 [content |-> [n \in 1..taken |-> offset + n], bytes |-> bytes[taken], more |-> offset + taken < Len(text)]
BY DEF ContextPage, Counts

\* The bytes of the characters after an offset can be counted, for any text.
LEMMA CountsThere ==
    ASSUME NEW text \in Text, NEW offset \in 0..Len(text)
    PROVE  \E f \in [0..Len(text) - offset -> Nat] : Counts(f, text, offset)
<1> DEFINE N == Len(text) - offset
           S == [p \in Nat \X (1..N) |-> p[1] + text[offset + p[2]]]
<1>1. N \in Nat /\ Len(text) \in Nat
  BY DEF Text
<1>2. \A n \in 1..N : text[offset + n] \in Nat
  <2> SUFFICES ASSUME NEW n \in 1..N PROVE text[offset + n] \in Nat
    OBVIOUS
  <2>1. offset + n \in 1..Len(text)
    BY <1>1
  <2>2. text \in Seq(1..4)
    BY DEF Text
  <2> QED
    BY <2>1, <2>2
<1>3. S \in [Nat \X (1..N) -> Nat]
  <2> SUFFICES ASSUME NEW p \in Nat \X (1..N) PROVE p[1] + text[offset + p[2]] \in Nat
    OBVIOUS
  <2>1. p[1] \in Nat /\ p[2] \in 1..N
    OBVIOUS
  <2>2. text[offset + p[2]] \in Nat
    BY <1>2, <2>1
  <2> QED
    BY <2>1, <2>2
<1>4. \A a \in Nat, n \in 1..N : S[<<a, n>>] = a + text[offset + n]
  OBVIOUS
<1> HIDE DEF S, N
<1>5. PICK f : Takes(f, S, 0, Nat, N)
  <2>1. Stepwise(S, Nat, N)
    BY <1>3 DEF Stepwise
  <2> QED
    BY <1>1, <2>1, Chain
<1>6. f \in [0..N -> Nat] /\ f[0] = 0 /\ \A k \in 1..N : f[k] = f[k - 1] + text[offset + k]
  <2>1. f \in [0..N -> Nat] /\ f[0] = 0 /\ \A k \in 1..N : f[k] = S[<<f[k - 1], k>>]
    BY <1>5 DEF Takes
  <2>2. \A k \in 1..N : f[k - 1] \in Nat
    BY <1>1, <2>1
  <2> QED
    BY <1>4, <2>1, <2>2
<1>7. Counts(f, text, offset)
  <2> DEFINE h == [k \in 0..N |-> IF k = 0 THEN 0 ELSE f[k - 1] + text[offset + k]]
  <2>1. h = [k \in 0..N |-> h[k]] /\ f = [k \in 0..N |-> f[k]]
    BY <1>6
  <2>2. \A k \in 0..N : h[k] = f[k]
    BY <1>1, <1>6
  <2> HIDE DEF h
  <2>3. f = h
    BY <2>1, <2>2
  <2> QED
    BY <2>3 DEF Counts, h, N
<1> QED
  BY <1>6, <1>7 DEF N

\* A page takes characters in order, as many as fit; it goes on unless it took all.
LEMMA ContextPageTakes ==
    ASSUME NEW text \in Text, NEW offset \in 0..Len(text), NEW budget \in Nat
    PROVE  LET part == ContextPage(text, offset, budget) IN
           \E taken \in 0..(Len(text) - offset) :
              /\ part = [content |-> [n \in 1..taken |-> offset + n], bytes |-> part.bytes,
                         more |-> offset + taken < Len(text)]
              /\ part.bytes \in 0..budget
<1> DEFINE bytes == CHOOSE f : Counts(f, text, offset)
           N == Len(text) - offset
           fits == {n \in DOMAIN bytes : bytes[n] <= budget}
           taken == CHOOSE n \in DOMAIN bytes : bytes[n] <= budget /\ \A m \in DOMAIN bytes : bytes[m] <= budget => m <= n
<1>1. N \in Nat /\ Len(text) \in Nat
  BY DEF Text
<1>2. Counts(bytes, text, offset)
  BY CountsThere
<1>3. PICK f \in [0..N -> Nat] : Counts(f, text, offset)
  BY CountsThere
<1> HIDE DEF bytes
<1>4. DOMAIN bytes = 0..N /\ bytes[0] = 0
  BY <1>1, <1>2 DEF Counts
<1>5. \A k \in 0..N : bytes[k] = f[k]
  <2>1. \A k \in 0..N : bytes[k] = IF k = 0 THEN 0 ELSE bytes[k - 1] + text[offset + k]
    BY <1>2 DEF Counts
  <2>2. \A k \in 0..N : f[k] = IF k = 0 THEN 0 ELSE f[k - 1] + text[offset + k]
    BY <1>3 DEF Counts
  <2>3. bytes[0] = f[0]
    BY <1>1, <2>1, <2>2
  <2>4. \A k \in 1..N : bytes[k - 1] = f[k - 1] => bytes[k] = f[k]
    <3> SUFFICES ASSUME NEW k \in 1..N, bytes[k - 1] = f[k - 1] PROVE bytes[k] = f[k]
      OBVIOUS
    <3>1. k \in 0..N /\ k # 0
      OBVIOUS
    <3> QED
      BY <2>1, <2>2, <3>1
  <2> QED
    <3> HIDE DEF N
    <3>1. N \in Nat
      BY <1>1
    <3>2. Alike(bytes, f, N)
      BY <2>3, <2>4 DEF Alike
    <3> QED
      BY <3>1, <3>2, GoOnAlike
<1>6. \A k \in 0..N : bytes[k] \in Nat
  BY <1>3, <1>5
<1>7. \E n \in DOMAIN bytes : bytes[n] <= budget /\ \A m \in DOMAIN bytes : bytes[m] <= budget => m <= n
  <2> DEFINE rest == {N - n : n \in fits}
  <2>1. rest \in SUBSET Nat /\ rest # {}
    BY <1>1, <1>4
  <2>2. PICK r \in rest : \A j \in rest : r <= j
    BY <2>1, LeastOf
  <2>3. PICK n \in fits : r = N - n
    BY <2>2
  <2>4. \A m \in fits : m <= n
    <3> SUFFICES ASSUME NEW m \in fits PROVE m <= n
      OBVIOUS
    <3>1. N - n <= N - m
      BY <2>2, <2>3
    <3>2. m \in 0..N /\ n \in 0..N
      BY <1>4
    <3> QED
      BY <1>1, <3>1, <3>2
  <2> QED
    BY <2>4
<1>8. taken \in DOMAIN bytes /\ bytes[taken] <= budget
  BY <1>7
<1>9. ContextPage(text, offset, budget) =
        [content |-> [n \in 1..taken |-> offset + n], bytes |-> bytes[taken], more |-> offset + taken < Len(text)]
  BY ContextPageIs DEF bytes
<1> HIDE DEF taken
<1>10. taken \in 0..N /\ bytes[taken] \in 0..budget
  BY <1>4, <1>6, <1>8
<1>11. ContextPage(text, offset, budget).bytes = bytes[taken]
  BY <1>9
<1> QED
  BY <1>9, <1>10, <1>11

-----------------------------------------------------------------------------
(* Where texts begin, and what of each a page has *)

\* Each text begins where the one before it ends.
Begins(o, texts) ==
    /\ o \in [0..Len(texts) -> Nat] /\ o[0] = 0
    /\ \A k \in 1..Len(texts) : o[k] = o[k - 1] + Len(texts[k])

Offsets(texts) == CHOOSE o : Begins(o, texts)

\* How much of a text that lies between two places is before a third.
Cut(x, low, high) == IF x <= low THEN 0 ELSE IF x >= high THEN high - low ELSE x - low
Piece(a, b) == [n \in 1..(b - a) |-> a + n]

\* A text has so many characters.
LEMMA TextLength == ASSUME NEW text \in Text PROVE Len(text) \in Nat
BY DEF Text

\* Texts one after another begin where those before them end.
LEMMA OffsetsBegin == ASSUME NEW texts \in Seq(Text) PROVE Begins(Offsets(texts), texts)
<1> DEFINE K == Len(texts)
           S == [p \in Nat \X (1..K) |-> p[1] + Len(texts[p[2]])]
<1>1. K \in Nat /\ \A k \in 1..K : Len(texts[k]) \in Nat
  BY TextLength
<1>2. Stepwise(S, Nat, K)
  <2> SUFFICES ASSUME NEW p \in Nat \X (1..K) PROVE p[1] + Len(texts[p[2]]) \in Nat
    BY DEF Stepwise
  <2>1. p[1] \in Nat /\ p[2] \in 1..K
    OBVIOUS
  <2>2. Len(texts[p[2]]) \in Nat
    BY <1>1, <2>1
  <2> QED
    BY <2>1, <2>2
<1>3. \A a \in Nat, k \in 1..K : S[<<a, k>>] = a + Len(texts[k])
  OBVIOUS
<1> HIDE DEF S
<1>4. PICK o : Takes(o, S, 0, Nat, K)
  BY <1>1, <1>2, Chain
<1>5. o \in [0..K -> Nat] /\ o[0] = 0 /\ \A k \in 1..K : o[k] = S[<<o[k - 1], k>>]
  BY <1>4 DEF Takes
<1>6. \A k \in 1..K : o[k - 1] \in Nat
  <2> HIDE DEF K
  <2>1. \A k \in 1..K : k - 1 \in 0..K
    BY <1>1
  <2> QED
    BY <1>5, <2>1
<1>7. Begins(o, texts)
  BY <1>3, <1>5, <1>6 DEF Begins
<1> QED
  BY <1>7 DEF Offsets

\* A later text begins no earlier.
LEMMA OffsetsRise ==
    ASSUME NEW texts \in Seq(Text), NEW o, Begins(o, texts)
    PROVE  \A k \in 0..Len(texts) : \A j \in 0..k : o[j] <= o[k]
<1> DEFINE K == Len(texts)
           S == {k \in Nat : k \in 0..K => \A j \in 0..k : o[j] <= o[k]}
<1>1. \A k \in 0..K : o[k] \in Nat
  BY DEF Begins
<1>2. 0 \in S
  BY <1>1
<1>3. ASSUME NEW n \in Nat, n \in S PROVE n + 1 \in S
  <2> SUFFICES ASSUME n + 1 \in 0..K, NEW j \in 0..n + 1 PROVE o[j] <= o[n + 1]
    OBVIOUS
  <2>1. n \in 0..K /\ n + 1 \in 1..K /\ (n + 1) - 1 = n
    OBVIOUS
  <2>2. o[n + 1] = o[n] + Len(texts[n + 1]) /\ Len(texts[n + 1]) \in Nat
    BY <2>1, TextLength DEF Begins
  <2>3. o[n] \in Nat /\ o[n + 1] \in Nat /\ o[j] \in Nat
    BY <1>1, <2>1
  <2>4. j = n + 1 \/ o[j] <= o[n]
    BY <1>3, <2>1
  <2> QED
    BY <2>2, <2>3, <2>4
<1> HIDE DEF S
<1>4. \A k \in Nat : k \in S
  BY <1>2, <1>3, Upwards
<1> QED
  BY <1>4 DEF S

-----------------------------------------------------------------------------
(* How a page is filled *)

\* What a text gives to a page, and the state of a page that is being filled.
AFragment == [content: Seq(Nat), truncated: BOOLEAN]
AFill == [skip: Nat, remaining: Nat, consumed: Nat, total: Nat, parts: Seq(AFragment)]
Start(start, bytes) == [skip |-> start, remaining |-> bytes, consumed |-> 0, total |-> 0, parts |-> <<>>]

\* What one text adds to a page: nothing, as much as there is room for, or itself.
Skips(so, text)  == so.skip >= Len(text)
NoRoom(so, text) == ~Skips(so, text) /\ so.remaining = 0

\* What page() does with one text: it skips it, has no room for it, or takes some of it in order.
LEMMA FragmentIs ==
    ASSUME NEW so \in AFill, NEW text \in Text
    PROVE  LET new == Fragment(so, text) IN
           /\ new \in AFill /\ new.total = so.total + Len(text)
           /\ Len(new.parts) = Len(so.parts) + 1
           /\ \A j \in 1..Len(so.parts) : new.parts[j] = so.parts[j]
           /\ Skips(so, text) =>
                /\ new.skip = so.skip - Len(text) /\ new.remaining = so.remaining /\ new.consumed = so.consumed
                /\ new.parts[Len(so.parts) + 1].content = <<>>
           /\ NoRoom(so, text) =>
                /\ new.skip = 0 /\ new.remaining = 0 /\ new.consumed = so.consumed
                /\ new.parts[Len(so.parts) + 1].content = <<>>
           /\ ~Skips(so, text) /\ ~NoRoom(so, text) =>
                \E taken \in 0..(Len(text) - so.skip) :
                    /\ new.skip = 0 /\ new.consumed = so.consumed + taken
                    /\ so.skip + taken < Len(text) => new.remaining = 0
                    /\ new.parts[Len(so.parts) + 1] =
                         [content |-> Piece(so.skip, so.skip + taken), truncated |-> so.skip + taken < Len(text)]
<1> DEFINE none == [content |-> <<>>, truncated |-> FALSE]
           cut  == [content |-> <<>>, truncated |-> TRUE]
           new  == Fragment(so, text)
           L    == Len(text)
           m    == Len(so.parts)
<1>1. /\ so.skip \in Nat /\ so.remaining \in Nat /\ so.consumed \in Nat /\ so.total \in Nat
      /\ so.parts \in Seq(AFragment) /\ m \in Nat /\ L \in Nat
  BY TextLength DEF AFill
<1>2. none \in AFragment /\ cut \in AFragment
  <2>1. <<>> \in Seq(Nat)
    OBVIOUS
  <2> QED
    BY <2>1 DEF AFragment
<1>3. \A p \in AFragment : /\ Append(so.parts, p) \in Seq(AFragment) /\ Len(Append(so.parts, p)) = m + 1
                           /\ Append(so.parts, p)[m + 1] = p
                           /\ \A j \in 1..m : Append(so.parts, p)[j] = so.parts[j]
  BY <1>1
<1>4. CASE Skips(so, text)
  <2>1. new = [so EXCEPT !.skip = so.skip - L, !.total = so.total + L, !.parts = Append(@, none)]
    BY <1>4 DEF Fragment, Skips
  <2>2. so.skip - L \in Nat
    BY <1>1, <1>4 DEF Skips
  <2>3. new = [skip |-> so.skip - L, remaining |-> so.remaining, consumed |-> so.consumed,
               total |-> so.total + L, parts |-> Append(so.parts, none)]
    BY <2>1 DEF AFill
  <2> HIDE DEF new, none
  <2>4. new \in AFill
    BY <1>1, <1>2, <1>3, <2>2, <2>3 DEF AFill
  <2> QED
    BY <1>1, <1>2, <1>3, <1>4, <2>3, <2>4 DEF NoRoom, none, new
<1>5. CASE NoRoom(so, text)
  <2>1. new = [so EXCEPT !.skip = 0, !.total = so.total + L, !.parts = Append(@, cut)]
    BY <1>1, <1>5 DEF Fragment, Skips, NoRoom
  <2>3. new = [skip |-> 0, remaining |-> so.remaining, consumed |-> so.consumed,
               total |-> so.total + L, parts |-> Append(so.parts, cut)]
    BY <2>1 DEF AFill
  <2> HIDE DEF new, cut, none
  <2>4. new \in AFill
    BY <1>1, <1>2, <1>3, <2>3 DEF AFill
  <2> QED
    BY <1>1, <1>2, <1>3, <1>5, <2>3, <2>4 DEF NoRoom, cut, new
<1>6. CASE ~Skips(so, text) /\ ~NoRoom(so, text)
  <2> DEFINE part == ContextPage(text, so.skip, so.remaining)
  <2>1. so.skip \in 0..L
    BY <1>1, <1>6 DEF Skips
  <2>2. PICK taken \in 0..(L - so.skip) :
           /\ part = [content |-> [n \in 1..taken |-> so.skip + n], bytes |-> part.bytes,
                      more |-> so.skip + taken < L]
           /\ part.bytes \in 0..so.remaining
    BY <1>1, <2>1, ContextPageTakes
  <2>3. new = [skip |-> 0, remaining |-> Left(so, part), consumed |-> so.consumed + Len(part.content),
               total |-> so.total + L,
               parts |-> Append(so.parts, [content |-> part.content, truncated |-> part.more])]
    BY <1>1, <1>6 DEF Fragment, Skips, NoRoom
  <2> HIDE DEF part, new
  <2>4. taken \in Nat /\ part.content = Piece(so.skip, so.skip + taken) /\ part.more = (so.skip + taken < L)
    <3>1. taken \in Nat /\ (so.skip + taken) - so.skip = taken
      BY <1>1, <2>1, <2>2
    <3> QED
      BY <2>2, <3>1 DEF Piece
  <2>5. Len(part.content) = taken /\ part.content \in Seq(Nat)
    <3>1. part.content = [n \in 1..taken |-> so.skip + n]
      BY <2>2
    <3>2. so.skip \in Nat /\ taken \in Nat
      BY <1>1, <2>4
    <3>3. part.content \in [1..taken -> Nat]
      BY <3>1, <3>2
    <3>4. Len(part.content) = taken
      BY <3>1, <3>2
    <3> QED
      BY <3>2, <3>3, <3>4
  <2>6. Left(so, part) \in Nat /\ (so.skip + taken < L => Left(so, part) = 0)
    <3>1. Left(so, part) = IF so.skip + taken < L THEN 0 ELSE so.remaining - part.bytes
      BY <2>4 DEF Left
    <3>2. part.bytes \in Nat /\ part.bytes <= so.remaining
      BY <1>1, <2>2
    <3> QED
      BY <1>1, <3>1, <3>2
  <2>7. [content |-> part.content, truncated |-> part.more] \in AFragment
    BY <2>4, <2>5 DEF AFragment
  <2>8. new \in AFill
    BY <1>1, <1>3, <2>3, <2>4, <2>5, <2>6, <2>7 DEF AFill
  <2>9. new.parts = Append(so.parts, [content |-> part.content, truncated |-> part.more])
    BY <2>3
  <2>10. /\ new.total = so.total + L /\ Len(new.parts) = m + 1 /\ \A j \in 1..m : new.parts[j] = so.parts[j]
         /\ new.parts[m + 1] = [content |-> Piece(so.skip, so.skip + taken), truncated |-> so.skip + taken < L]
    BY <1>3, <2>3, <2>4, <2>7, <2>9
  <2>11. new.skip = 0 /\ new.consumed = so.consumed + taken /\ (so.skip + taken < L => new.remaining = 0)
    BY <2>3, <2>5, <2>6
  <2> QED
    BY <1>6, <2>8, <2>10, <2>11 DEF new
<1> QED
  BY <1>4, <1>5, <1>6

\* A page as it is filled from one text after another.
Fills(f, texts, start, bytes) ==
    f = [k \in 0..Len(texts) |-> IF k = 0 THEN Start(start, bytes) ELSE Fragment(f[k - 1], texts[k])]

\* A page is filled from one text after another, by a function of their number.
LEMMA FilledIs == ASSUME NEW texts, NEW start, NEW bytes
                  PROVE Filled(texts, start, bytes) = (CHOOSE f : Fills(f, texts, start, bytes))[Len(texts)]
BY DEF Filled, Fills, Start

\* There is such a function, for any texts, place and size.
LEMMA FillsThere ==
    ASSUME NEW texts \in Seq(Text), NEW start \in Nat, NEW bytes \in Nat
    PROVE  \E f \in [0..Len(texts) -> AFill] : Fills(f, texts, start, bytes)
<1> DEFINE K == Len(texts)
           S == [p \in AFill \X (1..K) |-> Fragment(p[1], texts[p[2]])]
           base == Start(start, bytes)
<1>1. K \in Nat /\ base \in AFill
  <2>1. <<>> \in Seq(AFragment)
    OBVIOUS
  <2> QED
    BY <2>1 DEF Start, AFill
<1>2. Stepwise(S, AFill, K)
  <2> SUFFICES ASSUME NEW p \in AFill \X (1..K) PROVE Fragment(p[1], texts[p[2]]) \in AFill
    BY DEF Stepwise
  <2>1. p[1] \in AFill /\ texts[p[2]] \in Text
    OBVIOUS
  <2> QED
    BY <2>1, FragmentIs
<1>3. \A a \in AFill, k \in 1..K : S[<<a, k>>] = Fragment(a, texts[k])
  OBVIOUS
<1> HIDE DEF S, base
<1>4. PICK f : Takes(f, S, base, AFill, K)
  BY <1>1, <1>2, Chain
<1>5. f \in [0..K -> AFill] /\ f[0] = base /\ \A k \in 1..K : f[k] = S[<<f[k - 1], k>>]
  BY <1>4 DEF Takes
<1>6. \A k \in 1..K : f[k - 1] \in AFill
  BY <1>1, <1>5
<1>7. Fills(f, texts, start, bytes)
  <2> DEFINE h == [k \in 0..K |-> IF k = 0 THEN base ELSE Fragment(f[k - 1], texts[k])]
  <2>1. h = [k \in 0..K |-> h[k]] /\ f = [k \in 0..K |-> f[k]]
    BY <1>5
  <2>2. \A k \in 0..K : h[k] = f[k]
    <3> SUFFICES ASSUME NEW k \in 0..K PROVE h[k] = f[k]
      OBVIOUS
    <3>1. k = 0 \/ k \in 1..K
      BY <1>1
    <3> QED
      BY <1>3, <1>5, <1>6, <3>1
  <2> HIDE DEF h
  <2>3. f = h
    BY <2>1, <2>2
  <2> QED
    BY <2>3 DEF Fills, h, base
<1> QED
  BY <1>5, <1>7

\* What a page has of the texts up to one of them.
Has(so, k, start, texts, o) ==
    LET end == start + so.consumed IN
    /\ so \in AFill /\ so.total = o[k] /\ Len(so.parts) = k
    /\ start >= o[k] => so.skip = start - o[k] /\ so.consumed = 0
    /\ start < o[k] => so.skip = 0 /\ end <= o[k] /\ (so.remaining = 0 \/ end = o[k])
    /\ \A j \in 1..k :
        /\ so.parts[j].content = Piece(Cut(start, o[j - 1], o[j]), Cut(end, o[j - 1], o[j]))
        /\ so.parts[j].content # <<>> => so.parts[j].truncated = (Cut(end, o[j - 1], o[j]) < o[j] - o[j - 1])

\* From a place to one that is not after it there is nothing.
LEMMA PieceNone == ASSUME NEW a \in Int, NEW b \in Int, b <= a PROVE Piece(a, b) = <<>>
<1>1. 1..(b - a) = {}
  OBVIOUS
<1> QED
  BY <1>1 DEF Piece

\* Where a text that gives nothing to a page, or some of it, leaves the page.
LEMMA CutNothing ==
    ASSUME NEW start \in Nat, NEW low \in Nat, NEW high \in Nat, low <= high, NEW used \in Nat,
           start >= low => used = 0, start < low => start + used <= low
    PROVE  /\ Cut(start, low, high) \in Int /\ Cut(start + used, low, high) \in Int
           /\ Cut(start + used, low, high) <= Cut(start, low, high)
BY DEF Cut

\* A place past a text has all of it before it.
LEMMA CutAll == ASSUME NEW x \in Nat, NEW low \in Nat, NEW high \in Nat, low <= high, x >= high
                PROVE  Cut(x, low, high) = high - low
BY DEF Cut

\* One text more goes on where the page has come to, or adds nothing to it.
LEMMA HasMore ==
    ASSUME NEW texts \in Seq(Text), NEW o, Begins(o, texts), NEW start \in Nat,
           NEW so, NEW k \in 0..Len(texts) - 1, Has(so, k, start, texts, o)
    PROVE  Has(Fragment(so, texts[k + 1]), k + 1, start, texts, o)
<1> DEFINE text == texts[k + 1]
           new  == Fragment(so, text)
           end  == start + so.consumed
           L    == Len(text)
           fin  == start + new.consumed
           low  == o[k]
           high == o[k + 1]
<1>1. k \in Nat /\ k + 1 \in 1..Len(texts) /\ (k + 1) - 1 = k /\ text \in Text /\ L \in Nat
  BY TextLength
<1>2. low \in Nat /\ high \in Nat /\ high = low + L
  BY <1>1 DEF Begins
<1>3. \A j \in 1..k : o[j - 1] \in Nat /\ o[j] \in Nat /\ o[j - 1] <= o[j] /\ o[j] <= low
  <2> SUFFICES ASSUME NEW j \in 1..k PROVE o[j - 1] \in Nat /\ o[j] \in Nat /\ o[j - 1] <= o[j] /\ o[j] <= low
    OBVIOUS
  <2>1. j \in 0..Len(texts) /\ j - 1 \in 0..j /\ k \in 0..Len(texts) /\ j \in 0..k /\ j - 1 \in 0..Len(texts)
    BY <1>1
  <2>2. o[j - 1] <= o[j] /\ o[j] <= low
    BY <2>1, OffsetsRise
  <2> QED
    BY <2>1, <2>2 DEF Begins
<1>4. so \in AFill /\ so.total = low /\ Len(so.parts) = k /\ so.skip \in Nat /\ so.consumed \in Nat /\ so.remaining \in Nat
  BY DEF Has, AFill
<1>5. /\ start >= low => so.skip = start - low /\ so.consumed = 0
      /\ start < low => so.skip = 0 /\ end <= low /\ (so.remaining = 0 \/ end = low)
  BY DEF Has
<1>6. \A j \in 1..k :
        /\ so.parts[j].content = Piece(Cut(start, o[j - 1], o[j]), Cut(end, o[j - 1], o[j]))
        /\ so.parts[j].content # <<>> => so.parts[j].truncated = (Cut(end, o[j - 1], o[j]) < o[j] - o[j - 1])
  BY DEF Has
<1>7. /\ new \in AFill /\ new.total = so.total + L /\ Len(new.parts) = k + 1
      /\ \A j \in 1..k : new.parts[j] = so.parts[j]
  BY <1>1, <1>4, FragmentIs
<1> SUFFICES Has(new, k + 1, start, texts, o)
  OBVIOUS
<1> HIDE DEF new, text, L, low, high
<1> DEFINE Same == \A j \in 1..k : Cut(fin, o[j - 1], o[j]) = Cut(end, o[j - 1], o[j])
           Part == /\ new.parts[k + 1].content = Piece(Cut(start, low, high), Cut(fin, low, high))
                   /\ new.parts[k + 1].content # <<>> =>
                        new.parts[k + 1].truncated = (Cut(fin, low, high) < high - low)
           Where == /\ start >= high => new.skip = start - high /\ new.consumed = 0
                    /\ start < high => new.skip = 0 /\ fin <= high /\ (new.remaining = 0 \/ fin = high)
<1>8. ASSUME Same, Part, Where PROVE Has(new, k + 1, start, texts, o)
  <2>1. \A j \in 1..k + 1 :
        /\ new.parts[j].content = Piece(Cut(start, o[j - 1], o[j]), Cut(fin, o[j - 1], o[j]))
        /\ new.parts[j].content # <<>> => new.parts[j].truncated = (Cut(fin, o[j - 1], o[j]) < o[j] - o[j - 1])
    <3> SUFFICES ASSUME NEW j \in 1..k + 1
                 PROVE  /\ new.parts[j].content = Piece(Cut(start, o[j - 1], o[j]), Cut(fin, o[j - 1], o[j]))
                        /\ new.parts[j].content # <<>> =>
                             new.parts[j].truncated = (Cut(fin, o[j - 1], o[j]) < o[j] - o[j - 1])
      OBVIOUS
    <3>1. CASE j = k + 1
      BY <1>1, <1>8, <3>1 DEF low, high
    <3>2. CASE j \in 1..k
      BY <1>6, <1>7, <1>8, <3>2
    <3> QED
      BY <1>1, <3>1, <3>2
  <2> QED
    BY <1>2, <1>4, <1>7, <1>8, <2>1 DEF Has, low, high
<1> HIDE DEF Same, Part, Where
<1>12. L \in Nat /\ low <= high
  BY <1>1, <1>2
<1>9. CASE Skips(so, text)
  <2>1. /\ new.skip = so.skip - L /\ new.remaining = so.remaining /\ new.consumed = so.consumed
        /\ new.parts[k + 1].content = <<>>
    BY <1>1, <1>4, <1>9, FragmentIs DEF new, L
  <2>2. so.skip >= L /\ low <= high /\ fin = end
    BY <1>1, <1>2, <1>9, <2>1 DEF Skips, L
  <2>3. /\ Cut(start, low, high) \in Int /\ Cut(fin, low, high) \in Int
        /\ Cut(fin, low, high) <= Cut(start, low, high)
    BY <1>2, <1>4, <1>5, <2>2, CutNothing
  <2>4. Piece(Cut(start, low, high), Cut(fin, low, high)) = <<>>
    BY <2>3, PieceNone
  <2>5. Where
    BY <1>2, <1>4, <1>5, <1>12, <2>1, <2>2 DEF Where
  <2>6. Same
    BY <2>2 DEF Same
  <2>7. Part
    BY <2>1, <2>4 DEF Part
  <2> QED
    BY <1>8, <2>5, <2>6, <2>7
<1>10. CASE NoRoom(so, text)
  <2>1. /\ new.skip = 0 /\ new.remaining = 0 /\ new.consumed = so.consumed
        /\ new.parts[k + 1].content = <<>>
    BY <1>1, <1>4, <1>10, FragmentIs DEF new, L
  <2>2. so.skip < L /\ so.remaining = 0 /\ low <= high /\ fin = end
    BY <1>1, <1>2, <1>4, <1>10, <2>1 DEF Skips, NoRoom, L
  <2>3. /\ Cut(start, low, high) \in Int /\ Cut(fin, low, high) \in Int
        /\ Cut(fin, low, high) <= Cut(start, low, high)
    BY <1>2, <1>4, <1>5, <2>2, CutNothing
  <2>4. Piece(Cut(start, low, high), Cut(fin, low, high)) = <<>>
    BY <2>3, PieceNone
  <2>5. Where
    BY <1>2, <1>4, <1>5, <1>12, <2>1, <2>2 DEF Where
  <2>6. Same
    BY <2>2 DEF Same
  <2>7. Part
    BY <2>1, <2>4 DEF Part
  <2> QED
    BY <1>8, <2>5, <2>6, <2>7
<1>11. CASE ~Skips(so, text) /\ ~NoRoom(so, text)
  <2>1. PICK taken \in 0..(L - so.skip) :
            /\ new.skip = 0 /\ new.consumed = so.consumed + taken
            /\ so.skip + taken < L => new.remaining = 0
            /\ new.parts[k + 1] = [content |-> Piece(so.skip, so.skip + taken), truncated |-> so.skip + taken < L]
    BY <1>1, <1>4, <1>11, FragmentIs DEF new, L
  <2>2. so.skip < L /\ so.remaining # 0 /\ taken \in Nat /\ so.skip + taken <= L
    BY <1>1, <1>4, <1>11, <2>1 DEF Skips, NoRoom, L
  <2>3. fin = start + so.consumed + taken /\ fin \in Nat /\ new.consumed \in Nat
    BY <1>4, <2>1, <2>2
  <2>4. /\ start >= low => so.skip = start - low /\ so.consumed = 0
        /\ start < low => so.skip = 0 /\ start + so.consumed = low
    BY <1>5, <2>2
  <2>5. /\ Cut(start, low, high) = so.skip /\ Cut(fin, low, high) = so.skip + taken
        /\ start < high /\ fin <= high /\ end >= low
        /\ fin < high => so.skip + taken < L
    <3> DEFINE used == so.consumed
               skip == so.skip
    <3>1. /\ start \in Nat /\ used \in Nat /\ skip \in Nat /\ taken \in Nat
          /\ skip + taken <= L /\ skip < L
          /\ start >= low => skip = start - low /\ used = 0
          /\ start < low => skip = 0 /\ start + used = low
          /\ fin = start + used + taken /\ end = start + used
      BY <1>4, <2>2, <2>3, <2>4
    <3> HIDE DEF fin, end, used, skip
    <3>2. /\ Cut(start, low, high) = skip /\ Cut(start + used + taken, low, high) = skip + taken
          /\ start < high /\ start + used + taken <= high /\ start + used >= low
          /\ start + used + taken < high => skip + taken < L
      BY <1>2, <1>12, <3>1 DEF Cut
    <3> QED
      BY <3>1, <3>2 DEF skip
  <2>6. Where
    BY <1>2, <2>1, <2>3, <2>5 DEF Where
  <2>7. Same
    <3> SUFFICES ASSUME NEW j \in 1..k PROVE Cut(fin, o[j - 1], o[j]) = Cut(end, o[j - 1], o[j])
      BY DEF Same
    <3>1. o[j - 1] \in Nat /\ o[j] \in Nat /\ o[j - 1] <= o[j] /\ o[j] <= low
      BY <1>3
    <3>2. end \in Nat /\ end >= o[j] /\ fin >= o[j]
      <4>1. end \in Nat /\ fin = end + taken
        BY <1>4, <2>2, <2>3
      <4>2. taken \in Nat /\ end >= low /\ low \in Nat
        BY <1>2, <2>2, <2>5
      <4> HIDE DEF end, fin, low
      <4> QED
        BY <3>1, <4>1, <4>2
    <3>3. fin \in Nat
      BY <2>3
    <3> HIDE DEF fin, end
    <3>4. Cut(fin, o[j - 1], o[j]) = o[j] - o[j - 1] /\ Cut(end, o[j - 1], o[j]) = o[j] - o[j - 1]
      BY <3>1, <3>2, <3>3, CutAll
    <3> QED
      BY <3>4
  <2>8. Part
    <3>1. high - low = L
      BY <1>2, <1>12
    <3>2. /\ new.parts[k + 1].content = Piece(so.skip, so.skip + taken)
          /\ new.parts[k + 1].truncated = (so.skip + taken < L)
      BY <2>1
    <3> HIDE DEF fin
    <3> QED
      BY <2>5, <3>1, <3>2 DEF Part
  <2> QED
    BY <1>8, <2>6, <2>7, <2>8
<1> QED
  BY <1>9, <1>10, <1>11

\* However large a page is, it has of each text what lies between its start and its end.
LEMMA FilledHas ==
    ASSUME NEW texts \in Seq(Text), NEW o, Begins(o, texts), NEW start \in Nat, NEW bytes \in Nat
    PROVE  Has(Filled(texts, start, bytes), Len(texts), start, texts, o)
<1> DEFINE K == Len(texts)
           f == CHOOSE f : Fills(f, texts, start, bytes)
           S == {k \in Nat : k \in 0..K => Has(f[k], k, start, texts, o)}
<1>1. Fills(f, texts, start, bytes)
  BY FillsThere
<1>2. Filled(texts, start, bytes) = f[K]
  BY FilledIs
<1> HIDE DEF f
<1>3. K \in Nat /\ \A k \in 0..K : f[k] = IF k = 0 THEN Start(start, bytes) ELSE Fragment(f[k - 1], texts[k])
  BY <1>1 DEF Fills
<1>4. 0 \in S
  <2>1. f[0] = Start(start, bytes)
    BY <1>3
  <2>2. o[0] = 0 /\ <<>> \in Seq(AFragment)
    BY DEF Begins
  <2>3. Has(Start(start, bytes), 0, start, texts, o)
    BY <2>2 DEF Has, Start, AFill
  <2> QED
    BY <2>1, <2>3
<1>5. ASSUME NEW n \in Nat, n \in S PROVE n + 1 \in S
  <2> SUFFICES ASSUME n + 1 \in 0..K PROVE Has(f[n + 1], n + 1, start, texts, o)
    OBVIOUS
  <2>1. n \in 0..K - 1 /\ n \in 0..K /\ (n + 1) - 1 = n /\ n + 1 # 0
    BY <1>3
  <2>2. f[n + 1] = Fragment(f[n], texts[n + 1]) /\ Has(f[n], n, start, texts, o)
    BY <1>3, <1>5, <2>1
  <2> QED
    BY <2>1, <2>2, HasMore
<1> HIDE DEF S
<1>6. \A n \in Nat : n \in S
  BY <1>4, <1>5, Upwards
<1>7. Has(f[K], K, start, texts, o)
  BY <1>3, <1>6 DEF S
<1> QED
  BY <1>2, <1>7

-----------------------------------------------------------------------------
(* A page of a skill *)

\* The ranges that halving leaves, one after another.
Ranges(f, pack, start) ==
    f = [k \in 0..PageBytes |->
            IF k = 0 THEN <<0, PageBytes - 1>> ELSE Halved(pack, start, f[k - 1][1], f[k - 1][2])]

\* boundedPage, with the function that halves named.
LEMMA BoundedPageIs ==
    ASSUME NEW pack, NEW start
    PROVE  LET found == (CHOOSE f : Ranges(f, pack, start))[PageBytes][1]
           IN  BoundedPage(pack, start) = IF Fits(MakePage(pack, start, PageBytes)) THEN PageBytes
                                          ELSE IF Fits(MakePage(pack, start, found)) THEN found ELSE 0
BY DEF BoundedPage, Ranges

\* boundedPage decides on some number of bytes, whatever fits.
LEMMA BoundedPageType == ASSUME NEW pack, NEW start PROVE BoundedPage(pack, start) \in Nat
<1> DEFINE P == PageBytes
           A == (0..P) \X (0..P)
           base == <<0, P - 1>>
           S == [p \in A \X (1..P) |-> Halved(pack, start, p[1][1], p[1][2])]
           f == CHOOSE f : Ranges(f, pack, start)
<1>1. P \in Nat /\ P # 0
  BY PagesAssumption
<1>2. base \in A
  BY <1>1
<1>3. \A a \in A : Halved(pack, start, a[1], a[2]) \in A
  <2> SUFFICES ASSUME NEW low \in 0..P, NEW high \in 0..P PROVE Halved(pack, start, low, high) \in A
    OBVIOUS
  <2> DEFINE middle == (low + high + 1) \div 2
  <2>1. low < high => middle \in 0..P /\ middle - 1 \in 0..P
    BY <1>1
  <2>2. Halved(pack, start, low, high) \in {<<low, high>>, <<middle, high>>, <<low, middle - 1>>}
    BY DEF Halved
  <2>3. low >= high => Halved(pack, start, low, high) = <<low, high>>
    BY DEF Halved
  <2> HIDE DEF middle
  <2> QED
    BY <1>1, <2>1, <2>2, <2>3
<1>4. Stepwise(S, A, P)
  BY <1>3 DEF Stepwise
<1>5. \A a \in A, k \in 1..P : S[<<a, k>>] = Halved(pack, start, a[1], a[2])
  OBVIOUS
<1> HIDE DEF S, A, base
<1>6. PICK g : Takes(g, S, base, A, P)
  BY <1>1, <1>2, <1>4, Chain
<1>7. g \in [0..P -> A] /\ g[0] = base /\ \A k \in 1..P : g[k] = S[<<g[k - 1], k>>]
  BY <1>6 DEF Takes
<1>8. \A k \in 1..P : g[k - 1] \in A
  BY <1>1, <1>7
<1> DEFINE h == [k \in 0..P |-> IF k = 0 THEN base ELSE Halved(pack, start, g[k - 1][1], g[k - 1][2])]
<1>9. Ranges(g, pack, start)
  <2>1. h = [k \in 0..P |-> h[k]] /\ g = [k \in 0..P |-> g[k]]
    BY <1>7
  <2>2. \A k \in 0..P : h[k] = g[k]
    <3> SUFFICES ASSUME NEW k \in 0..P PROVE h[k] = g[k]
      OBVIOUS
    <3>1. k = 0 \/ k \in 1..P
      BY <1>1
    <3> QED
      BY <1>5, <1>7, <1>8, <3>1
  <2> HIDE DEF h
  <2>3. g = h
    BY <2>1, <2>2
  <2> QED
    BY <2>3 DEF Ranges, h, base
<1>10. Ranges(f, pack, start)
  BY <1>9
<1> HIDE DEF f
<1>11. \A k \in 0..P : f[k] = g[k]
  <2>1. \A k \in 0..P : f[k] = IF k = 0 THEN base ELSE Halved(pack, start, f[k - 1][1], f[k - 1][2])
    BY <1>10 DEF Ranges, base
  <2>2. \A k \in 0..P : g[k] = IF k = 0 THEN base ELSE Halved(pack, start, g[k - 1][1], g[k - 1][2])
    BY <1>9 DEF Ranges, base
  <2>3. Alike(f, g, P)
    <3>1. f[0] = g[0]
      BY <1>1, <2>1, <2>2
    <3>2. ASSUME NEW k \in 1..P, f[k - 1] = g[k - 1] PROVE f[k] = g[k]
      <4>1. k \in 0..P /\ k # 0
        OBVIOUS
      <4> QED
        BY <2>1, <2>2, <3>2, <4>1
    <3> QED
      BY <3>1, <3>2 DEF Alike
  <2> QED
    BY <1>1, <2>3, GoOnAlike
<1>12. f[P] \in A
  BY <1>1, <1>7, <1>11
<1>13. f[P][1] \in Nat
  BY <1>12 DEF A
<1> QED
  BY <1>1, <1>13, BoundedPageIs DEF f

\* A skill of the parameters has rules, which are not empty, a body and included files.
LEMMA PackIs ==
    ASSUME NEW pack \in Pack
    PROVE  /\ pack.rules \in Seq(Text) /\ pack.body \in Text /\ pack.included \in Seq(Text \union {Unavailable})
           /\ \A n \in 1..Len(pack.rules) : Len(pack.rules[n]) > 0
           /\ \A n \in 1..Len(pack.included) : Given(pack.included[n]) \in Text
<1>1. pack.rules \in Seq(Text \ {<<>>}) /\ pack.body \in Text /\ pack.included \in Seq(Text \union {Unavailable})
  BY PagesAssumption
<1>2. <<>> \in Text
  BY DEF Text
<1>3. ASSUME NEW n \in 1..Len(pack.rules) PROVE pack.rules[n] \in Text /\ Len(pack.rules[n]) > 0
  <2>1. pack.rules[n] \in Text \ {<<>>}
    BY <1>1
  <2> QED
    BY <2>1 DEF Text
<1>4. pack.rules \in Seq(Text)
  BY <1>1, <1>3
<1>5. ASSUME NEW n \in 1..Len(pack.included) PROVE Given(pack.included[n]) \in Text
  <2>1. pack.included[n] \in Text \union {Unavailable}
    BY <1>1
  <2> QED
    BY <1>2, <2>1 DEF Given
<1> QED
  BY <1>1, <1>3, <1>4, <1>5

\* The texts of a skill, by their places.
LEMMA TextsAre ==
    ASSUME NEW pack \in Pack
    PROVE  LET texts == Texts(pack)
               R == Len(pack.rules)
               I == Len(pack.included)
           IN  /\ texts \in Seq(Text) /\ R \in Nat /\ I \in Nat /\ Len(texts) = R + 1 + I
               /\ \A n \in 1..R : texts[n] = pack.rules[n]
               /\ texts[R + 1] = pack.body
               /\ \A n \in 1..I : texts[R + 1 + n] = Given(pack.included[n])
<1> DEFINE R == Len(pack.rules)
           I == Len(pack.included)
           given == [n \in DOMAIN pack.included |-> Given(pack.included[n])]
           front == pack.rules \o <<pack.body>>
<1>1. /\ pack.rules \in Seq(Text) /\ pack.body \in Text /\ R \in Nat /\ I \in Nat
      /\ DOMAIN pack.included = 1..I
  BY PackIs
<1>2. given \in Seq(Text) /\ Len(given) = I /\ \A n \in 1..I : given[n] = Given(pack.included[n])
  <2>1. given \in [1..I -> Text]
    BY <1>1, PackIs
  <2> QED
    BY <1>1, <2>1
<1>3. /\ front \in Seq(Text) /\ Len(front) = R + 1 /\ front[R + 1] = pack.body
      /\ \A n \in 1..R : front[n] = pack.rules[n]
  BY <1>1
<1>4. Texts(pack) = front \o given
  BY DEF Texts
<1> HIDE DEF front, given, R, I
<1>5. /\ front \o given \in Seq(Text) /\ Len(front \o given) = (R + 1) + I
      /\ \A n \in 1..R + 1 : (front \o given)[n] = front[n]
      /\ \A n \in 1..I : (front \o given)[(R + 1) + n] = given[n]
  <2>1. front \in Seq(Text) /\ given \in Seq(Text)
    BY <1>2, <1>3
  <2>2. /\ front \o given \in Seq(Text) /\ Len(front \o given) = Len(front) + Len(given)
        /\ \A n \in 1..Len(front) : (front \o given)[n] = front[n]
        /\ \A n \in 1..Len(given) : (front \o given)[Len(front) + n] = given[n]
    BY <2>1, Concatenated
  <2>3. Len(front) = R + 1 /\ Len(given) = I
    BY <1>2, <1>3
  <2> QED
    BY <2>2, <2>3
<1>6. \A n \in 1..R : n \in 1..R + 1
  BY <1>1
<1>7. R + 1 \in 1..R + 1
  BY <1>1
<1> QED
  BY <1>1, <1>2, <1>3, <1>4, <1>5, <1>6, <1>7 DEF R, I

-----------------------------------------------------------------------------
(* What of a skill lies between two places *)

\* How much of a text is before a place of the skill, what of it lies between two, how long it is; where
\* the skill ends, and how many texts it has.
Place(pack, k, x) == Cut(x, Offsets(Texts(pack))[k - 1], Offsets(Texts(pack))[k])
Of(pack, k, x, y) == Piece(Place(pack, k, x), Place(pack, k, y))
Long(pack, k)     == Len(Texts(pack)[k])
End(pack)         == Offsets(Texts(pack))[Len(Texts(pack))]
Count(pack)       == Len(pack.rules) + 1 + Len(pack.included)

\* A text lies between its offsets; what is before a place in it grows with the place, from
\* nothing to all.
LEMMA PlaceIs ==
    ASSUME NEW pack \in Pack, NEW k \in 1..Count(pack)
    PROVE  LET o == Offsets(Texts(pack)) IN
           /\ o[k - 1] \in Nat /\ o[k] \in Nat /\ o[k] = o[k - 1] + Long(pack, k) /\ Long(pack, k) \in Nat
           /\ o[k] <= End(pack)
           /\ \A x \in Nat : Place(pack, k, x) \in 0..Long(pack, k)
           /\ \A x, y \in Nat : x <= y => Place(pack, k, x) <= Place(pack, k, y)
           /\ Place(pack, k, 0) = 0
           /\ \A x \in Nat : x >= End(pack) => Place(pack, k, x) = Long(pack, k)
<1> DEFINE texts == Texts(pack)
           o == Offsets(texts)
           low == o[k - 1]
           high == o[k]
           L == Long(pack, k)
<1>1. texts \in Seq(Text) /\ Len(texts) = Count(pack) /\ Len(texts) \in Nat
  <2> HIDE DEF texts
  <2>1. texts \in Seq(Text) /\ Len(texts) = Len(pack.rules) + 1 + Len(pack.included)
    BY TextsAre DEF texts
  <2>3. texts \in Seq(Text)
    BY <2>1
  <2>2. Len(texts) \in Nat
    BY <2>3, LenProperties
  <2> QED
    BY <2>1, <2>2 DEF Count
<1>2. Begins(o, texts)
  BY <1>1, OffsetsBegin
<1>3. k \in 1..Len(texts) /\ k \in 0..Len(texts) /\ k - 1 \in 0..Len(texts) /\ Len(texts) \in 0..Len(texts)
      /\ k \in 0..Len(texts)
  BY <1>1
<1>4. L \in Nat
  BY <1>1, <1>3, TextLength DEF Long
<1>5. low \in Nat /\ high \in Nat /\ high = low + L /\ End(pack) \in Nat
  BY <1>2, <1>3 DEF Begins, Long, End
<1>6. high <= End(pack)
  BY <1>1, <1>2, <1>3, OffsetsRise DEF End
<1>7. \A x : Place(pack, k, x) = Cut(x, low, high)
  BY DEF Place
<1> HIDE DEF low, high, L
<1>8. \A x \in Nat : Cut(x, low, high) \in 0..L
  BY <1>4, <1>5 DEF Cut
<1>9. \A x, y \in Nat : x <= y => Cut(x, low, high) <= Cut(y, low, high)
  BY <1>4, <1>5 DEF Cut
<1>10. Cut(0, low, high) = 0 /\ \A x \in Nat : x >= End(pack) => Cut(x, low, high) = L
  BY <1>4, <1>5, <1>6 DEF Cut
<1> QED
  BY <1>4, <1>5, <1>6, <1>7, <1>8, <1>9, <1>10 DEF low, high, L

\* What lies before a place and from it to a later one is what lies before the later one.
LEMMA Pieces == ASSUME NEW a \in Nat, NEW b \in Nat, a <= b
                PROVE  Piece(0, a) \o Piece(a, b) = Piece(0, b) /\ Piece(a, b) \in Seq(Nat) /\ Len(Piece(a, b)) = b - a
<1>1. Piece(0, a) \in Seq(Nat) /\ Len(Piece(0, a)) = a /\ \A n \in 1..a : Piece(0, a)[n] = n
  BY DEF Piece
<1>2. Piece(a, b) \in Seq(Nat) /\ Len(Piece(a, b)) = b - a /\ \A n \in 1..(b - a) : Piece(a, b)[n] = a + n
  <2>1. b - a \in Nat
    OBVIOUS
  <2> QED
    BY <2>1 DEF Piece
<1>3. Piece(0, b) \in Seq(Nat) /\ Len(Piece(0, b)) = b /\ \A n \in 1..b : Piece(0, b)[n] = n
  BY DEF Piece
<1> DEFINE s == Piece(0, a) \o Piece(a, b)
<1>7. /\ s \in Seq(Nat) /\ Len(s) = Len(Piece(0, a)) + Len(Piece(a, b))
      /\ \A n \in 1..Len(Piece(0, a)) : s[n] = Piece(0, a)[n]
      /\ \A n \in 1..Len(Piece(a, b)) : s[Len(Piece(0, a)) + n] = Piece(a, b)[n]
  <2>1. Piece(0, a) \in Seq(Nat) /\ Piece(a, b) \in Seq(Nat)
    BY <1>1, <1>2
  <2> QED
    BY <2>1, Concatenated
<1> HIDE DEF s
<1>4. s \in Seq(Nat) /\ Len(s) = b
  BY <1>1, <1>2, <1>7
<1>5. \A n \in 1..b : s[n] = n
  <2> SUFFICES ASSUME NEW n \in 1..b PROVE s[n] = n
    OBVIOUS
  <2>1. CASE n <= a
    <3>1. n \in 1..a
      BY <2>1
    <3>2. n \in 1..Len(Piece(0, a)) /\ Piece(0, a)[n] = n
      BY <1>1, <3>1
    <3> QED
      BY <1>7, <3>2
  <2>2. CASE n > a
    <3>2. n - a \in 1..(b - a) /\ a + (n - a) = n
      BY <2>2
    <3>1. n - a \in 1..(b - a) /\ s[n] = Piece(a, b)[n - a]
      BY <1>1, <1>2, <1>7, <3>2
    <3> QED
      BY <1>2, <3>1
  <2> QED
    BY <2>1, <2>2
<1>6. s = Piece(0, b)
  BY <1>3, <1>4, <1>5
<1> QED
  BY <1>2, <1>6 DEF s

\* What a page gives of a text goes on where what came before ended.
LEMMA OfGoesOn ==
    ASSUME NEW pack \in Pack, NEW k \in 1..Count(pack), NEW x \in Nat, NEW y \in Nat, x <= y
    PROVE  /\ Of(pack, k, 0, x) \o Of(pack, k, x, y) = Of(pack, k, 0, y)
           /\ Of(pack, k, x, y) \in Seq(Nat) /\ Of(pack, k, 0, x) \in Seq(Nat)
           /\ (Of(pack, k, x, y) = <<>>) = (Place(pack, k, x) = Place(pack, k, y))
<1> DEFINE a == Place(pack, k, x)
           b == Place(pack, k, y)
<1>1. a \in Nat /\ b \in Nat /\ a <= b /\ Place(pack, k, 0) = 0
  BY PlaceIs
<1> HIDE DEF a, b
<1>2. Piece(0, a) \o Piece(a, b) = Piece(0, b) /\ Piece(a, b) \in Seq(Nat) /\ Len(Piece(a, b)) = b - a
  BY <1>1, Pieces
<1>3. Piece(0, a) \in Seq(Nat)
  BY <1>1, Pieces
<1>4. (Piece(a, b) = <<>>) = (a = b)
  BY <1>1, <1>2
<1> QED
  BY <1>1, <1>2, <1>3, <1>4 DEF Of, a, b

\* A fragment of a rule, and a page.
AChained == [path: Nat, content: Seq(Nat), truncated: BOOLEAN]
APage == [rules: Seq(AChained), body: Seq(Nat), included: Seq(AFragment), next: Nat, more: BOOLEAN,
          complete: BOOLEAN]

\* What a page that goes on at one place and ends at another has of a text.
Shows(part, pack, k, x, y) ==
    /\ part \in AFragment /\ part.content = Of(pack, k, x, y)
    /\ part.content # <<>> => part.truncated = (Place(pack, k, y) < Long(pack, k))

\* A page gives of every text what lies between its start and its end, and says whether more
\* follows.
LEMMA FilledShows ==
    ASSUME NEW pack \in Pack, NEW start \in Nat, NEW bytes \in Nat
    PROVE  LET filled == Filled(Texts(pack), start, bytes) IN
           /\ filled.parts \in Seq(AFragment) /\ Len(filled.parts) = Count(pack)
           /\ filled.consumed \in Nat /\ filled.total = End(pack) /\ End(pack) \in Nat
           /\ \A k \in 1..Count(pack) : Shows(filled.parts[k], pack, k, start, start + filled.consumed)
<1> DEFINE texts == Texts(pack)
           o == Offsets(texts)
           filled == Filled(texts, start, bytes)
           K == Len(texts)
<1>1. texts \in Seq(Text) /\ K = Count(pack)
  <2> HIDE DEF texts
  <2>1. texts \in Seq(Text) /\ Len(texts) = Len(pack.rules) + 1 + Len(pack.included)
    BY TextsAre DEF texts
  <2> QED
    BY <2>1 DEF Count
<1>2. Begins(o, texts)
  BY <1>1, OffsetsBegin
<1>3. Has(filled, K, start, texts, o)
  BY <1>1, <1>2, FilledHas
<1>4. filled \in AFill /\ filled.total = o[K] /\ Len(filled.parts) = K
  <2> HIDE DEF filled, o, texts
  <2> QED
    BY <1>3 DEF Has
<1>5. \A j \in 1..K :
        /\ filled.parts[j].content = Piece(Cut(start, o[j - 1], o[j]), Cut(start + filled.consumed, o[j - 1], o[j]))
        /\ filled.parts[j].content # <<>> =>
             filled.parts[j].truncated = (Cut(start + filled.consumed, o[j - 1], o[j]) < o[j] - o[j - 1])
  <2> HIDE DEF filled, o, texts
  <2> QED
    BY <1>3 DEF Has
<1>6. filled.parts \in Seq(AFragment) /\ filled.consumed \in Nat
  BY <1>4 DEF AFill
<1>7. K \in Nat /\ K \in 0..K /\ o[K] \in Nat /\ End(pack) = o[K]
  <2>1. K \in Nat
    BY <1>1, LenProperties
  <2> QED
    BY <1>2, <2>1 DEF Begins, End
<1>8. ASSUME NEW k \in 1..Count(pack)
      PROVE  Shows(filled.parts[k], pack, k, start, start + filled.consumed)
  <2>1. k \in 1..K
    BY <1>1
  <2>2. o[k] - o[k - 1] = Long(pack, k)
    <3>1. o[k - 1] \in Nat /\ o[k] = o[k - 1] + Long(pack, k) /\ Long(pack, k) \in Nat
      BY PlaceIs
    <3> HIDE DEF o
    <3> QED
      BY <3>1
  <2>3. \A x : Place(pack, k, x) = Cut(x, o[k - 1], o[k])
    BY DEF Place
  <2>4. filled.parts[k] \in AFragment
    BY <1>4, <1>6, <2>1
  <2> HIDE DEF filled, o, texts, K
  <2> QED
    BY <1>5, <2>1, <2>2, <2>3, <2>4 DEF Shows, Of
<1> QED
  BY <1>1, <1>4, <1>6, <1>7, <1>8

\* A page, by where it goes on and where it ends.
PageOf(page, pack, start) ==
    LET R == Len(pack.rules) IN
    /\ page.next \in Nat /\ page.next >= start
    /\ page.body = Of(pack, R + 1, start, page.next)
    /\ page.included \in Seq(AFragment) /\ Len(page.included) = Len(pack.included)
    /\ \A n \in 1..Len(pack.included) : page.included[n].content = Of(pack, R + 1 + n, start, page.next)
    /\ page.more \in BOOLEAN /\ page.complete \in BOOLEAN
    /\ page.complete => /\ page.next >= End(pack)
                        /\ \A n \in 1..Len(pack.included) : pack.included[n] # Unavailable

\* A page of a skill, of any size: its parts lie between its start and its end, which is where the
\* next goes on; when it is complete nothing follows.
LEMMA PageIs ==
    ASSUME NEW pack \in Pack, NEW start \in Nat, NEW bytes \in Nat
    PROVE  LET page == MakePage(pack, start, bytes) IN
           /\ PageOf(page, pack, start)
           /\ page = [rules |-> page.rules, body |-> page.body, included |-> page.included, next |-> page.next,
                      more |-> page.more, complete |-> page.complete]
           /\ \E parts \in Seq(AFragment) :
                /\ Len(parts) = Len(pack.rules) /\ page.rules = RuleChain(parts)
                /\ \A n \in 1..Len(pack.rules) : Shows(parts[n], pack, n, start, page.next)
<1> DEFINE filled == Filled(Texts(pack), start, bytes)
           R == Len(pack.rules)
           I == Len(pack.included)
           parts == SubSeq(filled.parts, 1, R)
           page == MakePage(pack, start, bytes)
           next == start + filled.consumed
           available == \A n \in DOMAIN pack.included : pack.included[n] # Unavailable
           more == available /\ next < filled.total
           included == [n \in DOMAIN pack.included |-> filled.parts[R + 1 + n]]
<1>1. R \in Nat /\ I \in Nat /\ Count(pack) = R + 1 + I /\ DOMAIN pack.included = 1..I
  <2>1. pack.rules \in Seq(Text) /\ pack.included \in Seq(Text \union {Unavailable})
    BY PackIs
  <2> QED
    BY <2>1, LenProperties DEF Count
<1>2. page = [rules |-> RuleChain(parts), body |-> filled.parts[R + 1].content, included |-> included,
              next |-> next, more |-> more, complete |-> available /\ ~more]
  BY DEF MakePage
<1>3. /\ filled.parts \in Seq(AFragment) /\ Len(filled.parts) = Count(pack)
      /\ filled.consumed \in Nat /\ filled.total = End(pack) /\ End(pack) \in Nat
      /\ \A k \in 1..Count(pack) : Shows(filled.parts[k], pack, k, start, next)
  BY FilledShows
<1>4. next \in Nat /\ next >= start
  BY <1>3
<1>5. more \in BOOLEAN /\ (available /\ ~more) \in BOOLEAN
  OBVIOUS
<1>6. parts \in Seq(AFragment) /\ Len(parts) = R /\ \A k \in 1..R : parts[k] = filled.parts[k]
  <2> HIDE DEF filled, R, I
  <2>1. R \in 0..Len(filled.parts)
    BY <1>1, <1>3
  <2> QED
    BY <1>3, <2>1, SubSeqIs
<1>7. included \in Seq(AFragment) /\ Len(included) = I /\ \A n \in 1..I : included[n] = filled.parts[R + 1 + n]
  <2>1. \A n \in 1..I : R + 1 + n \in 1..Count(pack)
    <3> HIDE DEF R, I
    <3> QED
      BY <1>1
  <2>2. \A n \in 1..I : filled.parts[R + 1 + n] \in AFragment
    BY <1>3, <2>1 DEF Shows
  <2>3. included \in [1..I -> AFragment]
    BY <1>1, <2>2
  <2> QED
    BY <1>1, <2>3
<1>8. (available /\ ~more) => next >= End(pack) /\ \A n \in 1..I : pack.included[n] # Unavailable
  BY <1>1, <1>3, <1>4
<1>9. R + 1 \in 1..Count(pack) /\ \A n \in 1..I : R + 1 + n \in 1..Count(pack)
  <2> HIDE DEF R, I
  <2> QED
    BY <1>1
<1>10. filled.parts[R + 1].content = Of(pack, R + 1, start, next)
  BY <1>3, <1>9 DEF Shows
<1>11. \A n \in 1..I : included[n].content = Of(pack, R + 1 + n, start, next)
  BY <1>3, <1>7, <1>9 DEF Shows
<1>12. \A n \in 1..R : Shows(parts[n], pack, n, start, next)
  <2>1. \A n \in 1..R : n \in 1..Count(pack)
    <3> HIDE DEF R, I
    <3> QED
      BY <1>1
  <2> QED
    BY <1>3, <1>6, <2>1
<1> SUFFICES /\ PageOf(page, pack, start)
             /\ page = [rules |-> page.rules, body |-> page.body, included |-> page.included, next |-> page.next,
                        more |-> page.more, complete |-> page.complete]
             /\ \E ps \in Seq(AFragment) :
                  /\ Len(ps) = R /\ page.rules = RuleChain(ps)
                  /\ \A n \in 1..R : Shows(ps[n], pack, n, start, page.next)
  OBVIOUS
<1> HIDE DEF filled, parts, page, next, available, more, included
<1>13. PageOf(page, pack, start)
  BY <1>2, <1>4, <1>5, <1>7, <1>8, <1>10, <1>11 DEF PageOf
<1>14. page.rules = RuleChain(parts) /\ page.next = next
  BY <1>2
<1> QED
  BY <1>2, <1>6, <1>12, <1>13, <1>14

-----------------------------------------------------------------------------
(* joinFragments *)

\* What is joined after each fragment.
Joins(f, s) == f = [k \in 0..Len(s) |-> IF k = 0 THEN <<>> ELSE Join(f[k - 1], s[k])]

\* A fragment goes on in the last one, or is added after it.
LEMMA JoinIs ==
    ASSUME NEW a \in Seq(AChained), NEW x \in AChained
    PROVE  LET goesOn == Len(a) # 0 /\ a[Len(a)].truncated /\ a[Len(a)].path = x.path
               joined == [path |-> x.path, content |-> a[Len(a)].content \o x.content, truncated |-> x.truncated]
           IN  /\ Join(a, x) \in Seq(AChained)
               /\ ~goesOn => Join(a, x) = Append(a, x)
               /\ goesOn => /\ Len(Join(a, x)) = Len(a) /\ Join(a, x)[Len(a)] = joined
                            /\ \A k \in 1..Len(a) - 1 : Join(a, x)[k] = a[k]
<1> DEFINE L == Len(a)
           goesOn == L # 0 /\ a[L].truncated /\ a[L].path = x.path
           joined == [path |-> x.path, content |-> a[L].content \o x.content, truncated |-> x.truncated]
           front == SubSeq(a, 1, L - 1)
<1>1. L \in Nat /\ (a = <<>>) = (L = 0) /\ (L # 0 => a[L] \in AChained)
  BY LenProperties
<1>2. CASE ~goesOn
  <2>1. Join(a, x) = Append(a, x)
    BY <1>1, <1>2 DEF Join, Last
  <2> QED
    BY <1>2, <2>1
<1>3. CASE goesOn
  <2>1. joined \in AChained
    <3>1. a[L].content \in Seq(Nat) /\ x.content \in Seq(Nat)
      BY <1>1, <1>3 DEF AChained
    <3>2. a[L].content \o x.content \in Seq(Nat)
      BY <3>1
    <3> QED
      BY <3>2 DEF AChained
  <2>2. Join(a, x) = Append(front, joined)
    BY <1>1, <1>3, <2>1 DEF Join, Last, Front
  <2>3. L - 1 \in 0..Len(a) /\ L - 1 \in Nat
    BY <1>1, <1>3
  <2>4. front \in Seq(AChained) /\ Len(front) = L - 1 /\ \A k \in 1..L - 1 : front[k] = a[k]
    <3> HIDE DEF L
    <3> QED
      BY <2>3, SubSeqIs
  <2> HIDE DEF front, joined
  <2>5. /\ Append(front, joined) \in Seq(AChained) /\ Len(Append(front, joined)) = (L - 1) + 1
        /\ Append(front, joined)[(L - 1) + 1] = joined
        /\ \A k \in 1..L - 1 : Append(front, joined)[k] = front[k]
    BY <2>1, <2>4
  <2>6. (L - 1) + 1 = L
    BY <1>1
  <2> HIDE DEF L
  <2> QED
    BY <1>3, <2>2, <2>4, <2>5, <2>6 DEF joined, L
<1> QED
  BY <1>2, <1>3

\* Fragments can be joined one after another.
LEMMA JoinsThere ==
    ASSUME NEW s \in Seq(AChained)
    PROVE  \E f \in [0..Len(s) -> Seq(AChained)] : Joins(f, s)
<1> DEFINE K == Len(s)
           A == Seq(AChained)
           S == [p \in A \X (1..K) |-> Join(p[1], s[p[2]])]
<1>1. K \in Nat /\ <<>> \in A
  BY LenProperties
<1>2. Stepwise(S, A, K)
  <2> SUFFICES ASSUME NEW p \in A \X (1..K) PROVE Join(p[1], s[p[2]]) \in A
    BY DEF Stepwise
  <2>1. p[1] \in A /\ s[p[2]] \in AChained
    OBVIOUS
  <2> QED
    BY <2>1, JoinIs
<1>3. \A a \in A, k \in 1..K : S[<<a, k>>] = Join(a, s[k])
  OBVIOUS
<1> HIDE DEF S, A
<1>4. PICK f : Takes(f, S, <<>>, A, K)
  BY <1>1, <1>2, Chain
<1>5. f \in [0..K -> A] /\ f[0] = <<>> /\ \A k \in 1..K : f[k] = S[<<f[k - 1], k>>]
  BY <1>4 DEF Takes
<1>6. \A k \in 1..K : f[k - 1] \in A
  BY <1>1, <1>5
<1>7. Joins(f, s)
  <2> DEFINE h == [k \in 0..K |-> IF k = 0 THEN <<>> ELSE Join(f[k - 1], s[k])]
  <2>1. h = [k \in 0..K |-> h[k]] /\ f = [k \in 0..K |-> f[k]]
    BY <1>5
  <2>2. \A k \in 0..K : h[k] = f[k]
    <3> SUFFICES ASSUME NEW k \in 0..K PROVE h[k] = f[k]
      OBVIOUS
    <3>1. k = 0 \/ k \in 1..K
      BY <1>1
    <3> QED
      BY <1>3, <1>5, <1>6, <3>1
  <2> HIDE DEF h
  <2>3. f = h
    BY <2>1, <2>2
  <2> QED
    BY <2>3 DEF Joins, h
<1> QED
  BY <1>5, <1>7 DEF A

\* Of no fragments nothing is joined.
LEMMA JoinNone == JoinFragments(<<>>) = <<>>
<1> DEFINE f == CHOOSE f : Joins(f, <<>>)
<1>1. <<>> \in Seq(AChained) /\ Len(<<>>) = 0
  OBVIOUS
<1>2. Joins(f, <<>>)
  BY <1>1, JoinsThere
<1>3. JoinFragments(<<>>) = f[Len(<<>>)]
  BY DEF JoinFragments, Joins
<1> HIDE DEF f
<1>4. f[0] = <<>>
  BY <1>1, <1>2 DEF Joins
<1> QED
  BY <1>1, <1>3, <1>4

\* One fragment more is joined to what the others made.
LEMMA JoinMore ==
    ASSUME NEW s \in Seq(AChained), NEW x \in AChained
    PROVE  JoinFragments(s) \in Seq(AChained) /\ JoinFragments(Append(s, x)) = Join(JoinFragments(s), x)
<1> DEFINE t == Append(s, x)
           n == Len(s)
           f == CHOOSE f : Joins(f, s)
           g == CHOOSE g : Joins(g, t)
<1>1. t \in Seq(AChained) /\ Len(t) = n + 1 /\ n \in Nat /\ t[n + 1] = x /\ \A i \in 1..n : t[i] = s[i]
  OBVIOUS
<1>2. Joins(f, s)
  BY JoinsThere
<1>3. Joins(g, t)
  <2> HIDE DEF t
  <2> QED
    BY <1>1, JoinsThere
<1>4. JoinFragments(s) = f[n]
  BY DEF JoinFragments, Joins
<1>5. JoinFragments(t) = g[n + 1]
  <2> HIDE DEF n
  <2>1. JoinFragments(t) = g[Len(t)]
    BY DEF JoinFragments, Joins
  <2> HIDE DEF t, g
  <2> QED
    BY <1>1, <2>1
<1> HIDE DEF t, f, g
<1>6. \A k \in 0..n : f[k] = IF k = 0 THEN <<>> ELSE Join(f[k - 1], s[k])
  BY <1>2 DEF Joins
<1>7. \A k \in 0..n + 1 : g[k] = IF k = 0 THEN <<>> ELSE Join(g[k - 1], t[k])
  BY <1>1, <1>3 DEF Joins
<1>8. Alike(f, g, n)
  <2> HIDE DEF n
  <2>1. f[0] = g[0]
    <3>1. 0 \in 0..n /\ 0 \in 0..n + 1
      BY <1>1
    <3> QED
      BY <1>6, <1>7, <3>1
  <2>2. ASSUME NEW k \in 1..n, f[k - 1] = g[k - 1] PROVE f[k] = g[k]
    <3>1. k \in 0..n /\ k \in 0..n + 1 /\ k # 0 /\ t[k] = s[k]
      BY <1>1
    <3> QED
      BY <1>6, <1>7, <2>2, <3>1
  <2> QED
    BY <2>1, <2>2 DEF Alike
<1>9. f[n] = g[n]
  <2>1. \A k \in 0..n : f[k] = g[k]
    BY <1>1, <1>8, GoOnAlike
  <2> QED
    BY <1>1, <2>1
<1>10. g[n + 1] = Join(g[n], x)
  <2> HIDE DEF n
  <2>1. n + 1 \in 0..n + 1 /\ n + 1 # 0 /\ (n + 1) - 1 = n
    BY <1>1
  <2> QED
    BY <1>1, <1>7, <2>1
<1>11. f[n] \in Seq(AChained)
  <2>1. PICK h \in [0..n -> Seq(AChained)] : Joins(h, s)
    BY JoinsThere
  <2>2. \A k \in 0..n : h[k] = IF k = 0 THEN <<>> ELSE Join(h[k - 1], s[k])
    BY <2>1 DEF Joins
  <2>3. Alike(f, h, n)
    <3> HIDE DEF n
    <3>1. f[0] = h[0]
      <4>1. 0 \in 0..n
        BY <1>1
      <4> QED
        BY <1>6, <2>2, <4>1
    <3>2. ASSUME NEW k \in 1..n, f[k - 1] = h[k - 1] PROVE f[k] = h[k]
      <4>1. k \in 0..n /\ k # 0
        BY <1>1
      <4> QED
        BY <1>6, <2>2, <3>2, <4>1
    <3> QED
      BY <3>1, <3>2 DEF Alike
  <2>4. \A k \in 0..n : f[k] = h[k]
    BY <1>1, <2>3, GoOnAlike
  <2>5. n \in 0..n
    BY <1>1
  <2> QED
    BY <2>1, <2>4, <2>5
<1> QED
  BY <1>4, <1>5, <1>9, <1>10, <1>11 DEF t

-----------------------------------------------------------------------------
(* The rules of a page *)

\* What a rule adds to a page.
Link(part, n) == [path |-> n, content |-> part.content, truncated |-> part.truncated]
Links(parts, m) == [n \in 1..m |-> IF parts[n].content = <<>> THEN <<>> ELSE <<Link(parts[n], n)>>]

\* The rules of a page, with what each adds named.
LEMMA ChainIs == ASSUME NEW parts \in Seq(AFragment) PROVE RuleChain(parts) = FlattenSeq(Links(parts, Len(parts)))
<1>1. DOMAIN parts = 1..Len(parts)
  BY LenProperties
<1> QED
  BY <1>1 DEF RuleChain, Links, Link

\* A rule adds a fragment, or nothing.
LEMMA LinkType ==
    ASSUME NEW parts \in Seq(AFragment), NEW n \in 1..Len(parts)
    PROVE  Link(parts[n], n) \in AChained /\ n \in Nat /\ Links(parts, n)[n] \in Seq(AChained)
<1>1. parts[n] \in AFragment /\ n \in Nat
  OBVIOUS
<1>2. Link(parts[n], n) \in AChained
  BY <1>1 DEF Link, AFragment, AChained
<1> HIDE DEF AChained
<1>3. <<Link(parts[n], n)>> \in Seq(AChained) /\ <<>> \in Seq(AChained)
  BY <1>2
<1>4. Links(parts, n)[n] = IF parts[n].content = <<>> THEN <<>> ELSE <<Link(parts[n], n)>>
  BY DEF Links
<1> QED
  BY <1>1, <1>2, <1>3, <1>4

\* So do the rules up to one of them.
LEMMA LinksType ==
    ASSUME NEW parts \in Seq(AFragment), NEW m \in 0..Len(parts)
    PROVE  Links(parts, m) \in Seq(Seq(AChained))
<1>1. m \in Nat /\ \A n \in 1..m : n \in 1..Len(parts)
  BY LenProperties
<1>2. \A n \in 1..m : Links(parts, m)[n] = Links(parts, n)[n]
  BY <1>1 DEF Links
<1>3. Links(parts, m) \in [1..m -> Seq(AChained)]
  <2>1. \A n \in 1..m : Links(parts, m)[n] \in Seq(AChained)
    BY <1>1, <1>2, LinkType
  <2>2. Links(parts, m) = [n \in 1..m |-> Links(parts, m)[n]]
    BY DEF Links
  <2> QED
    BY <2>1, <2>2
<1> QED
  BY <1>1, <1>3

\* One rule more adds its fragment, if it has one.
LEMMA ChainMore ==
    ASSUME NEW parts \in Seq(AFragment), NEW m \in Nat, m + 1 \in 1..Len(parts)
    PROVE  /\ FlattenSeq(Links(parts, m)) \in Seq(AChained)
           /\ parts[m + 1].content = <<>> => FlattenSeq(Links(parts, m + 1)) = FlattenSeq(Links(parts, m))
           /\ parts[m + 1].content # <<>> =>
                FlattenSeq(Links(parts, m + 1)) = Append(FlattenSeq(Links(parts, m)), Link(parts[m + 1], m + 1))
<1> DEFINE s == Links(parts, m)
           x == IF parts[m + 1].content = <<>> THEN <<>> ELSE <<Link(parts[m + 1], m + 1)>>
<1>1. m \in 0..Len(parts) /\ m + 1 \in 0..Len(parts)
  BY LenProperties
<1>2. s \in Seq(Seq(AChained)) /\ Len(s) = m
  <2>1. DOMAIN s = 1..m
    BY DEF Links
  <2> HIDE DEF s
  <2>2. s \in Seq(Seq(AChained))
    BY <1>1, LinksType DEF s
  <2> QED
    BY <2>1, <2>2, LenProperties
<1>3. x \in Seq(AChained) /\ Link(parts[m + 1], m + 1) \in AChained
  <2>1. x = Links(parts, m + 1)[m + 1]
    BY DEF Links
  <2> HIDE DEF x
  <2> QED
    BY <2>1, LinkType
<1>4. Links(parts, m + 1) = Append(s, x)
  <2>1. /\ DOMAIN Append(s, x) = 1..m + 1 /\ Append(s, x)[m + 1] = x
        /\ \A n \in 1..m : Append(s, x)[n] = s[n]
    <3> HIDE DEF s, x
    <3>1. Append(s, x) \in Seq(Seq(AChained)) /\ Len(Append(s, x)) = m + 1
      BY <1>2, <1>3
    <3>2. Append(s, x)[Len(s) + 1] = x /\ \A n \in 1..Len(s) : Append(s, x)[n] = s[n]
      BY <1>2, <1>3
    <3> QED
      BY <1>2, <3>1, <3>2, LenProperties
  <2>2. \A n \in 1..m : s[n] = IF parts[n].content = <<>> THEN <<>> ELSE <<Link(parts[n], n)>>
    BY DEF Links
  <2>3. \A n \in 1..m + 1 : n = m + 1 \/ n \in 1..m
    OBVIOUS
  <2>4. \A n \in 1..m + 1 : Append(s, x)[n] = IF parts[n].content = <<>> THEN <<>> ELSE <<Link(parts[n], n)>>
    <3> DEFINE app == Append(s, x)
    <3> HIDE DEF app, s
    <3>1. app[m + 1] = IF parts[m + 1].content = <<>> THEN <<>> ELSE <<Link(parts[m + 1], m + 1)>>
      BY <2>1 DEF app
    <3> HIDE DEF x
    <3>2. \A n \in 1..m : app[n] = s[n]
      BY <2>1 DEF app
    <3>3. \A n \in 1..m + 1 : app[n] = IF parts[n].content = <<>> THEN <<>> ELSE <<Link(parts[n], n)>>
      BY <2>2, <2>3, <3>1, <3>2
    <3> QED
      BY <3>3 DEF app
  <2>5. Append(s, x) = [n \in 1..m + 1 |-> Append(s, x)[n]]
    <3> HIDE DEF s, x
    <3>1. Append(s, x) \in Seq(Seq(AChained))
      BY <1>2, <1>3
    <3> DEFINE app == Append(s, x)
    <3> HIDE DEF app
    <3>2. app \in [1..Len(app) -> Seq(AChained)] /\ DOMAIN app = 1..Len(app) /\ DOMAIN app = 1..m + 1
      BY <2>1, <3>1, LenProperties DEF app
    <3>3. app \in [1..m + 1 -> Seq(AChained)]
      BY <3>2
    <3>4. app = [n \in 1..m + 1 |-> app[n]]
      BY <3>3
    <3> QED
      BY <3>4 DEF app
  <2> HIDE DEF s, x
  <2> DEFINE app == Append(s, x)
  <2> HIDE DEF app
  <2>6. app = [n \in 1..m + 1 |-> IF parts[n].content = <<>> THEN <<>> ELSE <<Link(parts[n], n)>>]
    BY <2>4, <2>5 DEF app
  <2> QED
    BY <2>6 DEF Links, app
<1>5. FlattenSeq(s) \in Seq(AChained) /\ FlattenSeq(Append(s, x)) = FlattenSeq(s) \o x
  BY <1>2, <1>3, FlattenMore, FlattenType
<1> DEFINE c == FlattenSeq(s)
<1> HIDE DEF c, s
<1>6. c \o <<>> = c /\ c \o <<Link(parts[m + 1], m + 1)>> = Append(c, Link(parts[m + 1], m + 1))
  BY <1>3, <1>5 DEF c
<1>7. FlattenSeq(Links(parts, m + 1)) = c \o x
  BY <1>4, <1>5 DEF c
<1>8. CASE parts[m + 1].content = <<>>
  BY <1>5, <1>6, <1>7, <1>8 DEF c, s
<1>9. CASE parts[m + 1].content # <<>>
  BY <1>5, <1>6, <1>7, <1>9 DEF c, s
<1> QED
  BY <1>8, <1>9

\* No rules add nothing.
LEMMA LinksNone == ASSUME NEW parts PROVE FlattenSeq(Links(parts, 0)) = <<>>
<1>1. Links(parts, 0) = <<>>
  BY DEF Links
<1> QED
  BY <1>1, FlattenNone

\* What the fragments of a page hold of one rule.
OfFragments(n) == [x \in AChained |-> IF x.path = n THEN x.content ELSE <<>>]

\* What a page has of a rule is added up from its fragments.
LEMMA OfRuleIs ==
    ASSUME NEW page, page.rules \in Seq(AChained), NEW n
    PROVE  OfRule(page, n) = FlattenSeq(Mapped(OfFragments(n), page.rules)) /\ OfFragments(n) \in [AChained -> Seq(Nat)]
<1> DEFINE rules == page.rules
<1>1. \A k \in DOMAIN rules : rules[k] \in AChained
  BY LenProperties
<1>2. \A k \in DOMAIN rules :
        OfFragments(n)[rules[k]] = IF rules[k].path = n THEN rules[k].content ELSE <<>>
  BY <1>1 DEF OfFragments
<1>3. Mapped(OfFragments(n), rules) = [k \in DOMAIN rules |-> IF rules[k].path = n THEN rules[k].content ELSE <<>>]
  <2> HIDE DEF rules
  <2> QED
    BY <1>2 DEF Mapped
<1>4. \A x \in AChained : (IF x.path = n THEN x.content ELSE <<>>) \in Seq(Nat)
  <2>1. <<>> \in Seq(Nat)
    OBVIOUS
  <2> QED
    BY <2>1 DEF AChained
<1> QED
  BY <1>3, <1>4 DEF OfRule, OfFragments

\* One fragment more adds its text, if it is of that rule.
LEMMA OfMore ==
    ASSUME NEW G \in [AChained -> Seq(Nat)], NEW c \in Seq(AChained), NEW x \in AChained
    PROVE  FlattenSeq(Mapped(G, Append(c, x))) = FlattenSeq(Mapped(G, c)) \o G[x]
<1>1. Maps(G, AChained, Nat)
  BY DEF Maps
<1> QED
  BY <1>1, MappedMore

\* A page has of a rule what its part of that rule says, and each rule once.
LEMMA OfChain ==
    ASSUME NEW parts \in Seq(AFragment), NEW page, page.rules = RuleChain(parts), NEW n \in 1..Len(parts)
    PROVE  page.rules \in Seq(AChained) /\ OfRule(page, n) = parts[n].content
<1> DEFINE c(m) == FlattenSeq(Links(parts, m))
           G == OfFragments(n)
           S == {m \in Nat : m \in 0..Len(parts) =>
                    /\ c(m) \in Seq(AChained)
                    /\ FlattenSeq(Mapped(G, c(m))) = IF n <= m THEN parts[n].content ELSE <<>>}
<1>1. /\ G \in [AChained -> Seq(Nat)] /\ Len(parts) \in Nat /\ parts[n].content \in Seq(Nat)
      /\ \A k \in Nat : c(k) \in Seq(AChained) => FlattenSeq(Mapped(G, c(k))) \in Seq(Nat)
  <2>1. <<>> \in Seq(AChained) /\ [rules |-> <<>>].rules = <<>>
    OBVIOUS
  <2>2. G \in [AChained -> Seq(Nat)]
    BY <2>1, OfRuleIs
  <2>3. parts[n] \in AFragment
    OBVIOUS
  <2>4. ASSUME NEW k \in Nat, c(k) \in Seq(AChained) PROVE FlattenSeq(Mapped(G, c(k))) \in Seq(Nat)
    <3>1. Link(parts[n], n) \in AChained
      BY LinkType
    <3> HIDE DEF c, G
    <3> QED
      BY <2>2, <2>4, <3>1, MappedMore DEF Maps
  <2> QED
    BY <2>2, <2>3, <2>4, LenProperties DEF AFragment
<1>2. 0 \in S
  <2>1. c(0) = <<>> /\ <<>> \in Seq(AChained)
    BY LinksNone
  <2>2. FlattenSeq(Mapped(G, <<>>)) = <<>>
    BY MappedNone
  <2>3. ~(n <= 0)
    OBVIOUS
  <2> HIDE DEF c, G
  <2> QED
    BY <2>1, <2>2, <2>3
<1>3. ASSUME NEW m \in Nat, m \in S PROVE m + 1 \in S
  <2> SUFFICES ASSUME m + 1 \in 0..Len(parts)
               PROVE  /\ c(m + 1) \in Seq(AChained)
                      /\ FlattenSeq(Mapped(G, c(m + 1))) = IF n <= m + 1 THEN parts[n].content ELSE <<>>
    OBVIOUS
  <2>1. m + 1 \in 1..Len(parts) /\ m \in 0..Len(parts)
    BY <1>1
  <2>2. c(m) \in Seq(AChained) /\ FlattenSeq(Mapped(G, c(m))) = IF n <= m THEN parts[n].content ELSE <<>>
    BY <1>3, <2>1
  <2> DEFINE part == parts[m + 1]
             x == Link(part, m + 1)
  <2>3. /\ part.content = <<>> => c(m + 1) = c(m)
        /\ part.content # <<>> => c(m + 1) = Append(c(m), x)
    BY <2>1, ChainMore
  <2>4. x \in AChained /\ x.path = m + 1 /\ x.content = part.content
    BY <2>1, LinkType DEF Link
  <2>5. n = m + 1 => part = parts[n]
    OBVIOUS
  <2>6. G[x] = IF m + 1 = n THEN part.content ELSE <<>>
    BY <2>4 DEF OfFragments
  <2> HIDE DEF c, G, x, part
  <2>7. CASE part.content = <<>>
    <3>1. c(m + 1) = c(m)
      BY <2>3, <2>7
    <3>2. (IF n <= m THEN parts[n].content ELSE <<>>) = IF n <= m + 1 THEN parts[n].content ELSE <<>>
      <4>1. CASE n = m + 1
        BY <2>5, <2>7, <4>1
      <4>2. CASE n # m + 1
        <5>1. (n <= m) = (n <= m + 1)
          BY <4>2
        <5> QED
          BY <5>1, Zenon
      <4> QED
        BY <4>1, <4>2
    <3> QED
      BY <2>2, <3>1, <3>2
  <2>8. CASE part.content # <<>>
    <3>6. c(m) \in Seq(AChained) /\ x \in AChained /\ G \in [AChained -> Seq(Nat)]
      BY <1>1, <2>2, <2>4
    <3>7. c(m + 1) = Append(c(m), x)
      BY <2>3, <2>8
    <3>8. Append(c(m), x) \in Seq(AChained)
      BY <3>6
    <3>1. c(m + 1) = Append(c(m), x) /\ c(m + 1) \in Seq(AChained)
      BY <3>7, <3>8
    <3>2. FlattenSeq(Mapped(G, Append(c(m), x))) = FlattenSeq(Mapped(G, c(m))) \o G[x]
      <4> DEFINE y == c(m)
      <4>1. y \in Seq(AChained) /\ x \in AChained /\ G \in [AChained -> Seq(Nat)]
        BY <3>6
      <4> HIDE DEF y
      <4>2. FlattenSeq(Mapped(G, Append(y, x))) = FlattenSeq(Mapped(G, y)) \o G[x]
        BY <4>1, OfMore
      <4> QED
        BY <4>2 DEF y
    <3> DEFINE was == FlattenSeq(Mapped(G, c(m)))
    <3>3. was \in Seq(Nat)
      BY <1>1, <2>2
    <3> HIDE DEF was
    <3>4. CASE n = m + 1
      <4>1. was = <<>> /\ G[x] = parts[n].content /\ n <= m + 1
        BY <2>2, <2>5, <2>6, <3>4 DEF was
      <4>2. <<>> \o parts[n].content = parts[n].content
        BY <1>1
      <4> QED
        BY <3>1, <3>2, <4>1, <4>2 DEF was
    <3>5. CASE n # m + 1
      <4>1. (n <= m) = (n <= m + 1) /\ G[x] = <<>>
        BY <2>6, <3>5
      <4>2. was \o <<>> = was
        BY <3>3
      <4>3. was = IF n <= m + 1 THEN parts[n].content ELSE <<>>
        BY <2>2, <4>1, Zenon DEF was
      <4>4. FlattenSeq(Mapped(G, c(m + 1))) = was
        BY <3>1, <3>2, <4>1, <4>2 DEF was
      <4> QED
        BY <3>1, <4>3, <4>4
    <3> QED
      BY <3>4, <3>5
  <2> QED
    BY <2>7, <2>8
<1> HIDE DEF S
<1>4. \A m \in Nat : m \in S
  BY <1>2, <1>3, Upwards
<1>5. Len(parts) \in S /\ Len(parts) \in 0..Len(parts) /\ n <= Len(parts)
  BY <1>1, <1>4
<1>6. c(Len(parts)) \in Seq(AChained) /\ FlattenSeq(Mapped(G, c(Len(parts)))) = parts[n].content
  BY <1>5 DEF S
<1>7. page.rules = c(Len(parts))
  BY ChainIs
<1> QED
  BY <1>6, <1>7, OfRuleIs

-----------------------------------------------------------------------------
(* Rules are joined *)

\* Where the rules begin: one after another, none of them empty.
LEMMA RulesAt ==
    ASSUME NEW pack \in Pack
    PROVE  LET o == Offsets(Texts(pack))
               R == Len(pack.rules)
           IN  /\ R \in Nat /\ o[0] = 0 /\ \A k \in 0..R : o[k] \in Nat
               /\ \A k \in 1..R : /\ k \in 1..Count(pack) /\ o[k - 1] \in Nat /\ o[k] \in Nat /\ o[k - 1] < o[k]
                                  /\ Long(pack, k) = o[k] - o[k - 1]
               /\ \A k \in 0..R : \A j \in 0..k : o[j] <= o[k]
               /\ o[R] <= End(pack)
<1> DEFINE texts == Texts(pack)
           o == Offsets(texts)
           R == Len(pack.rules)
           K == Len(texts)
<1>1. texts \in Seq(Text) /\ R \in Nat /\ K \in Nat /\ K = Count(pack) /\ K >= R + 1
  <2> DEFINE I == Len(pack.included)
  <2>1. texts \in Seq(Text) /\ K = R + 1 + I /\ R \in Nat /\ I \in Nat
    BY TextsAre
  <2>2. Count(pack) = R + 1 + I
    BY DEF Count
  <2> HIDE DEF texts, K, R, I
  <2> QED
    BY <2>1, <2>2
<1>2. Begins(o, texts)
  BY <1>1, OffsetsBegin
<1>3. \A k \in 0..K : \A j \in 0..k : o[j] <= o[k]
  BY <1>1, <1>2, OffsetsRise
<1>4. \A k \in 1..R : Long(pack, k) \in Nat /\ Long(pack, k) > 0
  <2> SUFFICES ASSUME NEW k \in 1..R PROVE Long(pack, k) \in Nat /\ Long(pack, k) > 0
    OBVIOUS
  <2>1. texts[k] = pack.rules[k] /\ Len(pack.rules[k]) > 0
    BY PackIs, TextsAre
  <2>2. k \in 1..K
    <3> HIDE DEF R, K
    <3> QED
      BY <1>1
  <2>3. Len(texts[k]) \in Nat
    BY <1>1, <2>2, TextLength
  <2> QED
    BY <2>1, <2>3 DEF Long
<1>5. \A k \in 1..K : o[k] = o[k - 1] + Long(pack, k)
  BY <1>2 DEF Begins, Long
<1>6. o[0] = 0 /\ \A k \in 0..K : o[k] \in Nat
  BY <1>2 DEF Begins
<1>7. End(pack) = o[K]
  BY DEF End
<1> SUFFICES /\ R \in Nat /\ o[0] = 0 /\ \A k \in 0..R : o[k] \in Nat
             /\ \A k \in 1..R : /\ k \in 1..Count(pack) /\ o[k - 1] \in Nat /\ o[k] \in Nat /\ o[k - 1] < o[k]
                                /\ Long(pack, k) = o[k] - o[k - 1]
             /\ \A k \in 0..R : \A j \in 0..k : o[j] <= o[k]
             /\ o[R] <= End(pack)
  OBVIOUS
<1> HIDE DEF o, R, K
<1>8. \A k \in 0..R : k \in 0..K
  BY <1>1
<1>9. \A k \in 1..R : k \in 1..K /\ k \in 0..K /\ k - 1 \in 0..K
  BY <1>1
<1>10. \A k \in 1..R : /\ k \in 1..Count(pack) /\ o[k - 1] \in Nat /\ o[k] \in Nat /\ o[k - 1] < o[k]
                       /\ Long(pack, k) = o[k] - o[k - 1]
  <2> SUFFICES ASSUME NEW k \in 1..R
               PROVE  /\ k \in 1..Count(pack) /\ o[k - 1] \in Nat /\ o[k] \in Nat /\ o[k - 1] < o[k]
                      /\ Long(pack, k) = o[k] - o[k - 1]
    OBVIOUS
  <2>1. k \in 1..K /\ o[k - 1] \in Nat /\ o[k] \in Nat
    BY <1>6, <1>9
  <2>2. o[k] = o[k - 1] + Long(pack, k) /\ Long(pack, k) \in Nat /\ Long(pack, k) > 0
    BY <1>4, <1>5, <2>1
  <2> QED
    BY <1>1, <2>1, <2>2
<1>11. K \in 0..K /\ R \in 0..K
  BY <1>1
<1> QED
  BY <1>1, <1>3, <1>6, <1>7, <1>8, <1>10, <1>11

\* The rules joined of all a client has read of a skill when it is at some place.
JoinedAt(joined, pack, x) ==
    /\ joined \in Seq(AChained) /\ Len(joined) \in 0..Len(pack.rules)
    /\ \A k \in 1..Len(pack.rules) : (k <= Len(joined)) = (Offsets(Texts(pack))[k - 1] < x)
    /\ \A k \in 1..Len(joined) : /\ joined[k].path = k /\ joined[k].content = Of(pack, k, 0, x)
                                 /\ joined[k].truncated = (Place(pack, k, x) < Long(pack, k))

\* What comes after a text does not change it.
LEMMA OfStays ==
    ASSUME NEW pack \in Pack, NEW k \in 1..Len(pack.rules), NEW x \in Nat, NEW y \in Nat,
           Offsets(Texts(pack))[k] <= x, x <= y
    PROVE  Place(pack, k, x) = Place(pack, k, y) /\ Of(pack, k, 0, x) = Of(pack, k, 0, y)
<1> DEFINE o == Offsets(Texts(pack))
           low == o[k - 1]
           high == o[k]
<1>1. low \in Nat /\ high \in Nat /\ low < high
  BY RulesAt
<1>2. Place(pack, k, x) = Cut(x, low, high) /\ Place(pack, k, y) = Cut(y, low, high) /\ high <= x
  BY DEF Place
<1> HIDE DEF low, high
<1>3. Cut(x, low, high) = high - low /\ Cut(y, low, high) = high - low
  BY <1>1, <1>2 DEF Cut
<1> QED
  BY <1>2, <1>3 DEF Of

\* Past the rules, what has been joined of them stays.
LEMMA JoinedLater ==
    ASSUME NEW pack \in Pack, NEW x \in Nat, NEW y \in Nat, x <= y,
           Offsets(Texts(pack))[Len(pack.rules)] <= x, NEW joined, JoinedAt(joined, pack, x)
    PROVE  JoinedAt(joined, pack, y)
<1> DEFINE o == Offsets(Texts(pack))
           R == Len(pack.rules)
<1>1. /\ R \in Nat /\ \A k \in 1..R : o[k - 1] \in Nat /\ o[k] \in Nat /\ o[k - 1] < o[k]
      /\ \A k \in 0..R : \A j \in 0..k : o[j] <= o[k]
      /\ \A k \in 0..R : o[k] \in Nat
  BY RulesAt
<1>2. o[R] <= x
  OBVIOUS
<1>3. /\ joined \in Seq(AChained) /\ Len(joined) \in 0..R
      /\ \A k \in 1..R : (k <= Len(joined)) = (o[k - 1] < x)
      /\ \A k \in 1..Len(joined) : /\ joined[k].path = k /\ joined[k].content = Of(pack, k, 0, x)
                                   /\ joined[k].truncated = (Place(pack, k, x) < Long(pack, k))
  BY DEF JoinedAt
<1>4. \A k \in 1..R : o[k] <= x /\ Place(pack, k, x) = Place(pack, k, y) /\ Of(pack, k, 0, x) = Of(pack, k, 0, y)
  <2> SUFFICES ASSUME NEW k \in 1..R
               PROVE  o[k] <= x /\ Place(pack, k, x) = Place(pack, k, y) /\ Of(pack, k, 0, x) = Of(pack, k, 0, y)
    OBVIOUS
  <2>1. o[k] <= x
    <3> HIDE DEF o, R
    <3>1. R \in 0..R /\ k \in 0..R
      BY <1>1
    <3>2. o[k] <= o[R] /\ o[R] \in Nat /\ o[k] \in Nat
      BY <1>1, <3>1
    <3> QED
      BY <1>2, <3>2
  <2> QED
    BY <2>1, OfStays
<1> SUFFICES /\ joined \in Seq(AChained) /\ Len(joined) \in 0..R
             /\ \A k \in 1..R : (k <= Len(joined)) = (o[k - 1] < y)
             /\ \A k \in 1..Len(joined) : /\ joined[k].path = k /\ joined[k].content = Of(pack, k, 0, y)
                                          /\ joined[k].truncated = (Place(pack, k, y) < Long(pack, k))
  BY DEF JoinedAt
<1> HIDE DEF o, R
<1>5. \A k \in 1..R : o[k - 1] < x /\ o[k - 1] < y
  <2> SUFFICES ASSUME NEW k \in 1..R PROVE o[k - 1] < x /\ o[k - 1] < y
    OBVIOUS
  <2>1. o[k - 1] \in Nat /\ o[k] \in Nat /\ o[k - 1] < o[k] /\ o[k] <= x
    BY <1>1, <1>4
  <2> QED
    BY <2>1
<1>6. \A k \in 1..Len(joined) : k \in 1..R
  BY <1>1, <1>3
<1> QED
  BY <1>3, <1>4, <1>5, <1>6

-----------------------------------------------------------------------------

\* Where the rules up to one that ends at a place leave a page of the text between two others.
Clamp(a, q, r) == IF a <= q THEN q ELSE IF r <= a THEN r ELSE a

\* Where one rule more leaves what has been read: where it was, when the page gives nothing of it,
\* or further on in it.
LEMMA ClampMore ==
    ASSUME NEW a \in Nat, NEW b \in Nat, NEW q \in Nat, NEW r \in Nat, a < b, q <= r
    PROVE  LET p == Clamp(a, q, r)
               t == Clamp(b, q, r)
           IN  /\ p \in Nat /\ t \in Nat
               /\ Cut(q, a, b) = Cut(r, a, b) => t = p
               /\ Cut(q, a, b) # Cut(r, a, b) =>
                    a <= p /\ p < t /\ t <= b /\ Cut(p, a, b) = Cut(q, a, b) /\ Cut(t, a, b) = Cut(r, a, b)
BY DEF Clamp, Cut

\* A fragment of a rule is joined where the last one ends.
LEMMA JoinRule ==
    ASSUME NEW pack \in Pack, NEW m \in Nat, m + 1 \in 1..Len(pack.rules), NEW p \in Nat, NEW t \in Nat,
           Offsets(Texts(pack))[m] <= p, p < t, t <= Offsets(Texts(pack))[m + 1],
           NEW joined, JoinedAt(joined, pack, p), NEW x \in AChained, x.path = m + 1,
           x.content = Of(pack, m + 1, p, t), x.truncated = (Place(pack, m + 1, t) < Long(pack, m + 1))
    PROVE  JoinedAt(Join(joined, x), pack, t)
<1> DEFINE o == Offsets(Texts(pack))
           R == Len(pack.rules)
           n == m + 1
           L == Len(joined)
           new == Join(joined, x)
<1>1. /\ R \in Nat /\ \A k \in 0..R : o[k] \in Nat
      /\ \A k \in 1..R : o[k - 1] \in Nat /\ o[k] \in Nat /\ o[k - 1] < o[k] /\ k \in 1..Count(pack)
      /\ \A k \in 1..R : Long(pack, k) = o[k] - o[k - 1]
      /\ \A k \in 0..R : \A j \in 0..k : o[j] <= o[k]
  BY RulesAt
<1>2. /\ joined \in Seq(AChained) /\ L \in 0..R
      /\ \A k \in 1..R : (k <= L) = (o[k - 1] < p)
      /\ \A k \in 1..L : /\ joined[k].path = k /\ joined[k].content = Of(pack, k, 0, p)
                         /\ joined[k].truncated = (Place(pack, k, p) < Long(pack, k))
  BY DEF JoinedAt
<1>3. n \in 1..R /\ n - 1 = m /\ n \in 0..R /\ m \in 0..R /\ o[m] <= p /\ p < t /\ t <= o[n] /\ o[m] \in Nat /\ o[n] \in Nat
  <2>1. n \in 1..R /\ n - 1 = m /\ o[m] <= p /\ p < t /\ t <= o[n]
    OBVIOUS
  <2> HIDE DEF R, n, o
  <2>2. n \in 0..R /\ m \in 0..R
    BY <1>1, <2>1
  <2> QED
    BY <1>1, <2>1, <2>2
<1>4. \A y : \A k \in 1..R : Place(pack, k, y) = Cut(y, o[k - 1], o[k])
  BY DEF Place
<1>5. \A k \in 1..m : /\ k \in 1..R /\ o[k] <= p
                      /\ Place(pack, k, p) = Place(pack, k, t) /\ Of(pack, k, 0, p) = Of(pack, k, 0, t)
  <2> SUFFICES ASSUME NEW k \in 1..m
               PROVE  /\ k \in 1..R /\ o[k] <= p
                      /\ Place(pack, k, p) = Place(pack, k, t) /\ Of(pack, k, 0, p) = Of(pack, k, 0, t)
    OBVIOUS
  <2>1. k \in 1..R /\ o[k] <= p
    <3> HIDE DEF R, n, o
    <3>1. k \in 1..R /\ k \in 0..m /\ k \in 0..R
      BY <1>1, <1>3
    <3>2. o[k] <= o[m] /\ o[k] \in Nat
      BY <1>1, <1>3, <3>1
    <3> QED
      BY <1>3, <3>1, <3>2
  <2> QED
    BY <1>3, <2>1, OfStays
<1>6. \A k \in 1..R : k > n => o[k - 1] >= t
  <2> HIDE DEF R, n, o
  <2> SUFFICES ASSUME NEW k \in 1..R, k > n PROVE o[k - 1] >= t
    OBVIOUS
  <2>1. k - 1 \in 0..R /\ n \in 0..k - 1
    BY <1>1, <1>3
  <2>2. o[n] <= o[k - 1] /\ o[k - 1] \in Nat
    BY <1>1, <2>1
  <2> QED
    BY <1>3, <2>2
<1>7. \A k \in 1..R : k <= n => o[k - 1] < t
  <2> HIDE DEF R, n, o
  <2> SUFFICES ASSUME NEW k \in 1..R, k <= n PROVE o[k - 1] < t
    OBVIOUS
  <2>1. k - 1 \in 0..R /\ k - 1 \in 0..m
    BY <1>1, <1>3
  <2>2. o[k - 1] <= o[m] /\ o[k - 1] \in Nat
    BY <1>1, <1>3, <2>1
  <2> QED
    BY <1>3, <2>2
\* It is enough to see that there is a fragment of each rule up to this one, and what it is.
<1> DEFINE Reaches == /\ new \in Seq(AChained) /\ Len(new) = n /\ m <= L
                      /\ \A k \in 1..m : new[k] = joined[k]
                      /\ new[n].path = n /\ new[n].content = Of(pack, n, 0, t)
                      /\ new[n].truncated = x.truncated
<1>8. ASSUME Reaches PROVE JoinedAt(new, pack, t)
  <2> DEFINE Good(k) == /\ new[k].path = k /\ new[k].content = Of(pack, k, 0, t)
                        /\ new[k].truncated = (Place(pack, k, t) < Long(pack, k))
  <2>1. Good(n)
    BY <1>8
  <2>2. \A k \in 1..m : Good(k)
    <3> SUFFICES ASSUME NEW k \in 1..m PROVE Good(k)
      OBVIOUS
    <3>1. k \in 1..L
      <4> HIDE DEF L
      <4> QED
        BY <1>2, <1>8
    <3> HIDE DEF new
    <3> QED
      BY <1>2, <1>5, <1>8, <3>1
  <2>3. \A k \in 1..n : Good(k)
    <3>1. \A k \in 1..n : k = n \/ k \in 1..m
      OBVIOUS
    <3> HIDE DEF Good, n
    <3> QED
      BY <2>1, <2>2, <3>1
  <2>4. \A k \in 1..R : (k <= n) = (o[k - 1] < t)
    <3> SUFFICES ASSUME NEW k \in 1..R PROVE (k <= n) = (o[k - 1] < t)
      OBVIOUS
    <3> HIDE DEF R, n, o
    <3>1. o[k - 1] \in Nat
      BY <1>1
    <3>2. k <= n \/ k > n
      BY <1>1, <1>3
    <3>3. k <= n => o[k - 1] < t
      BY <1>7
    <3>4. k > n => o[k - 1] >= t
      BY <1>6
    <3> QED
      BY <1>3, <3>1, <3>2, <3>3, <3>4
  <2>5. Len(new) \in 0..R
    BY <1>3, <1>8
  <2> HIDE DEF new, n, R, o
  <2> QED
    BY <1>8, <2>3, <2>4, <2>5 DEF JoinedAt, R, o
<1>9. CASE o[m] < p
  <2>1. L = n
    <3> HIDE DEF R, n, o, L
    <3>1. n <= L
      BY <1>2, <1>3, <1>9
    <3>2. ASSUME L > n PROVE FALSE
      <4>1. L \in Nat /\ L <= R
        BY <1>1, <1>2
      <4>2. n + 1 \in 1..R /\ (n + 1) - 1 = n /\ n + 1 <= L
        BY <1>1, <1>3, <3>2, <4>1
      <4>3. o[n] < p
        BY <1>2, <4>2
      <4> QED
        BY <1>3, <4>3
    <3> QED
      BY <1>2, <1>3, <3>1, <3>2
  <2>2. joined[n].path = n /\ joined[n].content = Of(pack, n, 0, p) /\ joined[n].truncated
    <3>1. n \in 1..L
      BY <1>3, <2>1
    <3>2. Place(pack, n, p) = p - o[m] /\ Long(pack, n) = o[n] - o[m]
      <4> HIDE DEF R, n, o
      <4>1. Place(pack, n, p) = Cut(p, o[m], o[n]) /\ Long(pack, n) = o[n] - o[m]
        BY <1>1, <1>3, <1>4
      <4> DEFINE a == o[m]
                 b == o[n]
      <4>2. a \in Nat /\ b \in Nat /\ a < p /\ p < b
        BY <1>3, <1>9
      <4> HIDE DEF a, b
      <4>3. Cut(p, a, b) = p - a
        BY <4>2 DEF Cut
      <4> QED
        BY <4>1, <4>3 DEF a, b
    <3>3. p - o[m] < o[n] - o[m]
      <4> HIDE DEF o, n
      <4> QED
        BY <1>3
    <3> HIDE DEF R, n, o
    <3>4. joined[n].truncated = (Place(pack, n, p) < Long(pack, n))
      BY <1>2, <3>1
    <3> QED
      BY <1>2, <3>1, <3>2, <3>3, <3>4
  <2>3. Of(pack, n, 0, p) \o Of(pack, n, p, t) = Of(pack, n, 0, t)
    <3>1. n \in 1..Count(pack) /\ p <= t
      BY <1>1, <1>3
    <3> HIDE DEF n
    <3> QED
      BY <3>1, OfGoesOn
  <2>4. /\ new \in Seq(AChained) /\ Len(new) = L
        /\ new[L] = [path |-> x.path, content |-> joined[L].content \o x.content, truncated |-> x.truncated]
        /\ \A k \in 1..L - 1 : new[k] = joined[k]
    <3>1. L # 0 /\ joined[L].truncated /\ joined[L].path = x.path
      BY <1>3, <2>1, <2>2
    <3> QED
      BY <1>2, <3>1, JoinIs
  <2>5. L - 1 = m
    BY <1>3, <2>1
  <2> HIDE DEF new, L
  <2>6. /\ new[n].path = x.path /\ new[n].content = joined[n].content \o x.content
        /\ new[n].truncated = x.truncated /\ Len(new) = n
    <3>1. new[n] = [path |-> x.path, content |-> joined[n].content \o x.content, truncated |-> x.truncated]
      BY <2>1, <2>4
    <3> HIDE DEF n
    <3>2. new[n].path = x.path
      BY <3>1
    <3> DEFINE c == joined[n].content \o x.content
    <3> HIDE DEF c
    <3>6. new[n] = [path |-> x.path, content |-> c, truncated |-> x.truncated]
      BY <3>1 DEF c
    <3>7. new[n].content = c
      BY <3>6
    <3>3. new[n].content = joined[n].content \o x.content
      BY <3>7 DEF c
    <3>4. new[n].truncated = x.truncated
      BY <3>1
    <3>5. Len(new) = n
      BY <2>1, <2>4
    <3> QED
      BY <3>2, <3>3, <3>4, <3>5
  <2>7. m <= L /\ x.path = n /\ x.content = Of(pack, n, p, t)
    BY <2>1
  <2>8. \A k \in 1..m : new[k] = joined[k]
    BY <2>4, <2>5
  <2>9. new[n].content = Of(pack, n, 0, t) /\ new[n].path = n
    BY <2>2, <2>3, <2>6, <2>7
  <2>10. new \in Seq(AChained) /\ Len(new) = n /\ new[n].truncated = x.truncated
    BY <2>4, <2>6
  <2>11. Reaches
    BY <2>7, <2>8, <2>9, <2>10
  <2> HIDE DEF Reaches
  <2> QED
    BY <1>8, <2>11 DEF new
<1>10. CASE o[m] = p
  <2>1. L = m
    <3> HIDE DEF R, n, o, L
    <3>1. ~(n <= L)
      BY <1>2, <1>3, <1>10
    <3>2. m # 0 => m <= L
      <4> SUFFICES ASSUME m # 0 PROVE m <= L
        OBVIOUS
      <4>1. m \in 1..R
        BY <1>3
      <4>2. o[m - 1] < p
        BY <1>1, <1>10, <4>1
      <4> QED
        BY <1>2, <4>1, <4>2
    <3>3. n = m + 1
      BY DEF n
    <3> QED
      BY <1>1, <1>2, <3>1, <3>2, <3>3
  <2>2. m # 0 => ~joined[m].truncated
    <3> SUFFICES ASSUME m # 0 PROVE ~joined[m].truncated
      OBVIOUS
    <3>1. m \in 1..R /\ m \in 1..L
      BY <1>3, <2>1
    <3>2. Place(pack, m, p) = Long(pack, m) /\ Long(pack, m) \in Int
      <4> HIDE DEF R, n, o
      <4>1. Place(pack, m, p) = Cut(p, o[m - 1], o[m]) /\ Long(pack, m) = o[m] - o[m - 1] /\ o[m - 1] < o[m]
            /\ o[m - 1] \in Nat /\ o[m] \in Nat
        BY <1>1, <1>4, <3>1
      <4> DEFINE a == o[m - 1]
                 b == o[m]
      <4> HIDE DEF a, b
      <4>2. a \in Nat /\ b \in Nat /\ a < b /\ b = p
        BY <1>10, <4>1 DEF a, b
      <4>3. Cut(p, a, b) = b - a
        BY <4>2 DEF Cut
      <4> QED
        BY <4>1, <4>2, <4>3 DEF a, b
    <3>3. joined[m].truncated = (Place(pack, m, p) < Long(pack, m))
      BY <1>2, <3>1
    <3>4. ~(Place(pack, m, p) < Long(pack, m))
      BY <3>2
    <3> QED
      BY <3>3, <3>4
  <2>3. new = Append(joined, x)
    <3>1. ~(L # 0 /\ joined[L].truncated /\ joined[L].path = x.path)
      BY <2>1, <2>2
    <3> QED
      BY <1>2, <3>1, JoinIs
  <2>4. Of(pack, n, p, t) = Of(pack, n, 0, t)
    <3> HIDE DEF R, n, o
    <3>1. n \in 1..Count(pack) /\ Place(pack, n, p) = Cut(p, o[m], o[n]) /\ o[m] = p
      BY <1>1, <1>3, <1>4, <1>10
    <3>2. Place(pack, n, p) = 0 /\ Place(pack, n, 0) = 0
      BY <3>1, PlaceIs DEF Cut
    <3> QED
      BY <3>2 DEF Of
  <2>5. /\ new \in Seq(AChained) /\ Len(new) = L + 1 /\ new[L + 1] = x
        /\ \A k \in 1..L : new[k] = joined[k]
    <3> HIDE DEF new
    <3> QED
      BY <1>2, <2>3
  <2> HIDE DEF new, L
  <2>6. Len(new) = n /\ new[n] = x
    BY <2>1, <2>5
  <2>7. m <= L /\ x.path = n /\ x.content = Of(pack, n, p, t)
    BY <2>1
  <2>8. \A k \in 1..m : new[k] = joined[k]
    BY <2>1, <2>5
  <2>9. new[n].content = Of(pack, n, 0, t) /\ new[n].path = n /\ new[n].truncated = x.truncated
    BY <2>4, <2>6, <2>7
  <2>10. new \in Seq(AChained) /\ Len(new) = n /\ new[n].truncated = x.truncated
    BY <2>5, <2>6, <2>9
  <2>11. Reaches
    BY <2>7, <2>8, <2>9, <2>10
  <2> HIDE DEF Reaches
  <2> QED
    BY <1>8, <2>11 DEF new
<1> QED
  BY <1>3, <1>9, <1>10

\* So is what a page gives of one rule, if it gives something.
LEMMA JoinLink ==
    ASSUME NEW pack \in Pack, NEW m \in Nat, m + 1 \in 1..Len(pack.rules), NEW q \in Nat, NEW r \in Nat, q <= r,
           NEW part, Shows(part, pack, m + 1, q, r), NEW s \in Seq(AChained),
           JoinedAt(JoinFragments(s), pack, Clamp(Offsets(Texts(pack))[m], q, r))
    PROVE  /\ part.content = <<>> =>
                JoinedAt(JoinFragments(s), pack, Clamp(Offsets(Texts(pack))[m + 1], q, r))
           /\ part.content # <<>> /\ Link(part, m + 1) \in AChained =>
                JoinedAt(JoinFragments(Append(s, Link(part, m + 1))), pack,
                         Clamp(Offsets(Texts(pack))[m + 1], q, r))
<1> DEFINE o == Offsets(Texts(pack))
           n == m + 1
           a == o[m]
           b == o[n]
           p == Clamp(a, q, r)
           t == Clamp(b, q, r)
           x == Link(part, n)
<1>1. a \in Nat /\ b \in Nat /\ a < b /\ n \in 1..Count(pack) /\ n - 1 = m
  <2> HIDE DEF o
  <2>1. n \in 1..Len(pack.rules) /\ n - 1 = m
    OBVIOUS
  <2>2. o[n - 1] \in Nat /\ o[n] \in Nat /\ o[n - 1] < o[n] /\ n \in 1..Count(pack)
    <3> HIDE DEF n
    <3> QED
      BY <2>1, RulesAt DEF o
  <2> HIDE DEF n
  <2> QED
    BY <2>1, <2>2
<1>2. \A y : Place(pack, n, y) = Cut(y, a, b)
  BY <1>1 DEF Place
<1>3. /\ part.content = Of(pack, n, q, r)
      /\ part.content # <<>> => part.truncated = (Place(pack, n, r) < Long(pack, n))
  BY DEF Shows
<1>4. (Of(pack, n, q, r) = <<>>) = (Place(pack, n, q) = Place(pack, n, r))
  <2> HIDE DEF n
  <2> QED
    BY <1>1, OfGoesOn
<1>5. JoinedAt(JoinFragments(s), pack, p)
  OBVIOUS
<1> SUFFICES /\ part.content = <<>> => JoinedAt(JoinFragments(s), pack, t)
             /\ part.content # <<>> /\ x \in AChained => JoinedAt(JoinFragments(Append(s, x)), pack, t)
  OBVIOUS
<1> HIDE DEF a, b
<1>6. /\ p \in Nat /\ t \in Nat
      /\ Cut(q, a, b) = Cut(r, a, b) => t = p
      /\ Cut(q, a, b) # Cut(r, a, b) =>
           a <= p /\ p < t /\ t <= b /\ Cut(p, a, b) = Cut(q, a, b) /\ Cut(t, a, b) = Cut(r, a, b)
  BY <1>1 DEF Clamp, Cut
<1>7. ASSUME part.content = <<>> PROVE JoinedAt(JoinFragments(s), pack, t)
  <2>1. t = p
    BY <1>2, <1>3, <1>4, <1>6, <1>7
  <2> HIDE DEF p, t
  <2> QED
    BY <1>5, <2>1
<1>8. ASSUME part.content # <<>>, x \in AChained PROVE JoinedAt(JoinFragments(Append(s, x)), pack, t)
  <2>1. a <= p /\ p < t /\ t <= b /\ Place(pack, n, p) = Place(pack, n, q) /\ Place(pack, n, t) = Place(pack, n, r)
    BY <1>2, <1>3, <1>4, <1>6, <1>8
  <2>2. x.path = n /\ x.content = part.content /\ x.truncated = part.truncated
    BY DEF Link
  <2>3. x.content = Of(pack, n, p, t)
    <3> HIDE DEF p, t, n, x
    <3> QED
      BY <1>3, <2>1, <2>2 DEF Of
  <2>4. x.truncated = (Place(pack, n, t) < Long(pack, n))
    <3> HIDE DEF p, t, n, x
    <3> QED
      BY <1>3, <1>8, <2>1, <2>2
  <2> DEFINE J == JoinFragments(s)
  <2>5. J \in Seq(AChained) /\ JoinFragments(Append(s, x)) = Join(J, x)
    <3> HIDE DEF x
    <3> QED
      BY <1>8, JoinMore
  <2> HIDE DEF J, p, t, x
  <2>6. JoinedAt(J, pack, p)
    BY <1>5 DEF J
  <2>7. x \in AChained
    BY <1>8
  <2>8. p \in Nat /\ t \in Nat
    BY <1>6
  <2>9. o[m] <= p /\ p < t /\ t <= o[m + 1]
    BY <2>1 DEF a, b
  <2>10. JoinedAt(Join(J, x), pack, t)
    BY <2>2, <2>3, <2>4, <2>6, <2>7, <2>8, <2>9, JoinRule
  <2> QED
    BY <2>5, <2>10
<1> QED
  BY <1>7, <1>8

\* The rules of a page are joined to those of the pages before, when it goes on where they ended.
LEMMA JoinPage ==
    ASSUME NEW pack \in Pack, NEW q \in Nat, NEW r \in Nat, q <= r, NEW s \in Seq(AChained),
           JoinedAt(JoinFragments(s), pack, q), NEW parts \in Seq(AFragment), Len(parts) = Len(pack.rules),
           \A n \in 1..Len(pack.rules) : Shows(parts[n], pack, n, q, r)
    PROVE  JoinedAt(JoinFragments(s \o RuleChain(parts)), pack, r)
<1> DEFINE o == Offsets(Texts(pack))
           R == Len(pack.rules)
           c(m) == FlattenSeq(Links(parts, m))
           At(m) == Clamp(o[m], q, r)
           S == {m \in Nat : m \in 0..R =>
                    c(m) \in Seq(AChained) /\ JoinedAt(JoinFragments(s \o c(m)), pack, At(m))}
<1>1. R \in Nat /\ o[0] = 0 /\ \A k \in 0..R : o[k] \in Nat
  BY RulesAt
<1>2. 0 \in S
  <2>1. c(0) = <<>> /\ <<>> \in Seq(AChained)
    BY LinksNone
  <2>2. s \o <<>> = s
    OBVIOUS
  <2>3. At(0) = q
    BY <1>1 DEF Clamp
  <2> HIDE DEF c, At
  <2> QED
    BY <2>1, <2>2, <2>3
<1>3. ASSUME NEW m \in Nat, m \in S PROVE m + 1 \in S
  <2> SUFFICES ASSUME m + 1 \in 0..R
               PROVE  c(m + 1) \in Seq(AChained) /\ JoinedAt(JoinFragments(s \o c(m + 1)), pack, At(m + 1))
    OBVIOUS
  <2>1. m + 1 \in 1..R /\ m \in 0..R
    <3> HIDE DEF R
    <3> QED
      BY <1>1
  <2>2. c(m) \in Seq(AChained) /\ JoinedAt(JoinFragments(s \o c(m)), pack, At(m))
    <3> HIDE DEF c, At, R
    <3> QED
      BY <1>3, <2>1
  <2> DEFINE part == parts[m + 1]
             x == Link(part, m + 1)
             so == s \o c(m)
  <2>3. /\ part.content = <<>> => c(m + 1) = c(m)
        /\ part.content # <<>> => c(m + 1) = Append(c(m), x)
    BY <2>1, ChainMore
  <2>4. x \in AChained
    BY <2>1, LinkType
  <2>5. Shows(part, pack, m + 1, q, r)
    BY <2>1
  <2>6. so \in Seq(AChained) /\ s \o Append(c(m), x) = Append(so, x) /\ Append(c(m), x) \in Seq(AChained)
    <3> HIDE DEF x
    <3> DEFINE y == c(m)
    <3>1. y \in Seq(AChained)
      BY <2>2
    <3> HIDE DEF y
    <3>2. s \o y \in Seq(AChained) /\ s \o Append(y, x) = Append(s \o y, x) /\ Append(y, x) \in Seq(AChained)
      BY <2>4, <3>1
    <3> QED
      BY <3>2 DEF y
  <2> HIDE DEF part, so, c
  <2>7. JoinedAt(JoinFragments(so), pack, Clamp(o[m], q, r))
    BY <2>2 DEF so
  <2>8. /\ part.content = <<>> => JoinedAt(JoinFragments(so), pack, At(m + 1))
        /\ part.content # <<>> => JoinedAt(JoinFragments(Append(so, x)), pack, At(m + 1))
    BY <2>1, <2>4, <2>5, <2>6, <2>7, JoinLink
  <2> HIDE DEF At, x
  <2>9. CASE part.content = <<>>
    BY <2>2, <2>3, <2>8, <2>9 DEF so
  <2>10. CASE part.content # <<>>
    BY <2>3, <2>6, <2>8, <2>10
  <2> QED
    BY <2>9, <2>10
<1> HIDE DEF S
<1>4. \A m \in Nat : m \in S
  BY <1>2, <1>3, Upwards
<1>5. R \in S /\ R \in 0..R
  BY <1>1, <1>4
<1>6. JoinedAt(JoinFragments(s \o c(R)), pack, At(R))
  BY <1>5 DEF S
<1>7. RuleChain(parts) = c(R)
  BY ChainIs
<1> DEFINE J == JoinFragments(s \o RuleChain(parts))
<1>8. JoinedAt(J, pack, Clamp(o[R], q, r))
  BY <1>6, <1>7
<1> HIDE DEF J, c
<1>9. CASE r <= o[R] /\ q < o[R]
  <2>1. Clamp(o[R], q, r) = r
    <3> DEFINE e == o[R]
    <3>1. e \in Nat /\ r <= e /\ q < e
      BY <1>1, <1>9
    <3> HIDE DEF e
    <3>2. Clamp(e, q, r) = r
      BY <3>1 DEF Clamp
    <3> QED
      BY <3>2 DEF e
  <2> QED
    BY <1>8, <2>1 DEF J
<1>10. CASE ~(r <= o[R] /\ q < o[R])
  <2> DEFINE e == o[R]
             at == Clamp(e, q, r)
  <2>1. e \in Nat /\ ~(r <= e /\ q < e)
    BY <1>1, <1>10
  <2> HIDE DEF e
  <2>2. at \in Nat /\ at <= r /\ e <= at
    BY <2>1 DEF Clamp
  <2>3. JoinedAt(J, pack, at)
    BY <1>8 DEF e
  <2>4. o[R] <= at
    BY <2>2 DEF e
  <2> HIDE DEF at
  <2>5. JoinedAt(J, pack, r)
    BY <2>2, <2>3, <2>4, JoinedLater
  <2> QED
    BY <2>5 DEF J
<1> QED
  BY <1>9, <1>10

\* Before the first page nothing has been joined.
LEMMA JoinedNone == ASSUME NEW pack \in Pack PROVE JoinedAt(JoinFragments(<<>>), pack, 0)
<1> DEFINE R == Len(pack.rules)
           o == Offsets(Texts(pack))
<1>1. <<>> \in Seq(AChained) /\ Len(<<>>) = 0 /\ 1..0 = {}
  OBVIOUS
<1>2. R \in Nat /\ \A k \in 1..R : o[k - 1] \in Nat
  BY RulesAt
<1>3. \A k \in 1..R : (k <= 0) = (o[k - 1] < 0)
  <2> HIDE DEF R, o
  <2> SUFFICES ASSUME NEW k \in 1..R PROVE (k <= 0) = (o[k - 1] < 0)
    OBVIOUS
  <2> QED
    BY <1>2
<1>4. 0 \in 0..R
  BY <1>2
<1> QED
  BY <1>1, <1>3, <1>4, JoinNone DEF JoinedAt

\* Past the end of a skill, its rules have been joined whole.
LEMMA JoinedWhole ==
    ASSUME NEW pack \in Pack, NEW x \in Nat, x >= End(pack), NEW joined, JoinedAt(joined, pack, x)
    PROVE  joined = Whole(pack.rules)
<1> DEFINE R == Len(pack.rules)
           o == Offsets(Texts(pack))
<1>1. /\ R \in Nat /\ \A k \in 1..R : o[k - 1] \in Nat /\ o[k] \in Nat /\ o[k - 1] < o[k] /\ k \in 1..Count(pack)
      /\ \A k \in 0..R : o[k] \in Nat
  BY RulesAt
<1>2. /\ joined \in Seq(AChained) /\ Len(joined) \in 0..R
      /\ \A k \in 1..R : (k <= Len(joined)) = (o[k - 1] < x)
      /\ \A k \in 1..Len(joined) : /\ joined[k].path = k /\ joined[k].content = Of(pack, k, 0, x)
                                   /\ joined[k].truncated = (Place(pack, k, x) < Long(pack, k))
  BY DEF JoinedAt
<1>3. \A k \in 1..R : /\ Place(pack, k, x) = Long(pack, k) /\ Long(pack, k) \in Nat /\ Place(pack, k, 0) = 0
                      /\ o[k] <= End(pack)
  BY <1>1, PlaceIs
<1>4. \A k \in 1..R : o[k - 1] < x
  <2> SUFFICES ASSUME NEW k \in 1..R PROVE o[k - 1] < x
    OBVIOUS
  <2>1. o[k - 1] \in Nat /\ o[k] \in Nat /\ o[k - 1] < o[k] /\ o[k] <= End(pack)
    BY <1>1, <1>3
  <2>2. End(pack) \in Nat
    BY FilledShows
  <2> QED
    BY <2>1, <2>2
<1>5. Len(joined) = R
  <2> HIDE DEF R, o
  <2>1. R # 0 => R <= Len(joined)
    <3>1. R # 0 => R \in 1..R
      BY <1>1
    <3> QED
      BY <1>2, <1>4, <3>1
  <2> QED
    BY <1>1, <1>2, <2>1
<1>6. \A k \in 1..R : Long(pack, k) = Len(pack.rules[k])
  BY TextsAre DEF Long
<1>7. ASSUME NEW k \in 1..R
      PROVE  joined[k] = [path |-> k, content |-> All(pack.rules[k]), truncated |-> FALSE]
  <2>1. joined[k] \in AChained
    BY <1>2, <1>5
  <2>2. joined[k].path = k /\ joined[k].content = Of(pack, k, 0, x)
    BY <1>2, <1>5
  <2>3. joined[k].truncated = FALSE
    <3>1. (Place(pack, k, x) < Long(pack, k)) = FALSE
      BY <1>3
    <3>2. joined[k].truncated = (Place(pack, k, x) < Long(pack, k))
      BY <1>2, <1>5
    <3> QED
      BY <3>1, <3>2, Zenon
  <2>4. Of(pack, k, 0, x) = All(pack.rules[k])
    <3>1. Of(pack, k, 0, x) = Piece(0, Long(pack, k))
      BY <1>3 DEF Of
    <3>2. DOMAIN pack.rules[k] = 1..Long(pack, k)
      <4>1. pack.rules[k] \in Text
        BY PackIs
      <4> QED
        BY <1>6, <4>1 DEF Text
    <3> DEFINE l == Long(pack, k)
    <3>3. l \in Nat
      BY <1>3
    <3> HIDE DEF l
    <3>4. Piece(0, l) = [n \in 1..l |-> n]
      BY <3>3 DEF Piece
    <3> QED
      BY <3>1, <3>2, <3>4 DEF All, l
  <2>5. joined[k] = [path |-> joined[k].path, content |-> joined[k].content, truncated |-> joined[k].truncated]
    BY <2>1 DEF AChained
  <2> QED
    BY <2>2, <2>3, <2>4, <2>5
<1>8. DOMAIN pack.rules = 1..R
  BY PackIs, LenProperties
<1>9. joined = [k \in 1..R |-> joined[k]]
  <2>1. joined \in [1..R -> AChained]
    BY <1>2, <1>5, LenProperties
  <2> HIDE DEF R
  <2> QED
    BY <2>1
<1> HIDE DEF R
<1>10. joined = [k \in 1..R |-> [path |-> k, content |-> All(pack.rules[k]), truncated |-> FALSE]]
  BY <1>7, <1>9
<1> QED
  BY <1>8, <1>10 DEF Whole

-----------------------------------------------------------------------------
(* What a client has read *)

\* A page of a skill names each of its included files.
APageOf(pack) == {p \in APage : Len(p.included) = Len(pack.included)}

\* What is added up and joined of each page.
RuleOf(pack, n)     == [p \in APageOf(pack) |-> OfRule(p, n)]
BodyOf(pack)        == [p \in APageOf(pack) |-> p.body]
IncludedOf(pack, n) == [p \in APageOf(pack) |-> p.included[n].content]
RulesOf(pack)       == [p \in APageOf(pack) |-> p.rules]

\* A client with these pages has read a skill up to a place: of each text, what lies before it.
ReadUpTo(got, pack, x) ==
    LET R == Len(pack.rules) IN
    /\ got \in Seq(APageOf(pack))
    /\ \A n \in 1..R : FlattenSeq(Mapped(RuleOf(pack, n), got)) = Of(pack, n, 0, x)
    /\ FlattenSeq(Mapped(BodyOf(pack), got)) = Of(pack, R + 1, 0, x)
    /\ \A n \in 1..Len(pack.included) :
         FlattenSeq(Mapped(IncludedOf(pack, n), got)) = Of(pack, R + 1 + n, 0, x)
    /\ JoinedAt(JoinFragments(FlattenSeq(Mapped(RulesOf(pack), got))), pack, x)

\* What is added up of each page is text, and fragments.
LEMMA PartsMap ==
    ASSUME NEW pack \in Pack
    PROVE  /\ \A n : Maps(RuleOf(pack, n), APageOf(pack), Nat)
           /\ Maps(BodyOf(pack), APageOf(pack), Nat)
           /\ \A n \in 1..Len(pack.included) : Maps(IncludedOf(pack, n), APageOf(pack), Nat)
           /\ Maps(RulesOf(pack), APageOf(pack), AChained)
<1>1. ASSUME NEW p \in APageOf(pack)
      PROVE  /\ p.rules \in Seq(AChained) /\ p.body \in Seq(Nat)
             /\ p.included \in Seq(AFragment) /\ Len(p.included) = Len(pack.included)
  BY DEF APageOf, APage
<1>2. ASSUME NEW p \in APageOf(pack), NEW n PROVE OfRule(p, n) \in Seq(Nat)
  <2>1. p.rules \in Seq(AChained)
    BY <1>1
  <2>2. OfRule(p, n) = FlattenSeq(Mapped(OfFragments(n), p.rules)) /\ Maps(OfFragments(n), AChained, Nat)
    BY <2>1, OfRuleIs DEF Maps
  <2> QED
    BY <2>1, <2>2, MappedType
<1>3. ASSUME NEW p \in APageOf(pack), NEW n \in 1..Len(pack.included) PROVE p.included[n].content \in Seq(Nat)
  <2>1. p.included[n] \in AFragment
    BY <1>1
  <2> QED
    BY <2>1 DEF AFragment
<1> QED
  BY <1>1, <1>2, <1>3 DEF Maps, RuleOf, BodyOf, IncludedOf, RulesOf

\* The texts of a skill are its rules, its body and its included files, in that order.
LEMMA CountIs ==
    ASSUME NEW pack \in Pack
    PROVE  LET R == Len(pack.rules)
               I == Len(pack.included)
           IN  /\ R \in Nat /\ I \in Nat /\ R + 1 \in 1..Count(pack)
               /\ \A n \in 1..R : n \in 1..Count(pack)
               /\ \A n \in 1..I : R + 1 + n \in 1..Count(pack)
<1> DEFINE R == Len(pack.rules)
           I == Len(pack.included)
<1>1. R \in Nat /\ I \in Nat
  BY PackIs, LenProperties
<1>2. Count(pack) = R + 1 + I
  BY DEF Count
<1> SUFFICES /\ R \in Nat /\ I \in Nat /\ R + 1 \in 1..Count(pack)
             /\ \A n \in 1..R : n \in 1..Count(pack)
             /\ \A n \in 1..I : R + 1 + n \in 1..Count(pack)
  OBVIOUS
<1> HIDE DEF R, I
<1> QED
  BY <1>1, <1>2

\* Before the start of a skill there is nothing of any text.
LEMMA OfNone == ASSUME NEW pack \in Pack, NEW k \in 1..Count(pack) PROVE Of(pack, k, 0, 0) = <<>>
<1>1. Place(pack, k, 0) = 0
  BY PlaceIs
<1>2. Piece(0, 0) = <<>>
  BY PieceNone
<1> QED
  BY <1>1, <1>2 DEF Of

\* Who has read no page is at the start of any skill.
LEMMA ReadNone == ASSUME NEW pack \in Pack PROVE ReadUpTo(<<>>, pack, 0)
<1>1. <<>> \in Seq(APageOf(pack)) /\ \A G : FlattenSeq(Mapped(G, <<>>)) = <<>>
  BY MappedNone
<1>2. \A n \in 1..Len(pack.rules) : Of(pack, n, 0, 0) = <<>>
  BY CountIs, OfNone
<1>3. Of(pack, Len(pack.rules) + 1, 0, 0) = <<>>
  BY CountIs, OfNone
<1>4. \A n \in 1..Len(pack.included) : Of(pack, Len(pack.rules) + 1 + n, 0, 0) = <<>>
  BY CountIs, OfNone
<1>5. JoinedAt(JoinFragments(<<>>), pack, 0)
  BY JoinedNone
<1> QED
  BY <1>1, <1>2, <1>3, <1>4, <1>5 DEF ReadUpTo

\* Who has read a skill up to a place, and reads a page from there, has read it up to the end of
\* that page.
LEMMA ReadMore ==
    ASSUME NEW pack \in Pack, NEW x \in Nat, NEW bytes \in Nat, NEW got, ReadUpTo(got, pack, x)
    PROVE  LET page == MakePage(pack, x, bytes) IN
           page \in APageOf(pack) /\ ReadUpTo(Append(got, page), pack, page.next)
<1> DEFINE page == MakePage(pack, x, bytes)
           R == Len(pack.rules)
           I == Len(pack.included)
           y == page.next
           A == APageOf(pack)
<1>1. PageOf(page, pack, x)
  BY PageIs
<1>2. page = [rules |-> page.rules, body |-> page.body, included |-> page.included, next |-> page.next,
              more |-> page.more, complete |-> page.complete]
  BY PageIs
<1>3. PICK parts \in Seq(AFragment) :
        /\ Len(parts) = R /\ page.rules = RuleChain(parts)
        /\ \A n \in 1..R : Shows(parts[n], pack, n, x, y)
  BY PageIs
<1> SUFFICES page \in A /\ ReadUpTo(Append(got, page), pack, y)
  OBVIOUS
<1> HIDE DEF page
<1>4. /\ y \in Nat /\ y >= x /\ page.body = Of(pack, R + 1, x, y)
      /\ page.included \in Seq(AFragment) /\ Len(page.included) = I
      /\ \A n \in 1..I : page.included[n].content = Of(pack, R + 1 + n, x, y)
      /\ page.more \in BOOLEAN /\ page.complete \in BOOLEAN
  BY <1>1 DEF PageOf
<1>5. page.rules \in Seq(AChained) /\ \A n \in 1..R : OfRule(page, n) = Of(pack, n, x, y)
  <2>1. \A n \in 1..R : page.rules \in Seq(AChained) /\ OfRule(page, n) = parts[n].content
    BY <1>3, OfChain
  <2>2. \A n \in 1..R : parts[n].content = Of(pack, n, x, y)
    BY <1>3 DEF Shows
  <2>3. page.rules \in Seq(AChained)
    <3>1. page.rules = FlattenSeq(Links(parts, R))
      BY <1>3, ChainIs
    <3>2. R \in 0..Len(parts)
      <4>1. R \in Nat
        BY CountIs
      <4> HIDE DEF R
      <4> QED
        BY <1>3, <4>1
    <3>3. Links(parts, R) \in Seq(Seq(AChained))
      BY <3>2, LinksType
    <3> QED
      BY <3>1, <3>3, FlattenType
  <2> QED
    BY <2>1, <2>2, <2>3
<1>6. \A k \in 1..Count(pack) : /\ Of(pack, k, 0, x) \o Of(pack, k, x, y) = Of(pack, k, 0, y)
                                /\ Of(pack, k, x, y) \in Seq(Nat)
  <2>1. y \in Nat /\ x <= y
    BY <1>4
  <2> HIDE DEF y
  <2> QED
    BY <2>1, OfGoesOn
<1>7. page \in A
  <2>1. R + 1 \in 1..Count(pack)
    BY CountIs
  <2>2. page.body \in Seq(Nat)
    BY <1>4, <1>6, <2>1
  <2> DEFINE rec == [rules |-> page.rules, body |-> page.body, included |-> page.included, next |-> page.next,
                     more |-> page.more, complete |-> page.complete]
  <2>3. rec \in APage
    BY <1>4, <1>5, <2>2 DEF APage
  <2>4. page \in APage
    BY <1>2, <2>3
  <2> QED
    BY <1>4, <2>4 DEF APageOf
<1>8. /\ got \in Seq(A)
      /\ \A n \in 1..R : FlattenSeq(Mapped(RuleOf(pack, n), got)) = Of(pack, n, 0, x)
      /\ FlattenSeq(Mapped(BodyOf(pack), got)) = Of(pack, R + 1, 0, x)
      /\ \A n \in 1..I : FlattenSeq(Mapped(IncludedOf(pack, n), got)) = Of(pack, R + 1 + n, 0, x)
      /\ JoinedAt(JoinFragments(FlattenSeq(Mapped(RulesOf(pack), got))), pack, x)
  BY DEF ReadUpTo
<1> HIDE DEF A, y
<1> DEFINE more == Append(got, page)
<1>9. more \in Seq(A)
  BY <1>7, <1>8
<1>10. ASSUME NEW B, NEW G, Maps(G, A, B)
       PROVE  /\ FlattenSeq(Mapped(G, got)) \in Seq(B)
              /\ FlattenSeq(Mapped(G, more)) = FlattenSeq(Mapped(G, got)) \o G[page]
  BY <1>7, <1>8, <1>10, MappedMore
<1> HIDE DEF more
<1>11. ASSUME NEW n \in 1..R PROVE FlattenSeq(Mapped(RuleOf(pack, n), more)) = Of(pack, n, 0, y)
  <2>1. Maps(RuleOf(pack, n), A, Nat) /\ n \in 1..Count(pack)
    BY PartsMap, CountIs DEF A
  <2>2. RuleOf(pack, n)[page] = Of(pack, n, x, y)
    BY <1>5, <1>7 DEF RuleOf, A
  <2>3. FlattenSeq(Mapped(RuleOf(pack, n), more)) = FlattenSeq(Mapped(RuleOf(pack, n), got)) \o RuleOf(pack, n)[page]
    BY <1>10, <2>1
  <2> QED
    BY <1>6, <1>8, <2>1, <2>2, <2>3
<1>12. FlattenSeq(Mapped(BodyOf(pack), more)) = Of(pack, R + 1, 0, y)
  <2>1. Maps(BodyOf(pack), A, Nat) /\ R + 1 \in 1..Count(pack)
    BY PartsMap, CountIs DEF A
  <2>2. BodyOf(pack)[page] = Of(pack, R + 1, x, y)
    BY <1>4, <1>7 DEF BodyOf, A
  <2>3. FlattenSeq(Mapped(BodyOf(pack), more)) = FlattenSeq(Mapped(BodyOf(pack), got)) \o BodyOf(pack)[page]
    BY <1>10, <2>1
  <2> QED
    BY <1>6, <1>8, <2>1, <2>2, <2>3
<1>13. ASSUME NEW n \in 1..I PROVE FlattenSeq(Mapped(IncludedOf(pack, n), more)) = Of(pack, R + 1 + n, 0, y)
  <2>1. Maps(IncludedOf(pack, n), A, Nat) /\ R + 1 + n \in 1..Count(pack)
    BY PartsMap, CountIs DEF A
  <2>2. IncludedOf(pack, n)[page] = Of(pack, R + 1 + n, x, y)
    BY <1>4, <1>7 DEF IncludedOf, A
  <2>3. FlattenSeq(Mapped(IncludedOf(pack, n), more))
            = FlattenSeq(Mapped(IncludedOf(pack, n), got)) \o IncludedOf(pack, n)[page]
    BY <1>10, <2>1
  <2> QED
    BY <1>6, <1>8, <2>1, <2>2, <2>3
<1>14. JoinedAt(JoinFragments(FlattenSeq(Mapped(RulesOf(pack), more))), pack, y)
  <2> DEFINE s == FlattenSeq(Mapped(RulesOf(pack), got))
  <2>1. Maps(RulesOf(pack), A, AChained)
    BY PartsMap DEF A
  <2>2. s \in Seq(AChained) /\ FlattenSeq(Mapped(RulesOf(pack), more)) = s \o RulesOf(pack)[page]
    BY <1>10, <2>1
  <2>3. RulesOf(pack)[page] = RuleChain(parts)
    BY <1>3, <1>7 DEF RulesOf, A
  <2>4. JoinedAt(JoinFragments(s), pack, x)
    BY <1>8
  <2> HIDE DEF s
  <2>5. \A n \in 1..R : Shows(parts[n], pack, n, x, y)
    BY <1>3
  <2>6. x <= y /\ y \in Nat
    BY <1>4
  <2>7. JoinedAt(JoinFragments(s \o RuleChain(parts)), pack, y)
    BY <1>3, <2>2, <2>4, <2>5, <2>6, JoinPage
  <2> QED
    BY <2>2, <2>3, <2>7
<1>15. ReadUpTo(more, pack, y)
  BY <1>9, <1>11, <1>12, <1>13, <1>14 DEF ReadUpTo, A
<1> QED
  BY <1>7, <1>15 DEF more

\* Past the end of a skill, all of each text has been read.
LEMMA OfWhole ==
    ASSUME NEW pack \in Pack, NEW k \in 1..Count(pack), NEW x \in Nat, x >= End(pack)
    PROVE  Of(pack, k, 0, x) = All(Texts(pack)[k])
<1> DEFINE text == Texts(pack)[k]
<1>1. Place(pack, k, x) = Long(pack, k) /\ Place(pack, k, 0) = 0 /\ Long(pack, k) \in Nat
  BY PlaceIs
<1>2. Texts(pack) \in Seq(Text) /\ Len(Texts(pack)) = Count(pack)
  <2> DEFINE texts == Texts(pack)
  <2> SUFFICES texts \in Seq(Text) /\ Len(texts) = Count(pack)
    OBVIOUS
  <2> HIDE DEF texts
  <2>1. texts \in Seq(Text) /\ Len(texts) = Len(pack.rules) + 1 + Len(pack.included)
    BY TextsAre DEF texts
  <2> QED
    BY <2>1 DEF Count
<1>3. text \in Text
  BY <1>2
<1>4. DOMAIN text = 1..Long(pack, k)
  <2>1. DOMAIN text = 1..Len(text)
    BY <1>3 DEF Text
  <2> QED
    BY <2>1 DEF Long
<1> DEFINE l == Long(pack, k)
<1> HIDE DEF l, text
<1>5. l \in Nat /\ DOMAIN text = 1..l
  BY <1>1, <1>4 DEF l
<1>6. Piece(0, l) = [n \in 1..l |-> n]
  BY <1>5 DEF Piece
<1>7. Of(pack, k, 0, x) = Piece(0, l)
  BY <1>1 DEF Of, l
<1>8. All(text) = [n \in 1..l |-> n]
  BY <1>5 DEF All
<1> QED
  BY <1>6, <1>7, <1>8 DEF text

-----------------------------------------------------------------------------

\* A page that was read, with the number of the index it was read of.
ARead(pack) == [n: Nat, page: APageOf(pack)]

\* Where the client is.
ReadTo == IF read = <<>> THEN 0 ELSE Last(read).page.next

\* The client has read the skill of one index up to where its cursor says; with the index of that number
\* the server goes on, with another it does not; and when the skill is whole, nothing follows.
SkillInv ==
    /\ index \in [n: Nat, pack: Pack] /\ from \in Pack
    /\ read \in Seq(ARead(from))
    /\ read # <<>> => Last(read).n <= index.n /\ (Last(read).n = index.n => from = index.pack)
    /\ ReadUpTo(Pages, from, ReadTo)
    /\ reading = "whole" =>
         /\ read # <<>> /\ ReadTo >= End(from)
         /\ \A n \in 1..Len(from.included) : from.included[n] # Unavailable

\* A client is at some place of a skill.
LEMMA ReadToType == ASSUME NEW pack, read \in Seq(ARead(pack)) PROVE ReadTo \in Nat
<1>1. CASE read = <<>>
  BY <1>1 DEF ReadTo
<1>2. CASE read # <<>>
  <2>1. Len(read) \in 1..Len(read)
    BY <1>2
  <2>2. Last(read) \in ARead(pack)
    BY <2>1 DEF Last
  <2>3. Last(read).page \in APage
    BY <2>2 DEF ARead, APageOf
  <2> QED
    BY <1>2, <2>3 DEF ReadTo, APage
<1> QED
  BY <1>1, <1>2

\* What the clients make of the pages, of a skill that is whole.
LEMMA SkillMade == SkillInv => PagesMakeTheSkill
<1> SUFFICES ASSUME SkillInv, reading = "whole"
             PROVE  /\ AddedUp = [rules    |-> [n \in DOMAIN from.rules |-> All(from.rules[n])],
                                  body     |-> All(from.body),
                                  included |-> [n \in DOMAIN from.included |-> All(from.included[n])]]
                    /\ JoinedRules = Whole(from.rules)
  BY DEF PagesMakeTheSkill
<1> DEFINE R == Len(from.rules)
           I == Len(from.included)
           x == ReadTo
<1>1. /\ from \in Pack /\ x \in Nat /\ x >= End(from) /\ ReadUpTo(Pages, from, x)
      /\ \A n \in 1..I : from.included[n] # Unavailable
  BY ReadToType DEF SkillInv
<1>2. DOMAIN from.rules = 1..R /\ DOMAIN from.included = 1..I
  BY <1>1, PackIs, LenProperties
<1> HIDE DEF x
<1>3. /\ Pages \in Seq(APageOf(from))
      /\ \A n \in 1..R : FlattenSeq(Mapped(RuleOf(from, n), Pages)) = Of(from, n, 0, x)
      /\ FlattenSeq(Mapped(BodyOf(from), Pages)) = Of(from, R + 1, 0, x)
      /\ \A n \in 1..I : FlattenSeq(Mapped(IncludedOf(from, n), Pages)) = Of(from, R + 1 + n, 0, x)
      /\ JoinedAt(JoinFragments(FlattenSeq(Mapped(RulesOf(from), Pages))), from, x)
  BY <1>1 DEF ReadUpTo
<1>4. \A i \in DOMAIN Pages : Pages[i] \in APageOf(from)
  BY <1>3, LenProperties
<1>5. /\ \A n : Mapped(RuleOf(from, n), Pages) = [i \in DOMAIN Pages |-> OfRule(Pages[i], n)]
      /\ Mapped(BodyOf(from), Pages) = [i \in DOMAIN Pages |-> Pages[i].body]
      /\ \A n : Mapped(IncludedOf(from, n), Pages) = [i \in DOMAIN Pages |-> Pages[i].included[n].content]
      /\ Mapped(RulesOf(from), Pages) = [i \in DOMAIN Pages |-> Pages[i].rules]
  BY <1>4 DEF Mapped, RuleOf, BodyOf, IncludedOf, RulesOf
<1>6. /\ \A n \in 1..R : Of(from, n, 0, x) = All(from.rules[n])
      /\ Of(from, R + 1, 0, x) = All(from.body)
      /\ \A n \in 1..I : Of(from, R + 1 + n, 0, x) = All(from.included[n])
  <2>1. /\ \A n \in 1..R : Texts(from)[n] = from.rules[n] /\ n \in 1..Count(from)
        /\ Texts(from)[R + 1] = from.body /\ R + 1 \in 1..Count(from)
        /\ \A n \in 1..I : Texts(from)[R + 1 + n] = Given(from.included[n]) /\ R + 1 + n \in 1..Count(from)
    BY <1>1, TextsAre, CountIs
  <2>2. \A n \in 1..I : Given(from.included[n]) = from.included[n]
    BY <1>1 DEF Given
  <2>3. \A k \in 1..Count(from) : Of(from, k, 0, x) = All(Texts(from)[k])
    BY <1>1, OfWhole
  <2> HIDE DEF R, I
  <2> QED
    BY <2>1, <2>2, <2>3
<1>7. AddedUp = [rules    |-> [n \in 1..R |-> Of(from, n, 0, x)],
                 body     |-> Of(from, R + 1, 0, x),
                 included |-> [n \in 1..I |-> Of(from, R + 1 + n, 0, x)]]
  <2>1. AddedUp = [rules    |-> [n \in 1..R |-> FlattenSeq(Mapped(RuleOf(from, n), Pages))],
                   body     |-> FlattenSeq(Mapped(BodyOf(from), Pages)),
                   included |-> [n \in 1..I |-> FlattenSeq(Mapped(IncludedOf(from, n), Pages))]]
    BY <1>2, <1>5 DEF AddedUp
  <2> HIDE DEF R, I
  <2> QED
    BY <1>3, <2>1
<1>8. JoinedRules = JoinFragments(FlattenSeq(Mapped(RulesOf(from), Pages)))
  BY <1>5 DEF JoinedRules
<1>9. JoinedRules = Whole(from.rules)
  BY <1>1, <1>3, <1>8, JoinedWhole
<1> HIDE DEF R, I
<1> QED
  BY <1>2, <1>6, <1>7, <1>9

\* One page more is put after the others.
LEMMA PagesMore ==
    ASSUME NEW pack, read \in Seq(ARead(pack)), NEW r \in ARead(pack), read' = Append(read, r)
    PROVE  /\ read' \in Seq(ARead(pack)) /\ read' # <<>> /\ Last(read') = r
           /\ Pages' = Append(Pages, r.page)
<1> DEFINE n == Len(read)
<1>1. /\ n \in Nat /\ DOMAIN read = 1..n /\ Append(read, r) \in Seq(ARead(pack)) /\ Len(Append(read, r)) = n + 1
      /\ Append(read, r)[n + 1] = r /\ DOMAIN Append(read, r) = 1..n + 1 /\ \A i \in 1..n : Append(read, r)[i] = read[i]
  OBVIOUS
<1>2. read' \in Seq(ARead(pack)) /\ read' # <<>> /\ Last(read') = r
  BY <1>1 DEF Last
<1> HIDE DEF n
<1>3. Pages = [i \in 1..n |-> read[i].page] /\ Pages' = [i \in 1..n + 1 |-> read'[i].page]
  BY <1>1 DEF Pages
<1> DEFINE s == Pages
           A == {read[i].page : i \in 1..n} \union {r.page}
           app == Append(s, r.page)
<1>4. s \in Seq(A) /\ Len(s) = n /\ r.page \in A
  <2>1. s \in [1..n -> A]
    BY <1>3
  <2> HIDE DEF s, A
  <2>2. s \in Seq(A) /\ Len(s) = n
    BY <1>1, <2>1
  <2> QED
    BY <2>2 DEF A
<1> HIDE DEF s, A
<1>5. app \in Seq(A) /\ Len(app) = n + 1 /\ app[n + 1] = r.page /\ \A i \in 1..n : app[i] = s[i]
  BY <1>4
<1> HIDE DEF app
<1>6. app = [i \in 1..n + 1 |-> app[i]]
  <2>1. app \in [1..n + 1 -> A]
    BY <1>5, LenProperties
  <2> QED
    BY <2>1
<1>7. \A i \in 1..n + 1 : app[i] = read'[i].page
  <2> SUFFICES ASSUME NEW i \in 1..n + 1 PROVE app[i] = read'[i].page
    OBVIOUS
  <2>1. i = n + 1 \/ i \in 1..n
    BY <1>1
  <2>2. \A j \in 1..n : s[j] = read[j].page
    BY <1>3 DEF s
  <2> QED
    BY <1>1, <1>5, <2>1, <2>2
<1>8. Pages' = app
  BY <1>3, <1>6, <1>7
<1> QED
  BY <1>2, <1>8 DEF app, s

\* Who has read nothing has no pages.
LEMMA PagesNone == read = <<>> => Pages = <<>>
BY DEF Pages

\* It holds at first.
LEMMA SkillInitInv == SkillPagesInit => SkillInv
<1> SUFFICES ASSUME SkillPagesInit PROVE SkillInv
  OBVIOUS
<1>1. index \in [n: {1}, pack: Pack] /\ from = index.pack /\ read = <<>> /\ reading = "on"
  BY DEF SkillPagesInit
<1>2. index \in [n: Nat, pack: Pack] /\ from \in Pack
  BY <1>1
<1>3. Pages = <<>> /\ ReadTo = 0 /\ read \in Seq(ARead(from))
  BY <1>1, PagesNone DEF ReadTo
<1>4. ReadUpTo(Pages, from, ReadTo)
  BY <1>2, <1>3, ReadNone
<1> QED
  BY <1>1, <1>2, <1>3, <1>4 DEF SkillInv

\* Reading a page keeps it: the first is of the index that is served, and another only of the
\* same.
LEMMA ReadPageInv == ASSUME SkillInv, ReadPage PROVE SkillInv'
<1> DEFINE at == Cursor.at
           pack == index.pack
           bytes == BoundedPage(pack, at)
           page == MakePage(pack, at, bytes)
           r == [n |-> index.n, page |-> page]
<1>1. /\ index \in [n: Nat, pack: Pack] /\ from \in Pack /\ read \in Seq(ARead(from))
      /\ read # <<>> => Last(read).n <= index.n /\ (Last(read).n = index.n => from = index.pack)
      /\ ReadUpTo(Pages, from, ReadTo)
  BY DEF SkillInv
<1>2. /\ reading = "on" /\ Cursor.n = index.n /\ index' = index
      /\ from' = IF read = <<>> THEN index.pack ELSE from
  BY DEF ReadPage
<1>3. \/ reading' = "stuck" /\ read' = read
      \/ /\ read' = Append(read, r)
         /\ reading' = IF page.complete THEN "whole" ELSE IF page.more THEN "on" ELSE "incomplete"
  BY DEF ReadPage
<1>4. at = ReadTo /\ (read # <<>> => Last(read).n = index.n)
  BY <1>2 DEF Cursor, ReadTo
<1>5. from' = pack /\ pack \in Pack
  BY <1>1, <1>2, <1>4
<1>6. read \in Seq(ARead(pack)) /\ ReadUpTo(Pages, pack, ReadTo)
  <2>1. CASE read = <<>>
    <3>1. Pages = <<>> /\ ReadTo = 0
      BY <2>1, PagesNone DEF ReadTo
    <3>2. ReadUpTo(<<>>, pack, 0) /\ <<>> \in Seq(ARead(pack))
      BY <1>5, ReadNone
    <3> QED
      BY <2>1, <3>1, <3>2
  <2>2. CASE read # <<>>
    BY <1>1, <1>4, <2>2
  <2> QED
    BY <2>1, <2>2
<1>7. ReadTo \in Nat /\ bytes \in Nat
  BY <1>6, ReadToType, BoundedPageType
<1>8. index.n \in Nat
  BY <1>1
<1>9. CASE reading' = "stuck" /\ read' = read
  <2>1. Pages' = Pages /\ ReadTo' = ReadTo
    BY <1>9 DEF Pages, ReadTo
  <2>2. ReadUpTo(Pages', from', ReadTo')
    BY <1>5, <1>6, <2>1
  <2>3. read' # <<>> => Last(read').n <= index'.n /\ (Last(read').n = index'.n => from' = index'.pack)
    BY <1>2, <1>4, <1>5, <1>8, <1>9
  <2>4. read' \in Seq(ARead(from'))
    BY <1>5, <1>6, <1>9
  <2> HIDE DEF pack
  <2> QED
    BY <1>1, <1>2, <1>5, <1>9, <2>2, <2>3, <2>4 DEF SkillInv
<1>10. CASE /\ read' = Append(read, r)
            /\ reading' = IF page.complete THEN "whole" ELSE IF page.more THEN "on" ELSE "incomplete"
  <2>1. page \in APageOf(pack) /\ ReadUpTo(Append(Pages, page), pack, page.next)
    <3> HIDE DEF bytes, pack, at
    <3> QED
      BY <1>4, <1>5, <1>6, <1>7, ReadMore
  <2>2. PageOf(page, pack, at)
    <3> HIDE DEF bytes, pack, at
    <3> QED
      BY <1>4, <1>5, <1>7, PageIs
  <2> HIDE DEF page
  <2>3. r \in ARead(pack) /\ r.page = page /\ r.n = index.n
    BY <1>8, <2>1 DEF ARead
  <2> HIDE DEF r
  <2>4. /\ read' \in Seq(ARead(pack)) /\ read' # <<>> /\ Last(read') = r
        /\ Pages' = Append(Pages, r.page)
    BY <1>6, <1>10, <2>3, PagesMore
  <2>5. ReadTo' = page.next
    BY <2>3, <2>4 DEF ReadTo
  <2>6. reading' = "whole" => page.complete
    BY <1>10
  <2>7. page.complete => /\ page.next >= End(pack)
                         /\ \A n \in 1..Len(pack.included) : pack.included[n] # Unavailable
    BY <2>2 DEF PageOf
  <2> HIDE DEF pack
  <2>8. ReadUpTo(Pages', from', ReadTo')
    BY <1>5, <2>1, <2>3, <2>4, <2>5
  <2>9. Last(read').n <= index'.n /\ from' = index'.pack
    BY <1>2, <1>5, <1>8, <2>3, <2>4 DEF pack
  <2> QED
    BY <1>1, <1>2, <1>5, <2>4, <2>5, <2>6, <2>7, <2>8, <2>9 DEF SkillInv
<1> QED
  BY <1>3, <1>9, <1>10

\* So does every other step; the index that is built anew has another number.
LEMMA SkillStepInv == ASSUME SkillInv, [SkillPagesNext]_skillPages PROVE SkillInv'
<1>1. /\ index \in [n: Nat, pack: Pack] /\ from \in Pack /\ read \in Seq(ARead(from))
      /\ read # <<>> => Last(read).n <= index.n /\ (Last(read).n = index.n => from = index.pack)
      /\ ReadUpTo(Pages, from, ReadTo)
      /\ reading = "whole" =>
           /\ read # <<>> /\ ReadTo >= End(from)
           /\ \A n \in 1..Len(from.included) : from.included[n] # Unavailable
  BY DEF SkillInv
\* A step that leaves what has been read as it is, and no index older.
<1>2. ASSUME from' = from, read' = read, reading' # "whole" \/ reading' = reading,
             index' \in [n: Nat, pack: Pack],
             read # <<>> => Last(read).n <= index'.n /\ (Last(read).n = index'.n => from = index'.pack)
      PROVE  SkillInv'
  <2>1. Pages' = Pages /\ ReadTo' = ReadTo
    BY <1>2 DEF Pages, ReadTo
  <2> QED
    BY <1>1, <1>2, <2>1 DEF SkillInv
<1>3. CASE ReadPage
  BY <1>3, ReadPageInv
<1>4. CASE Refuse
  <2>1. from' = from /\ read' = read /\ index' = index /\ reading' = "refused"
    BY <1>4 DEF Refuse
  <2> QED
    BY <1>1, <1>2, <2>1
<1>5. CASE StartAgain
  <2>1. from' = from /\ read' = <<>> /\ index' = index /\ reading' = "on"
    BY <1>5 DEF StartAgain
  <2>2. Pages' = <<>> /\ ReadTo' = 0
    BY <2>1 DEF Pages, ReadTo
  <2>3. ReadUpTo(Pages', from', ReadTo') /\ read' \in Seq(ARead(from'))
    BY <1>1, <2>1, <2>2, ReadNone
  <2> QED
    BY <1>1, <2>1, <2>3 DEF SkillInv
<1>6. CASE BuildIndex
  <2>1. from' = from /\ read' = read /\ reading' = reading
        /\ \E p \in Pack : index' = [n |-> index.n + 1, pack |-> p]
    BY <1>6 DEF BuildIndex
  <2>2. index' \in [n: Nat, pack: Pack] /\ index'.n = index.n + 1 /\ index.n \in Nat
    BY <1>1, <2>1
  <2>3. read # <<>> => Last(read).n \in Nat
    <3> SUFFICES ASSUME read # <<>> PROVE Last(read).n \in Nat
      OBVIOUS
    <3>1. Len(read) \in 1..Len(read)
      BY <1>1
    <3>2. Last(read) \in ARead(from)
      BY <1>1, <3>1 DEF Last
    <3> QED
      BY <3>2 DEF ARead
  <2>4. read # <<>> => Last(read).n <= index'.n /\ (Last(read).n = index'.n => from = index'.pack)
    BY <1>1, <2>2, <2>3
  <2> QED
    BY <1>2, <2>1, <2>2, <2>4
<1>7. CASE UNCHANGED skillPages
  <2>1. from' = from /\ read' = read /\ reading' = reading /\ index' = index
    BY <1>7 DEF skillPages
  <2> QED
    BY <1>1, <1>2, <2>1
<1> QED
  BY <1>3, <1>4, <1>5, <1>6, <1>7 DEF SkillPagesNext

\* However a skill is cut into pages, which go on where the one before ended, and however often
\* its index is built anew while they are read: when a client has them all, what it has added up,
\* and what it has joined of the rules, is the skill, each character once and in order
\* (Reader.skill, joinSkillPages, MountSkill).
THEOREM PagesAreTheSkill == SkillPagesSpec => []PagesMakeTheSkill
<1>1. SkillPagesInit => SkillInv
  BY SkillInitInv
<1>2. SkillInv /\ [SkillPagesNext]_skillPages => SkillInv'
  BY SkillStepInv
<1>3. SkillInv => PagesMakeTheSkill
  BY SkillMade
<1> QED
  BY <1>1, <1>2, <1>3, PTL DEF SkillPagesSpec
=============================================================================
