----------------------------- MODULE Background_proofs -----------------------------
(***************************************************************************)
(* Theorems about what goes on in a server beside its answers: shared      *)
(* searches, remembered installations and their tokens, embedding, and the *)
(* counting of requests, for every value of the constants.  The four share *)
(* no state.                                                               *)
(***************************************************************************)
EXTENDS EmbeddingJobs, InstallationTokens, SearchCache, UsageRecorder, Sums, SequenceTheorems

-----------------------------------------------------------------------------
(* SearchCache *)

Leads(a, q) == askers[a].phase = "leads" /\ askers[a].question = q

Leaders == {a \in Asker : askers[a].phase = "leads"}

\* Who leads a search is the only one to lead it, and a question is pending exactly while someone
\* leads the search that answers it.
Led ==
    /\ \A a \in Leaders : askers[a].question \in pending
    /\ \A q \in pending : \E a \in Leaders : askers[a].question = q
    /\ \A a, b \in Leaders : askers[a].question = askers[b].question => a = b

Joined == \A a \in Asker : askers[a].phase = "waits" => askers[a].question \in pending

SearchersCounted == active \in Nat /\ active = Cardinality(Leaders) /\ active <= AtOnce

Searches == askers = [a \in Asker |-> askers[a]] /\ Led /\ Joined /\ SearchersCounted

LEMMA LeadersAreFinite == IsFiniteSet(Leaders) /\ Cardinality(Leaders) \in Nat
<1>1. IsFiniteSet(Asker) /\ Leaders \subseteq Asker
  BY SearchAssumption DEF Leaders
<1> QED
  BY <1>1, FS_Subset, FS_CardinalityType

LEMMA SearchesInit == SearchInit => Searches
<1> SUFFICES ASSUME SearchInit PROVE Searches
  OBVIOUS
<1>1. Leaders = {} /\ pending = {} /\ active = 0
  BY DEF SearchInit, Leaders, Quiet
<1>2. SearchersCounted
  BY <1>1, FS_EmptySet, SearchAssumption DEF SearchersCounted
<1> QED
  BY <1>1, <1>2 DEF SearchInit, Searches, Led, Joined, Quiet

\* An asker that is told something and neither led nor leads changes no search.
LEMMA OnlyTold ==
    ASSUME Searches, NEW a \in Asker, NEW s, askers' = [askers EXCEPT ![a] = s],
           UNCHANGED <<pending, active>>,
           askers[a].phase # "leads", s.phase # "leads",
           s.phase = "waits" => s.question \in pending
    PROVE  Searches'
<1>1. /\ askers' = [b \in Asker |-> askers'[b]] /\ askers'[a] = s
      /\ \A b \in Asker \ {a} : askers'[b] = askers[b]
  BY DEF Searches
<1>2. Leaders' = Leaders
  BY <1>1 DEF Leaders
<1>3. \A b \in Leaders : askers'[b] = askers[b]
  BY <1>1 DEF Leaders
<1> QED
  BY <1>1, <1>2, <1>3 DEF Searches, Led, Joined, SearchersCounted

LEMMA AskStep == ASSUME NEW a \in Asker PROVE Searches /\ AskSearch(a) => Searches'
<1> SUFFICES ASSUME Searches, AskSearch(a) PROVE Searches'
  OBVIOUS
<1>1. askers[a].phase # "leads"
  BY DEF AskSearch, Quiet
<1>2. PICK q \in Question : AskKept(a, q) \/ AskAnew(a, q)
  BY DEF AskSearch
<1>3. CASE AskKept(a, q)
  <2>1. PICK k \in KeptOf(q) : Says(a, [phase |-> "answered", question |-> q, age |-> k.age])
    BY <1>3 DEF AskKept
  <2> DEFINE s == [phase |-> "answered", question |-> q, age |-> k.age]
  <2>2. askers' = [askers EXCEPT ![a] = s] /\ s.phase = "answered"
    BY <2>1 DEF Says
  <2>3. UNCHANGED <<pending, active>>
    BY <1>3 DEF AskKept
  <2> HIDE DEF s
  <2> QED
    BY <1>1, <2>2, <2>3, OnlyTold
<1>4. CASE Joins(q) /\ Says(a, [phase |-> "waits", question |-> q]) /\ UNCHANGED <<pending, active>>
  <2> DEFINE s == [phase |-> "waits", question |-> q]
  <2>1. askers' = [askers EXCEPT ![a] = s] /\ s.phase = "waits" /\ s.question = q /\ q \in pending
    BY <1>4 DEF Says, Joins
  <2> HIDE DEF s
  <2> QED
    BY <1>1, <1>4, <2>1, OnlyTold
<1>5. CASE Says(a, [phase |-> "busy", question |-> q]) /\ UNCHANGED <<pending, active>>
  <2> DEFINE s == [phase |-> "busy", question |-> q]
  <2>1. askers' = [askers EXCEPT ![a] = s] /\ s.phase = "busy"
    BY <1>5 DEF Says
  <2> HIDE DEF s
  <2> QED
    BY <1>1, <1>5, <2>1, OnlyTold
<1>6. CASE /\ ~Joins(q) /\ ~Busy
           /\ Says(a, [phase |-> "leads", question |-> q])
           /\ pending' = pending \union {q}
           /\ active' = active + 1
  <2>1. /\ askers' = [b \in Asker |-> askers'[b]] /\ askers'[a] = [phase |-> "leads", question |-> q]
        /\ \A b \in Asker \ {a} : askers'[b] = askers[b]
    BY <1>6 DEF Searches, Says
  <2>2. Leaders' = Leaders \union {a} /\ a \notin Leaders
    BY <1>1, <2>1 DEF Leaders
  <2>3. SearchersCounted'
    <3>1. Cardinality(Leaders') = Cardinality(Leaders) + 1
      BY <2>2, LeadersAreFinite, FS_AddElement
    <3>2. active \in Nat /\ active = Cardinality(Leaders) /\ active < AtOnce /\ AtOnce \in Nat
      BY <1>6, SearchAssumption DEF Searches, SearchersCounted, Busy
    <3> QED
      BY <1>6, <3>1, <3>2 DEF SearchersCounted
  <2>4. \A b \in Leaders : b \in Asker \ {a} /\ askers'[b] = askers[b] /\ askers[b].question # q
    BY <1>6, <2>1, <2>2 DEF Leaders, Searches, Led, Joins
  <2>5. Led'
    BY <1>6, <2>1, <2>2, <2>4 DEF Led, Searches
  <2>6. Joined'
    BY <1>6, <2>1 DEF Joined, Searches
  <2> QED
    BY <2>1, <2>3, <2>5, <2>6 DEF Searches
<1> QED
  BY <1>2, <1>3, <1>4, <1>5, <1>6 DEF AskAnew

\* A search that ends, whatever everyone on it is told, gives its place back and is pending no more.
LEMMA SearchEnds ==
    ASSUME Searches, NEW a \in Asker, askers[a].phase = "leads", NEW s, s.phase \notin {"leads", "waits"},
           Tells(askers[a].question, s), pending' = pending \ {askers[a].question}, active' = active - 1
    PROVE  Searches'
<1> DEFINE q == askers[a].question
<1>1. askers' = [b \in Asker |->
         IF askers[b].phase \in {"leads", "waits"} /\ askers[b].question = q THEN s ELSE askers[b]]
  BY DEF Tells
<1>2. a \in Leaders /\ \A b \in Leaders : askers[b].question = q => b = a
  BY DEF Leaders, Searches, Led
<1>3. \A b \in Leaders \ {a} : askers'[b] = askers[b]
  BY <1>1, <1>2 DEF Leaders
<1>4. Leaders' = Leaders \ {a}
  BY <1>1, <1>2 DEF Leaders
<1>5. SearchersCounted'
  <2>1. Cardinality(Leaders') = Cardinality(Leaders) - 1
    BY <1>2, <1>4, LeadersAreFinite, FS_RemoveElement
  <2>2. Cardinality(Leaders') \in Nat
    BY <1>4, LeadersAreFinite, FS_RemoveElement, FS_CardinalityType
  <2> QED
    BY <2>1, <2>2, SearchAssumption DEF SearchersCounted, Searches
<1>6. Led'
  BY <1>2, <1>3, <1>4 DEF Led, Searches
<1>7. Joined'
  BY <1>1 DEF Joined, Searches
<1> QED
  BY <1>1, <1>5, <1>6, <1>7 DEF Searches

LEMMA AnswersStep == ASSUME NEW a \in Asker PROVE Searches /\ SearchAnswers(a) => Searches'
BY SearchEnds DEF SearchAnswers

LEMMA FailsStep == ASSUME NEW a \in Asker PROVE Searches /\ SearchFails(a) => Searches'
BY SearchEnds DEF SearchFails, ActiveAfterFailure, Quiet

LEMMA LeavesStep == ASSUME NEW a \in Asker PROVE Searches /\ Leaves(a) => Searches'
BY OnlyTold DEF Leaves, Says, Quiet

LEMMA SearchesStep == Searches /\ [SearchNext]_search => Searches'
<1> SUFFICES ASSUME Searches, [SearchNext]_search PROVE Searches'
  OBVIOUS
<1>1. CASE UNCHANGED <<pending, active, askers>>
  BY <1>1 DEF Searches, Led, Joined, SearchersCounted, Leaders
<1>2. CASE SearchNext
  BY <1>1, <1>2, AskStep, AnswersStep, FailsStep, LeavesStep DEF SearchNext, SearchTick
<1> QED
  BY <1>1, <1>2 DEF search

LEMMA AlwaysSearches == SearchSpec => []Searches
BY SearchesInit, SearchesStep, PTL DEF SearchSpec

-----------------------------------------------------------------------------

\* Whoever asks, however searches end: no question is searched for twice at once, and nobody waits
\* for a search that nobody leads.
THEOREM OneSearch == SearchSpec => []OneSearchPerQuestion
<1>1. Searches => OneSearchPerQuestion
  <2> SUFFICES ASSUME Searches, NEW q \in Question
               PROVE  /\ Cardinality(Leading(q)) = IF q \in pending THEN 1 ELSE 0
                      /\ (\E a \in Asker : askers[a].phase = "waits" /\ askers[a].question = q) => q \in pending
    BY DEF OneSearchPerQuestion
  <2>1. Leading(q) = {a \in Leaders : askers[a].question = q}
    BY DEF Leading, Leaders
  <2>2. CASE q \in pending
    <3>1. PICK a \in Leaders : askers[a].question = q
      BY <2>2 DEF Searches, Led
    <3>2. Leading(q) = {a}
      BY <2>1, <3>1 DEF Searches, Led
    <3> QED
      BY <2>2, <3>2, FS_Singleton
  <2>3. CASE q \notin pending
    <3>1. Leading(q) = {}
      BY <2>1, <2>3 DEF Searches, Led
    <3>2. ~\E a \in Asker : askers[a].phase = "waits" /\ askers[a].question = q
      BY <2>3 DEF Searches, Joined
    <3> QED
      BY <2>3, <3>1, <3>2, FS_EmptySet
  <2> QED
    BY <2>2, <2>3
<1> QED
  BY <1>1, AlwaysSearches, PTL

\* No search that ended, answered or failed, keeps its place, and no more run than there are places.
THEOREM PlacesGivenBack == SearchSpec => []PlacesAreGivenBack
<1>1. Searches => PlacesAreGivenBack
  BY DEF Searches, SearchersCounted, Leaders, PlacesAreGivenBack
<1> QED
  BY <1>1, AlwaysSearches, PTL
-----------------------------------------------------------------------------
(* What is kept, and what anyone is told *)

Entry == [question: Question, left: 0..SearchTtl, age: 0..SearchTtl]

\* The answers kept are of different questions, and each is as old as the time it has used up.
Aged(s) ==
    /\ s \in Seq(Entry)
    /\ \A i \in 1..Len(s) : s[i].left + s[i].age = SearchTtl
    /\ \A i, j \in 1..Len(s) : s[i].question = s[j].question => i = j

Cached == Aged(kept) /\ Len(kept) <= KeptAtMost

State ==
    {Quiet} \union [phase: {"leads", "waits", "busy"}, question: Question]
            \union [phase: {"answered"}, question: Question, age: Nat]

Recent(s) == s \in State /\ (s.phase = "answered" => s.age < SearchTtl \/ s.age = 0)

Told == pending \subseteq Question /\ askers \in [Asker -> State] /\ \A a \in Asker : Recent(askers[a])

LEMMA Times == SearchTtl \in Nat /\ KeptAtMost \in Nat
BY SearchAssumption

\* One answer less is what was kept but for that one, in the same order.
LEMMA RemovedOne ==
    ASSUME NEW s, Aged(s), NEW i \in 1..Len(s)
    PROVE  /\ Aged(RemoveAt(s, i)) /\ Len(RemoveAt(s, i)) = Len(s) - 1
           /\ \A j \in 1..Len(RemoveAt(s, i)) : RemoveAt(s, i)[j].question # s[i].question
<1> DEFINE r == RemoveAt(s, i)
<1>1. s \in Seq(Entry) /\ Len(s) \in Nat
  BY DEF Aged
<1>2. /\ r \in Seq(Entry) /\ Len(r) = Len(s) - 1
      /\ \A j \in 1..Len(r) : r[j] = IF j < i THEN s[j] ELSE s[j + 1]
  <2> DEFINE a == SubSeq(s, 1, i - 1)
             b == SubSeq(s, i + 1, Len(s))
  <2>1. /\ a \in Seq(Entry) /\ Len(a) = i - 1 /\ \A j \in 1..(i - 1) : a[j] = s[j]
    BY <1>1
  <2>2. /\ b \in Seq(Entry) /\ Len(b) = Len(s) - i /\ \A j \in 1..(Len(s) - i) : b[j] = s[i + j]
    BY <1>1
  <2>3. r = a \o b
    BY DEF RemoveAt
  <2> HIDE DEF a, b
  <2>4. a \o b \in Seq(Entry) /\ Len(a \o b) = Len(a) + Len(b)
    BY <2>1, <2>2, ConcatProperties
  <2>5. \A j \in 1..Len(a) + Len(b) : (a \o b)[j] = IF j <= Len(a) THEN a[j] ELSE b[j - Len(a)]
    BY <2>1, <2>2, ConcatProperties
  <2>6. \A j \in 1..(Len(s) - 1) : (a \o b)[j] = IF j < i THEN s[j] ELSE s[j + 1]
    <3> SUFFICES ASSUME NEW j \in 1..(Len(s) - 1) PROVE (a \o b)[j] = IF j < i THEN s[j] ELSE s[j + 1]
      OBVIOUS
    <3>1. CASE j < i
      BY <1>1, <2>1, <2>2, <2>5, <3>1
    <3>2. CASE ~(j < i)
      <4>1. j - Len(a) \in 1..(Len(s) - i) /\ i + (j - Len(a)) = j + 1 /\ ~(j <= Len(a)) /\ j \in 1..Len(a) + Len(b)
        BY <1>1, <2>1, <2>2, <3>2
      <4> QED
        BY <2>2, <2>5, <3>2, <4>1
    <3> QED
      BY <3>1, <3>2
  <2>7. Len(a \o b) = Len(s) - 1
    BY <1>1, <2>1, <2>2, <2>4
  <2> HIDE DEF r
  <2> QED
    BY <2>3, <2>4, <2>6, <2>7
<1>3. \A j \in 1..Len(r) : r[j] = IF j < i THEN s[j] ELSE s[j + 1]
  BY <1>2
<1> HIDE DEF r
<1>4. \A j \in 1..Len(r) : \E k \in 1..Len(s) : k # i /\ r[j] = s[k] /\ k = IF j < i THEN j ELSE j + 1
  BY <1>1, <1>2, <1>3
<1>5. Aged(r)
  <2>1. \A j \in 1..Len(r) : r[j].left + r[j].age = SearchTtl
    BY <1>4 DEF Aged
  <2>2. \A j, k \in 1..Len(r) : r[j].question = r[k].question => j = k
    BY <1>1, <1>2, <1>3 DEF Aged
  <2> QED
    BY <1>2, <2>1, <2>2 DEF Aged
<1>6. \A j \in 1..Len(r) : r[j].question # s[i].question
  BY <1>4 DEF Aged
<1> QED
  BY <1>2, <1>5, <1>6 DEF r

LEMMA WithoutOne ==
    ASSUME Aged(kept), NEW q
    PROVE  /\ Aged(Without(q)) /\ Len(Without(q)) <= Len(kept)
           /\ KeptOf(q) # {} => Len(Without(q)) = Len(kept) - 1
           /\ \A j \in 1..Len(Without(q)) : Without(q)[j].question # q
<1>1. DOMAIN kept = 1..Len(kept) /\ Len(kept) \in Nat
  BY DEF Aged
<1>2. CASE Places(q) = {}
  <2>1. \A j \in 1..Len(kept) : kept[j].question # q
    BY <1>1, <1>2 DEF Places
  <2>2. KeptOf(q) = {} /\ Without(q) = kept
    BY <1>1, <1>2, <2>1 DEF Without, KeptOf, ToSet
  <2> QED
    BY <1>1, <2>1, <2>2
<1>3. CASE Places(q) # {}
  <2> DEFINE i == CHOOSE i \in Places(q) : TRUE
  <2>1. i \in 1..Len(kept) /\ kept[i].question = q
    BY <1>1, <1>3 DEF Places
  <2> HIDE DEF i
  <2>2. /\ Aged(RemoveAt(kept, i)) /\ Len(RemoveAt(kept, i)) = Len(kept) - 1
        /\ \A j \in 1..Len(RemoveAt(kept, i)) : RemoveAt(kept, i)[j].question # kept[i].question
    BY <2>1, RemovedOne
  <2>3. Without(q) = RemoveAt(kept, i)
    BY <1>3 DEF Without, i
  <2>4. Len(kept) - 1 <= Len(kept)
    BY <1>1
  <2> QED
    BY <2>1, <2>2, <2>3, <2>4
<1> QED
  BY <1>2, <1>3

LEMMA AddedOne ==
    ASSUME NEW s, Aged(s), NEW k \in Entry, k.left + k.age = SearchTtl,
           \A j \in 1..Len(s) : s[j].question # k.question
    PROVE  Aged(Append(s, k)) /\ Len(Append(s, k)) = Len(s) + 1
<1>1. s \in Seq(Entry) /\ Len(s) \in Nat
  BY DEF Aged
<1>2. /\ Append(s, k) \in Seq(Entry) /\ Len(Append(s, k)) = Len(s) + 1
      /\ \A j \in 1..Len(s) + 1 : Append(s, k)[j] = IF j <= Len(s) THEN s[j] ELSE k
  BY <1>1
<1> QED
  BY <1>1, <1>2 DEF Aged

LEMMA LetGoOne ==
    ASSUME NEW s, Aged(s), Len(s) <= KeptAtMost + 1
    PROVE  Aged(LetGo(s)) /\ Len(LetGo(s)) <= KeptAtMost
<1>1. s \in Seq(Entry) /\ Len(s) \in Nat
  BY DEF Aged
<1>2. CASE Len(s) > KeptAtMost
  <2>1. s # <<>>
    BY <1>1, <1>2, Times
  <2>2. /\ Tail(s) \in Seq(Entry) /\ Len(Tail(s)) = Len(s) - 1
        /\ \A j \in 1..Len(s) - 1 : Tail(s)[j] = s[j + 1]
    BY <1>1, <2>1
  <2>3. Aged(Tail(s))
    BY <1>1, <2>2 DEF Aged
  <2> QED
    BY <1>1, <1>2, <2>2, <2>3, Times DEF LetGo
<1>3. CASE ~(Len(s) > KeptAtMost)
  BY <1>1, <1>3, Times DEF LetGo
<1> QED
  BY <1>2, <1>3

LEMMA CachedInit == SearchInit => Cached /\ Told
<1> SUFFICES ASSUME SearchInit PROVE Cached /\ Told
  OBVIOUS
<1>1. kept = <<>> /\ pending = {} /\ askers = [a \in Asker |-> Quiet]
  BY DEF SearchInit
<1>2. Cached
  BY <1>1, Times DEF Cached, Aged
<1>3. Told
  BY <1>1 DEF Told, State, Recent, Quiet
<1> QED
  BY <1>2, <1>3

\* What one asker is told.
LEMMA OneTold ==
    ASSUME Told, NEW a \in Asker, NEW s, Says(a, s), Recent(s), pending' \subseteq Question
    PROVE  Told'
<1>1. askers' \in [Asker -> State]
  BY DEF Told, Says, Recent
<1>2. \A b \in Asker : askers'[b] = IF b = a THEN s ELSE askers[b]
  BY DEF Told, Says
<1> QED
  BY <1>1, <1>2 DEF Told, Recent

\* What everyone on a search is told.
LEMMA AllTold ==
    ASSUME Told, NEW q, NEW s, Tells(q, s), Recent(s), pending' \subseteq Question
    PROVE  Told'
<1>1. \A b \in Asker : askers'[b] = s \/ askers'[b] = askers[b]
  BY DEF Tells
<1>2. askers' = [b \in Asker |-> askers'[b]]
  BY DEF Tells
<1>3. \A b \in Asker : Recent(askers[b])' /\ askers'[b] \in State
  BY <1>1 DEF Told, Recent
<1>4. askers' \in [Asker -> State]
  BY <1>2, <1>3
<1> QED
  BY <1>3, <1>4 DEF Told

LEMMA AskCached == ASSUME Cached, Told, NEW a \in Asker, AskSearch(a) PROVE Cached' /\ Told'
<1>1. PICK q \in Question : AskKept(a, q) \/ AskAnew(a, q)
  BY DEF AskSearch
<1>2. /\ Aged(Without(q)) /\ Len(Without(q)) <= Len(kept)
      /\ KeptOf(q) # {} => Len(Without(q)) = Len(kept) - 1
      /\ \A j \in 1..Len(Without(q)) : Without(q)[j].question # q
  BY WithoutOne DEF Cached
<1>3. Len(kept) \in Nat /\ Len(Without(q)) \in Nat /\ Len(kept) <= KeptAtMost
  BY <1>2 DEF Cached, Aged
<1>4. CASE AskKept(a, q)
  <2>1. PICK k \in KeptOf(q) : /\ k.left > 0 /\ kept' = Append(Without(q), k)
                               /\ Says(a, [phase |-> "answered", question |-> q, age |-> k.age])
    BY <1>4 DEF AskKept, StillKept
  <2>2. k \in Entry /\ k.question = q /\ k.left + k.age = SearchTtl
    BY DEF KeptOf, ToSet, Cached, Aged
  <2>3. Aged(kept') /\ Len(kept') = Len(Without(q)) + 1
    BY <1>2, <2>1, <2>2, AddedOne
  <2>4. Cached'
    BY <1>2, <1>3, <2>1, <2>3, Times DEF Cached
  <2>5. Recent([phase |-> "answered", question |-> q, age |-> k.age])
    BY <2>1, <2>2, Times DEF Recent, State, Entry
  <2> QED
    BY <1>4, <2>1, <2>4, <2>5, OneTold DEF AskKept, Told
<1>5. CASE AskAnew(a, q)
  <2>1. Cached'
    BY <1>2, <1>3, <1>5, Times DEF AskAnew, Cached
  <2>2. PICK p \in {"leads", "waits", "busy"} : Says(a, [phase |-> p, question |-> q])
    BY <1>5 DEF AskAnew
  <2>3. Recent([phase |-> p, question |-> q])
    BY DEF Recent, State
  <2>4. pending' \subseteq Question
    BY <1>5 DEF AskAnew, Told
  <2> QED
    BY <2>1, <2>2, <2>3, <2>4, OneTold
<1> QED
  BY <1>1, <1>4, <1>5

LEMMA AnswersCached == ASSUME Cached, Told, NEW a \in Asker, SearchAnswers(a) PROVE Cached' /\ Told'
<1> DEFINE q == askers[a].question
<1>1. askers[a].phase = "leads" /\ askers[a] \in State
  BY DEF SearchAnswers, Told
<1>2. q \in Question
  BY <1>1 DEF State, Quiet
<1>3. /\ kept' = Remembered(q) /\ Tells(q, [phase |-> "answered", question |-> q, age |-> 0])
      /\ pending' = pending \ {q}
  BY DEF SearchAnswers
<1> HIDE DEF q
<1>4. Cached'
  <2>1. CASE SearchTtl = 0 \/ KeptAtMost = 0
    BY <1>3, <2>1 DEF Remembered, Cached
  <2>2. CASE ~(SearchTtl = 0 \/ KeptAtMost = 0)
    <3> DEFINE k == [question |-> q, left |-> SearchTtl, age |-> 0]
    <3>1. k \in Entry /\ k.question = q /\ k.left + k.age = SearchTtl
      BY <1>2, Times DEF Entry
    <3>2. kept' = LetGo(Append(Without(q), k))
      BY <1>3, <2>2 DEF Remembered
    <3> HIDE DEF k
    <3>3. /\ Aged(Without(q)) /\ Len(Without(q)) <= Len(kept)
          /\ \A j \in 1..Len(Without(q)) : Without(q)[j].question # q
      BY WithoutOne DEF Cached
    <3>4. Len(kept) \in Nat /\ Len(Without(q)) \in Nat /\ Len(kept) <= KeptAtMost
      BY <3>3 DEF Cached, Aged
    <3>5. Aged(Append(Without(q), k)) /\ Len(Append(Without(q), k)) = Len(Without(q)) + 1
      BY <3>1, <3>3, AddedOne
    <3>6. Len(Append(Without(q), k)) <= KeptAtMost + 1
      BY <3>3, <3>4, <3>5, Times
    <3> QED
      BY <3>2, <3>5, <3>6, LetGoOne DEF Cached
  <2> QED
    BY <2>1, <2>2
<1>5. Recent([phase |-> "answered", question |-> q, age |-> 0])
  BY <1>2 DEF Recent, State
<1> QED
  BY <1>3, <1>4, <1>5, AllTold DEF Told

LEMMA FailsCached == ASSUME Cached, Told, NEW a \in Asker, SearchFails(a) PROVE Cached' /\ Told'
<1>1. Recent(Quiet)
  BY DEF Recent, State, Quiet
<1> QED
  BY <1>1, AllTold DEF SearchFails, Told, Cached

LEMMA LeavesCached == ASSUME Cached, Told, NEW a \in Asker, Leaves(a) PROVE Cached' /\ Told'
<1>1. Recent(Quiet)
  BY DEF Recent, State, Quiet
<1> QED
  BY <1>1, OneTold DEF Leaves, Told, Cached

LEMMA TickCached == ASSUME Cached, Told, SearchTick PROVE Cached' /\ Told'
<1> DEFINE Older(k) == IF k.left > 0 THEN [k EXCEPT !.left = @ - 1, !.age = @ + 1] ELSE k
<1>1. kept \in Seq(Entry) /\ Len(kept) \in Nat /\ kept' = [i \in 1..Len(kept) |-> Older(kept[i])]
  <2>1. kept \in Seq(Entry) /\ Len(kept) \in Nat /\ DOMAIN kept = 1..Len(kept)
    BY DEF Cached, Aged
  <2>2. kept' = [i \in DOMAIN kept |-> Older(kept[i])]
    BY DEF SearchTick
  <2> QED
    BY <2>1, <2>2
<1>2. \A k \in Entry : k.left + k.age = SearchTtl =>
        /\ Older(k) \in Entry /\ Older(k).question = k.question /\ Older(k).left + Older(k).age = SearchTtl
  <2> SUFFICES ASSUME NEW k \in Entry, k.left + k.age = SearchTtl
               PROVE  /\ Older(k) \in Entry /\ Older(k).question = k.question
                      /\ Older(k).left + Older(k).age = SearchTtl
    OBVIOUS
  <2>1. k.left \in 0..SearchTtl /\ k.age \in 0..SearchTtl /\ k.question \in Question
    BY DEF Entry
  <2>2. CASE k.left > 0
    <3> DEFINE o == [k EXCEPT !.left = k.left - 1, !.age = k.age + 1]
    <3>1. Older(k) = o /\ o.question = k.question /\ o.left = k.left - 1 /\ o.age = k.age + 1
      BY <2>2 DEF Entry
    <3>2. o \in [question: Question, left: 0..SearchTtl, age: 0..SearchTtl]
      <4>1. k.left - 1 \in 0..SearchTtl /\ k.age + 1 \in 0..SearchTtl
        BY <2>1, <2>2, Times
      <4> QED
        BY <2>1, <4>1 DEF Entry
    <3> HIDE DEF o
    <3> QED
      BY <2>1, <3>1, <3>2, Times DEF Entry
  <2>3. CASE ~(k.left > 0)
    BY <2>3
  <2> QED
    BY <2>2, <2>3
<1> HIDE DEF Older
<1>3. \A i \in 1..Len(kept) : kept[i] \in Entry /\ kept[i].left + kept[i].age = SearchTtl
  BY <1>1 DEF Cached, Aged
<1>4. \A i \in 1..Len(kept) : /\ Older(kept[i]) \in Entry /\ Older(kept[i]).question = kept[i].question
                              /\ Older(kept[i]).left + Older(kept[i]).age = SearchTtl
  BY <1>2, <1>3
<1>5. kept' \in Seq(Entry) /\ Len(kept') = Len(kept) /\ \A i \in 1..Len(kept) : kept'[i] = Older(kept[i])
  BY <1>1, <1>4
<1>6. Cached'
  BY <1>4, <1>5 DEF Cached, Aged
<1> QED
  BY <1>6 DEF SearchTick, Told

LEMMA CachedStep == Cached /\ Told /\ [SearchNext]_search => Cached' /\ Told'
<1> SUFFICES ASSUME Cached, Told, [SearchNext]_search PROVE Cached' /\ Told'
  OBVIOUS
<1>1. CASE UNCHANGED search
  BY <1>1 DEF search, Cached, Told
<1> QED
  BY <1>1, AskCached, AnswersCached, FailsCached, LeavesCached, TickCached DEF SearchNext

\* A question asked by many costs one search and one place, and its answer is kept for its time and
\* no longer, once, and with no more others than are kept (withSearchCache).
THEOREM SearchesShared == SearchSpec => []SearchesAreShared
<1>1. Cached /\ Told => AnswersAreRecent
  BY DEF Cached, Aged, Told, Recent, AnswersAreRecent
<1>2. Cached /\ Told /\ Searches => SearchTypeOK
  BY DEF Cached, Aged, Entry, Told, State, Searches, SearchersCounted, SearchTypeOK
<1>3. SearchSpec => [](Cached /\ Told)
  BY CachedInit, CachedStep, PTL DEF SearchSpec
<1> QED
  BY <1>1, <1>2, <1>3, AlwaysSearches, OneSearch, PlacesGivenBack, PTL DEF SearchesAreShared

-----------------------------------------------------------------------------
(* InstallationTokens *)

AReading == {Unread} \union
    [phase: {"looks", "has", "none"}, repository: Repository] \union
    [phase: {"holds", "waits"}, repository: Repository, id: Installation] \union
    [phase: {"reads"}, repository: Repository, life: 0..TokenLife]

TokensShape ==
    /\ covering \in [Repository -> Covers]
    /\ notBefore \in [Repository -> 0..InstallationTtl + 1]
    /\ installations \in [Repository -> [id: Covers, left: 0..InstallationTtl]]
    /\ installTokens \in [Installation -> 0..TokenLife]
    /\ issuing \subseteq Installation /\ (issuing # {} => Reading # {})
    /\ atHost \in [Installation -> Nat]
    /\ readings \in [Reading -> AReading]

\* Another installation, or none, covered it within the time an answer is believed.
Lately(r) == notBefore[r] = 0 \/ notBefore[r] < InstallationTtl

\* What is remembered is how it is, or was within the time since it was learnt.
RememberedRight ==
    /\ \A r \in Repository : covering[r] = NoInstallation => notBefore[r] = 0
    /\ \A r \in Repository : installations[r].left > 0 /\ installations[r].id # covering[r] =>
         notBefore[r] + installations[r].left <= InstallationTtl

\* Whoever has an installation in hand has the one that covers the repository, or that did lately.
InstallationsInHand ==
    \A q \in Reading : readings[q].phase \in {"holds", "waits"} =>
        covering[readings[q].repository] = readings[q].id \/ Lately(readings[q].repository)

Answered ==
    /\ TokensShape /\ OneIssueForAllWhoWait /\ TokensOutlastTheMargin /\ NotThereIsRecent
    /\ RememberedRight /\ InstallationsInHand

LEMMA TokenConstants ==
    /\ IsFiniteSet(Reading) /\ NoInstallation \notin Installation
    /\ InstallationTtl \in Nat /\ TokenLife \in Nat /\ ExpiryMargin \in Nat /\ ExpiryMargin < TokenLife
    /\ Unread.phase = "idle"
BY InstallationAssumption DEF Unread

LEMMA AnsweredInit == InstallationInit => Answered
<1> SUFFICES ASSUME InstallationInit PROVE Answered
  OBVIOUS
<1>1. NotLooked \in [id: Covers, left: 0..InstallationTtl] /\ NotLooked.left = 0
  BY TokenConstants DEF NotLooked, Covers
<1>2. \A r \in Repository : notBefore[r] \in 0..InstallationTtl + 1
  BY TokenConstants DEF InstallationInit
<1>3. TokensShape
  BY <1>1, <1>2, TokenConstants DEF InstallationInit, TokensShape, AReading
<1>4. \A q \in Reading : readings[q].phase = "idle"
  BY TokenConstants DEF InstallationInit
<1>5. OneIssueForAllWhoWait
  BY <1>4 DEF InstallationInit, OneIssueForAllWhoWait, Waiting
<1>6. RememberedRight
  BY <1>1, TokenConstants DEF InstallationInit, RememberedRight
<1> QED
  BY <1>3, <1>4, <1>5, <1>6 DEF Answered, TokensOutlastTheMargin, NotThereIsRecent, InstallationsInHand

\* What a request may be, told by its phase.
LEMMA ReadingIs ==
    ASSUME Answered, NEW q \in Reading
    PROVE  /\ readings[q].phase \in {"looks", "has", "none"} =>
                readings[q] \in [phase: {"looks", "has", "none"}, repository: Repository]
           /\ readings[q].phase \in {"holds", "waits"} =>
                readings[q] \in [phase: {"holds", "waits"}, repository: Repository, id: Installation]
           /\ readings[q].phase = "reads" =>
                readings[q] \in [phase: {"reads"}, repository: Repository, life: 0..TokenLife]
           /\ readings[q].phase \notin {"looks", "has", "none", "holds", "waits", "reads"} => readings[q] = Unread
BY TokenConstants DEF Answered, TokensShape, AReading

\* Steps in which one request, which was not waiting, becomes s, and nothing else but what is remembered.
LEMMA OneReads ==
    ASSUME Answered, NEW q \in Reading, NEW s \in AReading, readings' = [readings EXCEPT ![q] = s],
           UNCHANGED <<covering, notBefore, installTokens, issuing, atHost>>,
           readings[q].phase # "waits" /\ s.phase # "waits",
           installations' \in [Repository -> [id: Covers, left: 0..InstallationTtl]],
           \A r \in Repository : installations'[r] = installations[r] \/ installations'[r].id = covering[r],
           s.phase = "reads" => s.life > ExpiryMargin,
           s.phase = "none" => Lately(s.repository),
           s.phase = "holds" => covering[s.repository] = s.id \/ Lately(s.repository)
    PROVE  Answered'
<1>1. readings'[q] = s /\ \A p \in Reading \ {q} : readings'[p] = readings[p]
  BY DEF Answered, TokensShape
<1>2. TokensShape'
  BY DEF Answered, TokensShape
<1>3. \A i \in Installation : Waiting(i)' = Waiting(i)
  BY <1>1 DEF Waiting
<1>4. OneIssueForAllWhoWait'
  BY <1>3 DEF Answered, OneIssueForAllWhoWait
<1>5. RememberedRight'
  BY DEF Answered, RememberedRight
<1>6. \A r : Lately(r)' <=> Lately(r)
  BY DEF Lately
<1>7. TokensOutlastTheMargin' /\ NotThereIsRecent'
  BY <1>1 DEF Answered, TokensOutlastTheMargin, NotThereIsRecent, Lately
<1>8. InstallationsInHand'
  BY <1>1, <1>6 DEF Answered, InstallationsInHand, Lately
<1> QED
  BY <1>2, <1>4, <1>5, <1>7, <1>8 DEF Answered

LEMMA InstallationAskStep == ASSUME NEW q \in Reading PROVE Answered /\ Ask(q) => Answered'
<1> SUFFICES ASSUME Answered, Ask(q) PROVE Answered'
  OBVIOUS
<1>1. PICK r \in Repository :
        IF installations[r].left > 0 THEN GoesOn(q, r, installations[r].id)
        ELSE readings' = [readings EXCEPT ![q] = [phase |-> "looks", repository |-> r]]
  BY DEF Ask
<1>2. UNCHANGED <<covering, notBefore, installations, installTokens, issuing, atHost>> /\ readings[q].phase = "idle"
  BY TokenConstants DEF Ask
<1>3. installations' \in [Repository -> [id: Covers, left: 0..InstallationTtl]]
  BY <1>2 DEF Answered, TokensShape
<1>4. /\ notBefore[r] \in 0..InstallationTtl + 1 /\ installations[r].id \in Covers
      /\ installations[r].left \in 0..InstallationTtl /\ covering[r] \in Covers
  BY DEF Answered, TokensShape
<1>5. installations[r].left > 0 => installations[r].id = covering[r] \/ Lately(r)
  BY <1>4, TokenConstants DEF Answered, RememberedRight, Lately
<1>6. CASE ~(installations[r].left > 0)
  <2>1. PICK s : s = [phase |-> "looks", repository |-> r]
    OBVIOUS
  <2>2. s \in AReading /\ s.phase = "looks" /\ readings' = [readings EXCEPT ![q] = s]
    BY <1>1, <1>6, <2>1 DEF AReading
  <2> QED
    BY <1>2, <1>3, <2>2, OneReads
<1>7. CASE installations[r].left > 0 /\ installations[r].id = NoInstallation
  <2>1. PICK s : s = [phase |-> "none", repository |-> r]
    OBVIOUS
  <2>2. s \in AReading /\ s.phase = "none" /\ s.repository = r /\ readings' = [readings EXCEPT ![q] = s]
    BY <1>1, <1>7, <2>1 DEF AReading, GoesOn
  <2>3. Lately(r)
    BY <1>5, <1>7 DEF Answered, RememberedRight, Lately
  <2> QED
    BY <1>2, <1>3, <2>2, <2>3, OneReads
<1>8. CASE installations[r].left > 0 /\ installations[r].id # NoInstallation
  <2>1. PICK s : s = [phase |-> "holds", repository |-> r, id |-> installations[r].id]
    OBVIOUS
  <2>2. /\ s \in AReading /\ s.phase = "holds" /\ s.repository = r /\ s.id = installations[r].id
        /\ readings' = [readings EXCEPT ![q] = s]
    BY <1>1, <1>4, <1>8, <2>1 DEF AReading, GoesOn, Covers
  <2> QED
    BY <1>2, <1>3, <1>5, <1>8, <2>2, OneReads
<1> QED
  BY <1>6, <1>7, <1>8

LEMMA UnreadIs == Unread \in AReading /\ Unread.phase = "idle"
BY TokenConstants DEF AReading

LEMMA LearnsStep == ASSUME NEW q \in Reading PROVE Answered /\ Learns(q) => Answered'
<1> SUFFICES ASSUME Answered, Learns(q) PROVE Answered'
  OBVIOUS
<1>1. PICK r : r = readings[q].repository /\ r \in Repository
  BY ReadingIs DEF Learns
<1>2. UNCHANGED <<covering, notBefore, installTokens, issuing, atHost>> /\ readings[q].phase = "looks"
  BY DEF Learns
<1>3. CASE installations' = [installations EXCEPT ![r] = [id |-> covering[r], left |-> InstallationTtl]]
           /\ GoesOn(q, r, covering[r])
  <2>1. covering[r] \in Covers /\ [id |-> covering[r], left |-> InstallationTtl] \in [id: Covers, left: 0..InstallationTtl]
    BY <1>1, TokenConstants DEF Answered, TokensShape
  <2>2. /\ installations' \in [Repository -> [id: Covers, left: 0..InstallationTtl]]
        /\ \A p \in Repository : installations'[p] = installations[p] \/ installations'[p].id = covering[p]
    BY <1>3, <2>1 DEF Answered, TokensShape
  <2>3. CASE covering[r] = NoInstallation
    <3>1. PICK s : s = [phase |-> "none", repository |-> r]
      OBVIOUS
    <3>2. s \in AReading /\ s.phase = "none" /\ s.repository = r /\ readings' = [readings EXCEPT ![q] = s]
      BY <1>1, <1>3, <2>3, <3>1 DEF AReading, GoesOn
    <3>3. Lately(r)
      BY <1>1, <2>3 DEF Answered, RememberedRight, Lately
    <3> QED
      BY <1>2, <2>2, <3>2, <3>3, OneReads
  <2>4. CASE covering[r] # NoInstallation
    <3>1. PICK s : s = [phase |-> "holds", repository |-> r, id |-> covering[r]]
      OBVIOUS
    <3>2. /\ s \in AReading /\ s.phase = "holds" /\ s.repository = r /\ s.id = covering[r]
          /\ readings' = [readings EXCEPT ![q] = s]
      BY <1>1, <1>3, <2>1, <2>4, <3>1 DEF AReading, GoesOn, Covers
    <3> QED
      BY <1>2, <2>2, <3>2, OneReads
  <2> QED
    BY <2>3, <2>4
<1>4. CASE readings' = [readings EXCEPT ![q] = Unread] /\ UNCHANGED installations
  <2>1. installations' \in [Repository -> [id: Covers, left: 0..InstallationTtl]]
    BY <1>4 DEF Answered, TokensShape
  <2> QED
    BY <1>2, <1>4, <2>1, UnreadIs, OneReads
<1> QED
  BY <1>1, <1>3, <1>4 DEF Learns

LEMMA TakesTokenStep == ASSUME NEW q \in Reading PROVE Answered /\ TakesToken(q) => Answered'
<1> SUFFICES ASSUME Answered, TakesToken(q) PROVE Answered'
  OBVIOUS
<1>1. PICK r, i : r = readings[q].repository /\ r \in Repository /\ i = readings[q].id /\ i \in Installation
  BY ReadingIs DEF TakesToken
<1>2. UNCHANGED <<covering, notBefore, installations, installTokens>> /\ readings[q].phase = "holds"
  BY DEF TakesToken
<1>3. CASE HandedOut(installTokens[i])
  <2>1. PICK s : s = [phase |-> "reads", repository |-> r, life |-> installTokens[i]]
    OBVIOUS
  <2>2. /\ s \in AReading /\ s.phase = "reads" /\ s.life > ExpiryMargin
        /\ readings' = [readings EXCEPT ![q] = s] /\ UNCHANGED <<issuing, atHost>>
    BY <1>1, <1>3, <2>1 DEF AReading, TakesToken, HandedOut, Answered, TokensShape
  <2>3. installations' \in [Repository -> [id: Covers, left: 0..InstallationTtl]]
    BY <1>2 DEF Answered, TokensShape
  <2> QED
    BY <1>2, <2>2, <2>3, OneReads
<1>4. CASE ~HandedOut(installTokens[i])
  <2>1. PICK s : s = [readings[q] EXCEPT !.phase = "waits"]
    OBVIOUS
  <2>2. s \in AReading /\ s.phase = "waits" /\ s.repository = r /\ s.id = i
    BY <1>1, <1>2, <2>1, ReadingIs DEF AReading
  <2>3. /\ readings' = [readings EXCEPT ![q] = s] /\ issuing' = issuing \union {i}
        /\ atHost' = IF i \in issuing THEN atHost ELSE [atHost EXCEPT ![i] = @ + 1]
    BY <1>1, <1>4, <2>1 DEF TakesToken, Shares
  <2>4. readings'[q] = s /\ \A p \in Reading \ {q} : readings'[p] = readings[p]
    BY <2>3 DEF Answered, TokensShape
  <2>5. TokensShape'
    BY <1>1, <1>2, <2>2, <2>3 DEF Answered, TokensShape
  <2>6. OneIssueForAllWhoWait'
    <3>1. \A j \in Installation : atHost'[j] = IF j \in issuing' THEN 1 ELSE 0
      BY <1>1, <2>3 DEF Answered, OneIssueForAllWhoWait, TokensShape
    <3>2. \A j \in Installation : Waiting(j)' \subseteq Waiting(j) \/ j = i
      BY <2>2, <2>4 DEF Waiting
    <3>3. \A j \in Installation : Waiting(j)' # {} => j \in issuing'
      BY <2>3, <3>2 DEF Answered, OneIssueForAllWhoWait
    <3> QED
      BY <3>1, <3>3 DEF OneIssueForAllWhoWait
  <2>7. TokensOutlastTheMargin' /\ NotThereIsRecent'
    BY <1>2, <2>2, <2>4 DEF Answered, TokensOutlastTheMargin, NotThereIsRecent
  <2>8. InstallationsInHand'
    BY <1>1, <1>2, <2>2, <2>4 DEF Answered, InstallationsInHand, Lately
  <2>9. RememberedRight'
    BY <1>2 DEF Answered, RememberedRight
  <2> QED
    BY <2>5, <2>6, <2>7, <2>8, <2>9 DEF Answered
<1> QED
  BY <1>3, <1>4

LEMMA EndsStep == ASSUME NEW q \in Reading PROVE Answered /\ ReadingEnds(q) => Answered'
<1> SUFFICES ASSUME Answered, ReadingEnds(q) PROVE Answered'
  OBVIOUS
<1>1. UNCHANGED <<covering, notBefore, installations, installTokens, issuing, atHost>>
  BY DEF ReadingEnds
<1>2. installations' \in [Repository -> [id: Covers, left: 0..InstallationTtl]]
  BY <1>1 DEF Answered, TokensShape
<1> QED
  BY <1>1, <1>2, UnreadIs, OneReads DEF ReadingEnds

-----------------------------------------------------------------------------

\* The request for a token of i ends, and everyone who waits for it is given an answer.
LEMMA IssueOver ==
    ASSUME Answered, NEW i \in Installation, atHost[i] > 0, atHost' = [atHost EXCEPT ![i] = @ - 1],
           issuing' = issuing \ {i}, UNCHANGED <<covering, notBefore>>,
           installTokens' \in [Installation -> 0..TokenLife],
           installations' \in [Repository -> [id: Covers, left: 0..InstallationTtl]],
           \A r \in Repository : installations'[r] = installations[r] \/ installations'[r].left = 0,
           readings' \in [Reading -> AReading],
           \A q \in Reading \ Waiting(i) : readings'[q] = readings[q],
           \A q \in Waiting(i) : /\ readings'[q].phase \in {"idle", "none", "reads"}
                                 /\ readings'[q].phase = "none" => Lately(readings'[q].repository)
                                 /\ readings'[q].phase = "reads" => readings'[q].life > ExpiryMargin
    PROVE  Answered'
<1>1. Waiting(i) \subseteq Reading /\ \A q \in Reading : readings'[q].phase \in {"holds", "waits"} => readings'[q] = readings[q]
  BY DEF Waiting
<1>2. TokensShape'
  <2>1. atHost' \in [Installation -> Nat]
    BY DEF Answered, TokensShape
  <2>2. covering' \in [Repository -> Covers] /\ notBefore' \in [Repository -> 0..InstallationTtl + 1]
    BY DEF Answered, TokensShape
  <2>3. issuing' \subseteq Installation /\ (issuing' # {} => Reading # {})
    BY DEF Answered, TokensShape
  <2> QED
    BY <2>1, <2>2, <2>3 DEF TokensShape
<1>3. OneIssueForAllWhoWait'
  <2>1. \A j \in Installation : atHost'[j] = IF j \in issuing' THEN 1 ELSE 0
    BY DEF Answered, OneIssueForAllWhoWait, TokensShape
  <2>2. \A j \in Installation : Waiting(j)' \subseteq Waiting(j) /\ Waiting(i)' = {}
    BY <1>1 DEF Waiting
  <2>3. \A j \in Installation : Waiting(j)' # {} => j \in issuing'
    BY <2>2 DEF Answered, OneIssueForAllWhoWait
  <2> QED
    BY <2>1, <2>3 DEF OneIssueForAllWhoWait
<1>4. TokensOutlastTheMargin' /\ NotThereIsRecent'
  BY <1>1 DEF Answered, TokensOutlastTheMargin, NotThereIsRecent, Lately
<1>5. InstallationsInHand'
  BY <1>1 DEF Answered, InstallationsInHand, Lately
<1>6. RememberedRight'
  BY TokenConstants DEF Answered, RememberedRight
<1> QED
  BY <1>2, <1>3, <1>4, <1>5, <1>6 DEF Answered

LEMMA IssuedStep == ASSUME NEW i \in Installation PROVE Answered /\ Issued(i) => Answered'
<1> SUFFICES ASSUME Answered, Issued(i) PROVE Answered'
  OBVIOUS
<1>1. /\ atHost[i] > 0 /\ atHost' = [atHost EXCEPT ![i] = @ - 1] /\ issuing' = issuing \ {i}
      /\ UNCHANGED <<covering, notBefore, installations>>
      /\ installTokens' = [installTokens EXCEPT ![i] = TokenLife]
      /\ readings' = [q \in Reading |->
           IF q \in Waiting(i) THEN [phase |-> "reads", repository |-> readings[q].repository, life |-> TokenLife]
           ELSE readings[q]]
  BY DEF Issued, IssueEnds
<1>2. \A q \in Waiting(i) : q \in Reading /\ readings[q].repository \in Repository
  BY ReadingIs DEF Waiting
<1>3. \A q \in Waiting(i) : /\ readings'[q] \in [phase: {"reads"}, repository: Repository, life: 0..TokenLife]
                            /\ readings'[q].life > ExpiryMargin
  BY <1>1, <1>2, TokenConstants
<1>4. readings' \in [Reading -> AReading]
  <2>1. \A q \in Reading : readings'[q] \in AReading
    BY <1>1, <1>3 DEF AReading, Answered, TokensShape
  <2> QED
    BY <1>1, <2>1
<1>5. installTokens' \in [Installation -> 0..TokenLife]
  BY <1>1, TokenConstants DEF Answered, TokensShape
<1>6. installations' \in [Repository -> [id: Covers, left: 0..InstallationTtl]]
  BY <1>1 DEF Answered, TokensShape
<1> QED
  BY <1>1, <1>3, <1>4, <1>5, <1>6, IssueOver

LEMMA NotFoundStep == ASSUME NEW i \in Installation PROVE Answered /\ IssueNotFound(i) => Answered'
<1> SUFFICES ASSUME Answered, IssueNotFound(i) PROVE Answered'
  OBVIOUS
<1>1. /\ atHost[i] > 0 /\ atHost' = [atHost EXCEPT ![i] = @ - 1] /\ issuing' = issuing \ {i}
      /\ UNCHANGED <<covering, notBefore, installTokens>>
      /\ readings' = [q \in Reading |->
           IF q \in Waiting(i) THEN [phase |-> "none", repository |-> readings[q].repository] ELSE readings[q]]
      /\ \A r \in Repository : covering[r] # i
  BY DEF IssueNotFound, IssueEnds, IssuingAfterFailure
<1>2. \A q \in Waiting(i) : q \in Reading /\ readings[q].repository \in Repository /\ readings[q].id = i
  BY ReadingIs DEF Waiting
<1>3. \A q \in Waiting(i) : Lately(readings[q].repository)
  BY <1>1, <1>2 DEF Waiting, Answered, InstallationsInHand
<1>4. \A q \in Waiting(i) : /\ readings'[q] \in [phase: {"looks", "has", "none"}, repository: Repository]
                            /\ readings'[q].phase = "none" /\ readings'[q].repository = readings[q].repository
  BY <1>1, <1>2
<1>5. readings' \in [Reading -> AReading]
  <2>1. \A q \in Reading : readings'[q] \in AReading
    BY <1>1, <1>4 DEF AReading, Answered, TokensShape
  <2> QED
    BY <1>1, <2>1
<1>6. /\ installations' \in [Repository -> [id: Covers, left: 0..InstallationTtl]]
      /\ \A r \in Repository : installations'[r] = installations[r] \/ installations'[r].left = 0
  <2>1. NotLooked \in [id: Covers, left: 0..InstallationTtl] /\ NotLooked.left = 0
    BY TokenConstants DEF NotLooked, Covers
  <2> QED
    BY <2>1 DEF IssueNotFound, LookedUpAgain, Answered, TokensShape
<1>7. installTokens' \in [Installation -> 0..TokenLife]
  BY <1>1 DEF Answered, TokensShape
<1> QED
  BY <1>1, <1>3, <1>4, <1>5, <1>6, <1>7, IssueOver

LEMMA IssueFailsStep == ASSUME NEW i \in Installation PROVE Answered /\ IssueFails(i) => Answered'
<1> SUFFICES ASSUME Answered, IssueFails(i) PROVE Answered'
  OBVIOUS
<1>1. /\ atHost[i] > 0 /\ atHost' = [atHost EXCEPT ![i] = @ - 1] /\ issuing' = issuing \ {i}
      /\ UNCHANGED <<covering, notBefore, installTokens, installations>>
      /\ readings' = [q \in Reading |-> IF q \in Waiting(i) THEN Unread ELSE readings[q]]
  BY DEF IssueFails, IssueEnds, IssuingAfterFailure
<1>2. readings' \in [Reading -> AReading] /\ \A q \in Waiting(i) : readings'[q].phase = "idle"
  BY <1>1, UnreadIs DEF Waiting, Answered, TokensShape
<1>3. /\ installations' \in [Repository -> [id: Covers, left: 0..InstallationTtl]]
      /\ installTokens' \in [Installation -> 0..TokenLife]
  BY <1>1 DEF Answered, TokensShape
<1> QED
  BY <1>1, <1>2, <1>3, IssueOver

LEMMA ChangesStep == Answered /\ Changes => Answered'
<1> SUFFICES ASSUME Answered, Changes PROVE Answered'
  OBVIOUS
<1>1. PICK r \in Repository, id \in Covers :
        covering' = [covering EXCEPT ![r] = id] /\ notBefore' = [notBefore EXCEPT ![r] = 0]
  BY DEF Changes
<1>2. UNCHANGED <<installations, installTokens, issuing, atHost, readings>>
  BY DEF Changes
<1>3. /\ notBefore'[r] = 0
      /\ \A p \in Repository \ {r} : notBefore'[p] = notBefore[p] /\ covering'[p] = covering[p]
  BY <1>1 DEF Answered, TokensShape
<1>4. TokensShape'
  BY <1>1, <1>2, TokenConstants DEF Answered, TokensShape
<1>5. OneIssueForAllWhoWait' /\ TokensOutlastTheMargin'
  BY <1>2 DEF Answered, OneIssueForAllWhoWait, TokensOutlastTheMargin, Waiting
<1>6. \A q \in Reading : readings[q].phase \in {"none", "holds", "waits"} => readings[q].repository \in Repository
  BY ReadingIs
<1>7. NotThereIsRecent' /\ InstallationsInHand'
  BY <1>2, <1>3, <1>6 DEF Answered, NotThereIsRecent, InstallationsInHand, Lately
<1>8. RememberedRight'
  <2>1. \A p \in Repository : installations[p].left \in 0..InstallationTtl
    BY DEF Answered, TokensShape
  <2> QED
    BY <1>2, <1>3, <2>1, TokenConstants DEF Answered, RememberedRight
<1> QED
  BY <1>4, <1>5, <1>7, <1>8 DEF Answered

LEMMA TokenTick == Answered /\ InstallationTick => Answered'
<1> SUFFICES ASSUME Answered, InstallationTick PROVE Answered'
  OBVIOUS
<1>1. UNCHANGED <<covering, issuing, atHost, readings>> /\ \A q \in Reading : readings[q].phase = "idle"
  BY DEF InstallationTick
<1>2. \A n \in Nat : Less(n) \in Nat /\ Less(n) <= n /\ (Less(n) > 0 => n > 0 /\ Less(n) = n - 1)
  BY DEF Less
<1>3. \A r \in Repository :
        /\ installations'[r] = [installations[r] EXCEPT !.left = Less(installations[r].left)]
        /\ installations[r] \in [id: Covers, left: 0..InstallationTtl]
  BY DEF InstallationTick, Answered, TokensShape
<1>10. ASSUME NEW r \in Repository
       PROVE  /\ notBefore[r] \in Nat /\ notBefore[r] <= InstallationTtl + 1
              /\ installations[r].left \in Nat /\ installations[r].left <= InstallationTtl
  <2>1. notBefore[r] \in 0..InstallationTtl + 1 /\ installations[r].left \in 0..InstallationTtl
    BY DEF Answered, TokensShape
  <2> QED
    BY <2>1, TokenConstants
<1>11. ASSUME NEW r \in Repository
       PROVE  \/ notBefore'[r] = 0 \/ notBefore'[r] = notBefore[r]
              \/ (notBefore[r] <= InstallationTtl /\ notBefore'[r] = notBefore[r] + 1)
  <2>1. notBefore'[r] = IF covering[r] = NoInstallation THEN 0
                        ELSE IF notBefore[r] > InstallationTtl THEN notBefore[r] ELSE notBefore[r] + 1
    BY DEF InstallationTick
  <2> QED
    BY <1>10, <2>1, TokenConstants
<1>12. \A r \in Repository : covering[r] = NoInstallation => notBefore'[r] = 0
  BY DEF InstallationTick
<1>4. \A r \in Repository : /\ installations'[r] \in [id: Covers, left: 0..InstallationTtl]
                            /\ installations'[r].id = installations[r].id
                            /\ installations'[r].left = Less(installations[r].left)
  <2> SUFFICES ASSUME NEW r \in Repository
               PROVE  /\ installations'[r] \in [id: Covers, left: 0..InstallationTtl]
                      /\ installations'[r].id = installations[r].id
                      /\ installations'[r].left = Less(installations[r].left)
    OBVIOUS
  <2>1. Less(installations[r].left) \in 0..InstallationTtl
    BY <1>2, <1>10, TokenConstants
  <2>2. installations[r].id \in Covers
    BY <1>3
  <2>3. installations'[r] = [id |-> installations[r].id, left |-> Less(installations[r].left)]
    BY <1>3
  <2> QED
    BY <2>1, <2>2, <2>3
<1>5. \A r \in Repository : notBefore'[r] \in 0..InstallationTtl + 1
  <2> SUFFICES ASSUME NEW r \in Repository PROVE notBefore'[r] \in 0..InstallationTtl + 1
    OBVIOUS
  <2> QED
    BY <1>10, <1>11, TokenConstants
<1>6. TokensShape'
  <2>1. \A i \in Installation : Less(installTokens[i]) \in 0..TokenLife
    BY <1>2, TokenConstants DEF Answered, TokensShape
  <2>2. installTokens' \in [Installation -> 0..TokenLife]
    BY <2>1 DEF InstallationTick
  <2>3. notBefore' \in [Repository -> 0..InstallationTtl + 1]
    BY <1>5 DEF InstallationTick
  <2>4. installations' \in [Repository -> [id: Covers, left: 0..InstallationTtl]]
    BY <1>4 DEF InstallationTick
  <2> QED
    BY <1>1, <2>2, <2>3, <2>4 DEF Answered, TokensShape
<1>7. OneIssueForAllWhoWait'
  BY <1>1 DEF Answered, OneIssueForAllWhoWait, Waiting
<1>8. TokensOutlastTheMargin' /\ NotThereIsRecent' /\ InstallationsInHand'
  BY <1>1 DEF TokensOutlastTheMargin, NotThereIsRecent, InstallationsInHand
<1>9. RememberedRight'
  <2>1. \A r \in Repository : covering'[r] = NoInstallation => notBefore'[r] = 0
    BY <1>1, <1>12
  <2>2. ASSUME NEW r \in Repository, installations'[r].left > 0, installations'[r].id # covering'[r]
        PROVE  notBefore'[r] + installations'[r].left <= InstallationTtl
    <3>1. installations[r].left > 0 /\ installations'[r].left = installations[r].left - 1
      <4>1. installations[r].left \in Nat /\ installations'[r].left = Less(installations[r].left)
        BY <1>4, <1>10
      <4> QED
        BY <1>2, <2>2, <4>1
    <3>2. notBefore[r] + installations[r].left <= InstallationTtl
      BY <1>1, <1>4, <2>2, <3>1 DEF Answered, RememberedRight
    <3>3. /\ notBefore[r] \in Nat /\ installations[r].left \in Nat /\ InstallationTtl \in Nat
          /\ notBefore'[r] = 0 \/ notBefore'[r] = notBefore[r] \/ notBefore'[r] = notBefore[r] + 1
      BY <1>10, <1>11, TokenConstants
    <3>4. notBefore[r] <= InstallationTtl
      BY <3>1, <3>2, <3>3
    <3>5. notBefore'[r] \in Nat /\ notBefore'[r] <= notBefore[r] + 1
      BY <3>3
    <3> QED
      BY <3>1, <3>2, <3>3, <3>5
  <2> QED
    BY <2>1, <2>2 DEF RememberedRight
<1> QED
  BY <1>6, <1>7, <1>8, <1>9 DEF Answered

LEMMA AnsweredStep == Answered /\ [InstallationNext]_app => Answered'
<1> SUFFICES ASSUME Answered, [InstallationNext]_app PROVE Answered'
  OBVIOUS
<1>1. CASE UNCHANGED app
  BY <1>1 DEF app, Answered, TokensShape, OneIssueForAllWhoWait, Waiting, TokensOutlastTheMargin,
     NotThereIsRecent, RememberedRight, InstallationsInHand, Lately
<1>2. CASE InstallationNext
  BY <1>2, InstallationAskStep, LearnsStep, TakesTokenStep, EndsStep, IssuedStep, NotFoundStep, IssueFailsStep,
     ChangesStep, TokenTick DEF InstallationNext
<1> QED
  BY <1>1, <1>2

LEMMA AnswersAreTyped == Answered => InstallationTypeOK
<1> SUFFICES ASSUME Answered PROVE InstallationTypeOK
  OBVIOUS
<1>1. Cardinality(Reading) \in Nat /\ (Reading # {} => Cardinality(Reading) >= 1)
  BY FS_EmptySet, FS_CardinalityType, TokenConstants
<1>2. \A i \in Installation : atHost[i] \in 0..Cardinality(Reading)
  BY <1>1 DEF Answered, OneIssueForAllWhoWait, TokensShape
<1> QED
  BY <1>2 DEF Answered, TokensShape, AReading, InstallationTypeOK

\* Requests share the token that is on its way and are all answered, none is handed one past its
\* margin, and a repository is said not to be there only of what was so within the time an answer is
\* believed (GitHubApp of packages/github/src/app.ts).
THEOREM InstallationAnswers == InstallationInit /\ [][InstallationNext]_app => []InstallationAnswersHold
<1>1. Answered => InstallationAnswersHold
  BY AnswersAreTyped DEF Answered, InstallationAnswersHold
<1> QED
  BY <1>1, AnsweredInit, AnsweredStep, PTL

-----------------------------------------------------------------------------
(* EmbeddingJobs *)

ASlice == [phase: {"taken", "begins", "embeds", "records", "counts", "sends"},
           job: Job, left: SUBSET Path, of: DOMAIN Indexes, missing: SUBSET Body, did: Nat,
           next: Path \union {0}, stopped: {"no", "interrupted", "bound"}]

SlicesShape ==
    /\ written \in 0..Len(Indexes) /\ (ready => written > 0) /\ (~ready => written < Len(Indexes))
    /\ overtaken \in BOOLEAN
    /\ mark \in {"none", "begun", "done"}
    /\ queue \subseteq Job
    /\ slice \in [Worker -> {Free} \union ASlice]
    /\ \A w \in Worker : slice[w].phase = "taken" => slice[w].next = 0
    /\ \A w \in Worker : slice[w].phase \in {"taken", "sends"} => slice[w].did = 0
    /\ \A w \in Worker : slice[w].phase = "embeds" => slice[w].left # {}
    /\ usage \in Nat /\ spent \in Nat /\ uncounted \in Nat

Has(p) == Indexes[written][p] \in vectors \union unstored

\* Everything before where a job starts is embedded, or was not stored at its turn.
StartsRight(job) == \A p \in Path : p <= job.after => Has(p)

\* A slice that has read its entries reads them of the index that is served, has embedded what it has
\* left behind, knows what is missing of the rest, and ends with a next only behind what it did.
Reads(s) == s.phase \in {"begins", "embeds", "records", "counts", "sends"}

GoesOnRight(s) ==
    /\ s.of = written /\ s.left \subseteq Path
    /\ \A p \in Path \ s.left : Has(p)
    /\ \A p \in s.left : Indexes[written][p] \in s.missing \/ Has(p)
    /\ s.phase = "begins" => s.next = 0
    /\ s.phase = "embeds" => s.next = 0
    /\ s.phase = "records" /\ s.next = 0 /\ s.stopped = "no" => s.left = {}
    /\ s.next # 0 => \A p \in s.left : p > s.next

\* Unless an index overtook the slices of the one before, no job and no slice leaves anything out.
NothingLeftOut ==
    ~overtaken =>
        /\ \A job \in queue : StartsRight(job)
        /\ \A w \in Worker : slice[w] # Free => StartsRight(slice[w].job)
        /\ \A w \in Worker : Reads(slice[w]) => GoesOnRight(slice[w])
        /\ mark = "done" => Embedded

Slicing == SlicesShape /\ NothingLeftOut

LEMMA SliceConstants ==
    /\ Len(Indexes) \in Nat /\ Len(Indexes) > 0 /\ DOMAIN Indexes = 1..Len(Indexes)
    /\ \A g \in DOMAIN Indexes : Indexes[g] \in [Path -> Body]
    /\ \A p \in Path : p \in Nat /\ p > 0
    /\ IsFiniteSet(Worker) /\ SliceBodies \in Nat \ {0} /\ RetryLimit \in Nat
    /\ Free.phase = "none" /\ ~Reads(Free)
<1>1. Cardinality(Path) \in Nat
  BY EmbeddingAssumption, FS_CardinalityType
<1>2. \A p \in Path : p \in Nat /\ p > 0
  BY <1>1, EmbeddingAssumption
<1> QED
  BY <1>2, EmbeddingAssumption DEF Free, Reads

LEMMA SlicingInit == EmbeddingInit => Slicing
<1> SUFFICES ASSUME EmbeddingInit PROVE Slicing
  OBVIOUS
<1>1. \A w \in Worker : slice[w] = Free /\ ~Reads(slice[w])
  BY SliceConstants DEF EmbeddingInit
<1>2. SlicesShape
  <2>1. 0 \in 0..Len(Indexes) /\ 0 < Len(Indexes)
    BY SliceConstants
  <2>2. slice \in [Worker -> {Free} \union ASlice] /\ \A w \in Worker : slice[w].phase = "none"
    BY SliceConstants DEF EmbeddingInit
  <2> QED
    BY <2>1, <2>2 DEF EmbeddingInit, SlicesShape
<1> QED
  BY <1>1, <1>2 DEF EmbeddingInit, Slicing, NothingLeftOut

\* What a slice is, once it runs.
LEMMA SliceIs ==
    ASSUME Slicing, NEW w \in Worker, slice[w].phase # "none"
    PROVE  slice[w] \in ASlice /\ slice[w] # Free /\ slice[w].job \in Job
BY SliceConstants DEF Slicing, SlicesShape, ASlice

\* Steps of one slice, after which it is s: what it was sent with, and what it does, is right.
LEMMA SliceMoves ==
    ASSUME Slicing, NEW w \in Worker, NEW s \in {Free} \union ASlice, Moves(w, s),
           UNCHANGED <<written, ready, overtaken>>, vectors \subseteq vectors',
           unstored \subseteq unstored', queue' \subseteq Job,
           mark' \in {"none", "begun", "done"}, usage' \in Nat, spent' \in Nat, uncounted' \in Nat,
           s.phase = "taken" => s.next = 0, s.phase \in {"taken", "sends"} => s.did = 0, s.phase = "embeds" => s.left # {},
           ~overtaken => \A job \in queue' : job \in queue \/ StartsRight(job)',
           ~overtaken /\ s # Free => StartsRight(s.job)',
           ~overtaken /\ Reads(s) => GoesOnRight(s)',
           ~overtaken /\ mark' = "done" => mark = "done" \/ Embedded'
    PROVE  Slicing'
<1>1. slice'[w] = s /\ \A v \in Worker \ {w} : slice'[v] = slice[v]
  BY DEF Moves, Slicing, SlicesShape
<1>2. SlicesShape'
  BY DEF Moves, Slicing, SlicesShape
<1>3. \A p \in Path : Has(p) => Has(p)'
  BY DEF Has
<1>4. \A job : StartsRight(job) => StartsRight(job)'
  BY <1>3 DEF StartsRight
<1>5. \A t : GoesOnRight(t) => GoesOnRight(t)'
  <2> SUFFICES ASSUME NEW t, GoesOnRight(t) PROVE GoesOnRight(t)'
    OBVIOUS
  <2>1. \A p \in Path \ t.left : Has(p)'
    BY <1>3 DEF GoesOnRight
  <2>2. \A p \in Path : p \in t.left => (Indexes[written][p] \in t.missing \/ Has(p))'
    BY <1>3 DEF GoesOnRight
  <2>3. t.left \subseteq Path
    BY DEF GoesOnRight
  <2> QED
    BY <2>1, <2>2, <2>3 DEF GoesOnRight
<1>6. Embedded => Embedded'
  BY DEF Embedded
<1> SUFFICES ASSUME ~overtaken
             PROVE  /\ \A job \in queue' : StartsRight(job)'
                    /\ \A v \in Worker : slice'[v] # Free => StartsRight(slice[v].job)'
                    /\ \A v \in Worker : Reads(slice'[v]) => GoesOnRight(slice[v])'
                    /\ mark' = "done" => Embedded'
  BY <1>2 DEF Slicing, NothingLeftOut, Reads
<1>7. \A job \in queue' : StartsRight(job)'
  BY <1>4 DEF Slicing, NothingLeftOut
<1>8. ASSUME NEW v \in Worker, slice'[v] # Free PROVE StartsRight(slice[v].job)'
  <2>1. PICK t : t = slice'[v]
    OBVIOUS
  <2>2. StartsRight(t.job)'
    BY <1>1, <1>4, <1>8, <2>1 DEF Slicing, NothingLeftOut
  <2> QED
    BY <2>1, <2>2 DEF StartsRight, Has
<1>9. ASSUME NEW v \in Worker, Reads(slice'[v]) PROVE GoesOnRight(slice[v])'
  <2>1. PICK t : t = slice'[v]
    OBVIOUS
  <2>2. GoesOnRight(t)'
    BY <1>1, <1>5, <1>9, <2>1 DEF Slicing, NothingLeftOut
  <2> QED
    BY <2>1, <2>2 DEF GoesOnRight, Has
<1>10. mark' = "done" => Embedded'
  BY <1>6 DEF Slicing, NothingLeftOut
<1> QED
  BY <1>7, <1>8, <1>9, <1>10

LEMMA TakeStep == ASSUME NEW w \in Worker PROVE Slicing /\ Take(w) => Slicing'
<1> SUFFICES ASSUME Slicing, Take(w) PROVE Slicing'
  OBVIOUS
<1>1. PICK job \in queue :
        /\ queue' = queue \ {job}
        /\ slice' = [slice EXCEPT ![w] =
             [phase |-> "taken", job |-> job, left |-> {}, of |-> 1, missing |-> {}, did |-> 0,
              next |-> 0, stopped |-> "no"]]
  BY DEF Take
<1>2. PICK s : s = [phase |-> "taken", job |-> job, left |-> {}, of |-> 1, missing |-> {}, did |-> 0,
                    next |-> 0, stopped |-> "no"]
  OBVIOUS
<1>3. UNCHANGED <<written, ready, vectors, mark, usage, spent, unstored, uncounted, overtaken>>
  BY DEF Take
<1>4. s \in ASlice /\ s.job = job /\ ~Reads(s) /\ Moves(w, s) /\ s.phase = "taken" /\ s.next = 0 /\ s.did = 0
  BY <1>1, <1>2, SliceConstants DEF ASlice, Reads, Moves, Slicing, SlicesShape
<1>5. ~overtaken => StartsRight(job)
  BY DEF Slicing, NothingLeftOut
<1>6. ~overtaken => StartsRight(s.job)'
  BY <1>3, <1>4, <1>5 DEF StartsRight, Has
<1>7. /\ mark' \in {"none", "begun", "done"} /\ usage' \in Nat /\ spent' \in Nat /\ uncounted' \in Nat
      /\ queue' \subseteq Job
  BY <1>1, <1>3 DEF Slicing, SlicesShape
<1> QED
  BY <1>1, <1>3, <1>4, <1>6, <1>7, SliceMoves

LEMMA ReadStep == ASSUME NEW w \in Worker PROVE Slicing /\ ReadEntries(w) => Slicing'
<1> SUFFICES ASSUME Slicing, ReadEntries(w) PROVE Slicing'
  OBVIOUS
<1> DEFINE left == PathsAfter(slice[w].job)
           missing == {Indexes[written][p] : p \in left} \ vectors
<1>1. PICK s : s = [slice[w] EXCEPT !.phase = "begins", !.left = left, !.of = written, !.missing = missing]
  OBVIOUS
<1>2. UNCHANGED <<written, ready, vectors, mark, queue, usage, spent, unstored, uncounted, overtaken>> /\ Moves(w, s)
  BY <1>1 DEF ReadEntries
<1>3. slice[w] \in ASlice /\ slice[w] # Free /\ slice[w].phase = "taken"
  BY SliceIs DEF ReadEntries
<1>4. written \in DOMAIN Indexes
  BY SliceConstants DEF ReadEntries, Slicing, SlicesShape
<1>5. left \in SUBSET Path /\ missing \in SUBSET Body
  BY <1>4, SliceConstants DEF PathsAfter
<1>6. /\ s \in ASlice /\ s.job = slice[w].job /\ s.phase = "begins" /\ s.of = written /\ s.left = left
      /\ s.missing = missing /\ s.next = slice[w].next
  <2> HIDE DEF left, missing
  <2> QED
    BY <1>1, <1>3, <1>4, <1>5 DEF ASlice
<1>7. ~overtaken => StartsRight(s.job)
  BY <1>3, <1>6 DEF Slicing, NothingLeftOut
<1>8. s.next = 0
  BY <1>3, <1>6 DEF Slicing, SlicesShape
<1>9. ~overtaken => GoesOnRight(s)
  <2> SUFFICES ASSUME ~overtaken PROVE GoesOnRight(s)
    OBVIOUS
  <2>1. \A p \in Path \ left : Has(p)
    <3>1. \A p \in Path : p \in Nat
      BY SliceConstants
    <3>2. slice[w].job.after \in Nat
      BY <1>3, <3>1 DEF ASlice, Job
    <3>3. \A p \in Path \ left : p <= slice[w].job.after
      BY <3>1, <3>2 DEF PathsAfter
    <3> QED
      BY <1>6, <1>7, <3>3 DEF StartsRight
  <2>2. \A p \in left : Indexes[written][p] \in missing \/ Has(p)
    BY DEF Has
  <2> HIDE DEF left, missing
  <2> QED
    BY <1>5, <1>6, <1>8, <2>1, <2>2 DEF GoesOnRight
<1>10. ~overtaken => GoesOnRight(s)' /\ StartsRight(s.job)'
  BY <1>2, <1>7, <1>9 DEF GoesOnRight, StartsRight, Has
<1>11. /\ mark' \in {"none", "begun", "done"} /\ usage' \in Nat /\ spent' \in Nat /\ uncounted' \in Nat
       /\ queue' \subseteq Job
  BY <1>2 DEF Slicing, SlicesShape
<1> HIDE DEF left, missing
<1> QED
  BY <1>2, <1>6, <1>8, <1>10, <1>11, SliceMoves

LEMMA SkipStep == ASSUME NEW w \in Worker PROVE Slicing /\ Skip(w) => Slicing'
<1> SUFFICES ASSUME Slicing, Skip(w) PROVE Slicing'
  OBVIOUS
<1>1. UNCHANGED <<written, ready, vectors, mark, queue, usage, spent, unstored, uncounted, overtaken>> /\ Moves(w, Free)
  BY DEF Skip
<1>2. /\ mark' \in {"none", "begun", "done"} /\ usage' \in Nat /\ spent' \in Nat /\ uncounted' \in Nat
      /\ queue' \subseteq Job
  BY <1>1 DEF Slicing, SlicesShape
<1> QED
  BY <1>1, <1>2, SliceConstants, SliceMoves

LEMMA BeginStep == ASSUME NEW w \in Worker PROVE Slicing /\ Begin(w) => Slicing'
<1> SUFFICES ASSUME Slicing, Begin(w) PROVE Slicing'
  OBVIOUS
<1>1. PICK s : s = [slice[w] EXCEPT !.phase = IF slice[w].left = {} THEN "records" ELSE "embeds"]
  OBVIOUS
<1>2. /\ UNCHANGED <<written, ready, vectors, queue, usage, spent, unstored, uncounted, overtaken>> /\ Moves(w, s)
      /\ mark' = mark \/ mark' = "begun"
  BY <1>1 DEF Begin
<1>3. slice[w] \in ASlice /\ slice[w] # Free /\ slice[w].phase = "begins"
  BY SliceIs DEF Begin
<1>4. /\ s \in ASlice /\ s.job = slice[w].job /\ s.of = slice[w].of /\ s.left = slice[w].left
      /\ s.missing = slice[w].missing /\ s.next = slice[w].next
      /\ s.phase = IF s.left = {} THEN "records" ELSE "embeds"
  BY <1>1, <1>3 DEF ASlice
<1>5. ~overtaken => StartsRight(s.job) /\ GoesOnRight(slice[w])
  BY <1>3, <1>4 DEF Slicing, NothingLeftOut, Reads
<1>6. ~overtaken => GoesOnRight(s)
  BY <1>3, <1>4, <1>5 DEF GoesOnRight
<1>7. ~overtaken => GoesOnRight(s)' /\ StartsRight(s.job)'
  BY <1>2, <1>5, <1>6 DEF GoesOnRight, StartsRight, Has
<1>8. /\ mark' \in {"none", "begun", "done"} /\ usage' \in Nat /\ spent' \in Nat /\ uncounted' \in Nat
      /\ queue' \subseteq Job
  BY <1>2 DEF Slicing, SlicesShape
<1>9. s.phase # "taken" /\ (mark' = "done" => mark = "done")
  BY <1>2, <1>4
<1> QED
  BY <1>2, <1>4, <1>7, <1>8, <1>9, SliceMoves

\* A slice goes past a body that is embedded, or was not stored.
LEMMA PastStep ==
    ASSUME Slicing, NEW w \in Worker, slice[w].phase = "embeds", NEW did \in Nat, Moves(w, Past(slice[w], did)),
           UNCHANGED <<written, ready, mark, queue, usage, uncounted, overtaken>>, spent' \in Nat,
           vectors \subseteq vectors', unstored \subseteq unstored',
           BodyOf(slice[w]) \in slice[w].missing => BodyOf(slice[w]) \in vectors' \union unstored'
    PROVE  Slicing'
<1>1. PICK t : t = slice[w]
  OBVIOUS
<1>2. PICK p : p = Min(t.left)
  OBVIOUS
<1>3. PICK body : body = Indexes[t.of][p]
  OBVIOUS
<1>4. BodyOf(t) = body
  BY <1>2, <1>3 DEF BodyOf
<1>5. PICK rest : rest = t.left \ {p}
  OBVIOUS
<1>6. PICK s : s = [t EXCEPT !.missing = @ \ {body}, !.did = did, !.left = rest,
                      !.next = IF Spent(did) /\ rest # {} THEN p ELSE 0,
                      !.phase = IF Spent(did) \/ rest = {} THEN "records" ELSE "embeds"]
  OBVIOUS
<1>7. Moves(w, s)
  BY <1>1, <1>2, <1>4, <1>5, <1>6 DEF Past
<1>9. t \in ASlice /\ t # Free /\ t.phase = "embeds"
  BY <1>1, SliceIs
<1>10. t.left # {} /\ t.left \subseteq Path /\ t.did \in Nat
  BY <1>1, <1>9 DEF ASlice, Slicing, SlicesShape
<1>11. p \in t.left /\ p \in Path /\ p \in Nat /\ p > 0 /\ \A q \in t.left : p <= q /\ q \in Nat
  <2>1. t.left \in SUBSET Nat /\ \A q \in t.left : q > 0
    BY <1>10, SliceConstants
  <2>2. \E m \in t.left : \A q \in t.left : m <= q
    BY <1>10, <2>1, LeastOf
  <2>3. p \in t.left /\ \A q \in t.left : p <= q
    BY <1>2, <2>2 DEF Min
  <2> QED
    BY <1>10, <2>1, <2>3
<1>13. /\ s.job = t.job /\ s.of = t.of /\ s.left = rest /\ s.missing = t.missing \ {body}
       /\ s.next = (IF Spent(did) /\ rest # {} THEN p ELSE 0)
       /\ s.phase = (IF Spent(did) \/ rest = {} THEN "records" ELSE "embeds")
       /\ s.stopped = t.stopped
  BY <1>6, <1>9 DEF ASlice
<1>14. s \in ASlice
  <2>1. s.next \in Path \union {0} /\ s.phase \in {"embeds", "records"} /\ rest \in SUBSET Path
    BY <1>5, <1>10, <1>11, <1>13
  <2>2. s = [phase |-> s.phase, job |-> t.job, left |-> rest, of |-> t.of, missing |-> t.missing \ {body},
             did |-> did, next |-> s.next, stopped |-> t.stopped]
    BY <1>6, <1>9 DEF ASlice
  <2>3. t.missing \ {body} \in SUBSET Body /\ t.of \in DOMAIN Indexes /\ t.job \in Job /\ t.stopped \in {"no", "interrupted", "bound"}
    BY <1>9 DEF ASlice
  <2> QED
    BY <2>1, <2>2, <2>3 DEF ASlice
<1>15. \A q \in rest : q \in t.left /\ q > p
  BY <1>5, <1>10, <1>11
<1>16. usage' \in Nat /\ uncounted' \in Nat
  BY DEF Slicing, SlicesShape
<1>17. vectors \subseteq vectors' /\ queue' \subseteq Job /\ mark' \in {"none", "begun", "done"}
  BY DEF Slicing, SlicesShape
<1>18. s.phase = "embeds" => s.left # {}
  BY <1>13
<1>19. ~overtaken => StartsRight(t.job) /\ GoesOnRight(t)
  BY <1>1, <1>9 DEF Slicing, NothingLeftOut, Reads
<1>20. \A q \in Path : Has(q) => Has(q)'
  BY DEF Has
<1>21. ~overtaken => StartsRight(s.job)'
  BY <1>13, <1>19, <1>20 DEF StartsRight
<1>22. ~overtaken => GoesOnRight(s)'
  <2> SUFFICES ASSUME ~overtaken PROVE GoesOnRight(s)'
    OBVIOUS
  <2>1. t.of = written /\ (\A q \in Path \ t.left : Has(q)) /\ \A q \in t.left : Indexes[written][q] \in t.missing \/ Has(q)
    BY <1>19 DEF GoesOnRight
  <2>2. body \in vectors' \union unstored' /\ body = Indexes[written'][p]
    BY <1>1, <1>3, <1>4, <1>11, <2>1 DEF Has
  <2>3. Has(p)'
    BY <2>2 DEF Has
  <2>4. \A q \in Path \ rest : Has(q)'
    BY <1>5, <1>20, <2>1, <2>3
  <2>5. \A q \in rest : Indexes[written'][q] \in t.missing \ {body} \/ Has(q)'
    <3> SUFFICES ASSUME NEW q \in rest PROVE Indexes[written'][q] \in t.missing \ {body} \/ Has(q)'
      OBVIOUS
    <3>1. q \in Path /\ (Indexes[written][q] \in t.missing \/ Has(q))
      BY <1>10, <1>15, <2>1
    <3>2. Indexes[written][q] = body => Has(q)'
      BY <2>2 DEF Has
    <3> QED
      BY <1>20, <3>1, <3>2
  <2>6. s.next # 0 => \A q \in rest : q > s.next
    BY <1>13, <1>15
  <2>7. written' = written /\ rest \subseteq Path
    BY <1>5, <1>10
  <2>8. (s.phase = "embeds" => s.next = 0) /\ s.phase # "begins" /\ (s.next = 0 /\ s.phase = "records" => rest = {})
    BY <1>11, <1>13
  <2> QED
    BY <1>13, <2>1, <2>4, <2>5, <2>6, <2>7, <2>8 DEF GoesOnRight
<1> QED
  BY <1>7, <1>13, <1>14, <1>16, <1>17, <1>18, <1>21, <1>22, SliceMoves

LEMMA EmbedStep == ASSUME NEW w \in Worker PROVE Slicing /\ EmbedBody(w) => Slicing'
<1> SUFFICES ASSUME Slicing, EmbedBody(w) PROVE Slicing'
  OBVIOUS
<1>1. PICK did : did = IF BodyOf(slice[w]) \in slice[w].missing THEN slice[w].did + 1 ELSE slice[w].did
  OBVIOUS
<1>2. /\ slice[w].phase = "embeds" /\ Moves(w, Past(slice[w], did))
      /\ vectors' = IF BodyOf(slice[w]) \in slice[w].missing THEN vectors \union {BodyOf(slice[w])} ELSE vectors
      /\ spent' = spent + did - slice[w].did
      /\ UNCHANGED <<written, ready, mark, queue, usage, unstored, uncounted, overtaken>>
  BY <1>1 DEF EmbedBody
<1>3. slice[w].did \in Nat /\ spent \in Nat
  BY <1>2, SliceIs DEF ASlice, Slicing, SlicesShape
<1>4. did \in Nat /\ spent' \in Nat
  BY <1>1, <1>2, <1>3
<1> QED
  BY <1>2, <1>4, PastStep

LEMMA PassOverStep == ASSUME NEW w \in Worker PROVE Slicing /\ PassOver(w) => Slicing'
<1> SUFFICES ASSUME Slicing, PassOver(w) PROVE Slicing'
  OBVIOUS
<1>1. /\ slice[w].phase = "embeds" /\ Moves(w, Past(slice[w], slice[w].did))
      /\ unstored' = unstored \union {BodyOf(slice[w])}
      /\ UNCHANGED <<written, ready, vectors, mark, queue, usage, spent, uncounted, overtaken>>
  BY DEF PassOver
<1>2. slice[w].did \in Nat /\ spent' \in Nat
  BY <1>1, SliceIs DEF ASlice, Slicing, SlicesShape
<1> QED
  BY <1>1, <1>2, PastStep

LEMMA StopStep == ASSUME NEW w \in Worker PROVE Slicing /\ Stop(w) => Slicing'
<1> SUFFICES ASSUME Slicing, Stop(w) PROVE Slicing'
  OBVIOUS
<1>0. PICK why \in {"interrupted", "bound"} : Moves(w, [slice[w] EXCEPT !.phase = "records", !.stopped = why])
  BY DEF Stop
<1>1. PICK s : s = [slice[w] EXCEPT !.phase = "records", !.stopped = why]
  OBVIOUS
<1>2. UNCHANGED <<written, ready, vectors, mark, queue, usage, spent, unstored, uncounted, overtaken>> /\ Moves(w, s)
  BY <1>0, <1>1 DEF Stop
<1>3. slice[w] \in ASlice /\ slice[w] # Free /\ slice[w].phase = "embeds"
  BY SliceIs DEF Stop
<1>4. /\ s \in ASlice /\ s.job = slice[w].job /\ s.of = slice[w].of /\ s.left = slice[w].left
      /\ s.missing = slice[w].missing /\ s.next = slice[w].next /\ s.phase = "records" /\ s.stopped = why
  BY <1>1, <1>3 DEF ASlice
<1>5. ~overtaken => StartsRight(s.job) /\ GoesOnRight(slice[w])
  BY <1>3, <1>4 DEF Slicing, NothingLeftOut, Reads
<1>6. ~overtaken => GoesOnRight(s)
  BY <1>3, <1>4, <1>5 DEF GoesOnRight
<1>7. ~overtaken => GoesOnRight(s)' /\ StartsRight(s.job)'
  BY <1>2, <1>5, <1>6 DEF GoesOnRight, StartsRight, Has
<1>8. /\ mark' \in {"none", "begun", "done"} /\ usage' \in Nat /\ spent' \in Nat /\ uncounted' \in Nat
      /\ queue' \subseteq Job
  BY <1>2 DEF Slicing, SlicesShape
<1> QED
  BY <1>2, <1>4, <1>7, <1>8, SliceMoves

LEMMA RecordStep == ASSUME NEW w \in Worker PROVE Slicing /\ Record(w) => Slicing'
<1> SUFFICES ASSUME Slicing, Record(w) PROVE Slicing'
  OBVIOUS
<1>1. PICK s : s = [slice[w] EXCEPT !.phase = "counts"]
  OBVIOUS
<1>2. /\ UNCHANGED <<written, ready, vectors, queue, usage, spent, unstored, uncounted, overtaken>> /\ Moves(w, s)
      /\ mark' = IF Completed(slice[w]) \/ mark = "done" THEN "done" ELSE "begun"
  BY <1>1 DEF Record
<1>3. slice[w] \in ASlice /\ slice[w] # Free /\ slice[w].phase = "records"
  BY SliceIs DEF Record
<1>4. /\ s \in ASlice /\ s.job = slice[w].job /\ s.of = slice[w].of /\ s.left = slice[w].left
      /\ s.missing = slice[w].missing /\ s.next = slice[w].next /\ s.phase = "counts"
  BY <1>1, <1>3 DEF ASlice
<1>5. ~overtaken => StartsRight(s.job) /\ GoesOnRight(slice[w])
  BY <1>3, <1>4 DEF Slicing, NothingLeftOut, Reads
<1>6. ~overtaken => GoesOnRight(s)
  BY <1>3, <1>4, <1>5 DEF GoesOnRight
<1>7. ~overtaken => GoesOnRight(s)' /\ StartsRight(s.job)'
  BY <1>2, <1>5, <1>6 DEF GoesOnRight, StartsRight, Has
<1>8. /\ mark' \in {"none", "begun", "done"} /\ usage' \in Nat /\ spent' \in Nat /\ uncounted' \in Nat
      /\ queue' \subseteq Job
  BY <1>2 DEF Slicing, SlicesShape
<1>9. ~overtaken /\ mark' = "done" => mark = "done" \/ Embedded'
  <2> SUFFICES ASSUME ~overtaken, mark' = "done", mark # "done" PROVE Embedded'
    OBVIOUS
  <2>1. slice[w].left = {}
    BY <1>2, <1>3, <1>5 DEF GoesOnRight, Completed
  <2>2. \A p \in Path : Has(p)
    BY <1>5, <2>1 DEF GoesOnRight
  <2> QED
    BY <1>2, <2>2 DEF Embedded, Has
<1> QED
  BY <1>2, <1>4, <1>7, <1>8, <1>9, SliceMoves

\* What is given back is what was taken.
LEMMA GivenBackIs ==
    ASSUME NEW job \in Job, queue \subseteq Job
    PROVE  GivenBack(job) \subseteq Job /\ \A other \in GivenBack(job) : other \in queue \/ other.after = job.after
<1>1. job.attempt \in 0..RetryLimit /\ job.after \in Path \union {0} /\ RetryLimit \in Nat
  BY SliceConstants DEF Job
<1>2. job.attempt # RetryLimit => [job EXCEPT !.attempt = @ + 1] \in Job /\ [job EXCEPT !.attempt = @ + 1].after = job.after
  <2>1. [job EXCEPT !.attempt = @ + 1] = [after |-> job.after, attempt |-> job.attempt + 1]
    BY DEF Job
  <2> QED
    BY <1>1, <2>1 DEF Job
<1> QED
  BY <1>2 DEF GivenBack

LEMMA CountStep == ASSUME NEW w \in Worker PROVE Slicing /\ Count(w) => Slicing'
<1> SUFFICES ASSUME Slicing, Count(w) PROVE Slicing'
  OBVIOUS
<1>1. UNCHANGED <<written, ready, vectors, mark, spent, unstored, uncounted, overtaken>> /\ usage' = usage + slice[w].did
  BY DEF Count, Counted
<1>2. slice[w] \in ASlice /\ slice[w] # Free /\ slice[w].phase = "counts" /\ slice[w].job \in Job
  BY SliceIs DEF Count
<1>3. ~overtaken => StartsRight(slice[w].job) /\ GoesOnRight(slice[w])
  BY <1>2 DEF Slicing, NothingLeftOut, Reads
<1>4. mark' \in {"none", "begun", "done"} /\ usage' \in Nat /\ spent' \in Nat /\ uncounted' \in Nat
  <2>1. slice[w].did \in Nat /\ usage \in Nat
    BY <1>2 DEF ASlice, Slicing, SlicesShape
  <2> QED
    BY <1>1, <2>1 DEF Slicing, SlicesShape
<1>5. CASE Moves(w, [slice[w] EXCEPT !.phase = "sends", !.did = 0]) /\ UNCHANGED queue
  <2>1. PICK s : s = [slice[w] EXCEPT !.phase = "sends", !.did = 0]
    OBVIOUS
  <2>2. /\ s \in ASlice /\ s.job = slice[w].job /\ s.of = slice[w].of /\ s.left = slice[w].left
        /\ s.missing = slice[w].missing /\ s.next = slice[w].next /\ s.phase = "sends" /\ s.did = 0
    BY <1>2, <2>1 DEF ASlice
  <2>3. ~overtaken => GoesOnRight(s)' /\ StartsRight(s.job)'
    BY <1>1, <1>2, <1>3, <2>2 DEF GoesOnRight, StartsRight, Has
  <2>4. Moves(w, s) /\ queue' \subseteq Job
    BY <1>5, <2>1 DEF Slicing, SlicesShape
  <2> QED
    BY <1>1, <1>4, <1>5, <2>2, <2>3, <2>4, SliceMoves
<1>6. CASE Moves(w, Free) /\ queue' = IF slice[w].stopped = "interrupted" THEN GivenBack(slice[w].job) ELSE queue
  <2>1. /\ queue' \subseteq Job
        /\ \A job \in queue' : job \in queue \/ job.after = slice[w].job.after
    BY <1>2, <1>6, GivenBackIs DEF Slicing, SlicesShape
  <2>2. ~overtaken => \A job \in queue' : job \in queue \/ StartsRight(job)'
    BY <1>1, <1>3, <2>1 DEF StartsRight, Has
  <2> QED
    BY <1>1, <1>4, <1>6, <2>1, <2>2, SliceConstants, SliceMoves
<1> QED
  BY <1>5, <1>6 DEF Count

LEMMA SendStep == ASSUME NEW w \in Worker PROVE Slicing /\ SendRest(w) => Slicing'
<1> SUFFICES ASSUME Slicing, SendRest(w) PROVE Slicing'
  OBVIOUS
<1>1. /\ UNCHANGED <<written, ready, vectors, mark, usage, spent, unstored, uncounted, overtaken>> /\ Moves(w, Free)
      /\ queue' = queue \union {[after |-> slice[w].next, attempt |-> 0]}
  BY DEF SendRest, Sent
<1>2. slice[w] \in ASlice /\ slice[w] # Free /\ slice[w].phase = "sends"
  BY SliceIs DEF SendRest
<1>3. ~overtaken => GoesOnRight(slice[w])
  BY <1>2 DEF Slicing, NothingLeftOut, Reads
<1>4. /\ mark' \in {"none", "begun", "done"} /\ usage' \in Nat /\ spent' \in Nat /\ uncounted' \in Nat
      /\ queue' \subseteq Job
  BY <1>1, <1>2, SliceConstants DEF Slicing, SlicesShape, Job, ASlice
<1>5. PICK job : job = [after |-> slice[w].next, attempt |-> 0]
  OBVIOUS
<1>6. ~overtaken => StartsRight(job)
  <2> SUFFICES ASSUME ~overtaken, NEW p \in Path, p <= slice[w].next PROVE Has(p)
    BY <1>5 DEF StartsRight
  <2>1. slice[w].next # 0 /\ p \in Nat /\ slice[w].next \in Nat
    BY <1>2, SliceConstants DEF ASlice
  <2>2. p \notin slice[w].left
    BY <1>3, <2>1 DEF GoesOnRight
  <2> QED
    BY <1>3, <2>2 DEF GoesOnRight
<1>7. ~overtaken => \A other \in queue' : other \in queue \/ StartsRight(other)'
  BY <1>1, <1>5, <1>6 DEF StartsRight, Has
<1> QED
  BY <1>1, <1>4, <1>7, SliceConstants, SliceMoves

LEMMA SliceFailsStep == ASSUME NEW w \in Worker PROVE Slicing /\ SliceFails(w) => Slicing'
<1> SUFFICES ASSUME Slicing, SliceFails(w) PROVE Slicing'
  OBVIOUS
<1>1. /\ UNCHANGED <<written, ready, vectors, mark, usage, spent, unstored, overtaken>> /\ Moves(w, Free)
      /\ queue' = GivenBack(slice[w].job) /\ uncounted' = uncounted + slice[w].did
  BY DEF SliceFails
<1>2. slice[w] \in ASlice /\ slice[w].job \in Job /\ slice[w].did \in Nat /\ slice[w] # Free
  BY DEF SliceFails, Slicing, SlicesShape, ASlice
<1>3. mark' \in {"none", "begun", "done"} /\ usage' \in Nat /\ spent' \in Nat /\ uncounted' \in Nat
  BY <1>1, <1>2 DEF Slicing, SlicesShape
<1>4. queue' \subseteq Job /\ \A job \in queue' : job \in queue \/ job.after = slice[w].job.after
  BY <1>1, <1>2, GivenBackIs DEF Slicing, SlicesShape
<1>5. ~overtaken => StartsRight(slice[w].job)
  BY <1>2 DEF Slicing, NothingLeftOut
<1>6. ~overtaken => \A job \in queue' : job \in queue \/ StartsRight(job)'
  BY <1>1, <1>4, <1>5 DEF StartsRight, Has
<1> QED
  BY <1>1, <1>3, <1>4, <1>6, SliceConstants, SliceMoves

-----------------------------------------------------------------------------

\* A job of a first slice leaves nothing out.
LEMMA FirstSlice == ASSUME NEW job, job.after = 0 PROVE StartsRight(job) /\ StartsRight(job)'
BY SliceConstants DEF StartsRight

\* Steps that leave the slices alone, and the index that is served.
LEMMA QueueMoves ==
    ASSUME Slicing, UNCHANGED <<written, vectors, mark, slice, usage, spent, unstored, uncounted, overtaken>>,
           (ready' => written > 0) /\ (~ready' => written < Len(Indexes)),
           queue' = queue \/ queue' = Sent(0)
    PROVE  Slicing'
<1>1. [after |-> 0, attempt |-> 0] \in Job
  BY SliceConstants DEF Job
<1>2. SlicesShape'
  BY <1>1 DEF Slicing, SlicesShape, Sent
<1>3. \A job \in queue' : job \in queue \/ job.after = 0
  BY DEF Sent
<1>4. \A job \in queue' : ~overtaken => StartsRight(job)'
  BY <1>3, FirstSlice DEF Slicing, NothingLeftOut, StartsRight, Has
<1>5. NothingLeftOut'
  BY <1>4 DEF Slicing, NothingLeftOut, StartsRight, GoesOnRight, Has, Embedded
<1> QED
  BY <1>2, <1>5 DEF Slicing

LEMMA WriteStep == Slicing /\ WriteIndex => Slicing'
<1> SUFFICES ASSUME Slicing, WriteIndex PROVE Slicing'
  OBVIOUS
<1>1. /\ ~ready /\ ready' = TRUE /\ written' = written + 1 /\ mark' = "none"
      /\ UNCHANGED <<vectors, queue, slice, usage, spent, uncounted>>
      /\ ~overtaken' => ~overtaken /\ (\A job \in queue : job.after = 0) /\ \A w \in Worker : slice[w] = Free
      /\ overtaken' \in BOOLEAN
  BY DEF WriteIndex, MarkOfNewIndex, Slicing, SlicesShape
<1>2. SlicesShape'
  <2>1. written' \in 0..Len(Indexes) /\ written' > 0
    BY <1>1, SliceConstants DEF Slicing, SlicesShape
  <2> QED
    BY <1>1, <2>1 DEF Slicing, SlicesShape
<1>3. NothingLeftOut'
  <2> SUFFICES ASSUME ~overtaken' PROVE NothingLeftOut'
    BY DEF NothingLeftOut
  <2>1. \A job \in queue' : StartsRight(job)'
    BY <1>1, FirstSlice
  <2>2. \A w \in Worker : slice'[w] = Free /\ ~Reads(slice'[w])
    BY <1>1, SliceConstants
  <2> QED
    BY <1>1, <2>1, <2>2 DEF NothingLeftOut, Reads
<1> QED
  BY <1>2, <1>3 DEF Slicing

LEMMA SlicingStep == Slicing /\ [EmbeddingNext]_embeddings => Slicing'
<1> SUFFICES ASSUME Slicing, [EmbeddingNext]_embeddings PROVE Slicing'
  OBVIOUS
<1>1. CASE UNCHANGED embeddings
  BY <1>1, QueueMoves DEF embeddings, Slicing, SlicesShape
<1>2. CASE BuildAgain
  BY <1>2, QueueMoves DEF BuildAgain
<1>3. CASE Announce
  BY <1>3, QueueMoves DEF Announce, Slicing, SlicesShape
<1>5. CASE StandingChanges
  BY <1>5, QueueMoves DEF StandingChanges, Slicing, SlicesShape
<1>4. CASE Sweep
  BY <1>4, QueueMoves DEF Sweep, Slicing, SlicesShape
<1> QED
  BY <1>1, <1>2, <1>3, <1>4, <1>5, WriteStep, TakeStep, ReadStep, SkipStep, BeginStep, EmbedStep, RecordStep,
     CountStep, SendStep, PassOverStep, StopStep, SliceFailsStep DEF EmbeddingNext, SliceStep

\* However slices race, fail, are interrupted, come to a bound and are tried again, a snapshot that is
\* marked as embedded (recordSnapshotEmbedding) has every body embedded that was stored when its turn
\* came; unless its index was written anew while a slice of the one before was under way or queued.
THEOREM DoneMeansEmbedded == EmbeddingInit /\ [][EmbeddingNext]_embeddings => []DoneIsEmbedded
<1>1. Slicing => DoneIsEmbedded
  BY DEF Slicing, NothingLeftOut, DoneIsEmbedded
<1> QED
  BY <1>1, SlicingInit, SlicingStep, PTL

-----------------------------------------------------------------------------
(* What is counted *)

InHandOf(w) == IF slice[w] = Free THEN 0 ELSE slice[w].did
InHand == [w \in Worker |-> InHandOf(w)]
CountedSo == spent = usage + uncounted + Sum(InHand, Worker)

LEMMA CountedSoIs == CountedSo <=> CountedOnce
<1> DEFINE e(s) == CHOOSE x \in s : TRUE
           Eq(g) == g = [s \in SUBSET Worker |->
             IF s = {} THEN 0 ELSE (IF slice[e(s)] = Free THEN 0 ELSE slice[e(s)].did) + g[s \ {e(s)}]]
<1>1. \A g : Eq(g) <=> Adds(g, InHand, Worker)
  <2>1. \A s \in SUBSET Worker : s # {} => InHand[e(s)] = (IF slice[e(s)] = Free THEN 0 ELSE slice[e(s)].did)
    <3>1. \A s \in SUBSET Worker : s # {} => e(s) \in Worker
      OBVIOUS
    <3> HIDE DEF e
    <3> QED
      BY <3>1 DEF InHand, InHandOf
  <2> SUFFICES ASSUME NEW g PROVE Eq(g) <=> Adds(g, InHand, Worker)
    OBVIOUS
  <2>2. [s \in SUBSET Worker |->
             IF s = {} THEN 0 ELSE (IF slice[e(s)] = Free THEN 0 ELSE slice[e(s)].did) + g[s \ {e(s)}]]
        = [s \in SUBSET Worker |-> IF s = {} THEN 0 ELSE InHand[e(s)] + g[s \ {e(s)}]]
    <3> HIDE DEF e
    <3> QED
      BY <2>1
  <2> QED
    BY <2>2 DEF Adds
<1>2. PICK g : Adds(g, InHand, Worker) /\ Sum(InHand, Worker) = g[Worker]
  BY SumIs, SliceConstants
<1>3. Eq(CHOOSE h : Eq(h))
  <2> HIDE DEF Eq
  <2>1. Eq(g)
    BY <1>1, <1>2
  <2> QED
    BY <2>1
<1>4. Adds(CHOOSE h : Eq(h), InHand, Worker)
  BY <1>1, <1>3
<1>5. (CHOOSE h : Eq(h))[Worker] = Sum(InHand, Worker)
  BY <1>2, <1>4, AddsAgree, SliceConstants
<1>6. MapThenSumSet(LAMBDA w : IF slice[w] = Free THEN 0 ELSE slice[w].did, Worker) = (CHOOSE h : Eq(h))[Worker]
  BY DEF MapThenSumSet, MapThenFoldSet
<1> QED
  BY <1>5, <1>6 DEF CountedSo, CountedOnce

\* What a slice has in hand to be counted changes with the slice alone.
LEMMA InHandChanges ==
    ASSUME Slicing, Slicing', NEW w \in Worker, \A v \in Worker \ {w} : slice'[v] = slice[v]
    PROVE  /\ Sum(InHand', Worker) = Sum(InHand, Worker) + InHandOf(w)' - InHandOf(w)
           /\ Sum(InHand, Worker) \in Int /\ InHandOf(w) \in Nat /\ InHandOf(w)' \in Nat
<1>1. \A v \in Worker : InHandOf(v) \in Nat /\ InHandOf(v)' \in Nat
  BY DEF Slicing, SlicesShape, InHandOf, ASlice
<1>2. \A v \in Worker : InHand[v] = InHandOf(v) /\ InHand'[v] = InHandOf(v)'
  BY DEF InHand
<1>3. \A v \in Worker \ {w} : InHand[v] = InHand'[v]
  BY <1>2 DEF InHandOf
<1>4. \A v \in Worker : InHand[v] \in Int /\ InHand'[v] \in Int
  BY <1>1, <1>2
<1>5. PICK f, h : f = InHand /\ h = InHand'
  OBVIOUS
<1>6. Sum(h, Worker) = Sum(f, Worker) + h[w] - f[w] /\ Sum(f, Worker) \in Int
  BY <1>3, <1>4, <1>5, SumChange, SumType, SliceConstants
<1> QED
  BY <1>1, <1>2, <1>5, <1>6

LEMMA CountedInit == EmbeddingInit => CountedSo
<1> SUFFICES ASSUME EmbeddingInit PROVE CountedSo
  OBVIOUS
<1>1. \A w \in Worker : InHand[w] = 0
  BY DEF EmbeddingInit, InHand, InHandOf
<1>2. Sum(InHand, Worker) = 0
  BY <1>1, SumOfZeroes, SliceConstants
<1> QED
  BY <1>2 DEF EmbeddingInit, CountedSo

\* A step of a slice counts what it takes out of its hand, and spends what it takes in.
LEMMA CountedBy ==
    ASSUME Slicing, Slicing', CountedSo, NEW w \in Worker, NEW s, Moves(w, s),
           spent' - spent = usage' - usage + uncounted' - uncounted + InHandOf(w)' - InHandOf(w)
    PROVE  CountedSo'
<1>1. \A v \in Worker \ {w} : slice'[v] = slice[v]
  BY DEF Moves, Slicing, SlicesShape
<1>2. /\ Sum(InHand', Worker) = Sum(InHand, Worker) + InHandOf(w)' - InHandOf(w)
      /\ Sum(InHand, Worker) \in Int /\ InHandOf(w) \in Nat /\ InHandOf(w)' \in Nat
  BY <1>1, InHandChanges
<1>3. /\ spent \in Nat /\ usage \in Nat /\ uncounted \in Nat
      /\ spent' \in Nat /\ usage' \in Nat /\ uncounted' \in Nat
  BY DEF Slicing, SlicesShape
<1> QED
  <2>1. Sum(InHand, Worker)' = Sum(InHand', Worker)
    BY DEF Sum, MapThenSumSet, MapThenFoldSet
  <2>2. PICK a, b, i, j : /\ a = Sum(InHand, Worker) /\ b = Sum(InHand', Worker)
                          /\ i = InHandOf(w) /\ j = InHandOf(w)'
    OBVIOUS
  <2>3. a \in Int /\ i \in Nat /\ j \in Nat /\ b = a + j - i /\ spent' - spent = usage' - usage + uncounted' - uncounted + j - i
    BY <1>2, <2>2
  <2>4. spent = usage + uncounted + a
    BY <2>2 DEF CountedSo
  <2>5. spent' = usage' + uncounted' + b
    <3>1. PICK p, q, r, x, y, z : /\ p = spent /\ q = usage /\ r = uncounted
                                  /\ x = spent' /\ y = usage' /\ z = uncounted'
      OBVIOUS
    <3>2. p \in Nat /\ q \in Nat /\ r \in Nat /\ x \in Nat /\ y \in Nat /\ z \in Nat
      BY <1>3, <3>1
    <3>3. x - p = y - q + z - r + j - i
      BY <2>3, <3>1
    <3>4. p = q + r + a
      BY <2>4, <3>1
    <3>5. x = y + z + (a + j - i)
      BY <2>3, <3>2, <3>3, <3>4
    <3> QED
      BY <2>3, <3>1, <3>5
  <2> QED
    BY <2>1, <2>2, <2>5 DEF CountedSo

LEMMA PastDid == ASSUME NEW t \in ASlice, NEW did PROVE Past(t, did).did = did /\ Past(t, did) # Free
<1>1. PICK p, body, rest : p = Min(t.left) /\ body = BodyOf(t) /\ rest = t.left \ {p}
  OBVIOUS
<1>2. Past(t, did) = [t EXCEPT !.missing = @ \ {body}, !.did = did, !.left = rest,
                               !.next = IF Spent(did) /\ rest # {} THEN p ELSE 0,
                               !.phase = IF Spent(did) \/ rest = {} THEN "records" ELSE "embeds"]
  BY <1>1 DEF Past
<1>3. Past(t, did).did = did /\ Past(t, did).phase # "none"
  BY <1>2 DEF ASlice
<1> QED
  BY <1>3, SliceConstants

LEMMA CountedStep == Slicing /\ Slicing' /\ CountedSo /\ [EmbeddingNext]_embeddings => CountedSo'
<1> SUFFICES ASSUME Slicing, Slicing', CountedSo, [EmbeddingNext]_embeddings PROVE CountedSo'
  OBVIOUS
<1>1. spent \in Nat /\ usage \in Nat /\ uncounted \in Nat
  BY DEF Slicing, SlicesShape
<1>2. ASSUME NEW w \in Worker, NEW s, Moves(w, s) PROVE slice'[w] = s
  BY <1>2 DEF Moves, Slicing, SlicesShape
<1>3. \A w \in Worker : slice[w] # Free =>
        slice[w] \in ASlice /\ InHandOf(w) = slice[w].did /\ slice[w].did \in Nat
  BY DEF Slicing, SlicesShape, InHandOf, ASlice
<1>4. CASE UNCHANGED slice /\ UNCHANGED <<usage, spent, uncounted>>
  BY <1>4 DEF CountedSo, InHand, InHandOf
<1>5. ASSUME NEW w \in Worker, NEW s, Moves(w, s), UNCHANGED <<usage, spent, uncounted>>,
             (IF s = Free THEN 0 ELSE s.did) = InHandOf(w)
      PROVE  CountedSo'
  <2>1. InHandOf(w)' = InHandOf(w) /\ InHandOf(w) \in Nat
    <3>1. slice'[w] = s
      BY <1>2, <1>5
    <3> QED
      BY <1>3, <1>5, <3>1 DEF InHandOf
  <2> QED
    BY <1>1, <1>5, <2>1, CountedBy
<1>6. ASSUME NEW w \in Worker, Take(w) PROVE CountedSo'
  <2>1. PICK job : Moves(w, [phase |-> "taken", job |-> job, left |-> {}, of |-> 1, missing |-> {}, did |-> 0,
              next |-> 0, stopped |-> "no"])
    BY <1>6 DEF Take, Moves
  <2>2. PICK s : s = [phase |-> "taken", job |-> job, left |-> {}, of |-> 1, missing |-> {}, did |-> 0,
              next |-> 0, stopped |-> "no"]
    OBVIOUS
  <2>3. s # Free /\ s.did = 0 /\ InHandOf(w) = 0
    BY <1>6, <2>2 DEF Take, InHandOf, Free
  <2> QED
    BY <1>5, <1>6, <2>1, <2>2, <2>3 DEF Take
<1>7. ASSUME NEW w \in Worker, ReadEntries(w) \/ Begin(w) \/ PassOver(w) \/ Stop(w) \/ Record(w) PROVE CountedSo'
  <2>1. slice[w] # Free /\ UNCHANGED <<usage, spent, uncounted>>
    BY <1>7, SliceConstants DEF ReadEntries, Begin, PassOver, Stop, Record
  <2>2. PICK s : Moves(w, s) /\ s # Free /\ s.did = slice[w].did
    <3>1. slice[w] \in ASlice
      BY <1>3, <2>1
    <3>2. CASE ReadEntries(w)
      <4>1. PICK l, m : Moves(w, [slice[w] EXCEPT !.phase = "begins", !.left = l, !.of = written, !.missing = m])
        BY <3>2 DEF ReadEntries
      <4>2. PICK s : s = [slice[w] EXCEPT !.phase = "begins", !.left = l, !.of = written, !.missing = m]
        OBVIOUS
      <4>3. s.did = slice[w].did /\ s.phase = "begins"
        BY <3>1, <4>2 DEF ASlice
      <4> QED
        BY <4>1, <4>2, <4>3, SliceConstants
    <3>3. CASE Begin(w)
      <4>1. PICK s : s = [slice[w] EXCEPT !.phase = IF slice[w].left = {} THEN "records" ELSE "embeds"]
        OBVIOUS
      <4>2. s.did = slice[w].did /\ s.phase # "none" /\ Moves(w, s)
        BY <3>1, <3>3, <4>1 DEF ASlice, Begin
      <4> QED
        BY <4>2, SliceConstants
    <3>4. CASE Stop(w)
      <4>1. PICK why : Moves(w, [slice[w] EXCEPT !.phase = "records", !.stopped = why])
        BY <3>4 DEF Stop
      <4>2. PICK s : s = [slice[w] EXCEPT !.phase = "records", !.stopped = why]
        OBVIOUS
      <4>3. s.did = slice[w].did /\ s.phase # "none" /\ Moves(w, s)
        BY <3>1, <4>1, <4>2 DEF ASlice
      <4> QED
        BY <4>3, SliceConstants
    <3>6. CASE PassOver(w)
      <4>1. PICK s : s = Past(slice[w], slice[w].did)
        OBVIOUS
      <4>2. s.did = slice[w].did /\ s # Free /\ Moves(w, s)
        BY <3>1, <3>6, <4>1, PastDid DEF PassOver
      <4> QED
        BY <4>2
    <3>5. CASE Record(w)
      <4>1. PICK s : s = [slice[w] EXCEPT !.phase = "counts"]
        OBVIOUS
      <4>2. s.did = slice[w].did /\ s.phase # "none" /\ Moves(w, s)
        BY <3>1, <3>5, <4>1 DEF ASlice, Record
      <4> QED
        BY <4>2, SliceConstants
    <3> QED
      BY <1>7, <3>2, <3>3, <3>4, <3>5, <3>6
  <2> QED
    BY <1>3, <1>5, <2>1, <2>2
<1>8. ASSUME NEW w \in Worker, Skip(w) \/ SendRest(w) PROVE CountedSo'
  <2>1. slice[w] # Free /\ slice[w].did = 0 /\ UNCHANGED <<usage, spent, uncounted>> /\ Moves(w, Free)
    BY <1>8, SliceConstants DEF Skip, SendRest, Slicing, SlicesShape
  <2> QED
    BY <1>3, <1>5, <2>1
<1>9. ASSUME NEW w \in Worker, EmbedBody(w) PROVE CountedSo'
  <2>1. PICK t : t = slice[w]
    OBVIOUS
  <2>2. PICK did, s : /\ s = Past(t, did) /\ Moves(w, s)
                      /\ spent' = spent + did - t.did /\ did \in {t.did, t.did + 1}
    BY <1>9, <2>1 DEF EmbedBody
  <2>3. t \in ASlice /\ InHandOf(w) = t.did /\ t.did \in Nat
    <3>1. slice[w] # Free
      BY <1>9, SliceConstants DEF EmbedBody
    <3> QED
      BY <1>3, <2>1, <3>1
  <2>4. s.did = did /\ s # Free
    BY <2>2, <2>3, PastDid
  <2>5. InHandOf(w)' = did
    <3>1. slice'[w] = s
      BY <1>2, <2>2
    <3> QED
      BY <2>4, <3>1 DEF InHandOf
  <2>6. UNCHANGED <<usage, uncounted>>
    BY <1>9 DEF EmbedBody
  <2>7. spent' - spent = usage' - usage + uncounted' - uncounted + InHandOf(w)' - InHandOf(w)
    BY <1>1, <2>2, <2>3, <2>5, <2>6
  <2> QED
    BY <2>2, <2>7, CountedBy
<1>10. ASSUME NEW w \in Worker, Count(w) \/ SliceFails(w) PROVE CountedSo'
  <2>1. /\ slice[w] # Free /\ spent' = spent
        /\ usage' + uncounted' = usage + uncounted + slice[w].did
    BY <1>1, <1>10, <1>3, SliceConstants DEF Count, Counted, SliceFails
  <2>2. PICK s : Moves(w, s) /\ (s = Free \/ (s # Free /\ s.did = 0))
    <3>1. slice[w] \in ASlice
      BY <1>3, <2>1
    <3>2. CASE Moves(w, Free)
      BY <3>2
    <3>3. CASE Moves(w, [slice[w] EXCEPT !.phase = "sends", !.did = 0])
      <4>1. PICK s : s = [slice[w] EXCEPT !.phase = "sends", !.did = 0]
        OBVIOUS
      <4>2. s.did = 0 /\ s.phase = "sends"
        BY <3>1, <4>1 DEF ASlice
      <4> QED
        BY <3>3, <4>1, <4>2, SliceConstants
    <3> QED
      BY <1>10, <3>2, <3>3 DEF Count, SliceFails
  <2>3. InHandOf(w)' = 0
    <3>1. slice'[w] = s
      BY <1>2, <2>2
    <3> QED
      BY <2>2, <3>1 DEF InHandOf
  <2>4. usage' \in Nat /\ uncounted' \in Nat /\ InHandOf(w) = slice[w].did /\ slice[w].did \in Nat
    BY <1>3, <2>1 DEF Slicing, SlicesShape
  <2>5. spent' - spent = usage' - usage + uncounted' - uncounted + InHandOf(w)' - InHandOf(w)
    BY <1>1, <2>1, <2>3, <2>4
  <2> QED
    BY <2>2, <2>5, CountedBy
<1>11. CASE BuildAgain \/ WriteIndex \/ Announce \/ StandingChanges \/ Sweep \/ UNCHANGED embeddings
  BY <1>4, <1>11 DEF BuildAgain, WriteIndex, Announce, StandingChanges, Sweep, embeddings
<1> QED
  BY <1>6, <1>7, <1>8, <1>9, <1>10, <1>11 DEF EmbeddingNext, SliceStep

\* Every body that was sent to the embedder and stored is counted once for the account
\* (addEmbeddingUsage), but those of slices that ended before they counted.
THEOREM BodiesCountedOnce == EmbeddingInit /\ [][EmbeddingNext]_embeddings => []CountedOnce
<1>1. EmbeddingInit => Slicing /\ CountedSo
  BY SlicingInit, CountedInit
<1>2. Slicing /\ CountedSo /\ [EmbeddingNext]_embeddings => (Slicing /\ CountedSo)'
  BY SlicingStep, CountedStep
<1>3. CountedSo => CountedOnce
  BY CountedSoIs
<1> QED
  BY <1>1, <1>2, <1>3, PTL

-----------------------------------------------------------------------------
(* UsageRecorder: lines of writes, and what they add up to *)

Keys == Day \X Client

LEMMA CountingConstants ==
    /\ MaxRemembered \in Nat /\ MaxRemembered > 0 /\ LastDay \in Nat /\ MaxRequests \in Nat /\ MaxFailures \in Nat
    /\ IsFiniteSet(Recorder) /\ IsFiniteSet(Client) /\ IsFiniteSet(Day) /\ IsFiniteSet(Keys)
    /\ \A d \in Day : d \in Nat /\ d <= LastDay
    /\ 0 \in Day /\ -1 \notin Day /\ NoCount \in [Day -> 0..MaxRequests]
<1>1. IsFiniteSet(Day)
  BY UsageAssumption, FS_Interval DEF Day
<1>2. IsFiniteSet(Keys)
  BY <1>1, UsageAssumption, FS_Product DEF Keys
<1> QED
  BY <1>1, <1>2, UsageAssumption DEF Day, NoCount

LEMMA SumOfIs == ASSUME NEW f, NEW S PROVE SumOf(f, S) = Sum(f, S)
BY DEF SumOf, Sum

LEMMA FrontIs ==
    ASSUME NEW s \in Seq(Write), s # <<>>
    PROVE  /\ Len(s) \in Nat /\ Len(s) > 0 /\ DOMAIN s = 1..Len(s) /\ 1 \in DOMAIN s /\ s[1] \in Write
           /\ Tail(s) \in Seq(Write) /\ Len(Tail(s)) = Len(s) - 1 /\ DOMAIN Tail(s) = 1..(Len(s) - 1)
           /\ \A i \in 1..(Len(s) - 1) : Tail(s)[i] = s[i + 1]
OBVIOUS

LEMMA BackIs ==
    ASSUME NEW s \in Seq(Write), NEW w \in Write
    PROVE  /\ Append(s, w) \in Seq(Write) /\ Len(Append(s, w)) = Len(s) + 1 /\ Len(s) \in Nat
           /\ DOMAIN Append(s, w) = 1..(Len(s) + 1) /\ DOMAIN s = 1..Len(s)
           /\ Append(s, w)[Len(s) + 1] = w /\ \A i \in 1..Len(s) : Append(s, w)[i] = s[i] /\ s[i] \in Write
OBVIOUS

LEMMA FirstIs ==
    ASSUME NEW s \in Seq(Write), s # <<>>, NEW w \in Write
    PROVE  /\ [s EXCEPT ![1] = w] \in Seq(Write) /\ DOMAIN [s EXCEPT ![1] = w] = DOMAIN s
           /\ [s EXCEPT ![1] = w][1] = w
           /\ \A i \in DOMAIN s : i # 1 => [s EXCEPT ![1] = w][i] = s[i]
<1>1. Len(s) \in Nat /\ Len(s) > 0 /\ DOMAIN s = 1..Len(s) /\ 1 \in DOMAIN s
  BY FrontIs
<1> QED
  BY <1>1, ExceptSeq

Counts(s, d) == [w \in DOMAIN s |-> Uncounted(s[w])[d]]

LEMMA UncountedIs == ASSUME NEW w \in Write, NEW d \in Day PROVE Uncounted(w)[d] \in Nat
BY CountingConstants DEF Uncounted, Write

LEMMA InWritesIs ==
    ASSUME NEW s \in Seq(Write), NEW d \in Day
    PROVE  /\ InWrites(s, d) = Sum(Counts(s, d), 1..Len(s)) /\ InWrites(s, d) \in Nat
           /\ Len(s) \in Nat /\ DOMAIN s = 1..Len(s) /\ IsFiniteSet(1..Len(s))
           /\ \A i \in 1..Len(s) : Counts(s, d)[i] = Uncounted(s[i])[d] /\ Counts(s, d)[i] \in Nat
<1>1. Len(s) \in Nat /\ DOMAIN s = 1..Len(s) /\ \A i \in 1..Len(s) : s[i] \in Write
  OBVIOUS
<1>2. \A i \in 1..Len(s) : Counts(s, d)[i] = Uncounted(s[i])[d] /\ Counts(s, d)[i] \in Nat
  BY <1>1, UncountedIs DEF Counts
<1>3. InWrites(s, d) = Sum(Counts(s, d), 1..Len(s))
  BY <1>1, SumOfIs DEF InWrites, Counts
<1>4. IsFiniteSet(1..Len(s))
  BY <1>1, FS_Interval
<1> QED
  BY <1>1, <1>2, <1>3, <1>4, SumNat

LEMMA NoWrites == ASSUME NEW d \in Day PROVE InWrites(<<>>, d) = 0
<1>1. <<>> \in Seq(Write) /\ Len(<<>>) = 0 /\ 1..0 = {}
  OBVIOUS
<1> QED
  BY <1>1, InWritesIs, SumOfNone

LEMMA OneWriteMore ==
    ASSUME NEW s \in Seq(Write), NEW w \in Write, NEW d \in Day
    PROVE  InWrites(Append(s, w), d) = InWrites(s, d) + Uncounted(w)[d]
<1> DEFINE t == Append(s, w)
           n == Len(s)
<1>1. /\ t \in Seq(Write) /\ Len(t) = n + 1 /\ n \in Nat /\ t[n + 1] = w /\ \A i \in 1..n : t[i] = s[i]
  BY BackIs
<1>2. /\ InWrites(t, d) = Sum(Counts(t, d), 1..(n + 1))
      /\ \A i \in 1..(n + 1) : Counts(t, d)[i] = Uncounted(t[i])[d] /\ Counts(t, d)[i] \in Nat
  BY <1>1, InWritesIs
<1>3. /\ InWrites(s, d) = Sum(Counts(s, d), 1..n) /\ IsFiniteSet(1..n)
      /\ \A i \in 1..n : Counts(s, d)[i] = Uncounted(s[i])[d] /\ Counts(s, d)[i] \in Nat
  BY InWritesIs
<1> HIDE DEF t, n
<1>4. Sum(Counts(t, d), 1..(n + 1)) = Counts(t, d)[n + 1] + Sum(Counts(t, d), 1..n)
  <2>1. \A i \in 1..(n + 1) : Counts(t, d)[i] \in Int
    BY <1>2
  <2> QED
    BY <1>1, <2>1, SumNext
<1>5. Sum(Counts(t, d), 1..n) = Sum(Counts(s, d), 1..n)
  <2>1. \A i \in 1..n : Counts(t, d)[i] = Counts(s, d)[i]
    BY <1>1, <1>2, <1>3
  <2>2. PICK f, h, S : f = Counts(t, d) /\ h = Counts(s, d) /\ S = 1..n
    OBVIOUS
  <2>3. IsFiniteSet(S) /\ \A i \in S : f[i] = h[i]
    BY <1>3, <2>1, <2>2
  <2>4. Sum(f, S) = Sum(h, S)
    BY <2>3, SumSame
  <2> QED
    BY <2>2, <2>4
<1>6. Counts(t, d)[n + 1] = Uncounted(w)[d]
  BY <1>1, <1>2
<1>7. Uncounted(w)[d] \in Nat /\ InWrites(s, d) \in Nat
  BY UncountedIs, InWritesIs
<1> QED
  BY <1>2, <1>3, <1>4, <1>5, <1>6, <1>7 DEF t

LEMMA OneWriteLess ==
    ASSUME NEW s \in Seq(Write), s # <<>>, NEW d \in Day
    PROVE  InWrites(s, d) = InWrites(Tail(s), d) + Uncounted(s[1])[d]
<1> DEFINE t == Tail(s)
           n == Len(s) - 1
<1>1. /\ t \in Seq(Write) /\ Len(s) = n + 1 /\ n \in Nat /\ Len(t) = n /\ \A i \in 1..n : t[i] = s[i + 1]
      /\ s[1] \in Write
  BY FrontIs
<1>2. /\ InWrites(t, d) = Sum(Counts(t, d), 1..n) /\ InWrites(t, d) \in Nat
      /\ \A i \in 1..n : Counts(t, d)[i] = Uncounted(t[i])[d]
  BY <1>1, InWritesIs
<1>3. /\ InWrites(s, d) = Sum(Counts(s, d), 1..(n + 1))
      /\ \A i \in 1..(n + 1) : Counts(s, d)[i] = Uncounted(s[i])[d] /\ Counts(s, d)[i] \in Nat
  BY <1>1, InWritesIs
<1> HIDE DEF t, n
<1>4. ASSUME NEW i \in 1..n PROVE Counts(t, d)[i] = Counts(s, d)[i + 1]
  <2>1. i + 1 \in 1..(n + 1)
    BY <1>1
  <2>2. Counts(s, d)[i + 1] = Uncounted(s[i + 1])[d]
    BY <1>3, <2>1
  <2>3. Counts(t, d)[i] = Uncounted(t[i])[d] /\ t[i] = s[i + 1]
    BY <1>1, <1>2
  <2> QED
    BY <2>2, <2>3
<1>5. Sum(Counts(s, d), 1..(n + 1)) = Counts(s, d)[1] + Sum(Counts(t, d), 1..n)
  <2>1. \A i \in 1..(n + 1) : Counts(s, d)[i] \in Int
    BY <1>3
  <2> QED
    BY <1>1, <1>4, <2>1, SumShift
<1>6. Counts(s, d)[1] = Uncounted(s[1])[d] /\ Uncounted(s[1])[d] \in Nat
  BY <1>1, <1>3, UncountedIs
<1> QED
  BY <1>2, <1>3, <1>5, <1>6 DEF t

LEMMA FirstWriteSteps ==
    ASSUME NEW s \in Seq(Write), s # <<>>, NEW w \in Write, NEW d \in Day
    PROVE  InWrites([s EXCEPT ![1] = w], d) = InWrites(s, d) + Uncounted(w)[d] - Uncounted(s[1])[d]
<1> DEFINE t == [s EXCEPT ![1] = w]
           n == Len(s)
<1>1. /\ n \in Nat /\ 1 \in 1..n /\ DOMAIN s = 1..n /\ s[1] \in Write
  BY FrontIs
<1>2. /\ t \in Seq(Write) /\ DOMAIN t = 1..n /\ t[1] = w /\ \A i \in 1..n : i # 1 => t[i] = s[i]
  BY <1>1, FirstIs
<1>3. Len(t) = n
  BY <1>1, <1>2
<1>4. /\ InWrites(t, d) = Sum(Counts(t, d), 1..n)
      /\ \A i \in 1..n : Counts(t, d)[i] = Uncounted(t[i])[d] /\ Counts(t, d)[i] \in Nat
  BY <1>2, <1>3, InWritesIs
<1>5. /\ InWrites(s, d) = Sum(Counts(s, d), 1..n) /\ IsFiniteSet(1..n)
      /\ \A i \in 1..n : Counts(s, d)[i] = Uncounted(s[i])[d] /\ Counts(s, d)[i] \in Nat
  BY InWritesIs
<1> HIDE DEF t, n
<1>6. Sum(Counts(t, d), 1..n) = Sum(Counts(s, d), 1..n) + Counts(t, d)[1] - Counts(s, d)[1]
  <2>1. \A i \in (1..n) \ {1} : Counts(s, d)[i] = Counts(t, d)[i]
    BY <1>2, <1>4, <1>5
  <2>2. \A i \in 1..n : Counts(s, d)[i] \in Int /\ Counts(t, d)[i] \in Int
    BY <1>4, <1>5
  <2> QED
    BY <1>1, <1>5, <2>1, <2>2, SumChange
<1>7. Counts(t, d)[1] = Uncounted(w)[d] /\ Counts(s, d)[1] = Uncounted(s[1])[d]
  BY <1>1, <1>2, <1>4, <1>5
<1> QED
  BY <1>4, <1>5, <1>6, <1>7 DEF t

-----------------------------------------------------------------------------
(* UsageRecorder: the types, without the bounds that follow from what is counted *)

CountingShape ==
    /\ today \in Day
    /\ counts \in [Recorder -> [Day -> Nat]]
    /\ clients \in [Recorder -> SUBSET Keys]
    /\ remembered \in [Recorder -> SUBSET Keys]
    /\ \A p \in Recorder : Cardinality(remembered[p]) <= MaxRemembered
    /\ rememberedDay \in [Recorder -> Day \union {-1}]
    /\ foldedBefore \in [Recorder -> Day \union {-1}]
    /\ writing \in [Recorder -> Seq(Write)]
    /\ usageClients \in SUBSET Keys
    /\ usageDaily \in [Day -> [requests: Nat, clients: Nat]]
    /\ requests \in [Day -> Nat] /\ Sum(requests, Day) <= MaxRequests
    /\ seen \in SUBSET Keys
    /\ dropped \in [Day -> Nat]
    /\ reopened \in SUBSET Day
    /\ failures \in 0..MaxFailures

\* What a process has in its buffer and in its writes.
HeldAt(p, d) == counts[p][d] + InWrites(writing[p], d)

AllCounted == \A d \in Day : requests[d] = usageDaily[d].requests + dropped[d] + Sum(Unwritten(d), Recorder)

\* Of any buffers and any lines of writes, so that it can be used of what a step leaves too.
LEMMA HeldAre ==
    ASSUME NEW cs \in [Recorder -> [Day -> Nat]], NEW ws \in [Recorder -> Seq(Write)], NEW d \in Day,
           NEW u, u = [p \in Recorder |-> cs[p][d] + InWrites(ws[p], d)]
    PROVE  /\ \A p \in Recorder : /\ u[p] = cs[p][d] + InWrites(ws[p], d) /\ u[p] \in Nat
                                  /\ cs[p][d] \in Nat /\ InWrites(ws[p], d) \in Nat /\ cs[p][d] <= u[p]
           /\ Sum(u, Recorder) \in Nat /\ \A p \in Recorder : u[p] <= Sum(u, Recorder)
<1>1. ASSUME NEW p \in Recorder
      PROVE  /\ u[p] = cs[p][d] + InWrites(ws[p], d) /\ u[p] \in Nat
             /\ cs[p][d] \in Nat /\ InWrites(ws[p], d) \in Nat /\ cs[p][d] <= u[p]
  <2>1. cs[p][d] \in Nat /\ ws[p] \in Seq(Write)
    OBVIOUS
  <2>2. InWrites(ws[p], d) \in Nat
    BY <2>1, InWritesIs
  <2> QED
    BY <2>1, <2>2
<1> QED
  BY <1>1, CountingConstants, SumNat

LEMMA HeldIs ==
    ASSUME CountingShape, NEW d \in Day
    PROVE  /\ \A p \in Recorder : /\ Unwritten(d)[p] = HeldAt(p, d) /\ HeldAt(p, d) \in Nat /\ counts[p][d] \in Nat
                                  /\ InWrites(writing[p], d) \in Nat /\ counts[p][d] <= HeldAt(p, d)
           /\ Sum(Unwritten(d), Recorder) \in Nat /\ \A p \in Recorder : HeldAt(p, d) <= Sum(Unwritten(d), Recorder)
<1>1. /\ counts \in [Recorder -> [Day -> Nat]] /\ writing \in [Recorder -> Seq(Write)]
      /\ Unwritten(d) = [p \in Recorder |-> counts[p][d] + InWrites(writing[p], d)]
  BY DEF CountingShape, Unwritten
<1>2. PICK u : u = Unwritten(d)
  OBVIOUS
<1>3. /\ \A p \in Recorder : /\ u[p] = counts[p][d] + InWrites(writing[p], d) /\ u[p] \in Nat
                             /\ counts[p][d] \in Nat /\ InWrites(writing[p], d) \in Nat /\ counts[p][d] <= u[p]
      /\ Sum(u, Recorder) \in Nat /\ \A p \in Recorder : u[p] <= Sum(u, Recorder)
  BY <1>1, <1>2, HeldAre
<1> QED
  BY <1>2, <1>3 DEF HeldAt

LEMMA CountsAreBounded ==
    ASSUME CountingShape, AllCounted
    PROVE  /\ counts \in [Recorder -> [Day -> 0..MaxRequests]]
           /\ usageDaily \in [Day -> [requests: 0..MaxRequests, clients: Nat]]
           /\ requests \in [Day -> 0..MaxRequests] /\ dropped \in [Day -> 0..MaxRequests]
<1>1. ASSUME NEW d \in Day
      PROVE  /\ requests[d] \in 0..MaxRequests /\ usageDaily[d].requests \in 0..MaxRequests
             /\ dropped[d] \in 0..MaxRequests /\ \A p \in Recorder : counts[p][d] \in 0..MaxRequests
  <2>1. requests[d] \in Nat /\ requests[d] <= Sum(requests, Day) /\ Sum(requests, Day) \in Nat
        /\ Sum(requests, Day) <= MaxRequests
    BY CountingConstants, SumNat DEF CountingShape
  <2>2. usageDaily[d].requests \in Nat /\ dropped[d] \in Nat
    BY DEF CountingShape
  <2>3. PICK a, b, c, r \in Nat : /\ a = usageDaily[d].requests /\ b = dropped[d] /\ c = Sum(Unwritten(d), Recorder)
                                 /\ r = requests[d]
    BY <2>1, <2>2, HeldIs
  <2>4. r = a + b + c /\ r <= MaxRequests
    BY <2>1, <2>3, CountingConstants DEF AllCounted
  <2>5. a <= MaxRequests /\ b <= MaxRequests /\ c <= MaxRequests
    BY <2>3, <2>4, CountingConstants
  <2>6. ASSUME NEW p \in Recorder PROVE counts[p][d] \in 0..MaxRequests
    <3>1. counts[p][d] \in Nat /\ HeldAt(p, d) \in Nat /\ counts[p][d] <= HeldAt(p, d) /\ HeldAt(p, d) <= c
      BY <2>3, HeldIs
    <3> QED
      BY <2>5, <3>1, CountingConstants
  <2> QED
    BY <2>1, <2>3, <2>4, <2>5, <2>6, CountingConstants
<1>2. counts = [p \in Recorder |-> [d \in Day |-> counts[p][d]]]
  BY DEF CountingShape
<1>3. usageDaily = [d \in Day |-> [requests |-> usageDaily[d].requests, clients |-> usageDaily[d].clients]]
      /\ \A d \in Day : usageDaily[d].clients \in Nat
  BY DEF CountingShape
<1>4. counts \in [Recorder -> [Day -> 0..MaxRequests]]
  BY <1>1, <1>2
<1>5. usageDaily \in [Day -> [requests: 0..MaxRequests, clients: Nat]]
  BY <1>1, <1>3
<1> QED
  BY <1>1, <1>4, <1>5 DEF CountingShape

LEMMA SameSum ==
    ASSUME NEW f, NEW g, NEW p \in Recorder, \A q \in Recorder : f[q] \in Nat /\ g[q] \in Nat,
           \A q \in Recorder : q # p => f[q] = g[q]
    PROVE  Sum(g, Recorder) = Sum(f, Recorder) + g[p] - f[p]
<1>1. (\A q \in Recorder : f[q] \in Int /\ g[q] \in Int) /\ \A q \in Recorder \ {p} : f[q] = g[q]
  OBVIOUS
<1> QED
  BY <1>1, CountingConstants, SumChange

\* A step of one process: what it counts goes where its own moves.
LEMMA OneCounts ==
    ASSUME CountingShape, CountingShape', AllCounted, NEW p \in Recorder,
           \A q \in Recorder : q # p => counts'[q] = counts[q] /\ writing'[q] = writing[q],
           \A d \in Day : requests'[d] + usageDaily[d].requests + dropped[d] + HeldAt(p, d)
                          = requests[d] + usageDaily'[d].requests + dropped'[d] + HeldAt(p, d)'
    PROVE  AllCounted'
<1> SUFFICES ASSUME NEW d \in Day
             PROVE  requests'[d] = usageDaily'[d].requests + dropped'[d] + Sum(Unwritten(d), Recorder)'
  BY DEF AllCounted
<1>1. PICK u, v : u = Unwritten(d) /\ v = Unwritten(d)'
  OBVIOUS
<1>2. /\ \A q \in Recorder : u[q] = HeldAt(q, d) /\ u[q] \in Nat
      /\ Sum(u, Recorder) \in Nat
  BY <1>1, HeldIs
<1>3. /\ \A q \in Recorder : v[q] = HeldAt(q, d)' /\ v[q] \in Nat
      /\ Sum(v, Recorder) \in Nat /\ Sum(v, Recorder) = Sum(Unwritten(d), Recorder)'
  <2>1. /\ counts' \in [Recorder -> [Day -> Nat]] /\ writing' \in [Recorder -> Seq(Write)]
        /\ v = [q \in Recorder |-> counts'[q][d] + InWrites(writing'[q], d)]
    BY <1>1 DEF CountingShape, Unwritten
  <2>2. (\A q \in Recorder : v[q] = counts'[q][d] + InWrites(writing'[q], d) /\ v[q] \in Nat) /\ Sum(v, Recorder) \in Nat
    BY <2>1, HeldAre
  <2>3. Sum(Unwritten(d), Recorder)' = Sum(Unwritten(d)', Recorder)
    BY DEF Sum, MapThenSumSet, MapThenFoldSet
  <2> QED
    BY <1>1, <2>2, <2>3 DEF HeldAt
<1>4. \A q \in Recorder : q # p => u[q] = v[q]
  BY <1>2, <1>3 DEF HeldAt
<1>5. Sum(v, Recorder) = Sum(u, Recorder) + v[p] - u[p]
  BY <1>2, <1>3, <1>4, SameSum
<1>6. PICK r, s, a, b, x, y \in Nat :
        /\ r = requests[d] /\ s = requests'[d] /\ a = usageDaily[d].requests /\ b = usageDaily'[d].requests
        /\ x = dropped[d] /\ y = dropped'[d]
  BY DEF CountingShape
<1>7. PICK m, n, i, j \in Nat : m = Sum(u, Recorder) /\ n = Sum(v, Recorder) /\ i = u[p] /\ j = v[p]
  BY <1>2, <1>3
<1>8. r = a + x + m
  BY <1>1, <1>6, <1>7 DEF AllCounted
<1>9. s + a + x + i = r + b + y + j
  BY <1>2, <1>3, <1>6, <1>7
<1>10. n = m + j - i
  BY <1>5, <1>7
<1>11. s = b + y + n
  <2>1. /\ r \in Int /\ s \in Int /\ a \in Int /\ b \in Int /\ x \in Int /\ y \in Int
        /\ m \in Int /\ n \in Int /\ i \in Int /\ j \in Int
    OBVIOUS
  <2>2. s + a + x + i = (a + x + m) + b + y + j
    BY <1>8, <1>9
  <2>3. s + i = m + b + y + j
    BY <2>1, <2>2
  <2> QED
    BY <1>10, <2>1, <2>3
<1> QED
  BY <1>3, <1>6, <1>7, <1>11

-----------------------------------------------------------------------------
(* UsageRecorder: the folds that are on their way *)

Old(keys, day) == \E k \in keys : k[1] < day

FoldsFrom(s, i, day) == \E j \in DOMAIN s : j >= i /\ s[j].fold /\ s[j].before = day

\* Old clients that a line of writes still has to write are folded behind them, or their process has
\* yet to ask for the day's fold.
FoldedBehind(s, asked, day) ==
    \A i \in DOMAIN s : Old(s[i].clients, day) => asked # day \/ FoldsFrom(s, i, day)

\* The fold of this day is on its way from a process, or it has yet to ask for it.
WillFold(p) == foldedBefore[p] # today \/ FoldsFrom(writing[p], 1, today)

LEMMA BehindFirst ==
    ASSUME NEW s \in Seq(Write), s # <<>>, NEW asked, NEW day, FoldedBehind(s, asked, day)
    PROVE  /\ FoldedBehind(Tail(s), asked, day)
           /\ FoldsFrom(s, 1, day) => (s[1].fold /\ s[1].before = day) \/ FoldsFrom(Tail(s), 1, day)
<1> DEFINE t == Tail(s)
           n == Len(s) - 1
<1>1. /\ n \in Nat /\ DOMAIN s = 1..(n + 1) /\ DOMAIN t = 1..n /\ \A i \in 1..n : t[i] = s[i + 1]
  BY FrontIs
<1> HIDE DEF t, n
<1>2. ASSUME NEW i \in 1..n, NEW j \in 1..(n + 1), j >= i + 1, s[j].fold, s[j].before = day PROVE FoldsFrom(t, i, day)
  <2>1. j - 1 \in 1..n /\ j - 1 >= i /\ t[j - 1] = s[j]
    BY <1>1, <1>2
  <2> QED
    BY <1>1, <1>2, <2>1 DEF FoldsFrom
<1>3. ASSUME NEW i \in 1..n, Old(t[i].clients, day) PROVE asked # day \/ FoldsFrom(t, i, day)
  <2>1. i + 1 \in DOMAIN s /\ t[i] = s[i + 1]
    BY <1>1
  <2>2. asked # day \/ FoldsFrom(s, i + 1, day)
    BY <1>3, <2>1 DEF FoldedBehind
  <2> QED
    BY <1>1, <1>2, <2>2 DEF FoldsFrom
<1>4. ASSUME FoldsFrom(s, 1, day), ~(s[1].fold /\ s[1].before = day) PROVE FoldsFrom(t, 1, day)
  <2>1. PICK j \in 1..(n + 1) : s[j].fold /\ s[j].before = day
    BY <1>1, <1>4 DEF FoldsFrom
  <2>2. j # 1 /\ j >= 1 + 1 /\ 1 \in 1..n
    BY <1>1, <1>4, <2>1
  <2> QED
    BY <1>2, <2>1, <2>2
<1> QED
  BY <1>1, <1>3, <1>4 DEF FoldedBehind, t

LEMMA BehindLast ==
    ASSUME NEW s \in Seq(Write), NEW w \in Write, NEW asked, NEW day, FoldedBehind(s, asked, day),
           asked # day => w.fold /\ w.before = day, Old(w.clients, day) => asked # day
    PROVE  /\ FoldedBehind(Append(s, w), day, day)
           /\ asked # day \/ FoldsFrom(s, 1, day) => FoldsFrom(Append(s, w), 1, day)
<1> DEFINE t == Append(s, w)
           n == Len(s)
<1>1. n \in Nat /\ DOMAIN s = 1..n /\ DOMAIN t = 1..(n + 1) /\ t[n + 1] = w /\ \A i \in 1..n : t[i] = s[i]
  BY BackIs
<1> HIDE DEF t, n
<1>2. ASSUME asked # day, NEW i \in 1..(n + 1) PROVE FoldsFrom(t, i, day)
  <2>1. n + 1 \in DOMAIN t /\ n + 1 >= i /\ t[n + 1].fold /\ t[n + 1].before = day
    BY <1>1, <1>2
  <2> QED
    BY <2>1 DEF FoldsFrom
<1>3. ASSUME NEW i \in 1..(n + 1), FoldsFrom(s, i, day) PROVE FoldsFrom(t, i, day)
  <2>1. PICK j \in 1..n : j >= i /\ s[j].fold /\ s[j].before = day
    BY <1>1, <1>3 DEF FoldsFrom
  <2>2. j \in DOMAIN t /\ t[j] = s[j]
    BY <1>1
  <2> QED
    BY <2>1, <2>2 DEF FoldsFrom
<1>4. ASSUME NEW i \in 1..(n + 1), Old(t[i].clients, day) PROVE FoldsFrom(t, i, day)
  <2>1. CASE i = n + 1
    BY <1>1, <1>2, <1>4, <2>1
  <2>2. CASE i \in 1..n
    <3>1. asked # day \/ FoldsFrom(s, i, day)
      BY <1>1, <1>4, <2>2 DEF FoldedBehind
    <3> QED
      BY <1>2, <1>3, <3>1
  <2> QED
    BY <1>1, <2>1, <2>2
<1>5. 1 \in 1..(n + 1)
  BY <1>1
<1> QED
  BY <1>1, <1>2, <1>3, <1>4, <1>5 DEF FoldedBehind, t

LEMMA BehindStep ==
    ASSUME NEW s \in Seq(Write), s # <<>>, NEW w \in Write, NEW asked, NEW day, FoldedBehind(s, asked, day),
           w.clients = s[1].clients, w.fold = s[1].fold, w.before = s[1].before
    PROVE  /\ FoldedBehind([s EXCEPT ![1] = w], asked, day)
           /\ FoldsFrom(s, 1, day) => FoldsFrom([s EXCEPT ![1] = w], 1, day)
<1>1. PICK t : t = [s EXCEPT ![1] = w]
  OBVIOUS
<1>2. DOMAIN t = DOMAIN s /\ t[1] = w /\ \A i \in DOMAIN s : i # 1 => t[i] = s[i]
  BY <1>1, FirstIs
<1>3. \A i \in DOMAIN s : t[i].clients = s[i].clients /\ t[i].fold = s[i].fold /\ t[i].before = s[i].before
  BY <1>2
<1>4. \A i : FoldsFrom(s, i, day) => FoldsFrom(t, i, day)
  BY <1>2, <1>3 DEF FoldsFrom
<1> QED
  BY <1>1, <1>2, <1>3, <1>4 DEF FoldedBehind

-----------------------------------------------------------------------------
(* UsageRecorder: the invariant *)

SeenBefore ==
    /\ \A k \in seen : k[1] <= today
    /\ seen # {} => Recorder # {}
    /\ usageClients \subseteq seen
    /\ \A p \in Recorder : clients[p] \subseteq seen /\ \A i \in DOMAIN writing[p] : writing[p][i].clients \subseteq seen

On(keys, d) == {k \in keys : k[1] = d}

CountedApart ==
    \A d \in Day \ reopened :
        /\ usageDaily[d].clients = 0 \/ On(usageClients, d) = {}
        /\ usageDaily[d].clients + Cardinality(On(usageClients, d)) <= Cardinality(On(seen, d))

FoldsInTime ==
    /\ \A p \in Recorder : foldedBefore[p] <= today
    /\ failures = 0 =>
         /\ \A p \in Recorder : /\ Old(clients[p], today) => foldedBefore[p] # today
                                /\ FoldedBehind(writing[p], foldedBefore[p], today)
         /\ Old(usageClients, today) => \E p \in Recorder : WillFold(p)

Counting == CountingShape /\ AllCounted /\ SeenBefore /\ CountedApart /\ FoldsInTime

LEMMA OnIs ==
    ASSUME NEW K \in SUBSET Keys, NEW d
    PROVE  /\ IsFiniteSet(On(K, d)) /\ Cardinality(On(K, d)) \in Nat
           /\ \A L \in SUBSET Keys : K \subseteq L => Cardinality(On(K, d)) <= Cardinality(On(L, d))
<1>1. \A L \in SUBSET Keys : IsFiniteSet(On(L, d)) /\ Cardinality(On(L, d)) \in Nat
  <2> SUFFICES ASSUME NEW L \in SUBSET Keys PROVE IsFiniteSet(On(L, d)) /\ Cardinality(On(L, d)) \in Nat
    OBVIOUS
  <2>1. On(L, d) \in SUBSET Keys
    BY DEF On
  <2> QED
    BY <2>1, CountingConstants, FS_Subset, FS_CardinalityType
<1>2. ASSUME NEW L \in SUBSET Keys, K \subseteq L PROVE Cardinality(On(K, d)) <= Cardinality(On(L, d))
  <2>1. On(K, d) \subseteq On(L, d)
    BY <1>2 DEF On
  <2> QED
    BY <1>1, <2>1, FS_Subset
<1> QED
  BY <1>1, <1>2

LEMMA UsageInitIs == UsageInit => Counting
<1> SUFFICES ASSUME UsageInit PROVE Counting
  OBVIOUS
<1> USE DEF UsageInit
<1>1. Sum(requests, Day) = 0
  BY CountingConstants, SumOfZeroes DEF NoCount
<1>2. CountingShape
  <2>1. NoCount \in [Day -> Nat] /\ <<>> \in Seq(Write) /\ failures \in 0..MaxFailures
    BY CountingConstants DEF NoCount
  <2>2. \A p \in Recorder : Cardinality(remembered[p]) <= MaxRemembered
    BY CountingConstants, FS_EmptySet
  <2>3. usageDaily \in [Day -> [requests: Nat, clients: Nat]]
    OBVIOUS
  <2> QED
    BY <1>1, <2>1, <2>2, <2>3, CountingConstants DEF CountingShape
<1>3. AllCounted
  <2> SUFFICES ASSUME NEW d \in Day PROVE requests[d] = usageDaily[d].requests + dropped[d] + Sum(Unwritten(d), Recorder)
    BY DEF AllCounted
  <2>1. \A p \in Recorder : Unwritten(d)[p] = 0
    BY NoWrites DEF Unwritten, NoCount
  <2>2. Sum(Unwritten(d), Recorder) = 0
    BY <2>1, CountingConstants, SumOfZeroes
  <2> QED
    BY <2>2 DEF NoCount
<1>4. SeenBefore
  BY DEF SeenBefore
<1>5. CountedApart
  <2>1. On({}, 0) = {} /\ \A d \in Day : On(usageClients, d) = {} /\ On(seen, d) = {}
    BY DEF On
  <2>2. Cardinality({}) = 0 /\ \A d \in Day : usageDaily[d].clients = 0
    BY FS_EmptySet
  <2> HIDE DEF UsageInit
  <2> QED
    BY <2>1, <2>2 DEF CountedApart
<1>6. FoldsInTime
  BY DEF FoldsInTime, Old, FoldedBehind
<1> QED
  BY <1>2, <1>3, <1>4, <1>5, <1>6 DEF Counting

LEMMA RememberedIs ==
    ASSUME CountingShape, NEW p \in Recorder, NEW key \in Keys
    PROVE  RememberedWith(p, key) \in SUBSET Keys /\ Cardinality(RememberedWith(p, key)) <= MaxRemembered
<1> DEFINE known == IF rememberedDay[p] = today THEN remembered[p] ELSE {}
<1>1. known \in SUBSET Keys /\ Cardinality(known) <= MaxRemembered
  <2>1. remembered[p] \in SUBSET Keys /\ Cardinality(remembered[p]) <= MaxRemembered
    BY DEF CountingShape
  <2>2. Cardinality({}) = 0
    BY FS_EmptySet
  <2> QED
    BY <2>1, <2>2, CountingConstants
<1>2. IsFiniteSet(known) /\ Cardinality(known) \in Nat
  BY <1>1, CountingConstants, FS_Subset, FS_CardinalityType
<1>3. RememberedWith(p, key) = IF key \in known THEN known
        ELSE IF Cardinality(known) >= MaxRemembered THEN {key} ELSE known \union {key}
  BY DEF RememberedWith
<1> HIDE DEF known
<1>4. Cardinality({key}) = 1
  BY FS_Singleton
<1>5. key \notin known => Cardinality(known \union {key}) = Cardinality(known) + 1
  BY <1>2, FS_AddElement
<1> QED
  BY <1>1, <1>2, <1>3, <1>4, <1>5, CountingConstants

\* What a step leaves of the clients when it moves none from row to count.
LEMMA NoClientMoves ==
    ASSUME Counting, CountingShape', UNCHANGED <<usageClients, usageDaily, reopened>>, seen \subseteq seen'
    PROVE  CountedApart'
<1> SUFFICES ASSUME NEW d \in Day \ reopened
             PROVE  /\ usageDaily[d].clients = 0 \/ On(usageClients, d) = {}
                    /\ usageDaily[d].clients + Cardinality(On(usageClients, d)) <= Cardinality(On(seen', d))
  BY DEF CountedApart, On
<1>1. /\ usageDaily[d].clients = 0 \/ On(usageClients, d) = {}
      /\ usageDaily[d].clients + Cardinality(On(usageClients, d)) <= Cardinality(On(seen, d))
  BY DEF Counting, CountedApart
<1>2. /\ usageClients \in SUBSET Keys /\ seen \in SUBSET Keys /\ seen' \in SUBSET Keys /\ usageDaily[d].clients \in Nat
  BY DEF Counting, CountingShape
<1>3. /\ Cardinality(On(usageClients, d)) \in Nat /\ Cardinality(On(seen, d)) \in Nat /\ Cardinality(On(seen', d)) \in Nat
      /\ Cardinality(On(seen, d)) <= Cardinality(On(seen', d))
  BY <1>2, OnIs
<1> QED
  BY <1>1, <1>2, <1>3

LEMMA CountsRequestStep == ASSUME Counting, NEW p \in Recorder, CountsRequest(p) PROVE Counting'
<1>1. PICK c \in Client :
        /\ clients' = IF Known(p, <<today, c>>) THEN clients ELSE [clients EXCEPT ![p] = @ \union {<<today, c>>}]
        /\ remembered' = [remembered EXCEPT ![p] = RememberedWith(p, <<today, c>>)]
        /\ seen' = seen \union {<<today, c>>}
  BY DEF CountsRequest
<1> DEFINE key == <<today, c>>
<1>2. CountingShape /\ today \in Day /\ key \in Keys
  BY DEF Counting, CountingShape, Keys
<1>3. /\ rememberedDay' = [rememberedDay EXCEPT ![p] = today]
      /\ counts' = [counts EXCEPT ![p] = [counts[p] EXCEPT ![today] = counts[p][today] + 1]]
      /\ requests' = [requests EXCEPT ![today] = requests[today] + 1] /\ Sum(requests, Day) < MaxRequests
      /\ UNCHANGED <<today, foldedBefore, writing, usageClients, usageDaily, dropped, reopened, failures>>
  BY <1>2, SumOfIs DEF CountsRequest
<1>4. /\ clients' \in [Recorder -> SUBSET Keys] /\ clients'[p] \in {clients[p], clients[p] \union {key}}
      /\ \A q \in Recorder : q # p => clients'[q] = clients[q]
  <2>1. CASE Known(p, key)
    BY <1>1, <1>2, <2>1 DEF CountingShape
  <2>2. CASE ~Known(p, key)
    BY <1>1, <1>2, <2>2 DEF CountingShape
  <2> QED
    BY <2>1, <2>2
<1>5. /\ remembered' \in [Recorder -> SUBSET Keys]
      /\ \A q \in Recorder : Cardinality(remembered'[q]) <= MaxRemembered
  <2>1. RememberedWith(p, key) \in SUBSET Keys /\ Cardinality(RememberedWith(p, key)) <= MaxRemembered
    BY <1>2, RememberedIs
  <2> HIDE DEF key
  <2> QED
    BY <1>1, <1>2, <2>1 DEF CountingShape, key
<1>6. /\ counts' \in [Recorder -> [Day -> Nat]] /\ \A q \in Recorder : q # p => counts'[q] = counts[q]
      /\ \A d \in Day : counts'[p][d] = counts[p][d] + (IF d = today THEN 1 ELSE 0)
  <2>1. counts[p] \in [Day -> Nat]
    BY <1>2 DEF CountingShape
  <2>2. PICK f : f = [counts[p] EXCEPT ![today] = counts[p][today] + 1]
    OBVIOUS
  <2>3. f \in [Day -> Nat] /\ \A d \in Day : f[d] = counts[p][d] + (IF d = today THEN 1 ELSE 0)
    BY <1>2, <2>1, <2>2
  <2> QED
    BY <1>2, <1>3, <2>2, <2>3 DEF CountingShape
<1>7. /\ requests' \in [Day -> Nat] /\ Sum(requests, Day)' <= MaxRequests
      /\ \A d \in Day : requests'[d] = requests[d] + (IF d = today THEN 1 ELSE 0)
  <2>1. requests \in [Day -> Nat]
    BY <1>2 DEF CountingShape
  <2>2. PICK f, g : f = requests /\ g = requests'
    OBVIOUS
  <2>3. g \in [Day -> Nat] /\ f \in [Day -> Nat] /\ g[today] = f[today] + 1 /\ \A d \in Day \ {today} : f[d] = g[d]
    BY <1>2, <1>3, <2>1, <2>2
  <2>4. Sum(g, Day) = Sum(f, Day) + g[today] - f[today] /\ Sum(f, Day) \in Nat
    <3>1. \A d \in Day : f[d] \in Int /\ g[d] \in Int /\ f[d] \in Nat
      BY <2>3
    <3> QED
      BY <1>2, <2>3, <3>1, CountingConstants, SumChange, SumNat
  <2>5. Sum(requests, Day)' = Sum(g, Day)
    BY <2>2 DEF Sum, MapThenSumSet, MapThenFoldSet
  <2>6. PICK m, n : m = f[today] /\ n = Sum(f, Day) /\ m \in Nat /\ n \in Nat /\ n < MaxRequests
    BY <1>2, <1>3, <2>2, <2>3, <2>4
  <2>7. Sum(g, Day) = n + (m + 1) - m
    BY <2>3, <2>4, <2>6
  <2>8. Sum(g, Day) = n + 1 /\ n + 1 <= MaxRequests
    BY <2>6, <2>7, CountingConstants
  <2> QED
    BY <1>2, <1>3, <2>1, <2>2, <2>3, <2>5, <2>8
<1>8. CountingShape'
  BY <1>1, <1>2, <1>3, <1>4, <1>5, <1>6, <1>7 DEF CountingShape
<1>9. AllCounted'
  <2>1. ASSUME NEW d \in Day
        PROVE  requests'[d] + usageDaily[d].requests + dropped[d] + HeldAt(p, d)
                 = requests[d] + usageDaily'[d].requests + dropped'[d] + HeldAt(p, d)'
    <3>1. PICK k, h, r, a, x \in Nat : k = counts[p][d] /\ h = InWrites(writing[p], d) /\ r = requests[d]
                                     /\ a = usageDaily[d].requests /\ x = dropped[d]
      BY <1>2, HeldIs DEF CountingShape
    <3>2. PICK e : e = (IF d = today THEN 1 ELSE 0) /\ e \in Nat
      OBVIOUS
    <3>3. HeldAt(p, d) = k + h /\ HeldAt(p, d)' = (k + e) + h /\ requests'[d] = r + e
      BY <1>3, <1>6, <1>7, <3>1, <3>2 DEF HeldAt
    <3>4. k \in Int /\ h \in Int /\ r \in Int /\ a \in Int /\ x \in Int /\ e \in Int
      BY <3>1, <3>2
    <3>5. (r + e) + a + x + (k + h) = r + a + x + ((k + e) + h)
      BY <3>4
    <3> QED
      BY <1>3, <3>1, <3>3, <3>5
  <2> QED
    BY <1>2, <1>3, <1>6, <1>8, <2>1, OneCounts DEF Counting
<1>10. SeenBefore'
  <2>1. key \in seen' /\ key[1] = today
    BY <1>1
  <2> QED
    BY <1>1, <1>2, <1>3, <1>4, <2>1, CountingConstants DEF Counting, SeenBefore
<1>11. CountedApart'
  BY <1>1, <1>3, <1>8, NoClientMoves
<1>12. FoldsInTime'
  <2>1. \A q \in Recorder : Old(clients'[q], today) => Old(clients[q], today)
    BY <1>2, <1>4, CountingConstants DEF Old
  <2>2. \A q \in Recorder : WillFold(q)' <=> WillFold(q)
    BY <1>3 DEF WillFold
  <2> QED
    BY <1>3, <2>1, <2>2 DEF Counting, FoldsInTime
<1> QED
  BY <1>8, <1>9, <1>10, <1>11, <1>12 DEF Counting

LEMMA LineIs ==
    ASSUME CountingShape, NEW p \in Recorder, NEW s \in Seq(Write), writing' = [writing EXCEPT ![p] = s]
    PROVE  /\ writing' \in [Recorder -> Seq(Write)] /\ writing'[p] = s
           /\ \A q \in Recorder : q # p => writing'[q] = writing[q]
BY DEF CountingShape

LEMMA SumStays == ASSUME UNCHANGED requests PROVE Sum(requests, Day)' = Sum(requests, Day)
BY DEF Sum, MapThenSumSet, MapThenFoldSet

LEMMA FlushStep == ASSUME Counting, NEW p \in Recorder, Flush(p) PROVE Counting'
<1>1. CountingShape /\ AllCounted
  BY DEF Counting
<1>2. PICK w : w = [step |-> "clients", clients |-> clients[p], counts |-> counts[p],
                    fold |-> foldedBefore[p] # today, before |-> today]
  OBVIOUS
<1>3. w \in Write /\ writing[p] \in Seq(Write) /\ today \in Day
  <2>1. counts[p] \in [Day -> 0..MaxRequests]
    BY <1>1, CountsAreBounded
  <2>2. clients[p] \in SUBSET (Day \X Client) /\ today \in Day /\ writing[p] \in Seq(Write)
    BY <1>1 DEF CountingShape, Keys
  <2> QED
    BY <1>2, <2>1, <2>2 DEF Write
<1>4. /\ writing' = [writing EXCEPT ![p] = Append(writing[p], w)]
      /\ counts' = [counts EXCEPT ![p] = NoCount] /\ clients' = [clients EXCEPT ![p] = {}]
      /\ foldedBefore' = [foldedBefore EXCEPT ![p] = today]
      /\ UNCHANGED <<today, remembered, rememberedDay, usageClients, usageDaily, requests, seen, dropped, reopened, failures>>
  BY <1>2 DEF Flush, LeftToCount
<1>5. /\ writing' \in [Recorder -> Seq(Write)] /\ writing'[p] = Append(writing[p], w)
      /\ \A q \in Recorder : q # p => writing'[q] = writing[q]
  BY <1>1, <1>3, <1>4, LineIs, BackIs
<1>6. /\ counts' \in [Recorder -> [Day -> Nat]] /\ counts'[p] = NoCount
      /\ \A q \in Recorder : q # p => counts'[q] = counts[q]
  <2>1. NoCount \in [Day -> Nat]
    BY DEF NoCount
  <2> QED
    BY <1>1, <1>4, <2>1 DEF CountingShape
<1>7. CountingShape'
  BY <1>1, <1>3, <1>4, <1>5, <1>6, SumStays DEF CountingShape
<1>8. AllCounted'
  <2>1. ASSUME NEW d \in Day PROVE HeldAt(p, d)' = HeldAt(p, d)
    <3>1. InWrites(Append(writing[p], w), d) = InWrites(writing[p], d) + Uncounted(w)[d]
      BY <1>3, OneWriteMore
    <3>2. Uncounted(w)[d] = counts[p][d]
      BY <1>2 DEF Uncounted
    <3>3. counts[p][d] \in Nat /\ InWrites(writing[p], d) \in Nat
      BY <1>1, HeldIs
    <3>4. HeldAt(p, d)' = 0 + InWrites(Append(writing[p], w), d)
      BY <1>5, <1>6 DEF HeldAt, NoCount
    <3> QED
      BY <3>1, <3>2, <3>3, <3>4 DEF HeldAt
  <2> QED
    BY <1>1, <1>4, <1>5, <1>6, <1>7, <2>1, OneCounts
<1>9. SeenBefore'
  <2>1. \A i \in DOMAIN writing'[p] : writing'[p][i].clients \subseteq seen
    <3>1. \A i \in DOMAIN writing[p] : writing[p][i].clients \subseteq seen
      BY DEF Counting, SeenBefore
    <3>2. w.clients \subseteq seen
      BY <1>2 DEF Counting, SeenBefore
    <3> QED
      BY <1>3, <1>5, <3>1, <3>2, BackIs
  <2> QED
    BY <1>1, <1>4, <1>5, <2>1 DEF Counting, SeenBefore, CountingShape
<1>10. CountedApart'
  BY <1>4, <1>7, NoClientMoves
<1>11. FoldsInTime'
  <2>1. \A q \in Recorder : foldedBefore'[q] <= today
    BY <1>1, <1>3, <1>4, CountingConstants DEF Counting, FoldsInTime, CountingShape
  <2> SUFFICES ASSUME failures = 0
               PROVE  /\ \A q \in Recorder : /\ Old(clients'[q], today) => foldedBefore'[q] # today
                                            /\ FoldedBehind(writing'[q], foldedBefore'[q], today)
                      /\ Old(usageClients, today) => \E q \in Recorder : WillFold(q)'
    BY <1>4, <2>1 DEF FoldsInTime
  <2>2. \A q \in Recorder : /\ Old(clients[q], today) => foldedBefore[q] # today
                           /\ FoldedBehind(writing[q], foldedBefore[q], today)
    BY DEF Counting, FoldsInTime
  <2>3. /\ FoldedBehind(writing'[p], today, today)
        /\ WillFold(p) => FoldsFrom(writing'[p], 1, today)
    <3>1. foldedBefore[p] # today => w.fold /\ w.before = today
      BY <1>2
    <3>2. Old(w.clients, today) => foldedBefore[p] # today
      BY <1>2, <2>2
    <3> QED
      BY <1>3, <1>5, <2>2, <3>1, <3>2, BehindLast DEF WillFold
  <2>4. foldedBefore'[p] = today /\ clients'[p] = {} /\ \A q \in Recorder : q # p =>
          foldedBefore'[q] = foldedBefore[q] /\ clients'[q] = clients[q]
    BY <1>1, <1>4 DEF CountingShape
  <2>5. \A q \in Recorder : WillFold(q) => WillFold(q)'
    BY <1>4, <1>5, <2>3, <2>4 DEF WillFold
  <2>6. Old(usageClients, today) => \E q \in Recorder : WillFold(q)
    BY DEF Counting, FoldsInTime
  <2>7. \A q \in Recorder : /\ Old(clients'[q], today) => foldedBefore'[q] # today
                           /\ FoldedBehind(writing'[q], foldedBefore'[q], today)
    BY <1>5, <2>2, <2>3, <2>4 DEF Old
  <2> QED
    BY <2>5, <2>6, <2>7
<1> QED
  BY <1>7, <1>8, <1>9, <1>10, <1>11 DEF Counting

-----------------------------------------------------------------------------

\* A write at the front of a line takes its next step: nothing is lost from the line.
LEMMA WriteSteps ==
    ASSUME Counting, NEW p \in Recorder, writing[p] # <<>>, NEW w \in Write, Steps(p, w),
           w.clients = writing[p][1].clients, w.fold = writing[p][1].fold, w.before = writing[p][1].before
    PROVE  /\ writing' \in [Recorder -> Seq(Write)]
           /\ \A q \in Recorder : q # p => writing'[q] = writing[q]
           /\ \A d \in Day : InWrites(writing'[p], d) = InWrites(writing[p], d) + Uncounted(w)[d] - Uncounted(writing[p][1])[d]
           /\ \A q \in Recorder : \A i \in DOMAIN writing'[q] : writing'[q][i].clients \subseteq seen
           /\ \A q \in Recorder : FoldedBehind(writing[q], foldedBefore[q], today) => FoldedBehind(writing'[q], foldedBefore[q], today)
           /\ \A q \in Recorder : FoldsFrom(writing[q], 1, today) => FoldsFrom(writing'[q], 1, today)
<1> DEFINE s == writing[p]
           t == [s EXCEPT ![1] = w]
<1>1. s \in Seq(Write) /\ CountingShape
  BY DEF Counting, CountingShape
<1>2. t \in Seq(Write) /\ DOMAIN t = DOMAIN s /\ 1 \in DOMAIN s /\ t[1] = w /\ \A i \in DOMAIN s : i # 1 => t[i] = s[i]
  BY <1>1, FirstIs, FrontIs
<1>3. writing' = [writing EXCEPT ![p] = t]
  BY DEF Steps
<1>4. /\ writing' \in [Recorder -> Seq(Write)] /\ writing'[p] = t /\ \A q \in Recorder : q # p => writing'[q] = writing[q]
  <2> HIDE DEF t
  <2> QED
    BY <1>1, <1>2, <1>3, LineIs
<1>5. \A d \in Day : InWrites(t, d) = InWrites(s, d) + Uncounted(w)[d] - Uncounted(s[1])[d]
  BY <1>1, FirstWriteSteps
<1>6. \A i \in DOMAIN t : t[i].clients \subseteq seen
  <2>1. \A i \in DOMAIN s : s[i].clients \subseteq seen
    BY DEF Counting, SeenBefore
  <2> HIDE DEF t, s
  <2>2. w.clients = s[1].clients
    BY DEF s
  <2> QED
    BY <1>2, <2>1, <2>2
<1>7. \A asked : FoldedBehind(s, asked, today) => FoldedBehind(t, asked, today)
  BY <1>1, BehindStep
<1>8. FoldsFrom(s, 1, today) => FoldsFrom(t, 1, today)
  <2>1. \A i \in DOMAIN s : t[i].fold = s[i].fold /\ t[i].before = s[i].before
    <3> HIDE DEF t, s
    <3>1. w.fold = s[1].fold /\ w.before = s[1].before
      BY DEF s
    <3> QED
      BY <1>2, <3>1
  <2> HIDE DEF t, s
  <2> QED
    BY <1>2, <2>1 DEF FoldsFrom
<1> HIDE DEF t
<1> QED
  BY <1>4, <1>5, <1>6, <1>7, <1>8 DEF Counting, SeenBefore

\* The write at the front of a line leaves it: what it had to count and to fold must be accounted for.
LEMMA WriteLeaves ==
    ASSUME Counting, NEW p \in Recorder, writing[p] # <<>>, WriteEnds(p)
    PROVE  /\ writing' \in [Recorder -> Seq(Write)]
           /\ \A q \in Recorder : q # p => writing'[q] = writing[q]
           /\ \A d \in Day : InWrites(writing[p], d) = InWrites(writing'[p], d) + Uncounted(writing[p][1])[d]
           /\ \A q \in Recorder : \A i \in DOMAIN writing'[q] : writing'[q][i].clients \subseteq seen
           /\ \A q \in Recorder : FoldedBehind(writing[q], foldedBefore[q], today) => FoldedBehind(writing'[q], foldedBefore[q], today)
           /\ \A q \in Recorder : FoldsFrom(writing[q], 1, today) =>
                \/ FoldsFrom(writing'[q], 1, today)
                \/ q = p /\ writing[p][1].fold /\ writing[p][1].before = today
<1> DEFINE s == writing[p]
           t == Tail(s)
<1>1. s \in Seq(Write) /\ CountingShape
  BY DEF Counting, CountingShape
<1>2. /\ t \in Seq(Write) /\ Len(s) \in Nat /\ DOMAIN s = 1..Len(s) /\ DOMAIN t = 1..(Len(s) - 1)
      /\ \A i \in 1..(Len(s) - 1) : t[i] = s[i + 1]
  BY <1>1, FrontIs
<1>3. writing' = [writing EXCEPT ![p] = t]
  BY DEF WriteEnds
<1>4. /\ writing' \in [Recorder -> Seq(Write)] /\ writing'[p] = t /\ \A q \in Recorder : q # p => writing'[q] = writing[q]
  <2> HIDE DEF t
  <2> QED
    BY <1>1, <1>2, <1>3, LineIs
<1>5. \A d \in Day : InWrites(s, d) = InWrites(t, d) + Uncounted(s[1])[d]
  BY <1>1, OneWriteLess
<1>6. \A i \in DOMAIN t : t[i].clients \subseteq seen
  <2>1. \A i \in DOMAIN s : s[i].clients \subseteq seen
    BY DEF Counting, SeenBefore
  <2> HIDE DEF t, s
  <2> SUFFICES ASSUME NEW i \in DOMAIN t PROVE t[i].clients \subseteq seen
    OBVIOUS
  <2>2. i + 1 \in DOMAIN s /\ t[i] = s[i + 1]
    BY <1>2
  <2> QED
    BY <2>1, <2>2
<1>7. \A asked : FoldedBehind(s, asked, today) => FoldedBehind(t, asked, today)
  BY <1>1, BehindFirst
<1>8. FoldsFrom(s, 1, today) => FoldsFrom(t, 1, today) \/ (s[1].fold /\ s[1].before = today)
  <2>2. ASSUME NEW j \in DOMAIN s, s[j].fold, s[j].before = today, j # 1 PROVE FoldsFrom(t, 1, today)
    <3> HIDE DEF t, s
    <3>1. j - 1 \in DOMAIN t /\ j - 1 >= 1 /\ t[j - 1] = s[j]
      BY <1>2, <2>2
    <3> QED
      BY <2>2, <3>1 DEF FoldsFrom
  <2> HIDE DEF t, s
  <2> QED
    BY <2>2 DEF FoldsFrom
<1> HIDE DEF t
<1> QED
  BY <1>4, <1>5, <1>6, <1>7, <1>8 DEF Counting, SeenBefore

LEMMA NextStepIs ==
    ASSUME NEW w \in Write, NEW st \in {"clients", "counts", "fold"}
    PROVE  /\ [w EXCEPT !.step = st] \in Write /\ [w EXCEPT !.step = st].step = st
           /\ [w EXCEPT !.step = st].clients = w.clients /\ [w EXCEPT !.step = st].counts = w.counts
           /\ [w EXCEPT !.step = st].fold = w.fold /\ [w EXCEPT !.step = st].before = w.before
BY DEF Write

LEMMA WriteIs ==
    ASSUME Counting, NEW p \in Recorder, writing[p] # <<>>
    PROVE  /\ writing[p] \in Seq(Write) /\ writing[p][1] \in Write /\ 1 \in DOMAIN writing[p] /\ CountingShape
           /\ writing[p][1].clients \in SUBSET Keys /\ writing[p][1].clients \subseteq seen
           /\ writing[p][1].before \in Day
           /\ \A d \in Day : writing[p][1].counts[d] \in Nat
<1>1. writing[p] \in Seq(Write) /\ CountingShape
  BY DEF Counting, CountingShape
<1>2. writing[p][1] \in Write /\ 1 \in DOMAIN writing[p]
  BY <1>1, FrontIs
<1>3. writing[p][1].clients \subseteq seen
  BY <1>2 DEF Counting, SeenBefore
<1>4. \A d \in Day : writing[p][1].counts[d] \in Nat
  BY <1>2, CountingConstants DEF Write
<1> QED
  BY <1>1, <1>2, <1>3, <1>4 DEF Write, Keys

LEMMA AddClientsStep == ASSUME Counting, NEW p \in Recorder, AddClients(p) PROVE Counting'
<1> DEFINE v == writing[p][1]
           w == [v EXCEPT !.step = "counts"]
<1>1. /\ writing[p] # <<>> /\ v.step = "clients" /\ Steps(p, w)
      /\ usageClients' = usageClients \union v.clients
      /\ reopened' = reopened \union {d \in Day : usageDaily[d].clients > 0 /\ \E c \in Client : <<d, c>> \in v.clients}
      /\ UNCHANGED <<today, counts, clients, remembered, rememberedDay, foldedBefore, usageDaily, requests, seen, dropped, failures>>
  BY DEF AddClients
<1>2. /\ v \in Write /\ 1 \in DOMAIN writing[p] /\ CountingShape /\ v.clients \in SUBSET Keys /\ v.clients \subseteq seen
      /\ \A d \in Day : v.counts[d] \in Nat
  BY <1>1, WriteIs
<1>3. w \in Write /\ w.step = "counts" /\ w.clients = v.clients /\ w.counts = v.counts /\ w.fold = v.fold /\ w.before = v.before
  BY <1>2, NextStepIs
<1>4. /\ writing' \in [Recorder -> Seq(Write)]
      /\ \A q \in Recorder : q # p => writing'[q] = writing[q]
      /\ \A d \in Day : InWrites(writing'[p], d) = InWrites(writing[p], d) + Uncounted(w)[d] - Uncounted(v)[d]
      /\ \A q \in Recorder : \A i \in DOMAIN writing'[q] : writing'[q][i].clients \subseteq seen
      /\ \A q \in Recorder : FoldedBehind(writing[q], foldedBefore[q], today) => FoldedBehind(writing'[q], foldedBefore[q], today)
      /\ \A q \in Recorder : FoldsFrom(writing[q], 1, today) => FoldsFrom(writing'[q], 1, today)
  <2> HIDE DEF w
  <2> QED
    BY <1>1, <1>3, WriteSteps
<1> HIDE DEF w
<1>5. \A d \in Day : InWrites(writing'[p], d) = InWrites(writing[p], d)
  <2> SUFFICES ASSUME NEW d \in Day PROVE InWrites(writing'[p], d) = InWrites(writing[p], d)
    OBVIOUS
  <2>1. Uncounted(w)[d] = v.counts[d] /\ Uncounted(v)[d] = v.counts[d]
    BY <1>1, <1>3 DEF Uncounted
  <2>2. PICK m, n \in Nat : m = InWrites(writing[p], d) /\ n = v.counts[d]
    BY <1>2, HeldIs
  <2>3. InWrites(writing'[p], d) = m + n - n
    BY <1>4, <2>1, <2>2
  <2> QED
    BY <2>2, <2>3
<1>6. CountingShape'
  BY <1>1, <1>2, <1>4, SumStays DEF CountingShape
<1>7. AllCounted'
  <2>1. \A d \in Day : HeldAt(p, d)' = HeldAt(p, d)
    BY <1>1, <1>5 DEF HeldAt
  <2> QED
    BY <1>1, <1>2, <1>4, <1>6, <2>1, OneCounts DEF Counting
<1>8. SeenBefore'
  BY <1>1, <1>2, <1>4 DEF Counting, SeenBefore
<1>9. CountedApart'
  <2> SUFFICES ASSUME NEW d \in Day \ reopened'
               PROVE  /\ usageDaily[d].clients = 0 \/ On(usageClients', d) = {}
                      /\ usageDaily[d].clients + Cardinality(On(usageClients', d)) <= Cardinality(On(seen, d))
    BY <1>1 DEF CountedApart, On
  <2>1. /\ usageDaily[d].clients = 0 \/ On(usageClients, d) = {}
        /\ usageDaily[d].clients + Cardinality(On(usageClients, d)) <= Cardinality(On(seen, d))
    BY <1>1 DEF Counting, CountedApart
  <2>2. /\ usageClients \in SUBSET Keys /\ usageClients' \in SUBSET Keys /\ seen \in SUBSET Keys /\ usageDaily[d].clients \in Nat
    BY <1>1, <1>2 DEF CountingShape
  <2>3. CASE usageDaily[d].clients = 0
    <3>1. usageClients' \subseteq seen
      BY <1>1, <1>2 DEF Counting, SeenBefore
    <3>2. PICK m, n \in Nat : m = Cardinality(On(usageClients', d)) /\ n = Cardinality(On(seen, d)) /\ m <= n
      BY <2>2, <3>1, OnIs
    <3> QED
      BY <2>3, <3>2
  <2>4. CASE usageDaily[d].clients > 0
    <3>1. ~\E c \in Client : <<d, c>> \in v.clients
      BY <1>1, <2>4
    <3>2. On(usageClients', d) = On(usageClients, d)
      BY <1>1, <1>2, <3>1 DEF On, Keys
    <3> QED
      BY <2>1, <3>2
  <2> QED
    BY <2>2, <2>3, <2>4
<1>10. FoldsInTime'
  <2>1. \A q \in Recorder : foldedBefore[q] <= today
    BY DEF Counting, FoldsInTime
  <2> SUFFICES ASSUME failures = 0
               PROVE  /\ \A q \in Recorder : /\ Old(clients[q], today) => foldedBefore[q] # today
                                            /\ FoldedBehind(writing'[q], foldedBefore[q], today)
                      /\ Old(usageClients', today) => \E q \in Recorder : WillFold(q)'
    BY <1>1, <2>1 DEF FoldsInTime
  <2>2. \A q \in Recorder : /\ Old(clients[q], today) => foldedBefore[q] # today
                           /\ FoldedBehind(writing[q], foldedBefore[q], today)
    BY DEF Counting, FoldsInTime
  <2>3. \A q \in Recorder : WillFold(q) => WillFold(q)'
    BY <1>1, <1>4 DEF WillFold
  <2>4. Old(usageClients, today) => \E q \in Recorder : WillFold(q)
    BY DEF Counting, FoldsInTime
  <2>5. Old(v.clients, today) => WillFold(p)
    BY <1>2, <2>2 DEF FoldedBehind, WillFold
  <2>6. Old(usageClients', today) => Old(usageClients, today) \/ Old(v.clients, today)
    BY <1>1 DEF Old
  <2> QED
    BY <1>4, <2>2, <2>3, <2>4, <2>5, <2>6
<1> QED
  BY <1>6, <1>7, <1>8, <1>9, <1>10 DEF Counting

LEMMA AddCountsStep == ASSUME Counting, NEW p \in Recorder, AddCounts(p) PROVE Counting'
<1> DEFINE v == writing[p][1]
           w == [v EXCEPT !.step = "fold"]
<1>1. /\ writing[p] # <<>> /\ v.step = "counts"
      /\ IF v.fold THEN Steps(p, w) ELSE WriteEnds(p)
      /\ usageDaily' = [d \in Day |-> [usageDaily[d] EXCEPT !.requests = @ + v.counts[d]]]
      /\ UNCHANGED <<today, counts, clients, remembered, rememberedDay, foldedBefore, usageClients, requests, seen, dropped,
                     reopened, failures>>
  BY DEF AddCounts
<1>2. v \in Write /\ 1 \in DOMAIN writing[p] /\ CountingShape /\ \A d \in Day : v.counts[d] \in Nat
  BY <1>1, WriteIs
<1>3. w \in Write /\ w.step = "fold" /\ w.clients = v.clients /\ w.counts = v.counts /\ w.fold = v.fold /\ w.before = v.before
  BY <1>2, NextStepIs
<1> DEFINE Left ==
      /\ writing' \in [Recorder -> Seq(Write)]
      /\ \A q \in Recorder : q # p => writing'[q] = writing[q]
      /\ \A d \in Day : InWrites(writing[p], d) = InWrites(writing'[p], d) + v.counts[d]
      /\ \A q \in Recorder : \A i \in DOMAIN writing'[q] : writing'[q][i].clients \subseteq seen
      /\ \A q \in Recorder : FoldedBehind(writing[q], foldedBefore[q], today) => FoldedBehind(writing'[q], foldedBefore[q], today)
      /\ \A q \in Recorder : FoldsFrom(writing[q], 1, today) => FoldsFrom(writing'[q], 1, today)
<1>4. ASSUME v.fold PROVE Left
  <2>1. /\ writing' \in [Recorder -> Seq(Write)]
        /\ \A q \in Recorder : q # p => writing'[q] = writing[q]
        /\ \A d \in Day : InWrites(writing'[p], d) = InWrites(writing[p], d) + Uncounted(w)[d] - Uncounted(v)[d]
        /\ \A q \in Recorder : \A i \in DOMAIN writing'[q] : writing'[q][i].clients \subseteq seen
        /\ \A q \in Recorder : FoldedBehind(writing[q], foldedBefore[q], today) => FoldedBehind(writing'[q], foldedBefore[q], today)
        /\ \A q \in Recorder : FoldsFrom(writing[q], 1, today) => FoldsFrom(writing'[q], 1, today)
    <3> HIDE DEF w
    <3> QED
      BY <1>1, <1>3, <1>4, WriteSteps
  <2> HIDE DEF w
  <2>2. ASSUME NEW d \in Day PROVE InWrites(writing[p], d) = InWrites(writing'[p], d) + v.counts[d]
    <3>1. Uncounted(w)[d] = 0 /\ Uncounted(v)[d] = v.counts[d]
      BY <1>1, <1>3 DEF Uncounted, NoCount
    <3>2. PICK m, n \in Nat : m = InWrites(writing[p], d) /\ n = v.counts[d]
      BY <1>2, HeldIs
    <3>3. InWrites(writing'[p], d) = m + 0 - n
      BY <2>1, <3>1, <3>2
    <3> QED
      BY <3>2, <3>3
  <2> QED
    BY <2>1, <2>2
<1>5. ASSUME ~v.fold PROVE Left
  <2>1. /\ writing' \in [Recorder -> Seq(Write)]
        /\ \A q \in Recorder : q # p => writing'[q] = writing[q]
        /\ \A d \in Day : InWrites(writing[p], d) = InWrites(writing'[p], d) + Uncounted(v)[d]
        /\ \A q \in Recorder : \A i \in DOMAIN writing'[q] : writing'[q][i].clients \subseteq seen
        /\ \A q \in Recorder : FoldedBehind(writing[q], foldedBefore[q], today) => FoldedBehind(writing'[q], foldedBefore[q], today)
        /\ \A q \in Recorder : FoldsFrom(writing[q], 1, today) =>
             FoldsFrom(writing'[q], 1, today) \/ (q = p /\ v.fold /\ v.before = today)
    BY <1>1, <1>5, WriteLeaves
  <2>2. \A d \in Day : Uncounted(v)[d] = v.counts[d]
    BY <1>1 DEF Uncounted
  <2> QED
    BY <1>5, <2>1, <2>2
<1>6. Left
  BY <1>4, <1>5
<1> HIDE DEF w
<1>7. /\ usageDaily' \in [Day -> [requests: Nat, clients: Nat]]
      /\ \A d \in Day : usageDaily'[d].requests = usageDaily[d].requests + v.counts[d] /\ usageDaily'[d].clients = usageDaily[d].clients
  <2>1. ASSUME NEW d \in Day
        PROVE  /\ [usageDaily[d] EXCEPT !.requests = @ + v.counts[d]] \in [requests: Nat, clients: Nat]
               /\ [usageDaily[d] EXCEPT !.requests = @ + v.counts[d]].requests = usageDaily[d].requests + v.counts[d]
               /\ [usageDaily[d] EXCEPT !.requests = @ + v.counts[d]].clients = usageDaily[d].clients
    <3>1. PICK n, u : n = v.counts[d] /\ u = usageDaily[d]
      OBVIOUS
    <3>2. n \in Nat /\ u \in [requests: Nat, clients: Nat]
      BY <1>2, <3>1 DEF CountingShape
    <3>3. /\ [u EXCEPT !.requests = @ + n] \in [requests: Nat, clients: Nat]
          /\ [u EXCEPT !.requests = @ + n].requests = u.requests + n /\ [u EXCEPT !.requests = @ + n].clients = u.clients
      BY <3>2
    <3> QED
      BY <3>1, <3>3
  <2> HIDE DEF v
  <2> QED
    BY <1>1, <2>1
<1>8. CountingShape'
  BY <1>1, <1>2, <1>6, <1>7, SumStays DEF CountingShape
<1>9. AllCounted'
  <2>1. ASSUME NEW d \in Day
        PROVE  requests'[d] + usageDaily[d].requests + dropped[d] + HeldAt(p, d)
                 = requests[d] + usageDaily'[d].requests + dropped'[d] + HeldAt(p, d)'
    <3>1. PICK k, n, r, a, x \in Nat : k = counts[p][d] /\ n = v.counts[d] /\ r = requests[d]
                                     /\ a = usageDaily[d].requests /\ x = dropped[d]
      BY <1>2, HeldIs DEF CountingShape
    <3>2. InWrites(writing'[p], d) \in Nat
      <4>1. writing'[p] \in Seq(Write)
        BY <1>6
      <4> QED
        BY <4>1, InWritesIs
    <3>3. PICK m \in Nat : m = InWrites(writing'[p], d)
      BY <3>2
    <3>4. HeldAt(p, d) = k + (m + n) /\ HeldAt(p, d)' = k + m /\ usageDaily'[d].requests = a + n
      BY <1>1, <1>6, <1>7, <3>1, <3>3 DEF HeldAt
    <3>5. r + a + x + (k + (m + n)) = r + (a + n) + x + (k + m)
      <4>1. k \in Int /\ n \in Int /\ r \in Int /\ a \in Int /\ x \in Int /\ m \in Int
        OBVIOUS
      <4> QED
        BY <4>1
    <3> QED
      BY <1>1, <3>1, <3>4, <3>5
  <2> QED
    BY <1>1, <1>2, <1>6, <1>8, <2>1, OneCounts DEF Counting
<1>10. SeenBefore'
  BY <1>1, <1>6 DEF Counting, SeenBefore
<1>11. CountedApart'
  BY <1>1, <1>7 DEF Counting, CountedApart, On
<1>12. FoldsInTime'
  <2>1. \A q \in Recorder : WillFold(q) => WillFold(q)'
    BY <1>1, <1>6 DEF WillFold
  <2> QED
    BY <1>1, <1>6, <2>1 DEF Counting, FoldsInTime
<1> QED
  BY <1>8, <1>9, <1>10, <1>11, <1>12 DEF Counting

LEMMA FoldStep == ASSUME Counting, NEW p \in Recorder, Fold(p) PROVE Counting'
<1> DEFINE v == writing[p][1]
           moved == Folded(v.before)
<1>1. /\ writing[p] # <<>> /\ v.step = "fold" /\ WriteEnds(p)
      /\ usageClients' = usageClients \ moved
      /\ usageDaily' = [d \in Day |-> [usageDaily[d] EXCEPT !.clients = @ + Cardinality({row \in moved : row[1] = d})]]
      /\ UNCHANGED <<today, counts, clients, remembered, rememberedDay, foldedBefore, requests, seen, dropped, reopened, failures>>
  BY DEF Fold, KeptRows
<1>2. v \in Write /\ CountingShape /\ v.before \in Day /\ v.before \in Int /\ usageClients \in SUBSET Keys
      /\ \A k \in Keys : k[1] \in Day /\ k[1] \in Int
  <2>1. v \in Write /\ CountingShape /\ v.before \in Day
    BY <1>1, WriteIs
  <2>2. \A k \in Keys : k[1] \in Day
    BY DEF Keys
  <2>3. \A d \in Day : d \in Int
    BY CountingConstants
  <2>4. usageClients \in SUBSET Keys
    BY <2>1 DEF CountingShape
  <2> HIDE DEF v
  <2> QED
    BY <2>1, <2>2, <2>3, <2>4
<1>3. /\ writing' \in [Recorder -> Seq(Write)]
      /\ \A q \in Recorder : q # p => writing'[q] = writing[q]
      /\ \A d \in Day : InWrites(writing[p], d) = InWrites(writing'[p], d) + Uncounted(v)[d]
      /\ \A q \in Recorder : \A i \in DOMAIN writing'[q] : writing'[q][i].clients \subseteq seen
      /\ \A q \in Recorder : FoldedBehind(writing[q], foldedBefore[q], today) => FoldedBehind(writing'[q], foldedBefore[q], today)
      /\ \A q \in Recorder : FoldsFrom(writing[q], 1, today) =>
           FoldsFrom(writing'[q], 1, today) \/ (q = p /\ v.fold /\ v.before = today)
  BY <1>1, WriteLeaves
<1>4. moved = {k \in usageClients : k[1] < v.before}
  BY DEF Folded
<1> HIDE DEF moved
\* Of a day that is folded no row is left, and of another none is moved.
<1>5. ASSUME NEW d \in Day
      PROVE  \/ {k \in moved : k[1] = d} = On(usageClients, d) /\ On(usageClients', d) = {}
             \/ {k \in moved : k[1] = d} = {} /\ On(usageClients', d) = On(usageClients, d)
  <2>1. CASE d < v.before
    BY <1>1, <1>2, <1>4, <2>1 DEF On
  <2>2. CASE ~(d < v.before)
    BY <1>1, <1>2, <1>4, <2>2 DEF On
  <2> QED
    BY <2>1, <2>2
<1>6. \A d \in Day : Cardinality({k \in moved : k[1] = d}) \in Nat
  <2> SUFFICES ASSUME NEW d \in Day PROVE Cardinality({k \in moved : k[1] = d}) \in Nat
    OBVIOUS
  <2>1. {k \in moved : k[1] = d} \in SUBSET Keys
    BY <1>2, <1>4
  <2> QED
    BY <2>1, CountingConstants, FS_Subset, FS_CardinalityType
<1>7. /\ usageDaily' \in [Day -> [requests: Nat, clients: Nat]]
      /\ \A d \in Day : /\ usageDaily'[d].requests = usageDaily[d].requests
                        /\ usageDaily'[d].clients = usageDaily[d].clients + Cardinality({k \in moved : k[1] = d})
  <2>1. ASSUME NEW d \in Day, NEW n, n = Cardinality({k \in moved : k[1] = d})
        PROVE  /\ [usageDaily[d] EXCEPT !.clients = @ + n] \in [requests: Nat, clients: Nat]
               /\ [usageDaily[d] EXCEPT !.clients = @ + n].clients = usageDaily[d].clients + n
               /\ [usageDaily[d] EXCEPT !.clients = @ + n].requests = usageDaily[d].requests
    <3>1. PICK u : u = usageDaily[d]
      OBVIOUS
    <3>2. n \in Nat /\ u \in [requests: Nat, clients: Nat]
      BY <1>2, <1>6, <2>1, <3>1 DEF CountingShape
    <3>3. /\ [u EXCEPT !.clients = @ + n] \in [requests: Nat, clients: Nat]
          /\ [u EXCEPT !.clients = @ + n].clients = u.clients + n /\ [u EXCEPT !.clients = @ + n].requests = u.requests
      BY <3>2
    <3> QED
      BY <3>1, <3>3
  <2> QED
    BY <1>1, <2>1
<1>8. CountingShape'
  <2>1. usageClients' \in SUBSET Keys
    BY <1>1, <1>2
  <2> QED
    BY <1>1, <1>2, <1>3, <1>7, <2>1, SumStays DEF CountingShape
<1>9. AllCounted'
  <2>1. ASSUME NEW d \in Day PROVE HeldAt(p, d)' = HeldAt(p, d)
    <3>1. Uncounted(v)[d] = 0
      BY <1>1 DEF Uncounted, NoCount
    <3>2. writing'[p] \in Seq(Write)
      BY <1>3
    <3>3. InWrites(writing'[p], d) \in Nat
      BY <3>2, InWritesIs
    <3>4. InWrites(writing'[p], d) = InWrites(writing[p], d)
      BY <1>3, <3>1, <3>3
    <3> QED
      BY <1>1, <3>4 DEF HeldAt
  <2>2. \A d \in Day : requests'[d] + usageDaily[d].requests + dropped[d] + HeldAt(p, d)
                       = requests[d] + usageDaily'[d].requests + dropped'[d] + HeldAt(p, d)'
    BY <1>1, <1>7, <2>1
  <2>3. \A q \in Recorder : q # p => counts'[q] = counts[q] /\ writing'[q] = writing[q]
    BY <1>1, <1>3
  <2> QED
    BY <1>2, <1>8, <2>2, <2>3, OneCounts DEF Counting
<1>10. SeenBefore'
  BY <1>1, <1>3 DEF Counting, SeenBefore
<1>11. CountedApart'
  <2> SUFFICES ASSUME NEW d \in Day \ reopened
               PROVE  /\ usageDaily'[d].clients = 0 \/ On(usageClients', d) = {}
                      /\ usageDaily'[d].clients + Cardinality(On(usageClients', d)) <= Cardinality(On(seen, d))
    BY <1>1 DEF CountedApart, On
  <2>1. /\ usageDaily[d].clients = 0 \/ On(usageClients, d) = {}
        /\ usageDaily[d].clients + Cardinality(On(usageClients, d)) <= Cardinality(On(seen, d))
    BY DEF Counting, CountedApart
  <2>2. usageDaily[d].clients \in Nat /\ Cardinality(On(usageClients, d)) \in Nat
    BY <1>2, OnIs DEF CountingShape
  <2>3. Cardinality({}) = 0
    BY FS_EmptySet
  <2>4. PICK m, n \in Nat : m = usageDaily[d].clients /\ n = Cardinality(On(usageClients, d))
    BY <2>2
  <2>5. CASE {k \in moved : k[1] = d} = On(usageClients, d) /\ On(usageClients', d) = {}
    <3>1. usageDaily'[d].clients = m + n /\ Cardinality(On(usageClients', d)) = 0
      BY <1>7, <2>3, <2>4, <2>5
    <3>2. m + n + 0 = m + n
      BY <2>4
    <3> QED
      BY <2>1, <2>4, <2>5, <3>1, <3>2
  <2>6. CASE {k \in moved : k[1] = d} = {} /\ On(usageClients', d) = On(usageClients, d)
    <3>1. usageDaily'[d].clients = m + 0
      BY <1>7, <2>3, <2>4, <2>6
    <3>2. m + 0 = m
      BY <2>4
    <3> QED
      BY <2>1, <2>4, <2>6, <3>1, <3>2
  <2> QED
    BY <1>5, <2>5, <2>6
<1>12. FoldsInTime'
  <2>1. \A q \in Recorder : foldedBefore[q] <= today
    BY DEF Counting, FoldsInTime
  <2> SUFFICES ASSUME failures = 0
               PROVE  /\ \A q \in Recorder : /\ Old(clients[q], today) => foldedBefore[q] # today
                                            /\ FoldedBehind(writing'[q], foldedBefore[q], today)
                      /\ Old(usageClients', today) => \E q \in Recorder : WillFold(q)'
    BY <1>1, <2>1 DEF FoldsInTime
  <2>2. \A q \in Recorder : /\ Old(clients[q], today) => foldedBefore[q] # today
                           /\ FoldedBehind(writing[q], foldedBefore[q], today)
    BY DEF Counting, FoldsInTime
  <2>3. ASSUME Old(usageClients', today) PROVE \E q \in Recorder : WillFold(q)'
    <3>1. Old(usageClients, today)
      BY <1>1, <2>3 DEF Old
    <3>2. PICK q \in Recorder : WillFold(q)
      BY <3>1 DEF Counting, FoldsInTime
    <3>3. v.before # today
      BY <1>1, <1>2, <1>4, <2>3 DEF Old
    <3>4. WillFold(q)'
      BY <1>1, <1>3, <3>2, <3>3 DEF WillFold
    <3> QED
      BY <3>4
  <2> QED
    BY <1>3, <2>2, <2>3
<1> QED
  BY <1>8, <1>9, <1>10, <1>11, <1>12 DEF Counting

LEMMA WriteFailsStep == ASSUME Counting, NEW p \in Recorder, WriteFails(p) PROVE Counting'
<1> DEFINE v == writing[p][1]
<1>1. /\ writing[p] # <<>> /\ WriteEnds(p) /\ failures < MaxFailures /\ failures' = failures + 1
      /\ dropped' = [d \in Day |-> dropped[d] + Uncounted(v)[d]]
      /\ UNCHANGED <<today, counts, clients, remembered, rememberedDay, foldedBefore, usageClients, usageDaily, requests, seen,
                     reopened>>
  BY DEF WriteFails, Failure, Plus
<1>2. v \in Write /\ CountingShape
  BY <1>1, WriteIs
<1>3. /\ writing' \in [Recorder -> Seq(Write)]
      /\ \A q \in Recorder : q # p => writing'[q] = writing[q]
      /\ \A d \in Day : InWrites(writing[p], d) = InWrites(writing'[p], d) + Uncounted(v)[d]
      /\ \A q \in Recorder : \A i \in DOMAIN writing'[q] : writing'[q][i].clients \subseteq seen
  BY <1>1, WriteLeaves
<1> HIDE DEF v
<1>4. failures' \in 0..MaxFailures /\ failures' # 0
  BY <1>1, <1>2, CountingConstants DEF CountingShape
<1>5. dropped' \in [Day -> Nat] /\ \A d \in Day : dropped'[d] = dropped[d] + Uncounted(v)[d] /\ Uncounted(v)[d] \in Nat
  <2>1. \A d \in Day : dropped[d] \in Nat /\ Uncounted(v)[d] \in Nat
    BY <1>2, UncountedIs DEF CountingShape
  <2>2. \A d \in Day : dropped[d] + Uncounted(v)[d] \in Nat
    BY <2>1
  <2> QED
    BY <1>1, <2>1, <2>2
<1>6. CountingShape'
  BY <1>1, <1>2, <1>3, <1>4, <1>5, SumStays DEF CountingShape
<1>7. AllCounted'
  <2>1. ASSUME NEW d \in Day
        PROVE  requests'[d] + usageDaily[d].requests + dropped[d] + HeldAt(p, d)
                 = requests[d] + usageDaily'[d].requests + dropped'[d] + HeldAt(p, d)'
    <3>1. PICK k, n, r, a, x \in Nat : k = counts[p][d] /\ n = Uncounted(v)[d] /\ r = requests[d]
                                     /\ a = usageDaily[d].requests /\ x = dropped[d]
      BY <1>2, <1>5, HeldIs DEF CountingShape
    <3>2. writing'[p] \in Seq(Write)
      BY <1>3
    <3>3. PICK m \in Nat : m = InWrites(writing'[p], d)
      BY <3>2, InWritesIs
    <3>4. HeldAt(p, d) = k + (m + n) /\ HeldAt(p, d)' = k + m /\ dropped'[d] = x + n
      BY <1>1, <1>3, <1>5, <3>1, <3>3 DEF HeldAt
    <3>5. r + a + x + (k + (m + n)) = r + a + (x + n) + (k + m)
      <4>1. k \in Int /\ n \in Int /\ r \in Int /\ a \in Int /\ x \in Int /\ m \in Int
        OBVIOUS
      <4> QED
        BY <4>1
    <3> QED
      BY <1>1, <3>1, <3>4, <3>5
  <2> QED
    BY <1>1, <1>2, <1>3, <1>6, <2>1, OneCounts DEF Counting
<1>8. SeenBefore'
  BY <1>1, <1>3 DEF Counting, SeenBefore
<1>9. CountedApart'
  BY <1>1, <1>6, NoClientMoves
<1>10. FoldsInTime'
  BY <1>1, <1>4 DEF Counting, FoldsInTime
<1> QED
  BY <1>6, <1>7, <1>8, <1>9, <1>10 DEF Counting

\* A process in the place of one that stopped.
LEMMA ReplacedIs ==
    ASSUME Counting, NEW p \in Recorder, Replaced(p), dropped' \in [Day -> Nat],
           \A d \in Day : dropped'[d] = dropped[d] + HeldAt(p, d), failures' \in 0..MaxFailures
    PROVE  CountingShape' /\ AllCounted' /\ SeenBefore' /\ CountedApart'
<1>1. /\ counts' = [counts EXCEPT ![p] = NoCount] /\ clients' = [clients EXCEPT ![p] = {}]
      /\ remembered' = [remembered EXCEPT ![p] = {}] /\ rememberedDay' = [rememberedDay EXCEPT ![p] = -1]
      /\ foldedBefore' = [foldedBefore EXCEPT ![p] = -1] /\ writing' = [writing EXCEPT ![p] = <<>>]
      /\ UNCHANGED <<today, usageClients, usageDaily, requests, seen, reopened>>
  BY DEF Replaced
<1>2. CountingShape
  BY DEF Counting
<1>3. /\ writing' \in [Recorder -> Seq(Write)] /\ writing'[p] = <<>> /\ \A q \in Recorder : q # p => writing'[q] = writing[q]
  <2>1. <<>> \in Seq(Write)
    OBVIOUS
  <2> QED
    BY <1>1, <1>2, <2>1, LineIs
<1>4. /\ counts' \in [Recorder -> [Day -> Nat]] /\ counts'[p] = NoCount
      /\ \A q \in Recorder : q # p => counts'[q] = counts[q]
  <2>1. NoCount \in [Day -> Nat]
    BY DEF NoCount
  <2> QED
    BY <1>1, <1>2, <2>1 DEF CountingShape
<1>5. /\ clients' \in [Recorder -> SUBSET Keys] /\ remembered' \in [Recorder -> SUBSET Keys]
      /\ rememberedDay' \in [Recorder -> Day \union {-1}] /\ foldedBefore' \in [Recorder -> Day \union {-1}]
      /\ \A q \in Recorder : clients'[q] \in {clients[q], {}}
  BY <1>1, <1>2 DEF CountingShape
<1>6. \A q \in Recorder : Cardinality(remembered'[q]) <= MaxRemembered
  <2>1. \A q \in Recorder : Cardinality(remembered[q]) <= MaxRemembered /\ remembered'[q] \in {remembered[q], {}}
    BY <1>1, <1>2 DEF CountingShape
  <2>2. Cardinality({}) = 0 /\ 0 <= MaxRemembered
    BY CountingConstants, FS_EmptySet
  <2> QED
    BY <2>1, <2>2
<1>7. CountingShape'
  BY <1>1, <1>2, <1>3, <1>4, <1>5, <1>6, SumStays DEF CountingShape
<1>8. AllCounted'
  <2>1. ASSUME NEW d \in Day
        PROVE  requests'[d] + usageDaily[d].requests + dropped[d] + HeldAt(p, d)
                 = requests[d] + usageDaily'[d].requests + dropped'[d] + HeldAt(p, d)'
    <3>1. PICK h, r, a, x \in Nat : h = HeldAt(p, d) /\ r = requests[d] /\ a = usageDaily[d].requests /\ x = dropped[d]
      BY <1>2, HeldIs DEF CountingShape
    <3>2. HeldAt(p, d)' = 0 + InWrites(<<>>, d)
      BY <1>3, <1>4 DEF HeldAt, NoCount
    <3>3. HeldAt(p, d)' = 0
      BY <3>2, NoWrites
    <3>4. r + a + x + h = r + a + (x + h) + 0
      <4>1. h \in Int /\ r \in Int /\ a \in Int /\ x \in Int
        OBVIOUS
      <4> QED
        BY <4>1
    <3> QED
      BY <1>1, <3>1, <3>3, <3>4
  <2> QED
    BY <1>2, <1>3, <1>4, <1>7, <2>1, OneCounts DEF Counting
<1>9. SeenBefore'
  <2>1. \A q \in Recorder : \A i \in DOMAIN writing'[q] : writing'[q][i].clients \subseteq seen
    <3>1. DOMAIN <<>> = {}
      OBVIOUS
    <3> QED
      BY <1>3, <3>1 DEF Counting, SeenBefore
  <2>2. \A q \in Recorder : clients'[q] \subseteq seen
    BY <1>5 DEF Counting, SeenBefore
  <2> QED
    BY <1>1, <2>1, <2>2 DEF Counting, SeenBefore
<1>10. CountedApart'
  BY <1>1, <1>7, NoClientMoves
<1> QED
  BY <1>7, <1>8, <1>9, <1>10

LEMMA RecorderDiesStep == ASSUME Counting, NEW p \in Recorder, RecorderDies(p) PROVE Counting'
<1>1. /\ failures < MaxFailures /\ failures' = failures + 1 /\ Replaced(p)
      /\ dropped' = [d \in Day |-> dropped[d] + Unwritten(d)[p]]
  BY DEF RecorderDies, Failure
<1>2. CountingShape
  BY DEF Counting
<1>3. failures' \in 0..MaxFailures /\ failures' # 0
  BY <1>1, <1>2, CountingConstants DEF CountingShape
<1>4. dropped' \in [Day -> Nat] /\ \A d \in Day : dropped'[d] = dropped[d] + HeldAt(p, d)
  <2>1. \A d \in Day : dropped[d] \in Nat /\ Unwritten(d)[p] = HeldAt(p, d) /\ HeldAt(p, d) \in Nat
    BY <1>2, HeldIs DEF CountingShape
  <2>2. \A d \in Day : dropped[d] + HeldAt(p, d) \in Nat
    BY <2>1
  <2> QED
    BY <1>1, <2>1, <2>2
<1>5. CountingShape' /\ AllCounted' /\ SeenBefore' /\ CountedApart'
  BY <1>1, <1>3, <1>4, ReplacedIs
<1>6. FoldsInTime'
  <2>1. \A q \in Recorder : foldedBefore'[q] \in {foldedBefore[q], -1} /\ foldedBefore[q] <= today
    BY <1>1, <1>2 DEF Replaced, CountingShape, Counting, FoldsInTime
  <2>2. today' = today /\ today \in Nat
    BY <1>1, <1>2, CountingConstants DEF Replaced, CountingShape
  <2> QED
    BY <1>3, <2>1, <2>2 DEF FoldsInTime
<1> QED
  BY <1>5, <1>6 DEF Counting

LEMMA RecorderClosesStep == ASSUME Counting, NEW p \in Recorder, RecorderCloses(p) PROVE Counting'
<1>1. /\ counts[p] = NoCount /\ clients[p] = {} /\ writing[p] = <<>> /\ Replaced(p) /\ UNCHANGED <<dropped, failures>>
  BY DEF RecorderCloses
<1>2. CountingShape
  BY DEF Counting
<1>3. dropped' \in [Day -> Nat] /\ failures' \in 0..MaxFailures /\ \A d \in Day : dropped'[d] = dropped[d] + HeldAt(p, d)
  <2> SUFFICES ASSUME NEW d \in Day PROVE dropped[d] = dropped[d] + HeldAt(p, d)
    BY <1>1, <1>2 DEF CountingShape
  <2>1. HeldAt(p, d) = 0 + InWrites(<<>>, d)
    BY <1>1 DEF HeldAt, NoCount
  <2>2. HeldAt(p, d) = 0 /\ dropped[d] \in Nat
    BY <1>2, <2>1, NoWrites DEF CountingShape
  <2> QED
    BY <2>2
<1>4. CountingShape' /\ AllCounted' /\ SeenBefore' /\ CountedApart'
  BY <1>1, <1>3, ReplacedIs
<1>5. /\ UNCHANGED <<today, usageClients, failures>> /\ today \in Nat
      /\ foldedBefore'[p] = -1 /\ clients'[p] = {} /\ writing'[p] = <<>>
      /\ \A q \in Recorder : q # p => foldedBefore'[q] = foldedBefore[q] /\ clients'[q] = clients[q] /\ writing'[q] = writing[q]
  BY <1>1, <1>2, CountingConstants DEF Replaced, CountingShape
<1>6. FoldsInTime'
  <2>1. \A q \in Recorder : foldedBefore'[q] <= today
    BY <1>5 DEF Counting, FoldsInTime
  <2> SUFFICES ASSUME failures = 0
               PROVE  /\ \A q \in Recorder : /\ Old(clients'[q], today) => foldedBefore'[q] # today
                                            /\ FoldedBehind(writing'[q], foldedBefore'[q], today)
                      /\ Old(usageClients, today) => \E q \in Recorder : WillFold(q)'
    BY <1>5, <2>1 DEF FoldsInTime
  <2>2. \A q \in Recorder : /\ Old(clients[q], today) => foldedBefore[q] # today
                           /\ FoldedBehind(writing[q], foldedBefore[q], today)
    BY DEF Counting, FoldsInTime
  <2>3. FoldedBehind(<<>>, -1, today)
    BY DEF FoldedBehind
  <2>4. -1 # today
    BY <1>5
  <2>5. \A q \in Recorder : WillFold(q) => WillFold(q)'
    BY <1>5, <2>4 DEF WillFold
  <2>6. Old(usageClients, today) => \E q \in Recorder : WillFold(q)
    BY DEF Counting, FoldsInTime
  <2> QED
    BY <1>5, <2>2, <2>3, <2>4, <2>5, <2>6 DEF Old
<1> QED
  BY <1>4, <1>6 DEF Counting

LEMMA DayEndsStep == ASSUME Counting, DayEnds PROVE Counting'
<1>1. /\ today < LastDay /\ today' = today + 1
      /\ UNCHANGED <<counts, clients, remembered, rememberedDay, foldedBefore, writing, usageClients, usageDaily, requests,
                     seen, dropped, reopened, failures>>
  BY DEF DayEnds
<1>2. CountingShape
  BY DEF Counting
<1>3. today' \in Day /\ today \in Nat /\ today < today'
  BY <1>1, <1>2, CountingConstants DEF CountingShape, Day
<1>4. CountingShape'
  BY <1>1, <1>2, <1>3, SumStays DEF CountingShape
<1>5. AllCounted'
  <2>1. ASSUME NEW d \in Day PROVE Sum(Unwritten(d), Recorder)' = Sum(Unwritten(d), Recorder)
    <3>1. Unwritten(d)' = Unwritten(d)
      BY <1>1 DEF Unwritten
    <3> QED
      BY <3>1 DEF Sum, MapThenSumSet, MapThenFoldSet
  <2> QED
    BY <1>1, <2>1 DEF Counting, AllCounted
<1>6. SeenBefore'
  <2>1. \A k \in seen : k[1] <= today /\ k[1] \in Int
    BY <1>2, CountingConstants DEF Counting, SeenBefore, CountingShape, Keys
  <2>2. \A k \in seen : k[1] <= today'
    <3>1. PICK a, b \in Nat : a = today /\ b = today' /\ a < b
      BY <1>3, CountingConstants
    <3> SUFFICES ASSUME NEW k \in seen PROVE k[1] <= b
      BY <3>1
    <3>2. PICK i \in Int : i = k[1] /\ i <= a
      BY <2>1, <3>1
    <3> QED
      BY <3>1, <3>2
  <2> QED
    BY <1>1, <2>2 DEF Counting, SeenBefore
<1>7. CountedApart'
  BY <1>1, <1>4, NoClientMoves
<1>8. FoldsInTime'
  <2>1. \A q \in Recorder : foldedBefore[q] <= today' /\ foldedBefore[q] # today'
    <3>1. \A q \in Recorder : foldedBefore[q] <= today /\ foldedBefore[q] \in Int
      BY <1>2, CountingConstants DEF Counting, FoldsInTime, CountingShape
    <3>2. PICK a, b \in Nat : a = today /\ b = today' /\ a < b
      BY <1>3, CountingConstants
    <3> SUFFICES ASSUME NEW q \in Recorder PROVE foldedBefore[q] <= b /\ foldedBefore[q] # b
      BY <3>2
    <3>3. PICK i \in Int : i = foldedBefore[q] /\ i <= a
      BY <3>1, <3>2
    <3> QED
      BY <3>2, <3>3
  <2>2. Old(usageClients, today') => Recorder # {}
    BY DEF Old, Counting, SeenBefore
  <2> QED
    BY <1>1, <2>1, <2>2 DEF FoldsInTime, FoldedBehind, WillFold
<1> QED
  BY <1>4, <1>5, <1>6, <1>7, <1>8 DEF Counting

LEMMA CountingStays == ASSUME Counting, UNCHANGED counting PROVE Counting'
<1>1. /\ UNCHANGED <<today, counts, clients, remembered, rememberedDay, foldedBefore, writing, usageClients>>
      /\ UNCHANGED <<usageDaily, requests, seen, dropped, reopened, failures>>
  BY DEF counting
<1>2. CountingShape'
  BY <1>1, SumStays DEF Counting, CountingShape
<1>3. AllCounted'
  <2>1. ASSUME NEW d \in Day PROVE Sum(Unwritten(d), Recorder)' = Sum(Unwritten(d), Recorder)
    <3>1. Unwritten(d)' = Unwritten(d)
      BY <1>1 DEF Unwritten
    <3> QED
      BY <3>1 DEF Sum, MapThenSumSet, MapThenFoldSet
  <2> QED
    BY <1>1, <2>1 DEF Counting, AllCounted
<1>4. SeenBefore'
  BY <1>1 DEF Counting, SeenBefore
<1>5. CountedApart'
  BY <1>1, <1>2, NoClientMoves
<1>6. FoldsInTime'
  BY <1>1 DEF Counting, FoldsInTime, WillFold
<1> QED
  BY <1>2, <1>3, <1>4, <1>5, <1>6 DEF Counting

LEMMA CountingStep == ASSUME Counting, [UsageNext]_counting PROVE Counting'
<1>1. ASSUME NEW p \in Recorder,
             \/ CountsRequest(p) \/ Flush(p) \/ AddClients(p) \/ AddCounts(p) \/ Fold(p)
             \/ WriteFails(p) \/ RecorderDies(p) \/ RecorderCloses(p)
      PROVE  Counting'
  BY <1>1, CountsRequestStep, FlushStep, AddClientsStep, AddCountsStep, FoldStep, WriteFailsStep, RecorderDiesStep,
     RecorderClosesStep
<1>2. CASE DayEnds
  BY <1>2, DayEndsStep
<1>3. CASE UNCHANGED counting
  BY <1>3, CountingStays
<1> QED
  BY <1>1, <1>2, <1>3 DEF UsageNext

LEMMA CountingGivesRight == ASSUME Counting PROVE CountsAreRight
<1>1. CountingShape /\ AllCounted
  BY DEF Counting
<1>2. UsageTypeOK
  <2>1. /\ counts \in [Recorder -> [Day -> 0..MaxRequests]]
        /\ usageDaily \in [Day -> [requests: 0..MaxRequests, clients: Nat]]
        /\ requests \in [Day -> 0..MaxRequests] /\ dropped \in [Day -> 0..MaxRequests]
    BY <1>1, CountsAreBounded
  <2>2. ASSUME NEW p \in Recorder PROVE \A w \in DOMAIN writing[p] : writing[p][w] \in Write
    <3>1. writing[p] \in Seq(Write)
      BY <1>1 DEF CountingShape
    <3> QED
      BY <3>1
  <2> QED
    BY <1>1, <2>1, <2>2 DEF UsageTypeOK, CountingShape, Keys
<1>3. EveryRequestIsCountedOnce
  BY <1>1, SumOfIs DEF EveryRequestIsCountedOnce, AllCounted
<1>4. ClientsAreCountedOnce
  BY DEF Counting, CountedApart, On, ClientsAreCountedOnce
<1>5. NoHashOutlivesItsDay
  <2> SUFFICES ASSUME failures = 0, \A p \in Recorder : foldedBefore[p] = today /\ writing[p] = <<>>,
                      NEW row \in usageClients
               PROVE  row[1] = today
    BY DEF NoHashOutlivesItsDay
  <2>1. \A p \in Recorder : ~WillFold(p)
    BY DEF WillFold, FoldsFrom
  <2>2. ~(row[1] < today)
    BY <2>1 DEF Counting, FoldsInTime, Old
  <2>3. row[1] <= today /\ row[1] \in Day /\ today \in Day
    BY <1>1 DEF Counting, SeenBefore, CountingShape, Keys
  <2>4. PICK a, b \in Nat : a = row[1] /\ b = today
    BY <2>3, CountingConstants
  <2> QED
    BY <2>2, <2>3, <2>4
<1> QED
  BY <1>2, <1>3, <1>4, <1>5 DEF CountsAreRight

\* Every request is counted once, whatever fails: it is in a buffer, in a write, in the total or in a
\* report that was lost; no client of a day is counted twice, however many processes saw it and whoever
\* folds, unless one writes clients of a day that another has folded already;
\* and once every process has flushed on a later day with nothing lost, no row is left that can be
\* matched to an address (usage-recorder.ts flush and #foldClients, usage.ts addUsage and foldUsageClients).
THEOREM CountsRight == UsageInit /\ [][UsageNext]_counting => []CountsAreRight
<1>1. UsageInit => Counting
  BY UsageInitIs
<1>2. Counting /\ [UsageNext]_counting => Counting'
  BY CountingStep
<1>3. Counting => CountsAreRight
  BY CountingGivesRight
<1> QED
  BY <1>1, <1>2, <1>3, PTL

====================================================================================
