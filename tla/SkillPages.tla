------------------------------- MODULE SkillPages -------------------------------
(***************************************************************************)
(* A skill is read in pages: its rules, its body and the files it includes *)
(* are one run of text, which each page goes on in where its cursor says.  *)
(* A client reads page after page, while the index may be built anew, and  *)
(* puts the skill back together from what it got.                          *)
(***************************************************************************)
EXTENDS Naturals, SequencesExt, FiniteSetsExt

CONSTANTS
    Pack,        \* what a skill may be made of
    PageBytes,   \* SKILL_PAGE_BYTES
    Rooms,       \* what a page may hold, by who asks; 0 where it need not fit anything
    MaxBuilds    \* how often the index is built anew

\* A text is the bytes of its characters; a file that is not in the snapshot has none.
Unavailable == <<0>>

Text == Seq(1..4) \* bytes of a character: UTF-8 takes up to four

\* A manifest that has no text but its head is no rule: skill() leaves it out of the chain.
ASSUME PagesAssumption ==
    /\ \A p \in Pack : p.rules \in Seq(Text \ {<<>>}) /\ p.body \in Text /\ p.included \in Seq(Text \union {Unavailable})
    /\ PageBytes \in Nat \ {0} /\ Rooms \subseteq Nat /\ MaxBuilds \in Nat

VARIABLES
    room,     \* what the client's pages may hold
    index,    \* which index is served, and what the skill is in it
    from,     \* what the skill was when its first page was read
    read,     \* the pages the client has
    reading   \* "on", "whole", "incomplete", "refused" (of another index), "stuck"

skillPages == <<room, index, from, read, reading>>

-----------------------------------------------------------------------------
(* Reader.skill() *)

\* contextPage: as many characters as the budget has bytes for.
ContextPage(text, offset, budget) ==
    LET bytes[n \in 0..Len(text) - offset] == IF n = 0 THEN 0 ELSE bytes[n - 1] + text[offset + n]
        taken == CHOOSE n \in DOMAIN bytes :
                    /\ bytes[n] <= budget
                    /\ \A m \in DOMAIN bytes : bytes[m] <= budget => m <= n
    IN [content |-> [n \in 1..taken |-> offset + n], bytes |-> bytes[taken], more |-> offset + taken < Len(text)]

\* Variants of definitions, named with an underscore, are not part of the specification: each is the
\* definition with a slip that the property it is listed with in PROJECT.json must notice.
Left_GoesOn(so, part) == so.remaining - part.bytes

\* "A deferred character must precede every later section on the next page."
Left(so, part) == IF part.more THEN 0 ELSE so.remaining - part.bytes

\* page(): what one text gives to a page that has skipped and filled as much as the texts before it.
Fragment(so, text) ==
    LET total == so.total + Len(text)
        none(cut) == [content |-> <<>>, truncated |-> cut]
        part  == ContextPage(text, so.skip, so.remaining)
    IN IF so.skip >= Len(text)
       THEN [so EXCEPT !.skip = so.skip - Len(text), !.total = total, !.parts = Append(@, none(FALSE))]
       ELSE IF so.remaining = 0
       THEN [so EXCEPT !.skip = 0, !.total = total, !.parts = Append(@, none(TRUE))]
       ELSE [skip |-> 0,
             remaining |-> Left(so, part),
             consumed |-> so.consumed + Len(part.content),
             total |-> total,
             parts |-> Append(so.parts, [content |-> part.content, truncated |-> part.more])]

\* A page is cut from all texts; a file that is not there gives nothing to it.
Given(text) == IF text = Unavailable THEN <<>> ELSE text

Texts(pack) == pack.rules \o <<pack.body>> \o [n \in DOMAIN pack.included |-> Given(pack.included[n])]

Filled(texts, start, bytes) ==
    LET filled[k \in 0..Len(texts)] ==
            IF k = 0 THEN [skip |-> start, remaining |-> bytes, consumed |-> 0, total |-> 0, parts |-> <<>>]
            ELSE Fragment(filled[k - 1], texts[k])
    IN filled[Len(texts)]

\* The fragments of the rules. A rule that gives nothing to a page is left out of it.
RuleChain(parts) ==
    FlattenSeq([n \in DOMAIN parts |->
        IF parts[n].content = <<>> THEN <<>>
        ELSE <<[path |-> n, content |-> parts[n].content, truncated |-> parts[n].truncated]>>])

\* make(): a page of at most so many bytes. An included file is named on every page.
MakePage(pack, start, bytes) ==
    LET filled == Filled(Texts(pack), start, bytes)
        rules  == Len(pack.rules)
        available == \A n \in DOMAIN pack.included : pack.included[n] # Unavailable
        more  == available /\ start + filled.consumed < filled.total
    IN [rules    |-> RuleChain(SubSeq(filled.parts, 1, rules)),
        body     |-> filled.parts[rules + 1].content,
        included |-> [n \in DOMAIN pack.included |-> filled.parts[rules + 1 + n]],
        next     |-> start + filled.consumed,
        more     |-> more,
        complete |-> available /\ ~more]

\* What makes a page large: its text, and a line for each file it names.
Size(page) ==
    LET content(parts) == MapThenSumSet(LAMBDA n : 1 + Len(parts[n].content), DOMAIN parts)
    IN Len(page.body) + content(page.rules) + content(page.included)

Fits(page) == room = 0 \/ Size(page) <= room

\* boundedPage: the largest page that fits, found by halving; 0 where none does. No more halvings than
\* there are bytes leave one number.
Halved(pack, start, low, high) ==
    LET middle == (low + high + 1) \div 2
    IN IF low >= high THEN <<low, high>>
       ELSE IF Fits(MakePage(pack, start, middle)) THEN <<middle, high>>
       ELSE <<low, middle - 1>>

BoundedPage(pack, start) ==
    LET fits(n) == Fits(MakePage(pack, start, n))
        range[k \in 0..PageBytes] ==
            IF k = 0 THEN <<0, PageBytes - 1>> ELSE Halved(pack, start, range[k - 1][1], range[k - 1][2])
        found == range[PageBytes][1]
    IN IF fits(PageBytes) THEN PageBytes
       ELSE IF fits(found) THEN found ELSE 0

-----------------------------------------------------------------------------
(* Reading *)

SkillPagesInit ==
    /\ room \in Rooms
    /\ index \in [n : {1}, pack : Pack]
    /\ from = index.pack
    /\ read = <<>>
    /\ reading = "on"

\* A cursor carries the key of the index it is of; the first page needs none.
Cursor == IF read = <<>> THEN [n |-> index.n, at |-> 0] ELSE [n |-> Last(read).n, at |-> Last(read).page.next]

ReadPage ==
    /\ reading = "on"
    /\ Cursor.n = index.n
    /\ \E bytes \in {BoundedPage(index.pack, Cursor.at)} : \E page \in {MakePage(index.pack, Cursor.at, bytes)} :
          IF bytes = 0 \/ (page.more /\ page.next = Cursor.at)
          THEN reading' = "stuck" /\ UNCHANGED read
          ELSE /\ read' = Append(read, [n |-> index.n, page |-> page])
               /\ reading' = IF page.complete THEN "whole" ELSE IF page.more THEN "on" ELSE "incomplete"
    /\ from' = IF read = <<>> THEN index.pack ELSE from
    /\ UNCHANGED <<room, index>>

\* continuationOffset: "so that a page never continues what another index began".
Refuse ==
    /\ reading = "on"
    /\ Cursor.n # index.n
    /\ reading' = "refused"
    /\ UNCHANGED <<room, index, from, read>>

\* The client begins anew: "Start again without a cursor."
StartAgain ==
    /\ reading = "refused"
    /\ read' = <<>>
    /\ reading' = "on"
    /\ UNCHANGED <<room, index, from>>

\* A new commit, or the same one indexed by a newer build.
BuildIndex ==
    /\ index.n <= MaxBuilds
    /\ \E p \in Pack : index' = [n |-> index.n + 1, pack |-> p]
    /\ UNCHANGED <<room, from, read, reading>>

SkillPagesNext == ReadPage \/ Refuse \/ StartAgain \/ BuildIndex

SkillPagesSpec == SkillPagesInit /\ [][SkillPagesNext]_skillPages

-----------------------------------------------------------------------------
(* What the clients make of the pages *)

Pages == [i \in DOMAIN read |-> read[i].page]

All(text) == [n \in DOMAIN text |-> n]

\* The page of the web app adds what it got of every file (MountSkill).
OfRule(page, n) ==
    FlattenSeq([k \in DOMAIN page.rules |-> IF page.rules[k].path = n THEN page.rules[k].content ELSE <<>>])

AddedUp ==
    [rules    |-> [n \in DOMAIN from.rules |-> FlattenSeq([i \in DOMAIN Pages |-> OfRule(Pages[i], n)])],
     body     |-> FlattenSeq([i \in DOMAIN Pages |-> Pages[i].body]),
     included |-> [n \in DOMAIN from.included |->
                    FlattenSeq([i \in DOMAIN Pages |-> Pages[i].included[n].content])]]

\* joinFragments: a fragment goes on in the last one when that is of the same file and was cut off.
Join(joined, fragment) ==
    IF joined # <<>> /\ Last(joined).truncated /\ Last(joined).path = fragment.path
    THEN Append(Front(joined), [path |-> fragment.path, content |-> Last(joined).content \o fragment.content,
                                truncated |-> fragment.truncated])
    ELSE Append(joined, fragment)

JoinFragments(fragments) ==
    LET joined[k \in 0..Len(fragments)] == IF k = 0 THEN <<>> ELSE Join(joined[k - 1], fragments[k])
    IN joined[Len(fragments)]

JoinedRules == JoinFragments(FlattenSeq([i \in DOMAIN Pages |-> Pages[i].rules]))

\* The included files as joinSkillPages gives them to the command.
JoinedIncluded ==
    JoinFragments(FlattenSeq([i \in DOMAIN Pages |->
        [n \in DOMAIN Pages[i].included |->
            [path |-> n, content |-> Pages[i].included[n].content,
             truncated |-> Pages[i].included[n].truncated]]]))

Whole(texts) == [n \in DOMAIN texts |-> [path |-> n, content |-> All(texts[n]), truncated |-> FALSE]]

-----------------------------------------------------------------------------
(* Properties *)

\* docs/specs/tools.md: the pages of a skill are its rules, its body and its included files, every
\* character once and in order, of one index, wherever a page ends and whatever is built meanwhile.
PagesMakeTheSkill ==
    reading = "whole" =>
        /\ AddedUp = [rules    |-> [n \in DOMAIN from.rules |-> All(from.rules[n])],
                      body     |-> All(from.body),
                      included |-> [n \in DOMAIN from.included |-> All(from.included[n])]]
        /\ JoinedRules = Whole(from.rules)

\* pages.ts: "the pages of one skill ... as the whole skill: ... every fragment of the rules, the body
\* and the included files joined". It does not hold, and no run states it: every page names every
\* included file, so two of them over two pages become four.
JoinIsWhole == reading = "whole" => JoinedIncluded = Whole(from.included)
=============================================================================
