------------------------------- MODULE Parsing -------------------------------
(* The lines of a document's pages become cases                            *)
(* (src/ingestion/parse_common.py): where a case begins and ends, which    *)
(* part of it a line is, when a finished case is accepted and what is      *)
(* quarantined instead.  The pages are numbered from 1.                    *)
(*   page  [year, status, role, width, height, cards, found, segment,      *)
(*          review, heads, consumed, unclear, lines]                       *)
(*   line  [box, at, text, mark, n, names, end, size, font, hint, reviewed] *)
(* A box is <<x0, y0, x1, y1>> in points, a size is in half points, at is  *)
(* <<block, line, span>>.  mark is the pattern a text matches, n the       *)
(* number it begins with or 0, names the role a heading names, end its     *)
(* last character when it ends a sentence, reviewed the role a reviewer    *)
(* gave it.  What the scan of the headings finds is part of a page: heads  *)
(* maps a level to its text or to NoText, consumed are the lines it used,  *)
(* unclear the levels it could not tell.  The pages of a document are of   *)
(* one size, and its layout regions are cards with a border.               *)
EXTENDS Integers, Sequences, SequencesExt, TLC

NoCase == [none |-> TRUE]
None == "none"
NoText == 0
Levels == {"domain", "part", "subtopic"}
FragmentRoles == {"title", "question", "answer", "basis", "facts", "target", "situation"}

-----------------------------------------------------------------------------
(* Geometry; shares are in thousandths.                                    *)

Between(value, whole, low, high) == low * whole <= 1000 * value /\ 1000 * value <= high * whole

Overlap(a, b) ==
    /\ a[1] < b[3] /\ b[1] < a[3]
    /\ a[2] < b[4] /\ b[2] < a[4]

Encloses(a, b) == a[1] <= b[1] /\ a[2] <= b[2] /\ a[3] >= b[3] /\ a[4] >= b[4]

Smaller(a, b) == IF a < b THEN a ELSE b
Larger(a, b) == IF a < b THEN b ELSE a

SameVisualRow(a, b) ==
    LET shared == Smaller(a[4], b[4]) - Larger(a[2], b[2])
    IN  shared > 0 /\ 2 * shared >= Smaller(a[4] - a[2], b[4] - b[2])

SameNativeHeaderRow(page, a, b) ==
    SameVisualRow(a, b) \/ 1000 * (Larger(a[2], b[2]) - Smaller(a[2], b[2])) <= 15 * page.height

NativeQaNumberGeometry(page, line) ==
    LET b == line.box
    IN  IF page.year = 2020
        THEN /\ Between(b[1], page.width, 100, 180) /\ Between(b[3] - b[1], page.width, 15, 40)
             /\ Between(b[4] - b[2], page.height, 15, 40) /\ line.size \in 28 .. 40
        ELSE /\ Between(b[1], page.width, 110, 180) /\ Between(b[3] - b[1], page.width, 10, 45)
             /\ Between(b[4] - b[2], page.height, 12, 40) /\ line.size \in 29 .. 35

Is2023CaseNumberGeometry(page, line) ==
    LET b == line.box
    IN  /\ page.year = 2023 /\ line.mark = "number"
        /\ \/ /\ Between(b[1], page.width, 140, 190) /\ Between(b[2], page.height, 140, 220)
              /\ Between(b[4] - b[2], page.height, 12, 25)
           \/ /\ Between(b[1], page.width, 0, 250) /\ Between(b[2], page.height, 100, 850)
              /\ Between(b[4] - b[2], page.height, 30, 80)

CardsOfNumber(page, line) ==
    {c \in page.cards : /\ Encloses(c, line.box) /\ 5 * (line.box[1] - c[1]) <= c[3] - c[1]
                        /\ 10 * (line.box[2] - c[2]) <= 3 * (c[4] - c[2])}

IsRightNavigation(page, line) ==
    \/ /\ page.year \in {2024, 2025}
       /\ \/ Between(line.box[1], page.width, 900, 1000) /\ line.mark \notin Levels
          \/ Between(line.box[2], page.height, 920, 1000) /\ line.mark = "number"
    \/ /\ page.year = 2020 /\ line.mark = "tab" /\ line.size <= 17
       /\ Between(line.box[1], page.width, 900, 1000)

WhereItStands(page, line) == line.box[2]

(* A number is read a little before what stands beside it.                 *)
Top(page, line) ==
    IF line.mark = "number" /\ page.year <= 2022 /\ line.size >= 28 /\ NativeQaNumberGeometry(page, line)
    THEN line.box[2] - (2 * page.height) \div 100
    ELSE IF Is2023CaseNumberGeometry(page, line) THEN line.box[2] - (4 * page.height) \div 100
    ELSE IF line.mark = "number" /\ page.year \in {2024, 2025} /\ CardsOfNumber(page, line) # {}
    THEN (CHOOSE c \in CardsOfNumber(page, line) : TRUE)[2] - 1
    ELSE line.box[2]

Key(line, top) == <<top, line.box[1], line.box[4], line.box[3]>> \o line.at \o <<line.text>>

Precedes(s, t) == \E i \in DOMAIN s : s[i] < t[i] /\ \A j \in 1 .. i - 1 : s[j] = t[j]

InCardOrder(page, lines) ==
    SortSeq(lines, LAMBDA a, b : Precedes(Key(a, Top(page, a)), Key(b, Top(page, b))))

-----------------------------------------------------------------------------
(* Where a case begins.                                                    *)

CaseNumberAt(page, body, k) ==
    LET line == body[k]
        b    == line.box
    IN  \/ line.reviewed = "case_no" \/ line.mark = "label"
        \/ /\ line.mark = "number" /\ page.year = 2023 /\ Is2023CaseNumberGeometry(page, line)
           /\ \E c \in ToSet(SubSeq(body, k + 1, Smaller(k + 3, Len(body)))) :
                /\ c.box[1] > b[3] /\ c.mark # "role"
                /\ 100 * (Larger(c.box[2], b[2]) - Smaller(c.box[2], b[2])) <= 4 * page.height
        \/ /\ line.mark = "number" /\ page.year \in {2024, 2025} /\ page.found
           /\ CardsOfNumber(page, line) # {}
        \/ /\ line.mark = "number" /\ page.year <= 2022 /\ line.size >= 28 /\ NativeQaNumberGeometry(page, line)
           /\ \E c \in ToSet(body) :
                /\ c.mark # "number" /\ c.box[1] > b[3] /\ c.size <= 24
                /\ IF page.year = 2020 THEN c.size >= 18 /\ SameVisualRow(b, c.box)
                   ELSE /\ c.size >= 20 /\ SameNativeHeaderRow(page, b, c.box)
                        /\ Between(c.box[1] - b[3], page.width, 0, 80)

NativeAuditTitleAt(page, line) ==
    /\ page.year <= 2022 /\ line.mark = "item"
    /\ Between(line.box[1], page.width, 90, 120) /\ Between(line.box[3] - line.box[1], page.width, 40, 800)
    /\ Between(line.box[4] - line.box[2], page.height, 10, 40)
    /\ line.size \in IF page.year = 2020 THEN 24 .. 28 ELSE 26 .. 30

-----------------------------------------------------------------------------
(* Which part of the open case a line is: [role, n, more], where more says *)
(* that it goes on with what is there already, or NoRole.                  *)

NoRole == [role |-> None, n |-> 0, more |-> FALSE]
Role(role, n) == [role |-> role, n |-> n, more |-> FALSE]

Fragments(open, roles) == SelectSeq(open.fragments, LAMBDA f : f.role \in roles)
Has(open, roles) == Fragments(open, roles) # <<>>

(* A title stands in the row of the number and in its block; further spans *)
(* of its line belong to it.                                               *)
StrictHeader(page, i, line, open) ==
    LET marker == open.lines[1]
        b      == marker.line.box
        titles == Fragments(open, {"title"})
        last   == Last(titles).line
    IN  /\ open.year <= 2022 /\ i = marker.page
        /\ line.at[1] = marker.line.at[1] /\ line.at[2] # marker.line.at[2]
        /\ line.box[1] > b[3] /\ SameNativeHeaderRow(page, b, line.box)
        /\ line.size \in 18 .. 24 /\ line.mark # "number"
        /\ \/ titles = <<>>
           \/ /\ line.at[1] = last.at[1] /\ line.at[2] = last.at[2] /\ line.at[3] > last.at[3]
              /\ Between(line.box[1] - last.box[3], page.width, 0, 2) /\ SameVisualRow(last.box, line.box)

(* On a scanned card what is right of the number is its title, then its    *)
(* question, until a role is named.                                        *)
CardRole(line, open) ==
    LET b      == open.lines[1].line.box
        titles == Fragments(open, {"title"})
    IN  IF open.year < 2023 \/ Has(open, {"basis", "answer", "facts", "target", "situation"})
             \/ line.box[1] <= b[3] THEN NoRole
        ELSE IF titles = <<>> THEN IF line.box[2] <= b[4] + 12 THEN Role("title", 0) ELSE NoRole
        ELSE IF SameVisualRow(Last(titles).line.box, line.box) THEN Role("title", 0)
        ELSE Role("question", 0)

LastAnswer(answers) == IF answers = <<>> THEN 0 ELSE Last(answers).n

Indented(page, line) == Between(line.box[1], page.width, 190, 1000)
Flush(page, line) == Between(line.box[1], page.width, 0, 170)
Folded(open) == open.year \in {2021, 2022}

QuestionRole(page, line, open) ==
    IF Folded(open) /\ open.implicit = "answer" /\ Flush(page, line)
    THEN [role |-> "answer", more |-> TRUE,
          n |-> LastAnswer(SelectSeq(open.fragments, LAMBDA f : f.role = "answer" /\ f.n # 0))]
    ELSE IF Folded(open) /\ ~Indented(page, line) THEN NoRole
    ELSE Role("question", line.n)

ItemRole(page, line, open) ==
    IF (open.year = 2022 /\ open.implicit = "answer") \/ Flush(page, line) THEN Role("answer", line.n)
    ELSE IF Indented(page, line) THEN Role("question", line.n) ELSE NoRole

(* The first line at the left edge answers a question or a title.          *)
PlainAnswer(page, line, open) ==
    /\ Folded(open) /\ open.implicit \notin {"basis", "facts", "situation", "target"}
    /\ line.mark \notin {"lone", "bullet", "basis", "target", "situation", "facts"} /\ line.end # "?"
    /\ Flush(page, line) /\ line.size \in 18 .. 26 /\ ~Has(open, {"answer"})
    /\ Has(open, {"question"}) \/ (Has(open, {"title"}) /\ ~open.blocked)

Below(i, line, f) == i > f.page \/ (i = f.page /\ line.box[2] > f.line.box[4])

PlainRole(page, i, line, open) ==
    IF line.mark = "bullet" THEN Role("answer", 0)
    ELSE IF line.mark \in {"basis", "target", "situation", "facts"} THEN Role(line.mark, 0)
    ELSE IF line.end = "?" /\ ~Has(open, {"question"}) THEN Role("question", 0)
    ELSE IF /\ Folded(open) /\ ~Has(open, {"question", "answer"}) /\ Indented(page, line)
            /\ line.size \in 18 .. 26 /\ Has(open, {"title"})
            /\ Below(i, line, Last(Fragments(open, {"title"})))
    THEN Role("question", 0)
    ELSE IF /\ open.year <= 2022 /\ ~Has(open, {"title"}) /\ line.size >= 20
            /\ line.box[1] > open.lines[1].line.box[3]
            /\ SameNativeHeaderRow(page, open.lines[1].line.box, line.box)
            /\ open.year = 2020 \/ line.box[2] <= open.lines[1].line.box[2]
    THEN Role("title", 0) ELSE NoRole

LineRole(page, i, line, open) ==
    IF StrictHeader(page, i, line, open) \/ line.mark = "title"
         \/ (line.font = "title" /\ ~Has(open, {"title"})) THEN Role("title", 0)
    ELSE IF CardRole(line, open) # NoRole THEN CardRole(line, open)
    ELSE IF line.mark = "more"
    THEN [role |-> "answer", more |-> TRUE,
          n |-> LastAnswer(SelectSeq(open.fragments, LAMBDA f : f.role = "answer" /\ ~f.more))]
    ELSE IF line.mark = "question" THEN QuestionRole(page, line, open)
    ELSE IF line.hint = "question" THEN Role("question", 0)
    ELSE IF line.mark = "answer" THEN Role("answer", line.n)
    ELSE IF Folded(open) /\ line.mark = "item" THEN ItemRole(page, line, open)
    ELSE IF PlainAnswer(page, line, open) THEN Role("answer", 0)
    ELSE PlainRole(page, i, line, open)

-----------------------------------------------------------------------------
(* When a finished case is accepted.  An open case holds its lines and its *)
(* fragments; both say on which page a line stands.                        *)

At(i, line) == [page |-> i, line |-> line]
Quarantine(located) == [quarantined |-> ToSet(located)]

(* Numbered answers answer the questions of the same numbers, which stand  *)
(* above them; or all of them answer the one question.                     *)
OrdinalPairsAreValid(fragments) ==
    LET numbered(role) == SelectSeq([k \in DOMAIN fragments |-> k], LAMBDA k :
                            fragments[k].role = role /\ ~fragments[k].more /\ fragments[k].n # 0)
        ns(places)     == [k \in DOMAIN places |-> fragments[places[k]].n]
        paired(questions, answers) ==
          IF questions = <<>>
          THEN answers = <<>> \/
               /\ Len(SelectSeq(fragments, LAMBDA f : f.role = "question" /\ ~f.more /\ f.n = 0)) = 1
               /\ ns(answers) = [k \in DOMAIN answers |-> k]
          ELSE /\ ns(questions) = ns(answers) /\ IsInjective(ns(questions))
               /\ \A k \in DOMAIN answers : questions[k] < answers[k]
    IN  paired(numbered("question"), numbered("answer"))

(* Of 2022: first the questions, indented, then the answers, of which the  *)
(* first stands at the left edge; what is labelled may stand anywhere.     *)
RolePhasesAreValid(pages, fragments) ==
    LET spoken   == SelectSeq(fragments, LAMBDA f : f.role \in {"question", "answer"})
        explicit == SelectSeq(spoken, LAMBDA f : ~f.more /\ (f.line.mark = f.role \/ f.line.hint = f.role))
        first    == Len(SelectSeq(spoken, LAMBDA f : f.role = "question")) + 1
    IN  /\ first \in 2 .. Len(spoken)
        /\ \A k \in DOMAIN spoken : spoken[k].role = IF k < first THEN "question" ELSE "answer"
        /\ \A k \in DOMAIN spoken : spoken[k].more \/ spoken[k] \in ToSet(explicit)
             \/ IF k < first THEN Indented(pages[spoken[k].page], spoken[k].line)
                ELSE k = first => Flush(pages[spoken[k].page], spoken[k].line)
        /\ OrdinalPairsAreValid(SelectSeq(explicit, LAMBDA f : f.n # 0))

ByPlace(f, g) ==
    Precedes(<<f.page, f.line.box[1], f.line.box[2], f.line.text>>,
             <<g.page, g.line.box[1], g.line.box[2], g.line.text>>)

TitlesAgree(open, titles) ==
    /\ titles # <<>>
    /\ Len(titles) > 1 =>
         /\ \A k \in DOMAIN titles : SameVisualRow(Fragments(open, {"title"})[1].line.box, titles[k].line.box)
         /\ open.year # 2020
         /\ Folded(open) => \A k \in 2 .. Len(titles) :
              /\ SubSeq(titles[k].line.at, 1, 2) = SubSeq(titles[1].line.at, 1, 2)
              /\ titles[k].line.box[1] - titles[k - 1].line.box[3] \in 0 .. 1

Titles(open) ==
    IF Folded(open) THEN SortSeq(Fragments(open, {"title"}), ByPlace) ELSE Fragments(open, {"title"})

(* A title that ends in its answer is its own question.                    *)
WithQuestion(open, titles) ==
    LET rest  == SelectSeq(open.fragments, LAMBDA f : f.role # "title")
        asked == IF /\ open.type = "qa" /\ ~Has(open, {"question"})
                    /\ open.year = 2020 \/ (open.year = 2021 /\ open.fallback)
                 THEN [k \in DOMAIN titles |-> [titles[k] EXCEPT !.role = "question"]] ELSE <<>>
    IN  IF ~Folded(open) THEN open.fragments \o asked
        ELSE IF Len(titles) > 1 THEN titles \o asked \o rest
        ELSE LET k == CHOOSE k \in DOMAIN open.fragments : open.fragments[k].role = "title"
             IN  SubSeq(open.fragments, 1, k) \o asked \o SubSeq(open.fragments, k + 1, Len(open.fragments))

OnCards(pages, open) ==
    open.year \in {2024, 2025} =>
      \A l \in ToSet(open.lines) : /\ pages[l.page].found /\ pages[l.page].cards # {}
                                   /\ pages[l.page].segment \in {pages[open.lines[1].page].segment} \ {None}

Required(open) == IF open.type = "audit" THEN {"facts", "answer"} ELSE {"question", "answer"}

IsComplete(pages, open, fragments) ==
    /\ \A role \in Required(open) : \E f \in ToSet(fragments) : f.role = role
    /\ open.type = "audit" \/ IF open.year = 2022 THEN RolePhasesAreValid(pages, fragments)
                              ELSE OrdinalPairsAreValid(fragments)

Candidate(pages, open, fragments) ==
    [no |-> open.no, type |-> open.type, hierarchy |-> open.hierarchy, number |-> open.lines[1],
     lines |-> ToSet(open.lines),
     fields |-> [r \in FragmentRoles |->
                   LET of == SelectSeq(fragments, LAMBDA f : f.role = r) IN [k \in DOMAIN of |-> of[k].line]],
     review |-> IF open.year \in {2023, 2024} \/ \E l \in ToSet(open.lines) : pages[l.page].review = "needs_review"
                THEN "needs_review" ELSE "machine_extracted"]

Accepted(pages, open, titles) ==
    IF ~open.forced /\ open.hierarchy.domain # NoText /\ open.hierarchy.part # NoText /\ OnCards(pages, open)
         /\ TitlesAgree(open, titles) /\ IsComplete(pages, open, WithQuestion(open, titles))
    THEN Candidate(pages, open, WithQuestion(open, titles))
    ELSE Quarantine(open.lines)

Finalize(pages, open) == Accepted(pages, open, Titles(open))

-----------------------------------------------------------------------------
(* One line of a page.  A state is what the loop holds: the hierarchy, the *)
(* kind of cases that follow, the open case, the lines of 2022 that no     *)
(* case has claimed yet, and what has come out.                            *)

Start == [hierarchy |-> [l \in Levels |-> NoText], mode |-> "qa", open |-> NoCase, pending |-> <<>>,
          out |-> <<>>, discarded |-> FALSE]

Put(st, result) == [st EXCEPT !.out = Append(@, result)]

CloseOpen(st, pages) ==
    IF st.open = NoCase THEN st ELSE [Put(st, Finalize(pages, st.open)) EXCEPT !.open = NoCase]

QuarantinePending(st) ==
    IF st.pending = <<>> THEN st ELSE [Put(st, Quarantine(st.pending)) EXCEPT !.pending = <<>>]

OpenedLines(st) == IF st.open = NoCase THEN <<>> ELSE st.open.lines

NewCase(st, year, no, type, lines, fragments, forced) ==
    [year |-> year, no |-> no, type |-> type, hierarchy |-> st.hierarchy, lines |-> lines, fragments |-> fragments,
     implicit |-> None, forced |-> forced, blocked |-> FALSE, fallback |-> FALSE]

Fragment(i, line, r) == [role |-> r.role, n |-> r.n, more |-> r.more, page |-> i, line |-> line]

OpenAuditRun(st, year, i, line) ==
    [st EXCEPT !.mode = "audit", !.open = NewCase(st, year, 0, "audit", <<At(i, line)>>, <<>>, TRUE)]

OpenAudit(st, year, i, line) ==
    [st EXCEPT !.pending = <<>>,
               !.open = NewCase(st, year, line.n, "audit", Append(st.pending, At(i, line)),
                                <<Fragment(i, line, Role("title", 0))>>, TRUE)]

(* Pending lines that no case claimed go to the case that begins.          *)
OpenCaseWithPending(st, year, i, line) ==
    [st EXCEPT !.pending = <<>>,
               !.open = NewCase(st, year, line.n, st.mode, <<At(i, line)>> \o st.pending, <<>>, FALSE)]

OpenCase(st, year, i, line) ==
    [st EXCEPT !.pending = <<>>, !.open = NewCase(st, year, line.n, st.mode, <<At(i, line)>>, <<>>, FALSE)]

AddLine(st, i, line) == [st EXCEPT !.open.lines = Append(@, At(i, line))]

ImplicitOnlyWhenMore(open, r) == IF r.more THEN open.implicit ELSE None

(* Of 2021 and 2022 a question or an answer goes on until another role.    *)
ImplicitAfter(open, r) ==
    IF Folded(open) /\ r.role \in {"question", "answer"} THEN r.role
    ELSE IF r.more THEN open.implicit ELSE None

TitleAnswered(page, line, open, r) ==
    /\ open.year = 2021 /\ r.role = "answer" /\ r.n = 0 /\ ~r.more /\ ~open.blocked
    /\ Has(open, {"title"}) /\ ~Has(open, {"question", "answer"}) /\ Flush(page, line)

AddFragment(st, page, i, line, r) ==
    [AddLine(st, i, line) EXCEPT !.open.fragments = Append(@, Fragment(i, line, r)),
                                 !.open.implicit = ImplicitAfter(st.open, r),
                                 !.open.fallback = @ \/ TitleAnswered(page, line, st.open, r)]

RoleOf(page, i, line, open, named) ==
    IF named = NoRole /\ open.implicit # None THEN [role |-> open.implicit, n |-> 0, more |-> TRUE] ELSE named

Named(page, i, line, open) ==
    IF line.reviewed \in FragmentRoles THEN Role(line.reviewed, 0) ELSE LineRole(page, i, line, open)

AddSpoken(st, page, i, line, r) ==
    IF r # NoRole THEN AddFragment(st, page, i, line, r)
    ELSE IF st.open.forced THEN AddLine(st, i, line)
    ELSE [st EXCEPT !.open.blocked = @ \/ (Has(st.open, {"title"}) /\ ~Has(st.open, {"question", "answer"}))]

(* A line inside a case.                                                   *)
InsideCase(st, page, i, line) ==
    IF line.mark = "audit-type" THEN [AddLine(st, i, line) EXCEPT !.open.type = "audit"]
    ELSE IF page.year = 2020 /\ line.mark = "dot" THEN [AddLine(st, i, line) EXCEPT !.open.implicit = "answer"]
    ELSE IF line.mark = "basis-heading" THEN [AddLine(st, i, line) EXCEPT !.open.implicit = "basis"]
    ELSE IF line.mark = "role" THEN [AddLine(st, i, line) EXCEPT !.open.implicit = line.names]
    ELSE AddSpoken(st, page, i, line, RoleOf(page, i, line, st.open, Named(page, i, line, st.open)))

Discard(st, i, rest) ==
    [Put(st, Quarantine(OpenedLines(st) \o [k \in DOMAIN rest |-> At(i, rest[k])]))
       EXCEPT !.open = NoCase, !.discarded = TRUE]

(* The number of a case that touches the open one.                         *)
Touches(st, i, line) ==
    \E l \in ToSet(OpenedLines(st)) : l.page = i /\ Overlap(l.line.box, line.box)

LineStep(st, pages, i, body, k) ==
    LET page == pages[i]
        line == body[k]
        year == page.year
    IN  IF st.discarded THEN st
        ELSE IF line.reviewed = "case_end"
        THEN IF st.open = NoCase THEN Put(st, Quarantine(<<At(i, line)>>)) ELSE CloseOpen(AddLine(st, i, line), pages)
        ELSE IF year <= 2022 /\ line.mark = "audit-run"
        THEN OpenAuditRun(QuarantinePending(CloseOpen(st, pages)), year, i, line)
        ELSE IF NativeAuditTitleAt(page, line) /\ (year \in {2020, 2022} \/ st.mode = "audit")
        THEN OpenAudit(CloseOpen(st, pages), year, i, line)
        ELSE IF CaseNumberAt(page, body, k)
        THEN IF Touches(st, i, line) THEN Discard(st, i, SubSeq(body, k, Len(body)))
             ELSE OpenCase(CloseOpen(st, pages), year, i, line)
        ELSE IF line.reviewed = "case_start" THEN Put(st, Quarantine(<<At(i, line)>>))
        ELSE IF st.open = NoCase
        THEN IF year = 2022 THEN [st EXCEPT !.pending = Append(@, At(i, line))] ELSE st
        ELSE InsideCase(st, page, i, line)

-----------------------------------------------------------------------------
(* One page.                                                               *)

Usable(page) == SelectSeq(page.lines, LAMBDA l : ~IsRightNavigation(page, l))

LevelOf(line) == IF line.reviewed \in Levels THEN line.reviewed ELSE line.mark

(* What a reviewer says of a line counts more than its text, and this more *)
(* than where it stands.                                                   *)
FoundHeads(page, usable) ==
    LET last(lines, level, Says(_)) == LET of == SelectSeq(lines, LAMBDA l : Says(l) = level)
                                       IN  IF of = <<>> THEN NoText ELSE Last(of).text
        said(level) == <<last(usable, level, LAMBDA l : l.reviewed), last(usable, level, LAMBDA l : l.mark),
                         page.heads[level]>>
        known(values) == IF values[1] # NoText THEN values[1] ELSE IF values[2] # NoText THEN values[2] ELSE values[3]
    IN  [level \in Levels |-> known(said(level))]

WithDomain(page, found) ==
    IF page.year = 2020 /\ found.domain = NoText THEN [found EXCEPT !.domain = found.part] ELSE found

Moved(hierarchy, found) == [l \in Levels |-> IF found[l] = NoText THEN hierarchy[l] ELSE found[l]]

EnterPartStayingOpen(st, pages, found) == st

(* A case does not go on in another part.                                  *)
EnterPart(st, pages, found) ==
    IF found.part \in {NoText, st.hierarchy.part} THEN st
    ELSE [QuarantinePending(CloseOpen(st, pages)) EXCEPT !.mode = "qa"]

RefuseLeavingOpen(st, i, lines) ==
    Put(QuarantinePending(st), Quarantine(OpenedLines(st) \o [k \in DOMAIN lines |-> At(i, lines[k])]))

(* All of a page whose lines cannot be told apart is quarantined, with the *)
(* case that reached it.                                                   *)
RefusePage(st, i, lines) ==
    [Put(QuarantinePending(st), Quarantine(OpenedLines(st) \o [k \in DOMAIN lines |-> At(i, lines[k])]))
       EXCEPT !.open = NoCase]

ForgetLevels(st, unclear) ==
    [st EXCEPT !.hierarchy = [l \in Levels |-> IF "domain" \in unclear \/ ("part" \in unclear /\ l # "domain")
                                               THEN NoText ELSE @[l]]]

Reviewed(usable) == {l.reviewed : l \in ToSet(usable)} \cap Levels

Conflict(usable) ==
    \E a, b \in ToSet(usable) : a.box = b.box /\ a.text # b.text

HasConfirmedCardClose(page, i, open) ==
    LET here == {l.line : l \in {l \in ToSet(open.lines) : l.page = i}}
        basis == {f.line : f \in {f \in ToSet(Fragments(open, {"basis"})) : f.page = i}}
    IN  page.found /\ here # {} /\ \E c \in page.cards : \A l \in here :
          Encloses(c, l.box) \/
          /\ l \in basis /\ c[4] <= l.box[2] /\ 10 * (l.box[2] - c[4]) <= page.height
          /\ c[1] <= l.box[1] /\ l.box[3] <= c[3]

CloseAtPageEnd(st, pages, i) ==
    IF /\ pages[i].year >= 2024 /\ st.open # NoCase /\ ~st.open.forced /\ st.open.fragments # <<>>
       /\ Last(st.open.fragments).line.end # None /\ HasConfirmedCardClose(pages[i], i, st.open)
    THEN CloseOpen(st, pages) ELSE st

Lines(st, pages, i, body) ==
    FoldLeft(LAMBDA s, k : LineStep(s, pages, i, body, k), st, [k \in DOMAIN body |-> k])

EndOfPage(st, pages, i) ==
    IF st.discarded THEN [st EXCEPT !.discarded = FALSE] ELSE CloseAtPageEnd(st, pages, i)

Body(page, usable) ==
    InCardOrder(page, SelectSeq(usable, LAMBDA l : LevelOf(l) \notin Levels /\ l.at \notin page.consumed))

BodyPage(st, pages, i, found, usable) ==
    EndOfPage(Lines([EnterPart(st, pages, found) EXCEPT !.hierarchy = Moved(@, found)], pages, i,
                    Body(pages[i], usable)), pages, i)

PageStep(st, pages, i, page, usable) ==
    IF page.status = "quarantined"
    THEN Put(QuarantinePending(IF st.open = NoCase THEN st
                               ELSE [Put(st, Quarantine(st.open.lines)) EXCEPT !.open = NoCase]),
             [upstream |-> i])
    ELSE IF page.role # "body" THEN QuarantinePending(CloseOpen(st, pages))
    ELSE IF page.unclear \ Reviewed(usable) # {}
    THEN ForgetLevels(RefusePage(st, i, usable), page.unclear \ Reviewed(usable))
    ELSE IF Conflict(usable) THEN RefusePage(st, i, usable)
    ELSE BodyPage(st, pages, i, WithDomain(page, FoundHeads(page, usable)), usable)

ParsePages(pages) ==
    LET read(st, i) == PageStep(st, pages, i, pages[i], Usable(pages[i]))
    IN  QuarantinePending(CloseOpen(FoldLeft(read, Start, [i \in DOMAIN pages |-> i]), pages)).out

-----------------------------------------------------------------------------
(* What the cases of a document are, said of its pages and of what came    *)
(* out, without the loop.                                                  *)

Taken(out, r) ==
    IF "upstream" \in DOMAIN out[r] THEN {} ELSE IF "no" \in DOMAIN out[r] THEN out[r].lines ELSE out[r].quarantined

Cases(out) == {r \in DOMAIN out : "no" \in DOMAIN out[r]}

(* A page whose lines were told apart.                                     *)
Refused(page, usable) ==
    page.status = "extracted" /\ page.role = "body" /\ (page.unclear \ Reviewed(usable) # {} \/ Conflict(usable))
Read(page) == page.status = "extracted" /\ page.role = "body" /\ ~Refused(page, Usable(page))

Says(page, level) == IF Read(page) THEN WithDomain(page, FoundHeads(page, Usable(page)))[level] ELSE NoText
Forgets(page, level) ==
    Refused(page, Usable(page)) /\ ({"domain", level} \cap page.unclear) \ Reviewed(Usable(page)) # {}

(* No line is in two cases, or in a case and in quarantine.                *)
NoLineTwice(out) == \A r, q \in DOMAIN out : r # q => Taken(out, r) \cap Taken(out, q) = {}

FirstPage(case) == case.number.page
LastPage(case) == CHOOSE i \in {l.page : l \in case.lines} : \A l \in case.lines : l.page <= i

(* A case does not reach over a page that was not read, nor into another   *)
(* part, and the part and the domain it names are the last ones said       *)
(* before it, none of which was put in doubt since.                        *)
StandsInItsPart(pages, case) ==
    /\ \A i \in FirstPage(case) .. LastPage(case) : Read(pages[i])
    /\ \A i \in FirstPage(case) + 1 .. LastPage(case) : Says(pages[i], "part") \in {NoText, case.hierarchy.part}
    /\ \A level \in {"domain", "part"} : \E i \in 1 .. FirstPage(case) :
         /\ Says(pages[i], level) = case.hierarchy[level]
         /\ \A j \in i + 1 .. FirstPage(case) : Says(pages[j], level) = NoText /\ ~Forgets(pages[j], level)

(* A case holds nothing that stands above its own number, and nothing that *)
(* stands beside or below the number of a case after it, or in its card.   *)
KeepsToItself(pages, case, i, number) ==
    LET lines == {l.line : l \in {l \in case.lines : l.page = i}}
    IN  IF case.number = At(i, number)
        THEN \A l \in lines : l.box[2] >= Top(pages[i], number)
        ELSE /\ FirstPage(case) < i \/ (FirstPage(case) = i /\ case.number.line.box[2] < number.box[2])
                 => \A l \in lines : l.box[2] <= number.box[2]
             /\ \A l \in lines : ~(SameVisualRow(l.box, number.box) /\ l.box[1] > number.box[3])
             /\ pages[i].year >= 2024 =>
                  \A l \in lines : \A c \in CardsOfNumber(pages[i], number) : ~Encloses(c, l.box)

NumbersOf(page, body) == {body[k] : k \in {k \in DOMAIN body : CaseNumberAt(page, body, k)}}

(* Of 2021 and 2022 what follows a question or an answer on its page is    *)
(* never left out.                                                         *)
Spoken(case) == ToSet(case.fields.question) \cup ToSet(case.fields.answer)

NothingLeftOut(pages, out, i, body) ==
    pages[i].year \in {2021, 2022} =>
      \A k \in 2 .. Len(body) :
        (\E r \in Cases(out) : At(i, body[k - 1]) \in Taken(out, r) /\ body[k - 1] \in Spoken(out[r]))
          => \E r \in DOMAIN out : At(i, body[k]) \in Taken(out, r)

CasesAreWhole(pages, out) ==
    /\ NoLineTwice(out)
    /\ \A r \in Cases(out) : StandsInItsPart(pages, out[r])
    /\ \A i \in DOMAIN pages : Read(pages[i]) =>
         /\ \A r \in Cases(out) : \A number \in NumbersOf(pages[i], Body(pages[i], Usable(pages[i]))) :
              KeepsToItself(pages, out[r], i, number)
         /\ NothingLeftOut(pages, out, i, Body(pages[i], Usable(pages[i])))
=============================================================================
