--------------------------- MODULE MCAlgorithms ---------------------------
(* The algorithms that keep no state, over bounded inputs: every initial   *)
(* state is an input, and every invariant speaks of the inputs of one      *)
(* algorithm.                                                              *)
EXTENDS TripAllowance, SearchEvidence, ApprovedRelations, SampledReview, Integers, Sequences, FiniteSets, TLC

R == INSTANCE RouteSelection WITH
       Modes <- <<"TRANSIT", "CAR">>,
       Chain <- [TRANSIT |-> <<"SEOUL", "KAKAO">>, CAR |-> <<"CAR">>]
A == INSTANCE ProviderAnswers WITH
       MaxAttempts <- 2, MaxBytes <- 2, MaxRoutes <- 2, MaxPoints <- 3
C == INSTANCE Chunking WITH
       Limits <- [r \in {"question", "answer", "basis", "facts", "table"} |->
                    IF r = "question" THEN [min |-> 2, max |-> 5] ELSE [min |-> 3, max |-> 6]],
       MaxSources <- 6
K == INSTANCE ReviewPackage
X == INSTANCE Extraction WITH
       Registry <- (2024 :> [doc |-> "d", sha |-> 1, body |-> <<1, 2>>])
                     @@ (2025 :> [doc |-> "e", sha |-> 1, body |-> <<1, 2>>])
G == INSTANCE Parsing

Ascending(S) == CHOOSE s \in [1 .. Cardinality(S) -> S] : \A i \in 2 .. Cardinality(S) : s[i - 1] < s[i]

UpTo(n, S) == UNION {[1 .. k -> S] : k \in 0 .. n}

-----------------------------------------------------------------------------
(* Three public and four Kakao routes with any edges between them.         *)
Matchings ==
    [alg : {"match"}, count : {4}, edges : [1 .. 3 -> {Ascending(S) : S \in SUBSET (1 .. 4)}]]

(* Metrics two and three percent apart, ends and strips that do and do not *)
(* meet, so that being duplicates is not transitive.                       *)
Route(id, mode, secs, line, cost, source) ==
    [id |-> id, mode |-> mode, secs |-> secs, metres |-> 500 + line, cost |-> cost,
     source |-> source, ends |-> 15 * line, line |-> line, supplemented |-> source = "SEOUL+KAKAO_GEOMETRY"]

TransitPool ==
    {Route(1, "TRANSIT", 100, 1, 9, "KAKAO"), Route(2, "TRANSIT", 102, 2, R!NoCost, "KAKAO"),
     Route(3, "TRANSIT", 100, 3, 7, "KAKAO"), Route(4, "TRANSIT", 104, 2, 9, "SEOUL+KAKAO_GEOMETRY"),
     Route(5, "TRANSIT", 99, 1, R!NoCost, "SEOUL+KAKAO_GEOMETRY"), Route(3, "TRANSIT", 103, 2, 4, "KAKAO")}

CarPool == {Route(11, "CAR", 100, 1, R!NoCost, "CAR"), Route(12, "CAR", 101, 2, 9, "CAR"),
            Route(13, "CAR", 104, 3, 5, "CAR")}

Collections ==
    [alg : {"combine"}, found : [TRANSIT : UpTo(3, TransitPool), CAR : UpTo(2, CarPool)]]

-----------------------------------------------------------------------------
Rule(from, orMore) ==
    [from |-> from, localBelow |-> 12, actualUpTo |-> 2, fourHours |-> 4, under |-> 10,
     orMore |-> orMore, deduction |-> 6]

Trips ==
    [alg : {"policy"}, out : {Policy!NoDistance, 1, 6}, back : {Policy!NoDistance, 1, 5, 6},
     trip : [coverage : Policy!Coverage, profile : Policy!Profiles, vehicle : Policy!Vehicles, day : {1, 5},
             minutes : {3, 4}, otherTrips : BOOLEAN, previous : {0, 12, 20, 25}]]

MCRules == {Rule(0, 20), Rule(5, 10)}

ASSUME TripsAreInputs == Trips \subseteq PolicyInputs

-----------------------------------------------------------------------------
Raw == [valid : BOOLEAN, points : {<<1, 1>>, <<1, 2>>, <<1, 2, 3, 4>>}]

Docs == {A!NoDocument, [status |-> "NO_RESULTS", routes |-> <<>>]}
          \cup [status : {"OK"}, routes : {<<>>, <<[valid |-> TRUE, points |-> <<1, 2>>]>>}
                                          \cup [1 .. 2 -> {r \in Raw : r.valid => Len(r.points) < 4}]]

Response(status, type, declared, n, cut, doc) ==
    [status |-> status, type |-> type, declared |-> declared, cut |-> cut, says |-> doc,
     chunks |-> [i \in 1 .. n |-> <<doc, i>>]]

Responses ==
    {Response(s, TRUE, -1, 0, FALSE, A!NoDocument) : s \in {"429", "5xx", "timeout", "error", "4xx"}}
      \cup {Response("200", TRUE, -1, n, c, d) : n \in {2, 3}, c \in BOOLEAN, d \in Docs}
      \cup {Response("200", t, d, 1, c, [status |-> "OK", routes |-> <<>>]) :
               t \in BOOLEAN, d \in {-1, 3}, c \in BOOLEAN}

Answers == [alg : {"answer"}, responses : [1 .. 2 -> Responses]]

-----------------------------------------------------------------------------
(* Two cases, three chunks; the lexical index may stem from another state  *)
(* of the cases than the store that is searched.                           *)
Id(n) == [kind |-> "case_id", id |-> n]
Law == [kind |-> "law", id |-> 1]

Kind(doc, status, pii, answer) ==
    [doc |-> doc, domain |-> "x", type |-> "qa", pii |-> pii, status |-> status,
     search |-> status # "needs_review" /\ pii = "none", answer |-> answer,
     source |-> "native", pages |-> <<1, 2>>, laws |-> {}]

CaseKinds ==
    {Kind(d, "approved", "none", TRUE) : d \in {"open", "staff"}}
      \cup {Kind("open", "search_approved", "none", FALSE), Kind("open", "needs_review", "none", FALSE),
            Kind("open", "approved", "restricted", FALSE)}

(* The chunks of a case may hold more spans or flags than a result may     *)
(* have, when both of them are found.                                      *)
Kept(a, b, relations, kind) ==
    LET cases == (Id(1) :> [a EXCEPT !.laws = {"l"}]) @@ (Id(2) :> b)
        chunk(n, role) == [case |-> Id(n), role |-> role, tokens |-> {},
                           spans |-> IF kind = "wide" /\ role = "answer" THEN {1, 2} ELSE {n},
                           flags |-> IF kind = "flagged" THEN <<"below-target-token-range">> ELSE <<>>,
                           pii |-> cases[Id(n)].pii, search |-> cases[Id(n)].search,
                           answer |-> cases[Id(n)].answer]
    IN  [release |-> "r", cases |-> cases, relations |-> relations,
         docs |-> [open |-> [level |-> "public", year |-> 2024, method |-> "native", pages |-> 2],
                   staff |-> [level |-> "staff", year |-> 2025, method |-> "native", pages |-> 2]],
         laws |-> [l |-> [case |-> Id(1), status |-> a.status, name |-> Law]],
         chunks |-> [k1 |-> chunk(1, "answer"), k2 |-> chunk(1, "question"), k3 |-> chunk(2, "answer")]]

Relations ==
    {{}} \cup {{[source |-> Id(2), target |-> Id(1), type |-> t, status |-> s]} :
                 t \in {"supersedes", "related"}, s \in {"approved", "needs_review"}}
      \cup {{[source |-> Id(2), target |-> Id(1), type |-> t, status |-> "approved"] :
                 t \in {"supersedes", "related"}}}

Stores ==
    {Kept(a, b, r, "plain") : a, b \in CaseKinds, r \in Relations}
      \cup {Kept(a, b, {}, kind) : a, b \in CaseKinds, kind \in {"wide", "flagged"}}

Queries ==
    [config : {1}, release : {"r"}, encoder : {"e"}, lexOrder : {<<"k1", "k2", "k3">>, <<"k3", "k2">>},
     denseOrder : {<<"k2", "k1">>, <<"k3", "k1">>}, exact : {{Law}}, limit : {1, 2},
     filters : [access : {"public", "staff"}, years : {{}, {2024}}, domains : {{}}, types : {{}}]]

Searches == [alg : {"search"}, store : Stores,
             old : {Kept(a, b, {}, "plain") : a, b \in CaseKinds}, query : Queries]

LexHit(k, n, terms) == [chunk |-> k, case |-> Id(n), terms |-> terms]

Fusions ==
    [alg : {"fuse"},
     lex : UpTo(3, {LexHit(1, 1, {}), LexHit(2, 1, {Law}), LexHit(3, 2, {}), LexHit(4, 2, {Law}),
                    LexHit(5, 3, {})}),
     dense : UpTo(3, {[chunk |-> k, case |-> Id((k + 1) \div 2)] : k \in 1 .. 5})]

-----------------------------------------------------------------------------
(* A case of one to three texts and up to two rows of a table, each text   *)
(* with a span of its own; lengths around the limits of a chunk.           *)
Piece(role, len, page, table) == [role |-> role, len |-> len, page |-> page, table |-> table]

Rows == {<<>>, <<Piece("table", 1, 1, "t1"), Piece("table", 2, 1, "t1")>>,
         <<Piece("table", 1, 1, "t1"), Piece("table", 1, 1, "t2")>>, <<Piece("table", 6, 1, "t1")>>}

Pieces ==
    {q \o a \o r : r \in Rows,
       q \in {<<Piece(role, n, p, "none")>> : role \in {"question", "facts"}, n \in {1, 6}, p \in {1, 2}},
       a \in {<<Piece("answer", n, 1, "none")>> : n \in 1 .. 9}
               \cup {<<Piece("answer", m, 1, "none"), Piece("answer", n, p, "none")>> :
                       m \in {1, 2, 7}, n \in {1, 3, 8}, p \in {1, 2}}
               \cup {[i \in 1 .. 3 |-> Piece("answer", n, p[i], "none")] : n \in {1, 2}, p \in [1 .. 3 -> {1, 2}]}}

SourceAt(pieces, i) ==
    LET text  == [k \in 1 .. pieces[i].len |-> 100 * i + k]
        table == pieces[i].table # "none"
    IN  [role |-> pieces[i].role, text |-> text, raw |-> text, span |-> i,
         header |-> IF table THEN <<91, 92>> ELSE <<>>, headerRaw |-> IF table THEN <<91, 92, 93>> ELSE <<>>,
         headerSpan |-> IF table THEN Len(pieces) + 1 ELSE 0, evidence |-> pieces[i].table]

ChunkInput(pieces, prefix, cut, turned) ==
    LET sources == [i \in DOMAIN pieces |-> SourceAt(pieces, i)]
        given   == IF turned THEN Tail(sources) \o <<Head(sources)>> ELSE sources
        rows    == {i \in DOMAIN pieces : pieces[i].role = "table"}
    IN  [alg |-> "chunk", cut |-> cut, sources |-> given, tables |-> [i \in rows |-> pieces[i].table],
         case |-> [id |-> "c", type |-> IF pieces[1].role = "facts" THEN "audit" ELSE "qa", search |-> TRUE,
                   status |-> "approved", answer |-> TRUE, pii |-> "none", prefix |-> prefix,
                   pages |-> [i \in DOMAIN pieces |-> pieces[i].page] \o <<1>>,
                   raw |-> [i \in DOMAIN pieces |-> sources[i].raw] \o <<<<91, 92, 93>>>>,
                   fields |-> [r \in C!TextRoles |-> C!Joined(C!TextsOf(C!OfRole(sources, r)))]]]

ChunkInputs ==
    {ChunkInput(p, prefix, cut, turned) : p \in Pieces, prefix \in {1, 3}, cut \in {0, 1}, turned \in BOOLEAN}

-----------------------------------------------------------------------------
(* Texts that print a law once, twice, with and without an article or a    *)
(* date; a normalised text may have lost a part of its raw text.           *)
Part(kind, value) == [kind |-> kind, value |-> value]

Printed ==
    {<<Part("word", 1)>>, <<Part("name", 1)>>, <<Part("name", 1), Part("article", 1)>>,
     <<Part("article", 2), Part("name", 1), Part("name", 2), Part("article", 1), Part("article", 2)>>,
     <<Part("name", 2), Part("date", 0)>>, <<Part("name", 1), Part("date", 7), Part("name", 1)>>}

CaseWith(id, basis, spans, note) ==
    [id |-> id, currency |-> "current", basis |-> basis, spans |-> spans, note |-> note]

Cited(spans, given) ==
    LET case == CaseWith(1, Related!FlattenSeq([i \in DOMAIN given |-> given[i].text]), spans, 1)
    IN  [alg |-> "cite", case |-> case, changed |-> {[case EXCEPT !.note = 2], [case EXCEPT !.spans = <<@[2], @[1]>>]},
         sources |-> [i \in DOMAIN given |-> [given[i] EXCEPT !.raw = spans[@]]]]

Citations ==
    {Cited(spans, given) : spans \in Printed \X Printed,
                           given \in UpTo(2, [text : Printed, raw : 1 .. 2, span : 1 .. 2])}

Relatable == {CaseWith(id, <<>>, <<>>, note) : id \in 1 .. 3, note \in 1 .. 2}
RelationTypes == {"related", "duplicate", "supersedes", "conflicts"}

Proposals == [alg : {"relate"}, a : Relatable, b : Relatable, changed : Relatable,
              type : RelationTypes, other : RelationTypes]

-----------------------------------------------------------------------------
(* Up to five candidates of two segments, a year reviewed in full and one  *)
(* without a segment; reviews come in any order and more than once.        *)
Native(id, year, segment, pii, status, quarantined) ==
    [id |-> id, content |-> id % 3, year |-> year, source |-> "native", pii |-> pii, status |-> status,
     quarantined |-> quarantined, doc |-> "d", sha |-> "h", pages |-> {},
     native |-> IF segment = 0 THEN Sampling!NoSegment ELSE [id |-> segment, bounds |-> <<1, 9>>]]

Scanned(id, pages, render, status) ==
    [id |-> id, content |-> 1, year |-> 2025, source |-> "ocr", pii |-> "none", status |-> status,
     quarantined |-> FALSE, doc |-> "o", sha |-> "h", native |-> Sampling!NoSegment,
     pages |-> {[layout |-> [kind |-> "ocr", id |-> 9], page |-> p, render |-> render] : p \in pages}]

One(id) == {Native(id, 2021, 1, "none", "needs_review", FALSE), Native(id, 2021, 2, "none", "needs_review", FALSE)}

AnyCase(id) ==
    One(id) \cup {Native(id, 2021, 1, "restricted", "needs_review", FALSE), Native(id, 2021, 1, "none", "needs_review", TRUE),
                  Native(id, 2023, 0, "none", "needs_review", FALSE), Native(id, 2025, 0, "none", "needs_review", FALSE),
                  Native(id, 2021, 2, "none", "rejected", FALSE), Scanned(id, {1, 2}, 1, "needs_review"),
                  Scanned(id, {2}, 2, "needs_review"), Scanned(id, {}, 1, "rejected")}

Calls ==
    {<<>>} \cup {[i \in 1 .. 6 |-> [id |-> ids[i], content |-> ids[i] % 3, outcome |-> IF i = bad THEN "error" ELSE "passed"]] :
                 ids \in {<<1, 2, 3, 4, 5, 1>>, <<4, 4, 2, 3, 1, 2>>}, bad \in {0, 2, 5}}

Samples ==
    [alg : {"sample"}, calls : Calls,
     candidates : {{a, b, c, d, Native(5, 2021, 1, "none", "needs_review", FALSE)} :
                     a \in One(1), b \in One(2), c \in AnyCase(3), d \in AnyCase(4)}]

MCScore(inventory, segment, r) == (3 * r.id + r.content) % 4

ASSUME SamplesAreInputs == \A i \in Samples : Candidates(i.candidates)

-----------------------------------------------------------------------------
(* A native document, one read by OCR, one of another year and one of a    *)
(* year that is not read by OCR; cases that share their number, and        *)
(* documents with nothing but quarantines.                                 *)
Doc(id, year, method) ==
    [id |-> id, year |-> year, method |-> method, sha |-> id, pages |-> 2,
     segments |-> IF year = 2021 THEN {[id |-> "s", from |-> 1, to |-> 1], [id |-> "t", from |-> 2, to |-> 2]} ELSE {}]

Sources == {Doc("n", 2021, "native"), Doc("o", 2025, "ocr"), Doc("m", 2023, "native"), Doc("e", 2022, "ocr")}

Cand(doc, base, pages, pii) ==
    [base |-> base, title |-> "t", spans |-> {[page |-> p, text |-> "x"] : p \in pages}, pii |-> pii,
     status |-> "needs_review", masked |-> FALSE,
     layouts |-> IF doc.year # 2025 THEN {}
                 ELSE {[layout |-> [kind |-> "ocr", id |-> 9, doc |-> doc.id, year |-> 2025, sha |-> doc.sha],
                        page |-> p, render |-> p] : p \in pages}]

CaseLists(doc) ==
    {<<>>, <<Cand(doc, 1, {1}, "none")>>, <<Cand(doc, 1, {1}, "restricted"), Cand(doc, 1, {2}, "none")>>,
     <<Cand(doc, 1, {1, 2}, "none")>>, <<Cand(doc, 1, {2}, "none"), Cand(doc, 1, {2}, "none")>>}

Runs(doc, manifest) ==
    {[doc |-> doc, manifest |-> manifest, input |-> doc.id, cases |-> c, quarantines |-> q,
      pages |-> <<[sha |-> doc.sha, status |-> "extracted", texts |-> {"x"}],
                  [sha |-> doc.sha, status |-> s, texts |-> {"x"}]>>] :
       c \in CaseLists(doc), q \in {{}, {[id |-> "q", pages |-> {2}]}}, s \in {"extracted", "quarantined"}}

RunSets ==
    UNION {{{r} : r \in Runs(d, {d.id})} : d \in Sources}
      \cup UNION {{{r, q} : r \in Runs(Doc("n", 2021, "native"), {"n", d.id}), q \in Runs(d, {"n", d.id})} :
                    d \in Sources \ {Doc("n", 2021, "native")}}

Lock == [entries |-> {[year |-> 2025, doc |-> "o", sha |-> "o"], [year |-> 2022, doc |-> "e", sha |-> "e"]}]

Packages ==
    UNION {[alg : {"package"}, runs : {runs}, lock : {K!Nothing, Lock}, stop : {0, 1, 4, 5, 7, 20},
            results : {[id \in {r.doc.id : r \in {q \in runs : q.quarantines # {}}} |->
                          IF empty THEN <<>> ELSE <<Cand(CHOOSE d \in Sources : d.id = id, 3, {1}, "none")>>] :
                         empty \in BOOLEAN}] : runs \in RunSets}

-----------------------------------------------------------------------------
(* Three pages of a native edition, two scanned ones with the rows of two  *)
(* or three borders and up to three lines, and renames that fail.          *)
Edition(id, sha, year, body) == [id |-> id, sha |-> sha, year |-> year, body |-> body, pages |-> 3]
Block(text, zone) == [text |-> text, zone |-> zone]

NativePages ==
    {X!Broken, <<>>, <<Block(1, "top")>>, <<Block(1, "top"), Block(2, "body")>>, <<Block(1, "top"), Block(1, "top")>>,
     <<Block(0, "top")>>, <<Block(1, "right")>>, <<Block(1, "right"), Block(1, "right"), Block(1, "body")>>}

Natives ==
    [alg : {"native"}, pages : [1 .. 3 -> NativePages],
     doc : {Edition("n", 1, y, b) : y \in {2020, 2021, 2023}, b \in {<<1, 3>>, <<2, 3>>, <<1, 2>>}}]

Borders == {[y |-> y, from |-> f, to |-> t] : y \in {4, 6, 7}, f \in {0, 1}, t \in {8, 10}}
Image(rows) == [width |-> 10, height |-> 20, rows |-> rows]

Images ==
    {Image(rows) : rows \in {rs \in {{a, b, c, d} : a, b, c \in Borders, d \in {[y |-> 10, from |-> 0, to |-> 10],
                                                                                [y |-> 9, from |-> 2, to |-> 8]}} :
                               \A r, q \in rs : r.y = q.y => r = q}}

Line(text, box) == [text |-> text, box |-> box, low |-> text = 3, hint |-> "document_number", numbered |-> text # 2]

Lines ==
    UpTo(2, {Line(t, <<x, y, x + 2, y + h>>) : t \in {1, 2}, x \in {1, 5, 9}, y \in {2, 4}, h \in {1, 3}})
      \cup {<<Line(1, <<0, 6, 2, 9>>), Line(3, <<5, 0, 8, 4>>), Line(2, <<1, y, 4, y + h>>)>> :
              y \in {0, 1, 4, 7}, h \in {1, 3}}

Plain == [rendered |-> TRUE, recognised |-> TRUE, fits |-> TRUE, image |-> Image({}), lines |-> <<>>]

ScannedPages ==
    {[Plain EXCEPT !.image = i] : i \in Images} \cup {[Plain EXCEPT !.lines = l] : l \in Lines}
      \cup {[Plain EXCEPT !.rendered = FALSE], [Plain EXCEPT !.recognised = FALSE], [Plain EXCEPT !.fits = FALSE]}

Scans ==
    [alg : {"scan"}, pages : ScannedPages \X {Plain} \X {Plain}, engine : {"paddle", "vision"},
     selected : {<<1>>, <<1, 3>>},
     doc : {Edition(id, sha, y, b) : id \in {"d", "e"}, sha \in {1, 2}, y \in {2023, 2024, 2025}, b \in {<<1, 2>>, <<1, 3>>}}]

Replacements ==
    [alg : {"replace"}, previous : {"none", "old"}, fails : SUBSET {"keep", "promote", "restore", "drop"}]

-----------------------------------------------------------------------------
(* Documents of three pages of 1000 by 1000 points.  What stands in a slot *)
(* of a page is a case number with its title, or a line of a kind.         *)
Text(mark, n, x, y, size, end, place) ==
    [box |-> <<x, y, x + 300, y + 20>>, at |-> place, text |-> 10 * place[1] + place[2], mark |-> mark, n |-> n,
     names |-> G!None, end |-> end, size |-> size, font |-> "plain", hint |-> G!None, reviewed |-> G!None]

(* The title begins a little above the number it stands beside.            *)
NumberAndTitle(y, b) ==
    <<[Text("number", b, 120, y, 30, G!None, <<b, 1, 1>>) EXCEPT !.box = <<120, y, 150, y + 32>>],
      Text("none", 0, 160, y - 8, 22, G!None, <<b, 2, 1>>)>>

SlotLines(kind, y, b) ==
    CASE kind = "case"    -> NumberAndTitle(y, b)
      [] kind = "ask"     -> <<Text("none", 0, 250, y, 20, "?", <<b, 1, 1>>)>>
      [] kind = "say"     -> <<Text("none", 0, 250, y, 20, G!None, <<b, 1, 1>>)>>
      [] kind = "tell"    -> <<Text("none", 0, 120, y, 20, ".", <<b, 1, 1>>)>>
      [] kind = "item"    -> <<Text("item", 1, 130, y, 20, ".", <<b, 1, 1>>)>>
      [] kind = "audit"   -> <<Text("item", 7, 100, y, 28, G!None, <<b, 1, 1>>)>>
      [] kind = "heading" -> <<[Text("role", 0, 120, y, 20, G!None, <<b, 1, 1>>) EXCEPT !.names = "answer"]>>
      [] kind = "end"     -> <<[Text("none", 0, 250, y, 20, ".", <<b, 1, 1>>) EXCEPT !.reviewed = "case_end"]>>
      [] kind = "part"    -> <<[Text("part", 0, 250, y, 20, G!None, <<b, 1, 1>>) EXCEPT !.text = 2]>>
      [] kind = "tall"    -> <<[Text("none", 0, 120, y, 20, ".", <<b, 1, 1>>) EXCEPT !.box = <<120, y, 420, y + 60>>]>>
      [] kind = "over"    -> NumberAndTitle(y - 50, b)
      [] kind = "clash"   -> <<Text("none", 0, 250, y, 20, G!None, <<b, 1, 1>>), Text("none", 0, 250, y, 20, ".", <<b, 2, 1>>)>>
      [] OTHER            -> <<Text(kind, 0, 120, y, 20, ".", <<b, 1, 1>>)>>

SlotTop(k) == 60 + 100 * k

(* The card of a case ends before the next case or the basis below it; a   *)
(* page without a number is one card.                                      *)
CardEnd(slots, k) ==
    LET below == {j \in k + 1 .. Len(slots) : slots[j] \in {"case", "basis"}}
    IN  SlotTop(IF below = {} THEN Len(slots) + 1 ELSE CHOOSE j \in below : \A i \in below : j <= i) - 12

Cards(slots) ==
    LET numbered == {k \in DOMAIN slots : slots[k] = "case"}
    IN  IF numbered = {} THEN {<<100, 100, 800, 900>>}
        ELSE {<<100, SlotTop(k) - 10, 800, CardEnd(slots, k)>> : k \in numbered}

DocumentPage(year, i, slots, heads) ==
    [year |-> year, status |-> "extracted", role |-> "body", width |-> 1000, height |-> 1000,
     cards |-> Cards(slots), found |-> TRUE, segment |-> "s", review |-> "machine_extracted", heads |-> heads,
     consumed |-> {}, unclear |-> {},
     lines |-> SlotLines(slots[1], SlotTop(1), 5 * i)
                 \o (IF Len(slots) > 1 THEN SlotLines(slots[2], SlotTop(2), 5 * i + 1) ELSE <<>>)
                 \o (IF Len(slots) > 2 THEN SlotLines(slots[3], SlotTop(3), 5 * i + 2) ELSE <<>>)
                 \o (IF Len(slots) > 3 THEN SlotLines(slots[4], SlotTop(4), 5 * i + 3) ELSE <<>>)]

NoHeads == [l \in {"domain", "part", "subtopic"} |-> G!NoText]

(* What may come between two pages of a case.                              *)
MiddlePage(year, kind) ==
    IF kind \in {"quarantined", "cover", "part?", "domain?"}
    THEN [DocumentPage(year, 2, <<"say", "case", "ask">>, NoHeads) EXCEPT
            !.status = IF kind = "quarantined" THEN kind ELSE @, !.role = IF kind = "cover" THEN kind ELSE @,
            !.unclear = IF kind = "part?" THEN {"part"} ELSE IF kind = "domain?" THEN {"domain"} ELSE {}]
    ELSE DocumentPage(year, 2, <<kind, IF kind = "part" THEN "say" ELSE IF kind = "tall" THEN "over" ELSE "case">>, NoHeads)

DocumentPages(d) ==
    <<DocumentPage(d.year, 1, d.first, [NoHeads EXCEPT !.domain = 9, !.part = 8]), MiddlePage(d.year, d.middle),
      DocumentPage(d.year, 3, d.last, NoHeads)>>

Documents ==
    LET middle == {"quarantined", "cover", "part?", "domain?", "clash", "part", "say", "tell", "audit", "tall"}
        of(years, kinds, case) ==
          [alg : {"parse"}, year : years, first : [1 .. 3 -> kinds], middle : middle,
           last : {<<"say">> \o case, <<"part">> \o case}]
    IN  of({2020}, {"case", "ask", "dot", "say", "bullet", "basis"}, <<"case", "bullet", "say">>)
          \cup of({2021, 2022}, {"case", "ask", "tell", "say", "item", "basis"}, <<"case", "ask", "tell">>)
          \cup of({2023, 2025}, {"case", "say", "answer", "basis", "heading", "end"}, <<"case", "say", "answer">>)

-----------------------------------------------------------------------------
Init ==
    \/ input \in Matchings
    \/ input \in Collections
    \/ input \in Trips
    \/ input \in Answers
    \/ input \in Searches
    \/ input \in Fusions
    \/ input \in ChunkInputs
    \/ input \in Citations
    \/ input \in Proposals
    \/ input \in Samples
    \/ input \in Packages
    \/ input \in Natives
    \/ input \in Scans
    \/ input \in Replacements
    \/ input \in Documents
Next == UNCHANGED input
Spec == Init /\ [][Next]_input

(* Routes of public transit are given another provider's geometry only     *)
(* when there is one way to do it (_supplement_public_geometry); modes     *)
(* collected one by one and combined are shown as if collected together,   *)
(* and no collection breaks the contract of its own type                   *)
(* (combine_collections, RouteCollection).                                 *)
ModesCombine ==
    /\ input.alg = "match" => R!MatchingIsUnique(input.edges, input.count)
    /\ input.alg = "combine" => R!CombinedIsCollected(input.found)

(* A repeated attempt leaves nothing behind (_request_worker).             *)
AttemptsAreClean == input.alg = "answer" => A!AttemptsLeaveNothing(input.responses)

(* The chunks of a case are its text, no less and on the right pages, and  *)
(* are accepted when they are stored (build_chunks,                        *)
(* revalidate_verified_chunk_set).                                         *)
ChunksShowTheCase ==
    input.alg = "chunk" => C!ChunksShowTheCase(input.case, input.sources, input.cut, input.tables)

(* Each of the four versions of a review package is read as it was written *)
(* and a package that is not complete is not read (_revalidate_batch,      *)
(* _write_review_package, _review_package_authority_sha256).               *)
PackageIsRead ==
    input.alg = "package" => K!PackageIsRead(input.runs, input.lock, input.results, input.stop)

(* An extraction gives one record a page that its writer takes, leaves out *)
(* no text but what stands on two fifths of the body, reads the columns in *)
(* their order, and a directory that is replaced is kept until its         *)
(* successor is in its place (extract_document, extract_pages, the two     *)
(* writers, _replace_output_directory).                                    *)
ExtractionIsWhole ==
    /\ input.alg = "native" => X!NativeIsWhole(input.doc, input.pages, X!ExtractDocument(input.doc, input.pages))
    /\ input.alg = "scan" =>
         X!OcrIsWhole(input.doc, input.pages, input.selected, input.engine,
                      X!ExtractPages(input.doc, input.pages, input.selected, input.engine))
    /\ input.alg = "replace" => X!PreviousIsKept(input.previous, input.fails)

(* Every case of a document is whole and alone: no line is in two of them  *)
(* or in quarantine as well, none reaches into the number or the card of   *)
(* another, over a page that could not be read or into another part, each  *)
(* names the part it stands in, and nothing of an answer that goes on is   *)
(* left out (_parse_pages, _finalize).                                     *)
CasesAreWhole ==
    input.alg = "parse" => G!CasesAreWhole(DocumentPages(input), G!ParsePages(DocumentPages(input)))
=============================================================================
