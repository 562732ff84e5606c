----------------------------- MODULE Extraction -----------------------------
(* From a PDF to the page records of one document: the native extraction   *)
(* (src/ingestion/extract_native.py) with its filter of repeated margins,  *)
(* the extraction by OCR (extract_ocr.py) with its two engines, and the    *)
(* replacement of an output directory (src/cli.py).  Nothing keeps state.  *)
(*   doc    [id, sha, year, body, pages], body is <<first, last>>          *)
(*   block  [text, zone], where the blank text is 0                        *)
(*   line   [text, box, low, hint], a box is <<x0, y0, x1, y1>>            *)
(*   image  [width, height, rows], where rows are the rows of the raster   *)
(*          dense in green, [y, from, to]                                  *)
(* A page that PyMuPDF cannot read is Broken; pixels, fonts and digests    *)
(* are outside.                                                            *)
EXTENDS Integers, Sequences, FiniteSets, SequencesExt, FiniteSetsExt

CONSTANT Registry   \* year -> [doc, sha, body] (APPROVED_LAYOUT_SEGMENT_REGISTRY)

Broken == <<[text |-> 0, zone |-> "broken"]>>
None == [none |-> TRUE]

Labelled(doc, i) == doc.body[1] <= i /\ i <= doc.body[2]
BodyPages(doc) == doc.body[2] - doc.body[1] + 1

-----------------------------------------------------------------------------
(* Native: a block is left out when it is blank, or when it stands in a    *)
(* margin and its like stands there on enough pages of the body.           *)

CandidateSignature(doc, i, block) ==
    CASE block.text = 0 -> None
      [] doc.year = 2020 /\ i % 2 = 1 /\ block.zone = "right" -> [at |-> "right", text |-> block.text]
      [] doc.year \in {2021, 2022} /\ block.zone \in {"top", "bottom"} -> [at |-> block.zone, text |-> block.text]
      [] OTHER -> None

RepetitionThreshold(signature, body) ==
    IF body <= 0 THEN body + 1
    ELSE Max({1, (IF signature.at = "right" THEN 40 * body + 99 ELSE 50 * body + 99) \div 100})

Readable(doc, pages) == {i \in DOMAIN pages : pages[i] # Broken /\ Labelled(doc, i)}

Signatures(doc, pages, i) ==
    {CandidateSignature(doc, i, pages[i][k]) : k \in DOMAIN pages[i]} \ {None}

(* A count of the blocks instead of the pages that hold one.               *)
OccurrencesOf(doc, pages, s) ==
    Cardinality({<<i, k>> \in Readable(doc, pages) \X (1 .. 4) :
                                 k \in DOMAIN pages[i] /\ CandidateSignature(doc, i, pages[i][k]) = s})

PagesWith(doc, pages, s) == Cardinality({i \in Readable(doc, pages) : s \in Signatures(doc, pages, i)})

DiscoverRepeatedSignatures(doc, pages) ==
    {s \in UNION {Signatures(doc, pages, i) : i \in Readable(doc, pages)} :
       PagesWith(doc, pages, s) >= RepetitionThreshold(s, BodyPages(doc))}

Removal(doc, pages, i, k) ==
    LET s == CandidateSignature(doc, i, pages[i][k])
    IN  IF s \in DiscoverRepeatedSignatures(doc, pages)
        THEN [reason |-> "repeated", signature |-> s, seen |-> PagesWith(doc, pages, s),
              body |-> BodyPages(doc), threshold |-> RepetitionThreshold(s, BodyPages(doc))]
        ELSE IF pages[i][k].text = 0 THEN [reason |-> "blank"] ELSE None

CleanedPage(doc, i, blocks, removals) ==
    LET removed == {k \in DOMAIN blocks : removals[k] # None}
    IN  [page |-> i, doc |-> doc.id, sha |-> doc.sha, status |-> "extracted", raw |-> blocks,
         retained |-> DOMAIN blocks \ removed, removed |-> Restrict(removals, removed)]

ExtractDocument(doc, pages) ==
    [i \in DOMAIN pages |-> IF pages[i] = Broken
                            THEN [page |-> i, doc |-> doc.id, sha |-> doc.sha, status |-> "quarantined"]
                            ELSE CleanedPage(doc, i, pages[i], [k \in DOMAIN pages[i] |-> Removal(doc, pages, i, k)])]

(* What a record must show for what it left out, read from the record.     *)
EvidenceHolds(doc, r) ==
    /\ r.retained \cap DOMAIN r.removed = {} /\ r.retained \cup DOMAIN r.removed = DOMAIN r.raw
    /\ \A k \in r.retained : r.raw[k].text # 0
    /\ \A k \in DOMAIN r.removed :
         LET e == r.removed[k]
         IN  IF e.reason = "blank" THEN r.raw[k].text = 0
             ELSE /\ e.signature = CandidateSignature(doc, r.page, r.raw[k]) /\ e.signature # None
                  /\ e.threshold = RepetitionThreshold(e.signature, e.body)
                  /\ e.threshold <= e.seen /\ e.seen <= e.body

(* The writer counts again over all the records it is given.               *)
WriteDocument(doc, records, approved) ==
    LET extracted == {i \in DOMAIN records : records[i].status = "extracted"}
        seen(s)   == Cardinality({i \in extracted : Labelled(doc, i) /\
                       \E k \in DOMAIN records[i].raw : CandidateSignature(doc, i, records[i].raw[k]) = s})
    IN  /\ Len(records) = doc.pages
        /\ \A i \in DOMAIN records : records[i].page = i /\ records[i].doc = doc.id /\ records[i].sha = doc.sha
        /\ \A i \in extracted : EvidenceHolds(doc, records[i]) /\
             \A k \in DOMAIN records[i].removed :
               records[i].removed[k].reason = "repeated" =>
                 /\ records[i].removed[k].seen = seen(records[i].removed[k].signature)
                 /\ records[i].removed[k].body <= Len(records) /\ records[i].removed[k].body = approved

(* Every page has its record and is only quarantined when it could not be  *)
(* read, the writer takes them, and a text that is left out is one that    *)
(* the reader still finds on two fifths of the body.                       *)
NativeIsWhole(doc, pages, records) ==
    /\ WriteDocument(doc, records, BodyPages(doc))
    /\ \A i \in DOMAIN pages : records[i].status = "quarantined" <=> pages[i] = Broken
    /\ \A i \in DOMAIN pages : pages[i] # Broken =>
         \A k \in DOMAIN pages[i] \ records[i].retained : pages[i][k].text # 0 =>
           LET like == {j \in Readable(doc, pages) : \E n \in DOMAIN pages[j] : pages[j][n] = pages[i][k]}
           IN  pages[i][k].zone # "body" /\ 5 * Cardinality(like) >= 2 * BodyPages(doc)
-----------------------------------------------------------------------------
(* OCR.  Rows of green that touch make a run, <<top, bottom, from, to>>;   *)
(* two thin runs of one width, one above the other, enclose a card.        *)

Runs(image) ==
    LET extended(runs, row) ==
          IF runs # <<>> /\ Last(runs)[2] = row.y
          THEN Front(runs) \o <<<<Last(runs)[1], row.y + 1, Min({Last(runs)[3], row.from}),
                                  Max({Last(runs)[4], row.to})>>>>
          ELSE runs \o <<<<row.y, row.y + 1, row.from, row.to>>>>
    IN  FoldLeft(extended, <<>>, SetToSortSeq(image.rows, LAMBDA r, q : r.y < q.y))

Thin(image, run) == run[2] - run[1] <= Max({1, (12 * image.height + 999) \div 1000})

Encloses(image, top, bottom) ==
    LET twice == (bottom[1] + bottom[2]) - (top[1] + top[2])
    IN  /\ 2 * image.height <= 10 * twice /\ 10 * twice <= 6 * image.height
        /\ \A e \in {3, 4} : 100 * Max({top[e] - bottom[e], bottom[e] - top[e]}) <= 8 * image.width
        /\ ~\E run \in ToSet(Runs(image)) : run[1] >= top[2] /\ run[2] <= bottom[1] /\ ~Thin(image, run)

CardsBetween(image, runs) ==
    LET card(t, b) == <<Min({t[3], b[3]}), t[1], Max({t[4], b[4]}), b[2]>>
        from[i \in 1 .. Len(runs) + 2] ==
          IF i >= Len(runs) THEN <<>>
          ELSE IF Encloses(image, runs[i], runs[i + 1]) THEN <<card(runs[i], runs[i + 1])>> \o from[i + 2]
          ELSE from[i + 1]
    IN  from[1]

Detect(image) ==
    CardsBetween(image, SelectSeq(Runs(image), LAMBDA r : Thin(image, r) /\ 10 * (r[4] - r[3]) >= 7 * image.width))

InRaster(image, box) ==
    0 <= box[1] /\ 0 <= box[2] /\ box[1] < box[3] /\ box[2] < box[4]
      /\ box[3] <= image.width /\ box[4] <= image.height

LayoutEvidence(year, image, cards) ==
    LET ordered == \A i \in 2 .. Len(cards) : cards[i - 1][2] < cards[i][2]
                     \/ (cards[i - 1][2] = cards[i][2] /\ cards[i - 1][1] < cards[i][1])
    IN  IF year = 2023 THEN [status |-> "not_applicable", regions |-> <<>>]
        ELSE IF ~ordered \/ \E b \in ToSet(cards) : ~InRaster(image, b)
        THEN [status |-> "failed", regions |-> <<>>]
        ELSE [status |-> IF cards = <<>> THEN "not_detected" ELSE "detected", regions |-> cards]

-----------------------------------------------------------------------------
(* Twice the centre of a line, and the lines of one column in rows: a line *)
(* joins the row above it when it is near the mean of that row.            *)

Centre(line) == line.box[2] + line.box[4]

SortOneColumn(lines) ==
    LET heights  == SortSeq([k \in DOMAIN lines |-> lines[k].box[4] - lines[k].box[2]], LAMBDA x, y : x < y)
        near     == Max({2, heights[Len(lines) \div 2 + 1]})
        above(a, b) == \/ Centre(a) < Centre(b)
                       \/ Centre(a) = Centre(b) /\ (a.box[1] < b.box[1] \/ (a.box[1] = b.box[1] /\ a.text < b.text))
        before(a, b) == \/ a.box[1] < b.box[1]
                        \/ a.box[1] = b.box[1] /\ (a.box[2] < b.box[2] \/ (a.box[2] = b.box[2] /\ a.text < b.text))
        sum(row) == FoldLeft(LAMBDA n, line : n + Centre(line), 0, row)
        joins(row, line) == Max({Centre(line) * Len(row) - sum(row), sum(row) - Centre(line) * Len(row)})
                              <= near * Len(row)
        placed(rows, line) == IF rows # <<>> /\ joins(Last(rows), line)
                              THEN Front(rows) \o <<Last(rows) \o <<line>>>> ELSE rows \o <<<<line>>>>
        rows     == FoldLeft(placed, <<>>, SortSeq(lines, above))
    IN  IF lines = <<>> THEN <<>> ELSE FlattenSeq([r \in DOMAIN rows |-> SortSeq(rows[r], before)])

(* The line that begins in the middle belongs to both columns.             *)
OverlappingColumns(lines, width) ==
    SortOneColumn(SelectSeq(lines, LAMBDA l : 2 * l.box[1] <= width))
      \o SortOneColumn(SelectSeq(lines, LAMBDA l : 2 * l.box[1] >= width))

SortReadingOrder(lines, width) ==
    SortOneColumn(SelectSeq(lines, LAMBDA l : 2 * l.box[1] < width))
      \o SortOneColumn(SelectSeq(lines, LAMBDA l : 2 * l.box[1] >= width))

(* The lines a person reads; each stands for its entry.                    *)
ReviewQueue(lines) == SelectSeq(lines, LAMBDA l : l.low \/ (l.hint = "document_number" /\ ~l.numbered))

-----------------------------------------------------------------------------
(* A segment for every document with the registry's own pages.             *)
SegmentOfYear(doc, i, body) ==
    IF doc.year \in DOMAIN Registry /\ body[1] <= i /\ i <= body[2] /\ body = Registry[doc.year].body
    THEN [year |-> doc.year, body |-> body, sampling |-> IF doc.year = 2024 THEN "all" ELSE "sample"] ELSE None

LayoutSegment(doc, i, body) ==
    IF doc.year \in DOMAIN Registry /\ Registry[doc.year] = [doc |-> doc.id, sha |-> doc.sha, body |-> body]
         /\ body[1] <= i /\ i <= body[2]
    THEN [year |-> doc.year, body |-> body, sampling |-> IF doc.year = 2024 THEN "all" ELSE "sample"] ELSE None

CriticalReview(year, evidence, segment) ==
    IF year \in {2023, 2024} THEN [policy |-> "all-fields", required |-> TRUE, status |-> "needs_review"]
    ELSE LET required == evidence.status # "not_detected" \/ segment = None
         IN  [policy |-> "sample", required |-> required,
              status |-> IF required THEN "needs_review" ELSE "machine_extracted"]

(* A record derives its segment again, with the pages of the registry.     *)
OcrRecordHolds(doc, r) ==
    LET segment == IF doc.year \in DOMAIN Registry THEN LayoutSegment(doc, r.page, Registry[doc.year].body) ELSE None
    IN  /\ (r.evidence.status = "not_applicable") = (doc.year = 2023)
        /\ r.segment = segment /\ r.review = CriticalReview(doc.year, r.evidence, segment)
        /\ r.queue = ReviewQueue(r.lines)

RefusedPage(doc, i, why) ==
    [page |-> i, doc |-> doc.id, sha |-> doc.sha, status |-> "quarantined", reason |-> why]

OcrRecord(doc, i, lines, evidence) ==
    LET segment == LayoutSegment(doc, i, doc.body)
    IN  [page |-> i, doc |-> doc.id, sha |-> doc.sha, status |-> "extracted", lines |-> lines,
         evidence |-> evidence, segment |-> segment, queue |-> ReviewQueue(lines),
         review |-> CriticalReview(doc.year, evidence, segment)]

(* page  [rendered, recognised, image, lines, fits], where fits is FALSE   *)
(* when the points of a line round to more than the page.  The helper of   *)
(* Apple Vision is not believed when a line is outside the raster.         *)
LinesFit(page) == \A l \in ToSet(page.lines) : InRaster(page.image, l.box)

Recognised(page, engine) == page.recognised /\ (engine = "vision" => LinesFit(page))

Provenance(doc, page, r) ==
    IF page.fits /\ LinesFit(page) /\ OcrRecordHolds(doc, r) THEN r
    ELSE RefusedPage(doc, r.page, "ocr-provenance-invalid")

ExtractPage(doc, page, i, engine) ==
    IF ~page.rendered THEN RefusedPage(doc, i, "page-render-failed")
    ELSE IF ~Recognised(page, engine) THEN RefusedPage(doc, i, "ocr-adapter-failed")
    ELSE Provenance(doc, page, OcrRecord(doc, i, SortReadingOrder(page.lines, page.image.width),
                                         LayoutEvidence(doc.year, page.image, Detect(page.image))))

OcrApproves(doc, engine) ==
    IF engine = "paddle" THEN doc.year \in {2023, 2024, 2025}
    ELSE doc.year \in DOMAIN Registry /\ Registry[doc.year] = [doc |-> doc.id, sha |-> doc.sha, body |-> doc.body]
           /\ doc.pages = doc.body[2] + 1

ExtractPages(doc, pages, selected, engine) ==
    [k \in DOMAIN selected |-> ExtractPage(doc, pages[selected[k]], selected[k], engine)]

OfThisRun(doc, r) == r.doc = doc.id /\ r.sha = doc.sha /\ (r.status = "extracted" => OcrRecordHolds(doc, r))

WriteOcr(doc, records, selected) ==
    [k \in DOMAIN records |-> records[k].page] = selected /\ \A r \in ToSet(records) : OfThisRun(doc, r)

(* The writer takes what either engine gives, a page is only refused for   *)
(* itself or for a numbering that is not the registry's, the detector      *)
(* never fails, every line is read once, columns from the left and lines   *)
(* that lie apart from above, and what no person must read is a page of an *)
(* approved body on which no border was found.                             *)
Foreign(doc, i) ==
    LET entry == Registry[doc.year]
    IN  /\ doc.year \in DOMAIN Registry /\ entry.doc = doc.id /\ entry.sha = doc.sha
        /\ entry.body # doc.body /\ entry.body[1] <= i /\ i <= entry.body[2]

RefusedRightly(doc, page, i, engine) ==
    \/ ~page.rendered \/ ~page.recognised \/ ~page.fits \/ ~LinesFit(page)
    \/ engine = "paddle" /\ Foreign(doc, i)

ReadInOrder(page, read) ==
    LET left(l) == 2 * l.box[1] < page.image.width
    IN  /\ Len(read) = Len(page.lines) /\ ToSet(read) = ToSet(page.lines)
        /\ \A n \in DOMAIN read : \A m \in 1 .. n - 1 :
             /\ left(read[n]) => left(read[m])
             /\ left(read[n]) = left(read[m]) =>
                  \E l \in ToSet(read) :
                    Centre(read[m]) <= Centre(read[n]) + 2 * Max({2, l.box[4] - l.box[2]})

ReadRightly(doc, page, i, r) ==
    /\ ~Foreign(doc, i) /\ r.evidence.status # "failed" /\ ReadInOrder(page, r.lines)
    /\ r.review.status = "machine_extracted" =>
         r.segment # None /\ Registry[2025].doc = doc.id /\ Detect(page.image) = <<>>

OcrIsWhole(doc, pages, selected, engine, records) ==
    OcrApproves(doc, engine) =>
      /\ WriteOcr(doc, records, selected)
      /\ \A k \in DOMAIN selected :
           IF records[k].status = "quarantined" THEN RefusedRightly(doc, pages[selected[k]], selected[k], engine)
           ELSE ReadRightly(doc, pages[selected[k]], selected[k], records[k])

-----------------------------------------------------------------------------
(* A directory takes the place of another by two renames, of which the     *)
(* steps in "fails" fail.  What every step leaves, in their order: the     *)
(* process may end after each of them.                                     *)

(* The workspace is removed with all it holds, whatever it holds.          *)
AlwaysCleared(tree, restored) == [tree EXCEPT !.backup = "none", !.staging = "none", !.says = "failed"]

Abandoned(tree, restored) ==
    IF restored THEN [tree EXCEPT !.backup = "none", !.staging = "none", !.says = "failed"]
    ELSE [tree EXCEPT !.says = "failed"]

ReplaceOutputDirectory(previous, fails) ==
    LET start    == [output |-> previous, backup |-> "none", staging |-> "new", says |-> "nothing"]
        kept     == [start EXCEPT !.output = "none", !.backup = previous]
        promoted == [kept EXCEPT !.output = "new", !.staging = "none"]
        restored == [kept EXCEPT !.output = previous, !.backup = "none"]
    IN  IF previous # "none" /\ "keep" \in fails THEN <<start, Abandoned(start, TRUE)>>
        ELSE <<start, kept>> \o
             (IF "promote" \notin fails
              THEN <<promoted, IF previous # "none" /\ "drop" \in fails THEN [promoted EXCEPT !.says = "failed"]
                               ELSE [promoted EXCEPT !.backup = "none", !.says = "done"]>>
              ELSE IF previous # "none" /\ "restore" \in fails THEN <<Abandoned(kept, FALSE)>>
              ELSE <<restored, Abandoned(restored, TRUE)>>)

(* What was there before is kept somewhere until the new one is in its     *)
(* place, and "done" is only said of the new one.                          *)
PreviousIsKept(previous, fails) ==
    \A tree \in ToSet(ReplaceOutputDirectory(previous, fails)) :
      /\ tree.output = "new" \/ previous \in {tree.output, tree.backup}
      /\ tree.says = "done" => tree.output = "new" /\ tree.backup = "none"
=============================================================================
