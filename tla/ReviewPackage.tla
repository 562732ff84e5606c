---------------------------- MODULE ReviewPackage ----------------------------
(* The review package (src/corpus/staging.py): verified parse runs become  *)
(* one batch, the batch is checked again and written file by file, and the *)
(* written package is checked by whoever reads it; quarantines that were   *)
(* resolved give a second batch from the same runs.  A digest is the value *)
(* it digests.                                                             *)
(*   run       [doc, manifest, input, cases, quarantines, pages]           *)
(*   doc       [id, year, method, sha, pages, segments]                    *)
(*   candidate [base, title, spans, pii, status, masked, layouts], spans   *)
(*             is a set of [page, text]                                    *)
(*   quarantine [id, pages], page [sha, status, texts]                     *)
(* Pages and candidates are sequences, quarantines a set.  Reading a PDF,  *)
(* parsing and the scan for personal data are outside.                     *)
EXTENDS Integers, FiniteSets, Sequences, SequencesExt, FiniteSetsExt

S == INSTANCE ReviewSampling WITH
       Minimum <- 1, OneIn <- 2, Score <- LAMBDA release, segment, reference : 0

Failed == [failed |-> TRUE]
Nothing == [none |-> TRUE]

-----------------------------------------------------------------------------
(* One document with cases.                                                *)

FirstPage(c) == Min({s.page : s \in c.spans})

CaseIds(run) ==
    LET twice(base) == \E i, j \in DOMAIN run.cases : i # j /\ run.cases[i].base = base /\ run.cases[j].base = base
    IN  [i \in DOMAIN run.cases |->
           LET c == run.cases[i]
           IN  IF twice(c.base) THEN <<run.doc.year, c.base, FirstPage(c), c.title>>
               ELSE <<run.doc.year, c.base, 0, "">>]

PagesAreWhole(run) ==
    /\ Len(run.pages) = run.doc.pages
    /\ \A i \in DOMAIN run.pages : run.pages[i].sha = run.doc.sha

SpansOf(run) ==
    UNION {{[page |-> i, text |-> t] : t \in run.pages[i].texts} : i \in DOMAIN run.pages}

QuarantinesAreLegal(rows, docs) ==
    \A r \in rows : \E d \in docs :
      d.id = r.doc /\ d.year = r.year /\ \A p \in r.quarantine.pages : p <= d.pages

Rows(run) == {[doc |-> run.doc.id, year |-> run.doc.year, quarantine |-> q] : q \in run.quarantines}

(* Every span of a native case lies in the one segment of the manifest.    *)
Covering(doc, page) == {s \in doc.segments : s.from <= page /\ page <= s.to}

CanAssign(doc, c) ==
    /\ c.spans # {}
    /\ \A s \in c.spans : Cardinality(Covering(doc, s.page)) = 1
    /\ Cardinality({Covering(doc, s.page) : s \in c.spans}) = 1

AssignNativeReviewSegment(doc, c) == CHOOSE s \in Covering(doc, FirstPage(c)) : TRUE

NeedsSegment(doc) == doc.method = "native" /\ doc.year \in {2020, 2021, 2022}

NativeSegment(doc, c) ==
    IF NeedsSegment(doc)
    THEN LET s == AssignNativeReviewSegment(doc, c) IN [id |-> s.id, bounds |-> <<s.from, s.to>>]
    ELSE S!NoSegment

CaseOf(run, c, id) ==
    [id |-> id, doc |-> run.doc.id, source |-> run.doc.method, spans |-> c.spans, pii |-> c.pii,
     status |-> IF c.pii = "restricted" THEN "needs_review" ELSE c.status,
     masked |-> c.masked, search |-> FALSE, answer |-> FALSE]

PromotionEnvelope(case, parser, raw) == [case |-> case, parser |-> parser, raw |-> raw]

ReviewReference(case, envelope) ==
    [id |-> case.id, content |-> envelope, locations |-> {s.page : s \in case.spans}]

SamplingCandidate(run, c, case, envelope) ==
    [id |-> case.id, content |-> envelope, year |-> run.doc.year, source |-> run.doc.method,
     pii |-> case.pii, status |-> case.status, quarantined |-> FALSE, doc |-> run.doc.id,
     sha |-> run.doc.sha, native |-> NativeSegment(run.doc, c), pages |-> c.layouts]

CanPrepareBatch(run) ==
    /\ Len(run.cases) >= 1 /\ PagesAreWhole(run)
    /\ IsInjective(CaseIds(run))
    /\ \A i \in DOMAIN run.cases :
         /\ run.cases[i].spans # {} /\ run.cases[i].spans \subseteq SpansOf(run)
         /\ NeedsSegment(run.doc) => CanAssign(run.doc, run.cases[i])
         /\ S!LegalCandidate(SamplingCandidate(run, run.cases[i], CaseOf(run, run.cases[i], 0), 0))

(* What prepare_review_batch derives for each case.                        *)
BatchRows(run, parser, raw) ==
    {LET c        == run.cases[i]
         case     == CaseOf(run, c, CaseIds(run)[i])
         envelope == PromotionEnvelope(case, parser, raw)
     IN  [case |-> case, envelope |-> envelope, assessed |-> case.id,
          sampling |-> SamplingCandidate(run, c, case, envelope)] : i \in DOMAIN run.cases}

PageCounts(run) ==
    LET of(status) == Cardinality({i \in DOMAIN run.pages : run.pages[i].status = status})
    IN  [succeeded |-> of("extracted"), quarantined |-> of("quarantined"), failed |-> 0]

CanPrepareQuarantined(run) ==
    /\ run.cases = <<>> /\ run.quarantines # {} /\ PagesAreWhole(run)
    /\ QuarantinesAreLegal(Rows(run), {run.doc})

-----------------------------------------------------------------------------
(* The corpus: all annual runs under two authorities.                      *)

ParserAuthority(runs) ==
    {[tag |-> "v1", doc |-> r.doc.id, input |-> r.input, result |-> <<r.cases, r.quarantines>>] : r \in runs}

RawAuthority(runs) == {[a EXCEPT !.tag = "raw"] : a \in ParserAuthority(runs)}

Docs(runs) == {r.doc : r \in runs}
References(rows) == {ReviewReference(r.case, r.envelope) : r \in rows}

CombinedRows(runs, parser, raw) ==
    UNION {BatchRows(r, parser, raw) : r \in {q \in runs : q.cases # <<>>}}

CanPrepareCorpus(runs) ==
    /\ \E r \in runs : r.cases # <<>>
    /\ \A r, q \in runs : r.manifest = q.manifest /\ (r # q => r.doc.id # q.doc.id)
    /\ \A r \in runs : IF r.cases # <<>> THEN CanPrepareBatch(r) ELSE CanPrepareQuarantined(r)

PrepareCorpus(runs, parser, raw) ==
    LET rows == CombinedRows(runs, parser, raw)
    IN  IF /\ CanPrepareCorpus(runs)
           /\ \A r, q \in rows : r.case.id = q.case.id => r = q
           /\ QuarantinesAreLegal(UNION {Rows(r) : r \in runs}, Docs(runs))
        THEN [docs |-> Docs(runs), rows |-> rows, registry |-> References(rows), parser |-> parser,
              raw |-> raw, manifest |-> (CHOOSE r \in runs : TRUE).manifest,
              counts |-> {<<r.doc.id, PageCounts(r)>> : r \in runs},
              quarantines |-> UNION {Rows(r) : r \in runs}, lock |-> Nothing, resolution |-> Nothing]
        ELSE Failed

PrepareReviewCorpus(runs) == PrepareCorpus(runs, ParserAuthority(runs), RawAuthority(runs))

OcrDocs(docs) == {d \in docs : d.method = "ocr"}

AuthorityMatchesDocuments(lock, docs) ==
    /\ lock # Nothing /\ OcrDocs(docs) # {}
    /\ \A d \in OcrDocs(docs) :
         LET matches == {e \in lock.entries : e.year = d.year}
         IN  Cardinality(matches) = 1 /\ \A e \in matches : e.doc = d.id /\ e.sha = d.sha

(* The manifest says which documents there are and the lock is named if    *)
(* and only if one of them was read by OCR.                                *)
FromArtifacts(runs, lock) ==
    LET batch == PrepareReviewCorpus(runs)
    IN  IF /\ Docs(runs) = {r.doc : r \in runs} /\ {d.id : d \in Docs(runs)} = (CHOOSE r \in runs : TRUE).manifest
           /\ IF OcrDocs(Docs(runs)) = {} THEN lock = Nothing ELSE AuthorityMatchesDocuments(lock, Docs(runs))
           /\ batch # Failed
        THEN [batch EXCEPT !.lock = lock] ELSE Failed

-----------------------------------------------------------------------------
(* Resolved quarantines: results holds what each affected document parses  *)
(* to under the reviewer's decisions.                                      *)

AuthorityOf(batch, release, unresolved) ==
    [release |-> release, registry |-> batch.registry, manifest |-> batch.manifest, raw |-> batch.raw,
     parser |-> batch.parser, quarantines |-> batch.quarantines, unresolved |-> unresolved]

Affected(authority) == {r.doc : r \in authority.quarantines}

ResolvedRun(run, results) ==
    IF run.doc.id \in DOMAIN results
    THEN [run EXCEPT !.cases = results[run.doc.id], !.quarantines = {}] ELSE run

ResolvedParserAuthority(runs, source, authority) ==
    {[tag |-> "v2", doc |-> r.doc.id, input |-> r.input, result |-> <<r.cases, r.quarantines>>,
      source |-> source.registry, resolution |-> authority] : r \in runs}

AuthorityMatchesSource(authority, source) ==
    /\ authority = AuthorityOf(source, authority.release, authority.unresolved)
    /\ authority.quarantines # {} /\ ~authority.unresolved

PrepareResolved(runs, results, source, authority) ==
    LET resolved == {ResolvedRun(r, results) : r \in runs}
        output   == PrepareCorpus(resolved, ResolvedParserAuthority(resolved, source, authority), source.raw)
    IN  IF /\ AuthorityMatchesSource(authority, source)
           /\ PrepareReviewCorpus(runs) = [source EXCEPT !.lock = Nothing]
           /\ DOMAIN results = Affected(authority)
           /\ \A r \in runs : r.quarantines # {} <=> r.doc.id \in Affected(authority)
           /\ output # Failed
        THEN [output EXCEPT !.lock = source.lock, !.resolution = authority] ELSE Failed

-----------------------------------------------------------------------------
(* A batch is checked as if nobody had prepared it.                        *)

ResolutionAccepted(b) ==
    b.resolution # Nothing =>
      /\ b.quarantines = {} /\ b.resolution.quarantines # {} /\ ~b.resolution.unresolved
      /\ b.resolution.manifest = b.manifest /\ b.resolution.raw = b.raw
      /\ b.resolution.parser # b.parser /\ b.resolution.registry # b.registry

LockAccepted(b) ==
    IF OcrDocs(b.docs) = {} THEN b.lock = Nothing ELSE AuthorityMatchesDocuments(b.lock, b.docs)

LayoutsAccepted(row, doc) ==
    IF doc.method = "native" THEN row.sampling.pages = {}
    ELSE /\ row.sampling.native = S!NoSegment
         /\ IF doc.year \in {2024, 2025}
            THEN /\ {p.page : p \in row.sampling.pages} = {s.page : s \in row.case.spans}
                 /\ \A p \in row.sampling.pages :
                      p.layout.doc = doc.id /\ p.layout.year = doc.year /\ p.layout.sha = doc.sha
            ELSE row.sampling.pages = {}

SegmentAccepted(row, doc) ==
    NeedsSegment(doc) =>
      \E s \in doc.segments : /\ row.sampling.native = [id |-> s.id, bounds |-> <<s.from, s.to>>]
                              /\ \A t \in row.case.spans : s.from <= t.page /\ t.page <= s.to

RowAccepted(b, row) ==
    \E doc \in b.docs :
      /\ row.case.doc = doc.id /\ row.sampling.doc = doc.id /\ row.sampling.sha = doc.sha
      /\ row.envelope = PromotionEnvelope(row.case, b.parser, b.raw)
      /\ row.assessed = row.case.id
      /\ row.sampling.id = row.case.id /\ row.sampling.content = row.envelope
      /\ row.sampling.year = doc.year /\ row.sampling.source = row.case.source
      /\ row.sampling.pii = row.case.pii /\ row.sampling.status = row.case.status
      /\ LayoutsAccepted(row, doc) /\ SegmentAccepted(row, doc)

CountsAccepted(b) ==
    /\ {c[1] : c \in b.counts} = {d.id : d \in b.docs}
    /\ \A c \in b.counts : \E d \in b.docs :
         d.id = c[1] /\ c[2].succeeded + c[2].quarantined + c[2].failed = d.pages

RevalidateBatch(b) ==
    /\ b # Failed /\ b.rows # {}
    /\ ResolutionAccepted(b) /\ LockAccepted(b) /\ CountsAccepted(b)
    /\ \A row \in b.rows : RowAccepted(b, row)
    /\ b.registry = References(b.rows)
    /\ QuarantinesAreLegal(b.quarantines, b.docs)

-----------------------------------------------------------------------------
(* The package: its files in the order they are written, each in turn.     *)

(* OCR is looked at before quarantines and resolutions.                    *)
VersionByLock(b) ==
    IF b.lock # Nothing THEN 2 ELSE IF b.resolution # Nothing THEN 4
    ELSE IF b.quarantines # {} THEN 3 ELSE 1

Version(b) ==
    IF b.resolution # Nothing THEN 4 ELSE IF b.quarantines # {} THEN 3
    ELSE IF b.lock # Nothing THEN 2 ELSE 1

Optional(b) ==
    (IF b.lock # Nothing THEN <<"lock">> ELSE <<>>)
    \o (IF b.quarantines # {} THEN <<"quarantines">> ELSE <<>>)
    \o (IF b.resolution # Nothing THEN <<"resolutions">> ELSE <<>>)

FileOrder(b) ==
    <<"registry", "sampling", "documents">> \o Optional(b)
    \o <<"evidence", "candidates", "queue", "database", "summary">>

(* What the evidence and the summary name beyond the base, as written.     *)
Named(b) == ToSet(Optional(b))

Authorities(b) == [manifest |-> b.manifest, parser |-> b.parser, raw |-> b.raw]

Evidence(b) ==
    [version |-> Version(b), names |-> Named(b), authorities |-> Authorities(b), counts |-> b.counts,
     quarantines |-> Cardinality(b.quarantines), pinned |-> <<b.lock, b.quarantines, b.resolution>>]

Summary(b, release) ==
    [version |-> Version(b), names |-> Named(b), authorities |-> Authorities(b), release |-> release,
     registry |-> b.registry, cases |-> Cardinality(b.rows), docs |-> Cardinality(b.docs),
     quarantines |-> Cardinality(b.quarantines)]

Sampling(b, release) ==
    S!BuildSamplingAuthority(release, {[id |-> r.id, content |-> r.content] : r \in b.registry},
                             b.parser, b.raw, b.manifest, {r.sampling : r \in b.rows})

(* The writer stops after "stop" files when its process ends there; a file *)
(* that cannot be written, or a plan that cannot be made, takes the        *)
(* package away again.                                                     *)
NoPackage == [written |-> {}]

CanWrite(root, release, b) ==
    /\ RevalidateBatch(b) /\ "review" \notin root
    /\ b.resolution # Nothing => b.resolution.release = release /\ root = {}

WriteReviewPackage(root, release, b, stop) ==
    LET order == FileOrder(b)
    IN  IF ~CanWrite(root, release, b) \/ (Sampling(b, release) = Failed /\ stop > 1) THEN NoPackage
        ELSE [written |-> {order[i] : i \in 1 .. (IF stop < Len(order) THEN stop ELSE Len(order))},
              evidence |-> Evidence(b), summary |-> Summary(b, release), docs |-> b.docs,
              lock |-> b.lock, quarantines |-> b.quarantines, resolution |-> b.resolution]

-----------------------------------------------------------------------------
(* The reader knows the release and the registry it expects and sees       *)
(* nothing but the files.                                                  *)

SummaryAgrees(p, release, registry) ==
    /\ p.summary.docs = Cardinality(p.docs) /\ p.summary.quarantines = p.evidence.quarantines
    /\ p.summary.release = release /\ p.summary.registry = registry
    /\ p.summary.authorities = p.evidence.authorities
    /\ p.summary.version = p.evidence.version /\ p.summary.names = p.evidence.names

LockOnDisk(p) ==
    IF OcrDocs(p.docs) = {} THEN "lock" \notin p.written /\ "lock" \notin p.evidence.names
    ELSE /\ "lock" \in p.written /\ "lock" \in p.evidence.names
         /\ p.lock = p.evidence.pinned[1] /\ AuthorityMatchesDocuments(p.lock, p.docs)

ResolutionOnDisk(p, release, registry) ==
    /\ "resolutions" \in p.written /\ p.resolution = p.evidence.pinned[3]
    /\ p.resolution.release = release /\ p.resolution.quarantines # {} /\ ~p.resolution.unresolved
    /\ p.resolution.registry # registry /\ p.resolution.parser # p.evidence.authorities.parser
    /\ p.resolution.manifest = p.evidence.authorities.manifest
    /\ p.resolution.raw = p.evidence.authorities.raw

QuarantinesOnDisk(p) ==
    /\ "quarantines" \in p.written /\ p.evidence.quarantines > 0
    /\ p.quarantines = p.evidence.pinned[2] /\ Cardinality(p.quarantines) = p.evidence.quarantines
    /\ QuarantinesAreLegal(p.quarantines, p.docs)

(* The four versions of a package and the files each has.                  *)
VersionAgrees(p, release, registry) ==
    LET names == p.evidence.names
    IN  CASE p.evidence.version = 1 -> names = {} /\ p.evidence.quarantines = 0 /\ OcrDocs(p.docs) = {}
          [] p.evidence.version = 2 -> names = {"lock"} /\ p.evidence.quarantines = 0 /\ OcrDocs(p.docs) # {}
          [] p.evidence.version = 3 -> names \ {"lock"} = {"quarantines"} /\ QuarantinesOnDisk(p)
          [] p.evidence.version = 4 -> /\ names \ {"lock"} = {"resolutions"} /\ p.evidence.quarantines = 0
                                       /\ ResolutionOnDisk(p, release, registry)

NothingElse(p) ==
    p.written \cap {"lock", "quarantines", "resolutions"} = p.evidence.names

PackageAccepted(p, release, registry) ==
    /\ {"registry", "documents", "evidence", "summary"} \subseteq p.written
    /\ {c[1] : c \in p.evidence.counts} = {d.id : d \in p.docs}
    /\ SummaryAgrees(p, release, registry)
    /\ VersionAgrees(p, release, registry) /\ LockOnDisk(p) /\ NothingElse(p)

-----------------------------------------------------------------------------
(* What is prepared passes the check that trusts nobody, what was written  *)
(* to the end is read as what it is and as nothing else, what was not is   *)
(* not read, and it keeps the next writer out.                             *)
Reads(b, release, stop) ==
    LET p == WriteReviewPackage({}, release, b, stop)
    IN  /\ RevalidateBatch(b)
        /\ Sampling(b, release) = Failed /\ stop > 1 => p = NoPackage
        /\ p # NoPackage =>
             /\ PackageAccepted(p, release, b.registry) <=> stop >= Len(FileOrder(b))
             /\ ~PackageAccepted(p, "other", b.registry)
             /\ ~PackageAccepted(p, release, {})
             /\ WriteReviewPackage({"review"}, release, b, stop) = NoPackage

(* A resolution gives a batch of its own, without quarantines, unless a    *)
(* document is left with neither case nor quarantine.                      *)
ResolvedIsStaged(runs, results, source, release) ==
    LET resolved == PrepareResolved(runs, results, source, AuthorityOf(source, release, FALSE))
        empty    == \E id \in DOMAIN results : results[id] = <<>>
    IN  /\ empty => resolved = Failed
        /\ resolved # Failed =>
             /\ resolved.quarantines = {} /\ resolved.registry # source.registry
             /\ \A stop \in {3, 6, 20} : Reads(resolved, release, stop)
        /\ PrepareResolved(runs, results, source, AuthorityOf(source, release, TRUE)) = Failed

PackageIsRead(runs, lock, results, stop) ==
    LET batch == FromArtifacts(runs, lock)
    IN  batch # Failed =>
          /\ Reads(batch, "r", stop)
          /\ batch.quarantines # {} => ResolvedIsStaged(runs, results, batch, "r")
=============================================================================
