--------------------------- MODULE HybridSearch ---------------------------
(* A search over one release: the two indexes built from the canonical     *)
(* store (src/retrieval/lexical.py, dense.py), the query against each, the *)
(* fusion of their hits (fusion.py) and the evidence read back from the    *)
(* store (service.py).  Nothing here keeps state.  A store is              *)
(*   [release, docs, cases, chunks, laws, relations]                       *)
(* where docs, cases, chunks and laws are functions from the ids stored.   *)
(* The scores of SQLite and of Qdrant are external: a query is given the   *)
(* order in which each of them ranks the chunks.                           *)
EXTENDS Integers, Sequences, FiniteSets, Folds

CONSTANTS Unit,          \* the score 1.0; a multiple of 60 + r for every rank r
          Limit,         \* hits asked of each index (_BACKEND_LIMIT)
          MaxRelations,  \* relations of a result (_MAX_PARENT_RELATIONS)
          MaxSpans,      \* spans of its chunks (_MAX_MATCHED_SPANS)
          MaxFlags       \* their quality flags (_MAX_QUALITY_WARNINGS)

Approved == {"search_approved", "approved"}
Hidden == {"public_credit", "restricted"}
NoIndex == [failed |-> TRUE]

Total(S, F(_)) == MapThenFoldSet(+, 0, F, LAMBDA T : CHOOSE x \in T : TRUE, S)

-----------------------------------------------------------------------------
(* What the types themselves refuse.                                       *)

(* Case.eligibility_matches_review_and_privacy                             *)
LegalCase(c) ==
    IF c.type = "credits" \/ c.pii \in Hidden \/ c.status \notin Approved
    THEN ~c.search /\ ~c.answer
    ELSE c.search /\ (c.status = "search_approved" => ~c.answer)

(* Chunk.has_valid_local_references_and_eligibility                        *)
LegalChunk(k) ==
    /\ k.pii \in Hidden => ~k.search
    /\ k.answer => k.search

(* Both builders refuse a chunk that disagrees with its case.              *)
ChunkOfCase(k, c) ==
    /\ <<k.pii, k.search, k.answer>> = <<c.pii, c.search, c.answer>>
    /\ \A i \in k.spans : i \in 1 .. Len(c.pages)

CaseOfDoc(c, store) ==
    /\ c.doc \in DOMAIN store.docs
    /\ c.source = store.docs[c.doc].method
    /\ \A i \in DOMAIN c.pages : c.pages[i] <= store.docs[c.doc].pages

Indexable(c, k) == c.search /\ k.search /\ c.status \in Approved /\ c.pii \notin Hidden

(* QueryFilters: what is not listed is not filtered.                       *)
Selected(f, level, year, domain, type) ==
    /\ f.access = "public" => level = "public"
    /\ f.years = {} \/ year \in f.years
    /\ f.domains = {} \/ domain \in f.domains
    /\ f.types = {} \/ type \in f.types

-----------------------------------------------------------------------------
(* lexical.py: the records of the index; exact tokens of a record are      *)
(* those of the case id, of the approved laws of the case and of the text. *)
LawsOf(store, id) == {l \in DOMAIN store.laws : store.laws[l].case = id}

Consistent(store) ==
    /\ \A id \in DOMAIN store.cases :
         /\ CaseOfDoc(store.cases[id], store)
         /\ store.cases[id].laws = LawsOf(store, id)
    /\ \A l \in DOMAIN store.laws : store.laws[l].case \in DOMAIN store.cases
    /\ \A k \in DOMAIN store.chunks :
         /\ store.chunks[k].case \in DOMAIN store.cases
         /\ ChunkOfCase(store.chunks[k], store.cases[store.chunks[k].case])

IndexRecord(store, k) ==
    LET chunk == store.chunks[k]
        c     == store.cases[chunk.case]
        doc   == store.docs[c.doc]
    IN  [chunk |-> k, case |-> chunk.case, year |-> doc.year, domain |-> c.domain, type |-> c.type,
         level |-> doc.level, status |-> c.status, answer |-> chunk.answer, pii |-> c.pii,
         tokens |-> {chunk.case} \cup chunk.tokens
                      \cup {store.laws[l].name : l \in {x \in LawsOf(store, chunk.case) :
                                                         store.laws[x].status \in Approved}}]

(* A builder that indexes every chunk.                                     *)
IndexedChunksAll(store) == DOMAIN store.chunks

IndexedChunks(store) ==
    {k \in DOMAIN store.chunks : Indexable(store.cases[store.chunks[k].case], store.chunks[k])}

BuildLexical(store, config) ==
    IF ~Consistent(store) THEN NoIndex
    ELSE [failed |-> FALSE, config |-> config, release |-> store.release,
          records |-> {IndexRecord(store, k) : k \in IndexedChunks(store)}]

(* LexicalIndex.search: the index must be of the reader's configuration;   *)
(* its release is not compared with anything.                              *)
LexicalSearch(index, config, order, exact, f) ==
    LET eligible == {r \in index.records : r.status \in Approved
                                             /\ Selected(f, r.level, r.year, r.domain, r.type)}
        found    == SelectSeq(order, LAMBDA k : k \in {r.chunk : r \in eligible})
        hit(k)   == LET r == CHOOSE x \in eligible : x.chunk = k
                    IN  [chunk |-> k, case |-> r.case, terms |-> exact \cap r.tokens]
    IN  IF index.failed \/ index.config # config THEN [ok |-> FALSE, hits |-> <<>>]
        ELSE [ok |-> TRUE, hits |-> [i \in 1 .. (IF Len(found) < Limit THEN Len(found) ELSE Limit)
                                       |-> hit(found[i])]]

-----------------------------------------------------------------------------
(* dense.py: _load_dense_records joins chunk, case and document, and the   *)
(* batches of build_dense_candidate go through the same gate.              *)
BuildPoints(store, release, encoder) ==
    IF DOMAIN store.chunks = {} \/ IndexedChunks(store) = {}
         \/ \E k \in DOMAIN store.chunks :
              LET chunk == store.chunks[k]
              IN  \/ chunk.case \notin DOMAIN store.cases
                  \/ store.cases[chunk.case].doc \notin DOMAIN store.docs
                  \/ ~ChunkOfCase(chunk, store.cases[chunk.case])
                  \/ ~CaseOfDoc([store.cases[chunk.case] EXCEPT !.pages =
                                   [i \in chunk.spans |-> store.cases[chunk.case].pages[i]]], store)
    THEN NoIndex
    ELSE [failed |-> FALSE,
          points |-> {[payload |-> IndexRecord(store, k), release |-> release, encoder |-> encoder] :
                         k \in IndexedChunks(store)}]

(* The filter is applied by Qdrant and checked again on every point that   *)
(* comes back; one point of another release or encoder fails the search.   *)
DenseSearch(index, release, encoder, order, f) ==
    LET passes(p) == /\ p.payload.status \in Approved /\ p.payload.pii \notin Hidden
                     /\ Selected(f, p.payload.level, p.payload.year, p.payload.domain, p.payload.type)
        eligible  == {p \in index.points : passes(p)}
        found     == SelectSeq(order, LAMBDA k : k \in {p.payload.chunk : p \in eligible})
        point(k)  == CHOOSE p \in eligible : p.payload.chunk = k
        top       == [i \in 1 .. (IF Len(found) < Limit THEN Len(found) ELSE Limit) |-> point(found[i])]
    IN  IF index.failed \/ \E i \in DOMAIN top : top[i].release # release \/ top[i].encoder # encoder
        THEN [ok |-> FALSE, hits |-> <<>>]
        ELSE [ok |-> TRUE, hits |-> [i \in DOMAIN top |-> [chunk |-> top[i].payload.chunk,
                                                           case  |-> top[i].payload.case]]]

-----------------------------------------------------------------------------
(* fusion.py: a case counts once for each index, at the rank of its best   *)
(* chunk there; the exact tokens its best lexical chunk holds are added.   *)
Kinds == {"case_id", "law", "article", "number", "word"}

TermBoost(t) ==
    (Unit \div 1000) * [case_id |-> 50, law |-> 40, article |-> 30, number |-> 25, word |-> 0][t.kind]

Threshold(exact) ==
    (Unit \div 1000) * (IF \E t \in exact : t.kind = "case_id" THEN 15
                        ELSE IF \E t \in exact : t.kind \in {"law", "article"} THEN 20
                        ELSE IF \E t \in exact : t.kind = "number" THEN 22 ELSE 25)

BestRank(hits, id) ==
    LET ranks == {i \in DOMAIN hits : hits[i].case = id}
    IN  IF ranks = {} THEN 0 ELSE CHOOSE i \in ranks : \A j \in ranks : i <= j

RankScore(rank) == IF rank = 0 THEN 0 ELSE Unit \div (60 + rank)

(* A fusion that counts every chunk of a case.                             *)
FusedByChunk(lex, dense, id) ==
    LET of(hits) == {i \in DOMAIN hits : hits[i].case = id}
        rrf   == Total(of(lex), RankScore) + Total(of(dense), RankScore)
        terms == UNION {lex[i].terms : i \in of(lex)}
    IN  [case |-> id, rrf |-> rrf, terms |-> terms, score |-> rrf + Total(terms, TermBoost),
         lexRank |-> BestRank(lex, id), denseRank |-> BestRank(dense, id),
         chunks |-> {lex[i].chunk : i \in of(lex)} \cup {dense[i].chunk : i \in of(dense)}]

Fused(lex, dense, id) ==
    LET l == BestRank(lex, id)
        d == BestRank(dense, id)
        terms == IF l = 0 THEN {} ELSE lex[l].terms
        rrf   == RankScore(l) + RankScore(d)
    IN  [case |-> id, rrf |-> rrf, terms |-> terms, score |-> rrf + Total(terms, TermBoost),
         lexRank |-> l, denseRank |-> d,
         chunks |-> (IF l = 0 THEN {} ELSE {lex[l].chunk}) \cup (IF d = 0 THEN {} ELSE {dense[d].chunk})]

Ranking(hits, before(_, _)) ==
    CHOOSE s \in [1 .. Cardinality(hits) -> hits] :
       \A i \in 2 .. Cardinality(hits) : before(s[i - 1], s[i])

ReciprocalRankFusion(lex, dense, limit) ==
    LET hits   == {Fused(lex, dense, id) : id \in {lex[i].case : i \in DOMAIN lex}
                                                     \cup {dense[i].case : i \in DOMAIN dense}}
        ranked == Ranking(hits, LAMBDA a, b : \/ a.score > b.score
                                              \/ a.score = b.score /\ a.case.id < b.case.id)
    IN  [i \in 1 .. (IF Len(ranked) < limit THEN Len(ranked) ELSE limit) |-> ranked[i]]

-----------------------------------------------------------------------------
(* CanonicalSearchRepository.load: every relation of a selected case must  *)
(* be approved, and there is a limit to all of them; one whose other end   *)
(* may not be shown is left out.                                           *)
Other(r, id) == IF r.source = id THEN r.target ELSE r.source

Shown(store, f, id) ==
    LET c == store.cases[id]
    IN  /\ c.search /\ c.status \in Approved /\ c.pii \notin Hidden
        /\ f.access = "public" => store.docs[c.doc].level = "public"

RelationsOf(store, id) == {r \in store.relations : id \in {r.source, r.target}}

Loadable(store, hit) ==
    /\ hit.case \in DOMAIN store.cases
    /\ store.cases[hit.case].doc \in DOMAIN store.docs
    /\ \A k \in hit.chunks : k \in DOMAIN store.chunks /\ store.chunks[k].case = hit.case
    /\ Cardinality(RelationsOf(store, hit.case)) <= MaxRelations
    /\ \A r \in RelationsOf(store, hit.case) :
         /\ r.status = "approved"
         /\ Other(r, hit.case) \in DOMAIN store.cases
         /\ store.cases[Other(r, hit.case)].doc \in DOMAIN store.docs

(* A repository that forgets to look at the other end of a relation.       *)
LoadEveryRelation(store, f, hit) ==
    [case |-> store.cases[hit.case], doc |-> store.docs[store.cases[hit.case].doc],
     chunks |-> {[id |-> k, chunk |-> store.chunks[k]] : k \in hit.chunks},
     relations |-> RelationsOf(store, hit.case)]

Load(store, f, hit) ==
    [case |-> store.cases[hit.case], doc |-> store.docs[store.cases[hit.case].doc],
     chunks |-> {[id |-> k, chunk |-> store.chunks[k]] : k \in hit.chunks},
     relations |-> {r \in RelationsOf(store, hit.case) : Shown(store, f, Other(r, hit.case))}]

(* _revalidate_parent                                                      *)
Acceptable(parent, hit, f) ==
    LET c == parent.case
    IN  /\ LegalCase(c) /\ \A k \in parent.chunks : LegalChunk(k.chunk)
        /\ c.source = parent.doc.method
        /\ c.search /\ c.status \in Approved /\ c.pii \notin Hidden
        /\ Selected(f, parent.doc.level, parent.doc.year, c.domain, c.type)
        /\ \A i \in DOMAIN c.pages : c.pages[i] <= parent.doc.pages
        /\ \A k \in parent.chunks :
             k.chunk.search /\ k.chunk.case = hit.case /\ ChunkOfCase(k.chunk, c)
                            /\ \A i \in DOMAIN k.chunk.flags :
                                  k.chunk.flags[i] = "below-target-token-range"
        /\ Total(parent.chunks, LAMBDA k : Cardinality(k.chunk.spans)) <= MaxSpans
        /\ Total(parent.chunks, LAMBDA k : Len(k.chunk.flags)) <= MaxFlags

(* _result_from_parent, _relation_ids                                      *)
Ends(parent, hit, types) ==
    {Other(r, hit.case) : r \in {x \in parent.relations : x.type \in types}}

Result(parent, hit) ==
    LET roles == {k.chunk.role : k \in parent.chunks}
        spans == UNION {{<<k.id, i>> : i \in k.chunk.spans} : k \in parent.chunks}
    IN  [case |-> hit.case, status |-> parent.case.status, answer |-> parent.case.answer,
         score |-> hit.score, rrf |-> hit.rrf, terms |-> hit.terms, spans |-> spans,
         context |-> /\ parent.case.status = "approved" /\ parent.case.answer
                     /\ roles \cap {"answer", "basis", "facts", "table"} # {} /\ spans # {},
         related |-> Ends(parent, hit, {"related", "duplicate"}),
         conflicts |-> Ends(parent, hit, {"conflicts"}),
         supersedes |-> {r.target : r \in {x \in parent.relations :
                                             x.type = "supersedes" /\ x.source = hit.case}},
         supersededBy |-> {r.source : r \in {x \in parent.relations :
                                               x.type = "supersedes" /\ x.target = hit.case}}]

(* SearchService.search: any failure of an index or of the evidence of any *)
(* hit fails the search.                                                   *)
Reasons(results, exact) ==
    IF results = <<>> THEN {"no-results"}
    ELSE {r \in {"low-fusion-score"} : results[1].rrf < Threshold(exact)}
           \cup {r \in {"missing-evidence"} : \A i \in DOMAIN results : results[i].spans = {}}
           \cup {r \in {"no-approved-answer"} : \A i \in DOMAIN results : ~results[i].context}

SearchFailed == [ok |-> FALSE, results |-> <<>>, reasons |-> {}]

Listed(lexical, dense, q) ==
    ReciprocalRankFusion(LexicalSearch(lexical, q.config, q.lexOrder, q.exact, q.filters).hits,
                         DenseSearch(dense, q.release, q.encoder, q.denseOrder, q.filters).hits,
                         q.limit)

Search(store, lexical, dense, q) ==
    LET lex  == LexicalSearch(lexical, q.config, q.lexOrder, q.exact, q.filters)
        near == DenseSearch(dense, q.release, q.encoder, q.denseOrder, q.filters)
        hits == Listed(lexical, dense, q)
        parent(i) == Load(store, q.filters, hits[i])
        results == [i \in DOMAIN hits |-> Result(parent(i), hits[i])]
    IN  IF ~lex.ok \/ ~near.ok THEN SearchFailed
        ELSE IF hits # <<>> /\ store.release # q.release THEN SearchFailed
        ELSE IF \E i \in DOMAIN hits : ~Loadable(store, hits[i]) THEN SearchFailed
        ELSE IF \E i \in DOMAIN hits : ~Acceptable(parent(i), hits[i], q.filters) THEN SearchFailed
        ELSE [ok |-> TRUE, results |-> results, reasons |-> Reasons(results, q.exact)]

SelectAnswerContext(response, limit) ==
    LET chosen == SelectSeq(response.results, LAMBDA r : r.context /\ r.answer
                                                           /\ r.status = "approved" /\ r.spans # {})
    IN  SubSeq(chosen, 1, IF Len(chosen) < limit THEN Len(chosen) ELSE limit)

-----------------------------------------------------------------------------
(* Whatever the indexes hold, and they may have been built from another    *)
(* content of the store, a search that succeeds names only cases that may  *)
(* be shown now, as results and at the other end of a relation.            *)
Named(r) == {r.case} \cup r.related \cup r.conflicts \cup r.supersedes \cup r.supersededBy

AnswersAreGrounded(store, lexical, dense, q) ==
    LET response == Search(store, lexical, dense, q)
    IN  \A i \in DOMAIN response.results : \A id \in Named(response.results[i]) :
          id \in DOMAIN store.cases /\ Shown(store, q.filters, id)

(* The context of an answer holds approved answers only.                   *)
ContextIsApproved(store, lexical, dense, q) ==
    LET context == SelectAnswerContext(Search(store, lexical, dense, q), 5)
    IN  \A i \in DOMAIN context : store.cases[context[i].case].status = "approved"
                                    /\ store.cases[context[i].case].answer

(* What the chunks of a hit hold in the store, and the relations of its    *)
(* case, shown or not, are within the limits.                              *)
WithinLimits(store, hit) ==
    /\ Cardinality(RelationsOf(store, hit.case)) <= MaxRelations
    /\ Total(hit.chunks, LAMBDA k : Cardinality(store.chunks[k].spans)) <= MaxSpans
    /\ Total(hit.chunks, LAMBDA k : Len(store.chunks[k].flags)) <= MaxFlags

(* With indexes built from the store they are searched with, and relations *)
(* that are all approved, a search fails just when it lists a case beyond  *)
(* the limits: nothing else fails it, and such a case fails no search      *)
(* that does not list it.                                                  *)
FreshIndexesAnswer(store, q) ==
    (/\ store.release = q.release
     /\ \A r \in store.relations : r.status = "approved"
     /\ \A k \in DOMAIN store.chunks : \A i \in DOMAIN store.chunks[k].flags :
           store.chunks[k].flags[i] = "below-target-token-range")
      => LET lexical == BuildLexical(store, q.config)
             dense   == BuildPoints(store, q.release, q.encoder)
             hits    == Listed(lexical, dense, q)
         IN  ~lexical.failed /\ ~dense.failed =>
               (Search(store, lexical, dense, q).ok
                  <=> \A i \in DOMAIN hits : WithinLimits(store, hits[i]))

(* A case that both indexes rank at least as high as another, with no      *)
(* fewer exact terms, is never listed below it, however many chunks the    *)
(* other one has.                                                          *)
FusionIsMonotone(lex, dense) ==
    LET fused     == ReciprocalRankFusion(lex, dense, 8)
        better(a, b) == b = 0 \/ (a # 0 /\ a < b)
    IN  \A i, j \in DOMAIN fused :
          (/\ fused[j].terms \subseteq fused[i].terms
           /\ better(fused[i].lexRank, fused[j].lexRank)
           /\ better(fused[i].denseRank, fused[j].denseRank)) => i < j

=============================================================================
