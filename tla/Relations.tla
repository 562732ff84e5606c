------------------------------ MODULE Relations ------------------------------
(* Citations of laws and relations between cases                           *)
(* (src/corpus/relations.py): what is read from a case, what a reviewer    *)
(* approves, and when either is accepted again.  A digest is the value it  *)
(* digests.  Text is a sequence of printed parts [kind, value] where kind  *)
(* is "name" of a law, "article", "paragraph", "item", "abbreviation",     *)
(* "date" or "word".  A case is [id, currency, basis, spans, note]: spans  *)
(* are raw texts, basis is normalised text, note stands for the rest.      *)
EXTENDS Integers, Sequences, SequencesExt

Symmetric == {"related", "duplicate", "conflicts"}
NoPart == -1
NoDate == 0          \* a printed date that is no date of the calendar
Rejected == [rejected |-> TRUE]

\* Mutant of CanonicalCase: the digest leaves out a part of the case.
CanonicalCaseInPart(case) == [case EXCEPT !.note = 0]

CanonicalCase(case) == case

-----------------------------------------------------------------------------
(* Citations.                                                              *)

First(text, kind) ==
    LET at == {i \in DOMAIN text : text[i].kind = kind}
    IN  IF at = {} THEN NoPart ELSE text[CHOOSE i \in at : \A j \in at : i <= j].value

Names(text) == SelectSeq([i \in DOMAIN text |-> i], LAMBDA i : text[i].kind = "name")

Suffix(text, n) ==
    LET names == Names(text)
    IN  SubSeq(text, names[n] + 1, IF n < Len(names) THEN names[n + 1] - 1 ELSE Len(text))

Citation(text, n) ==
    [name |-> text[Names(text)[n]].value,
     parts |-> [k \in {"abbreviation", "article", "paragraph", "item", "date"} |->
                  First(Suffix(text, n), k)]]

PrintedCitations(text) == [n \in DOMAIN Names(text) |-> Citation(text, n)]

DatesAreReal(text) == \A n \in DOMAIN Names(text) : First(Suffix(text, n), "date") # NoDate

LawRefId(case, span, ordinal) == <<case.id, span, case.spans[span], ordinal>>

LawRef(case, span, ordinal) ==
    [id |-> LawRefId(case, span, ordinal), case |-> case.id, quote |-> case.spans[span],
     span |-> case.spans[span], citation |-> PrintedCitations(case.spans[span])[ordinal],
     currency |-> case.currency]

VerifiedLawRef(ref, span, ordinal, content) ==
    [ref |-> ref, span |-> span, ordinal |-> ordinal, content |-> content,
     binding |-> <<ref, span, ordinal, content>>]

LegalSources(case, sources) ==
    /\ FlattenSeq([i \in DOMAIN sources |-> sources[i].text]) = case.basis
    /\ \A i \in DOMAIN sources :
         LET s == sources[i]
         IN  /\ s.text # <<>> /\ s.raw # <<>>
             /\ s.span \in DOMAIN case.spans /\ s.raw = case.spans[s.span]
             /\ DatesAreReal(s.text) /\ DatesAreReal(s.raw)
             /\ PrintedCitations(s.text) = PrintedCitations(s.raw)

(* The places of citations: of a source, and of a citation in it.          *)
Places(sources) == UNION {{i} \X DOMAIN PrintedCitations(sources[i].raw) : i \in DOMAIN sources}

(* What is read from legal sources, by place; others are refused.          *)
ExtractLawRefs(case, sources) ==
    [p \in Places(sources) |->
       LET span == sources[p[1]].span
       IN  VerifiedLawRef(LawRef(case, span, p[2]), span, p[2], CanonicalCase(case))]

AcceptsLawRef(value, case) ==
    /\ value.span \in DOMAIN case.spans
    /\ value.ref.case = case.id /\ value.ref.span = case.spans[value.span]
    /\ DatesAreReal(value.ref.quote)
    /\ value.ordinal \in DOMAIN PrintedCitations(value.ref.quote)
    /\ value.ref.quote = value.ref.span
    /\ value.ref.id = <<case.id, value.span, value.ref.span, value.ordinal>>
    /\ value.ref.citation = PrintedCitations(value.ref.quote)[value.ordinal]
    /\ value.ref.currency = case.currency
    /\ value.content = CanonicalCase(case)
    /\ value.binding = <<value.ref, value.span, value.ordinal, CanonicalCase(case)>>

-----------------------------------------------------------------------------
(* Relations: proposed, approved by a reviewer, made canonical.            *)

RelationFields == {"type", "source", "target", "confidence", "evidence", "sourceContent", "targetContent"}

RelationId(fields) == [f \in RelationFields |-> fields[f]]

Candidate(type, source, target, sourceContent, targetContent, confidence, evidence) ==
    LET fields == [type |-> type, source |-> source, target |-> target, confidence |-> confidence,
                   evidence |-> evidence, sourceContent |-> sourceContent, targetContent |-> targetContent]
    IN  [id |-> RelationId(fields), fields |-> fields]

(* The cases of a symmetric relation are put in order, their digests not.  *)
ProposeKeepsDigests(source, target, type, confidence, evidence) ==
    LET turned == type \in Symmetric /\ source.id > target.id
        first  == IF turned THEN target ELSE source
        second == IF turned THEN source ELSE target
    IN  IF source.id = target.id THEN Rejected
        ELSE Candidate(type, first.id, second.id, CanonicalCase(source), CanonicalCase(target),
                       confidence, evidence)

ProposeRelation(source, target, type, confidence, evidence) ==
    LET turned == type \in Symmetric /\ source.id > target.id
        first  == IF turned THEN target ELSE source
        second == IF turned THEN source ELSE target
    IN  IF source.id = target.id THEN Rejected
        ELSE Candidate(type, first.id, second.id, CanonicalCase(first), CanonicalCase(second),
                       confidence, evidence)

LegalCandidate(c) ==
    c # Rejected /\ c.fields.source # c.fields.target /\ c.id = RelationId(c.fields)

RelationApproval(candidate, evidence, reviewer) ==
    IF LegalCandidate(candidate) /\ evidence = candidate.fields.evidence
    THEN [id |-> candidate.id, fields |-> candidate.fields, reviewer |-> reviewer]
    ELSE Rejected

LegalApproval(a) == a # Rejected /\ a.fields.source # a.fields.target /\ a.id = RelationId(a.fields)

CaseRelation(fields) ==
    [id |-> RelationId(fields), source |-> fields.source, target |-> fields.target, type |-> fields.type,
     confidence |-> fields.confidence, status |-> "approved"]

VerifiedRelation(relation, approval, digest) ==
    [relation |-> relation, approval |-> approval, digest |-> digest,
     sourceContent |-> approval.fields.sourceContent, targetContent |-> approval.fields.targetContent,
     binding |-> <<relation, digest, approval>>]

CanonicalizeRelation(candidate, approval, pinned) ==
    IF /\ LegalCandidate(candidate) /\ LegalApproval(approval)
       /\ approval = pinned
       /\ candidate.id = approval.id /\ candidate.fields = approval.fields
    THEN VerifiedRelation(CaseRelation(candidate.fields), approval, pinned)
    ELSE Rejected

AcceptsRelation(value, one, other, pinned) ==
    LET r == value.relation
        a == value.approval
        named(id) == IF one.id = id THEN one ELSE other
    IN  /\ LegalApproval(a) /\ value.digest = a /\ a = pinned
        /\ r = CaseRelation(a.fields)
        /\ one.id # other.id /\ {one.id, other.id} = {r.source, r.target}
        /\ value.sourceContent = CanonicalCase(named(r.source))
        /\ value.targetContent = CanonicalCase(named(r.target))
        /\ a.fields.sourceContent = value.sourceContent
        /\ a.fields.targetContent = value.targetContent
        /\ value.binding = <<r, value.digest, a>>

-----------------------------------------------------------------------------
(* What is read from a case is accepted with that case and with no other   *)
(* state of it, has an identity of its own when its span was given once,   *)
(* and a reference put together from two of them is accepted only if it is *)
(* the one that would have been read.                                      *)
CitationsBind(case, changed, sources) ==
    LET refs == ExtractLawRefs(case, sources)
        once == \A i, j \in DOMAIN sources : sources[i].span = sources[j].span => i = j
    IN  LegalSources(case, sources) =>
          /\ \A i \in DOMAIN refs :
               /\ AcceptsLawRef(refs[i], case)
               /\ changed # case => ~AcceptsLawRef(refs[i], changed)
          /\ once => \A i, j \in DOMAIN refs : refs[i].ref.id = refs[j].ref.id => i = j
          /\ \A i, j \in DOMAIN refs :
               LET mixed == VerifiedLawRef([refs[i].ref EXCEPT !.citation = refs[j].ref.citation],
                                           refs[i].span, refs[i].ordinal, CanonicalCase(case))
               IN  AcceptsLawRef(mixed, case) => mixed = refs[i]

(* A symmetric relation is one relation whichever case names it; once      *)
(* approved it is accepted with both cases as the reviewer saw them, in    *)
(* either order, and never when one has changed; and no approval serves    *)
(* another proposal.                                                       *)
ApprovalsBind(a, b, changed, type, otherType) ==
    LET proposed == ProposeRelation(a, b, type, 1, "e")
        approval == RelationApproval(proposed, "e", "r")
        verified == CanonicalizeRelation(proposed, approval, approval)
        other    == ProposeRelation(b, a, otherType, 1, "e")
        current  == {a, b, changed}
    IN  /\ a.id = b.id <=> proposed = Rejected
        /\ proposed # Rejected =>
             /\ verified # Rejected
             /\ \A x, y \in current :
                  AcceptsRelation(verified, x, y, approval) <=> {x, y} = {a, b}
             /\ CanonicalizeRelation(other, approval, approval) # Rejected
                  <=> type = otherType /\ type \in Symmetric
=============================================================================
