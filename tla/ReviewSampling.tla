--------------------------- MODULE ReviewSampling ---------------------------
(* Which cases of a review package are reviewed by sample                  *)
(* (src/ingestion/review_sampling.py): the inventory of layout segments,   *)
(* the plan of each segment, when sealed bytes of both are accepted again, *)
(* and the ledger of the reviews of one plan.  A candidate is              *)
(*   [id, content, year, source, pii, status, quarantined, doc, sha,       *)
(*    native, pages]                                                       *)
(* where native is a segment of the manifest or NoSegment and pages the    *)
(* provenances [layout, page, render] of a page read by OCR.  What the     *)
(* code sorts by name is a set here: the order carries no choice.  Only    *)
(* the selected members are in an order, that of their scores.  The code   *)
(* takes the ceiling of a product of floats, which for 70 members is 8 and *)
(* not 7; both sides compute it alike.                                     *)
EXTENDS Integers, FiniteSets, Sequences, SequencesExt

CONSTANTS Minimum,       \* members of a sample, at least (5)
          OneIn,         \* members of a segment for each of its sample (10)
          Score(_, _, _) \* a digest of inventory, segment and reference

NoSegment == [id |-> "none"]
Failed == [failed |-> TRUE]

AllFieldYears == {2023, 2024}
SampledYears == {2020, 2021, 2022, 2025}
Decided == {"rejected", "search_approved", "approved"}

Reference(c) == [id |-> c.id, content |-> c.content]

LegalCandidate(c) ==
    c.native # NoSegment => c.source = "native" /\ c.pages = {}

Eligible(c) ==
    ~c.quarantined /\ c.pii \notin {"public_credit", "restricted"} /\ c.status \notin Decided

ExclusionReason(c) ==
    CASE c.quarantined -> "quarantined"
      [] ~c.quarantined /\ c.pii \in {"restricted", "public_credit"} -> c.pii
      [] OTHER -> "terminal_review_state"

-----------------------------------------------------------------------------
(* The segments.                                                           *)

NativeLayout(c, manifest) ==
    [kind |-> "native", id |-> c.native.id, doc |-> c.doc, year |-> c.year, sha |-> c.sha,
     bounds |-> c.native.bounds, manifest |-> manifest]

OcrLayouts(c) == {p.layout : p \in c.pages}

InSegment(c) ==
    /\ c.year \in SampledYears
    /\ IF c.source = "native" THEN c.native # NoSegment ELSE c.year = 2025 /\ c.pages # {}

LayoutOf(c, manifest) ==
    IF c.source = "native" THEN NativeLayout(c, manifest) ELSE CHOOSE l \in OcrLayouts(c) : TRUE

PagesAgree(pages) == \A p, q \in pages : p.page = q.page => p = q

Blockers(candidates) ==
    IF \E c \in candidates : /\ c.year \in SampledYears /\ c.source = "native"
                             /\ c.native = NoSegment /\ Eligible(c)
    THEN {"native_layout_segment_authority_missing"} ELSE {}

SegmentPages(group) == UNION {c.pages : c \in group}

(* Every candidate of a segment is a member of it.                         *)
WholeGroup(group) == {Reference(c) : c \in group}

Members(group) == {Reference(c) : c \in {d \in group : Eligible(d)}}

Excluded(group) == {<<c.id, ExclusionReason(c)>> : c \in {d \in group : ~Eligible(d)}}

Segments(candidates, manifest) ==
    LET inside == {c \in candidates : InSegment(c)}
        segment(l) == LET group == {c \in inside : LayoutOf(c, manifest) = l}
                      IN  [layout |-> l, pages |-> SegmentPages(group),
                           members |-> Members(group), excluded |-> Excluded(group)]
    IN  {segment(l) : l \in {LayoutOf(c, manifest) : c \in inside}}

-----------------------------------------------------------------------------
(* The plans.                                                              *)

(* A sample whose tenth is rounded down.                                   *)
SampleSizeFloor(n) ==
    LET tenth == n \div OneIn
        size  == IF tenth > Minimum THEN tenth ELSE Minimum
    IN  IF n < size THEN n ELSE size

SampleSize(n) ==
    LET tenth == (n + OneIn - 1) \div OneIn
        size  == IF tenth > Minimum THEN tenth ELSE Minimum
    IN  IF n < size THEN n ELSE size

Selected(inventory, segment) ==
    LET before(a, b) ==
          LET s == Score(inventory.release, segment.layout.id, a)
              t == Score(inventory.release, segment.layout.id, b)
          IN  s < t \/ (s = t /\ a.id < b.id)
    IN  SubSeq(SetToSortSeq(segment.members, before), 1, SampleSize(Cardinality(segment.members)))

PlanOf(inventory, segment) ==
    [inventory |-> inventory, segment |-> segment.layout.id, members |-> segment.members,
     selected |-> Selected(inventory, segment)]

CanBuild(registry, candidates) ==
    /\ candidates # {}
    /\ \A c, d \in candidates : c.id = d.id => c = d
    /\ \A c \in candidates : LegalCandidate(c) /\ Reference(c) \in registry
    /\ \A c \in candidates :
         c.year \in SampledYears /\ c.source = "ocr" =>
           IF c.year # 2025 \/ c.pages = {} THEN ~Eligible(c) ELSE Cardinality(OcrLayouts(c)) = 1

BuildSamplingAuthority(release, registry, parser, raw, manifest, candidates) ==
    LET inventory ==
          [release |-> release, registry |-> registry, parser |-> parser, raw |-> raw,
           manifest |-> manifest, segments |-> Segments(candidates, manifest),
           allFields |-> {c.id : c \in {d \in candidates : d.year \in AllFieldYears /\ Eligible(d)}},
           blockers |-> Blockers(candidates)]
    IN  IF ~CanBuild(registry, candidates) \/ ~\A s \in Segments(candidates, manifest) : PagesAgree(s.pages)
        THEN Failed
        ELSE [inventory |-> inventory,
              plans |-> {PlanOf(inventory, s) : s \in {t \in inventory.segments : t.members # {}}}]

-----------------------------------------------------------------------------
(* Sealed bytes are read back.                                             *)

Ids(references) == {r.id : r \in references}
ExcludedIds(segment) == {e[1] : e \in segment.excluded}

SegmentAccepted(s, manifest) ==
    /\ \A q, r \in s.members : q.id = r.id => q = r
    /\ \A d, e \in s.excluded : d[1] = e[1] => d = e
    /\ Ids(s.members) \cap ExcludedIds(s) = {}
    /\ IF s.layout.kind = "native" THEN s.layout.manifest = manifest
       ELSE s.pages # {} /\ PagesAgree(s.pages)

InventoryAccepted(i) ==
    /\ \A s \in i.segments : SegmentAccepted(s, i.manifest)
    /\ \A s, t \in i.segments :
         s # t => /\ s.layout.id # t.layout.id
                  /\ Ids(s.members) \cap Ids(t.members) = {}
                  /\ ExcludedIds(s) \cap ExcludedIds(t) = {}
                  /\ Ids(s.members) \cap ExcludedIds(t) = {}
    /\ \A s \in i.segments : i.allFields \cap (Ids(s.members) \cup ExcludedIds(s)) = {}

PlanAccepted(plan, i) ==
    \E s \in i.segments : s.layout.id = plan.segment /\ plan = PlanOf(i, s)

AuthorityAccepted(a) ==
    /\ InventoryAccepted(a.inventory)
    /\ \A p \in a.plans : PlanAccepted(p, a.inventory)
    /\ {p.segment : p \in a.plans} = {s.layout.id : s \in {t \in a.inventory.segments : t.members # {}}}

LoadSamplingAuthority(bytes, expected) ==
    IF bytes = expected /\ bytes # Failed /\ AuthorityAccepted(bytes) THEN bytes ELSE Failed

-----------------------------------------------------------------------------
(* The ledger of one plan: reviews are recorded once each.                 *)

Record(plan, events, call) ==
    LET legal == /\ \E i \in DOMAIN plan.selected : plan.selected[i] = [id |-> call.id, content |-> call.content]
                 /\ \A i \in DOMAIN events : events[i].id # call.id
    IN  IF legal THEN Append(events, call) ELSE events

Recorded(plan, calls) == FoldLeft(LAMBDA events, call : Record(plan, events, call), <<>>, calls)

Escalated(events) == \E i \in DOMAIN events : events[i].outcome = "error"

SearchApprovalManifest(plan, events) ==
    IF /\ ~Escalated(events)
       /\ {events[i].id : i \in DOMAIN events} = {plan.selected[i].id : i \in DOMAIN plan.selected}
    THEN plan.members ELSE {}

CriticalFieldsEscalation(plan, events) == IF Escalated(events) THEN plan.members ELSE {}

-----------------------------------------------------------------------------
(* No case that must be reviewed is forgotten and none that must not be    *)
(* shown is sampled.                                                       *)
Placed(a, c) ==
    \/ a.inventory.blockers # {}
    \/ c.id \in a.inventory.allFields
    \/ \E s \in a.inventory.segments : Reference(c) \in s.members

EveryCaseIsPlaced(a, candidates) ==
    a # Failed =>
      \A c \in candidates :
        /\ Eligible(c) => Placed(a, c)
        /\ c.quarantined \/ c.pii = "restricted" =>
             \A p \in a.plans : Reference(c) \notin p.members

(* What was built is read back, and a sample that somebody chose is not.   *)
PlansAreRead(a) ==
    (a # Failed /\ \A s, t \in a.inventory.segments : s.layout.id = t.layout.id => s = t) =>
      /\ LoadSamplingAuthority(a, a) = a
      /\ \A p \in a.plans : \A i \in DOMAIN p.selected : \A m \in p.members :
           LET chosen == [p EXCEPT !.selected[i] = m]
           IN  chosen # p => ~PlanAccepted(chosen, a.inventory)

(* A segment is approved only by enough cases that passed and none that    *)
(* did not.                                                                *)
Speaks(plan, calls) ==
    LET events == Recorded(plan, calls)
        passed == {events[i].id : i \in {j \in DOMAIN events : events[j].outcome = "passed"}}
        n      == Cardinality(plan.members)
    IN  SearchApprovalManifest(plan, events) # {} =>
          /\ CriticalFieldsEscalation(plan, events) = {}
          /\ Cardinality(passed \cap Ids(plan.members)) >= (IF n < Minimum THEN n ELSE Minimum)
          /\ OneIn * Cardinality(passed \cap Ids(plan.members)) >= n
=============================================================================
