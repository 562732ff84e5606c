-------------------------- MODULE RouteSelection --------------------------
(* How the travel map turns the routes its providers returned into the     *)
(* routes and the best choices it shows: identifiers made unique, provider *)
(* priorities, near-duplicates removed, ranking, and public transit routes *)
(* given the geometry of a matching Kakao route                            *)
(* (apps/travel-map/app/routing/orchestrator.py, ranking.py, models.py).   *)
(*                                                                         *)
(* A route is a record: id and mode; secs and metres; cost, NoCost when it *)
(* is UNKNOWN; source; ends, where its end points lie, in metres along a   *)
(* line; line, the strip of land its geometry covers: strips one apart     *)
(* overlap by 95 % or more.  Overlap is not transitive, in the code either.*)
EXTENDS Integers, Sequences, FiniteSets, SequencesExt, TLC

CONSTANTS
    Modes,        \* the travel modes in the order of the enumeration TravelMode
    Chain         \* the configured providers of each mode, in order

NoCost == -1

Geometry(source) == source \o "+KAKAO_GEOMETRY"   \* the source of a supplemented route

-----------------------------------------------------------------------------
(* Keys of min() and sorted(): tuples compared from the left.              *)
Before(a, b) ==
    \E i \in DOMAIN a : a[i] < b[i] /\ \A j \in 1 .. i - 1 : a[j] = b[j]

Least(S, Key(_)) == CHOOSE r \in S : \A s \in S : ~ Before(Key(s), Key(r))

WithinTwoPercent(a, b) == 100 * (Max({a, b}) - Min({a, b})) <= 2 * Max({a, b})

EndsMeet(r, s) == r.ends - s.ends \in -20 .. 20

Duplicates(r, s) ==
    /\ r.mode = s.mode
    /\ WithinTwoPercent(r.secs, s.secs)
    /\ WithinTwoPercent(r.metres, s.metres)
    /\ EndsMeet(r, s)
    /\ r.line - s.line \in -1 .. 1

-----------------------------------------------------------------------------
(* Priorities are a function of the sources; sources unknown to it get the *)
(* next numbers in the order of the routes.                                *)
Above(prio) == 1 + Max({-1} \cup {prio[s] : s \in DOMAIN prio})

CompletePriorities(routes, prio) ==
    FoldLeft(LAMBDA p, r : IF r.source \in DOMAIN p THEN p
                           ELSE p @@ (r.source :> Above(p)), prio, routes)

RankRoutes(routes, supplied) ==
    LET prio  == CompletePriorities(routes, supplied)
        all   == ToSet(routes)
        known == {r \in all : r.cost # NoCost}
        pick(S, Key(_)) == IF S = {} THEN 0 ELSE Least(S, Key).id
    IN  [fastest  |-> pick(all, LAMBDA r : <<r.secs, r.metres, prio[r.source], r.id>>),
         shortest |-> pick(all, LAMBDA r : <<r.metres, r.secs, prio[r.source], r.id>>),
         cheapest |-> pick(known, LAMBDA r : <<r.cost, r.secs, r.metres, prio[r.source], r.id>>)]

DeduplicateRoutes(routes, supplied) ==
    LET prio    == CompletePriorities(routes, supplied)
        ordered == SortSeq(routes, LAMBDA r, s :
                       Before(<<prio[r.source], r.id>>, <<prio[s.source], s.id>>))
    IN  FoldLeft(LAMBDA kept, r : IF \E k \in ToSet(kept) : Duplicates(r, k)
                                  THEN kept ELSE Append(kept, r), <<>>, ordered)

DropDuplicateIds(routes) ==
    FoldLeft(LAMBDA kept, r : IF \E k \in ToSet(kept) : k.id = r.id
                              THEN kept ELSE Append(kept, r), <<>>, routes)

(* A provider's position in the chains of the modes that were asked for,   *)
(* and for a supplemented route the position of its original source.       *)
ProviderPriorities(modes) ==
    LET chain == FlattenSeq([i \in DOMAIN modes |-> Chain[modes[i]]])
    IN  [s \in ToSet(chain) |-> SelectInSeq(chain, LAMBDA c : c = s) - 1]

SourcePriorities(modes, routes) ==
    FoldLeft(LAMBDA p, r :
        LET origin == {s \in DOMAIN p : r.source = Geometry(s)}
        IN  IF r.source \in DOMAIN p \/ ~ r.supplemented THEN p
            ELSE p @@ (r.source :> IF origin = {} THEN Above(p)
                                   ELSE p[CHOOSE s \in origin : TRUE]),
        ProviderPriorities(modes), routes)

(* The best routes chosen before the duplicates are dropped.               *)
BuildCollectionRankedFirst(modes, outcomes) ==
    LET all    == FlattenSeq(outcomes)
        unique == DropDuplicateIds(all)
        prio   == SourcePriorities(modes, unique)
    IN  [routes |-> DeduplicateRoutes(unique, prio), best |-> RankRoutes(unique, prio),
         dropped |-> Len(all) - Len(unique)]

BuildCollection(modes, outcomes) ==
    LET all    == FlattenSeq(outcomes)
        unique == DropDuplicateIds(all)
        prio   == SourcePriorities(modes, unique)
        routes == DeduplicateRoutes(unique, prio)
    IN  [routes |-> routes, best |-> RankRoutes(routes, prio),
         dropped |-> Len(all) - Len(unique)]

Ordered(asked) == SelectSeq(Modes, LAMBDA m : m \in asked)

(* collect() of several modes at once, and the service's way: one cached   *)
(* collection per mode, combined afterwards.                               *)
Collect(asked, found) ==
    BuildCollection(Ordered(asked), [i \in DOMAIN Ordered(asked) |-> found[Ordered(asked)[i]]])

CombineCollections(collections) ==
    LET modes == Ordered(DOMAIN collections)
    IN  BuildCollection(modes, [i \in DOMAIN modes |-> collections[modes[i]].routes])

-----------------------------------------------------------------------------
(* The contract of RouteCollection, checked by its constructor, which      *)
(* raises when it does not hold.                                           *)
LegalCollection(c) ==
    LET all    == ToSet(c.routes)
        route  == [id \in {r.id : r \in all} |-> CHOOSE r \in all : r.id = id]
        known  == {r \in all : r.cost # NoCost}
        lowest(id, S, Key(_)) ==
            IF S = {} THEN id = 0
            ELSE /\ id \in DOMAIN route /\ route[id] \in S
                 /\ \A s \in S : ~ Before(Key(s), Key(route[id]))
    IN  /\ Cardinality(DOMAIN route) = Len(c.routes)
        /\ lowest(c.best.fastest, all, LAMBDA r : <<r.secs, r.metres>>)
        /\ lowest(c.best.shortest, all, LAMBDA r : <<r.metres, r.secs>>)
        /\ lowest(c.best.cheapest, known, LAMBDA r : <<r.cost, r.secs, r.metres>>)

-----------------------------------------------------------------------------
(* Geometry of public routes.  edges[p] lists, in order, the Kakao routes  *)
(* (numbered from 1) that public route p may take its geometry from.       *)
GeometryCandidate(p, k) ==
    /\ p.mode = k.mode
    /\ WithinTwoPercent(p.secs, k.secs)
    /\ WithinTwoPercent(p.metres, k.metres)
    /\ EndsMeet(p, k)

CandidateEdges(public, kakao) ==
    [p \in DOMAIN public |-> SelectSeq([k \in DOMAIN kakao |-> k],
                                 LAMBDA k : GeometryCandidate(public[p], kakao[k]))]

(* Augmenting paths.  owner[c] is the public route candidate c is given to,*)
(* 0 for none; seen and owner are shared by the nested calls of augment.   *)
(* The result is the candidate of each public route, <<>> when there is no *)
(* perfect matching without the forbidden edge.                            *)
FindPerfectMatching(edges, count, forbidden) ==
    LET States == [public : DOMAIN edges, seen : SUBSET (1 .. count),
                   owner : [1 .. count -> 0 .. Len(edges)]]
        augment[a \in States] ==
            LET try(st, c) ==
                    IF st.found \/ c \in st.seen \/ forbidden = <<a.public, c>> THEN st
                    ELSE LET here == [st EXCEPT !.seen = @ \cup {c}]
                             deep == IF st.owner[c] = 0 THEN [here EXCEPT !.found = TRUE]
                                     ELSE augment[[public |-> st.owner[c], seen |-> here.seen,
                                                   owner |-> st.owner]]
                         IN  IF deep.found THEN [deep EXCEPT !.owner[c] = a.public] ELSE deep
            IN  FoldLeft(try, [seen |-> a.seen, owner |-> a.owner, found |-> FALSE], edges[a.public])
        step(st, p) == IF ~ st.found THEN st
                       ELSE augment[[public |-> p, seen |-> {}, owner |-> st.owner]]
        final == FoldLeft(step, [seen |-> {}, owner |-> [c \in 1 .. count |-> 0], found |-> TRUE],
                          [p \in DOMAIN edges |-> p])
    IN  IF ~ final.found THEN <<>>
        ELSE [p \in DOMAIN edges |-> CHOOSE c \in 1 .. count : final.owner[c] = p]

(* Any perfect matching will do.                                           *)
SupplementFirst(edges, count) ==
    LET found == FindPerfectMatching(edges, count, <<>>)
    IN  IF found = <<>> THEN [code |-> "NOT_FOUND", take |-> <<>>]
        ELSE [code |-> "SUPPLEMENTED", take |-> found]

(* The public routes with the geometry of their partners when the partners *)
(* are beyond doubt, else the Kakao routes as they are.                    *)
Supplement(edges, count) ==
    LET found == FindPerfectMatching(edges, count, <<>>)
    IN  IF \E p \in DOMAIN edges : edges[p] = <<>> THEN [code |-> "NOT_FOUND", take |-> <<>>]
        ELSE IF found = <<>> \/ \E p \in DOMAIN found :
                    FindPerfectMatching(edges, count, <<p, found[p]>>) # <<>>
             THEN [code |-> "AMBIGUOUS", take |-> <<>>]
             ELSE [code |-> "SUPPLEMENTED", take |-> found]

SupplementPublicGeometry(public, kakao) ==
    LET s == Supplement(CandidateEdges(public, kakao), Len(kakao))
    IN  IF s.code # "SUPPLEMENTED" THEN kakao
        ELSE [p \in DOMAIN public |->
                 [public[p] EXCEPT !.id = @ * 100 + kakao[s.take[p]].id,
                                   !.source = Geometry(@), !.supplemented = TRUE,
                                   !.ends = kakao[s.take[p]].ends,
                                   !.line = kakao[s.take[p]].line]]

-----------------------------------------------------------------------------
(* What the code must compute, said without its algorithm.                 *)
PerfectMatchings(edges, count) ==
    {m \in [DOMAIN edges -> 1 .. count] :
        IsInjective(m) /\ \A p \in DOMAIN edges : m[p] \in ToSet(edges[p])}

(* A public route is given a geometry exactly when one and only one perfect*)
(* matching exists, and then the geometries are those of that matching:    *)
(* _supplement_public_geometry never draws a route where another bus runs. *)
MatchingIsUnique(edges, count) ==
    LET s == Supplement(edges, count)
        all == PerfectMatchings(edges, count)
    IN  IF Cardinality(all) = 1 THEN s.code = "SUPPLEMENTED" /\ s.take \in all
        ELSE s.code # "SUPPLEMENTED"

(* Collecting the modes one by one, each behind its cache entry, and       *)
(* combining them shows what asking for all of them at once would have     *)
(* shown, and every collection built on the way satisfies the contract its *)
(* constructor enforces by raising.                                        *)
CombinedIsCollected(found) ==
    LET one(m) == Collect({m}, found)
        combined == CombineCollections([m \in ToSet(Modes) |-> one(m)])
        together == Collect(ToSet(Modes), found)
    IN  /\ \A m \in ToSet(Modes) : LegalCollection(one(m))
        /\ LegalCollection(combined) /\ LegalCollection(together)
        /\ combined.routes = together.routes
        /\ combined.best = together.best
=============================================================================
