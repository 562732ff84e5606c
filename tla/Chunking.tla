------------------------------ MODULE Chunking ------------------------------
(* The chunks of one case (src/corpus/chunking.py): which sources may back *)
(* them, how they are grouped and cut into windows, and when a sealed set  *)
(* of chunks is accepted again.  Text is a sequence of tokens, a digest is *)
(* the value it digests.  Spans and pages are counted from 1.  A case is   *)
(*   [id, type, search, status, answer, pii, prefix, pages, raw, fields]   *)
(* where prefix is the length of its embedding prefix, pages and raw give  *)
(* page and raw text of every span, and fields the text of each role.      *)
(* A source is [role, text, raw, span, header, headerRaw, headerSpan,      *)
(* evidence]; the last four are NoHeader's unless it is a row of a table.  *)
EXTENDS Integers, Sequences, FiniteSets, SequencesExt

CONSTANTS Limits,   \* role -> [min, max], tokens of a chunk (_ROLE_LIMITS)
          MaxSources

RoleOrder == <<"question", "answer", "basis", "facts", "table">>
TextRoles == {"question", "answer", "basis", "facts"}
NoHeader == [header |-> <<>>, headerRaw |-> <<>>, headerSpan |-> 0, evidence |-> "none"]
NoChunks == [failed |-> TRUE]

HeaderOf(s) == [header |-> s.header, headerRaw |-> s.headerRaw, headerSpan |-> s.headerSpan,
                evidence |-> s.evidence]

Within(part, whole) == \E i, j \in 1 .. Len(whole) : SubSeq(whole, i, j) = part

Joined(texts) == FlattenSeq(texts)
TextsOf(sources) == [i \in DOMAIN sources |-> sources[i].text]
OfRole(sources, role) == SelectSeq(sources, LAMBDA s : s.role = role)

-----------------------------------------------------------------------------
(* What may back a chunk.                                                  *)

LegalSource(s) ==
    /\ s.text # <<>> /\ s.raw # <<>> /\ s.span >= 1
    /\ IF s.role = "table"
       THEN s.header # <<>> /\ s.headerRaw # <<>> /\ s.headerSpan >= 1 /\ s.evidence # "none"
       ELSE HeaderOf(s) = NoHeader

SourceOfCase(case, s) ==
    /\ s.span <= Len(case.pages) /\ s.raw = case.raw[s.span]
    /\ s.role = "table" =>
         /\ s.headerSpan <= Len(case.pages)
         /\ case.pages[s.headerSpan] = case.pages[s.span]
         /\ s.headerRaw = case.raw[s.headerSpan]
         /\ Within(s.header, s.headerRaw) /\ Within(s.text, s.raw)

AggregateMatches(case, sources) ==
    \A role \in TextRoles : Joined(TextsOf(OfRole(sources, role))) = case.fields[role]

ApprovedRoleSources(case, sources) ==
    /\ Len(sources) \in 1 .. MaxSources
    /\ \A i \in DOMAIN sources : LegalSource(sources[i]) /\ SourceOfCase(case, sources[i])
    /\ IsInjective(sources)
    /\ AggregateMatches(case, sources)

RoleSourceManifest(case, sources) == [case |-> case, sources |-> sources]

(* The table a row was read from is pinned from outside, per span.         *)
TablesArePinned(sources, tables) ==
    LET rows == OfRole(sources, "table")
    IN  /\ DOMAIN tables = {rows[i].span : i \in DOMAIN rows}
        /\ \A i \in DOMAIN rows : rows[i].evidence = tables[rows[i].span]

-----------------------------------------------------------------------------
(* Groups of sources and windows of a long one.                            *)

Rounded(hundredths) == (hundredths + 50) \div 100
Overlap(capacity) == IF Rounded(12 * capacity) > 1 THEN Rounded(12 * capacity) ELSE 1

(* A window starts where the last one ended.                               *)
StepToEnd(capacity) == capacity

Step(capacity) == capacity - Overlap(capacity)

CanWindow(text, capacity) ==
    capacity >= 1 /\ (Len(text) > capacity => Step(capacity) >= 1)

ChunkTextWindows(text, capacity) ==
    LET step  == Step(capacity)
        count == IF Len(text) <= capacity THEN 1 ELSE 1 + (Len(text) - capacity + step - 1) \div step
    IN  [k \in 1 .. count |->
           SubSeq(text, (k - 1) * step + 1,
                  IF (k - 1) * step + capacity < Len(text) THEN (k - 1) * step + capacity ELSE Len(text))]

GroupText(group) == group[1].header \o Joined(TextsOf(group))

GroupSpans(group) ==
    UNION {{group[i].span} \cup (IF group[i].role = "table" THEN {group[i].headerSpan} ELSE {}) :
             i \in DOMAIN group}

(* Sources of one role are put together wherever they stand.               *)
GroupAnyPage(case, first, s) == first.role = s.role /\ HeaderOf(first) = HeaderOf(s)

SourcesCanGroup(case, first, s) ==
    /\ first.role = s.role
    /\ case.pages[first.span] = case.pages[s.span]
    /\ HeaderOf(first) = HeaderOf(s)

Groups(case, sources) ==
    LET joins(group, s) ==
            /\ SourcesCanGroup(case, group[1], s)
            /\ case.prefix + Len(GroupText(Append(group, s))) <= Limits[s.role].max
    IN  FoldLeft(LAMBDA groups, s :
                   IF groups # <<>> /\ joins(Last(groups), s)
                   THEN Append(Front(groups), Append(Last(groups), s))
                   ELSE Append(groups, <<s>>),
                 <<>>, sources)

Capacity(case, group) == Limits[group[1].role].max - case.prefix

GroupedChunkUnits(case, group) ==
    LET texts == IF Len(group) = 1 THEN ChunkTextWindows(GroupText(group), Capacity(case, group))
                                   ELSE <<GroupText(group)>>
    IN  [k \in DOMAIN texts |->
           [role |-> group[1].role, text |-> texts[k], spans |-> GroupSpans(group), first |-> k = 1]]

-----------------------------------------------------------------------------
(* The build.  A tokenizer may need "cut" tokens more for a text that      *)
(* begins inside a word than it counted for that text in its place.        *)

Eligible(case) == case.search /\ case.status \in {"search_approved", "approved"} /\ case.pii = "none"

RequiredRoles(case) == IF case.type = "audit" THEN {"facts", "answer"} ELSE {"question", "answer"}

Flags(role, count) == IF count < Limits[role].min THEN {"below-target-token-range"} ELSE {}

ChunkOf(case, units, i, cut) ==
    LET role  == units[i].role
        nth   == Cardinality({j \in 1 .. i : units[j].role = role})
        count == case.prefix + Len(units[i].text) + (IF units[i].first THEN 0 ELSE cut)
    IN  [id |-> <<case.id, role, nth>>, case |-> case.id, role |-> role, sequence |-> nth,
         text |-> units[i].text, spans |-> units[i].spans, count |-> count,
         flags |-> Flags(role, count), pii |-> case.pii, search |-> case.search, answer |-> case.answer]

BuildChunks(case, verified, cut, contract, expected, tables) ==
    LET sources == verified.sources
        groups  == Groups(case, FlattenSeq([r \in DOMAIN RoleOrder |-> OfRole(sources, RoleOrder[r])]))
        units   == FlattenSeq([i \in DOMAIN groups |-> GroupedChunkUnits(case, groups[i])])
        chunks  == [i \in DOMAIN units |-> ChunkOf(case, units, i, cut)]
    IN  IF /\ Eligible(case) /\ contract.tokenizer = contract.locked
           /\ ApprovedRoleSources(case, sources)
           /\ RoleSourceManifest(case, sources) = verified.fingerprint
           /\ verified.fingerprint = expected /\ verified.case = case
           /\ TablesArePinned(sources, tables)
           /\ \A i \in DOMAIN groups : Len(groups[i]) = 1 => CanWindow(GroupText(groups[i]), Capacity(case, groups[i]))
           /\ \A i \in DOMAIN chunks : chunks[i].count <= Limits[chunks[i].role].max
           /\ RequiredRoles(case) \subseteq {chunks[i].role : i \in DOMAIN chunks}
        THEN [chunks |-> chunks, case |-> case, role |-> expected, tables |-> tables, contract |-> contract]
        ELSE NoChunks

(* What storage asks again of a sealed set before it writes it.            *)
RevalidateVerifiedChunkSet(set, case, contract, expected, binding, tables) ==
    LET chunks == set.chunks
    IN  /\ chunks # <<>>
        /\ <<set.case, set.role, set.tables, set.contract>> = <<case, expected, tables, contract>>
        /\ set = binding
        /\ \A i \in DOMAIN chunks :
             LET c == chunks[i]
             IN  /\ c.sequence = 1 + Cardinality({j \in 1 .. i - 1 : chunks[j].role = c.role})
                 /\ c.id = <<case.id, c.role, c.sequence>>
                 /\ <<c.case, c.pii, c.search, c.answer>> = <<case.id, case.pii, case.search, case.answer>>
                 /\ c.count <= Limits[c.role].max /\ c.flags = Flags(c.role, c.count)
                 /\ c.spans \subseteq DOMAIN case.pages
                 /\ Cardinality({case.pages[s] : s \in c.spans}) = 1
        /\ RequiredRoles(case) \subseteq {chunks[i].role : i \in DOMAIN chunks}

-----------------------------------------------------------------------------
(* Texts laid over one another where they repeat; tokens are distinct.     *)
Overlaid(texts) ==
    FoldLeft(LAMBDA seen, t : IF \E i \in DOMAIN seen : seen[i] = t THEN seen ELSE Append(seen, t),
             <<>>, Joined(texts))

(* A set that was built is accepted again; the chunks of a role, laid over *)
(* one another, are the text of the case; neighbours out of one source     *)
(* repeat something; and no token is shown under a span on whose page it   *)
(* does not stand.                                                         *)
ChunksShowTheCase(case, sources, cut, tables) ==
    LET contract == [tokenizer |-> "t", locked |-> "t"]
        manifest == RoleSourceManifest(case, sources)
        set == BuildChunks(case, [sources |-> sources, fingerprint |-> manifest, case |-> case],
                           cut, contract, manifest, tables)
        chunks == set.chunks
        pages(t) == {case.pages[sources[i].span] : i \in {j \in DOMAIN sources :
                       \E k \in DOMAIN sources[j].text : sources[j].text[k] = t}}
    IN  set # NoChunks =>
          /\ RevalidateVerifiedChunkSet(set, case, contract, manifest, set, tables)
          /\ \A role \in TextRoles : Overlaid(TextsOf(OfRole(chunks, role))) = case.fields[role]
          /\ \A i \in DOMAIN sources :
               LET at == {j \in DOMAIN chunks : \E k \in DOMAIN sources[i].text, l \in DOMAIN chunks[j].text :
                                                  sources[i].text[k] = chunks[j].text[l]}
               IN  \A j \in at : j + 1 \in at =>
                     \E k \in DOMAIN chunks[j].text, l \in DOMAIN chunks[j + 1].text :
                        chunks[j].text[k] = chunks[j + 1].text[l]
          /\ \A j \in DOMAIN chunks : \A l \in DOMAIN chunks[j].text :
               pages(chunks[j].text[l]) \subseteq {case.pages[s] : s \in chunks[j].spans}
=============================================================================
