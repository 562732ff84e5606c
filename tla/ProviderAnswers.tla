-------------------------- MODULE ProviderAnswers --------------------------
(* What one call of a provider client of the travel map returns, as a      *)
(* function of the upstream responses its attempts meet: the bounded HTTP  *)
(* worker (apps/travel-map/app/providers/http.py) and what each client     *)
(* makes of a body (kakao_map.py, kakao_mobility.py, seoul_transit.py,     *)
(* opinet.py, kakao_local.py).                                             *)
(*                                                                         *)
(* A response is a record: status; type, whether the content type is       *)
(* accepted; declared, its Content-Length or -1; chunks, the pieces of the *)
(* body that arrive; cut, whether the connection fails after them; says,   *)
(* the document those pieces spell when nothing is missing or added.       *)
EXTENDS Integers, Sequences, FiniteSets, SequencesExt, TLC

CONSTANTS
    MaxAttempts,      \* attempts of one request
    MaxBytes,         \* bytes of one body; a chunk is one byte
    MaxRoutes,        \* routes of one answer
    MaxPoints         \* geometry points of one answer

Failure(code) == [code |-> code, value |-> <<>>]
Success(value) == [code |-> "OK", value |-> value]

-----------------------------------------------------------------------------
(* _request_worker.  st is what the loop has: the body so far, and result, *)
(* Pending while the loop goes on.                                         *)
Pending == Failure("PENDING")

(* A response the worker reads: headers, then the body chunk by chunk.     *)
Read(st, r, last) ==
    LET big  == {i \in DOMAIN r.chunks : Len(st.body) + i > MaxBytes}
        body == st.body \o r.chunks
    IN  IF ~ r.type THEN [st EXCEPT !.result = Failure("SCHEMA_MISMATCH")]
        ELSE IF r.declared > MaxBytes \/ big # {}
        THEN [st EXCEPT !.result = Failure("RESPONSE_TOO_LARGE")]
        ELSE IF ~ r.cut THEN [body |-> body, result |-> Success(body)]
        ELSE [body |-> body, result |-> IF last THEN Failure("UPSTREAM_ERROR") ELSE Pending]

Attempt(st, r, last) ==
    LET again(code) == [st EXCEPT !.result = IF last THEN Failure(code) ELSE Pending]
    IN  CASE r.status = "429"     -> again("UPSTREAM_RATE_LIMIT")
          [] r.status = "5xx"     -> again("UPSTREAM_UNAVAILABLE")
          [] r.status = "timeout" -> again("UPSTREAM_TIMEOUT")
          [] r.status = "error"   -> again("UPSTREAM_ERROR")
          [] r.status = "4xx"     -> [st EXCEPT !.result = Failure("UPSTREAM_REJECTED")]
          [] r.status = "200"     -> Read(st, r, last)

Start == [body |-> <<>>, result |-> Pending]

\* Mutant of RequestWorker: the body is not cleared between attempts.
RequestWorkerAppends(responses) ==
    FoldLeft(LAMBDA st, i : IF st.result # Pending THEN st
                            ELSE Attempt(st, responses[i], i = MaxAttempts),
             Start, [i \in 1 .. MaxAttempts |-> i]).result

RequestWorker(responses) ==
    FoldLeft(LAMBDA st, i : IF st.result # Pending THEN st
                            ELSE Attempt([st EXCEPT !.body = <<>>], responses[i], i = MaxAttempts),
             Start, [i \in 1 .. MaxAttempts |-> i]).result

(* _json_worker: the body must spell a document, with unique keys and no   *)
(* deeper than the limit (a document that is not is NoDocument).           *)
NoDocument == [status |-> "NONE", routes |-> <<>>]

Document(body, responses) ==
    LET whole == {i \in DOMAIN responses : responses[i].chunks = body /\ ~ responses[i].cut}
    IN  IF whole = {} THEN NoDocument ELSE responses[CHOOSE i \in whole : TRUE].says

JsonWorker(responses) ==
    LET raw == RequestWorker(responses)
        doc == Document(raw.value, responses)
    IN  IF raw.code # "OK" THEN raw
        ELSE IF doc = NoDocument THEN Failure("SCHEMA_MISMATCH") ELSE Success(doc)

(* _run_json and _run_xml: no request is made without a credential.        *)
ExtractCredential(secret) == IF secret = "blank" THEN Failure("MISSING_CREDENTIAL") ELSE Success(secret)

GetJson(secret, responses) ==
    IF ExtractCredential(secret).code # "OK" THEN ExtractCredential(secret)
    ELSE JsonWorker(responses)

-----------------------------------------------------------------------------
(* What the clients make of a document.  A raw route is a record: valid,   *)
(* whether its fields have their types and ranges, and points, the         *)
(* geometry it brings.                                                     *)
Compacted(points) ==
    FoldLeft(LAMBDA kept, p : IF kept # <<>> /\ Last(kept) = p THEN kept ELSE Append(kept, p),
             <<>>, points)

StepsGeometry(points) ==
    IF Len(points) > MaxPoints THEN Failure("RESPONSE_LIMIT_EXCEEDED")
    ELSE IF Len(Compacted(points)) < 2 THEN Failure("SCHEMA_MISMATCH")
    ELSE Success(Compacted(points))

(* The first failure, in the order of the routes, is that of the answer.   *)
EachRoute(raws, Parse(_)) ==
    FoldLeft(LAMBDA acc, raw :
                 LET one == IF raw.valid THEN Parse(raw) ELSE Failure("SCHEMA_MISMATCH")
                 IN  IF acc.code # "OK" THEN acc
                     ELSE IF one.code # "OK" THEN one ELSE Success(Append(acc.value, one.value)),
             Success(<<>>), raws)

ParseTransit(doc) ==
    CASE doc.status = "NO_RESULTS" -> Success(<<>>)
      [] doc.status # "OK" /\ doc.status # "NO_RESULTS" -> Failure("SCHEMA_MISMATCH")
      [] OTHER -> IF Len(doc.routes) > MaxRoutes THEN Failure("RESPONSE_LIMIT_EXCEEDED")
                  ELSE EachRoute(doc.routes, LAMBDA raw : StepsGeometry(raw.points))

ParseWalk(doc) ==
    CASE doc.status \in {"NO_RESULTS", "ROUTE_RESULT_NOT_FOUND"} -> Success(<<>>)
      [] doc.status \notin {"OK", "NO_RESULTS", "ROUTE_RESULT_NOT_FOUND"} -> Failure("SCHEMA_MISMATCH")
      [] OTHER -> EachRoute(SubSeq(doc.routes, 1, 1), LAMBDA raw : StepsGeometry(raw.points))

ParseCar(doc) ==
    IF Len(doc.routes) > MaxRoutes THEN Failure("RESPONSE_LIMIT_EXCEEDED")
    ELSE EachRoute(doc.routes, LAMBDA raw : StepsGeometry(raw.points))

(* Public routes carry their path only as lineage: origin and destination  *)
(* stand for the geometry.                                                 *)
ParseSeoul(doc) ==
    CASE doc.status = "NONE" -> Failure("SCHEMA_MISMATCH")
      [] doc.status \notin {"OK", "NONE"} -> Failure("UPSTREAM_REJECTED")
      [] OTHER -> IF Len(doc.routes) > MaxRoutes THEN Failure("RESPONSE_LIMIT_EXCEEDED")
                  ELSE EachRoute(doc.routes, LAMBDA raw : Success(<<"origin", "destination">>))

(* Opinet must name every fuel exactly once; a place outside the bounds or *)
(* met before is left out of the answer, with a warning.                   *)
ParsePrices(oils, fuels) ==
    IF /\ Len(oils) \in 1 .. 20
       /\ \A i \in DOMAIN oils : oils[i].fuel \in fuels => oils[i].valid
       /\ \A f \in fuels : Cardinality({i \in DOMAIN oils : oils[i].fuel = f}) = 1
    THEN Success(fuels) ELSE Failure("SCHEMA_MISMATCH")

ParsePlaces(places) ==
    IF Len(places) > 15 THEN Failure("RESPONSE_LIMIT_EXCEEDED")
    ELSE IF \E p \in ToSet(places) : ~ p.valid THEN Failure("SCHEMA_MISMATCH")
    ELSE Success(FoldLeft(LAMBDA kept, p : IF p.inside /\ p.id \notin ToSet(kept)
                                           THEN Append(kept, p.id) ELSE kept, <<>>, places))

-----------------------------------------------------------------------------
(* get_routes of the providers: the routes, and a code when there are none *)
(* or something is missing.                                                *)
Result(answer) ==
    IF answer.code # "OK" THEN [routes |-> <<>>, code |-> answer.code]
    ELSE [routes |-> answer.value, code |-> IF answer.value = <<>> THEN "NO_RESULTS" ELSE "OK"]

TransitRoutes(secret, responses) ==
    LET doc == GetJson(secret, responses)
    IN  Result(IF doc.code # "OK" THEN doc ELSE ParseTransit(doc.value))

(* The car provider answers an empty list of routes without a warning of   *)
(* its own: the orchestrator adds NO_ROUTES when there is none at all.     *)
CarRoutes(secret, responses, fuel) ==
    LET doc == GetJson(secret, responses)
        all == IF doc.code # "OK" THEN doc ELSE ParseCar(doc.value)
    IN  IF all.code # "OK" THEN Result(all)
        ELSE [routes |-> all.value, code |-> IF fuel = "price" THEN "OK" ELSE "COST_UNKNOWN"]

SeoulRoutes(secret, responses) ==
    LET raw == IF ExtractCredential(secret).code # "OK" THEN ExtractCredential(secret)
               ELSE RequestWorker(responses)
        all == IF raw.code # "OK" THEN raw ELSE ParseSeoul(Document(raw.value, responses))
    IN  IF all.code # "OK" THEN Result(all)
        ELSE [routes |-> all.value, code |-> "GEOMETRY_MISSING"]

(* One request per walking style; a style without a route is left out, a   *)
(* style that fails takes the others with it.                              *)
WalkRoutes(secret, styles) ==
    LET answer(i) == GetJson(secret, styles[i])
        parsed(i) == IF answer(i).code # "OK" THEN answer(i) ELSE ParseWalk(answer(i).value)
        failed    == {i \in DOMAIN styles : parsed(i).code # "OK"}
        routes    == FlattenSeq([i \in DOMAIN styles |-> parsed(i).value])
    IN  IF failed # {} THEN Result(parsed(Min(failed)))
        ELSE Result(IF Len(routes) > MaxRoutes THEN Failure("RESPONSE_LIMIT_EXCEEDED")
                    ELSE Success(routes))

-----------------------------------------------------------------------------
(* The result of a call is what its last response alone would have given:  *)
(* an attempt that was repeated leaves neither bytes nor a failure behind, *)
(* and no attempt is made after one that settled the matter.               *)
Passing(r) ==
    \/ r.status \in {"429", "5xx", "timeout", "error"}
    \/ /\ r.status = "200" /\ r.type /\ r.cut
       /\ r.declared <= MaxBytes /\ Len(r.chunks) <= MaxBytes

Settling(responses) ==
    LET final == {i \in 1 .. MaxAttempts : ~ Passing(responses[i])}
    IN  IF final = {} THEN MaxAttempts ELSE Min(final)

AttemptsLeaveNothing(responses) ==
    LET alone == [i \in 1 .. MaxAttempts |-> responses[Settling(responses)]]
    IN  /\ TransitRoutes("key", responses) = TransitRoutes("key", alone)
        /\ SeoulRoutes("key", responses) = SeoulRoutes("key", alone)
=============================================================================
