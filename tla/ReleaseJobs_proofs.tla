--------------------------- MODULE ReleaseJobs_proofs ---------------------------
(***************************************************************************)
(* Proofs about ReleaseJobs, for any operators, locks and chunks.  The     *)
(* invariant follows each script: who has passed the one file or directory *)
(* that only one job can create works alone until it is removed, and what  *)
(* a job holds is still what the files say when it writes.                 *)
(***************************************************************************)
EXTENDS ReleaseJobs, SearchEvidence, TLAPS

ShapeInv ==
    /\ DOMAIN disk = Paths
    /\ DOMAIN job = Operators
    /\ \A o \in Operators : \/ job[o] = Idle
                            \/ job[o] = [at |-> job[o].at, held |-> job[o].held]
    /\ points = [c \in DOMAIN points |-> points[c]]

-----------------------------------------------------------------------------
(* build-indexes: the job that has linked the lexical index is alone.      *)

DenseSteps == {"dense", "count", "snapshot", "open", "download", "hash index", "write index"}
IndexSteps == {"lexical", "link"} \cup DenseSteps

Whole(o) == [c \in Chunks |-> Encoder[o]]
WholeSnapshot(o) == [kind |-> "snapshot", points |-> Whole(o)]

\* What a job has done of the collection.
Indexed(o) ==
    LET at == job[o].at
        held == job[o].held
    IN  /\ at = "dense" => Sent(held) \subseteq Chunks
        /\ at \in {"dense", "count"} =>
              \A c \in Sent(held) : c \in DOMAIN points /\ points[c] = Encoder[o]
        /\ at = "count" => Sent(held) = Chunks
        /\ at = "snapshot" => points = Whole(o)
        /\ at \in {"open", "download", "hash index"} => held = WholeSnapshot(o)
        /\ at = "write index" => held = [kind |-> "index", lexical |-> held.lexical,
                                         snapshot |-> WholeSnapshot(o)]

IndexInv ==
    /\ \A o \in Operators : job[o].at \in {"lexical", "link"} => job[o].held = None
    /\ \A o \in Operators : job[o].at \in DenseSteps =>
          /\ There("lexical") /\ ~There("index")
          /\ \A q \in Operators : job[q].at \in DenseSteps => q = o
          /\ Indexed(o)
    /\ There("index") =>
          /\ There("lexical")
          /\ \E o \in Operators : disk["index"] = [kind |-> "index", lexical |-> disk["lexical"],
                                                   snapshot |-> WholeSnapshot(o)]
          /\ disk["snapshot"] = disk["index"].snapshot

-----------------------------------------------------------------------------
(* verify-release: the index evidence that is read cannot change any more. *)
EvidenceInv ==
    /\ \A o \in Operators : job[o].at = "assemble" =>
          There("index") /\ job[o].held.index = disk["index"]
    /\ There("evidence") =>
          /\ There("index") /\ disk["evidence"].index = disk["index"]
          /\ disk["evidence"].report.green
          /\ disk["evidence"].report.snapshot = disk["index"].snapshot
    /\ There("verification") =>
          There("evidence") /\ disk["verification"].evidence = disk["evidence"]

-----------------------------------------------------------------------------
(* backup-release: the job that has made the directory is alone in it,     *)
(* until the manifest is signed.                                           *)

BundleSteps == {"copy bundle", "labels", "manifest", "sign bundle"}

BundleInv ==
    /\ \A o \in Operators :
          /\ job[o].at \in {"make bundle", "copy bundle"} => job[o].held.kind = "bundle"
          /\ job[o].at \in BundleSteps =>
                /\ "bundle" \in made /\ "bundle" \notin signed
                /\ \A q \in Operators : job[q].at \in BundleSteps => q = o
          /\ job[o].at \in BundleSteps \ {"sign bundle"} => ~There("manifest")
    /\ "bundle" \in signed => "bundle" \in made
    /\ "bundle" \notin made => ~There("bundle") /\ ~There("labels") /\ ~There("manifest")
    /\ There("manifest") =>
          /\ There("bundle") /\ disk["manifest"].files = disk["bundle"]
          /\ disk["manifest"].bundle = BackupBundle(disk["bundle"])

-----------------------------------------------------------------------------
(* restore-release: what is restored stays, and so does what attests it.   *)
RestoreInv ==
    /\ \A o \in Operators :
          /\ job[o].at = "copy restored" =>
                /\ "restored" \in made /\ ~There("restored")
                /\ \A q \in Operators : job[q].at = "copy restored" => q = o
          /\ job[o].at \in {"install", "evaluate", "attest restore"} => "bundle" \in signed
    /\ "restored" \notin made => ~There("restored")
    /\ There("restore") =>
          /\ "bundle" \in signed /\ There("manifest") /\ There("restored") /\ There("restoreReport")
          /\ disk["restore"].bundle = disk["manifest"].bundle
          /\ disk["restoreReport"].green
          /\ disk["restored"].snapshot = disk["manifest"].files.snapshot
          /\ disk["restoreReport"].snapshot = disk["restored"].snapshot

IInv == ShapeInv /\ IndexInv /\ EvidenceInv /\ BundleInv /\ RestoreInv

-----------------------------------------------------------------------------
(* What the steps have in common                                           *)

\* Only the job of o goes on, to one of these steps or to its end.
Moves(o, steps) ==
    /\ DOMAIN job' = Operators
    /\ \A q \in Operators \ {o} : job'[q] = job[q]
    /\ job'[o] = Idle \/ job'[o] = [at |-> job'[o].at, held |-> job'[o].held]
    /\ job'[o].at \in steps \cup {"idle"}

\* Only these files change.
Writes(ps) == DOMAIN disk' = Paths /\ \A p \in Paths \ ps : disk'[p] = disk[p]

LEMMA Failing ==
    ASSUME ShapeInv, NEW o \in Operators, NEW steps, Fail(o)
    PROVE  Moves(o, steps) /\ job'[o] = Idle /\ job'[o].at = "idle"
BY DEF ShapeInv, Fail, Moves, Idle

LEMMA Holding ==
    ASSUME ShapeInv, NEW o \in Operators, NEW steps, NEW at \in steps, NEW held, Hold(o, at, held)
    PROVE  Moves(o, steps) /\ job'[o].at = at /\ job'[o].held = held
BY DEF ShapeInv, Hold, Moves

LEMMA Going ==
    ASSUME ShapeInv, NEW o \in Operators, NEW steps, NEW at \in steps, Goto(o, at),
           job[o].at # "idle"
    PROVE  /\ Moves(o, steps) /\ job'[o].at = at
           /\ at # "idle" => job'[o].held = job[o].held
<1>1. job[o] = [at |-> job[o].at, held |-> job[o].held]
  BY DEF ShapeInv, Idle
<1>2. CASE at = "idle"
  BY <1>2, Failing DEF Goto
<1>3. CASE at # "idle"
  <2>1. job' = [job EXCEPT ![o] = [job[o] EXCEPT !.at = at]]
    BY <1>3 DEF Goto
  <2>2. [job[o] EXCEPT !.at = at] = [at |-> at, held |-> job[o].held]
    BY <1>1
  <2>. QED BY <1>3, <2>1, <2>2 DEF ShapeInv, Moves
<1>. QED BY <1>2, <1>3

\* A step writes p or changes nothing but its job.
LEMMA Putting ==
    ASSUME ShapeInv, NEW o \in Operators, NEW steps, NEW at \in steps \cup {"idle"},
           NEW p \in Paths, NEW content, Put(o, p, content, at), job[o].at # "idle"
    PROVE  /\ Moves(o, steps) /\ Writes({p})
           /\ \/ disk' = disk /\ job'[o] = Idle /\ job'[o].at = "idle"
              \/ /\ ~There(p) /\ disk'[p] = content /\ job'[o].at = at
                 /\ at # "idle" => job'[o].held = job[o].held
<1>1. CASE There(p)
  <2>1. Fail(o) /\ disk' = disk
    BY <1>1 DEF Put
  <2>. QED BY <2>1, Failing DEF Writes, ShapeInv
<1>2. CASE ~There(p)
  <2>1. disk' = [disk EXCEPT ![p] = content] /\ Goto(o, at)
    BY <1>2 DEF Put
  <2>2. Writes({p}) /\ disk'[p] = content
    BY <2>1 DEF Writes, ShapeInv
  <2>3. Moves(o, steps \cup {"idle"}) /\ job'[o].at = at
        /\ (at # "idle" => job'[o].held = job[o].held)
    BY <2>1, Going
  <2>. QED BY <1>2, <2>2, <2>3 DEF Moves
<1>. QED BY <1>1, <1>2

\* Steps that leave what a part of the invariant speaks of keep that part.
LEMMA IndexFrame ==
    ASSUME ShapeInv, IndexInv, NEW o \in Operators, NEW steps, Moves(o, steps),
           steps \cap IndexSteps = {}, points' = points,
           \A p \in {"lexical", "snapshot", "index"} : disk'[p] = disk[p]
    PROVE  IndexInv'
<1>1. \A q \in Operators : job'[q].at \in IndexSteps => job'[q] = job[q]
  BY DEF Moves, IndexSteps, DenseSteps
<1>2. \A q \in Operators : job'[q] = job[q] /\ Indexed(q) => Indexed(q)'
  BY DEF Indexed, Sent, WholeSnapshot, Whole
<1>3. (There("lexical"))' = There("lexical") /\ (There("index"))' = There("index")
  BY DEF There
<1>4. \A q \in Operators : job'[q].at \in DenseSteps =>
          /\ (There("lexical"))' /\ (~There("index"))'
          /\ \A r \in Operators : job'[r].at \in DenseSteps => r = q
          /\ Indexed(q)'
  BY <1>1, <1>2, <1>3 DEF IndexInv, IndexSteps
<1>5. \A q \in Operators : job'[q].at \in {"lexical", "link"} => job'[q].held = None
  BY <1>1 DEF IndexInv, IndexSteps
<1>. QED BY <1>3, <1>4, <1>5 DEF IndexInv, WholeSnapshot, Whole

LEMMA EvidenceFrame ==
    ASSUME EvidenceInv, NEW o \in Operators, NEW steps, Moves(o, steps), "assemble" \notin steps,
           There("index") => disk'["index"] = disk["index"],
           \A p \in {"evidence", "verification"} : disk'[p] = disk[p]
    PROVE  EvidenceInv'
<1>1. \A q \in Operators : job'[q].at = "assemble" => job'[q] = job[q]
  BY DEF Moves
<1>. QED BY <1>1 DEF EvidenceInv, There

LEMMA BundleFrame ==
    ASSUME BundleInv, NEW o \in Operators, NEW steps, Moves(o, steps),
           steps \cap ({"make bundle"} \cup BundleSteps) = {},
           "bundle" \in made' <=> "bundle" \in made, "bundle" \in signed' <=> "bundle" \in signed,
           \A p \in {"bundle", "labels", "manifest"} : disk'[p] = disk[p]
    PROVE  BundleInv'
<1>1. \A q \in Operators : job'[q].at \in {"make bundle"} \cup BundleSteps => job'[q] = job[q]
  BY DEF Moves, BundleSteps
<1>. QED BY <1>1 DEF BundleInv, BundleSteps, There, BackupBundle

RestoreSteps == {"copy restored", "install", "evaluate", "attest restore"}

LEMMA RestoreFrame ==
    ASSUME RestoreInv, NEW o \in Operators, NEW steps, Moves(o, steps),
           steps \cap RestoreSteps = {},
           "restored" \in made' <=> "restored" \in made, "bundle" \in signed => "bundle" \in signed',
           \A p \in {"restored", "restoreReport", "restore"} : disk'[p] = disk[p],
           "bundle" \in signed => disk'["manifest"] = disk["manifest"]
    PROVE  RestoreInv'
<1>1. \A q \in Operators : job'[q].at \in RestoreSteps => job'[q] = job[q]
  BY DEF Moves, RestoreSteps
<1>. QED BY <1>1 DEF RestoreInv, RestoreSteps, There

LEMMA ShapeFrame ==
    ASSUME ShapeInv, NEW o \in Operators, NEW steps, Moves(o, steps), NEW ps, Writes(ps),
           points' = [c \in DOMAIN points' |-> points'[c]]
    PROVE  ShapeInv'
BY DEF ShapeInv, Moves, Writes

-----------------------------------------------------------------------------
(* build-indexes                                                           *)

\* A step of build-indexes keeps the rest of the invariant.
LEMMA IndexKeeps ==
    ASSUME IInv, NEW o \in Operators, Moves(o, IndexSteps),
           Writes({"lexical", "snapshot", "index"}), UNCHANGED <<made, signed>>,
           points' = [c \in DOMAIN points' |-> points'[c]],
           There("index") => disk'["index"] = disk["index"], IndexInv'
    PROVE  IInv'
<1>1. \A p \in {"report", "evidence", "verification", "labels", "restored", "manifest", "bundle",
                "restoreReport", "restore"} : disk'[p] = disk[p]
  BY DEF Writes, Paths
<1>2. ShapeInv'
  BY ShapeFrame DEF IInv
<1>3. EvidenceInv'
  <2>1. "assemble" \notin IndexSteps
    BY DEF IndexSteps, DenseSteps
  <2>. QED BY <1>1, <2>1, EvidenceFrame DEF IInv
<1>4. BundleInv'
  <2>1. IndexSteps \cap ({"make bundle"} \cup BundleSteps) = {}
    BY DEF IndexSteps, DenseSteps, BundleSteps
  <2>. QED BY <1>1, <2>1, BundleFrame DEF IInv
<1>5. RestoreInv'
  <2>1. IndexSteps \cap RestoreSteps = {}
    BY DEF IndexSteps, DenseSteps, RestoreSteps
  <2>. QED BY <1>1, <2>1, RestoreFrame DEF IInv
<1>. QED BY <1>2, <1>3, <1>4, <1>5 DEF IInv

\* The only job past the lexical index goes on.
LEMMA DenseGoes ==
    ASSUME IInv, NEW o \in Operators, job[o].at \in DenseSteps, Moves(o, IndexSteps),
           Writes({"lexical", "snapshot"}), UNCHANGED <<made, signed>>,
           points' = [c \in DOMAIN points' |-> points'[c]],
           disk'["lexical"] = disk["lexical"],
           job'[o].at \in DenseSteps => Indexed(o)',
           job'[o].at \in DenseSteps \cup {"idle"}
    PROVE  IInv'
<1>1. disk'["index"] = disk["index"]
  BY DEF Writes, Paths
<1>2. There("lexical") /\ ~There("index") /\ \A q \in Operators : job[q].at \in DenseSteps => q = o
  BY DEF IInv, IndexInv
<1>3. There("lexical")' /\ ~There("index")'
  BY <1>1, <1>2 DEF There
<1>4. \A q \in Operators : job'[q].at \in DenseSteps => q = o
  BY <1>2 DEF Moves
<1>5. IndexInv'
  <2>1. job'[o].at \notin {"lexical", "link"}
    BY DEF DenseSteps
  <2>2. \A q \in Operators : q # o => job'[q] = job[q]
    BY DEF Moves
  <2>3. \A q \in Operators : job'[q].at \in {"lexical", "link"} => job'[q].held = None
    BY <2>1, <2>2 DEF IInv, IndexInv
  <2>. QED BY <1>3, <1>4, <2>3 DEF IndexInv
<1>6. Writes({"lexical", "snapshot", "index"})
  BY DEF Writes
<1>. QED BY <1>1, <1>5, <1>6, IndexKeeps

LEMMA IndexStarts ==
    ASSUME IInv, NEW o \in Operators, StartIndex(o) \/ BuildLexical(o)
    PROVE  IInv'
<1>1. /\ Moves(o, {"lexical", "link"}) /\ UNCHANGED <<disk, made, signed, points>>
      /\ job'[o].at # "idle" => job'[o].held = None
  <2>1. CASE StartIndex(o)
    BY <2>1, Holding DEF IInv, StartIndex, Begin
  <2>2. CASE BuildLexical(o)
    <3>1. job[o].held = None /\ job[o].at # "idle"
      BY <2>2 DEF IInv, IndexInv, BuildLexical
    <3>. QED BY <2>2, <3>1, Failing, Going DEF IInv, BuildLexical
  <2>. QED BY <2>1, <2>2
<1>2. Moves(o, IndexSteps) /\ Writes({"lexical", "snapshot", "index"})
  BY <1>1 DEF Moves, IndexSteps, Writes, IInv, ShapeInv
<1>3. IndexInv'
  <2>1. \A q \in Operators : job'[q].at \in DenseSteps => job'[q] = job[q]
    BY <1>1 DEF Moves, DenseSteps
  <2>2. \A q \in Operators : job'[q] = job[q] /\ Indexed(q) => Indexed(q)'
    BY <1>1 DEF Indexed, Sent, WholeSnapshot, Whole
  <2>3. \A q \in Operators : job'[q].at \in {"lexical", "link"} => job'[q].held = None
    BY <1>1 DEF IInv, IndexInv, Moves
  <2>4. /\ (There("lexical"))' = There("lexical") /\ (There("index"))' = There("index")
        /\ disk' = disk
    BY <1>1 DEF There
  <2>5. \A q \in Operators : job'[q].at \in DenseSteps =>
            /\ (There("lexical"))' /\ (~There("index"))'
            /\ \A r \in Operators : job'[r].at \in DenseSteps => r = q
            /\ Indexed(q)'
    BY <2>1, <2>2, <2>4 DEF IInv, IndexInv
  <2>. QED BY <2>3, <2>4, <2>5 DEF IInv, IndexInv, WholeSnapshot, Whole
<1>. QED BY <1>1, <1>2, <1>3, IndexKeeps DEF IInv, ShapeInv

LEMMA LinkLexicalStep ==
    ASSUME IInv, NEW o \in Operators, LinkLexical(o)
    PROVE  IInv'
<1>. DEFINE lexical == [kind |-> "lexical", chunks |-> Cardinality(Chunks)]
<1>1. /\ job[o].at = "link" /\ Put(o, "lexical", lexical, "dense")
      /\ UNCHANGED <<made, signed, points>> /\ job[o].held = None
  BY DEF LinkLexical, IInv, IndexInv
<1>2. lexical # None
  BY DEF None
<1>. HIDE DEF lexical
<1>3. /\ Moves(o, IndexSteps) /\ Writes({"lexical"})
      /\ \/ disk' = disk /\ job'[o] = Idle /\ job'[o].at = "idle"
         \/ /\ ~There("lexical") /\ disk'["lexical"] = lexical /\ job'[o].at = "dense"
            /\ job'[o].held = None
  <2>1. "dense" \in IndexSteps \cup {"idle"} /\ "lexical" \in Paths /\ job[o].at # "idle"
    BY <1>1 DEF IndexSteps, DenseSteps, Paths
  <2>2. /\ Moves(o, IndexSteps) /\ Writes({"lexical"})
        /\ \/ disk' = disk /\ job'[o] = Idle /\ job'[o].at = "idle"
           \/ /\ ~There("lexical") /\ disk'["lexical"] = lexical /\ job'[o].at = "dense"
              /\ "dense" # "idle" => job'[o].held = job[o].held
    BY <1>1, <2>1, Putting DEF IInv
  <2>. QED BY <1>1, <2>2
<1>4. Writes({"lexical", "snapshot", "index"}) /\ disk'["index"] = disk["index"]
      /\ disk'["snapshot"] = disk["snapshot"]
  BY <1>3 DEF Writes, Paths
<1>5. IndexInv'
  <2>1. CASE disk' = disk /\ job'[o].at = "idle"
    <3>1. Moves(o, {})
      BY <1>3, <2>1 DEF Moves
    <3>. QED BY <1>1, <2>1, <3>1, IndexFrame DEF IInv
  <2>2. CASE /\ ~There("lexical") /\ disk'["lexical"] = lexical /\ job'[o].at = "dense"
             /\ job'[o].held = None
    <3>1. ~There("index") /\ \A q \in Operators : job[q].at \notin DenseSteps
      BY <2>2 DEF IInv, IndexInv
    <3>2. There("lexical")' /\ ~There("index")'
      BY <1>2, <1>4, <2>2, <3>1 DEF There
    <3>3. \A q \in Operators : job'[q].at \in DenseSteps => q = o
      BY <1>3, <3>1 DEF Moves
    <3>4. Indexed(o)'
      BY <2>2 DEF Indexed, Sent
    <3>5. \A q \in Operators : job'[q].at \in {"lexical", "link"} => job'[q].held = None
      BY <1>3, <2>2 DEF IInv, IndexInv, Moves
    <3>. QED BY <3>2, <3>3, <3>4, <3>5 DEF IndexInv
  <2>. QED BY <1>3, <2>1, <2>2
<1>. QED BY <1>1, <1>3, <1>4, <1>5, IndexKeeps DEF IInv, ShapeInv

LEMMA UpsertStep ==
    ASSUME IInv, NEW o \in Operators, Upsert(o)
    PROVE  IInv'
<1>. DEFINE held == job[o].held
<1>1. PICK c \in Chunks \ Sent(held) :
         LET sent == Sent(held) \cup {c}
         IN  /\ points' = [x \in DOMAIN points \cup {c} |-> IF x = c THEN Encoder[o] ELSE points[x]]
             /\ Hold(o, IF sent = Chunks THEN "count" ELSE "dense", [sent |-> sent])
  BY DEF Upsert
<1>. DEFINE sent == Sent(held) \cup {c}
            at == IF sent = Chunks THEN "count" ELSE "dense"
<1>2. job[o].at = "dense" /\ UNCHANGED <<disk, made, signed>> /\ Hold(o, at, [sent |-> sent])
  BY <1>1 DEF Upsert
<1>3. /\ Sent(held) \subseteq Chunks
      /\ \A x \in Sent(held) : x \in DOMAIN points /\ points[x] = Encoder[o]
  BY <1>2 DEF IInv, IndexInv, Indexed, DenseSteps
<1>4. Moves(o, IndexSteps) /\ job'[o].at = at /\ job'[o].held = [sent |-> sent]
  <2>1. at \in IndexSteps
    BY DEF IndexSteps, DenseSteps
  <2>. QED BY <1>2, <2>1, Holding DEF IInv
<1>5. Sent([sent |-> sent]) = sent
  BY DEF Sent, None
<1>6. /\ sent \subseteq Chunks
      /\ \A x \in sent : x \in DOMAIN points' /\ points'[x] = Encoder[o]
  BY <1>1, <1>3
<1>. HIDE DEF sent
<1>7. Indexed(o)'
  <2>1. Sent(job'[o].held) = sent
    BY <1>4, <1>5
  <2>2. at \in {"dense", "count"}
    OBVIOUS
  <2>3. at = "count" => sent = Chunks
    OBVIOUS
  <2>. HIDE DEF at
  <2>. QED BY <1>4, <1>6, <2>1, <2>2, <2>3 DEF Indexed
<1>8. /\ job[o].at \in DenseSteps /\ job'[o].at \in DenseSteps \cup {"idle"}
      /\ Writes({"lexical", "snapshot"}) /\ disk'["lexical"] = disk["lexical"]
      /\ points' = [x \in DOMAIN points' |-> points'[x]]
  <2>1. job[o].at \in DenseSteps /\ at \in DenseSteps
    BY <1>2 DEF DenseSteps
  <2>2. points' = [x \in DOMAIN points' |-> points'[x]]
    BY <1>1
  <2>. QED BY <1>2, <1>4, <2>1, <2>2 DEF Writes, IInv, ShapeInv
<1>. QED BY <1>2, <1>4, <1>7, <1>8, DenseGoes

LEMMA VerifyDenseStep ==
    ASSUME IInv, NEW o \in Operators, VerifyDense(o)
    PROVE  IInv'
<1>1. /\ job[o].at = "count" /\ UNCHANGED <<disk, made, signed, points>>
      /\ \/ Fail(o)
         \/ DOMAIN points = Chunks /\ Goto(o, "snapshot")
  BY DEF VerifyDense
<1>2. /\ Moves(o, IndexSteps)
      /\ job'[o].at = "idle" \/ (DOMAIN points = Chunks /\ job'[o].at = "snapshot")
  <2>1. "snapshot" \in IndexSteps /\ job[o].at # "idle"
    BY <1>1 DEF IndexSteps, DenseSteps
  <2>. QED BY <1>1, <2>1, Failing, Going DEF IInv
<1>3. DOMAIN points = Chunks => points = Whole(o)
  <2>1. Indexed(o)
    BY <1>1 DEF IInv, IndexInv, DenseSteps
  <2>2. \A c \in Chunks : points[c] = Encoder[o]
    BY <1>1, <2>1 DEF Indexed
  <2>3. points = [c \in DOMAIN points |-> points[c]]
    BY DEF IInv, ShapeInv
  <2>. QED BY <2>2, <2>3 DEF Whole
<1>4. job'[o].at \in DenseSteps => Indexed(o)'
  BY <1>1, <1>2, <1>3 DEF Indexed, DenseSteps, Whole
<1>5. job[o].at \in DenseSteps /\ job'[o].at \in DenseSteps \cup {"idle"}
  BY <1>1, <1>2 DEF DenseSteps
<1>. QED BY <1>1, <1>2, <1>4, <1>5, DenseGoes DEF IInv, ShapeInv, Writes

LEMMA CreateSnapshotStep ==
    ASSUME IInv, NEW o \in Operators, CreateSnapshot(o)
    PROVE  IInv'
<1>1. /\ job[o].at = "snapshot" /\ UNCHANGED <<disk, made, signed, points>>
      /\ Hold(o, "open", [kind |-> "snapshot", points |-> points])
  BY DEF CreateSnapshot
<1>2. points = Whole(o)
  BY <1>1 DEF IInv, IndexInv, Indexed, DenseSteps
<1>3. /\ Moves(o, IndexSteps) /\ job'[o].at = "open" /\ job'[o].held = WholeSnapshot(o)
  <2>1. "open" \in IndexSteps
    BY DEF IndexSteps, DenseSteps
  <2>. QED BY <1>1, <1>2, <2>1, Holding DEF IInv, WholeSnapshot
<1>4. Indexed(o)'
  BY <1>3 DEF Indexed, WholeSnapshot, Whole
<1>5. job[o].at \in DenseSteps /\ job'[o].at \in DenseSteps \cup {"idle"}
  BY <1>1, <1>3 DEF DenseSteps
<1>. QED BY <1>1, <1>3, <1>4, <1>5, DenseGoes DEF IInv, ShapeInv, Writes

LEMMA ExportStep ==
    ASSUME IInv, NEW o \in Operators, OpenSnapshot(o) \/ Download(o)
    PROVE  IInv'
<1>1. /\ job[o].at \in {"open", "download"} /\ UNCHANGED <<made, signed, points>>
      /\ Fail(o) \/ Goto(o, "download") \/ Goto(o, "hash index")
      /\ disk' = disk \/ \E content : disk' = [disk EXCEPT !["snapshot"] = content]
  <2>1. CASE OpenSnapshot(o)
    BY <2>1 DEF OpenSnapshot
  <2>2. CASE Download(o)
    BY <2>2 DEF Download
  <2>. QED BY <2>1, <2>2
<1>2. job[o].held = WholeSnapshot(o)
  BY <1>1 DEF IInv, IndexInv, Indexed, DenseSteps
<1>3. /\ Moves(o, IndexSteps)
      /\ \/ job'[o].at = "idle"
         \/ job'[o].at \in {"download", "hash index"} /\ job'[o].held = WholeSnapshot(o)
  <2>1. "download" \in IndexSteps /\ "hash index" \in IndexSteps /\ job[o].at # "idle"
    BY <1>1 DEF IndexSteps, DenseSteps
  <2>2. CASE Fail(o)
    BY <2>2, Failing DEF IInv
  <2>3. CASE Goto(o, "download")
    BY <1>2, <2>1, <2>3, Going DEF IInv
  <2>4. CASE Goto(o, "hash index")
    BY <1>2, <2>1, <2>4, Going DEF IInv
  <2>. QED BY <1>1, <2>2, <2>3, <2>4
<1>4. job'[o].at \in DenseSteps => Indexed(o)'
  BY <1>3 DEF Indexed, DenseSteps, WholeSnapshot, Whole
<1>5. job[o].at \in DenseSteps /\ job'[o].at \in DenseSteps \cup {"idle"}
  BY <1>1, <1>3 DEF DenseSteps
<1>6. Writes({"lexical", "snapshot"}) /\ disk'["lexical"] = disk["lexical"]
  BY <1>1 DEF IInv, ShapeInv, Writes, Paths
<1>. QED BY <1>1, <1>3, <1>4, <1>5, <1>6, DenseGoes DEF IInv, ShapeInv

LEMMA HashIndexStep ==
    ASSUME IInv, NEW o \in Operators, HashIndex(o)
    PROVE  IInv'
<1>. DEFINE content == [kind |-> "index", lexical |-> disk["lexical"], snapshot |-> disk["snapshot"]]
<1>1. /\ job[o].at = "hash index" /\ UNCHANGED <<disk, made, signed, points>>
      /\ \/ Fail(o)
         \/ disk["snapshot"] = job[o].held /\ Hold(o, "write index", content)
  BY DEF HashIndex
<1>2. job[o].held = WholeSnapshot(o)
  BY <1>1 DEF IInv, IndexInv, Indexed, DenseSteps
<1>3. /\ Moves(o, IndexSteps)
      /\ \/ job'[o].at = "idle"
         \/ /\ disk["snapshot"] = WholeSnapshot(o)
            /\ job'[o].at = "write index" /\ job'[o].held = content
  <2>1. "write index" \in IndexSteps
    BY DEF IndexSteps, DenseSteps
  <2>. QED BY <1>1, <1>2, <2>1, Failing, Holding DEF IInv
<1>4. job'[o].at \in DenseSteps => Indexed(o)'
  <2>1. CASE job'[o].at = "idle"
    BY <2>1 DEF DenseSteps
  <2>2. CASE job'[o].at = "write index"
    <3>1. job'[o].held = [kind |-> "index", lexical |-> job'[o].held.lexical,
                          snapshot |-> WholeSnapshot(o)]
      <4>1. disk["snapshot"] = WholeSnapshot(o) /\ job'[o].held = content
        BY <1>3, <2>2
      <4>2. job'[o].held.lexical = disk["lexical"]
        BY <4>1
      <4>. QED BY <4>1, <4>2
    <3>2. WholeSnapshot(o)' = WholeSnapshot(o)
      BY DEF WholeSnapshot, Whole
    <3>. QED BY <2>2, <3>1, <3>2 DEF Indexed
  <2>. QED BY <1>3, <2>1, <2>2
<1>5. job[o].at \in DenseSteps /\ job'[o].at \in DenseSteps \cup {"idle"}
  BY <1>1, <1>3 DEF DenseSteps
<1>. QED BY <1>1, <1>3, <1>4, <1>5, DenseGoes DEF IInv, ShapeInv, Writes

LEMMA WriteIndexEvidenceStep ==
    ASSUME IInv, NEW o \in Operators, WriteIndexEvidence(o)
    PROVE  IInv'
<1>. DEFINE held == job[o].held
<1>1. /\ job[o].at = "write index" /\ UNCHANGED <<made, signed, points>>
      /\ \/ Fail(o) /\ disk' = disk
         \/ /\ disk["lexical"] = held.lexical /\ disk["snapshot"] = held.snapshot
            /\ Put(o, "index", held, "idle")
  BY DEF WriteIndexEvidence
<1>2. /\ There("lexical") /\ ~There("index")
      /\ \A q \in Operators : job[q].at \in DenseSteps => q = o
      /\ held = [kind |-> "index", lexical |-> held.lexical, snapshot |-> WholeSnapshot(o)]
  BY <1>1 DEF IInv, IndexInv, Indexed, DenseSteps
<1>3. /\ Moves(o, IndexSteps) /\ Writes({"index"}) /\ job'[o].at = "idle"
      /\ \/ disk' = disk
         \/ /\ disk["lexical"] = held.lexical /\ disk["snapshot"] = held.snapshot
            /\ disk'["index"] = held
  <2>1. CASE Fail(o) /\ disk' = disk
    BY <2>1, Failing DEF IInv, ShapeInv, Writes
  <2>2. CASE /\ disk["lexical"] = held.lexical /\ disk["snapshot"] = held.snapshot
             /\ Put(o, "index", held, "idle")
    <3>1. "index" \in Paths /\ job[o].at # "idle"
      BY <1>1 DEF Paths
    <3>2. /\ Moves(o, IndexSteps) /\ Writes({"index"})
          /\ \/ disk' = disk /\ job'[o] = Idle /\ job'[o].at = "idle"
             \/ /\ ~There("index") /\ disk'["index"] = held /\ job'[o].at = "idle"
                /\ "idle" # "idle" => job'[o].held = job[o].held
      BY <2>2, <3>1, Putting DEF IInv
    <3>. QED BY <2>2, <3>2
  <2>. QED BY <1>1, <2>1, <2>2
<1>4. /\ Writes({"lexical", "snapshot", "index"})
      /\ disk'["lexical"] = disk["lexical"] /\ disk'["snapshot"] = disk["snapshot"]
  BY <1>3 DEF Writes, Paths
<1>5. IndexInv'
  <2>1. \A q \in Operators : job'[q].at \notin DenseSteps
    BY <1>2, <1>3 DEF Moves, DenseSteps
  <2>2. \A q \in Operators : job'[q].at \in {"lexical", "link"} => job'[q].held = None
    BY <1>3 DEF IInv, IndexInv, Moves
  <2>3. There("lexical")'
    BY <1>2, <1>4 DEF There
  <2>4. There("index")' => /\ disk'["index"] = [kind |-> "index", lexical |-> disk'["lexical"],
                                                snapshot |-> WholeSnapshot(o)]
                           /\ disk'["snapshot"] = disk'["index"].snapshot
    <3>1. CASE disk' = disk
      BY <1>2, <3>1 DEF There
    <3>2. CASE /\ disk["lexical"] = held.lexical /\ disk["snapshot"] = held.snapshot
               /\ disk'["index"] = held
      BY <1>2, <1>4, <3>2
    <3>. QED BY <1>3, <3>1, <3>2
  <2>. QED BY <2>1, <2>2, <2>3, <2>4 DEF IndexInv, WholeSnapshot, Whole
<1>. QED BY <1>1, <1>2, <1>3, <1>4, <1>5, IndexKeeps DEF IInv, ShapeInv

-----------------------------------------------------------------------------
(* Steps the invariant does not speak of                                   *)

Watched == IndexSteps \cup {"assemble", "make bundle"} \cup BundleSteps \cup RestoreSteps

LEMMA QuietStep ==
    ASSUME IInv, NEW o \in Operators, NEW steps, Moves(o, steps), steps \cap Watched = {},
           Writes({"report"}), points' = points,
           "bundle" \in made' <=> "bundle" \in made, "restored" \in made' <=> "restored" \in made,
           "bundle" \in signed' <=> "bundle" \in signed
    PROVE  IInv'
<1>1. \A p \in Paths \ {"report"} : disk'[p] = disk[p]
  BY DEF Writes
<1>2. ShapeInv'
  BY ShapeFrame DEF IInv, ShapeInv
<1>3. IndexInv'
  <2>1. \A p \in {"lexical", "snapshot", "index"} : disk'[p] = disk[p]
    BY <1>1 DEF Paths
  <2>2. steps \cap IndexSteps = {}
    BY DEF Watched
  <2>. QED BY <2>1, <2>2, IndexFrame DEF IInv
<1>4. EvidenceInv'
  <2>1. \A p \in {"index", "evidence", "verification"} : disk'[p] = disk[p]
    BY <1>1 DEF Paths
  <2>2. "assemble" \notin steps
    BY DEF Watched
  <2>. QED BY <2>1, <2>2, EvidenceFrame DEF IInv
<1>5. BundleInv'
  <2>1. \A p \in {"bundle", "labels", "manifest"} : disk'[p] = disk[p]
    BY <1>1 DEF Paths
  <2>2. steps \cap ({"make bundle"} \cup BundleSteps) = {}
    BY DEF Watched
  <2>. QED BY <2>1, <2>2, BundleFrame DEF IInv
<1>6. RestoreInv'
  <2>1. \A p \in {"restored", "restoreReport", "restore", "manifest"} : disk'[p] = disk[p]
    BY <1>1 DEF Paths
  <2>2. steps \cap RestoreSteps = {}
    BY DEF Watched
  <2>. QED BY <2>1, <2>2, RestoreFrame DEF IInv
<1>. QED BY <1>2, <1>3, <1>4, <1>5, <1>6 DEF IInv

\* A job ends without having written anything.
LEMMA FailStep ==
    ASSUME IInv, NEW o \in Operators, Fail(o), UNCHANGED <<disk, made, signed, points>>
    PROVE  IInv'
<1>1. Moves(o, {})
  BY Failing DEF IInv
<1>2. Writes({"report"})
  BY DEF IInv, ShapeInv, Writes
<1>. QED BY <1>1, <1>2, QuietStep

LEMMA EvaluateStep ==
    ASSUME IInv, NEW o \in Operators, Evaluate(o)
    PROVE  IInv'
<1>. DEFINE steps == {"hash report", "write report"}
<1>1. Moves(o, steps) /\ Writes({"report"}) /\ UNCHANGED <<made, signed, points>>
  <2>1. CASE StartEvaluation(o)
    BY <2>1, Holding DEF StartEvaluation, Begin, IInv, ShapeInv, Writes
  <2>2. CASE HashReport(o)
    BY <2>2, Holding, Failing DEF HashReport, IInv, ShapeInv, Writes
  <2>3. CASE WriteReport(o)
    <3>1. /\ job[o].at # "idle" /\ "report" \in Paths /\ UNCHANGED <<made, signed, points>>
          /\ \/ Fail(o) /\ disk' = disk
             \/ \E content : Put(o, "report", content, "idle")
      BY <2>3 DEF WriteReport, Paths
    <3>2. CASE Fail(o) /\ disk' = disk
      BY <3>1, <3>2, Failing DEF IInv, ShapeInv, Writes
    <3>3. ASSUME NEW content, Put(o, "report", content, "idle")
          PROVE  Moves(o, steps) /\ Writes({"report"})
      BY <3>1, <3>3, Putting DEF IInv
    <3>. QED BY <3>1, <3>2, <3>3
  <2>. QED BY <2>1, <2>2, <2>3 DEF Evaluate
<1>2. steps \cap Watched = {}
  BY DEF Watched, IndexSteps, DenseSteps, BundleSteps, RestoreSteps
<1>. QED BY <1>1, <1>2, QuietStep

LEMMA SignOtherStep ==
    ASSUME IInv, NEW o \in Operators, NEW f \in {"verification", "restore"}, Sign(o, f)
    PROVE  IInv'
<1>1. /\ UNCHANGED <<disk, made, points>> /\ signed' = signed \cup {f}
      /\ Fail(o)
  BY DEF Sign, Goto
<1>2. Moves(o, {}) /\ Writes({"report"})
  BY <1>1, Failing DEF IInv, ShapeInv, Writes
<1>. QED BY <1>1, <1>2, QuietStep

-----------------------------------------------------------------------------
(* verify-release                                                          *)

VerifySteps == {"read", "assemble", "attest", "sign verification"}

LEMMA VerifyKeeps ==
    ASSUME IInv, NEW o \in Operators, Moves(o, VerifySteps), Writes({"evidence", "verification"}),
           UNCHANGED <<made, signed, points>>, EvidenceInv'
    PROVE  IInv'
<1>1. \A p \in Paths \ {"evidence", "verification"} : disk'[p] = disk[p]
  BY DEF Writes
<1>2. ShapeInv'
  BY ShapeFrame DEF IInv, ShapeInv
<1>3. IndexInv'
  <2>1. \A p \in {"lexical", "snapshot", "index"} : disk'[p] = disk[p]
    BY <1>1 DEF Paths
  <2>2. VerifySteps \cap IndexSteps = {}
    BY DEF VerifySteps, IndexSteps, DenseSteps
  <2>. QED BY <2>1, <2>2, IndexFrame DEF IInv
<1>4. BundleInv'
  <2>1. \A p \in {"bundle", "labels", "manifest"} : disk'[p] = disk[p]
    BY <1>1 DEF Paths
  <2>2. VerifySteps \cap ({"make bundle"} \cup BundleSteps) = {}
    BY DEF VerifySteps, BundleSteps
  <2>. QED BY <2>1, <2>2, BundleFrame DEF IInv
<1>5. RestoreInv'
  <2>1. \A p \in {"restored", "restoreReport", "restore", "manifest"} : disk'[p] = disk[p]
    BY <1>1 DEF Paths
  <2>2. VerifySteps \cap RestoreSteps = {}
    BY DEF VerifySteps, RestoreSteps
  <2>. QED BY <2>1, <2>2, RestoreFrame DEF IInv
<1>. QED BY <1>2, <1>3, <1>4, <1>5 DEF IInv

LEMMA StartVerificationStep ==
    ASSUME IInv, NEW o \in Operators, StartVerification(o)
    PROVE  IInv'
<1>1. Moves(o, {"read"}) /\ Writes({"report"}) /\ UNCHANGED <<made, signed, points>>
  BY Holding DEF StartVerification, Begin, IInv, ShapeInv, Writes
<1>2. {"read"} \cap Watched = {}
  BY DEF Watched, IndexSteps, DenseSteps, BundleSteps, RestoreSteps
<1>. QED BY <1>1, <1>2, QuietStep

LEMMA ReadEvidenceStep ==
    ASSUME IInv, NEW o \in Operators, ReadEvidence(o)
    PROVE  IInv'
<1>1. CASE Fail(o) /\ disk' = disk
  BY <1>1, FailStep DEF ReadEvidence
<1>. DEFINE content == [kind |-> "read", lexical |-> disk["lexical"], snapshot |-> disk["snapshot"],
                        index |-> disk["index"], report |-> disk["report"]]
<1>2. CASE There("index") /\ Hold(o, "assemble", content)
  <2>1. UNCHANGED <<disk, made, signed, points>>
    BY DEF ReadEvidence
  <2>2. Moves(o, VerifySteps) /\ job'[o].at = "assemble" /\ job'[o].held = content
    BY <1>2, Holding DEF IInv, VerifySteps
  <2>3. job'[o].held.index = disk["index"]
    BY <2>2
  <2>4. EvidenceInv'
    BY <1>2, <2>1, <2>2, <2>3 DEF IInv, EvidenceInv, There, Moves
  <2>. QED BY <2>1, <2>2, <2>4, VerifyKeeps DEF IInv, ShapeInv, Writes
<1>. QED BY <1>1, <1>2 DEF ReadEvidence

LEMMA AssembleStep ==
    ASSUME IInv, NEW o \in Operators, Assemble(o)
    PROVE  IInv'
<1>. DEFINE held == job[o].held
            content == [kind |-> "evidence", index |-> held.index, report |-> held.report]
<1>1. CASE Fail(o) /\ disk' = disk
  BY <1>1, FailStep DEF Assemble
<1>2. CASE Agrees(held) /\ Put(o, "evidence", content, "attest")
  <2>1. job[o].at = "assemble" /\ UNCHANGED <<made, signed, points>>
    BY DEF Assemble
  <2>2. There("index") /\ held.index = disk["index"]
    BY <2>1 DEF IInv, EvidenceInv
  <2>3. held.report.green /\ held.report.snapshot = disk["index"].snapshot
    BY <1>2, <2>2 DEF Agrees
  <2>4. /\ content.index = disk["index"] /\ content.report.green
        /\ content.report.snapshot = disk["index"].snapshot
    BY <2>2, <2>3
  <2>. HIDE DEF content
  <2>5. "attest" \in VerifySteps \cup {"idle"} /\ "evidence" \in Paths /\ job[o].at # "idle"
    BY <2>1 DEF VerifySteps, Paths
  <2>6. /\ Moves(o, VerifySteps) /\ Writes({"evidence"})
        /\ \/ disk' = disk /\ job'[o] = Idle /\ job'[o].at = "idle"
           \/ /\ ~There("evidence") /\ disk'["evidence"] = content /\ job'[o].at = "attest"
              /\ "attest" # "idle" => job'[o].held = job[o].held
    BY <1>2, <2>5, Putting DEF IInv
  <2>7. /\ Writes({"evidence", "verification"}) /\ disk'["index"] = disk["index"]
        /\ disk'["verification"] = disk["verification"]
    BY <2>6 DEF Writes, Paths
  <2>8. \A q \in Operators : job'[q].at = "assemble" => job'[q] = job[q]
    BY <2>6 DEF Moves
  <2>9. EvidenceInv'
    <3>1. CASE disk' = disk
      BY <2>8, <3>1 DEF IInv, EvidenceInv, There
    <3>2. CASE ~There("evidence") /\ disk'["evidence"] = content
      <4>1. ~There("verification")
        BY <3>2 DEF IInv, EvidenceInv
      <4>. QED BY <2>2, <2>4, <2>7, <2>8, <3>2, <4>1 DEF IInv, EvidenceInv, There
    <3>. QED BY <2>6, <3>1, <3>2
  <2>. QED BY <2>1, <2>6, <2>7, <2>9, VerifyKeeps
<1>. QED BY <1>1, <1>2 DEF Assemble

LEMMA AttestVerificationStep ==
    ASSUME IInv, NEW o \in Operators, AttestVerification(o)
    PROVE  IInv'
<1>. DEFINE content == [kind |-> "verification", evidence |-> disk["evidence"],
                        bundle |-> CanonicalBundle]
<1>1. CASE Fail(o) /\ disk' = disk
  BY <1>1, FailStep DEF AttestVerification
<1>2. CASE There("evidence") /\ Put(o, "verification", content, "sign verification")
  <2>1. job[o].at = "attest" /\ UNCHANGED <<made, signed, points>>
    BY DEF AttestVerification
  <2>2. content.evidence = disk["evidence"]
    OBVIOUS
  <2>. HIDE DEF content
  <2>3. "sign verification" \in VerifySteps \cup {"idle"} /\ "verification" \in Paths
        /\ job[o].at # "idle"
    BY <2>1 DEF VerifySteps, Paths
  <2>4. /\ Moves(o, VerifySteps) /\ Writes({"verification"})
        /\ \/ disk' = disk /\ job'[o] = Idle /\ job'[o].at = "idle"
           \/ /\ ~There("verification") /\ disk'["verification"] = content
              /\ job'[o].at = "sign verification"
              /\ "sign verification" # "idle" => job'[o].held = job[o].held
    BY <1>2, <2>3, Putting DEF IInv
  <2>5. /\ Writes({"evidence", "verification"}) /\ disk'["index"] = disk["index"]
        /\ disk'["evidence"] = disk["evidence"]
    BY <2>4 DEF Writes, Paths
  <2>6. \A q \in Operators : job'[q].at = "assemble" => job'[q] = job[q]
    BY <2>4 DEF Moves
  <2>7. EvidenceInv'
    <3>1. CASE disk' = disk
      BY <2>6, <3>1 DEF IInv, EvidenceInv, There
    <3>2. CASE disk'["verification"] = content
      BY <1>2, <2>2, <2>5, <2>6, <3>2 DEF IInv, EvidenceInv, There
    <3>. QED BY <2>4, <3>1, <3>2
  <2>. QED BY <2>1, <2>4, <2>5, <2>7, VerifyKeeps
<1>. QED BY <1>1, <1>2 DEF AttestVerification

-----------------------------------------------------------------------------
(* backup-release                                                          *)

BackupSteps == {"open inputs", "make bundle"} \cup BundleSteps

LEMMA BackupKeeps ==
    ASSUME IInv, NEW o \in Operators, Moves(o, BackupSteps),
           Writes({"bundle", "labels", "manifest"}), points' = points,
           "restored" \in made' <=> "restored" \in made, "bundle" \in signed => "bundle" \in signed',
           "bundle" \in signed => disk'["manifest"] = disk["manifest"], BundleInv'
    PROVE  IInv'
<1>1. \A p \in Paths \ {"bundle", "labels", "manifest"} : disk'[p] = disk[p]
  BY DEF Writes
<1>2. ShapeInv'
  BY ShapeFrame DEF IInv, ShapeInv
<1>3. IndexInv'
  <2>1. \A p \in {"lexical", "snapshot", "index"} : disk'[p] = disk[p]
    BY <1>1 DEF Paths
  <2>2. BackupSteps \cap IndexSteps = {}
    BY DEF BackupSteps, BundleSteps, IndexSteps, DenseSteps
  <2>. QED BY <2>1, <2>2, IndexFrame DEF IInv
<1>4. EvidenceInv'
  <2>1. \A p \in {"index", "evidence", "verification"} : disk'[p] = disk[p]
    BY <1>1 DEF Paths
  <2>2. "assemble" \notin BackupSteps
    BY DEF BackupSteps, BundleSteps
  <2>. QED BY <2>1, <2>2, EvidenceFrame DEF IInv
<1>5. RestoreInv'
  <2>1. \A p \in {"restored", "restoreReport", "restore"} : disk'[p] = disk[p]
    BY <1>1 DEF Paths
  <2>2. BackupSteps \cap RestoreSteps = {}
    BY DEF BackupSteps, BundleSteps, RestoreSteps
  <2>. QED BY <2>1, <2>2, RestoreFrame DEF IInv
<1>. QED BY <1>2, <1>3, <1>4, <1>5 DEF IInv

LEMMA StartBackupStep ==
    ASSUME IInv, NEW o \in Operators, StartBackup(o)
    PROVE  IInv'
<1>1. Moves(o, {"open inputs"}) /\ Writes({"report"}) /\ UNCHANGED <<made, signed, points>>
  BY Holding DEF StartBackup, Begin, IInv, ShapeInv, Writes
<1>2. {"open inputs"} \cap Watched = {}
  BY DEF Watched, IndexSteps, DenseSteps, BundleSteps, RestoreSteps
<1>. QED BY <1>1, <1>2, QuietStep

LEMMA OpenInputsStep ==
    ASSUME IInv, NEW o \in Operators, OpenInputs(o)
    PROVE  IInv'
<1>0. UNCHANGED <<disk, made, signed, points>>
  BY DEF OpenInputs
<1>1. CASE Fail(o)
  BY <1>0, <1>1, FailStep
<1>. DEFINE content == [kind |-> "bundle", database |-> "backup of canonical",
                        snapshot |-> disk["snapshot"], report |-> disk["report"]]
<1>2. CASE Hold(o, "make bundle", content)
  <2>1. Moves(o, BackupSteps) /\ job'[o].at = "make bundle" /\ job'[o].held = content
    BY <1>2, Holding DEF IInv, BackupSteps
  <2>2. job'[o].held.kind = "bundle"
    <3>1. content.kind = "bundle"
      OBVIOUS
    <3>. HIDE DEF content
    <3>. QED BY <2>1, <3>1
  <2>. HIDE DEF content
  <2>3. \A q \in Operators : job'[q].at \in BundleSteps => job'[q] = job[q]
    BY <2>1 DEF Moves, BundleSteps
  <2>4. BundleInv'
    BY <1>0, <2>1, <2>2, <2>3 DEF IInv, BundleInv, BundleSteps, There, BackupBundle, Moves
  <2>. QED BY <1>0, <2>1, <2>4, BackupKeeps DEF IInv, ShapeInv, Writes
<1>. QED BY <1>1, <1>2 DEF OpenInputs

LEMMA MakeBundleStep ==
    ASSUME IInv, NEW o \in Operators, MakeDirectory(o, "make bundle", "bundle", "copy bundle")
    PROVE  IInv'
<1>0. job[o].at = "make bundle" /\ UNCHANGED <<disk, signed, points>>
  BY DEF MakeDirectory
<1>1. CASE "bundle" \in made
  BY <1>0, <1>1, FailStep DEF MakeDirectory
<1>2. CASE "bundle" \notin made
  <2>1. made' = made \cup {"bundle"} /\ Goto(o, "copy bundle")
    BY <1>2 DEF MakeDirectory
  <2>2. /\ Moves(o, BackupSteps) /\ job'[o].at = "copy bundle" /\ job'[o].held = job[o].held
    <3>1. {"make bundle", "copy bundle"} \subseteq BackupSteps
      BY DEF BackupSteps, BundleSteps
    <3>. QED BY <1>0, <2>1, <3>1, Going DEF IInv
  <2>3. /\ "bundle" \notin signed /\ \A q \in Operators : job[q].at \notin BundleSteps
        /\ ~There("bundle") /\ ~There("labels") /\ ~There("manifest")
        /\ job[o].held.kind = "bundle"
    BY <1>0, <1>2 DEF IInv, BundleInv
  <2>4. \A q \in Operators : job'[q].at \in BundleSteps => q = o
    BY <2>2, <2>3 DEF Moves
  <2>5. \A q \in Operators : job'[q].at \in {"make bundle", "copy bundle"}
                                => job'[q].held.kind = "bundle"
    BY <2>2, <2>3 DEF IInv, BundleInv, Moves
  <2>6. BundleInv'
    BY <1>0, <2>1, <2>2, <2>3, <2>4, <2>5 DEF BundleInv, BundleSteps, There
  <2>. QED BY <1>0, <2>1, <2>2, <2>6, BackupKeeps DEF IInv, ShapeInv, Writes
<1>. QED BY <1>1, <1>2

\* The job that is alone in the bundle goes on.
LEMMA BundleGoes ==
    ASSUME IInv, NEW o \in Operators, job[o].at \in BundleSteps, Moves(o, BackupSteps),
           Writes({"bundle", "labels", "manifest"}), UNCHANGED <<points, signed>>,
           "restored" \in made' <=> "restored" \in made,
           job'[o].at \in {"labels", "manifest", "sign bundle", "idle"},
           job'[o].at \in BundleSteps => "bundle" \in made',
           job'[o].at \in BundleSteps \ {"sign bundle"} => ~There("manifest")',
           "bundle" \notin made' => /\ ~There("bundle")' /\ ~There("labels")' /\ ~There("manifest")',
           There("manifest")' => /\ There("bundle")' /\ disk'["manifest"].files = disk'["bundle"]
                                 /\ disk'["manifest"].bundle = BackupBundle(disk'["bundle"])
    PROVE  IInv'
<1>1. "bundle" \notin signed /\ \A q \in Operators : job[q].at \in BundleSteps => q = o
  BY DEF IInv, BundleInv
<1>2. \A q \in Operators : job'[q].at \in BundleSteps => q = o
  BY <1>1 DEF Moves
<1>3. \A q \in Operators : job'[q].at \in {"make bundle", "copy bundle"}
                              => job'[q].held.kind = "bundle"
  BY DEF IInv, BundleInv, Moves
<1>4. BundleInv'
  BY <1>1, <1>2, <1>3 DEF BundleInv, BackupBundle
<1>. QED BY <1>1, <1>4, BackupKeeps

LEMMA CopyPayloadStep ==
    ASSUME IInv, NEW o \in Operators, CopyPayload(o)
    PROVE  IInv'
<1>1. /\ job[o].at = "copy bundle" /\ job[o].at \in BundleSteps /\ UNCHANGED <<signed, points>>
      /\ job[o].held.kind = "bundle" /\ "bundle" \in made /\ ~There("manifest")
  BY DEF CopyPayload, IInv, BundleInv, BundleSteps
<1>2. CASE disk' = [disk EXCEPT !.bundle = job[o].held] /\ Goto(o, "labels") /\ UNCHANGED made
  <2>1. Moves(o, BackupSteps) /\ job'[o].at = "labels"
    BY <1>1, <1>2, Going DEF IInv, BackupSteps, BundleSteps
  <2>2. Writes({"bundle", "labels", "manifest"}) /\ disk'["manifest"] = disk["manifest"]
    BY <1>2 DEF IInv, ShapeInv, Writes, Paths
  <2>. QED BY <1>1, <1>2, <2>1, <2>2, BundleGoes DEF BundleSteps, There
<1>3. CASE disk' = [disk EXCEPT !.bundle = None, !.labels = None] /\ Fail(o)
           /\ made' = made \ {"bundle"}
  <2>1. Moves(o, BackupSteps) /\ job'[o].at = "idle"
    BY <1>3, Failing DEF IInv
  <2>2. /\ Writes({"bundle", "labels", "manifest"}) /\ disk'["manifest"] = disk["manifest"]
        /\ disk'["bundle"] = None /\ disk'["labels"] = None
    BY <1>3 DEF IInv, ShapeInv, Writes, Paths
  <2>. QED BY <1>1, <1>3, <2>1, <2>2, BundleGoes DEF BundleSteps, There
<1>. QED BY <1>2, <1>3 DEF CopyPayload

LEMMA EncryptLabelsStep ==
    ASSUME IInv, NEW o \in Operators, EncryptLabels(o)
    PROVE  IInv'
<1>1. /\ job[o].at = "labels" /\ job[o].at \in BundleSteps /\ UNCHANGED <<made, signed, points>>
      /\ disk' = [disk EXCEPT !.labels = [kind |-> "labels"]] /\ Goto(o, "manifest")
      /\ "bundle" \in made /\ ~There("manifest")
  BY DEF EncryptLabels, IInv, BundleInv, BundleSteps
<1>2. Moves(o, BackupSteps) /\ job'[o].at = "manifest"
  BY <1>1, Going DEF IInv, BackupSteps, BundleSteps
<1>3. Writes({"bundle", "labels", "manifest"}) /\ disk'["manifest"] = disk["manifest"]
  BY <1>1 DEF IInv, ShapeInv, Writes, Paths
<1>. QED BY <1>1, <1>2, <1>3, BundleGoes DEF BundleSteps, There

LEMMA WriteBackupManifestStep ==
    ASSUME IInv, NEW o \in Operators, WriteBackupManifest(o)
    PROVE  IInv'
<1>. DEFINE content == [kind |-> "manifest", files |-> disk["bundle"],
                        bundle |-> BackupBundle(disk["bundle"])]
<1>0. /\ job[o].at = "manifest" /\ job[o].at \in BundleSteps /\ UNCHANGED <<made, signed, points>>
      /\ "bundle" \in made
  BY DEF WriteBackupManifest, IInv, BundleInv, BundleSteps
<1>1. CASE Fail(o) /\ disk' = disk
  BY <1>0, <1>1, FailStep
<1>2. CASE There("bundle") /\ ~There("manifest") /\ Put(o, "manifest", content, "sign bundle")
  <2>1. content.files = disk["bundle"] /\ content.bundle = BackupBundle(disk["bundle"])
    OBVIOUS
  <2>. HIDE DEF content
  <2>2. "sign bundle" \in BackupSteps \cup {"idle"} /\ "manifest" \in Paths /\ job[o].at # "idle"
    BY <1>0 DEF BackupSteps, BundleSteps, Paths
  <2>3. /\ Moves(o, BackupSteps) /\ Writes({"manifest"})
        /\ \/ disk' = disk /\ job'[o] = Idle /\ job'[o].at = "idle"
           \/ /\ ~There("manifest") /\ disk'["manifest"] = content /\ job'[o].at = "sign bundle"
              /\ "sign bundle" # "idle" => job'[o].held = job[o].held
    BY <1>2, <2>2, Putting DEF IInv
  <2>4. Writes({"bundle", "labels", "manifest"}) /\ disk'["bundle"] = disk["bundle"]
    BY <2>3 DEF Writes, Paths
  <2>5. CASE disk' = disk /\ job'[o].at = "idle"
    BY <1>0, <1>2, <2>3, <2>4, <2>5, BundleGoes DEF BundleSteps, There
  <2>6. CASE disk'["manifest"] = content /\ job'[o].at = "sign bundle"
    BY <1>0, <1>2, <2>1, <2>3, <2>4, <2>6, BundleGoes DEF BundleSteps, There
  <2>. QED BY <2>3, <2>5, <2>6
<1>. QED BY <1>1, <1>2 DEF WriteBackupManifest

LEMMA SignBundleStep ==
    ASSUME IInv, NEW o \in Operators, Sign(o, "bundle")
    PROVE  IInv'
<1>1. /\ job[o].at = "sign bundle" /\ job[o].at \in BundleSteps
      /\ UNCHANGED <<disk, made, points>> /\ signed' = signed \cup {"bundle"}
      /\ Fail(o)
  BY DEF Sign, Goto, SignStep, BundleSteps
<1>2. "bundle" \in made /\ \A q \in Operators : job[q].at \in BundleSteps => q = o
  BY <1>1 DEF IInv, BundleInv
<1>3. Moves(o, BackupSteps) /\ job'[o].at = "idle"
  BY <1>1, Failing DEF IInv
<1>4. \A q \in Operators : job'[q].at \notin BundleSteps
  BY <1>2, <1>3 DEF Moves, BundleSteps
<1>5. \A q \in Operators : job'[q].at \in {"make bundle", "copy bundle"}
                              => job'[q].held.kind = "bundle"
  BY <1>3 DEF IInv, BundleInv, Moves
<1>6. BundleInv'
  BY <1>1, <1>2, <1>4, <1>5 DEF IInv, BundleInv, There, BackupBundle, BundleSteps
<1>. QED BY <1>1, <1>3, <1>6, BackupKeeps DEF IInv, ShapeInv, Writes

-----------------------------------------------------------------------------
(* restore-release                                                         *)

RestoringSteps == RestoreSteps \cup {"sign restore"}

LEMMA RestoreKeeps ==
    ASSUME IInv, NEW o \in Operators, Moves(o, RestoringSteps),
           Writes({"restored", "restoreReport", "restore"}), UNCHANGED <<signed, points>>,
           "bundle" \in made' <=> "bundle" \in made, RestoreInv'
    PROVE  IInv'
<1>1. \A p \in Paths \ {"restored", "restoreReport", "restore"} : disk'[p] = disk[p]
  BY DEF Writes
<1>2. ShapeInv'
  BY ShapeFrame DEF IInv, ShapeInv
<1>3. IndexInv'
  <2>1. \A p \in {"lexical", "snapshot", "index"} : disk'[p] = disk[p]
    BY <1>1 DEF Paths
  <2>2. RestoringSteps \cap IndexSteps = {}
    BY DEF RestoringSteps, RestoreSteps, IndexSteps, DenseSteps
  <2>. QED BY <2>1, <2>2, IndexFrame DEF IInv
<1>4. EvidenceInv'
  <2>1. \A p \in {"index", "evidence", "verification"} : disk'[p] = disk[p]
    BY <1>1 DEF Paths
  <2>2. "assemble" \notin RestoringSteps
    BY DEF RestoringSteps, RestoreSteps
  <2>. QED BY <2>1, <2>2, EvidenceFrame DEF IInv
<1>5. BundleInv'
  <2>1. \A p \in {"bundle", "labels", "manifest"} : disk'[p] = disk[p]
    BY <1>1 DEF Paths
  <2>2. RestoringSteps \cap ({"make bundle"} \cup BundleSteps) = {}
    BY DEF RestoringSteps, RestoreSteps, BundleSteps
  <2>. QED BY <2>1, <2>2, BundleFrame DEF IInv
<1>. QED BY <1>2, <1>3, <1>4, <1>5 DEF IInv

LEMMA RestoreStarts ==
    ASSUME IInv, NEW o \in Operators,
           \/ StartRestore(o)
           \/ InstallDirectory(o, "install private", "private", "verify bundle")
           \/ VerifyBundle(o)
    PROVE  IInv'
<1>. DEFINE steps == {"install private", "verify bundle", "make restored"}
<1>1. /\ Moves(o, steps) /\ Writes({"report"}) /\ UNCHANGED <<signed, points>>
      /\ made' = made \/ made' = made \cup {"private"}
  <2>1. CASE StartRestore(o)
    BY <2>1, Holding DEF StartRestore, Begin, IInv, ShapeInv, Writes
  <2>2. CASE InstallDirectory(o, "install private", "private", "verify bundle")
    BY <2>2, Going DEF InstallDirectory, IInv, ShapeInv, Writes
  <2>3. CASE VerifyBundle(o)
    BY <2>3, Holding, Failing DEF VerifyBundle, IInv, ShapeInv, Writes
  <2>. QED BY <2>1, <2>2, <2>3
<1>2. steps \cap Watched = {}
  BY DEF Watched, IndexSteps, DenseSteps, BundleSteps, RestoreSteps
<1>. QED BY <1>1, <1>2, QuietStep

LEMMA MakeRestoredStep ==
    ASSUME IInv, NEW o \in Operators, MakeDirectory(o, "make restored", "restored", "copy restored")
    PROVE  IInv'
<1>0. job[o].at = "make restored" /\ UNCHANGED <<disk, signed, points>>
  BY DEF MakeDirectory
<1>1. CASE "restored" \in made
  BY <1>0, <1>1, FailStep DEF MakeDirectory
<1>2. CASE "restored" \notin made
  <2>1. made' = made \cup {"restored"} /\ Goto(o, "copy restored")
    BY <1>2 DEF MakeDirectory
  <2>2. Moves(o, RestoringSteps) /\ job'[o].at = "copy restored"
    BY <1>0, <2>1, Going DEF IInv, RestoringSteps, RestoreSteps
  <2>3. ~There("restored") /\ \A q \in Operators : job[q].at # "copy restored"
    BY <1>2 DEF IInv, RestoreInv
  <2>4. \A q \in Operators : job'[q].at = "copy restored" => q = o
    BY <2>2, <2>3 DEF Moves
  <2>5. \A q \in Operators : job'[q].at \in {"install", "evaluate", "attest restore"}
                                => "bundle" \in signed
    BY <2>2 DEF IInv, RestoreInv, Moves
  <2>6. RestoreInv'
    BY <1>0, <2>1, <2>3, <2>4, <2>5 DEF IInv, RestoreInv, There
  <2>. QED BY <1>0, <2>1, <2>2, <2>6, RestoreKeeps DEF IInv, ShapeInv, Writes
<1>. QED BY <1>1, <1>2

LEMMA CopyRestoredStep ==
    ASSUME IInv, NEW o \in Operators, CopyRestored(o)
    PROVE  IInv'
<1>1. /\ job[o].at = "copy restored" /\ UNCHANGED <<signed, points>>
      /\ "restored" \in made /\ ~There("restored") /\ ~There("restore")
      /\ \A q \in Operators : job[q].at = "copy restored" => q = o
  BY DEF CopyRestored, IInv, RestoreInv
<1>2. /\ Moves(o, RestoringSteps) /\ job'[o].at = "idle"
      /\ \E content : disk' = [disk EXCEPT !["restored"] = content]
      /\ \/ made' = made
         \/ disk' = [disk EXCEPT !["restored"] = None] /\ made' = made \ {"restored"}
  <2>1. Fail(o)
    BY DEF CopyRestored, Goto
  <2>2. Moves(o, RestoringSteps) /\ job'[o].at = "idle"
    BY <2>1, Failing DEF IInv
  <2>. QED BY <2>2 DEF CopyRestored
<1>3. /\ Writes({"restored", "restoreReport", "restore"}) /\ disk'["restore"] = disk["restore"]
      /\ "restored" \notin made' => disk'["restored"] = None
  BY <1>1, <1>2 DEF IInv, ShapeInv, Writes, Paths
<1>4. \A q \in Operators : job'[q].at # "copy restored"
  BY <1>1, <1>2 DEF Moves
<1>5. \A q \in Operators : job'[q].at \in {"install", "evaluate", "attest restore"}
                              => "bundle" \in signed
  BY <1>2 DEF IInv, RestoreInv, Moves
<1>6. RestoreInv'
  BY <1>1, <1>3, <1>4, <1>5 DEF RestoreInv, There
<1>. QED BY <1>1, <1>2, <1>3, <1>6, RestoreKeeps

\* A step of a job that attests a restore.
LEMMA AttestingGoes ==
    ASSUME IInv, NEW o \in Operators, "bundle" \in signed,
           Moves(o, {"install", "evaluate", "attest restore", "sign restore"}),
           Writes({"restoreReport", "restore"}), UNCHANGED <<signed, points>>,
           "bundle" \in made' <=> "bundle" \in made, "restored" \in made' <=> "restored" \in made,
           There("restore")' =>
              /\ There("manifest")' /\ There("restored")' /\ There("restoreReport")'
              /\ disk'["restore"].bundle = disk'["manifest"].bundle
              /\ disk'["restoreReport"].green
              /\ disk'["restored"].snapshot = disk'["manifest"].files.snapshot
              /\ disk'["restoreReport"].snapshot = disk'["restored"].snapshot
    PROVE  IInv'
<1>1. disk'["restored"] = disk["restored"] /\ Writes({"restored", "restoreReport", "restore"})
  BY DEF Writes, Paths
<1>2. \A q \in Operators : job'[q].at = "copy restored" => job'[q] = job[q]
  BY DEF Moves
<1>3. RestoreInv'
  BY <1>1, <1>2 DEF IInv, RestoreInv, There
<1>4. Moves(o, RestoringSteps)
  BY DEF Moves, RestoringSteps, RestoreSteps
<1>. QED BY <1>1, <1>3, <1>4, RestoreKeeps

LEMMA AttestationStarts ==
    ASSUME IInv, NEW o \in Operators,
           \/ StartAttestation(o)
           \/ InstallDirectory(o, "install", "attestations", "evaluate")
    PROVE  IInv'
<1>. DEFINE steps == {"install", "evaluate", "attest restore", "sign restore"}
<1>1. /\ Moves(o, steps) /\ UNCHANGED <<disk, signed, points>> /\ "bundle" \in signed
      /\ made' = made \/ made' = made \cup {"attestations"}
  <2>1. CASE StartAttestation(o)
    BY <2>1, Holding DEF StartAttestation, Begin, IInv
  <2>2. CASE InstallDirectory(o, "install", "attestations", "evaluate")
    BY <2>2, Going DEF InstallDirectory, IInv, RestoreInv
  <2>. QED BY <2>1, <2>2
<1>2. Writes({"restoreReport", "restore"})
  BY <1>1 DEF IInv, ShapeInv, Writes
<1>. QED BY <1>1, <1>2, AttestingGoes DEF IInv, RestoreInv, There

LEMMA EvaluateRestoredStep ==
    ASSUME IInv, NEW o \in Operators, EvaluateRestored(o)
    PROVE  IInv'
<1>. DEFINE steps == {"install", "evaluate", "attest restore", "sign restore"}
<1>0. /\ job[o].at = "evaluate" /\ UNCHANGED <<made, signed, points>> /\ "bundle" \in signed
  BY DEF EvaluateRestored, IInv, RestoreInv
<1>1. CASE Fail(o) /\ disk' = disk
  BY <1>0, <1>1, FailStep
<1>2. ASSUME NEW content, NEW at \in {"attest restore", "idle"},
             Put(o, "restoreReport", content, at)
      PROVE  IInv'
  <2>1. at \in steps \cup {"idle"} /\ "restoreReport" \in Paths /\ job[o].at # "idle"
    BY <1>0, <1>2 DEF Paths
  <2>2. /\ Moves(o, steps) /\ Writes({"restoreReport"})
        /\ disk' = disk \/ ~There("restoreReport")
    BY <1>2, <2>1, Putting DEF IInv
  <2>3. /\ Writes({"restoreReport", "restore"}) /\ disk'["restore"] = disk["restore"]
    BY <2>2 DEF Writes, Paths
  <2>4. CASE disk' = disk
    BY <1>0, <2>2, <2>3, <2>4, AttestingGoes DEF IInv, RestoreInv, There
  <2>5. CASE ~There("restoreReport")
    <3>1. ~There("restore")'
      BY <2>3, <2>5 DEF IInv, RestoreInv, There
    <3>. QED BY <1>0, <2>2, <2>3, <3>1, AttestingGoes
  <2>. QED BY <2>2, <2>4, <2>5
<1>3. \/ Fail(o) /\ disk' = disk
      \/ \E content : \E at \in {"attest restore", "idle"} : Put(o, "restoreReport", content, at)
  BY DEF EvaluateRestored
<1>. QED BY <1>1, <1>2, <1>3

LEMMA AttestRestoreStep ==
    ASSUME IInv, NEW o \in Operators, AttestRestore(o)
    PROVE  IInv'
<1>. DEFINE steps == {"install", "evaluate", "attest restore", "sign restore"}
            content == [kind |-> "restore", bundle |-> disk["manifest"].bundle]
<1>0. /\ job[o].at = "attest restore" /\ UNCHANGED <<made, signed, points>> /\ "bundle" \in signed
  BY DEF AttestRestore, IInv, RestoreInv
<1>1. CASE Fail(o) /\ disk' = disk
  BY <1>0, <1>1, FailStep
<1>2. CASE There("restoreReport") /\ RestoreHolds /\ Put(o, "restore", content, "sign restore")
  <2>1. content.bundle = disk["manifest"].bundle
    OBVIOUS
  <2>. HIDE DEF content
  <2>2. "sign restore" \in steps \cup {"idle"} /\ "restore" \in Paths /\ job[o].at # "idle"
    BY <1>0 DEF Paths
  <2>3. /\ Moves(o, steps) /\ Writes({"restore"})
        /\ disk' = disk \/ disk'["restore"] = content
    BY <1>2, <2>2, Putting DEF IInv
  <2>4. /\ Writes({"restoreReport", "restore"})
        /\ disk'["restoreReport"] = disk["restoreReport"] /\ disk'["restored"] = disk["restored"]
        /\ disk'["manifest"] = disk["manifest"]
    BY <2>3 DEF Writes, Paths
  <2>5. CASE disk' = disk
    BY <1>0, <2>3, <2>4, <2>5, AttestingGoes DEF IInv, RestoreInv, There
  <2>6. CASE disk'["restore"] = content
    <3>1. /\ There("manifest") /\ There("restored") /\ disk["restoreReport"].green
          /\ disk["restored"].snapshot = disk["manifest"].files.snapshot
          /\ disk["restoreReport"].snapshot = disk["restored"].snapshot
      BY <1>2 DEF RestoreHolds, BackupVerifies
    <3>. QED BY <1>0, <1>2, <2>1, <2>3, <2>4, <2>6, <3>1, AttestingGoes DEF There
  <2>. QED BY <2>3, <2>5, <2>6
<1>. QED BY <1>1, <1>2 DEF AttestRestore

-----------------------------------------------------------------------------
(* Removals                                                                *)

LEMMA RemoveStep ==
    ASSUME IInv, NEW ps, NEW ds, Remove(ps, ds), ps \subseteq Paths,
           ps \cap {"index", "evidence", "verification", "restored", "restore"} = {},
           "lexical" \in ps \/ "snapshot" \in ps => ~There("index"),
           "restoreReport" \in ps => ~There("restore"),
           "restored" \notin ds,
           \/ "bundle" \notin ds /\ ps \cap {"bundle", "labels", "manifest"} = {}
           \/ "bundle" \notin signed /\ {"bundle", "labels", "manifest"} \subseteq ps
    PROVE  IInv'
<1>1. /\ \A o \in Operators : job'[o] = Idle /\ job[o] = Idle /\ job'[o].at = "idle"
      /\ DOMAIN disk' = Paths /\ DOMAIN job' = Operators
      /\ \A p \in Paths : disk'[p] = IF p \in ps THEN None ELSE disk[p]
      /\ made' = made \ ds /\ UNCHANGED <<signed, points, job>>
  BY DEF Remove, Quiet, Idle, IInv, ShapeInv
<1>2. ShapeInv'
  BY <1>1 DEF IInv, ShapeInv
<1>3. IndexInv'
  <2>1. disk'["index"] = disk["index"]
    BY <1>1 DEF Paths
  <2>2. There("index") => disk'["lexical"] = disk["lexical"] /\ disk'["snapshot"] = disk["snapshot"]
    BY <1>1 DEF Paths
  <2>. QED BY <1>1, <2>1, <2>2 DEF IInv, IndexInv, There, WholeSnapshot, Whole, DenseSteps
<1>4. EvidenceInv'
  <2>1. \A p \in {"index", "evidence", "verification"} : disk'[p] = disk[p]
    BY <1>1 DEF Paths
  <2>. QED BY <1>1, <2>1 DEF IInv, EvidenceInv, There
<1>5. BundleInv'
  <2>1. CASE "bundle" \notin ds /\ ps \cap {"bundle", "labels", "manifest"} = {}
    <3>1. \A p \in {"bundle", "labels", "manifest"} : disk'[p] = disk[p]
      BY <1>1, <2>1 DEF Paths
    <3>. QED BY <1>1, <2>1, <3>1 DEF IInv, BundleInv, There, BundleSteps, BackupBundle
  <2>2. CASE "bundle" \notin signed /\ {"bundle", "labels", "manifest"} \subseteq ps
    <3>1. \A p \in {"bundle", "labels", "manifest"} : disk'[p] = None
      BY <1>1, <2>2 DEF Paths
    <3>. QED BY <1>1, <2>2, <3>1 DEF BundleInv, There, BundleSteps
  <2>. QED BY <2>1, <2>2
<1>6. RestoreInv'
  <2>1. \A p \in {"restored", "restore"} : disk'[p] = disk[p]
    BY <1>1 DEF Paths
  <2>2. There("restore") => disk'["restoreReport"] = disk["restoreReport"]
    BY <1>1 DEF Paths
  <2>3. "bundle" \in signed => disk'["manifest"] = disk["manifest"]
    BY <1>1 DEF Paths
  <2>. QED BY <1>1, <2>1, <2>2, <2>3 DEF IInv, RestoreInv, There
<1>. QED BY <1>2, <1>3, <1>4, <1>5, <1>6 DEF IInv

LEMMA CleanUpStep ==
    ASSUME IInv, CleanUp
    PROVE  IInv'
<1>1. CASE ~There("index") /\ Remove({"lexical"}, {})
  BY <1>1, RemoveStep DEF Paths
<1>2. CASE ~There("index") /\ Remove({"lexical", "snapshot"}, {})
  BY <1>2, RemoveStep DEF Paths
<1>3. CASE Remove({"report"}, {})
  BY <1>3, RemoveStep DEF Paths
<1>4. CASE "bundle" \notin signed /\ Remove({"bundle", "labels", "manifest"}, {"bundle"})
  BY <1>4, RemoveStep DEF Paths
<1>5. CASE Remove({}, {"private"})
  BY <1>5, RemoveStep
<1>6. CASE ~There("restore") /\ Remove({"restoreReport"}, {"attestations"})
  BY <1>6, RemoveStep DEF Paths
<1>. QED BY <1>1, <1>2, <1>3, <1>4, <1>5, <1>6 DEF CleanUp

-----------------------------------------------------------------------------
(* The invariant                                                           *)

LEMMA Initial == Init => IInv
<1>. SUFFICES ASSUME Init PROVE IInv
  OBVIOUS
<1>1. \A o \in Operators : job[o] = Idle /\ job[o].at = "idle"
  BY DEF Init, Idle
<1>2. \A p \in Paths : ~There(p)
  BY DEF Init, There
<1>3. ShapeInv
  BY <1>1 DEF Init, ShapeInv
<1>4. IndexInv
  BY <1>1, <1>2 DEF IndexInv, DenseSteps, Paths
<1>5. EvidenceInv
  BY <1>1, <1>2 DEF EvidenceInv, Paths
<1>6. BundleInv
  BY <1>1, <1>2 DEF Init, BundleInv, BundleSteps, Paths
<1>7. RestoreInv
  BY <1>1, <1>2 DEF Init, RestoreInv, Paths
<1>. QED BY <1>3, <1>4, <1>5, <1>6, <1>7 DEF IInv

LEMMA Unchanging ==
    ASSUME IInv, UNCHANGED <<disk, made, signed, points, job>>
    PROVE  IInv'
<1>1. ShapeInv' /\ EvidenceInv'
  BY DEF IInv, ShapeInv, EvidenceInv, There
<1>2. IndexInv'
  <2>1. \A o \in Operators : /\ Indexed(o)' <=> Indexed(o)
                           /\ WholeSnapshot(o)' = WholeSnapshot(o)
    BY DEF Indexed, Sent, Whole, WholeSnapshot
  <2>. QED BY <2>1 DEF IInv, IndexInv, There
<1>3. BundleInv' /\ RestoreInv'
  BY DEF IInv, BundleInv, RestoreInv, There
<1>. QED BY <1>1, <1>2, <1>3 DEF IInv

LEMMA Inductive == IInv /\ [Next]_vars => IInv'
<1>. SUFFICES ASSUME IInv, [Next]_vars PROVE IInv'
  OBVIOUS
<1>1. ASSUME NEW o \in Operators, Index(o) PROVE IInv'
  BY <1>1, IndexStarts, LinkLexicalStep, UpsertStep, VerifyDenseStep, CreateSnapshotStep,
     ExportStep, HashIndexStep, WriteIndexEvidenceStep DEF Index
<1>2. ASSUME NEW o \in Operators, Evaluate(o) PROVE IInv'
  BY <1>2, EvaluateStep
<1>3. ASSUME NEW o \in Operators, Verify(o) PROVE IInv'
  BY <1>3, StartVerificationStep, ReadEvidenceStep, AssembleStep, AttestVerificationStep,
     SignOtherStep DEF Verify
<1>4. ASSUME NEW o \in Operators, Backup(o) PROVE IInv'
  BY <1>4, StartBackupStep, OpenInputsStep, MakeBundleStep, CopyPayloadStep, EncryptLabelsStep,
     WriteBackupManifestStep, SignBundleStep DEF Backup
<1>5. ASSUME NEW o \in Operators, Restore(o) PROVE IInv'
  BY <1>5, RestoreStarts, MakeRestoredStep, CopyRestoredStep, AttestationStarts,
     EvaluateRestoredStep, AttestRestoreStep, SignOtherStep DEF Restore
<1>6. ASSUME NEW o \in Operators, Stop(o) PROVE IInv'
  BY <1>6, FailStep DEF Stop
<1>7. CASE Promote
  BY <1>7, Unchanging DEF Promote
<1>8. CASE CleanUp
  BY <1>8, CleanUpStep
<1>9. CASE UNCHANGED vars
  BY <1>9, Unchanging DEF vars
<1>. QED BY <1>1, <1>2, <1>3, <1>4, <1>5, <1>6, <1>7, <1>8, <1>9 DEF Next

(* However the five scripts interleave, fail, are stopped and are cleaned  *)
(* up after: one job at a time past the lexical index, inside the backup   *)
(* bundle and inside the restored directory, and the evidence follows the  *)
(* files it was made of.                                                   *)
THEOREM Invariance == Spec => []IInv
BY Initial, Inductive, PTL DEF Spec

-----------------------------------------------------------------------------
(* What the index evidence binds is there unchanged, and every eligible    *)
(* chunk has the vector of one model lock, although only a sample of the   *)
(* vectors is compared and every index job writes the same collection      *)
(* (build_lexical_index, build_dense_candidate, DenseIndex.verify,         *)
(* export_dense_snapshot, create_index_release_evidence).                  *)
THEOREM BoundIndexIsWhole == Spec => []IndexIsWhole
<1>1. IInv => IndexIsWhole
  <2>. SUFFICES ASSUME IInv, There("index") PROVE IndexIsWhole
    BY DEF IndexIsWhole
  <2>1. PICK o \in Operators : disk["index"] = [kind |-> "index", lexical |-> disk["lexical"],
                                                 snapshot |-> WholeSnapshot(o)]
    BY DEF IInv, IndexInv
  <2>2. disk["index"].snapshot.points = [c \in Chunks |-> Encoder[o]]
    BY <2>1 DEF WholeSnapshot, Whole
  <2>3. Encoder[o] \in {Encoder[q] : q \in Operators}
    OBVIOUS
  <2>4. disk["snapshot"] = disk["index"].snapshot /\ disk["lexical"] = disk["index"].lexical
    BY <2>1 DEF IInv, IndexInv
  <2>. QED BY <2>2, <2>3, <2>4 DEF IndexIsWhole
<1>. QED BY <1>1, Invariance, PTL

(* The report that a verification attestation carries is green and of the  *)
(* snapshot attested, which is still the file; an attested restore is what *)
(* its green report measured and what the signed bundle still holds        *)
(* (assemble_release_verification_evidence, create_restore_attestation).   *)
THEOREM AttestationsAreMeasured == Spec => []AttestedIsMeasured
<1>1. IInv => AttestedIsMeasured
  <2>. SUFFICES ASSUME IInv PROVE AttestedIsMeasured
    OBVIOUS
  <2>1. There("verification") =>
           /\ disk["verification"].evidence.report.green
           /\ disk["verification"].evidence.report.snapshot
                = disk["verification"].evidence.index.snapshot
           /\ disk["index"] = disk["verification"].evidence.index
           /\ disk["snapshot"] = disk["verification"].evidence.index.snapshot
    BY DEF IInv, EvidenceInv, IndexInv
  <2>2. There("restore") =>
           /\ There("bundle") /\ There("restored") /\ There("restoreReport")
           /\ disk["restore"].bundle = BackupBundle(disk["bundle"])
           /\ disk["restoreReport"].green
           /\ disk["restoreReport"].snapshot = disk["bundle"].snapshot
           /\ disk["restored"].snapshot = disk["bundle"].snapshot
    BY DEF IInv, RestoreInv, BundleInv
  <2>. QED BY <2>1, <2>2 DEF AttestedIsMeasured
<1>. QED BY <1>1, Invariance, PTL

-----------------------------------------------------------------------------
(* No step rewrites an attestation                                         *)

Immutable == {"lexical", "index", "report", "evidence", "verification", "manifest",
              "restoreReport", "restore"}

Kept == \A p \in Immutable : There(p) => disk'[p] \in {disk[p], None}

LEMMA PutKeeps ==
    ASSUME ShapeInv, NEW o, NEW p \in Paths, NEW content, NEW next, Put(o, p, content, next)
    PROVE  Kept
<1>1. CASE There(p)
  BY <1>1 DEF Put, Kept
<1>2. CASE ~There(p)
  <2>1. disk' = [disk EXCEPT ![p] = content]
    BY <1>2 DEF Put
  <2>. QED BY <1>2, <2>1 DEF Kept, ShapeInv, Immutable, Paths
<1>. QED BY <1>1, <1>2

LEMMA UnwrittenKeeps ==
    ASSUME disk' = disk
    PROVE  Kept
BY DEF Kept

LEMMA ExceptKeeps ==
    ASSUME ShapeInv, NEW q \in Paths \ Immutable, NEW content, disk' = [disk EXCEPT ![q] = content]
    PROVE  Kept
BY DEF Kept, ShapeInv, Immutable, Paths

LEMMA IndexOnce ==
    ASSUME ShapeInv, NEW o \in Operators, Index(o)
    PROVE  Kept
<1>1. CASE \/ StartIndex(o) \/ BuildLexical(o) \/ Upsert(o) \/ VerifyDense(o)
           \/ CreateSnapshot(o) \/ HashIndex(o)
  BY <1>1, UnwrittenKeeps
     DEF StartIndex, Begin, BuildLexical, Upsert, VerifyDense, CreateSnapshot, HashIndex
<1>2. CASE LinkLexical(o)
  BY <1>2, PutKeeps DEF LinkLexical, Paths
<1>3. CASE OpenSnapshot(o) \/ Download(o)
  <2>1. disk' = disk \/ \E content : disk' = [disk EXCEPT !["snapshot"] = content]
    BY <1>3 DEF OpenSnapshot, Download
  <2>2. "snapshot" \in Paths \ Immutable
    BY DEF Paths, Immutable
  <2>. QED BY <2>1, <2>2, UnwrittenKeeps, ExceptKeeps
<1>4. CASE WriteIndexEvidence(o)
  BY <1>4, PutKeeps, UnwrittenKeeps DEF WriteIndexEvidence, Paths
<1>. QED BY <1>1, <1>2, <1>3, <1>4 DEF Index

LEMMA EvaluateOnce ==
    ASSUME ShapeInv, NEW o \in Operators, Evaluate(o)
    PROVE  Kept
BY PutKeeps, UnwrittenKeeps DEF Evaluate, StartEvaluation, Begin, HashReport, WriteReport, Paths

LEMMA VerifyOnce ==
    ASSUME ShapeInv, NEW o \in Operators, Verify(o)
    PROVE  Kept
BY PutKeeps, UnwrittenKeeps
   DEF Verify, StartVerification, Begin, ReadEvidence, Assemble, AttestVerification, Sign, Paths

LEMMA BackupOnce ==
    ASSUME ShapeInv, NEW o \in Operators, Backup(o)
    PROVE  Kept
<1>1. CASE \/ StartBackup(o) \/ OpenInputs(o) \/ Sign(o, "bundle")
           \/ MakeDirectory(o, "make bundle", "bundle", "copy bundle")
  BY <1>1, UnwrittenKeeps DEF StartBackup, Begin, OpenInputs, Sign, MakeDirectory
<1>2. CASE CopyPayload(o) \/ EncryptLabels(o)
  <2>1. \/ \E content : \E q \in {"bundle", "labels"} : disk' = [disk EXCEPT ![q] = content]
        \/ disk' = [[disk EXCEPT !["bundle"] = None] EXCEPT !["labels"] = None]
    BY <1>2 DEF CopyPayload, EncryptLabels
  <2>2. CASE \E content : \E q \in {"bundle", "labels"} : disk' = [disk EXCEPT ![q] = content]
    <3>1. {"bundle", "labels"} \subseteq Paths \ Immutable
      BY DEF Paths, Immutable
    <3>. QED BY <2>2, <3>1, ExceptKeeps
  <2>3. CASE disk' = [[disk EXCEPT !["bundle"] = None] EXCEPT !["labels"] = None]
    BY <2>3 DEF Kept, Immutable, ShapeInv, Paths
  <2>. QED BY <2>1, <2>2, <2>3
<1>3. CASE WriteBackupManifest(o)
  BY <1>3, PutKeeps, UnwrittenKeeps DEF WriteBackupManifest, Paths
<1>. QED BY <1>1, <1>2, <1>3 DEF Backup

LEMMA RestoreOnce ==
    ASSUME ShapeInv, NEW o \in Operators, Restore(o)
    PROVE  Kept
<1>1. CASE \/ StartRestore(o) \/ VerifyBundle(o) \/ StartAttestation(o) \/ Sign(o, "restore")
           \/ InstallDirectory(o, "install private", "private", "verify bundle")
           \/ MakeDirectory(o, "make restored", "restored", "copy restored")
           \/ InstallDirectory(o, "install", "attestations", "evaluate")
  BY <1>1, UnwrittenKeeps
     DEF StartRestore, Begin, VerifyBundle, StartAttestation, Sign, InstallDirectory, MakeDirectory
<1>2. CASE CopyRestored(o)
  <2>1. \E content : disk' = [disk EXCEPT !["restored"] = content]
    BY <1>2 DEF CopyRestored
  <2>2. "restored" \in Paths \ Immutable
    BY DEF Paths, Immutable
  <2>. QED BY <2>1, <2>2, ExceptKeeps
<1>3. CASE EvaluateRestored(o)
  BY <1>3, PutKeeps, UnwrittenKeeps DEF EvaluateRestored, Paths
<1>4. CASE AttestRestore(o)
  BY <1>4, PutKeeps, UnwrittenKeeps DEF AttestRestore, Paths
<1>. QED BY <1>1, <1>2, <1>3, <1>4 DEF Restore

(* Whoever runs what script at the same time, and whatever was removed in  *)
(* between: evidence, reports and attestations that are there are never    *)
(* given another content (_write_new_file, _write_new_report).             *)
THEOREM AttestationsAreImmutable == Spec => WrittenOnce
<1>1. IInv /\ [Next]_vars => [Kept]_vars
  <2>. SUFFICES ASSUME IInv, Next PROVE Kept
    OBVIOUS
  <2>0. ShapeInv
    BY DEF IInv
  <2>1. CASE \E o \in Operators : Index(o) \/ Evaluate(o) \/ Verify(o) \/ Backup(o) \/ Restore(o)
    BY <2>0, <2>1, IndexOnce, EvaluateOnce, VerifyOnce, BackupOnce, RestoreOnce
  <2>2. CASE (\E o \in Operators : Stop(o)) \/ Promote
    BY <2>2, UnwrittenKeeps DEF Stop, Promote
  <2>3. CASE CleanUp
    <3>1. PICK ps, ds : Remove(ps, ds)
      BY <2>3 DEF CleanUp
    <3>2. \A p \in Paths : disk'[p] \in {disk[p], None}
      BY <3>1 DEF Remove
    <3>. QED BY <3>2 DEF Kept, Immutable, Paths
  <2>. QED BY <2>1, <2>2, <2>3 DEF Next
<1>2. [Kept]_vars =>
      [\A p \in {"lexical", "index", "report", "evidence", "verification", "manifest",
                 "restoreReport", "restore"} : There(p) => disk'[p] \in {disk[p], None}]_vars
  BY DEF Kept, Immutable
<1>. QED BY <1>1, <1>2, Invariance, PTL DEF Spec, WrittenOnce
-----------------------------------------------------------------------------
(* The search over the indexes that build-indexes makes.                   *)

\* What load and _revalidate_parent let through is shown, with its relations.
LEMMA HitIsGrounded ==
    ASSUME NEW store, NEW f, NEW hit, Hybrid!Loadable(store, hit),
           Hybrid!Acceptable(Hybrid!Load(store, f, hit), hit, f)
    PROVE  \A id \in Hybrid!Named(Hybrid!Result(Hybrid!Load(store, f, hit), hit)) :
              id \in DOMAIN store.cases /\ Hybrid!Shown(store, f, id)
<1> DEFINE parent == Hybrid!Load(store, f, hit)
           result == Hybrid!Result(parent, hit)
           good(id) == id \in DOMAIN store.cases /\ Hybrid!Shown(store, f, id)
<1>1. /\ parent.case = store.cases[hit.case]
      /\ parent.doc = store.docs[store.cases[hit.case].doc]
      /\ parent.relations = {r \in Hybrid!RelationsOf(store, hit.case) :
                                Hybrid!Shown(store, f, Hybrid!Other(r, hit.case))}
  BY DEF Hybrid!Load
<1> HIDE DEF parent
<1>2. good(hit.case)
  <2>1. hit.case \in DOMAIN store.cases
    BY DEF Hybrid!Loadable
  <2>2. Hybrid!Shown(store, f, hit.case)
    BY <1>1 DEF Hybrid!Acceptable, Hybrid!Selected, Hybrid!Shown, parent
  <2> QED
    BY <2>1, <2>2
<1>3. ASSUME NEW r \in parent.relations
      PROVE  good(Hybrid!Other(r, hit.case))
  BY <1>1 DEF Hybrid!Loadable
<1>4. ASSUME NEW r \in parent.relations
      PROVE  /\ r.source = hit.case => good(r.target)
             /\ r.target = hit.case => good(r.source)
  BY <1>2, <1>3 DEF Hybrid!Other
<1>5. /\ result.case = hit.case
      /\ result.related = Hybrid!Ends(parent, hit, {"related", "duplicate"})
      /\ result.conflicts = Hybrid!Ends(parent, hit, {"conflicts"})
      /\ result.supersedes = {r.target : r \in {x \in parent.relations :
                                                  x.type = "supersedes" /\ x.source = hit.case}}
      /\ result.supersededBy = {r.source : r \in {x \in parent.relations :
                                                    x.type = "supersedes" /\ x.target = hit.case}}
  BY DEF Hybrid!Result
<1> HIDE DEF result, good
<1>6. \A types : \A id \in Hybrid!Ends(parent, hit, types) : good(id)
  BY <1>3 DEF Hybrid!Ends
<1>7. (\A id \in result.supersedes : good(id)) /\ (\A id \in result.supersededBy : good(id))
  BY <1>4, <1>5
<1>8. \A id \in Hybrid!Named(result) : good(id)
  BY <1>2, <1>5, <1>6, <1>7 DEF Hybrid!Named
<1> QED
  BY <1>8 DEF good, result, parent

\* A search has no results, or one for each hit it could load and accept.
LEMMA SearchedIsAccepted ==
    ASSUME NEW store, NEW lexical, NEW dense, NEW q
    PROVE  LET response == Hybrid!Search(store, lexical, dense, q)
           IN  \/ response.results = <<>>
               \/ \E hits :
                     /\ DOMAIN response.results = DOMAIN hits
                     /\ \A i \in DOMAIN hits :
                           LET parent == Hybrid!Load(store, q.filters, hits[i])
                           IN  /\ Hybrid!Loadable(store, hits[i])
                               /\ Hybrid!Acceptable(parent, hits[i], q.filters)
                               /\ response.results[i] = Hybrid!Result(parent, hits[i])
<1> DEFINE lex == Hybrid!LexicalSearch(lexical, q.config, q.lexOrder, q.exact, q.filters)
           near == Hybrid!DenseSearch(dense, q.release, q.encoder, q.denseOrder, q.filters)
           hits == Hybrid!Listed(lexical, dense, q)
           parent(i) == Hybrid!Load(store, q.filters, hits[i])
           results == [i \in DOMAIN hits |-> Hybrid!Result(parent(i), hits[i])]
           answer == [ok |-> TRUE, results |-> results, reasons |-> Hybrid!Reasons(results, q.exact)]
           response == Hybrid!Search(store, lexical, dense, q)
<1> HIDE DEF lex, near, hits
<1>1. \/ response = Hybrid!SearchFailed
      \/ /\ \A i \in DOMAIN hits : Hybrid!Loadable(store, hits[i])
         /\ \A i \in DOMAIN hits : Hybrid!Acceptable(parent(i), hits[i], q.filters)
         /\ response = answer
  BY DEF Hybrid!Search, lex, near, hits
<1>2. Hybrid!SearchFailed.results = <<>>
  BY DEF Hybrid!SearchFailed
<1>3. answer.results = results
  OBVIOUS
<1>4. DOMAIN results = DOMAIN hits /\ \A i \in DOMAIN hits : results[i] = Hybrid!Result(parent(i), hits[i])
  OBVIOUS
<1> HIDE DEF parent, results, answer, response
<1> QED
  BY <1>1, <1>2, <1>3, <1>4 DEF parent, response

(* For every store, every query and whatever another state of the cases    *)
(* has left in the lexical index: what a search names, as a result or at   *)
(* the other end of a relation, may be shown now.                          *)
THEOREM SearchGrounded == SearchIsGrounded
<1> SUFFICES ASSUME NEW store, NEW lexical, NEW dense, NEW q
             PROVE  Hybrid!AnswersAreGrounded(store, lexical, dense, q)
  BY DEF SearchIsGrounded
<1> DEFINE results == Hybrid!Search(store, lexical, dense, q).results
<1>1. CASE results = <<>>
  BY <1>1 DEF Hybrid!AnswersAreGrounded
<1>2. CASE \E hits :
              /\ DOMAIN results = DOMAIN hits
              /\ \A i \in DOMAIN hits :
                    LET parent == Hybrid!Load(store, q.filters, hits[i])
                    IN  /\ Hybrid!Loadable(store, hits[i])
                        /\ Hybrid!Acceptable(parent, hits[i], q.filters)
                        /\ results[i] = Hybrid!Result(parent, hits[i])
  BY <1>2, HitIsGrounded DEF Hybrid!AnswersAreGrounded
<1> QED
  BY <1>1, <1>2, SearchedIsAccepted
=============================================================================
