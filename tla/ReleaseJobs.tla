---------------------------- MODULE ReleaseJobs ----------------------------
(* The jobs that take one release from its canonical bundle to the gate of *)
(* its promotion: the scripts build-indexes, evaluate-release,             *)
(* verify-release, backup-release and restore-release, each a sequence of  *)
(* commands of src/cli.py, run by operators who do not wait for each other *)
(* and may be stopped at any step.  Files are their contents; a digest is  *)
(* the content it was taken of.  The canonical database and its manifest   *)
(* do not change.                                                          *)
EXTENDS Naturals, FiniteSets

CONSTANTS Operators, Encoder,   \* what each operator's model lock pins (a function)
          Chunks, Sampled       \* eligible chunks; those whose vectors are sampled

ASSUME SampleAssumption == Sampled \subseteq Chunks /\ Chunks # {}

None == [kind |-> "none"]
Paths == {"lexical", "snapshot", "index", "report", "evidence", "verification",
          "labels", "restored", "manifest", "bundle", "restoreReport", "restore"}
\* The step at which a script signs a file.
SignStep == [verification |-> "sign verification", bundle |-> "sign bundle",
             restore |-> "sign restore"]
Idle == [at |-> "idle"]

VARIABLES disk,     \* path -> content
          made,     \* directories that exist: the bundle, the restore and its private part, its attestations
          signed,   \* files that have a signature beside them
          points,   \* the candidate collection of Qdrant: chunk -> encoder
          job,      \* operator -> the step of the script it runs, and what it holds
          gate      \* what promote_release said of the attestations last

vars == <<disk, made, signed, points, job, gate>>

Init ==
    /\ disk = [p \in Paths |-> None]
    /\ made = {} /\ signed = {}
    /\ points = [c \in {} |-> None]
    /\ job = [o \in Operators |-> Idle]
    /\ gate = "none"

There(p) == disk[p] # None

(* set -e: the first command that fails ends the script.                   *)
Fail(o) == job' = [job EXCEPT ![o] = Idle]

Goto(o, at) == IF at = "idle" THEN Fail(o) ELSE job' = [job EXCEPT ![o] = [@ EXCEPT !.at = at]]

Hold(o, at, held) == job' = [job EXCEPT ![o] = [at |-> at, held |-> held]]

Begin(o, at) ==
    /\ job[o] = Idle
    /\ Hold(o, at, None)
    /\ UNCHANGED <<disk, made, signed, points, gate>>

(* A temporary that is renamed over the name.                              *)
PutReplacing(o, p, content, next) ==
    /\ disk' = [disk EXCEPT ![p] = content]
    /\ Goto(o, next)

(* _write_new_file, _write_new_report, the end of build_lexical_index: the *)
(* complete temporary is linked, which fails when the name exists.         *)
Put(o, p, content, next) ==
    IF There(p) THEN Fail(o) /\ UNCHANGED disk
    ELSE disk' = [disk EXCEPT ![p] = content] /\ Goto(o, next)

(* minisign of what the script has just written.                           *)
Sign(o, f) ==
    /\ job[o].at = SignStep[f]
    /\ signed' = signed \cup {f}
    /\ Goto(o, "idle")
    /\ UNCHANGED <<disk, made, points, gate>>

-----------------------------------------------------------------------------
(* build-indexes.sh                                                        *)
StartIndex(o) == ~There("index") /\ Begin(o, "lexical")

(* build_lexical_index looks at its target before it reads the store.      *)
BuildLexical(o) ==
    /\ job[o].at = "lexical"
    /\ IF There("lexical") THEN Fail(o) ELSE Goto(o, "link")
    /\ UNCHANGED <<disk, made, signed, points, gate>>

(* An index that replaces the one of another job.                          *)
ReplaceLexical(o) ==
    /\ job[o].at = "link"
    /\ PutReplacing(o, "lexical", [kind |-> "lexical", chunks |-> Cardinality(Chunks)], "dense")
    /\ UNCHANGED <<made, signed, points, gate>>

LinkLexical(o) ==
    /\ job[o].at = "link"
    /\ Put(o, "lexical", [kind |-> "lexical", chunks |-> Cardinality(Chunks)], "dense")
    /\ UNCHANGED <<made, signed, points, gate>>

(* One batch of build_dense_candidate; the collection is created when it   *)
(* does not exist, and keeps what an earlier run left in it.               *)
Sent(held) == IF held = None THEN {} ELSE held.sent

Upsert(o) ==
    /\ job[o].at = "dense"
    /\ \E c \in Chunks \ Sent(job[o].held) :
         LET sent == Sent(job[o].held) \cup {c}
         IN  /\ points' = [x \in DOMAIN points \cup {c} |-> IF x = c THEN Encoder[o] ELSE points[x]]
             /\ Hold(o, IF sent = Chunks THEN "count" ELSE "dense", [sent |-> sent])
    /\ UNCHANGED <<disk, made, signed, gate>>

(* DenseIndex.verify: the exact count, and the vectors of a sample.        *)
VerifyDense(o) ==
    /\ job[o].at = "count"
    /\ IF DOMAIN points = Chunks /\ \A c \in Sampled : points[c] = Encoder[o]
       THEN Goto(o, "snapshot") ELSE Fail(o)
    /\ UNCHANGED <<disk, made, signed, points, gate>>

CreateSnapshot(o) ==
    /\ job[o].at = "snapshot"
    /\ Hold(o, "open", [kind |-> "snapshot", points |-> points])
    /\ UNCHANGED <<disk, made, signed, points, gate>>

(* export_dense_snapshot removes the name of its output whenever it fails, *)
(* and that it exists already is a failure like any other.                 *)
OpenSnapshot(o) ==
    /\ job[o].at = "open"
    /\ IF There("snapshot") THEN disk' = [disk EXCEPT !.snapshot = None] /\ Fail(o)
       ELSE disk' = [disk EXCEPT !.snapshot = [kind |-> "partial", by |-> o]] /\ Goto(o, "download")
    /\ UNCHANGED <<made, signed, points, gate>>

Download(o) ==
    /\ job[o].at = "download"
    /\ \/ /\ disk' = IF disk.snapshot = [kind |-> "partial", by |-> o]
                     THEN [disk EXCEPT !.snapshot = job[o].held] ELSE disk
          /\ Goto(o, "hash index")
       \/ disk' = [disk EXCEPT !.snapshot = None] /\ Fail(o)
    /\ UNCHANGED <<made, signed, points, gate>>

(* create_index_release_evidence: every file is hashed, inspected, and     *)
(* hashed again before the evidence is written.                            *)
HashIndex(o) ==
    /\ job[o].at = "hash index"
    /\ IF There("lexical") /\ disk.snapshot = job[o].held
       THEN Hold(o, "write index", [kind |-> "index", lexical |-> disk.lexical,
                                    snapshot |-> disk.snapshot]) ELSE Fail(o)
    /\ UNCHANGED <<disk, made, signed, points, gate>>

WriteIndexEvidence(o) ==
    /\ job[o].at = "write index"
    /\ IF /\ disk.lexical = job[o].held.lexical
          /\ disk.snapshot = job[o].held.snapshot
          /\ disk.lexical.chunks = Cardinality(DOMAIN disk.snapshot.points)
       THEN Put(o, "index", job[o].held, "idle") ELSE Fail(o) /\ UNCHANGED disk
    /\ UNCHANGED <<made, signed, points, gate>>

-----------------------------------------------------------------------------
(* evaluate-release.sh; the observations make the gates green or red, and  *)
(* the report is written either way.                                       *)
StartEvaluation(o) == There("snapshot") /\ ~There("report") /\ Begin(o, "hash report")

HashReport(o) ==
    /\ job[o].at = "hash report"
    /\ IF There("snapshot") THEN Hold(o, "write report", disk.snapshot) ELSE Fail(o)
    /\ UNCHANGED <<disk, made, signed, points, gate>>

WriteReport(o) ==
    /\ job[o].at = "write report"
    /\ \E green \in BOOLEAN :
         IF disk.snapshot = job[o].held
         THEN Put(o, "report", [kind |-> "report", snapshot |-> job[o].held, green |-> green], "idle")
         ELSE Fail(o) /\ UNCHANGED disk
    /\ UNCHANGED <<made, signed, points, gate>>

-----------------------------------------------------------------------------
(* verify-release.sh                                                       *)
StartVerification(o) ==
    /\ \A p \in {"lexical", "snapshot", "index", "report"} : There(p)
    /\ ~There("evidence") /\ ~There("verification") /\ "verification" \notin signed
    /\ Begin(o, "read")

(* assemble_release_verification_evidence: everything is read, and only    *)
(* the snapshot is hashed a second time.                                   *)
ReadEvidence(o) ==
    /\ job[o].at = "read"
    /\ IF \A p \in {"lexical", "snapshot", "index", "report"} : There(p)
       THEN Hold(o, "assemble", [kind |-> "read", lexical |-> disk.lexical, snapshot |-> disk.snapshot,
                                 index |-> disk.index, report |-> disk.report]) ELSE Fail(o)
    /\ UNCHANGED <<disk, made, signed, points, gate>>

(* Evidence that forgets which snapshot was evaluated.                     *)
AgreesWithoutReport(r) ==
    /\ r.snapshot = r.index.snapshot
    /\ r.index.lexical = r.lexical
    /\ r.report.green

Agrees(r) ==
    /\ r.report.snapshot = r.index.snapshot
    /\ r.snapshot = r.index.snapshot
    /\ r.index.lexical = r.lexical
    /\ r.report.green

Assemble(o) ==
    /\ job[o].at = "assemble"
    /\ IF Agrees(job[o].held) /\ disk.snapshot = job[o].held.index.snapshot
       THEN Put(o, "evidence", [kind |-> "evidence", index |-> job[o].held.index,
                                report |-> job[o].held.report], "attest")
       ELSE Fail(o) /\ UNCHANGED disk
    /\ UNCHANGED <<made, signed, points, gate>>

(* The two digests that an attestation may carry differ in their domain    *)
(* and in what they are taken of.                                          *)
CanonicalBundle == [domain |-> "canonical-bundle", of |-> "canonical manifest"]
BackupBundle(files) == [domain |-> "backup-bundle", of |-> files]

AttestVerification(o) ==
    /\ job[o].at = "attest"
    /\ IF There("evidence")
       THEN Put(o, "verification", [kind |-> "verification", evidence |-> disk.evidence,
                                    bundle |-> CanonicalBundle], "sign verification")
       ELSE Fail(o) /\ UNCHANGED disk
    /\ UNCHANGED <<made, signed, points, gate>>

-----------------------------------------------------------------------------
(* backup-release.sh: neither the evidence nor the gates of the report are *)
(* looked at.                                                              *)
StartBackup(o) ==
    /\ There("snapshot") /\ There("report")
    /\ "bundle" \notin made /\ "bundle" \notin signed
    /\ Begin(o, "open inputs")

(* prepare_backup_payload opens every input before it makes the directory. *)
OpenInputs(o) ==
    /\ job[o].at = "open inputs"
    /\ IF There("snapshot") /\ There("report")
       THEN Hold(o, "make bundle", [kind |-> "bundle", database |-> "backup of canonical",
                                    snapshot |-> disk.snapshot, report |-> disk.report]) ELSE Fail(o)
    /\ UNCHANGED <<disk, made, signed, points, gate>>

(* A directory that may exist already.                                     *)
EnsureDirectory(o, from, d, to) ==
    /\ job[o].at = from
    /\ made' = made \cup {d} /\ Goto(o, to)
    /\ UNCHANGED <<disk, signed, points, gate>>

MakeDirectory(o, from, d, to) ==
    /\ job[o].at = from
    /\ IF d \in made THEN Fail(o) /\ UNCHANGED made ELSE made' = made \cup {d} /\ Goto(o, to)
    /\ UNCHANGED <<disk, signed, points, gate>>

(* A copy is complete or it fails, and then the directory is removed.      *)
CopyPayload(o) ==
    /\ job[o].at = "copy bundle"
    /\ \/ disk' = [disk EXCEPT !.bundle = job[o].held] /\ Goto(o, "labels") /\ UNCHANGED made
       \/ disk' = [disk EXCEPT !.bundle = None, !.labels = None] /\ Fail(o) /\ made' = made \ {"bundle"}
    /\ UNCHANGED <<signed, points, gate>>

EncryptLabels(o) ==
    /\ job[o].at = "labels"
    /\ disk' = [disk EXCEPT !.labels = [kind |-> "labels"]]
    /\ Goto(o, "manifest")
    /\ UNCHANGED <<made, signed, points, gate>>

(* create_backup_manifest: exactly the nodes of a bundle without one.      *)
WriteBackupManifest(o) ==
    /\ job[o].at = "manifest"
    /\ IF There("bundle") /\ There("labels") /\ ~There("manifest")
       THEN Put(o, "manifest", [kind |-> "manifest", files |-> disk.bundle,
                                bundle |-> BackupBundle(disk.bundle)], "sign bundle")
       ELSE Fail(o) /\ UNCHANGED disk
    /\ UNCHANGED <<made, signed, points, gate>>

-----------------------------------------------------------------------------
(* restore-release.sh materialize, then attest.                            *)
BackupVerifies ==
    /\ There("manifest") /\ There("labels")
    /\ disk.manifest.files = disk.bundle
    /\ disk.manifest.bundle = BackupBundle(disk.bundle)

StartRestore(o) ==
    /\ "bundle" \in signed /\ made \cap {"private", "restored"} = {}
    /\ Begin(o, "install private")

(* install -d does not fail when another operator was first.               *)
InstallDirectory(o, from, d, to) ==
    /\ job[o].at = from
    /\ made' = made \cup {d}
    /\ Goto(o, to)
    /\ UNCHANGED <<disk, signed, points, gate>>

(* materialize_backup_restore verifies, opens what it will copy and only   *)
(* then makes the directory.                                               *)
VerifyBundle(o) ==
    /\ job[o].at = "verify bundle"
    /\ IF BackupVerifies THEN Hold(o, "make restored", disk.bundle) ELSE Fail(o)
    /\ UNCHANGED <<disk, made, signed, points, gate>>

CopyRestored(o) ==
    /\ job[o].at = "copy restored"
    /\ \/ /\ disk' = [disk EXCEPT !.restored = [kind |-> "restored", database |-> job[o].held.database,
                                                snapshot |-> job[o].held.snapshot]]
          /\ Goto(o, "idle") /\ UNCHANGED made
       \/ disk' = [disk EXCEPT !.restored = None] /\ Fail(o) /\ made' = made \ {"restored"}
    /\ UNCHANGED <<signed, points, gate>>

StartAttestation(o) ==
    /\ "bundle" \in signed /\ There("restored") /\ "attestations" \notin made
    /\ Begin(o, "install")

EvaluateRestored(o) ==
    /\ job[o].at = "evaluate"
    /\ \E green \in BOOLEAN :
         IF There("restored")
         THEN Put(o, "restoreReport", [kind |-> "report", database |-> disk.restored.database,
                                       snapshot |-> disk.restored.snapshot, green |-> green],
                  IF green THEN "attest restore" ELSE "idle")
         ELSE Fail(o) /\ UNCHANGED disk
    /\ UNCHANGED <<made, signed, points, gate>>

RestoreHolds ==
    /\ BackupVerifies /\ There("restored")
    /\ disk.restoreReport.green
    /\ disk.restored.database = disk.manifest.files.database
    /\ disk.restored.snapshot = disk.manifest.files.snapshot
    /\ disk.restoreReport.database = disk.restored.database
    /\ disk.restoreReport.snapshot = disk.restored.snapshot

AttestRestore(o) ==
    /\ job[o].at = "attest restore"
    /\ IF There("restoreReport") /\ RestoreHolds
       THEN Put(o, "restore", [kind |-> "restore", bundle |-> disk.manifest.bundle], "sign restore")
       ELSE Fail(o) /\ UNCHANGED disk
    /\ UNCHANGED <<made, signed, points, gate>>

-----------------------------------------------------------------------------
(* promote_release up to its gate, with the two attestations made here.    *)
Promote ==
    /\ There("verification") /\ There("restore")
    /\ gate' = IF disk.verification.bundle = disk.restore.bundle THEN "accepted"
               ELSE "attestation_mismatch"
    /\ UNCHANGED <<disk, made, signed, points, job>>

-----------------------------------------------------------------------------
(* A script that is stopped, and the operators' removal of what a stopped  *)
(* script left or of what a red evaluation wrote: never what is complete,  *)
(* and never under a running job (external).                               *)
Stop(o) == job[o] # Idle /\ Fail(o) /\ UNCHANGED <<disk, made, signed, points, gate>>

Quiet == \A o \in Operators : job[o] = Idle

Remove(ps, ds) ==
    /\ Quiet /\ (ds \cap made # {} \/ \E p \in ps : There(p))
    /\ disk' = [p \in Paths |-> IF p \in ps THEN None ELSE disk[p]]
    /\ made' = made \ ds
    /\ UNCHANGED <<signed, points, job, gate>>

CleanUp ==
    \/ ~There("index") /\ Remove({"lexical"}, {})
    \/ ~There("index") /\ Remove({"lexical", "snapshot"}, {})
    \/ There("report") /\ ~disk.report.green /\ Remove({"report"}, {})
    \/ "bundle" \notin signed /\ Remove({"bundle", "labels", "manifest"}, {"bundle"})
    \/ ~There("restored") /\ Remove({}, {"private"})
    \/ ~There("restore") /\ Remove({"restoreReport"}, {"attestations"})

-----------------------------------------------------------------------------
Index(o) == \/ StartIndex(o) \/ BuildLexical(o) \/ LinkLexical(o) \/ Upsert(o) \/ VerifyDense(o)
            \/ CreateSnapshot(o) \/ OpenSnapshot(o) \/ Download(o) \/ HashIndex(o) \/ WriteIndexEvidence(o)

Evaluate(o) == StartEvaluation(o) \/ HashReport(o) \/ WriteReport(o)

Verify(o) == \/ StartVerification(o) \/ ReadEvidence(o) \/ Assemble(o) \/ AttestVerification(o)
             \/ Sign(o, "verification")

Backup(o) == \/ StartBackup(o) \/ OpenInputs(o) \/ MakeDirectory(o, "make bundle", "bundle", "copy bundle")
             \/ CopyPayload(o) \/ EncryptLabels(o) \/ WriteBackupManifest(o) \/ Sign(o, "bundle")

Restore(o) == \/ StartRestore(o) \/ InstallDirectory(o, "install private", "private", "verify bundle")
              \/ VerifyBundle(o)
              \/ MakeDirectory(o, "make restored", "restored", "copy restored") \/ CopyRestored(o)
              \/ StartAttestation(o) \/ InstallDirectory(o, "install", "attestations", "evaluate")
              \/ EvaluateRestored(o) \/ AttestRestore(o)
              \/ Sign(o, "restore")

Next ==
    \/ \E o \in Operators : Index(o) \/ Evaluate(o) \/ Verify(o) \/ Backup(o) \/ Restore(o)
                              \/ Stop(o)
    \/ Promote
    \/ CleanUp

Spec == Init /\ [][Next]_vars

-----------------------------------------------------------------------------
(* The snapshot that an index attestation binds holds every eligible chunk *)
(* as one encoder sees it, and stays where it is: two index jobs share the *)
(* collection, and the sample alone would not tell them apart              *)
(* (build_lexical_index, DenseIndex.verify, export_dense_snapshot).        *)
IndexIsWhole ==
    There("index") =>
        /\ disk.snapshot = disk.index.snapshot /\ disk.lexical = disk.index.lexical
        /\ \E e \in {Encoder[o] : o \in Operators} :
             disk.index.snapshot.points = [c \in Chunks |-> e]

(* What is attested was measured.  The report of a verification            *)
(* attestation is green and is of the snapshot that is attested and still  *)
(* there (assemble_release_verification_evidence); an attested restore is  *)
(* what its green report measured and what the signed bundle holds         *)
(* (create_restore_attestation).                                           *)
AttestedIsMeasured ==
    /\ There("verification") =>
         LET e == disk.verification.evidence
         IN  /\ e.report.green /\ e.report.snapshot = e.index.snapshot
             /\ disk.index = e.index /\ disk.snapshot = e.index.snapshot
    /\ There("restore") =>
         /\ There("bundle") /\ There("restored") /\ There("restoreReport")
         /\ disk.restore.bundle = BackupBundle(disk.bundle)
         /\ disk.restoreReport.green /\ disk.restoreReport.snapshot = disk.bundle.snapshot
         /\ disk.restored.snapshot = disk.bundle.snapshot

(* Attestations and evidence are immutable: no step of any script gives    *)
(* one another content (_write_new_file, _write_new_report).               *)
WrittenOnce ==
    [][\A p \in {"lexical", "index", "report", "evidence", "verification", "manifest",
                 "restoreReport", "restore"} : There(p) => disk'[p] \in {disk[p], None}]_vars

(* Attestations that the program itself made for a release let it be       *)
(* promoted (docs/runbooks/index-release.md).                              *)
AttestedReleasePasses == gate # "attestation_mismatch"
=============================================================================
