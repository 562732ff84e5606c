----------------------- MODULE SnapshotPromotion_proofs ------------------------
(***************************************************************************)
(* Proofs about SnapshotPromotion with faults, for any number of ids,      *)
(* syncs and promoters.  The invariant says what the files of one id may   *)
(* be together (Sound), which of them are durable at each step of a        *)
(* promotion, and that every loss leaves files that are sound again.       *)
(***************************************************************************)
EXTENDS SnapshotPromotion, TLAPS

Late == {"VERIFIED", "POINTER_PREPARED", "PUBLISHED"}

\* What the files of one id may be: candidate, final, approval, journal entry.
Sound(c, f, a, j, seen) ==
    /\ f # None => /\ f.content # None /\ f \in seen
                   /\ j # None => f = j.directory
    /\ a # None => f # None /\ j # None /\ j.phase \in Prepared /\ a = j.approvedAt
    /\ j # None => /\ j.directory.content # None
                   /\ j.phase \in Prepared => j.approvedAt # None
                   /\ j.phase # "BUILT" => f # None
                   /\ j.phase \in Late => a # None
                   /\ f = None => c = j.directory

SoundInv ==
    \A s \in Snapshots : Sound(candidate[s], final[s], approval[s], journal[s], packets[s])

\* What the pointer selects was journaled before the pointer was written.
Pointed(j) == j # None /\ j.phase \in {"POINTER_PREPARED", "PUBLISHED"}

PointerInv == current # None => Pointed(journal[current])

KeyInv == \A s \in Snapshots : journal[s] # None \/ disk.journal[s] # None => key = "whole"

-----------------------------------------------------------------------------
(* Syncs                                                                   *)

Building == {"made", "written", "keying"}

SyncAt(y) ==
    LET s == job[y].snapshot
        d == job[y].directory
    IN  /\ pc[y] # "idle" => s \in Snapshots /\ d \in Directories /\ d.content # None
        /\ pc[y] \in {"checked"} \cup Building => (journal[s] = None => final[s] = None)
        /\ pc[y] \in Building => (journal[s] # None => final[s] # None)
        /\ pc[y] \in {"written", "keying"} => (journal[s] = None => candidate[s] = d)
        /\ pc[y] = "made" => (journal[s] = None => candidate[s] # None)
        /\ pc[y] = "keying" => key = "empty"
        /\ pc[y] = "journaled" => journal[s] # None

SyncInv == \A y \in Syncs : SyncAt(y)

\* Nobody builds what another sync is building, nor writes its key.
BuildersDiffer ==
    \A y, z \in Syncs :
        /\ pc[y] \in Building /\ pc[z] \in Building /\ job[y].snapshot = job[z].snapshot
              /\ journal[job[y].snapshot] = None => y = z
        /\ pc[y] = "keying" /\ pc[z] = "keying" => y = z

-----------------------------------------------------------------------------
(* Promoters                                                               *)

Locked == PromoterSteps \ {"idle", "waiting"}
Promoting == Locked \ {"loading"}

LockInv == \A p \in Promoters : pc[p] \in Locked => lock = p

\* The journal's phase at each step of a promotion.
PhaseAt(step) ==
    CASE step \in {"rename", "sync move", "move"} -> {"BUILT"}
      [] step \in {"sync prepare", "prepare"} -> {"MOVED"}
      [] step \in {"sync approve", "approve", "sync verify"} -> {"APPROVAL_PREPARED"}
      [] step = "verify" -> Prepared
      [] step \in {"sync ready", "ready"} -> {"VERIFIED"}
      [] step \in {"sync pointer", "pointer", "sync publish", "publish"} -> {"POINTER_PREPARED"}
      [] OTHER -> {"PUBLISHED"}

PromoterAt(p) ==
    LET s == job[p].snapshot
        d == job[p].directory
    IN  /\ pc[p] # "idle" => s \in Snapshots /\ d \in packets[s] /\ d \in Directories
        /\ pc[p] \in Promoting =>
              /\ journal[s] # None /\ journal[s].directory = d
              /\ journal[s].phase \in PhaseAt(pc[p])
              /\ current = s \/ d.previous = current
              /\ IF pc[p] = "rename" THEN candidate[s] = d /\ final[s] = None
                 ELSE final[s] # None
              /\ pc[p] \in {"sync verify", "verify"} => approval[s] # None

PromoterInv == \A p \in Promoters : PromoterAt(p)

-----------------------------------------------------------------------------
(* The disk, when the machine may die                                      *)

\* A promoter is at one of these steps of the promotion of s.
At(s, steps) == \E p \in Promoters : job[p].snapshot = s /\ pc[p] \in steps

\* A sync has made the candidate of s and not written it.
Made(s) == \E y \in Syncs : job[y].snapshot = s /\ pc[y] = "made"

DurableInv ==
    \A s \in Snapshots :
        /\ disk.final[s] = final[s] \/ At(s, {"sync move"})
        /\ disk.candidate[s] = candidate[s] \/ At(s, {"sync move"}) \/ Made(s)
        /\ disk.approval[s] = approval[s] \/ At(s, {"sync verify"})
        /\ \/ disk.journal[s] = journal[s]
           \/ disk.journal[s] = None /\ journal[s] # None /\ journal[s].phase = "BUILT"
           \/ At(s, {"sync prepare", "sync approve", "sync ready", "sync pointer", "sync check"})

PointerDurable == disk.current = current \/ \E p \in Promoters : pc[p] = "sync publish"

\* Whatever a power loss takes back, what is left is sound.
LossInv ==
    /\ \A s \in Snapshots :
          \A j \in {journal[s], disk.journal[s]}, a \in {approval[s], disk.approval[s]} :
              /\ Sound(candidate[s], final[s], a, j, packets[s])
              /\ Sound(disk.candidate[s], disk.final[s], a, j, packets[s])
    /\ \A c \in {current, disk.current} : c # None =>
          Pointed(journal[c]) /\ Pointed(disk.journal[c])

DiskInv == fault = "machine" => DurableInv /\ PointerDurable /\ LossInv

IInv == /\ TypeOK /\ SoundInv /\ PointerInv /\ KeyInv /\ SyncInv /\ BuildersDiffer
        /\ LockInv /\ PromoterInv /\ DiskInv /\ fault \in {"process", "machine"}

\* With one sync no id has a candidate besides its snapshot.
OneSync == \A y, z \in Syncs : y = z

AloneInv ==
    /\ \A s \in Snapshots : /\ final[s] # None => candidate[s] = None
                            /\ disk.final[s] # None => disk.candidate[s] = None
    /\ \A y \in Syncs : pc[y] \in {"checked"} \cup Building =>
          journal[job[y].snapshot] = None /\ final[job[y].snapshot] = None

-----------------------------------------------------------------------------
(* What the steps have in common                                           *)

\* The steps at which something replaced is not durable yet.
Unsafe == {"made", "sync move", "sync prepare", "sync approve", "sync verify",
           "sync ready", "sync pointer", "sync publish", "sync check"}

\* Every process is still where it was, or neither was nor is at one of them.
SafeMoves ==
    \A q \in Processes : \/ pc'[q] = pc[q] /\ job'[q] = job[q]
                         \/ pc[q] \notin Unsafe

SyncsRest == \A y \in Syncs : pc'[y] = pc[y] /\ job'[y] = job[y]
PromotersRest == \A p \in Promoters : pc'[p] = pc[p] /\ job'[p] = job[p]

\* A step that changes nothing but the place of processes keeps what is said
\* of the files.
LEMMA FilesAlone ==
    ASSUME IInv, UNCHANGED <<snapshotFiles, key, disk, packets, fault>>,
           fault = "machine" => SafeMoves
    PROVE  SoundInv' /\ PointerInv' /\ KeyInv' /\ DiskInv' /\ fault' \in {"process", "machine"}
<1>1. SoundInv' /\ PointerInv' /\ KeyInv' /\ fault' \in {"process", "machine"}
  BY DEF IInv, SoundInv, PointerInv, KeyInv, Sound, Pointed, Prepared, Late, snapshotFiles
<1>2. ASSUME fault = "machine" PROVE DurableInv' /\ PointerDurable' /\ LossInv'
  <2>1. ASSUME NEW s \in Snapshots, NEW steps \in SUBSET Unsafe, At(s, steps)
        PROVE  At(s, steps)'
    BY <1>2, <2>1 DEF At, SafeMoves, Processes
  <2>2. ASSUME NEW s \in Snapshots, Made(s) PROVE Made(s)'
    BY <1>2, <2>2 DEF Made, SafeMoves, Processes, Unsafe
  <2>3. DurableInv'
    <3>1. {"sync move"} \in SUBSET Unsafe /\ {"sync verify"} \in SUBSET Unsafe
            /\ {"sync prepare", "sync approve", "sync ready", "sync pointer", "sync check"}
                   \in SUBSET Unsafe
      BY DEF Unsafe
    <3>. QED BY <1>2, <2>1, <2>2, <3>1 DEF IInv, DiskInv, DurableInv, snapshotFiles
  <2>4. PointerDurable'
    BY <1>2 DEF IInv, DiskInv, PointerDurable, snapshotFiles, SafeMoves, Processes, Unsafe
  <2>5. LossInv'
    BY <1>2 DEF IInv, DiskInv, LossInv, Sound, Pointed, Prepared, Late, snapshotFiles
  <2>. QED BY <2>3, <2>4, <2>5
<1>. QED BY <1>1, <1>2 DEF DiskInv

\* A step of a promoter that leaves unjournaled ids and the key alone keeps
\* what is said of the syncs.
LEMMA SyncsAlone ==
    ASSUME SyncInv, BuildersDiffer, SyncsRest, key' = key,
           \A s \in Snapshots :
              /\ journal'[s] = None <=> journal[s] = None
              /\ journal[s] = None => candidate'[s] = candidate[s] /\ final'[s] = final[s]
              /\ final[s] # None => final'[s] # None
    PROVE  SyncInv' /\ BuildersDiffer'
<1>1. SyncInv'
  <2>1. ASSUME NEW y \in Syncs PROVE SyncAt(y)'
    BY DEF SyncInv, SyncAt, SyncsRest, Building
  <2>. QED BY <2>1 DEF SyncInv
<1>2. BuildersDiffer'
  <2>1. \A y \in Syncs : pc[y] \in Building => job[y].snapshot \in Snapshots
    BY DEF SyncInv, SyncAt, Building
  <2>. QED BY <2>1 DEF BuildersDiffer, SyncsRest, Building
<1>. QED BY <1>1, <1>2

\* A step of a sync that leaves journaled ids alone keeps what is said of the
\* promoters; a candidate matters to them only where there is no snapshot.
LEMMA PromotersAlone ==
    ASSUME LockInv, PromoterInv, PromotersRest, lock' = lock, current' = current,
           \A s \in Snapshots :
              /\ packets[s] \subseteq packets'[s]
              /\ journal[s] # None => journal'[s] = journal[s]
              /\ journal[s] # None => final'[s] = final[s] /\ approval'[s] = approval[s]
              /\ journal[s] # None /\ final[s] = None => candidate'[s] = candidate[s]
    PROVE  LockInv' /\ PromoterInv'
<1>1. LockInv'
  BY DEF LockInv, PromotersRest
<1>2. ASSUME NEW p \in Promoters PROVE PromoterAt(p)'
  <2>. DEFINE s == job[p].snapshot
  <2>1. job'[p] = job[p] /\ pc'[p] = pc[p] /\ PromoterAt(p)
    BY DEF PromotersRest, PromoterInv
  <2>2. pc[p] # "idle" => s \in Snapshots
    BY <2>1 DEF PromoterAt
  <2>3. pc[p] # "idle" => /\ job'[p].snapshot \in Snapshots
                          /\ job'[p].directory \in packets'[job'[p].snapshot]
                          /\ job'[p].directory \in Directories
    BY <2>1, <2>2 DEF PromoterAt
  <2>4. CASE pc[p] \in Promoting
    <3>1. pc[p] # "idle"
      BY <2>4 DEF Promoting, Locked
    <3>2. /\ s \in Snapshots /\ journal[s] # None /\ journal'[s] = journal[s]
          /\ final'[s] = final[s] /\ approval'[s] = approval[s]
          /\ final[s] = None => candidate'[s] = candidate[s]
      BY <2>1, <2>2, <2>4, <3>1 DEF PromoterAt
    <3>3. /\ s = job'[p].snapshot /\ job'[p].directory = job[p].directory
          /\ pc'[p] = pc[p] /\ current' = current
      BY <2>1
    <3>4. /\ journal'[s] # None /\ journal'[s].directory = job[p].directory
          /\ journal'[s].phase \in PhaseAt(pc[p])
          /\ current' = s \/ job[p].directory.previous = current'
      BY <2>1, <2>4, <3>2 DEF PromoterAt
    <3>5. /\ IF pc[p] = "rename" THEN candidate'[s] = job[p].directory /\ final'[s] = None
             ELSE final'[s] # None
          /\ pc[p] \in {"sync verify", "verify"} => approval'[s] # None
      BY <2>1, <2>4, <3>2 DEF PromoterAt
    <3>. QED BY <2>3, <3>3, <3>4, <3>5 DEF PromoterAt
  <2>. QED BY <2>1, <2>3, <2>4 DEF PromoterAt
<1>3. PromoterInv'
  BY <1>2 DEF PromoterInv
<1>. QED BY <1>1, <1>3

\* Whoever holds the lock promotes alone.
LEMMA OnePromoter ==
    ASSUME LockInv, NEW p \in Promoters, pc[p] \in Locked
    PROVE  /\ \A q \in Promoters \ {p} : pc[q] \notin Locked
           /\ lock = p
           /\ \A s, steps : steps \subseteq Locked =>
                 (At(s, steps) <=> (job[p].snapshot = s /\ pc[p] \in steps))
<1>1. (\A q \in Promoters \ {p} : pc[q] \notin Locked) /\ lock = p
  BY DEF LockInv
<1>2. ASSUME NEW s, NEW steps, steps \subseteq Locked
      PROVE  At(s, steps) <=> (job[p].snapshot = s /\ pc[p] \in steps)
  BY <1>1, <1>2 DEF At
<1>. QED BY <1>1, <1>2

\* The candidate does not matter once there is a snapshot, or no journal entry.
LEMMA CandidateIsOld ==
    ASSUME NEW c, NEW d, NEW f, NEW a, NEW j, NEW seen, Sound(c, f, a, j, seen),
           f # None \/ j = None
    PROVE  Sound(d, f, a, j, seen)
BY DEF Sound

\* No journal entry is durable before it is written.
LEMMA UnjournaledOnDisk ==
    ASSUME PromoterInv, DurableInv, NEW s \in Snapshots, journal[s] = None
    PROVE  disk.journal[s] = None /\ disk.final[s] = final[s]
           /\ (disk.candidate[s] = candidate[s] \/ Made(s))
<1>1. ASSUME NEW steps, steps \subseteq Promoting PROVE ~At(s, steps)
  BY <1>1 DEF At, PromoterInv, PromoterAt
<1>2. {"sync move"} \subseteq Promoting
        /\ {"sync prepare", "sync approve", "sync ready", "sync pointer", "sync check"}
               \subseteq Promoting
  BY DEF Promoting, Locked, PromoterSteps
<1>. QED BY <1>1, <1>2 DEF DurableInv

-----------------------------------------------------------------------------
(* Every step keeps the invariant                                          *)

\* A process ends, by returning or by raising.
\* What holds of the disk where the machine may die.
LEMMA MachineDies == ASSUME IInv, fault = "machine" PROVE DurableInv /\ PointerDurable /\ LossInv
BY DEF IInv, DiskInv

LEMMA EndStep ==
    ASSUME IInv, NEW p \in Processes, End(p),
           UNCHANGED <<snapshotFiles, key, disk, packets, fault>>,
           fault = "machine" => pc[p] \notin Unsafe
    PROVE  IInv'
<1>1. TypeOK'
  BY DEF IInv, TypeOK, End, Goto, NoJob, Jobs, OptSnapshot, OptDirectory, SyncSteps,
         snapshotFiles
<1>2. \A q \in Processes : IF q = p THEN pc'[q] = "idle" ELSE pc'[q] = pc[q] /\ job'[q] = job[q]
  BY DEF IInv, TypeOK, End, Goto
<1>3. SoundInv' /\ PointerInv' /\ KeyInv' /\ DiskInv' /\ fault' \in {"process", "machine"}
  BY <1>2, FilesAlone DEF SafeMoves
<1>4. SyncInv'
  BY <1>2 DEF IInv, SyncInv, SyncAt, Building, Processes, snapshotFiles
<1>5. BuildersDiffer'
  BY <1>2 DEF IInv, BuildersDiffer, Building, Processes, snapshotFiles
<1>6. LockInv'
  BY <1>2 DEF IInv, LockInv, Locked, PromoterSteps, Processes, End
<1>7. ASSUME NEW q \in Promoters PROVE PromoterAt(q)'
  <2>1. CASE q = p
    BY <1>2, <2>1 DEF PromoterAt, Promoting, Locked, Processes
  <2>2. CASE q # p
    BY <1>2, <2>2 DEF IInv, PromoterInv, PromoterAt, Processes, snapshotFiles
  <2>. QED BY <2>1, <2>2
<1>. QED BY <1>1, <1>3, <1>4, <1>5, <1>6, <1>7 DEF IInv, PromoterInv

LEMMA StartSyncStep ==
    ASSUME IInv, NEW p \in Syncs, NEW s \in Snapshots, NEW content \in Contents,
           StartSync(p, s, content), UNCHANGED fault
    PROVE  IInv'
<1>. DEFINE d == [content |-> content, previous |-> current]
<1>1. d \in Directories /\ d.content # None
  BY NoneIsFresh DEF IInv, TypeOK, Directories
<1>2. TypeOK'
  BY <1>1 DEF IInv, TypeOK, StartSync, Goto, Jobs, OptSnapshot, OptDirectory, SyncSteps,
              snapshotFiles
<1>3. /\ pc[p] = "idle" /\ pc'[p] = "checked"
      /\ job'[p] = [snapshot |-> s, directory |-> d]
      /\ \A q \in Processes \ {p} : pc'[q] = pc[q] /\ job'[q] = job[q]
      /\ UNCHANGED <<snapshotFiles, key, disk, packets, lock, fault>>
  BY DEF IInv, TypeOK, StartSync, Goto, Processes
<1>4. SoundInv' /\ PointerInv' /\ KeyInv' /\ DiskInv' /\ fault' \in {"process", "machine"}
  BY <1>3, FilesAlone DEF SafeMoves, Unsafe
<1>5. ASSUME NEW y \in Syncs PROVE SyncAt(y)'
  <2>1. CASE y = p
    BY <1>1, <1>3, <2>1 DEF SyncAt, Building, StartSync, snapshotFiles
  <2>2. CASE y # p
    BY <1>3, <2>2 DEF IInv, SyncInv, SyncAt, Building, Processes, snapshotFiles
  <2>. QED BY <2>1, <2>2
<1>6. BuildersDiffer'
  BY <1>3 DEF IInv, BuildersDiffer, Building, Processes, snapshotFiles
<1>7. LockInv' /\ PromoterInv'
  <2>1. PromotersRest
    BY <1>3, ProcessesDiffer DEF PromotersRest, Processes
  <2>. QED BY <1>3, <2>1, PromotersAlone DEF IInv, snapshotFiles
<1>. QED BY <1>2, <1>4, <1>5, <1>6, <1>7 DEF IInv, SyncInv

LEMMA MakeCandidateStep ==
    ASSUME IInv, NEW p \in Syncs, MakeCandidate(p), UNCHANGED fault
    PROVE  IInv'
<1>. DEFINE s == job[p].snapshot
            c == [job[p].directory EXCEPT !.content = None]
<1>1. CASE candidate[s] # None
  <2>1. End(p) /\ UNCHANGED <<snapshotFiles, key, disk, packets, fault>> /\ pc[p] = "checked"
    BY <1>1 DEF MakeCandidate, snapshotFiles
  <2>. QED BY <2>1, EndStep DEF Processes, Unsafe
<1>2. CASE candidate[s] = None
  <2>1. /\ pc[p] = "checked" /\ s \in Snapshots /\ job[p].directory \in Directories
        /\ job[p].directory.content # None
        /\ journal[s] = None => final[s] = None
    BY DEF IInv, SyncInv, SyncAt, MakeCandidate
  <2>2. c \in Directories /\ c # None
    BY <2>1, FilesAssumption DEF Directories
  <2>3. /\ candidate' = [candidate EXCEPT ![s] = c]
        /\ pc' = [pc EXCEPT ![p] = "made"]
        /\ UNCHANGED <<job, lock, final, approval, current, journal, key, disk, packets, fault>>
    BY <1>2 DEF MakeCandidate, Goto
  <2>4. TypeOK'
    BY <2>2, <2>3 DEF IInv, TypeOK, OptDirectory, SyncSteps
  <2>5. /\ candidate'[s] = c /\ pc'[p] = "made"
        /\ \A x \in Snapshots \ {s} : candidate'[x] = candidate[x]
        /\ \A q \in Processes \ {p} : pc'[q] = pc[q]
    BY <2>1, <2>3 DEF IInv, TypeOK, Processes
  <2>6. journal[s] # None => final[s] # None
    <3>1. journal[s] # None => journal[s].directory \in Directories
      BY <2>1 DEF IInv, TypeOK, Transactions
    <3>. QED BY <1>2, <2>1, <3>1, FilesAssumption DEF IInv, SoundInv, Sound
  <2>7. SoundInv'
    <3>1. ASSUME NEW x \in Snapshots
          PROVE  Sound(candidate'[x], final[x], approval[x], journal[x], packets[x])
      BY <2>5, <2>6, CandidateIsOld DEF IInv, SoundInv
    <3>. QED BY <2>3, <3>1 DEF SoundInv
  <2>8. PointerInv' /\ KeyInv' /\ fault' \in {"process", "machine"}
    BY <2>3 DEF IInv, PointerInv, KeyInv, Pointed
  <2>9. ASSUME NEW y \in Syncs PROVE SyncAt(y)'
    <3>1. CASE y = p
      BY <2>1, <2>2, <2>3, <2>5, <2>6, <3>1 DEF SyncAt, Building
    <3>2. CASE y # p /\ pc[y] # "idle"
      <4>1. SyncAt(y) /\ pc'[y] = pc[y] /\ job'[y] = job[y] /\ job[y].snapshot \in Snapshots
        BY <2>3, <2>5, <3>2 DEF IInv, SyncInv, SyncAt, Processes
      <4>2. job[y].snapshot = s /\ pc[y] \in {"written", "keying"} => journal[s] # None
        BY <1>2, <4>1, FilesAssumption DEF SyncAt
      <4>3. job[y].snapshot = s /\ pc[y] = "made" => journal[s] # None
        BY <1>2, <4>1 DEF SyncAt
      <4>. QED BY <2>3, <2>5, <3>2, <4>1, <4>2, <4>3 DEF SyncAt, Building
    <3>3. CASE y # p /\ pc[y] = "idle"
      BY <2>5, <3>3 DEF SyncAt, Building, Processes
    <3>. QED BY <3>1, <3>2, <3>3
  <2>10. BuildersDiffer'
    <3>1. ASSUME NEW y \in Syncs, pc[y] \in Building, job[y].snapshot = s PROVE journal[s] # None
      BY <1>2, <3>1, FilesAssumption DEF IInv, SyncInv, SyncAt, Building
    <3>. QED BY <2>1, <2>3, <2>5, <3>1 DEF IInv, BuildersDiffer, Building, Processes
  <2>11. LockInv' /\ PromoterInv'
    <3>1. PromotersRest
      BY <2>3, <2>5, ProcessesDiffer DEF PromotersRest, Processes
    <3>. QED BY <2>3, <2>5, <2>6, <3>1, PromotersAlone DEF IInv
  <2>12. ASSUME fault = "machine" PROVE DurableInv' /\ PointerDurable' /\ LossInv'
    <3>1. ASSUME NEW x, NEW steps, steps \subseteq Locked PROVE At(x, steps)' <=> At(x, steps)
      BY <2>3, <2>5, ProcessesDiffer DEF At, Processes
    <3>2. Made(s)' /\ \A x \in Snapshots : Made(x) => Made(x)'
      BY <2>1, <2>3, <2>5 DEF Made, Processes
    <3>3. DurableInv'
      <4>1. /\ {"sync move"} \subseteq Locked /\ {"sync verify"} \subseteq Locked
            /\ {"sync prepare", "sync approve", "sync ready", "sync pointer", "sync check"}
                   \subseteq Locked
        BY DEF Locked, PromoterSteps
      <4>. QED BY <2>3, <2>5, <2>12, <3>1, <3>2, <4>1 DEF IInv, DiskInv, DurableInv
    <3>4. PointerDurable'
      BY <2>3, <2>5, <2>12, ProcessesDiffer DEF IInv, DiskInv, PointerDurable, Processes
    <3>5. LossInv'
      <4>1. ASSUME NEW x \in Snapshots, NEW j \in {journal[x], disk.journal[x]},
                   NEW a \in {approval[x], disk.approval[x]}
            PROVE  Sound(candidate'[x], final[x], a, j, packets[x])
        <5>1. Sound(candidate[x], final[x], a, j, packets[x])
          BY <2>12 DEF IInv, DiskInv, LossInv
        <5>2. x = s => final[x] # None \/ j = None
          BY <2>1, <2>6, <2>12, UnjournaledOnDisk DEF IInv, DiskInv
        <5>. QED BY <2>5, <5>1, <5>2, CandidateIsOld
      <4>. QED BY <2>3, <2>12, <4>1 DEF IInv, DiskInv, LossInv, Pointed
    <3>. QED BY <3>3, <3>4, <3>5
  <2>. QED BY <2>4, <2>7, <2>8, <2>9, <2>10, <2>11, <2>12 DEF IInv, DiskInv, SyncInv
<1>. QED BY <1>1, <1>2

LEMMA WriteCandidateStep ==
    ASSUME IInv, NEW p \in Syncs, WriteCandidate(p), UNCHANGED fault
    PROVE  IInv'
<1>. DEFINE s == job[p].snapshot
            d == job[p].directory
<1>1. /\ pc[p] = "made" /\ s \in Snapshots /\ d \in Directories /\ d.content # None
      /\ journal[s] = None => final[s] = None /\ candidate[s] # None
      /\ journal[s] # None => final[s] # None
  BY DEF IInv, SyncInv, SyncAt, WriteCandidate, Building
<1>2. /\ candidate' = [candidate EXCEPT ![s] = d]
      /\ disk' = [disk EXCEPT !.candidate = candidate', !.final = final, !.current = current]
      /\ pc' = [pc EXCEPT ![p] = "written"]
      /\ UNCHANGED <<job, lock, final, approval, current, journal, key, packets, fault>>
  BY DEF WriteCandidate, Goto
<1>3. TypeOK'
  BY <1>1, <1>2 DEF IInv, TypeOK, OptDirectory, SyncSteps
<1>4. /\ candidate'[s] = d /\ pc'[p] = "written"
      /\ \A x \in Snapshots \ {s} : candidate'[x] = candidate[x]
      /\ \A q \in Processes \ {p} : pc'[q] = pc[q]
      /\ disk'.candidate = candidate' /\ disk'.final = final /\ disk'.current = current
      /\ disk'.approval = disk.approval /\ disk'.journal = disk.journal
  BY <1>1, <1>2 DEF IInv, TypeOK, Processes
<1>5. SoundInv'
  <2>1. ASSUME NEW x \in Snapshots
        PROVE  Sound(candidate'[x], final[x], approval[x], journal[x], packets[x])
    BY <1>1, <1>4, CandidateIsOld DEF IInv, SoundInv
  <2>. QED BY <1>2, <2>1 DEF SoundInv
<1>6. PointerInv' /\ KeyInv' /\ fault' \in {"process", "machine"}
  BY <1>2, <1>4 DEF IInv, PointerInv, KeyInv, Pointed
<1>7. ASSUME NEW y \in Syncs PROVE SyncAt(y)'
  <2>1. CASE y = p
    BY <1>1, <1>2, <1>4, <2>1 DEF SyncAt, Building
  <2>2. CASE y # p /\ pc[y] # "idle"
    <3>1. SyncAt(y) /\ pc'[y] = pc[y] /\ job'[y] = job[y] /\ job[y].snapshot \in Snapshots
      BY <1>2, <1>4, <2>2 DEF IInv, SyncInv, SyncAt, Processes
    <3>2. pc[y] \in Building /\ job[y].snapshot = s => journal[s] # None
      BY <1>1, <2>2 DEF IInv, BuildersDiffer, Building
    <3>. QED BY <1>2, <1>4, <2>2, <3>1, <3>2 DEF SyncAt, Building
  <2>3. CASE y # p /\ pc[y] = "idle"
    BY <1>4, <2>3 DEF SyncAt, Building, Processes
  <2>. QED BY <2>1, <2>2, <2>3
<1>8. BuildersDiffer'
  BY <1>1, <1>2, <1>4 DEF IInv, BuildersDiffer, Building, Processes
<1>9. LockInv' /\ PromoterInv'
  <2>1. PromotersRest
    BY <1>2, <1>4, ProcessesDiffer DEF PromotersRest, Processes
  <2>. QED BY <1>1, <1>2, <1>4, <2>1, PromotersAlone DEF IInv
<1>10. ASSUME fault = "machine" PROVE DurableInv' /\ PointerDurable' /\ LossInv'
  <2>1. ASSUME NEW x, NEW steps, steps \subseteq Locked PROVE At(x, steps)' <=> At(x, steps)
    BY <1>2, <1>4, ProcessesDiffer DEF At, Processes
  <2>2. DurableInv'
    <3>1. /\ {"sync verify"} \subseteq Locked
          /\ {"sync prepare", "sync approve", "sync ready", "sync pointer", "sync check"}
                 \subseteq Locked
      BY DEF Locked, PromoterSteps
    <3>. QED BY <1>2, <1>4, <1>10, <2>1, <3>1 DEF IInv, DiskInv, DurableInv
  <2>3. PointerDurable'
    BY <1>2, <1>4 DEF PointerDurable
  <2>4. LossInv'
    <3>1. ASSUME NEW x \in Snapshots, NEW j \in {journal[x], disk.journal[x]},
                 NEW a \in {approval[x], disk.approval[x]}
          PROVE  Sound(candidate'[x], final[x], a, j, packets[x])
      <4>1. Sound(candidate[x], final[x], a, j, packets[x])
        BY <1>10 DEF IInv, DiskInv, LossInv
      <4>2. x = s => final[x] # None \/ j = None
        BY <1>1, <1>10, UnjournaledOnDisk DEF IInv, DiskInv
      <4>. QED BY <1>4, <4>1, <4>2, CandidateIsOld
    <3>. QED BY <1>2, <1>4, <1>10, <3>1 DEF IInv, DiskInv, LossInv, Pointed
  <2>. QED BY <2>2, <2>3, <2>4
<1>. QED BY <1>3, <1>5, <1>6, <1>7, <1>8, <1>9, <1>10 DEF IInv, DiskInv, SyncInv

\* A sync writes the journal entry of what it has built.
LEMMA JournalStep ==
    ASSUME IInv, NEW p \in Syncs, pc[p] \in {"written", "keying"},
           journal[job[p].snapshot] = None, WriteTransaction(p), key' = "whole",
           key = "whole" \/ pc[p] = "keying",
           pc' = [pc EXCEPT ![p] = "journaled"], disk' = disk \/ SyncRoot,
           UNCHANGED <<job, lock, candidate, final, approval, current, packets, fault>>
    PROVE  IInv'
<1>. DEFINE s == job[p].snapshot
            d == job[p].directory
<1>1. /\ s \in Snapshots /\ d \in Directories /\ d.content # None
      /\ final[s] = None /\ candidate[s] = d /\ approval[s] = None
  BY DEF IInv, SyncInv, SyncAt, SoundInv, Sound, Building
<1>2. PICK issues \in BOOLEAN :
         journal' = [journal EXCEPT ![s] = [phase |-> "BUILT", directory |-> d,
                                            issues |-> issues, approvedAt |-> None]]
  BY DEF WriteTransaction
<1>. DEFINE j0 == [phase |-> "BUILT", directory |-> d, issues |-> issues, approvedAt |-> None]
<1>3. j0 \in Transactions /\ j0 # None
  BY <1>1, <1>2, FilesAssumption DEF Transactions, Phases, OptTime
<1>4. TypeOK'
  BY <1>2, <1>3 DEF IInv, TypeOK, SyncSteps, SyncRoot
<1>5. /\ journal'[s] = j0 /\ pc'[p] = "journaled"
      /\ \A x \in Snapshots \ {s} : journal'[x] = journal[x]
      /\ \A q \in Processes \ {p} : pc'[q] = pc[q]
      /\ disk'.approval = disk.approval /\ disk'.journal = disk.journal
      /\ \/ /\ disk'.candidate = disk.candidate /\ disk'.final = disk.final
            /\ disk'.current = disk.current
         \/ disk'.candidate = candidate /\ disk'.final = final /\ disk'.current = current
  BY <1>1, <1>2 DEF IInv, TypeOK, Processes, SyncRoot
<1>6. \A a, seen : Sound(d, None, a, None, seen) => Sound(d, None, a, j0, seen)
  BY <1>1, <1>3 DEF Sound, Prepared, Late
<1>. HIDE DEF j0
<1>7. SoundInv'
  <2>1. ASSUME NEW x \in Snapshots
        PROVE  Sound(candidate[x], final[x], approval[x], journal'[x], packets[x])
    BY <1>1, <1>5, <1>6 DEF IInv, SoundInv
  <2>. QED BY <2>1 DEF SoundInv
<1>8. PointerInv' /\ KeyInv' /\ fault' \in {"process", "machine"}
  BY <1>5 DEF IInv, PointerInv, KeyInv, Pointed, TypeOK, OptSnapshot
<1>9. ASSUME NEW y \in Syncs PROVE SyncAt(y)'
  <2>1. CASE y = p
    BY <1>1, <1>3, <1>5, <2>1 DEF SyncAt, Building
  <2>2. CASE y # p /\ pc[y] # "idle"
    <3>1. SyncAt(y) /\ pc'[y] = pc[y] /\ job'[y] = job[y] /\ job[y].snapshot \in Snapshots
      BY <1>5, <2>2 DEF IInv, SyncInv, SyncAt, Processes
    <3>2. pc[y] # "keying"
      BY <2>2, <3>1 DEF IInv, BuildersDiffer, SyncAt
    <3>3. pc[y] \in Building => job[y].snapshot # s
      BY <2>2 DEF IInv, BuildersDiffer, Building
    <3>. QED BY <1>3, <1>5, <2>2, <3>1, <3>2, <3>3 DEF SyncAt, Building
  <2>3. CASE y # p /\ pc[y] = "idle"
    BY <1>5, <2>3 DEF SyncAt, Building, Processes
  <2>. QED BY <2>1, <2>2, <2>3
<1>10. BuildersDiffer'
  <2>1. ASSUME NEW y \in Syncs, pc[y] \in Building
        PROVE  job[y].snapshot \in Snapshots
    BY <2>1 DEF IInv, SyncInv, SyncAt, Building
  <2>. QED BY <1>3, <1>5, <2>1 DEF IInv, BuildersDiffer, Building, Processes
<1>11. LockInv' /\ PromoterInv'
  <2>1. PromotersRest
    BY <1>5, ProcessesDiffer DEF PromotersRest, Processes
  <2>. QED BY <1>1, <1>5, <2>1, PromotersAlone DEF IInv
<1>12. ASSUME fault = "machine" PROVE DurableInv' /\ PointerDurable' /\ LossInv'
  <2>1. ASSUME NEW x, NEW steps, steps \subseteq Locked PROVE At(x, steps)' <=> At(x, steps)
    BY <1>5, ProcessesDiffer DEF At, Processes
  <2>2. Made(s) <=> FALSE
    BY DEF IInv, BuildersDiffer, Building, Made
  <2>3. \A x \in Snapshots : Made(x) => Made(x)'
    BY <1>5 DEF Made, Processes
  <2>4. /\ disk.journal[s] = None /\ disk.final[s] = None /\ disk.candidate[s] = d
        /\ disk'.final[s] = None /\ disk'.candidate[s] = d
    BY <1>1, <1>5, <1>12, <2>2, UnjournaledOnDisk DEF IInv, DiskInv
  <2>5. DurableInv'
    <3>1. /\ {"sync move"} \subseteq Locked /\ {"sync verify"} \subseteq Locked
          /\ {"sync prepare", "sync approve", "sync ready", "sync pointer", "sync check"}
                 \subseteq Locked
      BY DEF Locked, PromoterSteps
    <3>2. j0.phase = "BUILT"
      BY DEF j0
    <3>3. DurableInv
      BY <1>12, MachineDies
    <3>5. ASSUME NEW x \in Snapshots
          PROVE  (/\ disk.final[x] = final[x] \/ At(x, {"sync move"})
                  /\ disk.candidate[x] = candidate[x] \/ At(x, {"sync move"}) \/ Made(x)
                  /\ disk.approval[x] = approval[x] \/ At(x, {"sync verify"}))'
      BY <1>5, <2>1, <2>3, <2>4, <3>1, <3>3 DEF DurableInv
    <3>6. ASSUME NEW x \in Snapshots
          PROVE  (\/ disk.journal[x] = journal[x]
                  \/ disk.journal[x] = None /\ journal[x] # None /\ journal[x].phase = "BUILT"
                  \/ At(x, {"sync prepare", "sync approve", "sync ready", "sync pointer", "sync check"}))'
      BY <1>3, <1>5, <2>1, <2>4, <3>1, <3>2, <3>3 DEF DurableInv
    <3>. QED BY <3>5, <3>6 DEF DurableInv
  <2>6. PointerDurable'
    <3>1. PointerDurable
      BY <1>12, MachineDies
    <3>. QED BY <1>1, <1>5, <3>1, ProcessesDiffer DEF PointerDurable, Processes
  <2>7. LossInv'
    <3>1. ASSUME NEW x \in Snapshots, NEW j \in {journal'[x], disk.journal[x]},
                 NEW a \in {approval[x], disk.approval[x]}
          PROVE  /\ Sound(candidate[x], final[x], a, j, packets[x])
                 /\ Sound(disk'.candidate[x], disk'.final[x], a, j, packets[x])
      <4>1. \A i \in {journal[x], disk.journal[x]} :
                 /\ Sound(candidate[x], final[x], a, i, packets[x])
                 /\ Sound(disk.candidate[x], disk.final[x], a, i, packets[x])
        BY <1>12, MachineDies DEF LossInv
      <4>2. CASE x = s
        <5>1. j \in {None, j0} /\ Sound(d, None, a, None, packets[x])
          BY <1>1, <1>5, <2>4, <4>1, <4>2
        <5>2. Sound(d, None, a, j, packets[x])
          BY <1>6, <5>1
        <5>. QED BY <1>1, <2>4, <4>2, <5>2
      <4>3. CASE x # s
        BY <1>5, <4>1, <4>3
      <4>. QED BY <4>2, <4>3
    <3>2. \A c \in {current, disk'.current} : c # None =>
              Pointed(journal'[c]) /\ Pointed(disk.journal[c])
      <4>1. \A c \in {current, disk.current} : c # None =>
                c \in Snapshots /\ Pointed(journal[c]) /\ Pointed(disk.journal[c])
        <5>1. current \in OptSnapshot /\ disk.current \in OptSnapshot
          BY DEF IInv, TypeOK
        <5>. QED BY <1>12, <5>1, MachineDies DEF LossInv, OptSnapshot
      <4>. QED BY <1>5, <4>1 DEF Pointed
    <3>. QED BY <1>5, <3>1, <3>2 DEF LossInv, Pointed
  <2>. QED BY <2>5, <2>6, <2>7
<1>. QED BY <1>4, <1>7, <1>8, <1>9, <1>10, <1>11, <1>12 DEF IInv, DiskInv, SyncInv

LEMMA CreateTransactionStep ==
    ASSUME IInv, NEW p \in Syncs, CreateTransaction(p), UNCHANGED fault
    PROVE  IInv'
<1>1. CASE journal[job[p].snapshot] = None /\ key = "whole"
  BY <1>1, JournalStep DEF CreateTransaction, Goto
<1>2. CASE ~(journal[job[p].snapshot] = None /\ key = "whole")
  <2>1. End(p) /\ UNCHANGED <<snapshotFiles, key, disk, packets, fault>> /\ pc[p] = "written"
    BY <1>2 DEF CreateTransaction, snapshotFiles
  <2>. QED BY <2>1, EndStep DEF Processes, Unsafe
<1>. QED BY <1>1, <1>2

LEMMA WriteKeyStep ==
    ASSUME IInv, NEW p \in Syncs, WriteKey(p), UNCHANGED fault
    PROVE  IInv'
<1>1. journal[job[p].snapshot] = None
  BY DEF IInv, SyncInv, SyncAt, KeyInv, WriteKey
<1>. QED BY <1>1, JournalStep DEF WriteKey, Goto

LEMMA CreateKeyStep ==
    ASSUME IInv, NEW p \in Syncs, CreateKey(p), UNCHANGED fault
    PROVE  IInv'
<1>1. /\ pc[p] = "written" /\ journal[job[p].snapshot] = None /\ key = "absent"
      /\ key' = "empty" /\ pc' = [pc EXCEPT ![p] = "keying"]
      /\ UNCHANGED <<candidate, final, approval, current, journal, disk, packets, lock, job, fault>>
  BY DEF CreateKey, Goto, snapshotFiles
<1>2. TypeOK'
  BY <1>1 DEF IInv, TypeOK, SyncSteps
<1>3. pc'[p] = "keying" /\ \A q \in Processes \ {p} : pc'[q] = pc[q]
  BY <1>1 DEF IInv, TypeOK, Processes
<1>4. \A x \in Snapshots : journal[x] = None /\ disk.journal[x] = None
  BY <1>1 DEF IInv, KeyInv
<1>5. SoundInv' /\ PointerInv' /\ KeyInv' /\ fault' \in {"process", "machine"}
  BY <1>1, <1>4 DEF IInv, SoundInv, PointerInv, KeyInv, Sound, Pointed, Prepared, Late
<1>6. ASSUME NEW y \in Syncs PROVE SyncAt(y)'
  BY <1>1, <1>3 DEF IInv, SyncInv, SyncAt, Building, Processes
<1>7. BuildersDiffer'
  <2>1. ASSUME NEW y \in Syncs PROVE pc[y] # "keying"
    BY <1>1 DEF IInv, SyncInv, SyncAt
  <2>. QED BY <1>1, <1>3, <2>1 DEF IInv, BuildersDiffer, Building, Processes
<1>8. LockInv' /\ PromoterInv'
  <2>1. PromotersRest
    BY <1>1, <1>3, ProcessesDiffer DEF PromotersRest, Processes
  <2>. QED BY <1>1, <2>1, PromotersAlone DEF IInv
<1>9. ASSUME fault = "machine" PROVE DurableInv' /\ PointerDurable' /\ LossInv'
  <2>1. ASSUME NEW x, NEW steps, steps \subseteq Locked PROVE At(x, steps)' <=> At(x, steps)
    BY <1>1, <1>3, ProcessesDiffer DEF At, Processes
  <2>2. \A x \in Snapshots : Made(x) => Made(x)'
    BY <1>1, <1>3 DEF Made, Processes
  <2>3. DurableInv'
    <3>1. /\ {"sync move"} \subseteq Locked /\ {"sync verify"} \subseteq Locked
          /\ {"sync prepare", "sync approve", "sync ready", "sync pointer", "sync check"}
                 \subseteq Locked
      BY DEF Locked, PromoterSteps
    <3>. QED BY <1>1, <1>9, <2>1, <2>2, <3>1 DEF IInv, DiskInv, DurableInv
  <2>4. PointerDurable'
    BY <1>1, <1>3, <1>9, ProcessesDiffer DEF IInv, DiskInv, PointerDurable, Processes
  <2>5. LossInv'
    BY <1>1, <1>9 DEF IInv, DiskInv, LossInv, Sound, Pointed, Prepared, Late
  <2>. QED BY <2>3, <2>4, <2>5
<1>. QED BY <1>2, <1>5, <1>6, <1>7, <1>8, <1>9 DEF IInv, DiskInv, SyncInv

\* After a step that makes files durable, a loss leaves no more than before.
LEMMA LossShrinks ==
    ASSUME LossInv, UNCHANGED <<candidate, final, approval, current, journal, packets>>,
           \A x \in Snapshots :
              /\ \/ disk'.candidate[x] = disk.candidate[x] /\ disk'.final[x] = disk.final[x]
                 \/ disk'.candidate[x] = candidate[x] /\ disk'.final[x] = final[x]
              /\ disk'.approval[x] \in {approval[x], disk.approval[x]}
              /\ disk'.journal[x] \in {journal[x], disk.journal[x]},
           disk'.current \in {current, disk.current},
           current \in OptSnapshot, disk.current \in OptSnapshot
    PROVE  LossInv'
<1>1. ASSUME NEW x \in Snapshots, NEW j \in {journal[x], disk'.journal[x]},
             NEW a \in {approval[x], disk'.approval[x]}
      PROVE  /\ Sound(candidate[x], final[x], a, j, packets[x])
             /\ Sound(disk'.candidate[x], disk'.final[x], a, j, packets[x])
  <2>1. /\ Sound(candidate[x], final[x], a, j, packets[x])
        /\ Sound(disk.candidate[x], disk.final[x], a, j, packets[x])
    BY <1>1 DEF LossInv
  <2>. QED BY <2>1
<1>2. \A c \in {current, disk'.current} : c # None =>
          Pointed(journal[c]) /\ Pointed(disk'.journal[c])
  <2>1. \A c \in {current, disk'.current} : c # None =>
            c \in Snapshots /\ Pointed(journal[c]) /\ Pointed(disk.journal[c])
    BY DEF LossInv, OptSnapshot
  <2>. QED BY <2>1
<1>. QED BY <1>1, <1>2 DEF LossInv, Pointed

LEMMA SyncTransactionStep ==
    ASSUME IInv, NEW p \in Syncs, SyncTransaction(p), UNCHANGED fault
    PROVE  IInv'
<1>. DEFINE s == job[p].snapshot
<1>1. /\ pc[p] = "journaled" /\ s \in Snapshots /\ journal[s] # None
      /\ disk' = [disk EXCEPT !.journal[s] = journal[s]]
      /\ End(p) /\ UNCHANGED <<candidate, final, approval, current, journal, key, packets, fault>>
  BY DEF IInv, SyncInv, SyncAt, SyncTransaction, SyncJournal, snapshotFiles
<1>2. TypeOK'
  BY <1>1 DEF IInv, TypeOK, End, Goto, NoJob, Jobs, OptSnapshot, OptDirectory, SyncSteps
<1>3. /\ \A q \in Processes : IF q = p THEN pc'[q] = "idle"
                                       ELSE pc'[q] = pc[q] /\ job'[q] = job[q]
      /\ disk'.candidate = disk.candidate /\ disk'.final = disk.final
      /\ disk'.current = disk.current /\ disk'.approval = disk.approval
      /\ disk'.journal[s] = journal[s]
      /\ \A x \in Snapshots \ {s} : disk'.journal[x] = disk.journal[x]
      /\ lock' = lock
  BY <1>1, ProcessesDiffer DEF IInv, TypeOK, End, Goto
<1>4. SoundInv' /\ PointerInv' /\ KeyInv' /\ fault' \in {"process", "machine"}
  BY <1>1, <1>3 DEF IInv, SoundInv, PointerInv, KeyInv, Sound, Pointed, Prepared, Late
<1>5. SyncInv' /\ BuildersDiffer'
  <2>1. SyncInv'
    BY <1>1, <1>3 DEF IInv, SyncInv, SyncAt, Building, Processes
  <2>2. BuildersDiffer'
    BY <1>1, <1>3 DEF IInv, BuildersDiffer, Building, Processes
  <2>. QED BY <2>1, <2>2
<1>6. LockInv' /\ PromoterInv'
  <2>1. PromotersRest
    BY <1>3, ProcessesDiffer DEF PromotersRest, Processes
  <2>. QED BY <1>1, <1>3, <2>1, PromotersAlone DEF IInv
<1>7. ASSUME fault = "machine" PROVE DurableInv' /\ PointerDurable' /\ LossInv'
  <2>1. ASSUME NEW x, NEW steps, steps \subseteq Locked PROVE At(x, steps)' <=> At(x, steps)
    BY <1>3, ProcessesDiffer DEF At, Processes
  <2>2. \A x \in Snapshots : Made(x) => Made(x)'
    BY <1>1, <1>3 DEF Made, Processes
  <2>3. DurableInv'
    <3>1. /\ {"sync move"} \subseteq Locked /\ {"sync verify"} \subseteq Locked
          /\ {"sync prepare", "sync approve", "sync ready", "sync pointer", "sync check"}
                 \subseteq Locked
      BY DEF Locked, PromoterSteps
    <3>2. DurableInv
      BY <1>7, MachineDies
    <3>5. ASSUME NEW x \in Snapshots
          PROVE  (/\ disk.final[x] = final[x] \/ At(x, {"sync move"})
                  /\ disk.candidate[x] = candidate[x] \/ At(x, {"sync move"}) \/ Made(x)
                  /\ disk.approval[x] = approval[x] \/ At(x, {"sync verify"}))'
      BY <1>1, <1>3, <2>1, <2>2, <3>1, <3>2 DEF DurableInv
    <3>6. ASSUME NEW x \in Snapshots
          PROVE  (\/ disk.journal[x] = journal[x]
                  \/ disk.journal[x] = None /\ journal[x] # None /\ journal[x].phase = "BUILT"
                  \/ At(x, {"sync prepare", "sync approve", "sync ready", "sync pointer", "sync check"}))'
      BY <1>1, <1>3, <2>1, <3>1, <3>2 DEF DurableInv
    <3>. QED BY <3>5, <3>6 DEF DurableInv
  <2>4. PointerDurable'
    <3>1. PointerDurable
      BY <1>7, MachineDies
    <3>. QED BY <1>1, <1>3, <3>1, ProcessesDiffer DEF PointerDurable, Processes
  <2>5. LossInv'
    BY <1>1, <1>3, <1>7, LossShrinks DEF IInv, DiskInv, TypeOK
  <2>. QED BY <2>3, <2>4, <2>5
<1>. QED BY <1>2, <1>4, <1>5, <1>6, <1>7 DEF IInv, DiskInv

LEMMA ReviewStep ==
    ASSUME IInv, NEW s \in Snapshots, Review(s), UNCHANGED fault
    PROVE  IInv'
<1>1. /\ packets' = [packets EXCEPT ![s] = @ \cup {Selected(s)}]
      /\ UNCHANGED <<candidate, final, approval, current, journal, key, disk, lock, pc, job, fault>>
      /\ Selected(s) # None
  BY DEF Review, LoadAccepts, snapshotFiles
<1>2. Selected(s) \in Directories
  BY <1>1 DEF IInv, TypeOK, Selected, OptDirectory
<1>3. TypeOK'
  BY <1>1, <1>2 DEF IInv, TypeOK
<1>4. \A x \in Snapshots : packets[x] \subseteq packets'[x]
  BY <1>1 DEF IInv, TypeOK
<1>5. \A x \in Snapshots : \A c, f, a, j : Sound(c, f, a, j, packets[x])
                                             => Sound(c, f, a, j, packets'[x])
  BY <1>4 DEF Sound
<1>6. SoundInv' /\ PointerInv' /\ KeyInv'
  BY <1>1, <1>5 DEF IInv, SoundInv, PointerInv, KeyInv, Pointed
<1>7. SyncInv' /\ BuildersDiffer'
  BY <1>1, SyncsAlone DEF IInv, SyncsRest
<1>8. LockInv' /\ PromoterInv'
  BY <1>1, <1>4, PromotersAlone DEF IInv, PromotersRest
<1>9. DiskInv'
  <2>1. DurableInv => DurableInv'
    <3>1. ASSUME NEW x, NEW steps PROVE At(x, steps)' <=> At(x, steps)
      BY <1>1 DEF At
    <3>2. ASSUME NEW x PROVE Made(x)' <=> Made(x)
      BY <1>1 DEF Made
    <3>. QED BY <1>1, <3>1, <3>2 DEF DurableInv
  <2>2. PointerDurable => PointerDurable'
    BY <1>1 DEF PointerDurable
  <2>3. LossInv => LossInv'
    <3>. SUFFICES ASSUME LossInv PROVE LossInv'
      OBVIOUS
    <3>1. ASSUME NEW x \in Snapshots, NEW j \in {journal[x], disk.journal[x]},
                 NEW a \in {approval[x], disk.approval[x]}
          PROVE  /\ Sound(candidate[x], final[x], a, j, packets'[x])
                 /\ Sound(disk.candidate[x], disk.final[x], a, j, packets'[x])
      BY <1>5 DEF LossInv
    <3>2. \A c \in {current, disk.current} : c # None =>
              Pointed(journal[c]) /\ Pointed(disk.journal[c])
      BY DEF LossInv
    <3>3. /\ disk' = disk /\ approval' = approval /\ candidate' = candidate /\ final' = final
          /\ current' = current /\ journal' = journal
      BY <1>1
    <3>. QED BY <3>1, <3>2, <3>3 DEF LossInv, Pointed
  <2>. QED BY <1>1, <2>1, <2>2, <2>3 DEF IInv, DiskInv
<1>. QED BY <1>1, <1>3, <1>6, <1>7, <1>8, <1>9 DEF IInv

LEMMA ApproveStep ==
    ASSUME IInv, NEW p \in Promoters, NEW s \in Snapshots, Approve(p, s), UNCHANGED fault
    PROVE  IInv'
<1>1. PICK digest \in packets[s] :
         job' = [job EXCEPT ![p] = [snapshot |-> s, directory |-> digest]]
  BY DEF Approve
<1>2. /\ pc[p] = "idle" /\ pc' = [pc EXCEPT ![p] = "waiting"] /\ digest \in Directories
      /\ UNCHANGED <<snapshotFiles, key, disk, packets, lock, fault>>
  BY <1>1 DEF IInv, TypeOK, Approve, Goto
<1>3. TypeOK'
  BY <1>1, <1>2 DEF IInv, TypeOK, Jobs, OptSnapshot, OptDirectory, PromoterSteps, snapshotFiles
<1>4. /\ pc'[p] = "waiting" /\ job'[p] = [snapshot |-> s, directory |-> digest]
      /\ \A q \in Processes \ {p} : pc'[q] = pc[q] /\ job'[q] = job[q]
  BY <1>1, <1>2 DEF IInv, TypeOK, Processes
<1>5. SoundInv' /\ PointerInv' /\ KeyInv' /\ DiskInv' /\ fault' \in {"process", "machine"}
  BY <1>2, <1>4, FilesAlone DEF SafeMoves, Unsafe
<1>6. SyncInv' /\ BuildersDiffer'
  <2>1. SyncsRest
    BY <1>4, ProcessesDiffer DEF SyncsRest, Processes
  <2>. QED BY <1>2, <2>1, SyncsAlone DEF IInv, snapshotFiles
<1>7. LockInv'
  BY <1>2, <1>4 DEF IInv, LockInv, Locked, Processes
<1>8. ASSUME NEW q \in Promoters PROVE PromoterAt(q)'
  <2>1. CASE q = p
    <3>1. /\ job'[q].snapshot = s /\ job'[q].directory = digest /\ packets' = packets
          /\ pc'[q] \notin Promoting
      BY <1>1, <1>2, <1>4, <2>1 DEF Promoting, Locked
    <3>. QED BY <1>1, <1>2, <3>1 DEF PromoterAt
  <2>2. CASE q # p
    BY <1>2, <1>4, <2>2 DEF IInv, PromoterInv, PromoterAt, Processes, snapshotFiles
  <2>. QED BY <2>1, <2>2
<1>. QED BY <1>3, <1>5, <1>6, <1>7, <1>8 DEF IInv, PromoterInv

LEMMA LockStep ==
    ASSUME IInv, NEW p \in Promoters, Lock(p), UNCHANGED fault
    PROVE  IInv'
<1>1. /\ pc[p] = "waiting" /\ lock = None /\ lock' = p /\ pc' = [pc EXCEPT ![p] = "loading"]
      /\ UNCHANGED <<snapshotFiles, key, disk, packets, job, fault>>
  BY DEF Lock, Goto
<1>2. TypeOK'
  BY <1>1 DEF IInv, TypeOK, PromoterSteps, snapshotFiles
<1>3. pc'[p] = "loading" /\ \A q \in Processes \ {p} : pc'[q] = pc[q]
  BY <1>1 DEF IInv, TypeOK, Processes
<1>4. SoundInv' /\ PointerInv' /\ KeyInv' /\ DiskInv' /\ fault' \in {"process", "machine"}
  BY <1>1, <1>3, FilesAlone DEF SafeMoves, Unsafe
<1>5. SyncInv' /\ BuildersDiffer'
  <2>1. SyncsRest
    BY <1>1, <1>3, ProcessesDiffer DEF SyncsRest, Processes
  <2>. QED BY <1>1, <2>1, SyncsAlone DEF IInv, snapshotFiles
<1>6. LockInv'
  BY <1>1, <1>3, NoneIsFresh DEF IInv, LockInv, Processes
<1>7. ASSUME NEW q \in Promoters PROVE PromoterAt(q)'
  <2>1. CASE q = p
    BY <1>1, <1>3, <2>1 DEF IInv, PromoterInv, PromoterAt, Promoting, snapshotFiles
  <2>2. CASE q # p
    BY <1>1, <1>3, <2>2 DEF IInv, PromoterInv, PromoterAt, Processes, snapshotFiles
  <2>. QED BY <2>1, <2>2
<1>. QED BY <1>2, <1>4, <1>5, <1>6, <1>7 DEF IInv, PromoterInv

LEMMA StepSets ==
    /\ {"sync move"} \subseteq Locked /\ {"sync verify"} \subseteq Locked
    /\ {"sync prepare", "sync approve", "sync ready", "sync pointer", "sync check"} \subseteq Locked
    /\ Locked \subseteq PromoterSteps /\ Promoting \subseteq Locked
BY DEF Locked, Promoting, PromoterSteps

\* The holder of the lock goes on; nobody else is in a promotion.
LEMMA PromoterGoes ==
    ASSUME IInv, NEW p \in Promoters, pc[p] \in Locked, NEW next \in Locked,
           pc' = [pc EXCEPT ![p] = next], UNCHANGED <<job, lock, packets>>, PromoterAt(p)'
    PROVE  /\ LockInv' /\ PromoterInv' /\ SyncsRest
           /\ pc'[p] = next /\ pc' \in [Processes -> SyncSteps \cup PromoterSteps]
           /\ \A x, steps : steps \subseteq Locked =>
                 /\ At(x, steps) <=> (job[p].snapshot = x /\ pc[p] \in steps)
                 /\ At(x, steps)' <=> (job[p].snapshot = x /\ next \in steps)
           /\ \A x : Made(x)' <=> Made(x)
<1>1. /\ pc'[p] = next /\ \A q \in Processes \ {p} : pc'[q] = pc[q]
      /\ pc' \in [Processes -> SyncSteps \cup PromoterSteps]
  BY StepSets DEF IInv, TypeOK, Processes
<1>2. (\A q \in Promoters \ {p} : pc[q] \notin Locked) /\ lock = p
  BY OnePromoter DEF IInv
<1>3. LockInv'
  BY <1>1, <1>2 DEF LockInv, Processes
<1>4. ASSUME NEW q \in Promoters, q # p PROVE PromoterAt(q)'
  <2>1. pc'[q] = pc[q] /\ pc[q] \notin Promoting /\ PromoterAt(q)
    BY <1>1, <1>2, <1>4, StepSets DEF IInv, PromoterInv, Processes
  <2>2. pc[q] # "idle" => /\ job[q].snapshot \in Snapshots /\ job[q].directory \in Directories
                          /\ job[q].directory \in packets[job[q].snapshot]
    BY <2>1 DEF PromoterAt
  <2>. QED BY <2>1, <2>2 DEF PromoterAt
<1>5. SyncsRest
  BY <1>1, ProcessesDiffer DEF SyncsRest, Processes
<1>6. ASSUME NEW x, NEW steps, steps \subseteq Locked
      PROVE  /\ At(x, steps) <=> (job[p].snapshot = x /\ pc[p] \in steps)
             /\ At(x, steps)' <=> (job[p].snapshot = x /\ next \in steps)
  <2>1. At(x, steps) <=> (job[p].snapshot = x /\ pc[p] \in steps)
    BY <1>2, <1>6 DEF At
  <2>2. LockInv' /\ lock' = p
    BY <1>2, <1>3
  <2>3. \A q \in Promoters \ {p} : pc'[q] \notin Locked
    BY <1>1, <1>2 DEF Processes
  <2>4. At(x, steps)' <=> (job[p].snapshot = x /\ next \in steps)
    BY <1>1, <1>6, <2>3 DEF At
  <2>. QED BY <2>1, <2>4
<1>7. ASSUME NEW x PROVE Made(x)' <=> Made(x)
  BY <1>5 DEF Made, SyncsRest
<1>. QED BY <1>1, <1>3, <1>4, <1>5, <1>6, <1>7 DEF PromoterInv

\* What a promoter knows of the snapshot it is promoting.
LEMMA PromotedNow ==
    ASSUME IInv, NEW p \in Promoters, pc[p] \in Promoting
    PROVE  LET s == job[p].snapshot
               d == job[p].directory
           IN  /\ s \in Snapshots /\ d \in Directories /\ d \in packets[s]
               /\ journal[s] \in Transactions /\ journal[s] # None /\ journal[s].directory = d
               /\ journal[s].phase \in PhaseAt(pc[p])
               /\ Sound(candidate[s], final[s], approval[s], journal[s], packets[s])
               /\ current = s \/ d.previous = current
               /\ IF pc[p] = "rename" THEN candidate[s] = d /\ final[s] = None
                  ELSE final[s] # None
               /\ pc[p] \in {"sync verify", "verify"} => approval[s] # None
<1>1. pc[p] # "idle" /\ PromoterAt(p)
  BY DEF IInv, PromoterInv, Promoting, Locked
<1>. QED BY <1>1 DEF IInv, PromoterAt, SoundInv, TypeOK

LEMMA LoadStep ==
    ASSUME IInv, NEW p \in Promoters, Load(p), UNCHANGED fault
    PROVE  IInv'
<1>. DEFINE s == job[p].snapshot
            d == job[p].directory
<1>1. CASE ~(LoadAccepts(s) /\ Selected(s) = d)
  <2>1. End(p) /\ UNCHANGED <<snapshotFiles, key, disk, packets, fault>> /\ pc[p] = "loading"
    BY <1>1 DEF Load, snapshotFiles
  <2>. QED BY <2>1, EndStep DEF Processes, Unsafe
<1>2. CASE LoadAccepts(s) /\ Selected(s) = d
  <2>1. /\ pc[p] = "loading" /\ s \in Snapshots /\ d \in Directories /\ d \in packets[s]
        /\ pc' = [pc EXCEPT ![p] = ResumeAt(s)]
        /\ disk' = [disk EXCEPT !.approval[s] = approval[s]]
        /\ UNCHANGED <<candidate, final, approval, current, journal, key, packets, lock, job, fault>>
    BY <1>2 DEF IInv, PromoterInv, PromoterAt, Load, Goto, snapshotFiles
  <2>2. /\ journal[s] # None /\ journal[s].directory = d /\ journal[s] \in Transactions
        /\ current = s \/ d.previous = current
    BY <1>2, <2>1 DEF LoadAccepts, ExtendsCurrent, IInv, TypeOK
  <2>3. /\ ResumeAt(s) \in {"rename", "verify", "move", "prepare", "approve"}
        /\ journal[s].phase \in PhaseAt(ResumeAt(s))
        /\ IF ResumeAt(s) = "rename" THEN candidate[s] = d /\ final[s] = None ELSE final[s] # None
        /\ ResumeAt(s) = "verify" => approval[s] # None
    <3>1. CASE candidate[s] # None
      BY <1>2, <3>1 DEF LoadAccepts, Selected, ResumeAt, PhaseAt
    <3>2. CASE candidate[s] = None /\ approval[s] # None
      BY <1>2, <3>2 DEF LoadAccepts, Selected, ResumeAt, PhaseAt
    <3>3. CASE candidate[s] = None /\ approval[s] = None
      <4>1. final[s] # None /\ journal[s].phase \in {"BUILT", "MOVED", "APPROVAL_PREPARED"}
        BY <1>2, <3>3 DEF LoadAccepts, Selected
      <4>2. /\ journal[s].phase = "BUILT" => ResumeAt(s) = "move"
            /\ journal[s].phase = "MOVED" => ResumeAt(s) = "prepare"
            /\ journal[s].phase = "APPROVAL_PREPARED" => ResumeAt(s) = "approve"
        BY <3>3 DEF ResumeAt
      <4>. QED BY <4>1, <4>2 DEF PhaseAt
    <3>. QED BY <3>1, <3>2, <3>3
  <2>4. ResumeAt(s) \in Locked /\ pc[p] \in Locked
    BY <2>1, <2>3 DEF Locked, PromoterSteps
  <2>. DEFINE next == ResumeAt(s)
  <2>. HIDE DEF next
  <2>5. pc' = [pc EXCEPT ![p] = next] /\ next \in Locked
    BY <2>1, <2>4 DEF next
  <2>6. pc'[p] = next
    BY <2>5 DEF IInv, TypeOK, Processes
  <2>7. PromoterAt(p)'
    <3>1. /\ next \in {"rename", "verify", "move", "prepare", "approve"}
          /\ journal[s].phase \in PhaseAt(next)
          /\ IF next = "rename" THEN candidate[s] = d /\ final[s] = None ELSE final[s] # None
          /\ next = "verify" => approval[s] # None
      BY <2>3 DEF next
    <3>2. next # "idle" /\ next # "sync verify"
      BY <3>1
    <3>. QED BY <2>1, <2>2, <2>6, <3>1, <3>2 DEF PromoterAt
  <2>8. /\ LockInv' /\ PromoterInv' /\ SyncsRest
        /\ pc' \in [Processes -> SyncSteps \cup PromoterSteps]
        /\ \A x, steps : steps \subseteq Locked => (At(x, steps) => x = s /\ pc[p] \in steps)
        /\ \A x : Made(x)' <=> Made(x)
    BY <2>1, <2>4, <2>5, <2>7, PromoterGoes
  <2>9. /\ disk'.approval[s] = approval[s]
        /\ \A x \in Snapshots \ {s} : disk'.approval[x] = disk.approval[x]
        /\ disk'.candidate = disk.candidate /\ disk'.final = disk.final
        /\ disk'.current = disk.current /\ disk'.journal = disk.journal
    BY <2>1 DEF IInv, TypeOK
  <2>10. TypeOK'
    BY <2>1, <2>8 DEF IInv, TypeOK
  <2>11. SoundInv' /\ PointerInv' /\ KeyInv'
    BY <2>1, <2>9 DEF IInv, SoundInv, PointerInv, KeyInv, Sound, Pointed, Prepared, Late
  <2>12. SyncInv' /\ BuildersDiffer'
    BY <2>1, <2>8, SyncsAlone DEF IInv
  <2>13. ASSUME fault = "machine" PROVE DurableInv' /\ PointerDurable' /\ LossInv'
    <3>1. DurableInv'
      <4>1. ASSUME NEW x, NEW steps,
                   steps \in {{"sync move"}, {"sync verify"},
                     {"sync prepare", "sync approve", "sync ready", "sync pointer", "sync check"}}
            PROVE  ~At(x, steps)
        BY <2>1, <2>8, <4>1, StepSets
      <4>2. DurableInv
        BY <2>13, MachineDies
      <4>5. ASSUME NEW x \in Snapshots
            PROVE  (/\ disk.final[x] = final[x] \/ At(x, {"sync move"})
                    /\ disk.candidate[x] = candidate[x] \/ At(x, {"sync move"}) \/ Made(x)
                    /\ disk.approval[x] = approval[x] \/ At(x, {"sync verify"}))'
        BY <2>1, <2>8, <2>9, <4>1, <4>2 DEF DurableInv
      <4>6. ASSUME NEW x \in Snapshots
            PROVE  (\/ disk.journal[x] = journal[x]
                    \/ disk.journal[x] = None /\ journal[x] # None /\ journal[x].phase = "BUILT"
                    \/ At(x, {"sync prepare", "sync approve", "sync ready", "sync pointer", "sync check"}))'
        BY <2>1, <2>8, <2>9, <4>1, <4>2 DEF DurableInv
      <4>. QED BY <4>5, <4>6 DEF DurableInv
    <3>2. PointerDurable'
      <4>1. PointerDurable
        BY <2>13, MachineDies
      <4>2. \A q \in Promoters : pc[q] # "sync publish"
        BY <2>1, <2>4, OnePromoter DEF IInv, Locked, PromoterSteps
      <4>. QED BY <2>1, <2>9, <4>1, <4>2 DEF PointerDurable
    <3>3. LossInv'
      BY <2>1, <2>9, <2>13, LossShrinks DEF IInv, DiskInv, TypeOK
    <3>. QED BY <3>1, <3>2, <3>3
  <2>. QED BY <2>1, <2>8, <2>10, <2>11, <2>12, <2>13 DEF IInv, DiskInv
<1>. QED BY <1>1, <1>2

LEMMA RenameStep ==
    ASSUME IInv, NEW p \in Promoters, Rename(p), UNCHANGED fault
    PROVE  IInv'
<1>. DEFINE s == job[p].snapshot
            d == job[p].directory
<1>1. /\ pc[p] = "rename" /\ pc' = [pc EXCEPT ![p] = "sync move"]
      /\ final' = [final EXCEPT ![s] = candidate[s]]
      /\ candidate' = [candidate EXCEPT ![s] = None]
      /\ UNCHANGED <<approval, current, journal, key, disk, packets, lock, job, fault>>
  BY DEF Rename, Goto
<1>2. pc[p] \in Promoting /\ pc[p] \in Locked /\ "sync move" \in Locked
  BY <1>1 DEF Promoting, Locked, PromoterSteps
<1>3. /\ s \in Snapshots /\ d \in Directories /\ d \in packets[s] /\ d # None
      /\ journal[s] # None /\ journal[s].directory = d /\ journal[s].phase = "BUILT"
      /\ Sound(candidate[s], final[s], approval[s], journal[s], packets[s])
      /\ current = s \/ d.previous = current
      /\ candidate[s] = d /\ final[s] = None
  BY <1>1, <1>2, PromotedNow, FilesAssumption DEF PhaseAt
<1>4. /\ final'[s] = d /\ candidate'[s] = None
      /\ \A x \in Snapshots \ {s} : final'[x] = final[x] /\ candidate'[x] = candidate[x]
      /\ pc'[p] = "sync move"
  BY <1>1, <1>3 DEF IInv, TypeOK, Processes
<1>5. PromoterAt(p)'
  BY <1>1, <1>3, <1>4 DEF PromoterAt, PhaseAt
<1>6. /\ LockInv' /\ PromoterInv' /\ SyncsRest
      /\ pc' \in [Processes -> SyncSteps \cup PromoterSteps]
      /\ \A x, steps : steps \subseteq Locked =>
            /\ At(x, steps) <=> (s = x /\ pc[p] \in steps)
            /\ At(x, steps)' <=> (s = x /\ "sync move" \in steps)
      /\ \A x : Made(x)' <=> Made(x)
  BY <1>1, <1>2, <1>5, PromoterGoes
<1>7. TypeOK'
  BY <1>1, <1>3, <1>6 DEF IInv, TypeOK, OptDirectory
\* The renamed directory is what the journal and a steward say it is.
<1>8. ASSUME NEW a, NEW j, j \in {None, journal[s]}, Sound(d, None, a, j, packets[s])
      PROVE  Sound(None, d, a, j, packets[s])
  BY <1>3, <1>8 DEF Sound, Prepared, Late
<1>9. SoundInv'
  <2>1. ASSUME NEW x \in Snapshots
        PROVE  Sound(candidate'[x], final'[x], approval[x], journal[x], packets[x])
    BY <1>3, <1>4, <1>8 DEF IInv, SoundInv
  <2>. QED BY <1>1, <2>1 DEF SoundInv
<1>10. PointerInv' /\ KeyInv'
  BY <1>1 DEF IInv, PointerInv, KeyInv, Pointed
<1>11. SyncInv' /\ BuildersDiffer'
  BY <1>1, <1>3, <1>4, <1>6, SyncsAlone DEF IInv
<1>12. ASSUME fault = "machine" PROVE DurableInv' /\ PointerDurable' /\ LossInv'
  <2>0. /\ disk' = disk /\ approval' = approval /\ journal' = journal /\ current' = current
        /\ packets' = packets
        /\ DurableInv /\ LossInv
    BY <1>1, <1>12 DEF IInv, DiskInv
  <2>a. ASSUME NEW x
        PROVE  /\ ~At(x, {"sync move"}) /\ ~At(x, {"sync verify"})
               /\ ~At(x, {"sync prepare", "sync approve", "sync ready", "sync pointer", "sync check"})
               /\ x = s => At(x, {"sync move"})'
    BY <1>1, <1>6, StepSets
  <2>1. DurableInv'
    BY <1>4, <1>6, <2>0, <2>a DEF DurableInv
  <2>2. PointerDurable'
    BY <1>1, <1>2, <1>12, OnePromoter, StepSets DEF IInv, DiskInv, PointerDurable, Locked, PromoterSteps
  <2>3. LossInv'
    <3>1. disk.journal[s] \in {None, journal[s]}
      BY <1>3, <2>0, <2>a DEF DurableInv
    <3>2. ASSUME NEW x \in Snapshots, NEW j \in {journal[x], disk.journal[x]},
                 NEW a \in {approval[x], disk.approval[x]}
          PROVE  Sound(candidate'[x], final'[x], a, j, packets[x])
      <4>1. Sound(candidate[x], final[x], a, j, packets[x])
        BY <1>12 DEF IInv, DiskInv, LossInv
      <4>2. CASE x = s
        BY <1>3, <1>4, <1>8, <3>1, <3>2, <4>1, <4>2
      <4>. QED BY <1>4, <4>1, <4>2
    <3>. QED BY <2>0, <3>2 DEF LossInv, Pointed
  <2>. QED BY <2>1, <2>2, <2>3
<1>. QED BY <1>1, <1>6, <1>7, <1>9, <1>10, <1>11, <1>12 DEF IInv, DiskInv

\* The journal of a promotion goes on to the phase of the next step.
LEMMA AdvanceStep ==
    ASSUME IInv, NEW p \in Promoters, UNCHANGED fault, NEW phase \in Phases, NEW next,
           Advance(p, phase, next),
           \/ pc[p] = "move" /\ phase = "MOVED" /\ next = "sync prepare"
           \/ /\ pc[p] = "verify" /\ journal[job[p].snapshot].phase = "APPROVAL_PREPARED"
              /\ phase = "VERIFIED" /\ next = "sync ready"
           \/ /\ pc[p] = "verify" /\ journal[job[p].snapshot].phase = "VERIFIED"
              /\ phase = "POINTER_PREPARED" /\ next = "sync pointer"
           \/ pc[p] = "ready" /\ phase = "POINTER_PREPARED" /\ next = "sync pointer"
           \/ pc[p] = "publish" /\ phase = "PUBLISHED" /\ next = "sync check"
    PROVE  IInv'
<1>. DEFINE s == job[p].snapshot
            d == job[p].directory
            j0 == [journal[s] EXCEPT !.phase = phase]
            Replacing == {"sync prepare", "sync approve", "sync ready", "sync pointer", "sync check"}
<1>1. /\ pc' = [pc EXCEPT ![p] = next] /\ journal' = [journal EXCEPT ![s] = j0]
      /\ UNCHANGED <<candidate, final, approval, current, key, disk, packets, lock, job, fault>>
  BY DEF Advance, Goto
<1>2. /\ pc[p] \in Promoting /\ pc[p] \in Locked /\ next \in Locked /\ next \in Replacing
      /\ pc[p] \notin Replacing \cup {"sync move", "sync verify", "sync publish", "rename"}
  BY DEF Promoting, Locked, PromoterSteps
<1>3. /\ s \in Snapshots /\ d \in Directories /\ d \in packets[s]
      /\ journal[s] \in Transactions /\ journal[s] # None /\ journal[s].directory = d
      /\ journal[s].phase \in PhaseAt(pc[p])
      /\ Sound(candidate[s], final[s], approval[s], journal[s], packets[s])
      /\ current = s \/ d.previous = current
      /\ final[s] # None
      /\ pc[p] = "verify" => approval[s] # None
  BY <1>2, PromotedNow
<1>4. /\ phase # "BUILT" /\ (phase \in Prepared <=> journal[s].phase \in Prepared)
      /\ phase \in PhaseAt(next)
      /\ journal[s].phase \in {"POINTER_PREPARED", "PUBLISHED"}
            => phase \in {"POINTER_PREPARED", "PUBLISHED"}
      /\ phase # "MOVED" => journal[s].phase # "BUILT"
  BY <1>3 DEF PhaseAt, Prepared, Phases
<1>5. phase \in Late => approval[s] # None
  BY <1>3 DEF PhaseAt, Late, Sound
<1>6. /\ j0 \in Transactions /\ j0 # None /\ j0.phase = phase /\ j0.directory = d
      /\ j0.approvedAt = journal[s].approvedAt
  BY <1>3, FilesAssumption DEF Transactions
<1>7. /\ pc'[p] = next /\ journal'[s] = j0
      /\ \A x \in Snapshots \ {s} : journal'[x] = journal[x]
  BY <1>1, <1>3 DEF IInv, TypeOK, Processes
<1>. HIDE DEF j0
<1>8. PromoterAt(p)'
  <2>1. next \notin {"idle", "rename", "sync verify", "verify"}
    BY <1>2
  <2>. QED BY <1>1, <1>3, <1>4, <1>6, <1>7, <2>1 DEF PromoterAt
<1>9. /\ LockInv' /\ PromoterInv' /\ SyncsRest
      /\ pc' \in [Processes -> SyncSteps \cup PromoterSteps]
      /\ \A x, steps : steps \subseteq Locked =>
            /\ At(x, steps) <=> (s = x /\ pc[p] \in steps)
            /\ At(x, steps)' <=> (s = x /\ next \in steps)
      /\ \A x : Made(x)' <=> Made(x)
  BY <1>1, <1>2, <1>8, PromoterGoes
<1>10. TypeOK'
  BY <1>1, <1>3, <1>6, <1>9 DEF IInv, TypeOK
\* The new entry is sound wherever the old one was.
<1>11. ASSUME NEW c, NEW f, f # None, Sound(c, f, approval[s], journal[s], packets[s])
       PROVE  Sound(c, f, approval[s], j0, packets[s])
  BY <1>3, <1>4, <1>5, <1>6, <1>11 DEF Sound
<1>12. SoundInv'
  <2>1. ASSUME NEW x \in Snapshots
        PROVE  Sound(candidate[x], final[x], approval[x], journal'[x], packets[x])
    BY <1>3, <1>7, <1>11 DEF IInv, SoundInv
  <2>. QED BY <1>1, <2>1 DEF SoundInv
<1>13. \A x \in Snapshots : Pointed(journal[x]) => Pointed(journal'[x])
  BY <1>3, <1>4, <1>6, <1>7 DEF Pointed
<1>14. PointerInv' /\ KeyInv'
  <2>1. current # None => current \in Snapshots
    BY DEF IInv, TypeOK, OptSnapshot
  <2>2. PointerInv'
    BY <1>1, <1>13, <2>1 DEF IInv, PointerInv
  <2>3. KeyInv'
    BY <1>1, <1>3, <1>7 DEF IInv, KeyInv
  <2>. QED BY <2>2, <2>3
<1>15. SyncInv' /\ BuildersDiffer'
  <2>1. \A x \in Snapshots : journal'[x] = None <=> journal[x] = None
    BY <1>3, <1>6, <1>7
  <2>. QED BY <1>1, <1>9, <2>1, SyncsAlone DEF IInv
<1>16. ASSUME fault = "machine" PROVE DurableInv' /\ PointerDurable' /\ LossInv'
  <2>1. disk.final[s] = final[s] /\ disk.approval[s] = approval[s]
    BY <1>2, <1>3, <1>9, <1>16, StepSets DEF IInv, DiskInv, DurableInv
  <2>2. DurableInv'
    <3>1. ASSUME NEW x \in Snapshots
          PROVE  /\ disk.final[x] = final[x] \/ At(x, {"sync move"})'
                 /\ disk.candidate[x] = candidate[x] \/ At(x, {"sync move"})' \/ Made(x)'
                 /\ disk.approval[x] = approval[x] \/ At(x, {"sync verify"})'
      <4>1. DurableInv
        BY <1>16, MachineDies
      <4>2. \A y, steps : steps \in {{"sync move"}, {"sync verify"}} => ~At(y, steps)
        BY <1>2, <1>9, StepSets
      <4>. QED BY <1>9, <4>1, <4>2 DEF DurableInv
    <3>2. ASSUME NEW x \in Snapshots
          PROVE  \/ disk.journal[x] = journal'[x]
                 \/ disk.journal[x] = None /\ journal'[x] # None /\ journal'[x].phase = "BUILT"
                 \/ At(x, Replacing)'
      <4>1. x # s => ~At(x, Replacing)
        BY <1>2, <1>9, StepSets
      <4>2. x = s => At(x, Replacing)'
        BY <1>2, <1>9, StepSets
      <4>. QED BY <1>7, <1>16, <4>1, <4>2 DEF IInv, DiskInv, DurableInv
    <3>. QED BY <1>1, <3>1, <3>2 DEF DurableInv
  <2>3. PointerDurable'
    <3>1. PointerDurable
      BY <1>16, MachineDies
    <3>2. \A q \in Promoters : pc[q] # "sync publish"
      BY <1>2, OnePromoter DEF IInv, Locked, PromoterSteps
    <3>. QED BY <1>1, <3>1, <3>2 DEF PointerDurable
  <2>4. LossInv'
    <3>1. ASSUME NEW x \in Snapshots, NEW j \in {journal'[x], disk.journal[x]},
                 NEW a \in {approval[x], disk.approval[x]}
          PROVE  /\ Sound(candidate[x], final[x], a, j, packets[x])
                 /\ Sound(disk.candidate[x], disk.final[x], a, j, packets[x])
      <4>1. \A i \in {journal[x], disk.journal[x]} :
                 /\ Sound(candidate[x], final[x], a, i, packets[x])
                 /\ Sound(disk.candidate[x], disk.final[x], a, i, packets[x])
        BY <1>16, MachineDies DEF LossInv
      <4>2. CASE x = s
        <5>1. a = approval[s] /\ final[s] # None /\ disk.final[s] # None
          BY <1>3, <2>1, <4>2
        <5>2. CASE j = journal'[s]
          <6>1. /\ Sound(candidate[s], final[s], a, journal[s], packets[s])
                /\ Sound(disk.candidate[s], disk.final[s], a, journal[s], packets[s])
            BY <4>1, <4>2
          <6>. QED BY <1>7, <1>11, <4>2, <5>1, <5>2, <6>1
        <5>3. CASE j = disk.journal[s]
          BY <4>1, <4>2, <5>3
        <5>. QED BY <3>1, <4>2, <5>2, <5>3
      <4>. QED BY <1>7, <4>1, <4>2
    <3>2. \A c \in {current, disk.current} : c # None =>
              Pointed(journal'[c]) /\ Pointed(disk.journal[c])
      <4>0. current \in OptSnapshot /\ disk.current \in OptSnapshot
        BY DEF IInv, TypeOK
      <4>1. ASSUME NEW c \in {current, disk.current}, c # None PROVE c \in Snapshots
        BY <4>0, <4>1 DEF OptSnapshot
      <4>2. \A c \in {current, disk.current} : c # None =>
                Pointed(journal[c]) /\ Pointed(disk.journal[c])
        BY <1>16, MachineDies DEF LossInv
      <4>. QED BY <1>13, <4>1, <4>2
    <3>3. /\ disk' = disk /\ approval' = approval /\ candidate' = candidate /\ final' = final
          /\ current' = current /\ packets' = packets
      BY <1>1
    <3>4. ASSUME NEW x \in Snapshots
          PROVE  (\A j \in {journal[x], disk.journal[x]}, a \in {approval[x], disk.approval[x]} :
                    /\ Sound(candidate[x], final[x], a, j, packets[x])
                    /\ Sound(disk.candidate[x], disk.final[x], a, j, packets[x]))'
      BY <3>1, <3>3
    <3>. QED BY <3>2, <3>3, <3>4 DEF LossInv, Pointed
  <2>. QED BY <2>2, <2>3, <2>4
<1>. QED BY <1>1, <1>9, <1>10, <1>12, <1>14, <1>15, <1>16 DEF IInv, DiskInv

LEMMA PrepareApprovalStep ==
    ASSUME IInv, NEW p \in Promoters, PrepareApproval(p), UNCHANGED fault
    PROVE  IInv'
<1>. DEFINE s == job[p].snapshot
            d == job[p].directory
            Replacing == {"sync prepare", "sync approve", "sync ready", "sync pointer", "sync check"}
<1>1. PICK time \in Times :
         journal' = [journal EXCEPT ![s].phase = "APPROVAL_PREPARED", ![s].approvedAt = time]
  BY DEF PrepareApproval
<1>. DEFINE j0 == [journal[s] EXCEPT !.phase = "APPROVAL_PREPARED", !.approvedAt = time]
<1>2. /\ pc[p] = "prepare" /\ pc' = [pc EXCEPT ![p] = "sync approve"]
      /\ UNCHANGED <<candidate, final, approval, current, key, disk, packets, lock, job, fault>>
  BY DEF PrepareApproval, Goto
<1>3. pc[p] \in Promoting /\ pc[p] \in Locked /\ "sync approve" \in Locked
  BY <1>2 DEF Promoting, Locked, PromoterSteps
<1>4. /\ s \in Snapshots /\ d \in Directories /\ d \in packets[s]
      /\ journal[s] \in Transactions /\ journal[s] # None /\ journal[s].directory = d
      /\ journal[s].phase = "MOVED"
      /\ Sound(candidate[s], final[s], approval[s], journal[s], packets[s])
      /\ current = s \/ d.previous = current
      /\ final[s] # None
  BY <1>2, <1>3, PromotedNow DEF PhaseAt
<1>5. approval[s] = None
  BY <1>4 DEF Sound, Prepared
<1>6. /\ j0 \in Transactions /\ j0 # None /\ j0.phase = "APPROVAL_PREPARED" /\ j0.directory = d
      /\ j0.approvedAt # None
  BY <1>1, <1>4, FilesAssumption, NoneIsFresh DEF Transactions, OptTime, Phases
<1>7. /\ pc'[p] = "sync approve" /\ journal'[s] = j0
      /\ \A x \in Snapshots \ {s} : journal'[x] = journal[x]
      /\ journal' \in [Snapshots -> Transactions \cup {None}]
  <2>. DEFINE j1 == [journal[s] EXCEPT !.phase = "APPROVAL_PREPARED"]
              journal1 == [journal EXCEPT ![s] = j1]
  <2>1. journal1 = [x \in Snapshots |-> IF x = s THEN j1 ELSE journal[x]]
    BY <1>4 DEF IInv, TypeOK
  <2>2. journal' = [journal1 EXCEPT ![s] = [journal1[s] EXCEPT !.approvedAt = time]]
    BY <1>1
  <2>3. [j1 EXCEPT !.approvedAt = time] = j0
    BY <1>4 DEF Transactions
  <2>4. journal' = [x \in Snapshots |-> IF x = s THEN j0 ELSE journal[x]]
    BY <1>4, <2>1, <2>2, <2>3
  <2>5. pc'[p] = "sync approve"
    BY <1>2 DEF IInv, TypeOK, Processes
  <2>. QED BY <1>4, <1>6, <2>4, <2>5 DEF IInv, TypeOK
<1>. HIDE DEF j0
<1>9. PromoterAt(p)'
  BY <1>2, <1>4, <1>6, <1>7 DEF PromoterAt, PhaseAt
<1>10. /\ LockInv' /\ PromoterInv' /\ SyncsRest
       /\ pc' \in [Processes -> SyncSteps \cup PromoterSteps]
       /\ \A x, steps : steps \subseteq Locked =>
             /\ At(x, steps) <=> (s = x /\ pc[p] \in steps)
             /\ At(x, steps)' <=> (s = x /\ "sync approve" \in steps)
       /\ \A x : Made(x)' <=> Made(x)
  BY <1>2, <1>3, <1>9, PromoterGoes
<1>11. TypeOK'
  BY <1>2, <1>7, <1>10 DEF IInv, TypeOK
\* The new entry is sound wherever the old one was: nothing is approved yet.
<1>12. ASSUME NEW c, NEW f, f # None, Sound(c, f, None, journal[s], packets[s])
       PROVE  Sound(c, f, None, j0, packets[s])
  BY <1>4, <1>6, <1>12 DEF Sound, Late
<1>13. SoundInv'
  <2>1. ASSUME NEW x \in Snapshots
        PROVE  Sound(candidate[x], final[x], approval[x], journal'[x], packets[x])
    BY <1>4, <1>5, <1>7, <1>12 DEF IInv, SoundInv
  <2>. QED BY <1>2, <2>1 DEF SoundInv
<1>14. \A x \in Snapshots : Pointed(journal[x]) => Pointed(journal'[x])
  BY <1>4, <1>7 DEF Pointed
<1>15. PointerInv' /\ KeyInv'
  <2>1. current # None => current \in Snapshots
    BY DEF IInv, TypeOK, OptSnapshot
  <2>2. PointerInv'
    BY <1>2, <1>14, <2>1 DEF IInv, PointerInv
  <2>3. KeyInv'
    BY <1>2, <1>4, <1>7 DEF IInv, KeyInv
  <2>. QED BY <2>2, <2>3
<1>16. SyncInv' /\ BuildersDiffer'
  <2>1. \A x \in Snapshots : journal'[x] = None <=> journal[x] = None
    BY <1>4, <1>6, <1>7
  <2>. QED BY <1>2, <1>10, <2>1, SyncsAlone DEF IInv
<1>17. ASSUME fault = "machine" PROVE DurableInv' /\ PointerDurable' /\ LossInv'
  <2>0. /\ disk' = disk /\ approval' = approval /\ candidate' = candidate /\ final' = final
        /\ current' = current /\ packets' = packets
        /\ DurableInv /\ LossInv /\ PointerDurable
    BY <1>2, <1>17 DEF IInv, DiskInv
  <2>a. ASSUME NEW x
        PROVE  /\ ~At(x, {"sync move"}) /\ ~At(x, {"sync verify"}) /\ ~At(x, Replacing)
               /\ x = s => At(x, Replacing)'
    BY <1>2, <1>10, StepSets
  <2>1. DurableInv'
    BY <1>7, <1>10, <2>0, <2>a DEF DurableInv
  <2>2. PointerDurable'
    BY <1>2, <1>3, <2>0, OnePromoter, StepSets DEF IInv, PointerDurable, Locked, PromoterSteps
  <2>3. LossInv'
    <3>1. disk.final[s] = final[s] /\ disk.approval[s] = approval[s]
      BY <1>4, <2>0, <2>a DEF DurableInv
    <3>2. ASSUME NEW x \in Snapshots, NEW j \in {journal'[x], disk.journal[x]},
                 NEW a \in {approval[x], disk.approval[x]}
          PROVE  /\ Sound(candidate[x], final[x], a, j, packets[x])
                 /\ Sound(disk.candidate[x], disk.final[x], a, j, packets[x])
      <4>1. \A i \in {journal[x], disk.journal[x]} :
                 /\ Sound(candidate[x], final[x], a, i, packets[x])
                 /\ Sound(disk.candidate[x], disk.final[x], a, i, packets[x])
        BY <2>0 DEF LossInv
      <4>2. CASE x = s
        <5>1. /\ a = None /\ disk.final[s] # None /\ final[s] # None
              /\ Sound(candidate[s], final[s], None, journal[s], packets[s])
              /\ Sound(disk.candidate[s], disk.final[s], None, journal[s], packets[s])
          BY <1>4, <1>5, <3>1, <3>2, <4>1, <4>2
        <5>2. CASE j = j0
          BY <1>12, <4>2, <5>1, <5>2
        <5>3. CASE j = disk.journal[s]
          BY <4>1, <4>2, <5>3
        <5>. QED BY <1>7, <3>2, <4>2, <5>2, <5>3
      <4>. QED BY <1>7, <4>1, <4>2
    <3>3. \A c \in {current, disk.current} : c # None =>
              Pointed(journal'[c]) /\ Pointed(disk.journal[c])
      <4>1. current \in OptSnapshot /\ disk.current \in OptSnapshot
        BY DEF IInv, TypeOK
      <4>2. ASSUME NEW c \in {current, disk.current}, c # None PROVE c \in Snapshots
        BY <4>1, <4>2 DEF OptSnapshot
      <4>3. \A c \in {current, disk.current} : c # None =>
                Pointed(journal[c]) /\ Pointed(disk.journal[c])
        BY <2>0 DEF LossInv
      <4>. QED BY <1>14, <4>2, <4>3
    <3>. QED BY <2>0, <3>2, <3>3 DEF LossInv, Pointed
  <2>. QED BY <2>1, <2>2, <2>3
<1>. QED BY <1>2, <1>10, <1>11, <1>13, <1>15, <1>16, <1>17 DEF IInv, DiskInv

LEMMA WriteApprovalStep ==
    ASSUME IInv, NEW p \in Promoters, WriteApproval(p), UNCHANGED fault
    PROVE  IInv'
<1>. DEFINE s == job[p].snapshot
            d == job[p].directory
            time == journal[s].approvedAt
            Replacing == {"sync prepare", "sync approve", "sync ready", "sync pointer", "sync check"}
<1>1. /\ pc[p] = "approve" /\ pc' = [pc EXCEPT ![p] = "sync verify"]
      /\ approval' = [approval EXCEPT ![s] = time]
      /\ UNCHANGED <<candidate, final, current, journal, key, disk, packets, lock, job, fault>>
  BY DEF WriteApproval, Goto
<1>2. pc[p] \in Promoting /\ pc[p] \in Locked /\ "sync verify" \in Locked
  BY <1>1 DEF Promoting, Locked, PromoterSteps
<1>3. /\ s \in Snapshots /\ d \in Directories /\ d \in packets[s]
      /\ journal[s] \in Transactions /\ journal[s] # None /\ journal[s].directory = d
      /\ journal[s].phase = "APPROVAL_PREPARED"
      /\ Sound(candidate[s], final[s], approval[s], journal[s], packets[s])
      /\ current = s \/ d.previous = current
      /\ final[s] # None
  BY <1>1, <1>2, PromotedNow DEF PhaseAt
<1>4. time \in OptTime /\ time # None
  BY <1>3 DEF Transactions, Sound, Prepared
<1>5. /\ pc'[p] = "sync verify" /\ approval'[s] = time
      /\ \A x \in Snapshots \ {s} : approval'[x] = approval[x]
  BY <1>1, <1>3 DEF IInv, TypeOK, Processes
<1>6. PromoterAt(p)'
  BY <1>1, <1>3, <1>4, <1>5 DEF PromoterAt, PhaseAt
<1>7. /\ LockInv' /\ PromoterInv' /\ SyncsRest
      /\ pc' \in [Processes -> SyncSteps \cup PromoterSteps]
      /\ \A x, steps : steps \subseteq Locked =>
            /\ At(x, steps) <=> (s = x /\ pc[p] \in steps)
            /\ At(x, steps)' <=> (s = x /\ "sync verify" \in steps)
      /\ \A x : Made(x)' <=> Made(x)
  BY <1>1, <1>2, <1>6, PromoterGoes
<1>8. TypeOK'
  BY <1>1, <1>3, <1>4, <1>7 DEF IInv, TypeOK
<1>9. ASSUME NEW c, NEW f, f # None, NEW a, Sound(c, f, a, journal[s], packets[s])
      PROVE  Sound(c, f, time, journal[s], packets[s])
  BY <1>3, <1>4, <1>9 DEF Sound, Prepared, Transactions
<1>10. SoundInv'
  <2>1. ASSUME NEW x \in Snapshots
        PROVE  Sound(candidate[x], final[x], approval'[x], journal[x], packets[x])
    BY <1>3, <1>5, <1>9 DEF IInv, SoundInv
  <2>. QED BY <1>1, <2>1 DEF SoundInv
<1>11. PointerInv' /\ KeyInv'
  BY <1>1 DEF IInv, PointerInv, KeyInv, Pointed
<1>12. SyncInv' /\ BuildersDiffer'
  BY <1>1, <1>7, SyncsAlone DEF IInv
<1>13. ASSUME fault = "machine" PROVE DurableInv' /\ PointerDurable' /\ LossInv'
  <2>0. /\ disk' = disk /\ journal' = journal /\ candidate' = candidate /\ final' = final
        /\ current' = current /\ packets' = packets
        /\ DurableInv /\ LossInv /\ PointerDurable
    BY <1>1, <1>13 DEF IInv, DiskInv
  <2>a. ASSUME NEW x
        PROVE  /\ ~At(x, {"sync move"}) /\ ~At(x, {"sync verify"}) /\ ~At(x, Replacing)
               /\ x = s => At(x, {"sync verify"})'
    BY <1>1, <1>7, StepSets
  <2>1. DurableInv'
    BY <1>5, <1>7, <2>0, <2>a DEF DurableInv
  <2>2. PointerDurable'
    BY <1>1, <1>2, <2>0, OnePromoter, StepSets DEF IInv, PointerDurable, Locked, PromoterSteps
  <2>3. LossInv'
    <3>1. disk.final[s] = final[s] /\ disk.journal[s] = journal[s]
      BY <1>3, <2>0, <2>a DEF DurableInv
    <3>2. ASSUME NEW x \in Snapshots, NEW j \in {journal[x], disk.journal[x]},
                 NEW a \in {approval'[x], disk.approval[x]}
          PROVE  /\ Sound(candidate[x], final[x], a, j, packets[x])
                 /\ Sound(disk.candidate[x], disk.final[x], a, j, packets[x])
      <4>1. \A b \in {approval[x], disk.approval[x]} :
                 /\ Sound(candidate[x], final[x], b, j, packets[x])
                 /\ Sound(disk.candidate[x], disk.final[x], b, j, packets[x])
        BY <2>0, <3>2 DEF LossInv
      <4>2. CASE x = s
        <5>1. /\ j = journal[s] /\ disk.final[s] # None /\ final[s] # None
          BY <1>3, <3>1, <3>2, <4>2
        <5>2. CASE a = time
          BY <1>9, <4>1, <4>2, <5>1, <5>2
        <5>3. CASE a = disk.approval[s]
          BY <4>1, <4>2, <5>3
        <5>. QED BY <1>5, <3>2, <4>2, <5>2, <5>3
      <4>. QED BY <1>5, <4>1, <4>2
    <3>. QED BY <2>0, <3>2 DEF LossInv, Pointed
  <2>. QED BY <2>1, <2>2, <2>3
<1>. QED BY <1>1, <1>7, <1>8, <1>10, <1>11, <1>12, <1>13 DEF IInv, DiskInv

\* A step that only moves a promoter on, at which nothing is unsynced.
LEMMA ProceedStep ==
    ASSUME IInv, NEW p \in Promoters, pc[p] \in Promoting, NEW next \in Promoting,
           pc[p] \notin Unsafe, pc' = [pc EXCEPT ![p] = next],
           UNCHANGED <<snapshotFiles, key, disk, packets, lock, job, fault>>, PromoterAt(p)'
    PROVE  IInv'
<1>1. pc[p] \in Locked /\ next \in Locked
  BY DEF Promoting
<1>2. LockInv' /\ PromoterInv' /\ SyncsRest /\ pc' \in [Processes -> SyncSteps \cup PromoterSteps]
  BY <1>1, PromoterGoes
<1>3. TypeOK'
  BY <1>2 DEF IInv, TypeOK, snapshotFiles
<1>4. SafeMoves
  BY DEF SafeMoves, IInv, TypeOK
<1>5. SoundInv' /\ PointerInv' /\ KeyInv' /\ DiskInv' /\ fault' \in {"process", "machine"}
  BY <1>4, FilesAlone
<1>6. SyncInv' /\ BuildersDiffer'
  BY <1>2, SyncsAlone DEF IInv, snapshotFiles
<1>. QED BY <1>2, <1>3, <1>5, <1>6 DEF IInv

LEMMA VerifyStep ==
    ASSUME IInv, NEW p \in Promoters, Verify(p), UNCHANGED fault
    PROVE  IInv'
<1>. DEFINE s == job[p].snapshot
<1>1. pc[p] = "verify"
  BY DEF Verify
<1>2. CASE End(p) /\ UNCHANGED <<snapshotFiles, key, disk, packets>>
  BY <1>1, <1>2, EndStep DEF Processes, Unsafe
<1>3. CASE journal[s].phase = "APPROVAL_PREPARED" /\ Advance(p, "VERIFIED", "sync ready")
  BY <1>1, <1>3, AdvanceStep DEF Phases
<1>4. CASE journal[s].phase = "VERIFIED" /\ Advance(p, "POINTER_PREPARED", "sync pointer")
  BY <1>1, <1>4, AdvanceStep DEF Phases
<1>5. CASE /\ journal[s].phase \in {"POINTER_PREPARED", "PUBLISHED"}
           /\ Goto(p, IF journal[s].phase = "PUBLISHED" THEN "check" ELSE "pointer")
           /\ UNCHANGED <<snapshotFiles, key, disk, packets, lock, job>>
  <2>. DEFINE next == IF journal[s].phase = "PUBLISHED" THEN "check" ELSE "pointer"
  <2>1. pc[p] \in Promoting /\ next \in Promoting /\ pc[p] \notin Unsafe
    BY <1>1 DEF Promoting, Locked, PromoterSteps, Unsafe
  <2>2. pc'[p] = next /\ pc' = [pc EXCEPT ![p] = next] /\ next \in {"check", "pointer"}
    BY <1>5 DEF Goto, IInv, TypeOK, Processes
  <2>3. journal[s].phase \in PhaseAt(next)
    BY <1>5 DEF PhaseAt
  <2>. HIDE DEF next
  <2>4. PromoterAt(p)'
    BY <1>1, <1>5, <2>1, <2>2, <2>3, PromotedNow DEF PromoterAt, snapshotFiles
  <2>. QED BY <1>5, <2>1, <2>2, <2>4, ProceedStep
<1>. QED BY <1>2, <1>3, <1>4, <1>5 DEF Verify

LEMMA WritePointerStep ==
    ASSUME IInv, NEW p \in Promoters, WritePointer(p), UNCHANGED fault
    PROVE  IInv'
<1>. DEFINE s == job[p].snapshot
            Replacing == {"sync prepare", "sync approve", "sync ready", "sync pointer", "sync check"}
<1>1. /\ pc[p] = "pointer" /\ pc' = [pc EXCEPT ![p] = "sync publish"] /\ current' = s
      /\ UNCHANGED <<candidate, final, approval, journal, key, disk, packets, lock, job, fault>>
  BY DEF WritePointer, Goto
<1>2. pc[p] \in Promoting /\ pc[p] \in Locked /\ "sync publish" \in Locked
  BY <1>1 DEF Promoting, Locked, PromoterSteps
<1>3. /\ s \in Snapshots /\ job[p].directory \in packets[s] /\ job[p].directory \in Directories
      /\ journal[s] # None /\ journal[s].directory = job[p].directory
      /\ journal[s].phase = "POINTER_PREPARED" /\ final[s] # None
  BY <1>1, <1>2, PromotedNow DEF PhaseAt
<1>4. pc'[p] = "sync publish"
  BY <1>1 DEF IInv, TypeOK, Processes
<1>5. PromoterAt(p)'
  BY <1>1, <1>3, <1>4 DEF PromoterAt, PhaseAt
<1>6. /\ LockInv' /\ PromoterInv' /\ SyncsRest
      /\ pc' \in [Processes -> SyncSteps \cup PromoterSteps]
      /\ \A x, steps : steps \subseteq Locked =>
            /\ At(x, steps) <=> (s = x /\ pc[p] \in steps)
            /\ At(x, steps)' <=> (s = x /\ "sync publish" \in steps)
      /\ \A x : Made(x)' <=> Made(x)
  BY <1>1, <1>2, <1>5, PromoterGoes
<1>7. TypeOK'
  BY <1>1, <1>3, <1>6 DEF IInv, TypeOK, OptSnapshot
<1>8. SoundInv' /\ PointerInv' /\ KeyInv'
  <2>1. SoundInv' /\ KeyInv'
    BY <1>1 DEF IInv, SoundInv, KeyInv, Sound, Prepared, Late
  <2>2. PointerInv'
    BY <1>1, <1>3 DEF PointerInv, Pointed
  <2>. QED BY <2>1, <2>2
<1>9. SyncInv' /\ BuildersDiffer'
  BY <1>1, <1>6, SyncsAlone DEF IInv
<1>10. ASSUME fault = "machine" PROVE DurableInv' /\ PointerDurable' /\ LossInv'
  <2>0. /\ disk' = disk /\ journal' = journal /\ candidate' = candidate /\ final' = final
        /\ approval' = approval /\ packets' = packets /\ current' = s
        /\ DurableInv /\ LossInv
    BY <1>1, <1>10 DEF IInv, DiskInv
  <2>a. ASSUME NEW x PROVE ~At(x, {"sync move"}) /\ ~At(x, {"sync verify"}) /\ ~At(x, Replacing)
    BY <1>1, <1>6, StepSets
  <2>1. DurableInv'
    BY <1>6, <2>0, <2>a DEF DurableInv
  <2>2. PointerDurable'
    BY <1>4 DEF PointerDurable
  <2>3. LossInv'
    <3>1. disk.journal[s] = journal[s]
      BY <1>3, <2>0, <2>a DEF DurableInv
    <3>2. \A c \in {s, disk.current} : c # None => Pointed(journal[c]) /\ Pointed(disk.journal[c])
      BY <1>3, <2>0, <3>1 DEF LossInv, Pointed
    <3>. QED BY <2>0, <3>2 DEF LossInv, Pointed
  <2>. QED BY <2>1, <2>2, <2>3
<1>. QED BY <1>1, <1>6, <1>7, <1>8, <1>9, <1>10 DEF IInv, DiskInv

LEMMA FinishStep ==
    ASSUME IInv, NEW p \in Promoters, Finish(p), UNCHANGED fault
    PROVE  IInv'
BY EndStep DEF Finish, Processes, Unsafe

\* Each fsync follows one replacement and precedes one next step.
LEMMA SyncPoints ==
    ASSUME NEW p \in Promoters, Sync(p)
    PROVE  \E next \in {"move", "prepare", "approve", "verify", "ready", "pointer", "publish",
                        "check"} :
              /\ pc' = [pc EXCEPT ![p] = next]
              /\ UNCHANGED <<snapshotFiles, key, packets, lock, job>>
              /\ pc[p] \in Promoting /\ pc[p] # "rename" /\ next \in Promoting
              /\ PhaseAt(pc[p]) \subseteq PhaseAt(next)
              /\ next = "verify" => pc[p] = "sync verify"
              /\ \/ pc[p] \in {"sync move", "sync publish"} /\ SyncRoot
                 \/ /\ pc[p] = "sync verify"
                    /\ disk' = [disk EXCEPT !.approval[job[p].snapshot] =
                                                 approval[job[p].snapshot]]
                 \/ /\ pc[p] \in {"sync prepare", "sync approve", "sync ready", "sync pointer",
                                  "sync check"}
                    /\ SyncJournal(job[p].snapshot)
<1>1. PICK next \in DOMAIN SyncedWith :
         /\ pc[p] = SyncedWith[next]
         /\ Goto(p, next)
         /\ CASE next \in {"move", "publish"} -> SyncRoot
              [] next = "verify" ->
                     LET s == job[p].snapshot
                     IN  disk' = [disk EXCEPT !.approval[s] = approval[s]]
              [] OTHER -> SyncJournal(job[p].snapshot)
         /\ UNCHANGED <<snapshotFiles, key, packets, lock, job>>
  BY DEF Sync
<1>2. next \in {"move", "prepare", "approve", "verify", "ready", "pointer", "publish", "check"}
  BY DEF SyncedWith
<1>3. /\ next = "move" => pc[p] = "sync move"
      /\ next = "prepare" => pc[p] = "sync prepare"
      /\ next = "approve" => pc[p] = "sync approve"
      /\ next = "verify" => pc[p] = "sync verify"
      /\ next = "ready" => pc[p] = "sync ready"
      /\ next = "pointer" => pc[p] = "sync pointer"
      /\ next = "publish" => pc[p] = "sync publish"
      /\ next = "check" => pc[p] = "sync check"
  <2>1. /\ SyncedWith["move"] = "sync move" /\ SyncedWith["prepare"] = "sync prepare"
        /\ SyncedWith["approve"] = "sync approve" /\ SyncedWith["verify"] = "sync verify"
        /\ SyncedWith["ready"] = "sync ready" /\ SyncedWith["pointer"] = "sync pointer"
        /\ SyncedWith["publish"] = "sync publish" /\ SyncedWith["check"] = "sync check"
    BY DEF SyncedWith
  <2>. QED BY <1>1, <2>1
<1>4. PhaseAt(pc[p]) \subseteq PhaseAt(next)
  BY <1>2, <1>3 DEF PhaseAt, Prepared, Phases
<1>5. pc[p] \in Promoting /\ next \in Promoting /\ pc[p] # "rename"
  BY <1>2, <1>3 DEF Promoting, Locked, PromoterSteps
<1>6. CASE next \in {"move", "publish"}
  BY <1>1, <1>2, <1>3, <1>4, <1>5, <1>6 DEF Goto
<1>7. CASE next = "verify"
  BY <1>1, <1>3, <1>4, <1>5, <1>7 DEF Goto
<1>8. CASE next \notin {"move", "publish", "verify"}
  BY <1>1, <1>2, <1>3, <1>4, <1>5, <1>8 DEF Goto
<1>. QED BY <1>6, <1>7, <1>8

LEMMA SyncStep ==
    ASSUME IInv, NEW p \in Promoters, Sync(p), UNCHANGED fault
    PROVE  IInv'
<1>. DEFINE s == job[p].snapshot
            Replacing == {"sync prepare", "sync approve", "sync ready", "sync pointer", "sync check"}
<1>1. PICK next \in {"move", "prepare", "approve", "verify", "ready", "pointer", "publish",
                     "check"} :
         /\ pc' = [pc EXCEPT ![p] = next]
         /\ UNCHANGED <<snapshotFiles, key, packets, lock, job>>
         /\ pc[p] \in Promoting /\ pc[p] # "rename" /\ next \in Promoting
         /\ PhaseAt(pc[p]) \subseteq PhaseAt(next)
         /\ next = "verify" => pc[p] = "sync verify"
         /\ \/ pc[p] \in {"sync move", "sync publish"} /\ SyncRoot
            \/ /\ pc[p] = "sync verify"
               /\ disk' = [disk EXCEPT !.approval[s] = approval[s]]
            \/ pc[p] \in Replacing /\ SyncJournal(s)
  BY SyncPoints
<1>2. /\ candidate' = candidate /\ final' = final /\ approval' = approval /\ current' = current
      /\ journal' = journal /\ key' = key /\ packets' = packets /\ lock' = lock /\ job' = job
      /\ next \in Locked /\ pc[p] \in Locked
  BY <1>1, StepSets DEF snapshotFiles
<1>3. /\ s \in Snapshots /\ job[p].directory \in packets[s] /\ job[p].directory \in Directories
      /\ journal[s] # None /\ journal[s].directory = job[p].directory
      /\ journal[s].phase \in PhaseAt(next)
      /\ current = s \/ job[p].directory.previous = current
      /\ final[s] # None
      /\ next = "verify" => approval[s] # None
  BY <1>1, PromotedNow
<1>4. pc'[p] = next
  BY <1>1 DEF IInv, TypeOK, Processes
<1>5. PromoterAt(p)'
  BY <1>2, <1>3, <1>4 DEF PromoterAt
<1>6. /\ LockInv' /\ PromoterInv' /\ SyncsRest
      /\ pc' \in [Processes -> SyncSteps \cup PromoterSteps]
      /\ \A x, steps : steps \subseteq Locked =>
            (At(x, steps) <=> (s = x /\ pc[p] \in steps))
      /\ \A x : Made(x)' <=> Made(x)
  BY <1>1, <1>2, <1>5, PromoterGoes
\* What the step makes durable is all that was not.
<1>7. /\ disk' \in [candidate: [Snapshots -> OptDirectory], final: [Snapshots -> OptDirectory],
                    approval: [Snapshots -> OptTime], current: OptSnapshot,
                    journal: [Snapshots -> Transactions \cup {None}]]
      /\ \/ /\ disk'.candidate = disk.candidate /\ disk'.final = disk.final
            /\ disk'.current = disk.current /\ pc[p] \notin {"sync move", "sync publish"}
         \/ disk'.candidate = candidate /\ disk'.final = final /\ disk'.current = current
      /\ \A x \in Snapshots :
            /\ disk'.approval[x] \in {approval[x], disk.approval[x]}
            /\ disk'.journal[x] \in {journal[x], disk.journal[x]}
      /\ pc[p] = "sync verify" => disk'.approval[s] = approval[s]
      /\ pc[p] \in Replacing => disk'.journal[s] = journal[s]
  <2>1. CASE pc[p] \in {"sync move", "sync publish"} /\ SyncRoot
    BY <2>1 DEF SyncRoot, IInv, TypeOK
  <2>2. CASE pc[p] = "sync verify" /\ disk' = [disk EXCEPT !.approval[s] = approval[s]]
    BY <1>3, <2>2 DEF IInv, TypeOK
  <2>3. CASE pc[p] \in Replacing /\ SyncJournal(s)
    BY <1>3, <2>3 DEF SyncJournal, IInv, TypeOK
  <2>. QED BY <1>1, <2>1, <2>2, <2>3
<1>8. TypeOK'
  BY <1>2, <1>6, <1>7 DEF IInv, TypeOK
<1>9. SoundInv' /\ PointerInv' /\ KeyInv'
  <2>1. SoundInv' /\ PointerInv'
    BY <1>2 DEF IInv, SoundInv, PointerInv, Sound, Pointed, Prepared, Late
  <2>2. KeyInv'
    BY <1>2, <1>7 DEF IInv, KeyInv
  <2>. QED BY <2>1, <2>2
<1>10. SyncInv' /\ BuildersDiffer'
  BY <1>2, <1>6, SyncsAlone DEF IInv
<1>11. ASSUME fault = "machine" PROVE DurableInv' /\ PointerDurable' /\ LossInv'
  <2>0. DurableInv /\ LossInv /\ PointerDurable
    BY <1>11 DEF IInv, DiskInv
  <2>1. ASSUME NEW x \in Snapshots
        PROVE  /\ disk'.final[x] = final[x]
               /\ disk'.candidate[x] = candidate[x] \/ Made(x)
               /\ disk'.approval[x] = approval[x]
               /\ \/ disk'.journal[x] = journal[x]
                  \/ disk'.journal[x] = None /\ journal[x] # None /\ journal[x].phase = "BUILT"
    <3>1. /\ At(x, {"sync move"}) => x = s /\ pc[p] = "sync move"
          /\ At(x, {"sync verify"}) => x = s /\ pc[p] = "sync verify"
          /\ At(x, Replacing) => x = s /\ pc[p] \in Replacing
      BY <1>6, StepSets
    <3>2. disk'.final[x] = final[x] /\ (disk'.candidate[x] = candidate[x] \/ Made(x))
      <4>1. /\ disk.final[x] = final[x] \/ At(x, {"sync move"})
            /\ disk.candidate[x] = candidate[x] \/ At(x, {"sync move"}) \/ Made(x)
        BY <2>0 DEF DurableInv
      <4>2. CASE At(x, {"sync move"})
        BY <1>7, <3>1, <4>2
      <4>3. CASE ~At(x, {"sync move"})
        BY <1>7, <4>1, <4>3
      <4>. QED BY <4>2, <4>3
    <3>3. disk'.approval[x] = approval[x]
      <4>1. disk.approval[x] = approval[x] \/ At(x, {"sync verify"})
        BY <2>0 DEF DurableInv
      <4>2. /\ disk'.approval[x] \in {approval[x], disk.approval[x]}
            /\ pc[p] = "sync verify" => disk'.approval[s] = approval[s]
        BY <1>7
      <4>. QED BY <3>1, <4>1, <4>2
    <3>4. \/ disk'.journal[x] = journal[x]
          \/ disk'.journal[x] = None /\ journal[x] # None /\ journal[x].phase = "BUILT"
      <4>1. CASE At(x, Replacing)
        BY <1>7, <3>1, <4>1
      <4>2. CASE ~At(x, Replacing)
        <5>1. \/ disk.journal[x] = journal[x]
              \/ disk.journal[x] = None /\ journal[x] # None /\ journal[x].phase = "BUILT"
          BY <2>0, <4>2 DEF DurableInv
        <5>. QED BY <1>7, <5>1
      <4>. QED BY <4>1, <4>2
    <3>. QED BY <3>2, <3>3, <3>4
  <2>2. DurableInv'
    BY <1>2, <1>6, <2>1 DEF DurableInv
  <2>3. PointerDurable'
    <3>1. disk'.current = current
      <4>1. CASE \E q \in Promoters : pc[q] = "sync publish"
        <5>1. pc[p] = "sync publish"
          BY <1>2, <4>1, OnePromoter DEF IInv, Locked, PromoterSteps
        <5>. QED BY <1>7, <5>1
      <4>2. CASE ~\E q \in Promoters : pc[q] = "sync publish"
        BY <1>7, <2>0, <4>2 DEF PointerDurable
      <4>. QED BY <4>1, <4>2
    <3>. QED BY <1>2, <3>1 DEF PointerDurable
  <2>4. LossInv'
    BY <1>2, <1>7, <2>0, LossShrinks DEF IInv, TypeOK
  <2>. QED BY <2>2, <2>3, <2>4
<1>. QED BY <1>1, <1>2, <1>6, <1>8, <1>9, <1>10, <1>11 DEF IInv, DiskInv

LEMMA PowerLossStep ==
    ASSUME IInv, PowerLoss, fault = "machine", UNCHANGED fault
    PROVE  IInv'
<1>0. LossInv /\ KeyInv /\ TypeOK
  BY DEF IInv, DiskInv
<1>1. PICK lost \in SUBSET (Unsynced(candidate, disk.candidate) \cup Unsynced(final, disk.final)) :
         /\ candidate' = Losing(candidate, disk.candidate, lost)
         /\ final' = Losing(final, disk.final, lost)
  BY DEF PowerLoss
<1>2. PICK lostA \in SUBSET Unsynced(approval, disk.approval) :
         approval' = Losing(approval, disk.approval, lostA)
  BY DEF PowerLoss
<1>3. PICK lostJ \in SUBSET Unsynced(journal, disk.journal) :
         journal' = Losing(journal, disk.journal, lostJ)
  BY DEF PowerLoss
<1>4. /\ current' \in {current, disk.current}
      /\ key' \in {key} \cup (IF key = "empty" THEN {"absent"} ELSE {})
      /\ disk' = [candidate |-> candidate', final |-> final', approval |-> approval',
                  current |-> current', journal |-> journal']
      /\ lock' = None
      /\ pc' = [p \in Processes |-> "idle"]
      /\ job' = [p \in Processes |-> NoJob]
      /\ packets' = packets
  BY DEF PowerLoss
<1>5. /\ \A x \in Snapshots :
            /\ \/ candidate'[x] = candidate[x] /\ final'[x] = final[x]
               \/ candidate'[x] = disk.candidate[x] /\ final'[x] = disk.final[x]
            /\ approval'[x] \in {approval[x], disk.approval[x]}
            /\ journal'[x] \in {journal[x], disk.journal[x]}
      /\ key = "whole" => key' = "whole"
      /\ disk'.candidate = candidate' /\ disk'.final = final' /\ disk'.approval = approval'
      /\ disk'.journal = journal' /\ disk'.current = current'
      /\ \A p \in Processes : pc'[p] = "idle"
  BY <1>1, <1>2, <1>3, <1>4 DEF Losing
<1>6. TypeOK'
  <2>1. /\ candidate' \in [Snapshots -> OptDirectory] /\ final' \in [Snapshots -> OptDirectory]
        /\ approval' \in [Snapshots -> OptTime]
        /\ journal' \in [Snapshots -> Transactions \cup {None}]
    BY <1>0, <1>1, <1>2, <1>3 DEF TypeOK, Losing
  <2>2. current' \in OptSnapshot /\ key' \in {"absent", "empty", "whole"}
    BY <1>0, <1>4 DEF TypeOK
  <2>3. /\ pc' \in [Processes -> SyncSteps \cup PromoterSteps] /\ job' \in [Processes -> Jobs]
        /\ lock' \in Promoters \cup {None} /\ packets' \in [Snapshots -> SUBSET Directories]
    BY <1>0, <1>4 DEF TypeOK, SyncSteps, Jobs, NoJob, OptSnapshot, OptDirectory
  <2>4. disk' \in [candidate: [Snapshots -> OptDirectory], final: [Snapshots -> OptDirectory],
                   approval: [Snapshots -> OptTime], current: OptSnapshot,
                   journal: [Snapshots -> Transactions \cup {None}]]
    BY <1>4, <2>1, <2>2
  <2>. QED BY <2>1, <2>2, <2>3, <2>4 DEF TypeOK
<1>7. ASSUME NEW x \in Snapshots
      PROVE  Sound(candidate'[x], final'[x], approval'[x], journal'[x], packets'[x])
  <2>1. \A j \in {journal[x], disk.journal[x]}, a \in {approval[x], disk.approval[x]} :
            /\ Sound(candidate[x], final[x], a, j, packets[x])
            /\ Sound(disk.candidate[x], disk.final[x], a, j, packets[x])
    BY <1>0 DEF LossInv
  <2>. QED BY <1>4, <1>5, <2>1
<1>8. current' # None => Pointed(journal'[current'])
  <2>1. current' # None => current' \in Snapshots
    BY <1>6 DEF TypeOK, OptSnapshot
  <2>2. current' # None => Pointed(journal[current']) /\ Pointed(disk.journal[current'])
    BY <1>0, <1>4 DEF LossInv
  <2>. QED BY <1>5, <2>1, <2>2
<1>9. SoundInv' /\ PointerInv' /\ KeyInv'
  <2>1. SoundInv'
    BY <1>7 DEF SoundInv
  <2>2. PointerInv'
    BY <1>8 DEF PointerInv, Pointed
  <2>3. KeyInv'
    BY <1>0, <1>5 DEF KeyInv
  <2>. QED BY <2>1, <2>2, <2>3
<1>10. SyncInv' /\ BuildersDiffer' /\ LockInv' /\ PromoterInv'
  BY <1>5 DEF SyncInv, SyncAt, BuildersDiffer, Building, LockInv, Locked, PromoterInv,
              PromoterAt, Promoting, Processes
<1>11. DurableInv' /\ PointerDurable' /\ LossInv'
  <2>1. DurableInv' /\ PointerDurable'
    BY <1>5 DEF DurableInv, PointerDurable
  <2>2. LossInv'
    BY <1>5, <1>7, <1>8 DEF LossInv, Pointed
  <2>. QED BY <2>1, <2>2
<1>. QED BY <1>6, <1>9, <1>10, <1>11 DEF IInv, DiskInv

LEMMA NormalStep ==
    ASSUME IInv, NormalNext, UNCHANGED fault
    PROVE  IInv'
<1>1. ASSUME NEW p \in Syncs, SyncNext(p) PROVE IInv'
  BY <1>1, StartSyncStep, MakeCandidateStep, WriteCandidateStep, CreateTransactionStep,
     CreateKeyStep, WriteKeyStep, SyncTransactionStep DEF SyncNext
<1>2. ASSUME NEW p \in Promoters, Promotion(p) PROVE IInv'
  <2>1. CASE Load(p)
    BY <2>1, LoadStep
  <2>2. CASE Rename(p)
    BY <2>2, RenameStep
  <2>3. CASE AdvanceMoved(p)
    BY <2>3, AdvanceStep DEF AdvanceMoved, Phases
  <2>4. CASE PrepareApproval(p)
    BY <2>4, PrepareApprovalStep
  <2>5. CASE WriteApproval(p)
    BY <2>5, WriteApprovalStep
  <2>6. CASE Verify(p)
    BY <2>6, VerifyStep
  <2>7. CASE AdvanceReady(p)
    BY <2>7, AdvanceStep DEF AdvanceReady, Phases
  <2>8. CASE WritePointer(p)
    BY <2>8, WritePointerStep
  <2>9. CASE AdvancePublished(p)
    BY <2>9, AdvanceStep DEF AdvancePublished, Phases
  <2>10. CASE Finish(p)
    BY <2>10, FinishStep
  <2>11. CASE Sync(p)
    BY <2>11, SyncStep
  <2>. QED BY <1>2, <2>1, <2>2, <2>3, <2>4, <2>5, <2>6, <2>7, <2>8, <2>9, <2>10, <2>11
           DEF Promotion
<1>3. ASSUME NEW p \in Promoters, PromoterNext(p) PROVE IInv'
  BY <1>2, <1>3, ApproveStep, LockStep DEF PromoterNext
<1>4. CASE ReviewNext
  BY <1>4, ReviewStep DEF ReviewNext
<1>. QED BY <1>1, <1>3, <1>4 DEF NormalNext

LEMMA StopStep ==
    ASSUME IInv, NEW p \in Processes, Stop(p), fault = "process", UNCHANGED fault
    PROVE  IInv'
BY EndStep DEF Stop

LEMMA Unchanged ==
    ASSUME IInv, UNCHANGED <<vars, fault>>
    PROVE  IInv'
<1>1. TypeOK'
  BY DEF IInv, TypeOK, vars, snapshotFiles
<1>2. UNCHANGED <<snapshotFiles, key, disk, packets, lock, pc, job, fault>>
  BY DEF vars, snapshotFiles
<1>3. SoundInv' /\ PointerInv' /\ KeyInv' /\ DiskInv' /\ fault' \in {"process", "machine"}
  BY <1>2, FilesAlone DEF SafeMoves
<1>4. SyncInv' /\ BuildersDiffer'
  BY <1>2, SyncsAlone DEF IInv, SyncsRest, snapshotFiles
<1>5. LockInv' /\ PromoterInv'
  BY <1>2, PromotersAlone DEF IInv, PromotersRest, snapshotFiles
<1>. QED BY <1>1, <1>3, <1>4, <1>5 DEF IInv

LEMMA Initial ==
    ASSUME Init, fault \in {"process", "machine"}
    PROVE  IInv
<1>1. TypeOK
  <2>1. NoJob \in Jobs
    BY DEF NoJob, Jobs, OptSnapshot, OptDirectory
  <2>. QED BY <2>1 DEF Init, TypeOK, OptSnapshot, OptDirectory, OptTime, SyncSteps
<1>2. SoundInv /\ PointerInv /\ KeyInv
  BY DEF Init, SoundInv, PointerInv, KeyInv, Sound
<1>3. \A p \in Processes : pc[p] = "idle"
  BY DEF Init
<1>4. SyncInv /\ BuildersDiffer /\ LockInv /\ PromoterInv
  BY <1>3 DEF SyncInv, SyncAt, BuildersDiffer, Building, LockInv, Locked, PromoterInv,
              PromoterAt, Promoting, Processes
<1>5. DurableInv /\ PointerDurable /\ LossInv
  <2>1. DurableInv /\ PointerDurable
    BY DEF Init, DurableInv, PointerDurable
  <2>2. LossInv
    BY DEF Init, LossInv, Sound
  <2>. QED BY <2>1, <2>2
<1>. QED BY <1>1, <1>2, <1>4, <1>5 DEF IInv, DiskInv

LEMMA Inductive == IInv /\ [FaultNext /\ UNCHANGED fault]_<<vars, fault>> => IInv'
<1>. SUFFICES ASSUME IInv, [FaultNext /\ UNCHANGED fault]_<<vars, fault>>
     PROVE  IInv'
  OBVIOUS
<1>1. CASE NormalNext /\ UNCHANGED fault
  BY <1>1, NormalStep
<1>2. ASSUME NEW p \in Processes, fault = "process", Stop(p), UNCHANGED fault PROVE IInv'
  BY <1>2, StopStep
<1>3. CASE fault = "machine" /\ PowerLoss /\ UNCHANGED fault
  BY <1>3, PowerLossStep
<1>4. CASE UNCHANGED <<vars, fault>>
  BY <1>4, Unchanged
<1>. QED BY <1>1, <1>2, <1>3, <1>4 DEF FaultNext

-----------------------------------------------------------------------------
\* Whatever stops and whatever a power loss takes back, the files of every
\* snapshot fit together at every step of every sync and promotion.
THEOREM Invariance == FaultSpec => []IInv
<1>1. fault \in {"process", "machine"} /\ Init => IInv
  BY Initial
<1>. QED BY <1>1, Inductive, PTL DEF FaultSpec

\* Every variable keeps its type.
THEOREM TypeCorrect == FaultSpec => []TypeOK
<1>1. IInv => TypeOK
  BY DEF IInv
<1>. QED BY <1>1, Invariance, PTL

\* current.json selects a whole directory with the journaled approval, of
\* contents a steward has seen, whatever stopped or was lost before.
THEOREM CurrentServes == FaultSpec => []CurrentIsServable
<1>1. IInv => CurrentIsServable
  <2>. SUFFICES ASSUME IInv, current # None PROVE CurrentIsServable
    BY DEF CurrentIsServable
  <2>1. current \in Snapshots /\ Pointed(journal[current])
    BY DEF IInv, TypeOK, OptSnapshot, PointerInv
  <2>2. Sound(candidate[current], final[current], approval[current], journal[current],
              packets[current])
    BY <2>1 DEF IInv, SoundInv
  <2>3. journal[current] # None /\ journal[current].phase \in Late
    BY <2>1 DEF Pointed, Late
  <2>4. approval[current] # None
    BY <2>2, <2>3 DEF Sound
  <2>. QED BY <2>2, <2>3, <2>4 DEF Sound, CurrentIsServable, Servable
<1>. QED BY <1>1, Invariance, PTL

-----------------------------------------------------------------------------
(* The lineage: what a reader sees of the files is SnapshotLineage.        *)

\* What the disk may lack of what is seen: the last directory that was placed,
\* and the last pointer.
BehindInv ==
    fault = "machine" =>
        /\ disk.current = current \/ (current # None /\ disk.current = final[current].previous)
        /\ \A s \in Snapshots : disk.final[s] \in {final[s], None}

\* The step makes the root durable or leaves what is durable of it.
RootSynced == disk'.final = final /\ disk'.current = current
RootRests == disk'.final = disk.final /\ disk'.current = disk.current

StepFrom == IInv /\ [FaultNext /\ UNCHANGED fault]_<<vars, fault>>

LEMMA DiskWrites ==
    ASSUME TypeOK, NEW s \in Snapshots
    PROVE  /\ SyncRoot => RootSynced
           /\ SyncJournal(s) => RootRests
           /\ disk' = [disk EXCEPT !.approval[s] = approval[s]] => RootRests
<1>1. disk \in [candidate: [Snapshots -> OptDirectory], final: [Snapshots -> OptDirectory],
                approval: [Snapshots -> OptTime], current: OptSnapshot,
                journal: [Snapshots -> Transactions \cup {None}]]
  BY DEF TypeOK
<1>2. SyncRoot => RootSynced
  BY <1>1 DEF SyncRoot, RootSynced
<1>3. SyncJournal(s) => RootRests
  BY <1>1 DEF SyncJournal, RootRests
<1>4. disk' = [disk EXCEPT !.approval[s] = approval[s]] => RootRests
  BY <1>1 DEF RootRests
<1>. QED BY <1>2, <1>3, <1>4

\* Five kinds of steps, to a reader.
LEMMA StepKinds ==
    ASSUME StepFrom
    PROVE  \/ UNCHANGED <<packets, final, current, fault>> /\ (RootSynced \/ RootRests)
           \/ \E s \in Snapshots : Review(s) /\ UNCHANGED fault
           \/ \E p \in Promoters : (Rename(p) \/ WritePointer(p)) /\ UNCHANGED fault
           \/ PowerLoss /\ fault = "machine" /\ UNCHANGED fault
<1>. DEFINE Quiet == UNCHANGED <<packets, final, current, fault>> /\ (RootSynced \/ RootRests)
<1>1. TypeOK
  BY DEF StepFrom, IInv
<1>2. ASSUME NEW y \in Syncs, SyncNext(y), UNCHANGED fault
      PROVE  Quiet
  <2>1. pc[y] # "idle" => job[y].snapshot \in Snapshots
    BY DEF StepFrom, IInv, SyncInv, SyncAt
  <2>2. CASE \E s \in Snapshots, content \in Contents : StartSync(y, s, content)
    BY <1>2, <2>2 DEF StartSync, snapshotFiles, RootRests
  <2>3. CASE MakeCandidate(y)
    BY <1>2, <2>3 DEF MakeCandidate, RootRests
  <2>4. CASE WriteCandidate(y)
    BY <1>1, <1>2, <2>4 DEF WriteCandidate, TypeOK, RootSynced
  <2>5. CASE CreateTransaction(y)
    BY <1>2, <2>5 DEF CreateTransaction, RootRests
  <2>6. CASE CreateKey(y)
    BY <1>2, <2>6 DEF CreateKey, snapshotFiles, RootRests
  <2>7. CASE WriteKey(y)
    <3>1. SyncRoot /\ UNCHANGED <<final, current, packets>> /\ pc[y] # "idle"
      BY <2>7 DEF WriteKey
    <3>. QED BY <1>1, <1>2, <2>1, <3>1, DiskWrites
  <2>8. CASE SyncTransaction(y)
    <3>1. SyncJournal(job[y].snapshot) /\ UNCHANGED <<final, current, packets>> /\ pc[y] # "idle"
      BY <2>8 DEF SyncTransaction, snapshotFiles
    <3>. QED BY <1>1, <1>2, <2>1, <3>1, DiskWrites
  <2>. HIDE DEF Quiet
  <2>. QED BY <1>2, <2>2, <2>3, <2>4, <2>5, <2>6, <2>7, <2>8 DEF SyncNext
<1>3. ASSUME NEW p \in Promoters, PromoterNext(p), UNCHANGED fault
      PROVE  Quiet \/ Rename(p) \/ WritePointer(p)
  <2>1. pc[p] # "idle" => job[p].snapshot \in Snapshots
    BY DEF StepFrom, IInv, PromoterInv, PromoterAt
  <2>2. CASE (\E s \in Snapshots : Approve(p, s)) \/ Lock(p) \/ Finish(p)
    BY <1>3, <2>2 DEF Approve, Lock, Finish, snapshotFiles, RootRests
  <2>3. CASE AdvanceMoved(p) \/ AdvanceReady(p) \/ AdvancePublished(p) \/ PrepareApproval(p) \/ WriteApproval(p)
    BY <1>3, <2>3 DEF AdvanceMoved, AdvanceReady, AdvancePublished, Advance, PrepareApproval,
                      WriteApproval, RootRests
  <2>4. CASE Verify(p)
    BY <1>3, <2>4 DEF Verify, Advance, snapshotFiles, RootRests
  <2>5. CASE Load(p)
    <3>1. /\ disk' = [disk EXCEPT !.approval[job[p].snapshot] = approval[job[p].snapshot]] \/ UNCHANGED disk
          /\ UNCHANGED <<final, current, packets>> /\ pc[p] # "idle"
      BY <2>5 DEF Load, snapshotFiles
    <3>2. UNCHANGED disk => RootRests
      BY DEF RootRests
    <3>. QED BY <1>1, <1>3, <2>1, <3>1, <3>2, DiskWrites
  <2>6. CASE Sync(p)
    <3>. DEFINE s == job[p].snapshot
    <3>1. /\ SyncRoot \/ SyncJournal(s) \/ disk' = [disk EXCEPT !.approval[s] = approval[s]]
          /\ UNCHANGED <<final, current, packets>>
      BY <2>6 DEF Sync, snapshotFiles
    <3>2. pc[p] # "idle"
      BY <2>6, SyncPoints DEF Sync
    <3>. QED BY <1>1, <1>3, <2>1, <3>1, <3>2, DiskWrites
  <2>. HIDE DEF Quiet
  <2>. QED BY <1>3, <2>2, <2>3, <2>4, <2>5, <2>6 DEF PromoterNext, Promotion
<1>4. ASSUME NEW p \in Processes, Stop(p), UNCHANGED fault
      PROVE  Quiet
  BY <1>4 DEF Stop, snapshotFiles, RootRests
<1>5. CASE UNCHANGED <<vars, fault>>
  BY <1>5 DEF vars, snapshotFiles, RootRests
<1>. HIDE DEF Quiet
<1>6. Quiet => UNCHANGED <<packets, final, current, fault>> /\ (RootSynced \/ RootRests)
  BY DEF Quiet
<1>7. CASE FaultNext /\ UNCHANGED fault
  BY <1>2, <1>3, <1>4, <1>6, <1>7 DEF FaultNext, NormalNext, ReviewNext
<1>8. CASE UNCHANGED <<vars, fault>>
  BY <1>5, <1>6, <1>8
<1>. QED BY <1>7, <1>8 DEF StepFrom

\* What the pointer selects has a directory, with it or without the machine.
LEMMA PointedIsPlaced ==
    ASSUME IInv
    PROVE  /\ current # None => current \in Snapshots /\ final[current] # None
           /\ fault = "machine" /\ disk.current # None =>
                 disk.current \in Snapshots /\ final[disk.current] # None
<1>1. ASSUME NEW s \in Snapshots, Pointed(journal[s])
      PROVE  final[s] # None
  <2>1. Sound(candidate[s], final[s], approval[s], journal[s], packets[s])
    BY DEF IInv, SoundInv
  <2>. QED BY <1>1, <2>1 DEF Sound, Pointed
<1>2. current \in Snapshots \cup {None} /\ disk.current \in Snapshots \cup {None}
  BY DEF IInv, TypeOK, OptSnapshot
<1>3. current # None => Pointed(journal[current])
  BY DEF IInv, PointerInv
<1>4. fault = "machine" /\ disk.current # None => Pointed(journal[disk.current])
  BY DEF IInv, DiskInv, LossInv
<1>. QED BY <1>1, <1>2, <1>3, <1>4

\* A promotion places what its steward has seen, and the pointer follows what
\* was current before and durable by then.
LEMMA RenamePlaces ==
    ASSUME IInv, NEW p \in Promoters, Rename(p)
    PROVE  \E s \in Snapshots : /\ final[s] = None
                                /\ \E d \in packets[s] : final' = [final EXCEPT ![s] = d]
                                /\ UNCHANGED <<packets, current, disk>>
<1>1. pc[p] = "rename" /\ pc[p] \in Promoting
  BY DEF Rename, Promoting, Locked, PromoterSteps
<1>. QED BY <1>1, PromotedNow DEF Rename

LEMMA PointerExtends ==
    ASSUME IInv, NEW p \in Promoters, WritePointer(p)
    PROVE  /\ current' \in Snapshots /\ final[current'] # None
           /\ current' = current \/ final[current'].previous = current
           /\ fault = "machine" => disk.current = current
           /\ UNCHANGED <<packets, final, disk>>
<1>1. pc[p] = "pointer" /\ pc[p] \in Promoting /\ current' = job[p].snapshot
  BY DEF WritePointer, Promoting, Locked, PromoterSteps
<1>2. /\ current' \in Snapshots /\ final[current'] # None
      /\ current' = current \/ final[current'].previous = current
  BY <1>1, PromotedNow DEF Sound
<1>3. ASSUME fault = "machine", NEW q \in Promoters, pc[q] = "sync publish"
      PROVE  FALSE
  <2>1. pc[q] \in Locked /\ pc[p] \in Locked
    BY <1>1, <1>3 DEF Promoting, Locked, PromoterSteps
  <2>2. p = q
    BY <2>1 DEF IInv, LockInv
  <2>. QED BY <1>1, <1>3, <2>2
<1>4. fault = "machine" => disk.current = current
  BY <1>3 DEF IInv, DiskInv, PointerDurable
<1>. QED BY <1>2, <1>4 DEF WritePointer

\* What is left of the directories after a power loss.
LEMMA LossTakesBack ==
    ASSUME IInv, BehindInv, PowerLoss, fault = "machine", UNCHANGED fault, IInv'
    PROVE  /\ current' = current \/ (current # None /\ current' = final[current].previous)
           /\ \E lost \in SUBSET (Snapshots \ {current'}) :
                 final' = [s \in Snapshots |-> IF s \in lost THEN None ELSE final[s]]
           /\ UNCHANGED packets
           /\ disk'.final = final' /\ disk'.current = current'
<1>1. current' \in {current, disk.current} /\ UNCHANGED packets
      /\ disk'.final = final' /\ disk'.current = current'
  BY DEF PowerLoss
<1>2. \A s \in Snapshots : final'[s] \in {final[s], None}
  <2>1. PICK lost : final' = Losing(final, disk.final, lost)
    BY DEF PowerLoss
  <2>. QED BY <2>1 DEF Losing, BehindInv
<1>3. final' \in [Snapshots -> OptDirectory] /\ final \in [Snapshots -> OptDirectory]
  BY DEF IInv, TypeOK
<1>4. current' # None => final'[current'] # None
  <2>1. SUFFICES ASSUME current' # None PROVE final'[current'] # None
    OBVIOUS
  <2>2. current' \in Snapshots
    BY <2>1 DEF IInv, TypeOK, OptSnapshot
  <2>3. Pointed(journal'[current'])
    BY <2>1 DEF IInv, PointerInv
  <2>4. Sound(candidate'[current'], final'[current'], approval'[current'], journal'[current'], packets'[current'])
    BY <2>2 DEF IInv, SoundInv
  <2>. QED BY <2>3, <2>4 DEF Sound, Pointed
<1>. DEFINE lost == {s \in Snapshots : final'[s] # final[s]}
<1>5. final' = [s \in Snapshots |-> IF s \in lost THEN None ELSE final[s]]
  BY <1>2, <1>3
<1>6. lost \in SUBSET (Snapshots \ {current'})
  <2>1. current' \in Snapshots => final'[current'] = final[current']
    <3>1. current' \in Snapshots => current' # None
      BY NoneIsFresh
    <3>. QED BY <1>2, <1>4, <3>1
  <2>. QED BY <2>1
<1>7. current' = current \/ (current # None /\ current' = final[current].previous)
  BY <1>1 DEF BehindInv
<1>. HIDE DEF lost
<1>. QED BY <1>1, <1>5, <1>6, <1>7

LEMMA BehindKept == StepFrom /\ BehindInv => BehindInv'
<1>. SUFFICES ASSUME StepFrom, BehindInv, fault' = "machine"
     PROVE  /\ disk'.current = current' \/ (current' # None /\ disk'.current = final'[current'].previous)
            /\ \A s \in Snapshots : disk'.final[s] \in {final'[s], None}
  BY DEF BehindInv
<1>1. IInv /\ IInv' /\ fault = "machine" /\ UNCHANGED fault
  BY Inductive DEF StepFrom, vars
<1>2. /\ disk.current = current \/ (current # None /\ disk.current = final[current].previous)
      /\ \A s \in Snapshots : disk.final[s] \in {final[s], None}
  BY <1>1 DEF BehindInv
<1>3. CASE UNCHANGED <<packets, final, current, fault>> /\ (RootSynced \/ RootRests)
  BY <1>2, <1>3 DEF RootSynced, RootRests
<1>4. ASSUME NEW s \in Snapshots, Review(s) PROVE UNCHANGED <<final, current, disk>>
  BY <1>4 DEF Review, snapshotFiles
<1>5. ASSUME NEW p \in Promoters, Rename(p)
      PROVE  /\ UNCHANGED <<current, disk>> /\ (current # None => final'[current] = final[current])
             /\ \A s \in Snapshots : disk.final[s] \in {final'[s], None}
  <2>1. PICK s \in Snapshots : /\ final[s] = None /\ UNCHANGED <<current, disk>>
                               /\ \E d \in packets[s] : final' = [final EXCEPT ![s] = d]
    BY <1>1, <1>5, RenamePlaces
  <2>2. \A t \in Snapshots \ {s} : final'[t] = final[t]
    BY <1>1, <2>1 DEF IInv, TypeOK
  <2>3. current # None => current \in Snapshots \ {s}
    BY <1>1, <2>1, PointedIsPlaced
  <2>. QED BY <1>2, <2>1, <2>2, <2>3
<1>6. ASSUME NEW p \in Promoters, WritePointer(p)
      PROVE  /\ UNCHANGED <<final, disk>>
             /\ disk.current = current' \/ (current' # None /\ disk.current = final[current'].previous)
  BY <1>1, <1>6, PointerExtends, NoneIsFresh
<1>7. CASE PowerLoss
  <2>1. disk'.final = final' /\ disk'.current = current'
    BY <1>1, <1>7, LossTakesBack
  <2>. QED BY <2>1
<1>8. CASE \E s \in Snapshots : Review(s)
  BY <1>2, <1>4, <1>8
<1>9. CASE \E p \in Promoters : Rename(p)
  <2>1. PICK p \in Promoters : Rename(p)
    BY <1>9
  <2>2. /\ UNCHANGED <<current, disk>> /\ (current # None => final'[current] = final[current])
        /\ \A s \in Snapshots : disk.final[s] \in {final'[s], None}
    BY <1>5, <2>1
  <2>. QED BY <1>2, <2>2
<1>10. CASE \E p \in Promoters : WritePointer(p)
  BY <1>2, <1>6, <1>10
<1>. QED BY <1>3, <1>7, <1>8, <1>9, <1>10, StepKinds

\* A reader sees one step of the lineage, or none.
LEMMA StepIsLineage ==
    ASSUME StepFrom, BehindInv
    PROVE  [Lineage!Next]_<<packets, final, current>>
<1>1. IInv /\ IInv'
  BY Inductive DEF StepFrom
<1>2. CASE UNCHANGED <<packets, final, current>>
  BY <1>2
<1>3. ASSUME NEW s \in Snapshots, Review(s) PROVE Lineage!Review(s)
  <2>1. LoadAccepts(s) /\ packets' = [packets EXCEPT ![s] = @ \cup {Selected(s)}]
        /\ UNCHANGED <<final, current>>
    BY <1>3 DEF Review, snapshotFiles
  <2>2. Selected(s) \in Directories
    BY <1>1, <2>1 DEF IInv, TypeOK, LoadAccepts, Selected, OptDirectory
  <2>. QED BY <2>1, <2>2 DEF Lineage!Review
<1>4. ASSUME NEW p \in Promoters, Rename(p) PROVE \E s \in Snapshots : Lineage!Place(s)
  BY <1>1, <1>4, RenamePlaces DEF Lineage!Place
<1>5. ASSUME NEW p \in Promoters, WritePointer(p)
      PROVE  UNCHANGED <<packets, final, current>> \/ \E s \in Snapshots : Lineage!Select(s)
  BY <1>1, <1>5, PointerExtends DEF Lineage!Select
<1>6. CASE PowerLoss /\ fault = "machine" /\ UNCHANGED fault
  BY <1>1, <1>6, LossTakesBack DEF Lineage!FallBack, Lineage!Next
<1>. QED BY <1>2, <1>3, <1>4, <1>5, <1>6, StepKinds DEF Lineage!Next

\* For any ids, syncs and promoters and under either kind of fault, what is
\* published was reviewed as it is, extends what was current, is never changed
\* or replaced, and a power loss takes back one pointer at most
\* (approve_candidate_snapshot).
THEOREM Refinement == FaultSpec => ImplementsLineage
<1>1. fault \in {"process", "machine"} /\ Init => IInv /\ BehindInv /\ Lineage!Init
  BY Initial DEF Init, BehindInv, Lineage!Init
<1>2. StepFrom /\ BehindInv => IInv' /\ BehindInv' /\ [Lineage!Next]_<<packets, final, current>>
  BY Inductive, BehindKept, StepIsLineage DEF StepFrom
<1>3. IInv /\ [FaultNext /\ UNCHANGED fault]_<<vars, fault>> => StepFrom
  BY DEF StepFrom
<1>. QED BY <1>1, <1>2, <1>3, PTL DEF FaultSpec, ImplementsLineage, Lineage!Spec

-----------------------------------------------------------------------------
(* One sync at a time.  A second sync of the same id can pass the check of *)
(* the id before the first one's candidate is promoted, and make its own   *)
(* directory after that: then the id has both, and nothing loads it again. *)

\* The holder's steps and everything else that builds nothing.
LEMMA AloneKept ==
    ASSUME IInv, AloneInv, UNCHANGED <<candidate, final>>,
           \/ disk'.candidate = disk.candidate /\ disk'.final = disk.final
           \/ disk'.candidate = candidate /\ disk'.final = final,
           \A y \in Syncs : pc'[y] \in {"checked"} \cup Building =>
               /\ pc[y] \in {"checked"} \cup Building
               /\ job'[y] = job[y]
               /\ journal[job[y].snapshot] = None => journal'[job[y].snapshot] = None
    PROVE  AloneInv'
BY DEF AloneInv, Building

LEMMA AloneSync ==
    ASSUME IInv, AloneInv, OneSync, NEW p \in Syncs, SyncNext(p)
    PROVE  AloneInv'
<1>. DEFINE s == job[p].snapshot
<1>0. \A y \in Syncs : y = p
  BY DEF OneSync
<1>a. pc[p] # "idle" => s \in Snapshots
  BY DEF IInv, SyncInv, SyncAt
<1>b. pc \in [Processes -> SyncSteps \cup PromoterSteps] /\ p \in Processes
  BY DEF IInv, TypeOK, Processes
<1>1. ASSUME NEW x \in Snapshots, NEW content \in Contents, StartSync(p, x, content)
      PROVE  AloneInv'
  <2>1. candidate[x] = None /\ final[x] = None
    BY <1>1 DEF StartSync
  <2>2. journal[x] = None
    <3>1. journal[x] # None => journal[x].directory \in Directories
      BY DEF IInv, TypeOK, Transactions
    <3>. QED BY <2>1, <3>1, FilesAssumption DEF IInv, SoundInv, Sound
  <2>3. job'[p].snapshot = x
    BY <1>1, <1>b DEF StartSync, IInv, TypeOK
  <2>4. UNCHANGED <<candidate, final, journal, disk>>
    BY <1>1 DEF StartSync, snapshotFiles
  <2>. QED BY <1>0, <2>1, <2>2, <2>3, <2>4 DEF AloneInv
<1>2. CASE MakeCandidate(p)
  <2>1. pc[p] = "checked" /\ journal[s] = None /\ final[s] = None /\ s \in Snapshots
    BY <1>2, <1>a DEF MakeCandidate, AloneInv
  <2>2. UNCHANGED <<final, journal, disk>> /\ (pc'[p] = "idle" \/ job' = job)
    BY <1>2, <1>b DEF MakeCandidate, End, Goto
  <2>3. \A x \in Snapshots : x = s \/ candidate'[x] = candidate[x]
    BY <1>2 DEF MakeCandidate, IInv, TypeOK
  <2>. QED BY <1>0, <2>1, <2>2, <2>3 DEF AloneInv, Building
<1>3. CASE WriteCandidate(p)
  <2>1. pc[p] = "made" /\ journal[s] = None /\ final[s] = None /\ s \in Snapshots
    BY <1>3, <1>a DEF WriteCandidate, AloneInv, Building
  <2>2. /\ UNCHANGED <<final, journal, job>>
        /\ disk' = [disk EXCEPT !.candidate = candidate', !.final = final, !.current = current]
        /\ candidate' = [candidate EXCEPT ![s] = job[p].directory]
    BY <1>3 DEF WriteCandidate
  <2>3. disk'.candidate = candidate' /\ disk'.final = final'
    BY <2>2 DEF IInv, TypeOK
  <2>4. \A x \in Snapshots : x = s \/ candidate'[x] = candidate[x]
    BY <2>2 DEF IInv, TypeOK
  <2>. QED BY <1>0, <2>1, <2>2, <2>3, <2>4 DEF AloneInv, Building
<1>4. CASE CreateTransaction(p)
  <2>1. pc'[p] \in {"journaled", "idle"} /\ UNCHANGED <<candidate, final, disk>>
    BY <1>4, <1>b DEF CreateTransaction, Goto, End
  <2>. QED BY <1>0, <2>1, AloneKept DEF Building
<1>5. CASE CreateKey(p)
  <2>1. pc[p] = "written" /\ UNCHANGED <<candidate, final, disk, journal, job>>
    BY <1>5 DEF CreateKey, snapshotFiles
  <2>. QED BY <1>0, <2>1, AloneKept DEF Building
<1>6. CASE WriteKey(p)
  <2>1. pc'[p] = "journaled" /\ UNCHANGED <<candidate, final>> /\ SyncRoot
    BY <1>6, <1>b DEF WriteKey, Goto
  <2>2. disk'.candidate = candidate /\ disk'.final = final
    BY <2>1 DEF SyncRoot, IInv, TypeOK
  <2>. QED BY <1>0, <2>1, <2>2, AloneKept DEF Building
<1>7. CASE SyncTransaction(p)
  <2>1. pc'[p] = "idle" /\ UNCHANGED <<candidate, final>> /\ SyncJournal(s)
    BY <1>7, <1>b DEF SyncTransaction, End, Goto, snapshotFiles
  <2>2. disk'.candidate = disk.candidate /\ disk'.final = disk.final
    BY <2>1 DEF SyncJournal, IInv, TypeOK
  <2>. QED BY <1>0, <2>1, <2>2, AloneKept DEF Building
<1>. QED BY <1>1, <1>2, <1>3, <1>4, <1>5, <1>6, <1>7 DEF SyncNext

LEMMA AlonePromoter ==
    ASSUME IInv, AloneInv, NEW p \in Promoters, PromoterNext(p)
    PROVE  AloneInv'
<1>. DEFINE s == job[p].snapshot
<1>1. \A y \in Syncs : pc'[y] = pc[y] /\ job'[y] = job[y]
  <2>1. \E step : Goto(p, step)
    BY DEF PromoterNext, Promotion, Approve, Lock, Load, Rename, AdvanceMoved, PrepareApproval,
           WriteApproval, Verify, AdvanceReady, WritePointer, AdvancePublished, Advance, Finish,
           Sync, End
  <2>2. job' = job \/ \E other : job' = [job EXCEPT ![p] = other]
    BY DEF PromoterNext, Promotion, Approve, Lock, Load, Rename, AdvanceMoved, PrepareApproval,
           WriteApproval, Verify, AdvanceReady, WritePointer, AdvancePublished, Advance, Finish,
           Sync, End
  <2>. QED BY <2>1, <2>2, ProcessesDiffer DEF Goto, IInv, TypeOK, Processes
<1>2. CASE Rename(p)
  <2>1. s \in Snapshots /\ journal[s] # None
    BY <1>2, PromotedNow DEF Rename, Promoting, Locked, PromoterSteps
  <2>2. /\ final' = [final EXCEPT ![s] = candidate[s]]
        /\ candidate' = [candidate EXCEPT ![s] = None]
        /\ UNCHANGED <<journal, disk>>
    BY <1>2 DEF Rename
  <2>3. /\ candidate'[s] = None
        /\ \A x \in Snapshots : x = s \/ (candidate'[x] = candidate[x] /\ final'[x] = final[x])
    <3>1. DOMAIN candidate = Snapshots /\ DOMAIN final = Snapshots
      BY DEF IInv, TypeOK
    <3>. QED BY <2>1, <2>2, <3>1
  <2>4. \A y \in Syncs : pc[y] \in {"checked"} \cup Building => job[y].snapshot \in Snapshots
    BY DEF IInv, SyncInv, SyncAt, Building
  <2>. QED BY <1>1, <2>1, <2>2, <2>3, <2>4 DEF AloneInv
<1>3. CASE ~Rename(p)
  <2>1. UNCHANGED <<candidate, final>>
    BY <1>3 DEF PromoterNext, Promotion, Approve, Lock, Load, AdvanceMoved, PrepareApproval,
           WriteApproval, Verify, AdvanceReady, WritePointer, AdvancePublished, Advance, Finish,
           Sync, snapshotFiles
  <2>2. \/ disk'.candidate = disk.candidate /\ disk'.final = disk.final
        \/ disk'.candidate = candidate /\ disk'.final = final
    <3>1. CASE Sync(p)
      BY <3>1, SyncPoints DEF SyncRoot, SyncJournal, IInv, TypeOK
    <3>2. CASE Load(p)
      BY <3>2 DEF Load, IInv, TypeOK
    <3>3. CASE ~Sync(p) /\ ~Load(p)
      BY <1>3, <3>3 DEF PromoterNext, Promotion, Approve, Lock, AdvanceMoved, PrepareApproval,
           WriteApproval, Verify, AdvanceReady, WritePointer, AdvancePublished, Advance, Finish,
           snapshotFiles
    <3>. QED BY <3>1, <3>2, <3>3
  <2>3. ASSUME NEW x \in Snapshots, journal[x] = None PROVE journal'[x] = None
    <3>1. CASE journal' = journal
      BY <2>3, <3>1
    <3>2. CASE journal' # journal
      <4>1. pc[p] \in {"move", "prepare", "verify", "ready", "publish"}
        BY <1>3, <3>2 DEF PromoterNext, Promotion, Approve, Lock, Load, AdvanceMoved,
             PrepareApproval, WriteApproval, Verify, AdvanceReady, WritePointer,
             AdvancePublished, Advance, Finish, Sync, snapshotFiles
      <4>2. \A z \in Snapshots \ {s} : journal'[z] = journal[z]
        BY <1>3, <3>2 DEF PromoterNext, Promotion, Approve, Lock, Load, AdvanceMoved,
             PrepareApproval, WriteApproval, Verify, AdvanceReady, WritePointer,
             AdvancePublished, Advance, Finish, Sync, snapshotFiles, IInv, TypeOK
      <4>3. journal[s] # None
        BY <4>1, PromotedNow DEF Promoting, Locked, PromoterSteps
      <4>. QED BY <2>3, <4>2, <4>3
    <3>. QED BY <3>1, <3>2
  <2>4. \A y \in Syncs : pc[y] \in {"checked"} \cup Building => job[y].snapshot \in Snapshots
    BY DEF IInv, SyncInv, SyncAt, Building
  <2>. QED BY <1>1, <2>1, <2>2, <2>3, <2>4, AloneKept
<1>. QED BY <1>2, <1>3

LEMMA AloneInductive ==
    ASSUME IInv, AloneInv, OneSync, [FaultNext /\ UNCHANGED fault]_<<vars, fault>>
    PROVE  AloneInv'
<1>1. ASSUME NEW p \in Syncs, SyncNext(p) PROVE AloneInv'
  BY <1>1, AloneSync
<1>2. ASSUME NEW p \in Promoters, PromoterNext(p) PROVE AloneInv'
  BY <1>2, AlonePromoter
<1>3. CASE ReviewNext \/ UNCHANGED <<vars, fault>>
  <2>1. UNCHANGED <<candidate, final, journal, disk, pc, job>>
    BY <1>3 DEF ReviewNext, Review, vars, snapshotFiles
  <2>. QED BY <2>1, AloneKept
<1>4. ASSUME NEW p \in Processes, Stop(p) PROVE AloneInv'
  <2>1. UNCHANGED <<candidate, final, journal, disk>>
    BY <1>4 DEF Stop, snapshotFiles
  <2>2. \A q \in Processes : pc'[q] = "idle" \/ (pc'[q] = pc[q] /\ job'[q] = job[q])
    BY <1>4 DEF Stop, End, Goto, IInv, TypeOK
  <2>. QED BY <2>1, <2>2, AloneKept DEF Building, Processes
<1>5. CASE PowerLoss
  <2>1. PICK lost \in SUBSET (Unsynced(candidate, disk.candidate) \cup Unsynced(final, disk.final)) :
           /\ candidate' = Losing(candidate, disk.candidate, lost)
           /\ final' = Losing(final, disk.final, lost)
    BY <1>5 DEF PowerLoss
  <2>2. \A x \in Snapshots :
           \/ candidate'[x] = candidate[x] /\ final'[x] = final[x]
           \/ candidate'[x] = disk.candidate[x] /\ final'[x] = disk.final[x]
    BY <2>1 DEF Losing
  <2>3. disk'.candidate = candidate' /\ disk'.final = final' /\ pc' = [p \in Processes |-> "idle"]
    BY <1>5 DEF PowerLoss
  <2>. QED BY <2>2, <2>3 DEF AloneInv, Building, Processes
<1>. QED BY <1>1, <1>2, <1>3, <1>4, <1>5 DEF FaultNext, NormalNext

\* As long as only one sync runs at a time, a reviewed promotion that stopped
\* is accepted again, until another snapshot is published.
THEOREM PromotionRecovers == OneSync /\ FaultSpec => []PromotionIsRecoverable
<1>1. fault \in {"process", "machine"} /\ Init => AloneInv
  BY DEF Init, AloneInv, Building, Processes
<1>2. OneSync /\ IInv /\ IInv' /\ AloneInv /\ [FaultNext /\ UNCHANGED fault]_<<vars, fault>>
         => AloneInv'
  BY AloneInductive
<1>3. OneSync => OneSync'
  BY DEF OneSync
<1>4. IInv /\ AloneInv => PromotionIsRecoverable
  <2>. SUFFICES ASSUME IInv, AloneInv, NEW s \in Snapshots, Unfinished(s) PROVE LoadAccepts(s)
    BY DEF PromotionIsRecoverable
  <2>1. /\ Sound(candidate[s], final[s], approval[s], journal[s], packets[s])
        /\ journal[s] # None /\ journal[s] \in Transactions /\ ~journal[s].issues
        /\ current \in {journal[s].directory.previous, s}
        /\ final[s] # None => candidate[s] = None
        /\ key = "whole"
    BY DEF IInv, SoundInv, TypeOK, AloneInv, KeyInv, Unfinished
  <2>2. journal[s].directory \in Directories /\ journal[s].directory # None
        /\ journal[s].directory.content # None /\ journal[s].phase \in Phases
    BY <2>1, FilesAssumption DEF Transactions, Sound
  <2>3. Selected(s) = journal[s].directory
    BY <2>1, <2>2 DEF Selected, Sound
  <2>4. candidate[s] # None => journal[s].phase = "BUILT" /\ approval[s] = None
    BY <2>1 DEF Sound
  <2>5. candidate[s] = None =>
           IF approval[s] = None
           THEN journal[s].phase \in {"BUILT", "MOVED", "APPROVAL_PREPARED"}
           ELSE journal[s].phase \in Prepared /\ approval[s] = journal[s].approvedAt
    BY <2>1, <2>2 DEF Sound, Late, Phases
  <2>6. current # None => Servable(current)
    <3>. SUFFICES ASSUME current # None PROVE Servable(current)
      OBVIOUS
    <3>1. current \in Snapshots /\ Pointed(journal[current])
      BY DEF IInv, TypeOK, OptSnapshot, PointerInv
    <3>2. Sound(candidate[current], final[current], approval[current], journal[current],
                packets[current])
      BY <3>1 DEF IInv, SoundInv
    <3>. QED BY <3>1, <3>2 DEF Sound, Servable, Pointed, Late
  <2>7. ExtendsCurrent(s)
    BY <2>1, <2>3, <2>6 DEF ExtendsCurrent
  <2>. QED BY <2>1, <2>2, <2>3, <2>4, <2>5, <2>7 DEF LoadAccepts
<1>. QED BY <1>1, <1>2, <1>3, <1>4, Invariance, PTL DEF FaultSpec
=============================================================================
