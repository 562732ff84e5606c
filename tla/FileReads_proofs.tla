---------------------------- MODULE FileReads_proofs ----------------------------
(***************************************************************************)
(* Proofs about FileReads, for files of any length, any limit and any      *)
(* number of changes.  The argument is about the time of the last write:   *)
(* each write makes it later than it ever was, so that a reader that finds *)
(* it where it was has read one version of the file.                       *)
(***************************************************************************)
EXTENDS FileReads, SequenceTheorems, TLAPS

HeldFile == files[held.inode]

FileRecords ==
    [blocks: Seq(Nat), mode: {"private", "open"}, links: Int, mtime: Nat, ctime: Nat]

TypeOK ==
    /\ changes \in Nat
    /\ files \in [DOMAIN files -> FileRecords]
    /\ DOMAIN files \subseteq 0 .. changes
    /\ held \in [directory: Nat, inode: DOMAIN files]
    /\ path \in [directory: Nat, inode: DOMAIN files]
    /\ before \in [inode: Nat, size: Nat, mode: {"private", "open"}, links: Int,
                   mtime: Nat, ctime: Nat]
    /\ buffer \in Seq(Nat)

\* No file was written in the future.
TimeInv == \A i \in DOMAIN files : files[i].mtime <= changes

SeenInv == pc # "start" => HeldFile.blocks \in seen

\* The last write is the one that the reader saw.
Intact == HeldFile.mtime = before.mtime

\* Until the next write, what was read is a beginning of the file.
ReadInv ==
    IF pc \in {"start", "opened"} THEN buffer = <<>>
    ELSE /\ before.mtime <= HeldFile.mtime
         /\ Intact => /\ before.size = Len(HeldFile.blocks)
                      /\ Len(buffer) <= Len(HeldFile.blocks)
                      /\ \A k \in 1 .. Len(buffer) : buffer[k] = HeldFile.blocks[k]

\* When the reader has stopped reading, it has read all of it, or too much.
EndInv ==
    pc = "compare" \/ (pc = "trailing" /\ reader.trailing = "before") =>
        (Intact => Len(buffer) = Len(HeldFile.blocks) \/ Len(buffer) = Limit + 1)

\* When it has compared, it holds a version of the file.
AcceptInv ==
    (pc \in {"check", "accepted"} \/ (pc = "trailing" /\ reader.trailing # "before"))
      /\ "mtime" \in reader.compared => buffer \in seen

IInv == TypeOK /\ TimeInv /\ SeenInv /\ ReadInv /\ EndInv /\ AcceptInv

-----------------------------------------------------------------------------
(* Records and times                                                       *)

LEMMA Fields ==
    ASSUME NEW f \in FileRecords
    PROVE  /\ f.blocks \in Seq(Nat) /\ f.mode \in {"private", "open"}
           /\ f.links \in Int /\ f.mtime \in Nat /\ f.ctime \in Nat
BY DEF FileRecords

LEMMA Stamped ==
    ASSUME NEW f \in FileRecords, NEW n \in Nat
    PROVE  LET g == [f EXCEPT !.ctime = n]
           IN  g \in FileRecords /\ g.blocks = f.blocks /\ g.mtime = f.mtime
BY DEF FileRecords

LEMMA Unlinked ==
    ASSUME NEW f \in FileRecords, NEW n \in Nat
    PROVE  LET g == [f EXCEPT !.links = @ - 1, !.ctime = n]
           IN  g \in FileRecords /\ g.blocks = f.blocks /\ g.mtime = f.mtime
<1> DEFINE g == [f EXCEPT !.links = f.links - 1, !.ctime = n]
<1>1. f.links - 1 \in Int
  BY Fields
<1>2. g \in FileRecords /\ g.blocks = f.blocks /\ g.mtime = f.mtime
  BY <1>1 DEF FileRecords
<1> QED
  BY <1>2

LEMMA Rewritten ==
    ASSUME NEW f \in FileRecords, NEW blocks \in Seq(Nat), NEW n \in Nat
    PROVE  LET g == [f EXCEPT !.blocks = blocks, !.mtime = n]
           IN  g \in FileRecords /\ g.mtime = n
BY DEF FileRecords

LEMMA Clock ==
    ASSUME TypeOK
    PROVE  /\ Now \in Nat /\ Now = changes + 1 /\ changes \in Nat
           /\ HeldFile \in FileRecords /\ held.inode \in DOMAIN files
           /\ held.inode \in Nat /\ buffer \in Seq(Nat)
           /\ before.mtime \in Nat /\ before.size \in Nat
           /\ \A i \in DOMAIN files : files[i] \in FileRecords /\ files[i].mtime \in Nat
<1>1. Now \in Nat /\ Now = changes + 1 /\ changes \in Nat
  BY DEF TypeOK, Now
<1>2. /\ held.inode \in DOMAIN files /\ held.inode \in Nat /\ buffer \in Seq(Nat)
      /\ before.mtime \in Nat /\ before.size \in Nat
  BY DEF TypeOK
<1>3. \A i \in DOMAIN files : files[i] \in FileRecords
  BY DEF TypeOK
<1> QED
  BY <1>1, <1>2, <1>3, Fields DEF HeldFile

-----------------------------------------------------------------------------
(* What the others do                                                      *)

(* A change of one file, whose last write is as it was or is this one.     *)
LEMMA ChangeStep ==
    ASSUME IInv, NEW i \in DOMAIN files, NEW f \in FileRecords, Change(i, f),
           f.mtime = Now \/ (f.mtime = files[i].mtime /\ f.blocks = files[i].blocks)
    PROVE  IInv'
<1> USE DEF TypeOK
<1> DEFINE g == [f EXCEPT !.ctime = Now]
<1>1. /\ files' = [files EXCEPT ![i] = g] /\ changes' = changes + 1
      /\ UNCHANGED <<reader, pc, held, before, buffer, path>>
      /\ seen' = IF i = held.inode /\ pc # "start" THEN seen \cup {f.blocks} ELSE seen
  BY DEF Change, Touched, Now
<1>2. g \in FileRecords /\ g.blocks = f.blocks /\ g.mtime = f.mtime
  BY Clock, Stamped DEF IInv
<1> HIDE DEF g
<1>3. /\ files' \in [DOMAIN files -> FileRecords] /\ DOMAIN files' = DOMAIN files
      /\ files'[i] = g /\ \A j \in DOMAIN files : j # i => files'[j] = files[j]
  BY <1>1, <1>2 DEF IInv
<1>4. TypeOK'
  BY <1>1, <1>3 DEF IInv
<1>5. TimeInv'
  <2> SUFFICES ASSUME NEW j \in DOMAIN files
               PROVE  files'[j].mtime <= changes + 1
    BY <1>1, <1>3 DEF TimeInv
  <2>1. files[j].mtime <= changes /\ files[i].mtime <= changes
    BY DEF IInv, TimeInv
  <2>2. files[j].mtime \in Nat /\ files[i].mtime \in Nat /\ changes \in Nat
    BY Clock DEF IInv
  <2>3. f.mtime = changes + 1 \/ f.mtime = files[i].mtime
    BY DEF Now
  <2> QED
    BY <1>2, <1>3, <2>1, <2>2, <2>3
<1>6. CASE i # held.inode
  <2>1. HeldFile' = HeldFile /\ seen' = seen
    BY <1>1, <1>3, <1>6 DEF IInv, HeldFile
  <2> QED
    BY <1>1, <1>4, <1>5, <2>1 DEF IInv, SeenInv, ReadInv, EndInv, AcceptInv, Intact
<1>7. CASE i = held.inode
  <2>1. HeldFile' = g /\ files[i] = HeldFile /\ HeldFile \in FileRecords
    BY <1>1, <1>3, <1>7 DEF IInv, HeldFile
  <2>2. SeenInv' /\ AcceptInv'
    BY <1>1, <1>2, <1>7, <2>1 DEF IInv, SeenInv, AcceptInv
  <2>3. CASE f.mtime = files[i].mtime /\ f.blocks = files[i].blocks
    <3>1. Intact' = Intact /\ (HeldFile.mtime)' = HeldFile.mtime
          /\ (HeldFile.blocks)' = HeldFile.blocks
      BY <1>1, <1>2, <2>1, <2>3 DEF Intact
    <3>2. ReadInv' /\ EndInv'
      BY <1>1, <3>1 DEF IInv, ReadInv, EndInv
    <3> QED
      BY <1>4, <1>5, <2>2, <3>2 DEF IInv
  <2>4. CASE f.mtime = Now
    <3>1. pc \notin {"start", "opened"} => before.mtime < Now
      <4> SUFFICES ASSUME pc \notin {"start", "opened"}
                   PROVE  before.mtime < Now
        OBVIOUS
      <4>1. before.mtime <= HeldFile.mtime /\ HeldFile.mtime <= changes
        BY <1>7, <2>1 DEF IInv, ReadInv, TimeInv
      <4>2. before.mtime \in Nat /\ HeldFile.mtime \in Nat /\ changes \in Nat /\ Now = changes + 1
        BY <2>1, Clock, Fields DEF IInv, Now
      <4> QED
        BY <4>1, <4>2
    <3>2. before.mtime \in Nat /\ Now \in Nat
      BY Clock DEF IInv
    <3>3. ReadInv'
      BY <1>1, <1>2, <2>1, <2>4, <3>1, <3>2, SMTT(30) DEF IInv, ReadInv, Intact
    <3>4. EndInv'
      BY <1>1, <1>2, <2>1, <2>4, <3>1, <3>2 DEF EndInv, Intact
    <3> QED
      BY <1>4, <1>5, <2>2, <3>3, <3>4 DEF IInv
  <2> QED
    BY <2>3, <2>4
<1> QED
  BY <1>6, <1>7

(* A rename gives the path a new file, and takes a link from the old one.  *)
LEMMA RenameStep ==
    ASSUME IInv, NEW directory \in Nat, Renamed(directory)
    PROVE  IInv'
<1> USE DEF TypeOK
<1>1. /\ changes' = changes + 1 /\ path' = [directory |-> directory, inode |-> Now]
      /\ UNCHANGED <<reader, pc, held, before, buffer, seen>>
  BY DEF Renamed, Now
<1>2. Now \notin DOMAIN files /\ Now \in Nat /\ Now = changes + 1
  BY DEF IInv, Now
<1>3. PICK n \in 1 .. Limit :
         files' = [i \in DOMAIN files \cup {Now} |->
                     IF i = Now THEN File([k \in 1 .. n |-> Now], "private", Now)
                     ELSE IF i = path.inode /\ directory = path.directory
                          THEN [files[i] EXCEPT !.links = @ - 1, !.ctime = Now]
                          ELSE files[i]]
  BY DEF Renamed
<1>4. File([k \in 1 .. n |-> Now], "private", Now) \in FileRecords
  BY <1>2, BoundsAssumption DEF File, FileRecords
<1>5. \A i \in DOMAIN files : [files[i] EXCEPT !.links = @ - 1, !.ctime = Now] \in FileRecords
  BY <1>2, Clock, Unlinked DEF IInv
<1>6. /\ DOMAIN files' = DOMAIN files \cup {Now}
      /\ files' \in [DOMAIN files' -> FileRecords]
  BY <1>3, <1>4, <1>5 DEF IInv
<1>7. \A i \in DOMAIN files : files'[i].mtime = files[i].mtime /\ files'[i].blocks = files[i].blocks
  <2> SUFFICES ASSUME NEW i \in DOMAIN files
               PROVE  files'[i].mtime = files[i].mtime /\ files'[i].blocks = files[i].blocks
    OBVIOUS
  <2> DEFINE g == [files[i] EXCEPT !.links = @ - 1, !.ctime = Now]
  <2>1. files'[i] = files[i] \/ files'[i] = g
    BY <1>2, <1>3
  <2>2. files[i] \in FileRecords
    BY Clock DEF IInv
  <2>3. g.mtime = files[i].mtime /\ g.blocks = files[i].blocks
    BY <1>2, <2>2, Unlinked
  <2> HIDE DEF g
  <2> QED
    BY <2>1, <2>3
<1>8. files'[Now].mtime = Now
  BY <1>2, <1>3 DEF File
<1>9. TypeOK'
  BY <1>1, <1>2, <1>6 DEF IInv
<1>10. TimeInv'
  <2>1. \A i \in DOMAIN files : files[i].mtime <= changes /\ files[i].mtime \in Nat
    BY Clock DEF IInv, TimeInv
  <2>2. changes \in Nat
    BY DEF IInv
  <2> QED
    BY <1>1, <1>2, <1>6, <1>7, <1>8, <2>1, <2>2 DEF TimeInv
<1>11. (HeldFile.mtime)' = HeldFile.mtime /\ (HeldFile.blocks)' = HeldFile.blocks
  BY <1>1, <1>7 DEF IInv, HeldFile
<1>12. Intact' <=> Intact
  BY <1>1, <1>11 DEF Intact
<1>13. SeenInv' /\ ReadInv' /\ EndInv' /\ AcceptInv'
  BY <1>1, <1>11, <1>12 DEF IInv, SeenInv, ReadInv, EndInv, AcceptInv
<1> QED
  BY <1>9, <1>10, <1>13 DEF IInv

LEMMA OthersStep ==
    ASSUME IInv, Others
    PROVE  IInv'
<1>1. ASSUME NEW i \in DOMAIN files, Overwrite(i) \/ Extend(i) \/ Truncate(i)
      PROVE  IInv'
  <2>1. PICK blocks \in Seq(Nat) : Written(i, blocks)
    <3>1. files[i].blocks \in Seq(Nat) /\ Now \in Nat
      BY Clock, Fields DEF IInv
    <3>2. CASE Overwrite(i)
      BY <3>1, <3>2, SMTT(30) DEF Overwrite
    <3>3. CASE Extend(i)
      <4>1. Append(files[i].blocks, Now) \in Seq(Nat)
        BY <3>1, AppendProperties
      <4> QED
        BY <3>3, <4>1 DEF Extend
    <3>4. CASE Truncate(i)
      <4>1. SubSeq(files[i].blocks, 1, Len(files[i].blocks) - 1) \in Seq(Nat)
        BY <3>1, SubSeqProperties, LenProperties, ElementOfSeq
      <4> QED
        BY <3>4, <4>1 DEF Truncate
    <3> QED
      BY <1>1, <3>2, <3>3, <3>4
  <2> DEFINE g == [files[i] EXCEPT !.blocks = blocks, !.mtime = Now]
  <2>2. g \in FileRecords /\ g.mtime = Now
    <3>1. files[i] \in FileRecords /\ Now \in Nat
      BY Clock DEF IInv
    <3> QED
      BY ONLY <3>1, Rewritten
  <2>3. Change(i, g)
    BY <2>1 DEF Written
  <2> HIDE DEF g
  <2> QED
    BY <2>2, <2>3, ChangeStep
<1>2. ASSUME NEW i \in DOMAIN files, Chmod(i) \/ Link(i)
      PROVE  IInv'
  <2>1. PICK f \in FileRecords :
           Change(i, f) /\ f.mtime = files[i].mtime /\ f.blocks = files[i].blocks
    <3>1. files[i] \in FileRecords
      BY Clock DEF IInv
    <3>2. CASE Chmod(i)
      <4>1. PICK mode \in {"private", "open"} : Change(i, [files[i] EXCEPT !.mode = mode])
        BY <3>2 DEF Chmod
      <4>2. LET f == [files[i] EXCEPT !.mode = mode]
            IN  f \in FileRecords /\ f.mtime = files[i].mtime /\ f.blocks = files[i].blocks
        BY <3>1 DEF FileRecords
      <4> QED
        BY <4>1, <4>2
    <3>3. CASE Link(i)
      <4>1. LET f == [files[i] EXCEPT !.links = @ + 1]
            IN  f \in FileRecords /\ f.mtime = files[i].mtime /\ f.blocks = files[i].blocks
        BY <3>1, Fields DEF FileRecords
      <4> QED
        BY <3>3, <4>1 DEF Link
    <3> QED
      BY <1>2, <3>2, <3>3
  <2> QED
    BY <2>1, ChangeStep
<1>3. CASE ReplaceFile
  BY <1>3, RenameStep DEF ReplaceFile, IInv, TypeOK
<1>4. CASE ReplaceDirectory
  BY <1>4, RenameStep, Clock DEF ReplaceDirectory, IInv
<1> QED
  BY <1>1, <1>2, <1>3, <1>4 DEF Others

-----------------------------------------------------------------------------
(* What the reader does                                                    *)

LEMMA ReadsStep ==
    ASSUME IInv, Reads
    PROVE  IInv'
<1> USE DEF Goto
<1>1. CASE Open
  <2>1. TypeOK' /\ TimeInv' /\ SeenInv' /\ ReadInv'
    BY <1>1 DEF Open, IInv, TypeOK, TimeInv, SeenInv, ReadInv, HeldFile
  <2> QED
    BY <1>1, <2>1 DEF Open, IInv, EndInv, AcceptInv
<1>2. UNCHANGED <<held, files, seen>> => UNCHANGED <<HeldFile, files, seen>>
  BY DEF HeldFile
<1>3. CASE Examine
  <2>1. HeldFile \in FileRecords /\ held.inode \in Nat
    BY DEF IInv, TypeOK, HeldFile
  <2>2. before' = Stat(held.inode) /\ buffer = <<>> /\ UNCHANGED <<changes, path, reader>>
        /\ UNCHANGED <<HeldFile, files, seen, held, buffer>> /\ pc = "opened"
    BY <1>2, <1>3 DEF Examine, IInv, ReadInv
  <2>3. before'.mtime = HeldFile.mtime /\ before'.size = Len(HeldFile.blocks)
    BY <2>2 DEF Stat, HeldFile
  <2>4. TypeOK'
    <3>1. before' \in [inode: Nat, size: Nat, mode: {"private", "open"}, links: Int,
                       mtime: Nat, ctime: Nat]
      BY <2>1, <2>2, Fields DEF Stat, HeldFile
    <3> QED
      BY <2>2, <3>1 DEF IInv, TypeOK
  <2>5. SeenInv' /\ TimeInv'
    BY <2>2 DEF IInv, SeenInv, TimeInv
  <2>6. ReadInv'
    BY <2>1, <2>2, <2>3 DEF ReadInv, FileRecords
  <2>7. EndInv' /\ AcceptInv'
    BY <1>3 DEF Examine, EndInv, AcceptInv
  <2> QED
    BY <2>4, <2>5, <2>6, <2>7 DEF IInv
<1>4. ASSUME UNCHANGED <<held, before, files, seen, changes, path, reader>>, pc # "start"
      PROVE  /\ buffer' \in Seq(Nat) => TypeOK'
             /\ TimeInv' /\ SeenInv' /\ UNCHANGED HeldFile
             /\ Intact' = Intact
  BY <1>2, <1>4 DEF IInv, TypeOK, TimeInv, SeenInv, Intact
<1>5. CASE ReadBlock
  <2>1. /\ pc = "reading" /\ Len(buffer) < Len(HeldFile.blocks)
        /\ buffer' = Append(buffer, HeldFile.blocks[Len(buffer) + 1])
    <3>1. Len(buffer) \in Nat /\ Len(HeldFile.blocks) \in Nat
      BY Clock, Fields DEF IInv
    <3> QED
      BY <1>5, <3>1 DEF ReadBlock, AtEnd, HeldFile
  <2>2. buffer \in Seq(Nat) /\ HeldFile.blocks \in Seq(Nat)
    BY DEF IInv, TypeOK, HeldFile, FileRecords
  <2>3. /\ buffer' \in Seq(Nat) /\ Len(buffer') = Len(buffer) + 1
        /\ \A k \in 1 .. Len(buffer) : buffer'[k] = buffer[k]
        /\ buffer'[Len(buffer) + 1] = HeldFile.blocks[Len(buffer) + 1]
    BY <2>1, <2>2
  <2>4. TypeOK' /\ TimeInv' /\ SeenInv' /\ UNCHANGED HeldFile
    BY <1>4, <1>5, <2>3 DEF ReadBlock
  <2>5. ReadInv'
    BY <1>5, <2>1, <2>2, <2>3, <2>4 DEF ReadBlock, IInv, ReadInv, Intact
  <2> QED
    BY <1>5, <2>4, <2>5 DEF ReadBlock, IInv, EndInv, AcceptInv
<1>6. CASE EndOfRead
  <2>1. TypeOK' /\ TimeInv' /\ SeenInv' /\ UNCHANGED HeldFile /\ Intact' = Intact
    BY <1>4, <1>6 DEF EndOfRead, IInv, TypeOK
  <2>2. ReadInv'
    BY <1>6, <2>1 DEF EndOfRead, IInv, ReadInv
  <2>3. ASSUME pc' = "compare" \/ pc' = "trailing", Intact
        PROVE  Len(buffer) = Len(HeldFile.blocks) \/ Len(buffer) = Limit + 1
    <3>1. ~(reader.exact /\ Len(buffer) < Allowance) /\ (Len(buffer) = Allowance \/ AtEnd)
      BY <1>6, <2>3 DEF EndOfRead
    <3>2. /\ before.size = Len(HeldFile.blocks) /\ Len(buffer) <= Len(HeldFile.blocks)
          /\ before.size \in Nat /\ Len(buffer) \in Nat
      BY <1>6, <2>3 DEF EndOfRead, IInv, ReadInv, TypeOK
    <3> QED
      BY <3>1, <3>2 DEF Allowance, AtEnd, HeldFile
  <2>4. EndInv'
    BY <1>6, <2>1, <2>3 DEF EndOfRead, EndInv
  <2>5. AcceptInv'
    BY <1>6 DEF EndOfRead, AcceptInv
  <2> QED
    BY <2>1, <2>2, <2>4, <2>5 DEF IInv
<1>7. CASE TrailingRead
  <2>1. TypeOK' /\ TimeInv' /\ SeenInv' /\ UNCHANGED HeldFile /\ Intact' = Intact
    BY <1>4, <1>7 DEF TrailingRead, IInv, TypeOK
  <2>2. ReadInv' /\ EndInv' /\ AcceptInv'
    BY <1>7, <2>1 DEF TrailingRead, IInv, ReadInv, EndInv, AcceptInv
  <2> QED
    BY <2>1, <2>2 DEF IInv
<1>8. CASE Compare
  <2>1. TypeOK' /\ TimeInv' /\ SeenInv' /\ UNCHANGED HeldFile /\ Intact' = Intact
    BY <1>4, <1>8 DEF Compare, IInv, TypeOK
  <2>2. ReadInv'
    BY <1>8, <2>1 DEF Compare, IInv, ReadInv
  <2>3. EndInv'
    BY <1>8 DEF Compare, EndInv
  <2>4. ASSUME pc' \in {"check", "trailing"}, "mtime" \in reader.compared
        PROVE  buffer \in seen
    <3>1. SameFile(Stat(held.inode)) /\ Len(buffer) <= Limit
      BY <1>8, <2>4 DEF Compare
    <3>2. Intact
      BY <2>4, <3>1 DEF SameFile, Stat, Intact, HeldFile
    <3>3. HeldFile.blocks \in Seq(Nat) /\ buffer \in Seq(Nat)
      BY DEF IInv, TypeOK, HeldFile, FileRecords
    <3>4. Len(buffer) = Len(HeldFile.blocks)
      BY <1>8, <3>1, <3>2, <3>3, BoundsAssumption DEF Compare, IInv, EndInv
    <3>5. \A k \in 1 .. Len(buffer) : buffer[k] = HeldFile.blocks[k]
      BY <1>8, <3>2 DEF Compare, IInv, ReadInv
    <3>6. buffer = HeldFile.blocks
      BY <3>3, <3>4, <3>5, SeqEqual
    <3> QED
      BY <1>8, <3>6 DEF Compare, IInv, SeenInv
  <2>5. AcceptInv'
    BY <1>8, <2>4 DEF Compare, AcceptInv
  <2> QED
    BY <2>1, <2>2, <2>3, <2>5 DEF IInv
<1>9. CASE Finish
  <2>1. TypeOK' /\ TimeInv' /\ SeenInv' /\ UNCHANGED HeldFile /\ Intact' = Intact
    BY <1>4, <1>9 DEF Finish, IInv, TypeOK
  <2>2. ReadInv' /\ EndInv' /\ AcceptInv'
    BY <1>9, <2>1 DEF Finish, IInv, ReadInv, EndInv, AcceptInv
  <2> QED
    BY <2>1, <2>2 DEF IInv
<1> QED
  BY <1>1, <1>3, <1>5, <1>6, <1>7, <1>8, <1>9 DEF Reads

-----------------------------------------------------------------------------
(* For every reader of the program, however long the file is and whatever  *)
(* is done to it meanwhile: until the next write, what the reader holds is *)
(* a beginning of the file.                                                *)
THEOREM Invariance == Spec => []IInv
<1>1. Init => IInv
  <2> SUFFICES ASSUME Init
               PROVE  IInv
    OBVIOUS
  <2>1. PICK n \in 0 .. Limit + 1, mode \in {"private", "open"} :
           files = [i \in {0} |-> File(Start(n), mode, 0)]
    BY DEF Init
  <2>2. Start(n) \in Seq(Nat)
    BY BoundsAssumption DEF Start
  <2>3. File(Start(n), mode, 0) \in FileRecords
    BY <2>2 DEF File, FileRecords
  <2>4. files \in [{0} -> FileRecords] /\ files[0] \in FileRecords /\ files[0].mtime = 0
    BY <2>1, <2>3 DEF File
  <2>5. before \in [inode: Nat, size: Nat, mode: {"private", "open"}, links: Int,
                   mtime: Nat, ctime: Nat]
    BY <2>4 DEF Init, Stat, FileRecords
  <2>6. TypeOK
    BY <2>4, <2>5 DEF Init, TypeOK
  <2>7. TimeInv
    BY <2>4 DEF Init, TimeInv
  <2> QED
    BY <2>6, <2>7 DEF Init, IInv, SeenInv, ReadInv, EndInv, AcceptInv
<1>2. IInv /\ [Next]_vars => IInv'
  <2>1. IInv /\ UNCHANGED vars => IInv'
    BY DEF vars, IInv, TypeOK, TimeInv, SeenInv, ReadInv, EndInv, AcceptInv, Intact, HeldFile
  <2> QED
    BY <2>1, OthersStep, ReadsStep DEF Next
<1> QED
  BY <1>1, <1>2, PTL DEF Spec

(* A reader that compares times accepts only what the file was at some     *)
(* moment of the read, for files of any length and any number of writes.   *)
THEOREM NoTornRead == Spec => []AcceptedWasThere
<1>1. IInv => AcceptedWasThere
  BY DEF IInv, AcceptInv, AcceptedWasThere
<1> QED
  BY <1>1, Invariance, PTL
=============================================================================
