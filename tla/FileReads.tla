----------------------------- MODULE FileReads -----------------------------
(* How the program reads a file that other processes may be changing: some *)
(* thirty functions that open it, look at it, read it in pieces, look at   *)
(* it again and refuse it if it is not what it was.  They differ in what   *)
(* they ask of the file, in where they stop and in what they compare, and  *)
(* a reader is the record of these choices:                                *)
(*   exact     reads the size it has seen, else up to one past the limit   *)
(*   trailing  tries to read more, "before" or "after" the second look     *)
(*   total     requires as many blocks as it has seen at first             *)
(*   compared  what must not have changed, besides the inode               *)
(*   empty     takes an empty file; "one" link only; "private" files only  *)
(*   walked    opens the directories one by one and does so again at last  *)
(*   pinned    knows the digest beforehand                                 *)
(* A file is read block by block; a block is the stamp of what wrote it.   *)
EXTENDS Integers, Sequences, FiniteSets

CONSTANTS MaxChanges,   \* changes by other processes
          Limit         \* blocks a reader accepts

ASSUME BoundsAssumption == MaxChanges \in Nat /\ Limit \in Nat

Reader ==
    [exact |-> FALSE, trailing |-> "no", total |-> FALSE, compared |-> {"size", "mtime", "ctime"},
     empty |-> FALSE, alone |-> FALSE, private |-> FALSE, walked |-> FALSE, pinned |-> FALSE]

Exact(trailing) == [Reader EXCEPT !.exact = TRUE, !.trailing = trailing]
Total(more) == [Reader EXCEPT !.total = TRUE, !.compared = @ \cup more]
UntilMtime == [Reader EXCEPT !.compared = {"size", "mtime"}]

finalize_read_regular == [Reader EXCEPT !.empty = TRUE]
legacy_read_html == [UntilMtime EXCEPT !.total = TRUE]
staging_read_private == [UntilMtime EXCEPT !.compared = @ \cup {"mode"}, !.private = TRUE, !.empty = TRUE]
storage_regular_file_sha256 ==
    [Exact("after") EXCEPT !.compared = {"size", "mtime"}, !.alone = TRUE]
storage_stable_bundle_file_at == [Exact("after") EXCEPT !.alone = TRUE, !.empty = TRUE]
goldset_read_regular_file == [Reader EXCEPT !.private = TRUE, !.empty = TRUE]
report_read_private == [Exact("after") EXCEPT !.private = TRUE, !.alone = TRUE]
report_stable_file_sha256 == Exact("after")
vision_read_verified_helper == [Reader EXCEPT !.pinned = TRUE]
vision_read_identity_file == Reader
extractor_pipeline_sha256 == [Exact("before") EXCEPT !.compared = @ \cup {"mode", "links"}]
extractor_read_source_pdf == [extractor_pipeline_sha256 EXCEPT !.pinned = TRUE]
ocr_authority_read == Total({"mode"})
vision_authority_read == Total({"mode"})
metadata_read == [Total({"mode"}) EXCEPT !.empty = TRUE]
quarantine_read_private ==
    [UntilMtime EXCEPT !.compared = @ \cup {"mode"}, !.private = TRUE, !.walked = TRUE]
broker_read_stable == [UntilMtime EXCEPT !.compared = @ \cup {"mode"}, !.total = TRUE, !.private = TRUE]
broker_read_regular == [UntilMtime EXCEPT !.total = TRUE, !.empty = TRUE]
sampling_read_authority == [Total({"mode"}) EXCEPT !.private = TRUE, !.walked = TRUE]
release_read_bounded == [UntilMtime EXCEPT !.total = TRUE]
release_backup_digest == Total({})
release_stable_sha256 == [Total({}) EXCEPT !.trailing = "after"]
release_copy == Total({})
lexical_read == [UntilMtime EXCEPT !.empty = TRUE]
chunking_read == [Exact("before") EXCEPT !.empty = TRUE]
chunking_cache_file == [Exact("before") EXCEPT !.pinned = TRUE]
cli_stream_sha256 == Total({"mode"})
cli_read_provenance == Total({"mode"})
(* Two resources of the installed package are only compared in size.       *)
policy_read == [Exact("no") EXCEPT !.compared = {"size"}, !.empty = TRUE]
profile_read == policy_read

Readers ==
    {finalize_read_regular, legacy_read_html, staging_read_private, storage_regular_file_sha256,
     storage_stable_bundle_file_at, goldset_read_regular_file, report_read_private,
     report_stable_file_sha256, vision_read_verified_helper, vision_read_identity_file,
     extractor_pipeline_sha256, extractor_read_source_pdf, ocr_authority_read, vision_authority_read,
     metadata_read, quarantine_read_private, broker_read_stable, broker_read_regular,
     sampling_read_authority, release_read_bounded, release_backup_digest, release_stable_sha256,
     release_copy, lexical_read, chunking_read, chunking_cache_file, cli_stream_sha256,
     cli_read_provenance, policy_read, profile_read}

VARIABLES
    reader,     \* who reads
    pc,
    held,       \* the directory and the file that the reader has open
    before,     \* what it saw of the file at first
    buffer,     \* what it has read
    path,       \* the directory the path leads to, and the file in it
    files,      \* every file by its inode
    changes,    \* how often anything was changed; the time of a change
    seen        \* history: what the open file has been since it was opened

vars == <<reader, pc, held, before, buffer, path, files, changes, seen>>

Blocks == 0 .. MaxChanges
Contents == UNION {[1 .. n -> Blocks] : n \in 0 .. Limit + 1}

File(blocks, mode, now) ==
    [blocks |-> blocks, mode |-> mode, links |-> 1, mtime |-> now, ctime |-> now]

Stat(inode) ==
    [inode |-> inode, size |-> Len(files[inode].blocks), mode |-> files[inode].mode,
     links |-> files[inode].links, mtime |-> files[inode].mtime, ctime |-> files[inode].ctime]

Start(n) == [k \in 1 .. n |-> 0]

Init ==
    /\ reader \in Readers
    /\ pc = "start"
    /\ held = [directory |-> 0, inode |-> 0]
    /\ path = [directory |-> 0, inode |-> 0]
    /\ \E n \in 0 .. Limit + 1, mode \in {"private", "open"} :
         files = [i \in {0} |-> File(Start(n), mode, 0)]
    /\ before = Stat(0)
    /\ buffer = <<>>
    /\ changes = 0
    /\ seen = {}

-----------------------------------------------------------------------------
(* The others.                                                             *)

Now == changes + 1

Touched(inode, f) == [files EXCEPT ![inode] = [f EXCEPT !.ctime = Now]]

Change(inode, f) ==
    /\ changes < MaxChanges
    /\ changes' = Now
    /\ files' = Touched(inode, f)
    /\ seen' = IF inode = held.inode /\ pc # "start" THEN seen \cup {f.blocks} ELSE seen
    /\ UNCHANGED <<reader, pc, held, before, buffer, path>>

Written(inode, blocks) == Change(inode, [files[inode] EXCEPT !.blocks = blocks, !.mtime = Now])

Overwrite(i) == \E k \in DOMAIN files[i].blocks : Written(i, [files[i].blocks EXCEPT ![k] = Now])
Extend(i) == Len(files[i].blocks) <= Limit /\ Written(i, Append(files[i].blocks, Now))
Truncate(i) == files[i].blocks # <<>> /\ Written(i, SubSeq(files[i].blocks, 1, Len(files[i].blocks) - 1))
Chmod(i) == \E mode \in {"private", "open"} \ {files[i].mode} : Change(i, [files[i] EXCEPT !.mode = mode])
Link(i) == Change(i, [files[i] EXCEPT !.links = @ + 1])

(* A file renamed over the name, or a directory over the directory.        *)
Renamed(directory) ==
    /\ changes < MaxChanges
    /\ changes' = Now
    /\ path' = [directory |-> directory, inode |-> Now]
    /\ \E n \in 1 .. Limit :
         files' = [i \in DOMAIN files \cup {Now} |->
                     IF i = Now THEN File([k \in 1 .. n |-> Now], "private", Now)
                     ELSE IF i = path.inode /\ directory = path.directory
                          THEN [files[i] EXCEPT !.links = @ - 1, !.ctime = Now]
                          ELSE files[i]]
    /\ UNCHANGED <<reader, pc, held, before, buffer, seen>>

ReplaceFile == Renamed(path.directory)
ReplaceDirectory == Renamed(Now)

Others ==
    \/ \E i \in DOMAIN files : Overwrite(i) \/ Extend(i) \/ Truncate(i) \/ Chmod(i) \/ Link(i)
    \/ ReplaceFile \/ ReplaceDirectory

-----------------------------------------------------------------------------
(* The reader.                                                             *)

Goto(label) == pc' = label /\ UNCHANGED <<reader, path, changes>>

Open ==
    /\ pc = "start"
    /\ held' = [directory |-> path.directory, inode |-> path.inode]
    /\ seen' = {files[path.inode].blocks}
    /\ Goto("opened")
    /\ UNCHANGED <<before, buffer, files>>

Acceptable(s) ==
    /\ s.size <= Limit
    /\ reader.empty \/ s.size > 0
    /\ reader.alone => s.links = 1
    /\ reader.private => s.mode = "private"

Examine ==
    /\ pc = "opened"
    /\ before' = Stat(held.inode)
    /\ Goto(IF Acceptable(Stat(held.inode)) THEN "reading" ELSE "refused")
    /\ UNCHANGED <<held, buffer, files, seen>>

Allowance == IF reader.exact THEN before.size ELSE Limit + 1

AtEnd == Len(buffer) >= Len(files[held.inode].blocks)

ReadBlock ==
    /\ pc = "reading" /\ Len(buffer) < Allowance /\ ~AtEnd
    /\ buffer' = Append(buffer, files[held.inode].blocks[Len(buffer) + 1])
    /\ Goto("reading")
    /\ UNCHANGED <<held, before, files, seen>>

EndOfRead ==
    /\ pc = "reading" /\ (Len(buffer) = Allowance \/ AtEnd)
    /\ Goto(IF reader.exact /\ Len(buffer) < Allowance THEN "refused"
            ELSE IF reader.trailing = "before" THEN "trailing" ELSE "compare")
    /\ UNCHANGED <<held, before, buffer, files, seen>>

TrailingRead ==
    /\ pc = "trailing"
    /\ Goto(IF ~AtEnd THEN "refused" ELSE IF reader.trailing = "before" THEN "compare" ELSE "check")
    /\ UNCHANGED <<held, before, buffer, files, seen>>

(* A comparison that leaves out the time.                                  *)
SameSize(s) == s.inode = before.inode /\ s.size = before.size

SameFile(s) == s.inode = before.inode /\ \A field \in reader.compared : s[field] = before[field]

Compare ==
    /\ pc = "compare"
    /\ Goto(IF /\ SameFile(Stat(held.inode))
               /\ reader.total => Len(buffer) = before.size
               /\ Len(buffer) <= Limit
            THEN IF reader.trailing = "after" THEN "trailing" ELSE "check"
            ELSE "refused")
    /\ UNCHANGED <<held, before, buffer, files, seen>>

Pinned == [k \in 1 .. Limit |-> 0]

Finish ==
    /\ pc = "check"
    /\ Goto(IF /\ reader.walked => path.directory = held.directory
               /\ reader.pinned => buffer = Pinned
            THEN "accepted" ELSE "refused")
    /\ UNCHANGED <<held, before, buffer, files, seen>>

Reads == Open \/ Examine \/ ReadBlock \/ EndOfRead \/ TrailingRead \/ Compare \/ Finish

Next == Others \/ Reads

Spec == Init /\ [][Next]_vars

-----------------------------------------------------------------------------
(* What a reader that compares times accepts is what the file was at some  *)
(* moment of the read: never the beginning of one version and the end of   *)
(* another.                                                                *)
AcceptedWasThere == pc = "accepted" /\ "mtime" \in reader.compared => buffer \in seen
=============================================================================
