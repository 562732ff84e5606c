---------------------------- MODULE SnapshotLineage ----------------------------
(***************************************************************************)
(* What a reader of the institution snapshots may rely on, without         *)
(* candidates, journals, locks and phases: a directory is placed under an  *)
(* id only as a steward has seen it and never replaced, what is selected   *)
(* was made for what was selected before, and when the machine dies the    *)
(* selection falls back by one at most and never loses its directory.      *)
(***************************************************************************)
CONSTANTS Snapshots, Directories, None

VARIABLES
    reviewed,   \* of each id: the directories a steward has seen
    placed,     \* of each id: its directory, None before there is one
    selected    \* the id that is served, None before the first

Init ==
    /\ reviewed = [s \in Snapshots |-> {}]
    /\ placed = [s \in Snapshots |-> None]
    /\ selected = None

Review(s) ==
    /\ \E d \in Directories : reviewed' = [reviewed EXCEPT ![s] = @ \cup {d}]
    /\ UNCHANGED <<placed, selected>>

Place(s) ==
    /\ placed[s] = None
    /\ \E d \in reviewed[s] : placed' = [placed EXCEPT ![s] = d]
    /\ UNCHANGED <<reviewed, selected>>

Select(s) ==
    /\ placed[s] # None
    /\ placed[s].previous = selected
    /\ selected' = s
    /\ UNCHANGED <<reviewed, placed>>

FallBack ==
    /\ \/ selected' = selected
       \/ selected # None /\ selected' = placed[selected].previous
    /\ \E lost \in SUBSET (Snapshots \ {selected'}) :
          placed' = [s \in Snapshots |-> IF s \in lost THEN None ELSE placed[s]]
    /\ UNCHANGED reviewed

Next == (\E s \in Snapshots : Review(s) \/ Place(s) \/ Select(s)) \/ FallBack

Spec == Init /\ [][Next]_<<reviewed, placed, selected>>
=============================================================================
