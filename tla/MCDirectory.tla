---------------------------- MODULE MCDirectory ----------------------------
(***************************************************************************)
(* Six owners, four of whom share an index bucket with three slots, in     *)
(* participant buckets of three slots and channel buckets of two: buckets  *)
(* fill up and new ones begin while channels are opened.                   *)
(***************************************************************************)
EXTENDS RyvoDirectorySafety, TLC

CONSTANTS o1, o2, o3, o4, o5, o6

MCOwnerBucketOf == [o \in Owners |-> IF o \in {o1, o2, o3, o4} THEN 0 ELSE 1]

\* Owners of one index bucket are alike.
MCOwnersAlike == Permutations({o1, o2, o3, o4}) \cup Permutations({o5, o6})

\* Bounds of this instance: lanes open at a time, and whose policy changes.
MaxOpenLanes == 2
MCDirectoryNext ==
  /\ DirectoryNext
  /\ Cardinality(openLanes') <= MaxOpenLanes
  /\ \A s \in participantSlots' : s.policy # "ConsentRequired" => s.participant_id = 0

MCDirectorySpec == DirectoryInit /\ [][MCDirectoryNext]_directoryVars
=============================================================================
