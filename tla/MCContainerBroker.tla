-------------------------- MODULE MCContainerBroker --------------------------
(***************************************************************************)
(* Instances of ContainerBroker for TLC.  Chunks are 2 bytes, members have *)
(* up to 5, limits are chosen so that every one of them is met exactly,    *)
(* exceeded by one, and met by two members together.                       *)
(***************************************************************************)
EXTENDS ContainerBroker, TLC

File(size, packed) ==
  [directory |-> FALSE, encrypted |-> FALSE, traversal |-> FALSE, office |-> FALSE,
   named |-> TRUE, size |-> size, packed |-> packed, breaks |-> size + 1]

MCEntries ==
  {File(0, 0), File(2, 2), File(3, 3), File(5, 5), File(4, 1),
   [File(3, 3) EXCEPT !.breaks = 3], [File(5, 5) EXCEPT !.breaks = 0],
   [File(0, 0) EXCEPT !.directory = TRUE, !.traversal = TRUE],
   [File(3, 3) EXCEPT !.encrypted = TRUE], [File(3, 3) EXCEPT !.traversal = TRUE],
   [File(2, 2) EXCEPT !.office = TRUE], [File(2, 2) EXCEPT !.named = FALSE]}

LimitsOf(list, members, slots, memberBytes, total, workspace) ==
  [list |-> list, members |-> members, blobs |-> slots, member_bytes |-> memberBytes,
   total |-> total, workspace |-> workspace, ratio |-> 2, contents |-> TRUE]

MCDefaults == LimitsOf(3, 2, 2, 5, 6, 6)

MCLimits ==
  {LimitsOf(3, 3, 3, 5, 5, 6), LimitsOf(3, 3, 2, 4, 6, 5), LimitsOf(2, 1, 3, 3, 6, 6),
   LimitsOf(3, 3, 3, 5, 6, 0), LimitsOf(0, 3, 3, 0, 0, 6), [LimitsOf(3, 3, 3, 5, 5, 5) EXCEPT !.contents = FALSE]}

MCRogueStatuses == {"extracted", "malformed", "unheard_of"}
==============================================================================
