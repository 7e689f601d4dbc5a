---------------------------- MODULE MCLegacySave ----------------------------
(* LegacySave on two segments of two payloads, those of the migrated game   *)
(* and those of a new one; a game that is played mixes them.                *)
EXTENDS LegacySave

CONSTANTS old, new

MCPayloads == {old, new}
MCMigrated == [s \in Segments |-> old]
MCFresh == [s \in Segments |-> new]
=============================================================================
