------------------------------ MODULE Migration -------------------------------
(***************************************************************************)
(* Upgrading a project of the prior schema epoch while loading it.         *)
(*                                                                         *)
(* A load that finds a v0 generation keeps a sealed backup of it beside    *)
(* the bundle, writes the migrated generation to a fresh stage, validates  *)
(* it and publishes it like any other generation.  An append does not      *)
(* migrate: to `open_locked' a v0 generation is one that does not          *)
(* authenticate.  The v0 project of the model has an empty log, which the  *)
(* migration keeps as it is.                                               *)
(***************************************************************************)
EXTENDS RootGap

VARIABLE backup     \* the pre-migration backup: Absent, Torn or PriorEpoch

migrationVars == <<vars, backup>>

MigrationInit ==
    /\ dest \in {Absent, PriorEpoch} /\ prev = Absent /\ retired = Absent
    /\ holder = NoProc
    /\ pc = [p \in Proc |-> "idle"]
    /\ req = [p \in Proc |-> Absent]
    /\ fence = [p \in Proc |-> Absent]
    /\ loaded = [p \in Proc |-> Absent]
    /\ stage = [p \in Proc |-> Absent]
    /\ current = [p \in Proc |-> Absent]
    /\ reply = [p \in Proc |-> "none"]
    /\ acked = {}
    /\ backup = Absent

LoadsPrior(p) == pc[p] = "open" /\ req[p] = Load

\* A v0 generation in the previous slot is put back before it is migrated.
RestorePrior(p) ==
    /\ LoadsPrior(p) /\ dest = Absent /\ prev = PriorEpoch
    /\ dest' = prev /\ prev' = Absent
    /\ UNCHANGED <<retired, holder, pc, locals, outcomes, backup>>

ReadPrior(p) ==
    /\ LoadsPrior(p) /\ dest = PriorEpoch
    /\ Goto(p, "backup")
    /\ UNCHANGED <<slots, holder, locals, outcomes, backup>>

-----------------------------------------------------------------------------
(* publish_sealed_backup                                                   *)

\* Mutant of Authentic: whatever is at the path counts as the backup.
Present(copy) == copy # Absent

Authentic(copy) == copy = PriorEpoch

KeepBackup(p) ==
    /\ pc[p] = "backup" /\ Authentic(backup)
    /\ Goto(p, "migrate")
    /\ UNCHANGED <<slots, holder, locals, outcomes, backup>>

RemoveForeignBackup(p) ==
    /\ pc[p] = "backup" /\ backup # Absent /\ ~Authentic(backup)
    /\ backup' = Absent
    /\ UNCHANGED <<vars>>

\* The copy is staged, validated and synced under a name of its own; the
\* rename makes it the backup this attempt may take back.
PublishBackup(p) ==
    /\ pc[p] = "backup" /\ backup = Absent
    /\ backup' = dest
    /\ Goto(p, "migrateNew")
    /\ UNCHANGED <<slots, holder, locals, outcomes>>

\* Copying, or the sync after the rename, fails.
BackupFails(p) ==
    /\ pc[p] = "backup" /\ ~Authentic(backup)
    /\ Fail(p, "io")
    /\ backup' \in IF backup = Absent THEN {Absent, dest} ELSE {backup}
    /\ UNCHANGED slots

-----------------------------------------------------------------------------
(* load_v0_with_migration, once the original is kept                       *)

StageMigrated(p) ==
    /\ pc[p] \in {"migrate", "migrateNew"}
    /\ stage' = [stage EXCEPT ![p] = <<>>]
    /\ Goto(p, "publish")
    /\ UNCHANGED <<slots, holder, req, fence, loaded, outcomes, backup>>

\* Staging or its validation fails: only a backup of this attempt is
\* discarded, and its recursive removal can stop half way.
DiscardMigration(p) ==
    /\ pc[p] \in {"migrate", "migrateNew"}
    /\ Fail(p, "invalid")
    /\ backup' \in IF pc[p] = "migrate" THEN {backup} ELSE {Absent, Torn, backup}
    /\ UNCHANGED slots

\* The load returns what it staged, or an I/O error although it is in place.
EndMigration(p) ==
    /\ pc[p] = "sync" /\ req[p] = Load
    /\ Succeed(p, stage[p]) \/ Fail(p, "io")
    /\ UNCHANGED <<slots, backup>>

Migrate(p) ==
    \/ RestorePrior(p) \/ ReadPrior(p)
    \/ KeepBackup(p) \/ RemoveForeignBackup(p) \/ PublishBackup(p) \/ BackupFails(p)
    \/ StageMigrated(p) \/ DiscardMigration(p) \/ EndMigration(p)

MigrationNext == (GapNext /\ UNCHANGED backup) \/ \E p \in Proc : Migrate(p)

MigrationSpec == MigrationInit /\ [][MigrationNext]_migrationVars

-----------------------------------------------------------------------------
\* However often an upgrade fails, dies or is repeated, the original leaves
\* the root only when an authentic backup of it is in place, and a backup is
\* given up only while the original is at the root (load_v0_with_migration,
\* publish_sealed_backup).
OriginalKept ==
    [][ /\ dest = PriorEpoch /\ dest' # PriorEpoch => backup' = PriorEpoch
        /\ backup = PriorEpoch /\ backup' # PriorEpoch => dest' = PriorEpoch
      ]_migrationVars

\* An interrupted publication leaves a sealed generation that can be loaded
\* ("Interrupted publication must leave the prior valid generation
\* loadable"), also when the generation it had retired is the v0 original.
InterruptedStillLoads ==
    holder = NoProc /\ Sealed(dest) /\ NeedsReconcile => Sealed(retired)

=============================================================================
