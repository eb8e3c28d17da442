-------------------------- MODULE BundleDurability --------------------------
(***************************************************************************)
(* Publication on a disk that can lose power.  A rename or an unlink of    *)
(* the containing directory is durable only once that directory has been   *)
(* synced; until then a power loss can bring back any state the directory  *)
(* had since the last sync.  The file system is assumed to commit the      *)
(* operations on one directory in order (a journalling file system).  The  *)
(* contents of a staged generation are synced before it is promoted.       *)
(***************************************************************************)
EXTENDS BundlePublication

VARIABLE durable    \* directory states a power loss can expose

durabilityVars == <<vars, durable>>

SelectedOf(d) == IF d[1] # Absent THEN d[1] ELSE d[2]

DurabilityInit == Init /\ durable = {slots}

\* Mutant of SyncsDirectory: a publication does not sync the directory.
SyncsOnCreationOnly ==
    \E p \in Proc : pc[p] = "create" /\ pc'[p] = "publish"

\* The steps that sync the containing directory: the end of a publication,
\* and the staging of the empty generation, a sibling in that directory.
SyncsDirectory ==
    \E p \in Proc :
        \/ pc[p] = "sync" /\ pc'[p] \in {"open", "reopen"}
        \/ pc[p] = "create" /\ pc'[p] = "publish"

RunningStep ==
    /\ Next
    /\ durable' = IF SyncsDirectory THEN {slots'} ELSE durable \cup {slots'}

PowerLoss ==
    \E d \in durable :
        /\ dest' = d[1] /\ prev' = d[2] /\ retired' = d[3]
        /\ durable' = {d}
        /\ holder' = NoProc
        /\ pc' = [p \in Proc |-> "idle"]
        /\ req' = [p \in Proc |-> Absent]
        /\ fence' = [p \in Proc |-> Absent]
        /\ loaded' = [p \in Proc |-> Absent]
        /\ stage' = [p \in Proc |-> Absent]
        /\ current' = [p \in Proc |-> Absent]
        /\ reply' = [p \in Proc |-> "none"]
        /\ UNCHANGED acked

DurabilityNext == RunningStep \/ PowerLoss

DurabilitySpec == DurabilityInit /\ [][DurabilityNext]_durabilityVars

-----------------------------------------------------------------------------
\* Power loss in the middle of a rotation exposes a bundle that opens.
OpensAfterPowerLoss ==
    \A d \in durable :
        /\ SelectedOf(d) # Torn
        /\ d[1] # Absent /\ d[2] = Absent /\ d[3] # Absent => Sealed(d[3])

\* Every directory state a power loss could expose opens, in the middle of a
\* rotation too; and when a publication is answered "ok" each of them selects
\* a generation with its transaction, because the answer comes after the
\* directory sync (publish_staged, sync_parent_directory).
SurvivesPowerLoss ==
    /\ []OpensAfterPowerLoss
    /\ [][ \A p \in Proc :
             pc[p] = "reopen" /\ reply'[p] = "ok" =>
                 \A d \in durable' :
                     Sealed(SelectedOf(d)) /\ SameTransaction(SelectedOf(d), req[p])
         ]_durabilityVars
=============================================================================
