------------------------------- MODULE RootGap -------------------------------
(***************************************************************************)
(* What the host does at the root of a bundle without the bundle lock,     *)
(* beside publications.                                                    *)
(*                                                                         *)
(* A request for derived geometry, a preview or a replay of missing BREPs  *)
(* opens the bundle and then creates its private worker stage in           *)
(* `<root>/.derived', missing parents included.  The "bracket" command     *)
(* looks at the root and, if there is none, creates the bundle before it   *)
(* appends to it.  A publication has the root renamed away for a moment,   *)
(* or for good when it dies.                                               *)
(***************************************************************************)
EXTENDS BundlePublication

\* Stage::create_fresh(root.join(".derived"), ..) by a host that has a
\* loaded snapshot of the bundle.
CreateStage(p) ==
    /\ pc[p] = "idle" /\ current[p] # Absent
    /\ dest' = IF dest = Absent THEN Torn ELSE dest
    /\ UNCHANGED <<prev, retired, holder, pc, locals, outcomes>>

\* Host::create_bracket looks at the root before it takes the lock.
SeesNoRoot(p) ==
    /\ pc[p] = "idle" /\ dest = Absent
    /\ Goto(p, "createBracket")
    /\ UNCHANGED <<slots, holder, locals, outcomes>>

\* Mutant of CreateBundle: the root is not looked at again under the lock.
CreateUnchecked(p) ==
    /\ pc[p] = "createBracket" /\ holder = NoProc
    /\ Goto(p, "idle")
    /\ dest' = <<>>
    /\ prev' = IF dest = Absent THEN prev ELSE dest
    /\ UNCHANGED <<retired, holder, locals, outcomes>>

\* Bundle::create holds the lock from its second look at the root, which
\* does not include the previous generation, to the promotion of the empty
\* generation, its only change of a slot; it can also fail and leave nothing.
\* The history variable forgets what this buries.
CreateBundle(p) ==
    /\ pc[p] = "createBracket" /\ holder = NoProc
    /\ Goto(p, "idle")
    /\ \/ /\ dest = Absent
          /\ dest' = <<>>
          /\ acked' = IF prev = Absent THEN acked ELSE {}
       \/ UNCHANGED <<dest, acked>>
    /\ UNCHANGED <<prev, retired, holder, locals, current, reply>>

GapNext ==
    \/ Next
    \/ \E p \in Proc : CreateStage(p) \/ SeesNoRoot(p) \/ CreateBundle(p)

GapSpec == Init /\ [][GapNext]_vars

-----------------------------------------------------------------------------
\* Whatever stages and partial roots do to a publication, the renames never
\* destroy the last sealed copy of an acknowledged transaction (publish_staged,
\* remove_retired_generation), unless a bracket command has created the empty
\* generation over it.
AckedStillOnDisk ==
    \A t \in acked : \E g \in {dest, prev, retired} :
        Sealed(g) /\ SameTransaction(g, t)

\* Two processes that both found no root, or one that appends meanwhile,
\* never have their root replaced by the empty generation: the root is
\* looked at again under the lock (Bundle::create, create_staged).
RootNeverEmptied ==
    [][ Sealed(dest) /\ dest' = <<>> => dest = <<>> ]_vars

=============================================================================
