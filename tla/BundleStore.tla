---------------------------- MODULE BundleStore ----------------------------
(***************************************************************************)
(* What a bundle promises its callers, without slots, locks or renames:    *)
(* one log that grows by whole transactions, each of them applied at one   *)
(* instant between the request and its answer, or not at all.              *)
(*                                                                         *)
(*  - "ok" is answered only for a transaction that is in the log, with the *)
(*    log of that instant as the new snapshot;                             *)
(*  - "io", "invalid", "stale" and "missing" only if the request has not   *)
(*    changed the log, "stale" only if the expected revision is not the    *)
(*    current one, "missing" only if there is no bundle;                   *)
(*  - "unknown" only if the publication the caller asked for did happen;   *)
(*  - a caller that dies learns nothing, its transaction is in or out.     *)
(***************************************************************************)
EXTENDS Sequences

CONSTANTS Proc, Txn, KeyOf, NoKey, Load, Absent

VARIABLES log, req, fence, done, current, reply

vars == <<log, req, fence, done, current, reply>>

KeyBound(t) == KeyOf[t] # NoKey /\ \E i \in DOMAIN log : KeyOf[log[i]] = KeyOf[t]

Committed(t) == \E i \in DOMAIN log : log[i] = t

Init ==
    /\ log = Absent
    /\ req = [p \in Proc |-> Absent]
    /\ fence = [p \in Proc |-> Absent]
    /\ done = [p \in Proc |-> FALSE]
    /\ current = [p \in Proc |-> Absent]
    /\ reply = [p \in Proc |-> "none"]

Invoke(p, r, f) ==
    /\ req[p] = Absent
    /\ req' = [req EXCEPT ![p] = r]
    /\ fence' = [fence EXCEPT ![p] = f]
    /\ reply' = [reply EXCEPT ![p] = "none"]
    /\ UNCHANGED <<log, done, current>>

Create ==
    /\ log = Absent
    /\ \E p \in Proc : req[p] \in Txn
    /\ log' = <<>>
    /\ UNCHANGED <<req, fence, done, current, reply>>

Commit(p) ==
    /\ req[p] \in Txn /\ ~done[p]
    /\ log # Absent
    /\ ~KeyBound(req[p])
    /\ fence[p] \in {Absent, log}
    /\ log' = Append(log, req[p])
    /\ done' = [done EXCEPT ![p] = TRUE]
    /\ UNCHANGED <<req, fence, current, reply>>

Return(p, outcome) ==
    /\ req[p] # Absent
    /\ req' = [req EXCEPT ![p] = Absent]
    /\ fence' = [fence EXCEPT ![p] = Absent]
    /\ done' = [done EXCEPT ![p] = FALSE]
    /\ reply' = [reply EXCEPT ![p] = outcome]
    /\ UNCHANGED log

Accept(p) ==
    /\ Return(p, "ok")
    /\ log # Absent
    /\ req[p] \in Txn => done[p] \/ (KeyOf[req[p]] # NoKey /\ Committed(req[p]))
    /\ current' = [current EXCEPT ![p] = log]

Refuse(p) ==
    /\ ~done[p]
    /\ \/ Return(p, "io")
       \/ Return(p, "invalid")
       \/ fence[p] \notin {Absent, log} /\ Return(p, "stale")
       \/ log = Absent /\ req[p] = Load /\ Return(p, "missing")
    /\ UNCHANGED current

ReportUnknown(p) ==
    /\ done[p] \/ log = <<>>
    /\ Return(p, "unknown")
    /\ UNCHANGED current

Die(p) ==
    /\ req' = [req EXCEPT ![p] = Absent]
    /\ fence' = [fence EXCEPT ![p] = Absent]
    /\ done' = [done EXCEPT ![p] = FALSE]
    /\ current' = [current EXCEPT ![p] = Absent]
    /\ reply' = [reply EXCEPT ![p] = "none"]
    /\ UNCHANGED log

Next ==
    \/ Create
    \/ \E p \in Proc :
          \/ \E r \in Txn \cup {Load} : \E f \in {Absent, current[p]} : Invoke(p, r, f)
          \/ Commit(p) \/ Accept(p) \/ Refuse(p) \/ ReportUnknown(p) \/ Die(p)

Spec == Init /\ [][Next]_vars
=============================================================================
