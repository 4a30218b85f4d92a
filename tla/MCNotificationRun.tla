-------------------------- MODULE MCNotificationRun --------------------------
(* Instance of NotificationRun for TLC. *)
EXTENDS NotificationRun, TLC

\* A third run meets the others' locks and nothing to tell; two releases meet no
\* failure beside rejected messages and no run out of its lock's time; the sidecar repeats one message.
OneScene ==
    /\ Cardinality({r \in Runs : runs[r] # "idle"}) > 2 => published = {}
    /\ Cardinality(published) > 1 => failures = 0 /\ outlived = {}
    /\ Cardinality({p \in Users \X Releases : resent[p[1]][p[2]] > 0}) <= 1

Symmetry == Permutations(Runs) \cup Permutations(Users) \cup Permutations(Releases)
=============================================================================
