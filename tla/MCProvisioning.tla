---------------------------- MODULE MCProvisioning ----------------------------
(* Instances of Provisioning for TLC: how often users, crashes and store      *)
(* errors may strike.                                                         *)
EXTENDS Provisioning

Bounds(save, delete, retry, cancel, crash, storeError) ==
    [save |-> save, delete |-> delete, retry |-> retry, cancel |-> cancel,
     crash |-> crash, storeError |-> storeError]

\* Users against the executor: a node is registered, edited from a page that may
\* be outdated, or deleted, its tasks are cancelled and retried while the
\* executor works.
Requests == Bounds(2, 1, 1, 1, 0, 0)

\* One task against crashes and failing writes.
Faults == Bounds(1, 0, 1, 1, 1, 1)

\* Two tasks for one slot: a failed task is retried while a newer one waits, and
\* the process may crash.
Slots == Bounds(2, 0, 1, 0, 1, 0)

\* For the counterexamples: few requests are enough.
EditAndRetry == Bounds(2, 0, 1, 0, 0, 0)
CancelAndRetry == Bounds(1, 0, 1, 1, 0, 0)
CancelOnce == Bounds(1, 0, 0, 1, 0, 0)
=============================================================================
