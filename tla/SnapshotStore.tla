---------------------------- MODULE SnapshotStore ----------------------------
(***************************************************************************)
(* The store and the discipline of its writers.  The whole state of the    *)
(* platform is one snapshot, kept in memory and in one row of SQLite.  A   *)
(* handler takes writeMu, copies the snapshot, changes the copy and        *)
(* replaces the snapshot by it; the store's own mutex covers only the      *)
(* copying and the replacing.  Two parties do not follow this: a reader    *)
(* reconciles the cluster upgrade on a copy it took before writeMu, and    *)
(* the hourly clean-up of the audit trail never takes writeMu.             *)
(***************************************************************************)
EXTENDS Naturals

CONSTANTS
    Client,   \* goroutines that serve requests
    Edit,     \* the changes handlers make, each with its audit event
    Nobody

ASSUME ConstantsAssumption == Nobody \notin Client

UpgradeStatus == {"idle", "running", "pending_executor", "downloaded",
                  "download_pending_executor"}

\* edits: the changes it contains; events: their audit events
Snapshot == [edits : SUBSET Edit, events : SUBSET Edit,
             upgrade : [status : UpgradeStatus, progress : {0, 5}]]

VARIABLES
    memory,   \* SQLiteStore.snapshot
    row,      \* the row in the database
    writeMu,  \* who holds the service's lock
    client,   \* where each client is, with its copy of the snapshot and the
              \* changes it made to it
    old,      \* the edits whose audit events are more than a year old
    acked     \* history: the edits whose Replace returned without an error

vars == <<memory, row, writeMu, client, old, acked>>

Idle == [pc |-> "idle"]

At(c, pc) == client[c].pc = pc

\* The store's mutex is held from the write of the row to that of the memory.
StoreFree == \A c \in Client : ~At(c, "written")

Go(c, pc, snapshot, changes) ==
    client' = [client EXCEPT ![c] = [pc |-> pc, copy |-> snapshot, own |-> changes]]

Unlock(c) == writeMu' = Nobody /\ client' = [client EXCEPT ![c] = Idle]

-------------------------------------------------------------------------------
(* What handlers do to the upgrade: each yields its results, none if it     *)
(* refuses.  A command reaches the executor or it does not.                 *)

\* Mutant: a running upgrade starts at 0.
UpgradeFromZero(upgrade) ==
    IF upgrade.status = "idle"
    THEN [status : {"running", "pending_executor"}, progress : {0}]
    ELSE {}

UpgradeCluster(upgrade) ==
    IF upgrade.status = "idle"
    THEN {[status |-> "running", progress |-> 5],
          [status |-> "pending_executor", progress |-> 0]}
    ELSE {}

DownloadClusterUpgrade(upgrade) ==
    IF upgrade.status = "idle"
    THEN [status : {"downloaded", "download_pending_executor"}, progress : {0}]
    ELSE {}

\* Mutant: a cancelled upgrade has a status of its own.
ResetToCancelled(upgrade) ==
    IF upgrade.status # "idle" THEN [status : {"cancelled"}, progress : {0}] ELSE {}

ResetClusterUpgrade(upgrade) ==
    IF upgrade.status # "idle" THEN [status : {"idle"}, progress : {0}] ELSE {}

\* Any other handler leaves the upgrade alone.
HandledUpgrades(upgrade) ==
    {upgrade} \cup UpgradeCluster(upgrade) \cup DownloadClusterUpgrade(upgrade)
              \cup ResetClusterUpgrade(upgrade)

Handled(snapshot, e, upgrade) ==
    [edits |-> snapshot.edits \cup {e}, events |-> snapshot.events \cup {e},
     upgrade |-> upgrade]

-------------------------------------------------------------------------------
(* A handler.                                                               *)

\* Mutant: the snapshot is copied without waiting for writeMu.
BeginUnlocked(c) ==
    /\ client[c] = Idle
    /\ StoreFree
    /\ writeMu' = c
    /\ Go(c, "locked", memory, {})
    /\ UNCHANGED <<memory, row, old, acked>>

Begin(c) ==
    /\ client[c] = Idle
    /\ writeMu = Nobody
    /\ StoreFree
    /\ writeMu' = c
    /\ Go(c, "locked", memory, {})
    /\ UNCHANGED <<memory, row, old, acked>>

\* Mutant: a handler that refuses forgets the lock.
RefuseLocked(c) ==
    /\ At(c, "locked")
    /\ client' = [client EXCEPT ![c] = Idle]
    /\ UNCHANGED <<memory, row, writeMu, old, acked>>

\* The handler refuses, or the row cannot be written.
Refuse(c) ==
    /\ At(c, "locked")
    /\ Unlock(c)
    /\ UNCHANGED <<memory, row, old, acked>>

\* persistOnly
WriteRow(c, e) ==
    /\ At(c, "locked")
    /\ e \notin row.edits
    /\ \E upgrade \in HandledUpgrades(client[c].copy.upgrade) :
          LET changed == Handled(client[c].copy, e, upgrade)
          IN  row' = changed /\ Go(c, "written", changed, {e})
    /\ UNCHANGED <<memory, writeMu, old, acked>>

\* Mutant: the memory is not replaced.
MemoryKept(c) ==
    /\ At(c, "written")
    /\ Unlock(c)
    /\ acked' = acked \cup client[c].own
    /\ UNCHANGED <<memory, row, old>>

\* The memory follows, and Replace returns.
Replace(c) ==
    /\ At(c, "written")
    /\ memory' = client[c].copy
    /\ acked' = acked \cup client[c].own
    /\ Unlock(c)
    /\ UNCHANGED <<row, old>>

-------------------------------------------------------------------------------
(* A reader: PlatformService.Snapshot with reconcileClusterUpgrade.         *)

View(c) ==
    /\ client[c] = Idle
    /\ StoreFree
    /\ Go(c, "viewed", memory, {})
    /\ UNCHANGED <<memory, row, writeMu, old, acked>>

Behind(snapshot) == snapshot.upgrade.status = "running" /\ snapshot.upgrade.progress < 5

\* It takes writeMu; when there is something to reconcile, the copy it took
\* before is what it writes.  That nothing ever is depends on UpgradeCluster.
Reconcile(c) ==
    LET raised == [client[c].copy EXCEPT !.upgrade.progress = 5]
    IN  /\ At(c, "viewed")
        /\ writeMu = Nobody
        /\ IF Behind(client[c].copy)
           THEN row' = raised /\ writeMu' = c /\ Go(c, "written", raised, {})
           ELSE UNCHANGED row /\ Unlock(c)
        /\ UNCHANGED <<memory, old, acked>>

-------------------------------------------------------------------------------
(* The audit trail, time and the process.                                   *)

\* The error of the write is dropped.
CleanupAudit ==
    /\ StoreFree
    /\ memory' = [memory EXCEPT !.events = @ \ old]
    /\ row' = memory' \/ UNCHANGED row
    /\ UNCHANGED <<writeMu, client, old, acked>>

Age(e) ==
    /\ e \notin old
    /\ old' = old \cup {e}
    /\ UNCHANGED <<memory, row, writeMu, client, acked>>

\* load
Crash ==
    /\ memory' = row
    /\ writeMu' = Nobody
    /\ client' = [c \in Client |-> Idle]
    /\ UNCHANGED <<row, old, acked>>

-------------------------------------------------------------------------------
Empty == [edits |-> {}, events |-> {}, upgrade |-> [status |-> "idle", progress |-> 0]]

\* load writes the seed.
Init ==
    /\ memory = Empty
    /\ row = Empty
    /\ writeMu = Nobody
    /\ client = [c \in Client |-> Idle]
    /\ old = {}
    /\ acked = {}

Step(c) ==
    \/ Begin(c) \/ View(c)
    \/ Refuse(c) \/ Replace(c) \/ Reconcile(c)
    \/ \E e \in Edit : WriteRow(c, e)

Next ==
    \/ \E c \in Client : Step(c)
    \/ \E e \in Edit : Age(e)
    \/ CleanupAudit
    \/ Crash

Spec == Init /\ [][Next]_vars

\* A goroutine inside a call goes on, and one that waits for writeMu gets it:
\* Go's mutex hands itself to a waiter that would starve.
GoesOn(c) == Refuse(c) \/ Replace(c) \/ \E e \in Edit : WriteRow(c, e)

Fairness == \A c \in Client : WF_vars(GoesOn(c)) /\ SF_vars(Reconcile(c))

FairSpec == Spec /\ Fairness
-------------------------------------------------------------------------------
(* Properties.                                                              *)

Busy == [pc : {"locked", "written", "viewed"}, copy : Snapshot, own : SUBSET Edit]

TypeOK ==
    /\ memory \in Snapshot
    /\ row \in Snapshot
    /\ writeMu \in Client \cup {Nobody}
    /\ client \in [Client -> Busy \cup {Idle}]
    /\ old \subseteq Edit
    /\ acked \subseteq Edit

\* What a writer was told of stays: its change in memory and in the row, its
\* audit event for a year, through other writers, stale readers, the clean-up
\* and crashes.
AckedSurvives ==
    \A snapshot \in {memory, row} :
        /\ acked \subseteq snapshot.edits
        /\ acked \ old \subseteq snapshot.events

\* Readers see what a restart would find: between two replacements the memory
\* and the row hold the same changes and the same upgrade, and the row at most
\* some audit events more, which a clean-up failed to write.
MemoryIsRow ==
    StoreFree => /\ memory.edits = row.edits
                 /\ memory.upgrade = row.upgrade
                 /\ memory.events \subseteq row.events

\* Every call returns: nobody keeps the lock.
CallsReturn == \A c \in Client : client[c] # Idle ~> client[c] = Idle

\* The store is a register that never loses an edit.
Durable == INSTANCE Register WITH written <- row.edits

ImplementsRegister == Durable!Spec
===============================================================================
