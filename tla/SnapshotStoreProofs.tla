------------------------- MODULE SnapshotStoreProofs --------------------------
(***************************************************************************)
(* For any number of clients and edits: types, that no acknowledged edit   *)
(* is lost, that readers see what a restart would find, that nothing is    *)
(* ever left for a reader to reconcile, and that the store implements      *)
(* Register.                                                               *)
(***************************************************************************)
EXTENDS SnapshotStore, TLAPS

\* Who has writeMu, and only he, is between copying the snapshot and the end
\* of Replace.
LockInv ==
    \A c \in Client : writeMu = c <=> At(c, "locked") \/ At(c, "written")

Keeps(snapshot) == acked \subseteq snapshot.edits /\ acked \ old \subseteq snapshot.events

\* The copy a handler works on is the state, but for audit events that were
\* cleaned up since; the copy it has written is the row.
CopyInv ==
    \A c \in Client :
        /\ At(c, "locked") => /\ client[c].copy.edits = memory.edits
                              /\ client[c].copy.upgrade = memory.upgrade
                              /\ Keeps(client[c].copy)
        /\ At(c, "written") => /\ client[c].copy = row
                               /\ client[c].own \subseteq row.edits
                               /\ client[c].own \subseteq row.events
                               /\ \A e, f \in client[c].own : e = f

\* No upgrade is running at less than 5, in memory, in the row or in a copy.
\* This is why a reader, whose copy may be stale, never writes it.
NeverBehind ==
    /\ ~Behind(memory)
    /\ ~Behind(row)
    /\ \A c \in Client : client[c] # Idle => ~Behind(client[c].copy)

Inv ==
    /\ TypeOK
    /\ LockInv
    /\ CopyInv
    /\ NeverBehind
    /\ AckedSurvives
    /\ MemoryIsRow

-------------------------------------------------------------------------------
\* A client that is somewhere is busy, and has a copy.
LEMMA BusyAt ==
    ASSUME TypeOK, NEW c \in Client, NEW pc, pc # "idle", At(c, pc)
    PROVE  client[c] \in Busy /\ client[c] # Idle
  BY DEF TypeOK, At, Idle

\* A client that is not idle is busy.
LEMMA BusyUnlessIdle ==
    ASSUME TypeOK, NEW c \in Client, client[c] # Idle
    PROVE  client[c] \in Busy
  BY DEF TypeOK

\* Idle clients are at no other place.
LEMMA IdleIsNowhere ==
    ASSUME NEW c \in Client, client[c] = Idle
    PROVE  ~At(c, "locked") /\ ~At(c, "written") /\ ~At(c, "viewed")
  BY DEF At, Idle

\* What a handler makes of the upgrade is an upgrade, and never one that is
\* running at less than 5.
LEMMA HandledUpgrade ==
    ASSUME NEW snapshot \in Snapshot, ~Behind(snapshot), NEW e \in Edit,
           NEW upgrade \in HandledUpgrades(snapshot.upgrade)
    PROVE  /\ Handled(snapshot, e, upgrade) \in Snapshot
           /\ ~Behind(Handled(snapshot, e, upgrade))
  <1>1. snapshot.upgrade \in [status : UpgradeStatus, progress : {0, 5}]
    BY DEF Snapshot
  <1>2. /\ upgrade \in [status : UpgradeStatus, progress : {0, 5}]
        /\ ~(upgrade.status = "running" /\ upgrade.progress < 5)
    BY <1>1 DEF HandledUpgrades, UpgradeCluster, DownloadClusterUpgrade,
                ResetClusterUpgrade, UpgradeStatus, Behind
  <1>3. Handled(snapshot, e, upgrade) \in Snapshot
    BY <1>2 DEF Handled, Snapshot
  <1>4. QED  BY <1>2, <1>3 DEF Handled, Behind

\* The initial state satisfies the invariant.
LEMMA InitInv == Init => Inv
  BY ConstantsAssumption
     DEF Init, Inv, TypeOK, LockInv, CopyInv, NeverBehind, AckedSurvives, MemoryIsRow,
         Empty, Snapshot, UpgradeStatus, Behind, At, Idle, Keeps, StoreFree

-------------------------------------------------------------------------------
\* While a client holds writeMu no other is between copying and replacing.
LEMMA Exclusive ==
    ASSUME Inv, NEW c \in Client, NEW d \in Client, d # c,
           At(c, "locked") \/ At(c, "written")
    PROVE  ~At(d, "locked") /\ ~At(d, "written")
  BY DEF Inv, LockInv

\* A handler has taken the lock and copied the snapshot.
LEMMA BeginInv == ASSUME Inv, NEW c \in Client, Begin(c) PROVE Inv'
  <1> USE DEF Begin, Go
  <1>1. /\ client' = [client EXCEPT ![c] = [pc |-> "locked", copy |-> memory, own |-> {}]]
        /\ memory \in Snapshot /\ client \in [Client -> Busy \cup {Idle}]
    BY DEF Inv, TypeOK
  <1>2. /\ client'[c] = [pc |-> "locked", copy |-> memory, own |-> {}]
        /\ \A d \in Client : d # c => client'[d] = client[d]
    BY <1>1
  <1>3. TypeOK'
    BY <1>1 DEF Inv, TypeOK, Busy
  <1>4. \A d \in Client : ~At(d, "locked") /\ ~At(d, "written")
    BY ConstantsAssumption DEF Inv, LockInv
  <1>5. LockInv'
    BY <1>2, <1>4, ConstantsAssumption DEF LockInv, At
  <1>6. StoreFree /\ Keeps(memory)
    BY DEF Inv, AckedSurvives, Keeps
  <1>7. CopyInv'
    BY <1>2, <1>4, <1>6 DEF CopyInv, At, Keeps
  <1>8. NeverBehind'
    BY <1>2 DEF Inv, NeverBehind
  <1>9. AckedSurvives' /\ MemoryIsRow'
    BY <1>6 DEF Inv, AckedSurvives, MemoryIsRow, Behind
  <1>10. QED  BY <1>3, <1>5, <1>7, <1>8, <1>9 DEF Inv

\* A reader has copied the snapshot without a lock.
LEMMA ViewInv == ASSUME Inv, NEW c \in Client, View(c) PROVE Inv'
  <1> USE DEF View, Go
  <1>1. /\ client' = [client EXCEPT ![c] = [pc |-> "viewed", copy |-> memory, own |-> {}]]
        /\ memory \in Snapshot /\ client \in [Client -> Busy \cup {Idle}]
    BY DEF Inv, TypeOK
  <1>2. /\ client'[c] = [pc |-> "viewed", copy |-> memory, own |-> {}]
        /\ \A d \in Client : d # c => client'[d] = client[d]
    BY <1>1
  <1>3. TypeOK'
    BY <1>1 DEF Inv, TypeOK, Busy
  <1>4. ~At(c, "locked") /\ ~At(c, "written") /\ StoreFree
    BY IdleIsNowhere
  <1>5. LockInv'
    BY <1>2, <1>4 DEF Inv, LockInv, At
  <1>6. CopyInv'
    BY <1>2, <1>4 DEF Inv, CopyInv, At, Keeps
  <1>7. NeverBehind'
    BY <1>2 DEF Inv, NeverBehind
  <1>8. AckedSurvives' /\ MemoryIsRow'
    BY <1>4 DEF Inv, AckedSurvives, MemoryIsRow
  <1>9. QED  BY <1>3, <1>5, <1>6, <1>7, <1>8 DEF Inv

\* A client has let go of the lock and nothing else has changed.
LEMMA UnlockInv ==
    ASSUME Inv, NEW c \in Client, Unlock(c), UNCHANGED <<memory, row, old, acked>>,
           At(c, "locked") \/ (At(c, "viewed") /\ writeMu = Nobody)
    PROVE  Inv'
  <1> USE DEF Unlock
  <1>1. client \in [Client -> Busy \cup {Idle}]
    BY DEF Inv, TypeOK
  <1>2. /\ client'[c] = Idle
        /\ \A d \in Client : d # c => client'[d] = client[d]
    BY <1>1
  <1>3. TypeOK'
    BY <1>1 DEF Inv, TypeOK
  <1>4. \A d \in Client : d # c => ~At(d, "locked") /\ ~At(d, "written")
    BY Exclusive, ConstantsAssumption DEF Inv, LockInv
  <1>5. ~At(c, "written")
    BY DEF At
  <1>6. StoreFree
    BY <1>4, <1>5 DEF StoreFree
  <1>7. \A d \in Client : ~At(d, "locked")' /\ ~At(d, "written")'
    BY <1>2, <1>4 DEF At, Idle
  <1>8. LockInv' /\ CopyInv'
    BY <1>7, ConstantsAssumption DEF LockInv, CopyInv
  <1>9. NeverBehind'
    BY <1>2 DEF Inv, NeverBehind
  <1>10. AckedSurvives' /\ MemoryIsRow'
    BY <1>6 DEF Inv, AckedSurvives, MemoryIsRow
  <1>11. QED  BY <1>3, <1>8, <1>9, <1>10 DEF Inv

\* A handler has changed its copy and written it to the row.
LEMMA WriteRowInv ==
    ASSUME Inv, NEW c \in Client, NEW e \in Edit, WriteRow(c, e) PROVE Inv'
  <1>1. At(c, "locked") /\ client[c] \in Busy /\ client[c] # Idle
    BY BusyAt DEF WriteRow, Inv
  <1>2. client[c].copy \in Snapshot /\ ~Behind(client[c].copy)
    BY <1>1 DEF Inv, NeverBehind, Busy
  <1>3. PICK upgrade \in HandledUpgrades(client[c].copy.upgrade) :
           /\ row' = Handled(client[c].copy, e, upgrade)
           /\ Go(c, "written", row', {e})
    BY DEF WriteRow
  <1>4. row' \in Snapshot /\ ~Behind(row')
    BY <1>2, <1>3, HandledUpgrade
  <1>5. client' = [client EXCEPT ![c] = [pc |-> "written", copy |-> row', own |-> {e}]]
    BY <1>3 DEF Go
  <1>6. /\ client'[c] = [pc |-> "written", copy |-> row', own |-> {e}]
        /\ \A d \in Client : d # c => client'[d] = client[d]
    BY <1>5 DEF Inv, TypeOK
  <1>7. UNCHANGED <<memory, writeMu, old, acked>>
    BY DEF WriteRow
  <1>8. TypeOK'
    BY <1>4, <1>5, <1>7 DEF Inv, TypeOK, Busy
  <1>9. \A d \in Client : d # c => ~At(d, "locked") /\ ~At(d, "written")
    BY <1>1, Exclusive
  <1>10. LockInv'
    BY <1>1, <1>6, <1>7 DEF Inv, LockInv, At
  <1>11. /\ row'.edits = client[c].copy.edits \cup {e}
         /\ row'.events = client[c].copy.events \cup {e}
    BY <1>3 DEF Handled
  <1>12. CopyInv'
    BY <1>6, <1>9, <1>11 DEF CopyInv, At
  <1>13. NeverBehind'
    BY <1>4, <1>6, <1>7 DEF Inv, NeverBehind
  <1>14. AckedSurvives'
    BY <1>1, <1>7, <1>11 DEF Inv, AckedSurvives, CopyInv, Keeps
  <1>15. At(c, "written")'
    BY <1>6 DEF At
  <1>16. MemoryIsRow'
    BY <1>15 DEF MemoryIsRow, StoreFree
  <1>17. QED  BY <1>8, <1>10, <1>12, <1>13, <1>14, <1>16 DEF Inv

\* The memory has followed the row, and the handler is told.
LEMMA ReplaceInv == ASSUME Inv, NEW c \in Client, Replace(c) PROVE Inv'
  <1>1. At(c, "written") /\ client[c] \in Busy /\ client[c] # Idle
    BY BusyAt DEF Replace, Inv
  <1>2. /\ client[c].copy = row /\ row \in Snapshot
        /\ client[c].own \subseteq row.edits
        /\ client[c].own \subseteq row.events
    BY <1>1 DEF Inv, CopyInv, TypeOK
  <1>3. /\ memory' = row
        /\ acked' = acked \cup client[c].own
        /\ writeMu' = Nobody
        /\ client' = [client EXCEPT ![c] = Idle]
        /\ UNCHANGED <<row, old>>
    BY <1>2 DEF Replace, Unlock
  <1>4. /\ client'[c] = Idle
        /\ \A d \in Client : d # c => client'[d] = client[d]
    BY <1>3 DEF Inv, TypeOK
  <1>5. TypeOK'
    BY <1>1, <1>2, <1>3 DEF Inv, TypeOK, Busy
  <1>6. \A d \in Client : d # c => ~At(d, "locked") /\ ~At(d, "written")
    BY <1>1, Exclusive
  <1>7. \A d \in Client : ~At(d, "locked")' /\ ~At(d, "written")'
    BY <1>4, <1>6 DEF At, Idle
  <1>8. LockInv' /\ CopyInv'
    BY <1>3, <1>7, ConstantsAssumption DEF LockInv, CopyInv
  <1>9. NeverBehind'
    BY <1>3, <1>4 DEF Inv, NeverBehind
  <1>10. AckedSurvives' /\ MemoryIsRow'
    BY <1>2, <1>3 DEF Inv, AckedSurvives, MemoryIsRow
  <1>11. QED  BY <1>5, <1>8, <1>9, <1>10 DEF Inv

\* A reader finds nothing to reconcile and gives the lock back.
LEMMA NothingToReconcile ==
    ASSUME Inv, NEW c \in Client, Reconcile(c)
    PROVE  Unlock(c) /\ UNCHANGED <<memory, row, old, acked>>
  <1>1. client[c] # Idle
    BY BusyAt DEF Reconcile, Inv
  <1>2. ~Behind(client[c].copy)
    BY <1>1 DEF Inv, NeverBehind
  <1>3. QED  BY <1>2 DEF Reconcile

\* The clean-up has removed old audit events, from the row too or not.
LEMMA CleanupInv == ASSUME Inv, CleanupAudit PROVE Inv'
  <1>1. /\ memory' = [memory EXCEPT !.events = @ \ old]
        /\ row' \in {row, memory'}
        /\ StoreFree
        /\ UNCHANGED <<writeMu, client, old, acked>>
    BY DEF CleanupAudit
  <1>2. memory \in Snapshot /\ row \in Snapshot
    BY DEF Inv, TypeOK
  <1>3. /\ memory' \in Snapshot
        /\ memory'.edits = memory.edits
        /\ memory'.upgrade = memory.upgrade
        /\ memory'.events = memory.events \ old
    BY <1>1, <1>2 DEF Snapshot
  <1>4. TypeOK'
    BY <1>1, <1>2, <1>3 DEF Inv, TypeOK
  <1>5. LockInv'
    BY <1>1 DEF Inv, LockInv, At
  <1>6. CopyInv'
    BY <1>1, <1>3 DEF Inv, CopyInv, At, Keeps, StoreFree
  <1>7. NeverBehind'
    <2>1. ~Behind(memory)'
      BY <1>3 DEF Inv, NeverBehind, Behind
    <2>2. ~Behind(row)'
      BY <1>1, <2>1 DEF Inv, NeverBehind
    <2>3. QED  BY <1>1, <2>1, <2>2 DEF Inv, NeverBehind
  <1>8. MemoryIsRow'
    BY <1>1, <1>3 DEF Inv, MemoryIsRow
  <1>9. AckedSurvives'
    BY <1>1, <1>3 DEF Inv, AckedSurvives
  <1>10. QED  BY <1>4, <1>5, <1>6, <1>7, <1>8, <1>9 DEF Inv

\* An audit event has become more than a year old.
LEMMA AgeInv == ASSUME Inv, NEW e \in Edit, Age(e) PROVE Inv'
  <1>1. old' = old \cup {e} /\ UNCHANGED <<memory, row, writeMu, client, acked>>
    BY DEF Age
  <1>2. TypeOK'
    BY <1>1 DEF Inv, TypeOK
  <1>3. LockInv' /\ NeverBehind' /\ MemoryIsRow'
    BY <1>1 DEF Inv, LockInv, NeverBehind, MemoryIsRow, At, StoreFree
  <1>4. CopyInv'
    BY <1>1 DEF Inv, CopyInv, At, Keeps
  <1>5. AckedSurvives'
    BY <1>1 DEF Inv, AckedSurvives
  <1>6. QED  BY <1>2, <1>3, <1>4, <1>5 DEF Inv

\* The process has started again from the row.
LEMMA CrashInv == ASSUME Inv, Crash PROVE Inv'
  <1>1. /\ memory' = row
        /\ writeMu' = Nobody
        /\ client' = [c \in Client |-> Idle]
        /\ UNCHANGED <<row, old, acked>>
    BY DEF Crash
  <1>2. TypeOK'
    BY <1>1 DEF Inv, TypeOK
  <1>3. \A c \in Client : ~At(c, "locked")' /\ ~At(c, "written")'
    BY <1>1 DEF At, Idle
  <1>4. LockInv' /\ CopyInv'
    BY <1>1, <1>3, ConstantsAssumption DEF LockInv, CopyInv
  <1>5. NeverBehind'
    BY <1>1 DEF Inv, NeverBehind
  <1>6. AckedSurvives' /\ MemoryIsRow'
    BY <1>1 DEF Inv, AckedSurvives, MemoryIsRow
  <1>7. QED  BY <1>2, <1>4, <1>5, <1>6 DEF Inv

\* Every step preserves the invariant.
LEMMA NextInv == Inv /\ [Next]_vars => Inv'
  <1> SUFFICES ASSUME Inv, [Next]_vars PROVE Inv'
    OBVIOUS
  <1>1. ASSUME NEW c \in Client, Step(c) PROVE Inv'
    <2>1. CASE Begin(c)  BY <2>1, BeginInv
    <2>2. CASE View(c)  BY <2>2, ViewInv
    <2>3. CASE Refuse(c)  BY <2>3, UnlockInv DEF Refuse
    <2>4. CASE Replace(c)  BY <2>4, ReplaceInv
    <2>5. CASE Reconcile(c)  BY <2>5, NothingToReconcile, UnlockInv DEF Reconcile
    <2>6. ASSUME NEW e \in Edit, WriteRow(c, e) PROVE Inv'  BY <2>6, WriteRowInv
    <2>7. QED  BY <1>1, <2>1, <2>2, <2>3, <2>4, <2>5, <2>6 DEF Step
  <1>2. ASSUME NEW e \in Edit, Age(e) PROVE Inv'  BY <1>2, AgeInv
  <1>3. CASE CleanupAudit  BY <1>3, CleanupInv
  <1>4. CASE Crash  BY <1>4, CrashInv
  <1>5. CASE UNCHANGED vars
    BY <1>5 DEF vars, Inv, TypeOK, LockInv, CopyInv, NeverBehind, AckedSurvives,
                MemoryIsRow, At, Keeps, StoreFree
  <1>6. QED  BY <1>1, <1>2, <1>3, <1>4, <1>5 DEF Next

-------------------------------------------------------------------------------
\* The invariant holds throughout: copies under the lock are current, nothing
\* is left to reconcile, and no acknowledged edit is lost.
THEOREM Invariance == Spec => []Inv
  <1>1. QED  BY InitInv, NextInv, PTL DEF Spec

\* Memory, row, lock and clients keep their types.
THEOREM TypeCorrect == Spec => []TypeOK
  <1>1. Inv => TypeOK  BY DEF Inv
  <1>2. QED  BY <1>1, Invariance, PTL

\* What a writer was told of stays, in memory and in the row.
THEOREM NoEditIsLost == Spec => []AckedSurvives
  <1>1. Inv => AckedSurvives  BY DEF Inv
  <1>2. QED  BY <1>1, Invariance, PTL

\* Readers see what a restart would find.
THEOREM ReadersSeeTheRow == Spec => []MemoryIsRow
  <1>1. Inv => MemoryIsRow  BY DEF Inv
  <1>2. QED  BY <1>1, Invariance, PTL

\* Every step is a step of the register, or none.
LEMMA RegisterStep ==
    ASSUME Inv, [Next]_vars
    PROVE  [Durable!Next]_<<row.edits, acked>>
  <1>1. ASSUME NEW c \in Client, Step(c) PROVE [Durable!Next]_<<row.edits, acked>>
    <2>1. CASE Begin(c) \/ View(c) \/ Refuse(c)
      BY <2>1 DEF Begin, View, Refuse
    <2>2. CASE Replace(c)
      <3>1. At(c, "written") /\ client[c] \in Busy
        BY <2>2, BusyAt DEF Replace, Inv
      <3>2. \/ client[c].own = {}
            \/ \E e \in Edit : client[c].own = {e}
        BY <3>1 DEF Inv, CopyInv, Busy
      <3>3. client[c].own \subseteq row.edits
        BY <3>1 DEF Inv, CopyInv
      <3>4. QED  BY <2>2, <3>2, <3>3 DEF Replace, Durable!Next, Durable!Ack
    <2>3. CASE Reconcile(c)
      BY <2>3, NothingToReconcile
    <2>4. ASSUME NEW e \in Edit, WriteRow(c, e)
          PROVE  [Durable!Next]_<<row.edits, acked>>
      <3>1. At(c, "locked") /\ client[c].copy.edits = memory.edits
        BY <2>4 DEF WriteRow, Inv, CopyInv
      <3>2. StoreFree
        BY <3>1, Exclusive DEF StoreFree, At
      <3>3. row'.edits = row.edits \cup {e} /\ e \notin row.edits /\ UNCHANGED acked
        BY <2>4, <3>1, <3>2 DEF WriteRow, Inv, MemoryIsRow, Handled
      <3>4. QED  BY <3>3 DEF Durable!Next, Durable!Write
    <2>5. QED  BY <1>1, <2>1, <2>2, <2>3, <2>4 DEF Step
  <1>2. ASSUME NEW e \in Edit, Age(e) PROVE [Durable!Next]_<<row.edits, acked>>
    BY <1>2 DEF Age
  <1>3. CASE CleanupAudit
    <2>1. memory'.edits = memory.edits
      BY <1>3 DEF CleanupAudit, Inv, TypeOK, Snapshot
    <2>2. QED  BY <1>3, <2>1 DEF CleanupAudit, Inv, MemoryIsRow
  <1>4. CASE Crash
    BY <1>4 DEF Crash
  <1>5. CASE UNCHANGED vars
    BY <1>5 DEF vars
  <1>6. QED  BY <1>1, <1>2, <1>3, <1>4, <1>5 DEF Next

\* The store, its writers, its stale readers, clean-up and crashes together
\* are a register that never loses an edit.
THEOREM ImplementsDurable == Spec => ImplementsRegister
  <1>1. Init => Durable!Init
    BY DEF Init, Durable!Init, Empty
  <1>2. Inv /\ [Next]_vars => [Durable!Next]_<<row.edits, acked>>
    BY RegisterStep
  <1>3. QED  BY <1>1, <1>2, Invariance, PTL DEF Spec, ImplementsRegister, Durable!Spec
===============================================================================
