---------------------------- MODULE AccessProofs ----------------------------
(***************************************************************************)
(* Machine-checked proofs about Access, for any accounts, names and        *)
(* requests.                                                               *)
(***************************************************************************)
EXTENDS Access, FiniteSetTheorems, TLAPS

(***************************************************************************)
(* What the two handlers and the table of routes do.                       *)
(***************************************************************************)

\* A save writes one valid account and ends its request.
LEMMA SaveWrites ==
    ASSUME NEW r \in Request, NEW a \in Account, SaveUser(r, a)
    PROVE  \E user \in AccountRecord :
              /\ accounts' = [accounts EXCEPT ![a] = user]
              /\ KeepsItself(a, request[r].name, user)
              /\ NameFree(a, user.name)
  BY DEF SaveUser, Valid, UserPayload, AccountRecord

\* Every route lets in known roles only, and never an auditor.
LEMMA RoutesForOperating ==
    \A route \in Routes : route.roles \subseteq Operating
  <1>1. Platform \subseteq Operating /\ Security \subseteq Operating
    BY DEF Platform, Security, Operating
  <1>2. \A roles, calls : Route(roles, calls).roles = roles
    BY DEF Route
  <1>3. \A route \in Routes : route.roles \in {Platform, Security, Operating}
    BY <1>2 DEF Routes, handleUsers, handleSystemSettings, handleClusterUpgrade,
        handleComplianceTasks, handleRunCompliance, handlePlugins, handleFileUpload,
        handleImages, handleComponents, handleBatch, handleNetworks, handleEnclaves,
        handleAttestations, handleInstallPackages, handleMarketplaceApps,
        handleProvisioningTaskByID, handleClusterNodes, handleClusterNodeByID,
        handleClusterQuotas, handleClusterQuotaByID, handleAlertThreshold,
        handleEnclaveKeys, handleEnclaveResources, handleRunEnclaveInspection,
        handleSecurityPolicies, handleTopoLinks, handleTopoEgress
  <1>4. QED
    BY <1>1, <1>3

\* Whoever requireRoles lets in is operating.
LEMMA AdmittedAreOperating ==
    ASSUME NEW a \in Account, NEW route \in Routes, requireRoles(a, route)
    PROVE  accounts[a].role \in Operating
  BY RoutesForOperating DEF requireRoles

\* Accounts have a route of their own in the table.
LEMMA UsersIsRoute == handleUsers \in Routes
  BY DEF Routes

\* The roles that make changes are those that are let in.
LEMMA ChangedByStep ==
    ASSUME [Next]_vars
    PROVE  changedBy' \subseteq changedBy \cup Operating
  <1>1. ASSUME NEW a \in Account, NEW route \in Routes \ {handleUsers}, Change(a, route)
        PROVE  changedBy' \subseteq changedBy \cup Operating
    BY <1>1, AdmittedAreOperating DEF Change
  <1>2. ASSUME NEW r \in Request, NEW a \in Account, Admit(r, a)
        PROVE  changedBy' \subseteq changedBy \cup Operating
    BY <1>2, AdmittedAreOperating, UsersIsRoute DEF Admit
  <1>3. ASSUME NEW r \in Request, Finish(r)
        PROVE  changedBy' \subseteq changedBy \cup Operating
    BY <1>3 DEF Finish
  <1>4. CASE UNCHANGED vars
    BY <1>4 DEF vars
  <1>5. QED
    BY <1>1, <1>2, <1>3, <1>4 DEF Next, SaveUser, DeleteUser, Refuse

(***************************************************************************)
(* Types.                                                                  *)
(***************************************************************************)

\* One case for each action.
LEMMA TypeStep == TypeOK /\ [Next]_vars => TypeOK'
  <1> SUFFICES ASSUME TypeOK, [Next]_vars
               PROVE  TypeOK'
    OBVIOUS
  <1> USE DEF TypeOK
  <1>1. changedBy' \subseteq Role
    BY ChangedByStep DEF Operating, Role
  <1>2. ASSUME NEW a \in Account, NEW route \in Routes, Change(a, route)
        PROVE  TypeOK'
    BY <1>1, <1>2 DEF Change
  <1>3. ASSUME NEW r \in Request, NEW a \in Account, Admit(r, a)
        PROVE  TypeOK'
    <2>1. accounts[a] \in AccountRecord
      BY <1>3 DEF Admit, requireRoles, findUser
    <2>2. [account |-> a, name |-> accounts[a].name] \in PendingRequest
      BY <2>1 DEF AccountRecord, PendingRequest
    <2>3. QED
      BY <1>1, <1>3, <2>2 DEF Admit
  <1>4. ASSUME NEW r \in Request, Finish(r)
        PROVE  request' \in [Request -> PendingRequest \cup {Idle}]
    BY <1>4 DEF Finish
  <1>5. ASSUME NEW r \in Request, NEW a \in Account, SaveUser(r, a)
        PROVE  TypeOK'
    <2>1. PICK user \in AccountRecord : accounts' = [accounts EXCEPT ![a] = user]
      BY <1>5, SaveWrites
    <2>2. QED
      BY <1>1, <1>4, <1>5, <2>1 DEF SaveUser
  <1>6. ASSUME NEW r \in Request, NEW a \in Account, DeleteUser(r, a)
        PROVE  TypeOK'
    BY <1>1, <1>4, <1>6 DEF DeleteUser
  <1>7. ASSUME NEW r \in Request, Refuse(r)
        PROVE  TypeOK'
    BY <1>1, <1>4, <1>7 DEF Refuse
  <1>8. CASE UNCHANGED vars
    BY <1>8 DEF vars
  <1>9. QED
    BY <1>2, <1>3, <1>5, <1>6, <1>7, <1>8 DEF Next

\* Every variable always holds a value of its type: no account gets a role
\* or a status that the program does not know.
THEOREM TypeCorrect == Spec => []TypeOK
  <1>1. Init => TypeOK
    BY DEF Init, TypeOK, AccountRecord, Role, Status
  <1>2. QED
    BY <1>1, TypeStep, PTL DEF Spec

(***************************************************************************)
(* Names, auditors, administrators.                                        *)
(***************************************************************************)

\* Only a save gives a name, and it compares it with those of all others.
LEMMA UniqueStep == TypeOK /\ UsernamesUnique /\ [Next]_vars => UsernamesUnique'
  <1> SUFFICES ASSUME TypeOK, UsernamesUnique, [Next]_vars
               PROVE  UsernamesUnique'
    OBVIOUS
  <1>1. CASE UNCHANGED accounts
    BY <1>1 DEF UsernamesUnique, findUser
  <1>2. ASSUME NEW r \in Request, NEW a \in Account, SaveUser(r, a)
        PROVE  UsernamesUnique'
    <2>1. PICK user \in AccountRecord :
              accounts' = [accounts EXCEPT ![a] = user] /\ NameFree(a, user.name)
      BY <1>2, SaveWrites
    <2>2. accounts'[a] = user /\ \A b \in Account \ {a} : accounts'[b] = accounts[b]
      BY <2>1 DEF TypeOK
    <2>3. SUFFICES ASSUME NEW b \in Account, NEW c \in Account,
                          accounts'[b] # NoAccount, accounts'[c] # NoAccount,
                          accounts'[b].name = accounts'[c].name
                   PROVE  b = c
      BY DEF UsernamesUnique, findUser
    <2>4. CASE b # a /\ c # a
      BY <2>2, <2>3, <2>4 DEF UsernamesUnique, findUser
    <2>5. CASE b = a
      BY <2>1, <2>2, <2>3, <2>5 DEF NameFree, findUser
    <2>6. CASE c = a
      BY <2>1, <2>2, <2>3, <2>6 DEF NameFree, findUser
    <2>7. QED
      BY <2>4, <2>5, <2>6
  <1>3. ASSUME NEW r \in Request, NEW a \in Account, DeleteUser(r, a)
        PROVE  UsernamesUnique'
    <2>1. accounts' = [accounts EXCEPT ![a] = NoAccount]
      BY <1>3 DEF DeleteUser
    <2>2. QED
      BY <2>1 DEF TypeOK, UsernamesUnique, findUser
  <1>4. QED
    BY <1>1, <1>2, <1>3 DEF Next, Change, Admit, Refuse, vars

\* Two users never have the same name.
THEOREM NamesStayUnique == Spec => []UsernamesUnique
  <1>1. Init => UsernamesUnique
    BY DEF Init, UsernamesUnique, findUser
  <1>2. QED
    BY <1>1, UniqueStep, TypeCorrect, PTL DEF Spec

\* No handler ever lets an auditor in to change something.
THEOREM AuditorsOnlyRead == Spec => []AuditorsChangeNothing
  <1>1. Init => AuditorsChangeNothing
    BY DEF Init, AuditorsChangeNothing
  <1>2. AuditorsChangeNothing /\ [Next]_vars => AuditorsChangeNothing'
    BY ChangedByStep DEF AuditorsChangeNothing, Operating
  <1>3. QED
    BY <1>1, <1>2, PTL DEF Spec

\* A caller that is still the administrator it was keeps that role and
\* status whatever it saves.
LEMMA SaveLeavesTheCaller ==
    ASSUME TypeOK, NEW r \in Request, NEW a \in Account, SaveUser(r, a), ~Stale(r)
    PROVE  request[r].account \in ActiveAdmins'
  <1> DEFINE caller == request[r].account
  <1>1. caller \in ActiveAdmins /\ accounts[caller].name = request[r].name
    BY DEF Stale
  <1>2. PICK user \in AccountRecord : /\ accounts' = [accounts EXCEPT ![a] = user]
                                      /\ KeepsItself(a, request[r].name, user)
    BY SaveWrites
  <1>3. caller \in Account /\ findUser(caller)
    BY <1>1 DEF ActiveAdmins, PlatformAdmins
  <1>4. CASE a = caller
    <2>1. user.role = accounts[a].role /\ user.status = accounts[a].status
      BY <1>1, <1>2, <1>3, <1>4 DEF KeepsItself
    <2>2. accounts'[a] = user /\ user # NoAccount
      BY <1>2, AccessAssumption DEF TypeOK
    <2>3. QED
      BY <1>1, <1>3, <1>4, <2>1, <2>2 DEF ActiveAdmins, PlatformAdmins, findUser
  <1>5. CASE a # caller
    <2>1. accounts'[caller] = accounts[caller]
      BY <1>2, <1>3, <1>5 DEF TypeOK
    <2>2. QED
      BY <1>1, <1>3, <2>1 DEF ActiveAdmins, PlatformAdmins, findUser
  <1>6. QED
    BY <1>4, <1>5

\* It deletes itself only while it is not the only platform administrator.
LEMMA DeleteLeavesSomebody ==
    ASSUME TypeOK, NEW r \in Request, NEW a \in Account, DeleteUser(r, a), ~Stale(r)
    PROVE  request[r].account \in ActiveAdmins' \/ LeavesToDisabled(r)
  <1> DEFINE caller == request[r].account
  <1>1. caller \in PlatformAdmins /\ caller \in ActiveAdmins
    BY DEF Stale, ActiveAdmins
  <1>2. accounts' = [accounts EXCEPT ![a] = NoAccount]
    BY DEF DeleteUser
  <1>3. \A b \in Account \ {a} : accounts'[b] = accounts[b]
    BY <1>2 DEF TypeOK
  <1>4. CASE a = caller
    <2>1. Cardinality(PlatformAdmins) > 1
      BY <1>1, <1>4 DEF DeleteUser, PlatformAdmins
    <2>2. PlatformAdmins # {caller}
      <3>1. Cardinality({caller}) = 1
        BY FS_Singleton
      <3>2. ~(1 > 1)
        OBVIOUS
      <3>3. QED
        BY <2>1, <3>1, <3>2
    <2>3. PICK b \in PlatformAdmins : b # caller
      BY <1>1, <2>2
    <2>4. b \in PlatformAdmins'
      BY <1>3, <1>4, <2>3 DEF PlatformAdmins, findUser
    <2>5. accounts'[caller] = NoAccount
      BY <1>1, <1>2, <1>4 DEF TypeOK
    <2>6. QED
      BY <2>4, <2>5 DEF LeavesToDisabled
  <1>5. CASE a # caller
    BY <1>1, <1>3, <1>5 DEF ActiveAdmins, PlatformAdmins, findUser
  <1>6. QED
    BY <1>4, <1>5

\* The last active administrator is lost only by a request of a caller that
\* is no longer what it was, or by an administrator deleting itself while
\* all the others are disabled.
THEOREM AdministrationIsKept == Spec => AdministrationEndsOnlyTwoWays
  <1> DEFINE Step ==
        ActiveAdmins # {} /\ ActiveAdmins' = {}
            => \E r \in Request :
                  /\ request[r] # Idle /\ request'[r] = Idle
                  /\ Stale(r) \/ LeavesToDisabled(r)
  <1>1. TypeOK /\ [Next]_vars => [Step]_vars
    <2> SUFFICES ASSUME TypeOK, Next, ActiveAdmins # {}, ActiveAdmins' = {}
                 PROVE  Step
      OBVIOUS
    <2>1. ASSUME NEW r \in Request, Finish(r)
          PROVE  request[r] # Idle /\ request'[r] = Idle
      BY <2>1 DEF Finish, TypeOK
    <2>2. ASSUME NEW r \in Request, NEW a \in Account, SaveUser(r, a)
          PROVE  Step
      BY <2>1, <2>2, SaveLeavesTheCaller DEF SaveUser
    <2>3. ASSUME NEW r \in Request, NEW a \in Account, DeleteUser(r, a)
          PROVE  Step
      BY <2>1, <2>3, DeleteLeavesSomebody DEF DeleteUser
    <2>4. CASE UNCHANGED accounts
      BY <2>4 DEF ActiveAdmins, PlatformAdmins, findUser
    <2>5. QED
      BY <2>2, <2>3, <2>4 DEF Next, Change, Admit, Refuse
  <1>2. QED
    BY <1>1, TypeCorrect, PTL DEF Spec, AdministrationEndsOnlyTwoWays

===============================================================================
