-------------------------------- MODULE Access --------------------------------
(***************************************************************************)
(* Who may change what.  Every handler of the HTTP API first lets the      *)
(* caller in by the role of the account, then calls the service.  For the  *)
(* accounts themselves the two are apart: the caller's role and name are   *)
(* read before the handler takes writeMu, and SaveUser and DeleteUser only *)
(* get the name.  What the other calls do is in Entities, Provisioning and *)
(* NodePoll; here only the role that was let in is kept.  Sessions, a      *)
(* user's own password and requests that only read are left out; names     *)
(* differ in more than their case.                                         *)
(***************************************************************************)
EXTENDS Naturals, FiniteSets

CONSTANTS
    Account,     \* user IDs
    Name,        \* usernames; an ID may look like somebody's name
    Request,     \* requests about accounts at the same time
    NoAccount,   \* no user has this ID
    Idle         \* no request

Role == {"platform_admin", "security_admin", "operator", "auditor"}

Status == {"active", "disabled"}

AccountRecord == [name : Name, role : Role, status : Status]

\* A request about accounts that was let in, and the name it acts under
PendingRequest == [account : Account, name : Name]

ASSUME AccessAssumption ==
    /\ NoAccount \notin AccountRecord
    /\ Idle \notin PendingRequest

VARIABLES
    accounts,
    request,
    changedBy    \* history: the roles in which a change was let in

vars == <<accounts, request, changedBy>>

findUser(a) == accounts[a] # NoAccount

-------------------------------------------------------------------------------
(* The handlers that change something: the service's operations they call   *)
(* and the roles they let in for that.                                      *)

Everyone == Role
Operating == {"platform_admin", "security_admin", "operator"}
Security == {"platform_admin", "security_admin"}
Platform == {"platform_admin"}

Route(roles, calls) == [roles |-> roles, calls |-> calls]

handleUsers == Route(Platform, {"SaveUser", "DeleteUser"})
handleSystemSettings == Route(Platform, {"SaveSystemSetting", "DeleteSystemSetting"})
handleClusterUpgrade ==
    Route(Platform, {"UpgradeCluster", "ResetClusterUpgrade", "DownloadClusterUpgrade"})

handleComplianceTasks == Route(Security, {"SaveComplianceTask", "DeleteComplianceTask"})
handleRunCompliance == Route(Security, {"RunCompliance", "ExportComplianceReport"})
handlePlugins ==
    Route(Security, {"SavePlugin", "EnablePlugin", "DisablePlugin", "DeletePlugin"})

handleFileUpload == Route(Operating, {"RecordAudit"})

\* Mutant: a change is let in like a read, by the check before the switch.
ImagesForReaders == Route(Everyone, {"SaveImage", "BuildImage", "DeleteImage"})

handleImages == Route(Operating, {"SaveImage", "BuildImage", "DeleteImage"})
handleComponents ==
    Route(Operating, {"SaveComponent", "DeployComponent", "ScaleComponent",
                      "UpgradeComponent", "DeleteComponent"})
handleBatch == Route(Operating, {"BatchDeployComponents", "BatchScaleComponents"})
handleNetworks == Route(Operating, {"SaveNetwork", "DeleteNetwork"})
handleEnclaves == Route(Operating, {"SaveEnclave", "DeleteEnclave"})
handleAttestations == Route(Operating, {"RunAttestation", "SubmitAttestationResult"})
handleInstallPackages == Route(Operating, {"SaveInstallPackage", "DeleteInstallPackage"})
handleMarketplaceApps ==
    Route(Operating, {"SaveMarketplaceApp", "PublishMarketplaceApp", "DeleteMarketplaceApp",
                      "UnpublishMarketplaceApp", "AddMarketplaceAppVersion"})
handleProvisioningTaskByID ==
    Route(Operating, {"RetryProvisioningTask", "CancelProvisioningTask"})
handleClusterNodes == Route(Operating, {"SaveClusterNode"})
handleClusterNodeByID == Route(Operating, {"SaveClusterNode", "DeleteClusterNode"})
handleClusterQuotas == Route(Operating, {"SaveClusterQuota"})
handleClusterQuotaByID == Route(Operating, {"SaveClusterQuota", "DeleteClusterQuota"})
handleAlertThreshold == Route(Operating, {"SaveAlertThreshold"})
handleEnclaveKeys == Route(Operating, {"SaveEnclaveKey", "DeleteEnclaveKey"})
handleEnclaveResources == Route(Operating, {"SaveEnclaveResource", "DeleteEnclaveResource"})
handleRunEnclaveInspection == Route(Operating, {"RunEnclaveInspection"})
handleSecurityPolicies ==
    Route(Operating, {"SaveSecurityPolicyRule", "DeleteSecurityPolicyRule"})
handleTopoLinks == Route(Operating, {"SaveTopoLink", "DeleteTopoLink"})
handleTopoEgress == Route(Operating, {"SaveTopoEgress", "DeleteTopoEgress"})

Routes ==
    {handleUsers, handleSystemSettings, handleClusterUpgrade, handleComplianceTasks,
     handleRunCompliance, handlePlugins, handleFileUpload, handleImages, handleComponents,
     handleBatch, handleNetworks, handleEnclaves, handleAttestations, handleInstallPackages,
     handleMarketplaceApps, handleProvisioningTaskByID, handleClusterNodes,
     handleClusterNodeByID, handleClusterQuotas, handleClusterQuotaByID, handleAlertThreshold,
     handleEnclaveKeys, handleEnclaveResources, handleRunEnclaveInspection,
     handleSecurityPolicies, handleTopoLinks, handleTopoEgress}

\* requireUser finds an active account; its role is one of the route's.
requireRoles(a, route) ==
    /\ findUser(a)
    /\ accounts[a].status = "active"
    /\ accounts[a].role \in route.roles

-------------------------------------------------------------------------------
(* Actions.                                                                 *)

\* A request about anything but accounts, by whoever its handler lets in
Change(a, route) ==
    /\ requireRoles(a, route)
    /\ changedBy' = changedBy \cup {accounts[a].role}
    /\ UNCHANGED <<accounts, request>>

Admit(r, a) ==
    /\ request[r] = Idle
    /\ requireRoles(a, handleUsers)
    /\ request' = [request EXCEPT ![r] = [account |-> a, name |-> accounts[a].name]]
    /\ changedBy' = changedBy \cup {accounts[a].role}
    /\ UNCHANGED accounts

Finish(r) ==
    /\ request[r] # Idle
    /\ request' = [request EXCEPT ![r] = Idle]
    /\ UNCHANGED changedBy

\* What a body may hold: any string as the role and the status
UserPayload == [name : Name, role : Role \cup {"other"}, status : Status \cup {"other"}]

\* Mutant: any role is taken.
ValidStatus(user) == user.status \in Status

Valid(user) == user.role \in Role /\ user.status \in Status

\* Mutant: a name is compared with the others' for a new user only.
NameFreeForNew(a, name) ==
    \A other \in Account \ {a} : ~findUser(a) /\ findUser(other) => accounts[other].name # name

NameFree(a, name) ==
    \A other \in Account \ {a} : findUser(other) => accounts[other].name # name

\* Mutant: one's own role is protected, one's own status is not.
KeepsOwnRole(a, actor, user) ==
    findUser(a) /\ accounts[a].name = actor => user.role = accounts[a].role

\* Nobody changes the role or status of the account with the actor's name.
KeepsItself(a, actor, user) ==
    findUser(a) /\ accounts[a].name = actor
        => user.role = accounts[a].role /\ user.status = accounts[a].status

\* A user with this ID is updated; without one it is created.
SaveUser(r, a) ==
    /\ Finish(r)
    /\ \E user \in UserPayload :
          /\ Valid(user)
          /\ KeepsItself(a, request[r].name, user)
          /\ NameFree(a, user.name)
          /\ accounts' = [accounts EXCEPT ![a] = user]

PlatformAdmins == {a \in Account : findUser(a) /\ accounts[a].role = "platform_admin"}

\* The ID is compared with the actor's name; disabled administrators count.
DeleteUser(r, a) ==
    /\ Finish(r)
    /\ a # request[r].name
    /\ findUser(a)
    /\ accounts[a].role = "platform_admin" => Cardinality(PlatformAdmins) > 1
    /\ accounts' = [accounts EXCEPT ![a] = NoAccount]

\* A check refuses, the write fails, or the process ends.
Refuse(r) == Finish(r) /\ UNCHANGED accounts

-------------------------------------------------------------------------------
\* The seed's administrator, the other accounts deleted
Init ==
    /\ \E admin \in Account, name \in Name :
          /\ name # admin
          /\ accounts = [a \in Account |->
                IF a = admin THEN [name |-> name, role |-> "platform_admin", status |-> "active"]
                             ELSE NoAccount]
    /\ request = [r \in Request |-> Idle]
    /\ changedBy = {}

Next ==
    \/ \E a \in Account, route \in Routes \ {handleUsers} : Change(a, route)
    \/ \E r \in Request, a \in Account : Admit(r, a) \/ SaveUser(r, a) \/ DeleteUser(r, a)
    \/ \E r \in Request : Refuse(r)

Spec == Init /\ [][Next]_vars

-------------------------------------------------------------------------------
(* Properties.                                                              *)

\* Every variable holds a value of its type: no account has a role or a
\* status the program does not know.
TypeOK ==
    /\ accounts \in [Account -> AccountRecord \cup {NoAccount}]
    /\ request \in [Request -> PendingRequest \cup {Idle}]
    /\ changedBy \subseteq Role

\* Two users never have the same name, whatever requests create, rename and
\* delete users at the same time; login and the checks on oneself go by name.
UsernamesUnique ==
    \A a, b \in Account : findUser(a) /\ findUser(b) /\ accounts[a].name = accounts[b].name
        => a = b

ActiveAdmins == {a \in PlatformAdmins : accounts[a].status = "active"}

\* The caller is no longer the administrator it was when it was let in.
Stale(r) ==
    LET caller == request[r].account
    IN  caller \notin ActiveAdmins \/ accounts[caller].name # request[r].name

\* The caller deletes its own account; a disabled administrator is left.
LeavesToDisabled(r) ==
    /\ accounts'[request[r].account] = NoAccount
    /\ PlatformAdmins' # {}

\* The platform loses its last active administrator in two ways only: by a
\* request that was let in before its caller was disabled, demoted, renamed
\* or deleted, or by an administrator who deletes the own account while all
\* others are disabled.  Any other request leaves somebody to administer it.
AdministrationEndsOnlyTwoWays ==
    [][ActiveAdmins # {} /\ ActiveAdmins' = {}
        => \E r \in Request :
              /\ request[r] # Idle /\ request'[r] = Idle
              /\ Stale(r) \/ LeavesToDisabled(r)]_vars

\* No handler lets a user in to change something while the user is an
\* auditor, whatever roles the account had before or gets later.
AuditorsChangeNothing == "auditor" \notin changedBy

===============================================================================
