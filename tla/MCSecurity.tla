----------------------------- MODULE MCSecurity -----------------------------
(* Who may do what, checked in one run.  The services of 03_SECURITY       *)
(* around an identity: sessions over the identity service and its vault;   *)
(* attempt control; multi-factor authentication over identities and        *)
(* attempt control; the vault, its keys and its backups; incidents over    *)
(* identities, the plans that respond to them, the alerts and who is told  *)
(* of them; roles, permissions and the decision over them.  And the        *)
(* boundaries of 04_CONTROL_ROOM that an operation passes.  `service' says *)
(* which of them a behaviour is about; what that one does not use does not *)
(* move.                                                                   *)
EXTENDS Sessions, MfaTransactions, KeyVault, Incidents, DispatchControl, Alerts, Authorization

VARIABLE service

(* No delay after a failure but the last, for the most failures in a       *)
(* window.                                                                 *)
Delays == [n \in 0..MaxMisses |-> IF n = MaxMisses THEN 1 ELSE 0]

(* One policy asks for an approval of what the other one refuses.          *)
Approving == [refused |-> {}, approval |-> {"revoke"}]
Refusing == [refused |-> {"revoke"}, approval |-> {}]
BothPolicies == {Approving, Refusing}

SecurityInit ==
  /\ SessionInit /\ AttemptInit /\ MfaInit /\ KeyVaultInit /\ IncidentInit /\ DispatchInit
  /\ ResponseInit /\ AlertInit /\ RightsInit /\ NotificationInit
  /\ service \in {"sessions", "attempts", "mfa", "keys", "incidents", "dispatch", "responses",
                  "reports", "notices", "rights", "protection", "notification"}
  /\ configured = IF service = "rights" THEN Services ELSE {}
  /\ service = "dispatch" \/ layer = "admission"
  /\ service = "responses" \/ responsePolicy = Approving
  /\ service = "notification" \/ enabled = Channels

(* A rule that sends far, and one that keeps at home what may not leave.   *)
RoutingRules ==
  {[severities |-> {1, 3}, order |-> 1, channel |-> "DESKTOP"],
   [severities |-> {3}, order |-> 1, channel |-> "LOCAL"]}

(* Identities of claimants change under the other services, with a vault   *)
(* that accepts (its refusals are part of "sessions").                     *)
Changes(i) ==
  /\ CreateIdentity(i) \/ \E to \in IdentityStates : MoveIdentity(i, to)
  /\ vault'[i] = identity'[i]

(* Incidents are about suspects; the other identities stay as they are.    *)
OthersStay == \A i \in Ids \ Suspects : identity'[i] = identity[i] /\ vault'[i] = vault[i]

(* Around the transactions passwords are tried as well, and the owners are *)
(* suspended and reactivated.                                              *)
AroundMfa ==
  \/ /\ \E i \in Claimants : CheckAllowed(i) \/ RecordFailure(i)
     /\ UNCHANGED <<identityVars, mfaVars>>
  \/ /\ \E i \in Claimants : Changes(i) /\ identity'[i] \in {"ACTIVE", "SUSPENDED"}
     /\ UNCHANGED <<attemptVars, mfaVars>>

(* The rights in two parts: roles and permission objects asked for a       *)
(* decision, and what is protected or set without being asked.             *)
RightsPart ==
  /\ \/ RightsNext /\ UNCHANGED identityVars
     \/ /\ \E i \in Claimants : Changes(i) \/ RemoveIdentity(i)
        /\ Undecided
  /\ service = "rights" => UNCHANGED <<protected, given>>
  /\ service = "protection" => UNCHANGED <<roleState, rolePerms, assignments>>

(* Alerts in two parts: how they are reported and what becomes of them,    *)
(* and the notifications about them, of alerts that are reported once and  *)
(* not escalated.                                                          *)
AlertPart ==
  /\ AlertNext
  /\ service = "reports" => asked' = 0 /\ providers' = 0
  /\ service = "notices" =>
       burst'.n = -1 /\ \A k \in DOMAIN alerts' : alerts'[k].level = 0 /\ alerts'[k].count = 1

beforeVars == <<sessionVars, attemptVars, mfaVars>>
afterVars == <<responseVars, alertVars, rightsVars, notificationVars>>

SecurityNext ==
  /\ UNCHANGED service
  /\ \/ /\ UNCHANGED <<keyVaultVars, incidentVars, dispatchVars, afterVars>>
        /\ \/ service = "sessions" /\ SessionNext /\ UNCHANGED <<attemptVars, mfaVars>>
           \/ service = "attempts" /\ AttemptNext /\ UNCHANGED <<sessionVars, mfaVars>>
           \/ /\ service = "mfa" /\ UNCHANGED <<sessions, proof, use, admitted, refused>>
              /\ MfaStep \/ MfaElapse \/ AroundMfa
     \/ service = "keys" /\ KeyVaultNext /\ UNCHANGED <<beforeVars, incidentVars, dispatchVars, afterVars>>
     \/ /\ service = "incidents" /\ IncidentNext /\ OthersStay
        /\ UNCHANGED <<sessions, proof, use, admitted, refused, attemptVars, mfaVars, keyVaultVars,
                       dispatchVars, afterVars>>
     \/ /\ service \in {"rights", "protection"} /\ RightsPart
        /\ UNCHANGED <<sessions, proof, use, admitted, refused, attemptVars, mfaVars, keyVaultVars,
                       incidentVars, dispatchVars, responseVars, alertVars, notificationVars>>
     \/ /\ UNCHANGED <<beforeVars, keyVaultVars, incidentVars>>
        /\ \/ service = "dispatch" /\ DispatchNext /\ UNCHANGED afterVars
           \/ service = "responses" /\ ResponseNext /\ UNCHANGED <<dispatchVars, alertVars, rightsVars, notificationVars>>
           \/ /\ service \in {"reports", "notices"} /\ AlertPart
              /\ UNCHANGED <<dispatchVars, responseVars, rightsVars, notificationVars>>
           \/ /\ service = "notification" /\ NotificationNext
              /\ UNCHANGED <<dispatchVars, responseVars, alertVars, rightsVars>>

SecuritySpec ==
  /\ SecurityInit
  /\ [][SecurityNext]_<<beforeVars, keyVaultVars, incidentVars, dispatchVars, afterVars, service>>

(* Who a caller is: what holds of sessions and the identities behind them, *)
(* of attempts to log in, and of the factors of an authentication.  And    *)
(* what it may do: what a role or an object grants now.                    *)
IdentitiesSafe == SessionsSafe /\ AttemptsSafe /\ MfaSafe /\ RightsSafe

(* Who is blocked stays so for the time it was blocked for, whatever else  *)
(* ends or is wiped meanwhile, and no factor of it is verified then.       *)
BlocksHold == BlockServed /\ BlockedNotVerified

(* What is done about an attack: what holds of incidents with the          *)
(* identities that they contain, and of the plans that respond to them.    *)
AnswersSafe == IncidentsSafe /\ ResponsesSafe

(* Who hears of it: what holds of alerts, and of the notifications that    *)
(* carry them out of the house or may not.                                 *)
NoticesSafe == AlertsSafe /\ NotificationsSafe
=============================================================================
