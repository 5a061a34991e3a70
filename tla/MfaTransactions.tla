--------------------------- MODULE MfaTransactions ---------------------------
(***************************************************************************)
(* Multi-factor authentication (03_SECURITY/mfa.c): a transaction collects *)
(* the factors its policy asks for, within a time limit, and is completed  *)
(* when all are verified.  It asks the identity service about the owner    *)
(* when it starts, and the attempt control before every factor; policies   *)
(* are created, switched and deleted while transactions are under way.     *)
(***************************************************************************)
EXTENDS Identities, AttemptControl

CONSTANTS
  Policies,        \* policy identifiers
  MaxPolicies,     \* OZAYN_MFA_MAX_POLICIES
  FactorSets,      \* the factor lists a policy can have; their categories differ
  Implemented,     \* factor types with a provider (_factor_info)
  Confirmed,       \* factor types the authentication service confirms: PASSWORD,
                   \* if the service is configured
  MaxTransactions, \* OZAYN_MFA_MAX_TRANSACTIONS
  TxTimeout        \* policy.transaction_timeout_seconds, in units of time

ASSUME MfaAssumption ==
  /\ Claimants \subseteq Ids /\ Confirmed \subseteq Implemented
  /\ MaxPolicies \in Nat /\ MaxTransactions \in Nat /\ TxTimeout \in Nat \ {0}

VARIABLES
  policies, \* policies[p]: NoPolicy, or whether it is enabled and its factors
  txs       \* svc->transactions[0 .. transaction_count-1]; none is ever removed

mfaVars == <<policies, txs>>

Factors == UNION FactorSets
NoPolicy == [enabled |-> FALSE, factors |-> {"none"}]
PolicyKnown(p) == policies[p] # NoPolicy                       \* _find_policy
TxStates == {"NOT_STARTED", "IN_PROGRESS", "FACTOR_VERIFIED", "VERIFIED", "FAILED",
             "EXPIRED", "CANCELLED", "UNAVAILABLE"}
FactorStates == {"PENDING", "VERIFIED", "UNAVAILABLE"}
Tx == [owner : Claimants, policy : Policies, state : TxStates,
       factor : UNION {[F -> FactorStates] : F \in FactorSets},
       left : 0..TxTimeout]                               \* until expires_at

MfaInit == policies = [p \in Policies |-> NoPolicy] /\ txs = <<>>

(* ozayn_mfa_validate_tx_transition                                        *)
TxMoves ==
  {<<"NOT_STARTED", s>> : s \in {"IN_PROGRESS", "CANCELLED", "EXPIRED"}}
  \cup {<<"IN_PROGRESS", s>> : s \in {"FACTOR_VERIFIED", "FAILED", "EXPIRED",
                                      "CANCELLED", "UNAVAILABLE"}}
  \cup {<<"FACTOR_VERIFIED", s>> : s \in {"VERIFIED", "FAILED", "EXPIRED", "CANCELLED"}}
(* _tx_transition leaves the state alone when the table forbids the move.  *)
Move(tx, to) == IF <<tx.state, to>> \in TxMoves THEN [tx EXCEPT !.state = to] ELSE tx

(* ozayn_mfa_policy_create, _enable, _disable and _delete                  *)
CreatePolicy(p, F) ==
  /\ ~PolicyKnown(p) /\ Cardinality({q \in Policies : PolicyKnown(q)}) < MaxPolicies
  /\ policies' = [policies EXCEPT ![p] = [enabled |-> TRUE, factors |-> F]]
  /\ UNCHANGED txs
SwitchPolicy(p, on) ==
  /\ PolicyKnown(p) /\ policies' = [policies EXCEPT ![p].enabled = on] /\ UNCHANGED txs
DeletePolicy(p) ==
  /\ PolicyKnown(p) /\ policies' = [policies EXCEPT ![p] = NoPolicy] /\ UNCHANGED txs

(* ozayn_mfa_tx_cancel_by_identity                                         *)
Underway == {"NOT_STARTED", "IN_PROGRESS", "FACTOR_VERIFIED"}
CancelledOf(i) ==
  [t \in DOMAIN txs |-> IF txs[t].owner = i /\ txs[t].state \in Underway
                        THEN Move(txs[t], "CANCELLED") ELSE txs[t]]

(* ozayn_mfa_tx_create: the attempt control is asked before the table is   *)
(* found full, and the older transactions of the identity are cancelled.   *)
TableFull == Len(txs) >= MaxTransactions
CreateTx(i, p) ==
  /\ i \in Known /\ identity[i] \notin {"REVOKED", "SUSPENDED"}
  /\ PolicyKnown(p) /\ policies[p].enabled
  /\ attempts' = CheckedTable(i) /\ CleanupDone
  /\ txs' = IF ~AllowedNow(i) \/ TableFull THEN txs
            ELSE Append(CancelledOf(i),
                   [owner |-> i, policy |-> p, state |-> "NOT_STARTED", left |-> TxTimeout,
                    factor |-> [f \in policies[p].factors |-> "PENDING"]])
  /\ UNCHANGED <<policies, identityVars, trying, misses>>

(* ozayn_mfa_tx_cancel                                                     *)
CancelTx(t) ==
  /\ txs[t].state \in Underway
  /\ txs' = [txs EXCEPT ![t] = Move(@, "CANCELLED")]
  /\ UNCHANGED policies
CancelAllOf(i) == txs' = CancelledOf(i) /\ UNCHANGED policies

Closed == {"VERIFIED", "CANCELLED", "FAILED", "EXPIRED"}
Verified(tx) == Cardinality({f \in DOMAIN tx.factor : tx.factor[f] = "VERIFIED"})

(* A factor without a provider makes the transaction unavailable, if it    *)
(* had started; a factor with one starts it first.                         *)
Unprovided(tx, f) ==
  LET started == IF f \in Implemented THEN Move(tx, "IN_PROGRESS") ELSE tx
  IN Move([started EXCEPT !.factor[f] = "UNAVAILABLE"], "UNAVAILABLE")
(* A confirmed factor counts; the number is compared with that of the      *)
(* policy as it is now.                                                    *)
Provided(tx, f) ==
  LET v == [Move(tx, "IN_PROGRESS") EXCEPT !.factor[f] = "VERIFIED"]
  IN IF PolicyKnown(tx.policy) /\ Verified(v) >= Cardinality(policies[tx.policy].factors)
     THEN Move(v, "FACTOR_VERIFIED") ELSE v

(* ozayn_mfa_verify_factor.  The transaction must be open or unavailable;  *)
(* a confirmed factor also clears the failures of the identity.            *)
Presentable(t, f) == f \in DOMAIN txs[t].factor /\ txs[t].factor[f] # "VERIFIED"
VerifyFactor(t, f) ==
  LET i == txs[t].owner IN
  /\ txs[t].state \notin Closed
  /\ UNCHANGED <<policies, identityVars, trying>>
  /\ \/ /\ txs[t].left = 0
        /\ txs' = [txs EXCEPT ![t] = Move(@, "EXPIRED")]
        /\ UNCHANGED <<attempts, cleaned, misses>>
     \/ /\ txs[t].left > 0 /\ CleanupDone
        /\ ~AllowedNow(i) \/ ~Presentable(t, f)
        /\ attempts' = CheckedTable(i) /\ UNCHANGED <<txs, misses>>
     \/ /\ txs[t].left > 0 /\ CleanupDone
        /\ AllowedNow(i) /\ Presentable(t, f)
        /\ \/ /\ f \notin Confirmed
              /\ txs' = [txs EXCEPT ![t] = Unprovided(@, f)]
              /\ attempts' = CheckedTable(i) /\ UNCHANGED misses
           \/ /\ f \in Confirmed
              /\ txs' = [txs EXCEPT ![t] = Provided(@, f)]
              /\ attempts' = Forgiven(CheckedTable(i), i)
              /\ misses' = [misses EXCEPT ![i] = NoMisses]

(* ozayn_mfa_tx_complete: neither the owner nor the attempt control is     *)
(* asked again.                                                            *)
AllVerified(tx) == \A f \in DOMAIN tx.factor : tx.factor[f] = "VERIFIED"
CompleteTx(t) ==
  /\ UNCHANGED <<policies, identityVars, trying, cleaned>>
  /\ \/ /\ txs[t].left = 0
        /\ txs' = [txs EXCEPT ![t] = Move(@, "EXPIRED")]
        /\ UNCHANGED <<attempts, misses>>
     \/ /\ txs[t].left > 0
        /\ txs[t].state = "FACTOR_VERIFIED" /\ PolicyKnown(txs[t].policy) /\ AllVerified(txs[t])
        /\ txs' = [txs EXCEPT ![t] = Move(@, "VERIFIED")]
        /\ Forgive(txs[t].owner)

MfaStep ==
  \/ /\ UNCHANGED <<identityVars, attemptVars>>
     /\ \/ \E p \in Policies :
             \/ DeletePolicy(p)
             \/ \E F \in FactorSets : CreatePolicy(p, F)
             \/ \E on \in BOOLEAN : SwitchPolicy(p, on)
        \/ \E t \in DOMAIN txs : CancelTx(t)
        \/ \E i \in Claimants : CancelAllOf(i)
  \/ \E i \in Claimants, p \in Policies : CreateTx(i, p)
  \/ \E t \in DOMAIN txs : CompleteTx(t) \/ \E f \in Factors : VerifyFactor(t, f)

(* Time passes for the transactions and for the attempt control at once.   *)
MfaElapse ==
  /\ AttemptElapse
  /\ txs' = [t \in DOMAIN txs |-> [txs[t] EXCEPT !.left = IF @ = 0 THEN 0 ELSE @ - 1]]
  /\ UNCHANGED <<policies, identityVars>>

MfaTypeOK ==
  /\ IdentityTypeOK /\ AttemptTypeOK
  /\ policies \in [Policies -> [enabled : BOOLEAN, factors : FactorSets] \cup {NoPolicy}]
  /\ Cardinality({p \in Policies : PolicyKnown(p)}) <= MaxPolicies
  /\ txs \in Seq(Tx) /\ Len(txs) <= MaxTransactions

-----------------------------------------------------------------------------
(* A completed transaction has every factor it started with verified, even *)
(* when its policy was switched, or deleted and created anew with fewer    *)
(* factors, while it was under way (mfa.c:963).                            *)
CompletedHasAllFactors ==
  \A t \in DOMAIN txs : txs[t].state = "VERIFIED" =>
    \A f \in DOMAIN txs[t].factor : txs[t].factor[f] = "VERIFIED"

(* Only the newest transaction of an identity can still be completed       *)
(* (mfa.c:624).                                                            *)
NewestOnly ==
  \A t, u \in DOMAIN txs : t < u /\ txs[t].owner = txs[u].owner => txs[t].state \notin Underway

(* The transactions together, over policies that change and tables that    *)
(* fill up.                                                                *)
MfaSafe == MfaTypeOK /\ CompletedHasAllFactors /\ NewestOnly

(* While a block of the attempt control runs, no factor of the identity is *)
(* accepted, also of a transaction that was opened before the block        *)
(* (mfa.c:810).                                                            *)
BlockedNotVerified ==
  [][\A t \in DOMAIN txs, k \in DOMAIN attempts :
       Of(attempts[k], txs[t].owner) /\ attempts[k].state = "BLOCKED" /\ attempts[k].block > 0
         => \A f \in DOMAIN txs[t].factor :
              txs'[t].factor[f] = "VERIFIED" => txs[t].factor[f] = "VERIFIED"]_<<mfaVars>>
=============================================================================
