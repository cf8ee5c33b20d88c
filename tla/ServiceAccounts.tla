--------------------------- MODULE ServiceAccounts ---------------------------
(***************************************************************************)
(* Service accounts and their API keys (application/serviceaccount/        *)
(* usecase.go, adapter/out/db/serviceaccount_repository.go): what the      *)
(* administrators' requests do to them, statement by statement, and what   *)
(* makes a key good for a request.                                         *)
(* Names, the owner check of CreateAccount, times of use and the           *)
(* administrators' own permission are left out.                            *)
(***************************************************************************)
EXTENDS FiniteSets

CONSTANTS
    Accounts,
    Keys,
    Admins      \* the administrators' requests served at once

VARIABLES
    account,    \* service_accounts
    key,        \* service_account_keys
    job         \* an administrator's DeleteAccount or IssueKey

accountVars == <<account, key, job>>

NoKey == [of |-> "nobody"]
NoJob == [step |-> "none"]
KeyRows == [of : Accounts, revoked : BOOLEAN, expires : {"never", "later", "past"}]

AccountsInit ==
    /\ account = [a \in Accounts |-> "none"]
    /\ key = [k \in Keys |-> NoKey]
    /\ job = [d \in Admins |-> NoJob]

AccountsTypeOK ==
    /\ account \in [Accounts -> {"none", "active", "revoked"}]
    /\ key \in [Keys -> KeyRows \cup {NoKey}]
    /\ job \in [Admins -> {NoJob} \cup [step : {"revoke", "issue"}, of : Accounts]]

Issued == {k \in Keys : key[k] # NoKey}
Fresh == CHOOSE k \in Keys : k \notin Issued      \* a new uuid
KeysOf(a) == {k \in Issued : key[k].of = a}

-----------------------------------------------------------------------------

CreateAccount(a) ==
    /\ account[a] = "none"
    /\ account' = [account EXCEPT ![a] = "active"]
    /\ UNCHANGED <<key, job>>

\* DeleteAccount: the account, unless it was revoked before (ErrNotFound) ...
RevokeAccount(d, a) ==
    /\ job[d] = NoJob /\ account[a] = "active"
    /\ account' = [account EXCEPT ![a] = "revoked"]
    /\ job' = [job EXCEPT ![d] = [step |-> "revoke", of |-> a]]
    /\ UNCHANGED key

\* ... and then its keys.
RevokeKeysByAccount(d) ==
    /\ job[d].step = "revoke"
    /\ key' = [k \in Keys |-> IF k \in KeysOf(job[d].of) THEN [key[k] EXCEPT !.revoked = TRUE] ELSE key[k]]
    /\ job' = [job EXCEPT ![d] = NoJob]
    /\ UNCHANGED account

\* IssueKey: the account is looked up, ...
FindAccount(d, a) ==
    /\ job[d] = NoJob /\ account[a] = "active"
    /\ job' = [job EXCEPT ![d] = [step |-> "issue", of |-> a]]
    /\ UNCHANGED <<account, key>>

\* ... and the key saved for it, whatever became of it since.
SaveKey(d, expires) ==
    /\ job[d].step = "issue" /\ Issued # Keys
    /\ key' = [key EXCEPT ![Fresh] = [of |-> job[d].of, revoked |-> FALSE, expires |-> expires]]
    /\ job' = [job EXCEPT ![d] = NoJob]
    /\ UNCHANGED account

\* The second statement fails; for DeleteAccount, trying again then finds no account.
JobFails(d) ==
    /\ job[d] # NoJob
    /\ job' = [job EXCEPT ![d] = NoJob]
    /\ UNCHANGED <<account, key>>

RevokeKey(k) ==
    /\ k \in Issued /\ ~key[k].revoked
    /\ key' = [key EXCEPT ![k].revoked = TRUE]
    /\ UNCHANGED <<account, job>>

\* Time passes the key's limit.
Expire(k) ==
    /\ k \in Issued /\ key[k].expires = "later"
    /\ key' = [key EXCEPT ![k].expires = "past"]
    /\ UNCHANGED <<account, job>>

-----------------------------------------------------------------------------

IsUsable(k) == k \in Issued /\ ~key[k].revoked /\ key[k].expires # "past"

\* With a fault: DeleteAccount is trusted to have revoked every key.
AuthenticateByKey(a) == \E k \in KeysOf(a) : IsUsable(k)

\* A request of account a gets past Secured: the key and its account are read in one query.
Authenticate(a) == \E k \in KeysOf(a) : IsUsable(k) /\ account[key[k].of] # "revoked"
=============================================================================
