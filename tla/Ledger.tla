------------------------------- MODULE Ledger -------------------------------
(***************************************************************************)
(* The accounts table on its own: requests are carried out one after the   *)
(* other, each as a single step, by build_tlv_reply and                    *)
(* create_bank_account (Project2/source/banking_aux.c).  Whatever holds of *)
(* this state machine holds of the server too, once the server is shown to *)
(* change its table by these steps and no others (AtomicBank, BankSystem). *)
(***************************************************************************)
EXTENDS Banking

CONSTANTS
    Requests,           \* the requests users may send
    AdminPassword       \* argv[2] of the server

ASSUME RequestsAssumption == Requests \subseteq Request
ASSUME AdminPasswordAssumption == AdminPassword \in Passwords

VARIABLE accounts

\* Slip: the payee is never credited.
served_without_credit(acc, request, salt) ==
    CASE reply_code(acc, request) # "RC_OK" -> acc
      [] OTHER ->
         CASE request.type = "OP_CREATE_ACCOUNT" ->
                 create_bank_account(acc, request.id, request.new_password,
                                     request.amount, salt)
           [] request.type = "OP_TRANSFER" -> debited(acc, request)
           [] OTHER -> acc

\* The table after `request`, an OP_CREATE_ACCOUNT drawing `salt`.
served(acc, request, salt) ==
    CASE reply_code(acc, request) # "RC_OK" -> acc
      [] OTHER ->
         CASE request.type = "OP_CREATE_ACCOUNT" ->
                 create_bank_account(acc, request.id, request.new_password,
                                     request.amount, salt)
           [] request.type = "OP_TRANSFER" -> debited(credited(acc, request), request)
           [] OTHER -> acc

LedgerInit == accounts = [a \in AccountIds |-> EmptyAccount]

\* main creates the administrator's account.
OpenBank ==
    /\ ~is_active_account(accounts, ADMIN_ACCOUNT_ID)
    /\ \E salt \in Salts :
          accounts' = create_bank_account(accounts, ADMIN_ACCOUNT_ID, AdminPassword, 0, salt)

Perform(request) == \E salt \in Salts : accounts' = served(accounts, request, salt)

LedgerNext == OpenBank \/ \E request \in Requests : Perform(request)

LedgerSpec == LedgerInit /\ [][LedgerNext]_accounts

-----------------------------------------------------------------------------
(* Reference definitions: what types.h says of reply codes, whatever the order *)
(* of the checks in build_tlv_reply.                                           *)

\* The integer arguments a client is meant to give: a non-negative amount, and an
\* opening balance within the limits of constants.h.
LegalRequest(request) ==
    /\ request.amount < INT_LIMIT
    /\ request.type = "OP_CREATE_ACCOUNT" => request.amount \in MIN_BALANCE .. MAX_BALANCE

\* types.h:23-29, one field for each error: does it apply to the request?
applies(acc, request) ==
    LET transfer == request.type = "OP_TRANSFER"
        admin    == request.account_id = ADMIN_ACCOUNT_ID
        exists(a) == is_active_account(acc, a)
    IN [RC_LOGIN_FAIL   |-> \A salt \in Salts :
                               acc[request.account_id].hash # <<request.password, salt>>,
        RC_OP_NALLOW    |-> CASE request.type \in {"OP_CREATE_ACCOUNT", "OP_SHUTDOWN"} -> ~admin
                              [] request.type = "OP_BALANCE" -> admin
                              [] transfer -> admin \/ request.id = ADMIN_ACCOUNT_ID
                              [] OTHER -> FALSE,
        RC_ID_IN_USE    |-> request.type = "OP_CREATE_ACCOUNT" /\ exists(request.id),
        RC_ID_NOT_FOUND |-> ~exists(request.account_id) \/ (transfer /\ ~exists(request.id)),
        RC_SAME_ID      |-> transfer /\ request.account_id = request.id,
        RC_NO_FUNDS     |-> transfer /\ acc[request.account_id].balance - request.amount
                                           < MIN_BALANCE,
        RC_TOO_HIGH     |-> transfer /\ acc[request.id].balance + request.amount > MAX_BALANCE]

ErrorOrder == <<"RC_LOGIN_FAIL", "RC_OP_NALLOW", "RC_ID_IN_USE", "RC_ID_NOT_FOUND",
                "RC_SAME_ID", "RC_NO_FUNDS", "RC_TOO_HIGH">>

documented_code(acc, request) ==
    LET error(i) == applies(acc, request)[ErrorOrder[i]]
        errors   == {i \in DOMAIN ErrorOrder : error(i)}
    IN  IF errors = {} THEN "RC_OK"
        ELSE ErrorOrder[CHOOSE i \in errors : \A j \in errors : i <= j]

-----------------------------------------------------------------------------
(* Properties. *)

\* The table is made of accounts, in words: no balance leaves 0 .. 2^32 - 1
\* whatever the arguments of the requests (types.h:56-61).
LedgerTypeOK == accounts \in [AccountIds -> Account]

\* For every request a client may send against every table the bank can reach, the
\* code build_tlv_reply computes with its early breaks and 32-bit comparisons
\* (banking_aux.c:97-189) is the first error of types.h that applies, computed with
\* mathematical integers.  Excluded are three cases where code and comment part: a
\* header naming no account, for which line 35 comes before the login; OP_BALANCE with
\* a leftover id that names no account, which OwnerIsToldTheBalance is about; and the
\* administrator paying itself, where RC_SAME_ID comes before RC_OP_NALLOW (line 136).
CodeIsTheFirstError ==
    \A request \in Request :
        \/ ~LegalRequest(request)
        \/ ~is_active_account(accounts, request.account_id)
        \/ request.type = "OP_BALANCE" /\ ~is_active_account(accounts, request.id)
        \/ /\ request.type = "OP_TRANSFER"
           /\ request.account_id = request.id /\ request.id = ADMIN_ACCOUNT_ID
        \/ reply_code(accounts, request) = documented_code(accounts, request)

\* Every account but the administrator's stays between MIN_BALANCE and MAX_BALANCE
\* after any sequence of legal requests: what RC_NO_FUNDS and RC_TOO_HIGH are for
\* (types.h:28-29, checked at banking_aux.c:162-171).
BalancesWithinLimits ==
    \A a \in AccountIds \ {ADMIN_ACCOUNT_ID} :
        is_active_account(accounts, a) => accounts[a].balance \in MIN_BALANCE .. MAX_BALANCE

\* Money moves only between two existing accounts, and what one loses the other
\* gains, no other account being touched (banking_aux.c:173-174).
MoneyIsConserved ==
    [][ \A a \in AccountIds :
          (/\ is_active_account(accounts, a)
           /\ accounts'[a].balance # accounts[a].balance)
          => \E b \in AccountIds \ {a} :
                /\ is_active_account(accounts, b)
                /\ accounts'[a].balance + accounts'[b].balance
                     = accounts[a].balance + accounts[b].balance
                /\ \A c \in AccountIds \ {a, b} : accounts'[c] = accounts[c] ]_accounts

\* An account, once created, keeps its credentials: no request, not even an
\* OP_CREATE_ACCOUNT for the same id or another, replaces or removes them
\* (banking_aux.c:18-31, 109).
CredentialsAreKept ==
    [][ \A a \in AccountIds :
          is_active_account(accounts, a) =>
              /\ accounts'[a].hash = accounts[a].hash
              /\ accounts'[a].salt = accounts[a].salt ]_accounts

-----------------------------------------------------------------------------
(* Where the code and what is said of it part.  Refuted by a run.           *)

\* The comment at banking_aux.c:123: ID_NOT_FOUND is for an account that does not
\* exist, so the owner of an existing account who logs in is told the balance.  The
\* code tests create.account_id, which an OP_BALANCE request never sets.
OwnerIsToldTheBalance ==
    \A request \in Request :
        (/\ request.type = "OP_BALANCE" /\ request.account_id # ADMIN_ACCOUNT_ID
         /\ validate_bank_account(accounts, request) = "RC_OK")
            => reply_code(accounts, request) = "RC_OK"
=============================================================================
