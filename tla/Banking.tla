------------------------------ MODULE Banking ------------------------------
(***************************************************************************)
(* The accounts table and the pure part of request handling               *)
(* (Project2/source/banking_aux.c, types.h, constants.h).  No VARIABLES:   *)
(* the modules that keep state apply these operators to theirs.            *)
(***************************************************************************)
EXTENDS Integers, Sequences, FiniteSets

CONSTANTS
    AccountIds,         \* the indices of accounts[], 0 .. MAX_BANK_ACCOUNTS - 1
    ADMIN_ACCOUNT_ID,
    Passwords, Salts,
    Pids,               \* process ids of users
    INT_LIMIT,          \* 2^31: an int is -INT_LIMIT .. INT_LIMIT - 1
    MIN_BALANCE, MAX_BALANCE

ASSUME AdminAssumption == ADMIN_ACCOUNT_ID \in AccountIds

\* generate_salt always has one to give.
ASSUME SaltsAssumption == Salts # {}

\* constants.h:5-6 with 32-bit balances: 1, 10^9 and 2^31.
ASSUME BalanceAssumption ==
    /\ INT_LIMIT \in Nat /\ MIN_BALANCE \in Nat /\ MAX_BALANCE \in Nat
    /\ 0 < MIN_BALANCE /\ MIN_BALANCE <= MAX_BALANCE
    /\ 2 * MAX_BALANCE < INT_LIMIT

-----------------------------------------------------------------------------
(* 32-bit arithmetic.  `wrap` brings back the sum or difference of two words. *)
Word == 0 .. 2 * INT_LIMIT - 1

wrap(n) == IF n < 0 THEN n + 2 * INT_LIMIT
           ELSE IF n >= 2 * INT_LIMIT THEN n - 2 * INT_LIMIT ELSE n

to_int(w) == IF w >= INT_LIMIT THEN w - 2 * INT_LIMIT ELSE w

-----------------------------------------------------------------------------
(* Messages.  `id` is the account_id of either arm of the request's union and  *)
(* `amount` the word that follows it (create.balance or transfer.amount); both *)
(* hold whatever was on the user's stack when the operation has no arguments.  *)
Operations == {"OP_CREATE_ACCOUNT", "OP_BALANCE", "OP_TRANSFER", "OP_SHUTDOWN",
               "__OP_MAX_NUMBER"}

RetCodes == {"RC_OK", "RC_SRV_DOWN", "RC_SRV_TIMEOUT", "RC_USR_DOWN", "RC_LOGIN_FAIL",
             "RC_OP_NALLOW", "RC_ID_IN_USE", "RC_ID_NOT_FOUND", "RC_SAME_ID",
             "RC_NO_FUNDS", "RC_TOO_HIGH", "RC_OTHER"}

Request == [type : Operations, pid : Pids, account_id : AccountIds,
            password : Passwords, id : AccountIds, amount : Word,
            new_password : Passwords]

\* `value` is the union of the reply: {} while nothing has been stored in it.
Reply == [type : Operations, account_id : AccountIds, ret_code : RetCodes,
          value : SUBSET Int]

-----------------------------------------------------------------------------
(* Accounts.  SHA-256 is taken as injective: a hash is the pair it is made of. *)
generate_sha256_hash(password, salt) == <<password, salt>>

NoHash == << >>

NoSalt == << >>

Account == [hash : (Passwords \X Salts) \cup {NoHash}, salt : Salts \cup {NoSalt},
            balance : Word, active : BOOLEAN]

EmptyAccount == [hash |-> NoHash, salt |-> NoSalt, balance |-> 0, active |-> FALSE]

is_active_account(acc, acc_id) == acc[acc_id].hash # NoHash

\* Slip: the salt is left out of the hash.
create_bank_account_unsalted(acc, acc_id, password, balance, salt) ==
    IF is_active_account(acc, acc_id) THEN acc
    ELSE [acc EXCEPT ![acc_id] = [hash    |-> <<password>>,
                                  salt    |-> salt,
                                  balance |-> balance,
                                  active  |-> TRUE]]

\* Slip: the salt is drawn into the account whose entry is logged, the administrator's.
create_bank_account_salts_admin(acc, acc_id, password, balance, salt) ==
    IF is_active_account(acc, acc_id) THEN acc
    ELSE [acc EXCEPT ![acc_id] = [hash    |-> generate_sha256_hash(password, salt),
                                  salt    |-> @.salt,
                                  balance |-> balance,
                                  active  |-> TRUE],
                     ![ADMIN_ACCOUNT_ID].salt = salt]

\* Without effect if there is such an account.
create_bank_account(acc, acc_id, password, balance, salt) ==
    IF is_active_account(acc, acc_id) THEN acc
    ELSE [acc EXCEPT ![acc_id] = [hash    |-> generate_sha256_hash(password, salt),
                                  salt    |-> salt,
                                  balance |-> balance,
                                  active  |-> TRUE]]

validate_bank_account(acc, request) ==
    LET account == acc[request.account_id] IN
    IF ~is_active_account(acc, request.account_id) THEN "RC_ID_NOT_FOUND"
    ELSE IF generate_sha256_hash(request.password, account.salt) # account.hash
         THEN "RC_LOGIN_FAIL"
         ELSE "RC_OK"

-----------------------------------------------------------------------------
(* build_tlv_reply: the code of each operation, its checks in the order of the *)
(* source, then the effect of the request on the table.  An operator marked    *)
(* `Slip:` is a mistaken form of the one after it, for the mutation runs.       *)
create_code(acc, request) ==
    IF request.account_id # ADMIN_ACCOUNT_ID THEN "RC_OP_NALLOW"
    ELSE IF is_active_account(acc, request.id) THEN "RC_ID_IN_USE"
    ELSE "RC_OK"

balance_code(acc, request) ==
    IF request.account_id = ADMIN_ACCOUNT_ID THEN "RC_OP_NALLOW"
    ELSE IF ~is_active_account(acc, request.id) THEN "RC_ID_NOT_FOUND"
    ELSE "RC_OK"

\* Slip: the administrator may be paid.
transfer_code_admin_payee(acc, request) ==
    LET source_balance == acc[request.account_id].balance
        dest_balance   == acc[request.id].balance
    IN  IF request.account_id = request.id THEN "RC_SAME_ID"
        ELSE IF request.account_id = ADMIN_ACCOUNT_ID THEN "RC_OP_NALLOW"
        ELSE IF ~is_active_account(acc, request.id) THEN "RC_ID_NOT_FOUND"
        ELSE IF to_int(wrap(source_balance - request.amount)) < MIN_BALANCE
             THEN "RC_NO_FUNDS"
        ELSE IF wrap(dest_balance + request.amount) > MAX_BALANCE THEN "RC_TOO_HIGH"
        ELSE "RC_OK"

\* Slip: the remaining funds compared as an unsigned word.
transfer_code_unsigned(acc, request) ==
    LET source_balance == acc[request.account_id].balance
        dest_balance   == acc[request.id].balance
    IN  IF request.account_id = request.id THEN "RC_SAME_ID"
        ELSE IF ADMIN_ACCOUNT_ID \in {request.account_id, request.id} THEN "RC_OP_NALLOW"
        ELSE IF ~is_active_account(acc, request.id) THEN "RC_ID_NOT_FOUND"
        ELSE IF wrap(source_balance - request.amount) < MIN_BALANCE THEN "RC_NO_FUNDS"
        ELSE IF wrap(dest_balance + request.amount) > MAX_BALANCE THEN "RC_TOO_HIGH"
        ELSE "RC_OK"

transfer_code(acc, request) ==
    LET source_balance == acc[request.account_id].balance
        dest_balance   == acc[request.id].balance
    IN  IF request.account_id = request.id THEN "RC_SAME_ID"
        ELSE IF ADMIN_ACCOUNT_ID \in {request.account_id, request.id} THEN "RC_OP_NALLOW"
        ELSE IF ~is_active_account(acc, request.id) THEN "RC_ID_NOT_FOUND"
        ELSE IF to_int(wrap(source_balance - request.amount)) < MIN_BALANCE
             THEN "RC_NO_FUNDS"
        ELSE IF wrap(dest_balance + request.amount) > MAX_BALANCE THEN "RC_TOO_HIGH"
        ELSE "RC_OK"

shutdown_code(request) ==
    IF request.account_id # ADMIN_ACCOUNT_ID THEN "RC_OP_NALLOW" ELSE "RC_OK"

operation_code(acc, request) ==
    CASE request.type = "OP_CREATE_ACCOUNT" -> create_code(acc, request)
      [] request.type = "OP_BALANCE"        -> balance_code(acc, request)
      [] request.type = "OP_TRANSFER"       -> transfer_code(acc, request)
      [] request.type = "OP_SHUTDOWN"       -> shutdown_code(request)
      [] OTHER                              -> "RC_OK"

reply_code(acc, request) ==
    LET login == validate_bank_account(acc, request)
    IN  IF login = "RC_OK" THEN operation_code(acc, request) ELSE login

credited(acc, request) ==
    [acc EXCEPT ![request.id].balance = wrap(@ + request.amount)]

debited(acc, request) ==
    [acc EXCEPT ![request.account_id].balance = wrap(@ - request.amount)]

\* What the reply's union holds when the request has been carried out, given the
\* table that results and the count of active offices read.
reply_value(acc, request, active) ==
    IF validate_bank_account(acc, request) # "RC_OK" THEN {}
    ELSE CASE request.type = "OP_TRANSFER" /\ transfer_code(acc, request) = "RC_OK"
                -> {debited(acc, request)[request.account_id].balance}
           [] request.type = "OP_TRANSFER" /\ transfer_code(acc, request) # "RC_OK"
                -> {request.amount}
           [] request.type = "OP_BALANCE" /\ balance_code(acc, request) = "RC_OK"
                -> {acc[request.account_id].balance}
           [] request.type = "OP_SHUTDOWN" /\ shutdown_code(request) = "RC_OK"
                -> {active}
           [] OTHER -> {}

build_tlv_reply(acc, request, active) ==
    [type       |-> request.type,
     account_id |-> request.account_id,
     ret_code   |-> reply_code(acc, request),
     value      |-> reply_value(acc, request, active)]

=============================================================================
