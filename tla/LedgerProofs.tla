---------------------------- MODULE LedgerProofs ----------------------------
(* What holds of the accounts table for every size of table, word and limit. *)
EXTENDS Ledger, BankingProofs

-----------------------------------------------------------------------------
(* 32-bit arithmetic. *)

\* The comparisons of banking_aux.c:162-168, made on words, say what they seem to
\* when both balances are within the limits and the amount is a non-negative int.
LEMMA FundsComparison ==
    ASSUME NEW source \in 0 .. MAX_BALANCE, NEW amount \in 0 .. INT_LIMIT - 1,
           ~(to_int(wrap(source - amount)) < MIN_BALANCE)
    PROVE  source - amount >= MIN_BALANCE /\ wrap(source - amount) = source - amount
BY BalanceAssumption DEF wrap, to_int

\* The same of the room left on the payee's account (banking_aux.c:168).
LEMMA RoomComparison ==
    ASSUME NEW dest \in 0 .. MAX_BALANCE, NEW amount \in 0 .. INT_LIMIT - 1,
           ~(wrap(dest + amount) > MAX_BALANCE)
    PROVE  dest + amount <= MAX_BALANCE /\ wrap(dest + amount) = dest + amount
BY BalanceAssumption DEF wrap

-----------------------------------------------------------------------------
(* The operators on the table. *)

\* A request that is served leaves a table of the same type.
LEMMA ServedType ==
    ASSUME NEW acc \in [AccountIds -> Account], NEW r \in Requests, NEW salt \in Salts
    PROVE  served(acc, r, salt) \in [AccountIds -> Account]
<1>1. r \in Request
  BY RequestsAssumption
<1>2. create_bank_account(acc, r.id, r.new_password, r.amount, salt)
        \in [AccountIds -> Account]
  BY <1>1, CreatedType DEF Request
<1>3. debited(credited(acc, r), r) \in [AccountIds -> Account]
  BY <1>1, CreditedType, DebitedType
<1>. QED
  BY <1>2, <1>3 DEF served

\* Accounts are words and flags in every state (types.h:56-61, the run `ledger`).
THEOREM LedgerIsTyped == LedgerSpec => []LedgerTypeOK
<1>1. LedgerInit => LedgerTypeOK
  BY BalanceAssumption DEF LedgerInit, LedgerTypeOK, EmptyAccount, Account, Word
<1>2. LedgerTypeOK /\ [LedgerNext]_accounts => LedgerTypeOK'
  <2>. SUFFICES ASSUME LedgerTypeOK, [LedgerNext]_accounts
                PROVE  LedgerTypeOK'
    OBVIOUS
  <2>1. CASE OpenBank
    <3>1. 0 \in Word
      BY BalanceAssumption DEF Word
    <3>. QED
      BY <2>1, <3>1, CreatedType, AdminAssumption, AdminPasswordAssumption
      DEF OpenBank, LedgerTypeOK
  <2>2. ASSUME NEW r \in Requests, Perform(r)
        PROVE  LedgerTypeOK'
    BY <2>2, ServedType DEF Perform, LedgerTypeOK
  <2>3. CASE UNCHANGED accounts
    BY <2>3 DEF LedgerTypeOK
  <2>. QED
    BY <2>1, <2>2, <2>3 DEF LedgerNext
<1>. QED
  BY <1>1, <1>2, PTL DEF LedgerSpec

-----------------------------------------------------------------------------
(* The limits. *)

\* A transfer answered RC_OK is between two different accounts that exist, neither
\* the administrator's (banking_aux.c:136-155).
LEMMA TransferParties ==
    ASSUME NEW acc, NEW r, transfer_code(acc, r) = "RC_OK"
    PROVE  /\ r.account_id # r.id
           /\ r.account_id # ADMIN_ACCOUNT_ID /\ r.id # ADMIN_ACCOUNT_ID
           /\ is_active_account(acc, r.id)
           /\ ~(to_int(wrap(acc[r.account_id].balance - r.amount)) < MIN_BALANCE)
           /\ ~(wrap(acc[r.id].balance + r.amount) > MAX_BALANCE)
BY DEF transfer_code

\* Any request answered RC_OK comes from an account that exists.
LEMMA LoginExists ==
    ASSUME NEW acc, NEW r, reply_code(acc, r) = "RC_OK"
    PROVE  is_active_account(acc, r.account_id) /\ operation_code(acc, r) = "RC_OK"
BY DEF reply_code, validate_bank_account

Within(acc) ==
    \A a \in AccountIds \ {ADMIN_ACCOUNT_ID} :
        is_active_account(acc, a) => acc[a].balance \in MIN_BALANCE .. MAX_BALANCE

\* What a legal transfer does to the table: two balances, in plain arithmetic.
LEMMA TransferEffect ==
    ASSUME NEW acc \in [AccountIds -> Account], Within(acc),
           NEW r \in Request, LegalRequest(r),
           r.type = "OP_TRANSFER", reply_code(acc, r) = "RC_OK"
    PROVE  LET to == acc[r.id].balance + r.amount
               from == acc[r.account_id].balance - r.amount
           IN /\ to \in MIN_BALANCE .. MAX_BALANCE /\ from \in MIN_BALANCE .. MAX_BALANCE
              /\ debited(credited(acc, r), r) =
                   [acc EXCEPT ![r.id].balance = to, ![r.account_id].balance = from]
<1>1. /\ r.id \in AccountIds /\ r.account_id \in AccountIds
      /\ r.amount \in 0 .. INT_LIMIT - 1
  BY BalanceAssumption DEF Request, LegalRequest, Word
<1>2. is_active_account(acc, r.account_id) /\ transfer_code(acc, r) = "RC_OK"
  BY LoginExists DEF operation_code
<1>3. /\ r.account_id # r.id
      /\ acc[r.account_id].balance \in MIN_BALANCE .. MAX_BALANCE
      /\ acc[r.id].balance \in MIN_BALANCE .. MAX_BALANCE
  BY <1>1, <1>2, TransferParties DEF Within
<1>4. /\ acc[r.account_id].balance - r.amount >= MIN_BALANCE
      /\ wrap(acc[r.account_id].balance - r.amount) = acc[r.account_id].balance - r.amount
  BY <1>1, <1>2, <1>3, TransferParties, FundsComparison, BalanceAssumption
<1>5. /\ acc[r.id].balance + r.amount <= MAX_BALANCE
      /\ wrap(acc[r.id].balance + r.amount) = acc[r.id].balance + r.amount
  BY <1>1, <1>2, <1>3, TransferParties, RoomComparison, BalanceAssumption
<1>6. debited(credited(acc, r), r) =
        [acc EXCEPT ![r.id].balance = acc[r.id].balance + r.amount,
                    ![r.account_id].balance = acc[r.account_id].balance - r.amount]
  BY <1>1, <1>3, <1>4, <1>5 DEF debited, credited, Account
<1>. QED
  BY <1>1, <1>3, <1>4, <1>5, <1>6, BalanceAssumption

\* A legal request leaves every balance within the limits.
LEMMA ServedWithin ==
    ASSUME NEW acc \in [AccountIds -> Account], Within(acc),
           NEW r \in Request, LegalRequest(r), NEW salt \in Salts
    PROVE  Within(served(acc, r, salt))
<1>1. CASE reply_code(acc, r) # "RC_OK"
  BY <1>1 DEF served
<1>2. CASE reply_code(acc, r) = "RC_OK" /\ r.type = "OP_CREATE_ACCOUNT"
  BY <1>2 DEF served, Within, LegalRequest, Request, create_bank_account, is_active_account
<1>3. CASE reply_code(acc, r) = "RC_OK" /\ r.type = "OP_TRANSFER"
  <2>1. served(acc, r, salt) = debited(credited(acc, r), r)
    BY <1>3 DEF served
  <2>. DEFINE to == acc[r.id].balance + r.amount
              from == acc[r.account_id].balance - r.amount
  <2>2. /\ to \in MIN_BALANCE .. MAX_BALANCE /\ from \in MIN_BALANCE .. MAX_BALANCE
        /\ served(acc, r, salt) =
             [acc EXCEPT ![r.id].balance = to, ![r.account_id].balance = from]
    BY <1>3, <2>1, TransferEffect
  <2>3. r.id \in AccountIds /\ r.account_id \in AccountIds
    BY DEF Request
  <2>. HIDE DEF to, from
  <2>. QED
    BY <2>2, <2>3 DEF Within, is_active_account, Account
<1>4. CASE reply_code(acc, r) = "RC_OK" /\ r.type \notin {"OP_CREATE_ACCOUNT", "OP_TRANSFER"}
  BY <1>4 DEF served
<1>. QED
  BY <1>1, <1>2, <1>3, <1>4

\* With legal requests every account made stays within MIN_BALANCE and MAX_BALANCE
\* (types.h:28-29, banking_aux.c:162-171), whatever the word and the limits.
THEOREM LimitsAreKept ==
    ASSUME \A r \in Requests : LegalRequest(r)
    PROVE  LedgerSpec => []BalancesWithinLimits
<1>1. LedgerInit => BalancesWithinLimits
  BY DEF LedgerInit, BalancesWithinLimits, EmptyAccount, is_active_account
<1>2. LedgerTypeOK /\ BalancesWithinLimits /\ [LedgerNext]_accounts => BalancesWithinLimits'
  <2>. SUFFICES ASSUME LedgerTypeOK, BalancesWithinLimits, [LedgerNext]_accounts
                PROVE  BalancesWithinLimits'
    OBVIOUS
  <2>1. CASE OpenBank
    BY <2>1, AdminAssumption
    DEF OpenBank, BalancesWithinLimits, create_bank_account, is_active_account, LedgerTypeOK
  <2>2. ASSUME NEW r \in Requests, Perform(r)
        PROVE  BalancesWithinLimits'
    <3>1. r \in Request /\ LegalRequest(r) /\ Within(accounts)
      BY RequestsAssumption DEF BalancesWithinLimits, Within
    <3>2. PICK salt \in Salts : accounts' = served(accounts, r, salt)
      BY <2>2 DEF Perform
    <3>3. Within(served(accounts, r, salt))
      BY <3>1, ServedWithin DEF LedgerTypeOK
    <3>. QED
      BY <3>2, <3>3 DEF Within, BalancesWithinLimits
  <2>3. CASE UNCHANGED accounts
    BY <2>3 DEF BalancesWithinLimits, is_active_account
  <2>. QED
    BY <2>1, <2>2, <2>3 DEF LedgerNext
<1>. QED
  BY <1>1, <1>2, LedgerIsTyped, PTL DEF LedgerSpec

-----------------------------------------------------------------------------
(* What no step does. *)

\* Nothing replaces the credentials of an account (banking_aux.c:21, 109).
THEOREM CredentialsStay == LedgerSpec => CredentialsAreKept
<1>. DEFINE Kept == \A a \in AccountIds : is_active_account(accounts, a) =>
                       /\ accounts'[a].hash = accounts[a].hash
                       /\ accounts'[a].salt = accounts[a].salt
<1>1. LedgerTypeOK /\ [LedgerNext]_accounts => [Kept]_accounts
  <2>. SUFFICES ASSUME LedgerTypeOK, LedgerNext
                PROVE  Kept
    OBVIOUS
  <2>1. CASE OpenBank
    BY <2>1, AdminAssumption
    DEF OpenBank, create_bank_account, is_active_account, LedgerTypeOK
  <2>2. ASSUME NEW r \in Requests, Perform(r)
        PROVE  Kept
    <3>1. r \in Request
      BY RequestsAssumption
    <3>2. PICK salt \in Salts : accounts' = served(accounts, r, salt)
      BY <2>2 DEF Perform
    <3>3. CASE reply_code(accounts, r) # "RC_OK"
               \/ r.type \notin {"OP_CREATE_ACCOUNT", "OP_TRANSFER"}
      BY <3>2, <3>3 DEF served
    <3>4. CASE reply_code(accounts, r) = "RC_OK" /\ r.type = "OP_CREATE_ACCOUNT"
      <4>1. ~is_active_account(accounts, r.id)
        BY <3>4, LoginExists DEF operation_code, create_code
      <4>. QED
        BY <3>1, <3>2, <3>4, <4>1
        DEF served, create_bank_account, Request, LedgerTypeOK
    <3>5. CASE reply_code(accounts, r) = "RC_OK" /\ r.type = "OP_TRANSFER"
      BY <3>1, <3>2, <3>5 DEF served, credited, debited, Request, LedgerTypeOK, Account
    <3>. QED
      BY <3>3, <3>4, <3>5
  <2>. QED
    BY <2>1, <2>2 DEF LedgerNext
<1>. QED
  BY <1>1, LedgerIsTyped, PTL DEF LedgerSpec, CredentialsAreKept

\* Between accounts that exist money only moves: what one loses another gains and no
\* third one is touched (banking_aux.c:173-174).
THEOREM MoneyMoves ==
    ASSUME \A r \in Requests : LegalRequest(r)
    PROVE  LedgerSpec => MoneyIsConserved
<1>. DEFINE Moved(a, b) ==
               /\ is_active_account(accounts, b)
               /\ accounts'[a].balance + accounts'[b].balance
                    = accounts[a].balance + accounts[b].balance
               /\ \A c \in AccountIds \ {a, b} : accounts'[c] = accounts[c]
            Changed(a) == /\ is_active_account(accounts, a)
                          /\ accounts'[a].balance # accounts[a].balance
            Conserved == \A a \in AccountIds :
                            Changed(a) => \E b \in AccountIds \ {a} : Moved(a, b)
<1>1. LedgerTypeOK /\ BalancesWithinLimits /\ [LedgerNext]_accounts => [Conserved]_accounts
  <2>. SUFFICES ASSUME LedgerTypeOK, BalancesWithinLimits, LedgerNext
                PROVE  Conserved
    OBVIOUS
  <2>1. CASE OpenBank
    BY <2>1, AdminAssumption
    DEF OpenBank, create_bank_account, is_active_account, LedgerTypeOK
  <2>2. ASSUME NEW r \in Requests, Perform(r)
        PROVE  Conserved
    <3>1. r \in Request /\ LegalRequest(r) /\ Within(accounts)
      BY RequestsAssumption DEF BalancesWithinLimits, Within
    <3>2. PICK salt \in Salts : accounts' = served(accounts, r, salt)
      BY <2>2 DEF Perform
    <3>3. CASE reply_code(accounts, r) # "RC_OK"
               \/ r.type \notin {"OP_CREATE_ACCOUNT", "OP_TRANSFER"}
      BY <3>2, <3>3 DEF served
    <3>4. CASE reply_code(accounts, r) = "RC_OK" /\ r.type = "OP_CREATE_ACCOUNT"
      <4>1. ~is_active_account(accounts, r.id)
        BY <3>4, LoginExists DEF operation_code, create_code
      <4>. QED
        BY <3>1, <3>2, <3>4, <4>1
        DEF served, create_bank_account, Request, LedgerTypeOK
    <3>5. CASE reply_code(accounts, r) = "RC_OK" /\ r.type = "OP_TRANSFER"
      <4>. DEFINE to == accounts[r.id].balance + r.amount
                  from == accounts[r.account_id].balance - r.amount
      <4>1. accounts' = [accounts EXCEPT ![r.id].balance = to, ![r.account_id].balance = from]
        BY <3>1, <3>2, <3>5, TransferEffect DEF served, LedgerTypeOK
      <4>2. /\ r.id \in AccountIds /\ r.account_id \in AccountIds /\ r.account_id # r.id
            /\ is_active_account(accounts, r.id) /\ is_active_account(accounts, r.account_id)
        BY <3>1, <3>5, LoginExists, TransferParties DEF operation_code, Request
      <4>3. /\ accounts[r.id].balance \in Int /\ accounts[r.account_id].balance \in Int
            /\ r.amount \in Int
        BY <3>1, <4>2, BalanceAssumption DEF LedgerTypeOK, Account, Request, Word
      <4>4. /\ accounts'[r.id].balance = to /\ accounts'[r.account_id].balance = from
            /\ \A c \in AccountIds \ {r.id, r.account_id} : accounts'[c] = accounts[c]
        BY <4>1, <4>2 DEF LedgerTypeOK, Account
      <4>5. Moved(r.id, r.account_id) /\ Moved(r.account_id, r.id)
        BY <4>2, <4>3, <4>4
      <4>6. \A a \in AccountIds : Changed(a) => a \in {r.id, r.account_id}
        BY <4>4
      <4>. QED
        BY <4>2, <4>5, <4>6
    <3>. QED
      BY <3>3, <3>4, <3>5
  <2>. QED
    BY <2>1, <2>2 DEF LedgerNext
<1>. QED
  BY <1>1, LedgerIsTyped, LimitsAreKept, PTL DEF LedgerSpec, MoneyIsConserved

-----------------------------------------------------------------------------
(* The codes. *)

\* The comparisons tell exactly when there are funds and room.
LEMMA FundsIff ==
    ASSUME NEW source \in 0 .. MAX_BALANCE, NEW amount \in 0 .. INT_LIMIT - 1
    PROVE  to_int(wrap(source - amount)) < MIN_BALANCE <=> source - amount < MIN_BALANCE
BY BalanceAssumption DEF wrap, to_int

\* The same of the comparison with MAX_BALANCE.
LEMMA RoomIff ==
    ASSUME NEW dest \in 0 .. MAX_BALANCE, NEW amount \in 0 .. INT_LIMIT - 1
    PROVE  wrap(dest + amount) > MAX_BALANCE <=> dest + amount > MAX_BALANCE
BY BalanceAssumption DEF wrap

\* When each error of types.h applies.
LEMMA Errors ==
    ASSUME NEW acc, NEW r, NEW E, E = applies(acc, r)
    PROVE  /\ E["RC_LOGIN_FAIL"] <=> \A salt \in Salts : acc[r.account_id].hash # <<r.password, salt>>
           /\ E["RC_OP_NALLOW"] <=>
                 \/ r.type \in {"OP_CREATE_ACCOUNT", "OP_SHUTDOWN"} /\ r.account_id # ADMIN_ACCOUNT_ID
                 \/ r.type = "OP_BALANCE" /\ r.account_id = ADMIN_ACCOUNT_ID
                 \/ r.type = "OP_TRANSFER" /\ ADMIN_ACCOUNT_ID \in {r.account_id, r.id}
           /\ E["RC_ID_IN_USE"] <=> r.type = "OP_CREATE_ACCOUNT" /\ is_active_account(acc, r.id)
           /\ E["RC_ID_NOT_FOUND"] <=>
                 \/ ~is_active_account(acc, r.account_id)
                 \/ r.type = "OP_TRANSFER" /\ ~is_active_account(acc, r.id)
           /\ E["RC_SAME_ID"] <=> r.type = "OP_TRANSFER" /\ r.account_id = r.id
           /\ E["RC_NO_FUNDS"] <=> r.type = "OP_TRANSFER" /\ acc[r.account_id].balance - r.amount
                                                              < MIN_BALANCE
           /\ E["RC_TOO_HIGH"] <=> r.type = "OP_TRANSFER" /\ acc[r.id].balance + r.amount
                                                              > MAX_BALANCE
BY DEF applies

\* The first error that applies is the documented code.
LEMMA FirstError ==
    ASSUME NEW acc, NEW r, NEW i \in 1 .. 7, applies(acc, r)[ErrorOrder[i]],
           \A j \in 1 .. i - 1 : ~applies(acc, r)[ErrorOrder[j]]
    PROVE  documented_code(acc, r) = ErrorOrder[i]
<1>. DEFINE errors == {k \in DOMAIN ErrorOrder : applies(acc, r)[ErrorOrder[k]]}
<1>1. DOMAIN ErrorOrder = 1 .. 7
  BY DEF ErrorOrder
<1>2. i \in errors /\ \A j \in errors : i <= j
  BY <1>1
<1>3. (CHOOSE k \in errors : \A j \in errors : k <= j) = i
  BY <1>1, <1>2
<1>4. errors # {}
  BY <1>2
<1>. QED
  BY <1>3, <1>4 DEF documented_code

\* Spelt out, error by error in the order of types.h.
LEMMA DocumentedCode ==
    ASSUME NEW acc, NEW r, NEW E, E = applies(acc, r)
    PROVE  documented_code(acc, r) =
             IF E["RC_LOGIN_FAIL"] THEN "RC_LOGIN_FAIL"
             ELSE IF E["RC_OP_NALLOW"] THEN "RC_OP_NALLOW"
             ELSE IF E["RC_ID_IN_USE"] THEN "RC_ID_IN_USE"
             ELSE IF E["RC_ID_NOT_FOUND"] THEN "RC_ID_NOT_FOUND"
             ELSE IF E["RC_SAME_ID"] THEN "RC_SAME_ID"
             ELSE IF E["RC_NO_FUNDS"] THEN "RC_NO_FUNDS"
             ELSE IF E["RC_TOO_HIGH"] THEN "RC_TOO_HIGH"
             ELSE "RC_OK"
<1>1. /\ ErrorOrder[1] = "RC_LOGIN_FAIL" /\ ErrorOrder[2] = "RC_OP_NALLOW"
      /\ ErrorOrder[3] = "RC_ID_IN_USE" /\ ErrorOrder[4] = "RC_ID_NOT_FOUND"
      /\ ErrorOrder[5] = "RC_SAME_ID" /\ ErrorOrder[6] = "RC_NO_FUNDS"
      /\ ErrorOrder[7] = "RC_TOO_HIGH" /\ DOMAIN ErrorOrder = 1 .. 7
  BY DEF ErrorOrder
<1>2. CASE \A i \in 1 .. 7 : ~applies(acc, r)[ErrorOrder[i]]
  <2>1. documented_code(acc, r) = "RC_OK"
    BY <1>1, <1>2 DEF documented_code
  <2>. QED
    BY <1>1, <1>2, <2>1
<1>3. CASE \E i \in 1 .. 7 : applies(acc, r)[ErrorOrder[i]]
  <2>1. PICK i \in 1 .. 7 : /\ applies(acc, r)[ErrorOrder[i]]
                            /\ \A j \in 1 .. i - 1 : ~applies(acc, r)[ErrorOrder[j]]
    BY <1>3
  <2>2. documented_code(acc, r) = ErrorOrder[i]
    BY <2>1, FirstError
  <2>. QED
    BY <1>1, <2>1, <2>2
<1>. QED
  BY <1>2, <1>3

\* An account that exists keeps the salt it was hashed with.
Salted(acc) ==
    \A a \in AccountIds : is_active_account(acc, a) =>
        /\ acc[a].salt \in Salts
        /\ \E password \in Passwords : acc[a].hash = <<password, acc[a].salt>>

\* The login succeeds with the password the account was made with, and no other.
LEMMA LoginIff ==
    ASSUME NEW acc, Salted(acc), NEW r \in Request, is_active_account(acc, r.account_id)
    PROVE  validate_bank_account(acc, r) =
             IF applies(acc, r)["RC_LOGIN_FAIL"] THEN "RC_LOGIN_FAIL" ELSE "RC_OK"
<1>1. r.account_id \in AccountIds
  BY DEF Request
<1>2. PICK password : acc[r.account_id].hash = <<password, acc[r.account_id].salt>>
  BY <1>1 DEF Salted
<1>3. applies(acc, r)["RC_LOGIN_FAIL"] <=> <<r.password, acc[r.account_id].salt>> # acc[r.account_id].hash
  BY <1>1, <1>2, Errors DEF Salted
<1>. QED
  BY <1>3 DEF validate_bank_account, generate_sha256_hash

\* Requests do not take the salt away.
LEMMA ServedSalted ==
    ASSUME NEW acc \in [AccountIds -> Account], Salted(acc), NEW r \in Request, NEW salt \in Salts
    PROVE  Salted(served(acc, r, salt))
<1>1. ASSUME NEW a \in AccountIds, NEW q \in Passwords, NEW n
      PROVE  Salted(create_bank_account(acc, a, q, n, salt))
  BY DEF Salted, create_bank_account, generate_sha256_hash, is_active_account
<1>2. Salted(debited(credited(acc, r), r))
  <2>1. \A a \in AccountIds : /\ debited(credited(acc, r), r)[a].hash = acc[a].hash
                              /\ debited(credited(acc, r), r)[a].salt = acc[a].salt
    BY DEF debited, credited, Request, Account
  <2>. QED
    BY <2>1 DEF Salted, is_active_account
<1>3. r.id \in AccountIds /\ r.new_password \in Passwords
  BY DEF Request
<1>. QED
  BY <1>1, <1>2, <1>3 DEF served

\* With balances within the limits, build_tlv_reply's answer to a legal request is the
\* first error that applies.
LEMMA CodeIsFirst ==
    ASSUME NEW acc \in [AccountIds -> Account], Salted(acc), Within(acc),
           NEW r \in Request, LegalRequest(r), is_active_account(acc, r.account_id),
           r.type = "OP_BALANCE" => is_active_account(acc, r.id),
           ~(r.type = "OP_TRANSFER" /\ r.account_id = r.id /\ r.id = ADMIN_ACCOUNT_ID)
    PROVE  reply_code(acc, r) = documented_code(acc, r)
<1>. DEFINE E == applies(acc, r)
<1>1. CASE E["RC_LOGIN_FAIL"]
  BY <1>1, LoginIff, DocumentedCode DEF reply_code
<1>2. CASE ~E["RC_LOGIN_FAIL"]
  <2>1. reply_code(acc, r) = operation_code(acc, r)
    BY <1>2, LoginIff DEF reply_code
  <2>2. CASE r.type = "OP_CREATE_ACCOUNT"
    BY <1>2, <2>1, <2>2, Errors, DocumentedCode DEF operation_code, create_code
  <2>3. CASE r.type = "OP_BALANCE"
    BY <1>2, <2>1, <2>3, Errors, DocumentedCode DEF operation_code, balance_code
  <2>4. CASE r.type = "OP_TRANSFER"
    <3>1. /\ r.id \in AccountIds /\ r.account_id \in AccountIds
          /\ r.amount \in 0 .. INT_LIMIT - 1
      BY BalanceAssumption DEF Request, LegalRequest, Word
    <3>2. operation_code(acc, r) = transfer_code(acc, r)
      BY <2>4 DEF operation_code
    <3>3. CASE r.account_id = r.id \/ ADMIN_ACCOUNT_ID \in {r.account_id, r.id}
               \/ ~is_active_account(acc, r.id)
      BY <1>2, <2>1, <2>4, <3>2, <3>3, Errors, DocumentedCode DEF transfer_code
    <3>4. CASE /\ r.account_id # r.id /\ ADMIN_ACCOUNT_ID \notin {r.account_id, r.id}
               /\ is_active_account(acc, r.id)
      <4>1. /\ acc[r.account_id].balance \in 0 .. MAX_BALANCE
            /\ acc[r.id].balance \in 0 .. MAX_BALANCE
        BY <3>1, <3>4, BalanceAssumption DEF Within
      <4>2. /\ to_int(wrap(acc[r.account_id].balance - r.amount)) < MIN_BALANCE
                 <=> E["RC_NO_FUNDS"]
            /\ wrap(acc[r.id].balance + r.amount) > MAX_BALANCE <=> E["RC_TOO_HIGH"]
        BY <2>4, <3>1, <4>1, FundsIff, RoomIff, Errors
      <4>3. ~E["RC_OP_NALLOW"] /\ ~E["RC_ID_IN_USE"] /\ ~E["RC_ID_NOT_FOUND"] /\ ~E["RC_SAME_ID"]
        BY <2>4, <3>4, Errors
      <4>. QED
        BY <1>2, <2>1, <3>2, <3>4, <4>2, <4>3, DocumentedCode DEF transfer_code
    <3>. QED
      BY <3>3, <3>4
  <2>5. CASE r.type = "OP_SHUTDOWN"
    BY <1>2, <2>1, <2>5, Errors, DocumentedCode DEF operation_code, shutdown_code
  <2>6. CASE r.type \notin {"OP_CREATE_ACCOUNT", "OP_BALANCE", "OP_TRANSFER", "OP_SHUTDOWN"}
    BY <1>2, <2>1, <2>6, Errors, DocumentedCode DEF operation_code
  <2>. QED
    BY <2>2, <2>3, <2>4, <2>5, <2>6
<1>. QED
  BY <1>1, <1>2

\* The code build_tlv_reply computes with early breaks and words is, for every legal
\* request and every table the bank can reach, the first error of types.h that applies
\* (banking_aux.c:97-189), but for the three cases the property names.
THEOREM CodesAreDocumented ==
    ASSUME \A r \in Requests : LegalRequest(r)
    PROVE  LedgerSpec => []CodeIsTheFirstError
<1>1. LedgerInit => Salted(accounts)
  BY DEF LedgerInit, Salted, EmptyAccount, is_active_account
<1>2. LedgerTypeOK /\ Salted(accounts) /\ [LedgerNext]_accounts => Salted(accounts)'
  <2>. SUFFICES ASSUME LedgerTypeOK, Salted(accounts), [LedgerNext]_accounts
                PROVE  Salted(accounts')
    OBVIOUS
  <2>1. CASE OpenBank
    BY <2>1, AdminAssumption, AdminPasswordAssumption
    DEF OpenBank, Salted, create_bank_account, generate_sha256_hash, is_active_account,
        LedgerTypeOK
  <2>2. ASSUME NEW r \in Requests, Perform(r)
        PROVE  Salted(accounts')
    BY <2>2, RequestsAssumption, ServedSalted DEF Perform, LedgerTypeOK
  <2>3. CASE UNCHANGED accounts
    BY <2>3
  <2>. QED
    BY <2>1, <2>2, <2>3 DEF LedgerNext
<1>3. LedgerTypeOK /\ Salted(accounts) /\ BalancesWithinLimits => CodeIsTheFirstError
  BY CodeIsFirst DEF CodeIsTheFirstError, LedgerTypeOK, BalancesWithinLimits, Within
<1>. QED
  BY <1>1, <1>2, <1>3, LedgerIsTyped, LimitsAreKept, PTL DEF LedgerSpec
=============================================================================
