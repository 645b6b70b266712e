---------------------------- MODULE BankingProofs ----------------------------
(* What the operators on words, accounts and replies return. *)
EXTENDS Banking, TLAPS

\* The sum and the difference of two words, brought back, are words.
LEMMA WrapIsWord ==
    ASSUME NEW a \in Word, NEW b \in Word
    PROVE  wrap(a + b) \in Word /\ wrap(a - b) \in Word
BY BalanceAssumption DEF Word, wrap

-----------------------------------------------------------------------------
\* A new account is an account (banking_aux.c:18-31).
LEMMA CreatedType ==
    ASSUME NEW acc \in [AccountIds -> Account], NEW a \in AccountIds,
           NEW q \in Passwords, NEW b \in Word, NEW s \in Salts
    PROVE  create_bank_account(acc, a, q, b, s) \in [AccountIds -> Account]
BY DEF create_bank_account, Account, generate_sha256_hash

\* A payment leaves a table of accounts, whatever its amount (banking_aux.c:173).
LEMMA CreditedType ==
    ASSUME NEW acc \in [AccountIds -> Account], NEW r \in Request
    PROVE  credited(acc, r) \in [AccountIds -> Account]
BY WrapIsWord DEF credited, Account, Request

\* So does the charge to the payer (banking_aux.c:174).
LEMMA DebitedType ==
    ASSUME NEW acc \in [AccountIds -> Account], NEW r \in Request
    PROVE  debited(acc, r) \in [AccountIds -> Account]
BY WrapIsWord DEF debited, Account, Request

\* Every path through build_tlv_reply ends with one of the codes of types.h, and what
\* it stores in the reply's union is a number.
LEMMA CodeType ==
    ASSUME NEW acc, NEW r
    PROVE  reply_code(acc, r) \in RetCodes
<1>1. operation_code(acc, r) \in RetCodes
  BY DEF operation_code, create_code, balance_code, transfer_code, shutdown_code, RetCodes
<1>. QED
  BY <1>1 DEF reply_code, validate_bank_account, RetCodes

\* What build_tlv_reply fills in is a reply (types.h:127-175).
LEMMA ReplyType ==
    ASSUME NEW acc \in [AccountIds -> Account], NEW r \in Request, NEW n \in Int
    PROVE  build_tlv_reply(acc, r, n) \in Reply
<1>1. /\ r.type \in Operations /\ r.account_id \in AccountIds /\ r.amount \in Int
      /\ acc[r.account_id].balance \in Int
  BY BalanceAssumption DEF Request, Account, Word
<1>2. debited(acc, r)[r.account_id].balance \in Int
  BY <1>1, DebitedType, BalanceAssumption DEF Account, Word
<1>3. reply_value(acc, r, n) \in SUBSET Int
  BY <1>1, <1>2 DEF reply_value
<1>. QED
  BY <1>1, <1>3, CodeType DEF build_tlv_reply, Reply
=============================================================================
