SPECIFICATION LedgerSpec
CONSTANTS
    p = p  secret = secret  other = other  s1 = s1  s2 = s2
    AccountIds <- Ids
    ADMIN_ACCOUNT_ID = 0
    Passwords = {secret, other}
    Salts = {s1, s2}
    Pids = {p}
    INT_LIMIT = 8
    MIN_BALANCE = 1
    MAX_BALANCE = 3
    AdminPassword = secret
    Requests <- LegalRequests
INVARIANTS OwnerIsToldTheBalance
