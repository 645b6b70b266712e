SPECIFICATION FairRunningSpec
CONSTANTS
    u1 = u1  u2 = u2  u3 = u3
    secret = secret  other = other  salt = salt
    AccountIds <- Ids
    ADMIN_ACCOUNT_ID = 0
    Passwords = {secret, other}
    Salts = {salt}
    Pids = {u1}
    INT_LIMIT = 8
    MIN_BALANCE = 1
    MAX_BALANCE = 3
    Requests <- SelfWorkload
    PIPE_CAPACITY = 2
    OFFICES = 2
    AdminPassword = secret
    Impatient = {}
PROPERTIES SameIdIsAnswered
CHECK_DEADLOCK FALSE
