\* One adjustment submitted twice with one key.
SPECIFICATION Spec
CONSTANTS
    r1 = r1  r2 = r2  j1 = j1  a1 = a1  a2 = a2  k1 = k1
    Request = {r1}
    Embedding = {}
    Job = {j1}
    JobOf <- OneJob
    Amount <- Amounts
    MaxUnit = 2
    MaxAttempts = 1
    Admin = {a1, a2}
    KeyOf <- SameKey
    Adds <- Credit
    Call = {c1}
    Cost = {1, 3}
INVARIANT BalanceIsLedger
CHECK_DEADLOCK FALSE
