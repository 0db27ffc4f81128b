\* One embedding request, one call.
SPECIFICATION Spec
CONSTANTS
    r1 = r1  r2 = r2  j1 = j1  a1 = a1  a2 = a2  k1 = k1
    Request = {r1}
    Embedding = {r1}
    Job = {j1}
    JobOf <- OneJob
    Amount <- Amounts
    MaxUnit = 2
    MaxAttempts = 1
    Admin = {a1, a2}
    KeyOf <- OwnKey
    Adds <- CreditAndDeduction
    Call = {c1}
    Cost = {1, 3}
PROPERTY MeteredHoldsStay
CHECK_DEADLOCK FALSE
