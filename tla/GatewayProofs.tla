---------------------------- MODULE GatewayProofs ----------------------------
(***************************************************************************)
(* Theorems about the account of Gateway: types; the reserved amount is    *)
(* what the active holds reserve; the ledger explains both amounts of the  *)
(* account; nothing but overruns makes it negative.                        *)
(***************************************************************************)
EXTENDS Gateway, FiniteSetTheorems, WellFoundedInduction, TLAPS

-----------------------------------------------------------------------------
(* Sums of holds.                                                          *)

LEMMA HoldIsFinite == IsFiniteSet(Hold)
<1>1. IsFiniteSet(Request) /\ MaxAttempts \in Int
  BY BillingAssumption
<1>2. IsFiniteSet(1..MaxAttempts)
  BY <1>1, FS_Interval
<1>3. QED
  BY <1>1, <1>2, FS_Product DEF Hold

LEMMA UnitsAreFinite ==
    ASSUME NEW S \in SUBSET Hold
    PROVE  IsFiniteSet(Units(S)) /\ Held(S) \in Nat
<1>1. IsFiniteSet(S \X (1..MaxUnit))
  <2>1. IsFiniteSet(S)
    BY HoldIsFinite, FS_Subset
  <2>2. MaxUnit \in Int
    BY BillingAssumption
  <2>3. IsFiniteSet(1..MaxUnit)
    BY <2>2, FS_Interval
  <2>4. QED
    BY <2>1, <2>3, FS_Product
<1>2. Units(S) \in SUBSET (S \X (1..MaxUnit))
  BY DEF Units
<1>3. QED
  BY <1>1, <1>2, FS_Subset, FS_CardinalityType DEF Held

\* What remains when some of the holds go.
LEMMA HeldWithout ==
    ASSUME NEW S \in SUBSET Hold, NEW T \in SUBSET S
    PROVE  Held(S \ T) = Held(S) - Held(T) /\ Held(T) <= Held(S)
<1>1. Units(S \ T) = Units(S) \ Units(T)
  BY DEF Units
<1>2. Units(S) \cap Units(T) = Units(T) /\ Units(T) \in SUBSET Units(S)
  BY DEF Units
<1>3. IsFiniteSet(Units(S)) /\ IsFiniteSet(Units(T)) /\ Held(S) \in Nat /\ Held(T) \in Nat
  BY UnitsAreFinite
<1>4. Cardinality(Units(S) \ Units(T)) = Cardinality(Units(S)) - Cardinality(Units(T))
  BY <1>2, <1>3, FS_Difference
<1>5. Cardinality(Units(T)) <= Cardinality(Units(S))
  BY <1>2, <1>3, FS_Subset
<1>6. QED
  BY <1>1, <1>3, <1>4, <1>5 DEF Held

\* One hold reserves the amount of its request.
LEMMA HeldByOne ==
    ASSUME NEW h \in Hold
    PROVE  Held({h}) = Amount[h[1]] /\ Amount[h[1]] \in Nat
<1> DEFINE a == Amount[h[1]]
           f == [i \in 1..a |-> <<h, i>>]
<1>1. a \in 0..MaxUnit /\ MaxUnit \in Nat
  BY BillingAssumption DEF Hold
<1>2. Units({h}) = {<<h, i>> : i \in 1..a}
  <2>1. ASSUME NEW u \in Units({h}) PROVE u \in {<<h, i>> : i \in 1..a}
    BY <1>1 DEF Units
  <2>2. ASSUME NEW i \in 1..a PROVE <<h, i>> \in Units({h})
    BY <1>1 DEF Units
  <2>3. QED
    BY <2>1, <2>2
<1>3. f \in Bijection(1..a, Units({h}))
  <2>1. f \in [1..a -> Units({h})]
    BY <1>2
  <2>2. \A i, k \in 1..a : f[i] = f[k] => i = k
    OBVIOUS
  <2>3. \A u \in Units({h}) : \E i \in 1..a : f[i] = u
    BY <1>2
  <2>4. QED
    BY <2>1, <2>2, <2>3 DEF Bijection, Injection, Surjection, IsInjective
<1>4. ExistsBijection(1..a, Units({h}))
  BY <1>3 DEF ExistsBijection
<1>5. IsFiniteSet(1..a) /\ Cardinality(1..a) = a
  <2>1. 1 \in Int /\ a \in Int
    BY <1>1
  <2>2. IsFiniteSet(1..a) /\ Cardinality(1..a) = IF 1 > a THEN 0 ELSE a - 1 + 1
    BY <2>1, FS_Interval
  <2>3. QED
    BY <1>1, <2>2
<1>6. Cardinality(Units({h})) = Cardinality(1..a)
  BY <1>4, <1>5, FS_Bijection
<1>7. QED
  BY <1>1, <1>5, <1>6 DEF Held

\* A new hold adds its amount.
LEMMA HeldWith ==
    ASSUME NEW S \in SUBSET Hold, NEW h \in Hold, h \notin S
    PROVE  Held(S \cup {h}) = Held(S) + Amount[h[1]]
<1>1. (S \cup {h}) \ {h} = S
  OBVIOUS
<1>2. Held((S \cup {h}) \ {h}) = Held(S \cup {h}) - Held({h})
  BY HeldWithout
<1>3. Held({h}) = Amount[h[1]] /\ Amount[h[1]] \in Nat
  BY HeldByOne
<1>4. Held(S \cup {h}) \in Nat /\ Held(S) \in Nat
  BY UnitsAreFinite
<1>5. Held((S \cup {h}) \ {h}) = Held(S)
  BY <1>1
<1>6. QED
  BY <1>2, <1>3, <1>4, <1>5

-----------------------------------------------------------------------------
(* Sums over finite sets. What a recursive definition computes is shown by     *)
(* the least set for which it would not.                                       *)

\* g gives the sum of F over every subset of S.
IsSum(g, F, S) ==
    /\ g \in [SUBSET S -> Int]
    /\ g[{}] = 0
    /\ \A T \in SUBSET S : \A x \in T : g[T] = F[x] + g[T \ {x}]

\* Induction on finite sets as the principle of a least counterexample.
LEMMA SmallestSubset ==
    ASSUME NEW S, IsFiniteSet(S), NEW Bad \in SUBSET (SUBSET S), Bad # {}
    PROVE  \E T \in Bad : \A x \in T : T \ {x} \notin Bad
<1>1. IsWellFoundedOn(StrictSubsetOrdering(S), SUBSET S)
  BY FS_StrictSubsetOrderingWellFounded, FS_FiniteSubsetsOfFinite
<1>2. PICK T \in Bad : \A U \in Bad : ~ (<<U, T>> \in StrictSubsetOrdering(S))
  BY <1>1, WFMin
<1>3. ASSUME NEW x \in T PROVE <<T \ {x}, T>> \in StrictSubsetOrdering(S)
  BY DEF StrictSubsetOrdering
<1>4. QED
  BY <1>2, <1>3

\* A finite set has a sum ...
LEMMA SumExists ==
    ASSUME NEW S, IsFiniteSet(S), NEW F, \A x \in S : F[x] \in Int
    PROVE  \E g : IsSum(g, F, S)
<1> DEFINE Bad == {T \in SUBSET S : ~ \E g : IsSum(g, F, T)}
<1>1. SUFFICES ASSUME Bad # {} PROVE FALSE
  OBVIOUS
<1>2. PICK T \in Bad : \A x \in T : T \ {x} \notin Bad
  BY <1>1, SmallestSubset
<1>3. T # {}
  <2>1. IsSum([U \in SUBSET {} |-> 0], F, {})
    BY DEF IsSum
  <2>2. QED
    BY <2>1
<1>4. PICK x \in T : TRUE
  BY <1>3
<1>5. PICK g : IsSum(g, F, T \ {x})
  BY <1>2
<1> DEFINE h == [U \in SUBSET T |-> IF x \in U THEN F[x] + g[U \ {x}] ELSE g[U]]
<1>6. \A U \in SUBSET T : U \ {x} \in SUBSET (T \ {x})
  OBVIOUS
<1>7. h \in [SUBSET T -> Int]
  <2>1. \A U \in SUBSET T : h[U] \in Int
    BY <1>5, <1>6 DEF IsSum
  <2>2. QED
    BY <2>1
<1>8. h[{}] = 0
  BY <1>5 DEF IsSum
<1>9. ASSUME NEW U \in SUBSET T, NEW y \in U PROVE h[U] = F[y] + h[U \ {y}]
  <2>1. F[x] \in Int /\ F[y] \in Int
    BY <1>2
  <2>2. CASE y = x
    <3>1. U \ {y} \in SUBSET T /\ x \notin U \ {y}
      BY <2>2
    <3>2. h[U] = F[x] + g[U \ {x}]
      BY <2>2
    <3>3. h[U \ {y}] = g[U \ {y}]
      BY <3>1
    <3>4. QED
      BY <2>2, <3>2, <3>3
  <2>3. CASE y # x /\ x \in U
    <3>1. U \ {y} \in SUBSET T /\ x \in U \ {y}
      BY <2>3
    <3>2. h[U] = F[x] + g[U \ {x}]
      BY <2>3
    <3>3. h[U \ {y}] = F[x] + g[(U \ {y}) \ {x}]
      BY <3>1
    <3>4. (U \ {y}) \ {x} = (U \ {x}) \ {y} /\ y \in U \ {x}
      BY <2>3
    <3>5. g[U \ {x}] = F[y] + g[(U \ {x}) \ {y}]
      BY <1>5, <1>6, <3>4 DEF IsSum
    <3>6. (U \ {x}) \ {y} \in SUBSET (T \ {x})
      OBVIOUS
    <3>7. g[(U \ {x}) \ {y}] \in Int
      BY <1>5, <3>6 DEF IsSum
    <3>8. g[(U \ {y}) \ {x}] = g[(U \ {x}) \ {y}]
      BY <3>4
    <3>9. QED
      BY <2>1, <3>2, <3>3, <3>5, <3>7, <3>8
  <2>4. CASE x \notin U
    <3>1. U \in SUBSET (T \ {x}) /\ U \ {y} \in SUBSET T /\ x \notin U \ {y}
      BY <2>4
    <3>2. h[U] = g[U] /\ h[U \ {y}] = g[U \ {y}]
      BY <2>4, <3>1
    <3>3. g[U] = F[y] + g[U \ {y}]
      BY <1>5, <3>1 DEF IsSum
    <3>4. QED
      BY <3>2, <3>3
  <2>5. QED
    BY <2>2, <2>3, <2>4
<1>10. IsSum(h, F, T)
  BY <1>7, <1>8, <1>9 DEF IsSum
<1>11. QED
  BY <1>10

\* ... and the fold computes it, in whatever order.
LEMMA FoldIsSum ==
    ASSUME NEW S, IsFiniteSet(S), NEW F, \A x \in S : F[x] \in Int, NEW g, IsSum(g, F, S)
    PROVE  SumFunctionOnSet(F, S) = g[S]
<1> DEFINE pick(T) == CHOOSE x \in T : TRUE
           iter == CHOOSE iter : iter = [T \in SUBSET S |-> IF T = {} THEN 0
                                          ELSE F[pick(T)] + iter[T \ {pick(T)}]]
<1>1. SumFunctionOnSet(F, S) = iter[S]
  BY DEF SumFunctionOnSet, FoldFunctionOnSet, MapThenFoldSet
<1>2. \A T \in SUBSET S : T # {} => pick(T) \in T
  OBVIOUS
<1>3. g = [T \in SUBSET S |-> IF T = {} THEN 0 ELSE F[pick(T)] + g[T \ {pick(T)}]]
  BY <1>2 DEF IsSum
<1>4. \E h : h = [T \in SUBSET S |-> IF T = {} THEN 0 ELSE F[pick(T)] + h[T \ {pick(T)}]]
  BY <1>3
<1>5. iter = [T \in SUBSET S |-> IF T = {} THEN 0 ELSE F[pick(T)] + iter[T \ {pick(T)}]]
  BY <1>4
<1> HIDE DEF iter
<1> DEFINE Bad == {T \in SUBSET S : iter[T] # g[T]}
<1>6. ASSUME Bad # {} PROVE FALSE
  <2>1. PICK T \in Bad : \A x \in T : T \ {x} \notin Bad
    BY <1>6, SmallestSubset
  <2>2. T # {}
    BY <1>3, <1>5
  <2>3. pick(T) \in T /\ T \ {pick(T)} \in SUBSET S
    BY <1>2, <2>2
  <2>4. iter[T \ {pick(T)}] = g[T \ {pick(T)}]
    BY <2>1, <2>3
  <2>5. iter[T] = F[pick(T)] + iter[T \ {pick(T)}] /\ g[T] = F[pick(T)] + g[T \ {pick(T)}]
    BY <1>3, <1>5, <2>2
  <2>6. QED
    BY <2>1, <2>4, <2>5
<1>7. QED
  BY <1>1, <1>6

LEMMA SumEmpty == ASSUME NEW F PROVE SumFunctionOnSet(F, {}) = 0
<1>1. IsFiniteSet({})
  BY FS_EmptySet
<1>2. PICK g : IsSum(g, F, {})
  BY <1>1, SumExists
<1>3. QED
  BY <1>1, <1>2, FoldIsSum DEF IsSum

LEMMA SumWithout ==
    ASSUME NEW S, IsFiniteSet(S), NEW F, \A x \in S : F[x] \in Int
    PROVE  /\ SumFunctionOnSet(F, S) \in Int
           /\ \A x \in S : SumFunctionOnSet(F, S) = F[x] + SumFunctionOnSet(F, S \ {x})
<1>1. PICK g : IsSum(g, F, S)
  BY SumExists
<1>2. SumFunctionOnSet(F, S) = g[S] /\ g[S] \in Int
  <2>1. SumFunctionOnSet(F, S) = g[S]
    BY <1>1, FoldIsSum
  <2>2. g[S] \in Int
    BY <1>1 DEF IsSum
  <2>3. QED
    BY <2>1, <2>2
<1>3. ASSUME NEW x \in S PROVE SumFunctionOnSet(F, S \ {x}) = g[S \ {x}]
  <2> DEFINE h == [T \in SUBSET (S \ {x}) |-> g[T]]
  <2>1. IsFiniteSet(S \ {x})
    BY FS_Subset
  <2>2. IsSum(h, F, S \ {x})
    <3>1. \A T \in SUBSET (S \ {x}) : T \in SUBSET S /\ h[T] = g[T]
      OBVIOUS
    <3>2. \A T \in SUBSET (S \ {x}) : \A y \in T : T \ {y} \in SUBSET (S \ {x})
      OBVIOUS
    <3>3. QED
      BY <1>1, <3>1, <3>2 DEF IsSum
  <2>3. SumFunctionOnSet(F, S \ {x}) = h[S \ {x}]
    BY <2>1, <2>2, FoldIsSum
  <2>4. QED
    BY <2>3
<1>4. QED
  BY <1>1, <1>2, <1>3 DEF IsSum

\* The sum is of the values on the set only.
LEMMA SumAgrees ==
    ASSUME NEW S, IsFiniteSet(S), NEW F, NEW G, \A x \in S : F[x] \in Int /\ F[x] = G[x]
    PROVE  SumFunctionOnSet(F, S) = SumFunctionOnSet(G, S)
<1> DEFINE Bad == {T \in SUBSET S : SumFunctionOnSet(F, T) # SumFunctionOnSet(G, T)}
<1>1. SUFFICES ASSUME Bad # {} PROVE FALSE
  OBVIOUS
<1>2. PICK T \in Bad : \A x \in T : T \ {x} \notin Bad
  BY <1>1, SmallestSubset
<1>3. PICK x \in T : TRUE
  BY SumEmpty
<1>4. SumFunctionOnSet(F, T \ {x}) = SumFunctionOnSet(G, T \ {x})
  BY <1>2, <1>3
<1>5. IsFiniteSet(T)
  BY FS_Subset
<1>6. SumFunctionOnSet(F, T) = F[x] + SumFunctionOnSet(F, T \ {x})
  BY <1>3, <1>5, SumWithout
<1>7. SumFunctionOnSet(G, T) = G[x] + SumFunctionOnSet(G, T \ {x})
  BY <1>3, <1>5, SumWithout
<1>8. QED
  BY <1>2, <1>3, <1>4, <1>6, <1>7

\* The sum over a union of disjoint sets.
LEMMA SumUnion ==
    ASSUME NEW S, NEW T, IsFiniteSet(S), IsFiniteSet(T), S \cap T = {},
           NEW F, \A x \in S \cup T : F[x] \in Int
    PROVE  SumFunctionOnSet(F, S \cup T) = SumFunctionOnSet(F, S) + SumFunctionOnSet(F, T)
<1> DEFINE Good(U) == SumFunctionOnSet(F, S \cup U) = SumFunctionOnSet(F, S) + SumFunctionOnSet(F, U)
           Bad == {U \in SUBSET T : ~ Good(U)}
<1>1. SUFFICES ASSUME Bad # {} PROVE FALSE
  OBVIOUS
<1>2. PICK U \in Bad : \A x \in U : U \ {x} \notin Bad
  BY <1>1, SmallestSubset
<1>3. SumFunctionOnSet(F, S) \in Int
  BY SumWithout
<1>4. U # {}
  BY <1>3, SumEmpty
<1>5. PICK x \in U : TRUE
  BY <1>4
<1>6. IsFiniteSet(U) /\ IsFiniteSet(U \ {x}) /\ IsFiniteSet(S \cup U)
  BY FS_Subset, FS_Union
<1>7. SumFunctionOnSet(F, U) = F[x] + SumFunctionOnSet(F, U \ {x}) /\ F[x] \in Int
  BY <1>5, <1>6, SumWithout
<1>8. SumFunctionOnSet(F, U \ {x}) \in Int
  BY <1>6, SumWithout
<1>9. (S \cup U) \ {x} = S \cup (U \ {x})
  BY <1>5
<1>10. SumFunctionOnSet(F, S \cup U) = F[x] + SumFunctionOnSet(F, S \cup (U \ {x}))
  BY <1>5, <1>6, <1>9, SumWithout
<1>11. Good(U \ {x})
  BY <1>2, <1>5
<1>12. QED
  BY <1>3, <1>7, <1>8, <1>10, <1>11

LEMMA SumOfZeros ==
    ASSUME NEW S, IsFiniteSet(S), NEW F, \A x \in S : F[x] = 0
    PROVE  SumFunctionOnSet(F, S) = 0
<1> DEFINE Bad == {T \in SUBSET S : SumFunctionOnSet(F, T) # 0}
<1>1. SUFFICES ASSUME Bad # {} PROVE FALSE
  OBVIOUS
<1>2. PICK T \in Bad : \A x \in T : T \ {x} \notin Bad
  BY <1>1, SmallestSubset
<1>3. PICK x \in T : TRUE
  BY SumEmpty
<1>4. IsFiniteSet(T) /\ SumFunctionOnSet(F, T \ {x}) = 0
  BY <1>2, <1>3, FS_Subset
<1>5. SumFunctionOnSet(F, T) = F[x] + SumFunctionOnSet(F, T \ {x})
  BY <1>3, <1>4, SumWithout
<1>6. QED
  BY <1>3, <1>4, <1>5

LEMMA SumOfNaturals ==
    ASSUME NEW S, IsFiniteSet(S), NEW F, \A x \in S : F[x] \in Nat
    PROVE  SumFunctionOnSet(F, S) \in Nat
<1> DEFINE Bad == {T \in SUBSET S : SumFunctionOnSet(F, T) \notin Nat}
<1>1. SUFFICES ASSUME Bad # {} PROVE FALSE
  OBVIOUS
<1>2. PICK T \in Bad : \A x \in T : T \ {x} \notin Bad
  BY <1>1, SmallestSubset
<1>3. PICK x \in T : TRUE
  BY SumEmpty
<1>4. IsFiniteSet(T) /\ SumFunctionOnSet(F, T \ {x}) \in Nat
  BY <1>2, <1>3, FS_Subset
<1>5. SumFunctionOnSet(F, T) = F[x] + SumFunctionOnSet(F, T \ {x})
  BY <1>3, <1>4, SumWithout
<1>6. QED
  BY <1>3, <1>4, <1>5

LEMMA SumOfOne ==
    ASSUME NEW F, NEW x, F[x] \in Int
    PROVE  SumFunctionOnSet(F, {x}) = F[x]
<1>1. IsFiniteSet({x}) /\ {x} \ {x} = {}
  BY FS_Singleton
<1>2. SumFunctionOnSet(F, {x}) = F[x] + SumFunctionOnSet(F, {x} \ {x})
  BY <1>1, SumWithout
<1>3. QED
  BY <1>1, <1>2, SumEmpty

-----------------------------------------------------------------------------
(* The inductive invariant.                                                *)

AccountOK ==
    /\ balance \in Int
    /\ reserved \in Nat
    /\ hold \in [Hold -> [status : Status, charged : Nat]]
    /\ \A e \in ledger : e.balance \in Int /\ e.reserved \in Int
    /\ HoldsAreReserved

RequestOK ==
    /\ request \in [Request -> [status : {"none", "running", "succeeded", "failed"},
                                attempt : 0..MaxAttempts, cost : Nat]]
    /\ \A r \in Request : request[r].status # "none" => request[r].attempt > 0

\* A call past its start has a request; one that may touch a hold has an attempt
\* that its request has reached.
CallOK ==
    /\ call \in [Call -> [at : Place, of : Request \cup {"none"}, attempt : 0..MaxAttempts]]
    /\ \A c \in Call : call[c].at # "idle" => call[c].of \in Request
    /\ \A c \in Call : call[c].at \notin {"idle", "begin", "done"} =>
            /\ HoldOf(c) \in Hold
            /\ call[c].attempt <= request[call[c].of].attempt

\* What an account_summary has found stays active until it commits; the requests it
\* will fail have been started.
SummaryOK ==
    /\ summary \in [open : BOOLEAN, release : SUBSET Hold, fail : SUBSET Request]
    /\ summary.open => summary.release \subseteq InStatus("active")
    /\ \A r \in summary.fail : request[r].attempt > 0

OthersOK ==
    /\ job \in [Job -> {"running", "away", "ended"}]
    /\ admin \in [Admin -> {"ready", "looked", "done"}]

AttemptsGrow == \A r \in Request : request[r].attempt <= request'[r].attempt

GInv == AccountOK /\ RequestOK /\ CallOK /\ SummaryOK /\ OthersOK

LEMMA GInvImplies == GInv => BillingTypeOK /\ HoldsAreReserved
BY DEF GInv, AccountOK, RequestOK, CallOK, SummaryOK, OthersOK, BillingTypeOK

-----------------------------------------------------------------------------
(* Transactions on the account.                                            *)

\* Entries with integer amounts keep the ledger well-formed.
LEMMA LedgerTyped ==
    ASSUME \A e \in ledger : e.balance \in Int /\ e.reserved \in Int,
           NEW E, \A e \in E : e.balance \in Int /\ e.reserved \in Int
    PROVE  \A e \in AppendEntries(E) : e.balance \in Int /\ e.reserved \in Int
BY DEF AppendEntries

LEMMA ReleaseEntriesTyped ==
    ASSUME NEW S \in SUBSET Hold
    PROVE  \A e \in ReleaseEntries(S) : e.balance \in Int /\ e.reserved \in Int
<1>1. \A h \in S : Amount[h[1]] \in Nat
  BY HeldByOne
<1>2. QED
  BY <1>1 DEF ReleaseEntries, Entry

LEMMA PutTyped ==
    ASSUME hold \in [Hold -> [status : Status, charged : Nat]],
           NEW S, NEW s \in Status, NEW cost \in Nat
    PROVE  Put(S, s, cost) \in [Hold -> [status : Status, charged : Nat]]
BY DEF Put

\* Active holds that get another status leave the reserved amount.
LEMMA Freed ==
    ASSUME AccountOK, NEW S \in SUBSET InStatus("active"), NEW s \in Status \ {"active"},
           NEW cost \in Nat, hold' = Put(S, s, cost), reserved' = Less(reserved, Held(S))
    PROVE  /\ hold' \in [Hold -> [status : Status, charged : Nat]]
           /\ reserved' \in Nat
           /\ InStatus("active")' = InStatus("active") \ S
           /\ HoldsAreReserved'
<1>1. hold' \in [Hold -> [status : Status, charged : Nat]]
  BY PutTyped DEF AccountOK
<1>2. InStatus("active")' = InStatus("active") \ S
  BY DEF InStatus, Put
<1>3. InStatus("active") \in SUBSET Hold
  BY DEF InStatus
<1>4. Held(InStatus("active") \ S) = Held(InStatus("active")) - Held(S)
      /\ Held(S) <= Held(InStatus("active"))
  BY <1>3, HeldWithout
<1>5. Held(S) \in Nat
  BY <1>3, UnitsAreFinite
<1>6. reserved' = reserved - Held(S) /\ reserved' \in Nat
  BY <1>4, <1>5 DEF Less, AccountOK, HoldsAreReserved
<1>7. Held(InStatus("active"))' = Held(InStatus("active") \ S)
  BY <1>2 DEF Held, Units
<1>8. QED
  BY <1>1, <1>2, <1>4, <1>6, <1>7 DEF AccountOK, HoldsAreReserved

LEMMA SettlePreserves ==
    ASSUME AccountOK, NEW h \in Hold, NEW cost \in Nat, Settle(h, cost)
    PROVE  AccountOK'
<1>1. Held({h}) = Amount[h[1]] /\ Amount[h[1]] \in Nat
  BY HeldByOne
<1>2. {h} \in SUBSET InStatus("active")
  BY DEF Settle, InStatus
<1>3. PICK s \in {"overrun", "settled"} : hold' = Put({h}, s, cost)
  BY DEF Settle
<1>4. reserved' = Less(reserved, Held({h}))
  BY <1>1 DEF Settle
<1>5. hold' \in [Hold -> [status : Status, charged : Nat]] /\ reserved' \in Nat /\ HoldsAreReserved'
  BY <1>2, <1>3, <1>4, Freed DEF Status
<1>6. balance' \in Int
  BY DEF Settle, AccountOK
<1>7. \A e \in ledger' : e.balance \in Int /\ e.reserved \in Int
  <2>1. \A e \in {Entry(<<"settle", h>>, -cost, -Amount[h[1]])} : e.balance \in Int /\ e.reserved \in Int
    BY <1>1 DEF Entry
  <2>2. QED
    BY <2>1, LedgerTyped DEF Settle, AccountOK
<1>8. QED
  BY <1>5, <1>6, <1>7 DEF AccountOK

LEMMA ReleasePreserves ==
    ASSUME AccountOK, NEW h \in Hold, Release(h)
    PROVE  AccountOK'
<1> DEFINE freed == {h} \cap InStatus("active")
<1>1. freed \in SUBSET InStatus("active") /\ freed \in SUBSET Hold
  OBVIOUS
<1>2. hold' = Put(freed, "released", 0) /\ reserved' = Less(reserved, Held(freed))
      /\ ledger' = AppendEntries(ReleaseEntries(freed)) /\ balance' = balance
  BY DEF Release
<1>3. hold' \in [Hold -> [status : Status, charged : Nat]] /\ reserved' \in Nat /\ HoldsAreReserved'
  BY <1>1, <1>2, Freed DEF Status
<1>4. \A e \in ledger' : e.balance \in Int /\ e.reserved \in Int
  BY <1>1, <1>2, ReleaseEntriesTyped, LedgerTyped DEF AccountOK
<1>5. QED
  BY <1>2, <1>3, <1>4 DEF AccountOK

LEMMA FailedTyped ==
    ASSUME RequestOK, NEW S \in SUBSET {r \in Request : request[r].attempt > 0},
           request' = Failed(S)
    PROVE  RequestOK' /\ AttemptsGrow
BY DEF RequestOK, Failed, AttemptsGrow

LEMMA ReservePreserves ==
    ASSUME AccountOK, RequestOK, NEW h \in Hold, Reserve(h)
    PROVE  AccountOK' /\ RequestOK' /\ AttemptsGrow
<1> DEFINE T == TerminalJobHolds
           A == InStatus("active")
           E == ReleaseEntries(T) \cup {Entry(<<"reserve", h>>, 0, Amount[h[1]])}
<1>1. T \in SUBSET A /\ T \in SUBSET Hold /\ A \in SUBSET Hold /\ h \in Hold /\ h \notin A
  BY DEF TerminalJobHolds, InStatus, Reserve
<1>2. Amount[h[1]] \in Nat
  BY HeldByOne
<1>3. Held(A \ T) = Held(A) - Held(T) /\ Held(T) <= Held(A) /\ Held(T) \in Nat /\ Held(A) \in Nat
  BY <1>1, HeldWithout, UnitsAreFinite
<1>4. Held((A \ T) \cup {h}) = Held(A \ T) + Amount[h[1]]
  BY <1>1, HeldWith
<1>5. hold' = [Put(T, "released", 0) EXCEPT ![h] = [status |-> "active", charged |-> 0]]
      /\ reserved' = Less(reserved, Held(T)) + Amount[h[1]]
      /\ ledger' = AppendEntries(E) /\ balance' = balance /\ request' = Failed(InterruptedRequests)
  BY DEF Reserve
<1>6. Put(T, "released", 0) \in [Hold -> [status : Status, charged : Nat]]
  BY PutTyped DEF AccountOK, Status
<1>7. hold' \in [Hold -> [status : Status, charged : Nat]]
  BY <1>5, <1>6 DEF Status
<1>8. InStatus("active")' = (A \ T) \cup {h}
  BY <1>1, <1>5 DEF InStatus, Put
<1>9. Held(InStatus("active"))' = Held((A \ T) \cup {h})
  BY <1>8 DEF Held, Units
<1>10. reserved = Held(A)
  BY DEF AccountOK, HoldsAreReserved
<1>11. reserved' \in Nat /\ reserved' = Held((A \ T) \cup {h})
  BY <1>2, <1>3, <1>4, <1>5, <1>10 DEF Less
<1>12. \A e \in ledger' : e.balance \in Int /\ e.reserved \in Int
  <2>1. \A e \in {Entry(<<"reserve", h>>, 0, Amount[h[1]])} : e.balance \in Int /\ e.reserved \in Int
    BY <1>2 DEF Entry
  <2>2. \A e \in E : e.balance \in Int /\ e.reserved \in Int
    BY <1>1, <2>1, ReleaseEntriesTyped
  <2>3. QED
    BY <1>5, <2>2, LedgerTyped DEF AccountOK
<1>13. RequestOK' /\ AttemptsGrow
  BY <1>5, FailedTyped DEF InterruptedRequests, RequestOK
<1>14. QED
  BY <1>5, <1>7, <1>9, <1>11, <1>12, <1>13 DEF AccountOK, HoldsAreReserved

LEMMA SummaryPreserves ==
    ASSUME AccountOK, RequestOK, SummaryOK,
           SummaryCommits
    PROVE  AccountOK' /\ RequestOK' /\ AttemptsGrow
<1> DEFINE S == summary.release
<1>1. S \in SUBSET InStatus("active") /\ S \in SUBSET Hold /\ summary.fail \in SUBSET Request
  BY DEF SummaryOK, SummaryCommits
<1>2. hold' = Put(S, "released", 0) /\ reserved' = Less(reserved, Held(S)) /\ balance' = balance
      /\ ledger' = AppendEntries(ReleaseEntries(S)) /\ request' = Failed(summary.fail)
  BY DEF SummaryCommits
<1>3. hold' \in [Hold -> [status : Status, charged : Nat]] /\ reserved' \in Nat /\ HoldsAreReserved'
  BY <1>1, <1>2, Freed DEF Status
<1>4. \A e \in ledger' : e.balance \in Int /\ e.reserved \in Int
  BY <1>1, <1>2, ReleaseEntriesTyped, LedgerTyped DEF AccountOK
<1>5. RequestOK' /\ AttemptsGrow
  BY <1>1, <1>2, FailedTyped DEF SummaryOK
<1>6. QED
  BY <1>2, <1>3, <1>4, <1>5 DEF AccountOK

-----------------------------------------------------------------------------
(* The invariant holds initially and is preserved.                         *)

LEMMA InitEstablishes == Init => GInv
<1> SUFFICES ASSUME Init PROVE GInv
  OBVIOUS
<1> USE DEF Init, BillingInit
<1>1. InStatus("active") = {}
  BY DEF InStatus
<1>2. Held({}) = 0
  <2>1. Units({}) = {}
    BY DEF Units
  <2>2. QED
    BY <2>1, FS_EmptySet DEF Held
<1>3. HoldsAreReserved
  BY <1>1, <1>2 DEF HoldsAreReserved
<1>4. AccountOK
  BY <1>3 DEF AccountOK, Status
<1>5. RequestOK
  BY BillingAssumption DEF RequestOK
<1>6. CallOK
  BY BillingAssumption DEF CallOK, Place
<1>7. SummaryOK
  BY DEF SummaryOK, None
<1>8. OthersOK
  BY DEF OthersOK
<1>9. QED
  BY <1>4, <1>5, <1>6, <1>7, <1>8 DEF GInv

\* Steps that leave the account alone keep AccountOK, and so on.
LEMMA AccountUnchanged == AccountOK /\ UNCHANGED account => AccountOK'
BY DEF AccountOK, account, HoldsAreReserved, Held, Units, InStatus

LEMMA RequestUnchanged == RequestOK /\ UNCHANGED request => RequestOK' /\ AttemptsGrow
BY DEF RequestOK, AttemptsGrow

LEMMA AttemptsKeepCalls ==
    ASSUME RequestOK, RequestOK', CallOK, UNCHANGED call, AttemptsGrow
    PROVE  CallOK'
<1>1. ASSUME NEW c \in Call, call[c].at \notin {"idle", "begin", "done"}
      PROVE  call[c].attempt <= request'[call[c].of].attempt
  <2>1. call[c].of \in Request /\ call[c].attempt <= request[call[c].of].attempt
    BY <1>1 DEF CallOK
  <2>2. request[call[c].of].attempt \in Int /\ request'[call[c].of].attempt \in Int
        /\ call[c].attempt \in Int
    BY <2>1 DEF RequestOK, CallOK
  <2>3. QED
    BY <2>1, <2>2 DEF AttemptsGrow
<1>2. QED
  BY <1>1 DEF CallOK, HoldOf

\* Steps outside the gateway.
LEMMA BillingNextPreserves == GInv /\ BillingNext /\ UNCHANGED call => GInv'
<1> SUFFICES ASSUME GInv, BillingNext, UNCHANGED call PROVE GInv'
  OBVIOUS
<1>1. RequestOK' /\ AttemptsGrow => CallOK'
  BY AttemptsKeepCalls DEF GInv
<1>2. CASE SummaryReads
  <2>1. AccountOK' /\ RequestOK' /\ AttemptsGrow /\ OthersOK'
    BY <1>2, AccountUnchanged, RequestUnchanged DEF SummaryReads, GInv, OthersOK
  <2>2. TerminalJobHolds \subseteq InStatus("active") /\ TerminalJobHolds \in SUBSET Hold
    BY DEF TerminalJobHolds, InStatus
  <2>3. InterruptedRequests \in SUBSET Request
        /\ \A r \in InterruptedRequests : request[r].attempt > 0
    BY DEF InterruptedRequests, GInv, RequestOK
  <2>4. SummaryOK'
    BY <1>2, <2>2, <2>3 DEF SummaryReads, SummaryOK, InStatus, account
  <2>5. QED
    BY <1>1, <2>1, <2>4 DEF GInv
<1>3. CASE SummaryCommits
  <2>1. AccountOK' /\ RequestOK' /\ AttemptsGrow
    BY <1>3, SummaryPreserves DEF GInv
  <2>2. SummaryOK' /\ OthersOK'
    BY <1>3 DEF SummaryCommits, SummaryOK, None, OthersOK, GInv
  <2>3. QED
    BY <1>1, <2>1, <2>2 DEF GInv
<1>4. CASE SummaryLost
  <2>1. AccountOK' /\ RequestOK' /\ AttemptsGrow /\ OthersOK'
    BY <1>4, AccountUnchanged, RequestUnchanged DEF SummaryLost, GInv, OthersOK
  <2>2. SummaryOK'
    BY <1>4 DEF SummaryLost, SummaryOK, None
  <2>3. QED
    BY <1>1, <2>1, <2>2 DEF GInv
<1>5. ASSUME NEW a \in Admin, AdjustLooks(a) PROVE GInv'
  <2>1. AccountOK' /\ RequestOK' /\ AttemptsGrow
    BY <1>5, AccountUnchanged, RequestUnchanged DEF AdjustLooks, GInv
  <2>2. SummaryOK' /\ OthersOK'
    BY <1>5 DEF AdjustLooks, GInv, SummaryOK, OthersOK, account, InStatus
  <2>3. QED
    BY <1>1, <2>1, <2>2 DEF GInv
<1>6. ASSUME NEW a \in Admin, AdjustApplies(a) PROVE GInv'
  <2>1. RequestOK' /\ AttemptsGrow /\ OthersOK' /\ hold' = hold /\ reserved' = reserved
    BY <1>6, RequestUnchanged DEF AdjustApplies, GInv, OthersOK, account
  <2>2. SummaryOK'
    BY <1>6, <2>1 DEF AdjustApplies, GInv, SummaryOK, InStatus
  <2>3. AccountOK'
    <3>1. CASE UNCHANGED account
      BY <3>1, AccountUnchanged, RequestUnchanged DEF GInv
    <3>2. CASE balance' = balance + Adds[a]
               /\ ledger' = AppendEntries({Entry(AdminKey(a), Adds[a], 0)})
      <4>1. Adds[a] \in Int
        BY BillingAssumption
      <4>2. \A e \in {Entry(AdminKey(a), Adds[a], 0)} : e.balance \in Int /\ e.reserved \in Int
        BY <4>1 DEF Entry
      <4>3. \A e \in ledger' : e.balance \in Int /\ e.reserved \in Int
        BY <3>2, <4>2, LedgerTyped DEF GInv, AccountOK
      <4>4. HoldsAreReserved'
        BY <2>1 DEF GInv, AccountOK, HoldsAreReserved, Held, Units, InStatus
      <4>5. balance' \in Int
        BY <3>2, <4>1 DEF GInv, AccountOK
      <4>6. reserved' \in Nat /\ hold' \in [Hold -> [status : Status, charged : Nat]]
        BY <2>1 DEF GInv, AccountOK
      <4>7. QED
        BY <4>3, <4>4, <4>5, <4>6 DEF AccountOK
    <3>3. QED
      BY <1>6, <3>1, <3>2 DEF AdjustApplies
  <2>4. QED
    BY <1>1, <2>1, <2>2, <2>3 DEF GInv
<1>7. ASSUME NEW j \in Job, JobMoves(j) \/ JobEnds(j) PROVE GInv'
  <2>1. AccountOK' /\ RequestOK' /\ AttemptsGrow
    BY <1>7, AccountUnchanged, RequestUnchanged DEF JobMoves, JobEnds, GInv
  <2>2. SummaryOK' /\ OthersOK'
    BY <1>7 DEF JobMoves, JobEnds, GInv, SummaryOK, OthersOK, account, InStatus
  <2>3. QED
    BY <1>1, <2>1, <2>2 DEF GInv
<1>8. QED
  BY <1>2, <1>3, <1>4, <1>5, <1>6, <1>7 DEF BillingNext

-----------------------------------------------------------------------------
(* Steps of a call.                                                        *)

LEMMA CallFacts ==
    ASSUME CallOK, RequestOK, NEW c \in Call, NEW places, CallIn(c, places), "idle" \notin places
    PROVE  /\ call[c].at \in places
           /\ call[c].of \in Request
           /\ call[c].at \notin {"begin", "done"} =>
                 HoldOf(c) \in Hold /\ call[c].attempt <= request[call[c].of].attempt
BY DEF CallOK, CallIn

\* A call that moves on keeps its request and attempt.
LEMMA CallGoes ==
    ASSUME CallOK, RequestOK, RequestOK', AttemptsGrow, NEW c \in Call, NEW place \in Place,
           Goes(c, place), call[c].at # "idle",
           place = "done" \/ call[c].at \notin {"begin", "done"}
    PROVE  CallOK'
<1>1. \A d \in Call : call'[d].of = call[d].of /\ call'[d].attempt = call[d].attempt
  BY DEF Goes, CallOK
<1>2. call' \in [Call -> [at : Place, of : Request \cup {"none"}, attempt : 0..MaxAttempts]]
  BY DEF Goes, CallOK
<1>3. \A d \in Call : call'[d].at # "idle" => call'[d].of \in Request
  BY <1>1 DEF Goes, CallOK
<1>4. ASSUME NEW d \in Call, call'[d].at \notin {"idle", "begin", "done"}
      PROVE  <<call'[d].of, call'[d].attempt>> \in Hold
             /\ call'[d].attempt <= request'[call'[d].of].attempt
  <2>1. call[d].at \notin {"idle", "begin", "done"}
    BY <1>4 DEF Goes, CallOK
  <2>2. call[d].of \in Request /\ HoldOf(d) \in Hold
        /\ call[d].attempt <= request[call[d].of].attempt
    BY <2>1 DEF CallOK
  <2>3. call[d].attempt \in Int /\ request[call[d].of].attempt \in Int
        /\ request'[call[d].of].attempt \in Int
    BY <2>2 DEF CallOK, RequestOK
  <2>4. QED
    BY <1>1, <2>2, <2>3 DEF AttemptsGrow, HoldOf
<1>5. QED
  BY <1>2, <1>3, <1>4 DEF CallOK, HoldOf

LEMMA SummaryKept ==
    ASSUME SummaryOK, UNCHANGED summary, Unlocked \/ hold' = hold,
           RequestOK, RequestOK', AttemptsGrow
    PROVE  SummaryOK'
<1>1. summary.open => summary.release \subseteq InStatus("active")'
  BY DEF SummaryOK, Unlocked, InStatus
<1>2. ASSUME NEW r \in summary.fail PROVE request'[r].attempt > 0
  <2>1. r \in Request /\ request[r].attempt > 0
    BY DEF SummaryOK
  <2>2. request[r].attempt \in Int /\ request'[r].attempt \in Int
    BY <2>1 DEF RequestOK
  <2>3. QED
    BY <2>1, <2>2 DEF AttemptsGrow
<1>3. QED
  BY <1>1, <1>2 DEF SummaryOK

LEMMA OthersKept == OthersOK /\ UNCHANGED Others => OthersOK' /\ UNCHANGED summary
BY DEF OthersOK, Others

LEMMA EnterPreserves ==
    ASSUME GInv, NEW c \in Call, NEW r \in Request, Enter(c, r)
    PROVE  GInv'
<1>1. AccountOK' /\ RequestOK' /\ AttemptsGrow /\ OthersOK' /\ UNCHANGED summary /\ hold' = hold
  BY AccountUnchanged, RequestUnchanged, OthersKept DEF GInv, Enter, account
<1>2. CallOK'
  <2>1. \A d \in Call \ {c} : call'[d] = call[d]
    BY DEF Enter, GInv, CallOK
  <2>2. call'[c] = [at |-> "begin", of |-> r, attempt |-> 0]
    BY DEF Enter, GInv, CallOK
  <2>3. request' = request
    BY DEF Enter
  <2>4. 0 \in 0..MaxAttempts
    BY BillingAssumption
  <2>5. call' \in [Call -> [at : Place, of : Request \cup {"none"}, attempt : 0..MaxAttempts]]
    BY <2>4 DEF Enter, GInv, CallOK, Place, HoldsLoop
  <2>6. QED
    BY <2>1, <2>2, <2>3, <2>5 DEF GInv, CallOK, HoldOf
<1>3. SummaryOK'
  BY <1>1, SummaryKept DEF GInv
<1>4. QED
  BY <1>1, <1>2, <1>3 DEF GInv

LEMMA BeginPreserves ==
    ASSUME GInv, NEW c \in Call, Begin(c)
    PROVE  GInv'
<1> DEFINE r == call[c].of
           n == request[r].attempt + 1
<1>1. r \in Request
  BY CallFacts DEF GInv, Begin
<1>2. AccountOK' /\ OthersOK' /\ UNCHANGED summary /\ hold' = hold
  BY AccountUnchanged, OthersKept DEF GInv, Begin, account
<1>3. CASE /\ n <= MaxAttempts
           /\ request' = [request EXCEPT ![r].status = "running", ![r].attempt = n]
           /\ call' = [call EXCEPT ![c] = [at |-> "admitted", of |-> r, attempt |-> n]]
  <2>1. n \in 1..MaxAttempts /\ request[r].attempt \in Int
    BY <1>1, <1>3, BillingAssumption DEF GInv, RequestOK
  <2>2. RequestOK'
    BY <1>1, <1>3, <2>1 DEF GInv, RequestOK
  <2>3. \A s \in Request : request[s].attempt \in Int /\ request[s].attempt <= request'[s].attempt
    BY <1>1, <1>3, <2>1 DEF GInv, RequestOK
  <2>4. AttemptsGrow
    BY <2>3 DEF AttemptsGrow
  <2>5. <<r, n>> \in Hold
    BY <1>1, <2>1 DEF Hold
  <2>6. CallOK'
    <3>1. call' \in [Call -> [at : Place, of : Request \cup {"none"}, attempt : 0..MaxAttempts]]
      BY <1>1, <1>3, <2>1 DEF GInv, CallOK, Place
    <3>2. ASSUME NEW d \in Call, call'[d].at \notin {"idle", "begin", "done"}
          PROVE  <<call'[d].of, call'[d].attempt>> \in Hold
                 /\ call'[d].attempt <= request'[call'[d].of].attempt
      <4>1. CASE d = c
        <5>1. call'[c] = [at |-> "admitted", of |-> r, attempt |-> n] /\ request'[r].attempt = n
          BY <1>1, <1>3 DEF GInv, CallOK, RequestOK
        <5>2. QED
          BY <2>1, <2>5, <4>1, <5>1
      <4>2. CASE d # c
        <5>1. call'[d] = call[d]
          BY <1>3, <4>2 DEF GInv, CallOK
        <5>2. HoldOf(d) \in Hold /\ call[d].attempt <= request[call[d].of].attempt
              /\ call[d].of \in Request /\ call[d].attempt \in Int
          BY <3>2, <5>1 DEF GInv, CallOK
        <5>3. request'[call[d].of].attempt \in Int
          BY <2>2, <5>2 DEF RequestOK
        <5>4. QED
          BY <2>3, <5>1, <5>2, <5>3 DEF HoldOf
      <4>3. QED
        BY <4>1, <4>2
    <3>3. \A d \in Call : call'[d].at # "idle" => call'[d].of \in Request
      BY <1>1, <1>3 DEF GInv, CallOK
    <3>4. QED
      BY <3>1, <3>2, <3>3 DEF CallOK, HoldOf
  <2>7. SummaryOK'
    BY <1>2, <2>2, <2>4, SummaryKept DEF GInv
  <2>8. QED
    BY <1>2, <2>2, <2>6, <2>7 DEF GInv
<1>4. ASSUME NEW place \in {"joined", "done", "cached"},
             call' = [call EXCEPT ![c] = [at |-> place, of |-> r, attempt |-> request[r].attempt]],
             request[r].status # "none", UNCHANGED request
      PROVE  GInv'
  <2>1. request[r].attempt \in 1..MaxAttempts
    BY <1>1, <1>4, BillingAssumption DEF GInv, RequestOK
  <2>2. RequestOK' /\ AttemptsGrow
    BY <1>4, RequestUnchanged DEF GInv
  <2>3. <<r, request[r].attempt>> \in Hold
    BY <1>1, <2>1 DEF Hold
  <2>4. CallOK'
    <3>1. call' \in [Call -> [at : Place, of : Request \cup {"none"}, attempt : 0..MaxAttempts]]
      BY <1>1, <1>4, <2>1 DEF GInv, CallOK, Place, HoldsLoop
    <3>2. \A d \in Call \ {c} : call'[d] = call[d]
      BY <1>4 DEF GInv, CallOK
    <3>3. call'[c] = [at |-> place, of |-> r, attempt |-> request[r].attempt]
      BY <1>4 DEF GInv, CallOK
    <3>4. QED
      BY <1>1, <1>4, <2>1, <2>3, <3>1, <3>2, <3>3 DEF GInv, CallOK, HoldOf
  <2>5. SummaryOK'
    BY <1>2, <2>2, SummaryKept DEF GInv
  <2>6. QED
    BY <1>2, <2>2, <2>4, <2>5 DEF GInv
<1>5. QED
  BY <1>3, <1>4 DEF Begin

\* The parts of the invariant that a step of a running call leaves to be shown.
LEMMA CallStep ==
    ASSUME GInv, NEW c \in Call, NEW places \in SUBSET (Place \ {"idle"}), CallIn(c, places),
           NEW place \in Place, Goes(c, place),
           place = "done" \/ places \cap {"begin", "done"} = {},
           UNCHANGED Others, Unlocked \/ hold' = hold,
           AccountOK', RequestOK', AttemptsGrow
    PROVE  GInv'
<1>1. call[c].at \in places
  BY DEF CallIn
<1>2. CallOK'
  BY <1>1, CallGoes DEF GInv
<1>3. OthersOK' /\ SummaryOK'
  BY OthersKept, SummaryKept DEF GInv
<1>4. QED
  BY <1>2, <1>3 DEF GInv

LEMMA StartedRequest ==
    ASSUME GInv, NEW c \in Call, call[c].at \notin {"idle", "begin", "done"}
    PROVE  /\ call[c].of \in Request /\ HoldOf(c) \in Hold
           /\ request[call[c].of].attempt > 0
           /\ request[call[c].of].cost \in Nat
<1>1. call[c].of \in Request /\ HoldOf(c) \in Hold /\ call[c].attempt <= request[call[c].of].attempt
  BY DEF GInv, CallOK
<1>2. call[c].attempt \in 1..MaxAttempts /\ request[call[c].of].attempt \in Int
  BY <1>1 DEF HoldOf, Hold, GInv, RequestOK
<1>3. QED
  BY <1>1, <1>2 DEF GInv, RequestOK

LEMMA ReadingPreserves ==
    ASSUME GInv, NEW c \in Call, Join(c) \/ Send(c) \/ TransactionFails(c)
    PROVE  GInv'
<1>1. AccountOK' /\ RequestOK' /\ AttemptsGrow /\ UNCHANGED Others /\ hold' = hold
  BY AccountUnchanged, RequestUnchanged DEF GInv, Join, Send, TransactionFails, account
<1>2. CASE Join(c)
  <2>1. PICK place \in {"cached", "done"} : Goes(c, place)
    BY <1>2 DEF Join
  <2>2. CallIn(c, {"joined"})
    BY <1>2 DEF Join
  <2>3. QED
    BY <1>1, <2>1, <2>2, CallStep DEF Place, HoldsLoop
<1>3. CASE Send(c)
  <2>1. CallIn(c, {"reserved"}) /\ Goes(c, "streaming")
    BY <1>3 DEF Send
  <2>2. QED
    BY <1>1, <2>1, CallStep DEF Place, HoldsLoop
<1>4. CASE TransactionFails(c)
  <2>1. CallIn(c, Place \ {"idle", "done"}) /\ Goes(c, "done")
    BY <1>4 DEF TransactionFails
  <2>2. QED
    BY <1>1, <2>1, CallStep DEF Place, HoldsLoop
<1>5. QED
  BY <1>2, <1>3, <1>4

LEMMA OutcomePreserves ==
    ASSUME GInv, NEW c \in Call, Finish(c) \/ Fail(c)
    PROVE  GInv'
<1>1. AccountOK' /\ UNCHANGED Others /\ hold' = hold
  BY AccountUnchanged DEF GInv, Finish, Fail, account
<1>2. CASE Finish(c)
  <2>1. CallIn(c, {"streaming"}) /\ Goes(c, "settling")
    BY <1>2 DEF Finish
  <2>2. call[c].of \in Request /\ request[call[c].of].attempt > 0
    BY <2>1, StartedRequest DEF CallIn
  <2>3. PICK cost \in Cost :
          request' = [request EXCEPT ![call[c].of].status = "succeeded", ![call[c].of].cost = cost]
    BY <1>2 DEF Finish
  <2>4. cost \in Nat
    BY GatewayAssumption
  <2>5. RequestOK' /\ AttemptsGrow
    BY <2>2, <2>3, <2>4 DEF GInv, RequestOK, AttemptsGrow
  <2>6. QED
    BY <1>1, <2>1, <2>5, CallStep DEF Place, HoldsLoop
<1>3. CASE Fail(c)
  <2>1. CallIn(c, {"failing", "admitted"}) /\ Goes(c, "done") /\ request' = Failed({call[c].of})
    BY <1>3 DEF Fail
  <2>2. call[c].of \in Request /\ request[call[c].of].attempt > 0
    BY <2>1, StartedRequest DEF CallIn
  <2>3. RequestOK' /\ AttemptsGrow
    BY <2>1, <2>2, FailedTyped DEF GInv
  <2>4. QED
    BY <1>1, <2>1, <2>3, CallStep DEF Place, HoldsLoop
<1>4. QED
  BY <1>2, <1>3

LEMMA ChargingPreserves ==
    ASSUME GInv, NEW c \in Call, SettleCached(c) \/ SettleCall(c)
    PROVE  GInv'
<1>1. UNCHANGED request /\ UNCHANGED Others /\ Goes(c, "done") /\ CallIn(c, {"cached", "settling"})
  BY DEF SettleCached, SettleCall, CallIn
<1>2. RequestOK' /\ AttemptsGrow
  BY <1>1, RequestUnchanged DEF GInv
<1>3. HoldOf(c) \in Hold /\ request[call[c].of].cost \in Nat
  BY <1>1, StartedRequest DEF CallIn
<1>4. CASE UNCHANGED account
  <2>1. AccountOK' /\ hold' = hold
    BY <1>4, AccountUnchanged DEF GInv, account
  <2>2. QED
    BY <1>1, <1>2, <2>1, CallStep DEF Place, HoldsLoop
<1>5. CASE Settle(HoldOf(c), request[call[c].of].cost)
  <2>1. AccountOK' /\ Unlocked
    BY <1>3, <1>5, SettlePreserves DEF GInv, Settle
  <2>2. QED
    BY <1>1, <1>2, <2>1, CallStep DEF Place, HoldsLoop
<1>6. QED
  BY <1>4, <1>5 DEF SettleCached, SettleCall

LEMMA HoldingPreserves ==
    ASSUME GInv, NEW c \in Call, ReserveCredit(c) \/ ReleaseCredit(c)
    PROVE  GInv'
<1>1. CASE ReserveCredit(c)
  <2>1. PICK place \in {"streaming", "reserved"} : Goes(c, place)
    BY <1>1 DEF ReserveCredit
  <2>2. CallIn(c, {"admitted"}) /\ UNCHANGED Others /\ Reserve(HoldOf(c))
    BY <1>1 DEF ReserveCredit
  <2>3. HoldOf(c) \in Hold
    BY <2>2, StartedRequest DEF CallIn
  <2>4. AccountOK' /\ RequestOK' /\ AttemptsGrow /\ Unlocked
    BY <2>2, <2>3, ReservePreserves DEF GInv, Reserve
  <2>5. QED
    BY <2>1, <2>2, <2>4, CallStep DEF Place, HoldsLoop
<1>2. CASE ReleaseCredit(c)
  <2>1. CallIn(c, {"reserved", "streaming"}) /\ UNCHANGED request /\ UNCHANGED Others
        /\ Release(HoldOf(c)) /\ Goes(c, "failing")
    BY <1>2 DEF ReleaseCredit
  <2>2. HoldOf(c) \in Hold
    BY <2>1, StartedRequest DEF CallIn
  <2>3. AccountOK' /\ RequestOK' /\ AttemptsGrow /\ Unlocked
    BY <2>1, <2>2, ReleasePreserves, RequestUnchanged DEF GInv, Release
  <2>4. QED
    BY <2>1, <2>3, CallStep DEF Place, HoldsLoop
<1>3. QED
  BY <1>1, <1>2

LEMMA CrashPreserves == GInv /\ Crash => GInv'
<1> SUFFICES ASSUME GInv, Crash PROVE GInv'
  OBVIOUS
<1>1. AccountOK' /\ RequestOK' /\ AttemptsGrow /\ OthersOK' /\ UNCHANGED summary /\ hold' = hold
  BY AccountUnchanged, RequestUnchanged, OthersKept DEF GInv, Crash, account
<1>2. SummaryOK'
  BY <1>1, SummaryKept DEF GInv
<1>3. CallOK'
  BY DEF Crash, GInv, CallOK, HoldOf, Place
<1>4. QED
  BY <1>1, <1>2, <1>3 DEF GInv

LEMMA StutterPreserves == GInv /\ UNCHANGED vars => GInv'
<1> SUFFICES ASSUME GInv, UNCHANGED vars PROVE GInv'
  OBVIOUS
<1>1. AccountOK' /\ RequestOK' /\ AttemptsGrow
  BY AccountUnchanged, RequestUnchanged DEF GInv, vars
<1>2. OthersOK' /\ UNCHANGED summary /\ hold' = hold
  BY DEF GInv, OthersOK, vars, account
<1>3. SummaryOK'
  BY <1>1, <1>2, SummaryKept DEF GInv
<1>4. CallOK'
  BY <1>1, AttemptsKeepCalls DEF GInv, vars
<1>5. QED
  BY <1>1, <1>2, <1>3, <1>4 DEF GInv

-----------------------------------------------------------------------------
(* What entries of the ledger add up to.                                   *)

EntriesOK(E) == IsFiniteSet(E) /\ \A e \in E : e.balance \in Int /\ e.reserved \in Int

BalanceOf(E) == SumFunction([e \in E |-> e.balance])

ReservedOf(E) == SumFunction([e \in E |-> e.reserved])

LEMMA EntriesAreSummed ==
    ASSUME NEW E, EntriesOK(E), NEW F \in SUBSET E
    PROVE  /\ BalanceOf(F) = SumFunctionOnSet([e \in E |-> e.balance], F)
           /\ ReservedOf(F) = SumFunctionOnSet([e \in E |-> e.reserved], F)
           /\ BalanceOf(F) \in Int /\ ReservedOf(F) \in Int
<1>1. IsFiniteSet(F) /\ \A e \in F : e.balance \in Int /\ e.reserved \in Int
  BY FS_Subset DEF EntriesOK
<1>2. SumFunctionOnSet([e \in F |-> e.balance], F) = SumFunctionOnSet([e \in E |-> e.balance], F)
  BY <1>1, SumAgrees
<1>3. SumFunctionOnSet([e \in F |-> e.reserved], F) = SumFunctionOnSet([e \in E |-> e.reserved], F)
  BY <1>1, SumAgrees
<1>4. SumFunctionOnSet([e \in F |-> e.balance], F) \in Int
  BY <1>1, SumWithout
<1>5. SumFunctionOnSet([e \in F |-> e.reserved], F) \in Int
  BY <1>1, SumWithout
<1>6. QED
  BY <1>2, <1>3, <1>4, <1>5 DEF BalanceOf, ReservedOf, SumFunction

LEMMA EntriesOfUnion ==
    ASSUME NEW E, NEW F, EntriesOK(E), EntriesOK(F), E \cap F = {}
    PROVE  /\ EntriesOK(E \cup F)
           /\ BalanceOf(E \cup F) = BalanceOf(E) + BalanceOf(F)
           /\ ReservedOf(E \cup F) = ReservedOf(E) + ReservedOf(F)
           /\ BalanceOf(E) \in Int /\ ReservedOf(E) \in Int
           /\ BalanceOf(F) \in Int /\ ReservedOf(F) \in Int
<1> DEFINE b == [e \in E \cup F |-> e.balance]
           r == [e \in E \cup F |-> e.reserved]
<1>1. EntriesOK(E \cup F)
  BY FS_Union DEF EntriesOK
<1>2. BalanceOf(E \cup F) = SumFunctionOnSet(b, E \cup F)
      /\ ReservedOf(E \cup F) = SumFunctionOnSet(r, E \cup F)
  BY <1>1, EntriesAreSummed
<1>3. /\ BalanceOf(E) = SumFunctionOnSet(b, E) /\ ReservedOf(E) = SumFunctionOnSet(r, E)
      /\ BalanceOf(E) \in Int /\ ReservedOf(E) \in Int
  BY <1>1, EntriesAreSummed
<1>4. /\ BalanceOf(F) = SumFunctionOnSet(b, F) /\ ReservedOf(F) = SumFunctionOnSet(r, F)
      /\ BalanceOf(F) \in Int /\ ReservedOf(F) \in Int
  BY <1>1, EntriesAreSummed
<1>5. IsFiniteSet(E) /\ IsFiniteSet(F) /\ \A e \in E \cup F : b[e] \in Int /\ r[e] \in Int
  BY DEF EntriesOK
<1>6. SumFunctionOnSet(b, E \cup F) = SumFunctionOnSet(b, E) + SumFunctionOnSet(b, F)
  BY <1>5, SumUnion
<1>7. SumFunctionOnSet(r, E \cup F) = SumFunctionOnSet(r, E) + SumFunctionOnSet(r, F)
  BY <1>5, SumUnion
<1>8. QED
  BY <1>1, <1>2, <1>3, <1>4, <1>6, <1>7

LEMMA OneEntry ==
    ASSUME NEW e, e.balance \in Int, e.reserved \in Int
    PROVE  EntriesOK({e}) /\ BalanceOf({e}) = e.balance /\ ReservedOf({e}) = e.reserved
<1>1. EntriesOK({e})
  BY FS_Singleton DEF EntriesOK
<1>2. SumFunctionOnSet([x \in {e} |-> x.balance], {e}) = e.balance
  BY SumOfOne
<1>3. SumFunctionOnSet([x \in {e} |-> x.reserved], {e}) = e.reserved
  BY SumOfOne
<1>4. QED
  BY <1>1, <1>2, <1>3 DEF BalanceOf, ReservedOf, SumFunction

LEMMA NoEntries == EntriesOK({}) /\ BalanceOf({}) = 0 /\ ReservedOf({}) = 0
<1>1. EntriesOK({})
  BY FS_EmptySet DEF EntriesOK
<1>2. BalanceOf({}) = SumFunctionOnSet([e \in {} |-> e.balance], {})
      /\ ReservedOf({}) = SumFunctionOnSet([e \in {} |-> e.reserved], {})
  BY <1>1, EntriesAreSummed
<1>3. QED
  BY <1>1, <1>2, SumEmpty

\* Entries that are not posted because their amounts are zero are not missed.
LEMMA AppendAdds ==
    ASSUME EntriesOK(ledger), NEW E, EntriesOK(E), \A e \in E : ~Posted(e.key)
    PROVE  /\ EntriesOK(AppendEntries(E))
           /\ BalanceOf(AppendEntries(E)) = BalanceOf(ledger) + BalanceOf(E)
           /\ ReservedOf(AppendEntries(E)) = ReservedOf(ledger) + ReservedOf(E)
           /\ BalanceOf(ledger) \in Int /\ ReservedOf(ledger) \in Int
           /\ BalanceOf(E) \in Int /\ ReservedOf(E) \in Int
<1> DEFINE N == {e \in E : e.balance # 0 \/ e.reserved # 0}
           Z == E \ N
<1>1. AppendEntries(E) = ledger \cup N
  BY DEF AppendEntries
<1>2. ledger \cap N = {}
  BY DEF Posted
<1>3. EntriesOK(N) /\ EntriesOK(Z) /\ N \cap Z = {} /\ N \cup Z = E
  BY FS_Subset DEF EntriesOK
<1>4. /\ EntriesOK(ledger \cup N)
      /\ BalanceOf(ledger \cup N) = BalanceOf(ledger) + BalanceOf(N)
      /\ ReservedOf(ledger \cup N) = ReservedOf(ledger) + ReservedOf(N)
      /\ BalanceOf(ledger) \in Int /\ ReservedOf(ledger) \in Int
      /\ BalanceOf(N) \in Int /\ ReservedOf(N) \in Int
  BY <1>2, <1>3, EntriesOfUnion
<1>5. BalanceOf(N \cup Z) = BalanceOf(N) + BalanceOf(Z)
      /\ ReservedOf(N \cup Z) = ReservedOf(N) + ReservedOf(Z)
  BY <1>3, EntriesOfUnion
<1>6. BalanceOf(Z) = 0 /\ ReservedOf(Z) = 0
  <2>1. IsFiniteSet(Z) /\ \A e \in Z : e.balance = 0 /\ e.reserved = 0
    BY <1>3 DEF EntriesOK
  <2>2. SumFunctionOnSet([e \in Z |-> e.balance], Z) = 0
    BY <2>1, SumOfZeros
  <2>3. SumFunctionOnSet([e \in Z |-> e.reserved], Z) = 0
    BY <2>1, SumOfZeros
  <2>4. QED
    BY <2>2, <2>3 DEF BalanceOf, ReservedOf, SumFunction
<1> HIDE DEF N, Z
<1>7. BalanceOf(E) = BalanceOf(N) /\ ReservedOf(E) = ReservedOf(N)
  <2>1. BalanceOf(E) = BalanceOf(N) + BalanceOf(Z) /\ ReservedOf(E) = ReservedOf(N) + ReservedOf(Z)
    BY <1>3, <1>5
  <2>2. QED
    BY <1>4, <1>6, <2>1
<1>8. QED
  BY <1>1, <1>4, <1>7

\* The entries of a release take from the reserved amount what the holds held.
LEMMA ReleaseEntriesSum ==
    ASSUME NEW S \in SUBSET Hold
    PROVE  /\ EntriesOK(ReleaseEntries(S))
           /\ BalanceOf(ReleaseEntries(S)) = 0
           /\ ReservedOf(ReleaseEntries(S)) = - Held(S)
<1> DEFINE entry(h) == Entry(<<"release", h>>, 0, -Amount[h[1]])
           Good(U) == /\ EntriesOK(ReleaseEntries(U))
                      /\ BalanceOf(ReleaseEntries(U)) = 0
                      /\ ReservedOf(ReleaseEntries(U)) = - Held(U)
           Bad == {U \in SUBSET S : ~ Good(U)}
<1>1. IsFiniteSet(S)
  BY HoldIsFinite, FS_Subset
<1>2. SUFFICES ASSUME Bad # {} PROVE FALSE
  OBVIOUS
<1>3. PICK U \in Bad : \A h \in U : U \ {h} \notin Bad
  BY <1>1, <1>2, SmallestSubset
<1>4. U # {}
  <2>1. ReleaseEntries({}) = {} /\ Units({}) = {}
    BY DEF ReleaseEntries, Units
  <2>2. Held({}) = 0
    BY <2>1, FS_EmptySet DEF Held
  <2>3. Good({})
    BY <2>1, <2>2, NoEntries
  <2>4. QED
    BY <2>3
<1>5. PICK h \in U : TRUE
  BY <1>4
<1>6. h \in Hold /\ U \in SUBSET Hold /\ U \ {h} \in SUBSET Hold
  OBVIOUS
<1>7. Amount[h[1]] \in Nat
  BY <1>6, HeldByOne
<1>8. EntriesOK({entry(h)}) /\ BalanceOf({entry(h)}) = 0 /\ ReservedOf({entry(h)}) = -Amount[h[1]]
  <2>1. entry(h).balance = 0 /\ entry(h).reserved = -Amount[h[1]]
    BY DEF Entry
  <2>2. QED
    BY <1>7, <2>1, OneEntry
<1>9. ReleaseEntries(U) = ReleaseEntries(U \ {h}) \cup {entry(h)}
  BY DEF ReleaseEntries
<1>10. ReleaseEntries(U \ {h}) \cap {entry(h)} = {}
  BY DEF ReleaseEntries, Entry
<1>11. Good(U \ {h})
  BY <1>3, <1>5
<1>12. /\ EntriesOK(ReleaseEntries(U))
       /\ BalanceOf(ReleaseEntries(U)) = BalanceOf(ReleaseEntries(U \ {h})) + BalanceOf({entry(h)})
       /\ ReservedOf(ReleaseEntries(U)) = ReservedOf(ReleaseEntries(U \ {h})) + ReservedOf({entry(h)})
  <2> DEFINE E == ReleaseEntries(U \ {h})
  <2>1. EntriesOK(E) /\ EntriesOK({entry(h)}) /\ E \cap {entry(h)} = {}
    BY <1>8, <1>10, <1>11
  <2> HIDE DEF entry, E
  <2>2. /\ EntriesOK(E \cup {entry(h)})
        /\ BalanceOf(E \cup {entry(h)}) = BalanceOf(E) + BalanceOf({entry(h)})
        /\ ReservedOf(E \cup {entry(h)}) = ReservedOf(E) + ReservedOf({entry(h)})
    BY <2>1, EntriesOfUnion
  <2>3. QED
    BY <1>9, <2>2 DEF E
<1>13. Held(U) = Held(U \ {h}) + Amount[h[1]] /\ Held(U \ {h}) \in Nat
  <2>1. (U \ {h}) \cup {h} = U
    BY <1>5
  <2>2. Held((U \ {h}) \cup {h}) = Held(U \ {h}) + Amount[h[1]]
    BY <1>6, HeldWith
  <2>3. QED
    BY <1>6, <2>1, <2>2, UnitsAreFinite
<1>14. Good(U)
  BY <1>7, <1>8, <1>11, <1>12, <1>13
<1>15. QED
  BY <1>14

-----------------------------------------------------------------------------
(* The ledger: its keys follow the holds, its entries sum up to the account.   *)

\* What an entry says of its hold, the hold says too, so no entry is missed because
\* its key is there already.
KeysFollowHolds == \A h \in Hold :
    /\ Posted(<<"reserve", h>>) => hold[h].status # "none"
    /\ Posted(<<"release", h>>) => hold[h].status = "released"
    /\ Posted(<<"settle", h>>) => hold[h].status \in {"settled", "overrun"}

LedgerOK == EntriesOK(ledger) /\ KeysFollowHolds /\ reserved = ReservedOf(ledger)

\* Only a submission that is done has posted its key.
KeysFollowAdmin == \A a \in Admin : Posted(AdminKey(a)) => admin[a] = "done"

BalanceOK == KeysFollowAdmin /\ balance = BalanceOf(ledger)

\* The balance and the ledger change by the same amount, no adjustment is posted.
BooksBalance ==
    /\ balance' - BalanceOf(ledger)' = balance - BalanceOf(ledger)
    /\ BalanceOf(ledger) \in Int /\ BalanceOf(ledger)' \in Int
    /\ \A a \in Admin : Posted(AdminKey(a))' => Posted(AdminKey(a))

\* The steps that change the account; no submission is reopened.
AccountStep ==
    \/ \E h \in Hold, cost \in Nat : Settle(h, cost)
    \/ \E h \in Hold : Release(h) \/ Reserve(h)
    \/ SummaryCommits

LEMMA AccountSteps ==
    ASSUME GInv, [Next]_vars
    PROVE  /\ \A a \in Admin : admin[a] = "done" => admin'[a] = "done"
           /\ \/ UNCHANGED account
              \/ AccountStep
              \/ \E a \in Admin : AdjustApplies(a)
<1>1. CASE BillingNext
  <2>1. CASE SummaryReads \/ SummaryLost
    BY <2>1 DEF SummaryReads, SummaryLost
  <2>2. CASE SummaryCommits
    BY <2>2 DEF SummaryCommits, AccountStep
  <2>3. ASSUME NEW b \in Admin, AdjustLooks(b)
        PROVE  UNCHANGED account /\ \A a \in Admin : admin[a] = "done" => admin'[a] = "done"
    BY <2>3 DEF AdjustLooks, GInv, OthersOK
  <2>4. ASSUME NEW b \in Admin, AdjustApplies(b)
        PROVE  \A a \in Admin : admin[a] = "done" => admin'[a] = "done"
    BY <2>4 DEF AdjustApplies, GInv, OthersOK
  <2>5. ASSUME NEW j \in Job, JobMoves(j) \/ JobEnds(j) PROVE UNCHANGED <<account, admin>>
    BY <2>5 DEF JobMoves, JobEnds
  <2>6. QED
    BY <1>1, <2>1, <2>2, <2>3, <2>4, <2>5 DEF BillingNext
<1>2. ASSUME NEW c \in Call,
             \/ \E r \in Request : Enter(c, r)
             \/ Begin(c) \/ Join(c) \/ Send(c) \/ Finish(c) \/ Fail(c) \/ TransactionFails(c)
      PROVE  UNCHANGED <<account, admin>>
  BY <1>2 DEF Enter, Begin, Join, Send, Finish, Fail, TransactionFails, Others
<1>3. ASSUME NEW c \in Call, SettleCached(c) \/ SettleCall(c)
      PROVE  UNCHANGED admin /\ (UNCHANGED account \/ AccountStep)
  <2>1. CallIn(c, {"cached", "settling"}) /\ UNCHANGED admin
        /\ (UNCHANGED account \/ Settle(HoldOf(c), request[call[c].of].cost))
    BY <1>3 DEF SettleCached, SettleCall, CallIn, Others
  <2>2. HoldOf(c) \in Hold /\ request[call[c].of].cost \in Nat
    BY <2>1, StartedRequest DEF CallIn
  <2>3. QED
    BY <2>1, <2>2 DEF AccountStep
<1>4. ASSUME NEW c \in Call, ReserveCredit(c) \/ ReleaseCredit(c)
      PROVE  UNCHANGED admin /\ AccountStep
  <2>1. CallIn(c, {"admitted", "reserved", "streaming"}) /\ UNCHANGED admin
        /\ (Reserve(HoldOf(c)) \/ Release(HoldOf(c)))
    BY <1>4 DEF ReserveCredit, ReleaseCredit, CallIn, Others
  <2>2. HoldOf(c) \in Hold
    BY <2>1, StartedRequest DEF CallIn
  <2>3. QED
    BY <2>1, <2>2 DEF AccountStep
<1>5. CASE Crash
  BY <1>5 DEF Crash, Others
<1>6. CASE UNCHANGED vars
  BY <1>6 DEF vars
<1>7. QED
  BY <1>1, <1>2, <1>3, <1>4, <1>5, <1>6 DEF Next

\* A transaction posts entries with new keys and changes the account by their sums.
LEMMA PostingKeeps ==
    ASSUME GInv, LedgerOK, NEW E, EntriesOK(E), \A e \in E : ~Posted(e.key),
           ledger' = AppendEntries(E), KeysFollowHolds',
           balance' = balance + BalanceOf(E), reserved' = reserved + ReservedOf(E),
           \A e \in E : \A a \in Admin : e.key # AdminKey(a)
    PROVE  LedgerOK' /\ BooksBalance
<1>1. /\ EntriesOK(AppendEntries(E))
      /\ BalanceOf(AppendEntries(E)) = BalanceOf(ledger) + BalanceOf(E)
      /\ ReservedOf(AppendEntries(E)) = ReservedOf(ledger) + ReservedOf(E)
      /\ BalanceOf(ledger) \in Int /\ ReservedOf(ledger) \in Int
      /\ BalanceOf(E) \in Int /\ ReservedOf(E) \in Int
  BY AppendAdds DEF LedgerOK
<1>2. EntriesOK(ledger)' /\ BalanceOf(ledger)' = BalanceOf(AppendEntries(E))
      /\ ReservedOf(ledger)' = ReservedOf(AppendEntries(E))
  BY <1>1 DEF EntriesOK, BalanceOf, ReservedOf
<1>3. reserved' = ReservedOf(ledger)'
  BY <1>1, <1>2 DEF LedgerOK
<1>4. \A a \in Admin : Posted(AdminKey(a))' => Posted(AdminKey(a))
  BY DEF Posted, AppendEntries, AdminKey
<1>5. balance \in Int
  BY DEF GInv, AccountOK
<1>6. balance' - BalanceOf(ledger)' = balance - BalanceOf(ledger)
  BY <1>1, <1>2, <1>5
<1>7. QED
  BY <1>1, <1>2, <1>3, <1>4, <1>6 DEF LedgerOK, BooksBalance

LEMMA SettleBooks ==
    ASSUME GInv, LedgerOK, NEW h \in Hold, NEW cost \in Nat, Settle(h, cost)
    PROVE  LedgerOK' /\ BooksBalance
<1> DEFINE e == Entry(<<"settle", h>>, -cost, -Amount[h[1]])
<1>1. Amount[h[1]] \in Nat /\ Held({h}) = Amount[h[1]]
  BY HeldByOne
<1>2. e.balance = -cost /\ e.reserved = -Amount[h[1]] /\ e.key = <<"settle", h>>
  BY DEF Entry
<1>3. EntriesOK({e}) /\ BalanceOf({e}) = -cost /\ ReservedOf({e}) = -Amount[h[1]]
  BY <1>1, <1>2, OneEntry
<1>4. ~Posted(e.key)
  BY <1>2 DEF LedgerOK, KeysFollowHolds, Settle
<1>5. ledger' = AppendEntries({e}) /\ hold[h].status = "active" /\ balance' = balance - cost
  BY DEF Settle
<1>6. reserved' = reserved - Amount[h[1]]
  <2>1. {h} \in SUBSET InStatus("active") /\ InStatus("active") \in SUBSET Hold
    BY <1>5 DEF InStatus
  <2>2. Held({h}) <= Held(InStatus("active")) /\ Held(InStatus("active")) \in Nat
    BY <2>1, HeldWithout, UnitsAreFinite
  <2>3. QED
    BY <1>1, <2>2 DEF Settle, Less, GInv, AccountOK, HoldsAreReserved
<1>7. KeysFollowHolds'
  <2>1. \A k \in Hold \ {h} : hold'[k] = hold[k]
    BY DEF Settle, Put
  <2>2. hold'[h].status \in {"settled", "overrun"}
    BY DEF Settle, Put
  <2>3. \A key : Posted(key)' => Posted(key) \/ key = <<"settle", h>>
    BY <1>2, <1>5 DEF Posted, AppendEntries
  <2>4. QED
    BY <1>5, <2>1, <2>2, <2>3 DEF LedgerOK, KeysFollowHolds
<1>8. balance \in Int /\ reserved \in Nat
  BY DEF GInv, AccountOK
<1>9. balance' = balance + BalanceOf({e}) /\ reserved' = reserved + ReservedOf({e})
  BY <1>1, <1>3, <1>5, <1>6, <1>8
<1>10. \A a \in Admin : e.key # AdminKey(a)
  BY <1>2 DEF AdminKey
<1> HIDE DEF e
<1>11. QED
  BY <1>3, <1>4, <1>5, <1>7, <1>9, <1>10, PostingKeeps

\* Holds that are released take their amounts along.
LEMMA ReleaseBooks ==
    ASSUME GInv, LedgerOK, NEW S \in SUBSET InStatus("active"),
           hold' = Put(S, "released", 0), reserved' = Less(reserved, Held(S)),
           ledger' = AppendEntries(ReleaseEntries(S)), UNCHANGED balance
    PROVE  LedgerOK' /\ BooksBalance
<1> DEFINE E == ReleaseEntries(S)
<1>1. S \in SUBSET Hold /\ InStatus("active") \in SUBSET Hold
  BY DEF InStatus
<1>2. EntriesOK(E) /\ BalanceOf(E) = 0 /\ ReservedOf(E) = - Held(S)
  BY <1>1, ReleaseEntriesSum
<1>3. \A e \in E : \E h \in S : e.key = <<"release", h>>
  BY DEF ReleaseEntries, Entry
<1>4. \A h \in S : h \in Hold /\ hold[h].status = "active"
  BY DEF InStatus
<1>5. \A e \in E : ~Posted(e.key)
  BY <1>3, <1>4 DEF LedgerOK, KeysFollowHolds
<1>6. reserved' = reserved - Held(S)
  <2>1. Held(S) <= Held(InStatus("active")) /\ Held(InStatus("active")) \in Nat /\ Held(S) \in Nat
    BY <1>1, HeldWithout, UnitsAreFinite
  <2>2. QED
    BY <2>1 DEF Less, GInv, AccountOK, HoldsAreReserved
<1>7. KeysFollowHolds'
  <2>1. \A k \in Hold : hold'[k] = IF k \in S THEN [status |-> "released", charged |-> 0] ELSE hold[k]
    BY DEF Put
  <2>2. \A key : Posted(key)' => Posted(key) \/ \E h \in S : key = <<"release", h>>
    BY <1>3 DEF Posted, AppendEntries
  <2>3. ASSUME NEW k \in Hold
        PROVE  /\ Posted(<<"reserve", k>>)' => Posted(<<"reserve", k>>)
               /\ Posted(<<"release", k>>)' => Posted(<<"release", k>>) \/ k \in S
               /\ Posted(<<"settle", k>>)' => Posted(<<"settle", k>>)
    <3>1. \A g : <<"reserve", k>> # <<"release", g>> /\ <<"settle", k>> # <<"release", g>>
                 /\ (<<"release", k>> = <<"release", g>> => k = g)
      OBVIOUS
    <3>2. QED
      BY <2>2, <3>1
  <2>4. ASSUME NEW k \in Hold
        PROVE  /\ Posted(<<"reserve", k>>)' => hold'[k].status # "none"
               /\ Posted(<<"release", k>>)' => hold'[k].status = "released"
               /\ Posted(<<"settle", k>>)' => hold'[k].status \in {"settled", "overrun"}
    <3>1. /\ Posted(<<"reserve", k>>) => hold[k].status # "none"
          /\ Posted(<<"release", k>>) => hold[k].status = "released"
          /\ Posted(<<"settle", k>>) => hold[k].status \in {"settled", "overrun"}
      BY DEF LedgerOK, KeysFollowHolds
    <3>2. QED
      BY <1>4, <2>1, <2>3, <3>1
  <2>5. QED
    BY <2>4 DEF KeysFollowHolds
<1>8. balance \in Int /\ reserved \in Nat /\ Held(S) \in Nat
  BY <1>1, UnitsAreFinite DEF GInv, AccountOK
<1>9. balance' = balance + BalanceOf(E) /\ reserved' = reserved + ReservedOf(E)
  BY <1>2, <1>6, <1>8
<1>10. \A e \in E : \A a \in Admin : e.key # AdminKey(a)
  BY <1>3 DEF AdminKey
<1>11. ledger' = AppendEntries(E)
  OBVIOUS
<1> HIDE DEF E
<1>12. QED
  BY <1>2, <1>5, <1>7, <1>9, <1>10, <1>11, PostingKeeps

LEMMA ReserveBooks ==
    ASSUME GInv, LedgerOK, NEW h \in Hold, Reserve(h)
    PROVE  LedgerOK' /\ BooksBalance
<1> DEFINE T == TerminalJobHolds
           e == Entry(<<"reserve", h>>, 0, Amount[h[1]])
           E == ReleaseEntries(T) \cup {e}
<1>1. T \in SUBSET InStatus("active") /\ T \in SUBSET Hold /\ InStatus("active") \in SUBSET Hold
  BY DEF TerminalJobHolds, InStatus
<1>2. \A k \in T : k \in Hold /\ hold[k].status = "active"
  BY DEF TerminalJobHolds, InStatus
<1>3. Amount[h[1]] \in Nat
  BY HeldByOne
<1>4. e.balance = 0 /\ e.reserved = Amount[h[1]] /\ e.key = <<"reserve", h>>
  BY DEF Entry
<1>5. \A x \in ReleaseEntries(T) : \E k \in T : x.key = <<"release", k>>
  BY DEF ReleaseEntries, Entry
<1>6. EntriesOK({e}) /\ BalanceOf({e}) = 0 /\ ReservedOf({e}) = Amount[h[1]]
  BY <1>3, <1>4, OneEntry
<1>7. EntriesOK(ReleaseEntries(T)) /\ BalanceOf(ReleaseEntries(T)) = 0
      /\ ReservedOf(ReleaseEntries(T)) = - Held(T)
  BY <1>1, ReleaseEntriesSum
<1>8. ReleaseEntries(T) \cap {e} = {}
  BY <1>4, <1>5
<1>9. hold[h].status = "none" /\ balance' = balance /\ ledger' = AppendEntries(E)
      /\ reserved' = Less(reserved, Held(T)) + Amount[h[1]]
  BY DEF Reserve
<1>10. reserved' = reserved - Held(T) + Amount[h[1]] /\ Held(T) \in Nat
  <2>1. Held(T) <= Held(InStatus("active")) /\ Held(InStatus("active")) \in Nat /\ Held(T) \in Nat
    BY <1>1, HeldWithout, UnitsAreFinite
  <2>2. QED
    BY <1>3, <1>9, <2>1 DEF Less, GInv, AccountOK, HoldsAreReserved
<1>11. KeysFollowHolds'
  <2>1. \A k \in Hold : hold'[k] = IF k = h THEN [status |-> "active", charged |-> 0]
                                   ELSE IF k \in T THEN [status |-> "released", charged |-> 0]
                                   ELSE hold[k]
    BY DEF Reserve, Put
  <2>2. \A key : Posted(key)' =>
                   Posted(key) \/ key = <<"reserve", h>> \/ \E k \in T : key = <<"release", k>>
    BY <1>4, <1>5, <1>9 DEF Posted, AppendEntries
  <2>3. ASSUME NEW k \in Hold
        PROVE  /\ Posted(<<"reserve", k>>)' => Posted(<<"reserve", k>>) \/ k = h
               /\ Posted(<<"release", k>>)' => Posted(<<"release", k>>) \/ k \in T
               /\ Posted(<<"settle", k>>)' => Posted(<<"settle", k>>)
    <3>1. \A g : /\ <<"reserve", k>> # <<"release", g>> /\ <<"settle", k>> # <<"release", g>>
                 /\ <<"release", k>> # <<"reserve", g>> /\ <<"settle", k>> # <<"reserve", g>>
                 /\ <<"release", k>> = <<"release", g>> => k = g
                 /\ <<"reserve", k>> = <<"reserve", g>> => k = g
      OBVIOUS
    <3>2. QED
      BY <2>2, <3>1
  <2>4. h \notin T
    BY <1>2, <1>9
  <2>5. ASSUME NEW k \in Hold
        PROVE  /\ Posted(<<"reserve", k>>)' => hold'[k].status # "none"
               /\ Posted(<<"release", k>>)' => hold'[k].status = "released"
               /\ Posted(<<"settle", k>>)' => hold'[k].status \in {"settled", "overrun"}
    <3>1. /\ Posted(<<"reserve", k>>) => hold[k].status # "none"
          /\ Posted(<<"release", k>>) => hold[k].status = "released"
          /\ Posted(<<"settle", k>>) => hold[k].status \in {"settled", "overrun"}
      BY DEF LedgerOK, KeysFollowHolds
    <3>2. QED
      BY <1>2, <1>9, <2>1, <2>3, <2>4, <3>1
  <2>6. QED
    BY <2>5 DEF KeysFollowHolds
<1>12. \A x \in E : ~Posted(x.key) /\ \A a \in Admin : x.key # AdminKey(a)
  <2>1. \A k \in T : ~Posted(<<"release", k>>) /\ \A a \in Admin : <<"release", k>> # AdminKey(a)
    BY <1>2 DEF LedgerOK, KeysFollowHolds, AdminKey
  <2>2. ~Posted(<<"reserve", h>>) /\ \A a \in Admin : <<"reserve", h>> # AdminKey(a)
    BY <1>9 DEF LedgerOK, KeysFollowHolds, AdminKey
  <2>3. ASSUME NEW x \in ReleaseEntries(T)
        PROVE  ~Posted(x.key) /\ \A a \in Admin : x.key # AdminKey(a)
    BY <1>5, <2>1
  <2>4. QED
    BY <1>4, <2>2, <2>3
<1>13. balance \in Int /\ reserved \in Nat
  BY DEF GInv, AccountOK
<1> DEFINE R == ReleaseEntries(T)
<1> HIDE DEF T, e, R
<1>14. EntriesOK(R \cup {e}) /\ BalanceOf(R \cup {e}) = 0
       /\ ReservedOf(R \cup {e}) = - Held(T) + Amount[h[1]]
  <2>1. EntriesOK(R) /\ BalanceOf(R) = 0 /\ ReservedOf(R) = - Held(T) /\ R \cap {e} = {}
    BY <1>7, <1>8 DEF R
  <2>2. /\ EntriesOK(R \cup {e})
        /\ BalanceOf(R \cup {e}) = BalanceOf(R) + BalanceOf({e})
        /\ ReservedOf(R \cup {e}) = ReservedOf(R) + ReservedOf({e})
    BY <1>6, <2>1, EntriesOfUnion
  <2>3. QED
    BY <1>3, <1>6, <1>10, <2>1, <2>2
<1>15. E = R \cup {e}
  BY DEF R
<1> HIDE DEF E
<1>16. EntriesOK(E) /\ BalanceOf(E) = 0 /\ ReservedOf(E) = - Held(T) + Amount[h[1]]
  BY <1>14, <1>15
<1>17. balance' = balance + BalanceOf(E) /\ reserved' = reserved + ReservedOf(E)
  BY <1>3, <1>9, <1>10, <1>13, <1>16
<1>18. QED
  BY <1>9, <1>11, <1>12, <1>16, <1>17, PostingKeeps

LEMMA AccountStepBooks ==
    ASSUME GInv, LedgerOK, AccountStep
    PROVE  LedgerOK' /\ BooksBalance
<1>1. ASSUME NEW h \in Hold, NEW cost \in Nat, Settle(h, cost) PROVE LedgerOK' /\ BooksBalance
  BY <1>1, SettleBooks
<1>2. ASSUME NEW h \in Hold, Release(h) PROVE LedgerOK' /\ BooksBalance
  BY <1>2, ReleaseBooks DEF Release
<1>3. ASSUME NEW h \in Hold, Reserve(h) PROVE LedgerOK' /\ BooksBalance
  BY <1>3, ReserveBooks
<1>4. CASE SummaryCommits
  BY <1>4, ReleaseBooks DEF SummaryCommits, GInv, SummaryOK
<1>5. QED
  BY <1>1, <1>2, <1>3, <1>4 DEF AccountStep

\* An adjustment posts what it adds, unless its key is there.
LEMMA AdjustBooks ==
    ASSUME GInv, LedgerOK, NEW a \in Admin, AdjustApplies(a)
    PROVE  /\ LedgerOK'
           /\ \A key : Posted(key)' => Posted(key) \/ key = AdminKey(a)
           /\ ~Posted(AdminKey(a)) /\ BalanceOf(ledger) = balance => BalanceOf(ledger)' = balance'
<1> DEFINE e == Entry(AdminKey(a), Adds[a], 0)
<1>1. Adds[a] \in Int /\ balance \in Int /\ reserved \in Nat
  BY BillingAssumption DEF GInv, AccountOK
<1>2. e.balance = Adds[a] /\ e.reserved = 0 /\ e.key = AdminKey(a)
  BY DEF Entry
<1>3. EntriesOK({e}) /\ BalanceOf({e}) = Adds[a] /\ ReservedOf({e}) = 0
  BY <1>1, <1>2, OneEntry
<1>4. CASE UNCHANGED account
  BY <1>4 DEF account, LedgerOK, EntriesOK, KeysFollowHolds, Posted, ReservedOf, BalanceOf
<1>5. CASE ~ UNCHANGED account
  <2>1. /\ balance' = balance + Adds[a] /\ ledger' = AppendEntries({e})
        /\ reserved' = reserved /\ hold' = hold
    BY <1>5 DEF AdjustApplies
  <2>2. \A key : Posted(key)' => Posted(key) \/ key = AdminKey(a)
    BY <1>2, <2>1 DEF Posted, AppendEntries
  <2>3. KeysFollowHolds'
    BY <2>1, <2>2 DEF LedgerOK, KeysFollowHolds, AdminKey
  <2>4. CASE Posted(AdminKey(a))
    <3>1. ledger' = ledger
      BY <1>2, <2>1, <2>4 DEF AppendEntries
    <3>2. QED
      BY <2>1, <2>2, <2>3, <2>4, <3>1 DEF LedgerOK, EntriesOK, ReservedOf
  <2>5. CASE ~Posted(AdminKey(a))
    <3> HIDE DEF e
    <3>1. /\ EntriesOK(AppendEntries({e}))
          /\ BalanceOf(AppendEntries({e})) = BalanceOf(ledger) + BalanceOf({e})
          /\ ReservedOf(AppendEntries({e})) = ReservedOf(ledger) + ReservedOf({e})
          /\ BalanceOf(ledger) \in Int /\ ReservedOf(ledger) \in Int
      BY <1>2, <1>3, <2>5, AppendAdds DEF LedgerOK
    <3>2. EntriesOK(ledger)' /\ BalanceOf(ledger)' = BalanceOf(AppendEntries({e}))
          /\ ReservedOf(ledger)' = ReservedOf(AppendEntries({e}))
      BY <2>1, <3>1 DEF EntriesOK, BalanceOf, ReservedOf
    <3>3. reserved' = ReservedOf(ledger)'
      BY <1>1, <1>3, <2>1, <3>1, <3>2 DEF LedgerOK
    <3>4. BalanceOf(ledger) = balance => BalanceOf(ledger)' = balance'
      BY <1>1, <1>3, <2>1, <3>1, <3>2
    <3>5. QED
      BY <2>2, <2>3, <3>2, <3>3, <3>4 DEF LedgerOK
  <2>6. QED
    BY <2>4, <2>5
<1>6. QED
  BY <1>4, <1>5

LEMMA LedgerUnchanged ==
    ASSUME LedgerOK, UNCHANGED account
    PROVE  LedgerOK' /\ BalanceOf(ledger)' = BalanceOf(ledger) /\ \A key : Posted(key)' <=> Posted(key)
BY DEF account, LedgerOK, EntriesOK, KeysFollowHolds, Posted, ReservedOf, BalanceOf

-----------------------------------------------------------------------------
(* What is available, and the overruns.                                        *)

\* An overrun is charged more than was reserved.
OverrunsExceed == \A h \in InStatus("overrun") : hold[h].charged > Amount[h[1]]

SumOfExcess == SumFunction([h \in InStatus("overrun") |-> Excess(h)])

LEMMA ExcessIsTyped ==
    ASSUME GInv, OverrunsExceed
    PROVE  /\ IsFiniteSet(InStatus("overrun"))
           /\ \A h \in InStatus("overrun") : Excess(h) \in Nat
           /\ SumOfExcess \in Nat
<1>1. InStatus("overrun") \in SUBSET Hold /\ IsFiniteSet(InStatus("overrun"))
  BY HoldIsFinite, FS_Subset DEF InStatus
<1>2. \A h \in InStatus("overrun") : Excess(h) \in Nat
  <2>1. \A h \in InStatus("overrun") : Amount[h[1]] \in Nat /\ hold[h].charged \in Nat
    BY <1>1, HeldByOne DEF GInv, AccountOK
  <2>2. QED
    BY <2>1 DEF Excess, OverrunsExceed
<1>3. SumFunctionOnSet([h \in InStatus("overrun") |-> Excess(h)], InStatus("overrun")) \in Nat
  BY <1>1, <1>2, SumOfNaturals
<1>4. QED
  BY <1>1, <1>2, <1>3 DEF SumOfExcess, SumFunction

LEMMA ExcessUnchanged ==
    ASSUME GInv, OverrunsExceed, InStatus("overrun")' = InStatus("overrun"),
           \A h \in InStatus("overrun") : hold'[h] = hold[h]
    PROVE  OverrunsExceed' /\ SumOfExcess' = SumOfExcess
<1>1. OverrunsExceed'
  BY DEF OverrunsExceed
<1>2. [h \in InStatus("overrun") |-> Excess(h)]' = [h \in InStatus("overrun") |-> Excess(h)]
  BY DEF Excess
<1>3. QED
  BY <1>1, <1>2 DEF SumOfExcess

LEMMA SettleCovered ==
    ASSUME GInv, OverrunsExceed, Available + SumOfExcess >= 0,
           NEW h \in Hold, NEW cost \in Nat, Settle(h, cost)
    PROVE  OverrunsExceed' /\ (Available + SumOfExcess)' >= 0
<1> DEFINE O == InStatus("overrun")
<1>1. Amount[h[1]] \in Nat /\ Held({h}) = Amount[h[1]]
  BY HeldByOne
<1>2. hold[h].status = "active" /\ balance' = balance - cost
      /\ hold' = Put({h}, IF cost > Amount[h[1]] THEN "overrun" ELSE "settled", cost)
  BY DEF Settle
<1>3. reserved' = reserved - Amount[h[1]]
  <2>1. {h} \in SUBSET InStatus("active") /\ InStatus("active") \in SUBSET Hold
    BY <1>2 DEF InStatus
  <2>2. Held({h}) <= Held(InStatus("active")) /\ Held(InStatus("active")) \in Nat
    BY <2>1, HeldWithout, UnitsAreFinite
  <2>3. QED
    BY <1>1, <2>2 DEF Settle, Less, GInv, AccountOK, HoldsAreReserved
<1>4. balance \in Int /\ reserved \in Nat /\ SumOfExcess \in Nat
  BY ExcessIsTyped DEF GInv, AccountOK
<1>5. h \notin O /\ \A k \in O : hold'[k] = hold[k]
  BY <1>2 DEF InStatus, Put
<1>6. CASE cost > Amount[h[1]]
  <2> DEFINE F == [k \in O \cup {h} |-> IF k = h THEN cost - Amount[h[1]] ELSE Excess(k)]
  <2>1. O' = O \cup {h} /\ hold'[h] = [status |-> "overrun", charged |-> cost]
    BY <1>2, <1>6 DEF InStatus, Put
  <2>2. OverrunsExceed'
    BY <1>5, <1>6, <2>1 DEF OverrunsExceed
  <2>3. [k \in O |-> Excess(k)]' = F
    BY <1>5, <2>1 DEF Excess
  <2>4. SumOfExcess' = SumFunctionOnSet(F, O \cup {h})
    BY <2>1, <2>3 DEF SumOfExcess, SumFunction
  <2>5. IsFiniteSet(O) /\ IsFiniteSet(O \cup {h}) /\ \A k \in O : Excess(k) \in Nat
    BY ExcessIsTyped, FS_AddElement
  <2>6. \A k \in O \cup {h} : F[k] \in Int
    BY <1>1, <2>5
  <2>7. SumFunctionOnSet(F, O \cup {h}) = F[h] + SumFunctionOnSet(F, (O \cup {h}) \ {h})
    BY <2>5, <2>6, SumWithout
  <2>8. (O \cup {h}) \ {h} = O /\ F[h] = cost - Amount[h[1]]
    BY <1>5
  <2>9. SumFunctionOnSet(F, O) = SumFunctionOnSet([k \in O |-> Excess(k)], O)
    <3>1. \A k \in O : F[k] \in Int /\ F[k] = [j \in O |-> Excess(j)][k]
      BY <1>5, <2>5
    <3>2. QED
      BY <2>5, <3>1, SumAgrees
  <2>10. SumOfExcess' = cost - Amount[h[1]] + SumOfExcess
    BY <2>4, <2>7, <2>8, <2>9 DEF SumOfExcess, SumFunction
  <2>11. QED
    BY <1>1, <1>2, <1>3, <1>4, <2>2, <2>10 DEF Available
<1>7. CASE ~(cost > Amount[h[1]])
  <2>1. O' = O
    BY <1>2, <1>7 DEF InStatus, Put
  <2>2. OverrunsExceed' /\ SumOfExcess' = SumOfExcess
    BY <1>5, <2>1, ExcessUnchanged
  <2>3. QED
    BY <1>1, <1>2, <1>3, <1>4, <1>7, <2>2 DEF Available
<1>8. QED
  BY <1>6, <1>7

\* Holds that are released make more available.
LEMMA ReleaseCovered ==
    ASSUME GInv, OverrunsExceed, Available + SumOfExcess >= 0,
           NEW S \in SUBSET InStatus("active"),
           hold' = Put(S, "released", 0), reserved' = Less(reserved, Held(S)), UNCHANGED balance
    PROVE  OverrunsExceed' /\ (Available + SumOfExcess)' >= 0
<1>1. InStatus("overrun")' = InStatus("overrun") /\ \A k \in InStatus("overrun") : hold'[k] = hold[k]
  BY DEF InStatus, Put
<1>2. OverrunsExceed' /\ SumOfExcess' = SumOfExcess
  BY <1>1, ExcessUnchanged
<1>3. balance \in Int /\ reserved \in Nat /\ SumOfExcess \in Nat /\ Held(S) \in Nat
  BY ExcessIsTyped, UnitsAreFinite DEF GInv, AccountOK, InStatus
<1>4. QED
  BY <1>2, <1>3 DEF Available, Less

LEMMA ReserveCovered ==
    ASSUME GInv, OverrunsExceed, NEW h \in Hold, Reserve(h)
    PROVE  OverrunsExceed' /\ (Available + SumOfExcess)' >= 0
<1> DEFINE T == TerminalJobHolds
<1>1. InStatus("overrun")' = InStatus("overrun") /\ \A k \in InStatus("overrun") : hold'[k] = hold[k]
  BY DEF Reserve, InStatus, Put, TerminalJobHolds
<1>2. OverrunsExceed' /\ SumOfExcess' = SumOfExcess
  BY <1>1, ExcessUnchanged
<1>3. balance \in Int /\ reserved \in Nat /\ SumOfExcess \in Nat /\ Amount[h[1]] \in Nat
      /\ Held(T) \in Nat
  BY ExcessIsTyped, UnitsAreFinite, HeldByOne DEF GInv, AccountOK, TerminalJobHolds, InStatus
<1>4. /\ balance - Less(reserved, Held(T)) >= Amount[h[1]] /\ balance' = balance
      /\ reserved' = Less(reserved, Held(T)) + Amount[h[1]]
  BY DEF Reserve
<1>5. Less(reserved, Held(T)) \in Nat
  BY <1>3 DEF Less
<1>6. QED
  BY <1>2, <1>3, <1>4, <1>5 DEF Available

LEMMA AdjustCovered ==
    ASSUME GInv, OverrunsExceed, Available + SumOfExcess >= 0,
           NEW a \in Admin, AdjustApplies(a)
    PROVE  OverrunsExceed' /\ (Available + SumOfExcess)' >= 0
<1>1. hold' = hold
  BY DEF AdjustApplies, account
<1>2. OverrunsExceed' /\ SumOfExcess' = SumOfExcess
  BY <1>1, ExcessUnchanged DEF InStatus
<1>3. balance \in Int /\ reserved \in Nat /\ SumOfExcess \in Nat /\ Adds[a] \in Int
  BY ExcessIsTyped, BillingAssumption DEF GInv, AccountOK
<1>4. CASE UNCHANGED account
  BY <1>2, <1>4 DEF account, Available
<1>5. CASE /\ ~(Adds[a] < 0 /\ Available + Adds[a] < 0)
           /\ balance' = balance + Adds[a] /\ reserved' = reserved
  BY <1>2, <1>3, <1>5 DEF Available
<1>6. QED
  BY <1>4, <1>5 DEF AdjustApplies

-----------------------------------------------------------------------------
(* Theorems.                                                               *)

LEMMA GatewayStep == GInv /\ [Next]_vars => GInv'
<1> SUFFICES ASSUME GInv, [Next]_vars PROVE GInv'
  OBVIOUS
<1>1. CASE BillingNext /\ UNCHANGED call
  BY <1>1, BillingNextPreserves
<1>2. ASSUME NEW c \in Call, NEW r \in Request, Enter(c, r) PROVE GInv'
  BY <1>2, EnterPreserves
<1>3. ASSUME NEW c \in Call, Begin(c) PROVE GInv'
  BY <1>3, BeginPreserves
<1>4. ASSUME NEW c \in Call, Join(c) \/ Send(c) \/ TransactionFails(c) PROVE GInv'
  BY <1>4, ReadingPreserves
<1>5. ASSUME NEW c \in Call, Finish(c) \/ Fail(c) PROVE GInv'
  BY <1>5, OutcomePreserves
<1>6. ASSUME NEW c \in Call, SettleCached(c) \/ SettleCall(c) PROVE GInv'
  BY <1>6, ChargingPreserves
<1>7. ASSUME NEW c \in Call, ReserveCredit(c) \/ ReleaseCredit(c) PROVE GInv'
  BY <1>7, HoldingPreserves
<1>8. CASE Crash
  BY <1>8, CrashPreserves
<1>9. CASE UNCHANGED vars
  BY <1>9, StutterPreserves
<1>10. QED
  BY <1>1, <1>2, <1>3, <1>4, <1>5, <1>6, <1>7, <1>8, <1>9 DEF Next

\* The invariant holds in every reachable state, for any requests, calls, jobs,
\* amounts and costs.
THEOREM GatewayInvariance == Spec => []GInv
BY InitEstablishes, GatewayStep, PTL DEF Spec

\* Account, holds, ledger, requests and calls keep their types (model_gateway.py,
\* billing.py).
THEOREM BillingTypeCorrect == Spec => []BillingTypeOK
BY GatewayInvariance, GInvImplies, PTL

\* The reserved amount is the sum of the active holds after any interleaving of
\* calls, reconciliation, adjustments, jobs that end and crashes (billing.py).
THEOREM ReservedIsHeld == Spec => []HoldsAreReserved
BY GatewayInvariance, GInvImplies, PTL

\* The ledger explains the reserved amount in every reachable state: "derived from the
\* immutable credit ledger" (database.py:117), whatever keys adjustments carry.
THEOREM LedgerInvariance == Spec => []LedgerOK
<1>1. Init => LedgerOK
  BY NoEntries DEF Init, BillingInit, LedgerOK, KeysFollowHolds, Posted
<1>2. GInv /\ LedgerOK /\ [Next]_vars => LedgerOK'
  <2> SUFFICES ASSUME GInv, LedgerOK, [Next]_vars PROVE LedgerOK'
    OBVIOUS
  <2>1. UNCHANGED account \/ AccountStep \/ \E a \in Admin : AdjustApplies(a)
    BY AccountSteps
  <2>2. QED
    BY <2>1, LedgerUnchanged, AccountStepBooks, AdjustBooks
<1>3. QED
  BY <1>1, <1>2, GatewayInvariance, PTL DEF Spec

\* Adjustments with keys of their own.
DistinctKeys == \A a, b \in Admin : KeyOf[a] = KeyOf[b] => a = b

LEMMA BalanceStep ==
    ASSUME DistinctKeys, GInv, LedgerOK, BalanceOK, [Next]_vars
    PROVE  BalanceOK'
<1>1. \A a \in Admin : admin[a] = "done" => admin'[a] = "done"
  BY AccountSteps
<1>2. CASE UNCHANGED account
  <2>1. BalanceOf(ledger)' = BalanceOf(ledger) /\ \A key : Posted(key)' <=> Posted(key)
    BY <1>2, LedgerUnchanged
  <2>2. QED
    BY <1>1, <1>2, <2>1 DEF account, BalanceOK, KeysFollowAdmin, AdminKey
<1>3. CASE AccountStep
  <2>1. BooksBalance
    BY <1>3, AccountStepBooks
  <2>2. balance \in Int /\ balance' \in Int
    <3>1. GInv'
      BY GatewayStep
    <3>2. QED
      BY <3>1 DEF GInv, AccountOK
  <2>3. balance' = BalanceOf(ledger)'
    BY <2>1, <2>2 DEF BooksBalance, BalanceOK
  <2>4. \A a \in Admin : Posted(AdminKey(a))' => admin'[a] = "done"
    BY <1>1, <2>1 DEF BooksBalance, BalanceOK, KeysFollowAdmin
  <2>5. QED
    BY <2>3, <2>4 DEF BalanceOK, KeysFollowAdmin
<1>4. ASSUME NEW a \in Admin, AdjustApplies(a) PROVE BalanceOK'
  <2>1. /\ \A key : Posted(key)' => Posted(key) \/ key = AdminKey(a)
        /\ ~Posted(AdminKey(a)) /\ BalanceOf(ledger) = balance => BalanceOf(ledger)' = balance'
    BY <1>4, AdjustBooks
  <2>2. admin[a] = "looked" /\ admin'[a] = "done"
    BY <1>4 DEF AdjustApplies, GInv, OthersOK
  <2>3. ~Posted(AdminKey(a))
    BY <2>2 DEF BalanceOK, KeysFollowAdmin
  <2>4. ASSUME NEW b \in Admin, Posted(AdminKey(b))' PROVE admin'[b] = "done"
    <3>1. CASE Posted(AdminKey(b))
      BY <1>1, <3>1 DEF BalanceOK, KeysFollowAdmin
    <3>2. CASE AdminKey(b) = AdminKey(a)
      BY <2>2, <3>2 DEF DistinctKeys, AdminKey
    <3>3. QED
      BY <2>1, <2>4, <3>1, <3>2 DEF AdminKey
  <2>5. QED
    BY <2>1, <2>3, <2>4 DEF BalanceOK, KeysFollowAdmin
<1>5. QED
  BY <1>2, <1>3, <1>4, AccountSteps

\* The ledger explains the balance, too, as long as no two submissions share a key (run
\* adjust_twice shows what happens otherwise; billing.py:425).
THEOREM LedgerIsComplete ==
    ASSUME DistinctKeys
    PROVE  Spec => []BalanceIsLedger
<1>1. Init => BalanceOK
  BY NoEntries DEF Init, BillingInit, BalanceOK, KeysFollowAdmin, Posted
<1>2. GInv /\ LedgerOK /\ BalanceOK /\ [Next]_vars => BalanceOK'
  BY BalanceStep
<1>3. LedgerOK /\ BalanceOK => BalanceIsLedger
  BY DEF LedgerOK, BalanceOK, BalanceIsLedger, BalanceOf, ReservedOf
<1>4. QED
  BY <1>1, <1>2, <1>3, GatewayInvariance, LedgerInvariance, PTL DEF Spec

\* No interleaving of calls and deductions commits the same credit twice: what is
\* missing on the account are overruns (billing.py:238,424).
THEOREM OnlyOverrunsOverdraw == Spec => []OverdrawnByOverrunsOnly
<1> DEFINE Covered == OverrunsExceed /\ Available + SumOfExcess >= 0
<1>1. Init => Covered
  <2> SUFFICES ASSUME Init PROVE Covered
    OBVIOUS
  <2>1. InStatus("overrun") = {} /\ Available = 0
    BY DEF Init, BillingInit, InStatus, Available
  <2>2. SumOfExcess = 0
    BY <2>1, SumEmpty DEF SumOfExcess, SumFunction
  <2>3. QED
    BY <2>1, <2>2 DEF OverrunsExceed
<1>2. GInv /\ Covered /\ [Next]_vars => Covered'
  <2> SUFFICES ASSUME GInv, OverrunsExceed, Available + SumOfExcess >= 0, [Next]_vars
               PROVE  OverrunsExceed' /\ (Available + SumOfExcess)' >= 0
    OBVIOUS
  <2>1. CASE UNCHANGED account
    <3>1. InStatus("overrun")' = InStatus("overrun") /\ hold' = hold /\ Available' = Available
      BY <2>1 DEF account, InStatus, Available
    <3>2. QED
      BY <3>1, ExcessUnchanged
  <2>2. ASSUME NEW h \in Hold, NEW cost \in Nat, Settle(h, cost)
        PROVE  OverrunsExceed' /\ (Available + SumOfExcess)' >= 0
    BY <2>2, SettleCovered
  <2>3. ASSUME NEW h \in Hold, Release(h)
        PROVE  OverrunsExceed' /\ (Available + SumOfExcess)' >= 0
    BY <2>3, ReleaseCovered DEF Release
  <2>4. ASSUME NEW h \in Hold, Reserve(h)
        PROVE  OverrunsExceed' /\ (Available + SumOfExcess)' >= 0
    BY <2>4, ReserveCovered
  <2>5. CASE SummaryCommits
    BY <2>5, ReleaseCovered DEF SummaryCommits, GInv, SummaryOK
  <2>6. ASSUME NEW a \in Admin, AdjustApplies(a)
        PROVE  OverrunsExceed' /\ (Available + SumOfExcess)' >= 0
    BY <2>6, AdjustCovered
  <2>7. QED
    BY <2>1, <2>2, <2>3, <2>4, <2>5, <2>6, AccountSteps DEF AccountStep
<1>3. Covered => OverdrawnByOverrunsOnly
  BY DEF OverdrawnByOverrunsOnly, SumOfExcess
<1>4. QED
  BY <1>1, <1>2, <1>3, GatewayInvariance, PTL DEF Spec
=============================================================================
