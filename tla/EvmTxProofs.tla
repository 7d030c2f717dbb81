---------------------------- MODULE EvmTxProofs -----------------------------
(***************************************************************************)
(* Proofs about the transactions of one EVM account.  An action has at     *)
(* most one transaction in the pool, under the nonce of its attempt, and   *)
(* paying no more than it says: both are on disk before the transaction    *)
(* is sent, and a new nonce is taken only when the account has passed the  *)
(* old one.                                                                *)
(***************************************************************************)
EXTENDS EvmTx, FiniteSetTheorems, WellFoundedInduction, TLAPS

Attempts == {None} \cup [attempt_count : Nat, nonce : Nat \cup {-1}, last_gas : Nat]
Txs == [owner : Actions \cup {Commitment}, nonce : Nat, gas : Nat]
Steps == {"confirmed", "pending", "check", "send"}

TxType ==
    /\ swap \in [SwapIds -> {"open", "settled"}]
    /\ price \in Nat /\ confirmed \in Nat
    /\ pool \subseteq Txs /\ IsFiniteSet(pool)
    /\ attempts \in [Actions -> Attempts] /\ disk \in [Actions -> Attempts]
    /\ commit \in [pc : {"idle", "send"}, nonce : Nat, gas : Nat]

WorkType ==
    /\ settler \in [pc : Steps \cup {"idle", "receipt"}, key : Actions \cup {AnyAction},
                    attempt : Attempts, confirmed : Nat, nonce : Nat, gas : Nat]
    /\ settler.pc # "idle" => settler.key \in Actions
    /\ emit \in [pc : {"idle", "save"}, key : Actions \cup {AnyAction}, attempt : Attempts]
    /\ emit.pc # "idle" => emit.key \in Actions

\* One transaction per nonce, none that is already mined, none over the cap but
\* a commitment.
PoolInv ==
    /\ \A t, u \in pool : t.nonce = u.nonce => t = u
    /\ \A t \in pool : t.nonce >= confirmed
    /\ \A t \in pool : t.owner \in Actions => t.gas <= MAX_GAS_PRICE

\* The settlement in progress works on the attempt of its key, unless the swap
\* is settled and the key is gone.
Working ==
    settler.pc # "idle" =>
        /\ attempts[key] = None => swap[key.swap] = "settled"
        /\ settler.pc \in {"confirmed", "pending"} => attempts[key] \in {None, settler.attempt}
        /\ settler.pc = "pending" => /\ settler.attempt.nonce < settler.confirmed
                                     /\ settler.confirmed <= confirmed
        /\ settler.pc \in {"check", "send"} /\ attempts[key] # None =>
              /\ attempts[key].nonce = settler.nonce
              /\ attempts[key].last_gas = settler.gas

\* It pays a bump over what the pool holds for the key, or the cap.
Outbids(gas, old) == gas = MAX_GAS_PRICE \/ gas >= (old.gas * 115) \div 100
Bidding ==
    settler.pc \in Steps =>
        /\ settler.gas <= MAX_GAS_PRICE
        /\ key \notin overwritten => \A old \in OfKey(key) : Outbids(settler.gas, old)

OwnedBy(k) ==
    /\ disk[k] = attempts[k]
    /\ \A t, u \in OfKey(k) : t = u
    /\ attempts[k] # None =>
          \A t \in OfKey(k) : t.nonce = attempts[k].nonce /\ t.gas <= attempts[k].last_gas
Owned == \A k \in Actions \ overwritten : OwnedBy(k)

\* No nonce, in memory, on disk or in a row on its way there, is past the
\* account's next free one.
GapInv ==
    ~dropped => /\ \A k \in Actions : /\ attempts[k].nonce <= PendingCount
                                      /\ disk[k].nonce <= PendingCount
                /\ emit.attempt.nonce <= PendingCount

TxInv == TxType /\ WorkType /\ PoolInv /\ Working /\ Bidding /\ Owned /\ GapInv

\* Every nonempty set of natural numbers has a least element.
LEMMA LeastNat ==
    ASSUME NEW T, T \subseteq Nat, T # {}
    PROVE  \E x \in T : \A y \in T : x <= y
<1> DEFINE F == {1..x : x \in T}
<1>1. F # {} /\ F \subseteq FiniteSubsetsOf(Nat)
    <2>1. \A x \in T : x \in Int /\ IsFiniteSet(1..x) /\ 1..x \subseteq Nat
        BY FS_Interval
    <2>2. F \subseteq FiniteSubsetsOf(Nat)
        BY <2>1, Zenon DEF FiniteSubsetsOf
    <2> QED BY <2>2, Zenon
<1>2. PICK X \in F : \A Y \in F : ~(<<Y, X>> \in StrictSubsetOrdering(Nat))
    <2> HIDE DEF F
    <2> QED BY <1>1, FS_StrictSubsetOrderingWellFounded, WFMin
<1>3. PICK x \in T : X = 1..x
    OBVIOUS
<1>4. ASSUME NEW y \in T, ~(x <= y) PROVE FALSE
    <2>1. 1..y \in F /\ 1..y \subseteq X /\ 1..y # X /\ X \subseteq Nat
        BY <1>3, <1>4, x \in 1..x, x \notin 1..y
    <2> QED BY <2>1, <1>2, Zenon DEF StrictSubsetOrdering
<1> QED BY <1>4
-----------------------------------------------------------------------------
(* Gas prices.                                                             *)

LEMMA LowerHigher ==
    ASSUME NEW a \in Int, NEW b \in Int
    PROVE  /\ Lower(a, b) \in {a, b} /\ Lower(a, b) <= a /\ Lower(a, b) <= b
           /\ Higher(a, b) \in {a, b} /\ Higher(a, b) >= a /\ Higher(a, b) >= b
  BY DEF Lower, Higher

\* A price raised n times: the list of the first n prices, made one by one.
Raised(base, n, f) ==
    /\ f \in [0..n -> Nat]
    /\ f[0] = base
    /\ \A i \in 1..n : f[i] = (f[i - 1] * 115) \div 100

LEMMA RaisedExists ==
    ASSUME NEW base \in Nat
    PROVE  \A n \in Nat : \E f : Raised(base, n, f)
<1> DEFINE T == {n \in Nat : ~\E f : Raised(base, n, f)}
<1>1. SUFFICES ASSUME T # {} PROVE FALSE
    OBVIOUS
<1>2. PICK n \in T : \A y \in T : n <= y
    <2>1. T \subseteq Nat
        OBVIOUS
    <2> HIDE DEF T
    <2> QED BY <1>1, <2>1, LeastNat, Zenon
<1>3. n # 0
    <2>1. Raised(base, 0, [i \in 0..0 |-> base])
        BY DEF Raised
    <2> QED BY <2>1
<1>4. PICK f : Raised(base, n - 1, f)
    <2>1. n - 1 \in Nat /\ ~(n <= n - 1)
        BY <1>3
    <2> QED BY <1>2, <2>1
<1> DEFINE g == [i \in 0..n |-> IF i = n THEN (f[n - 1] * 115) \div 100 ELSE f[i]]
<1>5. /\ f \in [0..(n - 1) -> Nat] /\ f[0] = base
      /\ \A i \in 1..(n - 1) : f[i] = (f[i - 1] * 115) \div 100
    BY <1>4 DEF Raised
<1>6. (f[n - 1] * 115) \div 100 \in Nat
    <2>1. f[n - 1] \in Nat
        BY <1>3, <1>5
    <2> QED BY <2>1
<1>7. g \in [0..n -> Nat]
    BY <1>3, <1>5, <1>6
<1>8. \A i \in 1..n : g[i] = (g[i - 1] * 115) \div 100
    BY <1>3, <1>5, SMTT(30)
<1>9. Raised(base, n, g)
    BY <1>3, <1>5, <1>7, <1>8 DEF Raised
<1> QED BY <1>9

LEMMA RaisedUnique ==
    ASSUME NEW base \in Nat, NEW n \in Nat, NEW m \in Nat, m <= n,
           NEW f, Raised(base, n, f), NEW g, Raised(base, m, g)
    PROVE  \A i \in 0..m : f[i] = g[i]
<1> DEFINE T == {i \in Nat : i <= m /\ f[i] # g[i]}
<1>1. SUFFICES ASSUME T # {} PROVE FALSE
    OBVIOUS
<1>2. PICK i \in T : \A y \in T : i <= y
    <2>1. T \subseteq Nat
        OBVIOUS
    <2> HIDE DEF T
    <2> QED BY <1>1, <2>1, LeastNat, Zenon
<1>3. i # 0
    BY DEF Raised
<1>4. f[i - 1] = g[i - 1]
    <2>1. i - 1 \in Nat /\ i - 1 <= m /\ ~(i <= i - 1)
        BY <1>3
    <2> QED BY <1>2, <2>1
<1>5. i \in 1..m /\ i \in 1..n
    BY <1>3
<1>6. f[i] = (f[i - 1] * 115) \div 100 /\ g[i] = (g[i - 1] * 115) \div 100
    BY <1>5 DEF Raised
<1> QED BY <1>4, <1>6

\* The function escalated_gas iterates exists, and its prices are numbers.
LEMMA BumpedNat ==
    ASSUME NEW base \in Nat
    PROVE  \A n \in Nat : Bumped(base)[n] \in Nat
<1> DEFINE L(n) == CHOOSE f : Raised(base, n, f)
           h == [n \in Nat |-> L(n)[n]]
           E(f) == f = [n \in Nat |-> IF n = 0 THEN base ELSE (f[n - 1] * 115) \div 100]
<1>1. \A n \in Nat : Raised(base, n, L(n))
    BY RaisedExists
<1>2. ASSUME NEW n \in Nat PROVE L(n)[n] \in Nat /\ L(n)[0] = base
    <2>1. PICK f : f = L(n)
        OBVIOUS
    <2> HIDE DEF L
    <2>2. f \in [0..n -> Nat] /\ f[0] = base /\ n \in 0..n
        BY <1>1, <2>1 DEF Raised
    <2> QED BY <2>1, <2>2
<1>3. ASSUME NEW n \in Nat, n # 0 PROVE L(n)[n] = (L(n - 1)[n - 1] * 115) \div 100
    <2>1. n - 1 \in Nat /\ n - 1 <= n /\ n - 1 \in 0..(n - 1) /\ n \in 1..n
        BY <1>3
    <2> HIDE DEF L
    <2>2. L(n)[n - 1] = L(n - 1)[n - 1]
        BY <1>1, <2>1, RaisedUnique
    <2>3. L(n)[n] = (L(n)[n - 1] * 115) \div 100
        BY <1>1, <2>1 DEF Raised
    <2> QED BY <2>2, <2>3
<1>4. E(h)
    <2> HIDE DEF L
    <2>1. \A n \in Nat : h[n] = IF n = 0 THEN base ELSE (h[n - 1] * 115) \div 100
        BY <1>2, <1>3
    <2> QED BY <2>1
<1>5. E(Bumped(base))
    <2>1. Bumped(base) = CHOOSE f : E(f)
        BY DEF Bumped
    <2> HIDE DEF E, h
    <2> QED BY <1>4, <2>1
<1> DEFINE b == Bumped(base)
           T == {n \in Nat : b[n] \notin Nat}
<1>6. \A n \in Nat : b[n] = IF n = 0 THEN base ELSE (b[n - 1] * 115) \div 100
    BY <1>5
<1> HIDE DEF b
<1>7. T = {}
    <2>1. SUFFICES ASSUME T # {} PROVE FALSE
        OBVIOUS
    <2>2. PICK n \in T : \A y \in T : n <= y
        <3>1. T \subseteq Nat
            OBVIOUS
        <3> HIDE DEF T
        <3> QED BY <2>1, <3>1, LeastNat, Zenon
    <2>3. n # 0
        BY <1>6
    <2>4. n - 1 \in Nat /\ ~(n <= n - 1)
        BY <2>3
    <2>5. b[n - 1] \in Nat
        BY <2>2, <2>4
    <2>6. b[n] = (b[n - 1] * 115) \div 100
        BY <1>6, <2>3
    <2> QED BY <2>5, <2>6
<1> QED BY <1>7 DEF b

\* What the settler pays: a number under the cap, that outbids the last price.
LEMMA NextGas ==
    ASSUME NEW base \in Nat, NEW a \in Attempts \ {None}
    PROVE  /\ next_gas(base, a) \in Nat /\ next_gas(base, a) <= MAX_GAS_PRICE
           /\ \/ next_gas(base, a) = MAX_GAS_PRICE
              \/ next_gas(base, a) >= (a.last_gas * 115) \div 100
<1> USE TxAssumption
<1> DEFINE n == Lower(a.attempt_count, MAX_GAS_BUMPS)
           e == escalated_gas(base, a.attempt_count)
           r == (a.last_gas * 115) \div 100
<1>1. a.attempt_count \in Nat /\ a.last_gas \in Nat
    BY DEF Attempts
<1>2. n \in Nat
    BY <1>1 DEF Lower
<1>3. Bumped(base)[n] \in Nat
    BY <1>2, BumpedNat
<1>4. e \in Nat /\ e <= MAX_GAS_PRICE
    BY <1>3 DEF escalated_gas, Lower
<1>5. r \in Nat /\ (a.last_gas = 0 => r = 0)
    BY <1>1
<1>6. next_gas(base, a) = IF a.last_gas = 0 THEN e ELSE Lower(Higher(e, r), MAX_GAS_PRICE)
    BY DEF next_gas
<1> HIDE DEF e, r
<1> QED BY <1>4, <1>5, <1>6 DEF Lower, Higher, r

-----------------------------------------------------------------------------
(* The account's next free nonce.                                          *)

Free(n) ==
    /\ n \in Nat /\ n >= confirmed
    /\ AtNonce(n) = {}
    /\ \A m \in confirmed .. n - 1 : AtNonce(m) # {}

\* More nonces than transactions: one of them is free.
LEMMA SomeFree ==
    ASSUME TxType
    PROVE  \E n \in confirmed .. confirmed + Cardinality(pool) : AtNonce(n) = {}
<1> DEFINE c == Cardinality(pool)
           I == confirmed .. confirmed + c
<1>1. c \in Nat /\ confirmed \in Nat /\ IsFiniteSet(pool)
    BY FS_CardinalityType DEF TxType
<1>2. IsFiniteSet(I) /\ Cardinality(I) = c + 1
    <2>1. confirmed + c \in Int /\ confirmed \in Int /\ ~(confirmed > confirmed + c)
        BY <1>1
    <2>2. Cardinality(I) = (confirmed + c) - confirmed + 1 /\ IsFiniteSet(I)
        BY <2>1, FS_Interval
    <2> QED BY <1>1, <2>2
<1>3. SUFFICES ASSUME \A n \in I : AtNonce(n) # {} PROVE FALSE
    OBVIOUS
<1> DEFINE f == [n \in I |-> CHOOSE t : t \in AtNonce(n)]
<1>4. \A n \in I : f[n] \in pool /\ f[n].nonce = n
    <2>1. \A n \in I : f[n] \in AtNonce(n)
        BY <1>3
    <2> QED BY <2>1 DEF AtNonce
<1>5. f \in [I -> pool]
    <2>1. \A n \in I : f[n] \in pool
        BY <1>4
    <2> QED BY <2>1
<1> HIDE DEF f, c, I
<1>6. f \in Injection(I, pool)
    BY <1>4, <1>5 DEF Injection, IsInjective
<1>7. Cardinality(I) <= Cardinality(pool)
    BY <1>1, <1>6, FS_Injection
<1> QED BY <1>1, <1>2, <1>7 DEF c

LEMMA PendingIsFree ==
    ASSUME TxType
    PROVE  Free(PendingCount)
<1> DEFINE T == {n \in Nat : n >= confirmed /\ AtNonce(n) = {}}
<1>1. confirmed \in Nat /\ Cardinality(pool) \in Nat
    BY FS_CardinalityType DEF TxType
<1>2. PICK m \in confirmed .. confirmed + Cardinality(pool) : AtNonce(m) = {}
    BY SomeFree
<1>3. m \in T
    BY <1>1, <1>2
<1>4. PICK n \in T : \A y \in T : n <= y
    <2>1. T \subseteq Nat /\ T # {}
        BY <1>3
    <2> HIDE DEF T
    <2> QED BY <2>1, LeastNat, Zenon
<1>5. \A i \in confirmed .. n - 1 : AtNonce(i) # {}
    <2> SUFFICES ASSUME NEW i \in confirmed .. n - 1, AtNonce(i) = {} PROVE FALSE
        OBVIOUS
    <2>1. i \in T /\ ~(n <= i)
        BY <1>1
    <2> QED BY <1>4, <2>1
<1>6. n \in confirmed .. confirmed + Cardinality(pool) /\ AtNonce(n) = {}
    <2>1. n <= m
        BY <1>3, <1>4
    <2> QED BY <1>1, <1>2, <2>1
<1>7. /\ PendingCount \in confirmed .. confirmed + Cardinality(pool)
      /\ AtNonce(PendingCount) = {}
      /\ \A i \in confirmed .. PendingCount - 1 : AtNonce(i) # {}
    BY <1>5, <1>6, Zenon DEF PendingCount
<1> HIDE DEF T
<1>8. PendingCount \in Nat /\ PendingCount >= confirmed
    BY <1>1, <1>7
<1> QED BY <1>7, <1>8 DEF Free

\* A step that keeps what is below the next free nonce, unless it is mined, moves
\* it only up.
LEMMA PendingGrows ==
    ASSUME TxType, TxType', confirmed <= confirmed',
           \A t \in pool : t.nonce >= confirmed' => AtNonce(t.nonce)' # {}
    PROVE  PendingCount <= PendingCount'
<1> PICK p : p = PendingCount
    OBVIOUS
<1> PICK q : q = PendingCount'
    OBVIOUS
<1>1. Free(p)
    BY PendingIsFree
<1>2. q \in Nat /\ q >= confirmed' /\ AtNonce(q)' = {}
    <2>1. Free(PendingCount)'
        BY PendingIsFree, PTL
    <2> QED BY <2>1 DEF Free
<1>3. confirmed \in Nat /\ confirmed' \in Nat
    BY DEF TxType
<1>4. SUFFICES ASSUME q < p PROVE FALSE
    BY <1>1, <1>2 DEF Free
<1>5. q \in confirmed .. p - 1
    BY <1>1, <1>2, <1>3, <1>4 DEF Free
<1>6. PICK t \in pool : t.nonce = q
    BY <1>1, <1>5 DEF Free, AtNonce
<1>7. AtNonce(t.nonce)' # {}
    BY <1>2, <1>6
<1> QED BY <1>2, <1>6, <1>7 DEF AtNonce

-----------------------------------------------------------------------------
(* What the steps keep.                                                    *)

Settlements == [pc : Steps \cup {"idle", "receipt"}, key : Actions \cup {AnyAction},
                attempt : Attempts, confirmed : Nat, nonce : Nat, gas : Nat]

LEMMA NoWorkType ==
    /\ None \in Attempts /\ AttemptNew \in Attempts \ {None} /\ None.nonce = -1
    /\ NoSettlement \in Settlements /\ NoSettlement.pc = "idle"
  BY DEF Attempts, None, AttemptNew, NoSettlement, Settlements, Steps

\* An attempt is None or has a count, a nonce and a price.
LEMMA AttemptFields ==
    ASSUME NEW a \in Attempts
    PROVE  /\ a.nonce \in Int /\ a.nonce >= -1 /\ a.last_gas \in Nat
           /\ a # None => a \in [attempt_count : Nat, nonce : Nat \cup {-1}, last_gas : Nat]
  BY DEF Attempts, None

LEMMA FailureKeepsNonce ==
    ASSUME NEW a \in Attempts
    PROVE  /\ on_failure(a) \in Attempts
           /\ on_failure(a).nonce = a.nonce /\ on_failure(a).last_gas = a.last_gas
           /\ on_failure(a) = None <=> a = None
<1>1. CASE a = None
    BY <1>1 DEF on_failure
<1>2. CASE a # None
    <2>1. a \in [attempt_count : Nat, nonce : Nat \cup {-1}, last_gas : Nat]
        BY <1>2, AttemptFields
    <2> DEFINE c == Lower(a.attempt_count + 1, MAX_GAS_BUMPS)
    <2>2. c \in Nat
        BY <2>1, TxAssumption DEF Lower
    <2>3. on_failure(a) = [a EXCEPT !.attempt_count = c]
        BY <1>2 DEF on_failure
    <2> HIDE DEF c
    <2>4. /\ on_failure(a) \in [attempt_count : Nat, nonce : Nat \cup {-1}, last_gas : Nat]
          /\ on_failure(a).nonce = a.nonce /\ on_failure(a).last_gas = a.last_gas
          /\ on_failure(a).attempt_count = c
        BY <2>1, <2>2, <2>3
    <2>5. on_failure(a) # None
        BY <2>2, <2>4 DEF None
    <2> QED BY <1>2, <2>4, <2>5 DEF Attempts
<1> QED BY <1>1, <1>2

\* A step that leaves the pool alone.
LEMMA SamePool ==
    ASSUME PoolInv, UNCHANGED <<pool, confirmed>>
    PROVE  PoolInv' /\ PendingCount' = PendingCount /\ \A k : OfKey(k)' = OfKey(k)
  BY DEF PoolInv, PendingCount, AtNonce, OfKey

\* The network: transactions leave the pool, swaps are settled.
LEMMA PoolShrinks ==
    ASSUME TxInv, TxType', UNCHANGED <<attempts, disk, settler, emit, overwritten>>,
           pool' \subseteq pool, confirmed <= confirmed', \A t \in pool' : t.nonce >= confirmed',
           \A s \in SwapIds : swap[s] = "settled" => swap'[s] = "settled",
           ~dropped' => ~dropped /\ \A t \in pool : t.nonce >= confirmed' => t \in pool'
    PROVE  TxInv'
<1> USE DEF TxInv
<1>1. WorkType'
    BY DEF WorkType
<1>2. PoolInv'
    BY DEF PoolInv
<1>3. \A k : OfKey(k)' \subseteq OfKey(k)
    BY DEF OfKey
<1>4. confirmed \in Nat /\ confirmed' \in Nat
    BY SMTT(30) DEF TxType
<1>5. Working'
    <2> SUFFICES ASSUME settler.pc # "idle" PROVE Working'
        BY Zenon DEF Working
    <2>1. settler.key \in Actions /\ settler.key.swap \in SwapIds /\ settler.confirmed \in Nat
        BY Zenon DEF WorkType, SwapIds
    <2> QED BY <1>4, <2>1 DEF Working, key
<1>6. Bidding'
    BY <1>3, Zenon DEF Bidding, key
<1>7. Owned'
    BY <1>3, Zenon DEF Owned, OwnedBy
<1>8. GapInv'
    <2> SUFFICES ASSUME ~dropped' PROVE GapInv'
        BY DEF GapInv
    <2>1. PendingCount <= PendingCount'
        <3>1. \A t \in pool : t.nonce >= confirmed' => AtNonce(t.nonce)' # {}
            BY DEF AtNonce
        <3> QED BY <3>1, PendingGrows, SMTT(30)
    <2>2. PendingCount \in Nat /\ PendingCount' \in Nat
        <3>1. Free(PendingCount)
            BY PendingIsFree
        <3>2. Free(PendingCount)'
            BY PendingIsFree, PTL
        <3> QED BY <3>1, <3>2, SMTT(30) DEF Free
    <2>3. /\ \A k \in Actions : attempts[k].nonce \in Int /\ disk[k].nonce \in Int
          /\ emit.attempt.nonce \in Int
        BY AttemptFields DEF TxType, WorkType
    <2> HIDE DEF PendingCount
    <2> QED BY <2>1, <2>2, <2>3, SMTT(30) DEF GapInv
<1> QED BY <1>1, <1>2, <1>5, <1>6, <1>7, <1>8, SMTT(30)

LEMMA NetworkKeeps ==
    ASSUME TxInv, Network
    PROVE  TxInv'
<1> USE TxAssumption
<1>1. ASSUME NEW t \in pool, MineTx(t) PROVE TxInv'
    <2>1. /\ t.nonce = confirmed /\ pool' = pool \ {t} /\ confirmed' = confirmed + 1
          /\ UNCHANGED <<price, attempts, disk, settler, commit, emit, overwritten, dropped>>
        BY <1>1 DEF MineTx, ghosts
    <2>2. /\ confirmed \in Nat /\ \A u \in pool : u \in Txs /\ u.nonce >= confirmed
          /\ \A u \in pool : u.nonce = t.nonce => u = t
        BY Zenon DEF TxInv, TxType, PoolInv
    <2>3. /\ swap' \in [SwapIds -> {"open", "settled"}]
          /\ \A s \in SwapIds : swap[s] = "settled" => swap'[s] = "settled"
        BY <1>1, Zenon DEF MineTx, TxInv, TxType
    <2>4. IsFiniteSet(pool')
        BY <2>1, FS_Subset, SMTT(30) DEF TxInv, TxType
    <2>5. TxType'
        BY <2>1, <2>2, <2>3, <2>4 DEF TxInv, TxType
    <2>6. \A u \in pool' : u.nonce >= confirmed'
        <3> SUFFICES ASSUME NEW u \in pool' PROVE u.nonce >= confirmed'
            OBVIOUS
        <3>1. u \in pool /\ u # t /\ u.nonce \in Nat
            BY <2>1, <2>2 DEF Txs
        <3> QED BY <2>1, <2>2, <3>1
    <2>7. \A u \in pool : u.nonce >= confirmed' => u \in pool'
        BY <2>1, <2>2
    <2> QED BY <2>1, <2>2, <2>3, <2>5, <2>6, <2>7, PoolShrinks, SMTT(30)
<1>2. ASSUME NEW t \in pool, Evict(t) PROVE TxInv'
    <2>1. /\ pool' = pool \ {t} /\ dropped' = TRUE
          /\ UNCHANGED <<swap, price, confirmed, attempts, disk, settler, commit, emit, overwritten>>
        BY <1>2 DEF Evict
    <2>2. IsFiniteSet(pool')
        BY <2>1, FS_Subset, SMTT(30) DEF TxInv, TxType
    <2>3. TxType'
        BY <2>1, <2>2, SMTT(30) DEF TxInv, TxType
    <2>4. confirmed <= confirmed' /\ \A u \in pool' : u.nonce >= confirmed'
        BY <2>1 DEF TxInv, PoolInv, TxType
    <2> QED BY <2>1, <2>3, <2>4, PoolShrinks
<1>3. ASSUME \/ \E s \in SwapIds : OthersWin(s) \/ Unlock(s)
             \/ \E p \in Prices : PriceMoves(p)
      PROVE  TxInv'
    <2>1. UNCHANGED <<pool, confirmed, attempts, disk, settler, commit, emit, overwritten, dropped>>
        BY <1>3, SMTT(30) DEF OthersWin, Unlock, PriceMoves, ghosts
    <2>2. /\ swap' \in [SwapIds -> {"open", "settled"}] /\ price' \in Nat
          /\ \A s \in SwapIds : swap[s] = "settled" => swap'[s] = "settled"
        BY <1>3 DEF OthersWin, Unlock, PriceMoves, TxInv, TxType
    <2>3. TxType'
        BY <2>1, <2>2, SMTT(30) DEF TxInv, TxType
    <2>4. confirmed <= confirmed' /\ \A u \in pool' : u.nonce >= confirmed'
        BY <2>1 DEF TxInv, PoolInv, TxType
    <2> QED BY <2>1, <2>2, <2>3, <2>4, PoolShrinks, SMTT(30)
<1> QED BY <1>1, <1>2, <1>3, SMTT(30) DEF Network

\* An attempt ends in on_failure: its nonce and price stay.
LEMMA FailureKeeps ==
    ASSUME TxInv, NEW k \in Actions,
           attempts' = [attempts EXCEPT ![k] = on_failure(@)], persist_swap(k),
           settler' \in Settlements, settler'.pc = "idle",
           UNCHANGED <<swap, price, confirmed, pool, commit, emit, overwritten, dropped>>
    PROVE  TxInv'
<1> USE DEF TxInv
<1>1. /\ PoolInv' /\ PendingCount' = PendingCount /\ \A j : OfKey(j)' = OfKey(j)
    BY SamePool
<1>2. attempts[k] \in Attempts
    BY DEF TxType
<1>3. /\ attempts' \in [Actions -> Attempts] /\ disk' \in [Actions -> Attempts]
      /\ attempts'[k] = on_failure(attempts[k]) /\ disk'[k] = attempts'[k]
      /\ \A j \in Actions : j # k => attempts'[j] = attempts[j] /\ disk'[j] = disk[j]
    BY <1>2, FailureKeepsNonce, SMTT(30) DEF TxType, persist_swap
<1>4. \A j \in Actions : /\ attempts'[j].nonce = attempts[j].nonce
                         /\ attempts'[j].last_gas = attempts[j].last_gas
                         /\ attempts'[j] = None <=> attempts[j] = None
    BY <1>2, <1>3, FailureKeepsNonce, SMTT(30)
<1>5. TxType' /\ WorkType'
    BY <1>3 DEF TxType, WorkType, Settlements
<1>6. Working' /\ Bidding'
    BY Zenon DEF Working, Bidding, Steps
<1>7. Owned'
    <2> SUFFICES ASSUME NEW j \in Actions \ overwritten PROVE OwnedBy(j)'
        BY DEF Owned
    <2>1. OwnedBy(j)
        BY DEF Owned
    <2>2. disk'[j] = attempts'[j]
        BY <1>3, <2>1, Zenon DEF OwnedBy
    <2> QED BY <1>1, <1>4, <2>1, <2>2, Zenon DEF OwnedBy
<1>8. GapInv'
    <2>1. \A j \in Actions : disk'[j].nonce \in {disk[j].nonce, attempts[j].nonce}
        BY <1>3, <1>4
    <2> HIDE DEF PendingCount
    <2> QED BY <1>1, <1>4, <2>1, Zenon DEF GapInv
<1> QED BY <1>1, <1>5, <1>6, <1>7, <1>8

\* replacement starts from the attempt as queued: the price outbids what it paid.
LEMMA ReplacementKeeps ==
    ASSUME TxInv, NEW k \in Actions, Replacement(k)
    PROVE  TxInv'
<1> USE DEF TxInv
<1> DEFINE a == attempts[k]
           g == next_gas(price, a)
<1>1. /\ a # None
      /\ settler' = [NoSettlement EXCEPT !.pc = "confirmed", !.key = k, !.attempt = a, !.gas = g]
      /\ UNCHANGED <<swap, price, confirmed, pool, attempts, disk, commit, emit, overwritten, dropped>>
    BY DEF Replacement, ledger, ghosts
<1>2. a \in Attempts \ {None} /\ price \in Nat
    BY <1>1 DEF TxType
<1>3. /\ g \in Nat /\ g <= MAX_GAS_PRICE
      /\ g = MAX_GAS_PRICE \/ g >= (a.last_gas * 115) \div 100
    BY <1>2, NextGas, Zenon
<1> HIDE DEF g
<1>4. /\ settler' \in Settlements /\ settler'.pc = "confirmed" /\ settler'.key = k
      /\ settler'.attempt = a /\ settler'.gas = g
    BY <1>1, <1>2, <1>3, NoWorkType, Zenon DEF Settlements, Steps
<1>5. PoolInv' /\ PendingCount' = PendingCount /\ \A j : OfKey(j)' = OfKey(j)
    BY <1>1, SamePool
<1>6. TxType' /\ WorkType'
    BY <1>1, <1>4 DEF TxType, WorkType, Settlements
<1>7. Working'
    BY <1>1, <1>4, SMTT(30) DEF Working, key
<1>8. Bidding'
    <2> SUFFICES ASSUME k \notin overwritten, NEW old \in OfKey(k) PROVE Outbids(g, old)
        BY <1>1, <1>3, <1>4, <1>5 DEF Bidding, key, Outbids
    <2>1. old.gas \in Nat /\ old.gas <= a.last_gas /\ a.last_gas \in Nat
        BY <1>1, <1>2, AttemptFields, SMTT(30) DEF Owned, OwnedBy, OfKey, TxType, Txs
    <2>2. (old.gas * 115) \div 100 <= (a.last_gas * 115) \div 100
        BY <2>1, SMTT(30)
    <2>3. (old.gas * 115) \div 100 \in Nat /\ (a.last_gas * 115) \div 100 \in Nat
        BY <2>1
    <2> QED BY <1>3, <2>2, <2>3 DEF Outbids
<1>9. Owned' /\ GapInv'
    BY <1>1, <1>5, SMTT(30) DEF Owned, OwnedBy, GapInv
<1> QED BY <1>5, <1>6, <1>7, <1>8, <1>9

\* Whoever outbids a transaction within the cap pays no less.
LEMMA NotCheaper ==
    ASSUME NEW gas \in Nat, NEW old, old.gas \in Nat, old.gas <= MAX_GAS_PRICE, Outbids(gas, old)
    PROVE  old.gas <= gas
BY DEF Outbids

\* The nonce and the price are written to the attempt and to disk before the
\* transaction is sent.
LEMMA UseNonceKeeps ==
    ASSUME TxInv, settler.pc \in {"confirmed", "pending"},
           NEW nonce \in Nat, NEW own \in BOOLEAN, UseNonce(nonce, own),
           own => nonce = settler.attempt.nonce,
           ~own => settler.pc = "pending" /\ nonce <= PendingCount,
           UNCHANGED <<swap, price, confirmed, pool, commit, emit, overwritten, dropped>>
    PROVE  TxInv'
<1> USE DEF TxInv
<1> PICK k : k = settler.key
    OBVIOUS
<1> PICK g : g = settler.gas
    OBVIOUS
<1> DEFINE a == attempts[k]
           b == [a EXCEPT !.nonce = IF own THEN @ ELSE nonce, !.last_gas = g]
<1>1. /\ k \in Actions /\ a \in Attempts /\ g \in Nat /\ disk \in [Actions -> Attempts]
      /\ attempts \in [Actions -> Attempts]
    BY DEF WorkType, TxType
<1>2. /\ attempts' = [attempts EXCEPT ![k] = IF a = None THEN a ELSE b]
      /\ disk' = [disk EXCEPT ![k] = attempts'[k]]
      /\ settler' = [NoSettlement EXCEPT !.pc = "check", !.key = k, !.nonce = nonce, !.gas = g]
    <2>1. attempts' = [attempts EXCEPT ![k] = IF a = None THEN a ELSE b]
        BY DEF UseNonce, key
    <2>2. disk' = [disk EXCEPT ![k] = attempts'[k]]
        BY DEF UseNonce, persist_swap, key
    <2>3. settler' = [NoSettlement EXCEPT !.pc = "check", !.key = k, !.nonce = nonce, !.gas = g]
        BY DEF UseNonce, key
    <2> QED BY <2>1, <2>2, <2>3
<1>3. a # None => /\ b \in Attempts \ {None} /\ b.last_gas = g
                  /\ b.nonce = IF own THEN a.nonce ELSE nonce
    <2> SUFFICES ASSUME a # None PROVE /\ b \in Attempts \ {None} /\ b.last_gas = g
                                       /\ b.nonce = IF own THEN a.nonce ELSE nonce
        OBVIOUS
    <2>1. a \in [attempt_count : Nat, nonce : Nat \cup {-1}, last_gas : Nat]
        BY <1>1, AttemptFields, Zenon
    <2>2. /\ b \in [attempt_count : Nat, nonce : Nat \cup {-1}, last_gas : Nat]
          /\ b.last_gas = g /\ b.nonce = (IF own THEN a.nonce ELSE nonce)
        BY <1>1, <2>1, Zenon
    <2>3. b # None
        BY <2>2 DEF None
    <2> QED BY <2>2, <2>3 DEF Attempts
<1> HIDE DEF b
<1>4. /\ attempts' \in [Actions -> Attempts] /\ disk' \in [Actions -> Attempts]
      /\ attempts'[k] = (IF a = None THEN a ELSE b) /\ disk'[k] = attempts'[k]
      /\ \A j \in Actions : j # k => attempts'[j] = attempts[j] /\ disk'[j] = disk[j]
    BY <1>1, <1>2, <1>3
<1>5. /\ settler' \in Settlements /\ settler'.pc = "check" /\ settler'.key = k
      /\ settler'.nonce = nonce /\ settler'.gas = g
    BY <1>1, <1>2, NoWorkType, Zenon DEF Settlements, Steps
<1>6. PoolInv' /\ PendingCount' = PendingCount /\ \A j : OfKey(j)' = OfKey(j)
    BY SamePool, Zenon
<1>7. TxType' /\ WorkType'
    BY <1>1, <1>4, <1>5, Zenon DEF TxType, WorkType, Settlements
<1>8. a # None => a = settler.attempt /\ b.nonce = nonce
    BY <1>3, Zenon DEF Working, key
<1>9. Working'
    BY <1>3, <1>4, <1>5, <1>8, Zenon DEF Working, key
<1>10. Bidding'
    BY <1>5, <1>6, Zenon DEF Bidding, key, Steps
<1>11. ASSUME NEW t \in OfKey(k), k \notin overwritten, a # None
       PROVE  t.nonce = b.nonce /\ t.gas <= g
    <2>1. /\ t \in pool /\ t.owner = k /\ t.nonce \in Nat /\ t.gas \in Nat /\ t.gas <= MAX_GAS_PRICE
          /\ t.nonce = a.nonce /\ t.nonce >= confirmed
        BY <1>1, <1>11, Zenon DEF OfKey, TxType, Txs, PoolInv, Owned, OwnedBy
    <2>2. own
        <3>1. settler.pc = "pending" => a.nonce < settler.confirmed /\ settler.confirmed <= confirmed
            BY <1>8, <1>11, Zenon DEF Working, key
        <3>2. settler.confirmed \in Nat /\ confirmed \in Nat
            BY DEF WorkType, TxType
        <3> QED BY <2>1, <3>1, <3>2
    <2>3. Outbids(g, t)
        BY <1>11, Zenon DEF Bidding, key, Steps
    <2>4. t.gas <= g
        <3>1. t.gas \in Nat /\ g \in Nat /\ t.gas <= MAX_GAS_PRICE
            BY <1>1, <2>1, Zenon
        <3> QED BY <2>3, <3>1, NotCheaper, Zenon
    <2> QED BY <1>3, <1>11, <2>1, <2>2, <2>4, Zenon
<1>12. Owned'
    <2> SUFFICES ASSUME NEW j \in Actions \ overwritten PROVE OwnedBy(j)'
        BY Zenon DEF Owned
    <2>1. OwnedBy(j)
        BY Zenon DEF Owned
    <2>2. CASE j = k
        BY <1>3, <1>4, <1>6, <1>11, <2>1, <2>2, Zenon DEF OwnedBy
    <2>3. CASE j # k
        BY <1>4, <1>6, <2>1, <2>3, Zenon DEF OwnedBy
    <2> QED BY <2>2, <2>3, Zenon
<1>13. GapInv'
    <2> SUFFICES ASSUME ~dropped PROVE GapInv'
        BY Zenon DEF GapInv
    <2> HIDE DEF PendingCount
    <2>1. a.nonce <= PendingCount
        BY <1>1, Zenon DEF GapInv
    <2>2. attempts'[k].nonce <= PendingCount
        BY <1>3, <1>4, <2>1, Zenon
    <2> QED BY <1>4, <1>6, <2>2, Zenon DEF GapInv
<1> QED BY <1>6, <1>7, <1>9, <1>10, <1>12, <1>13, SMTT(30)

LEMMA ChooseNonceKeeps ==
    ASSUME TxInv, ReadConfirmed \/ ReadPending
    PROVE  TxInv'
<1>1. UNCHANGED <<swap, price, confirmed, pool, commit, emit, overwritten, dropped>>
    BY Zenon DEF ReadConfirmed, ReadPending, ledger, ghosts
<1>2. /\ confirmed \in Nat /\ settler.confirmed \in Nat /\ settler.attempt.nonce \in Int
      /\ settler \in Settlements
    BY AttemptFields DEF TxInv, TxType, WorkType, Settlements
<1>3. CASE ReadPending
    <2>1. settler.pc = "pending"
        BY <1>3 DEF ReadPending, In
    <2>2. Free(PendingCount)
        BY PendingIsFree DEF TxInv
    <2>3. settler.confirmed <= confirmed
        BY <2>1, Zenon DEF TxInv, Working
    <2>4. Higher(PendingCount, settler.confirmed) = PendingCount /\ PendingCount \in Nat
        BY <1>2, <2>2, <2>3 DEF Higher, Free
    <2>5. UseNonce(PendingCount, FALSE)
        BY <1>3, <2>4, Zenon DEF ReadPending
    <2> HIDE DEF PendingCount
    <2>6. PendingCount <= PendingCount
        BY <2>4
    <2> QED BY <1>1, <2>1, <2>4, <2>5, <2>6, UseNonceKeeps, Zenon
<1>4. CASE ReadConfirmed
    <2>1. settler.pc = "confirmed"
        BY <1>4 DEF ReadConfirmed, In
    <2>2. CASE settler.attempt.nonce >= confirmed
        <3>1. UseNonce(settler.attempt.nonce, TRUE)
            BY <1>4, <2>2, Zenon DEF ReadConfirmed
        <3>2. settler.attempt.nonce \in Nat
            BY <1>2, <2>2
        <3> QED BY <1>1, <2>1, <3>1, <3>2, UseNonceKeeps, Zenon
    <2>3. CASE ~(settler.attempt.nonce >= confirmed)
        <3>1. /\ settler' = [settler EXCEPT !.pc = "pending", !.confirmed = confirmed]
              /\ UNCHANGED <<attempts, disk>>
            BY <1>4, <2>3, Zenon DEF ReadConfirmed
        <3>2. /\ settler' \in Settlements /\ settler'.pc = "pending"
              /\ settler'.confirmed = confirmed /\ settler'.key = settler.key
              /\ settler'.attempt = settler.attempt /\ settler'.gas = settler.gas
            BY <1>2, <3>1, Zenon DEF Settlements, Steps
        <3>3. PoolInv' /\ PendingCount' = PendingCount /\ \A j : OfKey(j)' = OfKey(j)
            BY <1>1, SamePool DEF TxInv
        <3>4. TxType' /\ WorkType'
            BY <1>1, <2>1, <3>1, <3>2 DEF TxInv, TxType, WorkType, Settlements
        <3>5. Working'
            BY <1>1, <1>2, <2>1, <2>3, <3>1, <3>2 DEF TxInv, Working, key
        <3>6. Bidding'
            BY <1>1, <2>1, <3>2, <3>3, Zenon DEF TxInv, Bidding, key, Steps
        <3>7. Owned' /\ GapInv'
            BY <1>1, <3>1, <3>3 DEF TxInv, Owned, OwnedBy, GapInv
        <3> QED BY <3>3, <3>4, <3>5, <3>6, <3>7 DEF TxInv
    <2> QED BY <2>2, <2>3
<1> QED BY <1>3, <1>4

\* Every outcome of a settlement in progress.
LEMMA EndKeeps ==
    ASSUME TxInv, settler.pc # "idle", record_failed_attempt,
           UNCHANGED <<swap, price, confirmed, pool, commit, emit, overwritten, dropped>>
    PROVE  TxInv'
<1>1. settler.key \in Actions
    BY DEF TxInv, WorkType
<1> QED BY <1>1, NoWorkType, FailureKeeps, Zenon DEF record_failed_attempt, key

\* A transaction enters the pool, in place of what it replaces.
LEMMA PutPool ==
    ASSUME TxInv, NEW tx \in Txs, tx.nonce >= confirmed, Put(tx),
           tx.owner \in Actions => tx.gas <= MAX_GAS_PRICE,
           UNCHANGED <<swap, price, confirmed, attempts, disk>>, commit' = commit \/ commit' = NoCommit
    PROVE  /\ TxType' /\ PoolInv' /\ PendingCount <= PendingCount'
           /\ PendingCount \in Nat /\ PendingCount' \in Nat
<1>1. pool' = (pool \ AtNonce(tx.nonce)) \cup {tx}
    BY DEF Put
<1>2. IsFiniteSet(pool')
    <2>1. IsFiniteSet(pool \ AtNonce(tx.nonce))
        BY FS_Subset, Zenon DEF TxInv, TxType
    <2> QED BY <1>1, <2>1, FS_AddElement, Zenon
<1>3. pool' \subseteq Txs
    BY <1>1 DEF TxInv, TxType
<1>4. NoCommit \in [pc : {"idle", "send"}, nonce : Nat, gas : Nat]
    BY Zenon DEF NoCommit
<1>5. TxType'
    BY <1>2, <1>3, <1>4 DEF TxInv, TxType
<1>6. \A t \in pool' : t = tx \/ (t \in pool /\ t.nonce # tx.nonce)
    BY <1>1 DEF AtNonce
<1>7. PoolInv'
    BY <1>6 DEF TxInv, PoolInv
<1>8. \A t \in pool : AtNonce(t.nonce)' # {}
    <2> SUFFICES ASSUME NEW t \in pool PROVE \E u \in pool' : u.nonce = t.nonce
        BY Zenon DEF AtNonce
    <2>1. CASE t.nonce = tx.nonce
        BY <1>1, <2>1
    <2>2. CASE t.nonce # tx.nonce
        BY <1>1, <2>2 DEF AtNonce
    <2> QED BY <2>1, <2>2
<1>9. confirmed <= confirmed'
    BY DEF TxInv, TxType
<1>10. PendingCount <= PendingCount'
    BY <1>5, <1>8, <1>9, PendingGrows DEF TxInv
<1>11. Free(PendingCount)
    BY PendingIsFree DEF TxInv
<1>12. Free(PendingCount)'
    BY <1>5, PendingIsFree, PTL
<1> QED BY <1>5, <1>7, <1>10, <1>11, <1>12, Zenon DEF Free

LEMMA GapGrows ==
    ASSUME TxInv, PendingCount <= PendingCount', PendingCount \in Nat, PendingCount' \in Nat,
           UNCHANGED <<attempts, disk, emit, dropped>>
    PROVE  GapInv'
<1>1. /\ \A k \in Actions : attempts[k].nonce \in Int /\ disk[k].nonce \in Int
      /\ emit.attempt.nonce \in Int
    BY AttemptFields, Zenon DEF TxInv, TxType, WorkType
<1> HIDE DEF PendingCount
<1> QED BY <1>1 DEF TxInv, GapInv

LEMMA SendKeeps ==
    ASSUME TxInv, Send
    PROVE  TxInv'
<1> PICK k : k = settler.key
    OBVIOUS
<1>1. /\ settler.pc = "send" /\ UNCHANGED <<swap, price, confirmed, commit, emit, overwritten, dropped>>
    BY DEF Send, In, ghosts
<1>2. k \in Actions /\ settler.nonce \in Nat /\ settler.gas \in Nat
    BY <1>1 DEF TxInv, WorkType
<1>3. CASE ~(Succeeds(key) /\ Admits(settler.nonce, settler.gas))
    BY <1>1, <1>3, EndKeeps DEF Send
<1>4. CASE Succeeds(key) /\ Admits(settler.nonce, settler.gas)
    <2> DEFINE tx == [owner |-> k, nonce |-> settler.nonce, gas |-> settler.gas]
    <2>1. /\ Put(tx) /\ settler' = [NoSettlement EXCEPT !.pc = "receipt", !.key = k]
          /\ UNCHANGED <<attempts, disk>>
        BY <1>4 DEF Send, apply_gas_and_nonce, key
    <2>2. /\ swap[k.swap] = "open" /\ settler.nonce >= confirmed
        BY <1>4, Zenon DEF Succeeds, Admits, key
    <2>3. attempts[k] # None /\ attempts[k].nonce = settler.nonce /\ attempts[k].last_gas = settler.gas
        BY <1>1, <2>2, Zenon DEF TxInv, Working, key
    <2>4. settler.gas <= MAX_GAS_PRICE
        BY <1>1 DEF TxInv, Bidding, Steps
    <2>5. /\ tx \in Txs /\ tx.nonce = settler.nonce /\ tx.gas = settler.gas /\ tx.owner = k
        BY <1>2, Zenon DEF Txs
    <2> HIDE DEF tx
    <2>6. /\ TxType' /\ PoolInv' /\ PendingCount <= PendingCount'
          /\ PendingCount \in Nat /\ PendingCount' \in Nat
        BY <1>1, <2>1, <2>2, <2>4, <2>5, PutPool
    <2>7. GapInv'
        BY <1>1, <2>1, <2>6, GapGrows
    <2>8. /\ settler' \in Settlements /\ settler'.pc = "receipt" /\ settler'.key = k
        BY <1>2, <2>1, NoWorkType, Zenon DEF Settlements, Steps
    <2>9. WorkType' /\ Bidding'
        BY <1>1, <1>2, <2>8, Zenon DEF TxInv, WorkType, Bidding, Settlements, Steps
    <2>10. Working'
        BY <1>1, <2>1, <2>3, <2>8 DEF Working, key
    <2>11. \A t \in pool' : t = tx \/ (t \in pool /\ t.nonce # tx.nonce)
        BY <2>1 DEF Put, AtNonce
    <2>12. Owned'
        <3> SUFFICES ASSUME NEW j \in Actions \ overwritten PROVE OwnedBy(j)'
            BY <1>1 DEF Owned
        <3>1. OwnedBy(j)
            BY DEF TxInv, Owned
        <3>2. CASE j = k
            <4>1. \A t \in OfKey(j)' : t = tx
                BY <2>3, <2>5, <2>11, <3>1, <3>2, Zenon DEF OwnedBy, OfKey
            <4> QED BY <1>2, <2>1, <2>3, <2>5, <3>1, <3>2, <4>1 DEF OwnedBy
        <3>3. CASE j # k
            <4>1. OfKey(j)' \subseteq OfKey(j)
                BY <2>5, <2>11, <3>3, Zenon DEF OfKey
            <4> QED BY <2>1, <3>1, <4>1 DEF OwnedBy
        <3> QED BY <3>2, <3>3
    <2> QED BY <2>6, <2>7, <2>9, <2>10, <2>12 DEF TxInv
<1> QED BY <1>3, <1>4

LEMMA SettlerKeeps ==
    ASSUME TxInv, ReplaceStep
    PROVE  TxInv'
<1>1. ASSUME NEW k \in Actions, TooEarly(k) PROVE TxInv'
    <2>1. settler' = settler /\ settler.pc = "idle" /\ settler \in Settlements
        BY <1>1, Zenon DEF TooEarly, In, TxInv, WorkType, Settlements
    <2> QED BY <1>1, <2>1, FailureKeeps, Zenon DEF TooEarly, ledger, ghosts
<1>2. CASE Receipt \/ GiveUp
    BY <1>2, EndKeeps DEF Receipt, GiveUp, In, ledger, ghosts
<1>3. CASE Check
    <2>1. settler.pc = "check" /\ UNCHANGED <<swap, price, confirmed, pool, commit, emit, overwritten, dropped>>
        BY <1>3 DEF Check, In, ledger, ghosts
    <2>2. CASE record_failed_attempt
        BY <2>1, <2>2, EndKeeps
    <2>3. CASE ~record_failed_attempt
        <3>1. settler' = [settler EXCEPT !.pc = "send"] /\ UNCHANGED <<attempts, disk>>
            BY <1>3, <2>3 DEF Check, GoOn
        <3>2. settler \in Settlements
            BY DEF TxInv, WorkType, Settlements
        <3>3. /\ settler' \in Settlements /\ settler'.pc = "send" /\ settler'.key = settler.key
              /\ settler'.nonce = settler.nonce /\ settler'.gas = settler.gas
            BY <3>1, <3>2 DEF Settlements, Steps
        <3>4. PoolInv' /\ PendingCount' = PendingCount /\ \A j : OfKey(j)' = OfKey(j)
            BY <2>1, SamePool DEF TxInv
        <3>5. TxType' /\ WorkType'
            BY <2>1, <3>1, <3>3 DEF TxInv, TxType, WorkType, Settlements
        <3>6. Working' /\ Bidding'
            BY <2>1, <3>1, <3>3, <3>4 DEF TxInv, Working, Bidding, key, Steps
        <3>7. Owned' /\ GapInv'
            BY <2>1, <3>1, <3>4 DEF TxInv, Owned, OwnedBy, GapInv
        <3> QED BY <3>4, <3>5, <3>6, <3>7 DEF TxInv
    <2> QED BY <2>2, <2>3
<1> QED BY <1>1, <1>2, <1>3, ReplacementKeeps, ChooseNonceKeeps, SendKeeps DEF ReplaceStep

\* Commitments: sent from the same account, by no key.
LEMMA CommitKeeps ==
    ASSUME TxInv, CommitPrepare \/ CommitSend
    PROVE  TxInv'
<1>1. UNCHANGED <<swap, price, confirmed, attempts, disk, settler, emit, overwritten, dropped>>
    BY DEF CommitPrepare, CommitSend, ledger, ghosts
<1>2. CASE UNCHANGED pool
    <2>1. PoolInv' /\ PendingCount' = PendingCount /\ \A j : OfKey(j)' = OfKey(j)
        BY <1>1, <1>2, SamePool DEF TxInv
    <2>2. commit' \in [pc : {"idle", "send"}, nonce : Nat, gas : Nat]
        <3>1. CASE CommitPrepare
            <4>1. PendingCount \in Nat
                BY PendingIsFree DEF TxInv, Free
            <4>2. (price * 6) \div 5 \in Nat
                <5>1. price \in Nat
                    BY DEF TxInv, TxType
                <5> QED BY <5>1
            <4>3. commit' = [pc |-> "send", nonce |-> PendingCount, gas |-> (price * 6) \div 5]
                BY <3>1 DEF CommitPrepare
            <4> HIDE DEF PendingCount
            <4> QED BY <4>1, <4>2, <4>3
        <3>2. CASE CommitSend
            BY <3>2, Zenon DEF CommitSend, NoCommit
        <3> QED BY <3>1, <3>2
    <2>3. TxType' /\ WorkType'
        BY <1>1, <1>2, <2>2, Zenon DEF TxInv, TxType, WorkType
    <2>4. Working' /\ Bidding' /\ Owned' /\ GapInv'
        BY <1>1, <2>1, Zenon DEF TxInv, Working, Bidding, Owned, OwnedBy, GapInv, key
    <2> QED BY <2>1, <2>3, <2>4, SMTT(30) DEF TxInv
<1>3. CASE ~UNCHANGED pool
    <2> DEFINE tx == [owner |-> Commitment, nonce |-> commit.nonce, gas |-> commit.gas]
    <2>1. Put(tx) /\ commit.nonce >= confirmed /\ commit' = NoCommit
        BY <1>3 DEF CommitPrepare, CommitSend, ledger, Admits
    <2>2. Commitment \notin Actions
        BY TxAssumption DEF Commitment
    <2>3. tx \in Txs /\ tx.owner = Commitment /\ tx.nonce = commit.nonce
        BY Zenon DEF TxInv, TxType, Txs
    <2> HIDE DEF tx
    <2>4. /\ TxType' /\ PoolInv' /\ PendingCount <= PendingCount'
          /\ PendingCount \in Nat /\ PendingCount' \in Nat
        BY <1>1, <2>1, <2>2, <2>3, PutPool, Zenon
    <2>5. GapInv'
        BY <1>1, <2>4, GapGrows
    <2>6. \A j \in Actions : OfKey(j)' \subseteq OfKey(j)
        BY <2>1, <2>2, <2>3 DEF Put, OfKey
    <2>7. WorkType' /\ Working'
        BY <1>1, Zenon DEF TxInv, WorkType, Working, key
    <2>8. Bidding'
        BY <1>1, <2>6, Zenon DEF TxInv, WorkType, Bidding, key, Steps
    <2>9. Owned'
        BY <1>1, <2>6, Zenon DEF TxInv, Owned, OwnedBy
    <2> QED BY <2>4, <2>5, <2>7, <2>8, <2>9 DEF TxInv
<1> QED BY <1>2, <1>3

\* The event of a settled swap takes its attempts away.
LEMMA ResolveKeeps ==
    ASSUME TxInv, NEW s \in SwapIds, Resolve(s)
    PROVE  TxInv'
<1>1. /\ swap[s] = "settled"
      /\ attempts' = [k \in Actions |-> IF k.swap = s THEN None ELSE attempts[k]]
      /\ disk' = [k \in Actions |-> IF k.swap = s THEN None ELSE disk[k]]
      /\ UNCHANGED <<swap, price, confirmed, pool, settler, commit, emit, overwritten, dropped>>
    BY Zenon DEF Resolve, ledger, ghosts
<1>2. PoolInv' /\ PendingCount' = PendingCount /\ \A j : OfKey(j)' = OfKey(j)
    BY <1>1, SamePool, Zenon DEF TxInv
<1>3. TxType' /\ WorkType'
    BY <1>1, NoWorkType, Zenon DEF TxInv, TxType, WorkType
<1>4. Working'
    <2> SUFFICES ASSUME settler.pc # "idle" PROVE Working'
        BY <1>1, Zenon DEF Working
    <2>1. settler.key \in Actions
        BY DEF TxInv, WorkType
    <2>2. CASE settler.key.swap = s
        BY <1>1, <2>1, <2>2, Zenon DEF TxInv, Working, key
    <2>3. CASE settler.key.swap # s
        BY <1>1, <2>1, <2>3, Zenon DEF TxInv, Working, key
    <2> QED BY <2>2, <2>3
<1>5. Bidding'
    BY <1>1, <1>2, Zenon DEF TxInv, Bidding, key
<1>6. Owned'
    BY <1>1, <1>2, Zenon DEF TxInv, Owned, OwnedBy
<1>7. GapInv'
    <2> SUFFICES ASSUME ~dropped PROVE GapInv'
        BY <1>1, Zenon DEF GapInv
    <2>1. None.nonce <= PendingCount
        <3>1. PendingCount \in Nat
            BY PendingIsFree DEF TxInv, Free
        <3> HIDE DEF PendingCount
        <3> QED BY <3>1, NoWorkType
    <2> HIDE DEF PendingCount
    <2> QED BY <1>1, <1>2, <2>1, Zenon DEF TxInv, GapInv
<1> QED BY <1>2, <1>3, <1>4, <1>5, <1>6, <1>7, Zenon DEF TxInv

\* A row read and written later: it is the row on disk, or the key is set apart.
LEMMA EmitKeeps ==
    ASSUME TxInv, (\E k \in Actions : EmitAgain(k)) \/ EmitSave
    PROVE  TxInv'
<1>1. UNCHANGED <<swap, price, confirmed, pool, attempts, settler, commit, dropped>>
    BY DEF EmitAgain, EmitSave, ledger, ghosts
<1>2. PoolInv' /\ PendingCount' = PendingCount /\ \A j : OfKey(j)' = OfKey(j)
    BY <1>1, SamePool DEF TxInv
<1>3. PendingCount \in Nat
    BY PendingIsFree DEF TxInv, Free
<1>4. Working'
    BY <1>1, Zenon DEF TxInv, Working, key
<1>5. ASSUME NEW k \in Actions, EmitAgain(k) PROVE TxInv'
    <2>1. emit' = [pc |-> "save", key |-> k, attempt |-> attempts[k]] /\ UNCHANGED <<disk, overwritten>>
        BY <1>5 DEF EmitAgain, ghosts
    <2>2. TxType' /\ WorkType'
        BY <1>1, <2>1, Zenon DEF TxInv, TxType, WorkType
    <2>3. Bidding' /\ Owned'
        BY <1>1, <1>2, <2>1, Zenon DEF TxInv, Bidding, Owned, OwnedBy, key
    <2>4. GapInv'
        BY <1>1, <1>2, <2>1, Zenon DEF TxInv, GapInv
    <2> QED BY <1>2, <1>4, <2>2, <2>3, <2>4 DEF TxInv
<1>6. CASE EmitSave
    <2> PICK k : k = emit.key
        OBVIOUS
    <2> PICK a : a = emit.attempt
        OBVIOUS
    <2>1. /\ emit.pc = "save" /\ disk' = [disk EXCEPT ![k] = a] /\ emit' = NoEmit
          /\ overwritten' = IF disk[k] = a THEN overwritten ELSE overwritten \cup {k}
        BY <1>6, Zenon DEF EmitSave
    <2>2. k \in Actions /\ a \in Attempts
        BY <2>1 DEF TxInv, WorkType
    <2>3. /\ disk' \in [Actions -> Attempts] /\ disk'[k] = a
          /\ \A j \in Actions : j # k => disk'[j] = disk[j]
        BY <2>1, <2>2, Zenon DEF TxInv, TxType
    <2>4. /\ NoEmit \in [pc : {"idle", "save"}, key : Actions \cup {AnyAction}, attempt : Attempts]
          /\ NoEmit.pc = "idle" /\ NoEmit.attempt = None
        BY NoWorkType, Zenon DEF NoEmit
    <2>5. TxType' /\ WorkType'
        BY <1>1, <2>1, <2>3, <2>4, Zenon DEF TxInv, TxType, WorkType
    <2>6. Bidding'
        BY <1>1, <1>2, <2>1, Zenon DEF TxInv, Bidding, key
    <2>7. Owned'
        <3> SUFFICES ASSUME NEW j \in Actions \ overwritten' PROVE OwnedBy(j)'
            BY DEF Owned
        <3>1. j \notin overwritten /\ (j = k => disk[k] = a)
            BY <2>1
        <3>2. OwnedBy(j)
            BY <3>1, Zenon DEF TxInv, Owned
        <3>3. disk'[j] = disk[j]
            BY <2>3, <3>1, Zenon
        <3> QED BY <1>1, <1>2, <3>2, <3>3, Zenon DEF OwnedBy
    <2>8. GapInv'
        <3> SUFFICES ASSUME ~dropped PROVE GapInv'
            BY <1>1, Zenon DEF GapInv
        <3>1. a.nonce <= PendingCount
            BY Zenon DEF TxInv, GapInv
        <3> HIDE DEF PendingCount
        <3>2. NoEmit.attempt.nonce <= PendingCount
            BY <1>3, <2>4, NoWorkType
        <3> QED BY <1>1, <1>2, <2>1, <2>3, <3>1, <3>2, Zenon DEF TxInv, GapInv
    <2> QED BY <1>2, <1>4, <2>5, <2>6, <2>7, <2>8 DEF TxInv
<1> QED BY <1>5, <1>6

LEMMA RestartKeeps ==
    ASSUME TxInv, Restart
    PROVE  TxInv'
<1>1. /\ attempts' = disk /\ settler' = NoSettlement /\ commit' = NoCommit /\ emit' = NoEmit
      /\ UNCHANGED <<swap, price, confirmed, pool, disk, overwritten, dropped>>
    BY DEF Restart, ledger, ghosts
<1>2. PoolInv' /\ PendingCount' = PendingCount /\ \A j : OfKey(j)' = OfKey(j)
    BY <1>1, SamePool DEF TxInv
<1>3. TxType' /\ WorkType' /\ Working' /\ Bidding'
    BY <1>1, NoWorkType, Zenon
       DEF TxInv, TxType, WorkType, Working, Bidding, NoCommit, NoEmit, Settlements, Steps
<1>4. Owned'
    BY <1>1, <1>2 DEF TxInv, Owned, OwnedBy
<1>5. GapInv'
    <2>1. PendingCount \in Nat
        BY PendingIsFree DEF TxInv, Free
    <2> HIDE DEF PendingCount
    <2>2. NoEmit.attempt.nonce <= PendingCount
        BY <2>1, NoWorkType DEF NoEmit
    <2> QED BY <1>1, <1>2, <2>2, Zenon DEF TxInv, GapInv
<1> QED BY <1>2, <1>3, <1>4, <1>5 DEF TxInv

-----------------------------------------------------------------------------
LEMMA TxStarts == TxInit => TxInv
<1> SUFFICES ASSUME TxInit PROVE TxInv
    OBVIOUS
<1> USE TxAssumption
<1>1. pool = {} /\ IsFiniteSet({}) /\ confirmed = 0 /\ disk = attempts /\ dropped = FALSE
    BY FS_EmptySet, Zenon DEF TxInit
<1>2. attempts \in [Actions -> {None, AttemptNew}] /\ swap \in [SwapIds -> {"open", "settled"}]
    BY DEF TxInit
<1>3. TxType /\ WorkType
    <2>1. TxType
        <3>1. price \in Nat /\ commit = NoCommit
            BY Zenon DEF TxInit
        <3>2. NoCommit \in [pc : {"idle", "send"}, nonce : Nat, gas : Nat]
            BY Zenon DEF NoCommit
        <3>3. attempts \in [Actions -> Attempts]
            BY <1>2, NoWorkType
        <3> QED BY <1>1, <1>2, <3>1, <3>2, <3>3, Zenon DEF TxType
    <2>2. settler = NoSettlement /\ emit = NoEmit
        BY Zenon DEF TxInit
    <2>3. WorkType
        BY <2>2, NoWorkType, Zenon DEF WorkType, NoEmit, Settlements
    <2> QED BY <2>1, <2>3
<1>4. PoolInv /\ Working /\ Bidding /\ Owned
    BY <1>1, NoWorkType, Zenon DEF TxInit, PoolInv, Working, Bidding, Owned, OwnedBy, OfKey, Steps
<1>5. GapInv
    <2>1. PendingCount \in Nat
        BY <1>3, PendingIsFree DEF Free
    <2>2. None.nonce = -1 /\ AttemptNew.nonce = -1
        BY DEF None, AttemptNew
    <2>3. emit.attempt = None
        BY Zenon DEF TxInit, NoEmit
    <2> HIDE DEF PendingCount
    <2>4. /\ \A k \in Actions : attempts[k].nonce = -1 /\ disk[k].nonce = -1
          /\ emit.attempt.nonce = -1
        BY <1>1, <1>2, <2>2, <2>3, Zenon
    <2> QED BY <2>1, <2>4 DEF GapInv
<1> QED BY <1>3, <1>4, <1>5 DEF TxInv

LEMMA TxSteps ==
    ASSUME TxInv, [TxNext]_txVars
    PROVE  TxInv'
<1>1. CASE UNCHANGED txVars
    <2>1. UNCHANGED <<swap, price, confirmed, pool, attempts, disk, settler, commit, emit,
                      overwritten, dropped>>
        BY <1>1, Zenon DEF txVars, ledger, ghosts
    <2>2. PoolInv' /\ PendingCount' = PendingCount /\ \A j : OfKey(j)' = OfKey(j)
        BY <2>1, SamePool DEF TxInv
    <2>3. TxType' /\ WorkType'
        BY <2>1, Zenon DEF TxInv, TxType, WorkType
    <2>4. Working' /\ Bidding'
        BY <2>1, <2>2, Zenon DEF TxInv, Working, Bidding, key
    <2>5. Owned' /\ GapInv'
        BY <2>1, <2>2, Zenon DEF TxInv, Owned, OwnedBy, GapInv
    <2> QED BY <2>2, <2>3, <2>4, <2>5, Zenon DEF TxInv
<1> QED
    BY <1>1, NetworkKeeps, SettlerKeeps, CommitKeeps, ResolveKeeps, EmitKeeps, RestartKeeps
       DEF TxNext, SenderStep

LEMMA TxInvariant == TxSpec => []TxInv
<1>1. TxInv /\ [TxNext]_txVars => TxInv'
    BY TxSteps
<1> QED BY <1>1, TxStarts, PTL DEF TxSpec

\* However often a claim or a refund is retried and the node restarted, for any
\* keys, prices, cap and evictions, the pool holds at most one transaction for it:
\* the nonce is on disk before the transaction is sent (replacement, persist_swap).
THEOREM NoSecondTransaction == TxSpec => []OneLiveTransaction
<1>1. TxInv => OneLiveTransaction
    <2> SUFFICES ASSUME TxInv, NEW k \in Actions \ overwritten PROVE Cardinality(OfKey(k)) <= 1
        BY DEF OneLiveTransaction
    <2>1. \A t, u \in OfKey(k) : t = u
        BY Zenon DEF TxInv, Owned, OwnedBy
    <2>2. CASE OfKey(k) = {}
        BY <2>2, FS_EmptySet
    <2>3. CASE OfKey(k) # {}
        <3>1. PICK t \in OfKey(k) : OfKey(k) = {t}
            BY <2>1, <2>3
        <3>2. Cardinality({t}) = 1
            BY FS_Singleton, Zenon
        <3> QED BY <3>1, <3>2
    <2> QED BY <2>2, <2>3
<1> QED BY <1>1, TxInvariant, PTL

\* A retried transaction outbids the one it replaces, or pays the cap, for any
\* prices of the network between the attempts (next_gas in replacement).
THEOREM RetriesOutbid == TxSpec => []BumpIsAccepted
<1>1. TxInv => BumpIsAccepted
    <2> SUFFICES ASSUME TxInv, settler.pc = "send", key \notin overwritten, NEW old \in OfKey(key)
                 PROVE  Replaceable(old, settler.gas) \/ settler.gas = MAX_GAS_PRICE
        BY Zenon DEF BumpIsAccepted, In
    <2>1. Outbids(settler.gas, old)
        BY DEF TxInv, Bidding, Steps
    <2>2. old.gas \in Nat /\ settler.gas \in Nat
        BY DEF TxInv, TxType, WorkType, OfKey, Txs
    <2>3. (old.gas * 110) \div 100 <= (old.gas * 115) \div 100
        BY <2>2, SMTT(30)
    <2> QED BY <2>1, <2>2, <2>3 DEF Outbids, Replaceable
<1> QED BY <1>1, TxInvariant, PTL

\* The nonce an action keeps is never past the account's next free one, as long as
\* the network forgets no transaction (the pending count read by replacement).
THEOREM NoncesHaveNoGap == TxSpec => []NoNonceGap
<1>1. TxInv => NoNonceGap
    BY DEF TxInv, GapInv, NoNonceGap
<1> QED BY <1>1, TxInvariant, PTL
=============================================================================
