--------------------------- MODULE ContractProofs ---------------------------
(***************************************************************************)
(* Proofs about the contract, for any set of swaps, accounts, secrets and  *)
(* values: its types, its safety invariants, that it implements the        *)
(* escrow, and that its balance covers the swaps that are open.            *)
(***************************************************************************)
EXTENDS StroemHTLC, FiniteSetTheorems, WellFoundedInduction, TLAPS

\* What the safety invariants need to be inductive: every hash in use is
\* recorded, and only an initialized swap is finalized.
StorageInv ==
    \A s \in SwapIds :
        /\ swaps[s].initialized => swaps[s].secretHash \in secretHashes
        /\ swaps[s].finalized => swaps[s].initialized

ContractInv == TypeOK /\ StorageInv /\ SecretOpensOneSwap /\ LogTellsStorage

\* Integer division of an amount leaves both shares natural.
LEMMA ShareIsNat ==
    ASSUME NEW a \in Nat, NEW d \in Nat \ {0}
    PROVE  a \div d \in Nat /\ a \div d <= a
  OBVIOUS

\* What an emitted event does to the log: one more event at the end.
LEMMA EmitAppends ==
    ASSUME log \in Seq(Event), NEW k \in {"Commitment", "Claim", "Refund"},
           NEW s \in SwapIds, Emit(k, s)
    PROVE  /\ log' \in Seq(Event)
           /\ Len(log') = Len(log) + 1
           /\ \A i \in 1..Len(log) : log'[i] = log[i]
           /\ log'[Len(log) + 1] = [kind |-> k, swapId |-> s]
           /\ Range(log') = Range(log) \cup {[kind |-> k, swapId |-> s]}
  <1> DEFINE e == [kind |-> k, swapId |-> s]
  <1>1. e \in Event
    BY DEF Event
  <1> HIDE DEF e
  <1>2. /\ log' = Append(log, e)
        /\ log' \in Seq(Event)
        /\ Len(log') = Len(log) + 1
        /\ \A i \in 1..Len(log) : log'[i] = log[i]
        /\ log'[Len(log) + 1] = e
    BY <1>1 DEF Emit, e
  <1>3. Len(log) \in Nat /\ DOMAIN log = 1..Len(log) /\ DOMAIN log' = 1..(Len(log) + 1)
    BY <1>2
  <1>4. \A i \in DOMAIN log' : i \in DOMAIN log \/ i = Len(log) + 1
    BY <1>3
  <1>5. \A i \in DOMAIN log : i \in DOMAIN log' /\ log'[i] = log[i]
    BY <1>2, <1>3
  <1>6. Len(log) + 1 \in DOMAIN log'
    BY <1>3
  <1>7. Range(log') \subseteq Range(log) \cup {e}
    BY <1>2, <1>4, <1>5 DEF Range
  <1>8. Range(log) \cup {e} \subseteq Range(log')
    BY <1>2, <1>5, <1>6 DEF Range
  <1> QED BY <1>2, <1>7, <1>8 DEF e

\* Emitting an event logs that event and no other.
LEMMA EmitLogs ==
    ASSUME TypeOK, NEW k \in {"Commitment", "Claim", "Refund"},
           NEW s \in SwapIds, Emit(k, s)
    PROVE  \A c \in {"Commitment", "Claim", "Refund"}, r \in SwapIds :
              Logged(c, r)' <=> Logged(c, r) \/ (c = k /\ r = s)
  <1>1. Range(log') = Range(log) \cup {[kind |-> k, swapId |-> s]}
    BY EmitAppends, Zenon DEF TypeOK
  <1> QED BY <1>1 DEF Logged

\* An event with a known kind and swap is one the log lists.
LEMMA LoggedWhereIndexed ==
    ASSUME log \in Seq(Event), NEW i \in DOMAIN log
    PROVE  /\ log[i].kind \in {"Commitment", "Claim", "Refund"}
           /\ log[i].swapId \in SwapIds
           /\ Logged(log[i].kind, log[i].swapId)
  <1>1. log[i] \in Event
    OBVIOUS
  <1>2. log[i] = [kind |-> log[i].kind, swapId |-> log[i].swapId]
    BY <1>1 DEF Event
  <1> QED BY <1>1, <1>2 DEF Event, Logged, Range

\* A settlement keeps balances natural.
LEMMA PayoutKeepsTypes ==
    ASSUME TypeOK, NEW amount \in Nat, NEW b \in Accounts, NEW solver \in Accounts,
           Payout(amount, b, solver)
    PROVE  balance' \in Nat /\ wallet' \in [Accounts -> Nat]
  <1>1. amount \div BPS_DENOMINATOR \in Nat /\ amount \div BPS_DENOMINATOR <= amount
    BY HTLCAssumption, ShareIsNat
  <1> DEFINE r == amount \div BPS_DENOMINATOR
  <1>2. amount - r \in Nat
    BY <1>1
  <1> HIDE DEF r
  <1>3. wallet' = [a \in Accounts |->
                     wallet[a] + (IF a = b THEN amount - r ELSE 0)
                               + (IF a = solver THEN r ELSE 0)]
    BY DEF Payout, r
  <1>4. balance' \in Nat
    BY DEF Payout, TypeOK
  <1> QED BY <1>1, <1>2, <1>3, <1>4, SMTT(30) DEF TypeOK, r

LEMMA InitIInv == Init => ContractInv
  <1> SUFFICES ASSUME Init PROVE ContractInv
    OBVIOUS
  <1>1. EmptySwap \in Swap
    BY HTLCAssumption DEF EmptySwap, Swap
  <1>2. TypeOK
    BY <1>1, HTLCAssumption DEF Init, TypeOK
  <1>3. \A s \in SwapIds : ~swaps[s].initialized /\ ~swaps[s].finalized
    BY DEF Init, EmptySwap
  <1>4. log = <<>> /\ Len(log) = 0
    BY DEF Init
  <1>5. DOMAIN log = {} /\ Range(log) = {}
    BY <1>4 DEF Range
  <1> QED BY <1>2, <1>3, <1>5 DEF Logged, ContractInv, StorageInv, SecretOpensOneSwap, LogTellsStorage

\* A new swap takes an id and a hash that no swap has used, and logs the
\* first event of its id.
LEMMA NewSwapKeepsIInv ==
    ASSUME ContractInv, NEW caller \in Accounts, NEW onBehalfOf \in Accounts,
           NEW receiver \in Accounts, NEW hash \in Hashes, NEW value \in Values,
           NEW timelock \in 0..MaxTime, NEW s \in SwapIds,
           NewSwap(caller, onBehalfOf, receiver, hash, value, timelock, s)
    PROVE  ContractInv'
  <1> DEFINE new == [sender |-> onBehalfOf, receiver |-> receiver,
                     amount |-> value, secretHash |-> hash,
                     timelock |-> timelock,
                     initialized |-> TRUE, finalized |-> FALSE]
  <1>1. /\ TypeOK /\ StorageInv /\ SecretOpensOneSwap /\ LogTellsStorage
        /\ value \in Nat /\ new \in Swap
    BY HTLCAssumption DEF ContractInv, Swap
  <1>2. /\ swaps' = [swaps EXCEPT ![s] = new]
        /\ ~swaps[s].initialized /\ hash \notin secretHashes
        /\ secretHashes' = secretHashes \cup {hash}
        /\ Emit("Commitment", s)
    BY DEF NewSwap, AcceptsSwap
  <1>3. /\ log' \in Seq(Event)
        /\ Len(log') = Len(log) + 1
        /\ \A i \in 1..Len(log) : log'[i] = log[i]
        /\ log'[Len(log) + 1] = [kind |-> "Commitment", swapId |-> s]
    BY <1>1, <1>2, EmitAppends DEF TypeOK
  <1>4. /\ swaps'[s] = new /\ new.initialized /\ ~new.finalized /\ new.secretHash = hash
        /\ \A r \in SwapIds \ {s} : swaps'[r] = swaps[r]
    BY <1>1, <1>2 DEF TypeOK
  <1> HIDE DEF new
  <1>5. TypeOK'
    <2>1. swaps' \in [SwapIds -> Swap]
      BY <1>1, <1>2 DEF TypeOK
    <2>2. balance' \in Nat /\ wallet' \in [Accounts -> Nat] /\ now' = now
      BY <1>1 DEF TypeOK, NewSwap
    <2> QED BY <1>1, <1>2, <1>3, <2>1, <2>2 DEF TypeOK
  <1>6. StorageInv'
    BY <1>1, <1>2, <1>4 DEF StorageInv
  <1>7. SecretOpensOneSwap'
    BY <1>1, <1>2, <1>4 DEF SecretOpensOneSwap, StorageInv
  <1>8. LogTellsStorage'
    <2>1. \A i \in DOMAIN log : log[i].swapId # s
      BY <1>1, <1>2, LoggedWhereIndexed, SMTT(30) DEF LogTellsStorage, StorageInv, TypeOK
    <2>2. \A c \in {"Commitment", "Claim", "Refund"}, r \in SwapIds :
             Logged(c, r)' <=> Logged(c, r) \/ (c = "Commitment" /\ r = s)
      BY <1>1, <1>2, EmitLogs
    <2>3. \A r \in SwapIds : swaps'[r].initialized <=> Logged("Commitment", r)'
      BY <1>1, <1>4, <2>2 DEF LogTellsStorage
    <2>4. \A r \in SwapIds : swaps'[r].finalized <=> Logged("Claim", r)' \/ Logged("Refund", r)'
      BY <1>1, <1>2, <1>4, <2>2 DEF LogTellsStorage, StorageInv
    <2>5. \A i, j \in DOMAIN log' :
             i < j /\ log'[i].swapId = log'[j].swapId
               => log'[i].kind = "Commitment" /\ log'[j].kind \in Terminal
      <3>1. /\ Len(log) \in Nat /\ DOMAIN log = 1..Len(log)
            /\ DOMAIN log' = 1..(Len(log) + 1)
        BY <1>1, <1>3 DEF TypeOK
      <3> QED BY <1>1, <1>3, <2>1, <3>1 DEF LogTellsStorage
    <2> QED BY <2>3, <2>4, <2>5 DEF LogTellsStorage
  <1> QED BY <1>5, <1>6, <1>7, <1>8 DEF ContractInv

\* A settlement, by claim or by refund, finalizes an open swap and logs the
\* second and last event of its id.
LEMMA SettlementKeepsIInv ==
    ASSUME ContractInv, NEW s \in SwapIds, NEW k \in Terminal, Open(s), Finalize(s),
           Emit(k, s), UNCHANGED <<secretHashes, now>>,
           balance' \in Nat, wallet' \in [Accounts -> Nat]
    PROVE  ContractInv'
  <1>1. TypeOK /\ StorageInv /\ SecretOpensOneSwap /\ LogTellsStorage
    BY DEF ContractInv
  <1>2. /\ log' \in Seq(Event)
        /\ Len(log') = Len(log) + 1
        /\ \A i \in 1..Len(log) : log'[i] = log[i]
        /\ log'[Len(log) + 1] = [kind |-> k, swapId |-> s]
    BY <1>1, EmitAppends DEF TypeOK, Terminal
  <1>3. /\ swaps' \in [SwapIds -> Swap]
        /\ swaps'[s].initialized /\ swaps'[s].finalized
        /\ \A r \in SwapIds : swaps'[r].secretHash = swaps[r].secretHash
                             /\ swaps'[r].initialized = swaps[r].initialized
        /\ \A r \in SwapIds \ {s} : swaps'[r] = swaps[r]
    BY <1>1, Zenon DEF TypeOK, Finalize, Open, Swap
  <1>4. TypeOK'
    BY <1>1, <1>2, <1>3 DEF TypeOK
  <1>5. StorageInv' /\ SecretOpensOneSwap'
    BY <1>1, <1>3 DEF StorageInv, SecretOpensOneSwap
  <1>6. LogTellsStorage'
    <2>1. \A i \in DOMAIN log : log[i].swapId = s => log[i].kind = "Commitment"
      BY <1>1, LoggedWhereIndexed DEF LogTellsStorage, Open, TypeOK
    <2>2. \A c \in {"Commitment", "Claim", "Refund"}, r \in SwapIds :
             Logged(c, r)' <=> Logged(c, r) \/ (c = k /\ r = s)
      BY <1>1, EmitLogs DEF Terminal
    <2>3. \A r \in SwapIds : swaps'[r].initialized <=> Logged("Commitment", r)'
      BY <1>1, <1>3, <2>2 DEF LogTellsStorage, Terminal
    <2>4. \A r \in SwapIds : swaps'[r].finalized <=> Logged("Claim", r)' \/ Logged("Refund", r)'
      BY <1>1, <1>3, <2>2 DEF LogTellsStorage, Terminal
    <2>5. \A i, j \in DOMAIN log' :
             i < j /\ log'[i].swapId = log'[j].swapId
               => log'[i].kind = "Commitment" /\ log'[j].kind \in Terminal
      <3>1. /\ Len(log) \in Nat /\ DOMAIN log = 1..Len(log)
            /\ DOMAIN log' = 1..(Len(log) + 1)
        BY <1>1, <1>2 DEF TypeOK
      <3> QED BY <1>1, <1>2, <2>1, <3>1 DEF LogTellsStorage
    <2> QED BY <2>3, <2>4, <2>5 DEF LogTellsStorage
  <1> QED BY <1>4, <1>5, <1>6 DEF ContractInv

LEMMA NextIInv == ContractInv /\ [Next]_vars => ContractInv'
  <1> SUFFICES ASSUME ContractInv, [Next]_vars PROVE ContractInv'
    OBVIOUS
  <1>1. ASSUME NEW caller \in Accounts, NEW onBehalfOf \in Accounts,
               NEW receiver \in Accounts, NEW hash \in Hashes, NEW value \in Values,
               NEW timelock \in 0..MaxTime, NEW s \in SwapIds,
               NewSwap(caller, onBehalfOf, receiver, hash, value, timelock, s)
        PROVE  ContractInv'
    BY <1>1, NewSwapKeepsIInv
  <1>2. ASSUME NEW solver \in Accounts, NEW s \in SwapIds, NEW secret \in Secrets,
               Claim(solver, s, secret)
        PROVE  ContractInv'
    <2>1. TypeOK /\ swaps[s].amount \in Nat /\ swaps[s].receiver \in Accounts
      BY DEF ContractInv, TypeOK, Swap
    <2>2. balance' \in Nat /\ wallet' \in [Accounts -> Nat]
      BY <1>2, <2>1, PayoutKeepsTypes DEF Claim
    <2> QED BY <1>2, <2>2, SettlementKeepsIInv DEF Claim, Terminal
  <1>3. ASSUME NEW solver \in Accounts, NEW s \in SwapIds, Refund(solver, s)
        PROVE  ContractInv'
    <2>1. TypeOK /\ swaps[s].amount \in Nat /\ swaps[s].sender \in Accounts
      BY SMTT(30) DEF ContractInv, TypeOK, Swap
    <2>2. balance' \in Nat /\ wallet' \in [Accounts -> Nat]
      BY <1>3, <2>1, PayoutKeepsTypes DEF Refund
    <2> QED BY <1>3, <2>2, SettlementKeepsIInv DEF Refund, Terminal
  <1>4. CASE Mine
    BY <1>4, HTLCAssumption DEF Mine, ContractInv, TypeOK, StorageInv, SecretOpensOneSwap,
          LogTellsStorage, Logged
  <1>5. CASE UNCHANGED vars
    BY <1>5 DEF vars, ContractInv, TypeOK, StorageInv, SecretOpensOneSwap, LogTellsStorage, Logged
  <1> QED BY <1>1, <1>2, <1>3, <1>4, <1>5 DEF Next

\* The inductive invariant holds in every reachable state of the contract.
THEOREM InductiveInvariant == Spec => []ContractInv
  BY InitIInv, NextIInv, PTL DEF Spec

\* Types are kept; in particular no transfer of claim or refund overdraws the
\* contract, whatever the values and rewards.
THEOREM TypeCorrect == Spec => []TypeOK
  <1>1. ContractInv => TypeOK
    BY DEF ContractInv
  <1> QED BY <1>1, InductiveInvariant, PTL

\* newSwap's check of secretHashes makes one secret open at most one swap.
THEOREM SecretsAreSingleUse == Spec => []SecretOpensOneSwap
  <1>1. ContractInv => SecretOpensOneSwap
    BY DEF ContractInv
  <1> QED BY <1>1, InductiveInvariant, PTL

\* The events claim, refund and newSwap emit agree with the storage they write.
THEOREM EventsAreTrue == Spec => []LogTellsStorage
  <1>1. ContractInv => LogTellsStorage
    BY DEF ContractInv
  <1> QED BY <1>1, InductiveInvariant, PTL

\* The state of the escrow that one swap's storage and events stand for.
LEMMA StatusOf ==
    ASSUME NEW s \in SwapIds
    PROVE  /\ ~swaps[s].initialized => EscrowStatus(s) = "none"
           /\ Open(s) => EscrowStatus(s) = "locked"
           /\ swaps[s].initialized /\ swaps[s].finalized =>
                EscrowStatus(s) = IF Logged("Claim", s) THEN "claimed" ELSE "refunded"
  BY DEF EscrowStatus, Open

LEMMA InitEscrow == Init => E!Init
  <1> SUFFICES ASSUME Init PROVE E!Init
    OBVIOUS
  <1>1. \A s \in SwapIds : EscrowStatus(s) = "none" /\ swaps[s].timelock = 0
    BY StatusOf DEF Init, EmptySwap
  <1> QED BY <1>1, HTLCAssumption DEF E!Init, Init

\* Swaps whose storage and events a step leaves alone keep their status.
LEMMA UntouchedKeepsStatus ==
    ASSUME NEW s \in SwapIds, swaps'[s] = swaps[s],
           Logged("Claim", s)' <=> Logged("Claim", s)
    PROVE  EscrowStatus(s)' = EscrowStatus(s)
  BY DEF EscrowStatus, Open

\* The step from the contract to the escrow: newSwap locks, claim claims,
\* refund refunds, a new block is a tick.
LEMMA NextEscrow == ContractInv /\ ContractInv' /\ [Next]_vars => [E!Next]_E!vars
  <1> SUFFICES ASSUME ContractInv, ContractInv', [Next]_vars PROVE [E!Next]_E!vars
    OBVIOUS
  <1> DEFINE st == [s \in SwapIds |-> EscrowStatus(s)]
             dl == [s \in SwapIds |-> swaps[s].timelock]
  <1>1. ASSUME NEW caller \in Accounts, NEW onBehalfOf \in Accounts,
               NEW receiver \in Accounts, NEW hash \in Hashes, NEW value \in Values,
               NEW timelock \in 0..MaxTime, NEW s \in SwapIds,
               NewSwap(caller, onBehalfOf, receiver, hash, value, timelock, s)
        PROVE  E!Lock(s, timelock)
    <2>1. /\ ~swaps[s].initialized /\ Open(s)' /\ swaps'[s].timelock = timelock
          /\ \A r \in SwapIds \ {s} : swaps'[r] = swaps[r]
      BY <1>1 DEF NewSwap, AcceptsSwap, ContractInv, TypeOK, Open
    <2>2. \A r \in SwapIds : Logged("Claim", r)' <=> Logged("Claim", r)
      BY <1>1, EmitLogs DEF NewSwap, ContractInv
    <2>3. EscrowStatus(s) = "none" /\ EscrowStatus(s)' = "locked"
      BY <2>1, StatusOf DEF EscrowStatus
    <2>4. \A r \in SwapIds \ {s} : EscrowStatus(r)' = EscrowStatus(r)
      BY <2>1, <2>2, UntouchedKeepsStatus
    <2>5. st' = [st EXCEPT ![s] = "locked"] /\ dl' = [dl EXCEPT ![s] = timelock]
      BY <2>1, <2>3, <2>4, Zenon
    <2> QED BY <1>1, <2>3, <2>5 DEF E!Lock, NewSwap, AcceptsSwap
  <1>2. ASSUME NEW s \in SwapIds, NEW k \in Terminal, Open(s), Finalize(s), Emit(k, s)
        PROVE  /\ st[s] = "locked" /\ dl' = dl
               /\ st' = [st EXCEPT ![s] = IF k = "Claim" THEN "claimed" ELSE "refunded"]
    <2>1. /\ swaps'[s].initialized /\ swaps'[s].finalized
          /\ \A r \in SwapIds : swaps'[r].timelock = swaps[r].timelock
          /\ \A r \in SwapIds \ {s} : swaps'[r] = swaps[r]
      BY <1>2 DEF ContractInv, TypeOK, Finalize, Open, Swap
    <2>2. \A r \in SwapIds :
             Logged("Claim", r)' <=> Logged("Claim", r) \/ (k = "Claim" /\ r = s)
      BY <1>2, EmitLogs DEF ContractInv, Terminal
    <2>3. ~Logged("Claim", s)
      BY <1>2 DEF ContractInv, LogTellsStorage, Open
    <2>4. /\ EscrowStatus(s) = "locked"
          /\ EscrowStatus(s)' = IF k = "Claim" THEN "claimed" ELSE "refunded"
      BY <1>2, <2>1, <2>2, <2>3 DEF EscrowStatus, Open
    <2>5. \A r \in SwapIds \ {s} : EscrowStatus(r)' = EscrowStatus(r)
      BY <2>1, <2>2, UntouchedKeepsStatus
    <2> QED BY <2>1, <2>4, <2>5, Zenon
  <1>3. ASSUME NEW solver \in Accounts, NEW s \in SwapIds, NEW secret \in Secrets,
               Claim(solver, s, secret)
        PROVE  E!Claim(s)
    <2>1. st[s] = "locked" /\ dl' = dl /\ st' = [st EXCEPT ![s] = "claimed"]
      BY <1>2, <1>3, Zenon DEF Claim, Terminal
    <2> QED BY <1>3, <2>1 DEF E!Claim, Claim, Claimable
  <1>4. ASSUME NEW solver \in Accounts, NEW s \in SwapIds, Refund(solver, s)
        PROVE  E!Refund(s)
    <2>1. st[s] = "locked" /\ dl' = dl /\ st' = [st EXCEPT ![s] = "refunded"]
      BY <1>2, <1>4, Zenon DEF Refund, Terminal
    <2> QED BY <1>4, <2>1 DEF E!Refund, Refund
  <1>5. ASSUME swaps' = swaps, log' = log
        PROVE  st' = st /\ dl' = dl
    BY <1>5, UntouchedKeepsStatus DEF Logged
  <1>6. CASE Mine
    BY <1>5, <1>6, HTLCAssumption DEF Mine, E!Next, E!Tick, ContractInv, TypeOK
  <1>7. CASE UNCHANGED vars
    BY <1>5, <1>7 DEF vars, E!vars
  <1> HIDE DEF st, dl
  <1> QED BY <1>1, <1>3, <1>4, <1>6, <1>7 DEF Next, E!Next

\* The contract implements the abstract escrow: every swap is locked once,
\* settled at most once, claimed only before and refunded only after its
\* timelock.
THEOREM Refinement == Spec => ImplementsEscrow
  BY InductiveInvariant, InitEscrow, NextEscrow, PTL DEF Spec, ImplementsEscrow, E!Spec

-----------------------------------------------------------------------------
(* Sums over finite sets, as MapThenSumSet computes them: a function on the *)
(* subsets takes one chosen element at a time.                             *)

AnyOf(s) == CHOOSE x \in s : TRUE
IsSum(f, S, g) ==
    g = [s \in SUBSET S |-> IF s = {} THEN 0 ELSE f[AnyOf(s)].amount + g[s \ {AnyOf(s)}]]
SumOf(f, S) == CHOOSE g : IsSum(f, S, g)
Total(f, S) == SumOf(f, S)[S]

LEMMA TotalIsFold ==
    ASSUME NEW f, NEW S
    PROVE  MapThenSumSet(LAMBDA s : f[s].amount, S) = Total(f, S)
  BY Zenon DEF MapThenSumSet, MapThenFoldSet, Total, SumOf, IsSum, AnyOf

\* Among subsets of a finite set, some are minimal.
LEMMA MinimalSubset ==
    ASSUME NEW U, IsFiniteSet(U), NEW B, B \subseteq SUBSET U, B # {}
    PROVE  \E s \in B : \A t \in B : t \subseteq s => t = s
  <1>1. B \subseteq FiniteSubsetsOf(U)
    BY FS_FiniteSubsetsOfFinite
  <1>2. PICK s \in B : \A t \in B : ~(<<t, s>> \in StrictSubsetOrdering(U))
    BY <1>1, FS_StrictSubsetOrderingWellFounded, WFMin
  <1>3. \A t \in B : t \subseteq s => t = s
    BY <1>2, Zenon DEF StrictSubsetOrdering
  <1> QED BY <1>3

\* The steps of the recursion.
LEMMA SumSteps ==
    ASSUME NEW f, NEW S, NEW g, IsSum(f, S, g), NEW s \in SUBSET S
    PROVE  /\ s = {} => g[s] = 0
           /\ s # {} => /\ AnyOf(s) \in s
                        /\ g[s] = f[AnyOf(s)].amount + g[s \ {AnyOf(s)}]
  <1>1. g[s] = IF s = {} THEN 0 ELSE f[AnyOf(s)].amount + g[s \ {AnyOf(s)}]
    BY Zenon DEF IsSum
  <1>2. s # {} => AnyOf(s) \in s
    BY Zenon DEF AnyOf
  <1> QED BY <1>1, <1>2, Zenon

\* A sum depends on the amounts of its own elements, and on nothing else.
LEMMA SumsAgree ==
    ASSUME NEW U, IsFiniteSet(U), NEW S, NEW T, U \subseteq S, U \subseteq T,
           NEW f, NEW g, IsSum(f, S, g), NEW e, NEW h, IsSum(e, T, h),
           \A x \in U : f[x].amount = e[x].amount
    PROVE  g[U] = h[U]
  <1> DEFINE B == {s \in SUBSET U : g[s] # h[s]}
  <1> SUFFICES ASSUME B # {} PROVE FALSE
    BY Zenon
  <1>1. PICK s \in B : \A t \in B : t \subseteq s => t = s
    <2> HIDE DEF B
    <2>1. B \subseteq SUBSET U
      BY Zenon DEF B
    <2> QED BY <2>1, MinimalSubset
  <1>2. s \in SUBSET S /\ s \in SUBSET T /\ s \in SUBSET U /\ g[s] # h[s]
    BY <1>1, Zenon
  <1>3. s # {}
    BY <1>2, SumSteps, Zenon
  <1> DEFINE x == AnyOf(s)
             t == s \ {x}
  <1>4. x \in s /\ g[s] = f[x].amount + g[t] /\ h[s] = e[x].amount + h[t]
    BY <1>2, <1>3, SumSteps
  <1>5. t \in SUBSET U /\ t \subseteq s /\ t # s
    BY <1>2, <1>4, Zenon
  <1>6. g[t] = h[t]
    BY <1>1, <1>5, Zenon
  <1>7. f[x].amount = e[x].amount
    BY <1>2, <1>4, Zenon
  <1> QED BY <1>2, <1>4, <1>6, <1>7, Zenon

\* The recursion defines a function: the sums of the smaller sets give it.
LEMMA SumExists ==
    ASSUME NEW U, IsFiniteSet(U), NEW f
    PROVE  IsSum(f, U, SumOf(f, U))
  <1> DEFINE Has(s) == \E g : IsSum(f, s, g)
             B == {s \in SUBSET U : ~Has(s)}
  <1>1. SUFFICES B = {}
    <2>1. U \in SUBSET U
      BY Zenon
    <2>2. Has(U)
      BY <1>1, <2>1, Zenon
    <2> QED BY <2>2, Zenon DEF SumOf
  <1>2. SUFFICES ASSUME B # {} PROVE FALSE
    BY Zenon
  <1>3. PICK s \in B : \A t \in B : t \subseteq s => t = s
    <2>1. B \subseteq SUBSET U
      BY Zenon
    <2> HIDE DEF B
    <2> QED BY <1>2, <2>1, MinimalSubset
  <1>4. \A t \in SUBSET s : t # s => IsSum(f, t, SumOf(f, t)) /\ IsFiniteSet(t)
    <2>1. \A t \in SUBSET s : t # s => Has(t)
      BY <1>3, Zenon
    <2>2. \A t \in SUBSET s : IsFiniteSet(t)
      BY <1>3, FS_Subset, Zenon
    <2> QED BY <2>1, <2>2, Zenon DEF SumOf
  <1> DEFINE h == [t \in SUBSET s |->
                     IF t = {} THEN 0
                     ELSE f[AnyOf(t)].amount + Total(f, t \ {AnyOf(t)})]
  <1>5. ASSUME NEW t \in SUBSET s, t # s PROVE h[t] = Total(f, t)
    <2>1. IsSum(f, t, SumOf(f, t)) /\ t \in SUBSET t
      BY <1>4, <1>5, Zenon
    <2>2. CASE t = {}
      BY <2>1, <2>2, SumSteps, Zenon DEF Total
    <2>3. CASE t # {}
      <3> DEFINE u == t \ {AnyOf(t)}
      <3>1. AnyOf(t) \in t /\ Total(f, t) = f[AnyOf(t)].amount + SumOf(f, t)[u]
        BY <2>1, <2>3, SumSteps DEF Total
      <3>2. u \in SUBSET s /\ u # s /\ u \subseteq t /\ u \subseteq u
        BY <1>5, <3>1, Zenon
      <3>3. IsSum(f, u, SumOf(f, u)) /\ IsFiniteSet(u)
        BY <1>4, <3>2, Zenon
      <3>4. SumOf(f, t)[u] = SumOf(f, u)[u]
        <4> HIDE DEF u
        <4> QED BY <2>1, <3>2, <3>3, SumsAgree
      <3>5. h[t] = f[AnyOf(t)].amount + Total(f, u)
        BY <2>3, Zenon
      <3> QED BY <3>1, <3>4, <3>5, Zenon DEF Total
    <2> QED BY <2>2, <2>3, Zenon
  <1>6. \A t \in SUBSET s : t # {} => /\ t \ {AnyOf(t)} \in SUBSET s
                                      /\ t \ {AnyOf(t)} # s
    BY Zenon DEF AnyOf
  <1>7. h = [t \in SUBSET s |-> IF t = {} THEN 0 ELSE f[AnyOf(t)].amount + h[t \ {AnyOf(t)}]]
    <2>1. \A t \in SUBSET s : t # {} => h[t \ {AnyOf(t)}] = Total(f, t \ {AnyOf(t)})
      BY <1>5, <1>6, Zenon
    <2> QED BY <2>1, Zenon
  <1>8. Has(s)
    <2> HIDE DEF h
    <2> QED BY <1>7, Zenon DEF IsSum
  <1> QED BY <1>3, <1>8, Zenon

\* The sum of naturals is a natural, and any element may be taken out first.
LEMMA TotalProperties ==
    ASSUME NEW U, IsFiniteSet(U), NEW f, \A x \in U : f[x].amount \in Nat
    PROVE  /\ Total(f, {}) = 0
           /\ Total(f, U) \in Nat
           /\ \A x \in U : Total(f, U) = f[x].amount + Total(f, U \ {x})
  <1> DEFINE g == SumOf(f, U)
  <1>1. IsSum(f, U, g)
    BY SumExists, Zenon
  <1>2. \A t \in SUBSET U : IsFiniteSet(t) /\ Total(f, t) = g[t]
    <2> SUFFICES ASSUME NEW t \in SUBSET U PROVE IsFiniteSet(t) /\ Total(f, t) = g[t]
      BY Zenon
    <2>1. IsFiniteSet(t)
      BY FS_Subset, Zenon
    <2>2. IsSum(f, t, SumOf(f, t))
      BY <2>1, SumExists, Zenon
    <2>3. SumOf(f, t)[t] = g[t]
      <3> HIDE DEF g
      <3> QED BY <1>1, <2>1, <2>2, SumsAgree
    <2> QED BY <2>1, <2>3, Zenon DEF Total
  <1>3. g[{}] = 0
    BY <1>1, SumSteps, Zenon
  <1> HIDE DEF g
  <1> DEFINE Good(s) == g[s] \in Nat /\ \A x \in s : g[s] = f[x].amount + g[s \ {x}]
             B == {s \in SUBSET U : ~Good(s)}
  <1>4. ASSUME B # {} PROVE FALSE
    <2>1. PICK s \in B : \A t \in B : t \subseteq s => t = s
      <3>1. B \subseteq SUBSET U
        BY Zenon
      <3> HIDE DEF B
      <3> QED BY <1>4, <3>1, MinimalSubset
    <2>2. s \in SUBSET U /\ ~Good(s)
      BY <2>1, Zenon
    <2>3. \A t \in SUBSET U : t \subseteq s /\ t # s => Good(t)
      BY <2>1, Zenon
    <2>4. s # {}
      BY <1>3, <2>2
    <2> DEFINE y == AnyOf(s)
    <2>5. y \in s /\ g[s] = f[y].amount + g[s \ {y}]
      BY <1>1, <2>2, <2>4, SumSteps
    <2> HIDE DEF y, Good
    <2>6. Good(s \ {y})
      BY <2>2, <2>3, <2>5, Zenon
    <2>7. f[y].amount \in Nat /\ g[s \ {y}] \in Nat
      BY <2>2, <2>5, <2>6, Zenon DEF Good
    <2>8. ASSUME NEW x \in s PROVE g[s] = f[x].amount + g[s \ {x}]
      <3>1. CASE x = y
        BY <2>5, <3>1, Zenon
      <3>2. CASE x # y
        <4>1. Good(s \ {x})
          BY <2>2, <2>3, Zenon
        <4>2. Good(s \ {x, y})
          BY <2>2, <2>3, Zenon
        <4>3. x \in s \ {y} /\ y \in s \ {x}
          BY <2>5, <3>2, Zenon
        <4>4. (s \ {y}) \ {x} = s \ {x, y} /\ (s \ {x}) \ {y} = s \ {x, y}
          BY Zenon
        <4>5. g[s \ {y}] = f[x].amount + g[s \ {x, y}]
          BY <2>6, <4>3, <4>4, Zenon DEF Good
        <4>6. g[s \ {x}] = f[y].amount + g[s \ {x, y}]
          BY <4>1, <4>3, <4>4, Zenon DEF Good
        <4>7. f[x].amount \in Nat /\ g[s \ {x, y}] \in Nat
          BY <2>2, <4>2, Zenon DEF Good
        <4> HIDE DEF B
        <4> QED BY <2>5, <2>7, <4>5, <4>6, <4>7
      <3> QED BY <3>1, <3>2, Zenon
    <2>9. g[s] \in Nat
      BY <2>5, <2>7
    <2> QED BY <2>2, <2>8, <2>9, Zenon DEF Good
  <1>5. Good(U) /\ Good({})
    BY <1>4, Zenon
  <1>6. \A x \in U : U \ {x} \in SUBSET U
    BY Zenon
  <1> QED BY <1>2, <1>3, <1>5, <1>6, Zenon

\* Equal amounts, equal sums.
LEMMA TotalSame ==
    ASSUME NEW U, IsFiniteSet(U), NEW f, NEW e, \A x \in U : f[x].amount = e[x].amount
    PROVE  Total(f, U) = Total(e, U)
  <1>1. IsSum(f, U, SumOf(f, U)) /\ IsSum(e, U, SumOf(e, U))
    BY SumExists, Zenon
  <1> QED BY <1>1, SumsAgree DEF Total

\* One more element adds its amount.
LEMMA TotalAdd ==
    ASSUME NEW U, NEW V, NEW s, IsFiniteSet(V), s \in V, U = V \ {s}, NEW f, NEW e,
           \A x \in V : e[x].amount \in Nat, \A x \in U : e[x].amount = f[x].amount
    PROVE  Total(e, V) = e[s].amount + Total(f, U)
  <1>1. Total(e, V) = e[s].amount + Total(e, V \ {s})
    BY TotalProperties
  <1>2. IsFiniteSet(U)
    BY FS_Subset
  <1>3. Total(e, U) = Total(f, U)
    BY <1>2, TotalSame
  <1> QED BY <1>1, <1>3, Zenon

-----------------------------------------------------------------------------
(* What the contract holds.                                                *)

OpenSwaps == {s \in SwapIds : Open(s)}

\* The open swaps are finitely many, and the balance is their sum.
HoldsOpen == IsFiniteSet(OpenSwaps) /\ balance = Total(swaps, OpenSwaps)

LEMMA SolvencyIsTotal == Solvency <=> balance = Total(swaps, OpenSwaps)
  BY TotalIsFold, Zenon DEF Solvency, OpenSwaps

\* The amounts of the swaps are natural numbers.
LEMMA AmountsOf == TypeOK => \A s \in SwapIds : swaps[s].amount \in Nat
  BY DEF TypeOK, Swap

\* A settlement takes its swap's amount off both sides.
LEMMA SettlementPaysOut ==
    ASSUME TypeOK, HoldsOpen, NEW s \in SwapIds, Open(s), Finalize(s),
           balance' = balance - swaps[s].amount
    PROVE  HoldsOpen'
  <1>1. /\ \A r \in SwapIds \ {s} : swaps'[r] = swaps[r]
        /\ ~Open(s)'
    BY DEF TypeOK, Finalize, Open, Swap
  <1>2. OpenSwaps' = OpenSwaps \ {s} /\ s \in OpenSwaps
    BY <1>1 DEF OpenSwaps, Open
  <1>3. IsFiniteSet(OpenSwaps) /\ IsFiniteSet(OpenSwaps')
    BY <1>2, FS_RemoveElement, Zenon DEF HoldsOpen
  <1>4. \A r \in OpenSwaps : swaps[r].amount \in Nat
    BY AmountsOf, Zenon DEF OpenSwaps
  <1>5. /\ Total(swaps, OpenSwaps) = swaps[s].amount + Total(swaps, OpenSwaps \ {s})
        /\ Total(swaps, OpenSwaps \ {s}) \in Nat
    BY <1>2, <1>3, <1>4, TotalProperties, Zenon
  <1>6. Total(swaps', OpenSwaps') = Total(swaps, OpenSwaps \ {s})
    <2>1. \A r \in OpenSwaps' : swaps'[r].amount = swaps[r].amount
      BY <1>1, <1>2, Zenon DEF OpenSwaps
    <2> QED BY <1>2, <1>3, <2>1, TotalSame, Zenon
  <1>7. balance = swaps[s].amount + Total(swaps, OpenSwaps \ {s}) /\ swaps[s].amount \in Nat
    BY <1>2, <1>4, <1>5, Zenon DEF HoldsOpen
  <1>8. balance' = Total(swaps, OpenSwaps \ {s})
    BY <1>5, <1>7
  <1> QED BY <1>3, <1>6, <1>8, Zenon DEF HoldsOpen

\* A new swap adds its value to both sides.
LEMMA NewSwapPaysIn ==
    ASSUME TypeOK, HoldsOpen, NEW s \in SwapIds, ~swaps[s].initialized, NEW value \in Nat,
           NEW new, swaps' = [swaps EXCEPT ![s] = new],
           new.amount = value, new.initialized, ~new.finalized, balance' = balance + value
    PROVE  HoldsOpen'
  <1>1. swaps'[s] = new /\ \A r \in SwapIds \ {s} : swaps'[r] = swaps[r]
    BY DEF TypeOK
  <1>2. OpenSwaps' = OpenSwaps \cup {s} /\ s \notin OpenSwaps
    BY <1>1, Zenon DEF OpenSwaps, Open
  <1>3. IsFiniteSet(OpenSwaps) /\ IsFiniteSet(OpenSwaps')
    BY <1>2, FS_AddElement, Zenon DEF HoldsOpen
  <1>4. \A r \in OpenSwaps : swaps'[r].amount = swaps[r].amount /\ swaps[r].amount \in Nat
    BY <1>1, <1>2, AmountsOf, Zenon DEF OpenSwaps
  <1>5. Total(swaps', OpenSwaps') = value + Total(swaps, OpenSwaps)
    <2>1. PICK e, V : e = swaps' /\ V = OpenSwaps'
      BY Zenon
    <2>2. /\ IsFiniteSet(V) /\ s \in V /\ OpenSwaps = V \ {s}
          /\ \A x \in V : e[x].amount \in Nat
          /\ \A x \in OpenSwaps : e[x].amount = swaps[x].amount
      BY <1>1, <1>2, <1>3, <1>4, <2>1, Zenon
    <2>3. Total(e, V) = e[s].amount + Total(swaps, OpenSwaps)
      BY <2>2, TotalAdd
    <2> QED BY <1>1, <2>1, <2>3, Zenon
  <1>6. balance' = value + balance
    BY DEF TypeOK
  <1> QED BY <1>3, <1>5, <1>6, Zenon DEF HoldsOpen

LEMMA HoldsOpenInvariant == Spec => []HoldsOpen
  <1>1. ASSUME Init PROVE HoldsOpen
    <2>1. OpenSwaps = {} /\ balance = 0
      BY <1>1 DEF Init, OpenSwaps, Open, EmptySwap
    <2>2. IsFiniteSet({})
      BY FS_EmptySet
    <2>3. Total(swaps, {}) = 0
      BY <2>2, TotalProperties
    <2> QED BY <2>1, <2>2, <2>3, Zenon DEF HoldsOpen
  <1>2. ASSUME ContractInv, HoldsOpen, [Next]_vars PROVE HoldsOpen'
    <2>1. TypeOK
      BY <1>2 DEF ContractInv
    <2>2. ASSUME NEW caller \in Accounts, NEW onBehalfOf \in Accounts,
                 NEW receiver \in Accounts, NEW hash \in Hashes, NEW value \in Values,
                 NEW timelock \in 0..MaxTime, NEW s \in SwapIds,
                 NewSwap(caller, onBehalfOf, receiver, hash, value, timelock, s)
          PROVE  HoldsOpen'
      <3> DEFINE new == [sender |-> onBehalfOf, receiver |-> receiver,
                         amount |-> value, secretHash |-> hash, timelock |-> timelock,
                         initialized |-> TRUE, finalized |-> FALSE]
      <3>1. new.amount = value /\ new.initialized /\ ~new.finalized /\ value \in Nat
        BY HTLCAssumption
      <3>2. /\ ~swaps[s].initialized /\ balance' = balance + value
            /\ swaps' = [swaps EXCEPT ![s] = new]
        BY <2>2, Zenon DEF NewSwap, AcceptsSwap
      <3> HIDE DEF new
      <3> QED BY <1>2, <2>1, <3>1, <3>2, NewSwapPaysIn, Zenon
    <2>3. ASSUME NEW solver \in Accounts, NEW s \in SwapIds, NEW secret \in Secrets,
                 Claim(solver, s, secret)
          PROVE  HoldsOpen'
      BY <1>2, <2>1, <2>3, SettlementPaysOut, Zenon DEF Claim, Payout
    <2>4. ASSUME NEW solver \in Accounts, NEW s \in SwapIds, Refund(solver, s)
          PROVE  HoldsOpen'
      BY <1>2, <2>1, <2>4, SettlementPaysOut, Zenon DEF Refund, Payout
    <2>5. CASE UNCHANGED <<swaps, balance>>
      BY <1>2, <2>5, Zenon DEF HoldsOpen, OpenSwaps, Open
    <2> QED BY <1>2, <2>2, <2>3, <2>4, <2>5, Zenon DEF Next, Mine, vars
  <1> QED BY <1>1, <1>2, InductiveInvariant, PTL DEF Spec

\* The contract holds what the open swaps were funded with, to the last wei:
\* a settlement pays out its own swap, whole, and no other.
THEOREM NoFundsRemain == Spec => []Solvency
  <1>1. HoldsOpen => Solvency
    BY SolvencyIsTotal, Zenon DEF HoldsOpen
  <1> QED BY <1>1, HoldsOpenInvariant, PTL

\* So no claim and no refund ever fails for want of ether: the check of the
\* balance in the transfers of a settlement never reverts it.
THEOREM SettlementsAreFunded == Spec => [](\A s \in SwapIds : Open(s) => balance >= swaps[s].amount)
  <1>1. ASSUME TypeOK, HoldsOpen, NEW s \in SwapIds, Open(s) PROVE balance >= swaps[s].amount
    <2>1. s \in OpenSwaps /\ \A r \in OpenSwaps : swaps[r].amount \in Nat
      BY <1>1, AmountsOf, Zenon DEF OpenSwaps
    <2>2. IsFiniteSet(OpenSwaps \ {s}) /\ IsFiniteSet(OpenSwaps)
      BY <1>1, FS_RemoveElement, Zenon DEF HoldsOpen
    <2>3. /\ Total(swaps, OpenSwaps) = swaps[s].amount + Total(swaps, OpenSwaps \ {s})
          /\ Total(swaps, OpenSwaps \ {s}) \in Nat
      BY <2>1, <2>2, TotalProperties, Zenon
    <2>4. balance = swaps[s].amount + Total(swaps, OpenSwaps \ {s}) /\ swaps[s].amount \in Nat
      BY <1>1, <2>1, <2>3, Zenon DEF HoldsOpen
    <2> QED BY <2>3, <2>4
  <1>2. TypeOK /\ HoldsOpen => \A s \in SwapIds : Open(s) => balance >= swaps[s].amount
    BY <1>1, Zenon
  <1> QED BY <1>2, HoldsOpenInvariant, TypeCorrect, PTL
=============================================================================
