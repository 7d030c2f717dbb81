---------------------------- MODULE QueueProofs -----------------------------
(***************************************************************************)
(* Proofs that what is queued is not lost: the settlements a node          *)
(* owes (Settlement) and the events of the browser gateway (Gateway).      *)
(***************************************************************************)
EXTENDS Settlement, Gateway, TLAPS

-----------------------------------------------------------------------------
(***************************************************************************)
(* Proofs about settling on an EVM chain: the queue and the intents the    *)
(* tasks share (Settlement).                                               *)
(***************************************************************************)

-----------------------------------------------------------------------------
(* No open swap is forgotten.  An intent without a key is either about to  *)
(* get one from the task that pushed it, or its swap is settled on chain:  *)
(* a key leaves the queue only by an event or a look at the chain that     *)
(* says so, and nothing that is settled opens again.                       *)

Labels == {"idle", "persist", "readRefund", "save", "ensureRefund", "dropClaim", "dropRefund",
           "ensureClaim", "observe", "settle", "dropKey", "dropIntent", "replace", "submit"}

TaskStates == [pc : Labels, key : Keys \cup {AnyKey}, record : Record,
               then : {"idle", "submit"}, healthy : BOOLEAN]

Events == [kind : {"Commitment", "Reveal", "Refund"}, swap : Swaps]

SharedType ==
    /\ onchain \in [Swaps -> {"none", "open", "claimed", "refunded"}]
    /\ feed \in Seq(Events) /\ inbox \in Seq(Events)
    /\ refunds \subseteq Swaps /\ claims \subseteq Swaps /\ seen \subseteq Swaps
    /\ queue \subseteq Keys /\ due \subseteq Keys
    /\ store \in [Swaps -> Record]

TasksType ==
    /\ task \in [Tasks -> TaskStates]
    /\ \A t \in Tasks : task[t].pc # "idle" => task[t].key \in Keys

\* What an event says of its swap is so.
Tells(s) ==
    \A i \in 1..Len(s) : /\ onchain[s[i].swap] # "none"
                         /\ s[i].kind # "Commitment" => Settled(s[i].swap)

\* A key is taken off the queue only for a settled swap.
Resolving ==
    /\ task["driver"].pc \in {"dropClaim", "dropRefund"} => Settled(task["driver"].key.swap)
    /\ task["settler"].pc \in {"dropKey", "dropIntent"} => Settled(Key.swap)

\* The task t is about to put the key k on the queue.
Ensures(t, pc, k) == task[t].pc = pc /\ task[t].key = k
EnsuresRefund(s) == participate_ccr /\ Ensures("driver", "ensureRefund", Refund(s))
EnsuresClaim(s) == \E t \in {"driver", "peer"} : Ensures(t, "ensureClaim", Claim(s))

Scheduled ==
    /\ \A s \in refunds : Settled(s) \/ Refund(s) \in queue \/ EnsuresRefund(s)
    /\ \A s \in claims : Settled(s) \/ Claim(s) \in queue \/ EnsuresClaim(s)
    /\ \A s \in seen : /\ onchain[s] # "none"
                       /\ participate_ccr /\ onchain[s] = "open" => s \in refunds

QueueInv ==
    SharedType /\ TasksType /\ Tells(feed) /\ Tells(inbox) /\ Resolving /\ Scheduled

\* The chain only moves on: none, open, settled.
MovesOn ==
    \A s \in Swaps :
        /\ onchain[s] # "none" => onchain'[s] # "none"
        /\ onchain[s] # "none" /\ onchain'[s] = "open" => onchain[s] = "open"
        /\ Settled(s) => Settled(s)'

\* What a step may do to the intents and the queue without losing an open swap.
LEMMA ScheduledKept ==
    ASSUME QueueInv, SharedType', MovesOn,
           \A s \in refunds' : s \in refunds \/ EnsuresRefund(s)',
           \A s \in refunds \ refunds' : Settled(s),
           \A s \in claims' : s \in claims \/ EnsuresClaim(s)',
           \A k \in queue \ queue' : Settled(k.swap),
           \A s \in Swaps : EnsuresRefund(s) => EnsuresRefund(s)' \/ Refund(s) \in queue',
           \A s \in Swaps : EnsuresClaim(s) => EnsuresClaim(s)' \/ Claim(s) \in queue',
           \A s \in seen' : s \in seen \/ (onchain[s] # "none" /\ (participate_ccr => s \in refunds'))
    PROVE  Scheduled'
<1>1. \A s \in Swaps : Refund(s) \in Keys /\ Refund(s).swap = s /\ Claim(s) \in Keys /\ Claim(s).swap = s
    BY DEF Keys, Refund, Claim
<1>2. ASSUME NEW s \in refunds' PROVE Settled(s)' \/ Refund(s) \in queue' \/ EnsuresRefund(s)'
    <2>1. s \in Swaps
        BY DEF SharedType
    <2>2. CASE s \in refunds
        <3>1. Settled(s) \/ Refund(s) \in queue \/ EnsuresRefund(s)
            BY <2>2 DEF QueueInv, Scheduled
        <3> QED BY <1>1, <2>1, <3>1 DEF MovesOn
    <2> QED BY <2>2
<1>3. ASSUME NEW s \in claims' PROVE Settled(s)' \/ Claim(s) \in queue' \/ EnsuresClaim(s)'
    <2>1. s \in Swaps
        BY DEF SharedType
    <2>2. CASE s \in claims
        <3>1. Settled(s) \/ Claim(s) \in queue \/ EnsuresClaim(s)
            BY <2>2 DEF QueueInv, Scheduled
        <3> QED BY <1>1, <2>1, <3>1 DEF MovesOn
    <2> QED BY <2>2
<1>4. ASSUME NEW s \in seen'
      PROVE  onchain'[s] # "none" /\ (participate_ccr /\ onchain'[s] = "open" => s \in refunds')
    <2>1. s \in Swaps
        BY DEF SharedType
    <2>2. CASE s \in seen
        <3>1. onchain[s] # "none" /\ (participate_ccr /\ onchain[s] = "open" => s \in refunds)
            BY <2>2 DEF QueueInv, Scheduled
        <3>2. onchain[s] = "open" => ~Settled(s)
            BY DEF Settled
        <3> QED BY <2>1, <3>1, <3>2 DEF MovesOn
    <2>3. CASE s \notin seen
        BY <2>1, <2>3 DEF MovesOn
    <2> QED BY <2>2, <2>3
<1> HIDE DEF EnsuresRefund, EnsuresClaim, Settled
<1> QED BY <1>2, <1>3, <1>4 DEF Scheduled

\* Refund and Claim keys are keys, of the swap they name, and differ.
LEMMA KeyFacts ==
    ASSUME NEW s \in Swaps
    PROVE  /\ Refund(s) \in Keys /\ Refund(s).swap = s /\ Refund(s).action = "Refund"
           /\ Claim(s) \in Keys /\ Claim(s).swap = s /\ Claim(s).action = "Claim"
BY DEF Keys, Refund, Claim

LEMMA IdleType == Idle \in TaskStates /\ Idle.pc = "idle"
BY DEF Idle, TaskStates, Labels, Record, EmptyRecord

\* A task goes to the label pc, with the key k; the others stay.
Turn(t, pc, k) ==
    /\ TasksType'
    /\ task'[t].pc = pc /\ task'[t].key = k
    /\ \A u \in Tasks \ {t} : task'[u] = task[u]

LEMMA TurnTo ==
    ASSUME TasksType, NEW t \in Tasks, NEW r \in TaskStates, task' = [task EXCEPT ![t] = r],
           r.pc # "idle" => r.key \in Keys
    PROVE  Turn(t, r.pc, r.key)
<1>1. task' \in [Tasks -> TaskStates] /\ task'[t] = r /\ \A u \in Tasks \ {t} : task'[u] = task[u]
    BY DEF TasksType
<1>2. TasksType'
    BY <1>1 DEF TasksType
<1> QED BY <1>1, <1>2 DEF Turn

LEMMA GotoTurns ==
    ASSUME TasksType, NEW t \in Tasks, NEW pc \in Labels, task[t].pc # "idle", Goto(t, pc)
    PROVE  Turn(t, pc, task[t].key)
<1> DEFINE r == [task[t] EXCEPT !.pc = pc]
<1>1. task[t] \in TaskStates /\ task[t].key \in Keys
    BY DEF TasksType
<1>2. r \in TaskStates /\ r.pc = pc /\ r.key = task[t].key
    BY <1>1 DEF TaskStates
<1>3. task' = [task EXCEPT ![t] = r]
    BY DEF Goto
<1> HIDE DEF r
<1>4. Turn(t, r.pc, r.key)
    BY <1>1, <1>2, <1>3, TurnTo, Zenon
<1> QED BY <1>2, <1>4

LEMMA BeginTurns ==
    ASSUME TasksType, NEW t \in Tasks, NEW pc \in Labels, NEW k \in Keys, Begin(t, pc, k)
    PROVE  Turn(t, pc, k)
<1> DEFINE r == [Idle EXCEPT !.pc = pc, !.key = k]
<1>1. r \in TaskStates /\ r.pc = pc /\ r.key = k
    BY IdleType, Zenon DEF TaskStates
<1>2. task' = [task EXCEPT ![t] = r]
    BY DEF Begin
<1> HIDE DEF r
<1>3. Turn(t, r.pc, r.key)
    BY <1>1, <1>2, TurnTo, Zenon
<1> QED BY <1>1, <1>3

LEMMA PersistTurns ==
    ASSUME TasksType, NEW t \in Tasks, NEW then \in {"idle", "submit"}, task[t].pc # "idle",
           Persist(t, then)
    PROVE  Turn(t, "persist", task[t].key)
<1> DEFINE r == [task[t] EXCEPT !.pc = "persist", !.then = then]
<1>1. task[t] \in TaskStates /\ task[t].key \in Keys
    BY DEF TasksType
<1>2. r \in TaskStates /\ r.pc = "persist" /\ r.key = task[t].key
    BY <1>1, Zenon DEF TaskStates, Labels
<1>3. task' = [task EXCEPT ![t] = r]
    BY Zenon DEF Persist
<1> HIDE DEF r
<1>4. Turn(t, r.pc, r.key)
    BY <1>1, <1>2, <1>3, TurnTo, Zenon
<1> QED BY <1>2, <1>4

\* A step of one task, under the conditions of ScheduledKept.
LEMMA TaskStep ==
    ASSUME QueueInv, SharedType', MovesOn, Tells(feed)', Tells(inbox)',
           NEW t \in Tasks, NEW pc \in Labels, NEW k, Turn(t, pc, k),
           pc \in {"dropClaim", "dropRefund", "dropKey", "dropIntent"} => Settled(k.swap)',
           task[t].pc = "ensureRefund" /\ participate_ccr => task[t].key \in queue',
           task[t].pc = "ensureClaim" => task[t].key \in queue',
           \A s \in refunds' : s \in refunds \/ EnsuresRefund(s)',
           \A s \in refunds \ refunds' : Settled(s),
           \A s \in claims' : s \in claims \/ EnsuresClaim(s)',
           \A j \in queue \ queue' : Settled(j.swap),
           \A s \in seen' : s \in seen \/ (onchain[s] # "none" /\ (participate_ccr => s \in refunds'))
    PROVE  QueueInv'
<1>1. \A s \in Swaps : EnsuresRefund(s) => EnsuresRefund(s)' \/ Refund(s) \in queue'
    BY DEF EnsuresRefund, Ensures, Turn, Tasks
<1>2. \A s \in Swaps : EnsuresClaim(s) => EnsuresClaim(s)' \/ Claim(s) \in queue'
    <2> SUFFICES ASSUME NEW s \in Swaps, EnsuresClaim(s)
                 PROVE  EnsuresClaim(s)' \/ Claim(s) \in queue'
        OBVIOUS
    <2>1. PICK u \in {"driver", "peer"} : Ensures(u, "ensureClaim", Claim(s))
        BY DEF EnsuresClaim
    <2>2. u \in Tasks
        BY DEF Tasks
    <2> QED BY <2>1, <2>2 DEF EnsuresClaim, Ensures, Turn
<1>3. Scheduled'
    BY <1>1, <1>2, ScheduledKept
<1>4. \A j \in Keys : j.swap \in Swaps
    BY DEF Keys
<1>5. ASSUME NEW u \in Tasks,
             task'[u].pc \in {"dropClaim", "dropRefund", "dropKey", "dropIntent"},
             u = "driver" => task'[u].pc \in {"dropClaim", "dropRefund"},
             u = "settler" => task'[u].pc \in {"dropKey", "dropIntent"}, u # "peer"
      PROVE  Settled(task[u].key.swap)'
    <2>1. CASE u = t
        BY <1>5, <2>1 DEF Turn
    <2>2. CASE u # t
        <3>1. task'[u] = task[u] /\ Settled(task[u].key.swap)
            BY <1>5, <2>2 DEF Turn, QueueInv, Resolving, Key, Tasks
        <3>2. task[u].key.swap \in Swaps
            BY <1>4, <1>5, <3>1 DEF QueueInv, TasksType
        <3> QED BY <3>1, <3>2 DEF MovesOn
    <2> QED BY <2>1, <2>2
<1>6. Resolving'
    BY <1>5 DEF Resolving, Key, Tasks
<1> QED BY <1>3, <1>6 DEF QueueInv, Turn

\* The chain stands still, and so do the events that were fetched or not.
LEMMA StandsStill ==
    ASSUME QueueInv, UNCHANGED <<onchain, feed, inbox>>
    PROVE  MovesOn /\ Tells(feed)' /\ Tells(inbox)'
BY DEF QueueInv, MovesOn, Tells, Settled

\* A task changes its label and nothing that is shared, or only due or the store.
LEMMA OnlyTurns ==
    ASSUME QueueInv, UNCHANGED <<onchain, feed, inbox, refunds, claims, queue, seen>>,
           due' \subseteq Keys, store' \in [Swaps -> Record],
           NEW t \in Tasks, NEW pc \in Labels, NEW k, Turn(t, pc, k),
           pc \in {"dropClaim", "dropRefund", "dropKey", "dropIntent"} => Settled(k.swap),
           task[t].pc \notin {"ensureRefund", "ensureClaim"}
    PROVE  QueueInv'
<1>1. SharedType'
    BY DEF QueueInv, SharedType
<1>2. Settled(k.swap) => Settled(k.swap)'
    BY DEF Settled
<1>3. MovesOn /\ Tells(feed)' /\ Tells(inbox)'
    BY StandsStill
<1> QED BY <1>1, <1>2, <1>3, TaskStep

-----------------------------------------------------------------------------
(* Each action.                                                            *)

\* The environment: a new swap, a settlement, and the event of either.
LEMMA EmittedTells ==
    ASSUME QueueInv, MovesOn, UNCHANGED inbox, NEW e \in Events, feed' = Append(feed, e),
           onchain'[e.swap] # "none", e.kind # "Commitment" => Settled(e.swap)'
    PROVE  feed' \in Seq(Events) /\ Tells(feed)' /\ Tells(inbox)'
<1>1. feed \in Seq(Events) /\ inbox \in Seq(Events) /\ Tells(feed) /\ Tells(inbox)
    BY DEF QueueInv, SharedType
<1>2. \A f \in Events : f.swap \in Swaps
    BY DEF Events
<1>3. \A i \in 1..Len(feed) : feed[i] \in Events
    BY <1>1
<1>4. \A i \in 1..Len(inbox) : inbox[i] \in Events
    BY <1>1
<1>5. Tells(inbox)'
    BY <1>1, <1>2, <1>4 DEF Tells, MovesOn
<1>6. /\ feed' \in Seq(Events) /\ Len(feed') = Len(feed) + 1 /\ Len(feed) \in Nat
      /\ \A i \in 1..Len(feed) : feed'[i] = feed[i]
      /\ feed'[Len(feed) + 1] = e
    BY <1>1
<1>7. ASSUME NEW i \in 1..Len(feed')
      PROVE  onchain'[feed'[i].swap] # "none" /\ (feed'[i].kind # "Commitment" => Settled(feed[i].swap)')
    <2>1. CASE i = Len(feed) + 1
        BY <1>6, <2>1
    <2>2. CASE i # Len(feed) + 1
        <3>1. i \in 1..Len(feed)
            BY <1>6, <2>2
        <3>2. feed'[i] = feed[i] /\ feed[i].swap \in Swaps
            BY <1>2, <1>3, <1>6, <3>1
        <3>3. onchain[feed[i].swap] # "none" /\ (feed[i].kind # "Commitment" => Settled(feed[i].swap))
            BY <1>1, <3>1 DEF Tells
        <3> QED BY <3>2, <3>3 DEF MovesOn
    <2> QED BY <2>1, <2>2
<1>8. Tells(feed)'
    BY <1>7 DEF Tells
<1> QED BY <1>5, <1>6, <1>8

LEMMA ExecuteTells ==
    ASSUME QueueInv, NEW k \in Keys, Execute(k), UNCHANGED inbox
    PROVE  /\ MovesOn /\ onchain' \in [Swaps -> {"none", "open", "claimed", "refunded"}]
           /\ feed' \in Seq(Events) /\ Tells(feed)' /\ Tells(inbox)'
<1> DEFINE e == [kind |-> EventOf(k.action), swap |-> k.swap]
<1>1. k.swap \in Swaps /\ e \in Events /\ e.swap = k.swap /\ feed' = Append(feed, e)
    BY DEF Keys, Events, Execute, Emitted, EventOf
<1>2. /\ onchain[k.swap] = "open" /\ onchain'[k.swap] \in {"claimed", "refunded"}
      /\ \A s \in Swaps \ {k.swap} : onchain'[s] = onchain[s]
      /\ onchain' \in [Swaps -> {"none", "open", "claimed", "refunded"}]
    BY <1>1 DEF Execute, Accepts, QueueInv, SharedType
<1> HIDE DEF e
<1>3. MovesOn
    BY <1>2 DEF MovesOn, Settled
<1>4. onchain'[e.swap] # "none" /\ Settled(e.swap)'
    BY <1>1, <1>2 DEF Settled
<1> QED BY <1>1, <1>2, <1>3, <1>4, EmittedTells

LEMMA EnvironmentKeeps ==
    ASSUME QueueInv, Environment
    PROVE  QueueInv'
<1>1. UNCHANGED <<inbox, memory, due, store, task, seen>>
    BY DEF Environment, NewSwap, OthersSettle, Expire
<1>2. /\ MovesOn /\ onchain' \in [Swaps -> {"none", "open", "claimed", "refunded"}]
      /\ feed' \in Seq(Events) /\ Tells(feed)' /\ Tells(inbox)'
    <2>1. ASSUME NEW s \in Swaps, NewSwap(s) PROVE <1>2
        <3> DEFINE e == [kind |-> "Commitment", swap |-> s]
        <3>1. e \in Events /\ e.swap = s /\ e.kind = "Commitment" /\ feed' = Append(feed, e)
            BY <2>1 DEF Events, NewSwap, Emitted
        <3>2. /\ onchain[s] = "none" /\ onchain'[s] = "open"
              /\ \A u \in Swaps \ {s} : onchain'[u] = onchain[u]
              /\ onchain' \in [Swaps -> {"none", "open", "claimed", "refunded"}]
            BY <2>1 DEF NewSwap, QueueInv, SharedType
        <3> HIDE DEF e
        <3>3. MovesOn
            BY <3>2 DEF MovesOn, Settled
        <3> QED BY <1>1, <3>1, <3>2, <3>3, EmittedTells
    <2>2. ASSUME NEW s \in Swaps, Expire(s) PROVE <1>2
        BY <1>1, <2>2, StandsStill DEF Expire, QueueInv, SharedType
    <2>3. ASSUME NEW k \in Keys, OthersSettle(k) PROVE <1>2
        BY <1>1, <2>3, ExecuteTells DEF OthersSettle
    <2> QED BY <2>1, <2>2, <2>3 DEF Environment
<1>3. SharedType' /\ TasksType'
    BY <1>1, <1>2 DEF QueueInv, SharedType, TasksType, memory
<1>4. Resolving'
    <2>1. \A t \in Tasks : task[t].pc # "idle" => task[t].key.swap \in Swaps
        BY DEF QueueInv, TasksType, Keys
    <2> QED BY <1>1, <1>2, <2>1 DEF QueueInv, Resolving, MovesOn, Key, Tasks
<1>5. Scheduled'
    BY <1>1, <1>2, <1>3, ScheduledKept DEF memory, EnsuresRefund, EnsuresClaim, Ensures
<1> QED BY <1>2, <1>3, <1>4, <1>5 DEF QueueInv

\* persist_swap, step by step.
LEMMA PersistKeeps ==
    ASSUME QueueInv, NEW t \in Tasks, PersistStep(t)
    PROVE  QueueInv'
<1>1. task[t] \in TaskStates /\ (task[t].pc # "idle" => task[t].key \in Keys) /\ TasksType
    BY DEF QueueInv, TasksType
<1>2. UNCHANGED <<onchain, feed, inbox, refunds, claims, queue, seen, due>>
      /\ due' \subseteq Keys
    BY Zenon DEF PersistStep, ReadIntents, ReadRefundAttempt, Save, chainVars, memory, QueueInv, SharedType
<1>3. CASE ReadIntents(t)
    <2> DEFINE s == task[t].key.swap
               d == [task[t].record EXCEPT !.refund = s \in refunds, !.claim = s \in claims,
                                           !.claimAttempt = Claim(s) \in queue]
               r == [task[t] EXCEPT !.pc = "readRefund", !.record = d]
    <2>0. d \in Record
        <3>1. task[t].record \in Record
            BY <1>1 DEF TaskStates
        <3>2. (s \in refunds) \in BOOLEAN /\ (s \in claims) \in BOOLEAN /\ (Claim(s) \in queue) \in BOOLEAN
            OBVIOUS
        <3> QED BY <3>1, <3>2, Zenon DEF Record
    <2>2. task[t].pc = "persist" /\ task' = [task EXCEPT ![t] = r] /\ UNCHANGED store
        BY <1>3, Zenon DEF ReadIntents, At
    <2> HIDE DEF d
    <2>1. r \in TaskStates /\ r.pc = "readRefund" /\ r.key = task[t].key
        BY <1>1, <2>0, Zenon DEF TaskStates, Labels
    <2> HIDE DEF r
    <2>3. Turn(t, "readRefund", task[t].key)
        BY <1>1, <2>1, <2>2, TurnTo, Zenon
    <2> QED BY <1>2, <2>2, <2>3, OnlyTurns DEF Labels, QueueInv, SharedType
<1>4. CASE ReadRefundAttempt(t)
    <2> DEFINE d == [task[t].record EXCEPT !.refundAttempt = Refund(task[t].key.swap) \in queue]
               r == [task[t] EXCEPT !.pc = "save", !.record = d]
    <2>0. d \in Record
        <3>1. task[t].record \in Record
            BY <1>1 DEF TaskStates
        <3>2. (Refund(task[t].key.swap) \in queue) \in BOOLEAN
            OBVIOUS
        <3> QED BY <3>1, <3>2, Zenon DEF Record
    <2>2. task[t].pc = "readRefund" /\ task' = [task EXCEPT ![t] = r] /\ UNCHANGED store
        BY <1>4, Zenon DEF ReadRefundAttempt, At
    <2> HIDE DEF d
    <2>1. r \in TaskStates /\ r.pc = "save" /\ r.key = task[t].key
        BY <1>1, <2>0, Zenon DEF TaskStates, Labels
    <2> HIDE DEF r
    <2>3. Turn(t, "save", task[t].key)
        BY <1>1, <2>1, <2>2, TurnTo, Zenon
    <2> QED BY <1>2, <2>2, <2>3, OnlyTurns DEF Labels, QueueInv, SharedType
<1>5. CASE Save(t)
    <2> DEFINE r == IF task[t].then = "idle" THEN Idle
                    ELSE [task[t] EXCEPT !.pc = "submit", !.record = EmptyRecord, !.then = "idle"]
    <2>1. EmptyRecord \in Record
        BY DEF EmptyRecord, Record
    <2>2. task[t].pc = "save" /\ task' = [task EXCEPT ![t] = r]
          /\ store' = [store EXCEPT ![task[t].key.swap] = task[t].record]
        BY <1>5 DEF Save, At
    <2>3. r \in TaskStates /\ r.pc \in {"idle", "submit"} /\ (r.pc # "idle" => r.key = task[t].key)
        BY <1>1, <2>1, IdleType, Zenon DEF TaskStates, Labels
    <2> HIDE DEF r
    <2>4. Turn(t, r.pc, r.key)
        BY <1>1, <2>2, <2>3, TurnTo, Zenon
    <2>5. store' \in [Swaps -> Record]
        BY <1>1, <2>2, Zenon DEF QueueInv, SharedType, TaskStates
    <2> QED BY <1>2, <2>2, <2>3, <2>4, <2>5, OnlyTurns DEF Labels
<1> QED BY <1>3, <1>4, <1>5 DEF PersistStep

\* Fetch takes over the events as they are.
LEMMA FetchKeeps ==
    ASSUME QueueInv, Fetch
    PROVE  QueueInv'
<1>1. /\ inbox' = feed /\ feed' = <<>>
      /\ UNCHANGED <<onchain, refunds, claims, queue, due, store, task, seen>>
    BY DEF Fetch, chainVars, memory
<1>2. <<>> \in Seq(Events) /\ Len(<<>>) = 0
    OBVIOUS
<1>3. Tells(feed)'
    BY <1>1, <1>2 DEF Tells
<1>4. Tells(inbox)'
    BY <1>1 DEF QueueInv, Tells, Settled
<1>5. SharedType' /\ TasksType'
    BY <1>1, <1>2 DEF QueueInv, SharedType, TasksType
<1>6. Resolving' /\ Scheduled'
    BY <1>1, Zenon DEF QueueInv, Resolving, Scheduled, Settled, Key, EnsuresRefund, EnsuresClaim, Ensures
<1> QED BY <1>3, <1>4, <1>5, <1>6 DEF QueueInv

\* The first event of the inbox is so, and the rest stays so.
LEMMA HeadTells ==
    ASSUME QueueInv, inbox # <<>>, inbox' = Tail(inbox), UNCHANGED <<onchain, feed>>
    PROVE  /\ Head(inbox) \in Events /\ onchain[Head(inbox).swap] # "none"
           /\ Head(inbox).kind # "Commitment" => Settled(Head(inbox).swap)
           /\ inbox' \in Seq(Events) /\ Tells(inbox)' /\ Tells(feed)' /\ MovesOn
<1>1. inbox \in Seq(Events) /\ Tells(inbox) /\ Tells(feed)
    BY DEF QueueInv, SharedType
<1>2. /\ Head(inbox) \in Events /\ Tail(inbox) \in Seq(Events)
      /\ Len(inbox) \in Nat /\ Len(inbox) # 0 /\ Head(inbox) = inbox[1]
      /\ Len(Tail(inbox)) = Len(inbox) - 1
      /\ \A i \in 1..Len(Tail(inbox)) : Tail(inbox)[i] = inbox[i + 1]
    BY <1>1
<1>3. onchain[Head(inbox).swap] # "none" /\ (Head(inbox).kind # "Commitment" => Settled(Head(inbox).swap))
    BY <1>1, <1>2 DEF Tells
<1>4. \A i \in 1..Len(inbox') : i + 1 \in 1..Len(inbox) /\ inbox'[i] = inbox[i + 1]
    BY <1>2
<1>5. Tells(inbox)'
    BY <1>1, <1>4 DEF Tells, Settled
<1>6. Tells(feed)' /\ MovesOn
    BY <1>1 DEF Tells, Settled, MovesOn
<1> QED BY <1>2, <1>3, <1>5, <1>6, Zenon

LEMMA TrackCommitmentKeeps ==
    ASSUME QueueInv, TrackCommitment
    PROVE  QueueInv'
<1> PICK s : s = Head(inbox).swap
    OBVIOUS
<1>1. /\ task["driver"].pc = "idle" /\ inbox # <<>> /\ inbox' = Tail(inbox)
      /\ refunds' = (IF participate_ccr THEN refunds \cup {s} ELSE refunds)
      /\ seen' = seen \cup {s} /\ Begin("driver", "ensureRefund", Refund(s))
      /\ UNCHANGED <<onchain, feed, claims, queue, due, store>>
    BY Zenon DEF TrackCommitment, At, chainVars
<1>2. /\ Head(inbox) \in Events /\ onchain[s] # "none"
      /\ inbox' \in Seq(Events) /\ Tells(inbox)' /\ Tells(feed)' /\ MovesOn
    BY <1>1, HeadTells
<1>3. s \in Swaps /\ "driver" \in Tasks /\ "ensureRefund" \in Labels
    BY <1>2 DEF Events, Tasks, Labels
<1>4. Turn("driver", "ensureRefund", Refund(s))
    BY <1>1, <1>3, BeginTurns, KeyFacts DEF QueueInv
<1>5. SharedType'
    BY <1>1, <1>2, <1>3, Zenon DEF QueueInv, SharedType
<1>6. participate_ccr => EnsuresRefund(s)'
    BY <1>4 DEF EnsuresRefund, Ensures, Turn
<1> QED
    BY <1>1, <1>2, <1>3, <1>4, <1>5, <1>6, TaskStep, Zenon

LEMMA TrackTerminalKeeps ==
    ASSUME QueueInv, TrackTerminal
    PROVE  QueueInv'
<1> PICK s : s = Head(inbox).swap
    OBVIOUS
<1>1. /\ task["driver"].pc = "idle" /\ inbox # <<>> /\ inbox' = Tail(inbox)
      /\ Head(inbox).kind # "Commitment"
      /\ refunds' = refunds \ {s} /\ claims' = claims \ {s}
      /\ Begin("driver", "dropClaim", Claim(s))
      /\ UNCHANGED <<onchain, feed, queue, due, store, seen>>
    BY Zenon DEF TrackTerminal, At, chainVars
<1>2. /\ Head(inbox) \in Events /\ Settled(s)
      /\ inbox' \in Seq(Events) /\ Tells(inbox)' /\ Tells(feed)' /\ MovesOn
    BY <1>1, HeadTells
<1>3. s \in Swaps /\ "driver" \in Tasks /\ "dropClaim" \in Labels
    BY <1>2 DEF Events, Tasks, Labels
<1>4. Turn("driver", "dropClaim", Claim(s)) /\ Claim(s).swap = s
    BY <1>1, <1>3, BeginTurns, KeyFacts DEF QueueInv
<1>5. SharedType'
    BY <1>1, <1>2, <1>3, Zenon DEF QueueInv, SharedType
<1>6. Settled(s)'
    BY <1>2, <1>3, Zenon DEF MovesOn
<1> QED
    BY <1>1, <1>2, <1>3, <1>4, <1>5, <1>6, TaskStep, Zenon

\* A key goes on the queue, or off it.
LEMMA EnsureKeeps ==
    ASSUME QueueInv, NEW t \in Tasks,
           (t = "driver" /\ EnsureRefund) \/ EnsureClaim(t)
    PROVE  QueueInv'
<1>1. /\ task[t].pc \in {"ensureRefund", "ensureClaim"} /\ Persist(t, "idle")
      /\ queue' = queue \cup {task[t].key} \/ (queue' = queue /\ ~participate_ccr /\ task[t].pc = "ensureRefund")
      /\ UNCHANGED <<onchain, feed, inbox, refunds, claims, due, store, seen>>
    BY DEF EnsureRefund, EnsureClaim, At, ensure, chainVars
<1>2. Turn(t, "persist", task[t].key)
    BY <1>1, PersistTurns DEF QueueInv
<1>3. task[t].key \in Keys
    BY <1>1 DEF QueueInv, TasksType
<1>4. SharedType' /\ "persist" \in Labels
    BY <1>1, <1>3 DEF QueueInv, SharedType, Labels
<1> QED
    BY <1>1, <1>2, <1>4, TaskStep, StandsStill, Zenon

LEMMA DropKeeps ==
    ASSUME QueueInv, NEW t \in Tasks,
           \/ t = "driver" /\ (DropClaim \/ DropRefund)
           \/ t = "settler" /\ DropKey
    PROVE  QueueInv'
<1> PICK k : k = task[t].key
    BY SMTT(30)
<1>1. /\ task[t].pc \in {"dropClaim", "dropRefund", "dropKey"}
      /\ \E j \in {Claim(k.swap), Refund(k.swap), k} : queue' = queue \ {j}
      /\ \/ t = "driver" /\ Goto(t, "dropRefund")
         \/ t = "settler" /\ Goto(t, "dropIntent")
         \/ Persist(t, "idle")
      /\ UNCHANGED <<onchain, feed, inbox, refunds, claims, due, store, seen>>
    BY DEF DropClaim, DropRefund, DropKey, At, remove, Key, chainVars
<1>2. k \in Keys /\ Settled(k.swap)
    <2>1. k \in Keys
        BY <1>1 DEF QueueInv, TasksType
    <2>2. CASE t = "driver"
        BY <2>1, <2>2, Zenon DEF DropClaim, DropRefund, At, QueueInv, Resolving
    <2>3. CASE t = "settler"
        BY <2>1, <2>3, Zenon DEF DropKey, At, QueueInv, Resolving, Key
    <2> QED BY <2>1, <2>2, <2>3
<1>3. k.swap \in Swaps
    BY <1>2 DEF Keys
<1>4. PICK pc \in {"dropRefund", "dropIntent", "persist"} : Turn(t, pc, k)
    BY <1>1, GotoTurns, PersistTurns, Zenon DEF QueueInv, Labels
<1>5. \A j \in queue \ queue' : Settled(j.swap)
    BY <1>1, <1>2, <1>3, KeyFacts
<1>6. SharedType' /\ pc \in Labels
    BY <1>1, Zenon DEF QueueInv, SharedType, Labels
<1>7. Settled(k.swap)'
    BY <1>1, <1>2, Zenon DEF Settled
<1> QED
    BY <1>1, <1>4, <1>5, <1>6, <1>7, TaskStep, StandsStill, Zenon

LEMMA EmitRevealKeeps ==
    ASSUME QueueInv, NEW t \in {"driver", "peer"}, NEW s \in Swaps, EmitReveal(t, s)
    PROVE  QueueInv'
<1>1. /\ task[t].pc = "idle" /\ claims' = claims \cup {s} /\ Begin(t, "ensureClaim", Claim(s))
      /\ UNCHANGED <<onchain, feed, inbox, refunds, queue, due, store, seen>>
    BY Zenon DEF EmitReveal, At, chainVars
<1>2. t \in Tasks /\ "ensureClaim" \in Labels
    BY DEF Tasks, Labels
<1>3. Turn(t, "ensureClaim", Claim(s))
    BY <1>1, <1>2, BeginTurns, KeyFacts DEF QueueInv
<1>4. EnsuresClaim(s)'
    BY <1>3 DEF EnsuresClaim, Ensures, Turn
<1>5. SharedType'
    BY <1>1, Zenon DEF QueueInv, SharedType
<1> QED
    BY <1>1, <1>2, <1>3, <1>4, <1>5, TaskStep, StandsStill, Zenon

\* The settler chooses a key.
LEMMA PickKeeps ==
    ASSUME QueueInv, NEW k \in Keys,
           Tick \/ NotDue(k) \/ \E stuck, healthy \in BOOLEAN : Pick(k, stuck, healthy)
    PROVE  QueueInv'
<1>1. /\ task["settler"].pc = "idle" /\ due' \subseteq Keys
      /\ UNCHANGED <<onchain, feed, inbox, refunds, claims, queue, seen, store>>
    BY Zenon DEF Tick, NotDue, Pick, At, chainVars, memory, QueueInv, SharedType
<1>2. "settler" \in Tasks /\ store' \in [Swaps -> Record] /\ TasksType
    BY <1>1, Zenon DEF Tasks, QueueInv, SharedType
<1>3. CASE Tick \/ NotDue(k)
    <2>1. UNCHANGED task
        BY <1>3 DEF Tick, NotDue
    <2>2. Turn("settler", "idle", task["settler"].key)
        BY <1>1, <1>2, <2>1 DEF Turn, TasksType
    <2> QED BY <1>1, <1>2, <2>2, OnlyTurns, Zenon DEF Labels
<1>4. ASSUME NEW stuck \in BOOLEAN, NEW healthy \in BOOLEAN, Pick(k, stuck, healthy)
      PROVE  QueueInv'
    <2> DEFINE pc == IF stuck THEN "observe" ELSE "settle"
               r == [Idle EXCEPT !.pc = pc, !.key = k, !.healthy = healthy]
    <2>1. task' = [task EXCEPT !["settler"] = r]
        BY <1>4, Zenon DEF Pick
    <2>2. pc \in {"observe", "settle"}
        OBVIOUS
    <2> HIDE DEF pc
    <2>3. r \in TaskStates /\ r.pc = pc /\ r.key = k
        BY <2>2, IdleType, Zenon DEF TaskStates, Labels
    <2> HIDE DEF r
    <2>4. Turn("settler", r.pc, r.key)
        BY <1>2, <2>1, <2>3, TurnTo, Zenon
    <2>5. pc \in Labels /\ pc \notin {"dropClaim", "dropRefund", "dropKey", "dropIntent"}
        BY <2>2 DEF Labels
    <2> QED BY <1>1, <1>2, <2>3, <2>4, <2>5, OnlyTurns
<1> QED BY <1>3, <1>4

\* The steps of the settler up to the submission: they decide where to go on.
LEMMA SettlerTurns ==
    ASSUME QueueInv, ObserveSettled \/ ObserveOther \/ Settle \/ Replace \/ SettleFails
    PROVE  QueueInv'
<1>1. /\ UNCHANGED <<onchain, feed, inbox, refunds, claims, queue, seen, due, store>>
      /\ task["settler"].pc \in {"observe", "settle", "replace", "submit"}
      /\ "settler" \in Tasks
    BY Zenon DEF ObserveSettled, ObserveOther, Settle, Replace, SettleFails, At, chainVars, memory, Tasks
<1>2. /\ TasksType /\ task["settler"].key \in Keys
      /\ due' \subseteq Keys /\ store' \in [Swaps -> Record]
    BY <1>1 DEF QueueInv, SharedType, TasksType
<1>3. CASE ObserveSettled
    <2>1. Goto("settler", "dropKey") /\ Settled(task["settler"].key.swap)
        BY <1>3 DEF ObserveSettled, observation_from, Key
    <2>2. Turn("settler", "dropKey", task["settler"].key)
        BY <1>1, <1>2, <2>1, GotoTurns DEF Labels
    <2> QED BY <1>1, <1>2, <2>1, <2>2, OnlyTurns, Zenon DEF Labels
<1>4. CASE ~ObserveSettled
    <2>1. \/ Goto("settler", "settle") \/ Goto("settler", "replace")
          \/ Persist("settler", "idle") \/ Persist("settler", "submit")
        BY <1>4, Zenon DEF ObserveOther, Settle, Replace, SettleFails, record_failure
    <2>2. PICK pc \in {"settle", "replace", "persist"} : Turn("settler", pc, task["settler"].key)
        BY <1>1, <1>2, <2>1, GotoTurns, PersistTurns, Zenon DEF Labels
    <2>3. pc \in Labels
        BY DEF Labels
    <2> QED BY <1>1, <1>2, <2>2, <2>3, OnlyTurns
<1> QED BY <1>3, <1>4

LEMMA DropIntentKeeps ==
    ASSUME QueueInv, DropIntent
    PROVE  QueueInv'
<1> PICK k : k = task["settler"].key
    OBVIOUS
<1>1. /\ task["settler"].pc = "dropIntent" /\ Persist("settler", "idle")
      /\ refunds' \in {refunds, refunds \ {k.swap}} /\ claims' \in {claims, claims \ {k.swap}}
      /\ UNCHANGED <<onchain, feed, inbox, queue, due, store, seen>>
    BY DEF DropIntent, At, Key, chainVars
<1>2. Settled(k.swap) /\ "settler" \in Tasks /\ "persist" \in Labels
    BY <1>1, Zenon DEF QueueInv, Resolving, Key, Tasks, Labels
<1>3. Turn("settler", "persist", k)
    BY <1>1, <1>2, PersistTurns DEF QueueInv
<1>4. SharedType'
    BY <1>1 DEF QueueInv, SharedType
<1>5. /\ \A s \in refunds' : s \in refunds
      /\ \A s \in refunds \ refunds' : Settled(s)
      /\ \A s \in claims' : s \in claims
    BY <1>1, <1>2
<1> QED
    BY <1>1, <1>2, <1>3, <1>4, <1>5, TaskStep, StandsStill, Zenon

LEMMA SubmitKeeps ==
    ASSUME QueueInv, SubmitLands
    PROVE  QueueInv'
<1> PICK k : k = task["settler"].key
    OBVIOUS
<1>1. /\ task["settler"].pc = "submit" /\ Execute(k) /\ Persist("settler", "idle")
      /\ UNCHANGED <<inbox, refunds, claims, queue, due, store, seen>>
    BY Zenon DEF SubmitLands, At, Key, record_failure, memory
<1>2. k \in Keys /\ "settler" \in Tasks /\ "persist" \in Labels
    BY <1>1 DEF QueueInv, TasksType, Tasks, Labels
<1>3. Turn("settler", "persist", k)
    BY <1>1, <1>2, PersistTurns DEF QueueInv
<1>4. /\ MovesOn /\ onchain' \in [Swaps -> {"none", "open", "claimed", "refunded"}]
      /\ feed' \in Seq(Events) /\ Tells(feed)' /\ Tells(inbox)'
    BY <1>1, <1>2, ExecuteTells
<1>5. SharedType'
    BY <1>1, <1>4, Zenon DEF QueueInv, SharedType
<1> QED
    BY <1>1, <1>2, <1>3, <1>4, <1>5, TaskStep, Zenon

\* A kill: every intent restored from the disk gets a key, unless the boot has
\* found its swap settled.
LEMMA CrashKeeps ==
    ASSUME QueueInv, NEW R \in SUBSET Keys, Crash(R)
    PROVE  QueueInv'
<1>1. /\ queue' = SeededQueue \ R
      /\ refunds' = {s \in Swaps : store[s].refund /\ Refund(s) \notin R}
      /\ claims' = {s \in Swaps : store[s].claim /\ Claim(s) \notin R}
      /\ task' = [t \in Tasks |-> Idle]
      /\ due' = {} /\ inbox' = <<>> /\ seen' = {} /\ UNCHANGED <<onchain, feed>>
    BY Zenon DEF Crash, chainVars
<1>2. store' \in [Swaps -> Record]
    <2>1. store' = [s \in Swaps |->
                    IF {Claim(s), Refund(s)} \cap R = {} THEN store[s]
                    ELSE [refund |-> s \in refunds', claim |-> s \in claims',
                          claimAttempt |-> Claim(s) \in queue',
                          refundAttempt |-> Refund(s) \in queue']]
        BY Zenon DEF Crash
    <2>2. \A s \in Swaps : store[s] \in Record
        BY DEF QueueInv, SharedType
    <2>3. \A s \in Swaps : [refund |-> s \in refunds', claim |-> s \in claims',
                            claimAttempt |-> Claim(s) \in queue',
                            refundAttempt |-> Refund(s) \in queue'] \in Record
        BY DEF Record
    <2> QED BY <2>1, <2>2, <2>3, Zenon
<1>3. queue' \subseteq Keys
    BY <1>1 DEF SeededQueue
<1>4. <<>> \in Seq(Events) /\ Len(<<>>) = 0
    OBVIOUS
<1>5. SharedType'
    BY <1>1, <1>2, <1>3, <1>4 DEF QueueInv, SharedType
<1>6. TasksType' /\ Resolving'
    BY <1>1, IdleType, Zenon DEF TasksType, Resolving, Tasks
<1>7. Tells(feed)' /\ Tells(inbox)'
    BY <1>1, <1>4 DEF QueueInv, Tells, Settled
<1>8. ASSUME NEW s \in refunds' PROVE Refund(s) \in queue'
    <2>1. s \in Swaps /\ store[s].refund /\ Refund(s) \notin R
        BY <1>1
    <2> QED BY <1>1, <2>1, KeyFacts, Zenon DEF SeededQueue
<1>9. ASSUME NEW s \in claims' PROVE Claim(s) \in queue'
    <2>1. s \in Swaps /\ store[s].claim /\ Claim(s) \notin R
        BY <1>1
    <2> QED BY <1>1, <2>1, KeyFacts, Zenon DEF SeededQueue
<1>10. Scheduled'
    BY <1>1, <1>8, <1>9, Zenon DEF Scheduled
<1> QED BY <1>5, <1>6, <1>7, <1>10 DEF QueueInv

-----------------------------------------------------------------------------

LEMMA QueueInit == Init => QueueInv
<1> SUFFICES ASSUME Init PROVE QueueInv
    OBVIOUS
<1>1. <<>> \in Seq(Events) /\ Len(<<>>) = 0 /\ EmptyRecord \in Record
    BY DEF EmptyRecord, Record
<1>2. SharedType /\ Tells(feed) /\ Tells(inbox) /\ Scheduled
    BY <1>1 DEF Init, SharedType, Tells, Scheduled
<1>3. TasksType /\ Resolving
    BY IdleType DEF Init, TasksType, Resolving, Tasks, Key
<1> QED BY <1>2, <1>3 DEF QueueInv

\* One step per action of Next.
LEMMA QueueNext ==
    ASSUME QueueInv, [Next]_vars
    PROVE  QueueInv'
<1> USE SettlementAssumption
<1>1. {"driver", "peer", "settler"} \subseteq Tasks
    BY DEF Tasks
<1>2. CASE Environment
    BY <1>2, EnvironmentKeeps
<1>3. CASE DriverStep
    BY <1>1, <1>3, FetchKeeps, TrackCommitmentKeeps, TrackTerminalKeeps, EnsureKeeps, DropKeeps,
       PersistKeeps DEF DriverStep
<1>4. CASE PeerStep
    BY <1>1, <1>4, EnsureKeeps, PersistKeeps DEF PeerStep
<1>5. CASE SettlerStep
    <2>1. CASE Tick
        <3>1. \E k \in Keys : TRUE
            BY <2>1 DEF Tick, QueueInv, SharedType
        <3> QED BY <2>1, <3>1, PickKeeps
    <2>2. ASSUME NEW k \in Keys,
                 NotDue(k) \/ \E stuck, healthy \in BOOLEAN : Pick(k, stuck, healthy)
          PROVE  QueueInv'
        BY <2>2, PickKeeps
    <2>3. CASE DropKey \/ PersistStep("settler")
        BY <1>1, <2>3, DropKeeps, PersistKeeps
    <2>4. CASE ObserveSettled \/ ObserveOther \/ Settle \/ Replace \/ SettleFails
        BY <2>4, SettlerTurns
    <2>5. CASE DropIntent \/ SubmitLands
        BY <2>5, DropIntentKeeps, SubmitKeeps
    <2> QED BY <1>5, <2>1, <2>2, <2>3, <2>4, <2>5 DEF SettlerStep
<1>6. ASSUME NEW t \in Emitters, NEW s \in Swaps, EmitReveal(t, s) PROVE QueueInv'
    BY <1>6, EmitRevealKeeps
<1>7. ASSUME NEW R \in SUBSET Keys, Crash(R) PROVE QueueInv'
    BY <1>7, CrashKeeps
<1>8. CASE UNCHANGED vars
    BY <1>8, Zenon DEF vars, chainVars, memory, QueueInv, SharedType, TasksType, Tells, Settled, Resolving,
       Key, Scheduled, EnsuresRefund, EnsuresClaim, Ensures
<1> QED BY <1>2, <1>3, <1>4, <1>5, <1>6, <1>7, <1>8 DEF Next

\* No open swap is forgotten, for any swaps, emissions of reveals and kills, and
\* however the driver, the peers and the settler interleave: an intent the queue
\* no longer holds belongs to a swap settled on chain, and a tracked commitment
\* keeps its refund scheduled while the swap is open (track_actionable_event,
\* emit_reveal, record_success, seed_queue).
THEOREM NoneForgotten == Spec => []OpenIsNotForgotten
<1>1. QueueInv => OpenIsNotForgotten
    <2> SUFFICES ASSUME QueueInv PROVE OpenIsNotForgotten
        OBVIOUS
    <2>1. Quiet => \A s \in Swaps : ~EnsuresRefund(s) /\ ~EnsuresClaim(s)
        BY DEF Quiet, At, Tasks, EnsuresRefund, EnsuresClaim, Ensures
    <2>2. At("driver", "idle") => \A s \in Swaps : ~EnsuresRefund(s)
        BY DEF At, EnsuresRefund, Ensures
    <2>3. \A s \in Swaps : onchain[s] = "open" => ~Settled(s)
        BY DEF Settled
    <2>4. refunds \subseteq Swaps /\ claims \subseteq Swaps /\ seen \subseteq Swaps
        BY DEF QueueInv, SharedType
    <2>5. Scheduled
        BY DEF QueueInv
    <2> HIDE DEF EnsuresRefund, EnsuresClaim, Settled
    <2> QED BY <2>1, <2>2, <2>3, <2>4, <2>5 DEF OpenIsNotForgotten, Scheduled
<1>2. QueueInv /\ [Next]_vars => QueueInv'
    BY QueueNext
<1> QED BY <1>1, <1>2, QueueInit, PTL DEF Spec

-----------------------------------------------------------------------------
(***************************************************************************)
(* The gateway's promise to a callback registered in time, proved for any  *)
(* number of connect() calls, callbacks and events.                        *)
(***************************************************************************)

ClientEvents == Nat \cup SwapStage

\* How often Node::start may be entered yet.
StartsOnce ==
    /\ started \in {0, 1}
    /\ started = 1 => config = Taken
    /\ node # Absent => config = Taken
    /\ call = [c \in Calls |-> call[c]]
    /\ \A c \in Calls : call[c].is \in {"starting", "spawned"} => config = Taken

\* Nothing is received before connect() has stored the node, and what is heard
\* and queued adds up.  A callback is early only while there is no node.
Delivered ==
    /\ emitted \in [Kinds -> Seq(ClientEvents)]
    /\ waiting \in [Kinds -> Seq(ClientEvents)]
    /\ heard \in [Kinds -> [Listeners -> Seq(ClientEvents)]]
    /\ callbacks \in [Kinds -> SUBSET Listeners]
    /\ early \in [Kinds -> SUBSET Listeners]
    /\ \A k \in Kinds : early[k] \subseteq callbacks[k]
    /\ node = Absent => \A k \in Kinds :
                        /\ waiting[k] = emitted[k]
                        /\ \A l \in Listeners : heard[k][l] = <<>>
    /\ \A k \in Kinds : \A l \in early[k] : heard[k][l] \o waiting[k] = emitted[k]

GatewayInv == StartsOnce /\ Delivered

LEMMA ConcatAppend ==
    ASSUME NEW S, NEW s \in Seq(S), NEW t \in Seq(S), NEW e \in S
    PROVE  s \o Append(t, e) = Append(s \o t, e)
  OBVIOUS

LEMMA ConcatHead ==
    ASSUME NEW S, NEW s \in Seq(S), NEW t \in Seq(S), t # <<>>
    PROVE  Append(s, Head(t)) \o Tail(t) = s \o t
  OBVIOUS

LEMMA Sent ==
    ASSUME Delivered, NEW k \in Kinds, NEW e \in ClientEvents, send(k, e)
    PROVE  Delivered'
  <1> DEFINE q == Append(waiting[k], e)
             m == Append(emitted[k], e)
  <1>1. /\ waiting' = [waiting EXCEPT ![k] = q] /\ emitted' = [emitted EXCEPT ![k] = m]
        /\ UNCHANGED <<node, callbacks, heard, early>>
    BY DEF send, Delivered
  <1>2. waiting[k] \in Seq(ClientEvents) /\ emitted[k] \in Seq(ClientEvents)
    BY DEF Delivered
  <1>3. q \in Seq(ClientEvents) /\ m \in Seq(ClientEvents)
    BY <1>2
  <1>4. \A l \in early[k] : heard[k][l] \o q = m
    <2> SUFFICES ASSUME NEW l \in early[k] PROVE heard[k][l] \o q = m
      BY Zenon
    <2>1. heard[k][l] \in Seq(ClientEvents) /\ heard[k][l] \o waiting[k] = emitted[k]
      BY DEF Delivered
    <2>2. \A h, t \in Seq(ClientEvents) : h \o Append(t, e) = Append(h \o t, e)
      BY ConcatAppend
    <2> QED BY <1>2, <2>1, <2>2, Zenon
  <1> HIDE DEF q, m
  <1>5. node = Absent => q = m
    BY DEF Delivered, q, m
  <1> QED BY <1>1, <1>3, <1>4, <1>5, Zenon DEF Delivered

LEMMA Drained ==
    ASSUME Delivered, NEW k \in Kinds, spawn_drain(k)
    PROVE  Delivered'
  <1> DEFINE s == waiting[k]
             h == [l \in Listeners |-> IF l \in callbacks[k] THEN Append(heard[k][l], Head(s))
                                       ELSE heard[k][l]]
  <1>1. /\ s # <<>> /\ node # Absent
        /\ waiting' = [waiting EXCEPT ![k] = Tail(s)] /\ heard' = [heard EXCEPT ![k] = h]
        /\ UNCHANGED <<node, emitted, callbacks, early>>
    BY DEF spawn_drain, Draining, Delivered
  <1>2. s \in Seq(ClientEvents) /\ Head(s) \in ClientEvents /\ Tail(s) \in Seq(ClientEvents)
    BY <1>1 DEF Delivered
  <1>3. h \in [Listeners -> Seq(ClientEvents)]
    BY <1>2 DEF Delivered
  <1>4. \A l \in early[k] : h[l] \o Tail(s) = emitted[k]
    <2> SUFFICES ASSUME NEW l \in early[k] PROVE h[l] \o Tail(s) = emitted[k]
      BY Zenon
    <2>1. heard[k][l] \in Seq(ClientEvents) /\ heard[k][l] \o s = emitted[k]
          /\ h[l] = Append(heard[k][l], Head(s))
      BY DEF Delivered
    <2> QED BY <1>1, <1>2, <2>1, ConcatHead, Zenon
  <1> HIDE DEF s, h
  <1> QED BY <1>1, <1>2, <1>3, <1>4, Zenon DEF Delivered

LEMMA Registered ==
    ASSUME Delivered, NEW k \in Kinds, NEW l \in Listeners, Register(k, l)
    PROVE  Delivered'
  <1>1. /\ callbacks' = [callbacks EXCEPT ![k] = @ \cup {l}]
        /\ UNCHANGED <<node, emitted, waiting, heard>>
    BY DEF Register
  <1>2. CASE node = Absent
    <2>1. early' = [early EXCEPT ![k] = @ \cup {l}]
      BY <1>2 DEF Register
    <2>2. heard[k][l] \o waiting[k] = emitted[k]
      BY <1>2 DEF Delivered
    <2> QED BY <1>1, <1>2, <2>1, <2>2 DEF Delivered
  <1>3. CASE node # Absent
    <2>1. early' = early
      BY <1>3 DEF Register
    <2> QED BY <1>1, <1>3, <2>1 DEF Delivered
  <1> QED BY <1>2, <1>3

LEMMA GatewayInitInv == GatewayInit => GatewayInv
  <1> SUFFICES ASSUME GatewayInit PROVE GatewayInv
    OBVIOUS
  <1>1. <<>> \in Seq(ClientEvents)
    OBVIOUS
  <1> QED BY <1>1 DEF GatewayInit, GatewayInv, StartsOnce, Delivered, Absent, Taken

\* What Delivered looks at.
GatewayView == <<node, emitted, waiting, callbacks, heard, early>>

LEMMA SameView == Delivered /\ UNCHANGED GatewayView => Delivered'
  BY DEF Delivered, GatewayView

LEMMA NodeStored == Absent # Taken /\ \A cfg : assemble(cfg) # Absent /\ gateway_node_config(cfg) # Taken
  BY Zenon DEF Absent, Taken, assemble, gateway_node_config

LEMMA GatewayNextInv == GatewayInv /\ [GatewayNext]_gatewayVars => GatewayInv'
  <1> SUFFICES ASSUME GatewayInv, [GatewayNext]_gatewayVars PROVE GatewayInv'
    OBVIOUS
  <1> USE DEF GatewayInv
  <1>1. CASE UNCHANGED gatewayVars
    BY <1>1, SameView DEF gatewayVars, GatewayView, StartsOnce
  <1>2. ASSUME NEW cfg, new(cfg) PROVE GatewayInv'
    <2>1. Delivered'
      BY <1>2, SameView DEF new, GatewayView, eventVars
    <2> QED BY <1>2, <2>1, NodeStored DEF new, StartsOnce
  <1>3. ASSUME NEW c \in Calls, connect(c) PROVE GatewayInv'
    <2>1. Delivered'
      BY <1>3, SameView DEF connect, GatewayView, eventVars
    <2> QED BY <1>3, <2>1 DEF connect, StartsOnce
  <1>4. ASSUME NEW c \in Calls, spawn_processing(c) \/ StartFails(c) PROVE GatewayInv'
    BY <1>4, SameView DEF spawn_processing, StartFails, GatewayView, eventVars, StartsOnce
  <1>5. ASSUME NEW c \in Calls, Connected(c) PROVE GatewayInv'
    <2>1. Delivered'
      <3>1. UNCHANGED <<emitted, waiting, callbacks, heard, early>>
        BY <1>5 DEF Connected, eventVars
      <3>2. node' = Absent => node = Absent
        BY <1>5, NodeStored DEF Connected
      <3> QED BY <3>1, <3>2 DEF Delivered
    <2> QED BY <1>5, <2>1 DEF Connected, StartsOnce
  <1>6. ASSUME NEW k \in Kinds, NEW l \in Listeners, Register(k, l) PROVE GatewayInv'
    BY <1>6, Registered, Zenon DEF Register, StartsOnce
  <1>7. CASE \/ \E source \in {"KaspaTn10", "IgraGalleon"} : register_commitment(source)
             \/ register_script
    BY <1>7, SameView DEF register_commitment, register_script, GatewayView, eventVars, StartsOnce
  <1>8. ASSUME NEW stage, emit_status(stage) PROVE GatewayInv'
    BY <1>8, Sent, Zenon DEF emit_status, send, Kinds, ClientEvents, StartsOnce
  <1>9. CASE report_quote
    <2>1. send("quote", Len(emitted["quote"]) + 1)
      BY <1>9 DEF report_quote
    <2>2. Len(emitted["quote"]) + 1 \in ClientEvents
      BY DEF Delivered, Kinds, ClientEvents
    <2> QED BY <2>1, <2>2, Sent, Zenon DEF send, Kinds, StartsOnce
  <1>10. CASE PeersChange \/ spawn_peer_count_poll
    BY <1>10, SameView DEF PeersChange, spawn_peer_count_poll, GatewayView, StartsOnce
  <1>11. ASSUME NEW k \in Kinds, spawn_drain(k) PROVE GatewayInv'
    BY <1>11, Drained, Zenon DEF spawn_drain, StartsOnce
  <1> QED
    BY <1>1, <1>2, <1>3, <1>4, <1>5, <1>6, <1>7, <1>8, <1>9, <1>10, <1>11
    DEF GatewayNext, Connecting, Page, NodeStep, register_kaspa_deposit, on_proposal_error,
        OwnDeposit, TransmitReveal

-----------------------------------------------------------------------------
\* However connect() calls overlap, Node::start is entered once at most, and a
\* callback registered before connect() returned hears everything the node sent,
\* in order: spawn_drain starts only when the node is stored.
THEOREM NothingMissed == GatewaySpec => []EarlyListenersMissNothing
  <1>1. GatewayInv => EarlyListenersMissNothing
    BY DEF GatewayInv, StartsOnce, Delivered, EarlyListenersMissNothing
  <1> QED BY <1>1, GatewayInitInv, GatewayNextInv, PTL DEF GatewaySpec
=============================================================================
