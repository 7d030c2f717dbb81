--------------------------- MODULE PeerLinksProofs ---------------------------
(***************************************************************************)
(* Proofs about PeerLinks.  No entry of connected_peers is left without a  *)
(* task that reads it, and a node never lists a connection made after it   *)
(* banned the peer.  Both follow from one inductive invariant: an entry    *)
(* belongs to a connection in use, one end of which is at this node and is *)
(* reading or leaving; and an end that is past the blacklist check belongs *)
(* to a node that had not banned its peer when the connection was made.    *)
(***************************************************************************)
EXTENDS PeerLinks, FiniteSetTheorems, WellFoundedInduction, TLAPS

-----------------------------------------------------------------------------
(* Lists of entries, and what an operation of the list leaves of it.       *)

\* Every nonempty set of natural numbers has a least element.
LEMMA LeastNat ==
    ASSUME NEW T, T \subseteq Nat, T # {}
    PROVE  \E x \in T : \A y \in T : x <= y
<1> DEFINE F == {1..x : x \in T}
<1>1. F # {} /\ F \subseteq FiniteSubsetsOf(Nat)
    <2>1. \A x \in T : x \in Int /\ IsFiniteSet(1..x) /\ 1..x \subseteq Nat
        BY FS_Interval
    <2>2. F \subseteq FiniteSubsetsOf(Nat)
        BY <2>1, Zenon DEF FiniteSubsetsOf
    <2> QED BY <2>2, Zenon
<1>2. PICK X \in F : \A Y \in F : ~(<<Y, X>> \in StrictSubsetOrdering(Nat))
    <2> HIDE DEF F
    <2> QED BY <1>1, FS_StrictSubsetOrderingWellFounded, WFMin
<1>3. PICK x \in T : X = 1..x
    OBVIOUS
<1>4. ASSUME NEW y \in T, ~(x <= y) PROVE FALSE
    <2>1. 1..y \in F /\ 1..y \subseteq X /\ 1..y # X /\ X \subseteq Nat
        BY <1>3, <1>4, x \in 1..x, x \notin 1..y
    <2> QED BY <2>1, <1>2, Zenon DEF StrictSubsetOrdering
<1> QED BY <1>4

\* A set of positions has a k-th one, for every k up to its size.
LEMMA KthExists ==
    ASSUME NEW P, IsFiniteSet(P), NEW m \in Nat, \A j \in P : j \in Nat /\ 1 <= j /\ j <= m,
           NEW k \in Nat, 1 <= k, k <= Cardinality(P)
    PROVE  \E i \in P : Cardinality({j \in P : j < i}) = k - 1
<1> DEFINE Upto(i) == {j \in P : j <= i}
           Before(i) == {j \in P : j < i}
           T == {i \in Nat : Cardinality(Upto(i)) >= k}
<1>1. Cardinality(P) \in Nat
    BY FS_CardinalityType
<1>2. \A i \in Nat : /\ IsFiniteSet(Upto(i)) /\ Cardinality(Upto(i)) \in Nat
                     /\ IsFiniteSet(Before(i)) /\ Cardinality(Before(i)) \in Nat
    <2>1. \A i \in Nat : Upto(i) \subseteq P /\ Before(i) \subseteq P
        OBVIOUS
    <2> HIDE DEF Upto, Before
    <2> QED BY <2>1, FS_Subset, FS_CardinalityType
<1>3. m \in T
    <2>1. Upto(m) = P
        OBVIOUS
    <2> QED BY <2>1, <1>1
<1>4. PICK i \in T : \A y \in T : i <= y
    <2>1. T \subseteq Nat
        OBVIOUS
    <2> HIDE DEF T
    <2> QED BY <1>3, <2>1, LeastNat, Zenon
<1>5. i \in Nat /\ Cardinality(Upto(i)) >= k
    OBVIOUS
<1>6. i # 0
    <2>1. Upto(0) = {}
        OBVIOUS
    <2> QED BY <2>1, <1>5, FS_EmptySet
<1>7. Upto(i - 1) = Before(i) /\ Cardinality(Before(i)) < k
    <2>1. i - 1 \in Nat /\ i - 1 \notin T
        BY <1>4, <1>5, <1>6
    <2>2. Upto(i - 1) = Before(i)
        BY <2>1, <1>5
    <2>3. ~(Cardinality(Upto(i - 1)) >= k)
        BY <2>1
    <2> HIDE DEF T, Upto, Before
    <2> QED BY <2>1, <2>2, <2>3, <1>2
<1>8. i \in P
    <2>1. i \notin P => Upto(i) = Before(i)
        BY <1>5
    <2> HIDE DEF T, Upto, Before
    <2> QED BY <2>1, <1>5, <1>7, <1>2
<1>9. Cardinality(Upto(i)) = Cardinality(Before(i)) + 1
    <2>1. \A j \in P : j <= i <=> j < i \/ j = i
        BY <1>5
    <2>2. Upto(i) = Before(i) \cup {i}
        BY <1>8, <2>1, Zenon
    <2>3. i \notin Before(i)
        BY <1>5
    <2> HIDE DEF T, Upto, Before
    <2> QED BY <2>2, <2>3, <1>5, <1>2, FS_AddElement, Zenon
<1>10. Cardinality(Before(i)) = k - 1
    <2> HIDE DEF T, Upto, Before
    <2> QED BY <1>5, <1>7, <1>9, <1>2
<1> QED BY <1>8, <1>10

\* What retain leaves of a list: entries of the list, at positions of P.
LEMMA RetainedType ==
    ASSUME NEW S, NEW s \in Seq(S), NEW P \in SUBSET (DOMAIN s)
    PROVE  /\ Retained(s, P) \in Seq(S)
           /\ \A d \in Range(Retained(s, P)) : \E i \in P : d = s[i]
<1>1. Len(s) \in Nat /\ DOMAIN s = 1..Len(s) /\ \A i \in 1..Len(s) : s[i] \in S
    OBVIOUS
<1>2. IsFiniteSet(P) /\ Cardinality(P) \in Nat
    <2>1. IsFiniteSet(1..Len(s))
        BY <1>1, FS_Interval
    <2>2. IsFiniteSet(P)
        BY <1>1, <2>1, FS_Subset
    <2> QED BY <2>2, FS_CardinalityType
<1>3. \A i \in P : i \in Nat /\ 1 <= i /\ i <= Len(s) /\ s[i] \in S
    BY <1>1
<1> DEFINE Kth(k) == CHOOSE i \in P : Cardinality({j \in P : j < i}) = k - 1
<1>4. \A k \in 1..Cardinality(P) : Kth(k) \in P
    <2> SUFFICES ASSUME NEW k \in 1..Cardinality(P) PROVE Kth(k) \in P
        BY Zenon
    <2>1. k \in Nat /\ 1 <= k /\ k <= Cardinality(P)
        BY <1>2
    <2>2. \E i \in P : Cardinality({j \in P : j < i}) = k - 1
        BY <1>1, <1>2, <1>3, <2>1, KthExists, Zenon
    <2> QED BY <2>2, Zenon
<1> HIDE DEF Kth
<1>5. Retained(s, P) = [k \in 1..Cardinality(P) |-> s[Kth(k)]]
    BY DEF Retained, Kth
<1>6. Retained(s, P) \in [1..Cardinality(P) -> S]
    BY <1>3, <1>4, <1>5
<1>7. Retained(s, P) \in Seq(S)
    BY <1>2, <1>6
<1> QED
    BY <1>4, <1>5, <1>7 DEF Range

\* Appending adds one entry, removing one position adds none.
LEMMA AppendSet ==
    ASSUME NEW S, NEW s \in Seq(S), NEW c \in S
    PROVE  Append(s, c) \in Seq(S) /\ Range(Append(s, c)) \subseteq Range(s) \cup {c}
BY DEF Range

LEMMA RemoveSet ==
    ASSUME NEW S, NEW s \in Seq(S), NEW i
    PROVE  /\ Retained(s, DOMAIN s \ {i}) \in Seq(S)
           /\ Range(Retained(s, DOMAIN s \ {i})) \subseteq Range(s)
BY RetainedType, SMTT(30) DEF Range

-----------------------------------------------------------------------------
(* The invariant.                                                          *)

Links == {r \in [used : {TRUE}, from : Node, to : Node, driver : {"boot", "discovery"},
                 open : BOOLEAN, shaken : BOOLEAN, banned : SUBSET Node] : r.from # r.to}

Labels == {"arrived", "handshake", "queued", "blacklist", "lookup", "add", "read", "leave",
           "done"}
Standing == [at : Labels] \cup [at : {"replace"}, idx : Nat]

\* The labels behind the blacklist check.
Passed == {"lookup", "replace", "add", "read", "leave"}

LinkType ==
    /\ conn \in [Slot -> Links \cup {Free}]
    /\ task \in [Slot -> [out : Standing, in : Standing]]
    /\ peers \in [Node -> Seq(Slot)]
    /\ blacklist \in [Node -> SUBSET Node] /\ \A n \in Node : n \notin blacklist[n]

\* The connection in slot c has an end at n, and that end reads or is leaving.
Reads(n, c) ==
    /\ conn[c].used /\ n \in {conn[c].from, conn[c].to}
    /\ task[c][EndAt(c, n)].at \in {"read", "leave"}

\* A ban noted when the connection was made still stands.
Bans(c) ==
    conn[c].used => \A k \in conn[c].banned :
        /\ k \in {conn[c].from, conn[c].to}
        /\ \A j \in {conn[c].from, conn[c].to} : j # k => j \in blacklist[k]

\* Who is past the check had not banned the peer.
Cleared(c) ==
    conn[c].used => \A e \in End : task[c][e].at \in Passed => NodeOf(c, e) \notin conn[c].banned

LinkInv ==
    /\ LinkType
    /\ \A n \in Node : \A c \in Range(peers[n]) : Reads(n, c)
    /\ \A c \in Slot : Bans(c) /\ Cleared(c)

\* Two records of a connection that differ in nothing the invariant reads.
Agrees(c) ==
    /\ conn'[c].used = conn[c].used
    /\ conn[c].used => /\ conn'[c].from = conn[c].from /\ conn'[c].to = conn[c].to
                       /\ conn'[c].banned = conn[c].banned

\* Closing the socket, or the handshake, changes no other field.
LEMMA LinkField ==
    ASSUME LinkType, NEW c \in Slot, conn[c].used,
           conn' = [conn EXCEPT ![c].open = FALSE] \/ conn' = [conn EXCEPT ![c].shaken = TRUE]
    PROVE  conn' \in [Slot -> Links \cup {Free}] /\ \A d \in Slot : Agrees(d)
<1>1. conn[c] \in Links
    BY DEF LinkType, Free
<1>2. [conn[c] EXCEPT !.open = FALSE] \in Links /\ [conn[c] EXCEPT !.shaken = TRUE] \in Links
    BY <1>1, Zenon DEF Links
<1>3. conn' \in [Slot -> Links \cup {Free}]
    BY <1>2, Zenon DEF LinkType
<1>4. \A d \in Slot \ {c} : conn'[d] = conn[d]
    BY DEF LinkType
<1>5. Agrees(c)
    <2>1. conn'[c] = [conn[c] EXCEPT !.open = FALSE] \/ conn'[c] = [conn[c] EXCEPT !.shaken = TRUE]
        BY Zenon DEF LinkType
    <2> QED BY <1>1, <2>1, Zenon DEF Agrees, Links
<1> QED BY <1>3, <1>4, <1>5, Zenon DEF Agrees

\* A task goes to the label l, and no other task moves.
Moves(c, e, l) == \E r \in Standing : r.at = l /\ task' = [task EXCEPT ![c][e] = r]
Moved(c, e, l) ==
    /\ task' \in [Slot -> [out : Standing, in : Standing]]
    /\ task'[c][e].at = l
    /\ \A d \in Slot, f \in End : (d # c \/ f # e) => task'[d][f] = task[d][f]

LEMMA TaskMoves ==
    ASSUME LinkType, NEW c \in Slot, NEW e \in End, NEW l \in Labels \cup {"replace"},
           Moves(c, e, l)
    PROVE  Moved(c, e, l)
<1>1. PICK r \in Standing : r.at = l /\ task' = [task EXCEPT ![c][e] = r]
    BY Zenon DEF Moves
<1>2. task[c] \in [out : Standing, in : Standing]
    BY DEF LinkType
<1>3. [task[c] EXCEPT ![e] = r] \in [out : Standing, in : Standing]
    BY <1>2 DEF End
<1>4. task' = [task EXCEPT ![c] = [task[c] EXCEPT ![e] = r]]
    BY <1>1
<1>5. task' \in [Slot -> [out : Standing, in : Standing]]
    BY <1>3, <1>4 DEF LinkType
<1> QED BY <1>1, <1>2, <1>4, <1>5 DEF LinkType, End, Moved

LEMMA Goes ==
    ASSUME LinkType, NEW c \in Slot, NEW e \in End, NEW l \in Labels, Goto(c, e, l)
    PROVE  Moved(c, e, l)
<1>1. [at |-> l] \in Standing /\ [at |-> l].at = l
    BY DEF Standing
<1>2. Moves(c, e, l)
    BY <1>1, Zenon DEF Goto, Moves
<1> QED BY <1>2, TaskMoves

\* An end that neither reads nor leaves is not listed at its node.
LEMMA Unlisted ==
    ASSUME LinkInv, NEW c \in Slot, NEW e \in End, conn[c].used,
           task[c][e].at \notin {"read", "leave"}
    PROVE  NodeOf(c, e) \in Node /\ c \notin Range(peers[NodeOf(c, e)])
<1>1. conn[c] \in Links
    BY DEF LinkInv, LinkType, Free
<1>2. NodeOf(c, e) \in Node /\ EndAt(c, NodeOf(c, e)) = e
    BY <1>1, Zenon DEF Links, NodeOf, EndAt, End
<1> QED
    BY <1>2 DEF LinkInv, Reads

\* One end takes a step: the others and the connections stay as they are.
LEMMA EndMoves ==
    ASSUME LinkInv, LinkType', NEW c \in Slot, NEW e \in End, conn[c].used,
           \A d \in Slot : Agrees(d),
           \A d \in Slot, f \in End : (d # c \/ f # e) => task'[d][f] = task[d][f],
           \A n \in Node : blacklist[n] \subseteq blacklist'[n],
           \A n \in Node : \A d \in Range(peers'[n]) :
               d \in Range(peers[n]) \/ (d = c /\ n = NodeOf(c, e)),
           c \in Range(peers'[NodeOf(c, e)]) => task'[c][e].at \in {"read", "leave"},
           task'[c][e].at \in Passed => NodeOf(c, e) \notin conn[c].banned
    PROVE  LinkInv'
<1>1. \A d \in Slot : conn[d].used => conn[d] \in Links
    BY DEF LinkInv, LinkType, Free
<1>2. ASSUME NEW n \in Node, NEW d \in Range(peers'[n]) PROVE Reads(n, d)'
    <2>1. d \in Slot
        BY DEF LinkType, Range
    <2>2. CASE d = c /\ n = NodeOf(c, e)
        <3>1. n \in {conn[c].from, conn[c].to} /\ EndAt(c, n) = e
            BY <1>1, <2>2, Zenon DEF Links, NodeOf, EndAt, End
        <3>2. EndAt(c, n)' = e
            BY <3>1, Zenon DEF Agrees, EndAt
        <3>3. task'[c][e].at \in {"read", "leave"}
            BY <2>2
        <3> QED BY <2>2, <3>1, <3>2, <3>3, Zenon DEF Reads, Agrees
    <2>3. CASE ~(d = c /\ n = NodeOf(c, e))
        <3>1. Reads(n, d)
            BY <2>3 DEF LinkInv
        <3>2. EndAt(d, n) \in End /\ NodeOf(d, EndAt(d, n)) = n
            BY <3>1 DEF Reads, EndAt, NodeOf, End
        <3>3. task'[d][EndAt(d, n)] = task[d][EndAt(d, n)]
            BY <2>1, <2>3, <3>2
        <3>4. EndAt(d, n)' = EndAt(d, n)
            BY <2>1, <3>1 DEF Agrees, EndAt, Reads
        <3> QED BY <2>1, <3>1, <3>3, <3>4, Zenon DEF Reads, Agrees
    <2> QED BY <2>2, <2>3
<1>3. ASSUME NEW d \in Slot PROVE Bans(d)'
    <2>1. Bans(d) /\ Agrees(d)
        BY DEF LinkInv
    <2>2. conn[d].used => conn[d].banned \subseteq Node
        BY <1>1, Zenon DEF Links
    <2> QED BY <2>1, <2>2 DEF Bans, Agrees
<1>4. ASSUME NEW d \in Slot PROVE Cleared(d)'
    <2>1. Cleared(d) /\ Agrees(d)
        BY DEF LinkInv
    <2>2. conn[d].used => \A f \in End : NodeOf(d, f)' = NodeOf(d, f)
        BY <2>1, Zenon DEF NodeOf, Agrees
    <2>3. ASSUME conn[d].used, NEW f \in End, task'[d][f].at \in Passed
          PROVE  NodeOf(d, f) \notin conn[d].banned
        BY <2>1, <2>3, Zenon DEF Cleared
    <2> QED BY <2>1, <2>2, <2>3 DEF Cleared, Agrees
<1> QED BY <1>2, <1>3, <1>4 DEF LinkInv

\* A slot that nobody lists is given up, or given to a new connection.
LEMMA SlotChanges ==
    ASSUME LinkInv, LinkType', NEW c \in Slot,
           \A d \in Slot \ {c} : conn'[d] = conn[d] /\ task'[d] = task[d],
           UNCHANGED blacklist,
           \A n \in Node : Range(peers'[n]) \subseteq Range(peers[n]) \ {c},
           Bans(c)', Cleared(c)'
    PROVE  LinkInv'
<1>1. ASSUME NEW n \in Node, NEW d \in Range(peers'[n]) PROVE Reads(n, d)'
    <2>1. d \in Range(peers[n]) /\ d # c
        OBVIOUS
    <2>3. d \in Slot
        BY DEF LinkType, Range
    <2>2. Reads(n, d)
        BY DEF LinkInv
    <2> QED BY <2>1, <2>2, <2>3 DEF Reads, EndAt
<1>2. ASSUME NEW d \in Slot \ {c} PROVE Bans(d)' /\ Cleared(d)'
    <2>1. Bans(d) /\ Cleared(d)
        BY DEF LinkInv
    <2> QED BY <2>1 DEF Bans, Cleared, NodeOf
<1> QED BY <1>1, <1>2 DEF LinkInv

\* dial: the bans in force when the connection is made are noted.
LEMMA DialKeeps ==
    ASSUME LinkInv, NEW n \in Node, NEW m \in Node, n # m,
           NEW driver \in {"boot", "discovery"}, dial(n, m, driver),
           UNCHANGED <<peers, blacklist>>
    PROVE  LinkInv'
<1> DEFINE banned == {k \in {n, m} : \E j \in {n, m} : j \in blacklist[k]}
           link == [used |-> TRUE, from |-> n, to |-> m, driver |-> driver, open |-> TRUE,
                    shaken |-> FALSE, banned |-> banned]
           ends == [out |-> [at |-> "handshake"], in |-> [at |-> "arrived"]]
<1>1. PICK c \in Slot : /\ ~conn[c].used
                        /\ conn' = [conn EXCEPT ![c] = link]
                        /\ task' = [task EXCEPT ![c] = ends]
    BY Zenon DEF dial
<1>2. link \in Links
    BY DEF Links
<1>3. ends \in [out : Standing, in : Standing]
    BY DEF Standing, Labels
<1>4. ends["out"].at = "handshake" /\ ends["in"].at = "arrived"
    OBVIOUS
<1>5. /\ link.from = n /\ link.to = m /\ link.banned = banned
    OBVIOUS
<1>6. \A k \in banned : k \in {n, m} /\ \A j \in {n, m} : j # k => j \in blacklist[k]
    BY DEF LinkInv, LinkType
<1> HIDE DEF link, ends, banned
<1>7. LinkType'
    BY <1>1, <1>2, <1>3 DEF LinkInv, LinkType
<1>8. conn'[c] = link /\ task'[c] = ends
    BY <1>1 DEF LinkInv, LinkType
<1>9. \A d \in Slot \ {c} : conn'[d] = conn[d] /\ task'[d] = task[d]
    BY <1>1 DEF LinkInv, LinkType
<1>10. Bans(c)'
    BY <1>5, <1>6, <1>8 DEF Bans
<1>11. Cleared(c)'
    BY <1>4, <1>8 DEF Cleared, Passed, End
<1>12. \A k \in Node : Range(peers'[k]) \subseteq Range(peers[k]) \ {c}
    BY <1>1 DEF LinkInv, Reads
<1> QED
    BY <1>7, <1>9, <1>10, <1>11, <1>12, SlotChanges

\* Finish: an end that its node no longer lists is over.
LEMMA FinishKeeps ==
    ASSUME LinkInv, NEW c \in Slot, NEW e \in End, conn[c].used, Finish(c, e),
           peers' \in [Node -> Seq(Slot)],
           \A n \in Node : Range(peers'[n]) \subseteq Range(peers[n]),
           c \notin Range(peers'[NodeOf(c, e)])
    PROVE  LinkInv'
<1> DEFINE other == CHOOSE f \in End : f # e
<1>1. conn[c] \in Links /\ UNCHANGED blacklist
    BY DEF LinkInv, LinkType, Free, Finish
<1>2. other \in End /\ other # e /\ End = {e, other}
    BY Zenon DEF End
<1>3. CASE task[c][other].at = "done"
    <2>1. conn' = [conn EXCEPT ![c] = Free] /\ task' = [task EXCEPT ![c] = NoTask]
        BY <1>3 DEF Finish
    <2>2. NoTask \in [out : Standing, in : Standing]
        BY DEF NoTask, Standing, Labels
    <2>3. LinkType'
        BY <1>1, <2>1, <2>2 DEF LinkInv, LinkType
    <2>4. conn'[c] = Free /\ \A d \in Slot \ {c} : conn'[d] = conn[d] /\ task'[d] = task[d]
        BY <2>1 DEF LinkInv, LinkType
    <2>5. ASSUME NEW n \in Node, c \in Range(peers'[n]) PROVE FALSE
        <3>1. Reads(n, c)
            BY <2>5 DEF LinkInv
        <3>2. EndAt(c, n) = other
            BY <1>1, <1>2, <2>5, <3>1 DEF Reads, EndAt, NodeOf, End, Links
        <3> QED BY <1>3, <3>1, <3>2 DEF Reads
    <2>6. Bans(c)' /\ Cleared(c)'
        BY <2>4 DEF Bans, Cleared, Free
    <2> QED BY <1>1, <2>3, <2>4, <2>5, <2>6, SlotChanges
<1>4. CASE task[c][other].at # "done"
    <2>1. conn' = [conn EXCEPT ![c].open = FALSE] /\ Goto(c, e, "done")
        BY <1>4 DEF Finish, close
    <2>2. "done" \in Labels /\ "done" \notin Passed
        BY DEF Labels, Passed
    <2>3. conn' \in [Slot -> Links \cup {Free}] /\ \A d \in Slot : Agrees(d)
        BY <2>1, LinkField, Zenon DEF LinkInv
    <2>4. Moved(c, e, "done")
        BY <2>1, <2>2, Goes DEF LinkInv
    <2>5. LinkType'
        BY <1>1, <2>3, <2>4 DEF LinkInv, LinkType, Moved
    <2> QED
        BY <1>1, <2>2, <2>3, <2>4, <2>5, EndMoves DEF Moved
<1> QED BY <1>3, <1>4

\* One end goes on, and no list changes.
LEMMA GoesOn ==
    ASSUME LinkInv, NEW c \in Slot, NEW e \in End, conn[c].used,
           NEW l \in Labels \cup {"replace"}, Moved(c, e, l),
           \/ UNCHANGED conn
           \/ conn' = [conn EXCEPT ![c].open = FALSE]
           \/ conn' = [conn EXCEPT ![c].shaken = TRUE],
           UNCHANGED peers,
           blacklist' \in [Node -> SUBSET Node], \A n \in Node : n \notin blacklist'[n],
           \A n \in Node : blacklist[n] \subseteq blacklist'[n],
           task[c][e].at \in {"read", "leave"} => l \in {"read", "leave"},
           l \in Passed => NodeOf(c, e) \notin conn[c].banned
    PROVE  LinkInv'
<1>1. conn' \in [Slot -> Links \cup {Free}] /\ \A d \in Slot : Agrees(d)
    BY LinkField DEF LinkInv, LinkType, Agrees
<1>2. LinkType'
    BY <1>1 DEF LinkInv, LinkType, Moved
<1>3. c \in Range(peers'[NodeOf(c, e)]) => task'[c][e].at \in {"read", "leave"}
    BY Unlisted DEF Moved
<1>4. /\ task'[c][e].at = l
      /\ \A d \in Slot, f \in End : (d # c \/ f # e) => task'[d][f] = task[d][f]
    BY DEF Moved
<1>5. \A n \in Node : \A d \in Range(peers'[n]) : d \in Range(peers[n])
    OBVIOUS
<1> QED
    BY <1>1, <1>2, <1>3, <1>4, <1>5, EndMoves

\* An end behind the blacklist check is cleared.
LEMMA IsCleared ==
    ASSUME LinkInv, NEW c \in Slot, NEW e \in End, conn[c].used, task[c][e].at \in Passed
    PROVE  NodeOf(c, e) \notin conn[c].banned
BY DEF LinkInv, Cleared

\* An end that is neither reading nor leaving gives up.
LEMMA GivesUp ==
    ASSUME LinkInv, NEW c \in Slot, NEW e \in End, conn[c].used, Finish(c, e),
           UNCHANGED peers, task[c][e].at \notin {"read", "leave"}
    PROVE  LinkInv'
<1>1. c \notin Range(peers'[NodeOf(c, e)])
    BY Unlisted
<1>2. peers' \in [Node -> Seq(Slot)] /\ \A n \in Node : Range(peers'[n]) \subseteq Range(peers[n])
    BY DEF LinkInv, LinkType
<1> QED BY <1>1, <1>2, FinishKeeps

\* The label a task goes to, and what is known of it.
LEMMA LabelFacts ==
    /\ {"handshake", "queued", "blacklist", "lookup", "add", "read", "leave"} \subseteq Labels
    /\ {"handshake", "queued", "blacklist"} \cap Passed = {}
    /\ {"lookup", "replace", "add", "read", "leave"} = Passed
BY DEF Labels, Passed

LEMMA ListenKeeps ==
    ASSUME LinkInv, NEW c \in Slot, listen(c) \/ Accept(c)
    PROVE  LinkInv'
<1>1. "in" \in End /\ conn[c].used /\ task[c]["in"].at \in {"arrived", "queued"} /\ UNCHANGED peers
    BY DEF listen, Accept, At, End
<1>2. CASE Finish(c, "in")
    BY <1>1, <1>2, GivesUp
<1>3. CASE Goto(c, "in", "handshake") /\ conn' = [conn EXCEPT ![c].shaken = TRUE] /\ UNCHANGED blacklist
    <2>1. Moved(c, "in", "handshake")
        BY <1>1, <1>3, Goes, LabelFacts DEF LinkInv
    <2> QED BY <1>1, <1>3, <2>1, GoesOn, LabelFacts, Zenon DEF LinkInv, LinkType
<1>4. CASE Goto(c, "in", "blacklist") /\ UNCHANGED conn /\ UNCHANGED blacklist
    <2>1. Moved(c, "in", "blacklist")
        BY <1>1, <1>4, Goes, LabelFacts DEF LinkInv
    <2> QED BY <1>1, <1>4, <2>1, GoesOn, LabelFacts, Zenon DEF LinkInv, LinkType
<1> QED BY <1>2, <1>3, <1>4 DEF listen, Accept

LEMMA HandshakeKeeps ==
    ASSUME LinkInv, NEW c \in Slot, NEW e \in End, handshake(c, e) \/ HandshakeFails(c, e)
    PROVE  LinkInv'
<1>1. conn[c].used /\ task[c][e].at = "handshake" /\ UNCHANGED peers
    BY DEF handshake, HandshakeFails, At
<1>2. CASE HandshakeFails(c, e)
    BY <1>1, <1>2, GivesUp DEF HandshakeFails
<1>3. CASE handshake(c, e)
    <2> DEFINE l == IF e = "out" THEN "blacklist" ELSE "queued"
    <2>1. l \in Labels /\ l \notin Passed /\ Goto(c, e, l) /\ UNCHANGED <<conn, blacklist>>
        BY <1>3, LabelFacts DEF handshake
    <2> HIDE DEF l
    <2>2. Moved(c, e, l)
        BY <2>1, Goes DEF LinkInv
    <2> QED BY <1>1, <2>1, <2>2, GoesOn, Zenon DEF LinkInv, LinkType
<1> QED BY <1>2, <1>3

LEMMA CheckKeeps ==
    ASSUME LinkInv, NEW c \in Slot, NEW e \in End, CheckBlacklist(c, e)
    PROVE  LinkInv'
<1>1. conn[c].used /\ task[c][e].at = "blacklist" /\ UNCHANGED peers
    BY DEF CheckBlacklist, At
<1>2. CASE PeerOf(c, e) \in blacklist[NodeOf(c, e)]
    BY <1>1, <1>2, GivesUp DEF CheckBlacklist
<1>3. CASE PeerOf(c, e) \notin blacklist[NodeOf(c, e)]
    <2>1. Goto(c, e, "lookup") /\ UNCHANGED <<conn, blacklist>>
        BY <1>3 DEF CheckBlacklist
    <2>2. Moved(c, e, "lookup")
        BY <2>1, Goes, LabelFacts DEF LinkInv
    <2>3. conn[c] \in Links /\ Bans(c)
        BY <1>1 DEF LinkInv, LinkType, Free
    <2>4. NodeOf(c, e) \notin conn[c].banned
        BY <1>1, <1>3, <2>3, Zenon DEF Bans, Links, NodeOf, PeerOf
    <2> QED BY <1>1, <2>1, <2>2, <2>4, GoesOn, LabelFacts, Zenon DEF LinkInv, LinkType
<1> QED BY <1>2, <1>3

LEMMA LookupKeeps ==
    ASSUME LinkInv, NEW c \in Slot, NEW e \in End, Lookup(c, e)
    PROVE  LinkInv'
<1> DEFINE n == NodeOf(c, e)
           found == Entries(n, PeerOf(c, e))
           idx == MinOf(found)
<1>1. conn[c].used /\ task[c][e].at = "lookup" /\ UNCHANGED peers
    BY DEF Lookup, At
<1>2. CASE Finish(c, e)
    BY <1>1, <1>2, GivesUp
<1>3. CASE ~Finish(c, e)
    <2>1. /\ task' = [task EXCEPT ![c][e] = IF found = {} THEN [at |-> "add"]
                                            ELSE [at |-> "replace", idx |-> idx]]
          /\ UNCHANGED <<conn, blacklist>>
        BY <1>3 DEF Lookup
    <2>2. found \subseteq Nat
        BY DEF Entries
    <2> HIDE DEF found
    <2>3. found # {} => idx \in Nat
        <3>1. found # {} => \E i \in found : \A j \in found : i <= j
            BY <2>2, LeastNat, Zenon
        <3> QED BY <2>2, <3>1, Zenon DEF MinOf
    <2> HIDE DEF idx
    <2>4. found = {} => Moves(c, e, "add")
        <3>1. [at |-> "add"] \in Standing /\ [at |-> "add"].at = "add"
            BY DEF Standing, Labels
        <3> QED BY <2>1, <3>1, Zenon DEF Moves
    <2>5. found # {} => Moves(c, e, "replace")
        <3>1. found # {} => /\ [at |-> "replace", idx |-> idx] \in Standing
                            /\ [at |-> "replace", idx |-> idx].at = "replace"
            BY <2>3 DEF Standing
        <3> QED BY <2>1, <3>1, Zenon DEF Moves
    <2>6. Moved(c, e, "add") \/ Moved(c, e, "replace")
        BY <2>4, <2>5, TaskMoves, LabelFacts DEF LinkInv
    <2>7. NodeOf(c, e) \notin conn[c].banned
        BY <1>1, IsCleared, LabelFacts
    <2> QED BY <1>1, <2>1, <2>6, <2>7, GoesOn, LabelFacts, Zenon DEF LinkInv, LinkType
<1> QED BY <1>2, <1>3

LEMMA ReplaceKeeps ==
    ASSUME LinkInv, NEW c \in Slot, NEW e \in End, Replace(c, e)
    PROVE  LinkInv'
<1> DEFINE n == NodeOf(c, e)
           idx == task[c][e].idx
<1>1. /\ conn[c].used /\ task[c][e].at = "replace"
      /\ Goto(c, e, "add") /\ UNCHANGED blacklist
    BY DEF Replace, At
<1>2. Moved(c, e, "add")
    BY <1>1, Goes, LabelFacts DEF LinkInv
<1>3. n \in Node /\ c \notin Range(peers[n])
    BY <1>1, Unlisted
<1>4. n \notin conn[c].banned
    BY <1>1, IsCleared, LabelFacts
<1>5. CASE idx \notin Entries(n, PeerOf(c, e))
    <2>1. UNCHANGED <<peers, conn>>
        BY <1>5 DEF Replace
    <2> QED BY <1>1, <1>2, <1>4, <2>1, GoesOn, LabelFacts, Zenon DEF LinkInv, LinkType
<1>6. CASE idx \in Entries(n, PeerOf(c, e))
    <2>1. /\ peers' = [peers EXCEPT ![n] = Retained(peers[n], DOMAIN peers[n] \ {idx})]
          /\ conn' = [conn EXCEPT ![peers[n][idx]].open = FALSE]
        BY <1>6, Zenon DEF Replace, close
    <2>2. idx \in 1..Len(peers[n]) /\ peers[n] \in Seq(Slot)
        BY <1>3, <1>6, Zenon DEF Entries, LinkInv, LinkType
    <2> HIDE DEF idx, n
    <2>3. peers[n][idx] \in Range(peers[n]) /\ peers[n][idx] \in Slot
        BY <2>2 DEF Range
    <2>4. conn[peers[n][idx]].used
        BY <1>3, <2>3 DEF LinkInv, Reads
    <2>5. conn' \in [Slot -> Links \cup {Free}] /\ \A d \in Slot : Agrees(d)
        BY <2>1, <2>3, <2>4, LinkField, Zenon DEF LinkInv
    <2>6. /\ Retained(peers[n], DOMAIN peers[n] \ {idx}) \in Seq(Slot)
          /\ Range(Retained(peers[n], DOMAIN peers[n] \ {idx})) \subseteq Range(peers[n])
        BY <2>2, RemoveSet, Zenon
    <2>7. peers' \in [Node -> Seq(Slot)] /\ \A k \in Node : Range(peers'[k]) \subseteq Range(peers[k])
        BY <2>1, <2>6, Zenon DEF LinkInv, LinkType
    <2>8. LinkType'
        BY <1>1, <1>2, <2>5, <2>7 DEF LinkInv, LinkType, Moved
    <2>9. c \notin Range(peers'[n])
        BY <1>3, <2>7
    <2>10. /\ task'[c][e].at = "add"
           /\ \A d \in Slot, f \in End : (d # c \/ f # e) => task'[d][f] = task[d][f]
        BY <1>2 DEF Moved
    <2> QED
        BY <1>1, <1>4, <2>5, <2>7, <2>8, <2>9, <2>10, EndMoves, Zenon DEF n
<1> QED BY <1>5, <1>6

LEMMA AddKeeps ==
    ASSUME LinkInv, NEW c \in Slot, NEW e \in End, Add(c, e)
    PROVE  LinkInv'
<1> DEFINE n == NodeOf(c, e)
<1>1. /\ conn[c].used /\ task[c][e].at = "add" /\ Goto(c, e, "read")
      /\ UNCHANGED <<conn, blacklist>>
      /\ peers' = [peers EXCEPT ![n] = Append(peers[n], c)]
    BY DEF Add, At
<1>2. Moved(c, e, "read")
    BY <1>1, Goes, LabelFacts, Zenon DEF LinkInv
<1>3. n \in Node /\ n \notin conn[c].banned
    BY <1>1, Unlisted, IsCleared, LabelFacts
<1> HIDE DEF n
<1>4. /\ Append(peers[n], c) \in Seq(Slot)
      /\ Range(Append(peers[n], c)) \subseteq Range(peers[n]) \cup {c}
    BY <1>3, AppendSet DEF LinkInv, LinkType
<1>5. LinkType'
    BY <1>1, <1>2, <1>3, <1>4, Zenon DEF LinkInv, LinkType, Moved
<1>6. \A k \in Node : \A d \in Range(peers'[k]) : d \in Range(peers[k]) \/ (d = c /\ k = n)
    BY <1>1, <1>3, <1>4 DEF LinkInv, LinkType
<1>7. \A d \in Slot : Agrees(d)
    BY <1>1 DEF Agrees
<1>8. /\ task'[c][e].at = "read"
      /\ \A d \in Slot, f \in End : (d # c \/ f # e) => task'[d][f] = task[d][f]
    BY <1>2 DEF Moved
<1> QED
    BY <1>1, <1>3, <1>5, <1>6, <1>7, <1>8, EndMoves, Zenon DEF n

LEMMA ReaderKeeps ==
    ASSUME LinkInv, NEW c \in Slot, NEW e \in End, Hangup(c, e) \/ RateLimit(c, e)
    PROVE  LinkInv'
<1> DEFINE n == NodeOf(c, e)
           m == PeerOf(c, e)
<1>1. /\ conn[c].used /\ task[c][e].at = "read" /\ Goto(c, e, "leave") /\ UNCHANGED peers
      /\ UNCHANGED conn \/ conn' = [conn EXCEPT ![c].open = FALSE]
      /\ UNCHANGED blacklist \/ blacklist' = [blacklist EXCEPT ![n] = blacklist[n] \cup {m}]
    BY DEF Hangup, RateLimit, At, close
<1>2. Moved(c, e, "leave")
    BY <1>1, Goes, LabelFacts DEF LinkInv
<1>3. conn[c] \in Links
    BY <1>1 DEF LinkInv, LinkType, Free
<1>4. n \in Node /\ m \in Node /\ n # m
    BY <1>3, Zenon DEF Links, NodeOf, PeerOf
<1>5. n \notin conn[c].banned
    BY <1>1, IsCleared, LabelFacts
<1> HIDE DEF n, m
<1>6. /\ blacklist' \in [Node -> SUBSET Node]
      /\ \A k \in Node : k \notin blacklist'[k] /\ blacklist[k] \subseteq blacklist'[k]
    <2>1. blacklist \in [Node -> SUBSET Node] /\ \A k \in Node : k \notin blacklist[k]
        BY DEF LinkInv, LinkType
    <2>2. CASE UNCHANGED blacklist
        BY <2>1, <2>2
    <2>3. CASE blacklist' = [blacklist EXCEPT ![n] = blacklist[n] \cup {m}]
        <3>1. blacklist'[n] = blacklist[n] \cup {m} /\ blacklist' \in [Node -> SUBSET Node]
            BY <1>4, <2>1, <2>3
        <3>2. \A k \in Node \ {n} : blacklist'[k] = blacklist[k]
            BY <2>1, <2>3
        <3> QED BY <1>4, <2>1, <3>1, <3>2
    <2> QED BY <1>1, <2>2, <2>3
<1> QED
    BY <1>1, <1>2, <1>5, <1>6, GoesOn, LabelFacts DEF n

LEMMA LeaveKeeps ==
    ASSUME LinkInv, NEW c \in Slot, NEW e \in End, Leave(c, e)
    PROVE  LinkInv'
<1> DEFINE n == NodeOf(c, e)
           kept == Kept(n, c)
<1>1. /\ conn[c].used /\ Finish(c, e)
      /\ peers' = [peers EXCEPT ![n] = Retained(peers[n], kept)]
    BY DEF Leave, At, remove_connected_peer
<1>2. conn[c] \in Links
    BY <1>1 DEF LinkInv, LinkType, Free
<1>3. n \in Node
    BY <1>2, Zenon DEF Links, NodeOf
<1> HIDE DEF n
<1>4. peers[n] \in Seq(Slot) /\ kept \in SUBSET (DOMAIN peers[n])
    BY <1>3 DEF LinkInv, LinkType, Kept
<1>5. \A i \in kept : peers[n][i] # c
    BY DEF Kept
<1> HIDE DEF kept
<1>6. /\ Retained(peers[n], kept) \in Seq(Slot)
      /\ \A d \in Range(Retained(peers[n], kept)) : \E i \in kept : d = peers[n][i]
    BY <1>4, RetainedType
<1>7. /\ c \notin Range(Retained(peers[n], kept))
      /\ Range(Retained(peers[n], kept)) \subseteq Range(peers[n])
    BY <1>4, <1>5, <1>6, Zenon DEF Range
<1>8. peers'[n] = Retained(peers[n], kept) /\ peers' \in [Node -> Seq(Slot)]
    BY <1>1, <1>3, <1>6 DEF LinkInv, LinkType
<1>9. \A k \in Node : k # n => peers'[k] = peers[k]
    BY <1>1 DEF LinkInv, LinkType
<1>10. \A k \in Node : Range(peers'[k]) \subseteq Range(peers[k])
    BY <1>7, <1>8, <1>9
<1> QED
    BY <1>1, <1>7, <1>8, <1>10, FinishKeeps DEF n

LEMMA CutKeeps ==
    ASSUME LinkInv, NEW c \in Slot, Cut(c)
    PROVE  LinkInv'
<1>1. /\ conn[c].used /\ conn' = [conn EXCEPT ![c].open = FALSE]
      /\ UNCHANGED <<task, peers, blacklist>> /\ "out" \in End
    BY DEF Cut, close, End
<1>2. task[c]["out"].at \in Labels \cup {"replace"}
    BY DEF LinkInv, LinkType, Standing
<1>3. Moved(c, "out", task[c]["out"].at)
    BY <1>1 DEF LinkInv, LinkType, Moved
<1>4. task[c]["out"].at \in Passed => NodeOf(c, "out") \notin conn[c].banned
    BY <1>1, IsCleared
<1> QED
    BY <1>1, <1>2, <1>3, <1>4, GoesOn, Zenon DEF LinkInv, LinkType

-----------------------------------------------------------------------------

LEMMA LinkInit == Init => LinkInv
<1> SUFFICES ASSUME Init PROVE LinkInv
    OBVIOUS
<1>1. NoTask \in [out : Standing, in : Standing] /\ <<>> \in Seq(Slot)
    BY DEF NoTask, Standing, Labels
<1>2. LinkType
    BY <1>1 DEF Init, LinkType
<1>3. \A n \in Node : Range(peers[n]) = {}
    BY DEF Init, Range
<1>4. \A c \in Slot : ~conn[c].used
    BY DEF Init, Free
<1> QED BY <1>2, <1>3, <1>4 DEF LinkInv, Bans, Cleared

\* One step per action of Next.
LEMMA LinkNext ==
    ASSUME LinkInv, [Next]_vars
    PROVE  LinkInv'
<1> USE LinksAssumption
<1>1. CASE UNCHANGED <<conn, task, peers, blacklist>>
    BY <1>1 DEF LinkInv, LinkType, Reads, Bans, Cleared, EndAt, NodeOf
<1>2. ASSUME NEW p \in Loops,
             BootCheck(p[1], p[2]) \/ BootDial(p[1], p[2]) \/ BootDialFails(p[1], p[2])
      PROVE  LinkInv'
    <2>1. p[1] \in Node /\ p[2] \in Node /\ p[1] # p[2]
        BY DEF Loops
    <2>2. CASE BootDial(p[1], p[2])
        BY <2>1, <2>2, DialKeeps DEF BootDial
    <2> QED BY <1>1, <1>2, <2>2, Zenon DEF BootCheck, BootDialFails
<1>3. ASSUME NEW n \in Node, NEW m \in Node,
             process_peer_addrs(n, m) \/ DiscoveryDial(n, m) \/ DiscoveryDialFails(n, m)
      PROVE  LinkInv'
    <2>1. CASE DiscoveryDial(n, m)
        BY <2>1, DialKeeps DEF DiscoveryDial
    <2> QED BY <1>1, <1>3, <2>1, Zenon DEF process_peer_addrs, DiscoveryDialFails
<1>4. ASSUME NEW n \in Node, Drain(n) PROVE LinkInv'
    BY <1>1, <1>4, Zenon DEF Drain
<1>5. ASSUME NEW c \in Slot, listen(c) \/ Accept(c) \/ Cut(c) PROVE LinkInv'
    BY <1>5, ListenKeeps, CutKeeps
<1>6. ASSUME NEW c \in Slot, NEW e \in End, Tracked(c, e) \/ RateLimit(c, e) PROVE LinkInv'
    BY <1>6, HandshakeKeeps, CheckKeeps, LookupKeeps, ReplaceKeeps, AddKeeps, ReaderKeeps,
       LeaveKeeps, Zenon DEF Tracked
<1>7. CASE UNCHANGED vars
    BY <1>1, <1>7, Zenon DEF vars
<1> QED BY <1>2, <1>3, <1>4, <1>5, <1>6, <1>7, SMTT(30) DEF Next

LEMMA LinkInvariant == Spec => []LinkInv
<1>1. LinkInv /\ [Next]_vars => LinkInv'
    BY LinkNext
<1> QED BY <1>1, LinkInit, PTL DEF Spec

\* No entry of connected_peers is ever left behind without a task that reads
\* from it and will take it off the list: for any network, any bootstrap lists
\* and any crossing of dials, rejections, replacements and lost connections
\* (read_from_peer_tracked, should_proceed, remove_connected_peer).
THEOREM EveryPeerIsRead == Spec => []ListedIsRead
<1>1. LinkInv => ListedIsRead
    BY DEF LinkInv, ListedIsRead, Reads
<1> QED BY <1>1, LinkInvariant, PTL

\* A connection made after a node banned its peer is never listed by that node,
\* whichever side dialled and however the tasks interleave (check_blacklist and
\* the rate limit of read_from_peer_tracked).
THEOREM BansHold == Spec => []BannedStaysOut
<1>1. LinkInv => BannedStaysOut
    <2> SUFFICES ASSUME LinkInv, NEW n \in Node, NEW c \in Range(peers[n]), conn[c].used
                 PROVE  n \notin conn[c].banned
        BY DEF BannedStaysOut
    <2>1. Reads(n, c) /\ c \in Slot
        BY DEF LinkInv, LinkType, Range
    <2>2. EndAt(c, n) \in End /\ NodeOf(c, EndAt(c, n)) = n
        BY <2>1 DEF Reads, EndAt, NodeOf, End
    <2>3. task[c][EndAt(c, n)].at \in Passed
        BY <2>1 DEF Reads, Passed
    <2> QED BY <2>1, <2>2, <2>3, IsCleared
<1> QED BY <1>1, LinkInvariant, PTL
=============================================================================
