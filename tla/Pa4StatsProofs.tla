---------------------------- MODULE Pa4StatsProofs ----------------------------
(***************************************************************************)
(* Proofs about Pa4Stats, for every number of workers, every pipe capacity, *)
(* every number of iterations and whichever nodes die.  They rest on        *)
(* Pa4MutexProofs, since a step with the statistics is one without, and on  *)
(* the sums over finite sets of LedgerProofs:                               *)
(*   CountInv  a counter is the number of frames its worker must have       *)
(*             written, or read, by now: as many as the entries it and the  *)
(*             others claimed, less what is still to write, or under way;   *)
(*   WaitInv   a worker that waits heard each answer by a tick of its clock. *)
(* From them: the rows add up, the waits cover the answers, and the         *)
(* counters agree with the pipes.                                           *)
(***************************************************************************)
EXTENDS Pa4Stats, Pa4MutexProofs, LedgerProofs

-----------------------------------------------------------------------------
(* Sets of workers, and sums over them.                                     *)

(* There are finitely many workers, and each has all the others as peers. *)
LEMMA WorkerSets ==
  /\ Children \in Nat /\ Children >= 1
  /\ IsFiniteSet(Worker) /\ IsFiniteSet(Worker \X Worker)
  /\ \A p \in Worker : /\ Peers(p) \subseteq Worker /\ IsFiniteSet(Peers(p))
                       /\ Cardinality(Peers(p)) = Children - 1
  <1>1. Children \in Nat /\ Children >= 1
    BY ProcessesAssumption
  <1>2. IsFiniteSet(Worker) /\ Cardinality(Worker) = Children
    BY <1>1, FS_Interval DEF Worker
  <1>3. IsFiniteSet(Worker \X Worker)
    BY <1>2, FS_Product
  <1>4. ASSUME NEW p \in Worker
        PROVE  /\ Peers(p) \subseteq Worker /\ IsFiniteSet(Peers(p))
               /\ Cardinality(Peers(p)) = Children - 1
    BY <1>2, FS_RemoveElement DEF Peers
  <1> QED
    BY <1>1, <1>2, <1>3, <1>4

(* A sum of equal terms is a product. *)
LEMMA SumOfEqual ==
  ASSUME NEW S, IsFiniteSet(S), NEW c \in Nat, NEW f, \A x \in S : f[x] = c
  PROVE  SumFunctionOnSet(f, S) = Cardinality(S) * c
  <1> DEFINE Good == {T \in SUBSET S : SumFunctionOnSet(f, T) = Cardinality(T) * c}
  <1>1. {} \in Good
    <2>1. SumFunctionOnSet(f, {}) = 0 /\ Cardinality({}) = 0 /\ 0 * c = 0
      BY SumEmpty, FS_EmptySet
    <2> QED
      BY <2>1
  <1>2. ASSUME NEW T \in SUBSET S, T # {}, \A x \in T : T \ {x} \in Good PROVE T \in Good
    <2>1. PICK x : x \in T
      BY <1>2
    <2>2. PICK U \in SUBSET S : U = T \ {x}
      OBVIOUS
    <2>3. IsFiniteSet(U) /\ IsFiniteSet(T)
      BY FS_Subset
    <2>4. SumFunctionOnSet(f, U) = Cardinality(U) * c
      BY <1>2, <2>1, <2>2
    <2>5. x \notin U /\ T = U \cup {x} /\ f[x] = c /\ \A y \in U \cup {x} : f[y] \in Int
      BY <2>1, <2>2
    <2>6. SumFunctionOnSet(f, T) = c + SumFunctionOnSet(f, U)
      BY <2>3, <2>5, SumInsert
    <2>7. Cardinality(T) = Cardinality(U) + 1 /\ Cardinality(U) \in Nat
      BY <2>3, <2>5, FS_AddElement, FS_CardinalityType
    <2>8. PICK n \in Nat : n = Cardinality(U)
      BY <2>7
    <2>9. c + n * c = (n + 1) * c
      OBVIOUS
    <2>10. SumFunctionOnSet(f, T) = Cardinality(T) * c
      BY <2>4, <2>6, <2>7, <2>8, <2>9
    <2> QED
      BY <2>10
  <1>3. Good = SUBSET S
    <2>1. Good \in SUBSET (SUBSET S)
      OBVIOUS
    <2> HIDE DEF Good
    <2> QED
      BY <1>1, <1>2, <2>1, SubsetInduction
  <1> QED
    BY <1>3

(* One worker's entries. *)
LEMMA EntriesOfOne ==
  ASSUME NEW p \in Worker
  PROVE  /\ Entries({p}) = (IF MutexEnabled THEN Iterations[p] ELSE 0)
         /\ Entries({p}) \in Nat
  <1> DEFINE f == [w \in Worker |-> IF MutexEnabled THEN Iterations[w] ELSE 0]
  <1>1. f[p] \in Nat /\ f[p] = IF MutexEnabled THEN Iterations[p] ELSE 0
    BY Pa4Assumption
  <1>2. SumFunctionOnSet(f, {} \cup {p}) = f[p] + SumFunctionOnSet(f, {})
    <2>1. \A y \in {} \cup {p} : f[y] \in Int
      BY <1>1
    <2> HIDE DEF f
    <2> QED
      BY <2>1, FS_EmptySet, SumInsert
  <1>3. Entries({p}) = SumFunctionOnSet(f, {} \cup {p}) /\ SumFunctionOnSet(f, {}) = 0
    <2>1. {} \cup {p} = {p}
      OBVIOUS
    <2> QED
      BY <2>1, SumEmpty DEF Entries
  <1> HIDE DEF f
  <1> QED
    BY <1>1, <1>2, <1>3

-----------------------------------------------------------------------------
(* The frames of one type in a pipe.                                        *)

Count(s, type) == Cardinality({i \in DOMAIN s : s[i].type = type})

LEMMA CountType ==
  ASSUME NEW s \in Seq(Frame), NEW t
  PROVE  /\ IsFiniteSet({i \in DOMAIN s : s[i].type = t})
         /\ Count(s, t) \in Nat
  <1>1. DOMAIN s = 1..Len(s) /\ Len(s) \in Nat
    OBVIOUS
  <1>2. IsFiniteSet(DOMAIN s)
    BY <1>1, FS_Interval
  <1>3. {i \in DOMAIN s : s[i].type = t} \in SUBSET (DOMAIN s)
    OBVIOUS
  <1>4. IsFiniteSet({i \in DOMAIN s : s[i].type = t})
    BY <1>2, <1>3, FS_Subset
  <1> QED
    BY <1>4, FS_CardinalityType DEF Count

LEMMA CountEmpty == \A t : Count(<<>>, t) = 0
  <1>1. ASSUME NEW t PROVE {i \in DOMAIN <<>> : <<>>[i].type = t} = {}
    OBVIOUS
  <1> QED
    BY <1>1, FS_EmptySet DEF Count

(* A frame more, and a frame less. *)
LEMMA CountAppend ==
  ASSUME NEW s \in Seq(Frame), NEW m \in Frame, NEW t
  PROVE  Count(Append(s, m), t) = Count(s, t) + (IF m.type = t THEN 1 ELSE 0)
  <1> DEFINE S == {i \in DOMAIN s : s[i].type = t}
             v == Append(s, m)
             V == {i \in DOMAIN v : v[i].type = t}
  <1>1. /\ DOMAIN s \subseteq DOMAIN v /\ Len(s) + 1 \in DOMAIN v /\ v[Len(s) + 1] = m
        /\ \A i \in DOMAIN s : i # Len(s) + 1 /\ v[i] = s[i]
        /\ \A i \in DOMAIN v : i \in DOMAIN s \/ i = Len(s) + 1
    BY AppendToPipe
  <1>2. V = IF m.type = t THEN S \cup {Len(s) + 1} ELSE S
    <2> HIDE DEF v
    <2> QED
      BY <1>1
  <1>3. Len(s) + 1 \notin S
    BY <1>1
  <1>4. IsFiniteSet(S) /\ Cardinality(S) \in Nat
    BY CountType DEF Count
  <1>5. Count(v, t) = Cardinality(V) /\ Count(s, t) = Cardinality(S)
    BY DEF Count
  <1>6. Cardinality(S \cup {Len(s) + 1}) = Cardinality(S) + 1
    <2> HIDE DEF S
    <2> QED
      BY <1>3, <1>4, FS_AddElement
  <1> HIDE DEF S, V, v
  <1>7. Cardinality(V) = Cardinality(S) + (IF m.type = t THEN 1 ELSE 0)
    BY <1>2, <1>4, <1>6
  <1>8. Append(s, m) = v
    BY DEF v
  <1> QED
    BY <1>5, <1>7, <1>8

LEMMA CountTail ==
  ASSUME NEW s \in Seq(Frame), s # <<>>, NEW t
  PROVE  Count(s, t) = Count(Tail(s), t) + (IF Head(s).type = t THEN 1 ELSE 0)
  <1> DEFINE S == {i \in DOMAIN s : s[i].type = t}
             v == Tail(s)
             V == {i \in DOMAIN v : v[i].type = t}
             next == [i \in V |-> i + 1]
  <1>1. /\ 1 \in DOMAIN s /\ Head(s) = s[1] /\ v \in Seq(Frame)
        /\ \A i \in DOMAIN v : i \in Int /\ i + 1 \in DOMAIN s /\ v[i] = s[i + 1]
        /\ \A i \in DOMAIN s : i \in Int /\ (i # 1 => i - 1 \in DOMAIN v)
    BY TailOfPipe
  <1>2. \A i \in DOMAIN v : i # 0
    OBVIOUS
  <1> HIDE DEF v
  <1>3. next \in Bijection(V, S \ {1})
    <2>1. next \in [V -> S \ {1}]
      BY <1>1, <1>2
    <2>2. \A i, j \in V : next[i] = next[j] => i = j
      BY <1>1
    <2>3. \A j \in S \ {1} : \E i \in V : next[i] = j
      <3> SUFFICES ASSUME NEW j \in S \ {1} PROVE \E i \in V : next[i] = j
        OBVIOUS
      <3>1. j \in Int /\ j - 1 \in DOMAIN v /\ (j - 1) + 1 = j
        BY <1>1
      <3>2. PICK k \in DOMAIN v : k = j - 1 /\ k \in Int
        BY <1>1, <3>1
      <3>3. k + 1 = j /\ v[k] = s[j]
        BY <1>1, <3>1, <3>2
      <3>4. k \in V
        BY <3>3
      <3> QED
        BY <3>3, <3>4
    <2> HIDE DEF next, V, S
    <2> QED
      BY <2>1, <2>2, <2>3 DEF Bijection, Injection, Surjection, IsInjective
  <1>4. IsFiniteSet(S) /\ Cardinality(S) \in Nat
    BY CountType DEF Count
  <1>5. IsFiniteSet(V)
    BY <1>1, CountType
  <1> HIDE DEF next
  <1>6. Cardinality(S \ {1}) = Cardinality(V)
    <2> HIDE DEF S, V
    <2> QED
      BY <1>3, <1>5, FS_Bijection DEF ExistsBijection
  <1>7. Cardinality(S \ {1}) = IF 1 \in S THEN Cardinality(S) - 1 ELSE Cardinality(S)
    <2> HIDE DEF S
    <2> QED
      BY <1>4, FS_RemoveElement
  <1>8. 1 \in S <=> Head(s).type = t
    BY <1>1
  <1>9. Count(Tail(s), t) = Cardinality(V) /\ Count(s, t) = Cardinality(S)
    BY DEF Count, v
  <1> HIDE DEF S, V
  <1> QED
    BY <1>4, <1>6, <1>7, <1>8, <1>9

-----------------------------------------------------------------------------
(* What the counters of two workers about each other must be.               *)

Bit(b) == IF b THEN 1 ELSE 0

(* The claims a worker has made so far, and the frames of a type that have  *)
(* been addressed to q by p: a request per claim, a release per claim that  *)
(* is over, an answer to every request of q but the one under way.          *)
Claimed(p) == IF MutexEnabled THEN iteration[p] ELSE 0
Issued(p, q, t) ==
  CASE t = "CS_REQUEST" -> Claimed(p)
    [] t = "CS_RELEASE" -> Claimed(p) - Bit(Claims(p))
    [] t = "CS_REPLY"   -> Claimed(q) - Bit(UnderWay(q, p, "CS_REQUEST"))

(* Of those the ones p has written to q, and the ones p has read from q. *)
Written(p, q, t) == Issued(p, q, t) - Bit(Sending(p, q, t))
Heard(p, q, t) == Issued(q, p, t) - Bit(UnderWay(q, p, t))

LEMMA IssuedType ==
  ASSUME TypeOK, NEW p \in Worker, NEW q \in Worker, NEW t \in CsType
  PROVE  /\ Claimed(p) \in Nat /\ Issued(p, q, t) \in Int
         /\ Written(p, q, t) \in Int /\ Heard(p, q, t) \in Int
  <1>1. Claimed(p) \in Nat /\ Claimed(q) \in Nat
    BY NodeFacts DEF TypeOK, Claimed
  <1>2. \A b : Bit(b) \in Int
    BY DEF Bit
  <1>3. Issued(p, q, t) \in Int /\ Issued(q, p, t) \in Int
    <2> PICK a, b : a = Bit(Claims(p)) /\ b = Bit(Claims(q))
      OBVIOUS
    <2> PICK c, d : c = Bit(UnderWay(p, q, "CS_REQUEST")) /\ d = Bit(UnderWay(q, p, "CS_REQUEST"))
      OBVIOUS
    <2>1. a \in Int /\ b \in Int /\ c \in Int /\ d \in Int
      BY <1>2
    <2> QED
      BY <1>1, <2>1 DEF Issued, CsType
  <1> QED
    BY <1>1, <1>2, <1>3 DEF Written, Heard

(* What p and q know of each other does not change. *)
SameCounts(p, q) ==
  \A t \in CsType : Written(p, q, t)' = Written(p, q, t) /\ Heard(p, q, t)' = Heard(p, q, t)

SameClaims(p) == Claimed(p)' = Claimed(p) /\ (Claims(p)' <=> Claims(p))
SameUnderWay(p, q) == \A t \in CsType : UnderWay(p, q, t)' <=> UnderWay(p, q, t)

LEMMA SameIssued ==
  ASSUME NEW p, NEW q, SameClaims(p), SameClaims(q), SameUnderWay(q, p)
  PROVE  \A t \in CsType : Issued(p, q, t)' = Issued(p, q, t)
  <1>1. /\ Claimed(p)' = Claimed(p) /\ Claimed(q)' = Claimed(q)
        /\ Bit(Claims(p))' = Bit(Claims(p))
        /\ Bit(UnderWay(q, p, "CS_REQUEST"))' = Bit(UnderWay(q, p, "CS_REQUEST"))
    BY DEF SameClaims, SameUnderWay, CsType, Bit
  <1> QED
    BY <1>1 DEF Issued, CsType

LEMMA CountsKept ==
  ASSUME NEW p, NEW q, SameClaims(p), SameClaims(q), SameUnderWay(p, q), SameUnderWay(q, p),
         \A t \in CsType : SameSending(p, q, t)
  PROVE  SameCounts(p, q)
  <1> SUFFICES ASSUME NEW t \in CsType
               PROVE  Written(p, q, t)' = Written(p, q, t) /\ Heard(p, q, t)' = Heard(p, q, t)
    BY DEF SameCounts
  <1>1. Issued(p, q, t)' = Issued(p, q, t) /\ Issued(q, p, t)' = Issued(q, p, t)
    BY SameIssued
  <1>2. /\ Bit(Sending(p, q, t))' = Bit(Sending(p, q, t))
        /\ Bit(UnderWay(q, p, t))' = Bit(UnderWay(q, p, t))
    BY DEF SameSending, SameUnderWay, Bit
  <1> QED
    BY <1>1, <1>2 DEF Written, Heard

(* Only the pipes, the outboxes, the tables and the iterations matter. *)
LEMMA QuietCounts ==
  ASSUME UNCHANGED <<channel, outbox, cs, iteration>>
  PROVE  \A p, q : SameCounts(p, q)
  <1> SUFFICES ASSUME NEW p, NEW q PROVE SameCounts(p, q)
    OBVIOUS
  <1>1. \A t : SameSending(p, q, t)
    BY DEF SameSending, Sending
  <1>2. SameUnderWay(p, q) /\ SameUnderWay(q, p)
    BY DEF SameUnderWay, UnderWay, Sending, InPipe
  <1>3. SameClaims(p) /\ SameClaims(q)
    BY DEF SameClaims, Claimed, Claims, cs
  <1> QED
    BY <1>1, <1>2, <1>3, CountsKept

LEMMA PrintCounts ==
  ASSUME NEW n, PrintOnly(n)
  PROVE  \A p, q : SameCounts(p, q)
  <1> SUFFICES ASSUME NEW p, NEW q PROVE SameCounts(p, q)
    OBVIOUS
  <1>1. \A t : SameSending(p, q, t)
    BY DEF PrintOnly, SameSending, Sending
  <1>2. SameUnderWay(p, q) /\ SameUnderWay(q, p)
    BY DEF PrintOnly, SameUnderWay, UnderWay, Sending, InPipe
  <1>3. SameClaims(p) /\ SameClaims(q)
    BY DEF PrintOnly, SameClaims, Claimed, Claims, cs
  <1> QED
    BY <1>1, <1>2, <1>3, CountsKept

(* STARTED and DONE are not counted. *)
LEMMA AnnounceCounts ==
  ASSUME TypeOK, NEW n \in Node, ~Writing(n), NEW type \in {"STARTED", "DONE"}, NEW targets,
         Multicast(n, type, targets), UNCHANGED <<channel, cs, iteration>>,
         NEW p \in Node, NEW q \in Node
  PROVE  SameCounts(p, q)
  <1>1. \A x, y \in Node : \A t \in CsType : Sending(x, y, t)' <=> Sending(x, y, t)
    <2>1. /\ \A y, t : ~Sending(n, y, t)
          /\ \A y, t : Sending(n, y, t)' <=> y \in targets /\ t = type
          /\ \A x \in Node \ {n} : outbox'[x] = outbox[x]
      BY MulticastFacts
    <2>2. type \notin CsType
      BY DEF CsType
    <2> QED
      BY <2>1, <2>2 DEF Sending
  <1>2. \A t \in CsType : SameSending(p, q, t)
    BY <1>1 DEF SameSending
  <1>3. SameUnderWay(p, q) /\ SameUnderWay(q, p)
    BY <1>1 DEF SameUnderWay, UnderWay, InPipe
  <1>4. SameClaims(p) /\ SameClaims(q)
    BY DEF SameClaims, Claimed, Claims, cs
  <1> QED
    BY <1>2, <1>3, <1>4, CountsKept

(* A claim is one request more at every peer, all of them under way, and the *)
(* release and the answer it needs are still to come.                        *)
LEMMA RequestCounts ==
  ASSUME MutexInv, NEW n \in Node, RequestCs(n), NEW p \in Worker, NEW q \in Worker, p # q
  PROVE  SameCounts(p, q)
  <1>1. /\ TypeOK /\ n \in Worker /\ pc[n] = "work" /\ ~Writing(n) /\ MutexEnabled
        /\ Multicast(n, "CS_REQUEST", Peers(n)) /\ UNCHANGED channel
        /\ queued' = [queued EXCEPT ![n] = @ \cup {n}]
        /\ iteration' = [iteration EXCEPT ![n] = @ + 1]
    BY NodeFacts DEF RequestCs, AtWork, MutexInv, TypeOK
  <1>2. /\ \A x, t : ~Sending(n, x, t)
        /\ \A x, t : Sending(n, x, t)' <=> x \in Peers(n) /\ t = "CS_REQUEST"
        /\ \A x \in Node \ {n} : outbox'[x] = outbox[x]
    BY <1>1, MulticastFacts
  <1>3. ~Claims(n) /\ Claims(n)'
    BY <1>1 DEF MutexInv, ClaimOk, Claims, TypeOK
  <1>4. \A x \in Worker : x # n => ~UnderWay(n, x, "CS_REQUEST")
    BY <1>1, <1>3 DEF MutexInv, PairOk, RequestOk
  <1>5. \A x, y \in Node : \A t : InPipe(x, y, t)' <=> InPipe(x, y, t)
    BY <1>1 DEF InPipe
  <1>6. /\ \A x \in Node \ {n} : \A y, t : Sending(x, y, t)' <=> Sending(x, y, t)
        /\ \A x \in Node \ {n} : \A y \in Node : SameUnderWay(x, y)
    BY <1>2, <1>5 DEF Sending, SameUnderWay, UnderWay
  <1>7. \A x \in Worker \ {n} : SameClaims(x)
    BY <1>1, NodeFacts DEF TypeOK, SameClaims, Claimed, Claims
  <1>8. Claimed(n)' = Claimed(n) + 1 /\ Claimed(n) \in Nat
    BY <1>1 DEF TypeOK, Claimed
  <1>9. \A x \in Worker \ {n} : \A t \in CsType :
          /\ UnderWay(n, x, t)' <=> UnderWay(n, x, t) \/ t = "CS_REQUEST"
          /\ Sending(n, x, t)' <=> t = "CS_REQUEST"
    BY <1>2, <1>5, NodeFacts DEF UnderWay, Peers
  <1>10. ASSUME NEW x \in Worker \ {n} PROVE SameCounts(n, x) /\ SameCounts(x, n)
    <2>1. /\ Bit(Claims(n)) = 0 /\ Bit(Claims(n))' = 1
          /\ Bit(UnderWay(n, x, "CS_REQUEST")) = 0 /\ Bit(UnderWay(n, x, "CS_REQUEST"))' = 1
      BY <1>3, <1>4, <1>9 DEF Bit, CsType
    <2>2. /\ Issued(n, x, "CS_REQUEST")' = Issued(n, x, "CS_REQUEST") + 1
          /\ Issued(n, x, "CS_RELEASE")' = Issued(n, x, "CS_RELEASE")
          /\ Issued(x, n, "CS_REPLY")' = Issued(x, n, "CS_REPLY")
      BY <1>8, <2>1 DEF Issued
    <2>3. SameClaims(x) /\ SameUnderWay(x, n) /\ x \in Node /\ n \in Node
      BY <1>6, <1>7, NodeFacts
    <2>4. /\ Issued(x, n, "CS_REQUEST")' = Issued(x, n, "CS_REQUEST")
          /\ Issued(x, n, "CS_RELEASE")' = Issued(x, n, "CS_RELEASE")
          /\ Issued(n, x, "CS_REPLY")' = Issued(n, x, "CS_REPLY")
      <3>1. /\ Bit(Claims(x))' = Bit(Claims(x)) /\ Claimed(x)' = Claimed(x)
            /\ Bit(UnderWay(x, n, "CS_REQUEST"))' = Bit(UnderWay(x, n, "CS_REQUEST"))
        BY <2>3 DEF SameClaims, SameUnderWay, CsType, Bit
      <3> QED
        BY <3>1 DEF Issued
    <2>5. \A t \in CsType :
            /\ Bit(Sending(n, x, t)) = 0
            /\ Bit(Sending(n, x, t))' = IF t = "CS_REQUEST" THEN 1 ELSE 0
            /\ Bit(UnderWay(n, x, t))' = IF t = "CS_REQUEST" THEN 1 ELSE Bit(UnderWay(n, x, t))
            /\ Bit(UnderWay(n, x, t)) \in {0, 1}
      BY <1>2, <1>9 DEF Bit
    <2>6. \A t \in CsType : /\ Bit(Sending(x, n, t))' = Bit(Sending(x, n, t))
                            /\ Bit(UnderWay(x, n, t))' = Bit(UnderWay(x, n, t))
      BY <1>6, <2>3 DEF Bit, SameUnderWay
    <2>7. \A t \in CsType : Issued(n, x, t) \in Int /\ Issued(x, n, t) \in Int
      BY <1>1, IssuedType
    <2>8. \A t \in CsType : /\ Written(x, n, t)' = Written(x, n, t)
                            /\ Heard(n, x, t)' = Heard(n, x, t)
      BY <2>2, <2>4, <2>6 DEF Written, Heard, CsType
    <2>9. ASSUME NEW t \in CsType
          PROVE  Written(n, x, t)' = Written(n, x, t) /\ Heard(x, n, t)' = Heard(x, n, t)
      <3>1. CASE t = "CS_REQUEST"
        BY <2>1, <2>2, <2>5, <2>7, <3>1 DEF Written, Heard, CsType
      <3>2. CASE t # "CS_REQUEST"
        <4>1. Issued(n, x, t)' = Issued(n, x, t)
          BY <2>2, <2>4, <3>2 DEF CsType
        <4> QED
          BY <2>5, <3>2, <4>1 DEF Written, Heard
      <3> QED
        BY <3>1, <3>2
    <2> QED
      BY <2>8, <2>9 DEF SameCounts
  <1>11. CASE p # n /\ q # n
    BY <1>6, <1>7, <1>11, NodeFacts, CountsKept DEF SameSending
  <1> QED
    BY <1>10, <1>11

(* Whoever releases has been answered by everybody, so nothing but an answer *)
(* is under way, and one release more is.                                    *)
LEMMA ReleaseCounts ==
  ASSUME MutexInv, NEW n \in Node, ReleaseCs(n), NEW p \in Worker, NEW q \in Worker, p # q
  PROVE  SameCounts(p, q)
  <1>1. /\ TypeOK /\ n \in Worker /\ pc[n] = "inside" /\ ~Writing(n)
        /\ Multicast(n, "CS_RELEASE", Peers(n)) /\ UNCHANGED <<channel, iteration>>
        /\ queued' = [queued EXCEPT ![n] = @ \ {n}]
    BY NodeFacts DEF ReleaseCs, MutexInv, TypeOK, ClaimOk
  <1>2. /\ \A x, t : ~Sending(n, x, t)
        /\ \A x, t : Sending(n, x, t)' <=> x \in Peers(n) /\ t = "CS_RELEASE"
        /\ \A x \in Node \ {n} : outbox'[x] = outbox[x]
    BY <1>1, MulticastFacts
  <1>3. Claims(n) /\ ~Claims(n)'
    BY <1>1 DEF MutexInv, ClaimOk, Requesting, Claims, TypeOK
  <1>4. \A x \in Worker \ {n} :
          ~UnderWay(n, x, "CS_REQUEST") /\ ~UnderWay(n, x, "CS_RELEASE")
    BY <1>1, NodeFacts, ClaimFacts, WayType
  <1>5. \A x, y \in Node : \A t : InPipe(x, y, t)' <=> InPipe(x, y, t)
    BY <1>1 DEF InPipe
  <1>6. /\ \A x \in Node \ {n} : \A y, t : Sending(x, y, t)' <=> Sending(x, y, t)
        /\ \A x \in Node \ {n} : \A y \in Node : SameUnderWay(x, y)
    BY <1>2, <1>5 DEF Sending, SameUnderWay, UnderWay
  <1>7. \A x \in Worker \ {n} : SameClaims(x)
    BY <1>1, NodeFacts DEF TypeOK, SameClaims, Claimed, Claims
  <1>8. Claimed(n)' = Claimed(n) /\ Claimed(n) \in Nat
    BY <1>1 DEF TypeOK, Claimed
  <1>9. \A x \in Worker \ {n} : \A t \in CsType :
          /\ UnderWay(n, x, t)' <=> UnderWay(n, x, t) \/ t = "CS_RELEASE"
          /\ Sending(n, x, t)' <=> t = "CS_RELEASE"
    BY <1>2, <1>5, NodeFacts DEF UnderWay, Peers
  <1>10. ASSUME NEW x \in Worker \ {n} PROVE SameCounts(n, x) /\ SameCounts(x, n)
    <2>1. /\ Bit(Claims(n)) = 1 /\ Bit(Claims(n))' = 0
          /\ Bit(UnderWay(n, x, "CS_REQUEST")) = 0 /\ Bit(UnderWay(n, x, "CS_REQUEST"))' = 0
          /\ Bit(UnderWay(n, x, "CS_RELEASE")) = 0 /\ Bit(UnderWay(n, x, "CS_RELEASE"))' = 1
      BY <1>3, <1>4, <1>9 DEF Bit, CsType
    <2>2. /\ Issued(n, x, "CS_REQUEST")' = Issued(n, x, "CS_REQUEST")
          /\ Issued(n, x, "CS_RELEASE")' = Issued(n, x, "CS_RELEASE") + 1
          /\ Issued(x, n, "CS_REPLY")' = Issued(x, n, "CS_REPLY")
      BY <1>8, <2>1 DEF Issued
    <2>3. SameClaims(x) /\ SameUnderWay(x, n) /\ x \in Node /\ n \in Node
      BY <1>6, <1>7, NodeFacts
    <2>4. /\ Issued(x, n, "CS_REQUEST")' = Issued(x, n, "CS_REQUEST")
          /\ Issued(x, n, "CS_RELEASE")' = Issued(x, n, "CS_RELEASE")
          /\ Issued(n, x, "CS_REPLY")' = Issued(n, x, "CS_REPLY")
      <3>1. /\ Bit(Claims(x))' = Bit(Claims(x)) /\ Claimed(x)' = Claimed(x)
            /\ Bit(UnderWay(x, n, "CS_REQUEST"))' = Bit(UnderWay(x, n, "CS_REQUEST"))
        BY <2>3 DEF SameClaims, SameUnderWay, CsType, Bit
      <3> QED
        BY <3>1 DEF Issued
    <2>5. \A t \in CsType :
            /\ Bit(Sending(n, x, t)) = 0
            /\ Bit(Sending(n, x, t))' = IF t = "CS_RELEASE" THEN 1 ELSE 0
            /\ Bit(UnderWay(n, x, t))' = IF t = "CS_RELEASE" THEN 1 ELSE Bit(UnderWay(n, x, t))
            /\ Bit(UnderWay(n, x, t)) \in {0, 1}
      BY <1>2, <1>9 DEF Bit
    <2>6. \A t \in CsType : /\ Bit(Sending(x, n, t))' = Bit(Sending(x, n, t))
                            /\ Bit(UnderWay(x, n, t))' = Bit(UnderWay(x, n, t))
      BY <1>6, <2>3 DEF Bit, SameUnderWay
    <2>7. \A t \in CsType : Issued(n, x, t) \in Int /\ Issued(x, n, t) \in Int
      BY <1>1, IssuedType
    <2>8. \A t \in CsType : /\ Written(x, n, t)' = Written(x, n, t)
                            /\ Heard(n, x, t)' = Heard(n, x, t)
      BY <2>2, <2>4, <2>6 DEF Written, Heard, CsType
    <2>9. ASSUME NEW t \in CsType
          PROVE  Written(n, x, t)' = Written(n, x, t) /\ Heard(x, n, t)' = Heard(x, n, t)
      <3>1. CASE t = "CS_RELEASE"
        BY <2>1, <2>2, <2>5, <2>7, <3>1 DEF Written, Heard, CsType
      <3>2. CASE t # "CS_RELEASE"
        <4>1. Issued(n, x, t)' = Issued(n, x, t)
          BY <2>2, <2>4, <3>2 DEF CsType
        <4> QED
          BY <2>5, <3>2, <4>1 DEF Written, Heard
      <3> QED
        BY <3>1, <3>2
    <2> QED
      BY <2>8, <2>9 DEF SameCounts
  <1>11. CASE p # n /\ q # n
    BY <1>6, <1>7, <1>11, NodeFacts, CountsKept DEF SameSending
  <1> QED
    BY <1>10, <1>11

-----------------------------------------------------------------------------
(* A frame written. *)

WaysAgree == \A x, y \in Node : \A t : Has(Way(x, y), t) <=> UnderWay(x, y, t)

LEMMA WaysAgreeNow == TypeOK => WaysAgree
  BY WayType DEF WaysAgree

LEMMA WaysAgreeNext == TypeOK' => WaysAgree'
  BY WaysAgreeNow, PTL

(* Ways that do not change leave what is under way alone. *)
LEMMA WayUnderWay ==
  ASSUME TypeOK, TypeOK', NEW x \in Node, NEW y \in Node
  PROVE  /\ \A t : Has(Way(x, y), t) <=> UnderWay(x, y, t)
         /\ \A t : Has(Way(x, y)', t) <=> UnderWay(x, y, t)'
         /\ Way(x, y)' = Way(x, y) => SameUnderWay(x, y)
  <1>1. \A t : Has(Way(x, y), t) <=> UnderWay(x, y, t)
    BY WaysAgreeNow DEF WaysAgree
  <1>2. \A t : Has(Way(x, y)', t) <=> UnderWay(x, y, t)'
    BY WaysAgreeNext DEF WaysAgree
  <1> QED
    BY <1>1, <1>2 DEF SameUnderWay

(* What is under way does not change by the write, so one frame more is     *)
(* written, and nothing more is read.                                       *)
OneWritten(n, m, type, p, q) ==
  \A t \in CsType :
    /\ Written(p, q, t)' = Written(p, q, t) + (IF p = n /\ q = m /\ t = type THEN 1 ELSE 0)
    /\ Heard(p, q, t)' = Heard(p, q, t)

LEMMA WriteCounts ==
  ASSUME TypeOK, TypeOK', NEW n \in Node, NEW m \in Node, WriteFrame(n, m),
         NEW type, type = outbox[n].type,
         NEW p \in Worker, NEW q \in Worker, p # q
  PROVE  OneWritten(n, m, type, p, q)
  <1>1. p \in Node /\ q \in Node
    BY NodeFacts
  <1>2. SameUnderWay(p, q) /\ SameUnderWay(q, p)
    <2>1. SameWays
      BY WritesStay
    <2> QED
      BY <1>1, <2>1, WayUnderWay DEF SameWays
  <1>3. /\ Sending(n, m, type)
        /\ \A x, t : Sending(n, x, t)' <=> Sending(n, x, t) /\ x # m
        /\ \A x \in Node \ {n} : outbox'[x] = outbox[x]
        /\ UNCHANGED <<cs, iteration>>
    BY WriteFacts DEF WriteFrame
  <1>4. SameClaims(p) /\ SameClaims(q)
    BY <1>3 DEF SameClaims, Claimed, Claims, cs
  <1>5. ASSUME NEW t \in CsType
        PROVE  /\ Written(p, q, t)' = Written(p, q, t) + (IF p = n /\ q = m /\ t = type THEN 1 ELSE 0)
               /\ Heard(p, q, t)' = Heard(p, q, t)
    <2>1. Issued(p, q, t)' = Issued(p, q, t) /\ Issued(q, p, t)' = Issued(q, p, t)
      BY <1>2, <1>4, SameIssued
    <2>2. Bit(UnderWay(q, p, t))' = Bit(UnderWay(q, p, t))
      BY <1>2 DEF SameUnderWay, Bit
    <2>3. Bit(Sending(p, q, t))' = Bit(Sending(p, q, t)) - (IF p = n /\ q = m /\ t = type THEN 1 ELSE 0)
      <3>1. CASE p = n /\ q = m /\ t = type
        BY <1>3, <3>1 DEF Bit
      <3>2. CASE ~(p = n /\ q = m /\ t = type)
        <4>1. Sending(p, q, t)' <=> Sending(p, q, t)
          <5>1. CASE p # n
            BY <1>1, <1>3, <5>1 DEF Sending
          <5>2. CASE p = n /\ q # m
            BY <1>3, <5>2
          <5>3. CASE p = n /\ q = m /\ t # type
            BY <1>3, <5>3 DEF Sending
          <5> QED
            BY <3>2, <5>1, <5>2, <5>3
        <4>2. Bit(Sending(p, q, t))' = Bit(Sending(p, q, t)) /\ Bit(Sending(p, q, t)) \in Int
          BY <4>1 DEF Bit
        <4> QED
          BY <3>2, <4>2
      <3> QED
        BY <3>1, <3>2
    <2>4. Issued(p, q, t) \in Int /\ Bit(Sending(p, q, t)) \in Int
      BY IssuedType DEF Bit
    <2> QED
      BY <2>1, <2>2, <2>3, <2>4 DEF Written, Heard
  <1> QED
    BY <1>5 DEF OneWritten

-----------------------------------------------------------------------------
(* A frame read. *)

OneHeard(n, m, type, p, q) ==
  \A t \in CsType :
    /\ Written(p, q, t)' = Written(p, q, t)
    /\ Heard(p, q, t)' = Heard(p, q, t) + (IF p = n /\ q = m /\ t = type THEN 1 ELSE 0)

(* The first frame of a way is read: it was under way once, and is no more. *)
ReadFrom(n, m, type) ==
  /\ m \in Worker /\ UnderWay(m, n, type)
  /\ \A t \in CsType : UnderWay(m, n, t)' <=> UnderWay(m, n, t) /\ t # type

(* The same in terms of the ways. *)
LEMMA ReadUnderWay ==
  ASSUME TypeOK, TypeOK', WaysInv, NEW n \in Node, NEW m \in Worker, n # m, NEW type,
         Way(m, n) # <<>>, Head(Way(m, n)).type = type, Way(m, n)' = Tail(Way(m, n))
  PROVE  ReadFrom(n, m, type)
  <1>1. m \in Node
    BY NodeFacts
  <1> PICK w : w = Way(m, n)
    OBVIOUS
  <1>2. w \in Seq(Frame) /\ InOrder(w) /\ w # <<>> /\ Head(w).type = type
    BY <1>1, WayType DEF WaysInv, WayOk, OnWay
  <1>3. Has(w, type) /\ \A t : Has(Tail(w), t) <=> Has(w, t) /\ t # type
    BY <1>2, FirstOffWay
  <1>4. /\ \A t : Has(w, t) <=> UnderWay(m, n, t)
        /\ \A t : Has(Tail(w), t) <=> UnderWay(m, n, t)'
    BY <1>1, WayUnderWay
  <1> QED
    BY <1>3, <1>4 DEF ReadFrom

(* An answer or a release is read, and nothing is sent. *)
LEMMA ReadCounts ==
  ASSUME MutexInv, TypeOK', WaysInv, NEW n \in Node, NEW m \in Node \ {n},
         NEW type, type \in {"STARTED", "DONE", "CS_REPLY", "CS_RELEASE"},
         Takes(n, m, type), Ticks(n, Head(channel[m][n]).time),
         UNCHANGED <<outbox, iteration>>, NEW p \in Worker, NEW q \in Worker, p # q,
         SameClaims(p), SameClaims(q)
  PROVE  OneHeard(n, m, type, p, q)
  <1>1. TypeOK /\ Routes /\ Stamped /\ p \in Node /\ q \in Node
    BY NodeFacts DEF MutexInv, WaysInv
  <1>2. /\ m \in Worker /\ Way(m, n) # <<>> /\ Head(Way(m, n)).type = type
        /\ Way(m, n)' = Tail(Way(m, n))
        /\ \A a, b \in Node : ~(a = m /\ b = n) => Way(a, b)' = Way(a, b)
    BY <1>1, ReadWays
  <1>3. ReadFrom(n, m, type)
    BY <1>1, <1>2, ReadUnderWay
  <1>4. \A x, y \in Node : ~(x = m /\ y = n) => SameUnderWay(x, y)
    BY <1>1, <1>2, WayUnderWay
  <1>5. \A x, y \in Node : UnderWay(x, y, "CS_REQUEST")' <=> UnderWay(x, y, "CS_REQUEST")
    BY <1>3, <1>4 DEF ReadFrom, SameUnderWay, CsType
  <1>6. \A t \in CsType : Issued(p, q, t)' = Issued(p, q, t) /\ Issued(q, p, t)' = Issued(q, p, t)
    <2>1. /\ Bit(UnderWay(q, p, "CS_REQUEST"))' = Bit(UnderWay(q, p, "CS_REQUEST"))
          /\ Bit(UnderWay(p, q, "CS_REQUEST"))' = Bit(UnderWay(p, q, "CS_REQUEST"))
          /\ Bit(Claims(p))' = Bit(Claims(p)) /\ Bit(Claims(q))' = Bit(Claims(q))
          /\ Claimed(p)' = Claimed(p) /\ Claimed(q)' = Claimed(q)
      BY <1>1, <1>5 DEF SameClaims, Bit
    <2> QED
      BY <2>1 DEF Issued, CsType
  <1>7. ASSUME NEW t \in CsType
        PROVE  /\ Written(p, q, t)' = Written(p, q, t)
               /\ Heard(p, q, t)' = Heard(p, q, t) + (IF p = n /\ q = m /\ t = type THEN 1 ELSE 0)
    <2>1. Bit(Sending(p, q, t))' = Bit(Sending(p, q, t))
      BY DEF Sending
    <2>2. Bit(UnderWay(q, p, t))' = Bit(UnderWay(q, p, t)) - (IF p = n /\ q = m /\ t = type THEN 1 ELSE 0)
      <3>1. CASE p = n /\ q = m
        BY <1>3, <3>1 DEF ReadFrom, Bit
      <3>2. CASE ~(p = n /\ q = m)
        <4>1. UnderWay(q, p, t)' <=> UnderWay(q, p, t)
          BY <1>1, <1>4, <3>2 DEF SameUnderWay
        <4> QED
          BY <3>2, <4>1 DEF Bit
      <3> QED
        BY <3>1, <3>2
    <2>3. Issued(q, p, t) \in Int /\ Bit(UnderWay(q, p, t)) \in Int
      BY <1>1, IssuedType DEF Bit
    <2> QED
      BY <1>6, <2>1, <2>2, <2>3 DEF Written, Heard
  <1> QED
    BY <1>7 DEF OneHeard

(* A request is read, and its answer is under way instead. *)
LEMMA AnswerCounts ==
  ASSUME MutexInv, TypeOK', WaysInv, NEW n \in Node, NEW m \in Node \ {n},
         ReceiveRequest(n, m), NEW p \in Worker, NEW q \in Worker, p # q
  PROVE  n \in Worker /\ m \in Worker /\ OneHeard(n, m, "CS_REQUEST", p, q)
  <1>1. /\ TypeOK /\ n \in Worker /\ m \in Worker /\ p \in Node /\ q \in Node
        /\ ~Writing(n) /\ (\A x, t : ~Sending(n, x, t))
        /\ outbox' = [outbox EXCEPT ![n] = [type |-> "CS_REPLY", to |-> {m}]]
        /\ queued' = [queued EXCEPT ![n] = @ \cup {m}]
        /\ UNCHANGED iteration
    <2>1. TypeOK /\ n \in Worker /\ m \in Worker
      BY AnswerWays DEF MutexInv
    <2>2. ~Writing(n) /\ (\A x, t : ~Sending(n, x, t))
      BY <2>1, TakesFacts DEF ReceiveRequest
    <2> QED
      BY <2>1, <2>2, NodeFacts DEF ReceiveRequest, ToWrite
  <1>2. PICK f \in Frame : f.type = "CS_REPLY" /\ Took(n, m, f, {m})
    BY AnswerWays
  <1>3. Way(m, n) # <<>> /\ Head(Way(m, n)).type = "CS_REQUEST" /\ Way(m, n)' = Tail(Way(m, n))
    BY <1>2, AnswerWays DEF Took
  <1>4. ReadFrom(n, m, "CS_REQUEST")
    BY <1>1, <1>3, ReadUnderWay
  <1>5. \A t : UnderWay(n, m, t)' <=> UnderWay(n, m, t) \/ t = "CS_REPLY"
    <2> PICK w : w = Way(n, m)
      OBVIOUS
    <2>1. Way(n, m)' = Append(w, f) /\ w \in Seq(Frame)
      BY <1>1, <1>2, WayType DEF Took
    <2>2. \A t : Has(Append(w, f), t) <=> Has(w, t) \/ t = "CS_REPLY"
      BY <1>2, <2>1, OneMoreOnWay
    <2>3. /\ \A t : Has(w, t) <=> UnderWay(n, m, t)
          /\ \A t : Has(Append(w, f), t) <=> UnderWay(n, m, t)'
      BY <1>1, <2>1, WayUnderWay
    <2> QED
      BY <2>2, <2>3
  <1>6. ~UnderWay(n, m, "CS_REPLY")
    <2>1. UnderWay(m, n, "CS_REQUEST")
      BY <1>4 DEF ReadFrom
    <2> QED
      BY <1>1, <2>1 DEF MutexInv, PairOk, RequestOk
  <1>7. \A x, y \in Node : ~(x = m /\ y = n) /\ ~(x = n /\ y = m) => SameUnderWay(x, y)
    <2>1. \A x, y \in Node : ~(x = m /\ y = n) /\ ~(x = n /\ y = m) => Way(x, y)' = Way(x, y)
      BY <1>2 DEF Took
    <2> QED
      BY <1>1, <2>1, WayUnderWay
  <1>8. \A x \in Worker : SameClaims(x)
    <2>1. \A x \in Node : queued'[x] = queued[x] \/ (x = n /\ queued'[x] = queued[x] \cup {m})
      <3>1. queued \in [Node -> SUBSET Worker]
        BY <1>1 DEF TypeOK
      <3>2. queued' = [queued EXCEPT ![n] = @ \cup {m}]
        BY <1>1
      <3> QED
        BY <3>1, <3>2
    <2>2. \A x \in Worker : Claims(x)' <=> Claims(x)
      BY <2>1, NodeFacts DEF Claims
    <2> QED
      BY <1>1, <2>2 DEF SameClaims, Claimed
  <1>9. \A x, y \in Node : \A t \in CsType :
          Sending(x, y, t)' <=> Sending(x, y, t) \/ (x = n /\ y = m /\ t = "CS_REPLY")
    <2>1. \A x \in Node \ {n} : outbox'[x] = outbox[x]
      BY <1>1 DEF TypeOK
    <2>2. outbox'[n] = [type |-> "CS_REPLY", to |-> {m}]
      BY <1>1 DEF TypeOK
    <2> QED
      BY <1>1, <2>1, <2>2 DEF Sending
  <1>10. CASE p = n /\ q = m
    <2>1. \A t \in CsType : Issued(q, p, t)' = Issued(q, p, t)
      <3>1. /\ Claimed(q)' = Claimed(q) /\ Claimed(p)' = Claimed(p)
            /\ Bit(Claims(q))' = Bit(Claims(q))
            /\ Bit(UnderWay(p, q, "CS_REQUEST"))' = Bit(UnderWay(p, q, "CS_REQUEST"))
        BY <1>5, <1>8, <1>10 DEF SameClaims, Bit
      <3> QED
        BY <3>1 DEF Issued, CsType
    <2>2. \A t \in CsType : Issued(p, q, t)' = Issued(p, q, t) + (IF t = "CS_REPLY" THEN 1 ELSE 0)
      <3>1. /\ Claimed(q)' = Claimed(q) /\ Claimed(p)' = Claimed(p)
            /\ Bit(Claims(p))' = Bit(Claims(p))
        BY <1>8 DEF SameClaims, Bit
      <3>2. Bit(UnderWay(q, p, "CS_REQUEST")) = 1 /\ Bit(UnderWay(q, p, "CS_REQUEST"))' = 0
        BY <1>4, <1>10 DEF ReadFrom, Bit, CsType
      <3>3. Claimed(p) \in Nat /\ Claimed(q) \in Nat /\ Bit(Claims(p)) \in Int
        BY <1>1, IssuedType DEF Bit, CsType
      <3> QED
        BY <3>1, <3>2, <3>3 DEF Issued, CsType
    <2>3. ASSUME NEW t \in CsType
          PROVE  /\ Written(p, q, t)' = Written(p, q, t)
                 /\ Heard(p, q, t)' = Heard(p, q, t) + (IF t = "CS_REQUEST" THEN 1 ELSE 0)
      <3>1. Bit(Sending(p, q, t))' = Bit(Sending(p, q, t)) + (IF t = "CS_REPLY" THEN 1 ELSE 0)
        BY <1>1, <1>9, <1>10 DEF Bit
      <3>2. Bit(UnderWay(q, p, t))' = Bit(UnderWay(q, p, t)) - (IF t = "CS_REQUEST" THEN 1 ELSE 0)
        BY <1>4, <1>10 DEF ReadFrom, Bit
      <3>3. Issued(p, q, t) \in Int /\ Issued(q, p, t) \in Int
        BY <1>1, IssuedType
      <3>4. Bit(Sending(p, q, t)) \in Int /\ Bit(UnderWay(q, p, t)) \in Int
        BY DEF Bit
      <3> QED
        BY <2>1, <2>2, <3>1, <3>2, <3>3, <3>4 DEF Written, Heard
    <2> QED
      BY <1>1, <1>10, <2>3 DEF OneHeard
  <1>11. CASE p = m /\ q = n
    <2>1. \A t \in CsType : Issued(p, q, t)' = Issued(p, q, t)
      <3>1. /\ Claimed(q)' = Claimed(q) /\ Claimed(p)' = Claimed(p)
            /\ Bit(Claims(p))' = Bit(Claims(p))
            /\ Bit(UnderWay(q, p, "CS_REQUEST"))' = Bit(UnderWay(q, p, "CS_REQUEST"))
        BY <1>5, <1>8, <1>11 DEF SameClaims, Bit
      <3> QED
        BY <3>1 DEF Issued, CsType
    <2>2. \A t \in CsType : Issued(q, p, t)' = Issued(q, p, t) + (IF t = "CS_REPLY" THEN 1 ELSE 0)
      <3>1. /\ Claimed(q)' = Claimed(q) /\ Claimed(p)' = Claimed(p)
            /\ Bit(Claims(q))' = Bit(Claims(q))
        BY <1>8 DEF SameClaims, Bit
      <3>2. Bit(UnderWay(p, q, "CS_REQUEST")) = 1 /\ Bit(UnderWay(p, q, "CS_REQUEST"))' = 0
        BY <1>4, <1>11 DEF ReadFrom, Bit, CsType
      <3>3. Claimed(p) \in Nat /\ Claimed(q) \in Nat /\ Bit(Claims(q)) \in Int
        BY <1>1, IssuedType DEF Bit, CsType
      <3> QED
        BY <3>1, <3>2, <3>3 DEF Issued, CsType
    <2>3. ASSUME NEW t \in CsType
          PROVE  Written(p, q, t)' = Written(p, q, t) /\ Heard(p, q, t)' = Heard(p, q, t)
      <3>1. Bit(Sending(p, q, t))' = Bit(Sending(p, q, t))
        BY <1>1, <1>9, <1>11 DEF Bit
      <3>2. Bit(UnderWay(q, p, t))' = Bit(UnderWay(q, p, t)) + (IF t = "CS_REPLY" THEN 1 ELSE 0)
        BY <1>5, <1>6, <1>11 DEF Bit
      <3>3. Issued(p, q, t) \in Int /\ Issued(q, p, t) \in Int
        BY <1>1, IssuedType
      <3>4. Bit(Sending(p, q, t)) \in Int /\ Bit(UnderWay(q, p, t)) \in Int
        BY DEF Bit
      <3> QED
        BY <2>1, <2>2, <3>1, <3>2, <3>3, <3>4 DEF Written, Heard
    <2>4. ASSUME NEW t \in CsType
          PROVE  /\ Written(p, q, t)' = Written(p, q, t)
                 /\ Heard(p, q, t)' = Heard(p, q, t) + 0
      BY <1>1, <2>3, IssuedType
    <2> QED
      BY <1>1, <1>11, <2>4 DEF OneHeard
  <1>12. CASE ~(p = m /\ q = n) /\ ~(p = n /\ q = m)
    <2>1. SameUnderWay(p, q) /\ SameUnderWay(q, p)
      BY <1>1, <1>7, <1>12
    <2>2. \A t \in CsType : SameSending(p, q, t)
      BY <1>1, <1>9, <1>12 DEF SameSending
    <2>3. SameCounts(p, q)
      BY <1>8, <2>1, <2>2, CountsKept
    <2>4. \A t \in CsType : Heard(p, q, t) + 0 = Heard(p, q, t)
      BY <1>1, IssuedType
    <2> QED
      BY <1>1, <1>12, <2>3, <2>4 DEF OneHeard, SameCounts
  <1> QED
    BY <1>10, <1>11, <1>12

-----------------------------------------------------------------------------
(* What the counters must be, and how a step changes them.                  *)

SentOk(p) ==
  \A t \in CsType :
    stats[p].sent[t] = SumFunctionOnSet([q \in Worker |-> Written(p, q, t)], Peers(p))

(* A worker that failed may have counted the frame it refused. *)
ReceivedOk(p) ==
  pc[p] # "failed" =>
    \A t \in CsType :
      stats[p].received[t] = SumFunctionOnSet([q \in Worker |-> Heard(p, q, t)], Peers(p))

EntriesOk(p) ==
  pc[p] \notin {"failed", "killed"} => stats[p].entries = Claimed(p) - Bit(pc[p] = "waiting")

StatsTypeOK == stats \in [Worker -> Statistics]

CountInv ==
  /\ StatsTypeOK
  /\ \A p \in Worker : SentOk(p) /\ ReceivedOk(p) /\ EntriesOk(p)

(* A counter array with one more at n and type, unless one of them has none. *)
OneMore(old, new, n, p, type) ==
  \A t \in CsType : new[t] = old[t] + (IF p = n /\ t = type THEN 1 ELSE 0)
SameWaits(old, new) ==
  /\ new.entries = old.entries /\ new.wait_ticks = old.wait_ticks
  /\ new.longest_wait = old.longest_wait

(* One more of a type sent, or received, by n; the other counters stay. *)
SentOneMore(n, type) ==
  \A p \in Worker :
    /\ OneMore(stats[p].sent, stats'[p].sent, n, p, type)
    /\ stats'[p].received = stats[p].received /\ SameWaits(stats[p], stats'[p])
ReceivedOneMore(n, type) ==
  \A p \in Worker :
    /\ OneMore(stats[p].received, stats'[p].received, n, p, type)
    /\ stats'[p].sent = stats[p].sent /\ SameWaits(stats[p], stats'[p])

LEMMA NoneMore ==
  ASSUME NEW s \in [CsType -> Nat], NEW n, NEW p, NEW type, p # n \/ type \notin CsType
  PROVE  OneMore(s, s, n, p, type)
  BY DEF OneMore

LEMMA OneMoreOf ==
  ASSUME NEW s \in [CsType -> Nat], NEW n, NEW type \in CsType
  PROVE  LET new == [s EXCEPT ![type] = @ + 1] IN
         new \in [CsType -> Nat] /\ OneMore(s, new, n, n, type)
  BY DEF OneMore

(* What stats_message and stats_entry make of the counters. *)
LEMMA CountSentFacts ==
  ASSUME StatsTypeOK, NEW n \in Node, NEW type, CountSent(n, type)
  PROVE  StatsTypeOK' /\ SentOneMore(n, type)
  <1>1. \A p \in Worker : /\ stats[p] \in Statistics
                          /\ stats[p].sent \in [CsType -> Nat]
    BY DEF StatsTypeOK, Statistics
  <1>2. CASE n \in Worker /\ type \in CsType
    <2> PICK old, new : old = stats[n] /\ new = [old.sent EXCEPT ![type] = @ + 1]
      OBVIOUS
    <2>1. new \in [CsType -> Nat] /\ OneMore(old.sent, new, n, n, type)
      BY <1>1, <1>2, OneMoreOf
    <2>2. stats' = [stats EXCEPT ![n] = [old EXCEPT !.sent = new]]
      BY <1>2 DEF CountSent
    <2>3. old \in Statistics /\ [old EXCEPT !.sent = new] \in Statistics
      BY <1>1, <1>2, <2>1 DEF Statistics
    <2>4. stats' \in [Worker -> Statistics]
      BY <1>2, <2>2, <2>3 DEF StatsTypeOK
    <2>5. ASSUME NEW p \in Worker
          PROVE  /\ OneMore(stats[p].sent, stats'[p].sent, n, p, type)
                 /\ stats'[p].received = stats[p].received /\ SameWaits(stats[p], stats'[p])
      <3>1. CASE p = n
        <4>1. stats'[p] = [old EXCEPT !.sent = new]
          BY <2>2, <3>1 DEF StatsTypeOK
        <4>2. /\ stats'[p].sent = new /\ stats'[p].received = old.received
              /\ stats'[p].entries = old.entries /\ stats'[p].wait_ticks = old.wait_ticks
              /\ stats'[p].longest_wait = old.longest_wait
          BY <2>3, <4>1 DEF Statistics
        <4> QED
          BY <2>1, <3>1, <4>2 DEF SameWaits
      <3>2. CASE p # n
        <4>1. stats'[p] = stats[p]
          BY <2>2, <3>2 DEF StatsTypeOK
        <4> QED
          BY <1>1, <3>2, <4>1, NoneMore DEF SameWaits
      <3> QED
        BY <3>1, <3>2
    <2> QED
      BY <2>4, <2>5 DEF StatsTypeOK, SentOneMore
  <1>3. CASE ~(n \in Worker /\ type \in CsType)
    <2>1. stats' = stats
      <3>1. CASE type \notin CsType
        BY <3>1 DEF CountSent
      <3>2. CASE type \in CsType /\ n \notin Worker
        <4>1. stats' = [p \in Worker |-> stats'[p]] /\ stats = [p \in Worker |-> stats[p]]
          BY <3>2 DEF CountSent, StatsTypeOK
        <4>2. \A p \in Worker : stats'[p] = stats[p]
          BY <3>2 DEF CountSent, StatsTypeOK
        <4> QED
          BY <4>1, <4>2
      <3> QED
        BY <1>3, <3>1, <3>2
    <2>2. ASSUME NEW p \in Worker
          PROVE  /\ OneMore(stats[p].sent, stats'[p].sent, n, p, type)
                 /\ stats'[p].received = stats[p].received /\ SameWaits(stats[p], stats'[p])
      <3>1. p # n \/ type \notin CsType
        BY <1>3
      <3> QED
        BY <1>1, <2>1, <3>1, NoneMore DEF SameWaits
    <2> QED
      BY <2>1, <2>2 DEF StatsTypeOK, SentOneMore
  <1> QED
    BY <1>2, <1>3

LEMMA CountReceivedFacts ==
  ASSUME StatsTypeOK, NEW n \in Node, NEW type, CountReceived(n, type)
  PROVE  StatsTypeOK' /\ ReceivedOneMore(n, type)
  <1>1. \A p \in Worker : /\ stats[p] \in Statistics
                          /\ stats[p].received \in [CsType -> Nat]
    BY DEF StatsTypeOK, Statistics
  <1>2. CASE n \in Worker /\ type \in CsType
    <2> PICK old, new : old = stats[n] /\ new = [old.received EXCEPT ![type] = @ + 1]
      OBVIOUS
    <2>1. new \in [CsType -> Nat] /\ OneMore(old.received, new, n, n, type)
      BY <1>1, <1>2, OneMoreOf
    <2>2. stats' = [stats EXCEPT ![n] = [old EXCEPT !.received = new]]
      BY <1>2 DEF CountReceived
    <2>3. old \in Statistics /\ [old EXCEPT !.received = new] \in Statistics
      BY <1>1, <1>2, <2>1 DEF Statistics
    <2>4. stats' \in [Worker -> Statistics]
      BY <1>2, <2>2, <2>3 DEF StatsTypeOK
    <2>5. ASSUME NEW p \in Worker
          PROVE  /\ OneMore(stats[p].received, stats'[p].received, n, p, type)
                 /\ stats'[p].sent = stats[p].sent /\ SameWaits(stats[p], stats'[p])
      <3>1. CASE p = n
        <4>1. stats'[p] = [old EXCEPT !.received = new]
          BY <2>2, <3>1 DEF StatsTypeOK
        <4>2. /\ stats'[p].received = new /\ stats'[p].sent = old.sent
              /\ stats'[p].entries = old.entries /\ stats'[p].wait_ticks = old.wait_ticks
              /\ stats'[p].longest_wait = old.longest_wait
          BY <2>3, <4>1 DEF Statistics
        <4> QED
          BY <2>1, <3>1, <4>2 DEF SameWaits
      <3>2. CASE p # n
        <4>1. stats'[p] = stats[p]
          BY <2>2, <3>2 DEF StatsTypeOK
        <4> QED
          BY <1>1, <3>2, <4>1, NoneMore DEF SameWaits
      <3> QED
        BY <3>1, <3>2
    <2> QED
      BY <2>4, <2>5 DEF StatsTypeOK, ReceivedOneMore
  <1>3. CASE ~(n \in Worker /\ type \in CsType)
    <2>1. stats' = stats
      <3>1. CASE type \notin CsType
        BY <3>1 DEF CountReceived
      <3>2. CASE type \in CsType /\ n \notin Worker
        <4>1. stats' = [p \in Worker |-> stats'[p]] /\ stats = [p \in Worker |-> stats[p]]
          BY <3>2 DEF CountReceived, StatsTypeOK
        <4>2. \A p \in Worker : stats'[p] = stats[p]
          BY <3>2 DEF CountReceived, StatsTypeOK
        <4> QED
          BY <4>1, <4>2
      <3> QED
        BY <1>3, <3>1, <3>2
    <2>2. ASSUME NEW p \in Worker
          PROVE  /\ OneMore(stats[p].received, stats'[p].received, n, p, type)
                 /\ stats'[p].sent = stats[p].sent /\ SameWaits(stats[p], stats'[p])
      <3>1. p # n \/ type \notin CsType
        BY <1>3
      <3> QED
        BY <1>1, <2>1, <3>1, NoneMore DEF SameWaits
    <2> QED
      BY <2>1, <2>2 DEF StatsTypeOK, ReceivedOneMore
  <1> QED
    BY <1>2, <1>3

LEMMA CountEntryFacts ==
  ASSUME TypeOK, StatsTypeOK, NEW n \in Worker, CountEntry(n),
         clock[n] >= Own(n)
  PROVE  /\ StatsTypeOK'
         /\ \A p \in Worker : stats'[p].sent = stats[p].sent /\ stats'[p].received = stats[p].received
         /\ \A p \in Worker \ {n} : stats'[p] = stats[p]
         /\ stats'[n].entries = stats[n].entries + 1
         /\ stats'[n].wait_ticks = stats[n].wait_ticks + (clock[n] - Own(n))
         /\ stats'[n].longest_wait = Max({stats[n].longest_wait, clock[n] - Own(n)})
  <1> PICK old, elapsed, longest :
        old = stats[n] /\ elapsed = clock[n] - Own(n) /\ longest = Max({old.longest_wait, elapsed})
    OBVIOUS
  <1>1. elapsed \in Nat
    <2>1. clock[n] \in Nat /\ Own(n) \in Nat
      BY PairTypes
    <2> QED
      BY <2>1
  <1>2. /\ old \in Statistics /\ old.entries \in Nat /\ old.wait_ticks \in Nat
        /\ old.longest_wait \in Nat
    BY DEF StatsTypeOK, Statistics
  <1>3. longest \in Nat
    <2> PICK l : l = old.longest_wait
      OBVIOUS
    <2>1. l \in Nat /\ l \in Int /\ elapsed \in Int
      BY <1>1, <1>2
    <2> PICK e : e = elapsed
      OBVIOUS
    <2>2. e \in Nat
      BY <1>1
    <2>3. Max({l, e}) = l \/ Max({l, e}) = e
      BY <2>1, MaxOfTwo
    <2> QED
      BY <2>1, <2>2, <2>3
  <1> PICK more, ticks : more = old.entries + 1 /\ ticks = old.wait_ticks + elapsed
    OBVIOUS
  <1> PICK new : new = [old EXCEPT !.entries = more, !.wait_ticks = ticks,
                                   !.longest_wait = longest]
    OBVIOUS
  <1>4. stats' = [stats EXCEPT ![n] = new]
    BY DEF CountEntry, Own, StatsTypeOK
  <1>5. /\ new \in Statistics /\ new.sent = old.sent /\ new.received = old.received
        /\ new.entries = more /\ new.wait_ticks = ticks
        /\ new.longest_wait = longest
    <2>1. more \in Nat /\ ticks \in Nat
      BY <1>1, <1>2
    <2> QED
      BY <1>2, <1>3, <2>1 DEF Statistics
  <1>6. /\ stats' \in [Worker -> Statistics] /\ stats'[n] = new
        /\ \A p \in Worker \ {n} : stats'[p] = stats[p]
    BY <1>4, <1>5 DEF StatsTypeOK
  <1> QED
    BY <1>5, <1>6 DEF StatsTypeOK

(* One term of a sum grows by one, or none. *)
OneTermMore(f, g, S, more) ==
  \E m : /\ more => m \in S
         /\ \A x \in S : g[x] = f[x] + (IF more /\ x = m THEN 1 ELSE 0)

LEMMA SumGrows ==
  ASSUME NEW S, IsFiniteSet(S), NEW f, NEW g, \A x \in S : f[x] \in Int,
         NEW more \in BOOLEAN, OneTermMore(f, g, S, more)
  PROVE  SumFunctionOnSet(g, S) = SumFunctionOnSet(f, S) + (IF more THEN 1 ELSE 0)
  <1> PICK m : /\ more => m \in S
               /\ \A x \in S : g[x] = f[x] + (IF more /\ x = m THEN 1 ELSE 0)
    BY DEF OneTermMore
  <1>1. CASE more
    <2>1. \A x \in S : g[x] = IF x = m THEN f[x] + 1 ELSE f[x]
      BY <1>1
    <2>2. SumFunctionOnSet(g, S) = SumFunctionOnSet(f, S) + 1
      BY <1>1, <2>1, SumChange
    <2> QED
      BY <1>1, <2>2
  <1>2. CASE ~more
    <2>1. \A x \in S : f[x] \in Int /\ f[x] = g[x]
      BY <1>2
    <2>2. SumFunctionOnSet(f, S) = SumFunctionOnSet(g, S)
      BY <2>1, SumSame
    <2>3. SumFunctionOnSet(f, S) \in Int
      BY SumType
    <2> QED
      BY <1>2, <2>2, <2>3
  <1> QED
    BY <1>1, <1>2

SameWritten(p) == \A q \in Peers(p) : \A t \in CsType : Written(p, q, t)' = Written(p, q, t)
SameHeard(p) == \A q \in Peers(p) : \A t \in CsType : Heard(p, q, t)' = Heard(p, q, t)

(* The sums over the peers, when no term changes and when one does. *)
LEMMA SentKept ==
  ASSUME TypeOK, NEW p \in Worker, SentOk(p), SameWritten(p),
         stats'[p].sent = stats[p].sent
  PROVE  SentOk(p)'
  <1> SUFFICES ASSUME NEW t \in CsType
               PROVE  stats'[p].sent[t]
                        = SumFunctionOnSet([q \in Worker |-> Written(p, q, t)'], Peers(p))
    BY DEF SentOk, Peers
  <1> PICK f, g : /\ f = [q \in Worker |-> Written(p, q, t)]
                  /\ g = [q \in Worker |-> Written(p, q, t)']
    OBVIOUS
  <1>1. \A q \in Peers(p) : f[q] \in Int /\ f[q] = g[q]
    BY IssuedType DEF SameWritten, Peers
  <1>2. SumFunctionOnSet(f, Peers(p)) = SumFunctionOnSet(g, Peers(p))
    BY <1>1, WorkerSets, SumSame
  <1> QED
    BY <1>2 DEF SentOk

LEMMA ReceivedKept ==
  ASSUME TypeOK, NEW p \in Worker, ReceivedOk(p), SameHeard(p),
         stats'[p].received = stats[p].received, pc[p] = "failed" => pc'[p] = "failed"
  PROVE  ReceivedOk(p)'
  <1> SUFFICES ASSUME pc[p] # "failed", NEW t \in CsType
               PROVE  stats'[p].received[t]
                        = SumFunctionOnSet([q \in Worker |-> Heard(p, q, t)'], Peers(p))
    BY DEF ReceivedOk, Peers
  <1> PICK f, g : /\ f = [q \in Worker |-> Heard(p, q, t)]
                  /\ g = [q \in Worker |-> Heard(p, q, t)']
    OBVIOUS
  <1>1. \A q \in Peers(p) : f[q] \in Int /\ f[q] = g[q]
    BY IssuedType DEF SameHeard, Peers
  <1>2. SumFunctionOnSet(f, Peers(p)) = SumFunctionOnSet(g, Peers(p))
    BY <1>1, WorkerSets, SumSame
  <1> QED
    BY <1>2 DEF ReceivedOk

LEMMA SentGrows ==
  ASSUME TypeOK, NEW p \in Worker, SentOk(p), NEW n, NEW m, NEW type,
         OneMore(stats[p].sent, stats'[p].sent, n, p, type),
         \A q \in Worker : q # p => OneWritten(n, m, type, p, q),
         p = n /\ type \in CsType => m \in Peers(p)
  PROVE  SentOk(p)'
  <1> SUFFICES ASSUME NEW t \in CsType
               PROVE  stats'[p].sent[t]
                        = SumFunctionOnSet([q \in Worker |-> Written(p, q, t)'], Peers(p))
    BY DEF SentOk, Peers
  <1> PICK f, g : /\ f = [q \in Worker |-> Written(p, q, t)]
                  /\ g = [q \in Worker |-> Written(p, q, t)']
    OBVIOUS
  <1> PICK more : more \in BOOLEAN /\ (more <=> p = n /\ t = type)
    OBVIOUS
  <1>1. \A q \in Peers(p) : f[q] \in Int /\ g[q] = f[q] + (IF more /\ q = m THEN 1 ELSE 0)
    <2> SUFFICES ASSUME NEW q \in Peers(p)
                 PROVE  f[q] \in Int /\ g[q] = f[q] + (IF more /\ q = m THEN 1 ELSE 0)
      OBVIOUS
    <2>1. q \in Worker /\ q # p
      BY DEF Peers
    <2>2. Written(p, q, t)' = Written(p, q, t) + (IF p = n /\ q = m /\ t = type THEN 1 ELSE 0)
      BY <2>1 DEF OneWritten
    <2>3. f[q] = Written(p, q, t) /\ g[q] = Written(p, q, t)' /\ f[q] \in Int
      BY <2>1, IssuedType
    <2> QED
      BY <2>2, <2>3
  <1>2. SumFunctionOnSet(g, Peers(p)) = SumFunctionOnSet(f, Peers(p)) + (IF more THEN 1 ELSE 0)
    <2> PICK S : S = Peers(p)
      OBVIOUS
    <2>1. IsFiniteSet(S) /\ (more => m \in S)
      BY WorkerSets
    <2>2. \A q \in S : f[q] \in Int
      BY <1>1
    <2>3. \A q \in S : g[q] = f[q] + (IF more /\ q = m THEN 1 ELSE 0)
      BY <1>1
    <2>4. OneTermMore(f, g, S, more)
      BY <2>1, <2>3 DEF OneTermMore
    <2>5. SumFunctionOnSet(g, S) = SumFunctionOnSet(f, S) + (IF more THEN 1 ELSE 0)
      BY <2>1, <2>2, <2>4, SumGrows
    <2> QED
      BY <2>5
  <1>3. stats'[p].sent[t] = stats[p].sent[t] + (IF more THEN 1 ELSE 0)
    BY DEF OneMore
  <1> QED
    BY <1>2, <1>3 DEF SentOk

LEMMA ReceivedGrows ==
  ASSUME TypeOK, NEW p \in Worker, ReceivedOk(p), NEW n, NEW m, NEW type,
         OneMore(stats[p].received, stats'[p].received, n, p, type),
         \A q \in Worker : q # p => OneHeard(n, m, type, p, q),
         p = n /\ type \in CsType => m \in Peers(p), pc[p] = "failed" => pc'[p] = "failed"
  PROVE  ReceivedOk(p)'
  <1> SUFFICES ASSUME pc[p] # "failed", NEW t \in CsType
               PROVE  stats'[p].received[t]
                        = SumFunctionOnSet([q \in Worker |-> Heard(p, q, t)'], Peers(p))
    BY DEF ReceivedOk, Peers
  <1> PICK f, g : /\ f = [q \in Worker |-> Heard(p, q, t)]
                  /\ g = [q \in Worker |-> Heard(p, q, t)']
    OBVIOUS
  <1> PICK more : more \in BOOLEAN /\ (more <=> p = n /\ t = type)
    OBVIOUS
  <1>1. \A q \in Peers(p) : f[q] \in Int /\ g[q] = f[q] + (IF more /\ q = m THEN 1 ELSE 0)
    <2> SUFFICES ASSUME NEW q \in Peers(p)
                 PROVE  f[q] \in Int /\ g[q] = f[q] + (IF more /\ q = m THEN 1 ELSE 0)
      OBVIOUS
    <2>1. q \in Worker /\ q # p
      BY DEF Peers
    <2>2. Heard(p, q, t)' = Heard(p, q, t) + (IF p = n /\ q = m /\ t = type THEN 1 ELSE 0)
      BY <2>1 DEF OneHeard
    <2>3. f[q] = Heard(p, q, t) /\ g[q] = Heard(p, q, t)' /\ f[q] \in Int
      BY <2>1, IssuedType
    <2> QED
      BY <2>2, <2>3
  <1>2. SumFunctionOnSet(g, Peers(p)) = SumFunctionOnSet(f, Peers(p)) + (IF more THEN 1 ELSE 0)
    <2> PICK S : S = Peers(p)
      OBVIOUS
    <2>1. IsFiniteSet(S) /\ (more => m \in S)
      BY WorkerSets
    <2>2. \A q \in S : f[q] \in Int
      BY <1>1
    <2>3. \A q \in S : g[q] = f[q] + (IF more /\ q = m THEN 1 ELSE 0)
      BY <1>1
    <2>4. OneTermMore(f, g, S, more)
      BY <2>1, <2>3 DEF OneTermMore
    <2>5. SumFunctionOnSet(g, S) = SumFunctionOnSet(f, S) + (IF more THEN 1 ELSE 0)
      BY <2>1, <2>2, <2>4, SumGrows
    <2> QED
      BY <2>5
  <1>3. stats'[p].received[t] = stats[p].received[t] + (IF more THEN 1 ELSE 0)
    BY DEF OneMore
  <1> QED
    BY <1>2, <1>3 DEF ReceivedOk

-----------------------------------------------------------------------------
(* Every step keeps the counters right. *)

(* A step without a frame of the mutual exclusion written or read. *)
LEMMA QuietStep ==
  ASSUME TypeOK, NEW p \in Worker, SentOk(p), ReceivedOk(p),
         \A q \in Worker : q # p => SameCounts(p, q),
         stats'[p].sent = stats[p].sent, stats'[p].received = stats[p].received,
         pc[p] = "failed" => pc'[p] = "failed"
  PROVE  SentOk(p)' /\ ReceivedOk(p)'
  <1>1. SameWritten(p) /\ SameHeard(p)
    BY DEF SameCounts, SameWritten, SameHeard, Peers
  <1> QED
    BY <1>1, SentKept, ReceivedKept

LEMMA WrittenStep ==
  ASSUME TypeOK, TypeOK', WaysInv, NEW p \in Worker, SentOk(p), ReceivedOk(p), StatsTypeOK,
         NEW n \in Node, NEW m \in Node \ {n}, CountedWrite(n, m)
  PROVE  SentOk(p)' /\ ReceivedOk(p)'
  <1> PICK type : type = outbox[n].type
    OBVIOUS
  <1>1. WriteFrame(n, m) /\ CountSent(n, type) /\ UNCHANGED pc
    BY DEF CountedWrite, WriteFrame
  <1>2. SentOneMore(n, type)
    BY <1>1, CountSentFacts
  <1>3. \A q \in Worker : q # p => OneWritten(n, m, type, p, q)
    BY <1>1, WriteCounts
  <1>4. n \in Worker /\ type \in CsType => m \in Peers(n)
    <2> SUFFICES ASSUME n \in Worker, type \in CsType PROVE m # PARENT_ID
      BY NodeFacts DEF Peers
    <2>1. Has(Way(n, m), type)
      <3>1. UnderWay(n, m, type)
        BY <1>1, WriteFacts DEF UnderWay
      <3> QED
        BY <3>1, WayType
    <2> QED
      BY <2>1 DEF WaysInv, WayOk, OnWay
  <1>5. SentOk(p)'
    BY <1>2, <1>3, <1>4, SentGrows DEF SentOneMore
  <1>6. SameHeard(p) /\ stats'[p].received = stats[p].received
    BY <1>2, <1>3 DEF OneWritten, SameHeard, Peers, SentOneMore
  <1> QED
    BY <1>1, <1>5, <1>6, ReceivedKept

(* What a frame read changes. *)
LEMMA DispatchCounts ==
  ASSUME MutexInv, TypeOK', WaysInv, NEW n \in Node, NEW m \in Node \ {n}, Dispatch(n, m),
         ~RejectFrame(n, m), NEW type, type = Head(channel[m][n]).type,
         NEW p \in Worker, NEW q \in Worker, p # q
  PROVE  /\ OneHeard(n, m, type, p, q) /\ UNCHANGED pc
         /\ type \in CsType => n \in Worker /\ m \in Worker
  <1>1. TypeOK
    BY DEF MutexInv
  <1>2. CASE ReceiveStarted(n, m) \/ ReceiveDone(n, m)
    <2>1. /\ Takes(n, m, type) /\ type \in {"STARTED", "DONE"}
          /\ Ticks(n, Head(channel[m][n]).time) /\ UNCHANGED <<pc, outbox, cs, iteration>>
      BY <1>2 DEF ReceiveStarted, ReceiveDone, Takes
    <2>2. SameClaims(p) /\ SameClaims(q)
      BY <2>1 DEF SameClaims, Claimed, Claims, cs
    <2> QED
      BY <2>1, <2>2, ReadCounts DEF CsType
  <1>3. CASE ReceiveReply(n, m) \/ ReceiveRelease(n, m)
    <2>1. /\ Takes(n, m, type) /\ type \in {"CS_REPLY", "CS_RELEASE"}
          /\ Ticks(n, Head(channel[m][n]).time) /\ UNCHANGED <<pc, outbox, iteration>>
      BY <1>3 DEF ReceiveReply, ReceiveRelease, Takes
    <2>2. n \in Worker /\ m \in Worker
      BY <2>1, NodeFacts DEF Takes, Accepts, CsType
    <2>3. \A x \in Node : queued'[x] = queued[x] \/ (x = n /\ queued'[x] = queued[x] \ {m})
      <3>1. queued' = queued \/ queued' = [queued EXCEPT ![n] = @ \ {m}]
        BY <1>3 DEF ReceiveReply, ReceiveRelease
      <3>2. queued \in [Node -> SUBSET Worker]
        BY <1>1 DEF TypeOK
      <3> QED
        BY <3>1, <3>2
    <2>4. SameClaims(p) /\ SameClaims(q)
      BY <2>1, <2>3, NodeFacts DEF SameClaims, Claimed, Claims
    <2> QED
      BY <2>1, <2>2, <2>4, ReadCounts
  <1>4. CASE ReceiveRequest(n, m)
    <2>1. type = "CS_REQUEST" /\ UNCHANGED pc
      BY <1>4 DEF ReceiveRequest, Takes
    <2> QED
      BY <1>4, <2>1, AnswerCounts
  <1> QED
    BY <1>2, <1>3, <1>4 DEF Dispatch

LEMMA HeardStep ==
  ASSUME MutexInv, TypeOK', WaysInv, NEW p \in Worker, SentOk(p), ReceivedOk(p), StatsTypeOK,
         NEW n \in Node, NEW m \in Node \ {n}, CountedDispatch(n, m), ~RejectFrame(n, m)
  PROVE  SentOk(p)' /\ ReceivedOk(p)'
  <1> PICK type : type = Head(channel[m][n]).type
    OBVIOUS
  <1>1. Dispatch(n, m) /\ CountReceived(n, type) /\ TypeOK
    BY DEF CountedDispatch, MutexInv
  <1>2. ReceivedOneMore(n, type)
    BY <1>1, CountReceivedFacts
  <1>3. \A q \in Worker : q # p => OneHeard(n, m, type, p, q)
    BY <1>1, DispatchCounts
  <1>4. UNCHANGED pc
    BY <1>1 DEF Dispatch, ReceiveStarted, ReceiveDone, ReceiveRequest, ReceiveReply, ReceiveRelease
  <1>5. type \in CsType => n \in Worker /\ m \in Worker
    BY <1>1, NodeFacts
       DEF Dispatch, ReceiveStarted, ReceiveDone, ReceiveRequest, ReceiveReply, ReceiveRelease,
           Takes, Accepts
  <1>6. SameWritten(p) /\ stats'[p].sent = stats[p].sent
    BY <1>2, <1>3 DEF OneHeard, SameWritten, Peers, ReceivedOneMore
  <1>7. SentOk(p)'
    BY <1>1, <1>6, SentKept
  <1>8. ReceivedOk(p)'
    <2>1. p = n /\ type \in CsType => m \in Peers(p)
      BY <1>5 DEF Peers
    <2> QED
      BY <1>1, <1>2, <1>3, <1>4, <2>1, ReceivedGrows DEF ReceivedOneMore
  <1> QED
    BY <1>7, <1>8

(* A refused frame is counted by a worker that fails. *)
LEMMA RefusedStep ==
  ASSUME TypeOK, NEW p \in Worker, SentOk(p), ReceivedOk(p), StatsTypeOK,
         NEW n \in Node, NEW m \in Node \ {n}, CountedDispatch(n, m), RejectFrame(n, m)
  PROVE  SentOk(p)' /\ ReceivedOk(p)'
  <1> PICK type : type = Head(channel[m][n]).type
    OBVIOUS
  <1>1. CountReceived(n, type) /\ UNCHANGED <<channel, outbox, cs, iteration>>
    BY DEF CountedDispatch, RejectFrame, Fatal
  <1>2. ReceivedOneMore(n, type)
    BY <1>1, CountReceivedFacts
  <1>3. SameWritten(p) /\ SameHeard(p)
    BY <1>1, QuietCounts DEF SameCounts, SameWritten, SameHeard
  <1>4. SentOk(p)'
    BY <1>2, <1>3, SentKept DEF ReceivedOneMore
  <1>5. pc' = [pc EXCEPT ![n] = IF n = PARENT_ID THEN "stopping" ELSE "failed"]
    BY DEF RejectFrame, Fatal, Fail, Goto
  <1>6. CASE p = n
    <2>1. pc'[p] = "failed"
      BY <1>5, <1>6, NodeFacts DEF TypeOK
    <2> QED
      BY <1>4, <2>1 DEF ReceivedOk
  <1>7. CASE p # n
    <2>1. pc'[p] = pc[p]
      BY <1>5, <1>7, NodeFacts DEF TypeOK
    <2>2. OneMore(stats[p].received, stats'[p].received, n, p, type)
      BY <1>2 DEF ReceivedOneMore
    <2>3. \A t \in CsType : stats'[p].received[t] = stats[p].received[t]
      <3>1. \A t \in CsType : stats[p].received[t] \in Nat
        BY DEF StatsTypeOK, Statistics
      <3> QED
        BY <1>7, <2>2, <3>1 DEF OneMore
    <2>4. stats'[p].received = stats[p].received
      <3>1. StatsTypeOK'
        BY <1>1, CountReceivedFacts
      <3>2. stats'[p].received \in [CsType -> Nat] /\ stats[p].received \in [CsType -> Nat]
        BY <3>1 DEF StatsTypeOK, Statistics
      <3> QED
        BY <2>3, <3>2
    <2> QED
      BY <1>3, <1>4, <2>1, <2>4, ReceivedKept
  <1> QED
    BY <1>4, <1>6, <1>7

(* A step of the mutual exclusion without a counted frame or entry. *)
LEMMA UncountedCounts ==
  ASSUME MutexInv, Uncounted, NEW p \in Worker, NEW q \in Worker, p # q
  PROVE  SameCounts(p, q)
  <1>1. TypeOK /\ p \in Node /\ q \in Node
    BY NodeFacts DEF MutexInv
  <1>2. ASSUME NEW n \in Node, AnnounceStarted(n) \/ AnnounceDone(n) PROVE SameCounts(p, q)
    <2>1. ~Writing(n)
      <3>1. CASE AnnounceStarted(n)
        BY <3>1 DEF AnnounceStarted, MutexInv, ClaimOk
      <3>2. CASE AnnounceDone(n)
        BY <3>2 DEF AnnounceDone, AtWork
      <3> QED
        BY <1>2, <3>1, <3>2
    <2>2. PICK type \in {"STARTED", "DONE"} : Multicast(n, type, Node \ {n})
      BY <1>2 DEF AnnounceStarted, AnnounceDone
    <2>3. UNCHANGED <<channel, cs, iteration>>
      BY <1>2 DEF AnnounceStarted, AnnounceDone
    <2> QED
      BY <1>1, <2>1, <2>2, <2>3, AnnounceCounts
  <1>3. ASSUME NEW n \in Node, RequestCs(n) \/ ReleaseCs(n) \/ PrintOnly(n) PROVE SameCounts(p, q)
    BY <1>3, RequestCounts, ReleaseCounts, PrintCounts
  <1>4. ASSUME NEW n \in Node,
               \/ PassStarted(n) \/ PassDone(n) \/ SendOverflow(n) \/ PeersClosed(n)
               \/ \E m \in Node \ {n} : BrokenPipe(n, m)
        PROVE  SameCounts(p, q)
    <2>1. UNCHANGED <<channel, outbox, cs, iteration>>
      BY <1>4 DEF PassStarted, PassDone, SendOverflow, PeersClosed, BrokenPipe, Fatal
    <2> QED
      BY <2>1, QuietCounts
  <1>5. CASE Supervision \/ Signals \/ UNCHANGED vars
    <2>1. UNCHANGED <<channel, outbox, cs, iteration>>
      BY <1>5 DEF Supervision, Signals, vars, cs
    <2> QED
      BY <2>1, QuietCounts
  <1>6. CASE \E n \in Node :
               \/ AnnounceStarted(n) \/ PassStarted(n) \/ RequestCs(n) \/ ReleaseCs(n)
               \/ PrintOnly(n) \/ AnnounceDone(n) \/ PassDone(n)
               \/ SendOverflow(n) \/ PeersClosed(n)
               \/ \E m \in Node \ {n} : BrokenPipe(n, m)
    <2> PICK n \in Node :
               \/ AnnounceStarted(n) \/ PassStarted(n) \/ RequestCs(n) \/ ReleaseCs(n)
               \/ PrintOnly(n) \/ AnnounceDone(n) \/ PassDone(n)
               \/ SendOverflow(n) \/ PeersClosed(n)
               \/ \E m \in Node \ {n} : BrokenPipe(n, m)
      BY <1>6
    <2> QED
      BY <1>2, <1>3, <1>4
  <1> QED
    BY <1>5, <1>6 DEF Uncounted

-----------------------------------------------------------------------------
(* The entries. *)

(* p goes on, and neither claims nor enters. *)
GoesOn(p) ==
  /\ Claimed(p)' = Claimed(p)
  /\ pc[p] \in {"failed", "killed"} => pc'[p] \in {"failed", "killed"}
  /\ pc'[p] \notin {"failed", "killed"} => (pc'[p] = "waiting" <=> pc[p] = "waiting")

LEMMA EntriesKept ==
  ASSUME NEW p \in Worker, EntriesOk(p), GoesOn(p), stats'[p].entries = stats[p].entries
  PROVE  EntriesOk(p)'
  <1>1. pc'[p] \notin {"failed", "killed"} => Bit(pc'[p] = "waiting") = Bit(pc[p] = "waiting")
    BY DEF GoesOn, Bit
  <1>2. EntriesOk(p)' <=>
          (pc'[p] \notin {"failed", "killed"} =>
             stats'[p].entries = Claimed(p)' - Bit(pc'[p] = "waiting"))
    BY DEF EntriesOk, Bit
  <1> QED
    BY <1>1, <1>2 DEF GoesOn, EntriesOk

(* Only request_cs and the entry itself move the two apart. *)
LEMMA OthersGoOn ==
  ASSUME TypeOK, NEW n \in Node, NEW p \in Worker,
         \/ AnnounceStarted(n) \/ PassStarted(n) \/ ReleaseCs(n) \/ PrintOnly(n)
         \/ AnnounceDone(n) \/ PassDone(n) \/ SendOverflow(n) \/ PeersClosed(n)
         \/ \E m \in Node \ {n} : WriteFrame(n, m) \/ BrokenPipe(n, m) \/ Dispatch(n, m)
  PROVE  GoesOn(p)
  <1>1. Claimed(p)' = Claimed(p)
    <2>1. UNCHANGED iteration \/ ~MutexEnabled
      BY DEF AnnounceStarted, PassStarted, ReleaseCs, PrintOnly, AnnounceDone, PassDone,
             SendOverflow, PeersClosed, WriteFrame, BrokenPipe, Dispatch, ReceiveStarted,
             ReceiveDone, ReceiveRequest, ReceiveReply, ReceiveRelease, RejectFrame, Fatal
    <2> QED
      BY <2>1 DEF Claimed
  <1>2. ASSUME Fatal(n)
        PROVE  pc'[p] = pc[p] \/ pc'[p] = "failed"
    BY <1>2, NodeFacts DEF Fatal, Fail, Goto, TypeOK
  <1>3. CASE Fatal(n)
    BY <1>1, <1>2, <1>3 DEF GoesOn
  <1>4. CASE ~Fatal(n)
    <2>1. \/ pc'[p] = pc[p]
          \/ pc[p] = "boot" /\ pc'[p] = "starting"
          \/ pc[p] = "starting" /\ pc'[p] = "work"
          \/ pc[p] = "inside" /\ pc'[p] = "work"
          \/ pc[p] = "work" /\ pc'[p] = "finishing"
          \/ pc[p] = "finishing" /\ pc'[p] = "exited"
      <3>1. CASE \/ SendOverflow(n) \/ PeersClosed(n)
                 \/ \E m \in Node \ {n} : BrokenPipe(n, m) \/ RejectFrame(n, m)
        BY <1>4, <3>1 DEF SendOverflow, PeersClosed, BrokenPipe, RejectFrame
      <3>2. CASE \/ PrintOnly(n)
                 \/ \E m \in Node \ {n} : WriteFrame(n, m) \/ (Dispatch(n, m) /\ ~RejectFrame(n, m))
        BY <3>2 DEF PrintOnly, WriteFrame, Dispatch, ReceiveStarted, ReceiveDone,
                    ReceiveRequest, ReceiveReply, ReceiveRelease
      <3>3. CASE \/ AnnounceStarted(n) \/ PassStarted(n) \/ ReleaseCs(n)
                 \/ AnnounceDone(n) \/ PassDone(n)
        BY <3>3, NodeFacts DEF AnnounceStarted, PassStarted, ReleaseCs, AnnounceDone, PassDone,
                    AtWork, Goto, TypeOK
      <3> QED
        BY <3>1, <3>2, <3>3
    <2> QED
      BY <1>1, <2>1 DEF GoesOn
  <1> QED
    BY <1>3, <1>4

LEMMA OuterGoesOn ==
  ASSUME TypeOK, Supervision \/ Signals \/ UNCHANGED vars, NEW p \in Worker
  PROVE  GoesOn(p)
  <1>1. pc'[p] = pc[p] \/ (pc[p] = "unborn" /\ pc'[p] = "boot") \/ pc'[p] = "killed"
    <2>1. CASE Supervision
      <3>1. CASE AllForked \/ Reap
        BY <3>1, NodeFacts DEF AllForked, Reap, Goto, TypeOK
      <3>2. ASSUME NEW n \in Worker, Fork(n) \/ ForkFails(n) \/ StopWorker(n)
            PROVE  pc'[p] = pc[p] \/ (pc[p] = "unborn" /\ pc'[p] = "boot") \/ pc'[p] = "killed"
        BY <3>2, NodeFacts DEF Fork, NextToFork, ForkFails, StopWorker, Goto, TypeOK
      <3> QED
        BY <2>1, <3>1, <3>2 DEF Supervision, Supervise
    <2>2. CASE Signals
      BY <2>2, NodeFacts DEF Signals, Kill, Goto, TypeOK
    <2>3. CASE UNCHANGED vars
      BY <2>3 DEF vars
    <2> QED
      BY <2>1, <2>2, <2>3
  <1>2. UNCHANGED iteration
    BY DEF Supervision, Signals, vars
  <1> QED
    BY <1>1, <1>2 DEF GoesOn, Claimed

(* request_cs: one claim more, and one wait. *)
LEMMA RequestEntries ==
  ASSUME TypeOK, NEW n \in Node, RequestCs(n), UNCHANGED stats, NEW p \in Worker, EntriesOk(p)
  PROVE  EntriesOk(p)'
  <1>1. /\ n \in Worker /\ pc[n] = "work" /\ MutexEnabled
        /\ pc' = [pc EXCEPT ![n] = "waiting"] /\ iteration' = [iteration EXCEPT ![n] = @ + 1]
    BY NodeFacts DEF RequestCs, AtWork, Goto, TypeOK
  <1>2. CASE p = n
    <2>1. /\ pc[p] = "work" /\ pc'[p] = "waiting" /\ Claimed(p)' = Claimed(p) + 1
          /\ Claimed(p) \in Nat
      BY <1>1, <1>2, NodeFacts DEF TypeOK, Claimed
    <2>2. stats[p].entries = Claimed(p)
      BY <2>1 DEF EntriesOk, Bit
    <2>3. stats'[p].entries = Claimed(p)' - 1
      BY <2>1, <2>2
    <2> QED
      BY <2>1, <2>3 DEF EntriesOk, Bit
  <1>3. CASE p # n
    <2>1. pc'[p] = pc[p] /\ Claimed(p)' = Claimed(p)
      BY <1>1, <1>3, NodeFacts DEF TypeOK, Claimed
    <2> QED
      BY <2>1, EntriesKept DEF GoesOn
  <1> QED
    BY <1>2, <1>3

(* The entry ends the wait and is counted. *)
LEMMA EnterEntries ==
  ASSUME TypeOK, NEW n \in Worker, EnterCs(n), NEW p \in Worker, EntriesOk(p), StatsTypeOK,
         stats'[n].entries = stats[n].entries + 1,
         \A x \in Worker \ {n} : stats'[x] = stats[x]
  PROVE  EntriesOk(p)'
  <1>1. pc[n] = "waiting" /\ pc' = [pc EXCEPT ![n] = "inside"] /\ UNCHANGED iteration
    BY DEF EnterCs, Goto
  <1>2. CASE p = n
    <2>1. /\ pc[p] = "waiting" /\ pc'[p] = "inside" /\ Claimed(p)' = Claimed(p)
          /\ Claimed(p) \in Nat
      BY <1>1, <1>2, NodeFacts DEF TypeOK, Claimed
    <2>2. stats[p].entries = Claimed(p) - 1
      BY <2>1 DEF EntriesOk, Bit
    <2>3. stats'[p].entries = Claimed(p)'
      BY <1>2, <2>1, <2>2
    <2>4. Claimed(p)' - 0 = Claimed(p)'
      BY <2>1
    <2> QED
      BY <2>1, <2>3, <2>4 DEF EntriesOk, Bit
  <1>3. CASE p # n
    <2>1. pc'[p] = pc[p] /\ Claimed(p)' = Claimed(p) /\ stats'[p] = stats[p]
      BY <1>1, <1>3, NodeFacts DEF TypeOK, Claimed
    <2> QED
      BY <2>1, EntriesKept DEF GoesOn
  <1> QED
    BY <1>2, <1>3

-----------------------------------------------------------------------------
(* The waits: every answer of another worker was a tick of the own clock.   *)

WaitOk(p) ==
  pc[p] = "waiting" =>
    /\ replied[p] \subseteq Peers(p)
    /\ Own(p) + Cardinality(replied[p]) <= clock[p]

WaitInv == \A p \in Worker : WaitOk(p)

LEMMA WaitKept ==
  ASSUME TypeOK, NEW p \in Worker, WaitOk(p), GoesOn(p), Later(p),
         replied'[p] = replied[p], Own(p)' = Own(p)
  PROVE  WaitOk(p)'
  <1> SUFFICES ASSUME pc'[p] = "waiting"
               PROVE  /\ replied'[p] \subseteq Peers(p)
                      /\ Own(p)' + Cardinality(replied'[p]) <= clock'[p]
    BY DEF WaitOk, Peers
  <1>1. replied[p] \subseteq Peers(p) /\ Own(p) + Cardinality(replied[p]) <= clock[p]
    BY DEF GoesOn, WaitOk
  <1>2. Cardinality(replied[p]) \in Nat
    BY <1>1, WorkerSets, FS_Subset, FS_CardinalityType
  <1>3. Own(p) \in Nat /\ clock[p] \in Nat /\ clock'[p] \in Nat /\ clock[p] <= clock'[p]
    BY PairTypes DEF Later
  <1> PICK own, k : own = Own(p) /\ k = Cardinality(replied[p])
    OBVIOUS
  <1>4. own + k <= clock'[p]
    BY <1>1, <1>2, <1>3
  <1> QED
    BY <1>1, <1>4

(* request_cs: nobody has answered yet. *)
LEMMA WaitBegins ==
  ASSUME TypeOK, NEW n \in Node, RequestCs(n), NEW p \in Worker, WaitOk(p)
  PROVE  WaitOk(p)'
  <1>1. /\ n \in Worker /\ pc' = [pc EXCEPT ![n] = "waiting"]
        /\ replied' = [replied EXCEPT ![n] = {}]
        /\ requested_at' = [requested_at EXCEPT ![n][n] = ClockSend(clock[n])]
        /\ clock' = [clock EXCEPT ![n] = ClockSend(@)]
    BY NodeFacts DEF RequestCs, AtWork, Multicast, Goto, TypeOK
  <1>2. clock[n] \in Nat
    BY <1>1, PairTypes
  <1>3. CASE p = n
    <2>1. replied'[p] = {} /\ Own(p)' = clock'[p] /\ clock'[p] = clock[n] + 1
      BY <1>1, <1>3, NodeFacts DEF TypeOK, Own, ClockSend
    <2>2. Cardinality(replied'[p]) = 0
      BY <2>1, FS_EmptySet
    <2> QED
      BY <1>2, <2>1, <2>2 DEF WaitOk
  <1>4. CASE p # n
    <2>1. /\ pc'[p] = pc[p] /\ replied'[p] = replied[p] /\ Own(p)' = Own(p)
          /\ clock'[p] = clock[p]
      BY <1>1, <1>4, NodeFacts DEF TypeOK, Own
    <2> QED
      BY <2>1 DEF WaitOk, Peers
  <1> QED
    BY <1>3, <1>4

(* An answer is a tick at least. *)
LEMMA WaitAnswered ==
  ASSUME TypeOK, NEW n \in Node, NEW m \in Node \ {n}, ReceiveReply(n, m),
         NEW p \in Worker, WaitOk(p)
  PROVE  WaitOk(p)'
  <1>1. /\ Takes(n, m, "CS_REPLY") /\ Ticks(n, Head(channel[m][n]).time)
        /\ replied' = [replied EXCEPT ![n] = @ \cup {m}] /\ UNCHANGED <<pc, requested_at>>
    BY DEF ReceiveReply
  <1>2. n \in Worker /\ m \in Peers(n)
    BY <1>1, NodeFacts DEF Takes, Accepts, CsType, Peers
  <1>3. Own(p)' = Own(p)
    BY <1>1 DEF Own
  <1>4. CASE p = n
    <2> SUFFICES ASSUME pc[p] = "waiting"
                 PROVE  /\ replied'[p] \subseteq Peers(p)
                        /\ Own(p) + Cardinality(replied'[p]) <= clock'[p]
      BY <1>1, <1>3 DEF WaitOk, Peers
    <2>1. replied[p] \subseteq Peers(p) /\ Own(p) + Cardinality(replied[p]) <= clock[p]
      BY DEF WaitOk
    <2>2. IsFiniteSet(replied[p])
      BY <2>1, WorkerSets, FS_Subset
    <2>3. replied'[p] = replied[p] \cup {m}
      BY <1>1, <1>4, NodeFacts DEF TypeOK
    <2>4. /\ Cardinality(replied'[p]) <= Cardinality(replied[p]) + 1
          /\ Cardinality(replied[p]) \in Nat /\ Cardinality(replied'[p]) \in Nat
      <3> PICK A : A = replied[p]
        OBVIOUS
      <3>1. IsFiniteSet(A) /\ Cardinality(A) \in Nat
        BY <2>2, FS_CardinalityType
      <3>2. Cardinality(A \cup {m}) = IF m \in A THEN Cardinality(A) ELSE Cardinality(A) + 1
        BY <3>1, FS_AddElement
      <3> QED
        BY <2>3, <3>1, <3>2
    <2>5. clock[p] + 1 <= clock'[p] /\ clock[p] \in Nat /\ clock'[p] \in Nat /\ Own(p) \in Nat
      <3> PICK sent, got : sent = Head(channel[m][n]).time /\ got = ClockReceive(clock[n], sent)
        OBVIOUS
      <3>1. got \in Nat /\ clock[n] < got
        BY <1>1, TakesFacts
      <3>2. clock'[p] = got
        BY <1>1, <1>4, NodeFacts DEF Ticks, TypeOK
      <3> QED
        BY <1>4, <3>1, <3>2, PairTypes
    <2> PICK own, k, l : own = Own(p) /\ k = Cardinality(replied[p]) /\ l = Cardinality(replied'[p])
      OBVIOUS
    <2>6. own + l <= clock'[p]
      BY <2>1, <2>4, <2>5
    <2> QED
      BY <1>2, <1>4, <2>1, <2>3, <2>6
  <1>5. CASE p # n
    <2>1. replied'[p] = replied[p] /\ clock'[p] = clock[p]
      BY <1>1, <1>5, NodeFacts DEF TypeOK, Ticks
    <2> QED
      BY <1>1, <1>3, <2>1 DEF WaitOk, Peers
  <1> QED
    BY <1>4, <1>5

LEMMA WaitStep ==
  ASSUME TypeOK, MutexInv, WaitInv, [Next]_vars
  PROVE  WaitInv'
  <1> SUFFICES ASSUME NEW p \in Worker PROVE WaitOk(p)'
    BY DEF WaitInv
  <1>1. WaitOk(p) /\ p \in Node /\ clock[p] \in Nat
    BY NodeFacts, PairTypes DEF WaitInv
  <1>2. ASSUME UNCHANGED <<clock, replied, requested_at>>, GoesOn(p) PROVE WaitOk(p)'
    <2>1. Later(p) /\ Own(p)' = Own(p)
      BY <1>1, <1>2 DEF Later, Own
    <2> QED
      BY <1>1, <1>2, <2>1, WaitKept
  <1>3. ASSUME NEW n \in Node, NodeNext(n) PROVE WaitOk(p)'
    <2>1. CASE RequestCs(n)
      BY <1>1, <2>1, WaitBegins
    <2>2. CASE EnterCs(n)
      <3>1. /\ pc' = [pc EXCEPT ![n] = "inside"] /\ UNCHANGED <<clock, replied, requested_at>>
        BY <2>2 DEF EnterCs, Goto, cs
      <3>2. pc'[p] = "waiting" => pc[p] = "waiting"
        BY <1>1, <3>1 DEF TypeOK
      <3> QED
        BY <1>1, <3>1, <3>2 DEF WaitOk, Peers, Own
    <2>3. CASE AnnounceStarted(n) \/ AnnounceDone(n) \/ ReleaseCs(n)
      <3>1. ~Writing(n)
        BY <2>3, NodeFacts DEF AnnounceStarted, AnnounceDone, ReleaseCs, AtWork, MutexInv, ClaimOk, TypeOK
      <3>2. UNCHANGED <<replied, requested_at>>
        BY <2>3 DEF AnnounceStarted, AnnounceDone, ReleaseCs, cs
      <3>3. \E type, targets : Multicast(n, type, targets)
        BY <2>3 DEF AnnounceStarted, AnnounceDone, ReleaseCs
      <3>4. Later(p)
        <4> PICK type, targets : Multicast(n, type, targets)
          BY <3>3
        <4>1. /\ \A x \in Node \ {n} : clock'[x] = clock[x]
              /\ clock'[n] \in Nat /\ clock[n] < clock'[n]
          BY <3>1, MulticastFacts
        <4> QED
          BY <1>1, <4>1 DEF Later
      <3>5. GoesOn(p)
        BY <2>3, OthersGoOn
      <3> QED
        BY <1>1, <3>2, <3>4, <3>5, WaitKept DEF Own
    <2>4. ASSUME NEW m \in Node \ {n}, Dispatch(n, m) PROVE WaitOk(p)'
      <3>1. GoesOn(p)
        BY <2>4, OthersGoOn
      <3>2. CASE ReceiveReply(n, m)
        BY <1>1, <3>2, WaitAnswered
      <3>3. CASE ReceiveStarted(n, m) \/ ReceiveDone(n, m) \/ ReceiveRelease(n, m)
        <4>1. UNCHANGED <<replied, requested_at>>
          BY <3>3 DEF ReceiveStarted, ReceiveDone, ReceiveRelease, cs
        <4>2. \E type : Takes(n, m, type) /\ Ticks(n, Head(channel[m][n]).time)
          BY <3>3 DEF ReceiveStarted, ReceiveDone, ReceiveRelease
        <4>3. Later(p)
          BY <4>2, TicksFacts
        <4> QED
          BY <1>1, <3>1, <4>1, <4>3, WaitKept DEF Own
      <3>4. CASE ReceiveRequest(n, m)
        <4> PICK sent, got : sent = Head(channel[m][n]).time /\ got = ClockReceive(clock[n], sent)
          OBVIOUS
        <4>1. /\ Takes(n, m, "CS_REQUEST") /\ UNCHANGED replied
              /\ requested_at' = [requested_at EXCEPT ![n][m] = sent]
              /\ clock' = [clock EXCEPT ![n] = ClockSend(got)]
          BY <3>4 DEF ReceiveRequest
        <4>2. got \in Nat /\ clock[n] < got
          BY <4>1, TakesFacts
        <4>3. Later(p)
          <5>1. clock'[p] = clock[p] \/ (p = n /\ clock'[p] = got + 1)
            BY <1>1, <4>1 DEF TypeOK, ClockSend
          <5> QED
            BY <1>1, <4>2, <5>1 DEF Later
        <4>4. Own(p)' = Own(p)
          <5>1. CASE p = n
            BY <1>1, <4>1, <5>1 DEF Own, TypeOK
          <5>2. CASE p # n
            BY <1>1, <4>1, <5>2 DEF Own, TypeOK
          <5> QED
            BY <5>1, <5>2
        <4> QED
          BY <1>1, <3>1, <4>1, <4>3, <4>4, WaitKept
      <3>5. CASE RejectFrame(n, m)
        BY <1>2, <3>1, <3>5 DEF RejectFrame, Fatal, cs
      <3> QED
        BY <2>4, <3>2, <3>3, <3>4, <3>5 DEF Dispatch
    <2>5. CASE PassStarted(n) \/ PrintOnly(n) \/ PassDone(n) \/ SendOverflow(n) \/ PeersClosed(n)
      <3>1. GoesOn(p)
        BY <2>5, OthersGoOn
      <3>2. UNCHANGED <<clock, replied, requested_at>>
        BY <2>5 DEF PassStarted, PrintOnly, PassDone, SendOverflow, PeersClosed, Fatal, cs
      <3> QED
        BY <1>2, <3>1, <3>2
    <2>6. ASSUME NEW m \in Node \ {n}, WriteFrame(n, m) \/ BrokenPipe(n, m) PROVE WaitOk(p)'
      <3>1. GoesOn(p)
        BY <2>6, OthersGoOn
      <3>2. UNCHANGED <<clock, replied, requested_at>>
        BY <2>6 DEF WriteFrame, BrokenPipe, Fatal, cs
      <3> QED
        BY <1>2, <3>1, <3>2
    <2> QED
      BY <1>3, <2>1, <2>2, <2>3, <2>4, <2>5, <2>6 DEF NodeNext
  <1>4. CASE Supervision \/ Signals \/ UNCHANGED vars
    <2>1. GoesOn(p)
      BY <1>4, OuterGoesOn
    <2>2. UNCHANGED <<clock, replied, requested_at>>
      BY <1>4 DEF Supervision, Signals, vars, cs
    <2> QED
      BY <1>2, <2>1, <2>2
  <1> QED
    BY <1>3, <1>4 DEF Next

LEMMA WaitInit == Init => WaitInv
  <1> SUFFICES ASSUME Init, NEW p \in Worker PROVE WaitOk(p)
    BY DEF WaitInv
  <1>1. pc[p] # "waiting"
    BY NodeFacts DEF Init, NothingForked
  <1> QED
    BY <1>1 DEF WaitOk

(* The statistics only watch: every step with them is one without. *)
LEMMA StatsSteps == [StatsNext]_statsVars => [Next]_vars
  <1>1. ASSUME NEW n \in Node, NEW m \in Node \ {n}, CountedWrite(n, m) \/ CountedDispatch(n, m)
        PROVE  Next
    BY <1>1 DEF CountedWrite, CountedDispatch, Next, NodeNext
  <1>2. ASSUME NEW n \in Node, CountedEntry(n) PROVE Next
    BY <1>2 DEF CountedEntry, Next, NodeNext
  <1>3. CASE Uncounted
    <2>1. ASSUME NEW n \in Node,
                 \/ AnnounceStarted(n) \/ PassStarted(n) \/ RequestCs(n) \/ ReleaseCs(n)
                 \/ PrintOnly(n) \/ AnnounceDone(n) \/ PassDone(n)
                 \/ SendOverflow(n) \/ PeersClosed(n)
                 \/ \E m \in Node \ {n} : BrokenPipe(n, m)
          PROVE  Next
      BY <2>1 DEF Next, NodeNext
    <2>2. CASE Supervision \/ Signals \/ UNCHANGED vars
      BY <2>2 DEF Next
    <2> QED
      BY <1>3, <2>1, <2>2 DEF Uncounted
  <1>4. CASE UNCHANGED statsVars
    BY <1>4 DEF statsVars
  <1> QED
    BY <1>1, <1>2, <1>3, <1>4 DEF StatsNext

(* Counting changes nothing: a run with the statistics is a run of the mutual  *)
(* exclusion, so that all that is proved of Pa4Mutex holds with --stats too    *)
(* (stats_message and stats_entry write to nothing but the counters).          *)
THEOREM StatsRunMutex == StatsSpec => Spec
  <1>1. StatsInit => Init
    BY DEF StatsInit
  <1> QED
    BY <1>1, StatsSteps, PTL DEF StatsSpec, Spec

-----------------------------------------------------------------------------
(* The invariant of the counters. *)

LEMMA CountInit == StatsInit => CountInv
  <1> SUFFICES ASSUME StatsInit PROVE CountInv
    OBVIOUS
  <1>1. /\ stats = [p \in Worker |-> NoStatistics]
        /\ iteration = [p \in Node |-> 0]
        /\ outbox = [p \in Node |-> Idle]
        /\ channel = [p \in Node |-> [q \in Node |-> <<>>]]
        /\ queued = [p \in Node |-> {}]
        /\ pc = NothingForked
    BY DEF StatsInit, Init
  <1>2. NoStatistics \in Statistics
    BY DEF NoStatistics, Statistics
  <1>3. StatsTypeOK
    BY <1>1, <1>2 DEF StatsTypeOK
  <1>4. ASSUME NEW p \in Worker
        PROVE  /\ \A t \in CsType : stats[p].sent[t] = 0 /\ stats[p].received[t] = 0
               /\ stats[p].entries = 0 /\ pc[p] = "unborn" /\ Claimed(p) = 0 /\ ~Claims(p)
    BY <1>1, NodeFacts DEF NoStatistics, NothingForked, Claimed, Claims
  <1>5. ASSUME NEW p \in Node, NEW q \in Node, NEW t PROVE ~UnderWay(p, q, t) /\ ~Sending(p, q, t)
    BY <1>1 DEF UnderWay, Sending, InPipe, Idle
  <1>6. ASSUME NEW p \in Worker, NEW q \in Worker, NEW t \in CsType
        PROVE  Written(p, q, t) = 0 /\ Heard(p, q, t) = 0
    <2>1. /\ Bit(Claims(p)) = 0 /\ Bit(Claims(q)) = 0
          /\ \A s : Bit(UnderWay(p, q, s)) = 0 /\ Bit(UnderWay(q, p, s)) = 0
          /\ \A s : Bit(Sending(p, q, s)) = 0
      BY <1>4, <1>5, NodeFacts DEF Bit
    <2> QED
      BY <1>4, <2>1 DEF Written, Heard, Issued, CsType
  <1>7. ASSUME NEW p \in Worker, NEW t \in CsType
        PROVE  /\ SumFunctionOnSet([q \in Worker |-> Written(p, q, t)], Peers(p)) = 0
               /\ SumFunctionOnSet([q \in Worker |-> Heard(p, q, t)], Peers(p)) = 0
    <2> PICK S : S = Peers(p)
      OBVIOUS
    <2> PICK f, g : /\ f = [q \in Worker |-> Written(p, q, t)]
                    /\ g = [q \in Worker |-> Heard(p, q, t)]
      OBVIOUS
    <2>1. IsFiniteSet(S) /\ S \subseteq Worker /\ Cardinality(S) \in Nat
      BY WorkerSets, FS_CardinalityType
    <2>2. \A q \in S : f[q] = 0
      BY <1>6, <2>1
    <2>3. \A q \in S : g[q] = 0
      BY <1>6, <2>1
    <2>4. /\ SumFunctionOnSet(f, S) = Cardinality(S) * 0
          /\ SumFunctionOnSet(g, S) = Cardinality(S) * 0
      BY <2>1, <2>2, <2>3, SumOfEqual
    <2>5. Cardinality(S) * 0 = 0
      BY <2>1
    <2> QED
      BY <2>4, <2>5
  <1>8. ASSUME NEW p \in Worker PROVE SentOk(p) /\ ReceivedOk(p) /\ EntriesOk(p)
    <2>1. SentOk(p)
      BY <1>4, <1>7 DEF SentOk
    <2>2. ReceivedOk(p)
      BY <1>4, <1>7 DEF ReceivedOk
    <2>3. Bit(pc[p] = "waiting") = 0
      BY <1>4 DEF Bit
    <2>4. EntriesOk(p)
      BY <1>4, <2>3 DEF EntriesOk
    <2> QED
      BY <2>1, <2>2, <2>4
  <1> QED
    BY <1>3, <1>8 DEF CountInv

(* Every step keeps it. *)
LEMMA CountStep ==
  ASSUME MutexInv, TypeOK', WaysInv, WaitInv, CountInv, [StatsNext]_statsVars
  PROVE  CountInv'
  <1>1. /\ TypeOK /\ StatsTypeOK
        /\ \A p \in Worker : SentOk(p) /\ ReceivedOk(p) /\ EntriesOk(p)
    BY DEF MutexInv, CountInv
  <1>2. \A p \in Worker : pc[p] = "failed" => pc'[p] = "failed"
    BY <1>1, StatsSteps, StepMoves DEF Moves, WorkerMoves, Over
  <1>3. ASSUME NEW n \in Node, NEW m \in Node \ {n}, CountedWrite(n, m) PROVE CountInv'
    <2>1. StatsTypeOK' /\ \A p \in Worker : stats'[p].entries = stats[p].entries
      BY <1>1, <1>3, CountSentFacts DEF CountedWrite, SentOneMore, SameWaits
    <2>2. \A p \in Worker : SentOk(p)' /\ ReceivedOk(p)'
      BY <1>1, <1>3, WrittenStep
    <2>3. \A p \in Worker : GoesOn(p)
      BY <1>1, <1>3, OthersGoOn DEF CountedWrite
    <2>4. \A p \in Worker : EntriesOk(p)'
      BY <1>1, <2>1, <2>3, EntriesKept
    <2> QED
      BY <2>1, <2>2, <2>4 DEF CountInv
  <1>4. ASSUME NEW n \in Node, NEW m \in Node \ {n}, CountedDispatch(n, m) PROVE CountInv'
    <2>1. StatsTypeOK' /\ \A p \in Worker : stats'[p].entries = stats[p].entries
      BY <1>1, <1>4, CountReceivedFacts DEF CountedDispatch, ReceivedOneMore, SameWaits
    <2>2. \A p \in Worker : SentOk(p)' /\ ReceivedOk(p)'
      <3>1. CASE RejectFrame(n, m)
        BY <1>1, <1>4, <3>1, RefusedStep
      <3>2. CASE ~RejectFrame(n, m)
        BY <1>1, <1>4, <3>2, HeardStep
      <3> QED
        BY <3>1, <3>2
    <2>3. \A p \in Worker : GoesOn(p)
      BY <1>1, <1>4, OthersGoOn DEF CountedDispatch
    <2>4. \A p \in Worker : EntriesOk(p)'
      BY <1>1, <2>1, <2>3, EntriesKept
    <2> QED
      BY <2>1, <2>2, <2>4 DEF CountInv
  <1>5. ASSUME NEW n \in Node, CountedEntry(n) PROVE CountInv'
    <2>1. EnterCs(n) /\ CountEntry(n) /\ n \in Worker /\ UNCHANGED <<channel, outbox, cs, iteration>>
      BY <1>1, <1>5, NodeFacts DEF CountedEntry, EnterCs, TypeOK
    <2>2. clock[n] >= Own(n)
      <3>1. replied[n] \subseteq Peers(n) /\ Own(n) + Cardinality(replied[n]) <= clock[n]
        BY <2>1 DEF WaitInv, WaitOk, EnterCs
      <3>2. Cardinality(replied[n]) \in Nat
        BY <2>1, <3>1, WorkerSets, FS_Subset, FS_CardinalityType
      <3>3. Own(n) \in Nat /\ clock[n] \in Nat
        BY <1>1, <2>1, PairTypes
      <3> PICK k : k = Cardinality(replied[n])
        OBVIOUS
      <3> QED
        BY <3>1, <3>2, <3>3
    <2>3. /\ StatsTypeOK'
          /\ \A p \in Worker : stats'[p].sent = stats[p].sent /\ stats'[p].received = stats[p].received
          /\ \A p \in Worker \ {n} : stats'[p] = stats[p]
          /\ stats'[n].entries = stats[n].entries + 1
      BY <1>1, <2>1, <2>2, CountEntryFacts
    <2>4. \A p \in Worker : SentOk(p)' /\ ReceivedOk(p)'
      BY <1>1, <1>2, <2>1, <2>3, QuietCounts, QuietStep
    <2>5. \A p \in Worker : EntriesOk(p)'
      BY <1>1, <2>1, <2>3, EnterEntries
    <2> QED
      BY <2>3, <2>4, <2>5 DEF CountInv
  <1>6. CASE Uncounted
    <2>1. UNCHANGED stats /\ StatsTypeOK'
      BY <1>1, <1>6 DEF Uncounted, StatsTypeOK
    <2>2. \A p \in Worker : SentOk(p)' /\ ReceivedOk(p)'
      BY <1>1, <1>2, <1>6, <2>1, UncountedCounts, QuietStep
    <2>3. ASSUME NEW p \in Worker PROVE EntriesOk(p)'
      <3>1. CASE Supervision \/ Signals \/ UNCHANGED vars
        BY <1>1, <2>1, <3>1, OuterGoesOn, EntriesKept
      <3>2. ASSUME NEW n \in Node,
                   \/ AnnounceStarted(n) \/ PassStarted(n) \/ ReleaseCs(n) \/ PrintOnly(n)
                   \/ AnnounceDone(n) \/ PassDone(n) \/ SendOverflow(n) \/ PeersClosed(n)
                   \/ \E m \in Node \ {n} : BrokenPipe(n, m)
            PROVE  EntriesOk(p)'
        BY <1>1, <2>1, <3>2, OthersGoOn, EntriesKept
      <3>3. ASSUME NEW n \in Node, RequestCs(n) PROVE EntriesOk(p)'
        BY <1>1, <2>1, <3>3, RequestEntries
      <3> QED
        BY <1>6, <3>1, <3>2, <3>3 DEF Uncounted
    <2> QED
      BY <2>1, <2>2, <2>3 DEF CountInv
  <1>7. CASE UNCHANGED statsVars
    <2>1. UNCHANGED <<vars, stats>> /\ StatsTypeOK'
      BY <1>1, <1>7 DEF statsVars, StatsTypeOK
    <2>2. UNCHANGED <<channel, outbox, cs, iteration>>
      BY <2>1 DEF vars, cs
    <2>3. \A p \in Worker : SentOk(p)' /\ ReceivedOk(p)'
      BY <1>1, <1>2, <2>1, <2>2, QuietCounts, QuietStep
    <2>4. \A p \in Worker : EntriesOk(p)'
      BY <1>1, <2>1, OuterGoesOn, EntriesKept
    <2> QED
      BY <2>1, <2>3, <2>4 DEF CountInv
  <1> QED
    BY <1>3, <1>4, <1>5, <1>6, <1>7 DEF StatsNext

LEMMA CountAlways ==
  StatsSpec => [](MutexInv /\ BarrierInv /\ WaysInv /\ EndInv /\ WaitInv /\ CountInv)
  <1>1. StatsInit => WaitInv /\ CountInv
    BY WaitInit, CountInit DEF StatsInit
  <1>2. MutexInv /\ MutexInv' /\ WaysInv /\ WaitInv /\ CountInv /\ [StatsNext]_statsVars
          => WaitInv' /\ CountInv'
    BY StatsSteps, WaitStep, CountStep DEF MutexInv
  <1> QED
    BY <1>1, <1>2, StatsRunMutex, WaysAlways, PTL DEF StatsSpec

(* The counters of a worker that has exited. *)
LEMMA RowOfExited ==
  ASSUME MutexInv, BarrierInv, WaysInv, EndInv, CountInv, NEW p \in Worker, pc[p] = "exited"
  PROVE  /\ \A q \in Worker : Claimed(q) = (IF MutexEnabled THEN Iterations[q] ELSE 0)
         /\ stats[p].entries = Claimed(p)
         /\ \A q \in Peers(p) : \A t \in CsType :
              /\ Written(p, q, t) = IF t = "CS_REPLY" THEN Claimed(q) ELSE Claimed(p)
              /\ Heard(p, q, t) = IF t = "CS_REPLY" THEN Claimed(p) ELSE Claimed(q)
  <1>1. TypeOK /\ p \in Node
    BY NodeFacts DEF MutexInv
  <1>2. \A q \in Worker : iteration[q] = Iterations[q] /\ ~Claims(q)
    BY <1>1 DEF BarrierInv, Finished
  <1>3. \A q \in Worker : Claimed(q) = (IF MutexEnabled THEN Iterations[q] ELSE 0) /\ Claimed(q) \in Nat
    BY <1>2, Pa4Assumption DEF Claimed
  <1>4. stats[p].entries = Claimed(p)
    <2>1. Bit(pc[p] = "waiting") = 0
      BY DEF Bit
    <2>2. stats[p].entries = Claimed(p) - 0
      BY <2>1 DEF CountInv, EntriesOk
    <2> QED
      BY <1>3, <2>2
  <1>5. ASSUME NEW q \in Peers(p), NEW t \in CsType
        PROVE  /\ Written(p, q, t) = IF t = "CS_REPLY" THEN Claimed(q) ELSE Claimed(p)
               /\ Heard(p, q, t) = IF t = "CS_REPLY" THEN Claimed(p) ELSE Claimed(q)
    <2>1. q \in Worker /\ q \in Node /\ p # q
      BY NodeFacts DEF Peers
    <2>2. Way(q, p) = <<>>
      BY <1>1, <2>1, LeavesNothing DEF Leaving
    <2>3. \A s : ~UnderWay(q, p, s)
      <3>1. \A s : ~Has(Way(q, p), s)
        BY <2>2 DEF Has
      <3> QED
        BY <1>1, <2>1, <3>1, WayType
    <2>4. ~UnderWay(p, q, "CS_REQUEST")
      BY <1>1, <1>2, <2>1, ClaimFacts, WayType
    <2>5. \A s : ~Sending(p, q, s)
      BY <1>1 DEF EndInv, Leaving, Writing, Sending
    <2>6. /\ Bit(Claims(p)) = 0 /\ Bit(Claims(q)) = 0
          /\ Bit(UnderWay(p, q, "CS_REQUEST")) = 0
          /\ \A s : Bit(UnderWay(q, p, s)) = 0 /\ Bit(Sending(p, q, s)) = 0
      BY <1>2, <2>1, <2>3, <2>4, <2>5 DEF Bit
    <2>7. Claimed(p) \in Nat /\ Claimed(q) \in Nat
      BY <1>3, <2>1
    <2>8. /\ Issued(p, q, t) = IF t = "CS_REPLY" THEN Claimed(q) ELSE Claimed(p)
          /\ Issued(q, p, t) = IF t = "CS_REPLY" THEN Claimed(p) ELSE Claimed(q)
      BY <2>6, <2>7 DEF Issued, CsType
    <2> QED
      BY <2>6, <2>7, <2>8 DEF Written, Heard
  <1> QED
    BY <1>3, <1>4, <1>5

(* The entries of the others, as a sum of what they claimed. *)
LEMMA EntriesOfPeers ==
  ASSUME NEW p \in Worker, NEW f,
         \A q \in Peers(p) : f[q] = (IF MutexEnabled THEN Iterations[q] ELSE 0)
  PROVE  SumFunctionOnSet(f, Peers(p)) = Entries(Peers(p))
  <1> PICK S, g : S = Peers(p) /\ g = [w \in Worker |-> IF MutexEnabled THEN Iterations[w] ELSE 0]
    OBVIOUS
  <1>1. IsFiniteSet(S) /\ S \subseteq Worker
    BY WorkerSets
  <1>2. \A q \in S : f[q] \in Int /\ f[q] = g[q]
    BY <1>1, Pa4Assumption
  <1>3. SumFunctionOnSet(f, S) = SumFunctionOnSet(g, S)
    BY <1>1, <1>2, SumSame
  <1> QED
    BY <1>3 DEF Entries

(* Every row of the statistics is the documented cost of the mutual          *)
(* exclusion, for any number of workers and entries, whoever dies: a request, *)
(* a release and an answer per entry and other worker (stats_finish, README). *)
THEOREM RowsCorrect == StatsSpec => []RowsAddUp
  <1>1. ASSUME MutexInv, BarrierInv, WaysInv, EndInv, CountInv PROVE RowsAddUp
    <2> SUFFICES ASSUME NEW p \in Worker, pc[p] = "exited", NEW own, NEW others,
                        own = (Children - 1) * Entries({p}), others = Entries(Peers(p))
                 PROVE  /\ stats[p].entries = Entries({p})
                        /\ stats[p].sent = [t \in CsType |-> IF t = "CS_REPLY" THEN others ELSE own]
                        /\ stats[p].received = [t \in CsType |-> IF t = "CS_REPLY" THEN own ELSE others]
      BY DEF RowsAddUp
    <2>1. /\ \A q \in Worker : Claimed(q) = (IF MutexEnabled THEN Iterations[q] ELSE 0)
          /\ stats[p].entries = Claimed(p)
          /\ \A q \in Peers(p) : \A t \in CsType :
               /\ Written(p, q, t) = IF t = "CS_REPLY" THEN Claimed(q) ELSE Claimed(p)
               /\ Heard(p, q, t) = IF t = "CS_REPLY" THEN Claimed(p) ELSE Claimed(q)
      BY <1>1, RowOfExited
    <2>2. Entries({p}) = Claimed(p) /\ Claimed(p) \in Nat
      BY <2>1, EntriesOfOne
    <2>3. ASSUME NEW f, \A q \in Peers(p) : f[q] = Claimed(p)
          PROVE  SumFunctionOnSet(f, Peers(p)) = own
      <3> PICK S, c : S = Peers(p) /\ c = Claimed(p)
        OBVIOUS
      <3>1. IsFiniteSet(S) /\ Cardinality(S) = Children - 1
        BY WorkerSets
      <3>2. SumFunctionOnSet(f, S) = Cardinality(S) * c
        BY <2>2, <2>3, <3>1, SumOfEqual
      <3> QED
        BY <2>2, <3>1, <3>2
    <2>4. ASSUME NEW f, \A q \in Peers(p) : f[q] = Claimed(q)
          PROVE  SumFunctionOnSet(f, Peers(p)) = others
      <3>1. \A q \in Peers(p) : f[q] = (IF MutexEnabled THEN Iterations[q] ELSE 0)
        BY <2>1, <2>4 DEF Peers
      <3> QED
        BY <3>1, EntriesOfPeers
    <2>5. ASSUME NEW t \in CsType
          PROVE  /\ stats[p].sent[t] = IF t = "CS_REPLY" THEN others ELSE own
                 /\ stats[p].received[t] = IF t = "CS_REPLY" THEN own ELSE others
      <3> PICK f, g : /\ f = [q \in Worker |-> Written(p, q, t)]
                      /\ g = [q \in Worker |-> Heard(p, q, t)]
        OBVIOUS
      <3>1. /\ stats[p].sent[t] = SumFunctionOnSet(f, Peers(p))
            /\ stats[p].received[t] = SumFunctionOnSet(g, Peers(p))
        BY <1>1 DEF CountInv, SentOk, ReceivedOk
      <3>2. CASE t = "CS_REPLY"
        <4>1. \A q \in Peers(p) : f[q] = Claimed(q) /\ g[q] = Claimed(p)
          BY <2>1, <3>2 DEF Peers
        <4> QED
          BY <2>3, <2>4, <3>1, <3>2, <4>1
      <3>3. CASE t # "CS_REPLY"
        <4>1. \A q \in Peers(p) : f[q] = Claimed(p) /\ g[q] = Claimed(q)
          BY <2>1, <3>3 DEF Peers
        <4> QED
          BY <2>3, <2>4, <3>1, <3>3, <4>1
      <3> QED
        BY <3>2, <3>3
    <2>6. stats[p].sent \in [CsType -> Nat] /\ stats[p].received \in [CsType -> Nat]
      BY <1>1 DEF CountInv, StatsTypeOK, Statistics
    <2> QED
      BY <2>1, <2>2, <2>5, <2>6
  <1> QED
    BY <1>1, CountAlways, PTL

-----------------------------------------------------------------------------
(* The waits add up. *)

LEMMA OneWaitMore ==
  ASSUME NEW c \in Nat, NEW e \in Nat, NEW w \in Nat, NEW l \in Nat, NEW d \in Nat,
         w >= c * e, w <= e * l, d >= c
  PROVE  /\ w + d >= c * (e + 1)
         /\ w + d <= (e + 1) * Max({l, d})
  <1> PICK m : m = Max({l, d})
    OBVIOUS
  <1>1. m \in Nat /\ l <= m /\ d <= m
    BY MaxOfTwo
  <1>2. c * (e + 1) = c * e + c /\ (e + 1) * m = e * m + m
    BY <1>1
  <1>3. e * l <= e * m
    <2>1. PICK k \in Nat : m = l + k
      <3>1. m - l \in Nat /\ m = l + (m - l)
        BY <1>1
      <3> QED
        BY <3>1
    <2>2. e * m = e * l + e * k
      BY <2>1
    <2>3. e * k \in Nat /\ e * l \in Nat
      BY <2>1
    <2> QED
      BY <2>2, <2>3
  <1> PICK ce, el, em : ce = c * e /\ el = e * l /\ em = e * m
    OBVIOUS
  <1>4. ce \in Nat /\ el \in Nat /\ em \in Nat
    BY <1>1
  <1>5. w + d >= ce + c /\ w + d <= em + m
    BY <1>1, <1>3, <1>4
  <1> QED
    BY <1>2, <1>5

WaitsOk(s) == /\ s.wait_ticks >= (Children - 1) * s.entries
              /\ s.wait_ticks <= s.entries * s.longest_wait

LEMMA WaitsStep ==
  ASSUME MutexInv, WaysInv, WaitInv, StatsTypeOK, WaitsCoverReplies, [StatsNext]_statsVars
  PROVE  WaitsCoverReplies'
  <1>1. /\ TypeOK /\ \A p \in Worker : WaitsOk(stats[p])
    BY DEF MutexInv, WaitsCoverReplies, WaitsOk
  <1> SUFFICES ASSUME NEW p \in Worker PROVE WaitsOk(stats'[p])
    BY DEF WaitsCoverReplies, WaitsOk
  <1>2. ASSUME SameWaits(stats[p], stats'[p]) PROVE WaitsOk(stats'[p])
    BY <1>1, <1>2 DEF WaitsOk, SameWaits
  <1>3. ASSUME NEW n \in Node, NEW m \in Node \ {n}, CountedWrite(n, m) PROVE WaitsOk(stats'[p])
    BY <1>2, <1>3, CountSentFacts DEF CountedWrite, SentOneMore
  <1>4. ASSUME NEW n \in Node, NEW m \in Node \ {n}, CountedDispatch(n, m) PROVE WaitsOk(stats'[p])
    BY <1>2, <1>4, CountReceivedFacts DEF CountedDispatch, ReceivedOneMore
  <1>5. ASSUME NEW n \in Node, CountedEntry(n) PROVE WaitsOk(stats'[p])
    <2>1. /\ EnterCs(n) /\ CountEntry(n) /\ n \in Worker
          /\ pc[n] = "waiting" /\ FirstAndConfirmed(n)
      BY <1>1, <1>5, NodeFacts DEF CountedEntry, EnterCs, TypeOK
    <2> PICK d, c : d = clock[n] - Own(n) /\ c = Children - 1
      OBVIOUS
    <2>2. d \in Nat /\ c \in Nat /\ d >= c /\ clock[n] >= Own(n)
      <3>1. replied[n] \subseteq Peers(n) /\ Own(n) + Cardinality(replied[n]) <= clock[n]
        BY <2>1 DEF WaitInv, WaitOk
      <3>2. replied[n] = Peers(n)
        BY <2>1, <3>1 DEF FirstAndConfirmed
      <3>3. Cardinality(replied[n]) = c /\ c \in Nat
        BY <2>1, <3>2, WorkerSets
      <3>4. Own(n) \in Nat /\ clock[n] \in Nat
        BY <1>1, <2>1, PairTypes
      <3> QED
        BY <3>1, <3>3, <3>4
    <2>3. /\ \A x \in Worker \ {n} : stats'[x] = stats[x]
          /\ stats'[n].entries = stats[n].entries + 1
          /\ stats'[n].wait_ticks = stats[n].wait_ticks + d
          /\ stats'[n].longest_wait = Max({stats[n].longest_wait, d})
      BY <1>1, <2>1, <2>2, CountEntryFacts
    <2>4. CASE p = n
      <3> PICK e, w, l : e = stats[n].entries /\ w = stats[n].wait_ticks /\ l = stats[n].longest_wait
        OBVIOUS
      <3>1. e \in Nat /\ w \in Nat /\ l \in Nat
        BY <2>1 DEF StatsTypeOK, Statistics
      <3>2. w >= c * e /\ w <= e * l
        BY <1>1, <2>1 DEF WaitsOk
      <3>3. w + d >= c * (e + 1) /\ w + d <= (e + 1) * Max({l, d})
        BY <2>2, <3>1, <3>2, OneWaitMore
      <3> QED
        BY <2>3, <2>4, <3>3 DEF WaitsOk
    <2>5. CASE p # n
      BY <1>1, <2>3, <2>5
    <2> QED
      BY <2>4, <2>5
  <1>6. CASE Uncounted \/ UNCHANGED statsVars
    BY <1>1, <1>6 DEF Uncounted, statsVars
  <1> QED
    BY <1>3, <1>4, <1>5, <1>6 DEF StatsNext

(* A wait takes a tick for every other worker at least, and the longest wait *)
(* is no shorter than the mean one, whoever dies (stats_entry, README).      *)
THEOREM WaitsCorrect == StatsSpec => []WaitsCoverReplies
  <1>1. StatsInit => WaitsCoverReplies
    <2> SUFFICES ASSUME StatsInit, NEW p \in Worker PROVE WaitsOk(stats[p])
      BY DEF WaitsCoverReplies, WaitsOk
    <2>1. stats[p].entries = 0 /\ stats[p].wait_ticks = 0 /\ stats[p].longest_wait = 0
      BY DEF StatsInit, NoStatistics
    <2>2. (Children - 1) * 0 = 0 /\ 0 * 0 = 0
      BY WorkerSets
    <2> QED
      BY <2>1, <2>2 DEF WaitsOk
  <1>2. MutexInv /\ WaysInv /\ WaitInv /\ CountInv /\ WaitsCoverReplies /\ [StatsNext]_statsVars
          => WaitsCoverReplies'
    BY WaitsStep DEF CountInv
  <1> QED
    BY <1>1, <1>2, CountAlways, PTL DEF StatsSpec

-----------------------------------------------------------------------------
(* The counters and the pipes. *)

SentBy(t) == [p \in Worker |-> stats[p].sent[t]]
ReceivedBy(t) == [p \in Worker |-> stats[p].received[t]]
PendingOf(t) == [e \in Worker \X Worker |-> Pending(e[1], e[2], t)]

MatchAt(t) == SumFunction(SentBy(t)) = SumFunction(ReceivedBy(t)) + SumFunction(PendingOf(t))

LEMMA MatchDef ==
  /\ CountersMatchPipes <=>
       ((\A p \in Worker : pc[p] # "failed") => \A t \in CsType : MatchAt(t))
  /\ \A t : /\ DOMAIN SentBy(t) = Worker /\ DOMAIN ReceivedBy(t) = Worker
            /\ DOMAIN PendingOf(t) = Worker \X Worker
  BY DEF CountersMatchPipes, MatchAt, SentBy, ReceivedBy, PendingOf

(* Their terms are numbers. *)
LEMMA MatchTypes ==
  ASSUME TypeOK, StatsTypeOK, NEW t \in CsType
  PROVE  /\ \A p \in Worker : SentBy(t)[p] \in Int /\ ReceivedBy(t)[p] \in Int
         /\ \A e \in Worker \X Worker : PendingOf(t)[e] \in Int
  <1>1. \A p \in Worker : SentBy(t)[p] \in Int /\ ReceivedBy(t)[p] \in Int
    BY DEF StatsTypeOK, Statistics, SentBy, ReceivedBy
  <1>2. ASSUME NEW p \in Worker, NEW q \in Worker PROVE Pending(p, q, t) \in Nat
    <2> PICK s : s = channel[p][q]
      OBVIOUS
    <2>1. s \in Seq(Frame)
      BY NodeFacts DEF TypeOK
    <2>2. Count(s, t) \in Nat
      BY <2>1, CountType
    <2> QED
      BY <2>2 DEF Pending, Count
  <1>3. \A e \in Worker \X Worker : PendingOf(t)[e] \in Int
    BY <1>2 DEF PendingOf
  <1> QED
    BY <1>1, <1>3

(* The three sums of a step: more is counted as sent, received or pending. *)
LEMMA MatchMoves ==
  ASSUME TypeOK, TypeOK', StatsTypeOK, StatsTypeOK', NEW t \in CsType, MatchAt(t),
         NEW sent \in BOOLEAN, NEW heard \in BOOLEAN,
         OneTermMore(SentBy(t), SentBy(t)', Worker, sent),
         OneTermMore(ReceivedBy(t), ReceivedBy(t)', Worker, heard),
         \/ ~heard /\ OneTermMore(PendingOf(t), PendingOf(t)', Worker \X Worker, sent)
         \/ ~sent /\ OneTermMore(PendingOf(t)', PendingOf(t), Worker \X Worker, heard)
  PROVE  MatchAt(t)'
  <1> PICK s, r, d, s2, r2, d2 :
        /\ s = SentBy(t) /\ r = ReceivedBy(t) /\ d = PendingOf(t)
        /\ s2 = SentBy(t)' /\ r2 = ReceivedBy(t)' /\ d2 = PendingOf(t)'
    OBVIOUS
  <1>1. IsFiniteSet(Worker) /\ IsFiniteSet(Worker \X Worker)
    BY WorkerSets
  <1>2. /\ \A p \in Worker : s[p] \in Int /\ r[p] \in Int
        /\ \A e \in Worker \X Worker : d[e] \in Int
    BY MatchTypes
  <1>3. \A e \in Worker \X Worker : d2[e] \in Int
    <2>1. ASSUME NEW p \in Worker, NEW q \in Worker PROVE Pending(p, q, t)' \in Nat
      <3> PICK w : w = channel'[p][q]
        OBVIOUS
      <3>1. w \in Seq(Frame)
        <4>1. channel' \in [Node -> [Node -> Seq(Frame)]] /\ p \in Node /\ q \in Node
          BY NodeFacts DEF TypeOK
        <4> QED
          BY <4>1
      <3>2. Count(w, t) \in Nat
        BY <3>1, CountType
      <3> QED
        BY <3>2 DEF Pending, Count
    <2> QED
      BY <2>1 DEF PendingOf
  <1>4. /\ SumFunctionOnSet(s2, Worker) = SumFunctionOnSet(s, Worker) + (IF sent THEN 1 ELSE 0)
        /\ SumFunctionOnSet(r2, Worker) = SumFunctionOnSet(r, Worker) + (IF heard THEN 1 ELSE 0)
    BY <1>1, <1>2, SumGrows
  <1> PICK S, R, D, D2 :
        /\ S = SumFunctionOnSet(s, Worker) /\ R = SumFunctionOnSet(r, Worker)
        /\ D = SumFunctionOnSet(d, Worker \X Worker) /\ D2 = SumFunctionOnSet(d2, Worker \X Worker)
    OBVIOUS
  <1>5. S \in Int /\ R \in Int /\ D \in Int /\ D2 \in Int
    BY <1>1, <1>2, <1>3, SumType
  <1>6. S = R + D
    BY MatchDef DEF MatchAt, SumFunction
  <1>7. D2 = D + (IF sent THEN 1 ELSE 0) - (IF heard THEN 1 ELSE 0)
    <2>1. CASE ~heard /\ OneTermMore(d, d2, Worker \X Worker, sent)
      <3>1. D2 = D + (IF sent THEN 1 ELSE 0)
        BY <1>1, <1>2, <2>1, SumGrows
      <3> QED
        BY <1>5, <2>1, <3>1
    <2>2. CASE ~sent /\ OneTermMore(d2, d, Worker \X Worker, heard)
      <3>1. D = D2 + (IF heard THEN 1 ELSE 0)
        BY <1>1, <1>3, <2>2, SumGrows
      <3> QED
        BY <1>5, <2>2, <3>1
    <2> QED
      BY <2>1, <2>2
  <1>8. S + (IF sent THEN 1 ELSE 0) = R + (IF heard THEN 1 ELSE 0) + D2
    BY <1>5, <1>6, <1>7
  <1>9. /\ DOMAIN s2 = Worker /\ DOMAIN r2 = Worker /\ DOMAIN d2 = Worker \X Worker
    BY DEF SentBy, ReceivedBy, PendingOf
  <1>10. SumFunctionOnSet(s2, Worker) = SumFunctionOnSet(r2, Worker) + D2
    BY <1>4, <1>8
  <1> QED
    BY <1>9, <1>10 DEF MatchAt, SumFunction

(* A sum that stays, term by term. *)
LEMMA NoTermMore ==
  ASSUME NEW f, NEW g, NEW S, \A x \in S : f[x] \in Int, \A x \in S : g[x] = f[x]
  PROVE  OneTermMore(f, g, S, FALSE)
  <1>1. \A x \in S : g[x] = f[x] + 0
    OBVIOUS
  <1> QED
    BY <1>1 DEF OneTermMore

(* What is counted as sent, or as received, by one worker. *)
LEMMA SentTermMore ==
  ASSUME TypeOK, StatsTypeOK, NEW n, NEW type, SentOneMore(n, type), NEW t \in CsType,
         NEW sent \in BOOLEAN, sent <=> n \in Worker /\ t = type
  PROVE  /\ OneTermMore(SentBy(t), SentBy(t)', Worker, sent)
         /\ OneTermMore(ReceivedBy(t), ReceivedBy(t)', Worker, FALSE)
  <1> PICK f, g : f = SentBy(t) /\ g = SentBy(t)'
    OBVIOUS
  <1>1. \A p \in Worker : f[p] = stats[p].sent[t] /\ g[p] = stats'[p].sent[t] /\ f[p] \in Int
    BY MatchTypes DEF SentBy
  <1>2. \A p \in Worker :
          stats'[p].sent[t] = stats[p].sent[t] + (IF p = n /\ t = type THEN 1 ELSE 0)
    BY DEF SentOneMore, OneMore
  <1>3. \A p \in Worker : g[p] = f[p] + (IF sent /\ p = n THEN 1 ELSE 0)
    BY <1>1, <1>2
  <1>4. OneTermMore(f, g, Worker, sent)
    BY <1>3 DEF OneTermMore
  <1> PICK r, r2 : r = ReceivedBy(t) /\ r2 = ReceivedBy(t)'
    OBVIOUS
  <1>5. \A p \in Worker : r[p] \in Int /\ r2[p] = r[p]
    BY MatchTypes DEF ReceivedBy, SentOneMore
  <1>6. OneTermMore(r, r2, Worker, FALSE)
    BY <1>5, NoTermMore
  <1> QED
    BY <1>4, <1>6

LEMMA ReceivedTermMore ==
  ASSUME TypeOK, StatsTypeOK, NEW n, NEW type, ReceivedOneMore(n, type), NEW t \in CsType,
         NEW heard \in BOOLEAN, heard <=> n \in Worker /\ t = type
  PROVE  /\ OneTermMore(SentBy(t), SentBy(t)', Worker, FALSE)
         /\ OneTermMore(ReceivedBy(t), ReceivedBy(t)', Worker, heard)
  <1> PICK f, g : f = ReceivedBy(t) /\ g = ReceivedBy(t)'
    OBVIOUS
  <1>1. \A p \in Worker : f[p] = stats[p].received[t] /\ g[p] = stats'[p].received[t] /\ f[p] \in Int
    BY MatchTypes DEF ReceivedBy
  <1>2. \A p \in Worker :
          stats'[p].received[t] = stats[p].received[t] + (IF p = n /\ t = type THEN 1 ELSE 0)
    BY DEF ReceivedOneMore, OneMore
  <1>3. \A p \in Worker : g[p] = f[p] + (IF heard /\ p = n THEN 1 ELSE 0)
    BY <1>1, <1>2
  <1>4. OneTermMore(f, g, Worker, heard)
    BY <1>3 DEF OneTermMore
  <1> PICK r, r2 : r = SentBy(t) /\ r2 = SentBy(t)'
    OBVIOUS
  <1>5. \A p \in Worker : r[p] \in Int /\ r2[p] = r[p]
    BY MatchTypes DEF SentBy, ReceivedOneMore
  <1>6. OneTermMore(r, r2, Worker, FALSE)
    BY <1>5, NoTermMore
  <1> QED
    BY <1>4, <1>6

(* One pipe with a frame more: the frames pending of type t. *)
LEMMA PendingTermMore ==
  ASSUME TypeOK, NEW t \in CsType, NEW n \in Node, NEW m \in Node,
         \A x, y \in Node : x # n \/ y # m => SamePipe(x, y),
         NEW f \in Frame, Appended(n, m, f),
         NEW more \in BOOLEAN, more <=> n \in Worker /\ m \in Worker /\ f.type = t
  PROVE  OneTermMore(PendingOf(t), PendingOf(t)', Worker \X Worker, more)
  <1> PICK d, d2, e : d = PendingOf(t) /\ d2 = PendingOf(t)' /\ e = <<n, m>>
    OBVIOUS
  <1>1. ASSUME NEW x \in Worker, NEW y \in Worker
        PROVE  d2[<<x, y>>] = d[<<x, y>>] + (IF more /\ <<x, y>> = e THEN 1 ELSE 0)
    <2>1. d[<<x, y>>] = Count(channel[x][y], t) /\ d2[<<x, y>>] = Count(channel'[x][y], t)
      BY DEF PendingOf, Pending, Count
    <2>2. channel[x][y] \in Seq(Frame) /\ Count(channel[x][y], t) \in Nat
      BY PairTypes, CountType
    <2>3. CASE x = n /\ y = m
      <3> PICK s : s = channel[x][y]
        OBVIOUS
      <3>1. channel'[x][y] = Append(s, f)
        BY <2>3 DEF Appended
      <3>2. Count(Append(s, f), t) = Count(s, t) + (IF f.type = t THEN 1 ELSE 0)
        BY <2>2, CountAppend
      <3>3. more <=> f.type = t
        BY <2>3
      <3> QED
        BY <2>1, <2>3, <3>1, <3>2, <3>3
    <2>4. CASE x # n \/ y # m
      <3>1. channel'[x][y] = channel[x][y]
        BY <2>4, NodeFacts DEF SamePipe
      <3>2. <<x, y>> # e
        BY <2>4
      <3> QED
        BY <2>1, <2>2, <3>1, <3>2
    <2> QED
      BY <2>3, <2>4
  <1>2. more => e \in Worker \X Worker
    OBVIOUS
  <1>3. \A z \in Worker \X Worker : d2[z] = d[z] + (IF more /\ z = e THEN 1 ELSE 0)
    BY <1>1
  <1>4. OneTermMore(d, d2, Worker \X Worker, more)
    BY <1>2, <1>3 DEF OneTermMore
  <1> QED
    BY <1>4

(* One pipe with a frame less. *)
LEMMA PendingTermLess ==
  ASSUME TypeOK, NEW t \in CsType, NEW n \in Node, NEW m \in Node,
         \A x, y \in Node : x # n \/ y # m => SamePipe(x, y), Popped(n, m),
         NEW more \in BOOLEAN, more <=> n \in Worker /\ m \in Worker /\ Head(channel[n][m]).type = t
  PROVE  OneTermMore(PendingOf(t)', PendingOf(t), Worker \X Worker, more)
  <1> PICK d, d2, e : d = PendingOf(t) /\ d2 = PendingOf(t)' /\ e = <<n, m>>
    OBVIOUS
  <1>1. ASSUME NEW x \in Worker, NEW y \in Worker
        PROVE  d[<<x, y>>] = d2[<<x, y>>] + (IF more /\ <<x, y>> = e THEN 1 ELSE 0)
    <2>1. d[<<x, y>>] = Count(channel[x][y], t) /\ d2[<<x, y>>] = Count(channel'[x][y], t)
      BY DEF PendingOf, Pending, Count
    <2>2. channel[x][y] \in Seq(Frame) /\ Count(channel[x][y], t) \in Nat
      BY PairTypes, CountType
    <2>3. CASE x = n /\ y = m
      <3> PICK s : s = channel[x][y]
        OBVIOUS
      <3>1. channel'[x][y] = Tail(s) /\ s # <<>>
        BY <2>3 DEF Popped
      <3>2. Count(s, t) = Count(Tail(s), t) + (IF Head(s).type = t THEN 1 ELSE 0)
        BY <2>2, <3>1, CountTail
      <3>3. more <=> Head(s).type = t
        BY <2>3
      <3> QED
        BY <2>1, <2>3, <3>1, <3>2, <3>3
    <2>4. CASE x # n \/ y # m
      <3>1. channel'[x][y] = channel[x][y]
        BY <2>4, NodeFacts DEF SamePipe
      <3>2. <<x, y>> # e
        BY <2>4
      <3> QED
        BY <2>1, <2>2, <3>1, <3>2
    <2> QED
      BY <2>3, <2>4
  <1>2. more => e \in Worker \X Worker
    OBVIOUS
  <1>3. \A z \in Worker \X Worker : d[z] = d2[z] + (IF more /\ z = e THEN 1 ELSE 0)
    BY <1>1
  <1>4. OneTermMore(d2, d, Worker \X Worker, more)
    BY <1>2, <1>3 DEF OneTermMore
  <1> QED
    BY <1>4

(* A step that neither counts nor moves a frame of type t. *)
LEMMA MatchStays ==
  ASSUME TypeOK, TypeOK', StatsTypeOK, StatsTypeOK', NEW t \in CsType, MatchAt(t),
         UNCHANGED channel,
         \A p \in Worker : stats'[p].sent = stats[p].sent /\ stats'[p].received = stats[p].received
  PROVE  MatchAt(t)'
  <1>1. SentBy(t)' = SentBy(t) /\ ReceivedBy(t)' = ReceivedBy(t)
    BY DEF SentBy, ReceivedBy
  <1>2. PendingOf(t)' = PendingOf(t)
    BY DEF PendingOf, Pending
  <1> QED
    BY <1>1, <1>2 DEF MatchAt

(* A frame written is counted and pending; a frame read is neither. *)
LEMMA MatchWritten ==
  ASSUME TypeOK, TypeOK', WaysInv, StatsTypeOK, NEW t \in CsType, MatchAt(t),
         NEW n \in Node, NEW m \in Node \ {n}, CountedWrite(n, m)
  PROVE  MatchAt(t)'
  <1> PICK type, f : type = outbox[n].type /\ f = [type |-> outbox[n].type, time |-> clock[n]]
    OBVIOUS
  <1>1. /\ WriteFrame(n, m) /\ f \in Frame /\ f.type = type /\ Appended(n, m, f)
        /\ \A x, y \in Node : x # n \/ y # m => SamePipe(x, y)
    BY WriteFacts DEF CountedWrite
  <1>2. SentOneMore(n, type) /\ StatsTypeOK'
    BY CountSentFacts DEF CountedWrite
  <1>3. type \in CsType /\ n \in Worker => m \in Worker
    <2> SUFFICES ASSUME n \in Worker, type \in CsType PROVE m # PARENT_ID
      BY NodeFacts
    <2>1. Has(Way(n, m), type)
      <3>1. UnderWay(n, m, type)
        BY <1>1, WriteFacts DEF UnderWay
      <3> QED
        BY <3>1, WayType
    <2> QED
      BY <2>1 DEF WaysInv, WayOk, OnWay
  <1> PICK sent \in BOOLEAN : sent <=> n \in Worker /\ t = type
    OBVIOUS
  <1>4. /\ OneTermMore(SentBy(t), SentBy(t)', Worker, sent)
        /\ OneTermMore(ReceivedBy(t), ReceivedBy(t)', Worker, FALSE)
    BY <1>2, SentTermMore
  <1>5. sent <=> n \in Worker /\ m \in Worker /\ f.type = t
    BY <1>1, <1>3
  <1>6. OneTermMore(PendingOf(t), PendingOf(t)', Worker \X Worker, sent)
    BY <1>1, <1>5, PendingTermMore
  <1> QED
    BY <1>2, <1>4, <1>6, MatchMoves

LEMMA MatchRead ==
  ASSUME TypeOK, TypeOK', StatsTypeOK, NEW t \in CsType, MatchAt(t),
         NEW n \in Node, NEW m \in Node \ {n}, CountedDispatch(n, m), ~RejectFrame(n, m)
  PROVE  MatchAt(t)'
  <1> PICK type : type = Head(channel[m][n]).type
    OBVIOUS
  <1>1. Takes(n, m, type)
    BY DEF CountedDispatch, Dispatch, ReceiveStarted, ReceiveDone, ReceiveRequest, ReceiveReply,
           ReceiveRelease, Takes
  <1>2. /\ Popped(m, n) /\ \A x, y \in Node : x # m \/ y # n => SamePipe(x, y)
    BY <1>1, TakesFacts
  <1>3. ReceivedOneMore(n, type) /\ StatsTypeOK'
    BY CountReceivedFacts DEF CountedDispatch
  <1>4. type \in CsType => n \in Worker /\ m \in Worker
    BY <1>1, NodeFacts DEF Takes, Accepts
  <1> PICK heard \in BOOLEAN : heard <=> n \in Worker /\ t = type
    OBVIOUS
  <1>5. /\ OneTermMore(SentBy(t), SentBy(t)', Worker, FALSE)
        /\ OneTermMore(ReceivedBy(t), ReceivedBy(t)', Worker, heard)
    BY <1>3, ReceivedTermMore
  <1>6. heard <=> m \in Worker /\ n \in Worker /\ Head(channel[m][n]).type = t
    BY <1>4
  <1>7. OneTermMore(PendingOf(t)', PendingOf(t), Worker \X Worker, heard)
    BY <1>2, <1>6, PendingTermLess
  <1> QED
    BY <1>3, <1>5, <1>7, MatchMoves

(* A frame is refused by a worker that fails, or by the parent, that counts none. *)
LEMMA MatchRefused ==
  ASSUME TypeOK, TypeOK', StatsTypeOK, NEW t \in CsType, MatchAt(t),
         NEW n \in Node, NEW m \in Node \ {n}, CountedDispatch(n, m), RejectFrame(n, m),
         \A p \in Worker : pc'[p] # "failed"
  PROVE  MatchAt(t)'
  <1> PICK type : type = Head(channel[m][n]).type
    OBVIOUS
  <1>1. UNCHANGED channel /\ pc' = [pc EXCEPT ![n] = IF n = PARENT_ID THEN "stopping" ELSE "failed"]
    BY DEF RejectFrame, Fatal, Fail, Goto
  <1>2. n \notin Worker
    BY <1>1, NodeFacts DEF TypeOK
  <1>3. ReceivedOneMore(n, type) /\ StatsTypeOK'
    BY CountReceivedFacts DEF CountedDispatch
  <1> PICK heard \in BOOLEAN : heard <=> n \in Worker /\ t = type
    OBVIOUS
  <1>4. /\ OneTermMore(SentBy(t), SentBy(t)', Worker, FALSE)
        /\ OneTermMore(ReceivedBy(t), ReceivedBy(t)', Worker, heard)
    BY <1>3, ReceivedTermMore
  <1>5. heard = FALSE
    BY <1>2
  <1>6. OneTermMore(PendingOf(t), PendingOf(t)', Worker \X Worker, FALSE)
    <2> PICK d, d2 : d = PendingOf(t) /\ d2 = PendingOf(t)'
      OBVIOUS
    <2>1. d2 = d
      BY <1>1 DEF PendingOf, Pending
    <2>2. \A e \in Worker \X Worker : d[e] \in Int /\ d2[e] = d[e]
      BY <2>1, MatchTypes
    <2>3. OneTermMore(d, d2, Worker \X Worker, FALSE)
      BY <2>2, NoTermMore
    <2> QED
      BY <2>3
  <1> QED
    BY <1>3, <1>4, <1>5, <1>6, MatchMoves

LEMMA MatchStep ==
  ASSUME MutexInv, TypeOK', WaysInv, WaitInv, CountInv, StatsTypeOK', CountersMatchPipes,
         [StatsNext]_statsVars
  PROVE  CountersMatchPipes'
  <1>1. TypeOK /\ StatsTypeOK
    BY DEF MutexInv, CountInv
  <1> SUFFICES ASSUME \A p \in Worker : pc'[p] # "failed", NEW t \in CsType PROVE MatchAt(t)'
    BY DEF CountersMatchPipes, MatchAt, SentBy, ReceivedBy, PendingOf
  <1>2. MatchAt(t)
    <2>1. \A p \in Worker : pc[p] # "failed"
      BY <1>1, StatsSteps, StepMoves DEF Moves, WorkerMoves, Over
    <2> QED
      BY <2>1, MatchDef
  <1>3. ASSUME NEW n \in Node, NEW m \in Node \ {n}, CountedWrite(n, m) PROVE MatchAt(t)'
    BY <1>1, <1>2, <1>3, MatchWritten
  <1>4. ASSUME NEW n \in Node, NEW m \in Node \ {n}, CountedDispatch(n, m) PROVE MatchAt(t)'
    <2>1. CASE RejectFrame(n, m)
      BY <1>1, <1>2, <1>4, <2>1, MatchRefused
    <2>2. CASE ~RejectFrame(n, m)
      BY <1>1, <1>2, <1>4, <2>2, MatchRead
    <2> QED
      BY <2>1, <2>2
  <1>5. ASSUME NEW n \in Node, CountedEntry(n) PROVE MatchAt(t)'
    <2>1. \A p \in Worker : stats'[p].sent = stats[p].sent /\ stats'[p].received = stats[p].received
      BY <1>1, <1>5 DEF CountedEntry, CountEntry, StatsTypeOK, Statistics
    <2>2. UNCHANGED channel
      BY <1>5 DEF CountedEntry, EnterCs
    <2> QED
      BY <1>1, <1>2, <2>1, <2>2, MatchStays
  <1>6. CASE Uncounted \/ UNCHANGED statsVars
    <2>1. UNCHANGED stats
      BY <1>6 DEF Uncounted, statsVars
    <2>2. UNCHANGED channel
      <3>1. ASSUME NEW n \in Node,
                   \/ AnnounceStarted(n) \/ PassStarted(n) \/ RequestCs(n) \/ ReleaseCs(n)
                   \/ PrintOnly(n) \/ AnnounceDone(n) \/ PassDone(n)
                   \/ SendOverflow(n) \/ PeersClosed(n)
                   \/ \E m \in Node \ {n} : BrokenPipe(n, m)
            PROVE  UNCHANGED channel
        BY <3>1 DEF AnnounceStarted, PassStarted, RequestCs, ReleaseCs, PrintOnly, AnnounceDone,
                    PassDone, SendOverflow, PeersClosed, BrokenPipe, Fatal
      <3>2. CASE Supervision \/ Signals \/ UNCHANGED vars
        BY <3>2 DEF Supervision, Signals, vars
      <3> QED
        BY <1>6, <3>1, <3>2 DEF Uncounted, statsVars
    <2> QED
      BY <1>1, <1>2, <2>1, <2>2, MatchStays
  <1> QED
    BY <1>3, <1>4, <1>5, <1>6 DEF StatsNext

LEMMA MatchInit == StatsInit => CountersMatchPipes
  <1> SUFFICES ASSUME StatsInit, NEW t \in CsType PROVE MatchAt(t)
    BY DEF CountersMatchPipes, MatchAt, SentBy, ReceivedBy, PendingOf
  <1> PICK s, r, d : s = SentBy(t) /\ r = ReceivedBy(t) /\ d = PendingOf(t)
    OBVIOUS
  <1>1. \A p \in Worker : s[p] = 0 /\ r[p] = 0
    BY DEF StatsInit, NoStatistics, SentBy, ReceivedBy
  <1>2. \A e \in Worker \X Worker : d[e] = 0
    <2>1. ASSUME NEW x \in Worker, NEW y \in Worker PROVE Pending(x, y, t) = 0
      <3>1. channel[x][y] = <<>>
        BY NodeFacts DEF StatsInit, Init
      <3> QED
        BY <3>1, CountEmpty DEF Pending, Count
    <2> QED
      BY <2>1 DEF PendingOf
  <1> PICK W, P : W = Worker /\ P = Worker \X Worker
    OBVIOUS
  <1>3. /\ IsFiniteSet(W) /\ Cardinality(W) \in Nat
        /\ IsFiniteSet(P) /\ Cardinality(P) \in Nat
    BY WorkerSets, FS_CardinalityType
  <1>4. /\ SumFunctionOnSet(s, W) = Cardinality(W) * 0
        /\ SumFunctionOnSet(r, W) = Cardinality(W) * 0
        /\ SumFunctionOnSet(d, P) = Cardinality(P) * 0
    BY <1>1, <1>2, <1>3, SumOfEqual
  <1>5. Cardinality(W) * 0 = 0 /\ Cardinality(P) * 0 = 0
    BY <1>3
  <1>6. DOMAIN s = W /\ DOMAIN r = W /\ DOMAIN d = P
    BY MatchDef
  <1> QED
    BY <1>4, <1>5, <1>6 DEF MatchAt, SumFunction

(* As long as no worker has failed, what the counters say was sent and not   *)
(* received is what the pipes hold, of each type and at every moment          *)
(* (stats_message, called by ipc.c for every frame written or read).         *)
THEOREM CountersCorrect == StatsSpec => []CountersMatchPipes
  <1>1. MutexInv /\ MutexInv' /\ WaysInv /\ WaitInv /\ CountInv /\ CountInv'
          /\ CountersMatchPipes /\ [StatsNext]_statsVars
          => CountersMatchPipes'
    BY MatchStep DEF MutexInv, CountInv
  <1> QED
    BY <1>1, MatchInit, CountAlways, PTL DEF StatsSpec
===============================================================================
