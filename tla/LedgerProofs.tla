----------------------------- MODULE LedgerProofs -----------------------------
(***************************************************************************)
(* Lemmas about Ledger, for every limit: what extending, debiting and       *)
(* crediting a history make of it.                                          *)
(***************************************************************************)
EXTENDS Ledger, SequenceTheorems, FiniteSetTheorems, TLAPS

-----------------------------------------------------------------------------
(* Sums over finite sets, for SumFunctionOnSet of the community modules. *)

(* g is a sum of f: it may be taken over the elements in any order. *)
Adds(g, f, S) ==
  /\ g \in [SUBSET S -> Int]
  /\ g[{}] = 0
  /\ \A T \in SUBSET S : \A x \in T : g[T] = f[x] + g[T \ {x}]

(* Induction over the subsets of a finite set, for a set of them. *)
LEMMA SubsetInduction ==
  ASSUME NEW S, IsFiniteSet(S), NEW Good \in SUBSET (SUBSET S),
         {} \in Good,
         \A T \in SUBSET S : T # {} /\ (\A x \in T : T \ {x} \in Good) => T \in Good
  PROVE  Good = SUBSET S
<1> SUFFICES ASSUME (SUBSET S) \ Good # {} PROVE FALSE
  OBVIOUS
<1> DEFINE Bad == (SUBSET S) \ Good
<1>1. IsWellFoundedOn(StrictSubsetOrdering(S), SUBSET S)
  <2>1. IsWellFoundedOn(StrictSubsetOrdering(S), FiniteSubsetsOf(S))
    BY FS_StrictSubsetOrderingWellFounded
  <2>2. FiniteSubsetsOf(S) = SUBSET S
    BY FS_FiniteSubsetsOfFinite
  <2> QED BY <2>1, <2>2
<1>2. Bad \subseteq SUBSET S /\ Bad # {}
  OBVIOUS
<1>3. PICK T \in Bad : \A U \in Bad : ~ (<<U, T>> \in StrictSubsetOrdering(S))
  <2> HIDE DEF Bad
  <2> QED BY <1>1, <1>2, WFMin
<1>4. \A x \in T : T \ {x} \in Good
  <2> SUFFICES ASSUME NEW x \in T, T \ {x} \notin Good PROVE FALSE
    OBVIOUS
  <2>1. T \ {x} \in Bad /\ T \in SUBSET S
    OBVIOUS
  <2>2. <<T \ {x}, T>> \in StrictSubsetOrdering(S)
    BY <2>1 DEF StrictSubsetOrdering
  <2> QED BY <1>3, <2>1, <2>2
<1> QED BY <1>4

LEMMA SumExists ==
  ASSUME NEW S, IsFiniteSet(S), NEW f, \A x \in S : f[x] \in Int
  PROVE  \E g : Adds(g, f, S)
<1> DEFINE Good == {T \in SUBSET S : \E g : Adds(g, f, T)}
<1>1. {} \in Good
  <2> DEFINE g == [T \in SUBSET {} |-> 0]
  <2>1. Adds(g, f, {})
    BY DEF Adds
  <2> QED BY <2>1
<1>2. ASSUME NEW T \in SUBSET S, NEW y \in T, T \ {y} \in Good PROVE T \in Good
  <2>1. PICK h : Adds(h, f, T \ {y})
    BY <1>2
  <2> DEFINE g == [U \in SUBSET T |-> IF y \in U THEN f[y] + h[U \ {y}] ELSE h[U]]
  <2>2. \A U \in SUBSET T : U \ {y} \in SUBSET (T \ {y}) /\ (y \notin U => U \in SUBSET (T \ {y}))
    OBVIOUS
  <2>3. f[y] \in Int /\ h \in [SUBSET (T \ {y}) -> Int] /\ h[{}] = 0
    BY <2>1 DEF Adds
  <2>4. \A U \in SUBSET T : g[U] \in Int
    BY <2>2, <2>3
  <2>5. \A U \in SUBSET T : \A x \in U : g[U] = f[x] + g[U \ {x}]
    <3> SUFFICES ASSUME NEW U \in SUBSET T, NEW x \in U PROVE g[U] = f[x] + g[U \ {x}]
      OBVIOUS
    <3>1. CASE x = y
      <4>1. U \ {y} \in SUBSET T /\ y \notin U \ {y}
        OBVIOUS
      <4> QED BY <3>1, <4>1
    <3>2. CASE x # y /\ y \notin U
      <4>1. U \in SUBSET (T \ {y}) /\ U \ {x} \in SUBSET T /\ y \notin U \ {x}
        BY <3>2
      <4>2. h[U] = f[x] + h[U \ {x}]
        BY <2>1, <4>1 DEF Adds
      <4> QED BY <3>2, <4>1, <4>2
    <3>3. CASE x # y /\ y \in U
      <4> DEFINE V == U \ {y}
      <4>1. V \in SUBSET (T \ {y}) /\ x \in V /\ V \ {x} \in SUBSET (T \ {y}) /\ (U \ {x}) \ {y} = V \ {x}
        BY <3>3
      <4>2. h[V] = f[x] + h[V \ {x}]
        BY <2>1, <4>1 DEF Adds
      <4>3. g[U] = f[y] + h[V]
        BY <3>3
      <4>4. g[U \ {x}] = f[y] + h[V \ {x}]
        BY <3>3, <4>1
      <4>5. h[V \ {x}] \in Int /\ f[x] \in Int
        BY <2>3, <4>1
      <4> HIDE DEF g, V
      <4> QED BY <4>2, <4>3, <4>4, <4>5, <2>3
    <3> QED BY <3>1, <3>2, <3>3
  <2>6. Adds(g, f, T)
    <3>1. g \in [SUBSET T -> Int]
      <4>1. g = [U \in SUBSET T |-> g[U]]
        OBVIOUS
      <4> HIDE DEF g
      <4> QED BY <2>4, <4>1
    <3>2. g[{}] = 0
      BY <2>3
    <3> HIDE DEF g
    <3> QED BY <3>1, <3>2, <2>5 DEF Adds
  <2> HIDE DEF g
  <2> QED BY <2>6
<1>3. \A T \in SUBSET S : T # {} /\ (\A x \in T : T \ {x} \in Good) => T \in Good
  <2> HIDE DEF Good
  <2> QED BY <1>2
<1>4. Good = SUBSET S
  <2>1. Good \in SUBSET (SUBSET S)
    OBVIOUS
  <2> HIDE DEF Good
  <2> QED BY <1>1, <1>3, <2>1, SubsetInduction
<1> QED BY <1>4

(* The definition by choice is such a sum, and the only one. *)
LEMMA SumIsAny ==
  ASSUME NEW S, IsFiniteSet(S), NEW f, NEW g, Adds(g, f, S)
  PROVE  SumFunctionOnSet(f, S) = g[S]
<1> DEFINE Step(h, T) == IF T = {} THEN 0
                         ELSE f[CHOOSE x \in T : TRUE] + h[T \ {CHOOSE x \in T : TRUE}]
           sum == CHOOSE h : h = [T \in SUBSET S |-> Step(h, T)]
<1>1. g = [T \in SUBSET S |-> Step(g, T)]
  <2>1. \A T \in SUBSET S : g[T] = Step(g, T)
    <3> SUFFICES ASSUME NEW T \in SUBSET S PROVE g[T] = Step(g, T)
      OBVIOUS
    <3>1. CASE T = {}
      BY <3>1 DEF Adds
    <3>2. CASE T # {}
      <4>1. (CHOOSE x \in T : TRUE) \in T
        BY <3>2
      <4> QED BY <3>2, <4>1 DEF Adds
    <3> QED BY <3>1, <3>2
  <2>2. g = [T \in SUBSET S |-> g[T]]
    BY DEF Adds
  <2> HIDE DEF Step
  <2> QED BY <2>1, <2>2
<1>2. sum = [T \in SUBSET S |-> Step(sum, T)]
  <2> HIDE DEF Step
  <2> QED BY <1>1
<1>3. SumFunctionOnSet(f, S) = sum[S]
  BY DEF SumFunctionOnSet, FoldFunctionOnSet, MapThenFoldSet
<1> HIDE DEF sum
<1> DEFINE Good == {T \in SUBSET S : sum[T] = g[T]}
<1>4. {} \in Good
  BY <1>2 DEF Adds
<1>5. \A T \in SUBSET S : T # {} /\ (\A x \in T : T \ {x} \in Good) => T \in Good
  <2> SUFFICES ASSUME NEW T \in SUBSET S, T # {}, \A x \in T : T \ {x} \in Good
               PROVE  sum[T] = g[T]
    OBVIOUS
  <2> DEFINE x == CHOOSE x \in T : TRUE
  <2>1. x \in T
    OBVIOUS
  <2>2. sum[T] = f[x] + sum[T \ {x}]
    BY <1>2
  <2>3. sum[T \ {x}] = g[T \ {x}]
    BY <2>1
  <2> QED BY <2>1, <2>2, <2>3 DEF Adds
<1>6. Good = SUBSET S
  <2>1. Good \in SUBSET (SUBSET S)
    OBVIOUS
  <2> HIDE DEF Good
  <2> QED BY <1>4, <1>5, <2>1, SubsetInduction
<1> QED BY <1>3, <1>6

LEMMA SumEmpty == \A f : SumFunctionOnSet(f, {}) = 0
<1> TAKE f
<1>1. IsFiniteSet({})
  BY FS_EmptySet
<1>2. PICK g : Adds(g, f, {})
  BY <1>1, SumExists
<1>3. SumFunctionOnSet(f, {}) = g[{}]
  BY <1>1, <1>2, SumIsAny
<1> QED BY <1>2, <1>3 DEF Adds

(* One summand at a time, in any order. *)
LEMMA SumInsert ==
  ASSUME NEW S, IsFiniteSet(S), NEW x, x \notin S,
         NEW f, \A y \in S \cup {x} : f[y] \in Int
  PROVE  /\ SumFunctionOnSet(f, S) \in Int
         /\ SumFunctionOnSet(f, S \cup {x}) = f[x] + SumFunctionOnSet(f, S)
<1> DEFINE T == S \cup {x}
<1>1. IsFiniteSet(T)
  BY FS_AddElement
<1>2. PICK g : Adds(g, f, T)
  BY <1>1, SumExists
<1>3. SumFunctionOnSet(f, T) = g[T]
  BY <1>1, <1>2, SumIsAny
<1> DEFINE h == [U \in SUBSET S |-> g[U]]
<1>4. Adds(h, f, S)
  BY <1>2 DEF Adds
<1>5. SumFunctionOnSet(f, S) = h[S]
  <2> HIDE DEF h
  <2> QED BY <1>4, SumIsAny
<1>6. h[S] = g[S] /\ S = T \ {x} /\ S \in SUBSET T /\ x \in T /\ T \in SUBSET T
  OBVIOUS
<1>7. g[T] = f[x] + g[S] /\ g[S] \in Int
  BY <1>2, <1>6 DEF Adds
<1> HIDE DEF h
<1> QED BY <1>3, <1>5, <1>6, <1>7

LEMMA SumType ==
  ASSUME NEW S, IsFiniteSet(S), NEW f, \A y \in S : f[y] \in Int
  PROVE  SumFunctionOnSet(f, S) \in Int
<1>1. PICK g : Adds(g, f, S)
  BY SumExists
<1>2. SumFunctionOnSet(f, S) = g[S]
  BY <1>1, SumIsAny
<1> QED BY <1>1, <1>2 DEF Adds

(* Only the summands matter. *)
LEMMA SumSame ==
  ASSUME NEW S, IsFiniteSet(S), NEW f, NEW g, \A y \in S : f[y] \in Int /\ f[y] = g[y]
  PROVE  SumFunctionOnSet(f, S) = SumFunctionOnSet(g, S)
<1>1. PICK h : Adds(h, f, S)
  BY SumExists
<1>2. Adds(h, g, S)
  BY <1>1 DEF Adds
<1> QED BY <1>1, <1>2, SumIsAny

(* One summand changed. *)
LEMMA SumChange ==
  ASSUME NEW S, IsFiniteSet(S), NEW f, NEW g, NEW x \in S, NEW d \in Int,
         \A y \in S : f[y] \in Int,
         \A y \in S : g[y] = IF y = x THEN f[y] + d ELSE f[y]
  PROVE  SumFunctionOnSet(g, S) = SumFunctionOnSet(f, S) + d
<1> DEFINE R == S \ {x}
<1>1. IsFiniteSet(R) /\ x \notin R /\ R \cup {x} = S
  BY FS_RemoveElement
<1>2. \A y \in R : g[y] \in Int /\ g[y] = f[y]
  OBVIOUS
<1>3. \A y \in R \cup {x} : f[y] \in Int /\ g[y] \in Int
  OBVIOUS
<1>4. SumFunctionOnSet(g, R) = SumFunctionOnSet(f, R)
  <2> HIDE DEF R
  <2> QED BY <1>1, <1>2, SumSame
<1>5. /\ SumFunctionOnSet(f, R) \in Int
      /\ SumFunctionOnSet(f, R \cup {x}) = f[x] + SumFunctionOnSet(f, R)
      /\ SumFunctionOnSet(g, R \cup {x}) = g[x] + SumFunctionOnSet(g, R)
  <2> HIDE DEF R
  <2> QED BY <1>1, <1>3, SumInsert
<1> HIDE DEF R
<1>6. g[x] = f[x] + d /\ f[x] \in Int
  OBVIOUS
<1>7. /\ SumFunctionOnSet(f, S) = f[x] + SumFunctionOnSet(f, R)
      /\ SumFunctionOnSet(g, S) = g[x] + SumFunctionOnSet(f, R)
  BY <1>1, <1>4, <1>5
<1>8. SumFunctionOnSet(f, R) \in Int
  BY <1>5
<1> QED BY <1>6, <1>7, <1>8

(* The same of the functions that are summed up. *)
LEMMA SumOfNone == \A f : DOMAIN f = {} => SumFunction(f) = 0
  BY SumEmpty DEF SumFunction

LEMMA SumOneMore ==
  ASSUME NEW S, IsFiniteSet(S), NEW x, x \notin S, NEW f, NEW g,
         DOMAIN f = S, DOMAIN g = S \cup {x},
         \A y \in S : f[y] \in Int /\ g[y] = f[y], g[x] \in Int
  PROVE  SumFunction(f) \in Int /\ SumFunction(g) = SumFunction(f) + g[x]
<1>1. \A y \in S \cup {x} : g[y] \in Int
  OBVIOUS
<1>2. /\ SumFunctionOnSet(g, S) \in Int
      /\ SumFunctionOnSet(g, S \cup {x}) = g[x] + SumFunctionOnSet(g, S)
  BY <1>1, SumInsert
<1>3. SumFunctionOnSet(f, S) = SumFunctionOnSet(g, S)
  BY SumSame
<1> QED
  BY <1>2, <1>3 DEF SumFunction

LEMMA SumOneChanged ==
  ASSUME NEW S, IsFiniteSet(S), NEW x \in S, NEW d \in Int, NEW f, NEW g,
         DOMAIN f = S, DOMAIN g = S, \A y \in S : f[y] \in Int,
         \A y \in S : g[y] = IF y = x THEN f[y] + d ELSE f[y]
  PROVE  SumFunction(f) \in Int /\ SumFunction(g) = SumFunction(f) + d
<1>1. SumFunctionOnSet(g, S) = SumFunctionOnSet(f, S) + d
  BY SumChange
<1>2. SumFunctionOnSet(f, S) \in Int
  BY SumType
<1> QED
  BY <1>1, <1>2 DEF SumFunction

-----------------------------------------------------------------------------
(* Histories keep their type. *)

LEMMA MaxOfTwo ==
  ASSUME NEW a \in Int, NEW b \in Int
  PROVE  /\ Max({a, b}) \in Int
         /\ Max({a, b}) = a \/ Max({a, b}) = b
         /\ a <= Max({a, b}) /\ b <= Max({a, b})
  <1>1. \E x \in {a, b} : \A y \in {a, b} : x >= y
    <2>1. CASE a >= b
      BY <2>1
    <2>2. CASE ~(a >= b)
      BY <2>2
    <2> QED
      BY <2>1, <2>2
  <1>2. Max({a, b}) \in {a, b} /\ \A y \in {a, b} : Max({a, b}) >= y
    BY <1>1 DEF Max
  <1> QED
    BY <1>2

(* A finite set of integers that is not empty has a maximum. *)
LEMMA MaxExists ==
  ASSUME NEW S \in SUBSET Int, IsFiniteSet(S), S # {}
  PROVE  /\ Max(S) \in S
         /\ \A y \in S : y <= Max(S)
  <1> DEFINE HasMax(T) == T = {} \/ \E x \in T : \A y \in T : x >= y
             Good == {T \in SUBSET S : HasMax(T)}
  <1>1. ASSUME NEW T \in SUBSET S, T # {}, \A x \in T : T \ {x} \in Good PROVE T \in Good
    <2>1. PICK x : x \in T
      BY <1>1
    <2>2. CASE T \ {x} = {}
      <3>1. \A y \in T : y = x
        BY <2>2
      <3>2. x >= x
        BY <2>1
      <3> QED
        BY <2>1, <3>1, <3>2
    <2>3. CASE T \ {x} # {}
      <3>1. PICK z \in T \ {x} : \A y \in T \ {x} : z >= y
        BY <1>1, <2>1, <2>3
      <3>2. x \in Int /\ z \in Int /\ T \subseteq Int
        BY <2>1
      <3>3. CASE z >= x
        BY <3>1, <3>3
      <3>4. CASE ~(z >= x)
        <4>1. x >= x /\ \A y \in T \ {x} : x >= y
          BY <3>1, <3>2, <3>4
        <4> QED
          BY <2>1, <4>1
      <3> QED
        BY <3>3, <3>4
    <2> QED
      BY <2>2, <2>3
  <1>2. {} \in Good
    OBVIOUS
  <1>3. Good \in SUBSET (SUBSET S)
    OBVIOUS
  <1> HIDE DEF Good
  <1>4. Good = SUBSET S
    BY <1>1, <1>2, <1>3, SubsetInduction
  <1>5. S \in Good
    BY <1>4
  <1>6. \E x \in S : \A y \in S : x >= y
    BY <1>5 DEF Good
  <1>7. Max(S) \in S /\ \A y \in S : Max(S) >= y
    BY <1>6 DEF Max
  <1>8. Max(S) \in Int /\ \A y \in S : y \in Int
    BY <1>7
  <1> QED
    BY <1>7, <1>8

LEMMA BalanceTFacts ==
  /\ MaxBalance \in Nat /\ HistoryLimit \in Nat
  /\ BalanceT \subseteq Int /\ 0 \in BalanceT
  BY LedgerAssumption DEF BalanceT

LEMMA OpeningType ==
  ASSUME NEW balance \in BalanceT
  PROVE  Opening(balance) \in History
  <1>1. [balance |-> balance, pending_in |-> 0] \in BalanceState
    BY BalanceTFacts DEF BalanceState
  <1> QED
    BY <1>1, BalanceTFacts DEF Opening, History

(* An extended history is a history: it reaches the time, keeps what it held, *)
(* and repeats its last balance with nothing pending.                         *)
LEMMA ExtendType ==
  ASSUME NEW ledger \in History, NEW time \in Nat, FitsHistory(time)
  PROVE  /\ Extend(ledger, time) \in History
         /\ time + 1 \in DOMAIN Extend(ledger, time)
         /\ Len(ledger) <= Len(Extend(ledger, time))
         /\ \A i \in DOMAIN ledger :
              i \in DOMAIN Extend(ledger, time) /\ Extend(ledger, time)[i] = ledger[i]
         /\ Closing(Extend(ledger, time)).balance = Closing(ledger).balance
  <1> DEFINE length == Max({Len(ledger), time + 1})
             e == Extend(ledger, time)
  <1>1. ledger \in Seq(BalanceState) /\ Len(ledger) \in Nat /\ Len(ledger) \in 1..(HistoryLimit + 1)
    BY DEF History
  <1>2. /\ length \in Int /\ (length = Len(ledger) \/ length = time + 1)
        /\ Len(ledger) <= length /\ time + 1 <= length
    BY <1>1, MaxOfTwo
  <1>3. length \in 1..(HistoryLimit + 1)
    BY <1>1, <1>2, BalanceTFacts DEF FitsHistory
  <1> HIDE DEF length
  <1>4. Closing(ledger) \in BalanceState
    BY <1>1 DEF Closing
  <1>5. [balance |-> Closing(ledger).balance, pending_in |-> 0] \in BalanceState
    BY <1>4, BalanceTFacts DEF BalanceState
  <1>6. e = [i \in 1..length |->
               IF i <= Len(ledger) THEN ledger[i]
               ELSE [balance |-> Closing(ledger).balance, pending_in |-> 0]]
    BY DEF Extend, length
  <1>7. e \in [1..length -> BalanceState]
    BY <1>1, <1>2, <1>3, <1>5, <1>6
  <1>8. e \in Seq(BalanceState) /\ Len(e) = length /\ DOMAIN e = 1..length
    BY <1>3, <1>7
  <1>9. e \in History
    BY <1>3, <1>8 DEF History
  <1>10. \A i \in DOMAIN ledger : i \in DOMAIN e /\ e[i] = ledger[i]
    BY <1>1, <1>2, <1>6, <1>8
  <1>11. Closing(e).balance = Closing(ledger).balance
    BY <1>1, <1>2, <1>3, <1>6, <1>8 DEF Closing
  <1> QED
    BY <1>2, <1>3, <1>8, <1>9, <1>10, <1>11

(* A debit moves the balance of its time by the amount, and nothing else.     *)
LEMMA DebitType ==
  ASSUME NEW ledger \in History, NEW time \in Nat, NEW amount \in Int,
         CanDebit(ledger, time, amount)
  PROVE  /\ Debit(ledger, time, amount) \in History
         /\ DOMAIN Debit(ledger, time, amount) = DOMAIN Extend(ledger, time)
  <1> DEFINE e == Extend(ledger, time)
  <1>1. FitsHistory(time) /\ e[time + 1].balance - amount \in BalanceT
    BY DEF CanDebit, FitsBalance
  <1>2. e \in History /\ time + 1 \in DOMAIN e
    BY <1>1, ExtendType
  <1> HIDE DEF e
  <1>3. e \in Seq(BalanceState) /\ e[time + 1] \in BalanceState /\ time + 1 \in 1..Len(e)
    BY <1>2 DEF History
  <1> DEFINE state == [e[time + 1] EXCEPT !.balance = @ - amount]
             d == [e EXCEPT ![time + 1] = state]
  <1>4. state \in BalanceState
    BY <1>1, <1>3 DEF BalanceState
  <1> HIDE DEF state
  <1>5. d \in Seq(BalanceState) /\ Len(d) = Len(e) /\ DOMAIN d = DOMAIN e
    BY <1>3, <1>4, ExceptSeq
  <1>6. d \in History
    BY <1>2, <1>5 DEF History
  <1>7. Debit(ledger, time, amount) = d
    BY DEF Debit, e, state
  <1> QED
    BY <1>5, <1>6, <1>7 DEF e

(* A credit needs every amount it writes to fit, and then it is a history.    *)
LEMMA CreditType ==
  ASSUME NEW ledger \in History, NEW sent \in Nat, NEW received \in Nat, NEW amount \in Int,
         CanCredit(ledger, sent, received, amount)
  PROVE  /\ Credit(ledger, sent, received, amount) \in History
         /\ DOMAIN Credit(ledger, sent, received, amount) = DOMAIN Extend(ledger, received)
  <1> DEFINE e == Extend(ledger, received)
             c == Credit(ledger, sent, received, amount)
  <1>1. /\ FitsHistory(received)
        /\ e[received + 1].balance + amount \in BalanceT
        /\ \A time \in sent..(received - 1) : e[time + 1].pending_in + amount \in BalanceT
    BY DEF CanCredit, FitsBalance
  <1>2. /\ e \in History /\ e \in Seq(BalanceState)
        /\ Len(e) \in 1..(HistoryLimit + 1) /\ DOMAIN e = 1..Len(e)
    BY <1>1, ExtendType DEF History
  <1>3. c = [i \in DOMAIN e |->
               [balance |-> e[i].balance + (IF i = received + 1 THEN amount ELSE 0),
                pending_in |-> e[i].pending_in
                                 + (IF i \in (sent + 1)..received THEN amount ELSE 0)]]
    BY DEF Credit
  <1> HIDE DEF e, c
  <1>4. ASSUME NEW i \in DOMAIN e
        PROVE  c[i] \in BalanceState
    <2>0. i \in Int /\ e[i] \in BalanceState
      BY <1>2
    <2>1. /\ i \in Int
          /\ e[i].balance \in BalanceT /\ e[i].balance \in Int
          /\ e[i].pending_in \in BalanceT /\ e[i].pending_in \in Int
      BY <2>0, BalanceTFacts DEF BalanceState
    <2> DEFINE balance == e[i].balance
               pending_in == e[i].pending_in
    <2>2. balance + (IF i = received + 1 THEN amount ELSE 0) \in BalanceT
      <3>1. i = received + 1 => balance + amount \in BalanceT
        BY <1>1
      <3>2. balance + 0 \in BalanceT
        BY <2>1
      <3> QED
        BY <3>1, <3>2
    <2>3. i \in (sent + 1)..received => e[i].pending_in + amount \in BalanceT
      <3>1. SUFFICES ASSUME i \in (sent + 1)..received
                     PROVE  e[i].pending_in + amount \in BalanceT
        OBVIOUS
      <3>2. i - 1 \in sent..(received - 1) /\ (i - 1) + 1 = i
        BY <2>1, <3>1
      <3> QED
        BY <1>1, <3>2
    <2>4. pending_in + (IF i \in (sent + 1)..received THEN amount ELSE 0) \in BalanceT
      <3>1. pending_in + 0 \in BalanceT
        BY <2>1
      <3> QED
        BY <2>3, <3>1
    <2> QED
      BY <1>3, <2>2, <2>4 DEF BalanceState
  <1>5. DOMAIN c = DOMAIN e
    BY <1>3
  <1>6. c \in [1..Len(e) -> BalanceState]
    BY <1>2, <1>3, <1>4
  <1>7. c \in Seq(BalanceState) /\ Len(c) = Len(e)
    BY <1>2, <1>6
  <1>8. c \in History
    BY <1>2, <1>7 DEF History
  <1> QED
    BY <1>5, <1>8 DEF e, c

-----------------------------------------------------------------------------
(* What a history says of a time, before and after an operation.  Nothing is *)
(* pending at its end, and a transfer is entered past its end.               *)

Settled(ledger) == Closing(ledger).pending_in = 0

LEMMA AtType ==
  ASSUME NEW ledger \in History, NEW t \in Nat
  PROVE  /\ At(ledger, t) \in BalanceState /\ Closing(ledger) \in BalanceState
         /\ At(ledger, t).balance \in Int /\ At(ledger, t).pending_in \in Int
         /\ Closing(ledger).balance \in Int
         /\ Settled(ledger) => Closing(ledger) = [balance |-> Closing(ledger).balance, pending_in |-> 0]
         /\ Len(ledger) \in Nat \ {0}
         /\ t >= Len(ledger) => At(ledger, t) = Closing(ledger)
  <1>1. ledger \in Seq(BalanceState) /\ Len(ledger) \in Nat /\ Len(ledger) >= 1
    BY DEF History
  <1>2. Closing(ledger) \in BalanceState
    BY <1>1 DEF Closing
  <1>3. At(ledger, t) \in BalanceState
    BY <1>1, <1>2 DEF At
  <1> QED
    BY <1>1, <1>2, <1>3, BalanceTFacts DEF BalanceState, At, Settled

(* Extending a history says nothing new. *)
LEMMA AtExtend ==
  ASSUME NEW ledger \in History, NEW time \in Nat, FitsHistory(time), Settled(ledger)
  PROVE  /\ Extend(ledger, time) \in History
         /\ Settled(Extend(ledger, time))
         /\ \A t \in Nat : At(Extend(ledger, time), t) = At(ledger, t)
         /\ Extend(ledger, time)[1] = ledger[1]
         /\ Closing(Extend(ledger, time)) = Closing(ledger)
         /\ Len(Extend(ledger, time)) = IF time >= Len(ledger) THEN time + 1 ELSE Len(ledger)
  <1> DEFINE length == Max({Len(ledger), time + 1})
             e == Extend(ledger, time)
             last == Closing(ledger)
  <1>1. ledger \in Seq(BalanceState) /\ Len(ledger) \in Nat /\ Len(ledger) >= 1
    BY DEF History
  <1>2. /\ length \in Int /\ (length = Len(ledger) \/ length = time + 1)
        /\ Len(ledger) <= length /\ time + 1 <= length
    <2>1. Len(ledger) \in Int /\ time + 1 \in Int
      BY <1>1
    <2> QED
      BY <2>1, MaxOfTwo
  <1> HIDE DEF length
  <1>3. last = [balance |-> last.balance, pending_in |-> 0]
    BY AtType
  <1>4. e = [i \in 1..length |-> IF i <= Len(ledger) THEN ledger[i] ELSE last]
    BY <1>3 DEF Extend, length
  <1>5. e \in History /\ e \in Seq(BalanceState) /\ DOMAIN e = 1..Len(e) /\ Len(e) \in Nat
    BY ExtendType DEF History
  <1> HIDE DEF e, last
  <1>6. Len(e) = length
    BY <1>1, <1>2, <1>4, <1>5
  <1>7. Closing(e) = last
    BY <1>1, <1>2, <1>4, <1>6 DEF Closing, last
  <1>8. \A t \in Nat : At(e, t) = At(ledger, t)
    BY <1>1, <1>2, <1>4, <1>6, <1>7 DEF At, last
  <1>9. e[1] = ledger[1]
    BY <1>1, <1>2, <1>4
  <1> QED
    BY <1>1, <1>2, <1>5, <1>6, <1>7, <1>8, <1>9 DEF Settled, e, last

(* A debit past the end lowers the balance from its time on. *)
LEMMA AtDebit ==
  ASSUME NEW ledger \in History, NEW time \in Nat, NEW amount \in Int,
         CanDebit(ledger, time, amount), Settled(ledger), Len(ledger) <= time
  PROVE  /\ Settled(Debit(ledger, time, amount))
         /\ Debit(ledger, time, amount)[1] = ledger[1]
         /\ Len(Debit(ledger, time, amount)) = time + 1
         /\ Closing(Debit(ledger, time, amount)).balance = Closing(ledger).balance - amount
         /\ \A t \in Nat : At(Debit(ledger, time, amount), t) =
              IF t < time THEN At(ledger, t)
              ELSE [balance |-> At(ledger, t).balance - amount, pending_in |-> 0]
  <1> DEFINE e == Extend(ledger, time)
             d == Debit(ledger, time, amount)
             last == Closing(ledger)
             state == [balance |-> last.balance - amount, pending_in |-> 0]
  <1>1. FitsHistory(time)
    BY DEF CanDebit
  <1>2. Len(ledger) \in Nat \ {0} /\ last = [balance |-> last.balance, pending_in |-> 0]
    BY AtType
  <1>3. /\ e \in History /\ Len(e) = time + 1 /\ Closing(e) = last /\ e[1] = ledger[1]
        /\ \A t \in Nat : At(e, t) = At(ledger, t)
    BY <1>1, <1>2, AtExtend
  <1>4. e[time + 1] = last
    BY <1>3 DEF Closing
  <1>5. d = [e EXCEPT ![time + 1].balance = last.balance - amount]
    BY <1>4 DEF Debit
  <1>6. e \in Seq(BalanceState) /\ DOMAIN e = 1..(time + 1)
    BY <1>3 DEF History
  <1> HIDE DEF e, d, last
  <1>7. [last EXCEPT !.balance = last.balance - amount] = state
    BY <1>2
  <1>8. d = [e EXCEPT ![time + 1] = state]
    BY <1>4, <1>5, <1>7
  <1> HIDE DEF state
  <1>9. d \in History /\ DOMAIN d = DOMAIN e
    BY DebitType DEF d, e
  <1>10. Len(d) = time + 1 /\ d[time + 1] = state /\ \A i \in 1..time : d[i] = e[i]
    BY <1>3, <1>6, <1>8, <1>9 DEF History
  <1>11. Closing(d) = state
    BY <1>10 DEF Closing
  <1>12. ASSUME NEW t \in Nat
         PROVE  At(d, t) = IF t < time THEN At(ledger, t)
                           ELSE [balance |-> At(ledger, t).balance - amount, pending_in |-> 0]
    <2>1. CASE t < time
      BY <1>3, <1>10, <2>1 DEF At
    <2>2. CASE t >= time
      <3>1. At(d, t) = state
        BY <1>10, <1>11, <2>2 DEF At
      <3>2. At(ledger, t) = last
        BY <2>2, AtType DEF last
      <3> QED
        BY <2>2, <3>1, <3>2 DEF state
    <2> QED
      BY <2>1, <2>2
  <1>13. d[1] = ledger[1]
    BY <1>2, <1>3, <1>10
  <1> QED
    BY <1>10, <1>11, <1>12, <1>13 DEF Settled, d, state, last

(* A credit past the end: pending since the money was sent, then received. *)
LEMMA AtCredit ==
  ASSUME NEW ledger \in History, NEW sent \in Nat, NEW received \in Nat, NEW amount \in Int,
         CanCredit(ledger, sent, received, amount), Settled(ledger), Len(ledger) <= received
  PROVE  /\ Settled(Credit(ledger, sent, received, amount))
         /\ Credit(ledger, sent, received, amount)[1].balance = ledger[1].balance
         /\ Len(Credit(ledger, sent, received, amount)) = received + 1
         /\ Closing(Credit(ledger, sent, received, amount)).balance
              = Closing(ledger).balance + amount
         /\ \A t \in Nat : At(Credit(ledger, sent, received, amount), t) =
              [balance |-> At(ledger, t).balance + (IF t >= received THEN amount ELSE 0),
               pending_in |-> At(ledger, t).pending_in
                                + (IF sent <= t /\ t < received THEN amount ELSE 0)]
  <1> DEFINE e == Extend(ledger, received)
             c == Credit(ledger, sent, received, amount)
             last == Closing(ledger)
             More(i) == [balance |-> e[i].balance + (IF i = received + 1 THEN amount ELSE 0),
                         pending_in |-> e[i].pending_in
                                          + (IF i \in (sent + 1)..received THEN amount ELSE 0)]
  <1>1. FitsHistory(received)
    BY DEF CanCredit
  <1>2. Len(ledger) \in Nat \ {0} /\ last = [balance |-> last.balance, pending_in |-> 0]
        /\ last.balance \in Int
    BY AtType
  <1>3. /\ e \in History /\ Len(e) = received + 1 /\ Closing(e) = last /\ e[1] = ledger[1]
        /\ \A t \in Nat : At(e, t) = At(ledger, t)
    BY <1>1, <1>2, AtExtend
  <1>4. e[received + 1] = last
    BY <1>3 DEF Closing
  <1>5. e \in Seq(BalanceState) /\ DOMAIN e = 1..(received + 1)
    BY <1>3 DEF History
  <1>6. c \in History /\ DOMAIN c = DOMAIN e /\ \A i \in DOMAIN e : c[i] = More(i)
    <2>1. c \in History /\ DOMAIN c = DOMAIN e
      BY CreditType
    <2> QED
      BY <2>1 DEF Credit
  <1> HIDE DEF e, c, last
  <1>7. Len(c) = received + 1
    BY <1>5, <1>6 DEF History
  <1>8. \A i \in DOMAIN e : e[i].balance \in Int /\ e[i].pending_in \in Int
    <2>1. \A i \in DOMAIN e : e[i] \in BalanceState
      BY <1>5
    <2>2. \A s \in BalanceState : s.balance \in Int /\ s.pending_in \in Int
      BY BalanceTFacts DEF BalanceState
    <2> QED
      BY <2>1, <2>2
  <1>9. /\ c[received + 1].balance = last.balance + amount
        /\ c[received + 1].pending_in = 0
        /\ c[received + 1] = [balance |-> last.balance + amount, pending_in |-> 0]
    <2>1. received + 1 \in DOMAIN e /\ received + 1 \notin (sent + 1)..received
      BY <1>5
    <2>2. c[received + 1] = [balance |-> last.balance + amount, pending_in |-> last.pending_in + 0]
      BY <1>4, <1>6, <2>1
    <2>3. last.pending_in = 0
      BY <1>2
    <2> QED
      BY <2>2, <2>3
  <1>10. Closing(c) = c[received + 1]
    BY <1>7 DEF Closing
  <1>11. ASSUME NEW t \in Nat
         PROVE  At(c, t) =
           [balance |-> At(ledger, t).balance + (IF t >= received THEN amount ELSE 0),
            pending_in |-> At(ledger, t).pending_in
                             + (IF sent <= t /\ t < received THEN amount ELSE 0)]
    <2>1. CASE t < received
      <3>1. At(c, t) = c[t + 1] /\ At(ledger, t) = e[t + 1] /\ t + 1 \in DOMAIN e
        BY <1>3, <1>5, <1>7, <2>1 DEF At
      <3>2. (t + 1 \in (sent + 1)..received <=> sent <= t /\ t < received)
            /\ t + 1 # received + 1 /\ ~(t >= received)
        BY <2>1
      <3> QED
        BY <1>6, <3>1, <3>2
    <2>2. CASE t >= received
      <3>1. At(c, t) = c[received + 1]
        BY <1>7, <1>10, <2>2 DEF At
      <3>2. At(ledger, t) = last
        BY <2>2, AtType DEF last
      <3>3. last.balance + amount = At(ledger, t).balance + amount
            /\ At(ledger, t).pending_in + 0 = 0 /\ ~(t < received)
        BY <1>2, <2>2, <3>2
      <3> QED
        BY <1>9, <2>2, <3>1, <3>2, <3>3
    <2> QED
      BY <2>1, <2>2
  <1>12. c[1].balance = ledger[1].balance
    <2>1. 1 \in DOMAIN e /\ 1 # received + 1
      BY <1>2, <1>5
    <2>2. c[1].balance = e[1].balance + 0
      BY <1>6, <2>1
    <2> QED
      BY <1>3, <1>8, <2>1, <2>2
  <1> QED
    BY <1>7, <1>9, <1>10, <1>11, <1>12 DEF Settled, c, last
=============================================================================
