--------------------------- MODULE TransportProofs ---------------------------
(***************************************************************************)
(* Theorems about Transport, for all sizes of headers, payloads, pipes and  *)
(* atomic writes, and any number of peers.  The invariant speaks of all     *)
(* that is under way from a peer at once; which frames are complete in it   *)
(* follows by induction over its bytes (UpTo).                              *)
(***************************************************************************)
EXTENDS Transport, SequenceTheorems, WellFoundedInduction, TLAPS

(* The frame of byte i of s is the bytes after Start up to End. *)
Start(s, i) == i - s[i].place
End(s, i) == Start(s, i) + Size(s[i].frame)

(* Around every byte of s lies its frame, as far as s goes. *)
Framed(s) ==
  \A i \in 1..Len(s) :
    /\ 0 <= Start(s, i) /\ i <= End(s, i)
    /\ \A j \in 1..Len(s) :
         Start(s, i) < j /\ j <= End(s, i)
           => s[j].frame = s[i].frame /\ Start(s, j) = Start(s, i)

(* s ends with the end of a frame. *)
Whole(s) == \A i \in 1..Len(s) : End(s, i) <= Len(s)

(* What q has sent or is sending and the reader has not taken out. *)
Stream(q) == decoder[q] \o (pipe[q] \o rest[q])

StreamOk(q) ==
  /\ Framed(Stream(q))
  /\ q \in writers => Whole(Stream(q))
  /\ q \notin writers => rest[q] = <<>>
  /\ Len(decoder[q]) <= Needed(q)

BytesType ==
  /\ writers \subseteq Peer
  /\ decoder \in [Peer -> Seq(Byte)]
  /\ pipe \in [Peer -> Seq(Byte)]
  /\ rest \in [Peer -> Seq(Byte)]

Drained(q) == q \notin writers /\ pipe[q] = <<>>

TransportInv ==
  /\ BytesType
  /\ \A q \in Peer : StreamOk(q)
  /\ \A q \in Peer \ open : Drained(q)
  /\ call = "over" => \E q \in Peer : Drained(q)

-----------------------------------------------------------------------------
(* Lemmas about frames in sequences of bytes. *)

LEMMA SizeType == \A f \in Frame : Size(f) \in Nat \ {0} /\ HeaderSize <= Size(f)
BY TransportAssumption DEF Size

(* Every byte is at a place of a frame that has a size. *)
LEMMA StartType ==
  ASSUME NEW s \in Seq(Byte), NEW i \in 1..Len(s)
  PROVE  /\ s[i].frame \in Frame /\ Size(s[i].frame) \in Nat \ {0}
         /\ Start(s, i) \in Int /\ Start(s, i) < i
         /\ End(s, i) \in Int /\ End(s, i) = Start(s, i) + Size(s[i].frame)
<1>1. s[i] \in Byte /\ i \in Int
  BY ElementOfSeq
<1>2. s[i].place \in Nat \ {0} /\ s[i].frame \in Frame
  BY <1>1 DEF Byte
<1>3. Size(s[i].frame) \in Nat \ {0}
  BY <1>2, SizeType
<1> QED BY <1>1, <1>2, <1>3 DEF Start, End

(* The bytes of a frame are bytes, as many as its size. *)
LEMMA BytesOfType ==
  ASSUME NEW f \in Frame
  PROVE  /\ BytesOf(f) \in Seq(Byte)
         /\ Len(BytesOf(f)) = Size(f)
         /\ \A i \in 1..Size(f) : BytesOf(f)[i].frame = f /\ BytesOf(f)[i].place = i
<1>1. Size(f) \in Nat \ {0}
  BY SizeType
<1>2. \A i \in 1..Size(f) : [frame |-> f, place |-> i] \in Byte
  BY <1>1 DEF Byte
<1>3. BytesOf(f) \in [1..Size(f) -> Byte]
  BY <1>2 DEF BytesOf
<1>4. BytesOf(f) \in Seq(Byte)
  BY <1>1, <1>3, SeqDef
<1>5. Len(BytesOf(f)) = Size(f)
  BY <1>1, <1>3, <1>4, LenProperties
<1> QED BY <1>4, <1>5 DEF BytesOf

(* A frame begun after whole frames leaves whole frames. *)
LEMMA FrameBegun ==
  ASSUME NEW s \in Seq(Byte), NEW f \in Frame, NEW t \in Seq(Byte),
         t = s \o BytesOf(f), Framed(s), Whole(s)
  PROVE  Framed(t) /\ Whole(t)
<1>1. /\ BytesOf(f) \in Seq(Byte) /\ Len(BytesOf(f)) = Size(f)
      /\ Size(f) \in Nat \ {0}
      /\ \A i \in 1..Size(f) : BytesOf(f)[i].frame = f /\ BytesOf(f)[i].place = i
  BY BytesOfType, SizeType
<1>2. Len(s) \in Nat /\ Len(t) = Len(s) + Size(f)
  BY <1>1, ConcatProperties, LenProperties
<1>3. \A i \in 1..Len(s) : t[i] = s[i]
  BY <1>1, <1>2, ConcatProperties
<1>4. \A i \in 1..Len(s) : Start(t, i) = Start(s, i) /\ End(t, i) = End(s, i)
  BY <1>3 DEF Start, End
<1>5. \A i \in 1..Len(t) : i > Len(s) =>
        t[i].frame = f /\ Start(t, i) = Len(s) /\ End(t, i) = Len(t)
  <2> SUFFICES ASSUME NEW i \in 1..Len(t), i > Len(s)
               PROVE  t[i].frame = f /\ Start(t, i) = Len(s) /\ End(t, i) = Len(t)
    OBVIOUS
  <2>1. i - Len(s) \in 1..Size(f) /\ t[i] = BytesOf(f)[i - Len(s)]
    BY <1>1, <1>2, ConcatProperties
  <2>2. t[i].frame = f /\ t[i].place = i - Len(s)
    BY <2>1, <1>1
  <2> QED BY <2>2, <1>2 DEF Start, End
<1>6. \A i \in 1..Len(s) : End(s, i) \in Int /\ Start(s, i) \in Int
  BY StartType
<1>7. Whole(t)
  <2> SUFFICES ASSUME NEW i \in 1..Len(t) PROVE End(t, i) <= Len(t)
    BY DEF Whole
  <2>1. CASE i <= Len(s)
    BY <2>1, <1>1, <1>2, <1>4, <1>6 DEF Whole
  <2>2. CASE i > Len(s)
    BY <2>2, <1>1, <1>2, <1>5
  <2> QED BY <2>1, <2>2, <1>2
<1>8. ASSUME NEW i \in 1..Len(t)
      PROVE  /\ 0 <= Start(t, i) /\ i <= End(t, i)
             /\ \A j \in 1..Len(t) :
                  Start(t, i) < j /\ j <= End(t, i)
                    => t[j].frame = t[i].frame /\ Start(t, j) = Start(t, i)
  <2>1. CASE i <= Len(s)
    <3>1. i \in 1..Len(s) /\ End(s, i) \in Int /\ End(s, i) <= Len(s)
          /\ Start(s, i) \in Int /\ t[i] = s[i]
      BY <2>1, <1>2, <1>3, <1>6 DEF Whole
    <3>2. \A j \in 1..Len(t) : j <= End(s, i) =>
             j \in 1..Len(s) /\ t[j] = s[j] /\ Start(t, j) = Start(s, j)
      BY <3>1, <1>2, <1>3, <1>4
    <3> QED BY <3>1, <3>2, <1>4 DEF Framed
  <2>2. CASE i > Len(s)
    BY <2>2, <1>2, <1>5
  <2> QED BY <2>1, <2>2, <1>2
<1> QED BY <1>7, <1>8 DEF Framed

(* What is cut off at the end does not disturb what is before it. *)
LEMMA FramedPrefix ==
  ASSUME NEW s \in Seq(Byte), NEW t \in Seq(Byte), NEW u \in Seq(Byte),
         u = s \o t, Framed(u)
  PROVE  Framed(s)
<1>1. /\ Len(s) \in Nat /\ Len(u) \in Nat /\ Len(s) <= Len(u)
      /\ \A i \in 1..Len(s) : u[i] = s[i]
  BY ConcatProperties, LenProperties
<1>2. \A i \in 1..Len(s) : Start(u, i) = Start(s, i) /\ End(u, i) = End(s, i)
  BY <1>1 DEF Start, End
<1> QED BY <1>1, <1>2 DEF Framed

(* An interval moved down keeps its order. *)
LEMMA MovedDown ==
  ASSUME NEW a \in Int, NEW b \in Int, NEW n \in Int, NEW i \in Int,
         a >= n, n + i <= b
  PROVE  0 <= a - n /\ i <= b - n
OBVIOUS

(* The first bytes are those of one frame. *)
LEMMA FirstFrame ==
  ASSUME NEW s \in Seq(Byte), Framed(s), NEW j \in 1..Len(s), j <= Size(s[1].frame)
  PROVE  /\ s[j] = [frame |-> s[1].frame, place |-> j]
         /\ s[j].frame = s[1].frame /\ Start(s, j) = 0
<1>1. Len(s) \in Nat /\ 1 \in 1..Len(s)
  BY LenProperties
<1>2. /\ Start(s, 1) \in Int /\ 0 <= Start(s, 1) /\ Start(s, 1) < 1
      /\ End(s, 1) = Start(s, 1) + Size(s[1].frame)
      /\ Size(s[1].frame) \in Nat
  BY <1>1, StartType DEF Framed
<1>3. Start(s, 1) < j /\ j <= End(s, 1)
  BY <1>1, <1>2
<1>4. s[j].frame = s[1].frame /\ Start(s, j) = 0
  BY <1>1, <1>2, <1>3 DEF Framed
<1>5. s[j] \in Byte
  BY ElementOfSeq
<1>6. s[j].place \in Int /\ s[j] = [frame |-> s[j].frame, place |-> s[j].place]
  BY <1>5 DEF Byte
<1>7. s[j].place = j
  BY <1>4, <1>6 DEF Start
<1> QED BY <1>4, <1>6, <1>7

(* A place of the rest is a place of the whole, further on. *)
LEMMA Further ==
  ASSUME NEW n \in Nat \ {0}, NEW l \in Nat, NEW i \in 1..l
  PROVE  n + i \in 1..(n + l) /\ n + i > n /\ i \in Int
OBVIOUS

LEMMA MovedUp ==
  ASSUME NEW a \in Int, NEW b \in Int, NEW n \in Int, NEW j \in Int,
         a - n < j, j <= b - n
  PROVE  a < n + j /\ n + j <= b
OBVIOUS

LEMMA ConcatRest ==
  ASSUME NEW s \in Seq(Byte), NEW t \in Seq(Byte), NEW i \in 1..Len(t)
  PROVE  (s \o t)[Len(s) + i] = t[i]
<1> PICK m, l, j : m = Len(s) /\ l = Len(t) /\ j = m + i
  OBVIOUS
<1>1. m \in Nat /\ l \in Nat /\ i \in 1..l
  BY LenProperties
<1>2. j \in 1..(m + l) /\ ~(j <= m) /\ j - m = i
  BY <1>1
<1>3. \A k \in 1..(m + l) : (s \o t)[k] = IF k <= m THEN s[k] ELSE t[k - m]
  BY ConcatProperties
<1>4. (s \o t)[j] = t[j - m]
  BY <1>2, <1>3
<1> QED BY <1>2, <1>4

(* Without its first frame the rest is framed as before. *)
LEMMA FramedSuffix ==
  ASSUME NEW s \in Seq(Byte), NEW t \in Seq(Byte), NEW u \in Seq(Byte),
         u = s \o t, Framed(u), NEW n \in Nat \ {0},
         n = Len(s), n = Size(s[1].frame)
  PROVE  Framed(t) /\ (Whole(u) => Whole(t))
<1>1. /\ Len(t) \in Nat /\ Len(u) = n + Len(t)
      /\ \A i \in 1..n : u[i] = s[i]
  <2>1. Len(t) \in Nat /\ Len(u) = Len(s) + Len(t)
    BY ConcatProperties, LenProperties
  <2>2. \A i \in 1..Len(s) : u[i] = s[i]
    BY <2>1, ConcatProperties, LenProperties
  <2> QED BY <2>1, <2>2
<1>2. \A i \in 1..Len(t) : n + i \in 1..Len(u) /\ t[i] = u[n + i]
  <2> TAKE i \in 1..Len(t)
  <2>1. n + i \in 1..(n + Len(t)) /\ n + i > n /\ i \in Int
    BY <1>1, Further
  <2>2. n + i \in 1..Len(u)
    BY <1>1, <2>1
  <2>3. (s \o t)[Len(s) + i] = t[i]
    BY ConcatRest
  <2> QED BY <2>2, <2>3
<1>3. 1 \in 1..Len(u) /\ n \in 1..Len(u) /\ n <= Size(u[1].frame)
  BY <1>1
<1>4. u[n].frame = u[1].frame /\ Start(u, n) = 0 /\ Size(u[n].frame) = n
  <2>1. u[n].frame = u[1].frame /\ Start(u, n) = 0
    BY <1>3, FirstFrame
  <2> QED BY <2>1, <1>1
(* No frame of the rest begins before it. *)
<1>5. \A i \in 1..Len(u) : i > n =>
        Start(u, i) \in Int /\ End(u, i) \in Int /\ Start(u, i) >= n
  <2> SUFFICES ASSUME NEW i \in 1..Len(u), i > n
               PROVE  Start(u, i) \in Int /\ End(u, i) \in Int /\ Start(u, i) >= n
    OBVIOUS
  <2>1. /\ 0 <= Start(u, i) /\ i <= End(u, i) /\ Start(u, i) \in Int
        /\ End(u, i) \in Int /\ End(u, i) = Start(u, i) + Size(u[i].frame)
    BY StartType DEF Framed
  <2> SUFFICES ASSUME Start(u, i) < n PROVE FALSE
    BY <1>1, <2>1
  <2>2. n <= End(u, i)
    BY <2>1, <1>1
  <2>3. u[n].frame = u[i].frame /\ Start(u, n) = Start(u, i)
    BY <1>3, <2>1, <2>2 DEF Framed
  <2>4. End(u, i) = n
    BY <2>1, <2>3, <1>4
  <2> QED BY <2>1, <2>4, <1>1
<1>6. \A i \in 1..Len(t) :
        /\ Start(u, n + i) \in Int /\ End(u, n + i) \in Int
        /\ Start(u, n + i) >= n
        /\ Start(t, i) = Start(u, n + i) - n /\ End(t, i) = End(u, n + i) - n
  <2> TAKE i \in 1..Len(t)
  <2>0. n + i \in 1..(n + Len(t)) /\ n + i > n /\ i \in Int
    BY <1>1, Further
  <2>1. n + i \in 1..Len(u) /\ n + i > n /\ t[i] = u[n + i] /\ i \in Int
    BY <1>2, <2>0
  <2>2. t[i] \in Byte /\ Size(t[i].frame) \in Nat
    BY ElementOfSeq, StartType
  <2>3. t[i].place \in Int
    BY <2>2 DEF Byte
  <2>4. Start(t, i) = Start(u, n + i) - n
    BY <2>1, <2>3 DEF Start
  <2>5. End(t, i) = End(u, n + i) - n
    <3> PICK a, k : a = Start(u, n + i) /\ k = Size(t[i].frame)
      OBVIOUS
    <3>1. a \in Int /\ k \in Int
      BY <2>1, <2>2, <1>5
    <3>2. End(t, i) = (a - n) + k
      BY <2>4 DEF End
    <3>3. End(u, n + i) = a + k
      BY <2>1 DEF End
    <3> QED BY <3>1, <3>2, <3>3
  <2> QED BY <2>1, <2>4, <2>5, <1>5
<1>7. ASSUME NEW i \in 1..Len(t)
      PROVE  /\ 0 <= Start(t, i) /\ i <= End(t, i)
             /\ \A j \in 1..Len(t) :
                  Start(t, i) < j /\ j <= End(t, i)
                    => t[j].frame = t[i].frame /\ Start(t, j) = Start(t, i)
  <2>1. /\ n + i \in 1..Len(u) /\ t[i] = u[n + i] /\ n + i <= End(u, n + i)
        /\ \A k \in 1..Len(u) :
             Start(u, n + i) < k /\ k <= End(u, n + i)
               => u[k].frame = u[n + i].frame /\ Start(u, k) = Start(u, n + i)
    BY <1>2 DEF Framed
  <2>2. 0 <= Start(t, i) /\ i <= End(t, i)
    <3> PICK a, b : a = Start(u, n + i) /\ b = End(u, n + i)
      OBVIOUS
    <3>1. /\ a \in Int /\ b \in Int /\ a >= n
          /\ Start(t, i) = a - n /\ End(t, i) = b - n
      BY <1>6
    <3>2. n + i <= b
      BY <2>1
    <3>3. n \in Int /\ i \in Int
      BY <1>1
    <3>4. 0 <= a - n /\ i <= b - n
      BY <3>1, <3>2, <3>3, MovedDown
    <3> QED BY <3>1, <3>4
  <2>3. ASSUME NEW j \in 1..Len(t), Start(t, i) < j, j <= End(t, i)
        PROVE  t[j].frame = t[i].frame /\ Start(t, j) = Start(t, i)
    <3>1. n + j \in 1..Len(u) /\ t[j] = u[n + j]
      BY <1>2
    <3>2. Start(u, n + i) < n + j /\ n + j <= End(u, n + i)
      <4>1. /\ Start(u, n + i) \in Int /\ End(u, n + i) \in Int
            /\ Start(u, n + i) - n < j /\ j <= End(u, n + i) - n
        BY <1>6, <2>3
      <4> PICK a, b : a = Start(u, n + i) /\ b = End(u, n + i)
        OBVIOUS
      <4>2. n \in Int /\ j \in Int
        BY <1>1
      <4>3. a \in Int /\ b \in Int /\ a - n < j /\ j <= b - n
        BY <4>1
      <4>4. a < n + j /\ n + j <= b
        BY <4>2, <4>3, MovedUp
      <4> QED BY <4>4
    <3>3. u[n + j].frame = u[n + i].frame /\ Start(u, n + j) = Start(u, n + i)
      BY <2>1, <3>1, <3>2
    <3>4. Start(t, j) = Start(u, n + j) - n /\ Start(t, i) = Start(u, n + i) - n
      BY <1>6
    <3> QED BY <2>1, <3>1, <3>3, <3>4
  <2> QED BY <2>2, <2>3
<1>8. ASSUME Whole(u), NEW i \in 1..Len(t) PROVE End(t, i) <= Len(t)
  <2>1. End(u, n + i) <= n + Len(t)
    BY <1>8, <1>1, <1>2 DEF Whole
  <2> QED BY <2>1, <1>1, <1>6
<1> QED BY <1>7, <1>8 DEF Framed, Whole

(* Concatenation does not depend on the grouping. *)
Regrouped(a, b, c) == (a \o b) \o c = a \o (b \o c)

LEMMA Regroup ==
  ASSUME NEW a \in Seq(Byte), NEW b \in Seq(Byte), NEW c \in Seq(Byte)
  PROVE  Regrouped(a, b, c)
BY ConcatAssociative DEF Regrouped

(* A split sequence put together again. *)
LEMMA MoveBytes ==
  ASSUME NEW a \in Seq(Byte), NEW b \in Seq(Byte), NEW n \in 1..Len(b)
  PROVE  /\ SubSeq(b, 1, n) \in Seq(Byte)
         /\ SubSeq(b, n + 1, Len(b)) \in Seq(Byte)
         /\ a \o SubSeq(b, 1, n) \in Seq(Byte)
         /\ Len(a \o SubSeq(b, 1, n)) = Len(a) + n
         /\ SubSeq(b, 1, n) \o SubSeq(b, n + 1, Len(b)) = b
         /\ (a \o SubSeq(b, 1, n)) \o SubSeq(b, n + 1, Len(b)) = a \o b
<1>1. Len(b) \in Nat /\ \A i \in 1..Len(b) : b[i] \in Byte
  BY ElementOfSeq, LenProperties
<1>2. n \in Int /\ 1 <= n /\ n <= Len(b)
  BY <1>1
<1>3. /\ SubSeq(b, 1, n) \in Seq(Byte) /\ Len(SubSeq(b, 1, n)) = n
      /\ SubSeq(b, n + 1, Len(b)) \in Seq(Byte)
  BY <1>1, <1>2, SubSeqProperties
<1>4. SubSeq(b, 1, n) \o SubSeq(b, n + 1, Len(b)) = SubSeq(b, 1, Len(b))
  BY <1>1, <1>2, ConcatAdjacentSubSeq
<1>5. SubSeq(b, 1, Len(b)) = b
  BY SubSeqFull
<1>6. /\ a \o SubSeq(b, 1, n) \in Seq(Byte)
      /\ Len(a \o SubSeq(b, 1, n)) = Len(a) + n
  BY <1>3, ConcatProperties
<1>7. (a \o SubSeq(b, 1, n)) \o SubSeq(b, n + 1, Len(b))
        = a \o (SubSeq(b, 1, n) \o SubSeq(b, n + 1, Len(b)))
  <2> PICK x, y : x = SubSeq(b, 1, n) /\ y = SubSeq(b, n + 1, Len(b))
    OBVIOUS
  <2>1. Regrouped(a, x, y)
    BY <1>3, Regroup
  <2> QED BY <2>1 DEF Regrouped
<1> QED BY <1>3, <1>4, <1>5, <1>6, <1>7

-----------------------------------------------------------------------------
(* Induction up to the length of a sequence, for a set instead of a predicate. *)

LEMMA UpTo ==
  ASSUME NEW n \in Nat, NEW S, 0 \in S, \A i \in 1..n : i - 1 \in S => i \in S
  PROVE  \A i \in 0..n : i \in S
<1> SUFFICES ASSUME (0..n) \ S # {} PROVE FALSE
  OBVIOUS
<1> DEFINE R == {p \in Nat \X Nat : p[1] < p[2]}
           Bad == (0..n) \ S
<1>1. IsWellFoundedOn(OpToRel(<, Nat), Nat)
  BY NatLessThanWellFounded, Zenon
<1>2. IsWellFoundedOn(R, Nat)
  BY <1>1, Zenon DEF OpToRel
<1>3. PICK i \in Bad : \A j \in Bad : <<j, i>> \notin R
  <2> HIDE DEF R
  <2>1. Bad \subseteq Nat /\ Bad # {}
    OBVIOUS
  <2> HIDE DEF Bad
  <2> QED BY <1>2, <2>1, WFMin
<1>4. i \in 1..n /\ i - 1 \in 0..n /\ i - 1 \in Nat /\ i \in Nat /\ i - 1 < i
  OBVIOUS
<1>5. i - 1 \notin Bad
  BY <1>3, <1>4
<1> QED BY <1>3, <1>4, <1>5

-----------------------------------------------------------------------------
(* What Ended computes. *)

(* The recursion of Ended, for the first n bytes. *)
EndedStep(g, s, n) ==
  [i \in 0..n |-> IF i = 0 THEN <<>> ELSE WithByte(g[i - 1], s[i])]

LEMMA EndedGoesOn ==
  ASSUME NEW s, NEW n \in Nat \ {0}, NEW g, g = EndedStep(g, s, n - 1)
  PROVE  \E h : h = EndedStep(h, s, n)
<1> DEFINE h == [i \in 0..n |-> IF i = n THEN WithByte(g[n - 1], s[n]) ELSE g[i]]
<1>1. n - 1 \in Nat /\ n \in 0..n /\ n - 1 \in 0..n /\ n # n - 1 /\ n # 0
  OBVIOUS
<1>2. g[0] = <<>> /\ \A i \in 1..(n - 1) : g[i] = WithByte(g[i - 1], s[i])
  <2>1. \A i \in 0..(n - 1) : EndedStep(g, s, n - 1)[i] =
                                IF i = 0 THEN <<>> ELSE WithByte(g[i - 1], s[i])
    BY DEF EndedStep
  <2>2. 0 \in 0..(n - 1) /\ \A i \in 1..(n - 1) : i \in 0..(n - 1) /\ i # 0
    BY <1>1
  <2> QED BY <2>1, <2>2
<1>3. h[n] = WithByte(g[n - 1], s[n]) /\ \A i \in 0..(n - 1) : h[i] = g[i]
  BY <1>1
<1>4. DOMAIN h = 0..n /\ h = [i \in DOMAIN h |-> h[i]]
  OBVIOUS
<1> HIDE DEF h
<1>5. ASSUME NEW i \in 0..n
      PROVE  h[i] = IF i = 0 THEN <<>> ELSE WithByte(h[i - 1], s[i])
  <2>1. CASE i = 0
    BY <2>1, <1>1, <1>2, <1>3
  <2>2. CASE i = n
    BY <2>2, <1>1, <1>3
  <2>3. CASE i # 0 /\ i # n
    <3>1. i \in 1..(n - 1) /\ i \in 0..(n - 1) /\ i - 1 \in 0..(n - 1)
      BY <2>3
    <3> QED BY <2>3, <3>1, <1>2, <1>3
  <2> QED BY <2>1, <2>2, <2>3
<1>6. h = EndedStep(h, s, n)
  BY <1>4, <1>5 DEF EndedStep
<1> QED BY <1>6

(* Ended is defined by its recursion. *)
LEMMA EndedRecursion ==
  ASSUME NEW s \in Seq(Byte)
  PROVE  /\ Ended(s)[0] = <<>>
         /\ \A i \in 1..Len(s) : Ended(s)[i] = WithByte(Ended(s)[i - 1], s[i])
<1> PICK n : n = Len(s)
  OBVIOUS
<1>1. n \in Nat
  BY LenProperties
<1> DEFINE S == {i \in 0..n : \E g : g = EndedStep(g, s, i)}
<1>2. 0 \in S
  <2> DEFINE g == [i \in 0..0 |-> <<>>]
  <2>1. g = EndedStep(g, s, 0)
    BY DEF EndedStep
  <2> QED BY <1>1, <2>1
<1>3. ASSUME NEW i \in 1..n, i - 1 \in S PROVE i \in S
  <2>1. i \in Nat \ {0} /\ i \in 0..n
    BY <1>1
  <2>2. PICK g : g = EndedStep(g, s, i - 1)
    BY <1>3
  <2>3. \E h : h = EndedStep(h, s, i)
    BY <2>1, <2>2, EndedGoesOn
  <2> QED BY <2>1, <2>3
<1>4. n \in S
  <2> HIDE DEF S
  <2>1. \A i \in 0..n : i \in S
    BY <1>1, <1>2, <1>3, UpTo
  <2> QED BY <1>1, <2>1
<1>5. Ended(s) = EndedStep(Ended(s), s, n)
  <2>1. \E g : g = EndedStep(g, s, n)
    BY <1>4
  <2>2. Ended(s) = CHOOSE g : g = EndedStep(g, s, n)
    BY DEF Ended, EndedStep
  <2> QED BY <2>1, <2>2
<1>6. \A i \in 0..n : EndedStep(Ended(s), s, n)[i] =
        IF i = 0 THEN <<>> ELSE WithByte(Ended(s)[i - 1], s[i])
  BY DEF EndedStep
<1>7. 0 \in 0..n /\ \A i \in 1..n : i \in 0..n /\ i # 0
  BY <1>1
<1> QED BY <1>5, <1>6, <1>7

(* One byte adds at most its frame. *)
LEMMA WithByteType ==
  ASSUME NEW e \in Seq(Frame), NEW b \in Byte
  PROVE  WithByte(e, b) \in Seq(Frame)
<1>1. b.frame \in Frame
  BY DEF Byte
<1> QED BY <1>1, AppendProperties DEF WithByte

(* What went before does not matter for what a byte adds. *)
LEMMA WithByteAfter ==
  ASSUME NEW d \in Seq(Frame), NEW e \in Seq(Frame), NEW b \in Byte
  PROVE  WithByte(d \o e, b) = d \o WithByte(e, b)
<1>1. CASE b.place # Size(b.frame)
  BY <1>1 DEF WithByte
<1>2. CASE b.place = Size(b.frame)
  <2> PICK f : f = b.frame
    OBVIOUS
  <2>1. f \in Frame /\ <<f>> \in Seq(Frame) /\ d \o e \in Seq(Frame)
    BY ConcatProperties DEF Byte
  <2>2. Append(d \o e, f) = (d \o e) \o <<f>> /\ Append(e, f) = e \o <<f>>
    BY <2>1, AppendIsConcat
  <2>3. (d \o e) \o <<f>> = d \o (e \o <<f>>)
    BY <2>1, ConcatAssociative
  <2> QED BY <1>2, <2>2, <2>3 DEF WithByte
<1> QED BY <1>1, <1>2

LEMMA EndedType ==
  ASSUME NEW s \in Seq(Byte)
  PROVE  \A i \in 0..Len(s) : Ended(s)[i] \in Seq(Frame)
<1> PICK n : n = Len(s)
  OBVIOUS
<1>1. n \in Nat
  BY LenProperties
<1> DEFINE S == {i \in 0..n : Ended(s)[i] \in Seq(Frame)}
<1>2. 0 \in S
  <2>1. <<>> \in Seq(Frame) /\ 0 \in 0..n
    BY <1>1, EmptySeq
  <2>2. Ended(s)[0] = <<>>
    BY EndedRecursion
  <2> QED BY <2>1, <2>2
<1>3. ASSUME NEW i \in 1..n, i - 1 \in S PROVE i \in S
  <2>1. s[i] \in Byte /\ Ended(s)[i - 1] \in Seq(Frame)
    BY <1>3, ElementOfSeq
  <2>2. Ended(s)[i] = WithByte(Ended(s)[i - 1], s[i])
    BY EndedRecursion
  <2>3. Ended(s)[i] \in Seq(Frame)
    BY <2>1, <2>2, WithByteType
  <2>4. i \in 0..n
    BY <1>1
  <2> QED BY <2>3, <2>4
<1>4. \A i \in 0..n : i \in S
  <2> HIDE DEF S
  <2> QED BY <1>1, <1>2, <1>3, UpTo
<1> QED BY <1>4

(* The frames that end in the first n bytes depend on no other byte. *)
LEMMA EndedPrefix ==
  ASSUME NEW s \in Seq(Byte), NEW u \in Seq(Byte), NEW n \in Nat,
         n <= Len(s), n <= Len(u), \A i \in 1..n : u[i] = s[i]
  PROVE  Ended(u)[n] = Ended(s)[n]
<1> DEFINE S == {i \in 0..n : Ended(u)[i] = Ended(s)[i]}
<1>1. Len(s) \in Nat /\ Len(u) \in Nat
  BY LenProperties
<1>2. 0 \in S
  BY EndedRecursion
<1>3. ASSUME NEW i \in 1..n, i - 1 \in S PROVE i \in S
  <2>1. i \in 1..Len(s) /\ i \in 1..Len(u) /\ i \in 0..n
    BY <1>1
  <2>2. /\ Ended(s)[i] = WithByte(Ended(s)[i - 1], s[i])
        /\ Ended(u)[i] = WithByte(Ended(u)[i - 1], u[i])
    BY <2>1, EndedRecursion
  <2> QED BY <1>3, <2>1, <2>2
<1>4. \A i \in 0..n : i \in S
  <2> HIDE DEF S
  <2> QED BY <1>2, <1>3, UpTo
<1>5. n \in 0..n
  OBVIOUS
<1> QED BY <1>4, <1>5

(* No frame ends where no byte is the last one of its frame. *)
LEMMA NoneEnds ==
  ASSUME NEW s \in Seq(Byte), NEW n \in Nat, n <= Len(s),
         \A i \in 1..n : s[i].place # Size(s[i].frame)
  PROVE  Ended(s)[n] = <<>>
<1> DEFINE S == {i \in 0..n : Ended(s)[i] = <<>>}
<1>1. Len(s) \in Nat
  BY LenProperties
<1>2. 0 \in S
  BY EndedRecursion
<1>3. ASSUME NEW i \in 1..n, i - 1 \in S PROVE i \in S
  <2>1. i \in 1..Len(s) /\ i \in 0..n
    BY <1>1
  <2>2. Ended(s)[i] = WithByte(Ended(s)[i - 1], s[i])
    BY <2>1, EndedRecursion
  <2> QED BY <1>3, <2>1, <2>2 DEF WithByte
<1>4. \A i \in 0..n : i \in S
  <2> HIDE DEF S
  <2> QED BY <1>2, <1>3, UpTo
<1>5. n \in 0..n
  OBVIOUS
<1> QED BY <1>4, <1>5

LEMMA CompleteType == \A s \in Seq(Byte) : Complete(s) \in Seq(Frame)
<1> TAKE s \in Seq(Byte)
<1>1. Len(s) \in 0..Len(s)
  BY LenProperties
<1> QED BY <1>1, EndedType DEF Complete

LEMMA CompleteNone ==
  ASSUME NEW s \in Seq(Byte), \A i \in 1..Len(s) : s[i].place # Size(s[i].frame)
  PROVE  Complete(s) = <<>>
<1>1. Len(s) \in Nat /\ Len(s) <= Len(s)
  BY LenProperties
<1> QED BY <1>1, NoneEnds DEF Complete

LEMMA CompleteEmpty == Complete(<<>>) = <<>> /\ <<>> \o <<>> = <<>>
<1> PICK e : e = <<>>
  OBVIOUS
<1>1. e \in Seq(Byte) /\ Len(e) = 0 /\ 1..0 = {}
  BY EmptySeq
<1>2. Complete(e) = <<>>
  BY <1>1, CompleteNone
<1>3. e \o <<>> = e
  BY <1>1, ConcatEmptySeq
<1> QED BY <1>2, <1>3

(* The last byte alone ends a frame. *)
LastEnds(s) ==
  \A i \in 1..Len(s) : (s[i].place = Size(s[i].frame)) <=> (i = Len(s))

LEMMA CompleteOne ==
  ASSUME NEW s \in Seq(Byte), s # <<>>, LastEnds(s)
  PROVE  Complete(s) = <<s[Len(s)].frame>> /\ s[Len(s)].frame \in Frame
<1> PICK n : n = Len(s)
  OBVIOUS
<1>1. n \in Nat \ {0} /\ n - 1 \in Nat /\ n - 1 <= n /\ n \in 1..n
  BY EmptySeq
<1>2. \A i \in 1..(n - 1) : i \in 1..n /\ i # n
  BY <1>1
<1>3. Ended(s)[n - 1] = <<>>
  BY <1>1, <1>2, NoneEnds DEF LastEnds
<1>4. s[n].frame \in Frame /\ s[n].place = Size(s[n].frame)
  BY <1>1, StartType DEF LastEnds
<1>5. Ended(s)[n] = Append(<<>>, s[n].frame)
  BY <1>1, <1>3, <1>4, EndedRecursion DEF WithByte
<1>6. Append(<<>>, s[n].frame) = <<s[n].frame>>
  OBVIOUS
<1> QED BY <1>4, <1>5, <1>6 DEF Complete

(* The frames of two pieces are those of the whole. *)
LEMMA CompleteConcat ==
  ASSUME NEW s \in Seq(Byte), NEW t \in Seq(Byte)
  PROVE  Complete(s \o t) = Complete(s) \o Complete(t)
<1> PICK m, n, u : m = Len(s) /\ n = Len(t) /\ u = s \o t
  OBVIOUS
<1>1. m \in Nat /\ n \in Nat /\ u \in Seq(Byte) /\ Len(u) = m + n
  BY ConcatProperties, LenProperties
<1>2. \A i \in 1..m : u[i] = s[i]
  <2>1. \A i \in 1..Len(s) + Len(t) :
          (s \o t)[i] = IF i <= Len(s) THEN s[i] ELSE t[i - Len(s)]
    BY ConcatProperties
  <2>2. \A i \in 1..m : i \in 1..m + n /\ i <= m
    BY <1>1
  <2> QED BY <2>1, <2>2
<1>3. Ended(u)[m] = Ended(s)[m]
  <2>1. m <= Len(s) /\ m <= Len(u)
    BY <1>1
  <2> QED BY <1>1, <1>2, <2>1, EndedPrefix
<1> PICK d : d = Ended(s)[m]
  OBVIOUS
<1>4. d \in Seq(Frame)
  BY <1>1, EndedType
<1> DEFINE S == {i \in 0..n : Ended(u)[m + i] = d \o Ended(t)[i]}
<1>5. 0 \in S
  <2>1. Ended(t)[0] = <<>> /\ m + 0 = m /\ 0 \in 0..n
    BY <1>1, EndedRecursion
  <2> QED BY <1>3, <1>4, <2>1, ConcatEmptySeq
<1>6. ASSUME NEW i \in 1..n, i - 1 \in S PROVE i \in S
  <2>1. i \in 0..n /\ i - 1 \in 0..n /\ m + i \in 1..Len(u) /\ m + i - 1 = m + (i - 1)
    BY <1>1
  <2>2. u[m + i] = t[i] /\ t[i] \in Byte
    BY ConcatRest, ElementOfSeq
  <2>3. Ended(u)[m + i] = WithByte(Ended(u)[m + (i - 1)], t[i])
    <3> PICK j : j = m + i
      OBVIOUS
    <3>1. j \in 1..Len(u) /\ j - 1 = m + (i - 1) /\ u[j] = t[i]
      BY <2>1, <2>2
    <3>2. Ended(u)[j] = WithByte(Ended(u)[j - 1], u[j])
      BY <1>1, <3>1, EndedRecursion
    <3> QED BY <3>1, <3>2
  <2>4. Ended(u)[m + (i - 1)] = d \o Ended(t)[i - 1]
    BY <1>6
  <2>5. Ended(t)[i - 1] \in Seq(Frame)
    BY <2>1, EndedType
  <2>6. WithByte(d \o Ended(t)[i - 1], t[i]) = d \o WithByte(Ended(t)[i - 1], t[i])
    BY <1>4, <2>2, <2>5, WithByteAfter
  <2>7. Ended(t)[i] = WithByte(Ended(t)[i - 1], t[i])
    BY EndedRecursion
  <2> QED BY <2>1, <2>3, <2>4, <2>6, <2>7
<1>7. n \in S
  <2> HIDE DEF S
  <2>1. \A i \in 0..n : i \in S
    BY <1>1, <1>5, <1>6, UpTo
  <2>2. n \in 0..n
    BY <1>1
  <2> QED BY <2>1, <2>2
<1> QED BY <1>1, <1>7 DEF Complete

-----------------------------------------------------------------------------
(* Lemmas about the steps. *)

(* The parts of what is under way are sequences of bytes, and so is the whole. *)
LEMMA StreamType ==
  ASSUME BytesType, NEW q \in Peer
  PROVE  /\ decoder[q] \in Seq(Byte) /\ pipe[q] \in Seq(Byte) /\ rest[q] \in Seq(Byte)
         /\ pipe[q] \o rest[q] \in Seq(Byte)
         /\ Stream(q) \in Seq(Byte)
<1>1. decoder[q] \in Seq(Byte) /\ pipe[q] \in Seq(Byte) /\ rest[q] \in Seq(Byte)
  BY DEF BytesType
<1>2. pipe[q] \o rest[q] \in Seq(Byte)
  BY <1>1, ConcatProperties
<1> QED BY <1>1, <1>2, ConcatProperties DEF Stream

(* The decoder holds the beginning of one frame. *)
LEMMA DecoderHoldsPrefix ==
  ASSUME BytesType, NEW q \in Peer, StreamOk(q)
  PROVE  \A i \in 1..Len(decoder[q]) :
           decoder[q][i] = [frame |-> decoder[q][1].frame, place |-> i]
<1>1. Framed(decoder[q])
  <2>1. Framed(Stream(q)) /\ Stream(q) = decoder[q] \o (pipe[q] \o rest[q])
    BY DEF StreamOk, Stream
  <2> QED BY <2>1, StreamType, FramedPrefix
<1>2. Len(decoder[q]) \in Nat /\ decoder[q] \in Seq(Byte)
  BY StreamType, LenProperties
<1>3. ASSUME NEW i \in 1..Len(decoder[q])
      PROVE  i <= Size(decoder[q][1].frame)
  <2>1. 1 \in 1..Len(decoder[q])
    BY <1>2
  <2>2. decoder[q][1].frame \in Frame
    BY <1>2, <2>1, StartType
  <2>3. HeaderSize <= Size(decoder[q][1].frame) /\ Size(decoder[q][1].frame) \in Nat
    BY <2>2, SizeType
  <2>4. Len(decoder[q]) <= Size(decoder[q][1].frame)
    BY <1>2, <2>3, TransportAssumption DEF StreamOk, Needed
  <2> QED BY <1>2, <2>3, <2>4
<1> QED BY <1>1, <1>2, <1>3, FirstFrame

(* A complete header is well formed. *)
LEMMA HeaderIsValid ==
  ASSUME BytesType, NEW q \in Peer, StreamOk(q), Decodable(q)
  PROVE  ValidHeader(q)
<1>1. \A i \in 1..Len(decoder[q]) :
        decoder[q][i] = [frame |-> decoder[q][1].frame, place |-> i]
  BY DecoderHoldsPrefix
<1>2. Len(decoder[q]) \in Nat /\ HeaderSize <= Len(decoder[q])
  BY StreamType, LenProperties DEF Decodable, HasHeader
<1> QED BY <1>1, <1>2, TransportAssumption DEF ValidHeader

(* A peer no step touches stays in order. *)
LEMMA StreamKept ==
  ASSUME NEW q \in Peer, StreamOk(q),
         decoder'[q] = decoder[q], pipe'[q] = pipe[q], rest'[q] = rest[q],
         q \in writers' <=> q \in writers
  PROVE  StreamOk(q)'
BY DEF StreamOk, Stream, Needed, HasHeader

LEMMA InitTransport == Init => TransportInv
<1> SUFFICES ASSUME Init PROVE TransportInv
  OBVIOUS
<1>1. <<>> \in Seq(Byte) /\ Len(<<>>) = 0 /\ <<>> \o <<>> = <<>>
  BY EmptySeq, ConcatEmptySeq
<1>2. BytesType
  BY <1>1 DEF Init, BytesType
<1>3. ASSUME NEW q \in Peer PROVE StreamOk(q)
  <2>1. Stream(q) = <<>> /\ decoder[q] = <<>>
    BY <1>1 DEF Init, Stream
  <2>2. Len(decoder[q]) <= Needed(q)
    BY <2>1, <1>1, TransportAssumption DEF Needed, HasHeader
  <2> QED BY <2>1, <2>2, <1>1 DEF StreamOk, Framed, Whole, Init
<1> QED BY <1>2, <1>3 DEF TransportInv, Init

LEMMA BeginFrameKeeps ==
  ASSUME TransportInv, NEW q \in Peer, NEW f \in Frame, BeginFrame(q, f)
  PROVE  TransportInv'
<1>1. BytesOf(f) \in Seq(Byte) /\ BytesType /\ q \in writers
  BY BytesOfType DEF TransportInv, BeginFrame
<1>2. BytesType'
  BY <1>1 DEF BytesType, BeginFrame
<1>3. StreamOk(q)'
  <2>1. rest[q] = <<>> /\ rest'[q] = BytesOf(f)
    BY <1>1 DEF BeginFrame, BytesType
  <2>2. Stream(q) = decoder[q] \o pipe[q]
    BY <1>1, <2>1, StreamType, ConcatEmptySeq DEF Stream
  <2>3. Stream(q)' = Stream(q) \o BytesOf(f)
    <3>1. Stream(q)' = decoder[q] \o (pipe[q] \o BytesOf(f))
      BY <2>1 DEF Stream, BeginFrame
    <3>2. decoder[q] \in Seq(Byte) /\ pipe[q] \in Seq(Byte)
      BY <1>1, StreamType
    <3>3. (decoder[q] \o pipe[q]) \o BytesOf(f) = decoder[q] \o (pipe[q] \o BytesOf(f))
      <4> PICK a, b, c : a = decoder[q] /\ b = pipe[q] /\ c = BytesOf(f)
        OBVIOUS
      <4>1. Regrouped(a, b, c)
        BY <1>1, <3>2, Regroup
      <4> QED BY <4>1 DEF Regrouped
    <3> QED BY <2>2, <3>1, <3>3
  <2>4. Stream(q) \in Seq(Byte) /\ Stream(q)' \in Seq(Byte)
    BY <1>1, <2>3, StreamType, ConcatProperties
  <2>5. Framed(Stream(q)) /\ Whole(Stream(q)) /\ Len(decoder[q]) <= Needed(q)
    BY <1>1 DEF TransportInv, StreamOk
  <2>6. Framed(Stream(q)') /\ Whole(Stream(q)')
    BY <2>3, <2>4, <2>5, FrameBegun
  <2> QED BY <1>1, <2>5, <2>6 DEF StreamOk, Framed, Whole, Start, End, Needed, HasHeader, BeginFrame
<1>4. ASSUME NEW p \in Peer, p # q PROVE StreamOk(p)'
  BY <1>1, <1>4, StreamKept DEF TransportInv, BeginFrame, BytesType
<1> QED BY <1>2, <1>3, <1>4 DEF TransportInv, BeginFrame, Drained, place

LEMMA WriteBytesKeeps ==
  ASSUME TransportInv, NEW q \in Peer, NEW n \in 1..PipeSize, WriteBytes(q, n)
  PROVE  TransportInv'
<1> DEFINE first == SubSeq(rest[q], 1, n)
           later == SubSeq(rest[q], n + 1, Len(rest[q]))
<1>1. BytesType /\ q \in writers /\ n \in 1..Len(rest[q]) /\ call # "over"
  BY DEF TransportInv, WriteBytes, Writable
<1>2. decoder[q] \in Seq(Byte) /\ pipe[q] \in Seq(Byte) /\ rest[q] \in Seq(Byte)
  BY <1>1, StreamType
<1>3. /\ later \in Seq(Byte) /\ pipe[q] \o first \in Seq(Byte)
      /\ (pipe[q] \o first) \o later = pipe[q] \o rest[q]
  BY <1>1, <1>2, MoveBytes
<1>4. pipe'[q] = pipe[q] \o first /\ rest'[q] = later
  BY <1>1 DEF WriteBytes, BytesType
<1> HIDE DEF first, later
<1>5. BytesType'
  <2>1. /\ pipe' = [pipe EXCEPT ![q] = pipe[q] \o first]
        /\ rest' = [rest EXCEPT ![q] = later]
        /\ writers' = writers /\ decoder' = decoder
    BY DEF WriteBytes, first, later
  <2> QED BY <2>1, <1>1, <1>3 DEF BytesType
<1>6. StreamOk(q)'
  <2>1. Stream(q)' = Stream(q)
    BY <1>3, <1>4 DEF Stream, WriteBytes
  <2> QED BY <2>1, <1>1 DEF StreamOk, TransportInv, Needed, HasHeader, WriteBytes
<1>7. ASSUME NEW p \in Peer, p # q PROVE StreamOk(p)'
  BY <1>1, <1>7, StreamKept DEF TransportInv, WriteBytes, BytesType
<1>8. \A p \in Peer : Drained(p) => Drained(p)'
  BY <1>1 DEF Drained, WriteBytes, BytesType
<1> QED BY <1>1, <1>5, <1>6, <1>7, <1>8 DEF TransportInv, WriteBytes, place

LEMMA LeaveKeeps ==
  ASSUME TransportInv, NEW q \in Peer, Leave(q)
  PROVE  TransportInv'
<1>1. BytesType /\ q \in writers /\ q \notin writers' /\ rest'[q] = <<>>
  BY DEF TransportInv, Leave, BytesType
<1>2. decoder[q] \in Seq(Byte) /\ pipe[q] \in Seq(Byte) /\ rest[q] \in Seq(Byte)
      /\ decoder[q] \o pipe[q] \in Seq(Byte) /\ Stream(q) \in Seq(Byte)
  BY <1>1, StreamType, ConcatProperties
<1>3. BytesType'
  BY <1>1, EmptySeq DEF BytesType, Leave
<1>4. StreamOk(q)'
  <2>1. Stream(q) = (decoder[q] \o pipe[q]) \o rest[q]
    <3> PICK a, b, c : a = decoder[q] /\ b = pipe[q] /\ c = rest[q]
      OBVIOUS
    <3>1. a \in Seq(Byte) /\ b \in Seq(Byte) /\ c \in Seq(Byte)
      BY <1>2
    <3>2. Regrouped(a, b, c)
      BY <3>1, Regroup
    <3> QED BY <3>2 DEF Stream, Regrouped
  <2>2. Stream(q)' = decoder[q] \o pipe[q]
    BY <1>1, <1>2, ConcatEmptySeq DEF Stream, Leave
  <2>3. Framed(Stream(q)) /\ Len(decoder[q]) <= Needed(q)
    BY DEF TransportInv, StreamOk
  <2>4. Framed(decoder[q] \o pipe[q])
    BY <1>2, <2>1, <2>3, FramedPrefix
  <2>5. Framed(Stream(q)')
    BY <2>2, <2>4
  <2> QED BY <1>1, <2>3, <2>5 DEF StreamOk, Framed, Start, End, Needed, HasHeader, Leave
<1>5. ASSUME NEW p \in Peer, p # q PROVE StreamOk(p)'
  BY <1>1, <1>5, StreamKept DEF TransportInv, Leave, BytesType
<1> QED BY <1>1, <1>3, <1>4, <1>5 DEF TransportInv, Leave, Drained, place

LEMMA DecodeKeeps ==
  ASSUME TransportInv, NEW q \in Peer, Decode(q)
  PROVE  TransportInv'
<1>1. /\ BytesType /\ StreamOk(q) /\ Decodable(q) /\ call # "over"
      /\ decoder[q] \in Seq(Byte) /\ pipe[q] \o rest[q] \in Seq(Byte)
      /\ Stream(q) \in Seq(Byte)
  BY StreamType DEF TransportInv, Decode, InReceive
<1>2. ValidHeader(q)
  BY <1>1, HeaderIsValid
<1>3. /\ decoder' = [decoder EXCEPT ![q] = <<>>] /\ NextCall(q)
      /\ writers' = writers /\ pipe' = pipe /\ rest' = rest /\ open' = open
  BY <1>2 DEF Decode, bytes
<1>4. BytesType'
  BY <1>1, <1>3, EmptySeq DEF BytesType
<1>5. StreamOk(q)'
  <2> DEFINE n == Len(decoder[q])
  <2>1. n \in Nat \ {0} /\ n = Size(decoder[q][1].frame)
    BY <1>1, <1>2, LenProperties, TransportAssumption DEF Decodable, HasHeader, Needed
  <2>2. Framed(Stream(q)) /\ Stream(q) = decoder[q] \o (pipe[q] \o rest[q])
        /\ (q \in writers => Whole(Stream(q))) /\ (q \notin writers => rest[q] = <<>>)
    BY <1>1 DEF StreamOk, Stream
  <2> HIDE DEF n
  <2>3. /\ Framed(pipe[q] \o rest[q])
        /\ Whole(Stream(q)) => Whole(pipe[q] \o rest[q])
    BY <1>1, <2>1, <2>2, FramedSuffix DEF n
  <2>4. decoder'[q] = <<>>
    BY <1>1, <1>3 DEF BytesType
  <2>5. Stream(q)' = pipe[q] \o rest[q]
    BY <1>1, <1>3, <2>4, ConcatEmptySeq DEF Stream
  <2>6. Len(decoder'[q]) <= Needed(q)'
    BY <2>4, EmptySeq, TransportAssumption DEF Needed, HasHeader
  <2>7. Framed(Stream(q))'
    <3> PICK v : v = pipe[q] \o rest[q]
      OBVIOUS
    <3>1. Framed(v) /\ Stream(q)' = v
      BY <2>3, <2>5
    <3> QED BY <3>1 DEF Framed, Start, End
  <2>8. Whole(Stream(q)) => Whole(Stream(q))'
    <3> PICK v : v = pipe[q] \o rest[q]
      OBVIOUS
    <3>1. (Whole(Stream(q)) => Whole(v)) /\ Stream(q)' = v
      BY <2>3, <2>5
    <3>2. Whole(v) => Whole(Stream(q))'
      BY <3>1 DEF Whole, Start, End
    <3> QED BY <3>1, <3>2
  <2> QED BY <1>3, <2>2, <2>6, <2>7, <2>8 DEF StreamOk
<1>6. ASSUME NEW p \in Peer, p # q PROVE StreamOk(p)'
  BY <1>1, <1>3, <1>6, StreamKept DEF TransportInv, BytesType
<1>7. call' # "over"
  BY <1>3 DEF NextCall, EnterCall
<1> QED BY <1>3, <1>4, <1>5, <1>6, <1>7 DEF TransportInv, Drained

LEMMA ReadBytesKeeps ==
  ASSUME TransportInv, NEW q \in Peer, NEW n \in 1..PipeSize, ReadBytes(q, n)
  PROVE  TransportInv'
<1> DEFINE first == SubSeq(pipe[q], 1, n)
           later == SubSeq(pipe[q], n + 1, Len(pipe[q]))
<1>1. BytesType /\ n \in 1..Len(pipe[q]) /\ call # "over"
  BY DEF TransportInv, ReadBytes, Readable, InReceive
<1>2. /\ decoder[q] \in Seq(Byte) /\ pipe[q] \in Seq(Byte) /\ rest[q] \in Seq(Byte)
      /\ Len(decoder[q]) \in Nat
  BY <1>1, StreamType, LenProperties
<1>3. /\ first \in Seq(Byte) /\ later \in Seq(Byte) /\ decoder[q] \o first \in Seq(Byte)
      /\ first \o later = pipe[q] /\ Len(decoder[q] \o first) = Len(decoder[q]) + n
  BY <1>1, <1>2, MoveBytes
<1>4. /\ decoder' = [decoder EXCEPT ![q] = decoder[q] \o first]
      /\ pipe' = [pipe EXCEPT ![q] = later]
      /\ writers' = writers /\ rest' = rest /\ open' = open /\ call' = call
  BY DEF ReadBytes, place
<1> HIDE DEF first, later
<1>5. BytesType'
  BY <1>1, <1>3, <1>4 DEF BytesType
<1>6. decoder'[q] = decoder[q] \o first /\ pipe'[q] = later /\ rest'[q] = rest[q]
  BY <1>1, <1>4 DEF BytesType
<1>7. StreamOk(q)'
  <2>1. Stream(q)' = Stream(q)
    <3>1. (first \o later) \o rest[q] = first \o (later \o rest[q])
      <4> PICK z : z = rest[q]
        OBVIOUS
      <4>1. z \in Seq(Byte)
        BY <1>2
      <4>2. first \in Seq(Byte) /\ later \in Seq(Byte)
        BY <1>3
      <4>3. Regrouped(first, later, z)
        BY <4>1, <4>2, Regroup
      <4> QED
        BY <4>3 DEF Regrouped
    <3>2. later \o rest[q] \in Seq(Byte)
      BY <1>2, <1>3, ConcatProperties
    <3>3. (decoder[q] \o first) \o (later \o rest[q]) = decoder[q] \o (first \o (later \o rest[q]))
      <4> PICK a, c : a = decoder[q] /\ c = later \o rest[q]
        OBVIOUS
      <4>1. a \in Seq(Byte) /\ first \in Seq(Byte) /\ c \in Seq(Byte)
        BY <1>2, <1>3, <3>2
      <4>2. Regrouped(a, first, c)
        BY <4>1, Regroup
      <4> QED
        BY <4>2 DEF Regrouped
    <3> QED BY <1>3, <1>6, <3>1, <3>3 DEF Stream
  <2>2. Len(decoder'[q]) <= Needed(q) /\ Needed(q) \in Nat /\ Len(decoder'[q]) \in Nat
    <3>1. Needed(q) \in Nat
      <4>1. CASE HasHeader(q)
        <5>1. 1 \in 1..Len(decoder[q])
          BY <4>1, <1>2, TransportAssumption DEF HasHeader
        <5>2. decoder[q][1].frame \in Frame
          BY <5>1, <1>2, StartType
        <5> QED BY <4>1, <5>2, SizeType DEF Needed
      <4>2. CASE ~HasHeader(q)
        BY <4>2, TransportAssumption DEF Needed
      <4> QED BY <4>1, <4>2
    <3>2. n <= Needed(q) - Len(decoder[q])
      BY DEF ReadBytes, Readable
    <3> PICK k, l, m : k = Needed(q) /\ l = Len(decoder[q]) /\ m = Len(decoder'[q])
      OBVIOUS
    <3>3. k \in Nat /\ l \in Nat /\ m = l + n /\ n <= k - l
      BY <1>2, <1>3, <1>6, <3>1, <3>2
    <3>4. n \in Nat
      OBVIOUS
    <3>5. m <= k /\ m \in Nat
      BY <3>3, <3>4
    <3> QED BY <3>1, <3>5
  <2>3. Needed(q) <= Needed(q)' /\ Needed(q)' \in Nat
    <3>1. CASE HasHeader(q)
      <4>1. HasHeader(q)' /\ decoder'[q][1] = decoder[q][1]
        <5>1. Len(decoder[q]) >= 1 /\ Len(decoder'[q]) >= HeaderSize
          BY <3>1, <1>2, <1>3, <1>6, TransportAssumption DEF HasHeader
        <5>2. (decoder[q] \o first)[1] = decoder[q][1]
          BY <5>1, <1>2, <1>3, ConcatProperties, LenProperties
        <5> QED BY <5>1, <5>2, <1>6 DEF HasHeader
      <4>2. decoder[q][1].frame \in Frame
        <5>1. 1 \in 1..Len(decoder[q])
          BY <3>1, <1>2, TransportAssumption DEF HasHeader
        <5> QED BY <5>1, <1>2, StartType
      <4> QED BY <3>1, <4>1, <4>2, SizeType DEF Needed
    <3>2. CASE ~HasHeader(q)
      <4>1. Needed(q) = HeaderSize
        BY <3>2 DEF Needed
      <4>2. CASE HasHeader(q)'
        <5>1. decoder'[q] \in Seq(Byte) /\ 1 \in 1..Len(decoder'[q])
          BY <4>2, <1>2, <1>3, <1>6, TransportAssumption DEF HasHeader
        <5>2. decoder'[q][1].frame \in Frame
          BY <5>1, StartType
        <5> QED BY <4>1, <4>2, <5>2, SizeType DEF Needed
      <4>3. CASE ~HasHeader(q)'
        BY <4>1, <4>3, TransportAssumption DEF Needed
      <4> QED BY <4>2, <4>3
    <3> QED BY <3>1, <3>2
  <2>4. Len(decoder'[q]) <= Needed(q)'
    BY <2>2, <2>3
  <2>5. StreamOk(q)
    BY DEF TransportInv
  <2> QED BY <2>1, <2>4, <2>5, <1>4 DEF StreamOk
<1>8. ASSUME NEW p \in Peer, p # q PROVE StreamOk(p)'
  BY <1>1, <1>4, <1>8, StreamKept DEF TransportInv, BytesType
<1>9. \A p \in Peer : Drained(p) => Drained(p)'
  BY <1>1, <1>2, <1>4, EmptySeq DEF Drained, BytesType
<1> QED BY <1>1, <1>4, <1>5, <1>7, <1>8, <1>9 DEF TransportInv

(* An end of file or an empty pipe moves no byte; the reader fails only for a *)
(* peer that is drained.                                                      *)
LEMMA NoBytesKeeps ==
  ASSUME TransportInv, NEW q \in Peer, EndOfFile(q) \/ WouldBlock(q)
  PROVE  TransportInv'
<1>1. BytesType /\ call # "over"
  BY DEF TransportInv, EndOfFile, WouldBlock, InReceive
<1>2. writers' = writers /\ rest' = rest /\ pipe' = pipe /\ decoder' = decoder
  BY DEF EndOfFile, WouldBlock, bytes
<1>3. BytesType'
  BY <1>1, <1>2 DEF BytesType
<1>4. \A p \in Peer : StreamOk(p)'
  BY <1>2, StreamKept DEF TransportInv
<1>5. \A p \in Peer \ open' : Drained(p)'
  <2>1. CASE EndOfFile(q)
    BY <2>1, <1>2 DEF TransportInv, Drained, EndOfFile
  <2>2. CASE WouldBlock(q)
    BY <2>2, <1>2 DEF TransportInv, Drained, WouldBlock
  <2> QED BY <2>1, <2>2
<1>6. call' = "over" => Drained(q)'
  <2>1. CASE EndOfFile(q)
    BY <2>1, <1>2 DEF Drained, EndOfFile
  <2>2. CASE WouldBlock(q)
    <3>1. open' = open /\ NoFrame(q)
      BY <2>2 DEF WouldBlock
    <3>2. call' = "over" => q \notin open'
      BY <3>1, <1>1 DEF NoFrame, EnterCall, Fails, place
    <3> QED BY <3>2, <1>5
  <2> QED BY <2>1, <2>2
<1> QED BY <1>3, <1>4, <1>5, <1>6 DEF TransportInv

LEMMA NextTransport == TransportInv /\ [Next]_vars => TransportInv'
<1> SUFFICES ASSUME TransportInv, [Next]_vars PROVE TransportInv'
  OBVIOUS
<1>1. CASE UNCHANGED vars
  BY <1>1 DEF TransportInv, BytesType, StreamOk, Stream, Drained, Needed, HasHeader, vars
<1>2. ASSUME NEW q \in Peer, NEW f \in Frame, BeginFrame(q, f) PROVE TransportInv'
  BY <1>2, BeginFrameKeeps
<1>3. ASSUME NEW q \in Peer, NEW n \in 1..PipeSize, WriteBytes(q, n) PROVE TransportInv'
  BY <1>3, WriteBytesKeeps
<1>4. ASSUME NEW q \in Peer, Leave(q) PROVE TransportInv'
  BY <1>4, LeaveKeeps
<1>5. ASSUME NEW q \in Peer, Decode(q) PROVE TransportInv'
  BY <1>5, DecodeKeeps
<1>6. ASSUME NEW q \in Peer, NEW n \in 1..PipeSize, ReadBytes(q, n) PROVE TransportInv'
  BY <1>6, ReadBytesKeeps
<1>7. ASSUME NEW q \in Peer, EndOfFile(q) \/ WouldBlock(q) PROVE TransportInv'
  BY <1>7, NoBytesKeeps
<1> QED BY <1>1, <1>2, <1>3, <1>4, <1>5, <1>6, <1>7 DEF Next, Receive, Write

LEMMA AlwaysTransport == Spec => []TransportInv
BY InitTransport, NextTransport, PTL DEF Spec

-----------------------------------------------------------------------------
(* Transport implements FramePipe. *)

(* Beside the frames around the bytes: what a peer has still to write ends one *)
(* frame with its last byte, and a pipe is closed between two frames.          *)
FrameInv ==
  /\ \A q \in Peer : LastEnds(rest[q])
  /\ call # "over" => \A q \in Peer \ open : decoder[q] = <<>>

LEMMA NothingEnds == LastEnds(<<>>)
BY EmptySeq DEF LastEnds

LEMMA FrameEnds ==
  ASSUME NEW f \in Frame
  PROVE  LastEnds(BytesOf(f))
BY BytesOfType DEF LastEnds

(* What a write leaves. *)
LEMMA RestEnds ==
  ASSUME NEW s \in Seq(Byte), LastEnds(s), NEW n \in 1..Len(s),
         NEW later, later = SubSeq(s, n + 1, Len(s))
  PROVE  LastEnds(later)
<1> PICK m : m = Len(s)
  OBVIOUS
<1>1. m \in Nat /\ n \in Nat /\ n <= m
  BY LenProperties
<1>2. /\ later \in Seq(Byte) /\ Len(later) = m - n
      /\ \A i \in 1..(m - n) : later[i] = s[n + i]
  <2>1. \A i \in (n + 1)..m : s[i] \in Byte
    BY <1>1, ElementOfSeq
  <2>2. n + 1 \in Int /\ m \in Int
    BY <1>1
  <2>3. /\ later \in Seq(Byte)
        /\ Len(later) = IF n + 1 <= m THEN m - (n + 1) + 1 ELSE 0
        /\ \A i \in 1..(m - (n + 1) + 1) : later[i] = s[n + 1 + i - 1]
    BY <2>1, <2>2, SubSeqProperties
  <2>4. m - (n + 1) + 1 = m - n /\ \A i \in 1..(m - n) : n + 1 + i - 1 = n + i
    BY <1>1
  <2>5. (IF n + 1 <= m THEN m - (n + 1) + 1 ELSE 0) = m - n
    BY <1>1
  <2> QED BY <2>3, <2>4, <2>5
<1>3. \A i \in 1..(m - n) : n + i \in 1..m /\ (n + i = m <=> i = m - n)
  BY <1>1
<1> QED BY <1>2, <1>3 DEF LastEnds

LEMMA InitFrames == Init => FrameInv
BY NothingEnds DEF Init, FrameInv

LEMMA NextFrames == TransportInv /\ FrameInv /\ [Next]_vars => FrameInv'
<1> SUFFICES ASSUME TransportInv, FrameInv, [Next]_vars PROVE FrameInv'
  OBVIOUS
<1>1. BytesType /\ \A q \in Peer : StreamOk(q)
  BY DEF TransportInv
<1>2. CASE UNCHANGED vars
  BY <1>2 DEF FrameInv, LastEnds, vars
<1>3. ASSUME NEW q \in Peer, NEW f \in Frame, BeginFrame(q, f) PROVE FrameInv'
  <2>1. \A p \in Peer : rest'[p] = rest[p] \/ rest'[p] = BytesOf(f)
    BY <1>1, <1>3 DEF BeginFrame, BytesType
  <2>2. \A p \in Peer : LastEnds(rest'[p])
    BY <2>1, FrameEnds DEF FrameInv
  <2> QED BY <1>3, <2>2 DEF FrameInv, BeginFrame, place, LastEnds
<1>4. ASSUME NEW q \in Peer, NEW n \in 1..PipeSize, WriteBytes(q, n) PROVE FrameInv'
  <2> PICK later : later = SubSeq(rest[q], n + 1, Len(rest[q]))
    OBVIOUS
  <2>1. rest' = [rest EXCEPT ![q] = later] /\ n \in 1..Len(rest[q])
    BY <1>4 DEF WriteBytes, Writable
  <2>2. rest[q] \in Seq(Byte) /\ LastEnds(rest[q])
    BY <1>1, StreamType DEF FrameInv
  <2>3. LastEnds(later)
    BY <2>1, <2>2, RestEnds
  <2>4. \A p \in Peer : rest'[p] = rest[p] \/ rest'[p] = later
    BY <1>1, <2>1 DEF BytesType
  <2>5. \A p \in Peer : LastEnds(rest'[p])
    BY <2>3, <2>4 DEF FrameInv
  <2> QED BY <1>4, <2>5 DEF FrameInv, WriteBytes, place, LastEnds
<1>5. ASSUME NEW q \in Peer, Leave(q) PROVE FrameInv'
  <2>1. \A p \in Peer : rest'[p] = rest[p] \/ rest'[p] = <<>>
    BY <1>1, <1>5 DEF Leave, BytesType
  <2>2. \A p \in Peer : LastEnds(rest'[p])
    BY <2>1, NothingEnds DEF FrameInv
  <2> QED BY <1>5, <2>2 DEF FrameInv, Leave, place, LastEnds
<1>6. ASSUME NEW q \in Peer, Decode(q) PROVE FrameInv'
  <2>1. ValidHeader(q) /\ call # "over"
    BY <1>1, <1>6, HeaderIsValid DEF Decode, InReceive
  <2>2. decoder' = [decoder EXCEPT ![q] = <<>>] /\ rest' = rest /\ open' = open
    BY <1>6, <2>1 DEF Decode, bytes
  <2>3. \A p \in Peer : decoder'[p] = decoder[p] \/ decoder'[p] = <<>>
    BY <1>1, <2>2 DEF BytesType
  <2> QED BY <2>1, <2>2, <2>3 DEF FrameInv, LastEnds
<1>7. ASSUME NEW q \in Peer, NEW n \in 1..PipeSize, ReadBytes(q, n) PROVE FrameInv'
  <2>1. q \in open /\ open' = open /\ rest' = rest /\ call' = call
    BY <1>7 DEF ReadBytes, place
  <2>2. \A p \in Peer \ {q} : decoder'[p] = decoder[p]
    BY <1>1, <1>7 DEF ReadBytes, BytesType
  <2> QED BY <2>1, <2>2 DEF FrameInv, LastEnds
<1>8. ASSUME NEW q \in Peer, EndOfFile(q) PROVE FrameInv'
  <2>1. open' = open \ {q} /\ decoder' = decoder /\ rest' = rest /\ call # "over"
    BY <1>8 DEF EndOfFile, bytes, InReceive
  <2>2. decoder[q] = <<>> \/ call' = "over"
    BY <1>8 DEF EndOfFile, Fails
  <2> QED BY <2>1, <2>2 DEF FrameInv, LastEnds
<1>9. ASSUME NEW q \in Peer, WouldBlock(q) PROVE FrameInv'
  <2>1. open' = open /\ decoder' = decoder /\ rest' = rest /\ call # "over"
    BY <1>9 DEF WouldBlock, bytes, InReceive
  <2> QED BY <2>1 DEF FrameInv, LastEnds
<1> QED BY <1>2, <1>3, <1>4, <1>5, <1>6, <1>7, <1>8, <1>9 DEF Next, Receive, Write

-----------------------------------------------------------------------------
(* What is in the decoder and in the pipe. *)

LEMMA WayType ==
  ASSUME BytesType, NEW q \in Peer
  PROVE  /\ decoder[q] \o pipe[q] \in Seq(Byte)
         /\ OnTheWay(q) \in Seq(Frame)
         /\ OnTheWay(q) = Complete(decoder[q]) \o Complete(pipe[q])
<1>1. decoder[q] \in Seq(Byte) /\ pipe[q] \in Seq(Byte)
  BY StreamType
<1>2. decoder[q] \o pipe[q] \in Seq(Byte)
  BY <1>1, ConcatProperties
<1> QED BY <1>1, <1>2, CompleteType, CompleteConcat DEF OnTheWay

(* The bytes in the decoder are numbered. *)
LEMMA HeldBytes ==
  ASSUME BytesType, NEW q \in Peer, StreamOk(q)
  PROVE  \A i \in 1..Len(decoder[q]) :
           decoder[q][i].frame = decoder[q][1].frame /\ decoder[q][i].place = i
<1> TAKE i \in 1..Len(decoder[q])
<1> PICK b, f : b = decoder[q][i] /\ f = decoder[q][1].frame
  OBVIOUS
<1>1. b = [frame |-> f, place |-> i]
  BY DecoderHoldsPrefix
<1>2. b.frame = f /\ b.place = i
  BY ONLY <1>1
<1> QED BY <1>2

(* The decoder holds no complete frame, or it is one. *)
LEMMA NotDecodable ==
  ASSUME BytesType, NEW q \in Peer, StreamOk(q), ~Decodable(q)
  PROVE  Complete(decoder[q]) = <<>>
<1> PICK s, l : s = decoder[q] /\ l = Len(s)
  OBVIOUS
<1>1. s \in Seq(Byte) /\ l \in Nat
  BY StreamType, LenProperties
<1>2. \A i \in 1..l : s[i] = [frame |-> s[1].frame, place |-> i]
  BY DecoderHoldsPrefix
<1> SUFFICES ASSUME NEW i \in 1..l PROVE s[i].place # Size(s[i].frame)
  BY <1>1, CompleteNone
<1>3. s[i].frame = s[1].frame /\ s[i].place = i
  BY HeldBytes
<1>4. 1 \in 1..l
  BY <1>1
<1>5. Size(s[1].frame) \in Nat /\ HeaderSize <= Size(s[1].frame)
  BY <1>1, <1>4, StartType, SizeType
<1>6. l < Size(s[1].frame)
  <2>1. CASE l >= HeaderSize
    <3>1. HasHeader(q) /\ Needed(q) = Size(s[1].frame) /\ l <= Needed(q)
      BY <2>1 DEF HasHeader, Needed, StreamOk
    <3>2. ValidHeader(q)
      BY <1>1, <1>2, <2>1, TransportAssumption DEF ValidHeader
    <3>3. l # Needed(q)
      BY <3>1, <3>2 DEF Decodable
    <3> QED BY <1>1, <1>5, <3>1, <3>3
  <2>2. CASE ~(l >= HeaderSize)
    BY <2>2, <1>1, <1>5, TransportAssumption
  <2> QED BY <2>1, <2>2
<1> QED BY <1>1, <1>3, <1>5, <1>6

LEMMA DecodableHolds ==
  ASSUME BytesType, NEW q \in Peer, StreamOk(q), Decodable(q)
  PROVE  /\ Complete(decoder[q]) = <<decoder[q][1].frame>>
         /\ decoder[q][1].frame \in Frame
<1> PICK s, l : s = decoder[q] /\ l = Len(s)
  OBVIOUS
<1>1. s \in Seq(Byte) /\ l \in Nat /\ HasHeader(q) /\ l = Needed(q)
  BY StreamType, LenProperties, HeaderIsValid DEF Decodable
<1>2. 1 \in 1..l /\ l \in 1..l /\ s # <<>>
  <2>1. l >= HeaderSize /\ HeaderSize \in Nat \ {0}
    BY <1>1, TransportAssumption DEF HasHeader
  <2>2. l \in Nat \ {0}
    BY <1>1, <2>1
  <2> QED BY <2>2, EmptySeq
<1>3. l = Size(s[1].frame)
  BY <1>1 DEF Needed
<1>4. \A i \in 1..l : s[i].frame = s[1].frame /\ s[i].place = i
  BY HeldBytes
<1>5. LastEnds(s)
  BY <1>3, <1>4 DEF LastEnds
<1>6. Complete(s) = <<s[l].frame>> /\ s[l].frame \in Frame
  BY <1>1, <1>2, <1>5, CompleteOne
<1> QED BY <1>2, <1>4, <1>6

-----------------------------------------------------------------------------
(* What each step does to the frames on the way. *)

Ways == [q \in Peer |-> OnTheWay(q)]

LEMMA WaysMove ==
  ASSUME NEW q \in Peer, \A p \in Peer \ {q} : OnTheWay(p)' = OnTheWay(p),
         NEW way, OnTheWay(q)' = way
  PROVE  Ways' = [Ways EXCEPT ![q] = way]
<1>1. Ways' = [p \in Peer |-> OnTheWay(p)']
  BY DEF Ways
<1>2. \A p \in Peer : OnTheWay(p)' = IF p = q THEN way ELSE Ways[p]
  BY DEF Ways
<1>3. [Ways EXCEPT ![q] = way] = [p \in Peer |-> IF p = q THEN way ELSE Ways[p]]
  BY DEF Ways
<1> QED BY <1>1, <1>2, <1>3

LEMMA WaysStay ==
  ASSUME \A p \in Peer : OnTheWay(p)' = OnTheWay(p)
  PROVE  Ways' = Ways
BY DEF Ways

(* A write that ends a frame sends it, any other write sends nothing yet. *)
LEMMA WriteSends ==
  ASSUME TransportInv, FrameInv,
         NEW q \in Peer, NEW n \in 1..PipeSize, WriteBytes(q, n)
  PROVE  \/ \E f \in Frame : Ways' = [Ways EXCEPT ![q] = Append(Ways[q], f)]
         \/ Ways' = Ways
<1> PICK first : first = SubSeq(rest[q], 1, n)
  OBVIOUS
<1>1. BytesType /\ LastEnds(rest[q]) /\ n \in 1..Len(rest[q])
  BY DEF TransportInv, FrameInv, WriteBytes, Writable
<1>2. /\ decoder[q] \in Seq(Byte) /\ pipe[q] \in Seq(Byte) /\ rest[q] \in Seq(Byte)
      /\ decoder[q] \o pipe[q] \in Seq(Byte) /\ Len(rest[q]) \in Nat
  BY <1>1, StreamType, WayType, LenProperties
<1>3. pipe' = [pipe EXCEPT ![q] = pipe[q] \o first] /\ decoder' = decoder
  BY DEF WriteBytes
<1>4. \A p \in Peer \ {q} : OnTheWay(p)' = OnTheWay(p)
  BY <1>1, <1>3 DEF OnTheWay, BytesType
<1>5. /\ first \in Seq(Byte) /\ Len(first) = n
      /\ \A i \in 1..n : first[i] = rest[q][i]
  <2>1. \A i \in 1..n : i \in 1..Len(rest[q]) /\ rest[q][i] \in Byte
    BY <1>1, <1>2, ElementOfSeq
  <2>2. 1 \in Int /\ n \in Int /\ 1 <= n /\ n - 1 + 1 = n /\ \A i \in 1..n : 1 + i - 1 = i
    BY <1>1, <1>2
  <2>3. /\ first \in Seq(Byte)
        /\ Len(first) = IF 1 <= n THEN n - 1 + 1 ELSE 0
        /\ \A i \in 1..(n - 1 + 1) : first[i] = rest[q][1 + i - 1]
    BY <2>1, <2>2, SubSeqProperties
  <2> QED BY <2>2, <2>3
<1>6. OnTheWay(q)' = OnTheWay(q) \o Complete(first)
  <2>1. OnTheWay(q)' = Complete(decoder[q] \o (pipe[q] \o first))
    BY <1>1, <1>3 DEF OnTheWay, BytesType
  <2>2. (decoder[q] \o pipe[q]) \o first = decoder[q] \o (pipe[q] \o first)
    <3> PICK a, b : a = decoder[q] /\ b = pipe[q]
      OBVIOUS
    <3>1. Regrouped(a, b, first)
      BY <1>2, <1>5, Regroup
    <3> QED BY <3>1 DEF Regrouped
  <2>3. Complete((decoder[q] \o pipe[q]) \o first)
          = Complete(decoder[q] \o pipe[q]) \o Complete(first)
    <3> PICK a : a = decoder[q] \o pipe[q]
      OBVIOUS
    <3> QED BY <1>2, <1>5, CompleteConcat
  <2> QED BY <2>1, <2>2, <2>3 DEF OnTheWay
<1>7. OnTheWay(q) \in Seq(Frame) /\ Ways[q] = OnTheWay(q)
  BY <1>1, WayType DEF Ways
<1>8. CASE n = Len(rest[q])
  <2>1. LastEnds(first) /\ first # <<>>
    <3>1. LastEnds(first)
      BY <1>1, <1>5, <1>8 DEF LastEnds
    <3>2. first # <<>>
      BY <1>1, <1>2, <1>5, EmptySeq
    <3> QED BY <3>1, <3>2
  <2>2. PICK f \in Frame : Complete(first) = <<f>>
    BY <1>5, <2>1, CompleteOne
  <2>3. OnTheWay(q)' = Append(Ways[q], f)
    <3>1. Append(OnTheWay(q), f) = OnTheWay(q) \o <<f>>
      BY <1>7, AppendIsConcat
    <3> QED BY <1>6, <1>7, <2>2, <3>1
  <2> QED BY <1>4, <2>3, WaysMove
<1>9. CASE n # Len(rest[q])
  <2>1. \A i \in 1..n : i \in 1..Len(rest[q]) /\ i # Len(rest[q])
    BY <1>1, <1>2, <1>9
  <2>2. \A i \in 1..Len(first) : first[i].place # Size(first[i].frame)
    BY <1>1, <1>5, <2>1 DEF LastEnds
  <2>3. Complete(first) = <<>>
    BY <1>5, <2>2, CompleteNone
  <2>4. OnTheWay(q)' = OnTheWay(q)
    BY <1>6, <1>7, <2>3, ConcatEmptySeq
  <2> QED BY <1>4, <2>4, WaysStay
<1> QED BY <1>8, <1>9

(* A read takes from the pipe what it gives to the decoder. *)
LEMMA ReadStays ==
  ASSUME TransportInv, NEW q \in Peer, NEW n \in 1..PipeSize, ReadBytes(q, n)
  PROVE  Ways' = Ways
<1> PICK first, later : /\ first = SubSeq(pipe[q], 1, n)
                        /\ later = SubSeq(pipe[q], n + 1, Len(pipe[q]))
  OBVIOUS
<1>1. BytesType /\ n \in 1..Len(pipe[q])
  BY DEF TransportInv, ReadBytes, Readable
<1>2. /\ decoder' = [decoder EXCEPT ![q] = decoder[q] \o first]
      /\ pipe' = [pipe EXCEPT ![q] = later]
  BY DEF ReadBytes
<1>3. \A p \in Peer \ {q} : OnTheWay(p)' = OnTheWay(p)
  BY <1>1, <1>2 DEF OnTheWay, BytesType
<1>4. (decoder[q] \o first) \o later = decoder[q] \o pipe[q]
  <2> PICK a, b : a = decoder[q] /\ b = pipe[q]
    OBVIOUS
  <2>1. a \in Seq(Byte) /\ b \in Seq(Byte)
    BY <1>1, StreamType
  <2>2. n \in 1..Len(b)
    BY <1>1
  <2>3. (a \o SubSeq(b, 1, n)) \o SubSeq(b, n + 1, Len(b)) = a \o b
    BY ONLY <2>1, <2>2, MoveBytes
  <2> QED BY <2>3
<1>5. OnTheWay(q)' = OnTheWay(q)
  <2>1. decoder'[q] = decoder[q] \o first /\ pipe'[q] = later
    BY <1>1, <1>2 DEF BytesType
  <2> QED BY <1>4, <2>1 DEF OnTheWay
<1> QED BY <1>3, <1>5, WaysStay

(* A decoded frame is the first on the way. *)
LEMMA DecodeReceives ==
  ASSUME TransportInv, NEW q \in Peer, Decode(q)
  PROVE  /\ Ways[q] # <<>> /\ received' = <<q, Head(Ways[q])>>
         /\ Ways' = [Ways EXCEPT ![q] = Tail(Ways[q])]
<1>1. BytesType /\ StreamOk(q) /\ Decodable(q)
  BY DEF TransportInv, Decode
<1> PICK f, p : f = decoder[q][1].frame /\ p = pipe[q]
  OBVIOUS
<1>2. received' = <<q, f>> /\ decoder' = [decoder EXCEPT ![q] = <<>>] /\ pipe' = pipe
  BY <1>1, HeaderIsValid DEF Decode, bytes
<1>3. p \in Seq(Byte) /\ f \in Frame /\ Complete(p) \in Seq(Frame)
  BY <1>1, StreamType, DecodableHolds, CompleteType
<1>4. Ways[q] = <<f>> \o Complete(p)
  BY <1>1, WayType, DecodableHolds DEF Ways
<1>5. Ways[q] # <<>> /\ Head(Ways[q]) = f /\ Tail(Ways[q]) = Complete(p)
  <2> PICK t : t = Complete(p)
    OBVIOUS
  <2>1. t \in Seq(Frame)
    BY <1>3
  <2>2. <<f>> \o t # <<>> /\ Head(<<f>> \o t) = f /\ Tail(<<f>> \o t) = t
    BY ONLY <1>3, <2>1
  <2> QED BY <1>4, <2>2
<1>6. OnTheWay(q)' = Complete(p)
  <2>1. decoder'[q] = <<>> /\ pipe'[q] = p
    BY <1>1, <1>2 DEF BytesType
  <2>2. <<>> \o p = p
    BY <1>3, ConcatEmptySeq
  <2> QED BY <2>1, <2>2 DEF OnTheWay
<1>7. \A r \in Peer \ {q} : OnTheWay(r)' = OnTheWay(r)
  BY <1>1, <1>2 DEF OnTheWay, BytesType
<1>8. Ways' = [Ways EXCEPT ![q] = Tail(Ways[q])]
  BY <1>5, <1>6, <1>7, WaysMove
<1> QED BY <1>2, <1>5, <1>8

(* The reader gives up only on a peer that has left and has no frame on the way. *)
LEMMA FailsEmpty ==
  ASSUME TransportInv, FrameInv, NEW q \in Peer, EndOfFile(q) \/ WouldBlock(q),
         call' = "over"
  PROVE  q \notin writers /\ Ways[q] = <<>>
<1>1. BytesType /\ StreamOk(q) /\ call # "over"
  BY DEF TransportInv, EndOfFile, WouldBlock, InReceive
<1>2. q \notin writers /\ pipe[q] = <<>> /\ Complete(decoder[q]) = <<>>
  <2>1. CASE EndOfFile(q)
    BY <2>1, <1>1, NotDecodable DEF EndOfFile
  <2>2. CASE WouldBlock(q)
    <3>1. q \notin open
      BY <2>2, <1>1 DEF WouldBlock, NoFrame, EnterCall, Fails, place
    <3>2. Drained(q) /\ decoder[q] = <<>>
      BY <3>1, <1>1 DEF TransportInv, FrameInv
    <3> QED BY <3>2, CompleteEmpty DEF Drained
  <2> QED BY <2>1, <2>2
<1>3. Complete(<<>>) = <<>> /\ <<>> \o <<>> = <<>>
  BY CompleteEmpty
<1> QED BY <1>1, <1>2, <1>3, WayType DEF Ways

-----------------------------------------------------------------------------
(* The refinement, step by step. *)

LEMMA PipesStart == Init => FrameLevel!PipeInit
<1> SUFFICES ASSUME Init PROVE FrameLevel!PipeInit
  OBVIOUS
<1>1. \A q \in Peer : OnTheWay(q) = <<>>
  BY CompleteEmpty DEF Init, OnTheWay
<1>2. writers = Peer /\ call # "over" /\ received = <<>>
  BY DEF Init
<1> QED BY <1>1, <1>2 DEF FrameLevel!PipeInit

(* What FramePipe sees when a step is none of its own. *)
LEMMA PipesStay ==
  ASSUME Ways' = Ways, writers' = writers, received' = received,
         (call' = "over") <=> (call = "over")
  PROVE  UNCHANGED FrameLevel!pipeVars
BY DEF FrameLevel!pipeVars, Ways

LEMMA PipesStep ==
  TransportInv /\ FrameInv /\ [Next]_vars => [FrameLevel!PipeNext]_(FrameLevel!pipeVars)
<1> SUFFICES ASSUME TransportInv, FrameInv, [Next]_vars
             PROVE  FrameLevel!PipeNext \/ UNCHANGED FrameLevel!pipeVars
  OBVIOUS
<1>1. BytesType
  BY DEF TransportInv
<1>2. CASE UNCHANGED vars
  <2>1. Ways' = Ways
    BY <1>2 DEF Ways, OnTheWay, vars
  <2> QED BY <1>2, <2>1, PipesStay DEF vars
<1>3. ASSUME NEW q \in Peer, NEW f \in Frame, BeginFrame(q, f)
      PROVE  UNCHANGED FrameLevel!pipeVars
  <2>1. Ways' = Ways
    BY <1>3 DEF Ways, OnTheWay, BeginFrame
  <2> QED BY <1>3, <2>1, PipesStay DEF BeginFrame, place
<1>4. ASSUME NEW q \in Peer, NEW n \in 1..PipeSize, WriteBytes(q, n)
      PROVE  FrameLevel!PipeNext \/ UNCHANGED FrameLevel!pipeVars
  <2>1. q \in writers /\ writers' = writers /\ call' = call /\ received' = received
    BY <1>4 DEF WriteBytes, place
  <2>2. CASE Ways' = Ways
    BY <2>1, <2>2, PipesStay
  <2>3. ASSUME NEW f \in Frame, Ways' = [Ways EXCEPT ![q] = Append(Ways[q], f)]
        PROVE  FrameLevel!PipeNext
    <3>1. FrameLevel!SendFrame(q, f)
      BY <2>1, <2>3 DEF FrameLevel!SendFrame, Ways
    <3> QED BY <3>1 DEF FrameLevel!PipeNext
  <2> QED BY <1>4, <2>2, <2>3, WriteSends
<1>5. ASSUME NEW q \in Peer, Leave(q) PROVE FrameLevel!PipeNext
  <2>1. Ways' = Ways
    BY <1>5 DEF Ways, OnTheWay, Leave
  <2>2. /\ q \in writers /\ writers' = writers \ {q}
        /\ call' = call /\ received' = received
    BY <1>5 DEF Leave, place
  <2>3. FrameLevel!LeavePipe(q)
    BY <2>1, <2>2 DEF FrameLevel!LeavePipe, Ways
  <2> QED BY <2>3 DEF FrameLevel!PipeNext
<1>6. ASSUME NEW q \in Peer, Decode(q) PROVE FrameLevel!PipeNext
  <2>1. /\ Ways[q] # <<>> /\ received' = <<q, Head(Ways[q])>>
        /\ Ways' = [Ways EXCEPT ![q] = Tail(Ways[q])]
    BY <1>6, DecodeReceives
  <2>2. writers' = writers /\ call # "over" /\ NextCall(q)
    BY <1>6, HeaderIsValid DEF TransportInv, Decode, bytes, InReceive
  <2>3. call' # "over"
    BY <2>2 DEF NextCall, EnterCall
  <2>4. FrameLevel!ReceiveFrame(q)
    BY <2>1, <2>2, <2>3 DEF FrameLevel!ReceiveFrame, Ways
  <2> QED BY <2>4 DEF FrameLevel!PipeNext
<1>7. ASSUME NEW q \in Peer, NEW n \in 1..PipeSize, ReadBytes(q, n)
      PROVE  UNCHANGED FrameLevel!pipeVars
  <2>1. Ways' = Ways
    BY <1>7, ReadStays
  <2> QED BY <1>7, <2>1, PipesStay DEF ReadBytes, place
<1>8. ASSUME NEW q \in Peer, EndOfFile(q) \/ WouldBlock(q)
      PROVE  FrameLevel!PipeNext \/ UNCHANGED FrameLevel!pipeVars
  <2>1. /\ writers' = writers /\ received' = received /\ call # "over"
        /\ pipe' = pipe /\ decoder' = decoder
    BY <1>8 DEF EndOfFile, WouldBlock, bytes, InReceive
  <2>2. Ways' = Ways
    BY <2>1 DEF Ways, OnTheWay
  <2>3. CASE call' = "over"
    <3>1. q \in Peer \ writers /\ Ways[q] = <<>>
      BY <1>8, <2>3, FailsEmpty
    <3>2. FrameLevel!GiveUp
      BY <2>1, <2>2, <2>3, <3>1 DEF FrameLevel!GiveUp, Ways
    <3> QED BY <3>2 DEF FrameLevel!PipeNext
  <2>4. CASE call' # "over"
    BY <2>1, <2>2, <2>4, PipesStay
  <2> QED BY <2>3, <2>4
<1> QED BY <1>2, <1>3, <1>4, <1>5, <1>6, <1>7, <1>8 DEF Next, Receive, Write

LEMMA AlwaysFrames == Spec => []FrameInv
<1>1. Init /\ [][Next]_vars /\ []TransportInv => []FrameInv
  BY InitFrames, NextFrames, PTL
<1> QED BY <1>1, AlwaysTransport, PTL DEF Spec

-----------------------------------------------------------------------------
(* Theorems. *)

(* receive never sees a malformed header and its reads never take a byte     *)
(* of the frame after: with any header and payload sizes, pipe capacity,      *)
(* short reads and writes, and peers that die in the middle of a frame.       *)
THEOREM DecoderCorrect == Spec => []DecoderInStep
<1>1. TransportInv => DecoderInStep
  <2> SUFFICES ASSUME TransportInv, NEW q \in Peer
               PROVE  /\ Len(decoder[q]) <= Needed(q)
                      /\ \A i \in DOMAIN decoder[q] :
                           decoder[q][i] = [frame |-> decoder[q][1].frame, place |-> i]
    BY DEF DecoderInStep
  <2>1. BytesType /\ StreamOk(q)
    BY DEF TransportInv
  <2>2. DOMAIN decoder[q] = 1..Len(decoder[q])
    BY <2>1, StreamType, LenProperties
  <2> QED BY <2>1, <2>2, DecoderHoldsPrefix DEF StreamOk
<1> QED BY <1>1, AlwaysTransport, PTL

(* receive, await_message and await_any fail only for cause: some peer has    *)
(* ended and left nothing in its pipe that the reader has not taken out.      *)
THEOREM FailsForCause ==
  Spec => [](call = "over" => \E q \in Peer : q \notin writers /\ pipe[q] = <<>>)
<1>1. TransportInv => (call = "over" => \E q \in Peer : q \notin writers /\ pipe[q] = <<>>)
  BY DEF TransportInv, Drained
<1> QED BY <1>1, AlwaysTransport, PTL

(* The malformed-header branch of receive is never taken. *)
THEOREM HeadersValid ==
  Spec => [](\A q \in Peer : Decodable(q) => ValidHeader(q))
<1>1. TransportInv => \A q \in Peer : Decodable(q) => ValidHeader(q)
  BY HeaderIsValid DEF TransportInv
<1> QED BY <1>1, AlwaysTransport, PTL

(* What the protocols rely on: between the bytes of any number of peers,      *)
(* however they are written, read and cut short, ipc.c keeps a queue of whole *)
(* frames for each, and gives up only on a peer that left and whose frames    *)
(* are all received.                                                          *)
THEOREM PipesImplemented == Spec => ImplementsFramePipe
<1>1. FrameLevel!PipeInit /\ [][FrameLevel!PipeNext]_(FrameLevel!pipeVars)
        => ImplementsFramePipe
  BY DEF ImplementsFramePipe, FrameLevel!PipeSpec
<1>2. Spec => [][FrameLevel!PipeNext]_(FrameLevel!pipeVars)
  BY AlwaysTransport, AlwaysFrames, PipesStep, PTL DEF Spec
<1> QED BY <1>1, <1>2, PipesStart, PTL DEF Spec
=============================================================================
