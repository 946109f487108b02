----------------------------- MODULE DataProofs -----------------------------
(***************************************************************************)
(* What the gateway computes from data, for data of any size: the files of *)
(* a recording and their replay (DmrCapture), what a datagram of an        *)
(* EchoLink client is taken for and which ports are planned (Decisions).   *)
(* The model computes these with folds, with the FlattenSeq of the         *)
(* community modules and with a recursive function.  Induction over such   *)
(* data is done here by least elements: a set of naturals that contains 0  *)
(* and with n also n + 1 is all of them (Climb).  From it follows first    *)
(* that the function a definition chooses exists (FoldExists, WalkExists)  *)
(* and then, from its equation, the course of the computation as a         *)
(* sequence of intermediate results (the lemmas named ...Trace).  The last *)
(* sections follow a built stream through the template's split, the AMBE   *)
(* extractor and the analyzer's superframes.                               *)
(***************************************************************************)
EXTENDS DmrCapture, Decisions, Integers, FiniteSetTheorems, SequenceTheorems, WellFoundedInduction, TLAPS

LessThan == {p \in Nat \X Nat : p[1] < p[2]}

LEMMA Least ==
  ASSUME NEW T, T \subseteq Nat, T # {}
  PROVE  \E x \in T : \A y \in T : x <= y
  <1>1. IsWellFoundedOn(LessThan, Nat)
    BY NatLessThanWellFounded DEF OpToRel, LessThan
  <1>2. PICK x \in T : \A y \in T : <<y, x>> \notin LessThan
    BY <1>1, WFMin
  <1>3. ASSUME NEW y \in T PROVE x <= y
    <2>1. x \in Nat /\ y \in Nat /\ <<y, x>> \notin LessThan
      BY <1>2
    <2>2. QED BY <2>1 DEF LessThan
  <1>4. QED BY <1>3

LEMMA Climb ==
  ASSUME NEW T, 0 \in T, \A n \in Nat : n \in T => n + 1 \in T
  PROVE  Nat \subseteq T
  <1> SUFFICES ASSUME Nat \ T # {} PROVE FALSE
    OBVIOUS
  <1>1. PICK x \in Nat \ T : \A y \in Nat \ T : x <= y
    BY Least
  <1>2. x - 1 \in Nat /\ x - 1 \notin T
    BY <1>1
  <1>3. QED BY <1>1, <1>2

LEMMA MaxOf ==
  ASSUME NEW n \in Nat, NEW s \in SUBSET (1 .. n), s # {}
  PROVE  Max(s) \in s /\ \A y \in s : y <= Max(s)
  <1> DEFINE T == {n - x : x \in s}
  <1>0. \A x \in s : n - x \in Nat /\ x \in Nat
    OBVIOUS
  <1>1. T \subseteq Nat /\ T # {}
    <2>1. PICK x \in s : TRUE
      OBVIOUS
    <2>2. n - x \in T
      OBVIOUS
    <2>3. T \subseteq Nat
      BY <1>0
    <2>4. QED BY <2>2, <2>3
  <1>2. PICK t \in T : \A y \in T : t <= y
    BY <1>1, Least
  <1>3. PICK x \in s : t = n - x
    BY <1>2
  <1>4. \A y \in s : x >= y
    <2>1. \A y \in s : n - y \in T
      OBVIOUS
    <2>2. \A y \in s : n - x <= n - y
      BY <1>2, <1>3, <2>1
    <2> HIDE DEF T
    <2>3. QED BY <1>0, <2>2
  <1>5. Max(s) \in s /\ \A y \in s : Max(s) >= y
    BY <1>4 DEF Max
  <1>6. QED BY <1>5

LEMMA MaxInterval ==
  ASSUME NEW n \in Nat, NEW i \in 0 .. n - 1
  PROVE  /\ 1 .. i + 1 \in SUBSET (1 .. n) /\ 1 .. i + 1 # {}
         /\ Max(1 .. i + 1) = i + 1 /\ (1 .. i + 1) \ {i + 1} = 1 .. i
  <1>1. 1 .. i + 1 \in SUBSET (1 .. n) /\ i + 1 \in 1 .. i + 1
    OBVIOUS
  <1>2. Max(1 .. i + 1) = i + 1
    <2>1. Max(1 .. i + 1) \in 1 .. i + 1 /\ \A y \in 1 .. i + 1 : y <= Max(1 .. i + 1)
      BY <1>1, MaxOf
    <2>2. QED BY <2>1
  <1>3. QED BY <1>1, <1>2

LEMMA MaxTop ==
  ASSUME NEW k \in Nat, NEW s \in SUBSET (1 .. k + 1), k + 1 \in s
  PROVE  Max(s) = k + 1
  <1>1. k + 1 \in Nat /\ s # {}
    OBVIOUS
  <1>2. Max(s) \in s /\ \A y \in s : y <= Max(s)
    BY <1>1, MaxOf
  <1>3. Max(s) \in 1 .. k + 1 /\ k + 1 <= Max(s)
    BY <1>2
  <1>4. QED BY <1>3

(* g folds F over the members of each set of indices, the largest last.    *)
FoldsBy(g, F, base, n) ==
  \A s \in SUBSET (1 .. n) : g[s] = IF s = {} THEN base ELSE F[<<g[s \ {Max(s)}], Max(s)>>]

LEMMA FoldExists ==
  ASSUME NEW n \in Nat, NEW A, NEW base \in A, NEW F \in [A \X (1 .. n) -> A]
  PROVE  \E g \in [SUBSET (1 .. n) -> A] : FoldsBy(g, F, base, n)
  <1> USE DEF FoldsBy
  <1> DEFINE Folds(g, k) == FoldsBy(g, F, base, k)
             Exists(k) == \E g \in [SUBSET (1 .. k) -> A] : Folds(g, k)
             T == {k \in Nat : k <= n => Exists(k)}
  <1>1. 0 \in T
    <2> DEFINE g == [s \in SUBSET (1 .. 0) |-> base]
    <2>1. 1 .. 0 = {}
      OBVIOUS
    <2>2. g \in [SUBSET (1 .. 0) -> A] /\ Folds(g, 0)
      BY <2>1
    <2>3. Exists(0)
      BY <2>2
    <2> HIDE DEF Exists
    <2>4. QED BY <2>3
  <1>2. ASSUME NEW k \in Nat, k \in T PROVE k + 1 \in T
    <2> SUFFICES ASSUME k + 1 <= n PROVE Exists(k + 1)
      <3> HIDE DEF Exists
      <3>1. QED OBVIOUS
    <2>0. Exists(k)
      <3> HIDE DEF Exists
      <3>1. k <= n
        OBVIOUS
      <3>2. QED BY <1>2, <3>1
    <2>1. PICK f \in [SUBSET (1 .. k) -> A] : Folds(f, k)
      BY <2>0
    <2> DEFINE g == [s \in SUBSET (1 .. k + 1) |->
                       IF k + 1 \in s THEN F[<<f[s \ {k + 1}], k + 1>>] ELSE f[s]]
    <2>2. \A s \in SUBSET (1 .. k + 1) :
             /\ k + 1 \in s => s \ {k + 1} \in SUBSET (1 .. k)
             /\ k + 1 \notin s => s \in SUBSET (1 .. k)
      OBVIOUS
    <2>3. \A s \in SUBSET (1 .. k) : s \in SUBSET (1 .. k + 1) /\ k + 1 \notin s
      OBVIOUS
    <2>4. /\ g \in [SUBSET (1 .. k + 1) -> A]
          /\ \A s \in SUBSET (1 .. k + 1) :
               /\ k + 1 \in s => g[s] = F[<<f[s \ {k + 1}], k + 1>>]
               /\ k + 1 \notin s => g[s] = f[s]
      <3>1. \A s \in SUBSET (1 .. k + 1) : k + 1 \in s => F[<<f[s \ {k + 1}], k + 1>>] \in A
        <4>1. TAKE s \in SUBSET (1 .. k + 1)
        <4>2. HAVE k + 1 \in s
        <4>3. s \ {k + 1} \in SUBSET (1 .. k)
          BY <2>2, <4>2
        <4>4. f[s \ {k + 1}] \in A
          BY <2>1, <4>3
        <4>5. <<f[s \ {k + 1}], k + 1>> \in A \X (1 .. n)
          BY <4>4
        <4>6. QED BY <4>5
      <3>2. \A s \in SUBSET (1 .. k + 1) : k + 1 \notin s => f[s] \in A
        BY <2>1, <2>2
      <3>3. QED BY <3>1, <3>2
    <2> HIDE DEF g
    <2>5. ASSUME NEW s \in SUBSET (1 .. k + 1)
          PROVE  g[s] = IF s = {} THEN base ELSE F[<<g[s \ {Max(s)}], Max(s)>>]
      <3>1. CASE k + 1 \in s
        <4>1. Max(s) = k + 1
          BY <3>1, MaxTop
        <4>2. s \ {k + 1} \in SUBSET (1 .. k)
          BY <2>2, <3>1
        <4>3. g[s \ {k + 1}] = f[s \ {k + 1}]
          BY <2>3, <2>4, <4>2
        <4>4. QED BY <2>4, <3>1, <4>1, <4>3
      <3>2. CASE k + 1 \notin s
        <4>1. s \in SUBSET (1 .. k) /\ g[s] = f[s]
          BY <2>2, <2>4, <3>2
        <4>2. CASE s = {}
          BY <2>1, <4>1, <4>2
        <4>3. CASE s # {}
          <5>1. s \ {Max(s)} \in SUBSET (1 .. k)
            BY <4>1
          <5>2. g[s \ {Max(s)}] = f[s \ {Max(s)}]
            BY <2>3, <2>4, <5>1
          <5>3. QED BY <2>1, <4>1, <4>3, <5>2
        <4>4. QED BY <4>2, <4>3
      <3>3. QED BY <3>1, <3>2
    <2>6. QED BY <2>4, <2>5
  <1> HIDE DEF Exists
  <1>3. n \in T
    <2> HIDE DEF T
    <2>1. QED BY <1>1, <1>2, Climb
  <1>4. Exists(n)
    BY <1>3
  <1>5. QED BY <1>4 DEF Exists

(* h[i] is what Select has picked of the first i packets.                  *)
Selects(h, pkts, wanted) ==
  /\ h[0] = <<>>
  /\ \A i \in 0 .. Len(pkts) - 1 :
       h[i + 1] = IF pkts[i + 1] \in wanted THEN Append(h[i], pkts[i + 1]) ELSE h[i]
  /\ Select(pkts, wanted) = h[Len(pkts)]

LEMMA SelectTrace ==
  ASSUME NEW S, NEW pkts \in Seq(S), NEW wanted
  PROVE  \E h \in [0 .. Len(pkts) -> Seq(S)] : Selects(h, pkts, wanted)
  <1> DEFINE n == Len(pkts)
             Step(acc, i) == IF pkts[i] \in wanted THEN Append(acc, pkts[i]) ELSE acc
             F == [x \in Seq(S) \X (1 .. n) |-> Step(x[1], x[2])]
             Body(g) == [s \in SUBSET (1 .. n) |->
                          IF s = {} THEN <<>> ELSE Step(g[s \ {Max(s)}], Max(s))]
             iter == CHOOSE g : g = Body(g)
  <1>1. n \in Nat /\ DOMAIN pkts = 1 .. n /\ \A i \in 1 .. n : pkts[i] \in S
    OBVIOUS
  <1>2. Select(pkts, wanted) = iter[1 .. n]
    BY <1>1 DEF Select, FoldLeft, MapThenFoldSet
  <1>3. F \in [Seq(S) \X (1 .. n) -> Seq(S)]
    BY <1>1
  <1>4. <<>> \in Seq(S)
    OBVIOUS
  <1>5. PICK g \in [SUBSET (1 .. n) -> Seq(S)] : FoldsBy(g, F, <<>>, n)
    <2> HIDE DEF F, n
    <2>1. QED BY <1>1, <1>3, <1>4, FoldExists
  <1>6. g = Body(g)
    <2>1. ASSUME NEW s \in SUBSET (1 .. n)
          PROVE  g[s] = IF s = {} THEN <<>> ELSE Step(g[s \ {Max(s)}], Max(s))
      <3>1. CASE s = {}
        BY <1>5, <3>1 DEF FoldsBy
      <3>2. CASE s # {}
        <4>1. Max(s) \in 1 .. n
          BY <1>1, <3>2, MaxOf
        <4>2. g[s \ {Max(s)}] \in Seq(S)
          BY <1>5
        <4>3. F[<<g[s \ {Max(s)}], Max(s)>>] = Step(g[s \ {Max(s)}], Max(s))
          BY <4>1, <4>2
        <4>4. QED BY <1>5, <3>2, <4>3 DEF FoldsBy
      <3>3. QED BY <3>1, <3>2
    <2> HIDE DEF Step
    <2>2. QED BY <1>5, <2>1
  <1>7. iter = Body(iter)
    BY <1>6
  <1> DEFINE h == [i \in 0 .. n |-> iter[1 .. i]]
  <1> HIDE DEF iter, n
  <1>8. iter[{}] = <<>>
    BY <1>7
  <1>9. ASSUME NEW i \in 0 .. n - 1 PROVE iter[1 .. i + 1] = Step(iter[1 .. i], i + 1)
    <2>1. /\ 1 .. i + 1 \in SUBSET (1 .. n) /\ 1 .. i + 1 # {}
          /\ Max(1 .. i + 1) = i + 1 /\ (1 .. i + 1) \ {i + 1} = 1 .. i
      BY <1>1, MaxInterval
    <2> HIDE DEF Step
    <2>2. QED BY <1>7, <2>1
  <1>10. \A i \in 0 .. n : h[i] \in Seq(S)
    <2> DEFINE T == {i \in Nat : i <= n => h[i] \in Seq(S)}
    <2>1. 0 \in T
      <3>1. 1 .. 0 = {} /\ h[0] = iter[1 .. 0]
        BY <1>1
      <3> HIDE DEF h
      <3>2. QED BY <1>4, <1>8, <3>1
    <2>2. ASSUME NEW i \in Nat, i \in T PROVE i + 1 \in T
      <3> SUFFICES ASSUME i + 1 <= n PROVE h[i + 1] \in Seq(S)
        OBVIOUS
      <3>1. i \in 0 .. n - 1 /\ i + 1 \in 0 .. n /\ i \in 0 .. n
        BY <1>1
      <3>2. h[i] \in Seq(S)
        BY <2>2, <3>1
      <3>3. h[i + 1] = Step(h[i], i + 1)
        BY <1>9, <3>1
      <3>4. pkts[i + 1] \in S
        BY <1>1, <3>1
      <3> HIDE DEF h
      <3>5. QED BY <3>2, <3>3, <3>4
    <2> HIDE DEF T, h
    <2>3. Nat \subseteq T
      BY <2>1, <2>2, Climb
    <2>4. QED BY <1>1, <2>3 DEF T
  <1>11. h \in [0 .. n -> Seq(S)] /\ h[0] = <<>> /\ Select(pkts, wanted) = h[n]
    BY <1>1, <1>2, <1>8, <1>10
  <1>12. \A i \in 0 .. n - 1 : h[i + 1] = Step(h[i], i + 1)
    BY <1>1, <1>9
  <1> HIDE DEF h
  <1>13. Selects(h, pkts, wanted)
    BY <1>11, <1>12 DEF n, Selects
  <1>14. QED BY <1>11, <1>13 DEF n

LEMMA SelectAll ==
  ASSUME NEW S, NEW pkts \in Seq(S), NEW wanted, \A i \in 1 .. Len(pkts) : pkts[i] \in wanted
  PROVE  Select(pkts, wanted) = pkts
  <1> DEFINE n == Len(pkts)
  <1>1. n \in Nat
    OBVIOUS
  <1>2. PICK h \in [0 .. n -> Seq(S)] :
           /\ h[0] = <<>>
           /\ \A i \in 0 .. n - 1 :
                h[i + 1] = IF pkts[i + 1] \in wanted THEN Append(h[i], pkts[i + 1]) ELSE h[i]
           /\ Select(pkts, wanted) = h[n]
    BY SelectTrace DEF Selects
  <1> DEFINE Same(i) == Len(h[i]) = i /\ \A j \in 1 .. i : h[i][j] = pkts[j]
             T == {i \in Nat : i <= n => Same(i)}
  <1>3. 0 \in T
    BY <1>2
  <1>4. ASSUME NEW i \in Nat, i \in T PROVE i + 1 \in T
    <2> SUFFICES ASSUME i + 1 <= n PROVE Same(i + 1)
      OBVIOUS
    <2>1. i \in 0 .. n - 1 /\ i \in 0 .. n /\ i + 1 \in 1 .. n
      BY <1>1
    <2>2. h[i] \in Seq(S) /\ pkts[i + 1] \in S /\ h[i + 1] = Append(h[i], pkts[i + 1])
      <3>1. pkts[i + 1] \in S /\ pkts[i + 1] \in wanted
        BY <2>1
      <3>2. QED BY <1>2, <2>1, <3>1
    <2>3. Same(i)
      BY <1>4, <2>1
    <2>4. QED BY <2>2, <2>3
  <1>5. Same(n)
    <2> HIDE DEF Same
    <2>1. Nat \subseteq T
      <3> HIDE DEF T
      <3>1. QED BY <1>3, <1>4, Climb
    <2>2. QED BY <1>1, <2>1
  <1>6. h[n] \in Seq(S)
    BY <1>1, <1>2
  <1>7. QED BY <1>2, <1>5, <1>6
-----------------------------------------------------------------------------

Carried(bits) == UnpackBits(bits).call \in {"group", "unit"}

AheadOf(s) ==
  LET f == files[s]
  IN /\ Len(f.raw) >= Len(f.signed)
     /\ Len(f.signed) >= Len(f.payload)
     /\ Len(f.payload) >= Len(f.meta)
     /\ pc = "signed" /\ hand.stream = s => Len(f.raw) > Len(f.signed)
     /\ pc = "payload" /\ hand.stream = s => Len(f.signed) > Len(f.payload)
     /\ pc = "meta" /\ hand.stream = s => Len(f.payload) > Len(f.meta)
     /\ Len(f.raw) <= Len(f.meta) + cuts + 1
     /\ Len(f.raw) <= Len(f.meta) + cuts \/ (pc \in {"signed", "payload", "meta"} /\ hand.stream = s)

Ahead == \A s \in Streams : AheadOf(s)

HandCarried == pc \in Appending => hand.bits \in 0 .. 255 /\ Carried(hand.bits)

OwnStream == \A s \in Streams : \A i \in 1 .. Len(files[s].raw) : files[s].raw[i].stream = s

(* Small is within large but for, at most, an item that is large's last.   *)
Lags(small, large, pending, item) ==
  IF pending
  THEN /\ Len(large) > 0 /\ large[Len(large)] = item
       /\ WithinFirst(small, large, Len(large) - 1)
  ELSE Within(small, large)

Behind(s, file) == pc = file /\ hand.stream = s

InOrderOf(s) ==
  LET f == files[s]
  IN /\ Lags(f.signed, f.raw, Behind(s, "signed"), hand)
     /\ Lags(f.payload, PayloadsOf(f.signed), Behind(s, "payload"), hand.payload)
     /\ Lags(PayloadsOf(f.meta), f.payload, Behind(s, "meta"), hand.payload)

InOrder == \A s \in Streams : InOrderOf(s)

IInv == TypeOK /\ HandCarried /\ RecordedAsReceived /\ Ahead /\ OwnStream /\ InOrder
-----------------------------------------------------------------------------
(* What unpack_bits returns.                                               *)
LEMMA UnpackType ==
  ASSUME NEW bits \in Nat
  PROVE  UnpackBits(bits) \in
           [slot : {1, 2}, call : {"group", "unit", "vcsbk"}, frame : 0 .. 3, dtype : 0 .. 15]
  <1>1. (bits \div 16) % 4 \in 0 .. 3 /\ bits % 16 \in 0 .. 15
    OBVIOUS
  <1>2. QED BY <1>1 DEF UnpackBits

LEMMA DivMod ==
  ASSUME NEW n \in Nat
  PROVE  /\ n = 16 * (n \div 16) + (n % 16) /\ n % 16 \in 0 .. 15 /\ n \div 16 \in Nat
         /\ n = 4 * (n \div 4) + (n % 4) /\ n % 4 \in 0 .. 3 /\ n \div 4 \in Nat
         /\ n \div 64 = (n \div 16) \div 4
  <1>1. n = 16 * (n \div 16) + (n % 16)
    BY SMTT(20)
  <1>2. n = 4 * (n \div 4) + (n % 4)
    BY SMTT(20)
  <1>3. n \div 64 = (n \div 16) \div 4
    BY SMTT(20)
  <1>4. n % 16 \in 0 .. 15 /\ n \div 16 \in Nat /\ n % 4 \in 0 .. 3 /\ n \div 4 \in Nat
    BY SMTT(20)
  <1>5. QED BY <1>1, <1>2, <1>3, <1>4

(* A byte from its two high bits, the two after them and the low four.     *)
LEMMA Digits ==
  ASSUME NEW bits \in 0 .. 255
  PROVE  /\ bits = 64 * (bits \div 64) + 16 * ((bits \div 16) % 4) + (bits % 16)
         /\ (bits \div 64) % 2 = 1 => bits \div 64 \in {1, 3}
         /\ (bits \div 64) % 2 # 1 => bits \div 64 \in {0, 2}
         /\ bits >= 128 <=> bits \div 64 \in {2, 3}
         /\ (bits \div 16) % 4 \in 0 .. 3 /\ bits % 16 \in 0 .. 15
  <1>1. bits = 16 * (bits \div 16) + (bits % 16) /\ bits % 16 \in 0 .. 15 /\ bits \div 16 \in Nat
    BY DivMod
  <1>2. /\ bits \div 16 = 4 * ((bits \div 16) \div 4) + ((bits \div 16) % 4)
        /\ (bits \div 16) % 4 \in 0 .. 3 /\ (bits \div 16) \div 4 \in Nat
    BY <1>1, DivMod
  <1>3. bits \div 64 = (bits \div 16) \div 4
    BY DivMod
  <1>4. bits = 64 * (bits \div 64) + 16 * ((bits \div 16) % 4) + (bits % 16)
    BY <1>1, <1>2, <1>3
  <1>5. bits \div 64 \in 0 .. 3 /\ (bits >= 128 <=> bits \div 64 \in {2, 3})
    BY <1>1, <1>2, <1>3, <1>4
  <1>6. \A n \in 0 .. 3 : (n % 2 = 1 => n \in {1, 3}) /\ (n % 2 # 1 => n \in {0, 2})
    OBVIOUS
  <1>7. QED BY <1>1, <1>2, <1>4, <1>5, <1>6

(* The flag byte of a group or unit call survives decoding and encoding.   *)
THEOREM FlagsKept ==
  ASSUME NEW bits \in 0 .. 255, Carried(bits)
  PROVE  LET f == UnpackBits(bits) IN PackBits(f.slot, f.call, f.frame, f.dtype) = bits
  <1> DEFINE f == UnpackBits(bits)
  <1>1. /\ f.frame = (bits \div 16) % 4 /\ f.dtype = bits % 16
        /\ (f.slot = 2) <=> (bits >= 128)
    BY DEF UnpackBits
  <1>2. CASE Bit(bits, 64)
    <2>1. f.call = "unit" /\ bits \div 64 \in {1, 3}
      BY <1>2, Digits DEF UnpackBits, Bit
    <2>2. CASE bits >= 128
      BY <1>1, <2>1, <2>2, Digits DEF PackBits
    <2>3. CASE ~(bits >= 128)
      BY <1>1, <2>1, <2>3, Digits DEF PackBits
    <2>4. QED BY <2>2, <2>3
  <1>3. CASE ~Bit(bits, 64)
    <2>1. f.call = "group" /\ bits \div 64 \in {0, 2}
      BY <1>3, Digits DEF UnpackBits, Bit, Carried
    <2>2. CASE bits >= 128
      BY <1>1, <2>1, <2>2, Digits DEF PackBits
    <2>3. CASE ~(bits >= 128)
      BY <1>1, <2>1, <2>3, Digits DEF PackBits
    <2>4. QED BY <2>2, <2>3
  <1>4. QED BY <1>2, <1>3

LEMMA RawKept ==
  ASSUME NEW raw \in Raws, raw.bits \in 0 .. 255, Carried(raw.bits)
  PROVE  ToRaw(FromRaw(raw)) = raw
  <1>1. ToRaw(FromRaw(raw)) = [seq |-> raw.seq, bits |-> raw.bits, stream |-> raw.stream, payload |-> raw.payload]
    BY FlagsKept DEF ToRaw, FromRaw
  <1>2. QED BY <1>1 DEF Raws

LEMMA DecodingType ==
  ASSUME NEW raw \in Raws
  PROVE  FromRaw(raw) \in Decodings
  BY UnpackType DEF FromRaw, Raws, Decodings
-----------------------------------------------------------------------------
(* A sequence within the first entries of another stays within it when the *)
(* other one grows, or when more of its entries are counted.               *)
LEMMA WithinGrown ==
  ASSUME NEW S, NEW small \in Seq(S), NEW large \in Seq(S), NEW item \in S,
         NEW n \in 0 .. Len(large), WithinFirst(small, large, n)
  PROVE  /\ \A m \in n .. Len(large) : WithinFirst(small, large, m)
         /\ WithinFirst(small, Append(large, item), n)
  <1>1. PICK at \in [DOMAIN small -> 1 .. n] :
          /\ \A i, j \in DOMAIN small : i < j => at[i] < at[j]
          /\ \A i \in DOMAIN small : small[i] = large[at[i]]
    BY DEF WithinFirst
  <1>2. \A m \in n .. Len(large) : at \in [DOMAIN small -> 1 .. m]
    BY <1>1
  <1>3. \A m \in n .. Len(large) : WithinFirst(small, large, m)
    BY <1>1, <1>2 DEF WithinFirst
  <1>4. \A k \in 1 .. n : Append(large, item)[k] = large[k]
    OBVIOUS
  <1>5. \A i \in DOMAIN small : small[i] = Append(large, item)[at[i]]
    BY <1>1, <1>4
  <1>6. WithinFirst(small, Append(large, item), n)
    BY <1>1, <1>5 DEF WithinFirst
  <1>7. QED BY <1>3, <1>6

(* It stays so when it takes the entry after them.                         *)
LEMMA WithinTaken ==
  ASSUME NEW S, NEW small \in Seq(S), NEW large \in Seq(S), NEW n \in Nat, n + 1 = Len(large),
         WithinFirst(small, large, n)
  PROVE  Within(Append(small, large[n + 1]), large)
  <1>1. PICK at \in [DOMAIN small -> 1 .. n] :
          /\ \A i, j \in DOMAIN small : i < j => at[i] < at[j]
          /\ \A i \in DOMAIN small : small[i] = large[at[i]]
    BY DEF WithinFirst
  <1> DEFINE item == large[n + 1]
             k == Len(small)
             grown == Append(small, item)
             new == [i \in 1 .. k + 1 |-> IF i = k + 1 THEN n + 1 ELSE at[i]]
  <1>2. k \in Nat /\ DOMAIN small = 1 .. k /\ item \in S
    OBVIOUS
  <1>3. /\ DOMAIN grown = 1 .. k + 1 /\ grown[k + 1] = item
        /\ \A i \in 1 .. k : grown[i] = small[i]
    BY <1>2
  <1>4. /\ new \in [1 .. k + 1 -> 1 .. n + 1] /\ new[k + 1] = n + 1
        /\ \A i \in 1 .. k : new[i] = at[i] /\ at[i] \in 1 .. n
    BY <1>1, <1>2
  <1> HIDE DEF item, grown, new, k
  <1>5. \A i, j \in 1 .. k + 1 : i < j => new[i] < new[j]
    <2> SUFFICES ASSUME NEW i \in 1 .. k + 1, NEW j \in 1 .. k + 1, i < j PROVE new[i] < new[j]
      OBVIOUS
    <2>1. i \in 1 .. k /\ new[i] = at[i] /\ at[i] \in 1 .. n
      BY <1>2, <1>4
    <2>2. CASE j = k + 1
      BY <1>4, <2>1, <2>2
    <2>3. CASE j # k + 1
      <3>1. j \in 1 .. k /\ new[j] = at[j]
        BY <1>2, <1>4, <2>3
      <3>2. at[i] < at[j]
        BY <1>1, <1>2, <2>1, <3>1
      <3>3. QED BY <2>1, <3>1, <3>2
    <2>4. QED BY <2>2, <2>3
  <1>6. \A i \in 1 .. k + 1 : grown[i] = large[new[i]]
    <2> SUFFICES ASSUME NEW i \in 1 .. k + 1 PROVE grown[i] = large[new[i]]
      OBVIOUS
    <2>1. CASE i = k + 1
      BY <1>3, <1>4, <2>1 DEF item
    <2>2. CASE i # k + 1
      <3>1. i \in 1 .. k
        BY <1>2, <2>2
      <3>2. small[i] = large[at[i]]
        BY <1>1, <1>2, <3>1
      <3>3. QED BY <1>3, <1>4, <3>1, <3>2
    <2>3. QED BY <2>1, <2>2
  <1>7. WithinFirst(grown, large, n + 1)
    BY <1>3, <1>4, <1>5, <1>6 DEF WithinFirst
  <1>8. QED BY <1>7 DEF Within, grown, item

(* A record is written to the large file, and then to the small one.       *)
LEMMA LagBegins ==
  ASSUME NEW S, NEW small \in Seq(S), NEW large \in Seq(S), NEW item \in S, NEW other,
         Lags(small, large, FALSE, other)
  PROVE  Lags(small, Append(large, item), TRUE, item)
  <1>1. /\ Append(large, item) \in Seq(S) /\ Len(Append(large, item)) = Len(large) + 1
        /\ Append(large, item)[Len(large) + 1] = item /\ Len(large) \in Nat
    OBVIOUS
  <1>2. WithinFirst(small, large, Len(large)) /\ Len(large) \in 0 .. Len(large)
    BY <1>1 DEF Lags, Within
  <1>3. WithinFirst(small, Append(large, item), Len(large))
    BY <1>2, WithinGrown
  <1> DEFINE grown == Append(large, item)
  <1>4. Len(grown) > 0 /\ grown[Len(grown)] = item /\ Len(grown) - 1 = Len(large)
    BY <1>1
  <1> HIDE DEF grown
  <1>5. QED BY <1>3, <1>4 DEF Lags, grown

LEMMA LagEnds ==
  ASSUME NEW S, NEW small \in Seq(S), NEW large \in Seq(S), NEW item \in S, NEW other,
         Lags(small, large, TRUE, item)
  PROVE  Lags(Append(small, item), large, FALSE, other)
  <1> DEFINE n == Len(large) - 1
  <1>1. n \in Nat /\ n + 1 = Len(large) /\ large[n + 1] = item /\ WithinFirst(small, large, n)
    BY DEF Lags
  <1> HIDE DEF n
  <1>2. Within(Append(small, large[n + 1]), large)
    BY <1>1, WithinTaken
  <1>3. QED BY <1>1, <1>2 DEF Lags

(* The record never gets to the small file.                                *)
LEMMA LagLeft ==
  ASSUME NEW S, NEW small \in Seq(S), NEW large \in Seq(S), NEW pending \in BOOLEAN, NEW item, NEW other,
         Lags(small, large, pending, item)
  PROVE  Lags(small, large, FALSE, other)
  <1>1. CASE pending
    <2> DEFINE n == Len(large) - 1
    <2>1. n \in 0 .. Len(large) /\ Len(large) \in n .. Len(large) /\ WithinFirst(small, large, n)
          /\ large[Len(large)] \in S
      BY <1>1 DEF Lags
    <2> HIDE DEF n
    <2>2. WithinFirst(small, large, Len(large))
      BY <2>1, WithinGrown
    <2>3. QED BY <2>2 DEF Lags, Within
  <1>2. CASE ~pending
    BY <1>2 DEF Lags
  <1>3. QED BY <1>1, <1>2

(* The payloads of the records of a file.                                  *)
LEMMA PayloadsGrown ==
  ASSUME NEW pkts, NEW item,
         \/ pkts \in Seq(Raws) /\ item \in Raws
         \/ pkts \in Seq(Decodings) /\ item \in Decodings
  PROVE  /\ PayloadsOf(pkts) \in Seq(Payloads) /\ item.payload \in Payloads
         /\ PayloadsOf(Append(pkts, item)) = Append(PayloadsOf(pkts), item.payload)
  <1> DEFINE n == Len(pkts)
             P == PayloadsOf(pkts)
             grown == Append(pkts, item)
  <1>1. /\ n \in Nat /\ DOMAIN pkts = 1 .. n /\ DOMAIN grown = 1 .. n + 1
        /\ grown[n + 1] = item /\ \A i \in 1 .. n : grown[i] = pkts[i]
    OBVIOUS
  <1>2. item.payload \in Payloads /\ \A i \in 1 .. n : pkts[i].payload \in Payloads
    <2>1. \A r \in Raws : r.payload \in Payloads
      BY DEF Raws
    <2>2. \A d \in Decodings : d.payload \in Payloads
      BY DEF Decodings
    <2>3. CASE pkts \in Seq(Raws) /\ item \in Raws
      BY <1>1, <2>1, <2>3
    <2>4. CASE pkts \in Seq(Decodings) /\ item \in Decodings
      BY <1>1, <2>2, <2>4
    <2>5. QED BY <2>3, <2>4
  <1>3. P = [i \in 1 .. n |-> pkts[i].payload]
    BY <1>1 DEF PayloadsOf
  <1>4. PayloadsOf(grown) = [i \in 1 .. n + 1 |-> grown[i].payload]
    BY <1>1 DEF PayloadsOf
  <1> HIDE DEF n, P, grown
  <1>5. P \in Seq(Payloads) /\ Len(P) = n
    BY <1>1, <1>2, <1>3
  <1>6. /\ DOMAIN Append(P, item.payload) = 1 .. n + 1 /\ Append(P, item.payload)[n + 1] = item.payload
        /\ \A i \in 1 .. n : Append(P, item.payload)[i] = P[i]
        /\ Append(P, item.payload) \in Seq(Payloads)
    BY <1>1, <1>2, <1>5
  <1>7. \A i \in 1 .. n + 1 : PayloadsOf(grown)[i] = Append(P, item.payload)[i]
    <2> SUFFICES ASSUME NEW i \in 1 .. n + 1
                 PROVE  PayloadsOf(grown)[i] = Append(P, item.payload)[i]
      OBVIOUS
    <2>1. CASE i = n + 1
      BY <1>1, <1>4, <1>6, <2>1
    <2>2. CASE i # n + 1
      BY <1>1, <1>3, <1>4, <1>6, <2>2
    <2>3. QED BY <2>1, <2>2
  <1>8. PayloadsOf(grown) = Append(P, item.payload)
    <2> DEFINE longer == Append(P, item.payload)
    <2>1. longer \in Seq(Payloads) /\ DOMAIN longer = 1 .. n + 1
      BY <1>6
    <2>2. \A i \in 1 .. n + 1 : grown[i].payload = longer[i]
      BY <1>4, <1>7
    <2> HIDE DEF longer
    <2>5. longer = [i \in 1 .. n + 1 |-> longer[i]]
      BY <2>1
    <2>3. PayloadsOf(grown) = longer
      BY <1>4, <2>2, <2>5
    <2>4. QED BY <2>3 DEF longer
  <1>9. QED BY <1>2, <1>5, <1>8 DEF P, grown
-----------------------------------------------------------------------------
(* A stream's files with one more entry in one of them.                    *)
LEMMA RawGrown ==
  ASSUME NEW f \in Files, NEW item \in Raws, NEW g, g = [f EXCEPT !.raw = Append(@, item)]
  PROVE  /\ g \in Files /\ g.raw = Append(f.raw, item) /\ Len(g.raw) = Len(f.raw) + 1
         /\ g.signed = f.signed /\ g.payload = f.payload /\ g.meta = f.meta
  <1>1. Append(f.raw, item) \in Seq(Raws) /\ Len(Append(f.raw, item)) = Len(f.raw) + 1
    BY DEF Files
  <1>2. QED BY <1>1 DEF Files

LEMMA SignedGrown ==
  ASSUME NEW f \in Files, NEW item \in Raws, NEW g, g = [f EXCEPT !.signed = Append(@, item)]
  PROVE  /\ g \in Files /\ g.signed = Append(f.signed, item) /\ Len(g.signed) = Len(f.signed) + 1
         /\ g.raw = f.raw /\ g.payload = f.payload /\ g.meta = f.meta
  <1>1. Append(f.signed, item) \in Seq(Raws) /\ Len(Append(f.signed, item)) = Len(f.signed) + 1
    BY DEF Files
  <1>2. QED BY <1>1 DEF Files

LEMMA PayloadGrown ==
  ASSUME NEW f \in Files, NEW item \in Payloads, NEW g, g = [f EXCEPT !.payload = Append(@, item)]
  PROVE  /\ g \in Files /\ g.payload = Append(f.payload, item) /\ Len(g.payload) = Len(f.payload) + 1
         /\ g.raw = f.raw /\ g.signed = f.signed /\ g.meta = f.meta
  <1>1. Append(f.payload, item) \in Seq(Payloads) /\ Len(Append(f.payload, item)) = Len(f.payload) + 1
    BY DEF Files
  <1>2. QED BY <1>1 DEF Files

LEMMA MetaGrown ==
  ASSUME NEW f \in Files, NEW item \in Decodings, NEW g, g = [f EXCEPT !.meta = Append(@, item)]
  PROVE  /\ g \in Files /\ g.meta = Append(f.meta, item) /\ Len(g.meta) = Len(f.meta) + 1
         /\ g.raw = f.raw /\ g.signed = f.signed /\ g.payload = f.payload
  <1>1. Append(f.meta, item) \in Seq(Decodings) /\ Len(Append(f.meta, item)) = Len(f.meta) + 1
    BY DEF Files
  <1>2. QED BY <1>1 DEF Files

(* The lengths of a stream's files.                                        *)
LEMMA Lengths ==
  ASSUME NEW f \in Files
  PROVE  Len(f.raw) \in Nat /\ Len(f.signed) \in Nat /\ Len(f.payload) \in Nat /\ Len(f.meta) \in Nat
  BY DEF Files
-----------------------------------------------------------------------------
LEMMA InitInv == Init => IInv
  <1> SUFFICES ASSUME Init PROVE IInv
    OBVIOUS
  <1>1. TypeOK
    BY DEF Init, TypeOK, Appending, Files
  <1>2. HandCarried /\ RecordedAsReceived /\ Ahead /\ OwnStream
    BY DEF Init, HandCarried, RecordedAsReceived, Ahead, AheadOf, Appending, OwnStream
  <1>3. InOrder
    <2> SUFFICES ASSUME NEW s \in Streams PROVE InOrderOf(s)
      BY DEF InOrder
    <2>1. /\ files[s].raw = <<>> /\ files[s].signed = <<>> /\ files[s].payload = <<>> /\ files[s].meta = <<>>
          /\ pc = "listen"
      BY DEF Init
    <2>2. PayloadsOf(<<>>) = <<>>
      BY DEF PayloadsOf
    <2>3. Within(<<>>, <<>>)
      <3>1. /\ <<>> \in [DOMAIN <<>> -> 1 .. 0] /\ Len(<<>>) = 0
            /\ \A i, j \in DOMAIN <<>> : FALSE
        OBVIOUS
      <3>2. QED BY <3>1 DEF Within, WithinFirst
    <2>4. QED BY <2>1, <2>2, <2>3 DEF InOrderOf, Behind, Lags
  <1>4. QED BY <1>1, <1>2, <1>3 DEF IInv

(* Whatever is being written, each file of a stream is within the one      *)
(* before it.                                                              *)
LEMMA OrderWithin ==
  ASSUME IInv, NEW s \in Streams
  PROVE  /\ Within(files[s].signed, files[s].raw)
         /\ Within(files[s].payload, PayloadsOf(files[s].signed))
         /\ Within(PayloadsOf(files[s].meta), files[s].payload)
  <1> DEFINE f == files[s]
  <1>1. /\ f.raw \in Seq(Raws) /\ f.signed \in Seq(Raws) /\ f.payload \in Seq(Payloads)
        /\ PayloadsOf(f.signed) \in Seq(Payloads) /\ PayloadsOf(f.meta) \in Seq(Payloads)
    <2>1. f \in Files
      BY DEF IInv, TypeOK
    <2>2. ASSUME NEW T, NEW pkts \in Seq(T), \A t \in T : t.payload \in Payloads
          PROVE  PayloadsOf(pkts) \in Seq(Payloads)
      BY <2>2 DEF PayloadsOf
    <2>3. f.raw \in Seq(Raws) /\ f.signed \in Seq(Raws) /\ f.payload \in Seq(Payloads) /\ f.meta \in Seq(Decodings)
      BY <2>1 DEF Files
    <2>4. (\A t \in Raws : t.payload \in Payloads) /\ (\A t \in Decodings : t.payload \in Payloads)
      BY DEF Raws, Decodings
    <2> HIDE DEF f
    <2>5. QED BY <2>2, <2>3, <2>4
  <1>2. InOrderOf(s)
    BY DEF IInv, InOrder
  <1>3. /\ Behind(s, "signed") \in BOOLEAN /\ Behind(s, "payload") \in BOOLEAN /\ Behind(s, "meta") \in BOOLEAN
    BY DEF Behind
  <1>4. /\ Lags(f.signed, f.raw, Behind(s, "signed"), hand)
        /\ Lags(f.payload, PayloadsOf(f.signed), Behind(s, "payload"), hand.payload)
        /\ Lags(PayloadsOf(f.meta), f.payload, Behind(s, "meta"), hand.payload)
    BY <1>2 DEF InOrderOf
  <1> HIDE DEF f
  <1>5. Lags(f.signed, f.raw, FALSE, hand)
    BY <1>1, <1>3, <1>4, LagLeft
  <1>6. Lags(f.payload, PayloadsOf(f.signed), FALSE, hand.payload)
    BY <1>1, <1>3, <1>4, LagLeft
  <1>7. Lags(PayloadsOf(f.meta), f.payload, FALSE, hand.payload)
    BY <1>1, <1>3, <1>4, LagLeft
  <1>8. QED BY <1>5, <1>6, <1>7 DEF f, Lags

(* A step that leaves the stream's files alone.                            *)
LEMMA OrderKept ==
  ASSUME IInv, NEW s \in Streams, files'[s] = files[s],
         ~Behind(s, "signed")', ~Behind(s, "payload")', ~Behind(s, "meta")'
  PROVE  InOrderOf(s)'
  <1>1. /\ Within(files[s].signed, files[s].raw)
        /\ Within(files[s].payload, PayloadsOf(files[s].signed))
        /\ Within(PayloadsOf(files[s].meta), files[s].payload)
    BY OrderWithin
  <1>2. QED BY <1>1 DEF InOrderOf, Lags, Behind

LEMMA ReceiveKeeps ==
  ASSUME IInv, NEW stream \in Streams, NEW bits \in Flags, Receive(stream, bits)
  PROVE  IInv'
  <1> DEFINE raw == [seq |-> count % SeqWrap, bits |-> bits, stream |-> stream,
                     payload |-> [centre |-> count, voice |-> count]]
  <1>1. /\ pc = "listen" /\ pc' = "raw" /\ hand' = raw /\ count' = count + 1
        /\ files' = files /\ torn' = torn /\ received' = received /\ cuts' = cuts
        /\ Accepted(FromRaw(raw))
    BY DEF Receive
  <1>2. raw \in Raws /\ bits \in 0 .. 255
    <2>1. count \in Nat /\ count % SeqWrap \in Nat /\ bits \in 0 .. 255 /\ bits \in Nat
      BY CaptureAssumption, PacketAssumption DEF IInv, TypeOK
    <2>2. QED BY <2>1 DEF Raws, Payloads
  <1>3. Carried(bits)
    BY <1>1, CaptureAssumption DEF Accepted, FromRaw, Carried
  <1>4. TypeOK'
    BY <1>1, <1>2 DEF IInv, TypeOK, Appending
  <1>5. HandCarried'
    BY <1>1, <1>2, <1>3 DEF HandCarried
  <1>6. RecordedAsReceived'
    BY <1>1 DEF IInv, RecordedAsReceived
  <1>7. Ahead'
    BY <1>1 DEF IInv, Ahead, AheadOf, Appending
  <1>8. OwnStream'
    BY <1>1 DEF IInv, OwnStream
  <1>9. InOrder'
    BY <1>1, OrderKept DEF InOrder, Behind
  <1>10. QED BY <1>4, <1>5, <1>6, <1>7, <1>8, <1>9 DEF IInv

LEMMA AppendRawKeeps ==
  ASSUME IInv, AppendRaw
  PROVE  IInv'
  <1> DEFINE old == files[hand.stream]
             new == [old EXCEPT !.raw = Append(@, hand)]
  <1>1. /\ pc = "raw" /\ hand \in Raws /\ hand.stream \in Streams /\ hand' = hand
        /\ ToRaw(FromRaw(hand)) = hand
    BY RawKept DEF IInv, HandCarried, TypeOK, AppendRaw, Appending, Raws
  <1>2. /\ files' = [files EXCEPT ![hand.stream] = new]
        /\ received' = [received EXCEPT ![hand.stream] = Append(@, hand)]
        /\ pc' = "signed" /\ count' = count /\ cuts' = cuts /\ torn' = torn
    BY <1>1 DEF AppendRaw, Write, File
  <1>3. /\ old \in Files /\ new \in Files
        /\ new.raw = Append(old.raw, hand) /\ Len(new.raw) = Len(old.raw) + 1
        /\ new.signed = old.signed /\ new.payload = old.payload /\ new.meta = old.meta
    <2>1. old \in Files
      BY <1>1 DEF IInv, TypeOK
    <2>2. new = [old EXCEPT !.raw = Append(@, hand)]
      OBVIOUS
    <2> HIDE DEF old, new
    <2>3. QED BY <1>1, <2>1, <2>2, RawGrown
  <1>4. /\ files' \in [Streams -> Files] /\ files'[hand.stream] = new
        /\ \A s \in Streams : s # hand.stream => files'[s] = files[s]
    BY <1>1, <1>2, <1>3 DEF IInv, TypeOK
  <1>5. TypeOK'
    BY <1>1, <1>2, <1>4 DEF IInv, TypeOK, Appending
  <1>6. HandCarried'
    BY <1>1, <1>2 DEF IInv, HandCarried, Appending
  <1>7. RecordedAsReceived'
    BY <1>1, <1>2, <1>3, <1>4 DEF IInv, TypeOK, RecordedAsReceived
  <1>8. Ahead'
    <2> SUFFICES ASSUME NEW s \in Streams PROVE AheadOf(s)'
      BY DEF Ahead
    <2>1. files[s] \in Files /\ AheadOf(s) /\ cuts \in Nat
      BY DEF IInv, TypeOK, Ahead
    <2>2. CASE s = hand.stream
      <3>1. files[s] = old /\ files'[s] = new
        BY <1>4, <2>2
      <3>2. Len(old.raw) \in Nat /\ Len(old.signed) \in Nat /\ Len(old.payload) \in Nat /\ Len(old.meta) \in Nat
        BY <1>3, Lengths
      <3>3. cuts' = cuts /\ cuts \in Nat /\ hand.stream = s
        BY <1>2, <2>1, <2>2
      <3> HIDE DEF old, new
      <3>4. QED BY <1>1, <1>2, <1>3, <2>1, <3>1, <3>2, <3>3, SMTT(60) DEF AheadOf
    <2>3. CASE s # hand.stream
      BY <1>1, <1>2, <1>4, <2>1, <2>3, Lengths DEF AheadOf, Appending
    <2>4. QED BY <2>2, <2>3
  <1>9. OwnStream'
    <2> SUFFICES ASSUME NEW s \in Streams, NEW i \in 1 .. Len(files'[s].raw)
                 PROVE  files'[s].raw[i].stream = s
      BY DEF OwnStream
    <2>1. CASE s # hand.stream
      BY <1>4, <2>1 DEF IInv, OwnStream
    <2>2. CASE s = hand.stream
      <3>1. files'[s].raw = Append(old.raw, hand) /\ old.raw \in Seq(Raws)
        BY <1>3, <1>4, <2>2 DEF Files
      <3>2. \A j \in 1 .. Len(old.raw) : old.raw[j].stream = s
        BY <1>1, <2>2 DEF IInv, OwnStream
      <3> HIDE DEF old, new
      <3>3. CASE i = Len(old.raw) + 1
        BY <2>2, <3>1, <3>3
      <3>4. CASE i # Len(old.raw) + 1
        BY <3>1, <3>2, <3>4
      <3>5. QED BY <3>3, <3>4
    <2>3. QED BY <2>1, <2>2
  <1>10. InOrder'
    <2> SUFFICES ASSUME NEW s \in Streams PROVE InOrderOf(s)'
      BY DEF InOrder
    <2>1. CASE s # hand.stream
      BY <1>1, <1>2, <1>4, <2>1, OrderKept DEF Behind, NoPacket
    <2>2. CASE s = hand.stream
      <3>1. files[s] = old /\ files'[s] = new /\ InOrderOf(s)
        BY <1>4, <2>2 DEF IInv, InOrder
      <3>2. /\ old.raw \in Seq(Raws) /\ old.signed \in Seq(Raws) /\ old.payload \in Seq(Payloads)
            /\ old.meta \in Seq(Decodings)
        BY <1>3 DEF Files
      <3> HIDE DEF old, new
      <3>3. /\ Lags(old.signed, old.raw, FALSE, hand)
            /\ Lags(old.payload, PayloadsOf(old.signed), FALSE, hand.payload)
            /\ Lags(PayloadsOf(old.meta), old.payload, FALSE, hand.payload)
        BY <1>1, <3>1 DEF InOrderOf, Behind, Lags
      <3>4. Lags(old.signed, Append(old.raw, hand), TRUE, hand)
        BY <1>1, <3>2, <3>3, LagBegins
      <3>5. QED BY <1>1, <1>2, <1>3, <2>2, <3>1, <3>3, <3>4 DEF InOrderOf, Behind, Lags
    <2>3. QED BY <2>1, <2>2
  <1>11. QED BY <1>5, <1>6, <1>7, <1>8, <1>9, <1>10 DEF IInv

LEMMA AppendSignedKeeps ==
  ASSUME IInv, AppendSigned
  PROVE  IInv'
  <1> DEFINE old == files[hand.stream]
             new == [old EXCEPT !.signed = Append(@, hand)]
  <1>1. /\ pc = "signed" /\ hand \in Raws /\ hand.stream \in Streams /\ hand' = hand
        /\ ToRaw(FromRaw(hand)) = hand
    BY RawKept DEF IInv, HandCarried, TypeOK, AppendSigned, Appending, Raws
  <1>2. /\ files' = [files EXCEPT ![hand.stream] = new]
        /\ received' = received
        /\ pc' = "payload" /\ count' = count /\ cuts' = cuts /\ torn' = torn
    BY <1>1 DEF AppendSigned, Write, File
  <1>3. /\ old \in Files /\ new \in Files
        /\ new.signed = Append(old.signed, hand) /\ Len(new.signed) = Len(old.signed) + 1
        /\ new.raw = old.raw /\ new.payload = old.payload /\ new.meta = old.meta
    <2>1. old \in Files
      BY <1>1 DEF IInv, TypeOK
    <2>2. new = [old EXCEPT !.signed = Append(@, hand)]
      OBVIOUS
    <2> HIDE DEF old, new
    <2>3. QED BY <1>1, <2>1, <2>2, SignedGrown
  <1>4. /\ files' \in [Streams -> Files] /\ files'[hand.stream] = new
        /\ \A s \in Streams : s # hand.stream => files'[s] = files[s]
    BY <1>1, <1>2, <1>3 DEF IInv, TypeOK
  <1>5. TypeOK'
    BY <1>1, <1>2, <1>4 DEF IInv, TypeOK, Appending
  <1>6. HandCarried'
    BY <1>1, <1>2 DEF IInv, HandCarried, Appending
  <1>7. RecordedAsReceived'
    BY <1>1, <1>2, <1>3, <1>4 DEF IInv, TypeOK, RecordedAsReceived
  <1>8. Ahead'
    <2> SUFFICES ASSUME NEW s \in Streams PROVE AheadOf(s)'
      BY DEF Ahead
    <2>1. files[s] \in Files /\ AheadOf(s) /\ cuts \in Nat
      BY DEF IInv, TypeOK, Ahead
    <2>2. CASE s = hand.stream
      <3>1. files[s] = old /\ files'[s] = new
        BY <1>4, <2>2
      <3>2. Len(old.raw) \in Nat /\ Len(old.signed) \in Nat /\ Len(old.payload) \in Nat /\ Len(old.meta) \in Nat
        BY <1>3, Lengths
      <3>3. cuts' = cuts /\ cuts \in Nat /\ hand.stream = s
        BY <1>2, <2>1, <2>2
      <3> HIDE DEF old, new
      <3>4. QED BY <1>1, <1>2, <1>3, <2>1, <3>1, <3>2, <3>3, SMTT(60) DEF AheadOf
    <2>3. CASE s # hand.stream
      BY <1>1, <1>2, <1>4, <2>1, <2>3, Lengths DEF AheadOf, Appending
    <2>4. QED BY <2>2, <2>3
  <1>9. OwnStream'
    <2>1. \A s \in Streams : files'[s].raw = files[s].raw
      BY <1>1, <1>3, <1>4
    <2>2. QED BY <2>1 DEF IInv, OwnStream
  <1>10. InOrder'
    <2> SUFFICES ASSUME NEW s \in Streams PROVE InOrderOf(s)'
      BY DEF InOrder
    <2>1. CASE s # hand.stream
      BY <1>1, <1>2, <1>4, <2>1, OrderKept DEF Behind, NoPacket
    <2>2. CASE s = hand.stream
      <3>1. files[s] = old /\ files'[s] = new /\ InOrderOf(s)
        BY <1>4, <2>2 DEF IInv, InOrder
      <3>2. /\ old.raw \in Seq(Raws) /\ old.signed \in Seq(Raws) /\ old.payload \in Seq(Payloads)
            /\ old.meta \in Seq(Decodings)
        BY <1>3 DEF Files
      <3> HIDE DEF old, new
      <3>3. /\ Lags(old.signed, old.raw, TRUE, hand)
            /\ Lags(old.payload, PayloadsOf(old.signed), FALSE, hand.payload)
            /\ Lags(PayloadsOf(old.meta), old.payload, FALSE, hand.payload)
        BY <1>1, <2>2, <3>1 DEF InOrderOf, Behind, Lags
      <3>4. Lags(new.signed, new.raw, FALSE, hand)
        BY <1>1, <1>3, <3>2, <3>3, LagEnds
      <3>5. /\ PayloadsOf(old.signed) \in Seq(Payloads) /\ hand.payload \in Payloads
            /\ PayloadsOf(new.signed) = Append(PayloadsOf(old.signed), hand.payload)
        BY <1>1, <1>3, <3>2, PayloadsGrown
      <3>6. Lags(new.payload, PayloadsOf(new.signed), TRUE, hand.payload)
        BY <1>3, <3>2, <3>3, <3>5, LagBegins
      <3>7. QED BY <1>1, <1>2, <1>3, <2>2, <3>1, <3>3, <3>4, <3>6 DEF InOrderOf, Behind, Lags
    <2>3. QED BY <2>1, <2>2
  <1>11. QED BY <1>5, <1>6, <1>7, <1>8, <1>9, <1>10 DEF IInv

LEMMA AppendPayloadKeeps ==
  ASSUME IInv, AppendPayload
  PROVE  IInv'
  <1> DEFINE old == files[hand.stream]
             new == [old EXCEPT !.payload = Append(@, hand.payload)]
  <1>1. /\ pc = "payload" /\ hand \in Raws /\ hand.stream \in Streams /\ hand' = hand
        /\ hand.payload \in Payloads
    BY DEF IInv, TypeOK, AppendPayload, Appending, Raws
  <1>2. /\ files' = [files EXCEPT ![hand.stream] = new]
        /\ received' = received
        /\ pc' = "meta" /\ count' = count /\ cuts' = cuts /\ torn' = torn
    BY <1>1 DEF AppendPayload, Write, File
  <1>3. /\ old \in Files /\ new \in Files
        /\ new.payload = Append(old.payload, hand.payload) /\ Len(new.payload) = Len(old.payload) + 1
        /\ new.raw = old.raw /\ new.signed = old.signed /\ new.meta = old.meta
    <2>1. old \in Files
      BY <1>1 DEF IInv, TypeOK
    <2>2. new = [old EXCEPT !.payload = Append(@, hand.payload)]
      OBVIOUS
    <2> HIDE DEF old, new
    <2>3. QED BY <1>1, <2>1, <2>2, PayloadGrown
  <1>4. /\ files' \in [Streams -> Files] /\ files'[hand.stream] = new
        /\ \A s \in Streams : s # hand.stream => files'[s] = files[s]
    BY <1>1, <1>2, <1>3 DEF IInv, TypeOK
  <1>5. TypeOK'
    BY <1>1, <1>2, <1>4 DEF IInv, TypeOK, Appending
  <1>6. HandCarried'
    BY <1>1, <1>2 DEF IInv, HandCarried, Appending
  <1>7. RecordedAsReceived'
    BY <1>1, <1>2, <1>3, <1>4 DEF IInv, TypeOK, RecordedAsReceived
  <1>8. Ahead'
    <2> SUFFICES ASSUME NEW s \in Streams PROVE AheadOf(s)'
      BY DEF Ahead
    <2>1. files[s] \in Files /\ AheadOf(s) /\ cuts \in Nat
      BY DEF IInv, TypeOK, Ahead
    <2>2. CASE s = hand.stream
      <3>1. files[s] = old /\ files'[s] = new
        BY <1>4, <2>2
      <3>2. Len(old.raw) \in Nat /\ Len(old.signed) \in Nat /\ Len(old.payload) \in Nat /\ Len(old.meta) \in Nat
        BY <1>3, Lengths
      <3>3. cuts' = cuts /\ cuts \in Nat /\ hand.stream = s
        BY <1>2, <2>1, <2>2
      <3> HIDE DEF old, new
      <3>4. QED BY <1>1, <1>2, <1>3, <2>1, <3>1, <3>2, <3>3, SMTT(60) DEF AheadOf
    <2>3. CASE s # hand.stream
      BY <1>1, <1>2, <1>4, <2>1, <2>3, Lengths DEF AheadOf, Appending
    <2>4. QED BY <2>2, <2>3
  <1>9. OwnStream'
    <2>1. \A s \in Streams : files'[s].raw = files[s].raw
      BY <1>1, <1>3, <1>4
    <2>2. QED BY <2>1 DEF IInv, OwnStream
  <1>10. InOrder'
    <2> SUFFICES ASSUME NEW s \in Streams PROVE InOrderOf(s)'
      BY DEF InOrder
    <2>1. CASE s # hand.stream
      BY <1>1, <1>2, <1>4, <2>1, OrderKept DEF Behind, NoPacket
    <2>2. CASE s = hand.stream
      <3>1. files[s] = old /\ files'[s] = new /\ InOrderOf(s)
        BY <1>4, <2>2 DEF IInv, InOrder
      <3>2. /\ old.raw \in Seq(Raws) /\ old.signed \in Seq(Raws) /\ old.payload \in Seq(Payloads)
            /\ old.meta \in Seq(Decodings)
        BY <1>3 DEF Files
      <3> HIDE DEF old, new
      <3>3. /\ Lags(old.signed, old.raw, FALSE, hand)
            /\ Lags(old.payload, PayloadsOf(old.signed), TRUE, hand.payload)
            /\ Lags(PayloadsOf(old.meta), old.payload, FALSE, hand.payload)
        BY <1>1, <2>2, <3>1 DEF InOrderOf, Behind, Lags
      <3>4. PayloadsOf(old.signed) \in Seq(Payloads) /\ PayloadsOf(old.meta) \in Seq(Payloads)
        BY <3>2, <1>1, DecodingType, PayloadsGrown
      <3>5. Lags(new.payload, PayloadsOf(new.signed), FALSE, hand.payload)
        BY <1>1, <1>3, <3>2, <3>3, <3>4, LagEnds
      <3>6. Lags(PayloadsOf(new.meta), new.payload, TRUE, hand.payload)
        BY <1>1, <1>3, <3>2, <3>3, <3>4, LagBegins
      <3>7. QED BY <1>1, <1>2, <1>3, <2>2, <3>1, <3>3, <3>5, <3>6 DEF InOrderOf, Behind, Lags
    <2>3. QED BY <2>1, <2>2
  <1>11. QED BY <1>5, <1>6, <1>7, <1>8, <1>9, <1>10 DEF IInv

LEMMA AppendMetaKeeps ==
  ASSUME IInv, AppendMeta
  PROVE  IInv'
  <1> DEFINE old == files[hand.stream]
             new == [old EXCEPT !.meta = Append(@, FromRaw(hand))]
  <1>1. /\ pc = "meta" /\ hand \in Raws /\ hand.stream \in Streams /\ hand' = NoPacket
        /\ FromRaw(hand) \in Decodings
    BY DecodingType DEF IInv, TypeOK, AppendMeta, Appending, Raws
  <1>2. /\ files' = [files EXCEPT ![hand.stream] = new]
        /\ received' = received
        /\ pc' = "listen" /\ count' = count /\ cuts' = cuts /\ torn' = torn
    BY <1>1 DEF AppendMeta, Write, File
  <1>3. /\ old \in Files /\ new \in Files
        /\ new.meta = Append(old.meta, FromRaw(hand)) /\ Len(new.meta) = Len(old.meta) + 1
        /\ new.raw = old.raw /\ new.signed = old.signed /\ new.payload = old.payload
    <2>1. old \in Files
      BY <1>1 DEF IInv, TypeOK
    <2>2. new = [old EXCEPT !.meta = Append(@, FromRaw(hand))]
      OBVIOUS
    <2> HIDE DEF old, new
    <2>3. QED BY <1>1, <2>1, <2>2, MetaGrown
  <1>4. /\ files' \in [Streams -> Files] /\ files'[hand.stream] = new
        /\ \A s \in Streams : s # hand.stream => files'[s] = files[s]
    BY <1>1, <1>2, <1>3 DEF IInv, TypeOK
  <1>5. TypeOK'
    BY <1>1, <1>2, <1>4 DEF IInv, TypeOK, Appending
  <1>6. HandCarried'
    BY <1>1, <1>2 DEF IInv, HandCarried, Appending
  <1>7. RecordedAsReceived'
    BY <1>1, <1>2, <1>3, <1>4 DEF IInv, TypeOK, RecordedAsReceived
  <1>8. Ahead'
    <2> SUFFICES ASSUME NEW s \in Streams PROVE AheadOf(s)'
      BY DEF Ahead
    <2>1. files[s] \in Files /\ AheadOf(s) /\ cuts \in Nat
      BY DEF IInv, TypeOK, Ahead
    <2>2. CASE s = hand.stream
      <3>1. files[s] = old /\ files'[s] = new
        BY <1>4, <2>2
      <3>2. Len(old.raw) \in Nat /\ Len(old.signed) \in Nat /\ Len(old.payload) \in Nat /\ Len(old.meta) \in Nat
        BY <1>3, Lengths
      <3>3. cuts' = cuts /\ cuts \in Nat /\ hand.stream = s
        BY <1>2, <2>1, <2>2
      <3> HIDE DEF old, new
      <3>4. QED BY <1>1, <1>2, <1>3, <2>1, <3>1, <3>2, <3>3, SMTT(60) DEF AheadOf
    <2>3. CASE s # hand.stream
      BY <1>1, <1>2, <1>4, <2>1, <2>3, Lengths DEF AheadOf, Appending
    <2>4. QED BY <2>2, <2>3
  <1>9. OwnStream'
    <2>1. \A s \in Streams : files'[s].raw = files[s].raw
      BY <1>1, <1>3, <1>4
    <2>2. QED BY <2>1 DEF IInv, OwnStream
  <1>10. InOrder'
    <2> SUFFICES ASSUME NEW s \in Streams PROVE InOrderOf(s)'
      BY DEF InOrder
    <2>1. CASE s # hand.stream
      BY <1>1, <1>2, <1>4, <2>1, OrderKept DEF Behind, NoPacket
    <2>2. CASE s = hand.stream
      <3>1. files[s] = old /\ files'[s] = new /\ InOrderOf(s)
        BY <1>4, <2>2 DEF IInv, InOrder
      <3>2. /\ old.raw \in Seq(Raws) /\ old.signed \in Seq(Raws) /\ old.payload \in Seq(Payloads)
            /\ old.meta \in Seq(Decodings)
        BY <1>3 DEF Files
      <3> HIDE DEF old, new
      <3>3. /\ Lags(old.signed, old.raw, FALSE, hand)
            /\ Lags(old.payload, PayloadsOf(old.signed), FALSE, hand.payload)
            /\ Lags(PayloadsOf(old.meta), old.payload, TRUE, hand.payload)
        BY <1>1, <2>2, <3>1 DEF InOrderOf, Behind, Lags
      <3>4. /\ PayloadsOf(old.meta) \in Seq(Payloads) /\ hand.payload \in Payloads
            /\ PayloadsOf(new.meta) = Append(PayloadsOf(old.meta), FromRaw(hand).payload)
            /\ FromRaw(hand).payload = hand.payload
        BY <1>1, <1>3, <3>2, PayloadsGrown DEF FromRaw
      <3>5. Lags(PayloadsOf(new.meta), new.payload, FALSE, hand'.payload)
        BY <1>1, <1>3, <3>2, <3>3, <3>4, LagEnds
      <3>6. QED BY <1>1, <1>2, <1>3, <2>2, <3>1, <3>3, <3>5 DEF InOrderOf, Behind, Lags
    <2>3. QED BY <2>1, <2>2
  <1>11. QED BY <1>5, <1>6, <1>7, <1>8, <1>9, <1>10 DEF IInv

LEMMA LeaveKeeps ==
  ASSUME IInv, Leave \/ Restart
  PROVE  IInv'
  <1>1. pc' \in {"listen", "done"} /\ hand' = NoPacket
    BY DEF Leave, Restart, IInv, TypeOK, Appending
  <1>2. files' = files /\ received' = received /\ count' = count
    BY DEF Leave, Restart
  <1>3. cuts' = (IF pc \in Appending THEN cuts + 1 ELSE cuts) /\ cuts \in Nat
    BY DEF Leave, Restart, IInv, TypeOK, Appending
  <1>8. torn' \in [Streams -> SUBSET Appending]
    <2>1. torn \in [Streams -> SUBSET Appending] /\ (pc \in Appending => hand.stream \in Streams)
      BY DEF IInv, TypeOK, Raws
    <2>2. torn' = torn \/ (pc \in Appending /\ torn' = [torn EXCEPT ![hand.stream] = @ \cup {pc}])
      BY DEF Leave, Restart
    <2>3. CASE torn' = torn
      BY <2>1, <2>3
    <2>4. CASE pc \in Appending /\ torn' = [torn EXCEPT ![hand.stream] = @ \cup {pc}]
      <3>1. torn[hand.stream] \cup {pc} \in SUBSET Appending
        BY <2>1, <2>4
      <3>2. QED BY <2>1, <2>4, <3>1
    <2>5. QED BY <2>2, <2>3, <2>4
  <1>4. TypeOK'
    BY <1>1, <1>2, <1>3, <1>8 DEF IInv, TypeOK, Appending
  <1>9. InOrder'
    BY <1>1, <1>2, OrderKept DEF InOrder, Behind
  <1>5. HandCarried' /\ RecordedAsReceived' /\ OwnStream'
    BY <1>1, <1>2 DEF IInv, HandCarried, RecordedAsReceived, Appending, OwnStream
  <1>6. Ahead'
    <2> SUFFICES ASSUME NEW s \in Streams PROVE AheadOf(s)'
      BY DEF Ahead
    <2>1. files[s] \in Files /\ AheadOf(s)
      BY DEF IInv, TypeOK, Ahead
    <2>2. Len(files[s].raw) \in Nat /\ Len(files[s].meta) \in Nat
      BY <2>1, Lengths
    <2>3. CASE pc \in Appending
      <3>1. cuts' = cuts + 1 /\ cuts \in Nat
        BY <1>3, <2>3
      <3>2. Len(files[s].raw) <= Len(files[s].meta) + cuts + 1
        BY <2>1 DEF AheadOf
      <3>3. \A r, m, c \in Nat : r <= m + c + 1 => r <= m + (c + 1) /\ r <= m + (c + 1) + 1
        OBVIOUS
      <3>4. /\ Len(files[s].raw) <= Len(files[s].meta) + cuts'
            /\ Len(files[s].raw) <= Len(files[s].meta) + cuts' + 1
        BY <2>2, <3>1, <3>2, <3>3
      <3>5. QED BY <1>1, <1>2, <2>1, <3>4 DEF AheadOf
    <2>4. CASE pc \notin Appending
      BY <1>1, <1>2, <1>3, <2>1, <2>2, <2>4 DEF AheadOf, Appending
    <2>5. QED BY <2>3, <2>4
  <1>7. QED BY <1>4, <1>5, <1>6, <1>9 DEF IInv

(* The inductive invariant.                                                *)
THEOREM Inductive == Spec => []IInv
  <1>1. IInv /\ UNCHANGED vars => IInv'
    BY DEF vars, IInv, TypeOK, HandCarried, RecordedAsReceived, Ahead, AheadOf, OwnStream,
           InOrder, InOrderOf, Behind
  <1>2. IInv /\ [Next]_vars => IInv'
    BY <1>1, ReceiveKeeps, AppendRawKeeps, AppendSignedKeeps, AppendPayloadKeeps,
       AppendMetaKeeps, LeaveKeeps DEF Next
  <1>3. QED BY <1>2, InitInv, PTL DEF Spec

(* Every variable keeps to its type.                                       *)
THEOREM TypeCorrect == Spec => []TypeOK
  <1>1. IInv => TypeOK
    BY DEF IInv
  <1>2. QED BY <1>1, Inductive, PTL

(* The .dmrd file of a stream holds its packets byte for byte and in the   *)
(* order they came, though each is decoded and encoded again.              *)
THEOREM RecordsWhatCame == Spec => []RecordedAsReceived
  <1>1. IInv => RecordedAsReceived
    BY DEF IInv
  <1>2. QED BY <1>1, Inductive, PTL

(* However often sessions are cut short and resumed, the whole records of  *)
(* each file are those of the file before it, in the same order, less at   *)
(* most one for every cut.                                                 *)
THEOREM FilesStayTogether == Spec => []FilesAgree
  <1>1. IInv => FilesAgree
    <2> SUFFICES ASSUME IInv, NEW s \in Streams
                 PROVE  /\ Within(files[s].signed, files[s].raw)
                        /\ Within(files[s].payload, PayloadsOf(files[s].signed))
                        /\ Within(PayloadsOf(files[s].meta), files[s].payload)
                        /\ Len(files[s].raw) <= Len(files[s].meta) + cuts
                                                + (IF pc \in Appending /\ hand.stream = s THEN 1 ELSE 0)
      BY DEF FilesAgree
    <2>1. files[s] \in Files /\ AheadOf(s) /\ cuts \in Nat /\ InOrderOf(s)
      BY DEF IInv, TypeOK, Ahead, InOrder
    <2>2. Len(files[s].raw) \in Nat /\ Len(files[s].meta) \in Nat
      BY <2>1, Lengths
    <2>3. CASE pc \in Appending /\ hand.stream = s
      BY <2>1, <2>2, <2>3, OrderWithin DEF AheadOf
    <2>4. CASE ~(pc \in Appending /\ hand.stream = s)
      <3>1. ~(pc \in {"signed", "payload", "meta"} /\ hand.stream = s)
        BY <2>4 DEF Appending
      <3>2. Len(files[s].raw) <= Len(files[s].meta) + cuts + 0
        BY <2>1, <2>2, <3>1 DEF AheadOf
      <3>3. QED BY <2>4, <3>2, OrderWithin
    <2>5. QED BY <2>3, <2>4
  <1>2. QED BY <1>1, Inductive, PTL
-----------------------------------------------------------------------------
LEMMA Quotient ==
  ASSUME NEW n \in Nat, NEW m \in Nat \ {0}
  PROVE  n % m \in 0 .. m - 1 /\ n \div m \in Nat /\ n = (m * (n \div m)) + (n % m)
  BY SMTT(20)

LEMMA Remainder ==
  ASSUME NEW m \in Nat \ {0}, NEW q \in Nat, NEW r \in 0 .. m - 1
  PROVE  ((m * q) + r) % m = r
  BY SMTT(20)

(* Counting one on before or after taking the remainder is the same.       *)
LEMMA ModSucc ==
  ASSUME NEW n \in Nat, NEW m \in Nat \ {0}
  PROVE  ((n % m) + 1) % m = (n + 1) % m
  <1> DEFINE q == n \div m
             r == n % m
  <1>1. q \in Nat /\ r \in 0 .. m - 1 /\ n = (m * q) + r
    BY Quotient
  <1>2. CASE r + 1 < m
    <2>1. n + 1 = (m * q) + (r + 1) /\ r + 1 \in 0 .. m - 1
      BY <1>1, <1>2
    <2>2. ((m * q) + (r + 1)) % m = r + 1
      BY <1>1, <2>1, Remainder
    <2>3. (r + 1) % m = r + 1
      BY <2>1, SMTT(20)
    <2>4. QED BY <2>1, <2>2, <2>3
  <1>3. CASE r + 1 = m
    <2>1. n + 1 = (m * (q + 1)) + 0 /\ q + 1 \in Nat /\ 0 \in 0 .. m - 1
      BY <1>1, <1>3
    <2>2. ((m * (q + 1)) + 0) % m = 0
      BY <2>1, Remainder
    <2>3. (r + 1) % m = 0
      BY <1>3, SMTT(20)
    <2>4. QED BY <2>1, <2>2, <2>3
  <1>4. QED BY <1>1, <1>2, <1>3

(* A packet of a group call that is sent and received again: the slot, the *)
(* frame type and the data type come through.                              *)
LEMMA GroupCarried ==
  ASSUME NEW slot \in {1, 2}, NEW frame \in 0 .. 3, NEW dtype \in 0 .. 15
  PROVE  /\ UnpackBits(PackBits(slot, "group", frame, dtype)).slot = slot
         /\ UnpackBits(PackBits(slot, "group", frame, dtype)).frame = frame
         /\ UnpackBits(PackBits(slot, "group", frame, dtype)).dtype = dtype
  <1> DEFINE high == IF slot = 2 THEN 8 ELSE 0
             bits == PackBits(slot, "group", frame, dtype)
  <1>1. bits = 16 * (high + frame) + dtype /\ high + frame \in Nat
    BY DEF PackBits
  <1>2. bits \div 16 = high + frame /\ bits % 16 = dtype
    BY <1>1, SMTT(20)
  <1>3. (high + frame) % 4 = frame
    OBVIOUS
  <1>4. bits >= 128 <=> slot = 2
    BY <1>1
  <1> HIDE DEF bits
  <1>5. QED BY <1>2, <1>3, <1>4 DEF UnpackBits, bits

(* A packet as Rewrite makes it, with sequence number n.                   *)
Renewed(p, n) ==
  [p EXCEPT !.seq = n, !.stream = NewStream, !.flags = [@ EXCEPT !.slot = Slot, !.call = "group"]]

(* Decoded packets, whatever their payloads are.                           *)
PacketsWith(P) ==
  [seq : Nat, stream : Streams, payload : P,
   flags : [slot : {1, 2}, call : {"group", "unit", "vcsbk"}, frame : 0 .. 3, dtype : 0 .. 15]]

LEMMA SentPacket ==
  ASSUME NEW P, NEW p \in PacketsWith(P), NEW n \in Nat
  PROVE  LET h == FromRaw(ToRaw(Renewed(p, n)))
         IN /\ h.seq = n /\ h.stream = NewStream /\ h.payload = p.payload
            /\ h.flags.slot = Slot
            /\ h.flags.frame = p.flags.frame /\ h.flags.dtype = p.flags.dtype
  <1> DEFINE q == Renewed(p, n)
             bits == PackBits(Slot, "group", p.flags.frame, p.flags.dtype)
             h == FromRaw(ToRaw(q))
  <1>1. /\ q.seq = n /\ q.stream = NewStream /\ q.payload = p.payload
        /\ q.flags.slot = Slot /\ q.flags.call = "group"
        /\ q.flags.frame = p.flags.frame /\ q.flags.dtype = p.flags.dtype
    BY DEF PacketsWith, Renewed
  <1>2. p.flags.frame \in 0 .. 3 /\ p.flags.dtype \in 0 .. 15 /\ Slot \in {1, 2}
    BY CaptureAssumption DEF PacketsWith
  <1>3. /\ UnpackBits(bits).slot = Slot /\ UnpackBits(bits).frame = p.flags.frame
        /\ UnpackBits(bits).dtype = p.flags.dtype
    <2> DEFINE frame == p.flags.frame
               dtype == p.flags.dtype
    <2>1. frame \in 0 .. 3 /\ dtype \in 0 .. 15 /\ Slot \in {1, 2}
      BY <1>2
    <2> HIDE DEF frame, dtype
    <2>2. /\ UnpackBits(PackBits(Slot, "group", frame, dtype)).slot = Slot
          /\ UnpackBits(PackBits(Slot, "group", frame, dtype)).frame = frame
          /\ UnpackBits(PackBits(Slot, "group", frame, dtype)).dtype = dtype
      BY <2>1, GroupCarried
    <2>3. QED BY <2>2 DEF frame, dtype
  <1> HIDE DEF q
  <1>4. h = [seq |-> n, flags |-> UnpackBits(bits), stream |-> NewStream, payload |-> p.payload]
    BY <1>1 DEF FromRaw, ToRaw
  <1> HIDE DEF h, bits
  <1>5. QED BY <1>3, <1>4 DEF h, q

(* Of what a stream's file holds: the packets select_stream_packets picks. *)
LEMMA CaptureOf ==
  ASSUME IInv, NEW s \in Streams
  PROVE  LET capture == Decoded(files[s].raw)
         IN /\ capture \in Seq(Decodings) /\ Len(capture) = Len(files[s].raw)
            /\ OfStream(capture, s) = capture
  <1> DEFINE raw == files[s].raw
             capture == Decoded(raw)
             n == Len(raw)
  <1>1. raw \in Seq(Raws) /\ \A i \in 1 .. n : raw[i].stream = s
    BY DEF IInv, TypeOK, Files, OwnStream
  <1> HIDE DEF raw
  <1>2. n \in Nat /\ \A i \in 1 .. n : raw[i] \in Raws
    BY <1>1
  <1>3. capture = [i \in 1 .. n |-> FromRaw(raw[i])]
    BY <1>1 DEF Decoded
  <1>4. \A i \in 1 .. n : FromRaw(raw[i]) \in Decodings /\ FromRaw(raw[i]).stream = s
    BY <1>1, <1>2, DecodingType DEF FromRaw
  <1> HIDE DEF capture
  <1>5. capture \in Seq(Decodings) /\ Len(capture) = n
    BY <1>2, <1>3, <1>4
  <1>6. \A i \in 1 .. n : capture[i] \in {p \in Range(capture) : p.stream = s}
    BY <1>2, <1>3, <1>4 DEF Range
  <1>7. OfStream(capture, s) = capture
    BY <1>5, <1>6, SelectAll DEF OfStream
  <1>8. QED BY <1>5, <1>7 DEF capture, raw

(* What is sent for packets that are numbered and addressed anew.          *)
LEMMA Renumbered ==
  ASSUME NEW P, NEW pkts \in Seq(PacketsWith(P))
  PROVE  LET heard == Sent(Rewrite(pkts, NewStream, Slot))
         IN /\ heard \in Seq(Range(heard)) /\ DOMAIN heard = 1 .. Len(pkts) /\ Len(heard) = Len(pkts)
            /\ SequenceGaps(heard) = {}
            /\ \A i \in 1 .. Len(pkts) :
                 /\ heard[i].stream = NewStream /\ heard[i].flags.slot = Slot /\ heard[i].seq < SeqWrap
                 /\ heard[i].payload = pkts[i].payload
                 /\ heard[i].flags.frame = pkts[i].flags.frame
                 /\ heard[i].flags.dtype = pkts[i].flags.dtype
  <1> DEFINE n == Len(pkts)
             New(i) == Renewed(pkts[i], (i - 1) % SeqWrap)
             heard == Sent(Rewrite(pkts, NewStream, Slot))
  <1>1. n \in Nat /\ DOMAIN pkts = 1 .. n /\ SeqWrap \in Nat \ {0}
    BY PacketAssumption
  <1>2. heard = [i \in 1 .. n |-> FromRaw(ToRaw(New(i)))]
    BY <1>1 DEF Sent, Decoded, Rewrite, Renewed
  <1> HIDE DEF heard
  <1>3. ASSUME NEW i \in 1 .. n
        PROVE  /\ (i - 1) % SeqWrap \in 0 .. SeqWrap - 1
               /\ heard[i].seq = (i - 1) % SeqWrap
               /\ heard[i].stream = NewStream /\ heard[i].flags.slot = Slot
               /\ heard[i].payload = pkts[i].payload
               /\ heard[i].flags.frame = pkts[i].flags.frame
               /\ heard[i].flags.dtype = pkts[i].flags.dtype
    <2>1. pkts[i] \in PacketsWith(P) /\ i - 1 \in Nat
      BY <1>1
    <2>2. (i - 1) % SeqWrap \in 0 .. SeqWrap - 1 /\ (i - 1) % SeqWrap \in Nat
      <3> DEFINE k == i - 1
      <3>1. k \in Nat
        BY <2>1
      <3> HIDE DEF k
      <3>2. k % SeqWrap \in 0 .. SeqWrap - 1
        BY <1>1, <3>1, Quotient
      <3>3. k % SeqWrap \in Nat
        BY <1>1, <3>2
      <3>4. QED BY <3>2, <3>3 DEF k
    <2>3. heard[i] = FromRaw(ToRaw(New(i)))
      BY <1>2
    <2>4. QED BY <2>1, <2>2, <2>3, SentPacket
  <1>4. DOMAIN heard = 1 .. n /\ Len(heard) = n /\ heard \in Seq(Range(heard))
    <2> HIDE DEF n, New
    <2>1. DOMAIN heard = 1 .. n /\ \A i \in 1 .. n : heard[i] \in Range(heard)
      BY <1>2 DEF Range
    <2>2. heard = [i \in 1 .. n |-> heard[i]]
      BY <1>2
    <2>3. QED BY <1>1, <2>1, <2>2
  <1>5. SequenceGaps(heard) = {}
    <2> SUFFICES ASSUME NEW i \in 1 .. n - 1 PROVE heard[i + 1].seq = (heard[i].seq + 1) % SeqWrap
      BY <1>4 DEF SequenceGaps
    <2>1. i \in 1 .. n /\ i + 1 \in 1 .. n /\ (i + 1) - 1 = (i - 1) + 1 /\ i - 1 \in Nat
      BY <1>1
    <2>2. heard[i].seq = (i - 1) % SeqWrap /\ heard[i + 1].seq = ((i - 1) + 1) % SeqWrap
      BY <1>3, <2>1
    <2>3. (((i - 1) % SeqWrap) + 1) % SeqWrap = ((i - 1) + 1) % SeqWrap
      BY <1>1, <2>1, ModSucc
    <2>4. QED BY <2>2, <2>3
  <1>6. \A i \in 1 .. n : heard[i].seq < SeqWrap
    BY <1>1, <1>3
  <1>7. QED BY <1>3, <1>4, <1>5, <1>6 DEF heard

LEMMA Replayed ==
  ASSUME NEW capture \in Seq(Decodings)
  PROVE  LET heard == Sent(Rewrite(capture, NewStream, Slot))
         IN /\ SequenceGaps(heard) = {}
            /\ Len(heard) = Len(capture)
            /\ \A i \in DOMAIN heard :
                 /\ heard[i].stream = NewStream /\ heard[i].flags.slot = Slot /\ heard[i].seq < SeqWrap
                 /\ heard[i].payload = capture[i].payload
                 /\ Voice(heard[i]) = Voice(capture[i]) /\ StreamEnd(heard[i]) = StreamEnd(capture[i])
  <1> DEFINE heard == Sent(Rewrite(capture, NewStream, Slot))
  <1>1. capture \in Seq(PacketsWith(Payloads))
    BY DEF Decodings, PacketsWith
  <1>2. /\ DOMAIN heard = 1 .. Len(capture) /\ Len(heard) = Len(capture) /\ SequenceGaps(heard) = {}
        /\ \A i \in 1 .. Len(capture) :
             /\ heard[i].stream = NewStream /\ heard[i].flags.slot = Slot /\ heard[i].seq < SeqWrap
             /\ heard[i].payload = capture[i].payload
             /\ heard[i].flags.frame = capture[i].flags.frame
             /\ heard[i].flags.dtype = capture[i].flags.dtype
    BY <1>1, Renumbered
  <1> HIDE DEF heard
  <1>3. QED BY <1>2 DEF heard, Voice, StreamEnd

(* A recorded stream is replayed as one stream without gaps, with the      *)
(* payloads of the recording in order, and voice and terminators where     *)
(* they were.                                                              *)
THEOREM Replays == Spec => []CaptureReplays
  <1>1. IInv => CaptureReplays
    <2> SUFFICES ASSUME IInv, NEW s \in Captures
                 PROVE  LET capture == Decoded(files[s].raw)
                            heard == Sent(Rewrite(OfStream(capture, s), NewStream, Slot))
                        IN /\ SequenceGaps(heard) = {}
                           /\ Len(heard) = Len(capture)
                           /\ \A i \in DOMAIN heard :
                                /\ heard[i].stream = NewStream /\ heard[i].flags.slot = Slot
                                /\ heard[i].seq < SeqWrap
                                /\ heard[i].payload = capture[i].payload
                                /\ Voice(heard[i]) = Voice(capture[i])
                                /\ StreamEnd(heard[i]) = StreamEnd(capture[i])
      BY DEF CaptureReplays
    <2> DEFINE capture == Decoded(files[s].raw)
    <2>1. capture \in Seq(Decodings) /\ OfStream(capture, s) = capture
      BY CaptureOf DEF Captures
    <2> HIDE DEF capture
    <2>2. LET heard == Sent(Rewrite(capture, NewStream, Slot))
          IN /\ SequenceGaps(heard) = {}
             /\ Len(heard) = Len(capture)
             /\ \A i \in DOMAIN heard :
                  /\ heard[i].stream = NewStream /\ heard[i].flags.slot = Slot /\ heard[i].seq < SeqWrap
                  /\ heard[i].payload = capture[i].payload
                  /\ Voice(heard[i]) = Voice(capture[i]) /\ StreamEnd(heard[i]) = StreamEnd(capture[i])
      BY <2>1, Replayed
    <2>3. QED BY <2>1, <2>2 DEF capture
  <1>2. QED BY <1>1, Inductive, PTL
-----------------------------------------------------------------------------
(* What iter_rtcp_packet_types does at one place, where types is the rest  *)
(* of the walk.                                                            *)
Walk(words, types, pos) ==
  IF pos > Len(words) \/ Version(words[pos]) \notin {2, 3}
  THEN {}
  ELSE {words[pos].second}
       \cup (IF pos + words[pos].rest + 1 > Len(words) THEN {} ELSE types[pos + words[pos].rest + 1])

LEMMA WalkSame ==
  ASSUME NEW words \in Seq(DatagramWords), NEW f, NEW g, NEW pos \in 1 .. Len(words) + 1,
         \A q \in pos + 1 .. Len(words) + 1 : f[q] = g[q]
  PROVE  Walk(words, f, pos) = Walk(words, g, pos)
  <1>1. Len(words) \in Nat
    OBVIOUS
  <1>2. CASE pos > Len(words)
    BY <1>2 DEF Walk
  <1>3. CASE ~(pos > Len(words))
    <2> DEFINE w == words[pos]
               next == pos + w.rest + 1
    <2>1. w.rest \in Nat
      <3>1. words[pos] \in DatagramWords
        BY <1>1, <1>3
      <3>2. QED BY <3>1 DEF DatagramWords
    <2> HIDE DEF w
    <2>2. ~(next > Len(words)) => f[next] = g[next]
      BY <1>1, <1>3, <2>1
    <2>3. QED BY <1>3, <2>2 DEF Walk, w
  <1>4. QED BY <1>2, <1>3

(* The walk always goes forward, so there is a function that it computes.  *)
LEMMA WalkExists ==
  ASSUME NEW words \in Seq(DatagramWords)
  PROVE  \E f : f = [pos \in 1 .. Len(words) + 1 |-> Walk(words, f, pos)]
  <1> DEFINE n == Len(words) + 1
             From(f, k) == DOMAIN f = 1 .. n /\ \A pos \in 1 .. n : pos > n - k => f[pos] = Walk(words, f, pos)
             Exists(k) == \E f : From(f, k)
             T == {k \in Nat : k <= n => Exists(k)}
  <1>1. n \in Nat /\ n >= 1
    OBVIOUS
  <1>2. 0 \in T
    <2> DEFINE f == [pos \in 1 .. n |-> {}]
    <2>1. From(f, 0)
      BY <1>1
    <2> HIDE DEF From, f
    <2>2. QED BY <2>1
  <1>3. ASSUME NEW k \in Nat, k \in T PROVE k + 1 \in T
    <2> SUFFICES ASSUME k + 1 <= n PROVE Exists(k + 1)
      <3> HIDE DEF Exists
      <3>1. QED OBVIOUS
    <2>1. Exists(k)
      <3> HIDE DEF Exists
      <3>1. QED BY <1>1, <1>3
    <2>2. PICK f : From(f, k)
      BY <2>1
    <2> DEFINE g == [f EXCEPT ![n - k] = Walk(words, f, n - k)]
    <2>3. n - k \in 1 .. n
      BY <1>1
    <2>4. /\ DOMAIN g = 1 .. n /\ g[n - k] = Walk(words, f, n - k)
          /\ \A pos \in 1 .. n : pos # n - k => g[pos] = f[pos]
      BY <2>2, <2>3
    <2> HIDE DEF g
    <2>5. ASSUME NEW pos \in 1 .. n, pos >= n - k PROVE Walk(words, g, pos) = Walk(words, f, pos)
      <3>1. \A q \in pos + 1 .. n : g[q] = f[q]
        BY <1>1, <2>4, <2>5
      <3>2. QED BY <2>5, <3>1, WalkSame
    <2>6. ASSUME NEW pos \in 1 .. n, pos > n - (k + 1) PROVE g[pos] = Walk(words, g, pos)
      <3>1. pos >= n - k
        BY <1>1, <2>6
      <3>2. CASE pos = n - k
        BY <2>4, <2>5, <3>1, <3>2
      <3>3. CASE pos # n - k
        BY <1>1, <2>2, <2>4, <2>5, <3>1, <3>3
      <3>4. QED BY <3>2, <3>3
    <2>7. From(g, k + 1)
      BY <2>4, <2>6
    <2> HIDE DEF From
    <2>8. QED BY <2>7
  <1>4. Exists(n)
    <2> HIDE DEF Exists
    <2>1. Nat \subseteq T
      <3> HIDE DEF T
      <3>1. QED BY <1>2, <1>3, Climb
    <2>2. QED BY <1>1, <2>1
  <1>5. PICK h : From(h, n)
    BY <1>4
  <1> DEFINE f == [pos \in 1 .. n |-> h[pos]]
  <1>6. \A pos \in 1 .. n : f[pos] = h[pos] /\ h[pos] = Walk(words, h, pos)
    BY <1>1, <1>5
  <1> HIDE DEF f
  <1>7. ASSUME NEW pos \in 1 .. n PROVE f[pos] = Walk(words, f, pos)
    <2>1. \A q \in pos + 1 .. n : f[q] = h[q]
      BY <1>1, <1>6
    <2>2. Walk(words, f, pos) = Walk(words, h, pos)
      BY <2>1, WalkSame
    <2>3. QED BY <1>6, <2>2
  <1>8. f = [pos \in 1 .. n |-> Walk(words, f, pos)]
    BY <1>7 DEF f
  <1>9. QED BY <1>8

LEMMA Walked ==
  ASSUME NEW words \in Seq(DatagramWords)
  PROVE  \E f : /\ RtcpTypes(words) = f[1]
                /\ \A pos \in 1 .. Len(words) + 1 : f[pos] = Walk(words, f, pos)
  <1> DEFINE f == CHOOSE f : f = [pos \in 1 .. Len(words) + 1 |-> Walk(words, f, pos)]
  <1>1. RtcpTypes(words) = f[1]
    BY DEF RtcpTypes, Walk
  <1>2. f = [pos \in 1 .. Len(words) + 1 |-> Walk(words, f, pos)]
    BY WalkExists
  <1> HIDE DEF f
  <1>3. \A pos \in 1 .. Len(words) + 1 : f[pos] = Walk(words, f, pos)
    BY <1>2
  <1>4. QED BY <1>1, <1>3

(* If the walk ends behind the first word, because it takes a length from  *)
(* it that is too large or because no other word looks like a header, it   *)
(* finds at most the type in that word.                                    *)
LEMMA HeadOnly ==
  ASSUME NEW words \in Seq(DatagramWords), words # <<>>,
         words[1].rest >= Len(words) - 1 \/ \A i \in 2 .. Len(words) : Version(words[i]) \notin {2, 3}
  PROVE  RtcpTypes(words) \subseteq {words[1].second}
  <1> DEFINE n == Len(words)
             next == 1 + words[1].rest + 1
  <1>1. n \in Nat /\ n >= 1 /\ words[1] \in DatagramWords
    OBVIOUS
  <1>2. words[1].rest \in Nat
    BY <1>1 DEF DatagramWords
  <1>3. PICK f : RtcpTypes(words) = f[1] /\ \A pos \in 1 .. n + 1 : f[pos] = Walk(words, f, pos)
    BY Walked
  <1>4. f[1] = Walk(words, f, 1)
    BY <1>1, <1>3
  <1>5. CASE next > n
    BY <1>1, <1>3, <1>4, <1>5 DEF Walk
  <1>6. CASE ~(next > n)
    <2>1. next \in 2 .. n /\ next \in 1 .. n + 1
      BY <1>1, <1>2, <1>6
    <2>2. Version(words[next]) \notin {2, 3}
      BY <1>1, <1>2, <1>6, <2>1
    <2>3. f[next] = {}
      BY <1>3, <2>1, <2>2 DEF Walk
    <2>4. Walk(words, f, 1) \subseteq {words[1].second}
      BY <1>1, <1>2, <1>6, <2>3 DEF Walk
    <2>5. QED BY <1>3, <1>4, <2>4
  <1>7. QED BY <1>5, <1>6

LEMMA Joined ==
  ASSUME NEW S, NEW a \in Seq(S), NEW b \in Seq(S)
  PROVE  /\ a \o b \in Seq(S) /\ Len(a \o b) = Len(a) + Len(b)
         /\ \A i \in 1 .. Len(a) : (a \o b)[i] = a[i]
         /\ \A i \in 1 .. Len(b) : (a \o b)[Len(a) + i] = b[i]
  OBVIOUS

(* A text without a word that is or contains a command is no goodbye, nor  *)
(* is the part of it that parse_echolink_text_packet returns.              *)
LEMMA QuietText ==
  ASSUME NEW t, NEW size, NEW likeRtp \in BOOLEAN, t.words \in Seq(Words), Quiet(t.words)
  PROVE  ~DisconnectCommand(t, size) /\ TextKind(ParsedText(t, likeRtp), t.length) # "disconnect"
  <1> DEFINE words == t.words
             parsed == ParsedText(t, likeRtp)
             loud == Commands \cup Tokens
  <1>1. words \in Seq(Words) /\ \A i \in 1 .. Len(words) : words[i] \notin loud
    BY DEF Quiet, Range
  <1>2. \A seq \in Seq(Words) :
          (\A i \in 1 .. Len(seq) : seq[i] \notin loud) => ~DisconnectText(seq, t.length) /\ ~HasToken(seq)
    <2>1. TAKE seq \in Seq(Words)
    <2>2. HAVE \A i \in 1 .. Len(seq) : seq[i] \notin loud
    <2>3. ~HasToken(seq)
      BY <2>2 DEF HasToken
    <2>4. ~(\E w \in Commands : seq = <<w>>)
      BY <2>2
    <2>5. seq # <<>> => seq[1] \notin Commands
      BY <2>2
    <2>6. QED BY <2>3, <2>4, <2>5 DEF DisconnectText, Commands
  <1>3. ~DisconnectCommand(t, size)
    BY <1>1, <1>2 DEF DisconnectCommand
  <1>4. MarkersIn(words) # {} => FromMarker(words) \in Seq(Words)
                                 /\ \A i \in 1 .. Len(FromMarker(words)) : FromMarker(words)[i] \notin loud
    <2> DEFINE marks == MarkersIn(words)
               first == CHOOSE i \in marks : \A j \in marks : i <= j
               n == Len(words)
               front == IF words[first] \in Markers THEN "Station" ELSE "station"
               rest == SubSeq(words, first + 1, n)
    <2> SUFFICES ASSUME marks # {}
                 PROVE  FromMarker(words) \in Seq(Words)
                        /\ \A i \in 1 .. Len(FromMarker(words)) : FromMarker(words)[i] \notin loud
      OBVIOUS
    <2>1. marks \subseteq 1 .. n - 1 /\ n \in Nat
      BY <1>1 DEF MarkersIn
    <2>2. first \in marks
      <3> HIDE DEF marks
      <3>1. marks \subseteq Nat
        BY <2>1
      <3>2. QED BY <3>1, Least
    <2>3. front \in Words \ loud
      BY DEF Words, Commands, Tokens, Markers, LowerMarkers
    <2>4. FromMarker(words) = <<front>> \o rest
      BY DEF FromMarker
    <2>5. first \in 1 .. n - 1
      BY <2>1, <2>2
    <2> HIDE DEF first, front, marks, loud, words
    <2>6. rest \in Seq(Words) /\ Len(rest) = n - first /\ \A i \in 1 .. Len(rest) : rest[i] \notin loud
      <3>1. /\ rest \in Seq(Words) /\ Len(rest) = n - first
            /\ \A i \in 1 .. n - first : rest[i] = words[first + i] /\ first + i \in 1 .. n
        BY <1>1, <2>1, <2>5
      <3>2. QED BY <1>1, <3>1
    <2> HIDE DEF rest
    <2>7. <<front>> \in Seq(Words) /\ Len(<<front>>) = 1 /\ <<front>>[1] = front
      BY <2>3
    <2>8. <<front>> \o rest \in Seq(Words)
      BY <2>6, <2>7
    <2>9. \A i \in 1 .. Len(<<front>> \o rest) : (<<front>> \o rest)[i] \notin loud
      BY <2>3, <2>6, <2>7, Joined
    <2>10. QED BY <2>4, <2>8, <2>9
  <1>5. parsed \in Seq(Words) /\ \A i \in 1 .. Len(parsed) : parsed[i] \notin loud
    <2>1. \/ parsed = words
          \/ parsed = <<>>
          \/ MarkersIn(words) # {} /\ parsed = FromMarker(words)
      BY DEF ParsedText
    <2> HIDE DEF parsed, words, loud
    <2>2. CASE parsed = <<>>
      BY <2>2
    <2>3. QED BY <1>1, <1>4, <2>1, <2>2
  <1>6. ~DisconnectText(parsed, t.length)
    BY <1>2, <1>5
  <1>7. QED BY <1>3, <1>6 DEF TextKind

(* A text that is a command is found in any datagram of up to 256 bytes.   *)
LEMMA LoneText ==
  ASSUME NEW t, t.words \in Seq(Words), Lone(t.words)
  PROVE  /\ DisconnectText(t.words, t.length)
         /\ \A size \in Nat : size <= 256 => DisconnectCommand(t, size)
  <1>1. t.words = <<t.words[1]>> /\ t.words[1] \in Commands
    BY DEF Lone
  <1>2. DisconnectText(t.words, t.length)
    BY <1>1 DEF DisconnectText
  <1>3. QED BY <1>2 DEF DisconnectCommand

LEMMA VoiceType ==
  ASSUME input \in VoiceDatagrams
  PROVE  /\ VoiceWords \in Seq(DatagramWords) /\ Len(VoiceWords) >= 3
         /\ VoiceWords[1].first = input.first /\ VoiceWords[1].rest = input.seq
         /\ VoiceWords[1].second \in {3, 131}
  <1> DEFINE w == Word(input.first, IF input.marker THEN 128 + RTP_PAYLOAD_GSM ELSE RTP_PAYLOAD_GSM,
                       input.seq % (SeqMax + 1))
             head == <<w, input.timestamp, input.ssrc>>
  <1>1. /\ input.first \in {128, 192} /\ input.seq \in 0 .. SeqMax
        /\ input.timestamp \in DatagramWords /\ input.ssrc \in DatagramWords
        /\ input.payload \in Seq(DatagramWords)
    BY DEF VoiceDatagrams
  <1>2. input.seq % (SeqMax + 1) = input.seq
    BY <1>1, SeqAssumption, SMTT(20)
  <1>3. w.first = input.first /\ w.rest = input.seq /\ w.second \in {3, 131}
    BY <1>2 DEF Word, RTP_PAYLOAD_GSM
  <1>4. w \in DatagramWords
    BY <1>1, <1>2, SeqAssumption DEF Word, DatagramWords, Byte, RTP_PAYLOAD_GSM
  <1> HIDE DEF w
  <1>5. head \in Seq(DatagramWords) /\ Len(head) = 3 /\ head[1] = w
    BY <1>1, <1>4
  <1>6. VoiceWords = head \o input.payload
    BY DEF VoiceWords, GsmRtp, w
  <1> HIDE DEF head
  <1>7. /\ VoiceWords \in Seq(DatagramWords) /\ VoiceWords[1] = w
        /\ Len(VoiceWords) = 3 + Len(input.payload) /\ Len(input.payload) \in Nat
    <2> DEFINE payload == input.payload
    <2>1. payload \in Seq(DatagramWords)
      BY <1>1
    <2> HIDE DEF payload
    <2>2. /\ head \o payload \in Seq(DatagramWords) /\ (head \o payload)[1] = head[1]
          /\ Len(head \o payload) = 3 + Len(payload) /\ Len(payload) \in Nat
      <3>1. 1 \in 1 .. Len(head) /\ Len(payload) \in Nat
        BY <1>5, <2>1
      <3>2. /\ head \o payload \in Seq(DatagramWords)
            /\ Len(head \o payload) = Len(head) + Len(payload)
            /\ \A i \in 1 .. Len(head) : (head \o payload)[i] = head[i]
        BY <1>5, <2>1, Joined
      <3>3. QED BY <1>5, <3>1, <3>2
    <2>3. QED BY <1>5, <1>6, <2>2 DEF payload
  <1>8. QED BY <1>3, <1>7

LEMMA VoiceKept ==
  ASSUME input \in VoiceDatagrams, input.seq >= Len(VoiceWords) - 1,
         input.first = 128 \/ Quiet(input.text.words)
  PROVE  AudioKind(VoiceWords, input.text) = "voice"
  <1> DEFINE words == VoiceWords
             t == input.text
  <1>1. /\ words \in Seq(DatagramWords) /\ Len(words) >= 3
        /\ words[1].first = input.first /\ input.first \in {128, 192}
        /\ words[1].rest = input.seq /\ words[1].second \in {3, 131}
    BY VoiceType DEF VoiceDatagrams
  <1>2. t.words \in Seq(Words)
    BY DEF VoiceDatagrams, TextsIn
  <1> HIDE DEF words, t
  <1>3. RtcpTypes(words) \subseteq {words[1].second}
    <2>1. words[1].rest >= Len(words) - 1 /\ words # <<>>
      BY <1>1 DEF words
    <2>2. QED BY <1>1, <2>1, HeadOnly
  <1>4. ~IsBye(words)
    BY <1>1, <1>3 DEF IsBye, RTCP_BYE
  <1>5. IsProbableRtp(words)
    BY <1>1 DEF IsProbableRtp, Version
  <1>6. words[1].second % 128 = RTP_PAYLOAD_GSM
    <2>1. 3 % 128 = 3 /\ 131 % 128 = 3
      OBVIOUS
    <2>2. QED BY <1>1, <2>1 DEF RTP_PAYLOAD_GSM
  <1>7. ParsedText(t, IsProbableRtp(words)) = <<>>
    BY <1>5 DEF ParsedText
  <1>8. NormalVoice(words) \/ ~DisconnectCommand(t, Size(words))
    <2>1. CASE input.first = 128
      BY <1>1, <1>6, <2>1 DEF NormalVoice, Version
    <2>2. CASE Quiet(input.text.words)
      <3>1. Quiet(t.words)
        BY <2>2 DEF t
      <3>2. QED BY <1>2, <3>1, QuietText
    <2>3. QED BY <2>1, <2>2
  <1>9. AudioKind(words, t) = "voice"
    BY <1>4, <1>5, <1>6, <1>7, <1>8 DEF AudioKind
  <1>10. QED BY <1>9 DEF words, t

(* The words of a text behind its head: none of them looks like a header.  *)
LEMMA TextType ==
  ASSUME input \in TextDatagrams
  PROVE  ~IsBye(TextWords) /\ ~NormalVoice(TextWords)
  <1>1. /\ input.head \in DatagramWords
        /\ input.tail \in Seq([first : 0 .. 127, second : Byte, rest : Nat])
        /\ input.head.second # RTCP_BYE
        /\ ~(Version(input.head) = 2 /\ input.head.second % 128 = RTP_PAYLOAD_GSM)
    BY DEF TextDatagrams
  <1>2. /\ TextWords \in Seq(DatagramWords) /\ TextWords # <<>> /\ TextWords[1] = input.head
        /\ \A i \in 2 .. Len(TextWords) : TextWords[i] \in [first : 0 .. 127, second : Byte, rest : Nat]
    <2> DEFINE low == [first : 0 .. 127, second : Byte, rest : Nat]
               tail == input.tail
               head == input.head
    <2>1. \A w \in low : w \in DatagramWords
      BY DEF DatagramWords, Byte
    <2>2. tail \in Seq(low) /\ head \in DatagramWords
      BY <1>1
    <2> HIDE DEF low, tail, head
    <2>3. tail \in Seq(DatagramWords)
      BY <2>1, <2>2
    <2>4. /\ <<head>> \o tail \in Seq(DatagramWords) /\ (<<head>> \o tail)[1] = head
          /\ Len(<<head>> \o tail) = 1 + Len(tail) /\ Len(tail) \in Nat
          /\ \A i \in 2 .. 1 + Len(tail) : (<<head>> \o tail)[i] = tail[i - 1] /\ i - 1 \in 1 .. Len(tail)
      BY <2>2, <2>3
    <2>5. TextWords = <<head>> \o tail
      BY DEF TextWords, head, tail
    <2>6. \A i \in 1 .. Len(tail) : tail[i] \in low
      BY <2>2
    <2>7. QED BY <2>4, <2>5, <2>6 DEF head, low
  <1>3. \A i \in 2 .. Len(TextWords) : Version(TextWords[i]) \notin {2, 3}
    <2>1. \A b \in 0 .. 127 : b \div 64 \notin {2, 3}
      OBVIOUS
    <2>2. QED BY <1>2, <2>1 DEF Version
  <1>4. RtcpTypes(TextWords) \subseteq {input.head.second}
    BY <1>2, <1>3, HeadOnly
  <1>5. QED BY <1>1, <1>2, <1>4 DEF IsBye, NormalVoice

(* A station block is returned as a text that names its station.           *)
LEMMA StationText ==
  ASSUME NEW t, t.words \in Seq(Words), Len(t.words) > 1, t.words[1] \in {"Station", "station"},
         ~HasToken(t.words)
  PROVE  LET parsed == ParsedText(t, FALSE)
         IN parsed # <<>> /\ TextKind(parsed, t.length) = "identity"
  <1> DEFINE words == t.words
             parsed == ParsedText(t, FALSE)
             n == Len(words)
  <1>1. words \in Seq(Words) /\ n \in Nat /\ n > 1 /\ words[1] \in {"Station", "station"} /\ words # <<>>
    OBVIOUS
  <1>2. ASSUME NEW seq, Len(seq) > 1, seq[1] \in {"Station", "station"}
        PROVE  seq # <<>> /\ TextKind(seq, t.length) = "identity"
    <2>1. ASSUME NEW w, seq = <<w>> PROVE FALSE
      <3>1. Len(<<w>>) = 1
        OBVIOUS
      <3>2. QED BY <1>2, <2>1, <3>1
    <2>2. ~DisconnectText(seq, t.length)
      BY <1>2, <2>1 DEF DisconnectText
    <2>3. seq # <<>>
      BY <1>2
    <2>4. QED BY <1>2, <2>2, <2>3 DEF TextKind, NamesStation
  <1>3. CASE t.frame = "ndata"
    <2>1. parsed = words
      BY <1>1, <1>3 DEF ParsedText
    <2> HIDE DEF parsed, words
    <2>2. QED BY <1>1, <1>2, <2>1 DEF parsed, words
  <1>4. CASE t.frame # "ndata"
    <2> DEFINE marks == MarkersIn(words)
               first == CHOOSE i \in marks : \A j \in marks : i <= j
               front == IF words[first] \in Markers THEN "Station" ELSE "station"
               rest == SubSeq(words, first + 1, n)
    <2>1. marks # {} /\ marks \subseteq 1 .. n - 1
      <3>1. 1 \in 1 .. n - 1 /\ words[1] \in Markers \cup LowerMarkers
        BY <1>1 DEF Markers, LowerMarkers
      <3> HIDE DEF words
      <3>2. QED BY <3>1 DEF MarkersIn
    <2>2. parsed = <<front>> \o rest
      BY <1>1, <1>4, <2>1 DEF ParsedText, FromMarker
    <2>3. first \in 1 .. n - 1
      <3> HIDE DEF marks
      <3>1. marks \subseteq Nat
        BY <2>1
      <3>2. first \in marks
        BY <2>1, <3>1, Least
      <3>3. QED BY <2>1, <3>2
    <2>4. front \in {"Station", "station"}
      OBVIOUS
    <2>8. {"Station", "station"} \subseteq Words
      BY DEF Words, Markers, LowerMarkers
    <2> HIDE DEF marks, first, front, words, parsed
    <2>5. rest \in Seq(Words) /\ Len(rest) = n - first
      BY <1>1, <2>3
    <2> HIDE DEF rest
    <2>6. Len(<<front>> \o rest) > 1 /\ (<<front>> \o rest)[1] = front
      <3>1. <<front>> \in Seq(Words) /\ Len(<<front>>) = 1 /\ <<front>>[1] = front
        BY <2>4, <2>8
      <3>2. /\ Len(<<front>> \o rest) = Len(<<front>>) + Len(rest)
            /\ \A i \in 1 .. Len(<<front>>) : (<<front>> \o rest)[i] = <<front>>[i]
        BY <2>5, <3>1, Joined
      <3>3. QED BY <1>1, <2>3, <2>5, <3>1, <3>2
    <2>9. Len(parsed) > 1 /\ parsed[1] \in {"Station", "station"}
      BY <2>2, <2>4, <2>6
    <2>7. QED BY <1>2, <2>9 DEF parsed
  <1>5. QED BY <1>3, <1>4

LEMMA TextsRead ==
  ASSUME input \in TextDatagrams
  PROVE  LET words == input.text.words
             kinds == {AudioKind(TextWords, input.text), ControlKind(TextWords, input.text)}
             likeRtp == IsProbableRtp(TextWords)
             station == Len(words) > 1 /\ words[1] \in {"Station", "station"} /\ ~HasToken(words)
         IN /\ Lone(words) /\ (~likeRtp \/ Size(TextWords) <= 256) => kinds = {"disconnect"}
            /\ Quiet(words) => "disconnect" \notin kinds
            /\ station /\ ~likeRtp => kinds = {"identity"}
  <1> DEFINE t == input.text
             words == t.words
             size == Size(TextWords)
             likeRtp == IsProbableRtp(TextWords)
             parsed == ParsedText(t, likeRtp)
             audio == AudioKind(TextWords, t)
             control == ControlKind(TextWords, t)
             station == Len(words) > 1 /\ words[1] \in {"Station", "station"} /\ ~HasToken(words)
  <1>1. ~IsBye(TextWords) /\ ~NormalVoice(TextWords)
    BY TextType
  <1>2. words \in Seq(Words) /\ t.length \in Nat /\ t.frame \in Frames
    BY DEF TextDatagrams, TextsIn
  <1>9. size \in Nat /\ likeRtp \in BOOLEAN
    <2>1. TextWords \in Seq(DatagramWords)
      <3> DEFINE low == [first : 0 .. 127, second : Byte, rest : Nat]
      <3>1. input.head \in DatagramWords /\ input.tail \in Seq(low)
        BY DEF TextDatagrams
      <3>2. \A w \in low : w \in DatagramWords
        BY DEF DatagramWords, Byte
      <3> HIDE DEF low
      <3>3. input.tail \in Seq(DatagramWords) /\ <<input.head>> \in Seq(DatagramWords)
        BY <3>1, <3>2
      <3>4. QED BY <3>3 DEF TextWords
    <2>2. Len(TextWords) \in Nat
      BY <2>1
    <2>3. QED BY <2>2 DEF Size, IsProbableRtp
  <1>3. DisconnectCommand(t, size) => audio = "disconnect" /\ control = "disconnect"
    BY <1>1 DEF AudioKind, ControlKind
  <1>4. /\ ~DisconnectCommand(t, size) /\ parsed # <<>> =>
             audio = TextKind(parsed, t.length) /\ control = TextKind(parsed, t.length)
        /\ ~DisconnectCommand(t, size) /\ parsed = <<>> => audio # "disconnect" /\ control # "disconnect"
    BY <1>1 DEF AudioKind, ControlKind
  <1> HIDE DEF audio, control, t, likeRtp, size
  <1>5. ASSUME Lone(words), ~likeRtp \/ size <= 256
        PROVE  audio = "disconnect" /\ control = "disconnect"
    <2>1. /\ DisconnectText(words, t.length)
          /\ size <= 256 => DisconnectCommand(t, size)
      BY <1>2, <1>5, <1>9, LoneText
    <2>2. CASE size <= 256
      BY <1>3, <2>1, <2>2
    <2>3. CASE ~(size <= 256)
      <3>1. ~likeRtp /\ ~DisconnectCommand(t, size)
        BY <1>5, <2>3 DEF DisconnectCommand
      <3>2. Len(words) = 1 /\ words # <<>> /\ MarkersIn(words) = {}
        BY <1>5 DEF Lone, MarkersIn
      <3>3. parsed = words
        BY <2>1, <3>1, <3>2 DEF ParsedText
      <3>4. TextKind(words, t.length) = "disconnect"
        BY <2>1 DEF TextKind
      <3> HIDE DEF parsed, words
      <3>5. QED BY <1>4, <3>1, <3>2, <3>3, <3>4
    <2>4. QED BY <2>2, <2>3
  <1>6. ASSUME Quiet(words)
        PROVE  audio # "disconnect" /\ control # "disconnect"
    <2>1. ~DisconnectCommand(t, size) /\ TextKind(parsed, t.length) # "disconnect"
      BY <1>2, <1>6, <1>9, QuietText
    <2> HIDE DEF parsed
    <2>2. QED BY <1>4, <2>1
  <1>7. ASSUME station, ~likeRtp
        PROVE  audio = "identity" /\ control = "identity"
    <2>1. parsed # <<>> /\ TextKind(parsed, t.length) = "identity"
      <3>1. likeRtp = FALSE
        BY <1>7, <1>9
      <3>2. LET p == ParsedText(t, FALSE) IN p # <<>> /\ TextKind(p, t.length) = "identity"
        BY <1>2, <1>7, StationText
      <3>3. QED BY <3>1, <3>2
    <2>2. ~DisconnectCommand(t, size)
      <3>1. ~(\E w \in Commands : words = <<w>>)
        <4>1. ASSUME NEW w, words = <<w>> PROVE FALSE
          <5>1. Len(<<w>>) = 1
            OBVIOUS
          <5> HIDE DEF words
          <5>2. QED BY <1>7, <4>1, <5>1
        <4>2. QED BY <4>1
      <3>2. ~DisconnectText(words, t.length)
        BY <1>7, <3>1 DEF DisconnectText
      <3>3. QED BY <1>7, <3>2 DEF DisconnectCommand
    <2> HIDE DEF parsed
    <2>3. QED BY <1>4, <2>1, <2>2
  <1>8. QED BY <1>5, <1>6, <1>7 DEF words, audio, control, likeRtp, t, size
-----------------------------------------------------------------------------
LEMMA EmptyJoined ==
  ASSUME NEW S, NEW a \in Seq(S)
  PROVE  <<>> \o a = a
  OBVIOUS

(* FlattenSeq joins its sequences one after the other.                     *)
LEMMA FlattenTrace ==
  ASSUME NEW S, NEW seqs \in Seq(Seq(S))
  PROVE  \E h \in [0 .. Len(seqs) -> Seq(S)] :
           /\ h[0] = <<>>
           /\ \A i \in 0 .. Len(seqs) - 1 : h[i + 1] = h[i] \o seqs[i + 1]
           /\ FlattenSeq(seqs) = h[Len(seqs)]
  <1> DEFINE n == Len(seqs)
             Body(f) == [i \in 1 .. n |-> IF i = 1 THEN seqs[i] ELSE f[i - 1] \o seqs[i]]
             flatten == CHOOSE f : f = Body(f)
             Joins(h, k) == h[0] = <<>> /\ \A i \in 0 .. k - 1 : h[i + 1] = h[i] \o seqs[i + 1]
             Exists(k) == \E h \in [0 .. k -> Seq(S)] : Joins(h, k)
             T == {k \in Nat : k <= n => Exists(k)}
  <1>1. n \in Nat /\ \A i \in 1 .. n : seqs[i] \in Seq(S)
    OBVIOUS
  <1> HIDE DEF n
  <1>2. 0 \in T
    <2> DEFINE h == [i \in 0 .. 0 |-> <<>>]
    <2>1. h \in [0 .. 0 -> Seq(S)] /\ Joins(h, 0)
      OBVIOUS
    <2> HIDE DEF h, Joins
    <2>2. QED BY <2>1
  <1>3. ASSUME NEW k \in Nat, k \in T PROVE k + 1 \in T
    <2> SUFFICES ASSUME k + 1 <= n PROVE Exists(k + 1)
      <3> HIDE DEF Exists
      <3>1. QED OBVIOUS
    <2>1. Exists(k)
      <3> HIDE DEF Exists
      <3>1. QED BY <1>1, <1>3
    <2>2. PICK h \in [0 .. k -> Seq(S)] : Joins(h, k)
      BY <2>1
    <2> DEFINE g == [i \in 0 .. k + 1 |-> IF i = k + 1 THEN h[k] \o seqs[k + 1] ELSE h[i]]
    <2>3. h[k] \o seqs[k + 1] \in Seq(S)
      <3>1. h[k] \in Seq(S) /\ seqs[k + 1] \in Seq(S)
        BY <1>1, <2>2
      <3>2. QED BY <3>1
    <2>4. g \in [0 .. k + 1 -> Seq(S)] /\ g[k + 1] = h[k] \o seqs[k + 1] /\ \A i \in 0 .. k : g[i] = h[i]
      <3> DEFINE new == h[k] \o seqs[k + 1]
      <3>1. new \in Seq(S)
        BY <2>3
      <3> HIDE DEF new
      <3>2. [i \in 0 .. k + 1 |-> IF i = k + 1 THEN new ELSE h[i]] \in [0 .. k + 1 -> Seq(S)]
        BY <2>2, <3>1
      <3>3. g = [i \in 0 .. k + 1 |-> IF i = k + 1 THEN new ELSE h[i]]
        BY DEF new
      <3> HIDE DEF g
      <3>4. g[k + 1] = new /\ \A i \in 0 .. k : g[i] = h[i]
        BY <3>3
      <3>5. QED BY <3>2, <3>3, <3>4 DEF new
    <2> HIDE DEF g
    <2>5. Joins(g, k + 1)
      <3>1. g[0] = <<>>
        BY <2>2, <2>4
      <3>2. ASSUME NEW i \in 0 .. (k + 1) - 1 PROVE g[i + 1] = g[i] \o seqs[i + 1]
        <4>1. g[i] = h[i]
          BY <2>4
        <4>2. CASE i = k
          BY <2>4, <4>1, <4>2
        <4>3. CASE i # k
          <5>1. i \in 0 .. k - 1 /\ i + 1 \in 0 .. k
            BY <4>3
          <5>2. g[i + 1] = h[i + 1] /\ h[i + 1] = h[i] \o seqs[i + 1]
            BY <2>2, <2>4, <5>1
          <5>3. QED BY <4>1, <5>2
        <4>4. QED BY <4>2, <4>3
      <3>3. QED BY <3>1, <3>2
    <2> HIDE DEF Joins
    <2>6. QED BY <2>4, <2>5
  <1>4. Exists(n)
    <2> HIDE DEF Exists
    <2>1. Nat \subseteq T
      <3> HIDE DEF T
      <3>1. QED BY <1>2, <1>3, Climb
    <2>2. QED BY <1>1, <2>1
  <1>5. PICK h \in [0 .. n -> Seq(S)] : Joins(h, n)
    BY <1>4
  <1>6. n = 0 => FlattenSeq(seqs) = <<>>
    BY DEF FlattenSeq, n
  <1>7. n # 0 => FlattenSeq(seqs) = flatten[n]
    BY DEF FlattenSeq, n
  <1>8. flatten = Body(flatten)
    <2> DEFINE f == [i \in 1 .. n |-> h[i]]
    <2>0. \A i \in 1 .. n : f[i] = h[i]
      OBVIOUS
    <2> HIDE DEF f
    <2>1. ASSUME NEW i \in 1 .. n PROVE f[i] = IF i = 1 THEN seqs[i] ELSE f[i - 1] \o seqs[i]
      <3>1. h[i] = h[i - 1] \o seqs[i] /\ h[0] = <<>>
        <4>1. i - 1 \in 0 .. n - 1 /\ (i - 1) + 1 = i
          BY <1>1
        <4>2. QED BY <1>5, <4>1
      <3>2. CASE i = 1
        <4>1. h[1] = <<>> \o seqs[1] /\ seqs[1] \in Seq(S)
          <5>1. h[1] = h[1 - 1] \o seqs[1] /\ 1 - 1 = 0 /\ seqs[1] \in Seq(S)
            BY <1>1, <3>1, <3>2
          <5>2. QED BY <3>1, <5>1
        <4>2. <<>> \o seqs[1] = seqs[1]
          BY <4>1, EmptyJoined
        <4>3. f[1] = seqs[1]
          BY <2>0, <3>2, <4>1, <4>2
        <4>4. QED BY <3>2, <4>3
      <3>3. CASE i # 1
        <4>1. i - 1 \in 1 .. n
          BY <1>1, <3>3
        <4>2. f[i] = f[i - 1] \o seqs[i]
          BY <2>0, <3>1, <4>1
        <4>3. QED BY <3>3, <4>2
      <3>4. QED BY <3>2, <3>3
    <2>2. f = Body(f)
      BY <2>1 DEF f
    <2> HIDE DEF f
    <2>3. QED BY <2>2
  <1> HIDE DEF flatten
  <1>9. \A i \in 1 .. n : flatten[i] = h[i]
    <2> DEFINE U == {k \in Nat : 1 <= k /\ k <= n => flatten[k] = h[k]}
    <2>1. 0 \in U
      OBVIOUS
    <2>2. ASSUME NEW k \in Nat, k \in U PROVE k + 1 \in U
      <3> SUFFICES ASSUME k + 1 <= n PROVE flatten[k + 1] = h[k + 1]
        OBVIOUS
      <3>1. k \in 0 .. n - 1 /\ k + 1 \in 1 .. n /\ (k + 1) - 1 = k
        BY <1>1
      <3>2. h[k + 1] = h[k] \o seqs[k + 1] /\ h[0] = <<>>
        BY <1>5, <3>1
      <3>3. flatten[k + 1] = IF k + 1 = 1 THEN seqs[k + 1] ELSE flatten[k] \o seqs[k + 1]
        BY <1>8, <3>1
      <3>4. CASE k = 0
        <4>1. k + 1 = 1 /\ seqs[1] \in Seq(S)
          BY <1>1, <3>1, <3>4
        <4>2. <<>> \o seqs[1] = seqs[1]
          BY <4>1, EmptyJoined
        <4>3. h[1] = <<>> \o seqs[1]
          BY <3>2, <3>4, <4>1
        <4>4. flatten[1] = seqs[1]
          BY <3>3, <4>1
        <4>5. QED BY <4>1, <4>2, <4>3, <4>4
      <3>5. CASE k # 0
        <4>1. flatten[k] = h[k]
          BY <1>1, <2>2, <3>1, <3>5
        <4>2. k + 1 # 1
          BY <3>5
        <4>3. flatten[k + 1] = flatten[k] \o seqs[k + 1]
          BY <3>3, <4>2
        <4>4. QED BY <3>2, <4>1, <4>3
      <3>6. QED BY <3>4, <3>5
    <2> HIDE DEF U
    <2>3. Nat \subseteq U
      BY <2>1, <2>2, Climb
    <2>4. QED BY <2>3 DEF U
  <1>10. FlattenSeq(seqs) = h[n]
    <2>1. CASE n = 0
      BY <1>5, <1>6, <2>1
    <2>2. CASE n # 0
      BY <1>1, <1>7, <1>9, <2>2
    <2>3. QED BY <2>1, <2>2
  <1>11. QED BY <1>5, <1>10 DEF n

(* Each of the joined sequences stays where it was put.                    *)
LEMMA StaysJoined ==
  ASSUME NEW S, NEW n \in Nat, NEW seqs \in [1 .. n -> Seq(S)], NEW h \in [0 .. n -> Seq(S)],
         \A i \in 0 .. n - 1 : h[i + 1] = h[i] \o seqs[i + 1]
  PROVE  \A j \in 0 .. n : /\ Len(h[j]) <= Len(h[n])
                           /\ \A i \in 1 .. Len(h[j]) : h[n][i] = h[j][i]
  <1> DEFINE Prefix(j, k) == Len(h[j]) <= Len(h[k]) /\ \A i \in 1 .. Len(h[j]) : h[k][i] = h[j][i]
             T == {k \in Nat : k <= n => \A j \in 0 .. k : Prefix(j, k)}
  <1>1. 0 \in T
    <2>1. \A j \in 0 .. 0 : j = 0 /\ Len(h[0]) \in Nat
      OBVIOUS
    <2>2. QED BY <2>1
  <1>2. ASSUME NEW k \in Nat, k \in T PROVE k + 1 \in T
    <2> SUFFICES ASSUME k + 1 <= n, NEW j \in 0 .. k + 1 PROVE Prefix(j, k + 1)
      <3> HIDE DEF Prefix
      <3>1. QED OBVIOUS
    <2>1. k \in 0 .. n /\ k + 1 \in 0 .. n /\ k + 1 \in 1 .. n /\ k \in 0 .. n - 1 /\ j \in 0 .. n
      OBVIOUS
    <2>2. /\ h[k] \in Seq(S) /\ h[k + 1] \in Seq(S) /\ h[j] \in Seq(S) /\ seqs[k + 1] \in Seq(S)
          /\ h[k + 1] = h[k] \o seqs[k + 1]
      BY <2>1
    <2> DEFINE old == h[k]
               added == seqs[k + 1]
               new == h[k + 1]
               piece == h[j]
    <2>3. old \in Seq(S) /\ new \in Seq(S) /\ piece \in Seq(S) /\ added \in Seq(S) /\ new = old \o added
      BY <2>2
    <2>4. j = k + 1 => piece = new
      OBVIOUS
    <2>5. j # k + 1 => Len(piece) <= Len(old) /\ \A i \in 1 .. Len(piece) : old[i] = piece[i]
      <3>1. j # k + 1 => j \in 0 .. k /\ k <= n
        BY <2>1
      <3>2. j # k + 1 => Prefix(j, k)
        <4> HIDE DEF Prefix
        <4>1. QED BY <1>2, <3>1
      <3>3. QED BY <3>2
    <2> HIDE DEF old, added, new, piece
    <2>6. Len(old) \in Nat /\ Len(new) \in Nat /\ Len(piece) \in Nat /\ Len(added) \in Nat
      BY <2>3
    <2>7. Len(new) = Len(old) + Len(added) /\ \A i \in 1 .. Len(old) : new[i] = old[i]
      BY <2>3, Joined
    <2>8. Len(piece) <= Len(new) /\ \A i \in 1 .. Len(piece) : new[i] = piece[i]
      BY <2>4, <2>5, <2>6, <2>7
    <2>9. QED BY <2>8 DEF piece, new
  <1>3. \A j \in 0 .. n : Prefix(j, n)
    <2> HIDE DEF Prefix
    <2>1. Nat \subseteq T
      <3> HIDE DEF T
      <3>1. QED BY <1>1, <1>2, Climb
    <2>2. QED BY <2>1
  <1>4. QED BY <1>3

(* The walk over a datagram of RTCP packets finds the type of each.        *)
LEMMA EveryType ==
  ASSUME NEW packets \in Seq([type : Byte, body : Seq(DatagramWords)]), NEW zeros \in Nat
  PROVE  LET words == Compound(packets) \o [i \in 1 .. zeros |-> Zero]
         IN RtcpTypes(words) = {packets[i].type : i \in 1 .. Len(packets)}
  <1> DEFINE m == Len(packets)
             P(i) == RtcpPacket(packets[i].type, packets[i].body)
             seqs == [i \in 1 .. m |-> P(i)]
             pad == [i \in 1 .. zeros |-> Zero]
             whole == Compound(packets)
             words == whole \o pad
  <1>1. m \in Nat /\ \A i \in 1 .. m : packets[i].type \in Byte /\ packets[i].body \in Seq(DatagramWords)
    <2> DEFINE Kind == [type : Byte, body : Seq(DatagramWords)]
    <2>1. packets \in Seq(Kind)
      OBVIOUS
    <2>2. \A p \in Kind : p.type \in Byte /\ p.body \in Seq(DatagramWords)
      OBVIOUS
    <2> HIDE DEF Kind
    <2>3. QED BY <2>1, <2>2
  <1>2. ASSUME NEW i \in 1 .. m
        PROVE  /\ P(i) \in Seq(DatagramWords) /\ Len(P(i)) = 1 + Len(packets[i].body)
               /\ P(i)[1] = Word(129, packets[i].type, Len(packets[i].body))
               /\ Len(packets[i].body) \in Nat
    <2> DEFINE body == packets[i].body
               w == Word(129, packets[i].type, Len(body))
    <2>1. body \in Seq(DatagramWords) /\ Len(body) \in Nat /\ packets[i].type \in Byte
      BY <1>1
    <2>2. w \in DatagramWords
      BY <2>1 DEF Word, DatagramWords, Byte
    <2>3. P(i) = <<w>> \o body
      BY DEF RtcpPacket
    <2> HIDE DEF body, w
    <2>4. /\ <<w>> \o body \in Seq(DatagramWords) /\ Len(<<w>> \o body) = 1 + Len(body)
          /\ (<<w>> \o body)[1] = w
      BY <2>1, <2>2
    <2>5. QED BY <2>1, <2>3, <2>4 DEF body, w
  <1> HIDE DEF P
  <1>3. seqs \in Seq(Seq(DatagramWords)) /\ Len(seqs) = m /\ seqs \in [1 .. m -> Seq(DatagramWords)]
    BY <1>1, <1>2
  <1>4. whole = FlattenSeq(seqs)
    <2>1. [i \in DOMAIN packets |-> RtcpPacket(packets[i].type, packets[i].body)] = seqs
      <3>1. DOMAIN packets = 1 .. m
        BY <1>1
      <3>2. QED BY <3>1 DEF P
    <2>2. QED BY <2>1 DEF Compound
  <1> HIDE DEF seqs, whole, m
  <1>5. PICK h \in [0 .. m -> Seq(DatagramWords)] :
           /\ h[0] = <<>>
           /\ \A i \in 0 .. m - 1 : h[i + 1] = h[i] \o seqs[i + 1]
           /\ whole = h[m]
    BY <1>3, <1>4, FlattenTrace
  <1>6. \A j \in 0 .. m : /\ h[j] \in Seq(DatagramWords) /\ Len(h[j]) \in Nat
                          /\ Len(h[j]) <= Len(whole) /\ \A i \in 1 .. Len(h[j]) : whole[i] = h[j][i]
    <2>1. \A i \in 0 .. m - 1 : h[i + 1] = h[i] \o seqs[i + 1]
      BY <1>5
    <2>2. \A j \in 0 .. m : /\ Len(h[j]) <= Len(h[m])
                            /\ \A i \in 1 .. Len(h[j]) : h[m][i] = h[j][i]
      <3> HIDE DEF words, pad
      <3>1. h \in [0 .. m -> Seq(DatagramWords)] /\ seqs \in [1 .. m -> Seq(DatagramWords)] /\ m \in Nat
        BY <1>1, <1>3
      <3>2. QED BY <2>1, <3>1, StaysJoined, ZenonT(30)
    <2>3. QED BY <1>5, <2>2
  <1>7. /\ words \in Seq(DatagramWords) /\ Len(words) = Len(whole) + zeros /\ Len(whole) \in Nat
        /\ \A i \in 1 .. Len(whole) : words[i] = whole[i]
        /\ \A i \in 1 .. zeros : words[Len(whole) + i] = Zero
    <2>1. pad \in Seq(DatagramWords) /\ Len(pad) = zeros /\ \A i \in 1 .. zeros : pad[i] = Zero
      BY DEF Zero, Word, DatagramWords, Byte
    <2>2. whole \in Seq(DatagramWords) /\ Len(whole) \in Nat
      BY <1>1, <1>5
    <2> HIDE DEF pad
    <2>3. /\ whole \o pad \in Seq(DatagramWords) /\ Len(whole \o pad) = Len(whole) + Len(pad)
          /\ \A i \in 1 .. Len(whole) : (whole \o pad)[i] = whole[i]
          /\ \A i \in 1 .. Len(pad) : (whole \o pad)[Len(whole) + i] = pad[i]
      <3> DEFINE a == whole
                 b == pad
      <3>1. a \in Seq(DatagramWords) /\ b \in Seq(DatagramWords)
        BY <2>1, <2>2
      <3> HIDE DEF a, b, words
      <3>2. /\ a \o b \in Seq(DatagramWords) /\ Len(a \o b) = Len(a) + Len(b)
            /\ \A i \in 1 .. Len(a) : (a \o b)[i] = a[i]
            /\ \A i \in 1 .. Len(b) : (a \o b)[Len(a) + i] = b[i]
        BY <3>1
      <3>3. QED BY <3>2 DEF a, b
    <2>4. QED BY <2>1, <2>2, <2>3
  <1> HIDE DEF words
  <1>8. PICK f : RtcpTypes(words) = f[1] /\ \A pos \in 1 .. Len(words) + 1 : f[pos] = Walk(words, f, pos)
    BY <1>7, Walked
  <1> DEFINE at(j) == Len(h[j - 1]) + 1
  <1>9. ASSUME NEW j \in 1 .. m
        PROVE  /\ at(j) \in 1 .. Len(words) /\ at(j + 1) \in 1 .. Len(words) + 1
               /\ words[at(j)] = Word(129, packets[j].type, Len(packets[j].body))
               /\ at(j) + Len(packets[j].body) + 1 = at(j + 1)
    <2> DEFINE a == h[j - 1]
               b == seqs[j]
               body == packets[j].body
    <2>1. j - 1 \in 0 .. m - 1 /\ (j - 1) + 1 = j /\ j \in 0 .. m /\ j - 1 \in 0 .. m /\ (j + 1) - 1 = j
      BY <1>1
    <2>2. h[j] = a \o b /\ a \in Seq(DatagramWords) /\ b \in Seq(DatagramWords)
      BY <1>3, <1>5, <1>6, <2>1
    <2>3. /\ b[1] = Word(129, packets[j].type, Len(body)) /\ Len(b) = 1 + Len(body) /\ Len(body) \in Nat
      BY <1>2 DEF seqs
    <2> HIDE DEF a, b, body
    <2>4. Len(h[j]) = Len(a) + Len(b) /\ \A i \in 1 .. Len(b) : h[j][Len(a) + i] = b[i]
      BY <2>2, Joined
    <2>5. Len(a) \in Nat /\ 1 \in 1 .. Len(b) /\ Len(a) + 1 \in 1 .. Len(h[j])
      BY <2>2, <2>3, <2>4
    <2>6. h[j][Len(a) + 1] = b[1]
      BY <2>4, <2>5
    <2>7. Len(h[j]) <= Len(whole) /\ \A i \in 1 .. Len(h[j]) : whole[i] = h[j][i]
      BY <1>6, <2>1
    <2>8. Len(a) + 1 \in 1 .. Len(whole) /\ whole[Len(a) + 1] = b[1]
      BY <1>7, <2>5, <2>6, <2>7
    <2>9. words[Len(a) + 1] = b[1] /\ Len(a) + 1 \in 1 .. Len(words)
      BY <1>7, <2>8
    <2>10. at(j) = Len(a) + 1 /\ at(j + 1) = Len(h[j]) + 1
      BY <2>1 DEF a
    <2>11. at(j + 1) \in 1 .. Len(words) + 1
      BY <1>7, <2>5, <2>7, <2>10
    <2>12. at(j) + Len(body) + 1 = at(j + 1)
      <3> HIDE DEF at
      <3>1. QED BY <2>3, <2>4, <2>5, <2>10
    <2>13. QED BY <2>3, <2>9, <2>10, <2>11, <2>12 DEF body
  <1>10. at(m + 1) \in 1 .. Len(words) + 1 /\ f[at(m + 1)] = {}
    <2>1. at(m + 1) = Len(whole) + 1
      BY <1>1, <1>5
    <2> DEFINE p == at(m + 1)
    <2> HIDE DEF at, p
    <2>0. p = Len(whole) + 1 /\ p \in 1 .. Len(words) + 1
      BY <1>7, <2>1 DEF p
    <2>w. f[p] = Walk(words, f, p)
      BY <1>8, <2>0
    <2>2. CASE zeros = 0
      <3>1. p > Len(words)
        BY <1>7, <2>0, <2>2
      <3>2. Walk(words, f, p) = {}
        BY <3>1 DEF Walk
      <3>3. QED BY <2>0, <2>w, <3>2 DEF p
    <2>3. CASE zeros # 0
      <3>1. words[p] = Zero
        <4>1. 1 \in 1 .. zeros
          BY <2>3
        <4>2. QED BY <1>7, <2>0, <4>1
      <3>2. Version(Zero) = 0
        BY DEF Version, Zero, Word
      <3>3. Version(words[p]) \notin {2, 3}
        BY <3>1, <3>2
      <3>4. Walk(words, f, p) = {}
        BY <3>3 DEF Walk
      <3>5. QED BY <2>0, <2>w, <3>4 DEF p
    <2>4. QED BY <2>2, <2>3
  <1>11. ASSUME NEW j \in 1 .. m PROVE f[at(j)] = {packets[j].type} \cup f[at(j + 1)]
    <2> DEFINE p == at(j)
               next == at(j + 1)
    <2>1. /\ p \in 1 .. Len(words) /\ next \in 1 .. Len(words) + 1
          /\ words[p] = Word(129, packets[j].type, Len(packets[j].body))
          /\ p + words[p].rest + 1 = next
      <3>1. words[p].rest = Len(packets[j].body)
        <4>1. words[p] = Word(129, packets[j].type, Len(packets[j].body))
          BY <1>9
        <4> HIDE DEF p
        <4>2. QED BY <4>1 DEF Word
      <3> HIDE DEF at
      <3>2. QED BY <1>9, <3>1
    <2>2. words[p].second = packets[j].type /\ Version(words[p]) = 2
      BY <2>1 DEF Version, Word
    <2> HIDE DEF p, next, at
    <2>3. f[p] = {packets[j].type} \cup (IF next > Len(words) THEN {} ELSE f[next])
      <3>1. f[p] = Walk(words, f, p) /\ ~(p > Len(words))
        BY <1>7, <1>8, <2>1
      <3>2. QED BY <2>1, <2>2, <3>1 DEF Walk
    <2>4. CASE next > Len(words)
      <3>1. f[next] = {}
        <4>1. f[next] = Walk(words, f, next)
          BY <1>8, <2>1
        <4>2. QED BY <2>4, <4>1 DEF Walk
      <3>2. QED BY <2>3, <2>4, <3>1 DEF p, next
    <2>5. CASE ~(next > Len(words))
      BY <2>3, <2>5 DEF p, next
    <2>6. QED BY <2>4, <2>5
  <1> DEFINE Types(j) == {packets[i].type : i \in j .. m}
             T == {k \in Nat : k <= m => f[at(m + 1 - k)] = Types(m + 1 - k)}
  <1>12. 0 \in T
    <2>1. m + 1 - 0 = m + 1 /\ m + 1 .. m = {}
      BY <1>1
    <2> HIDE DEF at
    <2>2. QED BY <1>10, <2>1
  <1>13. ASSUME NEW k \in Nat, k \in T PROVE k + 1 \in T
    <2> SUFFICES ASSUME k + 1 <= m PROVE f[at(m + 1 - (k + 1))] = Types(m + 1 - (k + 1))
      <3> HIDE DEF at, Types
      <3>1. QED OBVIOUS
    <2> DEFINE j == m + 1 - (k + 1)
    <2>1. j \in 1 .. m /\ j + 1 = m + 1 - k
      BY <1>1
    <2>2. f[at(j + 1)] = Types(j + 1)
      <3>1. k <= m
        BY <1>1
      <3> HIDE DEF j, at, Types
      <3>2. QED BY <1>13, <2>1, <3>1
    <2> HIDE DEF j, at
    <2>3. Types(j) = {packets[j].type} \cup Types(j + 1)
      <3>1. j .. m = {j} \cup (j + 1 .. m)
        BY <1>1, <2>1
      <3>2. QED BY <3>1
    <2>4. QED BY <1>11, <2>1, <2>2, <2>3 DEF j
  <1>14. f[at(1)] = Types(1)
    <2> HIDE DEF at, Types
    <2>1. Nat \subseteq T
      <3> HIDE DEF T
      <3>1. QED BY <1>12, <1>13, Climb
    <2>2. m <= m /\ m + 1 - m = 1
      BY <1>1
    <2>3. m \in T
      <3> HIDE DEF T
      <3>1. QED BY <1>1, <2>1
    <2>4. QED BY <2>2, <2>3
  <1>15. at(1) = 1
    <2>1. h[1 - 1] = <<>>
      BY <1>5
    <2>2. QED BY <2>1
  <1>16. RtcpTypes(words) = Types(1)
    BY <1>8, <1>14, <1>15
  <1>17. QED BY <1>16 DEF words, whole, m
-----------------------------------------------------------------------------
(* The port that choose_auto or the configuration adds to those chosen.    *)
Free(cfg, held, acc) == InRange(cfg) \ (cfg.reserved \cup held \cup ToSet(acc))

Grow(cfg, held, acc, want) ==
  IF acc = None THEN None
  ELSE IF want # AutoPort THEN Append(acc, want)
  ELSE IF Free(cfg, held, acc) = {} THEN None
  ELSE Append(acc, Min(Free(cfg, held, acc)))

LEMMA Lowest ==
  ASSUME NEW s, s \subseteq Nat, s # {}
  PROVE  Min(s) \in s
  <1>1. \E x \in s : \A y \in s : x <= y
    BY Least
  <1>2. QED BY <1>1 DEF Min

LEMMA GrowType ==
  ASSUME NEW cfg, cfg.start \in Nat, cfg.end \in Nat, NEW held,
         NEW acc \in Seq(Nat) \cup {None}, NEW want \in Nat \cup {AutoPort}
  PROVE  Grow(cfg, held, acc, want) \in Seq(Nat) \cup {None}
  <1> DEFINE free == Free(cfg, held, acc)
  <1>1. free \subseteq Nat
    BY DEF Free, InRange
  <1> HIDE DEF free
  <1>2. free # {} => Min(free) \in Nat
    BY <1>1, Lowest
  <1>3. Grow(cfg, held, acc, want) \in
          {None} \cup (IF acc = None THEN {} ELSE
                         (IF want # AutoPort THEN {Append(acc, want)} ELSE {})
                         \cup (IF free # {} THEN {Append(acc, Min(free))} ELSE {}))
    BY DEF Grow, free
  <1>4. acc # None => acc \in Seq(Nat)
    OBVIOUS
  <1>5. acc # None /\ want # AutoPort => Append(acc, want) \in Seq(Nat)
    BY <1>4
  <1>6. acc # None /\ free # {} => Append(acc, Min(free)) \in Seq(Nat)
    BY <1>2, <1>4
  <1>7. QED BY <1>3, <1>5, <1>6

(* The ports are chosen one after the other.                               *)
LEMMA TakeTrace ==
  ASSUME NEW cfg, cfg.explicit \in [Ports -> Nat \cup {AutoPort}], cfg.start \in Nat, cfg.end \in Nat, NEW held
  PROVE  \E h \in [0 .. 4 -> Seq(Nat) \cup {None}] :
           /\ h[0] = <<>>
           /\ \A i \in 0 .. 3 : h[i + 1] = Grow(cfg, held, h[i], cfg.explicit[i + 1])
           /\ Take(cfg, held) = h[4]
  <1> DEFINE A == Seq(Nat) \cup {None}
             e == cfg.explicit
             Step(acc, i) == Grow(cfg, held, acc, e[i])
             F == [x \in A \X (1 .. 4) |-> Step(x[1], x[2])]
             Body(g) == [s \in SUBSET (1 .. 4) |->
                          IF s = {} THEN <<>> ELSE Step(g[s \ {Max(s)}], Max(s))]
             iter == CHOOSE g : g = Body(g)
  <1>1. DOMAIN e = 1 .. 4 /\ \A i \in 1 .. 4 : e[i] \in Nat \cup {AutoPort}
    BY DEF Ports
  <1>2. Take(cfg, held) = iter[1 .. 4]
    BY <1>1 DEF Take, FoldLeft, MapThenFoldSet, Grow, Free
  <1> HIDE DEF A, e
  <1>3. F \in [A \X (1 .. 4) -> A]
    <2>1. \A acc \in A, i \in 1 .. 4 : Step(acc, i) \in A
      BY <1>1, GrowType DEF A
    <2> HIDE DEF Step
    <2>2. QED BY <2>1
  <1>4. <<>> \in A
    BY DEF A
  <1>5. PICK g \in [SUBSET (1 .. 4) -> A] : FoldsBy(g, F, <<>>, 4)
    <2> HIDE DEF F
    <2>1. 4 \in Nat
      OBVIOUS
    <2>2. QED BY <2>1, <1>3, <1>4, FoldExists
  <1>6. g = Body(g)
    <2>1. ASSUME NEW s \in SUBSET (1 .. 4)
          PROVE  g[s] = IF s = {} THEN <<>> ELSE Step(g[s \ {Max(s)}], Max(s))
      <3>1. CASE s = {}
        BY <1>5, <3>1 DEF FoldsBy
      <3>2. CASE s # {}
        <4>1. Max(s) \in 1 .. 4
          BY <3>2, MaxOf
        <4>2. g[s \ {Max(s)}] \in A
          BY <1>5
        <4> HIDE DEF Step
        <4>3. F[<<g[s \ {Max(s)}], Max(s)>>] = Step(g[s \ {Max(s)}], Max(s))
          BY <4>1, <4>2
        <4>4. QED BY <1>5, <3>2, <4>3 DEF FoldsBy
      <3>3. QED BY <3>1, <3>2
    <2> HIDE DEF Step
    <2>2. QED BY <1>5, <2>1
  <1>7. iter = Body(iter)
    <2> HIDE DEF Step
    <2>1. QED BY <1>6
  <1> DEFINE h == [i \in 0 .. 4 |-> iter[1 .. i]]
  <1> HIDE DEF iter, Step
  <1>8. iter[{}] = <<>>
    BY <1>7
  <1>9. ASSUME NEW i \in 0 .. 3 PROVE iter[1 .. i + 1] = Step(iter[1 .. i], i + 1)
    <2>1. 4 \in Nat /\ i \in 0 .. 4 - 1
      OBVIOUS
    <2>2. /\ 1 .. i + 1 \in SUBSET (1 .. 4) /\ 1 .. i + 1 # {}
          /\ Max(1 .. i + 1) = i + 1 /\ (1 .. i + 1) \ {i + 1} = 1 .. i
      BY <2>1, MaxInterval
    <2>3. QED BY <1>7, <2>2
  <1>10. h[0] = <<>> /\ \A i \in 0 .. 3 : h[i + 1] = Step(h[i], i + 1)
    <2>1. 1 .. 0 = {}
      OBVIOUS
    <2>2. \A i \in 0 .. 4 : h[i] = iter[1 .. i]
      OBVIOUS
    <2> HIDE DEF h
    <2>3. h[0] = <<>>
      BY <1>8, <2>1, <2>2
    <2>4. \A i \in 0 .. 3 : i + 1 \in 0 .. 4 /\ i \in 0 .. 4
      OBVIOUS
    <2>5. QED BY <1>9, <2>2, <2>3, <2>4
  <1>11. DOMAIN h = 0 .. 4 /\ h = [i \in 0 .. 4 |-> h[i]] /\ Take(cfg, held) = h[4]
    BY <1>2
  <1> HIDE DEF h
  <1>12. \A acc \in A, i \in 1 .. 4 : Step(acc, i) \in A
    BY <1>1, GrowType DEF A, Step
  <1>13. h[0] \in A /\ h[1] \in A /\ h[2] \in A /\ h[3] \in A /\ h[4] \in A
    <2>1. h[0 + 1] = Step(h[0], 0 + 1) /\ h[1 + 1] = Step(h[1], 1 + 1)
          /\ h[2 + 1] = Step(h[2], 2 + 1) /\ h[3 + 1] = Step(h[3], 3 + 1)
      BY <1>10
    <2>2. h[1] = Step(h[0], 1) /\ h[2] = Step(h[1], 2) /\ h[3] = Step(h[2], 3) /\ h[4] = Step(h[3], 4)
      BY <2>1
    <2>3. h[0] \in A
      BY <1>4, <1>10
    <2>4. 1 \in 1 .. 4 /\ 2 \in 1 .. 4 /\ 3 \in 1 .. 4 /\ 4 \in 1 .. 4
      OBVIOUS
    <2>5. QED BY <1>12, <2>2, <2>3, <2>4
  <1>14. h \in [0 .. 4 -> A]
    <2>1. \A i \in 0 .. 4 : i = 0 \/ i = 1 \/ i = 2 \/ i = 3 \/ i = 4
      OBVIOUS
    <2>2. \A i \in 0 .. 4 : h[i] \in A
      BY <1>13, <2>1
    <2>3. QED BY <1>11, <2>2
  <1>15. QED BY <1>10, <1>11, <1>14 DEF Step, e, A

(* Ports that are all given do not depend on those in use.                 *)
LEMMA GivenTaken ==
  ASSUME NEW cfg, cfg.explicit \in [Ports -> Nat], cfg.start \in Nat, cfg.end \in Nat,
         NEW held, NEW others
  PROVE  Take(cfg, held) = Take(cfg, others)
  <1> DEFINE e == cfg.explicit
  <1>1. cfg.explicit \in [Ports -> Nat \cup {AutoPort}] /\ \A i \in 0 .. 3 : e[i + 1] # AutoPort
    BY PlanAssumption DEF Ports
  <1>2. PICK h \in [0 .. 4 -> Seq(Nat) \cup {None}] :
           /\ h[0] = <<>>
           /\ \A i \in 0 .. 3 : h[i + 1] = Grow(cfg, held, h[i], e[i + 1])
           /\ Take(cfg, held) = h[4]
    BY <1>1, TakeTrace
  <1>3. PICK k \in [0 .. 4 -> Seq(Nat) \cup {None}] :
           /\ k[0] = <<>>
           /\ \A i \in 0 .. 3 : k[i + 1] = Grow(cfg, others, k[i], e[i + 1])
           /\ Take(cfg, others) = k[4]
    BY <1>1, TakeTrace
  <1>4. \A i \in 0 .. 3 : h[i] = k[i] => h[i + 1] = k[i + 1]
    BY <1>1, <1>2, <1>3 DEF Grow
  <1>5. h[0] = k[0]
    BY <1>2, <1>3
  <1>6. h[0 + 1] = k[0 + 1]
    BY <1>4, <1>5
  <1>7. h[1 + 1] = k[1 + 1]
    BY <1>4, <1>6
  <1>8. h[2 + 1] = k[2 + 1]
    BY <1>4, <1>7
  <1>9. h[3 + 1] = k[3 + 1]
    BY <1>4, <1>8
  <1>10. QED BY <1>2, <1>3, <1>9

LEMMA FourLong ==
  ASSUME NEW s \in Seq(Nat), Len(s) = 4
  PROVE  s \in [1 .. 4 -> Nat] /\ DOMAIN s = 1 .. 4
  <1>1. s \in [1 .. Len(s) -> Nat]
    BY LenProperties
  <1>2. QED BY <1>1

(* Fewer ports than there are free do not use them up.                     *)
LEMMA Room ==
  ASSUME NEW free, IsFiniteSet(free), NEW acc \in Seq(Nat), Len(acc) < Cardinality(free)
  PROVE  free \ ToSet(acc) # {}
  <1> SUFFICES ASSUME free \subseteq ToSet(acc) PROVE FALSE
    OBVIOUS
  <1> DEFINE n == Len(acc)
             indices == 1 .. n
             used == ToSet(acc)
  <1>1. n \in Nat /\ acc \in [indices -> used] /\ \A x \in used : \E i \in indices : acc[i] = x
    BY DEF ToSet
  <1>2. acc \in Surjection(indices, used)
    <2> HIDE DEF indices, used
    <2>1. QED BY <1>1 DEF Surjection
  <1>3. IsFiniteSet(indices) /\ Cardinality(indices) = n
    <2>1. 1 \in Int /\ n \in Int
      BY <1>1
    <2>2. /\ IsFiniteSet(1 .. n)
          /\ Cardinality(1 .. n) = IF 1 > n THEN 0 ELSE n - 1 + 1
      BY <2>1, FS_Interval
    <2> HIDE DEF n
    <2>3. QED BY <1>1, <2>2
  <1> HIDE DEF indices
  <1>4. IsFiniteSet(used) /\ Cardinality(used) <= Cardinality(indices)
    BY <1>2, <1>3, FS_Surjection
  <1>5. free \in SUBSET used
    OBVIOUS
  <1> HIDE DEF used
  <1>6. Cardinality(free) <= Cardinality(used)
    BY <1>4, <1>5, FS_Subset
  <1>7. Cardinality(free) \in Nat /\ Cardinality(used) \in Nat
    BY <1>4, FS_CardinalityType
  <1>8. n < Cardinality(free)
    OBVIOUS
  <1> HIDE DEF n
  <1>9. QED BY <1>1, <1>3, <1>4, <1>6, <1>7, <1>8

(* Ports of which the first i were chosen from the free ones, each once.   *)
Chosen(free, acc, i) ==
  /\ acc \in Seq(Nat) /\ Len(acc) = i
  /\ \A a \in 1 .. i : acc[a] \in free /\ \A b \in 1 .. i : acc[a] = acc[b] => a = b

LEMMA OneMore ==
  ASSUME NEW cfg, cfg.start \in Nat, cfg.end \in Nat, NEW held, NEW free, IsFiniteSet(free),
         free = InRange(cfg) \ (cfg.reserved \cup held),
         NEW i \in Nat, i < Cardinality(free), NEW acc, Chosen(free, acc, i)
  PROVE  Chosen(free, Grow(cfg, held, acc, AutoPort), i + 1)
  <1> DEFINE left == Free(cfg, held, acc)
             port == Min(left)
             new == Append(acc, port)
  <1>1. acc \in Seq(Nat) /\ Len(acc) = i
    BY DEF Chosen
  <1>2. left = free \ ToSet(acc)
    BY DEF Free
  <1>3. left # {} /\ left \subseteq Nat
    <2>1. free \ ToSet(acc) # {}
      BY <1>1, Room
    <2>2. QED BY <1>2, <2>1 DEF InRange
  <1>4. port \in left
    <2> HIDE DEF left
    <2>1. QED BY <1>3, Lowest
  <1>5. acc # None
    BY <1>1, PlanAssumption
  <1>6. Grow(cfg, held, acc, AutoPort) = new
    BY <1>3, <1>5 DEF Grow
  <1>7. port \in Nat /\ port \in free /\ \A a \in 1 .. i : acc[a] # port
    <2>1. \A a \in 1 .. i : acc[a] \in ToSet(acc)
      BY <1>1 DEF ToSet
    <2> HIDE DEF port, left
    <2>2. QED BY <1>2, <1>3, <1>4, <2>1
  <1> HIDE DEF port, left
  <1>8. new \in Seq(Nat) /\ Len(new) = i + 1 /\ new[i + 1] = port /\ \A a \in 1 .. i : new[a] = acc[a]
    BY <1>1, <1>7
  <1> HIDE DEF new
  <1>9. \A a \in 1 .. i + 1 : a \in 1 .. i \/ a = i + 1
    OBVIOUS
  <1>10. \A a \in 1 .. i : acc[a] \in free /\ \A b \in 1 .. i : acc[a] = acc[b] => a = b
    BY DEF Chosen
  <1>11. \A a \in 1 .. i + 1 : new[a] \in free /\ \A b \in 1 .. i + 1 : new[a] = new[b] => a = b
    BY <1>7, <1>8, <1>9, <1>10
  <1>12. QED BY <1>6, <1>8, <1>11 DEF Chosen

(* Four ports are chosen where four are free.                              *)
LEMMA FourTaken ==
  ASSUME NEW cfg, cfg.explicit \in [Ports -> {AutoPort}], cfg.start \in Nat, cfg.end \in Nat,
         NEW held, NEW free, IsFiniteSet(free), Cardinality(free) \in Nat, Cardinality(free) >= 4,
         free = InRange(cfg) \ (cfg.reserved \cup held)
  PROVE  Chosen(free, Take(cfg, held), 4)
  <1> DEFINE e == cfg.explicit
  <1>1. cfg.explicit \in [Ports -> Nat \cup {AutoPort}] /\ \A i \in 0 .. 3 : e[i + 1] = AutoPort
    BY DEF Ports
  <1>2. PICK h \in [0 .. 4 -> Seq(Nat) \cup {None}] :
           /\ h[0] = <<>>
           /\ \A i \in 0 .. 3 : h[i + 1] = Grow(cfg, held, h[i], e[i + 1])
           /\ Take(cfg, held) = h[4]
    BY <1>1, TakeTrace
  <1>3. ASSUME NEW i \in 0 .. 3, Chosen(free, h[i], i) PROVE Chosen(free, h[i + 1], i + 1)
    <2>1. i \in Nat /\ i < Cardinality(free)
      OBVIOUS
    <2>2. Chosen(free, Grow(cfg, held, h[i], AutoPort), i + 1)
      BY <1>3, <2>1, OneMore
    <2>3. h[i + 1] = Grow(cfg, held, h[i], AutoPort)
      BY <1>1, <1>2
    <2>4. QED BY <2>2, <2>3
  <1>4. Chosen(free, h[0], 0)
    BY <1>2 DEF Chosen
  <1>5. Chosen(free, h[0 + 1], 0 + 1)
    BY <1>3, <1>4
  <1>6. Chosen(free, h[1 + 1], 1 + 1)
    <2>1. 0 + 1 = 1 /\ 1 \in 0 .. 3
      OBVIOUS
    <2>2. QED BY <1>3, <1>5, <2>1
  <1>7. Chosen(free, h[2 + 1], 2 + 1)
    <2>1. 1 + 1 = 2 /\ 2 \in 0 .. 3
      OBVIOUS
    <2>2. QED BY <1>3, <1>6, <2>1
  <1>8. Chosen(free, h[3 + 1], 3 + 1)
    <2>1. 2 + 1 = 3 /\ 3 \in 0 .. 3
      OBVIOUS
    <2>2. QED BY <1>3, <1>7, <2>1
  <1>9. 3 + 1 = 4
    OBVIOUS
  <1>10. QED BY <1>2, <1>8, <1>9

(* A range with room for four ports yields a plan.                         *)
LEMMA PlanMade ==
  ASSUME NEW cfg, cfg.explicit \in [Ports -> {AutoPort}], cfg.start \in Nat, cfg.end \in Nat,
         NEW busy, NEW allowInUse, NEW reuse,
         Cardinality(InRange(cfg) \ (cfg.reserved \cup busy)) >= 4
  PROVE  Plan(cfg, None, busy, allowInUse, reuse) # None
  <1> DEFINE held == IF allowInUse THEN {} ELSE busy
             certain == InRange(cfg) \ (cfg.reserved \cup busy)
             free == InRange(cfg) \ (cfg.reserved \cup held)
             range == InRange(cfg)
             taken == Take(cfg, held)
             plan == [ports |-> taken, start |-> cfg.start, end |-> cfg.end]
  <1>1. /\ IsFiniteSet(range) /\ Cardinality(range) \in Nat
        /\ Cardinality(range) = IF cfg.start > cfg.end THEN 0 ELSE cfg.end - cfg.start + 1
    <2>1. /\ IsFiniteSet(cfg.start .. cfg.end)
          /\ Cardinality(cfg.start .. cfg.end) = IF cfg.start > cfg.end THEN 0 ELSE cfg.end - cfg.start + 1
      <3> DEFINE a == cfg.start
                 b == cfg.end
      <3>1. a \in Int /\ b \in Int
        OBVIOUS
      <3> HIDE DEF a, b
      <3>2. /\ IsFiniteSet(a .. b)
            /\ Cardinality(a .. b) = IF a > b THEN 0 ELSE b - a + 1
        BY <3>1, FS_Interval
      <3>3. QED BY <3>2 DEF a, b
    <2>2. range = cfg.start .. cfg.end
      BY DEF InRange
    <2> HIDE DEF range
    <2>3. Cardinality(range) \in Nat
      BY <2>1, <2>2, FS_CardinalityType
    <2>4. QED BY <2>1, <2>2, <2>3
  <1>2. certain \in SUBSET free /\ free \in SUBSET range
    OBVIOUS
  <1>3. Cardinality(certain) >= 4
    OBVIOUS
  <1> HIDE DEF range, free, certain
  <1>4. IsFiniteSet(free) /\ Cardinality(free) <= Cardinality(range)
    BY <1>1, <1>2, FS_Subset
  <1>5. IsFiniteSet(certain) /\ Cardinality(certain) <= Cardinality(free)
    BY <1>2, <1>4, FS_Subset
  <1>6. Cardinality(free) \in Nat /\ Cardinality(certain) \in Nat
    BY <1>4, <1>5, FS_CardinalityType
  <1>7. Cardinality(free) >= 4 /\ Cardinality(range) >= 4
    BY <1>1, <1>3, <1>4, <1>5, <1>6
  <1>8. cfg.end - cfg.start >= 3
    BY <1>1, <1>7
  <1>9. Chosen(free, taken, 4)
    <2> HIDE DEF held
    <2>1. free = InRange(cfg) \ (cfg.reserved \cup held)
      BY DEF free
    <2>2. QED BY <1>4, <1>6, <1>7, <2>1, FourTaken
  <1> HIDE DEF held, taken
  <1>10. /\ taken \in [Ports -> Nat] /\ DOMAIN taken = Ports /\ taken # None
         /\ \A a \in Ports : taken[a] \in free /\ \A b \in Ports : taken[a] = taken[b] => a = b
    <2>1. taken \in Seq(Nat) /\ Len(taken) = 4
      BY <1>9 DEF Chosen
    <2>2. taken \in [1 .. 4 -> Nat] /\ DOMAIN taken = 1 .. 4
      BY <2>1, FourLong
    <2>3. taken # None
      BY <2>1, PlanAssumption
    <2>4. \A a \in 1 .. 4 : taken[a] \in free /\ \A b \in 1 .. 4 : taken[a] = taken[b] => a = b
      BY <1>9 DEF Chosen
    <2>5. QED BY <2>2, <2>3, <2>4 DEF Ports
  <1>11. plan \in Plans
    BY <1>10 DEF Plans
  <1>12. /\ plan.ports = taken /\ plan # None
    BY <1>11, PlanAssumption
  <1> HIDE DEF plan
  <1>13. Valid(plan, cfg)
    <2>1. IsInjective(plan.ports)
      BY <1>10, <1>12 DEF IsInjective
    <2>2. QED BY <1>10, <1>12, <2>1 DEF Valid, free
  <1>14. Available(plan, held)
    <2>1. ToSet(taken) \subseteq free
      BY <1>10 DEF ToSet
    <2>2. QED BY <1>12, <2>1 DEF Available, free
  <1>15. ~Reuses(None, cfg, reuse)
    BY DEF Reuses
  <1>16. Plan(cfg, None, busy, allowInUse, reuse) = plan
    BY <1>8, <1>10, <1>12, <1>13, <1>14, <1>15 DEF Plan, held, taken, plan
  <1>17. QED BY <1>12, <1>16

(* The plan of a program that finds one, and takes over what is bound.     *)
Again(cfg, plan, others) == Plan(cfg, plan, others, TRUE, TRUE)

(* Once a plan is saved each program that reuses it gets it.               *)
LEMMA PlanKept ==
  ASSUME NEW cfg, cfg.explicit \in [Ports -> Nat \cup {AutoPort}], cfg.start \in Nat, cfg.end \in Nat,
         NEW saved, NEW busy, NEW allowInUse, NEW reuse, NEW others,
         NEW plan, plan = Plan(cfg, saved, busy, allowInUse, reuse), plan # None
  PROVE  Again(cfg, plan, others) = plan
  <1> DEFINE held == IF allowInUse THEN {} ELSE busy
             fresh(h) == [ports |-> Take(cfg, h), start |-> cfg.start, end |-> cfg.end]
  <1>1. /\ cfg.end - cfg.start >= 3 /\ plan.ports # None /\ Valid(plan, cfg)
        /\ \/ Reuses(saved, cfg, reuse) /\ plan = saved
           \/ ~Reuses(saved, cfg, reuse) /\ plan = fresh(held)
    BY DEF Plan
  <1>2. plan.start = cfg.start /\ plan.end = cfg.end
    BY <1>1 DEF Reuses
  <1>3. plan # None
    OBVIOUS
  <1>4. Available(plan, {})
    BY DEF Available
  <1>5. CASE \E i \in Ports : cfg.explicit[i] = AutoPort
    <2>1. Reuses(plan, cfg, TRUE)
      BY <1>2, <1>3, <1>5 DEF Reuses
    <2>2. QED BY <1>1, <1>4, <2>1 DEF Plan, Again
  <1>6. CASE ~(\E i \in Ports : cfg.explicit[i] = AutoPort)
    <2>1. ~Reuses(saved, cfg, reuse) /\ ~Reuses(plan, cfg, TRUE)
      BY <1>6 DEF Reuses
    <2>2. cfg.explicit \in [Ports -> Nat]
      BY <1>6
    <2>3. Take(cfg, held) = Take(cfg, {})
      BY <2>2, GivenTaken
    <2>4. plan = fresh({})
      BY <1>1, <2>1, <2>3
    <2>5. QED BY <1>1, <1>4, <2>1, <2>4 DEF Plan, Again
  <1>7. QED BY <1>5, <1>6
-----------------------------------------------------------------------------
LEMMA GoodbyesSeen ==
  ASSUME input \in RtcpDatagrams
  PROVE  LET bye == \E i \in DOMAIN input.packets : input.packets[i].type = RTCP_BYE
             audio == AudioKind(RtcpWords, input.text)
             control == ControlKind(RtcpWords, input.text)
         IN /\ bye => audio = "disconnect" /\ control = "disconnect"
            /\ ~bye /\ Quiet(input.text.words) => audio # "disconnect" /\ control # "disconnect"
            /\ Lone(input.text.words) /\ Size(RtcpWords) <= 256 => control = "disconnect"
  <1> DEFINE packets == input.packets
             zeros == input.zeros
             t == input.text
             words == Compound(packets) \o [i \in 1 .. zeros |-> Zero]
             parsed == ParsedText(t, IsProbableRtp(words))
             bye == \E i \in DOMAIN packets : packets[i].type = RTCP_BYE
             audio == AudioKind(words, t)
             control == ControlKind(words, t)
  <1>1. packets \in Seq([type : Byte, body : Seq(DatagramWords)]) /\ zeros \in Nat
    BY DEF RtcpDatagrams
  <1>2. t.words \in Seq(Words)
    BY DEF RtcpDatagrams, TextsIn
  <1> HIDE DEF packets, zeros, t
  <1>3. RtcpTypes(words) = {packets[i].type : i \in 1 .. Len(packets)}
    BY <1>1, EveryType
  <1>4. DOMAIN packets = 1 .. Len(packets)
    BY <1>1
  <1>5. IsBye(words) <=> bye
    BY <1>3, <1>4 DEF IsBye
  <1> HIDE DEF words
  <1>6. IsProbableRtp(words) \in BOOLEAN
    BY DEF IsProbableRtp
  <1>7. bye => audio = "disconnect" /\ control = "disconnect"
    BY <1>5 DEF AudioKind, ControlKind
  <1>8. ~bye /\ Quiet(t.words) => audio # "disconnect" /\ control # "disconnect"
    <2>1. Quiet(t.words) => ~DisconnectCommand(t, Size(words)) /\ TextKind(parsed, t.length) # "disconnect"
      BY <1>2, <1>6, QuietText
    <2>2. QED BY <1>5, <2>1 DEF AudioKind, ControlKind
  <1>9. Lone(t.words) /\ Size(words) <= 256 => control = "disconnect"
    <2>1. Lone(t.words) /\ Size(words) <= 256 => DisconnectCommand(t, Size(words))
      BY <1>2, LoneText DEF DisconnectCommand
    <2>2. QED BY <2>1 DEF ControlKind
  <1>10. RtcpWords = words
    BY DEF RtcpWords, words, packets, zeros
  <1> HIDE DEF audio, control
  <1>11. QED BY <1>7, <1>8, <1>9, <1>10 DEF packets, t, audio, control

(* What has been decided is what the properties say of it.                 *)
DecisionInv == input \in Inputs /\ ByeSeen /\ LateVoiceStays /\ TextsKnown /\ PortsAgree

LEMMA Kinds ==
  ASSUME input \in Inputs
  PROVE  /\ input.kind = "rtcp" => input \in RtcpDatagrams
         /\ input.kind = "voice" => input \in VoiceDatagrams
         /\ input.kind = "text" => input \in TextDatagrams
         /\ input.kind = "ports" => input \in PortQuestions
  <1>1. \/ input \in RtcpDatagrams
        \/ input \in VoiceDatagrams
        \/ input \in TextDatagrams
        \/ input \in PortQuestions
    BY DecisionAssumption DEF Inputs
  <1>2. input \in RtcpDatagrams => input.kind = "rtcp"
    BY DEF RtcpDatagrams
  <1>3. input \in VoiceDatagrams => input.kind = "voice"
    BY DEF VoiceDatagrams
  <1>4. input \in TextDatagrams => input.kind = "text"
    BY DEF TextDatagrams
  <1>5. input \in PortQuestions => input.kind = "ports"
    BY DEF PortQuestions
  <1>6. QED BY <1>1, <1>2, <1>3, <1>4, <1>5

LEMMA ReadRtcpDecides == DecisionInv /\ ReadRtcp => DecisionInv'
  <1> SUFFICES ASSUME DecisionInv, ReadRtcp PROVE DecisionInv'
    OBVIOUS
  <1> DEFINE bye == \E i \in DOMAIN input.packets : input.packets[i].type = RTCP_BYE
             audio == AudioKind(RtcpWords, input.text)
             control == ControlKind(RtcpWords, input.text)
  <1>1. input \in Inputs /\ input' = input /\ input.kind = "rtcp" /\ result' = <<audio, control>>
    BY DEF DecisionInv, ReadRtcp
  <1>2. /\ bye => audio = "disconnect" /\ control = "disconnect"
        /\ ~bye /\ Quiet(input.text.words) => audio # "disconnect" /\ control # "disconnect"
        /\ Lone(input.text.words) /\ Size(RtcpWords) <= 256 => control = "disconnect"
    BY <1>1, Kinds, GoodbyesSeen
  <1>8. RtcpWords' = RtcpWords
    BY <1>1 DEF RtcpWords
  <1> HIDE DEF audio, control
  <1>3. result'[1] = audio /\ result'[2] = control
    BY <1>1
  <1>4. ByeSeen'
    BY <1>1, <1>2, <1>3, <1>8 DEF ByeSeen
  <1>5. (LateVoiceStays /\ TextsKnown /\ PortsAgree)'
    BY <1>1 DEF LateVoiceStays, TextsKnown, PortsAgree
  <1>6. (input \in Inputs)'
    BY <1>1 DEF Inputs
  <1>7. QED BY <1>4, <1>5, <1>6 DEF DecisionInv

LEMMA ReadVoiceDecides == DecisionInv /\ ReadVoice => DecisionInv'
  <1> SUFFICES ASSUME DecisionInv, ReadVoice PROVE DecisionInv'
    OBVIOUS
  <1> DEFINE audio == AudioKind(VoiceWords, input.text)
  <1>1. input \in Inputs /\ input' = input /\ input.kind = "voice" /\ result' = <<audio>>
    BY DEF DecisionInv, ReadVoice
  <1>2. input.seq >= Len(VoiceWords) - 1 /\ (input.first = 128 \/ Quiet(input.text.words)) => audio = "voice"
    BY <1>1, Kinds, VoiceKept
  <1>3. VoiceWords' = VoiceWords
    BY <1>1 DEF VoiceWords
  <1> HIDE DEF audio
  <1>4. result'[1] = audio
    BY <1>1
  <1>5. LateVoiceStays'
    BY <1>1, <1>2, <1>3, <1>4 DEF LateVoiceStays
  <1>6. (ByeSeen /\ TextsKnown /\ PortsAgree)'
    BY <1>1 DEF ByeSeen, TextsKnown, PortsAgree
  <1>7. (input \in Inputs)'
    BY <1>1 DEF Inputs
  <1>8. QED BY <1>5, <1>6, <1>7 DEF DecisionInv

LEMMA ReadTextDecides == DecisionInv /\ ReadText => DecisionInv'
  <1> SUFFICES ASSUME DecisionInv, ReadText PROVE DecisionInv'
    OBVIOUS
  <1> DEFINE audio == AudioKind(TextWords, input.text)
             control == ControlKind(TextWords, input.text)
             words == input.text.words
             likeRtp == IsProbableRtp(TextWords)
             station == Len(words) > 1 /\ words[1] \in {"Station", "station"} /\ ~HasToken(words)
  <1>1. input \in Inputs /\ input' = input /\ input.kind = "text" /\ result' = <<audio, control>>
    BY DEF DecisionInv, ReadText
  <1>2. /\ Lone(words) /\ (~likeRtp \/ Size(TextWords) <= 256) => {audio, control} = {"disconnect"}
        /\ Quiet(words) => "disconnect" \notin {audio, control}
        /\ station /\ ~likeRtp => {audio, control} = {"identity"}
    BY <1>1, Kinds, TextsRead
  <1>3. TextWords' = TextWords
    BY <1>1 DEF TextWords
  <1> HIDE DEF audio, control
  <1>4. result'[1] = audio /\ result'[2] = control
    BY <1>1
  <1>5. TextsKnown'
    BY <1>1, <1>2, <1>3, <1>4 DEF TextsKnown
  <1>6. (ByeSeen /\ LateVoiceStays /\ PortsAgree)'
    BY <1>1 DEF ByeSeen, LateVoiceStays, PortsAgree
  <1>7. (input \in Inputs)'
    BY <1>1 DEF Inputs
  <1>8. QED BY <1>5, <1>6, <1>7 DEF DecisionInv

LEMMA MakePlanDecides == DecisionInv /\ MakePlan => DecisionInv'
  <1> SUFFICES ASSUME DecisionInv, MakePlan PROVE DecisionInv'
    OBVIOUS
  <1> DEFINE cfg == input.cfg
             plan == Plan(cfg, input.saved, input.busy, input.allowInUse, input.reuse)
             free == InRange(cfg) \ (cfg.reserved \cup input.busy)
  <1>1. input \in Inputs /\ input' = input /\ input.kind = "ports" /\ result' = <<plan>>
    BY DEF DecisionInv, MakePlan
  <1>2. cfg.explicit \in [Ports -> Nat \cup {AutoPort}] /\ cfg.start \in Nat /\ cfg.end \in Nat
    <2>1. input \in PortQuestions
      BY <1>1, Kinds
    <2>2. QED BY <2>1 DEF PortQuestions
  <1>3. ASSUME plan # None, NEW others PROVE Plan(cfg, plan, others, TRUE, TRUE) = plan
    <2> DEFINE p == plan
               saved == input.saved
               busy == input.busy
               allow == input.allowInUse
               reuse == input.reuse
    <2>1. p = Plan(cfg, saved, busy, allow, reuse) /\ p # None
      BY <1>3
    <2> HIDE DEF p, cfg, plan, free, saved, busy, allow, reuse
    <2>2. cfg.explicit \in [Ports -> Nat \cup {AutoPort}]
      BY <1>2
    <2>3. cfg.start \in Nat
      BY <1>2
    <2>4. cfg.end \in Nat
      BY <1>2
    <2>5. Again(cfg, p, others) = p
      BY <2>1, <2>2, <2>3, <2>4, PlanKept
    <2>6. QED BY <2>5 DEF Again, p, plan, saved, busy, allow, reuse
  <1>4. ASSUME \A i \in Ports : cfg.explicit[i] = AutoPort, input.saved = None, Cardinality(free) >= 4
        PROVE  plan # None
    <2>1. cfg.explicit \in [Ports -> {AutoPort}]
      BY <1>2, <1>4
    <2>2. Cardinality(InRange(cfg) \ (cfg.reserved \cup input.busy)) >= 4
      BY <1>4
    <2>3. Plan(cfg, None, input.busy, input.allowInUse, input.reuse) # None
      <3> HIDE DEF cfg, free, plan
      <3>1. QED BY <1>2, <2>1, <2>2, PlanMade
    <2>4. QED BY <1>4, <2>3
  <1>5. PortsAgree'
    <2> HIDE DEF plan
    <2>1. result'[1] = plan
      BY <1>1
    <2>2. QED BY <1>1, <1>3, <1>4, <2>1 DEF PortsAgree
  <1>6. (ByeSeen /\ LateVoiceStays /\ TextsKnown)'
    BY <1>1 DEF ByeSeen, LateVoiceStays, TextsKnown
  <1>7. (input \in Inputs)'
    BY <1>1 DEF Inputs
  <1>8. QED BY <1>5, <1>6, <1>7 DEF DecisionInv

(* Every decision of the gateway is the one the four properties ask for.   *)
THEOREM Decides == DecisionSpec => []DecisionInv
  <1>1. DecisionInit => DecisionInv
    BY DEF DecisionInit, DecisionInv, ByeSeen, LateVoiceStays, TextsKnown, PortsAgree
  <1>2. DecisionInv /\ [Decide]_<<input, result>> => DecisionInv'
    <2> SUFFICES ASSUME DecisionInv, [Decide]_<<input, result>> PROVE DecisionInv'
      OBVIOUS
    <2>1. CASE ReadRtcp
      BY <2>1, ReadRtcpDecides
    <2>2. CASE ReadVoice
      BY <2>2, ReadVoiceDecides
    <2>3. CASE ReadText
      BY <2>3, ReadTextDecides
    <2>4. CASE MakePlan
      BY <2>4, MakePlanDecides
    <2>5. CASE UNCHANGED <<input, result>>
      <3>1. input' = input /\ result' = result
        BY <2>5
      <3>2. RtcpWords' = RtcpWords /\ VoiceWords' = VoiceWords /\ TextWords' = TextWords
        BY <3>1 DEF RtcpWords, VoiceWords, TextWords
      <3>3. ByeSeen' /\ LateVoiceStays'
        BY <3>1, <3>2 DEF DecisionInv, ByeSeen, LateVoiceStays
      <3>4. TextsKnown' /\ PortsAgree'
        BY <3>1, <3>2 DEF DecisionInv, TextsKnown, PortsAgree
      <3>5. QED BY <3>1, <3>3, <3>4 DEF DecisionInv, Inputs
    <2>6. QED BY <2>1, <2>2, <2>3, <2>4, <2>5 DEF Decide
  <1>3. QED BY <1>1, <1>2, PTL DEF DecisionSpec

(* A goodbye is seen wherever it is among the RTCP packets of a datagram,  *)
(* and without one only a text with a word that can be a command is taken  *)
(* for one (rtp.py:132-205).                                               *)
THEOREM SeesGoodbyes == DecisionSpec => []ByeSeen
  <1>1. DecisionInv => ByeSeen
    BY DEF DecisionInv
  <1>2. QED BY <1>1, Decides, PTL

(* Voice whose sequence number is not less than its length in words is     *)
(* voice, unless it is of an older program and has a command in it.        *)
THEOREM KeepsLateVoice == DecisionSpec => []LateVoiceStays
  <1>1. DecisionInv => LateVoiceStays
    BY DEF DecisionInv
  <1>2. QED BY <1>1, Decides, PTL

(* A text that is a command is a goodbye, one without a word that is or    *)
(* contains a command is none, and a station block is recognised           *)
(* (rtp.py:172-205, 302-362).                                              *)
THEOREM KnowsTexts == DecisionSpec => []TextsKnown
  <1>1. DecisionInv => TextsKnown
    BY DEF DecisionInv
  <1>2. QED BY <1>1, Decides, PTL

(* A saved plan is the plan of every program that reuses it, and a range   *)
(* with four free ports yields a plan (ports.py:191-242).                  *)
THEOREM PlansAgree == DecisionSpec => []PortsAgree
  <1>1. DecisionInv => PortsAgree
    BY DEF DecisionInv
  <1>2. QED BY <1>1, Decides, PTL

(* What is selected are members of the sequence, all of them wanted, and   *)
(* none only if none is wanted.                                            *)
LEMMA Selected ==
  ASSUME NEW S, NEW pkts \in Seq(S), NEW wanted
  PROVE  /\ Select(pkts, wanted) \in Seq(S)
         /\ \A i \in 1 .. Len(Select(pkts, wanted)) : Select(pkts, wanted)[i] \in wanted
         /\ Select(pkts, wanted) = <<>> => \A i \in 1 .. Len(pkts) : pkts[i] \notin wanted
  <1>0. PICK h \in [0 .. Len(pkts) -> Seq(S)] : Selects(h, pkts, wanted)
    BY SelectTrace
  <1> DEFINE n == Len(pkts)
  <1>2. /\ h \in [0 .. n -> Seq(S)] /\ h[0] = <<>>
        /\ \A i \in 0 .. n - 1 :
             h[i + 1] = IF pkts[i + 1] \in wanted THEN Append(h[i], pkts[i + 1]) ELSE h[i]
        /\ Select(pkts, wanted) = h[n]
    BY <1>0 DEF Selects
  <1>1. n \in Nat /\ \A i \in 1 .. n : pkts[i] \in S
    OBVIOUS
  <1> DEFINE Good(k) == /\ \A i \in 1 .. Len(h[k]) : h[k][i] \in wanted
                        /\ h[k] = <<>> => \A i \in 1 .. k : pkts[i] \notin wanted
             T == {k \in Nat : k <= n => Good(k)}
  <1> HIDE DEF n
  <1>3. 0 \in T
    BY <1>2
  <1>4. ASSUME NEW k \in Nat, k \in T PROVE k + 1 \in T
    <2> SUFFICES ASSUME k + 1 <= n PROVE Good(k + 1)
      OBVIOUS
    <2>1. k \in 0 .. n - 1 /\ k \in 0 .. n /\ k + 1 \in 1 .. n /\ Good(k)
      BY <1>1, <1>4
    <2> DEFINE old == h[k]
               p == pkts[k + 1]
    <2>2. old \in Seq(S) /\ p \in S /\ Len(old) \in Nat
      BY <1>1, <1>2, <2>1
    <2>3. h[k + 1] = IF p \in wanted THEN Append(old, p) ELSE old
      BY <1>2, <2>1
    <2>4. \A i \in 1 .. k + 1 : i \in 1 .. k \/ i = k + 1
      OBVIOUS
    <2>5. CASE p \in wanted
      <3>1. Append(old, p) # <<>> /\ Len(Append(old, p)) = Len(old) + 1
        BY <2>2
      <3>2. \A i \in 1 .. Len(old) + 1 : Append(old, p)[i] \in wanted
        BY <2>1, <2>2, <2>5
      <3> HIDE DEF old, p
      <3>3. QED BY <2>3, <2>5, <3>1, <3>2
    <2>6. CASE p \notin wanted
      <3>1. h[k + 1] = h[k]
        BY <2>3, <2>6
      <3>2. QED BY <2>1, <2>4, <2>6, <3>1
    <2>7. QED BY <2>5, <2>6
  <1>5. Good(n)
    <2> HIDE DEF Good
    <2>1. Nat \subseteq T
      <3> HIDE DEF T
      <3>1. QED BY <1>3, <1>4, Climb
    <2>2. QED BY <1>1, <2>1
  <1>6. h[n] \in Seq(S)
    BY <1>1, <1>2
  <1>7. QED BY <1>2, <1>5, <1>6 DEF n

(* The packets that are voice, of a sequence that has it in one piece.     *)
VoiceFrom(pkts, p, n) ==
  /\ p + n <= Len(pkts)
  /\ \A i \in 1 .. Len(pkts) : Voice(pkts[i]) <=> p < i /\ i <= p + n

(* How many of the first k packets are in it.                              *)
InBounds(p, n, k) == IF k <= p THEN 0 ELSE IF k <= p + n THEN k - p ELSE n

LEMMA InBoundsNext ==
  ASSUME NEW p \in Nat, NEW n \in Nat, NEW k \in Nat
  PROVE  /\ InBounds(p, n, k) \in Nat /\ InBounds(p, n, 0) = 0
         /\ p < k + 1 /\ k + 1 <= p + n =>
              InBounds(p, n, k) = k - p /\ InBounds(p, n, k + 1) = InBounds(p, n, k) + 1
         /\ ~(p < k + 1 /\ k + 1 <= p + n) => InBounds(p, n, k + 1) = InBounds(p, n, k)
         /\ p + n <= k => InBounds(p, n, k) = n
  BY DEF InBounds

LEMMA VoicesOfPiece ==
  ASSUME NEW S, NEW pkts \in Seq(S), NEW p \in Nat, NEW n \in Nat, VoiceFrom(pkts, p, n)
  PROVE  Voices(pkts) = [j \in 1 .. n |-> pkts[p + j]]
  <1> DEFINE wanted == {q \in Range(pkts) : Voice(q)}
             m == Len(pkts)
             w(k) == InBounds(p, n, k)
  <1>1. m \in Nat /\ \A i \in 1 .. m : pkts[i] \in S /\ (pkts[i] \in wanted <=> p < i /\ i <= p + n)
    BY DEF VoiceFrom, Range
  <1>0. PICK h \in [0 .. Len(pkts) -> Seq(S)] : Selects(h, pkts, wanted)
    BY SelectTrace
  <1>2. /\ h \in [0 .. m -> Seq(S)] /\ h[0] = <<>>
        /\ \A i \in 0 .. m - 1 :
             h[i + 1] = IF pkts[i + 1] \in wanted THEN Append(h[i], pkts[i + 1]) ELSE h[i]
        /\ Select(pkts, wanted) = h[m]
    BY <1>0 DEF Selects
  <1> DEFINE Good(k) == Len(h[k]) = w(k) /\ \A j \in 1 .. w(k) : h[k][j] = pkts[p + j]
             T == {k \in Nat : k <= m => Good(k)}
  <1> HIDE DEF m, wanted
  <1>3. 0 \in T
    <2>1. w(0) = 0 /\ h[0] = <<>>
      BY <1>2, InBoundsNext
    <2> HIDE DEF w
    <2>2. QED BY <2>1
  <1>4. ASSUME NEW k \in Nat, k \in T PROVE k + 1 \in T
    <2> SUFFICES ASSUME k + 1 <= m PROVE Good(k + 1)
      <3> HIDE DEF Good
      <3>1. QED OBVIOUS
    <2>1. k \in 0 .. m - 1 /\ k \in 0 .. m /\ k + 1 \in 1 .. m /\ Good(k)
      <3> HIDE DEF Good
      <3>1. QED BY <1>1, <1>4
    <2> DEFINE old == h[k]
               q == pkts[k + 1]
    <2>2. old \in Seq(S) /\ q \in S /\ Len(old) \in Nat /\ Len(old) = w(k)
      BY <1>1, <1>2, <2>1
    <2>3. h[k + 1] = IF q \in wanted THEN Append(old, q) ELSE old
      BY <1>2, <2>1
    <2>4. q \in wanted <=> p < k + 1 /\ k + 1 <= p + n
      BY <1>1, <2>1
    <2>5. CASE q \in wanted
      <3>1. w(k) = k - p /\ w(k + 1) = w(k) + 1 /\ w(k) \in Nat
        BY <2>4, <2>5, InBoundsNext
      <3>2. p + (w(k) + 1) = k + 1
        BY <3>1
      <3>3. Len(Append(old, q)) = w(k) + 1
        BY <2>2
      <3>4. \A j \in 1 .. w(k) + 1 : Append(old, q)[j] = IF j = w(k) + 1 THEN q ELSE old[j]
        BY <2>2
      <3>5. \A j \in 1 .. w(k) : old[j] = pkts[p + j]
        BY <2>1
      <3> HIDE DEF old, q, w
      <3>6. \A j \in 1 .. w(k) + 1 : Append(old, q)[j] = pkts[p + j]
        <4>1. TAKE j \in 1 .. w(k) + 1
        <4>2. CASE j = w(k) + 1
          <5>1. p + j = k + 1
            BY <3>2, <4>2
          <5>2. Append(old, q)[j] = q
            BY <3>4, <4>2
          <5>3. QED BY <5>1, <5>2 DEF q
        <4>3. CASE j # w(k) + 1
          <5>1. j \in 1 .. w(k)
            BY <3>1, <4>3
          <5>2. Append(old, q)[j] = old[j] /\ old[j] = pkts[p + j]
            BY <3>4, <3>5, <4>3, <5>1
          <5>3. QED BY <5>2
        <4>4. QED BY <4>2, <4>3
      <3>7. QED BY <2>3, <2>5, <3>1, <3>3, <3>6
    <2>6. CASE q \notin wanted
      <3>1. w(k + 1) = w(k)
        BY <2>4, <2>6, InBoundsNext
      <3>2. h[k + 1] = h[k]
        BY <2>3, <2>6
      <3> HIDE DEF w
      <3>3. QED BY <2>1, <3>1, <3>2
    <2>7. QED BY <2>5, <2>6
  <1>5. Good(m)
    <2> HIDE DEF Good
    <2>1. Nat \subseteq T
      <3> HIDE DEF T
      <3>1. QED BY <1>3, <1>4, Climb
    <2>2. QED BY <1>1, <2>1
  <1>6. h[m] \in Seq(S) /\ w(m) = n
    <2>1. p + n <= m
      BY DEF VoiceFrom, m
    <2>2. h[m] \in Seq(S) /\ m \in Nat
      BY <1>1, <1>2
    <2>3. QED BY <2>1, <2>2, InBoundsNext
  <1>7. Voices(pkts) = h[m]
    BY <1>2 DEF Voices, wanted
  <1> DEFINE all == h[m]
  <1>8. all \in Seq(S) /\ Len(all) = n /\ \A j \in 1 .. n : all[j] = pkts[p + j]
    BY <1>5, <1>6
  <1> HIDE DEF all
  <1>9. all = [j \in 1 .. n |-> pkts[p + j]]
    BY <1>8
  <1>10. QED BY <1>7, <1>9 DEF all
-----------------------------------------------------------------------------
LEMMA MinOf ==
  ASSUME NEW T, T \subseteq Nat, T # {}
  PROVE  Min(T) \in T /\ \A y \in T : Min(T) <= y
  <1>1. \E x \in T : \A y \in T : x <= y
    BY Least
  <1>2. QED BY <1>1 DEF Min

LEMMA Piece ==
  ASSUME NEW S, NEW s \in Seq(S), NEW a \in 1 .. Len(s) + 1, NEW b \in 0 .. Len(s)
  PROVE  /\ SubSeq(s, a, b) \in Seq(S)
         /\ Len(SubSeq(s, a, b)) = IF a <= b THEN b - a + 1 ELSE 0
         /\ \A i \in 1 .. Len(SubSeq(s, a, b)) : SubSeq(s, a, b)[i] = s[a + i - 1]
  <1>1. a \in Int /\ b \in Int /\ \A i \in a .. b : s[i] \in S
    OBVIOUS
  <1>2. /\ SubSeq(s, a, b) \in Seq(S)
        /\ Len(SubSeq(s, a, b)) = IF a <= b THEN b - a + 1 ELSE 0
        /\ \A i \in 1 .. b - a + 1 : SubSeq(s, a, b)[i] = s[a + i - 1]
    BY <1>1, SubSeqProperties
  <1>3. \A i \in 1 .. Len(SubSeq(s, a, b)) : i \in 1 .. b - a + 1
    BY <1>1, <1>2
  <1>4. QED BY <1>2, <1>3

(* What comes after the last voice of a template.                          *)
LastVoice(pkts) == SelectLastInSubSeq(pkts, 1, Len(pkts), Voice)
AfterVoice(pkts) == SubSeq(pkts, LastVoice(pkts) + 1, Len(pkts))
Terminated(pkts) == \E i \in DOMAIN AfterVoice(pkts) : StreamEnd(AfterVoice(pkts)[i])

LEMMA VoiceBounds ==
  ASSUME NEW S, NEW pkts \in Seq(S), NEW k \in 1 .. Len(pkts), Voice(pkts[k])
  PROVE  /\ SelectInSeq(pkts, Voice) \in 1 .. Len(pkts)
         /\ LastVoice(pkts) \in 1 .. Len(pkts)
         /\ \A i \in 1 .. Len(pkts) :
              Voice(pkts[i]) => SelectInSeq(pkts, Voice) <= i /\ i <= LastVoice(pkts)
  <1> DEFINE I == {i \in 1 .. Len(pkts) : Voice(pkts[i])}
  <1>1. Len(pkts) \in Nat /\ I \subseteq Nat /\ I # {} /\ I \in SUBSET (1 .. Len(pkts))
    OBVIOUS
  <1>2. SelectInSeq(pkts, Voice) = Min(I) /\ LastVoice(pkts) = Max(I)
    BY <1>1 DEF SelectInSeq, LastVoice, SelectLastInSubSeq
  <1>3. \A i \in 1 .. Len(pkts) : Voice(pkts[i]) => i \in I
    OBVIOUS
  <1> HIDE DEF I
  <1>4. Min(I) \in I /\ \A i \in I : Min(I) <= i
    BY <1>1, MinOf
  <1>5. Max(I) \in I /\ \A i \in I : i <= Max(I)
    BY <1>1, MaxOf
  <1>6. QED BY <1>1, <1>2, <1>3, <1>4, <1>5

(* No voice comes before the prefix ends or after the suffix begins, and   *)
(* what is sent of the suffix is a terminator if there is one.             *)
LEMMA TemplateSplit ==
  ASSUME NEW S, NEW pkts \in Seq(S), NEW k \in 1 .. Len(pkts), Voice(pkts[k])
  PROVE  LET parts == Split(pkts)
             end == FirstOnly(parts.suffix)
         IN /\ parts.prefix \in Seq(S) /\ \A i \in 1 .. Len(parts.prefix) : ~Voice(parts.prefix[i])
            /\ parts.voice = Voices(pkts) /\ parts.voice \in Seq(S) /\ parts.voice # <<>>
            /\ \A i \in 1 .. Len(parts.voice) : Voice(parts.voice[i])
            /\ end \in Seq(S) /\ Len(end) <= 1
            /\ \A i \in 1 .. Len(end) : ~Voice(end[i]) /\ (StreamEnd(end[i]) <=> Terminated(pkts))
            /\ end = <<>> => ~Terminated(pkts)
  <1> DEFINE first == SelectInSeq(pkts, Voice)
             last == LastVoice(pkts)
             after == AfterVoice(pkts)
             ends == Select(after, {p \in Range(after) : StreamEnd(p)})
             prefix == SubSeq(pkts, 1, first - 1)
             suffix == IF ends # <<>> THEN ends ELSE FirstOnly(after)
  <1>0. /\ first \in 1 .. Len(pkts) /\ last \in 1 .. Len(pkts)
        /\ \A i \in 1 .. Len(pkts) : Voice(pkts[i]) => first <= i /\ i <= last
    BY VoiceBounds, Zenon
  <1>1. Len(pkts) \in Nat /\ first \in 1 .. Len(pkts) /\ last \in 1 .. Len(pkts)
    BY <1>0
  <1>2. \A i \in 1 .. Len(pkts) : Voice(pkts[i]) => first <= i /\ i <= last
    BY <1>0
  <1>3. Split(pkts) = [prefix |-> prefix, voice |-> Voices(pkts), suffix |-> suffix]
    BY DEF Split, LastVoice, AfterVoice
  <1> HIDE DEF first, last
  <1>4. prefix \in Seq(S) /\ \A i \in 1 .. Len(prefix) : ~Voice(prefix[i])
    <2>1. 1 \in 1 .. Len(pkts) + 1 /\ first - 1 \in 0 .. Len(pkts)
      BY <1>1
    <2>2. /\ prefix \in Seq(S)
          /\ Len(prefix) = IF 1 <= first - 1 THEN (first - 1) - 1 + 1 ELSE 0
          /\ \A i \in 1 .. Len(prefix) : prefix[i] = pkts[1 + i - 1]
      BY <2>1, Piece
    <2>3. \A i \in 1 .. Len(prefix) : i \in 1 .. Len(pkts) /\ 1 + i - 1 = i /\ ~(first <= i)
      BY <1>1, <2>2
    <2>4. QED BY <1>2, <2>2, <2>3
  <1>5. /\ Voices(pkts) \in Seq(S) /\ Voices(pkts) # <<>>
        /\ \A i \in 1 .. Len(Voices(pkts)) : Voice(Voices(pkts)[i])
    <2> DEFINE wanted == {p \in Range(pkts) : Voice(p)}
    <2>1. /\ Select(pkts, wanted) \in Seq(S)
          /\ \A i \in 1 .. Len(Select(pkts, wanted)) : Select(pkts, wanted)[i] \in wanted
          /\ Select(pkts, wanted) = <<>> => \A i \in 1 .. Len(pkts) : pkts[i] \notin wanted
      <3> HIDE DEF wanted
      <3>1. QED BY Selected
    <2>2. pkts[k] \in wanted
      BY DEF Range
    <2>3. QED BY <2>1, <2>2 DEF Voices
  <1>6. after \in Seq(S) /\ \A i \in 1 .. Len(after) : ~Voice(after[i])
    <2>1. last + 1 \in 1 .. Len(pkts) + 1 /\ Len(pkts) \in 0 .. Len(pkts)
      BY <1>1
    <2>2. /\ after \in Seq(S)
          /\ Len(after) = IF last + 1 <= Len(pkts) THEN Len(pkts) - (last + 1) + 1 ELSE 0
          /\ \A i \in 1 .. Len(after) : after[i] = pkts[(last + 1) + i - 1]
      BY <2>1, Piece DEF AfterVoice, last
    <2>3. \A i \in 1 .. Len(after) : (last + 1) + i - 1 \in 1 .. Len(pkts) /\ ~((last + 1) + i - 1 <= last)
      BY <1>1, <2>2
    <2>4. QED BY <1>2, <2>2, <2>3
  <1> HIDE DEF after
  <1>7. Terminated(pkts) <=> \E i \in 1 .. Len(after) : StreamEnd(after[i])
    <2>1. DOMAIN after = 1 .. Len(after)
      BY <1>6
    <2>2. QED BY <2>1 DEF Terminated, after
  <1>8. /\ ends \in Seq(S) /\ \A i \in 1 .. Len(ends) : StreamEnd(ends[i]) /\ ~Voice(ends[i])
        /\ ends = <<>> <=> ~Terminated(pkts)
    <2> DEFINE wanted == {p \in Range(after) : StreamEnd(p)}
    <2>1. /\ Select(after, wanted) \in Seq(S)
          /\ \A i \in 1 .. Len(Select(after, wanted)) : Select(after, wanted)[i] \in wanted
          /\ Select(after, wanted) = <<>> => \A i \in 1 .. Len(after) : after[i] \notin wanted
      <3> HIDE DEF wanted
      <3>1. QED BY <1>6, Selected
    <2>2. \A i \in 1 .. Len(after) : StreamEnd(after[i]) => after[i] \in wanted
      BY <1>6 DEF Range
    <2>3. \A p \in wanted : StreamEnd(p) /\ \E i \in 1 .. Len(after) : p = after[i]
      BY <1>6 DEF Range
    <2> HIDE DEF wanted
    <2>4. ends = Select(after, wanted)
      BY DEF wanted
    <2>5. ends = <<>> => ~Terminated(pkts)
      BY <1>7, <2>1, <2>2, <2>4
    <2>6. ends # <<>> => Terminated(pkts)
      <3>1. ends # <<>> => 1 \in 1 .. Len(ends)
        BY <2>1, <2>4
      <3>2. ends # <<>> => ends[1] \in wanted
        BY <2>1, <2>4, <3>1
      <3>3. QED BY <1>7, <2>3, <3>2
    <2>7. \A i \in 1 .. Len(ends) : StreamEnd(ends[i]) /\ ~Voice(ends[i])
      BY <1>6, <2>1, <2>3, <2>4
    <2>8. QED BY <2>1, <2>4, <2>5, <2>6, <2>7
  <1> HIDE DEF ends
  <1> DEFINE end == FirstOnly(suffix)
  <1>9. /\ end \in Seq(S) /\ Len(end) <= 1
        /\ \A i \in 1 .. Len(end) : ~Voice(end[i]) /\ (StreamEnd(end[i]) <=> Terminated(pkts))
        /\ end = <<>> => ~Terminated(pkts)
    <2>1. CASE ends # <<>>
      <3>1. end = <<Head(ends)>> /\ Head(ends) = ends[1] /\ 1 \in 1 .. Len(ends)
        BY <1>8, <2>1 DEF FirstOnly
      <3>2. ends[1] \in S
        BY <1>8, <3>1
      <3> HIDE DEF end
      <3>3. end = <<ends[1]>> /\ StreamEnd(ends[1]) /\ ~Voice(ends[1])
        BY <1>8, <3>1
      <3>4. end \in Seq(S) /\ Len(end) = 1 /\ end # <<>> /\ \A i \in 1 .. Len(end) : end[i] = ends[1]
        BY <3>2, <3>3
      <3>5. QED BY <1>8, <2>1, <3>3, <3>4
    <2>2. CASE ends = <<>> /\ after = <<>>
      <3>1. end = <<>>
        BY <2>2 DEF FirstOnly
      <3> HIDE DEF end
      <3>2. QED BY <1>8, <2>2, <3>1
    <2>3. CASE ends = <<>> /\ after # <<>>
      <3>1. after[1] \in S /\ Head(after) = after[1] /\ 1 \in 1 .. Len(after)
        BY <1>6, <2>3
      <3>2. <<after[1]>> # <<>> /\ Head(<<after[1]>>) = after[1]
        OBVIOUS
      <3>3. end = <<after[1]>>
        BY <2>3, <3>1, <3>2 DEF FirstOnly
      <3> HIDE DEF end
      <3>4. ~Voice(after[1]) /\ ~StreamEnd(after[1]) /\ ~Terminated(pkts)
        BY <1>6, <1>7, <1>8, <2>3, <3>1
      <3>5. end \in Seq(S) /\ Len(end) = 1 /\ \A i \in 1 .. Len(end) : end[i] = after[1]
        BY <3>1, <3>3
      <3>6. QED BY <3>3, <3>4, <3>5
    <2>4. QED BY <2>1, <2>2, <2>3
  <1> HIDE DEF prefix, suffix, end
  <1>10. Split(pkts).prefix = prefix /\ Split(pkts).voice = Voices(pkts) /\ Split(pkts).suffix = suffix
    BY <1>3
  <1>11. QED BY <1>4, <1>5, <1>9, <1>10 DEF end
-----------------------------------------------------------------------------
(* The AMBE frames of the i-th packet, as the extractor numbers them.      *)
FramesOf(pkts, i) ==
  IF Voice(pkts[i])
  THEN [k \in 1 .. 3 |->
         [stream |-> pkts[i].stream, packet |-> i - 1, inPacket |-> k - 1,
          index |-> 3 * Cardinality({j \in 1 .. i - 1 : Voice(pkts[j]) /\ pkts[j].stream = pkts[i].stream}) + k - 1,
          data |-> <<pkts[i].payload.voice, k>>]]
  ELSE <<>>

LEMMA FramesInPacket ==
  ASSUME NEW S, NEW pkts \in Seq(S), NEW p \in Nat, NEW n \in Nat, VoiceFrom(pkts, p, n),
         NEW s, \A i \in 1 .. Len(pkts) : pkts[i].stream = s, NEW i \in 1 .. Len(pkts)
  PROVE  IF p < i /\ i <= p + n
         THEN /\ DOMAIN FramesOf(pkts, i) = 1 .. 3
              /\ FramesOf(pkts, i) = [k \in 1 .. 3 |-> FramesOf(pkts, i)[k]]
              /\ \A k \in 1 .. 3 : FramesOf(pkts, i)[k].index = 3 * (i - p - 1) + k - 1
         ELSE FramesOf(pkts, i) = <<>>
  <1>1. Len(pkts) \in Nat /\ (Voice(pkts[i]) <=> p < i /\ i <= p + n)
    BY DEF VoiceFrom
  <1>2. CASE p < i /\ i <= p + n
    <2> DEFINE Before == {j \in 1 .. i - 1 : Voice(pkts[j]) /\ pkts[j].stream = pkts[i].stream}
    <2>1. \A j \in 1 .. i - 1 : (Voice(pkts[j]) <=> p < j /\ j <= p + n) /\ pkts[j].stream = pkts[i].stream
      BY DEF VoiceFrom
    <2>2. Before = p + 1 .. i - 1
      BY <1>2, <2>1
    <2> DEFINE a == p + 1
               b == i - 1
    <2>3. a \in Int /\ b \in Int /\ (a > b => i - p - 1 = 0) /\ b - a + 1 = i - p - 1
      BY <1>2
    <2> HIDE DEF a, b
    <2>4. Cardinality(a .. b) = i - p - 1
      BY <2>3, FS_Interval
    <2> DEFINE earlier == Cardinality(Before)
    <2>5. earlier = i - p - 1
      BY <2>2, <2>4 DEF a, b
    <2>6. FramesOf(pkts, i) =
            [k \in 1 .. 3 |->
              [stream |-> pkts[i].stream, packet |-> i - 1, inPacket |-> k - 1,
               index |-> 3 * earlier + k - 1, data |-> <<pkts[i].payload.voice, k>>]]
      BY <1>1, <1>2 DEF FramesOf
    <2> HIDE DEF earlier
    <2> DEFINE frames == FramesOf(pkts, i)
    <2>7. \A k \in 1 .. 3 : frames[k].index = 3 * earlier + k - 1
      BY <2>6
    <2>8. DOMAIN frames = 1 .. 3 /\ frames = [k \in 1 .. 3 |-> frames[k]]
      BY <2>6
    <2> HIDE DEF frames
    <2>9. \A k \in 1 .. 3 : frames[k].index = 3 * (i - p - 1) + k - 1
      BY <2>5, <2>7
    <2>10. QED BY <1>2, <2>8, <2>9 DEF frames
  <1>3. CASE ~(p < i /\ i <= p + n)
    BY <1>1, <1>3 DEF FramesOf
  <1>4. QED BY <1>2, <1>3

LEMMA JoinedEmpty ==
  ASSUME NEW S, NEW a \in Seq(S)
  PROVE  a \o <<>> = a
  OBVIOUS

LEMMA FramesNumbered ==
  ASSUME NEW S, NEW pkts \in Seq(S), NEW p \in Nat, NEW n \in Nat, VoiceFrom(pkts, p, n),
         NEW s, \A i \in 1 .. Len(pkts) : pkts[i].stream = s
  PROVE  \A i \in DOMAIN AmbeFrames(pkts) : AmbeFrames(pkts)[i].index = i - 1
  <1> DEFINE m == Len(pkts)
             F == {FramesOf(pkts, i)[k] : i \in 1 .. m, k \in 1 .. 3}
             seqs == [i \in 1 .. m |-> FramesOf(pkts, i)]
             w(k) == InBounds(p, n, k)
  <1>1. m \in Nat /\ DOMAIN pkts = 1 .. m
    OBVIOUS
  <1>2. AmbeFrames(pkts) = FlattenSeq(seqs)
    BY <1>1 DEF AmbeFrames, FramesOf
  <1>3. \A i \in 1 .. m :
          IF p < i /\ i <= p + n
          THEN /\ DOMAIN FramesOf(pkts, i) = 1 .. 3
               /\ FramesOf(pkts, i) = [k \in 1 .. 3 |-> FramesOf(pkts, i)[k]]
               /\ \A k \in 1 .. 3 : FramesOf(pkts, i)[k].index = 3 * (i - p - 1) + k - 1
          ELSE FramesOf(pkts, i) = <<>>
    BY FramesInPacket
  <1>4. \A i \in 1 .. m : FramesOf(pkts, i) \in Seq(F)
    <2>1. TAKE i \in 1 .. m
    <2>2. \A k \in 1 .. 3 : FramesOf(pkts, i)[k] \in F
      OBVIOUS
    <2> HIDE DEF F
    <2>3. CASE p < i /\ i <= p + n
      <3>1. FramesOf(pkts, i) = [k \in 1 .. 3 |-> FramesOf(pkts, i)[k]]
        BY <1>3, <2>3
      <3>2. [k \in 1 .. 3 |-> FramesOf(pkts, i)[k]] \in Seq(F)
        BY <2>2
      <3>3. QED BY <3>1, <3>2
    <2>4. CASE ~(p < i /\ i <= p + n)
      <3>1. FramesOf(pkts, i) = <<>>
        BY <1>3, <2>4
      <3>2. <<>> \in Seq(F)
        OBVIOUS
      <3>3. QED BY <3>1, <3>2
    <2>5. QED BY <2>3, <2>4
  <1> HIDE DEF F, m
  <1>5. seqs \in Seq(Seq(F)) /\ Len(seqs) = m /\ \A i \in 1 .. m : seqs[i] = FramesOf(pkts, i)
    BY <1>1, <1>4
  <1> HIDE DEF seqs
  <1>6. PICK h \in [0 .. m -> Seq(F)] :
           /\ h[0] = <<>>
           /\ \A i \in 0 .. m - 1 : h[i + 1] = h[i] \o seqs[i + 1]
           /\ FlattenSeq(seqs) = h[m]
    BY <1>5, FlattenTrace
  <1> DEFINE Good(k) == Len(h[k]) = 3 * w(k) /\ \A j \in 1 .. 3 * w(k) : h[k][j].index = j - 1
             T == {k \in Nat : k <= m => Good(k)}
  <1>7. 0 \in T
    <2>1. w(0) = 0 /\ h[0] = <<>>
      BY <1>6, InBoundsNext
    <2> HIDE DEF w
    <2>2. QED BY <2>1
  <1>8. ASSUME NEW k \in Nat, k \in T PROVE k + 1 \in T
    <2> SUFFICES ASSUME k + 1 <= m PROVE Good(k + 1)
      <3> HIDE DEF Good
      <3>1. QED OBVIOUS
    <2>1. k \in 0 .. m - 1 /\ k \in 0 .. m /\ k + 1 \in 1 .. m /\ Good(k)
      <3> HIDE DEF Good
      <3>1. QED BY <1>1, <1>8
    <2> DEFINE old == h[k]
               more == FramesOf(pkts, k + 1)
    <2>2. old \in Seq(F) /\ more \in Seq(F) /\ Len(old) \in Nat /\ Len(old) = 3 * w(k)
      <3> HIDE DEF w
      <3>1. QED BY <1>4, <1>6, <2>1
    <2>3. h[k + 1] = old \o more
      BY <1>5, <1>6, <2>1
    <2>4. CASE p < k + 1 /\ k + 1 <= p + n
      <3>1. w(k) = k - p /\ w(k + 1) = w(k) + 1 /\ w(k) \in Nat
        BY <2>4, InBoundsNext
      <3>2. Len(more) = 3 /\ \A j \in 1 .. 3 : more[j].index = 3 * w(k) + j - 1
        <4>1. /\ DOMAIN more = 1 .. 3
              /\ \A j \in 1 .. 3 : more[j].index = 3 * ((k + 1) - p - 1) + j - 1
          BY <1>3, <2>1, <2>4
        <4>2. Len(more) = 3
          BY <2>2, <4>1
        <4> HIDE DEF w, more
        <4>3. QED BY <3>1, <4>1, <4>2
      <3> HIDE DEF old, more, w
      <3> DEFINE new == old \o more
      <3>3. /\ Len(new) = 3 * w(k) + 3
            /\ \A j \in 1 .. 3 * w(k) : new[j] = old[j]
            /\ \A j \in 1 .. 3 : new[3 * w(k) + j] = more[j]
        <4>1. /\ Len(new) = Len(old) + Len(more)
              /\ \A j \in 1 .. Len(old) : new[j] = old[j]
              /\ \A j \in 1 .. Len(more) : new[Len(old) + j] = more[j]
          <5>1. old \in Seq(F) /\ more \in Seq(F)
            BY <2>2
          <5>2. QED BY <5>1, Joined
        <4> HIDE DEF new
        <4>2. QED BY <2>2, <3>2, <4>1
      <3>5. new = old \o more /\ Len(new) = 3 * w(k) + 3
        BY <3>3
      <3> HIDE DEF new
      <3>4. ASSUME NEW j \in 1 .. 3 * w(k) + 3 PROVE new[j].index = j - 1
        <4>1. CASE j <= 3 * w(k)
          <5>1. j \in 1 .. 3 * w(k)
            BY <3>1, <4>1
          <5>2. new[j] = old[j] /\ old[j].index = j - 1
            BY <2>1, <3>3, <5>1 DEF old
          <5>3. QED BY <5>2
        <4>2. CASE j > 3 * w(k)
          <5>1. j - 3 * w(k) \in 1 .. 3 /\ 3 * w(k) + (j - 3 * w(k)) = j
            BY <3>1, <4>2
          <5>2. new[j] = more[j - 3 * w(k)] /\ more[j - 3 * w(k)].index = 3 * w(k) + (j - 3 * w(k)) - 1
            BY <3>2, <3>3, <5>1
          <5>3. QED BY <3>1, <5>1, <5>2
        <4>3. j <= 3 * w(k) \/ j > 3 * w(k)
          BY <3>1
        <4>4. QED BY <4>1, <4>2, <4>3
      <3>6. h[k + 1] = new /\ 3 * w(k + 1) = 3 * w(k) + 3
        BY <2>3, <3>1, <3>5 DEF old, more
      <3>7. QED BY <3>4, <3>5, <3>6
    <2>5. CASE ~(p < k + 1 /\ k + 1 <= p + n)
      <3>1. w(k + 1) = w(k) /\ more = <<>>
        BY <1>3, <2>1, <2>5, InBoundsNext
      <3>2. old \o <<>> = old
        BY <2>2, JoinedEmpty
      <3>3. h[k + 1] = h[k]
        BY <2>3, <3>1, <3>2
      <3> HIDE DEF w
      <3>4. QED BY <2>1, <3>1, <3>3
    <2>6. QED BY <2>4, <2>5
  <1>9. Good(m)
    <2> HIDE DEF Good
    <2>1. Nat \subseteq T
      <3> HIDE DEF T
      <3>1. QED BY <1>7, <1>8, Climb
    <2>2. QED BY <1>1, <2>1
  <1>10. h[m] \in Seq(F)
    BY <1>1, <1>6
  <1> HIDE DEF w
  <1>11. DOMAIN h[m] = 1 .. 3 * w(m)
    BY <1>9, <1>10
  <1>12. QED BY <1>2, <1>6, <1>9, <1>11
-----------------------------------------------------------------------------
(* What the analyzer holds while it walks over packets of S, and how it    *)
(* gets from each packet to the next.                                      *)
Accs(S) == [cycles : Seq(Seq(S)), current : Seq(S)]
NoCycles == [cycles |-> <<>>, current |-> <<>>]
Closed(acc) == IF acc.current = <<>> THEN acc.cycles ELSE Append(acc.cycles, acc.current)

Cycling(h, pkts) ==
  /\ h[0] = NoCycles
  /\ \A i \in 0 .. Len(pkts) - 1 : h[i + 1] = CycleStep(h[i], pkts[i + 1])
  /\ VoiceCycles(pkts) = Closed(h[Len(pkts)])

LEMMA CycleType ==
  ASSUME NEW S, NEW acc \in Accs(S), NEW pkt \in S
  PROVE  CycleStep(acc, pkt) \in Accs(S) /\ Closed(acc) \in Seq(Seq(S))
  <1>1. acc.cycles \in Seq(Seq(S)) /\ acc.current \in Seq(S)
    BY DEF Accs
  <1>2. Append(acc.current, pkt) \in Seq(S) /\ <<pkt>> \in Seq(S) /\ <<>> \in Seq(S)
    BY <1>1
  <1>3. Append(acc.cycles, acc.current) \in Seq(Seq(S))
    BY <1>1
  <1>4. Closed(acc) \in Seq(Seq(S))
    BY <1>1, <1>3 DEF Closed
  <1>5. [acc EXCEPT !.current = Append(@, pkt)] \in Accs(S)
    BY <1>1, <1>2 DEF Accs
  <1>6. [cycles |-> Closed(acc), current |-> <<pkt>>] \in Accs(S)
        /\ [cycles |-> Closed(acc), current |-> <<>>] \in Accs(S)
    BY <1>2, <1>4 DEF Accs
  <1>7. QED BY <1>4, <1>5, <1>6 DEF CycleStep, Closed

LEMMA CycleTrace ==
  ASSUME NEW S, NEW pkts \in Seq(S)
  PROVE  \E h \in [0 .. Len(pkts) -> Accs(S)] : Cycling(h, pkts)
  <1> DEFINE n == Len(pkts)
             F == [x \in Accs(S) \X (1 .. n) |-> CycleStep(x[1], pkts[x[2]])]
             Body(g) == [s \in SUBSET (1 .. n) |->
                          IF s = {} THEN NoCycles ELSE CycleStep(g[s \ {Max(s)}], pkts[Max(s)])]
             iter == CHOOSE g : g = Body(g)
  <1>1. n \in Nat /\ DOMAIN pkts = 1 .. n /\ \A i \in 1 .. n : pkts[i] \in S
    OBVIOUS
  <1>2. VoiceCycles(pkts) = Closed(iter[1 .. n])
    BY <1>1 DEF VoiceCycles, FoldLeft, MapThenFoldSet, Closed, NoCycles
  <1>3. F \in [Accs(S) \X (1 .. n) -> Accs(S)]
    BY <1>1, CycleType
  <1>4. NoCycles \in Accs(S)
    BY DEF NoCycles, Accs
  <1>5. PICK g \in [SUBSET (1 .. n) -> Accs(S)] : FoldsBy(g, F, NoCycles, n)
    <2> HIDE DEF F, n
    <2>1. QED BY <1>1, <1>3, <1>4, FoldExists
  <1>6. g = Body(g)
    <2>1. ASSUME NEW s \in SUBSET (1 .. n)
          PROVE  g[s] = IF s = {} THEN NoCycles ELSE CycleStep(g[s \ {Max(s)}], pkts[Max(s)])
      <3>1. CASE s = {}
        BY <1>5, <3>1 DEF FoldsBy
      <3>2. CASE s # {}
        <4>1. Max(s) \in 1 .. n
          BY <1>1, <3>2, MaxOf
        <4>2. g[s \ {Max(s)}] \in Accs(S)
          BY <1>5
        <4>3. F[<<g[s \ {Max(s)}], Max(s)>>] = CycleStep(g[s \ {Max(s)}], pkts[Max(s)])
          BY <4>1, <4>2
        <4>4. QED BY <1>5, <3>2, <4>3 DEF FoldsBy
      <3>3. QED BY <3>1, <3>2
    <2>2. QED BY <1>5, <2>1
  <1>7. iter = Body(iter)
    BY <1>6
  <1> DEFINE h == [i \in 0 .. n |-> iter[1 .. i]]
  <1> HIDE DEF iter, n
  <1>8. iter[{}] = NoCycles
    BY <1>7
  <1>9. ASSUME NEW i \in 0 .. n - 1 PROVE iter[1 .. i + 1] = CycleStep(iter[1 .. i], pkts[i + 1])
    <2>1. /\ 1 .. i + 1 \in SUBSET (1 .. n) /\ 1 .. i + 1 # {}
          /\ Max(1 .. i + 1) = i + 1 /\ (1 .. i + 1) \ {i + 1} = 1 .. i
      BY <1>1, MaxInterval
    <2>2. QED BY <1>7, <2>1
  <1>10. \A i \in 0 .. n : h[i] \in Accs(S)
    <2> DEFINE T == {i \in Nat : i <= n => h[i] \in Accs(S)}
    <2>1. 0 \in T
      <3>1. 1 .. 0 = {} /\ h[0] = iter[1 .. 0]
        BY <1>1
      <3> HIDE DEF h
      <3>2. QED BY <1>4, <1>8, <3>1
    <2>2. ASSUME NEW i \in Nat, i \in T PROVE i + 1 \in T
      <3> SUFFICES ASSUME i + 1 <= n PROVE h[i + 1] \in Accs(S)
        OBVIOUS
      <3>1. i \in 0 .. n - 1 /\ i + 1 \in 0 .. n /\ i \in 0 .. n
        BY <1>1
      <3>2. h[i] \in Accs(S)
        BY <2>2, <3>1
      <3>3. h[i + 1] = CycleStep(h[i], pkts[i + 1])
        BY <1>9, <3>1
      <3>4. pkts[i + 1] \in S
        BY <1>1, <3>1
      <3> HIDE DEF h
      <3>5. QED BY <3>2, <3>3, <3>4, CycleType
    <2> HIDE DEF T, h
    <2>3. Nat \subseteq T
      BY <2>1, <2>2, Climb
    <2>4. QED BY <1>1, <2>3 DEF T
  <1>11. h \in [0 .. n -> Accs(S)] /\ h[0] = NoCycles /\ VoiceCycles(pkts) = Closed(h[n])
    <2>1. 1 .. 0 = {} /\ h[0] = iter[1 .. 0] /\ h[n] = iter[1 .. n]
      BY <1>1
    <2>2. h \in [0 .. n -> Accs(S)]
      BY <1>10
    <2> HIDE DEF h
    <2>3. QED BY <1>2, <1>8, <2>1, <2>2
  <1>12. \A i \in 0 .. n - 1 : h[i + 1] = CycleStep(h[i], pkts[i + 1])
    BY <1>1, <1>9
  <1> HIDE DEF h
  <1>13. Cycling(h, pkts)
    BY <1>11, <1>12 DEF n, Cycling
  <1>14. QED BY <1>11, <1>13 DEF n
-----------------------------------------------------------------------------
(* v[i] is the voice among the first i packets.                            *)
Voicing(v, pkts) ==
  /\ v[0] = <<>>
  /\ \A i \in 0 .. Len(pkts) - 1 :
       v[i + 1] = IF Voice(pkts[i + 1]) THEN Append(v[i], pkts[i + 1]) ELSE v[i]
  /\ Voices(pkts) = v[Len(pkts)]

LEMMA VoiceTrace ==
  ASSUME NEW S, NEW pkts \in Seq(S)
  PROVE  \E v \in [0 .. Len(pkts) -> Seq(S)] : Voicing(v, pkts)
  <1> DEFINE wanted == {q \in Range(pkts) : Voice(q)}
  <1>1. PICK v \in [0 .. Len(pkts) -> Seq(S)] : Selects(v, pkts, wanted)
    BY SelectTrace
  <1>2. \A i \in 0 .. Len(pkts) - 1 : pkts[i + 1] \in wanted <=> Voice(pkts[i + 1])
    BY DEF Range
  <1>3. Voices(pkts) = Select(pkts, wanted)
    BY DEF Voices
  <1> HIDE DEF wanted
  <1>4. Voicing(v, pkts)
    BY <1>1, <1>2, <1>3 DEF Voicing, Selects
  <1>5. QED BY <1>4

(* The burst is the j-th of a stream of whole superframes.                 *)
InPlace(pkt, j) ==
  /\ pkt.flags.dtype = (j - 1) % Superframe
  /\ pkt.flags.frame = IF (j - 1) % Superframe = 0 THEN 1 ELSE 0

Sync(pkt) == pkt.flags.frame = 1 /\ pkt.flags.dtype = 0
Follows(pkt) == pkt.flags.frame = 0 /\ pkt.flags.dtype \in 1 .. Superframe - 1

LEMMA CycleCases ==
  ASSUME NEW S, NEW acc \in Accs(S), NEW pkt \in S
  PROVE  /\ Follows(pkt) /\ acc.current # <<>> =>
              /\ CycleStep(acc, pkt).cycles = acc.cycles
              /\ CycleStep(acc, pkt).current = Append(acc.current, pkt)
         /\ ~(Follows(pkt) /\ acc.current # <<>>) =>
              /\ CycleStep(acc, pkt).cycles = Closed(acc)
              /\ CycleStep(acc, pkt).current = IF Sync(pkt) THEN <<pkt>> ELSE <<>>
  BY DEF CycleStep, Accs, Closed, Follows, Sync

AllComplete(cycles) == \A i \in 1 .. Len(cycles) : CompleteCycle(cycles[i])

(* The packets in the cycles and in the one that is open.                  *)
Counted(acc) == Superframe * Len(acc.cycles) + Len(acc.current)

Opened(acc) ==
  acc.current # <<>> => /\ acc.current[1].flags.frame = 1
                        /\ \A i \in 2 .. Len(acc.current) : acc.current[i].flags.frame = 0

(* The cycles hold all of the voice v.                                     *)
Held(v, acc) ==
  /\ \A j \in 1 .. Superframe * Len(acc.cycles) : InPlace(v[j], j)
  /\ \A i \in 1 .. Len(acc.current) : v[Superframe * Len(acc.cycles) + i] = acc.current[i]

LEMMA Closing ==
  ASSUME NEW S, NEW acc \in Accs(S), AllComplete(Closed(acc)), Opened(acc)
  PROVE  /\ AllComplete(acc.cycles)
         /\ Superframe * Len(Closed(acc)) = Counted(acc)
         /\ \A v : Held(v, acc) => \A j \in 1 .. Counted(acc) : InPlace(v[j], j)
  <1> DEFINE cycles == acc.cycles
             current == acc.current
             n == Superframe * Len(cycles)
  <1>1. cycles \in Seq(Seq(S)) /\ current \in Seq(S) /\ Len(cycles) \in Nat /\ Len(current) \in Nat
    BY DEF Accs
  <1>2. Superframe \in Nat \ {0}
    BY PacketAssumption
  <1>3. CASE current = <<>>
    <2>1. Closed(acc) = cycles /\ Len(current) = 0
      BY <1>3 DEF Closed
    <2>2. Counted(acc) = n
      BY <1>1, <1>2, <2>1 DEF Counted
    <2> HIDE DEF cycles, current
    <2>3. QED BY <2>1, <2>2 DEF Held, cycles
  <1>4. CASE current # <<>>
    <2> DEFINE longer == Append(cycles, current)
    <2>1. Closed(acc) = longer
      BY <1>4 DEF Closed
    <2>2. /\ Len(longer) = Len(cycles) + 1 /\ longer[Len(cycles) + 1] = current
          /\ \A i \in 1 .. Len(cycles) : longer[i] = cycles[i]
      BY <1>1
    <2> HIDE DEF longer, cycles, current
    <2>3. \A i \in 1 .. Len(cycles) + 1 : CompleteCycle(longer[i])
      BY <2>1, <2>2 DEF AllComplete
    <2>4. AllComplete(cycles)
      <3>1. \A i \in 1 .. Len(cycles) : i \in 1 .. Len(cycles) + 1
        BY <1>1
      <3>2. QED BY <2>2, <2>3, <3>1 DEF AllComplete
    <2>5. CompleteCycle(current)
      <3>1. Len(cycles) + 1 \in 1 .. Len(cycles) + 1
        BY <1>1
      <3>2. QED BY <2>2, <2>3, <3>1
    <2>6. Len(current) = Superframe /\ \A i \in 1 .. Superframe : current[i].flags.dtype = i - 1
      <3>1. DOMAIN current = 1 .. Len(current)
        BY <1>1
      <3>2. QED BY <2>5, <3>1 DEF CompleteCycle
    <2>7. n \in Nat /\ Superframe * (Len(cycles) + 1) = n + Superframe /\ Counted(acc) = n + Superframe
      BY <1>1, <1>2, <2>6 DEF Counted, cycles, current
    <2>8. ASSUME NEW v, Held(v, acc), NEW j \in 1 .. n + Superframe PROVE InPlace(v[j], j)
      <3>1. CASE j <= n
        <4>1. j \in 1 .. n
          BY <2>7, <3>1
        <4>2. QED BY <2>8, <4>1 DEF Held, cycles
      <3>2. CASE j > n
        <4> DEFINE i == j - n
        <4>1. i \in 1 .. Superframe /\ n + i = j /\ i - 1 \in 0 .. Superframe - 1 /\ j - 1 = n + (i - 1)
          BY <1>2, <2>7, <3>2
        <4>2. (n + (i - 1)) % Superframe = i - 1
          <5>1. Len(cycles) \in Nat
            BY <1>1
          <5> HIDE DEF i
          <5>2. ((Superframe * Len(cycles)) + (i - 1)) % Superframe = i - 1
            BY <1>2, <4>1, <5>1, Remainder
          <5>3. QED BY <5>2
        <4>3. v[n + i] = current[i]
          <5>1. \A k \in 1 .. Len(current) : v[n + k] = current[k]
            BY <2>8 DEF Held, cycles, current
          <5> HIDE DEF n, i
          <5>2. QED BY <2>6, <4>1, <5>1
        <4>4. current[i].flags.frame = IF i - 1 = 0 THEN 1 ELSE 0
          <5>1. current[1].flags.frame = 1 /\ \A k \in 2 .. Len(current) : current[k].flags.frame = 0
            BY <1>4 DEF Opened, current
          <5> HIDE DEF n, i
          <5>2. QED BY <2>6, <4>1, <5>1
        <4> HIDE DEF n, i
        <4>5. v[j] = current[i] /\ current[i].flags.dtype = i - 1 /\ (j - 1) % Superframe = i - 1
          BY <2>6, <4>1, <4>2, <4>3
        <4>6. QED BY <4>4, <4>5 DEF InPlace
      <3>3. QED BY <2>7, <3>1, <3>2
    <2> HIDE DEF n
    <2>9. Superframe * Len(Closed(acc)) = Counted(acc)
      BY <2>1, <2>2, <2>7
    <2>10. QED BY <2>4, <2>7, <2>8, <2>9 DEF cycles
  <1>5. QED BY <1>3, <1>4

(* As long as its cycles are complete the analyzer has counted no more     *)
(* packets than were voice, and if it has counted as many it holds them.   *)
Walking(v, acc) ==
  AllComplete(acc.cycles) =>
    /\ Counted(acc) <= Len(v)
    /\ Opened(acc)
    /\ Counted(acc) = Len(v) => Held(v, acc)

LEMMA Appended ==
  ASSUME NEW S, NEW s \in Seq(S), NEW e \in S
  PROVE  /\ Len(Append(s, e)) = Len(s) + 1 /\ Append(s, e)[Len(s) + 1] = e /\ Append(s, e) # <<>>
         /\ \A i \in 1 .. Len(s) : Append(s, e)[i] = s[i]
  OBVIOUS

LEMMA WalkingNext ==
  ASSUME NEW S, NEW acc \in Accs(S), NEW v \in Seq(S), NEW pkt \in S, Walking(v, acc)
  PROVE  Walking(IF Voice(pkt) THEN Append(v, pkt) ELSE v, CycleStep(acc, pkt))
  <1> DEFINE next == CycleStep(acc, pkt)
             w == IF Voice(pkt) THEN Append(v, pkt) ELSE v
             cycles == acc.cycles
             current == acc.current
             n == Superframe * Len(cycles)
  <1> SUFFICES ASSUME AllComplete(next.cycles)
               PROVE  Counted(next) <= Len(w) /\ Opened(next) /\ (Counted(next) = Len(w) => Held(w, next))
    BY DEF Walking
  <1>1. /\ cycles \in Seq(Seq(S)) /\ current \in Seq(S) /\ Len(cycles) \in Nat /\ Len(current) \in Nat
        /\ Superframe \in Nat \ {0} /\ n \in Nat /\ Len(v) \in Nat
    BY PacketAssumption DEF Accs
  <1>2. /\ Follows(pkt) /\ current # <<>> => next.cycles = cycles /\ next.current = Append(current, pkt)
        /\ ~(Follows(pkt) /\ current # <<>>) =>
              next.cycles = Closed(acc) /\ next.current = IF Sync(pkt) THEN <<pkt>> ELSE <<>>
    BY CycleCases
  <1>3. Counted(acc) = n + Len(current)
    BY DEF Counted
  <1>4. Counted(next) = Superframe * Len(next.cycles) + Len(next.current)
    BY DEF Counted
  <1>5. Append(v, pkt) \in Seq(S) /\ Len(Append(v, pkt)) = Len(v) + 1 /\ Append(v, pkt)[Len(v) + 1] = pkt
        /\ \A j \in 1 .. Len(v) : Append(v, pkt)[j] = v[j]
    BY <1>1
  <1> HIDE DEF next
  <1>6. CASE Follows(pkt) /\ current # <<>>
    <2> DEFINE longer == Append(current, pkt)
    <2>1. next.cycles = cycles /\ next.current = longer
      BY <1>2, <1>6
    <2>2. Voice(pkt) /\ w = Append(v, pkt)
      BY <1>6 DEF Follows, Voice
    <2>3. /\ Len(longer) = Len(current) + 1 /\ longer[Len(current) + 1] = pkt /\ longer # <<>>
          /\ \A i \in 1 .. Len(current) : longer[i] = current[i]
      BY <1>1, Appended
    <2>4. /\ Counted(acc) <= Len(v) /\ Opened(acc)
          /\ Counted(acc) = Len(v) => Held(v, acc)
      BY <2>1 DEF Walking
    <2> HIDE DEF longer, w, current, cycles
    <2>5. Len(current) # 0
      BY <1>1, <1>6
    <2> HIDE DEF n
    <2>6. Counted(next) = n + Len(current) + 1 /\ Len(w) = Len(v) + 1
      BY <1>1, <1>4, <1>5, <2>1, <2>2, <2>3 DEF n
    <2>7. Counted(next) <= Len(w)
      BY <1>1, <1>3, <2>4, <2>6
    <2>8. Opened(next)
      <3>1. longer[1].flags.frame = 1
        <4>1. 1 \in 1 .. Len(current) /\ current[1].flags.frame = 1
          BY <1>1, <1>6, <2>4, <2>5 DEF Opened, current
        <4>2. QED BY <2>3, <4>1
      <3>2. ASSUME NEW i \in 2 .. Len(longer) PROVE longer[i].flags.frame = 0
        <4>1. CASE i = Len(current) + 1
          BY <1>6, <2>3, <4>1 DEF Follows
        <4>2. CASE i # Len(current) + 1
          <5>1. i \in 2 .. Len(current) /\ i \in 1 .. Len(current)
            BY <1>1, <2>3, <4>2
          <5>2. current[i].flags.frame = 0
            BY <1>6, <2>4, <5>1 DEF Opened, current
          <5>3. QED BY <2>3, <5>1, <5>2
        <4>3. QED BY <4>1, <4>2
      <3>3. QED BY <2>1, <3>1, <3>2 DEF Opened
    <2>9. ASSUME Counted(next) = Len(w) PROVE Held(w, next)
      <3>1. n + Len(current) = Len(v) /\ Held(v, acc)
        BY <1>1, <1>3, <2>4, <2>6, <2>9
      <3>2. \A j \in 1 .. n : InPlace(v[j], j)
        BY <3>1 DEF Held, n, cycles
      <3>3. \A i \in 1 .. Len(current) : v[n + i] = current[i]
        BY <3>1 DEF Held, n, cycles, current
      <3>4. \A j \in 1 .. n : w[j] = v[j]
        BY <1>1, <1>5, <2>2, <3>1
      <3>5. ASSUME NEW i \in 1 .. Len(longer) PROVE w[n + i] = longer[i]
        <4>1. CASE i = Len(current) + 1
          <5>1. n + i = Len(v) + 1
            BY <1>1, <3>1, <4>1
          <5>2. QED BY <1>5, <2>2, <2>3, <4>1, <5>1
        <4>2. CASE i # Len(current) + 1
          <5>1. i \in 1 .. Len(current) /\ n + i \in 1 .. Len(v)
            BY <1>1, <2>3, <3>1, <4>2
          <5>2. QED BY <1>5, <2>2, <2>3, <3>3, <5>1
        <4>3. QED BY <4>1, <4>2
      <3>6. n = Superframe * Len(next.cycles)
        BY <2>1 DEF n
      <3>7. \A j \in 1 .. n : InPlace(w[j], j)
        BY <3>2, <3>4
      <3>8. QED BY <2>1, <3>5, <3>6, <3>7 DEF Held
    <2>10. QED BY <2>7, <2>8, <2>9
  <1>7. CASE ~(Follows(pkt) /\ current # <<>>)
    <2>1. next.cycles = Closed(acc) /\ next.current = IF Sync(pkt) THEN <<pkt>> ELSE <<>>
      BY <1>2, <1>7
    <2>2. AllComplete(acc.cycles)
      <3>1. Opened(acc) => AllComplete(acc.cycles)
        BY <2>1, Closing
      <3>2. Closed(acc) = IF current = <<>> THEN cycles ELSE Append(cycles, current)
        BY DEF Closed
      <3>3. CASE current = <<>>
        BY <2>1, <3>2, <3>3
      <3>4. CASE current # <<>>
        <4> DEFINE longer == Append(cycles, current)
        <4>1. Len(longer) = Len(cycles) + 1 /\ \A i \in 1 .. Len(cycles) : longer[i] = cycles[i]
          BY <1>1, Appended
        <4>2. longer = next.cycles
          BY <2>1, <3>2, <3>4
        <4> HIDE DEF longer, cycles
        <4>3. \A i \in 1 .. Len(cycles) : i \in 1 .. Len(longer)
          BY <1>1, <4>1
        <4>4. \A i \in 1 .. Len(cycles) : CompleteCycle(cycles[i])
          BY <4>1, <4>2, <4>3 DEF AllComplete
        <4>5. QED BY <4>4 DEF AllComplete, cycles
      <3>5. QED BY <3>3, <3>4
    <2>3. /\ Counted(acc) <= Len(v) /\ Opened(acc)
          /\ Counted(acc) = Len(v) => Held(v, acc)
      BY <2>2 DEF Walking
    <2>4. /\ Superframe * Len(Closed(acc)) = Counted(acc)
          /\ Held(v, acc) => \A j \in 1 .. Counted(acc) : InPlace(v[j], j)
      <3>1. AllComplete(Closed(acc))
        BY <2>1
      <3>2. QED BY <2>3, <3>1, Closing
    <2>5. Counted(acc) \in Nat
      <3> HIDE DEF n, current
      <3>1. QED BY <1>1, <1>3
    <2>6. Counted(next) = Counted(acc) + Len(next.current)
      BY <1>4, <2>1, <2>4
    <2> HIDE DEF w, n, cycles, current
    <2>7. CASE Sync(pkt)
      <3>1. Voice(pkt) /\ w = Append(v, pkt)
        BY <2>7 DEF Sync, Voice, w
      <3>2. next.current = <<pkt>>
        BY <2>1, <2>7
      <3>3. Len(<<pkt>>) = 1 /\ <<pkt>>[1] = pkt /\ <<pkt>> # <<>>
        OBVIOUS
      <3>4. Counted(next) = Counted(acc) + 1 /\ Len(w) = Len(v) + 1
        BY <1>5, <2>6, <3>1, <3>2, <3>3
      <3>5. Counted(next) <= Len(w)
        BY <1>1, <2>3, <2>5, <3>4
      <3>6. Opened(next)
        BY <2>7, <3>2, <3>3 DEF Opened, Sync
      <3>7. ASSUME Counted(next) = Len(w) PROVE Held(w, next)
        <4>1. Counted(acc) = Len(v) /\ \A j \in 1 .. Counted(acc) : InPlace(v[j], j)
          BY <1>1, <2>3, <2>4, <2>5, <3>4, <3>7
        <4>2. \A j \in 1 .. Counted(acc) : w[j] = v[j]
          BY <1>5, <3>1, <4>1
        <4>3. w[Counted(acc) + 1] = pkt
          BY <1>5, <3>1, <4>1
        <4>4. Superframe * Len(next.cycles) = Counted(acc)
          BY <2>1, <2>4
        <4>5. \A i \in 1 .. Len(next.current) : i = 1
          BY <3>2, <3>3
        <4>6. \A i \in 1 .. Len(next.current) : w[Counted(acc) + i] = next.current[i]
          BY <3>2, <3>3, <4>3, <4>5
        <4>7. \A j \in 1 .. Counted(acc) : InPlace(w[j], j)
          BY <4>1, <4>2
        <4>8. QED BY <4>4, <4>6, <4>7 DEF Held
      <3>8. QED BY <3>5, <3>6, <3>7
    <2>8. CASE ~Sync(pkt)
      <3>1. next.current = <<>> /\ Len(next.current) = 0
        BY <2>1, <2>8
      <3>2. Counted(next) = Counted(acc)
        BY <2>5, <2>6, <3>1
      <3>3. Opened(next)
        BY <3>1 DEF Opened
      <3>4. Len(w) = Len(v) + 1 \/ w = v
        BY <1>5 DEF w
      <3>5. Counted(next) <= Len(w)
        BY <1>1, <2>3, <2>5, <3>2, <3>4
      <3>6. ASSUME Counted(next) = Len(w) PROVE Held(w, next)
        <4>1. w = v /\ Counted(acc) = Len(v)
          BY <1>1, <2>3, <2>5, <3>2, <3>4, <3>6
        <4>2. \A j \in 1 .. Counted(acc) : InPlace(w[j], j)
          BY <2>3, <2>4, <4>1
        <4>3. Superframe * Len(next.cycles) = Counted(acc)
          BY <2>1, <2>4
        <4>4. \A i \in 1 .. Len(next.current) : FALSE
          BY <3>1
        <4>5. QED BY <4>2, <4>3, <4>4 DEF Held
      <3>7. QED BY <3>3, <3>5, <3>6
    <2>9. QED BY <2>7, <2>8
  <1>8. QED BY <1>6, <1>7

(* A recording made of whole superframes has each of its bursts in place.  *)
LEMMA WholePlaced ==
  ASSUME NEW S, NEW pkts \in Seq(S), WholeSuperframes(pkts)
  PROVE  \E c \in Nat : /\ Len(Voices(pkts)) = Superframe * c
                        /\ \A j \in 1 .. Len(Voices(pkts)) : InPlace(Voices(pkts)[j], j)
  <1>1. PICK h \in [0 .. Len(pkts) -> Accs(S)] : Cycling(h, pkts)
    BY CycleTrace
  <1>2. PICK v \in [0 .. Len(pkts) -> Seq(S)] : Voicing(v, pkts)
    BY VoiceTrace
  <1> DEFINE m == Len(pkts)
             T == {k \in Nat : k <= m => Walking(v[k], h[k])}
  <1>3. m \in Nat /\ \A i \in 1 .. m : pkts[i] \in S
    OBVIOUS
  <1>4. /\ h \in [0 .. m -> Accs(S)] /\ h[0] = NoCycles /\ VoiceCycles(pkts) = Closed(h[m])
        /\ \A i \in 0 .. m - 1 : h[i + 1] = CycleStep(h[i], pkts[i + 1])
    BY <1>1 DEF Cycling
  <1>5. /\ v \in [0 .. m -> Seq(S)] /\ v[0] = <<>> /\ Voices(pkts) = v[m]
        /\ \A i \in 0 .. m - 1 : v[i + 1] = IF Voice(pkts[i + 1]) THEN Append(v[i], pkts[i + 1]) ELSE v[i]
    BY <1>2 DEF Voicing
  <1> HIDE DEF m
  <1>6. 0 \in T
    <2>1. Len(NoCycles.cycles) = 0 /\ Len(NoCycles.current) = 0 /\ NoCycles.current = <<>>
      BY DEF NoCycles
    <2>2. Superframe * 0 = 0
      BY PacketAssumption
    <2>3. Opened(NoCycles) /\ Counted(NoCycles) = 0
      BY <2>1, <2>2 DEF Opened, Counted
    <2>4. Held(<<>>, NoCycles)
      BY <2>1, <2>2 DEF Held
    <2>5. Walking(v[0], h[0])
      <3>1. Len(v[0]) = 0
        BY <1>5
      <3>2. QED BY <1>4, <1>5, <2>3, <2>4, <3>1 DEF Walking
    <2>6. QED BY <2>5
  <1>7. ASSUME NEW k \in Nat, k \in T PROVE k + 1 \in T
    <2> SUFFICES ASSUME k + 1 <= m PROVE Walking(v[k + 1], h[k + 1])
      OBVIOUS
    <2>1. k \in 0 .. m - 1 /\ k \in 0 .. m /\ k + 1 \in 1 .. m /\ Walking(v[k], h[k])
      BY <1>3, <1>7
    <2>2. h[k] \in Accs(S) /\ v[k] \in Seq(S) /\ pkts[k + 1] \in S
      BY <1>3, <1>4, <1>5, <2>1
    <2>3. /\ h[k + 1] = CycleStep(h[k], pkts[k + 1])
          /\ v[k + 1] = IF Voice(pkts[k + 1]) THEN Append(v[k], pkts[k + 1]) ELSE v[k]
      BY <1>4, <1>5, <2>1
    <2>4. Walking(IF Voice(pkts[k + 1]) THEN Append(v[k], pkts[k + 1]) ELSE v[k], CycleStep(h[k], pkts[k + 1]))
      BY <2>1, <2>2, WalkingNext
    <2>5. QED BY <2>3, <2>4
  <1>8. Walking(v[m], h[m]) /\ h[m] \in Accs(S) /\ v[m] \in Seq(S)
    <2>1. Nat \subseteq T
      <3> HIDE DEF T
      <3>1. QED BY <1>6, <1>7, Climb
    <2>2. QED BY <1>3, <1>4, <1>5, <2>1
  <1> DEFINE acc == h[m]
             C == Closed(acc)
  <1>9. C \in Seq(Seq(S))
    <2>1. CASE acc.current = <<>>
      BY <1>8, <2>1 DEF Closed, Accs
    <2>2. CASE acc.current # <<>>
      <3>1. acc.cycles \in Seq(Seq(S)) /\ acc.current \in Seq(S)
        BY <1>8 DEF Accs
      <3>2. Append(acc.cycles, acc.current) \in Seq(Seq(S))
        BY <3>1
      <3>3. QED BY <2>2, <3>2 DEF Closed
    <2>3. QED BY <2>1, <2>2
  <1> HIDE DEF C, acc
  <1>10. AllComplete(C) /\ Superframe * Len(C) = Len(v[m]) /\ Len(C) \in Nat
    <2>1. VoiceCycles(pkts) = C /\ DOMAIN C = 1 .. Len(C) /\ Len(C) \in Nat
      BY <1>4, <1>9 DEF C, acc
    <2>2. QED BY <1>5, <2>1 DEF WholeSuperframes, AllComplete
  <1>11. AllComplete(acc.cycles)
    <2>1. acc.cycles \in Seq(Seq(S)) /\ acc.current \in Seq(S)
      BY <1>8 DEF Accs, acc
    <2>2. CASE acc.current = <<>>
      BY <1>10, <2>2 DEF Closed, C
    <2>3. CASE acc.current # <<>>
      <3> DEFINE cycles == acc.cycles
      <3>1. C = Append(cycles, acc.current)
        BY <2>3 DEF Closed, C
      <3>2. Len(cycles) \in Nat /\ Len(C) = Len(cycles) + 1 /\ \A i \in 1 .. Len(cycles) : C[i] = cycles[i]
        BY <2>1, <3>1
      <3> HIDE DEF cycles
      <3>3. \A i \in 1 .. Len(cycles) : CompleteCycle(cycles[i])
        BY <1>10, <3>2 DEF AllComplete
      <3>4. QED BY <3>3 DEF AllComplete, cycles
    <2>4. QED BY <2>2, <2>3
  <1>12. Opened(acc) /\ (Counted(acc) = Len(v[m]) => Held(v[m], acc))
    BY <1>8, <1>11 DEF Walking, acc
  <1>13. Counted(acc) = Len(v[m]) /\ \A j \in 1 .. Counted(acc) : InPlace(v[m][j], j)
    <2>1. acc \in Accs(S) /\ AllComplete(Closed(acc))
      BY <1>8, <1>10 DEF acc, C
    <2>2. /\ Superframe * Len(Closed(acc)) = Counted(acc)
          /\ Held(v[m], acc) => \A j \in 1 .. Counted(acc) : InPlace(v[m][j], j)
      BY <1>12, <2>1, Closing
    <2>3. QED BY <1>10, <1>12, <2>2 DEF C
  <1>14. QED BY <1>5, <1>10, <1>13
-----------------------------------------------------------------------------
LEMMA ModNext ==
  ASSUME NEW a \in Nat, NEW m \in Nat \ {0}
  PROVE  /\ a % m \in 0 .. m - 1
         /\ (a % m) + 1 < m => (a + 1) % m = (a % m) + 1
         /\ ~((a % m) + 1 < m) => (a % m) + 1 = m /\ (a + 1) % m = 0
  <1> DEFINE r == a % m
  <1>1. r \in 0 .. m - 1 /\ (r + 1) % m = (a + 1) % m
    BY Quotient, ModSucc
  <1> HIDE DEF r
  <1>2. CASE r + 1 < m
    <2>1. (r + 1) % m = r + 1
      BY <1>1, <1>2, SMTT(20)
    <2>2. QED BY <1>1, <1>2, <2>1 DEF r
  <1>3. CASE ~(r + 1 < m)
    <2>1. r + 1 = m
      BY <1>1, <1>3
    <2>2. (r + 1) % m = 0
      BY <2>1, SMTT(20)
    <2>3. QED BY <1>1, <1>3, <2>1, <2>2 DEF r
  <1>4. QED BY <1>2, <1>3

(* Of whole superframes repeated any number of times each burst is again   *)
(* in place.                                                               *)
LEMMA ModMod ==
  ASSUME NEW a \in Nat, NEW m \in Nat \ {0}, NEW c \in Nat \ {0}
  PROVE  (a % (m * c)) % m = a % m
  <1> DEFINE b == m * c
             q == a \div b
             r == a % b
             d == r \div m
             e == r % m
  <1>1. b \in Nat \ {0}
    OBVIOUS
  <1>2. q \in Nat /\ r \in Nat /\ a = (b * q) + r
    <2> HIDE DEF b
    <2>1. QED BY <1>1, Quotient
  <1>3. d \in Nat /\ e \in 0 .. m - 1 /\ r = (m * d) + e
    <2> HIDE DEF r
    <2>1. QED BY <1>2, Quotient
  <1> HIDE DEF q, r, d, e
  <1>4. a = (m * ((c * q) + d)) + e /\ (c * q) + d \in Nat
    <2>1. (m * c) * q = m * (c * q)
      BY <1>2
    <2>2. m * ((c * q) + d) = m * (c * q) + m * d
      BY <1>2, <1>3
    <2>3. QED BY <1>2, <1>3, <2>1, <2>2
  <1>5. a % m = e
    <2> DEFINE f == (c * q) + d
    <2>1. f \in Nat /\ a = (m * f) + e
      BY <1>4
    <2> HIDE DEF f
    <2>2. QED BY <1>3, <2>1, Remainder
  <1>6. QED BY <1>5 DEF e, r

AllButLast(cycles) == \A i \in 1 .. Len(cycles) - 1 : CompleteCycle(cycles[i])

(* What the analyzer holds after the first k packets of a stream that has  *)
(* n voice bursts from the p-th packet on, all of them in place.           *)
Growing(acc, p, n, k) ==
  /\ k <= p => acc.cycles = <<>> /\ acc.current = <<>>
  /\ p < k /\ k <= p + n =>
       /\ AllComplete(acc.cycles)
       /\ Len(acc.current) = ((k - p - 1) % Superframe) + 1
       /\ \A i \in 1 .. Len(acc.current) : acc.current[i].flags.dtype = i - 1
  /\ p + n < k => acc.current = <<>> /\ AllButLast(acc.cycles)

LEMMA CloseGrown ==
  ASSUME NEW S, NEW acc \in Accs(S), AllComplete(acc.cycles), acc.current # <<>>
  PROVE  /\ AllButLast(Closed(acc))
         /\ CompleteCycle(acc.current) => AllComplete(Closed(acc))
  <1> DEFINE cycles == acc.cycles
             longer == Append(cycles, acc.current)
  <1>1. cycles \in Seq(Seq(S)) /\ acc.current \in Seq(S) /\ Len(cycles) \in Nat
    BY DEF Accs
  <1>2. /\ Len(longer) = Len(cycles) + 1 /\ longer[Len(cycles) + 1] = acc.current
        /\ \A i \in 1 .. Len(cycles) : longer[i] = cycles[i]
    BY <1>1, Appended
  <1>3. Closed(acc) = longer
    BY DEF Closed
  <1> HIDE DEF longer, cycles
  <1>4. \A i \in 1 .. Len(cycles) : CompleteCycle(longer[i])
    BY <1>2 DEF AllComplete, cycles
  <1>5. AllButLast(longer)
    <2>1. \A i \in 1 .. Len(longer) - 1 : i \in 1 .. Len(cycles)
      BY <1>1, <1>2
    <2>2. QED BY <1>4, <2>1 DEF AllButLast
  <1>6. CompleteCycle(acc.current) => AllComplete(longer)
    <2>1. \A i \in 1 .. Len(longer) : i \in 1 .. Len(cycles) \/ i = Len(cycles) + 1
      BY <1>1, <1>2
    <2>2. QED BY <1>2, <1>4, <2>1 DEF AllComplete
  <1>7. QED BY <1>3, <1>5, <1>6

LEMMA GrowingNext ==
  ASSUME NEW S, NEW acc \in Accs(S), NEW pkt \in S, NEW p \in Nat, NEW n \in Nat \ {0}, NEW k \in Nat,
         Growing(acc, p, n, k),
         IF p < k + 1 /\ k + 1 <= p + n THEN InPlace(pkt, k + 1 - p) ELSE ~Voice(pkt)
  PROVE  Growing(CycleStep(acc, pkt), p, n, k + 1)
  <1> DEFINE next == CycleStep(acc, pkt)
             current == acc.current
  <1>1. /\ acc.cycles \in Seq(Seq(S)) /\ current \in Seq(S) /\ Len(current) \in Nat
        /\ Superframe \in Nat \ {0}
    BY PacketAssumption DEF Accs
  <1>2. /\ Follows(pkt) /\ current # <<>> => next.cycles = acc.cycles /\ next.current = Append(current, pkt)
        /\ ~(Follows(pkt) /\ current # <<>>) =>
              next.cycles = Closed(acc) /\ next.current = IF Sync(pkt) THEN <<pkt>> ELSE <<>>
    BY CycleCases
  <1>3. <<pkt>> # <<>> /\ Len(<<pkt>>) = 1 /\ <<pkt>>[1] = pkt
    OBVIOUS
  <1>4. current = <<>> => Closed(acc) = acc.cycles
    BY DEF Closed
  <1> HIDE DEF next, current
  <1>5. CASE k + 1 <= p
    <2>1. ~Sync(pkt) /\ ~Follows(pkt)
      BY <1>5 DEF Voice, Sync, Follows
    <2>2. acc.cycles = <<>> /\ current = <<>>
      BY <1>5 DEF Growing, current
    <2>3. next.cycles = <<>> /\ next.current = <<>>
      BY <1>2, <1>4, <2>1, <2>2
    <2>4. QED BY <1>5, <2>3 DEF Growing, next
  <1>6. CASE k = p
    <2>1. 0 % Superframe = 0 /\ k + 1 - p - 1 = 0 /\ k + 1 - p = 1
      <3>1. 0 % Superframe = 0
        BY <1>1, SMTT(20)
      <3>2. QED BY <1>6, <3>1
    <2>2. InPlace(pkt, 1)
      BY <1>6, <2>1
    <2>3. Sync(pkt) /\ ~Follows(pkt) /\ pkt.flags.dtype = 0
      <3>1. (1 - 1) % Superframe = 0
        BY <2>1
      <3>2. QED BY <2>2, <3>1 DEF InPlace, Sync, Follows
    <2>4. acc.cycles = <<>> /\ current = <<>>
      BY <1>6 DEF Growing, current
    <2>5. next.cycles = <<>> /\ next.current = <<pkt>>
      BY <1>2, <1>4, <2>3, <2>4
    <2>6. AllComplete(next.cycles) /\ Len(next.current) = 1
          /\ \A i \in 1 .. Len(next.current) : next.current[i].flags.dtype = i - 1
      BY <1>3, <2>3, <2>5 DEF AllComplete
    <2>7. QED BY <1>6, <2>1, <2>6 DEF Growing, next
  <1>7. CASE p < k /\ k + 1 <= p + n
    <2> DEFINE a == k - p - 1
               r == a % Superframe
    <2>1. a \in Nat /\ k + 1 - p - 1 = a + 1 /\ k + 1 - p = a + 2
      BY <1>7
    <2> HIDE DEF a
    <2>2. /\ r \in 0 .. Superframe - 1
          /\ r + 1 < Superframe => (a + 1) % Superframe = r + 1
          /\ ~(r + 1 < Superframe) => r + 1 = Superframe /\ (a + 1) % Superframe = 0
      BY <1>1, <2>1, ModNext
    <2>3. /\ AllComplete(acc.cycles) /\ Len(current) = r + 1
          /\ \A i \in 1 .. Len(current) : current[i].flags.dtype = i - 1
      BY <1>7 DEF Growing, current, a
    <2> HIDE DEF r
    <2>4. InPlace(pkt, a + 2) /\ (a + 2) - 1 = a + 1
      BY <1>7, <2>1
    <2>5. /\ pkt.flags.dtype = (a + 1) % Superframe
          /\ pkt.flags.frame = IF (a + 1) % Superframe = 0 THEN 1 ELSE 0
      BY <2>4 DEF InPlace
    <2>6. current # <<>>
      <3>1. Len(current) # 0
        BY <2>2, <2>3
      <3>2. QED BY <3>1
    <2>7. SUFFICES /\ AllComplete(next.cycles)
                   /\ Len(next.current) = ((a + 1) % Superframe) + 1
                   /\ \A i \in 1 .. Len(next.current) : next.current[i].flags.dtype = i - 1
      BY <1>7, <2>1 DEF Growing, next
    <2>8. CASE r + 1 < Superframe
      <3>1. pkt.flags.dtype = r + 1 /\ pkt.flags.frame = 0 /\ (a + 1) % Superframe = r + 1
        BY <2>2, <2>5, <2>8
      <3>2. Follows(pkt)
        BY <1>1, <2>2, <2>8, <3>1 DEF Follows
      <3> DEFINE longer == Append(current, pkt)
      <3>3. next.cycles = acc.cycles /\ next.current = longer
        BY <1>2, <2>6, <3>2
      <3>4. /\ Len(longer) = Len(current) + 1 /\ longer[Len(current) + 1] = pkt
            /\ \A i \in 1 .. Len(current) : longer[i] = current[i]
        BY <1>1, Appended
      <3> HIDE DEF longer
      <3>5. \A i \in 1 .. Len(longer) : longer[i].flags.dtype = i - 1
        <4>1. TAKE i \in 1 .. Len(longer)
        <4>2. CASE i = Len(current) + 1
          BY <2>2, <2>3, <3>1, <3>4, <4>2
        <4>3. CASE i # Len(current) + 1
          <5>1. i \in 1 .. Len(current)
            BY <1>1, <3>4, <4>3
          <5>2. QED BY <2>3, <3>4, <5>1
        <4>4. QED BY <4>2, <4>3
      <3>6. QED BY <2>3, <3>1, <3>3, <3>4, <3>5
    <2>9. CASE ~(r + 1 < Superframe)
      <3>1. pkt.flags.dtype = 0 /\ pkt.flags.frame = 1 /\ (a + 1) % Superframe = 0 /\ Len(current) = Superframe
        BY <2>2, <2>3, <2>5, <2>9
      <3>2. Sync(pkt) /\ ~Follows(pkt)
        BY <3>1 DEF Sync, Follows
      <3>3. next.cycles = Closed(acc) /\ next.current = <<pkt>>
        BY <1>2, <3>2
      <3>4. CompleteCycle(current)
        <4>1. DOMAIN current = 1 .. Len(current)
          BY <1>1
        <4>2. QED BY <2>3, <3>1, <4>1 DEF CompleteCycle
      <3>5. AllComplete(Closed(acc))
        BY <2>3, <2>6, <3>4, CloseGrown DEF current
      <3>6. \A i \in 1 .. Len(next.current) : next.current[i].flags.dtype = i - 1
        BY <1>3, <3>1, <3>3
      <3>7. QED BY <1>3, <3>1, <3>3, <3>5, <3>6
    <2>10. QED BY <2>8, <2>9
  <1>8. CASE p + n < k + 1
    <2>1. ~Sync(pkt) /\ ~Follows(pkt)
      BY <1>8 DEF Voice, Sync, Follows
    <2>2. next.cycles = Closed(acc) /\ next.current = <<>>
      BY <1>2, <2>1
    <2>3. AllButLast(Closed(acc))
      <3>1. CASE k = p + n
        <4>1. p < k /\ k <= p + n /\ k - p - 1 \in Nat
          BY <3>1
        <4>2. AllComplete(acc.cycles) /\ Len(current) = ((k - p - 1) % Superframe) + 1
          BY <4>1 DEF Growing, current
        <4>3. (k - p - 1) % Superframe \in 0 .. Superframe - 1
          BY <1>1, <4>1, Quotient
        <4>4. current # <<>>
          <5>1. Len(current) # 0
            BY <4>2, <4>3
          <5>2. QED BY <5>1
        <4>5. QED BY <4>2, <4>4, CloseGrown DEF current
      <3>2. CASE k # p + n
        <4>1. p + n < k
          BY <1>8, <3>2
        <4>2. acc.current = <<>> /\ AllButLast(acc.cycles)
          BY <4>1 DEF Growing
        <4>3. QED BY <1>4, <4>2 DEF current
      <3>3. QED BY <3>1, <3>2
    <2>4. QED BY <1>8, <2>2, <2>3 DEF Growing, next
  <1>9. k + 1 <= p \/ k = p \/ (p < k /\ k + 1 <= p + n) \/ p + n < k + 1
    OBVIOUS
  <1>10. QED BY <1>5, <1>6, <1>7, <1>8, <1>9

(* A stream whose bursts are all in place is made of whole superframes,    *)
(* but for the last one.                                                   *)
LEMMA CyclesOfPiece ==
  ASSUME NEW S, NEW pkts \in Seq(S), NEW p \in Nat, NEW n \in Nat \ {0}, VoiceFrom(pkts, p, n),
         \A j \in 1 .. n : InPlace(pkts[p + j], j)
  PROVE  AllButLast(VoiceCycles(pkts))
  <1>1. PICK h \in [0 .. Len(pkts) -> Accs(S)] : Cycling(h, pkts)
    BY CycleTrace
  <1> DEFINE m == Len(pkts)
             T == {k \in Nat : k <= m => Growing(h[k], p, n, k)}
  <1>2. m \in Nat /\ p + n <= m /\ \A i \in 1 .. m : pkts[i] \in S /\ (Voice(pkts[i]) <=> p < i /\ i <= p + n)
    BY DEF VoiceFrom
  <1>3. /\ h \in [0 .. m -> Accs(S)] /\ h[0] = NoCycles /\ VoiceCycles(pkts) = Closed(h[m])
        /\ \A i \in 0 .. m - 1 : h[i + 1] = CycleStep(h[i], pkts[i + 1])
    BY <1>1 DEF Cycling
  <1> HIDE DEF m
  <1>4. 0 \in T
    BY <1>3 DEF Growing, NoCycles
  <1>5. ASSUME NEW k \in Nat, k \in T PROVE k + 1 \in T
    <2> SUFFICES ASSUME k + 1 <= m PROVE Growing(h[k + 1], p, n, k + 1)
      OBVIOUS
    <2>1. k \in 0 .. m - 1 /\ k \in 0 .. m /\ k + 1 \in 1 .. m /\ Growing(h[k], p, n, k)
      BY <1>2, <1>5
    <2>2. h[k] \in Accs(S) /\ pkts[k + 1] \in S /\ h[k + 1] = CycleStep(h[k], pkts[k + 1])
      BY <1>2, <1>3, <2>1
    <2>3. p < k + 1 /\ k + 1 <= p + n => InPlace(pkts[k + 1], k + 1 - p)
      <3>1. p < k + 1 /\ k + 1 <= p + n => k + 1 - p \in 1 .. n /\ p + (k + 1 - p) = k + 1
        OBVIOUS
      <3>2. QED BY <3>1
    <2>4. ~(p < k + 1 /\ k + 1 <= p + n) => ~Voice(pkts[k + 1])
      BY <1>2, <2>1
    <2>5. QED BY <2>1, <2>2, <2>3, <2>4, GrowingNext
  <1>6. Growing(h[m], p, n, m) /\ h[m] \in Accs(S)
    <2>1. Nat \subseteq T
      <3> HIDE DEF T
      <3>1. QED BY <1>4, <1>5, Climb
    <2>2. QED BY <1>2, <1>3, <2>1
  <1> DEFINE acc == h[m]
  <1>7. acc.current \in Seq(S) /\ Superframe \in Nat \ {0}
    BY <1>6, PacketAssumption DEF Accs
  <1>8. CASE m = p + n
    <2>1. p < m /\ m <= p + n /\ m - p - 1 \in Nat
      BY <1>2, <1>8
    <2>2. AllComplete(acc.cycles) /\ Len(acc.current) = ((m - p - 1) % Superframe) + 1
      BY <1>6, <2>1 DEF Growing
    <2>3. (m - p - 1) % Superframe \in 0 .. Superframe - 1
      BY <1>7, <2>1, Quotient
    <2>4. acc.current # <<>>
      <3>1. Len(acc.current) # 0
        BY <2>2, <2>3
      <3>2. QED BY <3>1
    <2>5. QED BY <1>3, <1>6, <2>2, <2>4, CloseGrown
  <1>9. CASE m # p + n
    <2>1. p + n < m
      BY <1>2, <1>9
    <2>2. acc.current = <<>> /\ AllButLast(acc.cycles)
      BY <1>6, <2>1 DEF Growing
    <2>3. QED BY <1>3, <2>2 DEF Closed
  <1>10. QED BY <1>8, <1>9
-----------------------------------------------------------------------------
LEMMA ThreeJoined ==
  ASSUME NEW S, NEW a \in Seq(S), NEW b \in Seq(S), NEW c \in Seq(S)
  PROVE  /\ a \o b \o c \in Seq(S) /\ Len(a \o b \o c) = Len(a) + Len(b) + Len(c)
         /\ \A i \in 1 .. Len(a) : (a \o b \o c)[i] = a[i]
         /\ \A i \in 1 .. Len(b) : (a \o b \o c)[Len(a) + i] = b[i]
         /\ \A i \in 1 .. Len(c) : (a \o b \o c)[Len(a) + Len(b) + i] = c[i]
  <1> DEFINE d == a \o b
             w == d \o c
  <1>1. /\ d \in Seq(S) /\ Len(d) = Len(a) + Len(b)
        /\ \A i \in 1 .. Len(a) : d[i] = a[i]
        /\ \A i \in 1 .. Len(b) : d[Len(a) + i] = b[i]
    BY Joined
  <1>2. Len(a) \in Nat /\ Len(b) \in Nat /\ Len(c) \in Nat
    OBVIOUS
  <1> HIDE DEF d
  <1>3. /\ w \in Seq(S) /\ Len(w) = Len(d) + Len(c)
        /\ \A i \in 1 .. Len(d) : w[i] = d[i]
        /\ \A i \in 1 .. Len(c) : w[Len(d) + i] = c[i]
    <2>1. d \in Seq(S) /\ c \in Seq(S)
      BY <1>1
    <2>2. QED BY <2>1, Joined
  <1> HIDE DEF w
  <1>4. \A i \in 1 .. Len(a) : i \in 1 .. Len(d)
    BY <1>1, <1>2
  <1>5. \A i \in 1 .. Len(b) : Len(a) + i \in 1 .. Len(d)
    BY <1>1, <1>2
  <1>6. QED BY <1>1, <1>2, <1>3, <1>4, <1>5 DEF w, d

(* The packets of a stream built around n blocks, before they are          *)
(* numbered: no voice but its bursts, and its last packet a terminator if  *)
(* the template has one after its voice.                                   *)
Bursts(voice, n) == [i \in 1 .. n |-> Burst(voice[((i - 1) % Len(voice)) + 1], Blocks(n)[i])]
BuiltPayloads(n) == [centre : Nat, voice : Nat \cup {<<"block", i>> : i \in 1 .. n}]

LEMMA BurstType ==
  ASSUME NEW voice \in Seq(Decodings), voice # <<>>, \A i \in 1 .. Len(voice) : Voice(voice[i]),
         NEW n \in Nat
  PROVE  /\ Bursts(voice, n) \in Seq(PacketsWith(BuiltPayloads(n))) /\ Len(Bursts(voice, n)) = n
         /\ \A j \in 1 .. n :
              /\ ((j - 1) % Len(voice)) + 1 \in 1 .. Len(voice)
              /\ Bursts(voice, n)[j].payload.voice = <<"block", j>>
              /\ Bursts(voice, n)[j].flags = voice[((j - 1) % Len(voice)) + 1].flags
              /\ Voice(Bursts(voice, n)[j]) /\ ~StreamEnd(Bursts(voice, n)[j])
  <1> DEFINE m == Len(voice)
             P == BuiltPayloads(n)
             At(j) == ((j - 1) % m) + 1
             bursts == Bursts(voice, n)
  <1>1. m \in Nat \ {0} /\ \A i \in 1 .. m : voice[i] \in Decodings /\ Voice(voice[i])
    OBVIOUS
  <1> HIDE DEF m
  <1>2. ASSUME NEW j \in 1 .. n PROVE At(j) \in 1 .. m
    <2>1. j - 1 \in Nat
      OBVIOUS
    <2>2. (j - 1) % m \in 0 .. m - 1
      BY <1>1, <2>1, Quotient
    <2>3. QED BY <1>1, <2>2
  <1>3. bursts = [j \in 1 .. n |-> Burst(voice[At(j)], <<"block", j>>)]
    BY DEF Bursts, Blocks, m
  <1>4. ASSUME NEW j \in 1 .. n
        PROVE  LET b == Burst(voice[At(j)], <<"block", j>>)
               IN /\ b \in PacketsWith(P) /\ b.payload.voice = <<"block", j>>
                  /\ b.flags = voice[At(j)].flags /\ Voice(b) /\ ~StreamEnd(b)
    <2> DEFINE t == voice[At(j)]
               block == <<"block", j>>
               b == Burst(t, block)
    <2>1. t \in Decodings /\ Voice(t)
      BY <1>1, <1>2
    <2>2. [centre |-> t.payload.centre, voice |-> block] \in P
      <3>1. block \in {<<"block", i>> : i \in 1 .. n}
        OBVIOUS
      <3>2. t.payload.centre \in Nat
        BY <2>1 DEF Decodings, Payloads
      <3> HIDE DEF block, t
      <3>3. QED BY <3>1, <3>2 DEF BuiltPayloads, block
    <2> HIDE DEF t, block, P
    <2>3. b = [t EXCEPT !.payload = [centre |-> t.payload.centre, voice |-> block]]
      BY <2>1 DEF Burst, Decodings
    <2>4. b \in PacketsWith(P) /\ b.payload.voice = block /\ b.flags = t.flags
      <3> DEFINE new == [centre |-> t.payload.centre, voice |-> block]
      <3>1. new.voice = block
        OBVIOUS
      <3>2. b = [t EXCEPT !.payload = new] /\ new \in P
        BY <2>2, <2>3
      <3> HIDE DEF new, b
      <3>3. b.payload = new /\ b.flags = t.flags
        BY <2>1, <3>2 DEF Decodings
      <3>4. b \in PacketsWith(P)
        BY <2>1, <3>2 DEF PacketsWith, Decodings
      <3>5. QED BY <3>1, <3>3, <3>4
    <2>5. Voice(b) /\ ~StreamEnd(b)
      BY <2>1, <2>4 DEF Voice, StreamEnd
    <2>6. QED BY <2>4, <2>5 DEF t, block
  <1> HIDE DEF bursts, At
  <1>5. ASSUME NEW j \in 1 .. n
        PROVE  /\ bursts[j] \in PacketsWith(P) /\ bursts[j].payload.voice = <<"block", j>>
               /\ bursts[j].flags = voice[At(j)].flags /\ Voice(bursts[j]) /\ ~StreamEnd(bursts[j])
    <2>1. bursts[j] = Burst(voice[At(j)], <<"block", j>>)
      BY <1>3
    <2>2. QED BY <1>4, <2>1
  <1>6. bursts \in Seq(PacketsWith(P)) /\ Len(bursts) = n
    <2>1. DOMAIN bursts = 1 .. n /\ bursts = [j \in 1 .. n |-> bursts[j]]
      BY <1>3
    <2> HIDE DEF P
    <2>2. QED BY <1>5, <2>1
  <1>7. QED BY <1>2, <1>5, <1>6 DEF At, bursts, m
-----------------------------------------------------------------------------
(* The stream built around n blocks, as the peer decodes it: the prefix of *)
(* the template, a burst for each block, and the end of the template.      *)
Place(j, m) == ((j - 1) % m) + 1

LEMMA Built ==
  ASSUME NEW capture \in Seq(Decodings), NEW k \in 1 .. Len(capture), Voice(capture[k]),
         NEW n \in Nat \ {0}
  PROVE  LET heard == Sent(Build(Blocks(n), capture, NewStream, Slot))
             voices == Voices(capture)
             p == Len(Split(capture).prefix)
         IN /\ heard \in Seq(Range(heard)) /\ SequenceGaps(heard) = {}
            /\ p \in Nat /\ VoiceFrom(heard, p, n)
            /\ \A i \in 1 .. Len(heard) : heard[i].stream = NewStream
            /\ voices \in Seq(Decodings) /\ Len(voices) \in Nat \ {0}
            /\ \A j \in 1 .. n :
                 /\ Place(j, Len(voices)) \in 1 .. Len(voices)
                 /\ heard[p + j].payload.voice = <<"block", j>>
                 /\ heard[p + j].flags.frame = voices[Place(j, Len(voices))].flags.frame
                 /\ heard[p + j].flags.dtype = voices[Place(j, Len(voices))].flags.dtype
            /\ StreamEnd(heard[Len(heard)]) <=> Terminated(capture)
  <1> DEFINE prefix == Split(capture).prefix
             end == FirstOnly(Split(capture).suffix)
             voices == Voices(capture)
             bursts == Bursts(voices, n)
             P == BuiltPayloads(n)
             S == PacketsWith(P)
             pkts == prefix \o bursts \o end
             p == Len(prefix)
             heard == Sent(Build(Blocks(n), capture, NewStream, Slot))
  <1>1. /\ prefix \in Seq(Decodings) /\ \A i \in 1 .. Len(prefix) : ~Voice(prefix[i])
        /\ Split(capture).voice = voices /\ voices \in Seq(Decodings) /\ voices # <<>>
        /\ \A i \in 1 .. Len(voices) : Voice(voices[i])
        /\ end \in Seq(Decodings) /\ Len(end) <= 1
        /\ \A i \in 1 .. Len(end) : ~Voice(end[i]) /\ (StreamEnd(end[i]) <=> Terminated(capture))
        /\ end = <<>> => ~Terminated(capture)
    <2>1. Split(capture).voice = voices
      BY DEF Split
    <2>2. QED BY <2>1, TemplateSplit
  <1>2. heard = Sent(Rewrite(pkts, NewStream, Slot))
    <2>1. DOMAIN Blocks(n) = 1 .. n
      BY DEF Blocks
    <2>2. Build(Blocks(n), capture, NewStream, Slot) = Rewrite(pkts, NewStream, Slot)
      BY <1>1, <2>1 DEF Build, Bursts
    <2>3. QED BY <2>2
  <1> HIDE DEF prefix, end, voices, heard
  <1>3. /\ bursts \in Seq(S) /\ Len(bursts) = n
        /\ \A j \in 1 .. n :
             /\ Place(j, Len(voices)) \in 1 .. Len(voices)
             /\ bursts[j].payload.voice = <<"block", j>>
             /\ bursts[j].flags = voices[Place(j, Len(voices))].flags
             /\ Voice(bursts[j]) /\ ~StreamEnd(bursts[j])
    <2>1. n \in Nat
      OBVIOUS
    <2>2. voices \in Seq(Decodings) /\ voices # <<>> /\ \A i \in 1 .. Len(voices) : Voice(voices[i])
      BY <1>1
    <2> HIDE DEF bursts, P
    <2>3. /\ bursts \in Seq(PacketsWith(P)) /\ Len(bursts) = n
          /\ \A j \in 1 .. n :
               /\ ((j - 1) % Len(voices)) + 1 \in 1 .. Len(voices)
               /\ bursts[j].payload.voice = <<"block", j>>
               /\ bursts[j].flags = voices[((j - 1) % Len(voices)) + 1].flags
               /\ Voice(bursts[j]) /\ ~StreamEnd(bursts[j])
      BY <2>1, <2>2, BurstType DEF bursts, P
    <2>4. QED BY <2>3 DEF Place
  <1>4. prefix \in Seq(S) /\ end \in Seq(S)
    <2>1. Decodings \subseteq S
      <3>1. Payloads \subseteq P
        BY DEF Payloads, BuiltPayloads
      <3>2. QED BY <3>1 DEF Decodings, PacketsWith
    <2> HIDE DEF S
    <2>2. QED BY <1>1, <2>1
  <1> HIDE DEF bursts, P
  <1>5. /\ pkts \in Seq(S) /\ Len(pkts) = p + n + Len(end)
        /\ \A i \in 1 .. p : pkts[i] = prefix[i]
        /\ \A j \in 1 .. n : pkts[p + j] = bursts[j]
        /\ \A i \in 1 .. Len(end) : pkts[p + n + i] = end[i]
    <2> HIDE DEF S
    <2>1. /\ pkts \in Seq(S) /\ Len(pkts) = Len(prefix) + Len(bursts) + Len(end)
          /\ \A i \in 1 .. Len(prefix) : pkts[i] = prefix[i]
          /\ \A i \in 1 .. Len(bursts) : pkts[Len(prefix) + i] = bursts[i]
          /\ \A i \in 1 .. Len(end) : pkts[Len(prefix) + Len(bursts) + i] = end[i]
      <3>1. prefix \in Seq(S) /\ bursts \in Seq(S) /\ end \in Seq(S)
        BY <1>3, <1>4
      <3>2. QED BY <3>1, ThreeJoined
    <2> HIDE DEF pkts
    <2>2. QED BY <1>3, <2>1
  <1>6. p \in Nat /\ Len(end) \in Nat /\ n \in Nat
    BY <1>1
  <1> HIDE DEF pkts, p
  <1>7. /\ heard \in Seq(Range(heard)) /\ DOMAIN heard = 1 .. Len(pkts) /\ Len(heard) = Len(pkts)
        /\ SequenceGaps(heard) = {}
        /\ \A i \in 1 .. Len(pkts) :
             /\ heard[i].stream = NewStream
             /\ heard[i].payload = pkts[i].payload
             /\ heard[i].flags.frame = pkts[i].flags.frame
             /\ heard[i].flags.dtype = pkts[i].flags.dtype
    <2>1. pkts \in Seq(PacketsWith(P))
      BY <1>5
    <2>2. QED BY <1>2, <2>1, Renumbered
  <1>8. \A i \in 1 .. Len(pkts) :
          (Voice(heard[i]) <=> Voice(pkts[i])) /\ (StreamEnd(heard[i]) <=> StreamEnd(pkts[i]))
    BY <1>7 DEF Voice, StreamEnd
  <1>9. VoiceFrom(heard, p, n)
    <2>1. p + n <= Len(heard)
      BY <1>5, <1>6, <1>7
    <2>2. ASSUME NEW i \in 1 .. Len(heard) PROVE Voice(heard[i]) <=> p < i /\ i <= p + n
      <3>1. i \in 1 .. Len(pkts) /\ (Voice(heard[i]) <=> Voice(pkts[i]))
        BY <1>7, <1>8
      <3>2. CASE i <= p
        <4>1. i \in 1 .. p
          BY <1>6, <3>2
        <4>2. ~Voice(pkts[i])
          <5>1. pkts[i] = prefix[i] /\ i \in 1 .. Len(prefix)
            BY <1>5, <4>1 DEF p
          <5>2. QED BY <1>1, <5>1
        <4>3. QED BY <1>6, <3>1, <3>2, <4>2
      <3>3. CASE p < i /\ i <= p + n
        <4>1. i - p \in 1 .. n /\ p + (i - p) = i
          BY <1>6, <3>3
        <4>2. pkts[i] = bursts[i - p] /\ Voice(bursts[i - p])
          BY <1>3, <1>5, <4>1
        <4>3. QED BY <3>1, <3>3, <4>2
      <3>4. CASE p + n < i
        <4>1. i - p - n \in 1 .. Len(end) /\ p + n + (i - p - n) = i
          BY <1>5, <1>6, <1>7, <3>4
        <4>2. pkts[i] = end[i - p - n] /\ ~Voice(end[i - p - n])
          BY <1>1, <1>5, <4>1
        <4>3. QED BY <1>6, <3>1, <3>4, <4>2
      <3>5. QED BY <1>6, <3>2, <3>3, <3>4
    <2>3. QED BY <2>1, <2>2 DEF VoiceFrom
  <1>10. ASSUME NEW j \in 1 .. n
         PROVE  /\ heard[p + j].payload.voice = <<"block", j>>
                /\ heard[p + j].flags.frame = voices[Place(j, Len(voices))].flags.frame
                /\ heard[p + j].flags.dtype = voices[Place(j, Len(voices))].flags.dtype
    <2>1. p + j \in 1 .. Len(pkts)
      BY <1>5, <1>6
    <2>2. pkts[p + j] = bursts[j]
      BY <1>5
    <2>3. /\ heard[p + j].payload = bursts[j].payload
          /\ heard[p + j].flags.frame = bursts[j].flags.frame
          /\ heard[p + j].flags.dtype = bursts[j].flags.dtype
      BY <1>7, <2>1, <2>2
    <2>4. bursts[j].payload.voice = <<"block", j>> /\ bursts[j].flags = voices[Place(j, Len(voices))].flags
      BY <1>3
    <2> HIDE DEF Place
    <2>5. QED BY <2>3, <2>4
  <1>11. StreamEnd(heard[Len(heard)]) <=> Terminated(capture)
    <2>1. Len(heard) \in 1 .. Len(pkts) /\ Len(heard) = p + n + Len(end)
      BY <1>5, <1>6, <1>7
    <2>2. StreamEnd(heard[Len(heard)]) <=> StreamEnd(pkts[p + n + Len(end)])
      BY <1>8, <2>1
    <2>3. CASE end = <<>>
      <3>1. Len(end) = 0 /\ n \in 1 .. n
        BY <1>6, <2>3
      <3>2. pkts[p + n + Len(end)] = bursts[n] /\ ~StreamEnd(bursts[n])
        <4>1. pkts[p + n] = bursts[n] /\ ~StreamEnd(bursts[n])
          BY <1>3, <1>5, <3>1
        <4>2. p + n + Len(end) = p + n
          BY <1>6, <3>1
        <4>3. QED BY <4>1, <4>2
      <3>3. QED BY <1>1, <2>2, <2>3, <3>2
    <2>4. CASE end # <<>>
      <3>1. Len(end) \in 1 .. Len(end)
        BY <1>1, <1>6, <2>4
      <3>2. pkts[p + n + Len(end)] = end[Len(end)] /\ (StreamEnd(end[Len(end)]) <=> Terminated(capture))
        BY <1>1, <1>5, <3>1
      <3>3. QED BY <2>2, <3>2
    <2>5. QED BY <2>3, <2>4
  <1>12. Len(voices) \in Nat \ {0} /\ voices \in Seq(Decodings)
    BY <1>1
  <1>13. \A i \in 1 .. Len(heard) : heard[i].stream = NewStream
    BY <1>7
  <1> HIDE DEF Place
  <1>14. QED BY <1>3, <1>6, <1>7, <1>9, <1>10, <1>11, <1>12, <1>13 DEF heard, voices, p, prefix

(* Around a template of whole superframes the bursts are where the         *)
(* analyzer expects them, however often the template is gone through.      *)
LEMMA BuiltInPlace ==
  ASSUME NEW capture \in Seq(Decodings), WholeSuperframes(capture), NEW j \in Nat \ {0},
         Len(Voices(capture)) \in Nat \ {0}, NEW pkt,
         Place(j, Len(Voices(capture))) \in 1 .. Len(Voices(capture)),
         pkt.flags.frame = Voices(capture)[Place(j, Len(Voices(capture)))].flags.frame,
         pkt.flags.dtype = Voices(capture)[Place(j, Len(Voices(capture)))].flags.dtype
  PROVE  InPlace(pkt, j)
  <1> DEFINE voices == Voices(capture)
             m == Len(voices)
             at == Place(j, m)
  <1>1. PICK c \in Nat : m = Superframe * c /\ \A i \in 1 .. m : InPlace(voices[i], i)
    BY WholePlaced
  <1>2. Superframe \in Nat \ {0} /\ j - 1 \in Nat
    BY PacketAssumption
  <1>3. c # 0
    BY <1>1, <1>2
  <1>4. ((j - 1) % m) % Superframe = (j - 1) % Superframe
    <2>1. ((j - 1) % (Superframe * c)) % Superframe = (j - 1) % Superframe
      BY <1>2, <1>3, ModMod
    <2>2. QED BY <1>1, <2>1
  <1>5. (j - 1) % m \in Nat
    <2>1. m \in Nat \ {0}
      OBVIOUS
    <2> HIDE DEF m
    <2>2. QED BY <1>2, <2>1, ModNext
  <1>6. at - 1 = (j - 1) % m
    <2> DEFINE r == (j - 1) % m
    <2>1. at = r + 1 /\ r \in Nat
      BY <1>5 DEF Place
    <2> HIDE DEF r, at
    <2>2. at - 1 = r
      BY <2>1
    <2>3. QED BY <2>2 DEF r
  <1>7. InPlace(voices[at], at)
    BY <1>1
  <1>8. pkt.flags.frame = voices[at].flags.frame /\ pkt.flags.dtype = voices[at].flags.dtype
    OBVIOUS
  <1>9. (at - 1) % Superframe = (j - 1) % Superframe
    BY <1>4, <1>6
  <1> HIDE DEF at
  <1>10. QED BY <1>7, <1>8, <1>9 DEF InPlace

LEMMA TemplateServes ==
  ASSUME NEW capture \in Seq(Decodings), NEW k \in 1 .. Len(capture), Voice(capture[k]),
         NEW n \in Nat \ {0}
  PROVE  LET heard == Sent(Build(Blocks(n), capture, NewStream, Slot))
             voice == Voices(heard)
         IN /\ SequenceGaps(heard) = {}
            /\ [i \in DOMAIN voice |-> voice[i].payload.voice] = Blocks(n)
            /\ \A i \in DOMAIN AmbeFrames(heard) : AmbeFrames(heard)[i].index = i - 1
            /\ StreamEnd(heard[Len(heard)]) <=> Terminated(capture)
            /\ WholeSuperframes(capture) => AllButLast(VoiceCycles(heard))
  <1> DEFINE heard == Sent(Build(Blocks(n), capture, NewStream, Slot))
             voices == Voices(capture)
             p == Len(Split(capture).prefix)
             voice == Voices(heard)
             R == Range(heard)
  <1>1. /\ heard \in Seq(R) /\ SequenceGaps(heard) = {}
        /\ p \in Nat /\ VoiceFrom(heard, p, n)
        /\ \A i \in 1 .. Len(heard) : heard[i].stream = NewStream
        /\ voices \in Seq(Decodings) /\ Len(voices) \in Nat \ {0}
        /\ \A j \in 1 .. n :
             /\ Place(j, Len(voices)) \in 1 .. Len(voices)
             /\ heard[p + j].payload.voice = <<"block", j>>
             /\ heard[p + j].flags.frame = voices[Place(j, Len(voices))].flags.frame
             /\ heard[p + j].flags.dtype = voices[Place(j, Len(voices))].flags.dtype
        /\ StreamEnd(heard[Len(heard)]) <=> Terminated(capture)
    BY Built
  <1> HIDE DEF heard, p, R
  <1>2. n \in Nat
    OBVIOUS
  <1>3. voice = [j \in 1 .. n |-> heard[p + j]]
    BY <1>1, <1>2, VoicesOfPiece
  <1>4. [i \in DOMAIN voice |-> voice[i].payload.voice] = Blocks(n)
    <2>1. DOMAIN voice = 1 .. n /\ \A j \in 1 .. n : voice[j] = heard[p + j]
      BY <1>3
    <2> HIDE DEF voice
    <2>2. \A j \in 1 .. n : voice[j].payload.voice = <<"block", j>>
      BY <1>1, <2>1
    <2>3. QED BY <2>1, <2>2 DEF Blocks
  <1>5. \A i \in DOMAIN AmbeFrames(heard) : AmbeFrames(heard)[i].index = i - 1
    BY <1>1, <1>2, FramesNumbered
  <1>6. ASSUME WholeSuperframes(capture) PROVE AllButLast(VoiceCycles(heard))
    <2>1. ASSUME NEW j \in 1 .. n PROVE InPlace(heard[p + j], j)
      <3>1. j \in Nat \ {0}
        OBVIOUS
      <3> HIDE DEF Place, InPlace
      <3>2. QED BY <1>1, <1>6, <3>1, BuiltInPlace
    <2>2. QED BY <1>1, <2>1, CyclesOfPiece
  <1>7. QED BY <1>1, <1>4, <1>5, <1>6 DEF heard

(* The stream built around n blocks with any recording as its template has *)
(* those blocks as its voice, without gaps and with its end; whole         *)
(* superframes stay whole (tone_openbridge.py:75-144, runtime.py:57-74).   *)
THEOREM TemplatesBuild == Spec => []TemplateBuilds
  <1>1. IInv => TemplateBuilds
    <2> SUFFICES ASSUME IInv, NEW s \in Captures, NEW n \in 1 .. 2 * Superframe + 1,
                        Has(Decoded(files[s].raw), Voice)
                 PROVE  LET template == Decoded(files[s].raw)
                            heard == Sent(Build(Blocks(n), template, NewStream, Slot))
                            voice == Voices(heard)
                            cycles == VoiceCycles(heard)
                            lastVoice == SelectLastInSubSeq(template, 1, Len(template), Voice)
                        IN /\ SequenceGaps(heard) = {}
                           /\ [i \in DOMAIN voice |-> voice[i].payload.voice] = Blocks(n)
                           /\ \A i \in DOMAIN AmbeFrames(heard) : AmbeFrames(heard)[i].index = i - 1
                           /\ StreamEnd(heard[Len(heard)]) =
                                Has(SubSeq(template, lastVoice + 1, Len(template)), StreamEnd)
                           /\ WholeSuperframes(template) =>
                                \A i \in 1 .. Len(cycles) - 1 : CompleteCycle(cycles[i])
      BY DEF TemplateBuilds
    <2> DEFINE template == Decoded(files[s].raw)
    <2>1. template \in Seq(Decodings)
      BY CaptureOf DEF Captures
    <2>2. PICK k \in 1 .. Len(template) : Voice(template[k])
      BY <2>1 DEF Has
    <2>3. n \in Nat \ {0}
      BY PacketAssumption
    <2> HIDE DEF template
    <2>4. LET heard == Sent(Build(Blocks(n), template, NewStream, Slot))
              voice == Voices(heard)
          IN /\ SequenceGaps(heard) = {}
             /\ [i \in DOMAIN voice |-> voice[i].payload.voice] = Blocks(n)
             /\ \A i \in DOMAIN AmbeFrames(heard) : AmbeFrames(heard)[i].index = i - 1
             /\ StreamEnd(heard[Len(heard)]) <=> Terminated(template)
             /\ WholeSuperframes(template) => AllButLast(VoiceCycles(heard))
      BY <2>1, <2>2, <2>3, TemplateServes
    <2>5. Terminated(template) =
            Has(SubSeq(template, SelectLastInSubSeq(template, 1, Len(template), Voice) + 1, Len(template)), StreamEnd)
      BY DEF Terminated, AfterVoice, LastVoice, Has
    <2> DEFINE heard == Sent(Build(Blocks(n), template, NewStream, Slot))
               voice == Voices(heard)
               cycles == VoiceCycles(heard)
               after == SubSeq(template, SelectLastInSubSeq(template, 1, Len(template), Voice) + 1, Len(template))
    <2>6. SequenceGaps(heard) = {} /\ [i \in DOMAIN voice |-> voice[i].payload.voice] = Blocks(n)
      BY <2>4
    <2>7. \A i \in DOMAIN AmbeFrames(heard) : AmbeFrames(heard)[i].index = i - 1
      BY <2>4
    <2>8. WholeSuperframes(template) => \A i \in 1 .. Len(cycles) - 1 : CompleteCycle(cycles[i])
      BY <2>4 DEF AllButLast
    <2>9. StreamEnd(heard[Len(heard)]) = Has(after, StreamEnd)
      <3>1. StreamEnd(heard[Len(heard)]) <=> Terminated(template)
        BY <2>4
      <3>2. Terminated(template) <=> Has(after, StreamEnd)
        BY <2>5
      <3> HIDE DEF heard, after
      <3>3. StreamEnd(heard[Len(heard)]) <=> Has(after, StreamEnd)
        BY <3>1, <3>2
      <3>4. QED BY <3>3 DEF StreamEnd, Has
    <2> HIDE DEF heard, voice, cycles, after
    <2>10. QED BY <2>6, <2>7, <2>8, <2>9 DEF template, heard, voice, cycles, after
  <1>2. QED BY <1>1, Inductive, PTL
=============================================================================
