--------------------------- MODULE PcmOutputProofs --------------------------
(***************************************************************************)
(* What PcmOutput promises, for recordings of any length, every safe size  *)
(* and segment length, and every packet, header and drift that the reserve *)
(* allows for.                                                             *)
(***************************************************************************)
EXTENDS PcmOutput, AlgorithmProofs

-----------------------------------------------------------------------------
(* The names.                                                              *)

\* Power is what its definition says: there is a function that satisfies it.
LEMMA PowerDefined ==
  Power = [d \in Nat |-> IF d = 0 THEN 1 ELSE Radix * Power[d - 1]]
<1> DEFINE Upto(n, g) == /\ g \in [0 .. n -> Nat]
                         /\ g[0] = 1
                         /\ \A d \in 1 .. n : g[d] = Radix * g[d - 1]
           Known == { n \in Nat : \E g : Upto(n, g) }
           Agreed == { d \in Nat : \A m, n \in Nat : \A g, h :
                         d <= m /\ d <= n /\ Upto(m, g) /\ Upto(n, h) => g[d] = h[d] }
<1>0. Radix \in Nat
  BY PcmAssumption
<1>1. Known = Nat
  <2>1. 0 \in Known
    <3>1. Upto(0, [d \in 0 .. 0 |-> 1])
      OBVIOUS
    <3> QED
      BY <3>1
  <2>2. ASSUME NEW n \in Known PROVE n + 1 \in Known
    <3>1. PICK g : Upto(n, g)
      OBVIOUS
    <3> DEFINE h == [d \in 0 .. n + 1 |-> IF d = n + 1 THEN Radix * g[n] ELSE g[d]]
    <3>2. n \in Nat /\ n \in 0 .. n /\ n + 1 \in 0 .. n + 1 /\ 0 \in 0 .. n + 1 /\ n + 1 # 0
      OBVIOUS
    <3>3. h \in [0 .. n + 1 -> Nat]
      <4>1. Radix * g[n] \in Nat
        BY <1>0, <3>1, <3>2
      <4>2. \A d \in 0 .. n + 1 : d # n + 1 => d \in 0 .. n
        BY <3>2
      <4> QED
        BY <3>1, <4>1, <4>2
    <3>4. h[0] = 1
      BY <3>1, <3>2
    <3>5. ASSUME NEW d \in 1 .. n + 1 PROVE h[d] = Radix * h[d - 1]
      <4>1. d \in 0 .. n + 1 /\ d - 1 \in 0 .. n + 1 /\ d - 1 # n + 1
        BY <3>2
      <4>2. CASE d = n + 1
        BY <3>2, <4>1, <4>2
      <4>3. CASE d # n + 1
        <5>1. d \in 1 .. n
          BY <3>2, <4>3
        <5> QED
          BY <3>1, <4>1, <4>3, <5>1
      <4> QED
        BY <4>2, <4>3
    <3>6. Upto(n + 1, h)
      BY <3>3, <3>4, <3>5
    <3> HIDE DEF Upto, h
    <3> QED
      BY <3>2, <3>6
  <2> QED
    BY <2>1, <2>2, Induct
<1>2. Agreed = Nat
  <2>1. 0 \in Agreed
    OBVIOUS
  <2>2. ASSUME NEW d \in Agreed PROVE d + 1 \in Agreed
    <3> SUFFICES ASSUME NEW m \in Nat, NEW n \in Nat, NEW g, NEW h,
                        d + 1 <= m, d + 1 <= n, Upto(m, g), Upto(n, h)
                 PROVE  g[d + 1] = h[d + 1]
      <4> HIDE DEF Upto
      <4> QED
        OBVIOUS
    <3>1. /\ d \in Nat /\ d <= m /\ d <= n /\ (d + 1) - 1 = d
          /\ d + 1 \in 1 .. m /\ d + 1 \in 1 .. n
      OBVIOUS
    <3>2. g[d] = h[d]
      <4> HIDE DEF Upto
      <4> QED
        BY <3>1
    <3>3. g[d + 1] = Radix * g[(d + 1) - 1] /\ h[d + 1] = Radix * h[(d + 1) - 1]
      BY <3>1
    <3> QED
      BY <3>1, <3>2, <3>3
  <2> QED
    BY <2>1, <2>2, Induct
<1> DEFINE Table(n) == CHOOSE g : Upto(n, g)
           Whole == [n \in Nat |-> Table(n)[n]]
<1>3. ASSUME NEW n \in Nat PROVE Upto(n, Table(n))
  BY <1>1
<1> HIDE DEF Table, Known
<1>4. ASSUME NEW n \in Nat PROVE Whole[n] = IF n = 0 THEN 1 ELSE Radix * Whole[n - 1]
  <2>1. CASE n = 0
    BY <1>3, <2>1
  <2>2. CASE n # 0
    <3>1. n - 1 \in Nat /\ n \in 1 .. n /\ n - 1 <= n /\ n - 1 <= n - 1
      BY <2>2
    <3>2. Upto(n, Table(n)) /\ Upto(n - 1, Table(n - 1))
      BY <1>3, <3>1
    <3>3. Table(n)[n] = Radix * Table(n)[n - 1]
      BY <3>1, <3>2
    <3>4. Table(n)[n - 1] = Table(n - 1)[n - 1]
      <4> HIDE DEF Upto
      <4> QED
        BY <1>2, <3>1, <3>2
    <3> QED
      BY <2>2, <3>1, <3>3, <3>4
  <2> QED
    BY <2>1, <2>2
<1>5. Whole = [d \in Nat |-> IF d = 0 THEN 1 ELSE Radix * Whole[d - 1]]
  BY <1>4
<1> HIDE DEF Whole
<1>6. \E f : f = [d \in Nat |-> IF d = 0 THEN 1 ELSE Radix * f[d - 1]]
  BY <1>5
<1> QED
  BY <1>6 DEF Power

\* The powers are positive and grow without bound.
LEMMA PowerFacts ==
  /\ Power[0] = 1
  /\ \A d \in Nat : /\ Power[d] \in Nat \ {0}
                    /\ Power[d + 1] = Radix * Power[d]
                    /\ d < Power[d]
                    /\ \A e \in Nat : d <= e => Power[d] <= Power[e]
<1>0. Radix \in Nat /\ Radix >= 2
  BY PcmAssumption
<1>1. Power[0] = 1 /\ \A d \in Nat : Power[d + 1] = Radix * Power[d]
  <2>1. ASSUME NEW d \in Nat PROVE d + 1 \in Nat /\ d + 1 # 0 /\ (d + 1) - 1 = d
    OBVIOUS
  <2> QED
    BY <2>1, PowerDefined
<1> DEFINE Large == { d \in Nat : Power[d] \in Nat \ {0} /\ d < Power[d] }
<1>2. Large = Nat
  <2>1. 0 \in Large
    BY <1>1
  <2>2. ASSUME NEW d \in Large PROVE d + 1 \in Large
    <3>1. PICK p \in Nat \ {0} : p = Power[d] /\ d < p /\ d \in Nat
      OBVIOUS
    <3>2. Radix * p \in Nat /\ Radix * p >= 2 * p
      BY <1>0, <3>1
    <3>3. Power[d + 1] = Radix * p
      BY <1>1, <3>1
    <3>4. d + 1 < 2 * p
      BY <3>1
    <3> QED
      BY <3>1, <3>2, <3>3, <3>4
  <2> QED
    BY <2>1, <2>2, Induct
<1>3. ASSUME NEW d \in Nat, NEW e \in Nat, d <= e PROVE Power[d] <= Power[e]
  <2> DEFINE Grown == { k \in Nat : Power[d] <= Power[d + k] }
  <2>1. 0 \in Grown
    <3>1. d + 0 = d /\ Power[d] \in Nat
      BY <1>2
    <3> QED
      BY <3>1
  <2>2. ASSUME NEW k \in Grown PROVE k + 1 \in Grown
    <3>1. PICK p \in Nat \ {0} : p = Power[d + k]
      <4>1. d + k \in Nat
        OBVIOUS
      <4> QED
        BY <1>2, <4>1
    <3>2. Power[d + (k + 1)] = Radix * p
      <4>1. d + k \in Nat /\ d + (k + 1) = (d + k) + 1
        OBVIOUS
      <4> QED
        BY <1>1, <3>1, <4>1
    <3>3. Power[d] \in Nat /\ Power[d] <= p
      BY <1>2, <3>1
    <3>4. Radix * p \in Nat /\ p <= Radix * p
      BY <1>0
    <3>5. Power[d] <= Radix * p
      BY <3>3, <3>4
    <3> QED
      BY <3>2, <3>5
  <2>3. Grown = Nat
    BY <2>1, <2>2, Induct
  <2>4. e - d \in Nat /\ d + (e - d) = e
    BY <1>3
  <2> QED
    BY <2>3, <2>4
<1> QED
  BY <1>1, <1>2, <1>3

\* A name has the digits it needs and no more, a larger number no fewer, and a number
\* below the power of the digits at least has just these.
LEMMA NameLengths ==
  ASSUME NEW n \in Nat
  PROVE  /\ NameLength(n) \in Nat /\ NameLength(n) >= Digits
         /\ n < Power[NameLength(n)]
         /\ NameLength(n) > Digits => n >= Power[NameLength(n) - 1]
<1>0. Digits \in Nat /\ Digits > 0
  BY PcmAssumption
<1> DEFINE Fits == { d \in Digits .. Digits + n : n < Power[d] }
<1>1. Fits \in SUBSET Nat /\ Fits # {}
  <2>1. Digits + n \in Nat /\ n < Digits + n
    BY <1>0
  <2>2. PICK p \in Nat : p = Power[Digits + n] /\ Digits + n < p
    BY <2>1, PowerFacts
  <2>3. n < Power[Digits + n]
    BY <2>1, <2>2
  <2> QED
    BY <1>0, <2>1, <2>3
<1>2. PICK d \in Fits : \A e \in Fits : d <= e
  BY <1>1, Least
<1>3. d > Digits => n >= Power[d - 1]
  <2> SUFFICES ASSUME d > Digits PROVE n >= Power[d - 1]
    OBVIOUS
  <2>1. d - 1 \in Digits .. Digits + n /\ ~ (d <= d - 1) /\ d - 1 \in Nat
    BY <1>0, <1>2
  <2>2. ~ (n < Power[d - 1])
    BY <1>2, <2>1
  <2>3. Power[d - 1] \in Nat
    BY <2>1, PowerFacts
  <2> QED
    BY <2>2, <2>3
<1> DEFINE Exact(e) == n < Power[e] /\ (e > Digits => n >= Power[e - 1])
<1>4. \E e \in Digits .. Digits + n : Exact(e)
  BY <1>2, <1>3
<1>5. NameLength(n) = CHOOSE e \in Digits .. Digits + n : Exact(e)
  BY DEF NameLength
<1>6. NameLength(n) \in Digits .. Digits + n /\ Exact(NameLength(n))
  <2> HIDE DEF Exact
  <2> QED
    BY <1>4, <1>5
<1> QED
  BY <1>0, <1>6

\* A larger number has no shorter name.
LEMMA NameLengthGrows ==
  ASSUME NEW m \in Nat, NEW n \in Nat, m <= n PROVE NameLength(m) <= NameLength(n)
<1>0. Digits \in Nat
  BY PcmAssumption
<1>1. PICK j \in Nat : j = NameLength(m) /\ j >= Digits /\ (j > Digits => m >= Power[j - 1])
  BY NameLengths
<1>2. PICK k \in Nat : k = NameLength(n) /\ k >= Digits /\ n < Power[k]
  BY NameLengths
<1>3. ASSUME j > k PROVE FALSE
  <2>1. j - 1 \in Nat /\ k <= j - 1 /\ j > Digits
    BY <1>0, <1>2, <1>3
  <2>2. Power[k] <= Power[j - 1] /\ Power[k] \in Nat /\ Power[j - 1] \in Nat
    BY <2>1, PowerFacts
  <2> QED
    BY <1>1, <1>2, <2>1, <2>2
<1> QED
  BY <1>1, <1>2, <1>3

\* Numbers below the power of the digits all have so many.
LEMMA NameLengthShort ==
  ASSUME NEW n \in Nat, n < Power[Digits] PROVE NameLength(n) = Digits
<1>0. Digits \in Nat
  BY PcmAssumption
<1>1. PICK j \in Nat : j = NameLength(n) /\ j >= Digits /\ (j > Digits => n >= Power[j - 1])
  BY NameLengths
<1>2. ASSUME j > Digits PROVE FALSE
  <2>1. j - 1 \in Nat /\ Digits <= j - 1
    BY <1>0, <1>2
  <2>2. Power[Digits] <= Power[j - 1] /\ Power[Digits] \in Nat /\ Power[j - 1] \in Nat
    BY <1>0, <2>1, PowerFacts
  <2> QED
    BY <1>1, <1>2, <2>2
<1> QED
  BY <1>0, <1>1, <1>2

-----------------------------------------------------------------------------
(* The pieces.                                                             *)

\* What a conversion starts from.
PlanInv ==
  /\ decoded \in Nat \ {0} /\ probed \in Nat /\ decoded <= probed + Drift
  /\ config.safe \in SafeSizes /\ config.segment \in SegmentLengths

\* The lesser of two numbers.
LEMMA MinOfTwo ==
  ASSUME NEW x \in Int, NEW y \in Int
  PROVE  Min({x, y}) = (IF x <= y THEN x ELSE y)
<1>1. Min({x, y}) \in {x, y} /\ Min({x, y}) <= x /\ Min({x, y}) <= y
  BY DEF Min
<1> QED
  BY <1>1

\* A segment lasts a second at least, and its samples fit in what the reserve leaves.
LEMMA SegmentFits ==
  ASSUME PlanInv
  PROVE  /\ SegmentSeconds \in Nat \ {0}
         /\ (SegmentSeconds * SampleRate) * FrameSize <= config.safe - Reserve
         /\ config.safe \in Nat
<1>1. /\ SampleRate \in Nat \ {0} /\ FrameSize \in Nat \ {0} /\ Reserve \in Nat
      /\ config.safe \in Nat /\ config.segment \in Nat \ {0}
      /\ config.safe - Reserve >= SampleRate * FrameSize
  BY PcmAssumption DEF PlanInv
<1>2. PICK r \in Nat \ {0} : r = SampleRate * FrameSize
  BY <1>1
<1>3. PICK room \in Nat : room = config.safe - Reserve /\ room >= r
  BY <1>1, <1>2
<1>4. PICK q \in Nat : q = room \div r /\ q * r <= room /\ q >= 1
  <2>1. room \div r \in Nat /\ r * (room \div r) <= room /\ room < r * (room \div r) + r
    OBVIOUS
  <2>2. PICK q \in Nat : q = room \div r /\ r * q <= room /\ room < r * q + r
    BY <2>1
  <2>3. ASSUME q = 0 PROVE FALSE
    <3>1. r * q = 0
      BY <2>3
    <3>2. r * q + r = r
      BY <3>1
    <3>3. room < r
      BY <2>2, <3>2
    <3>4. ~ (room < r)
      BY <1>3
    <3> QED
      BY <3>3, <3>4
  <2>4. q * r = r * q /\ q >= 1
    BY <2>3
  <2> QED
    BY <2>2, <2>4
<1>5. SegmentSeconds = Min({config.segment, q})
  BY <1>2, <1>3, <1>4 DEF SegmentSeconds
<1>6. SegmentSeconds = IF config.segment <= q THEN config.segment ELSE q
  BY <1>1, <1>5, MinOfTwo
<1>7. PICK s \in Nat \ {0} : s = SegmentSeconds /\ s <= q
  BY <1>1, <1>4, <1>6
<1>8. s * r <= q * r
  BY <1>7
<1>9. (s * SampleRate) * FrameSize = s * r
  BY <1>1, <1>2
<1>10. q * r \in Nat /\ s * r \in Nat
  OBVIOUS
<1> QED
  BY <1>1, <1>3, <1>4, <1>7, <1>8, <1>9, <1>10

\* A piece begins at the cut or less than a packet after it.
LEMMA StartsNearCut ==
  ASSUME PlanInv, NEW k \in Nat
  PROVE  /\ PieceStart(k) \in Nat
         /\ k * (SegmentSeconds * SampleRate) <= PieceStart(k)
         /\ PieceStart(k) <= k * (SegmentSeconds * SampleRate) + Packet - 1
<1>1. /\ SegmentSeconds \in Nat \ {0} /\ SampleRate \in Nat \ {0} /\ Packet \in Nat \ {0}
  BY SegmentFits, PcmAssumption
<1>2. PICK cut \in Nat : cut = k * SegmentSeconds * SampleRate
                         /\ cut = k * (SegmentSeconds * SampleRate)
  BY <1>1
<1>3. PieceStart(k) = Packet * ((cut + Packet - 1) \div Packet)
  BY <1>2 DEF PieceStart
<1>4. PICK x \in Nat : x = cut + Packet - 1
  BY <1>1
<1>5. PICK q \in Nat : q = x \div Packet /\ Packet * q <= x /\ x < Packet * q + Packet
  BY <1>1
<1>6. PieceStart(k) = Packet * q /\ Packet * q \in Nat
  BY <1>1, <1>3, <1>4, <1>5
<1> QED
  BY <1>1, <1>2, <1>4, <1>5, <1>6

\* Pieces begin in their order, the first with the recording.
LEMMA StartsInOrder ==
  ASSUME PlanInv
  PROVE  /\ PieceStart(0) = 0
         /\ \A j, k \in Nat : j <= k => PieceStart(j) <= PieceStart(k)
         /\ \A k \in Nat : k <= PieceStart(k)
<1>1. /\ SegmentSeconds \in Nat \ {0} /\ SampleRate \in Nat \ {0} /\ Packet \in Nat \ {0}
  BY SegmentFits, PcmAssumption
<1>2. PICK c \in Nat \ {0} : c = SegmentSeconds * SampleRate
  BY <1>1
<1>3. PieceStart(0) = 0
  <2>1. PieceStart(0) = Packet * ((0 * SegmentSeconds * SampleRate + Packet - 1) \div Packet)
    BY DEF PieceStart
  <2>2. 0 * SegmentSeconds * SampleRate = 0
    BY <1>1
  <2>3. (0 + Packet - 1) \div Packet = 0
    BY <1>1
  <2> QED
    BY <1>1, <2>1, <2>2, <2>3
<1>4. ASSUME NEW j \in Nat, NEW k \in Nat, j <= k PROVE PieceStart(j) <= PieceStart(k)
  <2>1. /\ PieceStart(j) = Packet * ((j * SegmentSeconds * SampleRate + Packet - 1) \div Packet)
        /\ PieceStart(k) = Packet * ((k * SegmentSeconds * SampleRate + Packet - 1) \div Packet)
    BY DEF PieceStart
  <2>2. j * SegmentSeconds * SampleRate = j * c /\ k * SegmentSeconds * SampleRate = k * c
    BY <1>1, <1>2
  <2>3. PICK x \in Nat, y \in Nat :
          x = j * c + Packet - 1 /\ y = k * c + Packet - 1 /\ x <= y
    <3>1. j * c \in Nat /\ k * c \in Nat /\ j * c <= k * c
      BY <1>4
    <3> QED
      BY <1>1, <3>1
  <2>4. x \div Packet \in Nat /\ y \div Packet \in Nat /\ x \div Packet <= y \div Packet
    BY <1>1, <2>3
  <2>5. Packet * (x \div Packet) <= Packet * (y \div Packet)
    BY <1>1, <2>4
  <2> QED
    BY <2>1, <2>2, <2>3, <2>5
<1>5. ASSUME NEW k \in Nat PROVE k <= PieceStart(k)
  <2>1. k * c <= PieceStart(k) /\ PieceStart(k) \in Nat
    BY <1>2, StartsNearCut
  <2>2. k <= k * c /\ k * c \in Nat
    OBVIOUS
  <2> QED
    BY <2>1, <2>2
<1> QED
  BY <1>3, <1>4, <1>5

\* The pieces that are counted are those that begin before the recording ends.
LEMMA PiecesCounted ==
  ASSUME PlanInv
  PROVE  /\ PieceCount \in Nat \ {0}
         /\ ~Segmented => PieceCount = 1
         /\ Segmented => /\ \A k \in Nat : k < PieceCount => PieceStart(k) < decoded
                         /\ decoded <= PieceStart(PieceCount)
<1>1. CASE ~Segmented
  BY <1>1 DEF PieceCount
<1>2. CASE Segmented
  <2> DEFINE Past == { k \in Nat : decoded <= PieceStart(k) }
             Counted == { k \in 0 .. decoded : PieceStart(k) < decoded }
  <2>0. decoded \in Nat \ {0}
    BY DEF PlanInv
  <2>1. Past \in SUBSET Nat /\ Past # {}
    <3>1. decoded <= PieceStart(decoded)
      BY <2>0, StartsInOrder
    <3> QED
      BY <2>0, <3>1
  <2>2. PICK p \in Past : \A k \in Past : p <= k
    BY <2>1, Least
  <2>3. \A k \in Nat : PieceStart(k) \in Nat
    BY StartsNearCut
  <2>4. p # 0
    BY <2>0, <2>2, StartsInOrder
  <2>5. ASSUME NEW k \in Nat, k < p PROVE PieceStart(k) < decoded /\ k \in 0 .. decoded
    <3>1. k \notin Past
      BY <2>2, <2>5
    <3>2. PieceStart(k) < decoded
      BY <2>0, <2>3, <3>1
    <3>3. k <= PieceStart(k)
      BY StartsInOrder
    <3> QED
      BY <2>0, <2>3, <3>2, <3>3
  <2>6. ASSUME NEW k \in Nat, ~ (k < p) PROVE ~ (PieceStart(k) < decoded)
    <3>1. decoded <= PieceStart(p) /\ p \in Nat /\ p <= k
      BY <2>2, <2>6
    <3>2. PieceStart(p) <= PieceStart(k) /\ PieceStart(p) \in Nat /\ PieceStart(k) \in Nat
      BY <2>3, <3>1, StartsInOrder
    <3> QED
      BY <2>0, <3>1, <3>2
  <2>7. Counted = 0 .. p - 1
    <3>1. ASSUME NEW k \in Counted PROVE k \in 0 .. p - 1
      <4>1. k \in Nat /\ k < p
        BY <2>0, <2>6
      <4> QED
        BY <4>1
    <3>2. ASSUME NEW k \in 0 .. p - 1 PROVE k \in Counted
      <4>1. k \in Nat /\ k < p
        BY <2>2
      <4> QED
        BY <2>5, <4>1
    <3> QED
      BY <3>1, <3>2
  <2>8. Cardinality(Counted) = p
    <3>1. 0 \in Int /\ p - 1 \in Int /\ p \in Nat
      BY <2>2
    <3>2. Cardinality(0 .. p - 1) = IF 0 > p - 1 THEN 0 ELSE (p - 1) - 0 + 1
      BY <3>1, FS_Interval
    <3> QED
      <4>1. ~ (0 > p - 1) /\ (p - 1) - 0 + 1 = p
        BY <2>4, <3>1
      <4>2. Cardinality(0 .. p - 1) = p
        BY <3>2, <4>1
      <4> QED
        BY <2>7, <4>2
  <2>9. PieceCount = p
    BY <1>2, <2>8 DEF PieceCount
  <2> QED
    BY <1>2, <2>2, <2>4, <2>5, <2>9
<1> QED
  BY <1>1, <1>2

\* Where a piece ends: where the next one begins, or with the recording.
Bound(i) == IF PieceStart(i) <= decoded THEN PieceStart(i) ELSE decoded

\* Pieces join, from the beginning of the recording to its end.
LEMMA PiecesJoin ==
  ASSUME PlanInv, Segmented
  PROVE  /\ \A i \in Nat : Bound(i) \in Nat
         /\ Bound(0) = 0 /\ Bound(PieceCount) = decoded
         /\ \A i \in 1 .. PieceCount :
              /\ Bound(i - 1) = PieceStart(i - 1)
              /\ PieceLength(i) = Bound(i) - Bound(i - 1)
<1>1. decoded \in Nat \ {0} /\ PieceCount \in Nat \ {0}
  BY PiecesCounted DEF PlanInv
<1>2. \A k \in Nat : PieceStart(k) \in Nat
  BY StartsNearCut
<1>3. \A i \in Nat : Bound(i) \in Nat
  BY <1>1, <1>2 DEF Bound
<1>4. Bound(0) = 0
  BY <1>1, StartsInOrder DEF Bound
<1>5. Bound(PieceCount) = decoded
  <2>1. decoded <= PieceStart(PieceCount) /\ PieceStart(PieceCount) \in Nat
    BY <1>1, <1>2, PiecesCounted
  <2> QED
    BY <1>1, <2>1 DEF Bound
<1>6. ASSUME NEW i \in 1 .. PieceCount
      PROVE  Bound(i - 1) = PieceStart(i - 1) /\ PieceLength(i) = Bound(i) - Bound(i - 1)
  <2>1. i \in Nat /\ i - 1 \in Nat /\ i - 1 < PieceCount
    BY <1>1
  <2>2. PieceStart(i - 1) < decoded /\ PieceStart(i - 1) \in Nat /\ PieceStart(i) \in Nat
    BY <1>2, <2>1, PiecesCounted
  <2>3. Bound(i - 1) = PieceStart(i - 1)
    BY <1>1, <2>2 DEF Bound
  <2>4. Min({PieceStart(i), decoded}) = Bound(i)
    BY <1>1, <2>2, MinOfTwo DEF Bound
  <2>5. PieceLength(i) = Min({PieceStart(i), decoded}) - PieceStart(i - 1)
    BY DEF PieceLength
  <2> QED
    BY <2>3, <2>4, <2>5
<1> QED
  BY <1>3, <1>4, <1>5, <1>6

\* No piece exceeds the safe size: the reserve holds the header, the packet that runs
\* over a cut, and the samples the probe missed.
LEMMA PiecesFit ==
  ASSUME PlanInv, NEW i \in 1 .. PieceCount
  PROVE  PieceLength(i) \in Int /\ Header + PieceLength(i) * FrameSize <= config.safe
<1>1. /\ SampleRate \in Nat \ {0} /\ FrameSize \in Nat \ {0} /\ Reserve \in Nat
      /\ Packet \in Nat \ {0} /\ Header \in Nat /\ Drift \in Nat
      /\ Header + FrameSize * (Packet + Drift) <= Reserve
  BY PcmAssumption
<1>2. decoded \in Nat \ {0} /\ probed \in Nat /\ decoded <= probed + Drift /\ config.safe \in Nat
  BY SegmentFits DEF PlanInv
<1>3. CASE Segmented
  <2>0. i \in Nat /\ i - 1 \in Nat
    BY PiecesCounted
  <2>1. PICK c \in Nat : c = SegmentSeconds * SampleRate /\ c * FrameSize <= config.safe - Reserve
    BY <1>1, SegmentFits
  <2>2. PICK x \in Nat, y \in Nat :
          /\ x = PieceStart(i - 1) /\ y = PieceStart(i)
          /\ (i - 1) * c <= x /\ y <= i * c + Packet - 1
    BY <2>0, <2>1, StartsNearCut
  <2>3. i * c \in Nat /\ (i - 1) * c \in Nat /\ i * c = (i - 1) * c + c
    BY <2>0
  <2>4. PICK l \in Int : l = PieceLength(i) /\ l <= c + Packet - 1
    <3>1. PieceLength(i) = Bound(i) - x
      BY <1>3, <2>2, PiecesJoin
    <3>2. Bound(i) \in Nat /\ Bound(i) <= y
      BY <1>2, <2>2 DEF Bound
    <3>3. PICK b \in Nat : b = Bound(i) /\ b <= y
      BY <3>2
    <3>4. b - x <= c + Packet - 1
      BY <1>1, <2>2, <2>3, <3>3
    <3> QED
      BY <3>1, <3>3, <3>4
  <2>5. l * FrameSize <= (c + Packet) * FrameSize
    BY <1>1, <2>4
  <2>6. (c + Packet) * FrameSize = c * FrameSize + Packet * FrameSize
    BY <1>1
  <2>7. FrameSize * (Packet + Drift) = Packet * FrameSize + Drift * FrameSize
    BY <1>1
  <2>8. /\ c * FrameSize \in Nat /\ Packet * FrameSize \in Nat /\ Drift * FrameSize \in Nat
        /\ l * FrameSize \in Int
    BY <1>1
  <2> QED
    BY <1>1, <1>2, <2>1, <2>4, <2>5, <2>6, <2>7, <2>8
<1>4. CASE ~Segmented
  <2>1. PieceLength(i) = decoded
    BY <1>4 DEF PieceLength
  <2>2. probed * FrameSize + Reserve <= config.safe
    BY <1>1, <1>2, <1>4 DEF Segmented
  <2>3. decoded * FrameSize <= (probed + Drift) * FrameSize
    BY <1>1, <1>2
  <2>4. (probed + Drift) * FrameSize = probed * FrameSize + Drift * FrameSize
    BY <1>1, <1>2
  <2>5. FrameSize * (Packet + Drift) = Packet * FrameSize + Drift * FrameSize
    BY <1>1
  <2>6. /\ decoded * FrameSize \in Nat /\ probed * FrameSize \in Nat
        /\ Packet * FrameSize \in Nat /\ Drift * FrameSize \in Nat
    BY <1>1, <1>2
  <2> QED
    BY <1>1, <1>2, <2>1, <2>2, <2>3, <2>4, <2>5, <2>6
<1> QED
  BY <1>3, <1>4

-----------------------------------------------------------------------------
(* The listing.                                                            *)

\* A list of the numbers to n, each once.
Permutation(n, s) ==
  /\ s \in [1 .. n -> 1 .. n]
  /\ \A k, l \in 1 .. n : s[k] = s[l] => k = l
  /\ \A m \in 1 .. n : \E k \in 1 .. n : s[k] = m

\* Numbers filled up are natural numbers.
LEMMA FilledNumbers ==
  ASSUME PlanInv, NEW n \in 0 .. PieceCount
  PROVE  Filled(n) \in Nat
<1>1. PieceCount \in Nat /\ n \in Nat /\ n <= PieceCount
  BY PiecesCounted
<1>2. PICK j \in Nat, k \in Nat : j = NameLength(n) /\ k = NameLength(PieceCount) /\ j <= k
  BY <1>1, NameLengths, NameLengthGrows
<1>3. k - j \in Nat
  BY <1>2
<1>4. Power[k - j] \in Nat
  BY <1>3, PowerFacts
<1> QED
  BY <1>1, <1>2, <1>4 DEF Filled

\* Below the power of the digits, names are in the order of the numbers.
LEMMA ShortNamesInOrder ==
  ASSUME PlanInv, PieceCount < Power[Digits],
         NEW m \in 1 .. PieceCount, NEW n \in 1 .. PieceCount
  PROVE  NamePrecedes(m, n) <=> m < n
<1>1. PieceCount \in Nat /\ m \in Nat /\ n \in Nat /\ m <= PieceCount /\ n <= PieceCount
      /\ Digits \in Nat
  BY PiecesCounted, PcmAssumption
<1>2. PICK p \in Nat : p = Power[Digits] /\ PieceCount < p
  BY <1>1, PowerFacts
<1>3. /\ NameLength(m) = Digits /\ NameLength(n) = Digits /\ NameLength(PieceCount) = Digits
  <2>1. m < p /\ n < p
    BY <1>1, <1>2
  <2> QED
    BY <1>1, <1>2, <2>1, NameLengthShort
<1>4. Filled(m) = m * 1 /\ Filled(n) = n * 1
  <2>1. Digits - Digits = 0
    BY <1>1
  <2> QED
    BY <1>3, <2>1, PowerFacts DEF Filled
<1>5. Filled(m) = m /\ Filled(n) = n
  BY <1>1, <1>4
<1> QED
  BY <1>1, <1>5 DEF NamePrecedes

Before(n) == { m \in 1 .. PieceCount : NamePrecedes(m, n) }

Place(n) == Cardinality(Before(n)) + 1

\* Every piece has a place of its own.
LEMMA PlacesDiffer ==
  ASSUME PlanInv
  PROVE  /\ \A n \in 1 .. PieceCount : Place(n) \in 1 .. PieceCount
         /\ \A m, n \in 1 .. PieceCount : Place(m) = Place(n) => m = n
<1>1. PieceCount \in Nat
  BY PiecesCounted
<1>2. \A n \in 1 .. PieceCount : Filled(n) \in Nat /\ n \in Nat
  BY <1>1, FilledNumbers
<1>3. IsFiniteSet(1 .. PieceCount) /\ Cardinality(1 .. PieceCount) = PieceCount
  <2>1. 1 \in Int /\ PieceCount \in Int
    BY <1>1
  <2>2. IsFiniteSet(1 .. PieceCount)
        /\ Cardinality(1 .. PieceCount) = IF 1 > PieceCount THEN 0 ELSE PieceCount - 1 + 1
    BY <2>1, FS_Interval
  <2> QED
    BY <1>1, <2>2
<1>4. \A n : IsFiniteSet(Before(n)) /\ Cardinality(Before(n)) \in Nat
  BY <1>3, FS_Subset, FS_CardinalityType DEF Before
<1>5. ASSUME NEW n \in 1 .. PieceCount PROVE n \notin Before(n)
  BY <1>2 DEF Before, NamePrecedes
<1>6. ASSUME NEW n \in 1 .. PieceCount PROVE Cardinality(Before(n)) < PieceCount
  <2>1. Before(n) \subseteq (1 .. PieceCount) \ {n}
    BY <1>5 DEF Before
  <2>2. IsFiniteSet((1 .. PieceCount) \ {n})
        /\ Cardinality((1 .. PieceCount) \ {n}) = PieceCount - 1
    BY <1>3, FS_RemoveElement
  <2>3. Cardinality(Before(n)) <= PieceCount - 1
    BY <2>1, <2>2, FS_Subset
  <2> QED
    BY <1>1, <1>4, <2>3
<1>7. ASSUME NEW m \in 1 .. PieceCount, NEW n \in 1 .. PieceCount, NamePrecedes(m, n)
      PROVE  Cardinality(Before(m)) < Cardinality(Before(n))
  <2>1. Before(m) \subseteq Before(n)
    <3> SUFFICES ASSUME NEW l \in 1 .. PieceCount, NamePrecedes(l, m) PROVE NamePrecedes(l, n)
      BY DEF Before
    <3>1. /\ Filled(l) \in Nat /\ Filled(m) \in Nat /\ Filled(n) \in Nat
          /\ l \in Nat /\ m \in Nat /\ n \in Nat
      BY <1>2
    <3> QED
      BY <1>7, <3>1 DEF NamePrecedes
  <2>2. m \in Before(n) /\ m \notin Before(m)
    BY <1>5, <1>7 DEF Before
  <2>3. Before(m) \union {m} \subseteq Before(n)
    BY <2>1, <2>2
  <2>4. IsFiniteSet(Before(m) \union {m})
        /\ Cardinality(Before(m) \union {m}) = Cardinality(Before(m)) + 1
    BY <1>4, <2>2, FS_AddElement
  <2>5. Cardinality(Before(m) \union {m}) <= Cardinality(Before(n))
    BY <1>4, <2>3, FS_Subset
  <2>6. Cardinality(Before(m)) \in Nat /\ Cardinality(Before(n)) \in Nat
    BY <1>4
  <2> QED
    BY <2>4, <2>5, <2>6
<1>8. ASSUME NEW m \in 1 .. PieceCount, NEW n \in 1 .. PieceCount, Place(m) = Place(n)
      PROVE  m = n
  <2>1. Cardinality(Before(m)) = Cardinality(Before(n))
    <3>1. PICK x \in Nat, y \in Nat :
            x = Cardinality(Before(m)) /\ y = Cardinality(Before(n))
      BY <1>4
    <3> QED
      BY <1>8, <3>1 DEF Place
  <2>2. ~NamePrecedes(m, n) /\ ~NamePrecedes(n, m)
    <3>1. Cardinality(Before(m)) \in Nat /\ Cardinality(Before(n)) \in Nat
      BY <1>4
    <3> QED
      BY <1>7, <2>1, <3>1
  <2>3. Filled(m) \in Nat /\ Filled(n) \in Nat /\ m \in Nat /\ n \in Nat
    BY <1>2
  <2> QED
    BY <2>2, <2>3 DEF NamePrecedes
<1>9. ASSUME NEW n \in 1 .. PieceCount PROVE Place(n) \in 1 .. PieceCount
  <2>1. PICK x \in Nat : x = Cardinality(Before(n)) /\ x < PieceCount
    BY <1>4, <1>6
  <2> QED
    BY <1>1, <2>1 DEF Place
<1> QED
  BY <1>8, <1>9

\* The listing holds every piece once, at its place.
LEMMA ListedIsPermutation ==
  ASSUME PlanInv
  PROVE  /\ Permutation(PieceCount, Listed)
         /\ PieceCount < Power[Digits] => \A p \in 1 .. PieceCount : Listed[p] = p
<1> DEFINE N == 1 .. PieceCount
           place == [n \in N |-> Place(n)]
<1>0. PieceCount \in Nat
  BY PiecesCounted
<1>1. IsFiniteSet(N)
  BY <1>0, FS_Interval
<1>2. place \in Injection(N, N)
  <2>1. \A n \in N : place[n] = Place(n) /\ Place(n) \in N
    BY PlacesDiffer
  <2>2. place \in [N -> N]
    BY <2>1
  <2>3. \A m, n \in N : place[m] = place[n] => m = n
    BY <2>1, PlacesDiffer
  <2> HIDE DEF place, N
  <2> QED
    BY <2>2, <2>3 DEF Injection, IsInjective
<1>3. place \in Surjection(N, N)
  <2> HIDE DEF place, N
  <2> QED
    BY <1>1, <1>2, FS_Injection
<1>4. \A p \in N : \E n \in N : place[n] = p
  <2> HIDE DEF place, N
  <2> QED
    BY <1>3 DEF Surjection
<1>5. \A p \in N : \E n \in N : Place(n) = p
  BY <1>4
<1>6. \A n : Cardinality(Before(n)) \in Nat
  BY <1>1, FS_Subset, FS_CardinalityType DEF Before
<1>7. ASSUME NEW p \in N, NEW n PROVE Place(n) = p <=> Cardinality(Before(n)) = p - 1
  <2>1. PICK x \in Nat : x = Cardinality(Before(n))
    BY <1>6
  <2> QED
    BY <1>0, <2>1 DEF Place
<1>8. ASSUME NEW p \in N PROVE Listed[p] \in N /\ Place(Listed[p]) = p
  <2>1. Listed[p] = CHOOSE n \in N : Cardinality(Before(n)) = p - 1
    BY DEF Listed, Before
  <2>2. \E n \in N : Cardinality(Before(n)) = p - 1
    BY <1>5, <1>7
  <2>3. Listed[p] \in N /\ Cardinality(Before(Listed[p])) = p - 1
    <3> HIDE DEF N
    <3> QED
      BY <2>1, <2>2
  <2> QED
    BY <1>7, <2>3
<1>9. Listed \in [N -> N]
  <2> DEFINE Piece(p) == CHOOSE n \in N : Cardinality(Before(n)) = p - 1
  <2>1. Listed = [p \in N |-> Piece(p)]
    BY DEF Listed, Before
  <2> HIDE DEF Piece, N
  <2>2. \A p \in N : Piece(p) \in N
    BY <1>8, <2>1
  <2> QED
    BY <2>1, <2>2
<1>10. \A p, q \in N : Listed[p] = Listed[q] => p = q
  <2> SUFFICES ASSUME NEW p \in N, NEW q \in N, Listed[p] = Listed[q] PROVE p = q
    OBVIOUS
  <2>1. Place(Listed[p]) = p /\ Place(Listed[q]) = q
    BY <1>8
  <2> QED
    BY <2>1
<1>11. \A m \in N : \E p \in N : Listed[p] = m
  <2> SUFFICES ASSUME NEW m \in N PROVE \E p \in N : Listed[p] = m
    OBVIOUS
  <2>1. Place(m) \in N /\ Listed[Place(m)] \in N /\ Place(Listed[Place(m)]) = Place(m)
    BY <1>8, PlacesDiffer
  <2>2. Listed[Place(m)] = m
    BY <2>1, PlacesDiffer
  <2> QED
    BY <2>1, <2>2
<1>12. ASSUME PieceCount < Power[Digits], NEW p \in N PROVE Listed[p] = p
  <2>1. Before(p) = 1 .. p - 1
    <3>1. \A m \in N : NamePrecedes(m, p) <=> m < p
      BY <1>12, ShortNamesInOrder
    <3>2. p \in Nat /\ p <= PieceCount
      BY <1>0
    <3> QED
      BY <1>0, <3>1, <3>2 DEF Before
  <2>2. Cardinality(Before(p)) = p - 1
    <3>1. 1 \in Int /\ p - 1 \in Int /\ p >= 1
      BY <1>0
    <3>2. Cardinality(1 .. p - 1) = IF 1 > p - 1 THEN 0 ELSE (p - 1) - 1 + 1
      BY <3>1, FS_Interval
    <3>3. Cardinality(1 .. p - 1) = p - 1
      BY <3>1, <3>2
    <3> QED
      BY <2>1, <3>3
  <2>3. Place(p) = p /\ Place(Listed[p]) = p /\ Listed[p] \in N
    BY <1>7, <1>8, <2>2
  <2> QED
    BY <2>3, PlacesDiffer
<1> QED
  BY <1>9, <1>10, <1>11, <1>12 DEF Permutation

-----------------------------------------------------------------------------
(* The sum.                                                                *)

\* e adds up the steps of a path B, taken in the order s.
Walk(B, n, s, e) ==
  /\ e \in [0 .. n -> Int] /\ e[0] = 0
  /\ \A k \in 1 .. n : e[k] = e[k - 1] + (B[s[k]] - B[s[k] - 1])

\* What is added up in any order of the steps of a path leads to its end.
LEMMA Telescope ==
  ASSUME NEW B \in [Nat -> Nat], B[0] = 0, NEW n \in Nat, NEW s, NEW e,
         Permutation(n, s), Walk(B, n, s, e)
  PROVE  e[n] = B[n]
<1> DEFINE Ends == { m \in Nat : \A r, f : Permutation(m, r) /\ Walk(B, m, r, f) => f[m] = B[m] }
<1>1. 0 \in Ends
  BY DEF Walk
<1>2. ASSUME NEW m \in Ends PROVE m + 1 \in Ends
  <2> SUFFICES ASSUME NEW r, NEW f, Permutation(m + 1, r), Walk(B, m + 1, r, f)
               PROVE  f[m + 1] = B[m + 1]
    <3>1. m + 1 \in Nat
      OBVIOUS
    <3> QED
      BY <3>1
  <2>0. m \in Nat /\ m + 1 \in 1 .. m + 1
    OBVIOUS
  <2>11. /\ r \in [1 .. m + 1 -> 1 .. m + 1]
         /\ \A k, l \in 1 .. m + 1 : r[k] = r[l] => k = l
         /\ \A v \in 1 .. m + 1 : \E k \in 1 .. m + 1 : r[k] = v
    BY DEF Permutation
  <2>12. /\ f \in [0 .. m + 1 -> Int] /\ f[0] = 0
         /\ \A k \in 1 .. m + 1 : f[k] = f[k - 1] + (B[r[k]] - B[r[k] - 1])
    BY DEF Walk
  <2>1. PICK p \in 1 .. m + 1 : r[p] = m + 1
    BY <2>0 DEF Permutation
  <2> DEFINE last == B[m + 1] - B[m]
             q == [k \in 1 .. m |-> IF k < p THEN r[k] ELSE r[k + 1]]
             g == [k \in 0 .. m |-> IF k < p THEN f[k] ELSE f[k + 1] - last]
  <2>2. last \in Int /\ B[m] \in Nat /\ B[m + 1] \in Nat
    BY <2>0
  <2>3. ASSUME NEW k \in 1 .. m
        PROVE  /\ k < p => k \in 1 .. m + 1 /\ k # p /\ q[k] = r[k]
               /\ ~ (k < p) => k + 1 \in 1 .. m + 1 /\ k + 1 # p /\ q[k] = r[k + 1]
    <3>1. k \in Nat /\ p \in Nat /\ k <= m
      BY <2>0
    <3>2. k \in 1 .. m + 1 /\ k + 1 \in 1 .. m + 1
      BY <2>0, <3>1
    <3>3. q[k] = IF k < p THEN r[k] ELSE r[k + 1]
      OBVIOUS
    <3> HIDE DEF q
    <3>4. CASE k < p
      BY <3>1, <3>2, <3>3, <3>4
    <3>5. CASE ~ (k < p)
      BY <3>1, <3>2, <3>3, <3>5
    <3> QED
      BY <3>4, <3>5
  <2>4. \A k \in 1 .. m + 1 : k # p => r[k] \in 1 .. m
    <3> SUFFICES ASSUME NEW k \in 1 .. m + 1, k # p PROVE r[k] \in 1 .. m
      OBVIOUS
    <3>1. r[k] # m + 1
      BY <2>1, <2>11
    <3>2. PICK v \in 1 .. m + 1 : v = r[k]
      BY <2>11
    <3>3. v # m + 1
      BY <3>1, <3>2
    <3>4. v \in 1 .. m
      BY <2>0, <3>3
    <3> QED
      BY <3>2, <3>4
  <2>5. Permutation(m, q)
    <3>1. q \in [1 .. m -> 1 .. m]
      BY <2>3, <2>4
    <3>2. ASSUME NEW k \in 1 .. m, NEW l \in 1 .. m, q[k] = q[l] PROVE k = l
      <4> HIDE DEF q
      <4>1. k \in Nat /\ l \in Nat /\ p \in Nat
        BY <2>0
      <4> QED
        <5>1. CASE k < p /\ l < p
          BY <2>3, <2>11, <3>2, <5>1
        <5>2. CASE ~ (k < p) /\ ~ (l < p)
          <6>1. /\ k + 1 \in 1 .. m + 1 /\ q[k] = r[k + 1]
                /\ l + 1 \in 1 .. m + 1 /\ q[l] = r[l + 1]
            BY <2>3, <5>2
          <6>2. r[k + 1] = r[l + 1]
            BY <3>2, <6>1
          <6>3. PICK a \in 1 .. m + 1, b \in 1 .. m + 1 : a = k + 1 /\ b = l + 1
            BY <6>1
          <6>4. a = b
            BY <2>11, <6>2, <6>3
          <6>5. k + 1 = l + 1
            BY <6>3, <6>4
          <6> QED
            BY <4>1, <6>5
        <5>3. CASE k < p /\ ~ (l < p)
          <6>1. k = l + 1
            BY <2>3, <2>11, <3>2, <5>3
          <6> QED
            BY <4>1, <5>3, <6>1
        <5>4. CASE ~ (k < p) /\ l < p
          <6>1. k + 1 = l
            BY <2>3, <2>11, <3>2, <5>4
          <6> QED
            BY <4>1, <5>4, <6>1
        <5> QED
          BY <5>1, <5>2, <5>3, <5>4
    <3>3. ASSUME NEW v \in 1 .. m PROVE \E k \in 1 .. m : q[k] = v
      <4>1. v \in 1 .. m + 1 /\ v # m + 1
        BY <2>0
      <4>2. PICK k \in 1 .. m + 1 : r[k] = v
        BY <4>1 DEF Permutation
      <4>3. k # p
        BY <2>1, <4>1, <4>2
      <4>4. CASE k < p
        <5>1. k \in 1 .. m
          BY <2>0, <4>4
        <5> QED
          BY <4>2, <4>4, <5>1
      <4>5. CASE k > p
        <5>1. k - 1 \in 1 .. m /\ ~ (k - 1 < p) /\ (k - 1) + 1 = k
          BY <2>0, <4>5
        <5>2. q[k - 1] = v
          BY <2>3, <4>2, <5>1
        <5> QED
          BY <5>1, <5>2
      <4> QED
        BY <2>0, <4>3, <4>4, <4>5
    <3> QED
      BY <3>1, <3>2, <3>3 DEF Permutation
  <2>6. /\ p - 1 \in 0 .. m + 1 /\ f[p] \in Int /\ f[p - 1] \in Int
        /\ f[p] = f[p - 1] + last
    <3>1. p - 1 \in 0 .. m + 1 /\ p \in 0 .. m + 1 /\ (m + 1) - 1 = m
      BY <2>0
    <3> QED
      BY <2>1, <2>12, <3>1
  <2>7. Walk(B, m, q, g)
    <3>1. g \in [0 .. m -> Int]
      <4>1. ASSUME NEW k \in 0 .. m
            PROVE  (IF k < p THEN f[k] ELSE f[k + 1] - last) \in Int
        <5>1. k \in 0 .. m + 1 /\ k + 1 \in 0 .. m + 1
          BY <2>0
        <5>2. f[k] \in Int /\ f[k + 1] \in Int
          BY <2>12, <5>1
        <5> HIDE DEF last
        <5> QED
          BY <2>2, <5>2
      <4> QED
        BY <4>1
    <3>2. g[0] = 0
      <4>1. 0 \in 0 .. m /\ 0 < p
        BY <2>0
      <4> QED
        BY <2>12, <4>1
    <3>3. ASSUME NEW k \in 1 .. m PROVE g[k] = g[k - 1] + (B[q[k]] - B[q[k] - 1])
      <4>0. k \in 0 .. m /\ k - 1 \in 0 .. m /\ k \in 1 .. m + 1 /\ k + 1 \in 1 .. m + 1
            /\ (k + 1) - 1 = k /\ (k - 1) + 1 = k
        BY <2>0
      <4>1. CASE k < p
        <5>1. k - 1 < p
          BY <2>0, <4>1
        <5>2. g[k] = f[k] /\ g[k - 1] = f[k - 1] /\ q[k] = r[k]
          BY <2>3, <4>0, <4>1, <5>1
        <5>3. f[k] = f[k - 1] + (B[r[k]] - B[r[k] - 1])
          BY <2>12, <4>0
        <5> QED
          BY <5>2, <5>3
      <4>2. CASE ~ (k < p)
        <5>1. g[k] = f[k + 1] - last /\ q[k] = r[k + 1]
          BY <2>3, <4>0, <4>2
        <5>2. f[k + 1] = f[k] + (B[r[k + 1]] - B[r[k + 1] - 1])
          BY <2>12, <4>0
        <5>3. g[k - 1] = f[k] - last
          <6>1. CASE k - 1 < p
            <7>1. k = p
              BY <2>0, <4>2, <6>1
            <7>2. g[k - 1] = f[p - 1]
              BY <4>0, <6>1, <7>1
            <7> HIDE DEF g, last
            <7> QED
              BY <2>2, <2>6, <7>1, <7>2
          <6>2. CASE ~ (k - 1 < p)
            BY <4>0, <6>2
          <6> QED
            BY <6>1, <6>2
        <5>4. PICK d \in Int : d = B[r[k + 1]] - B[r[k + 1] - 1]
          <6>1. PICK v \in 1 .. m + 1 : v = r[k + 1]
            BY <2>11, <4>0
          <6>2. v \in Nat /\ v - 1 \in Nat
            BY <2>0
          <6>3. PICK x \in Nat, y \in Nat : x = B[v] /\ y = B[v - 1]
            BY <6>2
          <6>4. x - y \in Int
            OBVIOUS
          <6> QED
            BY <6>1, <6>3, <6>4
        <5>5. f[k] \in Int
          BY <2>0, <2>12, <4>0
        <5> HIDE DEF g, q, last
        <5>6. f[k + 1] = f[k] + d
          BY <5>2, <5>4
        <5>7. f[k + 1] - last = (f[k] - last) + d
          BY <2>2, <5>5, <5>6
        <5> QED
          BY <5>1, <5>3, <5>4, <5>7
      <4> QED
        BY <4>1, <4>2
    <3> HIDE DEF g, q
    <3> QED
      BY <3>1, <3>2, <3>3 DEF Walk
  <2>8. g[m] = B[m]
    <3> HIDE DEF g, q
    <3> QED
      BY <1>2, <2>5, <2>7
  <2>9. f[m + 1] = g[m] + last
    <3>1. m \in 0 .. m /\ m + 1 \in 0 .. m + 1 /\ f[m + 1] \in Int
      BY <2>0, <2>12
    <3>2. CASE m < p
      <4>1. p = m + 1 /\ p - 1 = m
        BY <2>0, <3>2
      <4>2. g[m] = f[m]
        BY <3>1, <3>2
      <4> QED
        BY <2>6, <4>1, <4>2
    <3>3. CASE ~ (m < p)
      <4>1. g[m] = f[m + 1] - last
        BY <3>1, <3>3
      <4> HIDE DEF g, last
      <4> QED
        BY <2>2, <3>1, <4>1
    <3> QED
      BY <3>2, <3>3
  <2> QED
    <3>1. PICK x \in Nat, y \in Nat : x = B[m] /\ y = B[m + 1]
      BY <2>2
    <3>2. last = y - x
      BY <3>1
    <3> HIDE DEF last, g
    <3>3. f[m + 1] = x + (y - x)
      BY <2>8, <2>9, <3>1, <3>2
    <3> QED
      BY <3>1, <3>3
<1>3. Ends = Nat
  <2> QED
    BY <1>1, <1>2, Induct
<1> QED
  BY <1>3

-----------------------------------------------------------------------------
(* The steps.                                                              *)

Record == [piece : Nat, index : Nat, start : Int, end : Int]

\* Each record stands for the piece listed at its place and starts where the one before
\* it ends.
RecordInv(i) ==
  /\ records[i].piece = Listed[i]
  /\ records[i].index = IF Segmented THEN i ELSE 0
  /\ records[i].start = IF i = 1 THEN 0 ELSE records[i - 1].end
  /\ records[i].end = records[i].start + PieceLength(Listed[i])

PcmInv ==
  /\ PlanInv
  /\ phase \in {"planning", "verifying", "published", "reused", "refused"}
  /\ files = IF phase = "planning" THEN <<>> ELSE Listed
  /\ phase = "planning" => records = <<>>
  /\ records \in Seq(Record) /\ Len(records) <= PieceCount
  /\ \A i \in 1 .. Len(records) : RecordInv(i)
  /\ phase \in {"published", "reused"} =>
       Len(records) = PieceCount /\ (Segmented => PieceCount >= 2)
  /\ phase = "refused" => Segmented /\ PieceCount = 1

\* The plan is not changed on the way.
LEMMA PlanStays ==
  ASSUME UNCHANGED <<decoded, probed, config>>
  PROVE  /\ PlanInv' <=> PlanInv
         /\ Segmented' = Segmented /\ PieceCount' = PieceCount /\ Listed' = Listed
         /\ \A i : PieceLength(i)' = PieceLength(i)
<1>1. Segmented' = Segmented /\ SegmentSeconds' = SegmentSeconds
  BY DEF Segmented, SegmentSeconds
<1>2. \A k : PieceStart(k)' = PieceStart(k)
  BY <1>1 DEF PieceStart
<1>3. PieceCount' = PieceCount
  BY <1>1, <1>2 DEF PieceCount
<1>4. Listed' = Listed
  BY <1>3 DEF Listed, NamePrecedes, Filled, NameLength
<1>5. \A i : PieceLength(i)' = PieceLength(i)
  BY <1>1, <1>2 DEF PieceLength
<1>6. PlanInv' <=> PlanInv
  BY DEF PlanInv
<1> QED
  BY <1>1, <1>3, <1>4, <1>5, <1>6

\* The listing as a list.
LEMMA ListedIsList ==
  ASSUME PlanInv
  PROVE  /\ Listed \in Seq(Nat) /\ Len(Listed) = PieceCount /\ PieceCount \in Nat \ {0}
         /\ \A p \in 1 .. PieceCount : Listed[p] \in 1 .. PieceCount
<1>1. PieceCount \in Nat \ {0}
  BY PiecesCounted
<1>2. Listed \in [1 .. PieceCount -> 1 .. PieceCount]
  BY ListedIsPermutation DEF Permutation
<1>3. Listed \in [1 .. PieceCount -> Nat]
  BY <1>1, <1>2
<1> QED
  BY <1>1, <1>2, <1>3

\* A recording of any length is planned, and nothing is made yet.
LEMMA PcmStart == PcmInit => PcmInv
<1> SUFFICES ASSUME PcmInit PROVE PcmInv
  OBVIOUS
<1>1. PlanInv
  <2>1. decoded \in Nat \ {0} /\ Drift \in Nat
    BY PcmAssumption DEF PcmInit
  <2>2. probed \in decoded - Drift .. decoded + Drift /\ probed > 0
    BY DEF PcmInit
  <2>3. config.safe \in SafeSizes /\ config.segment \in SegmentLengths
    BY DEF PcmInit
  <2> QED
    BY <2>1, <2>2, <2>3 DEF PlanInv
<1>2. PieceCount \in Nat
  BY <1>1, PiecesCounted
<1>3. records = <<>> /\ files = <<>> /\ phase = "planning"
  BY DEF PcmInit
<1>4. records \in Seq(Record) /\ Len(records) = 0
  BY <1>3
<1> QED
  BY <1>1, <1>2, <1>3, <1>4 DEF PcmInv

\* The conversion lists what it made.
LEMMA PcmConvert == PcmInv /\ Convert => PcmInv'
<1> SUFFICES ASSUME PcmInv, Convert PROVE PcmInv'
  OBVIOUS
<1>1. /\ phase' = "verifying" /\ files' = Listed /\ records = <<>>
      /\ UNCHANGED <<decoded, probed, config, records>>
  BY DEF PcmInv, Convert
<1>2. PlanInv' /\ PieceCount' = PieceCount /\ Listed' = Listed
  BY <1>1, PlanStays DEF PcmInv
<1>3. records' = <<>> /\ records' \in Seq(Record) /\ Len(records') = 0 /\ PieceCount \in Nat
  BY <1>1, PiecesCounted DEF PcmInv
<1> QED
  BY <1>1, <1>2, <1>3 DEF PcmInv

\* No piece is refused for its size; the next record follows the one before it.
LEMMA PcmVerify == PcmInv /\ VerifyPiece => PcmInv'
<1> SUFFICES ASSUME PcmInv, VerifyPiece PROVE PcmInv'
  OBVIOUS
<1> DEFINE position == Len(records) + 1
           piece == Listed[position]
           start == IF records = <<>> THEN 0 ELSE Last(records).end
           record == [piece |-> piece, index |-> IF Segmented THEN position ELSE 0,
                      start |-> start, end |-> start + PieceLength(piece)]
<1>1. /\ phase = "verifying" /\ files = Listed /\ PlanInv
      /\ records \in Seq(Record) /\ Len(records) \in Nat
      /\ Len(records) < Len(files)
      /\ UNCHANGED <<decoded, probed, config, files>>
  BY DEF PcmInv, VerifyPiece
<1>2. /\ PlanInv' /\ Segmented' = Segmented /\ PieceCount' = PieceCount /\ Listed' = Listed
      /\ \A i : PieceLength(i)' = PieceLength(i)
  BY <1>1, PlanStays
<1>3. PieceCount \in Nat /\ Len(files) = PieceCount
  BY <1>1, ListedIsList
<1>4. position \in 1 .. PieceCount /\ piece \in 1 .. PieceCount /\ piece \in Nat
  <2>1. position \in 1 .. PieceCount
    BY <1>1, <1>3
  <2>2. piece \in 1 .. PieceCount
    BY <1>1, <2>1, ListedIsList
  <2> QED
    BY <1>3, <2>1, <2>2
<1>5. PieceLength(piece) \in Int /\ Header + PieceLength(piece) * FrameSize <= config.safe
  BY <1>1, <1>4, PiecesFit
<1>6. ~ (Header + PieceLength(piece) * FrameSize > config.safe)
  <2>1. Header \in Int /\ FrameSize \in Int /\ config.safe \in Int
    BY <1>1, PcmAssumption, SegmentFits
  <2>2. PieceLength(piece) * FrameSize \in Int
    BY <1>5, <2>1
  <2> QED
    BY <1>5, <2>1, <2>2
<1>7. records' = Append(records, record) /\ phase' = phase
  BY <1>1, <1>6 DEF VerifyPiece
<1>8. start \in Int /\ start = IF position = 1 THEN 0 ELSE records[position - 1].end
  <2>1. CASE records = <<>>
    BY <1>1, <2>1
  <2>2. CASE records # <<>>
    <3>1. /\ Len(records) # 0 /\ Len(records) \in 1 .. Len(records)
          /\ position # 1 /\ position - 1 = Len(records)
      BY <1>1, <2>2
    <3>2. Last(records) = records[Len(records)]
      BY DEF Last
    <3>3. records[Len(records)] \in Record
      BY <1>1, <3>1
    <3> QED
      BY <2>2, <3>1, <3>2, <3>3 DEF Record
  <2> QED
    BY <2>1, <2>2
<1>9. record \in Record
  <2>1. start + PieceLength(piece) \in Int
    <3> HIDE DEF start, piece
    <3> QED
      BY <1>5, <1>8
  <2>2. position \in Nat
    BY <1>1
  <2> HIDE DEF start, piece, position
  <2> QED
    BY <1>4, <1>8, <2>1, <2>2 DEF Record
<1>10. /\ records' \in Seq(Record) /\ Len(records') = position
       /\ \A i \in 1 .. Len(records) : records'[i] = records[i]
       /\ records'[position] = record
  <2> HIDE DEF record
  <2> QED
    BY <1>1, <1>7, <1>9
<1>11. ASSUME NEW i \in 1 .. Len(records') PROVE RecordInv(i)'
  <2>1. CASE i \in 1 .. Len(records)
    <3>1. RecordInv(i)
      BY <2>1 DEF PcmInv
    <3>2. records'[i] = records[i]
      BY <1>10, <2>1
    <3>3. i # 1 => i - 1 \in 1 .. Len(records)
      BY <1>1, <2>1
    <3>4. i # 1 => records'[i - 1] = records[i - 1]
      BY <1>10, <3>3
    <3> QED
      BY <1>2, <3>1, <3>2, <3>4 DEF RecordInv
  <2>2. CASE i = position
    <3>1. position # 1 => position - 1 \in 1 .. Len(records)
      BY <1>1
    <3>2. position # 1 => records'[position - 1] = records[position - 1]
      BY <1>10, <3>1
    <3>3. records'[position] = record
      BY <1>10
    <3>4. /\ records'[position].piece = piece
          /\ records'[position].index = IF Segmented THEN position ELSE 0
          /\ records'[position].start = start
          /\ records'[position].end = start + PieceLength(piece)
      BY <3>3
    <3> HIDE DEF start, position, record
    <3> QED
      BY <1>2, <1>8, <2>2, <3>2, <3>4 DEF RecordInv
  <2> QED
    BY <1>1, <1>10, <2>1, <2>2
<1>12. Len(records') <= PieceCount
  BY <1>1, <1>3, <1>10
<1> HIDE DEF record
<1> QED
  BY <1>1, <1>2, <1>7, <1>10, <1>11, <1>12 DEF PcmInv

\* What the other steps leave alone.
LEMMA RecordsStay ==
  ASSUME PcmInv, UNCHANGED <<decoded, probed, config, files, records>>
  PROVE  /\ PlanInv' /\ Segmented' = Segmented /\ PieceCount' = PieceCount /\ Listed' = Listed
         /\ records' \in Seq(Record) /\ Len(records') <= PieceCount
         /\ \A i \in 1 .. Len(records') : RecordInv(i)'
<1>1. /\ PlanInv' /\ Segmented' = Segmented /\ PieceCount' = PieceCount /\ Listed' = Listed
      /\ \A i : PieceLength(i)' = PieceLength(i)
  BY PlanStays DEF PcmInv
<1> QED
  BY <1>1 DEF PcmInv, RecordInv

\* Publication refuses only the recording that was to be cut and came out whole.
LEMMA PcmPublish == PcmInv /\ Publish => PcmInv'
<1> SUFFICES ASSUME PcmInv, Publish PROVE PcmInv'
  OBVIOUS
<1>1. /\ phase = "verifying" /\ files = Listed /\ PlanInv /\ Len(records) = Len(files)
      /\ UNCHANGED <<decoded, probed, config, files, records>>
      /\ phase' = IF Segmented /\ Len(records) < 2 THEN "refused" ELSE "published"
  BY DEF PcmInv, Publish
<1>2. PieceCount \in Nat \ {0} /\ Len(records) = PieceCount
  BY <1>1, ListedIsList
<1>3. CASE Segmented /\ Len(records) < 2
  <2>1. PieceCount = 1 /\ phase' = "refused"
    BY <1>1, <1>2, <1>3
  <2> QED
    BY <1>1, <1>3, <2>1, RecordsStay DEF PcmInv
<1>4. CASE ~ (Segmented /\ Len(records) < 2)
  <2>1. phase' = "published" /\ (Segmented => PieceCount >= 2)
    BY <1>1, <1>2, <1>4
  <2> QED
    BY <1>1, <1>2, <2>1, RecordsStay DEF PcmInv
<1> QED
  BY <1>3, <1>4

\* A later job finds the records as they were written.
LEMMA PcmReuse == PcmInv /\ Reuse => PcmInv'
<1> SUFFICES ASSUME PcmInv, Reuse PROVE PcmInv'
  OBVIOUS
<1>1. /\ phase = "published" /\ files = Listed /\ PlanInv
      /\ UNCHANGED <<decoded, probed, config, files, records>>
      /\ phase' = IF Contiguous THEN "reused" ELSE "conflict"
      /\ records \in Seq(Record) /\ Len(records) = PieceCount
      /\ (Segmented => PieceCount >= 2) /\ PieceCount \in Nat
  BY PiecesCounted DEF PcmInv, Reuse
<1>2. Contiguous
  <2> SUFFICES ASSUME NEW i \in 1 .. Len(records)
               PROVE  /\ records[i].start = IF i = 1 THEN 0 ELSE records[i - 1].end
                      /\ records[i].end - records[i].start = PieceLength(records[i].piece)
                      /\ Len(records) > 1 => records[i].index = i
    BY <1>1 DEF Contiguous
  <2>1. RecordInv(i)
    BY DEF PcmInv
  <2>2. records[i].start \in Int /\ PieceLength(Listed[i]) \in Int
    <3>1. records[i] \in Record
      BY <1>1
    <3>2. Listed[i] \in 1 .. PieceCount
      BY <1>1, ListedIsList
    <3> QED
      BY <1>1, <3>1, <3>2, PiecesFit DEF Record
  <2>3. records[i].end - records[i].start = PieceLength(records[i].piece)
    <3>1. PICK x \in Int, l \in Int : x = records[i].start /\ l = PieceLength(Listed[i])
      BY <2>2
    <3>2. records[i].end = x + l /\ records[i].piece = Listed[i]
      BY <2>1, <3>1 DEF RecordInv
    <3>3. (x + l) - x = l
      OBVIOUS
    <3> QED
      BY <3>1, <3>2, <3>3
  <2>4. Len(records) > 1 => Segmented
    BY <1>1, PiecesCounted
  <2> QED
    BY <2>1, <2>3, <2>4 DEF RecordInv
<1>3. phase' = "reused"
  BY <1>1, <1>2
<1> QED
  BY <1>1, <1>3, RecordsStay DEF PcmInv

\* The records of all pieces end where the recording ends, in whatever order they were
\* listed.
LEMMA RecordsEnd ==
  ASSUME PcmInv, Len(records) = PieceCount
  PROVE  records # <<>> /\ Last(records).end = decoded
<1>1. /\ PlanInv /\ records \in Seq(Record) /\ PieceCount \in Nat \ {0}
      /\ Last(records) = records[PieceCount] /\ decoded \in Nat \ {0}
  BY PiecesCounted DEF PcmInv, PlanInv, Last
<1>2. \A i \in 1 .. PieceCount : RecordInv(i) /\ records[i].end \in Int
  <2> SUFFICES ASSUME NEW i \in 1 .. PieceCount
               PROVE  RecordInv(i) /\ records[i].end \in Int
    OBVIOUS
  <2>1. i \in 1 .. Len(records) /\ RecordInv(i)
    BY DEF PcmInv
  <2>2. records[i] \in Record
    BY <1>1, <2>1
  <2> QED
    BY <2>1, <2>2 DEF Record
<1>3. CASE Segmented
  <2> DEFINE B == [k \in Nat |-> Bound(k)]
             e == [k \in 0 .. PieceCount |-> IF k = 0 THEN 0 ELSE records[k].end]
  <2>1. B \in [Nat -> Nat] /\ B[0] = 0 /\ B[PieceCount] = decoded
    BY <1>1, <1>3, PiecesJoin
  <2>2. e \in [0 .. PieceCount -> Int] /\ e[0] = 0
    <3>1. ASSUME NEW k \in 0 .. PieceCount, k # 0 PROVE records[k].end \in Int
      <4>1. k \in 1 .. PieceCount
        BY <1>1, <3>1
      <4> QED
        BY <1>2, <4>1
    <3> QED
      BY <1>1, <3>1
  <2>3. ASSUME NEW k \in 1 .. PieceCount
        PROVE  e[k] = e[k - 1] + (B[Listed[k]] - B[Listed[k] - 1])
    <3>1. /\ k \in 0 .. PieceCount /\ k # 0 /\ k - 1 \in 0 .. PieceCount
          /\ k - 1 = 0 <=> k = 1
      BY <1>1
    <3>2. e[k] = records[k].end
      BY <3>1
    <3>3. e[k - 1] = records[k].start
      <4>1. records[k].start = IF k = 1 THEN 0 ELSE records[k - 1].end
        BY <1>2 DEF RecordInv
      <4>2. e[k - 1] = IF k - 1 = 0 THEN 0 ELSE records[k - 1].end
        BY <3>1
      <4> HIDE DEF e
      <4> QED
        BY <3>1, <4>1, <4>2
    <3>4. records[k].end = records[k].start + PieceLength(Listed[k])
      BY <1>2 DEF RecordInv
    <3>5. PICK v \in 1 .. PieceCount : v = Listed[k]
      BY <1>1, ListedIsList
    <3>6. PieceLength(v) = Bound(v) - Bound(v - 1) /\ v \in Nat /\ v - 1 \in Nat
      BY <1>1, <1>3, PiecesJoin
    <3>7. B[v] = Bound(v) /\ B[v - 1] = Bound(v - 1)
      BY <3>6
    <3> HIDE DEF e, B
    <3> QED
      BY <3>2, <3>3, <3>4, <3>5, <3>6, <3>7
  <2>4. Permutation(PieceCount, Listed)
    BY <1>1, ListedIsPermutation
  <2>5. e[PieceCount] = records[PieceCount].end
    BY <1>1
  <2>6. e[PieceCount] = B[PieceCount]
    <3> HIDE DEF e, B
    <3> QED
      <4>1. \A k \in 1 .. PieceCount : e[k] = e[k - 1] + (B[Listed[k]] - B[Listed[k] - 1])
        BY <2>3
      <4>2. PieceCount \in Nat
        BY <1>1
      <4>3. Walk(B, PieceCount, Listed, e)
        BY <2>2, <4>1 DEF Walk
      <4> QED
        BY <2>1, <2>4, <4>2, <4>3, Telescope
  <2> HIDE DEF e, B
  <2> QED
    BY <1>1, <2>1, <2>5, <2>6
<1>4. CASE ~Segmented
  <2>1. PieceCount = 1 /\ 1 \in 1 .. PieceCount
    BY <1>1, <1>4, PiecesCounted
  <2>2. records[1].start = 0 /\ records[1].end = records[1].start + PieceLength(Listed[1])
    BY <1>2, <2>1 DEF RecordInv
  <2>3. PieceLength(Listed[1]) = decoded
    BY <1>4 DEF PieceLength
  <2>4. records[1].end = 0 + decoded /\ 0 + decoded = decoded
    BY <1>1, <2>2, <2>3
  <2> QED
    BY <1>1, <2>1, <2>4
<1> QED
  BY <1>1, <1>3, <1>4

\* Where the names are as long as each other, every record is where its samples are.
LEMMA RecordsInPlace ==
  ASSUME PcmInv, PieceCount < Power[Digits], NEW i \in 1 .. Len(records)
  PROVE  /\ records[i].piece = i
         /\ records[i].start = IF Segmented THEN PieceStart(i - 1) ELSE 0
<1>1. /\ PlanInv /\ records \in Seq(Record) /\ PieceCount \in Nat \ {0}
      /\ Len(records) \in Nat /\ Len(records) <= PieceCount
  BY PiecesCounted DEF PcmInv
<1>2. ASSUME NEW k \in 1 .. Len(records)
      PROVE  /\ Listed[k] = k /\ k \in 1 .. PieceCount
             /\ records[k].piece = k
             /\ records[k].start = IF k = 1 THEN 0 ELSE records[k - 1].end
             /\ records[k].end = records[k].start + PieceLength(k)
  <2>1. k \in 1 .. PieceCount
    BY <1>1
  <2>2. Listed[k] = k
    BY <1>1, <2>1, ListedIsPermutation
  <2>3. RecordInv(k)
    BY DEF PcmInv
  <2> QED
    BY <2>1, <2>2, <2>3 DEF RecordInv
<1>3. CASE Segmented
  <2> DEFINE Placed == { k \in Nat : k \in 1 .. Len(records) =>
                           records[k].start = Bound(k - 1) /\ records[k].end = Bound(k) }
  <2>0. Bound(0) = 0 /\ \A k \in Nat : Bound(k) \in Nat
    BY <1>1, <1>3, PiecesJoin
  <2>1. 0 \in Placed
    OBVIOUS
  <2>2. ASSUME NEW k \in Placed PROVE k + 1 \in Placed
    <3> SUFFICES ASSUME k + 1 \in 1 .. Len(records)
                 PROVE  records[k + 1].start = Bound(k) /\ records[k + 1].end = Bound(k + 1)
      <4>1. k \in Nat /\ (k + 1) - 1 = k /\ k + 1 \in Nat
        OBVIOUS
      <4> QED
        BY <4>1
    <3>0. k \in Nat /\ (k + 1) - 1 = k /\ k + 1 \in Nat
      OBVIOUS
    <3>1. records[k + 1].start = Bound(k)
      <4>1. CASE k = 0
        <5>1. k + 1 = 1
          BY <4>1
        <5> QED
          BY <1>2, <2>0, <4>1, <5>1
      <4>2. CASE k # 0
        <5>1. k \in 1 .. Len(records) /\ k + 1 # 1
          BY <1>1, <3>0, <4>2
        <5>2. records[k + 1].start = records[k].end
          BY <1>2, <3>0, <5>1
        <5> QED
          BY <5>1, <5>2
      <4> QED
        BY <4>1, <4>2
    <3>2. PieceLength(k + 1) = Bound(k + 1) - Bound(k)
      <4>1. k + 1 \in 1 .. PieceCount
        BY <1>2
      <4> QED
        BY <1>1, <1>3, <3>0, <4>1, PiecesJoin
    <3>3. records[k + 1].end = Bound(k) + (Bound(k + 1) - Bound(k))
      BY <1>2, <3>1, <3>2
    <3>4. PICK x \in Nat, y \in Nat : x = Bound(k) /\ y = Bound(k + 1)
      BY <2>0, <3>0
    <3>5. x + (y - x) = y
      OBVIOUS
    <3> QED
      BY <3>1, <3>3, <3>4, <3>5
  <2>3. Placed = Nat
    BY <2>1, <2>2, Induct
  <2>4. records[i].start = Bound(i - 1)
    <3>1. i \in Nat
      BY <1>1
    <3> QED
      BY <2>3, <3>1
  <2>5. Bound(i - 1) = PieceStart(i - 1)
    BY <1>1, <1>2, <1>3, PiecesJoin
  <2> QED
    BY <1>2, <1>3, <2>4, <2>5
<1>4. CASE ~Segmented
  <2>1. i = 1
    BY <1>1, <1>4, PiecesCounted
  <2> QED
    BY <1>2, <1>4, <2>1
<1> QED
  BY <1>3, <1>4

\* A derivative that is published holds the whole recording, each piece within the safe
\* size and recorded where its samples are, and a later job accepts it: for recordings
\* of any length, any safe size and segment length, any drift the reserve allows for.
THEOREM PiecesHold == PcmSpec => []PiecesWhole
<1>1. PcmInv /\ [PcmNext]_pcmVars => PcmInv'
  <2> SUFFICES ASSUME PcmInv, [PcmNext]_pcmVars PROVE PcmInv'
    OBVIOUS
  <2>1. CASE UNCHANGED pcmVars
    BY <2>1, RecordsStay DEF pcmVars, PcmInv
  <2> QED
    BY <2>1, PcmConvert, PcmVerify, PcmPublish, PcmReuse DEF PcmNext
<1>2. PcmInv => PiecesWhole
  <2> SUFFICES ASSUME PcmInv PROVE PiecesWhole
    OBVIOUS
  <2>1. PlanInv /\ records \in Seq(Record) /\ DOMAIN records = 1 .. Len(records)
    BY DEF PcmInv
  <2>2. ASSUME phase \in {"published", "reused"} PROVE Last(records).end = decoded
    BY <2>2, RecordsEnd DEF PcmInv
  <2>3. ASSUME phase \in {"published", "reused"}, NEW i \in DOMAIN records
        PROVE  Header + PieceLength(records[i].piece) * FrameSize <= config.safe
    <3>1. RecordInv(i) /\ i \in 1 .. PieceCount
      BY <2>1, <2>3 DEF PcmInv
    <3>2. records[i].piece \in 1 .. PieceCount
      BY <2>1, <3>1, ListedIsList DEF RecordInv
    <3> QED
      BY <2>1, <3>2, PiecesFit
  <2>4. ASSUME PieceCount < Power[Digits], NEW i \in DOMAIN records
        PROVE  /\ records[i].piece = i
               /\ records[i].start = IF Segmented THEN PieceStart(i - 1) ELSE 0
    BY <2>1, <2>4, RecordsInPlace
  <2> QED
    BY <2>2, <2>3, <2>4 DEF PcmInv, PiecesWhole
<1> QED
  BY PcmStart, <1>1, <1>2, PTL DEF PcmSpec
=============================================================================
