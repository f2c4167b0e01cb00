--------------------------- MODULE DecoderProofs ---------------------------
(***************************************************************************)
(* Decoder for every lidar of the table, speed, field of view, split       *)
(* angle and packet loss that DecoderAssumption and FramesAssumption       *)
(* allow.  The invariant relates the cloud in the making to the last block *)
(* or packet, and the split strategy to what the lidar sent: an azimuth    *)
(* turns back below the split angle exactly between two revolutions, and a *)
(* number falls by more than the safe range exactly between two frames.    *)
(* The times of a packet's blocks are those of their firings, but for an   *)
(* Error at every crossing of the blind zone.                              *)
(* The blocks of a packet are decoded by a recursive function, about which *)
(* SetInduction speaks: the theorems of NaturalsInduction are about        *)
(* operators.                                                              *)
(***************************************************************************)
EXTENDS Decoder, TLAPS, FiniteSetTheorems, SequenceTheorems, WellFoundedInduction

\* A set of natural numbers has a least.
LEMMA Least ==
    ASSUME NEW T, T \subseteq Nat, T # {}
    PROVE  \E x \in T : \A y \in T : x <= y
<1> DEFINE less == OpToRel(<, Nat)
<1>1. /\ IsWellFoundedOn(less, Nat)
      /\ \A x, y \in Nat : <<x, y>> \in less <=> x < y
    BY NatLessThanWellFounded, Zenon DEF OpToRel
<1> HIDE DEF less
<1>2. PICK x \in T : \A y \in T : ~(<<y, x>> \in less)
  <2>1. IsWellFoundedOn(less, Nat)
      BY <1>1, Zenon
  <2> QED
      BY <2>1, WFMin
<1>3. \A y \in T : ~(y < x)
    BY <1>1, <1>2, Zenon
<1> QED
    BY <1>3

\* One with 0 and the successors of its members has them all.
LEMMA SetInduction ==
    ASSUME NEW S, 0 \in S, \A n \in Nat : n \in S => n + 1 \in S
    PROVE  Nat \subseteq S
<1> SUFFICES ASSUME Nat \ S # {} PROVE FALSE
    OBVIOUS
<1>1. PICK n \in Nat \ S : \A y \in Nat \ S : n <= y
    BY Least
<1>2. n - 1 \in Nat /\ (n - 1) + 1 = n /\ ~(n <= n - 1)
    OBVIOUS
<1> QED
    BY <1>1, <1>2

\* n steps in a set D, and the values f that they take from d.
StepFunctions(D, n) == [1..n -> [D -> D]]
RunFrom(D, d, n, step, f) ==
    f \in [0..n -> D] /\ f[0] = d /\ \A b \in 1..n : f[b] = step[b][f[b - 1]]

\* A run of n steps exists, so a recursive function has its values.
LEMMA Recursion ==
    ASSUME NEW D, NEW d \in D, NEW n \in Nat, NEW step \in StepFunctions(D, n)
    PROVE  \E f : RunFrom(D, d, n, step, f)
<1> DEFINE Runs(m, f) == f[0] = d /\ \A b \in 1..m : f[b] = step[b][f[b - 1]]
           S == {m \in Nat : m <= n => \E f \in [0..m -> D] : Runs(m, f)}
<1>0. step \in [1..n -> [D -> D]]
    BY DEF StepFunctions
<1>1. 0 \in S
    <2>1. [b \in 0..0 |-> d] \in [0..0 -> D] /\ Runs(0, [b \in 0..0 |-> d])
        OBVIOUS
    <2> QED
        BY <2>1
<1>2. ASSUME NEW m \in Nat, m \in S PROVE m + 1 \in S
    <2> SUFFICES ASSUME m + 1 <= n PROVE \E f \in [0..m + 1 -> D] : Runs(m + 1, f)
        OBVIOUS
    <2>1. PICK f \in [0..m -> D] : Runs(m, f)
        BY <1>2
    <2> DEFINE g == [b \in 0..m + 1 |-> IF b = m + 1 THEN step[m + 1][f[m]] ELSE f[b]]
    <2>2. step[m + 1] \in [D -> D] /\ f[m] \in D
        BY <1>0
    <2>3. g \in [0..m + 1 -> D]
        BY <2>2
    <2>4. Runs(m + 1, g)
        <3>1. g[0] = d
            BY <2>1
        <3>2. ASSUME NEW b \in 1..m + 1 PROVE g[b] = step[b][g[b - 1]]
            <4>1. b - 1 \in 0..m /\ g[b - 1] = f[b - 1]
                OBVIOUS
            <4>2. CASE b = m + 1
                <5>1. m \in 0..m + 1 /\ g[m] = f[m] /\ b - 1 = m
                    BY <4>2
                <5> QED
                    BY <4>2, <5>1
            <4>3. CASE b \in 1..m
                BY <2>1, <4>1, <4>3
            <4> QED
                BY <4>2, <4>3
        <3> QED
            BY <3>1, <3>2
    <2> QED
        BY <2>3, <2>4
<1>3. Nat \subseteq S
    <2> HIDE DEF S
    <2> QED
        BY <1>1, <1>2, SetInduction
<1>4. n \in S
    BY <1>3
<1>5. PICK f \in [0..n -> D] : Runs(n, f)
    BY <1>4
<1>6. RunFrom(D, d, n, step, f)
    BY <1>5 DEF RunFrom
<1> QED
    BY <1>6

\* What the proofs need to know of a lidar.
Times(t) == /\ t.duration \in Nat /\ t.last.single \in Nat /\ t.last.dual \in Nat
Grouping(it) == it.per \in Nat \ {0} /\ it.scale \in {1, 2} /\ it.alternating \in BOOLEAN

\* The mechanical lidars fire a group of blocks in 55 to 222 microseconds.
MechanicalOK(m) ==
    /\ m.kind = "mech" /\ m.blocks \in Nat \ {0}
    /\ Grouping(m.iterator.single) /\ Grouping(m.iterator.dual)
    /\ Times(m.initial) /\ Times(m.actual)
    /\ 55500 <= m.actual.duration /\ m.actual.duration <= 111080
    /\ m.echoIn \in {"difop", "msop"} /\ m.install \in BOOLEAN

SolidStateOK(m) ==
    /\ m.kind = "seq" /\ m.first \in {0, 1} /\ m.span \in Nat
    /\ m.endSplit \in BOOLEAN /\ m.anglesInDifop \in BOOLEAN
    /\ m.endSplit => m.first = 1 /\ ~m.anglesInDifop

\* The block iterators group blocks.
LEMMA Groupings ==
    /\ Grouping(SingleReturn) /\ Grouping(DualReturn) /\ Grouping(TwoInOne)
    /\ Grouping(FourInOne) /\ Grouping(ABDualReturn)
    /\ Grouping(Rs16SingleReturn) /\ Grouping(Rs16DualReturn)
BY DEF SingleReturn, DualReturn, TwoInOne, FourInOne, ABDualReturn,
       Rs16SingleReturn, Rs16DualReturn, Iterator, Grouping

\* Timings are times.
LEMMA TimingType ==
    ASSUME NEW duration \in Nat, NEW a \in Nat, NEW b \in Nat
    PROVE  Times(Timing(duration, a, b)) /\ Timing(duration, a, b).duration = duration
BY DEF Times, Timing

\* A mechanical lidar with sound parts is sound.
LEMMA MechanicalType ==
    ASSUME NEW blocks \in Nat \ {0}, NEW single, NEW dual, Grouping(single), Grouping(dual),
           NEW initial, NEW actual, Times(initial), Times(actual),
           55500 <= actual.duration, actual.duration <= 111080, NEW echoIn \in {"difop", "msop"}
    PROVE  MechanicalOK(Mechanical(blocks, single, dual, initial, actual, echoIn))
BY DEF Mechanical, MechanicalOK

\* So is one that is timed by its blocks.
LEMMA MechType ==
    ASSUME NEW blocks \in Nat \ {0}, NEW single, NEW dual, Grouping(single), Grouping(dual),
           NEW duration \in Nat, 55500 <= duration, duration <= 111080, NEW a \in Nat
    PROVE  MechanicalOK(Mech(blocks, single, dual, duration, a))
BY MechanicalType, TimingType DEF Mech

\* The RS16 and the lidar that was built after it.
LEMMA Rs16Models == MechanicalOK(RS16) /\ MechanicalOK(RSHELIOS_16P)
<1>1. MechanicalOK(Rs16Like(55500, 97500, 42000))
    BY MechanicalType, TimingType, Groupings DEF Rs16Like
<1>2. MechanicalOK(Rs16Like(55560, 53630, 25950))
    BY MechanicalType, TimingType, Groupings DEF Rs16Like
<1> QED
    BY <1>1, <1>2 DEF RS16, RSHELIOS_16P

\* The lidars with one timing.
LEMMA MechModels ==
    /\ MechanicalOK(RS32) /\ MechanicalOK(RSBP) /\ MechanicalOK(RS48) /\ MechanicalOK(RS80)
    /\ MechanicalOK(RS128) /\ MechanicalOK(RSHELIOS) /\ MechanicalOK(RSP48)
    /\ MechanicalOK(RSP128)
BY MechType, Groupings DEF RS32, RSBP, RS48, RS80, RS128, RSHELIOS, RSP48, RSP128

\* The lidars of two blocks per firing, or of several versions.
LEMMA VariantModels == MechanicalOK(RSBP_V4) /\ MechanicalOK(RSP80) /\ MechanicalOK(RSP80V)
<1>1. MechanicalOK(RSBP_V4)
    BY MechanicalType, TimingType, Groupings DEF RSBP_V4
<1>2. MechanicalOK(RSP80)
    BY MechanicalType, TimingType, Groupings DEF RSP80
<1>3. MechanicalOK(RSP80V)
    BY MechanicalType, TimingType, Groupings DEF RSP80V
<1> QED
    BY <1>1, <1>2, <1>3

\* The AIRY family.
LEMMA AiryType ==
    ASSUME NEW single, NEW dual, Grouping(single), Grouping(dual),
           NEW duration \in Nat, 55500 <= duration, duration <= 111080, NEW a \in Nat, NEW b \in Nat
    PROVE  MechanicalOK(Airy(single, dual, duration, a, b))
BY MechanicalType, TimingType DEF Airy

\* The lidars whose timing depends on how they are mounted.
LEMMA InstalledType == ASSUME NEW last \in Nat PROVE MechanicalOK(Installed(last))
<1> DEFINE airy == Airy(TwoInOne, FourInOne, 111080, 97104, last)
<1>1. MechanicalOK(airy)
    BY AiryType, Groupings
<1>2. airy = [kind |-> "mech", blocks |-> 8,
              iterator |-> [single |-> TwoInOne, dual |-> FourInOne],
              initial |-> Timing(111080, 97104, 97104), actual |-> Timing(111080, last, last),
              echoIn |-> "msop", install |-> FALSE]
    BY DEF Airy, Mechanical
<1> QED
    BY <1>1, <1>2 DEF Installed, MechanicalOK

\* The models of both families.
LEMMA AiryModels ==
    /\ MechanicalOK(RSAIRY_48) /\ MechanicalOK(RSAIRY_96) /\ MechanicalOK(RSAIRY_96_SIDE)
    /\ MechanicalOK(RSAIRY_96_M) /\ MechanicalOK(RSFAIRY_48) /\ MechanicalOK(RSFAIRY_96)
BY AiryType, InstalledType, Groupings
   DEF RSAIRY_48, RSAIRY_96, RSAIRY_96_SIDE, RSAIRY_96_M, RSFAIRY_48, RSFAIRY_96

\* The solid-state lidars.
LEMMA SeqModels ==
    /\ SolidStateOK(RSM1) /\ SolidStateOK(RSM1_JUMBO) /\ SolidStateOK(RSM2)
    /\ SolidStateOK(RSM3) /\ SolidStateOK(RSE1) /\ SolidStateOK(RSMX) /\ SolidStateOK(RSEMX)
BY DEF RSM1, RSM1_JUMBO, RSM2, RSM3, RSE1, RSMX, RSEMX, SolidState, SolidStateOK, BlockSpan

\* Every lidar of the table is sound.
LEMMA ModelsOK == \A m \in DOMAIN ModelOf : MechanicalOK(ModelOf[m]) \/ SolidStateOK(ModelOf[m])
BY Rs16Models, MechModels, VariantModels, AiryModels, SeqModels DEF ModelOf

\* Division with remainder.
LEMMA DivMod ==
    ASSUME NEW x \in Nat, NEW n \in Nat, n > 0
    PROVE  /\ x \div n \in Nat /\ x % n \in Nat
           /\ x = n * (x \div n) + (x % n) /\ x % n < n
<1> DEFINE q == x \div n
           r == x % n
<1>1. q \in Int /\ r \in Nat /\ r < n /\ x = n * q + r
    OBVIOUS
<1> HIDE DEF q, r
<1>2. q \in Nat
    <2>1. CASE q < 0
        <3>1. PICK k \in Nat : q = -1 - k
            <4>1. -1 - q \in Nat /\ q = -1 - (-1 - q)
                BY <1>1, <2>1
            <4> QED
                BY <4>1
        <3>2. n * (-1 - k) = -n - n * k /\ n * k \in Nat
            OBVIOUS
        <3> QED
            BY <1>1, <3>2
    <2> QED
        BY <1>1, <2>1
<1>3. x \div n \in Nat
    BY <1>2 DEF q
<1>4. x % n \in Nat /\ x % n < n /\ x = n * (x \div n) + (x % n)
    BY <1>1 DEF q, r
<1> QED
    BY <1>3, <1>4

\* Multiples are ordered as their factors.
LEMMA Ordered ==
    ASSUME NEW i \in Nat, NEW j \in Nat, NEW a \in Nat, i <= j
    PROVE  i * a <= j * a
<1>1. PICK d \in Nat : j = i + d
    <2>1. j - i \in Nat /\ j = i + (j - i)
        OBVIOUS
    <2> QED
        BY <2>1
<1>2. (i + d) * a = i * a + d * a /\ i * a \in Nat /\ d * a \in Nat
    OBVIOUS
<1> QED
    BY <1>1, <1>2

\* Multiples of different factors lie a whole divisor apart.
LEMMA StrictlyOrdered ==
    ASSUME NEW i \in Nat, NEW j \in Nat, NEW a \in Nat, i < j, a > 0
    PROVE  i * a < j * a
<1>1. (i + 1) * a <= j * a
    BY Ordered
<1>2. (i + 1) * a = i * a + a /\ i * a \in Nat /\ j * a \in Nat
    OBVIOUS
<1> QED
    BY <1>1, <1>2

\* Two numbers less than n apart lie in the same n-tuple or in neighbouring
\* ones, and then the later one has the smaller rest.
LEMMA Neighbours ==
    ASSUME NEW n \in Nat, n > 0, NEW g \in Nat, NEW h \in Nat, g <= h, h - g < n
    PROVE  \/ h \div n = g \div n /\ g % n <= h % n
           \/ h \div n = g \div n + 1 /\ h % n < g % n
<1> DEFINE p == g \div n
           q == h \div n
           r == g % n
           t == h % n
<1>1. /\ p \in Nat /\ q \in Nat /\ r \in Nat /\ t \in Nat
      /\ g = n * p + r /\ h = n * q + t /\ r < n /\ t < n
    BY DivMod
<1> HIDE DEF p, q, r, t
<1>2. n * p \in Nat /\ n * q \in Nat
    BY <1>1
<1>3. CASE q < p
    <2>1. q + 1 <= p
        BY <1>1, <1>3
    <2>2. (q + 1) * n <= p * n
        BY <1>1, <2>1, Ordered
    <2>3. (q + 1) * n = n * q + n /\ p * n = n * p
        BY <1>1
    <2> QED
        BY <1>1, <1>2, <2>2, <2>3
<1>4. CASE q > p + 1
    <2>1. (p + 2) * n <= q * n
        BY <1>1, <1>4, Ordered
    <2>2. (p + 2) * n = n * p + n + n /\ q * n = n * q
        BY <1>1
    <2> QED
        BY <1>1, <1>2, <2>1, <2>2
<1>5. CASE q = p
    BY <1>1, <1>2, <1>5 DEF p, q, r, t
<1>6. CASE q = p + 1
    <2>1. n * q = n * p + n
        BY <1>1, <1>6
    <2>2. t < r
        BY <1>1, <1>2, <2>1
    <2> QED
        BY <1>6, <2>2 DEF p, q, r, t
<1> QED
    BY <1>1, <1>3, <1>4, <1>5, <1>6

\* Quotients are ordered as their dividends.
LEMMA DivMonotone ==
    ASSUME NEW x \in Nat, NEW y \in Nat, x <= y, NEW n \in Nat, n > 0
    PROVE  x \div n <= y \div n
<1> DEFINE p == x \div n
           q == y \div n
<1>1. /\ p \in Nat /\ q \in Nat /\ x % n \in Nat /\ y % n \in Nat
      /\ x = n * p + (x % n) /\ y = n * q + (y % n) /\ x % n < n /\ y % n < n
    BY DivMod
<1> HIDE DEF p, q
<1>2. CASE q < p
    <2>1. (q + 1) * n <= p * n
        BY <1>1, <1>2, Ordered
    <2>2. (q + 1) * n = n * q + n /\ p * n = n * p /\ n * q \in Nat /\ n * p \in Nat
        BY <1>1
    <2> QED
        BY <1>1, <2>1, <2>2
<1>3. p <= q
    BY <1>1, <1>2
<1> QED
    BY <1>3 DEF p, q

\* The quotient of the next number is the same or the next.
LEMMA DivStep ==
    ASSUME NEW x \in Nat, NEW n \in Nat, n > 0
    PROVE  (x + 1) \div n = x \div n \/ (x + 1) \div n = x \div n + 1
<1> DEFINE p == x \div n
           q == (x + 1) \div n
<1>1. /\ p \in Nat /\ q \in Nat /\ x % n \in Nat /\ (x + 1) % n \in Nat
      /\ x = n * p + (x % n) /\ x + 1 = n * q + ((x + 1) % n) /\ x % n < n
    BY DivMod
<1>2. p <= q
    BY DivMonotone
<1> HIDE DEF p, q
<1>3. CASE p + 2 <= q
    <2>1. (p + 2) * n <= q * n
        BY <1>1, <1>3, Ordered
    <2>2. (p + 2) * n = n * p + n + n /\ q * n = n * q /\ n * q \in Nat /\ n * p \in Nat
        BY <1>1
    <2> QED
        BY <1>1, <2>1, <2>2
<1>4. q = p \/ q = p + 1
    BY <1>1, <1>2, <1>3
<1> QED
    BY <1>4 DEF p, q

\* Groups a wide fill a field of view of w in n steps, the last of which
\* begins inside it.
LEMMA GroupsFill ==
    ASSUME NEW w \in Nat, NEW a \in Nat, a > 0, w > a, NEW n, n = (w + a - 1) \div a
    PROVE  n \in Nat /\ n > 1 /\ (n - 1) * a < w /\ w <= n * a
<1>1. n \in Nat /\ w + a - 1 = a * n + ((w + a - 1) % a) /\ (w + a - 1) % a \in Nat
      /\ (w + a - 1) % a < a
    <2>1. w + a - 1 \in Nat
        OBVIOUS
    <2> QED
        BY <2>1, DivMod
<1>2. a * n \in Nat /\ (n - 1) * a = a * n - a /\ n * a = a * n
    BY <1>1
<1>3. n # 0 /\ n # 1
    BY <1>1
<1> QED
    BY <1>1, <1>2, <1>3

\* The angle x of the first block of two and y of the second, in rounds p and
\* q, both counted from the start s of the field of view: the azimuth passes
\* the split angle if and only if the rounds from split to split differ.
LEMMA SplitAtAngle ==
    ASSUME NEW s \in Nat, NEW c \in Nat, c < RS_ONE_ROUND,
           NEW p \in Int, NEW q \in Int, NEW x \in Nat, NEW y \in Nat,
           \/ q = p /\ x <= y /\ y - x < RS_ONE_ROUND
           \/ q = p + 1 /\ y < x /\ x - y < RS_ONE_ROUND,
           NEW i, i = (s + x) % RS_ONE_ROUND, NEW j, j = (s + y) % RS_ONE_ROUND,
           ~(j < i /\ i < c),
           NEW from, from = p + ((s + x - c) \div RS_ONE_ROUND),
           NEW to, to = q + ((s + y - c) \div RS_ONE_ROUND)
    PROVE  /\ from <= to
           /\ ByAngle(c, i, j).split <=> from < to
<1> DEFINE u == p * RS_ONE_ROUND + s + x
           v == q * RS_ONE_ROUND + s + y
           k == u \div RS_ONE_ROUND
           l == v \div RS_ONE_ROUND
<1>1. u \in Int /\ v \in Int /\ u <= v /\ v < u + RS_ONE_ROUND
    BY DEF RS_ONE_ROUND
<1>2. i = u % RS_ONE_ROUND /\ j = v % RS_ONE_ROUND
    BY DEF RS_ONE_ROUND
<1>3. from = (u - c) \div RS_ONE_ROUND /\ to = (v - c) \div RS_ONE_ROUND
    BY DEF RS_ONE_ROUND
<1> HIDE DEF u, v
<1>4. /\ from \in Int /\ to \in Int /\ from <= to
    BY <1>1, <1>3 DEF RS_ONE_ROUND
<1>5. /\ k \in Int /\ l \in Int /\ i \in Nat /\ j \in Nat
      /\ i < RS_ONE_ROUND /\ j < RS_ONE_ROUND
      /\ u = k * RS_ONE_ROUND + i /\ v = l * RS_ONE_ROUND + j
    BY <1>1, <1>2 DEF RS_ONE_ROUND
<1> HIDE DEF k, l
<1>6. \/ l = k /\ i <= j
      \/ l = k + 1 /\ j < i
    BY <1>1, <1>5 DEF RS_ONE_ROUND
<1>7. /\ from = IF i < c THEN k - 1 ELSE k
      /\ to = IF j < c THEN l - 1 ELSE l
    BY <1>3, <1>5 DEF RS_ONE_ROUND
<1>8. ByAngle(c, i, j).split <=>
            (IF j < i THEN i - RS_ONE_ROUND ELSE i) < c /\ c <= j
    BY DEF ByAngle
<1>9. ByAngle(c, i, j).split <=> from < to
    <2>1. CASE l = k /\ i <= j
        BY <1>5, <1>7, <1>8, <2>1 DEF RS_ONE_ROUND
    <2>2. CASE l = k + 1 /\ j < i
        BY <1>5, <1>7, <1>8, <2>2 DEF RS_ONE_ROUND
    <2> QED
        BY <1>6, <2>1, <2>2
<1> QED
    BY <1>4, <1>9

\* The parameters of the lidar that is connected.
LEMMA LidarType ==
    ASSUME lidar \in Lidars
    PROVE  /\ lidar.model \in Models /\ lidar.dual \in BOOLEAN /\ lidar.rps \in Speeds
           /\ lidar.field \in Fields /\ lidar.set.tsFirst \in BOOLEAN /\ lidar.set.fromFile \in BOOLEAN
           /\ Mode \in {"single", "dual"}
           /\ IsMech => MechanicalOK(M)
           /\ ~IsMech => SolidStateOK(M)
<1>1. lidar \in [model : Models, dual : BOOLEAN, rps : Speeds, field : Fields, set : Settings]
    BY DEF Lidars
<1>2. MechanicalOK(M) \/ SolidStateOK(M)
    BY <1>1, ModelsOK, DecoderAssumption DEF DecoderAssumption, M
<1>3. (IsMech => MechanicalOK(M)) /\ (~IsMech => SolidStateOK(M))
    BY <1>2 DEF IsMech, MechanicalOK, SolidStateOK
<1>4. lidar.set.tsFirst \in BOOLEAN /\ lidar.set.fromFile \in BOOLEAN
    BY <1>1, DecoderAssumption DEF DecoderAssumption
<1> QED
    BY <1>1, <1>3, <1>4 DEF Mode

\* The lidar's field of view in groups of blocks.
LEMMA FieldInGroups ==
    ASSUME lidar \in Lidars, IsMech
    PROVE  /\ M.blocks \in Nat /\ M.blocks > 0
           /\ M.iterator[Mode].per \in Nat /\ M.iterator[Mode].per > 0
           /\ GroupAngle \in Nat /\ 0 < GroupAngle /\ GroupAngle <= 160
           /\ lidar.field[1] \in Nat /\ lidar.field[1] < RS_ONE_ROUND
           /\ FieldRange \in Nat /\ FieldRange <= RS_ONE_ROUND
           /\ GroupsPerRound \in Nat /\ GroupsPerRound > 1
           /\ (GroupsPerRound - 1) * GroupAngle < FieldRange
           /\ FieldRange <= (GroupsPerRound - 1) * GroupAngle + 160
           /\ SplitAngle + 160 <= lidar.field[1] + FieldRange
<1>1. MechanicalOK(M) /\ Grouping(M.iterator[Mode])
    BY LidarType DEF MechanicalOK
<1>2. lidar.rps \in Nat /\ 1 <= lidar.rps /\ lidar.rps <= 20
    <2>1. lidar.rps \in Speeds
        BY LidarType
    <2>2. Speeds \subseteq 1..20
        BY DecoderAssumption, Zenon DEF DecoderAssumption
    <2>3. \A r \in 1..20 : r \in Nat /\ 1 <= r /\ r <= 20
        OBVIOUS
    <2> QED
        BY <2>1, <2>2, <2>3, Zenon
<1>3. GroupAngle \in Nat /\ 0 < GroupAngle /\ GroupAngle <= 160
    <2> DEFINE t == M.actual.duration
               turn == lidar.rps * t
               step == (36 * lidar.rps * t + 500000) \div 1000000
    <2>1. t \in Nat /\ 55500 <= t /\ t <= 111080
        BY <1>1 DEF MechanicalOK, Times
    <2>2. turn \in Nat /\ 1 * t <= turn /\ turn <= 20 * t
        BY <1>2, <2>1, Ordered
    <2>3. 36 * lidar.rps * t = 36 * turn
        BY <1>2, <2>1
    <2>4. 55500 <= turn /\ turn <= 2221600
        BY <2>1, <2>2
    <2> HIDE DEF turn, t
    <2>5. step \in Nat /\ 1 <= step /\ step <= 80
        BY <2>2, <2>3, <2>4
    <2>6. M.iterator[Mode].scale \in {1, 2}
        BY <1>1 DEF Grouping
    <2>7. GroupAngle = M.iterator[Mode].scale * step
        BY DEF GroupAngle, t
    <2> HIDE DEF step
    <2> QED
        BY <2>5, <2>6, <2>7
<1>4. /\ lidar.field[1] \in Nat /\ lidar.field[1] < RS_ONE_ROUND
      /\ FieldRange \in Nat /\ FieldRange <= RS_ONE_ROUND /\ 160 < FieldRange
      /\ SplitAngle + 160 <= lidar.field[1] + FieldRange
    <2>1. /\ lidar.field[1] \in Nat /\ lidar.field[1] < RS_ONE_ROUND /\ lidar.field[2] \in Nat
          /\ FieldRange > 160 /\ SplitAngle + 160 <= lidar.field[1] + FieldRange
        BY LidarType, DecoderAssumption DEF DecoderAssumption, FieldRange
    <2>2. FieldRange \in Nat /\ FieldRange <= RS_ONE_ROUND
        BY <2>1 DEF FieldRange, FieldWidth, RS_ONE_ROUND
    <2> QED
        BY <2>1, <2>2
<1>5. /\ GroupsPerRound \in Nat /\ GroupsPerRound > 1
      /\ (GroupsPerRound - 1) * GroupAngle < FieldRange
      /\ FieldRange <= GroupsPerRound * GroupAngle
    <2>1. GroupAngle > 0 /\ FieldRange > GroupAngle
        BY <1>3, <1>4
    <2>2. GroupsPerRound = (FieldRange + GroupAngle - 1) \div GroupAngle
        BY DEF GroupsPerRound
    <2> QED
        BY <1>3, <1>4, <2>1, <2>2, GroupsFill
<1>6. GroupsPerRound * GroupAngle = (GroupsPerRound - 1) * GroupAngle + GroupAngle
      /\ (GroupsPerRound - 1) * GroupAngle \in Nat
    BY <1>3, <1>5
<1> QED
    BY <1>1, <1>3, <1>4, <1>5, <1>6 DEF MechanicalOK, Grouping

\* The groups of a packet follow one another, and those of earlier packets.
LEMMA GroupsOfPacket ==
    ASSUME lidar \in Lidars, IsMech, NEW p \in Nat, p > 0, NEW b \in 1..M.blocks
    PROVE  /\ GroupOf(p, b) \in Nat
           /\ GroupOf(p, 1) <= GroupOf(p, b) /\ GroupOf(p, b) <= GroupOf(p, M.blocks)
           /\ b > 1 => GroupOf(p, b) = GroupOf(p, b - 1) \/ GroupOf(p, b) = GroupOf(p, b - 1) + 1
           /\ \A q \in Nat : 0 < q /\ q < p => GroupOf(q, M.blocks) <= GroupOf(p, 1)
<1> DEFINE B == M.blocks
           n == M.iterator[Mode].per
<1>1. B \in Nat /\ B > 0 /\ n \in Nat /\ n > 0
    BY FieldInGroups
<1>2. \A q \in Nat, c \in 1..B : GroupOf(q, c) = ((q - 1) * B + c - 1) \div n
    BY DEF GroupOf
<1> HIDE DEF B, n
<1>3. (p - 1) * B \in Nat
    BY <1>1
<1>4. GroupOf(p, b) \in Nat
    <2>1. (p - 1) * B + b - 1 \in Nat
        BY <1>3 DEF B
    <2> QED
        BY <1>1, <1>2, <2>1, DivMod DEF B
<1>5. GroupOf(p, 1) <= GroupOf(p, b) /\ GroupOf(p, b) <= GroupOf(p, B)
    <2>1. /\ (p - 1) * B + 1 - 1 \in Nat /\ (p - 1) * B + b - 1 \in Nat /\ (p - 1) * B + B - 1 \in Nat
          /\ (p - 1) * B + 1 - 1 <= (p - 1) * B + b - 1
          /\ (p - 1) * B + b - 1 <= (p - 1) * B + B - 1
        BY <1>1, <1>3 DEF B
    <2>2. 1 \in 1..B /\ b \in 1..B /\ B \in 1..B
        BY <1>1 DEF B
    <2> QED
        BY <1>1, <1>2, <2>1, <2>2, DivMonotone
<1>6. ASSUME b > 1 PROVE GroupOf(p, b) = GroupOf(p, b - 1) \/ GroupOf(p, b) = GroupOf(p, b - 1) + 1
    <2> DEFINE x == (p - 1) * B + (b - 1) - 1
    <2>1. x \in Nat /\ x + 1 = (p - 1) * B + b - 1 /\ b - 1 \in 1..B /\ b \in 1..B
        BY <1>1, <1>3, <1>6 DEF B
    <2>2. GroupOf(p, b - 1) = x \div n /\ GroupOf(p, b) = (x + 1) \div n
        BY <1>2, <2>1
    <2> HIDE DEF x
    <2> QED
        BY <1>1, <2>1, <2>2, DivStep
<1>7. ASSUME NEW q \in Nat, 0 < q, q < p PROVE GroupOf(q, B) <= GroupOf(p, 1)
    <2>1. q * B <= (p - 1) * B
        BY <1>1, <1>7, Ordered
    <2>2. (q - 1) * B \in Nat /\ q * B = (q - 1) * B + B
        BY <1>1, <1>7
    <2>3. 1 \in 1..B /\ B \in 1..B
        BY <1>1
    <2>4. /\ (q - 1) * B + B - 1 \in Nat /\ (p - 1) * B + 1 - 1 \in Nat
          /\ (q - 1) * B + B - 1 <= (p - 1) * B + 1 - 1
        BY <1>1, <1>3, <2>1, <2>2
    <2> QED
        BY <1>1, <1>2, <2>3, <2>4, DivMonotone
<1> QED
    BY <1>4, <1>5, <1>6, <1>7 DEF B

\* The angle and the revolution of a group.
LEMMA AngleOfGroup ==
    ASSUME lidar \in Lidars, IsMech, NEW g \in Nat
    PROVE  /\ g \div GroupsPerRound \in Nat /\ g % GroupsPerRound \in Nat
           /\ g % GroupsPerRound < GroupsPerRound
           /\ (g % GroupsPerRound) * GroupAngle \in Nat
           /\ (g % GroupsPerRound) * GroupAngle <= (GroupsPerRound - 1) * GroupAngle
           /\ (g % GroupsPerRound) * GroupAngle < RS_ONE_ROUND
           /\ Azimuth(g) \in Nat /\ RoundOf(g) \in Int
<1>1. g \div GroupsPerRound \in Nat /\ g % GroupsPerRound \in Nat /\ g % GroupsPerRound < GroupsPerRound
    BY FieldInGroups, DivMod
<1>2. (g % GroupsPerRound) * GroupAngle <= (GroupsPerRound - 1) * GroupAngle
    BY <1>1, FieldInGroups, Ordered
<1>3. (g % GroupsPerRound) * GroupAngle \in Nat /\ (GroupsPerRound - 1) * GroupAngle \in Nat
    BY <1>1, FieldInGroups
<1>4. (g % GroupsPerRound) * GroupAngle < RS_ONE_ROUND
    BY <1>2, <1>3, FieldInGroups DEF RS_ONE_ROUND
<1>5. Azimuth(g) \in Nat
    BY <1>3, FieldInGroups DEF Azimuth, RS_ONE_ROUND
<1>6. RoundOf(g) \in Int
    BY <1>1, <1>3, FieldInGroups, DecoderAssumption DEF RoundOf, RS_ONE_ROUND, DecoderAssumption
<1> QED
    BY <1>1, <1>2, <1>3, <1>4, <1>5, <1>6

\* ByAngle splits between two groups, after an outage it is made for, if and
\* only if they belong to different rounds from split to split.
LEMMA SplitBetweenRounds ==
    ASSUME lidar \in Lidars, IsMech, NEW g \in Nat, NEW h \in Nat, g <= h, Bridged(g, h)
    PROVE  /\ RoundOf(g) <= RoundOf(h)
           /\ ByAngle(SplitAngle, Azimuth(g), Azimuth(h)).split <=> RoundOf(g) < RoundOf(h)
<1> DEFINE n == GroupsPerRound
           x == (g % n) * GroupAngle
           y == (h % n) * GroupAngle
<1>1. n \in Nat /\ n > 0 /\ GroupAngle \in Nat /\ GroupAngle > 0 /\ lidar.field[1] \in Nat
    BY FieldInGroups
<1>2. h - g < n /\ ~(Azimuth(h) < Azimuth(g) /\ Azimuth(g) < SplitAngle)
    BY DEF Bridged
<1>3. \/ h \div n = g \div n /\ g % n <= h % n
      \/ h \div n = g \div n + 1 /\ h % n < g % n
    BY <1>1, <1>2, Neighbours
<1>4. /\ g % n \in Nat /\ h % n \in Nat /\ g \div n \in Nat /\ h \div n \in Nat
      /\ x \in Nat /\ y \in Nat /\ x < RS_ONE_ROUND /\ y < RS_ONE_ROUND
    BY AngleOfGroup
<1>5. /\ g % n <= h % n => x <= y
      /\ h % n < g % n => y < x
    BY <1>1, <1>4, Ordered, StrictlyOrdered
<1>6. /\ Azimuth(g) = (lidar.field[1] + x) % RS_ONE_ROUND
      /\ Azimuth(h) = (lidar.field[1] + y) % RS_ONE_ROUND
    BY DEF Azimuth
<1>7. /\ RoundOf(g) = (g \div n) + ((lidar.field[1] + x - SplitAngle) \div RS_ONE_ROUND)
      /\ RoundOf(h) = (h \div n) + ((lidar.field[1] + y - SplitAngle) \div RS_ONE_ROUND)
    BY DEF RoundOf
<1> HIDE DEF n, x, y
<1>8. \/ h \div n = g \div n /\ x <= y /\ y - x < RS_ONE_ROUND
      \/ h \div n = g \div n + 1 /\ y < x /\ x - y < RS_ONE_ROUND
    BY <1>3, <1>4, <1>5 DEF RS_ONE_ROUND
<1>9. SplitAngle \in Nat /\ SplitAngle < RS_ONE_ROUND
    BY DecoderAssumption DEF DecoderAssumption, RS_ONE_ROUND
<1>10. (g \div n) \in Int /\ (h \div n) \in Int
    BY <1>4
<1> QED
    BY <1>1, <1>2, <1>4, <1>6, <1>7, <1>8, <1>9, <1>10, SplitAtAngle

\* From a group to the next one there is no outage.
LEMMA NextIsBridged ==
    ASSUME lidar \in Lidars, IsMech, NEW g \in Nat, NEW h \in Nat, h = g \/ h = g + 1
    PROVE  Bridged(g, h)
<1> DEFINE n == GroupsPerRound
           s == lidar.field[1]
           x == (g % n) * GroupAngle
           y == (h % n) * GroupAngle
<1>1. /\ n \in Nat /\ n > 1 /\ GroupAngle \in Nat /\ GroupAngle > 0 /\ GroupAngle <= 160
      /\ s \in Nat /\ s < RS_ONE_ROUND /\ FieldRange \in Nat
      /\ FieldRange <= (n - 1) * GroupAngle + 160
      /\ SplitAngle + 160 <= s + FieldRange
    BY FieldInGroups
<1>2. SplitAngle \in Nat /\ SplitAngle + 160 <= RS_ONE_ROUND
    BY DecoderAssumption DEF DecoderAssumption
<1>3. /\ g % n \in Nat /\ h % n \in Nat /\ g \div n \in Nat /\ h \div n \in Nat
      /\ x \in Nat /\ y \in Nat /\ x < RS_ONE_ROUND /\ y < RS_ONE_ROUND
      /\ Azimuth(g) \in Nat /\ Azimuth(h) \in Nat
      /\ h % n < n /\ g % n < n
    BY AngleOfGroup
<1>4. Azimuth(g) = (s + x) % RS_ONE_ROUND /\ Azimuth(h) = (s + y) % RS_ONE_ROUND
    BY DEF Azimuth
<1>5. CASE h = g
    BY <1>1, <1>3, <1>5 DEF Bridged
<1>6. CASE h = g + 1 /\ h % n = (g % n) + 1
    <2>1. y = x + GroupAngle
        BY <1>1, <1>3, <1>6
    <2> HIDE DEF x, y, n, s
    <2>2. ~(Azimuth(h) < Azimuth(g) /\ Azimuth(g) < SplitAngle)
        BY <1>1, <1>2, <1>3, <1>4, <2>1 DEF RS_ONE_ROUND
    <2> QED
        BY <1>1, <1>6, <2>2 DEF Bridged, n
<1>7. CASE h = g + 1 /\ h % n = 0 /\ g % n = n - 1
    <2>1. y = 0 /\ x = (n - 1) * GroupAngle
        BY <1>1, <1>3, <1>7
    <2> HIDE DEF x, y, s, n
    <2>2. ~(Azimuth(h) < Azimuth(g) /\ Azimuth(g) < SplitAngle)
        BY <1>1, <1>2, <1>3, <1>4, <2>1 DEF RS_ONE_ROUND
    <2> QED
        BY <1>1, <1>7, <2>2 DEF Bridged, n
<1>8. ASSUME h = g + 1 PROVE h % n = (g % n) + 1 \/ (h % n = 0 /\ g % n = n - 1)
    <2> DEFINE p == g \div n
               q == h \div n
    <2>1. g = n * p + (g % n) /\ h = n * q + (h % n) /\ p \in Nat /\ q \in Nat
        BY <1>1, DivMod
    <2>2. q = p \/ q = p + 1
        <3>1. (g + 1) \div n = g \div n \/ (g + 1) \div n = g \div n + 1
            BY <1>1, DivStep
        <3> QED
            BY <1>8, <3>1
    <2> HIDE DEF p, q, n
    <2>3. n * (p + 1) = n * p + n /\ n * p \in Nat
        BY <1>1, <2>1
    <2> QED
        BY <1>1, <1>3, <1>8, <2>1, <2>2, <2>3
<1> QED
    BY <1>5, <1>6, <1>7, <1>8

\* The records the decoder works on.
Clouds == [frames : SUBSET Int, from : Int, to : Int, group : Nat, timed : BOOLEAN, sorted : BOOLEAN]
Handed == [cloud : Clouds, ts : Int]
Records == [cloud : Clouds, firstTs : Int, prevTs : Int, prevAngle : Int, out : Seq(Handed), skew : Int]

\* All packets of the lidar arrive, or no split follows a frame's last packet.
Whole == IsMech \/ ~M.endSplit \/ lidar.model \in Lossless

\* The frames of the clouds o.
FramesOf(o) == UNION {o[i].cloud.frames : i \in DOMAIN o}

\* Each of the clouds o has one frame; no frame is in two of them, or in F;
\* each stamp is a time of the own points.
OneFrameEach(o) == \A i \in DOMAIN o : \E f \in Int : o[i].cloud.frames = {f}
Apart(o, F) ==
    \A i \in DOMAIN o :
        /\ o[i].cloud.frames \cap F = {}
        /\ \A j \in 1 .. i - 1 : o[i].cloud.frames \cap o[j].cloud.frames = {}
Stamped(o, F) ==
    \A i \in DOMAIN o :
        \/ o[i].cloud.from <= o[i].ts /\ o[i].ts <= o[i].cloud.to
        \/ lidar.set.tsFirst /\ F = {} /\ i = 1

\* The clouds o that were split off, after those of the frames F.
Kept(o, F) == OneFrameEach(o) /\ (Whole => Apart(o, F) /\ Stamped(o, F))
\* Frame f is after all frames that were handed over.
Newer(o, F, f) == Whole => \A x \in F \cup FramesOf(o) : x < f

\* The decoder works on frame f, or is about to begin it at time ts.
Within(c, ts) == c.from <= ts /\ ts <= c.to
OfFrame(d, F, f) ==
    /\ d.cloud.frames = {f} /\ Newer(d.out, F, f)
    /\ Whole => /\ Within(d.cloud, d.prevTs)
                /\ F # {} \/ d.out # <<>> => Within(d.cloud, d.firstTs)
Begins(d, F, f, ts) ==
    /\ d.cloud.frames = {} /\ Newer(d.out, F, f)
    /\ Whole => (F = {} /\ d.out = <<>>) \/ d.firstTs = ts

\* The larger and the smaller of two numbers.
LEMMA MaxMinOfTwo ==
    ASSUME NEW a \in Int, NEW b \in Int
    PROVE  /\ Max({a, b}) \in Int /\ Max({a, b}) >= a /\ Max({a, b}) >= b
           /\ Min({a, b}) \in Int /\ Min({a, b}) <= a /\ Min({a, b}) <= b
<1>1. \E x \in {a, b} : \A y \in {a, b} : x >= y
    OBVIOUS
<1>2. \E x \in {a, b} : \A y \in {a, b} : x <= y
    OBVIOUS
<1>3. Max({a, b}) \in {a, b} /\ \A y \in {a, b} : Max({a, b}) >= y
    BY <1>1 DEF Max
<1>4. Min({a, b}) \in {a, b} /\ \A y \in {a, b} : Min({a, b}) <= y
    BY <1>2 DEF Min
<1> QED
    BY <1>3, <1>4

\* The largest of three numbers is one of them.
LEMMA MaxOfThree ==
    ASSUME NEW a \in Int, NEW b \in Int, NEW c \in Int
    PROVE  Max({a, b, c}) \in {a, b, c}
<1>1. \E x \in {a, b, c} : \A y \in {a, b, c} : x >= y
    OBVIOUS
<1> QED
    BY <1>1 DEF Max

\* The cloud that follows a split is empty.
LEMMA NoCloudType == NoCloud \in Clouds /\ NoCloud.frames = {}
BY DEF NoCloud, Clouds

\* cb_split_frame_ on a cloud of frame f, before a later frame.
LEMMA SplitFrameType ==
    ASSUME NEW d \in Records, lidar.set.tsFirst \in BOOLEAN
    PROVE  /\ SplitFrame(d) \in Records
           /\ SplitFrame(d).firstTs = d.firstTs /\ SplitFrame(d).prevTs = d.prevTs
           /\ SplitFrame(d).prevAngle = d.prevAngle
           /\ d.cloud.frames = {} => SplitFrame(d) = d
<1> DEFINE h == [cloud |-> d.cloud, ts |-> IF lidar.set.tsFirst THEN d.firstTs ELSE d.prevTs]
<1>1. h \in Handed /\ Append(d.out, h) \in Seq(Handed)
    BY AppendProperties DEF Records, Handed
<1> QED
    BY <1>1, NoCloudType DEF SplitFrame, Records

\* A split before a later frame keeps what the clouds promise.
LEMMA SplitFrameHands ==
    ASSUME NEW d \in Records, lidar.set.tsFirst \in BOOLEAN, NEW F \in SUBSET Int,
           NEW f \in Int, Kept(d.out, F), OfFrame(d, F, f)
    PROVE  LET e == SplitFrame(d)
           IN  /\ Kept(e.out, F) /\ e.cloud = NoCloud /\ e.out # <<>>
               /\ FramesOf(e.out) = FramesOf(d.out) \cup {f}
               /\ \A g \in Int : f < g => Newer(e.out, F, g)
<1> DEFINE h == [cloud |-> d.cloud, ts |-> IF lidar.set.tsFirst THEN d.firstTs ELSE d.prevTs]
           o == d.out
           w == SplitFrame(d).out
           n == Len(o)
<1>1. d.cloud.frames = {f} /\ h \in Handed /\ o \in Seq(Handed) /\ d.cloud \in Clouds
    BY DEF OfFrame, Handed, Records
<1>2. w = Append(o, h) /\ SplitFrame(d).cloud = NoCloud
    BY <1>1 DEF SplitFrame, Records
<1>3. /\ w \in Seq(Handed) /\ Len(w) = n + 1 /\ n \in Nat /\ DOMAIN w = 1..n + 1 /\ DOMAIN o = 1..n
      /\ w[n + 1] = h /\ \A i \in 1..n : w[i] = o[i]
    BY <1>1, <1>2, AppendProperties
<1>4. h.cloud.frames = {f} /\ h.cloud = d.cloud
    BY <1>1
<1> HIDE DEF h, o, w, n
<1>5. FramesOf(w) = FramesOf(o) \cup {f}
    <2>1. \A x : x \in FramesOf(w) <=> \E i \in 1..n + 1 : x \in w[i].cloud.frames
        BY <1>3 DEF FramesOf
    <2>2. \A x : x \in FramesOf(o) <=> \E i \in 1..n : x \in o[i].cloud.frames
        BY <1>3 DEF FramesOf
    <2>3. \A i : i \in 1..n + 1 <=> i \in 1..n \/ i = n + 1
        BY <1>3
    <2>4. \A x : x \in FramesOf(w) <=> (x \in FramesOf(o) \/ x \in h.cloud.frames)
        BY <1>3, <2>1, <2>2, <2>3, Zenon
    <2> QED
        BY <1>4, <2>4
<1>6. OneFrameEach(w)
    BY <1>3, <1>4 DEF Kept, OneFrameEach, o
<1>7. ASSUME Whole PROVE Apart(w, F)
    <2>1. f \notin F /\ f \notin FramesOf(o)
        BY <1>7 DEF OfFrame, Newer, o
    <2>2. \A j \in 1..n : f \notin o[j].cloud.frames
        BY <1>3, <2>1 DEF FramesOf
    <2>3. Apart(o, F)
        BY <1>7 DEF Kept, o
    <2> SUFFICES ASSUME NEW i \in 1..n + 1
                 PROVE  /\ w[i].cloud.frames \cap F = {}
                        /\ \A j \in 1..i - 1 : w[i].cloud.frames \cap w[j].cloud.frames = {}
        BY <1>3 DEF Apart
    <2>4. CASE i \in 1..n
        <3>1. \A j \in 1..i - 1 : j \in 1..n /\ w[j] = o[j]
            BY <1>3, <2>4
        <3> QED
            BY <1>3, <2>3, <2>4, <3>1 DEF Apart
    <2>5. CASE i = n + 1
        <3>1. \A j \in 1..i - 1 : j \in 1..n /\ w[j] = o[j]
            BY <1>3, <2>5
        <3> QED
            BY <1>3, <1>4, <2>1, <2>2, <2>5, <3>1
    <2> QED
        BY <1>3, <2>4, <2>5
<1>8. ASSUME Whole PROVE Stamped(w, F)
    <2>1. Stamped(o, F)
        BY <1>8 DEF Kept, o
    <2>2. Within(d.cloud, h.ts) \/ (lidar.set.tsFirst /\ F = {} /\ n = 0)
        <3>1. o = <<>> => n = 0
            BY DEF n
        <3>2. h.ts = IF lidar.set.tsFirst THEN d.firstTs ELSE d.prevTs
            BY DEF h
        <3> QED
            BY <1>8, <3>1, <3>2 DEF OfFrame, o
    <2> SUFFICES ASSUME NEW i \in 1..n + 1
                 PROVE  \/ w[i].cloud.from <= w[i].ts /\ w[i].ts <= w[i].cloud.to
                        \/ lidar.set.tsFirst /\ F = {} /\ i = 1
        BY <1>3 DEF Stamped
    <2>3. CASE i \in 1..n
        BY <1>3, <2>1, <2>3 DEF Stamped
    <2>4. CASE i = n + 1
        BY <1>3, <1>4, <2>2, <2>4 DEF Within
    <2> QED
        BY <1>3, <2>3, <2>4
<1>9. ASSUME NEW g \in Int, f < g, Whole, NEW x \in F \cup FramesOf(w) PROVE x < g
    <2>1. CASE x = f
        BY <1>9, <2>1
    <2>2. CASE x \in F \cup FramesOf(o)
        <3>1. x < f
            BY <1>9, <2>2 DEF OfFrame, Newer, o
        <3>2. x \in Int
            <4>1. ASSUME NEW i \in 1..n PROVE o[i].cloud.frames \in SUBSET Int
                <5>1. o[i] \in Handed
                    BY <1>1, <1>3, ElementOfSeq
                <5> QED
                    BY <5>1 DEF Handed, Clouds
            <4> QED
                BY <1>3, <2>2, <4>1 DEF FramesOf
        <3> QED
            BY <1>9, <3>1, <3>2
    <2> QED
        BY <1>5, <1>9, <2>1, <2>2
<1>10. w # <<>>
    BY <1>3
<1> QED
    BY <1>2, <1>5, <1>6, <1>7, <1>8, <1>9, <1>10 DEF Kept, Newer, w, o

\* What the points of a group change.
LEMMA AddPointsType ==
    ASSUME NEW d \in Records, NEW f \in Int, NEW g \in Nat, NEW from \in Int, NEW to \in Int
    PROVE  LET e == AddPoints(d, f, g, from, to)
           IN  /\ e \in Records
               /\ e.cloud.group = g /\ e.cloud.frames = d.cloud.frames \cup {f}
               /\ e.prevTs = to /\ e.firstTs = d.firstTs
               /\ e.prevAngle = d.prevAngle /\ e.out = d.out
               /\ e.cloud.from <= from /\ to <= e.cloud.to
               /\ d.cloud.frames # {} => e.cloud.from <= d.cloud.from /\ d.cloud.to <= e.cloud.to
<1> DEFINE c == d.cloud
           n == [frames |-> c.frames \cup {f},
                 from   |-> IF c.frames = {} THEN from ELSE Min({c.from, from}),
                 to     |-> Max({c.to, to}),
                 group  |-> g,
                 timed  |-> c.timed /\ described,
                 sorted |-> c.sorted /\ (c.frames = {} \/ g = c.group \/ from >= c.to)]
           e == [d EXCEPT !.cloud = n, !.prevTs = to]
<1>1. c \in Clouds
    BY DEF Records
<1>2. /\ Min({c.from, from}) \in Int /\ Min({c.from, from}) <= from /\ Min({c.from, from}) <= c.from
      /\ Max({c.to, to}) \in Int /\ Max({c.to, to}) >= to /\ Max({c.to, to}) >= c.to
    BY <1>1, MaxMinOfTwo DEF Clouds
<1>3. AddPoints(d, f, g, from, to) = e
    BY DEF AddPoints
<1>4. n \in Clouds
    BY <1>1, <1>2 DEF Clouds
<1>5. /\ n.group = g /\ n.frames = c.frames \cup {f}
      /\ n.from <= from /\ to <= n.to
      /\ c.frames # {} => n.from <= c.from /\ c.to <= n.to
    BY <1>2
<1> HIDE DEF n
<1>6. /\ e \in Records /\ e.cloud = n /\ e.prevTs = to /\ e.firstTs = d.firstTs
      /\ e.prevAngle = d.prevAngle /\ e.out = d.out
    BY <1>4 DEF Records
<1> QED
    BY <1>3, <1>5, <1>6

\* The points of frame f join an empty cloud or the cloud of frame f.
LEMMA AddPointsToFrame ==
    ASSUME NEW d \in Records, NEW F \in SUBSET Int,
           NEW f \in Int, NEW g \in Nat, NEW from \in Int, NEW to \in Int, from <= to,
           OfFrame(d, F, f) \/ Begins(d, F, f, from)
    PROVE  OfFrame(AddPoints(d, f, g, from, to), F, f)
<1> DEFINE e == AddPoints(d, f, g, from, to)
<1>0. e = AddPoints(d, f, g, from, to)
    OBVIOUS
<1> HIDE DEF e
<1>1. /\ e \in Records /\ e.cloud.frames = d.cloud.frames \cup {f}
      /\ e.prevTs = to /\ e.firstTs = d.firstTs /\ e.out = d.out
      /\ e.cloud.from <= from /\ to <= e.cloud.to
      /\ d.cloud.frames # {} => e.cloud.from <= d.cloud.from /\ d.cloud.to <= e.cloud.to
    BY <1>0, AddPointsType
<1>2. /\ d.cloud.from \in Int /\ d.cloud.to \in Int /\ d.firstTs \in Int
      /\ e.cloud.from \in Int /\ e.cloud.to \in Int
    BY <1>1 DEF Records, Clouds
<1>3. e.cloud.frames = {f} /\ Newer(e.out, F, f)
    BY <1>1 DEF OfFrame, Begins
<1>4. Within(e.cloud, e.prevTs)
    BY <1>1, <1>2 DEF Within
<1>5. ASSUME Whole, F # {} \/ e.out # <<>> PROVE Within(e.cloud, e.firstTs)
    <2>1. CASE OfFrame(d, F, f)
        <3>1. Within(d.cloud, d.firstTs) /\ d.cloud.frames # {}
            BY <1>1, <1>5, <2>1 DEF OfFrame
        <3> QED
            BY <1>1, <1>2, <3>1 DEF Within
    <2>2. CASE Begins(d, F, f, from)
        <3>1. d.firstTs = from
            BY <1>1, <1>5, <2>2 DEF Begins
        <3> QED
            BY <1>1, <1>2, <3>1 DEF Within
    <2> QED
        BY <2>1, <2>2
<1> QED
    BY <1>3, <1>4, <1>5, <1>0 DEF OfFrame

\* The decoder has just decoded group g, or nothing so far.
OnGroup(d, F, g) ==
    /\ Kept(d.out, F) /\ OfFrame(d, F, RoundOf(g))
    /\ d.cloud.group = g /\ d.prevAngle = Azimuth(g)
\* No point has been decoded.
Idle(d, F) == d.cloud = NoCloud /\ d.out = <<>> /\ F = {} /\ d.prevAngle = SplitAngle

\* A group is fired at some time.
LEMMA GroupTsType ==
    ASSUME lidar \in Lidars, IsMech, NEW g \in Nat
    PROVE  GroupTs(g) \in Int
<1>1. lidar.rps \in Nat /\ lidar.rps > 0
    <2>1. lidar.rps \in Speeds
        BY LidarType
    <2>2. Speeds \subseteq 1..20
        BY DecoderAssumption, Zenon DEF DecoderAssumption
    <2>3. \A r \in 1..20 : r \in Nat /\ r > 0
        OBVIOUS
    <2> QED
        BY <2>1, <2>2, <2>3, Zenon
<1>2. RoundTime \in Int
    BY <1>1 DEF RoundTime
<1>3. GroupDuration \in Int
    <2>1. M.iterator[Mode].scale \in {1, 2} /\ M.actual.duration \in Nat
        BY LidarType DEF MechanicalOK, Grouping, Times
    <2> QED
        BY <2>1 DEF GroupDuration
<1>4. g \div GroupsPerRound \in Int /\ g % GroupsPerRound \in Int
    BY AngleOfGroup
<1> HIDE DEF GroupTs
<1>5. (g \div GroupsPerRound) * RoundTime \in Int /\ (g % GroupsPerRound) * GroupDuration \in Int
    BY <1>2, <1>3, <1>4
<1> QED
    BY <1>2, <1>5 DEF GroupTs

\* What DecodeBlock does before the points are added.
Turn(d, g, az, ts, split) ==
    [(IF split THEN [SplitFrame(d) EXCEPT !.firstTs = ts] ELSE d)
       EXCEPT !.prevAngle = az, !.skew = Max({@, ts - GroupTs(g), GroupTs(g) - ts})]

\* A turn keeps the records' types.
LEMMA TurnType ==
    ASSUME lidar \in Lidars, IsMech, NEW d \in Records, NEW g \in Nat, NEW az \in Int, NEW ts \in Int,
           NEW split \in BOOLEAN, NEW a, a = Turn(d, g, az, ts, split)
    PROVE  /\ a \in Records /\ a.prevAngle = az
           /\ a.cloud = IF split THEN SplitFrame(d).cloud ELSE d.cloud
           /\ a.out = IF split THEN SplitFrame(d).out ELSE d.out
           /\ a.firstTs = IF split THEN ts ELSE d.firstTs
           /\ a.prevTs = d.prevTs
<1> DEFINE x == IF split THEN [SplitFrame(d) EXCEPT !.firstTs = ts] ELSE d
<1>1. SplitFrame(d) \in Records /\ SplitFrame(d).prevTs = d.prevTs
    BY LidarType, SplitFrameType
<1>2. /\ x \in Records /\ x.prevTs = d.prevTs
      /\ x.cloud = IF split THEN SplitFrame(d).cloud ELSE d.cloud
      /\ x.out = IF split THEN SplitFrame(d).out ELSE d.out
      /\ x.firstTs = IF split THEN ts ELSE d.firstTs
    BY <1>1 DEF Records
<1> DEFINE m == Max({x.skew, ts - GroupTs(g), GroupTs(g) - ts})
<1>3. m \in Int
    <2> DEFINE u == x.skew
               v == ts - GroupTs(g)
               w == GroupTs(g) - ts
    <2>1. u \in Int /\ v \in Int /\ w \in Int
        BY <1>2, GroupTsType DEF Records
    <2> HIDE DEF u, v, w
    <2>2. Max({u, v, w}) \in Int
        BY <2>1, MaxOfThree
    <2> QED
        BY <2>2 DEF u, v, w
<1>4. a = [x EXCEPT !.prevAngle = az, !.skew = m]
    BY DEF Turn
<1> HIDE DEF m, x
<1>5. /\ a \in Records /\ a.prevAngle = az /\ a.cloud = x.cloud /\ a.out = x.out
      /\ a.firstTs = x.firstTs /\ a.prevTs = x.prevTs
    BY <1>2, <1>3, <1>4 DEF Records
<1> QED
    BY <1>2, <1>5

\* So does a block.
LEMMA DecodeBlockType ==
    ASSUME lidar \in Lidars, IsMech, NEW d \in Records, NEW p \in Nat, p > 0, NEW b \in 1..M.blocks,
           NEW az \in Int, NEW ts \in Int, NEW last \in Nat
    PROVE  DecodeBlock(d, p, b, az, ts, last) \in Records
<1> DEFINE g == GroupOf(p, b)
           split == ByAngle(SplitAngle, d.prevAngle, az).split
           a == Turn(d, g, az, ts, split)
<1>1. g \in Nat /\ RoundOf(g) \in Int
    BY GroupsOfPacket, AngleOfGroup
<1>2. split \in BOOLEAN /\ ByAngle(SplitAngle, d.prevAngle, az).prev = az
    BY DEF ByAngle
<1>3. DecodeBlock(d, p, b, az, ts, last) = AddPoints(a, RoundOf(g), g, ts, ts + last)
    BY <1>2 DEF DecodeBlock, Turn
<1> HIDE DEF g, split
<1>4. a \in Records
    BY <1>1, <1>2, TurnType
<1> HIDE DEF a
<1>5. ts + last \in Int
    OBVIOUS
<1> QED
    BY <1>1, <1>3, <1>4, <1>5, AddPointsType

\* After a block, the cloud has the points of the block's revolution: the
\* decoder had been idle, or on a group from which the outage is bridged.
LEMMA DecodeBlockOnGroup ==
    ASSUME lidar \in Lidars, IsMech, NEW F \in SUBSET Int,
           NEW d \in Records, NEW p \in Nat, p > 0, NEW b \in 1..M.blocks,
           NEW h, h = GroupOf(p, b),
           \/ Idle(d, F)
           \/ \E g \in Nat : g <= h /\ Bridged(g, h) /\ OnGroup(d, F, g),
           NEW ts \in Int, NEW last \in Nat
    PROVE  OnGroup(DecodeBlock(d, p, b, Azimuth(h), ts, last), F, h)
<1> DEFINE az == Azimuth(h)
           split == ByAngle(SplitAngle, d.prevAngle, az).split
           a == Turn(d, h, az, ts, split)
           e == AddPoints(a, RoundOf(h), h, ts, ts + last)
<1>1. h \in Nat /\ RoundOf(h) \in Int /\ az \in Nat
    BY GroupsOfPacket, AngleOfGroup
<1>2. split \in BOOLEAN /\ ByAngle(SplitAngle, d.prevAngle, az).prev = az
    BY DEF ByAngle
<1>3. DecodeBlock(d, p, b, az, ts, last) = e
    BY <1>2 DEF DecodeBlock, Turn
<1>4. lidar.set.tsFirst \in BOOLEAN
    BY LidarType
<1>5. /\ a \in Records /\ a.prevAngle = az
      /\ a.cloud = IF split THEN SplitFrame(d).cloud ELSE d.cloud
      /\ a.out = IF split THEN SplitFrame(d).out ELSE d.out
      /\ a.firstTs = IF split THEN ts ELSE d.firstTs
      /\ a.prevTs = d.prevTs
    <2> HIDE DEF split, az
    <2>1. a = Turn(d, h, az, ts, split)
        OBVIOUS
    <2> HIDE DEF a
    <2> QED
        BY <1>1, <1>2, <2>1, TurnType
<1> HIDE DEF a, az
<1>6. Kept(a.out, F) /\ (OfFrame(a, F, RoundOf(h)) \/ Begins(a, F, RoundOf(h), ts))
    <2>1. CASE Idle(d, F)
        <3>1. ~split
            <4>1. SplitAngle \in Nat
                BY DecoderAssumption DEF DecoderAssumption
            <4>2. d.prevAngle = SplitAngle
                BY <2>1 DEF Idle
            <4>3. ByAngle(SplitAngle, SplitAngle, az).split <=>
                     (IF az < SplitAngle THEN SplitAngle - RS_ONE_ROUND ELSE SplitAngle) < SplitAngle
                     /\ SplitAngle <= az
                BY DEF ByAngle
            <4>4. ~ByAngle(SplitAngle, SplitAngle, az).split
                BY <1>1, <4>1, <4>3 DEF RS_ONE_ROUND
            <4> QED
                BY <4>2, <4>4, Zenon
        <3>2. a.out = <<>> /\ a.cloud.frames = {} /\ F = {}
            BY <1>5, <2>1, <3>1, NoCloudType DEF Idle
        <3>3. DOMAIN a.out = {}
            BY <3>2
        <3>4. FramesOf(a.out) = {} /\ Kept(a.out, F)
            BY <3>3 DEF FramesOf, Kept, OneFrameEach, Apart, Stamped
        <3> QED
            BY <3>2, <3>4 DEF Begins, Newer
    <2>2. ASSUME NEW g \in Nat, g <= h, Bridged(g, h), OnGroup(d, F, g)
          PROVE  Kept(a.out, F) /\ (OfFrame(a, F, RoundOf(h)) \/ Begins(a, F, RoundOf(h), ts))
        <3>1. d.prevAngle = Azimuth(g) /\ OfFrame(d, F, RoundOf(g)) /\ Kept(d.out, F)
            BY <2>2 DEF OnGroup
        <3>2. /\ RoundOf(g) \in Int /\ RoundOf(g) <= RoundOf(h)
              /\ split <=> RoundOf(g) < RoundOf(h)
            BY <1>1, <2>2, <3>1, SplitBetweenRounds, AngleOfGroup DEF az
        <3> HIDE DEF split
        <3>3. CASE split
            <4>1. /\ Kept(SplitFrame(d).out, F) /\ SplitFrame(d).cloud = NoCloud
                  /\ Newer(SplitFrame(d).out, F, RoundOf(h))
                BY <1>1, <1>4, <3>1, <3>2, <3>3, SplitFrameHands
            <4> QED
                BY <1>5, <3>3, <4>1, NoCloudType DEF Begins
        <3>4. CASE ~split
            <4>1. RoundOf(g) = RoundOf(h)
                BY <1>1, <3>2, <3>4
            <4>2. a.cloud = d.cloud /\ a.out = d.out /\ a.firstTs = d.firstTs /\ a.prevTs = d.prevTs
                BY <1>5, <3>4
            <4> QED
                BY <3>1, <4>1, <4>2 DEF OfFrame
        <3> QED
            BY <3>3, <3>4
    <2> QED
        BY <2>1, <2>2
<1>7. ts + last \in Int /\ ts <= ts + last
    OBVIOUS
<1> HIDE DEF e
<1>8. e = AddPoints(a, RoundOf(h), h, ts, ts + last)
    BY DEF e
<1>9. OfFrame(e, F, RoundOf(h))
    BY <1>1, <1>5, <1>6, <1>7, <1>8, AddPointsToFrame
<1>10. e.cloud.group = h /\ e.prevAngle = a.prevAngle /\ e.out = a.out
    BY <1>1, <1>5, <1>7, <1>8, AddPointsType
<1> QED
    BY <1>3, <1>5, <1>6, <1>9, <1>10 DEF OnGroup, az

\* The number of the group a block is in.
LEMMA GroupInType ==
    ASSUME NEW it, Grouping(it), NEW az, NEW n \in Nat, NEW b \in 1..n
    PROVE  GroupIn(it, az, b) \in 0..n
<1>1. CASE it.alternating
    <2>1. b \div 3 \in 0..n /\ (IF b = 1 THEN 0 ELSE 1) \in 0..n
        OBVIOUS
    <2> QED
        BY <1>1, <2>1 DEF GroupIn
<1>2. CASE ~it.alternating
    <2> DEFINE q == (b - 1) \div it.per
    <2>1. it.per \in Nat /\ it.per > 0 /\ b - 1 \in Nat
        BY DEF Grouping
    <2>2. q \in Nat /\ b - 1 = it.per * q + ((b - 1) % it.per) /\ (b - 1) % it.per \in Nat
        BY <2>1, DivMod
    <2>3. GroupIn(it, az, b) = q
        BY <1>2 DEF GroupIn
    <2> HIDE DEF q
    <2>4. 1 * q <= it.per * q
        BY <2>1, <2>2, Ordered
    <2>5. it.per * q \in Nat /\ 1 * q = q
        BY <2>1, <2>2
    <2>6. q <= b - 1
        BY <2>1, <2>2, <2>4, <2>5
    <2> QED
        BY <2>2, <2>3, <2>6
<1> QED
    BY <1>1, <1>2

\* The azimuths of n blocks.
Angles(n) == [1..n -> Int]

\* The k-th group of blocks of a packet, and the next one, if it has one.
FirstBlock(it, k) == IF it.alternating THEN 1 ELSE (k - 1) * it.per + 1
NextBlock(it, k) == IF it.alternating THEN 3 ELSE k * it.per + 1

\* offset has the times that BlockOffsets sums up.
SumsOf(it, n, az, duration, bl, offset) ==
    /\ offset \in [0..n -> Int] /\ offset[0] = 0
    /\ \A k \in 1..n : offset[k] = offset[k - 1] +
           GroupTime(it, az, duration, bl, FirstBlock(it, k), NextBlock(it, k))
    /\ \A b \in 1..n : BlockOffsets(it, az, duration, bl)[b] = offset[GroupIn(it, az, b)]

\* The offsets are the sums of the groups' times.
LEMMA OffsetFunction ==
    ASSUME NEW it, Grouping(it), NEW n \in Nat, NEW az \in Angles(n),
           NEW duration \in Int, NEW bl \in Int
    PROVE  \E offset : SumsOf(it, n, az, duration, bl, offset)
<1> DEFINE time(k) == GroupTime(it, az, duration, bl, FirstBlock(it, k), NextBlock(it, k))
           first(k) == IF it.alternating THEN 1 ELSE (k - 1) * it.per + 1
           next(k) == IF it.alternating THEN 3 ELSE k * it.per + 1
           G(g) == [k \in 0..Len(az) |->
                      IF k = 0 THEN 0
                      ELSE g[k - 1] + GroupTime(it, az, duration, bl, first(k), next(k))]
           step == [k \in 1..n |-> [v \in Int |-> v + time(k)]]
           offset == CHOOSE g : g = G(g)
<1>1. Len(az) = n /\ DOMAIN az = 1..n
    BY DEF Angles
<1>2. \A k \in 1..n : time(k) \in Int
    <2>1. it.scale * duration \in Int
        BY DEF Grouping
    <2> QED
        BY <2>1 DEF GroupTime
<1>3. BlockOffsets(it, az, duration, bl) = [b \in DOMAIN az |-> offset[GroupIn(it, az, b)]]
    BY DEF BlockOffsets
<1>4. \A g : G(g) = [k \in 0..n |-> IF k = 0 THEN 0 ELSE g[k - 1] + time(k)]
    BY <1>1 DEF FirstBlock, NextBlock
<1> HIDE DEF time, G
<1>5. PICK f \in [0..n -> Int] : f[0] = 0 /\ \A k \in 1..n : f[k] = f[k - 1] + time(k)
    <2>1. step \in StepFunctions(Int, n)
        <3> SUFFICES ASSUME NEW k \in 1..n, NEW v \in Int PROVE v + time(k) \in Int
            BY Zenon DEF StepFunctions
        <3>1. time(k) \in Int
            BY <1>2
        <3> QED
            BY <3>1
    <2> HIDE DEF step
    <2>2. PICK g : RunFrom(Int, 0, n, step, g)
        <3>1. 0 \in Int
            OBVIOUS
        <3> QED
            BY <2>1, <3>1, Recursion, Zenon
    <2>3. \A k \in 1..n : g[k] = g[k - 1] + time(k)
        <3> SUFFICES ASSUME NEW k \in 1..n PROVE g[k] = g[k - 1] + time(k)
            OBVIOUS
        <3>1. k - 1 \in 0..n
            OBVIOUS
        <3> QED
            BY <2>2, <3>1 DEF step, RunFrom
    <2> QED
        BY <2>2, <2>3 DEF RunFrom
<1>6. \E g : g = G(g)
    <2>1. f = [k \in 0..n |-> IF k = 0 THEN 0 ELSE f[k - 1] + time(k)]
        BY <1>5
    <2> QED
        BY <1>4, <2>1
<1>7. offset = G(offset)
    BY <1>6
<1> HIDE DEF offset
<1>8. /\ DOMAIN offset = 0..n /\ offset[0] = 0
      /\ \A k \in 1..n : offset[k] = offset[k - 1] + time(k)
      /\ offset = [k \in 0..n |-> IF k = 0 THEN 0 ELSE offset[k - 1] + time(k)]
    <2>1. offset = [k \in 0..n |-> IF k = 0 THEN 0 ELSE offset[k - 1] + time(k)]
        BY <1>4, <1>7
    <2> QED
        BY <2>1
<1>9. \A k \in 0..n : offset[k] \in Int
    <2> DEFINE S == {k \in Nat : k <= n => offset[k] \in Int}
    <2>1. 0 \in S
        BY <1>8
    <2>2. ASSUME NEW k \in Nat, k \in S PROVE k + 1 \in S
        <3> SUFFICES ASSUME k + 1 <= n PROVE offset[k + 1] \in Int
            OBVIOUS
        <3>1. k + 1 \in 1..n /\ (k + 1) - 1 = k /\ offset[k] \in Int
            BY <2>2
        <3>2. offset[k + 1] = offset[k] + time(k + 1) /\ time(k + 1) \in Int
            BY <1>2, <1>8, <3>1
        <3> QED
            BY <3>1, <3>2
    <2> HIDE DEF S
    <2>3. Nat \subseteq S
        BY <2>1, <2>2, SetInduction
    <2> QED
        BY <2>3 DEF S
<1>10. offset \in [0..n -> Int]
    <2>1. \A k \in 0..n : (IF k = 0 THEN 0 ELSE offset[k - 1] + time(k)) = offset[k]
        BY <1>8
    <2> QED
        BY <1>8, <1>9, <2>1
<1>11. SumsOf(it, n, az, duration, bl, offset)
    BY <1>1, <1>3, <1>8, <1>10 DEF time, SumsOf
<1> QED
    BY <1>11

\* Every block has a time offset.
LEMMA OffsetsType ==
    ASSUME NEW it, Grouping(it), NEW n \in Nat, NEW az \in Angles(n),
           NEW duration \in Int, NEW bl \in Int
    PROVE  \A b \in 1..n : BlockOffsets(it, az, duration, bl)[b] \in Int
<1>1. PICK offset : SumsOf(it, n, az, duration, bl, offset)
    BY OffsetFunction
<1> QED
    BY <1>1, GroupInType DEF SumsOf

\* The types of the variables.
TypeOK ==
    /\ lidar \in Lidars /\ sent \in Nat /\ held \in SUBSET Nat
    /\ ready \in BOOLEAN /\ described \in BOOLEAN /\ installed \in BOOLEAN
    /\ echo \in {"single", "dual"} /\ Times(timing) /\ blind \in Int
    /\ prevAngle \in Int /\ seqs \in [prev : Nat, max : Nat, looped : BOOLEAN]
    /\ cloud \in Clouds /\ firstTs \in Int /\ prevTs \in Int
    /\ out \in Seq(Handed) /\ done \in SUBSET Int /\ skew \in Int

\* The frames of all clouds that were split off.
Shut == done \cup FramesOf(out)

\* No MSOP packet has been decoded.
Nothing ==
    /\ cloud = NoCloud /\ done = {} /\ out = <<>>
    /\ prevAngle = SplitAngle /\ seqs = InitSeq /\ held = {}

\* The last block of a mechanical lidar was one of the packets so far.
OnRound ==
    \E g \in Nat : sent > 0 /\ g <= GroupOf(sent, M.blocks) /\ OnGroup(Before, Shut, g)

MechInv == held = {} /\ (Nothing \/ OnRound)

\* The number of a frame's last packet.
LastSeq == PacketsPerFrame + M.first - 1

\* The last packet of a frame has been decoded, and split off its cloud.
FrameEnded ==
    /\ M.endSplit /\ cloud.frames = {}
    /\ Whole => SeqOf(sent) = LastSeq /\ \A x \in Shut : x <= FrameOf(sent)

\* The split strategy follows the packets of a solid-state lidar: the number
\* of the last one, and, where no packet is lost, the length of a frame; the
\* cloud is that packet's frame.
Followed ==
    /\ ready /\ sent > 0 /\ seqs.prev = SeqOf(sent)
    /\ seqs.prev <= seqs.max /\ seqs.max <= LastSeq
    /\ M.endSplit /\ lidar.model \in Lossless /\ seqs.looped => seqs.max = LastSeq
    /\ \A q \in held : 0 < q /\ q < sent /\ sent - q <= RANGE /\ FrameOf(q) = FrameOf(sent)
    /\ OfFrame(Before, Shut, FrameOf(sent)) \/ FrameEnded

SeqInv == (lidar.model \in Lossless => held = {}) /\ (Nothing \/ Followed)

\* The inductive invariant.
Inv ==
    /\ TypeOK
    /\ Kept(out, done)
    /\ IsMech => MechInv
    /\ ~IsMech => SeqInv

\* The record a packet begins with.
LEMMA BeforeType == ASSUME TypeOK PROVE Before \in Records /\ Shut \in SUBSET Int
<1>1. <<>> \in Seq(Handed)
    OBVIOUS
<1>2. Before \in Records
    BY <1>1 DEF TypeOK, Before, Records
<1>3. \A i \in DOMAIN out : out[i].cloud.frames \in SUBSET Int
    <2> SUFFICES ASSUME NEW i \in DOMAIN out PROVE out[i].cloud.frames \in SUBSET Int
        OBVIOUS
    <2>1. out \in Seq(Handed) /\ i \in 1..Len(out)
        BY DEF TypeOK
    <2>2. out[i] \in Handed
        BY <2>1, ElementOfSeq
    <2> QED
        BY <2>2 DEF Handed, Clouds
<1>4. Shut \in SUBSET Int
    BY <1>3 DEF Shut, FramesOf, TypeOK
<1> QED
    BY <1>2, <1>4

\* No cloud, nothing to keep.
LEMMA EmptyOut ==
    /\ FramesOf(<<>>) = {}
    /\ \A F : Kept(<<>>, F)
<1>1. DOMAIN <<>> = {}
    OBVIOUS
<1> QED
    BY <1>1 DEF FramesOf, Kept, OneFrameEach, Apart, Stamped

\* The invariant holds initially.
LEMMA InitInv == ASSUME Init PROVE Inv
<1>1. lidar \in Lidars
    BY DEF Init
<1>2. Times(IF IsMech THEN M.initial ELSE Timing(0, 0, 0))
    <2>1. IsMech => Times(M.initial)
        BY <1>1, LidarType DEF MechanicalOK
    <2>2. Times(Timing(0, 0, 0))
        BY TimingType
    <2> QED
        BY <2>1, <2>2
<1>3. ready \in BOOLEAN
    <2>1. lidar.set.fromFile \in BOOLEAN /\ (~M.anglesInDifop) \in BOOLEAN
        BY <1>1, LidarType
    <2> QED
        BY <2>1 DEF Init
<1>4. SplitAngle \in Int
    BY DecoderAssumption DEF DecoderAssumption
<1>5. TypeOK
    <2>1. Times(timing) /\ ready \in BOOLEAN
        BY <1>2, <1>3 DEF Init
    <2>2. seqs \in [prev : Nat, max : Nat, looped : BOOLEAN]
        BY DEF Init, InitSeq
    <2>3. cloud \in Clouds /\ out \in Seq(Handed) /\ prevAngle \in Int
        BY <1>4, NoCloudType DEF Init
    <2>4. /\ sent = 0 /\ held = {} /\ described = FALSE /\ installed = FALSE
          /\ echo = "single" /\ blind = 0 /\ firstTs = 0 /\ prevTs = 0 /\ done = {} /\ skew = 0
        BY DEF Init
    <2>5. /\ sent \in Nat /\ held \in SUBSET Nat /\ echo \in {"single", "dual"} /\ blind \in Int
          /\ firstTs \in Int /\ prevTs \in Int /\ done \in SUBSET Int /\ skew \in Int
        BY <2>4
    <2>6. described \in BOOLEAN /\ installed \in BOOLEAN
        BY <2>4
    <2> QED
        BY <1>1, <2>1, <2>2, <2>3, <2>5, <2>6, Zenon DEF TypeOK
<1>6. Kept(out, done) /\ Nothing
    BY EmptyOut DEF Init, Nothing
<1> QED
    BY <1>5, <1>6 DEF Inv, MechInv, SeqInv, Nothing

\* The lidar's packets are what they were.
LEMMA SameLidar ==
    ASSUME lidar' = lidar
    PROVE  /\ M' = M /\ IsMech' = IsMech /\ Whole' = Whole /\ Mode' = Mode
           /\ \A F, o : Kept(o, F)' = Kept(o, F)
           /\ \A d, F, f : OfFrame(d, F, f)' = OfFrame(d, F, f)
           /\ \A d, F, g : OnGroup(d, F, g)' = OnGroup(d, F, g)
           /\ \A g : RoundOf(g)' = RoundOf(g) /\ Azimuth(g)' = Azimuth(g)
           /\ \A p, b : GroupOf(p, b)' = GroupOf(p, b)
           /\ \A p : SeqOf(p)' = SeqOf(p)
<1>1. /\ M' = M /\ IsMech' = IsMech /\ Whole' = Whole /\ Mode' = Mode
    BY DEF M, IsMech, Whole, Mode
<1>2. \A F, o : Kept(o, F)' = Kept(o, F)
    BY <1>1 DEF Kept, Whole, Stamped
<1>3. \A d, F, f : OfFrame(d, F, f)' = OfFrame(d, F, f)
    BY <1>1 DEF OfFrame, Newer, Whole
<1>4. \A g : RoundOf(g)' = RoundOf(g) /\ Azimuth(g)' = Azimuth(g)
    BY <1>1 DEF RoundOf, Azimuth, GroupsPerRound, FieldRange, GroupAngle
<1>5. \A d, F, g : OnGroup(d, F, g)' = OnGroup(d, F, g)
    BY <1>2, <1>3, <1>4 DEF OnGroup
<1>6. \A p, b : GroupOf(p, b)' = GroupOf(p, b)
    BY <1>1 DEF GroupOf
<1>7. \A p : SeqOf(p)' = SeqOf(p)
    BY <1>1 DEF SeqOf
<1> QED
    BY <1>1, <1>2, <1>3, <1>4, <1>5, <1>6, <1>7

\* A packet's clouds leave, and their frames join those before them.
LEMMA HandOver ==
    ASSUME TypeOK, lidar' = lidar, NEW r \in Records, Becomes(r), Kept(r.out, Shut)
    PROVE  /\ cloud' \in Clouds /\ firstTs' \in Int /\ prevTs' \in Int /\ prevAngle' \in Int
           /\ out' \in Seq(Handed) /\ done' \in SUBSET Int /\ skew' \in Int
           /\ cloud' = r.cloud /\ prevAngle' = r.prevAngle /\ out' = r.out
           /\ Kept(out, done)'
           /\ Shut' = Shut \cup FramesOf(r.out)
           /\ \A f \in Int : OfFrame(r, Shut, f) => OfFrame(Before, Shut, f)'
<1>1. /\ cloud' = r.cloud /\ firstTs' = r.firstTs /\ prevTs' = r.prevTs
      /\ prevAngle' = r.prevAngle /\ out' = r.out /\ skew' = r.skew
      /\ done' = Shut
    BY DEF Becomes, Shut, FramesOf
<1>2. /\ cloud' \in Clouds /\ firstTs' \in Int /\ prevTs' \in Int /\ prevAngle' \in Int
      /\ out' \in Seq(Handed) /\ skew' \in Int
    BY <1>1 DEF Records
<1>3. done' \in SUBSET Int
    BY <1>1, BeforeType
<1>4. Kept(out, done)'
    BY <1>1, SameLidar DEF Kept, OneFrameEach, Apart, Stamped
<1>5. Shut' = Shut \cup FramesOf(r.out)
    BY <1>1 DEF Shut, FramesOf
<1>6. ASSUME NEW f \in Int, OfFrame(r, Shut, f) PROVE OfFrame(Before, Shut, f)'
    <2>1. Before' = [cloud |-> r.cloud, firstTs |-> r.firstTs, prevTs |-> r.prevTs,
                     prevAngle |-> r.prevAngle, out |-> <<>>, skew |-> 0]
        BY <1>1 DEF Before
    <2>2. /\ Before'.cloud = r.cloud /\ Before'.firstTs = r.firstTs
          /\ Before'.prevTs = r.prevTs /\ Before'.out = <<>>
        BY <2>1
    <2>3. FramesOf(<<>>) = {}
        BY EmptyOut
    <2>4. Newer(Before.out, Shut, f)'
        <3>1. Whole' => \A x \in Shut' : x < f
            BY <1>5, <1>6, SameLidar DEF OfFrame, Newer
        <3>2. FramesOf(Before.out)' = {}
            BY <2>2 DEF FramesOf
        <3> QED
            BY <3>1, <3>2 DEF Newer
    <2>5. Shut' # {} => Shut # {} \/ r.out # <<>>
        BY <1>5, <2>3
    <2>6. Whole' => /\ Within(Before'.cloud, Before'.prevTs)
                    /\ Shut' # {} \/ Before'.out # <<>> => Within(Before'.cloud, Before'.firstTs)
        BY <1>6, <2>2, <2>5, SameLidar DEF OfFrame
    <2>7. Before'.cloud.frames = {f}
        BY <1>6, <2>2 DEF OfFrame
    <2> QED
        BY <2>4, <2>6, <2>7 DEF OfFrame, Within
<1> QED
    BY <1>1, <1>2, <1>3, <1>4, <1>5, <1>6

\* The azimuths of packet p's blocks.
Azimuths(p) == [b \in 1..M.blocks |-> Azimuth(GroupOf(p, b))]

\* The decoder's way through the first n blocks of a packet.
MechRun(p, n, mode, params, ts, last, after) ==
    /\ mode = IF M.echoIn = "msop" THEN Mode ELSE echo
    /\ params = IF M.install /\ ~installed THEN timing ELSE M.actual
    /\ last = params.last[mode] /\ last \in Nat
    /\ \A b \in 1..M.blocks :
         /\ ts[b] = GroupTs(GroupOf(p, 1))
                      + BlockOffsets(M.iterator[mode], Azimuths(p), params.duration, blind)[b]
         /\ ts[b] \in Int
    /\ after[0] = Before
    /\ \A b \in 1..n :
         /\ after[b - 1] \in Records /\ after[b] \in Records
         /\ after[b] = DecodeBlock(after[b - 1], p, b, Azimuth(GroupOf(p, b)), ts[b], last)
    /\ timing' = params /\ Times(timing') /\ echo' = mode /\ echo' \in {"single", "dual"}
    /\ seqs' = seqs /\ Becomes(after[n])

\* DecodeMech goes it.
LEMMA DecodeMechRuns ==
    ASSUME TypeOK, IsMech, NEW p \in Nat, p > 0, NEW n \in 1..M.blocks, DecodeMech(p, n)
    PROVE  \E mode, params, ts, last, after : MechRun(p, n, mode, params, ts, last, after)
<1> DEFINE params  == IF M.install /\ ~installed THEN timing ELSE M.actual
           mode    == IF M.echoIn = "msop" THEN Mode ELSE echo
           az      == [b \in 1..M.blocks |-> Azimuth(GroupOf(p, b))]
           offsets == BlockOffsets(M.iterator[mode], az, params.duration, blind)
           tsOf(b) == GroupTs(GroupOf(p, 1)) + offsets[b]
           last    == params.last[mode]
           Block(b, d) == DecodeBlock(d, p, b, az[b], tsOf(b), last)
           G(f)    == [b \in 0..n |-> IF b = 0 THEN Before ELSE Block(b, f[b - 1])]
           after   == CHOOSE f : f = G(f)
           step    == [b \in 1..n |-> [d \in Records |-> Block(b, d)]]
           ts      == [b \in 1..M.blocks |-> tsOf(b)]
<1>1. lidar \in Lidars /\ MechanicalOK(M) /\ n \in Nat /\ n > 0 /\ M.blocks \in Nat /\ n <= M.blocks
    BY LidarType, FieldInGroups DEF TypeOK
<1>2. mode \in {"single", "dual"} /\ Times(params) /\ Grouping(M.iterator[mode])
    BY <1>1, LidarType DEF TypeOK, MechanicalOK
<1>3. params.duration \in Nat /\ last \in Nat
    BY <1>2 DEF Times
<1>4. timing' = params /\ echo' = mode /\ seqs' = seqs /\ Becomes(after[n])
    BY DEF DecodeMech
<1>0. /\ mode = (IF M.echoIn = "msop" THEN Mode ELSE echo)
      /\ params = (IF M.install /\ ~installed THEN timing ELSE M.actual)
      /\ last = params.last[mode]
    OBVIOUS
<1> HIDE DEF params, mode, last
<1>5. /\ az \in Angles(M.blocks) /\ az = Azimuths(p)
      /\ \A b \in 1..M.blocks : /\ GroupOf(p, b) \in Nat /\ Azimuth(GroupOf(p, b)) \in Int
                                /\ az[b] = Azimuth(GroupOf(p, b))
    <2>1. ASSUME NEW b \in 1..M.blocks
          PROVE  GroupOf(p, b) \in Nat /\ Azimuth(GroupOf(p, b)) \in Int
        <3>1. GroupOf(p, b) \in Nat
            BY <1>1, GroupsOfPacket
        <3> QED
            BY <1>1, <3>1, AngleOfGroup
    <2> QED
        BY <2>1 DEF Angles, Azimuths
<1> HIDE DEF az
<1>6. \A b \in 1..M.blocks : tsOf(b) \in Int
    <2>1. blind \in Int
        BY DEF TypeOK
    <2>2. \A b \in 1..M.blocks : offsets[b] \in Int
        BY <1>1, <1>2, <1>3, <1>5, <2>1, OffsetsType
    <2>3. GroupTs(GroupOf(p, 1)) \in Int
        <3>1. 1 \in 1..M.blocks
            BY <1>1
        <3> QED
            BY <1>1, <1>5, <3>1, GroupTsType
    <2> QED
        BY <2>2, <2>3
<1>7. \A b \in 1..M.blocks :
         /\ tsOf(b) = GroupTs(GroupOf(p, 1))
                    + BlockOffsets(M.iterator[mode], Azimuths(p), params.duration, blind)[b]
         /\ ts[b] = tsOf(b)
    BY <1>5
<1> HIDE DEF tsOf
<1>8. Before \in Records
    BY BeforeType
<1>9. \A b \in 1..n, d \in Records : Block(b, d) \in Records
    <2> SUFFICES ASSUME NEW b \in 1..n, NEW d \in Records PROVE Block(b, d) \in Records
        OBVIOUS
    <2>1. b \in 1..M.blocks
        BY <1>1
    <2>2. az[b] \in Int /\ tsOf(b) \in Int
        BY <1>5, <1>6, <2>1
    <2> QED
        BY <1>1, <1>3, <2>1, <2>2, DecodeBlockType
<1>10. PICK f : /\ f \in [0..n -> Records] /\ f = G(f)
                /\ f[0] = Before /\ \A b \in 1..n : f[b] = Block(b, f[b - 1])
    <2> HIDE DEF Block
    <2>1. step \in StepFunctions(Records, n)
        BY <1>9 DEF StepFunctions
    <2> HIDE DEF step
    <2>2. PICK f : RunFrom(Records, Before, n, step, f)
        BY <1>1, <1>8, <2>1, Recursion, Zenon
    <2>3. \A b \in 1..n : f[b] = Block(b, f[b - 1])
        <3> SUFFICES ASSUME NEW b \in 1..n PROVE f[b] = Block(b, f[b - 1])
            OBVIOUS
        <3>1. b - 1 \in 0..n
            OBVIOUS
        <3> QED
            BY <2>2, <3>1 DEF step, RunFrom
    <2>4. f = G(f)
        BY <2>2, <2>3 DEF RunFrom
    <2> QED
        BY <2>2, <2>3, <2>4 DEF RunFrom
<1>11. after = G(after)
    BY <1>10
<1> HIDE DEF after
<1>12. /\ after[0] = Before /\ \A b \in 1..n : after[b] = Block(b, after[b - 1])
    <2> HIDE DEF Block
    <2> QED
        BY <1>1, <1>11
<1>13. \A b \in 0..n : after[b] \in Records
    <2> DEFINE S == {b \in Nat : b <= n => after[b] \in Records}
    <2>1. 0 \in S
        BY <1>8, <1>12
    <2>2. ASSUME NEW b \in Nat, b \in S PROVE b + 1 \in S
        <3> SUFFICES ASSUME b + 1 <= n PROVE after[b + 1] \in Records
            OBVIOUS
        <3>1. b + 1 \in 1..n /\ (b + 1) - 1 = b /\ after[b] \in Records
            BY <1>1, <2>2
        <3> HIDE DEF Block
        <3>2. after[b + 1] = Block(b + 1, after[b])
            BY <1>12, <3>1
        <3> QED
            BY <1>9, <3>1, <3>2
    <2> HIDE DEF S
    <2>3. Nat \subseteq S
        BY <2>1, <2>2, SetInduction
    <2> QED
        BY <1>1, <2>3 DEF S
<1>14. ASSUME NEW b \in 1..n
       PROVE  /\ after[b - 1] \in Records /\ after[b] \in Records
              /\ after[b] = DecodeBlock(after[b - 1], p, b, Azimuth(GroupOf(p, b)), ts[b], last)
    <2>1. b - 1 \in 0..n /\ b \in 0..n /\ b \in 1..M.blocks
        BY <1>1
    <2>2. after[b] = DecodeBlock(after[b - 1], p, b, az[b], tsOf(b), last)
        BY <1>12
    <2>3. az[b] = Azimuth(GroupOf(p, b)) /\ ts[b] = tsOf(b)
        BY <1>5, <1>7, <2>1
    <2> QED
        BY <1>13, <2>1, <2>2, <2>3
<1>15. \A b \in 1..M.blocks :
         /\ ts[b] = GroupTs(GroupOf(p, 1))
                      + BlockOffsets(M.iterator[mode], Azimuths(p), params.duration, blind)[b]
         /\ ts[b] \in Int
    BY <1>6, <1>7
<1>16. Times(timing') /\ echo' \in {"single", "dual"}
    BY <1>2, <1>4
<1> HIDE DEF ts
<1>17. MechRun(p, n, mode, params, ts, last, after)
    BY <1>0, <1>3, <1>4, <1>12, <1>14, <1>15, <1>16 DEF MechRun
<1> QED
    BY <1>17

\* A packet of a mechanical lidar: block after block the decoder goes on from
\* group to group.
LEMMA DecodeMechStep ==
    ASSUME TypeOK, IsMech, lidar' = lidar, NEW p \in Nat, p > 0, NEW n \in 1..M.blocks,
           \/ Nothing
           \/ \E g \in Nat : /\ g <= GroupOf(p, 1) /\ Bridged(g, GroupOf(p, 1))
                             /\ OnGroup(Before, Shut, g),
           DecodeMech(p, n)
    PROVE  /\ cloud' \in Clouds /\ firstTs' \in Int /\ prevTs' \in Int /\ prevAngle' \in Int
           /\ out' \in Seq(Handed) /\ done' \in SUBSET Int /\ skew' \in Int
           /\ Times(timing') /\ echo' \in {"single", "dual"} /\ seqs' = seqs
           /\ Kept(out, done)'
           /\ \E g \in Nat : g <= GroupOf(p, M.blocks) /\ OnGroup(Before, Shut, g)'
<1>1. lidar \in Lidars /\ n \in Nat /\ n > 0 /\ M.blocks \in Nat /\ n <= M.blocks
    BY FieldInGroups DEF TypeOK
<1>2. PICK mode, params, ts, last, after : MechRun(p, n, mode, params, ts, last, after)
    BY DecodeMechRuns
<1>3. /\ after[0] = Before /\ last \in Nat /\ Becomes(after[n])
      /\ Times(timing') /\ echo' \in {"single", "dual"} /\ seqs' = seqs
    BY <1>2 DEF MechRun
<1>4. Before \in Records /\ Shut \in SUBSET Int
    BY BeforeType
<1>5. ASSUME NEW b \in 1..n
      PROVE  /\ b \in 1..M.blocks /\ after[b] \in Records /\ ts[b] \in Int
             /\ after[b] = DecodeBlock(after[b - 1], p, b, Azimuth(GroupOf(p, b)), ts[b], last)
    BY <1>1, <1>2 DEF MechRun
<1>6. ASSUME NEW b \in 1..n, NEW d \in Records, d = after[b - 1], NEW h, h = GroupOf(p, b),
             \/ Idle(d, Shut)
             \/ \E g \in Nat : g <= h /\ Bridged(g, h) /\ OnGroup(d, Shut, g)
      PROVE  OnGroup(after[b], Shut, h)
    <2>1. PICK t : t = ts[b]
        OBVIOUS
    <2>2. b \in 1..M.blocks /\ t \in Int /\ after[b] = DecodeBlock(d, p, b, Azimuth(h), t, last)
        BY <1>5, <1>6, <2>1
    <2>3. OnGroup(DecodeBlock(d, p, b, Azimuth(h), t, last), Shut, h)
        BY <1>1, <1>3, <1>4, <1>6, <2>2, DecodeBlockOnGroup
    <2> QED
        BY <2>2, <2>3
<1>7. \A b \in 1..n : OnGroup(after[b], Shut, GroupOf(p, b))
    <2> DEFINE S == {b \in Nat : b < n => OnGroup(after[b + 1], Shut, GroupOf(p, b + 1))}
    <2>1. 0 \in S
        <3>1. \/ Idle(Before, Shut)
              \/ \E g \in Nat : g <= GroupOf(p, 1) /\ Bridged(g, GroupOf(p, 1)) /\ OnGroup(Before, Shut, g)
            BY EmptyOut DEF Nothing, Idle, Before, Shut
        <3>2. PICK d, h, b : d = Before /\ h = GroupOf(p, 1) /\ b = 1
            OBVIOUS
        <3>3. b \in 1..n /\ d \in Records /\ d = after[b - 1] /\ h = GroupOf(p, b)
            BY <1>1, <1>3, <1>4, <3>2
        <3>4. OnGroup(after[b], Shut, h)
            BY <1>6, <3>1, <3>2, <3>3
        <3> QED
            BY <3>2, <3>4
    <2>2. ASSUME NEW c \in Nat, c \in S PROVE c + 1 \in S
        <3> SUFFICES ASSUME c + 1 < n
                     PROVE  OnGroup(after[c + 1 + 1], Shut, GroupOf(p, c + 1 + 1))
            OBVIOUS
        <3>1. PICK b, d, g, h : /\ b = c + 1 + 1 /\ d = after[c + 1]
                                /\ g = GroupOf(p, c + 1) /\ h = GroupOf(p, b)
            OBVIOUS
        <3>2. /\ b \in 1..n /\ b - 1 = c + 1 /\ b - 1 \in 1..n /\ b > 1
              /\ b \in 1..M.blocks /\ b - 1 \in 1..M.blocks
            BY <1>1, <3>1
        <3>3. d = after[b - 1] /\ d \in Records /\ OnGroup(d, Shut, g) /\ g = GroupOf(p, b - 1)
            BY <1>1, <1>5, <2>2, <3>1, <3>2
        <3>4. g \in Nat /\ h \in Nat /\ (h = g \/ h = g + 1)
            BY <1>1, <3>1, <3>2, <3>3, GroupsOfPacket
        <3>5. g <= h /\ Bridged(g, h)
            BY <1>1, <3>4, NextIsBridged
        <3>6. OnGroup(after[b], Shut, h)
            BY <1>6, <3>1, <3>2, <3>3, <3>4, <3>5
        <3> QED
            BY <3>1, <3>6
    <2> HIDE DEF S
    <2>3. Nat \subseteq S
        BY <2>1, <2>2, SetInduction
    <2>4. ASSUME NEW b \in 1..n PROVE OnGroup(after[b], Shut, GroupOf(p, b))
        <3>1. b - 1 \in S /\ b - 1 < n /\ (b - 1) + 1 = b
            BY <1>1, <2>3
        <3> QED
            BY <3>1 DEF S
    <2> QED
        BY <2>4
<1>8. PICK r, g : r = after[n] /\ g = GroupOf(p, n)
    OBVIOUS
<1>9. r \in Records /\ OnGroup(r, Shut, g) /\ Becomes(r) /\ g \in Nat /\ g <= GroupOf(p, M.blocks)
    <2>1. n \in 1..n /\ n \in 1..M.blocks /\ M.blocks \in 1..M.blocks
        BY <1>1
    <2> QED
        BY <1>1, <1>3, <1>5, <1>7, <1>8, <2>1, GroupsOfPacket
<1>10. PICK f, a : f = RoundOf(g) /\ a = Azimuth(g)
    OBVIOUS
<1>11. RoundOf(g)' = f /\ Azimuth(g)' = a
    BY <1>10, SameLidar
<1>12. f \in Int
    BY <1>1, <1>9, <1>10, AngleOfGroup
<1>13. /\ OfFrame(r, Shut, f) /\ Kept(r.out, Shut) /\ r.cloud.group = g /\ r.prevAngle = a
    BY <1>9, <1>10 DEF OnGroup
<1>14. OnGroup(Before, Shut, g)'
    <2>1. OfFrame(Before, Shut, f)'
        BY <1>9, <1>12, <1>13, HandOver
    <2>2. cloud' = r.cloud /\ prevAngle' = r.prevAngle
        BY <1>9, <1>13, HandOver
    <2>3. Before'.out = <<>> /\ Before'.cloud = r.cloud /\ Before'.prevAngle = r.prevAngle
        BY <2>2 DEF Before
    <2>4. Kept(Before.out, Shut)'
        <3>1. DOMAIN Before'.out = {}
            BY <2>3
        <3> QED
            BY <3>1 DEF Kept, OneFrameEach, Apart, Stamped
    <2>5. OfFrame(Before, Shut, RoundOf(g))'
        BY <1>11, <2>1 DEF OfFrame, Newer
    <2> QED
        BY <1>11, <1>13, <2>3, <2>4, <2>5 DEF OnGroup
<1> QED
    BY <1>3, <1>4, <1>9, <1>13, <1>14, HandOver

\* The number, frame and time of a packet of a solid-state lidar.
LEMMA SeqType ==
    ASSUME lidar \in Lidars, ~IsMech, NEW p \in Nat, p > 0
    PROVE  /\ SeqOf(p) \in Nat /\ M.first <= SeqOf(p) /\ SeqOf(p) <= LastSeq
           /\ FrameOf(p) \in Nat /\ PacketTs(p) \in Nat
           /\ LastSeq \in Nat /\ M.first \in {0, 1} /\ M.span \in Nat /\ M.endSplit \in BOOLEAN
           /\ M.endSplit => M.first = 1
<1>1. SolidStateOK(M)
    BY LidarType
<1>2. PacketsPerFrame \in Nat /\ PacketsPerFrame > 20
    BY FramesAssumption DEF FramesAssumption, RANGE
<1>3. p - 1 \in Nat
    OBVIOUS
<1>4. /\ (p - 1) \div PacketsPerFrame \in Nat /\ (p - 1) % PacketsPerFrame \in Nat
      /\ (p - 1) % PacketsPerFrame < PacketsPerFrame
    BY <1>2, <1>3, DivMod
<1>5. M.first \in {0, 1} /\ M.span \in Nat /\ M.endSplit \in BOOLEAN /\ (M.endSplit => M.first = 1)
    BY <1>1 DEF SolidStateOK
<1>6. PacketTs(p) \in Nat
    BY DEF PacketTs, PacketDuration
<1> QED
    BY <1>2, <1>4, <1>5, <1>6 DEF SeqOf, FrameOf, LastSeq

\* Two packets within the safe range lie in one frame or in neighbouring ones.
LEMMA SeqDistance ==
    ASSUME lidar \in Lidars, ~IsMech, NEW p \in Nat, NEW q \in Nat, 0 < q, q < p, p - q <= RANGE
    PROVE  \/ FrameOf(p) = FrameOf(q) /\ SeqOf(p) = SeqOf(q) + (p - q)
           \/ FrameOf(p) = FrameOf(q) + 1 /\ SeqOf(p) = SeqOf(q) + (p - q) - PacketsPerFrame
<1> DEFINE n == PacketsPerFrame
           x == q - 1
           y == p - 1
<1>1. n \in Nat /\ n > 20 /\ x \in Nat /\ y \in Nat /\ x <= y /\ y - x < n
    BY FramesAssumption DEF FramesAssumption, RANGE
<1>2. \/ y \div n = x \div n /\ x % n <= y % n
      \/ y \div n = x \div n + 1 /\ y % n < x % n
    BY <1>1, Neighbours
<1>3. /\ x = n * (x \div n) + (x % n) /\ y = n * (y \div n) + (y % n)
      /\ x \div n \in Nat /\ x % n \in Nat /\ y \div n \in Nat /\ y % n \in Nat
    BY <1>1, DivMod
<1>4. /\ FrameOf(p) = y \div n /\ FrameOf(q) = x \div n
      /\ SeqOf(p) = (y % n) + M.first /\ SeqOf(q) = (x % n) + M.first
    BY DEF FrameOf, SeqOf
<1>5. M.first \in Nat
    BY SeqType
<1>6. y - x = p - q
    OBVIOUS
<1> HIDE DEF n, x, y
<1>7. n * (x \div n + 1) = n * (x \div n) + n /\ n * (x \div n) \in Nat
    BY <1>1, <1>3
<1>8. CASE y \div n = x \div n
    <2>1. y % n = (x % n) + (y - x)
        BY <1>1, <1>3, <1>7, <1>8
    <2> QED
        BY <1>1, <1>3, <1>4, <1>5, <1>6, <1>8, <2>1
<1>9. CASE y \div n = x \div n + 1
    <2>1. y % n = (x % n) + (y - x) - n
        BY <1>1, <1>3, <1>7, <1>9
    <2>2. SeqOf(p) = SeqOf(q) + (p - q) - n
        BY <1>1, <1>3, <1>4, <1>5, <1>6, <2>1
    <2> QED
        BY <1>4, <1>9, <2>2 DEF n
<1> QED
    BY <1>2, <1>8, <1>9

\* The state of SplitStrategyBySeq.
LEMMA BySeqType ==
    ASSUME NEW s \in [prev : Nat, max : Nat, looped : BOOLEAN], NEW seq \in Nat
    PROVE  /\ BySeq(s, seq).state \in [prev : Nat, max : Nat, looped : BOOLEAN]
           /\ BySeq(s, seq).state.max = IF seq > s.max THEN seq ELSE s.max
           /\ BySeq(s, seq).state.looped <=> s.looped \/ BySeq(s, seq).split
           /\ BySeq(s, seq).split <=> seq < (IF s.prev > RANGE THEN s.prev - RANGE ELSE 0)
           /\ BySeq(s, seq).state.prev =
                IF \/ seq < (IF s.prev > RANGE THEN s.prev - RANGE ELSE 0)
                   \/ seq >= s.prev /\ (seq <= s.prev + RANGE \/ s.prev = 0)
                THEN seq ELSE s.prev
BY DEF BySeq

\* A packet within the safe range after packet q is followed, and splits if
\* and only if it begins the next frame; a late one is not followed.
LEMMA BySeqInRange ==
    ASSUME lidar \in Lidars, ~IsMech, NEW q \in Nat, 0 < q,
           NEW s \in [prev : Nat, max : Nat, looped : BOOLEAN], s.prev = SeqOf(q)
    PROVE  /\ \A p \in Nat : q < p /\ p - q <= RANGE =>
                /\ BySeq(s, SeqOf(p)).split <=> FrameOf(q) < FrameOf(p)
                /\ ~BySeq(s, SeqOf(p)).split <=> FrameOf(q) = FrameOf(p)
                /\ BySeq(s, SeqOf(p)).state.prev = SeqOf(p)
           /\ \A p \in Nat : 0 < p /\ p < q /\ q - p <= RANGE /\ FrameOf(p) = FrameOf(q) =>
                /\ ~BySeq(s, SeqOf(p)).split
                /\ BySeq(s, SeqOf(p)).state.prev = SeqOf(q)
<1> DEFINE n == PacketsPerFrame
           a == SeqOf(q)
<1>1. n \in Nat /\ n > 20
    BY FramesAssumption DEF FramesAssumption, RANGE
<1>2. a \in Nat /\ FrameOf(q) \in Nat
    BY SeqType
<1>3. ASSUME NEW p \in Nat, q < p, p - q <= RANGE
      PROVE  /\ BySeq(s, SeqOf(p)).split <=> FrameOf(q) < FrameOf(p)
             /\ ~BySeq(s, SeqOf(p)).split <=> FrameOf(q) = FrameOf(p)
             /\ BySeq(s, SeqOf(p)).state.prev = SeqOf(p)
    <2> DEFINE b == SeqOf(p)
    <2>1. b \in Nat /\ FrameOf(p) \in Nat
        BY <1>3, SeqType
    <2>2. \/ FrameOf(p) = FrameOf(q) /\ b = a + (p - q)
          \/ FrameOf(p) = FrameOf(q) + 1 /\ b = a + (p - q) - n
        BY <1>3, SeqDistance
    <2>3. /\ BySeq(s, b).split <=> b < (IF a > RANGE THEN a - RANGE ELSE 0)
          /\ BySeq(s, b).state.prev =
                IF \/ b < (IF a > RANGE THEN a - RANGE ELSE 0)
                   \/ b >= a /\ (b <= a + RANGE \/ a = 0)
                THEN b ELSE a
        BY <2>1, BySeqType
    <2> HIDE DEF a, b, n
    <2>4. CASE FrameOf(p) = FrameOf(q) /\ b = a + (p - q)
        <3>1. ~(b < (IF a > RANGE THEN a - RANGE ELSE 0)) /\ b >= a /\ b <= a + RANGE
            BY <1>2, <1>3, <2>1, <2>4 DEF RANGE
        <3> QED
            BY <1>2, <2>1, <2>3, <2>4, <3>1 DEF b
    <2>5. CASE FrameOf(p) = FrameOf(q) + 1 /\ b = a + (p - q) - n
        <3>1. b < (IF a > RANGE THEN a - RANGE ELSE 0)
            BY <1>1, <1>2, <1>3, <2>1, <2>5 DEF RANGE
        <3> QED
            BY <1>2, <2>1, <2>3, <2>5, <3>1 DEF b
    <2> QED
        BY <2>2, <2>4, <2>5
<1>4. ASSUME NEW p \in Nat, 0 < p, p < q, q - p <= RANGE, FrameOf(p) = FrameOf(q)
      PROVE  /\ ~BySeq(s, SeqOf(p)).split
             /\ BySeq(s, SeqOf(p)).state.prev = SeqOf(q)
    <2> DEFINE b == SeqOf(p)
    <2>1. b \in Nat
        BY <1>4, SeqType
    <2>2. a = b + (q - p)
        BY <1>2, <1>4, SeqDistance
    <2>3. /\ BySeq(s, b).split <=> b < (IF a > RANGE THEN a - RANGE ELSE 0)
          /\ BySeq(s, b).state.prev =
                IF \/ b < (IF a > RANGE THEN a - RANGE ELSE 0)
                   \/ b >= a /\ (b <= a + RANGE \/ a = 0)
                THEN b ELSE a
        BY <2>1, BySeqType
    <2> HIDE DEF a, b, n
    <2>4. ~(b < (IF a > RANGE THEN a - RANGE ELSE 0)) /\ ~(b >= a)
        BY <1>2, <1>4, <2>1, <2>2 DEF RANGE
    <2> QED
        BY <2>3, <2>4 DEF a, b
<1> QED
    BY <1>3, <1>4

\* A packet of a solid-state lidar: it goes on with the frame of the cloud, or
\* begins the next one; behind the frame's last packet the cloud may be split.
LEMMA DecodeSeqStep ==
    ASSUME TypeOK, ~IsMech, lidar' = lidar, NEW p \in Nat, p > 0,
           NEW s, s = BySeq(seqs, SeqOf(p)),
           \/ Nothing /\ ~s.split
           \/ \E g \in Int : /\ OfFrame(Before, Shut, g)
                             /\ s.split => g < FrameOf(p)
                             /\ ~s.split => g = FrameOf(p)
           \/ /\ cloud.frames = {}
              /\ Whole => s.split /\ \A x \in Shut : x < FrameOf(p),
           DecodeSeq(p)
    PROVE  /\ cloud' \in Clouds /\ firstTs' \in Int /\ prevTs' \in Int /\ prevAngle' \in Int
           /\ out' \in Seq(Handed) /\ done' \in SUBSET Int /\ skew' \in Int
           /\ timing' = timing /\ echo' = echo /\ seqs' = s.state
           /\ Kept(out, done)'
           /\ \A f \in Int : f = FrameOf(p) =>
                 \/ OfFrame(Before, Shut, f)'
                 \/ /\ M.endSplit /\ MaxSeq(s.state) = SeqOf(p) /\ cloud'.frames = {}
                    /\ Whole => \A x \in Shut' : x <= f
<1> DEFINE ts == PacketTs(p)
           d == IF s.split THEN [SplitFrame(Before) EXCEPT !.firstTs = ts] ELSE Before
           a == AddPoints(d, FrameOf(p), p, ts, ts + M.span)
           atEnd == M.endSplit /\ MaxSeq(s.state) = SeqOf(p)
           r == IF atEnd THEN SplitFrame(a) ELSE a
<1>1. lidar \in Lidars /\ lidar.set.tsFirst \in BOOLEAN
    BY LidarType DEF TypeOK
<1>2. FrameOf(p) \in Int /\ ts \in Int /\ ts + M.span \in Int /\ ts <= ts + M.span
    BY <1>1, SeqType
<1>3. Before \in Records /\ Shut \in SUBSET Int
    BY BeforeType
<1>4. Before.cloud = cloud /\ Before.out = <<>> /\ FramesOf(<<>>) = {} /\ Kept(<<>>, Shut)
    BY EmptyOut DEF Before
<1>5. seqs' = s.state /\ Becomes(r) /\ timing' = timing /\ echo' = echo
    BY DEF DecodeSeq
<1> HIDE DEF ts
<1>6. SplitFrame(Before) \in Records
    BY <1>1, <1>3, SplitFrameType
<1>7. /\ d \in Records
      /\ s.split => /\ d.cloud = SplitFrame(Before).cloud /\ d.out = SplitFrame(Before).out
                    /\ d.firstTs = ts
      /\ ~s.split => d = Before
    BY <1>2, <1>3, <1>6 DEF Records
<1> HIDE DEF d
<1>8. Kept(d.out, Shut) /\ (OfFrame(d, Shut, FrameOf(p)) \/ Begins(d, Shut, FrameOf(p), ts))
    <2>1. CASE Nothing /\ ~s.split
        <3>1. d = Before /\ cloud.frames = {} /\ Shut = {}
            BY <1>4, <1>7, <2>1, NoCloudType DEF Nothing, Shut
        <3> QED
            BY <1>4, <3>1 DEF Begins, Newer
    <2>2. ASSUME NEW g \in Int, OfFrame(Before, Shut, g), s.split => g < FrameOf(p),
                 ~s.split => g = FrameOf(p)
          PROVE  Kept(d.out, Shut) /\ (OfFrame(d, Shut, FrameOf(p)) \/ Begins(d, Shut, FrameOf(p), ts))
        <3>1. CASE s.split
            <4>1. g < FrameOf(p) /\ Kept(Before.out, Shut)
                BY <1>4, <2>2, <3>1
            <4>2. /\ Kept(SplitFrame(Before).out, Shut) /\ SplitFrame(Before).cloud = NoCloud
                  /\ Newer(SplitFrame(Before).out, Shut, FrameOf(p))
                BY <1>1, <1>2, <1>3, <2>2, <4>1, SplitFrameHands
            <4> QED
                BY <1>7, <3>1, <4>2, NoCloudType DEF Begins
        <3>2. CASE ~s.split
            BY <1>4, <1>7, <2>2, <3>2
        <3> QED
            BY <3>1, <3>2
    <2>3. CASE cloud.frames = {} /\ (Whole => s.split /\ \A x \in Shut : x < FrameOf(p))
        <3>1. SplitFrame(Before) = Before
            BY <1>1, <1>3, <1>4, <2>3, SplitFrameType
        <3>2. d.cloud.frames = {} /\ d.out = <<>> /\ (s.split => d.firstTs = ts)
            BY <1>4, <1>7, <2>3, <3>1
        <3> QED
            BY <1>4, <2>3, <3>2 DEF Begins, Newer
    <2> QED
        BY <2>1, <2>2, <2>3
<1>9. PICK f : f = FrameOf(p)
    OBVIOUS
<1>10. f \in Int /\ a = AddPoints(d, f, p, ts, ts + M.span)
    BY <1>2, <1>9
<1> HIDE DEF a
<1>11. a \in Records /\ a.out = d.out
    BY <1>2, <1>7, <1>10, AddPointsType
<1>12. OfFrame(a, Shut, f) /\ Kept(a.out, Shut)
    BY <1>2, <1>3, <1>7, <1>8, <1>9, <1>10, <1>11, AddPointsToFrame
<1>13. CASE ~atEnd
    <2>1. r = a
        BY <1>13
    <2>2. Becomes(a)
        BY <1>5, <2>1
    <2>3. OfFrame(Before, Shut, f)'
        BY <1>10, <1>11, <1>12, <2>2, HandOver
    <2> QED
        BY <1>5, <1>9, <1>11, <1>12, <2>2, <2>3, HandOver
<1>14. CASE atEnd
    <2>1. PICK e : e = SplitFrame(a)
        OBVIOUS
    <2>2. /\ e \in Records /\ Kept(e.out, Shut) /\ e.cloud = NoCloud
          /\ FramesOf(e.out) = FramesOf(a.out) \cup {f}
        BY <1>1, <1>3, <1>10, <1>11, <1>12, <2>1, SplitFrameHands, SplitFrameType
    <2>3. Becomes(e)
        BY <1>5, <1>14, <2>1
    <2>4. Shut' = Shut \cup FramesOf(a.out) \cup {f} /\ cloud' = NoCloud
        BY <2>2, <2>3, HandOver
    <2>5. Whole => \A x \in Shut' : x <= f
        <3> SUFFICES ASSUME Whole, NEW x \in Shut' PROVE x <= f
            OBVIOUS
        <3>1. Shut' \in SUBSET Int
            <4>1. out' \in Seq(Handed) /\ done' \in SUBSET Int
                BY <2>2, <2>3, HandOver
            <4>2. \A i \in DOMAIN out' : out'[i].cloud.frames \in SUBSET Int
                <5> SUFFICES ASSUME NEW i \in 1..Len(out') PROVE out'[i].cloud.frames \in SUBSET Int
                    BY <4>1
                <5>1. out'[i] \in Handed
                    BY <4>1, ElementOfSeq
                <5> QED
                    BY <5>1 DEF Handed, Clouds
            <4> QED
                BY <4>1, <4>2 DEF Shut, FramesOf
        <3>2. x \in Shut \cup FramesOf(a.out) => x < f
            BY <1>12 DEF OfFrame, Newer
        <3> QED
            BY <1>10, <2>4, <3>1, <3>2
    <2> QED
        BY <1>5, <1>9, <1>14, <2>2, <2>3, <2>4, <2>5, HandOver, NoCloudType
<1> QED
    BY <1>13, <1>14

\* What the decoder does not touch keeps its invariants.
LEMMA Unmoved ==
    ASSUME lidar' = lidar, cloud' = cloud, out' = out, done' = done,
           firstTs' = firstTs, prevTs' = prevTs, prevAngle' = prevAngle
    PROVE  /\ Shut' = Shut
           /\ Kept(out, done)' = Kept(out, done)
           /\ \A f : OfFrame(Before, Shut, f)' = OfFrame(Before, Shut, f)
           /\ \A g : OnGroup(Before, Shut, g)' = OnGroup(Before, Shut, g)
<1>1. Whole' = Whole
    BY SameLidar
<1>2. Shut' = Shut /\ Before' = Before
    BY DEF Shut, FramesOf, Before
<1>3. Kept(out, done)' = Kept(out, done)
    BY <1>1 DEF Kept, OneFrameEach, Apart, Stamped
<1>4. Kept(Before.out, Shut)' = Kept(Before.out, Shut)
    BY <1>1, <1>2 DEF Kept, OneFrameEach, Apart, Stamped
<1>5. \A f : OfFrame(Before, Shut, f)' = OfFrame(Before, Shut, f)
    BY <1>1, <1>2 DEF OfFrame, Newer, FramesOf, Within
<1>6. ASSUME NEW g PROVE OnGroup(Before, Shut, g)' = OnGroup(Before, Shut, g)
    <2>1. PICK f : f = RoundOf(g)
        OBVIOUS
    <2>2. RoundOf(g)' = f /\ Azimuth(g)' = Azimuth(g)
        BY <2>1, SameLidar
    <2>3. OfFrame(Before, Shut, RoundOf(g))' = OfFrame(Before, Shut, RoundOf(g))
        BY <1>5, <2>1, <2>2 DEF OfFrame, Newer
    <2> QED
        BY <1>2, <1>4, <2>2, <2>3 DEF OnGroup
<1> QED
    BY <1>2, <1>3, <1>5, <1>6

\* The numbers of the last packet depend on the lidar only.
LEMMA SentSame ==
    ASSUME lidar' = lidar, NEW p, sent' = p
    PROVE  /\ GroupOf(sent, M.blocks)' = GroupOf(p, M.blocks)
           /\ SeqOf(sent)' = SeqOf(p) /\ FrameOf(sent)' = FrameOf(p) /\ LastSeq' = LastSeq
BY SameLidar DEF GroupOf, SeqOf, FrameOf, LastSeq

\* What a DIFOP packet leaves of the state.
Described ==
    /\ UNCHANGED <<lidar, sent, held, timing, prevAngle, seqs, cloud, firstTs, prevTs, out, done, skew>>
    /\ ready => ready'
    /\ ready' \in BOOLEAN /\ described' \in BOOLEAN /\ installed' \in BOOLEAN
    /\ echo' \in {"single", "dual"} /\ blind' \in Int

\* The blind zone lasts some time.
LEMMA BlindTimeType ==
    ASSUME lidar \in Lidars, IsMech, NEW rpm, rpm = 0 \/ rpm = 60 * lidar.rps
    PROVE  BlindTime(IF rpm = 0 THEN 10 ELSE rpm \div 60) \in Int
<1>1. FieldRange \in Nat
    BY FieldInGroups
<1>2. lidar.rps \in Nat /\ lidar.rps > 0
    <2>1. lidar.rps \in Speeds
        BY LidarType
    <2>2. Speeds \subseteq 1..20
        BY DecoderAssumption, Zenon DEF DecoderAssumption
    <2>3. \A r \in 1..20 : r \in Nat /\ r > 0
        OBVIOUS
    <2> QED
        BY <2>1, <2>2, <2>3, Zenon
<1>3. PICK v : v = IF rpm = 0 THEN 10 ELSE rpm \div 60
    OBVIOUS
<1>4. v \in Nat /\ v > 0
    BY <1>2, <1>3
<1>5. PICK w : w = (RS_ONE_ROUND - FieldRange) * 25000
    OBVIOUS
<1>6. w \in Int /\ 9 * v \in Nat /\ 9 * v > 0
    BY <1>1, <1>4, <1>5 DEF RS_ONE_ROUND
<1>7. w \div (9 * v) \in Int
    BY <1>6
<1>8. BlindTime(v) = (w \div (9 * v)) * 10
    BY <1>5 DEF BlindTime
<1>9. BlindTime(v) \in Int
    BY <1>7, <1>8
<1> QED
    BY <1>3, <1>9

\* A DIFOP packet leaves the clouds alone.
LEMMA DifopDescribes == ASSUME TypeOK, ReceiveDifop PROVE Described
<1>1. lidar \in Lidars
    BY DEF TypeOK
<1>2. ASSUME IsMech, NEW valid \in BOOLEAN, NEW rpm, Difop(valid, rpm),
             rpm = 0 \/ rpm = 60 * lidar.rps
      PROVE  Described
    <2>1. installed' \in BOOLEAN
        BY <1>1, <1>2, LidarType DEF MechanicalOK, Difop
    <2>2. echo' \in {"single", "dual"}
        BY <1>1, <1>2, LidarType DEF TypeOK, Difop
    <2>3. blind' \in Int
        BY <1>1, <1>2, BlindTimeType DEF Difop
    <2>4. ready' \in BOOLEAN /\ described' \in BOOLEAN /\ (ready => ready')
        BY <1>1, <1>2 DEF Difop, TypeOK
    <2>5. UNCHANGED <<lidar, sent, held, timing, prevAngle, seqs, cloud, firstTs, prevTs, out, done, skew>>
        BY <1>2 DEF Difop
    <2> QED
        BY <2>1, <2>2, <2>3, <2>4, <2>5 DEF Described
<1>3. CASE ~IsMech /\ M.anglesInDifop /\ ready' = TRUE
             /\ UNCHANGED <<lidar, sent, held, described, installed, blind, decodeVars>>
    BY <1>3 DEF Described, TypeOK, decodeVars
<1>4. CASE IsMech /\ \E valid \in BOOLEAN : Difop(valid, 60 * lidar.rps)
    BY <1>2, <1>4
<1>5. CASE IsMech /\ sent = 0 /\ Difop(TRUE, 0)
    BY <1>2, <1>5
<1> QED
    BY <1>3, <1>4, <1>5 DEF ReceiveDifop

\* And so the invariant.
LEMMA DifopInv == ASSUME Inv, ReceiveDifop PROVE Inv'
<1>1. TypeOK /\ Kept(out, done) /\ Described
    BY DifopDescribes DEF Inv
<1>2. TypeOK'
    BY <1>1, SameLidar DEF TypeOK, Described, Lidars
<1>3. Kept(out, done)'
    BY <1>1, Unmoved DEF Described
<1>4. ASSUME Nothing PROVE Nothing'
    BY <1>1, <1>4 DEF Nothing, Described, NoCloud
<1>5. ASSUME OnRound PROVE OnRound'
    <2>1. PICK g \in Nat : sent > 0 /\ g <= GroupOf(sent, M.blocks) /\ OnGroup(Before, Shut, g)
        BY <1>5 DEF OnRound
    <2>2. OnGroup(Before, Shut, g)'
        BY <1>1, <2>1, Unmoved DEF Described
    <2>3. GroupOf(sent, M.blocks)' = GroupOf(sent, M.blocks) /\ sent' = sent
        BY <1>1, SentSame DEF Described
    <2> QED
        BY <2>1, <2>2, <2>3 DEF OnRound
<1>6. ASSUME Followed PROVE Followed'
    <2>1. /\ lidar' = lidar /\ sent' = sent /\ held' = held /\ seqs' = seqs /\ (ready => ready')
          /\ cloud' = cloud
        BY <1>1 DEF Described
    <2>2. /\ M' = M /\ Whole' = Whole /\ SeqOf(sent)' = SeqOf(sent)
          /\ FrameOf(sent)' = FrameOf(sent) /\ LastSeq' = LastSeq
        BY <2>1, SameLidar, SentSame
    <2>3. Shut' = Shut /\ \A f : OfFrame(Before, Shut, f)' = OfFrame(Before, Shut, f)
        BY <1>1, Unmoved DEF Described
    <2>4. PICK f : f = FrameOf(sent)
        OBVIOUS
    <2>5. OfFrame(Before, Shut, FrameOf(sent)) => OfFrame(Before, Shut, FrameOf(sent))'
        BY <2>2, <2>3, <2>4 DEF OfFrame, Newer
    <2>6. FrameEnded => FrameEnded'
        BY <2>1, <2>2, <2>3 DEF FrameEnded
    <2>7. \A q : FrameOf(q)' = FrameOf(q)
        BY DEF FrameOf
    <2> QED
        BY <1>6, <2>1, <2>2, <2>5, <2>6, <2>7 DEF Followed
<1>7. IsMech' = IsMech /\ held' = held /\ lidar' = lidar
    BY <1>1, SameLidar DEF Described
<1> QED
    BY <1>2, <1>3, <1>4, <1>5, <1>6, <1>7 DEF Inv, MechInv, SeqInv

\* The next packet of a mechanical lidar.
LEMMA MsopMechInv == ASSUME Inv, IsMech, ReceiveMsop PROVE Inv'
<1>1. PICK p \in sent + 1 .. sent + 1 + MaxLost :
        /\ Follows(p) /\ sent' = p
        /\ held' \in {{}, held} \cup
              (IF IsMech \/ lidar.model \in Lossless \/ ~Accepts THEN {}
               ELSE {{q} : q \in sent + 1 .. p - 1})
        /\ Decode(p)
        /\ UNCHANGED <<lidar, ready, described, installed, blind>>
    BY DEF ReceiveMsop
<1>2. TypeOK /\ Kept(out, done) /\ MechInv /\ lidar \in Lidars
    BY DEF Inv, TypeOK
<1>3. p \in Nat /\ p > sent /\ p > 0 /\ sent \in Nat
    BY <1>2, DecoderAssumption DEF TypeOK, DecoderAssumption
<1>4. lidar' = lidar /\ sent' = p /\ held' = {} /\ IsMech' = IsMech
    BY <1>1, <1>2, SameLidar DEF MechInv
<1>5. lidar' \in Lidars'
    BY <1>2, <1>4 DEF Lidars
<1>6. /\ ready' \in BOOLEAN /\ described' \in BOOLEAN /\ installed' \in BOOLEAN /\ blind' \in Int
      /\ sent' \in Nat /\ held' \in SUBSET Nat
    BY <1>1, <1>2, <1>3, <1>4 DEF TypeOK
<1>7. seqs \in [prev : Nat, max : Nat, looped : BOOLEAN]
    BY <1>2 DEF TypeOK
<1>8. CASE ~Accepts
    <2>1. UNCHANGED decodeVars
        BY <1>1, <1>8 DEF Decode
    <2>2. /\ timing' = timing /\ echo' = echo /\ prevAngle' = prevAngle /\ seqs' = seqs
          /\ cloud' = cloud /\ firstTs' = firstTs /\ prevTs' = prevTs /\ out' = out
          /\ done' = done /\ skew' = skew
        BY <2>1 DEF decodeVars
    <2>3. TypeOK'
        <3>1. Times(timing') /\ out' \in Seq(Handed) /\ cloud' \in Clouds
            BY <1>2, <2>2 DEF TypeOK
        <3> QED
            BY <1>2, <1>5, <1>6, <2>2, <3>1 DEF TypeOK
    <2>4. Kept(out, done)'
        BY <1>2, <1>4, <2>2, Unmoved
    <2>5. Nothing => Nothing'
        BY <1>4, <2>2 DEF Nothing, NoCloud
    <2>6. ASSUME OnRound PROVE OnRound'
        <3>1. PICK g \in Nat : sent > 0 /\ g <= GroupOf(sent, M.blocks) /\ OnGroup(Before, Shut, g)
            BY <2>6 DEF OnRound
        <3>2. OnGroup(Before, Shut, g)'
            BY <1>4, <2>2, <3>1, Unmoved
        <3>3. GroupOf(sent, M.blocks)' = GroupOf(p, M.blocks)
            BY <1>4, SentSame
        <3>4. M.blocks \in Nat /\ M.blocks > 0
            BY <1>2, FieldInGroups
        <3>5. /\ GroupOf(sent, M.blocks) \in Nat /\ GroupOf(p, 1) \in Nat /\ GroupOf(p, M.blocks) \in Nat
              /\ GroupOf(sent, M.blocks) <= GroupOf(p, 1) /\ GroupOf(p, 1) <= GroupOf(p, M.blocks)
            <4>1. 1 \in 1..M.blocks /\ M.blocks \in 1..M.blocks
                BY <3>4
            <4> QED
                BY <1>2, <1>3, <3>1, <4>1, GroupsOfPacket
        <3>6. g <= GroupOf(p, M.blocks)
            BY <3>1, <3>5
        <3> QED
            BY <1>3, <1>4, <3>2, <3>3, <3>6 DEF OnRound
    <2> QED
        BY <1>2, <1>4, <2>3, <2>4, <2>5, <2>6 DEF Inv, MechInv
<1>9. CASE Accepts
    <2>0. M.blocks \in Nat /\ M.blocks > 0
        BY <1>2, FieldInGroups
    <2>1. PICK n \in 1..M.blocks : DecodeMech(p, n)
        <3>1. 1 \in 1..M.blocks /\ M.blocks \in 1..M.blocks
            BY <2>0
        <3> QED
            BY <1>1, <1>9, <3>1 DEF Decode
    <2>2. \/ Nothing
          \/ \E g \in Nat : /\ g <= GroupOf(p, 1) /\ Bridged(g, GroupOf(p, 1))
                            /\ OnGroup(Before, Shut, g)
        <3> SUFFICES ASSUME OnRound
                     PROVE  \E g \in Nat : /\ g <= GroupOf(p, 1) /\ Bridged(g, GroupOf(p, 1))
                                           /\ OnGroup(Before, Shut, g)
            BY <1>2 DEF MechInv
        <3>1. PICK g \in Nat : sent > 0 /\ g <= GroupOf(sent, M.blocks) /\ OnGroup(Before, Shut, g)
            BY DEF OnRound
        <3>2. cloud.frames # {} /\ cloud.group = g
            BY <3>1 DEF OnGroup, OfFrame, Before
        <3>3. Bridged(g, GroupOf(p, 1))
            BY <1>1, <3>2 DEF Follows
        <3>4. GroupOf(sent, M.blocks) \in Nat /\ GroupOf(p, 1) \in Nat
              /\ GroupOf(sent, M.blocks) <= GroupOf(p, 1)
            <4>1. 1 \in 1..M.blocks /\ M.blocks \in 1..M.blocks
                BY <2>0
            <4> QED
                BY <1>2, <1>3, <3>1, <4>1, GroupsOfPacket
        <3>5. g <= GroupOf(p, 1)
            BY <3>1, <3>4
        <3> QED
            BY <3>1, <3>3, <3>5
    <2>3. /\ cloud' \in Clouds /\ firstTs' \in Int /\ prevTs' \in Int /\ prevAngle' \in Int
          /\ out' \in Seq(Handed) /\ done' \in SUBSET Int /\ skew' \in Int
          /\ Times(timing') /\ echo' \in {"single", "dual"} /\ seqs' = seqs
          /\ Kept(out, done)'
          /\ \E g \in Nat : g <= GroupOf(p, M.blocks) /\ OnGroup(Before, Shut, g)'
        BY <1>2, <1>3, <1>4, <2>1, <2>2, DecodeMechStep
    <2>4. TypeOK'
        BY <1>5, <1>6, <1>7, <2>3 DEF TypeOK
    <2>5. GroupOf(sent, M.blocks)' = GroupOf(p, M.blocks)
        BY <1>4, SentSame
    <2>6. OnRound'
        BY <1>3, <1>4, <2>3, <2>5 DEF OnRound
    <2> QED
        BY <1>4, <2>3, <2>4, <2>6 DEF Inv, MechInv
<1> QED
    BY <1>8, <1>9

\* How the split strategy takes packet p, the next one of a solid-state lidar.
LEMMA NextPacketFollowed ==
    ASSUME TypeOK, ~IsMech, Nothing \/ Followed, NEW p \in Nat, sent < p, Follows(p),
           NEW s, s = BySeq(seqs, SeqOf(p))
    PROVE  /\ s.state \in [prev : Nat, max : Nat, looped : BOOLEAN]
           /\ s.state.prev = SeqOf(p) /\ SeqOf(p) <= s.state.max /\ s.state.max <= LastSeq
           /\ M.endSplit /\ lidar.model \in Lossless /\ s.state.looped => s.state.max = LastSeq
           /\ \/ Nothing /\ ~s.split
              \/ \E g \in Int : /\ OfFrame(Before, Shut, g)
                                /\ s.split => g < FrameOf(p)
                                /\ ~s.split => g = FrameOf(p)
              \/ /\ cloud.frames = {}
                 /\ Whole => s.split /\ \A x \in Shut : x < FrameOf(p)
<1>1. lidar \in Lidars /\ sent \in Nat /\ p > 0
    BY DEF TypeOK
<1>2. /\ SeqOf(p) \in Nat /\ M.first <= SeqOf(p) /\ SeqOf(p) <= LastSeq /\ FrameOf(p) \in Nat
      /\ LastSeq \in Nat /\ M.first \in {0, 1}
    BY <1>1, SeqType
<1>3. seqs \in [prev : Nat, max : Nat, looped : BOOLEAN]
    BY DEF TypeOK
<1>4. /\ s.state \in [prev : Nat, max : Nat, looped : BOOLEAN]
      /\ s.state.max = IF SeqOf(p) > seqs.max THEN SeqOf(p) ELSE seqs.max
      /\ s.state.looped <=> seqs.looped \/ s.split
      /\ s.split <=> SeqOf(p) < (IF seqs.prev > RANGE THEN seqs.prev - RANGE ELSE 0)
      /\ s.state.prev =
           IF \/ SeqOf(p) < (IF seqs.prev > RANGE THEN seqs.prev - RANGE ELSE 0)
              \/ SeqOf(p) >= seqs.prev /\ (SeqOf(p) <= seqs.prev + RANGE \/ seqs.prev = 0)
           THEN SeqOf(p) ELSE seqs.prev
    BY <1>2, <1>3, BySeqType
<1>5. SeqOf(p) <= s.state.max
    BY <1>2, <1>3, <1>4
<1>6. CASE Nothing
    <2>1. seqs.prev = 0 /\ seqs.max = 0 /\ ~seqs.looped
        BY <1>6 DEF Nothing, InitSeq
    <2>2. ~s.split /\ s.state.prev = SeqOf(p) /\ s.state.max = SeqOf(p) /\ ~s.state.looped
        BY <1>2, <1>4, <2>1 DEF RANGE
    <2> QED
        BY <1>2, <1>4, <1>6, <2>2
<1>7. CASE Followed
    <2>1. /\ sent > 0 /\ seqs.prev = SeqOf(sent) /\ seqs.prev <= seqs.max /\ seqs.max <= LastSeq
          /\ M.endSplit /\ lidar.model \in Lossless /\ seqs.looped => seqs.max = LastSeq
          /\ OfFrame(Before, Shut, FrameOf(sent)) \/ FrameEnded
        BY <1>7 DEF Followed
    <2>2. p - sent <= RANGE /\ (lidar.model \in Lossless => p = sent + 1)
        BY <1>1, <2>1 DEF Follows
    <2>3. /\ s.split <=> FrameOf(sent) < FrameOf(p)
          /\ ~s.split <=> FrameOf(sent) = FrameOf(p)
          /\ s.state.prev = SeqOf(p)
        BY <1>1, <1>3, <2>1, <2>2, BySeqInRange
    <2>4. SeqOf(sent) \in Nat /\ SeqOf(sent) <= LastSeq /\ FrameOf(sent) \in Nat
        BY <1>1, <2>1, SeqType
    <2>5. \/ FrameOf(p) = FrameOf(sent) /\ SeqOf(p) = SeqOf(sent) + (p - sent)
          \/ FrameOf(p) = FrameOf(sent) + 1 /\ SeqOf(p) = SeqOf(sent) + (p - sent) - PacketsPerFrame
        BY <1>1, <2>1, <2>2, SeqDistance
    <2>6. PacketsPerFrame \in Nat
        BY FramesAssumption DEF FramesAssumption
    <2>7. s.state.max <= LastSeq
        BY <1>2, <1>3, <1>4, <2>1
    <2>8. ASSUME M.endSplit, lidar.model \in Lossless, s.state.looped PROVE s.state.max = LastSeq
        <3>1. CASE seqs.looped
            BY <1>2, <1>3, <1>4, <2>1, <2>7, <2>8, <3>1
        <3>2. CASE s.split
            <4>1. SeqOf(p) = SeqOf(sent) + 1 - PacketsPerFrame
                BY <1>1, <2>2, <2>3, <2>4, <2>5, <2>8, <3>2
            <4>2. SeqOf(sent) >= LastSeq
                BY <1>2, <2>4, <2>6, <4>1 DEF LastSeq
            <4> QED
                BY <1>2, <1>3, <1>4, <2>1, <2>4, <2>7, <4>2
        <3> QED
            BY <1>4, <2>8, <3>1, <3>2
    <2>9. CASE OfFrame(Before, Shut, FrameOf(sent))
        BY <1>4, <1>5, <2>3, <2>4, <2>7, <2>8, <2>9
    <2>10. CASE FrameEnded
        <3>1. cloud.frames = {}
            BY <2>10 DEF FrameEnded
        <3>2. ASSUME Whole PROVE s.split /\ \A x \in Shut : x < FrameOf(p)
            <4>1. lidar.model \in Lossless /\ SeqOf(sent) = LastSeq /\ \A x \in Shut : x <= FrameOf(sent)
                BY <2>10, <3>2 DEF FrameEnded, Whole
            <4>2. FrameOf(p) = FrameOf(sent) + 1
                BY <1>1, <1>2, <2>2, <2>4, <2>5, <4>1
            <4>3. Shut \in SUBSET Int
                BY BeforeType
            <4> QED
                BY <2>3, <2>4, <4>1, <4>2, <4>3
        <3> QED
            BY <1>4, <1>5, <2>3, <2>7, <2>8, <3>1, <3>2
    <2> QED
        BY <2>1, <2>9, <2>10
<1> QED
    BY <1>6, <1>7

\* The packet after which a cloud may be split is the last of its frame.
LEMMA EndOfFrame ==
    ASSUME lidar \in Lidars, ~IsMech, NEW p \in Nat, p > 0,
           NEW s \in [prev : Nat, max : Nat, looped : BOOLEAN],
           M.endSplit, MaxSeq(s) = SeqOf(p), Whole,
           M.endSplit /\ lidar.model \in Lossless /\ s.looped => s.max = LastSeq
    PROVE  SeqOf(p) = LastSeq
<1>1. lidar.model \in Lossless
    BY DEF Whole
<1>2. M.first = 1 /\ M.first <= SeqOf(p) /\ SeqOf(p) \in Nat
    BY SeqType
<1>3. s.looped
    BY <1>2 DEF MaxSeq
<1> QED
    BY <1>1, <1>3 DEF MaxSeq

\* The next packet of a solid-state lidar.
LEMMA MsopSeqInv == ASSUME Inv, ~IsMech, ReceiveMsop PROVE Inv'
<1>1. PICK p \in sent + 1 .. sent + 1 + MaxLost :
        /\ Follows(p) /\ sent' = p
        /\ held' \in {{}, held} \cup
              (IF IsMech \/ lidar.model \in Lossless \/ ~Accepts THEN {}
               ELSE {{q} : q \in sent + 1 .. p - 1})
        /\ \A q \in held' : FrameOf(q) = FrameOf(p) /\ p - q <= RANGE
        /\ Decode(p)
        /\ UNCHANGED <<lidar, ready, described, installed, blind>>
    BY DEF ReceiveMsop
<1>2. TypeOK /\ Kept(out, done) /\ SeqInv /\ lidar \in Lidars
    BY DEF Inv, TypeOK
<1>3. p \in Nat /\ p > sent /\ p > 0 /\ sent \in Nat
    BY <1>2, DecoderAssumption DEF TypeOK, DecoderAssumption
<1>4. /\ lidar' = lidar /\ sent' = p /\ IsMech' = IsMech /\ M' = M /\ Whole' = Whole
      /\ SeqOf(sent)' = SeqOf(p) /\ FrameOf(sent)' = FrameOf(p) /\ LastSeq' = LastSeq
    BY <1>1, SameLidar, SentSame
<1>5. lidar' \in Lidars'
    BY <1>2, <1>4 DEF Lidars
<1>6. /\ held' \in SUBSET Nat
      /\ \A q \in held' : q \in held \/ (q \in sent + 1 .. p - 1 /\ lidar.model \notin Lossless /\ Accepts)
    <2>1. held \in SUBSET Nat
        BY <1>2 DEF TypeOK
    <2> QED
        BY <1>1, <1>3, <2>1
<1>7. /\ ready' \in BOOLEAN /\ described' \in BOOLEAN /\ installed' \in BOOLEAN /\ blind' \in Int
      /\ sent' \in Nat /\ ready' = ready
    BY <1>1, <1>2, <1>3, <1>4 DEF TypeOK
<1>8. lidar.model \in Lossless => held' = {}
    BY <1>2, <1>6 DEF SeqInv
<1>9. Times(timing) /\ echo \in {"single", "dual"}
    BY <1>2 DEF TypeOK
<1>10. CASE ~ready
    <2>1. Nothing /\ ~Accepts
        BY <1>2, <1>10 DEF SeqInv, Followed, Accepts
    <2>2. /\ timing' = timing /\ echo' = echo /\ prevAngle' = prevAngle /\ seqs' = seqs
          /\ cloud' = cloud /\ firstTs' = firstTs /\ prevTs' = prevTs /\ out' = out
          /\ done' = done /\ skew' = skew
        BY <1>1, <2>1 DEF Decode, decodeVars
    <2>3. TypeOK'
        <3>1. Times(timing') /\ out' \in Seq(Handed) /\ cloud' \in Clouds
            BY <1>2, <2>2 DEF TypeOK
        <3> QED
            BY <1>2, <1>5, <1>6, <1>7, <2>2, <3>1 DEF TypeOK
    <2>4. Kept(out, done)'
        BY <1>2, <1>4, <2>2, Unmoved
    <2>5. held' = {}
        BY <1>6, <2>1 DEF Nothing
    <2>6. Nothing'
        BY <2>1, <2>2, <2>5 DEF Nothing, NoCloud
    <2> QED
        BY <1>4, <1>8, <2>3, <2>4, <2>6 DEF Inv, SeqInv
<1>11. CASE ready
    <2>1. DecodeSeq(p)
        BY <1>1, <1>11 DEF Decode, Accepts
    <2>2. PICK s : s = BySeq(seqs, SeqOf(p))
        OBVIOUS
    <2>3. /\ s.state \in [prev : Nat, max : Nat, looped : BOOLEAN]
          /\ s.state.prev = SeqOf(p) /\ SeqOf(p) <= s.state.max /\ s.state.max <= LastSeq
          /\ M.endSplit /\ lidar.model \in Lossless /\ s.state.looped => s.state.max = LastSeq
          /\ \/ Nothing /\ ~s.split
             \/ \E g \in Int : /\ OfFrame(Before, Shut, g)
                               /\ s.split => g < FrameOf(p)
                               /\ ~s.split => g = FrameOf(p)
             \/ /\ cloud.frames = {}
                /\ Whole => s.split /\ \A x \in Shut : x < FrameOf(p)
        BY <1>1, <1>2, <1>3, <2>2, NextPacketFollowed DEF SeqInv
    <2>4. PICK f : f = FrameOf(p)
        OBVIOUS
    <2>5. f \in Int
        BY <1>2, <1>3, <2>4, SeqType
    <2>6. /\ cloud' \in Clouds /\ firstTs' \in Int /\ prevTs' \in Int /\ prevAngle' \in Int
          /\ out' \in Seq(Handed) /\ done' \in SUBSET Int /\ skew' \in Int
          /\ timing' = timing /\ echo' = echo /\ seqs' = s.state
          /\ Kept(out, done)'
          /\ \/ OfFrame(Before, Shut, f)'
             \/ /\ M.endSplit /\ MaxSeq(s.state) = SeqOf(p) /\ cloud'.frames = {}
                /\ Whole => \A x \in Shut' : x <= f
        BY <1>2, <1>3, <1>4, <2>1, <2>2, <2>3, <2>4, <2>5, DecodeSeqStep
    <2>7. TypeOK'
        BY <1>5, <1>6, <1>7, <1>9, <2>3, <2>6 DEF TypeOK
    <2>8. OfFrame(Before, Shut, FrameOf(sent))' \/ FrameEnded'
        <3>1. CASE OfFrame(Before, Shut, f)'
            BY <1>4, <2>4, <3>1 DEF OfFrame, Newer
        <3>2. CASE /\ M.endSplit /\ MaxSeq(s.state) = SeqOf(p) /\ cloud'.frames = {}
                   /\ Whole => \A x \in Shut' : x <= f
            <4>1. Whole => SeqOf(p) = LastSeq
                BY <1>2, <1>3, <2>3, <3>2, EndOfFrame
            <4> QED
                BY <1>4, <2>4, <3>2, <4>1 DEF FrameEnded
        <3> QED
            BY <2>6, <3>1, <3>2
    <2>9. \A q \in held' : 0 < q /\ q < p /\ p - q <= RANGE /\ FrameOf(q) = FrameOf(p)
        <3> SUFFICES ASSUME NEW q \in held' PROVE 0 < q /\ q < p
            BY <1>1
        <3>1. CASE q \in held
            <4>1. 0 < q /\ q < sent
                BY <1>2, <3>1 DEF SeqInv, Nothing, Followed
            <4> QED
                BY <1>3, <1>6, <4>1
        <3>2. CASE q \in sent + 1 .. p - 1
            BY <1>3, <3>2
        <3> QED
            BY <1>6, <3>1, <3>2
    <2>10. \A q : FrameOf(q)' = FrameOf(q)
        BY DEF FrameOf
    <2>11. Followed'
        BY <1>3, <1>4, <1>7, <1>11, <2>3, <2>6, <2>8, <2>9, <2>10 DEF Followed
    <2> QED
        BY <1>4, <1>8, <2>6, <2>7, <2>11 DEF Inv, SeqInv
<1> QED
    BY <1>10, <1>11

\* A packet that is late, which only a solid-state lidar has.
LEMMA LateInv == ASSUME Inv, ReceiveLate PROVE Inv'
<1>1. PICK q \in held : /\ held' = held \ {q} /\ Decode(q)
                        /\ UNCHANGED <<lidar, sent, ready, described, installed, blind>>
    BY DEF ReceiveLate
<1>2. TypeOK /\ Kept(out, done) /\ lidar \in Lidars
    BY DEF Inv, TypeOK
<1>3. ~IsMech /\ SeqInv
    BY DEF Inv, MechInv
<1>4. Followed /\ lidar.model \notin Lossless
    BY <1>3 DEF SeqInv, Nothing
<1>5. /\ ready /\ sent > 0 /\ seqs.prev = SeqOf(sent)
      /\ seqs.prev <= seqs.max /\ seqs.max <= LastSeq
      /\ \A x \in held : 0 < x /\ x < sent /\ sent - x <= RANGE /\ FrameOf(x) = FrameOf(sent)
      /\ OfFrame(Before, Shut, FrameOf(sent)) \/ FrameEnded
    BY <1>4 DEF Followed
<1>6. sent \in Nat /\ q \in Nat /\ 0 < q /\ q < sent /\ sent - q <= RANGE /\ FrameOf(q) = FrameOf(sent)
    BY <1>2, <1>5 DEF TypeOK
<1>7. /\ lidar' = lidar /\ sent' = sent /\ IsMech' = IsMech /\ M' = M /\ Whole' = Whole
      /\ SeqOf(sent)' = SeqOf(sent) /\ FrameOf(sent)' = FrameOf(sent) /\ LastSeq' = LastSeq
    BY <1>1, SameLidar, SentSame
<1>8. lidar' \in Lidars'
    BY <1>2, <1>7 DEF Lidars
<1>9. DecodeSeq(q)
    BY <1>1, <1>3, <1>5 DEF Decode, Accepts
<1>10. PICK s : s = BySeq(seqs, SeqOf(q))
    OBVIOUS
<1>11. seqs \in [prev : Nat, max : Nat, looped : BOOLEAN]
    BY <1>2 DEF TypeOK
<1>12. ~s.split /\ s.state.prev = SeqOf(sent)
    BY <1>2, <1>3, <1>5, <1>6, <1>10, <1>11, BySeqInRange
<1>13. SeqOf(q) \in Nat /\ SeqOf(q) <= LastSeq /\ LastSeq \in Nat /\ FrameOf(sent) \in Nat
    BY <1>2, <1>3, <1>6, SeqType
<1>14. /\ s.state \in [prev : Nat, max : Nat, looped : BOOLEAN]
       /\ s.state.prev <= s.state.max /\ s.state.max <= LastSeq
    <2>1. /\ s.state \in [prev : Nat, max : Nat, looped : BOOLEAN]
          /\ s.state.max = IF SeqOf(q) > seqs.max THEN SeqOf(q) ELSE seqs.max
        BY <1>10, <1>11, <1>13, BySeqType
    <2> QED
        BY <1>5, <1>11, <1>12, <1>13, <2>1
<1>15. PICK f : f = FrameOf(q)
    OBVIOUS
<1>16. f \in Int /\ f = FrameOf(sent)
    BY <1>6, <1>13, <1>15
<1>17. M.endSplit => ~Whole
    BY <1>3, <1>4 DEF Whole
<1>18. \/ \E g \in Int : /\ OfFrame(Before, Shut, g)
                         /\ s.split => g < FrameOf(q)
                         /\ ~s.split => g = FrameOf(q)
       \/ /\ cloud.frames = {}
          /\ Whole => s.split /\ \A x \in Shut : x < FrameOf(q)
    BY <1>5, <1>12, <1>15, <1>16, <1>17 DEF FrameEnded
<1>19. /\ cloud' \in Clouds /\ firstTs' \in Int /\ prevTs' \in Int /\ prevAngle' \in Int
       /\ out' \in Seq(Handed) /\ done' \in SUBSET Int /\ skew' \in Int
       /\ timing' = timing /\ echo' = echo /\ seqs' = s.state
       /\ Kept(out, done)'
       /\ \/ OfFrame(Before, Shut, f)'
          \/ M.endSplit /\ cloud'.frames = {}
    BY <1>2, <1>3, <1>6, <1>7, <1>9, <1>10, <1>15, <1>16, <1>18, DecodeSeqStep
<1>20. OfFrame(Before, Shut, FrameOf(sent))' \/ FrameEnded'
    BY <1>7, <1>16, <1>17, <1>19 DEF FrameEnded, OfFrame, Newer
<1>21. /\ ready' \in BOOLEAN /\ described' \in BOOLEAN /\ installed' \in BOOLEAN /\ blind' \in Int
       /\ sent' \in Nat /\ ready' = ready /\ held' \in SUBSET Nat
    BY <1>1, <1>2 DEF TypeOK
<1>22. TypeOK'
    <2>1. Times(timing) /\ echo \in {"single", "dual"}
        BY <1>2 DEF TypeOK
    <2> QED
        BY <1>8, <1>14, <1>19, <1>21, <2>1 DEF TypeOK
<1>23. Followed'
    <2>1. \A x : FrameOf(x)' = FrameOf(x)
        BY DEF FrameOf
    <2>2. \A x \in held' : 0 < x /\ x < sent /\ sent - x <= RANGE /\ FrameOf(x) = FrameOf(sent)
        BY <1>1, <1>5
    <2> QED
        BY <1>4, <1>5, <1>7, <1>12, <1>14, <1>19, <1>20, <1>21, <2>1, <2>2 DEF Followed
<1> QED
    BY <1>3, <1>4, <1>7, <1>19, <1>22, <1>23 DEF Inv, SeqInv

\* No step.
LEMMA StutterInv == ASSUME Inv, UNCHANGED vars PROVE Inv'
<1>1. /\ lidar' = lidar /\ sent' = sent /\ held' = held /\ ready' = ready /\ described' = described
      /\ installed' = installed /\ blind' = blind /\ timing' = timing /\ echo' = echo
      /\ prevAngle' = prevAngle /\ seqs' = seqs /\ cloud' = cloud /\ firstTs' = firstTs
      /\ prevTs' = prevTs /\ out' = out /\ done' = done /\ skew' = skew
    BY DEF vars, decodeVars
<1>2. /\ M' = M /\ Whole' = Whole /\ IsMech' = IsMech /\ SeqOf(sent)' = SeqOf(sent)
      /\ FrameOf(sent)' = FrameOf(sent) /\ LastSeq' = LastSeq
      /\ GroupOf(sent, M.blocks)' = GroupOf(sent, M.blocks)
    BY <1>1, SameLidar, SentSame
<1>3. /\ Shut' = Shut /\ Kept(out, done)' = Kept(out, done)
      /\ \A f : OfFrame(Before, Shut, f)' = OfFrame(Before, Shut, f)
      /\ \A g : OnGroup(Before, Shut, g)' = OnGroup(Before, Shut, g)
    BY <1>1, Unmoved
<1>4. TypeOK'
    BY <1>1 DEF Inv, TypeOK, Lidars
<1>5. Nothing => Nothing'
    BY <1>1 DEF Nothing, NoCloud
<1>6. OnRound => OnRound'
    BY <1>1, <1>2, <1>3 DEF OnRound
<1>7. FrameEnded => FrameEnded'
    BY <1>1, <1>2, <1>3 DEF FrameEnded
<1>8. Followed => Followed'
    <2>1. PICK f : f = FrameOf(sent)
        OBVIOUS
    <2>2. OfFrame(Before, Shut, FrameOf(sent)) => OfFrame(Before, Shut, FrameOf(sent))'
        BY <1>2, <1>3, <2>1 DEF OfFrame, Newer
    <2>3. \A q : FrameOf(q)' = FrameOf(q)
        BY DEF FrameOf
    <2> QED
        BY <1>1, <1>2, <1>7, <2>2, <2>3 DEF Followed
<1> QED
    BY <1>1, <1>2, <1>3, <1>4, <1>5, <1>6, <1>8 DEF Inv, MechInv, SeqInv

(***************************************************************************)
(* The types, and that the cloud in the making belongs to the revolution   *)
(* of the last block or the frame of the last packet, all earlier ones to  *)
(* earlier frames: newBlock, newPacket and the callbacks that split.       *)
(***************************************************************************)
THEOREM DecoderInv == Spec => []Inv
<1>1. Init => Inv
    BY InitInv
<1>2. Inv /\ [Next]_vars => Inv'
    <2> SUFFICES ASSUME Inv, [Next]_vars PROVE Inv'
        OBVIOUS
    <2>1. CASE ReceiveDifop
        BY <2>1, DifopInv
    <2>2. CASE ReceiveMsop
        BY <2>2, MsopMechInv, MsopSeqInv
    <2>3. CASE ReceiveLate
        BY <2>3, LateInv
    <2>4. CASE UNCHANGED vars
        BY <2>4, StutterInv
    <2> QED
        BY <2>1, <2>2, <2>3, <2>4 DEF Next
<1> QED
    BY <1>1, <1>2, PTL DEF Spec

(***************************************************************************)
(* Points of two revolutions, or of two frames, never share a cloud, for   *)
(* every lidar, field of view and split angle of the assumptions, whatever *)
(* packets are lost or swapped within the safe ranges.                     *)
(***************************************************************************)
THEOREM CloudIsOneFrameHolds == Spec => []CloudIsOneFrame
<1>1. Inv => CloudIsOneFrame
    <2> SUFFICES ASSUME Inv PROVE CloudIsOneFrame
        OBVIOUS
    <2>1. \A x : Cardinality({x}) = 1
        BY FS_Singleton
    <2>2. ASSUME NEW i \in DOMAIN out PROVE Cardinality(out[i].cloud.frames) = 1
        BY <2>1, <2>2 DEF Inv, Kept, OneFrameEach
    <2>3. cloud.frames = {} \/ \E f : cloud.frames = {f}
        <3>1. Nothing \/ OnRound \/ Followed
            BY DEF Inv, MechInv, SeqInv
        <3>2. Before.cloud = cloud
            BY DEF Before
        <3> QED
            BY <3>1, <3>2, NoCloudType DEF Nothing, OnRound, OnGroup, Followed, FrameEnded, OfFrame
    <2>4. Cardinality(cloud.frames) <= 1
        <3>1. Cardinality({}) = 0
            BY FS_EmptySet
        <3>2. CASE cloud.frames = {}
            BY <3>1, <3>2
        <3>3. ASSUME NEW f, cloud.frames = {f} PROVE Cardinality(cloud.frames) <= 1
            <4>1. Cardinality(cloud.frames) = 1
                BY <2>1, <3>3
            <4> QED
                BY <4>1
        <3> QED
            BY <2>3, <3>2, <3>3
    <2> QED
        BY <2>2, <2>4 DEF CloudIsOneFrame
<1> QED
    BY <1>1, DecoderInv, PTL

\* The lidars that split after a frame's last packet, RSM1 and its like,
\* lose no packet: the length they know of a frame is then the right one.
EndSplitsLossless ==
    \A m \in Models : ModelOf[m].kind = "seq" /\ ModelOf[m].endSplit => m \in Lossless

\* The lidar that is connected is then whole.
LEMMA WholeLidar == ASSUME Inv, EndSplitsLossless PROVE Whole
<1>1. lidar \in Lidars /\ lidar.model \in Models
    BY LidarType DEF Inv, TypeOK
<1>2. ~IsMech => M.kind = "seq"
    BY <1>1, LidarType DEF SolidStateOK
<1> QED
    BY <1>1, <1>2 DEF Whole, EndSplitsLossless, M

(***************************************************************************)
(* The points of a revolution, or of a frame, are handed over in one       *)
(* cloud, whatever is lost or swapped within the safe ranges, except for   *)
(* packets of the lidars that split after a frame's last one.              *)
(***************************************************************************)
THEOREM FrameIsOneCloudHolds == ASSUME EndSplitsLossless PROVE Spec => []FrameIsOneCloud
<1>1. Inv => FrameIsOneCloud
    BY WholeLidar DEF Inv, Kept, Apart, FrameIsOneCloud
<1> QED
    BY <1>1, DecoderInv, PTL

(***************************************************************************)
(* cloudTs() is a time of the cloud's own points, the first or the last    *)
(* one's as ts_first_point says; only the first cloud has no first point.  *)
(***************************************************************************)
THEOREM StampOfOwnPointHolds == ASSUME EndSplitsLossless PROVE Spec => []StampOfOwnPoint
<1>1. Inv => StampOfOwnPoint
    BY WholeLidar DEF Inv, Kept, Stamped, StampOfOwnPoint
<1> QED
    BY <1>1, DecoderInv, PTL

-----------------------------------------------------------------------------
(* The times of blocks and points.                                        *)

\* What an iterator of a lidar's packets fits: with two firings in a block
\* the firings are short, and a packet holds whole groups of blocks, or three
\* blocks of two groups.
Fits(m, it) ==
    /\ it.scale = 2 => m.actual.duration <= 55560
    /\ IF it.alternating THEN m.blocks = 3 /\ it.per = 2 ELSE m.blocks % it.per = 0
FitsPackets(m) == m.kind = "mech" => Fits(m, m.iterator.single) /\ Fits(m, m.iterator.dual)

\* So do the iterators of every lidar of the table.
LEMMA ModelsFit == \A m \in DOMAIN ModelOf : FitsPackets(ModelOf[m])
<1>1. FitsPackets(RS16) /\ FitsPackets(RSHELIOS_16P)
    BY DEF RS16, RSHELIOS_16P, Rs16Like, Mechanical, Rs16SingleReturn, Rs16DualReturn,
           Iterator, Timing, FitsPackets, Fits
<1>2. /\ FitsPackets(RS32) /\ FitsPackets(RSBP) /\ FitsPackets(RS48) /\ FitsPackets(RS80)
      /\ FitsPackets(RSHELIOS) /\ FitsPackets(RSP48)
    BY DEF RS32, RSBP, RS48, RS80, RSHELIOS, RSP48, Mech, Mechanical, SingleReturn,
           DualReturn, Iterator, Timing, FitsPackets, Fits
<1>3. FitsPackets(RS128) /\ FitsPackets(RSP128)
    BY DEF RS128, RSP128, Mech, Mechanical, SingleReturn, ABDualReturn, Iterator, Timing,
           FitsPackets, Fits
<1>4. FitsPackets(RSBP_V4) /\ FitsPackets(RSP80) /\ FitsPackets(RSP80V)
    BY DEF RSBP_V4, RSP80, RSP80V, Mechanical, SingleReturn, DualReturn, Iterator, Timing,
           FitsPackets, Fits
<1>5. FitsPackets(RSAIRY_48) /\ FitsPackets(RSFAIRY_48) /\ FitsPackets(RSFAIRY_96)
    BY DEF RSAIRY_48, RSFAIRY_48, RSFAIRY_96, Airy, Mechanical, SingleReturn, DualReturn,
           TwoInOne, FourInOne, Iterator, Timing, FitsPackets, Fits
<1>6. ASSUME NEW last \in Nat PROVE FitsPackets(Installed(last))
    <2>1. PICK m : m = Airy(TwoInOne, FourInOne, 111080, 97104, last)
        OBVIOUS
    <2>2. m = [kind |-> "mech", blocks |-> 8,
               iterator |-> [single |-> TwoInOne, dual |-> FourInOne],
               initial |-> Timing(111080, 97104, 97104), actual |-> Timing(111080, last, last),
               echoIn |-> "msop", install |-> FALSE]
        BY <2>1 DEF Airy, Mechanical
    <2>3. /\ [m EXCEPT !.install = TRUE].kind = "mech" /\ [m EXCEPT !.install = TRUE].blocks = 8
          /\ [m EXCEPT !.install = TRUE].iterator.single = TwoInOne
          /\ [m EXCEPT !.install = TRUE].iterator.dual = FourInOne
        BY <2>2
    <2>4. Installed(last) = [m EXCEPT !.install = TRUE]
        BY <2>1 DEF Installed
    <2>5. /\ Installed(last).blocks = 8
          /\ Installed(last).iterator.single = TwoInOne /\ Installed(last).iterator.dual = FourInOne
        BY <2>3, <2>4
    <2>6. ~TwoInOne.alternating /\ TwoInOne.per = 2 /\ TwoInOne.scale = 1
          /\ ~FourInOne.alternating /\ FourInOne.per = 4 /\ FourInOne.scale = 1
        BY DEF TwoInOne, FourInOne, Iterator
    <2> QED
        BY <2>5, <2>6 DEF FitsPackets, Fits
<1>7. FitsPackets(RSAIRY_96) /\ FitsPackets(RSAIRY_96_SIDE) /\ FitsPackets(RSAIRY_96_M)
    BY <1>6 DEF RSAIRY_96, RSAIRY_96_SIDE, RSAIRY_96_M
<1>8. /\ FitsPackets(RSM1) /\ FitsPackets(RSM1_JUMBO) /\ FitsPackets(RSM2)
      /\ FitsPackets(RSM3) /\ FitsPackets(RSE1) /\ FitsPackets(RSMX) /\ FitsPackets(RSEMX)
    BY DEF RSM1, RSM1_JUMBO, RSM2, RSM3, RSE1, RSMX, RSEMX, SolidState, FitsPackets
<1> QED
    BY <1>1, <1>2, <1>3, <1>4, <1>5, <1>7, <1>8 DEF ModelOf

\* The time from the last group of a round to the first one of the next.
Rest == RoundTime - (GroupsPerRound - 1) * GroupDuration

\* What GroupTime makes of it, and how much it is off.
Crossed ==
    IF RS_ONE_ROUND - (GroupsPerRound - 1) * GroupAngle > MAX_AZ_DIFF
    THEN BlindTime(lidar.rps) ELSE GroupDuration
Error == Crossed - Rest

\* The numbers they are made of.
LEMMA TimesType ==
    ASSUME lidar \in Lidars, IsMech
    PROVE  /\ lidar.rps \in Nat /\ 1 <= lidar.rps /\ lidar.rps <= 20
           /\ RoundTime \in Nat /\ GroupDuration \in Nat /\ Rest \in Int
           /\ BlindTime(lidar.rps) \in Int /\ Crossed \in Int /\ Error \in Int
           /\ GroupAngle <= 100
           /\ Fits(M, M.iterator[Mode])
<1>1. lidar.rps \in Nat /\ 1 <= lidar.rps /\ lidar.rps <= 20
    <2>1. lidar.rps \in Speeds
        BY LidarType
    <2>2. Speeds \subseteq 1..20
        BY DecoderAssumption, Zenon DEF DecoderAssumption
    <2>3. \A r \in 1..20 : r \in Nat /\ 1 <= r /\ r <= 20
        OBVIOUS
    <2> QED
        BY <2>1, <2>2, <2>3, Zenon
<1>2. RoundTime \in Nat
    <2>1. PICK r \in Nat : r = lidar.rps /\ 1 <= r /\ r <= 20
        BY <1>1
    <2>2. 1000000000 \div r \in Nat
        BY <2>1, DivMod
    <2> QED
        BY <2>1, <2>2 DEF RoundTime
<1>3. MechanicalOK(M) /\ Grouping(M.iterator[Mode]) /\ Mode \in {"single", "dual"}
    BY LidarType DEF MechanicalOK
<1>4. Fits(M, M.iterator[Mode])
    <2>1. FitsPackets(M)
        BY LidarType, ModelsFit, DecoderAssumption DEF DecoderAssumption, M
    <2> QED
        BY <1>3, <2>1 DEF FitsPackets, MechanicalOK
<1>5. GroupDuration \in Nat
    BY <1>3 DEF GroupDuration, MechanicalOK, Grouping, Times
<1>6. BlindTime(lidar.rps) \in Int
    <2>1. 60 * lidar.rps # 0 /\ (60 * lidar.rps) \div 60 = lidar.rps
        BY <1>1
    <2>2. PICK rpm : rpm = 60 * lidar.rps
        OBVIOUS
    <2> QED
        BY <2>1, <2>2, BlindTimeType
<1>7. Rest \in Int /\ Crossed \in Int /\ Error \in Int
    <2>1. GroupsPerRound \in Nat
        BY FieldInGroups
    <2>2. Rest \in Int
        BY <1>2, <1>5, <2>1 DEF Rest
    <2>3. Crossed \in Int
        BY <1>5, <1>6 DEF Crossed
    <2> QED
        BY <2>2, <2>3 DEF Error
<1>8. GroupAngle <= 100
    <2> DEFINE t == M.actual.duration
               turn == lidar.rps * t
               step == (36 * lidar.rps * t + 500000) \div 1000000
               s == M.iterator[Mode].scale
    <2>1. t \in Nat /\ 55500 <= t /\ t <= 111080 /\ s \in {1, 2} /\ (s = 2 => t <= 55560)
        BY <1>3, <1>4 DEF MechanicalOK, Times, Grouping, Fits
    <2>2. turn \in Nat /\ 1 * t <= turn /\ turn <= 20 * t
        BY <1>1, <2>1, Ordered
    <2>3. 36 * lidar.rps * t = 36 * turn
        BY <1>1, <2>1
    <2>4. GroupAngle = s * step
        BY DEF GroupAngle
    <2> HIDE DEF turn, t, s
    <2>5. step \in Nat /\ step <= 80 /\ (s = 2 => step <= 41)
        BY <2>1, <2>2, <2>3
    <2> HIDE DEF step
    <2> QED
        BY <2>1, <2>4, <2>5
<1> QED
    BY <1>1, <1>2, <1>4, <1>5, <1>6, <1>7, <1>8

\* The next number is the next in its n-tuple, or the first of the next one.
LEMMA Successor ==
    ASSUME NEW n \in Nat, n > 0, NEW g \in Nat
    PROVE  \/ /\ (g + 1) \div n = g \div n /\ (g + 1) % n = (g % n) + 1
           \/ /\ (g + 1) \div n = g \div n + 1 /\ (g + 1) % n = 0 /\ g % n = n - 1
<1>1. PICK p, q, r, t : p = g \div n /\ q = (g + 1) \div n /\ r = g % n /\ t = (g + 1) % n
    OBVIOUS
<1>2. /\ g = n * p + r /\ g + 1 = n * q + t /\ p \in Nat /\ q \in Nat
      /\ r \in Nat /\ t \in Nat /\ r < n /\ t < n
    BY <1>1, DivMod
<1>3. q = p \/ q = p + 1
    BY <1>1, DivStep
<1>4. n * (p + 1) = n * p + n /\ n * p \in Nat
    BY <1>2
<1>5. \/ q = p /\ t = r + 1
      \/ q = p + 1 /\ t = 0 /\ r = n - 1
    <2>1. CASE q = p
        <3>1. n * q = n * p
            BY <2>1
        <3>2. t = r + 1
            BY <1>2, <1>4, <3>1
        <3> QED
            BY <2>1, <3>2
    <2>2. CASE q = p + 1
        <3>1. n * q = n * p + n
            BY <1>4, <2>2
        <3>2. t = 0 /\ r = n - 1
            BY <1>2, <1>4, <3>1
        <3> QED
            BY <2>2, <3>2
    <2> QED
        BY <1>3, <2>1, <2>2
<1> QED
    BY <1>1, <1>5

\* An angle below two circles.
LEMMA Wrapped ==
    ASSUME NEW u \in Nat, u < 2 * RS_ONE_ROUND
    PROVE  u % RS_ONE_ROUND = IF u < RS_ONE_ROUND THEN u ELSE u - RS_ONE_ROUND
BY DEF RS_ONE_ROUND

\* The difference of the azimuths of a group and the next one.
AzimuthStep(g) == (Azimuth(g + 1) - Azimuth(g) + 36000) % 36000

\* The time between two groups, and the difference of their azimuths.
LEMMA NextGroup ==
    ASSUME lidar \in Lidars, IsMech, NEW g \in Nat
    PROVE  \/ /\ (g + 1) \div GroupsPerRound = g \div GroupsPerRound
              /\ GroupTs(g + 1) = GroupTs(g) + GroupDuration
              /\ AzimuthStep(g) = GroupAngle
           \/ /\ (g + 1) \div GroupsPerRound = g \div GroupsPerRound + 1
              /\ GroupTs(g + 1) = GroupTs(g) + Rest
              /\ AzimuthStep(g) = RS_ONE_ROUND - (GroupsPerRound - 1) * GroupAngle
<1>1. PICK n, a, s, R, D : /\ n = GroupsPerRound /\ a = GroupAngle /\ s = lidar.field[1]
                           /\ R = RoundTime /\ D = GroupDuration
    OBVIOUS
<1>2. /\ n \in Nat /\ n > 1 /\ a \in Nat /\ a > 0 /\ a <= 160 /\ s \in Nat /\ s < RS_ONE_ROUND
      /\ (n - 1) * a < RS_ONE_ROUND /\ R \in Nat /\ D \in Nat
    <2>1. PICK w, k : w = FieldRange /\ k = (n - 1) * a
        OBVIOUS
    <2>2. n \in Nat /\ n > 1 /\ a \in Nat /\ a > 0 /\ a <= 160 /\ s \in Nat /\ s < RS_ONE_ROUND
        BY <1>1, FieldInGroups
    <2>3. w \in Nat /\ w <= RS_ONE_ROUND /\ k < w /\ k \in Int
        <3>1. k < w /\ w \in Nat /\ w <= RS_ONE_ROUND
            BY <1>1, <2>1, FieldInGroups
        <3> QED
            BY <2>1, <2>2, <3>1
    <2>4. k < RS_ONE_ROUND
        BY <2>3 DEF RS_ONE_ROUND
    <2>5. R \in Nat /\ D \in Nat
        BY <1>1, TimesType
    <2> QED
        BY <2>1, <2>2, <2>4, <2>5
<1>3. PICK p, q, r, t : p = g \div n /\ q = (g + 1) \div n /\ r = g % n /\ t = (g + 1) % n
    OBVIOUS
<1>4. p \in Nat /\ q \in Nat /\ r \in Nat /\ t \in Nat
    BY <1>2, <1>3, DivMod
<1>5. \/ q = p /\ t = r + 1
      \/ q = p + 1 /\ t = 0 /\ r = n - 1
    BY <1>2, <1>3, Successor
<1>6. /\ GroupTs(g) = R + p * R + r * D /\ GroupTs(g + 1) = R + q * R + t * D
      /\ Azimuth(g) = (s + r * a) % RS_ONE_ROUND /\ Azimuth(g + 1) = (s + t * a) % RS_ONE_ROUND
      /\ Rest = R - (n - 1) * D
    BY <1>1, <1>3 DEF GroupTs, Azimuth, Rest
<1>7. r * a < RS_ONE_ROUND /\ t * a < RS_ONE_ROUND
    BY <1>1, <1>3, AngleOfGroup
<1>8. PICK x, y : x = r * a /\ y = t * a
    OBVIOUS
<1>9. x \in Nat /\ y \in Nat
    BY <1>2, <1>4, <1>8
<1>10. CASE q = p /\ t = r + 1
    <2>1. y = x + a /\ t * D = r * D + D
        BY <1>2, <1>4, <1>8, <1>10
    <2>2. AzimuthStep(g) = a
        <3>1. PICK i, j : i = Azimuth(g) /\ j = Azimuth(g + 1)
            OBVIOUS
        <3>2. /\ i = IF s + x < RS_ONE_ROUND THEN s + x ELSE (s + x) - RS_ONE_ROUND
              /\ j = IF s + y < RS_ONE_ROUND THEN s + y ELSE (s + y) - RS_ONE_ROUND
            <4>1. PICK u, v : u = s + x /\ v = s + y
                OBVIOUS
            <4>2. u \in Nat /\ u < 2 * RS_ONE_ROUND /\ v \in Nat /\ v < 2 * RS_ONE_ROUND
                BY <1>2, <1>7, <1>8, <1>9, <4>1 DEF RS_ONE_ROUND
            <4>3. /\ u % RS_ONE_ROUND = IF u < RS_ONE_ROUND THEN u ELSE u - RS_ONE_ROUND
                  /\ v % RS_ONE_ROUND = IF v < RS_ONE_ROUND THEN v ELSE v - RS_ONE_ROUND
                BY <4>2, Wrapped
            <4>4. i = u % RS_ONE_ROUND /\ j = v % RS_ONE_ROUND
                BY <1>6, <1>8, <3>1, <4>1, Zenon
            <4> QED
                BY <4>1, <4>3, <4>4, Zenon
        <3>3. PICK d : d = j - i + 36000
            OBVIOUS
        <3>4. /\ d \in Nat /\ d < 2 * RS_ONE_ROUND
              /\ (IF d < RS_ONE_ROUND THEN d ELSE d - RS_ONE_ROUND) = a
            BY ONLY <1>2, <1>7, <1>8, <1>9, <2>1, <3>2, <3>3 DEF RS_ONE_ROUND
        <3>5. d % 36000 = a
            BY <3>4, Wrapped DEF RS_ONE_ROUND
        <3>6. (j - i + 36000) % 36000 = a
            BY ONLY <3>3, <3>5
        <3> QED
            BY ONLY <3>1, <3>6 DEF AzimuthStep
    <2>3. p * R \in Nat /\ r * D \in Nat
        BY <1>2, <1>4
    <2>4. GroupTs(g + 1) = GroupTs(g) + D
        BY <1>2, <1>6, <1>10, <2>1, <2>3
    <2> QED
        BY <1>1, <1>3, <1>6, <1>8, <1>10, <2>2, <2>4
<1>11. CASE q = p + 1 /\ t = 0 /\ r = n - 1
    <2>1. y = 0 /\ x = (n - 1) * a /\ t * D = 0 /\ q * R = p * R + R /\ x > 0
        <3>1. y = 0 /\ x = (n - 1) * a /\ t * D = 0 /\ q * R = p * R + R
            BY <1>2, <1>4, <1>8, <1>11
        <3>2. 0 * a < (n - 1) * a
            BY <1>2, StrictlyOrdered
        <3> QED
            BY <1>2, <3>1, <3>2
    <2>2. AzimuthStep(g) = RS_ONE_ROUND - x
        <3>1. PICK i, j : i = Azimuth(g) /\ j = Azimuth(g + 1)
            OBVIOUS
        <3>2. /\ i = IF s + x < RS_ONE_ROUND THEN s + x ELSE (s + x) - RS_ONE_ROUND
              /\ j = IF s + y < RS_ONE_ROUND THEN s + y ELSE (s + y) - RS_ONE_ROUND
            <4>1. PICK u, v : u = s + x /\ v = s + y
                OBVIOUS
            <4>2. u \in Nat /\ u < 2 * RS_ONE_ROUND /\ v \in Nat /\ v < 2 * RS_ONE_ROUND
                BY <1>2, <1>7, <1>8, <1>9, <4>1 DEF RS_ONE_ROUND
            <4>3. /\ u % RS_ONE_ROUND = IF u < RS_ONE_ROUND THEN u ELSE u - RS_ONE_ROUND
                  /\ v % RS_ONE_ROUND = IF v < RS_ONE_ROUND THEN v ELSE v - RS_ONE_ROUND
                BY <4>2, Wrapped
            <4>4. i = u % RS_ONE_ROUND /\ j = v % RS_ONE_ROUND
                BY <1>6, <1>8, <3>1, <4>1, Zenon
            <4> QED
                BY <4>1, <4>3, <4>4, Zenon
        <3>3. PICK d : d = j - i + 36000
            OBVIOUS
        <3>4. /\ d \in Nat /\ d < 2 * RS_ONE_ROUND
              /\ (IF d < RS_ONE_ROUND THEN d ELSE d - RS_ONE_ROUND) = RS_ONE_ROUND - x
            BY ONLY <1>2, <1>7, <1>8, <1>9, <2>1, <3>2, <3>3 DEF RS_ONE_ROUND
        <3>5. d % 36000 = RS_ONE_ROUND - x
            BY <3>4, Wrapped DEF RS_ONE_ROUND
        <3>6. (j - i + 36000) % 36000 = RS_ONE_ROUND - x
            BY ONLY <3>3, <3>5
        <3> QED
            BY ONLY <3>1, <3>6 DEF AzimuthStep
    <2>3. p * R \in Nat /\ r * D \in Nat /\ r * D = (n - 1) * D
        BY <1>2, <1>4, <1>11
    <2>4. GroupTs(g + 1) = GroupTs(g) + Rest
        BY <1>2, <1>6, <2>1, <2>3
    <2> QED
        BY <1>1, <1>3, <1>6, <1>8, <1>11, <2>1, <2>2, <2>4
<1> QED
    BY <1>5, <1>10, <1>11

\* Whole multiples of the divisor add to the quotient.
LEMMA DivShift ==
    ASSUME NEW n \in Nat, n > 0, NEW y \in Nat, NEW c \in Nat, NEW x, x = n * y + c
    PROVE  x \div n = y + (c \div n)
<1>1. PICK q, d : x = n * y + c /\ q = x \div n /\ d = c \div n
    OBVIOUS
<1>2. n * y \in Nat /\ x \in Nat
    BY <1>1
<1>3. /\ q \in Nat /\ d \in Nat /\ (x % n) \in Nat /\ (c % n) \in Nat
      /\ x = n * q + (x % n) /\ c = n * d + (c % n) /\ (x % n) < n /\ (c % n) < n
    BY <1>1, <1>2, DivMod
<1>4. PICK r, s : r = x % n /\ s = c % n
    OBVIOUS
<1>5. n * (y + d) = n * y + n * d /\ n * q \in Nat /\ n * d \in Nat
    BY <1>3
<1>6. CASE q < y + d
    <2>1. (q + 1) * n <= (y + d) * n
        BY <1>3, <1>6, Ordered
    <2>2. (q + 1) * n = n * q + n /\ (y + d) * n = n * (y + d)
        BY <1>3
    <2> QED
        BY <1>1, <1>2, <1>3, <1>4, <1>5, <2>1, <2>2
<1>7. CASE q > y + d
    <2>1. (y + d + 1) * n <= q * n
        BY <1>3, <1>7, Ordered
    <2>2. (y + d + 1) * n = n * (y + d) + n /\ q * n = n * q
        BY <1>3
    <2> QED
        BY <1>1, <1>2, <1>3, <1>4, <1>5, <2>1, <2>2
<1>8. q = y + d
    BY <1>3, <1>6, <1>7
<1> QED
    BY <1>1, <1>8

\* The azimuths of neighbouring groups differ.
LEMMA AzimuthsDiffer ==
    ASSUME lidar \in Lidars, IsMech, NEW g \in Nat
    PROVE  Azimuth(g + 1) # Azimuth(g)
<1>1. PICK i, j, d, w : /\ i = Azimuth(g) /\ j = Azimuth(g + 1) /\ d = AzimuthStep(g)
                        /\ w = (GroupsPerRound - 1) * GroupAngle
    OBVIOUS
<1>2. i \in Nat /\ j \in Nat
    BY <1>1, AngleOfGroup
<1>3. d = GroupAngle \/ d = RS_ONE_ROUND - w
    BY <1>1, NextGroup
<1>4. GroupAngle \in Nat /\ GroupAngle > 0
    BY FieldInGroups
<1>5. w \in Int /\ w < RS_ONE_ROUND
    <2>1. GroupsPerRound \in Nat /\ FieldRange \in Nat /\ FieldRange <= RS_ONE_ROUND /\ w < FieldRange
        BY <1>1, FieldInGroups
    <2>2. w \in Int
        BY <1>1, <1>4, <2>1
    <2> QED
        BY <2>1, <2>2 DEF RS_ONE_ROUND
<1>6. d > 0
    BY <1>3, <1>4, <1>5 DEF RS_ONE_ROUND
<1>7. j # i
    <2> SUFFICES ASSUME j = i PROVE FALSE
        OBVIOUS
    <2>1. j - i + 36000 = 36000
        BY <1>2
    <2>2. 36000 % 36000 = 0
        OBVIOUS
    <2>3. d = 0
        BY <1>1, <2>1, <2>2 DEF AzimuthStep
    <2> QED
        BY <1>6, <2>3
<1> QED
    BY <1>1, <1>7

\* A block iterator finds the groups that the blocks belong to.
LEMMA IteratorFindsGroups ==
    ASSUME lidar \in Lidars, IsMech, NEW p \in Nat, p > 0, NEW b \in 1..M.blocks
    PROVE  GroupOf(p, b) = GroupOf(p, 1) + GroupIn(M.iterator[Mode], Azimuths(p), b)
<1>1. PICK it, B, n : it = M.iterator[Mode] /\ B = M.blocks /\ n = it.per
    OBVIOUS
<1>2. B \in Nat /\ B > 0 /\ n \in Nat /\ n > 0 /\ b \in 1..B
    BY <1>1, FieldInGroups
<1>3. IF it.alternating THEN B = 3 /\ n = 2 ELSE B % n = 0
    BY <1>1, TimesType DEF Fits
<1>4. \A c \in 1..B : GroupOf(p, c) = ((p - 1) * B + c - 1) \div n
    BY <1>1 DEF GroupOf
<1>5. \A c \in 1..B : GroupOf(p, c) \in Nat
    BY <1>1, GroupsOfPacket
<1>6. CASE ~it.alternating
    <2>1. PICK j : j = B \div n
        OBVIOUS
    <2>2. j \in Nat /\ B = n * j
        BY <1>2, <1>3, <1>6, <2>1, DivMod
    <2>3. PICK y : y = (p - 1) * j
        OBVIOUS
    <2>4. y \in Nat /\ (p - 1) * B = n * y
        BY <1>2, <2>2, <2>3
    <2>5. ASSUME NEW c \in 1..B PROVE GroupOf(p, c) = y + ((c - 1) \div n)
        <3>1. PICK z : z = c - 1
            OBVIOUS
        <3>2. PICK x : x = (p - 1) * B + c - 1
            OBVIOUS
        <3>3. z \in Nat /\ x = n * y + z
            BY <1>2, <2>4, <3>1, <3>2
        <3>4. x \div n = y + (z \div n)
            BY <1>2, <2>4, <3>3, DivShift
        <3> QED
            BY <1>4, <3>1, <3>2, <3>4
    <2>6. 0 \div n = 0
        BY <1>2
    <2>7. GroupOf(p, 1) = y
        <3>1. 1 \in 1..B /\ 1 - 1 = 0
            BY <1>2
        <3> QED
            BY <2>4, <2>5, <2>6, <3>1
    <2>8. GroupIn(it, Azimuths(p), b) = (b - 1) \div n
        BY <1>1, <1>6 DEF GroupIn
    <2> QED
        BY <1>1, <1>2, <2>5, <2>7, <2>8
<1>7. CASE it.alternating
    <2>1. B = 3 /\ n = 2
        BY <1>3, <1>7
    <2>2. b = 1 \/ b = 2 \/ b = 3
        BY <1>2, <2>1
    <2>3. PICK x : x = (p - 1) * 3
        OBVIOUS
    <2>4. x \in Nat
        BY <2>3
    <2>5. GroupOf(p, 1) = x \div 2 /\ GroupOf(p, 2) = (x + 1) \div 2 /\ GroupOf(p, 3) = (x + 2) \div 2
        <3>1. 1 \in 1..B /\ 2 \in 1..B /\ 3 \in 1..B
            BY <2>1
        <3>2. x + 1 - 1 = x /\ x + 2 - 1 = x + 1 /\ x + 3 - 1 = x + 2
            BY <2>4
        <3> QED
            BY <1>4, <2>1, <2>3, <3>1, <3>2
    <2>6. /\ GroupOf(p, 3) = GroupOf(p, 1) + 1
          /\ GroupOf(p, 2) = GroupOf(p, 1) \/ GroupOf(p, 2) = GroupOf(p, 1) + 1
        BY <2>4, <2>5
    <2>7. Azimuths(p)[1] = Azimuth(GroupOf(p, 1)) /\ Azimuths(p)[2] = Azimuth(GroupOf(p, 2))
        <3>1. 1 \in 1..M.blocks /\ 2 \in 1..M.blocks
            BY <1>1, <2>1
        <3> QED
            BY <3>1 DEF Azimuths
    <2>8. GroupOf(p, 1) \in Nat
        BY <1>2, <1>5
    <2>9. GroupOf(p, 2) = GroupOf(p, 1) <=> Azimuths(p)[1] = Azimuths(p)[2]
        <3>1. GroupOf(p, 2) = GroupOf(p, 1) + 1 => Azimuths(p)[1] # Azimuths(p)[2]
            BY <2>7, <2>8, AzimuthsDiffer
        <3> QED
            BY <2>6, <2>7, <3>1
    <2>10. GroupIn(it, Azimuths(p), b) =
             IF Azimuths(p)[1] = Azimuths(p)[2] THEN b \div 3 ELSE (IF b = 1 THEN 0 ELSE 1)
        BY <1>7 DEF GroupIn
    <2>11. 1 \div 3 = 0 /\ 2 \div 3 = 0 /\ 3 \div 3 = 1
        OBVIOUS
    <2>12. CASE Azimuths(p)[1] = Azimuths(p)[2]
        <3>1. GroupIn(it, Azimuths(p), b) = b \div 3
            BY <2>10, <2>12
        <3> QED
            BY <1>1, <2>2, <2>6, <2>8, <2>9, <2>11, <2>12, <3>1
    <2>13. CASE Azimuths(p)[1] # Azimuths(p)[2]
        <3>1. GroupIn(it, Azimuths(p), b) = IF b = 1 THEN 0 ELSE 1
            BY <2>10, <2>13
        <3> QED
            BY <1>1, <2>2, <2>6, <2>8, <2>9, <2>13, <3>1
    <2> QED
        BY <2>12, <2>13
<1> QED
    BY <1>6, <1>7

\* A packet has a group of blocks after its k-th one.
InPacket(it, n, k) == k > 0 /\ (IF it.alternating THEN k = 1 ELSE k * it.per + 1 <= n)

\* The groups of these blocks.
LEMMA GroupsOfIterator ==
    ASSUME lidar \in Lidars, IsMech, NEW p \in Nat, p > 0, NEW it, it = M.iterator[Mode],
           NEW k \in Nat, InPacket(it, M.blocks, k)
    PROVE  /\ FirstBlock(it, k) \in 1..M.blocks /\ NextBlock(it, k) \in 1..M.blocks
           /\ GroupOf(p, FirstBlock(it, k)) = GroupOf(p, 1) + (k - 1)
           /\ GroupOf(p, NextBlock(it, k)) = GroupOf(p, 1) + k
<1>1. PICK B, n, g : B = M.blocks /\ n = it.per /\ g = GroupOf(p, 1)
    OBVIOUS
<1>2. B \in Nat /\ B > 0 /\ n \in Nat /\ n > 0
    BY <1>1, FieldInGroups
<1>3. IF it.alternating THEN B = 3 /\ n = 2 ELSE B % n = 0
    BY <1>1, TimesType DEF Fits
<1>4. g \in Nat
    <2>1. 1 \in 1..M.blocks
        BY <1>1, <1>2
    <2> QED
        BY <1>1, <2>1, GroupsOfPacket
<1>5. CASE it.alternating
    <2>1. B = 3 /\ n = 2 /\ k = 1
        BY <1>3, <1>5 DEF InPacket
    <2>2. FirstBlock(it, k) = 1 /\ NextBlock(it, k) = 3
        BY <1>5 DEF FirstBlock, NextBlock
    <2>3. 1 \in 1..M.blocks /\ 3 \in 1..M.blocks
        BY <1>1, <2>1
    <2>4. GroupOf(p, 3) = g + 1
        <3>1. PICK x : x = (p - 1) * 3
            OBVIOUS
        <3>2. x \in Nat
            BY <3>1
        <3>3. GroupOf(p, 1) = x \div 2 /\ GroupOf(p, 3) = (x + 2) \div 2
            <4>1. x + 1 - 1 = x /\ x + 3 - 1 = x + 2
                BY <3>2
            <4> QED
                BY <1>1, <2>1, <3>1, <4>1 DEF GroupOf
        <3> QED
            BY <1>1, <3>2, <3>3
    <2> QED
        BY <1>1, <1>4, <2>1, <2>2, <2>3, <2>4
<1>6. CASE ~it.alternating
    <2>1. PICK f, h : f = (k - 1) * n + 1 /\ h = k * n + 1
        OBVIOUS
    <2>2. k > 0 /\ h <= B /\ FirstBlock(it, k) = f /\ NextBlock(it, k) = h
        BY <1>1, <1>6, <2>1 DEF InPacket, FirstBlock, NextBlock
    <2>3. (k - 1) * n \in Nat /\ k * n = (k - 1) * n + n /\ (k - 1) * n = n * (k - 1) /\ k * n = n * k
        BY <1>2, <2>2
    <2>4. f \in 1..B /\ h \in 1..B /\ f - 1 = n * (k - 1) + 0 /\ h - 1 = n * k + 0
        BY <1>2, <2>1, <2>2, <2>3
    <2>5. 0 \div n = 0
        BY <1>2
    <2>6. (f - 1) \div n = k - 1 /\ (h - 1) \div n = k
        <3>1. PICK m, u, v : m = k - 1 /\ m \in Nat /\ u = f - 1 /\ v = h - 1
            BY <2>2
        <3>2. u = n * m + 0 /\ v = n * k + 0
            BY <2>4, <3>1
        <3>3. u \div n = m + (0 \div n) /\ v \div n = k + (0 \div n)
            BY <1>2, <3>1, <3>2, DivShift
        <3> QED
            BY <2>5, <3>1, <3>3
    <2>7. \A c : GroupIn(it, Azimuths(p), c) = (c - 1) \div n
        BY <1>1, <1>6 DEF GroupIn
    <2>8. GroupOf(p, f) = g + (k - 1) /\ GroupOf(p, h) = g + k
        BY <1>1, <2>4, <2>6, <2>7, IteratorFindsGroups
    <2> QED
        BY <1>1, <2>2, <2>4, <2>8
<1> QED
    BY <1>5, <1>6

\* What the decoder makes of the time between two groups: it is off once per
\* blind zone in between.
Measured(g, h) ==
    GroupTs(h) - GroupTs(g) + (h \div GroupsPerRound - g \div GroupsPerRound) * Error

\* It measures group by group.
LEMMA MeasuredType ==
    ASSUME lidar \in Lidars, IsMech, NEW g \in Nat, NEW h \in Nat
    PROVE  /\ Measured(g, h) \in Int /\ Measured(g, g) = 0
           /\ Measured(g, h + 1) = Measured(g, h) + Measured(h, h + 1)
<1>1. PICK n, e, a, b, c : /\ n = GroupsPerRound /\ e = Error
                           /\ a = g \div n /\ b = h \div n /\ c = (h + 1) \div n
    OBVIOUS
<1>2. a \in Nat /\ b \in Nat /\ c \in Nat /\ e \in Int
    BY <1>1, FieldInGroups, TimesType, DivMod
<1>3. PICK x, y, z : x = GroupTs(g) /\ y = GroupTs(h) /\ z = GroupTs(h + 1)
    OBVIOUS
<1>4. x \in Int /\ y \in Int /\ z \in Int
    BY <1>3, GroupTsType
<1>5. /\ Measured(g, h) = y - x + (b - a) * e /\ Measured(g, g) = x - x + (a - a) * e
      /\ Measured(g, h + 1) = z - x + (c - a) * e /\ Measured(h, h + 1) = z - y + (c - b) * e
    BY <1>1, <1>3, Zenon DEF Measured
<1>6. (c - a) * e = (b - a) * e + (c - b) * e /\ (b - a) * e \in Int /\ (c - b) * e \in Int
      /\ (a - a) * e = 0
    BY <1>2
<1>7. PICK u, v, w, o : /\ u = (b - a) * e /\ v = (c - b) * e /\ w = (c - a) * e
                        /\ o = (a - a) * e
    OBVIOUS
<1>8. u \in Int /\ v \in Int /\ w = u + v /\ o = 0
    BY <1>6, <1>7
<1>9. /\ Measured(g, h) = y - x + u /\ Measured(g, g) = x - x + o
      /\ Measured(g, h + 1) = z - x + w /\ Measured(h, h + 1) = z - y + v
    BY <1>5, <1>7, Zenon
<1> QED
    BY ONLY <1>4, <1>8, <1>9

\* From group to group it is GroupTime's firing or blind zone.
LEMMA MeasuredNext ==
    ASSUME lidar \in Lidars, IsMech, NEW g \in Nat
    PROVE  Measured(g, g + 1) =
             IF AzimuthStep(g) > MAX_AZ_DIFF
             THEN BlindTime(lidar.rps) ELSE GroupDuration
<1>1. PICK n, e, a, b, x, y, d : /\ n = GroupsPerRound /\ e = Error
                                 /\ a = g \div n /\ b = (g + 1) \div n
                                 /\ x = GroupTs(g) /\ y = GroupTs(g + 1)
                                 /\ d = AzimuthStep(g)
    OBVIOUS
<1>2. a \in Nat /\ b \in Nat /\ e \in Int /\ x \in Int /\ y \in Int
    BY <1>1, FieldInGroups, TimesType, DivMod, GroupTsType
<1>3. Measured(g, g + 1) = y - x + (b - a) * e
    BY <1>1, Zenon DEF Measured
<1>4. GroupDuration \in Int /\ Rest \in Int /\ Crossed \in Int /\ e = Crossed - Rest
      /\ GroupAngle <= 100 /\ GroupAngle \in Nat
    BY <1>1, TimesType, FieldInGroups DEF Error
<1>5. \/ b = a /\ y = x + GroupDuration /\ d = GroupAngle
      \/ b = a + 1 /\ y = x + Rest /\ d = RS_ONE_ROUND - (GroupsPerRound - 1) * GroupAngle
    BY <1>1, NextGroup
<1>6. CASE b = a /\ y = x + GroupDuration /\ d = GroupAngle
    <2>1. b - a = 0 /\ 0 * e = 0
        BY <1>2, <1>6
    <2>2. Measured(g, g + 1) = GroupDuration
        BY <1>2, <1>3, <1>4, <1>6, <2>1
    <2>3. ~(d > MAX_AZ_DIFF)
        BY <1>4, <1>6 DEF MAX_AZ_DIFF
    <2> QED
        BY <1>1, <2>2, <2>3
<1>7. CASE b = a + 1 /\ y = x + Rest /\ d = RS_ONE_ROUND - (GroupsPerRound - 1) * GroupAngle
    <2>1. b - a = 1 /\ 1 * e = e
        BY <1>2, <1>7
    <2>2. Measured(g, g + 1) = Crossed
        BY <1>2, <1>3, <1>4, <1>7, <2>1
    <2> QED
        BY <1>1, <1>7, <2>2 DEF Crossed
<1> QED
    BY <1>5, <1>6, <1>7, Zenon

\* The blocks of a packet of a described lidar are timed as measured.
LEMMA OffsetsMeasure ==
    ASSUME lidar \in Lidars, IsMech, NEW p \in Nat, p > 0, NEW b \in 1..M.blocks,
           NEW it, it = M.iterator[Mode]
    PROVE  BlockOffsets(it, Azimuths(p), M.actual.duration, BlindTime(lidar.rps))[b]
             = Measured(GroupOf(p, 1), GroupOf(p, b))
<1>1. PICK B, az, t, bl, g, n : /\ B = M.blocks /\ az = Azimuths(p) /\ t = M.actual.duration
                                /\ bl = BlindTime(lidar.rps) /\ g = GroupOf(p, 1) /\ n = it.per
    OBVIOUS
<1>2. /\ B \in Nat /\ B > 0 /\ n \in Nat /\ n > 0 /\ t \in Nat /\ bl \in Int
      /\ Grouping(it) /\ GroupDuration = it.scale * t
    BY <1>1, FieldInGroups, TimesType, LidarType DEF MechanicalOK, Times, GroupDuration
<1>3. \A c \in 1..B : GroupOf(p, c) \in Nat /\ az[c] = Azimuth(GroupOf(p, c))
    BY <1>1, GroupsOfPacket DEF Azimuths
<1>4. az \in Angles(B) /\ g \in Nat
    <2>1. \A c \in 1..B : Azimuth(GroupOf(p, c)) \in Int
        BY <1>3, AngleOfGroup
    <2>2. 1 \in 1..B
        BY <1>2
    <2> QED
        BY <1>1, <1>3, <2>1, <2>2 DEF Angles, Azimuths
<1>5. PICK offset : SumsOf(it, B, az, t, bl, offset)
    <2>1. t \in Int
        BY <1>2
    <2> QED
        BY <1>2, <1>4, <2>1, OffsetFunction, Zenon
<1>6. ASSUME NEW k \in Nat, InPacket(it, B, k)
      PROVE  /\ k \in 1..B
             /\ GroupTime(it, az, t, bl, FirstBlock(it, k), NextBlock(it, k))
                  = Measured(g + (k - 1), g + k)
    <2>1. k \in 1..B
        <3>1. CASE it.alternating
            <4>1. B = 3
                BY <1>1, <3>1, TimesType DEF Fits
            <4> QED
                BY <1>6, <3>1, <4>1 DEF InPacket
        <3>2. CASE ~it.alternating
            <4>1. k > 0 /\ k * n + 1 <= B
                BY <1>1, <1>6, <3>2 DEF InPacket
            <4>2. k * 1 <= k * n
                <5>1. PICK m \in Nat : n = m + 1
                    <6>1. n - 1 \in Nat /\ n = (n - 1) + 1
                        BY <1>2
                    <6> QED
                        BY <6>1
                <5>2. k * (m + 1) = k * m + k /\ k * m \in Nat
                    BY <5>1
                <5> QED
                    BY <5>1, <5>2
            <4>3. k * n \in Nat /\ k * 1 = k
                BY <1>2
            <4> QED
                BY <1>2, <4>1, <4>2, <4>3
        <3> QED
            BY <3>1, <3>2
    <2>2. PICK i, j, h : i = FirstBlock(it, k) /\ j = NextBlock(it, k) /\ h = g + (k - 1)
        OBVIOUS
    <2>3. /\ i \in 1..B /\ j \in 1..B /\ GroupOf(p, i) = h /\ GroupOf(p, j) = g + k
        BY <1>1, <1>6, <2>2, GroupsOfIterator
    <2>4. h \in Nat /\ g + k = h + 1
        BY <1>4, <2>1, <2>2
    <2>5. az[i] = Azimuth(h) /\ az[j] = Azimuth(h + 1)
        BY <1>3, <2>3, <2>4
    <2>6. GroupTime(it, az, t, bl, i, j) =
            IF AzimuthStep(h) > MAX_AZ_DIFF THEN bl ELSE it.scale * t
        <3>1. PICK d : d = (az[j] - az[i] + 36000) % 36000
            OBVIOUS
        <3>2. GroupTime(it, az, t, bl, i, j) = IF d > MAX_AZ_DIFF THEN bl ELSE it.scale * t
            BY ONLY <3>1 DEF GroupTime
        <3>3. d = AzimuthStep(h)
            BY ONLY <2>5, <3>1 DEF AzimuthStep
        <3> QED
            BY <3>2, <3>3, Zenon
    <2>7. GroupTime(it, az, t, bl, i, j) = Measured(h, h + 1)
        BY <1>1, <1>2, <2>4, <2>6, MeasuredNext
    <2> QED
        BY <2>1, <2>2, <2>4, <2>7
<1>7. \A k \in Nat : k = 0 \/ InPacket(it, B, k) => offset[k] = Measured(g, g + k)
    <2> DEFINE S == {k \in Nat : k = 0 \/ InPacket(it, B, k) => offset[k] = Measured(g, g + k)}
    <2>1. 0 \in S
        <3>1. Measured(g, g) = 0 /\ g + 0 = g
            BY <1>4, MeasuredType
        <3> QED
            BY <1>5, <3>1 DEF SumsOf
    <2>2. ASSUME NEW k \in Nat, k \in S PROVE k + 1 \in S
        <3> SUFFICES ASSUME InPacket(it, B, k + 1) PROVE offset[k + 1] = Measured(g, g + (k + 1))
            OBVIOUS
        <3>1. k = 0 \/ InPacket(it, B, k)
            <4>1. CASE it.alternating
                BY <4>1 DEF InPacket
            <4>2. CASE ~it.alternating
                <5>1. (k + 1) * n + 1 <= B /\ (k + 1) * n = k * n + n /\ k * n \in Nat
                    <6>1. (k + 1) * n + 1 <= B
                        BY <1>1, <4>2, Zenon DEF InPacket
                    <6>2. (k + 1) * n = k * n + n /\ k * n \in Nat
                        BY <1>2
                    <6> QED
                        BY <6>1, <6>2
                <5>2. k * n + 1 <= B
                    BY <1>2, <5>1
                <5> QED
                    BY <1>1, <4>2, <5>2 DEF InPacket
            <4> QED
                BY <4>1, <4>2
        <3>2. offset[k] = Measured(g, g + k)
            BY <2>2, <3>1
        <3>3. /\ k + 1 \in 1..B /\ (k + 1) - 1 = k
              /\ GroupTime(it, az, t, bl, FirstBlock(it, k + 1), NextBlock(it, k + 1))
                   = Measured(g + k, g + (k + 1))
            BY <1>6
        <3>4. offset[k + 1] = Measured(g, g + k) + Measured(g + k, g + (k + 1))
            BY <1>5, <3>2, <3>3 DEF SumsOf
        <3>5. g + k \in Nat /\ g + (k + 1) = (g + k) + 1
            BY <1>4
        <3> QED
            BY <1>4, <3>4, <3>5, MeasuredType
    <2> HIDE DEF S
    <2>3. Nat \subseteq S
        BY <2>1, <2>2, SetInduction
    <2> QED
        BY <2>3 DEF S
<1>8. PICK m : m = GroupIn(it, az, b)
    OBVIOUS
<1>9. m \in Nat /\ (m = 0 \/ InPacket(it, B, m))
    <2>1. m \in Nat
        BY <1>1, <1>2, <1>8, GroupInType
    <2>2. CASE it.alternating
        <3>1. B = 3
            BY <1>1, <2>2, TimesType DEF Fits
        <3>2. m = IF az[1] = az[2] THEN b \div 3 ELSE (IF b = 1 THEN 0 ELSE 1)
            BY <1>8, <2>2 DEF GroupIn
        <3>3. b \in 1..3
            BY <1>1, <3>1
        <3>4. b \div 3 = 0 \/ b \div 3 = 1
            BY <3>3
        <3>5. m = 0 \/ m = 1
            BY <3>2, <3>4
        <3> QED
            BY <2>1, <2>2, <3>5 DEF InPacket
    <2>3. CASE ~it.alternating
        <3>1. m = (b - 1) \div n
            BY <1>1, <1>8, <2>3 DEF GroupIn
        <3>2. b - 1 \in Nat /\ b <= B
            BY <1>1
        <3>3. b - 1 = n * m + ((b - 1) % n) /\ ((b - 1) % n) \in Nat
            BY <1>2, <3>1, <3>2, DivMod
        <3>4. n * m = m * n /\ n * m \in Nat
            BY <1>2, <2>1
        <3>5. m * n + 1 <= B
            BY <1>2, <3>2, <3>3, <3>4
        <3> QED
            BY <1>1, <2>1, <2>3, <3>5 DEF InPacket
    <2> QED
        BY <2>2, <2>3
<1>10. BlockOffsets(it, az, t, bl)[b] = Measured(g, g + m)
    BY <1>1, <1>5, <1>7, <1>8, <1>9 DEF SumsOf
<1>11. GroupOf(p, b) = g + m
    BY <1>1, <1>8, IteratorFindsGroups
<1> QED
    BY <1>1, <1>10, <1>11

\* A quotient of a sum.
LEMMA DivSum ==
    ASSUME NEW n \in Nat, n > 0, NEW x \in Nat, NEW d \in Nat, NEW y, y = x + d
    PROVE  y \div n <= (x \div n) + (d \div n) + 1
<1>1. PICK p, q, r : y = x + d /\ p = x \div n /\ q = d \div n /\ r = y \div n
    OBVIOUS
<1>2. y \in Nat
    BY <1>1
<1>3. /\ p \in Nat /\ q \in Nat /\ r \in Nat
      /\ x = n * p + (x % n) /\ d = n * q + (d % n) /\ y = n * r + (y % n)
      /\ x % n \in Nat /\ d % n \in Nat /\ y % n \in Nat /\ x % n < n /\ d % n < n /\ y % n < n
    BY <1>1, <1>2, DivMod
<1>4. PICK a, b, c : a = x % n /\ b = d % n /\ c = y % n
    OBVIOUS
<1>5. CASE p + q + 2 <= r
    <2>1. (p + q + 2) * n <= r * n
        BY <1>3, <1>5, Ordered
    <2>2. (p + q + 2) * n = n * p + n * q + n + n /\ r * n = n * r
        BY <1>3
    <2>3. n * p \in Nat /\ n * q \in Nat /\ n * r \in Nat
        BY <1>3
    <2> QED
        BY <1>1, <1>3, <1>4, <2>1, <2>2, <2>3
<1>6. r <= p + q + 1
    BY <1>3, <1>5
<1> QED
    BY <1>1, <1>6

\* How often a packet can cross the blind zone.
Crossings == 1 + (M.blocks \div GroupsPerRound)

\* So often crossed, it is off by up to two firings.
BlindZoneTimed ==
    /\ Crossings * Error <= 2 * GroupDuration
    /\ Crossings * (-Error) <= 2 * GroupDuration

\* The last channel of a block, and how late the decoder may take it to be.
LastChannel == M.actual.last[Mode]
Latest == (IF Error > 0 THEN Crossings * Error ELSE 0) + LastChannel

\* It comes before the next firing, as timed by the lidar and by the decoder.
FiringsApart == Latest <= GroupDuration /\ Latest <= Rest /\ Latest <= Crossed

\* The time that the decoder gives to a block.
BlockTs(p, b) == GroupTs(GroupOf(p, 1)) + Measured(GroupOf(p, 1), GroupOf(p, b))

\* The time that a block is off.
LEMMA BlockOff ==
    ASSUME lidar \in Lidars, IsMech, NEW p \in Nat, p > 0, NEW b \in 1..M.blocks,
           NEW g, g = GroupOf(p, b)
    PROVE  /\ BlockTs(p, b) \in Int /\ GroupTs(g) \in Int /\ Latest \in Int
           /\ BlindZoneTimed => /\ BlockTs(p, b) - GroupTs(g) <= 2 * GroupDuration
                                /\ GroupTs(g) - BlockTs(p, b) <= 2 * GroupDuration
           /\ LastChannel \in Nat /\ 0 <= Latest
           /\ BlockTs(p, b) + LastChannel <= GroupTs(g) + Latest
<1>1. PICK f, n, e, B, q, r, C, D :
         /\ f = GroupOf(p, 1) /\ n = GroupsPerRound /\ e = Error /\ B = M.blocks
         /\ q = f \div n /\ r = g \div n /\ C = Crossings /\ D = GroupDuration
    OBVIOUS
<1>2. n \in Nat /\ n > 0 /\ B \in Nat /\ B > 0 /\ e \in Int /\ D \in Nat
    BY <1>1, FieldInGroups, TimesType
<1>3. f \in Nat /\ g \in Nat /\ f <= g /\ g <= f + B
    <2>1. 1 \in 1..M.blocks
        BY <1>1, <1>2
    <2>2. f \in Nat /\ g \in Nat /\ f <= g
        BY <1>1, <2>1, GroupsOfPacket
    <2>3. PICK m : m = GroupIn(M.iterator[Mode], Azimuths(p), b)
        OBVIOUS
    <2>4. m \in 0..B
        BY <1>1, <1>2, <2>3, GroupInType, LidarType DEF MechanicalOK
    <2>5. g = f + m
        BY <1>1, <2>3, IteratorFindsGroups
    <2> QED
        BY <1>2, <2>2, <2>4, <2>5
<1>4. q \in Nat /\ r \in Nat /\ q <= r
    BY <1>1, <1>2, <1>3, DivMod, DivMonotone
<1>5. C \in Nat /\ r <= q + C
    <2>1. PICK k : k = B \div n
        OBVIOUS
    <2>2. k \in Nat /\ C = 1 + k
        BY <1>1, <1>2, <2>1, DivMod DEF Crossings
    <2>3. PICK l : l = f + B /\ l \in Nat
        BY <1>2, <1>3
    <2>4. r <= l \div n
        BY <1>1, <1>2, <1>3, <2>3, DivMonotone
    <2>5. l \div n <= (f \div n) + (B \div n) + 1
        BY <1>2, <1>3, <2>3, DivSum
    <2>6. l \div n \in Nat
        BY <1>2, <2>3, DivMod
    <2> QED
        BY <1>1, <1>4, <2>1, <2>2, <2>4, <2>5, <2>6
<1>6. PICK x, y, z, c : x = GroupTs(f) /\ y = GroupTs(g) /\ z = BlockTs(p, b) /\ c = r - q
    OBVIOUS
<1>7. x \in Int /\ y \in Int /\ c \in Nat /\ c <= C
    BY <1>1, <1>3, <1>4, <1>5, <1>6, GroupTsType
<1>8. PICK w, W, V : w = c * e /\ W = C * e /\ V = C * (-e)
    OBVIOUS
<1>9. w \in Int /\ W \in Int /\ V \in Int
    BY <1>2, <1>5, <1>7, <1>8
<1>10. z = y + w
    <2>1. z = x + Measured(f, g)
        BY <1>1, <1>6 DEF BlockTs
    <2>2. Measured(f, g) = y - x + (r - q) * e
        BY <1>1, <1>6, Zenon DEF Measured
    <2>3. (r - q) * e = w
        BY <1>6, <1>8
    <2> QED
        BY <1>7, <1>9, <2>1, <2>2, <2>3
<1>11. /\ e >= 0 => 0 <= w /\ w <= W
       /\ e < 0 => w <= 0 /\ -w <= V
    <2>1. CASE e >= 0
        <3>1. e \in Nat
            BY <1>2, <2>1
        <3>2. c * e <= C * e
            BY <1>5, <1>7, <3>1, Ordered
        <3>3. c * e \in Nat
            BY <1>7, <3>1
        <3> QED
            BY <1>8, <3>1, <3>2, <3>3
    <2>2. CASE e < 0
        <3>1. PICK m \in Nat : m = -e
            BY <1>2, <2>2
        <3>2. c * m <= C * m
            BY <1>5, <1>7, Ordered
        <3>3. c * m \in Nat /\ w = -(c * m) /\ V = C * m
            <4>1. e = -m
                BY <1>2, <3>1
            <4>2. c * (-m) = -(c * m)
                BY <1>7
            <4> QED
                BY <1>7, <1>8, <3>1, <4>1, <4>2
        <3> QED
            BY <1>2, <1>9, <2>2, <3>2, <3>3
    <2> QED
        BY <1>2, <2>1, <2>2
<1>12. BlindZoneTimed => W <= 2 * D /\ V <= 2 * D
    BY <1>1, <1>8 DEF BlindZoneTimed
<1>13. LastChannel \in Nat /\ Latest = (IF e > 0 THEN W ELSE 0) + LastChannel
    BY <1>1, <1>8, LidarType DEF MechanicalOK, Times, LastChannel, Latest
<1>14. Latest \in Int /\ 0 <= Latest /\ w + LastChannel <= Latest
    <2>1. e = 0 => W = 0
        BY <1>5, <1>8
    <2>2. PICK l, k : l = LastChannel /\ k = Latest
        OBVIOUS
    <2>3. l \in Nat /\ k = (IF e > 0 THEN W ELSE 0) + l
        BY <1>13, <2>2
    <2>4. CASE e > 0
        <3>1. k = W + l
            BY <2>3, <2>4
        <3> QED
            BY <1>2, <1>9, <1>11, <2>2, <2>3, <2>4, <3>1
    <2>5. CASE ~(e > 0)
        <3>1. k = 0 + l
            BY <2>3, <2>5
        <3> QED
            BY <1>2, <1>9, <1>11, <2>1, <2>2, <2>3, <2>5, <3>1
    <2> QED
        BY <2>4, <2>5
<1>15. BlindZoneTimed => z - y <= 2 * D /\ y - z <= 2 * D
    BY <1>2, <1>7, <1>9, <1>10, <1>11, <1>12
<1>16. z \in Int /\ z + LastChannel <= y + Latest
    BY <1>7, <1>9, <1>10, <1>13, <1>14
<1>17. /\ z = BlockTs(p, b) /\ y = GroupTs(g) /\ D = GroupDuration
    BY <1>1, <1>6
<1>18. y \in Int /\ LastChannel \in Nat
    BY <1>7, <1>13
<1>19. ASSUME BlindZoneTimed
       PROVE  /\ BlockTs(p, b) - GroupTs(g) <= 2 * GroupDuration
              /\ GroupTs(g) - BlockTs(p, b) <= 2 * GroupDuration
    BY <1>15, <1>17, <1>19
<1>20. BlockTs(p, b) \in Int /\ BlockTs(p, b) + LastChannel <= GroupTs(g) + Latest
    BY <1>16, <1>17
<1>21. GroupTs(g) \in Int
    BY <1>17, <1>18
<1> QED
    BY <1>14, <1>18, <1>19, <1>20, <1>21, Zenon

\* From group to group a firing or the blind zone passes.
LEMMA GroupTsStep ==
    ASSUME lidar \in Lidars, IsMech, NEW g \in Nat
    PROVE  /\ GroupTs(g) \in Nat \/ ~FiringsApart
           /\ FiringsApart => GroupTs(g) + Latest <= GroupTs(g + 1)
           /\ Measured(g, g + 1) = GroupDuration \/ Measured(g, g + 1) = Crossed
<1>1. GroupTs(g) \in Nat
    <2>1. PICK n, R, D, q, r : /\ n = GroupsPerRound /\ R = RoundTime /\ D = GroupDuration
                               /\ q = g \div n /\ r = g % n
        OBVIOUS
    <2>2. n \in Nat /\ n > 0 /\ R \in Nat /\ D \in Nat
        BY <2>1, FieldInGroups, TimesType
    <2>3. q \in Nat /\ r \in Nat
        BY <2>1, <2>2, DivMod
    <2>4. q * R \in Nat /\ r * D \in Nat
        BY <2>2, <2>3
    <2>5. GroupTs(g) = R + q * R + r * D
        BY <2>1 DEF GroupTs
    <2> QED
        BY <2>2, <2>4, <2>5
<1>2. FiringsApart => GroupTs(g) + Latest <= GroupTs(g + 1)
    <2>1. GroupTs(g + 1) = GroupTs(g) + GroupDuration \/ GroupTs(g + 1) = GroupTs(g) + Rest
        BY NextGroup
    <2>2. GroupDuration \in Int /\ Rest \in Int /\ Latest \in Int
        <3>1. 1 \in 1..M.blocks /\ 1 \in Nat /\ 1 > 0
            BY FieldInGroups
        <3> QED
            BY <3>1, TimesType, BlockOff
    <2> QED
        BY <1>1, <2>1, <2>2 DEF FiringsApart
<1>3. Measured(g, g + 1) = GroupDuration \/ Measured(g, g + 1) = Crossed
    <2>1. CASE AzimuthStep(g) = GroupAngle
        <3>1. ~(AzimuthStep(g) > MAX_AZ_DIFF)
            BY <2>1, TimesType, FieldInGroups DEF MAX_AZ_DIFF
        <3> QED
            BY <3>1, MeasuredNext
    <2>2. CASE AzimuthStep(g) = RS_ONE_ROUND - (GroupsPerRound - 1) * GroupAngle
        BY <2>2, MeasuredNext DEF Crossed
    <2> QED
        BY <2>1, <2>2, NextGroup
<1> QED
    BY <1>1, <1>2, <1>3

\* Later groups are fired after the last channel of a group.
LEMMA LaterGroup ==
    ASSUME lidar \in Lidars, IsMech, FiringsApart, NEW g \in Nat, NEW h \in Nat, g < h
    PROVE  GroupTs(g) + Latest <= GroupTs(h)
<1> DEFINE S == {k \in Nat : GroupTs(g) + Latest <= GroupTs(g + k + 1)}
<1>1. Latest \in Int /\ 0 <= Latest
    <2>1. 1 \in 1..M.blocks /\ 1 \in Nat /\ 1 > 0
        BY FieldInGroups
    <2> QED
        BY <2>1, BlockOff
<1>2. 0 \in S
    <2>1. g + 0 + 1 = g + 1
        OBVIOUS
    <2> QED
        BY <2>1, GroupTsStep
<1>3. ASSUME NEW k \in Nat, k \in S PROVE k + 1 \in S
    <2>1. PICK i : i = g + k + 1
        OBVIOUS
    <2>2. i \in Nat /\ g + (k + 1) + 1 = i + 1
        BY <2>1
    <2>3. /\ GroupTs(i) + Latest <= GroupTs(i + 1) /\ GroupTs(g) + Latest <= GroupTs(i)
          /\ GroupTs(g) \in Int /\ GroupTs(i) \in Int /\ GroupTs(i + 1) \in Int
        BY <1>3, <2>1, <2>2, GroupTsStep, GroupTsType
    <2>4. GroupTs(g) + Latest <= GroupTs(i + 1)
        BY <1>1, <2>3
    <2> QED
        BY <2>2, <2>4
<1> HIDE DEF S
<1>4. Nat \subseteq S
    BY <1>2, <1>3, SetInduction
<1>5. h - g - 1 \in Nat /\ g + (h - g - 1) + 1 = h
    OBVIOUS
<1> QED
    BY <1>4, <1>5 DEF S

\* Nor does a block of the next group of a packet come before that.
LEMMA NextBlockTs ==
    ASSUME lidar \in Lidars, IsMech, NEW p \in Nat, p > 0, NEW b \in 1..M.blocks, b > 1
    PROVE  \/ GroupOf(p, b) = GroupOf(p, b - 1) /\ BlockTs(p, b) = BlockTs(p, b - 1)
           \/ /\ GroupOf(p, b) = GroupOf(p, b - 1) + 1
              /\ FiringsApart => BlockTs(p, b - 1) + Latest <= BlockTs(p, b)
<1>1. PICK f, g, h : f = GroupOf(p, 1) /\ g = GroupOf(p, b - 1) /\ h = GroupOf(p, b)
    OBVIOUS
<1>2. f \in Nat /\ g \in Nat /\ h \in Nat /\ (h = g \/ h = g + 1)
    <2>1. 1 \in 1..M.blocks /\ b - 1 \in 1..M.blocks
        BY FieldInGroups
    <2> QED
        BY <1>1, <2>1, GroupsOfPacket
<1>3. BlockTs(p, b) = GroupTs(f) + Measured(f, h) /\ BlockTs(p, b - 1) = GroupTs(f) + Measured(f, g)
    BY <1>1 DEF BlockTs
<1>4. CASE h = g
    BY <1>1, <1>3, <1>4
<1>5. CASE h = g + 1
    <2>1. Measured(f, h) = Measured(f, g) + Measured(g, h) /\ Measured(f, g) \in Int
        BY <1>2, <1>5, MeasuredType
    <2>2. Measured(g, h) = GroupDuration \/ Measured(g, h) = Crossed
        BY <1>2, <1>5, GroupTsStep
    <2>3. GroupDuration \in Int /\ Crossed \in Int /\ GroupTs(f) \in Int /\ Latest \in Int
        <3>1. 1 \in 1..M.blocks /\ 1 \in Nat /\ 1 > 0
            BY FieldInGroups
        <3> QED
            BY <1>2, <3>1, TimesType, GroupTsType, BlockOff
    <2>4. FiringsApart => BlockTs(p, b - 1) + Latest <= BlockTs(p, b)
        BY <1>3, <2>1, <2>2, <2>3 DEF FiringsApart
    <2> QED
        BY <1>1, <1>5, <2>4
<1> QED
    BY <1>2, <1>4, <1>5

\* A block of group h joined the cloud c, which is d's or the one after it.
Joined(d, e, h, ts, last, c) ==
    /\ \/ c = d.cloud /\ e.out = d.out
       \/ c = NoCloud /\ e.out = SplitFrame(d).out
    /\ e.cloud.to \in {c.to, ts + last}
    /\ e.cloud.timed = (c.timed /\ described)
    /\ e.cloud.sorted = (c.sorted /\ (c.frames = {} \/ h = c.group \/ ts >= c.to))

\* What a block does to the cloud.
LEMMA BlockShape ==
    ASSUME lidar \in Lidars, IsMech, NEW d \in Records, NEW p \in Nat, p > 0, NEW b \in 1..M.blocks,
           NEW az \in Int, NEW ts \in Int, NEW last \in Nat,
           NEW e, e = DecodeBlock(d, p, b, az, ts, last), NEW h, h = GroupOf(p, b)
    PROVE  /\ e.cloud.group = h
           /\ e.skew \in {d.skew, ts - GroupTs(h), GroupTs(h) - ts}
           /\ \E c \in Clouds : Joined(d, e, h, ts, last, c)
<1> DEFINE split == ByAngle(SplitAngle, d.prevAngle, az).split
           a == Turn(d, h, az, ts, split)
           f == RoundOf(h)
<1>1. h \in Nat /\ f \in Int
    BY GroupsOfPacket, AngleOfGroup
<1>2. split \in BOOLEAN /\ ByAngle(SplitAngle, d.prevAngle, az).prev = az
    BY DEF ByAngle
<1>3. e = AddPoints(a, f, h, ts, ts + last)
    BY <1>2 DEF DecodeBlock, Turn
<1> HIDE DEF split
<1>4. /\ a \in Records
      /\ a.cloud = IF split THEN SplitFrame(d).cloud ELSE d.cloud
      /\ a.out = IF split THEN SplitFrame(d).out ELSE d.out
    <2>1. PICK s : s = split
        OBVIOUS
    <2>2. s \in BOOLEAN
        BY <1>2, <2>1
    <2> QED
        BY <1>1, <2>1, <2>2, TurnType
<1>5. a.skew \in {d.skew, ts - GroupTs(h), GroupTs(h) - ts}
    <2>1. SplitFrame(d).skew = d.skew /\ SplitFrame(d) \in Records
        <3>1. lidar.set.tsFirst \in BOOLEAN
            BY LidarType
        <3>2. SplitFrame(d) \in Records
            BY <3>1, SplitFrameType
        <3> QED
            BY <3>2 DEF SplitFrame, Records
    <2>2. PICK x : x = IF split THEN [SplitFrame(d) EXCEPT !.firstTs = ts] ELSE d
        OBVIOUS
    <2>3. x \in Records /\ x.skew = d.skew
        BY <2>1, <2>2 DEF Records
    <2>4. a.skew = Max({x.skew, ts - GroupTs(h), GroupTs(h) - ts})
        BY <2>2, <2>3 DEF Turn, Records
    <2>5. PICK u, v, w : u = x.skew /\ v = ts - GroupTs(h) /\ w = GroupTs(h) - ts
        OBVIOUS
    <2>6. u \in Int /\ v \in Int /\ w \in Int
        <3>1. x.skew \in Int
            BY <2>3 DEF Records
        <3>2. GroupTs(h) \in Int
            BY <1>1, GroupTsType
        <3> QED
            BY <2>5, <3>1, <3>2
    <2>7. Max({u, v, w}) \in {u, v, w}
        BY <2>6, MaxOfThree
    <2>8. a.skew \in {u, v, w}
        BY <2>4, <2>5, <2>7, Zenon
    <2>9. u = d.skew
        BY <2>3, <2>5
    <2> QED
        BY <2>5, <2>8, <2>9, Zenon
<1>6. PICK c : c = a.cloud
    OBVIOUS
<1>7. c \in Clouds
    BY <1>4, <1>6 DEF Records
<1> HIDE DEF a, f
<1>8. PICK n : n = [frames |-> c.frames \cup {f},
                    from   |-> IF c.frames = {} THEN ts ELSE Min({c.from, ts}),
                    to     |-> Max({c.to, ts + last}),
                    group  |-> h,
                    timed  |-> c.timed /\ described,
                    sorted |-> c.sorted /\ (c.frames = {} \/ h = c.group \/ ts >= c.to)]
    OBVIOUS
<1>9. e = [a EXCEPT !.cloud = n, !.prevTs = ts + last]
    BY <1>3, <1>6, <1>8 DEF AddPoints
<1>10. e.cloud = n /\ e.skew = a.skew /\ e.out = a.out
    BY <1>4, <1>9 DEF Records
<1>11. /\ n.group = h /\ n.to = Max({c.to, ts + last}) /\ n.timed = (c.timed /\ described)
       /\ n.sorted = (c.sorted /\ (c.frames = {} \/ h = c.group \/ ts >= c.to))
    BY <1>8
<1>12. Max({c.to, ts + last}) \in {c.to, ts + last}
    <2>1. PICK u, v : u = c.to /\ v = ts + last
        OBVIOUS
    <2>2. u \in Int /\ v \in Int
        BY <1>7, <2>1 DEF Clouds
    <2>3. \E x \in {u, v} : \A y \in {u, v} : x >= y
        BY <2>2
    <2>4. Max({u, v}) \in {u, v}
        BY <2>3 DEF Max
    <2> QED
        BY <2>1, <2>4
<1>13. \/ c = d.cloud /\ e.out = d.out
       \/ c = NoCloud /\ e.out = SplitFrame(d).out
    <2>1. CASE split
        <3>1. SplitFrame(d).cloud = NoCloud \/ (SplitFrame(d) = d)
            BY NoCloudType DEF SplitFrame, Records
        <3> QED
            BY <1>4, <1>6, <1>10, <2>1, <3>1
    <2>2. CASE ~split
        BY <1>4, <1>6, <1>10, <2>2
    <2> QED
        BY <2>1, <2>2
<1>14. Joined(d, e, h, ts, last, c)
    BY <1>10, <1>11, <1>12, <1>13 DEF Joined
<1> QED
    BY <1>5, <1>7, <1>10, <1>11, <1>14

\* The clouds that were timed are in order.
AllInOrder(o) == \A i \in DOMAIN o : o[i].cloud.timed => o[i].cloud.sorted

\* A cloud is handed over as it is.
LEMMA SplitKeepsOrder ==
    ASSUME NEW d \in Records, AllInOrder(d.out), d.cloud.timed => d.cloud.sorted
    PROVE  AllInOrder(SplitFrame(d).out)
<1>1. CASE d.cloud.frames = {}
    BY <1>1 DEF SplitFrame
<1>2. CASE d.cloud.frames # {}
    <2>1. PICK h : h = [cloud |-> d.cloud, ts |-> IF lidar.set.tsFirst THEN d.firstTs ELSE d.prevTs]
        OBVIOUS
    <2>2. SplitFrame(d).out = Append(d.out, h) /\ h.cloud = d.cloud
        BY <1>2, <2>1 DEF SplitFrame, Records
    <2>3. d.out \in Seq(Handed)
        BY DEF Records
    <2>4. /\ DOMAIN Append(d.out, h) = 1..Len(d.out) + 1 /\ DOMAIN d.out = 1..Len(d.out)
          /\ Append(d.out, h)[Len(d.out) + 1] = h /\ Len(d.out) \in Nat
          /\ \A i \in 1..Len(d.out) : Append(d.out, h)[i] = d.out[i]
        BY <2>3
    <2>5. ASSUME NEW i \in DOMAIN Append(d.out, h), Append(d.out, h)[i].cloud.timed
          PROVE  Append(d.out, h)[i].cloud.sorted
        <3>1. i = Len(d.out) + 1 \/ i \in 1..Len(d.out)
            BY <2>4
        <3> QED
            BY <2>2, <2>4, <2>5, <3>1 DEF AllInOrder
    <2> QED
        BY <2>2, <2>5 DEF AllInOrder
<1> QED
    BY <1>1, <1>2

\* The cloud d is ready for a block of group h, timed at ts.
InOrder(c, limit) == c.timed => c.sorted /\ c.to <= limit
Precedes(c, h, ts) == described /\ c.timed /\ c.frames # {} => c.group = h \/ c.to <= ts

\* After the block it is again in order.
LEMMA BlockKeepsOrder ==
    ASSUME lidar \in Lidars, IsMech, NEW d \in Records, NEW p \in Nat, p > 0, NEW b \in 1..M.blocks,
           NEW az \in Int, NEW ts \in Int, NEW last \in Nat, NEW h, h = GroupOf(p, b),
           NEW e, e = DecodeBlock(d, p, b, az, ts, last), NEW limit \in Int,
           AllInOrder(d.out), InOrder(d.cloud, limit), Precedes(d.cloud, h, ts),
           described => ts + last <= limit, 0 <= limit
    PROVE  AllInOrder(e.out) /\ InOrder(e.cloud, limit) /\ (e.cloud.timed => described)
<1>1. PICK c \in Clouds : Joined(d, e, h, ts, last, c)
    BY BlockShape
<1>2. AllInOrder(e.out)
    BY <1>1, SplitKeepsOrder DEF InOrder, Joined
<1>3. ASSUME e.cloud.timed PROVE described /\ e.cloud.sorted /\ e.cloud.to <= limit
    <2>1. c.timed /\ described
        BY <1>1, <1>3 DEF Clouds, Joined
    <2>2. c.to \in Int
        BY DEF Clouds
    <2>3. CASE c = d.cloud
        <3>1. c.sorted /\ c.to <= limit /\ (c.frames = {} \/ h = c.group \/ ts >= c.to)
            BY <2>1, <2>2, <2>3 DEF InOrder, Precedes
        <3> QED
            BY <1>1, <2>1, <3>1 DEF Joined
    <2>4. CASE c = NoCloud
        <3>1. c.sorted /\ c.to = 0 /\ c.frames = {}
            BY <2>4 DEF NoCloud
        <3> QED
            BY <1>1, <2>1, <3>1 DEF Joined
    <2> QED
        BY <1>1, <2>3, <2>4 DEF Joined
<1> QED
    BY <1>2, <1>3, Zenon DEF InOrder

\* A DIFOP packet has told the decoder what lidar it is.
Configured ==
    described => /\ blind = BlindTime(lidar.rps) /\ installed = M.install
                 /\ M.echoIn = "difop" => echo = Mode

\* Then it times the packets by the lidar's own constants.
LEMMA DescribedTimes ==
    ASSUME lidar \in Lidars, IsMech, Configured, described, NEW p \in Nat, p > 0,
           NEW n, NEW mode, NEW params, NEW ts, NEW last, NEW after,
           MechRun(p, n, mode, params, ts, last, after)
    PROVE  mode = Mode /\ last = LastChannel /\ \A b \in 1..M.blocks : ts[b] = BlockTs(p, b)
<1>1. M.echoIn \in {"difop", "msop"} /\ M.install \in BOOLEAN
    BY LidarType DEF MechanicalOK
<1>2. mode = Mode
    BY <1>1 DEF MechRun, Configured
<1>3. params = M.actual
    BY <1>1 DEF MechRun, Configured
<1>4. last = LastChannel
    BY <1>2, <1>3 DEF MechRun, LastChannel
<1>5. ASSUME NEW b \in 1..M.blocks PROVE ts[b] = BlockTs(p, b)
    <2>1. PICK it : it = M.iterator[Mode]
        OBVIOUS
    <2>2. BlockOffsets(it, Azimuths(p), M.actual.duration, BlindTime(lidar.rps))[b]
             = Measured(GroupOf(p, 1), GroupOf(p, b))
        BY <2>1, OffsetsMeasure
    <2>3. ts[b] = GroupTs(GroupOf(p, 1))
                    + BlockOffsets(M.iterator[mode], Azimuths(p), params.duration, blind)[b]
        BY DEF MechRun
    <2>4. blind = BlindTime(lidar.rps) /\ M.iterator[mode] = it /\ params.duration = M.actual.duration
        BY <1>2, <1>3, <2>1 DEF Configured
    <2>5. ts[b] = GroupTs(GroupOf(p, 1)) + Measured(GroupOf(p, 1), GroupOf(p, b))
        BY ONLY <2>2, <2>3, <2>4
    <2> QED
        BY <2>5 DEF BlockTs
<1> QED
    BY <1>2, <1>4, <1>5

\* How far a packet's blocks are off.
LEMMA PacketTimed ==
    ASSUME lidar \in Lidars, IsMech, BlindZoneTimed, described,
           NEW p \in Nat, p > 0, NEW n \in 1..M.blocks,
           NEW mode, NEW params, NEW ts, NEW last, NEW after,
           MechRun(p, n, mode, params, ts, last, after),
           \A b \in 1..M.blocks : ts[b] = BlockTs(p, b)
    PROVE  skew' <= 2 * GroupDuration
<1>1. M.blocks \in Nat /\ n \in Nat /\ n > 0 /\ GroupDuration \in Nat
    BY FieldInGroups, TimesType
<1> DEFINE S == {b \in Nat : b <= n => after[b].skew <= 2 * GroupDuration}
<1>2. 0 \in S
    <2>1. after[0].skew = 0
        BY DEF MechRun, Before
    <2> QED
        BY <1>1, <2>1
<1>3. ASSUME NEW c \in Nat, c \in S PROVE c + 1 \in S
    <2> SUFFICES ASSUME c + 1 <= n PROVE after[c + 1].skew <= 2 * GroupDuration
        OBVIOUS
    <2>1. PICK b, d, e, h, t : /\ b = c + 1 /\ d = after[b - 1] /\ e = after[b]
                               /\ h = GroupOf(p, b) /\ t = ts[b]
        OBVIOUS
    <2>2. b \in 1..n /\ b \in 1..M.blocks /\ b - 1 = c
        BY <1>1, <2>1
    <2>3. d \in Records /\ e \in Records /\ e = DecodeBlock(d, p, b, Azimuth(h), t, last)
          /\ t \in Int /\ last \in Nat
        BY <2>1, <2>2 DEF MechRun
    <2>4. Azimuth(h) \in Int
        BY <2>1, <2>2, GroupsOfPacket, AngleOfGroup
    <2>5. e.skew \in {d.skew, t - GroupTs(h), GroupTs(h) - t}
        BY <2>1, <2>2, <2>3, <2>4, BlockShape
    <2>6. t - GroupTs(h) <= 2 * GroupDuration /\ GroupTs(h) - t <= 2 * GroupDuration
        BY <2>1, <2>2, BlockOff
    <2>7. d.skew <= 2 * GroupDuration
        BY <1>3, <2>1, <2>2
    <2>8. e.skew <= 2 * GroupDuration
        BY <2>5, <2>6, <2>7
    <2> QED
        BY <2>1, <2>8
<1> HIDE DEF S
<1>4. Nat \subseteq S
    BY <1>2, <1>3, SetInduction
<1>5. after[n].skew <= 2 * GroupDuration
    BY <1>1, <1>4 DEF S
<1> QED
    BY <1>5 DEF MechRun, Becomes

\* The cloud d ends in group g, timed at t, and is in order so far.
Reaches(d, g, t) ==
    /\ AllInOrder(d.out) /\ (d.cloud.timed => described) /\ d.cloud.group = g
    /\ InOrder(d.cloud, GroupTs(g) + Latest) /\ InOrder(d.cloud, t + Latest)

\* The last channel of a block is counted in.
LEMMA LastInTime ==
    ASSUME lidar \in Lidars, IsMech, NEW p \in Nat, p > 0
    PROVE  /\ LastChannel \in Nat /\ LastChannel <= Latest /\ Latest \in Int
           /\ GroupOf(p, 1) \in Nat /\ BlockTs(p, 1) = GroupTs(GroupOf(p, 1))
<1>1. 1 \in 1..M.blocks
    BY FieldInGroups
<1>2. PICK g : g = GroupOf(p, 1)
    OBVIOUS
<1>3. g \in Nat
    BY <1>1, <1>2, GroupsOfPacket
<1>4. /\ BlockTs(p, 1) + LastChannel <= GroupTs(g) + Latest
      /\ LastChannel \in Nat /\ Latest \in Int /\ GroupTs(g) \in Int
    BY <1>1, <1>2, BlockOff
<1>5. Measured(g, g) = 0
    BY <1>3, MeasuredType
<1>6. BlockTs(p, 1) = GroupTs(g)
    <2>1. BlockTs(p, 1) = GroupTs(g) + Measured(g, g)
        BY <1>2 DEF BlockTs
    <2> QED
        BY <1>4, <1>5, <2>1
<1>7. LastChannel <= Latest
    BY <1>4, <1>6
<1> QED
    BY <1>2, <1>3, <1>4, <1>6, <1>7

\* A block of a later group, or of the same, goes on with it.
LEMMA BlockReaches ==
    ASSUME lidar \in Lidars, IsMech, NEW p \in Nat, p > 0, NEW b \in 1..M.blocks,
           NEW h, h = GroupOf(p, b), NEW t \in Int, NEW last \in Nat,
           described => t = BlockTs(p, b) /\ 0 <= t /\ last = LastChannel,
           0 <= GroupTs(h),
           NEW d \in Records, AllInOrder(d.out),
           NEW e, e = DecodeBlock(d, p, b, Azimuth(h), t, last),
           InOrder(d.cloud, GroupTs(h) + Latest),
           described => InOrder(d.cloud, t + Latest) /\ Precedes(d.cloud, h, t)
    PROVE  Reaches(e, h, t)
<1>1. Azimuth(h) \in Int
    BY GroupsOfPacket, AngleOfGroup
<1>2. /\ Latest \in Int /\ 0 <= Latest /\ GroupTs(h) \in Int
      /\ BlockTs(p, b) + LastChannel <= GroupTs(h) + Latest /\ LastChannel <= Latest
    BY BlockOff, LastInTime
<1>3. PICK x, y : x = GroupTs(h) + Latest /\ y = t + Latest
    OBVIOUS
<1>4. x \in Int /\ y \in Int /\ 0 <= x /\ (described => 0 <= y)
    BY <1>2, <1>3
<1>5. described => t + last <= x /\ t + last <= y
    BY <1>2, <1>3
<1>6. Precedes(d.cloud, h, t)
    BY DEF Precedes
<1>7. AllInOrder(e.out) /\ InOrder(e.cloud, x) /\ (e.cloud.timed => described)
    BY <1>1, <1>3, <1>4, <1>5, <1>6, BlockKeepsOrder
<1>8. InOrder(e.cloud, y)
    <2>1. CASE described
        BY <1>1, <1>3, <1>4, <1>5, <1>6, <2>1, BlockKeepsOrder
    <2>2. CASE ~described
        BY <1>7, <2>2 DEF InOrder
    <2> QED
        BY <2>1, <2>2
<1>9. e.cloud.group = h
    BY <1>1, BlockShape
<1> QED
    BY <1>3, <1>7, <1>8, <1>9 DEF Reaches

\* A cloud is as much in order for a later limit.
LEMMA LaterLimit ==
    ASSUME NEW c \in Clouds, NEW x \in Int, NEW y \in Int, x <= y, InOrder(c, x)
    PROVE  InOrder(c, y)
<1>1. c.to \in Int
    BY DEF Clouds
<1> QED
    BY <1>1 DEF InOrder

\* A packet goes on with the cloud of earlier ones.
LEMMA FirstReaches ==
    ASSUME TypeOK, lidar \in Lidars, IsMech, FiringsApart,
           NEW p \in Nat, p > 0, NEW n \in 1..M.blocks,
           NEW mode, NEW params, NEW ts, NEW last, NEW after,
           MechRun(p, n, mode, params, ts, last, after),
           described => last = LastChannel /\ \A b \in 1..M.blocks : ts[b] = BlockTs(p, b),
           InOrder(cloud, GroupTs(cloud.group) + Latest), cloud.group <= GroupOf(p, 1)
    PROVE  Reaches(after[1], GroupOf(p, 1), ts[1])
<1>1. M.blocks \in Nat /\ n \in Nat /\ n > 0 /\ 1 \in 1..M.blocks /\ 1 \in 1..n
    BY FieldInGroups
<1>2. PICK g, h, t, d, e : g = cloud.group /\ h = GroupOf(p, 1) /\ t = ts[1]
                           /\ d = after[0] /\ e = after[1]
    OBVIOUS
<1>3. cloud \in Clouds /\ g \in Nat /\ h \in Nat /\ g <= h
    BY <1>2, LastInTime DEF TypeOK, Clouds
<1>4. d.cloud = cloud /\ d.out = <<>>
    BY <1>2 DEF MechRun, Before
<1>5. d \in Records /\ e = DecodeBlock(d, p, 1, Azimuth(h), t, last) /\ t \in Int /\ last \in Nat
    BY <1>1, <1>2 DEF MechRun
<1>6. AllInOrder(d.out)
    BY <1>4 DEF AllInOrder
<1>7. /\ GroupTs(g) \in Nat /\ GroupTs(h) \in Nat /\ Latest \in Int /\ 0 <= Latest
      /\ g < h => GroupTs(g) + Latest <= GroupTs(h)
    BY <1>1, <1>2, <1>3, GroupTsStep, LaterGroup, BlockOff
<1>8. described => t = GroupTs(h) /\ t = BlockTs(p, 1) /\ last = LastChannel
    BY <1>1, <1>2, LastInTime
<1>9. GroupTs(g) + Latest <= GroupTs(h) + Latest
    BY <1>3, <1>7
<1>10. InOrder(cloud, GroupTs(h) + Latest)
    <2>1. PICK x, y : x = GroupTs(g) + Latest /\ y = GroupTs(h) + Latest
        OBVIOUS
    <2>2. x \in Int /\ y \in Int /\ x <= y /\ InOrder(cloud, x)
        BY <1>2, <1>7, <1>9, <2>1
    <2> QED
        BY <1>3, <2>1, <2>2, LaterLimit
<1>11. Precedes(cloud, h, GroupTs(h))
    <2>1. g = h \/ g < h
        BY <1>3
    <2>2. CASE g < h
        <3>1. InOrder(cloud, GroupTs(h))
            <4>1. PICK x, y : x = GroupTs(g) + Latest /\ y = GroupTs(h)
                OBVIOUS
            <4>2. x \in Int /\ y \in Int /\ x <= y /\ InOrder(cloud, x)
                BY <1>2, <1>7, <2>2, <4>1
            <4> QED
                BY <1>3, <4>1, <4>2, LaterLimit
        <3> QED
            BY <3>1 DEF InOrder, Precedes
    <2> QED
        BY <1>2, <2>1, <2>2 DEF Precedes
<1>12. Reaches(e, h, t)
    <2>1. InOrder(d.cloud, GroupTs(h) + Latest)
        BY <1>4, <1>10
    <2>2. ASSUME described PROVE InOrder(d.cloud, t + Latest) /\ Precedes(d.cloud, h, t)
        BY <1>4, <1>8, <1>10, <1>11, <2>2
    <2>3. described => t = BlockTs(p, 1) /\ 0 <= t /\ last = LastChannel
        BY <1>7, <1>8
    <2>4. PICK b : b = 1
        OBVIOUS
    <2>5. b \in 1..M.blocks /\ h = GroupOf(p, b) /\ e = DecodeBlock(d, p, b, Azimuth(h), t, last)
          /\ (described => t = BlockTs(p, b) /\ 0 <= t /\ last = LastChannel)
        BY <1>1, <1>2, <1>5, <2>3, <2>4
    <2>6. 0 <= GroupTs(h)
        BY <1>7
    <2> QED
        BY <1>5, <1>6, <2>1, <2>2, <2>5, <2>6, BlockReaches
<1> QED
    BY <1>2, <1>12

\* Its next block goes on with its last one.
LEMMA NextReaches ==
    ASSUME lidar \in Lidars, IsMech, FiringsApart,
           NEW p \in Nat, p > 0, NEW b \in 1..M.blocks, b > 1,
           NEW s \in Int, NEW t \in Int, NEW last \in Nat,
           described => /\ last = LastChannel /\ s = BlockTs(p, b - 1) /\ t = BlockTs(p, b)
                        /\ 0 <= s,
           NEW d \in Records, Reaches(d, GroupOf(p, b - 1), s),
           NEW e, e = DecodeBlock(d, p, b, Azimuth(GroupOf(p, b)), t, last)
    PROVE  Reaches(e, GroupOf(p, b), t) /\ (described => 0 <= t)
<1>1. b - 1 \in 1..M.blocks
    BY FieldInGroups
<1>2. PICK g, h, c : g = GroupOf(p, b - 1) /\ h = GroupOf(p, b) /\ c = d.cloud
    OBVIOUS
<1>3. g \in Nat /\ h \in Nat
    BY <1>1, <1>2, GroupsOfPacket
<1>4. GroupTs(g) \in Nat /\ GroupTs(h) \in Nat /\ Latest \in Int /\ 0 <= Latest
    BY <1>1, <1>3, GroupTsStep, BlockOff
<1>5. \/ g = h
      \/ GroupTs(g) + Latest <= GroupTs(h)
    <2>1. g = h \/ h = g + 1
        BY <1>2, NextBlockTs
    <2>2. h = g + 1 => GroupTs(g) + Latest <= GroupTs(h)
        BY <1>3, GroupTsStep
    <2> QED
        BY <2>1, <2>2
<1>6. described => (g = h /\ s = t) \/ s + Latest <= t
    BY <1>2, NextBlockTs
<1>7. described => 0 <= t
    BY <1>4, <1>6
<1>8. c \in Clouds /\ AllInOrder(d.out) /\ c.group = g
      /\ InOrder(c, GroupTs(g) + Latest) /\ InOrder(c, s + Latest)
    BY <1>2 DEF Reaches, Records
<1>9. InOrder(c, GroupTs(h) + Latest)
    <2>1. PICK x, y : x = GroupTs(g) + Latest /\ y = GroupTs(h) + Latest
        OBVIOUS
    <2>2. x \in Int /\ y \in Int /\ x <= y /\ InOrder(c, x)
        BY <1>4, <1>5, <1>8, <2>1
    <2> QED
        BY <1>8, <2>1, <2>2, LaterLimit
<1>10. ASSUME described PROVE InOrder(c, t + Latest) /\ Precedes(c, h, t)
    <2>1. PICK x, y : x = s + Latest /\ y = t + Latest
        OBVIOUS
    <2>2. x \in Int /\ y \in Int /\ x <= y /\ InOrder(c, x)
        BY <1>4, <1>6, <1>8, <1>10, <2>1
    <2>3. InOrder(c, y)
        BY <1>8, <2>2, LaterLimit
    <2>4. ASSUME g = h PROVE Precedes(c, h, t)
        <3>1. c.group = h
            BY <1>8, <2>4
        <3> QED
            BY <3>1, Zenon DEF Precedes
    <2>5. ASSUME s + Latest <= t PROVE Precedes(c, h, t)
        <3>1. x <= t
            BY <2>1, <2>5
        <3>2. InOrder(c, t)
            BY <1>8, <2>2, <3>1, LaterLimit
        <3>3. c.timed => c.to <= t
            BY <3>2, Zenon DEF InOrder
        <3> QED
            BY <3>3, Zenon DEF Precedes
    <2> QED
        BY <1>6, <1>10, <2>1, <2>3, <2>4, <2>5
<1>11. Reaches(e, h, t)
    BY <1>2, <1>4, <1>7, <1>8, <1>9, <1>10, BlockReaches
<1> QED
    BY <1>2, <1>7, <1>11

\* So a packet leaves the clouds in order.
LEMMA PacketInOrder ==
    ASSUME TypeOK, lidar \in Lidars, IsMech, FiringsApart,
           NEW p \in Nat, p > 0, NEW n \in 1..M.blocks,
           NEW mode, NEW params, NEW ts, NEW last, NEW after,
           MechRun(p, n, mode, params, ts, last, after),
           described => last = LastChannel /\ \A b \in 1..M.blocks : ts[b] = BlockTs(p, b),
           InOrder(cloud, GroupTs(cloud.group) + Latest), cloud.group <= GroupOf(p, 1)
    PROVE  /\ AllInOrder(out') /\ InOrder(cloud', GroupTs(cloud'.group) + Latest)
           /\ cloud'.timed => described
<1>1. M.blocks \in Nat /\ n \in Nat /\ n > 0 /\ 1 \in 1..M.blocks
    BY FieldInGroups
<1> DEFINE S == {c \in Nat : c < n => /\ Reaches(after[c + 1], GroupOf(p, c + 1), ts[c + 1])
                                      /\ described => 0 <= ts[c + 1]}
<1>2. 0 \in S
    <2>1. Reaches(after[1], GroupOf(p, 1), ts[1])
        BY FirstReaches
    <2>2. GroupOf(p, 1) \in Nat /\ BlockTs(p, 1) = GroupTs(GroupOf(p, 1))
        BY LastInTime
    <2>3. GroupTs(GroupOf(p, 1)) \in Nat
        BY <2>2, GroupTsStep
    <2>4. described => 0 <= ts[1]
        BY <1>1, <2>2, <2>3
    <2>5. 0 \in Nat /\ 0 + 1 = 1
        OBVIOUS
    <2> QED
        BY <2>1, <2>4, <2>5
<1>3. ASSUME NEW c \in Nat, c \in S PROVE c + 1 \in S
    <2> SUFFICES ASSUME c + 1 < n
                 PROVE  /\ Reaches(after[c + 1 + 1], GroupOf(p, c + 1 + 1), ts[c + 1 + 1])
                        /\ described => 0 <= ts[c + 1 + 1]
        OBVIOUS
    <2>1. PICK b, d, e, s, t : /\ b = c + 1 + 1 /\ d = after[b - 1] /\ e = after[b]
                               /\ s = ts[b - 1] /\ t = ts[b]
        OBVIOUS
    <2>2. b \in 1..n /\ b \in 1..M.blocks /\ b - 1 = c + 1 /\ b - 1 \in 1..M.blocks /\ b > 1
        BY <1>1, <2>1
    <2>3. d \in Records /\ e = DecodeBlock(d, p, b, Azimuth(GroupOf(p, b)), t, last)
          /\ s \in Int /\ t \in Int /\ last \in Nat
        BY <2>1, <2>2 DEF MechRun
    <2>4. Reaches(d, GroupOf(p, b - 1), s) /\ (described => 0 <= s)
        BY <1>1, <1>3, <2>1, <2>2
    <2>5. described => last = LastChannel /\ s = BlockTs(p, b - 1) /\ t = BlockTs(p, b)
        BY <2>1, <2>2
    <2>6. Reaches(e, GroupOf(p, b), t) /\ (described => 0 <= t)
        BY <2>2, <2>3, <2>4, <2>5, NextReaches
    <2> QED
        BY <2>1, <2>6
<1> HIDE DEF S
<1>4. Nat \subseteq S
    BY <1>2, <1>3, SetInduction
<1>5. PICK e, h : e = after[n] /\ h = GroupOf(p, n)
    OBVIOUS
<1>6. Reaches(e, h, ts[n])
    <2>1. n - 1 \in S /\ (n - 1) + 1 = n /\ n - 1 < n
        BY <1>1, <1>4
    <2> QED
        BY <1>5, <2>1 DEF S
<1>7. out' = e.out /\ cloud' = e.cloud
    BY <1>5 DEF MechRun, Becomes
<1> QED
    BY <1>6, <1>7 DEF Reaches

\* A cloud with a block that was decoded before any DIFOP packet is not timed.
LEMMA PacketDescribed ==
    ASSUME lidar \in Lidars, IsMech, NEW p \in Nat, p > 0, NEW n \in 1..M.blocks,
           NEW mode, NEW params, NEW ts, NEW last, NEW after,
           MechRun(p, n, mode, params, ts, last, after)
    PROVE  cloud'.timed => described
<1>1. PICK d, e, h, t : /\ d = after[n - 1] /\ e = after[n]
                        /\ h = GroupOf(p, n) /\ t = ts[n]
    OBVIOUS
<1>2. n \in 1..n
    BY FieldInGroups
<1>3. d \in Records /\ e = DecodeBlock(d, p, n, Azimuth(h), t, last) /\ t \in Int /\ last \in Nat
    BY <1>1, <1>2 DEF MechRun
<1>4. Azimuth(h) \in Int
    BY <1>1, GroupsOfPacket, AngleOfGroup
<1>5. PICK c : Joined(d, e, h, t, last, c)
    BY <1>1, <1>3, <1>4, BlockShape
<1>6. cloud' = e.cloud
    BY <1>1 DEF MechRun, Becomes
<1> QED
    BY <1>5, <1>6 DEF Joined

\* The lidar's times are what they were.
LEMMA SameTimes ==
    ASSUME lidar' = lidar
    PROVE  /\ BlindZoneTimed' = BlindZoneTimed /\ FiringsApart' = FiringsApart
           /\ GroupDuration' = GroupDuration /\ Latest' = Latest
           /\ BlindTime(lidar.rps)' = BlindTime(lidar.rps)
           /\ \A g : GroupTs(g)' = GroupTs(g)
<1>1. M' = M /\ Mode' = Mode
    BY SameLidar
<1>2. /\ GroupDuration' = GroupDuration /\ GroupAngle' = GroupAngle /\ FieldRange' = FieldRange
      /\ RoundTime' = RoundTime
    BY <1>1 DEF GroupDuration, GroupAngle, FieldRange, RoundTime
<1>3. GroupsPerRound' = GroupsPerRound
    BY <1>2 DEF GroupsPerRound
<1>4. BlindTime(lidar.rps)' = BlindTime(lidar.rps)
    BY <1>2 DEF BlindTime
<1>5. \A g : GroupTs(g)' = GroupTs(g)
    BY <1>2, <1>3 DEF GroupTs
<1>6. Rest' = Rest /\ Crossed' = Crossed
    BY <1>2, <1>3, <1>4 DEF Rest, Crossed
<1>7. Error' = Error /\ Crossings' = Crossings
    BY <1>1, <1>3, <1>6 DEF Error, Crossings
<1>8. LastChannel' = LastChannel
    BY <1>1 DEF LastChannel
<1>9. Latest' = Latest
    BY <1>7, <1>8 DEF Latest
<1>10. BlindZoneTimed' = BlindZoneTimed
    BY <1>2, <1>7 DEF BlindZoneTimed
<1>11. FiringsApart' = FiringsApart
    BY <1>2, <1>6, <1>9 DEF FiringsApart
<1> QED
    BY <1>2, <1>4, <1>5, <1>9, <1>10, <1>11

\* The clouds are in order, up to the next firing.
CloudsInOrder == AllInOrder(out) /\ InOrder(cloud, GroupTs(cloud.group) + Latest)

\* The inductive invariant of the times of a mechanical lidar.
TimeInv ==
    /\ Configured
    /\ BlindZoneTimed /\ cloud.timed => skew <= 2 * GroupDuration
    /\ FiringsApart => CloudsInOrder

\* It holds before the first packet.
LEMMA InitTimes == ASSUME Init, IsMech PROVE TimeInv
<1>1. /\ lidar \in Lidars /\ described = FALSE /\ skew = 0 /\ out = <<>> /\ cloud = NoCloud
    BY DEF Init
<1>2. GroupDuration \in Nat
    BY <1>1, TimesType
<1>3. ASSUME FiringsApart PROVE CloudsInOrder
    <2>1. AllInOrder(out)
        BY <1>1 DEF AllInOrder
    <2>2. 1 \in 1..M.blocks
        BY <1>1, FieldInGroups
    <2>3. Latest \in Int /\ 0 <= Latest
        BY <1>1, <2>2, BlockOff
    <2>4. GroupTs(0) \in Nat
        BY <1>1, <1>3, GroupTsStep
    <2>5. cloud.sorted /\ cloud.to = 0 /\ cloud.group = 0
        BY <1>1 DEF NoCloud
    <2>6. InOrder(cloud, GroupTs(cloud.group) + Latest)
        BY <2>3, <2>4, <2>5 DEF InOrder
    <2> QED
        BY <2>1, <2>6 DEF CloudsInOrder
<1>4. skew <= 2 * GroupDuration
    BY <1>1, <1>2
<1> QED
    BY <1>1, <1>3, <1>4 DEF TimeInv, Configured

\* Whatever leaves the clouds and what is known of the lidar alone keeps it.
LEMMA UnchangedTimes ==
    ASSUME TimeInv, lidar' = lidar, cloud' = cloud, out' = out, skew' = skew, Configured'
    PROVE  TimeInv'
<1>1. PICK g : g = cloud.group
    OBVIOUS
<1>2. GroupTs(cloud.group)' = GroupTs(cloud.group) /\ Latest' = Latest
    BY <1>1, SameTimes
<1>3. CloudsInOrder => CloudsInOrder'
    BY <1>2 DEF CloudsInOrder, AllInOrder, InOrder
<1>4. /\ BlindZoneTimed' = BlindZoneTimed /\ FiringsApart' = FiringsApart
      /\ GroupDuration' = GroupDuration
    BY SameTimes
<1> QED
    BY <1>3, <1>4 DEF TimeInv

\* A DIFOP packet tells the decoder what lidar it is.
LEMMA DifopTimes == ASSUME Inv, IsMech, TimeInv, ReceiveDifop PROVE TimeInv'
<1>1. TypeOK /\ lidar \in Lidars
    BY DEF Inv, TypeOK
<1>2. PICK rpm, valid : Difop(valid, rpm) /\ (rpm = 0 \/ rpm = 60 * lidar.rps)
    BY DEF ReceiveDifop
<1>3. lidar' = lidar /\ cloud' = cloud /\ out' = out /\ skew' = skew
    BY <1>2 DEF Difop
<1>4. M' = M /\ Mode' = Mode
    BY <1>3, SameLidar
<1>5. Configured'
    <2> SUFFICES ASSUME described'
                 PROVE  /\ blind' = BlindTime(lidar.rps)' /\ installed' = M.install
                        /\ M.echoIn = "difop" => echo' = Mode
        BY <1>4 DEF Configured
    <2>1. rpm = 60 * lidar.rps /\ rpm # 0
        BY <1>2 DEF Difop
    <2>2. PICK r : r = lidar.rps
        OBVIOUS
    <2>3. r \in Nat
        BY <1>1, <2>2, TimesType
    <2>4. (60 * r) \div 60 = r
        BY <2>3
    <2>5. rpm \div 60 = r
        BY <2>1, <2>2, <2>4
    <2>6. blind' = BlindTime(r)
        BY <1>2, <2>1, <2>5 DEF Difop
    <2>7. BlindTime(lidar.rps)' = BlindTime(lidar.rps)
        BY <1>3, SameTimes
    <2> QED
        BY <1>2, <2>2, <2>6, <2>7 DEF Difop
<1> QED
    BY <1>3, <1>5, UnchangedTimes

\* The lidar's packets are timed and in order.
LEMMA MsopTimes == ASSUME Inv, IsMech, TimeInv, ReceiveMsop PROVE TimeInv'
<1>1. PICK p \in sent + 1 .. sent + 1 + MaxLost :
        /\ Decode(p) /\ UNCHANGED <<lidar, ready, described, installed, blind>>
    BY DEF ReceiveMsop
<1>2. TypeOK /\ MechInv /\ lidar \in Lidars
    BY DEF Inv, TypeOK
<1>3. p \in Nat /\ p > sent /\ p > 0 /\ sent \in Nat
    BY <1>2, DecoderAssumption DEF TypeOK, DecoderAssumption
<1>4. /\ lidar' = lidar /\ described' = described /\ installed' = installed /\ blind' = blind
      /\ M' = M /\ Mode' = Mode /\ BlindTime(lidar.rps)' = BlindTime(lidar.rps)
    BY <1>1, SameLidar, SameTimes
<1>5. CASE ~Accepts
    <2>1. UNCHANGED decodeVars
        BY <1>1, <1>5 DEF Decode
    <2>2. cloud' = cloud /\ out' = out /\ skew' = skew /\ echo' = echo
        BY <2>1 DEF decodeVars
    <2>3. Configured'
        BY <1>4, <2>2 DEF TimeInv, Configured
    <2> QED
        BY <1>4, <2>2, <2>3, UnchangedTimes
<1>6. CASE Accepts
    <2>1. M.blocks \in Nat /\ M.blocks > 0 /\ 1 \in 1..M.blocks /\ M.blocks \in 1..M.blocks
        BY <1>2, FieldInGroups
    <2>2. PICK n \in 1..M.blocks : DecodeMech(p, n)
        BY <1>1, <1>6, <2>1 DEF Decode
    <2>3. PICK mode, params, ts, last, after : MechRun(p, n, mode, params, ts, last, after)
        BY <1>2, <1>3, <2>2, DecodeMechRuns
    <2>4. Configured
        BY DEF TimeInv
    <2>5. ASSUME described
          PROVE  mode = Mode /\ last = LastChannel /\ \A b \in 1..M.blocks : ts[b] = BlockTs(p, b)
        BY <1>2, <1>3, <2>3, <2>4, <2>5, DescribedTimes
    <2>6. Configured'
        <3>1. echo' = mode
            BY <2>3 DEF MechRun
        <3> QED
            BY <1>4, <2>4, <2>5, <3>1 DEF Configured
    <2>7. cloud'.timed => described
        BY <1>2, <1>3, <2>3, PacketDescribed
    <2>8. ASSUME BlindZoneTimed, cloud'.timed PROVE skew' <= 2 * GroupDuration
        BY <1>2, <1>3, <2>3, <2>5, <2>7, <2>8, PacketTimed
    <2>9. ASSUME FiringsApart PROVE CloudsInOrder'
        <3>1. AllInOrder(out) /\ InOrder(cloud, GroupTs(cloud.group) + Latest)
            BY <2>9 DEF TimeInv, CloudsInOrder
        <3>2. GroupOf(p, 1) \in Nat
            BY <1>2, <1>3, LastInTime
        <3>3. cloud.group <= GroupOf(p, 1)
            <4>1. CASE Nothing
                BY <3>2, <4>1 DEF Nothing, NoCloud
            <4>2. CASE OnRound
                <5>1. PICK g \in Nat : sent > 0 /\ g <= GroupOf(sent, M.blocks) /\ OnGroup(Before, Shut, g)
                    BY <4>2 DEF OnRound
                <5>2. cloud.group = g
                    BY <5>1 DEF OnGroup, Before
                <5>3. GroupOf(sent, M.blocks) \in Nat /\ GroupOf(sent, M.blocks) <= GroupOf(p, 1)
                    BY <1>2, <1>3, <2>1, <5>1, GroupsOfPacket
                <5> QED
                    BY <3>2, <5>1, <5>2, <5>3
            <4> QED
                BY <1>2, <4>1, <4>2 DEF MechInv
        <3>4. AllInOrder(out') /\ InOrder(cloud', GroupTs(cloud'.group) + Latest)
            BY <1>2, <1>3, <2>3, <2>5, <2>9, <3>1, <3>3, PacketInOrder
        <3>5. PICK g : g = cloud'.group
            OBVIOUS
        <3>6. GroupTs(g)' = GroupTs(g) /\ Latest' = Latest
            BY <1>4, SameTimes
        <3>7. AllInOrder(out)' /\ InOrder(cloud, GroupTs(cloud.group) + Latest)'
            BY <3>4, <3>5, <3>6 DEF AllInOrder, InOrder
        <3> QED
            BY <3>7 DEF CloudsInOrder
    <2>10. /\ BlindZoneTimed' = BlindZoneTimed /\ FiringsApart' = FiringsApart
           /\ GroupDuration' = GroupDuration
        BY <1>4, SameTimes
    <2> QED
        BY <2>6, <2>8, <2>9, <2>10 DEF TimeInv
<1> QED
    BY <1>5, <1>6

(***************************************************************************)
(* Once a DIFOP packet has described it, a mechanical lidar's packets are  *)
(* timed by its own constants: the first block as it was fired, the others *)
(* off by what crossing the blind zone adds (Measured), and the cloud ends *)
(* before the next firing.                                                 *)
(***************************************************************************)
THEOREM TimesHold == Spec => [](IsMech => TimeInv)
<1>1. Init => (IsMech => TimeInv)
    BY InitTimes
<1>2. Inv /\ (IsMech => TimeInv) /\ [Next]_vars => (IsMech => TimeInv)'
    <2> SUFFICES ASSUME Inv, IsMech => TimeInv, [Next]_vars, IsMech' PROVE TimeInv'
        OBVIOUS
    <2>1. lidar' = lidar
        <3>1. CASE ReceiveDifop
            BY <3>1, DifopDescribes DEF Inv, Described
        <3>2. CASE ReceiveMsop
            BY <3>2 DEF ReceiveMsop
        <3>3. CASE ReceiveLate
            BY <3>3 DEF ReceiveLate
        <3>4. CASE UNCHANGED vars
            BY <3>4 DEF vars
        <3> QED
            BY <3>1, <3>2, <3>3, <3>4 DEF Next
    <2>2. IsMech /\ TimeInv
        BY <2>1, SameLidar
    <2>3. CASE ReceiveDifop
        BY <2>2, <2>3, DifopTimes
    <2>4. CASE ReceiveMsop
        BY <2>2, <2>4, MsopTimes
    <2>5. CASE ReceiveLate
        BY <2>2, <2>5 DEF ReceiveLate, Inv, MechInv
    <2>6. CASE UNCHANGED vars
        <3>1. /\ cloud' = cloud /\ out' = out /\ skew' = skew /\ echo' = echo
              /\ described' = described /\ blind' = blind /\ installed' = installed
            BY <2>6 DEF vars, decodeVars
        <3>2. M' = M /\ Mode' = Mode /\ BlindTime(lidar.rps)' = BlindTime(lidar.rps)
            BY <2>1, SameLidar, SameTimes
        <3>3. Configured'
            BY <2>2, <3>1, <3>2 DEF TimeInv, Configured
        <3> QED
            BY <2>1, <2>2, <3>1, <3>3, UnchangedTimes
    <2> QED
        BY <2>3, <2>4, <2>5, <2>6 DEF Next
<1> QED
    BY <1>1, <1>2, DecoderInv, PTL DEF Spec

(***************************************************************************)
(* Blocks are timed as they were fired, up to two firings, whatever the    *)
(* lidar, its field of view and the packets that are lost: if crossing the *)
(* blind zone, as often as a packet can, is off by no more than that.      *)
(***************************************************************************)
THEOREM BlockTimesHold == Spec => [](BlindZoneTimed => BlockTimesRight)
<1>1. (IsMech => TimeInv) => (BlindZoneTimed => BlockTimesRight)
    BY DEF TimeInv, BlockTimesRight
<1> QED
    BY <1>1, TimesHold, PTL

(***************************************************************************)
(* The points of a cloud are in the order of their time stamps, firing by  *)
(* firing, whatever is lost: if the last channel of a block, with what the *)
(* blind zone adds, comes before the next firing.                          *)
(***************************************************************************)
THEOREM PointsInOrderHolds == Spec => [](FiringsApart => PointsInOrder)
<1>1. (IsMech => TimeInv) => (FiringsApart => PointsInOrder)
    BY DEF TimeInv, CloudsInOrder, AllInOrder, PointsInOrder
<1> QED
    BY <1>1, TimesHold, PTL
=============================================================================
