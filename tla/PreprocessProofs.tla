-------------------------- MODULE PreprocessProofs --------------------------
(***************************************************************************)
(* What holds of preprocess.cpp for every scan line, lidar and message:    *)
(* the indices and marks of GiveFeature (FeaturesRight), and the times     *)
(* Preprocess makes up from the angles (OffsetsRight).                     *)
(***************************************************************************)
EXTENDS Preparation, TLAPS, FiniteSetTheorems, SequenceTheorems, WellFoundedInduction

-----------------------------------------------------------------------------
(* The invariant of give_feature.                                          *)

Marks == {"Nor", "Edge_Plane", "Edge_Jump", "Wire"} \cup Planes

LineOK ==
    /\ line \in Seq(BOOLEAN) /\ i \in Nat /\ i_nex \in Nat
    /\ last_state \in {0, 1} /\ past \in BOOLEAN
    /\ last_surface \in Nat \cup {-1} /\ pl_surf \in Seq(Nat \X Nat)
    /\ loop \in {"idle", "left", "surf", "edge", "small", "sample", "done"}
    /\ loop # "idle" => ftype \in [Indices -> Marks]
    /\ loop = "idle" => line = <<>>

\* Until the last loop nothing is put out; a line with points worth it has a
\* first one.
BeforeSample ==
    loop \in {"surf", "edge", "small"} => pl_surf = <<>> /\ last_surface = -1
                                          /\ \E k \in Indices : ~Blind(k)

\* Of what is put out, s, the nth is a row of planes that ends before k.
PutFromTo(s, n, k) ==
    LET a == s[n][1]
        b == s[n][2]
    IN  /\ a <= b /\ b < k /\ b - a < point_filter_num
        /\ b < Size /\ \A m \in a .. b : ftype[m] \in Planes
        /\ n > 1 => s[n - 1][2] < a

\* The last loop: what is put out lies before the row it is in, if any, and
\* every plane point it has passed is put out or in this row.
SampleInv ==
    loop \in {"sample", "done"} =>
        /\ i <= Size /\ (loop = "done" => i = Size)
        /\ last_surface # -1 =>
              /\ last_surface < i /\ i - last_surface < point_filter_num
              /\ \A k \in last_surface .. i - 1 : ftype[k] \in Planes
        /\ \A n \in 1 .. Len(pl_surf) :
              PutFromTo(pl_surf, n, IF last_surface = -1 THEN i ELSE last_surface)
        /\ \A k \in 0 .. i - 1 : ftype[k] \in Planes =>
              \/ \E n \in 1 .. Len(pl_surf) : pl_surf[n][1] <= k /\ k <= pl_surf[n][2]
              \/ last_surface # -1 /\ last_surface <= k

LineInv == LineOK /\ IndicesInLine /\ BlindUnmarked /\ BeforeSample /\ SampleInv

-----------------------------------------------------------------------------
\* Min is the least of a set of numbers.
LEMMA Smallest ==
    ASSUME NEW S, S \subseteq Nat, S # {}
    PROVE  Min(S) \in S /\ \A y \in S : Min(S) <= y
<1> DEFINE less == OpToRel(<, Nat)
<1>1. /\ IsWellFoundedOn(less, Nat)
      /\ \A x, y \in Nat : <<x, y>> \in less <=> x < y
    BY NatLessThanWellFounded, Zenon DEF OpToRel
<1> HIDE DEF less
<1>2. PICK x \in S : \A y \in S : ~(<<y, x>> \in less)
  <2>1. IsWellFoundedOn(less, Nat)
      BY <1>1, Zenon
  <2> QED
      BY <2>1, WFMin
<1>3. \A y \in S : ~(y < x)
    BY <1>1, <1>2, Zenon
<1>4. \A y \in S : x <= y
    BY <1>3
<1> QED
    BY <1>4 DEF Min

\* The places of a line.
LEMMA Places ==
    ASSUME LineOK
    PROVE  /\ Size \in Nat /\ Indices = 0 .. Size - 1 /\ Indices \subseteq Nat
           /\ \A k \in Indices : Blind(k) \in BOOLEAN
<1>1. line \in Seq(BOOLEAN)
    BY DEF LineOK
<1>2. Size \in Nat /\ Indices = 0 .. Size - 1 /\ Indices \subseteq Nat
    BY <1>1, LenProperties DEF Size, Indices
<1>3. ASSUME NEW k \in Indices PROVE Blind(k) \in BOOLEAN
  <2>1. k + 1 \in 1 .. Len(line)
      BY <1>2, <1>3 DEF Size
  <2> QED
      BY <1>1, <2>1, ElementOfSeq DEF Blind
<1> QED
    BY <1>2, <1>3

\* The head of the line: all before it is blind.
LEMMA HeadRight ==
    ASSUME LineOK
    PROVE  /\ Head0 \in 0 .. Size
           /\ \A k \in Indices : k < Head0 => Blind(k)
           /\ (\E k \in Indices : ~Blind(k)) => Head0 < Size
<1> DEFINE S == {k \in Indices : ~Blind(k)} \cup {Size}
<1>1. S \subseteq Nat /\ S # {} /\ Size \in Nat /\ Indices = 0 .. Size - 1
    BY Places
<1>2. Head0 = Min(S)
    BY DEF Head0
<1>3. Head0 \in S /\ \A y \in S : Head0 <= y
  <2> HIDE DEF S
  <2> QED
      BY <1>1, <1>2, Smallest
<1>4. Head0 \in 0 .. Size
    BY <1>1, <1>3
<1>5. \A k \in Indices : k < Head0 => Blind(k)
  <2> TAKE k \in Indices
  <2> SUFFICES ASSUME k < Head0, ~Blind(k) PROVE FALSE
      OBVIOUS
  <2>1. k \in S
      OBVIOUS
  <2> QED
      BY <1>1, <1>3, <1>4, <2>1
<1>6. ASSUME NEW k \in Indices, ~Blind(k) PROVE Head0 < Size
  <2>1. Head0 <= k
      BY <1>3, <1>6
  <2> QED
      BY <1>1, <1>4, <2>1
<1> QED
    BY <1>4, <1>5, <1>6

\* A group that is judged a plane, or cut off, ends in the line, and there is
\* no blind point in it.
LEMMA JudgedRight ==
    ASSUME LineOK, i \in Indices, ~Blind(i), NEW j \in Judged
    PROVE  /\ j.nex \in i + 1 .. Size /\ j.type \in {0, 1, 2}
           /\ j.type = 2 => j.nex < Size
           /\ j.type # 2 => \A k \in Indices : i <= k /\ k <= j.nex => ~Blind(k)
<1> DEFINE S == {k \in i .. Size - 1 : Blind(k)} \cup {Size}
<1>1. Size \in Nat /\ Indices = 0 .. Size - 1 /\ i \in Nat /\ group_size \in Nat \ {0}
    BY Places, LineAssumption DEF LineOK
<1>2. PICK stop : stop = Min(S)
    OBVIOUS
<1>3. stop \in S /\ \A y \in S : stop <= y
  <2>1. S \subseteq Nat /\ S # {}
      BY <1>1
  <2> HIDE DEF S
  <2> QED
      BY <1>2, <2>1, Smallest
<1>4. stop \in i + 1 .. Size
    BY <1>1, <1>3
<1>5. \A k \in Indices : i <= k /\ k < stop => ~Blind(k)
  <2> TAKE k \in Indices
  <2> SUFFICES ASSUME i <= k, k < stop, Blind(k) PROVE FALSE
      OBVIOUS
  <2>1. k \in S
      BY <1>1
  <2> QED
      BY <1>1, <1>3, <1>4, <2>1
<1> DEFINE far == IF stop < Size THEN stop - 1 ELSE Size
<1>6. \/ \E t \in {0, 1}, k \in i + group_size .. far : j = [type |-> t, nex |-> k]
      \/ stop < Size /\ j = [type |-> 2, nex |-> stop]
  <2>1. Judged = {[type |-> t, nex |-> k] : t \in {0, 1}, k \in i + group_size .. far}
                 \cup (IF stop < Size THEN {[type |-> 2, nex |-> stop]} ELSE {})
      BY <1>2 DEF Judged
  <2> HIDE DEF far
  <2> QED
      BY <2>1
<1>7. CASE \E t \in {0, 1}, k \in i + group_size .. far : j = [type |-> t, nex |-> k]
  <2>1. PICK t \in {0, 1}, k \in i + group_size .. far : j = [type |-> t, nex |-> k]
      BY <1>7
  <2>2. j.nex = k /\ j.type = t /\ k \in i + 1 .. Size /\ (k < stop \/ k = Size)
      BY <1>1, <1>4, <2>1
  <2>3. \A m \in Indices : m <= k => m < stop \/ stop = Size
      BY <1>1, <1>4, <2>1
  <2>4. \A m \in Indices : m < Size
      BY <1>1
  <2> QED
      BY <1>1, <1>5, <2>1, <2>2, <2>3, <2>4
<1>8. CASE stop < Size /\ j = [type |-> 2, nex |-> stop]
    BY <1>1, <1>4, <1>8
<1> QED
    BY <1>6, <1>7, <1>8

-----------------------------------------------------------------------------
(* Every step keeps it.                                                    *)

\* A new line: nothing is marked yet.
LEMMA BeginStep ==
    ASSUME LineInv, NEW l \in Lines, Begin(l)
    PROVE  LineInv'
<1> DEFINE n == Len(l)
           S == {k \in 0 .. n - 1 : ~l[k + 1]} \cup {n}
<1>1. l \in Seq(BOOLEAN) /\ n \in Nat /\ n > 0
    BY LenProperties, EmptySeq, LineAssumption DEF Begin
<1>2. PICK head : head = Min(S)
    OBVIOUS
<1>3. head \in S /\ \A y \in S : head <= y
  <2>1. S \subseteq Nat /\ S # {}
      BY <1>1
  <2> HIDE DEF S
  <2> QED
      BY <1>2, <2>1, Smallest
<1>4. /\ line' = l /\ ftype' = [k \in 0 .. n - 1 |-> "Nor"]
      /\ i_nex' = 0 /\ last_state' = 0 /\ last_surface' = -1
      /\ pl_surf' = <<>> /\ past' = (head = n) /\ i' = head
      /\ loop' = IF head = n THEN "left" ELSE "surf"
    BY <1>2 DEF Begin
<1>5. Size' = n /\ Indices' = 0 .. n - 1 /\ \A k : Blind(k)' = l[k + 1]
    BY <1>4 DEF Size, Indices, Blind
<1>6. head \in 0 .. n
    BY <1>1, <1>3
<1>7. LineOK'
  <2>1. ftype' \in [Indices' -> Marks]
      BY <1>4, <1>5 DEF Marks
  <2>2. pl_surf' \in Seq(Nat \X Nat)
      BY <1>4
  <2>3. past' \in BOOLEAN
      BY <1>4
  <2> QED
      BY <1>1, <1>4, <1>6, <2>1, <2>2, <2>3 DEF LineOK
<1>8. IndicesInLine'
    BY <1>1, <1>4, <1>5, <1>6 DEF IndicesInLine
<1>9. BlindUnmarked'
    BY <1>4, <1>5 DEF BlindUnmarked
<1>10. BeforeSample'
  <2> SUFFICES ASSUME head # n PROVE \E k \in 0 .. n - 1 : ~l[k + 1]
      BY <1>4, <1>5 DEF BeforeSample
  <2> QED
      BY <1>3
<1>11. SampleInv'
    BY <1>4 DEF SampleInv
<1> QED
    BY <1>7, <1>8, <1>9, <1>10, <1>11 DEF LineInv

\* What the loops before the last have in common: a step that marks no blind
\* point and keeps i in the line.
LEMMA MarkingStep ==
    ASSUME LineInv, loop \in {"surf", "edge", "small"},
           UNCHANGED <<line, last_surface, pl_surf>>,
           i' \in Nat, ftype' \in [Indices -> Marks],
           loop' \in {"surf", "edge", "small"}, i' <= Size + 3,
           i_nex' \in 0 .. Size, last_state' \in {0, 1}, past' \in BOOLEAN,
           i_nex' = Size /\ last_state' = 1 => past',
           \A k \in Indices : Blind(k) => ftype'[k] = ftype[k]
    PROVE  LineInv'
<1>1. Size' = Size /\ Indices' = Indices /\ \A k : Blind(k)' = Blind(k)
    BY DEF Size, Indices, Blind
<1>2. LineOK /\ Size \in Nat
    BY Places DEF LineInv
<1>3. LineOK'
    BY <1>1, <1>2 DEF LineOK
<1>4. IndicesInLine'
    BY <1>1, <1>2 DEF IndicesInLine
<1>5. BlindUnmarked'
    BY <1>1 DEF BlindUnmarked, LineInv
<1>6. BeforeSample'
    BY <1>1 DEF BeforeSample, LineInv
<1>7. SampleInv'
    BY DEF SampleInv
<1> QED
    BY <1>3, <1>4, <1>5, <1>6, <1>7 DEF LineInv

\* The first loop, in which the indices jump.
LEMMA SurfStep ==
    ASSUME LineInv, Surf
    PROVE  LineInv'
<1>1. /\ LineOK /\ Size \in Nat /\ Indices = 0 .. Size - 1 /\ group_size \in Nat
      /\ i \in Nat /\ past \in BOOLEAN /\ i_nex \in Nat
      /\ loop = "surf" /\ ftype \in [Indices -> Marks]
    BY Places, LineAssumption DEF LineInv, LineOK, Surf
<1>2. i \in Indices /\ ~Blind(i)
    BY <1>1 DEF Surf, SurfEnd
<1>3. PICK j \in Judged :
        /\ i_nex' = j.nex
        /\ IF j.type = 1
           THEN /\ \E first \in {"Edge_Plane", "Real_Plane", "Poss_Plane"} :
                      ftype' = MarkPlane(j.nex, first)
                /\ past' = (past \/ j.nex = Size)
                /\ i' = j.nex /\ last_state' = 1
           ELSE /\ i' = j.nex + 1 /\ last_state' = 0
                /\ UNCHANGED <<ftype, past>>
  <2>1. \A x : x \in (IF last_state = 1 THEN {"Edge_Plane", "Real_Plane", "Poss_Plane"}
                      ELSE {"Poss_Plane"})
              => x \in {"Edge_Plane", "Real_Plane", "Poss_Plane"}
      OBVIOUS
  <2> QED
      BY <2>1 DEF Surf
<1>4. /\ j.nex \in i + 1 .. Size /\ j.nex \in 0 .. Size /\ j.nex \in Nat
      /\ j.type # 2 => \A k \in Indices : i <= k /\ k <= j.nex => ~Blind(k)
    BY <1>1, <1>2, JudgedRight
<1>5. CASE j.type = 1
  <2>1. PICK first \in {"Edge_Plane", "Real_Plane", "Poss_Plane"} :
           ftype' = MarkPlane(j.nex, first)
      BY <1>3, <1>5
  <2>2. ftype' = [k \in Indices |->
                     IF k = i THEN first
                     ELSE IF k = j.nex THEN "Poss_Plane"
                     ELSE IF i < k /\ k < j.nex THEN "Real_Plane" ELSE ftype[k]]
      BY <2>1 DEF MarkPlane
  <2>3. ftype' \in [Indices -> Marks]
      BY <1>1, <2>2 DEF Marks, Planes
  <2>4. ASSUME NEW k \in Indices, Blind(k) PROVE ftype'[k] = ftype[k]
    <3>1. ~(i <= k /\ k <= j.nex) /\ k \in Nat
        BY <1>1, <1>4, <1>5, <2>4
    <3>2. k # i /\ k # j.nex /\ ~(i < k /\ k < j.nex)
        BY <1>1, <1>4, <3>1
    <3> QED
        BY <2>2, <3>2
  <2>5. /\ i' = j.nex /\ i_nex' = j.nex /\ last_state' = 1 /\ past' = (past \/ j.nex = Size)
        /\ UNCHANGED <<line, loop, last_surface, pl_surf>>
      BY <1>3, <1>5 DEF Surf
  <2>6. past' \in BOOLEAN /\ (j.nex = Size => past')
      BY <2>5
  <2>7. i' <= Size + 3
      BY <1>1, <1>4, <2>5
  <2> QED
      BY <1>1, <1>4, <2>3, <2>4, <2>5, <2>6, <2>7, MarkingStep
<1>6. CASE j.type # 1
  <2>1. /\ i' = j.nex + 1 /\ i_nex' = j.nex /\ last_state' = 0
        /\ UNCHANGED <<line, loop, ftype, past, last_surface, pl_surf>>
      BY <1>3, <1>6 DEF Surf
  <2>2. i' \in Nat /\ i' <= Size + 3
      BY <1>1, <1>4, <2>1
  <2> QED
      BY <1>1, <1>4, <2>1, <2>2, MarkingStep
<1> QED
    BY <1>5, <1>6

\* Blind points are skipped; then the second loop starts behind the head.
LEMMA SkipBlindStep ==
    ASSUME LineInv, SkipBlind \/ SurfDone
    PROVE  LineInv'
<1>1. /\ LineOK /\ Size \in Nat /\ group_size \in Nat
      /\ i \in Nat /\ past \in BOOLEAN /\ i_nex \in Nat /\ last_state \in {0, 1}
      /\ loop = "surf" /\ ftype \in [Indices -> Marks]
      /\ i_nex <= Size /\ (i_nex = Size /\ last_state = 1 => past)
    BY Places, LineAssumption DEF LineInv, LineOK, SkipBlind, SurfDone, IndicesInLine
<1>2. /\ UNCHANGED <<line, ftype, i_nex, last_state, last_surface, pl_surf, past>>
      /\ loop' \in {"surf", "edge"}
    BY <1>1 DEF SkipBlind, SurfDone
<1>3. i' \in Nat /\ i' <= Size + 3
  <2>1. CASE SkipBlind
    <3>1. i < SurfEnd /\ i' = i + 1
        BY <2>1 DEF SkipBlind
    <3> QED
        BY <1>1, <3>1 DEF SurfEnd
  <2>2. CASE SurfDone
    <3>1. i' = Head0 + 3 /\ Head0 \in 0 .. Size
        BY <1>1, <2>2, HeadRight DEF SurfDone
    <3> QED
        BY <1>1, <3>1
  <2> QED
      BY <2>1, <2>2
<1>4. i_nex' \in 0 .. Size
    BY <1>1, <1>2
<1> QED
    BY <1>1, <1>2, <1>3, <1>4, MarkingStep

\* The second loop marks single points, none of them blind.
LEMMA EdgeStep ==
    ASSUME LineInv, Edge
    PROVE  LineInv'
<1>1. /\ LineOK /\ Size \in Nat /\ Indices = 0 .. Size - 1
      /\ i \in Nat /\ past \in BOOLEAN /\ i_nex \in Nat /\ last_state \in {0, 1}
      /\ loop = "edge" /\ ftype \in [Indices -> Marks]
      /\ i_nex <= Size /\ (i_nex = Size /\ last_state = 1 => past)
    BY Places DEF LineInv, LineOK, Edge, IndicesInLine
<1>2. /\ UNCHANGED <<line, i_nex, last_state, last_surface, pl_surf, past>>
      /\ i_nex' \in 0 .. Size
    BY <1>1 DEF Edge
<1>3. CASE i < Size - 3
  <2>1. PICK m \in EdgeMarks(i) : ftype' = [ftype EXCEPT ![i] = m]
      BY <1>3 DEF Edge
  <2>2. loop' = loop /\ i' = i + 1 /\ i \in Indices
      BY <1>1, <1>3 DEF Edge
  <2>3. m \in Marks /\ (Blind(i) => m = ftype[i])
    <3>1. ftype[i] \in Marks
        BY <1>1, <2>2
    <3>2. m = ftype[i] \/ m \in {"Edge_Jump", "Wire"}
        BY DEF EdgeMarks
    <3>3. Blind(i) => m = ftype[i]
        BY DEF EdgeMarks
    <3> QED
        BY <3>1, <3>2, <3>3 DEF Marks
  <2>4. /\ ftype' \in [Indices -> Marks]
        /\ \A k \in Indices : Blind(k) => ftype'[k] = ftype[k]
      BY <1>1, <2>1, <2>2, <2>3
  <2>5. i' \in Nat /\ i' <= Size + 3
      BY <1>1, <1>3, <2>2
  <2> QED
      BY <1>1, <1>2, <2>2, <2>4, <2>5, MarkingStep
<1>4. CASE ~(i < Size - 3)
  <2>1. loop' = "small" /\ i' = Head0 + 1 /\ UNCHANGED ftype
      BY <1>4 DEF Edge
  <2>2. i' \in Nat /\ i' <= Size + 3
      BY <1>1, <2>1, HeadRight
  <2> QED
      BY <1>1, <1>2, <2>1, <2>2, MarkingStep
<1> QED
    BY <1>3, <1>4

\* The third loop marks what is not blind; the last loop starts at the head,
\* before which no point is marked.
LEMMA SmallStep ==
    ASSUME LineInv, Small
    PROVE  LineInv'
<1>1. /\ LineOK /\ Size \in Nat /\ Indices = 0 .. Size - 1
      /\ i \in Nat /\ past \in BOOLEAN /\ i_nex \in Nat /\ last_state \in {0, 1}
      /\ loop = "small" /\ ftype \in [Indices -> Marks]
      /\ i_nex <= Size /\ (i_nex = Size /\ last_state = 1 => past)
    BY Places DEF LineInv, LineOK, Small, IndicesInLine
<1>2. /\ UNCHANGED <<line, i_nex, last_state, last_surface, pl_surf, past>>
      /\ i_nex' \in 0 .. Size
    BY <1>1 DEF Small
<1>3. CASE i < Size - 1
  <2>1. loop' = loop /\ i' = i + 1 /\ i' \in Nat /\ i' <= Size + 3
      BY <1>1, <1>3 DEF Small
  <2>2. CASE UNCHANGED ftype
      BY <1>1, <1>2, <2>1, <2>2, MarkingStep
  <2>3. CASE ~(UNCHANGED ftype)
    <3>1. /\ ~Blind(i) /\ \A k \in Beside(i) : ~Blind(k)
          /\ ftype' = [k \in Indices |->
                IF k \in Beside(i) \cup {i} /\ ftype[k] = "Nor"
                THEN "Real_Plane" ELSE ftype[k]]
        BY <1>3, <2>3 DEF Small
    <3>2. ftype' \in [Indices -> Marks]
        BY <1>1, <3>1 DEF Marks, Planes
    <3>3. \A k \in Indices : Blind(k) => ftype'[k] = ftype[k]
        BY <3>1
    <3> QED
        BY <1>1, <1>2, <2>1, <3>2, <3>3, MarkingStep
  <2> QED
      BY <2>2, <2>3
<1>4. CASE ~(i < Size - 1)
  <2>1. loop' = "sample" /\ i' = Head0 /\ UNCHANGED ftype
      BY <1>4 DEF Small
  <2>2. Size' = Size /\ Indices' = Indices /\ \A k : Blind(k)' = Blind(k)
      BY <1>2 DEF Size, Indices, Blind
  <2>3. Head0 \in Nat /\ Head0 <= Size /\ \A k \in Indices : k < Head0 => Blind(k)
      BY <1>1, HeadRight
  <2>4. LineOK'
      BY <1>1, <1>2, <2>1, <2>2, <2>3 DEF LineOK
  <2>5. IndicesInLine'
      BY <1>1, <1>2, <2>1, <2>2 DEF IndicesInLine
  <2>6. BlindUnmarked'
      BY <2>1, <2>2 DEF BlindUnmarked, LineInv
  <2>7. BeforeSample'
      BY <2>1 DEF BeforeSample
  <2>8. pl_surf' = <<>> /\ last_surface' = -1 /\ Len(pl_surf') = 0
      BY <1>1, <1>2 DEF LineInv, BeforeSample
  <2>9. ASSUME NEW k \in 0 .. i' - 1 PROVE ftype'[k] \notin Planes
    <3>1. k \in Indices /\ k < Head0
        BY <1>1, <2>1, <2>3, <2>9
    <3>2. ftype[k] = "Nor"
        BY <2>3, <3>1 DEF LineInv, BlindUnmarked
    <3> QED
        BY <2>1, <3>2 DEF Planes
  <2>10. SampleInv'
    <3>1. i' <= Size' /\ (loop' = "done" => i' = Size')
        BY <2>1, <2>2, <2>3
    <3> QED
        BY <2>8, <2>9, <3>1 DEF SampleInv
  <2> QED
      BY <2>4, <2>5, <2>6, <2>7, <2>10 DEF LineInv
<1> QED
    BY <1>3, <1>4

\* A row that lies behind what is put out is put out.
LEMMA Appended ==
    ASSUME LineOK, NEW a \in Nat, NEW b \in Nat, a <= b, b < Size,
           b - a < point_filter_num, \A m \in a .. b : ftype[m] \in Planes,
           \A n \in 1 .. Len(pl_surf) : PutFromTo(pl_surf, n, a),
           NEW s, s = Append(pl_surf, <<a, b>>)
    PROVE  /\ s \in Seq(Nat \X Nat) /\ Len(s) = Len(pl_surf) + 1
           /\ \A n \in 1 .. Len(pl_surf) : n \in 1 .. Len(s) /\ s[n] = pl_surf[n]
           /\ s[Len(s)] = <<a, b>>
           /\ \A n \in 1 .. Len(s) : PutFromTo(s, n, b + 1)
<1>1. pl_surf \in Seq(Nat \X Nat) /\ Len(pl_surf) \in Nat
    BY LenProperties DEF LineOK
<1>2. /\ s \in Seq(Nat \X Nat) /\ Len(s) = Len(pl_surf) + 1
      /\ \A n \in 1 .. Len(pl_surf) : s[n] = pl_surf[n]
      /\ s[Len(s)] = <<a, b>>
    BY <1>1, AppendProperties
<1>3. ASSUME NEW n \in 1 .. Len(pl_surf)
      PROVE  /\ pl_surf[n] = s[n] /\ PutFromTo(pl_surf, n, a)
             /\ s[n][1] \in Nat /\ s[n][2] \in Nat
             /\ n > 1 => pl_surf[n - 1] = s[n - 1]
  <2>1. pl_surf[n] \in Nat \X Nat
      BY <1>1, <1>3, ElementOfSeq
  <2>2. n > 1 => n - 1 \in 1 .. Len(pl_surf)
      BY <1>1, <1>3
  <2> QED
      BY <1>2, <1>3, <2>1, <2>2
<1>4. ASSUME NEW n \in 1 .. Len(pl_surf) PROVE PutFromTo(s, n, b + 1)
  <2>1. s[n][2] < a => s[n][2] < b + 1
      BY <1>3, <1>4
  <2> QED
      BY <1>3, <1>4, <2>1 DEF PutFromTo
<1>5. PutFromTo(s, Len(s), b + 1)
  <2>1. ASSUME Len(s) > 1 PROVE s[Len(s) - 1][2] < a
    <3>1. Len(pl_surf) \in 1 .. Len(pl_surf) /\ Len(s) - 1 = Len(pl_surf)
        BY <1>1, <1>2, <2>1
    <3> QED
        BY <1>3, <3>1 DEF PutFromTo
  <2> QED
      BY <1>2, <2>1 DEF PutFromTo
<1>6. /\ \A n \in 1 .. Len(s) : n = Len(s) \/ n \in 1 .. Len(pl_surf)
      /\ \A n \in 1 .. Len(pl_surf) : n \in 1 .. Len(s)
    BY <1>1, <1>2
<1> QED
    BY <1>2, <1>4, <1>5, <1>6

\* The last loop takes a point: a plane point begins or lengthens a row, and
\* the row is put out when it is full or when another point ends it.
LEMMA SampleStep ==
    ASSUME LineInv, Sample
    PROVE  LineInv'
<1>1. /\ LineOK /\ Size \in Nat /\ i \in Nat /\ i < Size
      /\ last_surface \in Nat \cup {-1} /\ pl_surf \in Seq(Nat \X Nat)
      /\ point_filter_num \in Nat \ {0} /\ loop = "sample" /\ Len(pl_surf) \in Nat
    BY Places, LenProperties, LineAssumption DEF LineInv, LineOK, Sample
<1>2. /\ UNCHANGED <<line, ftype, loop, i_nex, last_state, past>> /\ i' = i + 1
      /\ Size' = Size /\ Indices' = Indices /\ \A k : Blind(k)' = Blind(k)
    BY DEF Sample, Size, Indices, Blind
<1>3. /\ last_surface # -1 =>
           /\ last_surface < i /\ i - last_surface < point_filter_num
           /\ \A k \in last_surface .. i - 1 : ftype[k] \in Planes
      /\ \A n \in 1 .. Len(pl_surf) :
           PutFromTo(pl_surf, n, IF last_surface = -1 THEN i ELSE last_surface)
      /\ \A k \in 0 .. i - 1 : ftype[k] \in Planes =>
           \/ \E n \in 1 .. Len(pl_surf) : pl_surf[n][1] <= k /\ k <= pl_surf[n][2]
           \/ last_surface # -1 /\ last_surface <= k
    BY <1>1 DEF LineInv, SampleInv
\* What is left to show is a matter of the rows.
<1>4. SUFFICES
         /\ pl_surf' \in Seq(Nat \X Nat) /\ last_surface' \in Nat \cup {-1}
         /\ last_surface' # -1 =>
              /\ last_surface' < i + 1 /\ i + 1 - last_surface' < point_filter_num
              /\ \A k \in last_surface' .. i : ftype[k] \in Planes
         /\ \A n \in 1 .. Len(pl_surf') :
              PutFromTo(pl_surf', n, IF last_surface' = -1 THEN i + 1 ELSE last_surface')
         /\ \A k \in 0 .. i : ftype[k] \in Planes =>
              \/ \E n \in 1 .. Len(pl_surf') : pl_surf'[n][1] <= k /\ k <= pl_surf'[n][2]
              \/ last_surface' # -1 /\ last_surface' <= k
  <2>1. LineOK'
      BY <1>1, <1>2, <1>4 DEF LineOK
  <2>2. IndicesInLine'
      BY <1>1, <1>2 DEF IndicesInLine, LineInv
  <2>3. BlindUnmarked'
      BY <1>2 DEF BlindUnmarked, LineInv
  <2>4. BeforeSample'
      BY <1>1, <1>2 DEF BeforeSample
  <2>5. i' - 1 = i /\ i' <= Size' /\ (loop' = "done" => i' = Size')
      BY <1>1, <1>2
  <2>6. \A s, n, k : PutFromTo(s, n, k)' = PutFromTo(s', n', k')
      BY <1>2 DEF PutFromTo
  <2>7. SampleInv'
      BY <1>2, <1>4, <2>5, <2>6 DEF SampleInv, PutFromTo
  <2> QED
      BY <2>1, <2>2, <2>3, <2>4, <2>7 DEF LineInv
<1>5. CASE ftype[i] \in Planes
  <2>1. PICK from : from = IF last_surface = -1 THEN i ELSE last_surface
      OBVIOUS
  <2>2. /\ last_surface' = IF i = from + point_filter_num - 1 THEN -1 ELSE from
        /\ pl_surf' = IF i = from + point_filter_num - 1
                      THEN Append(pl_surf, <<from, i>>) ELSE pl_surf
      BY <1>5, <2>1 DEF Sample
  <2>3. /\ from \in Nat /\ from <= i /\ i - from < point_filter_num
        /\ \A n \in 1 .. Len(pl_surf) : PutFromTo(pl_surf, n, from)
      BY <1>1, <1>3, <2>1
  <2>4. \A k \in from .. i : ftype[k] \in Planes
    <3>1. \A k \in from .. i : k = i \/ (last_surface # -1 /\ k \in last_surface .. i - 1)
        BY <1>1, <2>1
    <3> QED
        BY <1>3, <1>5, <3>1
  <2>5. \A k \in 0 .. i : ftype[k] \in Planes =>
           \/ \E n \in 1 .. Len(pl_surf) : pl_surf[n][1] <= k /\ k <= pl_surf[n][2]
           \/ from <= k
    <3>1. \A k \in 0 .. i : k \in 0 .. i - 1 \/ from <= k
        BY <1>1, <2>3
    <3> QED
        BY <1>3, <2>1, <3>1
  <2>6. CASE i = from + point_filter_num - 1
    <3>1. pl_surf' = Append(pl_surf, <<from, i>>) /\ last_surface' = -1
        BY <2>2, <2>6
    <3>2. /\ pl_surf' \in Seq(Nat \X Nat) /\ Len(pl_surf') = Len(pl_surf) + 1
          /\ \A n \in 1 .. Len(pl_surf) : n \in 1 .. Len(pl_surf') /\ pl_surf'[n] = pl_surf[n]
          /\ pl_surf'[Len(pl_surf')] = <<from, i>>
          /\ \A n \in 1 .. Len(pl_surf') : PutFromTo(pl_surf', n, i + 1)
      <4>1. PICK s, b : s = pl_surf' /\ b = i
          OBVIOUS
      <4>2. /\ LineOK /\ from \in Nat /\ b \in Nat /\ from <= b /\ b < Size
            /\ b - from < point_filter_num /\ s = Append(pl_surf, <<from, b>>)
          BY <1>1, <2>3, <3>1, <4>1
      <4>3. \A m \in from .. b : ftype[m] \in Planes
          BY <2>4, <4>1
      <4>4. /\ s \in Seq(Nat \X Nat) /\ Len(s) = Len(pl_surf) + 1
            /\ \A n \in 1 .. Len(pl_surf) : n \in 1 .. Len(s) /\ s[n] = pl_surf[n]
            /\ s[Len(s)] = <<from, b>>
            /\ \A n \in 1 .. Len(s) : PutFromTo(s, n, b + 1)
          BY <2>3, <4>2, <4>3, Appended
      <4> QED
          BY <4>1, <4>4
    <3>3. \A k \in 0 .. i : ftype[k] \in Planes =>
             \E n \in 1 .. Len(pl_surf') : pl_surf'[n][1] <= k /\ k <= pl_surf'[n][2]
      <4> TAKE k \in 0 .. i
      <4> HAVE ftype[k] \in Planes
      <4>1. CASE \E n \in 1 .. Len(pl_surf) : pl_surf[n][1] <= k /\ k <= pl_surf[n][2]
        <5>1. PICK n \in 1 .. Len(pl_surf) : pl_surf[n][1] <= k /\ k <= pl_surf[n][2]
            BY <4>1
        <5>2. n \in 1 .. Len(pl_surf') /\ pl_surf'[n] = pl_surf[n]
            BY <3>2
        <5> QED
            BY <5>1, <5>2
      <4>2. CASE from <= k
        <5>1. Len(pl_surf') \in 1 .. Len(pl_surf')
            BY <1>1, <3>2
        <5>2. pl_surf'[Len(pl_surf')][1] <= k /\ k <= pl_surf'[Len(pl_surf')][2]
            BY <1>1, <2>3, <3>2, <4>2
        <5> QED
            BY <5>1, <5>2
      <4> QED
          BY <2>5, <4>1, <4>2
    <3> QED
        BY <3>1, <3>2, <3>3
  <2>7. CASE i # from + point_filter_num - 1
    <3>1. pl_surf' = pl_surf /\ last_surface' = from /\ from # -1
        BY <2>2, <2>3, <2>7
    <3>2. from < i + 1 /\ i + 1 - from < point_filter_num
        BY <1>1, <2>3, <2>7
    <3> QED
        BY <1>1, <2>3, <2>4, <2>5, <3>1, <3>2
  <2> QED
      BY <2>6, <2>7
<1>6. CASE ftype[i] \notin Planes
  <2>1. /\ last_surface' = -1
        /\ pl_surf' = IF last_surface = -1 THEN pl_surf
                      ELSE Append(pl_surf, <<last_surface, i - 1>>)
      BY <1>6 DEF Sample, Row
  <2>2. ASSUME NEW s \in Seq(Nat \X Nat), NEW n \in 1 .. Len(s), PutFromTo(s, n, i)
        PROVE  PutFromTo(s, n, i + 1)
    <3>1. s[n] \in Nat \X Nat
        BY <2>2, ElementOfSeq
    <3>2. s[n][2] < i => s[n][2] < i + 1
        BY <1>1, <3>1
    <3> QED
        BY <2>2, <3>2 DEF PutFromTo
  <2>3. CASE last_surface = -1
    <3>1. \A k \in 0 .. i : ftype[k] \in Planes => k \in 0 .. i - 1
        BY <1>1, <1>6
    <3> QED
        BY <1>1, <1>3, <2>1, <2>2, <2>3, <3>1
  <2>4. CASE last_surface # -1
    <3>1. PICK b : b = i - 1
        OBVIOUS
    <3>2. /\ last_surface \in Nat /\ b \in Nat /\ last_surface <= b /\ b < Size
          /\ b - last_surface < point_filter_num /\ b + 1 = i
          /\ \A m \in last_surface .. b : ftype[m] \in Planes
          /\ \A n \in 1 .. Len(pl_surf) : PutFromTo(pl_surf, n, last_surface)
          /\ pl_surf' = Append(pl_surf, <<last_surface, b>>)
        BY <1>1, <1>3, <2>1, <2>4, <3>1
    <3>3. /\ pl_surf' \in Seq(Nat \X Nat) /\ Len(pl_surf') = Len(pl_surf) + 1
          /\ \A n \in 1 .. Len(pl_surf) : n \in 1 .. Len(pl_surf') /\ pl_surf'[n] = pl_surf[n]
          /\ pl_surf'[Len(pl_surf')] = <<last_surface, b>>
          /\ \A n \in 1 .. Len(pl_surf') : PutFromTo(pl_surf', n, b + 1)
      <4>1. PICK s, a : s = pl_surf' /\ a = last_surface
          OBVIOUS
      <4>2. /\ LineOK /\ a \in Nat /\ b \in Nat /\ a <= b /\ b < Size
            /\ b - a < point_filter_num /\ s = Append(pl_surf, <<a, b>>)
            /\ \A m \in a .. b : ftype[m] \in Planes
            /\ \A n \in 1 .. Len(pl_surf) : PutFromTo(pl_surf, n, a)
          BY <1>1, <3>2, <4>1
      <4>3. /\ s \in Seq(Nat \X Nat) /\ Len(s) = Len(pl_surf) + 1
            /\ \A n \in 1 .. Len(pl_surf) : n \in 1 .. Len(s) /\ s[n] = pl_surf[n]
            /\ s[Len(s)] = <<a, b>>
            /\ \A n \in 1 .. Len(s) : PutFromTo(s, n, b + 1)
          BY <4>2, Appended
      <4> QED
          BY <4>1, <4>3
    <3>4. \A n \in 1 .. Len(pl_surf') : PutFromTo(pl_surf', n, i + 1)
        BY <2>2, <3>2, <3>3
    <3>5. \A k \in 0 .. i : ftype[k] \in Planes =>
             \E n \in 1 .. Len(pl_surf') : pl_surf'[n][1] <= k /\ k <= pl_surf'[n][2]
      <4> TAKE k \in 0 .. i
      <4> HAVE ftype[k] \in Planes
      <4>1. k \in 0 .. i - 1
          BY <1>1, <1>6
      <4>2. CASE \E n \in 1 .. Len(pl_surf) : pl_surf[n][1] <= k /\ k <= pl_surf[n][2]
        <5>1. PICK n \in 1 .. Len(pl_surf) : pl_surf[n][1] <= k /\ k <= pl_surf[n][2]
            BY <4>2
        <5>2. n \in 1 .. Len(pl_surf') /\ pl_surf'[n] = pl_surf[n]
            BY <3>3
        <5> QED
            BY <5>1, <5>2
      <4>3. CASE last_surface <= k
        <5>1. Len(pl_surf') \in 1 .. Len(pl_surf')
            BY <1>1, <3>3
        <5>2. pl_surf'[Len(pl_surf')][1] <= k /\ k <= pl_surf'[Len(pl_surf')][2]
            BY <1>1, <3>1, <3>2, <3>3, <4>1, <4>3
        <5> QED
            BY <5>1, <5>2
      <4> QED
          BY <1>3, <4>1, <4>2, <4>3
    <3> QED
        BY <2>1, <3>3, <3>4, <3>5
  <2> QED
      BY <2>3, <2>4
<1> QED
    BY <1>5, <1>6

-----------------------------------------------------------------------------
\* The invariant holds in every state.
LEMMA LineInvHolds == LineSpec => []LineInv
<1>1. LineInit => LineInv
  <2> SUFFICES ASSUME LineInit PROVE LineInv
      OBVIOUS
  <2>1. Len(line) = 0 /\ Size = 0 /\ Indices = {}
      BY DEF LineInit, Size, Indices
  <2>2. <<>> \in Seq(BOOLEAN) /\ <<>> \in Seq(Nat \X Nat)
      OBVIOUS
  <2>3. LineOK
      BY <2>2 DEF LineInit, LineOK
  <2> QED
      BY <2>1, <2>3 DEF LineInit, LineInv, IndicesInLine, BlindUnmarked, BeforeSample, SampleInv
<1>2. LineInv /\ [LineNext]_lineVars => LineInv'
  <2> SUFFICES ASSUME LineInv, [LineNext]_lineVars PROVE LineInv'
      OBVIOUS
  <2>1. ASSUME NEW l \in Lines, Begin(l) PROVE LineInv'
      BY <2>1, BeginStep
  <2>2. CASE PutOut
    <3>1. /\ UNCHANGED <<line, ftype, i, i_nex, last_state, last_surface, pl_surf, past>>
          /\ loop = "sample" /\ loop' = "done" /\ i >= Size
        BY <2>2 DEF PutOut
    <3>2. Size' = Size /\ Indices' = Indices /\ \A k : Blind(k)' = Blind(k)
        BY <3>1 DEF Size, Indices, Blind
    <3>3. LineOK' /\ IndicesInLine' /\ BlindUnmarked' /\ BeforeSample'
        BY <3>1, <3>2 DEF LineInv, LineOK, IndicesInLine, BlindUnmarked, BeforeSample
    <3>4. i = Size /\ SampleInv
        BY <3>1, Places DEF LineInv, LineOK, SampleInv
    <3>5. SampleInv'
        BY <3>1, <3>2, <3>4 DEF SampleInv, PutFromTo
    <3> QED
        BY <3>3, <3>5 DEF LineInv
  <2>3. CASE UNCHANGED lineVars
    <3>1. Size' = Size /\ Indices' = Indices /\ \A k : Blind(k)' = Blind(k)
        BY <2>3 DEF lineVars, Size, Indices, Blind
    <3>2. LineOK' /\ IndicesInLine' /\ BlindUnmarked' /\ BeforeSample'
        BY <2>3, <3>1 DEF lineVars, LineInv, LineOK, IndicesInLine, BlindUnmarked, BeforeSample
    <3>3. SampleInv'
        BY <2>3, <3>1 DEF lineVars, LineInv, SampleInv, PutFromTo
    <3> QED
        BY <3>2, <3>3 DEF LineInv
  <2> QED
      BY <2>1, <2>2, <2>3, SurfStep, SkipBlindStep, EdgeStep, SmallStep, SampleStep DEF LineNext
<1> QED
    BY <1>1, <1>2, PTL DEF LineSpec

\* What is put out when the line is done: every plane point but those of a
\* row the end of the line cuts off.
LEMMA DoneRight == ASSUME LineInv PROVE PlanesPutOut
<1> SUFFICES ASSUME loop = "done" PROVE PlanesPutOut
    BY DEF PlanesPutOut
<1>1. /\ LineOK /\ SampleInv /\ Size \in Nat /\ Indices = 0 .. Size - 1 /\ i = Size
      /\ point_filter_num \in Nat \ {0} /\ last_surface \in Nat \cup {-1}
      /\ pl_surf \in Seq(Nat \X Nat) /\ DOMAIN pl_surf = 1 .. Len(pl_surf)
    BY Places, LenProperties, LineAssumption DEF LineInv, LineOK, SampleInv
<1>2. ASSUME NEW n \in DOMAIN pl_surf
      PROVE  LET a == pl_surf[n][1]
                 b == pl_surf[n][2]
             IN  /\ b - a < point_filter_num
                 /\ \A k \in a .. b : ftype[k] \in Planes
                 /\ n > 1 => pl_surf[n - 1][2] < a
    BY <1>1, <1>2 DEF SampleInv, PutFromTo
<1>3. ASSUME NEW k \in Indices, ftype[k] \in Planes
      PROVE  \/ \E n \in DOMAIN pl_surf : pl_surf[n][1] <= k /\ k <= pl_surf[n][2]
             \/ /\ Size - k < point_filter_num
                /\ \A m \in k .. Size - 1 : ftype[m] \in Planes
  <2>1. k \in 0 .. i - 1
      BY <1>1
  <2>2. CASE last_surface # -1 /\ last_surface <= k
    <3>1. /\ i - last_surface < point_filter_num
          /\ \A m \in last_surface .. i - 1 : ftype[m] \in Planes
        BY <1>1, <2>2 DEF SampleInv
    <3>2. Size - k < point_filter_num
        BY <1>1, <2>1, <2>2, <3>1
    <3>3. \A m \in k .. Size - 1 : m \in last_surface .. i - 1
        BY <1>1, <2>1, <2>2
    <3> QED
        BY <3>1, <3>2, <3>3
  <2> QED
      BY <1>1, <1>3, <2>1, <2>2 DEF SampleInv
<1> QED
    BY <1>2, <1>3 DEF PlanesPutOut

\* preprocess.cpp:503-760: however the points lie and wherever the blind ones
\* are, the jumping indices stay in the line, no blind point is marked, and
\* every plane point is put out exactly once, unless the end of the line cuts
\* its row off.
THEOREM FeaturesAreRight == LineSpec => []FeaturesRight
<1>1. LineInv => FeaturesRight
    BY DoneRight DEF LineInv, FeaturesRight
<1> QED
    BY <1>1, LineInvHolds, PTL

-----------------------------------------------------------------------------
(* Preprocess: the time made up from the angles is the time elapsed.       *)

\* The ring has an angle to count from, which its first point set.
Counted(r) == handler = "velodyne" /\ ~given_offset_time /\ r < N_SCANS

\* Of every ring: its points come in order; what its first point has set is
\* its angle then, and the time of its last one is the time elapsed since.
RingRight(r) ==
    /\ began[r] <= at[r] /\ at[r] <= turn
    /\ Counted(r) /\ ~is_first[r] =>
          /\ yaw_fp[r] = Cloud!yaw_angle(r, began[r])
          /\ time_last[r] = at[r] - began[r]
    /\ handler # "none" /\ ~Counted(r) => began[r] = 0

CloudInv ==
    /\ turn \in Nat /\ turn < 2 * Revolution
    /\ at \in [Rings -> Nat] /\ began \in [Rings -> Nat] /\ start \in [Rings -> Int]
    /\ is_first \in [Rings -> BOOLEAN]
    /\ yaw_fp \in [Rings -> Int] /\ time_last \in [Rings -> Int]
    /\ put.curvature = put.elapsed
    /\ \A r \in Rings : RingRight(r)

\* An angle is in (-1/2, 1/2] of a revolution, and what the lidar turned off
\* the start of the ring, but for whole revolutions.
LEMMA YawRight ==
    ASSUME start \in [Rings -> Int], NEW r \in Rings, NEW t \in Nat
    PROVE  \E k \in Int : /\ Cloud!yaw_angle(r, t) = start[r] - t + k * Revolution
                          /\ Cloud!yaw_angle(r, t) \in Int
                          /\ 2 * Cloud!yaw_angle(r, t) <= Revolution
                          /\ 0 - Revolution < 2 * Cloud!yaw_angle(r, t)
<1>1. PICK s \in Int : s = start[r] - t
    OBVIOUS
<1>2. PICK a, q : a = (s % Revolution) /\ q = s \div Revolution
    OBVIOUS
<1>3. /\ Revolution \in Nat \ {0} /\ q \in Int /\ a \in 0 .. Revolution - 1
      /\ s = Revolution * q + a
    BY <1>1, <1>2, CloudAssumption
<1>4. Cloud!yaw_angle(r, t) = IF 2 * a > Revolution THEN a - Revolution ELSE a
    BY <1>1, <1>2 DEF Cloud!yaw_angle
<1>5. PICK y, p : y = Cloud!yaw_angle(r, t) /\ p = Revolution * q
    OBVIOUS
<1>6. p \in Int /\ s = p + a /\ y = IF 2 * a > Revolution THEN a - Revolution ELSE a
    BY <1>3, <1>4, <1>5
<1>7. y \in Int /\ 2 * y <= Revolution /\ 0 - Revolution < 2 * y
    BY <1>3, <1>6
<1>8. \E k \in Int : y = s + k * Revolution
  <2>1. CASE 2 * a > Revolution
    <3>1. (0 - q - 1) * Revolution = 0 - p - Revolution
        BY <1>3, <1>5
    <3>2. 0 - q - 1 \in Int /\ y = s + (0 - p - Revolution)
        BY <1>3, <1>6, <2>1
    <3> QED
        BY <3>1, <3>2
  <2>2. CASE ~(2 * a > Revolution)
    <3>1. (0 - q) * Revolution = 0 - p
        BY <1>3, <1>5
    <3>2. 0 - q \in Int /\ y = s + (0 - p)
        BY <1>3, <1>6, <2>2
    <3> QED
        BY <3>1, <3>2
  <2> QED
      BY <2>1, <2>2
<1> QED
    BY <1>1, <1>5, <1>7, <1>8

\* The heart: from the angle of the first point, the present one and the time
\* of the last point follows the time elapsed, over two revolutions.
LEMMA OffsetElapsed ==
    ASSUME CloudInv, NEW r \in Rings, NEW t \in Nat,
           Counted(r), ~is_first[r],
           at[r] <= t, t < 2 * Revolution, t - at[r] < Revolution
    PROVE  Cloud!Offset(r, Cloud!yaw_angle(r, t)) = t - began[r]
<1>1. PICK y0, y1, e, last :
        /\ y0 = Cloud!yaw_angle(r, began[r]) /\ y1 = Cloud!yaw_angle(r, t)
        /\ e = t - began[r] /\ last = at[r] - began[r]
    OBVIOUS
<1>2. /\ began[r] \in Nat /\ at[r] \in Nat /\ start[r] \in Int /\ Revolution \in Nat \ {0}
      /\ began[r] <= at[r]
      /\ yaw_fp[r] = y0 /\ time_last[r] = last
    BY <1>1, CloudAssumption DEF CloudInv, RingRight
<1>3. /\ e \in Nat /\ last \in Nat /\ last <= e /\ e < last + Revolution
      /\ e < 2 * Revolution
    BY <1>1, <1>2
<1>4. PICK k0 \in Int : /\ y0 = start[r] - began[r] + k0 * Revolution
                        /\ y0 \in Int /\ 2 * y0 <= Revolution /\ 0 - Revolution < 2 * y0
  <2>1. PICK t0 \in Nat : t0 = began[r]
      BY <1>2
  <2>2. y0 = Cloud!yaw_angle(r, t0)
      BY <1>1, <2>1
  <2>3. \E k0 \in Int : /\ y0 = start[r] - t0 + k0 * Revolution
                        /\ y0 \in Int /\ 2 * y0 <= Revolution /\ 0 - Revolution < 2 * y0
      BY <2>2, YawRight DEF CloudInv
  <2> QED
      BY <2>1, <2>3
<1>5. PICK k1 \in Int : /\ y1 = start[r] - t + k1 * Revolution
                        /\ y1 \in Int /\ 2 * y1 <= Revolution /\ 0 - Revolution < 2 * y1
    BY <1>1, YawRight DEF CloudInv
<1>6. PICK turned : turned = IF y1 <= y0 THEN y0 - y1 ELSE y0 - y1 + Revolution
    OBVIOUS
<1>7. /\ turned \in Nat /\ turned < Revolution
    BY <1>2, <1>4, <1>5, <1>6
<1>8. PICK k \in Int : turned = e + k * Revolution
  <2>1. y0 - y1 = e + (k0 - k1) * Revolution
    <3>1. (k0 - k1) * Revolution = k0 * Revolution - k1 * Revolution
        BY <1>2
    <3>2. k0 * Revolution \in Int /\ k1 * Revolution \in Int
        BY <1>2
    <3> QED
        BY <1>1, <1>2, <1>4, <1>5, <3>1, <3>2
  <2>2. CASE y1 <= y0
      BY <1>6, <2>1, <2>2
  <2>3. CASE ~(y1 <= y0)
    <3>1. (k0 - k1) * Revolution + Revolution = (k0 - k1 + 1) * Revolution
        BY <1>2
    <3>2. (k0 - k1) * Revolution \in Int /\ k0 - k1 + 1 \in Int
        BY <1>2
    <3>3. turned = e + (k0 - k1 + 1) * Revolution
        BY <1>2, <1>3, <1>4, <1>5, <1>6, <2>1, <2>3, <3>1, <3>2
    <3> QED
        BY <3>2, <3>3
  <2> QED
      BY <2>2, <2>3
<1>9. turned = e \/ turned = e - Revolution
  <2>1. k * Revolution \in Int /\ k * Revolution < Revolution /\ 0 - 2 * Revolution < k * Revolution
      BY <1>2, <1>3, <1>7, <1>8
  <2>2. k >= 1 => k * Revolution >= Revolution
      BY <1>2
  <2>3. k <= -2 => k * Revolution <= 0 - 2 * Revolution
      BY <1>2
  <2>4. k = 0 \/ k = -1
      BY <1>2, <2>1, <2>2, <2>3
  <2>5. 0 * Revolution = 0 /\ (-1) * Revolution = 0 - Revolution
      BY <1>2
  <2> QED
      BY <1>2, <1>3, <1>7, <1>8, <2>4, <2>5
<1>10. Cloud!Offset(r, y1) = IF turned < last THEN turned + Revolution ELSE turned
    BY <1>2, <1>6 DEF Cloud!Offset
<1> QED
    BY <1>1, <1>2, <1>3, <1>7, <1>9, <1>10

\* A point of a cloud, whichever handler takes it.
LEMMA PointStep ==
    ASSUME CloudInv, Cloud!Point
    PROVE  CloudInv'
<1>1. PICK r \in Rings, d \in TurnSteps, near \in BOOLEAN :
        /\ turn + d < 2 * Revolution /\ turn + d - at[r] < Revolution
        /\ turn' = turn + d /\ at' = [at EXCEPT ![r] = turn + d]
        /\ \/ Cloud!velodyne_handler(r, near) \/ Cloud!oust64_handler(r, near)
           \/ Cloud!sim_handler(r, near)
        /\ UNCHANGED <<handler, feature_enabled, given_offset_time, start>>
    BY DEF Cloud!Point, Cloud!cloudVars
<1>2. /\ turn \in Nat /\ d \in Nat /\ Revolution \in Nat \ {0} /\ r \in Int /\ N_SCANS \in Int
      /\ at \in [Rings -> Nat] /\ began \in [Rings -> Nat] /\ start \in [Rings -> Int]
      /\ is_first \in [Rings -> BOOLEAN] /\ put.curvature = put.elapsed
      /\ yaw_fp \in [Rings -> Int] /\ time_last \in [Rings -> Int]
    BY <1>1, CloudAssumption DEF CloudInv
<1>3. PICK t \in Nat : t = turn'
    BY <1>1, <1>2
<1>4. /\ t < 2 * Revolution /\ turn <= t /\ at[r] <= t /\ t - at[r] < Revolution
      /\ began[r] <= t /\ at' = [at EXCEPT ![r] = t] /\ at' \in [Rings -> Nat] /\ start' = start
    BY <1>1, <1>2, <1>3 DEF CloudInv, RingRight
<1>5. \A q : Counted(q)' = Counted(q)
    BY <1>1 DEF Counted
<1>6. \A q, u : Cloud!yaw_angle(q, u)' = Cloud!yaw_angle(q', u')
    BY <1>1 DEF Cloud!yaw_angle
\* Points of rings other than r stay as they are.
<1>7. ASSUME NEW q \in Rings, q # r,
             began'[q] = began[q], is_first'[q] = is_first[q],
             yaw_fp'[q] = yaw_fp[q], time_last'[q] = time_last[q]
      PROVE  RingRight(q)'
  <2>1. RingRight(q) /\ at'[q] = at[q] /\ at[q] \in Nat /\ handler' = handler
      BY <1>1, <1>2, <1>4, <1>7 DEF CloudInv
  <2>2. turn' = t /\ turn <= t
      BY <1>3, <1>4
  <2>3. Cloud!yaw_angle(q, began[q])' = Cloud!yaw_angle(q, began[q])
      BY <1>4, <1>7 DEF Cloud!yaw_angle
  <2> QED
      BY <1>2, <1>5, <1>7, <2>1, <2>2, <2>3 DEF RingRight
<1>8. CASE Counted(r) /\ is_first[r] /\ Cloud!velodyne_handler(r, near)
  <2>1. /\ is_first' = [is_first EXCEPT ![r] = FALSE]
        /\ yaw_fp' = [yaw_fp EXCEPT ![r] = Cloud!yaw_angle(r, t)]
        /\ time_last' = [time_last EXCEPT ![r] = 0]
        /\ began' = [began EXCEPT ![r] = t]
        /\ put' = put
      BY <1>2, <1>3, <1>8 DEF Cloud!velodyne_handler, Counted
  <2>2. Cloud!yaw_angle(r, t) \in Int
      BY <1>2, YawRight
  <2>3. /\ began' \in [Rings -> Nat] /\ is_first' \in [Rings -> BOOLEAN]
        /\ yaw_fp' \in [Rings -> Int] /\ time_last' \in [Rings -> Int]
        /\ began'[r] = t /\ yaw_fp'[r] = Cloud!yaw_angle(r, t) /\ time_last'[r] = 0
        /\ at'[r] = t
      BY <1>2, <1>4, <2>1, <2>2
  <2>4. Cloud!yaw_angle(r, began[r])' = Cloud!yaw_angle(r, t)
      BY <1>4, <2>3 DEF Cloud!yaw_angle
  <2>5. RingRight(r)'
    <3>1. Counted(r)'
        BY <1>5, <1>8
    <3>2. began'[r] <= at'[r] /\ at'[r] <= turn' /\ time_last'[r] = at'[r] - began'[r]
      <4>1. t <= t /\ t - t = 0
          OBVIOUS
      <4>2. began'[r] = t /\ at'[r] = t /\ time_last'[r] = 0
          BY <2>3
      <4> QED
          BY <1>3, <4>1, <4>2
    <3>3. yaw_fp'[r] = (Cloud!yaw_angle(r, began[r]))'
        BY <2>3, <2>4, Zenon
    <3> QED
        BY <3>1, <3>2, <3>3 DEF RingRight
  <2>6. ASSUME NEW q \in Rings, q # r PROVE RingRight(q)'
      BY <1>2, <1>7, <2>1, <2>6
  <2> QED
      BY <1>3, <1>4, <1>2, <2>1, <2>3, <2>5, <2>6 DEF CloudInv
<1>9. CASE Counted(r) /\ ~is_first[r] /\ Cloud!velodyne_handler(r, near)
  <2>1. Cloud!Offset(r, Cloud!yaw_angle(r, t)) = t - began[r]
      BY <1>4, <1>9, OffsetElapsed
  <2>2. /\ time_last' = [time_last EXCEPT ![r] = t - began[r]]
        /\ put' = put \/ Cloud!Put(r, t - began[r])
        /\ is_first' = is_first /\ yaw_fp' = yaw_fp /\ began' = began
      BY <1>2, <1>3, <1>9, <2>1 DEF Cloud!velodyne_handler, Counted
  <2>3. put'.curvature = put'.elapsed
      BY <1>2, <1>3, <2>2 DEF Cloud!Put
  <2>4. /\ time_last' \in [Rings -> Int] /\ time_last'[r] = t - began[r] /\ at'[r] = t
      BY <1>2, <1>4, <2>2
  <2>5. RingRight(r)'
    <3>1. yaw_fp[r] = Cloud!yaw_angle(r, began[r])
        BY <1>9 DEF CloudInv, RingRight
    <3>2. Cloud!yaw_angle(r, began[r])' = Cloud!yaw_angle(r, began[r])
        BY <1>4, <2>2 DEF Cloud!yaw_angle
    <3> QED
        BY <1>2, <1>3, <1>4, <1>5, <1>9, <2>2, <2>4, <3>1, <3>2 DEF RingRight
  <2>6. ASSUME NEW q \in Rings, q # r PROVE RingRight(q)'
      BY <1>2, <1>7, <2>2, <2>6
  <2> QED
      BY <1>3, <1>4, <1>2, <2>2, <2>3, <2>4, <2>5, <2>6 DEF CloudInv
<1>10. CASE ~(Counted(r) /\ Cloud!velodyne_handler(r, near))
  <2>1. /\ is_first' = is_first /\ yaw_fp' = yaw_fp /\ time_last' = time_last /\ began' = began
        /\ handler # "none" /\ ~Counted(r)
        /\ \/ put' = put \/ Cloud!Put(r, t)
           \/ put' = [ring |-> r, curvature |-> 0, elapsed |-> 0]
    <3>1. CASE Cloud!velodyne_handler(r, near)
        BY <1>2, <1>3, <1>10, <3>1 DEF Cloud!velodyne_handler, Counted, Cloud!ringVars
    <3>2. CASE Cloud!oust64_handler(r, near)
        BY <1>3, <3>2 DEF Cloud!oust64_handler, Counted, Cloud!ringVars
    <3>3. CASE Cloud!sim_handler(r, near)
        BY <1>3, <3>3 DEF Cloud!sim_handler, Counted, Cloud!ringVars
    <3> QED
        BY <1>1, <3>1, <3>2, <3>3
  <2>2. began[r] = 0
      BY <2>1 DEF CloudInv, RingRight
  <2>3. put'.curvature = put'.elapsed
      BY <1>2, <1>3, <2>1, <2>2 DEF Cloud!Put
  <2>4. RingRight(r)'
    <3>1. at'[r] = t
        BY <1>2, <1>4
    <3> QED
        BY <1>2, <1>3, <1>4, <1>5, <2>1, <2>2, <3>1 DEF RingRight
  <2>5. ASSUME NEW q \in Rings, q # r PROVE RingRight(q)'
      BY <1>2, <1>7, <2>1, <2>5
  <2> QED
      BY <1>3, <1>4, <1>2, <2>1, <2>3, <2>4, <2>5 DEF CloudInv
<1> QED
    BY <1>8, <1>9, <1>10

\* preprocess.cpp:288-485: whatever the rings start at and however the lidar
\* turns over less than two revolutions, the time a point is given is the time
\* since the first point of its ring.
THEOREM OffsetsAreRight == Cloud!Spec => []Cloud!OffsetsRight
<1>1. Cloud!Init => CloudInv
  <2> SUFFICES ASSUME Cloud!Init PROVE CloudInv
      OBVIOUS
  <2>1. /\ handler = "none" /\ start = [r \in Rings |-> 0] /\ turn = 0
        /\ at = [r \in Rings |-> 0] /\ began = [r \in Rings |-> 0]
        /\ is_first = [r \in Rings |-> TRUE] /\ yaw_fp = [r \in Rings |-> 0]
        /\ time_last = [r \in Rings |-> 0] /\ put.curvature = put.elapsed
      BY DEF Cloud!Init, Cloud!Each, Cloud!NoPoint
  <2> QED
      BY <2>1, CloudAssumption DEF CloudInv, RingRight, Counted
<1>2. CloudInv /\ [Cloud!Next]_Cloud!vars => CloudInv'
  <2> SUFFICES ASSUME CloudInv, [Cloud!Next]_Cloud!vars PROVE CloudInv'
      OBVIOUS
  <2>1. CASE Cloud!Done
    <3>1. /\ handler' = "none"
          /\ UNCHANGED <<start, turn, at, began, is_first, yaw_fp, time_last, put>>
        BY <2>1 DEF Cloud!Done, Cloud!history, Cloud!ringVars
    <3> QED
        BY <3>1 DEF CloudInv, RingRight, Counted
  <2>2. ASSUME NEW h \in {"velodyne", "oust64", "sim"}, Cloud!process(h) PROVE CloudInv'
    <3>1. /\ start' \in [Rings -> Int] /\ turn' = 0
          /\ at' = [r \in Rings |-> 0] /\ began' = [r \in Rings |-> 0]
          /\ is_first' = [r \in Rings |-> TRUE] /\ yaw_fp' = [r \in Rings |-> 0]
          /\ time_last' = [r \in Rings |-> 0] /\ put'.curvature = put'.elapsed
        BY <2>2, CloudAssumption DEF Cloud!process, Cloud!Each, Cloud!NoPoint
    <3> QED
        BY <3>1, CloudAssumption DEF CloudInv, RingRight
  <2>3. CASE UNCHANGED Cloud!vars
    <3>1. UNCHANGED <<handler, given_offset_time, start, turn, at, began,
                      is_first, yaw_fp, time_last, put>>
        BY <2>3 DEF Cloud!vars, Cloud!cloudVars, Cloud!history, Cloud!ringVars
    <3> QED
        BY <3>1 DEF CloudInv, RingRight, Counted, Cloud!yaw_angle
  <2> QED
      BY <2>1, <2>2, <2>3, PointStep DEF Cloud!Next
<1>3. CloudInv => Cloud!OffsetsRight
    BY DEF CloudInv, Cloud!OffsetsRight
<1> QED
    BY <1>1, <1>2, <1>3, PTL DEF Cloud!Spec

\* preprocess.cpp: both at once, as the run of FAST-LIO checks it.
THEOREM CloudsArePrepared ==
    LineSpec /\ Cloud!Spec => []CloudsPrepared
<1>1. LineSpec => []FeaturesRight
    BY FeaturesAreRight
<1>2. Cloud!Spec => []Cloud!OffsetsRight
    BY OffsetsAreRight
<1> QED
    BY <1>1, <1>2, PTL DEF CloudsPrepared
=============================================================================
