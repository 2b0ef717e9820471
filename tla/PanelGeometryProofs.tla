------------------------ MODULE PanelGeometryProofs ------------------------
(***************************************************************************)
(* PanelGeometry for every size and chain of panels, every font and every  *)
(* drawing call: its types; set_pixel keeps no two pixels in one cell;     *)
(* refresh_task reads every cell once; the planes of a cell are lit for    *)
(* the gamma level they hold; the module implements PanelCanvas; and       *)
(* scroll_text lets a text all the way through.                            *)
(***************************************************************************)
EXTENDS PanelGeometry, Recursion, FiniteSetTheorems, TLAPS

(***************************************************************************)
(* Arithmetic: division with remainder, and items laid out row by row.     *)
(***************************************************************************)

LEMMA DivMod ==
  ASSUME NEW n \in Nat, NEW w \in Nat \ {0}
  PROVE  /\ n \div w \in Nat /\ n % w \in 0 .. w - 1
         /\ n = (n \div w) * w + (n % w)
  OBVIOUS

\* n is place b of row a, in h rows of w.
PlaceIn(n, h, w, a, b) == n \in 0 .. h * w - 1 /\ n \div w = a /\ n % w = b

LEMMA RowMajor ==
  ASSUME NEW w \in Nat \ {0}, NEW h \in Nat, NEW a \in 0 .. h - 1, NEW b \in 0 .. w - 1
  PROVE  PlaceIn(a * w + b, h, w, a, b)
<1>1. a * w + b <= h * w - 1
  OBVIOUS
<1>2. a * w + b \in Nat
  OBVIOUS
<1> DEFINE n == a * w + b
           q == n \div w
           r == n % w
<1>3. q \in Nat /\ r \in 0 .. w - 1 /\ n = q * w + r
  BY <1>2, DivMod
<1>4. q = a
  <2>1. CASE q >= a + 1
    OBVIOUS
  <2>2. CASE q + 1 <= a
    OBVIOUS
  <2> QED BY <1>3, <2>1, <2>2
<1> QED BY <1>1, <1>2, <1>3, <1>4 DEF PlaceIn

\* More rows take more room.
LEMMA TimesGrows ==
  ASSUME NEW a \in Nat, NEW b \in Nat, NEW w \in Nat, a <= b
  PROVE  a * w \in Nat /\ b * w \in Nat /\ a * w <= b * w
  OBVIOUS

(***************************************************************************)
(* The levels: the bits of a level, lit for the time of their planes, add  *)
(* up to the level, whenever there are as many planes as it has bits.      *)
(***************************************************************************)

\* Each plane is lit twice as long as the one before it.
LEMMA TimesDefined ==
  PlaneTime = [p \in 0 .. Depth |-> IF p = 0 THEN 1 ELSE 2 * PlaneTime[p - 1]]
<1> DEFINE Good(f) == f = [p \in 0 .. Depth |-> IF p = 0 THEN 1 ELSE 2 * f[p - 1]]
           step == [p \in 1 .. Depth |-> [t \in Nat |-> 2 * t]]
<1>1. Depth \in Nat /\ 1 \in Nat /\ step \in [1 .. Depth -> [Nat -> Nat]]
  BY GeometryAssumption
<1>2. \A p \in 1 .. Depth, t \in Nat : step[p][t] = 2 * t
  OBVIOUS
<1> HIDE DEF step
<1>3. \E f : Good(f)
  <2> HIDE DEF Good
  <2>1. PICK f \in [0 .. Depth -> Nat] : Follows(f, Depth, 1, step)
    BY <1>1, RecursionExists
  <2>2. ASSUME NEW p \in 1 .. Depth PROVE f[p] = 2 * f[p - 1]
    <3>1. f[p - 1] \in Nat
      BY <1>1
    <3> QED BY <1>2, <2>1, <3>1 DEF Follows
  <2>3. Good(f)
    BY <1>1, <2>1, <2>2 DEF Good, Follows
  <2> QED BY <2>3
<1>4. PlaneTime = CHOOSE f : Good(f)
  BY DEF PlaneTime
<1> HIDE DEF Good
<1>5. Good(PlaneTime)
  BY <1>3, <1>4
<1> QED BY <1>5 DEF Good

LEMMA TimesTyped == \A p \in 0 .. Depth : PlaneTime[p] \in Nat
<1> DEFINE T == {p \in 0 .. Depth : PlaneTime[p] \in Nat}
<1>1. Depth \in Nat
  BY GeometryAssumption
<1>2. 0 \in T
  BY <1>1, TimesDefined
<1>3. ASSUME NEW p \in 0 .. Depth - 1, p \in T PROVE p + 1 \in T
  <2>1. PlaneTime[p + 1] = 2 * PlaneTime[p]
    BY <1>1, TimesDefined
  <2> QED BY <1>1, <1>3, <2>1
<1> HIDE DEF T
<1>4. 0 .. Depth \subseteq T
  BY <1>1, <1>2, <1>3, UpTo
<1> QED BY <1>4 DEF T

\* Each shift by one more halves what the shift before it left.
LEMMA ShiftsDefined ==
  ASSUME NEW level \in Nat
  PROVE  Shifted(level) =
           [p \in 0 .. Depth |-> IF p = 0 THEN level ELSE Shifted(level)[p - 1] \div 2]
<1> DEFINE Good(f) == f = [p \in 0 .. Depth |-> IF p = 0 THEN level ELSE f[p - 1] \div 2]
           step == [p \in 1 .. Depth |-> [n \in Nat |-> n \div 2]]
<1>1. Depth \in Nat /\ step \in [1 .. Depth -> [Nat -> Nat]]
  BY GeometryAssumption
<1>2. \A p \in 1 .. Depth, n \in Nat : step[p][n] = n \div 2
  OBVIOUS
<1> HIDE DEF step
<1>3. \E f : Good(f)
  <2> HIDE DEF Good
  <2>1. PICK f \in [0 .. Depth -> Nat] : Follows(f, Depth, level, step)
    BY <1>1, RecursionExists
  <2>2. ASSUME NEW p \in 1 .. Depth PROVE f[p] = f[p - 1] \div 2
    <3>1. f[p - 1] \in Nat
      BY <1>1
    <3> QED BY <1>2, <2>1, <3>1 DEF Follows
  <2>3. Good(f)
    BY <1>1, <2>1, <2>2 DEF Good, Follows
  <2> QED BY <2>3
<1>4. Shifted(level) = CHOOSE f : Good(f)
  BY DEF Shifted
<1> HIDE DEF Good
<1>5. Good(Shifted(level))
  BY <1>3, <1>4
<1> QED BY <1>5 DEF Good

\* The time lit, plane after plane, grows by the time of each plane of the set.
LEMMA LitDefined ==
  ASSUME NEW planes \in SUBSET Planes
  PROVE  LitUntil(planes) =
           [p \in 0 .. Depth |-> IF p = 0 THEN 0 ELSE
              LitUntil(planes)[p - 1] + IF p - 1 \in planes THEN PlaneTime[p - 1] ELSE 0]
<1> DEFINE more == [p \in 1 .. Depth |-> IF p - 1 \in planes THEN PlaneTime[p - 1] ELSE 0]
           Good(f) == f = [p \in 0 .. Depth |-> IF p = 0 THEN 0 ELSE
                             f[p - 1] + IF p - 1 \in planes THEN PlaneTime[p - 1] ELSE 0]
           step == [p \in 1 .. Depth |-> [t \in Nat |-> t + more[p]]]
<1>1. Depth \in Nat /\ 0 \in Nat /\ \A p \in 1 .. Depth : more[p] \in Nat
  BY GeometryAssumption, TimesTyped
<1>2. \A p \in 1 .. Depth, t \in Nat : step[p][t] = t + more[p]
  OBVIOUS
<1>3. step \in [1 .. Depth -> [Nat -> Nat]]
  <2> HIDE DEF more
  <2> QED BY <1>1
<1> HIDE DEF step
<1>4. \E f : Good(f)
  <2> HIDE DEF Good
  <2>1. PICK f \in [0 .. Depth -> Nat] : Follows(f, Depth, 0, step)
    BY <1>1, <1>3, RecursionExists
  <2>2. ASSUME NEW p \in 1 .. Depth PROVE f[p] = f[p - 1] + more[p]
    <3>1. f[p - 1] \in Nat
      BY <1>1
    <3> QED BY <1>2, <2>1, <3>1 DEF Follows
  <2>3. Good(f)
    BY <1>1, <2>1, <2>2 DEF Good, Follows
  <2> QED BY <2>3
<1>5. LitUntil(planes) = CHOOSE f : Good(f)
  BY DEF LitUntil
<1> HIDE DEF Good
<1>6. Good(LitUntil(planes))
  BY <1>4, <1>5
<1> QED BY <1>6 DEF Good

\* What is lit in all: a natural number, for every set of planes.
LEMMA WeightTyped ==
  ASSUME NEW planes \in SUBSET Planes
  PROVE  Weight[planes] \in Nat /\ \A p \in 0 .. Depth : LitUntil(planes)[p] \in Nat
<1> DEFINE T == {p \in 0 .. Depth : LitUntil(planes)[p] \in Nat}
<1>1. Depth \in Nat
  BY GeometryAssumption
<1>2. 0 \in T
  BY <1>1, LitDefined
<1>3. ASSUME NEW p \in 0 .. Depth - 1, p \in T PROVE p + 1 \in T
  <2>1. LitUntil(planes)[p + 1] =
          LitUntil(planes)[p] + IF p \in planes THEN PlaneTime[p] ELSE 0
    BY <1>1, LitDefined
  <2>2. PlaneTime[p] \in Nat
    BY <1>1, TimesTyped
  <2> QED BY <1>1, <1>3, <2>1, <2>2
<1> HIDE DEF T
<1>4. 0 .. Depth \subseteq T
  BY <1>1, <1>2, <1>3, UpTo
<1> QED BY <1>1, <1>4 DEF T, Weight

\* The planes that hold the bits of a level.
PlanesOf(level) == {p \in Planes : Shifted(level)[p] % 2 = 1}

\* After p planes, what has been lit and what is left of the level are the level.
Split(level, p) ==
  /\ LitUntil(PlanesOf(level))[p] \in Nat
  /\ Shifted(level)[p] \in Nat
  /\ LitUntil(PlanesOf(level))[p] + PlaneTime[p] * Shifted(level)[p] = level
  /\ p >= 1 => Shifted(level)[p] <= 3
  /\ p >= 2 => Shifted(level)[p] <= 1
  /\ p >= 3 => Shifted(level)[p] = 0

\* No level of the table loses a bit to a depth of three planes or more.
LEMMA LevelKept ==
  ASSUME Depth >= 3, NEW level \in 0 .. 7
  PROVE  Weight[PlanesOf(level)] = level
<1> DEFINE S == Shifted(level)
           L == LitUntil(PlanesOf(level))
           T == {p \in 0 .. Depth : Split(level, p)}
<1>1. Depth \in Nat /\ level \in Nat /\ PlanesOf(level) \in SUBSET Planes
  BY GeometryAssumption DEF PlanesOf
<1>2. /\ S[0] = level /\ L[0] = 0 /\ PlaneTime[0] = 1
      /\ \A p \in 0 .. Depth - 1 :
           /\ S[p + 1] = S[p] \div 2
           /\ L[p + 1] = L[p] + IF p \in PlanesOf(level) THEN PlaneTime[p] ELSE 0
           /\ PlaneTime[p + 1] = 2 * PlaneTime[p] /\ PlaneTime[p] \in Nat
           /\ p \in PlanesOf(level) <=> S[p] % 2 = 1
  <2>1. \A p \in 0 .. Depth : S[p] = IF p = 0 THEN level ELSE S[p - 1] \div 2
    BY <1>1, ShiftsDefined
  <2>2. \A p \in 0 .. Depth :
          L[p] = IF p = 0 THEN 0 ELSE
                   L[p - 1] + IF p - 1 \in PlanesOf(level) THEN PlaneTime[p - 1] ELSE 0
    BY <1>1, LitDefined
  <2>3. \A p \in 0 .. Depth : PlaneTime[p] = IF p = 0 THEN 1 ELSE 2 * PlaneTime[p - 1]
    BY TimesDefined
  <2>4. \A p \in 0 .. Depth - 1 : p \in PlanesOf(level) <=> S[p] % 2 = 1
    BY DEF PlanesOf, Planes
  <2> HIDE DEF S, L
  <2> QED BY <1>1, <2>1, <2>2, <2>3, <2>4, TimesTyped
<1>3. 0 \in T
  BY <1>1, <1>2 DEF Split
<1>4. ASSUME NEW p \in 0 .. Depth - 1, p \in T PROVE p + 1 \in T
  <2>1. Split(level, p) /\ p \in Nat
    BY <1>1, <1>4
  <2> PICK s \in Nat : s = S[p]
    BY <2>1 DEF Split
  <2> PICK l \in Nat : l = L[p]
    BY <2>1 DEF Split
  <2> PICK t \in Nat : t = PlaneTime[p]
    BY <1>2
  <2>2. S[p + 1] = s \div 2 /\ PlaneTime[p + 1] = 2 * t /\ (s % 2 = 1 \/ s % 2 = 0)
    BY <1>2
  <2>3. L[p + 1] = l + IF s % 2 = 1 THEN t ELSE 0
    BY <1>2
  <2>4. s = 2 * (s \div 2) + (s % 2) /\ s \div 2 \in Nat
    OBVIOUS
  <2>5. /\ l + t * s = level
        /\ p >= 1 => s <= 3
        /\ p >= 2 => s <= 1
        /\ p >= 3 => s = 0
    BY <2>1 DEF Split
  <2> HIDE DEF S, L
  <2>6. L[p + 1] + PlaneTime[p + 1] * S[p + 1] = level
    <3> PICK half \in Nat : half = s \div 2
      BY <2>4
    <3>1. CASE s % 2 = 1
      <4>1. s = 2 * half + 1 /\ t * s = 2 * t * half + t
        BY <2>4, <3>1
      <4> QED BY <2>2, <2>3, <2>5, <3>1, <4>1
    <3>2. CASE s % 2 = 0
      <4>1. s = 2 * half /\ t * s = 2 * t * half
        BY <2>4, <3>2
      <4> QED BY <2>2, <2>3, <2>5, <3>2, <4>1
    <3> QED BY <2>2, <3>1, <3>2
  <2>7. /\ p + 1 >= 1 => S[p + 1] <= 3
        /\ p + 1 >= 2 => S[p + 1] <= 1
        /\ p + 1 >= 3 => S[p + 1] = 0
    <3>1. p = 0 => s <= 7
      BY <1>2
    <3> QED BY <2>1, <2>2, <2>4, <2>5, <3>1
  <2>8. L[p + 1] \in Nat /\ S[p + 1] \in Nat
    BY <2>2, <2>3, <2>4
  <2> QED BY <1>1, <2>6, <2>7, <2>8 DEF Split, S, L
<1> HIDE DEF T
<1>5. 0 .. Depth \subseteq T
  BY <1>1, <1>3, <1>4, UpTo
<1>6. Split(level, Depth)
  BY <1>1, <1>5 DEF T
<1>7. L[Depth] = level
  BY <1>6, <1>1, TimesTyped DEF Split
<1> QED BY <1>1, <1>7 DEF Weight

\* The gamma table holds levels of three bits.
LEMMA GammaTyped ==
  ASSUME NEW v \in 0 .. 255
  PROVE  GammaTable[v] \in 0 .. 7
<1> DEFINE reached == {k \in 1 .. 7 : v >= GammaStart[k]}
<1>1. IsFiniteSet(1 .. 7) /\ Cardinality(1 .. 7) = 7
  <2>1. PICK n \in Int : n = 7
    OBVIOUS
  <2>2. PICK m \in Int : m = 1
    OBVIOUS
  <2>3. IsFiniteSet(m .. n) /\ Cardinality(m .. n) = IF m > n THEN 0 ELSE n - m + 1
    BY FS_Interval
  <2> QED BY <2>1, <2>2, <2>3
<1>2. reached \in SUBSET (1 .. 7)
  OBVIOUS
<1>3. Cardinality(reached) \in 0 .. 7
  <2> HIDE DEF reached
  <2>1. IsFiniteSet(reached) /\ Cardinality(reached) <= Cardinality(1 .. 7)
    BY <1>1, <1>2, FS_Subset
  <2>2. Cardinality(reached) \in Nat
    BY <2>1, FS_CardinalityType
  <2> QED BY <1>1, <2>1, <2>2
<1> QED BY <1>3 DEF GammaTable

(***************************************************************************)
(* Where a pixel is kept and when a cell is read.                          *)
(***************************************************************************)

LEMMA Sizes ==
  /\ PanelWidth \in Nat \ {0} /\ PanelHeight \in Nat \ {0} /\ NHor \in Nat \ {0} /\ NVer \in Nat \ {0}
  /\ VirtWidth = NHor * PanelWidth /\ VirtHeight = NVer * PanelHeight
  /\ PhysPanels = NVer * NHor /\ PhyWidth = PhysPanels * PanelWidth /\ PhyHeight = PanelHeight
  /\ VirtWidth \in Nat \ {0} /\ VirtHeight \in Nat \ {0}
  /\ PhysPanels \in Nat \ {0} /\ PhyWidth \in Nat \ {0}
  /\ ScanRows \in Nat \ {0} /\ PanelHeight = 4 * ScanRows
<1>1. /\ PanelWidth \in Nat \ {0} /\ PanelHeight \in Nat \ {0} /\ PanelHeight % 4 = 0
      /\ NHor \in Nat \ {0} /\ NVer \in Nat \ {0}
  BY GeometryAssumption
<1>2. ScanRows \in Nat \ {0} /\ PanelHeight = 4 * ScanRows
  BY <1>1 DEF ScanRows
<1>3. VirtWidth = NHor * PanelWidth /\ VirtWidth \in Nat \ {0}
  BY <1>1 DEF VirtWidth
<1>4. VirtHeight = NVer * PanelHeight /\ VirtHeight \in Nat \ {0}
  BY <1>1 DEF VirtHeight
<1>5. PhysPanels = NVer * NHor /\ PhysPanels \in Nat \ {0}
  BY <1>1 DEF PhysPanels
<1>6. PhyWidth = PhysPanels * PanelWidth /\ PhyWidth \in Nat \ {0}
  BY <1>1, <1>5 DEF PhyWidth
<1> QED BY <1>1, <1>2, <1>3, <1>4, <1>5, <1>6 DEF PhyHeight

\* v lies in one of n panels of w.
PlacedIn(v, n, w) ==
  v \div w \in 0 .. n - 1 /\ v % w \in 0 .. w - 1 /\ v = (v \div w) * w + (v % w)

LEMMA PanelOf ==
  ASSUME NEW n \in Nat, NEW w \in Nat \ {0}, NEW v \in 0 .. n * w - 1
  PROVE  PlacedIn(v, n, w)
<1>1. n * w \in Nat /\ v \in Nat
  OBVIOUS
<1> DEFINE q == v \div w
<1>2. q \in Nat /\ v % w \in 0 .. w - 1 /\ v = q * w + (v % w)
  BY <1>1, DivMod
<1>3. q < n
  <2> SUFFICES ASSUME q >= n PROVE FALSE
    BY <1>2
  <2> HIDE DEF q
  <2>1. q * w >= n * w
    BY <1>2
  <2>2. q * w \in Nat
    BY <1>2
  <2> QED BY <1>1, <1>2, <2>1, <2>2
<1> QED BY <1>2, <1>3 DEF PlacedIn

\* set_pixel: the panel of a pixel, and its cell in the chain.
LEMMA CellParts ==
  ASSUME NEW x \in 0 .. VirtWidth - 1, NEW y \in 0 .. VirtHeight - 1,
         NEW panel, panel = (y \div PanelHeight) * NHor + x \div PanelWidth
  PROVE  /\ panel \in 0 .. PhysPanels - 1
         /\ panel \div NHor = y \div PanelHeight /\ panel % NHor = x \div PanelWidth
         /\ CellOf(x, y) = <<y % PanelHeight, panel * PanelWidth + (x % PanelWidth)>>
         /\ CellOf(x, y) \in Cells
         /\ CellOf(x, y)[2] \div PanelWidth = panel
         /\ CellOf(x, y)[2] % PanelWidth = x % PanelWidth
<1>1. x \div PanelWidth \in 0 .. NHor - 1 /\ x % PanelWidth \in 0 .. PanelWidth - 1
  BY Sizes, PanelOf DEF PlacedIn
<1>2. y \div PanelHeight \in 0 .. NVer - 1 /\ y % PanelHeight \in 0 .. PanelHeight - 1
  BY Sizes, PanelOf DEF PlacedIn
<1>3. /\ panel \in 0 .. PhysPanels - 1
      /\ panel \div NHor = y \div PanelHeight /\ panel % NHor = x \div PanelWidth
  <2> PICK a \in 0 .. NVer - 1 : a = y \div PanelHeight
    BY <1>2
  <2> PICK b \in 0 .. NHor - 1 : b = x \div PanelWidth
    BY <1>1
  <2>1. NHor \in Nat \ {0} /\ NVer \in Nat /\ PhysPanels = NVer * NHor
    BY Sizes
  <2>2. PlaceIn(a * NHor + b, NVer, NHor, a, b)
    BY <2>1, RowMajor, Zenon
  <2> QED BY <2>1, <2>2 DEF PlaceIn
<1> DEFINE place == panel * PanelWidth + (x % PanelWidth)
<1>4. /\ place \in 0 .. PhyWidth - 1
      /\ place \div PanelWidth = panel /\ place % PanelWidth = x % PanelWidth
  <2>1. PhysPanels \in Nat /\ PanelWidth \in Nat \ {0} /\ PhyWidth = PhysPanels * PanelWidth
    BY Sizes
  <2> PICK b \in 0 .. PanelWidth - 1 : b = x % PanelWidth
    BY <1>1
  <2>2. PlaceIn(panel * PanelWidth + b, PhysPanels, PanelWidth, panel, b)
    BY <1>3, <2>1, RowMajor, Zenon
  <2> QED BY <2>1, <2>2 DEF PlaceIn
<1>5. CellOf(x, y) = <<y % PanelHeight, place>>
  BY DEF CellOf
<1> HIDE DEF place
<1>6. CellOf(x, y) \in Cells /\ CellOf(x, y)[2] = place
  BY <1>2, <1>4, <1>5, Sizes DEF Cells
<1> QED BY <1>3, <1>4, <1>5, <1>6 DEF place

\* set_pixel: every pixel of the display has a cell of its own in the plane
\* buffers, so that its second comparison, with the size of the buffers, never
\* turns a pixel of the display away.
THEOREM PixelsHaveCells ==
  /\ \A p \in VirtPixels : CellOf(p[1], p[2]) \in Cells
  /\ \A p, q \in VirtPixels : CellOf(p[1], p[2]) = CellOf(q[1], q[2]) => p = q
<1>1. ASSUME NEW p \in VirtPixels
      PROVE  p[1] \in 0 .. VirtWidth - 1 /\ p[2] \in 0 .. VirtHeight - 1 /\ p = <<p[1], p[2]>>
  BY DEF VirtPixels
<1>2. ASSUME NEW p \in VirtPixels PROVE CellOf(p[1], p[2]) \in Cells
  BY <1>1, CellParts
<1>3. ASSUME NEW p \in VirtPixels, NEW q \in VirtPixels,
             CellOf(p[1], p[2]) = CellOf(q[1], q[2])
      PROVE  p = q
  <2> PICK i : i = (p[2] \div PanelHeight) * NHor + p[1] \div PanelWidth
    OBVIOUS
  <2> PICK j : j = (q[2] \div PanelHeight) * NHor + q[1] \div PanelWidth
    OBVIOUS
  <2>1. /\ i \div NHor = p[2] \div PanelHeight /\ i % NHor = p[1] \div PanelWidth
        /\ CellOf(p[1], p[2]) = <<p[2] % PanelHeight, i * PanelWidth + (p[1] % PanelWidth)>>
        /\ CellOf(p[1], p[2])[2] \div PanelWidth = i
        /\ CellOf(p[1], p[2])[2] % PanelWidth = p[1] % PanelWidth
    BY <1>1, CellParts
  <2>2. /\ j \div NHor = q[2] \div PanelHeight /\ j % NHor = q[1] \div PanelWidth
        /\ CellOf(q[1], q[2]) = <<q[2] % PanelHeight, j * PanelWidth + (q[1] % PanelWidth)>>
        /\ CellOf(q[1], q[2])[2] \div PanelWidth = j
        /\ CellOf(q[1], q[2])[2] % PanelWidth = q[1] % PanelWidth
    BY <1>1, CellParts
  <2>3. /\ p[1] \div PanelWidth = q[1] \div PanelWidth /\ p[1] % PanelWidth = q[1] % PanelWidth
        /\ p[2] \div PanelHeight = q[2] \div PanelHeight /\ p[2] % PanelHeight = q[2] % PanelHeight
    <3>1. i = j /\ p[1] % PanelWidth = q[1] % PanelWidth
      BY <1>3, <2>1, <2>2, Zenon
    <3>2. p[2] % PanelHeight = q[2] % PanelHeight
      <4>1. CellOf(p[1], p[2])[1] = p[2] % PanelHeight
        BY <2>1
      <4>2. CellOf(q[1], q[2])[1] = q[2] % PanelHeight
        BY <2>2
      <4> QED BY <1>3, <4>1, <4>2
    <3> QED BY <2>1, <2>2, <3>1, <3>2
  <2>4. p[1] = q[1]
    <3>1. /\ p[1] = (p[1] \div PanelWidth) * PanelWidth + (p[1] % PanelWidth)
          /\ q[1] = (q[1] \div PanelWidth) * PanelWidth + (q[1] % PanelWidth)
      BY <1>1, Sizes, PanelOf DEF PlacedIn
    <3> QED BY <2>3, <3>1
  <2>5. p[2] = q[2]
    <3>1. /\ p[2] = (p[2] \div PanelHeight) * PanelHeight + (p[2] % PanelHeight)
          /\ q[2] = (q[2] \div PanelHeight) * PanelHeight + (q[2] % PanelHeight)
      BY <1>1, Sizes, PanelOf DEF PlacedIn
    <3> QED BY <2>3, <3>1
  <2> QED BY <1>1, <2>4, <2>5
<1> QED BY <1>2, <1>3

\* The quarter of a panel's rows that a clock reads: the odd half of a panel's
\* columns comes before the even one, and the second line two quarters below.
Quarter(clock) == 2 * clock.line - 1 - ((clock.col \div PanelWidth) % 2)

\* refresh_task: the parts of the cell that a clock reads.
LEMMA ScanParts ==
  ASSUME NEW clock \in Clocks, NEW half, half = clock.col \div PanelWidth
  PROVE  /\ half \in 0 .. 2 * PhysPanels - 1
         /\ clock.col = half * PanelWidth + (clock.col % PanelWidth)
         /\ Quarter(clock) \in 0 .. 3 /\ Quarter(clock) = 2 * clock.line - 1 - (half % 2)
         /\ PlaceIn(ScanCell(clock)[1], 4, ScanRows, Quarter(clock), clock.row)
         /\ PlaceIn(ScanCell(clock)[2], PhysPanels, PanelWidth, half \div 2, clock.col % PanelWidth)
         /\ ScanCell(clock) \in Cells
<1>1. /\ clock.row \in 0 .. ScanRows - 1 /\ clock.col \in 0 .. TotalCols - 1 /\ clock.line \in {1, 2}
      /\ PanelWidth \in Nat \ {0} /\ PhysPanels \in Nat \ {0} /\ ScanRows \in Nat \ {0} /\ 4 \in Nat
  BY Sizes DEF Clocks
<1>2. TotalCols = (2 * PhysPanels) * PanelWidth /\ 2 * PhysPanels \in Nat
  BY <1>1 DEF TotalCols
<1>3. /\ half \in 0 .. 2 * PhysPanels - 1 /\ clock.col % PanelWidth \in 0 .. PanelWidth - 1
      /\ clock.col = half * PanelWidth + (clock.col % PanelWidth)
  BY <1>1, <1>2, PanelOf DEF PlacedIn
<1> PICK q : q = Quarter(clock)
  OBVIOUS
<1> PICK d : d = half \div 2
  OBVIOUS
<1> PICK b \in 0 .. PanelWidth - 1 : b = clock.col % PanelWidth
  BY <1>3
<1> PICK row \in 0 .. ScanRows - 1 : row = clock.row
  BY <1>1
<1>4. /\ q \in 0 .. 4 - 1 /\ d \in 0 .. PhysPanels - 1
      /\ q = 2 * clock.line - 1 - (half % 2)
  <2>1. half % 2 \in {0, 1} /\ d \in 0 .. PhysPanels - 1
    <3>1. PhysPanels \in Nat /\ half \in 0 .. 2 * PhysPanels - 1
      BY <1>1, <1>3
    <3> QED BY <3>1
  <2>2. q = 2 * clock.line - 1 - (half % 2)
    BY DEF Quarter
  <2> QED BY <1>1, <2>1, <2>2
<1>5. ScanCell(clock) = <<q * ScanRows + row, d * PanelWidth + b>>
  <2>1. half % 2 \in {0, 1}
    BY <1>3
  <2>2. q = IF clock.line = 1 THEN IF half % 2 = 1 THEN 0 ELSE 1 ELSE IF half % 2 = 1 THEN 2 ELSE 3
    BY <1>1, <1>4, <2>1
  <2>3. ScanCell(clock)[2] = d * PanelWidth + b
    BY DEF ScanCell
  <2>4. ScanCell(clock)[1] = q * ScanRows + row
    BY <1>1, <2>1, <2>2 DEF ScanCell
  <2> QED BY <2>3, <2>4 DEF ScanCell
<1>6. PlaceIn(q * ScanRows + row, 4, ScanRows, q, row)
  BY <1>1, <1>4, RowMajor, Zenon
<1>7. PlaceIn(d * PanelWidth + b, PhysPanels, PanelWidth, d, b)
  BY <1>1, <1>4, RowMajor, Zenon
<1>8. /\ PlaceIn(ScanCell(clock)[1], 4, ScanRows, q, row)
      /\ PlaceIn(ScanCell(clock)[2], PhysPanels, PanelWidth, d, b)
  BY <1>5, <1>6, <1>7
<1>9. ScanCell(clock) \in Cells
  BY <1>5, <1>6, <1>7, Sizes DEF Cells, PlaceIn
<1> QED BY <1>3, <1>4, <1>8, <1>9

\* refresh_task: a pass over the rows and columns of a plane reads every cell of
\* it once, leaving none out and lighting none twice.
THEOREM CellsReadOnce ==
  \A cell \in Cells : Visits[cell] = 1
<1> SUFFICES ASSUME NEW cell \in Cells PROVE Visits[cell] = 1
  OBVIOUS
<1>1. /\ PanelWidth \in Nat \ {0} /\ PhysPanels \in Nat \ {0} /\ ScanRows \in Nat \ {0} /\ 4 \in Nat
      /\ cell[1] \in 0 .. 4 * ScanRows - 1 /\ cell[2] \in 0 .. PhysPanels * PanelWidth - 1
      /\ cell = <<cell[1], cell[2]>>
  BY Sizes DEF Cells
<1> PICK q : q = cell[1] \div ScanRows
  OBVIOUS
<1> PICK row : row = cell[1] % ScanRows
  OBVIOUS
<1> PICK d : d = cell[2] \div PanelWidth
  OBVIOUS
<1> PICK b : b = cell[2] % PanelWidth
  OBVIOUS
<1>2. q \in 0 .. 3 /\ row \in 0 .. ScanRows - 1 /\ cell[1] = q * ScanRows + row
  <2> PICK v \in 0 .. 4 * ScanRows - 1 : v = cell[1]
    BY <1>1
  <2>1. PlacedIn(v, 4, ScanRows)
    BY <1>1, PanelOf, Zenon
  <2> QED BY <2>1 DEF PlacedIn
<1>3. d \in 0 .. PhysPanels - 1 /\ b \in 0 .. PanelWidth - 1 /\ cell[2] = d * PanelWidth + b
  <2> PICK v \in 0 .. PhysPanels * PanelWidth - 1 : v = cell[2]
    BY <1>1
  <2>1. PhysPanels \in Nat /\ PanelWidth \in Nat \ {0}
    BY <1>1
  <2>2. PlacedIn(v, PhysPanels, PanelWidth)
    BY <2>1, PanelOf, Zenon
  <2> QED BY <2>2 DEF PlacedIn
<1> PICK half \in 0 .. 2 * PhysPanels - 1 : half = 2 * d + IF q \in {0, 2} THEN 1 ELSE 0
  <2>1. PhysPanels \in Nat /\ d \in 0 .. PhysPanels - 1
    BY <1>1, <1>3
  <2> QED BY <2>1
<1> DEFINE first == [row |-> row, col |-> half * PanelWidth + b, line |-> IF q < 2 THEN 1 ELSE 2]
<1>4. first \in Clocks /\ first.col \div PanelWidth = half /\ first.col % PanelWidth = b
  <2>1. 2 * PhysPanels \in Nat /\ TotalCols = (2 * PhysPanels) * PanelWidth
    BY <1>1 DEF TotalCols
  <2>2. PlaceIn(half * PanelWidth + b, 2 * PhysPanels, PanelWidth, half, b)
    BY <1>1, <1>3, <2>1, RowMajor, Zenon
  <2> QED BY <1>2, <2>1, <2>2 DEF Clocks, PlaceIn
<1>5. half \div 2 = d /\ half % 2 = IF q \in {0, 2} THEN 1 ELSE 0
  BY <1>3
<1>6. ScanCell(first) = cell
  <2>1. Quarter(first) = 2 * first.line - 1 - (half % 2)
    BY <1>4 DEF Quarter
  <2>2. Quarter(first) = q
    BY <1>2, <1>5, <2>1
  <2>3. first.line = (IF q < 2 THEN 1 ELSE 2) /\ first.row = row
    OBVIOUS
  <2>4. ScanCell(first)[2] = d * PanelWidth + b
    BY <1>4, <1>5 DEF ScanCell
  <2>5. ScanCell(first)[1] =
          LET y1 == IF half % 2 = 1 THEN row ELSE row + ScanRows
          IN IF q < 2 THEN y1 ELSE y1 + 2 * ScanRows
    <3>1. first.line = 1 <=> q < 2
      BY <2>3
    <3> HIDE DEF first
    <3> QED BY <1>4, <2>3, <3>1 DEF ScanCell
  <2>6. ScanCell(first)[1] = q * ScanRows + row
    <3> HIDE DEF first
    <3>1. ScanRows \in Nat /\ row \in Nat /\ q \in 0 .. 3
      BY <1>1, <1>2
    <3>2. CASE q = 0
      BY <1>5, <2>5, <3>1, <3>2
    <3>3. CASE q = 1
      BY <1>5, <2>5, <3>1, <3>3
    <3>4. CASE q = 2
      BY <1>5, <2>5, <3>1, <3>4
    <3>5. CASE q = 3
      BY <1>5, <2>5, <3>1, <3>5
    <3> QED BY <3>1, <3>2, <3>3, <3>4, <3>5
  <2>7. ScanCell(first) = <<ScanCell(first)[1], ScanCell(first)[2]>>
    BY DEF ScanCell
  <2> HIDE DEF first
  <2> QED BY <1>1, <1>2, <1>3, <2>4, <2>6, <2>7
<1>7. ASSUME NEW clock \in Clocks, ScanCell(clock) = cell PROVE clock = first
  <2> PICK h : h = clock.col \div PanelWidth
    OBVIOUS
  <2>1. /\ h \in 0 .. 2 * PhysPanels - 1 /\ clock.col = h * PanelWidth + (clock.col % PanelWidth)
        /\ Quarter(clock) \in 0 .. 3 /\ Quarter(clock) = 2 * clock.line - 1 - (h % 2)
    BY ScanParts
  <2>2. /\ PlaceIn(ScanCell(clock)[1], 4, ScanRows, Quarter(clock), clock.row)
        /\ PlaceIn(ScanCell(clock)[2], PhysPanels, PanelWidth, h \div 2, clock.col % PanelWidth)
    BY ScanParts
  <2>3. Quarter(clock) = q /\ clock.row = row /\ h \div 2 = d /\ clock.col % PanelWidth = b
    BY <1>7, <2>2 DEF PlaceIn
  <2>4. clock.line \in {1, 2} /\ clock = [row |-> clock.row, col |-> clock.col, line |-> clock.line]
    BY DEF Clocks
  <2>5. h % 2 \in {0, 1} /\ h = 2 * (h \div 2) + (h % 2)
    BY <2>1
  <2>6. clock.line = first.line /\ h = half
    BY <2>1, <2>3, <2>4, <2>5
  <2> QED BY <2>1, <2>3, <2>4, <2>6
<1> HIDE DEF first
<1>8. {clock \in Clocks : ScanCell(clock) = cell} = {first}
  BY <1>4, <1>6, <1>7
<1> QED BY <1>8, FS_Singleton DEF Visits

(***************************************************************************)
(* Types. While scroll_text runs, it has one of its calls for arguments    *)
(* and draws one of that call's frames.                                    *)
(***************************************************************************)

ScrollPlaced ==
  /\ scroller = "idle" => scroll_x = 0
  /\ scroller # "idle" => scroll_call \in Scrolls /\ scroll_x < TotalScroll(scroll_call.text)

GeomInv == TypeOK /\ ScrollPlaced

LEMMA AllOffTyped == AllOff \in PlaneBuffers
  BY DEF AllOff, PlaneBuffers

\* The clipping of set_pixel suffices: its second check refuses no pixel of the
\* display, for every size of panel and every chain of them, and none is lost to it.
THEOREM ClippingSuffices ==
  ASSUME NEW painting
  PROVE  Written(painting) = {q \in DOMAIN painting : OnDisplay(q[1], q[2])}
<1>1. ASSUME NEW x, NEW y, OnDisplay(x, y) PROVE CellOf(x, y) \in Cells
  <2> PICK p \in VirtPixels : p = <<x, y>>
    BY <1>1 DEF OnDisplay, VirtPixels
  <2>1. CellOf(p[1], p[2]) \in Cells
    BY PixelsHaveCells
  <2> QED BY <2>1
<1> QED BY <1>1 DEF Written

\* set_pixel: whatever is painted, it is written to cells of the buffers, and the
\* planes hold channels.
LEMMA SetPixelsTyped ==
  ASSUME NEW painting, back_planes \in PlaneBuffers, SetPixels(painting)
  PROVE  back_planes' \in PlaneBuffers
<1> DEFINE pixels == Written(painting)
           cells == {CellOf(q[1], q[2]) : q \in pixels}
           colour == [cell \in cells |-> painting[CHOOSE q \in pixels : CellOf(q[1], q[2]) = cell]]
<1>2. back_planes' = [p \in Planes |-> [cell \in Cells \cup cells |->
             IF cell \in cells THEN BitsOf(colour[cell], p) ELSE back_planes[p][cell]]]
  BY DEF SetPixels
<1>3. Cells \cup cells = Cells
  BY DEF Written
<1> HIDE DEF pixels, cells, colour
<1>1. ASSUME NEW p \in Planes, NEW cell \in Cells
      PROVE  BitsOf(colour[cell], p) \in SUBSET Channels /\ back_planes[p][cell] \in SUBSET Channels
  BY DEF BitsOf, PlaneBuffers
<1> QED BY <1>1, <1>2, <1>3 DEF PlaneBuffers

\* A scroll_text has at least the frames that cross the display.
LEMMA ScrollLength ==
  ASSUME NEW call \in Scrolls
  PROVE  /\ TotalScroll(call.text) = Len(call.text) * (FontWidth + 1) + VirtWidth
         /\ Len(call.text) \in Nat /\ Len(call.text) * (FontWidth + 1) \in Nat
         /\ TotalScroll(call.text) \in Nat \ {0}
<1>1. /\ Len(call.text) \in Nat /\ FontWidth \in Nat /\ VirtWidth \in Nat \ {0}
      /\ TotalScroll(call.text) = Len(call.text) * (FontWidth + 1) + VirtWidth
  BY GeometryAssumption, Sizes DEF InARow, TotalScroll
<1>2. ASSUME NEW n \in Nat, NEW w \in Nat PROVE n * (w + 1) \in Nat
  OBVIOUS
<1>3. Len(call.text) * (FontWidth + 1) \in Nat
  BY <1>1, <1>2
<1> DEFINE width == Len(call.text) * (FontWidth + 1)
<1>4. width \in Nat /\ TotalScroll(call.text) = width + VirtWidth
  BY <1>1, <1>3
<1>5. TotalScroll(call.text) \in Nat \ {0}
  <2>1. VirtWidth \in Nat \ {0}
    BY Sizes
  <2> HIDE DEF width
  <2>2. width + VirtWidth \in Nat \ {0}
    BY <1>4, <2>1
  <2> QED BY <1>4, <2>2
<1> QED BY <1>1, <1>3, <1>5

LEMMA GeomInvInit ==
  ASSUME Init
  PROVE  GeomInv
<1>1. front_planes \in PlaneBuffers /\ back_planes \in PlaneBuffers
  BY AllOffTyped DEF Init
<1> QED BY <1>1, GeometryAssumption DEF Init, GeomInv, TypeOK, ScrollPlaced

LEMMA GeomInvStep ==
  ASSUME GeomInv, [Next]_vars
  PROVE  GeomInv'
<1> USE DEF GeomInv, TypeOK, ScrollPlaced
<1>m. MaxCalls \in Nat
  BY GeometryAssumption
<1>1. CASE DrawText \/ DrawBitmap
  <2>1. PICK painting : Draw(painting)
    BY <1>1 DEF DrawText, DrawBitmap
  <2>2. back_planes' \in PlaneBuffers
    BY <2>1, SetPixelsTyped DEF Draw
  <2> QED BY <1>m, <2>1, <2>2 DEF Draw, scrollVars
<1>2. CASE ClearBackBuffer
  BY <1>2, AllOffTyped DEF ClearBackBuffer, ClearPlanes, scrollVars
<1>3. CASE SwapBuffers
  BY <1>3 DEF SwapBuffers, SwapPlanes, scrollVars
<1>4. CASE ScrollBegins
  <2>1. scroll_call' \in Scrolls /\ 0 < TotalScroll(scroll_call'.text)
    BY <1>4, ScrollLength DEF ScrollBegins
  <2> QED BY <1>m, <1>4, <2>1 DEF ScrollBegins
<1>5. CASE ScrollClears
  BY <1>5, AllOffTyped DEF ScrollClears, ScrollTo, ClearPlanes
<1>6. CASE ScrollDraws
  <2>1. back_planes' \in PlaneBuffers
    BY <1>6, SetPixelsTyped DEF ScrollDraws
  <2> QED BY <1>6, <2>1 DEF ScrollDraws, ScrollTo
<1>7. CASE ScrollSwaps
  BY <1>7 DEF ScrollSwaps, ScrollTo, SwapPlanes
<1>8. CASE ScrollNext
  BY <1>8 DEF ScrollNext
<1>9. CASE RefreshPass
  <2>1. ASSUME NEW cell \in Cells, NEW ch \in Channels
        PROVE  Visits[cell] * Weight[{p \in Planes : ch \in front_planes[p][cell]}] \in Nat
    <3>1. Weight[{p \in Planes : ch \in front_planes[p][cell]}] \in Nat
      BY WeightTyped
    <3>2. Visits[cell] = 1
      BY CellsReadOnce
    <3> QED BY <3>1, <3>2
  <2>2. light' \in [Cells -> [Channels -> Nat]]
    BY <1>9, <2>1 DEF RefreshPass
  <2> QED BY <1>9, <2>2 DEF RefreshPass, scrollVars
<1>10. CASE UNCHANGED vars
  BY <1>10 DEF vars, scrollVars
<1> QED BY <1>1, <1>2, <1>3, <1>4, <1>5, <1>6, <1>7, <1>8, <1>9, <1>10 DEF Next, ScrollStep

\* Whatever is drawn, wherever it is placed, no plane ever has a cell outside of
\* its buffer, where a stray set_pixel would leave one: pixels off the display are
\* clipped, and the mapping of the others ends in the buffers.
THEOREM TypeCorrect == Spec => []TypeOK
<1>1. Init => GeomInv
  BY GeomInvInit
<1>2. GeomInv /\ [Next]_vars => GeomInv'
  BY GeomInvStep
<1>3. GeomInv => TypeOK
  BY DEF GeomInv
<1> QED BY <1>1, <1>2, <1>3, PTL DEF Spec

(***************************************************************************)
(* The pictures. A painting names pixels, and gives each a colour.         *)
(***************************************************************************)

Dark == [ch \in Channels |-> 0]
Blank == [p \in VirtPixels |-> Dark]

Painting(painting) ==
  \A q \in DOMAIN painting : q = <<q[1], q[2]>> /\ painting[q] \in Colours

\* A picture with a stroke painted over it.
Over(picture, stroke) ==
  [p \in VirtPixels |-> IF p \in DOMAIN stroke THEN stroke[p] ELSE picture[p]]

\* No planes, no light.
LEMMA NoPlanesDark == Weight[{}] = 0
<1> DEFINE L == LitUntil({})
           T == {p \in 0 .. Depth : L[p] = 0}
<1>1. Depth \in Nat /\ {} \in SUBSET Planes
  BY GeometryAssumption
<1>2. \A p \in 0 .. Depth : L[p] = IF p = 0 THEN 0 ELSE L[p - 1] + 0
  BY <1>1, LitDefined
<1> HIDE DEF L
<1>3. 0 \in T
  BY <1>1, <1>2
<1>4. ASSUME NEW p \in 0 .. Depth - 1, p \in T PROVE p + 1 \in T
  BY <1>1, <1>2, <1>4
<1> HIDE DEF T
<1>5. 0 .. Depth \subseteq T
  BY <1>1, <1>3, <1>4, UpTo
<1>6. L[Depth] = 0
  BY <1>1, <1>5 DEF T
<1> QED BY <1>1, <1>6 DEF Weight, L

\* Cleared planes show a blank picture.
LEMMA AllOffBlank == PictureIn(AllOff) = Blank
<1>1. ASSUME NEW p \in VirtPixels PROVE LevelIn(AllOff, CellOf(p[1], p[2])) = Dark
  <2> PICK cell \in Cells : cell = CellOf(p[1], p[2])
    BY PixelsHaveCells
  <2>1. ASSUME NEW ch \in Channels PROVE {pl \in Planes : ch \in AllOff[pl][cell]} = {}
    BY DEF AllOff
  <2>2. LevelIn(AllOff, cell) = [ch \in Channels |-> Weight[{}]]
    BY <2>1 DEF LevelIn
  <2> QED BY <2>2, NoPlanesDark DEF Dark
<1> QED BY <1>1 DEF PictureIn, Blank

\* The planes of a cell hold the level of the colour that was written to it.
LEMMA ColourHeld ==
  ASSUME Depth >= 3, NEW colour \in Colours, NEW planes, NEW cell,
         \A p \in Planes : planes[p][cell] = BitsOf(colour, p)
  PROVE  LevelIn(planes, cell) = Level(colour)
<1> SUFFICES ASSUME NEW ch \in Channels
             PROVE  Weight[{p \in Planes : ch \in planes[p][cell]}] = GammaTable[colour[ch]]
  BY DEF LevelIn, Level
<1> PICK level \in 0 .. 7 : level = GammaTable[colour[ch]]
  <2>1. colour[ch] \in 0 .. 255
    BY DEF Colours
  <2> QED BY <2>1, GammaTyped
<1>1. {p \in Planes : ch \in planes[p][cell]} = PlanesOf(level)
  BY DEF BitsOf, PlanesOf
<1>2. Weight[PlanesOf(level)] = level
  BY LevelKept
<1> QED BY <1>1, <1>2

\* set_pixel over a painting paints what it names that is on the display, in its
\* levels, and nothing else.
LEMMA SetPixelsPaints ==
  ASSUME Depth >= 3, NEW painting, Painting(painting), SetPixels(painting)
  PROVE  PictureIn(back_planes)' = Over(PictureIn(back_planes), Stroke(painting))
<1> DEFINE pixels == Written(painting)
           cells == {CellOf(q[1], q[2]) : q \in pixels}
           which(cell) == CHOOSE q \in pixels : CellOf(q[1], q[2]) = cell
           colour == [cell \in cells |-> painting[which(cell)]]
<1>1. back_planes' = [p \in Planes |-> [cell \in Cells \cup cells |->
        IF cell \in cells THEN BitsOf(colour[cell], p) ELSE back_planes[p][cell]]]
  BY DEF SetPixels
<1>2. pixels = DOMAIN painting \cap VirtPixels
  <2>1. ASSUME NEW q \in DOMAIN painting PROVE OnDisplay(q[1], q[2]) <=> q \in VirtPixels
    <3>1. q = <<q[1], q[2]>>
      BY DEF Painting
    <3> QED BY <3>1 DEF OnDisplay, VirtPixels
  <2> QED BY <2>1, ClippingSuffices
<1>3. ASSUME NEW p \in VirtPixels
      PROVE  LevelIn(back_planes', CellOf(p[1], p[2])) =
               IF p \in DOMAIN painting THEN Level(painting[p])
               ELSE LevelIn(back_planes, CellOf(p[1], p[2]))
  <2> PICK cell \in Cells : cell = CellOf(p[1], p[2])
    BY PixelsHaveCells
  <2>1. ASSUME NEW q \in pixels, CellOf(q[1], q[2]) = cell PROVE q = p
    BY <1>2, <2>1, PixelsHaveCells
  <2>2. CASE p \in DOMAIN painting
    <3>1. p \in pixels /\ cell \in cells
      BY <1>2, <2>2
    <3>2. which(cell) = p
      <4> HIDE DEF pixels
      <4> QED BY <2>1, <3>1
    <3>3. colour[cell] = painting[p]
      <4> HIDE DEF cells, which
      <4> QED BY <3>1, <3>2
    <3> HIDE DEF cells, colour
    <3>4. \A pl \in Planes : back_planes'[pl][cell] = BitsOf(painting[p], pl)
      BY <1>1, <3>1, <3>3
    <3>5. painting[p] \in Colours
      BY <2>2 DEF Painting
    <3>6. LevelIn(back_planes', cell) = Level(painting[p])
      BY <3>4, <3>5, ColourHeld
    <3> QED BY <2>2, <3>6
  <2>3. CASE p \notin DOMAIN painting
    <3>1. cell \notin cells
      BY <1>2, <2>1, <2>3
    <3> HIDE DEF cells, colour
    <3>2. \A pl \in Planes : back_planes'[pl][cell] = back_planes[pl][cell]
      BY <1>1, <3>1
    <3>3. LevelIn(back_planes', cell) = LevelIn(back_planes, cell)
      BY <3>2 DEF LevelIn
    <3> QED BY <2>3, <3>3
  <2> QED BY <2>2, <2>3
<1>4. PictureIn(back_planes)' = [p \in VirtPixels |-> LevelIn(back_planes', CellOf(p[1], p[2]))]
  BY DEF PictureIn
<1> QED BY <1>3, <1>4 DEF PictureIn, Over, Stroke

\* draw_text and draw_bitmap_rgb name pixels, and give them 8-bit colours.
LEMMA TextPaints ==
  ASSUME NEW x, NEW y, NEW text, NEW colour \in Colours
  PROVE  Painting(TextPainting(x, y, text, colour))
<1>1. ASSUME NEW q \in TextPixels(x, y, text) PROVE q = <<q[1], q[2]>>
  <2> PICK k \in DOMAIN text : q \in CharPixels(x + (k - 1) * (FontWidth + 1), y, text[k])
    BY DEF TextPixels
  <2> PICK at : q \in CharPixels(at, y, text[k])
    OBVIOUS
  <2> PICK dot : q = <<at + dot[2], y + dot[1]>>
    BY DEF CharPixels
  <2> QED OBVIOUS
<1> QED BY <1>1 DEF Painting, TextPainting

LEMMA BitmapPaints ==
  ASSUME NEW call \in Bitmaps
  PROVE  Painting(OfBitmap(call))
<1>1. /\ call.x \in Int /\ call.y \in Int /\ call.w \in Nat /\ call.h \in Nat
      /\ DOMAIN call.bmp = 1 .. call.w * call.h
      /\ \A k \in DOMAIN call.bmp : call.bmp[k] \in Colours
  BY GeometryAssumption DEF InARow
<1>2. ASSUME NEW q \in (call.x .. call.x + call.w - 1) \X (call.y .. call.y + call.h - 1)
      PROVE  q = <<q[1], q[2]>> /\ (q[2] - call.y) * call.w + (q[1] - call.x) + 1 \in DOMAIN call.bmp
  <2> PICK w \in Nat : w = call.w
    BY <1>1
  <2> PICK h \in Nat : h = call.h
    BY <1>1
  <2>1. w \in Nat \ {0} /\ q[2] - call.y \in 0 .. h - 1 /\ q[1] - call.x \in 0 .. w - 1
    <3> PICK x \in Int : x = call.x
      BY <1>1
    <3> PICK y \in Int : y = call.y
      BY <1>1
    <3>1. q[1] \in x .. x + w - 1 /\ q[2] \in y .. y + h - 1
      OBVIOUS
    <3>2. w \in Nat \ {0} /\ q[2] - y \in 0 .. h - 1 /\ q[1] - x \in 0 .. w - 1
      BY <3>1
    <3> QED BY <3>2
  <2> PICK a \in 0 .. h - 1 : a = q[2] - call.y
    BY <2>1
  <2> PICK b \in 0 .. w - 1 : b = q[1] - call.x
    BY <2>1
  <2>2. PlaceIn(a * w + b, h, w, a, b)
    BY <2>1, RowMajor, Zenon
  <2>3. a * w + b + 1 \in 1 .. w * h
    <3> DEFINE n == a * w + b
               size == h * w
    <3>1. n \in 0 .. size - 1 /\ size = w * h
      <4>1. n \in 0 .. size - 1
        BY <2>2 DEF PlaceIn
      <4>2. size = w * h
        OBVIOUS
      <4> QED BY <4>1, <4>2
    <3>2. n + 1 \in 1 .. size
      <4> HIDE DEF n, size
      <4> QED BY <3>1
    <3> QED BY <3>1, <3>2
  <2> QED BY <1>1, <2>3
<1> QED BY <1>1, <1>2 DEF Painting, OfBitmap

LEMMA CallPaints ==
  /\ \A call \in Texts : Painting(OfText(call))
  /\ \A call \in Bitmaps : Painting(OfBitmap(call))
  /\ \A call \in Scrolls : \A n : Painting(ScrollFrame(call, n))
<1>1. \A call \in Texts : call.colour \in Colours
  BY GeometryAssumption
<1>2. \A call \in Scrolls : call.colour \in Colours
  BY GeometryAssumption
<1>3. \A call \in Texts : Painting(OfText(call))
  BY <1>1, TextPaints DEF OfText
<1>4. ASSUME NEW call \in Scrolls, NEW n PROVE Painting(ScrollFrame(call, n))
  BY <1>2, TextPaints DEF ScrollFrame
<1> QED BY <1>3, <1>4, BitmapPaints

(***************************************************************************)
(* PanelGeometry implements PanelCanvas.                                   *)
(***************************************************************************)

\* A complete scan shows the picture that the front planes hold.
LEMMA PassShows ==
  ASSUME RefreshPass
  PROVE  [p \in VirtPixels |-> light[CellOf(p[1], p[2])]]' = PictureIn(front_planes)
<1>1. ASSUME NEW p \in VirtPixels
      PROVE  light'[CellOf(p[1], p[2])] = LevelIn(front_planes, CellOf(p[1], p[2]))
  <2> PICK cell \in Cells : cell = CellOf(p[1], p[2])
    BY PixelsHaveCells
  <2>1. ASSUME NEW ch \in Channels
        PROVE  LET lit == Weight[{pl \in Planes : ch \in front_planes[pl][cell]}]
               IN Visits[cell] * lit = lit
    <3>1. Weight[{pl \in Planes : ch \in front_planes[pl][cell]}] \in Nat
      BY WeightTyped
    <3>2. Visits[cell] = 1
      BY CellsReadOnce
    <3> QED BY <3>1, <3>2
  <2>2. light'[cell] = [ch \in Channels |->
          Visits[cell] * Weight[{pl \in Planes : ch \in front_planes[pl][cell]}]]
    BY DEF RefreshPass
  <2> QED BY <2>1, <2>2 DEF LevelIn
<1> QED BY <1>1 DEF PictureIn

LEMMA CanvasInit ==
  ASSUME Init
  PROVE  Canvas!Init
<1>1. PictureIn(back_planes) = Blank /\ PictureIn(front_planes) = Blank
  BY AllOffBlank DEF Init
<1>2. [p \in VirtPixels |-> light[CellOf(p[1], p[2])]] = Blank
  <2>1. ASSUME NEW p \in VirtPixels PROVE light[CellOf(p[1], p[2])] = Dark
    BY PixelsHaveCells DEF Init, Dark
  <2> QED BY <2>1 DEF Blank
<1>3. Canvas!BlackPicture = Blank
  BY DEF Canvas!BlackPicture, Canvas!Pixels, VirtPixels, Blank, Dark
<1> QED BY <1>1, <1>2, <1>3 DEF Canvas!Init

LEMMA CanvasStep ==
  ASSUME Depth >= 3, GeomInv, [Next]_vars
  PROVE  [Canvas!Next]_(Canvas!vars)
<1> DEFINE seen == [p \in VirtPixels |-> light[CellOf(p[1], p[2])]]
<1>s. ASSUME UNCHANGED light PROVE UNCHANGED seen
  BY <1>s
<1>p. ASSUME UNCHANGED front_planes PROVE UNCHANGED PictureIn(front_planes)
  BY <1>p DEF PictureIn, LevelIn
<1>b. ASSUME UNCHANGED back_planes PROVE UNCHANGED PictureIn(back_planes)
  BY <1>b DEF PictureIn, LevelIn
<1>0. ASSUME UNCHANGED <<front_planes, back_planes, light>> PROVE UNCHANGED Canvas!vars
  BY <1>0, <1>s, <1>p, <1>b DEF Canvas!vars
<1>d. ASSUME NEW painting, Painting(painting), SetPixels(painting),
             Stroke(painting) \in CallStrokes, UNCHANGED <<front_planes, light>>
      PROVE  Canvas!Next
  <2>1. PictureIn(back_planes)' = Over(PictureIn(back_planes), Stroke(painting))
    BY <1>d, SetPixelsPaints
  <2>2. Canvas!Paint(Stroke(painting))
    BY <1>d, <1>s, <1>p, <2>1 DEF Canvas!Paint, Canvas!Pixels, VirtPixels, Over
  <2> QED BY <1>d, <2>2 DEF Canvas!Next
<1>c. ASSUME ClearPlanes PROVE Canvas!Next
  <2>1. PictureIn(back_planes)' = Blank
    BY <1>c, AllOffBlank DEF ClearPlanes, PictureIn, LevelIn
  <2>2. Canvas!BlackPicture = Blank
    BY DEF Canvas!BlackPicture, Canvas!Pixels, VirtPixels, Blank, Dark
  <2>3. Canvas!Clear
    BY <1>c, <1>s, <1>p, <2>1, <2>2 DEF Canvas!Clear, ClearPlanes
  <2> QED BY <2>3 DEF Canvas!Next
<1>x. ASSUME SwapPlanes PROVE Canvas!Next
  <2>1. /\ PictureIn(front_planes)' = PictureIn(back_planes)
        /\ PictureIn(back_planes)' = PictureIn(front_planes)
    BY <1>x DEF SwapPlanes, PictureIn, LevelIn
  <2>2. Canvas!Exchange
    BY <1>x, <1>s, <2>1 DEF Canvas!Exchange, SwapPlanes
  <2> QED BY <2>2 DEF Canvas!Next
<1>1. CASE DrawText
  <2> PICK call \in Texts : Draw(OfText(call))
    BY <1>1 DEF DrawText
  <2>1. Stroke(OfText(call)) \in CallStrokes
    BY DEF CallStrokes
  <2> QED BY <1>d, <2>1, CallPaints DEF Draw
<1>2. CASE DrawBitmap
  <2> PICK call \in Bitmaps : Draw(OfBitmap(call))
    BY <1>2 DEF DrawBitmap
  <2>1. Stroke(OfBitmap(call)) \in CallStrokes
    BY DEF CallStrokes
  <2> QED BY <1>d, <2>1, CallPaints DEF Draw
<1>3. CASE ScrollDraws
  <2> PICK call \in Scrolls : call = scroll_call
    BY <1>3 DEF ScrollDraws, ScrollTo, GeomInv, ScrollPlaced
  <2> PICK n \in 0 .. TotalScroll(call.text) - 1 : n = scroll_x
    BY <1>3, ScrollLength DEF ScrollDraws, ScrollTo, GeomInv, ScrollPlaced, TypeOK
  <2>1. Stroke(ScrollFrame(call, n)) \in CallStrokes
    BY DEF CallStrokes
  <2>2. SetPixels(ScrollFrame(call, n)) /\ UNCHANGED <<front_planes, light>>
    BY <1>3 DEF ScrollDraws
  <2> QED BY <1>d, <2>1, <2>2, CallPaints
<1>4. CASE ClearBackBuffer \/ ScrollClears
  BY <1>4, <1>c DEF ClearBackBuffer, ScrollClears
<1>5. CASE SwapBuffers \/ ScrollSwaps
  BY <1>5, <1>x DEF SwapBuffers, ScrollSwaps
<1>6. CASE RefreshPass
  <2>1. Canvas!View
    BY <1>6, <1>p, <1>b, PassShows DEF Canvas!View, RefreshPass
  <2> QED BY <2>1 DEF Canvas!Next
<1>7. CASE ScrollBegins \/ ScrollNext \/ UNCHANGED vars
  BY <1>7, <1>0 DEF ScrollBegins, ScrollNext, vars
<1> QED BY <1>1, <1>2, <1>3, <1>4, <1>5, <1>6, <1>7 DEF Next, ScrollStep

\* led_panel.c keeps the promise of PanelCanvas whenever there are planes for the
\* three bits of the gamma table: a drawing call paints the pixels of the display
\* it names, clipped at its edges, and no other; and a viewer of a complete scan
\* sees every pixel in its gamma level.
THEOREM ImplementsCanvas ==
  ASSUME Depth >= 3
  PROVE  Spec => PaintsWhatItNames
<1>1. Init => Canvas!Init
  BY CanvasInit
<1>2. Init => GeomInv
  BY GeomInvInit
<1>3. GeomInv /\ [Next]_vars => GeomInv'
  BY GeomInvStep
<1>4. GeomInv /\ [Next]_vars => [Canvas!Next]_(Canvas!vars)
  BY CanvasStep
<1> QED BY <1>1, <1>2, <1>3, <1>4, PTL DEF Spec, PaintsWhatItNames, Canvas!Spec

(***************************************************************************)
(* scroll_text, frame by frame. After each swap the front planes show the  *)
(* frame just drawn and the back planes still hold the one before it, all  *)
(* through the next frame's clearing.                                      *)
(***************************************************************************)

\* What frame n of a call shows: the text where it is then, and nothing else.
ScrollPicture(call, n) == Over(Blank, Stroke(ScrollFrame(call, n)))

FramesInv ==
  /\ scroller = "draw" => PictureIn(back_planes) = Blank
  /\ scroller = "swap" => PictureIn(back_planes) = ScrollPicture(scroll_call, scroll_x)
  /\ scroller = "swapped" => PictureIn(front_planes) = ScrollPicture(scroll_call, scroll_x)
  /\ scroller \in {"clear", "draw", "swap"} /\ scroll_x > 0 =>
       PictureIn(front_planes) = ScrollPicture(scroll_call, scroll_x - 1)
  /\ scroller = "swapped" /\ scroll_x > 0 =>
       PictureIn(back_planes) = ScrollPicture(scroll_call, scroll_x - 1)

\* draw_char: the dots of a character are within its width.
LEMMA GlyphTyped ==
  ASSUME NEW c, NEW dot \in Glyph(c)
  PROVE  dot[1] \in Nat /\ dot[2] \in 0 .. FontWidth - 1
<1> PICK d \in DOMAIN Font : dot \in Font[d]
  BY GeometryAssumption DEF Glyph, Dots
<1> QED BY GeometryAssumption

\* draw_text: where the pixels of a text are.
LEMMA TextPlaces ==
  ASSUME NEW x, NEW y, NEW text, NEW q
  PROVE  q \in TextPixels(x, y, text) <=>
           \E k \in DOMAIN text : \E dot \in Glyph(text[k]) :
              q = <<(x + (k - 1) * (FontWidth + 1)) + dot[2], y + dot[1]>>
  BY DEF TextPixels, CharPixels

\* A text drawn one column further is the same text one column further.
LEMMA TextMoves ==
  ASSUME NEW x \in Int, NEW y \in Int, NEW text, InARow(text), NEW i \in Int, NEW j \in Int
  PROVE  <<i, j>> \in TextPixels(x, y, text) <=> <<i + 1, j>> \in TextPixels(x + 1, y, text)
<1>1. ASSUME NEW k \in DOMAIN text, NEW dot \in Glyph(text[k])
      PROVE  <<i, j>> = <<(x + (k - 1) * (FontWidth + 1)) + dot[2], y + dot[1]>> <=>
             <<i + 1, j>> = <<((x + 1) + (k - 1) * (FontWidth + 1)) + dot[2], y + dot[1]>>
  <2>1. k \in Nat /\ FontWidth \in Nat /\ dot[2] \in Nat
    BY GeometryAssumption, GlyphTyped DEF InARow
  <2> PICK at : at = (k - 1) * (FontWidth + 1)
    OBVIOUS
  <2>2. at \in Int
    BY <2>1
  <2>3. i = (x + at) + dot[2] <=> i + 1 = ((x + 1) + at) + dot[2]
    BY <2>1, <2>2
  <2> QED BY <2>3
<1>2. <<i, j>> \in TextPixels(x, y, text) <=>
        \E k \in DOMAIN text : \E dot \in Glyph(text[k]) :
          <<i, j>> = <<(x + (k - 1) * (FontWidth + 1)) + dot[2], y + dot[1]>>
  BY TextPlaces
<1>3. <<i + 1, j>> \in TextPixels(x + 1, y, text) <=>
        \E k \in DOMAIN text : \E dot \in Glyph(text[k]) :
          <<i + 1, j>> = <<((x + 1) + (k - 1) * (FontWidth + 1)) + dot[2], y + dot[1]>>
  BY TextPlaces
<1> QED BY <1>1, <1>2, <1>3, Zenon

\* draw_text: a text stays within the width that scroll_text computes for it.
LEMMA TextWidth ==
  ASSUME NEW x \in Int, NEW y \in Int, NEW text, InARow(text),
         NEW q \in TextPixels(x, y, text), q[1] \in Int
  PROVE  q[1] >= x /\ q[1] < x + Len(text) * (FontWidth + 1) - 1
<1>1. PICK k \in DOMAIN text : \E dot \in Glyph(text[k]) :
        q = <<(x + (k - 1) * (FontWidth + 1)) + dot[2], y + dot[1]>>
  BY TextPlaces
<1>2. PICK dot \in Glyph(text[k]) :
        q = <<(x + (k - 1) * (FontWidth + 1)) + dot[2], y + dot[1]>>
  BY <1>1
<1>3. /\ FontWidth \in Nat /\ dot[2] \in 0 .. FontWidth - 1
      /\ Len(text) \in Nat /\ k \in 1 .. Len(text)
  BY GeometryAssumption, GlyphTyped DEF InARow
<1>4. PICK w \in Nat : w = FontWidth + 1
  BY <1>3
<1>5. PICK n \in Nat : n = Len(text)
  BY <1>3
<1>6. PICK l \in Nat : l = k - 1 /\ l + 1 <= n
  BY <1>3, <1>5
<1>7. PICK m \in Nat : n = m + 1 /\ l <= m
  BY <1>6
<1>8. PICK d \in Nat : d = dot[2] /\ d + 2 <= w
  BY <1>3, <1>4
<1>9. PICK i \in Int : i = q[1]
  OBVIOUS
<1>10. l * w \in Nat /\ m * w \in Nat /\ l * w <= m * w
  BY <1>7, TimesGrows
<1>11. n * w = m * w + w
  BY <1>7
<1>12. i = (x + l * w) + d
  BY <1>2, <1>4, <1>6, <1>8, <1>9
<1> DEFINE low == l * w
           high == m * w
           all == n * w
<1>13. i >= x /\ i < x + all - 1
  <2>1. low \in Nat /\ high \in Nat /\ low <= high /\ all = high + w /\ i = (x + low) + d
    BY <1>10, <1>11, <1>12
  <2> HIDE DEF low, high, all
  <2> QED BY <1>8, <2>1
<1> QED BY <1>4, <1>5, <1>9, <1>13

LEMMA ScrollTyped ==
  ASSUME NEW call \in Scrolls
  PROVE  call.y \in Int /\ InARow(call.text) /\ call.colour \in Colours
  BY GeometryAssumption

\* What a frame shows, pixel by pixel.
LEMMA FramePixels ==
  ASSUME NEW call \in Scrolls, NEW n, NEW p \in VirtPixels
  PROVE  ScrollPicture(call, n)[p] =
           IF p \in TextPixels(VirtWidth - n, call.y, call.text) THEN Level(call.colour) ELSE Dark
<1>1. ScrollFrame(call, n) =
        [q \in TextPixels(VirtWidth - n, call.y, call.text) |-> call.colour]
  BY DEF ScrollFrame, TextPainting
<1>2. Stroke(ScrollFrame(call, n)) =
        [q \in TextPixels(VirtWidth - n, call.y, call.text) |-> Level(call.colour)]
  BY <1>1 DEF Stroke
<1> QED BY <1>2 DEF ScrollPicture, Over, Blank

\* The first frame has the text right of the display, the last one left of it.
LEMMA EndsBlank ==
  ASSUME NEW call \in Scrolls, NEW n \in {0, TotalScroll(call.text) - 1}
  PROVE  ScrollPicture(call, n) = Blank
<1>1. ASSUME NEW p \in VirtPixels PROVE p \notin TextPixels(VirtWidth - n, call.y, call.text)
  <2> SUFFICES ASSUME p \in TextPixels(VirtWidth - n, call.y, call.text) PROVE FALSE
    OBVIOUS
  <2>1. p[1] \in 0 .. VirtWidth - 1 /\ VirtWidth \in Nat
    BY Sizes DEF VirtPixels
  <2>2. n \in Nat
    BY ScrollLength
  <2> PICK x \in Int : x = VirtWidth - n
    BY <2>1, <2>2
  <2> PICK w : w = Len(call.text) * (FontWidth + 1)
    OBVIOUS
  <2>3. p[1] >= x /\ p[1] < x + w - 1
    BY <2>1, ScrollTyped, TextWidth
  <2>4. w \in Int /\ TotalScroll(call.text) = w + VirtWidth
    BY ScrollLength
  <2> QED BY <2>1, <2>2, <2>3, <2>4
<1>2. ASSUME NEW p \in VirtPixels PROVE ScrollPicture(call, n)[p] = Dark
  BY <1>1, FramePixels
<1> QED BY <1>2 DEF ScrollPicture, Over, Blank

\* From one frame to the next everything moves one pixel to the left.
LEMMA FrameMoves ==
  ASSUME NEW call \in Scrolls, NEW n \in Nat, n > 0, NEW p \in VirtPixels, p[1] > 0
  PROVE  ScrollPicture(call, n)[<<p[1] - 1, p[2]>>] = ScrollPicture(call, n - 1)[p]
<1>1. /\ VirtWidth \in Nat /\ p = <<p[1], p[2]>> /\ p[1] \in Int /\ p[2] \in Int
      /\ <<p[1] - 1, p[2]>> \in VirtPixels
  BY Sizes DEF VirtPixels
<1> PICK x \in Int : x = VirtWidth - n
  BY <1>1
<1> PICK i \in Int : i = p[1] - 1
  BY <1>1
<1>2. x + 1 = VirtWidth - (n - 1) /\ p = <<i + 1, p[2]>>
  BY <1>1
<1>3. <<i, p[2]>> \in TextPixels(x, call.y, call.text) <=>
        <<i + 1, p[2]>> \in TextPixels(x + 1, call.y, call.text)
  BY <1>1, ScrollTyped, TextMoves
<1>4. ScrollPicture(call, n)[<<i, p[2]>>] =
        IF <<i, p[2]>> \in TextPixels(x, call.y, call.text) THEN Level(call.colour) ELSE Dark
  BY <1>1, FramePixels
<1>5. ScrollPicture(call, n - 1)[p] =
        IF p \in TextPixels(x + 1, call.y, call.text) THEN Level(call.colour) ELSE Dark
  BY <1>1, <1>2, FramePixels
<1> QED BY <1>2, <1>3, <1>4, <1>5

\* The steps that touch neither the planes nor the scroll.
LEMMA FramesKept ==
  ASSUME FramesInv, UNCHANGED <<front_planes, back_planes, scrollVars>>
  PROVE  FramesInv'
<1>1. /\ PictureIn(front_planes)' = PictureIn(front_planes)
      /\ PictureIn(back_planes)' = PictureIn(back_planes)
  BY DEF PictureIn, LevelIn
<1>2. scroller' = scroller /\ scroll_x' = scroll_x /\ scroll_call' = scroll_call
  BY DEF scrollVars
<1> QED BY <1>1, <1>2 DEF FramesInv

LEMMA FramesStep ==
  ASSUME Depth >= 3, GeomInv, FramesInv, [Next]_vars
  PROVE  FramesInv'
<1> DEFINE front == PictureIn(front_planes)
           back == PictureIn(back_planes)
<1>0. scroll_x \in Nat
  BY DEF GeomInv, TypeOK
<1>1. CASE DrawText \/ DrawBitmap \/ ClearBackBuffer \/ SwapBuffers
  <2>1. scroller = "idle" /\ UNCHANGED scroller
    BY <1>1 DEF DrawText, DrawBitmap, Draw, ClearBackBuffer, SwapBuffers, scrollVars
  <2> QED BY <2>1 DEF FramesInv
<1>2. CASE ScrollBegins
  <2>1. scroller' = "clear" /\ scroll_x' = 0
    BY <1>2 DEF ScrollBegins, GeomInv, ScrollPlaced
  <2> QED BY <2>1 DEF FramesInv
<1>3. CASE ScrollClears
  <2>1. scroller = "clear" /\ scroller' = "draw" /\ UNCHANGED <<front_planes, scroll_x, scroll_call>>
    BY <1>3 DEF ScrollClears, ScrollTo, ClearPlanes
  <2>2. back' = Blank
    BY <1>3, AllOffBlank DEF ScrollClears, ClearPlanes, PictureIn, LevelIn
  <2>3. front' = front
    BY <2>1 DEF PictureIn, LevelIn
  <2>4. scroll_x > 0 => front = ScrollPicture(scroll_call, scroll_x - 1)
    BY <2>1 DEF FramesInv
  <2> QED BY <2>1, <2>2, <2>3, <2>4 DEF FramesInv, ScrollPicture, Over, Blank, Dark
<1>4. CASE ScrollDraws
  <2>1. scroller = "draw" /\ scroller' = "swap" /\ UNCHANGED <<front_planes, scroll_x, scroll_call>>
    BY <1>4 DEF ScrollDraws, ScrollTo
  <2> PICK call \in Scrolls : call = scroll_call
    BY <2>1 DEF GeomInv, ScrollPlaced
  <2> PICK n : n = scroll_x
    OBVIOUS
  <2>2. back' = Over(back, Stroke(ScrollFrame(call, n)))
    <3>1. SetPixels(ScrollFrame(call, n)) /\ Painting(ScrollFrame(call, n))
      BY <1>4, CallPaints DEF ScrollDraws
    <3> QED BY <3>1, SetPixelsPaints
  <2>3. back = Blank
    BY <2>1 DEF FramesInv
  <2>4. back' = ScrollPicture(call, n)
    BY <2>2, <2>3 DEF ScrollPicture
  <2>5. front' = front
    BY <2>1 DEF PictureIn, LevelIn
  <2>6. scroll_x > 0 => front = ScrollPicture(scroll_call, scroll_x - 1)
    BY <2>1 DEF FramesInv
  <2>7. scroll_call' = call /\ scroll_x' = n
    BY <2>1
  <2> QED BY <2>1, <2>4, <2>5, <2>6, <2>7 DEF FramesInv
<1>5. CASE ScrollSwaps
  <2>1. scroller = "swap" /\ scroller' = "swapped" /\ UNCHANGED <<scroll_x, scroll_call>>
    BY <1>5 DEF ScrollSwaps, ScrollTo
  <2>2. front' = back /\ back' = front
    BY <1>5 DEF ScrollSwaps, SwapPlanes, PictureIn, LevelIn
  <2>3. /\ back = ScrollPicture(scroll_call, scroll_x)
        /\ scroll_x > 0 => front = ScrollPicture(scroll_call, scroll_x - 1)
    BY <2>1 DEF FramesInv
  <2> QED BY <2>1, <2>2, <2>3 DEF FramesInv
<1>6. CASE ScrollNext
  <2>1. CASE scroller' = "idle"
    BY <2>1 DEF FramesInv
  <2>2. CASE scroller' # "idle"
    <3>1. /\ scroller = "swapped" /\ scroller' = "clear" /\ scroll_x' = scroll_x + 1
          /\ scroll_call' = scroll_call /\ UNCHANGED front_planes
      BY <1>6, <2>2 DEF ScrollNext
    <3>2. front' = front /\ front = ScrollPicture(scroll_call, scroll_x)
      BY <3>1 DEF FramesInv, PictureIn, LevelIn
    <3>3. scroll_x' - 1 = scroll_x
      BY <1>0, <3>1
    <3> QED BY <3>1, <3>2, <3>3 DEF FramesInv
  <2> QED BY <2>1, <2>2
<1>7. CASE RefreshPass \/ UNCHANGED vars
  <2>1. UNCHANGED <<front_planes, back_planes, scrollVars>>
    BY <1>7 DEF RefreshPass, vars
  <2> QED BY <2>1, FramesKept
<1> QED BY <1>1, <1>2, <1>3, <1>4, <1>5, <1>6, <1>7 DEF Next, ScrollStep

LEMMA FramesGoThrough ==
  ASSUME GeomInv, FramesInv
  PROVE  ScrollsThrough
<1> SUFFICES ASSUME scroller = "swapped" PROVE ScrollsThrough
  BY DEF ScrollsThrough
<1> PICK call \in Scrolls : call = scroll_call
  BY DEF GeomInv, ScrollPlaced
<1> PICK n \in Nat : n = scroll_x
  BY DEF GeomInv, TypeOK
<1>1. PictureIn(front_planes) = ScrollPicture(call, n)
  BY DEF FramesInv
<1>2. n > 0 => PictureIn(back_planes) = ScrollPicture(call, n - 1)
  BY DEF FramesInv
<1>3. n \in {0, TotalScroll(call.text) - 1} => PictureIn(front_planes) = Blank
  BY <1>1, EndsBlank
<1>4. ASSUME n > 0, NEW p \in VirtPixels, p[1] > 0
      PROVE  PictureIn(front_planes)[<<p[1] - 1, p[2]>>] = PictureIn(back_planes)[p]
  BY <1>1, <1>2, <1>4, FrameMoves
<1> QED BY <1>3, <1>4 DEF ScrollsThrough, Blank, Dark

\* scroll_text: every text, of any length and at any height, comes in from the
\* right edge, moves one pixel to the left per frame, and is off the left edge in
\* the last frame of a call that stop_flag does not end.
THEOREM TextScrollsThrough ==
  ASSUME Depth >= 3
  PROVE  Spec => []ScrollsThrough
<1>1. Init => GeomInv /\ FramesInv
  BY GeomInvInit DEF Init, FramesInv
<1>2. GeomInv /\ FramesInv /\ [Next]_vars => GeomInv' /\ FramesInv'
  BY GeomInvStep, FramesStep
<1>3. GeomInv /\ FramesInv => ScrollsThrough
  BY FramesGoThrough
<1> QED BY <1>1, <1>2, <1>3, PTL DEF Spec
=============================================================================
